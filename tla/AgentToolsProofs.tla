---------------------------- MODULE AgentToolsProofs ----------------------------
(***************************************************************************)
(* The tools that suspend a run or run another.  The reports of the Agent  *)
(* tools agree, for any number of tool calls, children, deliveries and     *)
(* cancellations; what AskQuestion suspends a run on its host accepts and  *)
(* its user can answer, whatever bounds, steps and defaults a model gives. *)
(***************************************************************************)
EXTENDS AgentTools, Questions, FiniteSetTheorems, TLAPS

RecordType == [run : Runs, call : AgentCalls, background : BOOLEAN,
               status : {"running"} \cup TerminalStatuses, requested : BOOLEAN, sent : BOOLEAN,
               started : BOOLEAN, paused : BOOLEAN,
               outcome : {"none", "completed", "failed", "limited", "suspended", "suspended_as_cancelled",
                          "raised", "interrupted", "paused"},
               long : BOOLEAN, done : BOOLEAN]

CallType == [tool : {"none", "Agent", "AgentGet", "AgentWait", "AgentCancel"}, run : Runs,
             background : BOOLEAN, agent : Int, phase : {"idle", "starting", "cancelling", "answered", "abandoned"},
             answer : {"none", "success", "accepted", "waiting", "agent_conflict", "agent_not_found",
                       "invalid_agent_snapshot", "agent_backend_error"},
             tries : Int]

(* One record r of itself: the terminal status is published once, by the   *)
(* supervisor that is then done, and follows from the outcome; and only a  *)
(* child that was asked to pause can have ended by pausing.                *)
RecordFits(r) ==
    /\ r.status \in TerminalStatuses => r.done
    /\ r.done => r.outcome # "none"
    /\ r.status = "cancelled" => r.outcome \in {"paused", "suspended_as_cancelled"}
    /\ r.outcome = "paused" => r.paused
    /\ r.paused => r.sent

AgentsFit ==
    /\ agents \in Seq(RecordType)
    /\ \A a \in DOMAIN agents : RecordFits(agents[a])
    /\ \A a, b \in DOMAIN agents : agents[a].run = agents[b].run /\ agents[a].call = agents[b].call => a = b

Owns(run, a) == a \in DOMAIN agents /\ agents[a].run = run

(* A call that may still answer with a child, and a parent that waits for  *)
(* one, belong to the run that owns the child.                             *)
CallsFit ==
    /\ agentCall \in [AgentCalls -> CallType]
    /\ \A c \in AgentCalls :
          agentCall[c].tool = "Agent" \/ agentCall[c].phase \in {"starting", "cancelling"}
              => Owns(agentCall[c].run, agentCall[c].agent)

WaitFits == parent.state = "suspended" => Owns("parent", parent.wait.agent)

ToldFits ==
    \A t \in told :
        /\ Owns(t.run, t.agent)
        /\ t.status = agents[t.agent].status /\ agents[t.agent].done
        /\ t.status = "cancelled" =>
               agents[t.agent].paused \/ agents[t.agent].outcome = "suspended_as_cancelled"

AgentInv == AgentsFit /\ CallsFit /\ WaitFits /\ ToldFits

-----------------------------------------------------------------------------
(* What no step may do to the records: lose one, give it to another run or *)
(* call, or change what it has published.                                  *)
Lasts(r, s) ==
    /\ s.run = r.run /\ s.call = r.call
    /\ r.done => s.done /\ s.status = r.status /\ s.outcome = r.outcome /\ (r.paused => s.paused)

RecordsLast ==
    /\ DOMAIN agents \subseteq DOMAIN agents'
    /\ \A a \in DOMAIN agents : Lasts(agents[a], agents'[a])

LEMMA SameRecords == ASSUME AgentInv, agents' = agents PROVE AgentsFit' /\ RecordsLast
BY DEF AgentInv, AgentsFit, RecordFits, RecordsLast, Lasts

LEMMA NewChild ==
    ASSUME AgentInv, NEW c \in AgentCalls, NEW run \in Runs, NEW background \in BOOLEAN,
           OwnedBy(run, c) = {}, agents' = Append(agents, NewRecord(run, c, background))
    PROVE  /\ AgentsFit' /\ RecordsLast
           /\ Len(agents) + 1 \in DOMAIN agents' /\ agents'[Len(agents) + 1].run = run
<1> DEFINE r == NewRecord(run, c, background)
<1>1. r \in RecordType /\ RecordFits(r) /\ r.run = run /\ r.call = c
  BY DEF NewRecord, RecordType, RecordFits, TerminalStatuses
<1> HIDE DEF r
<1>2. /\ agents \in Seq(RecordType) /\ Len(agents) \in Nat /\ DOMAIN agents = 1..Len(agents)
      /\ agents' \in Seq(RecordType) /\ DOMAIN agents' = 1..(Len(agents) + 1)
      /\ \A a \in 1..Len(agents) : agents'[a] = agents[a]
      /\ agents'[Len(agents) + 1] = r
  BY <1>1 DEF AgentInv, AgentsFit, r
<1>3. \A a \in DOMAIN agents' : a \in DOMAIN agents \/ a = Len(agents) + 1
  BY <1>2
<1>4. \A a \in DOMAIN agents : agents'[a] = agents[a]
  BY <1>2
<1>5. \A a \in DOMAIN agents : ~(agents[a].run = run /\ agents[a].call = c)
  BY DEF OwnedBy
<1>6. \A a \in DOMAIN agents' : RecordFits(agents'[a])
  BY <1>1, <1>2, <1>3, <1>4 DEF AgentInv, AgentsFit
<1>7. \A a, b \in DOMAIN agents' :
          agents'[a].run = agents'[b].run /\ agents'[a].call = agents'[b].call => a = b
  BY <1>1, <1>2, <1>3, <1>4, <1>5 DEF AgentInv, AgentsFit
<1>8. RecordsLast
  <2>1. DOMAIN agents \subseteq DOMAIN agents'
    BY <1>2
  <2> QED
    BY <1>4, <2>1 DEF RecordsLast, Lasts
<1>9. Len(agents) + 1 \in DOMAIN agents'
  BY <1>2
<1> QED
  BY <1>1, <1>2, <1>6, <1>7, <1>8, <1>9 DEF AgentsFit, RecordFits

LEMMA ChangedRecord ==
    ASSUME AgentInv, NEW a \in DOMAIN agents, NEW STATE r, r \in RecordType, RecordFits(r),
           Lasts(agents[a], r), agents' = [agents EXCEPT ![a] = r]
    PROVE  AgentsFit' /\ RecordsLast
<1>1. /\ agents' \in Seq(RecordType) /\ DOMAIN agents' = DOMAIN agents /\ agents'[a] = r
      /\ \A b \in DOMAIN agents \ {a} : agents'[b] = agents[b]
  BY DEF AgentInv, AgentsFit
<1>2. \A b \in DOMAIN agents' : RecordFits(agents'[b])
  BY <1>1 DEF AgentInv, AgentsFit
<1>3. \A b \in DOMAIN agents : Lasts(agents[b], agents'[b])
  BY <1>1 DEF Lasts
<1>4. \A b, d \in DOMAIN agents' :
          agents'[b].run = agents'[d].run /\ agents'[b].call = agents'[d].call => b = d
  BY <1>1, <1>3 DEF AgentInv, AgentsFit, Lasts
<1> QED
  BY <1>1, <1>2, <1>3, <1>4 DEF AgentsFit, RecordFits, RecordsLast

-----------------------------------------------------------------------------
(* What was told stays true.                                               *)
LEMMA ToldLasts ==
    ASSUME AgentInv, RecordsLast,
           \A t \in told' \ told :
               /\ Owns(t.run, t.agent)
               /\ t.status = agents[t.agent].status /\ agents[t.agent].status \in TerminalStatuses
    PROVE  ToldFits'
<1> SUFFICES ASSUME NEW t \in told'
             PROVE  /\ t.agent \in DOMAIN agents' /\ agents'[t.agent].run = t.run
                    /\ t.status = agents'[t.agent].status /\ agents'[t.agent].done
                    /\ t.status = "cancelled" =>
                           agents'[t.agent].paused \/ agents'[t.agent].outcome = "suspended_as_cancelled"
  BY DEF ToldFits, Owns
<1>1. /\ t.agent \in DOMAIN agents /\ agents[t.agent].run = t.run
      /\ t.status = agents[t.agent].status /\ agents[t.agent].done
      /\ t.status = "cancelled" =>
             agents[t.agent].paused \/ agents[t.agent].outcome = "suspended_as_cancelled"
  BY DEF AgentInv, AgentsFit, RecordFits, ToldFits, Owns
<1> QED
  BY <1>1 DEF RecordsLast, Lasts

LEMMA OwnsLasts ==
    ASSUME RecordsLast, NEW run, NEW a, Owns(run, a)
    PROVE  a \in DOMAIN agents' /\ agents'[a].run = run
BY DEF RecordsLast, Lasts, Owns

(* A step that changes one call, to a record k, and leaves the parent.     *)
LEMMA ChangedCall ==
    ASSUME AgentInv, AgentsFit', RecordsLast, NEW c \in AgentCalls, NEW STATE k, k \in CallType,
           agentCall' = [agentCall EXCEPT ![c] = k],
           k.tool = "Agent" \/ k.phase \in {"starting", "cancelling"} =>
               k.agent \in DOMAIN agents' /\ agents'[k.agent].run = k.run
    PROVE  CallsFit'
<1>1. /\ agentCall' \in [AgentCalls -> CallType] /\ agentCall'[c] = k
      /\ \A d \in AgentCalls \ {c} : agentCall'[d] = agentCall[d]
  BY DEF AgentInv, CallsFit
<1>2. ASSUME NEW d \in AgentCalls \ {c},
             agentCall[d].tool = "Agent" \/ agentCall[d].phase \in {"starting", "cancelling"}
      PROVE  agentCall[d].agent \in DOMAIN agents' /\ agents'[agentCall[d].agent].run = agentCall[d].run
  BY <1>2, OwnsLasts DEF AgentInv, CallsFit
<1> QED
  BY <1>1, <1>2 DEF CallsFit, Owns

LEMMA SameCalls ==
    ASSUME AgentInv, RecordsLast, agentCall' = agentCall PROVE CallsFit'
<1>1. ASSUME NEW d \in AgentCalls,
             agentCall[d].tool = "Agent" \/ agentCall[d].phase \in {"starting", "cancelling"}
      PROVE  agentCall[d].agent \in DOMAIN agents' /\ agents'[agentCall[d].agent].run = agentCall[d].run
  BY <1>1, OwnsLasts DEF AgentInv, CallsFit
<1> QED
  BY <1>1 DEF AgentInv, CallsFit, Owns

LEMMA SameParent == ASSUME AgentInv, RecordsLast, parent' = parent PROVE WaitFits'
BY OwnsLasts DEF AgentInv, WaitFits, Owns

-----------------------------------------------------------------------------
LEMMA SettledCall ==
    ASSUME AgentInv, NEW c \in AgentCalls, agents' = agents,
           NEW answer \in {"success", "accepted", "waiting", "invalid_agent_snapshot"},
           agentCall[c].phase \in {"starting", "cancelling"}, CallSettled(c, answer)
    PROVE  CallsFit'
<1> DEFINE w == agentCall[c]
           k == [w EXCEPT !.phase = "answered", !.answer = answer]
<1>1. w \in CallType /\ Owns(w.run, w.agent) /\ AgentsFit' /\ RecordsLast
  BY SameRecords DEF AgentInv, CallsFit
<1>2. k \in CallType /\ k.agent = w.agent /\ k.run = w.run
  BY <1>1 DEF CallType
<1>3. agentCall' = [agentCall EXCEPT ![c] = k]
  BY DEF CallSettled, AgentInv, CallsFit
<1>4. k.agent \in DOMAIN agents' /\ agents'[k.agent].run = k.run
  BY <1>1, <1>2, OwnsLasts
<1> HIDE DEF k
<1> QED
  BY <1>1, <1>2, <1>3, <1>4, ChangedCall

(* Succeed tells a run about its own child, and only what is terminal.     *)
LEMMA SucceedTells ==
    ASSUME AgentInv, NEW c \in AgentCalls, Succeed(c, agentCall[c].agent), agents' = agents,
           agentCall[c].phase \in {"starting", "cancelling"}
    PROVE  CallsFit' /\ ToldFits'
<1>0. Owns(agentCall[c].run, agentCall[c].agent) /\ RecordsLast
  BY SameRecords DEF AgentInv, CallsFit
<1>1. CallsFit'
  BY SettledCall DEF Succeed
<1>2. \A t \in told' \ told :
          /\ Owns(t.run, t.agent)
          /\ t.status = agents[t.agent].status /\ agents[t.agent].status \in TerminalStatuses
  BY <1>0 DEF Succeed, Tell, Terminal
<1> QED
  BY <1>0, <1>1, <1>2, ToldLasts

-----------------------------------------------------------------------------
LEMMA InvokeStep ==
    ASSUME AgentInv, NEW c \in AgentCalls, NEW background \in BOOLEAN, InvokeAgent(c, background)
    PROVE  AgentInv'
<1> DEFINE known == StartedBy("parent", c)
           a == IF known = {} THEN Len(agents) + 1 ELSE CHOOSE b \in known : TRUE
           conflict == known # {} /\ agents[a].background # background
           k == [tool |-> "Agent", run |-> "parent", background |-> background, agent |-> a,
                 phase |-> IF conflict THEN "answered" ELSE "starting",
                 answer |-> IF conflict THEN "agent_conflict" ELSE "none", tries |-> agentCall[c].tries + 1]
<1>1. /\ agents' = IF known = {} THEN Append(agents, NewRecord("parent", c, background)) ELSE agents
      /\ agentCall' = [agentCall EXCEPT ![c] = k] /\ UNCHANGED <<parent, told>>
  BY DEF InvokeAgent, AgentInv, CallsFit
<1>2. /\ AgentsFit' /\ RecordsLast /\ a \in DOMAIN agents' /\ agents'[a].run = "parent"
  <2>1. CASE known = {}
    BY <1>1, <2>1, NewChild DEF StartedBy, Runs
  <2>2. CASE known # {}
    <3>1. a \in DOMAIN agents /\ agents[a].run = "parent"
      BY <2>2 DEF StartedBy, OwnedBy
    <3> QED
      BY <1>1, <2>2, <3>1, SameRecords
  <2> QED
    BY <2>1, <2>2
<1>3. a \in Int
  <2>1. DOMAIN agents' = 1..Len(agents') /\ Len(agents') \in Nat
    BY <1>2 DEF AgentsFit
  <2> QED
    BY <1>2, <2>1
<1>4. agentCall[c].tries + 1 \in Int
  <2>1. agentCall[c].tries \in Int
    BY DEF AgentInv, CallsFit, CallType
  <2> QED
    BY <2>1
<1> HIDE DEF a, conflict
<1>5. k \in CallType /\ k.agent = a /\ k.run = "parent"
  BY <1>3, <1>4 DEF CallType, Runs
<1> HIDE DEF k
<1>6. CallsFit'
  BY <1>1, <1>2, <1>5, ChangedCall
<1>7. ToldFits' /\ WaitFits'
  BY <1>1, <1>2, ToldLasts, SameParent
<1> QED
  BY <1>2, <1>6, <1>7 DEF AgentInv

LEMMA AnswerAgentStep ==
    ASSUME AgentInv, NEW c \in AgentCalls, AnswerAgent(c) PROVE AgentInv'
<1> DEFINE a == agentCall[c].agent
<1>0. /\ agents' = agents /\ agentCall[c].phase = "starting" /\ Owns(agentCall[c].run, a)
      /\ AgentsFit' /\ RecordsLast
  BY SameRecords DEF AnswerAgent, AgentInv, CallsFit
<1>1. CASE Succeed(c, a) /\ UNCHANGED parent
  BY <1>0, <1>1, SucceedTells, SameParent DEF AgentInv
<1>2. CASE CallSettled(c, "accepted") /\ UNCHANGED <<parent, told>>
  <2>1. CallsFit'
    BY <1>0, <1>2, SettledCall
  <2> QED
    BY <1>0, <1>2, <2>1, ToldLasts, SameParent DEF AgentInv
<1>3. CASE Waits(c, a)
  <2>1. CallsFit'
    BY <1>0, <1>3, SettledCall DEF Waits
  <2>2. told' = told
    BY <1>3 DEF Waits
  <2>3. WaitFits'
    <3>1. CASE agentCall[c].run # "parent"
      BY <1>0, <1>3, <3>1, SameParent DEF Waits
    <3>2. CASE agentCall[c].run = "parent"
      <4>1. parent'.wait.agent = a
        BY <1>3, <3>2 DEF Waits
      <4> QED
        BY <1>0, <3>2, <4>1 DEF WaitFits, Owns
    <3> QED
      BY <3>1, <3>2
  <2> QED
    BY <1>0, <2>1, <2>2, <2>3, ToldLasts DEF AgentInv
<1> QED
  BY <1>1, <1>2, <1>3 DEF AnswerAgent

(* A lookup is made with the id of a child that some call has started.     *)
LEMMA KnownAreChildren == ASSUME AgentInv, NEW a \in KnownAgents PROVE a \in DOMAIN agents /\ a \in Int
<1>1. a \in DOMAIN agents
  BY DEF KnownAgents, AgentInv, CallsFit, Owns
<1>2. DOMAIN agents = 1..Len(agents) /\ Len(agents) \in Nat
  BY DEF AgentInv, AgentsFit
<1> QED
  BY <1>1, <1>2

(* The record of a call that looked a child up, with its answer or before. *)
LookedUp(c, run, tool, a, answer) == [Looks(c, run, tool, a) EXCEPT !.answer = answer]
Asking(c, run, a, gone) ==
    [Looks(c, run, "AgentCancel", a) EXCEPT !.phase = IF gone THEN "answered" ELSE "cancelling",
                                            !.answer = IF gone THEN "agent_backend_error" ELSE "none"]

LEMMA LookedUpFits ==
    ASSUME AgentInv, NEW c \in AgentCalls, NEW run \in Runs, NEW a \in Int,
           NEW tool \in {"AgentGet", "AgentWait", "AgentCancel"},
           NEW answer \in {"success", "waiting", "agent_not_found", "invalid_agent_snapshot"}
    PROVE  /\ LookedUp(c, run, tool, a, answer) \in CallType
           /\ LookedUp(c, run, tool, a, answer).tool # "Agent"
           /\ LookedUp(c, run, tool, a, answer).phase = "answered"
<1>1. agentCall[c].tries \in Int
  BY DEF AgentInv, CallsFit, CallType
<1>2. agentCall[c].tries + 1 \in Int
  BY <1>1
<1> QED
  BY <1>2 DEF LookedUp, Looks, CallType

LEMMA AskingFits ==
    ASSUME AgentInv, NEW c \in AgentCalls, NEW run \in Runs, NEW a \in Int, NEW gone \in BOOLEAN
    PROVE  /\ Asking(c, run, a, gone) \in CallType
           /\ Asking(c, run, a, gone).run = run /\ Asking(c, run, a, gone).agent = a
<1>1. agentCall[c].tries \in Int
  BY DEF AgentInv, CallsFit, CallType
<1>2. agentCall[c].tries + 1 \in Int
  BY <1>1
<1> QED
  BY <1>2 DEF Asking, Looks, CallType

LEMMA NotFoundStep ==
    ASSUME AgentInv, NEW c \in AgentCalls, NEW run \in Runs, NEW a \in KnownAgents,
           NEW tool \in {"AgentGet", "AgentWait", "AgentCancel"}, NotFound(c, run, tool, a)
    PROVE  AgentInv'
<1> DEFINE k == LookedUp(c, run, tool, a, "agent_not_found")
<1>1. k \in CallType /\ k.tool # "Agent" /\ k.phase = "answered"
  BY LookedUpFits, KnownAreChildren
<1>2. agentCall' = [agentCall EXCEPT ![c] = k] /\ UNCHANGED <<agents, parent, told>>
  BY DEF NotFound, LookedUp
<1> HIDE DEF k
<1>3. AgentsFit' /\ RecordsLast
  BY <1>2, SameRecords
<1>4. CallsFit'
  BY <1>1, <1>2, <1>3, ChangedCall
<1> QED
  BY <1>2, <1>3, <1>4, ToldLasts, SameParent DEF AgentInv

LEMMA LookUpStep ==
    ASSUME AgentInv, NEW c \in AgentCalls, NEW run \in Runs, NEW a \in KnownAgents,
           NEW tool \in {"AgentGet", "AgentWait", "AgentCancel"}, LookUp(c, run, tool, a)
    PROVE  AgentInv'
<1> DEFINE answer == IF ~Fits(a) THEN "invalid_agent_snapshot"
                     ELSE IF tool = "AgentWait" /\ ~Terminal(a) THEN "waiting" ELSE "success"
           k == LookedUp(c, run, tool, a, answer)
<1>1. k \in CallType /\ k.tool # "Agent" /\ k.phase = "answered"
  BY LookedUpFits, KnownAreChildren
<1>2. agentCall' = [agentCall EXCEPT ![c] = k] /\ agents' = agents /\ Owns(run, a)
  BY KnownAreChildren DEF LookUp, LookedUp, Owns
<1>3. AgentsFit' /\ RecordsLast
  BY <1>2, SameRecords
<1>4. \A t \in told' \ told :
          /\ Owns(t.run, t.agent)
          /\ t.status = agents[t.agent].status /\ agents[t.agent].status \in TerminalStatuses
  BY <1>2 DEF LookUp, Tell, Terminal
<1>5. WaitFits'
  <2>1. CASE answer = "waiting" /\ run = "parent"
    <3>1. parent'.wait.agent = a
      BY <2>1 DEF LookUp
    <3> QED
      BY <1>2, <2>1, <3>1 DEF WaitFits, Owns
  <2>2. CASE ~(answer = "waiting" /\ run = "parent")
    <3>1. parent' = parent
      BY <2>2 DEF LookUp
    <3> QED
      BY <1>3, <3>1, SameParent
  <2> QED
    BY <2>1, <2>2
<1> HIDE DEF k
<1>6. CallsFit'
  BY <1>1, <1>2, <1>3, ChangedCall
<1> QED
  BY <1>3, <1>4, <1>5, <1>6, ToldLasts DEF AgentInv

LEMMA RequestCancelStep ==
    ASSUME AgentInv, NEW c \in AgentCalls, NEW run \in Runs, NEW a \in KnownAgents,
           RequestCancel(c, run, a)
    PROVE  AgentInv'
<1> DEFINE gone == ~Terminal(a) /\ ~agents[a].sent /\ agents[a].done
           k == Asking(c, run, a, gone)
           p == agents[a].outcome = "none"
           r == [agents[a] EXCEPT !.sent = TRUE, !.requested = TRUE, !.paused = p]
<1>0. agents[a] \in RecordType
  BY KnownAreChildren DEF AgentInv, AgentsFit
<1>1. k \in CallType /\ k.run = run /\ k.agent = a
  <2>1. gone \in BOOLEAN
    BY <1>0 DEF RecordType, Terminal
  <2> HIDE DEF gone
  <2> QED
    BY <2>1, AskingFits, KnownAreChildren
<1>2. /\ agentCall' = [agentCall EXCEPT ![c] = k] /\ UNCHANGED <<parent, told>>
      /\ a \in DOMAIN agents /\ agents[a].run = run
  BY KnownAreChildren DEF RequestCancel, Asking
<1>3. AgentsFit' /\ RecordsLast
  <2>1. CASE agents' = agents
    BY <2>1, SameRecords
  <2>2. CASE ~(Terminal(a) \/ agents[a].sent)
    <3>1. agents[a] \in RecordType /\ RecordFits(agents[a])
      BY <1>2 DEF AgentInv, AgentsFit
    <3>2. ~agents[a].paused /\ agents[a].outcome # "paused" /\ agents[a].status \notin TerminalStatuses
      BY <2>2, <3>1 DEF RecordFits, Terminal
    <3>3. r \in RecordType
      BY <3>1 DEF RecordType
    <3>4. RecordFits(r) /\ Lasts(agents[a], r)
      BY <3>1, <3>2 DEF RecordFits, Lasts, RecordType, TerminalStatuses
    <3>5. agents' = [agents EXCEPT ![a] = r]
      BY <1>2, <2>2, <3>1 DEF RequestCancel, MarkRequested, AgentInv, AgentsFit, RecordType
    <3> HIDE DEF r
    <3> QED
      BY <1>2, <3>3, <3>4, <3>5, ChangedRecord
  <2> QED
    BY <2>1, <2>2 DEF RequestCancel
<1>4. k.agent \in DOMAIN agents' /\ agents'[k.agent].run = k.run
  BY <1>1, <1>2, <1>3 DEF RecordsLast, Lasts
<1> HIDE DEF k
<1>5. CallsFit'
  BY <1>1, <1>2, <1>3, <1>4, ChangedCall
<1> QED
  BY <1>2, <1>3, <1>5, ToldLasts, SameParent DEF AgentInv

LEMMA CallStep ==
    ASSUME AgentInv, NEW c \in AgentCalls, AnswerCancel(c) \/ AbandonCall(c) PROVE AgentInv'
<1>1. agents' = agents /\ parent' = parent
  BY DEF AnswerCancel, AbandonCall
<1>2. AgentsFit' /\ RecordsLast
  BY <1>1, SameRecords
<1>3. CASE AnswerCancel(c)
  BY <1>1, <1>2, <1>3, SucceedTells, SameParent DEF AnswerCancel, AgentInv
<1>4. CASE AbandonCall(c)
  <2> DEFINE k == [agentCall[c] EXCEPT !.phase = "abandoned"]
  <2>1. agentCall[c] \in CallType /\ Owns(agentCall[c].run, agentCall[c].agent)
    BY <1>4 DEF AbandonCall, AgentInv, CallsFit
  <2>2. k \in CallType /\ k.agent = agentCall[c].agent /\ k.run = agentCall[c].run
    BY <2>1 DEF CallType
  <2>3. agentCall' = [agentCall EXCEPT ![c] = k]
    BY <1>4 DEF AbandonCall, AgentInv, CallsFit
  <2> HIDE DEF k
  <2>4. k.agent \in DOMAIN agents' /\ agents'[k.agent].run = k.run
    BY <1>2, <2>1, <2>2, OwnsLasts
  <2>5. CallsFit'
    BY <1>2, <2>2, <2>3, <2>4, ChangedCall
  <2>6. told' = told
    BY <1>4 DEF AbandonCall
  <2> QED
    BY <1>1, <1>2, <2>5, <2>6, ToldLasts, SameParent DEF AgentInv
<1> QED
  BY <1>3, <1>4

(* The child and its supervisor, and what it publishes once.               *)
LEMMA ChildStep ==
    ASSUME AgentInv, NEW a \in DOMAIN agents, StartChild(a) \/ EndChild(a) \/ PublishChild(a)
    PROVE  AgentInv'
<1>0. agents[a] \in RecordType /\ RecordFits(agents[a]) /\ agents \in Seq(RecordType)
  BY DEF AgentInv, AgentsFit
<1>1. UNCHANGED <<agentCall, parent, told>>
  BY DEF StartChild, EndChild, PublishChild
<1>2. CASE StartChild(a)
  <2>1. ASSUME agents' = [agents EXCEPT ![a].started = TRUE] PROVE AgentsFit' /\ RecordsLast
    <3> DEFINE r == [agents[a] EXCEPT !.started = TRUE]
    <3>1. r \in RecordType /\ agents' = [agents EXCEPT ![a] = r]
      BY <1>0, <2>1 DEF RecordType
    <3>2. RecordFits(r) /\ Lasts(agents[a], r)
      BY <1>0 DEF RecordFits, Lasts, RecordType
    <3> HIDE DEF r
    <3> QED
      BY <3>1, <3>2, ChangedRecord
  <2>2. ASSUME agents' = [agents EXCEPT ![a].outcome = "raised"] PROVE AgentsFit' /\ RecordsLast
    <3> DEFINE r == [agents[a] EXCEPT !.outcome = "raised"]
    <3>1. r \in RecordType /\ agents' = [agents EXCEPT ![a] = r]
      BY <1>0, <2>2 DEF RecordType
    <3>2. RecordFits(r) /\ Lasts(agents[a], r)
      BY <1>0, <1>2 DEF StartChild, RecordFits, Lasts, RecordType, TerminalStatuses
    <3> HIDE DEF r
    <3> QED
      BY <3>1, <3>2, ChangedRecord
  <2>3. AgentsFit' /\ RecordsLast
    BY <1>2, <2>1, <2>2 DEF StartChild
  <2> QED
    BY <1>1, <2>3, SameCalls, SameParent, ToldLasts DEF AgentInv
<1>3. CASE EndChild(a)
  <2>1. PICK outcome \in {"completed", "failed", "limited", "suspended", "suspended_as_cancelled", "raised",
                          "interrupted"} \cup (IF agents[a].paused THEN {"paused"} ELSE {}), long \in BOOLEAN :
            agents' = [agents EXCEPT ![a].outcome = outcome, ![a].long = long]
    BY <1>3 DEF EndChild
  <2> DEFINE r == [agents[a] EXCEPT !.outcome = outcome, !.long = long]
  <2>2. agents' = [agents EXCEPT ![a] = r]
    BY <1>0, <2>1 DEF RecordType
  <2>3. r \in RecordType
    BY <1>0 DEF RecordType
  <2>4. agents[a].outcome = "none" /\ ~agents[a].done /\ agents[a].status \notin TerminalStatuses
    BY <1>0, <1>3 DEF EndChild, RecordFits
  <2>5. RecordFits(r) /\ Lasts(agents[a], r)
    BY <1>0, <2>4 DEF RecordFits, Lasts, RecordType, TerminalStatuses
  <2> HIDE DEF r
  <2> QED
    BY <1>1, <2>2, <2>3, <2>5, ChangedRecord, SameCalls, SameParent, ToldLasts DEF AgentInv
<1>4. CASE PublishChild(a)
  <2>1. agents[a].outcome # "none" /\ ~agents[a].done /\ agents[a].status \notin TerminalStatuses
    BY <1>0, <1>4 DEF PublishChild, RecordFits
  <2>2. CASE agents[a].outcome = "interrupted"
    <3> DEFINE r == LeftBehind(agents[a])
    <3>1. agents' = [agents EXCEPT ![a] = r]
      BY <1>0, <1>4, <2>2 DEF PublishChild
    <3>2. r \in RecordType
      BY <1>0 DEF LeftBehind, RecordType
    <3>3. RecordFits(r) /\ Lasts(agents[a], r)
      BY <1>0, <2>1 DEF LeftBehind, RecordFits, Lasts, RecordType
    <3> HIDE DEF r
    <3> QED
      BY <1>1, <3>1, <3>2, <3>3, ChangedRecord, SameCalls, SameParent, ToldLasts DEF AgentInv
  <2>3. CASE agents[a].outcome # "interrupted"
    <3> DEFINE status == TerminalStatus(agents[a].outcome)
               r == [LeftBehind(agents[a]) EXCEPT !.status = status, !.requested = (status = "cancelled")]
    <3>1. /\ status \in TerminalStatuses
          /\ status = "cancelled" => agents[a].outcome \in {"paused", "suspended_as_cancelled"}
      BY DEF TerminalStatus, TerminalStatuses
    <3>2. agents' = [agents EXCEPT ![a] = r]
      BY <1>0, <1>4, <2>3 DEF PublishChild, Published
    <3> HIDE DEF status
    <3>3. r \in RecordType
      BY <1>0, <3>1 DEF LeftBehind, RecordType
    <3>4. RecordFits(r) /\ Lasts(agents[a], r)
      BY <1>0, <2>1, <3>1 DEF LeftBehind, RecordFits, Lasts, RecordType
    <3> HIDE DEF r
    <3> QED
      BY <1>1, <3>2, <3>3, <3>4, ChangedRecord, SameCalls, SameParent, ToldLasts DEF AgentInv
  <2> QED
    BY <2>2, <2>3
<1> QED
  BY <1>2, <1>3, <1>4

LEMMA ResumeStep == ASSUME AgentInv, ResumeParent PROVE AgentInv'
<1>1. /\ UNCHANGED <<agents, agentCall>> /\ parent'.state = "running"
      /\ Owns("parent", parent.wait.agent) /\ agents[parent.wait.agent].status \in TerminalStatuses
  BY DEF ResumeParent, AgentInv, WaitFits, Terminal
<1>2. AgentsFit' /\ RecordsLast
  BY <1>1, SameRecords
<1>3. ToldFits'
  BY <1>1, <1>2, ToldLasts DEF ResumeParent, Tell
<1>4. WaitFits'
  BY <1>1 DEF WaitFits
<1> QED
  BY <1>1, <1>2, <1>3, <1>4, SameCalls DEF AgentInv

LEMMA AgentsStart == AgentsInit => AgentInv
<1> SUFFICES ASSUME AgentsInit PROVE AgentInv
  OBVIOUS
<1>1. IdleCall \in CallType /\ IdleCall.tool = "none" /\ IdleCall.phase = "idle"
  BY DEF IdleCall, CallType, Runs
<1>2. agents = <<>> /\ agents \in Seq(RecordType) /\ DOMAIN agents = {}
  BY DEF AgentsInit
<1>3. CallsFit
  BY <1>1 DEF AgentsInit, CallsFit
<1> QED
  BY <1>2, <1>3 DEF AgentsInit, AgentInv, AgentsFit, WaitFits, ToldFits

LEMMA AgentsStep == AgentInv /\ [AgentsNext]_agentVars => AgentInv'
<1> SUFFICES ASSUME AgentInv, [AgentsNext]_agentVars PROVE AgentInv'
  OBVIOUS
<1>1. CASE UNCHANGED agentVars
  BY <1>1, SameRecords, SameCalls, SameParent, ToldLasts DEF agentVars, AgentInv
<1>2. CASE AgentsNext
  BY <1>2, ResumeStep, ChildStep, InvokeStep, AnswerAgentStep, CallStep, RequestCancelStep, NotFoundStep,
     LookUpStep DEF AgentsNext
<1> QED
  BY <1>1, <1>2

(* However often it is delivered, abandoned or repeated, a tool call owns  *)
(* one child; what a run was told of a child is and stays its published    *)
(* status, and was told to no other run.                                   *)
THEOREM AgentReportsAgreeAlways == AgentSpec => []AgentReportsAgree
<1>1. AgentSpec => []AgentInv
  BY AgentsStart, AgentsStep, PTL DEF AgentSpec
<1>2. AgentInv => AgentReportsAgree
  <2> SUFFICES ASSUME AgentInv PROVE AgentReportsAgree
    OBVIOUS
  <2>1. ASSUME NEW c \in AgentCalls, NEW run \in Runs PROVE Cardinality(OwnedBy(run, c)) <= 1
    <3>1. \A a, b \in OwnedBy(run, c) : a = b
      BY DEF OwnedBy, AgentInv, AgentsFit
    <3>2. CASE OwnedBy(run, c) = {}
      <4>1. Cardinality(OwnedBy(run, c)) = 0
        BY <3>2, FS_EmptySet
      <4> QED
        BY <4>1
    <3>3. CASE OwnedBy(run, c) # {}
      <4>1. PICK a : OwnedBy(run, c) = {a}
        BY <3>1, <3>3
      <4>2. Cardinality(OwnedBy(run, c)) = 1
        BY <4>1, FS_Singleton
      <4> QED
        BY <4>2
    <3> QED
      BY <3>2, <3>3
  <2> QED
    BY <2>1 DEF AgentReportsAgree, AgentInv, ToldFits, Owns
<1> QED
  BY <1>1, <1>2, PTL

-----------------------------------------------------------------------------
(* What the tool makes of a raw question keeps its kind, and of the fields *)
(* it does not touch what the host relies on.                              *)
LEMMA NormalizedKeeps ==
    ASSUME NEW kind \in Kinds, NEW raw \in Raw(kind), NEW required, NEW q, q = Normalized(raw, required)
    PROVE  /\ q.kind = kind
           /\ kind = "confirm" => q.default \in Optional(BOOLEAN)
           /\ kind = "scale" => /\ ~q.integer_only
                               /\ q.minimum \in Optional(Numbers) /\ q.maximum \in Optional(Numbers)
<1>1. CASE kind = "confirm"
  BY <1>1 DEF Raw, Normalized
<1>2. CASE kind \in {"single_choice", "date"}
  BY <1>2 DEF Raw, Normalized
<1>3. CASE kind = "number"
  BY <1>3 DEF Raw, Normalized
<1>4. CASE kind = "scale"
  <2>1. /\ raw.kind = "scale" /\ raw.integer_only = FALSE
        /\ raw.minimum \in Optional(Numbers) /\ raw.maximum \in Optional(Numbers)
    BY <1>4 DEF Raw
  <2>2. q = [raw EXCEPT !.step = {OrElse(@, Unit)}]
    BY <2>1 DEF Normalized
  <2>3. q.kind = raw.kind /\ ~q.integer_only /\ q.minimum = raw.minimum /\ q.maximum = raw.maximum
    BY <1>4, <2>1, <2>2 DEF Raw
  <2> QED
    BY <1>4, <2>1, <2>3
<1>5. CASE kind \in {"multiple_choice", "ranking", "text"}
  <2>1. raw.kind = kind
    BY <1>5 DEF Raw
  <2>2. \E n : q = WithCounts(raw, required, n)
    BY <1>5, <2>1 DEF Normalized
  <2>3. PICK n : q = WithCounts(raw, required, n)
    BY <2>2
  <2>4. q.kind = raw.kind
    BY <1>5, <2>3 DEF WithCounts, Raw
  <2> QED
    BY <1>5, <2>1, <2>4
<1> QED
  BY <1>1, <1>2, <1>3, <1>4, <1>5 DEF Kinds

LEMMA HostAgrees ==
    ASSUME NEW kind \in Kinds, NEW raw \in Raw(kind), NEW required, NEW q, q = Normalized(raw, required),
           NormalizeAccepts(q)
    PROVE  HostAccepts(q)
<1>1. /\ q.kind = kind
      /\ kind = "confirm" => q.default \in Optional(BOOLEAN)
      /\ kind = "scale" => /\ ~q.integer_only
                          /\ q.minimum \in Optional(Numbers) /\ q.maximum \in Optional(Numbers)
  BY NormalizedKeeps
<1>2. CASE kind = "confirm"
  <2>1. \A v \in q.default : v \in BOOLEAN
    BY <1>1, <1>2 DEF Optional
  <2> QED
    BY <1>1, <1>2, <2>1 DEF HostAccepts, Has, AnswerAccepted
<1>3. CASE kind = "single_choice"
  BY <1>1, <1>3 DEF HostAccepts, NormalizeAccepts, Has, AnswerAccepted
<1>4. CASE kind \in {"multiple_choice", "ranking"}
  BY <1>1, <1>4 DEF HostAccepts, NormalizeAccepts, Has, AnswerAccepted, Available
<1>5. CASE kind = "text"
  BY <1>1, <1>5 DEF HostAccepts, NormalizeAccepts, Has, AnswerAccepted
<1>6. CASE kind = "date"
  BY <1>1, <1>6 DEF HostAccepts, NormalizeAccepts, Has, AnswerAccepted
<1>7. CASE kind = "number"
  BY <1>1, <1>7 DEF HostAccepts, NormalizeAccepts, Has, AnswerAccepted
<1>8. CASE kind = "scale"
  <2>1. /\ q.minimum # {} /\ q.maximum # {} /\ The(q.minimum) < The(q.maximum)
        /\ Has(q.step, Positive) /\ \A v \in q.default : NumberFits(q, v)
    BY <1>1, <1>8 DEF NormalizeAccepts, Has
  <2>2. \A low \in q.minimum, high \in q.maximum : low < high
    BY <1>1, <1>8, <2>1 DEF Optional, The
  <2> QED
    BY <1>1, <1>8, <2>1, <2>2 DEF HostAccepts, Has, AnswerAccepted
<1> QED
  BY <1>2, <1>3, <1>4, <1>5, <1>6, <1>7, <1>8 DEF Kinds

-----------------------------------------------------------------------------
(* Numbers.  Everything counts sixths, so all that matters of a divisor is *)
(* which of these it is.                                                   *)
Sixths == {1, 2, 3, 6}
Divides(d, a, b) == a % d = 0 /\ b % d = 0

LEMMA GcdIs ==
    ASSUME NEW a \in Int, NEW b \in Int, NEW d \in 1..(AbsOf(a) + AbsOf(b)), Divides(d, a, b),
           \A e \in 1..(AbsOf(a) + AbsOf(b)) : Divides(e, a, b) => e <= d
    PROVE  GcdOf(a, b) = d
<1> DEFINE R == 1..(AbsOf(a) + AbsOf(b))
           Is(x) == a % x = 0 /\ b % x = 0 /\ \A e \in R : a % e = 0 /\ b % e = 0 => e <= x
           g == CHOOSE x \in R : Is(x)
<1>1. d \in R /\ Is(d)
  BY Zenon DEF Divides
<1>2. GcdOf(a, b) = g
  BY Zenon DEF GcdOf
<1>3. g \in R /\ Is(g)
  BY <1>1, Zenon
<1> HIDE DEF g
<1>4. g <= d /\ d <= g
  BY <1>1, <1>3, Zenon
<1>5. g \in Int /\ d \in Int
  <2>1. AbsOf(a) + AbsOf(b) \in Int
    BY DEF AbsOf
  <2> QED
    BY <1>1, <1>3, <2>1
<1> QED
  BY <1>2, <1>4, <1>5

LEMMA DivisorsOfSixths == ASSUME NEW m \in Sixths, NEW e \in Nat, e >= 1, m % e = 0 PROVE e \in Sixths /\ e <= m
<1>1. e <= m
  <2> SUFFICES ASSUME e > m PROVE FALSE
    BY DEF Sixths
  <2>1. m = e * 0 + m /\ 0 <= m /\ m < e
    BY DEF Sixths
  <2>2. m % e = m
    BY <2>1 DEF Sixths
  <2> QED
    BY <2>2 DEF Sixths
<1>2. e \in 1..6
  BY <1>1 DEF Sixths
<1>3. e # 4 /\ e # 5
  <2>1. CASE e = 4
    BY <2>1 DEF Sixths
  <2>2. CASE e = 5
    BY <2>2 DEF Sixths
  <2> QED
    BY <2>1, <2>2
<1> QED
  BY <1>1, <1>2, <1>3 DEF Sixths

GreatestIs(d, n, m) == d \in Sixths /\ Divides(d, n, m) /\ \A e \in Sixths : Divides(e, n, m) => e <= d

LEMMA GcdOfSixths == ASSUME NEW n \in Int, NEW m \in Sixths PROVE GreatestIs(GcdOf(n, m), n, m)
<1>1. \E d \in Sixths : Divides(d, n, m) /\ \A e \in Sixths : Divides(e, n, m) => e <= d
  <2>1. Divides(1, n, m)
    BY DEF Divides, Sixths
  <2>2. CASE Divides(6, n, m)
    BY <2>2 DEF Sixths
  <2>3. CASE ~Divides(6, n, m) /\ Divides(3, n, m)
    BY <2>3 DEF Sixths
  <2>4. CASE ~Divides(6, n, m) /\ ~Divides(3, n, m) /\ Divides(2, n, m)
    BY <2>4 DEF Sixths
  <2>5. CASE ~Divides(6, n, m) /\ ~Divides(3, n, m) /\ ~Divides(2, n, m)
    BY <2>1, <2>5 DEF Sixths
  <2> QED
    BY <2>2, <2>3, <2>4, <2>5
<1>2. PICK d \in Sixths : Divides(d, n, m) /\ \A e \in Sixths : Divides(e, n, m) => e <= d
  BY <1>1
<1>3. AbsOf(n) \in Nat /\ AbsOf(m) = m
  BY DEF AbsOf, Sixths
<1>4. d \in 1..(AbsOf(n) + AbsOf(m))
  <2>1. d \in Nat /\ d >= 1 /\ m % d = 0
    BY <1>2 DEF Divides, Sixths
  <2>2. d <= m
    BY <2>1, DivisorsOfSixths
  <2> QED
    BY <1>3, <2>2 DEF Sixths
<1>5. ASSUME NEW e \in 1..(AbsOf(n) + AbsOf(m)), Divides(e, n, m) PROVE e <= d
  <2>1. e \in Nat /\ e >= 1 /\ m % e = 0
    BY <1>3, <1>5 DEF Divides, Sixths
  <2>2. e \in Sixths
    BY <2>1, DivisorsOfSixths
  <2> QED
    BY <1>2, <1>5, <2>2
<1>6. n \in Int /\ m \in Int
  BY DEF Sixths
<1>7. GcdOf(n, m) = d
  BY <1>2, <1>4, <1>5, <1>6, GcdIs
<1> QED
  BY <1>2, <1>7 DEF GreatestIs

LEMMA DenominatorIs ==
    ASSUME NEW n \in Int PROVE DenominatorOf(n) \in Sixths /\ (n * DenominatorOf(n)) % 6 = 0
<1>1. PICK g : g = GcdOf(n, 6)
  OBVIOUS
<1>2. g \in Sixths /\ n % g = 0
  <2>1. GreatestIs(g, n, 6)
    BY <1>1, GcdOfSixths DEF Sixths
  <2> QED
    BY <2>1 DEF GreatestIs, Divides
<1>3. DenominatorOf(n) = 6 \div g
  BY <1>1 DEF DenominatorOf, Unit
<1>4. CASE g = 1
  BY <1>2, <1>3, <1>4 DEF Sixths
<1>5. CASE g = 2
  BY <1>2, <1>3, <1>5 DEF Sixths
<1>6. CASE g = 3
  BY <1>2, <1>3, <1>6 DEF Sixths
<1>7. CASE g = 6
  BY <1>2, <1>3, <1>7 DEF Sixths
<1> QED
  BY <1>2, <1>4, <1>5, <1>6, <1>7 DEF Sixths

LEMMA LcmIs ==
    ASSUME NEW a \in Sixths, NEW b \in Sixths
    PROVE  LcmOf(a, b) \in Sixths /\ LcmOf(a, b) % a = 0 /\ LcmOf(a, b) % b = 0
<1>1. PICK g : g = GcdOf(a, b)
  OBVIOUS
<1>2. /\ g \in Sixths /\ a % g = 0 /\ b % g = 0
      /\ \A e \in Sixths : a % e = 0 /\ b % e = 0 => e <= g
  <2>1. a \in Int
    BY DEF Sixths
  <2>2. GreatestIs(g, a, b)
    BY <1>1, <2>1, GcdOfSixths
  <2> QED
    BY <2>2 DEF GreatestIs, Divides
<1>3. LcmOf(a, b) = (a * b) \div g
  BY <1>1 DEF LcmOf
<1>4. CASE a = 1
  BY <1>2, <1>3, <1>4 DEF Sixths
<1>5. CASE a = 2
  BY <1>2, <1>3, <1>5 DEF Sixths
<1>6. CASE a = 3
  BY <1>2, <1>3, <1>6 DEF Sixths
<1>7. CASE a = 6
  BY <1>2, <1>3, <1>7 DEF Sixths
<1> QED
  BY <1>4, <1>5, <1>6, <1>7 DEF Sixths

(* What integer_answer_exists computes: with the origin and the step as    *)
(* fractions of one denominator, the first multiple of the step that takes *)
(* the origin to a whole number.                                           *)
LEMMA InverseExists ==
    ASSUME NEW S \in Int, NEW m \in Sixths, m # 1, m % 2 = 0 => S % 2 # 0, m % 3 = 0 => S % 3 # 0
    PROVE  \E i \in 0..(m - 1) : (S * i) % m = 1 % m
<1>1. CASE m = 2
  <2>1. (S * 1) % 2 = 1 % 2
    BY <1>1
  <2> QED
    BY <1>1, <2>1
<1>2. CASE m = 3
  <2>1. (S * 1) % 3 = 1 % 3 \/ (S * 2) % 3 = 1 % 3
    BY <1>2
  <2> QED
    BY <1>2, <2>1
<1>3. CASE m = 6
  <2>1. (S * 1) % 6 = 1 % 6 \/ (S * 5) % 6 = 1 % 6
    BY <1>3
  <2> QED
    BY <1>3, <2>1
<1> QED
  BY <1>1, <1>2, <1>3 DEF Sixths

LEMMA InverseSolves ==
    ASSUME NEW S \in Int, NEW O \in Int, NEW m \in Sixths, NEW i \in 0..(m - 1), (S * i) % m = 1 % m
    PROVE  ((-O) * i) % m \in 0..(m - 1) /\ (O + (((-O) * i) % m) * S) % m = 0
<1> DEFINE f == ((-O) * i) % m
<1>1. i \in 0..5 /\ i \in Int
  BY DEF Sixths
<1>2. f \in 0..(m - 1)
  BY <1>1 DEF Sixths
<1>3. ASSUME NEW M \in Sixths, NEW I \in 0..5, NEW F \in 0..5, M = m, I = i, F = f PROVE (O + F * S) % M = 0
  <2>1. (S * I) % M = 1 % M /\ F = ((-O) * I) % M
    BY <1>3
  <2> HIDE DEF f
  <2>2. CASE I = 0
    BY ONLY <2>1, <2>2, M \in Sixths, F \in 0..5, S \in Int, O \in Int DEF Sixths
  <2>3. CASE I = 1
    BY ONLY <2>1, <2>3, M \in Sixths, F \in 0..5, S \in Int, O \in Int DEF Sixths
  <2>4. CASE I = 2
    BY ONLY <2>1, <2>4, M \in Sixths, F \in 0..5, S \in Int, O \in Int DEF Sixths
  <2>5. CASE I = 3
    BY ONLY <2>1, <2>5, M \in Sixths, F \in 0..5, S \in Int, O \in Int DEF Sixths
  <2>6. CASE I = 4
    BY ONLY <2>1, <2>6, M \in Sixths, F \in 0..5, S \in Int, O \in Int DEF Sixths
  <2>7. CASE I = 5
    BY ONLY <2>1, <2>7, M \in Sixths, F \in 0..5, S \in Int, O \in Int DEF Sixths
  <2> QED
    BY <2>2, <2>3, <2>4, <2>5, <2>6, <2>7
<1> HIDE DEF f
<1>4. f \in 0..5
  BY <1>2 DEF Sixths
<1>5. (O + f * S) % m = 0
  BY <1>1, <1>3, <1>4
<1> QED
  BY <1>2, <1>5 DEF f

(* den is the denominator, origin and stride are units of it, and dv is    *)
(* the greatest number that divides both.                                  *)
Fractions(low, step, den, origin, stride, dv) ==
    /\ low \in Int /\ step \in Int /\ den \in Sixths /\ dv \in Sixths
    /\ origin \in Int /\ stride \in Int /\ 6 * origin = low * den /\ 6 * stride = step * den
    /\ GreatestIs(dv, stride, den) /\ origin % dv = 0

FirstIndex(den, origin, stride, dv) ==
    LET m == den \div dv
        inverse == CHOOSE i \in 0..(m - 1) : ((stride \div dv) * i) % m = 1 % m
    IN  IF m = 1 THEN 0 ELSE (((-origin) \div dv) * inverse) % m

LEMMA FractionsMeet ==
    ASSUME NEW low, NEW step, NEW den, NEW origin, NEW stride, NEW dv,
           Fractions(low, step, den, origin, stride, dv)
    PROVE  /\ FirstIndex(den, origin, stride, dv) \in 0..((den \div dv) - 1) /\ den \div dv \in Sixths
           /\ (low + FirstIndex(den, origin, stride, dv) * step) % 6 = 0
<1> DEFINE m == den \div dv
           S == stride \div dv
           O == origin \div dv
           inverse == CHOOSE i \in 0..(m - 1) : (S * i) % m = 1 % m
           first == IF m = 1 THEN 0 ELSE (((-origin) \div dv) * inverse) % m
<1>f. first = FirstIndex(den, origin, stride, dv)
  BY Zenon DEF FirstIndex
<1>0. /\ low \in Int /\ step \in Int /\ den \in Sixths /\ dv \in Sixths
      /\ origin \in Int /\ stride \in Int /\ 6 * origin = low * den /\ 6 * stride = step * den
      /\ stride % dv = 0 /\ den % dv = 0 /\ origin % dv = 0
      /\ \A e \in Sixths : stride % e = 0 /\ den % e = 0 => e <= dv
  BY DEF Fractions, GreatestIs, Divides
<1>1. /\ m \in Sixths /\ den = m * dv /\ S \in Int /\ stride = S * dv /\ O \in Int /\ origin = O * dv
      /\ (-origin) \div dv = -O
  <2>1. CASE dv = 1
    BY <1>0, <2>1 DEF Sixths
  <2>2. CASE dv = 2
    BY <1>0, <2>2 DEF Sixths
  <2>3. CASE dv = 3
    BY <1>0, <2>3 DEF Sixths
  <2>4. CASE dv = 6
    BY <1>0, <2>4 DEF Sixths
  <2> QED
    BY <1>0, <2>1, <2>2, <2>3, <2>4 DEF Sixths
<1> HIDE DEF m, S, O
<1>2. (m % 2 = 0 => S % 2 # 0) /\ (m % 3 = 0 => S % 3 # 0)
  <2>1. CASE dv = 1
    BY <1>0, <1>1, <2>1 DEF Sixths
  <2>2. CASE dv = 2
    BY <1>0, <1>1, <2>2 DEF Sixths
  <2>3. CASE dv = 3
    BY <1>0, <1>1, <2>3 DEF Sixths
  <2>4. CASE dv = 6
    BY <1>0, <1>1, <2>4 DEF Sixths
  <2> QED
    BY <1>0, <2>1, <2>2, <2>3, <2>4 DEF Sixths
<1>3. first \in 0..(m - 1) /\ (O + first * S) % m = 0
  <2>1. CASE m = 1
    BY <1>1, <2>1
  <2>2. CASE m # 1
    <3>1. \E i \in 0..(m - 1) : (S * i) % m = 1 % m
      BY <1>1, <1>2, <2>2, InverseExists
    <3>2. inverse \in 0..(m - 1) /\ (S * inverse) % m = 1 % m
      BY <3>1, Zenon
    <3>3. first = ((-O) * inverse) % m
      BY <1>1, <2>2, Zenon
    <3> HIDE DEF inverse, first
    <3>4. ((-O) * inverse) % m \in 0..(m - 1) /\ (O + (((-O) * inverse) % m) * S) % m = 0
      BY <1>1, <3>2, InverseSolves
    <3> QED
      BY <3>3, <3>4, Zenon
  <2> QED
    BY <2>1, <2>2
<1> HIDE DEF first
<1>4. first \in 0..5
  BY <1>1, <1>3 DEF Sixths
<1>5. ASSUME NEW F \in 0..5, F = first PROVE (low + F * step) % 6 = 0
  <2>1. (O + F * S) % m = 0
    BY <1>3, <1>5
  <2>2. PICK t \in Int : O + F * S = m * t
    <3>1. O + F * S \in Int
      BY <1>1
    <3>2. \A x \in Int : x % m = 0 => x = m * (x \div m) /\ x \div m \in Int
      BY <1>1 DEF Sixths
    <3> QED
      BY <2>1, <3>1, <3>2
  <2>3. origin + F * stride = den * t
    <3>1. origin + F * stride = dv * (O + F * S)
      BY <1>0, <1>1 DEF Sixths
    <3>2. dv * (m * t) = den * t
      BY <1>0, <1>1 DEF Sixths
    <3> QED
      BY <2>2, <3>1, <3>2
  <2>4. (low + F * step) * den = (6 * t) * den
    <3>1. (low + F * step) * den = 6 * (origin + F * stride)
      BY <1>0 DEF Sixths
    <3> QED
      BY <1>0, <2>3, <3>1 DEF Sixths
  <2>5. low + F * step = 6 * t
    BY <1>0, <2>4 DEF Sixths
  <2> QED
    BY <2>5
<1> QED
  <2>1. first \in 0..(m - 1) /\ m \in Sixths /\ (low + first * step) % 6 = 0
    BY <1>1, <1>3, <1>4, <1>5
  <2> QED
    BY <1>f, <2>1 DEF m

LEMMA Exactly == ASSUME NEW n \in Int, NEW d \in Sixths, (n * d) % 6 = 0, NEW e \in Sixths, e % d = 0
                 PROVE (n * e) \div 6 \in Int /\ 6 * ((n * e) \div 6) = n * e
<1>1. CASE d = 1
  BY <1>1 DEF Sixths
<1>2. CASE d = 2
  BY <1>2 DEF Sixths
<1>3. CASE d = 3
  BY <1>3 DEF Sixths
<1>4. CASE d = 6
  BY <1>4 DEF Sixths
<1> QED
  BY <1>1, <1>2, <1>3, <1>4 DEF Sixths

LEMMA QuotientIsBelow ==
    ASSUME NEW n \in Int, NEW s \in Int, s > 0, NEW k \in 0..5, k <= n \div s
    PROVE  k * s <= n
<1> DEFINE t == n \div s
<1>1. t \in Int /\ s * t <= n
  OBVIOUS
<1> HIDE DEF t
<1>2. k <= t
  BY DEF t
<1>3. k * s <= s * t
  <2>1. PICK j \in Nat : t = k + j
    BY <1>1, <1>2
  <2>2. s * j >= 0
    BY <2>1
  <2>3. s * t = s * k + s * j
    BY <2>1
  <2> QED
    BY <2>1, <2>2, <2>3
<1> QED
  BY <1>1, <1>3

LEMMA FirstWholeAnswer ==
    ASSUME NEW minimum, NEW maximum, NEW stepping, NEW low \in Int, NEW step \in Int, step > 0,
           minimum = {low}, stepping = {step}, maximum = {} \/ \E h \in Int : maximum = {h},
           integer_answer_exists(minimum, maximum, stepping)
    PROVE  \E k \in 0..5 : (low + k * step) % 6 = 0 /\ \A high \in maximum : low + k * step <= high
<1> DEFINE origin == OrElse(minimum, 0)
           stride == The(stepping)
           denominator == LcmOf(DenominatorOf(origin), DenominatorOf(stride))
           origin_units == (origin * denominator) \div Unit
           stride_units == (stride * denominator) \div Unit
           divisor == GcdOf(stride_units, denominator)
           modulus == denominator \div divisor
           inverse == CHOOSE i \in 0..(modulus - 1) : ((stride_units \div divisor) * i) % modulus = 1 % modulus
           first == IF modulus = 1 THEN 0 ELSE (((-origin_units) \div divisor) * inverse) % modulus
<1>0. origin = low /\ stride = step /\ stepping # {} /\ low \in minimum /\ Unit = 6
  BY DEF OrElse, The, Unit
<1>1. /\ origin_units % divisor = 0
      /\ \A high \in maximum : /\ 0 <= FloorOf(high - low, stride)
                               /\ first + CeilingOf(-first, modulus) * modulus <= FloorOf(high - low, stride)
  BY ONLY <1>0, integer_answer_exists(minimum, maximum, stepping), Zenon DEF integer_answer_exists
<1>f. first = FirstIndex(denominator, origin_units, stride_units, divisor)
  BY Zenon DEF FirstIndex
<1> HIDE DEF origin, stride, first
<1>2. Fractions(origin, stride, denominator, origin_units, stride_units, divisor)
  <2> DEFINE a == DenominatorOf(origin)
             b == DenominatorOf(stride)
  <2>1. a \in Sixths /\ (origin * a) % 6 = 0
    BY <1>0, DenominatorIs
  <2>2. b \in Sixths /\ (stride * b) % 6 = 0
    BY <1>0, DenominatorIs
  <2>3. denominator \in Sixths /\ denominator % a = 0 /\ denominator % b = 0
    BY <2>1, <2>2, LcmIs
  <2> HIDE DEF a, b, denominator
  <2>4. origin_units \in Int /\ 6 * origin_units = origin * denominator
    BY <1>0, <2>1, <2>3, Exactly
  <2>5. stride_units \in Int /\ 6 * stride_units = stride * denominator
    BY <1>0, <2>2, <2>3, Exactly
  <2>6. GreatestIs(divisor, stride_units, denominator)
    BY <2>3, <2>5, GcdOfSixths
  <2> QED
    BY <1>0, <1>1, <2>3, <2>4, <2>5, <2>6 DEF Fractions, GreatestIs
<1> HIDE DEF denominator, origin_units, stride_units, divisor
<1>3. first \in 0..(modulus - 1) /\ modulus \in Sixths /\ (origin + first * stride) % 6 = 0
  BY <1>2, <1>f, FractionsMeet
<1> HIDE DEF modulus, inverse
<1>4. first \in 0..5 /\ first \in Int /\ modulus \in Int
  BY <1>3 DEF Sixths
<1>5. CeilingOf(-first, modulus) = 0
  <2>1. first \div modulus = 0
    BY <1>3, <1>4 DEF Sixths
  <2> QED
    BY <1>3, <1>4, <2>1 DEF CeilingOf
<1>6. ASSUME NEW high \in maximum PROVE low + first * step <= high
  <2>1. high \in Int
    BY <1>6
  <2>2. first <= (high - low) \div step
    <3>1. (high - low) \div step \in Int
      BY <2>1
    <3> QED
      BY <1>0, <1>1, <1>4, <1>5, <3>1 DEF FloorOf
  <2>3. first * step <= high - low
    BY <1>4, <2>1, <2>2, QuotientIsBelow
  <2>4. first * step \in Int
    BY <1>4
  <2> QED
    BY <2>1, <2>3, <2>4
<1> QED
  BY <1>0, <1>3, <1>4, <1>6

LEMMA MultiplesDivide == ASSUME NEW s \in Int, s > 0, NEW m \in Int PROVE (s * m) % s = 0
<1> DEFINE q == (s * m) \div s
           r == (s * m) % s
<1>1. s * m \in Int
  OBVIOUS
<1>2. q \in Int /\ r \in Int /\ s * m = s * q + r /\ 0 <= r /\ r < s
  BY <1>1
<1> HIDE DEF q, r
<1>3. CASE m > q
  <2>1. PICK j \in Nat : m = (q + 1) + j
    BY <1>2, <1>3
  <2>2. s * j >= 0 /\ s * m = (s * q + s) + s * j
    BY <1>2, <2>1
  <2> QED
    BY <1>2, <2>2
<1>4. CASE m < q
  <2>1. PICK j \in Nat : q = (m + 1) + j
    BY <1>2, <1>4
  <2>2. s * j >= 0 /\ s * q = (s * m + s) + s * j
    BY <1>2, <2>1
  <2> QED
    BY <1>1, <1>2, <2>2
<1>5. CASE m = q
  BY <1>1, <1>2, <1>5 DEF r
<1> QED
  BY <1>2, <1>3, <1>4, <1>5

LEMMA MultipleBelow ==
    ASSUME NEW n \in Int, NEW s \in Int, s > 0
    PROVE  \E k \in 0..((6 * s) - 1) : (n - k) % s = 0 /\ (n - k) % 6 = 0
<1> DEFINE w == 6 * s
           t == n \div w
           k == n % w
<1>1. w \in Int /\ w > 0
  OBVIOUS
<1> HIDE DEF w
<1>2. t \in Int /\ k \in 0..(w - 1) /\ n = w * t + k
  BY <1>1
<1> HIDE DEF t, k
<1>3. w * t = s * (6 * t) /\ w * t = 6 * (s * t) /\ s * t \in Int /\ k \in Int
  BY <1>1, <1>2 DEF w
<1>4. n - k = s * (6 * t) /\ n - k = 6 * (s * t)
  BY <1>1, <1>2, <1>3
<1>5. (s * (6 * t)) % s = 0
  BY <1>2, MultiplesDivide
<1>6. (6 * (s * t)) % 6 = 0
  BY <1>3
<1> QED
  BY <1>2, <1>4, <1>5, <1>6 DEF w

(* A whole number between the bounds, when there is no step.               *)
LEMMA WholeBetween ==
    ASSUME NEW low \in Int, NEW maximum, maximum = {} \/ \E h \in Int : maximum = {h},
           \A high \in maximum : RoundUp(low, 6) <= FloorOf(high, 6)
    PROVE  \E k \in 0..5 : (low + k) % 6 = 0 /\ \A high \in maximum : low + k <= high
<1>1. PICK k \in 0..5 : low + k = 6 * RoundUp(low, 6)
  BY DEF RoundUp, CeilingOf
<1>2. (low + k) % 6 = 0
  BY <1>1 DEF RoundUp, CeilingOf
<1>3. ASSUME NEW high \in maximum PROVE low + k <= high
  <2>1. high \in Int /\ RoundUp(low, 6) \in Int /\ RoundUp(low, 6) <= high \div 6
    BY <1>3 DEF FloorOf, RoundUp, CeilingOf
  <2> QED
    BY <1>1, <2>1
<1> QED
  BY <1>1, <1>2, <1>3

AtMostOne(S) == S = {} \/ \E v \in Int : S = {v}

LEMMA NumbersHaveAnswers ==
    ASSUME NEW q, AtMostOne(q.minimum), AtMostOne(q.maximum), AtMostOne(q.step), q.integer_only \in BOOLEAN,
           \A low \in q.minimum, high \in q.maximum : low <= high, Has(q.step, Positive),
           q.integer_only => integer_answer_exists(q.minimum, q.maximum, q.step)
    PROVE  \E v \in NumbersNear(q) : NumberFits(q, v)
<1> DEFINE stride == OrElse(q.step, 1)
<1>1. stride \in Int /\ stride > 0 /\ (q.step # {} => q.step = {stride})
  <2>1. CASE q.step = {}
    BY <2>1 DEF OrElse
  <2>2. ASSUME NEW v \in Int, q.step = {v} PROVE stride = v /\ v > 0
    BY <2>2 DEF OrElse, The, Has, Positive
  <2> QED
    BY <2>1, <2>2 DEF AtMostOne
<1>2. ASSUME NEW low \in Int, q.minimum = {low} PROVE \E v \in NumbersNear(q) : NumberFits(q, v)
  <2>1. OrElse(q.minimum, 0) = low /\ The(q.minimum) = low /\ q.minimum # {}
    BY <1>2 DEF OrElse, The
  <2>2. NumbersNear(q) = {low + k * stride : k \in 0..5}
    BY <2>1 DEF NumbersNear, Unit
  <2> HIDE DEF stride
  <2>3. \E k \in 0..5 : /\ q.step # {} => ((low + k * stride) - low) % stride = 0
                        /\ q.integer_only => (low + k * stride) % 6 = 0
                        /\ \A high \in q.maximum : low + k * stride <= high
    <3>1. CASE ~q.integer_only
      <4>1. low + 0 * stride = low /\ (low - low) % stride = 0
        <5>1. low - low = stride * 0
          BY <1>1
        <5> QED
          BY <1>1, <5>1, MultiplesDivide
      <4> QED
        BY <1>2, <3>1, <4>1
    <3>2. CASE q.integer_only /\ q.step # {}
      <4>1. PICK k \in 0..5 : (low + k * stride) % 6 = 0 /\ \A high \in q.maximum : low + k * stride <= high
        BY <1>1, <1>2, <3>2, FirstWholeAnswer DEF AtMostOne
      <4>2. (low + k * stride) - low = stride * k
        BY <1>1
      <4>3. (stride * k) % stride = 0
        BY <1>1, MultiplesDivide
      <4> QED
        BY <3>2, <4>1, <4>2, <4>3
    <3>3. CASE q.integer_only /\ q.step = {}
      <4>1. \A high \in q.maximum : RoundUp(low, 6) <= FloorOf(high, 6)
        BY <1>2, <3>3 DEF integer_answer_exists, Unit
      <4>2. PICK k \in 0..5 : (low + k) % 6 = 0 /\ \A high \in q.maximum : low + k <= high
        BY <1>2, <4>1, WholeBetween DEF AtMostOne
      <4>3. stride = 1
        BY <3>3 DEF stride, OrElse
      <4> QED
        BY <3>3, <4>2, <4>3
    <3> QED
      BY <3>1, <3>2, <3>3
  <2>4. PICK k \in 0..5 : /\ q.step # {} => ((low + k * stride) - low) % stride = 0
                          /\ q.integer_only => (low + k * stride) % 6 = 0
                          /\ \A high \in q.maximum : low + k * stride <= high
    BY <2>3
  <2>5. PICK v \in Int : v = low + k * stride
    BY <1>1
  <2>6. low <= v
    <3>1. k * stride >= 0
      BY <1>1
    <3>2. k * stride \in Int
      BY <1>1
    <3> QED
      BY <2>5, <3>1, <3>2
  <2>7. \A s \in q.step : (v - low) % s = 0
    BY <1>1, <2>4, <2>5
  <2>8. NumberFits(q, v)
    BY <1>2, <2>1, <2>4, <2>5, <2>6, <2>7 DEF NumberFits, Within, OnStep, is_step_aligned, Unit
  <2> QED
    BY <2>2, <2>5, <2>8
<1>3. CASE q.minimum = {}
  <2>1. PICK n \in Int : OrElse(q.maximum, 0) = n /\ \A high \in q.maximum : high = n
    BY DEF AtMostOne, OrElse, The
  <2>2. NumbersNear(q) = {n - k : k \in 0..((6 * stride) - 1)}
    BY <1>3, <2>1 DEF NumbersNear, Unit
  <2> HIDE DEF stride
  <2>3. PICK k \in 0..((6 * stride) - 1) : (n - k) % stride = 0 /\ (n - k) % 6 = 0
    BY <1>1, MultipleBelow
  <2>4. PICK v \in Int : v = n - k
    BY <1>1
  <2>5. v <= n
    BY <1>1, <2>4
  <2>6. OrElse(q.minimum, 0) = 0 /\ v - 0 = v
    BY <1>3 DEF OrElse
  <2>7. \A s \in q.step : (v - 0) % s = 0
    BY <1>1, <2>3, <2>4, <2>6
  <2>8. NumberFits(q, v)
    BY <1>3, <2>1, <2>3, <2>4, <2>5, <2>6, <2>7 DEF NumberFits, Within, OnStep, is_step_aligned, Unit
  <2> QED
    BY <2>2, <2>4, <2>8
<1> QED
  BY <1>2, <1>3 DEF AtMostOne

(* The n first of two options and a value of the user's own.               *)
LEMMA SelectionsAreFound ==
    ASSUME NEW q, q.kind \in {"multiple_choice", "ranking"}, q.options \in OptionLists, OptionsAccepted(q),
           The(q.min) \in Int, The(q.max) \in Int, CountsFit(q, Capacity(q))
    PROVE  \E s \in Selections : SelectionAccepted(q, s)
<1>1. q.options = <<"a", "b">> /\ OptionsOf(q) = {"a", "b"}
  <2>1. q.options # <<"a">>
    <3> SUFFICES ASSUME q.options = <<"a">> PROVE FALSE
      OBVIOUS
    <3>1. Len(q.options) = 1
      OBVIOUS
    <3> QED
      BY <3>1 DEF OptionsAccepted
  <2>2. q.options # <<"a", "a">>
    <3> SUFFICES ASSUME q.options = <<"a", "a">> PROVE FALSE
      OBVIOUS
    <3>1. 1 \in DOMAIN q.options /\ 2 \in DOMAIN q.options /\ q.options[1] = q.options[2]
      OBVIOUS
    <3> QED
      BY <3>1 DEF OptionsAccepted, Distinct
  <2>3. q.options = <<"a", "b">>
    BY <2>1, <2>2 DEF OptionLists
  <2> QED
    BY <2>3 DEF OptionsOf
<1>2. PICK n \in 0..3 : /\ The(q.min) = n /\ n <= The(q.max)
                        /\ n = 3 => q.kind = "multiple_choice" /\ q.allow_custom
  BY <1>1 DEF CountsFit, Capacity
<1> DEFINE all == <<"a", "b", "x">>
           s == [i \in 1..n |-> all[i]]
<1>3. s \in Selections /\ Len(s) = n /\ DOMAIN s = 1..n /\ \A i \in 1..n : s[i] = all[i] /\ (i = 3 => n = 3)
  <2>1. s \in [1..n -> Values \ {"long"}]
    BY DEF Values
  <2>2. Len(s) = n /\ DOMAIN s = 1..n
    BY <2>1
  <2> QED
    BY <2>1, <2>2 DEF Selections
<1> HIDE DEF s
<1>4. Distinct(s)
  BY <1>3 DEF Distinct
<1>5. Counted(q, Len(s))
  BY <1>2, <1>3 DEF Counted
<1>6. {i \in DOMAIN s : s[i] \notin OptionsOf(q)} = IF n = 3 THEN {3} ELSE {}
  BY <1>1, <1>3
<1>7. Customs(s, OptionsOf(q)) = IF n = 3 THEN 1 ELSE 0
  BY <1>6, FS_Singleton, FS_EmptySet DEF Customs
<1>8. \A i \in DOMAIN s : q.kind = "multiple_choice" => Chosen(s[i], OptionsOf(q), q.allow_custom)
  BY <1>1, <1>2, <1>3 DEF Chosen
<1> QED
  BY <1>2, <1>3, <1>4, <1>5, <1>7, <1>8 DEF SelectionAccepted

LEMMA CountsAreKept ==
    ASSUME NEW raw, NEW required, NEW most \in Int, raw.min \in Counts, raw.max \in Counts,
           NEW q, q = WithCounts(raw, required, most), "min" \in DOMAIN raw, "max" \in DOMAIN raw
    PROVE  The(q.min) \in Int /\ The(q.max) \in Int
<1>1. \A S \in Counts, d \in Int : OrElse(S, d) \in Int
  <2> SUFFICES ASSUME NEW S \in Counts, NEW d \in Int PROVE OrElse(S, d) \in Int
    OBVIOUS
  <2>1. CASE S = {}
    BY <2>1 DEF OrElse
  <2>2. CASE S # {}
    <3>1. PICK v \in -1..3 : S = {v}
      BY <2>2 DEF Counts, Optional
    <3>2. The(S) = v
      BY <3>1 DEF The
    <3> QED
      BY <3>1, <3>2 DEF OrElse
  <2> QED
    BY <2>1, <2>2
<1>2. /\ q.min = {OrElse(raw.min, IF required THEN 1 ELSE 0)}
      /\ q.max = {OrElse(raw.max, most)}
  BY DEF WithCounts
<1>3. \A v : The({v}) = v
  BY DEF The
<1>4. (IF required THEN 1 ELSE 0) \in {0, 1}
  BY Zenon
<1>5. (IF required THEN 1 ELSE 0) \in Int
  BY <1>4
<1>6. OrElse(raw.min, IF required THEN 1 ELSE 0) \in Int
  BY <1>1, <1>5, Zenon
<1>7. OrElse(raw.max, most) \in Int
  BY <1>1, Zenon
<1> QED
  BY <1>2, <1>3, <1>6, <1>7, Zenon

(* So what the tool accepts has an answer, whatever its kind.               *)
LEMMA Answered ==
    ASSUME NEW kind \in Kinds, NEW raw \in Raw(kind), NEW required, NEW q, q = Normalized(raw, required),
           NormalizeAccepts(q)
    PROVE  Answerable(q)
<1>1. CASE kind = "confirm"
  <2>1. q.kind = "confirm"
    BY <1>1 DEF Raw, Normalized
  <2> QED
    BY <2>1 DEF Answerable, AnswersTo, AnswerAccepted
<1>2. CASE kind = "single_choice"
  <2>1. q.kind = "single_choice" /\ q.options \in OptionLists
    BY <1>2 DEF Raw, Normalized
  <2>2. "a" \in OptionsOf(q)
    <3>1. 1 \in DOMAIN q.options /\ q.options[1] = "a"
      BY <2>1 DEF OptionLists
    <3> QED
      BY <3>1 DEF OptionsOf
  <2> QED
    BY <2>1, <2>2 DEF Answerable, AnswersTo, AnswerAccepted, Chosen, Values
<1>3. CASE kind \in {"multiple_choice", "ranking"}
  <2>1. raw.kind = kind /\ raw.options \in OptionLists /\ raw.min \in Counts /\ raw.max \in Counts
    BY <1>3 DEF Raw
  <2>2. q = WithCounts(raw, required, Capacity(raw))
    BY <1>3, <2>1 DEF Normalized
  <2>3. Capacity(raw) \in Int
    BY <2>1 DEF Capacity, OptionLists
  <2>4. q.kind = kind /\ q.options = raw.options
    BY <1>3, <2>1, <2>2 DEF WithCounts, Raw
  <2>5. The(q.min) \in Int /\ The(q.max) \in Int
    <3>1. "min" \in DOMAIN raw /\ "max" \in DOMAIN raw
      BY <1>3 DEF Raw
    <3> QED
      BY ONLY <2>1, <2>2, <2>3, <3>1, CountsAreKept, Zenon
  <2>6. OptionsAccepted(q) /\ CountsFit(q, Capacity(q))
    BY <1>3, <2>4 DEF NormalizeAccepts
  <2>7. \E s \in Selections : SelectionAccepted(q, s)
    BY <1>3, <2>1, <2>4, <2>5, <2>6, SelectionsAreFound
  <2> QED
    BY <1>3, <2>4, <2>7 DEF Answerable, AnswersTo, AnswerAccepted
<1>4. CASE kind = "text"
  <2>1. raw.kind = kind /\ raw.min \in Counts /\ raw.max \in Counts
    BY <1>4 DEF Raw
  <2>2. q = WithCounts(raw, required, MaxAnswerChars)
    BY <1>4, <2>1 DEF Normalized
  <2>3. q.kind = kind
    BY <1>4, <2>1, <2>2 DEF WithCounts, Raw
  <2>4. MaxAnswerChars \in Int
    BY QuestionsAssumption
  <2>5. The(q.min) \in Int /\ The(q.max) \in Int
    <3>1. "min" \in DOMAIN raw /\ "max" \in DOMAIN raw
      BY <1>4 DEF Raw
    <3> QED
      BY ONLY <2>1, <2>2, <2>4, <3>1, CountsAreKept, Zenon
  <2>6. CountsFit(q, MaxAnswerChars)
    BY <1>4, <2>3 DEF NormalizeAccepts
  <2>7. The(q.min) \in 0..MaxAnswerChars /\ Counted(q, The(q.min)) /\ The(q.min) <= MaxAnswerChars
    BY <2>4, <2>5, <2>6 DEF CountsFit, Counted
  <2> QED
    BY <1>4, <2>3, <2>7 DEF Answerable, AnswersTo, AnswerAccepted
<1>5. CASE kind = "date"
  <2>1. q.kind = "date" /\ q.minimum \in Optional(0..2) /\ q.maximum \in Optional(0..2)
    BY <1>5 DEF Raw, Normalized
  <2>2. 0 \notin q.minimum \cup q.maximum /\ \A low \in q.minimum, high \in q.maximum : low <= high
    BY <2>1 DEF NormalizeAccepts
  <2>3. \E v \in 0..3 : v # 0 /\ Within(q, v)
    <3>1. CASE q.minimum = {} /\ q.maximum = {}
      BY <3>1 DEF Within
    <3>2. CASE q.minimum # {}
      <4>1. PICK low \in 0..2 : q.minimum = {low}
        BY <2>1, <3>2 DEF Optional
      <4> QED
        BY <2>2, <4>1 DEF Within
    <3>3. CASE q.minimum = {} /\ q.maximum # {}
      <4>1. PICK high \in 0..2 : q.maximum = {high}
        BY <2>1, <3>3 DEF Optional
      <4> QED
        BY <2>2, <3>3, <4>1 DEF Within
    <3> QED
      BY <3>1, <3>2, <3>3
  <2> QED
    BY <2>1, <2>3 DEF Answerable, AnswersTo, AnswerAccepted
<1>6. CASE kind \in {"number", "scale"}
  <2>1. /\ raw.kind = kind /\ raw.step \in Optional(Numbers)
        /\ raw.minimum \in Optional(Numbers) /\ raw.maximum \in Optional(Numbers)
        /\ raw.integer_only \in BOOLEAN /\ (kind = "scale" => ~raw.integer_only)
    BY <1>6 DEF Raw
  <2>2. q = IF kind = "scale" THEN [raw EXCEPT !.step = {OrElse(@, Unit)}] ELSE raw
    BY <1>6, <2>1 DEF Normalized
  <2>3. /\ q.kind = kind /\ q.minimum = raw.minimum /\ q.maximum = raw.maximum
        /\ q.integer_only = raw.integer_only
        /\ q.step = IF kind = "scale" THEN {OrElse(raw.step, Unit)} ELSE raw.step
    BY <1>6, <2>1, <2>2 DEF Raw
  <2>4. \A S \in Optional(Numbers) : AtMostOne(S)
    BY QuestionsAssumption DEF Optional, AtMostOne
  <2>5. AtMostOne(q.minimum) /\ AtMostOne(q.maximum) /\ AtMostOne(q.step)
    <3>1. AtMostOne(q.minimum) /\ AtMostOne(q.maximum) /\ AtMostOne(raw.step)
      BY <2>1, <2>3, <2>4
    <3>2. OrElse(raw.step, Unit) \in Int
      BY <3>1 DEF AtMostOne, OrElse, The, Unit
    <3>3. AtMostOne({OrElse(raw.step, Unit)})
      BY <3>2 DEF AtMostOne
    <3> QED
      BY <2>3, <3>1, <3>3
  <2>6. /\ \A low \in q.minimum, high \in q.maximum : low <= high
        /\ Has(q.step, Positive)
        /\ q.integer_only => integer_answer_exists(q.minimum, q.maximum, q.step)
    <3>1. CASE kind = "number"
      BY <2>3, <3>1 DEF NormalizeAccepts
    <3>2. CASE kind = "scale"
      <4>1. /\ q.minimum # {} /\ q.maximum # {} /\ The(q.minimum) < The(q.maximum)
            /\ Has(q.step, Positive) /\ ~q.integer_only
        BY <2>1, <2>3, <3>2 DEF NormalizeAccepts
      <4>2. PICK l \in Int, h \in Int : q.minimum = {l} /\ q.maximum = {h}
        BY <2>5, <4>1 DEF AtMostOne
      <4>3. l < h
        BY <4>1, <4>2 DEF The
      <4> QED
        BY <4>1, <4>2, <4>3
    <3> QED
      BY <1>6, <3>1, <3>2
  <2>7. \E v \in NumbersNear(q) : NumberFits(q, v)
    <3>1. q.integer_only \in BOOLEAN
      BY <2>1, <2>3, Zenon
    <3> QED
      BY ONLY <2>5, <2>6, <3>1, NumbersHaveAnswers, Zenon
  <2> QED
    BY <1>6, <2>3, <2>7 DEF Answerable, AnswersTo, AnswerAccepted
<1> QED
  BY <1>1, <1>2, <1>3, <1>4, <1>5, <1>6 DEF Kinds

-----------------------------------------------------------------------------
(* A suspended run still holds what the model asked, and what the tool     *)
(* made of it.                                                             *)
AskedFits ==
    interview.stage = "waiting" =>
        /\ interview.kind \in Kinds /\ interview.asked \in Raw(interview.kind)
        /\ interview.waiting = Normalized(interview.asked, interview.required)
        /\ NormalizeAccepts(interview.waiting)

InterviewFits ==
    /\ \E stage, kind, required, alone, asked, waiting, response :
           interview = [stage |-> stage, kind |-> kind, required |-> required, alone |-> alone, asked |-> asked,
                        waiting |-> waiting, response |-> response]
    /\ interview.stage = "asking" => interview.kind \in Kinds
    /\ AskedFits

LEMMA AskFits ==
    ASSUME InterviewFits, Ask
    PROVE  InterviewFits'
<1>1. PICK s, k, r, a, x, w, y :
          interview = [stage |-> s, kind |-> k, required |-> r, alone |-> a, asked |-> x, waiting |-> w,
                       response |-> y]
  BY DEF InterviewFits
<1>2. interview.stage = "asking" /\ s = "asking" /\ interview.kind = k /\ interview.required = r /\ k \in Kinds
  BY <1>1 DEF Ask, InterviewFits
<1>3. PICK raw \in Raw(k) :
          interview' = IF NormalizeAccepts(Normalized(raw, r))
                       THEN [interview EXCEPT !.stage = "waiting", !.asked = raw, !.waiting = Normalized(raw, r)]
                       ELSE [interview EXCEPT !.stage = "invalid_question"]
  BY <1>2 DEF Ask
<1>4. PICK q : q = Normalized(raw, r)
  OBVIOUS
<1>5. CASE NormalizeAccepts(q)
  <2>1. interview' = [stage |-> "waiting", kind |-> k, required |-> r, alone |-> a, asked |-> raw, waiting |-> q,
                      response |-> y]
    BY <1>1, <1>3, <1>4, <1>5
  <2> QED
    BY <1>2, <1>4, <1>5, <2>1 DEF InterviewFits, AskedFits
<1>6. CASE ~NormalizeAccepts(q)
  <2>1. interview' = [stage |-> "invalid_question", kind |-> k, required |-> r, alone |-> a, asked |-> x,
                      waiting |-> w, response |-> y]
    BY <1>1, <1>3, <1>4, <1>6
  <2> QED
    BY <2>1 DEF InterviewFits, AskedFits
<1> QED
  BY <1>5, <1>6

LEMMA RespondFits ==
    ASSUME InterviewFits, RespondAnswered \/ RespondCancelled
    PROVE  InterviewFits'
<1>1. PICK s, k, r, a, x, w, y :
          interview = [stage |-> s, kind |-> k, required |-> r, alone |-> a, asked |-> x, waiting |-> w,
                       response |-> y]
  BY DEF InterviewFits
<1>2. PICK z \in {"answered", "cancelled"} :
          interview' = [interview EXCEPT !.stage = "resumed", !.response = z]
  BY DEF RespondAnswered, RespondCancelled
<1>3. interview' = [stage |-> "resumed", kind |-> k, required |-> r, alone |-> a, asked |-> x, waiting |-> w,
                    response |-> z]
  BY <1>1, <1>2
<1> QED
  BY <1>3 DEF InterviewFits, AskedFits

LEMMA InterviewAlwaysFits == QuestionsSpec => []InterviewFits
<1>1. ASSUME QuestionsInit PROVE InterviewFits
  <2>1. PICK kind \in Kinds, required, alone \in BOOLEAN :
            interview = [stage |-> "asking", kind |-> kind, required |-> required, alone |-> alone,
                         asked |-> Nothing, waiting |-> Nothing, response |-> "none"]
    BY <1>1 DEF QuestionsInit
  <2>2. interview.stage = "asking" /\ interview.kind = kind
    BY <2>1
  <2> QED
    BY <2>1, <2>2, Zenon DEF InterviewFits, AskedFits
<1>2. InterviewFits /\ [QuestionsNext]_interview => InterviewFits'
  BY AskFits, RespondFits DEF QuestionsNext, InterviewFits, AskedFits
<1> QED
  BY <1>1, <1>2, PTL DEF QuestionsSpec

(* Whatever a model asks, with whatever bounds, steps and defaults: what   *)
(* AskQuestion suspends a run on, the host extracts and finds valid, so    *)
(* the run can be resumed.                                                 *)
THEOREM WaitingQuestionsExtractAlways == QuestionsSpec => []WaitingQuestionsExtract
<1>1. InterviewFits => WaitingQuestionsExtract
  BY HostAgrees DEF InterviewFits, AskedFits, WaitingQuestionsExtract, Extracts
<1> QED
  BY <1>1, InterviewAlwaysFits, PTL

(* And the user has an answer the host accepts: however the bounds and the *)
(* step lie between the whole numbers, what integer_answer_exists lets     *)
(* pass has one.                                                           *)
THEOREM WaitingQuestionsHaveAnswersAlways == QuestionsSpec => []WaitingQuestionsHaveAnswers
<1>1. InterviewFits => WaitingQuestionsExtract
  BY HostAgrees DEF InterviewFits, AskedFits, WaitingQuestionsExtract, Extracts
<1>2. InterviewFits /\ interview.stage = "waiting" => Answerable(interview.waiting)
  BY Answered DEF InterviewFits, AskedFits
<1>3. InterviewFits => WaitingQuestionsHaveAnswers
  BY <1>1, <1>2 DEF WaitingQuestionsHaveAnswers
<1> QED
  BY <1>3, InterviewAlwaysFits, PTL
=============================================================================
