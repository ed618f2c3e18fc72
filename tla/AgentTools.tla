-------------------------------- MODULE AgentTools --------------------------------
(***************************************************************************)
(* The Agent tools over InMemoryAgentBackend: tool calls of a parent run   *)
(* and of a stranger, the supervisor task of each child, the child runs,   *)
(* and the host that resumes a parent waiting for a child.                 *)
(***************************************************************************)
EXTENDS Integers, Sequences, FiniteSets

CONSTANTS AgentCalls,  \* ids of the tool calls
          MaxAgents,   \* bound on the calls that start a child
          MaxTries     \* bound on the deliveries of one call

VARIABLES agents,    \* the records, by the number that stands for the id
          agentCall, \* the calls
          parent,    \* the parent run: running, or suspended at a wait
          told       \* the terminal snapshots that reached a run

agentVars == <<agents, agentCall, parent, told>>

Runs == {"parent", "stranger"}
TerminalStatuses == {"completed", "failed", "cancelled"}
IdleCall == [tool |-> "none", run |-> "parent", background |-> FALSE, agent |-> 0, phase |-> "idle",
             answer |-> "none", tries |-> 0]
NoWait == [agent |-> 0, call |-> "none", background |-> FALSE, alone |-> TRUE]

AgentsInit ==
    /\ agents = <<>>
    /\ agentCall = [c \in AgentCalls |-> IdleCall]
    /\ parent = [state |-> "running", wait |-> NoWait]
    /\ told = {}

NewRecord(run, c, background) ==
    [run |-> run, call |-> c, background |-> background, status |-> "running", requested |-> FALSE,
     sent |-> FALSE, started |-> FALSE, paused |-> FALSE, outcome |-> "none", long |-> FALSE, done |-> FALSE]

-----------------------------------------------------------------------------
(* What a tool makes of a snapshot.                                        *)
Terminal(a) == agents[a].status \in TerminalStatuses
CallSettled(c, answer) == agentCall' = [agentCall EXCEPT ![c].phase = "answered", ![c].answer = answer]
Fits(a) == ~(agents[a].status = "completed" /\ agents[a].long) \* snapshot_payload's limits
Tell(run, a) == told' = told \cup {[run |-> run, agent |-> a, status |-> agents[a].status]}

Succeed(c, a) ==
    IF ~Fits(a) THEN CallSettled(c, "invalid_agent_snapshot") /\ UNCHANGED told
    ELSE /\ CallSettled(c, "success")
         /\ IF Terminal(a) THEN Tell(agentCall[c].run, a) ELSE UNCHANGED told

(* A waiting result suspends the run; other calls of its turn stay behind. *)
Waits(c, a) ==
    /\ CallSettled(c, "waiting") /\ UNCHANGED told
    /\ \E alone \in BOOLEAN :
           parent' = IF agentCall[c].run # "parent" THEN parent
                     ELSE [state |-> "suspended",
                           wait |-> [agent |-> a, call |-> c, background |-> agents[a].background, alone |-> alone]]

-----------------------------------------------------------------------------
(* Agent: start_or_get.                                                    *)
OwnedBy(run, c) == {a \in DOMAIN agents : agents[a].run = run /\ agents[a].call = c}
Unowned(run, c) == {} \* mutation: a repeated call is not recognised
StartedBy(run, c) == OwnedBy(run, c)

MayInvoke(c, run) ==
    /\ run = "parent" => parent.state = "running"
    /\ agentCall[c].phase \in {"idle", "abandoned"} /\ agentCall[c].tries < MaxTries

(* A call delivered again may carry another request; it never starts one.  *)
(* Every child of this model is the parent's.                              *)
InvokeAgent(c, background) ==
    /\ MayInvoke(c, "parent")
    /\ agentCall[c].tries > 0 => agentCall[c].tool = "Agent"
    /\ LET run == "parent"
           known == StartedBy(run, c)
           a == IF known = {} THEN Len(agents) + 1 ELSE CHOOSE b \in known : TRUE
           conflict == known # {} /\ agents[a].background # background
       IN  /\ Cardinality({agents[b].call : b \in DOMAIN agents} \cup {c}) <= MaxAgents
           /\ agents' = IF known = {} THEN Append(agents, NewRecord(run, c, background)) ELSE agents
           /\ agentCall' = [agentCall EXCEPT ![c] =
                  [tool |-> "Agent", run |-> run, background |-> background, agent |-> a,
                   phase |-> IF conflict THEN "answered" ELSE "starting",
                   answer |-> IF conflict THEN "agent_conflict" ELSE "none", tries |-> @.tries + 1]]
    /\ UNCHANGED <<parent, told>>

AnswerAgent(c) ==
    /\ agentCall[c].tool = "Agent" /\ agentCall[c].phase = "starting"
    /\ LET a == agentCall[c].agent IN
       /\ agents[a].started
       /\ CASE Terminal(a) \/ ~Fits(a) -> Succeed(c, a) /\ UNCHANGED parent
            [] ~Terminal(a) /\ agentCall[c].background -> CallSettled(c, "accepted") /\ UNCHANGED <<parent, told>>
            [] OTHER -> Waits(c, a)
    /\ UNCHANGED agents

-----------------------------------------------------------------------------
(* AgentGet, AgentWait and AgentCancel, with an id a call has answered.    *)
KnownAgents == {agentCall[c].agent : c \in {d \in AgentCalls :
                    agentCall[d].tool = "Agent" /\ agentCall[d].answer \in {"success", "accepted", "waiting"}}}
Looks(c, run, tool, a) ==
    [tool |-> tool, run |-> run, background |-> FALSE, agent |-> a, phase |-> "answered", answer |-> "none",
     tries |-> agentCall[c].tries + 1]

CanLook(c, run) == MayInvoke(c, run) /\ agentCall[c].tries = 0

NotFound(c, run, tool, a) == \* _authorized_record
    /\ CanLook(c, run) /\ agents[a].run # run
    /\ agentCall' = [agentCall EXCEPT ![c] = [Looks(c, run, tool, a) EXCEPT !.answer = "agent_not_found"]]
    /\ UNCHANGED <<agents, parent, told>>

LookUp(c, run, tool, a) == \* AgentGet and AgentWait answer at once with the snapshot
    /\ CanLook(c, run) /\ agents[a].run = run /\ tool \in {"AgentGet", "AgentWait"}
    /\ LET answer == IF ~Fits(a) THEN "invalid_agent_snapshot"
                     ELSE IF tool = "AgentWait" /\ ~Terminal(a) THEN "waiting" ELSE "success"
       IN  /\ agentCall' = [agentCall EXCEPT ![c] = [Looks(c, run, tool, a) EXCEPT !.answer = answer]]
           /\ IF answer = "success" /\ Terminal(a) THEN Tell(run, a) ELSE UNCHANGED told
           /\ IF answer = "waiting" /\ run = "parent"
              THEN \E alone \in BOOLEAN :
                       parent' = [state |-> "suspended",
                                  wait |-> [agent |-> a, call |-> c, background |-> agents[a].background,
                                            alone |-> alone]]
              ELSE UNCHANGED parent
    /\ UNCHANGED agents

MarkCancelled(r) == [r EXCEPT !.sent = TRUE, !.requested = TRUE, !.status = "cancelled"] \* mutation: answered at once
MarkRequested(r) == [r EXCEPT !.sent = TRUE, !.requested = TRUE]

(* The first request pauses the child; a child that has its outcome, but   *)
(* whose supervisor has not published it, no longer listens.  One whose    *)
(* supervisor was interrupted has no invocation left, and pause fails.     *)
RequestCancel(c, run, a) ==
    /\ CanLook(c, run) /\ agents[a].run = run
    /\ LET gone == ~Terminal(a) /\ ~agents[a].sent /\ agents[a].done
       IN  agentCall' = [agentCall EXCEPT ![c] =
               [Looks(c, run, "AgentCancel", a) EXCEPT !.phase = IF gone THEN "answered" ELSE "cancelling",
                                                       !.answer = IF gone THEN "agent_backend_error" ELSE "none"]]
    /\ agents' = IF Terminal(a) \/ agents[a].sent THEN agents
                 ELSE [agents EXCEPT ![a] = [MarkRequested(@) EXCEPT !.paused = agents[a].outcome = "none"]]
    /\ UNCHANGED <<parent, told>>

AnswerCancel(c) ==
    /\ agentCall[c].tool = "AgentCancel" /\ agentCall[c].phase = "cancelling"
    /\ Terminal(agentCall[c].agent) \/ agents[agentCall[c].agent].done
    /\ Succeed(c, agentCall[c].agent)
    /\ UNCHANGED <<agents, parent>>

AbandonCall(c) == \* the task of the call is cancelled; the child goes on
    /\ agentCall[c].phase \in {"starting", "cancelling"}
    /\ agentCall' = [agentCall EXCEPT ![c].phase = "abandoned"]
    /\ UNCHANGED <<agents, parent, told>>

-----------------------------------------------------------------------------
(* _run_child, and the child run it supervises.                            *)
StartChild(a) ==
    /\ ~agents[a].started /\ agents[a].outcome = "none"
    /\ \/ agents' = [agents EXCEPT ![a].started = TRUE]
       \/ agents' = [agents EXCEPT ![a].outcome = "raised"] \* Runtime.start fails
    /\ UNCHANGED <<agentCall, parent, told>>

(* The checkpoint the child ends at.  Its tool may suspend it for a reason *)
(* of its own, which may be the one that a cancellation pauses it for; and *)
(* result() may raise, or be interrupted by a cancellation.                *)
EndChild(a) ==
    /\ agents[a].started /\ agents[a].outcome = "none"
    /\ \E outcome \in {"completed", "failed", "limited", "suspended", "suspended_as_cancelled", "raised",
                        "interrupted"} \cup (IF agents[a].paused THEN {"paused"} ELSE {}), long \in BOOLEAN :
           /\ long => outcome = "completed"
           /\ agents' = [agents EXCEPT ![a].outcome = outcome, ![a].long = long]
    /\ UNCHANGED <<agentCall, parent, told>>

TerminalStatus(outcome) ==
    CASE outcome = "completed" -> "completed"
      [] outcome \in {"paused", "suspended_as_cancelled"} -> "cancelled"
      [] OTHER -> "failed"

(* An interrupted supervisor says that it is done and leaves the snapshot. *)
LeftBehind(r) == [r EXCEPT !.started = TRUE, !.done = TRUE]
Published(r) ==
    LET status == TerminalStatus(r.outcome)
    IN  [LeftBehind(r) EXCEPT !.status = status, !.requested = (status = "cancelled")]
PublishChild(a) ==
    /\ agents[a].outcome # "none" /\ ~agents[a].done
    /\ agents' = [agents EXCEPT ![a] = IF @.outcome = "interrupted" THEN LeftBehind(@) ELSE Published(@)]
    /\ UNCHANGED <<agentCall, parent, told>>

-----------------------------------------------------------------------------
(* The host: wait_for_terminal, then resume_agent.                         *)
ResumeParent ==
    /\ parent.state = "suspended"
    /\ LET w == parent.wait IN
       /\ agents[w.agent].done
       /\ w.alone                                     \* extract_agent_wait
       /\ Terminal(w.agent) /\ Fits(w.agent)          \* agent_completion_message, which refuses others
       /\ agents[w.agent].background = w.background
       /\ Tell("parent", w.agent)
    /\ parent' = [state |-> "running", wait |-> NoWait]
    /\ UNCHANGED <<agents, agentCall>>

AgentsNext ==
    \/ ResumeParent
    \/ \E a \in DOMAIN agents : StartChild(a) \/ EndChild(a) \/ PublishChild(a)
    \/ \E c \in AgentCalls :
           \/ \E background \in BOOLEAN : InvokeAgent(c, background)
           \/ AnswerAgent(c) \/ AnswerCancel(c) \/ AbandonCall(c)
           \/ \E run \in Runs :
                  \E a \in KnownAgents :
                      \/ RequestCancel(c, run, a)
                      \/ \E tool \in {"AgentGet", "AgentWait", "AgentCancel"} :
                             NotFound(c, run, tool, a) \/ LookUp(c, run, tool, a)

AgentSpec == AgentsInit /\ [][AgentsNext]_agentVars

-----------------------------------------------------------------------------
(* Properties.                                                             *)

(* However often its call is delivered, abandoned or repeated, a tool call *)
(* owns one child; a child's terminal status, once told to a run by any    *)
(* tool or by the host, is the only one ever told; it is told to no run    *)
(* but its owner; and it is "cancelled" only for a child that was asked to *)
(* pause before it ended, or whose own tool suspended it with the reason   *)
(* that _terminal_snapshot takes for a cancellation.                       *)
AgentReportsAgree ==
    /\ \A c \in AgentCalls, run \in Runs : Cardinality(OwnedBy(run, c)) <= 1
    /\ \A t \in told :
           /\ agents[t.agent].run = t.run
           /\ t.status = agents[t.agent].status /\ agents[t.agent].done
           /\ t.status = "cancelled" =>
                  agents[t.agent].paused \/ agents[t.agent].outcome = "suspended_as_cancelled"
=============================================================================
