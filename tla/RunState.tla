------------------------------ MODULE RunState ------------------------------
(***************************************************************************)
(* The durable data of one run of the JHarness kernel and the pure         *)
(* functions over it: lifecycle states, facts, the closed set of changes,  *)
(* the reducer that turns a change into the next checkpoint, and the two   *)
(* independent judges of that step, the checkpoint's own boundary check    *)
(* and the observable-view verifier.                                       *)
(*                                                                         *)
(* A message is [role, ref, calls]: ref is the call id a tool message      *)
(* answers or the number of the insert an external message carries; calls  *)
(* are the runtime tool calls of an assistant message.  Contents, usage    *)
(* fields other than total_tokens, metadata and timestamps are left out.   *)
(***************************************************************************)
EXTENDS Integers, Sequences, FiniteSets, SequencesExt

Message(role, ref, calls) == [role |-> role, ref |-> ref, calls |-> calls]

UserMessage == Message("user", 0, <<>>)
Assistant(calls) == Message("assistant", 0, calls)
ToolMessage(id) == Message("tool", id, <<>>)
External(n) == Message("external", n, <<>>)

-----------------------------------------------------------------------------
(* Lifecycle.  Planning and ToolsPending are the two active states; a      *)
(* suspended state keeps the pending calls and provider_turn_pending of    *)
(* the state it resumes to.                                                *)

Active(pending, ptp) ==
    [kind    |-> IF pending = <<>> THEN "planning" ELSE "tools_pending",
     pending |-> pending, ptp |-> ptp, why |-> "none"]

Suspended(st, why) == [st EXCEPT !.kind = "suspended", !.why = why]

Terminal(kind, why) ==
    [kind |-> kind, pending |-> <<>>, ptp |-> FALSE, why |-> why]

ActiveKinds == {"planning", "tools_pending"}
TerminalKinds == {"completed", "failed", "limited"}

IsActive(st) == st.kind \in ActiveKinds
IsPlanning(st) == st.kind = "planning"
Interruptible(st) == IsPlanning(st) /\ ~st.ptp
ResumeTo(st) == Active(st.pending, st.ptp)

-----------------------------------------------------------------------------
(* Facts and changes.  One record shape holds every fact; a field that a   *)
(* kind does not have keeps its blank value.                               *)

Fact(kind) == [kind |-> kind, result |-> "none", calls |-> <<>>,
               ptp |-> FALSE, why |-> "none", n |-> 0, m |-> 0]

Change(fact, st) ==
    [fact |-> fact, st |-> st, append |-> <<>>, replace |-> <<>>,
     steps |-> 0, calls |-> 0, tokens |-> 0]

NoChange == Change(Fact("none"), Terminal("none", "none"))

(* The checkpoint before revision 0: nothing is durable yet. *)
NoCheckpoint ==
    [rev |-> -1, hist |-> <<>>, steps |-> 0, calls |-> 0, tokens |-> 0,
     st |-> Active(<<>>, FALSE), fact |-> Fact("none")]

Started ==
    [Change([Fact("started") EXCEPT !.n = 1], Active(<<>>, FALSE))
       EXCEPT !.append = <<UserMessage>>]

Resumed(cp, messages) ==
    [Change([Fact("resumed") EXCEPT !.n = Len(messages)], ResumeTo(cp.st))
       EXCEPT !.append = messages]

Failed(code) ==
    Change([Fact("control") EXCEPT !.result = "failed", !.why = code],
           Terminal("failed", code))

Limited(reason) ==
    Change([Fact("control") EXCEPT !.result = "limited", !.why = reason],
           Terminal("limited", reason))

IsDeadline(change) == change.st = Terminal("limited", "deadline")

SuspendAt(st, why) ==
    Change([Fact("control") EXCEPT !.result = "suspended", !.why = why],
           Suspended(st, why))

Insert(n) ==
    [Change(Fact("conversation_insert"), Active(<<>>, FALSE))
       EXCEPT !.append = <<External(n)>>]

Rewrite(cp, messages) ==
    [Change([Fact("history_rewrite") EXCEPT !.n = Len(cp.hist), !.m = Len(messages)],
            Active(<<>>, FALSE))
       EXCEPT !.replace = messages]

(* Mutation: a pending provider turn outranks the calls of its answer. *)
ModelTurnPtpFirst(cp, response, maxTokens) ==
    LET st == IF cp.tokens + response.tokens > maxTokens
              THEN Terminal("limited", "max_total_tokens")
              ELSE IF response.ptp THEN Active(<<>>, TRUE)
                   ELSE IF response.calls # <<>> THEN Active(response.calls, FALSE)
                        ELSE Terminal("completed", "none")
    IN  [Change([Fact("model_turn") EXCEPT !.result = st.kind,
                    !.calls = response.calls, !.ptp = st.ptp,
                    !.why = st.why, !.n = response.tokens], st)
           EXCEPT !.append = <<Assistant(response.calls)>>,
                  !.steps = 1, !.tokens = response.tokens]

(* PlanningStep._change: the token budget outranks the calls, the calls    *)
(* outrank a pending provider turn, and only an answer with neither ends   *)
(* the run.  A limited turn reports provider_turn_pending as False.        *)
ModelTurn(cp, response, maxTokens) ==
    LET st == IF cp.tokens + response.tokens > maxTokens
              THEN Terminal("limited", "max_total_tokens")
              ELSE IF response.calls # <<>> \/ response.ptp
                   THEN Active(response.calls, response.ptp)
                   ELSE Terminal("completed", "none")
    IN  [Change([Fact("model_turn") EXCEPT !.result = st.kind,
                    !.calls = response.calls, !.ptp = st.ptp,
                    !.why = st.why, !.n = response.tokens], st)
           EXCEPT !.append = <<Assistant(response.calls)>>,
                  !.steps = 1, !.tokens = response.tokens]

(* _continue_for_deferred_inserts. *)
KeepActive(change) ==
    IF change.st.kind = "completed"
    THEN [change EXCEPT !.st = Active(<<>>, FALSE), !.fact.result = "planning"]
    ELSE change

(* _outcome: the first k pending calls are answered in model order; any    *)
(* suspension (a waiting tool before a pause) wraps the remaining state.   *)
BatchOutcome(cp, k, why) ==
    LET pending == cp.st.pending
        batch   == SubSeq(pending, 1, k)
        next    == Active(SubSeq(pending, k + 1, Len(pending)), cp.st.ptp)
    IN  [Change([Fact("tool_batch") EXCEPT !.calls = batch, !.why = why],
                IF why = "none" THEN next ELSE Suspended(next, why))
           EXCEPT !.append = [i \in 1..k |-> ToolMessage(batch[i])],
                  !.calls = k]

-----------------------------------------------------------------------------
(* History linkage.  A proof is what a validated snapshot remembers of its *)
(* history: the calls still unanswered and every call id already used.     *)

CallIds(hist) == UNION {ToSet(hist[i].calls) : i \in DOMAIN hist}

(* _advance_linkage on one message, given the proof so far. *)
Link(proof, msg) ==
    IF ~proof.ok THEN proof
    ELSE IF proof.pending # <<>>
    THEN [ok      |-> msg.role = "tool" /\ msg.ref = Head(proof.pending),
          pending |-> Tail(proof.pending),
          seen    |-> proof.seen]
    ELSE [ok      |-> /\ msg.role # "tool"
                      /\ Cardinality(ToSet(msg.calls)) = Len(msg.calls)
                      /\ ToSet(msg.calls) \cap proof.seen = {},
          pending |-> msg.calls,
          seen    |-> proof.seen \cup ToSet(msg.calls)]

Extend(proof, messages) ==
    LET link[n \in 0..Len(messages)] ==
          IF n = 0 THEN proof ELSE Link(link[n - 1], messages[n])
    IN  link[Len(messages)]

EmptyProof == [ok |-> TRUE, pending |-> <<>>, seen |-> {}]

(* _validate_unresolved: a state that is, or resumes to, ToolsPending owns *)
(* exactly the unanswered calls; only Failed and Limited may leave some.   *)
Resolves(proof, st) ==
    IF st.pending # <<>>
    THEN proof.pending = st.pending
    ELSE proof.pending = <<>> \/ st.kind \in {"failed", "limited"}

(* analyze_messages: the proof of a whole history, read from nothing, as   *)
(* when a checkpoint is loaded back from a repository.                     *)
ValidHistory(hist, st) ==
    LET proof == Extend(EmptyProof, hist)
    IN  proof.ok /\ Resolves(proof, st)

(* Mutation: a snapshot forgets which ids its history used. *)
RetainedPending(cp) == [ok |-> TRUE, pending |-> cp.st.pending, seen |-> {}]

(* The proof a snapshot retains instead of reading its history again. *)
Retained(cp) ==
    [ok |-> TRUE, pending |-> cp.st.pending, seen |-> CallIds(cp.hist)]

(* evolve_history: only the edit is checked, against the retained proof. *)
LinksTo(cp, change) ==
    IF change.replace # <<>>
    THEN ValidHistory(change.replace, change.st)
    ELSE LET proof == Extend(Retained(cp), change.append)
         IN  proof.ok /\ Resolves(proof, change.st)

-----------------------------------------------------------------------------
(* The reducer (change.reduce, RunSnapshot._evolve, RunMetrics.advance). *)
Reduce(cp, change) ==
    [rev    |-> cp.rev + 1,
     hist   |-> IF change.replace # <<>> THEN change.replace
                ELSE cp.hist \o change.append,
     steps  |-> cp.steps + change.steps,
     calls  |-> cp.calls + change.calls,
     tokens |-> cp.tokens + change.tokens,
     st     |-> change.st,
     fact   |-> change.fact]

-----------------------------------------------------------------------------
(* Checkpoint._validate_boundary: what a fact says against the snapshot it *)
(* is stored with.                                                         *)

ToolBoundary(cp) ==
    LET tail == SubSeq(cp.hist, Len(cp.hist) - Len(cp.fact.calls) + 1, Len(cp.hist))
    IN  /\ IF cp.fact.why = "none" THEN IsActive(cp.st)
           ELSE cp.st.kind = "suspended" /\ cp.st.why = cp.fact.why
        /\ Len(cp.fact.calls) <= Len(cp.hist)
        /\ \A i \in DOMAIN tail :
              tail[i].role = "tool" /\ tail[i].ref = cp.fact.calls[i]

ModelBoundary(cp) ==
    /\ Last(cp.hist).role = "assistant"
    /\ Last(cp.hist).calls = cp.fact.calls
    /\ cp.st.kind = cp.fact.result
    /\ CASE cp.fact.result = "completed"     -> TRUE
         [] cp.fact.result = "planning"      -> cp.st.ptp = cp.fact.ptp
         [] cp.fact.result = "tools_pending" -> cp.st.ptp = cp.fact.ptp
                                                /\ cp.st.pending = cp.fact.calls
         [] cp.fact.result = "limited"       -> cp.st.why = cp.fact.why

BoundaryOK(cp) ==
    IF cp.fact.kind = "started"
    THEN cp.rev = 0 /\ IsPlanning(cp.st) /\ cp.fact.n = Len(cp.hist)
    ELSE /\ cp.rev # 0
         /\ CASE cp.fact.kind = "resumed"    -> IsActive(cp.st)
              [] cp.fact.kind = "model_turn" -> ModelBoundary(cp)
              [] cp.fact.kind = "tool_batch" -> ToolBoundary(cp)
              [] cp.fact.kind = "conversation_insert" ->
                    Interruptible(cp.st) /\ Last(cp.hist).role = "external"
              [] cp.fact.kind = "history_rewrite" ->
                    Interruptible(cp.st) /\ cp.fact.m = Len(cp.hist)
              [] cp.fact.kind = "control" ->
                    cp.st.kind = cp.fact.result /\ cp.st.why = cp.fact.why

(* A change the reducer accepts; otherwise Committer.apply raises before   *)
(* the repository is called.                                               *)
Accepted(cp, change) == LinksTo(cp, change) /\ BoundaryOK(Reduce(cp, change))

-----------------------------------------------------------------------------
(* verify_change: the observable view after a step, recomputed from the    *)
(* view before it and the fact alone.  A view has no messages, only their  *)
(* number.                                                                 *)

View(cp) == [rev |-> cp.rev, count |-> Len(cp.hist), steps |-> cp.steps,
             calls |-> cp.calls, tokens |-> cp.tokens, st |-> cp.st]

BatchState(before, fact, after) ==
    LET rest == after.st.pending
        next == Active(rest, before.st.ptp)
    IN  IF fact.why = "none" THEN next ELSE Suspended(next, fact.why)

ExpectedState(before, fact, after) ==
    CASE fact.kind \in {"started", "conversation_insert", "history_rewrite"} ->
            Active(<<>>, FALSE)
      [] fact.kind = "resumed"    -> ResumeTo(before.st)
      [] fact.kind = "tool_batch" -> BatchState(before, fact, after)
      [] fact.kind = "model_turn" ->
            IF fact.result \in ActiveKinds
            THEN Active(IF fact.result = "planning" THEN <<>> ELSE fact.calls, fact.ptp)
            ELSE Terminal(fact.result, fact.why)
      [] fact.kind = "control" ->
            IF fact.result = "suspended" THEN Suspended(before.st, fact.why)
            ELSE Terminal(fact.result, fact.why)

LegalStep(before, fact, after) ==
    CASE fact.kind = "started"    -> before.rev = -1
      [] fact.kind = "resumed"    -> before.st.kind = "suspended"
      [] fact.kind = "tool_batch" -> /\ before.st.kind = "tools_pending"
                                     /\ before.st.pending = fact.calls \o after.st.pending
      [] fact.kind = "history_rewrite" -> IsPlanning(before.st) /\ fact.n = before.count
      [] fact.kind \in {"model_turn", "conversation_insert"} -> IsPlanning(before.st)
      [] fact.kind = "control"    -> fact.result = "suspended" => IsActive(before.st)

ExpectedCount(before, fact) ==
    CASE fact.kind \in {"started", "resumed"} -> before.count + fact.n
      [] fact.kind \in {"model_turn", "conversation_insert"} -> before.count + 1
      [] fact.kind = "tool_batch" -> before.count + Len(fact.calls)
      [] fact.kind = "history_rewrite" -> fact.m
      [] fact.kind = "control"    -> before.count

Verified(cp, next) ==
    LET before == View(cp)
        after  == View(next)
        fact   == next.fact
    IN  /\ LegalStep(before, fact, after)
        /\ after = [rev    |-> before.rev + 1,
                    count  |-> ExpectedCount(before, fact),
                    steps  |-> before.steps + (IF fact.kind = "model_turn" THEN 1 ELSE 0),
                    calls  |-> before.calls
                               + (IF fact.kind = "tool_batch" THEN Len(fact.calls) ELSE 0),
                    tokens |-> before.tokens + (IF fact.kind = "model_turn" THEN fact.n ELSE 0),
                    st     |-> ExpectedState(before, fact, after)]
=============================================================================
