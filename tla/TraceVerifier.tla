---------------------------- MODULE TraceVerifier ----------------------------
(***************************************************************************)
(* The trace verifier of jharness.kernel.diagnostics: what it remembers of *)
(* the entries it has visited, when it accepts the next entry, and what    *)
(* that entry changes.  A verifier is a record; Visited folds one entry    *)
(* into it and Concluded is the last step of verify_trace.                 *)
(*                                                                         *)
(* An entry is [seq, kind, data].  Identities are numbers, a call-id       *)
(* digest is the sequence of ids it stands for (the digest is injective),  *)
(* so composing digests is concatenation.                                  *)
(***************************************************************************)
EXTENDS Naturals, Sequences, FiniteSets

ActiveStates == {"planning", "tools_pending"}
TerminalStates == {"completed", "failed", "limited"}
ClosedStates == TerminalStates \cup {"suspended"}
StopReasons == {"terminal", "suspended", "repository_error", "consumer_closed"}

(* The part of a run view the verifier looks at: the state's kind, the     *)
(* planning steps so far and the ids of the pending calls.  resume is the  *)
(* kind of state a suspended run goes back to.                             *)
View(kind, steps, pending, resume) ==
    [kind |-> kind, steps |-> steps, pending |-> pending, resume |-> resume]
NoView == View("none", 0, <<>>, "none")

NoBatch == [id |-> 0, calls |-> <<>>, parallel |-> FALSE]

Boundary == \* what belongs to one boundary and is reset by its checkpoint
    [model |-> "idle", announced |-> 0, batch |-> NoBatch, running |-> {}, settled |-> {},
     seen |-> {}, waiting |-> {}, decided |-> {}]

(* A verifier that has visited nothing, for a trace whose header names     *)
(* this request.                                                           *)
NewVerifier(request) ==
    [request |-> request, ok |-> TRUE, view |-> NoView, last |-> 0, ids |-> {},
     first |-> TRUE, ended |-> FALSE, previous |-> 0, b |-> Boundary]

-----------------------------------------------------------------------------
(* The first entry.                                                        *)

AcceptsStart(v, e) ==
    /\ e.kind = "invocation_started" /\ e.data.request = v.request
    /\ CASE v.request = "start"    -> e.data.from = 0 /\ e.data.view = NoView
         [] v.request = "continue" -> e.data.from # 0 /\ e.data.view.kind \in ActiveStates
         [] v.request = "resume"   -> e.data.from # 0 /\ e.data.view.kind = "suspended"

Started(v, e) ==
    [v EXCEPT !.view = e.data.view, !.last = e.data.from, !.previous = e.seq,
              !.ids = {e.data.from} \ {0}]

-----------------------------------------------------------------------------
(* Model effects.                                                          *)

AcceptsModelStarted(v, d) ==
    /\ v.view.kind = "planning"
    /\ v.b.model # "active" /\ v.b.running = {}
    /\ d.step = v.view.steps + 1

AcceptsModelEvent(v) == v.b.model = "active" \* model_delta and model_finished

-----------------------------------------------------------------------------
(* Tool effects.                                                           *)

Pending(v) == v.view.kind = "tools_pending"
Preparing(v) == Pending(v) /\ v.b.model # "active" /\ v.b.batch # NoBatch

AcceptsSelection(v, d) ==
    /\ Pending(v) /\ v.b.model # "active"
    /\ v.b.batch = NoBatch /\ v.b.running = {} /\ v.b.waiting = {}
    /\ d.calls # <<>> /\ Cardinality({d.calls[i] : i \in DOMAIN d.calls}) = Len(d.calls)
    /\ d.calls \o d.rest = v.view.pending

(* The call is the one at this index of the selected batch. *)
SelectedCall(v, d) ==
    /\ d.batch = v.b.batch.id
    /\ d.index \in DOMAIN v.b.batch.calls /\ v.b.batch.calls[d.index] = d.call

AcceptsApprovalRequest(v, d) ==
    /\ Preparing(v) /\ v.b.running = {} /\ SelectedCall(v, d)
    /\ d.call \notin v.b.waiting \cup v.b.decided

AcceptsApprovalDecision(v, d) == d.call \in v.b.waiting

AcceptsToolStarted(v, d) ==
    /\ Preparing(v) /\ v.b.waiting = {} /\ SelectedCall(v, d)
    /\ d.parallel = v.b.batch.parallel /\ d.call \notin v.b.seen

AcceptsToolEvent(v, d) == d.call \in v.b.running \* tool_progress, tool_cancel_requested

AcceptsToolFinished(v, d) ==
    d.call \in v.b.running /\ d.batch = v.b.batch.id /\ v.b.batch.calls[d.index] = d.call

-----------------------------------------------------------------------------
(* A checkpoint closes a boundary.                                         *)

ActiveEffect(v) ==
    v.b.model = "active" \/ v.b.batch # NoBatch \/ v.b.running # {} \/ v.b.waiting # {}

ModelBoundary(v, d) ==
    /\ v.b.model = "finished" /\ v.b.running = {} /\ v.b.waiting = {}
    /\ v.b.announced = Len(d.calls)

(* Every call whose outcome is not a failure was seen to finish, every     *)
(* call seen to finish is in the fact, with the outcome seen.              *)
ToolBoundary(v, d) ==
    /\ v.b.model # "active" /\ v.b.running = {} /\ v.b.waiting = {}
    /\ v.b.batch # NoBatch
    /\ v.b.batch = [id |-> d.batch, calls |-> d.calls, parallel |-> d.parallel]
    /\ \A i \in DOMAIN d.calls :
           d.outcomes[i] # "failure" => \E t \in v.b.settled : t.call = d.calls[i]
    /\ \A t \in v.b.settled :
           t.index \in DOMAIN d.calls /\ d.calls[t.index] = t.call /\ d.outcomes[t.index] = t.outcome

(* What a tool fact must look like before it is compared with anything.    *)
ToolFact(d) ==
    /\ d.calls # <<>> /\ Len(d.outcomes) = Len(d.calls)
    /\ Cardinality({d.calls[i] : i \in DOMAIN d.calls}) = Len(d.calls)

DeadlineControl(d) == d.fact = "control" /\ d.deadline

(* verify_change itself is View verifier of RunState; the engine ran it on *)
(* these three values before it emitted them, so what is left to check is  *)
(* that the change starts at the view the trace has reached.               *)
AcceptsCheckpoint(v, d) ==
    /\ d.id \notin v.ids /\ d.before = v.view
    /\ d.fact = "tool_batch" => ToolFact(d)
    /\ v.first /\ v.request = "resume" =>
           d.fact = "resumed" \/ DeadlineControl(d)
    /\ CASE d.fact = "model_turn" -> ModelBoundary(v, d)
         [] d.fact = "tool_batch" -> ToolBoundary(v, d)
         [] d.fact \in {"control", "conversation_insert"} -> TRUE
         [] OTHER -> ~ActiveEffect(v)

-----------------------------------------------------------------------------
(* Visiting an entry between the first and the last.                       *)

Accepts(v, e) ==
    LET d == e.data
    IN  CASE e.kind = "model_started"        -> AcceptsModelStarted(v, d)
          [] e.kind \in {"model_delta", "model_finished"} -> AcceptsModelEvent(v)
          [] e.kind = "tool_batch_selected"  -> AcceptsSelection(v, d)
          [] e.kind = "approval_requested"   -> AcceptsApprovalRequest(v, d)
          [] e.kind = "approval_decided"     -> AcceptsApprovalDecision(v, d)
          [] e.kind = "tool_started"         -> AcceptsToolStarted(v, d)
          [] e.kind \in {"tool_progress", "tool_cancel_requested"} -> AcceptsToolEvent(v, d)
          [] e.kind = "tool_finished"        -> AcceptsToolFinished(v, d)
          [] e.kind = "checkpoint_committed" -> AcceptsCheckpoint(v, d)
          [] OTHER -> FALSE

Absorbed(v, e) ==
    LET d == e.data
    IN  CASE e.kind = "model_started"  -> [v EXCEPT !.b.model = "active"]
          [] e.kind = "model_finished" ->
                 [v EXCEPT !.b.model = "finished", !.b.announced = d.calls]
          [] e.kind = "tool_batch_selected" ->
                 [v EXCEPT !.b.batch = [id |-> d.batch, calls |-> d.calls, parallel |-> d.parallel]]
          [] e.kind = "approval_requested" -> [v EXCEPT !.b.waiting = @ \cup {d.call}]
          [] e.kind = "approval_decided" ->
                 [v EXCEPT !.b.waiting = @ \ {d.call}, !.b.decided = @ \cup {d.call}]
          [] e.kind = "tool_started" ->
                 [v EXCEPT !.b.seen = @ \cup {d.call}, !.b.running = @ \cup {d.call}]
          [] e.kind = "tool_finished" ->
                 [v EXCEPT !.b.running = @ \ {d.call},
                           !.b.settled = @ \cup {[call |-> d.call, index |-> d.index,
                                                  outcome |-> d.outcome]}]
          [] e.kind = "checkpoint_committed" ->
                 [v EXCEPT !.ids = @ \cup {d.id}, !.last = d.id, !.first = FALSE,
                           !.view = d.after, !.ended = d.after.kind \in ClosedStates,
                           !.b = Boundary]
          [] OTHER -> v

Visited(v, e) ==
    IF e.seq > v.previous /\ ~v.ended /\ Accepts(v, e)
    THEN [Absorbed(v, e) EXCEPT !.previous = e.seq]
    ELSE [v EXCEPT !.ok = FALSE]

(* The last entry: the reported endpoint is the durable one, and the       *)
(* reason says how the last view ended.                                    *)
AcceptsStop(v, e) ==
    /\ e.kind = "invocation_stopped" /\ e.seq > v.previous
    /\ e.data.reason \in StopReasons /\ e.data.last = v.last
    /\ e.data.reason = "terminal"  => v.view.kind \in TerminalStates /\ ~ActiveEffect(v)
    /\ e.data.reason = "suspended" => v.view.kind = "suspended" /\ ~ActiveEffect(v)
    /\ v.ended => e.data.reason = (IF v.view.kind = "suspended" THEN "suspended" ELSE "terminal")
=============================================================================
