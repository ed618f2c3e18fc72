------------------------------- MODULE Engine -------------------------------
(***************************************************************************)
(* One run of the JHarness kernel, driven by a sequence of invocations     *)
(* against one repository: Engine.run and the steps it awaits, the live    *)
(* control queue, the work deadline, the commit path and the repository's  *)
(* answer to cancellation.                                                 *)
(*                                                                         *)
(* asyncio runs one callback at a time, so a step here is everything the   *)
(* engine does from one suspension point to the next; pc names the point   *)
(* it waits at.  "loop" and "plan" are not suspension points: only the     *)
(* clock moves there.                                                      *)
(***************************************************************************)
EXTENDS RunState

CONSTANTS MaxSteps,        \* RunLimits.max_planning_steps
          MaxToolCalls,    \* RunLimits.max_tool_calls
          MaxTokens,       \* RunLimits.max_total_tokens
          MaxBatch,        \* RunLimits.max_tool_batch_size
          HasDeadline,     \* the run or an invocation has a timeout
          HasReducer,      \* a history reducer is configured
          HasApproval,     \* an approval policy is configured
          Repositories,    \* kinds of repository: "inline", "settling"
          ControlKinds,    \* controls the host submits: "pause", "insert", "cancel"
          ReusesIds,       \* the model may answer with any call id of the run's past
          MaxCallsPerTurn, \* bound: calls in one response
          MaxTurnTokens,   \* bound: tokens one response reports
          KeepsUpTo,       \* bound: the reducer rewrites only longer histories
          MaxControls,     \* bound: controls submitted over the whole run
          MaxInvocations   \* bound: invocations of the run

ASSUME EngineAssumption ==
    /\ MaxSteps \in Nat \ {0} /\ MaxToolCalls \in Nat /\ MaxTokens \in Nat \ {0}
    /\ MaxBatch \in Nat \ {0}
    /\ MaxCallsPerTurn \in Nat /\ MaxTurnTokens \in Nat
    /\ KeepsUpTo \in Nat \ {0} /\ MaxControls \in Nat /\ MaxInvocations \in Nat
    /\ {HasDeadline, HasReducer, HasApproval, ReusesIds} \subseteq BOOLEAN
    /\ Repositories \subseteq {"inline", "settling"}
    /\ ControlKinds \subseteq {"pause", "insert", "cancel"}

VARIABLES
    repo,      \* how the repository treats a cancelled commit
    head,      \* the repository's head checkpoint
    cp,        \* the checkpoint the engine continues from
    last,      \* revision of Engine._last, what a stop event reports; -1: none
    pc,        \* where the engine is
    ready,     \* the tool catalog of this invocation is open
    skip,      \* skip_reducer of _run_active
    deferred,  \* Engine._deferred: numbers of inserts taken but not committed
    queue,     \* ControlInbox._queue
    slot,      \* the control that await_effect's reader has taken, if any
    batch,     \* the tool batch being approved or executed, and its controls
    chg,       \* the change being committed
    wr,        \* how far the repository is with it
    expired,   \* the work deadline has passed
    closed,    \* the consumer has abandoned the event iterator
    stop,      \* reason of INVOCATION_STOPPED, "none" while it is not emitted
    fresh,     \* the next call id a well-behaved model uses
    arrived,   \* number of controls submitted so far
    accepted,  \* controls submitted to this invocation
    landed,    \* inserts this invocation made durable, in commit order
    ran,       \* calls this invocation handed to execution: <<planning step, call id>>
    runs       \* invocations so far

inbox == <<queue, slot>>
host == <<arrived, accepted>>
committing == <<chg, wr>>
frame == <<repo, runs, expired>>
vars == <<repo, head, cp, last, pc, ready, skip, deferred, queue, slot, batch, chg, wr,
          expired, closed, stop, fresh, arrived, accepted, landed, ran, runs>>

NoBatch == [n |-> 0, pause |-> FALSE, inserts |-> <<>>]

Settled == {"idle", "stopped", "broken"}
Interruptibles == {"catalog", "reduce", "model"}   \* await_effect
Effects == Interruptibles \cup {"approve", "exec"} \* external work in flight
SuspensionPoints == Effects \cup {"commit"}

Init ==
    /\ repo \in Repositories
    /\ head = NoCheckpoint /\ cp = NoCheckpoint /\ last = -1
    /\ pc = "idle" /\ ready = FALSE /\ skip = FALSE
    /\ deferred = <<>> /\ queue = <<>> /\ slot = <<>> /\ batch = NoBatch
    /\ chg = NoChange /\ wr = "idle"
    /\ expired = FALSE /\ closed = FALSE /\ stop = "none"
    /\ fresh = 1 /\ arrived = 0 /\ accepted = {} /\ landed = <<>> /\ ran = {} /\ runs = 0

-----------------------------------------------------------------------------
(* The commit path.  Engine._commit replaces any other change by           *)
(* Limited(deadline) once the deadline has passed; Committer.apply reduces *)
(* it before the repository sees it, and a change the reducer refuses      *)
(* raises out of Engine.run past both handlers, with no stop event.        *)

Propose(previous, change, late) ==
    LET proposal == IF late /\ ~IsDeadline(change) THEN Limited("deadline") ELSE change
    IN  /\ chg' = proposal
        /\ IF Accepted(previous, proposal)
           THEN pc' = "commit" /\ wr' = "queued"
           ELSE pc' = "broken" /\ wr' = "idle"

Commit(change) ==
    /\ Propose(cp, change, expired)
    /\ UNCHANGED <<head, cp, last, closed, stop, landed>>

(* What dies with the invocation: the Engine object, its inbox (closed and *)
(* drained by Invocation._drive) and everything not committed.             *)
Discard ==
    /\ deferred' = <<>> /\ queue' = <<>> /\ slot' = <<>> /\ batch' = NoBatch
    /\ ready' = FALSE /\ skip' = FALSE
    /\ chg' = NoChange /\ wr' = "idle"

(* INVOCATION_STOPPED is emitted and the invocation settles. *)
Stop(reason) == pc' = "stopped" /\ stop' = reason /\ Discard

-----------------------------------------------------------------------------
(* Controls.  ControlInbox is a FIFO; a boundary drains it, an awaited     *)
(* effect takes one control at a time into slot.                           *)

InsertOf(c) == IF c.kind = "insert" THEN <<c.n>> ELSE <<>>
InsertsIn(controls) ==
    LET taken[i \in 0..Len(controls)] ==
          IF i = 0 THEN <<>> ELSE taken[i - 1] \o InsertOf(controls[i])
    IN  taken[Len(controls)]
HasPause(controls) == \E i \in DOMAIN controls : controls[i].kind = "pause"

(* Whether await_effect defers inserts at this point instead of being      *)
(* interrupted by them.                                                    *)
DefersToCatalog == pc = "catalog" \* mutation: inserts interrupt a pending provider turn
Defers == pc = "catalog" \/ (pc = "model" /\ cp.st.ptp)

SwallowsPause(c) == c.kind # "insert" \/ Defers \* mutation: a pause is consumed
NonInterrupting(c) == c.kind = "cancel" \/ (c.kind = "insert" /\ Defers)

(* _consume_non_interrupting on the control in slot. *)
DeferredBy(controls) == deferred \o (IF Defers THEN InsertsIn(controls) ELSE <<>>)

(* await_effect's `if effect in done`: the answer wins over a control that *)
(* was taken in the same turn of the loop, which goes back to the inbox,   *)
(* at its tail.                                                            *)
RequeueForgets == queue \* mutation: the control taken last is dropped
Requeued ==
    queue \o (IF slot # <<>> /\ NonInterrupting(slot[1]) THEN <<>> ELSE slot)

EffectDone ==
    /\ pc \in Interruptibles
    /\ deferred' = DeferredBy(slot)
    /\ queue' = Requeued
    /\ slot' = <<>>

-----------------------------------------------------------------------------
(* Invocations.  The host starts the run, continues an active checkpoint   *)
(* or resumes a suspended one, always from the repository's head.  An      *)
(* invocation may find its deadline already past.                          *)

Begin ==
    /\ pc \in Settled /\ runs < MaxInvocations
    /\ runs' = runs + 1
    /\ expired' \in (IF HasDeadline THEN BOOLEAN ELSE {FALSE})
    /\ cp' = head
    /\ closed' = FALSE
    /\ deferred' = <<>> /\ queue' = <<>> /\ slot' = <<>> /\ batch' = NoBatch
    /\ ready' = FALSE /\ skip' = FALSE
    /\ accepted' = {} /\ landed' = <<>> /\ ran' = {}
    /\ UNCHANGED <<repo, head, fresh, arrived>>

(* persist_start gives a late start no cleanup commit: it raises.  *)
StartRun ==
    /\ Begin
    /\ head.rev = -1 /\ last' = -1
    /\ IF expired'
       THEN pc' = "stopped" /\ stop' = "repository_error" /\ chg' = NoChange /\ wr' = "idle"
       ELSE pc' = "commit" /\ stop' = "none" /\ chg' = Started /\ wr' = "queued"

ContinueRun ==
    /\ Begin
    /\ head.rev >= 0 /\ IsActive(head.st) /\ last' = head.rev
    /\ pc' = "open" /\ stop' = "none" /\ chg' = NoChange /\ wr' = "idle"

(* Messages travel with a resume only into interruptible planning. *)
MayAppendInPlanning(st) == IsPlanning(ResumeTo(st)) \* mutation: a pending turn forgotten
MayAppend(st) == Interruptible(ResumeTo(st))

ResumeRun ==
    /\ Begin
    /\ head.st.kind = "suspended" /\ last' = -1
    /\ \E messages \in {<<>>, <<UserMessage>>} :
          /\ messages = <<>> \/ MayAppend(head.st)
          /\ Propose(head, Resumed(head, messages), expired')
    /\ stop' = "none"

-----------------------------------------------------------------------------
(* The surroundings: the host's controls, the clock, the consumer, effects *)
(* that raise CancelledError on their own account, and the process.        *)

Suspending == pc \in Effects \/ (pc = "commit" /\ repo = "settling")

(* Controls submitted before the engine attaches are in the inbox when it  *)
(* opens the catalog.                                                      *)
Submit ==
    /\ Suspending \/ pc = "open"
    /\ arrived < MaxControls
    /\ \E kind \in ControlKinds :
          LET c == [kind |-> kind, n |-> arrived + 1]
          IN  queue' = Append(queue, c) /\ accepted' = accepted \cup {c}
    /\ arrived' = arrived + 1
    /\ UNCHANGED <<frame, head, cp, last, pc, ready, skip, deferred, slot, batch, committing,
                   closed, stop, fresh, landed, ran>>

Deadline ==
    /\ HasDeadline /\ ~expired /\ pc \notin Settled
    /\ expired' = TRUE
    /\ UNCHANGED <<repo, runs, head, cp, last, pc, ready, skip, deferred, inbox, batch, committing,
                   closed, stop, fresh, host, landed, ran>>

(* A repository that settles its commits swallows a cancellation once the  *)
(* operation has left the queue (_settle_future, _settle_task).            *)
Swallows == pc = "commit" /\ wr \in {"running", "written"}

Close ==
    /\ Suspending /\ ~closed
    /\ closed' = TRUE
    /\ IF Swallows
       THEN UNCHANGED <<pc, stop, deferred, inbox, batch, ready, skip, committing>>
       ELSE Stop("consumer_closed")
    /\ UNCHANGED <<frame, head, cp, last, fresh, host, landed, ran>>

EffectCancelled ==
    /\ pc \in Effects
    /\ Stop("consumer_closed")
    /\ UNCHANGED <<frame, head, cp, last, closed, fresh, host, landed, ran>>

(* The process dies; what the repository wrote stays. *)
Crash ==
    /\ pc \notin Settled
    /\ pc' = "idle" /\ stop' = "none" /\ Discard
    /\ UNCHANGED <<frame, head, cp, last, closed, fresh, host, landed, ran>>

-----------------------------------------------------------------------------
(* Opening the tool catalog.  await_effect and ToolStep look at the        *)
(* deadline before they start anything.                                    *)

StartsLate == TRUE \* mutation: the entry check of an awaited effect is missing
MayStart == ~expired

OpenCatalog ==
    /\ pc = "open" /\ MayStart
    /\ pc' = "catalog"
    /\ UNCHANGED <<frame, head, cp, last, ready, skip, deferred, inbox, batch, committing,
                   closed, stop, fresh, host, landed, ran>>

OpenTooLate ==
    /\ pc = "open" /\ ~MayStart
    /\ Commit(Limited("deadline"))
    /\ UNCHANGED <<frame, ready, skip, deferred, inbox, batch, fresh, host, ran>>

CatalogOpens ==
    /\ pc = "catalog"
    /\ EffectDone
    /\ pc' = "loop" /\ ready' = TRUE
    /\ UNCHANGED <<frame, head, cp, last, skip, batch, committing, closed, stop, fresh,
                   host, landed, ran>>

CatalogFails ==
    /\ pc = "catalog"
    /\ EffectDone
    /\ Commit(Failed("tool_catalog_error"))
    /\ UNCHANGED <<frame, ready, skip, batch, fresh, host, ran>>

-----------------------------------------------------------------------------
(* await_effect while the catalog, the reducer or the model is working. *)

(* Mutation: the reader is armed again before its control was handled. *)
TakeControls ==
    /\ pc \in Interruptibles /\ queue # <<>>
    /\ slot' = slot \o <<Head(queue)>> /\ queue' = Tail(queue)
    /\ UNCHANGED <<frame, head, cp, last, pc, ready, skip, deferred, batch, committing,
                   closed, stop, fresh, host, landed, ran>>

TakeControl ==
    /\ pc \in Interruptibles /\ slot = <<>> /\ queue # <<>>
    /\ slot' = <<Head(queue)>> /\ queue' = Tail(queue)
    /\ UNCHANGED <<frame, head, cp, last, pc, ready, skip, deferred, batch, committing,
                   closed, stop, fresh, host, landed, ran>>

ConsumeControl ==
    /\ pc \in Interruptibles /\ slot # <<>> /\ NonInterrupting(slot[1])
    /\ deferred' = DeferredBy(slot)
    /\ slot' = <<>>
    /\ UNCHANGED <<frame, head, cp, last, pc, ready, skip, queue, batch, committing,
                   closed, stop, fresh, host, landed, ran>>

(* EffectInterrupted by a pause or, in interruptible planning, an insert. *)
ControlInterrupts ==
    /\ pc \in Interruptibles /\ slot # <<>> /\ ~NonInterrupting(slot[1])
    /\ Commit(IF slot[1].kind = "pause" THEN SuspendAt(cp.st, "pause")
              ELSE Insert(slot[1].n))
    /\ slot' = <<>>
    /\ UNCHANGED <<frame, ready, skip, deferred, queue, batch, fresh, host, ran>>

(* Mutation: an executing batch is not bounded by the deadline. *)
DeadlineSparesTools ==
    /\ pc \in Effects \ {"exec"} /\ expired /\ slot = <<>>
    /\ Commit(Limited("deadline"))
    /\ batch' = NoBatch
    /\ UNCHANGED <<frame, ready, skip, deferred, inbox, fresh, host, ran>>

(* The deadline is noticed when no control was taken in the same turn. *)
DeadlineInterrupts ==
    /\ pc \in Effects /\ expired /\ slot = <<>>
    /\ Commit(Limited("deadline"))
    /\ batch' = NoBatch
    /\ UNCHANGED <<frame, ready, skip, deferred, inbox, fresh, host, ran>>

-----------------------------------------------------------------------------
(* One turn of _run_active: the boundary, then a planning or a tool step. *)

Boundary == deferred \o InsertsIn(queue)
InsertDue == Interruptible(cp.st) /\ Boundary # <<>>
Quiet == pc = "loop" /\ ~expired /\ ~HasPause(queue) /\ ~InsertDue
Drain == deferred' = Boundary /\ queue' = <<>> /\ UNCHANGED slot

LoopDeadline ==
    /\ pc = "loop" /\ expired
    /\ Commit(Limited("deadline"))
    /\ UNCHANGED <<frame, ready, skip, deferred, inbox, batch, fresh, host, ran>>

LoopPause ==
    /\ pc = "loop" /\ ~expired /\ HasPause(queue)
    /\ Drain
    /\ Commit(SuspendAt(cp.st, "pause"))
    /\ UNCHANGED <<frame, ready, skip, batch, fresh, host, ran>>

LoopInsert ==
    /\ pc = "loop" /\ ~expired /\ ~HasPause(queue) /\ InsertDue
    /\ deferred' = Tail(Boundary) /\ queue' = <<>>
    /\ Commit(Insert(Head(Boundary)))
    /\ UNCHANGED <<frame, ready, skip, slot, batch, fresh, host, ran>>

Reduces == HasReducer /\ ~skip /\ ~cp.st.ptp

LoopPlan ==
    /\ Quiet /\ IsPlanning(cp.st)
    /\ Drain
    /\ pc' = IF Reduces THEN "reduce" ELSE "plan"
    /\ UNCHANGED <<frame, head, cp, last, ready, skip, batch, committing, closed, stop,
                   fresh, host, landed, ran>>

-----------------------------------------------------------------------------
(* The history reducer.  Whatever it proposes is read from nothing. *)

ReducerKeeps ==
    /\ pc = "reduce"
    /\ EffectDone
    /\ pc' = "plan"
    /\ UNCHANGED <<frame, head, cp, last, ready, skip, batch, committing, closed, stop,
                   fresh, host, landed, ran>>

(* A summary, or the history without its oldest message. *)
Rewrites(hist) == IF Len(hist) > KeepsUpTo THEN {<<UserMessage>>, Tail(hist)} ELSE {}

ReducerRewrites ==
    /\ pc = "reduce"
    /\ EffectDone
    /\ \E messages \in Rewrites(cp.hist) :
          Commit(IF ValidHistory(messages, Active(<<>>, FALSE))
                 THEN Rewrite(cp, messages) ELSE Failed("history_reducer_error"))
    /\ skip' = (chg'.fact.kind = "history_rewrite")
    /\ UNCHANGED <<frame, ready, batch, fresh, host, ran>>

ReducerFails ==
    /\ pc = "reduce"
    /\ EffectDone
    /\ Commit(Failed("history_reducer_error"))
    /\ UNCHANGED <<frame, ready, skip, batch, fresh, host, ran>>

-----------------------------------------------------------------------------
(* The planning step. *)

PlanLimit ==
    /\ pc = "plan" /\ cp.steps >= MaxSteps
    /\ Commit(Limited("max_planning_steps"))
    /\ skip' = FALSE
    /\ UNCHANGED <<frame, ready, deferred, inbox, batch, fresh, host, ran>>

PlanTooLate ==
    /\ pc = "plan" /\ cp.steps < MaxSteps /\ ~MayStart
    /\ Commit(Limited("deadline"))
    /\ skip' = FALSE
    /\ UNCHANGED <<frame, ready, deferred, inbox, batch, fresh, host, ran>>

AskModel ==
    /\ pc = "plan" /\ cp.steps < MaxSteps /\ MayStart
    /\ pc' = "model"
    /\ skip' = FALSE
    /\ UNCHANGED <<frame, head, cp, last, ready, deferred, inbox, batch, committing,
                   closed, stop, fresh, host, landed, ran>>

(* What the model answers is read from nothing: also a call id of a turn   *)
(* the history no longer holds, which only the current history refuses.    *)
FreshCalls == {[i \in 1..n |-> fresh + i - 1] : n \in 0..MaxCallsPerTurn}
UsedCalls == IF ReusesIds THEN {<<id>> : id \in 1..(fresh - 1)} ELSE {}

Responses == [calls: FreshCalls \cup UsedCalls, ptp: BOOLEAN, tokens: 0..MaxTurnTokens]

(* PlanningStep.run and the rest of Engine._plan: inserts deferred under a *)
(* pending provider turn keep a completed run active.                      *)
ModelAnswers ==
    /\ pc = "model"
    /\ EffectDone
    /\ \E response \in Responses :
          LET turn == ModelTurn(cp, response, MaxTokens)
          IN  /\ Commit(IF cp.st.ptp /\ deferred' # <<>> THEN KeepActive(turn) ELSE turn)
              /\ fresh' = fresh + Cardinality({i \in DOMAIN response.calls :
                                                 response.calls[i] >= fresh})
    /\ UNCHANGED <<frame, ready, skip, batch, host, ran>>

ModelFails ==
    /\ pc = "model"
    /\ EffectDone
    /\ Commit(Failed("model_provider_error"))
    /\ UNCHANGED <<frame, ready, skip, batch, fresh, host, ran>>

-----------------------------------------------------------------------------
(* The tool step.  Controls never interrupt it: approval leaves them in    *)
(* the inbox, and an executing batch takes them in and keeps them for its  *)
(* boundary.                                                               *)

ToolTurn == Quiet /\ cp.st.kind = "tools_pending"
CapacityPerInvocation == MaxToolCalls - Cardinality(ran) \* mutation: earlier calls forgotten
Capacity == MaxToolCalls - cp.calls
Selectable == {k \in 1..Len(cp.st.pending) : k <= Capacity /\ k <= MaxBatch}
Calls(k) == {<<cp.steps, cp.st.pending[i]>> : i \in 1..k}

ToolLimit ==
    /\ ToolTurn /\ Capacity <= 0
    /\ Drain
    /\ Commit(Limited("max_tool_calls"))
    /\ UNCHANGED <<frame, ready, skip, batch, fresh, host, ran>>

SelectFails ==
    /\ ToolTurn /\ Capacity > 0
    /\ Drain
    /\ Commit(Failed("tool_protocol_error"))
    /\ UNCHANGED <<frame, ready, skip, batch, fresh, host, ran>>

(* No selected call binds to a tool: the batch settles without executing. *)
BindRefuses ==
    /\ ToolTurn
    /\ Drain
    /\ \E k \in Selectable : Commit(BatchOutcome(cp, k, "none"))
    /\ UNCHANGED <<frame, ready, skip, batch, fresh, host, ran>>

SelectBatch ==
    /\ ToolTurn
    /\ Drain
    /\ \E k \in Selectable :
          /\ batch' = [NoBatch EXCEPT !.n = k]
          /\ IF HasApproval THEN pc' = "approve" /\ UNCHANGED ran
             ELSE pc' = "exec" /\ ran' = ran \cup Calls(k)
    /\ UNCHANGED <<frame, head, cp, last, ready, skip, committing, closed, stop, fresh,
                   host, landed>>

(* After approval the inbox is drained again, into the batch: Engine._tools *)
(* adds these inserts to deferred only when the step returns its outcome.   *)
DrainedBatch == [n |-> batch.n, pause |-> HasPause(queue), inserts |-> InsertsIn(queue)]

Approves ==
    /\ pc = "approve" /\ MayStart
    /\ pc' = "exec"
    /\ batch' = DrainedBatch /\ queue' = <<>>
    /\ ran' = ran \cup Calls(batch.n)
    /\ UNCHANGED <<frame, head, cp, last, ready, skip, deferred, slot, committing, closed,
                   stop, fresh, host, landed>>

Suspension(b, waits) ==
    IF waits THEN "waiting" ELSE IF b.pause THEN "pause" ELSE "none"

ApprovalDenies ==
    /\ pc = "approve"
    /\ Commit(BatchOutcome(cp, batch.n, Suspension(DrainedBatch, FALSE)))
    /\ deferred' = deferred \o DrainedBatch.inserts
    /\ queue' = <<>> /\ batch' = NoBatch
    /\ UNCHANGED <<frame, ready, skip, slot, fresh, host, ran>>

ApprovalSuspends ==
    /\ pc = "approve"
    /\ Commit(SuspendAt(cp.st, "approval"))
    /\ batch' = NoBatch
    /\ UNCHANGED <<frame, ready, skip, deferred, inbox, fresh, host, ran>>

ApprovalFails ==
    /\ pc = "approve"
    /\ Commit(Failed("tool_protocol_error"))
    /\ batch' = NoBatch
    /\ UNCHANGED <<frame, ready, skip, deferred, inbox, fresh, host, ran>>

BatchTakesControl ==
    /\ pc = "exec" /\ queue # <<>>
    /\ LET c == Head(queue)
       IN  batch' = [n |-> batch.n, pause |-> batch.pause \/ c.kind = "pause",
                     inserts |-> batch.inserts \o InsertOf(c)]
    /\ queue' = Tail(queue)
    /\ UNCHANGED <<frame, head, cp, last, pc, ready, skip, deferred, slot, committing,
                   closed, stop, fresh, host, landed, ran>>

(* Every call has its result; waits: some result is a WaitingResult. *)
BatchDone ==
    /\ pc = "exec"
    /\ \E waits \in BOOLEAN :
          Commit(BatchOutcome(cp, batch.n, Suspension(batch, waits)))
    /\ deferred' = deferred \o batch.inserts
    /\ batch' = NoBatch
    /\ UNCHANGED <<frame, ready, skip, inbox, fresh, host, ran>>

-----------------------------------------------------------------------------
(* The repository and the engine's side of a commit.                       *)

Landing(change) ==
    IF change.fact.kind = "conversation_insert" THEN <<change.append[1].ref>> ELSE <<>>

(* Engine._commit returns: the view verifier judges the step, and the      *)
(* invocation goes on from the new checkpoint or settles in it.            *)
Return(next) ==
    /\ cp' = next /\ last' = next.rev
    /\ IF Verified(cp, next) /\ ~IsActive(next.st)
       THEN Stop(IF next.st.kind = "suspended" THEN "suspended" ELSE "terminal")
       ELSE /\ pc' = IF ~Verified(cp, next) THEN "broken" ELSE IF ready THEN "loop" ELSE "open"
            /\ chg' = NoChange /\ wr' = "idle"
            /\ UNCHANGED <<stop, ready, skip, deferred, inbox, batch>>

(* Memory and ephemeral repositories commit without awaiting. *)
CommitInline ==
    /\ pc = "commit" /\ repo = "inline"
    /\ head' = Reduce(cp, chg)
    /\ landed' = landed \o Landing(chg)
    /\ Return(head')
    /\ UNCHANGED <<frame, closed, fresh, host, ran>>

(* A durable repository queues the operation, runs it on another thread or *)
(* connection, and reports back.                                           *)
RepositoryRuns ==
    /\ pc = "commit" /\ repo = "settling" /\ wr = "queued"
    /\ wr' = "running"
    /\ UNCHANGED <<frame, head, cp, last, pc, ready, skip, deferred, inbox, batch, chg,
                   closed, stop, fresh, host, landed, ran>>

RepositoryWrites ==
    /\ pc = "commit" /\ wr = "running"
    /\ wr' = "written"
    /\ head' = Reduce(cp, chg)
    /\ landed' = landed \o Landing(chg)
    /\ UNCHANGED <<frame, cp, last, pc, ready, skip, deferred, inbox, batch, chg, closed,
                   stop, fresh, host, ran>>

RepositoryReplies ==
    /\ pc = "commit" /\ wr = "written"
    /\ Return(head)
    /\ UNCHANGED <<frame, head, closed, fresh, host, landed, ran>>

(* Mutation: a reply lost after the write is reported as a failure. *)
FailsAfterWrite ==
    /\ pc = "commit" /\ repo = "settling" /\ wr # "idle"
    /\ last' = cp.rev
    /\ Stop("repository_error")
    /\ UNCHANGED <<frame, head, cp, closed, fresh, host, landed, ran>>

(* Mutation: a failed commit sends the engine round its loop again. *)
FailureRetries ==
    /\ pc = "commit" /\ wr \in {"queued", "running"} /\ ready
    /\ pc' = "loop" /\ chg' = NoChange /\ wr' = "idle"
    /\ UNCHANGED <<frame, head, cp, last, ready, skip, deferred, inbox, batch, closed,
                   stop, fresh, host, landed, ran>>

(* An error, or the infrastructure timeout while still queued: CommitError *)
(* carries the checkpoint the step started from.                           *)
RepositoryFails ==
    /\ pc = "commit" /\ repo = "settling" /\ wr \in {"queued", "running"}
    /\ last' = cp.rev
    /\ Stop("repository_error")
    /\ UNCHANGED <<frame, head, cp, closed, fresh, host, landed, ran>>

(* The work deadline passes while the operation is queued: it is withdrawn *)
(* and Limited(deadline) is committed in its place, except that a start    *)
(* has no place to fall back to.                                           *)
CommitTimesOut ==
    /\ pc = "commit" /\ repo = "settling" /\ wr = "queued"
    /\ expired /\ ~IsDeadline(chg)
    /\ IF cp.rev = -1
       THEN Stop("repository_error") /\ UNCHANGED <<head, cp, last, closed, landed>>
       ELSE /\ Commit(Limited("deadline"))
            /\ UNCHANGED <<ready, skip, deferred, inbox, batch>>
    /\ UNCHANGED <<frame, fresh, host, ran>>

-----------------------------------------------------------------------------
Invocation == StartRun \/ ContinueRun \/ ResumeRun

Environment == Submit \/ Deadline \/ Close \/ EffectCancelled \/ Crash

(* What the engine, once its turn comes, does without waiting for anyone. *)
EngineStep ==
    \/ OpenCatalog \/ OpenTooLate
    \/ TakeControl \/ ConsumeControl \/ ControlInterrupts \/ DeadlineInterrupts
    \/ LoopDeadline \/ LoopPause \/ LoopInsert \/ LoopPlan
    \/ PlanLimit \/ PlanTooLate \/ AskModel
    \/ ToolLimit \/ SelectFails \/ BindRefuses \/ SelectBatch
    \/ BatchTakesControl

(* Answers of the host's ports. *)
PortStep ==
    \/ CatalogOpens \/ CatalogFails
    \/ ReducerKeeps \/ ReducerRewrites \/ ReducerFails
    \/ ModelAnswers \/ ModelFails
    \/ Approves \/ ApprovalDenies \/ ApprovalSuspends \/ ApprovalFails
    \/ BatchDone

RepositoryStep ==
    \/ CommitInline
    \/ RepositoryRuns \/ RepositoryWrites \/ RepositoryReplies \/ RepositoryFails
    \/ CommitTimesOut

Next == Invocation \/ Environment \/ EngineStep \/ PortStep \/ RepositoryStep

Spec == Init /\ [][Next]_vars

(* asyncio runs every ready callback and fires every timer, and a commit   *)
(* is bounded by the repository timeout or settled by its adapter.  No     *)
(* port of the host is assumed ever to answer.                             *)
FairSpec == Spec /\ WF_vars(EngineStep) /\ WF_vars(RepositoryStep)
=============================================================================
