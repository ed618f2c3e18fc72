------------------------------ MODULE ToolBatch ------------------------------
(***************************************************************************)
(* Inside Engine's "exec": execute() of the tool step.  Every call of the  *)
(* batch is a task that waits for a permit, runs the tool and records its  *)
(* completion; the engine sleeps on the tasks, on the reader of the        *)
(* progress buffer and on the reader of the inbox, and does everything     *)
(* that is ready in one turn when it wakes.                                *)
(*                                                                         *)
(* Pauses and inserts only accumulate here (Engine's BatchTakesControl):   *)
(* the inbox below holds the CancelTool controls.                          *)
(*                                                                         *)
(* A call that has returned keeps its permit until the engine has emitted  *)
(* its progress and its tool_finished event.                               *)
(***************************************************************************)
EXTENDS Integers, Sequences, FiniteSets, SequencesExt

CONSTANTS Size,        \* calls in the batch
          Concurrency, \* RunLimits.max_tool_concurrency, 1 for a serial batch
          Buffer,      \* RunLimits.max_buffered_progress
          HasDeadline, \* the run or the invocation has a timeout
          MaxReports,  \* bound: progress reports of the whole batch
          MaxControls  \* bound: controls submitted during the batch

ASSUME ToolBatchAssumption ==
    /\ Size \in Nat \ {0} /\ Concurrency \in Nat \ {0} /\ Buffer \in Nat \ {0}
    /\ HasDeadline \in BOOLEAN /\ MaxReports \in Nat /\ MaxControls \in Nat

VARIABLES
    phase,     \* "wait", or how execute() ended: settled, deadline, cancelled
    status,    \* where each call is
    outcome,   \* what each returned call will report
    permits,   \* value of the semaphore
    order,     \* completion_order: calls that returned, not yet finished
    tries,     \* number of progress reports each call has made
    sent,      \* those of them that the buffer accepted
    overflow,  \* overflowed: calls that met a full buffer
    progress,  \* the buffer
    item,      \* the report that progress_task has taken, if any
    seen,      \* reports emitted as TOOL_PROGRESS, by call
    controls,  \* the inbox: the call that each CancelTool names
    control,   \* the control that control_task has taken, if any
    submitted, \* number of controls submitted so far
    announced, \* calls with a TOOL_CANCEL_REQUESTED event
    cancelled, \* ControlInbox._cancelled
    expired    \* the work deadline has passed

calls == <<status, outcome, permits, order>>
reports == <<tries, sent, overflow>>
signals == <<controls, control, submitted, announced>>
vars == <<phase, status, outcome, permits, order, tries, sent, overflow, progress, item,
          seen, controls, control, submitted, announced, cancelled, expired>>

Calls == 1..Size
In(s) == {c \in Calls : status[c] = s}
Running == In("running")   \* the set active of _Execution

(* A refused call was answered before execution: it has no task. *)
Init ==
    /\ phase = "wait"
    /\ status \in [Calls -> {"queued", "refused"}] /\ \E c \in Calls : status[c] = "queued"
    /\ outcome = [c \in Calls |-> "none"]
    /\ permits = Concurrency /\ order = <<>>
    /\ tries = [c \in Calls |-> 0] /\ sent = [c \in Calls |-> <<>>] /\ overflow = {}
    /\ progress = <<>> /\ item = <<>> /\ seen = [c \in Calls |-> <<>>]
    /\ controls = <<>> /\ control = <<>> /\ submitted = 0 /\ announced = {}
    /\ cancelled = {} /\ expired = FALSE

-----------------------------------------------------------------------------
(* The tasks of the calls. *)

(* The semaphore is fair: tasks start in the order of the batch. *)
Acquire(c) ==
    /\ phase = "wait" /\ status[c] = "queued" /\ permits > 0
    /\ \A b \in In("queued") : c <= b
    /\ permits' = permits - 1
    /\ status' = [status EXCEPT ![c] = "running"]
    /\ UNCHANGED <<phase, outcome, order, reports, progress, item, seen, signals,
                   cancelled, expired>>

RoomForOneMore == Len(progress) <= Buffer \* mutation: off by one
HasRoom == Len(progress) < Buffer

ReportsMade == \* by the whole batch
    LET upTo[c \in 0..Size] == IF c = 0 THEN 0 ELSE upTo[c - 1] + tries[c]
    IN  upTo[Size]

(* A report never waits: a full buffer raises into the tool, which may     *)
(* swallow the error and go on.                                            *)
Report(c) ==
    /\ phase = "wait" /\ status[c] = "running"
    /\ ReportsMade < MaxReports
    /\ tries' = [tries EXCEPT ![c] = @ + 1]
    /\ IF HasRoom
       THEN /\ progress' = Append(progress, [call |-> c, n |-> tries'[c]])
            /\ sent' = [sent EXCEPT ![c] = Append(@, tries'[c])]
            /\ UNCHANGED overflow
       ELSE /\ overflow' = overflow \cup {c}
            /\ UNCHANGED <<progress, sent>>
    /\ UNCHANGED <<phase, calls, item, seen, signals, cancelled, expired>>

(* What the tool returned or raised is its own; it is replaced by the      *)
(* failure progress_overflow if the call ever met a full buffer.           *)
Outcome(c) == IF c \in overflow THEN "progress_overflow" ELSE "own"

(* Mutation: the permit is given back as soon as the tool returns. *)
ReturnReleases(c) ==
    /\ phase = "wait" /\ status[c] = "running"
    /\ outcome' = [outcome EXCEPT ![c] = Outcome(c)]
    /\ status' = [status EXCEPT ![c] = "returned"]
    /\ order' = Append(order, c)
    /\ permits' = permits + 1
    /\ cancelled' = cancelled \ {c}
    /\ UNCHANGED <<phase, reports, progress, item, seen, signals, expired>>

(* The tool returns or raises. *)
Return(c) ==
    /\ phase = "wait" /\ status[c] = "running"
    /\ outcome' = [outcome EXCEPT ![c] = Outcome(c)]
    /\ status' = [status EXCEPT ![c] = "returned"]
    /\ order' = Append(order, c)
    /\ cancelled' = cancelled \ {c}
    /\ UNCHANGED <<phase, permits, reports, progress, item, seen, signals, expired>>

(* The tool raises CancelledError on its own account: nothing is recorded  *)
(* and the task gives its permit back itself.                              *)
RaiseCancelled(c) ==
    /\ phase = "wait" /\ status[c] = "running"
    /\ status' = [status EXCEPT ![c] = "dead"]
    /\ permits' = permits + 1
    /\ cancelled' = cancelled \ {c}
    /\ UNCHANGED <<phase, outcome, order, reports, progress, item, seen, signals, expired>>

-----------------------------------------------------------------------------
(* The surroundings and the two readers. *)

Submit ==
    /\ phase = "wait" /\ submitted < MaxControls
    /\ \E c \in Calls : controls' = Append(controls, c)
    /\ submitted' = submitted + 1
    /\ UNCHANGED <<phase, calls, reports, progress, item, seen, control, announced,
                   cancelled, expired>>

Deadline ==
    /\ HasDeadline /\ phase = "wait" /\ ~expired
    /\ expired' = TRUE
    /\ UNCHANGED <<phase, calls, reports, progress, item, seen, signals, cancelled>>

TakeItem ==
    /\ phase = "wait" /\ item = <<>> /\ progress # <<>>
    /\ item' = <<Head(progress)>> /\ progress' = Tail(progress)
    /\ UNCHANGED <<phase, calls, reports, seen, signals, cancelled, expired>>

TakeControl ==
    /\ phase = "wait" /\ control = <<>> /\ controls # <<>>
    /\ control' = <<Head(controls)>> /\ controls' = Tail(controls)
    /\ UNCHANGED <<phase, calls, reports, progress, item, seen, submitted, announced,
                   cancelled, expired>>

-----------------------------------------------------------------------------
(* The engine wakes: one turn of _advance with its _finish_ready, then the *)
(* loop's own test and the deadline check of the next turn.                *)

Ready == item # <<>> \/ control # <<>> \/ In("returned") # {} \/ In("dead") # {}

(* Mutation: tool_finished overtakes what the call left in the buffer. *)
FinishOvertakes == item
Emitted == item \o (IF order # <<>> THEN progress ELSE <<>>)

NumberOf(c, r) == IF r.call = c THEN <<r.n>> ELSE <<>>
Of(c, items) ==
    LET mine[i \in 0..Len(items)] ==
          IF i = 0 THEN <<>> ELSE mine[i - 1] \o NumberOf(c, items[i])
    IN  mine[Len(items)]

(* Mutation: a cancellation is requested for any call of the batch. *)
RequestsAny == ToSet(control)
Requests == ToSet(control) \cap Running

PermitLeaks == 0 \* mutation: a finished call keeps its permit
Released == Len(order)

(* _cancel_and_settle: every task still there dies without an event. *)
Left == {c \in Calls : status[c] \in {"queued", "running", "returned", "dead"}}
Drop(left) == [c \in Calls |-> IF c \in left THEN "dropped" ELSE status[c]]

Advance ==
    /\ phase = "wait" /\ Ready
    /\ seen' = [c \in Calls |-> seen[c] \o Of(c, Emitted)]
    /\ item' = <<>> /\ progress' = IF order # <<>> THEN <<>> ELSE progress
    /\ announced' = announced \cup Requests /\ control' = <<>>
    /\ permits' = permits + Released /\ order' = <<>>
    /\ LET finished == ToSet(order)
           left     == Left \ finished
       IN  /\ phase' = CASE In("dead") # {}            -> "cancelled"
                         [] In("dead") = {} /\ left = {} -> "settled"
                         [] OTHER -> IF expired THEN "deadline" ELSE "wait"
           /\ status' = [c \in Calls |->
                            IF c \in finished THEN "finished"
                            ELSE IF c \in left /\ phase' # "wait" THEN "dropped"
                            ELSE status[c]]
    /\ cancelled' = IF phase' = "wait" THEN cancelled \cup Requests ELSE {}
    /\ UNCHANGED <<outcome, reports, controls, submitted, expired>>

(* Nothing was ready when the deadline passed. *)
TimesOut ==
    /\ phase = "wait" /\ expired /\ ~Ready
    /\ phase' = "deadline" /\ status' = Drop(Left) /\ cancelled' = {}
    /\ UNCHANGED <<outcome, permits, order, reports, progress, item, seen, signals, expired>>

(* The consumer abandons the invocation. *)
Close ==
    /\ phase = "wait"
    /\ phase' = "cancelled" /\ status' = Drop(Left) /\ cancelled' = {}
    /\ UNCHANGED <<outcome, permits, order, reports, progress, item, seen, signals, expired>>

Tool(c) == Report(c) \/ Return(c) \/ RaiseCancelled(c)
Wake == Advance \/ TimesOut

Next ==
    \/ \E c \in Calls : Acquire(c) \/ Tool(c)
    \/ Submit \/ Deadline \/ Close
    \/ TakeItem \/ TakeControl
    \/ Wake

Spec == Init /\ [][Next]_vars

(* The event loop runs every task that can run. No tool has to return. *)
FairSpec ==
    /\ Spec
    /\ \A c \in Calls : WF_vars(Acquire(c))
    /\ WF_vars(TakeItem) /\ WF_vars(TakeControl) /\ WF_vars(Wake)

-----------------------------------------------------------------------------
Statuses == {"queued", "refused", "running", "returned", "finished", "dead", "dropped"}
Items == [call : Calls, n : 1..MaxReports]

(* Every variable keeps its type, and the buffer its limit. *)
TypeOK ==
    /\ phase \in {"wait", "settled", "deadline", "cancelled"}
    /\ status \in [Calls -> Statuses]
    /\ outcome \in [Calls -> {"none", "own", "progress_overflow"}]
    /\ permits \in Nat /\ order \in Seq(Calls)
    /\ tries \in [Calls -> 0..MaxReports] /\ sent \in [Calls -> Seq(1..MaxReports)]
    /\ overflow \subseteq Calls
    /\ progress \in Seq(Items) /\ Len(progress) <= Buffer
    /\ item \in Seq(Items) /\ Len(item) <= 1 /\ seen \in [Calls -> Seq(1..MaxReports)]
    /\ controls \in Seq(Calls) /\ control \in Seq(Calls)
    /\ Len(control) <= 1 /\ submitted \in 0..MaxControls
    /\ announced \subseteq Calls /\ cancelled \subseteq Calls /\ expired \in BOOLEAN

(* tool-scheduling.md: a permit spans tool_started through tool_finished,  *)
(* so in the event stream no more calls overlap than the limit allows. A   *)
(* call that died of its own CancelledError is not counted: its permit is  *)
(* released without a tool_finished.                                       *)
PermitSpansCall ==
    phase = "wait" =>
        Cardinality(Running \cup In("returned")) <= Concurrency

(* tool-scheduling.md: a permit "is not reused for another call until the  *)
(* prior call's [...] `tool_finished` event has been emitted".             *)
PermitWaitsForFinish ==
    phase = "wait" =>
        Cardinality(Running \cup In("returned") \cup In("dead")) <= Concurrency

(* When tool_finished is emitted, everything the buffer accepted from the  *)
(* call has been emitted, in order and once; and a call that keeps its own *)
(* result has lost no report, even if it swallowed the buffer's error.     *)
ProgressSettles ==
    \A c \in In("finished") :
        /\ seen[c] = sent[c]
        /\ outcome[c] = "own" => seen[c] = [i \in 1..tries[c] |-> i]

(* A tool sees a cancellation request exactly while it runs and once the   *)
(* request was announced: a request that loses the race against the call's *)
(* return, or comes before its start, leaves nothing behind.               *)
CancelsWhatRuns == phase = "wait" => cancelled = announced \cap Running

(* If every running tool comes back, the batch ends: no permit is leaked   *)
(* to a call that finished, failed or overflowed the buffer.               *)
ToolsComeBack == \A c \in Calls : (status[c] = "running") ~> (status[c] # "running")
BatchEnds == ToolsComeBack => <>(phase # "wait")
=============================================================================
