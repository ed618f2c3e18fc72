--------------------------- MODULE ToolBatchProofs ---------------------------
(***************************************************************************)
(* Proofs about ToolBatch for batches, limits and buffers of every size.   *)
(***************************************************************************)
EXTENDS ToolBatch, FiniteSetTheorems, SequenceTheorems, NaturalsInduction,
        WellFoundedInduction, TLAPS

(* What is in completion_order has returned. *)
OrderHasReturned == \A c \in ToSet(order) : status[c] = "returned"

(* Nothing was announced for a call that still waits for its permit. *)
QueuedUnannounced == \A c \in In("queued") : c \notin announced

CInv ==
    /\ status \in [Calls -> Statuses]
    /\ order \in Seq(Calls) /\ control \in Seq(Calls) /\ controls \in Seq(Calls)
    /\ phase = "wait" => OrderHasReturned /\ QueuedUnannounced
    /\ CancelsWhatRuns

-----------------------------------------------------------------------------
LEMMA ToSetOfAppend ==
    ASSUME NEW S, NEW s \in Seq(S), NEW x \in S
    PROVE  ToSet(Append(s, x)) = ToSet(s) \cup {x}
<1> DEFINE t == Append(s, x)
<1>1. /\ DOMAIN t = 1..(Len(s) + 1) /\ DOMAIN s = 1..Len(s) /\ Len(s) \in Nat
      /\ \A i \in 1..Len(s) : t[i] = s[i]
      /\ t[Len(s) + 1] = x
  OBVIOUS
<1> HIDE DEF t
<1>2. ToSet(t) \subseteq ToSet(s) \cup {x}
  BY <1>1 DEF ToSet
<1>3. ToSet(s) \cup {x} \subseteq ToSet(t)
  BY <1>1 DEF ToSet
<1> QED
  BY <1>2, <1>3 DEF t

LEMMA InitCInv == Init => CInv
BY DEF Init, CInv, OrderHasReturned, QueuedUnannounced, CancelsWhatRuns, In, Running,
       Statuses, ToSet

(* A step that ends the batch. *)
LEMMA EndKeepsCInv ==
    ASSUME CInv, phase' # "wait", status' \in [Calls -> Statuses],
           order' \in Seq(Calls), control' \in Seq(Calls), controls' \in Seq(Calls)
    PROVE  CInv'
BY DEF CInv, CancelsWhatRuns

LEMMA AcquireKeepsCInv ==
    ASSUME CInv, NEW c \in Calls, Acquire(c) PROVE CInv'
BY DEF CInv, Acquire, OrderHasReturned, QueuedUnannounced, CancelsWhatRuns, In, Running,
       Statuses, reports, signals

LEMMA ReportKeepsCInv ==
    ASSUME CInv, NEW c \in Calls, Report(c) PROVE CInv'
BY DEF CInv, Report, OrderHasReturned, QueuedUnannounced, CancelsWhatRuns, In, Running,
       calls, signals

LEMMA ReturnKeepsCInv ==
    ASSUME CInv, NEW c \in Calls, Return(c) PROVE CInv'
<1>1. ToSet(order') = ToSet(order) \cup {c}
  BY ToSetOfAppend DEF CInv, OrderHasReturned, Return
<1> QED
  BY <1>1 DEF CInv, Return, OrderHasReturned, QueuedUnannounced, CancelsWhatRuns, In, Running,
              Statuses, reports, signals

LEMMA RaiseKeepsCInv ==
    ASSUME CInv, NEW c \in Calls, RaiseCancelled(c) PROVE CInv'
BY DEF CInv, RaiseCancelled, OrderHasReturned, QueuedUnannounced, CancelsWhatRuns, In,
       Running, Statuses, reports, signals

(* The requests of one turn are for calls that run, and a call that runs   *)
(* is still running after a turn that does not end the batch.              *)
LEMMA AdvanceKeepsCInv == ASSUME CInv, Advance PROVE CInv'
<1>1. /\ order' \in Seq(Calls) /\ control' \in Seq(Calls) /\ controls' \in Seq(Calls)
      /\ order' = <<>>
  BY DEF CInv, Advance
<1>2. status' \in [Calls -> Statuses]
  BY DEF CInv, Advance, Statuses
<1>3. CASE phase' = "wait"
  <2>1. phase = "wait" /\ announced' = announced \cup Requests
        /\ cancelled' = cancelled \cup Requests
    BY <1>3 DEF Advance
  <2>2. \A c \in Calls : status'[c] = IF c \in ToSet(order) THEN "finished" ELSE status[c]
    BY <1>3 DEF Advance
  <2>3. Running' = Running
    BY <2>1, <2>2 DEF CInv, OrderHasReturned, Running, In
  <2>4. QueuedUnannounced'
    BY <2>1, <2>2 DEF CInv, QueuedUnannounced, In, Requests, Running
  <2>5. CancelsWhatRuns'
    BY <2>1, <2>3 DEF CInv, CancelsWhatRuns, Requests
  <2>6. OrderHasReturned'
    BY <1>1 DEF OrderHasReturned, ToSet
  <2> QED
    BY <1>1, <1>2, <2>4, <2>5, <2>6 DEF CInv
<1>4. CASE phase' # "wait"
  BY <1>1, <1>2, <1>4, EndKeepsCInv
<1> QED
  BY <1>3, <1>4

LEMMA ReadersKeepCInv ==
    ASSUME CInv, Submit \/ Deadline \/ TakeItem \/ TakeControl PROVE CInv'
<1>1. UNCHANGED <<phase, status, order, announced, cancelled>>
  BY DEF Submit, Deadline, TakeItem, TakeControl, calls, signals
<1>2. control' \in Seq(Calls) /\ controls' \in Seq(Calls)
  <2>1. CASE Submit
    BY <2>1 DEF CInv, Submit
  <2>2. CASE Deadline \/ TakeItem
    BY <2>2 DEF CInv, Deadline, TakeItem, signals
  <2>3. CASE TakeControl
    <3>1. Head(controls) \in Calls /\ Tail(controls) \in Seq(Calls)
      BY <2>3 DEF CInv, TakeControl
    <3> QED
      BY <2>3, <3>1 DEF TakeControl
  <2> QED
    BY <2>1, <2>2, <2>3
<1> QED
  BY <1>1, <1>2 DEF CInv, OrderHasReturned, QueuedUnannounced, CancelsWhatRuns, In, Running

LEMMA NextKeepsCInv == CInv /\ [Next]_vars => CInv'
<1> SUFFICES ASSUME CInv, [Next]_vars PROVE CInv'
  OBVIOUS
<1>1. CASE \E c \in Calls : Acquire(c) \/ Tool(c)
  BY <1>1, AcquireKeepsCInv, ReportKeepsCInv, ReturnKeepsCInv, RaiseKeepsCInv DEF Tool
<1>2. CASE Submit \/ Deadline \/ TakeItem \/ TakeControl
  BY <1>2, ReadersKeepCInv
<1>3. CASE Advance
  BY <1>3, AdvanceKeepsCInv
<1>4. CASE TimesOut \/ Close
  <2>1. status' \in [Calls -> Statuses]
    BY <1>4 DEF CInv, TimesOut, Close, Drop, Statuses
  <2>2. phase' # "wait" /\ UNCHANGED <<order, control, controls>>
    BY <1>4 DEF TimesOut, Close, signals
  <2> QED
    BY <2>1, <2>2, EndKeepsCInv DEF CInv
<1>5. CASE UNCHANGED vars
  BY <1>5 DEF vars, CInv, OrderHasReturned, QueuedUnannounced, CancelsWhatRuns, In, Running
<1> QED
  BY <1>1, <1>2, <1>3, <1>4, <1>5 DEF Next, Wake

(* A tool sees a cancellation request exactly while it runs and after it   *)
(* was announced, in a batch of any size with any number of controls.      *)
THEOREM CancelsWhatRunsAlways == Spec => []CancelsWhatRuns
<1>1. Spec => []CInv
  BY InitCInv, NextKeepsCInv, PTL DEF Spec
<1>2. CInv => CancelsWhatRuns
  BY DEF CInv
<1> QED
  BY <1>1, <1>2, PTL

-----------------------------------------------------------------------------
(* Permits.  A permit is with the semaphore or with a call that runs or    *)
(* has returned; the calls in completion_order are those that returned,    *)
(* each once, so that releasing one permit for each of them is right.      *)
Holders == Running \cup In("returned")

PermitsAddUp ==
    /\ permits \in Nat
    /\ ToSet(order) = In("returned")
    /\ Cardinality(ToSet(order)) = Len(order)
    /\ permits + Cardinality(Holders) = Concurrency

PInv ==
    /\ status \in [Calls -> Statuses]
    /\ order \in Seq(Calls)
    /\ phase = "wait" => PermitsAddUp

LEMMA CallsFinite == ASSUME NEW S \in SUBSET Calls PROVE IsFiniteSet(S) /\ Cardinality(S) \in Nat
<1>1. IsFiniteSet(Calls)
  BY FS_Interval, ToolBatchAssumption DEF Calls
<1>2. IsFiniteSet(S)
  BY <1>1, FS_Subset
<1> QED
  BY <1>2, FS_CardinalityType

LEMMA InitPInv == Init => PInv
<1> SUFFICES ASSUME Init PROVE PInv
  OBVIOUS
<1>1. status \in [Calls -> Statuses] /\ order = <<>> /\ permits = Concurrency
  BY DEF Init, Statuses
<1>2. Holders = {} /\ In("returned") = {}
  BY DEF Init, Holders, Running, In
<1>3. ToSet(order) = {} /\ Len(order) = 0 /\ order \in Seq(Calls)
  BY <1>1 DEF ToSet
<1>4. Cardinality(Holders) = 0 /\ Cardinality(ToSet(order)) = 0
  BY <1>2, <1>3, FS_EmptySet
<1>5. permits \in Nat /\ permits + Cardinality(Holders) = Concurrency
  BY <1>1, <1>4, ToolBatchAssumption
<1> QED
  BY <1>1, <1>2, <1>3, <1>4, <1>5 DEF PInv, PermitsAddUp

LEMMA AcquireKeepsPInv == ASSUME PInv, NEW c \in Calls, Acquire(c) PROVE PInv'
<1>1. PermitsAddUp /\ permits > 0 /\ permits' = permits - 1 /\ order' = order
      /\ phase' = phase
  BY DEF PInv, Acquire
<1>2. status' = [status EXCEPT ![c] = "running"] /\ status[c] = "queued"
      /\ status \in [Calls -> Statuses]
  BY DEF PInv, Acquire
<1>3. status' \in [Calls -> Statuses] /\ In("returned")' = In("returned")
  BY <1>2 DEF Statuses, In
<1>4. Holders' = Holders \cup {c} /\ c \notin Holders
  BY <1>2 DEF Holders, Running, In
<1>5. Cardinality(Holders') = Cardinality(Holders) + 1 /\ Cardinality(Holders) \in Nat
  <2>1. Holders \subseteq Calls
    BY DEF Holders, Running, In
  <2> QED
    BY <1>4, <2>1, CallsFinite, FS_AddElement
<1>6. permits' \in Nat /\ permits' + Cardinality(Holders') = Concurrency
  BY <1>1, <1>5, ToolBatchAssumption DEF PermitsAddUp
<1> QED
  BY <1>1, <1>3, <1>6 DEF PInv, PermitsAddUp

(* A call that returns joins completion_order and keeps its permit.        *)
LEMMA ReturnKeepsPInv == ASSUME PInv, NEW c \in Calls, Return(c) PROVE PInv'
<1>1. PermitsAddUp /\ permits' = permits /\ order' = Append(order, c) /\ phase' = phase
      /\ order \in Seq(Calls)
  BY DEF PInv, Return
<1>2. status' = [status EXCEPT ![c] = "returned"] /\ status[c] = "running"
      /\ status \in [Calls -> Statuses]
  BY DEF PInv, Return
<1>3. status' \in [Calls -> Statuses] /\ In("returned")' = In("returned") \cup {c}
      /\ c \notin In("returned")
  BY <1>2 DEF Statuses, In
<1>4. Holders' = Holders
  BY <1>2 DEF Holders, Running, In
<1>5. ToSet(order') = ToSet(order) \cup {c} /\ Len(order') = Len(order) + 1 /\ order' \in Seq(Calls)
  BY <1>1, ToSetOfAppend
<1>6. Cardinality(ToSet(order')) = Cardinality(ToSet(order)) + 1
  <2>1. In("returned") \subseteq Calls
    BY DEF In
  <2>2. IsFiniteSet(ToSet(order)) /\ c \notin ToSet(order)
    BY <1>1, <1>3, <2>1, CallsFinite DEF PermitsAddUp
  <2> QED
    BY <1>5, <2>2, FS_AddElement
<1> QED
  BY <1>1, <1>3, <1>4, <1>5, <1>6 DEF PInv, PermitsAddUp

LEMMA RaiseKeepsPInv == ASSUME PInv, NEW c \in Calls, RaiseCancelled(c) PROVE PInv'
<1>1. PermitsAddUp /\ permits' = permits + 1 /\ order' = order /\ phase' = phase
  BY DEF PInv, RaiseCancelled
<1>2. status' = [status EXCEPT ![c] = "dead"] /\ status[c] = "running"
      /\ status \in [Calls -> Statuses]
  BY DEF PInv, RaiseCancelled
<1>3. status' \in [Calls -> Statuses] /\ In("returned")' = In("returned")
  BY <1>2 DEF Statuses, In
<1>4. Holders' = Holders \ {c} /\ c \in Holders
  BY <1>2 DEF Holders, Running, In
<1>5. Cardinality(Holders') = Cardinality(Holders) - 1 /\ Cardinality(Holders) \in Nat
  <2>1. Holders \subseteq Calls
    BY DEF Holders, Running, In
  <2> QED
    BY <1>4, <2>1, CallsFinite, FS_RemoveElement
<1>6. permits' \in Nat /\ permits' + Cardinality(Holders') = Concurrency
  BY <1>1, <1>5, ToolBatchAssumption DEF PermitsAddUp
<1> QED
  BY <1>1, <1>3, <1>6 DEF PInv, PermitsAddUp

(* The turn releases a permit for each call in completion_order, and these *)
(* are all the calls that returned.                                        *)
LEMMA AdvanceKeepsPInv == ASSUME PInv, Advance PROVE PInv'
<1>1. status' \in [Calls -> Statuses] /\ order' = <<>> /\ order' \in Seq(Calls)
  BY DEF PInv, Advance, Statuses
<1>2. ASSUME phase' = "wait" PROVE PermitsAddUp'
  <2>1. PermitsAddUp /\ permits' = permits + Len(order) /\ order \in Seq(Calls)
    BY DEF PInv, Advance, Released
  <2>2. \A c \in Calls : status'[c] = IF c \in ToSet(order) THEN "finished" ELSE status[c]
    BY <1>2 DEF Advance
  <2>3. Running' = Running /\ In("returned")' = {} /\ Holders' = Running
    BY <2>1, <2>2 DEF Running, In, Holders, PermitsAddUp
  <2>4. Cardinality(Holders) = Cardinality(Running) + Cardinality(In("returned"))
    <3>1. Running \subseteq Calls /\ In("returned") \subseteq Calls /\ Running \cap In("returned") = {}
      BY DEF Running, In
    <3>2. IsFiniteSet(Running) /\ IsFiniteSet(In("returned"))
      BY <3>1, CallsFinite
    <3>3. Cardinality(Holders) =
              Cardinality(Running) + Cardinality(In("returned")) - Cardinality(Running \cap In("returned"))
      BY <3>2, FS_Union DEF Holders
    <3>4. Cardinality(Running) \in Nat /\ Cardinality(In("returned")) \in Nat
      BY <3>1, CallsFinite
    <3>5. Cardinality(Running \cap In("returned")) = 0
      BY <3>1, FS_EmptySet
    <3> QED
      BY <3>3, <3>4, <3>5
  <2>5. Cardinality(Running) \in Nat /\ Cardinality(In("returned")) = Len(order) /\ Len(order) \in Nat
    <3>1. Running \subseteq Calls
      BY DEF Running, In
    <3> QED
      BY <2>1, <3>1, CallsFinite DEF PermitsAddUp
  <2>6. permits' \in Nat /\ permits' + Cardinality(Holders') = Concurrency
    BY <2>1, <2>3, <2>4, <2>5, ToolBatchAssumption DEF PermitsAddUp
  <2>7. ToSet(order') = {} /\ Len(order') = 0
    BY <1>1 DEF ToSet
  <2>8. Cardinality(ToSet(order')) = 0
    BY <2>7, FS_EmptySet
  <2> QED
    BY <2>3, <2>6, <2>7, <2>8 DEF PermitsAddUp
<1> QED
  BY <1>1, <1>2 DEF PInv

LEMMA NextKeepsPInv == PInv /\ [Next]_vars => PInv'
<1> SUFFICES ASSUME PInv, [Next]_vars PROVE PInv'
  OBVIOUS
<1>1. CASE \E c \in Calls : Acquire(c) \/ Return(c) \/ RaiseCancelled(c)
  BY <1>1, AcquireKeepsPInv, ReturnKeepsPInv, RaiseKeepsPInv
<1>2. CASE Advance
  BY <1>2, AdvanceKeepsPInv
<1>3. CASE (\E c \in Calls : Report(c)) \/ Submit \/ Deadline \/ TakeItem \/ TakeControl \/ UNCHANGED vars
  <2>1. UNCHANGED <<phase, status, permits, order>>
    BY <1>3 DEF Report, Submit, Deadline, TakeItem, TakeControl, calls, vars
  <2> QED
    BY <2>1 DEF PInv, PermitsAddUp, Holders, Running, In
<1>4. CASE TimesOut \/ Close
  BY <1>4 DEF PInv, TimesOut, Close, Drop, Statuses
<1> QED
  BY <1>1, <1>2, <1>3, <1>4 DEF Next, Wake, Tool

(* In the event stream no more calls overlap than max_tool_concurrency     *)
(* allows, for batches and limits of every size: a permit is neither lost  *)
(* nor made up, whatever the calls do.                                     *)
THEOREM PermitSpansCallAlways == Spec => []PermitSpansCall
<1>1. Spec => []PInv
  BY InitPInv, NextKeepsPInv, PTL DEF Spec
<1>2. PInv => PermitSpansCall
  <2> SUFFICES ASSUME PInv, phase = "wait" PROVE Cardinality(Holders) <= Concurrency
    BY DEF PermitSpansCall, Holders
  <2>1. Holders \subseteq Calls
    BY DEF Holders, Running, In
  <2>2. Cardinality(Holders) \in Nat
    BY <2>1, CallsFinite
  <2> QED
    BY <2>2, ToolBatchAssumption DEF PInv, PermitsAddUp
<1> QED
  BY <1>1, <1>2, PTL

-----------------------------------------------------------------------------
(* Progress.  A call that never met a full buffer has had every report     *)
(* accepted, and its result is settled only when it can report no more.    *)
UpTo(n) == [i \in 1..n |-> i]
OwnResults == \A c \in Calls : outcome[c] = "own" => sent[c] = UpTo(tries[c])

RInv ==
    /\ status \in [Calls -> Statuses] /\ tries \in [Calls -> Nat] /\ sent \in [Calls -> Seq(Nat)]
    /\ outcome \in [Calls -> {"none", "own", "progress_overflow"}]
    /\ \A c \in Calls :
          /\ c \notin overflow => sent[c] = UpTo(tries[c])
          /\ status[c] \in {"queued", "running"} => outcome[c] = "none"
          /\ outcome[c] = "own" => c \notin overflow

LEMMA UpToNext == ASSUME NEW n \in Nat PROVE Append(UpTo(n), n + 1) = UpTo(n + 1)
<1>1. UpTo(n) \in Seq(Nat) /\ Len(UpTo(n)) = n /\ UpTo(n + 1) \in Seq(Nat) /\ Len(UpTo(n + 1)) = n + 1
  BY DEF UpTo
<1>2. Append(UpTo(n), n + 1) \in Seq(Nat) /\ Len(Append(UpTo(n), n + 1)) = n + 1
  BY <1>1
<1>3. ASSUME NEW i \in 1..(n + 1) PROVE Append(UpTo(n), n + 1)[i] = UpTo(n + 1)[i]
  <2>1. UpTo(n + 1)[i] = i /\ (i \in 1..n => UpTo(n)[i] = i)
    BY DEF UpTo
  <2> HIDE DEF UpTo
  <2>2. Append(UpTo(n), n + 1)[i] = IF i = n + 1 THEN n + 1 ELSE UpTo(n)[i]
    BY <1>1, AppendProperties
  <2>3. i = n + 1 \/ i \in 1..n
    OBVIOUS
  <2> QED
    BY <2>1, <2>2, <2>3
<1> QED
  BY <1>1, <1>2, <1>3, SeqEqual

LEMMA InitRInv == Init => RInv
<1> SUFFICES ASSUME Init PROVE RInv
  OBVIOUS
<1>1. <<>> \in Seq(Nat) /\ UpTo(0) = <<>>
  BY DEF UpTo
<1>2. status \in [Calls -> Statuses] /\ tries \in [Calls -> Nat] /\ sent \in [Calls -> Seq(Nat)]
  BY <1>1 DEF Init, Statuses
<1> QED
  BY <1>1, <1>2 DEF Init, RInv

LEMMA ReportKeepsRInv == ASSUME RInv, NEW c \in Calls, Report(c) PROVE RInv'
<1>1. /\ tries \in [Calls -> Nat] /\ sent \in [Calls -> Seq(Nat)] /\ tries[c] \in Nat /\ sent[c] \in Seq(Nat)
      /\ tries' = [tries EXCEPT ![c] = tries[c] + 1]
      /\ status[c] = "running" /\ UNCHANGED <<status, outcome>>
  BY DEF RInv, Report, calls
<1>2. tries[c] + 1 \in Nat
  BY <1>1
<1>3. tries' \in [Calls -> Nat] /\ tries'[c] = tries[c] + 1 /\ \A b \in Calls \ {c} : tries'[b] = tries[b]
  BY <1>1, <1>2
<1>4. CASE HasRoom
  <2>1. sent' = [sent EXCEPT ![c] = Append(sent[c], tries[c] + 1)] /\ overflow' = overflow
    BY <1>3, <1>4 DEF Report
  <2>2. Append(sent[c], tries[c] + 1) \in Seq(Nat)
    BY <1>1, <1>2
  <2>3. sent' \in [Calls -> Seq(Nat)] /\ sent'[c] = Append(sent[c], tries[c] + 1)
        /\ \A b \in Calls \ {c} : sent'[b] = sent[b]
    BY <1>1, <2>1, <2>2
  <2>4. c \notin overflow => sent'[c] = UpTo(tries'[c])
    BY <1>1, <1>3, <2>3, UpToNext DEF RInv
  <2> QED
    BY <1>1, <1>3, <2>1, <2>3, <2>4 DEF RInv
<1>5. CASE ~HasRoom
  <2>1. sent' = sent /\ overflow' = overflow \cup {c}
    BY <1>5 DEF Report
  <2> QED
    BY <1>1, <1>3, <2>1 DEF RInv
<1> QED
  BY <1>4, <1>5

LEMMA NextKeepsRInv == RInv /\ [Next]_vars => RInv'
<1> SUFFICES ASSUME RInv, [Next]_vars PROVE RInv'
  OBVIOUS
<1>1. CASE \E c \in Calls : Report(c)
  BY <1>1, ReportKeepsRInv
<1>2. ASSUME NEW c \in Calls, Acquire(c) \/ Return(c) \/ RaiseCancelled(c) PROVE RInv'
  BY <1>2 DEF RInv, Acquire, Return, RaiseCancelled, Outcome, Statuses, reports
<1>3. CASE Advance
  <2>1. status' \in [Calls -> Statuses] /\ UNCHANGED <<outcome, reports>>
    BY <1>3 DEF RInv, Advance, Statuses
  <2>2. \A c \in Calls : status'[c] \in {"queued", "running"} => status'[c] = status[c]
    BY <1>3 DEF Advance
  <2> QED
    BY <2>1, <2>2 DEF RInv, reports
<1>4. CASE TimesOut \/ Close
  <2>1. status' \in [Calls -> Statuses] /\ UNCHANGED <<outcome, reports>>
    BY <1>4 DEF RInv, TimesOut, Close, Drop, Statuses
  <2>2. \A c \in Calls : status'[c] \in {"queued", "running"} => status'[c] = status[c]
    BY <1>4 DEF TimesOut, Close, Drop
  <2> QED
    BY <2>1, <2>2 DEF RInv, reports
<1>5. CASE Submit \/ Deadline \/ TakeItem \/ TakeControl \/ UNCHANGED vars
  <2>1. UNCHANGED <<status, outcome, tries, sent, overflow>>
    BY <1>5 DEF Submit, Deadline, TakeItem, TakeControl, calls, reports, vars
  <2> QED
    BY <2>1 DEF RInv
<1> QED
  BY <1>1, <1>2, <1>3, <1>4, <1>5 DEF Next, Wake, Tool

(* A call that reports its own result has had each of its progress reports *)
(* accepted, once and in order, even if the tool swallowed the error of a  *)
(* full buffer: the half of ProgressSettles that does not depend on what   *)
(* the buffer still holds.                                                 *)
THEOREM OwnResultsKeepReports == Spec => []OwnResults
<1>1. Spec => []RInv
  BY InitRInv, NextKeepsRInv, PTL DEF Spec
<1>2. RInv => OwnResults
  BY DEF RInv, OwnResults
<1> QED
  BY <1>1, <1>2, PTL

-----------------------------------------------------------------------------
(* What the buffer holds of a call.  Of reads report after report; that    *)
(* its recursion has a solution, and only one, needs induction, here over  *)
(* sets of numbers.                                                        *)

LEMMA LeastNumber ==
    ASSUME NEW T, T \subseteq Nat, T # {}
    PROVE  \E n \in T : \A m \in T : n <= m
<1>1. IsWellFoundedOn(OpToRel(<,Nat), Nat)
  BY NatLessThanWellFounded, Zenon
<1>2. PICK x \in T : \A y \in T : <<y, x>> \notin OpToRel(<,Nat)
  BY <1>1, WFMin, Zenon
<1>3. \A y \in T : ~(y < x)
  BY <1>2 DEF OpToRel
<1> QED
  BY <1>3

LEMMA NumbersFromZero ==
    ASSUME NEW P, 0 \in P, \A n \in Nat : n \in P => n + 1 \in P
    PROVE  Nat \subseteq P
<1> SUFFICES ASSUME Nat \ P # {} PROVE FALSE
  OBVIOUS
<1>1. PICK n \in Nat \ P : \A m \in Nat \ P : n <= m
  BY LeastNumber, Zenon
<1>2. n # 0 /\ n - 1 \in Nat
  BY <1>1
<1>3. n - 1 \in P
  BY <1>1, <1>2
<1> QED
  BY <1>1, <1>2, <1>3

Told == [call : Calls, n : Nat]
Plus(mine, c, r) == mine \o NumberOf(c, r)

Reads(f, c, items, k) ==
    f = [i \in 0..k |-> IF i = 0 THEN <<>> ELSE Plus(f[i - 1], c, items[i])]

LEMMA NumberOfFits ==
    ASSUME NEW c, NEW r \in Told PROVE NumberOf(c, r) \in Seq(Nat)
BY DEF NumberOf, Told

LEMMA SomethingReads ==
    ASSUME NEW c, NEW items, NEW k \in Nat
    PROVE  \E f : Reads(f, c, items, k)
<1> DEFINE P == {n \in Nat : \E f : Reads(f, c, items, n)}
<1>1. 0 \in P
  <2>1. Reads([i \in 0..0 |-> <<>>], c, items, 0)
    BY DEF Reads
  <2> QED
    BY <2>1
<1>2. ASSUME NEW n \in Nat, n \in P PROVE n + 1 \in P
  <2>1. PICK f : Reads(f, c, items, n)
    BY <1>2
  <2> DEFINE g == [i \in 0..(n + 1) |->
                      IF i = n + 1 THEN Plus(f[n], c, items[n + 1]) ELSE f[i]]
  <2>2. f = [i \in 0..n |-> IF i = 0 THEN <<>> ELSE Plus(f[i - 1], c, items[i])]
    BY <2>1 DEF Reads
  <2>3. ASSUME NEW i \in 0..(n + 1)
        PROVE  g[i] = IF i = 0 THEN <<>> ELSE Plus(g[i - 1], c, items[i])
    <3>1. CASE i = n + 1
      <4>1. g[i] = Plus(f[n], c, items[i]) /\ i # 0
        BY <3>1
      <4>2. g[i - 1] = f[n]
        BY <3>1
      <4> QED
        BY <4>1, <4>2
    <3>2. CASE i # n + 1
      <4>1. i \in 0..n /\ g[i] = f[i]
        BY <3>2
      <4>2. i # 0 => g[i - 1] = f[i - 1]
        BY <4>1
      <4>3. f[i] = IF i = 0 THEN <<>> ELSE Plus(f[i - 1], c, items[i])
        BY <2>2, <4>1
      <4> QED
        BY <4>1, <4>2, <4>3
    <3> QED
      BY <3>1, <3>2
  <2>4. Reads(g, c, items, n + 1)
    BY <2>3 DEF Reads
  <2> QED
    BY <2>4
<1> HIDE DEF P
<1>3. Nat \subseteq P
  BY <1>1, <1>2, NumbersFromZero, Zenon
<1> QED
  BY <1>3 DEF P

LEMMA OfReads ==
    ASSUME NEW c, NEW items \in Seq(Told)
    PROVE  \E f : Reads(f, c, items, Len(items)) /\ Of(c, items) = f[Len(items)]
<1> DEFINE mine == CHOOSE g : g = [i \in 0..Len(items) |->
                                     IF i = 0 THEN <<>> ELSE Plus(g[i - 1], c, items[i])]
<1>1. Of(c, items) = mine[Len(items)]
  BY DEF Of, Plus
<1>2. Len(items) \in Nat
  OBVIOUS
<1>3. Reads(mine, c, items, Len(items))
  BY <1>2, SomethingReads DEF Reads
<1> QED
  BY <1>1, <1>3

(* Two buffers that begin alike read alike there. *)
LEMMA ReadsAgree ==
    ASSUME NEW c, NEW p, NEW k \in Nat, NEW f, Reads(f, c, p, k),
           NEW q, NEW l \in Nat, NEW g, Reads(g, c, q, l),
           l <= k, \A i \in 1..l : p[i] = q[i]
    PROVE  f[l] = g[l]
<1> DEFINE P == {n \in Nat : n <= l => f[n] = g[n]}
<1>1. 0 \in P
  BY DEF Reads
<1>2. ASSUME NEW n \in Nat, n \in P PROVE n + 1 \in P
  <2> SUFFICES ASSUME n + 1 <= l PROVE f[n + 1] = g[n + 1]
    OBVIOUS
  <2>1. f[n] = g[n]
    BY <1>2
  <2>2. n + 1 \in 0..k /\ n + 1 \in 0..l /\ n + 1 \in 1..l /\ n + 1 # 0 /\ (n + 1) - 1 = n
    OBVIOUS
  <2>3. f[n + 1] = Plus(f[n], c, p[n + 1])
    BY <2>2 DEF Reads
  <2>4. g[n + 1] = Plus(g[n], c, q[n + 1])
    BY <2>2 DEF Reads
  <2> QED
    BY <2>1, <2>2, <2>3, <2>4
<1> HIDE DEF P
<1>3. Nat \subseteq P
  BY <1>1, <1>2, NumbersFromZero, Zenon
<1> QED
  BY <1>3 DEF P

LEMMA OfNothing == ASSUME NEW c PROVE Of(c, <<>>) = <<>>
<1>1. <<>> \in Seq(Told) /\ Len(<<>>) = 0
  OBVIOUS
<1>2. PICK f : Reads(f, c, <<>>, 0) /\ Of(c, <<>>) = f[0]
  BY <1>1, OfReads
<1> QED
  BY <1>2 DEF Reads

LEMMA OfAppend ==
    ASSUME NEW c, NEW q \in Seq(Told), NEW r \in Told
    PROVE  Of(c, Append(q, r)) = Of(c, q) \o NumberOf(c, r)
<1> DEFINE k == Len(q)
           p == Append(q, r)
<1>1. p \in Seq(Told) /\ Len(p) = k + 1 /\ k \in Nat /\ p[k + 1] = r
  OBVIOUS
<1>2. \A i \in 1..k : p[i] = q[i]
  OBVIOUS
<1> HIDE DEF p
<1>3. PICK f : Reads(f, c, p, k + 1) /\ Of(c, p) = f[k + 1]
  BY <1>1, OfReads
<1>4. PICK g : Reads(g, c, q, k) /\ Of(c, q) = g[k]
  BY OfReads
<1>5. f[k] = g[k]
  <2>1. k + 1 \in Nat /\ k <= k + 1
    BY <1>1
  <2> QED
    BY <1>1, <1>2, <1>3, <1>4, <2>1, ReadsAgree
<1>6. f[k + 1] = Plus(f[k], c, p[k + 1])
  <2>1. k + 1 \in 0..(k + 1) /\ k + 1 # 0 /\ (k + 1) - 1 = k
    BY <1>1
  <2> QED
    BY <1>3, <2>1 DEF Reads
<1> QED
  BY <1>1, <1>3, <1>4, <1>5, <1>6 DEF p, Plus

Cat(x, y) == x \o y
Piece(x, y, w) ==
    /\ w \in Seq(Nat) /\ Len(w) = Len(x) + Len(y)
    /\ \A i \in 1..Len(x) : w[i] = x[i]
    /\ \A i \in 1..Len(y) : w[Len(x) + i] = y[i]
LEMMA Pieces ==
    ASSUME NEW x \in Seq(Nat), NEW y \in Seq(Nat)
    PROVE  Piece(x, y, Cat(x, y))
<1>1. x \o y \in Seq(Nat) /\ Len(x \o y) = Len(x) + Len(y)
  OBVIOUS
<1>2. ASSUME NEW i \in 1..Len(x) PROVE (x \o y)[i] = x[i]
  OBVIOUS
<1>3. ASSUME NEW i \in 1..Len(y) PROVE (x \o y)[Len(x) + i] = y[i]
  OBVIOUS
<1> QED
  BY <1>1, <1>2, <1>3 DEF Piece, Cat

LEMMA Regroup ==
    ASSUME NEW x \in Seq(Nat), NEW y \in Seq(Nat), NEW z \in Seq(Nat)
    PROVE  (x \o y) \o z = x \o (y \o z)
<1>1. PICK a : a = Cat(x, y) /\ Piece(x, y, a)
  BY Pieces
<1>2. PICK b : b = Cat(y, z) /\ Piece(y, z, b)
  BY Pieces
<1>0. a \in Seq(Nat) /\ b \in Seq(Nat)
  BY <1>1, <1>2 DEF Piece
<1>3. PICK l : l = Cat(a, z) /\ Piece(a, z, l)
  BY <1>0, Pieces
<1>4. PICK r : r = Cat(x, b) /\ Piece(x, b, r)
  BY <1>0, Pieces
<1>5. Len(x) \in Nat /\ Len(y) \in Nat /\ Len(z) \in Nat
  OBVIOUS
<1>6. l \in Seq(Nat) /\ r \in Seq(Nat) /\ Len(l) = Len(x) + Len(y) + Len(z) /\ Len(r) = Len(l)
  BY <1>1, <1>2, <1>3, <1>4, <1>5 DEF Piece
<1>7. ASSUME NEW i \in 1..Len(l) PROVE l[i] = r[i]
  <2>1. CASE i \in 1..Len(x)
    <3>1. i \in 1..Len(a)
      BY <1>1, <1>5, <2>1 DEF Piece
    <3> QED
      BY <1>1, <1>3, <1>4, <2>1, <3>1 DEF Piece
  <2>2. ASSUME NEW j \in 1..Len(y), i = Len(x) + j PROVE l[i] = r[i]
    <3>1. i \in 1..Len(a) /\ j \in 1..Len(b)
      BY <1>1, <1>2, <1>5, <2>2 DEF Piece
    <3>2. l[i] = y[j]
      BY <1>1, <1>3, <2>2, <3>1 DEF Piece
    <3>3. r[i] = y[j]
      BY <1>2, <1>4, <2>2, <3>1 DEF Piece
    <3> QED
      BY <3>2, <3>3
  <2>3. ASSUME NEW j \in 1..Len(z), i = Len(x) + Len(y) + j PROVE l[i] = r[i]
    <3>1. Len(y) + j \in 1..Len(b) /\ i = Len(a) + j /\ i = Len(x) + (Len(y) + j)
      BY <1>1, <1>2, <1>5, <2>3 DEF Piece
    <3>2. l[i] = z[j]
      BY <1>3, <3>1 DEF Piece
    <3>3. r[i] = b[Len(y) + j]
      BY <1>4, <3>1 DEF Piece
    <3>4. b[Len(y) + j] = z[j]
      BY <1>2 DEF Piece
    <3> QED
      BY <3>2, <3>3, <3>4
  <2>4. \/ i \in 1..Len(x)
        \/ i - Len(x) \in 1..Len(y) /\ i = Len(x) + (i - Len(x))
        \/ i - Len(x) - Len(y) \in 1..Len(z) /\ i = Len(x) + Len(y) + (i - Len(x) - Len(y))
    <3> DEFINE u == Len(x)
               v == Len(y)
               w == Len(z)
    <3>1. u \in Nat /\ v \in Nat /\ w \in Nat /\ i \in 1..(u + v + w)
      BY <1>5, <1>6
    <3> HIDE DEF u, v, w
    <3>2. \/ i \in 1..u
          \/ i - u \in 1..v /\ i = u + (i - u)
          \/ i - u - v \in 1..w /\ i = u + v + (i - u - v)
      BY <3>1
    <3> QED
      BY <3>2 DEF u, v, w
  <2> QED
    BY <2>1, <2>2, <2>3, <2>4
<1>8. l = r
  BY <1>6, <1>7, SeqEqual
<1>9. Cat(Cat(x, y), z) = Cat(x, Cat(y, z))
  BY <1>1, <1>2, <1>3, <1>4, <1>8
<1> QED
  BY <1>9, Zenon DEF Cat

LEMMA AppendAfter ==
    ASSUME NEW S, NEW p \in Seq(S), NEW s \in Seq(S), NEW r \in S
    PROVE  p \o Append(s, r) = Append(p \o s, r)
<1>1. p \o Append(s, r) \in Seq(S) /\ Append(p \o s, r) \in Seq(S)
  OBVIOUS
<1>2. Len(p \o Append(s, r)) = Len(Append(p \o s, r))
  OBVIOUS
<1>3. ASSUME NEW i \in 1..Len(p \o Append(s, r))
      PROVE  (p \o Append(s, r))[i] = Append(p \o s, r)[i]
  OBVIOUS
<1> QED
  BY <1>1, <1>2, <1>3, SeqEqual, Zenon

(* What two pieces of the buffer hold of a call, one after the other. *)
LEMMA OfJoined ==
    ASSUME NEW c, NEW p \in Seq(Told), NEW q \in Seq(Told)
    PROVE  /\ Of(c, p) \in Seq(Nat) /\ Of(c, q) \in Seq(Nat)
           /\ Of(c, p \o q) = Of(c, p) \o Of(c, q)
<1> DEFINE N == {n \in Nat : \A t \in Seq(Told) : Len(t) = n => Of(c, t) \in Seq(Nat)}
           P == {n \in Nat : \A t \in Seq(Told) : Len(t) = n => Of(c, p \o t) = Of(c, p) \o Of(c, t)}
<1>1. 0 \in N
  <2>1. ASSUME NEW t \in Seq(Told), Len(t) = 0 PROVE Of(c, t) \in Seq(Nat)
    <3>1. t = <<>>
      BY <2>1, EmptySeq
    <3>2. Of(c, t) = <<>>
      BY <3>1, OfNothing
    <3> QED
      BY <3>2, EmptySeq
  <2> QED
    BY <2>1
<1>2. ASSUME NEW n \in Nat, n \in N PROVE n + 1 \in N
  <2>1. ASSUME NEW t \in Seq(Told), Len(t) = n + 1 PROVE Of(c, t) \in Seq(Nat)
    <3>1. PICK s \in Seq(Told), r \in Told : t = Append(s, r)
      BY <2>1, SequenceEmptyOrAppend
    <3>2. Len(s) = n
      BY <2>1, <3>1
    <3>3. Of(c, s) \in Seq(Nat) /\ NumberOf(c, r) \in Seq(Nat)
      BY <1>2, <3>2, NumberOfFits
    <3>4. Of(c, s) \o NumberOf(c, r) \in Seq(Nat)
      BY <3>3
    <3> QED
      BY <3>1, <3>4, OfAppend
  <2> QED
    BY <2>1
<1>3. Nat \subseteq N
  <2> HIDE DEF N
  <2> QED
    BY <1>1, <1>2, NumbersFromZero, Zenon
<1>4. ASSUME NEW t \in Seq(Told) PROVE Of(c, t) \in Seq(Nat)
  <2>1. Len(t) \in Nat
    OBVIOUS
  <2> QED
    BY <1>3, <2>1
<1>5. 0 \in P
  <2>1. ASSUME NEW t \in Seq(Told), Len(t) = 0 PROVE Of(c, p \o t) = Of(c, p) \o Of(c, t)
    <3>1. t = <<>>
      BY <2>1, EmptySeq
    <3>2. p \o t = p /\ Of(c, t) = <<>>
      BY <3>1, OfNothing
    <3>3. Of(c, p) \o <<>> = Of(c, p)
      BY <1>4
    <3> QED
      BY <3>2, <3>3
  <2> QED
    BY <2>1
<1>6. ASSUME NEW n \in Nat, n \in P PROVE n + 1 \in P
  <2>1. ASSUME NEW t \in Seq(Told), Len(t) = n + 1 PROVE Of(c, p \o t) = Of(c, p) \o Of(c, t)
    <3>1. PICK s \in Seq(Told), r \in Told : t = Append(s, r)
      BY <2>1, SequenceEmptyOrAppend
    <3>2. Len(s) = n
      BY <2>1, <3>1
    <3>3. Of(c, p \o s) = Of(c, p) \o Of(c, s)
      BY <1>6, <3>2
    <3>4. p \o t = Append(p \o s, r)
      BY <3>1, AppendAfter
    <3>9. p \o s \in Seq(Told)
      BY ConcatProperties
    <3>5. Of(c, p \o t) = (Of(c, p) \o Of(c, s)) \o NumberOf(c, r)
      BY <3>3, <3>4, <3>9, OfAppend
    <3>6. Of(c, t) = Of(c, s) \o NumberOf(c, r)
      BY <3>1, OfAppend
    <3>7. Of(c, p) \in Seq(Nat) /\ Of(c, s) \in Seq(Nat) /\ NumberOf(c, r) \in Seq(Nat)
      BY <1>4, NumberOfFits
    <3>8. (Of(c, p) \o Of(c, s)) \o NumberOf(c, r) = Of(c, p) \o (Of(c, s) \o NumberOf(c, r))
      <4> DEFINE x == Of(c, p)
                 y == Of(c, s)
                 z == NumberOf(c, r)
      <4>1. x \in Seq(Nat) /\ y \in Seq(Nat) /\ z \in Seq(Nat)
        BY <3>7
      <4> HIDE DEF x, y, z
      <4>2. (x \o y) \o z = x \o (y \o z)
        BY <4>1, Regroup
      <4> QED
        BY <4>2 DEF x, y, z
    <3> QED
      BY <3>5, <3>6, <3>8
  <2> QED
    BY <2>1
<1>7. Nat \subseteq P
  <2> HIDE DEF P
  <2> QED
    BY <1>5, <1>6, NumbersFromZero, Zenon
<1>8. Len(q) \in P
  <2>1. Len(q) \in Nat
    OBVIOUS
  <2> QED
    BY <1>7, <2>1
<1> QED
  BY <1>4, <1>8

-----------------------------------------------------------------------------
(* While the batch runs, a call's accepted reports are those emitted, then *)
(* the one the reader has taken, then those in the buffer.  A call that    *)
(* finished has none left there.                                           *)
Held == item \o progress

SInv ==
    /\ status \in [Calls -> Statuses] /\ tries \in [Calls -> Nat]
    /\ sent \in [Calls -> Seq(Nat)] /\ seen \in [Calls -> Seq(Nat)]
    /\ item \in Seq(Told) /\ progress \in Seq(Told)
    /\ \A c \in Calls :
          /\ phase = "wait" => sent[c] = seen[c] \o Of(c, Held)
          /\ status[c] = "finished" => seen[c] = sent[c]

(* A report that is accepted joins the end of what is held. *)
LEMMA OneMoreSent ==
    ASSUME NEW c, NEW h \in Seq(Told), NEW r \in Told, NEW a \in Seq(Nat), NEW b,
           b = a \o Of(c, h)
    PROVE  b \o NumberOf(c, r) = a \o Of(c, Append(h, r))
<1> DEFINE y == Of(c, h)
           z == NumberOf(c, r)
<1>1. Of(c, Append(h, r)) = y \o z
  BY OfAppend
<1>2. y \in Seq(Nat) /\ z \in Seq(Nat)
  BY OfJoined, NumberOfFits
<1>3. b = a \o y
  OBVIOUS
<1> HIDE DEF y, z
<1>4. (a \o y) \o z = a \o (y \o z)
  BY <1>2, Regroup
<1>5. b \o z = a \o Of(c, Append(h, r))
  BY <1>1, <1>3, <1>4
<1> QED
  BY <1>5 DEF z

(* Emitting the first piece of what is held leaves the second. *)
Emits(c, p, q, a, b) ==
    /\ b = (a \o Of(c, p)) \o Of(c, q)
    /\ a \o Of(c, p) \in Seq(Nat)
    /\ b = a => a \o Of(c, p) = a

LEMMA FirstPieceSeen ==
    ASSUME NEW c, NEW p \in Seq(Told), NEW q \in Seq(Told), NEW a \in Seq(Nat), NEW b,
           b = a \o Of(c, p \o q)
    PROVE  Emits(c, p, q, a, b)
<1> DEFINE y == Of(c, p)
           z == Of(c, q)
<1>1. y \in Seq(Nat) /\ z \in Seq(Nat) /\ Of(c, p \o q) = y \o z
  BY OfJoined
<1>2. b = a \o (y \o z)
  BY <1>1
<1> HIDE DEF y, z
<1>3. (a \o y) \o z = a \o (y \o z) /\ y \o z \in Seq(Nat) /\ a \o y \in Seq(Nat)
  BY <1>1, Regroup, ConcatProperties
<1>4. ASSUME b = a PROVE a \o y = a
  <2>1. y \o z = <<>>
    BY <1>2, <1>3, <1>4, ConcatEqualIffEmpty
  <2>2. y = <<>>
    BY <1>1, <2>1, ConcatEqualIffEmpty
  <2> QED
    BY <2>2, ConcatEmptySeq
<1>5. b = (a \o y) \o z
  BY <1>2, <1>3
<1> QED
  BY <1>3, <1>4, <1>5 DEF y, z, Emits

LEMMA InitSInv == Init => SInv
<1> SUFFICES ASSUME Init PROVE SInv
  OBVIOUS
<1>1. <<>> \in Seq(Nat) /\ <<>> \in Seq(Told) /\ <<>> \o <<>> = <<>>
  BY EmptySeq, ConcatEmptySeq
<1>2. item = <<>> /\ progress = <<>> /\ Held = <<>>
  BY <1>1 DEF Init, Held
<1>3. /\ status \in [Calls -> Statuses] /\ tries \in [Calls -> Nat]
      /\ sent \in [Calls -> Seq(Nat)] /\ seen \in [Calls -> Seq(Nat)]
  BY <1>1 DEF Init, Statuses
<1>4. \A c \in Calls : sent[c] = <<>> /\ seen[c] = <<>>
  BY DEF Init
<1>5. ASSUME NEW c \in Calls PROVE sent[c] = seen[c] \o Of(c, Held)
  BY <1>1, <1>2, <1>4, OfNothing
<1> QED
  BY <1>1, <1>2, <1>3, <1>4, <1>5 DEF SInv

LEMMA ReportKeepsSInv == ASSUME SInv, NEW c \in Calls, Report(c) PROVE SInv'
<1>0. tries \in [Calls -> Nat] /\ tries[c] \in Nat
  BY DEF SInv
<1>1. /\ tries' = [tries EXCEPT ![c] = tries[c] + 1] /\ phase = "wait" /\ status[c] = "running"
      /\ phase' = phase /\ calls' = calls /\ item' = item /\ seen' = seen
  BY Zenon DEF Report
<1>6. status' = status
  BY <1>1 DEF calls
<1>2. tries[c] + 1 \in Nat
  BY <1>0
<1>3. tries' \in [Calls -> Nat] /\ tries'[c] = tries[c] + 1
  BY <1>0, <1>1
<1>4. CASE HasRoom
  <2> DEFINE r == [call |-> c, n |-> tries[c] + 1]
  <2>1. /\ progress' = Append(progress, r)
        /\ sent' = [sent EXCEPT ![c] = Append(sent[c], tries[c] + 1)]
    BY <1>3, <1>4, Zenon DEF Report
  <2>2. r \in Told /\ item \in Seq(Told) /\ progress \in Seq(Told)
    BY <1>2 DEF SInv, Told
  <2>3. NumberOf(c, r) = <<tries[c] + 1>> /\ \A b \in Calls \ {c} : NumberOf(b, r) = <<>>
    BY DEF NumberOf
  <2> HIDE DEF r
  <2>4. progress' \in Seq(Told) /\ Held' = Append(Held, r) /\ Held \in Seq(Told)
    BY <1>1, <2>1, <2>2, AppendAfter, ConcatProperties, AppendProperties DEF Held
  <2>5. sent \in [Calls -> Seq(Nat)] /\ seen \in [Calls -> Seq(Nat)]
    BY DEF SInv
  <2>6. sent' \in [Calls -> Seq(Nat)] /\ sent'[c] = Append(sent[c], tries[c] + 1)
        /\ \A b \in Calls \ {c} : sent'[b] = sent[b]
    <3>1. Append(sent[c], tries[c] + 1) \in Seq(Nat)
      BY <1>2, <2>5, AppendProperties
    <3> QED
      BY <2>1, <2>5, <3>1
  <2>7. ASSUME NEW b \in Calls PROVE sent'[b] = sent[b] \o NumberOf(b, r)
    <3>1. sent[b] \in Seq(Nat)
      BY <2>5
    <3>2. CASE b = c
      <4>1. Append(sent[c], tries[c] + 1) = sent[c] \o <<tries[c] + 1>>
        BY <1>2, <3>1, <3>2, AppendIsConcat
      <4> QED
        BY <2>3, <2>6, <3>2, <4>1
    <3>3. CASE b # c
      BY <2>3, <2>6, <3>1, <3>3, ConcatEmptySeq
    <3> QED
      BY <3>2, <3>3
  <2>8. ASSUME NEW b \in Calls PROVE sent'[b] = seen[b] \o Of(b, Append(Held, r))
    <3>1. sent[b] = seen[b] \o Of(b, Held) /\ seen[b] \in Seq(Nat)
      BY <1>1, <2>5 DEF SInv
    <3> QED
      BY <2>2, <2>4, <2>7, <3>1, OneMoreSent, Zenon
  <2>9. \A b \in Calls : sent'[b] = seen'[b] \o Of(b, Held')
    BY <1>1, <2>4, <2>8, Zenon
  <2>10. \A b \in Calls : status'[b] = "finished" => seen'[b] = sent'[b]
    BY <1>1, <1>6, <2>6 DEF SInv
  <2>11. /\ status' \in [Calls -> Statuses] /\ item' \in Seq(Told) /\ seen' \in [Calls -> Seq(Nat)]
    BY <1>1, <1>6 DEF SInv
  <2> QED
    BY <1>3, <2>4, <2>6, <2>9, <2>10, <2>11, Zenon DEF SInv
<1>5. CASE ~HasRoom
  <2>1. sent' = sent /\ progress' = progress
    BY <1>5, Zenon DEF Report
  <2> QED
    BY <1>1, <1>3, <1>6, <2>1 DEF SInv, Held
<1> QED
  BY <1>4, <1>5

LEMMA TakeItemKeepsSInv == ASSUME SInv, TakeItem PROVE SInv'
<1>1. /\ item = <<>> /\ progress # <<>> /\ progress \in Seq(Told)
      /\ item' = <<Head(progress)>> /\ progress' = Tail(progress)
      /\ UNCHANGED <<phase, status, tries, sent, seen>>
  BY DEF SInv, TakeItem, calls, reports
<1>2. item' \in Seq(Told) /\ progress' \in Seq(Told) /\ item' \o progress' = progress
  <2>1. Head(progress) \in Told /\ Tail(progress) \in Seq(Told)
    BY <1>1, HeadTailProperties
  <2>2. item' \in Seq(Told)
    BY <1>1, <2>1
  <2>3. <<Head(progress)>> \o Tail(progress) = progress
    BY <1>1
  <2> QED
    BY <1>1, <2>1, <2>2, <2>3
<1>3. Held = progress /\ Held' = progress
  BY <1>1, <1>2, ConcatEmptySeq DEF Held
<1> QED
  BY <1>1, <1>2, <1>3 DEF SInv

(* A turn emits the report that was taken; when a call has returned it     *)
(* drains the buffer as well, before the tool_finished events.             *)
LEMMA AdvanceKeepsSInv == ASSUME SInv, Advance PROVE SInv'
<1>1. /\ status \in [Calls -> Statuses] /\ sent \in [Calls -> Seq(Nat)]
      /\ seen \in [Calls -> Seq(Nat)] /\ item \in Seq(Told) /\ progress \in Seq(Told)
      /\ \A c \in Calls : sent[c] = seen[c] \o Of(c, Held)
      /\ \A c \in Calls : status[c] = "finished" => seen[c] = sent[c]
  BY DEF SInv, Advance
<1>2. /\ seen' = [c \in Calls |-> seen[c] \o Of(c, Emitted)]
      /\ item' = <<>> /\ UNCHANGED <<tries, sent>>
      /\ progress' = IF order # <<>> THEN <<>> ELSE progress
  BY DEF Advance, reports
<1>3. status' \in [Calls -> Statuses]
  BY DEF SInv, Advance, Statuses
<1>4. \A c \in Calls : status'[c] = "finished" => status[c] = "finished" \/ c \in ToSet(order)
  BY DEF Advance
<1>5. <<>> \in Seq(Told)
  BY EmptySeq
<1>6. CASE order # <<>>
  <2>1. Emitted = Held /\ progress' = <<>> /\ Held' = <<>>
    BY <1>2, <1>5, <1>6, ConcatEmptySeq DEF Emitted, Held
  <2>2. ASSUME NEW c \in Calls
        PROVE  seen'[c] = sent[c] /\ sent[c] \in Seq(Nat) /\ sent[c] \o Of(c, <<>>) = sent[c]
    <3>1. seen'[c] = sent[c] /\ sent[c] \in Seq(Nat)
      BY <1>1, <1>2, <2>1
    <3> QED
      BY <3>1, OfNothing, ConcatEmptySeq
  <2>3. seen' \in [Calls -> Seq(Nat)]
    BY <1>2, <2>2
  <2>4. \A c \in Calls : sent'[c] = seen'[c] \o Of(c, Held') /\ seen'[c] = sent'[c]
    BY <1>2, <2>1, <2>2
  <2> QED
    BY <1>1, <1>2, <1>3, <1>5, <2>1, <2>3, <2>4 DEF SInv
<1>7. CASE order = <<>>
  <2>1. Emitted = item /\ progress' = progress /\ Held' = progress
    BY <1>1, <1>2, <1>7, ConcatEmptySeq DEF Emitted, Held
  <2>2. ASSUME NEW c \in Calls
        PROVE  /\ sent[c] = seen'[c] \o Of(c, progress)
               /\ seen'[c] \in Seq(Nat)
               /\ sent[c] = seen[c] => seen'[c] = seen[c]
    <3>1. seen[c] \in Seq(Nat) /\ sent[c] = seen[c] \o Of(c, item \o progress)
      BY <1>1 DEF Held
    <3>2. seen'[c] = seen[c] \o Of(c, item)
      BY <1>2, <2>1
    <3>3. item \in Seq(Told) /\ progress \in Seq(Told)
      BY <1>1
    <3>4. Emits(c, item, progress, seen[c], sent[c])
      BY <3>1, <3>3, FirstPieceSeen
    <3> QED
      BY <3>2, <3>4, Zenon DEF Emits
  <2>3. seen' \in [Calls -> Seq(Nat)]
    BY <1>2, <2>2
  <2>4. ToSet(order) = {}
    BY <1>7 DEF ToSet
  <2>5. ASSUME NEW c \in Calls, status'[c] = "finished" PROVE seen'[c] = sent'[c]
    BY <1>1, <1>2, <1>4, <2>2, <2>4, <2>5
  <2> QED
    BY <1>1, <1>2, <1>3, <1>5, <2>1, <2>2, <2>3, <2>5 DEF SInv
<1> QED
  BY <1>6, <1>7

LEMMA NextKeepsSInv == SInv /\ [Next]_vars => SInv'
<1> SUFFICES ASSUME SInv, [Next]_vars PROVE SInv'
  OBVIOUS
<1>1. CASE \E c \in Calls : Report(c)
  BY <1>1, ReportKeepsSInv
<1>2. CASE TakeItem
  BY <1>2, TakeItemKeepsSInv
<1>3. CASE Advance
  BY <1>3, AdvanceKeepsSInv
<1>4. ASSUME NEW c \in Calls, Acquire(c) \/ Return(c) \/ RaiseCancelled(c) PROVE SInv'
  <2>1. /\ UNCHANGED <<phase, tries, sent, seen, item, progress>>
        /\ status' \in [Calls -> Statuses]
        /\ \A b \in Calls : status'[b] = "finished" => status[b] = "finished"
    BY <1>4 DEF SInv, Acquire, Return, RaiseCancelled, Statuses, reports
  <2> QED
    BY <2>1 DEF SInv, Held
<1>5. CASE TimesOut \/ Close
  <2>1. /\ UNCHANGED <<tries, sent, seen, item, progress>> /\ phase' # "wait"
        /\ status' \in [Calls -> Statuses]
        /\ \A b \in Calls : status'[b] = "finished" => status[b] = "finished"
    BY <1>5 DEF SInv, TimesOut, Close, Drop, Statuses, reports
  <2> QED
    BY <2>1 DEF SInv, Held
<1>6. CASE Submit \/ Deadline \/ TakeControl \/ UNCHANGED vars
  <2>1. UNCHANGED <<phase, status, tries, sent, seen, item, progress>>
    BY <1>6 DEF Submit, Deadline, TakeControl, calls, reports, vars
  <2> QED
    BY <2>1 DEF SInv, Held
<1> QED
  BY <1>1, <1>2, <1>3, <1>4, <1>5, <1>6 DEF Next, Wake, Tool

(* When tool_finished is emitted, everything the buffer accepted from the  *)
(* call has been emitted, in order and once, and a call that keeps its own *)
(* result has lost no report: for buffers, batches and numbers of reports  *)
(* of every size.                                                          *)
THEOREM ProgressSettlesAlways == Spec => []ProgressSettles
<1>1. Spec => []RInv
  BY InitRInv, NextKeepsRInv, PTL DEF Spec
<1>2. Spec => []SInv
  BY InitSInv, NextKeepsSInv, PTL DEF Spec
<1>3. RInv /\ SInv => ProgressSettles
  <2> SUFFICES ASSUME RInv, SInv, NEW c \in In("finished")
               PROVE  /\ seen[c] = sent[c]
                      /\ outcome[c] = "own" => seen[c] = UpTo(tries[c])
    BY DEF ProgressSettles, UpTo
  <2>1. c \in Calls /\ status[c] = "finished"
    BY DEF In
  <2> QED
    BY <2>1 DEF RInv, SInv
<1> QED
  BY <1>1, <1>2, <1>3, PTL

-----------------------------------------------------------------------------
(* Types.  No call has made more reports than the batch.                   *)
SumsTo(f, counts, k) == f = [c \in 0..k |-> IF c = 0 THEN 0 ELSE f[c - 1] + counts[c]]

LEMMA SomethingSums ==
    ASSUME NEW counts, NEW k \in Nat
    PROVE  \E f : SumsTo(f, counts, k)
<1> DEFINE P == {n \in Nat : \E f : SumsTo(f, counts, n)}
<1>1. 0 \in P
  <2>1. SumsTo([c \in 0..0 |-> 0], counts, 0)
    BY DEF SumsTo
  <2> QED
    BY <2>1
<1>2. ASSUME NEW n \in Nat, n \in P PROVE n + 1 \in P
  <2>1. PICK f : SumsTo(f, counts, n)
    BY <1>2
  <2> DEFINE g == [c \in 0..(n + 1) |-> IF c = n + 1 THEN f[n] + counts[n + 1] ELSE f[c]]
  <2>2. f = [c \in 0..n |-> IF c = 0 THEN 0 ELSE f[c - 1] + counts[c]]
    BY <2>1 DEF SumsTo
  <2>3. ASSUME NEW c \in 0..(n + 1)
        PROVE  g[c] = IF c = 0 THEN 0 ELSE g[c - 1] + counts[c]
    <3>1. CASE c = n + 1
      <4>1. g[c] = f[n] + counts[c] /\ c # 0
        BY <3>1
      <4>2. g[c - 1] = f[n]
        BY <3>1
      <4> QED
        BY <4>1, <4>2
    <3>2. CASE c # n + 1
      <4>1. c \in 0..n /\ g[c] = f[c]
        BY <3>2
      <4>2. c # 0 => g[c - 1] = f[c - 1]
        BY <4>1
      <4>3. f[c] = IF c = 0 THEN 0 ELSE f[c - 1] + counts[c]
        BY <2>2, <4>1
      <4> QED
        BY <4>1, <4>2, <4>3
    <3> QED
      BY <3>1, <3>2
  <2>4. SumsTo(g, counts, n + 1)
    BY <2>3 DEF SumsTo
  <2> QED
    BY <2>4
<1> HIDE DEF P
<1>3. Nat \subseteq P
  BY <1>1, <1>2, NumbersFromZero, Zenon
<1> QED
  BY <1>3 DEF P

LEMMA EachWithinTheSum ==
    ASSUME NEW k \in Nat, NEW counts \in [1..k -> Nat], NEW f, SumsTo(f, counts, k)
    PROVE  f[k] \in Nat /\ \A c \in 1..k : counts[c] <= f[k]
<1> DEFINE P == {n \in Nat : n <= k => f[n] \in Nat /\ \A c \in 1..n : counts[c] <= f[n]}
<1>1. 0 \in P
  BY DEF SumsTo
<1>2. ASSUME NEW n \in Nat, n \in P PROVE n + 1 \in P
  <2> SUFFICES ASSUME n + 1 <= k
               PROVE  f[n + 1] \in Nat /\ \A c \in 1..(n + 1) : counts[c] <= f[n + 1]
    OBVIOUS
  <2>1. f[n] \in Nat /\ \A c \in 1..n : counts[c] <= f[n]
    BY <1>2
  <2>2. n + 1 \in 0..k /\ n + 1 \in 1..k /\ n + 1 # 0 /\ (n + 1) - 1 = n
    OBVIOUS
  <2>3. f[n + 1] = f[n] + counts[n + 1] /\ counts[n + 1] \in Nat
    BY <2>2 DEF SumsTo
  <2>4. \A c \in 1..(n + 1) : c = n + 1 \/ (c \in 1..n /\ counts[c] \in Nat)
    BY <2>2
  <2> QED
    BY <2>1, <2>3, <2>4
<1> HIDE DEF P
<1>3. k \in P
  BY <1>1, <1>2, NumbersFromZero, Zenon
<1> QED
  BY <1>3 DEF P

LEMMA NoCallReportsMore ==
    ASSUME tries \in [Calls -> Nat], NEW c \in Calls, ReportsMade < MaxReports
    PROVE  tries[c] + 1 \in 1..MaxReports
<1> DEFINE upTo == CHOOSE f : f = [b \in 0..Size |-> IF b = 0 THEN 0 ELSE f[b - 1] + tries[b]]
<1>1. ReportsMade = upTo[Size]
  BY DEF ReportsMade
<1>2. SumsTo(upTo, tries, Size)
  BY SomethingSums, ToolBatchAssumption DEF SumsTo
<1> HIDE DEF upTo
<1>3. ReportsMade \in Nat /\ tries[c] <= ReportsMade
  BY <1>1, <1>2, EachWithinTheSum, ToolBatchAssumption DEF Calls
<1>4. tries[c] \in Nat
  OBVIOUS
<1> QED
  BY <1>3, <1>4, ToolBatchAssumption

LEMMA ItemsFit == Items \subseteq Told
BY DEF Items, Told

LEMMA NumberOfNumbered ==
    ASSUME NEW c, NEW r \in Items PROVE NumberOf(c, r) \in Seq(1..MaxReports)
<1>1. r.n \in 1..MaxReports
  BY DEF Items
<1>2. <<r.n>> \in Seq(1..MaxReports) /\ <<>> \in Seq(1..MaxReports)
  BY <1>1
<1> QED
  BY <1>2 DEF NumberOf

LEMMA OfNumbered ==
    ASSUME NEW c, NEW items \in Seq(Items)
    PROVE  Of(c, items) \in Seq(1..MaxReports)
<1> DEFINE k == Len(items)
<1>0. items \in Seq(Told) /\ k \in Nat
  BY ItemsFit
<1>1. PICK f : Reads(f, c, items, k) /\ Of(c, items) = f[k]
  BY <1>0, OfReads
<1>5. f[0] = <<>> /\ <<>> \in Seq(1..MaxReports)
  BY <1>0, <1>1 DEF Reads
<1> DEFINE P == {n \in Nat : n <= k => f[n] \in Seq(1..MaxReports)}
<1>2. 0 \in P
  BY <1>5
<1>3. ASSUME NEW n \in Nat, n \in P PROVE n + 1 \in P
  <2> SUFFICES ASSUME n + 1 <= k PROVE f[n + 1] \in Seq(1..MaxReports)
    OBVIOUS
  <2>1. n + 1 \in 0..k /\ n + 1 # 0 /\ (n + 1) - 1 = n /\ items[n + 1] \in Items
    OBVIOUS
  <2>2. f[n + 1] = Plus(f[n], c, items[n + 1])
    BY <1>1, <2>1 DEF Reads
  <2>3. NumberOf(c, items[n + 1]) \in Seq(1..MaxReports)
    BY <2>1, NumberOfNumbered
  <2> QED
    BY <1>3, <2>2, <2>3, ConcatProperties DEF Plus
<1> HIDE DEF P
<1>4. Nat \subseteq P
  BY <1>2, <1>3, NumbersFromZero, Zenon
<1> QED
  BY <1>0, <1>1, <1>4 DEF P

LEMMA InitTypes == Init => TypeOK
<1> SUFFICES ASSUME Init PROVE TypeOK
  OBVIOUS
<1>1. <<>> \in Seq(Calls) /\ <<>> \in Seq(Items) /\ <<>> \in Seq(1..MaxReports) /\ Len(<<>>) = 0
  OBVIOUS
<1>2. /\ phase = "wait" /\ order = <<>> /\ progress = <<>> /\ item = <<>> /\ controls = <<>> /\ control = <<>>
      /\ overflow = {} /\ announced = {} /\ cancelled = {} /\ expired = FALSE
      /\ permits = Concurrency /\ submitted = 0
  BY DEF Init
<1>3. status \in [Calls -> Statuses] /\ outcome \in [Calls -> {"none", "own", "progress_overflow"}]
  BY DEF Init, Statuses
<1>4. tries \in [Calls -> 0..MaxReports]
  BY ToolBatchAssumption DEF Init
<1>5. sent \in [Calls -> Seq(1..MaxReports)] /\ seen \in [Calls -> Seq(1..MaxReports)]
  BY <1>1 DEF Init
<1>6. permits \in Nat /\ Len(progress) <= Buffer /\ submitted \in 0..MaxControls
  BY <1>1, <1>2, ToolBatchAssumption
<1>7. /\ phase \in {"wait", "settled", "deadline", "cancelled"} /\ expired \in BOOLEAN
      /\ overflow \subseteq Calls /\ announced \subseteq Calls /\ cancelled \subseteq Calls
      /\ Len(item) <= 1 /\ Len(control) <= 1
  <2>1. Len(item) = 0 /\ Len(control) = 0
    BY <1>1, <1>2, Zenon
  <2>2. /\ phase \in {"wait", "settled", "deadline", "cancelled"} /\ expired \in BOOLEAN
        /\ overflow \subseteq Calls /\ announced \subseteq Calls /\ cancelled \subseteq Calls
    BY <1>2, Zenon
  <2> QED
    BY <2>1, <2>2
<1> QED
  BY <1>1, <1>2, <1>3, <1>4, <1>5, <1>6, <1>7, Zenon DEF TypeOK

LEMMA ReportKeepsTypes == ASSUME TypeOK, NEW c \in Calls, Report(c) PROVE TypeOK'
<1>1. tries \in [Calls -> Nat] /\ tries[c] + 1 \in 1..MaxReports
  <2>1. tries \in [Calls -> Nat]
    BY DEF TypeOK
  <2> QED
    BY <2>1, NoCallReportsMore DEF Report
<1>2. tries' \in [Calls -> 0..MaxReports] /\ tries'[c] = tries[c] + 1
  <2>1. tries' = [tries EXCEPT ![c] = tries[c] + 1] /\ tries \in [Calls -> 0..MaxReports]
    BY DEF TypeOK, Report
  <2> QED
    BY <1>1, <2>1
<1>3. /\ UNCHANGED <<phase, status, outcome, permits, order, item, seen, controls, control, submitted,
                     announced, cancelled, expired>>
  BY DEF Report, calls, signals
<1>4. CASE HasRoom
  <2>1. /\ progress' = Append(progress, [call |-> c, n |-> tries'[c]])
        /\ sent' = [sent EXCEPT ![c] = Append(sent[c], tries'[c])] /\ overflow' = overflow
    BY <1>4 DEF Report
  <2>2. [call |-> c, n |-> tries'[c]] \in Items
    BY <1>1, <1>2 DEF Items
  <2>3. progress \in Seq(Items) /\ Len(progress) < Buffer /\ Len(progress) \in Nat
    BY <1>4 DEF TypeOK, HasRoom
  <2>4. progress' \in Seq(Items) /\ Len(progress') = Len(progress) + 1
    BY <2>1, <2>2, <2>3, AppendProperties
  <2>5. Len(progress') <= Buffer
    BY <2>3, <2>4, ToolBatchAssumption
  <2>6. sent' \in [Calls -> Seq(1..MaxReports)]
    <3>1. sent \in [Calls -> Seq(1..MaxReports)] /\ sent[c] \in Seq(1..MaxReports)
      BY DEF TypeOK
    <3>2. Append(sent[c], tries'[c]) \in Seq(1..MaxReports)
      BY <1>1, <1>2, <3>1
    <3> QED
      BY <2>1, <3>1, <3>2
  <2> QED
    BY <1>2, <1>3, <2>1, <2>4, <2>5, <2>6 DEF TypeOK
<1>5. CASE ~HasRoom
  BY <1>2, <1>3, <1>5 DEF Report, TypeOK
<1> QED
  BY <1>4, <1>5

LEMMA CallsKeepTypes ==
    ASSUME TypeOK, NEW c \in Calls, Acquire(c) \/ Return(c) \/ RaiseCancelled(c) PROVE TypeOK'
<1>1. UNCHANGED <<phase, tries, sent, overflow, progress, item, seen, controls, control, submitted,
                  announced, expired>>
  BY DEF Acquire, Return, RaiseCancelled, reports, signals
<1>2. permits' \in Nat
  BY DEF TypeOK, Acquire, Return, RaiseCancelled
<1>3. status' \in [Calls -> Statuses]
  BY DEF TypeOK, Acquire, Return, RaiseCancelled, Statuses
<1>4. outcome' \in [Calls -> {"none", "own", "progress_overflow"}]
  BY DEF TypeOK, Acquire, Return, RaiseCancelled, Outcome
<1>5. order' \in Seq(Calls) /\ cancelled' \subseteq Calls
  <2>1. order \in Seq(Calls) /\ Append(order, c) \in Seq(Calls) /\ cancelled \subseteq Calls
    BY DEF TypeOK
  <2>2. order' \in {order, Append(order, c)} /\ cancelled' \in {cancelled, cancelled \ {c}}
    BY DEF Acquire, Return, RaiseCancelled
  <2> QED
    BY <2>1, <2>2
<1> QED
  BY <1>1, <1>2, <1>3, <1>4, <1>5 DEF TypeOK

LEMMA TakingKeepsTypes ==
    ASSUME TypeOK, Submit \/ Deadline \/ TakeItem \/ TakeControl PROVE TypeOK'
<1>1. UNCHANGED <<phase, status, outcome, permits, order, tries, sent, overflow, seen, announced, cancelled>>
  BY DEF Submit, Deadline, TakeItem, TakeControl, calls, reports, signals
<1>2. expired' \in BOOLEAN /\ submitted' \in 0..MaxControls
  <2>1. expired' \in {expired, TRUE}
    BY DEF Submit, Deadline, TakeItem, TakeControl
  <2>2. submitted' = submitted \/ (submitted' = submitted + 1 /\ submitted < MaxControls)
    BY DEF Submit, Deadline, TakeItem, TakeControl, signals
  <2>3. submitted \in 0..MaxControls /\ MaxControls \in Nat /\ expired \in BOOLEAN
    BY ToolBatchAssumption DEF TypeOK
  <2>4. submitted' \in 0..MaxControls
    BY <2>2, <2>3
  <2> QED
    BY <2>1, <2>3, <2>4
<1>3. /\ controls' \in Seq(Calls) /\ control' \in Seq(Calls) /\ Len(control') <= 1
  <2>1. CASE Submit
    BY <2>1 DEF TypeOK, Submit
  <2>2. CASE Deadline \/ TakeItem
    BY <2>2 DEF TypeOK, Deadline, TakeItem, signals
  <2>3. CASE TakeControl
    <3>1. Head(controls) \in Calls /\ Tail(controls) \in Seq(Calls)
      BY <2>3 DEF TypeOK, TakeControl
    <3> QED
      BY <2>3, <3>1 DEF TypeOK, TakeControl
  <2> QED
    BY <2>1, <2>2, <2>3
<1>4. /\ progress' \in Seq(Items) /\ Len(progress') <= Buffer /\ item' \in Seq(Items) /\ Len(item') <= 1
  <2>1. CASE TakeItem
    <3>1. Head(progress) \in Items /\ Tail(progress) \in Seq(Items) /\ Len(Tail(progress)) = Len(progress) - 1
          /\ Len(progress) <= Buffer /\ Len(progress) \in Nat
      BY <2>1 DEF TypeOK, TakeItem
    <3> QED
      BY <2>1, <3>1, ToolBatchAssumption DEF TakeItem
  <2>2. CASE Submit \/ Deadline \/ TakeControl
    BY <2>2 DEF TypeOK, Submit, Deadline, TakeControl
  <2> QED
    BY <2>1, <2>2
<1> QED
  BY <1>1, <1>2, <1>3, <1>4 DEF TypeOK

LEMMA AdvanceKeepsTypes == ASSUME TypeOK, Advance PROVE TypeOK'
<1>1. UNCHANGED <<outcome, tries, sent, overflow, controls, submitted, expired>>
  BY DEF Advance, reports
<1>2. status' \in [Calls -> Statuses] /\ phase' \in {"wait", "settled", "deadline", "cancelled"}
  BY DEF TypeOK, Advance, Statuses
<1>3. /\ order' = <<>> /\ order' \in Seq(Calls) /\ control' = <<>> /\ control' \in Seq(Calls) /\ Len(control') <= 1
      /\ item' = <<>> /\ item' \in Seq(Items) /\ Len(item') <= 1
  BY DEF Advance
<1>4. permits' \in Nat
  BY DEF TypeOK, Advance, Released
<1>5. progress' \in Seq(Items) /\ Len(progress') <= Buffer
  BY ToolBatchAssumption DEF TypeOK, Advance
<1>6. announced' \subseteq Calls /\ cancelled' \subseteq Calls
  <2>1. Requests \subseteq Calls
    BY DEF Requests, Running, In
  <2> QED
    BY <2>1 DEF TypeOK, Advance
<1>7. seen' \in [Calls -> Seq(1..MaxReports)]
  <2>1. Emitted \in Seq(Items)
    BY ConcatProperties DEF Emitted, TypeOK
  <2>2. seen' = [c \in Calls |-> seen[c] \o Of(c, Emitted)]
    BY DEF Advance
  <2>3. ASSUME NEW c \in Calls PROVE seen[c] \o Of(c, Emitted) \in Seq(1..MaxReports)
    BY <2>1, OfNumbered, ConcatProperties DEF TypeOK
  <2> QED
    BY <2>2, <2>3
<1> QED
  BY <1>1, <1>2, <1>3, <1>4, <1>5, <1>6, <1>7 DEF TypeOK

LEMMA NextKeepsTypes == TypeOK /\ [Next]_vars => TypeOK'
<1> SUFFICES ASSUME TypeOK, [Next]_vars PROVE TypeOK'
  OBVIOUS
<1>1. CASE \E c \in Calls : Acquire(c) \/ Tool(c)
  BY <1>1, ReportKeepsTypes, CallsKeepTypes DEF Tool
<1>2. CASE Submit \/ Deadline \/ TakeItem \/ TakeControl
  BY <1>2, TakingKeepsTypes
<1>3. CASE Advance
  BY <1>3, AdvanceKeepsTypes
<1>4. CASE TimesOut \/ Close
  <2>1. status' \in [Calls -> Statuses] /\ phase' \in {"deadline", "cancelled"} /\ cancelled' = {}
    BY <1>4 DEF TypeOK, TimesOut, Close, Drop, Statuses
  <2>2. UNCHANGED <<outcome, permits, order, tries, sent, overflow, progress, item, seen, controls, control,
                    submitted, announced, expired>>
    BY <1>4 DEF TimesOut, Close, reports, signals
  <2> QED
    BY <2>1, <2>2 DEF TypeOK
<1>5. CASE UNCHANGED vars
  BY <1>5 DEF vars, TypeOK
<1> QED
  BY <1>1, <1>2, <1>3, <1>4, <1>5 DEF Next, Wake

(* Every variable of a batch keeps its type, and neither the progress      *)
(* buffer nor a reader's slot ever holds more than it may, for batches and *)
(* buffers of every size.                                                  *)
THEOREM TypesAlways == Spec => []TypeOK
BY InitTypes, NextKeepsTypes, PTL DEF Spec
=============================================================================
