---------------------------- MODULE InvocationProofs ----------------------------
(***************************************************************************)
(* One observed invocation, for any number of controls, calls, deltas and  *)
(* progress reports.  The control channel keeps the order of the controls  *)
(* until it closes and a closed inbox stays empty; an invocation is a      *)
(* behaviour of the channel, so both hold of it.  The queue accounts for   *)
(* its lossy events, and the trace a consumer reads verifies.              *)
(***************************************************************************)
EXTENDS Invocation, SequenceTheorems, FiniteSetTheorems, FunctionTheorems, WellFoundedInduction, TLAPS

Control == [kind : Kinds, n : Nat]

(* s holds the controls numbered k + 1, k + 2, ... *)
NumberedFrom(s, k) == \A i \in 1..Len(s) : s[i].n = k + i

ChannelTypes ==
    /\ source \in {"waiting", "active", "closed"} /\ inboxOpen \in BOOLEAN
    /\ sent \in Nat /\ taken \in Nat
    /\ pending \in Seq(Control) /\ snapshot \in Seq(Control)
    /\ callbacks \in Seq(Control) /\ inbox \in Seq(Control)

(* Only one of the four places is open to submissions at a time: pending   *)
(* before attach, the callbacks after it, and no callback runs before the  *)
(* snapshot is copied.                                                     *)
Handover ==
    /\ source = "waiting" => snapshot = <<>> /\ callbacks = <<>> /\ inbox = <<>>
    /\ source = "active" => pending = <<>>
    /\ source = "closed" => snapshot = <<>>
    /\ ~inboxOpen => source = "closed"

InTransit ==
    source # "closed" =>
        /\ NumberedFrom(inbox, taken)
        /\ NumberedFrom(snapshot, taken + Len(inbox))
        /\ NumberedFrom(callbacks, taken + Len(inbox) + Len(snapshot))
        /\ NumberedFrom(pending, taken + Len(inbox) + Len(snapshot) + Len(callbacks))
        /\ sent = taken + Len(inbox) + Len(snapshot) + Len(callbacks) + Len(pending)

ChannelInv == ChannelTypes /\ Handover /\ InTransit /\ ClosedStaysEmpty

(* A control appended with the next number continues the numbering.        *)
LEMMA AppendNumbered ==
    ASSUME NEW s \in Seq(Control), NEW k \in Nat, NEW c \in Control, NumberedFrom(s, k),
           c.n = k + Len(s) + 1
    PROVE  Append(s, c) \in Seq(Control) /\ NumberedFrom(Append(s, c), k)
          /\ Len(Append(s, c)) = Len(s) + 1
<1>1. /\ Append(s, c) \in Seq(Control) /\ Len(Append(s, c)) = Len(s) + 1
      /\ \A i \in 1..Len(s) : Append(s, c)[i] = s[i]
      /\ Append(s, c)[Len(s) + 1] = c
  BY AppendProperties
<1>2. ASSUME NEW i \in 1..Len(Append(s, c)) PROVE Append(s, c)[i].n = k + i
  <2>1. CASE i \in 1..Len(s)
    BY <1>1, <2>1 DEF NumberedFrom
  <2>2. CASE i = Len(s) + 1
    BY <1>1, <2>2
  <2> QED
    BY <1>1, <2>1, <2>2
<1> QED
  BY <1>1, <1>2 DEF NumberedFrom

(* Taking the first n leaves the numbering of the rest.                    *)
LEMMA DropNumbered ==
    ASSUME NEW s \in Seq(Control), NEW k \in Nat, NEW n \in 0..Len(s), NumberedFrom(s, k)
    PROVE  /\ SubSeq(s, n + 1, Len(s)) \in Seq(Control)
           /\ Len(SubSeq(s, n + 1, Len(s))) = Len(s) - n
           /\ NumberedFrom(SubSeq(s, n + 1, Len(s)), k + n)
<1> DEFINE rest == SubSeq(s, n + 1, Len(s))
<1>1. /\ rest \in Seq(Control) /\ Len(rest) = Len(s) - n
      /\ \A i \in 1..(Len(s) - n) : rest[i] = s[n + i]
  OBVIOUS
<1>2. ASSUME NEW i \in 1..(Len(s) - n) PROVE s[n + i].n = k + n + i
  <2>1. n + i \in 1..Len(s)
    OBVIOUS
  <2>2. s[n + i].n = k + (n + i)
    BY <2>1 DEF NumberedFrom
  <2> QED
    BY <2>2
<1> QED
  BY <1>1, <1>2 DEF NumberedFrom

(* The head has the first number and the tail goes on from it.             *)
LEMMA HeadNumbered ==
    ASSUME NEW s \in Seq(Control), NEW k \in Nat, NumberedFrom(s, k), s # <<>>
    PROVE  /\ Head(s) \in Control /\ Head(s).n = k + 1
           /\ Tail(s) \in Seq(Control) /\ Len(Tail(s)) = Len(s) - 1
           /\ NumberedFrom(Tail(s), k + 1)
<1>1. /\ Head(s) = s[1] /\ Head(s) \in Control /\ Len(s) \in Nat \ {0}
      /\ Tail(s) \in Seq(Control) /\ Len(Tail(s)) = Len(s) - 1
      /\ \A i \in 1..Len(Tail(s)) : Tail(s)[i] = s[i + 1]
  BY HeadTailProperties, EmptySeq
<1>2. ASSUME NEW i \in 1..(Len(s) - 1) PROVE s[i + 1].n = k + 1 + i
  <2>1. i + 1 \in 1..Len(s)
    BY <1>1
  <2>2. s[i + 1].n = k + (i + 1)
    BY <2>1 DEF NumberedFrom
  <2> QED
    BY <2>2
<1>3. s[1].n = k + 1
  BY <1>1 DEF NumberedFrom
<1> QED
  BY <1>1, <1>2, <1>3 DEF NumberedFrom

LEMMA JoinNumbered ==
    ASSUME NEW s \in Seq(Control), NEW t \in Seq(Control), NEW k \in Nat,
           NumberedFrom(s, k), NumberedFrom(t, k + Len(s))
    PROVE  /\ s \o t \in Seq(Control) /\ Len(s \o t) = Len(s) + Len(t)
           /\ NumberedFrom(s \o t, k)
<1>1. /\ s \o t \in Seq(Control) /\ Len(s \o t) = Len(s) + Len(t)
      /\ \A i \in 1..Len(s) + Len(t) : (s \o t)[i] = IF i <= Len(s) THEN s[i] ELSE t[i - Len(s)]
  BY ConcatProperties
<1>2. ASSUME NEW i \in 1..(Len(s) + Len(t)) PROVE (s \o t)[i].n = k + i
  <2>1. CASE i <= Len(s)
    BY <1>1, <2>1 DEF NumberedFrom
  <2>2. CASE i > Len(s)
    <3>1. i - Len(s) \in 1..Len(t)
      BY <2>2
    <3>2. t[i - Len(s)].n = (k + Len(s)) + (i - Len(s))
      BY <3>1 DEF NumberedFrom
    <3>3. (s \o t)[i] = t[i - Len(s)]
      BY <1>1, <2>2
    <3> QED
      BY <3>2, <3>3
  <2> QED
    BY <2>1, <2>2
<1> QED
  BY <1>1, <1>2 DEF NumberedFrom

LEMMA ChannelStart == ChannelInit => ChannelInv
BY DEF ChannelInit, ChannelInv, ChannelTypes, Handover, InTransit, ClosedStaysEmpty, NumberedFrom

LEMMA ChannelStep == ChannelInv /\ [ChannelNext]_channel => ChannelInv'
<1> SUFFICES ASSUME ChannelInv, [ChannelNext]_channel PROVE ChannelInv'
  OBVIOUS
<1> USE DEF ChannelInv, ChannelTypes, Handover, InTransit, ClosedStaysEmpty
<1>1. CASE Submit(Kinds)
  <2>1. PICK kind \in Kinds : Deliver([kind |-> kind, n |-> sent'])
    BY <1>1 DEF Submit
  <2> DEFINE c == [kind |-> kind, n |-> sent']
  <2>2. c \in Control /\ c.n = sent + 1 /\ sent' = sent + 1
    BY <1>1 DEF Submit, Control
  <2>3. CASE source = "waiting"
    <3>1. pending' = Append(pending, c) /\ UNCHANGED <<inbox, callbacks>>
      BY <2>1, <2>3 DEF Deliver
    <3>2. pending' \in Seq(Control) /\ Len(pending') = Len(pending) + 1
          /\ NumberedFrom(pending', taken + Len(inbox) + Len(snapshot) + Len(callbacks))
      BY <2>2, <2>3, <3>1, AppendNumbered
    <3> QED
      BY <1>1, <2>2, <2>3, <3>1, <3>2 DEF Submit
  <2>4. CASE source = "active"
    <3>1. callbacks' = Append(callbacks, c) /\ UNCHANGED <<inbox, pending>>
      BY <2>1, <2>4 DEF Deliver
    <3>2. callbacks' \in Seq(Control) /\ Len(callbacks') = Len(callbacks) + 1
          /\ NumberedFrom(callbacks', taken + Len(inbox) + Len(snapshot))
      BY <2>2, <2>4, <3>1, AppendNumbered
    <3> QED
      BY <1>1, <2>2, <2>4, <3>1, <3>2 DEF Submit, NumberedFrom
  <2> QED
    BY <1>1, <2>3, <2>4 DEF Submit
<1>2. CASE Attach
  BY <1>2 DEF Attach, NumberedFrom
<1>3. CASE FillInbox
  <2>1. source = "active"
    BY <1>3 DEF FillInbox
  <2>2. /\ Head(snapshot) \in Control /\ Head(snapshot).n = taken + Len(inbox) + 1
        /\ snapshot' \in Seq(Control) /\ Len(snapshot') = Len(snapshot) - 1
        /\ NumberedFrom(snapshot', taken + Len(inbox) + 1)
    BY <1>3, <2>1, HeadNumbered DEF FillInbox
  <2>3. inbox' \in Seq(Control) /\ NumberedFrom(inbox', taken) /\ Len(inbox') = Len(inbox) + 1
    BY <1>3, <2>1, <2>2, AppendNumbered DEF FillInbox
  <2> QED
    BY <1>3, <2>1, <2>2, <2>3 DEF FillInbox
<1>4. CASE RunCallback
  <2>1. CASE source # "closed"
    <3>1. inboxOpen /\ snapshot = <<>>
      BY <1>4, <2>1 DEF RunCallback
    <3>2. /\ Head(callbacks) \in Control /\ Head(callbacks).n = taken + Len(inbox) + 1
          /\ callbacks' \in Seq(Control) /\ Len(callbacks') = Len(callbacks) - 1
          /\ NumberedFrom(callbacks', taken + Len(inbox) + 1)
      BY <1>4, <2>1, <3>1, HeadNumbered DEF RunCallback
    <3>3. inbox' \in Seq(Control) /\ NumberedFrom(inbox', taken) /\ Len(inbox') = Len(inbox) + 1
      BY <1>4, <2>1, <3>1, <3>2, AppendNumbered DEF RunCallback, EnqueueIfOpen
    <3>4. UNCHANGED <<source, pending, snapshot, inboxOpen, sent, taken>>
      BY <1>4 DEF RunCallback
    <3>5. /\ taken' + Len(inbox') + Len(snapshot') = taken + Len(inbox) + 1
          /\ taken' + Len(inbox') = taken + Len(inbox) + 1
          /\ taken' + Len(inbox') + Len(snapshot') + Len(callbacks')
                = taken + Len(inbox) + Len(snapshot) + Len(callbacks)
      BY <3>1, <3>2, <3>3, <3>4, EmptySeq
    <3>6. /\ NumberedFrom(snapshot', taken' + Len(inbox'))
          /\ NumberedFrom(callbacks', taken' + Len(inbox') + Len(snapshot'))
          /\ NumberedFrom(pending', taken' + Len(inbox') + Len(snapshot') + Len(callbacks'))
      <4>1. NumberedFrom(snapshot', taken' + Len(inbox'))
        BY <3>1, <3>4, EmptySeq DEF NumberedFrom
      <4> QED
        BY <4>1, <2>1, <3>2, <3>4, <3>5
    <3>7. sent' = taken' + Len(inbox') + Len(snapshot') + Len(callbacks') + Len(pending')
      BY <2>1, <3>4, <3>5
    <3> QED
      BY <2>1, <3>1, <3>2, <3>3, <3>4, <3>6, <3>7
  <2>2. CASE source = "closed"
    BY <1>4, <2>2 DEF RunCallback, EnqueueIfOpen
  <2> QED
    BY <2>1, <2>2
<1>5. CASE \E n \in 0..Len(inbox) : Take(n)
  <2>1. PICK n \in 0..Len(inbox) : Take(n)
    BY <1>5
  <2>2. CASE source # "closed"
    <3>1. inbox' \in Seq(Control) /\ Len(inbox') = Len(inbox) - n /\ NumberedFrom(inbox', taken')
          /\ taken' = taken + n
      BY <2>1, <2>2, DropNumbered DEF Take
    <3>2. UNCHANGED <<source, pending, snapshot, callbacks, inboxOpen, sent>>
      BY <2>1 DEF Take
    <3>3. n \in Nat /\ taken' \in Nat /\ taken' + Len(inbox') = taken + Len(inbox)
      BY <3>1
    <3>4. /\ NumberedFrom(snapshot', taken' + Len(inbox'))
          /\ NumberedFrom(callbacks', taken' + Len(inbox') + Len(snapshot'))
          /\ NumberedFrom(pending', taken' + Len(inbox') + Len(snapshot') + Len(callbacks'))
          /\ sent' = taken' + Len(inbox') + Len(snapshot') + Len(callbacks') + Len(pending')
      BY <2>2, <3>2, <3>3
    <3>5. source = "waiting" => inbox' = <<>>
      <4>1. source = "waiting" => Len(inbox) = 0
        BY EmptySeq
      <4>2. source = "waiting" => Len(inbox') = 0
        BY <3>1, <4>1
      <4>3. Len(inbox') = 0 => inbox' = <<>>
        BY <3>1, EmptySeq
      <4> QED
        BY <4>2, <4>3
    <3>6. inboxOpen
      BY <2>2
    <3> QED
      BY <2>2, <3>1, <3>2, <3>3, <3>4, <3>5, <3>6
  <2>3. CASE source = "closed"
    BY <2>1, <2>3 DEF Take
  <2> QED
    BY <2>2, <2>3
<1>6. CASE CloseSource
  BY <1>6 DEF CloseSource
<1>7. CASE CloseInbox
  BY <1>7 DEF CloseInbox
<1>8. CASE UNCHANGED channel
  BY <1>8 DEF channel
<1> QED
  BY <1>1, <1>2, <1>3, <1>4, <1>5, <1>6, <1>7, <1>8 DEF ChannelNext

LEMMA InTransitInOrder == ChannelInv => ControlsInOrder
<1> SUFFICES ASSUME ChannelInv, source # "closed" PROVE ControlsInOrder
  BY DEF ControlsInOrder
<1> USE DEF ChannelInv, ChannelTypes, InTransit
<1> DEFINE first == inbox \o snapshot
           second == first \o callbacks
           third == second \o pending
<1>1. first \in Seq(Control) /\ NumberedFrom(first, taken) /\ Len(first) = Len(inbox) + Len(snapshot)
  BY JoinNumbered
<1>2. /\ second \in Seq(Control) /\ NumberedFrom(second, taken)
      /\ Len(second) = Len(inbox) + Len(snapshot) + Len(callbacks)
  <2>1. taken + Len(inbox) + Len(snapshot) = taken + Len(first)
    BY <1>1
  <2>2. NumberedFrom(callbacks, taken + Len(first))
    BY <2>1
  <2> HIDE DEF first
  <2>3. /\ second \in Seq(Control) /\ NumberedFrom(second, taken)
        /\ Len(second) = Len(first) + Len(callbacks)
    BY <1>1, <2>2, JoinNumbered
  <2> QED
    BY <1>1, <2>3
<1>3. third \in Seq(Control) /\ NumberedFrom(third, taken) /\ Len(third) = sent - taken
  <2>1. taken + Len(inbox) + Len(snapshot) + Len(callbacks) = taken + Len(second)
    BY <1>2
  <2>2. NumberedFrom(pending, taken + Len(second))
    BY <2>1
  <2> HIDE DEF second
  <2>3. third \in Seq(Control) /\ NumberedFrom(third, taken) /\ Len(third) = Len(second) + Len(pending)
    BY <1>2, <2>2, JoinNumbered
  <2> QED
    BY <1>2, <2>3
<1>4. third = inbox \o snapshot \o callbacks \o pending
  OBVIOUS
<1>5. DOMAIN third = 1..Len(third)
  BY <1>3
<1> HIDE DEF third
<1> QED
  BY <1>3, <1>4, <1>5 DEF ControlsInOrder, NumberedFrom

(* ControlSource and ControlInbox keep the order in which the threads      *)
(* submitted, and lose nothing, until the source is closed.                *)
THEOREM ControlsKeepOrder == ChannelSpec => []ControlsInOrder
BY ChannelStart, ChannelStep, InTransitInOrder, PTL DEF ChannelSpec

(* A callback that arrives after the inbox was closed leaves it empty.     *)
THEOREM ClosedInboxStaysEmpty == ChannelSpec => []ClosedStaysEmpty
<1>1. ChannelInv => ClosedStaysEmpty
  BY DEF ChannelInv
<1> QED
  BY <1>1, ChannelStart, ChannelStep, PTL DEF ChannelSpec

-----------------------------------------------------------------------------
(* An invocation's steps are the channel's steps or leave it alone: the    *)
(* engine attaches, takes one control or all of them, and closes.          *)
LEMMA TakesAll ==
    ASSUME ChannelInv, Take(Len(inbox))
    PROVE  \E n \in 0..Len(inbox) : Take(n)
<1>1. Len(inbox) \in 0..Len(inbox)
  BY DEF ChannelInv, ChannelTypes
<1> QED
  BY <1>1

LEMMA TakesOne ==
    ASSUME ChannelInv, inbox # <<>>, Take(1)
    PROVE  \E n \in 0..Len(inbox) : Take(n)
<1>1. 1 \in 0..Len(inbox)
  BY EmptySeq DEF ChannelInv, ChannelTypes
<1> QED
  BY <1>1

LEMMA ApprovesTakes ==
    ASSUME ChannelInv, inbox' = <<>>, taken' = taken + Len(inbox),
           UNCHANGED <<source, pending, snapshot, callbacks, inboxOpen, sent>>
    PROVE  Take(Len(inbox))
<1>1. inbox \in Seq(Control)
  BY DEF ChannelInv, ChannelTypes
<1>2. \A s \in Seq(Control) : SubSeq(s, Len(s) + 1, Len(s)) = <<>>
  OBVIOUS
<1>3. SubSeq(inbox, Len(inbox) + 1, Len(inbox)) = <<>>
  BY <1>1, <1>2
<1> QED
  BY <1>3 DEF Take

LEMMA EngineOnChannel == ASSUME ChannelInv, EngineStep PROVE [ChannelNext]_channel
<1>1. CASE AttachInbox
  BY <1>1 DEF AttachInbox, ChannelNext
<1>2. CASE FillsInbox
  BY <1>2 DEF FillsInbox, ChannelNext
<1>3. CASE EffectTakesControl
  BY <1>3, TakesOne DEF EffectTakesControl, ChannelNext
<1>4. CASE BoundaryCommits
  BY <1>4, TakesAll DEF BoundaryCommits, AtLoop, ChannelNext
<1>5. CASE Plan
  BY <1>5, TakesAll DEF Plan, Quiet, AtLoop, ChannelNext
<1>6. CASE SelectBatch
  BY <1>6, TakesAll DEF SelectBatch, Quiet, AtLoop, ChannelNext
<1>7. CASE SelectFails
  BY <1>7, TakesAll DEF SelectFails, Quiet, AtLoop, ChannelNext
<1>8. CASE Approves
  <2>1. \/ UNCHANGED channel
        \/ /\ inbox' = <<>> /\ taken' = taken + Len(inbox)
           /\ UNCHANGED <<source, pending, snapshot, callbacks, inboxOpen, sent>>
    BY <1>8 DEF Approves, channel
  <2> QED
    BY <2>1, ApprovesTakes, TakesAll DEF ChannelNext
<1>9. CASE BatchTakesControl
  BY <1>9, TakesOne DEF BatchTakesControl, ChannelNext
<1>10. CASE Detach
  BY <1>10 DEF Detach, ChannelNext
<1>11. CASE DetachInbox
  BY <1>11 DEF DetachInbox, ChannelNext
<1> QED
  BY <1>1, <1>2, <1>3, <1>4, <1>5, <1>6, <1>7, <1>8, <1>9, <1>10, <1>11
  DEF EngineStep, Initialize, CommitLands, CommitFails, CommitMeetsDeadline, CatalogOpens, EffectFails,
      ModelAnswers, ApprovalFails, ToolsStart, ToolFinishes, BatchDone, BatchMeetsDeadline, DriveEnds

LEMMA StepOnChannel == ChannelInv /\ [Next]_vars => [ChannelNext]_channel
<1> SUFFICES ASSUME ChannelInv, [Next]_vars PROVE [ChannelNext]_channel
  OBVIOUS
<1>1. CASE EngineStep
  BY <1>1, EngineOnChannel
<1>2. CASE ThreadSubmits
  <2>1. Submit(Kinds)
    BY <1>2 DEF ThreadSubmits, Submit
  <2> QED
    BY <2>1 DEF ChannelNext
<1>3. CASE LoopDelivers
  BY <1>3 DEF LoopDelivers, ChannelNext
<1>4. CASE UNCHANGED vars
  BY <1>4 DEF vars
<1> QED
  BY <1>1, <1>2, <1>3, <1>4
  DEF Next, Cancelled, CommitAbsorbs, Chatter, ModelEmitsDelta, LateDelta, ToolReports, Reading, Iterate,
      Receive, Left, Leave

LEMMA ChannelAlways == Spec => []ChannelInv
<1>1. Init => ChannelInv
  BY ChannelStart DEF Init
<1>2. ChannelInv /\ [Next]_vars => ChannelInv'
  BY StepOnChannel, ChannelStep
<1> QED
  BY <1>1, <1>2, PTL DEF Spec

(* Whatever the engine, the consumer and the threads do, what becomes of   *)
(* the controls is a behaviour of the control channel.                     *)
THEOREM ImplementsChannel == Spec => ChannelSpec
<1>1. Init => ChannelInit
  BY DEF Init
<1> QED
  BY <1>1, StepOnChannel, ChannelAlways, PTL DEF Spec, ChannelSpec

(* So the engine of an invocation takes the controls in the order the      *)
(* threads submitted them and misses none, and no control survives in an   *)
(* inbox it has detached.                                                  *)
THEOREM ControlsReachTheEngine == Spec => [](ControlsInOrder /\ ClosedStaysEmpty)
BY ImplementsChannel, ControlsKeepOrder, ClosedInboxStaysEmpty, PTL

-----------------------------------------------------------------------------
(* The engine's side: what its variables may hold at each suspension       *)
(* point, whoever reads the queue.                                         *)
Distinct(s) == \A i, j \in 1..Len(s) : s[i] = s[j] => i = j

StateKinds == {"none"} \cup ActiveStates \cup ClosedStates
ViewSet == [kind : StateKinds, steps : Nat, pending : Seq(Nat), resume : StateKinds]
Status == {"ready", "running", "success", "failure", "waiting"}
ChangeSet ==
    [fact : {"started", "resumed", "control", "conversation_insert", "model_turn", "tool_batch"},
     after : ViewSet, deadline : BOOLEAN, calls : Seq(Nat), outcomes : Seq(Status)]

GoodView(w) == w \in ViewSet /\ Distinct(w.pending)
GoodChange(c) == c \in ChangeSet /\ Distinct(c.after.pending) /\ c.after.kind # "none"

Requested ==
    \/ request = "start" /\ last = 0 /\ view = NoView
    \/ request = "continue" /\ last = 1 /\ view.kind \in ActiveStates
    \/ request = "resume" /\ last = 1 /\ view.kind = "suspended" /\ view.resume \in ActiveStates

Alive == {"catalog", "loop", "model", "approve", "exec", "commit"}
InBatch ==
    /\ view.kind = "tools_pending" /\ tools # <<>> /\ Len(tools) <= Len(view.pending)
    /\ batch = [id |-> last, calls |-> SubSeq(view.pending, 1, Len(tools)), parallel |-> batch.parallel]

EngineInv ==
    /\ pc \in Alive \cup {"new", "attached", "closing", "done"}
    /\ last \in Nat /\ GoodView(view) /\ tools \in Seq(Status)
    /\ pc \in {"new", "attached"} => Requested
    /\ pc = "model" => view.kind = "planning"
    /\ pc \in {"approve", "exec"} => InBatch
    /\ pc = "approve" => \A i \in 1..Len(tools) : tools[i] \in {"ready", "failure"}
    /\ pc = "commit" => GoodChange(change)

LEMMA NothingDistinct == <<>> \in Seq(Nat) /\ Distinct(<<>>)
BY DEF Distinct

LEMMA PartDistinct ==
    ASSUME NEW s \in Seq(Nat), Distinct(s), NEW a \in Nat \ {0}, NEW b \in Nat, b <= Len(s), a <= b + 1
    PROVE  /\ SubSeq(s, a, b) \in Seq(Nat) /\ Distinct(SubSeq(s, a, b))
           /\ Len(SubSeq(s, a, b)) = b - a + 1
           /\ \A i \in 1..(b - a + 1) : SubSeq(s, a, b)[i] = s[a + i - 1]
<1>0. Len(s) \in Nat
  OBVIOUS
<1>1. /\ SubSeq(s, a, b) \in Seq(Nat) /\ Len(SubSeq(s, a, b)) = b - a + 1
  BY <1>0
<1>2. \A i \in 1..(b - a + 1) : SubSeq(s, a, b)[i] = s[a + i - 1]
  BY <1>0
<1>3. Distinct(SubSeq(s, a, b))
  <2> SUFFICES ASSUME NEW i \in 1..(b - a + 1), NEW j \in 1..(b - a + 1),
                      SubSeq(s, a, b)[i] = SubSeq(s, a, b)[j]
               PROVE  i = j
    BY <1>1 DEF Distinct
  <2>1. s[a + i - 1] = s[a + j - 1]
    BY <1>2
  <2>2. a + i - 1 \in 1..Len(s) /\ a + j - 1 \in 1..Len(s)
    BY <1>0
  <2>3. a + i - 1 = a + j - 1
    BY <2>1, <2>2 DEF Distinct
  <2> QED
    BY <2>3
<1> QED
  BY <1>1, <1>2, <1>3

LEMMA ChangeGood ==
    ASSUME NEW fact \in {"started", "resumed", "control", "conversation_insert", "model_turn", "tool_batch"},
           NEW after, GoodView(after), after.kind # "none", NEW deadline \in BOOLEAN,
           NEW calls \in Seq(Nat), NEW outcomes \in Seq(Status)
    PROVE  GoodChange([fact |-> fact, after |-> after, deadline |-> deadline, calls |-> calls,
                       outcomes |-> outcomes])
BY DEF GoodView, GoodChange, ChangeSet

LEMMA NoOutcomes == <<>> \in Seq(Status)
OBVIOUS

LEMMA EndsGood ==
    ASSUME GoodView(view), NEW kind \in TerminalStates, NEW deadline \in BOOLEAN
    PROVE  GoodChange(Ends(kind, deadline)) /\ Ends(kind, deadline).fact = "control"
<1>1. Ends(kind, deadline) = [fact |-> "control", after |-> [view EXCEPT !.kind = kind, !.pending = <<>>],
                              deadline |-> deadline, calls |-> <<>>, outcomes |-> <<>>]
  BY DEF Ends, Checkpointing
<1>2. [view EXCEPT !.kind = kind, !.pending = <<>>] \in ViewSet
      /\ [view EXCEPT !.kind = kind, !.pending = <<>>].pending = <<>>
      /\ [view EXCEPT !.kind = kind, !.pending = <<>>].kind = kind
  <2>1. kind \in StateKinds
    BY DEF StateKinds, ClosedStates
  <2> QED
    BY <2>1, NothingDistinct DEF GoodView, ViewSet
<1>3. kind # "none"
  BY DEF TerminalStates
<1> DEFINE after == [view EXCEPT !.kind = kind, !.pending = <<>>]
<1>4. GoodView(after) /\ after.kind # "none"
  BY <1>2, <1>3, NothingDistinct DEF GoodView
<1> HIDE DEF after
<1>5. GoodChange([fact |-> "control", after |-> after, deadline |-> deadline, calls |-> <<>>, outcomes |-> <<>>])
  BY <1>4, ChangeGood, NothingDistinct, NoOutcomes
<1> QED
  BY <1>1, <1>5 DEF after

LEMMA LimitsGood ==
    ASSUME GoodView(view)
    PROVE  GoodChange(Limits) /\ Limits.fact = "control" /\ DeadlineControl(Limits)
<1>1. Limits = Ends("limited", TRUE)
  BY DEF Limits
<1>2. Ends("limited", TRUE).deadline = TRUE
  BY DEF Ends, Checkpointing
<1> QED
  BY <1>1, <1>2, EndsGood DEF TerminalStates, DeadlineControl

LEMMA SuspendsGood ==
    ASSUME GoodView(view)
    PROVE  GoodChange(Suspends) /\ Suspends.fact = "control"
<1>1. Suspends = [fact |-> "control", after |-> [view EXCEPT !.kind = "suspended", !.resume = view.kind],
                  deadline |-> FALSE, calls |-> <<>>, outcomes |-> <<>>]
  BY DEF Suspends, Checkpointing
<1>2. [view EXCEPT !.kind = "suspended", !.resume = view.kind] \in ViewSet
      /\ [view EXCEPT !.kind = "suspended", !.resume = view.kind].pending = view.pending
      /\ [view EXCEPT !.kind = "suspended", !.resume = view.kind].kind = "suspended"
  BY DEF GoodView, ViewSet, StateKinds, ClosedStates
<1> DEFINE after == [view EXCEPT !.kind = "suspended", !.resume = view.kind]
<1>3. GoodView(after) /\ after.kind # "none"
  BY <1>2 DEF GoodView
<1> HIDE DEF after
<1>4. GoodChange([fact |-> "control", after |-> after, deadline |-> FALSE, calls |-> <<>>, outcomes |-> <<>>])
  BY <1>3, ChangeGood, NothingDistinct, NoOutcomes
<1> QED
  BY <1>1, <1>4 DEF after

LEMMA InsertGood ==
    ASSUME GoodView(view), view.kind # "none"
    PROVE  /\ GoodChange(Checkpointing("conversation_insert", view))
           /\ Checkpointing("conversation_insert", view).fact = "conversation_insert"
BY DEF GoodView, GoodChange, ChangeSet, Checkpointing

LEMMA StartGood ==
    ASSUME NEW kind \in ActiveStates
    PROVE  GoodView(Start(kind)) /\ Start(kind).kind = kind
<1>1. FirstCalls \in Seq(Nat) /\ Distinct(FirstCalls)
  <2>1. StartCalls \in Nat
    BY InvocationAssumption
  <2>2. FirstCalls \in Seq(Nat) /\ Len(FirstCalls) = StartCalls
    BY <2>1 DEF FirstCalls
  <2> QED
    BY <2>1, <2>2 DEF FirstCalls, Distinct
<1> QED
  BY <1>1, NothingDistinct DEF Start, View, GoodView, ViewSet, StateKinds, ActiveStates

LEMMA NewCallsDistinct ==
    ASSUME GoodView(view), NEW n \in 0..MaxCalls
    PROVE  NewCalls(n) \in Seq(Nat) /\ Len(NewCalls(n)) = n /\ Distinct(NewCalls(n))
<1>1. StartCalls \in Nat /\ MaxCalls \in Nat /\ view.steps \in Nat
  BY InvocationAssumption DEF GoodView, ViewSet
<1>2. view.steps * MaxCalls \in Nat
  BY <1>1
<1> DEFINE base == view.steps * MaxCalls
<1>3. \A i \in 1..n : StartCalls + base + i \in Nat
  BY <1>1, <1>2
<1>4. NewCalls(n) = [i \in 1..n |-> StartCalls + base + i]
  BY DEF NewCalls
<1> HIDE DEF base
<1>5. NewCalls(n) \in Seq(Nat) /\ Len(NewCalls(n)) = n
  BY <1>1, <1>3, <1>4
<1>6. base \in Nat
  BY <1>2 DEF base
<1>7. \A i \in 1..n : NewCalls(n)[i] = StartCalls + base + i
  BY <1>4
<1>8. Distinct(NewCalls(n))
  <2> SUFFICES ASSUME NEW i \in 1..n, NEW j \in 1..n, NewCalls(n)[i] = NewCalls(n)[j] PROVE i = j
    BY <1>5 DEF Distinct
  <2>1. StartCalls + base + i = StartCalls + base + j
    BY <1>7
  <2> QED
    BY <1>1, <1>6, <2>1
<1> QED
  BY <1>5, <1>8

LEMMA WithCalls ==
    ASSUME NEW f, NEW a, NEW d, NEW c
    PROVE  [[fact |-> f, after |-> a, deadline |-> d, calls |-> <<>>, outcomes |-> <<>>] EXCEPT !.calls = c]
           = [fact |-> f, after |-> a, deadline |-> d, calls |-> c, outcomes |-> <<>>]
OBVIOUS

LEMMA WithOutcomes ==
    ASSUME NEW f, NEW a, NEW d, NEW c, NEW o
    PROVE  [[fact |-> f, after |-> a, deadline |-> d, calls |-> <<>>, outcomes |-> <<>>]
                EXCEPT !.calls = c, !.outcomes = o]
           = [fact |-> f, after |-> a, deadline |-> d, calls |-> c, outcomes |-> o]
<1>1. \A r : [r EXCEPT !.calls = c, !.outcomes = o] = [[r EXCEPT !.calls = c] EXCEPT !.outcomes = o]
  BY Zenon
<1>2. [[fact |-> f, after |-> a, deadline |-> d, calls |-> c, outcomes |-> <<>>] EXCEPT !.outcomes = o]
      = [fact |-> f, after |-> a, deadline |-> d, calls |-> c, outcomes |-> o]
  OBVIOUS
<1>3. [[fact |-> f, after |-> a, deadline |-> d, calls |-> <<>>, outcomes |-> <<>>] EXCEPT !.calls = c]
      = [fact |-> f, after |-> a, deadline |-> d, calls |-> c, outcomes |-> <<>>]
  BY WithCalls
<1> QED
  BY <1>1, <1>2, <1>3, Zenon

LEMMA AnswerGood ==
    ASSUME GoodView(view), NEW n \in 0..MaxCalls,
           NEW kind \in {"completed", "planning", "limited", "tools_pending"}
    PROVE  /\ GoodChange(Answer(NewCalls(n), kind))
           /\ Answer(NewCalls(n), kind).fact = "model_turn" /\ Answer(NewCalls(n), kind).calls = NewCalls(n)
<1> DEFINE calls == NewCalls(n)
           after == View(kind, view.steps + 1, IF kind = "tools_pending" THEN calls ELSE <<>>, "none")
<1>1. calls \in Seq(Nat) /\ Distinct(calls)
  BY NewCallsDistinct
<1>2. Answer(calls, kind) = [fact |-> "model_turn", after |-> after, deadline |-> FALSE, calls |-> calls,
                             outcomes |-> <<>>]
  <2>1. Checkpointing("model_turn", after) = [fact |-> "model_turn", after |-> after, deadline |-> FALSE,
                                              calls |-> <<>>, outcomes |-> <<>>]
    BY DEF Checkpointing
  <2>2. Answer(calls, kind) = [Checkpointing("model_turn", after) EXCEPT !.calls = calls]
    BY DEF Answer
  <2> HIDE DEF calls, after
  <2>3. [[fact |-> "model_turn", after |-> after, deadline |-> FALSE, calls |-> <<>>, outcomes |-> <<>>]
            EXCEPT !.calls = calls]
        = [fact |-> "model_turn", after |-> after, deadline |-> FALSE, calls |-> calls, outcomes |-> <<>>]
    BY WithCalls
  <2> QED
    BY <2>1, <2>2, <2>3, Zenon
<1>3. (IF kind = "tools_pending" THEN calls ELSE <<>>) \in Seq(Nat)
      /\ Distinct(IF kind = "tools_pending" THEN calls ELSE <<>>)
  BY <1>1, NothingDistinct
<1> HIDE DEF calls
<1>4. after \in ViewSet /\ Distinct(after.pending) /\ after.kind = kind
  BY <1>3 DEF GoodView, ViewSet, View, StateKinds, ActiveStates, ClosedStates, TerminalStates
<1>5. GoodView(after) /\ after.kind # "none"
  BY <1>4 DEF GoodView
<1> HIDE DEF after
<1>6. GoodChange([fact |-> "model_turn", after |-> after, deadline |-> FALSE, calls |-> calls, outcomes |-> <<>>])
  BY <1>1, <1>5, ChangeGood, NoOutcomes
<1>7. GoodChange(Answer(calls, kind)) /\ Answer(calls, kind).fact = "model_turn" /\ Answer(calls, kind).calls = calls
  BY <1>2, <1>6
<1> QED
  BY <1>7 DEF calls

LEMMA EngineCommits ==
    ASSUME EngineInv, NEW c, GoodChange(c), pc' = "commit", change' = c, UNCHANGED <<view, last>>,
           tools' \in Seq(Status)
    PROVE  EngineInv'
BY DEF EngineInv, Alive

LEMMA EngineMoves ==
    ASSUME EngineInv, pc' \in {"catalog", "loop", "closing", "done"}, GoodView(view'), last' \in Nat,
           tools' \in Seq(Status)
    PROVE  EngineInv'
BY DEF EngineInv, Alive

LEMMA EngineStays ==
    ASSUME EngineInv, UNCHANGED <<request, pc, view, last, change, batch>>,
           tools' \in Seq(Status), Len(tools') = Len(tools), pc = "approve" => tools' = tools
    PROVE  EngineInv'
<1>1. InBatch => InBatch'
  <2> SUFFICES ASSUME InBatch PROVE InBatch'
    OBVIOUS
  <2>1. tools \in Seq(Status) /\ tools # <<>>
    BY DEF EngineInv, InBatch
  <2>2. Len(tools) # 0
    BY <2>1, EmptySeq
  <2>3. tools' # <<>>
    BY <2>2
  <2> QED
    BY <2>3 DEF InBatch
<1> QED
  BY <1>1 DEF EngineInv, Requested

LEMMA EngineUnmoved == ASSUME EngineInv, UNCHANGED engine PROVE EngineInv'
BY EngineStays DEF engine, EngineInv

LEMMA ResumedGood ==
    ASSUME GoodView(view), view.resume \in ActiveStates
    PROVE  GoodChange(Checkpointing("resumed", [view EXCEPT !.kind = view.resume, !.resume = "none"]))
<1> DEFINE after == [view EXCEPT !.kind = view.resume, !.resume = "none"]
<1>1. after \in ViewSet /\ after.pending = view.pending /\ after.kind = view.resume
  BY DEF GoodView, ViewSet, StateKinds
<1>2. GoodView(after) /\ after.kind # "none"
  BY <1>1 DEF GoodView, ActiveStates
<1> HIDE DEF after
<1>3. GoodChange([fact |-> "resumed", after |-> after, deadline |-> FALSE, calls |-> <<>>, outcomes |-> <<>>])
  BY <1>2, ChangeGood, NothingDistinct, NoOutcomes
<1>4. GoodChange(Checkpointing("resumed", after))
  BY <1>3 DEF Checkpointing
<1> QED
  BY <1>4 DEF after

LEMMA StartedGood == GoodChange(Checkpointing("started", Start("planning")))
<1> DEFINE after == Start("planning")
<1>1. GoodView(after) /\ after.kind # "none"
  BY StartGood DEF ActiveStates
<1> HIDE DEF after
<1>2. GoodChange([fact |-> "started", after |-> after, deadline |-> FALSE, calls |-> <<>>, outcomes |-> <<>>])
  BY <1>1, ChangeGood, NothingDistinct, NoOutcomes
<1>3. GoodChange(Checkpointing("started", after))
  BY <1>2 DEF Checkpointing
<1> QED
  BY <1>3 DEF after

(* The fact of a batch: what is answered comes off the pending calls.      *)
DoneAfter ==
    LET rest == SubSeq(view.pending, Len(batch.calls) + 1, Len(view.pending))
        active == IF rest = <<>> THEN "planning" ELSE "tools_pending"
        waits == paused \/ \E i \in DOMAIN tools : tools[i] = "waiting"
    IN  View(IF waits THEN "suspended" ELSE active, view.steps, rest, IF waits THEN active ELSE "none")

LEMMA BatchCalls ==
    ASSUME EngineInv, pc \in {"approve", "exec"} \/ InBatch
    PROVE  /\ batch.calls \in Seq(Nat) /\ Distinct(batch.calls) /\ Len(batch.calls) = Len(tools)
           /\ Len(tools) \in Nat \ {0} /\ tools \in Seq(Status) /\ batch.id = last /\ batch # NoBatch
           /\ batch = [id |-> last, calls |-> batch.calls, parallel |-> batch.parallel]
           /\ Len(tools) <= Len(view.pending)
<1>1. InBatch /\ view.pending \in Seq(Nat) /\ Distinct(view.pending) /\ tools \in Seq(Status)
  BY DEF EngineInv, GoodView, ViewSet
<1>2. Len(tools) \in Nat \ {0} /\ Len(tools) <= Len(view.pending) /\ Len(view.pending) \in Nat
  BY <1>1, EmptySeq DEF InBatch
<1>3. batch.calls = SubSeq(view.pending, 1, Len(tools)) /\ batch.id = last
      /\ batch = [id |-> last, calls |-> batch.calls, parallel |-> batch.parallel]
  BY <1>1 DEF InBatch
<1>4. /\ batch.calls \in Seq(Nat) /\ Distinct(batch.calls) /\ Len(batch.calls) = Len(tools) - 1 + 1
  <2> DEFINE part == SubSeq(view.pending, 1, Len(tools))
  <2>1. 1 <= Len(tools) + 1 /\ 1 \in Nat \ {0}
    BY <1>2
  <2>2. part \in Seq(Nat) /\ Distinct(part) /\ Len(part) = Len(tools) - 1 + 1
    BY <1>1, <1>2, <2>1, PartDistinct
  <2> QED
    BY <1>3, <2>2, Zenon
<1>5. Len(batch.calls) = Len(tools)
  BY <1>2, <1>4
<1>6. batch # NoBatch
  <2> SUFFICES ASSUME batch = NoBatch PROVE FALSE
    OBVIOUS
  <2>1. batch.calls = <<>>
    BY DEF NoBatch
  <2> QED
    BY <1>2, <1>5, <2>1, EmptySeq
<1> QED
  BY <1>1, <1>2, <1>3, <1>4, <1>5, <1>6

LEMMA DoneGood ==
    ASSUME EngineInv, pc = "exec"
    PROVE  GoodView(DoneAfter) /\ DoneAfter.kind # "none"
<1> DEFINE rest == SubSeq(view.pending, Len(batch.calls) + 1, Len(view.pending))
           active == IF rest = <<>> THEN "planning" ELSE "tools_pending"
           waits == paused \/ \E i \in DOMAIN tools : tools[i] = "waiting"
<1>1. view.pending \in Seq(Nat) /\ Distinct(view.pending) /\ view.steps \in Nat /\ Len(view.pending) \in Nat
  BY DEF EngineInv, GoodView, ViewSet
<1>2. Len(batch.calls) + 1 \in Nat \ {0} /\ Len(batch.calls) + 1 <= Len(view.pending) + 1
  BY BatchCalls, <1>1
<1>3. rest \in Seq(Nat) /\ Distinct(rest)
  <2>1. \A s, m : s \in Seq(Nat) /\ Distinct(s) /\ m \in Nat \ {0} /\ m <= Len(s) + 1
                => SubSeq(s, m, Len(s)) \in Seq(Nat) /\ Distinct(SubSeq(s, m, Len(s)))
    BY PartDistinct
  <2> QED
    BY <1>1, <1>2, <2>1
<1>4. active \in ActiveStates
  BY DEF ActiveStates
<1> HIDE DEF rest, active, waits
<1>5. DoneAfter = View(IF waits THEN "suspended" ELSE active, view.steps, rest, IF waits THEN active ELSE "none")
  BY DEF DoneAfter, rest, active, waits
<1> QED
  BY <1>1, <1>3, <1>4, <1>5 DEF View, GoodView, ViewSet, StateKinds, ActiveStates, ClosedStates

LEMMA EngineStart == Init => EngineInv
<1> SUFFICES ASSUME Init PROVE EngineInv
  OBVIOUS
<1>1. PICK r \in Requests : request = r[1] /\ view = StartingView(r[1], r[2])
  BY DEF Init
<1>2. \/ r[1] = "start"
      \/ r[1] \in {"continue", "resume"} /\ r[2] \in ActiveStates
  BY <1>1, InvocationAssumption
<1>3. last = (IF request = "start" THEN 0 ELSE 1) /\ pc = "new" /\ tools = <<>>
  BY DEF Init
<1>4. CASE r[1] = "start"
  <2>1. view = NoView /\ request = "start" /\ last = 0
    BY <1>1, <1>3, <1>4 DEF StartingView
  <2>2. GoodView(view)
    BY <2>1, NothingDistinct DEF NoView, View, GoodView, ViewSet, StateKinds
  <2> QED
    BY <1>3, <2>1, <2>2 DEF EngineInv, Requested
<1>5. CASE r[1] = "continue" /\ r[2] \in ActiveStates
  <2>1. view = Start(r[2]) /\ request = "continue" /\ last = 1
    BY <1>1, <1>3, <1>5 DEF StartingView
  <2>2. GoodView(view) /\ view.kind \in ActiveStates
    BY <1>5, <2>1, StartGood
  <2> QED
    BY <1>3, <2>1, <2>2 DEF EngineInv, Requested
<1>6. CASE r[1] = "resume" /\ r[2] \in ActiveStates
  <2> DEFINE w == Start(r[2])
  <2>1. view = [w EXCEPT !.kind = "suspended", !.resume = r[2]] /\ request = "resume" /\ last = 1
    BY <1>1, <1>3, <1>6 DEF StartingView
  <2>2. GoodView(w)
    BY <1>6, StartGood
  <2> HIDE DEF w
  <2>3. GoodView(view) /\ view.kind = "suspended" /\ view.resume \in ActiveStates
    BY <1>6, <2>1, <2>2 DEF GoodView, ViewSet, StateKinds, ClosedStates
  <2> QED
    BY <1>3, <2>1, <2>3 DEF EngineInv, Requested
<1> QED
  BY <1>2, <1>4, <1>5, <1>6

LEMMA EngineStepFits == ASSUME EngineInv, EngineStep PROVE EngineInv'
<1>0. GoodView(view) /\ last \in Nat /\ tools \in Seq(Status)
  BY DEF EngineInv
<1>1. CASE AttachInbox
  BY <1>1 DEF AttachInbox, EngineInv, Requested
<1>2. CASE FillsInbox
  BY <1>2, EngineUnmoved DEF FillsInbox
<1>3. CASE Initialize
  <2>0. Requested /\ UNCHANGED <<view, last, tools>>
    BY <1>3 DEF Initialize, EngineInv
  <2>1. CASE request = "start"
    BY <1>0, <1>3, <2>0, <2>1, StartedGood, EngineCommits DEF Initialize, Commit
  <2>2. CASE request = "continue"
    BY <1>0, <1>3, <2>0, <2>2, EngineMoves DEF Initialize
  <2>3. CASE request = "resume"
    <3>1. view.resume \in ActiveStates
      BY <2>0, <2>3 DEF Requested
    <3> QED
      BY <1>0, <1>3, <2>0, <2>3, <3>1, ResumedGood, EngineCommits DEF Initialize, Commit
  <2> QED
    BY <2>0, <2>1, <2>2, <2>3 DEF Requested
<1>4. CASE CommitLands
  <2>1. GoodChange(change)
    BY <1>4 DEF CommitLands, At, EngineInv
  <2>2. GoodView(change.after)
    BY <2>1 DEF GoodChange, GoodView, ChangeSet
  <2>3. view' = change.after /\ last' = last + 1 /\ tools' = <<>> /\ pc' = Continues(change.after)
    BY <1>4 DEF CommitLands, AtBoundary
  <2>4. pc' \in {"closing", "loop", "catalog"}
    BY <2>3 DEF Continues
  <2> QED
    BY <1>0, <2>2, <2>3, <2>4, EngineMoves, NoOutcomes
<1>5. CASE CommitFails
  BY <1>0, <1>5, EngineMoves, NoOutcomes DEF CommitFails, AtBoundary
<1>6. CASE CommitMeetsDeadline
  BY <1>0, <1>6, EngineCommits, LimitsGood DEF CommitMeetsDeadline, At
<1>7. CASE CatalogOpens
  BY <1>0, <1>7, EngineMoves DEF CatalogOpens
<1>8. CASE EffectFails
  <2>1. PICK c \in {Ends("failed", FALSE), Limits} : GivesUp(c)
    BY <1>8 DEF EffectFails
  <2>2. GoodChange(c)
    BY <1>0, <2>1, EndsGood, LimitsGood DEF TerminalStates
  <2> QED
    BY <1>0, <2>1, <2>2, EngineCommits DEF GivesUp, Commit
<1>9. CASE EffectTakesControl
  <2>1. CASE GivesUp(Suspends)
    BY <1>0, <2>1, SuspendsGood, EngineCommits DEF GivesUp, Commit
  <2>2. CASE pc = "model" /\ GivesUp(Checkpointing("conversation_insert", view))
    <3>1. view.kind # "none"
      BY <2>2 DEF EngineInv
    <3> QED
      BY <1>0, <2>2, <3>1, InsertGood, EngineCommits DEF GivesUp, Commit
  <2>3. CASE UNCHANGED <<request, pc, view, last, opened, change, batch, tools, paused, noise, late>>
    BY <1>0, <2>3, EngineStays
  <2>4. CASE UNCHANGED engine
    BY <2>4, EngineUnmoved
  <2> QED
    BY <1>9, <2>1, <2>2, <2>3, <2>4 DEF EffectTakesControl
<1>10. CASE BoundaryCommits
  <2>1. UNCHANGED <<view, last, tools>>
    BY <1>10 DEF BoundaryCommits
  <2>2. CASE Commit(Limits)
    BY <1>0, <2>1, <2>2, LimitsGood, EngineCommits DEF Commit
  <2>3. CASE Commit(Suspends)
    BY <1>0, <2>1, <2>3, SuspendsGood, EngineCommits DEF Commit
  <2>4. CASE InsertDue /\ Commit(Checkpointing("conversation_insert", view))
    <3>1. view.kind # "none"
      BY <2>4 DEF InsertDue
    <3> QED
      BY <1>0, <2>1, <2>4, <3>1, InsertGood, EngineCommits DEF Commit
  <2> QED
    BY <1>10, <2>2, <2>3, <2>4 DEF BoundaryCommits
<1>11. CASE Plan
  <2>1. view.kind = "planning" /\ UNCHANGED <<request, view, last, batch, tools>>
    BY <1>11 DEF Plan
  <2>2. CASE Commit(Ends("limited", FALSE))
    BY <1>0, <2>1, <2>2, EndsGood, EngineCommits DEF Commit, TerminalStates
  <2>3. CASE pc' = "model"
    BY <1>0, <2>1, <2>3 DEF EngineInv, Alive
  <2> QED
    BY <1>11, <2>2, <2>3 DEF Plan
<1>12. CASE ModelAnswers
  <2>1. PICK n \in 0..MaxCalls, kind \in {"completed", "planning", "limited", "tools_pending"} :
            FinishModel(NewCalls(n), kind)
    BY <1>12 DEF ModelAnswers
  <2> DEFINE c == Answer(NewCalls(n), kind)
  <2>2. GoodChange(c)
    BY <1>0, AnswerGood
  <2>3. pc' = "commit" /\ change' = c /\ UNCHANGED <<view, last, tools>>
    BY <1>12, <2>1 DEF ModelAnswers, FinishModel, Commit
  <2> HIDE DEF c
  <2> QED
    BY <1>0, <2>2, <2>3, EngineCommits
<1>13. CASE SelectBatch
  <2>0. PICK k \in 1..Len(view.pending), parallel \in BOOLEAN :
            \E statuses \in [1..k -> {"ready", "failure"}] :
                /\ batch' = [id |-> last, calls |-> SubSeq(view.pending, 1, k), parallel |-> parallel]
                /\ tools' = statuses
                /\ pc' = IF HasApproval /\ Bound(statuses) # {} THEN "approve" ELSE "exec"
    BY <1>13, Zenon DEF SelectBatch
  <2>1. PICK statuses \in [1..k -> {"ready", "failure"}] :
            /\ batch' = [id |-> last, calls |-> SubSeq(view.pending, 1, k), parallel |-> parallel]
            /\ tools' = statuses /\ pc' \in {"approve", "exec"}
    BY <2>0
  <2>2. view.kind = "tools_pending" /\ UNCHANGED <<request, view, last>>
    BY <1>13 DEF SelectBatch
  <2>3. Len(view.pending) \in Nat
    BY <1>0 DEF GoodView, ViewSet
  <2>4. k \in Nat \ {0} /\ k <= Len(view.pending)
    BY <2>3
  <2>5. tools' \in Seq(Status) /\ Len(tools') = k /\ \A i \in 1..k : tools'[i] \in {"ready", "failure"}
    BY <2>1, <2>4 DEF Status
  <2>6. tools' # <<>>
    BY <2>4, <2>5, EmptySeq
  <2>7. InBatch'
    BY <2>1, <2>2, <2>4, <2>5, <2>6 DEF InBatch
  <2> QED
    BY <1>0, <2>1, <2>2, <2>5, <2>7 DEF EngineInv, Alive
<1>14. CASE SelectFails
  <2>1. PICK kind \in {"failed", "limited"} : Commit(Ends(kind, FALSE))
    BY <1>14 DEF SelectFails
  <2>2. GoodChange(Ends(kind, FALSE))
    BY <1>0, EndsGood DEF TerminalStates
  <2>3. UNCHANGED <<view, last, tools>>
    BY <1>14 DEF SelectFails
  <2> QED
    BY <1>0, <2>1, <2>2, <2>3, EngineCommits DEF Commit
<1>15. CASE Approves
  <2>1. UNCHANGED <<request, view, last, batch>> /\ pc = "approve"
    BY <1>15 DEF Approves, At
  <2>2. CASE Commit(Suspends) /\ UNCHANGED tools
    BY <1>0, <2>1, <2>2, SuspendsGood, EngineCommits DEF Commit
  <2>3. CASE /\ pc' = "exec"
             /\ \E answers \in [Bound(tools) -> {"allow", "deny", "suspend"}] :
                    tools' = [i \in DOMAIN tools |-> IF i \in Bound(tools) /\ answers[i] = "deny"
                                                     THEN "failure" ELSE tools[i]]
    <3>1. PICK answers :
              tools' = [i \in DOMAIN tools |-> IF i \in Bound(tools) /\ answers[i] = "deny"
                                               THEN "failure" ELSE tools[i]]
      BY <2>3
    <3>2. DOMAIN tools = 1..Len(tools) /\ Len(tools) \in Nat /\ \A i \in 1..Len(tools) : tools[i] \in Status
      BY <1>0
    <3>3. \A i \in 1..Len(tools) :
              (IF i \in Bound(tools) /\ answers[i] = "deny" THEN "failure" ELSE tools[i]) \in Status
      BY <3>2 DEF Status
    <3>4. tools' \in Seq(Status) /\ Len(tools') = Len(tools)
      BY <3>1, <3>2, <3>3
    <3>5. tools' # <<>>
      BY <2>1, <3>4, BatchCalls, EmptySeq
    <3>6. InBatch'
      BY <2>1, <3>4, <3>5 DEF InBatch, EngineInv
    <3> QED
      BY <1>0, <2>1, <2>3, <3>4, <3>6 DEF EngineInv, Alive
  <2> QED
    BY <1>15, <2>2, <2>3 DEF Approves
<1>16. CASE ApprovalFails
  <2>1. UNCHANGED <<view, last, tools>>
    BY <1>16 DEF ApprovalFails
  <2>2. CASE Commit(Ends("failed", FALSE))
    BY <1>0, <2>1, <2>2, EndsGood, EngineCommits DEF Commit, TerminalStates
  <2>3. CASE Commit(Limits)
    BY <1>0, <2>1, <2>3, LimitsGood, EngineCommits DEF Commit
  <2> QED
    BY <1>16, <2>2, <2>3 DEF ApprovalFails
<1>17. CASE ToolsStart
  <2>1. UNCHANGED <<request, pc, view, last, change, batch>> /\ pc = "exec"
    BY <1>17 DEF ToolsStart, At
  <2>2. PICK starting : tools' = [i \in DOMAIN tools |->
                            IF \E k \in DOMAIN starting : starting[k] = i THEN "running" ELSE tools[i]]
    BY <1>17 DEF ToolsStart
  <2>3. DOMAIN tools = 1..Len(tools) /\ Len(tools) \in Nat /\ \A i \in 1..Len(tools) : tools[i] \in Status
    BY <1>0
  <2>4. \A i \in 1..Len(tools) :
            (IF \E k \in DOMAIN starting : starting[k] = i THEN "running" ELSE tools[i]) \in Status
    BY <2>3 DEF Status
  <2>5. tools' \in Seq(Status) /\ Len(tools') = Len(tools)
    BY <2>2, <2>3, <2>4
  <2> QED
    BY <2>1, <2>5, EngineStays
<1>18. CASE \E i \in DOMAIN tools : ToolFinishes(i)
  <2>1. PICK i \in DOMAIN tools : ToolFinishes(i)
    BY <1>18
  <2>2. PICK outcome \in Outcomes : tools' = [tools EXCEPT ![i] = outcome]
    BY <2>1 DEF ToolFinishes
  <2>3. outcome \in Status
    BY <2>2, InvocationAssumption DEF Status
  <2>4. tools' \in Seq(Status) /\ Len(tools') = Len(tools)
    BY <1>0, <2>2, <2>3
  <2>5. UNCHANGED <<request, pc, view, last, change, batch>> /\ pc = "exec"
    BY <2>1 DEF ToolFinishes, At
  <2> QED
    BY <2>4, <2>5, EngineStays
<1>19. CASE BatchTakesControl
  BY <1>0, <1>19, EngineStays DEF BatchTakesControl
<1>20. CASE BatchDone
  <2>1. pc = "exec" /\ UNCHANGED <<view, last, tools>>
    BY <1>20 DEF BatchDone, At
  <2>2. Commit([Checkpointing("tool_batch", DoneAfter) EXCEPT !.calls = batch.calls, !.outcomes = tools])
    BY <1>20 DEF BatchDone, DoneAfter
  <2> DEFINE after == DoneAfter
             c == [fact |-> "tool_batch", after |-> after, deadline |-> FALSE, calls |-> batch.calls,
                   outcomes |-> tools]
  <2>3. GoodView(after) /\ after.kind # "none" /\ batch.calls \in Seq(Nat)
    BY <2>1, DoneGood, BatchCalls
  <2> HIDE DEF after
  <2>4. GoodChange(c)
    BY <1>0, <2>3, ChangeGood
  <2>5. [Checkpointing("tool_batch", after) EXCEPT !.calls = batch.calls, !.outcomes = tools] = c
    <3>1. Checkpointing("tool_batch", after) = [fact |-> "tool_batch", after |-> after, deadline |-> FALSE,
                                                calls |-> <<>>, outcomes |-> <<>>]
      BY DEF Checkpointing
    <3>2. \A a, k, o :
              [[fact |-> "tool_batch", after |-> a, deadline |-> FALSE, calls |-> <<>>, outcomes |-> <<>>]
                  EXCEPT !.calls = k, !.outcomes = o]
              = [fact |-> "tool_batch", after |-> a, deadline |-> FALSE, calls |-> k, outcomes |-> o]
      BY WithOutcomes, Zenon
    <3>3. [[fact |-> "tool_batch", after |-> after, deadline |-> FALSE, calls |-> <<>>, outcomes |-> <<>>]
              EXCEPT !.calls = batch.calls, !.outcomes = tools] = c
      BY <3>2, Zenon
    <3> QED
      BY <3>1, <3>3, Zenon
  <2>6. pc' = "commit" /\ change' = c
    BY <2>2, <2>5 DEF Commit, after
  <2> HIDE DEF c
  <2> QED
    BY <1>0, <2>1, <2>4, <2>6, EngineCommits
<1>21. CASE BatchMeetsDeadline
  BY <1>0, <1>21, LimitsGood, EngineCommits DEF BatchMeetsDeadline, Commit
<1>22. CASE Detach
  BY <1>22, EngineUnmoved DEF Detach
<1>23. CASE DetachInbox
  BY <1>23, EngineUnmoved DEF DetachInbox
<1>24. CASE DriveEnds
  BY <1>0, <1>24, EngineMoves DEF DriveEnds
<1> QED
  BY <1>1, <1>2, <1>3, <1>4, <1>5, <1>6, <1>7, <1>8, <1>9, <1>10, <1>11, <1>12, <1>13, <1>14, <1>15, <1>16,
     <1>17, <1>18, <1>19, <1>20, <1>21, <1>22, <1>23, <1>24 DEF EngineStep

LEMMA EngineFits == EngineInv /\ [Next]_vars => EngineInv'
<1> SUFFICES ASSUME EngineInv, [Next]_vars PROVE EngineInv'
  OBVIOUS
<1>1. CASE EngineStep
  BY <1>1, EngineStepFits
<1>2. CASE Cancelled
  BY <1>2, EngineMoves, NoOutcomes DEF Cancelled, AtBoundary, EngineInv
<1>3. CASE Chatter
  BY <1>3, EngineStays DEF Chatter, ModelEmitsDelta, LateDelta, ToolReports, EngineInv
<1>4. CASE UNCHANGED engine
  BY <1>4, EngineUnmoved
<1> QED
  BY <1>1, <1>2, <1>3, <1>4
  DEF Next, CommitAbsorbs, Reading, Iterate, Receive, Left, Leave, ThreadSubmits, LoopDelivers, vars

-----------------------------------------------------------------------------
(* Sequences of events, whatever they hold.                                *)
Sequential(s) == \E M : s \in Seq(M)

LEMMA SequentialIs ==
    ASSUME NEW s, Sequential(s)
    PROVE  Len(s) \in Nat /\ DOMAIN s = 1..Len(s) /\ (s = <<>> <=> Len(s) = 0)
<1>1. PICK M : s \in Seq(M)
  BY DEF Sequential
<1> QED
  BY <1>1, EmptySeq

LEMMA Short ==
    ASSUME NEW x
    PROVE  /\ Sequential(<<>>) /\ Len(<<>>) = 0
           /\ Sequential(<<x>>) /\ Len(<<x>>) = 1 /\ <<x>>[1] = x
<1>1. <<>> \in Seq({}) /\ <<x>> \in Seq({x})
  OBVIOUS
<1> QED
  BY <1>1 DEF Sequential

LEMMA Joined ==
    ASSUME NEW s, NEW t, Sequential(s), Sequential(t)
    PROVE  /\ Sequential(s \o t) /\ Len(s \o t) = Len(s) + Len(t)
           /\ \A i \in 1..Len(s) : (s \o t)[i] = s[i]
           /\ \A i \in 1..Len(t) : (s \o t)[Len(s) + i] = t[i]
<1>1. PICK M : s \in Seq(M)
  BY DEF Sequential
<1>2. PICK N : t \in Seq(N)
  BY DEF Sequential
<1> DEFINE A == M \cup N
<1>3. s \in Seq(A) /\ t \in Seq(A)
  BY <1>1, <1>2
<1> HIDE DEF A
<1>4. s \o t \in Seq(A) /\ Len(s \o t) = Len(s) + Len(t)
  BY <1>3
<1>5. \A i \in 1..Len(s) : (s \o t)[i] = s[i]
  BY <1>3
<1>6. \A i \in 1..Len(t) : (s \o t)[Len(s) + i] = t[i]
  BY <1>3
<1> QED
  BY <1>4, <1>5, <1>6 DEF Sequential

LEMMA Added ==
    ASSUME NEW s, NEW x, Sequential(s)
    PROVE  /\ Sequential(Append(s, x)) /\ Len(Append(s, x)) = Len(s) + 1
           /\ \A i \in 1..Len(s) : Append(s, x)[i] = s[i]
           /\ Append(s, x)[Len(s) + 1] = x
<1>1. PICK M : s \in Seq(M)
  BY DEF Sequential
<1> DEFINE A == M \cup {x}
<1>2. s \in Seq(A) /\ x \in A
  BY <1>1
<1> HIDE DEF A
<1>3. /\ Append(s, x) \in Seq(A) /\ Len(Append(s, x)) = Len(s) + 1
      /\ \A i \in 1..Len(s) : Append(s, x)[i] = s[i]
      /\ Append(s, x)[Len(s) + 1] = x
  BY <1>2, AppendProperties
<1> QED
  BY <1>3 DEF Sequential

LEMMA Behead ==
    ASSUME NEW s, Sequential(s), s # <<>>
    PROVE  /\ Head(s) = s[1] /\ Len(s) \in Nat \ {0}
           /\ Sequential(Tail(s)) /\ Len(Tail(s)) = Len(s) - 1
           /\ \A i \in 1..Len(s) - 1 : Tail(s)[i] = s[i + 1]
<1>1. PICK M : s \in Seq(M)
  BY DEF Sequential
<1>2. Len(s) \in Nat \ {0}
  BY <1>1, EmptySeq
<1>3. /\ Head(s) = s[1] /\ Tail(s) \in Seq(M) /\ Len(Tail(s)) = Len(s) - 1
      /\ \A i \in 1..Len(Tail(s)) : Tail(s)[i] = s[i + 1]
  BY <1>1, HeadTailProperties
<1> QED
  BY <1>2, <1>3 DEF Sequential

LEMMA Built ==
    ASSUME NEW n \in Nat, NEW s, s = [i \in 1..n |-> s[i]]
    PROVE  Sequential(s) /\ Len(s) = n
<1> DEFINE M == {s[i] : i \in 1..n}
<1>1. s \in Seq(M) /\ Len(s) = n
  OBVIOUS
<1> QED
  BY <1>1 DEF Sequential

(* The events as they are numbered: n is the number of the last one before *)
(* them.                                                                   *)
Sent(events, n) == [i \in DOMAIN events |-> [events[i] EXCEPT !.seq = n + i]]

Plain(events) ==
    /\ Sequential(events)
    /\ \A i \in 1..Len(events) : /\ events[i].kind \notin Lossy \cup {Done}
                                 /\ events[i] = Event(events[i].kind, events[i].data)

LEMMA SentOne ==
    ASSUME NEW kind, NEW data, NEW n
    PROVE  [Event(kind, data) EXCEPT !.seq = n] = [seq |-> n, kind |-> kind, data |-> data]
BY DEF Event

LEMMA SentIs ==
    ASSUME NEW events, Sequential(events), NEW n
    PROVE  /\ Sequential(Sent(events, n)) /\ Len(Sent(events, n)) = Len(events)
           /\ \A i \in 1..Len(events) :
                  events[i] = Event(events[i].kind, events[i].data) =>
                      Sent(events, n)[i] = [seq |-> n + i, kind |-> events[i].kind, data |-> events[i].data]
<1>1. DOMAIN events = 1..Len(events) /\ Len(events) \in Nat
  BY SequentialIs
<1>2. Sent(events, n) = [i \in 1..Len(events) |-> [events[i] EXCEPT !.seq = n + i]]
  BY <1>1 DEF Sent
<1>3. Sent(events, n) = [i \in 1..Len(events) |-> Sent(events, n)[i]]
  BY <1>2
<1>4. Sequential(Sent(events, n)) /\ Len(Sent(events, n)) = Len(events)
  BY <1>1, <1>3, Built
<1>5. ASSUME NEW i \in 1..Len(events), events[i] = Event(events[i].kind, events[i].data)
      PROVE  Sent(events, n)[i] = [seq |-> n + i, kind |-> events[i].kind, data |-> events[i].data]
  <2>1. Sent(events, n)[i] = [events[i] EXCEPT !.seq = n + i]
    BY <1>2
  <2> DEFINE k == events[i].kind
             d == events[i].data
  <2>2. events[i] = Event(k, d)
    BY <1>5
  <2>3. Sent(events, n)[i] = [Event(k, d) EXCEPT !.seq = n + i]
    BY <2>1, <2>2, Zenon
  <2> HIDE DEF k, d
  <2>4. Sent(events, n)[i] = [seq |-> n + i, kind |-> k, data |-> d]
    BY <2>3, SentOne
  <2> QED
    BY <2>4 DEF k, d
<1> QED
  BY <1>4, <1>5

LEMMA PlainOne ==
    ASSUME NEW kind, NEW data, kind \notin Lossy \cup {Done}
    PROVE  Plain(<<Event(kind, data)>>)
<1> DEFINE e == Event(kind, data)
<1>1. e.kind = kind /\ e.data = data
  BY DEF Event
<1>2. e = Event(e.kind, e.data)
  BY <1>1
<1> HIDE DEF e
<1>3. Sequential(<<e>>) /\ Len(<<e>>) = 1 /\ <<e>>[1] = e
  BY Short
<1>4. ASSUME NEW i \in 1..1 PROVE <<e>>[i] = e
  BY <1>3
<1>5. Plain(<<e>>)
  BY <1>1, <1>2, <1>3, <1>4 DEF Plain
<1> QED
  BY <1>5 DEF e

LEMMA PlainNone == Plain(<<>>)
<1>1. Sequential(<<>>) /\ Len(<<>>) = 0
  BY Short
<1>2. 1..Len(<<>>) = {}
  BY <1>1
<1> QED
  BY <1>1, <1>2 DEF Plain

LEMMA PlainJoined ==
    ASSUME NEW a, NEW b, Plain(a), Plain(b)
    PROVE  Plain(a \o b)
<1>1. Sequential(a) /\ Sequential(b)
  BY DEF Plain
<1>2. /\ Sequential(a \o b) /\ Len(a \o b) = Len(a) + Len(b)
      /\ \A i \in 1..Len(a) : (a \o b)[i] = a[i]
      /\ \A i \in 1..Len(b) : (a \o b)[Len(a) + i] = b[i]
  BY <1>1, Joined
<1>3. Len(a) \in Nat /\ Len(b) \in Nat
  BY <1>1, SequentialIs
<1> DEFINE c == a \o b
<1> HIDE DEF c
<1>4. ASSUME NEW i \in 1..Len(c)
      PROVE  c[i].kind \notin Lossy \cup {Done} /\ c[i] = Event(c[i].kind, c[i].data)
  <2>1. CASE i \in 1..Len(a)
    <3>1. c[i] = a[i]
      BY <1>2, <2>1 DEF c
    <3> QED
      BY <2>1, <3>1 DEF Plain
  <2>2. CASE i \notin 1..Len(a)
    <3>1. Len(c) = Len(a) + Len(b)
      BY <1>2 DEF c
    <3>2. i - Len(a) \in 1..Len(b) /\ Len(a) + (i - Len(a)) = i
      BY <1>3, <2>2, <3>1
    <3>3. c[i] = b[i - Len(a)]
      BY <1>2, <3>2 DEF c
    <3> QED
      BY <3>2, <3>3 DEF Plain
  <2> QED
    BY <2>1, <2>2
<1> QED
  BY <1>2, <1>4 DEF Plain, c

LEMMA EachOfIs ==
    ASSUME NEW kind, NEW indices, Sequential(indices)
    PROVE  /\ Sequential(EachOf(kind, indices)) /\ Len(EachOf(kind, indices)) = Len(indices)
           /\ \A k \in 1..Len(indices) : EachOf(kind, indices)[k] = Event(kind, Data(indices[k]))
<1>1. DOMAIN indices = 1..Len(indices) /\ Len(indices) \in Nat
  BY SequentialIs
<1>2. EachOf(kind, indices) = [k \in 1..Len(indices) |-> Event(kind, Data(indices[k]))]
  BY <1>1 DEF EachOf
<1>3. EachOf(kind, indices) = [k \in 1..Len(indices) |-> EachOf(kind, indices)[k]]
  BY <1>2
<1> QED
  BY <1>1, <1>2, <1>3, Built

LEMMA PlainEach ==
    ASSUME NEW kind, NEW indices, Sequential(indices), kind \notin Lossy \cup {Done}
    PROVE  Plain(EachOf(kind, indices))
<1> DEFINE es == EachOf(kind, indices)
<1>1. Sequential(es) /\ Len(es) = Len(indices)
  BY EachOfIs
<1>2. ASSUME NEW i \in 1..Len(indices)
      PROVE  es[i].kind \notin Lossy \cup {Done} /\ es[i] = Event(es[i].kind, es[i].data)
  <2>1. es[i] = Event(kind, Data(indices[i]))
    BY EachOfIs
  <2>2. es[i].kind = kind /\ es[i].data = Data(indices[i])
    BY <2>1 DEF Event
  <2> HIDE DEF es
  <2> QED
    BY <2>1, <2>2
<1> QED
  BY <1>1, <1>2 DEF Plain

-----------------------------------------------------------------------------
LEMMA LeastNumber ==
    ASSUME NEW T, T \subseteq Nat, T # {}
    PROVE  \E n \in T : \A m \in T : n <= m
<1>1. IsWellFoundedOn(OpToRel(<,Nat), Nat)
  BY NatLessThanWellFounded, Zenon
<1>2. PICK x \in T : \A y \in T : <<y, x>> \notin OpToRel(<,Nat)
  BY <1>1, WFMin, Zenon
<1>3. \A y \in T : ~(y < x)
  BY <1>2 DEF OpToRel
<1> QED
  BY <1>3

LEMMA NumbersFromZero ==
    ASSUME NEW P, 0 \in P, \A n \in Nat : n \in P => n + 1 \in P
    PROVE  Nat \subseteq P
<1> SUFFICES ASSUME Nat \ P # {} PROVE FALSE
  OBVIOUS
<1>1. PICK n \in Nat \ P : \A m \in Nat \ P : n <= m
  BY LeastNumber, Zenon
<1>2. n # 0 /\ n - 1 \in Nat
  BY <1>1
<1>3. n - 1 \in P
  BY <1>1, <1>2
<1> QED
  BY <1>1, <1>2, <1>3

(* Asked lists the bound calls of a batch, each once, in model order.      *)
Lists(f, statuses, k) ==
    f = [n \in 0..k |-> IF n = 0 THEN <<>>
                        ELSE IF statuses[n] = "ready" THEN Append(f[n - 1], n) ELSE f[n - 1]]

LEMMA SomethingLists ==
    ASSUME NEW statuses, NEW k \in Nat
    PROVE  \E f : Lists(f, statuses, k)
<1> DEFINE P == {n \in Nat : \E f : Lists(f, statuses, n)}
<1>1. 0 \in P
  <2>1. Lists([n \in 0..0 |-> <<>>], statuses, 0)
    BY DEF Lists
  <2> QED
    BY <2>1
<1>2. ASSUME NEW n \in Nat, n \in P PROVE n + 1 \in P
  <2>1. PICK f : Lists(f, statuses, n)
    BY <1>2
  <2> DEFINE more == IF statuses[n + 1] = "ready" THEN Append(f[n], n + 1) ELSE f[n]
             g == [i \in 0..(n + 1) |-> IF i = n + 1 THEN more ELSE f[i]]
  <2>2. ASSUME NEW i \in 0..(n + 1)
        PROVE  g[i] = IF i = 0 THEN <<>>
                      ELSE IF statuses[i] = "ready" THEN Append(g[i - 1], i) ELSE g[i - 1]
    <3>1. CASE i = 0
      BY <2>1, <3>1 DEF Lists
    <3>2. CASE i \in 1..n
      <4>1. g[i] = f[i] /\ g[i - 1] = f[i - 1] /\ i \in 0..n /\ i # 0
        BY <3>2
      <4> QED
        BY <2>1, <4>1 DEF Lists
    <3>3. CASE i = n + 1
      <4>1. g[i] = more /\ g[i - 1] = f[n] /\ i # 0
        BY <3>3
      <4> QED
        BY <3>3, <4>1
    <3> QED
      BY <3>1, <3>2, <3>3
  <2>3. g = [i \in 0..(n + 1) |-> g[i]]
    OBVIOUS
  <2> HIDE DEF g
  <2>4. g = [i \in 0..(n + 1) |-> IF i = 0 THEN <<>>
                                  ELSE IF statuses[i] = "ready" THEN Append(g[i - 1], i) ELSE g[i - 1]]
    BY <2>2, <2>3
  <2> QED
    BY <2>4 DEF Lists
<1>3. Nat \subseteq P
  <2> HIDE DEF P
  <2> QED
    BY <1>1, <1>2, NumbersFromZero
<1> QED
  BY <1>3

(* What the first n statuses make of the list. *)
Upto(s, statuses, n) ==
    /\ s \in Seq(1..n)
    /\ \A i \in 1..Len(s) : statuses[s[i]] = "ready"
    /\ \A i, j \in 1..Len(s) : i < j => s[i] < s[j]
    /\ \A m \in 1..n : statuses[m] = "ready" => \E i \in 1..Len(s) : s[i] = m

LEMMA UptoMore ==
    ASSUME NEW statuses, NEW n \in Nat, NEW s, Upto(s, statuses, n)
    PROVE  /\ statuses[n + 1] = "ready" => Upto(Append(s, n + 1), statuses, n + 1)
           /\ statuses[n + 1] # "ready" => Upto(s, statuses, n + 1)
<1>1. s \in Seq(1..n) /\ Len(s) \in Nat /\ \A i \in 1..Len(s) : s[i] \in 1..n
  BY DEF Upto
<1>2. s \in Seq(1..(n + 1))
  BY <1>1
<1>3. \A m \in 1..(n + 1) : m \in 1..n \/ m = n + 1
  OBVIOUS
<1>4. ASSUME statuses[n + 1] # "ready" PROVE Upto(s, statuses, n + 1)
  BY <1>2, <1>3, <1>4 DEF Upto
<1>5. ASSUME statuses[n + 1] = "ready" PROVE Upto(Append(s, n + 1), statuses, n + 1)
  <2> DEFINE t == Append(s, n + 1)
  <2>1. /\ t \in Seq(1..(n + 1)) /\ Len(t) = Len(s) + 1
        /\ \A i \in 1..Len(s) : t[i] = s[i]
        /\ t[Len(s) + 1] = n + 1
    <3>1. n + 1 \in 1..(n + 1)
      OBVIOUS
    <3> QED
      BY <1>2, <3>1, AppendProperties
  <2> HIDE DEF t
  <2>2. \A i \in 1..Len(t) : i \in 1..Len(s) \/ i = Len(s) + 1
    BY <1>1, <2>1
  <2>3. \A i \in 1..Len(t) : statuses[t[i]] = "ready"
    BY <1>5, <2>1, <2>2 DEF Upto
  <2>4. ASSUME NEW i \in 1..Len(t), NEW j \in 1..Len(t), i < j PROVE t[i] < t[j]
    <3>1. i \in 1..Len(s)
      BY <1>1, <2>1, <2>4
    <3>2. CASE j \in 1..Len(s)
      BY <2>1, <2>4, <3>1, <3>2 DEF Upto
    <3>3. CASE j = Len(s) + 1
      <4>1. t[i] \in 1..n /\ t[j] = n + 1
        BY <1>1, <2>1, <3>1, <3>3
      <4> QED
        BY <4>1
    <3> QED
      BY <2>2, <3>2, <3>3
  <2>5. ASSUME NEW m \in 1..(n + 1), statuses[m] = "ready" PROVE \E i \in 1..Len(t) : t[i] = m
    <3>1. CASE m \in 1..n
      <4>1. PICK i \in 1..Len(s) : s[i] = m
        BY <2>5, <3>1 DEF Upto
      <4>2. i \in 1..Len(t) /\ t[i] = m
        BY <1>1, <2>1, <4>1
      <4> QED
        BY <4>2
    <3>2. CASE m = n + 1
      <4>1. Len(s) + 1 \in 1..Len(t)
        BY <1>1, <2>1
      <4> QED
        BY <2>1, <3>2, <4>1
    <3> QED
      BY <1>3, <3>1, <3>2
  <2> QED
    BY <2>1, <2>3, <2>4, <2>5 DEF Upto, t
<1> QED
  BY <1>4, <1>5

LEMMA ListsAll ==
    ASSUME NEW statuses, NEW k \in Nat, NEW f, Lists(f, statuses, k)
    PROVE  Upto(f[k], statuses, k)
<1> DEFINE P == {n \in Nat : n <= k => Upto(f[n], statuses, n)}
<1>1. 0 \in P
  <2>1. f[0] = <<>>
    BY DEF Lists
  <2>2. <<>> \in Seq(1..0) /\ Len(<<>>) = 0
    OBVIOUS
  <2>3. 1..0 = {} /\ 1..Len(<<>>) = {}
    BY <2>2
  <2>4. Upto(<<>>, statuses, 0)
    BY <2>2, <2>3 DEF Upto
  <2> QED
    BY <2>1, <2>4
<1>2. ASSUME NEW n \in Nat, n \in P PROVE n + 1 \in P
  <2> SUFFICES ASSUME n + 1 <= k PROVE Upto(f[n + 1], statuses, n + 1)
    OBVIOUS
  <2>1. Upto(f[n], statuses, n)
    BY <1>2
  <2>2. n + 1 \in 0..k /\ n + 1 # 0 /\ (n + 1) - 1 = n
    OBVIOUS
  <2>3. f[n + 1] = IF statuses[n + 1] = "ready" THEN Append(f[n], n + 1) ELSE f[n]
    BY <2>2 DEF Lists
  <2> QED
    BY <2>1, <2>3, UptoMore
<1>3. Nat \subseteq P
  <2> HIDE DEF P
  <2> QED
    BY <1>1, <1>2, NumbersFromZero
<1>4. k \in P
  BY <1>3
<1> QED
  BY <1>4

LEMMA AskedIs ==
    ASSUME NEW M, NEW statuses \in Seq(M)
    PROVE  /\ Asked(statuses) \in Seq(1..Len(statuses)) /\ Sequential(Asked(statuses))
           /\ Len(Asked(statuses)) \in Nat
           /\ \A i \in 1..Len(Asked(statuses)) : Asked(statuses)[i] \in Bound(statuses)
           /\ Distinct(Asked(statuses))
           /\ \A m \in Bound(statuses) : \E i \in 1..Len(Asked(statuses)) : Asked(statuses)[i] = m
           /\ Bound(statuses) \subseteq 1..Len(statuses)
<1> DEFINE k == Len(statuses)
           list == CHOOSE g : g = [n \in 0..k |->
                                     IF n = 0 THEN <<>>
                                     ELSE IF statuses[n] = "ready" THEN Append(g[n - 1], n) ELSE g[n - 1]]
           s == Asked(statuses)
<1>1. s = list[k]
  BY DEF Asked
<1>2. k \in Nat /\ DOMAIN statuses = 1..k
  OBVIOUS
<1>3. PICK f : Lists(f, statuses, k)
  BY <1>2, SomethingLists
<1>4. Lists(list, statuses, k)
  BY <1>3 DEF Lists
<1> HIDE DEF list, s
<1>5. Upto(s, statuses, k)
  BY <1>1, <1>2, <1>4, ListsAll
<1>6. s \in Seq(1..k) /\ Len(s) \in Nat /\ \A i \in 1..Len(s) : s[i] \in 1..k
  BY <1>5 DEF Upto
<1>7. Distinct(s)
  <2> SUFFICES ASSUME NEW i \in 1..Len(s), NEW j \in 1..Len(s), s[i] = s[j] PROVE i = j
    BY DEF Distinct
  <2>1. s[i] \in Nat /\ s[j] \in Nat /\ i \in Nat /\ j \in Nat
    BY <1>6
  <2>2. ~(i < j) /\ ~(j < i)
    BY <1>5, <2>1 DEF Upto
  <2> QED
    BY <2>1, <2>2
<1>8. \A i \in 1..Len(s) : s[i] \in Bound(statuses)
  BY <1>2, <1>5, <1>6 DEF Upto, Bound
<1>9. \A m \in Bound(statuses) : \E i \in 1..Len(s) : s[i] = m
  BY <1>2, <1>5 DEF Upto, Bound
<1>10. Bound(statuses) \subseteq 1..k
  BY <1>2 DEF Bound
<1> QED
  BY <1>6, <1>7, <1>8, <1>9, <1>10 DEF s, Sequential

-----------------------------------------------------------------------------
(* The account of a queue: l of its events are lossy, and its events are   *)
(* numbered without a gap up to n, which is the last number given out.     *)
LossyIn(q) == {i \in DOMAIN q : q[i].kind \in Lossy}

Accounted(q, n, l) ==
    /\ Sequential(q) /\ n \in Nat /\ l = Cardinality(LossyIn(q))
    /\ \A i \in 1..Len(q) : q[i].kind # Done /\ q[i].seq = n - Len(q) + i

Over(q) == Append(q, Event(Done, Nothing)) \* the queue of an invocation that is over

LEMMA LossyFinite ==
    ASSUME NEW q, Sequential(q)
    PROVE  /\ IsFiniteSet(LossyIn(q)) /\ Cardinality(LossyIn(q)) \in Nat
           /\ LossyIn(q) = {i \in 1..Len(q) : q[i].kind \in Lossy}
<1>1. DOMAIN q = 1..Len(q) /\ Len(q) \in Nat
  BY SequentialIs
<1>2. LossyIn(q) \subseteq 1..Len(q) /\ IsFiniteSet(1..Len(q))
  BY <1>1, FS_Interval DEF LossyIn
<1>3. IsFiniteSet(LossyIn(q))
  BY <1>2, FS_Subset
<1> QED
  BY <1>1, <1>3, FS_CardinalityType DEF LossyIn

LEMMA AccountedNone ==
    ASSUME NEW n \in Nat
    PROVE  Accounted(<<>>, n, 0)
<1>0. Sequential(<<>>) /\ Len(<<>>) = 0
  BY Short
<1>1. Sequential(<<>>) /\ Len(<<>>) = 0 /\ 1..0 = {}
  BY <1>0
<1>2. LossyIn(<<>>) = {}
  <2>1. LossyIn(<<>>) = {i \in 1..0 : <<>>[i].kind \in Lossy}
    BY <1>1, LossyFinite, Zenon
  <2> QED
    BY <1>1, <2>1
<1>3. Cardinality({}) = 0
  BY FS_EmptySet
<1> QED
  BY <1>1, <1>2, <1>3 DEF Accounted

(* Sending events that are not lossy. *)
LEMMA AccountedMore ==
    ASSUME NEW q, NEW n, NEW l, Accounted(q, n, l), NEW events, Plain(events)
    PROVE  Accounted(q \o Sent(events, n), n + Len(events), l)
<1> DEFINE s == Sent(events, n)
           r == q \o s
<1>1. Sequential(q) /\ n \in Nat /\ Sequential(events) /\ l = Cardinality(LossyIn(q))
  BY DEF Accounted, Plain
<1>2. Len(q) \in Nat /\ Len(events) \in Nat
  BY <1>1, SequentialIs
<1>3. Sequential(s) /\ Len(s) = Len(events)
  BY <1>1, SentIs
<1>4. \A i \in 1..Len(events) : s[i].seq = n + i /\ s[i].kind \notin Lossy \cup {Done}
  <2> SUFFICES ASSUME NEW i \in 1..Len(events) PROVE s[i].seq = n + i /\ s[i].kind \notin Lossy \cup {Done}
    OBVIOUS
  <2>1. events[i] = Event(events[i].kind, events[i].data) /\ events[i].kind \notin Lossy \cup {Done}
    BY DEF Plain
  <2>2. s[i] = [seq |-> n + i, kind |-> events[i].kind, data |-> events[i].data]
    BY <1>1, <2>1, SentIs
  <2> HIDE DEF s
  <2> QED
    BY <2>1, <2>2
<1> HIDE DEF s
<1>5. /\ Sequential(r) /\ Len(r) = Len(q) + Len(events)
      /\ \A i \in 1..Len(q) : r[i] = q[i]
      /\ \A i \in 1..Len(events) : r[Len(q) + i] = s[i]
  BY <1>1, <1>3, Joined
<1> HIDE DEF r
<1>6. \A i \in 1..Len(r) : i \in 1..Len(q) \/ (i - Len(q) \in 1..Len(events) /\ Len(q) + (i - Len(q)) = i)
  BY <1>2, <1>5
<1>7. \A i \in 1..Len(q) : i \in 1..Len(r)
  BY <1>2, <1>5
<1>8. \A i \in 1..Len(r) : r[i].kind \in Lossy => i \in 1..Len(q) /\ q[i].kind \in Lossy
  BY <1>4, <1>5, <1>6
<1>9. LossyIn(r) = LossyIn(q)
  <2>1. LossyIn(r) = {i \in 1..Len(r) : r[i].kind \in Lossy}
    BY <1>5, LossyFinite
  <2>2. LossyIn(q) = {i \in 1..Len(q) : q[i].kind \in Lossy}
    BY <1>1, LossyFinite
  <2> QED
    BY <1>5, <1>7, <1>8, <2>1, <2>2
<1>10. ASSUME NEW i \in 1..Len(r) PROVE r[i].kind # Done /\ r[i].seq = (n + Len(events)) - Len(r) + i
  <2>1. CASE i \in 1..Len(q)
    <3>1. q[i].kind # Done /\ q[i].seq = n - Len(q) + i /\ r[i] = q[i]
      BY <1>5, <2>1 DEF Accounted
    <3>2. n - Len(q) + i = (n + Len(events)) - (Len(q) + Len(events)) + i
      BY <1>1, <1>2
    <3> QED
      BY <1>5, <3>1, <3>2
  <2>2. CASE i - Len(q) \in 1..Len(events) /\ Len(q) + (i - Len(q)) = i
    <3> DEFINE j == i - Len(q)
    <3>1. r[i] = s[j] /\ j \in 1..Len(events) /\ Len(q) + j = i
      BY <1>5, <2>2
    <3>2. s[j].seq = n + j /\ s[j].kind # Done
      BY <1>4, <3>1
    <3> HIDE DEF j
    <3>3. n + j = (n + Len(events)) - (Len(q) + Len(events)) + i
      BY <1>1, <1>2, <3>1
    <3> QED
      BY <1>5, <3>1, <3>2, <3>3
  <2> QED
    BY <1>6, <2>1, <2>2
<1>11. n + Len(events) \in Nat
  BY <1>1, <1>2
<1> QED
  BY <1>1, <1>5, <1>9, <1>10, <1>11 DEF Accounted, r, s

(* Sending a lossy event. *)
LEMMA AccountedLossy ==
    ASSUME NEW q, NEW n, NEW l, Accounted(q, n, l), NEW kind \in Lossy, NEW data
    PROVE  Accounted(q \o Sent(<<Event(kind, data)>>, n), n + 1, l + 1)
<1> DEFINE e == Event(kind, data)
           s == Sent(<<e>>, n)
           r == q \o s
<1>1. Sequential(q) /\ n \in Nat /\ l = Cardinality(LossyIn(q))
  BY DEF Accounted
<1>2. Len(q) \in Nat
  BY <1>1, SequentialIs
<1>3. Sequential(<<e>>) /\ Len(<<e>>) = 1 /\ <<e>>[1] = e
  BY Short
<1>4. Sequential(s) /\ Len(s) = 1
  BY <1>3, SentIs
<1>5. s[1].seq = n + 1 /\ s[1].kind = kind
  <2>1. e.kind = kind /\ e.data = data
    BY DEF Event
  <2>2. <<e>>[1] = Event(<<e>>[1].kind, <<e>>[1].data) /\ <<e>>[1].kind = kind
    BY <1>3, <2>1
  <2> HIDE DEF e
  <2>3. 1 \in 1..Len(<<e>>)
    BY <1>3
  <2>4. s[1] = [seq |-> n + 1, kind |-> <<e>>[1].kind, data |-> <<e>>[1].data]
    BY <1>3, <2>2, <2>3, SentIs
  <2> HIDE DEF s
  <2> QED
    BY <2>2, <2>4
<1> HIDE DEF e, s
<1>6. /\ Sequential(r) /\ Len(r) = Len(q) + 1
      /\ \A i \in 1..Len(q) : r[i] = q[i]
      /\ r[Len(q) + 1] = s[1]
  <2>1. 1 \in 1..Len(s)
    BY <1>4
  <2>0. Sequential(q) /\ Sequential(s)
    BY <1>1, <1>4
  <2> HIDE DEF r
  <2>2. /\ Sequential(q \o s) /\ Len(q \o s) = Len(q) + Len(s)
        /\ \A i \in 1..Len(q) : (q \o s)[i] = q[i]
        /\ \A i \in 1..Len(s) : (q \o s)[Len(q) + i] = s[i]
    BY <2>0, Joined
  <2> QED
    BY <1>4, <2>1, <2>2 DEF r
<1> HIDE DEF r
<1>7. 1..Len(r) = (1..Len(q)) \cup {Len(q) + 1} /\ Len(q) + 1 \notin 1..Len(q)
  BY <1>2, <1>6
<1>8. LossyIn(r) = LossyIn(q) \cup {Len(q) + 1} /\ Len(q) + 1 \notin LossyIn(q)
  <2>1. LossyIn(r) = {i \in 1..Len(r) : r[i].kind \in Lossy}
    BY <1>6, LossyFinite
  <2>2. LossyIn(q) = {i \in 1..Len(q) : q[i].kind \in Lossy}
    BY <1>1, LossyFinite
  <2> QED
    BY <1>5, <1>6, <1>7, <2>1, <2>2
<1>9. Cardinality(LossyIn(r)) = l + 1
  BY <1>1, <1>8, LossyFinite, FS_AddElement
<1>10. ASSUME NEW i \in 1..Len(r) PROVE r[i].kind # Done /\ r[i].seq = (n + 1) - Len(r) + i
  <2>1. CASE i \in 1..Len(q)
    <3>1. q[i].kind # Done /\ q[i].seq = n - Len(q) + i /\ r[i] = q[i]
      BY <1>6, <2>1 DEF Accounted
    <3>2. n - Len(q) + i = (n + 1) - (Len(q) + 1) + i
      BY <1>1, <1>2
    <3> QED
      BY <1>6, <3>1, <3>2
  <2>2. CASE i = Len(q) + 1
    <3>1. r[i].seq = n + 1 /\ r[i].kind = kind
      BY <1>5, <1>6, <2>2
    <3>2. n + 1 = (n + 1) - (Len(q) + 1) + i
      BY <1>1, <1>2, <2>2
    <3> QED
      BY <1>6, <3>1, <3>2 DEF Done, Lossy
  <2> QED
    BY <1>7, <2>1, <2>2
<1>11. n + 1 \in Nat
  BY <1>1
<1> QED
  BY <1>6, <1>9, <1>10, <1>11 DEF Accounted, r, s, e

(* Receiving the oldest event. *)
LEMMA AccountedLess ==
    ASSUME NEW q, NEW n, NEW l, Accounted(q, n, l), q # <<>>
    PROVE  /\ l \in Nat /\ Head(q).kind # Done
           /\ Head(q).kind \in Lossy => l >= 1
           /\ Accounted(Tail(q), n, IF Head(q).kind \in Lossy THEN l - 1 ELSE l)
<1> DEFINE t == Tail(q)
           rest == LossyIn(q) \ {1}
           left == IF Head(q).kind \in Lossy THEN l - 1 ELSE l
<1>1. Sequential(q) /\ n \in Nat /\ l = Cardinality(LossyIn(q))
  BY DEF Accounted
<1>2. /\ Head(q) = q[1] /\ Len(q) \in Nat \ {0}
      /\ Sequential(t) /\ Len(t) = Len(q) - 1
      /\ \A i \in 1..Len(q) - 1 : t[i] = q[i + 1]
  BY <1>1, Behead
<1> HIDE DEF t
<1>3. /\ IsFiniteSet(LossyIn(q)) /\ l \in Nat
      /\ LossyIn(q) = {i \in 1..Len(q) : q[i].kind \in Lossy}
  BY <1>1, LossyFinite
<1>4. LossyIn(t) = {i \in 1..Len(q) - 1 : q[i + 1].kind \in Lossy}
  BY <1>2, LossyFinite
<1>5. Cardinality(rest) = left /\ (Head(q).kind \in Lossy => l >= 1)
  <2>1. CASE Head(q).kind \in Lossy
    <3>1. 1 \in LossyIn(q)
      BY <1>2, <1>3, <2>1
    <3>2. Cardinality(rest) = l - 1
      BY <1>1, <1>3, <3>1, FS_RemoveElement
    <3>3. Cardinality(rest) \in Nat
      BY <1>3, FS_Difference, FS_Singleton, FS_CardinalityType
    <3> QED
      BY <1>3, <2>1, <3>2, <3>3
  <2>2. CASE Head(q).kind \notin Lossy
    <3>1. 1 \notin LossyIn(q)
      BY <1>2, <1>3, <2>2
    <3>2. rest = LossyIn(q)
      BY <3>1
    <3> QED
      BY <1>1, <2>2, <3>2
  <2> QED
    BY <2>1, <2>2
<1>6. Cardinality(LossyIn(t)) = Cardinality(rest)
  <2> DEFINE f == [i \in LossyIn(t) |-> i + 1]
  <2>1. \A i \in LossyIn(t) : i \in Nat /\ i + 1 \in rest
    BY <1>2, <1>3, <1>4
  <2>2. f \in [LossyIn(t) -> rest]
    BY <2>1
  <2>3. \A i, j \in LossyIn(t) : f[i] = f[j] => i = j
    BY <2>1
  <2>4. \A j \in rest : \E i \in LossyIn(t) : f[i] = j
    <3> SUFFICES ASSUME NEW j \in rest PROVE \E i \in LossyIn(t) : f[i] = j
      OBVIOUS
    <3>1. j \in 1..Len(q) /\ j # 1 /\ q[j].kind \in Lossy
      BY <1>3
    <3>2. j - 1 \in 1..Len(q) - 1 /\ (j - 1) + 1 = j
      BY <1>2, <3>1
    <3>3. j - 1 \in LossyIn(t)
      BY <1>4, <3>1, <3>2
    <3> QED
      BY <3>2, <3>3
  <2>5. f \in Bijection(LossyIn(t), rest)
    BY <2>2, <2>3, <2>4, Fun_IsBij
  <2>6. ExistsBijection(LossyIn(t), rest)
    BY <2>5 DEF ExistsBijection
  <2>7. IsFiniteSet(LossyIn(t))
    BY <1>2, LossyFinite
  <2> QED
    BY <2>6, <2>7, FS_Bijection
<1>7. ASSUME NEW i \in 1..Len(t) PROVE t[i].kind # Done /\ t[i].seq = n - Len(t) + i
  <2>1. i + 1 \in 1..Len(q) /\ t[i] = q[i + 1]
    BY <1>2
  <2>2. t[i].kind # Done /\ t[i].seq = n - Len(q) + (i + 1)
    BY <2>1 DEF Accounted
  <2>3. n - Len(q) + (i + 1) = n - (Len(q) - 1) + i
    BY <1>1, <1>2
  <2> QED
    BY <1>2, <2>2, <2>3
<1>8. Head(q).kind # Done
  <2>1. 1 \in 1..Len(q)
    BY <1>2
  <2> QED
    BY <1>2, <2>1 DEF Accounted
<1>9. Accounted(t, n, left)
  BY <1>1, <1>2, <1>5, <1>6, <1>7 DEF Accounted
<1> QED
  BY <1>3, <1>5, <1>8, <1>9 DEF t

LEMMA AccountedShows ==
    ASSUME NEW q, Accounted(q, sequence, lossy), queue \in {q, Over(q)}, lossy <= MaxBuffered
    PROVE  LossyAccounted
<1> DEFINE events == {i \in DOMAIN queue : queue[i].kind # Done}
           held == {i \in DOMAIN queue : queue[i].kind \in Lossy}
<1>1. /\ Sequential(q) /\ sequence \in Nat /\ lossy = Cardinality(LossyIn(q))
      /\ \A i \in 1..Len(q) : q[i].kind # Done /\ q[i].seq = sequence - Len(q) + i
  BY DEF Accounted
<1>2. Len(q) \in Nat /\ DOMAIN q = 1..Len(q)
  BY <1>1, SequentialIs
<1>3. events = 1..Len(q) /\ held = LossyIn(q) /\ \A i \in 1..Len(q) : queue[i] = q[i]
  <2>1. CASE queue = q
    BY <1>1, <1>2, <2>1 DEF LossyIn
  <2>2. CASE queue = Over(q)
    <3>1. /\ Sequential(queue) /\ Len(queue) = Len(q) + 1
          /\ \A i \in 1..Len(q) : queue[i] = q[i]
          /\ queue[Len(q) + 1] = Event(Done, Nothing)
      BY <1>1, <2>2, Added DEF Over
    <3>2. DOMAIN queue = (1..Len(q)) \cup {Len(q) + 1}
      <4>1. DOMAIN queue = 1..Len(q) + 1
        BY <3>1, SequentialIs
      <4> QED
        BY <1>2, <4>1
    <3>3. queue[Len(q) + 1].kind = Done
      BY <3>1 DEF Event
    <3>4. Done \notin Lossy
      BY DEF Done, Lossy
    <3>5. \A i \in DOMAIN queue : i \in 1..Len(q) \/ i = Len(q) + 1
      BY <3>2
    <3>6. \A i \in 1..Len(q) : i \in DOMAIN queue
      BY <3>2
    <3>7. events = 1..Len(q)
      BY <1>1, <3>1, <3>3, <3>5, <3>6
    <3>8. held = {i \in 1..Len(q) : q[i].kind \in Lossy}
      BY <3>1, <3>3, <3>4, <3>5, <3>6
    <3> QED
      BY <1>2, <3>1, <3>7, <3>8 DEF LossyIn
  <2> QED
    BY <2>1, <2>2
<1>4. Cardinality(events) = Len(q)
  <2>1. 1 \in Int /\ Len(q) \in Int
    BY <1>2
  <2>2. Cardinality(1..Len(q)) = IF 1 > Len(q) THEN 0 ELSE Len(q) - 1 + 1
    BY <2>1, FS_Interval
  <2>3. Cardinality(1..Len(q)) = Len(q)
    BY <1>2, <2>2
  <2> QED
    BY <1>3, <2>3, Zenon
<1>5. \A i \in events : queue[i].seq = sequence - Cardinality(events) + i
  BY <1>1, <1>3, <1>4
<1>6. lossy = Cardinality(held)
  BY <1>1, <1>3
<1> HIDE DEF events, held
<1>7. lossy = Cardinality(held) /\ lossy <= MaxBuffered
      /\ \A i \in events : queue[i].seq = sequence - Cardinality(events) + i
  BY <1>5, <1>6
<1> QED
  BY <1>7 DEF LossyAccounted, events, held

(* What a step other than the engine's last does to the queue.             *)
Speaks ==
    \/ UNCHANGED stream
    \/ \E events : /\ Plain(events) /\ queue' = queue \o Sent(events, sequence)
                   /\ sequence' = sequence + Len(events) /\ lossy' = lossy

LEMMA EmitSpeaks ==
    ASSUME NEW events, Plain(events), Emit(events)
    PROVE  Speaks
BY DEF Emit, Speaks, Numbered, Sent

LEMMA EmitOne ==
    ASSUME NEW kind, NEW data, kind \notin Lossy \cup {Done}, Emit(<<Event(kind, data)>>)
    PROVE  Speaks
BY PlainOne, EmitSpeaks

LEMMA FirstAsked ==
    ASSUME NEW M, NEW statuses \in Seq(M), NEW k \in 0..Len(Asked(statuses))
    PROVE  /\ Sequential(SubSeq(Asked(statuses), 1, k)) /\ Len(SubSeq(Asked(statuses), 1, k)) = k
           /\ \A i \in 1..k : SubSeq(Asked(statuses), 1, k)[i] = Asked(statuses)[i]
<1> DEFINE s == Asked(statuses)
<1>1. s \in Seq(1..Len(statuses)) /\ Len(s) \in Nat
  BY AskedIs
<1> HIDE DEF s
<1>2. SubSeq(s, 1, k) \in Seq(1..Len(statuses)) /\ Len(SubSeq(s, 1, k)) = k
      /\ \A i \in 1..k : SubSeq(s, 1, k)[i] = s[i]
  <2>1. k \in Nat /\ k <= Len(s)
    BY <1>1 DEF s
  <2> QED
    BY <1>1, <2>1
<1> QED
  BY <1>2 DEF Sequential, s

LEMMA EngineSpeaks ==
    ASSUME EngineInv, EngineStep, ~DriveEnds
    PROVE  Speaks
<1> USE DEF Lossy, Done
<1>0. tools \in Seq(Status)
  BY DEF EngineInv
<1>1. CASE Initialize
  <2>1. Emit(<<Event("invocation_started", [request |-> request, from |-> last, view |-> view])>>)
    BY <1>1 DEF Initialize
  <2> QED
    BY <2>1, EmitOne
<1>2. CASE CommitLands
  <2>1. PICK data, id : Emit(<<Event("checkpoint_committed", data)>>
                             \o (IF change.after.kind \in TerminalStates THEN <<Stopped("terminal", id)>>
                                 ELSE IF change.after.kind = "suspended" THEN <<Stopped("suspended", id)>>
                                 ELSE <<>>))
    BY <1>2 DEF CommitLands
  <2> DEFINE ends == IF change.after.kind \in TerminalStates THEN <<Stopped("terminal", id)>>
                     ELSE IF change.after.kind = "suspended" THEN <<Stopped("suspended", id)>> ELSE <<>>
  <2>2. Plain(<<Stopped("terminal", id)>>) /\ Plain(<<Stopped("suspended", id)>>)
    BY PlainOne DEF Stopped
  <2>3. Plain(ends)
    BY <2>2, PlainNone
  <2> HIDE DEF ends
  <2>4. Plain(<<Event("checkpoint_committed", data)>>)
    BY PlainOne
  <2>5. Plain(<<Event("checkpoint_committed", data)>> \o ends)
    BY <2>3, <2>4, PlainJoined
  <2>6. Emit(<<Event("checkpoint_committed", data)>> \o ends)
    BY <2>1 DEF ends
  <2> QED
    BY <2>5, <2>6, EmitSpeaks
<1>3. CASE CommitFails
  BY <1>3, EmitOne DEF CommitFails, Stopped
<1>4. CASE Plan
  <2>1. UNCHANGED stream \/ \E d : Emit(<<Event("model_started", d)>>)
    BY <1>4 DEF Plan
  <2> QED
    BY <2>1, EmitOne DEF Speaks
<1>5. CASE ModelAnswers
  <2>1. \E d : Emit(<<Event("model_finished", d)>>)
    BY <1>5 DEF ModelAnswers, FinishModel
  <2> QED
    BY <2>1, EmitOne
<1>6. CASE SelectBatch
  <2>1. PICK k \in 1..Len(view.pending), parallel \in BOOLEAN :
            \E statuses \in [1..k -> {"ready", "failure"}] : \E d, asks :
                Emit(<<Event("tool_batch_selected", d)>>
                     \o IF asks THEN EachOf("approval_requested", Asked(statuses)) ELSE <<>>)
    BY <1>6, Zenon DEF SelectBatch
  <2>2. PICK statuses \in [1..k -> {"ready", "failure"}] : \E d, asks :
                Emit(<<Event("tool_batch_selected", d)>>
                     \o IF asks THEN EachOf("approval_requested", Asked(statuses)) ELSE <<>>)
    BY <2>1
  <2>3. PICK d, asks : Emit(<<Event("tool_batch_selected", d)>>
                            \o IF asks THEN EachOf("approval_requested", Asked(statuses)) ELSE <<>>)
    BY <2>2
  <2> DEFINE requests == IF asks THEN EachOf("approval_requested", Asked(statuses)) ELSE <<>>
  <2>4. statuses \in Seq({"ready", "failure"})
    <3>1. Len(view.pending) \in Nat
      BY DEF EngineInv, GoodView, ViewSet
    <3>2. k \in Nat
      BY <3>1
    <3> QED
      BY <3>2
  <2>5. Plain(EachOf("approval_requested", Asked(statuses)))
    BY <2>4, AskedIs, PlainEach
  <2>6. Plain(requests)
    BY <2>5, PlainNone
  <2> HIDE DEF requests
  <2>7. Plain(<<Event("tool_batch_selected", d)>> \o requests)
    BY <2>6, PlainOne, PlainJoined
  <2>8. Emit(<<Event("tool_batch_selected", d)>> \o requests)
    BY <2>3 DEF requests
  <2> QED
    BY <2>7, <2>8, EmitSpeaks
<1>7. CASE Approves
  <2>1. Emit(EachOf("approval_decided", Asked(tools)))
    BY <1>7 DEF Approves
  <2>2. Plain(EachOf("approval_decided", Asked(tools)))
    BY <1>0, AskedIs, PlainEach
  <2> QED
    BY <2>1, <2>2, EmitSpeaks
<1>8. CASE ApprovalFails
  <2>1. CASE UNCHANGED stream
    BY <2>1 DEF Speaks
  <2>2. CASE \E k \in 0..Len(Asked(tools)) - 1 : Emit(EachOf("approval_decided", SubSeq(Asked(tools), 1, k)))
    <3>1. PICK k \in 0..Len(Asked(tools)) - 1 : Emit(EachOf("approval_decided", SubSeq(Asked(tools), 1, k)))
      BY <2>2
    <3>2. k \in 0..Len(Asked(tools))
      BY <1>0, AskedIs
    <3>3. Plain(EachOf("approval_decided", SubSeq(Asked(tools), 1, k)))
      BY <1>0, <3>2, FirstAsked, PlainEach
    <3> QED
      BY <3>1, <3>3, EmitSpeaks
  <2> QED
    BY <1>8, <2>1, <2>2 DEF ApprovalFails
<1>9. CASE ToolsStart
  <2>1. PICK starting : /\ starting = IF batch.parallel THEN Asked(tools) ELSE <<Head(Asked(tools))>>
                        /\ Emit(EachOf("tool_started", starting))
    BY <1>9 DEF ToolsStart
  <2>2. Sequential(starting)
    BY <1>0, <2>1, AskedIs, Short
  <2>3. Plain(EachOf("tool_started", starting))
    BY <2>2, PlainEach
  <2> QED
    BY <2>1, <2>3, EmitSpeaks
<1>10. CASE \E i \in DOMAIN tools : ToolFinishes(i)
  <2>1. \E d : Emit(<<Event("tool_finished", d)>>)
    BY <1>10 DEF ToolFinishes
  <2> QED
    BY <2>1, EmitOne
<1>11. CASE BatchTakesControl
  <2>1. UNCHANGED stream \/ \E d : Emit(<<Event("tool_cancel_requested", d)>>)
    BY <1>11 DEF BatchTakesControl
  <2> QED
    BY <2>1, EmitOne DEF Speaks
<1>12. CASE UNCHANGED stream
  BY <1>12 DEF Speaks
<1> QED
  BY <1>1, <1>2, <1>3, <1>4, <1>5, <1>6, <1>7, <1>8, <1>9, <1>10, <1>11, <1>12
  DEF EngineStep, AttachInbox, FillsInbox, CommitMeetsDeadline, CatalogOpens, EffectFails, EffectTakesControl,
      GivesUp, BoundaryCommits, SelectFails, BatchDone, BatchMeetsDeadline, Detach, DetachInbox

LEMMA EngineRuns ==
    ASSUME EngineInv, EngineStep, ~DriveEnds
    PROVE  pc # "done" /\ pc' # "done"
<1>1. CASE CommitLands
  BY <1>1 DEF CommitLands, At, Continues
<1>2. CASE SelectBatch
  BY <1>2, Zenon DEF SelectBatch, Quiet, AtLoop
<1>3. CASE ModelAnswers
  BY <1>3 DEF ModelAnswers, At, FinishModel, Commit
<1>4. CASE Approves \/ ApprovalFails
  BY <1>4 DEF Approves, ApprovalFails, At, Commit
<1>5. CASE ToolsStart \/ (\E i \in DOMAIN tools : ToolFinishes(i)) \/ BatchTakesControl
  BY <1>5 DEF ToolsStart, ToolFinishes, BatchTakesControl, At
<1>6. CASE BatchDone \/ BatchMeetsDeadline
  BY <1>6 DEF BatchDone, BatchMeetsDeadline, At, Commit
<1>7. CASE BoundaryCommits \/ Plan \/ SelectFails
  BY <1>7 DEF BoundaryCommits, Plan, SelectFails, Quiet, AtLoop, Commit
<1>8. CASE EffectFails \/ EffectTakesControl
  BY <1>8 DEF EffectFails, EffectTakesControl, At, GivesUp, Commit, engine
<1>9. CASE AttachInbox \/ FillsInbox \/ Detach \/ DetachInbox
  BY <1>9 DEF AttachInbox, FillsInbox, Detach, DetachInbox, engine
<1>10. CASE Initialize
  <2>1. pc = "attached" /\ request \in {"start", "continue", "resume"}
    BY <1>10 DEF Initialize, EngineInv, Requested
  <2>2. pc' \in {"commit", "catalog"}
    BY <1>10, <2>1 DEF Initialize, Commit
  <2> QED
    BY <2>1, <2>2
<1>11. CASE CommitFails \/ CommitMeetsDeadline \/ CatalogOpens
  BY <1>11 DEF CommitFails, CommitMeetsDeadline, CatalogOpens, At
<1> QED
  BY <1>1, <1>2, <1>3, <1>4, <1>5, <1>6, <1>7, <1>8, <1>9, <1>10, <1>11 DEF EngineStep

QueueInv ==
    /\ lossy <= MaxBuffered
    /\ pc # "done" => Accounted(queue, sequence, lossy)
    /\ pc = "done" => \E q : Accounted(q, sequence, lossy) /\ queue \in {q, Over(q)}

LEMMA EmitsLossy ==
    ASSUME Accounted(queue, sequence, lossy), lossy <= MaxBuffered, NEW kind \in Lossy, NEW data,
           EmitLossy(kind, data)
    PROVE  Accounted(queue', sequence', lossy') /\ lossy' <= MaxBuffered
<1>1. CASE UNCHANGED stream
  BY <1>1 DEF stream
<1>2. CASE /\ ~(lossy >= MaxBuffered) /\ queue' = queue \o Numbered(<<Event(kind, data)>>)
           /\ sequence' = sequence + 1 /\ lossy' = lossy + 1
  <2>1. Numbered(<<Event(kind, data)>>) = Sent(<<Event(kind, data)>>, sequence)
    BY DEF Numbered, Sent
  <2>2. Accounted(queue', sequence', lossy')
    BY <1>2, <2>1, AccountedLossy
  <2>3. IsFiniteSet(LossyIn(queue)) /\ lossy \in Nat
    BY LossyFinite DEF Accounted
  <2> QED
    BY <1>2, <2>2, <2>3, InvocationAssumption
<1> QED
  BY <1>1, <1>2 DEF EmitLossy

LEMMA SpeakingAccounts ==
    ASSUME Accounted(queue, sequence, lossy), Speaks
    PROVE  Accounted(queue', sequence', lossy') /\ lossy' = lossy
<1>1. CASE UNCHANGED stream
  BY <1>1 DEF stream
<1>2. CASE ~UNCHANGED stream
  <2>1. PICK events : /\ Plain(events) /\ queue' = queue \o Sent(events, sequence)
                      /\ sequence' = sequence + Len(events) /\ lossy' = lossy
    BY <1>2 DEF Speaks
  <2> QED
    BY <2>1, AccountedMore
<1> QED
  BY <1>1, <1>2

LEMMA TailOver ==
    ASSUME NEW q, Sequential(q)
    PROVE  /\ Over(q) # <<>>
           /\ q # <<>> => Head(Over(q)) = Head(q) /\ Tail(Over(q)) = Over(Tail(q))
           /\ q = <<>> => Head(Over(q)).kind = Done /\ Tail(Over(q)) = <<>>
<1>1. PICK M : q \in Seq(M)
  BY DEF Sequential
<1> DEFINE x == Event(Done, Nothing)
           N == M \cup {x}
<1>2. q \in Seq(N) /\ x \in N
  BY <1>1
<1>3. x.kind = Done
  BY DEF Event
<1> HIDE DEF x, N
<1>4. Append(q, x) # <<>>
  <2>1. Sequential(Append(q, x)) /\ Len(Append(q, x)) = Len(q) + 1 /\ Len(q) \in Nat
    BY Added, SequentialIs
  <2> QED
    BY <2>1, SequentialIs
<1>5. q # <<>> => Head(Append(q, x)) = Head(q) /\ Tail(Append(q, x)) = Append(Tail(q), x)
  BY <1>2
<1>6. q = <<>> => Head(Append(q, x)) = x /\ Tail(Append(q, x)) = <<>>
  BY <1>2
<1> QED
  BY <1>3, <1>4, <1>5, <1>6 DEF Over, x

LEMMA ReceiptAccounts ==
    ASSUME QueueInv, Receive
    PROVE  QueueInv'
<1>1. PICK q : Accounted(q, sequence, lossy) /\ queue \in {q, Over(q)} /\ (pc # "done" => queue = q)
  BY DEF QueueInv
<1>2. /\ queue # <<>> /\ queue' = Tail(queue) /\ lossy' = ReturnsAllowance(Head(queue).kind)
      /\ sequence' = sequence /\ pc' = pc
  BY DEF Receive, engine
<1>3. Sequential(q)
  BY <1>1 DEF Accounted
<1>4. lossy <= MaxBuffered /\ MaxBuffered \in Nat
  BY InvocationAssumption DEF QueueInv
<1>5. CASE q # <<>>
  <2>1. /\ lossy \in Nat /\ Head(q).kind # Done /\ (Head(q).kind \in Lossy => lossy >= 1)
        /\ Accounted(Tail(q), sequence, IF Head(q).kind \in Lossy THEN lossy - 1 ELSE lossy)
    BY <1>1, <1>5, AccountedLess
  <2>2. Head(queue) = Head(q) /\ Tail(queue) \in {Tail(q), Over(Tail(q))} /\ (pc # "done" => Tail(queue) = Tail(q))
    BY <1>1, <1>3, <1>5, TailOver
  <2>3. lossy' = (IF Head(q).kind \in Lossy THEN lossy - 1 ELSE lossy)
    BY <1>2, <2>2 DEF ReturnsAllowance
  <2>4. lossy' <= MaxBuffered
    BY <1>4, <2>1, <2>3
  <2>5. Accounted(Tail(q), sequence', lossy') /\ queue' \in {Tail(q), Over(Tail(q))}
        /\ (pc' # "done" => queue' = Tail(q))
    BY <1>2, <2>1, <2>2, <2>3
  <2> QED
    BY <2>4, <2>5 DEF QueueInv
<1>6. CASE q = <<>>
  <2>1. queue = Over(q) /\ pc = "done"
    BY <1>1, <1>2, <1>6
  <2>2. Head(queue).kind = Done /\ Tail(queue) = <<>>
    BY <1>3, <1>6, <2>1, TailOver
  <2>3. lossy' = lossy
    BY <1>2, <2>2 DEF ReturnsAllowance, Done, Lossy
  <2>4. Accounted(<<>>, sequence', lossy') /\ queue' = <<>>
    BY <1>1, <1>2, <1>6, <2>2, <2>3
  <2> QED
    BY <1>2, <1>4, <2>1, <2>3, <2>4 DEF QueueInv
<1> QED
  BY <1>5, <1>6

LEMMA QueueStep ==
    ASSUME EngineInv, QueueInv, [Next]_vars
    PROVE  QueueInv'
<1>1. CASE EngineStep /\ ~DriveEnds
  <2>1. pc # "done" /\ pc' # "done"
    BY <1>1, EngineRuns
  <2>2. Speaks
    BY <1>1, EngineSpeaks
  <2>3. Accounted(queue', sequence', lossy') /\ lossy' = lossy
    BY <2>1, <2>2, SpeakingAccounts DEF QueueInv
  <2> QED
    BY <2>1, <2>3 DEF QueueInv
<1>2. CASE DriveEnds
  <2>1. Accounted(queue, sequence, lossy)
    BY <1>2 DEF DriveEnds, QueueInv
  <2>2. pc' = "done" /\ sequence' = sequence /\ lossy' = lossy /\ queue' \in {queue, Over(queue)}
    BY <1>2 DEF DriveEnds, PutDone, Over, stream
  <2> QED
    BY <2>1, <2>2 DEF QueueInv
<1>3. CASE Cancelled
  <2>1. pc # "done" /\ pc' # "done"
    BY <1>3 DEF Cancelled, Waits
  <2>2. Speaks
    BY <1>3, EmitOne DEF Cancelled, Stopped, Lossy, Done
  <2>3. Accounted(queue', sequence', lossy') /\ lossy' = lossy
    BY <2>1, <2>2, SpeakingAccounts DEF QueueInv
  <2> QED
    BY <2>1, <2>3 DEF QueueInv
<1>4. CASE Chatter
  <2>1. PICK kind \in Lossy : \E data : EmitLossy(kind, data)
    BY <1>4 DEF Chatter, ModelEmitsDelta, LateDelta, ToolReports, Lossy
  <2>2. pc # "done" /\ pc' = pc
    BY <1>4 DEF Chatter, ModelEmitsDelta, LateDelta, ToolReports, At, Waits
  <2>3. Accounted(queue', sequence', lossy') /\ lossy' <= MaxBuffered
    BY <2>1, <2>2, EmitsLossy DEF QueueInv
  <2> QED
    BY <2>2, <2>3 DEF QueueInv
<1>5. CASE Receive
  BY <1>5, ReceiptAccounts
<1>6. CASE Leave
  <2>1. queue' = <<>> /\ sequence' = 0 /\ lossy' = 0 /\ pc' = pc
    BY <1>6 DEF Leave, engine
  <2>2. Accounted(<<>>, 0, 0)
    BY AccountedNone
  <2>3. 0 <= MaxBuffered
    BY InvocationAssumption
  <2> QED
    BY <2>1, <2>2, <2>3 DEF QueueInv
<1>7. CASE UNCHANGED <<pc, stream>>
  BY <1>7 DEF stream, QueueInv
<1> QED
  BY <1>1, <1>2, <1>3, <1>4, <1>5, <1>6, <1>7
  DEF Next, CommitAbsorbs, Reading, Iterate, Left, ThreadSubmits, LoopDelivers, vars, engine

LEMMA QueueStart == Init => QueueInv
<1> SUFFICES ASSUME Init PROVE QueueInv
  OBVIOUS
<1>1. queue = <<>> /\ sequence = 0 /\ lossy = 0 /\ pc = "new"
  BY DEF Init
<1> QED
  BY <1>1, AccountedNone, InvocationAssumption DEF QueueInv

(* The queue never holds more lossy events than it may, its count of them  *)
(* is right, and the events a consumer has received and will receive are   *)
(* numbered without a gap: what was dropped never had a number.            *)
THEOREM LossyAccountedAlways == Spec => []LossyAccounted
<1>1. Init => EngineInv /\ QueueInv
  BY EngineStart, QueueStart
<1>2. (EngineInv /\ QueueInv) /\ [Next]_vars => (EngineInv /\ QueueInv)'
  BY EngineFits, QueueStep
<1>3. EngineInv /\ QueueInv => LossyAccounted
  BY AccountedShows DEF QueueInv
<1> QED
  BY <1>1, <1>2, <1>3, PTL DEF Spec

-----------------------------------------------------------------------------
(* The verifier record by its fields, and what an update does to it.  The  *)
(* first argument is the field ok.                                         *)
Bounds(m, a, b, ru, se, sn, wa, de) ==
    [model |-> m, announced |-> a, batch |-> b, running |-> ru, settled |-> se, seen |-> sn,
     waiting |-> wa, decided |-> de]

Ver(o, r, w, l, ids, f, g, n, B) ==
    [request |-> r, ok |-> o, view |-> w, last |-> l, ids |-> ids, first |-> f, ended |-> g,
     previous |-> n, b |-> B]

LEMMA VerFields ==
    ASSUME NEW o, NEW r, NEW w, NEW l, NEW ids, NEW f, NEW g, NEW n, NEW B, NEW v,
           v = Ver(o, r, w, l, ids, f, g, n, B)
    PROVE  /\ v.ok = o /\ v.request = r /\ v.view = w /\ v.last = l /\ v.ids = ids /\ v.first = f
           /\ v.ended = g /\ v.previous = n /\ v.b = B
BY DEF Ver

LEMMA BoundsFields ==
    ASSUME NEW m, NEW a, NEW b, NEW ru, NEW se, NEW sn, NEW wa, NEW de, NEW B,
           B = Bounds(m, a, b, ru, se, sn, wa, de)
    PROVE  /\ B.model = m /\ B.announced = a /\ B.batch = b /\ B.running = ru /\ B.settled = se
           /\ B.seen = sn /\ B.waiting = wa /\ B.decided = de
BY DEF Bounds

LEMMA BoundaryBounds == Boundary = Bounds("idle", 0, NoBatch, {}, {}, {}, {}, {})
BY DEF Boundary, Bounds

LEMMA NewNumber ==
    ASSUME NEW o, NEW r, NEW w, NEW l, NEW ids, NEW f, NEW g, NEW n, NEW B, NEW k
    PROVE  [Ver(o, r, w, l, ids, f, g, n, B) EXCEPT !.previous = k] = Ver(o, r, w, l, ids, f, g, k, B)
BY DEF Ver

(* What a checkpoint changes, and what the first entry does. *)
AtCheckpoint(v, ids, l, f, w, g, B) ==
    [v EXCEPT !.ids = ids, !.last = l, !.first = f, !.view = w, !.ended = g, !.b = B]
AtStart(v, w, l, n, ids) == [v EXCEPT !.view = w, !.last = l, !.previous = n, !.ids = ids]

LEMMA NewFields ==
    ASSUME NEW o, NEW r, NEW w, NEW l, NEW ids, NEW f, NEW g, NEW n, NEW B, NEW v,
           v = Ver(o, r, w, l, ids, f, g, n, B),
           NEW ids2, NEW l2, NEW f2, NEW w2, NEW g2, NEW B2
    PROVE  AtCheckpoint(v, ids2, l2, f2, w2, g2, B2) = Ver(o, r, w2, l2, ids2, f2, g2, n, B2)
<1>1. PICK v1 : v1 = [v EXCEPT !.ids = ids2]
  OBVIOUS
<1>2. PICK v2 : v2 = [v1 EXCEPT !.last = l2]
  OBVIOUS
<1>3. PICK v3 : v3 = [v2 EXCEPT !.first = f2]
  OBVIOUS
<1>4. PICK v4 : v4 = [v3 EXCEPT !.view = w2]
  OBVIOUS
<1>5. PICK v5 : v5 = [v4 EXCEPT !.ended = g2]
  OBVIOUS
<1>6. PICK v6 : v6 = [v5 EXCEPT !.b = B2]
  OBVIOUS
<1>7. [v EXCEPT !.ids = ids2, !.last = l2, !.first = f2, !.view = w2, !.ended = g2, !.b = B2] = v6
  BY <1>1, <1>2, <1>3, <1>4, <1>5, <1>6, Zenon
<1>8. v1 = Ver(o, r, w, l, ids2, f, g, n, B)
  BY <1>1 DEF Ver
<1>9. v2 = Ver(o, r, w, l2, ids2, f, g, n, B)
  BY <1>2, <1>8 DEF Ver
<1>10. v3 = Ver(o, r, w, l2, ids2, f2, g, n, B)
  BY <1>3, <1>9 DEF Ver
<1>11. v4 = Ver(o, r, w2, l2, ids2, f2, g, n, B)
  BY <1>4, <1>10 DEF Ver
<1>12. v5 = Ver(o, r, w2, l2, ids2, f2, g2, n, B)
  BY <1>5, <1>11 DEF Ver
<1>13. v6 = Ver(o, r, w2, l2, ids2, f2, g2, n, B2)
  BY <1>6, <1>12 DEF Ver
<1> QED
  BY <1>7, <1>13, Zenon DEF AtCheckpoint

LEMMA StartFields ==
    ASSUME NEW o, NEW r, NEW w, NEW l, NEW ids, NEW f, NEW g, NEW n, NEW B, NEW v,
           v = Ver(o, r, w, l, ids, f, g, n, B), NEW w2, NEW l2, NEW n2, NEW ids2
    PROVE  AtStart(v, w2, l2, n2, ids2) = Ver(o, r, w2, l2, ids2, f, g, n2, B)
<1>1. PICK v1 : v1 = [v EXCEPT !.view = w2]
  OBVIOUS
<1>2. PICK v2 : v2 = [v1 EXCEPT !.last = l2]
  OBVIOUS
<1>3. PICK v3 : v3 = [v2 EXCEPT !.previous = n2]
  OBVIOUS
<1>4. PICK v4 : v4 = [v3 EXCEPT !.ids = ids2]
  OBVIOUS
<1>5. [v EXCEPT !.view = w2, !.last = l2, !.previous = n2, !.ids = ids2] = v4
  BY <1>1, <1>2, <1>3, <1>4, Zenon
<1>6. v1 = Ver(o, r, w2, l, ids, f, g, n, B)
  BY <1>1 DEF Ver
<1>7. v2 = Ver(o, r, w2, l2, ids, f, g, n, B)
  BY <1>2, <1>6 DEF Ver
<1>8. v3 = Ver(o, r, w2, l2, ids, f, g, n2, B)
  BY <1>3, <1>7 DEF Ver
<1>9. v4 = Ver(o, r, w2, l2, ids2, f, g, n2, B)
  BY <1>4, <1>8 DEF Ver
<1> QED
  BY <1>5, <1>9, Zenon DEF AtStart

-----------------------------------------------------------------------------
(* What a consumer knows, and what one event makes of it: Judge for the    *)
(* events still in the queue.                                              *)
Consumer(v, o) == [verifier |-> v, verdict |-> o]

After(c, e) ==
    LET v == c.verifier
    IN  IF v.previous = 0
        THEN Consumer(Started(v, e), IF AcceptsStart(v, e) THEN c.verdict ELSE "refused")
        ELSE IF e.kind = "invocation_stopped"
        THEN Consumer([v EXCEPT !.previous = e.seq],
                      IF AcceptsStop(v, e) /\ c.verdict = "open" THEN "accepted" ELSE "refused")
        ELSE IF e.kind = Done
        THEN Consumer(v, IF c.verdict = "accepted" THEN "accepted" ELSE "refused")
        ELSE Consumer(Visited(v, e), IF Visited(v, e).ok /\ c.verdict = "open" THEN "open" ELSE "refused")

(* p leads from s over the events of q to c, and none of them is refused.  *)
Path(p, s, q, c) ==
    /\ p[0] = s /\ p[Len(q)] = c
    /\ \A n \in 1..Len(q) : p[n] = After(p[n - 1], q[n])
    /\ \A n \in 0..Len(q) : p[n].verdict # "refused"

Ahead(s, q, c) == Sequential(q) /\ \E p : Path(p, s, q, c)

LEMMA AheadNothing ==
    ASSUME NEW c, c.verdict # "refused"
    PROVE  Ahead(c, <<>>, c)
<1>1. Sequential(<<>>) /\ Len(<<>>) = 0
  BY Short
<1> DEFINE p == [n \in 0..0 |-> c]
<1>2. p[0] = c /\ 1..0 = {} /\ \A n \in 0..0 : p[n] = c
  OBVIOUS
<1> HIDE DEF p
<1>3. Path(p, c, <<>>, c)
  BY <1>1, <1>2 DEF Path
<1> QED
  BY <1>1, <1>3 DEF Ahead

LEMMA AheadOne ==
    ASSUME NEW c, NEW e, NEW d, c.verdict # "refused", d = After(c, e), d.verdict # "refused"
    PROVE  Ahead(c, <<e>>, d)
<1>1. Sequential(<<e>>) /\ Len(<<e>>) = 1 /\ <<e>>[1] = e
  BY Short
<1> DEFINE p == [n \in 0..1 |-> IF n = 0 THEN c ELSE d]
<1>2. p[0] = c /\ p[1] = d
  OBVIOUS
<1> HIDE DEF p
<1>3. \A n \in 0..1 : p[n].verdict # "refused"
  <2>1. \A n \in 0..1 : n = 0 \/ n = 1
    OBVIOUS
  <2> QED
    BY <1>2, <2>1
<1>4. \A n \in 1..1 : p[n] = After(p[n - 1], <<e>>[n])
  <2>1. \A n \in 1..1 : n = 1 /\ n - 1 = 0
    OBVIOUS
  <2>2. p[1] = After(p[0], <<e>>[1])
    BY <1>1, <1>2
  <2> QED
    BY <2>1, <2>2
<1>5. Path(p, c, <<e>>, d)
  BY <1>1, <1>2, <1>3, <1>4 DEF Path
<1> QED
  BY <1>1, <1>5 DEF Ahead

LEMMA AheadOn ==
    ASSUME NEW s, NEW q, NEW c, NEW r, NEW d, Ahead(s, q, c), Ahead(c, r, d)
    PROVE  Ahead(s, q \o r, d)
<1>1. PICK a : Path(a, s, q, c)
  BY DEF Ahead
<1>2. PICK b : Path(b, c, r, d)
  BY DEF Ahead
<1>3. Sequential(q) /\ Sequential(r)
  BY DEF Ahead
<1>4. Len(q) \in Nat /\ Len(r) \in Nat
  BY <1>3, SequentialIs
<1> DEFINE k == Len(q)
           m == Len(r)
           t == q \o r
           p == [n \in 0..(k + m) |-> IF n <= k THEN a[n] ELSE b[n - k]]
<1>5. /\ Sequential(t) /\ Len(t) = k + m
      /\ \A i \in 1..k : t[i] = q[i]
      /\ \A i \in 1..m : t[k + i] = r[i]
  BY <1>3, Joined
<1>6. /\ \A n \in 0..k : p[n] = a[n]
      /\ \A n \in 1..m : p[k + n] = b[n]
  <2>1. ASSUME NEW n \in 0..k PROVE p[n] = a[n]
    BY <1>4
  <2>2. ASSUME NEW n \in 1..m PROVE p[k + n] = b[n]
    <3>1. k + n \in 0..(k + m) /\ ~(k + n <= k) /\ (k + n) - k = n
      BY <1>4
    <3> QED
      BY <3>1
  <2> QED
    BY <2>1, <2>2
<1> HIDE DEF p, t
<1>7. a[0] = s /\ a[k] = c /\ b[0] = c /\ b[m] = d
  BY <1>1, <1>2 DEF Path
<1>8. \A n \in 0..m : p[k + n] = b[n]
  <2>1. p[k + 0] = b[0]
    BY <1>4, <1>6, <1>7
  <2>2. \A n \in 0..m : n = 0 \/ n \in 1..m
    BY <1>4
  <2> QED
    BY <1>6, <2>1, <2>2
<1>9. p[0] = s /\ p[k + m] = d
  BY <1>4, <1>6, <1>7, <1>8
<1>10. \A n \in 0..(k + m) : n \in 0..k \/ (n - k \in 1..m /\ k + (n - k) = n)
  BY <1>4
<1>11. ASSUME NEW n \in 0..(k + m) PROVE p[n].verdict # "refused"
  <2>1. CASE n \in 0..k
    BY <1>1, <1>6, <2>1 DEF Path
  <2>2. CASE n - k \in 1..m /\ k + (n - k) = n
    <3>1. p[n] = b[n - k] /\ n - k \in 0..m
      BY <1>6, <2>2
    <3> QED
      BY <1>2, <3>1 DEF Path
  <2> QED
    BY <1>10, <2>1, <2>2
<1>12. ASSUME NEW n \in 1..(k + m) PROVE p[n] = After(p[n - 1], t[n])
  <2>1. CASE n \in 1..k
    <3>1. n - 1 \in 0..k /\ n \in 0..k
      BY <1>4, <2>1
    <3>2. a[n] = After(a[n - 1], q[n])
      BY <1>1, <2>1 DEF Path
    <3> QED
      BY <1>5, <1>6, <2>1, <3>1, <3>2
  <2>2. CASE n \notin 1..k
    <3> DEFINE j == n - k
    <3>1. j \in 1..m /\ k + j = n /\ j - 1 \in 0..m /\ k + (j - 1) = n - 1
      BY <1>4, <2>2
    <3>2. b[j] = After(b[j - 1], r[j])
      BY <1>2, <3>1 DEF Path
    <3>3. p[n] = b[j] /\ t[n] = r[j] /\ p[n - 1] = b[j - 1]
      <4> HIDE DEF j
      <4>1. p[k + j] = b[j] /\ t[k + j] = r[j] /\ p[k + (j - 1)] = b[j - 1]
        BY <1>5, <1>6, <1>8, <3>1
      <4> QED
        BY <3>1, <4>1
    <3> QED
      BY <3>2, <3>3
  <2> QED
    BY <2>1, <2>2
<1>13. Path(p, s, t, d)
  BY <1>5, <1>9, <1>11, <1>12 DEF Path
<1> QED
  BY <1>5, <1>13 DEF Ahead, t

LEMMA AheadTail ==
    ASSUME NEW s, NEW q, NEW c, Ahead(s, q, c), q # <<>>
    PROVE  Ahead(After(s, Head(q)), Tail(q), c) /\ After(s, Head(q)).verdict # "refused"
<1>1. PICK a : Path(a, s, q, c)
  BY DEF Ahead
<1>2. Sequential(q)
  BY DEF Ahead
<1> DEFINE t == Tail(q)
           m == Len(q) - 1
           p == [n \in 0..m |-> a[n + 1]]
<1>3. /\ Head(q) = q[1] /\ Len(q) \in Nat \ {0}
      /\ Sequential(t) /\ Len(t) = m
      /\ \A i \in 1..m : t[i] = q[i + 1]
  BY <1>2, Behead
<1>4. m \in Nat /\ m + 1 = Len(q)
  BY <1>3
<1>5. \A n \in 0..m : p[n] = a[n + 1] /\ n + 1 \in 0..Len(q) /\ n + 1 \in 1..Len(q)
  BY <1>4
<1> HIDE DEF p, t, m
<1>6. a[0] = s /\ a[Len(q)] = c
  BY <1>1 DEF Path
<1>7. p[0] = After(s, Head(q))
  <2>1. 0 \in 0..m /\ 0 + 1 = 1 /\ 1 \in 1..Len(q) /\ 1 - 1 = 0
    BY <1>3, <1>4
  <2>2. a[1] = After(a[1 - 1], q[1])
    BY <1>1, <2>1 DEF Path
  <2>3. p[0] = a[0 + 1]
    BY <1>5, <2>1
  <2> QED
    BY <1>3, <1>6, <2>1, <2>2, <2>3
<1>8. p[m] = c
  <2>1. m \in 0..m
    BY <1>4
  <2> QED
    BY <1>4, <1>5, <1>6, <2>1
<1>9. \A n \in 0..m : p[n].verdict # "refused"
  BY <1>1, <1>5 DEF Path
<1>10. ASSUME NEW n \in 1..m PROVE p[n] = After(p[n - 1], t[n])
  <2>1. n \in 0..m /\ n - 1 \in 0..m /\ (n - 1) + 1 = n /\ (n + 1) - 1 = n /\ n + 1 \in 1..Len(q)
    BY <1>4
  <2>2. a[n + 1] = After(a[(n + 1) - 1], q[n + 1])
    BY <1>1, <2>1 DEF Path
  <2>3. p[n] = a[n + 1] /\ p[n - 1] = a[(n - 1) + 1] /\ t[n] = q[n + 1]
    BY <1>3, <1>5, <2>1
  <2> QED
    BY <2>1, <2>2, <2>3
<1>11. Path(p, After(s, Head(q)), t, c)
  BY <1>3, <1>7, <1>8, <1>9, <1>10 DEF Path
<1>12. After(s, Head(q)).verdict # "refused"
  <2>1. 0 \in 0..m
    BY <1>4
  <2> QED
    BY <1>7, <1>9, <2>1
<1> QED
  BY <1>3, <1>11, <1>12 DEF Ahead, t

LEMMA AheadStarts ==
    ASSUME NEW s, NEW q, NEW c, Ahead(s, q, c)
    PROVE  /\ s.verdict # "refused" /\ c.verdict # "refused" /\ Sequential(q)
           /\ q = <<>> => s = c
<1>1. PICK p : Path(p, s, q, c)
  BY DEF Ahead
<1>2. Sequential(q) /\ Len(q) \in Nat /\ (q = <<>> <=> Len(q) = 0)
  BY SequentialIs DEF Ahead
<1>3. 0 \in 0..Len(q) /\ Len(q) \in 0..Len(q)
  BY <1>2
<1> QED
  BY <1>1, <1>2, <1>3 DEF Path

-----------------------------------------------------------------------------
(* Visiting one event.                                                     *)
(* The flags of a verifier, as arguments. *)
Truth(x) == x = TRUE
Falsity(x) == x = FALSE

LEMMA Flags ==
    ASSUME NEW v, NEW o, NEW g, v.ok = o, v.ended = g
    PROVE  /\ Truth(o) => v.ok
           /\ Falsity(g) => ~v.ended
BY DEF Truth, Falsity

WithNumber(v, k) == [v EXCEPT !.previous = k]

LEMMA VisitsAny ==
    ASSUME NEW v, NEW e, NEW u, v.previous # 0, e.seq > v.previous, ~v.ended,
           e.kind \notin {"invocation_stopped", Done}, Accepts(v, e),
           u = WithNumber(Absorbed(v, e), e.seq), u.ok
    PROVE  After(Consumer(v, "open"), e) = Consumer(u, "open")
<1> DEFINE c == Consumer(v, "open")
<1>1. c.verifier = v /\ c.verdict = "open"
  BY DEF Consumer
<1> HIDE DEF c
<1>2. Visited(v, e) = u
  BY DEF Visited, WithNumber
<1>3. After(c, e) = Consumer(u, IF u.ok /\ "open" = "open" THEN "open" ELSE "refused")
  BY <1>1, <1>2 DEF After
<1> QED
  BY <1>3 DEF c

(* v reads a trace of which it has seen n entries since the checkpoint and *)
(* request described by k, and B of the boundary since then.               *)
Is(v, k, n, B) ==
    \E o, g : /\ Truth(o) /\ Falsity(g)
              /\ v = Ver(o, k.request, k.view, k.last, k.ids, k.first, g, n, B)

WithBounds(v, B) == [v EXCEPT !.b = B]

LEMMA IsFields ==
    ASSUME NEW v, NEW k, NEW n, NEW B, Is(v, k, n, B)
    PROVE  /\ v.ok /\ ~v.ended /\ v.request = k.request /\ v.view = k.view /\ v.last = k.last
           /\ v.ids = k.ids /\ v.first = k.first /\ v.previous = n /\ v.b = B
<1>1. PICK o, g : /\ Truth(o) /\ Falsity(g)
                  /\ v = Ver(o, k.request, k.view, k.last, k.ids, k.first, g, n, B)
  BY DEF Is
<1>2. /\ v.ok = o /\ v.ended = g /\ v.request = k.request /\ v.view = k.view /\ v.last = k.last
      /\ v.ids = k.ids /\ v.first = k.first /\ v.previous = n /\ v.b = B
  BY <1>1 DEF Ver
<1>3. v.ok /\ ~v.ended
  BY <1>1, <1>2, Flags
<1> QED
  BY <1>2, <1>3

LEMMA IsWithBounds ==
    ASSUME NEW v, NEW k, NEW n, NEW B, Is(v, k, n, B), NEW C
    PROVE  Is(WithBounds(v, C), k, n, C) /\ WithBounds(v, C).b = C
<1>1. PICK o, g : /\ Truth(o) /\ Falsity(g)
                  /\ v = Ver(o, k.request, k.view, k.last, k.ids, k.first, g, n, B)
  BY DEF Is
<1>2. WithBounds(v, C) = Ver(o, k.request, k.view, k.last, k.ids, k.first, g, n, C)
  BY <1>1 DEF WithBounds, Ver
<1>3. WithBounds(v, C).b = C
  BY <1>2 DEF Ver
<1> QED
  BY <1>1, <1>2, <1>3 DEF Is

LEMMA IsWithNumber ==
    ASSUME NEW v, NEW k, NEW n, NEW B, Is(v, k, n, B), NEW m
    PROVE  Is(WithNumber(v, m), k, m, B)
<1>1. PICK o, g : /\ Truth(o) /\ Falsity(g)
                  /\ v = Ver(o, k.request, k.view, k.last, k.ids, k.first, g, n, B)
  BY DEF Is
<1>2. WithNumber(v, m) = Ver(o, k.request, k.view, k.last, k.ids, k.first, g, m, B)
  BY <1>1 DEF WithNumber, Ver
<1> QED
  BY <1>1, <1>2 DEF Is

(* An event that changes what is known of the boundary and nothing else.   *)
LEMMA VisitsBounds ==
    ASSUME NEW v, NEW k, NEW n \in Nat \ {0}, NEW B, Is(v, k, n, B), NEW kind, NEW d, NEW e, NEW C,
           e = [seq |-> n + 1, kind |-> kind, data |-> d], kind \notin {"invocation_stopped", Done},
           Accepts(v, e), Is(Absorbed(v, e), k, n, C)
    PROVE  \E u : After(Consumer(v, "open"), e) = Consumer(u, "open") /\ Is(u, k, n + 1, C)
<1> DEFINE u == WithNumber(Absorbed(v, e), e.seq)
<1>1. e.seq = n + 1 /\ e.kind = kind
  OBVIOUS
<1>2. Is(u, k, n + 1, C)
  BY <1>1, IsWithNumber
<1>3. v.previous = n /\ ~v.ended
  BY IsFields
<1>4. u.ok
  BY <1>2, IsFields
<1> HIDE DEF u
<1>5. v.previous # 0 /\ e.seq > v.previous
  BY <1>1, <1>3
<1>6. u = WithNumber(Absorbed(v, e), e.seq)
  BY DEF u
<1>7. After(Consumer(v, "open"), e) = Consumer(u, "open")
  BY <1>1, <1>3, <1>4, <1>5, <1>6, VisitsAny
<1> QED
  BY <1>2, <1>7

-----------------------------------------------------------------------------
(* From every verifier with bounds B that has seen n entries, the entries  *)
(* of q are accepted and lead to the bounds C.                             *)
Reaches(k, n, B, q, C) ==
    \A v : Is(v, k, n, B) =>
        \E u : Ahead(Consumer(v, "open"), q, Consumer(u, "open")) /\ Is(u, k, n + Len(q), C)

Entry(n, kind, d) == [seq |-> n, kind |-> kind, data |-> d]

LEMMA ConsumerFields ==
    ASSUME NEW v, NEW o
    PROVE  Consumer(v, o).verifier = v /\ Consumer(v, o).verdict = o
BY DEF Consumer

LEMMA ReachesNothing ==
    ASSUME NEW k, NEW n \in Nat, NEW B
    PROVE  Reaches(k, n, B, <<>>, B)
<1> SUFFICES ASSUME NEW v, Is(v, k, n, B)
    PROVE \E u : Ahead(Consumer(v, "open"), <<>>, Consumer(u, "open")) /\ Is(u, k, n + Len(<<>>), B)
  BY DEF Reaches
<1>1. Len(<<>>) = 0 /\ n + 0 = n
  BY Short
<1>2. Consumer(v, "open").verdict # "refused"
  BY ConsumerFields
<1>3. Ahead(Consumer(v, "open"), <<>>, Consumer(v, "open"))
  BY <1>2, AheadNothing
<1> QED
  BY <1>1, <1>3

LEMMA ReachesOne ==
    ASSUME NEW k, NEW n \in Nat \ {0}, NEW B, NEW C, NEW kind, NEW d,
           kind \notin {"invocation_stopped", Done}, NEW e, e = Entry(n + 1, kind, d),
           \A v : Is(v, k, n, B) => Accepts(v, e) /\ Is(Absorbed(v, e), k, n, C)
    PROVE  Reaches(k, n, B, <<e>>, C)
<1> SUFFICES ASSUME NEW v, Is(v, k, n, B)
    PROVE \E u : Ahead(Consumer(v, "open"), <<e>>, Consumer(u, "open")) /\ Is(u, k, n + Len(<<e>>), C)
  BY DEF Reaches
<1>1. Accepts(v, e) /\ Is(Absorbed(v, e), k, n, C) /\ e = [seq |-> n + 1, kind |-> kind, data |-> d]
  BY DEF Entry
<1>2. PICK u : After(Consumer(v, "open"), e) = Consumer(u, "open") /\ Is(u, k, n + 1, C)
  BY <1>1, VisitsBounds
<1>3. Consumer(v, "open").verdict # "refused" /\ Consumer(u, "open").verdict # "refused"
  BY ConsumerFields
<1>4. Ahead(Consumer(v, "open"), <<e>>, Consumer(u, "open"))
  BY <1>2, <1>3, AheadOne
<1>5. Len(<<e>>) = 1
  BY Short
<1> QED
  BY <1>2, <1>4, <1>5

LEMMA ReachesOn ==
    ASSUME NEW k, NEW n \in Nat, NEW B, NEW q, NEW C, NEW r, NEW D, Sequential(q), Sequential(r),
           Reaches(k, n, B, q, C), Reaches(k, n + Len(q), C, r, D)
    PROVE  Reaches(k, n, B, q \o r, D)
<1> SUFFICES ASSUME NEW v, Is(v, k, n, B)
    PROVE \E u : Ahead(Consumer(v, "open"), q \o r, Consumer(u, "open")) /\ Is(u, k, n + Len(q \o r), D)
  BY DEF Reaches
<1>1. PICK w : Ahead(Consumer(v, "open"), q, Consumer(w, "open")) /\ Is(w, k, n + Len(q), C)
  BY DEF Reaches
<1>2. PICK u : Ahead(Consumer(w, "open"), r, Consumer(u, "open")) /\ Is(u, k, (n + Len(q)) + Len(r), D)
  BY <1>1 DEF Reaches
<1>3. Ahead(Consumer(v, "open"), q \o r, Consumer(u, "open"))
  BY <1>1, <1>2, AheadOn
<1>4. (n + Len(q)) + Len(r) = n + Len(q \o r)
  <2>1. Len(q) \in Nat /\ Len(r) \in Nat /\ Len(q \o r) = Len(q) + Len(r)
    BY SequentialIs, Joined
  <2> QED
    BY <2>1
<1> QED
  BY <1>2, <1>3, <1>4

First(es, j) == [i \in 1..j |-> es[i]]

LEMMA FirstIs ==
    ASSUME NEW es, Sequential(es), NEW j \in Nat, j <= Len(es)
    PROVE  /\ Sequential(First(es, j)) /\ Len(First(es, j)) = j
           /\ First(es, Len(es)) = es /\ First(es, 0) = <<>>
           /\ j + 1 <= Len(es) => First(es, j + 1) = First(es, j) \o <<es[j + 1]>>
<1>1. PICK M : es \in Seq(M)
  BY DEF Sequential
<1>2. Len(es) \in Nat /\ \A i \in 1..Len(es) : es[i] \in M
  BY <1>1
<1>3. First(es, j) \in Seq(M) /\ Len(First(es, j)) = j
  BY <1>2 DEF First
<1>4. First(es, Len(es)) = es
  BY <1>1 DEF First
<1>5. First(es, 0) = <<>>
  <2>1. 1..0 = {}
    OBVIOUS
  <2> QED
    BY <2>1 DEF First
<1>6. ASSUME j + 1 <= Len(es) PROVE First(es, j + 1) = First(es, j) \o <<es[j + 1]>>
  <2>1. <<es[j + 1]>> \in Seq(M)
    BY <1>2, <1>6
  <2>2. First(es, j + 1) \in Seq(M) /\ Len(First(es, j + 1)) = j + 1
    BY <1>2, <1>6 DEF First
  <2>3. ASSUME NEW i \in 1..(j + 1)
        PROVE  First(es, j + 1)[i] = (First(es, j) \o <<es[j + 1]>>)[i]
    <3>1. CASE i \in 1..j
      <4>1. First(es, j)[i] = es[i] /\ First(es, j + 1)[i] = es[i]
        BY <3>1 DEF First
      <4> QED
        BY <1>3, <2>1, <3>1, <4>1
    <3>2. CASE i = j + 1
      <4>1. First(es, j + 1)[i] = es[j + 1]
        BY <3>2 DEF First
      <4> QED
        BY <1>3, <2>1, <3>2, <4>1
    <3>3. i \in 1..j \/ i = j + 1
      OBVIOUS
    <3> QED
      BY <3>1, <3>2, <3>3
  <2>4. First(es, j) \o <<es[j + 1]>> \in Seq(M) /\ Len(First(es, j) \o <<es[j + 1]>>) = j + 1
    BY <1>3, <2>1
  <2> HIDE DEF First
  <2> QED
    BY <2>2, <2>3, <2>4, SeqEqual
<1> QED
  BY <1>3, <1>4, <1>5, <1>6 DEF Sequential

LEMMA ReachesEach ==
    ASSUME NEW k, NEW n \in Nat, NEW es, Sequential(es), NEW C,
           \A j \in 0..(Len(es) - 1) : Reaches(k, n + j, C[j], <<es[j + 1]>>, C[j + 1])
    PROVE  Reaches(k, n, C[0], es, C[Len(es)])
<1>0. Len(es) \in Nat
  BY SequentialIs
<1> DEFINE P == {j \in Nat : j <= Len(es) => Reaches(k, n, C[0], First(es, j), C[j])}
<1>1. 0 \in P
  BY <1>0, FirstIs, ReachesNothing
<1>2. ASSUME NEW j \in Nat, j \in P PROVE j + 1 \in P
  <2> SUFFICES ASSUME j + 1 <= Len(es) PROVE Reaches(k, n, C[0], First(es, j + 1), C[j + 1])
    OBVIOUS
  <2>1. j <= Len(es) /\ j \in 0..(Len(es) - 1)
    BY <1>0
  <2>2. Reaches(k, n, C[0], First(es, j), C[j])
    BY <1>2, <2>1
  <2>3. Reaches(k, n + j, C[j], <<es[j + 1]>>, C[j + 1])
    BY <2>1
  <2>4. Sequential(First(es, j)) /\ Len(First(es, j)) = j /\ Sequential(<<es[j + 1]>>)
        /\ First(es, j + 1) = First(es, j) \o <<es[j + 1]>>
    BY <2>1, FirstIs, Short
  <2> QED
    BY <2>2, <2>3, <2>4, ReachesOn
<1> HIDE DEF P
<1>3. Nat \subseteq P
  BY <1>1, <1>2, NumbersFromZero
<1>4. Len(es) \in P
  BY <1>0, <1>3
<1>5. First(es, Len(es)) = es
  <2>1. 0 \in Nat /\ 0 <= Len(es)
    BY <1>0
  <2> QED
    BY <2>1, FirstIs
<1>6. Reaches(k, n, C[0], First(es, Len(es)), C[Len(es)])
  BY <1>0, <1>4 DEF P
<1> QED
  BY <1>5, <1>6

-----------------------------------------------------------------------------
(* What each kind of event does to the bounds.                             *)
Modelling == Bounds("active", 0, NoBatch, {}, {}, {}, {}, {})
Modelled(calls) == Bounds("finished", calls, NoBatch, {}, {}, {}, {}, {})

WithModel(B, x) == [B EXCEPT !.model = x]
WithAnnounced(B, x) == [B EXCEPT !.announced = x]
WithBatch(B, x) == [B EXCEPT !.batch = x]
WithRunning(B, x) == [B EXCEPT !.running = x]
WithSettled(B, x) == [B EXCEPT !.settled = x]
WithSeen(B, x) == [B EXCEPT !.seen = x]
WithWaiting(B, x) == [B EXCEPT !.waiting = x]
WithDecided(B, x) == [B EXCEPT !.decided = x]

LEMMA NewBoundsOf ==
    ASSUME NEW m, NEW a, NEW b, NEW ru, NEW se, NEW sn, NEW wa, NEW de, NEW B,
           B = Bounds(m, a, b, ru, se, sn, wa, de), NEW x
    PROVE  /\ WithModel(B, x) = Bounds(x, a, b, ru, se, sn, wa, de)
           /\ WithAnnounced(B, x) = Bounds(m, x, b, ru, se, sn, wa, de)
           /\ WithBatch(B, x) = Bounds(m, a, x, ru, se, sn, wa, de)
           /\ WithRunning(B, x) = Bounds(m, a, b, x, se, sn, wa, de)
           /\ WithSettled(B, x) = Bounds(m, a, b, ru, x, sn, wa, de)
           /\ WithSeen(B, x) = Bounds(m, a, b, ru, se, x, wa, de)
           /\ WithWaiting(B, x) = Bounds(m, a, b, ru, se, sn, x, de)
           /\ WithDecided(B, x) = Bounds(m, a, b, ru, se, sn, wa, x)
BY DEF Bounds, WithModel, WithAnnounced, WithBatch, WithRunning, WithSettled, WithSeen, WithWaiting, WithDecided

LEMMA StartsModel ==
    ASSUME NEW k, NEW n \in Nat \ {0}, k.view.kind = "planning", NEW d, d.step = k.view.steps + 1,
           NEW e, e = Entry(n + 1, "model_started", d)
    PROVE  Reaches(k, n, Boundary, <<e>>, Modelling)
<1>1. ASSUME NEW v, Is(v, k, n, Boundary)
      PROVE  Accepts(v, e) /\ Is(Absorbed(v, e), k, n, Modelling)
  <2>1. v.view = k.view /\ v.b = Boundary
    BY <1>1, IsFields
  <2>2. v.b.model = "idle" /\ v.b.running = {}
    BY <2>1 DEF Boundary
  <2>3. e.kind = "model_started" /\ e.data = d
    BY DEF Entry
  <2>4. Accepts(v, e)
    BY <2>1, <2>2, <2>3 DEF Accepts, AcceptsModelStarted
  <2>5. Absorbed(v, e) = [v EXCEPT !.b.model = "active"]
    BY <2>3 DEF Absorbed
  <2>6. [v EXCEPT !.b.model = "active"] = WithBounds(v, WithModel(v.b, "active"))
    BY DEF WithBounds, WithModel, WithAnnounced, WithBatch, WithWaiting
  <2>7. WithModel(v.b, "active") = Modelling
    BY <2>1, BoundaryBounds, NewBoundsOf DEF Modelling
  <2> QED
    BY <1>1, <2>4, <2>5, <2>6, <2>7, IsWithBounds
<1> QED
  BY <1>1, ReachesOne DEF Done

LEMMA GoesOnModel ==
    ASSUME NEW k, NEW n \in Nat \ {0}, NEW d, NEW e, e = Entry(n + 1, "model_delta", d)
    PROVE  Reaches(k, n, Modelling, <<e>>, Modelling)
<1>1. ASSUME NEW v, Is(v, k, n, Modelling)
      PROVE  Accepts(v, e) /\ Is(Absorbed(v, e), k, n, Modelling)
  <2>1. v.b = Modelling
    BY <1>1, IsFields
  <2>2. v.b.model = "active"
    BY <2>1 DEF Modelling, Bounds
  <2>3. e.kind = "model_delta"
    BY DEF Entry
  <2>4. Accepts(v, e)
    BY <2>2, <2>3 DEF Accepts, AcceptsModelEvent
  <2>5. Absorbed(v, e) = v
    BY <2>3 DEF Absorbed
  <2> QED
    BY <1>1, <2>4, <2>5
<1> QED
  BY <1>1, ReachesOne DEF Done

LEMMA FinishesModel ==
    ASSUME NEW k, NEW n \in Nat \ {0}, NEW d, NEW e, e = Entry(n + 1, "model_finished", d)
    PROVE  Reaches(k, n, Modelling, <<e>>, Modelled(d.calls))
<1>1. ASSUME NEW v, Is(v, k, n, Modelling)
      PROVE  Accepts(v, e) /\ Is(Absorbed(v, e), k, n, Modelled(d.calls))
  <2>1. v.b = Modelling
    BY <1>1, IsFields
  <2>2. v.b.model = "active"
    BY <2>1 DEF Modelling, Bounds
  <2>3. e.kind = "model_finished" /\ e.data = d
    BY DEF Entry
  <2>4. Accepts(v, e)
    BY <2>2, <2>3 DEF Accepts, AcceptsModelEvent
  <2>5. PICK v1 : v1 = [v EXCEPT !.b.model = "finished"]
    OBVIOUS
  <2>6. PICK v2 : v2 = [v1 EXCEPT !.b.announced = d.calls]
    OBVIOUS
  <2>7. Absorbed(v, e) = [v EXCEPT !.b.model = "finished", !.b.announced = d.calls]
    BY <2>3 DEF Absorbed
  <2>8. Absorbed(v, e) = v2
    BY <2>5, <2>6, <2>7, Zenon
  <2>9. PICK B1 : B1 = Bounds("finished", 0, NoBatch, {}, {}, {}, {}, {})
    OBVIOUS
  <2>10. v1 = WithBounds(v, B1)
    <3>1. v1 = WithBounds(v, WithModel(v.b, "finished"))
      BY <2>5 DEF WithBounds, WithModel, WithAnnounced, WithBatch, WithWaiting
    <3>2. WithModel(v.b, "finished") = B1
      BY <2>1, <2>9, NewBoundsOf DEF Modelling
    <3> QED
      BY <3>1, <3>2
  <2>11. Is(v1, k, n, B1) /\ v1.b = B1
    BY <1>1, <2>10, IsWithBounds
  <2>12. v2 = WithBounds(v1, Modelled(d.calls))
    <3>1. v2 = WithBounds(v1, WithAnnounced(v1.b, d.calls))
      BY <2>6 DEF WithBounds, WithModel, WithAnnounced, WithBatch, WithWaiting
    <3>2. WithAnnounced(B1, d.calls) = Modelled(d.calls)
      BY <2>9, NewBoundsOf DEF Modelled
    <3> QED
      BY <2>11, <3>1, <3>2
  <2> QED
    BY <2>4, <2>8, <2>11, <2>12, IsWithBounds
<1> QED
  BY <1>1, ReachesOne DEF Done

(* A batch with approvals asked for, w of them waiting; and one that runs. *)
Approving(b, w, de) == Bounds("idle", 0, b, {}, {}, {}, w, de)
Executing(b, ru, se, sn, de) == Bounds("idle", 0, b, ru, se, sn, {}, de)

LEMMA ApprovingMoves ==
    ASSUME NEW b, NEW w, NEW de, NEW B, B = Approving(b, w, de), NEW x
    PROVE  WithWaiting(B, x) = Approving(b, x, de) /\ WithDecided(B, x) = Approving(b, w, x)
BY NewBoundsOf DEF Approving

LEMMA ExecutingMoves ==
    ASSUME NEW b, NEW ru, NEW se, NEW sn, NEW de, NEW B, B = Executing(b, ru, se, sn, de), NEW x
    PROVE  /\ WithRunning(B, x) = Executing(b, x, se, sn, de)
           /\ WithSettled(B, x) = Executing(b, ru, x, sn, de)
           /\ WithSeen(B, x) = Executing(b, ru, se, x, de)
BY NewBoundsOf DEF Executing

(* Each call of a list once. *)
LEMMA DistinctCounts ==
    ASSUME NEW M, NEW s \in Seq(M), Distinct(s)
    PROVE  Cardinality({s[i] : i \in DOMAIN s}) = Len(s)
<1>1. Len(s) \in Nat /\ DOMAIN s = 1..Len(s)
  OBVIOUS
<1> DEFINE T == {s[i] : i \in DOMAIN s}
           f == [i \in 1..Len(s) |-> s[i]]
<1>2. f \in Bijection(1..Len(s), T)
  <2>1. f \in [1..Len(s) -> T]
    BY <1>1
  <2>2. \A a, b \in 1..Len(s) : f[a] = f[b] => a = b
    BY <1>1 DEF Distinct
  <2>3. \A t \in T : \E a \in 1..Len(s) : f[a] = t
    BY <1>1
  <2> HIDE DEF f, T
  <2> QED
    BY <2>1, <2>2, <2>3, Fun_IsBij
<1>3. IsFiniteSet(1..Len(s)) /\ Cardinality(1..Len(s)) = Len(s)
  <2>1. 1 \in Int /\ Len(s) \in Int
    BY <1>1
  <2>2. IsFiniteSet(1..Len(s)) /\ Cardinality(1..Len(s)) = IF 1 > Len(s) THEN 0 ELSE Len(s) - 1 + 1
    BY <2>1, FS_Interval
  <2> QED
    BY <1>1, <2>2
<1> HIDE DEF f, T
<1>4. ExistsBijection(1..Len(s), T)
  BY <1>2 DEF ExistsBijection
<1>5. Cardinality(T) = Cardinality(1..Len(s))
  BY <1>3, <1>4, FS_Bijection
<1> QED
  BY <1>3, <1>5 DEF T

LEMMA SelectsBatch ==
    ASSUME NEW k, NEW n \in Nat \ {0}, k.view.kind = "tools_pending", NEW d, NEW M, d.calls \in Seq(M),
           d.calls # <<>>, Distinct(d.calls), d.calls \o d.rest = k.view.pending,
           NEW b, b = [id |-> d.batch, calls |-> d.calls, parallel |-> d.parallel],
           NEW e, e = Entry(n + 1, "tool_batch_selected", d)
    PROVE  Reaches(k, n, Boundary, <<e>>, Approving(b, {}, {}))
<1>1. ASSUME NEW v, Is(v, k, n, Boundary)
      PROVE  Accepts(v, e) /\ Is(Absorbed(v, e), k, n, Approving(b, {}, {}))
  <2>1. v.view = k.view /\ v.b = Boundary
    BY <1>1, IsFields
  <2>2. v.b.model = "idle" /\ v.b.running = {} /\ v.b.batch = NoBatch /\ v.b.waiting = {}
    BY <2>1 DEF Boundary
  <2>3. e.kind = "tool_batch_selected" /\ e.data = d
    BY DEF Entry
  <2>4. Cardinality({d.calls[i] : i \in DOMAIN d.calls}) = Len(d.calls)
    BY DistinctCounts
  <2>5. AcceptsSelection(v, d)
    BY <2>1, <2>2, <2>4 DEF AcceptsSelection, Pending
  <2>6. Accepts(v, e)
    BY <2>3, <2>5 DEF Accepts
  <2>7. Absorbed(v, e) = [v EXCEPT !.b.batch = b]
    BY <2>3 DEF Absorbed
  <2>8. [v EXCEPT !.b.batch = b] = WithBounds(v, WithBatch(v.b, b))
    BY DEF WithBounds, WithModel, WithAnnounced, WithBatch, WithWaiting
  <2>9. WithBatch(Boundary, b) = Approving(b, {}, {})
    BY BoundaryBounds, NewBoundsOf DEF Approving
  <2>10. Is(WithBounds(v, WithBatch(v.b, b)), k, n, WithBatch(v.b, b))
    BY <1>1, IsWithBounds
  <2> QED
    BY <2>1, <2>6, <2>7, <2>8, <2>9, <2>10
<1> QED
  BY <1>1, ReachesOne DEF Done

LEMMA AsksFor ==
    ASSUME NEW k, NEW n \in Nat \ {0}, k.view.kind = "tools_pending", NEW b, b # NoBatch, NEW w, NEW de, NEW d,
           d.batch = b.id, d.index \in DOMAIN b.calls, b.calls[d.index] = d.call, d.call \notin w \cup de,
           NEW e, e = Entry(n + 1, "approval_requested", d)
    PROVE  Reaches(k, n, Approving(b, w, de), <<e>>, Approving(b, w \cup {d.call}, de))
<1>1. ASSUME NEW v, Is(v, k, n, Approving(b, w, de))
      PROVE  Accepts(v, e) /\ Is(Absorbed(v, e), k, n, Approving(b, w \cup {d.call}, de))
  <2>1. v.view = k.view /\ v.b = Approving(b, w, de)
    BY <1>1, IsFields
  <2>2. v.b.model = "idle" /\ v.b.running = {} /\ v.b.batch = b /\ v.b.waiting = w /\ v.b.decided = de
    BY <2>1 DEF Approving, Bounds
  <2>3. e.kind = "approval_requested" /\ e.data = d
    BY DEF Entry
  <2>4. AcceptsApprovalRequest(v, d)
    BY <2>1, <2>2 DEF AcceptsApprovalRequest, Preparing, Pending, SelectedCall
  <2>5. Accepts(v, e)
    BY <2>3, <2>4 DEF Accepts
  <2>6. Absorbed(v, e) = [v EXCEPT !.b.waiting = @ \cup {d.call}]
    BY <2>3 DEF Absorbed
  <2>7. Absorbed(v, e) = WithBounds(v, WithWaiting(v.b, v.b.waiting \cup {d.call}))
    BY <2>6 DEF WithBounds, WithModel, WithAnnounced, WithBatch, WithWaiting
  <2>8. WithWaiting(v.b, v.b.waiting \cup {d.call}) = Approving(b, w \cup {d.call}, de)
    BY <2>1, <2>2, ApprovingMoves
  <2> QED
    BY <1>1, <2>5, <2>7, <2>8, IsWithBounds
<1> QED
  BY <1>1, ReachesOne DEF Done

LEMMA Decides ==
    ASSUME NEW k, NEW n \in Nat \ {0}, NEW b, NEW w, NEW de, NEW d, d.call \in w,
           NEW e, e = Entry(n + 1, "approval_decided", d)
    PROVE  Reaches(k, n, Approving(b, w, de), <<e>>, Approving(b, w \ {d.call}, de \cup {d.call}))
<1>1. ASSUME NEW v, Is(v, k, n, Approving(b, w, de))
      PROVE  Accepts(v, e) /\ Is(Absorbed(v, e), k, n, Approving(b, w \ {d.call}, de \cup {d.call}))
  <2>1. v.b = Approving(b, w, de)
    BY <1>1, IsFields
  <2>2. v.b.waiting = w
    BY <2>1 DEF Approving, Bounds
  <2>3. e.kind = "approval_decided" /\ e.data = d
    BY DEF Entry
  <2>4. Accepts(v, e)
    BY <2>2, <2>3 DEF Accepts, AcceptsApprovalDecision
  <2>5. PICK v1 : v1 = [v EXCEPT !.b.waiting = @ \ {d.call}]
    OBVIOUS
  <2>6. PICK v2 : v2 = [v1 EXCEPT !.b.decided = v.b.decided \cup {d.call}]
    OBVIOUS
  <2>7. Absorbed(v, e) = [v EXCEPT !.b.waiting = @ \ {d.call}, !.b.decided = @ \cup {d.call}]
    BY <2>3 DEF Absorbed
  <2>8. Absorbed(v, e) = v2
    BY <2>5, <2>6, <2>7, Zenon
  <2>9. v1 = WithBounds(v, WithWaiting(v.b, v.b.waiting \ {d.call}))
    BY <2>5 DEF WithBounds, WithWaiting
  <2>10. v1 = WithBounds(v, Approving(b, w \ {d.call}, de))
    BY <2>1, <2>2, <2>9, ApprovingMoves
  <2>11. Is(v1, k, n, Approving(b, w \ {d.call}, de)) /\ v1.b = Approving(b, w \ {d.call}, de)
    BY <1>1, <2>10, IsWithBounds
  <2>12. v.b.decided = de
    BY <2>1 DEF Approving, Bounds
  <2>13. v2 = WithBounds(v1, WithDecided(v1.b, v.b.decided \cup {d.call}))
    BY <2>6 DEF WithBounds, WithDecided
  <2>14. v2 = WithBounds(v1, Approving(b, w \ {d.call}, de \cup {d.call}))
    BY <2>11, <2>12, <2>13, ApprovingMoves
  <2> QED
    BY <2>4, <2>8, <2>11, <2>14, IsWithBounds
<1> QED
  BY <1>1, ReachesOne DEF Done

LEMMA StartsTool ==
    ASSUME NEW k, NEW n \in Nat \ {0}, k.view.kind = "tools_pending", NEW b, b # NoBatch, NEW ru, NEW se, NEW sn,
           NEW de, NEW d, d.batch = b.id, d.index \in DOMAIN b.calls, b.calls[d.index] = d.call,
           d.parallel = b.parallel, d.call \notin sn,
           NEW e, e = Entry(n + 1, "tool_started", d)
    PROVE  Reaches(k, n, Executing(b, ru, se, sn, de), <<e>>,
                   Executing(b, ru \cup {d.call}, se, sn \cup {d.call}, de))
<1> DEFINE B1 == Executing(b, ru, se, sn \cup {d.call}, de)
           B2 == Executing(b, ru \cup {d.call}, se, sn \cup {d.call}, de)
<1>1. ASSUME NEW v, Is(v, k, n, Executing(b, ru, se, sn, de))
      PROVE  Accepts(v, e) /\ Is(Absorbed(v, e), k, n, B2)
  <2>1. v.view = k.view /\ v.b = Executing(b, ru, se, sn, de)
    BY <1>1, IsFields
  <2>2. v.b.model = "idle" /\ v.b.batch = b /\ v.b.waiting = {} /\ v.b.seen = sn
    BY <2>1 DEF Executing, Bounds
  <2>3. e.kind = "tool_started" /\ e.data = d
    BY DEF Entry
  <2>4. AcceptsToolStarted(v, d)
    BY <2>1, <2>2 DEF AcceptsToolStarted, Preparing, Pending, SelectedCall
  <2>5. Accepts(v, e)
    BY <2>3, <2>4 DEF Accepts
  <2>6. PICK v1 : v1 = [v EXCEPT !.b.seen = @ \cup {d.call}]
    OBVIOUS
  <2>7. PICK v2 : v2 = [v1 EXCEPT !.b.running = v.b.running \cup {d.call}]
    OBVIOUS
  <2>8. Absorbed(v, e) = [v EXCEPT !.b.seen = @ \cup {d.call}, !.b.running = @ \cup {d.call}]
    BY <2>3 DEF Absorbed
  <2>9. Absorbed(v, e) = v2
    BY <2>6, <2>7, <2>8, Zenon
  <2>10. v1 = WithBounds(v, WithSeen(v.b, v.b.seen \cup {d.call}))
    BY <2>6 DEF WithBounds, WithSeen
  <2>11. v1 = WithBounds(v, B1)
    BY <2>1, <2>2, <2>10, ExecutingMoves
  <2>12. Is(v1, k, n, B1) /\ v1.b = B1
    BY <1>1, <2>11, IsWithBounds
  <2>13. v.b.running = ru
    BY <2>1 DEF Executing, Bounds
  <2>14. v2 = WithBounds(v1, WithRunning(v1.b, v.b.running \cup {d.call}))
    BY <2>7 DEF WithBounds, WithRunning
  <2>15. v2 = WithBounds(v1, B2)
    BY <2>12, <2>13, <2>14, ExecutingMoves
  <2> QED
    BY <2>5, <2>9, <2>12, <2>15, IsWithBounds
<1> QED
  BY <1>1, ReachesOne DEF Done

LEMMA ReportsTool ==
    ASSUME NEW k, NEW n \in Nat \ {0}, NEW b, NEW ru, NEW se, NEW sn, NEW de, NEW d, d.call \in ru,
           NEW kind \in {"tool_progress", "tool_cancel_requested"}, NEW e, e = Entry(n + 1, kind, d)
    PROVE  Reaches(k, n, Executing(b, ru, se, sn, de), <<e>>, Executing(b, ru, se, sn, de))
<1>1. ASSUME NEW v, Is(v, k, n, Executing(b, ru, se, sn, de))
      PROVE  Accepts(v, e) /\ Is(Absorbed(v, e), k, n, Executing(b, ru, se, sn, de))
  <2>1. v.b = Executing(b, ru, se, sn, de)
    BY <1>1, IsFields
  <2>2. v.b.running = ru
    BY <2>1 DEF Executing, Bounds
  <2>3. e.kind = kind /\ e.data = d
    BY DEF Entry
  <2>4. Accepts(v, e)
    BY <2>2, <2>3 DEF Accepts, AcceptsToolEvent
  <2>5. Absorbed(v, e) = v
    BY <2>3 DEF Absorbed
  <2> QED
    BY <1>1, <2>4, <2>5
<1>2. kind \notin {"invocation_stopped", Done}
  BY DEF Done
<1> QED
  BY <1>1, <1>2, ReachesOne

LEMMA FinishesTool ==
    ASSUME NEW k, NEW n \in Nat \ {0}, NEW b, NEW ru, NEW se, NEW sn, NEW de, NEW d, d.call \in ru,
           d.batch = b.id, b.calls[d.index] = d.call, NEW e, e = Entry(n + 1, "tool_finished", d)
    PROVE  Reaches(k, n, Executing(b, ru, se, sn, de), <<e>>,
                   Executing(b, ru \ {d.call},
                             se \cup {[call |-> d.call, index |-> d.index, outcome |-> d.outcome]}, sn, de))
<1> DEFINE t == [call |-> d.call, index |-> d.index, outcome |-> d.outcome]
<1>0. PICK s : s = t
  OBVIOUS
<1> DEFINE B1 == Executing(b, ru \ {d.call}, se, sn, de)
           B2 == Executing(b, ru \ {d.call}, se \cup {s}, sn, de)
<1>1. ASSUME NEW v, Is(v, k, n, Executing(b, ru, se, sn, de))
      PROVE  Accepts(v, e) /\ Is(Absorbed(v, e), k, n, B2)
  <2>1. v.b = Executing(b, ru, se, sn, de)
    BY <1>1, IsFields
  <2>2. v.b.batch = b /\ v.b.running = ru
    BY <2>1 DEF Executing, Bounds
  <2>3. e.kind = "tool_finished" /\ e.data = d
    BY DEF Entry
  <2>4. Accepts(v, e)
    BY <2>2, <2>3 DEF Accepts, AcceptsToolFinished
  <2>6. PICK v1 : v1 = [v EXCEPT !.b.running = @ \ {d.call}]
    OBVIOUS
  <2>7. PICK v2 : v2 = [v1 EXCEPT !.b.settled = v.b.settled \cup {s}]
    OBVIOUS
  <2>8. Absorbed(v, e) = [v EXCEPT !.b.running = @ \ {d.call}, !.b.settled = @ \cup {t}]
    BY <2>3 DEF Absorbed
  <2> HIDE DEF t
  <2>9. Absorbed(v, e) = v2
    BY <1>0, <2>6, <2>7, <2>8, Zenon
  <2>10. v1 = WithBounds(v, WithRunning(v.b, v.b.running \ {d.call}))
    BY <2>6 DEF WithBounds, WithRunning
  <2>11. v1 = WithBounds(v, B1)
    BY <2>1, <2>2, <2>10, ExecutingMoves
  <2>12. Is(v1, k, n, B1) /\ v1.b = B1
    BY <1>1, <2>11, IsWithBounds
  <2>13. v.b.settled = se
    BY <2>1 DEF Executing, Bounds
  <2>14. v2 = WithBounds(v1, WithSettled(v1.b, v.b.settled \cup {s}))
    BY <2>7 DEF WithBounds, WithSettled
  <2>15. v2 = WithBounds(v1, B2)
    BY <2>12, <2>13, <2>14, ExecutingMoves
  <2> QED
    BY <2>4, <2>9, <2>12, <2>15, IsWithBounds
<1>2. Reaches(k, n, Executing(b, ru, se, sn, de), <<e>>, B2)
  BY <1>1, ReachesOne DEF Done
<1> QED
  BY <1>0, <1>2

-----------------------------------------------------------------------------
(* Checkpoints, and the first and the last entry.                          *)
Shuts(g, w) == g = (w.kind \in ClosedStates)

LEMMA ShutsIs ==
    ASSUME NEW g, NEW w, Shuts(g, w), w.kind \notin ClosedStates
    PROVE  Falsity(g)
<1>1. (w.kind \in ClosedStates) = FALSE
  OBVIOUS
<1> QED
  BY <1>1, Zenon DEF Shuts, Falsity

Checkpoints(v, k, n, d, e) ==
    \E o, f, g, u :
        /\ Truth(o) /\ Falsity(f) /\ Shuts(g, d.after)
        /\ u = Ver(o, k.request, d.after, d.id, k.ids \cup {d.id}, f, g, n + 1, Boundary)
        /\ After(Consumer(v, "open"), e) = Consumer(u, "open")

LEMMA Commits ==
    ASSUME NEW v, NEW k, NEW n \in Nat \ {0}, NEW B, Is(v, k, n, B), NEW d, AcceptsCheckpoint(v, d),
           NEW e, e = Entry(n + 1, "checkpoint_committed", d)
    PROVE  Checkpoints(v, k, n, d, e)
<1>1. PICK o, h : /\ Truth(o) /\ Falsity(h)
                  /\ v = Ver(o, k.request, k.view, k.last, k.ids, k.first, h, n, B)
  BY DEF Is
<1>2. PICK f : f = FALSE
  OBVIOUS
<1>3. PICK g : g = (d.after.kind \in ClosedStates)
  OBVIOUS
<1>4. e.kind = "checkpoint_committed" /\ e.data = d /\ e.seq = n + 1
  BY DEF Entry
<1>5. v.previous = n /\ v.ids = k.ids /\ ~v.ended
  BY IsFields
<1>6. Absorbed(v, e) = [v EXCEPT !.ids = v.ids \cup {d.id}, !.last = d.id, !.first = FALSE,
                                 !.view = d.after, !.ended = d.after.kind \in ClosedStates,
                                 !.b = Boundary]
  BY <1>4 DEF Absorbed
<1>7. Absorbed(v, e) = AtCheckpoint(v, v.ids \cup {d.id}, d.id, f, d.after, g, Boundary)
  BY <1>2, <1>3, <1>6, Zenon DEF AtCheckpoint
<1>8. PICK ids : ids = v.ids \cup {d.id}
  OBVIOUS
<1>9. AtCheckpoint(v, ids, d.id, f, d.after, g, Boundary)
      = Ver(o, k.request, d.after, d.id, ids, f, g, n, Boundary)
  BY <1>1, NewFields
<1>10. Absorbed(v, e) = Ver(o, k.request, d.after, d.id, ids, f, g, n, Boundary)
  BY <1>7, <1>8, <1>9, Zenon
<1>11. PICK u : u = Ver(o, k.request, d.after, d.id, ids, f, g, n + 1, Boundary)
  OBVIOUS
<1>12. WithNumber(Absorbed(v, e), e.seq) = u
  BY <1>4, <1>10, <1>11, NewNumber DEF WithNumber
<1>13. u.ok
  <2>1. u.ok = o
    BY <1>11 DEF Ver
  <2> QED
    BY <1>1, <2>1, Flags DEF Truth
<1>14. Accepts(v, e)
  BY <1>4 DEF Accepts
<1>15. e.seq > v.previous /\ v.previous # 0 /\ e.kind \notin {"invocation_stopped", Done}
  BY <1>4, <1>5 DEF Done
<1>16. After(Consumer(v, "open"), e) = Consumer(u, "open")
  BY <1>5, <1>12, <1>13, <1>14, <1>15, VisitsAny
<1>17. Falsity(f)
  BY <1>2 DEF Falsity
<1>18. ids = k.ids \cup {d.id}
  BY <1>5, <1>8
<1>19. Shuts(g, d.after)
  BY <1>3 DEF Shuts
<1> QED
  BY <1>1, <1>11, <1>16, <1>17, <1>18, <1>19 DEF Checkpoints

LEMMA Stops ==
    ASSUME NEW o, NEW r, NEW w, NEW l, NEW ids, NEW f, NEW g, NEW n \in Nat \ {0}, NEW B, NEW v,
           v = Ver(o, r, w, l, ids, f, g, n, B), NEW d, NEW e, e = Entry(n + 1, "invocation_stopped", d),
           AcceptsStop(v, e)
    PROVE  \E u : After(Consumer(v, "open"), e) = Consumer(u, "accepted") /\ u.previous # 0
<1>1. e.kind = "invocation_stopped" /\ e.seq = n + 1
  BY DEF Entry
<1>2. v.previous = n
  BY DEF Ver
<1>3. PICK u : u = WithNumber(v, e.seq)
  OBVIOUS
<1>4. u = Ver(o, r, w, l, ids, f, g, n + 1, B)
  BY <1>1, <1>3, NewNumber DEF WithNumber
<1>5. u.previous = n + 1
  BY <1>4 DEF Ver
<1> DEFINE c == Consumer(v, "open")
<1>6. c.verifier = v /\ c.verdict = "open"
  BY ConsumerFields
<1> HIDE DEF c
<1>7. After(c, e) = Consumer(u, "accepted")
  BY <1>1, <1>2, <1>3, <1>6 DEF After, WithNumber
<1> QED
  BY <1>5, <1>7 DEF c

LEMMA Begins ==
    ASSUME NEW r, NEW w, NEW l, NEW d, d = [request |-> r, from |-> l, view |-> w],
           NEW e, e = Entry(1, "invocation_started", d), AcceptsStart(NewVerifier(r), e),
           NEW k, k.request = r, k.view = w, k.last = l, k.ids = {l} \ {0}, Truth(k.first)
    PROVE  \E u : After(Consumer(NewVerifier(r), "open"), e) = Consumer(u, "open") /\ Is(u, k, 1, Boundary)
<1>1. PICK o : o = TRUE
  OBVIOUS
<1>2. PICK g : g = FALSE
  OBVIOUS
<1>3. NewVerifier(r) = Ver(o, r, NoView, 0, {}, o, g, 0, Boundary)
  BY <1>1, <1>2, Zenon DEF NewVerifier, Ver
<1>4. e.seq = 1 /\ e.data.view = w /\ e.data.from = l
  BY DEF Entry
<1>5. PICK v : v = NewVerifier(r)
  OBVIOUS
<1>6. PICK ids : ids = {e.data.from} \ {0}
  OBVIOUS
<1>7. Started(v, e) = AtStart(v, e.data.view, e.data.from, e.seq, ids)
  BY <1>6, Zenon DEF Started, AtStart
<1>8. Started(v, e) = Ver(o, r, e.data.view, e.data.from, ids, o, g, e.seq, Boundary)
  BY <1>3, <1>5, <1>7, StartFields
<1>9. k.ids = ids
  BY <1>4, <1>6
<1>10. Is(Started(v, e), k, 1, Boundary)
  <2>1. Truth(o) /\ Falsity(g) /\ k.first = o
    BY <1>1, <1>2 DEF Truth, Falsity
  <2>2. Started(v, e) = Ver(o, k.request, k.view, k.last, k.ids, k.first, g, 1, Boundary)
    BY <1>4, <1>8, <1>9, <2>1
  <2> QED
    BY <2>1, <2>2 DEF Is
<1> DEFINE c == Consumer(v, "open")
<1>11. c.verifier = v /\ c.verdict = "open"
  BY ConsumerFields
<1> HIDE DEF c
<1>12. v.previous = 0
  BY <1>3, <1>5 DEF Ver
<1>13. After(c, e) = Consumer(Started(v, e), "open")
  BY <1>5, <1>11, <1>12 DEF After
<1> QED
  BY <1>5, <1>10, <1>13 DEF c

(* What the bounds of a boundary let its checkpoint say.                   *)
LEMMA BoundaryIdle ==
    ASSUME NEW v, v.b = Boundary
    PROVE  ~ActiveEffect(v)
BY DEF ActiveEffect, Boundary

LEMMA TurnClosesModel ==
    ASSUME NEW v, NEW d, v.b = Modelled(Len(d.calls))
    PROVE  ModelBoundary(v, d)
BY DEF ModelBoundary, Modelled, Bounds

LEMMA FactClosesBatch ==
    ASSUME NEW v, NEW d, NEW b, b # NoBatch, NEW se, NEW sn, NEW de, v.b = Executing(b, {}, se, sn, de),
           b = [id |-> d.batch, calls |-> d.calls, parallel |-> d.parallel],
           \A i \in DOMAIN d.calls : d.outcomes[i] # "failure" => \E t \in se : t.call = d.calls[i],
           \A t \in se : t.index \in DOMAIN d.calls /\ d.calls[t.index] = t.call /\ d.outcomes[t.index] = t.outcome
    PROVE  ToolBoundary(v, d)
<1>1. v.b.model = "idle" /\ v.b.running = {} /\ v.b.waiting = {} /\ v.b.batch = b /\ v.b.settled = se
  <2>1. v.b = Bounds("idle", 0, b, {}, se, sn, {}, de)
    BY DEF Executing
  <2> QED
    BY <2>1, BoundsFields
<1> QED
  BY <1>1 DEF ToolBoundary

-----------------------------------------------------------------------------
(* What a consumer who has read everything emitted so far knows: the       *)
(* engine's checkpoint, and of its boundary what was announced.            *)
CallsOf(S) == {batch.calls[i] : i \in S}

Settled(se) ==
    /\ \A t \in se : /\ t.index \in DOMAIN tools /\ batch.calls[t.index] = t.call
                     /\ tools[t.index] = t.outcome /\ t.outcome \notin {"ready", "running"}
    /\ \A i \in DOMAIN tools :
           tools[i] \notin {"ready", "running", "failure"} => \E t \in se : t.call = batch.calls[i]

InExecution(B) ==
    \E se, sn, de : /\ B = Executing(batch, CallsOf(Running), se, sn, de) /\ Settled(se)
                    /\ \A i \in Bound(tools) : batch.calls[i] \notin sn

Answered(B) ==
    /\ InBatch /\ change.calls = batch.calls /\ change.outcomes = tools
    /\ \A i \in DOMAIN tools : tools[i] \notin {"ready", "running"}
    /\ \E se, sn, de : B = Executing(batch, {}, se, sn, de) /\ Settled(se)

AtPoint(B) ==
    /\ pc \in {"catalog", "loop"} => B = Boundary
    /\ pc = "model" => B = Modelling
    /\ pc = "approve" => B = Approving(batch, CallsOf(Bound(tools)), {})
    /\ pc = "exec" => InExecution(B)
    /\ pc = "commit" => /\ change.fact = "model_turn" => B = Modelled(Len(change.calls))
                        /\ change.fact = "tool_batch" => Answered(B)
                        /\ change.fact \in {"started", "resumed"} => B = Boundary

Situation(k) ==
    /\ k.request = request /\ k.view = view /\ k.last = last /\ k.ids \subseteq 0..last
    /\ k.first /\ request = "resume" =>
           pc = "commit" /\ (change.fact = "resumed" \/ DeadlineControl(change))

Meets(c) ==
    /\ pc \in {"new", "attached"} => c = Consumer(NewVerifier(request), "open") /\ sequence = 0
    /\ pc \in Alive => \E v, k, B : /\ c = Consumer(v, "open") /\ Is(v, k, sequence, B) /\ sequence # 0
                                    /\ Situation(k) /\ AtPoint(B)
    /\ pc \in {"closing", "done"} => c.verdict = "accepted" /\ c.verifier.previous # 0

(* What a step adds to the queue takes that consumer along.                *)
Advances(c) ==
    \/ queue' = queue /\ Meets(c)'
    \/ \E q, d : queue' = queue \o q /\ Ahead(c, q, d) /\ Meets(d)'

Quiescent == UNCHANGED <<request, pc, view, last, change, batch, tools, stream>>

LEMMA StaysPut ==
    ASSUME NEW c, Meets(c), Quiescent
    PROVE  Advances(c)
<1>1. Meets(c)' <=> Meets(c)
  BY DEF Quiescent, stream, Meets, AtPoint, InExecution, Answered, Settled, CallsOf, Running, Bound,
         Situation, InBatch
<1> QED
  BY <1>1 DEF Quiescent, stream, Advances

LEMMA SituationKept ==
    ASSUME NEW k, Situation(k), UNCHANGED <<request, view, last>>, pc # "commit"
    PROVE  Situation(k)'
BY DEF Situation

LEMMA Moves ==
    ASSUME NEW v, NEW k, NEW B, NEW q, NEW C, Is(v, k, sequence, B), Reaches(k, sequence, B, q, C),
           queue' = queue \o q, sequence' = sequence + Len(q), sequence' # 0,
           pc' \in Alive, Situation(k)', AtPoint(C)'
    PROVE  Advances(Consumer(v, "open"))
<1>1. PICK u : Ahead(Consumer(v, "open"), q, Consumer(u, "open")) /\ Is(u, k, sequence + Len(q), C)
  BY DEF Reaches
<1> DEFINE d == Consumer(u, "open")
<1>2. Is(u, k, sequence', C)
  BY <1>1
<1>3. Meets(d)'
  BY <1>2 DEF Meets, Alive
<1> HIDE DEF d
<1>4. Ahead(Consumer(v, "open"), q, d)
  BY <1>1 DEF d
<1> QED
  BY <1>3, <1>4 DEF Advances

LEMMA Rests ==
    ASSUME NEW v, NEW k, NEW B, Is(v, k, sequence, B), UNCHANGED stream, sequence # 0,
           pc' \in Alive, Situation(k)', AtPoint(B)'
    PROVE  Advances(Consumer(v, "open"))
<1> DEFINE d == Consumer(v, "open")
<1>1. queue' = queue /\ sequence' = sequence
  BY DEF stream
<1>2. Is(v, k, sequence', B)
  BY <1>1
<1>3. Meets(d)'
  BY <1>1, <1>2 DEF Meets, Alive
<1> HIDE DEF d
<1> QED
  BY <1>1, <1>3 DEF Advances, d

LEMMA SentOnly ==
    ASSUME NEW kind, NEW d, NEW n \in Nat
    PROVE  Sent(<<Event(kind, d)>>, n) = <<Entry(n + 1, kind, d)>>
<1> DEFINE s == <<Event(kind, d)>>
           x == Event(kind, d)
<1>1. Sequential(s) /\ Len(s) = 1 /\ s[1] = x
  BY Short
<1>2. x.kind = kind /\ x.data = d
  BY DEF Event
<1>3. s[1] = Event(s[1].kind, s[1].data)
  BY <1>1, <1>2
<1> HIDE DEF s
<1>4. Sequential(Sent(s, n)) /\ Len(Sent(s, n)) = 1
      /\ Sent(s, n)[1] = [seq |-> n + 1, kind |-> s[1].kind, data |-> s[1].data]
  BY <1>1, <1>3, SentIs
<1>5. Sent(s, n)[1] = Entry(n + 1, kind, d)
  BY <1>1, <1>2, <1>4 DEF Entry
<1>6. PICK M : Sent(s, n) \in Seq(M)
  BY <1>4 DEF Sequential
<1>7. Sent(s, n) = <<Sent(s, n)[1]>>
  BY <1>4, <1>6
<1> QED
  BY <1>5, <1>7 DEF s

LEMMA EmitsEvents ==
    ASSUME ~Unread, NEW events, Emit(events)
    PROVE  queue' = queue \o Sent(events, sequence) /\ sequence' = sequence + Len(events)
BY DEF Emit, Numbered, Sent

LEMMA EmitsEvent ==
    ASSUME ~Unread, sequence \in Nat, NEW kind, NEW d, Emit(<<Event(kind, d)>>)
    PROVE  /\ queue' = queue \o <<Entry(sequence + 1, kind, d)>>
           /\ sequence' = sequence + Len(<<Entry(sequence + 1, kind, d)>>)
           /\ sequence' = sequence + 1
<1>1. Len(<<Event(kind, d)>>) = 1 /\ Len(<<Entry(sequence + 1, kind, d)>>) = 1
  BY Short
<1>2. queue' = queue \o Sent(<<Event(kind, d)>>, sequence) /\ sequence' = sequence + Len(<<Event(kind, d)>>)
  BY EmitsEvents
<1>3. Sent(<<Event(kind, d)>>, sequence) = <<Entry(sequence + 1, kind, d)>>
  BY SentOnly
<1> QED
  BY <1>1, <1>2, <1>3

(* A boundary that is given up for a control, the deadline or an insert.   *)
LEMMA GivesWay ==
    ASSUME NEW c, Meets(c), pc \in Alive \ {"commit"}, pc' = "commit",
           change'.fact \in {"control", "conversation_insert"}, UNCHANGED <<request, view, last, stream>>
    PROVE  Advances(c)
<1>1. PICK v, k, B : /\ c = Consumer(v, "open") /\ Is(v, k, sequence, B) /\ sequence # 0 /\ Situation(k)
  BY DEF Meets
<1>2. Situation(k)'
  BY <1>1, SituationKept
<1>3. AtPoint(B)'
  BY DEF AtPoint
<1> QED
  BY <1>1, <1>2, <1>3, Rests DEF Alive

-----------------------------------------------------------------------------
(* Every step of the engine takes the consumer along.                      *)
LEMMA StartingAdvances ==
    ASSUME EngineInv, ~Unread, NEW c, Meets(c), Initialize
    PROVE  Advances(c)
<1>1. pc = "attached" /\ Requested /\ last \in Nat
  BY DEF Initialize, EngineInv
<1>2. c = Consumer(NewVerifier(request), "open") /\ sequence = 0
  BY <1>1 DEF Meets
<1>3. PICK d : d = [request |-> request, from |-> last, view |-> view]
  OBVIOUS
<1>4. PICK e : e = Entry(1, "invocation_started", d)
  OBVIOUS
<1>5. Emit(<<Event("invocation_started", d)>>)
  BY <1>3 DEF Initialize
<1>6. queue' = queue \o <<e>> /\ sequence' = 1
  <2>1. sequence \in Nat /\ sequence + 1 = 1
    BY <1>2
  <2> QED
    BY <1>4, <1>5, <2>1, EmitsEvent
<1>7. AcceptsStart(NewVerifier(request), e)
  <2>1. NewVerifier(request).request = request
    BY DEF NewVerifier
  <2>2. e.kind = "invocation_started" /\ e.data.request = request /\ e.data.from = last /\ e.data.view = view
    BY <1>3, <1>4 DEF Entry
  <2>3. CASE request = "start"
    BY <1>1, <2>1, <2>2, <2>3 DEF Requested, AcceptsStart
  <2>4. CASE request = "continue"
    BY <1>1, <2>1, <2>2, <2>4 DEF Requested, AcceptsStart
  <2>5. CASE request = "resume"
    BY <1>1, <2>1, <2>2, <2>5 DEF Requested, AcceptsStart
  <2> QED
    BY <1>1, <2>3, <2>4, <2>5 DEF Requested
<1>8. PICK k : /\ k.request = request /\ k.view = view /\ k.last = last /\ k.ids = {last} \ {0}
               /\ Truth(k.first)
  <2> DEFINE r == [request |-> request, view |-> view, last |-> last, ids |-> {last} \ {0}, first |-> TRUE]
  <2>1. r.request = request /\ r.view = view /\ r.last = last /\ r.ids = {last} \ {0} /\ Truth(r.first)
    BY DEF Truth
  <2> HIDE DEF r
  <2> QED
    BY <2>1
<1>9. PICK u : After(c, e) = Consumer(u, "open") /\ Is(u, k, 1, Boundary)
  BY <1>2, <1>3, <1>4, <1>7, <1>8, Begins
<1>10. Ahead(c, <<e>>, Consumer(u, "open"))
  <2>1. c.verdict # "refused" /\ Consumer(u, "open").verdict # "refused"
    BY <1>2, ConsumerFields
  <2> QED
    BY <1>9, <2>1, AheadOne
<1>11. /\ UNCHANGED <<request, view, last>>
       /\ \/ request = "start" /\ pc' = "commit" /\ change'.fact = "started"
          \/ request = "continue" /\ pc' = "catalog"
          \/ request = "resume" /\ pc' = "commit" /\ change'.fact = "resumed"
  <2>1. UNCHANGED <<request, view, last>>
    BY DEF Initialize
  <2>2. CASE request = "start"
    BY <2>1, <2>2 DEF Initialize, Commit, Checkpointing
  <2>3. CASE request = "continue"
    BY <2>1, <2>3 DEF Initialize
  <2>4. CASE request = "resume"
    BY <2>1, <2>4 DEF Initialize, Commit, Checkpointing
  <2> QED
    BY <1>1, <2>1, <2>2, <2>3, <2>4 DEF Requested
<1>12. Situation(k)' /\ AtPoint(Boundary)' /\ pc' \in Alive
  <2>1. k.ids \subseteq 0..last
    BY <1>1, <1>8
  <2>2. Situation(k)'
    BY <1>8, <1>11, <2>1 DEF Situation
  <2>3. AtPoint(Boundary)' /\ pc' \in Alive
    BY <1>11 DEF AtPoint, Alive
  <2> QED
    BY <2>2, <2>3
<1> DEFINE w == Consumer(u, "open")
<1>13. Meets(w)'
  <2>1. sequence' # 0 /\ Is(u, k, sequence', Boundary)
    BY <1>6, <1>9
  <2> QED
    BY <1>12, <2>1 DEF Meets, Alive
<1> HIDE DEF w
<1>14. Ahead(c, <<e>>, w)
  BY <1>10 DEF w
<1> QED
  BY <1>6, <1>13, <1>14 DEF Advances

LEMMA PlanAdvances ==
    ASSUME EngineInv, ~Unread, sequence \in Nat, NEW c, Meets(c), Plan
    PROVE  Advances(c)
<1>1. pc = "loop" /\ view.kind = "planning" /\ UNCHANGED <<request, view, last>> /\ GoodView(view)
  BY DEF Plan, Quiet, AtLoop, EngineInv
<1>2. CASE view.steps >= MaxSteps
  <2>1. pc' = "commit" /\ change' = Ends("limited", FALSE) /\ UNCHANGED stream
    BY <1>2 DEF Plan, Commit
  <2>2. change'.fact = "control"
    BY <1>1, <2>1, EndsGood DEF TerminalStates
  <2> QED
    BY <1>1, <2>1, <2>2, GivesWay DEF Alive
<1>3. CASE ~(view.steps >= MaxSteps)
  <2>1. PICK d : d = [step |-> view.steps + 1]
    OBVIOUS
  <2>2. Emit(<<Event("model_started", d)>>) /\ pc' = "model"
    BY <1>3, <2>1 DEF Plan
  <2>3. PICK e : e = Entry(sequence + 1, "model_started", d)
    OBVIOUS
  <2>4. queue' = queue \o <<e>> /\ sequence' = sequence + Len(<<e>>) /\ sequence' = sequence + 1
    BY <2>2, <2>3, EmitsEvent
  <2>5. PICK v, k, B : /\ c = Consumer(v, "open") /\ Is(v, k, sequence, B) /\ sequence # 0
                       /\ Situation(k) /\ AtPoint(B)
    BY <1>1 DEF Meets, Alive
  <2>6. B = Boundary
    BY <1>1, <2>5 DEF AtPoint
  <2>7. Reaches(k, sequence, B, <<e>>, Modelling)
    <3>1. k.view.kind = "planning" /\ d.step = k.view.steps + 1 /\ sequence \in Nat \ {0}
      BY <1>1, <2>1, <2>5 DEF Situation
    <3> QED
      BY <2>3, <2>6, <3>1, StartsModel
  <2>8. Situation(k)' /\ AtPoint(Modelling)' /\ pc' \in Alive
    BY <1>1, <2>2, <2>5, SituationKept DEF AtPoint, Alive
  <2>9. sequence' # 0
    BY <2>4
  <2> QED
    BY <2>4, <2>5, <2>7, <2>8, <2>9, Moves
<1> QED
  BY <1>2, <1>3

LEMMA DeltaAdvances ==
    ASSUME EngineInv, ~Unread, sequence \in Nat, NEW c, Meets(c), ModelEmitsDelta
    PROVE  Advances(c)
<1>1. pc = "model" /\ UNCHANGED <<request, pc, view, last, change, batch, tools>>
  BY DEF ModelEmitsDelta, At
<1>2. CASE UNCHANGED stream
  BY <1>1, <1>2, StaysPut DEF Quiescent
<1>3. CASE ~UNCHANGED stream
  <2>1. PICK e : e = Entry(sequence + 1, "model_delta", Nothing)
    OBVIOUS
  <2>2. queue' = queue \o Sent(<<Event("model_delta", Nothing)>>, sequence) /\ sequence' = sequence + 1
    BY <1>3 DEF ModelEmitsDelta, EmitLossy, Numbered, Sent
  <2>3. Sent(<<Event("model_delta", Nothing)>>, sequence) = <<e>> /\ Len(<<e>>) = 1
    BY <2>1, SentOnly, Short
  <2>4. queue' = queue \o <<e>> /\ sequence' = sequence + Len(<<e>>) /\ sequence' # 0
    <3>1. queue' = queue \o <<e>>
      BY <2>2, <2>3, Zenon
    <3>2. Len(<<e>>) = 1
      BY <2>3
    <3> QED
      BY <2>2, <3>1, <3>2
  <2>5. PICK v, k, B : /\ c = Consumer(v, "open") /\ Is(v, k, sequence, B) /\ sequence # 0
                       /\ Situation(k) /\ AtPoint(B)
    BY <1>1 DEF Meets, Alive
  <2>6. B = Modelling
    BY <1>1, <2>5 DEF AtPoint
  <2>7. Reaches(k, sequence, B, <<e>>, Modelling)
    BY <2>1, <2>5, <2>6, GoesOnModel
  <2>8. Situation(k)' /\ AtPoint(Modelling)' /\ pc' \in Alive
    BY <1>1, <2>5, SituationKept DEF AtPoint, Alive
  <2> QED
    BY <2>4, <2>5, <2>7, <2>8, Moves
<1> QED
  BY <1>2, <1>3

LEMMA AnswerAdvances ==
    ASSUME EngineInv, ~Unread, sequence \in Nat, NEW c, Meets(c), ModelAnswers
    PROVE  Advances(c)
<1>1. pc = "model" /\ UNCHANGED <<request, view, last>> /\ GoodView(view)
  BY DEF ModelAnswers, At, EngineInv
<1>2. PICK n \in 0..MaxCalls :
          \E kind \in {"completed", "planning", "limited", "tools_pending"} : FinishModel(NewCalls(n), kind)
  BY DEF ModelAnswers
<1>3. PICK kind \in {"completed", "planning", "limited", "tools_pending"} : FinishModel(NewCalls(n), kind)
  BY <1>2
<1>4. PICK d : d = [calls |-> Len(NewCalls(n))]
  OBVIOUS
<1>5. /\ Emit(<<Event("model_finished", d)>>) /\ pc' = "commit"
      /\ change' = Answer(NewCalls(n), kind)
  BY <1>3, <1>4 DEF FinishModel, Commit
<1>6. change'.fact = "model_turn" /\ Len(change'.calls) = d.calls
  BY <1>1, <1>4, <1>5, AnswerGood
<1>7. PICK e : e = Entry(sequence + 1, "model_finished", d)
  OBVIOUS
<1>8. queue' = queue \o <<e>> /\ sequence' = sequence + Len(<<e>>) /\ sequence' = sequence + 1
  BY <1>5, <1>7, EmitsEvent
<1>9. PICK v, k, B : /\ c = Consumer(v, "open") /\ Is(v, k, sequence, B) /\ sequence # 0
                     /\ Situation(k) /\ AtPoint(B)
  BY <1>1 DEF Meets, Alive
<1>10. B = Modelling
  BY <1>1, <1>9 DEF AtPoint
<1>11. Reaches(k, sequence, B, <<e>>, Modelled(d.calls))
  BY <1>7, <1>9, <1>10, FinishesModel
<1>12. Situation(k)' /\ AtPoint(Modelled(d.calls))' /\ pc' \in Alive
  BY <1>1, <1>5, <1>6, <1>9, SituationKept DEF AtPoint, Alive
<1>13. sequence' # 0
  BY <1>8
<1> QED
  BY <1>8, <1>9, <1>11, <1>12, <1>13, Moves

-----------------------------------------------------------------------------
(* Several events of one kind, one for each of the listed calls.           *)
LEMMA SameSequence ==
    ASSUME NEW s, NEW t, Sequential(s), Sequential(t), Len(s) = Len(t), \A i \in 1..Len(s) : s[i] = t[i]
    PROVE  s = t
<1>1. PICK M : s \in Seq(M)
  BY DEF Sequential
<1>2. PICK N : t \in Seq(N)
  BY DEF Sequential
<1>3. s = [i \in 1..Len(s) |-> s[i]] /\ t = [i \in 1..Len(t) |-> t[i]]
  BY <1>1, <1>2
<1> QED
  BY <1>3

LEMMA SentJoined ==
    ASSUME NEW a, NEW b, Sequential(a), Sequential(b), NEW n \in Nat
    PROVE  Sent(a \o b, n) = Sent(a, n) \o Sent(b, n + Len(a))
<1> DEFINE s == Sent(a \o b, n)
           x == Sent(a, n)
           y == Sent(b, n + Len(a))
           t == x \o y
<1>1. /\ Len(a) \in Nat /\ Len(b) \in Nat /\ DOMAIN a = 1..Len(a) /\ DOMAIN b = 1..Len(b)
      /\ DOMAIN (a \o b) = 1..Len(a \o b)
  BY SequentialIs, Joined
<1>2. /\ Sequential(a \o b) /\ Len(a \o b) = Len(a) + Len(b)
      /\ \A i \in 1..Len(a) : (a \o b)[i] = a[i]
      /\ \A i \in 1..Len(b) : (a \o b)[Len(a) + i] = b[i]
  BY Joined
<1>3. Sequential(s) /\ Len(s) = Len(a) + Len(b)
  BY <1>2, SentIs
<1>4. Sequential(x) /\ Len(x) = Len(a) /\ Sequential(y) /\ Len(y) = Len(b)
  BY SentIs
<1>5. /\ Sequential(t) /\ Len(t) = Len(a) + Len(b)
      /\ \A i \in 1..Len(a) : t[i] = x[i]
      /\ \A i \in 1..Len(b) : t[Len(a) + i] = y[i]
  <2> HIDE DEF x, y
  <2> QED
    BY <1>4, Joined
<1>6. ASSUME NEW i \in 1..(Len(a) + Len(b)) PROVE s[i] = t[i]
  <2>0. s[i] = [(a \o b)[i] EXCEPT !.seq = n + i]
    BY <1>1, <1>2 DEF Sent
  <2>1. CASE i \in 1..Len(a)
    <3>1. x[i] = [a[i] EXCEPT !.seq = n + i]
      BY <1>1, <2>1 DEF Sent
    <3> HIDE DEF s, t, x
    <3>2. (a \o b)[i] = a[i] /\ t[i] = x[i]
      BY <1>2, <1>5, <2>1
    <3> QED
      BY <2>0, <3>1, <3>2, Zenon
  <2>2. CASE i \notin 1..Len(a)
    <3>1. PICK j \in 1..Len(b) : i = Len(a) + j
      <4>1. i - Len(a) \in 1..Len(b) /\ i = Len(a) + (i - Len(a))
        BY <1>1, <2>2
      <4> QED
        BY <4>1
    <3>2. y[j] = [b[j] EXCEPT !.seq = (n + Len(a)) + j]
      BY <1>1 DEF Sent
    <3>3. (n + Len(a)) + j = n + i
      BY <1>1, <3>1
    <3> HIDE DEF s, t, y
    <3>4. (a \o b)[i] = b[j] /\ t[i] = y[j]
      BY <1>2, <1>5, <3>1
    <3> QED
      BY <2>0, <3>2, <3>3, <3>4, Zenon
  <2> QED
    BY <2>1, <2>2
<1> HIDE DEF s, t
<1>7. s = t
  BY <1>3, <1>5, <1>6, SameSequence
<1> QED
  BY <1>7 DEF s, t

(* The calls at the first j indices of a list. *)
Named(b, idx, j) == {b.calls[idx[i]] : i \in 1..j}

(* Each index adds a call that was not there. *)
Grows(b, idx) ==
    /\ \A j \in Nat : Named(b, idx, j + 1) = Named(b, idx, j) \cup {b.calls[idx[j + 1]]}
    /\ \A j \in 0..(Len(idx) - 1) : b.calls[idx[j + 1]] \notin Named(b, idx, j)

LEMMA NamedIs ==
    ASSUME NEW b, NEW M, b.calls \in Seq(M), Distinct(b.calls), NEW idx, Sequential(idx), Distinct(idx),
           \A i \in 1..Len(idx) : idx[i] \in 1..Len(b.calls)
    PROVE  Named(b, idx, 0) = {} /\ Grows(b, idx)
<1>0. Len(idx) \in Nat /\ Len(b.calls) \in Nat
  BY SequentialIs
<1>1. Named(b, idx, 0) = {}
  <2>1. 1..0 = {}
    OBVIOUS
  <2> QED
    BY <2>1 DEF Named
<1>2. ASSUME NEW j \in Nat PROVE Named(b, idx, j + 1) = Named(b, idx, j) \cup {b.calls[idx[j + 1]]}
  <2>1. \A i : i \in 1..(j + 1) <=> i \in 1..j \/ i = j + 1
    OBVIOUS
  <2> QED
    BY <2>1 DEF Named
<1>3. ASSUME NEW j \in 0..(Len(idx) - 1), b.calls[idx[j + 1]] \in Named(b, idx, j) PROVE FALSE
  <2>1. PICK i \in 1..j : b.calls[idx[j + 1]] = b.calls[idx[i]]
    BY <1>3 DEF Named
  <2>2. i \in 1..Len(idx) /\ j + 1 \in 1..Len(idx) /\ i # j + 1
    BY <1>0
  <2>3. idx[i] \in 1..Len(b.calls) /\ idx[j + 1] \in 1..Len(b.calls)
    BY <2>2
  <2>4. idx[i] = idx[j + 1]
    BY <2>1, <2>3 DEF Distinct
  <2> QED
    BY <2>2, <2>4 DEF Distinct
<1> QED
  BY <1>1, <1>2, <1>3 DEF Grows

DataOf(b, i) == [batch |-> b.id, index |-> i, call |-> b.calls[i], parallel |-> b.parallel]

(* es are the entries of that kind, after n others, of the calls at idx. *)
Announced(es, n, kind, idx, b) ==
    /\ Sequential(es) /\ Len(es) = Len(idx)
    /\ \A i \in 1..Len(idx) : es[i] = Entry(n + i, kind, DataOf(b, idx[i]))

LEMMA EachSent ==
    ASSUME NEW kind, NEW idx, Sequential(idx), NEW n \in Nat, NEW b, batch' = b
    PROVE  Announced(Sent(EachOf(kind, idx), n), n, kind, idx, b)
<1> DEFINE es == EachOf(kind, idx)
<1>1. Sequential(es) /\ Len(es) = Len(idx)
      /\ \A i \in 1..Len(idx) : es[i] = Event(kind, Data(idx[i]))
  BY EachOfIs
<1> HIDE DEF es
<1>2. /\ Sequential(Sent(es, n)) /\ Len(Sent(es, n)) = Len(idx)
      /\ \A i \in 1..Len(idx) :
             es[i] = Event(es[i].kind, es[i].data) =>
                 Sent(es, n)[i] = [seq |-> n + i, kind |-> es[i].kind, data |-> es[i].data]
  BY <1>1, SentIs
<1>3. ASSUME NEW i \in 1..Len(idx) PROVE Sent(es, n)[i] = Entry(n + i, kind, DataOf(b, idx[i]))
  <2> DEFINE d == Data(idx[i])
  <2>1. es[i] = Event(kind, d)
    BY <1>1
  <2> HIDE DEF d
  <2>2. es[i].kind = kind /\ es[i].data = d
    BY <2>1 DEF Event
  <2>3. es[i] = Event(es[i].kind, es[i].data)
    BY <2>1, <2>2
  <2>4. Sent(es, n)[i] = [seq |-> n + i, kind |-> kind, data |-> d]
    BY <1>2, <2>2, <2>3
  <2>5. d = DataOf(b, idx[i])
    BY DEF d, Data, DataOf
  <2> QED
    BY <2>4, <2>5 DEF Entry
<1> QED
  BY <1>2, <1>3 DEF es, Announced

LEMMA AsksForAll ==
    ASSUME NEW k, NEW n \in Nat \ {0}, k.view.kind = "tools_pending", NEW b, b # NoBatch,
           NEW M, b.calls \in Seq(M), Distinct(b.calls), NEW idx, Sequential(idx), Distinct(idx),
           \A i \in 1..Len(idx) : idx[i] \in 1..Len(b.calls),
           NEW es, Announced(es, n, "approval_requested", idx, b)
    PROVE  Reaches(k, n, Approving(b, {}, {}), es, Approving(b, Named(b, idx, Len(idx)), {}))
<1> DEFINE C == [j \in 0..Len(idx) |-> Approving(b, Named(b, idx, j), {})]
<1>0. Len(idx) \in Nat /\ Len(b.calls) \in Nat /\ DOMAIN b.calls = 1..Len(b.calls)
  BY SequentialIs
<1>8. Sequential(es) /\ Len(es) = Len(idx)
  BY DEF Announced
<1>1. \A j \in 0..Len(idx) : C[j] = Approving(b, Named(b, idx, j), {})
  OBVIOUS
<1> HIDE DEF C
<1>9. Grows(b, idx)
  BY NamedIs
<1>2. ASSUME NEW j \in 0..(Len(es) - 1) PROVE Reaches(k, n + j, C[j], <<es[j + 1]>>, C[j + 1])
  <2> DEFINE w == Named(b, idx, j)
             i == idx[j + 1]
  <2>1. PICK d : d = DataOf(b, i)
    OBVIOUS
  <2>2. j \in 0..Len(idx) /\ j + 1 \in 1..Len(idx) /\ j + 1 \in 0..Len(idx) /\ j \in Nat /\ j \in 0..(Len(idx) - 1)
    BY <1>0, <1>8
  <2>3. C[j] = Approving(b, w, {}) /\ C[j + 1] = Approving(b, Named(b, idx, j + 1), {})
    BY <1>1, <2>2
  <2>4. Named(b, idx, j + 1) = w \cup {b.calls[i]} /\ b.calls[i] \notin w
    BY <1>9, <2>2 DEF Grows
  <2>5. i \in 1..Len(b.calls)
    BY <2>2
  <2>6. d.batch = b.id /\ d.index = i /\ d.call = b.calls[i]
    BY <2>1 DEF DataOf
  <2>7. es[j + 1] = Entry(n + (j + 1), "approval_requested", d)
    BY <2>1, <2>2 DEF Announced
  <2>8. n + (j + 1) = (n + j) + 1 /\ n + j \in Nat \ {0}
    BY <2>2
  <2> HIDE DEF w, i
  <2>9. d.index \in DOMAIN b.calls /\ b.calls[d.index] = d.call /\ d.call \notin w \cup {}
    BY <1>0, <2>4, <2>5, <2>6
  <2>10. Reaches(k, n + j, Approving(b, w, {}), <<es[j + 1]>>, Approving(b, w \cup {d.call}, {}))
    BY <2>6, <2>7, <2>8, <2>9, AsksFor
  <2> QED
    BY <2>3, <2>4, <2>6, <2>10
<1>3. Reaches(k, n, C[0], es, C[Len(es)])
  BY <1>2, <1>8, ReachesEach
<1>4. C[0] = Approving(b, {}, {}) /\ C[Len(es)] = Approving(b, Named(b, idx, Len(idx)), {})
  <2>1. 0 \in 0..Len(idx) /\ Len(idx) \in 0..Len(idx)
    BY <1>0
  <2> QED
    BY <1>1, <1>8, <2>1, NamedIs
<1> QED
  BY <1>3, <1>4

LEMMA DecidesAll ==
    ASSUME NEW k, NEW n \in Nat \ {0}, NEW b,
           NEW M, b.calls \in Seq(M), Distinct(b.calls), NEW idx, Sequential(idx), Distinct(idx),
           \A i \in 1..Len(idx) : idx[i] \in 1..Len(b.calls),
           NEW w, \A i \in 1..Len(idx) : b.calls[idx[i]] \in w,
           NEW es, Announced(es, n, "approval_decided", idx, b)
    PROVE  Reaches(k, n, Approving(b, w, {}), es,
                   Approving(b, w \ Named(b, idx, Len(idx)), Named(b, idx, Len(idx))))
<1> DEFINE C == [j \in 0..Len(idx) |-> Approving(b, w \ Named(b, idx, j), Named(b, idx, j))]
<1>0. Len(idx) \in Nat /\ Len(b.calls) \in Nat /\ DOMAIN b.calls = 1..Len(b.calls)
  BY SequentialIs
<1>8. Sequential(es) /\ Len(es) = Len(idx)
  BY DEF Announced
<1>1. \A j \in 0..Len(idx) : C[j] = Approving(b, w \ Named(b, idx, j), Named(b, idx, j))
  OBVIOUS
<1> HIDE DEF C
<1>9. Grows(b, idx)
  BY NamedIs
<1>2. ASSUME NEW j \in 0..(Len(es) - 1) PROVE Reaches(k, n + j, C[j], <<es[j + 1]>>, C[j + 1])
  <2> DEFINE de == Named(b, idx, j)
             i == idx[j + 1]
  <2>1. PICK d : d = DataOf(b, i)
    OBVIOUS
  <2>2. j \in 0..Len(idx) /\ j + 1 \in 1..Len(idx) /\ j + 1 \in 0..Len(idx) /\ j \in Nat /\ j \in 0..(Len(idx) - 1)
    BY <1>0, <1>8
  <2>3. C[j] = Approving(b, w \ de, de)
        /\ C[j + 1] = Approving(b, w \ Named(b, idx, j + 1), Named(b, idx, j + 1))
    BY <1>1, <2>2
  <2>4. Named(b, idx, j + 1) = de \cup {b.calls[i]} /\ b.calls[i] \notin de
    BY <1>9, <2>2 DEF Grows
  <2>5. b.calls[i] \in w
    BY <2>2
  <2>6. d.call = b.calls[i]
    BY <2>1 DEF DataOf
  <2>7. es[j + 1] = Entry(n + (j + 1), "approval_decided", d)
    BY <2>1, <2>2 DEF Announced
  <2>8. n + (j + 1) = (n + j) + 1 /\ n + j \in Nat \ {0}
    BY <2>2
  <2> HIDE DEF de, i
  <2>9. d.call \in w \ de
    BY <2>4, <2>5, <2>6
  <2>10. Reaches(k, n + j, Approving(b, w \ de, de), <<es[j + 1]>>,
                 Approving(b, (w \ de) \ {d.call}, de \cup {d.call}))
    BY <2>7, <2>8, <2>9, Decides
  <2>11. (w \ de) \ {d.call} = w \ (de \cup {d.call})
    OBVIOUS
  <2> QED
    BY <2>3, <2>4, <2>6, <2>10, <2>11
<1>3. Reaches(k, n, C[0], es, C[Len(es)])
  BY <1>2, <1>8, ReachesEach
<1>4. C[0] = Approving(b, w, {})
      /\ C[Len(es)] = Approving(b, w \ Named(b, idx, Len(idx)), Named(b, idx, Len(idx)))
  <2>1. 0 \in 0..Len(idx) /\ Len(idx) \in 0..Len(idx) /\ w \ {} = w
    BY <1>0
  <2>2. Named(b, idx, 0) = {}
    BY NamedIs
  <2> QED
    BY <1>1, <1>8, <2>1, <2>2
<1> QED
  BY <1>3, <1>4

LEMMA StartsAll ==
    ASSUME NEW k, NEW n \in Nat \ {0}, k.view.kind = "tools_pending", NEW b, b # NoBatch,
           NEW M, b.calls \in Seq(M), Distinct(b.calls), NEW idx, Sequential(idx), Distinct(idx),
           \A i \in 1..Len(idx) : idx[i] \in 1..Len(b.calls),
           NEW ru, NEW se, NEW sn, NEW de, \A i \in 1..Len(idx) : b.calls[idx[i]] \notin sn,
           NEW es, Announced(es, n, "tool_started", idx, b)
    PROVE  Reaches(k, n, Executing(b, ru, se, sn, de), es,
                   Executing(b, ru \cup Named(b, idx, Len(idx)), se, sn \cup Named(b, idx, Len(idx)), de))
<1> DEFINE C == [j \in 0..Len(idx) |-> Executing(b, ru \cup Named(b, idx, j), se, sn \cup Named(b, idx, j), de)]
<1>0. Len(idx) \in Nat /\ Len(b.calls) \in Nat /\ DOMAIN b.calls = 1..Len(b.calls)
  BY SequentialIs
<1>8. Sequential(es) /\ Len(es) = Len(idx)
  BY DEF Announced
<1>1. \A j \in 0..Len(idx) :
          C[j] = Executing(b, ru \cup Named(b, idx, j), se, sn \cup Named(b, idx, j), de)
  OBVIOUS
<1> HIDE DEF C
<1>9. Grows(b, idx)
  BY NamedIs
<1>2. ASSUME NEW j \in 0..(Len(es) - 1) PROVE Reaches(k, n + j, C[j], <<es[j + 1]>>, C[j + 1])
  <2> DEFINE w == Named(b, idx, j)
             i == idx[j + 1]
  <2>1. PICK d : d = DataOf(b, i)
    OBVIOUS
  <2>2. j \in 0..Len(idx) /\ j + 1 \in 1..Len(idx) /\ j + 1 \in 0..Len(idx) /\ j \in Nat /\ j \in 0..(Len(idx) - 1)
    BY <1>0, <1>8
  <2>3. C[j] = Executing(b, ru \cup w, se, sn \cup w, de)
        /\ C[j + 1] = Executing(b, ru \cup Named(b, idx, j + 1), se, sn \cup Named(b, idx, j + 1), de)
    BY <1>1, <2>2
  <2>4. Named(b, idx, j + 1) = w \cup {b.calls[i]} /\ b.calls[i] \notin w
    BY <1>9, <2>2 DEF Grows
  <2>5. i \in 1..Len(b.calls) /\ b.calls[i] \notin sn
    BY <2>2
  <2>6. d.batch = b.id /\ d.index = i /\ d.call = b.calls[i] /\ d.parallel = b.parallel
    BY <2>1 DEF DataOf
  <2>7. es[j + 1] = Entry(n + (j + 1), "tool_started", d)
    BY <2>1, <2>2 DEF Announced
  <2>8. n + (j + 1) = (n + j) + 1 /\ n + j \in Nat \ {0}
    BY <2>2
  <2> HIDE DEF w, i
  <2>9. d.index \in DOMAIN b.calls /\ b.calls[d.index] = d.call /\ d.call \notin sn \cup w
    BY <1>0, <2>4, <2>5, <2>6
  <2>10. Reaches(k, n + j, Executing(b, ru \cup w, se, sn \cup w, de), <<es[j + 1]>>,
                 Executing(b, (ru \cup w) \cup {d.call}, se, (sn \cup w) \cup {d.call}, de))
    BY <2>6, <2>7, <2>8, <2>9, StartsTool
  <2>11. (ru \cup w) \cup {d.call} = ru \cup (w \cup {d.call}) /\ (sn \cup w) \cup {d.call} = sn \cup (w \cup {d.call})
    OBVIOUS
  <2> QED
    BY <2>3, <2>4, <2>6, <2>10, <2>11
<1>3. Reaches(k, n, C[0], es, C[Len(es)])
  BY <1>2, <1>8, ReachesEach
<1>4. C[0] = Executing(b, ru, se, sn, de)
      /\ C[Len(es)] = Executing(b, ru \cup Named(b, idx, Len(idx)), se, sn \cup Named(b, idx, Len(idx)), de)
  <2>1. 0 \in 0..Len(idx) /\ Len(idx) \in 0..Len(idx) /\ ru \cup {} = ru /\ sn \cup {} = sn
    BY <1>0
  <2>2. Named(b, idx, 0) = {}
    BY NamedIs
  <2> QED
    BY <1>1, <1>8, <2>1, <2>2
<1> QED
  BY <1>3, <1>4

-----------------------------------------------------------------------------
(* The steps of a batch.                                                   *)
Asks(statuses) == HasApproval /\ Bound(statuses) # {}

Selects(m, parallel, statuses) ==
    /\ batch' = [id |-> last, calls |-> SubSeq(view.pending, 1, m), parallel |-> parallel]
    /\ tools' = statuses
    /\ Emit(<<Event("tool_batch_selected",
                    [batch |-> last, calls |-> SubSeq(view.pending, 1, m), parallel |-> parallel,
                     rest |-> SubSeq(view.pending, m + 1, Len(view.pending))])>>
            \o IF Asks(statuses) THEN EachOf("approval_requested", Asked(statuses)) ELSE <<>>)
    /\ pc' = IF Asks(statuses) THEN "approve" ELSE "exec"

LEMMA NamedAll ==
    ASSUME NEW M, NEW statuses \in Seq(M), NEW b
    PROVE  Named(b, Asked(statuses), Len(Asked(statuses))) = {b.calls[i] : i \in Bound(statuses)}
<1> DEFINE idx == Asked(statuses)
<1>1. /\ \A i \in 1..Len(idx) : idx[i] \in Bound(statuses)
      /\ \A m \in Bound(statuses) : \E i \in 1..Len(idx) : idx[i] = m
  BY AskedIs
<1> HIDE DEF idx
<1>2. Named(b, idx, Len(idx)) = {b.calls[i] : i \in Bound(statuses)}
  BY <1>1 DEF Named
<1> QED
  BY <1>2 DEF idx

LEMMA PartsJoin ==
    ASSUME NEW M, NEW s \in Seq(M), NEW m \in 0..Len(s)
    PROVE  SubSeq(s, 1, m) \o SubSeq(s, m + 1, Len(s)) = s
<1> DEFINE a == SubSeq(s, 1, m)
           b == SubSeq(s, m + 1, Len(s))
<1>0. Len(s) \in Nat /\ m \in Nat /\ m <= Len(s)
  OBVIOUS
<1>1. a \in Seq(M) /\ Len(a) = m /\ \A i \in 1..m : a[i] = s[i]
  BY <1>0
<1>2. b \in Seq(M) /\ Len(b) = Len(s) - m /\ \A i \in 1..(Len(s) - m) : b[i] = s[m + i]
  BY <1>0
<1> HIDE DEF a, b
<1>3. Sequential(a) /\ Sequential(b) /\ Sequential(s)
  BY <1>1, <1>2 DEF Sequential
<1>4. /\ Sequential(a \o b) /\ Len(a \o b) = Len(s)
      /\ \A i \in 1..m : (a \o b)[i] = a[i]
      /\ \A i \in 1..(Len(s) - m) : (a \o b)[m + i] = b[i]
  <2>1. /\ Sequential(a \o b) /\ Len(a \o b) = Len(a) + Len(b)
        /\ \A i \in 1..Len(a) : (a \o b)[i] = a[i]
        /\ \A i \in 1..Len(b) : (a \o b)[Len(a) + i] = b[i]
    BY <1>3, Joined
  <2>2. m + (Len(s) - m) = Len(s) /\ Len(a) = m /\ Len(b) = Len(s) - m
    BY <1>0, <1>1, <1>2
  <2> QED
    BY <2>1, <2>2, Zenon
<1>5. ASSUME NEW i \in 1..Len(s) PROVE (a \o b)[i] = s[i]
  <2>1. CASE i \in 1..m
    BY <1>1, <1>4, <2>1
  <2>2. CASE i \notin 1..m
    <3>1. i - m \in 1..(Len(s) - m) /\ m + (i - m) = i
      BY <1>0, <2>2
    <3>2. (a \o b)[m + (i - m)] = s[m + (i - m)]
      BY <1>2, <1>4, <3>1
    <3> QED
      BY <3>1, <3>2
  <2> QED
    BY <2>1, <2>2
<1>6. a \o b = s
  BY <1>3, <1>4, <1>5, SameSequence
<1> QED
  BY <1>6 DEF a, b

LEMMA SelectAdvances ==
    ASSUME EngineInv, ~Unread, sequence \in Nat, NEW c, Meets(c), SelectBatch
    PROVE  Advances(c)
<1>1. pc = "loop" /\ view.kind = "tools_pending" /\ UNCHANGED <<request, view, last>>
  BY Zenon DEF SelectBatch, Quiet, AtLoop
<1>2. PICK m \in 1..Len(view.pending), parallel \in BOOLEAN :
          \E statuses \in [1..m -> {"ready", "failure"}] : Selects(m, parallel, statuses)
  BY Zenon DEF SelectBatch, Selects, Asks
<1>3. PICK statuses \in [1..m -> {"ready", "failure"}] : Selects(m, parallel, statuses)
  BY <1>2
<1>4. /\ view.pending \in Seq(Nat) /\ Distinct(view.pending) /\ Len(view.pending) \in Nat
      /\ m \in Nat \ {0} /\ m <= Len(view.pending)
  <2>1. view.pending \in Seq(Nat) /\ Distinct(view.pending) /\ Len(view.pending) \in Nat
    BY DEF EngineInv, GoodView, ViewSet
  <2> QED
    BY <2>1
<1>5. statuses \in Seq({"ready", "failure"}) /\ Len(statuses) = m /\ DOMAIN statuses = 1..m
      /\ statuses \in Seq(Status)
  BY <1>4 DEF Status
<1>6. PICK calls : calls = SubSeq(view.pending, 1, m)
  OBVIOUS
<1>7. PICK d : d = [batch |-> last, calls |-> calls, parallel |-> parallel,
                    rest |-> SubSeq(view.pending, m + 1, Len(view.pending))]
  OBVIOUS
<1>8. PICK b : b = [id |-> d.batch, calls |-> d.calls, parallel |-> d.parallel]
  OBVIOUS
<1>9. calls \in Seq(Nat) /\ Distinct(calls) /\ Len(calls) = m /\ calls # <<>>
  <2>1. 1 \in Nat \ {0} /\ 1 <= m + 1 /\ m - 1 + 1 = m
    BY <1>4
  <2>2. calls \in Seq(Nat) /\ Distinct(calls) /\ Len(calls) = m
    BY <1>4, <1>6, <2>1, PartDistinct
  <2> QED
    BY <1>4, <2>2, EmptySeq
<1>10. b.calls = calls /\ b # NoBatch /\ d.calls = calls /\ b.id = last /\ b.parallel = parallel
  <2>1. b.calls = calls /\ d.calls = calls /\ b.id = last /\ b.parallel = parallel
    BY <1>7, <1>8
  <2>2. NoBatch.calls = <<>>
    BY DEF NoBatch
  <2> QED
    BY <1>9, <2>1, <2>2
<1>11. d.calls \o d.rest = view.pending
  <2>1. m \in 0..Len(view.pending)
    BY <1>4
  <2> QED
    BY <1>4, <1>6, <1>7, <2>1, PartsJoin
<1>12. PICK requests : requests = IF Asks(statuses) THEN EachOf("approval_requested", Asked(statuses)) ELSE <<>>
  OBVIOUS
<1>13. /\ batch' = b /\ tools' = statuses
       /\ Emit(<<Event("tool_batch_selected", d)>> \o requests)
       /\ pc' = IF Asks(statuses) THEN "approve" ELSE "exec"
  BY <1>3, <1>6, <1>7, <1>8, <1>12 DEF Selects
<1>14. PICK e : e = Entry(sequence + 1, "tool_batch_selected", d)
  OBVIOUS
<1>15. PICK es : es = Sent(requests, sequence + 1)
  OBVIOUS
<1>16. PICK v, k, B : /\ c = Consumer(v, "open") /\ Is(v, k, sequence, B) /\ sequence # 0
                      /\ Situation(k) /\ AtPoint(B)
  BY <1>1 DEF Meets, Alive
<1>17. B = Boundary /\ k.view = view
  BY <1>1, <1>16 DEF AtPoint, Situation
<1>18. Reaches(k, sequence, Boundary, <<e>>, Approving(b, {}, {}))
  <2>1. k.view.kind = "tools_pending" /\ d.calls \o d.rest = k.view.pending /\ sequence \in Nat \ {0}
        /\ d.calls \in Seq(Nat) /\ d.calls # <<>> /\ Distinct(d.calls)
    BY <1>1, <1>9, <1>10, <1>11, <1>16, <1>17
  <2> QED
    BY <1>8, <1>14, <2>1, SelectsBatch
<1>19. Sequential(requests)
  <2>1. Sequential(Asked(statuses))
    BY <1>5, AskedIs
  <2> QED
    BY <1>12, <2>1, EachOfIs, Short
<1>20. Sequential(<<e>>) /\ Len(<<e>>) = 1 /\ Sequential(es) /\ Len(es) = Len(requests) /\ Len(es) \in Nat
  <2>1. Sequential(<<e>>) /\ Len(<<e>>) = 1
    BY Short
  <2>2. Sequential(es) /\ Len(es) = Len(requests)
    BY <1>15, <1>19, SentIs
  <2> QED
    BY <2>1, <2>2, SequentialIs
<1>21. queue' = queue \o (<<e>> \o es) /\ sequence' = sequence + Len(<<e>> \o es) /\ sequence' # 0
  <2> DEFINE x == <<Event("tool_batch_selected", d)>>
  <2>1. Sequential(x) /\ Len(x) = 1 /\ Sent(x, sequence) = <<e>>
    BY <1>14, SentOnly, Short
  <2> HIDE DEF x
  <2>2. Sent(x \o requests, sequence) = <<e>> \o es
    BY <1>15, <1>19, <2>1, SentJoined
  <2>3. Len(x \o requests) = Len(x) + Len(requests) /\ Len(<<e>> \o es) = Len(<<e>>) + Len(es)
    BY <1>19, <1>20, <2>1, Joined
  <2>4. Len(x \o requests) = Len(<<e>> \o es) /\ Len(<<e>> \o es) \in Nat \ {0}
    BY <1>20, <2>1, <2>3
  <2>5. queue' = queue \o Sent(x \o requests, sequence) /\ sequence' = sequence + Len(x \o requests)
    BY <1>13, EmitsEvents DEF x
  <2>6. queue' = queue \o (<<e>> \o es) /\ sequence' = sequence + Len(<<e>> \o es)
    BY <2>2, <2>4, <2>5, Zenon
  <2>7. sequence + Len(<<e>> \o es) # 0
    BY <2>4
  <2> QED
    BY <2>6, <2>7
<1>22. Situation(k)'
  BY <1>1, <1>16, SituationKept
<1>23. CASE Asks(statuses)
  <2> DEFINE idx == Asked(statuses)
             w == {b.calls[i] : i \in Bound(statuses)}
  <2>1. /\ Sequential(idx) /\ Distinct(idx) /\ idx \in Seq(1..m)
    BY <1>5, AskedIs
  <2>2. \A i \in 1..Len(idx) : idx[i] \in 1..Len(b.calls)
    <3> HIDE DEF idx
    <3> QED
      BY <1>9, <1>10, <2>1
  <2>3. Named(b, idx, Len(idx)) = w
    BY <1>5, NamedAll
  <2> HIDE DEF idx, w
  <2>4. es = Sent(EachOf("approval_requested", idx), sequence + 1)
    BY <1>12, <1>15, <1>23 DEF idx
  <2>5. Announced(es, sequence + 1, "approval_requested", idx, b)
    <3>1. sequence + 1 \in Nat
      OBVIOUS
    <3> QED
      BY <1>13, <2>1, <2>4, <3>1, EachSent
  <2>7. Reaches(k, sequence + 1, Approving(b, {}, {}), es, Approving(b, Named(b, idx, Len(idx)), {}))
    <3>1. sequence + 1 \in Nat \ {0} /\ k.view.kind = "tools_pending" /\ b.calls \in Seq(Nat) /\ Distinct(b.calls)
      BY <1>1, <1>9, <1>10, <1>17
    <3> QED
      BY <1>10, <2>1, <2>2, <2>5, <3>1, AsksForAll
  <2>8. Reaches(k, sequence, Boundary, <<e>> \o es, Approving(b, w, {}))
    BY <1>18, <1>20, <2>3, <2>7, ReachesOn
  <2>9. AtPoint(Approving(b, w, {}))' /\ pc' \in Alive
    <3>1. CallsOf(Bound(tools))' = w
      BY <1>13 DEF CallsOf, w
    <3>2. pc' = "approve" /\ batch' = b
      BY <1>13, <1>23
    <3> QED
      BY <3>1, <3>2 DEF AtPoint, Alive
  <2> QED
    BY <1>16, <1>17, <1>21, <1>22, <2>8, <2>9, Moves
<1>24. CASE ~Asks(statuses)
  <2>1. requests = <<>> /\ es = <<>>
    <3>1. requests = <<>>
      BY <1>12, <1>24
    <3>2. Len(es) = 0
      BY <1>20, <3>1, Short
    <3> QED
      BY <1>20, <3>1, <3>2, SequentialIs
  <2>2. Reaches(k, sequence + 1, Approving(b, {}, {}), es, Approving(b, {}, {}))
    BY <2>1, ReachesNothing
  <2>3. Reaches(k, sequence, Boundary, <<e>> \o es, Approving(b, {}, {}))
    BY <1>18, <1>20, <2>2, ReachesOn
  <2>4. InExecution(Approving(b, {}, {}))'
    <3>1. Running' = {}
      BY <1>5, <1>13 DEF Running
    <3>2. CallsOf(Running)' = {}
      BY <3>1 DEF CallsOf
    <3>3. Settled({})'
      BY <1>5, <1>13 DEF Settled
    <3>4. Approving(b, {}, {}) = Executing(b, {}, {}, {}, {})
      BY DEF Approving, Executing
    <3> QED
      BY <1>13, <3>2, <3>3, <3>4 DEF InExecution
  <2>5. AtPoint(Approving(b, {}, {}))' /\ pc' \in Alive
    BY <1>13, <1>24, <2>4 DEF AtPoint, Alive
  <2> QED
    BY <1>16, <1>17, <1>21, <1>22, <2>3, <2>5, Moves
<1> QED
  BY <1>23, <1>24

-----------------------------------------------------------------------------
LEMMA AtApproval ==
    ASSUME NEW c, Meets(c), pc = "approve"
    PROVE  \E v, k : /\ c = Consumer(v, "open") /\ sequence # 0 /\ Situation(k)
                     /\ Is(v, k, sequence, Approving(batch, CallsOf(Bound(tools)), {}))
<1>1. PICK v, k, B : /\ c = Consumer(v, "open") /\ Is(v, k, sequence, B) /\ sequence # 0
                     /\ Situation(k) /\ AtPoint(B)
  BY DEF Meets, Alive
<1>2. B = Approving(batch, CallsOf(Bound(tools)), {})
  BY <1>1 DEF AtPoint
<1> QED
  BY <1>1, <1>2

LEMMA AtExecution ==
    ASSUME NEW c, Meets(c), pc = "exec"
    PROVE  \E v, k, se, sn, de : /\ c = Consumer(v, "open") /\ sequence # 0 /\ Situation(k)
                                 /\ Is(v, k, sequence, Executing(batch, CallsOf(Running), se, sn, de))
                                 /\ Settled(se) /\ \A i \in Bound(tools) : batch.calls[i] \notin sn
<1>1. PICK v, k, B : /\ c = Consumer(v, "open") /\ Is(v, k, sequence, B) /\ sequence # 0
                     /\ Situation(k) /\ AtPoint(B)
  BY DEF Meets, Alive
<1>2. InExecution(B)
  BY <1>1 DEF AtPoint
<1>3. PICK se, sn, de : /\ B = Executing(batch, CallsOf(Running), se, sn, de) /\ Settled(se)
                        /\ \A i \in Bound(tools) : batch.calls[i] \notin sn
  BY <1>2 DEF InExecution
<1> QED
  BY <1>1, <1>3

LEMMA EmitsEach ==
    ASSUME ~Unread, sequence \in Nat \ {0}, batch' = batch, NEW kind, NEW idx, Sequential(idx),
           Emit(EachOf(kind, idx)), NEW es, es = Sent(EachOf(kind, idx), sequence)
    PROVE  /\ Announced(es, sequence, kind, idx, batch) /\ Sequential(es)
           /\ queue' = queue \o es /\ sequence' = sequence + Len(es) /\ sequence' # 0
<1>1. Announced(es, sequence, kind, idx, batch)
  BY EachSent
<1>2. Sequential(es) /\ Len(es) = Len(idx) /\ Len(es) \in Nat
  BY <1>1, SequentialIs DEF Announced
<1>3. Len(EachOf(kind, idx)) = Len(idx)
  BY EachOfIs
<1>4. queue' = queue \o es /\ sequence' = sequence + Len(EachOf(kind, idx))
  BY EmitsEvents
<1>5. sequence' = sequence + Len(es)
  BY <1>2, <1>3, <1>4
<1> QED
  BY <1>1, <1>2, <1>4, <1>5

(* The answers to some of the requests of the selected batch. *)
LEMMA Deciding ==
    ASSUME EngineInv, pc = "approve", NEW n \in Nat \ {0}, NEW k, NEW idx, Sequential(idx), Distinct(idx),
           \A i \in 1..Len(idx) : idx[i] \in Bound(tools),
           NEW es, Announced(es, n, "approval_decided", idx, batch)
    PROVE  Reaches(k, n, Approving(batch, CallsOf(Bound(tools)), {}), es,
                   Approving(batch, CallsOf(Bound(tools)) \ Named(batch, idx, Len(idx)),
                             Named(batch, idx, Len(idx))))
<1>1. batch.calls \in Seq(Nat) /\ Distinct(batch.calls) /\ Len(batch.calls) = Len(tools) /\ tools \in Seq(Status)
  BY BatchCalls
<1>2. \A i \in 1..Len(idx) : idx[i] \in 1..Len(batch.calls)
  BY <1>1 DEF Bound
<1>3. \A i \in 1..Len(idx) : batch.calls[idx[i]] \in CallsOf(Bound(tools))
  BY DEF CallsOf
<1> QED
  BY <1>1, <1>2, <1>3, DecidesAll

(* Once everything is decided the batch may run. *)
LEMMA Decided ==
    ASSUME NEW b, b = batch, batch' = b, NEW w, pc' = "exec", DOMAIN tools' = DOMAIN tools,
           \A i \in DOMAIN tools : tools'[i] \in {"ready", "failure"}
    PROVE  AtPoint(Approving(b, {}, w))'
<1>1. Running' = {}
  BY DEF Running
<1>2. CallsOf(Running)' = {}
  BY <1>1 DEF CallsOf
<1>3. Settled({})'
  BY DEF Settled
<1> DEFINE E == Executing(b, {}, {}, {}, w)
<1>4. Approving(b, {}, w) = E
  BY DEF Approving, Executing
<1>5. E = Executing(batch', CallsOf(Running)', {}, {}, w)
  BY <1>2
<1> HIDE DEF E
<1>6. InExecution(E)'
  BY <1>3, <1>5 DEF InExecution
<1>7. AtPoint(E)'
  BY <1>6 DEF AtPoint
<1> QED
  BY <1>4, <1>7

LEMMA ApproveAdvances ==
    ASSUME EngineInv, ~Unread, sequence \in Nat, NEW c, Meets(c), Approves
    PROVE  Advances(c)
<1>1. pc = "approve" /\ batch' = batch /\ UNCHANGED <<request, view, last>> /\ GoodView(view)
      /\ tools \in Seq(Status) /\ \A i \in 1..Len(tools) : tools[i] \in {"ready", "failure"}
  BY DEF Approves, At, EngineInv
<1> DEFINE all == Asked(tools)
<1>2. PICK idx : idx = all
  OBVIOUS
<1>3. PICK w : w = CallsOf(Bound(tools))
  OBVIOUS
<1>4. PICK b : b = batch
  OBVIOUS
<1>5. PICK es : es = Sent(EachOf("approval_decided", idx), sequence)
  OBVIOUS
<1>6. /\ Sequential(idx) /\ Distinct(idx) /\ \A i \in 1..Len(idx) : idx[i] \in Bound(tools)
      /\ Emit(EachOf("approval_decided", idx))
  BY <1>1, <1>2, AskedIs DEF Approves
<1>7. Named(b, idx, Len(idx)) = w
  BY <1>1, <1>2, <1>3, <1>4, NamedAll DEF CallsOf
<1> HIDE DEF all
<1>8. PICK v, k : /\ c = Consumer(v, "open") /\ sequence # 0 /\ Situation(k)
                  /\ Is(v, k, sequence, Approving(b, w, {}))
  BY <1>1, <1>3, <1>4, AtApproval
<1>9. /\ Announced(es, sequence, "approval_decided", idx, b)
      /\ queue' = queue \o es /\ sequence' = sequence + Len(es) /\ sequence' # 0
  BY <1>1, <1>4, <1>5, <1>6, <1>8, EmitsEach
<1>10. Reaches(k, sequence, Approving(b, w, {}), es, Approving(b, {}, w))
  <2>1. Reaches(k, sequence, Approving(b, w, {}), es,
                Approving(b, w \ Named(b, idx, Len(idx)), Named(b, idx, Len(idx))))
    BY <1>1, <1>3, <1>4, <1>6, <1>8, <1>9, Deciding
  <2>2. w \ w = {}
    OBVIOUS
  <2> QED
    BY <1>7, <2>1, <2>2
<1>11. Situation(k)'
  BY <1>1, <1>8, SituationKept
<1>12. AtPoint(Approving(b, {}, w))' /\ pc' \in Alive
  <2>1. \/ pc' = "commit" /\ change' = Suspends
        \/ \E answers : /\ pc' = "exec"
                        /\ tools' = [i \in DOMAIN tools |-> IF i \in Bound(tools) /\ answers[i] = "deny"
                                                            THEN "failure" ELSE tools[i]]
    BY DEF Approves, Commit
  <2>2. CASE pc' = "commit" /\ change' = Suspends
    <3>1. change'.fact = "control"
      BY <1>1, <2>2, SuspendsGood
    <3> QED
      BY <2>2, <3>1 DEF AtPoint, Alive
  <2>3. CASE \E answers : /\ pc' = "exec"
                          /\ tools' = [i \in DOMAIN tools |-> IF i \in Bound(tools) /\ answers[i] = "deny"
                                                              THEN "failure" ELSE tools[i]]
    <3>1. pc' = "exec" /\ DOMAIN tools' = DOMAIN tools
          /\ \A i \in DOMAIN tools : tools'[i] \in {"ready", "failure"}
      BY <1>1, <2>3
    <3>2. AtPoint(Approving(b, {}, w))'
      BY <1>1, <1>4, <3>1, Decided
    <3> QED
      BY <3>1, <3>2 DEF Alive
  <2> QED
    BY <2>1, <2>2, <2>3
<1> QED
  BY <1>8, <1>9, <1>10, <1>11, <1>12, Moves

LEMMA ApprovalFailAdvances ==
    ASSUME EngineInv, ~Unread, sequence \in Nat, NEW c, Meets(c), ApprovalFails
    PROVE  Advances(c)
<1>1. pc = "approve" /\ batch' = batch /\ UNCHANGED <<request, view, last>> /\ GoodView(view)
      /\ tools \in Seq(Status)
  BY DEF ApprovalFails, At, EngineInv
<1>2. CASE Commit(Limits) /\ UNCHANGED stream
  <2>1. change'.fact = "control" /\ pc' = "commit"
    BY <1>1, <1>2, LimitsGood DEF Commit
  <2> QED
    BY <1>1, <1>2, <2>1, GivesWay DEF Alive
<1>3. CASE \E m \in 0..Len(Asked(tools)) - 1 :
               /\ Emit(EachOf("approval_decided", SubSeq(Asked(tools), 1, m)))
               /\ Commit(Ends("failed", FALSE))
  <2>1. PICK m \in 0..Len(Asked(tools)) - 1 :
               /\ Emit(EachOf("approval_decided", SubSeq(Asked(tools), 1, m)))
               /\ Commit(Ends("failed", FALSE))
    BY <1>3
  <2> DEFINE all == Asked(tools)
             idx == SubSeq(all, 1, m)
             w == CallsOf(Bound(tools))
  <2>2. /\ Len(all) \in Nat /\ Distinct(all) /\ \A i \in 1..Len(all) : all[i] \in Bound(tools)
    BY <1>1, AskedIs
  <2>3. m \in 0..Len(all)
    BY <2>2
  <2>4. Sequential(idx) /\ Len(idx) = m /\ \A i \in 1..m : idx[i] = all[i]
    BY <1>1, <2>3, FirstAsked
  <2> HIDE DEF all, idx
  <2>5. Distinct(idx) /\ \A i \in 1..Len(idx) : idx[i] \in Bound(tools)
    BY <2>2, <2>3, <2>4 DEF Distinct
  <2>6. PICK es : es = Sent(EachOf("approval_decided", idx), sequence)
    OBVIOUS
  <2>7. PICK v, k : /\ c = Consumer(v, "open") /\ sequence # 0 /\ Situation(k)
                    /\ Is(v, k, sequence, Approving(batch, w, {}))
    BY <1>1, AtApproval
  <2>8. Emit(EachOf("approval_decided", idx)) /\ pc' = "commit" /\ change' = Ends("failed", FALSE)
    BY <2>1 DEF Commit, idx, all
  <2>9. /\ Announced(es, sequence, "approval_decided", idx, batch)
        /\ queue' = queue \o es /\ sequence' = sequence + Len(es) /\ sequence' # 0
    BY <1>1, <2>4, <2>6, <2>7, <2>8, EmitsEach
  <2>10. PICK B : Reaches(k, sequence, Approving(batch, w, {}), es, B)
    BY <1>1, <2>4, <2>5, <2>7, <2>9, Deciding
  <2>11. Situation(k)'
    BY <1>1, <2>7, SituationKept
  <2>12. change'.fact = "control"
    BY <1>1, <2>8, EndsGood DEF TerminalStates
  <2>13. AtPoint(B)' /\ pc' \in Alive
    BY <2>8, <2>12 DEF AtPoint, Alive
  <2> QED
    BY <2>7, <2>9, <2>10, <2>11, <2>13, Moves
<1> QED
  BY <1>2, <1>3 DEF ApprovalFails

-----------------------------------------------------------------------------
LEMMA Runs ==
    ASSUME NEW b, b = batch', NEW ru, ru = CallsOf(Running)', NEW se, Settled(se)', NEW sn,
           \A i \in Bound(tools') : b.calls[i] \notin sn, NEW de, pc' = "exec",
           NEW B, B = Executing(b, ru, se, sn, de)
    PROVE  AtPoint(B)' /\ pc' \in Alive
<1>1. B = Executing(batch', CallsOf(Running)', se, sn, de)
  OBVIOUS
<1>2. InExecution(B)'
  BY <1>1 DEF InExecution
<1> QED
  BY <1>2 DEF AtPoint, Alive

LEMMA ToolsStartAdvances ==
    ASSUME EngineInv, ~Unread, sequence \in Nat, NEW c, Meets(c), ToolsStart
    PROVE  Advances(c)
<1>1. /\ pc = "exec" /\ Bound(tools) # {} /\ UNCHANGED <<request, pc, view, last, change, batch>>
      /\ view.kind = "tools_pending"
  BY DEF ToolsStart, At, EngineInv, InBatch
<1>2. PICK b : b = batch
  OBVIOUS
<1>3. /\ b.calls \in Seq(Nat) /\ Distinct(b.calls) /\ Len(b.calls) = Len(tools) /\ b # NoBatch
      /\ tools \in Seq(Status) /\ Len(tools) \in Nat
  BY <1>1, <1>2, BatchCalls
<1>4. PICK ru : ru = CallsOf(Running)
  OBVIOUS
<1>5. PICK v, k, se, sn, de : /\ c = Consumer(v, "open") /\ sequence # 0 /\ Situation(k)
                              /\ Is(v, k, sequence, Executing(b, ru, se, sn, de))
                              /\ Settled(se) /\ \A i \in Bound(tools) : b.calls[i] \notin sn
  BY <1>1, <1>2, <1>4, AtExecution
<1>6. PICK all : all = Asked(tools)
  OBVIOUS
<1>7. PICK idx : idx = IF batch.parallel THEN all ELSE <<Head(all)>>
  OBVIOUS
<1>8. /\ all \in Seq(1..Len(tools)) /\ Sequential(all) /\ Distinct(all) /\ Len(all) \in Nat
      /\ \A i \in 1..Len(all) : all[i] \in Bound(tools)
      /\ \A m \in Bound(tools) : \E i \in 1..Len(all) : all[i] = m
  BY <1>3, <1>6, AskedIs
<1>9. Sequential(idx) /\ Distinct(idx) /\ DOMAIN idx = 1..Len(idx)
      /\ \A i \in 1..Len(idx) : idx[i] \in Bound(tools)
  <2>1. CASE idx = all
    BY <1>8, <2>1, SequentialIs
  <2>2. CASE idx = <<Head(all)>>
    <3>1. Len(all) # 0
      BY <1>1, <1>8
    <3>2. Head(all) = all[1] /\ 1 \in 1..Len(all)
      BY <1>8, <3>1
    <3>3. Sequential(idx) /\ Len(idx) = 1 /\ idx[1] = Head(all)
      BY <2>2, Short
    <3>4. Distinct(idx)
      BY <3>3 DEF Distinct
    <3>5. DOMAIN idx = 1..Len(idx)
      BY <3>3, SequentialIs
    <3> QED
      BY <1>8, <3>2, <3>3, <3>4, <3>5
  <2> QED
    BY <1>7, <2>1, <2>2
<1>10. /\ Emit(EachOf("tool_started", idx))
       /\ tools' = [i \in DOMAIN tools |-> IF \E j \in DOMAIN idx : idx[j] = i THEN "running" ELSE tools[i]]
  BY <1>6, <1>7 DEF ToolsStart
<1>11. PICK es : es = Sent(EachOf("tool_started", idx), sequence)
  OBVIOUS
<1>12. /\ Announced(es, sequence, "tool_started", idx, b)
       /\ queue' = queue \o es /\ sequence' = sequence + Len(es) /\ sequence' # 0
  BY <1>1, <1>2, <1>5, <1>9, <1>10, <1>11, EmitsEach
<1>13. PICK N : N = Named(b, idx, Len(idx))
  OBVIOUS
<1>14. Reaches(k, sequence, Executing(b, ru, se, sn, de), es, Executing(b, ru \cup N, se, sn \cup N, de))
  <2>1. k.view.kind = "tools_pending" /\ sequence \in Nat \ {0}
    BY <1>1, <1>5 DEF Situation
  <2>2. \A i \in 1..Len(idx) : idx[i] \in 1..Len(b.calls)
    BY <1>3, <1>9 DEF Bound
  <2>3. \A i \in 1..Len(idx) : b.calls[idx[i]] \notin sn
    BY <1>5, <1>9
  <2> QED
    BY <1>3, <1>9, <1>12, <1>13, <2>1, <2>2, <2>3, StartsAll
<1>15. Situation(k)'
  BY <1>1, <1>5, SituationKept
<1> DEFINE T == {idx[j] : j \in 1..Len(idx)}
<1>16. /\ DOMAIN tools' = DOMAIN tools /\ T \subseteq Bound(tools)
       /\ \A i \in DOMAIN tools : tools'[i] = IF i \in T THEN "running" ELSE tools[i]
  BY <1>9, <1>10
<1>17. N = {b.calls[i] : i \in T}
  BY <1>13 DEF Named
<1> HIDE DEF T
<1>18. Running' = Running \cup T /\ Bound(tools') = Bound(tools) \ T
  BY <1>16 DEF Running, Bound
<1>19. ru \cup N = CallsOf(Running)'
  BY <1>1, <1>2, <1>4, <1>17, <1>18 DEF CallsOf
<1>20. Settled(se)'
  BY <1>1, <1>5, <1>16 DEF Settled, Bound
<1>21. \A i \in Bound(tools') : b.calls[i] \notin sn \cup N
  <2>1. \A i, j \in DOMAIN tools : b.calls[i] = b.calls[j] => i = j
    BY <1>3 DEF Distinct
  <2>2. T \subseteq DOMAIN tools /\ Bound(tools') \subseteq DOMAIN tools
    BY <1>16, <1>18 DEF Bound
  <2> QED
    BY <1>5, <1>17, <1>18, <2>1, <2>2
<1>22. AtPoint(Executing(b, ru \cup N, se, sn \cup N, de))' /\ pc' \in Alive
  BY <1>1, <1>2, <1>19, <1>20, <1>21, Runs
<1> QED
  BY <1>5, <1>12, <1>14, <1>15, <1>22, Moves

LEMMA FinishAdvances ==
    ASSUME EngineInv, ~Unread, sequence \in Nat, NEW c, Meets(c), NEW i \in DOMAIN tools, ToolFinishes(i)
    PROVE  Advances(c)
<1>1. /\ pc = "exec" /\ i \in Running /\ UNCHANGED <<request, pc, view, last, change, batch>>
  BY DEF ToolFinishes, At
<1>2. PICK b : b = batch
  OBVIOUS
<1>3. /\ b.calls \in Seq(Nat) /\ Distinct(b.calls) /\ Len(b.calls) = Len(tools) /\ tools \in Seq(Status)
  BY <1>1, <1>2, BatchCalls
<1>4. PICK ru : ru = CallsOf(Running)
  OBVIOUS
<1>5. PICK v, k, se, sn, de : /\ c = Consumer(v, "open") /\ sequence # 0 /\ Situation(k)
                              /\ Is(v, k, sequence, Executing(b, ru, se, sn, de))
                              /\ Settled(se) /\ \A j \in Bound(tools) : b.calls[j] \notin sn
  BY <1>1, <1>2, <1>4, AtExecution
<1>6. PICK outcome \in Outcomes :
           /\ tools' = [tools EXCEPT ![i] = outcome]
           /\ Emit(<<Event("tool_finished", [batch |-> batch.id, index |-> i,
                                             call |-> batch.calls[i], outcome |-> outcome])>>)
  BY DEF ToolFinishes
<1>7. outcome \in {"success", "failure", "waiting"}
  BY InvocationAssumption
<1>8. PICK d : d = [batch |-> b.id, index |-> i, call |-> b.calls[i], outcome |-> outcome]
  OBVIOUS
<1>9. PICK e : e = Entry(sequence + 1, "tool_finished", d)
  OBVIOUS
<1>10. queue' = queue \o <<e>> /\ sequence' = sequence + Len(<<e>>) /\ sequence' = sequence + 1
  <2>1. Emit(<<Event("tool_finished", d)>>)
    BY <1>2, <1>6, <1>8
  <2> QED
    BY <1>9, <2>1, EmitsEvent
<1>11. d.batch = b.id /\ d.index = i /\ d.call = b.calls[i] /\ d.outcome = outcome
  BY <1>8
<1>12. PICK t : t = [call |-> d.call, index |-> d.index, outcome |-> d.outcome]
  OBVIOUS
<1>13. t.index = i /\ t.call = b.calls[i] /\ t.outcome = outcome
  BY <1>11, <1>12
<1>14. Reaches(k, sequence, Executing(b, ru, se, sn, de), <<e>>,
               Executing(b, ru \ {d.call}, se \cup {t}, sn, de))
  <2>1. d.call \in ru /\ b.calls[d.index] = d.call /\ sequence \in Nat \ {0}
    BY <1>1, <1>2, <1>4, <1>5, <1>11 DEF CallsOf
  <2> QED
    BY <1>9, <1>11, <1>12, <2>1, FinishesTool
<1>15. Situation(k)'
  BY <1>1, <1>5, SituationKept
<1>16. DOMAIN tools' = DOMAIN tools /\ \A j \in DOMAIN tools : tools'[j] = IF j = i THEN outcome ELSE tools[j]
  BY <1>3, <1>6
<1>17. Running' = Running \ {i} /\ Bound(tools') = Bound(tools) /\ Running \subseteq DOMAIN tools
  BY <1>1, <1>7, <1>16 DEF Running, Bound
<1>18. \A j, m \in DOMAIN tools : b.calls[j] = b.calls[m] => j = m
  BY <1>3 DEF Distinct
<1>19. ru \ {d.call} = CallsOf(Running)'
  BY <1>1, <1>2, <1>4, <1>11, <1>17, <1>18 DEF CallsOf
<1>20. Settled(se \cup {t})'
  <2>1. \A x \in se : x.index # i
    BY <1>1, <1>5 DEF Settled, Running
  <2>2. batch' = b /\ batch = b
    BY <1>1, <1>2
  <2>3. \A x \in se \cup {t} : /\ x.index \in DOMAIN tools' /\ b.calls[x.index] = x.call
                               /\ tools'[x.index] = x.outcome /\ x.outcome \notin {"ready", "running"}
    BY <1>5, <1>7, <1>13, <1>16, <2>1, <2>2 DEF Settled
  <2>4. \A j \in DOMAIN tools' :
           tools'[j] \notin {"ready", "running", "failure"} => \E x \in se \cup {t} : x.call = b.calls[j]
    BY <1>5, <1>13, <1>16, <2>2 DEF Settled
  <2> QED
    BY <2>2, <2>3, <2>4 DEF Settled
<1>21. \A j \in Bound(tools') : b.calls[j] \notin sn
  BY <1>5, <1>17
<1>22. AtPoint(Executing(b, ru \ {d.call}, se \cup {t}, sn, de))' /\ pc' \in Alive
  BY <1>1, <1>2, <1>19, <1>20, <1>21, Runs
<1>23. sequence' # 0
  BY <1>10
<1> QED
  BY <1>5, <1>10, <1>14, <1>15, <1>22, <1>23, Moves

(* Progress of a running call, or the request to cancel one.               *)
LEMMA Reported ==
    ASSUME EngineInv, sequence \in Nat, NEW c, Meets(c), pc = "exec", NEW i \in Running,
           UNCHANGED <<request, pc, view, last, change, batch, tools>>,
           NEW kind \in {"tool_progress", "tool_cancel_requested"}, NEW e,
           e = Entry(sequence + 1, kind, [call |-> batch.calls[i]]),
           queue' = queue \o <<e>>, sequence' = sequence + 1
    PROVE  Advances(c)
<1>1. PICK b : b = batch
  OBVIOUS
<1>2. PICK ru : ru = CallsOf(Running)
  OBVIOUS
<1>3. PICK v, k, se, sn, de : /\ c = Consumer(v, "open") /\ sequence # 0 /\ Situation(k)
                              /\ Is(v, k, sequence, Executing(b, ru, se, sn, de))
                              /\ Settled(se) /\ \A j \in Bound(tools) : b.calls[j] \notin sn
  BY <1>1, <1>2, AtExecution
<1>4. PICK d : d = [call |-> batch.calls[i]]
  OBVIOUS
<1>5. d.call \in ru
  BY <1>2, <1>4 DEF CallsOf
<1>6. Reaches(k, sequence, Executing(b, ru, se, sn, de), <<e>>, Executing(b, ru, se, sn, de))
  <2>1. sequence \in Nat \ {0} /\ e = Entry(sequence + 1, kind, d)
    BY <1>3, <1>4
  <2> QED
    BY <1>5, <2>1, ReportsTool
<1>7. Situation(k)'
  BY <1>3, SituationKept
<1>8. Running' = Running /\ CallsOf(Running)' = ru /\ batch' = b
  BY <1>1, <1>2 DEF Running, CallsOf
<1>9. Settled(se)'
  BY <1>3 DEF Settled
<1>10. AtPoint(Executing(b, ru, se, sn, de))' /\ pc' \in Alive
  BY <1>3, <1>8, <1>9, Runs
<1>11. Len(<<e>>) = 1
  BY Short
<1>12. queue' = queue \o <<e>> /\ sequence' = sequence + Len(<<e>>) /\ sequence' # 0
  BY <1>11
<1> QED
  BY <1>3, <1>6, <1>7, <1>10, <1>12, Moves

LEMMA ReportAdvances ==
    ASSUME EngineInv, ~Unread, sequence \in Nat, NEW c, Meets(c), NEW i \in DOMAIN tools, ToolReports(i)
    PROVE  Advances(c)
<1>1. pc = "exec" /\ i \in Running /\ UNCHANGED <<request, pc, view, last, change, batch, tools>>
  BY DEF ToolReports, At
<1>2. CASE UNCHANGED stream
  BY <1>1, <1>2, StaysPut DEF Quiescent
<1>3. CASE ~UNCHANGED stream
  <2>1. PICK d : d = [call |-> batch.calls[i]]
    OBVIOUS
  <2>2. PICK e : e = Entry(sequence + 1, "tool_progress", d)
    OBVIOUS
  <2>3. queue' = queue \o Sent(<<Event("tool_progress", d)>>, sequence) /\ sequence' = sequence + 1
    BY <1>3, <2>1 DEF ToolReports, EmitLossy, Numbered, Sent
  <2>4. Sent(<<Event("tool_progress", d)>>, sequence) = <<e>>
    BY <2>2, SentOnly
  <2>5. queue' = queue \o <<e>>
    BY <2>3, <2>4, Zenon
  <2> QED
    BY <1>1, <2>1, <2>2, <2>3, <2>5, Reported
<1> QED
  BY <1>2, <1>3

LEMMA ControlAdvances ==
    ASSUME EngineInv, ~Unread, sequence \in Nat, NEW c, Meets(c), BatchTakesControl
    PROVE  Advances(c)
<1>1. pc = "exec" /\ UNCHANGED <<request, pc, view, last, change, batch, tools>>
  BY DEF BatchTakesControl, At
<1>2. CASE UNCHANGED stream
  BY <1>1, <1>2, StaysPut DEF Quiescent
<1>3. CASE \E i \in Running : Emit(<<Event("tool_cancel_requested", [call |-> batch.calls[i]])>>)
  <2>1. PICK i \in Running : Emit(<<Event("tool_cancel_requested", [call |-> batch.calls[i]])>>)
    BY <1>3
  <2>2. PICK d : d = [call |-> batch.calls[i]]
    OBVIOUS
  <2>3. PICK e : e = Entry(sequence + 1, "tool_cancel_requested", d)
    OBVIOUS
  <2>4. Emit(<<Event("tool_cancel_requested", d)>>)
    BY <2>1, <2>2
  <2>5. queue' = queue \o <<e>> /\ sequence' = sequence + 1
    BY <2>3, <2>4, EmitsEvent
  <2> QED
    BY <1>1, <2>1, <2>2, <2>3, <2>5, Reported
<1> QED
  BY <1>2, <1>3 DEF BatchTakesControl

LEMMA DoneAdvances ==
    ASSUME EngineInv, ~Unread, sequence \in Nat, NEW c, Meets(c), BatchDone
    PROVE  Advances(c)
<1>1. /\ pc = "exec" /\ UNCHANGED <<request, view, last, batch, tools, stream>> /\ InBatch
      /\ \A i \in DOMAIN tools : tools[i] \notin {"ready", "running"}
  BY DEF BatchDone, At, EngineInv
<1>2. pc' = "commit" /\ change' = [Checkpointing("tool_batch", DoneAfter)
                                       EXCEPT !.calls = batch.calls, !.outcomes = tools]
  BY DEF BatchDone, DoneAfter, Commit
<1>3. change' = [fact |-> "tool_batch", after |-> DoneAfter, deadline |-> FALSE, calls |-> batch.calls,
                 outcomes |-> tools]
  <2> DEFINE a == DoneAfter
  <2> HIDE DEF a
  <2>1. change' = [Checkpointing("tool_batch", a) EXCEPT !.calls = batch.calls, !.outcomes = tools]
    BY <1>2 DEF a
  <2>2. change' = [fact |-> "tool_batch", after |-> a, deadline |-> FALSE, calls |-> batch.calls,
                   outcomes |-> tools]
    BY <2>1, WithOutcomes DEF Checkpointing
  <2> QED
    BY <2>2 DEF a
<1>4. change'.fact = "tool_batch" /\ change'.calls = batch.calls /\ change'.outcomes = tools
  BY <1>3
<1>5. PICK b : b = batch
  OBVIOUS
<1>6. CallsOf(Running) = {}
  BY <1>1 DEF CallsOf, Running
<1>7. PICK v, k, se, sn, de : /\ c = Consumer(v, "open") /\ sequence # 0 /\ Situation(k)
                              /\ Is(v, k, sequence, Executing(b, {}, se, sn, de)) /\ Settled(se)
  BY <1>1, <1>5, <1>6, AtExecution
<1>8. Situation(k)'
  BY <1>1, <1>7, SituationKept
<1>9. Settled(se)' /\ InBatch'
  <2>1. Settled(se)'
    BY <1>1, <1>7 DEF Settled
  <2>2. InBatch'
    BY <1>1 DEF InBatch
  <2> QED
    BY <2>1, <2>2
<1> DEFINE B == Executing(b, {}, se, sn, de)
<1>10. B = Executing(batch', {}, se, sn, de)
  BY <1>1, <1>5
<1> HIDE DEF B
<1>11. Answered(B)'
  BY <1>1, <1>4, <1>9, <1>10 DEF Answered
<1>12. AtPoint(B)' /\ pc' \in Alive
  BY <1>2, <1>4, <1>11 DEF AtPoint, Alive
<1>13. Is(v, k, sequence, B)
  BY <1>7 DEF B
<1> QED
  BY <1>1, <1>7, <1>8, <1>12, <1>13, Rests

-----------------------------------------------------------------------------
(* A commit: what the verifier makes of the checkpoint, and of the end of  *)
(* a run that comes with it.                                               *)
Report(a) ==
    [id |-> last + 1, fact |-> change.fact, before |-> view, after |-> a, deadline |-> change.deadline,
     batch |-> batch.id, parallel |-> batch.parallel, calls |-> change.calls,
     outcomes |-> change.outcomes]

LEMMA CommitAccepted ==
    ASSUME EngineInv, pc = "commit", NEW v, NEW k, NEW n, NEW B, Is(v, k, n, B), Situation(k), AtPoint(B),
           NEW d, d = Report(change.after)
    PROVE  AcceptsCheckpoint(v, d)
<1>1. GoodChange(change) /\ last \in Nat
  BY DEF EngineInv
<1>2. /\ d.id = last + 1 /\ d.fact = change.fact /\ d.before = view /\ d.deadline = change.deadline
      /\ d.batch = batch.id /\ d.parallel = batch.parallel /\ d.calls = change.calls
      /\ d.outcomes = change.outcomes
  BY DEF Report
<1>3. change.fact \in {"started", "resumed", "control", "conversation_insert", "model_turn", "tool_batch"}
  BY <1>1 DEF GoodChange, ChangeSet
<1>4. /\ v.request = k.request /\ v.view = k.view /\ v.ids = k.ids /\ v.first = k.first /\ v.b = B
  BY IsFields
<1>5. k.request = request /\ k.view = view /\ k.ids \subseteq 0..last
      /\ (k.first /\ request = "resume" => change.fact = "resumed" \/ DeadlineControl(change))
  BY DEF Situation
<1>6. d.id \notin v.ids
  BY <1>1, <1>2, <1>4, <1>5
<1>7. v.first /\ v.request = "resume" => d.fact = "resumed" \/ DeadlineControl(d)
  BY <1>2, <1>4, <1>5 DEF DeadlineControl
<1>8. ASSUME d.fact = "tool_batch" PROVE ToolFact(d) /\ ToolBoundary(v, d)
  <2>1. Answered(B)
    BY <1>2, <1>8 DEF AtPoint
  <2>2. InBatch /\ d.calls = batch.calls /\ d.outcomes = tools
    BY <1>2, <2>1 DEF Answered
  <2>3. PICK b : b = batch
    OBVIOUS
  <2>4. /\ b.calls \in Seq(Nat) /\ Distinct(b.calls) /\ Len(b.calls) = Len(tools) /\ b # NoBatch
        /\ tools \in Seq(Status) /\ Len(tools) \in Nat \ {0} /\ b.id = last
        /\ b = [id |-> last, calls |-> b.calls, parallel |-> b.parallel]
    BY <2>2, <2>3, BatchCalls
  <2>5. PICK se, sn, de : B = Executing(b, {}, se, sn, de) /\ Settled(se)
    BY <2>1, <2>3 DEF Answered
  <2>6. ToolFact(d)
    <3>1. Cardinality({d.calls[i] : i \in DOMAIN d.calls}) = Len(d.calls)
      BY <2>2, <2>3, <2>4, DistinctCounts
    <3>2. d.calls # <<>> /\ Len(d.outcomes) = Len(d.calls)
      BY <2>2, <2>3, <2>4, EmptySeq
    <3> QED
      BY <3>1, <3>2 DEF ToolFact
  <2>7. DOMAIN d.calls = DOMAIN tools
    BY <2>2, <2>3, <2>4
  <2>8. /\ \A i \in DOMAIN d.calls : d.outcomes[i] # "failure" => \E t \in se : t.call = d.calls[i]
        /\ \A t \in se : /\ t.index \in DOMAIN d.calls /\ d.calls[t.index] = t.call
                         /\ d.outcomes[t.index] = t.outcome
    <3>1. \A i \in DOMAIN tools : tools[i] \notin {"ready", "running"}
      BY <2>1 DEF Answered
    <3> QED
      BY <2>2, <2>5, <2>7, <3>1 DEF Settled
  <2>9. b = [id |-> d.batch, calls |-> d.calls, parallel |-> d.parallel]
    BY <1>2, <2>2, <2>3, <2>4
  <2>10. ToolBoundary(v, d)
    BY <1>4, <2>4, <2>5, <2>8, <2>9, FactClosesBatch
  <2> QED
    BY <2>6, <2>10
<1>9. ASSUME d.fact = "model_turn" PROVE ModelBoundary(v, d)
  <2>1. v.b = Modelled(Len(d.calls))
    BY <1>2, <1>4, <1>9 DEF AtPoint
  <2> QED
    BY <2>1, TurnClosesModel
<1>10. ASSUME d.fact \in {"started", "resumed"} PROVE ~ActiveEffect(v)
  <2>1. v.b = Boundary
    BY <1>2, <1>4, <1>10 DEF AtPoint
  <2> QED
    BY <2>1, BoundaryIdle
<1>11. CASE d.fact = "tool_batch"
  BY <1>2, <1>4, <1>5, <1>6, <1>7, <1>8, <1>11 DEF AcceptsCheckpoint
<1>12. CASE d.fact = "model_turn"
  BY <1>2, <1>4, <1>5, <1>6, <1>7, <1>9, <1>12 DEF AcceptsCheckpoint
<1>13. CASE d.fact \in {"started", "resumed"}
  BY <1>2, <1>4, <1>5, <1>6, <1>7, <1>10, <1>13 DEF AcceptsCheckpoint
<1>14. CASE d.fact \in {"control", "conversation_insert"}
  BY <1>2, <1>4, <1>5, <1>6, <1>7, <1>14 DEF AcceptsCheckpoint
<1> QED
  BY <1>2, <1>3, <1>11, <1>12, <1>13, <1>14

(* The end of a run is reported as its last view says.                     *)
Ending(a) == IF a.kind \in TerminalStates THEN "terminal" ELSE "suspended"

LEMMA StopAccepted ==
    ASSUME NEW o, NEW r, NEW a, NEW l, NEW ids, NEW f, NEW g, NEW n \in Nat, NEW v,
           v = Ver(o, r, a, l, ids, f, g, n, Boundary), a.kind \in ClosedStates,
           NEW d, d = [reason |-> Ending(a), last |-> l], NEW e, e = Entry(n + 1, "invocation_stopped", d)
    PROVE  AcceptsStop(v, e)
<1>1. v.last = l /\ v.view = a /\ v.previous = n /\ v.b = Boundary
  BY VerFields
<1>2. e.kind = "invocation_stopped" /\ e.seq = n + 1 /\ e.data = d
  BY DEF Entry
<1>3. d.reason = Ending(a) /\ d.last = l
  OBVIOUS
<1>4. ~ActiveEffect(v)
  BY <1>1, BoundaryIdle
<1>5. e.seq > v.previous
  BY <1>1, <1>2
<1>6. a.kind \in TerminalStates => a.kind # "suspended"
  BY DEF TerminalStates
<1>7. /\ Ending(a) = "terminal" => a.kind \in TerminalStates
      /\ Ending(a) = "suspended" => a.kind = "suspended"
      /\ Ending(a) = (IF a.kind = "suspended" THEN "suspended" ELSE "terminal")
      /\ Ending(a) \in StopReasons
  BY <1>6 DEF Ending, ClosedStates, StopReasons
<1> QED
  BY <1>1, <1>2, <1>3, <1>4, <1>5, <1>7 DEF AcceptsStop

LEMMA FailureAccepted ==
    ASSUME NEW v, NEW k, NEW n \in Nat, NEW B, Is(v, k, n, B),
           NEW d, d = [reason |-> "repository_error", last |-> k.last],
           NEW e, e = Entry(n + 1, "invocation_stopped", d)
    PROVE  AcceptsStop(v, e)
<1>1. v.last = k.last /\ ~v.ended /\ v.previous = n
  BY IsFields
<1>2. e.kind = "invocation_stopped" /\ e.seq = n + 1 /\ e.data = d
  BY DEF Entry
<1>3. d.reason = "repository_error" /\ d.last = k.last
  OBVIOUS
<1>4. e.seq > v.previous
  BY <1>1, <1>2
<1> QED
  BY <1>1, <1>2, <1>3, <1>4 DEF AcceptsStop, StopReasons

LEMMA CommitFailAdvances ==
    ASSUME EngineInv, ~Unread, sequence \in Nat, NEW c, Meets(c), CommitFails
    PROVE  Advances(c)
<1>1. pc = "commit" /\ pc' = "closing" /\ Emit(<<Stopped("repository_error", last)>>)
  BY DEF CommitFails, At
<1>2. PICK v, k, B : /\ c = Consumer(v, "open") /\ Is(v, k, sequence, B) /\ sequence # 0 /\ Situation(k)
  BY <1>1 DEF Meets, Alive
<1>3. PICK d : d = [reason |-> "repository_error", last |-> last]
  OBVIOUS
<1>4. PICK e : e = Entry(sequence + 1, "invocation_stopped", d)
  OBVIOUS
<1>5. queue' = queue \o <<e>>
  BY <1>1, <1>3, <1>4, EmitsEvent DEF Stopped
<1>6. d = [reason |-> "repository_error", last |-> k.last]
  BY <1>2, <1>3 DEF Situation
<1>7. AcceptsStop(v, e)
  BY <1>2, <1>4, <1>6, FailureAccepted
<1>8. PICK o, g : v = Ver(o, k.request, k.view, k.last, k.ids, k.first, g, sequence, B)
  BY <1>2 DEF Is
<1>9. PICK u : After(c, e) = Consumer(u, "accepted") /\ u.previous # 0
  <2>1. sequence \in Nat \ {0}
    BY <1>2
  <2> QED
    BY <1>2, <1>4, <1>7, <1>8, <2>1, Stops
<1>10. Ahead(c, <<e>>, Consumer(u, "accepted"))
  BY <1>2, <1>9, AheadOne, ConsumerFields
<1>11. Meets(Consumer(u, "accepted"))'
  BY <1>1, <1>9, ConsumerFields DEF Meets, Alive
<1> QED
  BY <1>5, <1>10, <1>11 DEF Advances

LEMMA CommitAdvances ==
    ASSUME EngineInv, ~Unread, sequence \in Nat, NEW c, Meets(c), CommitLands
    PROVE  Advances(c)
<1>1. PICK a : a = change.after
  OBVIOUS
<1>2. PICK d : d = Report(a)
  OBVIOUS
<1>3. PICK ends : ends = IF a.kind \in TerminalStates THEN <<Stopped("terminal", last + 1)>>
                         ELSE IF a.kind = "suspended" THEN <<Stopped("suspended", last + 1)>> ELSE <<>>
  OBVIOUS
<1>4. /\ pc = "commit" /\ last' = last + 1 /\ request' = request /\ view' = a /\ pc' = Continues(a)
      /\ Emit(<<Event("checkpoint_committed", d)>> \o ends)
  BY <1>1, <1>2, <1>3 DEF CommitLands, Report, At
<1>5. PICK v, k, B : /\ c = Consumer(v, "open") /\ Is(v, k, sequence, B) /\ sequence # 0
                     /\ Situation(k) /\ AtPoint(B)
  BY <1>4 DEF Meets, Alive
<1>6. AcceptsCheckpoint(v, d)
  BY <1>1, <1>2, <1>4, <1>5, CommitAccepted
<1>7. PICK e : e = Entry(sequence + 1, "checkpoint_committed", d)
  OBVIOUS
<1>8. PICK o, f, g, u :
          /\ Truth(o) /\ Falsity(f) /\ Shuts(g, d.after)
          /\ u = Ver(o, k.request, d.after, d.id, k.ids \cup {d.id}, f, g, sequence + 1, Boundary)
          /\ After(Consumer(v, "open"), e) = Consumer(u, "open")
  <2>1. sequence \in Nat \ {0}
    BY <1>5
  <2> QED
    <3>1. Checkpoints(v, k, sequence, d, e)
      BY <1>5, <1>6, <1>7, <2>1, Commits
    <3> QED
      BY <3>1 DEF Checkpoints
<1>9. d.after = a /\ d.id = last + 1
  BY <1>2 DEF Report
<1>10. Ahead(c, <<e>>, Consumer(u, "open"))
  BY <1>5, <1>8, AheadOne, ConsumerFields
<1>11. Sequential(<<Event("checkpoint_committed", d)>>) /\ Len(<<Event("checkpoint_committed", d)>>) = 1
       /\ Sent(<<Event("checkpoint_committed", d)>>, sequence) = <<e>>
  BY <1>7, Short, SentOnly
<1>12. CASE a.kind \in ClosedStates
  <2>1. PICK x : x = [reason |-> Ending(a), last |-> last + 1]
    OBVIOUS
  <2>2. ends = <<Event("invocation_stopped", x)>>
    BY <1>3, <1>12, <2>1 DEF Ending, Stopped, ClosedStates
  <2>3. PICK y : y = Entry(sequence + 1 + 1, "invocation_stopped", x)
    OBVIOUS
  <2>4. queue' = queue \o (<<e>> \o <<y>>)
    <3> DEFINE s == <<Event("checkpoint_committed", d)>>
               t == <<Event("invocation_stopped", x)>>
    <3>1. Sequential(t) /\ Sent(t, sequence + 1) = <<y>>
      BY <2>3, SentOnly, Short
    <3>2. Sequential(s) /\ Len(s) = 1 /\ Sent(s, sequence) = <<e>> /\ ends = t /\ Emit(s \o ends)
      BY <1>4, <1>11, <2>2
    <3> HIDE DEF s, t
    <3>3. Sent(s \o t, sequence) = <<e>> \o <<y>>
      <4>1. sequence + Len(s) = sequence + 1
        BY <3>2
      <4>2. Sent(s \o t, sequence) = Sent(s, sequence) \o Sent(t, sequence + Len(s))
        BY <3>1, <3>2, SentJoined
      <4> QED
        BY <3>1, <3>2, <4>1, <4>2, Zenon
    <3> QED
      BY <3>2, <3>3, EmitsEvents
  <2>5. PICK m \in Nat : m = sequence + 1
    OBVIOUS
  <2>6. u = Ver(o, k.request, a, last + 1, k.ids \cup {last + 1}, f, g, m, Boundary)
    BY <1>8, <1>9, <2>5
  <2>7. y = Entry(m + 1, "invocation_stopped", x)
    BY <2>3, <2>5
  <2>8. AcceptsStop(u, y)
    BY <1>12, <2>1, <2>6, <2>7, StopAccepted
  <2>9. PICK w : After(Consumer(u, "open"), y) = Consumer(w, "accepted") /\ w.previous # 0
    <3>1. m \in Nat \ {0}
      BY <2>5
    <3> QED
      BY <2>6, <2>7, <2>8, <3>1, Stops
  <2>10. Ahead(Consumer(u, "open"), <<y>>, Consumer(w, "accepted"))
    BY <2>9, AheadOne, ConsumerFields
  <2>11. Ahead(c, <<e>> \o <<y>>, Consumer(w, "accepted"))
    BY <1>10, <2>10, AheadOn
  <2>12. pc' = "closing"
    BY <1>4, <1>12 DEF Continues
  <2>13. Meets(Consumer(w, "accepted"))'
    BY <2>9, <2>12, ConsumerFields DEF Meets, Alive
  <2> QED
    BY <2>4, <2>11, <2>13 DEF Advances
<1>13. CASE a.kind \notin ClosedStates
  <2>1. ends = <<>>
    BY <1>3, <1>13 DEF ClosedStates
  <2>2. queue' = queue \o <<e>> /\ sequence' = sequence + 1
    <3> DEFINE s == <<Event("checkpoint_committed", d)>>
    <3>1. Sequential(s) /\ Len(s) = 1 /\ Sent(s, sequence) = <<e>> /\ Emit(s \o <<>>)
      BY <1>4, <1>11, <2>1
    <3> HIDE DEF s
    <3>2. s \o <<>> = s
      BY <3>1 DEF Sequential
    <3> QED
      BY <3>1, <3>2, EmitsEvents
  <2>3. PICK j : j = [request |-> request, view |-> a, last |-> last + 1, ids |-> k.ids \cup {last + 1},
                      first |-> f]
    OBVIOUS
  <2>4. j.request = request /\ j.view = a /\ j.last = last + 1 /\ j.ids = k.ids \cup {last + 1} /\ j.first = f
    BY <2>3
  <2>5. Falsity(g) /\ k.request = request
    <3>1. Falsity(g)
      BY <1>8, <1>9, <1>13, ShutsIs
    <3> QED
      BY <1>5, <3>1 DEF Situation
  <2>6. Is(u, j, sequence + 1, Boundary)
    <3>1. u = Ver(o, j.request, j.view, j.last, j.ids, j.first, g, sequence + 1, Boundary)
      BY <1>8, <1>9, <2>4, <2>5
    <3> QED
      BY <1>8, <2>5, <3>1 DEF Is
  <2>7. Situation(j)'
    <3>1. last \in Nat /\ k.ids \subseteq 0..last
      BY <1>5 DEF EngineInv, Situation
    <3>2. j.ids \subseteq 0..last'
      BY <1>4, <2>4, <3>1
    <3>3. ~j.first
      BY <1>8, <2>4 DEF Falsity
    <3> QED
      BY <1>4, <2>4, <3>2, <3>3 DEF Situation
  <2>8. pc' \in {"loop", "catalog"}
    BY <1>4, <1>13 DEF Continues
  <2>9. AtPoint(Boundary)' /\ pc' \in Alive
    BY <2>8 DEF AtPoint, Alive
  <2>10. sequence' = sequence + 1 /\ sequence' # 0
    BY <2>2
  <2>11. Meets(Consumer(u, "open"))'
    <3>1. Is(u, j, sequence', Boundary)
      BY <2>6, <2>10
    <3> QED
      BY <2>7, <2>9, <2>10, <3>1 DEF Meets, Alive
  <2> QED
    BY <1>10, <2>2, <2>11 DEF Advances
<1> QED
  BY <1>12, <1>13

-----------------------------------------------------------------------------
LEMMA AttachAdvances ==
    ASSUME NEW c, Meets(c), AttachInbox
    PROVE  Advances(c)
BY DEF AttachInbox, Advances, Meets, Alive, stream

LEMMA DeadlineAdvances ==
    ASSUME EngineInv, NEW c, Meets(c), CommitMeetsDeadline
    PROVE  Advances(c)
<1>1. pc = "commit" /\ UNCHANGED <<request, pc, view, last, stream>> /\ change' = Limits
  BY DEF CommitMeetsDeadline, At
<1>2. GoodView(view)
  BY DEF EngineInv
<1>3. change'.fact = "control" /\ DeadlineControl(change')
  BY <1>1, <1>2, LimitsGood
<1>4. PICK v, k, B : /\ c = Consumer(v, "open") /\ Is(v, k, sequence, B) /\ sequence # 0 /\ Situation(k)
  BY <1>1 DEF Meets, Alive
<1>5. Situation(k)'
  BY <1>1, <1>3, <1>4 DEF Situation
<1>6. AtPoint(B)' /\ pc' \in Alive
  BY <1>1, <1>3 DEF AtPoint, Alive
<1> QED
  BY <1>1, <1>4, <1>5, <1>6, Rests

LEMMA CatalogAdvances ==
    ASSUME NEW c, Meets(c), CatalogOpens
    PROVE  Advances(c)
<1>1. pc = "catalog" /\ pc' = "loop" /\ UNCHANGED <<request, view, last, stream>>
  BY DEF CatalogOpens, At
<1>2. PICK v, k, B : /\ c = Consumer(v, "open") /\ Is(v, k, sequence, B) /\ sequence # 0 /\ Situation(k)
                     /\ AtPoint(B)
  BY <1>1 DEF Meets, Alive
<1>3. B = Boundary
  BY <1>1, <1>2 DEF AtPoint
<1>4. Situation(k)'
  BY <1>1, <1>2, SituationKept
<1>5. AtPoint(B)' /\ pc' \in Alive
  BY <1>1, <1>3 DEF AtPoint, Alive
<1> QED
  BY <1>1, <1>2, <1>4, <1>5, Rests

(* The changes that may be committed before a boundary is through. *)
LEMMA WayOut ==
    ASSUME GoodView(view)
    PROVE  /\ \A kind \in TerminalStates, deadline \in BOOLEAN : Ends(kind, deadline).fact = "control"
           /\ Limits.fact = "control" /\ Suspends.fact = "control"
           /\ Checkpointing("conversation_insert", view).fact = "conversation_insert"
<1>1. Checkpointing("conversation_insert", view).fact = "conversation_insert"
  BY DEF Checkpointing
<1> QED
  BY <1>1, EndsGood, LimitsGood, SuspendsGood

LEMMA GivingUpAdvances ==
    ASSUME NEW c, Meets(c), pc \in Alive \ {"commit"}, NEW x, x.fact \in {"control", "conversation_insert"},
           GivesUp(x)
    PROVE  Advances(c)
<1>1. pc' = "commit" /\ change' = x /\ UNCHANGED <<request, view, last, stream>>
  BY DEF GivesUp, Commit
<1> QED
  BY <1>1, GivesWay

LEMMA EffectAdvances ==
    ASSUME EngineInv, NEW c, Meets(c), EffectFails \/ EffectTakesControl
    PROVE  Advances(c)
<1>1. pc \in Alive \ {"commit"} /\ GoodView(view)
  BY DEF EffectFails, EffectTakesControl, At, Alive, EngineInv
<1>2. CASE EffectFails
  <2>1. PICK x \in {Ends("failed", FALSE), Limits} : GivesUp(x)
    BY <1>2 DEF EffectFails
  <2>2. x.fact = "control"
    BY <1>1, <2>1, WayOut DEF TerminalStates
  <2> QED
    BY <1>1, <2>1, <2>2, GivingUpAdvances
<1>3. CASE EffectTakesControl
  <2>1. GivesUp(Suspends) \/ GivesUp(Checkpointing("conversation_insert", view)) \/ Quiescent
    BY <1>3 DEF EffectTakesControl, Quiescent, engine
  <2>2. Suspends.fact = "control" /\ Checkpointing("conversation_insert", view).fact = "conversation_insert"
    BY <1>1, WayOut
  <2> QED
    BY <1>1, <2>1, <2>2, GivingUpAdvances, StaysPut
<1> QED
  BY <1>2, <1>3

LEMMA CommittingAdvances ==
    ASSUME EngineInv, NEW c, Meets(c), BoundaryCommits \/ SelectFails \/ BatchMeetsDeadline
    PROVE  Advances(c)
<1>1. pc \in Alive \ {"commit"} /\ GoodView(view) /\ UNCHANGED <<request, view, last, stream>>
  BY DEF BoundaryCommits, SelectFails, BatchMeetsDeadline, AtLoop, Quiet, At, Alive, EngineInv
<1>2. \E x \in {Limits, Suspends, Checkpointing("conversation_insert", view), Ends("failed", FALSE),
                Ends("limited", FALSE)} : Commit(x)
  BY DEF BoundaryCommits, SelectFails, BatchMeetsDeadline
<1>3. PICK x \in {Limits, Suspends, Checkpointing("conversation_insert", view), Ends("failed", FALSE),
                  Ends("limited", FALSE)} : Commit(x)
  BY <1>2
<1>4. x.fact \in {"control", "conversation_insert"}
  <2>1. {"failed", "limited"} \subseteq TerminalStates /\ FALSE \in BOOLEAN
    BY DEF TerminalStates
  <2> QED
    BY <1>1, <1>3, <2>1, WayOut
<1> QED
  BY <1>1, <1>3, <1>4, GivesWay DEF Commit

LEMMA IdleAdvances ==
    ASSUME NEW c, Meets(c), UNCHANGED <<engine, stream>>
    PROVE  Advances(c)
BY StaysPut DEF Quiescent, engine

(* Whatever the engine does before it ends, a consumer who has read        *)
(* everything so far can read what it adds.                                *)
LEMMA EngineAdvances ==
    ASSUME EngineInv, ~Unread, sequence \in Nat, NEW c, Meets(c), EngineStep, ~DriveEnds
    PROVE  Advances(c)
<1>1. CASE AttachInbox
  BY <1>1, AttachAdvances
<1>2. CASE FillsInbox \/ Detach \/ DetachInbox
  BY <1>2, IdleAdvances DEF FillsInbox, Detach, DetachInbox
<1>3. CASE Initialize
  BY <1>3, StartingAdvances
<1>4. CASE CommitLands
  BY <1>4, CommitAdvances
<1>5. CASE CommitFails
  BY <1>5, CommitFailAdvances
<1>6. CASE CommitMeetsDeadline
  BY <1>6, DeadlineAdvances
<1>7. CASE CatalogOpens
  BY <1>7, CatalogAdvances
<1>8. CASE EffectFails \/ EffectTakesControl
  BY <1>8, EffectAdvances
<1>9. CASE BoundaryCommits \/ SelectFails \/ BatchMeetsDeadline
  BY <1>9, CommittingAdvances
<1>10. CASE Plan
  BY <1>10, PlanAdvances
<1>11. CASE ModelAnswers
  BY <1>11, AnswerAdvances
<1>12. CASE SelectBatch
  BY <1>12, SelectAdvances
<1>13. CASE Approves
  BY <1>13, ApproveAdvances
<1>14. CASE ApprovalFails
  BY <1>14, ApprovalFailAdvances
<1>15. CASE ToolsStart
  BY <1>15, ToolsStartAdvances
<1>16. CASE \E i \in DOMAIN tools : ToolFinishes(i)
  BY <1>16, FinishAdvances
<1>17. CASE BatchTakesControl
  BY <1>17, ControlAdvances
<1>18. CASE BatchDone
  BY <1>18, DoneAdvances
<1> QED
  BY <1>1, <1>2, <1>3, <1>4, <1>5, <1>6, <1>7, <1>8, <1>9, <1>10, <1>11, <1>12, <1>13, <1>14, <1>15,
     <1>16, <1>17, <1>18 DEF EngineStep

-----------------------------------------------------------------------------
(* What is in the queue leads its reader on, without a refusal, to the     *)
(* consumer who has read everything; a reader at the end has accepted.     *)
TraceInv ==
    /\ reader \in {"created", "reading", "leaving", "absorbed", "ended", "left"}
    /\ reader \in {"created", "reading"} /\ late # "spoke" =>
           \E c : Ahead(Consumer(verifier, verdict), queue, c) /\ Meets(c)
    /\ reader = "ended" /\ late # "spoke" => verdict = "accepted"
    /\ reader \in {"leaving", "absorbed", "left"} => verdict = "open"

LEMMA TraceVerified ==
    ASSUME TraceInv
    PROVE  TracesVerify
BY AheadStarts, ConsumerFields DEF TraceInv, TracesVerify

LEMMA TraceStart == Init => TraceInv
<1> SUFFICES ASSUME Init PROVE TraceInv
  OBVIOUS
<1>1. PICK c : c = Consumer(NewVerifier(request), "open")
  OBVIOUS
<1>2. queue = <<>> /\ sequence = 0 /\ pc = "new" /\ reader = "created"
      /\ Consumer(verifier, verdict) = c
  BY <1>1 DEF Init
<1>3. c.verdict # "refused"
  BY <1>1, ConsumerFields
<1>4. Ahead(Consumer(verifier, verdict), queue, c)
  BY <1>2, <1>3, AheadNothing
<1>5. Meets(c)
  BY <1>1, <1>2 DEF Meets, Alive
<1> QED
  BY <1>2, <1>4, <1>5 DEF TraceInv

LEMMA MeetsKept ==
    ASSUME NEW c, Meets(c), UNCHANGED <<engine, sequence>>
    PROVE  Meets(c)'
<1>1. Meets(c)' <=> Meets(c)
  BY DEF engine, Meets, AtPoint, InExecution, Answered, Settled, CallsOf, Running, Bound, Situation, InBatch
<1> QED
  BY <1>1

LEMMA Onward ==
    ASSUME TraceInv, UNCHANGED consumer, late = "spoke" => late' = "spoke",
           \A c : Meets(c) /\ ~Unread => Advances(c)
    PROVE  TraceInv'
<1>1. reader' = reader /\ verdict' = verdict /\ verifier' = verifier
  BY DEF consumer
<1>2. ASSUME reader' \in {"created", "reading"}, late' # "spoke"
      PROVE  \E c : Ahead(Consumer(verifier', verdict'), queue', c) /\ Meets(c)'
  <2>1. PICK s : s = Consumer(verifier, verdict)
    OBVIOUS
  <2>2. PICK c : Ahead(s, queue, c) /\ Meets(c)
    BY <1>1, <1>2, <2>1 DEF TraceInv
  <2>3. ~Unread
    BY <1>1, <1>2 DEF Unread
  <2>4. Advances(c)
    BY <2>2, <2>3
  <2>5. s = Consumer(verifier', verdict')
    BY <1>1, <2>1
  <2>6. CASE queue' = queue /\ Meets(c)'
    BY <2>2, <2>5, <2>6
  <2>7. CASE \E q, d : queue' = queue \o q /\ Ahead(c, q, d) /\ Meets(d)'
    <3>1. PICK q, d : queue' = queue \o q /\ Ahead(c, q, d) /\ Meets(d)'
      BY <2>7
    <3>2. Ahead(s, queue \o q, d)
      BY <2>2, <3>1, AheadOn
    <3> QED
      BY <2>5, <3>1, <3>2
  <2> QED
    BY <2>4, <2>6, <2>7 DEF Advances
<1> QED
  BY <1>1, <1>2 DEF TraceInv

LEMMA EngineAbandons ==
    ASSUME EngineStep
    PROVE  UNCHANGED consumer /\ (late = "spoke" => late' = "spoke")
<1>1. ASSUME NEW x, GivesUp(x) PROVE UNCHANGED consumer /\ (late = "spoke" => late' = "spoke")
  BY <1>1 DEF GivesUp
<1>2. CASE EffectFails \/ EffectTakesControl
  BY <1>1, <1>2 DEF EffectFails, EffectTakesControl, engine
<1>3. CASE FillsInbox \/ Detach \/ DetachInbox
  BY <1>3 DEF FillsInbox, Detach, DetachInbox, engine
<1>4. CASE AttachInbox \/ Initialize \/ CommitLands \/ CommitFails \/ CommitMeetsDeadline \/ CatalogOpens
           \/ BoundaryCommits \/ Plan \/ ModelAnswers \/ SelectBatch \/ SelectFails
  BY <1>4 DEF AttachInbox, Initialize, CommitLands, CommitFails, CommitMeetsDeadline, CatalogOpens,
              BoundaryCommits, Plan, ModelAnswers, SelectBatch, SelectFails
<1>5. CASE Approves \/ ApprovalFails \/ ToolsStart \/ (\E i \in DOMAIN tools : ToolFinishes(i))
           \/ BatchTakesControl \/ BatchDone \/ BatchMeetsDeadline \/ DriveEnds
  BY <1>5 DEF Approves, ApprovalFails, ToolsStart, ToolFinishes, BatchTakesControl, BatchDone,
              BatchMeetsDeadline, DriveEnds
<1> QED
  BY <1>2, <1>3, <1>4, <1>5 DEF EngineStep

LEMMA EndTraces ==
    ASSUME TraceInv, DriveEnds
    PROVE  TraceInv'
<1>1. pc = "closing" /\ pc' = "done" /\ UNCHANGED <<consumer, late>> /\ PutDone
  BY DEF DriveEnds
<1>2. ASSUME NEW c, Meets(c), ~Unread, Sequential(queue) PROVE Advances(c)
  <2>1. PICK e : e = Event(Done, Nothing)
    OBVIOUS
  <2>2. e.kind = Done
    BY <2>1 DEF Event
  <2>3. c.verdict = "accepted" /\ c.verifier.previous # 0
    BY <1>1, <1>2 DEF Meets
  <2>4. PICK d : d = Consumer(c.verifier, "accepted")
    OBVIOUS
  <2>5. d = After(c, e)
    BY <2>2, <2>3, <2>4 DEF After, Done
  <2>6. Ahead(c, <<e>>, d)
    BY <2>3, <2>4, <2>5, AheadOne, ConsumerFields
  <2>7. Meets(d)'
    BY <1>1, <2>3, <2>4, ConsumerFields DEF Meets, Alive
  <2>8. queue' = queue \o <<e>>
    <3>1. queue' = Append(queue, e)
      BY <1>1, <1>2, <2>1 DEF PutDone
    <3>2. PICK M : queue \in Seq(M)
      BY <1>2 DEF Sequential
    <3>3. Append(queue, e) = queue \o <<e>>
      BY <3>2
    <3> QED
      BY <3>1, <3>3
  <2> QED
    BY <2>6, <2>7, <2>8 DEF Advances
<1>3. CASE Sequential(queue)
  <2>1. \A c : Meets(c) /\ ~Unread => Advances(c)
    BY <1>2, <1>3
  <2> QED
    BY <1>1, <2>1, Onward
<1>4. CASE ~Sequential(queue)
  BY <1>1, <1>4, AheadStarts DEF TraceInv, consumer
<1> QED
  BY <1>3, <1>4

LEMMA JudgeIs ==
    ASSUME NEW e, Judge(e), reader = "reading"
    PROVE  /\ Consumer(verifier', verdict') = After(Consumer(verifier, verdict), e)
           /\ reader' \in {"reading", "ended"}
           /\ reader' = "ended" => verdict' \in {"accepted", "refused"}
<1>1. PICK v : v = verifier
  OBVIOUS
<1>2. PICK o : o = verdict
  OBVIOUS
<1>3. PICK c : c = Consumer(v, o)
  OBVIOUS
<1>4. c.verifier = v /\ c.verdict = o
  BY <1>3, ConsumerFields
<1>5. Consumer(verifier', verdict') = After(c, e)
  BY <1>1, <1>2, <1>4 DEF Judge, After
<1>6. reader' \in {"reading", "ended"} /\ (reader' = "ended" => verdict' \in {"accepted", "refused"})
  BY DEF Judge
<1> QED
  BY <1>1, <1>2, <1>3, <1>5, <1>6

LEMMA ReceiptTraces ==
    ASSUME TraceInv, Receive
    PROVE  TraceInv'
<1>1. reader = "reading" /\ queue # <<>> /\ queue' = Tail(queue) /\ Judge(Head(queue))
      /\ UNCHANGED <<engine, sequence>>
  BY DEF Receive
<1>2. PICK s : s = Consumer(verifier, verdict)
  OBVIOUS
<1>3. PICK e : e = Head(queue)
  OBVIOUS
<1>4. PICK t : t = Consumer(verifier', verdict')
  OBVIOUS
<1>5. /\ t = After(s, e) /\ reader' \in {"reading", "ended"}
      /\ reader' = "ended" => verdict' \in {"accepted", "refused"}
  BY <1>1, <1>2, <1>3, <1>4, JudgeIs
<1>6. late' = late
  BY <1>1 DEF engine
<1>7. ASSUME late # "spoke"
      PROVE  verdict' # "refused" /\ \E c : Ahead(t, queue', c) /\ Meets(c)'
  <2>1. PICK c : Ahead(s, queue, c) /\ Meets(c)
    BY <1>1, <1>2, <1>7 DEF TraceInv
  <2>2. Ahead(t, queue', c) /\ t.verdict # "refused"
    BY <1>1, <1>3, <1>5, <2>1, AheadTail
  <2>3. Meets(c)'
    BY <1>1, <2>1, MeetsKept
  <2>4. t.verdict = verdict'
    BY <1>4, ConsumerFields
  <2> QED
    BY <2>2, <2>3, <2>4
<1> QED
  BY <1>4, <1>5, <1>6, <1>7 DEF TraceInv

LEMMA TraceStep ==
    ASSUME EngineInv, QueueInv, TraceInv, [Next]_vars
    PROVE  TraceInv'
<1>1. sequence \in Nat
  BY DEF QueueInv, Accounted
<1>2. CASE EngineStep /\ ~DriveEnds
  <2>1. \A c : Meets(c) /\ ~Unread => Advances(c)
    BY <1>1, <1>2, EngineAdvances
  <2> QED
    BY <1>2, <2>1, EngineAbandons, Onward
<1>3. CASE DriveEnds
  BY <1>3, EndTraces
<1>4. CASE ModelEmitsDelta
  <2>1. \A c : Meets(c) /\ ~Unread => Advances(c)
    BY <1>1, <1>4, DeltaAdvances
  <2>2. UNCHANGED <<consumer, late>>
    BY <1>4 DEF ModelEmitsDelta
  <2> QED
    BY <2>1, <2>2, Onward
<1>5. CASE \E i \in DOMAIN tools : ToolReports(i)
  <2>1. \A c : Meets(c) /\ ~Unread => Advances(c)
    BY <1>1, <1>5, ReportAdvances
  <2>2. UNCHANGED <<consumer, late>>
    BY <1>5 DEF ToolReports
  <2> QED
    BY <2>1, <2>2, Onward
<1>6. CASE LateDelta
  BY <1>6 DEF LateDelta, TraceInv, consumer
<1>7. CASE Iterate \/ CommitAbsorbs
  <2>1. UNCHANGED <<engine, stream, verifier, verdict>>
        /\ <<reader, reader'>> \in {<<"created", "reading">>, <<"leaving", "absorbed">>}
    BY <1>7 DEF Iterate, CommitAbsorbs
  <2>2. UNCHANGED <<late, queue, sequence>>
    BY <2>1 DEF engine, stream
  <2>3. ASSUME NEW c, Ahead(Consumer(verifier, verdict), queue, c), Meets(c)
        PROVE  Ahead(Consumer(verifier', verdict'), queue', c) /\ Meets(c)'
    BY <2>1, <2>2, <2>3, MeetsKept
  <2> QED
    BY <2>1, <2>2, <2>3 DEF TraceInv
<1>8. CASE Receive
  BY <1>8, ReceiptTraces
<1>9. CASE Leave \/ Left
  BY <1>9 DEF Leave, Left, Unread, TraceInv
<1>10. CASE Cancelled
  BY <1>10 DEF Cancelled, TraceInv, consumer
<1>11. CASE ThreadSubmits \/ LoopDelivers \/ UNCHANGED vars
  <2>1. UNCHANGED <<engine, stream, consumer>>
    BY <1>11 DEF ThreadSubmits, LoopDelivers, vars
  <2>2. \A c : Meets(c) /\ ~Unread => Advances(c)
    BY <2>1, IdleAdvances
  <2>3. late' = late
    BY <2>1 DEF engine
  <2> QED
    BY <2>1, <2>2, <2>3, Onward
<1> QED
  BY <1>2, <1>3, <1>4, <1>5, <1>6, <1>7, <1>8, <1>9, <1>10, <1>11 DEF Next, EngineStep, Chatter, Reading

(* The trace of an invocation that is read to its end is accepted by       *)
(* verify_trace, unless a model went on emitting after it was given up:    *)
(* whatever was dropped, whoever intervened, wherever the engine stopped.  *)
THEOREM TracesVerifyAlways == Spec => []TracesVerify
<1>1. Init => EngineInv /\ QueueInv /\ TraceInv
  BY EngineStart, QueueStart, TraceStart
<1>2. (EngineInv /\ QueueInv /\ TraceInv) /\ [Next]_vars => (EngineInv /\ QueueInv /\ TraceInv)'
  BY EngineFits, QueueStep, TraceStep
<1>3. TraceInv => TracesVerify
  BY TraceVerified
<1> QED
  BY <1>1, <1>2, <1>3, PTL DEF Spec

=============================================================================
