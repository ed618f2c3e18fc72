---------------------------- MODULE ControlChannel ----------------------------
(***************************************************************************)
(* The control channel of one invocation: ControlSource, which any thread  *)
(* may submit to, and ControlInbox, which the engine reads on the event    *)
(* loop.                                                                   *)
(*                                                                         *)
(* ControlSource.submit holds the source's lock from its check to its      *)
(* hand-over, so it is one step.  attach and close release the lock before *)
(* they fill or close the inbox; they are two steps, and threads submit in *)
(* between.  loop.call_soon_threadsafe queues a callback that runs only    *)
(* when the loop's current callback, such as attach, has returned.         *)
(***************************************************************************)
EXTENDS Naturals, Sequences

CONSTANTS Kinds,      \* kinds of control threads submit: "pause", "insert", "cancel"
          MaxControls \* bound: controls submitted

ASSUME ChannelAssumption == MaxControls \in Nat /\ Kinds \subseteq {"pause", "insert", "cancel"}

VARIABLES
    source,    \* ControlSource: "waiting" (no inbox), "active" or "closed"
    pending,   \* ControlSource._pending
    snapshot,  \* what attach has taken from it and not yet put into the inbox
    callbacks, \* controls on their way through the loop
    inbox,     \* ControlInbox._queue
    inboxOpen, \* not ControlInbox._closed
    sent,      \* controls submitted while the source was open, numbered in lock order
    taken      \* controls the engine has taken

channel == <<source, pending, snapshot, callbacks, inbox, inboxOpen, sent, taken>>

ChannelInit ==
    /\ source = "waiting" /\ inboxOpen = TRUE
    /\ pending = <<>> /\ snapshot = <<>> /\ callbacks = <<>> /\ inbox = <<>>
    /\ sent = 0 /\ taken = 0

-----------------------------------------------------------------------------
(* A host thread; which one makes no difference to the channel.            *)

SubmitDirectly(c) == \* mutation: the submitting thread fills the inbox itself
    IF source = "waiting"
    THEN pending' = Append(pending, c) /\ UNCHANGED <<inbox, callbacks>>
    ELSE inbox' = Append(inbox, c) /\ UNCHANGED <<pending, callbacks>>

Deliver(c) ==
    IF source = "waiting"
    THEN pending' = Append(pending, c) /\ UNCHANGED <<inbox, callbacks>>
    ELSE callbacks' = Append(callbacks, c) /\ UNCHANGED <<pending, inbox>>

Submit(kinds) ==
    /\ source # "closed" /\ sent < MaxControls
    /\ sent' = sent + 1
    /\ \E kind \in kinds : Deliver([kind |-> kind, n |-> sent'])
    /\ UNCHANGED <<source, snapshot, inboxOpen, taken>>

-----------------------------------------------------------------------------
(* The loop thread.                                                        *)

Attach ==
    /\ source = "waiting"
    /\ source' = "active" /\ snapshot' = pending /\ pending' = <<>>
    /\ UNCHANGED <<callbacks, inbox, inboxOpen, sent, taken>>

FillInbox ==
    /\ snapshot # <<>>
    /\ inbox' = Append(inbox, Head(snapshot)) /\ snapshot' = Tail(snapshot)
    /\ UNCHANGED <<source, pending, callbacks, inboxOpen, sent, taken>>

EnqueueAlways == inbox' = Append(inbox, Head(callbacks)) \* mutation: closed inboxes are filled
EnqueueIfOpen == inbox' = IF inboxOpen THEN Append(inbox, Head(callbacks)) ELSE inbox

RunCallback ==
    /\ callbacks # <<>> /\ snapshot = <<>> /\ EnqueueIfOpen /\ callbacks' = Tail(callbacks)
    /\ UNCHANGED <<source, pending, snapshot, inboxOpen, sent, taken>>

Take(n) == \* the engine takes the n oldest controls
    /\ inbox' = SubSeq(inbox, n + 1, Len(inbox)) /\ taken' = taken + n
    /\ UNCHANGED <<source, pending, snapshot, callbacks, inboxOpen, sent>>

(* close() and detach() do the same: the source first, then its inbox.     *)
CloseSource ==
    /\ source # "closed" /\ snapshot = <<>>
    /\ source' = "closed" /\ pending' = <<>>
    /\ UNCHANGED <<snapshot, callbacks, inbox, inboxOpen, sent, taken>>

CloseInbox ==
    /\ source = "closed" /\ inboxOpen
    /\ inboxOpen' = FALSE /\ inbox' = <<>>
    /\ UNCHANGED <<source, pending, snapshot, callbacks, sent, taken>>

ChannelNext ==
    \/ Submit(Kinds)
    \/ Attach \/ FillInbox \/ RunCallback
    \/ \E n \in 0..Len(inbox) : Take(n)
    \/ CloseSource \/ CloseInbox

ChannelSpec == ChannelInit /\ [][ChannelNext]_channel

-----------------------------------------------------------------------------
(* Until the source closes, every submitted control is in exactly one      *)
(* place on its way to the engine, and the engine takes them in the order  *)
(* the threads submitted them: attach cannot be overtaken by a submission  *)
(* that found the inbox while its snapshot was still being copied.         *)
ControlsInOrder ==
    LET transit == inbox \o snapshot \o callbacks \o pending
    IN  source # "closed" =>
            /\ Len(transit) = sent - taken
            /\ \A i \in DOMAIN transit : transit[i].n = taken + i

(* A closed inbox stays empty although callbacks of earlier submissions    *)
(* still arrive, so a control can never reach the next reader.             *)
ClosedStaysEmpty == ~inboxOpen => inbox = <<>>
=============================================================================
