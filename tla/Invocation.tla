------------------------------ MODULE Invocation ------------------------------
(***************************************************************************)
(* One observed invocation: the engine emits its events into the           *)
(* invocation's queue, a consumer iterates them and hands each to the      *)
(* trace verifier, host threads submit controls, and the consumer may      *)
(* leave.                                                                  *)
(*                                                                         *)
(* Of the engine only what decides the order of events is here; what it    *)
(* commits and why is module Engine.  An engine step is again everything   *)
(* between two suspension points, and emitting never suspends.             *)
(***************************************************************************)
EXTENDS ControlChannel, TraceVerifier

CONSTANTS Requests,    \* requests: <<"start" | "continue" | "resume", active state it works on>>
          HasApproval, \* an approval policy is configured
          Outcomes,    \* outcomes of executed calls that matter: "success", "failure", "waiting"
          Stubborn,    \* a model may ignore its cancellation and still emit deltas
          MaxBuffered, \* max_buffered_events: lossy events the queue may hold
          MaxSteps,    \* RunLimits.max_planning_steps
          StartCalls,  \* bound: calls pending in the checkpoint a request starts from
          MaxCalls,    \* bound: calls in one response
          ControlsOf,  \* bound: kinds of the first, second .. control sent to each request
          MaxLossy,    \* bound: deltas and progress reports of one boundary
          MaxLag       \* bound: events the consumer may be behind an engine that goes on

ASSUME InvocationAssumption ==
    /\ Requests \subseteq ({"continue", "resume"} \X ActiveStates) \cup {<<"start", "planning">>}
    /\ Outcomes \subseteq {"success", "failure", "waiting"} /\ {HasApproval, Stubborn} \subseteq BOOLEAN
    /\ MaxBuffered \in Nat \ {0} /\ {MaxSteps, StartCalls, MaxCalls, MaxLossy, MaxLag} \subseteq Nat
ASSUME ControlsAssumption ==
    ControlsOf \in [{"start", "continue", "resume"} -> Seq(SUBSET Kinds)]

VARIABLES
    request,  \* the request this invocation executes
    pc,       \* where the engine is: a suspension point, "loop" or the ends of its life
    view,     \* the view of the checkpoint it continues from
    last,     \* the id of that checkpoint, 0: none
    opened,   \* the tool catalog is open
    deferred, \* inserts taken and not committed
    change,   \* the change being committed, then carried by checkpoint_committed
    batch,    \* the batch selected, as the verifier will see it
    tools,    \* status of its calls
    paused,   \* the batch took a pause
    noise,    \* deltas and progress reports of this boundary
    late,     \* an abandoned model: "none", "running", or it "spoke"
    queue,    \* Invocation._queue
    sequence, \* Invocation._sequence
    lossy,    \* Invocation._lossy_queued
    reader,   \* the event iterator: created, reading, leaving, absorbed, ended, left
    verifier, \* the verifier of the events received so far
    verdict   \* what became of the trace: open, accepted, refused

engine == <<request, pc, view, last, opened, deferred, change, batch, tools, paused, noise, late>>
stream == <<queue, sequence, lossy>>
consumer == <<reader, verifier, verdict>>
vars == <<engine, stream, consumer, channel>>

Done == "done"  \* the sentinel _DONE
Lossy == {"model_delta", "tool_progress"}
Nothing == [none |-> TRUE]

FirstCalls == [i \in 1..StartCalls |-> i]
Start(kind) == View(kind, 0, IF kind = "tools_pending" THEN FirstCalls ELSE <<>>, "none")

(* The view a request starts from: a ContinueRequest takes an active       *)
(* checkpoint, a ResumeRequest a suspended one.                            *)
StartingView(kind, state) ==
    CASE kind = "start"    -> NoView
      [] kind = "continue" -> Start(state)
      [] kind = "resume"   -> [Start(state) EXCEPT !.kind = "suspended", !.resume = state]

Init ==
    /\ \E r \in Requests : request = r[1] /\ view = StartingView(r[1], r[2])
    /\ last = (IF request = "start" THEN 0 ELSE 1)
    /\ pc = "new" /\ opened = FALSE /\ deferred = 0 /\ change = Nothing
    /\ batch = NoBatch /\ tools = <<>> /\ paused = FALSE /\ noise = 0 /\ late = "none"
    /\ queue = <<>> /\ sequence = 0 /\ lossy = 0
    /\ reader = "created" /\ verifier = NewVerifier(request) /\ verdict = "open"
    /\ ChannelInit

-----------------------------------------------------------------------------
(* Invocation._emit.  A lossy event that finds its allowance used up is    *)
(* dropped before it is numbered.  Once the consumer has left nobody reads *)
(* the queue again, so from there on it is kept empty.                     *)

Event(kind, data) == [seq |-> 0, kind |-> kind, data |-> data]
Unread == reader \in {"leaving", "absorbed"}
Numbered(events) == [i \in DOMAIN events |-> [events[i] EXCEPT !.seq = sequence + i]]

EmitDropping(events) == \* mutation: the full allowance drops any event
    IF lossy >= MaxBuffered \/ Unread
    THEN UNCHANGED stream
    ELSE queue' = queue \o Numbered(events) /\ sequence' = sequence + Len(events) /\ UNCHANGED lossy

Emit(events) ==
    IF Unread
    THEN UNCHANGED stream
    ELSE queue' = queue \o Numbered(events) /\ sequence' = sequence + Len(events) /\ UNCHANGED lossy

EmitLossy(kind, data) ==
    IF lossy >= MaxBuffered \/ Unread
    THEN UNCHANGED stream
    ELSE /\ queue' = queue \o Numbered(<<Event(kind, data)>>)
         /\ sequence' = sequence + 1
         /\ lossy' = lossy + 1

-----------------------------------------------------------------------------
(* The engine's steps.  Each says what it emits and where it goes on.      *)

Waits == {"catalog", "model", "approve", "exec", "commit"} \* suspension points
Heard == Len(queue) <= MaxLag

(* The engine waits at point p and no cancellation is on its way there.    *)
At(p) == pc = p /\ reader # "leaving" /\ Heard

Checkpointing(fact, after) ==
    [fact |-> fact, after |-> after, deadline |-> FALSE, calls |-> <<>>, outcomes |-> <<>>]
Ends(kind, deadline) ==
    [Checkpointing("control", [view EXCEPT !.kind = kind, !.pending = <<>>])
        EXCEPT !.deadline = deadline]
Suspends == Checkpointing("control", [view EXCEPT !.kind = "suspended", !.resume = view.kind])
Limits == Ends("limited", TRUE)

Commit(c) == pc' = "commit" /\ change' = c

(* A boundary of the engine; what the boundary's effects were is forgotten. *)
AtBoundary == batch' = NoBatch /\ tools' = <<>> /\ paused' = FALSE /\ noise' = 0

Stopped(reason, id) == Event("invocation_stopped", [reason |-> reason, last |-> id])

(* Engine.run: attach the inbox (with Attach of the channel), then start.  *)
AttachInbox ==
    /\ pc = "new" /\ reader # "created"
    /\ pc' = "attached" /\ Attach
    /\ UNCHANGED <<request, view, last, opened, deferred, change, batch, tools, paused, noise,
                   late, stream, consumer>>

FillsInbox == pc = "attached" /\ FillInbox /\ UNCHANGED <<engine, stream, consumer>>

Initialize ==
    /\ pc = "attached" /\ snapshot = <<>>
    /\ Emit(<<Event("invocation_started", [request |-> request, from |-> last, view |-> view])>>)
    /\ CASE request = "start" -> Commit(Checkpointing("started", Start("planning")))
         [] request = "continue" -> pc' = "catalog" /\ UNCHANGED change
         [] request = "resume" ->
                Commit(Checkpointing("resumed", [view EXCEPT !.kind = view.resume, !.resume = "none"]))
    /\ UNCHANGED <<request, view, last, opened, deferred, batch, tools, paused, noise, late,
                   consumer, channel>>

Continues(after) ==
    IF after.kind \in ClosedStates THEN "closing" ELSE IF opened THEN "loop" ELSE "catalog"

(* The commit lands: checkpoint_committed, and at the end of the run       *)
(* invocation_stopped, before anything else can happen.                    *)
CommitLands ==
    /\ At("commit")
    /\ LET a == change.after
           committed == Event("checkpoint_committed",
                              [id |-> last + 1, fact |-> change.fact, before |-> view, after |-> a,
                               deadline |-> change.deadline, batch |-> batch.id,
                               parallel |-> batch.parallel, calls |-> change.calls,
                               outcomes |-> change.outcomes])
           ends == IF a.kind \in TerminalStates THEN <<Stopped("terminal", last + 1)>>
                   ELSE IF a.kind = "suspended" THEN <<Stopped("suspended", last + 1)>> ELSE <<>>
       IN  /\ Emit(<<committed>> \o ends)
           /\ view' = a /\ pc' = Continues(a)
    /\ last' = last + 1 /\ change' = Nothing /\ AtBoundary
    /\ UNCHANGED <<request, opened, deferred, late, consumer, channel>>

CommitFails == \* CommitError; a start also when the deadline hits
    /\ At("commit")
    /\ Emit(<<Stopped("repository_error", last)>>)
    /\ pc' = "closing" /\ change' = Nothing /\ AtBoundary
    /\ UNCHANGED <<request, view, last, opened, deferred, late, consumer, channel>>

CommitMeetsDeadline ==
    /\ At("commit") /\ change.fact # "started" /\ ~change.deadline
    /\ change' = Limits
    /\ UNCHANGED <<request, pc, view, last, opened, deferred, batch, tools, paused, noise, late,
                   stream, consumer, channel>>

CatalogOpens ==
    /\ At("catalog") /\ pc' = "loop" /\ opened' = TRUE
    /\ UNCHANGED <<request, view, last, deferred, change, batch, tools, paused, noise, late,
                   stream, consumer, channel>>

(* await_effect gives up on the catalog or the model.  A model that        *)
(* ignores its cancellation is abandoned and goes on emitting (bound: one  *)
(* does, and emits once).                                                  *)
GivesUp(c) ==
    /\ Commit(c)
    /\ late' \in IF Stubborn /\ pc = "model" /\ late = "none" THEN {"none", "running"} ELSE {late}
    /\ UNCHANGED <<request, view, last, opened, batch, tools, paused, noise, stream, consumer>>

EffectFails ==
    /\ (At("catalog") \/ At("model")) /\ \E c \in {Ends("failed", FALSE), Limits} : GivesUp(c)
    /\ UNCHANGED <<deferred, channel>>

EffectTakesControl ==
    /\ (At("catalog") \/ At("model")) /\ inbox # <<>> /\ Take(1)
    /\ LET c == Head(inbox)
       IN  \/ c.kind = "pause" /\ GivesUp(Suspends) /\ UNCHANGED deferred
           \/ c.kind = "insert" /\ pc = "model"
              /\ GivesUp(Checkpointing("conversation_insert", view)) /\ UNCHANGED deferred
           \/ c.kind = "insert" /\ pc = "catalog"
              /\ deferred' = deferred + 1
              /\ UNCHANGED <<request, pc, view, last, opened, change, batch, tools, paused, noise,
                             late, stream, consumer>>
           \/ c.kind = "cancel" /\ UNCHANGED <<engine, stream, consumer>>

-----------------------------------------------------------------------------
(* A boundary: controls first, then the model or the tools.                *)

Count(kind, controls) == Len(SelectSeq(controls, LAMBDA c : c.kind = kind))
Inserts == deferred + Count("insert", inbox)
Paused == Count("pause", inbox) > 0
InsertDue == view.kind = "planning" /\ Inserts > 0
AtLoop == pc = "loop" /\ Take(Len(inbox))

BoundaryCommits ==
    /\ AtLoop
    /\ \/ Commit(Limits) /\ deferred' = Inserts
       \/ Paused /\ Commit(Suspends) /\ deferred' = Inserts
       \/ ~Paused /\ InsertDue
          /\ Commit(Checkpointing("conversation_insert", view)) /\ deferred' = Inserts - 1
    /\ UNCHANGED <<request, view, last, opened, batch, tools, paused, noise, late, stream, consumer>>

Quiet == AtLoop /\ ~Paused /\ ~InsertDue /\ deferred' = Inserts

Plan ==
    /\ Quiet /\ view.kind = "planning"
    /\ IF view.steps >= MaxSteps
       THEN Commit(Ends("limited", FALSE)) /\ UNCHANGED stream
       ELSE /\ Emit(<<Event("model_started", [step |-> view.steps + 1])>>)
            /\ pc' = "model" /\ UNCHANGED change
    /\ UNCHANGED <<request, view, last, opened, batch, tools, paused, noise, late, consumer>>

ModelEmitsDelta ==
    /\ At("model") /\ noise < MaxLossy
    /\ noise' = noise + 1 /\ EmitLossy("model_delta", Nothing)
    /\ UNCHANGED <<request, pc, view, last, opened, deferred, change, batch, tools, paused, late,
                   consumer, channel>>

LateDelta ==
    /\ late = "running" /\ pc \in Waits /\ late' = "spoke" /\ EmitLossy("model_delta", Nothing)
    /\ UNCHANGED <<request, pc, view, last, opened, deferred, change, batch, tools, paused, noise,
                   consumer, channel>>

NewCalls(n) == [i \in 1..n |-> StartCalls + view.steps * MaxCalls + i]
Answer(calls, kind) ==
    [Checkpointing("model_turn", View(kind, view.steps + 1,
                                      IF kind = "tools_pending" THEN calls ELSE <<>>, "none"))
        EXCEPT !.calls = calls]

AnswerLate(calls, kind) == \* mutation: the turn is committed before the model is done
    Commit(Answer(calls, kind)) /\ UNCHANGED stream
FinishModel(calls, kind) ==
    /\ Emit(<<Event("model_finished", [calls |-> Len(calls)])>>)
    /\ Commit(Answer(calls, kind))

ModelAnswers ==
    /\ At("model")
    /\ \E n \in 0..MaxCalls :
           \E kind \in IF n = 0 THEN {"completed", "planning", "limited"} ELSE {"tools_pending", "limited"} :
               FinishModel(NewCalls(n), kind)
    /\ UNCHANGED <<request, view, last, opened, deferred, batch, tools, paused, noise, late,
                   consumer, channel>>

-----------------------------------------------------------------------------
(* ToolStep.run.                                                           *)

Data(i) == [batch |-> batch'.id, index |-> i, call |-> batch'.calls[i], parallel |-> batch'.parallel]
Bound(statuses) == {i \in DOMAIN statuses : statuses[i] = "ready"}
Asked(statuses) == \* the bound calls in model order
    LET upTo[n \in 0..Len(statuses)] ==
          IF n = 0 THEN <<>>
          ELSE IF statuses[n] = "ready" THEN Append(upTo[n - 1], n) ELSE upTo[n - 1]
    IN  upTo[Len(statuses)]
EachOf(kind, indices) == [k \in DOMAIN indices |-> Event(kind, Data(indices[k]))]

(* A batch without a bound call asks nobody and runs nothing; its last     *)
(* step, with the fact, is BatchDone.                                      *)
SelectBatch ==
    /\ Quiet /\ Heard /\ view.kind = "tools_pending"
    /\ \E k \in 1..Len(view.pending), parallel \in BOOLEAN :
           \E statuses \in [1..k -> {"ready", "failure"}] :
               LET calls == SubSeq(view.pending, 1, k)
                   asks == HasApproval /\ Bound(statuses) # {}
               IN  /\ batch' = [id |-> last, calls |-> calls, parallel |-> parallel]
                   /\ tools' = statuses
                   /\ Emit(<<Event("tool_batch_selected",
                                   [batch |-> last, calls |-> calls, parallel |-> parallel,
                                    rest |-> SubSeq(view.pending, k + 1, Len(view.pending))])>>
                           \o IF asks THEN EachOf("approval_requested", Asked(statuses)) ELSE <<>>)
                   /\ pc' = IF asks THEN "approve" ELSE "exec"
    /\ UNCHANGED <<request, view, last, opened, change, paused, noise, late, consumer>>

SelectFails == \* a batch policy or tool limit
    /\ Quiet /\ view.kind = "tools_pending"
    /\ \E kind \in {"failed", "limited"} : Commit(Ends(kind, FALSE))
    /\ UNCHANGED <<request, view, last, opened, batch, tools, paused, noise, late, stream, consumer>>

(* The policy answers for every request in turn; the first suspension is   *)
(* kept, the other answers are still announced.                            *)
Approves ==
    /\ At("approve") /\ UNCHANGED batch
    /\ \E answers \in [Bound(tools) -> {"allow", "deny", "suspend"}] :
           /\ Emit(EachOf("approval_decided", Asked(tools)))
           /\ IF \E i \in Bound(tools) : answers[i] = "suspend"
              THEN Commit(Suspends) /\ UNCHANGED <<tools, paused, deferred, inbox, taken>>
              ELSE /\ tools' = [i \in DOMAIN tools |->
                                   IF i \in Bound(tools) /\ answers[i] = "deny"
                                   THEN "failure" ELSE tools[i]]
                   /\ pc' = "exec" /\ UNCHANGED change
                   /\ paused' = Paused /\ deferred' = deferred + Count("insert", inbox)
                   /\ inbox' = <<>> /\ taken' = taken + Len(inbox)
    /\ UNCHANGED <<request, view, last, opened, noise, late, consumer, source, pending, snapshot,
                   callbacks, inboxOpen, sent>>

(* The policy raises, possibly after some answers were announced, or the   *)
(* deadline hits while it decides.                                         *)
ApprovalFails ==
    /\ At("approve") /\ UNCHANGED batch
    /\ \/ \E k \in 0..Len(Asked(tools)) - 1 :
              /\ Emit(EachOf("approval_decided", SubSeq(Asked(tools), 1, k)))
              /\ Commit(Ends("failed", FALSE))
       \/ Commit(Limits) /\ UNCHANGED stream
    /\ UNCHANGED <<request, view, last, opened, deferred, tools, paused, noise, late, consumer, channel>>

Running == {i \in DOMAIN tools : tools[i] = "running"}

(* The tasks of a batch were created together and run one after another in *)
(* the same turn of the loop: all of them start if there are permits, one  *)
(* at a time if the batch is sequential.                                   *)
ToolsStart ==
    /\ At("exec") /\ Bound(tools) # {} /\ UNCHANGED batch
    /\ batch.parallel \/ Running = {}
    /\ LET starting == IF batch.parallel THEN Asked(tools) ELSE <<Head(Asked(tools))>>
       IN  /\ tools' = [i \in DOMAIN tools |->
                            IF \E k \in DOMAIN starting : starting[k] = i THEN "running" ELSE tools[i]]
           /\ Emit(EachOf("tool_started", starting))
    /\ UNCHANGED <<request, pc, view, last, opened, deferred, change, paused, noise, late,
                   consumer, channel>>

ToolReports(i) ==
    /\ At("exec") /\ i \in Running /\ noise < MaxLossy
    /\ noise' = noise + 1 /\ EmitLossy("tool_progress", [call |-> batch.calls[i]])
    /\ UNCHANGED <<request, pc, view, last, opened, deferred, change, batch, tools, paused, late,
                   consumer, channel>>

ToolFinishes(i) ==
    /\ At("exec") /\ i \in Running
    /\ \E outcome \in Outcomes :
           /\ tools' = [tools EXCEPT ![i] = outcome]
           /\ Emit(<<Event("tool_finished", [batch |-> batch.id, index |-> i,
                                             call |-> batch.calls[i], outcome |-> outcome])>>)
    /\ UNCHANGED <<request, pc, view, last, opened, deferred, change, batch, paused, noise, late,
                   consumer, channel>>

BatchTakesControl ==
    /\ At("exec") /\ (\E i \in DOMAIN tools : tools[i] \in {"ready", "running"})
    /\ inbox # <<>> /\ Take(1)
    /\ LET c == Head(inbox)
       IN  /\ paused' = (paused \/ c.kind = "pause")
           /\ deferred' = deferred + (IF c.kind = "insert" THEN 1 ELSE 0)
           /\ \/ c.kind = "cancel" /\ \E i \in Running :
                     Emit(<<Event("tool_cancel_requested", [call |-> batch.calls[i]])>>)
              \/ UNCHANGED stream \* any other control, or the call is not active
    /\ UNCHANGED <<request, pc, view, last, opened, change, batch, tools, noise, late, consumer>>

BatchDone ==
    /\ At("exec") /\ (\A i \in DOMAIN tools : tools[i] \notin {"ready", "running"})
    /\ LET rest == SubSeq(view.pending, Len(batch.calls) + 1, Len(view.pending))
           active == IF rest = <<>> THEN "planning" ELSE "tools_pending"
           waits == paused \/ \E i \in DOMAIN tools : tools[i] = "waiting"
           after == View(IF waits THEN "suspended" ELSE active, view.steps, rest,
                         IF waits THEN active ELSE "none")
       IN  Commit([Checkpointing("tool_batch", after) EXCEPT !.calls = batch.calls,
                                                             !.outcomes = tools])
    /\ UNCHANGED <<request, view, last, opened, deferred, batch, tools, paused, noise, late,
                   stream, consumer, channel>>

BatchMeetsDeadline ==
    /\ At("exec") /\ Commit(Limits)
    /\ UNCHANGED <<request, view, last, opened, deferred, batch, tools, paused, noise, late,
                   stream, consumer, channel>>

-----------------------------------------------------------------------------
(* The ends of the engine's life.                                          *)

(* Engine.run ends with controls.detach, Invocation._drive with _DONE.     *)
Detach == pc = "closing" /\ CloseSource /\ UNCHANGED <<engine, stream, consumer>>
DetachInbox == pc = "closing" /\ CloseInbox /\ UNCHANGED <<engine, stream, consumer>>

DriveSilently == UNCHANGED stream \* mutation: an invocation that fails puts no sentinel
PutDone == IF Unread THEN UNCHANGED stream ELSE queue' = Append(queue, Event(Done, Nothing)) /\ UNCHANGED <<sequence, lossy>>

DriveEnds ==
    /\ pc = "closing" /\ source = "closed" /\ ~inboxOpen
    /\ pc' = "done" /\ PutDone
    /\ UNCHANGED <<request, view, last, opened, deferred, change, batch, tools, paused, noise, late,
                   consumer, channel>>

(* Where the cancellation of a consumer that left arrives.                 *)
Cancelled ==
    /\ pc \in Waits /\ reader = "leaving"
    /\ Emit(<<Stopped("consumer_closed", last)>>)
    /\ pc' = "closing" /\ change' = Nothing /\ AtBoundary
    /\ UNCHANGED <<request, view, last, opened, deferred, late, consumer, channel>>

(* A repository that settles its commit absorbs it: the engine goes on.    *)
CommitAbsorbs ==
    /\ pc = "commit" /\ reader = "leaving" /\ reader' = "absorbed"
    /\ UNCHANGED <<engine, stream, verifier, verdict, channel>>

-----------------------------------------------------------------------------
(* The consumer of Invocation.events().                                    *)

Iterate ==
    /\ reader = "created" /\ reader' = "reading"
    /\ UNCHANGED <<engine, stream, verifier, verdict, channel>>

ReturnsNoAllowance(kind) == lossy \* mutation: a consumed lossy event keeps its place
ReturnsAllowance(kind) == IF kind \in Lossy THEN lossy - 1 ELSE lossy

Judge(e) ==
    IF verifier.previous = 0
    THEN /\ verifier' = Started(verifier, e) /\ UNCHANGED reader
         /\ verdict' = IF AcceptsStart(verifier, e) THEN verdict ELSE "refused"
    ELSE IF e.kind = "invocation_stopped"
    THEN /\ verifier' = [verifier EXCEPT !.previous = e.seq] /\ UNCHANGED reader
         /\ verdict' = IF AcceptsStop(verifier, e) /\ verdict = "open" THEN "accepted" ELSE "refused"
    ELSE IF e.kind = Done
    THEN /\ reader' = "ended" /\ UNCHANGED verifier
         /\ verdict' = IF verdict = "accepted" THEN "accepted" ELSE "refused"
    ELSE LET v == Visited(verifier, e)
         IN  /\ verifier' = v /\ UNCHANGED reader
             /\ verdict' = IF v.ok /\ verdict = "open" THEN "open" ELSE "refused"

Receive ==
    /\ reader = "reading" /\ queue # <<>>
    /\ queue' = Tail(queue) /\ lossy' = ReturnsAllowance(Head(queue).kind)
    /\ Judge(Head(queue))
    /\ UNCHANGED <<engine, sequence, channel>>

(* aclose(): the task is cancelled if it still runs, and awaited.  What    *)
(* was received is no trace and is forgotten.                              *)
Leave ==
    /\ reader = "reading" /\ pc \in Waits \cup {"done"}
    /\ reader' = "leaving" /\ queue' = <<>> /\ lossy' = 0
    /\ verifier' = NewVerifier(request) /\ verdict' = "open" /\ sequence' = 0
    /\ UNCHANGED <<engine, channel>>

Left ==
    /\ Unread /\ pc = "done" /\ reader' = "left"
    /\ UNCHANGED <<engine, stream, verifier, verdict, channel>>

-----------------------------------------------------------------------------
ThreadSubmits ==
    /\ sent < Len(ControlsOf[request]) /\ Submit(Kinds \cap ControlsOf[request][sent + 1])
    /\ UNCHANGED <<engine, stream, consumer>>

(* Callbacks run while the engine's task waits, before it starts and after *)
(* it has ended.                                                           *)
LoopDelivers ==
    /\ pc \in Waits \cup {"new", "done"} /\ RunCallback
    /\ UNCHANGED <<engine, stream, consumer>>

EngineStep ==
    \/ AttachInbox \/ FillsInbox \/ Initialize
    \/ CommitLands \/ CommitFails \/ CommitMeetsDeadline
    \/ CatalogOpens \/ EffectFails \/ EffectTakesControl
    \/ BoundaryCommits \/ Plan \/ ModelAnswers
    \/ SelectBatch \/ SelectFails \/ Approves \/ ApprovalFails
    \/ ToolsStart \/ \E i \in DOMAIN tools : ToolFinishes(i)
    \/ BatchTakesControl \/ BatchDone \/ BatchMeetsDeadline
    \/ Detach \/ DetachInbox \/ DriveEnds

Chatter == ModelEmitsDelta \/ LateDelta \/ \E i \in DOMAIN tools : ToolReports(i)
Reading == Iterate \/ Receive \/ Left

Next == EngineStep \/ Cancelled \/ CommitAbsorbs \/ Chatter \/ Reading \/ Leave \/ ThreadSubmits \/ LoopDelivers

Spec == Init /\ [][Next]_vars

(* Ports and repositories answer or time out, the loop runs its tasks, a   *)
(* consumer that has begun to iterate goes on.                             *)
FairSpec == Spec /\ WF_vars(EngineStep \/ Cancelled) /\ WF_vars(Reading)

-----------------------------------------------------------------------------
(* The trace of an invocation that is read to its end is accepted by       *)
(* verify_trace, however deltas and progress were dropped; only a model    *)
(* that went on emitting after it was cancelled can spoil it.              *)
TracesVerify ==
    verdict = "refused" => late = "spoke"

(* The queue holds at most max_buffered_events lossy events, and the       *)
(* numbers of what the consumer has seen and will see have no gap: what    *)
(* was dropped never had a number.                                         *)
LossyAccounted ==
    LET events == {i \in DOMAIN queue : queue[i].kind # Done}
        held == {i \in DOMAIN queue : queue[i].kind \in Lossy}
    IN  /\ lossy = Cardinality(held) /\ lossy <= MaxBuffered
        /\ \A i \in events : queue[i].seq = sequence - Cardinality(events) + i

(* An iteration ends: with the engine, or soon after the consumer leaves.  *)
StreamEnds == (reader = "reading") ~> (reader \in {"ended", "left"})
=============================================================================
