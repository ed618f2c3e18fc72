----------------------------- MODULE EngineProofs -----------------------------
(***************************************************************************)
(* Proofs about Engine for every value of its constants.  First what holds *)
(* whatever the reducer, the boundary check and the view verifier accept;  *)
(* then what each of them makes of the changes that the engine builds, and *)
(* with it the refinement of RunLifecycle; last the ids of the calls.      *)
(***************************************************************************)
EXTENDS EngineProperties, FiniteSetTheorems, SequenceTheorems, WellFoundedInduction, TLAPS

-----------------------------------------------------------------------------
(* Where the engine's checkpoint stands against the repository's head.     *)
(* Between two commits they are equal; during one they are equal until the *)
(* write; only a crash leaves an engine behind.                            *)

CommitPhase ==
    /\ pc = "commit" => wr \in {"queued", "running", "written"}
    /\ pc # "commit" => wr = "idle"

InStep ==
    /\ pc = "commit" /\ wr # "written" => head = cp
    /\ pc \notin {"commit", "idle"} => head = cp

Reported ==
    /\ last \in {-1, cp.rev}
    /\ pc = "stopped" /\ stop \in {"suspended", "terminal"} =>
          /\ last = cp.rev
          /\ ~IsActive(cp.st)
          /\ stop = "suspended" <=> cp.st.kind = "suspended"

Inv == CommitPhase /\ InStep /\ Reported

(* A proposal leaves the checkpoint and the head where they are. *)
LEMMA CommitKeepsInv ==
    ASSUME Inv, NEW c, Commit(c), head = cp
    PROVE  Inv'
BY DEF Inv, CommitPhase, InStep, Reported, Commit, Propose

(* A discarded invocation has no commit under way. *)
LEMMA StopKeepsInv ==
    ASSUME Inv, NEW reason, Stop(reason), head = cp, UNCHANGED <<head, cp>>,
           last' \in {last, cp.rev}, reason \notin {"suspended", "terminal"}
    PROVE  Inv'
BY DEF Inv, CommitPhase, InStep, Reported, Stop, Discard

(* A step between two suspension points that touches neither the store nor *)
(* the stop event.                                                         *)
LEMMA MoveKeepsInv ==
    ASSUME Inv, UNCHANGED <<head, cp, last, wr, stop>>,
           pc \notin {"commit", "idle"}, pc' \notin {"commit", "idle", "stopped"}
    PROVE  Inv'
BY DEF Inv, CommitPhase, InStep, Reported

(* A step that stays at its suspension point. *)
LEMMA StayKeepsInv ==
    ASSUME Inv, UNCHANGED <<head, cp, last, wr, stop, pc>>
    PROVE  Inv'
BY DEF Inv, CommitPhase, InStep, Reported

(* The engine takes over what the repository holds. *)
LEMMA ReturnKeepsInv ==
    ASSUME Inv, Return(head')
    PROVE  Inv'
BY DEF Inv, CommitPhase, InStep, Reported, Return, Stop, Discard, IsActive, ActiveKinds

(* A fresh invocation starts from the head. *)
LEMMA BeginKeepsInv ==
    ASSUME Inv, cp' = head, UNCHANGED head, last' \in {-1, head.rev},
           \/ pc' = "stopped" /\ stop' = "repository_error" /\ wr' = "idle"
           \/ pc' = "commit" /\ wr' = "queued"
           \/ pc' \in {"open", "broken"} /\ wr' = "idle"
    PROVE  Inv'
BY DEF Inv, CommitPhase, InStep, Reported

LEMMA InitInv == Init => Inv
BY DEF Init, Inv, CommitPhase, InStep, Reported, NoCheckpoint

-----------------------------------------------------------------------------
(* One lemma per group of actions. *)

LEMMA InvocationKeepsInv == Inv /\ Invocation => Inv'
<1> SUFFICES ASSUME Inv, Invocation PROVE Inv'
  OBVIOUS
<1>1. CASE StartRun
  BY <1>1, BeginKeepsInv DEF StartRun, Begin, NoCheckpoint
<1>2. CASE ContinueRun
  BY <1>2, BeginKeepsInv DEF ContinueRun, Begin
<1>3. CASE ResumeRun
  <2>1. \/ pc' = "commit" /\ wr' = "queued"
        \/ pc' = "broken" /\ wr' = "idle"
    BY <1>3 DEF ResumeRun, Propose
  <2>2. cp' = head /\ UNCHANGED head /\ last' = -1
    BY <1>3 DEF ResumeRun, Begin
  <2> QED
    BY <2>1, <2>2, BeginKeepsInv
<1> QED
  BY <1>1, <1>2, <1>3 DEF Invocation

LEMMA EnvironmentKeepsInv == Inv /\ Environment => Inv'
<1> SUFFICES ASSUME Inv, Environment PROVE Inv'
  OBVIOUS
<1>1. CASE Submit
  BY <1>1, StayKeepsInv DEF Submit, committing
<1>2. CASE Deadline
  BY <1>2, StayKeepsInv DEF Deadline, committing
<1>3. CASE Close
  <2>1. CASE Swallows
    BY <1>3, <2>1, StayKeepsInv DEF Close, committing
  <2>2. CASE ~Swallows
    <3>1. Stop("consumer_closed") /\ UNCHANGED <<head, cp, last>>
      BY <1>3, <2>2 DEF Close
    <3>2. head = cp
      BY <1>3, <2>2 DEF Close, Swallows, Suspending, Effects, Interruptibles,
                        Inv, CommitPhase, InStep
    <3> QED
      BY <3>1, <3>2, StopKeepsInv
  <2> QED
    BY <2>1, <2>2
<1>4. CASE EffectCancelled
  <2>1. head = cp
    BY <1>4 DEF EffectCancelled, Effects, Interruptibles, Inv, InStep
  <2> QED
    BY <1>4, <2>1, StopKeepsInv DEF EffectCancelled
<1>5. CASE Crash
  BY <1>5 DEF Crash, Discard, Inv, CommitPhase, InStep, Reported
<1> QED
  BY <1>1, <1>2, <1>3, <1>4, <1>5 DEF Environment

LEMMA EngineStepKeepsInv == Inv /\ EngineStep => Inv'
<1> SUFFICES ASSUME Inv, EngineStep PROVE Inv'
  OBVIOUS
<1>1. CASE OpenCatalog
  BY <1>1, MoveKeepsInv DEF OpenCatalog, committing
<1>2. CASE TakeControl
  BY <1>2, StayKeepsInv DEF TakeControl, committing
<1>3. CASE ConsumeControl
  BY <1>3, StayKeepsInv DEF ConsumeControl, committing
<1>4. CASE LoopPlan
  BY <1>4, MoveKeepsInv DEF LoopPlan, Quiet, committing
<1>5. CASE AskModel
  BY <1>5, MoveKeepsInv DEF AskModel, committing
<1>6. CASE SelectBatch
  BY <1>6, MoveKeepsInv DEF SelectBatch, ToolTurn, Quiet, committing
<1>7. CASE BatchTakesControl
  BY <1>7, StayKeepsInv DEF BatchTakesControl, committing
<1>8. ASSUME \/ OpenTooLate \/ ControlInterrupts \/ DeadlineInterrupts
             \/ LoopDeadline \/ LoopPause \/ LoopInsert
             \/ PlanLimit \/ PlanTooLate
             \/ ToolLimit \/ SelectFails \/ BindRefuses
      PROVE  Inv'
  <2>1. PICK c : Commit(c)
    BY <1>8 DEF OpenTooLate, ControlInterrupts, DeadlineInterrupts, LoopDeadline,
                LoopPause, LoopInsert, PlanLimit, PlanTooLate, ToolLimit, SelectFails,
                BindRefuses
  <2>2. pc \notin {"commit", "idle"}
    BY <1>8 DEF OpenTooLate, ControlInterrupts, DeadlineInterrupts, LoopDeadline,
                LoopPause, LoopInsert, PlanLimit, PlanTooLate, ToolLimit, SelectFails,
                BindRefuses, ToolTurn, Quiet, Effects, Interruptibles
  <2> QED
    BY <2>1, <2>2, CommitKeepsInv DEF Inv, InStep
<1> QED
  BY <1>1, <1>2, <1>3, <1>4, <1>5, <1>6, <1>7, <1>8 DEF EngineStep

LEMMA PortStepKeepsInv == Inv /\ PortStep => Inv'
<1> SUFFICES ASSUME Inv, PortStep PROVE Inv'
  OBVIOUS
<1>1. CASE CatalogOpens
  BY <1>1, MoveKeepsInv DEF CatalogOpens, committing
<1>2. CASE ReducerKeeps
  BY <1>2, MoveKeepsInv DEF ReducerKeeps, committing
<1>3. CASE Approves
  BY <1>3, MoveKeepsInv DEF Approves, committing
<1>4. ASSUME \/ CatalogFails \/ ReducerRewrites \/ ReducerFails
             \/ ModelAnswers \/ ModelFails
             \/ ApprovalDenies \/ ApprovalSuspends \/ ApprovalFails \/ BatchDone
      PROVE  Inv'
  <2>1. PICK c : Commit(c)
    BY <1>4 DEF CatalogFails, ReducerRewrites, ReducerFails, ModelAnswers, ModelFails,
                ApprovalDenies, ApprovalSuspends, ApprovalFails, BatchDone
  <2>2. pc \notin {"commit", "idle"}
    BY <1>4 DEF CatalogFails, ReducerRewrites, ReducerFails, ModelAnswers, ModelFails,
                ApprovalDenies, ApprovalSuspends, ApprovalFails, BatchDone
  <2> QED
    BY <2>1, <2>2, CommitKeepsInv DEF Inv, InStep
<1> QED
  BY <1>1, <1>2, <1>3, <1>4 DEF PortStep

LEMMA RepositoryStepKeepsInv == Inv /\ RepositoryStep => Inv'
<1> SUFFICES ASSUME Inv, RepositoryStep PROVE Inv'
  OBVIOUS
<1>1. CASE CommitInline
  BY <1>1, ReturnKeepsInv DEF CommitInline
<1>2. CASE RepositoryRuns
  BY <1>2 DEF RepositoryRuns, Inv, CommitPhase, InStep, Reported
<1>3. CASE RepositoryWrites
  BY <1>3 DEF RepositoryWrites, Inv, CommitPhase, InStep, Reported
<1>4. CASE RepositoryReplies
  BY <1>4, ReturnKeepsInv DEF RepositoryReplies
<1>5. CASE RepositoryFails
  <2>1. head = cp
    BY <1>5 DEF RepositoryFails, Inv, InStep
  <2> QED
    BY <1>5, <2>1, StopKeepsInv DEF RepositoryFails
<1>6. CASE CommitTimesOut
  <2>1. head = cp
    BY <1>6 DEF CommitTimesOut, Inv, InStep
  <2> QED
    BY <1>6, <2>1, StopKeepsInv, CommitKeepsInv DEF CommitTimesOut
<1> QED
  BY <1>1, <1>2, <1>3, <1>4, <1>5, <1>6 DEF RepositoryStep

LEMMA NextKeepsInv == Inv /\ [Next]_vars => Inv'
<1>1. Inv /\ UNCHANGED vars => Inv'
  BY StayKeepsInv DEF vars
<1> QED
  BY <1>1, InvocationKeepsInv, EnvironmentKeepsInv, EngineStepKeepsInv,
     PortStepKeepsInv, RepositoryStepKeepsInv DEF Next

LEMMA InvImpliesStopsAtHead == Inv => StopsAtHead
BY DEF Inv, InStep, Reported, StopsAtHead

(* However an invocation stopped - settled, abandoned, or with a           *)
(* repository error - the engine's checkpoint is the repository's head and *)
(* the stop event names that head or nothing.                              *)
THEOREM StopsAtHeadAlways == Spec => []StopsAtHead
<1>1. Spec => []Inv
  BY InitInv, NextKeepsInv, PTL DEF Spec
<1> QED
  BY <1>1, InvImpliesStopsAtHead, PTL

-----------------------------------------------------------------------------
(* Where a step may take the engine: a proposal, a stop and a commit's     *)
(* return never enter external work, so only the five actions that start   *)
(* it have to look at the clock.                                           *)

LEMMA CommitStartsNothing ==
    ASSUME NEW c, Commit(c) PROVE pc' \notin Effects
BY DEF Commit, Propose, Effects, Interruptibles

LEMMA InvocationStartsNothing == Invocation => pc' \notin Effects
BY DEF Invocation, StartRun, ContinueRun, ResumeRun, Propose, Effects, Interruptibles

LEMMA EnvironmentStartsNothing == Environment => pc' = pc \/ pc' \notin Effects
BY DEF Environment, Submit, Deadline, Close, EffectCancelled, Crash, Stop, Effects,
       Interruptibles

LEMMA RepositoryStartsNothing == RepositoryStep => pc' = pc \/ pc' \notin Effects
<1> SUFFICES ASSUME RepositoryStep PROVE pc' = pc \/ pc' \notin Effects
  OBVIOUS
<1>1. CASE CommitInline \/ RepositoryReplies
  BY <1>1 DEF CommitInline, RepositoryReplies, Return, Stop, Effects, Interruptibles
<1>2. CASE RepositoryRuns \/ RepositoryWrites
  BY <1>2 DEF RepositoryRuns, RepositoryWrites
<1>3. CASE RepositoryFails \/ CommitTimesOut
  BY <1>3, CommitStartsNothing
     DEF RepositoryFails, CommitTimesOut, Stop, Effects, Interruptibles
<1> QED
  BY <1>1, <1>2, <1>3 DEF RepositoryStep

LEMMA EngineStartsInTime ==
    EngineStep => pc' = pc \/ pc' \notin Effects \/ ~expired
<1> SUFFICES ASSUME EngineStep PROVE pc' = pc \/ pc' \notin Effects \/ ~expired
  OBVIOUS
<1>1. CASE OpenCatalog \/ LoopPlan \/ AskModel \/ SelectBatch
  BY <1>1 DEF OpenCatalog, LoopPlan, AskModel, SelectBatch, ToolTurn, Quiet, MayStart
<1>2. CASE TakeControl \/ ConsumeControl \/ BatchTakesControl
  BY <1>2 DEF TakeControl, ConsumeControl, BatchTakesControl
<1>3. ASSUME ~(OpenCatalog \/ LoopPlan \/ AskModel \/ SelectBatch),
             ~(TakeControl \/ ConsumeControl \/ BatchTakesControl)
      PROVE  pc' \notin Effects
  <2>1. PICK c : Commit(c)
    BY <1>3 DEF EngineStep, OpenTooLate, ControlInterrupts, DeadlineInterrupts,
                LoopDeadline, LoopPause, LoopInsert, PlanLimit, PlanTooLate, ToolLimit,
                SelectFails, BindRefuses
  <2> QED
    BY <2>1, CommitStartsNothing
<1> QED
  BY <1>1, <1>2, <1>3

LEMMA PortStartsInTime ==
    PortStep => pc' = pc \/ pc' \notin Effects \/ ~expired
<1> SUFFICES ASSUME PortStep PROVE pc' = pc \/ pc' \notin Effects \/ ~expired
  OBVIOUS
<1>1. CASE CatalogOpens \/ ReducerKeeps
  BY <1>1 DEF CatalogOpens, ReducerKeeps, Effects, Interruptibles
<1>2. CASE Approves
  BY <1>2 DEF Approves, MayStart
<1>3. ASSUME ~(CatalogOpens \/ ReducerKeeps), ~Approves
      PROVE  pc' \notin Effects
  <2>1. PICK c : Commit(c)
    BY <1>3 DEF PortStep, CatalogFails, ReducerRewrites, ReducerFails, ModelAnswers,
                ModelFails, ApprovalDenies, ApprovalSuspends, ApprovalFails, BatchDone
  <2> QED
    BY <2>1, CommitStartsNothing
<1> QED
  BY <1>1, <1>2, <1>3

(* No catalog, reducer, model, approval or tool work starts once the work  *)
(* deadline has passed, in any run, with any ports and any repository.     *)
THEOREM NoWorkAfterDeadlineAlways == Spec => NoWorkAfterDeadline
<1>1. [Next]_vars => [pc' # pc /\ pc' \in Effects => ~expired]_vars
  BY InvocationStartsNothing, EnvironmentStartsNothing, RepositoryStartsNothing,
     EngineStartsInTime, PortStartsInTime DEF Next
<1> QED
  BY <1>1, PTL DEF Spec, NoWorkAfterDeadline

-----------------------------------------------------------------------------
(* What the durable head may be, and what the engine may have under way    *)
(* from it: which change each step builds, from which state, and that      *)
(* nothing but the deadline may replace it.                                *)

(* Only an assistant's message carries calls. *)
MessageFits(msg) == msg.calls \in Seq(Nat) /\ (msg.role = "tool" => msg.calls = <<>>)

HistoryFits(hist) == \E M : hist \in Seq(M) /\ \A msg \in M : MessageFits(msg)

(* Unanswered calls belong to ToolsPending and to what resumes to it. *)
OwnedPending(st) ==
    /\ st \in States
    /\ st.kind = "tools_pending" => st.pending # <<>> /\ st.why = "none"
    /\ st.kind = "planning" => st.pending = <<>> /\ st.why = "none"

HeadFits(c) ==
    /\ c.rev \in Nat \cup {-1}
    /\ c.steps \in Nat /\ c.calls \in Nat /\ c.tokens \in Nat
    /\ HistoryFits(c.hist)
    /\ OwnedPending(c.st) /\ ValidHistory(c.hist, c.st)
    /\ c.rev = -1 => c = NoCheckpoint

BatchSizes(c) ==
    {k \in 1..Len(c.st.pending) : c.calls + k <= MaxToolCalls}

(* An answer repeats no call id within itself. *)
Turns == {response \in [calls : Seq(Nat), ptp : BOOLEAN, tokens : 0..MaxTurnTokens] :
             Cardinality(ToSet(response.calls)) = Len(response.calls)}

(* The changes an engine may propose from a checkpoint, one disjunct per   *)
(* kind of fact.                                                           *)
MayStop(c, x) ==
    \/ c.st.kind \notin TerminalKinds /\ x = Limited("deadline")
    \/ IsPlanning(c.st) /\ c.steps >= MaxSteps /\ x = Limited("max_planning_steps")
    \/ c.st.kind = "tools_pending" /\ c.calls >= MaxToolCalls /\ x = Limited("max_tool_calls")
    \/ IsActive(c.st) /\ \E code \in Lifecycle!FailureCodes : x = Failed(code)

MaySuspend(c, x) ==
    \/ IsActive(c.st) /\ \E why \in {"pause", "approval"} : x = SuspendAt(c.st, why)
    \/ /\ c.st.kind = "suspended"
       /\ \E messages \in {<<>>, <<UserMessage>>} :
             x = Resumed(c, messages) /\ (messages = <<>> \/ MayAppend(c.st))

MayEdit(c, x) ==
    /\ Interruptible(c.st)
    /\ \/ \E n : x = Insert(n)
       \/ \E messages : /\ HistoryFits(messages) /\ messages # <<>>
                          /\ ValidHistory(messages, Active(<<>>, FALSE))
                          /\ x = Rewrite(c, messages)

MayTurn(c, x) ==
    /\ IsPlanning(c.st) /\ c.steps < MaxSteps
    /\ \E response \in Turns :
          x \in {ModelTurn(c, response, MaxTokens), KeepActive(ModelTurn(c, response, MaxTokens))}

MayBatch(c, x) ==
    /\ c.st.kind = "tools_pending"
    /\ \E k \in BatchSizes(c), why \in {"none", "waiting", "pause"} :
          x = BatchOutcome(c, k, why)

MayPropose(c, x) ==
    \/ c.rev = -1 /\ x = Started
    \/ /\ c.rev >= 0
       /\ MayStop(c, x) \/ MaySuspend(c, x) \/ MayEdit(c, x) \/ MayTurn(c, x) \/ MayBatch(c, x)

(* The point the engine waits at says what it knows of the head. *)
PointFits ==
    /\ pc \in Effects \cup {"open", "loop", "plan"} => head.rev >= 0 /\ IsActive(head.st)
    /\ pc \in {"reduce", "plan", "model"} => IsPlanning(head.st)
    /\ pc = "reduce" => ~head.st.ptp
    /\ pc = "model" => head.steps < MaxSteps
    /\ pc \in {"approve", "exec"} =>
          head.st.kind = "tools_pending" /\ batch.n \in BatchSizes(head)

(* What a commit under way will write, or has written. *)
UnderWay ==
    pc = "commit" => IF wr = "written" THEN head.rev >= 0 /\ Verified(cp, head)
                     ELSE MayPropose(head, chg) /\ Accepted(head, chg)

(* An inline repository has no phase in which a commit is under way. *)
InlineAtOnce == repo = "inline" => wr \in {"idle", "queued"}

(* What the engine reads its next move from: controls of known kinds, a    *)
(* batch that is a record, and an id no call has used yet.                 *)
InputsFit ==
    /\ queue \in Seq(Controls) /\ slot \in Seq(Controls) /\ Len(slot) <= 1
    /\ arrived \in 0..MaxControls
    /\ DOMAIN batch = {"n", "pause", "inserts"}
    /\ fresh \in Nat

LifecycleInv ==
    /\ Inv /\ HeadFits(head) /\ PointFits /\ UnderWay /\ OnlyReuseEscapes /\ InlineAtOnce
    /\ InputsFit

(* What each change does to the state and to the counters. *)
LEMMA StopShape ==
    ASSUME NEW reason
    PROVE  /\ Limited(reason).st = Terminal("limited", reason)
           /\ Limited(reason).steps = 0 /\ Limited(reason).calls = 0 /\ Limited(reason).tokens = 0
           /\ Limited(reason).append = <<>> /\ Limited(reason).replace = <<>>
           /\ Failed(reason).st = Terminal("failed", reason)
           /\ Failed(reason).steps = 0 /\ Failed(reason).calls = 0 /\ Failed(reason).tokens = 0
           /\ Failed(reason).append = <<>> /\ Failed(reason).replace = <<>>
BY DEF Limited, Failed, Change

LEMMA SuspendShape ==
    ASSUME NEW st, NEW why
    PROVE  LET x == SuspendAt(st, why)
           IN  /\ x.st = Suspended(st, why)
               /\ x.steps = 0 /\ x.calls = 0 /\ x.tokens = 0
               /\ x.append = <<>> /\ x.replace = <<>>
BY DEF SuspendAt, Change

LEMMA ResumeShape ==
    ASSUME NEW c, NEW messages
    PROVE  LET x == Resumed(c, messages)
           IN  /\ x.st = ResumeTo(c.st)
               /\ x.steps = 0 /\ x.calls = 0 /\ x.tokens = 0
               /\ x.append = messages /\ x.replace = <<>>
BY DEF Resumed, Change

LEMMA StartShape ==
    /\ Started.st = Active(<<>>, FALSE)
    /\ Started.steps = 0 /\ Started.calls = 0 /\ Started.tokens = 0
    /\ Started.append = <<UserMessage>> /\ Started.replace = <<>>
BY DEF Started, Change

LEMMA InsertShape ==
    ASSUME NEW n
    PROVE  /\ Insert(n).st = Active(<<>>, FALSE)
           /\ Insert(n).steps = 0 /\ Insert(n).calls = 0 /\ Insert(n).tokens = 0
           /\ Insert(n).append = <<External(n)>> /\ Insert(n).replace = <<>>
BY DEF Insert, Change

LEMMA RewriteShape ==
    ASSUME NEW c, NEW messages
    PROVE  /\ Rewrite(c, messages).st = Active(<<>>, FALSE)
           /\ Rewrite(c, messages).steps = 0 /\ Rewrite(c, messages).calls = 0
           /\ Rewrite(c, messages).tokens = 0
           /\ Rewrite(c, messages).append = <<>> /\ Rewrite(c, messages).replace = messages
BY DEF Rewrite, Change

(* The state a model's answer leads to. *)
TurnState(c, response) ==
    IF c.tokens + response.tokens > MaxTokens
    THEN Terminal("limited", "max_total_tokens")
    ELSE IF response.calls # <<>> \/ response.ptp
         THEN Active(response.calls, response.ptp)
         ELSE Terminal("completed", "none")

LEMMA TurnShape ==
    ASSUME NEW c, NEW response
    PROVE  LET x == ModelTurn(c, response, MaxTokens)
           IN  /\ x.st = TurnState(c, response)
               /\ x.steps = 1 /\ x.calls = 0 /\ x.tokens = response.tokens
               /\ x.append = <<Assistant(response.calls)>> /\ x.replace = <<>>
BY DEF ModelTurn, Change, Fact, TurnState

LEMMA KeepShape ==
    ASSUME NEW c, NEW response
    PROVE  LET x == KeepActive(ModelTurn(c, response, MaxTokens))
               st == TurnState(c, response)
           IN  /\ x.st = IF st.kind = "completed" THEN Active(<<>>, FALSE) ELSE st
               /\ x.steps = 1 /\ x.calls = 0 /\ x.tokens = response.tokens
               /\ x.append = <<Assistant(response.calls)>> /\ x.replace = <<>>
BY TurnShape DEF KeepActive, ModelTurn, Change, Fact, TurnState

LEMMA BatchShape ==
    ASSUME NEW c, NEW k, NEW why
    PROVE  /\ BatchOutcome(c, k, why).st =
                 IF why = "none"
                 THEN Active(SubSeq(c.st.pending, k + 1, Len(c.st.pending)), c.st.ptp)
                 ELSE Suspended(Active(SubSeq(c.st.pending, k + 1, Len(c.st.pending)),
                                       c.st.ptp), why)
           /\ BatchOutcome(c, k, why).steps = 0 /\ BatchOutcome(c, k, why).calls = k
           /\ BatchOutcome(c, k, why).tokens = 0
           /\ BatchOutcome(c, k, why).append =
                 [i \in 1..k |-> ToolMessage(SubSeq(c.st.pending, 1, k)[i])]
           /\ BatchOutcome(c, k, why).replace = <<>>
BY DEF BatchOutcome, Change, Fact

-----------------------------------------------------------------------------
(* A proposed change keeps the head's shape and is a step of RunLifecycle. *)

LEMMA Vocabulary ==
    /\ TerminalKinds = {"completed", "failed", "limited"}
    /\ Lifecycle!TerminalKinds = TerminalKinds
    /\ TerminalKinds \cup {"planning", "tools_pending", "suspended"} = Lifecycle!Kinds
    /\ {"none", "pause", "approval", "waiting", "deadline", "max_planning_steps",
        "max_tool_calls", "max_total_tokens"} \subseteq Lifecycle!Reasons
    /\ Lifecycle!FailureCodes \subseteq Lifecycle!Reasons
BY DEF TerminalKinds, Lifecycle!Kinds, Lifecycle!TerminalKinds, Lifecycle!Reasons,
       Lifecycle!SuspendReasons, Lifecycle!LimitReasons, Lifecycle!FailureCodes

LEMMA ReduceShape ==
    ASSUME NEW c, NEW x
    PROVE  /\ Reduce(c, x).rev = c.rev + 1
           /\ Reduce(c, x).steps = c.steps + x.steps
           /\ Reduce(c, x).calls = c.calls + x.calls
           /\ Reduce(c, x).tokens = c.tokens + x.tokens
           /\ Reduce(c, x).st = x.st
           /\ Reduce(c, x).hist = IF x.replace # <<>> THEN x.replace ELSE c.hist \o x.append
BY DEF Reduce

LEMMA StateParts ==
    ASSUME NEW st \in States
    PROVE  /\ st.kind \in Lifecycle!Kinds /\ st.pending \in Seq(Nat)
           /\ st.ptp \in BOOLEAN /\ st.why \in Lifecycle!Reasons
           /\ st = [kind |-> st.kind, pending |-> st.pending, ptp |-> st.ptp, why |-> st.why]
BY DEF States

LEMMA StateWhole ==
    ASSUME NEW kind \in Lifecycle!Kinds, NEW pending \in Seq(Nat), NEW ptp \in BOOLEAN,
           NEW why \in Lifecycle!Reasons
    PROVE  [kind |-> kind, pending |-> pending, ptp |-> ptp, why |-> why] \in States
BY DEF States

LEMMA ActiveFits ==
    ASSUME NEW pending \in Seq(Nat), NEW ptp \in BOOLEAN
    PROVE  /\ OwnedPending(Active(pending, ptp)) /\ IsActive(Active(pending, ptp))
           /\ Active(pending, ptp).kind = Lifecycle!ActiveKind(pending)
           /\ Active(pending, ptp).pending = pending /\ Active(pending, ptp).ptp = ptp
           /\ Active(pending, ptp).why = "none"
<1>1. Active(pending, ptp) \in States
  BY StateWhole, Vocabulary DEF Active
<1> QED
  BY <1>1 DEF OwnedPending, Active, IsActive, ActiveKinds, Lifecycle!ActiveKind

LEMMA TerminalFits ==
    ASSUME NEW kind \in TerminalKinds, NEW why \in Lifecycle!Reasons
    PROVE  /\ OwnedPending(Terminal(kind, why))
           /\ Terminal(kind, why).kind = kind /\ Terminal(kind, why).pending = <<>>
           /\ Terminal(kind, why).ptp = FALSE /\ Terminal(kind, why).why = why
<1>1. Terminal(kind, why) \in States
  <2>1. kind \in Lifecycle!Kinds /\ <<>> \in Seq(Nat) /\ FALSE \in BOOLEAN
    BY Vocabulary
  <2>2. [kind |-> kind, pending |-> <<>>, ptp |-> FALSE, why |-> why] \in States
    BY <2>1 DEF States
  <2> QED
    BY <2>2 DEF Terminal
<1>2. kind \notin {"planning", "tools_pending"}
  BY DEF TerminalKinds
<1> QED
  BY <1>1, <1>2 DEF OwnedPending, Terminal

LEMMA SuspendedFits ==
    ASSUME NEW st, OwnedPending(st), NEW why \in Lifecycle!Reasons
    PROVE  /\ OwnedPending(Suspended(st, why))
           /\ Suspended(st, why).kind = "suspended" /\ Suspended(st, why).pending = st.pending
           /\ Suspended(st, why).ptp = st.ptp /\ Suspended(st, why).why = why
<1>1. st \in States
  BY DEF OwnedPending
<1>2. "suspended" \in Lifecycle!Kinds
  BY Vocabulary
<1>3. Suspended(st, why) \in States
  BY <1>1, <1>2 DEF Suspended, States
<1>4. /\ Suspended(st, why).kind = "suspended" /\ Suspended(st, why).pending = st.pending
      /\ Suspended(st, why).ptp = st.ptp /\ Suspended(st, why).why = why
  BY <1>1 DEF Suspended, States
<1> QED
  BY <1>3, <1>4 DEF OwnedPending

(* An active state is the one its pending calls and provider turn give. *)
LEMMA ActiveIsDetermined ==
    ASSUME NEW st, OwnedPending(st), IsActive(st)
    PROVE  st = Active(st.pending, st.ptp)
BY StateParts DEF OwnedPending, IsActive, ActiveKinds, Active

(* A change taken as a step: what RunLifecycle's variables become. *)
LEMMA StepShape ==
    ASSUME NEW x, head' = Reduce(head, x)
    PROVE  /\ (head.rev)' = head.rev + 1
           /\ (head.steps)' = head.steps + x.steps
           /\ (head.calls)' = head.calls + x.calls
           /\ (head.tokens)' = head.tokens + x.tokens
           /\ (head.st.kind)' = x.st.kind /\ (head.st.pending)' = x.st.pending
           /\ (head.st.ptp)' = x.st.ptp /\ (head.st.why)' = x.st.why
BY ReduceShape

LEMMA Becomes ==
    ASSUME NEW x, head' = Reduce(head, x),
           NEW k, NEW rest, NEW turn, NEW why,
           x.st.kind = k, x.st.pending = rest, x.st.ptp = turn, x.st.why = why
    PROVE  Lifecycle!Become(k, rest, turn, why)
BY StepShape DEF Lifecycle!Become

LEMMA BecomesActive ==
    ASSUME NEW x, head' = Reduce(head, x),
           NEW rest \in Seq(Nat), NEW turn \in BOOLEAN, x.st = Active(rest, turn)
    PROVE  Lifecycle!Become(Lifecycle!ActiveKind(rest), rest, turn, "none")
BY Becomes, ActiveFits

LEMMA BecomesTerminal ==
    ASSUME NEW x, head' = Reduce(head, x),
           NEW k \in TerminalKinds, NEW why \in Lifecycle!Reasons, x.st = Terminal(k, why)
    PROVE  Lifecycle!Become(k, <<>>, FALSE, why)
<1>1. x.st.kind = k /\ x.st.pending = <<>> /\ x.st.why = why
  BY DEF Terminal
<1>2. x.st.ptp = FALSE
  <2>1. x.st.ptp = Terminal(k, why).ptp
    OBVIOUS
  <2> QED
    BY <2>1, TerminalFits
<1> QED
  BY <1>1, <1>2, Becomes

LEMMA StopStep ==
    ASSUME HeadFits(head), head.rev >= 0, NEW x, MayStop(head, x), head' = Reduce(head, x)
    PROVE  Lifecycle!Next /\ OwnedPending(x.st)
<1>1. x.steps = 0 /\ x.calls = 0 /\ x.tokens = 0
  BY StopShape DEF MayStop
<1>2. Lifecycle!Advance /\ UNCHANGED <<head.steps, head.calls, head.tokens>>
  BY <1>1, StepShape DEF HeadFits, Lifecycle!Advance
<1>3. ASSUME NEW k \in {"failed", "limited"}, NEW why \in Lifecycle!Reasons,
             x.st = Terminal(k, why)
      PROVE  Lifecycle!Become(k, <<>>, FALSE, why) /\ OwnedPending(x.st)
  <2>1. k \in TerminalKinds
    BY DEF TerminalKinds
  <2> QED
    BY <1>3, <2>1, BecomesTerminal, TerminalFits
<1>4. ASSUME NEW code \in Lifecycle!FailureCodes, IsActive(head.st), x = Failed(code)
      PROVE  Lifecycle!Fail /\ OwnedPending(x.st)
  <2>1. Lifecycle!Become("failed", <<>>, FALSE, code) /\ OwnedPending(x.st)
    BY <1>3, <1>4, StopShape, Vocabulary
  <2>2. (head.st.why)' = code
    BY <2>1 DEF Lifecycle!Become
  <2> QED
    BY <2>1, <2>2, <1>2, <1>4 DEF Lifecycle!Fail, Lifecycle!IsActive, IsActive, ActiveKinds
<1>5. ASSUME NEW reason \in {"deadline", "max_planning_steps", "max_tool_calls"},
             x = Limited(reason)
      PROVE  Lifecycle!Become("limited", <<>>, FALSE, reason) /\ OwnedPending(x.st)
  BY <1>3, <1>5, StopShape, Vocabulary
<1>6. CASE head.st.kind \notin TerminalKinds /\ x = Limited("deadline")
  BY <1>2, <1>5, <1>6, Vocabulary DEF Lifecycle!Next, Lifecycle!Limit
<1>7. CASE IsPlanning(head.st) /\ head.steps >= MaxSteps /\ x = Limited("max_planning_steps")
  BY <1>2, <1>5, <1>7, Vocabulary DEF Lifecycle!Next, Lifecycle!Limit, IsPlanning
<1>8. CASE /\ head.st.kind = "tools_pending" /\ head.calls >= MaxToolCalls
           /\ x = Limited("max_tool_calls")
  BY <1>2, <1>5, <1>8, Vocabulary DEF Lifecycle!Next, Lifecycle!Limit
<1> QED
  BY <1>4, <1>6, <1>7, <1>8 DEF MayStop, Lifecycle!Next

LEMMA SuspendStep ==
    ASSUME HeadFits(head), head.rev >= 0, NEW x, MaySuspend(head, x), head' = Reduce(head, x)
    PROVE  Lifecycle!Next /\ OwnedPending(x.st)
<1>1. OwnedPending(head.st)
  BY DEF HeadFits
<1>2. x.steps = 0 /\ x.calls = 0 /\ x.tokens = 0
  BY SuspendShape, ResumeShape DEF MaySuspend
<1>3. Lifecycle!Advance /\ UNCHANGED <<head.steps, head.calls, head.tokens>>
  BY <1>2, StepShape DEF HeadFits, Lifecycle!Advance
<1>4. CASE \E why \in {"pause", "approval"} : IsActive(head.st) /\ x = SuspendAt(head.st, why)
  <2> PICK why \in {"pause", "approval"} : IsActive(head.st) /\ x = SuspendAt(head.st, why)
    BY <1>4
  <2>1. x.st = Suspended(head.st, why) /\ why \in Lifecycle!Reasons
    BY SuspendShape, Vocabulary
  <2>2. Lifecycle!Become("suspended", head.st.pending, head.st.ptp, why)
    BY <1>1, <2>1, Becomes, SuspendedFits
  <2>3. OwnedPending(x.st)
    BY <1>1, <2>1, SuspendedFits
  <2> QED
    BY <2>2, <2>3, <1>3 DEF Lifecycle!Next, Lifecycle!Suspend, Lifecycle!IsActive, IsActive,
                           ActiveKinds
<1>5. CASE head.st.kind = "suspended" /\ \E ms \in {<<>>, <<UserMessage>>} : x = Resumed(head, ms)
  <2>1. x.st = Active(head.st.pending, head.st.ptp)
    BY <1>5, ResumeShape DEF ResumeTo
  <2>2. Lifecycle!Become(Lifecycle!ActiveKind(head.st.pending), head.st.pending,
                         head.st.ptp, "none")
    BY <1>1, <2>1, BecomesActive, StateParts DEF OwnedPending
  <2>3. OwnedPending(x.st)
    BY <1>1, <2>1, ActiveFits, StateParts DEF OwnedPending
  <2> QED
    BY <2>2, <2>3, <1>3, <1>5 DEF Lifecycle!Next, Lifecycle!Resume
<1> QED
  BY <1>4, <1>5 DEF MaySuspend

(* The state before a run's first checkpoint, and after every edit. *)
LEMMA FreshFits ==
    /\ OwnedPending(Active(<<>>, FALSE))
    /\ Active(<<>>, FALSE).kind = "planning" /\ Active(<<>>, FALSE).pending = <<>>
    /\ ~Active(<<>>, FALSE).ptp /\ Active(<<>>, FALSE).why = "none"
<1>1. <<>> \in Seq(Nat) /\ FALSE \in BOOLEAN
  OBVIOUS
<1>2. OwnedPending(Active(<<>>, FALSE))
  BY <1>1, ActiveFits
<1> QED
  BY <1>2 DEF Active

LEMMA EditShape ==
    ASSUME NEW c, NEW x, MayEdit(c, x)
    PROVE  /\ x.steps = 0 /\ x.calls = 0 /\ x.tokens = 0
           /\ x.st = Active(<<>>, FALSE)
<1>1. CASE \E n : x = Insert(n)
  BY <1>1, InsertShape, Zenon
<1>2. CASE \E messages : x = Rewrite(c, messages)
  <2> PICK messages : x = Rewrite(c, messages)
    BY <1>2
  <2>1. /\ Rewrite(c, messages).steps = 0 /\ Rewrite(c, messages).calls = 0
        /\ Rewrite(c, messages).tokens = 0
    BY DEF Rewrite, Change
  <2>2. x.st = Active(<<>>, FALSE)
    BY RewriteShape
  <2> QED
    BY <2>1, <2>2
<1> QED
  BY <1>1, <1>2 DEF MayEdit

LEMMA EditStep ==
    ASSUME HeadFits(head), head.rev >= 0, NEW x, MayEdit(head, x), head' = Reduce(head, x)
    PROVE  Lifecycle!Next /\ OwnedPending(x.st)
<1> DEFINE st == Active(<<>>, FALSE)
<1>1. OwnedPending(head.st)
  BY DEF HeadFits
<1>2. head.st = st
  <2>1. head.st = Active(head.st.pending, head.st.ptp) /\ head.st.pending = <<>>
    BY <1>1, ActiveIsDetermined
       DEF OwnedPending, MayEdit, Interruptible, IsPlanning, IsActive, ActiveKinds
  <2>2. ~head.st.ptp /\ head.st.ptp \in BOOLEAN
    BY <1>1, StateParts DEF MayEdit, Interruptible, OwnedPending
  <2>3. head.st.ptp = FALSE
    BY <2>2
  <2> QED
    BY <2>1, <2>3, Zenon
<1>3. /\ x.steps = 0 /\ x.calls = 0 /\ x.tokens = 0 /\ x.st = st
  BY EditShape
<1> HIDE DEF st
<1>4. Lifecycle!Advance /\ UNCHANGED <<head.steps, head.calls, head.tokens>>
  BY <1>3, StepShape DEF HeadFits, Lifecycle!Advance
<1>5. UNCHANGED <<head.st.kind, head.st.pending, head.st.ptp, head.st.why>>
  BY <1>2, <1>3, StepShape
<1>6. OwnedPending(x.st)
  BY <1>1, <1>2, <1>3
<1>7. Lifecycle!EditHistory
  <2>1. head.st.kind = "planning" /\ ~head.st.ptp
    BY DEF MayEdit, Interruptible, IsPlanning
  <2> QED
    BY <1>4, <1>5, <2>1 DEF Lifecycle!EditHistory
<1> QED
  BY <1>6, <1>7 DEF Lifecycle!Next

LEMMA StartStep ==
    ASSUME HeadFits(head), head.rev = -1, head' = Reduce(head, Started)
    PROVE  Lifecycle!Next /\ OwnedPending(Started.st)
<1> DEFINE st == Active(<<>>, FALSE)
<1>1. head = NoCheckpoint
  BY DEF HeadFits
<1>2. /\ head.st = st /\ head.steps = 0 /\ head.calls = 0 /\ head.tokens = 0
  BY <1>1 DEF NoCheckpoint
<1>3. Started.st = st
  BY StartShape
<1>4. OwnedPending(Started.st)
  BY <1>3, FreshFits
<1> HIDE DEF st
<1>5. UNCHANGED <<head.st.kind, head.st.pending, head.st.ptp, head.st.why>>
  BY <1>2, <1>3, StepShape
<1>6. UNCHANGED <<head.steps, head.calls, head.tokens>>
  BY <1>2, StepShape, StartShape
<1>7. Lifecycle!Advance
  BY StepShape DEF Lifecycle!Advance
<1> QED
  BY <1>4, <1>5, <1>6, <1>7 DEF Lifecycle!Next, Lifecycle!Start

LEMMA TurnStep ==
    ASSUME EngineAssumption, HeadFits(head), head.rev >= 0,
           NEW x, MayTurn(head, x), head' = Reduce(head, x)
    PROVE  Lifecycle!Next /\ OwnedPending(x.st)
<1>1. PICK response \in Turns :
         x \in {ModelTurn(head, response, MaxTokens), KeepActive(ModelTurn(head, response, MaxTokens))}
  BY DEF MayTurn
<1> DEFINE st == TurnState(head, response)
<1>2. /\ x.steps = 1 /\ x.calls = 0 /\ x.tokens = response.tokens
      /\ x.st = st \/ (st.kind = "completed" /\ x.st = Active(<<>>, FALSE))
  <2>1. CASE x = ModelTurn(head, response, MaxTokens)
    BY <2>1, TurnShape
  <2>2. CASE x = KeepActive(ModelTurn(head, response, MaxTokens))
    BY <2>2, KeepShape
  <2> QED
    BY <1>1, <2>1, <2>2
<1>3. response.calls \in Seq(Nat) /\ response.ptp \in BOOLEAN /\ response.tokens \in 0..MaxTurnTokens
  BY DEF Turns
<1>4. /\ head.steps \in Nat /\ head.calls \in Nat /\ head.tokens \in Nat /\ head.rev \in Nat
  BY DEF HeadFits
<1>5. /\ Lifecycle!Advance /\ (head.steps)' = head.steps + 1 /\ UNCHANGED head.calls
      /\ (head.tokens)' = head.tokens + response.tokens
  BY <1>2, <1>4, StepShape DEF Lifecycle!Advance
<1>6. (head.tokens)' \in head.tokens .. head.tokens + MaxTurnTokens
  BY <1>3, <1>4, <1>5 DEF EngineAssumption
<1>7. head.st.kind = "planning" /\ head.steps < MaxSteps
  BY DEF MayTurn, IsPlanning
<1>8. CASE head.tokens + response.tokens > MaxTokens
  <2>1. st = Terminal("limited", "max_total_tokens")
    BY <1>8 DEF TurnState
  <2>2. "limited" \in TerminalKinds /\ "max_total_tokens" \in Lifecycle!Reasons
    BY Vocabulary
  <2>3. x.st = Terminal("limited", "max_total_tokens")
    <3>1. Terminal("limited", "max_total_tokens").kind = "limited"
      BY DEF Terminal
    <3> HIDE DEF st
    <3> QED
      BY <1>2, <2>1, <3>1
  <2>4. Lifecycle!Become("limited", <<>>, FALSE, "max_total_tokens")
    BY <2>2, <2>3, BecomesTerminal
  <2>5. OwnedPending(x.st)
    BY <2>2, <2>3, TerminalFits
  <2> QED
    BY <1>5, <1>6, <1>7, <1>8, <2>4, <2>5 DEF Lifecycle!Next, Lifecycle!ModelTurn
<1>9. CASE /\ ~(head.tokens + response.tokens > MaxTokens)
           /\ x.st = Terminal("completed", "none")
  <2>1. Lifecycle!Become("completed", <<>>, FALSE, "none")
    BY <1>9, BecomesTerminal, Vocabulary
  <2>2. OwnedPending(x.st)
    <3>1. "completed" \in TerminalKinds /\ "none" \in Lifecycle!Reasons
      BY Vocabulary
    <3> QED
      BY <1>9, <3>1, TerminalFits
  <2> QED
    BY <1>5, <1>6, <1>7, <1>9, <2>1, <2>2 DEF Lifecycle!Next, Lifecycle!ModelTurn
<1>10. CASE /\ ~(head.tokens + response.tokens > MaxTokens)
            /\ \E pending \in Seq(Nat), ptp \in BOOLEAN : x.st = Active(pending, ptp)
  <2>1. PICK pending \in Seq(Nat), ptp \in BOOLEAN : x.st = Active(pending, ptp)
    BY <1>10
  <2>2. Lifecycle!Become(Lifecycle!ActiveKind(pending), pending, ptp, "none")
    BY <2>1, BecomesActive
  <2>3. (head.st.pending)' = pending /\ (head.st.ptp)' = ptp
    BY <2>2 DEF Lifecycle!Become
  <2>4. OwnedPending(x.st)
    BY <2>1, ActiveFits
  <2> QED
    BY <1>5, <1>6, <1>7, <1>10, <2>2, <2>3, <2>4 DEF Lifecycle!Next, Lifecycle!ModelTurn
<1>11. \/ head.tokens + response.tokens > MaxTokens
       \/ x.st = Terminal("completed", "none")
       \/ \E pending \in Seq(Nat), ptp \in BOOLEAN : x.st = Active(pending, ptp)
  <2>1. \/ head.tokens + response.tokens > MaxTokens
        \/ st = Terminal("completed", "none")
        \/ st = Active(response.calls, response.ptp)
    BY DEF TurnState
  <2>2. <<>> \in Seq(Nat) /\ FALSE \in BOOLEAN
    OBVIOUS
  <2> HIDE DEF st
  <2> QED
    BY <1>2, <1>3, <2>1, <2>2, Zenon
<1> QED
  BY <1>8, <1>9, <1>10, <1>11

LEMMA BatchFields ==
    ASSUME NEW c, NEW x, MayBatch(c, x)
    PROVE  \E k \in BatchSizes(c), why \in {"none", "waiting", "pause"} :
              /\ x.steps = 0 /\ x.calls = k /\ x.tokens = 0
              /\ x.st = LET next == Active(SubSeq(c.st.pending, k + 1, Len(c.st.pending)),
                                          c.st.ptp)
                        IN  IF why = "none" THEN next ELSE Suspended(next, why)
<1>1. PICK k \in BatchSizes(c), why \in {"none", "waiting", "pause"} :
         x = BatchOutcome(c, k, why)
  BY DEF MayBatch
<1>2. x.steps = 0 /\ x.calls = k /\ x.tokens = 0
  BY <1>1 DEF BatchOutcome, Change, Fact
<1> DEFINE next == Active(SubSeq(c.st.pending, k + 1, Len(c.st.pending)), c.st.ptp)
<1>3. x.st = IF why = "none" THEN next ELSE Suspended(next, why)
  BY <1>1 DEF BatchOutcome, Change, Fact
<1> QED
  BY <1>2, <1>3, Zenon

LEMMA BatchStep ==
    ASSUME EngineAssumption, HeadFits(head), head.rev >= 0,
           NEW x, MayBatch(head, x), head' = Reduce(head, x)
    PROVE  Lifecycle!Next /\ OwnedPending(x.st) /\ x.calls \in Nat
<1>1. PICK k \in BatchSizes(head), why \in {"none", "waiting", "pause"} :
         /\ x.steps = 0 /\ x.calls = k /\ x.tokens = 0
         /\ x.st = LET next == Active(SubSeq(head.st.pending, k + 1, Len(head.st.pending)),
                                     head.st.ptp)
                   IN  IF why = "none" THEN next ELSE Suspended(next, why)
  BY BatchFields, Zenon
<1> DEFINE rest == SubSeq(head.st.pending, k + 1, Len(head.st.pending))
           next == Active(rest, head.st.ptp)
<1>2. head.st.pending \in Seq(Nat) /\ head.st.ptp \in BOOLEAN
  BY StateParts DEF HeadFits, OwnedPending
<1>3. k \in 1..Len(head.st.pending) /\ head.calls + k <= MaxToolCalls
  BY DEF BatchSizes
<1>4. rest \in Seq(Nat)
  BY <1>2, <1>3
<1>5. /\ x.st = IF why = "none" THEN next ELSE Suspended(next, why)
      /\ x.steps = 0 /\ x.calls = k /\ x.tokens = 0
  BY <1>1, Zenon
<1> HIDE DEF rest
<1>6. /\ Lifecycle!Advance /\ (head.calls)' = head.calls + k
      /\ UNCHANGED <<head.steps, head.tokens>>
  BY <1>5, StepShape DEF HeadFits, Lifecycle!Advance
<1>7. head.st.kind = "tools_pending"
  BY DEF MayBatch
<1>8. CASE why = "none"
  <2>1. Lifecycle!Become(Lifecycle!ActiveKind(rest), rest, head.st.ptp, "none")
    BY <1>2, <1>4, <1>5, <1>8, BecomesActive
  <2>2. OwnedPending(x.st)
    <3>1. x.st = next
      BY <1>5, <1>8
    <3>2. OwnedPending(next)
      BY <1>2, <1>4, ActiveFits
    <3> QED
      BY <3>1, <3>2
  <2>3. Lifecycle!ToolBatch(k)
    BY <1>3, <1>6, <1>7, <2>1 DEF Lifecycle!ToolBatch, rest
  <2> QED
    BY <1>3, <1>5, <2>2, <2>3 DEF Lifecycle!Next
<1>9. CASE why # "none"
  <2>1. OwnedPending(next) /\ next.pending = rest /\ next.ptp = head.st.ptp
    BY <1>2, <1>4, ActiveFits
  <2>2. x.st = Suspended(next, why)
    BY <1>5, <1>9
  <2>6. why \in Lifecycle!Reasons
    BY Vocabulary
  <2> HIDE DEF next
  <2>3. /\ OwnedPending(x.st) /\ x.st.kind = "suspended" /\ x.st.pending = rest
        /\ x.st.ptp = head.st.ptp /\ x.st.why = why
    BY <2>1, <2>2, <2>6, SuspendedFits
  <2>4. Lifecycle!Become("suspended", rest, head.st.ptp, why)
    BY <2>3, Becomes
  <2>5. Lifecycle!ToolBatch(k)
    BY <1>3, <1>6, <1>7, <1>9, <2>4 DEF Lifecycle!ToolBatch, rest
  <2> QED
    BY <1>3, <1>5, <2>3, <2>5 DEF Lifecycle!Next
<1> QED
  BY <1>8, <1>9

LEMMA FitsIn ==
    ASSUME NEW M, \A msg \in M : MessageFits(msg), NEW h \in Seq(M)
    PROVE  HistoryFits(h)
BY DEF HistoryFits

LEMMA NoMessagesFit == HistoryFits(<<>>)
<1>1. <<>> \in Seq({}) /\ \A msg \in {} : MessageFits(msg)
  OBVIOUS
<1> QED
  BY <1>1, FitsIn, Zenon

LEMMA OneMessageFits ==
    ASSUME NEW msg, MessageFits(msg)
    PROVE  HistoryFits(<<msg>>)
<1>1. <<msg>> \in Seq({msg}) /\ \A m \in {msg} : MessageFits(m)
  OBVIOUS
<1> QED
  BY <1>1, FitsIn, Zenon

LEMMA MessagesFit ==
    /\ HistoryFits(<<UserMessage>>)
    /\ \A n : HistoryFits(<<External(n)>>)
    /\ \A calls \in Seq(Nat) : HistoryFits(<<Assistant(calls)>>)
<1>1. UserMessage.calls = <<>> /\ <<>> \in Seq(Nat) /\ MessageFits(UserMessage)
  BY DEF UserMessage, Message, MessageFits
<1>2. ASSUME NEW n PROVE MessageFits(External(n))
  <2>1. External(n).calls = <<>> /\ <<>> \in Seq(Nat)
    BY DEF External, Message
  <2> QED
    BY <2>1 DEF MessageFits
<1>3. ASSUME NEW calls \in Seq(Nat) PROVE MessageFits(Assistant(calls))
  <2>1. Assistant(calls).calls = calls /\ Assistant(calls).role = "assistant"
    BY DEF Assistant, Message
  <2> QED
    BY <2>1 DEF MessageFits
<1> QED
  BY <1>1, <1>2, <1>3, OneMessageFits

LEMMA ConcatFits ==
    ASSUME NEW h, NEW g, HistoryFits(h), HistoryFits(g)
    PROVE  HistoryFits(h \o g)
<1>1. PICK M : h \in Seq(M) /\ \A msg \in M : MessageFits(msg)
  BY DEF HistoryFits
<1>2. PICK N : g \in Seq(N) /\ \A msg \in N : MessageFits(msg)
  BY DEF HistoryFits
<1>3. h \in Seq(M \cup N) /\ g \in Seq(M \cup N)
  BY <1>1, <1>2
<1>4. h \o g \in Seq(M \cup N)
  BY <1>3
<1> QED
  BY <1>1, <1>2, <1>4 DEF HistoryFits

LEMMA TailFits ==
    ASSUME NEW h, HistoryFits(h), h # <<>>
    PROVE  HistoryFits(Tail(h))
<1>1. PICK M : h \in Seq(M) /\ \A msg \in M : MessageFits(msg)
  BY DEF HistoryFits
<1>2. Tail(h) \in Seq(M)
  BY <1>1
<1> QED
  BY <1>1, <1>2 DEF HistoryFits

LEMMA AnswersFit ==
    ASSUME NEW k \in Nat, NEW ids
    PROVE  HistoryFits([i \in 1..k |-> ToolMessage(ids[i])])
<1> DEFINE M == {ToolMessage(ids[i]) : i \in 1..k}
<1>1. [i \in 1..k |-> ToolMessage(ids[i])] \in Seq(M)
  OBVIOUS
<1>2. \A msg \in M : msg.calls = <<>>
  BY DEF ToolMessage, Message
<1> HIDE DEF M
<1>3. \A msg \in M : MessageFits(msg)
  <2>1. <<>> \in Seq(Nat)
    OBVIOUS
  <2> QED
    BY <1>2, <2>1 DEF MessageFits
<1> QED
  BY <1>1, <1>3 DEF HistoryFits

(* What a proposed change does to the counters and to the history. *)
LEMMA CountersFit ==
    ASSUME EngineAssumption, NEW c, HeadFits(c), NEW x, MayPropose(c, x)
    PROVE  x.steps \in Nat /\ x.calls \in Nat /\ x.tokens \in Nat
<1>1. CASE x = Started
  BY <1>1, StartShape
<1>2. CASE MayStop(c, x)
  BY <1>2, StopShape DEF MayStop
<1>3. CASE MaySuspend(c, x)
  BY <1>3, SuspendShape, ResumeShape DEF MaySuspend
<1>4. CASE MayEdit(c, x)
  <2>1. x.steps = 0 /\ x.calls = 0 /\ x.tokens = 0
    BY <1>4, EditShape
  <2> QED
    BY <2>1
<1>5. CASE MayTurn(c, x)
  <2>1. PICK response \in Turns :
           x \in {ModelTurn(c, response, MaxTokens), KeepActive(ModelTurn(c, response, MaxTokens))}
    BY <1>5 DEF MayTurn
  <2>2. x.steps = 1 /\ x.calls = 0 /\ x.tokens = response.tokens
    <3>1. CASE x = ModelTurn(c, response, MaxTokens)
      BY <3>1, TurnShape
    <3>2. CASE x = KeepActive(ModelTurn(c, response, MaxTokens))
      BY <3>2, KeepShape
    <3> QED
      BY <2>1, <3>1, <3>2
  <2> QED
    BY <2>2 DEF Turns, EngineAssumption
<1>6. CASE MayBatch(c, x)
  <2>1. PICK k \in BatchSizes(c) : x.steps = 0 /\ x.calls = k /\ x.tokens = 0
    BY <1>6, BatchFields
  <2> QED
    BY <2>1 DEF BatchSizes
<1> QED
  BY <1>1, <1>2, <1>3, <1>4, <1>5, <1>6 DEF MayPropose

LEMMA MessagesOfChangeFit ==
    ASSUME NEW c, HeadFits(c), NEW x, MayPropose(c, x)
    PROVE  HistoryFits(x.append) /\ HistoryFits(x.replace)
<1>1. CASE x = Started
  BY <1>1, StartShape, MessagesFit, NoMessagesFit
<1>2. CASE MayStop(c, x)
  <2>1. x.append = <<>> /\ x.replace = <<>>
    BY <1>2, StopShape DEF MayStop
  <2> QED
    BY <2>1, NoMessagesFit
<1>3. CASE MaySuspend(c, x)
  <2>1. x.append \in {<<>>, <<UserMessage>>} /\ x.replace = <<>>
    BY <1>3, SuspendShape, ResumeShape DEF MaySuspend
  <2> QED
    BY <2>1, NoMessagesFit, MessagesFit
<1>4. CASE MayEdit(c, x)
  <2>1. CASE \E n : x = Insert(n)
    <3>1. PICK n : x = Insert(n)
      BY <2>1
    <3>2. Insert(n).append = <<External(n)>> /\ Insert(n).replace = <<>>
      BY InsertShape, Zenon
    <3> QED
      BY <3>1, <3>2, NoMessagesFit, MessagesFit
  <2>2. CASE \E messages : HistoryFits(messages) /\ x = Rewrite(c, messages)
    <3>1. PICK messages : HistoryFits(messages) /\ x = Rewrite(c, messages)
      BY <2>2
    <3>2. x.append = <<>> /\ x.replace = messages
      BY <3>1 DEF Rewrite, Change
    <3> QED
      BY <3>1, <3>2, NoMessagesFit
  <2> QED
    BY <1>4, <2>1, <2>2 DEF MayEdit
<1>5. CASE MayTurn(c, x)
  <2>1. PICK response \in Turns :
           x \in {ModelTurn(c, response, MaxTokens), KeepActive(ModelTurn(c, response, MaxTokens))}
    BY <1>5 DEF MayTurn
  <2>2. x.append = <<Assistant(response.calls)>> /\ x.replace = <<>>
    <3>1. CASE x = ModelTurn(c, response, MaxTokens)
      BY <3>1, TurnShape
    <3>2. CASE x = KeepActive(ModelTurn(c, response, MaxTokens))
      BY <3>2, KeepShape
    <3> QED
      BY <2>1, <3>1, <3>2
  <2>3. response.calls \in Seq(Nat)
    BY DEF Turns
  <2> QED
    BY <2>2, <2>3, NoMessagesFit, MessagesFit
<1>6. CASE MayBatch(c, x)
  <2>1. PICK k \in BatchSizes(c), why \in {"none", "waiting", "pause"} :
           x = BatchOutcome(c, k, why)
    BY <1>6 DEF MayBatch
  <2>2. /\ x.append = [i \in 1..k |-> ToolMessage(SubSeq(c.st.pending, 1, k)[i])]
        /\ x.replace = <<>>
    BY <2>1 DEF BatchOutcome, Change, Fact
  <2>3. k \in Nat
    BY DEF BatchSizes
  <2> QED
    BY <2>2, <2>3, AnswersFit, NoMessagesFit
<1> QED
  BY <1>1, <1>2, <1>3, <1>4, <1>5, <1>6 DEF MayPropose


-----------------------------------------------------------------------------
(* Induction on the natural numbers, over a set instead of a predicate:    *)
(* what holds of zero and is passed on to the next number holds of all.    *)

LEMMA LeastNumber ==
    ASSUME NEW T, T \subseteq Nat, T # {}
    PROVE  \E n \in T : \A m \in T : n <= m
<1>1. IsWellFoundedOn(OpToRel(<,Nat), Nat)
  BY NatLessThanWellFounded, Zenon
<1>2. PICK x \in T : \A y \in T : <<y, x>> \notin OpToRel(<,Nat)
  BY <1>1, WFMin, Zenon
<1>3. \A y \in T : ~(y < x)
  BY <1>2 DEF OpToRel
<1> QED
  BY <1>3

LEMMA NumbersFromZero ==
    ASSUME NEW P, 0 \in P, \A n \in Nat : n \in P => n + 1 \in P
    PROVE  Nat \subseteq P
<1> SUFFICES ASSUME Nat \ P # {} PROVE FALSE
  OBVIOUS
<1>1. PICK n \in Nat \ P : \A m \in Nat \ P : n <= m
  BY LeastNumber, Zenon
<1>2. n # 0 /\ n - 1 \in Nat
  BY <1>1
<1>3. n - 1 \in P
  BY <1>1, <1>2
<1> QED
  BY <1>1, <1>2, <1>3

(* The history check reads message after message: Extend's recursion has a *)
(* solution, and only one.                                                 *)

Reads(f, proof, messages, k) ==
    f = [n \in 0..k |-> IF n = 0 THEN proof ELSE Link(f[n - 1], messages[n])]

LEMMA SomethingReads ==
    ASSUME NEW proof, NEW messages, NEW k \in Nat
    PROVE  \E f : Reads(f, proof, messages, k)
<1> DEFINE P == {n \in Nat : \E f : Reads(f, proof, messages, n)}
<1>1. 0 \in P
  <2>1. Reads([n \in 0..0 |-> proof], proof, messages, 0)
    BY DEF Reads
  <2> QED
    BY <2>1
<1>2. ASSUME NEW n \in Nat, n \in P PROVE n + 1 \in P
  <2>1. PICK f : Reads(f, proof, messages, n)
    BY <1>2
  <2> DEFINE g == [i \in 0..(n + 1) |-> IF i = n + 1 THEN Link(f[n], messages[n + 1]) ELSE f[i]]
  <2>2. f = [i \in 0..n |-> IF i = 0 THEN proof ELSE Link(f[i - 1], messages[i])]
    BY <2>1 DEF Reads
  <2>3. ASSUME NEW i \in 0..(n + 1)
        PROVE  g[i] = IF i = 0 THEN proof ELSE Link(g[i - 1], messages[i])
    <3>1. CASE i = n + 1
      <4>1. g[i] = Link(f[n], messages[i]) /\ i # 0
        BY <3>1
      <4>2. g[i - 1] = f[n]
        BY <3>1
      <4> QED
        BY <4>1, <4>2
    <3>2. CASE i # n + 1
      <4>1. i \in 0..n /\ g[i] = f[i]
        BY <3>2
      <4>2. i # 0 => g[i - 1] = f[i - 1]
        BY <4>1
      <4>3. f[i] = IF i = 0 THEN proof ELSE Link(f[i - 1], messages[i])
        BY <2>2, <4>1
      <4> QED
        BY <4>1, <4>2, <4>3
    <3> QED
      BY <3>1, <3>2
  <2>4. Reads(g, proof, messages, n + 1)
    BY <2>3 DEF Reads
  <2> QED
    BY <2>4
<1> HIDE DEF P
<1>3. Nat \subseteq P
  BY <1>1, <1>2, NumbersFromZero, Zenon
<1> QED
  BY <1>3 DEF P

LEMMA ReadsAgree ==
    ASSUME NEW p, NEW ms, NEW k \in Nat, NEW f, Reads(f, p, ms, k),
           NEW ns, NEW l \in Nat, NEW g, Reads(g, p, ns, l),
           l <= k, \A i \in 1..l : ms[i] = ns[i]
    PROVE  f[l] = g[l]
<1> DEFINE P == {n \in Nat : n <= l => f[n] = g[n]}
<1>1. 0 \in P
  BY DEF Reads
<1>2. ASSUME NEW n \in Nat, n \in P PROVE n + 1 \in P
  <2> SUFFICES ASSUME n + 1 <= l PROVE f[n + 1] = g[n + 1]
    OBVIOUS
  <2>1. f[n] = g[n]
    BY <1>2
  <2>2. n + 1 \in 0..k /\ n + 1 \in 0..l /\ n + 1 \in 1..l /\ n + 1 # 0 /\ (n + 1) - 1 = n
    OBVIOUS
  <2>3. f[n + 1] = Link(f[n], ms[n + 1])
    BY <2>2 DEF Reads
  <2>4. g[n + 1] = Link(g[n], ns[n + 1])
    BY <2>2 DEF Reads
  <2> QED
    BY <2>1, <2>2, <2>3, <2>4
<1> HIDE DEF P
<1>3. Nat \subseteq P
  BY <1>1, <1>2, NumbersFromZero, Zenon
<1> QED
  BY <1>3 DEF P

LEMMA ExtendReads ==
    ASSUME NEW proof, NEW M, NEW messages \in Seq(M),
           NEW f, Reads(f, proof, messages, Len(messages))
    PROVE  Extend(proof, messages) = f[Len(messages)]
<1> DEFINE link == CHOOSE g : g = [n \in 0..Len(messages) |->
                                     IF n = 0 THEN proof ELSE Link(g[n - 1], messages[n])]
<1>1. Extend(proof, messages) = link[Len(messages)]
  BY DEF Extend
<1>2. Reads(link, proof, messages, Len(messages))
  BY DEF Reads
<1>3. Len(messages) \in Nat
  OBVIOUS
<1> HIDE DEF link
<1> QED
  BY <1>1, <1>2, <1>3, ReadsAgree

(* Reading nothing, and reading one message more. *)
LEMMA ExtendNothing ==
    ASSUME NEW proof PROVE Extend(proof, <<>>) = proof
<1>1. <<>> \in Seq({}) /\ Len(<<>>) = 0
  OBVIOUS
<1>2. PICK f : Reads(f, proof, <<>>, 0)
  BY SomethingReads
<1>3. f[0] = proof
  BY <1>2 DEF Reads
<1> QED
  BY <1>1, <1>2, <1>3, ExtendReads

LEMMA ExtendOneMore ==
    ASSUME NEW proof, NEW M, NEW messages \in Seq(M), NEW msg \in M
    PROVE  Extend(proof, Append(messages, msg)) = Link(Extend(proof, messages), msg)
<1> DEFINE k  == Len(messages)
           ms == Append(messages, msg)
<1>1. ms \in Seq(M) /\ Len(ms) = k + 1 /\ k \in Nat /\ ms[k + 1] = msg
  OBVIOUS
<1>2. \A i \in 1..k : ms[i] = messages[i]
  OBVIOUS
<1>3. PICK f : Reads(f, proof, ms, k + 1)
  <2>1. k + 1 \in Nat
    BY <1>1
  <2> QED
    BY <2>1, SomethingReads, Zenon
<1>4. PICK g : Reads(g, proof, messages, k)
  BY <1>1, SomethingReads
<1> HIDE DEF ms
<1>5. f[k] = g[k]
  BY <1>1, <1>2, <1>3, <1>4, ReadsAgree
<1>6. f[k + 1] = Link(f[k], ms[k + 1])
  <2>1. k + 1 \in 0..(k + 1) /\ k + 1 # 0 /\ (k + 1) - 1 = k
    BY <1>1
  <2> QED
    BY <1>3, <2>1 DEF Reads
<1>7. Extend(proof, ms) = f[k + 1]
  BY <1>1, <1>3, ExtendReads
<1>8. Extend(proof, messages) = g[k]
  BY <1>4, ExtendReads
<1> QED
  BY <1>1, <1>5, <1>6, <1>7, <1>8 DEF ms

(* Reading a history in two parts is reading it at once. *)
LEMMA ExtendJoins ==
    ASSUME NEW proof, NEW M, NEW a \in Seq(M), NEW b \in Seq(M)
    PROVE  Extend(proof, a \o b) = Extend(Extend(proof, a), b)
<1> DEFINE k == Len(a)
           l == Len(b)
           ab == a \o b
<1>1. k \in Nat /\ l \in Nat /\ k + l \in Nat /\ ab \in Seq(M) /\ Len(ab) = k + l
  OBVIOUS
<1>2. \A i \in 1..k : ab[i] = a[i]
  OBVIOUS
<1>3. \A i \in 1..l : ab[k + i] = b[i]
  OBVIOUS
<1> HIDE DEF k, l, ab
<1>4. PICK f : Reads(f, proof, ab, k + l)
  BY <1>1, SomethingReads, Zenon
<1>5. PICK g : Reads(g, proof, a, k)
  BY <1>1, SomethingReads, Zenon
<1>6. f[k] = g[k]
  <2>1. k <= k + l
    BY <1>1
  <2>2. Reads(f, proof, ab, k + l) /\ Reads(g, proof, a, k)
    BY <1>4, <1>5
  <2>3. k + l \in Nat /\ k \in Nat /\ \A i \in 1..k : ab[i] = a[i]
    BY <1>1, <1>2
  <2>4. \A n \in Nat : Reads(f, proof, ab, n) /\ k <= n => f[k] = g[k]
    BY <2>2, <2>3, ReadsAgree
  <2> QED
    BY <2>1, <2>2, <2>3, <2>4
<1>7. PICK h : Reads(h, g[k], b, l)
  BY <1>1, SomethingReads, Zenon
<1> DEFINE P == {n \in Nat : n <= l => f[k + n] = h[n]}
<1>8. 0 \in P
  <2>1. h[0] = g[k] /\ k + 0 = k
    BY <1>1, <1>7 DEF Reads
  <2> QED
    BY <1>6, <2>1
<1>9. ASSUME NEW n \in Nat, n \in P PROVE n + 1 \in P
  <2> SUFFICES ASSUME n + 1 <= l PROVE f[k + (n + 1)] = h[n + 1]
    OBVIOUS
  <2>1. f[k + n] = h[n]
    BY <1>1, <1>9
  <2>2. /\ n + 1 \in 0..l /\ n + 1 \in 1..l /\ n + 1 # 0 /\ (n + 1) - 1 = n
        /\ k + (n + 1) \in 0..(k + l) /\ k + (n + 1) # 0 /\ (k + (n + 1)) - 1 = k + n
    BY <1>1
  <2>3. f[k + (n + 1)] = Link(f[k + n], ab[k + (n + 1)])
    BY <1>4, <2>2 DEF Reads
  <2>4. h[n + 1] = Link(h[n], b[n + 1])
    BY <1>7, <2>2 DEF Reads
  <2>5. ab[k + (n + 1)] = b[n + 1]
    BY <1>3, <2>2
  <2> QED
    BY <2>1, <2>3, <2>4, <2>5
<1> HIDE DEF P
<1>10. l \in P
  BY <1>1, <1>8, <1>9, NumbersFromZero
<1>11. f[k + l] = h[l]
  BY <1>1, <1>10 DEF P
<1>12. Extend(proof, ab) = f[k + l]
  BY <1>1, <1>4, ExtendReads
<1>13. Extend(proof, a) = g[k]
  BY <1>5, ExtendReads DEF k
<1>14. Extend(g[k], b) = h[l]
  BY <1>7, ExtendReads DEF l
<1> QED
  BY <1>11, <1>12, <1>13, <1>14 DEF ab

LEMMA ExtendOne ==
    ASSUME NEW proof, NEW msg
    PROVE  Extend(proof, <<msg>>) = Link(proof, msg)
<1>1. <<>> \in Seq({msg}) /\ Append(<<>>, msg) = <<msg>>
  OBVIOUS
<1>2. Extend(proof, Append(<<>>, msg)) = Link(Extend(proof, <<>>), msg)
  BY <1>1, ExtendOneMore
<1> QED
  BY <1>1, <1>2, ExtendNothing

-----------------------------------------------------------------------------
(* What the check of a whole history finds: the ids it used, and the calls *)
(* it left unanswered, which are what a snapshot retains.                  *)

Proofs == [ok : BOOLEAN, pending : Seq(Nat), seen : SUBSET Nat]

LEMMA LinkFits ==
    ASSUME NEW r \in Proofs, NEW msg, MessageFits(msg)
    PROVE  /\ Link(r, msg) \in Proofs
           /\ Link(r, msg).ok => r.ok /\ Link(r, msg).seen = r.seen \cup ToSet(msg.calls)
<1>1. r.ok \in BOOLEAN /\ r.pending \in Seq(Nat) /\ r.seen \in SUBSET Nat
  BY DEF Proofs
<1>2. msg.calls \in Seq(Nat) /\ (msg.role = "tool" => msg.calls = <<>>)
  BY DEF MessageFits
<1>3. ToSet(msg.calls) \subseteq Nat
  BY <1>2 DEF ToSet
<1>4. CASE ~r.ok
  BY <1>4 DEF Link
<1>5. CASE r.ok /\ r.pending # <<>>
  <2> DEFINE fine == msg.role = "tool" /\ msg.ref = Head(r.pending)
  <2>1. Link(r, msg) = [ok |-> fine, pending |-> Tail(r.pending), seen |-> r.seen]
    BY <1>5 DEF Link
  <2>2. Tail(r.pending) \in Seq(Nat) /\ fine \in BOOLEAN
    BY <1>1, <1>5
  <2>3. fine => msg.role = "tool"
    OBVIOUS
  <2> HIDE DEF fine
  <2>4. /\ Link(r, msg) \in Proofs /\ Link(r, msg).seen = r.seen
        /\ Link(r, msg).ok => msg.role = "tool"
    BY <1>1, <2>1, <2>2, <2>3 DEF Proofs
  <2>5. msg.calls = <<>> => ToSet(msg.calls) = {}
    BY DEF ToSet
  <2> QED
    BY <1>2, <1>5, <2>4, <2>5
<1>6. CASE r.ok /\ r.pending = <<>>
  <2> DEFINE fine == /\ msg.role # "tool"
                     /\ Cardinality(ToSet(msg.calls)) = Len(msg.calls)
                     /\ ToSet(msg.calls) \cap r.seen = {}
  <2>1. Link(r, msg) = [ok |-> fine, pending |-> msg.calls, seen |-> r.seen \cup ToSet(msg.calls)]
    BY <1>6 DEF Link
  <2>2. fine \in BOOLEAN
    OBVIOUS
  <2> HIDE DEF fine
  <2>3. r.seen \cup ToSet(msg.calls) \in SUBSET Nat
    BY <1>1, <1>3
  <2> QED
    BY <1>2, <1>6, <2>1, <2>2, <2>3 DEF Proofs
<1> QED
  BY <1>1, <1>4, <1>5, <1>6

LEMMA EmptyProofFits == EmptyProof \in Proofs /\ EmptyProof.seen = {}
<1>1. <<>> \in Seq(Nat) /\ {} \in SUBSET Nat /\ TRUE \in BOOLEAN
  OBVIOUS
<1> QED
  BY <1>1 DEF EmptyProof, Proofs

LEMMA HistoryRead ==
    ASSUME NEW h, HistoryFits(h)
    PROVE  /\ Extend(EmptyProof, h) \in Proofs
           /\ Extend(EmptyProof, h).ok => Extend(EmptyProof, h).seen = CallIds(h)
<1>1. PICK M : h \in Seq(M) /\ \A msg \in M : MessageFits(msg)
  BY DEF HistoryFits
<1>2. Len(h) \in Nat /\ DOMAIN h = 1..Len(h)
  BY <1>1
<1>3. PICK f : Reads(f, EmptyProof, h, Len(h))
  BY <1>2, SomethingReads, Zenon
<1> DEFINE Used(n) == UNION {ToSet(h[i].calls) : i \in 1..n}
           P == {n \in Nat : n <= Len(h) => f[n] \in Proofs /\ (f[n].ok => f[n].seen = Used(n))}
<1>4. 0 \in P
  <2>1. f[0] = EmptyProof
    BY <1>2, <1>3 DEF Reads
  <2>2. Used(0) = {}
    OBVIOUS
  <2> QED
    BY <2>1, <2>2, EmptyProofFits
<1>5. ASSUME NEW n \in Nat, n \in P PROVE n + 1 \in P
  <2> SUFFICES ASSUME n + 1 <= Len(h)
               PROVE  f[n + 1] \in Proofs /\ (f[n + 1].ok => f[n + 1].seen = Used(n + 1))
    OBVIOUS
  <2>1. f[n] \in Proofs /\ (f[n].ok => f[n].seen = Used(n))
    BY <1>2, <1>5
  <2>2. n + 1 \in 0..Len(h) /\ n + 1 \in 1..Len(h) /\ n + 1 # 0 /\ (n + 1) - 1 = n
    BY <1>2
  <2>3. f[n + 1] = Link(f[n], h[n + 1])
    BY <1>3, <2>2 DEF Reads
  <2>4. MessageFits(h[n + 1])
    BY <1>1, <2>2
  <2>5. Used(n + 1) = Used(n) \cup ToSet(h[n + 1].calls)
    <3>1. 1..(n + 1) = 1..n \cup {n + 1}
      OBVIOUS
    <3> QED
      BY <3>1
  <2>6. /\ f[n + 1] \in Proofs
        /\ f[n + 1].ok => f[n].ok /\ f[n + 1].seen = f[n].seen \cup ToSet(h[n + 1].calls)
    BY <2>1, <2>3, <2>4, LinkFits
  <2> HIDE DEF Used
  <2> QED
    BY <2>1, <2>5, <2>6
<1> HIDE DEF P
<1>6. Len(h) \in P
  BY <1>2, <1>4, <1>5, NumbersFromZero
<1>7. f[Len(h)] \in Proofs /\ (f[Len(h)].ok => f[Len(h)].seen = Used(Len(h)))
  BY <1>2, <1>6 DEF P
<1>8. Extend(EmptyProof, h) = f[Len(h)]
  BY <1>1, <1>3, ExtendReads
<1>9. Used(Len(h)) = CallIds(h)
  BY <1>2 DEF CallIds
<1> QED
  BY <1>7, <1>8, <1>9

(* A checkpoint whose run may go on is read back as what it retained. *)
LEMMA RetainsWhatItRead ==
    ASSUME NEW c, HistoryFits(c.hist), ValidHistory(c.hist, c.st),
           c.st.kind \notin {"failed", "limited"}
    PROVE  Extend(EmptyProof, c.hist) = Retained(c)
<1> DEFINE r == Extend(EmptyProof, c.hist)
<1>1. r \in Proofs /\ r.ok /\ r.seen = CallIds(c.hist)
  BY HistoryRead DEF ValidHistory
<1>2. Resolves(r, c.st)
  BY DEF ValidHistory
<1> HIDE DEF r
<1>3. r.pending = c.st.pending
  BY <1>2 DEF Resolves
<1>4. r = [ok |-> r.ok, pending |-> r.pending, seen |-> r.seen]
  BY <1>1 DEF Proofs
<1>5. r.ok = TRUE
  BY <1>1 DEF Proofs
<1>6. r = [ok |-> TRUE, pending |-> c.st.pending, seen |-> CallIds(c.hist)]
  BY <1>1, <1>3, <1>4, <1>5, Zenon
<1> QED
  BY <1>6 DEF r, Retained

LEMMA SubSeqStep ==
    ASSUME NEW p \in Seq(Nat), NEW n \in Nat, n + 1 <= Len(p)
    PROVE  LET q == SubSeq(p, n + 1, Len(p))
           IN  /\ q # <<>> /\ Head(q) = p[n + 1]
               /\ Tail(q) = SubSeq(p, (n + 1) + 1, Len(p))
<1>1. n + 1 \in 1..Len(p) /\ Len(p) \in (n + 1)..Len(p)
  OBVIOUS
<1>2. /\ Head(SubSeq(p, n + 1, Len(p))) = p[n + 1]
      /\ Tail(SubSeq(p, n + 1, Len(p))) = SubSeq(p, (n + 1) + 1, Len(p))
  BY <1>1, HeadTailOfSubSeq
<1>3. SubSeq(p, n + 1, Len(p)) # <<>>
  <2>1. Len(SubSeq(p, n + 1, Len(p))) = Len(p) - n
    BY <1>1
  <2>2. Len(SubSeq(p, n + 1, Len(p))) # 0
    <3>1. Len(p) - n # 0
      OBVIOUS
    <3> QED
      BY <2>1, <3>1, Zenon
  <2>3. Len(<<>>) = 0
    OBVIOUS
  <2> QED
    BY <2>2, <2>3, Zenon
<1> QED
  BY <1>2, <1>3

LEMMA LinkAnswer ==
    ASSUME NEW q, NEW seen, NEW msg, q # <<>>, msg.role = "tool", msg.ref = Head(q)
    PROVE  Link([ok |-> TRUE, pending |-> q, seen |-> seen], msg)
             = [ok |-> TRUE, pending |-> Tail(q), seen |-> seen]
<1> DEFINE yes == msg.role = "tool" /\ msg.ref = Head(q)
<1>1. Link([ok |-> TRUE, pending |-> q, seen |-> seen], msg)
        = [ok |-> yes, pending |-> Tail(q), seen |-> seen]
  BY DEF Link
<1>2. yes = TRUE
  OBVIOUS
<1> HIDE DEF yes
<1> QED
  BY <1>1, <1>2

(* The results of the first calls, in order, are what the proof expects. *)
LEMMA AnswersRead ==
    ASSUME NEW p \in Seq(Nat), NEW seen, NEW k \in Nat, k <= Len(p)
    PROVE  Extend([ok |-> TRUE, pending |-> p, seen |-> seen],
                  [i \in 1..k |-> ToolMessage(SubSeq(p, 1, k)[i])])
             = [ok |-> TRUE, pending |-> SubSeq(p, k + 1, Len(p)), seen |-> seen]
<1> DEFINE proof    == [ok |-> TRUE, pending |-> p, seen |-> seen]
           after(n) == [ok |-> TRUE, pending |-> SubSeq(p, n + 1, Len(p)), seen |-> seen]
           ms       == [i \in 1..k |-> ToolMessage(SubSeq(p, 1, k)[i])]
           M        == {ToolMessage(SubSeq(p, 1, k)[i]) : i \in 1..k}
<1>1. ms \in Seq(M) /\ Len(ms) = k
  <2> DEFINE ids == SubSeq(p, 1, k)
  <2> HIDE DEF ids
  <2> DEFINE N == {ToolMessage(ids[i]) : i \in 1..k}
  <2>1. [i \in 1..k |-> ToolMessage(ids[i])] \in Seq(N)
    <3>1. \A i \in 1..k : ToolMessage(ids[i]) \in N
      OBVIOUS
    <3> HIDE DEF N
    <3> QED
      BY <3>1
  <2>2. Len([i \in 1..k |-> ToolMessage(ids[i])]) = k
    OBVIOUS
  <2> QED
    BY <2>1, <2>2 DEF ids
<1>2. ASSUME NEW i \in 1..k PROVE ms[i].role = "tool" /\ ms[i].ref = p[i]
  <2>1. ms[i] = ToolMessage(SubSeq(p, 1, k)[i])
    OBVIOUS
  <2>2. SubSeq(p, 1, k)[i] = p[i]
    OBVIOUS
  <2> QED
    BY <2>1, <2>2 DEF ToolMessage, Message
<1>3. SubSeq(p, 1, Len(p)) = p
  OBVIOUS
<1> HIDE DEF ms, M
<1>4. PICK f : Reads(f, proof, ms, k)
  BY SomethingReads, Zenon
<1> DEFINE P == {n \in Nat : n <= k => f[n] = after(n)}
<1>5. 0 \in P
  <2>1. f[0] = proof
    BY <1>4 DEF Reads
  <2>2. after(0) = proof
    <3>1. 0 + 1 = 1
      OBVIOUS
    <3> QED
      BY <1>3, <3>1, Zenon
  <2> QED
    BY <2>1, <2>2
<1>6. ASSUME NEW n \in Nat, n \in P PROVE n + 1 \in P
  <2> SUFFICES ASSUME n + 1 <= k PROVE f[n + 1] = after(n + 1)
    OBVIOUS
  <2>1. f[n] = after(n)
    BY <1>6
  <2>2. /\ n + 1 \in 0..k /\ n + 1 \in 1..k /\ n + 1 # 0 /\ (n + 1) - 1 = n /\ n + 1 <= Len(p)
    OBVIOUS
  <2>3. f[n + 1] = Link(f[n], ms[n + 1])
    BY <1>4, <2>2 DEF Reads
  <2> DEFINE q == SubSeq(p, n + 1, Len(p))
             r == SubSeq(p, (n + 1) + 1, Len(p))
  <2>4. q # <<>> /\ Head(q) = p[n + 1] /\ Tail(q) = r
    BY <2>2, SubSeqStep
  <2>5. ms[n + 1].role = "tool" /\ ms[n + 1].ref = p[n + 1]
    BY <1>2, <2>2
  <2>6. f[n] = [ok |-> TRUE, pending |-> q, seen |-> seen]
    BY <2>1
  <2> HIDE DEF q, r
  <2>7. Link(f[n], ms[n + 1]) = [ok |-> TRUE, pending |-> r, seen |-> seen]
    BY <2>4, <2>5, <2>6, LinkAnswer
  <2> QED
    BY <2>3, <2>7 DEF r
<1> HIDE DEF P, proof
<1>7. k \in P
  BY <1>5, <1>6, NumbersFromZero
<1>8. f[k] = after(k)
  BY <1>7 DEF P
<1>9. Extend(proof, ms) = f[k]
  BY <1>1, <1>4, ExtendReads
<1> QED
  BY <1>8, <1>9 DEF ms, proof

(* One more message after everything was answered. *)
LEMMA MessageRead ==
    ASSUME NEW seen, NEW msg, msg.role # "tool",
           Cardinality(ToSet(msg.calls)) = Len(msg.calls), ToSet(msg.calls) \cap seen = {}
    PROVE  Extend([ok |-> TRUE, pending |-> <<>>, seen |-> seen], <<msg>>)
             = [ok |-> TRUE, pending |-> msg.calls, seen |-> seen \cup ToSet(msg.calls)]
<1> DEFINE proof == [ok |-> TRUE, pending |-> <<>>, seen |-> seen]
           fine  == /\ msg.role # "tool"
                    /\ Cardinality(ToSet(msg.calls)) = Len(msg.calls)
                    /\ ToSet(msg.calls) \cap seen = {}
<1>1. Link(proof, msg) = [ok |-> fine, pending |-> msg.calls, seen |-> seen \cup ToSet(msg.calls)]
  BY DEF Link
<1>2. fine = TRUE
  OBVIOUS
<1> HIDE DEF fine
<1> QED
  BY <1>1, <1>2, ExtendOne

LEMMA NoCallsRepeat ==
    Cardinality(ToSet(<<>>)) = Len(<<>>) /\ ToSet(<<>>) = {}
<1>1. ToSet(<<>>) = {} /\ Len(<<>>) = 0
  BY DEF ToSet
<1> QED
  BY <1>1, FS_EmptySet

(* A message of the host, of the user or from outside. *)
LEMMA PlainMessageRead ==
    ASSUME NEW seen, NEW msg, msg.role # "tool", msg.calls = <<>>
    PROVE  LET proof == [ok |-> TRUE, pending |-> <<>>, seen |-> seen]
           IN  Extend(proof, <<msg>>) = proof
<1>1. Extend([ok |-> TRUE, pending |-> <<>>, seen |-> seen], <<msg>>)
        = [ok |-> TRUE, pending |-> msg.calls, seen |-> seen \cup ToSet(msg.calls)]
  BY MessageRead, NoCallsRepeat
<1> QED
  BY <1>1, NoCallsRepeat


-----------------------------------------------------------------------------
(* Every change but one is linked to the history it extends: a model's     *)
(* answer is, unless it uses an id again.                                  *)

LEMMA ResolvesOwn ==
    ASSUME NEW proof, NEW st, proof.pending = st.pending
    PROVE  Resolves(proof, st)
BY DEF Resolves

LEMMA LinksByAppending ==
    ASSUME NEW c, NEW x, x.replace = <<>>,
           Extend(Retained(c), x.append).ok, Resolves(Extend(Retained(c), x.append), x.st)
    PROVE  LinksTo(c, x)
BY DEF LinksTo

LEMMA NothingAppended ==
    ASSUME NEW c
    PROVE  /\ Extend(Retained(c), <<>>) = Retained(c)
           /\ Retained(c).ok /\ Retained(c).pending = c.st.pending
BY ExtendNothing DEF Retained

LEMMA PlainAppended ==
    ASSUME NEW c, c.st.pending = <<>>, NEW msg, msg.role # "tool", msg.calls = <<>>
    PROVE  LET r == Extend(Retained(c), <<msg>>) IN r.ok /\ r.pending = <<>>
<1>1. Retained(c) = [ok |-> TRUE, pending |-> <<>>, seen |-> CallIds(c.hist)]
  BY DEF Retained
<1>2. Extend(Retained(c), <<msg>>) = Retained(c)
  BY <1>1, PlainMessageRead
<1> QED
  BY <1>1, <1>2

LEMMA PlanningOwnsNothing ==
    ASSUME NEW c, HeadFits(c), IsPlanning(c.st)
    PROVE  c.st.pending = <<>> /\ c.st.why = "none"
BY DEF HeadFits, OwnedPending, IsPlanning

LEMMA StopLinks ==
    ASSUME NEW c, NEW x, MayStop(c, x) PROVE LinksTo(c, x)
<1>1. /\ x.append = <<>> /\ x.replace = <<>>
      /\ \E k \in {"failed", "limited"} : \E why : x.st = Terminal(k, why)
  BY StopShape DEF MayStop
<1>2. Resolves(Retained(c), x.st)
  BY <1>1 DEF Resolves, Terminal
<1> QED
  BY <1>1, <1>2, NothingAppended, LinksByAppending

LEMMA SuspendLinks ==
    ASSUME NEW c, HeadFits(c), NEW x, MaySuspend(c, x) PROVE LinksTo(c, x)
<1>1. CASE \E why \in {"pause", "approval"} : x = SuspendAt(c.st, why)
  <2> PICK why \in {"pause", "approval"} : x = SuspendAt(c.st, why)
    BY <1>1
  <2>0. OwnedPending(c.st) /\ why \in Lifecycle!Reasons
    BY Vocabulary DEF HeadFits
  <2>1. x.append = <<>> /\ x.replace = <<>> /\ x.st = Suspended(c.st, why)
    BY SuspendShape
  <2>2. x.st.pending = c.st.pending
    BY <2>0, <2>1, SuspendedFits
  <2> QED
    BY <2>1, <2>2, NothingAppended, ResolvesOwn, LinksByAppending
<1>2. CASE \E messages \in {<<>>, <<UserMessage>>} :
             x = Resumed(c, messages) /\ (messages = <<>> \/ MayAppend(c.st))
  <2> PICK messages \in {<<>>, <<UserMessage>>} :
             x = Resumed(c, messages) /\ (messages = <<>> \/ MayAppend(c.st))
    BY <1>2
  <2>1. x.append = messages /\ x.replace = <<>> /\ x.st = ResumeTo(c.st)
    BY ResumeShape
  <2>2. x.st.pending = c.st.pending
    BY <2>1 DEF ResumeTo, Active
  <2>3. CASE messages = <<>>
    BY <2>1, <2>2, <2>3, NothingAppended, ResolvesOwn, LinksByAppending
  <2>4. CASE messages = <<UserMessage>> /\ MayAppend(c.st)
    <3>1. c.st.pending = <<>>
      BY <2>4 DEF MayAppend, Interruptible, IsPlanning, ResumeTo, Active
    <3>2. UserMessage.role # "tool" /\ UserMessage.calls = <<>>
      BY DEF UserMessage, Message
    <3>3. /\ Extend(Retained(c), <<UserMessage>>).ok
          /\ Extend(Retained(c), <<UserMessage>>).pending = <<>>
      BY <3>1, <3>2, PlainAppended
    <3> QED
      BY <2>1, <2>2, <2>4, <3>1, <3>3, ResolvesOwn, LinksByAppending
  <2>5. <<UserMessage>> # <<>>
    OBVIOUS
  <2> QED
    BY <2>3, <2>4, <2>5
<1> QED
  BY <1>1, <1>2 DEF MaySuspend

LEMMA EditLinks ==
    ASSUME NEW c, HeadFits(c), NEW x, MayEdit(c, x) PROVE LinksTo(c, x)
<1>1. c.st.pending = <<>>
  BY PlanningOwnsNothing DEF MayEdit, Interruptible
<1>2. x.st = Active(<<>>, FALSE)
  BY EditShape
<1>3. x.st.pending = <<>>
  BY <1>2, FreshFits
<1>4. CASE \E n : x = Insert(n)
  <2>1. PICK n : x = Insert(n)
    BY <1>4
  <2>2. x.append = <<External(n)>> /\ x.replace = <<>>
    BY <2>1 DEF Insert, Change
  <2>3. External(n).role # "tool" /\ External(n).calls = <<>>
    BY DEF External, Message
  <2>4. /\ Extend(Retained(c), <<External(n)>>).ok
        /\ Extend(Retained(c), <<External(n)>>).pending = <<>>
    BY <1>1, <2>3, PlainAppended
  <2> QED
    BY <1>3, <2>2, <2>4, ResolvesOwn, LinksByAppending
<1>5. CASE \E messages : /\ messages # <<>> /\ ValidHistory(messages, Active(<<>>, FALSE))
                         /\ x = Rewrite(c, messages)
  <2>1. PICK messages : /\ messages # <<>> /\ ValidHistory(messages, Active(<<>>, FALSE))
                        /\ x = Rewrite(c, messages)
    BY <1>5
  <2>2. x.replace = messages
    BY <2>1 DEF Rewrite, Change
  <2> QED
    BY <1>2, <2>1, <2>2 DEF LinksTo
<1> QED
  BY <1>4, <1>5 DEF MayEdit

(* Both forms of a model's turn append the same message; they differ where *)
(* _continue_for_deferred_inserts keeps a completed run active.            *)
TurnOf(c, response, x) ==
    x \in {ModelTurn(c, response, MaxTokens), KeepActive(ModelTurn(c, response, MaxTokens))}

LEMMA TurnFields ==
    ASSUME NEW c, NEW response, NEW x, TurnOf(c, response, x)
    PROVE  /\ x.append = <<Assistant(response.calls)>> /\ x.replace = <<>>
           /\ x.steps = 1 /\ x.calls = 0 /\ x.tokens = response.tokens
           /\ x.fact.kind = "model_turn" /\ x.fact.calls = response.calls
           /\ x.fact.n = response.tokens
<1>1. CASE x = ModelTurn(c, response, MaxTokens)
  <2>1. /\ x.fact.kind = "model_turn" /\ x.fact.calls = response.calls
        /\ x.fact.n = response.tokens
    BY <1>1 DEF ModelTurn, Change, Fact
  <2> QED
    BY <1>1, <2>1, TurnShape
<1>2. CASE x = KeepActive(ModelTurn(c, response, MaxTokens))
  <2>1. /\ x.fact.kind = "model_turn" /\ x.fact.calls = response.calls
        /\ x.fact.n = response.tokens
    BY <1>2 DEF KeepActive, ModelTurn, Change, Fact
  <2> QED
    BY <1>2, <2>1, KeepShape
<1> QED
  BY <1>1, <1>2 DEF TurnOf

LEMMA TurnLeadsTo ==
    ASSUME NEW c, NEW response, NEW x, TurnOf(c, response, x)
    PROVE  \/ x.st = TurnState(c, response)
           \/ TurnState(c, response).kind = "completed" /\ x.st = Active(<<>>, FALSE)
<1>1. CASE x = ModelTurn(c, response, MaxTokens)
  BY <1>1, TurnShape
<1>2. CASE x = KeepActive(ModelTurn(c, response, MaxTokens))
  <2>1. x.st = IF TurnState(c, response).kind = "completed" THEN Active(<<>>, FALSE)
               ELSE TurnState(c, response)
    BY <1>2, KeepShape
  <2> QED
    BY <2>1
<1> QED
  BY <1>1, <1>2 DEF TurnOf

LEMMA TurnLinks ==
    ASSUME NEW c, HeadFits(c), IsPlanning(c.st), NEW response \in Turns,
           ToSet(response.calls) \cap CallIds(c.hist) = {},
           NEW x, TurnOf(c, response, x)
    PROVE  LinksTo(c, x)
<1> DEFINE msg == Assistant(response.calls)
           r   == Extend(Retained(c), <<msg>>)
<1>1. x.append = <<msg>> /\ x.replace = <<>>
  BY TurnFields
<1>2. Retained(c) = [ok |-> TRUE, pending |-> <<>>, seen |-> CallIds(c.hist)]
  BY PlanningOwnsNothing DEF Retained
<1>3. msg.role # "tool" /\ msg.calls = response.calls
  BY DEF Assistant, Message
<1>4. Cardinality(ToSet(response.calls)) = Len(response.calls)
  BY DEF Turns
<1> HIDE DEF msg
<1>5. r = [ok |-> TRUE, pending |-> response.calls,
           seen |-> CallIds(c.hist) \cup ToSet(response.calls)]
  BY <1>2, <1>3, <1>4, MessageRead
<1>6. r.ok /\ r.pending = response.calls
  BY <1>5
<1> HIDE DEF r
<1>7. \/ x.st.pending = response.calls
      \/ x.st.pending = <<>> /\ (response.calls = <<>> \/ x.st.kind = "limited")
  <2>1. CASE x.st = TurnState(c, response)
    BY <2>1 DEF TurnState, Active, Terminal
  <2>2. CASE TurnState(c, response).kind = "completed" /\ x.st = Active(<<>>, FALSE)
    <3>1. response.calls = <<>>
      BY <2>2 DEF TurnState, Active, Terminal
    <3>2. x.st.pending = <<>>
      BY <2>2, FreshFits
    <3> QED
      BY <3>1, <3>2
  <2> QED
    BY <2>1, <2>2, TurnLeadsTo
<1>8. Resolves(r, x.st)
  BY <1>6, <1>7 DEF Resolves
<1> QED
  BY <1>1, <1>6, <1>8, LinksByAppending DEF r

LEMMA BatchLinks ==
    ASSUME NEW c, HeadFits(c), NEW x, MayBatch(c, x) PROVE LinksTo(c, x)
<1>1. PICK k \in BatchSizes(c), why \in {"none", "waiting", "pause"} :
         x = BatchOutcome(c, k, why)
  BY DEF MayBatch
<1> DEFINE p    == c.st.pending
           rest == SubSeq(p, k + 1, Len(p))
           ms   == [i \in 1..k |-> ToolMessage(SubSeq(p, 1, k)[i])]
<1>2. p \in Seq(Nat) /\ k \in Nat /\ k <= Len(p)
  BY StateParts DEF HeadFits, OwnedPending, BatchSizes
<1>3. x.append = ms /\ x.replace = <<>>
  BY <1>1 DEF BatchOutcome, Change, Fact
<1>4. x.st = IF why = "none" THEN Active(rest, c.st.ptp)
             ELSE Suspended(Active(rest, c.st.ptp), why)
  BY <1>1 DEF BatchOutcome, Change, Fact
<1>5. Retained(c) = [ok |-> TRUE, pending |-> p, seen |-> CallIds(c.hist)]
  BY DEF Retained
<1>6. Extend(Retained(c), ms) = [ok |-> TRUE, pending |-> rest, seen |-> CallIds(c.hist)]
  BY <1>2, <1>5, AnswersRead
<1> HIDE DEF rest, ms
<1>7. x.st.pending = rest
  BY <1>4 DEF Active, Suspended
<1>8. Extend(Retained(c), ms).ok /\ Extend(Retained(c), ms).pending = rest
  BY <1>6
<1> QED
  BY <1>3, <1>7, <1>8, ResolvesOwn, LinksByAppending

-----------------------------------------------------------------------------
(* Both judges pass every such step: the checkpoint's own boundary check,  *)
(* and the verifier that sees the fact and two views without messages.     *)

LEMMA ViewFields ==
    ASSUME NEW c
    PROVE  /\ View(c).rev = c.rev /\ View(c).count = Len(c.hist) /\ View(c).steps = c.steps
           /\ View(c).calls = c.calls /\ View(c).tokens = c.tokens /\ View(c).st = c.st
BY DEF View

LEMMA BoundaryByKind ==
    ASSUME NEW n, n.rev # 0
    PROVE  /\ /\ n.fact.kind = "control" /\ n.st.kind = n.fact.result /\ n.st.why = n.fact.why
              => BoundaryOK(n)
           /\ n.fact.kind = "resumed" /\ IsActive(n.st) => BoundaryOK(n)
           /\ n.fact.kind = "model_turn" /\ ModelBoundary(n) => BoundaryOK(n)
           /\ n.fact.kind = "tool_batch" /\ ToolBoundary(n) => BoundaryOK(n)
           /\ /\ n.fact.kind = "conversation_insert" /\ Interruptible(n.st)
              /\ Last(n.hist).role = "external"
              => BoundaryOK(n)
           /\ /\ n.fact.kind = "history_rewrite" /\ Interruptible(n.st)
              /\ n.fact.m = Len(n.hist)
              => BoundaryOK(n)
BY DEF BoundaryOK

LEMMA LegalByKind ==
    ASSUME NEW b, NEW f, NEW a
    PROVE  /\ f.kind = "control" /\ (f.result = "suspended" => IsActive(b.st)) => LegalStep(b, f, a)
           /\ f.kind = "started" /\ b.rev = -1 => LegalStep(b, f, a)
           /\ f.kind = "resumed" /\ b.st.kind = "suspended" => LegalStep(b, f, a)
           /\ f.kind = "tool_batch" /\ b.st.kind = "tools_pending"
              /\ b.st.pending = f.calls \o a.st.pending => LegalStep(b, f, a)
           /\ f.kind = "history_rewrite" /\ IsPlanning(b.st) /\ f.n = b.count => LegalStep(b, f, a)
           /\ f.kind \in {"model_turn", "conversation_insert"} /\ IsPlanning(b.st)
              => LegalStep(b, f, a)
BY DEF LegalStep

LEMMA CountByKind ==
    ASSUME NEW b, NEW f
    PROVE  /\ f.kind \in {"started", "resumed"} => ExpectedCount(b, f) = b.count + f.n
           /\ f.kind \in {"model_turn", "conversation_insert"} => ExpectedCount(b, f) = b.count + 1
           /\ f.kind = "tool_batch" => ExpectedCount(b, f) = b.count + Len(f.calls)
           /\ f.kind = "history_rewrite" => ExpectedCount(b, f) = f.m
           /\ f.kind = "control" => ExpectedCount(b, f) = b.count
BY DEF ExpectedCount

LEMMA StateByKind ==
    ASSUME NEW b, NEW f, NEW a
    PROVE  /\ f.kind \in {"started", "conversation_insert", "history_rewrite"}
                => ExpectedState(b, f, a) = Active(<<>>, FALSE)
           /\ f.kind = "resumed" => ExpectedState(b, f, a) = ResumeTo(b.st)
           /\ f.kind = "tool_batch" => ExpectedState(b, f, a) = BatchState(b, f, a)
           /\ f.kind = "model_turn" /\ f.result = "planning"
                => ExpectedState(b, f, a) = Active(<<>>, f.ptp)
           /\ f.kind = "model_turn" /\ f.result = "tools_pending"
                => ExpectedState(b, f, a) = Active(f.calls, f.ptp)
           /\ f.kind = "model_turn" /\ f.result \notin ActiveKinds
                => ExpectedState(b, f, a) = Terminal(f.result, f.why)
           /\ f.kind = "control" /\ f.result = "suspended"
                => ExpectedState(b, f, a) = Suspended(b.st, f.why)
           /\ f.kind = "control" /\ f.result # "suspended"
                => ExpectedState(b, f, a) = Terminal(f.result, f.why)
BY DEF ExpectedState, ActiveKinds

LEMMA VerifiedIf ==
    ASSUME NEW c, NEW x,
           LegalStep(View(c), x.fact, View(Reduce(c, x))),
           Len(Reduce(c, x).hist) = ExpectedCount(View(c), x.fact),
           x.steps = (IF x.fact.kind = "model_turn" THEN 1 ELSE 0),
           x.calls = (IF x.fact.kind = "tool_batch" THEN Len(x.fact.calls) ELSE 0),
           x.tokens = (IF x.fact.kind = "model_turn" THEN x.fact.n ELSE 0),
           x.st = ExpectedState(View(c), x.fact, View(Reduce(c, x)))
    PROVE  Verified(c, Reduce(c, x))
<1> DEFINE n == Reduce(c, x)
<1>1. n.fact = x.fact
  BY DEF Reduce
<1>2. /\ n.rev = c.rev + 1 /\ n.steps = c.steps + x.steps /\ n.calls = c.calls + x.calls
      /\ n.tokens = c.tokens + x.tokens /\ n.st = x.st
  BY ReduceShape
<1>3. View(n) = [rev |-> n.rev, count |-> Len(n.hist), steps |-> n.steps,
                 calls |-> n.calls, tokens |-> n.tokens, st |-> n.st]
  BY DEF View
<1> HIDE DEF n
<1>4. View(n) = [rev |-> View(c).rev + 1, count |-> ExpectedCount(View(c), x.fact),
                 steps |-> View(c).steps + (IF x.fact.kind = "model_turn" THEN 1 ELSE 0),
                 calls |-> View(c).calls
                           + (IF x.fact.kind = "tool_batch" THEN Len(x.fact.calls) ELSE 0),
                 tokens |-> View(c).tokens + (IF x.fact.kind = "model_turn" THEN x.fact.n ELSE 0),
                 st |-> ExpectedState(View(c), x.fact, View(n))]
  BY <1>2, <1>3, ViewFields DEF n
<1>5. Verified(c, n)
  BY <1>1, <1>4 DEF Verified, n
<1> QED
  BY <1>5 DEF n

LEMMA ConcatIndex ==
    ASSUME NEW S, NEW a \in Seq(S), NEW b \in Seq(S)
    PROVE  /\ Len(a) \in Nat /\ Len(b) \in Nat /\ Len(a \o b) = Len(a) + Len(b)
           /\ \A i \in 1..Len(a) : (a \o b)[i] = a[i]
           /\ \A i \in 1..Len(b) : (a \o b)[Len(a) + i] = b[i]
<1>1. Len(a) \in Nat /\ Len(b) \in Nat /\ Len(a \o b) = Len(a) + Len(b)
  OBVIOUS
<1>2. ASSUME NEW i \in 1..Len(a) PROVE (a \o b)[i] = a[i]
  OBVIOUS
<1>3. ASSUME NEW i \in 1..Len(b) PROVE (a \o b)[Len(a) + i] = b[i]
  <2>1. /\ Len(a) + i \in 1..(Len(a) + Len(b)) /\ Len(a) + i > Len(a)
        /\ (Len(a) + i) - Len(a) = i
    BY <1>1
  <2> QED
    BY <2>1
<1> QED
  BY <1>1, <1>2, <1>3

LEMMA HistoryGrows ==
    ASSUME NEW c, HistoryFits(c.hist), NEW x, x.replace = <<>>, HistoryFits(x.append)
    PROVE  /\ Reduce(c, x).hist = c.hist \o x.append
           /\ Len(c.hist) \in Nat /\ Len(x.append) \in Nat
           /\ Len(Reduce(c, x).hist) = Len(c.hist) + Len(x.append)
           /\ \A i \in 1..Len(c.hist) : Reduce(c, x).hist[i] = c.hist[i]
           /\ \A i \in 1..Len(x.append) : Reduce(c, x).hist[Len(c.hist) + i] = x.append[i]
           /\ x.append # <<>> => Last(Reduce(c, x).hist) = x.append[Len(x.append)]
<1>1. PICK M : c.hist \in Seq(M)
  BY DEF HistoryFits
<1>2. PICK N : x.append \in Seq(N)
  BY DEF HistoryFits
<1> DEFINE a == c.hist
           b == x.append
           h == Reduce(c, x).hist
           S == M \cup N
<1>3. a \in Seq(S) /\ b \in Seq(S)
  BY <1>1, <1>2
<1>4. h = a \o b
  BY ReduceShape
<1> HIDE DEF a, b, h, S
<1>5. /\ Len(a) \in Nat /\ Len(b) \in Nat /\ Len(h) = Len(a) + Len(b)
      /\ \A i \in 1..Len(a) : h[i] = a[i]
      /\ \A i \in 1..Len(b) : h[Len(a) + i] = b[i]
  BY <1>3, <1>4, ConcatIndex
<1>6. b # <<>> => Last(h) = b[Len(b)]
  <2>1. b # <<>> => Len(b) \in 1..Len(b)
    BY <1>3, EmptySeq
  <2> QED
    BY <1>5, <2>1 DEF Last
<1>7. /\ h = a \o b /\ Len(a) \in Nat /\ Len(b) \in Nat /\ Len(h) = Len(a) + Len(b)
      /\ \A i \in 1..Len(a) : h[i] = a[i]
      /\ \A i \in 1..Len(b) : h[Len(a) + i] = b[i]
      /\ b # <<>> => Last(h) = b[Len(b)]
  BY <1>4, <1>5, <1>6
<1> QED
  BY <1>7 DEF a, b, h

LEMMA NothingGrows ==
    ASSUME NEW c, HistoryFits(c.hist), NEW x, x.replace = <<>>, x.append = <<>>
    PROVE  Len(Reduce(c, x).hist) = Len(c.hist)
<1>1. Len(<<>>) = 0
  OBVIOUS
<1>2. HistoryFits(x.append)
  BY NoMessagesFit
<1>3. Len(c.hist) \in Nat /\ Len(Reduce(c, x).hist) = Len(c.hist) + Len(x.append)
  BY <1>2, HistoryGrows
<1> QED
  BY <1>1, <1>3

LEMMA OneGrows ==
    ASSUME NEW c, HistoryFits(c.hist), NEW x, NEW msg, MessageFits(msg),
           x.replace = <<>>, x.append = <<msg>>
    PROVE  /\ Len(Reduce(c, x).hist) = Len(c.hist) + 1
           /\ Last(Reduce(c, x).hist) = msg
<1>1. Len(<<msg>>) = 1 /\ <<msg>>[1] = msg /\ <<msg>> # <<>>
  OBVIOUS
<1>2. HistoryFits(x.append)
  BY OneMessageFits
<1>3. /\ Len(Reduce(c, x).hist) = Len(c.hist) + Len(x.append)
      /\ Last(Reduce(c, x).hist) = x.append[Len(x.append)]
  BY <1>1, <1>2, HistoryGrows
<1> QED
  BY <1>1, <1>3

LEMMA ControlFact ==
    ASSUME NEW result, NEW why
    PROVE  LET f == [Fact("control") EXCEPT !.result = result, !.why = why]
           IN  f.kind = "control" /\ f.result = result /\ f.why = why
BY DEF Fact

(* What the judges require of a step that only changes the state. *)
LEMMA ControlJudged ==
    ASSUME NEW c, HistoryFits(c.hist), c.rev \in Nat, NEW x,
           x.fact.kind = "control", x.append = <<>>, x.replace = <<>>,
           x.steps = 0, x.calls = 0, x.tokens = 0,
           x.st.kind = x.fact.result, x.st.why = x.fact.why,
           IF x.fact.result = "suspended" THEN IsActive(c.st) /\ x.st = Suspended(c.st, x.fact.why)
           ELSE x.st = Terminal(x.fact.result, x.fact.why)
    PROVE  BoundaryOK(Reduce(c, x)) /\ Verified(c, Reduce(c, x))
<1> DEFINE n == Reduce(c, x)
<1>1. n.fact = x.fact /\ n.st = x.st /\ n.rev = c.rev + 1
  BY DEF Reduce
<1>2. BoundaryOK(n)
  BY <1>1, BoundaryByKind
<1>3. LegalStep(View(c), x.fact, View(n))
  BY ViewFields, LegalByKind
<1>4. Len(n.hist) = ExpectedCount(View(c), x.fact)
  BY NothingGrows, CountByKind, ViewFields
<1>5. x.st = ExpectedState(View(c), x.fact, View(n))
  <2>1. CASE x.fact.result = "suspended"
    <3>1. ExpectedState(View(c), x.fact, View(n)) = Suspended(View(c).st, x.fact.why)
      BY <2>1, StateByKind, Zenon
    <3> QED
      BY <2>1, <3>1, ViewFields
  <2>2. CASE x.fact.result # "suspended"
    <3>1. ExpectedState(View(c), x.fact, View(n)) = Terminal(x.fact.result, x.fact.why)
      BY <2>2 DEF ExpectedState
    <3> QED
      BY <2>2, <3>1
  <2> QED
    BY <2>1, <2>2
<1>6. Verified(c, n)
  BY <1>3, <1>4, <1>5, VerifiedIf
<1> QED
  BY <1>2, <1>6

LEMMA StopJudged ==
    ASSUME NEW c, HeadFits(c), c.rev >= 0, NEW x, MayStop(c, x)
    PROVE  BoundaryOK(Reduce(c, x)) /\ Verified(c, Reduce(c, x))
<1>1. PICK k, why : \/ k = "failed" /\ x = Failed(why)
                    \/ k = "limited" /\ x = Limited(why)
  BY DEF MayStop
<1>2. /\ x.fact.kind = "control" /\ x.fact.result = k /\ x.fact.why = why
      /\ x.st = Terminal(k, why)
  <2>1. /\ x.fact = [Fact("control") EXCEPT !.result = k, !.why = why]
        /\ x.st = Terminal(k, why)
    <3>1. CASE k = "failed" /\ x = Failed(why)
      BY <3>1 DEF Failed, Change
    <3>2. CASE k = "limited" /\ x = Limited(why)
      BY <3>2 DEF Limited, Change
    <3> QED
      BY <1>1, <3>1, <3>2
  <2> QED
    BY <2>1, ControlFact
<1>3. /\ x.append = <<>> /\ x.replace = <<>> /\ x.steps = 0 /\ x.calls = 0 /\ x.tokens = 0
  BY <1>1, StopShape
<1>4. x.st.kind = k /\ x.st.why = why
  BY <1>2 DEF Terminal
<1>5. HistoryFits(c.hist) /\ c.rev \in Nat
  BY DEF HeadFits
<1>6. x.fact.result # "suspended"
  BY <1>1, <1>2
<1> QED
  BY <1>2, <1>3, <1>4, <1>5, <1>6, ControlJudged

LEMMA SuspendJudged ==
    ASSUME NEW c, HeadFits(c), c.rev >= 0, NEW x, MaySuspend(c, x)
    PROVE  BoundaryOK(Reduce(c, x)) /\ Verified(c, Reduce(c, x))
<1>0. HistoryFits(c.hist) /\ c.rev \in Nat /\ OwnedPending(c.st)
  BY DEF HeadFits
<1>1. CASE IsActive(c.st) /\ \E why \in {"pause", "approval"} : x = SuspendAt(c.st, why)
  <2>1. PICK why \in {"pause", "approval"} : x = SuspendAt(c.st, why)
    BY <1>1
  <2>2. /\ x.fact.kind = "control" /\ x.fact.result = "suspended" /\ x.fact.why = why
        /\ x.st = Suspended(c.st, why)
    BY <2>1 DEF SuspendAt, Change, Fact
  <2>3. /\ x.append = <<>> /\ x.replace = <<>> /\ x.steps = 0 /\ x.calls = 0 /\ x.tokens = 0
    BY <2>1, SuspendShape
  <2>4. x.st.kind = "suspended" /\ x.st.why = why
    <3>1. why \in Lifecycle!Reasons
      BY Vocabulary
    <3> QED
      BY <1>0, <2>2, <3>1, SuspendedFits
  <2> QED
    BY <1>0, <1>1, <2>2, <2>3, <2>4, ControlJudged
<1>2. CASE /\ c.st.kind = "suspended"
           /\ \E messages \in {<<>>, <<UserMessage>>} : x = Resumed(c, messages)
  <2>1. PICK messages \in {<<>>, <<UserMessage>>} : x = Resumed(c, messages)
    BY <1>2
  <2> DEFINE n == Reduce(c, x)
  <2>2. /\ x.fact.kind = "resumed" /\ x.fact.n = Len(messages)
        /\ x.st = ResumeTo(c.st) /\ x.append = messages /\ x.replace = <<>>
        /\ x.steps = 0 /\ x.calls = 0 /\ x.tokens = 0
    BY <2>1 DEF Resumed, Change, Fact
  <2>3. n.fact = x.fact /\ n.st = x.st /\ n.rev = c.rev + 1
    BY DEF Reduce
  <2>4. IsActive(x.st)
    BY <1>0, <2>2, ActiveFits, StateParts DEF ResumeTo, OwnedPending
  <2>5. BoundaryOK(n)
    BY <1>0, <2>2, <2>3, <2>4, BoundaryByKind
  <2>6. LegalStep(View(c), x.fact, View(n))
    BY <1>2, <2>2, ViewFields, LegalByKind
  <2>7. Len(n.hist) = ExpectedCount(View(c), x.fact)
    <3>1. HistoryFits(x.append)
      BY <2>2, NoMessagesFit, MessagesFit
    <3> QED
      <4>1. Len(n.hist) = Len(c.hist) + Len(messages)
        BY <1>0, <2>2, <3>1, HistoryGrows
      <4>2. ExpectedCount(View(c), x.fact) = View(c).count + x.fact.n
        BY <2>2, CountByKind
      <4> QED
        BY <2>2, <4>1, <4>2, ViewFields
  <2>8. x.st = ExpectedState(View(c), x.fact, View(n))
    <3>1. ExpectedState(View(c), x.fact, View(n)) = ResumeTo(View(c).st)
      BY <2>2, StateByKind, Zenon
    <3> QED
      BY <2>2, <3>1, ViewFields
  <2>9. Verified(c, n)
    BY <2>2, <2>6, <2>7, <2>8, VerifiedIf
  <2> QED
    BY <2>5, <2>9
<1> QED
  BY <1>1, <1>2 DEF MaySuspend

LEMMA EditJudged ==
    ASSUME NEW c, HeadFits(c), c.rev >= 0, NEW x, MayEdit(c, x)
    PROVE  BoundaryOK(Reduce(c, x)) /\ Verified(c, Reduce(c, x))
<1> DEFINE n == Reduce(c, x)
<1>1. HistoryFits(c.hist) /\ c.rev \in Nat /\ IsPlanning(c.st)
  BY DEF HeadFits, MayEdit, Interruptible
<1>2. n.fact = x.fact /\ n.st = x.st /\ n.rev = c.rev + 1
  BY DEF Reduce
<1>3. /\ x.steps = 0 /\ x.calls = 0 /\ x.tokens = 0 /\ x.st = Active(<<>>, FALSE)
  BY EditShape
<1>4. Interruptible(x.st)
  BY <1>3, FreshFits DEF Interruptible, IsPlanning
<1>5. CASE \E i : x = Insert(i)
  <2>1. PICK i : x = Insert(i)
    BY <1>5
  <2>2. /\ x.fact.kind = "conversation_insert" /\ x.append = <<External(i)>>
        /\ x.replace = <<>>
    BY <2>1 DEF Insert, Change, Fact
  <2>3. MessageFits(External(i)) /\ External(i).role = "external"
    <3>1. External(i).calls = <<>> /\ <<>> \in Seq(Nat) /\ External(i).role = "external"
      BY DEF External, Message
    <3> QED
      BY <3>1 DEF MessageFits
  <2>4. Len(n.hist) = Len(c.hist) + 1 /\ Last(n.hist) = External(i)
    BY <1>1, <2>2, <2>3, OneGrows
  <2>5. BoundaryOK(n)
    BY <1>1, <1>2, <1>4, <2>2, <2>3, <2>4, BoundaryByKind
  <2>6. LegalStep(View(c), x.fact, View(n))
    BY <1>1, <2>2, ViewFields, LegalByKind
  <2>7. Len(n.hist) = ExpectedCount(View(c), x.fact)
    BY <2>2, <2>4, CountByKind, ViewFields
  <2>8. x.st = ExpectedState(View(c), x.fact, View(n))
    BY <1>3, <2>2, StateByKind
  <2>9. Verified(c, n)
    BY <1>3, <2>2, <2>6, <2>7, <2>8, VerifiedIf
  <2> QED
    BY <2>5, <2>9
<1>6. CASE \E messages : messages # <<>> /\ x = Rewrite(c, messages)
  <2>1. PICK messages : messages # <<>> /\ x = Rewrite(c, messages)
    BY <1>6
  <2>2. /\ x.fact.kind = "history_rewrite" /\ x.fact.n = Len(c.hist)
        /\ x.fact.m = Len(messages) /\ x.replace = messages
    BY <2>1 DEF Rewrite, Change, Fact
  <2>3. n.hist = messages
    BY <2>1, <2>2, ReduceShape
  <2>4. BoundaryOK(n)
    BY <1>1, <1>2, <1>4, <2>2, <2>3, BoundaryByKind
  <2>5. LegalStep(View(c), x.fact, View(n))
    BY <1>1, <2>2, ViewFields, LegalByKind
  <2>6. Len(n.hist) = ExpectedCount(View(c), x.fact)
    BY <2>2, <2>3, CountByKind
  <2>7. x.st = ExpectedState(View(c), x.fact, View(n))
    BY <1>3, <2>2, StateByKind
  <2>8. Verified(c, n)
    BY <1>3, <2>2, <2>5, <2>6, <2>7, VerifiedIf
  <2> QED
    BY <2>4, <2>8
<1> QED
  BY <1>5, <1>6 DEF MayEdit

(* A turn's fact says which of four states it led to. *)
LEMMA TurnOutcome ==
    ASSUME NEW c, NEW response, NEW x, TurnOf(c, response, x)
    PROVE  \/ /\ x.st = Terminal("limited", "max_total_tokens")
              /\ x.fact.result = "limited" /\ x.fact.why = "max_total_tokens"
           \/ /\ x.st = Active(response.calls, response.ptp)
              /\ x.fact.result = x.st.kind /\ x.fact.ptp = x.st.ptp
           \/ /\ x.st = Terminal("completed", "none")
              /\ x.fact.result = "completed" /\ x.fact.why = "none"
           \/ /\ x.st = Active(<<>>, FALSE)
              /\ x.fact.result = "planning" /\ x.fact.ptp = x.st.ptp
<1> DEFINE st   == TurnState(c, response)
           turn == ModelTurn(c, response, MaxTokens)
<1>1. /\ turn.st = st
      /\ turn.fact.result = st.kind /\ turn.fact.ptp = st.ptp /\ turn.fact.why = st.why
  BY DEF ModelTurn, Change, Fact, TurnState
<1>2. \/ st = Terminal("limited", "max_total_tokens")
      \/ st = Active(response.calls, response.ptp)
      \/ st = Terminal("completed", "none")
  BY DEF TurnState
<1>3. /\ Terminal("limited", "max_total_tokens").kind = "limited"
      /\ Terminal("limited", "max_total_tokens").why = "max_total_tokens"
      /\ Terminal("completed", "none").kind = "completed"
      /\ Terminal("completed", "none").why = "none"
  BY DEF Terminal
<1>4. CASE x = turn
  <2> HIDE DEF st, turn
  <2>1. CASE st = Terminal("limited", "max_total_tokens")
    BY <1>1, <1>3, <1>4, <2>1, Zenon
  <2>2. CASE st = Active(response.calls, response.ptp)
    BY <1>1, <1>4, <2>2, Zenon
  <2>3. CASE st = Terminal("completed", "none")
    BY <1>1, <1>3, <1>4, <2>3, Zenon
  <2> QED
    BY <1>2, <2>1, <2>2, <2>3
<1>5. CASE x = KeepActive(turn)
  <2>1. CASE st.kind = "completed"
    <3>1. x.st = Active(<<>>, FALSE) /\ x.fact.result = "planning" /\ x.fact.ptp = st.ptp
      <4>1. x = [turn EXCEPT !.st = Active(<<>>, FALSE), !.fact.result = "planning"]
        BY <1>1, <1>5, <2>1 DEF KeepActive
      <4>2. x.st = Active(<<>>, FALSE)
        BY <4>1 DEF ModelTurn, Change
      <4>3. x.fact = [turn.fact EXCEPT !.result = "planning"]
        BY <4>1 DEF ModelTurn, Change
      <4>4. x.fact.result = "planning"
        BY <4>3 DEF ModelTurn, Change, Fact
      <4>5. x.fact.ptp = turn.fact.ptp
        BY <4>3 DEF ModelTurn, Change, Fact
      <4> QED
        BY <1>1, <4>2, <4>4, <4>5, Zenon
    <3>2. st = Terminal("completed", "none")
      BY <2>1 DEF TurnState, Active, Terminal
    <3>3. st.ptp = FALSE
      <4>1. Terminal("completed", "none").ptp = FALSE
        BY TerminalFits, Vocabulary
      <4> QED
        BY <3>2, <4>1, Zenon
    <3>4. Active(<<>>, FALSE).ptp = FALSE
      BY FreshFits DEF Active
    <3>5. x.fact.ptp = x.st.ptp
      BY <3>1, <3>3, <3>4, Zenon
    <3> QED
      BY <3>1, <3>5
  <2>2. CASE st.kind # "completed"
    <3>1. x = turn
      BY <1>1, <1>5, <2>2 DEF KeepActive
    <3> QED
      BY <1>4, <3>1
  <2> QED
    BY <2>1, <2>2
<1> QED
  BY <1>4, <1>5 DEF TurnOf

LEMMA TurnJudged ==
    ASSUME NEW c, HeadFits(c), c.rev >= 0, IsPlanning(c.st), NEW response \in Turns,
           NEW x, TurnOf(c, response, x)
    PROVE  BoundaryOK(Reduce(c, x)) /\ Verified(c, Reduce(c, x))
<1> DEFINE n   == Reduce(c, x)
           msg == Assistant(response.calls)
<1>1. HistoryFits(c.hist) /\ c.rev \in Nat
  BY DEF HeadFits
<1>2. n.fact = x.fact /\ n.st = x.st /\ n.rev = c.rev + 1
  BY DEF Reduce
<1>3. response.calls \in Seq(Nat) /\ response.ptp \in BOOLEAN
  BY DEF Turns
<1>4. msg.role = "assistant" /\ msg.calls = response.calls
  BY DEF Assistant, Message
<1>5. MessageFits(msg)
  BY <1>3, <1>4 DEF MessageFits
<1>6. /\ x.append = <<msg>> /\ x.replace = <<>>
      /\ x.steps = 1 /\ x.calls = 0 /\ x.tokens = response.tokens
      /\ x.fact.kind = "model_turn" /\ x.fact.calls = response.calls
      /\ x.fact.n = response.tokens
  BY TurnFields
<1> HIDE DEF msg
<1>7. Len(n.hist) = Len(c.hist) + 1 /\ Last(n.hist) = msg
  BY <1>1, <1>5, <1>6, OneGrows
<1>8. LegalStep(View(c), x.fact, View(n))
  BY <1>6, ViewFields, LegalByKind
<1>9. Len(n.hist) = ExpectedCount(View(c), x.fact)
  <2>1. ExpectedCount(View(c), x.fact) = View(c).count + 1
    BY <1>6, CountByKind
  <2> QED
    BY <1>7, <2>1, ViewFields
<1>10. ASSUME n.st.kind = n.fact.result,
              n.fact.result \in ActiveKinds => n.st.ptp = n.fact.ptp,
              n.fact.result = "tools_pending" => n.st.pending = n.fact.calls,
              n.fact.result = "limited" => n.st.why = n.fact.why,
              n.fact.result \in {"planning", "tools_pending", "completed", "limited"},
              x.st = ExpectedState(View(c), x.fact, View(n))
       PROVE  BoundaryOK(n) /\ Verified(c, n)
  <2>1. ModelBoundary(n)
    BY <1>2, <1>4, <1>6, <1>7, <1>10 DEF ModelBoundary, ActiveKinds
  <2>2. BoundaryOK(n)
    BY <1>1, <1>2, <1>6, <2>1, BoundaryByKind
  <2>3. Verified(c, n)
    BY <1>6, <1>8, <1>9, <1>10, VerifiedIf
  <2> QED
    BY <2>2, <2>3
<1> HIDE DEF n
<1>11. ASSUME NEW k \in {"limited", "completed"}, NEW why, x.st = Terminal(k, why),
              x.fact.result = k, x.fact.why = why
       PROVE  BoundaryOK(n) /\ Verified(c, n)
  <2>1. x.st.kind = k /\ x.st.why = why
    BY <1>11 DEF Terminal
  <2>2. k \notin ActiveKinds
    BY DEF ActiveKinds
  <2>3. ExpectedState(View(c), x.fact, View(n)) = Terminal(k, why)
    BY <1>6, <1>11, <2>2 DEF ExpectedState
  <2> QED
    BY <1>2, <1>10, <1>11, <2>1, <2>2, <2>3
<1>12. ASSUME NEW pending \in Seq(Nat), NEW ptp \in BOOLEAN, x.st = Active(pending, ptp),
              pending # <<>> => pending = response.calls,
              x.fact.result = x.st.kind, x.fact.ptp = x.st.ptp
       PROVE  BoundaryOK(n) /\ Verified(c, n)
  <2>1. /\ x.st.kind = IF pending = <<>> THEN "planning" ELSE "tools_pending"
        /\ x.st.pending = pending
    BY <1>12 DEF Active
  <2>2. x.st.ptp = ptp
    BY <1>12, ActiveFits
  <2>3. x.st = ExpectedState(View(c), x.fact, View(n))
    <3>1. CASE pending = <<>>
      <4>1. x.fact.result = "planning"
        BY <1>12, <2>1, <3>1
      <4>2. ExpectedState(View(c), x.fact, View(n)) = Active(<<>>, x.fact.ptp)
        BY <1>6, <4>1 DEF ExpectedState, ActiveKinds
      <4> QED
        BY <1>12, <2>2, <3>1, <4>2, Zenon
    <3>2. CASE pending # <<>>
      <4>1. x.fact.result = "tools_pending"
        BY <1>12, <2>1, <3>2
      <4>2. ExpectedState(View(c), x.fact, View(n)) = Active(x.fact.calls, x.fact.ptp)
        BY <1>6, <4>1 DEF ExpectedState, ActiveKinds
      <4> QED
        BY <1>6, <1>12, <2>2, <3>2, <4>2, Zenon
    <3> QED
      BY <3>1, <3>2
  <2>4. x.st.kind \in ActiveKinds /\ (x.st.kind = "tools_pending" => pending = response.calls)
    BY <1>12, <2>1 DEF ActiveKinds
  <2> QED
    BY <1>2, <1>6, <1>10, <1>12, <2>1, <2>3, <2>4 DEF ActiveKinds
<1>13. <<>> \in Seq(Nat) /\ FALSE \in BOOLEAN
  OBVIOUS
<1>14. BoundaryOK(n) /\ Verified(c, n)
  <2>1. CASE /\ x.st = Terminal("limited", "max_total_tokens")
             /\ x.fact.result = "limited" /\ x.fact.why = "max_total_tokens"
    BY <1>11, <2>1
  <2>2. CASE /\ x.st = Active(response.calls, response.ptp)
             /\ x.fact.result = x.st.kind /\ x.fact.ptp = x.st.ptp
    BY <1>3, <1>12, <2>2, Zenon
  <2>3. CASE /\ x.st = Terminal("completed", "none")
             /\ x.fact.result = "completed" /\ x.fact.why = "none"
    BY <1>11, <2>3
  <2>4. CASE /\ x.st = Active(<<>>, FALSE)
             /\ x.fact.result = "planning" /\ x.fact.ptp = x.st.ptp
    <3>1. x.fact.result = x.st.kind
      BY <2>4 DEF Active
    <3> QED
      BY <1>12, <1>13, <2>4, <3>1, Zenon
  <2> QED
    BY <2>1, <2>2, <2>3, <2>4, TurnOutcome, Zenon
<1> QED
  BY <1>14 DEF n

LEMMA SplitsInTwo ==
    ASSUME NEW p \in Seq(Nat), NEW k \in Nat, k <= Len(p)
    PROVE  /\ SubSeq(p, 1, k) \in Seq(Nat) /\ Len(SubSeq(p, 1, k)) = k
           /\ p = SubSeq(p, 1, k) \o SubSeq(p, k + 1, Len(p))
<1>1. SubSeq(p, 1, k) \in Seq(Nat) /\ Len(SubSeq(p, 1, k)) = k /\ Len(p) \in Nat
  OBVIOUS
<1>2. SubSeq(p, 1, Len(p)) = p
  BY SubSeqFull
<1>3. SubSeq(p, 1, k) \o SubSeq(p, k + 1, Len(p)) = SubSeq(p, 1, Len(p))
  <2>1. 1 \in 1..Len(p) + 1 /\ k \in 1 - 1..Len(p) /\ Len(p) \in k..Len(p)
    BY <1>1
  <2> QED
    BY <2>1, ConcatAdjacentSubSeq
<1> QED
  BY <1>1, <1>2, <1>3, Zenon

LEMMA BatchBoundary ==
    ASSUME NEW c, HistoryFits(c.hist), NEW x, NEW calls \in Seq(Nat), NEW why,
           HistoryFits(x.append), Len(x.append) = Len(calls), x.replace = <<>>,
           \A i \in 1..Len(calls) : x.append[i].role = "tool" /\ x.append[i].ref = calls[i],
           x.fact.calls = calls, x.fact.why = why,
           IF why = "none" THEN IsActive(x.st)
           ELSE x.st.kind = "suspended" /\ x.st.why = why
    PROVE  /\ ToolBoundary(Reduce(c, x))
           /\ Len(Reduce(c, x).hist) = Len(c.hist) + Len(calls)
<1> DEFINE n == Reduce(c, x)
           k == Len(calls)
           h == n.hist
<1>1. n.fact = x.fact /\ n.st = x.st
  BY DEF Reduce
<1>2. k \in Nat
  OBVIOUS
<1>3. /\ Len(c.hist) \in Nat /\ Len(h) = Len(c.hist) + k /\ HistoryFits(h)
      /\ \A i \in 1..k : h[Len(c.hist) + i].role = "tool" /\ h[Len(c.hist) + i].ref = calls[i]
  <2>1. PICK M : c.hist \in Seq(M)
    BY DEF HistoryFits
  <2>2. PICK N : x.append \in Seq(N)
    BY DEF HistoryFits
  <2> DEFINE a == c.hist
             b == x.append
             S == M \cup N
  <2>3. a \in Seq(S) /\ b \in Seq(S) /\ Len(b) = k
    BY <2>1, <2>2
  <2>4. h = a \o b
    BY ReduceShape
  <2>5. HistoryFits(h)
    BY <2>4, ConcatFits
  <2>6. \A i \in 1..k : b[i].role = "tool" /\ b[i].ref = calls[i]
    OBVIOUS
  <2> HIDE DEF a, b, S, h, k
  <2>7. /\ Len(a) \in Nat /\ Len(h) = Len(a) + k
        /\ \A i \in 1..k : h[Len(a) + i] = b[i]
    <3>1. /\ Len(a) \in Nat /\ Len(b) \in Nat /\ Len(a \o b) = Len(a) + Len(b)
          /\ \A i \in 1..Len(b) : (a \o b)[Len(a) + i] = b[i]
      <4>1. a \in Seq(S) /\ b \in Seq(S)
        BY <2>3
      <4> QED
        BY <4>1, ConcatIndex
    <3> QED
      BY <2>3, <2>4, <3>1, Zenon
  <2>8. \A i \in 1..k : h[Len(a) + i].role = "tool" /\ h[Len(a) + i].ref = calls[i]
    BY <2>6, <2>7
  <2> QED
    BY <2>5, <2>7, <2>8 DEF a
<1> DEFINE tail == SubSeq(h, Len(h) - Len(n.fact.calls) + 1, Len(h))
<1> HIDE DEF h, k
<1>6. DOMAIN tail = 1..k /\ \A i \in 1..k : tail[i] = h[Len(c.hist) + i]
  <2>1. Len(n.fact.calls) = k
    BY <1>1 DEF k
  <2>2. PICK M : h \in Seq(M)
    BY <1>3 DEF HistoryFits
  <2>3. \A i \in (Len(c.hist) + 1)..Len(h) : h[i] \in M
    BY <1>3, <2>2
  <2>4. Len(h) - Len(n.fact.calls) + 1 = Len(c.hist) + 1 /\ Len(c.hist) + 1 \in Int
        /\ Len(h) \in Int /\ Len(h) - (Len(c.hist) + 1) + 1 = k
    BY <1>2, <1>3, <2>1
  <2>5. /\ tail \in Seq(M)
        /\ Len(tail) = IF Len(c.hist) + 1 <= Len(h) THEN Len(h) - (Len(c.hist) + 1) + 1 ELSE 0
        /\ \A i \in 1..k : tail[i] = h[Len(c.hist) + 1 + i - 1]
    <3> DEFINE m == Len(c.hist) + 1
               l == Len(h)
               t == SubSeq(h, m, l)
    <3>1. tail = t
      BY <2>4, Zenon
    <3>2. m \in Int /\ l \in Int /\ l - m + 1 = k /\ \A i \in m..l : h[i] \in M
      BY <2>3, <2>4
    <3> HIDE DEF m, l, tail
    <3>3. /\ t \in Seq(M) /\ Len(t) = (IF m <= l THEN l - m + 1 ELSE 0)
          /\ \A i \in 1..(l - m + 1) : t[i] = h[m + i - 1]
      BY <3>2, SubSeqProperties
    <3>4. /\ t \in Seq(M) /\ Len(t) = (IF m <= l THEN l - m + 1 ELSE 0)
          /\ \A i \in 1..k : t[i] = h[m + i - 1]
      BY <3>2, <3>3
    <3> QED
      BY <3>1, <3>4 DEF m, l
  <2>6. \A i \in 1..k : Len(c.hist) + 1 + i - 1 = Len(c.hist) + i
    BY <1>3
  <2> HIDE DEF tail
  <2>7. Len(tail) = k
    BY <1>2, <1>3, <2>5
  <2> QED
    BY <2>5, <2>6, <2>7
<1> HIDE DEF tail
<1>7. \A i \in DOMAIN tail : tail[i].role = "tool" /\ tail[i].ref = n.fact.calls[i]
  BY <1>1, <1>3, <1>6
<1>8. Len(n.fact.calls) <= Len(h)
  BY <1>1, <1>2, <1>3 DEF k
<1>9. IF n.fact.why = "none" THEN IsActive(n.st)
      ELSE n.st.kind = "suspended" /\ n.st.why = n.fact.why
  BY <1>1
<1> HIDE DEF n
<1>10. ToolBoundary(n)
  BY <1>7, <1>8, <1>9 DEF ToolBoundary, tail, h
<1> QED
  BY <1>3, <1>10 DEF n, h, k

LEMMA BatchJudged ==
    ASSUME NEW c, HeadFits(c), c.rev >= 0, NEW x, MayBatch(c, x)
    PROVE  BoundaryOK(Reduce(c, x)) /\ Verified(c, Reduce(c, x))
<1>1. PICK k \in BatchSizes(c), why \in {"none", "waiting", "pause"} :
         x = BatchOutcome(c, k, why)
  BY DEF MayBatch
<1> DEFINE p     == c.st.pending
           rest  == SubSeq(p, k + 1, Len(p))
           calls == SubSeq(p, 1, k)
           next  == Active(rest, c.st.ptp)
           n     == Reduce(c, x)
<1>2. /\ HistoryFits(c.hist) /\ c.rev \in Nat /\ p \in Seq(Nat) /\ c.st.ptp \in BOOLEAN
      /\ c.st.kind = "tools_pending" /\ k \in Nat /\ k <= Len(p)
  BY StateParts DEF HeadFits, OwnedPending, MayBatch, BatchSizes
<1>3. /\ x.append = [i \in 1..k |-> ToolMessage(calls[i])] /\ x.replace = <<>>
      /\ x.st = IF why = "none" THEN next ELSE Suspended(next, why)
      /\ x.steps = 0 /\ x.calls = k /\ x.tokens = 0
  <2>1. x.append = [i \in 1..k |-> ToolMessage(calls[i])] /\ x.replace = <<>>
    BY <1>1 DEF BatchOutcome, Change, Fact
  <2>2. x.st = IF why = "none" THEN next ELSE Suspended(next, why)
    BY <1>1 DEF BatchOutcome, Change, Fact
  <2>3. x.steps = 0 /\ x.calls = k /\ x.tokens = 0
    BY <1>1 DEF BatchOutcome, Change, Fact
  <2> QED
    BY <2>1, <2>2, <2>3, Zenon
<1>4. x.fact.kind = "tool_batch" /\ x.fact.calls = calls /\ x.fact.why = why
  BY <1>1 DEF BatchOutcome, Change, Fact
<1>5. calls \in Seq(Nat) /\ Len(calls) = k /\ p = calls \o rest /\ rest \in Seq(Nat)
  <2> HIDE DEF p
  <2>1. rest \in Seq(Nat)
    BY <1>2
  <2> QED
    BY <1>2, <2>1, SplitsInTwo, Zenon
<1> HIDE DEF calls, rest, p
<1>6. OwnedPending(next) /\ IsActive(next) /\ next.pending = rest
  BY <1>2, <1>5, ActiveFits
<1>7. IF why = "none" THEN IsActive(x.st) ELSE x.st.kind = "suspended" /\ x.st.why = why
  <2>1. why \in Lifecycle!Reasons
    BY Vocabulary
  <2>2. Suspended(next, why).kind = "suspended" /\ Suspended(next, why).why = why
    BY <1>6, <2>1, SuspendedFits
  <2> QED
    BY <1>3, <1>6, <2>2
<1>8. x.st.pending = rest
  <2>1. why \in Lifecycle!Reasons
    BY Vocabulary
  <2>2. Suspended(next, why).pending = next.pending
    BY <1>6, <2>1, SuspendedFits
  <2> QED
    BY <1>3, <1>6, <2>2
<1> HIDE DEF next
<1>9. ToolBoundary(n) /\ Len(n.hist) = Len(c.hist) + k
  <2>1. /\ HistoryFits(x.append) /\ Len(x.append) = Len(calls)
        /\ \A i \in 1..Len(calls) : x.append[i].role = "tool" /\ x.append[i].ref = calls[i]
    <3>1. HistoryFits(x.append)
      BY <1>2, <1>3, AnswersFit
    <3>2. Len(x.append) = Len(calls)
      BY <1>2, <1>3, <1>5
    <3>3. \A i \in 1..Len(calls) : x.append[i].role = "tool" /\ x.append[i].ref = calls[i]
      BY <1>3, <1>5 DEF ToolMessage, Message
    <3> QED
      BY <3>1, <3>2, <3>3
  <2>2. /\ calls \in Seq(Nat) /\ HistoryFits(c.hist) /\ x.replace = <<>>
        /\ x.fact.calls = calls /\ x.fact.why = why
    BY <1>2, <1>3, <1>4, <1>5
  <2>3. ToolBoundary(n) /\ Len(n.hist) = Len(c.hist) + Len(calls)
    BY <1>7, <2>1, <2>2, BatchBoundary, Zenon
  <2> QED
    BY <1>5, <2>3
<1>10. n.fact = x.fact /\ n.st = x.st /\ n.rev = c.rev + 1
  BY DEF Reduce
<1>11. BoundaryOK(n)
  BY <1>2, <1>4, <1>9, <1>10, BoundaryByKind
<1>12. LegalStep(View(c), x.fact, View(n))
  <2>1. View(c).st = c.st /\ View(n).st = n.st
    BY ViewFields
  <2>2. c.st.pending = x.fact.calls \o n.st.pending
    BY <1>4, <1>5, <1>8, <1>10 DEF p
  <2> QED
    BY <1>2, <1>4, <2>1, <2>2, LegalByKind
<1>13. Len(n.hist) = ExpectedCount(View(c), x.fact)
  <2>1. ExpectedCount(View(c), x.fact) = View(c).count + Len(x.fact.calls)
    BY <1>4, CountByKind
  <2> QED
    BY <1>4, <1>5, <1>9, <2>1, ViewFields
<1>14. x.st = ExpectedState(View(c), x.fact, View(n))
  <2>1. ExpectedState(View(c), x.fact, View(n)) = BatchState(View(c), x.fact, View(n))
    BY <1>4, StateByKind, Zenon
  <2>2. View(n).st.pending = rest /\ View(c).st.ptp = c.st.ptp
    BY <1>8, <1>10, ViewFields
  <2>3. BatchState(View(c), x.fact, View(n)) =
          IF x.fact.why = "none" THEN Active(rest, c.st.ptp)
          ELSE Suspended(Active(rest, c.st.ptp), x.fact.why)
    BY <2>2, Zenon DEF BatchState
  <2> QED
    BY <1>3, <1>4, <2>1, <2>3, Zenon DEF next
<1>15. Verified(c, n)
  BY <1>3, <1>4, <1>5, <1>12, <1>13, <1>14, VerifiedIf
<1> QED
  BY <1>11, <1>15

LEMMA StartJudged ==
    ASSUME NEW c, c = NoCheckpoint
    PROVE  Accepted(c, Started) /\ Verified(c, Reduce(c, Started))
<1> DEFINE x == Started
           n == Reduce(c, x)
<1>1. /\ c.rev = -1 /\ c.hist = <<>> /\ c.st = Active(<<>>, FALSE)
  BY DEF NoCheckpoint
<1>2. /\ x.fact.kind = "started" /\ x.fact.n = 1 /\ x.append = <<UserMessage>>
      /\ x.replace = <<>> /\ x.steps = 0 /\ x.calls = 0 /\ x.tokens = 0
      /\ x.st = Active(<<>>, FALSE)
  BY DEF Started, Change, Fact
<1>3. x.st.pending = <<>> /\ c.st.pending = <<>> /\ IsPlanning(x.st)
  BY <1>1, <1>2, FreshFits DEF IsPlanning
<1>4. UserMessage.role # "tool" /\ UserMessage.calls = <<>>
  BY DEF UserMessage, Message
<1>5. MessageFits(UserMessage) /\ HistoryFits(c.hist)
  <2>1. <<>> \in Seq(Nat)
    OBVIOUS
  <2> QED
    BY <1>1, <1>4, <2>1, NoMessagesFit DEF MessageFits
<1>6. n.fact = x.fact /\ n.st = x.st /\ n.rev = 0
  BY <1>1 DEF Reduce
<1>7. LinksTo(c, x)
  <2>1. Extend(Retained(c), <<UserMessage>>).ok /\ Extend(Retained(c), <<UserMessage>>).pending = <<>>
    BY <1>3, <1>4, PlainAppended
  <2> QED
    BY <1>2, <1>3, <2>1, ResolvesOwn, LinksByAppending
<1>8. Len(n.hist) = 1
  <2>1. Len(c.hist) = 0
    BY <1>1
  <2>2. Len(n.hist) = Len(c.hist) + 1
    BY <1>2, <1>5, OneGrows
  <2> QED
    BY <2>1, <2>2
<1> HIDE DEF x
<1>9. BoundaryOK(n)
  BY <1>2, <1>3, <1>6, <1>8 DEF BoundaryOK
<1>10. LegalStep(View(c), x.fact, View(n))
  BY <1>1, <1>2, ViewFields, LegalByKind
<1>11. Len(n.hist) = ExpectedCount(View(c), x.fact)
  <2>1. ExpectedCount(View(c), x.fact) = View(c).count + x.fact.n
    BY <1>2, CountByKind
  <2>2. View(c).count = 0
    BY <1>1, ViewFields
  <2> QED
    BY <1>2, <1>8, <2>1, <2>2
<1>12. x.st = ExpectedState(View(c), x.fact, View(n))
  BY <1>2, StateByKind
<1>13. Verified(c, n)
  BY <1>2, <1>10, <1>11, <1>12, VerifiedIf
<1> QED
  BY <1>7, <1>9, <1>13 DEF Accepted, x

(* Whatever may be proposed is verified once written, and is accepted      *)
(* before that unless a model's answer uses a call id of the history.      *)
LEMMA ProposalJudged ==
    ASSUME NEW c, HeadFits(c), NEW x, MayPropose(c, x)
    PROVE  BoundaryOK(Reduce(c, x)) /\ Verified(c, Reduce(c, x))
<1>1. CASE c.rev = -1 /\ x = Started
  <2>1. c = NoCheckpoint
    BY <1>1 DEF HeadFits
  <2> QED
    BY <1>1, <2>1, StartJudged DEF Accepted
<1>2. CASE c.rev >= 0 /\ MayStop(c, x)
  BY <1>2, StopJudged
<1>3. CASE c.rev >= 0 /\ MaySuspend(c, x)
  BY <1>3, SuspendJudged
<1>4. CASE c.rev >= 0 /\ MayEdit(c, x)
  BY <1>4, EditJudged
<1>5. CASE c.rev >= 0 /\ MayTurn(c, x)
  <2>1. PICK response \in Turns : TurnOf(c, response, x)
    BY <1>5 DEF MayTurn, TurnOf
  <2>2. IsPlanning(c.st)
    BY <1>5 DEF MayTurn
  <2> QED
    BY <1>5, <2>1, <2>2, TurnJudged
<1>6. CASE c.rev >= 0 /\ MayBatch(c, x)
  BY <1>6, BatchJudged
<1> QED
  BY <1>1, <1>2, <1>3, <1>4, <1>5, <1>6 DEF MayPropose

LEMMA OnlyReuseRefused ==
    ASSUME NEW c, HeadFits(c), NEW x, MayPropose(c, x), ~Accepted(c, x)
    PROVE  x.fact.kind = "model_turn" /\ ToSet(x.fact.calls) \cap CallIds(c.hist) # {}
<1>1. ~LinksTo(c, x)
  BY ProposalJudged DEF Accepted
<1>2. CASE c.rev = -1 /\ x = Started
  <2>1. c = NoCheckpoint
    BY <1>2 DEF HeadFits
  <2> QED
    BY <1>2, <2>1, StartJudged
<1>3. CASE MayStop(c, x) \/ MaySuspend(c, x) \/ MayEdit(c, x) \/ MayBatch(c, x)
  BY <1>1, <1>3, StopLinks, SuspendLinks, EditLinks, BatchLinks
<1>4. CASE MayTurn(c, x)
  <2>1. PICK response \in Turns : TurnOf(c, response, x)
    BY <1>4 DEF MayTurn, TurnOf
  <2>2. IsPlanning(c.st)
    BY <1>4 DEF MayTurn
  <2>3. ToSet(response.calls) \cap CallIds(c.hist) # {}
    BY <1>1, <2>1, <2>2, TurnLinks
  <2>4. x.fact.kind = "model_turn" /\ x.fact.calls = response.calls
    BY <2>1, TurnFields
  <2> QED
    BY <2>3, <2>4
<1> QED
  BY <1>2, <1>3, <1>4 DEF MayPropose

(* A terminal checkpoint is the end: nothing is proposed from it. *)
LEMMA TerminalIsFinal ==
    ASSUME NEW c, HeadFits(c), NEW x, MayPropose(c, x)
    PROVE  c.st.kind \notin TerminalKinds
<1>1. CASE c.rev = -1
  <2>0. c = NoCheckpoint
    BY <1>1 DEF HeadFits
  <2>1. c.st = Active(<<>>, FALSE)
    BY <2>0 DEF NoCheckpoint
  <2>2. c.st.kind = "planning"
    BY <2>1, FreshFits
  <2> QED
    BY <2>2 DEF TerminalKinds
<1>2. CASE c.rev # -1
  BY <1>2 DEF MayPropose, MayStop, MaySuspend, MayEdit, MayTurn, MayBatch, Interruptible,
              IsPlanning, IsActive, ActiveKinds, TerminalKinds
<1> QED
  BY <1>1, <1>2

(* An accepted edit leaves a history that, read from nothing, passes: what *)
(* the snapshot retained is what reading its history finds.                *)
LEMMA StillLinked ==
    ASSUME NEW c, HeadFits(c), NEW x, MayPropose(c, x), Accepted(c, x)
    PROVE  ValidHistory(Reduce(c, x).hist, x.st)
<1>1. HistoryFits(c.hist) /\ HistoryFits(x.append) /\ LinksTo(c, x)
  BY MessagesOfChangeFit DEF HeadFits, Accepted
<1>2. Reduce(c, x).hist = IF x.replace # <<>> THEN x.replace ELSE c.hist \o x.append
  BY ReduceShape
<1>3. CASE x.replace # <<>>
  BY <1>1, <1>2, <1>3 DEF LinksTo
<1>4. CASE x.replace = <<>>
  <2>1. c.st.kind \notin {"failed", "limited"}
    BY TerminalIsFinal DEF TerminalKinds
  <2>2. Extend(EmptyProof, c.hist) = Retained(c)
    BY <1>1, <2>1, RetainsWhatItRead DEF HeadFits
  <2>3. PICK M : c.hist \in Seq(M)
    BY <1>1 DEF HistoryFits
  <2>4. PICK N : x.append \in Seq(N)
    BY <1>1 DEF HistoryFits
  <2> DEFINE S == M \cup N
             a == c.hist
             b == x.append
  <2>5. a \in Seq(S) /\ b \in Seq(S)
    BY <2>3, <2>4
  <2> HIDE DEF S, a, b
  <2>6. Extend(EmptyProof, a \o b) = Extend(Extend(EmptyProof, a), b)
    BY <2>5, ExtendJoins
  <2>7. Extend(EmptyProof, c.hist \o x.append) = Extend(Retained(c), x.append)
    BY <2>2, <2>6, Zenon DEF a, b
  <2>8. Extend(Retained(c), x.append).ok /\ Resolves(Extend(Retained(c), x.append), x.st)
    BY <1>1, <1>4 DEF LinksTo
  <2>9. Reduce(c, x).hist = c.hist \o x.append
    BY <1>2, <1>4
  <2> QED
    BY <2>7, <2>8, <2>9, Zenon DEF ValidHistory
<1> QED
  BY <1>3, <1>4

(* Any change the engine may propose, once written, is a step of           *)
(* RunLifecycle to a head of the right shape.                              *)
LEMMA ProposalIsStep ==
    ASSUME EngineAssumption, HeadFits(head), NEW x, MayPropose(head, x),
           Accepted(head, x), head' = Reduce(head, x)
    PROVE  Lifecycle!Next /\ HeadFits(head')
<1>1. Lifecycle!Next /\ OwnedPending(x.st)
  BY StartStep, StopStep, SuspendStep, EditStep, TurnStep, BatchStep DEF MayPropose
<1>2. HistoryFits(head'.hist)
  <2>1. HistoryFits(x.append) /\ HistoryFits(x.replace) /\ HistoryFits(head.hist)
    BY MessagesOfChangeFit DEF HeadFits
  <2>2. head'.hist = IF x.replace # <<>> THEN x.replace ELSE head.hist \o x.append
    BY ReduceShape
  <2> QED
    BY <2>1, <2>2, ConcatFits
<1>3. head'.rev \in Nat /\ head'.steps \in Nat /\ head'.calls \in Nat /\ head'.tokens \in Nat
  <2>1. x.steps \in Nat /\ x.calls \in Nat /\ x.tokens \in Nat
    BY CountersFit
  <2>2. /\ head'.rev = head.rev + 1 /\ head'.steps = head.steps + x.steps
        /\ head'.calls = head.calls + x.calls /\ head'.tokens = head.tokens + x.tokens
    BY ReduceShape
  <2> QED
    BY <2>1, <2>2 DEF HeadFits
<1>4. head'.st = x.st
  BY ReduceShape
<1>5. ValidHistory(head'.hist, x.st)
  BY StillLinked
<1>6. HeadFits(head')
  BY <1>1, <1>2, <1>3, <1>4, <1>5 DEF HeadFits
<1> QED
  BY <1>1, <1>6

-----------------------------------------------------------------------------
(* Every step keeps this shape: each action proposes only what its point   *)
(* allows, and the deadline may always take a proposal's place.            *)

Shape == HeadFits(head) /\ PointFits /\ UnderWay /\ OnlyReuseEscapes /\ InlineAtOnce

ActivePoints == Effects \cup {"open", "loop", "plan"}

LEMMA AtActivePoint ==
    ASSUME LifecycleInv, pc \in ActivePoints
    PROVE  /\ head = cp /\ head.rev >= 0 /\ IsActive(head.st)
           /\ head.st.kind \notin TerminalKinds /\ wr = "idle"
<1>1. head.rev >= 0 /\ IsActive(head.st)
  BY DEF LifecycleInv, PointFits, ActivePoints
<1>2. head = cp /\ wr = "idle"
  BY DEF LifecycleInv, Inv, InStep, CommitPhase, ActivePoints, Effects, Interruptibles
<1>3. head.st.kind \notin TerminalKinds
  BY <1>1 DEF IsActive, ActiveKinds, TerminalKinds
<1> QED
  BY <1>1, <1>2, <1>3

LEMMA CommitKeepsShape ==
    ASSUME LifecycleInv, NEW x, Commit(x), head = cp, head.rev >= 0,
           head.st.kind \notin TerminalKinds, MayPropose(head, x), UNCHANGED repo
    PROVE  Shape'
<1>1. UNCHANGED <<head, cp>> /\ chg' \in {x, Limited("deadline")}
  BY DEF Commit, Propose
<1>2. \/ pc' = "commit" /\ wr' = "queued" /\ Accepted(cp, chg')
      \/ pc' = "broken" /\ wr' = "idle" /\ ~Accepted(cp, chg')
  BY DEF Commit, Propose
<1>3. MayPropose(head, Limited("deadline"))
  BY DEF MayPropose, MayStop
<1>4. MayPropose(head', chg') /\ MayPropose(cp, chg')
  BY <1>1, <1>3
<1>5. UnderWay'
  BY <1>1, <1>2, <1>4 DEF UnderWay
<1>6. OnlyReuseEscapes'
  <2>1. HeadFits(cp)
    BY DEF LifecycleInv
  <2>2. ASSUME ~Accepted(cp, chg')
        PROVE  chg'.fact.kind = "model_turn" /\ ToSet(chg'.fact.calls) \cap CallIds(cp.hist) # {}
    BY <1>4, <2>1, <2>2, OnlyReuseRefused
  <2> QED
    BY <1>1, <1>2, <2>2 DEF OnlyReuseEscapes
<1> QED
  BY <1>1, <1>2, <1>5, <1>6 DEF LifecycleInv, Shape, PointFits, InlineAtOnce, Effects,
                                Interruptibles

LEMMA StopKeepsShape ==
    ASSUME LifecycleInv, NEW reason, Stop(reason), UNCHANGED <<head, repo>>
    PROVE  Shape'
BY DEF LifecycleInv, Shape, PointFits, UnderWay, OnlyReuseEscapes, InlineAtOnce, Stop, Discard,
       Effects, Interruptibles

LEMMA StayKeepsShape ==
    ASSUME LifecycleInv, UNCHANGED <<head, cp, pc, wr, chg, repo>>,
           pc \in {"approve", "exec"} => UNCHANGED (batch.n)
    PROVE  Shape'
<1>1. HeadFits(head') /\ UnderWay' /\ OnlyReuseEscapes' /\ InlineAtOnce'
  BY DEF LifecycleInv, UnderWay, OnlyReuseEscapes, InlineAtOnce
<1>2. PointFits'
  BY DEF LifecycleInv, PointFits
<1> QED
  BY <1>1, <1>2 DEF Shape

(* A move between two active points. *)
LEMMA MoveKeepsShape ==
    ASSUME LifecycleInv, pc \in ActivePoints, UNCHANGED <<head, wr, repo>>,
           pc' \in ActivePoints,
           pc' \in {"reduce", "plan", "model"} => IsPlanning(head.st),
           pc' = "reduce" => ~head.st.ptp,
           pc' = "model" => head.steps < MaxSteps,
           pc' \in {"approve", "exec"} =>
               head.st.kind = "tools_pending" /\ batch'.n \in BatchSizes(head)
    PROVE  Shape'
<1>1. head.rev >= 0 /\ IsActive(head.st) /\ pc' # "commit"
  BY AtActivePoint DEF ActivePoints, Effects, Interruptibles
<1>2. PointFits'
  BY <1>1 DEF PointFits
<1> QED
  BY <1>1, <1>2 DEF LifecycleInv, Shape, UnderWay, OnlyReuseEscapes, InlineAtOnce, ActivePoints,
                    Effects, Interruptibles

(* A commit that returned goes on only from an active head. *)
LEMMA ReturnKeepsShape ==
    ASSUME LifecycleInv, Return(head'), HeadFits(head'), head'.rev >= 0, Verified(cp, head'),
           UNCHANGED repo
    PROVE  Shape'
<1>1. \/ pc' = "stopped" /\ wr' = "idle"
      \/ pc' \in {"loop", "open"} /\ wr' = "idle" /\ IsActive(head'.st)
  BY DEF Return, Stop, Discard
<1> QED
  BY <1>1 DEF Shape, PointFits, UnderWay, OnlyReuseEscapes, InlineAtOnce, Effects, Interruptibles

LEMMA InitShape == ASSUME EngineAssumption PROVE Init => LifecycleInv
<1> SUFFICES ASSUME Init PROVE LifecycleInv
  OBVIOUS
<1>1. HeadFits(head)
  <2>1. head = NoCheckpoint
    BY DEF Init
  <2>2. /\ head.rev = -1 /\ head.steps = 0 /\ head.calls = 0 /\ head.tokens = 0
        /\ head.hist = <<>> /\ head.st = Active(<<>>, FALSE)
    BY <2>1 DEF NoCheckpoint
  <2>3. OwnedPending(head.st)
    BY <2>2, FreshFits
  <2>4. head.rev \in Nat \cup {-1} /\ head.steps \in Nat /\ head.calls \in Nat /\ head.tokens \in Nat
    BY <2>2
  <2>5. HistoryFits(head.hist)
    BY <2>2, NoMessagesFit
  <2>6. ValidHistory(head.hist, head.st)
    <3>1. Extend(EmptyProof, <<>>) = EmptyProof /\ EmptyProof.ok /\ EmptyProof.pending = <<>>
      BY ExtendNothing DEF EmptyProof
    <3>2. head.st.pending = <<>>
      BY <2>2, FreshFits
    <3> QED
      BY <2>2, <3>1, <3>2 DEF ValidHistory, Resolves
  <2> QED
    BY <2>1, <2>3, <2>4, <2>5, <2>6 DEF HeadFits
<1>2. PointFits /\ UnderWay /\ OnlyReuseEscapes /\ InlineAtOnce
  BY DEF Init, PointFits, UnderWay, OnlyReuseEscapes, InlineAtOnce, Effects, Interruptibles
<1>3. InputsFit
  <2>1. queue \in Seq(Controls) /\ slot \in Seq(Controls) /\ Len(slot) <= 1
    BY DEF Init
  <2>2. arrived \in 0..MaxControls /\ fresh \in Nat
    BY DEF Init, EngineAssumption
  <2>3. DOMAIN batch = {"n", "pause", "inserts"}
    BY DEF Init, NoBatch
  <2> QED
    BY <2>1, <2>2, <2>3 DEF InputsFit
<1> QED
  BY <1>1, <1>2, <1>3, InitInv DEF LifecycleInv

LEMMA InvocationKeepsShape == LifecycleInv /\ Invocation => Shape'
<1> SUFFICES ASSUME LifecycleInv, Invocation PROVE Shape'
  OBVIOUS
<1>1. HeadFits(head')
  BY DEF LifecycleInv, Invocation, StartRun, ContinueRun, ResumeRun, Begin
<1>2. CASE StartRun
  <2>1. \/ pc' = "stopped" /\ wr' = "idle"
        \/ pc' = "commit" /\ wr' = "queued" /\ chg' = Started
    BY <1>2 DEF StartRun
  <2>2. head'.rev = -1 /\ head' = NoCheckpoint
    BY <1>2 DEF StartRun, Begin, LifecycleInv, HeadFits
  <2>3. MayPropose(head', Started) /\ Accepted(head', Started)
    BY <2>2, StartJudged DEF MayPropose
  <2> QED
    BY <1>1, <2>1, <2>2, <2>3 DEF Shape, PointFits, UnderWay, OnlyReuseEscapes, InlineAtOnce,
                                  Effects, Interruptibles
<1>3. CASE ContinueRun
  <2>1. pc' = "open" /\ wr' = "idle" /\ head'.rev >= 0 /\ IsActive(head'.st)
    BY <1>3 DEF ContinueRun, Begin
  <2> QED
    BY <1>1, <2>1 DEF Shape, PointFits, UnderWay, OnlyReuseEscapes, InlineAtOnce, Effects,
                      Interruptibles
<1>4. CASE ResumeRun
  <2>1. head.st.kind = "suspended" /\ UNCHANGED head /\ cp' = head /\ UNCHANGED repo
    BY <1>4 DEF ResumeRun, Begin
  <2>2. PICK messages \in {<<>>, <<UserMessage>>} :
           /\ messages = <<>> \/ MayAppend(head.st)
           /\ Propose(head, Resumed(head, messages), expired')
    BY <1>4 DEF ResumeRun
  <2>3. chg' \in {Resumed(head, messages), Limited("deadline")}
    BY <2>2 DEF Propose
  <2>4. \/ pc' = "commit" /\ wr' = "queued" /\ Accepted(head, chg')
        \/ pc' = "broken" /\ wr' = "idle" /\ ~Accepted(head, chg')
    BY <2>2 DEF Propose
  <2>5. head.rev >= 0
    <3>1. CASE head.rev = -1
      <4>1. head = NoCheckpoint
        BY <3>1 DEF LifecycleInv, HeadFits
      <4>2. NoCheckpoint.st = Active(<<>>, FALSE)
        BY DEF NoCheckpoint
      <4>3. head.st.kind = "planning"
        BY <4>1, <4>2, FreshFits
      <4> QED
        BY <4>3, <2>1
    <3> QED
      BY <3>1 DEF LifecycleInv, HeadFits
  <2>6. MaySuspend(head, Resumed(head, messages))
    BY <2>1, <2>2 DEF MaySuspend
  <2>7. MayStop(head, Limited("deadline"))
    BY <2>1 DEF MayStop, TerminalKinds
  <2>8. MayPropose(head, chg')
    BY <2>3, <2>5, <2>6, <2>7 DEF MayPropose
  <2>9. OnlyReuseEscapes'
    <3>1. ASSUME ~Accepted(head, chg')
          PROVE  /\ chg'.fact.kind = "model_turn"
                 /\ ToSet(chg'.fact.calls) \cap CallIds(head.hist) # {}
      BY <2>8, <3>1, OnlyReuseRefused DEF LifecycleInv
    <3> QED
      BY <2>1, <2>4, <3>1 DEF OnlyReuseEscapes
  <2> QED
    BY <1>1, <2>1, <2>4, <2>8, <2>9 DEF Shape, PointFits, UnderWay, InlineAtOnce, LifecycleInv,
                                        Effects, Interruptibles
<1> QED
  BY <1>2, <1>3, <1>4 DEF Invocation

LEMMA EnvironmentKeepsShape == LifecycleInv /\ Environment => Shape'
<1> SUFFICES ASSUME LifecycleInv, Environment PROVE Shape'
  OBVIOUS
<1>1. CASE Submit
  BY <1>1, StayKeepsShape DEF Submit, committing, frame
<1>2. CASE Deadline
  BY <1>2, StayKeepsShape DEF Deadline, committing
<1>3. CASE Close
  <2>1. CASE Swallows
    BY <1>3, <2>1, StayKeepsShape DEF Close, committing, frame
  <2>2. CASE ~Swallows
    BY <1>3, <2>2, StopKeepsShape DEF Close, frame
  <2> QED
    BY <2>1, <2>2
<1>4. CASE EffectCancelled
  BY <1>4, StopKeepsShape DEF EffectCancelled, frame
<1>5. CASE Crash
  BY <1>5 DEF Crash, Discard, frame, LifecycleInv, Shape, PointFits, UnderWay, OnlyReuseEscapes,
              InlineAtOnce, Effects, Interruptibles
<1> QED
  BY <1>1, <1>2, <1>3, <1>4, <1>5 DEF Environment

(* Ending an active run for any reason is a proposal it allows. *)
LEMMA ActiveMayStop ==
    ASSUME LifecycleInv, pc \in ActivePoints
    PROVE  /\ MayPropose(cp, Limited("deadline"))
           /\ \A code \in Lifecycle!FailureCodes : MayPropose(cp, Failed(code))
           /\ \A why \in {"pause", "approval"} : MayPropose(cp, SuspendAt(cp.st, why))
           /\ \A n : Interruptible(cp.st) => MayPropose(cp, Insert(n))
BY AtActivePoint DEF MayPropose, MayStop, MaySuspend, MayEdit

LEMMA ProposalKeepsShape ==
    ASSUME LifecycleInv, pc \in ActivePoints, NEW x, Commit(x), MayPropose(cp, x),
           UNCHANGED repo
    PROVE  Shape'
BY AtActivePoint, CommitKeepsShape

(* The inputs of the engine's decisions keep their shape. *)
LEMMA ControlsQueue ==
    ASSUME NEW q \in Seq(Controls), NEW s \in Seq(Controls)
    PROVE  /\ q \o s \in Seq(Controls) /\ q \o <<>> \in Seq(Controls)
           /\ q # <<>> => Tail(q) \in Seq(Controls) /\ <<Head(q)>> \in Seq(Controls)
           /\ <<>> \in Seq(Controls) /\ Len(<<>>) = 0
OBVIOUS

LEMMA DiscardKeepsInputs ==
    ASSUME InputsFit, Discard, UNCHANGED <<arrived, fresh>>
    PROVE  InputsFit'
<1>1. queue' \in Seq(Controls) /\ slot' \in Seq(Controls) /\ Len(slot') <= 1
  BY DEF Discard
<1>2. DOMAIN batch' = {"n", "pause", "inserts"}
  BY DEF Discard, NoBatch
<1> QED
  BY <1>1, <1>2 DEF InputsFit

LEMMA EffectDoneKeepsInputs ==
    ASSUME InputsFit, EffectDone
    PROVE  queue' \in Seq(Controls) /\ slot' \in Seq(Controls) /\ Len(slot') <= 1
BY DEF InputsFit, EffectDone, Requeued

LEMMA InvocationKeepsInputs == InputsFit /\ Invocation => InputsFit'
<1> SUFFICES ASSUME InputsFit, Invocation PROVE InputsFit'
  OBVIOUS
<1>1. /\ queue' = <<>> /\ slot' = <<>> /\ batch' = NoBatch /\ UNCHANGED <<arrived, fresh>>
  BY DEF Invocation, StartRun, ContinueRun, ResumeRun, Begin
<1> QED
  BY <1>1 DEF InputsFit, NoBatch

LEMMA EnvironmentKeepsInputs ==
    ASSUME EngineAssumption, InputsFit, Environment PROVE InputsFit'
<1>1. CASE Submit
  <2>1. PICK kind \in ControlKinds : queue' = Append(queue, [kind |-> kind, n |-> arrived + 1])
    BY <1>1 DEF Submit
  <2>2. arrived' = arrived + 1 /\ arrived < MaxControls /\ UNCHANGED <<slot, batch, fresh>>
    BY <1>1 DEF Submit
  <2>3. [kind |-> kind, n |-> arrived + 1] \in Controls
    BY <2>2 DEF InputsFit, Controls, EngineAssumption
  <2>4. queue' \in Seq(Controls)
    BY <2>1, <2>3 DEF InputsFit
  <2>5. arrived' \in 0..MaxControls
    BY <2>2 DEF InputsFit, EngineAssumption
  <2> QED
    BY <2>2, <2>4, <2>5 DEF InputsFit
<1>2. CASE Deadline
  BY <1>2 DEF Deadline, InputsFit, inbox, host
<1>3. CASE Close
  <2>1. UNCHANGED <<arrived, fresh>>
    BY <1>3 DEF Close, host
  <2>2. CASE Swallows
    BY <1>3, <2>1, <2>2 DEF Close, InputsFit, inbox
  <2>3. CASE ~Swallows
    BY <1>3, <2>1, <2>3, DiscardKeepsInputs DEF Close, Stop
  <2> QED
    BY <2>2, <2>3
<1>4. CASE EffectCancelled
  BY <1>4, DiscardKeepsInputs DEF EffectCancelled, Stop, host
<1>5. CASE Crash
  BY <1>5, DiscardKeepsInputs DEF Crash, host
<1> QED
  BY <1>1, <1>2, <1>3, <1>4, <1>5 DEF Environment

LEMMA EngineStepKeepsInputs == InputsFit /\ EngineStep => InputsFit'
<1> SUFFICES ASSUME InputsFit, EngineStep PROVE InputsFit'
  OBVIOUS
<1>1. CASE OpenCatalog \/ OpenTooLate \/ LoopDeadline \/ PlanLimit \/ PlanTooLate \/ AskModel
  BY <1>1 DEF OpenCatalog, OpenTooLate, LoopDeadline, PlanLimit, PlanTooLate, AskModel,
              InputsFit, inbox, host
<1>2. CASE TakeControl
  BY <1>2 DEF TakeControl, InputsFit, host
<1>3. CASE ConsumeControl \/ ControlInterrupts
  <2>1. slot' = <<>> /\ UNCHANGED <<queue, batch, arrived, fresh>>
    BY <1>3 DEF ConsumeControl, ControlInterrupts, host
  <2> QED
    BY <2>1 DEF InputsFit
<1>4. CASE DeadlineInterrupts
  <2>1. UNCHANGED <<queue, slot, arrived, fresh>> /\ batch' = NoBatch
    BY <1>4 DEF DeadlineInterrupts, inbox, host
  <2> QED
    BY <2>1 DEF InputsFit, NoBatch
<1>5. CASE LoopPause \/ LoopInsert \/ LoopPlan \/ ToolLimit \/ SelectFails \/ BindRefuses
  <2>1. queue' = <<>> /\ UNCHANGED <<slot, batch, arrived, fresh>>
    BY <1>5 DEF LoopPause, LoopInsert, LoopPlan, ToolLimit, SelectFails, BindRefuses, Drain, host
  <2> QED
    BY <2>1 DEF InputsFit
<1>6. CASE SelectBatch
  <2>1. queue' = <<>> /\ UNCHANGED <<slot, arrived, fresh>>
    BY <1>6 DEF SelectBatch, Drain, host
  <2>2. DOMAIN batch' = {"n", "pause", "inserts"}
    BY <1>6 DEF SelectBatch, NoBatch
  <2> QED
    BY <2>1, <2>2 DEF InputsFit
<1>7. CASE BatchTakesControl
  <2>1. queue # <<>> /\ queue' = Tail(queue) /\ UNCHANGED <<slot, arrived, fresh>>
    BY <1>7 DEF BatchTakesControl, host
  <2>2. DOMAIN batch' = {"n", "pause", "inserts"}
    BY <1>7 DEF BatchTakesControl
  <2> QED
    BY <2>1, <2>2 DEF InputsFit
<1> QED
  BY <1>1, <1>2, <1>3, <1>4, <1>5, <1>6, <1>7 DEF EngineStep

(* Calls a model may answer with are numbers, and the next fresh id moves  *)
(* only upwards.                                                           *)
LEMMA ResponsesFit ==
    ASSUME EngineAssumption, LifecycleInv, pc = "model", NEW response \in Responses
    PROVE  response \in Turns
<1>1. fresh \in Nat
  BY DEF LifecycleInv, InputsFit
<1>2. ASSUME NEW calls \in FreshCalls
      PROVE  calls \in Seq(Nat) /\ Cardinality(ToSet(calls)) = Len(calls)
  <2>1. PICK n \in 0..MaxCallsPerTurn : calls = [i \in 1..n |-> fresh + i - 1]
    BY DEF FreshCalls
  <2>2. n \in Nat /\ \A i \in 1..n : fresh + i - 1 \in Nat
    BY <1>1 DEF EngineAssumption
  <2>3. calls \in Seq(Nat) /\ Len(calls) = n /\ DOMAIN calls = 1..n
    BY <2>1, <2>2
  <2>4. ToSet(calls) = fresh..(fresh + n - 1)
    <3>1. \A i \in 1..n : calls[i] = fresh + i - 1 /\ calls[i] \in fresh..(fresh + n - 1)
      BY <1>1, <2>1, <2>2
    <3>2. \A id \in fresh..(fresh + n - 1) : id - fresh + 1 \in 1..n /\ id = calls[id - fresh + 1]
      BY <1>1, <2>1, <2>2
    <3> QED
      BY <2>3, <3>1, <3>2 DEF ToSet
  <2>5. Cardinality(fresh..(fresh + n - 1)) =
          IF fresh <= fresh + n - 1 THEN (fresh + n - 1) - fresh + 1 ELSE 0
    <3>1. fresh \in Int /\ fresh + n - 1 \in Int
      BY <1>1, <2>2
    <3> QED
      BY <3>1, FS_Interval
  <2> QED
    BY <1>1, <2>2, <2>3, <2>4, <2>5
<1>3. ASSUME NEW calls \in UsedCalls
      PROVE  calls \in Seq(Nat) /\ Cardinality(ToSet(calls)) = Len(calls)
  <2>1. PICK id \in 1..(fresh - 1) : calls = <<id>>
    BY DEF UsedCalls
  <2>2. id \in Nat
    BY <1>1
  <2>3. calls \in Seq(Nat) /\ Len(calls) = 1 /\ ToSet(calls) = {id}
    BY <2>1, <2>2 DEF ToSet
  <2> QED
    BY <2>3, FS_Singleton
<1> QED
  BY <1>2, <1>3 DEF Responses, Turns

LEMMA FreshMovesUp ==
    ASSUME NEW calls \in Seq(Nat), NEW n \in Nat
    PROVE  Cardinality({i \in DOMAIN calls : calls[i] >= n}) \in Nat
<1>1. IsFiniteSet(DOMAIN calls)
  <2>1. DOMAIN calls = 1..Len(calls) /\ Len(calls) \in Nat
    OBVIOUS
  <2> QED
    BY <2>1, FS_Interval
<1> QED
  BY <1>1, FS_Subset, FS_CardinalityType

LEMMA PortStepKeepsInputs ==
    ASSUME EngineAssumption, LifecycleInv, PortStep PROVE InputsFit'
<1> InputsFit
  BY DEF LifecycleInv
<1>1. CASE CatalogOpens \/ CatalogFails \/ ReducerKeeps \/ ReducerRewrites \/ ReducerFails
           \/ ModelFails
  <2>1. EffectDone /\ UNCHANGED <<batch, arrived, fresh>>
    BY <1>1 DEF CatalogOpens, CatalogFails, ReducerKeeps, ReducerRewrites, ReducerFails,
                ModelFails, host
  <2> QED
    BY <2>1, EffectDoneKeepsInputs DEF InputsFit
<1>2. CASE ModelAnswers
  <2>1. EffectDone /\ UNCHANGED <<batch, arrived>> /\ pc = "model"
    BY <1>2 DEF ModelAnswers, host
  <2>2. PICK response \in Responses :
           fresh' = fresh + Cardinality({i \in DOMAIN response.calls :
                                           response.calls[i] >= fresh})
    BY <1>2 DEF ModelAnswers
  <2>3. response.calls \in Seq(Nat)
    BY <2>1, ResponsesFit DEF Turns
  <2>4. fresh' \in Nat
    <3>1. fresh \in Nat
      BY DEF InputsFit
    <3>2. Cardinality({i \in DOMAIN response.calls : response.calls[i] >= fresh}) \in Nat
      BY <2>3, <3>1, FreshMovesUp
    <3> QED
      BY <2>2, <3>1, <3>2
  <2> QED
    BY <2>1, <2>4, EffectDoneKeepsInputs DEF InputsFit
<1>3. CASE Approves
  <2>1. queue' = <<>> /\ UNCHANGED <<slot, arrived, fresh>> /\ batch' = DrainedBatch
    BY <1>3 DEF Approves, host
  <2>2. DOMAIN batch' = {"n", "pause", "inserts"}
    BY <2>1 DEF DrainedBatch
  <2> QED
    BY <2>1, <2>2 DEF InputsFit
<1>4. CASE ApprovalDenies \/ ApprovalSuspends \/ ApprovalFails \/ BatchDone
  <2>1. /\ queue' \in {<<>>, queue} /\ UNCHANGED <<slot, arrived, fresh>> /\ batch' = NoBatch
    BY <1>4 DEF ApprovalDenies, ApprovalSuspends, ApprovalFails, BatchDone, inbox, host
  <2>2. DOMAIN batch' = {"n", "pause", "inserts"}
    BY <2>1 DEF NoBatch
  <2>3. queue' \in Seq(Controls)
    BY <2>1, ControlsQueue DEF InputsFit
  <2> QED
    BY <2>1, <2>2, <2>3 DEF InputsFit
<1> QED
  BY <1>1, <1>2, <1>3, <1>4 DEF PortStep

LEMMA ReturnKeepsInputs ==
    ASSUME InputsFit, NEW next, Return(next), UNCHANGED <<arrived, fresh>>
    PROVE  InputsFit'
<1>1. CASE Discard
  BY <1>1, DiscardKeepsInputs
<1>2. CASE UNCHANGED <<inbox, batch>>
  BY <1>2 DEF InputsFit, inbox
<1> QED
  BY <1>1, <1>2 DEF Return, Stop

LEMMA RepositoryStepKeepsInputs == InputsFit /\ RepositoryStep => InputsFit'
<1> SUFFICES ASSUME InputsFit, RepositoryStep PROVE InputsFit'
  OBVIOUS
<1>1. UNCHANGED <<arrived, fresh>>
  BY DEF RepositoryStep, CommitInline, RepositoryRuns, RepositoryWrites, RepositoryReplies,
         RepositoryFails, CommitTimesOut, host
<1>2. CASE CommitInline \/ RepositoryReplies
  BY <1>1, <1>2, ReturnKeepsInputs DEF CommitInline, RepositoryReplies
<1>3. CASE RepositoryRuns \/ RepositoryWrites
  BY <1>3 DEF RepositoryRuns, RepositoryWrites, InputsFit, inbox, host
<1>4. CASE RepositoryFails
  BY <1>1, <1>4, DiscardKeepsInputs DEF RepositoryFails, Stop
<1>5. CASE CommitTimesOut
  <2>1. CASE cp.rev = -1
    BY <1>1, <1>5, <2>1, DiscardKeepsInputs DEF CommitTimesOut, Stop
  <2>2. CASE cp.rev # -1
    BY <1>1, <1>5, <2>2 DEF CommitTimesOut, InputsFit, inbox
  <2> QED
    BY <2>1, <2>2
<1> QED
  BY <1>2, <1>3, <1>4, <1>5 DEF RepositoryStep

LEMMA EngineStepKeepsShape ==
    ASSUME EngineAssumption, LifecycleInv, EngineStep PROVE Shape'
<1>1. CASE OpenCatalog
  <2>1. pc = "open" /\ pc' = "catalog" /\ UNCHANGED <<head, wr, repo>>
    BY <1>1 DEF OpenCatalog, committing, frame
  <2> QED
    BY <2>1, MoveKeepsShape DEF ActivePoints, Effects, Interruptibles
<1>2. CASE OpenTooLate \/ DeadlineInterrupts \/ LoopDeadline \/ PlanTooLate
  <2>1. pc \in ActivePoints /\ Commit(Limited("deadline")) /\ UNCHANGED repo
    BY <1>2 DEF OpenTooLate, DeadlineInterrupts, LoopDeadline, PlanTooLate, ActivePoints,
                Effects, Interruptibles, frame
  <2> QED
    BY <2>1, ActiveMayStop, ProposalKeepsShape
<1>3. CASE TakeControl \/ ConsumeControl
  <2>1. pc \in Interruptibles /\ UNCHANGED <<head, cp, pc, wr, chg, repo>>
    BY <1>3 DEF TakeControl, ConsumeControl, committing, frame
  <2> QED
    BY <2>1, StayKeepsShape DEF Interruptibles
<1>4. CASE ControlInterrupts
  <2>1. pc \in ActivePoints /\ UNCHANGED repo /\ slot # <<>> /\ ~NonInterrupting(slot[1])
    BY <1>4 DEF ControlInterrupts, ActivePoints, Effects, frame
  <2>2. slot[1].kind \in {"pause", "insert", "cancel"}
    <3>1. slot[1] \in Controls
      BY <2>1 DEF LifecycleInv, InputsFit
    <3> QED
      BY <3>1 DEF Controls, EngineAssumption
  <2>3. CASE slot[1].kind = "pause"
    <3>1. Commit(SuspendAt(cp.st, "pause"))
      BY <1>4, <2>3 DEF ControlInterrupts
    <3> QED
      BY <2>1, <3>1, ActiveMayStop, ProposalKeepsShape
  <2>4. CASE slot[1].kind # "pause"
    <3>1. Commit(Insert(slot[1].n))
      BY <1>4, <2>4 DEF ControlInterrupts
    <3>2. slot[1].kind = "insert" /\ ~Defers
      BY <2>1, <2>2, <2>4 DEF NonInterrupting
    <3>3. pc \in {"reduce", "model"} /\ (pc = "model" => ~cp.st.ptp)
      BY <1>4, <3>2 DEF Defers, ControlInterrupts, Interruptibles
    <3>4. Interruptible(cp.st)
      BY <2>1, <3>3, AtActivePoint DEF LifecycleInv, PointFits, Interruptible
    <3>5. MayPropose(cp, Insert(slot[1].n))
      BY <2>1, <3>4, ActiveMayStop
    <3> QED
      BY <2>1, <3>1, <3>5, ProposalKeepsShape
  <2> QED
    BY <2>3, <2>4
<1>5. CASE LoopPause
  <2>1. pc \in ActivePoints /\ Commit(SuspendAt(cp.st, "pause")) /\ UNCHANGED repo
    BY <1>5 DEF LoopPause, ActivePoints, frame
  <2> QED
    BY <2>1, ActiveMayStop, ProposalKeepsShape
<1>6. CASE LoopInsert
  <2>1. /\ pc \in ActivePoints /\ Commit(Insert(Head(Boundary))) /\ UNCHANGED repo
        /\ Interruptible(cp.st)
    BY <1>6 DEF LoopInsert, InsertDue, ActivePoints, frame
  <2>2. MayPropose(cp, Insert(Head(Boundary)))
    BY <2>1, ActiveMayStop
  <2> QED
    BY <2>1, <2>2, ProposalKeepsShape
<1>7. CASE LoopPlan
  <2>1. /\ pc \in ActivePoints /\ pc' \in {"reduce", "plan"} /\ UNCHANGED <<head, wr, repo>>
        /\ IsPlanning(cp.st) /\ (pc' = "reduce" => ~cp.st.ptp)
    BY <1>7 DEF LoopPlan, Quiet, Reduces, ActivePoints, committing, frame
  <2>2. head = cp
    BY <2>1, AtActivePoint
  <2> QED
    BY <2>1, <2>2, MoveKeepsShape DEF ActivePoints, Effects, Interruptibles
<1>8. CASE PlanLimit
  <2>1. /\ pc = "plan" /\ Commit(Limited("max_planning_steps")) /\ UNCHANGED repo
        /\ cp.steps >= MaxSteps
    BY <1>8 DEF PlanLimit, frame
  <2>2. pc \in ActivePoints /\ IsPlanning(head.st)
    BY <2>1 DEF ActivePoints, LifecycleInv, PointFits
  <2>3. MayPropose(cp, Limited("max_planning_steps"))
    BY <2>1, <2>2, AtActivePoint DEF MayPropose, MayStop
  <2> QED
    BY <2>1, <2>2, <2>3, ProposalKeepsShape
<1>9. CASE AskModel
  <2>1. /\ pc = "plan" /\ pc' = "model" /\ cp.steps < MaxSteps /\ UNCHANGED <<head, wr, repo>>
    BY <1>9 DEF AskModel, committing, frame
  <2>2. pc \in ActivePoints /\ IsPlanning(head.st)
    BY <2>1 DEF ActivePoints, LifecycleInv, PointFits
  <2> QED
    BY <2>1, <2>2, AtActivePoint, MoveKeepsShape DEF ActivePoints, Effects, Interruptibles
<1>10. ASSUME ToolTurn PROVE pc \in ActivePoints /\ cp.st.kind = "tools_pending"
  BY <1>10 DEF ToolTurn, Quiet, ActivePoints
<1>11. ASSUME ToolTurn, NEW k \in Selectable PROVE k \in BatchSizes(cp)
  <2>1. cp.calls \in Nat
    BY <1>10, <1>11, AtActivePoint DEF LifecycleInv, HeadFits
  <2> QED
    BY <1>11, <2>1 DEF Selectable, Capacity, BatchSizes, EngineAssumption
<1>12. CASE ToolLimit
  <2>1. ToolTurn /\ Commit(Limited("max_tool_calls")) /\ UNCHANGED repo /\ Capacity <= 0
    BY <1>12 DEF ToolLimit, frame
  <2>2. cp.calls \in Nat
    BY <1>10, <2>1, AtActivePoint DEF LifecycleInv, HeadFits
  <2>3. cp.calls >= MaxToolCalls
    BY <2>1, <2>2 DEF Capacity, EngineAssumption
  <2>4. MayPropose(cp, Limited("max_tool_calls"))
    BY <1>10, <2>1, <2>3, AtActivePoint DEF MayPropose, MayStop
  <2> QED
    BY <1>10, <2>1, <2>4, ProposalKeepsShape
<1>13. CASE SelectFails
  <2>1. ToolTurn /\ Commit(Failed("tool_protocol_error")) /\ UNCHANGED repo
    BY <1>13 DEF SelectFails, frame
  <2>2. "tool_protocol_error" \in Lifecycle!FailureCodes
    BY DEF Lifecycle!FailureCodes
  <2> QED
    BY <1>10, <2>1, <2>2, ActiveMayStop, ProposalKeepsShape
<1>14. CASE BindRefuses
  <2>1. PICK k \in Selectable : Commit(BatchOutcome(cp, k, "none"))
    BY <1>14 DEF BindRefuses
  <2>2. ToolTurn /\ UNCHANGED repo
    BY <1>14 DEF BindRefuses, frame
  <2>3. MayPropose(cp, BatchOutcome(cp, k, "none"))
    BY <1>10, <1>11, <2>2, AtActivePoint DEF MayPropose, MayBatch
  <2> QED
    BY <1>10, <2>1, <2>2, <2>3, ProposalKeepsShape
<1>15. CASE SelectBatch
  <2>1. PICK k \in Selectable :
           batch' = [NoBatch EXCEPT !.n = k] /\ pc' \in {"approve", "exec"}
    BY <1>15 DEF SelectBatch
  <2>2. ToolTurn /\ UNCHANGED <<head, wr, repo>>
    BY <1>15 DEF SelectBatch, committing, frame
  <2>3. batch'.n = k
    BY <2>1 DEF NoBatch
  <2>4. head.st.kind = "tools_pending" /\ batch'.n \in BatchSizes(head)
    BY <1>10, <1>11, <2>2, <2>3, AtActivePoint
  <2> QED
    BY <1>10, <2>1, <2>2, <2>4, MoveKeepsShape DEF ActivePoints, Effects, Interruptibles
<1>16. CASE BatchTakesControl
  <2>1. UNCHANGED <<head, cp, pc, wr, chg, repo>>
    BY <1>16 DEF BatchTakesControl, committing, frame
  <2>2. batch'.n = batch.n
    BY <1>16 DEF BatchTakesControl, LifecycleInv, InputsFit
  <2> QED
    BY <2>1, <2>2, StayKeepsShape
<1> QED
  BY <1>1, <1>2, <1>3, <1>4, <1>5, <1>6, <1>7, <1>8, <1>9, <1>12, <1>13, <1>14, <1>15, <1>16
     DEF EngineStep

LEMMA PortStepKeepsShape ==
    ASSUME EngineAssumption, LifecycleInv, PortStep PROVE Shape'
<1>1. pc \in ActivePoints /\ UNCHANGED repo
  BY DEF PortStep, CatalogOpens, CatalogFails, ReducerKeeps, ReducerRewrites, ReducerFails,
         ModelAnswers, ModelFails, Approves, ApprovalDenies, ApprovalSuspends, ApprovalFails,
         BatchDone, ActivePoints, Effects, Interruptibles, frame
<1>2. CASE CatalogOpens
  <2>1. pc' = "loop" /\ UNCHANGED <<head, wr>>
    BY <1>2 DEF CatalogOpens, committing
  <2> QED
    BY <1>1, <2>1, MoveKeepsShape DEF ActivePoints
<1>3. CASE ReducerKeeps
  <2>1. pc = "reduce" /\ pc' = "plan" /\ UNCHANGED <<head, wr>>
    BY <1>3 DEF ReducerKeeps, committing
  <2>2. IsPlanning(head.st)
    BY <2>1 DEF LifecycleInv, PointFits
  <2> QED
    BY <1>1, <2>1, <2>2, MoveKeepsShape DEF ActivePoints
<1>4. CASE CatalogFails \/ ReducerFails \/ ModelFails \/ ApprovalFails
  <2>1. \E code \in {"tool_catalog_error", "history_reducer_error", "model_provider_error",
                     "tool_protocol_error"} : Commit(Failed(code))
    BY <1>4 DEF CatalogFails, ReducerFails, ModelFails, ApprovalFails
  <2>2. \E code \in Lifecycle!FailureCodes : Commit(Failed(code))
    BY <2>1 DEF Lifecycle!FailureCodes
  <2> QED
    BY <1>1, <2>2, ActiveMayStop, ProposalKeepsShape
<1>5. CASE ReducerRewrites
  <2>1. pc = "reduce" /\ head = cp /\ HistoryFits(cp.hist) /\ Interruptible(cp.st)
    BY <1>1, <1>5, AtActivePoint
       DEF ReducerRewrites, LifecycleInv, PointFits, HeadFits, Interruptible
  <2>2. PICK messages \in Rewrites(cp.hist) :
           Commit(IF ValidHistory(messages, Active(<<>>, FALSE))
                  THEN Rewrite(cp, messages) ELSE Failed("history_reducer_error"))
    BY <1>5 DEF ReducerRewrites
  <2>3. HistoryFits(messages) /\ messages # <<>>
    <3>1. Len(cp.hist) > KeepsUpTo /\ messages \in {<<UserMessage>>, Tail(cp.hist)}
      BY <2>2 DEF Rewrites
    <3>2. cp.hist # <<>> /\ Tail(cp.hist) # <<>>
      <4>1. PICK M : cp.hist \in Seq(M)
        BY <2>1 DEF HistoryFits
      <4>2. Len(cp.hist) >= 2
        BY <3>1, <4>1 DEF EngineAssumption
      <4>3. Len(Tail(cp.hist)) = Len(cp.hist) - 1
        BY <4>1, <4>2
      <4>4. Len(<<>>) = 0
        OBVIOUS
      <4>5. cp.hist # <<>>
        BY <4>2, <4>4
      <4>6. Tail(cp.hist) # <<>>
        <5> DEFINE t == Tail(cp.hist)
        <5>1. Len(t) >= 1
          BY <4>1, <4>2, <4>3
        <5> HIDE DEF t
        <5>2. t # <<>>
          BY <4>4, <5>1
        <5> QED
          BY <5>2 DEF t
      <4> QED
        BY <4>5, <4>6
    <3>3. <<UserMessage>> # <<>>
      OBVIOUS
    <3> QED
      BY <2>1, <3>1, <3>2, <3>3, TailFits, MessagesFit
  <2>4. ASSUME ValidHistory(messages, Active(<<>>, FALSE))
        PROVE  MayPropose(cp, Rewrite(cp, messages))
    BY <1>1, <2>1, <2>3, <2>4, AtActivePoint DEF MayPropose, MayEdit
  <2>5. MayPropose(cp, Failed("history_reducer_error"))
    <3>1. "history_reducer_error" \in Lifecycle!FailureCodes
      BY DEF Lifecycle!FailureCodes
    <3> QED
      BY <1>1, <3>1, ActiveMayStop
  <2> QED
    BY <1>1, <2>2, <2>4, <2>5, ProposalKeepsShape
<1>6. CASE ModelAnswers
  <2>1. pc = "model"
    BY <1>6 DEF ModelAnswers
  <2>2. PICK response \in Responses :
           \/ Commit(ModelTurn(cp, response, MaxTokens))
           \/ Commit(KeepActive(ModelTurn(cp, response, MaxTokens)))
    BY <1>6 DEF ModelAnswers
  <2>3. response \in Turns
    BY <2>1, ResponsesFit
  <2>4. IsPlanning(cp.st) /\ cp.steps < MaxSteps /\ cp.rev >= 0
    BY <1>1, <2>1, AtActivePoint DEF LifecycleInv, PointFits
  <2>5. /\ MayPropose(cp, ModelTurn(cp, response, MaxTokens))
        /\ MayPropose(cp, KeepActive(ModelTurn(cp, response, MaxTokens)))
    BY <2>3, <2>4 DEF MayPropose, MayTurn
  <2> QED
    BY <1>1, <2>2, <2>5, ProposalKeepsShape
<1>7. ASSUME pc \in {"approve", "exec"} PROVE cp.st.kind = "tools_pending" /\ batch.n \in BatchSizes(cp)
  BY <1>1, <1>7, AtActivePoint DEF LifecycleInv, PointFits
<1>8. CASE Approves
  <2>1. pc = "approve" /\ pc' = "exec" /\ UNCHANGED <<head, wr>> /\ batch' = DrainedBatch
    BY <1>8 DEF Approves, committing
  <2>2. batch'.n = batch.n
    BY <2>1 DEF DrainedBatch, LifecycleInv, InputsFit
  <2>3. head.st.kind = "tools_pending" /\ batch'.n \in BatchSizes(head)
    BY <1>1, <1>7, <2>1, <2>2, AtActivePoint
  <2> QED
    BY <1>1, <2>1, <2>3, MoveKeepsShape DEF ActivePoints, Effects
<1>9. CASE ApprovalDenies \/ BatchDone
  <2>1. PICK why \in {"none", "waiting", "pause"} : Commit(BatchOutcome(cp, batch.n, why))
    BY <1>9 DEF ApprovalDenies, BatchDone, Suspension
  <2>2. MayPropose(cp, BatchOutcome(cp, batch.n, why))
    BY <1>1, <1>7, <1>9, AtActivePoint DEF ApprovalDenies, BatchDone, MayPropose, MayBatch
  <2> QED
    BY <1>1, <2>1, <2>2, ProposalKeepsShape
<1>10. CASE ApprovalSuspends
  <2>1. Commit(SuspendAt(cp.st, "approval"))
    BY <1>10 DEF ApprovalSuspends
  <2> QED
    BY <1>1, <2>1, ActiveMayStop, ProposalKeepsShape
<1> QED
  BY <1>2, <1>3, <1>4, <1>5, <1>6, <1>8, <1>9, <1>10 DEF PortStep

(* What the repository writes is the change under way. *)
LEMMA RepositoryWritesStep ==
    ASSUME EngineAssumption, LifecycleInv, CommitInline \/ RepositoryWrites
    PROVE  Lifecycle!Next /\ HeadFits(head') /\ head'.rev >= 0 /\ Verified(cp, head')
<1>1. pc = "commit" /\ wr # "written"
  BY DEF CommitInline, RepositoryWrites, LifecycleInv, InlineAtOnce
<1>2. head = cp /\ MayPropose(head, chg) /\ Accepted(head, chg)
  BY <1>1 DEF LifecycleInv, Inv, InStep, UnderWay
<1>3. head' = Reduce(head, chg)
  BY <1>2 DEF CommitInline, RepositoryWrites
<1>4. head'.rev = head.rev + 1
  BY <1>3, ReduceShape
<1>5. head.rev \in Nat \cup {-1}
  BY DEF LifecycleInv, HeadFits
<1>6. Verified(cp, head')
  BY <1>2, <1>3, ProposalJudged DEF LifecycleInv
<1> QED
  BY <1>2, <1>3, <1>4, <1>5, <1>6, ProposalIsStep DEF LifecycleInv

LEMMA RepositoryStepKeepsShape ==
    ASSUME EngineAssumption, LifecycleInv, RepositoryStep PROVE Shape'
<1>1. CASE CommitInline
  BY <1>1, RepositoryWritesStep, ReturnKeepsShape DEF CommitInline, frame
<1>2. CASE RepositoryRuns
  BY <1>2 DEF RepositoryRuns, frame, LifecycleInv, Shape, PointFits, UnderWay,
              OnlyReuseEscapes, InlineAtOnce, Effects, Interruptibles
<1>3. CASE RepositoryWrites
  <2>1. /\ HeadFits(head') /\ head'.rev >= 0 /\ Verified(cp', head')
        /\ pc' = "commit" /\ wr' = "written" /\ UNCHANGED repo
    BY <1>3, RepositoryWritesStep DEF RepositoryWrites, frame
  <2>2. repo # "inline"
    BY <1>3 DEF RepositoryWrites, LifecycleInv, InlineAtOnce
  <2> QED
    BY <2>1, <2>2 DEF Shape, PointFits, UnderWay, OnlyReuseEscapes, InlineAtOnce, Effects,
                      Interruptibles
<1>4. CASE RepositoryReplies
  <2>1. pc = "commit" /\ wr = "written" /\ Return(head') /\ UNCHANGED <<head, repo>>
    BY <1>4 DEF RepositoryReplies, frame
  <2>2. HeadFits(head')
    BY <2>1 DEF LifecycleInv
  <2>3. head'.rev >= 0 /\ Verified(cp, head')
    BY <2>1 DEF LifecycleInv, UnderWay
  <2> QED
    BY <2>1, <2>2, <2>3, ReturnKeepsShape
<1>5. CASE RepositoryFails
  BY <1>5, StopKeepsShape DEF RepositoryFails, frame
<1>6. CASE CommitTimesOut
  <2>1. head = cp /\ pc = "commit" /\ wr = "queued" /\ UNCHANGED repo
    BY <1>6 DEF CommitTimesOut, LifecycleInv, Inv, InStep, frame
  <2>2. CASE cp.rev = -1
    BY <1>6, <2>1, <2>2, StopKeepsShape DEF CommitTimesOut
  <2>3. CASE cp.rev # -1
    <3>1. MayPropose(head, chg) /\ head.rev >= 0
      BY <2>1, <2>3 DEF LifecycleInv, UnderWay, HeadFits
    <3>2. head.st.kind \notin TerminalKinds
      BY <2>1, <2>3, <3>1
         DEF MayPropose, MayStop, MaySuspend, MayEdit, MayTurn, MayBatch, Interruptible,
             IsPlanning, IsActive, ActiveKinds, TerminalKinds
    <3>3. MayPropose(head, Limited("deadline"))
      BY <3>1, <3>2 DEF MayPropose, MayStop
    <3> QED
      BY <1>6, <2>1, <2>3, <3>1, <3>2, <3>3, CommitKeepsShape DEF CommitTimesOut
  <2> QED
    BY <2>2, <2>3
<1> QED
  BY <1>1, <1>2, <1>3, <1>4, <1>5, <1>6 DEF RepositoryStep

LEMMA NextKeepsLifecycleInv == LifecycleInv /\ [Next]_vars => LifecycleInv'
<1> SUFFICES ASSUME LifecycleInv, [Next]_vars PROVE LifecycleInv'
  OBVIOUS
<1>1. Inv'
  BY NextKeepsInv DEF LifecycleInv
<1>2. CASE UNCHANGED vars
  BY <1>2, <1>1, StayKeepsShape DEF vars, LifecycleInv, Shape, InputsFit
<1>3. CASE Next
  <2>1. Shape'
    BY <1>3, EngineAssumption, InvocationKeepsShape, EnvironmentKeepsShape, EngineStepKeepsShape,
       PortStepKeepsShape, RepositoryStepKeepsShape DEF Next
  <2>2. InputsFit'
    BY <1>3, EngineAssumption, InvocationKeepsInputs, EnvironmentKeepsInputs,
       EngineStepKeepsInputs, PortStepKeepsInputs, RepositoryStepKeepsInputs
       DEF Next, LifecycleInv
  <2> QED
    BY <1>1, <2>1, <2>2 DEF LifecycleInv, Shape
<1> QED
  BY <1>2, <1>3

LEMMA LifecycleInvAlways == Spec => []LifecycleInv
<1>1. Init => LifecycleInv
  BY EngineAssumption, InitShape
<1> QED
  BY <1>1, NextKeepsLifecycleInv, PTL DEF Spec

(* Only the two steps that write move the head. *)
LEMMA HeadMovesOnWrite ==
    [Next]_vars => CommitInline \/ RepositoryWrites \/ UNCHANGED head
<1> SUFFICES ASSUME [Next]_vars, ~(CommitInline \/ RepositoryWrites) PROVE UNCHANGED head
  OBVIOUS
<1>1. CASE UNCHANGED vars
  BY <1>1 DEF vars
<1>2. CASE Invocation
  BY <1>2 DEF Invocation, StartRun, ContinueRun, ResumeRun, Begin
<1>3. CASE Environment
  BY <1>3 DEF Environment, Submit, Deadline, Close, EffectCancelled, Crash
<1>4. CASE EngineStep
  BY <1>4 DEF EngineStep, Commit, OpenCatalog, OpenTooLate, TakeControl, ConsumeControl,
              ControlInterrupts, DeadlineInterrupts, LoopDeadline, LoopPause, LoopInsert,
              LoopPlan, PlanLimit, PlanTooLate, AskModel, ToolLimit, SelectFails, BindRefuses,
              SelectBatch, BatchTakesControl
<1>5. CASE PortStep
  BY <1>5 DEF PortStep, Commit, CatalogOpens, CatalogFails, ReducerKeeps, ReducerRewrites,
              ReducerFails, ModelAnswers, ModelFails, Approves, ApprovalDenies,
              ApprovalSuspends, ApprovalFails, BatchDone
<1>6. CASE RepositoryStep
  BY <1>6 DEF RepositoryStep, Commit, RepositoryRuns, RepositoryReplies, RepositoryFails,
              CommitTimesOut
<1> QED
  BY <1>1, <1>2, <1>3, <1>4, <1>5, <1>6 DEF Next

(* Whatever ports, controls, deadlines, crashes and repositories do, the   *)
(* durable head of a run moves only as RunLifecycle allows: one revision a *)
(* step, within the budgets, answering calls from the front, and never     *)
(* out of a terminal state.                                                *)
THEOREM ImplementsLifecycleAlways == Spec => ImplementsLifecycle
<1>1. Init => Lifecycle!Init
  <2> SUFFICES ASSUME Init PROVE Lifecycle!Init
    OBVIOUS
  <2>1. head = NoCheckpoint
    BY DEF Init
  <2>2. /\ head.rev = -1 /\ head.steps = 0 /\ head.calls = 0 /\ head.tokens = 0
        /\ head.st = Active(<<>>, FALSE)
    BY <2>1 DEF NoCheckpoint
  <2>3. /\ head.st.kind = "planning" /\ head.st.pending = <<>> /\ head.st.why = "none"
    BY <2>2, FreshFits
  <2>4. head.st.ptp = FALSE
    BY <2>2 DEF Active
  <2> QED
    BY <2>2, <2>3, <2>4 DEF Lifecycle!Init
<1>2. LifecycleInv /\ [Next]_vars => [Lifecycle!Next]_(Lifecycle!vars)
  <2> SUFFICES ASSUME LifecycleInv, [Next]_vars
               PROVE  [Lifecycle!Next]_(Lifecycle!vars)
    OBVIOUS
  <2>1. CASE CommitInline \/ RepositoryWrites
    BY <2>1, EngineAssumption, RepositoryWritesStep
  <2>2. CASE UNCHANGED head
    BY <2>2 DEF Lifecycle!vars
  <2> QED
    BY <2>1, <2>2, HeadMovesOnWrite
<1> QED
  BY <1>1, <1>2, LifecycleInvAlways, PTL DEF Spec, ImplementsLifecycle, Lifecycle!Spec

(* Whatever a repository hands back after any sequence of steps, crashes   *)
(* and rewrites reloads: its history passes the check made from nothing.   *)
THEOREM ReloadsCleanlyAlways == Spec => []ReloadsCleanly
<1>1. LifecycleInv => ReloadsCleanly
  BY DEF LifecycleInv, HeadFits, ReloadsCleanly
<1> QED
  BY <1>1, LifecycleInvAlways, PTL

(* Engine.run raises past its handlers only where a model answered with a  *)
(* call id of the history: no other change the engine builds is refused by *)
(* the reducer, and none that was written is refused by verify_change.     *)
THEOREM OnlyReuseEscapesAlways == Spec => []OnlyReuseEscapes
<1>1. LifecycleInv => OnlyReuseEscapes
  BY DEF LifecycleInv
<1> QED
  BY <1>1, LifecycleInvAlways, PTL

LEMMA PendingTurnAppends ==
    ASSUME NEW c, HeadFits(c), c.st.ptp, NEW x, MayPropose(c, x)
    PROVE  /\ x.replace = <<>>
           /\ \A i \in 1..Len(x.append) : x.append[i].role \in {"tool", "assistant"}
<1>1. ~Interruptible(c.st)
  BY DEF Interruptible
<1>2. ASSUME x.append = <<>>
      PROVE  \A i \in 1..Len(x.append) : x.append[i].role \in {"tool", "assistant"}
  <2>1. Len(<<>>) = 0
    OBVIOUS
  <2> QED
    BY <1>2, <2>1
<1>3. CASE c.rev = -1
  <2>1. c = NoCheckpoint
    BY <1>3 DEF HeadFits
  <2>2. c.st = Active(<<>>, FALSE)
    BY <2>1 DEF NoCheckpoint
  <2>3. Active(<<>>, FALSE).ptp = FALSE
    BY DEF Active
  <2> QED
    BY <2>2, <2>3, Zenon
<1>4. CASE MayStop(c, x)
  <2>1. x.append = <<>> /\ x.replace = <<>>
    BY <1>4, StopShape DEF MayStop
  <2> QED
    BY <1>2, <2>1
<1>5. CASE MaySuspend(c, x)
  <2>1. x.append = <<>> /\ x.replace = <<>>
    <3>1. CASE \E why \in {"pause", "approval"} : x = SuspendAt(c.st, why)
      BY <3>1, SuspendShape
    <3>2. CASE \E messages \in {<<>>, <<UserMessage>>} :
                  x = Resumed(c, messages) /\ (messages = <<>> \/ MayAppend(c.st))
      <4>1. PICK messages \in {<<>>, <<UserMessage>>} :
                  x = Resumed(c, messages) /\ (messages = <<>> \/ MayAppend(c.st))
        BY <3>2
      <4>2. x.append = messages /\ x.replace = <<>>
        BY <4>1, ResumeShape
      <4>3. ResumeTo(c.st).ptp = c.st.ptp
        BY DEF ResumeTo, Active
      <4>4. ~MayAppend(c.st)
        BY <4>3, Zenon DEF MayAppend, Interruptible
      <4> QED
        BY <4>1, <4>2, <4>4
    <3> QED
      BY <1>5, <3>1, <3>2 DEF MaySuspend
  <2> QED
    BY <1>2, <2>1
<1>6. CASE MayEdit(c, x)
  BY <1>1, <1>6 DEF MayEdit
<1>7. CASE MayTurn(c, x)
  <2>1. PICK response \in Turns : TurnOf(c, response, x)
    BY <1>7 DEF MayTurn, TurnOf
  <2>2. x.append = <<Assistant(response.calls)>> /\ x.replace = <<>>
    BY <2>1, TurnFields
  <2>3. Assistant(response.calls).role = "assistant"
    BY DEF Assistant, Message
  <2> QED
    BY <2>2, <2>3
<1>8. CASE MayBatch(c, x)
  <2>1. PICK k \in BatchSizes(c), why \in {"none", "waiting", "pause"} :
           x = BatchOutcome(c, k, why)
    BY <1>8 DEF MayBatch
  <2>2. /\ x.append = [i \in 1..k |-> ToolMessage(SubSeq(c.st.pending, 1, k)[i])]
        /\ x.replace = <<>>
    BY <2>1 DEF BatchOutcome, Change, Fact
  <2>3. k \in Nat
    BY DEF BatchSizes
  <2>4. Len(x.append) = k
    BY <2>2, <2>3
  <2>5. \A id : ToolMessage(id).role = "tool"
    BY DEF ToolMessage, Message
  <2>6. ASSUME NEW i \in 1..k PROVE x.append[i].role = "tool"
    <3>1. x.append[i] = ToolMessage(SubSeq(c.st.pending, 1, k)[i])
      BY <2>2
    <3> QED
      BY <2>5, <3>1, Zenon
  <2> QED
    BY <2>2, <2>4, <2>6
<1> QED
  BY <1>3, <1>4, <1>5, <1>6, <1>7, <1>8 DEF MayPropose

Adjacent(h, g) ==
    /\ IsPrefix(h, g)
    /\ \A i \in (Len(h) + 1)..Len(g) : g[i].role \in {"tool", "assistant"}

LEMMA NothingIsAdjacent ==
    ASSUME NEW h, HistoryFits(h)
    PROVE  Adjacent(h, h)
<1>1. PICK M : h \in Seq(M)
  BY DEF HistoryFits
<1>2. IsPrefix(h, h)
  BY <1>1 DEF IsPrefix
<1>3. (Len(h) + 1)..Len(h) = {}
  BY <1>1
<1> QED
  BY <1>2, <1>3 DEF Adjacent

LEMMA AppendedIsAdjacent ==
    ASSUME NEW h, NEW g, HistoryFits(h), HistoryFits(g),
           \A i \in 1..Len(g) : g[i].role \in {"tool", "assistant"}
    PROVE  Adjacent(h, h \o g)
<1>1. PICK M : h \in Seq(M)
  BY DEF HistoryFits
<1>2. PICK N : g \in Seq(N)
  BY DEF HistoryFits
<1> DEFINE S == M \cup N
           j == h \o g
<1>3. h \in Seq(S) /\ g \in Seq(S)
  BY <1>1, <1>2
<1> HIDE DEF S
<1>4. /\ Len(h) \in Nat /\ Len(g) \in Nat /\ Len(j) = Len(h) + Len(g)
      /\ \A i \in 1..Len(h) : j[i] = h[i]
      /\ \A i \in 1..Len(g) : j[Len(h) + i] = g[i]
  BY <1>3, ConcatIndex
<1>5. SubSeq(h \o g, 1, Len(h)) = h
  BY <1>3, SubSeqOfConcat1, SubSeqFull
<1>6. IsPrefix(h, j)
  <2>1. SubSeq(h, 1, Len(h)) = h
    BY <1>3, SubSeqFull
  <2> QED
    BY <1>4, <1>5, <2>1 DEF IsPrefix
<1>7. ASSUME NEW i \in (Len(h) + 1)..Len(j)
      PROVE  j[i].role \in {"tool", "assistant"}
  <2> HIDE DEF j
  <2>1. i - Len(h) \in 1..Len(g) /\ Len(h) + (i - Len(h)) = i
    BY <1>4
  <2>2. j[i] = g[i - Len(h)]
    BY <1>4, <2>1
  <2> QED
    BY <2>1, <2>2
<1> QED
  BY <1>6, <1>7 DEF Adjacent

(* Nothing separates a provider's turn from its continuation but the       *)
(* results of the tools that turn called, whichever of resume, insert,     *)
(* reducer and deadline comes between.                                     *)
THEOREM ProviderTurnAdjacentAlways == Spec => ProviderTurnAdjacent
<1>1. LifecycleInv /\ [Next]_vars => (head.st.ptp => Adjacent(head.hist, head'.hist))
  <2> SUFFICES ASSUME LifecycleInv, [Next]_vars, head.st.ptp
               PROVE  Adjacent(head.hist, head'.hist)
    OBVIOUS
  <2>1. HeadFits(head) /\ HistoryFits(head.hist)
    BY DEF LifecycleInv, HeadFits
  <2>2. CASE CommitInline \/ RepositoryWrites
    <3>1. MayPropose(head, chg) /\ head' = Reduce(head, chg)
      <4>1. pc = "commit" /\ wr # "written"
        BY <2>2 DEF CommitInline, RepositoryWrites, LifecycleInv, InlineAtOnce
      <4>2. head = cp /\ MayPropose(head, chg)
        BY <4>1 DEF LifecycleInv, Inv, InStep, UnderWay
      <4> QED
        BY <2>2, <4>2 DEF CommitInline, RepositoryWrites
    <3>2. HistoryFits(chg.append)
      BY <2>1, <3>1, MessagesOfChangeFit
    <3>3. /\ chg.replace = <<>>
          /\ \A i \in 1..Len(chg.append) : chg.append[i].role \in {"tool", "assistant"}
      BY <2>1, <3>1, PendingTurnAppends
    <3>4. head'.hist = head.hist \o chg.append
      BY <3>1, <3>3, ReduceShape
    <3>5. Adjacent(head.hist, head.hist \o chg.append)
      BY <2>1, <3>2, <3>3, AppendedIsAdjacent
    <3> QED
      BY <3>4, <3>5
  <2>3. CASE UNCHANGED head
    BY <2>1, <2>3, NothingIsAdjacent
  <2> QED
    BY <2>2, <2>3, HeadMovesOnWrite
<1> QED
  BY <1>1, LifecycleInvAlways, PTL DEF Spec, ProviderTurnAdjacent, Adjacent

-----------------------------------------------------------------------------
(* No call of a turn runs twice in an invocation: the calls that wait are  *)
(* distinct, those of this turn that were handed to execution are behind   *)
(* them, and a turn still to be counted has handed out none.               *)

Distinct(pending) == \A i, j \in DOMAIN pending : pending[i] = pending[j] => i = j

Clear(turn, pending, done) == \A i \in DOMAIN pending : <<turn, pending[i]>> \notin done

IdsFit ==
    /\ \A call \in ran : call[1] \in Nat /\ call[1] <= head.steps
    /\ Distinct(head.st.pending)
    /\ pc \in ActivePoints \ {"exec"} => Clear(head.steps, head.st.pending, ran)
    /\ pc = "exec" => \A i \in DOMAIN head.st.pending :
                         i > batch.n => <<head.steps, head.st.pending[i]>> \notin ran
    /\ pc = "commit" => IF wr = "written" THEN Clear(head.steps, head.st.pending, ran)
                        ELSE /\ chg.steps \in Nat /\ Distinct(chg.st.pending)
                             /\ Clear(head.steps + chg.steps, chg.st.pending, ran)

LEMMA NothingWaits ==
    ASSUME NEW turn, NEW done
    PROVE  Distinct(<<>>) /\ Clear(turn, <<>>, done)
<1>1. DOMAIN <<>> = {}
  OBVIOUS
<1> QED
  BY <1>1 DEF Distinct, Clear

LEMMA RestReady ==
    ASSUME NEW p \in Seq(Nat), NEW k \in Nat, k <= Len(p), NEW turn, NEW done,
           Distinct(p), \A i \in DOMAIN p : i > k => <<turn, p[i]>> \notin done
    PROVE  LET rest == SubSeq(p, k + 1, Len(p))
           IN  Distinct(rest) /\ Clear(turn, rest, done)
<1> DEFINE rest == SubSeq(p, k + 1, Len(p))
<1>1. Len(p) \in Nat /\ DOMAIN p = 1..Len(p)
  OBVIOUS
<1>2. DOMAIN rest = 1..(Len(p) - k) /\ \A i \in 1..(Len(p) - k) : rest[i] = p[k + i]
  BY <1>1
<1> HIDE DEF rest
<1>3. ASSUME NEW i \in DOMAIN rest
      PROVE  k + i \in DOMAIN p /\ k + i > k /\ rest[i] = p[k + i]
  <2>1. i \in 1..(Len(p) - k)
    BY <1>2, Zenon
  <2>2. i \in Nat /\ 1 <= i /\ i <= Len(p) - k /\ Len(p) \in Nat
    BY <1>1, <2>1
  <2>3. k + i \in Nat /\ 1 <= k + i /\ k + i <= Len(p) /\ k + i > k
    BY <2>2
  <2>4. k + i \in 1..Len(p)
    BY <2>2, <2>3
  <2>5. rest[i] = p[k + i]
    BY <1>2, <2>1, Zenon
  <2> QED
    BY <1>1, <2>3, <2>4, <2>5
<1>4. ASSUME NEW i \in DOMAIN rest, NEW j \in DOMAIN rest, rest[i] = rest[j]
      PROVE  i = j
  <2>1. k + i = k + j
    BY <1>3, <1>4 DEF Distinct
  <2> QED
    BY <1>1, <1>2, <2>1
<1>5. ASSUME NEW i \in DOMAIN rest PROVE <<turn, rest[i]>> \notin done
  BY <1>3
<1>6. Distinct(rest) /\ Clear(turn, rest, done)
  BY <1>4, <1>5 DEF Distinct, Clear
<1> QED
  BY <1>6 DEF rest

LEMMA FirstCalls ==
    ASSUME NEW p \in Seq(Nat), NEW k \in Nat, k <= Len(p), NEW turn, NEW done,
           Distinct(p), Clear(turn, p, done)
    PROVE  LET calls == {<<turn, p[i]>> : i \in 1..k}
           IN  /\ Cardinality(calls) = k /\ calls \cap done = {}
               /\ calls \subseteq {<<turn, id>> : id \in ToSet(p)}
               /\ \A i \in DOMAIN p : i > k => <<turn, p[i]>> \notin calls \cup done
<1> DEFINE calls == {<<turn, p[i]>> : i \in 1..k}
           f     == [i \in 1..k |-> <<turn, p[i]>>]
<1>1. 1..k \subseteq DOMAIN p /\ DOMAIN p = 1..Len(p) /\ \A i \in DOMAIN p : p[i] \in Nat
  OBVIOUS
<1>2. f \in Surjection(1..k, calls)
  BY <1>1 DEF Surjection
<1>3. f \in Injection(1..k, calls)
  <2>1. IsInjective(f)
    BY <1>1 DEF IsInjective, Distinct
  <2> QED
    BY <2>1 DEF Injection
<1>4. Cardinality(calls) = k
  <2>1. IsFiniteSet(1..k) /\ Cardinality(1..k) = k
    BY FS_Interval
  <2> HIDE DEF calls, f
  <2>2. Cardinality(calls) = Cardinality(1..k)
    BY <1>2, <1>3, <2>1, FS_Surjection
  <2> QED
    BY <2>1, <2>2
<1>5. calls \cap done = {} /\ calls \subseteq {<<turn, id>> : id \in ToSet(p)}
  BY <1>1 DEF Clear, ToSet
<1>6. ASSUME NEW i \in DOMAIN p, i > k PROVE <<turn, p[i]>> \notin calls \cup done
  <2>1. \A j \in 1..k : p[j] # p[i]
    BY <1>1, <1>6 DEF Distinct
  <2>2. <<turn, p[i]>> \notin calls
    BY <2>1
  <2> QED
    BY <2>2 DEF Clear
<1> HIDE DEF calls
<1> QED
  BY <1>4, <1>5, <1>6 DEF calls

(* Every change but a model's turn leaves the turn as it is. *)
LEMMA PlainPending ==
    ASSUME NEW c
    PROVE  /\ Started.st.pending = <<>> /\ Started.steps = 0
           /\ \A reason : Limited(reason).st.pending = <<>> /\ Limited(reason).steps = 0
           /\ \A code : Failed(code).st.pending = <<>> /\ Failed(code).steps = 0
           /\ \A n : Insert(n).st.pending = <<>> /\ Insert(n).steps = 0
           /\ \A messages : Rewrite(c, messages).st.pending = <<>> /\ Rewrite(c, messages).steps = 0
           /\ \A messages : /\ Resumed(c, messages).st.pending = c.st.pending
                            /\ Resumed(c, messages).steps = 0
<1>1. Started.st.pending = <<>> /\ Started.steps = 0
  BY DEF Started, Change, Active
<1>2. ASSUME NEW reason
      PROVE  /\ Limited(reason).st.pending = <<>> /\ Failed(reason).st.pending = <<>>
             /\ Limited(reason).steps = 0 /\ Failed(reason).steps = 0
  BY DEF Limited, Failed, Change, Terminal
<1>3. ASSUME NEW n PROVE Insert(n).st.pending = <<>> /\ Insert(n).steps = 0
  BY DEF Insert, Change, Active
<1>4. ASSUME NEW messages
      PROVE  Rewrite(c, messages).st.pending = <<>> /\ Rewrite(c, messages).steps = 0
  BY DEF Rewrite, Change, Active
<1>5. ASSUME NEW messages
      PROVE  Resumed(c, messages).st.pending = c.st.pending /\ Resumed(c, messages).steps = 0
  BY DEF Resumed, Change, ResumeTo, Active
<1> QED
  BY <1>1, <1>2, <1>3, <1>4, <1>5

LEMMA SuspendPending ==
    ASSUME NEW st, OwnedPending(st), NEW why \in {"pause", "approval"}
    PROVE  SuspendAt(st, why).st.pending = st.pending /\ SuspendAt(st, why).steps = 0
<1>1. SuspendAt(st, why).st = Suspended(st, why) /\ SuspendAt(st, why).steps = 0
  BY SuspendShape
<1>2. why \in Lifecycle!Reasons
  BY Vocabulary
<1> QED
  BY <1>1, <1>2, SuspendedFits

LEMMA BatchPending ==
    ASSUME NEW c, NEW k, NEW why
    PROVE  /\ BatchOutcome(c, k, why).st.pending
                = SubSeq(c.st.pending, k + 1, Len(c.st.pending))
           /\ BatchOutcome(c, k, why).steps = 0
BY DEF BatchOutcome, Change, Fact, Active, Suspended

LEMMA TurnPending ==
    ASSUME NEW c, NEW response, NEW x, TurnOf(c, response, x)
    PROVE  x.st.pending \in {<<>>, response.calls}
<1>1. /\ Terminal("limited", "max_total_tokens").pending = <<>>
      /\ Terminal("completed", "none").pending = <<>>
      /\ Active(response.calls, response.ptp).pending = response.calls
      /\ Active(<<>>, FALSE).pending = <<>>
  BY DEF Terminal, Active
<1>2. \/ x.st = Terminal("limited", "max_total_tokens") \/ x.st = Terminal("completed", "none")
      \/ x.st = Active(response.calls, response.ptp) \/ x.st = Active(<<>>, FALSE)
  BY TurnOutcome
<1> QED
  BY <1>1, <1>2

LEMMA HeadOwns ==
    ASSUME LifecycleInv
    PROVE  head.st.pending \in Seq(Nat) /\ head.steps \in Nat /\ OwnedPending(head.st)
BY StateParts DEF LifecycleInv, HeadFits, OwnedPending

LEMMA SettleKeepsIds ==
    ASSUME IdsFit, pc' \in Settled, UNCHANGED <<head, ran>>
    PROVE  IdsFit'
BY DEF IdsFit, Settled, ActivePoints, Effects, Interruptibles

LEMMA StayKeepsIds ==
    ASSUME IdsFit, UNCHANGED <<head, pc, wr, chg, ran>>, pc = "exec" => UNCHANGED (batch.n)
    PROVE  IdsFit'
BY DEF IdsFit

LEMMA MoveKeepsIds ==
    ASSUME IdsFit, pc \in ActivePoints \ {"exec"}, pc' \in ActivePoints \ {"exec"},
           UNCHANGED <<head, ran>>
    PROVE  IdsFit'
BY DEF IdsFit, ActivePoints, Effects, Interruptibles

(* A commit of a change whose calls are ready and have not run. *)
LEMMA CommitKeepsIds ==
    ASSUME LifecycleInv, IdsFit, NEW x, Commit(x), UNCHANGED ran, x.steps \in Nat,
           Distinct(x.st.pending), Clear(head.steps + x.steps, x.st.pending, ran)
    PROVE  IdsFit'
<1>1. /\ UNCHANGED head /\ chg' \in {x, Limited("deadline")}
      /\ \/ pc' = "commit" /\ wr' = "queued"
         \/ pc' = "broken"
  BY DEF Commit, Propose
<1>2. Limited("deadline").st.pending = <<>> /\ Limited("deadline").steps = 0
  BY PlainPending
<1>3. /\ chg'.steps \in Nat /\ Distinct(chg'.st.pending)
      /\ Clear(head.steps + chg'.steps, chg'.st.pending, ran)
  BY <1>1, <1>2, NothingWaits
<1> QED
  BY <1>1, <1>3 DEF IdsFit, ActivePoints, Effects, Interruptibles

LEMMA PlainCommitKeepsIds ==
    ASSUME LifecycleInv, IdsFit, pc \in ActivePoints, NEW x, Commit(x), UNCHANGED ran,
           x.steps = 0, x.st.pending = <<>> \/ (pc # "exec" /\ x.st.pending = cp.st.pending)
    PROVE  IdsFit'
<1>1. head = cp
  BY AtActivePoint
<1>2. Distinct(x.st.pending) /\ Clear(head.steps, x.st.pending, ran)
  BY <1>1, NothingWaits DEF IdsFit
<1>3. x.steps \in Nat /\ head.steps + x.steps = head.steps
  BY HeadOwns
<1> QED
  BY <1>2, <1>3, CommitKeepsIds

LEMMA BatchCommitKeepsIds ==
    ASSUME LifecycleInv, IdsFit, pc \in ActivePoints, NEW k \in BatchSizes(cp), NEW why,
           Commit(BatchOutcome(cp, k, why)), UNCHANGED ran, pc = "exec" => k = batch.n
    PROVE  IdsFit'
<1> DEFINE x == BatchOutcome(cp, k, why)
           p == cp.st.pending
<1>1. head = cp
  BY AtActivePoint
<1>2. p \in Seq(Nat) /\ k \in Nat /\ k <= Len(p)
  BY <1>1, HeadOwns DEF BatchSizes
<1>3. x.st.pending = SubSeq(p, k + 1, Len(p)) /\ x.steps = 0
  BY BatchPending
<1>4. Distinct(p) /\ \A i \in DOMAIN p : i > k => <<head.steps, p[i]>> \notin ran
  BY <1>1 DEF IdsFit, Clear
<1> HIDE DEF p
<1>5. /\ Distinct(SubSeq(p, k + 1, Len(p)))
      /\ Clear(head.steps, SubSeq(p, k + 1, Len(p)), ran)
  BY <1>2, <1>4, RestReady
<1> HIDE DEF x
<1>6. x.steps \in Nat /\ head.steps + x.steps = head.steps
  BY <1>3, HeadOwns
<1>7. Distinct(x.st.pending) /\ Clear(head.steps + x.steps, x.st.pending, ran)
  BY <1>3, <1>5, <1>6
<1> QED
  BY <1>6, <1>7, CommitKeepsIds DEF x

(* Execution starts with the first calls that wait. *)
Starts(k) ==
    /\ k \in BatchSizes(cp) /\ pc \in ActivePoints \ {"exec"}
    /\ pc' = "exec" /\ batch'.n = k /\ ran' = ran \cup Calls(k) /\ UNCHANGED head

LEMMA StartRunsOnce ==
    ASSUME LifecycleInv, IdsFit, NEW k, Starts(k)
    PROVE  /\ IdsFit'
           /\ Cardinality(ran' \ ran) = batch'.n
           /\ ran' \ ran \subseteq {<<head.steps, id>> : id \in ToSet(head.st.pending)}
<1> DEFINE p     == head.st.pending
           calls == {<<head.steps, p[i]>> : i \in 1..k}
<1>1. head = cp /\ Calls(k) = calls
  BY AtActivePoint DEF Starts, Calls
<1>2. p \in Seq(Nat) /\ k \in Nat /\ k <= Len(p)
  BY <1>1, HeadOwns DEF BatchSizes, Starts
<1>3. Distinct(p) /\ Clear(head.steps, p, ran)
  BY DEF IdsFit, Starts
<1>4. \A call \in calls : call[1] = head.steps
  OBVIOUS
<1> HIDE DEF p
<1>5. /\ Cardinality(calls) = k /\ calls \cap ran = {}
      /\ calls \subseteq {<<head.steps, id>> : id \in ToSet(p)}
      /\ \A i \in DOMAIN p : i > k => <<head.steps, p[i]>> \notin calls \cup ran
  BY <1>2, <1>3, FirstCalls
<1> HIDE DEF calls
<1>6. ran' = ran \cup calls /\ ran' \ ran = calls
  BY <1>1, <1>5 DEF Starts
<1>7. UNCHANGED head /\ pc' = "exec" /\ batch'.n = k
  BY DEF Starts
<1>8. IdsFit'
  <2>1. \A call \in ran' : call[1] \in Nat /\ call[1] <= head'.steps
    BY <1>4, <1>6, <1>7, HeadOwns DEF IdsFit
  <2>2. Distinct(head'.st.pending)
    BY <1>3, <1>7 DEF p
  <2>3. \A i \in DOMAIN head'.st.pending :
           i > batch'.n => <<head'.steps, head'.st.pending[i]>> \notin ran'
    BY <1>5, <1>6, <1>7 DEF p
  <2> QED
    BY <1>7, <2>1, <2>2, <2>3 DEF IdsFit
<1> QED
  BY <1>5, <1>6, <1>7, <1>8 DEF p

LEMMA InvocationKeepsIds ==
    ASSUME LifecycleInv, IdsFit, Invocation PROVE IdsFit'
<1>1. UNCHANGED head /\ ran' = {}
  BY DEF Invocation, StartRun, ContinueRun, ResumeRun, Begin
<1>2. /\ pc' \in {"stopped", "broken", "commit", "open"}
      /\ pc' = "commit" => /\ wr' = "queued" /\ chg'.steps = 0
                           /\ chg'.st.pending \in {<<>>, head.st.pending}
  <2>1. CASE StartRun
    <3>1. \/ pc' = "stopped"
          \/ pc' = "commit" /\ wr' = "queued" /\ chg' = Started
      BY <2>1 DEF StartRun
    <3> QED
      BY <3>1, PlainPending
  <2>2. CASE ContinueRun
    BY <2>2 DEF ContinueRun
  <2>3. CASE ResumeRun
    <3>1. PICK messages : Propose(head, Resumed(head, messages), expired')
      BY <2>3 DEF ResumeRun
    <3>2. /\ chg' \in {Resumed(head, messages), Limited("deadline")}
          /\ \/ pc' = "commit" /\ wr' = "queued"
             \/ pc' = "broken"
      BY <3>1 DEF Propose
    <3>3. /\ Resumed(head, messages).st.pending = head.st.pending
          /\ Limited("deadline").st.pending = <<>>
          /\ Resumed(head, messages).steps = 0 /\ Limited("deadline").steps = 0
      BY PlainPending
    <3> QED
      BY <3>2, <3>3
  <2> QED
    BY <2>1, <2>2, <2>3 DEF Invocation
<1>3. pc' = "commit" => chg'.steps \in Nat /\ Distinct(chg'.st.pending)
  <2>1. Distinct(<<>>) /\ Distinct(head.st.pending) /\ 0 \in Nat
    BY NothingWaits DEF IdsFit
  <2> QED
    BY <1>2, <2>1
<1>4. \A turn, q : Clear(turn, q, ran')
  BY <1>1 DEF Clear
<1>5. Distinct(head'.st.pending) /\ ran' = {}
  BY <1>1 DEF IdsFit
<1> QED
  BY <1>2, <1>3, <1>4, <1>5 DEF IdsFit, ActivePoints, Effects, Interruptibles

LEMMA EnvironmentKeepsIds ==
    ASSUME LifecycleInv, IdsFit, Environment PROVE IdsFit'
<1>1. CASE Submit
  BY <1>1, StayKeepsIds DEF Submit, committing
<1>2. CASE Deadline
  BY <1>2, StayKeepsIds DEF Deadline, committing
<1>3. CASE Close
  <2>1. CASE Swallows
    BY <1>3, <2>1, StayKeepsIds DEF Close, committing
  <2>2. CASE ~Swallows
    BY <1>3, <2>2, SettleKeepsIds DEF Close, Stop, Settled
  <2> QED
    BY <2>1, <2>2
<1>4. CASE EffectCancelled
  BY <1>4, SettleKeepsIds DEF EffectCancelled, Stop, Settled
<1>5. CASE Crash
  BY <1>5, SettleKeepsIds DEF Crash, Settled
<1> QED
  BY <1>1, <1>2, <1>3, <1>4, <1>5 DEF Environment

LEMMA RepositoryStepKeepsIds ==
    ASSUME LifecycleInv, IdsFit, RepositoryStep PROVE IdsFit'
<1> DEFINE Advanced == /\ \A call \in ran : call[1] \in Nat /\ call[1] <= head'.steps
                       /\ Distinct(head'.st.pending)
                       /\ Clear(head'.steps, head'.st.pending, ran)
<1>1. UNCHANGED ran
  BY DEF RepositoryStep, CommitInline, RepositoryRuns, RepositoryWrites, RepositoryReplies,
         RepositoryFails, CommitTimesOut, host
<1>2. ASSUME pc = "commit", wr # "written", head' = Reduce(cp, chg)
      PROVE  Advanced
  <2>1. head = cp
    BY <1>2 DEF LifecycleInv, Inv, InStep
  <2>2. head'.st = chg.st /\ head'.steps = head.steps + chg.steps
    BY <1>2, <2>1, ReduceShape
  <2>3. chg.steps \in Nat /\ head.steps \in Nat /\ head.steps <= head'.steps
    BY <1>2, <2>2, HeadOwns DEF IdsFit
  <2>4. \A call \in ran : call[1] \in Nat /\ call[1] <= head'.steps
    BY <2>2, <2>3 DEF IdsFit
  <2> QED
    BY <1>2, <2>2, <2>4 DEF IdsFit
<1> HIDE DEF Advanced
<1>3. CASE CommitInline
  <2>1. Advanced
    BY <1>2, <1>3 DEF CommitInline, LifecycleInv, InlineAtOnce
  <2>2. pc' \in {"stopped", "broken", "loop", "open"}
    BY <1>3 DEF CommitInline, Return, Stop
  <2> QED
    BY <1>1, <2>1, <2>2 DEF Advanced, IdsFit, ActivePoints, Effects, Interruptibles
<1>4. CASE RepositoryRuns
  BY <1>1, <1>4 DEF RepositoryRuns, IdsFit
<1>5. CASE RepositoryWrites
  <2>1. Advanced
    BY <1>2, <1>5 DEF RepositoryWrites
  <2>2. pc' = "commit" /\ wr' = "written"
    BY <1>5 DEF RepositoryWrites
  <2> QED
    BY <1>1, <2>1, <2>2 DEF Advanced, IdsFit, ActivePoints, Effects, Interruptibles
<1>6. CASE RepositoryReplies
  <2>1. pc = "commit" /\ wr = "written" /\ UNCHANGED head
    BY <1>6 DEF RepositoryReplies
  <2>2. pc' \in {"stopped", "broken", "loop", "open"}
    BY <1>6 DEF RepositoryReplies, Return, Stop
  <2> QED
    BY <1>1, <2>1, <2>2 DEF IdsFit, ActivePoints, Effects, Interruptibles
<1>7. CASE RepositoryFails
  BY <1>1, <1>7, SettleKeepsIds DEF RepositoryFails, Stop, Settled
<1>8. CASE CommitTimesOut
  <2>1. CASE cp.rev = -1
    BY <1>1, <1>8, <2>1, SettleKeepsIds DEF CommitTimesOut, Stop, Settled
  <2>2. CASE cp.rev # -1
    <3>1. Commit(Limited("deadline"))
      BY <1>8, <2>2 DEF CommitTimesOut
    <3>2. Limited("deadline").st.pending = <<>> /\ Limited("deadline").steps = 0
      BY PlainPending
    <3>3. /\ Distinct(Limited("deadline").st.pending)
          /\ Clear(head.steps + Limited("deadline").steps, Limited("deadline").st.pending, ran)
      BY <3>2, NothingWaits
    <3> QED
      BY <1>1, <3>1, <3>2, <3>3, CommitKeepsIds
  <2> QED
    BY <2>1, <2>2
<1> QED
  BY <1>3, <1>4, <1>5, <1>6, <1>7, <1>8 DEF RepositoryStep

LEMMA EngineStepKeepsIds ==
    ASSUME EngineAssumption, LifecycleInv, IdsFit, EngineStep
    PROVE  IdsFit' \/ \E k : Starts(k)
<1>1. CASE OpenCatalog \/ LoopPlan \/ AskModel
  <2>1. /\ pc \in ActivePoints \ {"exec"} /\ pc' \in ActivePoints \ {"exec"}
        /\ UNCHANGED <<head, ran>>
    BY <1>1 DEF OpenCatalog, LoopPlan, AskModel, Quiet, ActivePoints, Effects, Interruptibles, host
  <2>2. IdsFit'
    BY <2>1, MoveKeepsIds
  <2> QED
    BY <2>2
<1>2. CASE TakeControl \/ ConsumeControl \/ BatchTakesControl
  <2>1. UNCHANGED <<head, pc, wr, chg, ran>>
    BY <1>2 DEF TakeControl, ConsumeControl, BatchTakesControl, committing
  <2>2. batch'.n = batch.n
    BY <1>2 DEF TakeControl, ConsumeControl, BatchTakesControl, LifecycleInv, InputsFit
  <2>3. IdsFit'
    BY <2>1, <2>2, StayKeepsIds
  <2> QED
    BY <2>3
<1>3. CASE OpenTooLate \/ DeadlineInterrupts \/ LoopDeadline \/ PlanLimit \/ PlanTooLate
           \/ ToolLimit \/ SelectFails \/ LoopInsert
  <2>1. pc \in ActivePoints /\ UNCHANGED ran
    BY <1>3 DEF OpenTooLate, DeadlineInterrupts, LoopDeadline, PlanLimit, PlanTooLate, ToolLimit,
                SelectFails, LoopInsert, ToolTurn, Quiet, ActivePoints, Effects, Interruptibles
  <2>2. \/ \E reason : Commit(Limited(reason)) \/ Commit(Failed(reason))
        \/ \E n : Commit(Insert(n))
    BY <1>3 DEF OpenTooLate, DeadlineInterrupts, LoopDeadline, PlanLimit, PlanTooLate, ToolLimit,
                SelectFails, LoopInsert
  <2>3. PICK x : Commit(x) /\ x.st.pending = <<>> /\ x.steps = 0
    BY <2>2, PlainPending
  <2>4. IdsFit'
    BY <2>1, <2>3, PlainCommitKeepsIds
  <2> QED
    BY <2>4
<1>4. CASE ControlInterrupts \/ LoopPause
  <2>1. pc \in ActivePoints \ {"exec"} /\ UNCHANGED ran
    BY <1>4 DEF ControlInterrupts, LoopPause, ActivePoints, Effects, Interruptibles
  <2>2. Commit(SuspendAt(cp.st, "pause")) \/ \E n : Commit(Insert(n))
    BY <1>4 DEF ControlInterrupts, LoopPause
  <2>3. OwnedPending(cp.st)
    BY <2>1, AtActivePoint, HeadOwns
  <2>4. PICK x : /\ Commit(x) /\ x.steps = 0
                 /\ x.st.pending = <<>> \/ x.st.pending = cp.st.pending
    BY <2>2, <2>3, PlainPending, SuspendPending
  <2>5. IdsFit'
    BY <2>1, <2>4, PlainCommitKeepsIds
  <2> QED
    BY <2>5
<1>5. ASSUME ToolTurn, NEW k \in Selectable
      PROVE  k \in BatchSizes(cp) /\ pc \in ActivePoints \ {"exec"}
  <2>1. pc = "loop" /\ pc \in ActivePoints
    BY <1>5 DEF ToolTurn, Quiet, ActivePoints
  <2>2. cp.calls \in Nat
    BY <2>1, AtActivePoint DEF LifecycleInv, HeadFits
  <2> QED
    BY <1>5, <2>1, <2>2 DEF Selectable, Capacity, BatchSizes, EngineAssumption
<1>6. CASE BindRefuses
  <2>1. PICK k \in Selectable : Commit(BatchOutcome(cp, k, "none"))
    BY <1>6 DEF BindRefuses
  <2>2. ToolTurn /\ UNCHANGED ran
    BY <1>6 DEF BindRefuses
  <2>3. /\ k \in BatchSizes(cp) /\ pc \in ActivePoints \ {"exec"}
        /\ Commit(BatchOutcome(cp, k, "none")) /\ UNCHANGED ran
    BY <1>5, <2>1, <2>2
  <2>4. IdsFit'
    BY <2>3, BatchCommitKeepsIds
  <2> QED
    BY <2>4
<1>7. CASE SelectBatch
  <2>1. PICK k \in Selectable :
           /\ batch' = [NoBatch EXCEPT !.n = k]
           /\ IF HasApproval THEN pc' = "approve" /\ UNCHANGED ran
              ELSE pc' = "exec" /\ ran' = ran \cup Calls(k)
    BY <1>7 DEF SelectBatch
  <2>2. ToolTurn /\ UNCHANGED <<head, wr>>
    BY <1>7 DEF SelectBatch, committing
  <2>3. batch'.n = k
    BY <2>1 DEF NoBatch
  <2>4. CASE HasApproval
    <3>1. pc \in ActivePoints \ {"exec"} /\ pc' \in ActivePoints \ {"exec"}
      BY <1>5, <2>1, <2>2, <2>4 DEF ActivePoints, Effects
    <3>2. UNCHANGED <<head, ran>>
      BY <2>1, <2>2, <2>4
    <3>3. IdsFit'
      BY <3>1, <3>2, MoveKeepsIds
    <3> QED
      BY <3>3
  <2>5. CASE ~HasApproval
    <3>1. Starts(k)
      BY <1>5, <2>1, <2>2, <2>3, <2>5 DEF Starts
    <3> QED
      BY <2>2, <3>1
  <2> QED
    BY <2>4, <2>5
<1> QED
  BY <1>1, <1>2, <1>3, <1>4, <1>6, <1>7 DEF EngineStep

(* An answer opens a turn of its own, in which nothing has run. *)
LEMMA AnswerKeepsIds ==
    ASSUME EngineAssumption, LifecycleInv, IdsFit, ModelAnswers PROVE IdsFit'
<1>1. pc = "model" /\ UNCHANGED ran
  BY DEF ModelAnswers
<1>2. PICK response \in Responses :
         \/ Commit(ModelTurn(cp, response, MaxTokens))
         \/ Commit(KeepActive(ModelTurn(cp, response, MaxTokens)))
  BY DEF ModelAnswers
<1>3. PICK x : TurnOf(cp, response, x) /\ Commit(x)
  BY <1>2 DEF TurnOf
<1> DEFINE calls == response.calls
<1>4. x.steps = 1 /\ x.st.pending \in {<<>>, calls}
  BY <1>3, TurnFields, TurnPending
<1>5. calls \in FreshCalls \cup UsedCalls
  BY DEF Responses
<1> HIDE DEF calls
<1>6. Distinct(calls)
  <2>1. CASE calls \in FreshCalls
    <3>1. PICK n \in 0..MaxCallsPerTurn : calls = [i \in 1..n |-> fresh + i - 1]
      BY <2>1 DEF FreshCalls
    <3>2. fresh \in Nat
      BY DEF LifecycleInv, InputsFit
    <3>3. n \in Nat /\ DOMAIN calls = 1..n /\ \A i \in 1..n : calls[i] = fresh + i - 1
      BY <3>1 DEF EngineAssumption
    <3> QED
      BY <3>2, <3>3 DEF Distinct
  <2>2. CASE calls \in UsedCalls
    <3>1. PICK id : calls = <<id>>
      BY <2>2 DEF UsedCalls
    <3>2. DOMAIN calls = {1}
      BY <3>1
    <3> QED
      BY <3>2 DEF Distinct
  <2> QED
    BY <1>5, <2>1, <2>2
<1>7. \A q : Clear(head.steps + x.steps, q, ran)
  <2>1. ASSUME NEW id PROVE <<head.steps + 1, id>> \notin ran
    <3>1. <<head.steps + 1, id>>[1] = head.steps + 1 /\ ~(head.steps + 1 <= head.steps)
      BY HeadOwns
    <3> QED
      BY <3>1 DEF IdsFit
  <2> QED
    BY <1>4, <2>1 DEF Clear
<1>8. x.steps \in Nat /\ Distinct(x.st.pending)
  BY <1>4, <1>6, NothingWaits
<1> QED
  BY <1>1, <1>3, <1>7, <1>8, CommitKeepsIds

LEMMA PortStepKeepsIds ==
    ASSUME EngineAssumption, LifecycleInv, IdsFit, PortStep
    PROVE  IdsFit' \/ \E k : Starts(k)
<1>1. CASE CatalogOpens \/ ReducerKeeps
  <2>1. /\ pc \in ActivePoints \ {"exec"} /\ pc' \in ActivePoints \ {"exec"}
        /\ UNCHANGED <<head, ran>>
    BY <1>1 DEF CatalogOpens, ReducerKeeps, ActivePoints, Effects, Interruptibles, host
  <2>2. IdsFit'
    BY <2>1, MoveKeepsIds
  <2> QED
    BY <2>2
<1>2. CASE CatalogFails \/ ReducerRewrites \/ ReducerFails \/ ModelFails \/ ApprovalFails
  <2>1. pc \in ActivePoints /\ UNCHANGED ran
    BY <1>2 DEF CatalogFails, ReducerRewrites, ReducerFails, ModelFails, ApprovalFails,
                ActivePoints, Effects, Interruptibles
  <2>2. \/ \E code : Commit(Failed(code))
        \/ \E messages : Commit(Rewrite(cp, messages))
    BY <1>2 DEF CatalogFails, ReducerRewrites, ReducerFails, ModelFails, ApprovalFails
  <2>3. PICK x : Commit(x) /\ x.st.pending = <<>> /\ x.steps = 0
    <3>1. \A code : Failed(code).st.pending = <<>> /\ Failed(code).steps = 0
      BY PlainPending
    <3>2. \A messages : Rewrite(cp, messages).st.pending = <<>> /\ Rewrite(cp, messages).steps = 0
      BY PlainPending
    <3> QED
      BY <2>2, <3>1, <3>2
  <2>4. IdsFit'
    BY <2>1, <2>3, PlainCommitKeepsIds
  <2> QED
    BY <2>4
<1>3. CASE ModelAnswers
  <2>1. IdsFit'
    BY <1>3, AnswerKeepsIds
  <2> QED
    BY <2>1
<1>4. ASSUME pc \in {"approve", "exec"} PROVE batch.n \in BatchSizes(cp) /\ pc \in ActivePoints
  BY <1>4, AtActivePoint DEF LifecycleInv, PointFits, ActivePoints, Effects
<1>5. CASE Approves
  <2>1. /\ pc = "approve" /\ pc' = "exec" /\ UNCHANGED <<head, wr>>
        /\ batch' = DrainedBatch /\ ran' = ran \cup Calls(batch.n)
    BY <1>5 DEF Approves, committing
  <2>2. batch'.n = batch.n
    BY <2>1 DEF DrainedBatch, LifecycleInv, InputsFit
  <2>3. Starts(batch.n)
    BY <1>4, <2>1, <2>2 DEF Starts
  <2> QED
    BY <2>1, <2>3
<1>6. CASE ApprovalDenies \/ BatchDone
  <2>1. PICK why : Commit(BatchOutcome(cp, batch.n, why))
    BY <1>6 DEF ApprovalDenies, BatchDone
  <2>2. pc \in {"approve", "exec"} /\ UNCHANGED ran
    BY <1>6 DEF ApprovalDenies, BatchDone
  <2>3. batch.n \in BatchSizes(cp) /\ pc \in ActivePoints /\ UNCHANGED ran
    BY <1>4, <2>2
  <2>4. IdsFit'
    BY <2>1, <2>3, BatchCommitKeepsIds
  <2> QED
    BY <2>4
<1>7. CASE ApprovalSuspends
  <2>1. Commit(SuspendAt(cp.st, "approval")) /\ pc = "approve" /\ UNCHANGED ran
    BY <1>7 DEF ApprovalSuspends
  <2>2. OwnedPending(cp.st)
    BY <1>4, <2>1, AtActivePoint, HeadOwns
  <2>3. SuspendAt(cp.st, "approval").st.pending = cp.st.pending /\ SuspendAt(cp.st, "approval").steps = 0
    BY <2>2, SuspendPending
  <2>4. IdsFit'
    BY <1>4, <2>1, <2>3, PlainCommitKeepsIds
  <2> QED
    BY <2>4
<1> QED
  BY <1>1, <1>2, <1>3, <1>5, <1>6, <1>7 DEF PortStep

LEMMA NextKeepsIds ==
    ASSUME LifecycleInv, IdsFit, [Next]_vars
    PROVE  IdsFit' \/ \E k : Starts(k)
<1>1. CASE UNCHANGED vars
  BY <1>1, StayKeepsIds DEF vars
<1> QED
  BY <1>1, EngineAssumption, InvocationKeepsIds, EnvironmentKeepsIds, EngineStepKeepsIds,
     PortStepKeepsIds, RepositoryStepKeepsIds DEF Next

(* Execution is entered in no other way. *)
LEMMA OnlyStartsExecute ==
    ASSUME EngineAssumption, LifecycleInv, [Next]_vars, pc # "exec", pc' = "exec"
    PROVE  \E k : Starts(k)
<1>1. CASE UNCHANGED vars
  BY <1>1 DEF vars
<1>2. CASE Invocation \/ Environment \/ RepositoryStep
  BY <1>2, InvocationStartsNothing, EnvironmentStartsNothing, RepositoryStartsNothing DEF Effects
<1>3. CASE EngineStep
  <2>1. SelectBatch
    BY <1>3, CommitStartsNothing
       DEF EngineStep, OpenCatalog, OpenTooLate, TakeControl, ConsumeControl, ControlInterrupts,
           DeadlineInterrupts, LoopDeadline, LoopPause, LoopInsert, LoopPlan, PlanLimit,
           PlanTooLate, AskModel, ToolLimit, SelectFails, BindRefuses, BatchTakesControl, Effects
  <2>2. PICK k \in Selectable :
           batch' = [NoBatch EXCEPT !.n = k] /\ ran' = ran \cup Calls(k)
    BY <2>1 DEF SelectBatch
  <2>3. ToolTurn /\ UNCHANGED head /\ batch'.n = k
    BY <2>1, <2>2 DEF SelectBatch, NoBatch
  <2>4. pc = "loop" /\ pc \in ActivePoints
    BY <2>3 DEF ToolTurn, Quiet, ActivePoints
  <2>5. cp.calls \in Nat
    BY <2>4, AtActivePoint DEF LifecycleInv, HeadFits
  <2>6. k \in BatchSizes(cp)
    BY <2>5 DEF Selectable, Capacity, BatchSizes, EngineAssumption
  <2> QED
    BY <2>2, <2>3, <2>4, <2>6 DEF Starts
<1>4. CASE PortStep
  <2>1. Approves
    BY <1>4, CommitStartsNothing
       DEF PortStep, CatalogOpens, CatalogFails, ReducerKeeps, ReducerRewrites, ReducerFails,
           ModelAnswers, ModelFails, ApprovalDenies, ApprovalSuspends, ApprovalFails, BatchDone,
           Effects
  <2>2. /\ pc = "approve" /\ UNCHANGED head
        /\ batch' = DrainedBatch /\ ran' = ran \cup Calls(batch.n)
    BY <2>1 DEF Approves
  <2>3. batch'.n = batch.n
    BY <2>2 DEF DrainedBatch, LifecycleInv, InputsFit
  <2>4. batch.n \in BatchSizes(cp) /\ pc \in ActivePoints
    BY <2>2, AtActivePoint DEF LifecycleInv, PointFits, ActivePoints, Effects
  <2> QED
    BY <2>2, <2>3, <2>4 DEF Starts
<1> QED
  BY <1>1, <1>2, <1>3, <1>4 DEF Next

(* In one invocation no call of a model turn is handed to execution twice, *)
(* and none that the durable head does not still list as unanswered,       *)
(* however often batches are split, approved, suspended, refused or cut    *)
(* off, and whatever ids the model's answers use.                          *)
THEOREM ExecutesOnceAlways == Spec => ExecutesOnce
<1>1. Init => IdsFit
  <2> SUFFICES ASSUME Init PROVE IdsFit
    OBVIOUS
  <2>1. head = NoCheckpoint
    BY DEF Init
  <2>2. head.st = Active(<<>>, FALSE)
    BY <2>1 DEF NoCheckpoint
  <2>3. head.st.pending = <<>>
    BY <2>2, FreshFits
  <2>4. Distinct(head.st.pending)
    BY <2>3, NothingWaits
  <2> QED
    BY <2>4 DEF Init, IdsFit, ActivePoints, Effects, Interruptibles
<1>2. LifecycleInv /\ IdsFit /\ [Next]_vars => IdsFit'
  BY NextKeepsIds, StartRunsOnce
<1>3. LifecycleInv /\ IdsFit /\ [Next]_vars =>
        (pc # "exec" /\ pc' = "exec" => /\ Cardinality(ran' \ ran) = batch'.n
                                        /\ ran' \ ran \subseteq
                                              {<<head.steps, id>> : id \in ToSet(head.st.pending)})
  BY EngineAssumption, OnlyStartsExecute, StartRunsOnce
<1> QED
  BY <1>1, <1>2, <1>3, LifecycleInvAlways, PTL DEF Spec, ExecutesOnce

-----------------------------------------------------------------------------
(* Inserts are neither lost nor repeated: what counts of the places they   *)
(* wait in is the numbers they hold and how many.                          *)

LEMMA Joined ==
    ASSUME NEW a \in Seq(Nat), NEW b \in Seq(Nat)
    PROVE  /\ a \o b \in Seq(Nat) /\ Len(a \o b) = Len(a) + Len(b)
           /\ Len(a) \in Nat /\ Len(b) \in Nat
           /\ ToSet(a \o b) = ToSet(a) \cup ToSet(b)
<1> DEFINE ab == a \o b
<1>1. /\ Len(a) \in Nat /\ Len(b) \in Nat /\ Len(ab) = Len(a) + Len(b) /\ ab \in Seq(Nat)
      /\ \A i \in 1..Len(a) : ab[i] = a[i]
      /\ \A i \in 1..Len(b) : ab[Len(a) + i] = b[i]
  BY ConcatIndex
<1>2. DOMAIN a = 1..Len(a) /\ DOMAIN b = 1..Len(b) /\ DOMAIN ab = 1..(Len(a) + Len(b))
  BY <1>1
<1> HIDE DEF ab
<1>3. ASSUME NEW i \in DOMAIN ab PROVE ab[i] \in ToSet(a) \cup ToSet(b)
  <2>1. i \in 1..(Len(a) + Len(b))
    BY <1>2
  <2>2. CASE i \in 1..Len(a)
    BY <1>1, <1>2, <2>2 DEF ToSet
  <2>3. CASE i \notin 1..Len(a)
    <3>0. Len(a) \in Nat /\ Len(b) \in Nat
      BY <1>1
    <3>1. i - Len(a) \in 1..Len(b) /\ Len(a) + (i - Len(a)) = i
      BY <3>0, <2>1, <2>3
    <3>2. ab[i] = b[i - Len(a)]
      BY <1>1, <3>1
    <3> QED
      BY <1>2, <3>1, <3>2 DEF ToSet
  <2> QED
    BY <2>2, <2>3
<1>4. ASSUME NEW i \in DOMAIN a PROVE a[i] \in ToSet(ab)
  <2>1. i \in DOMAIN ab /\ ab[i] = a[i]
    BY <1>1, <1>2
  <2> QED
    BY <2>1 DEF ToSet
<1>5. ASSUME NEW i \in DOMAIN b PROVE b[i] \in ToSet(ab)
  <2>1. Len(a) \in Nat /\ Len(b) \in Nat /\ i \in 1..Len(b)
    BY <1>1, <1>2
  <2>2. Len(a) + i \in 1..(Len(a) + Len(b))
    BY <2>1
  <2>3. Len(a) + i \in DOMAIN ab /\ ab[Len(a) + i] = b[i]
    BY <1>1, <1>2, <2>1, <2>2, Zenon
  <2> QED
    BY <2>3 DEF ToSet
<1>6. ToSet(ab) = ToSet(a) \cup ToSet(b)
  BY <1>3, <1>4, <1>5 DEF ToSet
<1> QED
  BY <1>1, <1>6 DEF ab

LEMMA OneOrNone ==
    ASSUME NEW n \in Nat
    PROVE  /\ <<>> \in Seq(Nat) /\ ToSet(<<>>) = {} /\ Len(<<>>) = 0
           /\ <<n>> \in Seq(Nat) /\ ToSet(<<n>>) = {n} /\ Len(<<n>>) = 1
<1>1. <<>> \in Seq(Nat) /\ Len(<<>>) = 0 /\ <<n>> \in Seq(Nat) /\ Len(<<n>>) = 1
  OBVIOUS
<1>2. ToSet(<<>>) = {}
  BY NoCallsRepeat
<1>3. ToSet(<<n>>) = {n}
  BY DEF ToSet
<1> QED
  BY <1>1, <1>2, <1>3

LEMMA InsertOfFits ==
    ASSUME NEW c \in Controls
    PROVE  InsertOf(c) \in Seq(Nat)
BY DEF InsertOf, Controls

(* InsertsIn reads control after control. *)
Plus(taken, c) == taken \o InsertOf(c)

Takes(f, controls, k) ==
    f = [n \in 0..k |-> IF n = 0 THEN <<>> ELSE Plus(f[n - 1], controls[n])]

LEMMA SomethingTakes ==
    ASSUME NEW controls, NEW k \in Nat
    PROVE  \E f : Takes(f, controls, k)
<1> DEFINE P == {n \in Nat : \E f : Takes(f, controls, n)}
<1>1. 0 \in P
  <2>1. Takes([n \in 0..0 |-> <<>>], controls, 0)
    BY DEF Takes
  <2> QED
    BY <2>1
<1>2. ASSUME NEW n \in Nat, n \in P PROVE n + 1 \in P
  <2>1. PICK f : Takes(f, controls, n)
    BY <1>2
  <2> DEFINE g == [i \in 0..(n + 1) |->
                      IF i = n + 1 THEN Plus(f[n], controls[n + 1]) ELSE f[i]]
  <2>2. f = [i \in 0..n |-> IF i = 0 THEN <<>> ELSE Plus(f[i - 1], controls[i])]
    BY <2>1 DEF Takes
  <2>3. ASSUME NEW i \in 0..(n + 1)
        PROVE  g[i] = IF i = 0 THEN <<>> ELSE Plus(g[i - 1], controls[i])
    <3>1. CASE i = n + 1
      <4>1. g[i] = Plus(f[n], controls[i]) /\ i # 0
        BY <3>1
      <4>2. g[i - 1] = f[n]
        BY <3>1
      <4> QED
        BY <4>1, <4>2
    <3>2. CASE i # n + 1
      <4>1. i \in 0..n /\ g[i] = f[i]
        BY <3>2
      <4>2. i # 0 => g[i - 1] = f[i - 1]
        BY <4>1
      <4>3. f[i] = IF i = 0 THEN <<>> ELSE Plus(f[i - 1], controls[i])
        BY <2>2, <4>1
      <4> QED
        BY <4>1, <4>2, <4>3
    <3> QED
      BY <3>1, <3>2
  <2>4. Takes(g, controls, n + 1)
    BY <2>3 DEF Takes
  <2> QED
    BY <2>4
<1> HIDE DEF P
<1>3. Nat \subseteq P
  BY <1>1, <1>2, NumbersFromZero, Zenon
<1> QED
  BY <1>3 DEF P

LEMMA InsertsInTakes ==
    ASSUME NEW controls \in Seq(Controls)
    PROVE  \E f : Takes(f, controls, Len(controls)) /\ InsertsIn(controls) = f[Len(controls)]
<1> DEFINE taken == CHOOSE g : g = [n \in 0..Len(controls) |->
                                      IF n = 0 THEN <<>> ELSE Plus(g[n - 1], controls[n])]
<1>1. InsertsIn(controls) = taken[Len(controls)]
  BY DEF InsertsIn, Plus
<1>2. Len(controls) \in Nat
  OBVIOUS
<1>3. Takes(taken, controls, Len(controls))
  BY <1>2, SomethingTakes DEF Takes
<1> QED
  BY <1>1, <1>3

LEMMA TakesFits ==
    ASSUME NEW controls \in Seq(Controls), NEW f, Takes(f, controls, Len(controls)),
           NEW k \in 0..Len(controls)
    PROVE  f[k] \in Seq(Nat)
<1> DEFINE P == {n \in Nat : n <= Len(controls) => f[n] \in Seq(Nat)}
<1>1. 0 \in P
  BY DEF Takes
<1>2. ASSUME NEW n \in Nat, n \in P PROVE n + 1 \in P
  <2> SUFFICES ASSUME n + 1 <= Len(controls) PROVE f[n + 1] \in Seq(Nat)
    OBVIOUS
  <2>1. /\ n + 1 \in 0..Len(controls) /\ n + 1 # 0 /\ (n + 1) - 1 = n /\ n <= Len(controls)
        /\ controls[n + 1] \in Controls
    OBVIOUS
  <2>2. f[n + 1] = Plus(f[n], controls[n + 1])
    BY <2>1 DEF Takes
  <2>3. f[n] \in Seq(Nat)
    BY <1>2, <2>1
  <2> QED
    BY <2>1, <2>2, <2>3, InsertOfFits, Joined DEF Plus
<1> HIDE DEF P
<1>3. Nat \subseteq P
  BY <1>1, <1>2, NumbersFromZero, Zenon
<1>4. k \in Nat /\ k <= Len(controls)
  OBVIOUS
<1> QED
  BY <1>3, <1>4 DEF P

LEMMA InsertsInFit ==
    ASSUME NEW controls \in Seq(Controls) PROVE InsertsIn(controls) \in Seq(Nat)
<1>1. Len(controls) \in 0..Len(controls)
  OBVIOUS
<1> QED
  BY <1>1, InsertsInTakes, TakesFits

LEMMA NoInserts == InsertsIn(<<>>) = <<>>
<1>1. <<>> \in Seq(Controls) /\ Len(<<>>) = 0
  OBVIOUS
<1>2. PICK f : Takes(f, <<>>, 0) /\ InsertsIn(<<>>) = f[0]
  BY <1>1, InsertsInTakes
<1> QED
  BY <1>2 DEF Takes

(* Two readings of controls that begin alike agree there. *)
LEMMA TakesAgree ==
    ASSUME NEW p, NEW k \in Nat, NEW f, Takes(f, p, k),
           NEW q, NEW l \in Nat, NEW g, Takes(g, q, l),
           l <= k, \A i \in 1..l : p[i] = q[i]
    PROVE  f[l] = g[l]
<1> DEFINE P == {n \in Nat : n <= l => f[n] = g[n]}
<1>1. 0 \in P
  BY DEF Takes
<1>2. ASSUME NEW n \in Nat, n \in P PROVE n + 1 \in P
  <2> SUFFICES ASSUME n + 1 <= l PROVE f[n + 1] = g[n + 1]
    OBVIOUS
  <2>1. f[n] = g[n]
    BY <1>2
  <2>2. n + 1 \in 0..k /\ n + 1 \in 0..l /\ n + 1 \in 1..l /\ n + 1 # 0 /\ (n + 1) - 1 = n
    OBVIOUS
  <2>3. f[n + 1] = Plus(f[n], p[n + 1])
    BY <2>2 DEF Takes
  <2>4. g[n + 1] = Plus(g[n], q[n + 1])
    BY <2>2 DEF Takes
  <2> QED
    BY <2>1, <2>2, <2>3, <2>4
<1> HIDE DEF P
<1>3. Nat \subseteq P
  BY <1>1, <1>2, NumbersFromZero, Zenon
<1> QED
  BY <1>3 DEF P

LEMMA InsertsInAppend ==
    ASSUME NEW q \in Seq(Controls), NEW c \in Controls
    PROVE  InsertsIn(Append(q, c)) = InsertsIn(q) \o InsertOf(c)
<1> DEFINE k == Len(q)
           p == Append(q, c)
<1>1. p \in Seq(Controls) /\ Len(p) = k + 1 /\ k \in Nat /\ p[k + 1] = c
  OBVIOUS
<1>2. \A i \in 1..k : p[i] = q[i]
  OBVIOUS
<1> HIDE DEF p
<1>3. PICK f : Takes(f, p, k + 1) /\ InsertsIn(p) = f[k + 1]
  BY <1>1, InsertsInTakes
<1>4. PICK g : Takes(g, q, k) /\ InsertsIn(q) = g[k]
  BY InsertsInTakes
<1>5. f[k] = g[k]
  <2>1. k + 1 \in Nat /\ k <= k + 1
    BY <1>1
  <2> QED
    BY <1>1, <1>2, <1>3, <1>4, <2>1, TakesAgree
<1>6. f[k + 1] = Plus(f[k], p[k + 1])
  <2>1. k + 1 \in 0..(k + 1) /\ k + 1 # 0 /\ (k + 1) - 1 = k
    BY <1>1
  <2> QED
    BY <1>3, <2>1 DEF Takes
<1> QED
  BY <1>1, <1>3, <1>4, <1>5, <1>6 DEF p, Plus

LEMMA InsertsInOne ==
    ASSUME NEW c \in Controls PROVE InsertsIn(<<c>>) = InsertOf(c)
<1>1. <<>> \in Seq(Controls) /\ Append(<<>>, c) = <<c>>
  OBVIOUS
<1>2. InsertsIn(<<c>>) = <<>> \o InsertOf(c)
  BY <1>1, InsertsInAppend, NoInserts
<1>3. <<>> \o InsertOf(c) = InsertOf(c)
  BY InsertOfFits
<1> QED
  BY <1>2, <1>3

(* Taking the first control takes its insert. *)
LEMMA InsertsInTail ==
    ASSUME NEW q \in Seq(Controls), q # <<>>
    PROVE  /\ Len(InsertsIn(q)) = Len(InsertOf(Head(q))) + Len(InsertsIn(Tail(q)))
           /\ ToSet(InsertsIn(q)) = ToSet(InsertOf(Head(q))) \cup ToSet(InsertsIn(Tail(q)))
<1> DEFINE t == Tail(q)
           h == InsertOf(Head(q))
           k == Len(t)
<1>1. t \in Seq(Controls) /\ Len(q) = k + 1 /\ k \in Nat /\ Head(q) = q[1] /\ Head(q) \in Controls
  OBVIOUS
<1>2. \A i \in 1..k : q[i + 1] = t[i]
  OBVIOUS
<1>3. h \in Seq(Nat)
  BY <1>1, InsertOfFits
<1> HIDE DEF t, h
<1>4. PICK f : Takes(f, q, k + 1) /\ InsertsIn(q) = f[k + 1]
  BY <1>1, InsertsInTakes
<1>5. PICK g : Takes(g, t, k) /\ InsertsIn(t) = g[k]
  BY <1>1, InsertsInTakes
<1>6. ASSUME NEW n \in 0..k PROVE f[n + 1] \in Seq(Nat) /\ g[n] \in Seq(Nat)
  <2>1. n + 1 \in 0..Len(q) /\ n \in 0..Len(t)
    BY <1>1
  <2> QED
    BY <1>1, <1>4, <1>5, <2>1, TakesFits
<1> DEFINE P == {n \in Nat : n <= k => /\ Len(f[n + 1]) = Len(h) + Len(g[n])
                                        /\ ToSet(f[n + 1]) = ToSet(h) \cup ToSet(g[n])}
<1>7. 0 \in P
  <2>1. f[0] = <<>> /\ g[0] = <<>>
    BY <1>1, <1>4, <1>5 DEF Takes
  <2>2. f[1] = Plus(f[0], q[1])
    <3>1. 1 \in 0..(k + 1) /\ 1 # 0 /\ 1 - 1 = 0
      BY <1>1
    <3> QED
      BY <1>4, <3>1 DEF Takes
  <2>3. f[1] = <<>> \o h
    BY <1>1, <2>1, <2>2 DEF Plus, h
  <2>4. f[1] = h
    BY <1>3, <2>3
  <2>5. ToSet(<<>>) = {} /\ Len(<<>>) = 0
    BY OneOrNone
  <2>6. Len(h) \in Nat /\ Len(h) = Len(h) + 0
    BY <1>3
  <2>7. Len(f[0 + 1]) = Len(h) + Len(g[0]) /\ ToSet(f[0 + 1]) = ToSet(h) \cup ToSet(g[0])
    BY <2>1, <2>4, <2>5, <2>6
  <2> QED
    BY <2>7
<1>8. ASSUME NEW n \in Nat, n \in P PROVE n + 1 \in P
  <2> SUFFICES ASSUME n + 1 <= k
               PROVE  /\ Len(f[n + 2]) = Len(h) + Len(g[n + 1])
                      /\ ToSet(f[n + 2]) = ToSet(h) \cup ToSet(g[n + 1])
    <3>1. (n + 1) + 1 = n + 2
      OBVIOUS
    <3> QED
      BY <3>1
  <2>1. /\ n \in 0..k /\ n + 1 \in 0..k /\ n + 2 \in 0..(k + 1) /\ n + 1 # 0 /\ n + 2 # 0
        /\ (n + 1) - 1 = n /\ (n + 2) - 1 = n + 1 /\ n + 1 \in 1..k
    BY <1>1
  <2>2. q[n + 2] = t[n + 1] /\ t[n + 1] \in Controls
    <3>1. (n + 1) + 1 = n + 2
      OBVIOUS
    <3>2. q[(n + 1) + 1] = t[n + 1]
      BY <1>2, <2>1
    <3> QED
      BY <1>1, <2>1, <3>1, <3>2
  <2> DEFINE c == InsertOf(t[n + 1])
  <2>3. f[n + 2] = f[n + 1] \o c
    BY <1>4, <2>1, <2>2 DEF Takes, Plus
  <2>4. g[n + 1] = g[n] \o c
    BY <1>5, <2>1 DEF Takes, Plus
  <2>5. c \in Seq(Nat) /\ f[n + 1] \in Seq(Nat) /\ g[n] \in Seq(Nat)
    BY <1>6, <2>1, <2>2, InsertOfFits
  <2> HIDE DEF c
  <2>6. /\ Len(f[n + 1]) = Len(h) + Len(g[n]) /\ ToSet(f[n + 1]) = ToSet(h) \cup ToSet(g[n])
    BY <1>8, <2>1
  <2>7. /\ Len(f[n + 2]) = Len(f[n + 1]) + Len(c) /\ ToSet(f[n + 2]) = ToSet(f[n + 1]) \cup ToSet(c)
    BY <2>3, <2>5, Joined
  <2>8. /\ Len(g[n + 1]) = Len(g[n]) + Len(c) /\ ToSet(g[n + 1]) = ToSet(g[n]) \cup ToSet(c)
    BY <2>4, <2>5, Joined
  <2>9. Len(c) \in Nat /\ Len(g[n]) \in Nat /\ Len(h) \in Nat
    BY <1>3, <2>5, Joined
  <2>10. Len(f[n + 2]) = Len(h) + Len(g[n + 1])
    BY <2>6, <2>7, <2>8, <2>9
  <2>11. ToSet(f[n + 2]) = ToSet(h) \cup ToSet(g[n + 1])
    BY <2>6, <2>7, <2>8
  <2> QED
    BY <2>10, <2>11
<1> HIDE DEF P
<1>9. Nat \subseteq P
  BY <1>7, <1>8, NumbersFromZero, Zenon
<1>10. k \in P /\ k <= k
  BY <1>1, <1>9
<1>11. Len(f[k + 1]) = Len(h) + Len(g[k]) /\ ToSet(f[k + 1]) = ToSet(h) \cup ToSet(g[k])
  BY <1>10 DEF P
<1> QED
  BY <1>4, <1>5, <1>11 DEF t, h

LEMMA PausesWaiting ==
    ASSUME NEW q \in Seq(Controls), NEW c \in Controls
    PROVE  /\ ~HasPause(<<>>) /\ (HasPause(<<c>>) <=> c.kind = "pause")
           /\ HasPause(Append(q, c)) <=> HasPause(q) \/ c.kind = "pause"
           /\ q # <<>> => (HasPause(q) <=> Head(q).kind = "pause" \/ HasPause(Tail(q)))
<1>1. ~HasPause(<<>>) /\ (HasPause(<<c>>) <=> c.kind = "pause")
  BY DEF HasPause
<1>2. HasPause(Append(q, c)) <=> HasPause(q) \/ c.kind = "pause"
  <2> DEFINE p == Append(q, c)
  <2>1. /\ Len(q) \in Nat /\ DOMAIN q = 1..Len(q) /\ DOMAIN p = 1..(Len(q) + 1)
        /\ p[Len(q) + 1] = c /\ \A i \in 1..Len(q) : p[i] = q[i]
    OBVIOUS
  <2> HIDE DEF p
  <2>2. ASSUME HasPause(p) PROVE HasPause(q) \/ c.kind = "pause"
    <3>1. PICK i \in DOMAIN p : p[i].kind = "pause"
      BY <2>2 DEF HasPause
    <3>2. CASE i = Len(q) + 1
      BY <2>1, <3>1, <3>2
    <3>3. CASE i # Len(q) + 1
      <4>1. i \in 1..Len(q)
        BY <2>1, <3>1, <3>3
      <4> QED
        BY <2>1, <3>1, <4>1 DEF HasPause
    <3> QED
      BY <3>2, <3>3
  <2>3. ASSUME HasPause(q) PROVE HasPause(p)
    <3>1. PICK i \in DOMAIN q : q[i].kind = "pause"
      BY <2>3 DEF HasPause
    <3>2. i \in DOMAIN p /\ p[i] = q[i]
      BY <2>1, <3>1
    <3> QED
      BY <3>1, <3>2 DEF HasPause
  <2>4. ASSUME c.kind = "pause" PROVE HasPause(p)
    <3>1. Len(q) + 1 \in DOMAIN p
      BY <2>1
    <3> QED
      BY <2>1, <2>4, <3>1 DEF HasPause
  <2> QED
    BY <2>2, <2>3, <2>4 DEF p
<1>3. ASSUME q # <<>> PROVE HasPause(q) <=> Head(q).kind = "pause" \/ HasPause(Tail(q))
  <2> DEFINE t == Tail(q)
             h == Head(q)
  <2>1. /\ Len(q) \in Nat /\ Len(q) >= 1 /\ DOMAIN q = 1..Len(q) /\ DOMAIN t = 1..(Len(q) - 1)
        /\ h = q[1] /\ \A i \in 1..(Len(q) - 1) : t[i] = q[i + 1]
    BY <1>3
  <2> HIDE DEF t, h
  <2>2. ASSUME HasPause(q) PROVE h.kind = "pause" \/ HasPause(t)
    <3>1. PICK i \in DOMAIN q : q[i].kind = "pause"
      BY <2>2 DEF HasPause
    <3>2. CASE i = 1
      BY <2>1, <3>1, <3>2
    <3>3. CASE i # 1
      <4>1. i - 1 \in 1..(Len(q) - 1) /\ (i - 1) + 1 = i
        BY <2>1, <3>1, <3>3
      <4>2. t[i - 1] = q[i]
        BY <2>1, <4>1
      <4> QED
        BY <2>1, <3>1, <4>1, <4>2 DEF HasPause
    <3> QED
      BY <3>2, <3>3
  <2>3. ASSUME HasPause(t) PROVE HasPause(q)
    <3>1. PICK i \in DOMAIN t : t[i].kind = "pause"
      BY <2>3 DEF HasPause
    <3>2. i + 1 \in DOMAIN q /\ q[i + 1] = t[i]
      BY <2>1, <3>1
    <3> QED
      BY <3>1, <3>2 DEF HasPause
  <2>4. ASSUME h.kind = "pause" PROVE HasPause(q)
    <3>1. 1 \in DOMAIN q
      BY <2>1
    <3> QED
      BY <2>1, <2>4, <3>1 DEF HasPause
  <2> QED
    BY <2>2, <2>3, <2>4 DEF t, h
<1> QED
  BY <1>1, <1>2, <1>3

(* The numbers of the inserts that wait in the inbox, with its reader, in  *)
(* the deferred queue and in a batch, and how many they are.               *)
Waiting(q, s, d, b) == ToSet(InsertsIn(q)) \cup ToSet(InsertsIn(s)) \cup ToSet(d) \cup ToSet(b)
HowMany(q, s, d, b) == Len(InsertsIn(q)) + Len(InsertsIn(s)) + Len(d) + Len(b)

LEMMA CountsFit ==
    ASSUME NEW q \in Seq(Controls), NEW s \in Seq(Controls), NEW d \in Seq(Nat), NEW b \in Seq(Nat)
    PROVE  /\ Len(InsertsIn(q)) \in Nat /\ Len(InsertsIn(s)) \in Nat /\ Len(d) \in Nat /\ Len(b) \in Nat
           /\ HowMany(q, s, d, b) \in Nat
           /\ InsertsIn(q) \in Seq(Nat) /\ InsertsIn(s) \in Seq(Nat)
<1>1. InsertsIn(q) \in Seq(Nat) /\ InsertsIn(s) \in Seq(Nat)
  BY InsertsInFit
<1>2. Len(InsertsIn(q)) \in Nat /\ Len(InsertsIn(s)) \in Nat /\ Len(d) \in Nat /\ Len(b) \in Nat
  BY <1>1
<1> QED
  BY <1>1, <1>2 DEF HowMany

LEMMA NothingCounts ==
    /\ InsertsIn(<<>>) \in Seq(Nat) /\ ToSet(InsertsIn(<<>>)) = {} /\ Len(InsertsIn(<<>>)) = 0
    /\ <<>> \in Seq(Nat) /\ <<>> \in Seq(Controls) /\ ToSet(<<>>) = {} /\ Len(<<>>) = 0
<1>1. <<>> \in Seq(Controls)
  OBVIOUS
<1> QED
  BY <1>1, NoInserts, OneOrNone

(* A control taken out of the inbox waits with the reader. *)
LEMMA TakingKeeps ==
    ASSUME NEW q \in Seq(Controls), q # <<>>, NEW d \in Seq(Nat), NEW b \in Seq(Nat)
    PROVE  /\ Waiting(Tail(q), <<Head(q)>>, d, b) = Waiting(q, <<>>, d, b)
           /\ HowMany(Tail(q), <<Head(q)>>, d, b) = HowMany(q, <<>>, d, b)
           /\ HasPause(Tail(q)) \/ HasPause(<<Head(q)>>) <=> HasPause(q)
<1> DEFINE h == Head(q)
           t == Tail(q)
<1>1. h \in Controls /\ t \in Seq(Controls) /\ <<h>> \in Seq(Controls)
  OBVIOUS
<1> HIDE DEF h, t
<1>2. InsertsIn(<<h>>) = InsertOf(h) /\ InsertOf(h) \in Seq(Nat)
  BY <1>1, InsertsInOne, InsertOfFits
<1>3. /\ Len(InsertsIn(q)) = Len(InsertOf(h)) + Len(InsertsIn(t))
      /\ ToSet(InsertsIn(q)) = ToSet(InsertOf(h)) \cup ToSet(InsertsIn(t))
  BY InsertsInTail DEF h, t
<1>4. Len(InsertsIn(t)) \in Nat /\ Len(InsertOf(h)) \in Nat /\ Len(d) \in Nat /\ Len(b) \in Nat
  BY <1>1, <1>2, CountsFit
<1>5. Waiting(t, <<h>>, d, b) = Waiting(q, <<>>, d, b)
  BY <1>2, <1>3, NothingCounts DEF Waiting
<1>6. HowMany(t, <<h>>, d, b) = HowMany(q, <<>>, d, b)
  <2>1. HowMany(t, <<h>>, d, b) = Len(InsertsIn(t)) + Len(InsertOf(h)) + Len(d) + Len(b)
    BY <1>2, Zenon DEF HowMany
  <2>2. HowMany(q, <<>>, d, b) = Len(InsertOf(h)) + Len(InsertsIn(t)) + 0 + Len(d) + Len(b)
    BY <1>3, NothingCounts, Zenon DEF HowMany
  <2> QED
    BY <1>4, <2>1, <2>2
<1>7. HasPause(t) \/ HasPause(<<h>>) <=> HasPause(q)
  <2>1. HasPause(<<h>>) <=> h.kind = "pause"
    BY <1>1, PausesWaiting
  <2>2. HasPause(q) <=> h.kind = "pause" \/ HasPause(t)
    BY <1>1, PausesWaiting DEF h, t
  <2> QED
    BY <2>1, <2>2
<1> QED
  BY <1>5, <1>6, <1>7 DEF h, t

(* An awaited effect that is done leaves what its reader took in the inbox *)
(* or, where inserts are deferred, in the deferred queue.                  *)
LEMMA SettlingKeeps ==
    ASSUME NEW q \in Seq(Controls), NEW d \in Seq(Nat), NEW b \in Seq(Nat), NEW c \in Controls,
           NEW p, NEW e,
           \/ p = q /\ e = d \o <<>> /\ c.kind = "cancel"
           \/ p = q /\ e = d \o InsertsIn(<<c>>) /\ c.kind \in {"cancel", "insert"}
           \/ p = q \o <<c>> /\ e = d \o <<>>
           \/ p = q \o <<c>> /\ e = d \o InsertsIn(<<c>>) /\ c.kind = "pause"
    PROVE  /\ p \in Seq(Controls) /\ e \in Seq(Nat)
           /\ Waiting(p, <<>>, e, b) = Waiting(q, <<c>>, d, b)
           /\ HowMany(p, <<>>, e, b) = HowMany(q, <<c>>, d, b)
           /\ HasPause(p) <=> HasPause(q) \/ HasPause(<<c>>)
<1>1. InsertsIn(<<c>>) = InsertOf(c) /\ InsertOf(c) \in Seq(Nat)
  BY InsertsInOne, InsertOfFits
<1>2. q \o <<c>> = Append(q, c) /\ Append(q, c) \in Seq(Controls) /\ d \o <<>> = d
  OBVIOUS
<1>3. c.kind # "insert" => InsertOf(c) = <<>>
  BY DEF InsertOf
<1>4. HasPause(<<c>>) <=> c.kind = "pause"
  BY PausesWaiting
<1>5. Len(InsertsIn(q)) \in Nat /\ Len(d) \in Nat /\ Len(b) \in Nat /\ InsertsIn(q) \in Seq(Nat)
  BY CountsFit
<1>6. Len(InsertOf(c)) \in Nat
  BY <1>1
<1>7. CASE p = q /\ e = d \o InsertOf(c) /\ c.kind # "pause"
  <2>1. e \in Seq(Nat) /\ ToSet(e) = ToSet(d) \cup ToSet(InsertOf(c)) /\ Len(e) = Len(d) + Len(InsertOf(c))
    BY <1>1, <1>7, Joined
  <2>2. Waiting(p, <<>>, e, b) = Waiting(q, <<c>>, d, b)
    BY <1>1, <1>7, <2>1, NothingCounts DEF Waiting
  <2>3. HowMany(p, <<>>, e, b) = HowMany(q, <<c>>, d, b)
    <3>1. HowMany(p, <<>>, e, b) = Len(InsertsIn(q)) + 0 + (Len(d) + Len(InsertOf(c))) + Len(b)
      BY <1>7, <2>1, NothingCounts, Zenon DEF HowMany
    <3>2. HowMany(q, <<c>>, d, b) = Len(InsertsIn(q)) + Len(InsertOf(c)) + Len(d) + Len(b)
      BY <1>1, Zenon DEF HowMany
    <3> QED
      BY <1>5, <1>6, <3>1, <3>2
  <2> QED
    BY <1>4, <1>7, <2>1, <2>2, <2>3
<1>8. CASE p = Append(q, c) /\ e = d
  <2>1. InsertsIn(p) = InsertsIn(q) \o InsertOf(c)
    BY <1>8, InsertsInAppend
  <2>2. /\ ToSet(InsertsIn(p)) = ToSet(InsertsIn(q)) \cup ToSet(InsertOf(c))
        /\ Len(InsertsIn(p)) = Len(InsertsIn(q)) + Len(InsertOf(c))
    BY <1>1, <1>5, <2>1, Joined
  <2>3. Waiting(p, <<>>, e, b) = Waiting(q, <<c>>, d, b)
    BY <1>1, <1>8, <2>2, NothingCounts DEF Waiting
  <2>4. HowMany(p, <<>>, e, b) = HowMany(q, <<c>>, d, b)
    <3>1. HowMany(p, <<>>, e, b) = (Len(InsertsIn(q)) + Len(InsertOf(c))) + 0 + Len(d) + Len(b)
      BY <1>8, <2>2, NothingCounts, Zenon DEF HowMany
    <3>2. HowMany(q, <<c>>, d, b) = Len(InsertsIn(q)) + Len(InsertOf(c)) + Len(d) + Len(b)
      BY <1>1, Zenon DEF HowMany
    <3> QED
      BY <1>5, <1>6, <3>1, <3>2
  <2>5. HasPause(p) <=> HasPause(q) \/ c.kind = "pause"
    BY <1>8, PausesWaiting
  <2> QED
    BY <1>2, <1>4, <1>8, <2>3, <2>4, <2>5
<1>9. \/ p = q /\ e = d \o InsertOf(c) /\ c.kind # "pause"
      \/ p = Append(q, c) /\ e = d
  BY <1>1, <1>2, <1>3
<1> QED
  BY <1>7, <1>8, <1>9

(* Draining the inbox moves its inserts behind those deferred, or into the *)
(* batch, and drops the rest.                                              *)
LEMMA DrainingKeeps ==
    ASSUME NEW q \in Seq(Controls), NEW d \in Seq(Nat)
    PROVE  /\ d \o InsertsIn(q) \in Seq(Nat)
           /\ Waiting(<<>>, <<>>, d \o InsertsIn(q), <<>>) = Waiting(q, <<>>, d, <<>>)
           /\ HowMany(<<>>, <<>>, d \o InsertsIn(q), <<>>) = HowMany(q, <<>>, d, <<>>)
           /\ Waiting(<<>>, <<>>, d, InsertsIn(q)) = Waiting(q, <<>>, d, <<>>)
           /\ HowMany(<<>>, <<>>, d, InsertsIn(q)) = HowMany(q, <<>>, d, <<>>)
<1> DEFINE i == InsertsIn(q)
           e == d \o i
<1>1. i \in Seq(Nat)
  BY InsertsInFit
<1>2. e \in Seq(Nat) /\ ToSet(e) = ToSet(d) \cup ToSet(i) /\ Len(e) = Len(d) + Len(i)
      /\ Len(d) \in Nat /\ Len(i) \in Nat
  BY <1>1, Joined
<1> HIDE DEF e
<1>3. Waiting(<<>>, <<>>, e, <<>>) = Waiting(q, <<>>, d, <<>>)
  BY <1>2, NothingCounts DEF Waiting
<1>4. HowMany(<<>>, <<>>, e, <<>>) = HowMany(q, <<>>, d, <<>>)
  BY <1>2, NothingCounts DEF HowMany
<1>5. Waiting(<<>>, <<>>, d, i) = Waiting(q, <<>>, d, <<>>)
  BY NothingCounts DEF Waiting
<1>6. HowMany(<<>>, <<>>, d, i) = HowMany(q, <<>>, d, <<>>)
  BY <1>2, NothingCounts DEF HowMany
<1> QED
  BY <1>2, <1>3, <1>4, <1>5, <1>6 DEF e

(* The batch takes the first control in, or hands its inserts over. *)
LEMMA BatchKeeps ==
    ASSUME NEW q \in Seq(Controls), NEW d \in Seq(Nat), NEW b \in Seq(Nat)
    PROVE  /\ q # <<>> =>
                /\ b \o InsertOf(Head(q)) \in Seq(Nat)
                /\ Waiting(Tail(q), <<>>, d, b \o InsertOf(Head(q))) = Waiting(q, <<>>, d, b)
                /\ HowMany(Tail(q), <<>>, d, b \o InsertOf(Head(q))) = HowMany(q, <<>>, d, b)
           /\ d \o b \in Seq(Nat)
           /\ Waiting(q, <<>>, d \o b, <<>>) = Waiting(q, <<>>, d, b)
           /\ HowMany(q, <<>>, d \o b, <<>>) = HowMany(q, <<>>, d, b)
<1>1. ASSUME q # <<>>
      PROVE  /\ b \o InsertOf(Head(q)) \in Seq(Nat)
             /\ Waiting(Tail(q), <<>>, d, b \o InsertOf(Head(q))) = Waiting(q, <<>>, d, b)
             /\ HowMany(Tail(q), <<>>, d, b \o InsertOf(Head(q))) = HowMany(q, <<>>, d, b)
  <2> DEFINE i == InsertOf(Head(q))
             t == Tail(q)
             e == b \o i
  <2>1. Head(q) \in Controls /\ t \in Seq(Controls)
    BY <1>1
  <2>2. i \in Seq(Nat)
    BY <2>1, InsertOfFits
  <2>3. /\ Len(InsertsIn(q)) = Len(i) + Len(InsertsIn(t))
        /\ ToSet(InsertsIn(q)) = ToSet(i) \cup ToSet(InsertsIn(t))
    BY <1>1, InsertsInTail
  <2> HIDE DEF i, t
  <2>4. e \in Seq(Nat) /\ ToSet(e) = ToSet(b) \cup ToSet(i) /\ Len(e) = Len(b) + Len(i)
        /\ Len(b) \in Nat /\ Len(i) \in Nat
    BY <2>2, Joined
  <2>5. Len(InsertsIn(t)) \in Nat /\ Len(d) \in Nat
    BY <2>1, CountsFit
  <2> HIDE DEF e
  <2>6. Waiting(t, <<>>, d, e) = Waiting(q, <<>>, d, b)
    BY <2>3, <2>4 DEF Waiting
  <2>7. HowMany(t, <<>>, d, e) = HowMany(q, <<>>, d, b)
    BY <2>3, <2>4, <2>5, NothingCounts DEF HowMany
  <2> QED
    BY <2>4, <2>6, <2>7 DEF e, i, t
<1> DEFINE e == d \o b
<1>2. e \in Seq(Nat) /\ ToSet(e) = ToSet(d) \cup ToSet(b) /\ Len(e) = Len(d) + Len(b)
      /\ Len(d) \in Nat /\ Len(b) \in Nat
  BY Joined
<1>3. Len(InsertsIn(q)) \in Nat
  BY CountsFit
<1> HIDE DEF e
<1>4. Waiting(q, <<>>, e, <<>>) = Waiting(q, <<>>, d, b)
  BY <1>2, NothingCounts DEF Waiting
<1>5. HowMany(q, <<>>, e, <<>>) = HowMany(q, <<>>, d, b)
  BY <1>2, <1>3, NothingCounts DEF HowMany
<1> QED
  BY <1>1, <1>2, <1>4, <1>5 DEF e

(* An insert that leaves the queues lands. *)
LEMMA FirstLeaves ==
    ASSUME NEW d \in Seq(Nat), d # <<>>
    PROVE  /\ Tail(d) \in Seq(Nat) /\ Head(d) \in Nat
           /\ ToSet(d) = {Head(d)} \cup ToSet(Tail(d)) /\ Len(d) = 1 + Len(Tail(d))
<1> DEFINE h == Head(d)
           t == Tail(d)
<1>1. h \in Nat /\ t \in Seq(Nat) /\ <<h>> \in Seq(Nat) /\ d = <<h>> \o t
  OBVIOUS
<1> HIDE DEF h, t
<1>2. ToSet(d) = ToSet(<<h>>) \cup ToSet(t) /\ Len(d) = Len(<<h>>) + Len(t)
  BY <1>1, Joined
<1>3. ToSet(<<h>>) = {h} /\ Len(<<h>>) = 1
  BY <1>1, OneOrNone
<1> QED
  BY <1>1, <1>2, <1>3 DEF h, t

(* Where the controls of this invocation are: what a commit under way will *)
(* make durable is in no queue any more, and a batch holds controls only   *)
(* while it executes.                                                      *)
Coming == IF pc = "commit" /\ wr \in {"queued", "running"} THEN Landing(chg) ELSE <<>>

InsertsAccepted == {c.n : c \in {d \in accepted : d.kind = "insert"}}
PauseAccepted == \E c \in accepted : c.kind = "pause"
PauseWaits == HasPause(queue) \/ HasPause(slot) \/ batch.pause

Kept ==
    /\ ToSet(landed) \cup Waiting(queue, slot, deferred, batch.inserts) \cup ToSet(Coming)
         = InsertsAccepted
    /\ Len(landed) + HowMany(queue, slot, deferred, batch.inserts) + Len(Coming)
         = Cardinality(InsertsAccepted)
    /\ PauseAccepted => PauseWaits

PlacesFit ==
    /\ landed \in Seq(Nat) /\ deferred \in Seq(Nat) /\ Coming \in Seq(Nat)
    /\ batch.inserts \in Seq(Nat) /\ batch.pause \in BOOLEAN
    /\ pc \notin Interruptibles => slot = <<>>
    /\ pc # "exec" => batch.inserts = <<>> /\ batch.pause = FALSE
    /\ pc = "commit" /\ wr = "written" => head.st = chg.st

AcceptedFit == \A c \in accepted : c \in Controls /\ c.n <= arrived

ControlsInv == PlacesFit /\ AcceptedFit /\ (Continues => Kept)

LEMMA KeptIsConserved ==
    ASSUME LifecycleInv, ControlsInv PROVE ControlsConserved
<1> SUFFICES ASSUME Continues
             PROVE  /\ ToSet(InsertPlaces) = InsertsAccepted
                    /\ Cardinality(ToSet(InsertPlaces)) = Len(InsertPlaces)
                    /\ PauseAccepted => PauseWaits
  BY DEF ControlsConserved, InsertsAccepted, PauseAccepted, PauseWaits
<1>1. Kept
  BY DEF ControlsInv
<1> DEFINE l == landed
           q == InsertsIn(queue)
           s == InsertsIn(slot)
           d == deferred
           b == batch.inserts
           n == Coming
<1>2. l \in Seq(Nat) /\ d \in Seq(Nat) /\ b \in Seq(Nat) /\ n \in Seq(Nat)
  BY DEF ControlsInv, PlacesFit
<1>3. q \in Seq(Nat) /\ s \in Seq(Nat)
  BY InsertsInFit DEF LifecycleInv, InputsFit
<1>4. InsertPlaces = l \o q \o s \o d \o b \o n
  BY DEF InsertPlaces, Coming
<1>5. /\ ToSet(l) \cup (ToSet(q) \cup ToSet(s) \cup ToSet(d) \cup ToSet(b)) \cup ToSet(n)
           = InsertsAccepted
      /\ Len(l) + (Len(q) + Len(s) + Len(d) + Len(b)) + Len(n) = Cardinality(InsertsAccepted)
  BY <1>1 DEF Kept, Waiting, HowMany
<1> HIDE DEF l, q, s, d, b, n
<1>6. /\ l \o q \in Seq(Nat) /\ Len(l \o q) = Len(l) + Len(q)
      /\ ToSet(l \o q) = ToSet(l) \cup ToSet(q) /\ Len(l) \in Nat /\ Len(q) \in Nat
  BY <1>2, <1>3, Joined
<1>7. /\ (l \o q) \o s \in Seq(Nat) /\ Len((l \o q) \o s) = Len(l \o q) + Len(s)
      /\ ToSet((l \o q) \o s) = ToSet(l \o q) \cup ToSet(s) /\ Len(s) \in Nat
  BY <1>3, <1>6, Joined
<1>8. /\ (l \o q \o s) \o d \in Seq(Nat) /\ Len((l \o q \o s) \o d) = Len(l \o q \o s) + Len(d)
      /\ ToSet((l \o q \o s) \o d) = ToSet(l \o q \o s) \cup ToSet(d) /\ Len(d) \in Nat
  BY <1>2, <1>7, Joined
<1>9. /\ (l \o q \o s \o d) \o b \in Seq(Nat)
      /\ Len((l \o q \o s \o d) \o b) = Len(l \o q \o s \o d) + Len(b)
      /\ ToSet((l \o q \o s \o d) \o b) = ToSet(l \o q \o s \o d) \cup ToSet(b) /\ Len(b) \in Nat
  BY <1>2, <1>8, Joined
<1>10. /\ Len((l \o q \o s \o d \o b) \o n) = Len(l \o q \o s \o d \o b) + Len(n)
       /\ ToSet((l \o q \o s \o d \o b) \o n) = ToSet(l \o q \o s \o d \o b) \cup ToSet(n)
       /\ Len(n) \in Nat
  BY <1>2, <1>9, Joined
<1>11. ToSet(InsertPlaces) = InsertsAccepted
  BY <1>4, <1>5, <1>6, <1>7, <1>8, <1>9, <1>10, Zenon
<1>12. Len(InsertPlaces) = Len(l) + Len(q) + Len(s) + Len(d) + Len(b) + Len(n)
  BY <1>4, <1>6, <1>7, <1>8, <1>9, <1>10, Zenon
<1>13. Len(InsertPlaces) = Cardinality(InsertsAccepted)
  BY <1>5, <1>6, <1>7, <1>8, <1>9, <1>10, <1>12
<1> QED
  BY <1>1, <1>11, <1>13 DEF Kept

(* What each change makes durable of the controls. *)
LEMMA OnlyInsertsLand ==
    ASSUME NEW c, NEW k, NEW why, NEW response
    PROVE  /\ Landing(Started) = <<>> /\ Landing(NoChange) = <<>>
           /\ Landing(Limited(why)) = <<>> /\ Landing(Failed(why)) = <<>>
           /\ Landing(SuspendAt(c.st, why)) = <<>> /\ Landing(Resumed(c, why)) = <<>>
           /\ Landing(Rewrite(c, why)) = <<>> /\ Landing(BatchOutcome(c, k, why)) = <<>>
           /\ Landing(ModelTurn(c, response, MaxTokens)) = <<>>
           /\ Landing(KeepActive(ModelTurn(c, response, MaxTokens))) = <<>>
           /\ Landing(Insert(k)) = <<k>>
<1>1. Landing(Started) = <<>> /\ Landing(NoChange) = <<>>
  BY DEF Landing, Started, NoChange, Change, Fact
<1>2. Landing(Limited(why)) = <<>> /\ Landing(Failed(why)) = <<>>
  BY DEF Landing, Limited, Failed, Change, Fact
<1>3. Landing(SuspendAt(c.st, why)) = <<>> /\ Landing(Resumed(c, why)) = <<>>
  BY DEF Landing, SuspendAt, Resumed, Change, Fact
<1>4. Landing(Rewrite(c, why)) = <<>> /\ Landing(BatchOutcome(c, k, why)) = <<>>
  BY DEF Landing, Rewrite, BatchOutcome, Change, Fact
<1>5. ModelTurn(c, response, MaxTokens).fact.kind = "model_turn"
  BY DEF ModelTurn, Change, Fact
<1>6. KeepActive(ModelTurn(c, response, MaxTokens)).fact.kind = "model_turn"
  BY DEF KeepActive, ModelTurn, Change, Fact
<1>7. Landing(Insert(k)) = <<k>>
  BY DEF Landing, Insert, Change, Fact, External, Message
<1> QED
  BY <1>1, <1>2, <1>3, <1>4, <1>5, <1>6, <1>7 DEF Landing

LEMMA EndsTheWork ==
    ASSUME NEW st, NEW why, NEW c, NEW k
    PROVE  /\ ~IsActive(Limited(why).st) /\ ~IsActive(Failed(why).st)
           /\ st \in States => ~IsActive(SuspendAt(st, why).st)
           /\ why # "none" => ~IsActive(BatchOutcome(c, k, why).st)
<1>1. ~IsActive(Limited(why).st) /\ ~IsActive(Failed(why).st)
  <2>1. Limited(why).st.kind = "limited" /\ Failed(why).st.kind = "failed"
    BY DEF Limited, Failed, Change, Terminal
  <2> QED
    BY <2>1 DEF IsActive, ActiveKinds
<1>2. ASSUME st \in States PROVE ~IsActive(SuspendAt(st, why).st)
  <2>1. SuspendAt(st, why).st = Suspended(st, why)
    BY SuspendShape
  <2>2. Suspended(st, why).kind = "suspended"
    BY <1>2 DEF Suspended, States
  <2> QED
    BY <2>1, <2>2 DEF IsActive, ActiveKinds
<1>3. ASSUME why # "none" PROVE ~IsActive(BatchOutcome(c, k, why).st)
  <2>1. BatchOutcome(c, k, why).st
          = Suspended(Active(SubSeq(c.st.pending, k + 1, Len(c.st.pending)), c.st.ptp), why)
    BY <1>3 DEF BatchOutcome, Change, Fact
  <2>2. Suspended(Active(SubSeq(c.st.pending, k + 1, Len(c.st.pending)), c.st.ptp), why).kind
          = "suspended"
    BY DEF Suspended, Active
  <2> QED
    BY <2>1, <2>2 DEF IsActive, ActiveKinds
<1> QED
  BY <1>1, <1>2, <1>3

(* The queues and the batch hold the same inserts after a step. *)
Rearranges ==
    /\ Waiting(queue', slot', deferred', batch'.inserts)
         = Waiting(queue, slot, deferred, batch.inserts)
    /\ HowMany(queue', slot', deferred', batch'.inserts)
         = HowMany(queue, slot, deferred, batch.inserts)

PlacesStay ==
    /\ deferred' \in Seq(Nat) /\ batch'.inserts \in Seq(Nat) /\ batch'.pause \in BOOLEAN
    /\ pc' \notin Interruptibles => slot' = <<>>
    /\ pc' # "exec" => batch'.inserts = <<>> /\ batch'.pause = FALSE

(* A step that commits nothing and keeps the engine at work. *)
LEMMA MoveKeepsControls ==
    ASSUME LifecycleInv, ControlsInv, pc \in ActivePoints, pc' \in ActivePoints,
           UNCHANGED <<accepted, arrived, landed>>, Rearranges, PlacesStay,
           PauseAccepted => PauseWaits'
    PROVE  ControlsInv'
<1>1. pc # "commit" /\ pc' # "commit" /\ Continues
  BY DEF ActivePoints, Effects, Interruptibles, Continues, Live, Settled
<1>2. Coming = <<>> /\ Coming' = <<>> /\ <<>> \in Seq(Nat)
  BY <1>1 DEF Coming
<1>3. UNCHANGED <<InsertsAccepted, PauseAccepted>> /\ AcceptedFit'
  BY DEF InsertsAccepted, PauseAccepted, ControlsInv, AcceptedFit
<1>4. PlacesFit'
  BY <1>1, <1>2 DEF ControlsInv, PlacesFit, PlacesStay
<1>5. Kept'
  BY <1>1, <1>2, <1>3 DEF ControlsInv, Kept, Rearranges
<1> QED
  BY <1>3, <1>4, <1>5 DEF ControlsInv

(* A commit that leaves the run at work takes from the queues what it will *)
(* land, and leaves an accepted pause in the inbox.                        *)
LEMMA CommitKeepsControls ==
    ASSUME LifecycleInv, ControlsInv, pc \in ActivePoints, NEW x, Commit(x),
           UNCHANGED <<accepted, arrived>>, slot' = <<>>, batch'.inserts = <<>>, batch'.pause = FALSE,
           deferred' \in Seq(Nat), queue' \in Seq(Controls), Landing(x) \in Seq(Nat),
           IsActive(x.st) =>
              /\ Waiting(queue', <<>>, deferred', <<>>) \cup ToSet(Landing(x))
                   = Waiting(queue, slot, deferred, batch.inserts)
              /\ HowMany(queue', <<>>, deferred', <<>>) + Len(Landing(x))
                   = HowMany(queue, slot, deferred, batch.inserts)
              /\ PauseAccepted => HasPause(queue')
    PROVE  ControlsInv'
<1>1. pc # "commit" /\ Continues
  BY DEF ActivePoints, Effects, Interruptibles, Continues, Live, Settled
<1>2. /\ UNCHANGED <<head, landed>> /\ chg' \in {x, Limited("deadline")}
      /\ \/ pc' = "commit" /\ wr' = "queued"
         \/ pc' = "broken" /\ wr' = "idle"
  BY DEF Commit, Propose
<1>3. Coming = <<>>
  BY <1>1 DEF Coming
<1>4. Landing(Limited("deadline")) = <<>> /\ ~IsActive(Limited("deadline").st) /\ <<>> \in Seq(Nat)
  <2>1. Landing(Limited("deadline")) = <<>>
    BY OnlyInsertsLand
  <2>2. ~IsActive(Limited("deadline").st)
    BY EndsTheWork
  <2> QED
    BY <2>1, <2>2, NothingCounts
<1>5. Coming' \in Seq(Nat)
  BY <1>2, <1>4 DEF Coming
<1>6. UNCHANGED <<InsertsAccepted, PauseAccepted>> /\ AcceptedFit'
  BY DEF InsertsAccepted, PauseAccepted, ControlsInv, AcceptedFit
<1>7. batch'.inserts = <<>> /\ batch'.pause = FALSE
  OBVIOUS
<1>8. PlacesFit'
  BY <1>2, <1>4, <1>5, <1>7 DEF ControlsInv, PlacesFit
<1>9. ASSUME Continues' PROVE Kept'
  <2>1. pc' = "commit" /\ wr' = "queued" /\ chg' = x /\ IsActive(x.st)
    BY <1>2, <1>4, <1>9 DEF Continues, Live, Settled
  <2>2. Coming' = Landing(x)
    BY <2>1 DEF Coming
  <2> DEFINE w == Waiting(queue', <<>>, deferred', <<>>)
             n == HowMany(queue', <<>>, deferred', <<>>)
             m == Len(Landing(x))
  <2>3. /\ w \cup ToSet(Landing(x)) = Waiting(queue, slot, deferred, batch.inserts)
        /\ n + m = HowMany(queue, slot, deferred, batch.inserts)
        /\ PauseAccepted => HasPause(queue')
    BY <2>1
  <2>4. n \in Nat /\ m \in Nat /\ Len(landed) \in Nat
    <3>1. n \in Nat
      BY NothingCounts, CountsFit
    <3>2. m \in Nat /\ Len(landed) \in Nat
      BY DEF ControlsInv, PlacesFit
    <3> QED
      BY <3>1, <3>2
  <2>5. /\ ToSet(landed) \cup Waiting(queue, slot, deferred, batch.inserts) \cup ToSet(<<>>)
             = InsertsAccepted
        /\ Len(landed) + HowMany(queue, slot, deferred, batch.inserts) + 0
             = Cardinality(InsertsAccepted)
    BY <1>1, <1>3, NothingCounts DEF ControlsInv, Kept
  <2> HIDE DEF w, n, m
  <2>6. ToSet(landed) \cup w \cup ToSet(Landing(x)) = InsertsAccepted
    BY <2>3, <2>5, NothingCounts
  <2>7. Len(landed) + n + m = Cardinality(InsertsAccepted)
    BY <2>3, <2>4, <2>5
  <2> QED
    BY <1>2, <1>6, <1>7, <2>2, <2>3, <2>6, <2>7 DEF Kept, PauseWaits, w, n, m
<1> QED
  BY <1>6, <1>8, <1>9 DEF ControlsInv

(* A commit that ends the run, or suspends it, leaves nothing to keep. *)
LEMMA EndKeepsControls ==
    ASSUME LifecycleInv, ControlsInv, pc \in ActivePoints, NEW x, Commit(x), ~IsActive(x.st),
           UNCHANGED <<accepted, arrived>>, slot' = <<>>, batch'.inserts = <<>>, batch'.pause = FALSE,
           deferred' \in Seq(Nat), queue' \in Seq(Controls), Landing(x) = <<>>
    PROVE  ControlsInv'
<1>1. Landing(x) \in Seq(Nat)
  BY NothingCounts
<1> QED
  BY <1>1, CommitKeepsControls

(* An invocation that ended holds nothing. *)
LEMMA DiscardKeepsControls ==
    ASSUME ControlsInv, Discard, UNCHANGED <<accepted, arrived>>, landed' \in Seq(Nat),
           pc' \in Settled
    PROVE  ControlsInv'
<1>1. /\ deferred' = <<>> /\ slot' = <<>> /\ batch'.inserts = <<>> /\ batch'.pause = FALSE
      /\ <<>> \in Seq(Nat)
  BY DEF Discard, NoBatch
<1>2. pc' \notin {"exec", "commit"}
  BY DEF Settled
<1>3. Coming' = <<>> /\ ~Continues'
  BY <1>2 DEF Coming, Continues, Live
<1> QED
  BY <1>1, <1>2, <1>3 DEF ControlsInv, PlacesFit, AcceptedFit

LEMMA AtMostOne ==
    ASSUME NEW s \in Seq(Controls), Len(s) <= 1, s # <<>>
    PROVE  \E c \in Controls : s = <<c>>
<1>1. Len(s) \in Nat /\ Len(s) # 0
  BY EmptySeq
<1>2. Len(s) = 1
  <2> DEFINE n == Len(s)
  <2>1. n \in Nat /\ n # 0 /\ n <= 1
    BY <1>1
  <2> HIDE DEF n
  <2>2. n = 1
    BY <2>1
  <2> QED
    BY <2>2 DEF n
<1>3. s[1] \in Controls
  BY <1>2
<1>4. <<s[1]>> \in Seq(Controls) /\ Len(<<s[1]>>) = Len(s) /\ \A i \in 1..Len(s) : s[i] = <<s[1]>>[i]
  BY <1>2, <1>3
<1>5. s = <<s[1]>>
  BY <1>4, SeqEqual
<1> QED
  BY <1>3, <1>5

(* EffectDone. *)
LEMMA EffectDoneKeepsControls ==
    ASSUME EngineAssumption, LifecycleInv, ControlsInv, EffectDone
    PROVE  /\ queue' \in Seq(Controls) /\ deferred' \in Seq(Nat) /\ slot' = <<>>
           /\ batch.inserts = <<>> /\ batch.pause = FALSE
           /\ Waiting(queue', <<>>, deferred', <<>>) = Waiting(queue, slot, deferred, <<>>)
           /\ HowMany(queue', <<>>, deferred', <<>>) = HowMany(queue, slot, deferred, <<>>)
           /\ PauseAccepted => HasPause(queue')
<1>1. /\ queue \in Seq(Controls) /\ slot \in Seq(Controls) /\ Len(slot) <= 1
      /\ deferred \in Seq(Nat)
  BY DEF LifecycleInv, InputsFit, ControlsInv, PlacesFit
<1>2. batch.inserts = <<>> /\ batch.pause = FALSE /\ (PauseAccepted => HasPause(queue) \/ HasPause(slot))
  <2>1. pc # "exec" /\ Continues
    BY DEF EffectDone, Interruptibles, Continues, Live, Settled
  <2> QED
    BY <2>1 DEF ControlsInv, PlacesFit, Kept, PauseWaits
<1>3. queue' = Requeued /\ deferred' = DeferredBy(slot) /\ slot' = <<>>
  BY DEF EffectDone
<1> DEFINE Goal == /\ queue' \in Seq(Controls) /\ deferred' \in Seq(Nat)
                   /\ Waiting(queue', <<>>, deferred', <<>>) = Waiting(queue, slot, deferred, <<>>)
                   /\ HowMany(queue', <<>>, deferred', <<>>) = HowMany(queue, slot, deferred, <<>>)
                   /\ HasPause(queue') <=> HasPause(queue) \/ HasPause(slot)
<1> SUFFICES Goal
  BY <1>2, <1>3
<1>4. CASE slot = <<>>
  <2>1. queue' = queue
    BY <1>1, <1>3, <1>4 DEF Requeued
  <2>2. deferred' = deferred
    <3>1. deferred' = deferred \o <<>>
      BY <1>3, <1>4, NoInserts DEF DeferredBy
    <3> QED
      BY <1>1, <3>1
  <2>3. ~HasPause(slot)
    BY <1>4 DEF HasPause
  <2> QED
    BY <1>1, <1>4, <2>1, <2>2, <2>3
<1>5. CASE slot # <<>>
  <2>1. PICK c \in Controls : slot = <<c>>
    BY <1>1, <1>5, AtMostOne
  <2>2. slot[1] = c
    BY <2>1
  <2>3. c.kind \in {"pause", "insert", "cancel"}
    BY DEF Controls, EngineAssumption
  <2>4. queue' = queue \o (IF NonInterrupting(c) THEN <<>> ELSE <<c>>)
    BY <1>3, <1>5, <2>1, <2>2 DEF Requeued
  <2>5. deferred' = deferred \o (IF Defers THEN InsertsIn(<<c>>) ELSE <<>>)
    BY <1>3, <2>1 DEF DeferredBy
  <2>6. queue \o <<>> = queue
    BY <1>1
  <2>7. \/ queue' = queue /\ deferred' = deferred \o <<>> /\ c.kind = "cancel"
        \/ queue' = queue /\ deferred' = deferred \o InsertsIn(<<c>>) /\ c.kind \in {"cancel", "insert"}
        \/ queue' = queue \o <<c>> /\ deferred' = deferred \o <<>>
        \/ queue' = queue \o <<c>> /\ deferred' = deferred \o InsertsIn(<<c>>) /\ c.kind = "pause"
    <3>1. CASE Defers
      <4>1. deferred' = deferred \o InsertsIn(<<c>>)
        BY <2>5, <3>1
      <4>2. CASE NonInterrupting(c)
        <5>1. queue' = queue
          BY <2>4, <2>6, <4>2
        <5>2. c.kind \in {"cancel", "insert"}
          BY <4>2 DEF NonInterrupting
        <5> QED
          BY <4>1, <5>1, <5>2
      <4>3. CASE ~NonInterrupting(c)
        <5>1. queue' = queue \o <<c>>
          BY <2>4, <4>3
        <5>2. c.kind = "pause"
          BY <2>3, <3>1, <4>3 DEF NonInterrupting
        <5> QED
          BY <4>1, <5>1, <5>2
      <4> QED
        BY <4>2, <4>3
    <3>2. CASE ~Defers
      <4>1. deferred' = deferred \o <<>>
        BY <2>5, <3>2
      <4>2. CASE NonInterrupting(c)
        <5>1. queue' = queue
          BY <2>4, <2>6, <4>2
        <5>2. c.kind = "cancel"
          BY <3>2, <4>2 DEF NonInterrupting
        <5> QED
          BY <4>1, <5>1, <5>2
      <4>3. CASE ~NonInterrupting(c)
        BY <2>4, <4>1, <4>3
      <4> QED
        BY <4>2, <4>3
    <3> QED
      BY <3>1, <3>2
  <2>8. <<>> \in Seq(Nat)
    OBVIOUS
  <2>9. /\ queue' \in Seq(Controls) /\ deferred' \in Seq(Nat)
        /\ Waiting(queue', <<>>, deferred', <<>>) = Waiting(queue, <<c>>, deferred, <<>>)
        /\ HowMany(queue', <<>>, deferred', <<>>) = HowMany(queue, <<c>>, deferred, <<>>)
        /\ HasPause(queue') <=> HasPause(queue) \/ HasPause(<<c>>)
    BY <1>1, <2>7, <2>8, SettlingKeeps
  <2> QED
    BY <2>1, <2>9
<1> QED
  BY <1>4, <1>5

LEMMA InvocationKeepsControls ==
    ASSUME LifecycleInv, ControlsInv, Invocation PROVE ControlsInv'
<1>1. /\ deferred' = <<>> /\ queue' = <<>> /\ slot' = <<>> /\ batch' = NoBatch
      /\ accepted' = {} /\ landed' = <<>>
  BY DEF Invocation, StartRun, ContinueRun, ResumeRun, Begin
<1>2. /\ pc' \in {"stopped", "broken", "commit", "open"}
      /\ pc' = "commit" => wr' = "queued" /\ Landing(chg') = <<>>
  <2>1. CASE StartRun
    <3>1. \/ pc' = "stopped"
          \/ pc' = "commit" /\ wr' = "queued" /\ chg' = Started
      BY <2>1 DEF StartRun
    <3> QED
      BY <3>1, OnlyInsertsLand
  <2>2. CASE ContinueRun
    BY <2>2 DEF ContinueRun
  <2>3. CASE ResumeRun
    <3>1. PICK messages : Propose(head, Resumed(head, messages), expired')
      BY <2>3 DEF ResumeRun
    <3>2. /\ chg' \in {Resumed(head, messages), Limited("deadline")}
          /\ \/ pc' = "commit" /\ wr' = "queued"
             \/ pc' = "broken"
      BY <3>1 DEF Propose
    <3>3. Landing(Resumed(head, messages)) = <<>> /\ Landing(Limited("deadline")) = <<>>
      BY OnlyInsertsLand
    <3> QED
      BY <3>2, <3>3
  <2> QED
    BY <2>1, <2>2, <2>3 DEF Invocation
<1>3. Coming' = <<>>
  BY <1>2 DEF Coming
<1>4. batch'.inserts = <<>> /\ batch'.pause = FALSE
  BY <1>1 DEF NoBatch
<1>5. PlacesFit' /\ AcceptedFit'
  BY <1>1, <1>2, <1>3, <1>4, NothingCounts DEF PlacesFit, AcceptedFit
<1>6. Kept'
  <2>1. InsertsAccepted' = {} /\ ~PauseAccepted'
    BY <1>1 DEF InsertsAccepted, PauseAccepted
  <2>2. Cardinality({}) = 0
    BY FS_EmptySet
  <2>3. Waiting(<<>>, <<>>, <<>>, <<>>) = {} /\ HowMany(<<>>, <<>>, <<>>, <<>>) = 0
    BY NothingCounts DEF Waiting, HowMany
  <2> QED
    BY <1>1, <1>3, <1>4, <2>1, <2>2, <2>3, NothingCounts DEF Kept
<1> QED
  BY <1>5, <1>6 DEF ControlsInv

(* A submitted control is new. *)
LEMMA SubmitKeepsControls ==
    ASSUME EngineAssumption, LifecycleInv, ControlsInv, Submit PROVE ControlsInv'
<1>1. PICK kind \in ControlKinds :
         /\ queue' = Append(queue, [kind |-> kind, n |-> arrived + 1])
         /\ accepted' = accepted \cup {[kind |-> kind, n |-> arrived + 1]}
  BY DEF Submit
<1> DEFINE c == [kind |-> kind, n |-> arrived + 1]
<1>2. /\ arrived' = arrived + 1 /\ arrived < MaxControls
      /\ UNCHANGED <<head, pc, deferred, slot, batch, chg, wr, landed>>
  BY DEF Submit, committing
<1>3. arrived \in Nat /\ MaxControls \in Nat /\ queue \in Seq(Controls) /\ slot \in Seq(Controls)
  BY DEF LifecycleInv, InputsFit, EngineAssumption
<1>4. c \in Controls /\ c.kind = kind /\ c.n = arrived + 1 /\ c.n \in Nat
  BY <1>2, <1>3 DEF Controls
<1> HIDE DEF c
<1>5. queue' = Append(queue, c) /\ accepted' = accepted \cup {c}
  BY <1>1 DEF c
<1>6. AcceptedFit'
  <2>1. ASSUME NEW d \in accepted PROVE d \in Controls /\ d.n <= arrived'
    <3>1. d \in Controls /\ d.n <= arrived
      BY DEF ControlsInv, AcceptedFit
    <3>2. d.n \in Int
      BY <3>1 DEF Controls
    <3> QED
      BY <1>2, <1>3, <3>1, <3>2
  <2>2. c.n <= arrived'
    BY <1>2, <1>3, <1>4
  <2> QED
    BY <1>4, <1>5, <2>1, <2>2 DEF AcceptedFit
<1>7. PlacesFit' /\ Coming' = Coming /\ (Continues' <=> Continues)
  BY <1>2 DEF ControlsInv, PlacesFit, Coming, Continues, Live
<1>8. ASSUME Continues PROVE Kept'
  <2> DEFINE i == InsertsIn(queue)
             o == InsertOf(c)
             J == InsertsAccepted
  <2>1. Kept
    BY <1>8 DEF ControlsInv
  <2>2. i \in Seq(Nat) /\ o \in Seq(Nat)
    BY <1>3, <1>4, InsertsInFit, InsertOfFits
  <2>3. InsertsIn(queue') = i \o o
    BY <1>3, <1>4, <1>5, InsertsInAppend
  <2>4. /\ ToSet(InsertsIn(queue')) = ToSet(i) \cup ToSet(o)
        /\ Len(InsertsIn(queue')) = Len(i) + Len(o) /\ Len(i) \in Nat /\ Len(o) \in Nat
    BY <2>2, <2>3, Joined
  <2>5. InsertsAccepted' = J \cup ToSet(o) /\ Cardinality(InsertsAccepted') = Cardinality(J) + Len(o)
    <3>1. \A d \in accepted : d.n \in 1..arrived
      BY <1>3 DEF ControlsInv, AcceptedFit, Controls
    <3>2. J \subseteq 1..arrived /\ IsFiniteSet(J)
      <4>1. J \subseteq 1..arrived
        BY <3>1 DEF InsertsAccepted
      <4>2. 1 \in Int /\ arrived \in Int
        BY <1>3
      <4>3. IsFiniteSet(1..arrived)
        BY <4>2, FS_Interval
      <4> QED
        BY <4>1, <4>3, FS_Subset
    <3>3. Cardinality(J) \in Nat
      BY <3>2, FS_CardinalityType
    <3>4. CASE c.kind = "insert"
      <4>1. o = <<c.n>>
        BY <3>4 DEF InsertOf
      <4>2. ToSet(o) = {c.n} /\ Len(o) = 1
        BY <1>4, <4>1, OneOrNone
      <4>3. InsertsAccepted' = J \cup {c.n}
        BY <1>5, <3>4 DEF InsertsAccepted
      <4>4. c.n \notin J
        BY <1>3, <1>4, <3>2
      <4>5. Cardinality(J \cup {c.n}) = Cardinality(J) + 1
        BY <3>2, <4>4, FS_AddElement
      <4> QED
        BY <4>2, <4>3, <4>5
    <3>5. CASE c.kind # "insert"
      <4>1. o = <<>>
        BY <3>5 DEF InsertOf
      <4>2. InsertsAccepted' = J
        BY <1>5, <3>5 DEF InsertsAccepted
      <4> QED
        BY <3>3, <4>1, <4>2, NothingCounts
    <3> QED
      BY <3>4, <3>5
  <2>6. UNCHANGED <<deferred, slot, batch.inserts, batch.pause, landed, Coming>>
    BY <1>2, <1>7
  <2>7. Len(landed) \in Nat /\ Len(Coming) \in Nat /\ Len(deferred) \in Nat
        /\ Len(batch.inserts) \in Nat /\ Len(InsertsIn(slot)) \in Nat
    <3>1. landed \in Seq(Nat) /\ Coming \in Seq(Nat) /\ deferred \in Seq(Nat)
          /\ batch.inserts \in Seq(Nat) /\ InsertsIn(slot) \in Seq(Nat)
      BY <1>3, InsertsInFit DEF ControlsInv, PlacesFit
    <3> QED
      BY <3>1
  <2> DEFINE s == InsertsIn(slot)
             b == batch.inserts
             L == landed
             n == Coming
             d == deferred
  <2>8. /\ ToSet(L) \cup (ToSet(i) \cup ToSet(s) \cup ToSet(d) \cup ToSet(b)) \cup ToSet(n) = J
        /\ Len(L) + (Len(i) + Len(s) + Len(d) + Len(b)) + Len(n) = Cardinality(J)
    BY <2>1 DEF Kept, Waiting, HowMany
  <2>9. /\ ToSet(L) \cup ((ToSet(i) \cup ToSet(o)) \cup ToSet(s) \cup ToSet(d) \cup ToSet(b))
             \cup ToSet(n) = InsertsAccepted'
    BY <2>5, <2>8
  <2>10. Len(L) + ((Len(i) + Len(o)) + Len(s) + Len(d) + Len(b)) + Len(n) = Cardinality(InsertsAccepted')
    <3> DEFINE nL == Len(L)
               ni == Len(i)
               no == Len(o)
               ns == Len(s)
               nd == Len(d)
               nb == Len(b)
               nn == Len(n)
    <3>1. /\ nL \in Nat /\ ni \in Nat /\ no \in Nat /\ ns \in Nat /\ nd \in Nat /\ nb \in Nat
          /\ nn \in Nat
      BY <2>4, <2>7
    <3>2. nL + (ni + ns + nd + nb) + nn = Cardinality(J)
      BY <2>8
    <3>3. Cardinality(InsertsAccepted') = Cardinality(J) + no
      BY <2>5
    <3> HIDE DEF nL, ni, no, ns, nd, nb, nn, J
    <3>4. nL + ((ni + no) + ns + nd + nb) + nn = (nL + (ni + ns + nd + nb) + nn) + no
      BY <3>1
    <3>5. nL + ((ni + no) + ns + nd + nb) + nn = Cardinality(InsertsAccepted')
      BY <3>2, <3>3, <3>4
    <3> QED
      BY <3>5 DEF nL, ni, no, ns, nd, nb, nn
  <2>11. PauseAccepted' => PauseWaits'
    <3>1. PauseAccepted' => PauseAccepted \/ c.kind = "pause"
      BY <1>5 DEF PauseAccepted
    <3>2. HasPause(queue') <=> HasPause(queue) \/ c.kind = "pause"
      BY <1>3, <1>4, <1>5, PausesWaiting
    <3>3. HasPause(slot') <=> HasPause(slot)
      BY <2>6
    <3> QED
      BY <2>1, <2>6, <3>1, <3>2, <3>3 DEF Kept, PauseWaits
  <2> HIDE DEF i, o, J
  <2>12. /\ ToSet(landed') \cup Waiting(queue', slot', deferred', batch'.inserts) \cup ToSet(Coming')
              = InsertsAccepted'
         /\ Len(landed') + HowMany(queue', slot', deferred', batch'.inserts) + Len(Coming')
              = Cardinality(InsertsAccepted')
    BY <2>4, <2>6, <2>9, <2>10, Zenon DEF Waiting, HowMany
  <2> QED
    BY <2>11, <2>12 DEF Kept
<1> QED
  BY <1>6, <1>7, <1>8 DEF ControlsInv

LEMMA StayKeepsControls ==
    ASSUME ControlsInv, UNCHANGED <<head, pc, deferred, queue, slot, batch, chg, wr, landed, accepted,
                                    arrived>>
    PROVE  ControlsInv'
BY DEF ControlsInv, PlacesFit, AcceptedFit, Continues, Live, Coming, Kept, InsertsAccepted,
       PauseAccepted, PauseWaits

LEMMA EnvironmentKeepsControls ==
    ASSUME EngineAssumption, LifecycleInv, ControlsInv, Environment PROVE ControlsInv'
<1>1. CASE Submit
  BY <1>1, SubmitKeepsControls
<1>2. CASE Deadline
  BY <1>2, StayKeepsControls DEF Deadline, inbox, committing, host
<1>3. ASSUME Discard, UNCHANGED <<accepted, arrived, landed>>, pc' \in Settled PROVE ControlsInv'
  <2>1. landed' \in Seq(Nat) /\ UNCHANGED <<accepted, arrived>>
    BY <1>3 DEF ControlsInv, PlacesFit
  <2> QED
    BY <1>3, <2>1, DiscardKeepsControls
<1>4. CASE Close
  <2>1. CASE Swallows
    BY <1>4, <2>1, StayKeepsControls DEF Close, inbox, committing, host
  <2>2. CASE ~Swallows
    BY <1>3, <1>4, <2>2 DEF Close, Stop, host, Settled
  <2> QED
    BY <2>1, <2>2
<1>5. CASE EffectCancelled
  BY <1>3, <1>5 DEF EffectCancelled, Stop, host, Settled
<1>6. CASE Crash
  BY <1>3, <1>6 DEF Crash, host, Settled
<1> QED
  BY <1>1, <1>2, <1>4, <1>5, <1>6 DEF Environment

(* A control consumed without an interruption. *)
Consumed(c, d, e) ==
    \/ e = d \o <<>> /\ c.kind = "cancel"
    \/ e = d \o InsertsIn(<<c>>) /\ c.kind \in {"cancel", "insert"}

SameCounts(q, s, d, b, qq, ss, dd, bb) ==
    /\ Waiting(q, s, d, b) = Waiting(qq, ss, dd, bb)
    /\ HowMany(q, s, d, b) = HowMany(qq, ss, dd, bb)

LEMMA ConsumingKeeps ==
    ASSUME NEW q \in Seq(Controls), NEW d \in Seq(Nat), NEW b \in Seq(Nat), NEW c \in Controls,
           NEW e, Consumed(c, d, e)
    PROVE  /\ e \in Seq(Nat)
           /\ SameCounts(q, <<>>, e, b, q, <<c>>, d, b)
           /\ ~HasPause(<<c>>)
<1>1. InsertsIn(<<c>>) = InsertOf(c) /\ InsertOf(c) \in Seq(Nat) /\ d \o <<>> = d
  BY InsertsInOne, InsertOfFits
<1>2. c.kind # "insert" => InsertOf(c) = <<>>
  BY DEF InsertOf
<1>3. e = d \o InsertOf(c) /\ c.kind # "pause"
  BY <1>1, <1>2 DEF Consumed
<1>4. e \in Seq(Nat) /\ ToSet(e) = ToSet(d) \cup ToSet(InsertOf(c)) /\ Len(e) = Len(d) + Len(InsertOf(c))
  BY <1>1, <1>3, Joined
<1>5. Waiting(q, <<>>, e, b) = Waiting(q, <<c>>, d, b)
  BY <1>1, <1>4, NothingCounts DEF Waiting
<1>6. HowMany(q, <<>>, e, b) = HowMany(q, <<c>>, d, b)
  <2>1. HowMany(q, <<>>, e, b) = Len(InsertsIn(q)) + 0 + (Len(d) + Len(InsertOf(c))) + Len(b)
    BY <1>4, NothingCounts, Zenon DEF HowMany
  <2>2. HowMany(q, <<c>>, d, b) = Len(InsertsIn(q)) + Len(InsertOf(c)) + Len(d) + Len(b)
    BY <1>1, Zenon DEF HowMany
  <2>3. Len(InsertsIn(q)) \in Nat /\ Len(d) \in Nat /\ Len(b) \in Nat /\ Len(InsertOf(c)) \in Nat
    BY <1>1, CountsFit
  <2> QED
    BY <2>1, <2>2, <2>3
<1>7. ~HasPause(<<c>>)
  BY <1>3, PausesWaiting
<1> QED
  BY <1>4, <1>5, <1>6, <1>7 DEF SameCounts

(* What ControlsInv says of an engine at work. *)
LEMMA AtWork ==
    ASSUME LifecycleInv, ControlsInv, pc \in ActivePoints
    PROVE  /\ queue \in Seq(Controls) /\ slot \in Seq(Controls)
           /\ deferred \in Seq(Nat) /\ batch.inserts \in Seq(Nat) /\ batch.pause \in BOOLEAN
           /\ pc \notin Interruptibles => slot = <<>>
           /\ pc # "exec" => batch.inserts = <<>> /\ batch.pause = FALSE
           /\ PauseAccepted => PauseWaits
           /\ cp.st \in States
<1>1. Continues
  BY DEF ActivePoints, Effects, Interruptibles, Continues, Live, Settled
<1>2. Kept
  BY <1>1 DEF ControlsInv
<1>3. cp.st \in States
  <2>1. head = cp /\ head.rev >= 0
    BY AtActivePoint
  <2>2. OwnedPending(head.st)
    BY <2>1 DEF LifecycleInv, HeadFits
  <2> QED
    BY <2>1, <2>2 DEF OwnedPending
<1> QED
  BY <1>2, <1>3 DEF LifecycleInv, InputsFit, ControlsInv, PlacesFit, Kept

(* A step that leaves the controls where they are. *)
LEMMA RestKeepsControls ==
    ASSUME LifecycleInv, ControlsInv, pc \in ActivePoints, pc' \in ActivePoints,
           UNCHANGED <<accepted, arrived, landed, deferred, queue, slot, batch>>,
           pc \notin Interruptibles, pc # "exec"
    PROVE  ControlsInv'
<1>1. Rearranges
  BY DEF Rearranges
<1>2. PlacesStay
  BY AtWork DEF PlacesStay
<1>3. PauseAccepted => PauseWaits'
  BY AtWork DEF PauseWaits
<1> QED
  BY <1>1, <1>2, <1>3, MoveKeepsControls

(* Ending or suspending the run. *)
LEMMA EndingKeepsControls ==
    ASSUME LifecycleInv, ControlsInv, pc \in ActivePoints, NEW why,
           NEW x \in {Limited(why), Failed(why), SuspendAt(cp.st, why)}, Commit(x),
           UNCHANGED <<accepted, arrived>>, slot' = <<>>, batch'.inserts = <<>>, batch'.pause = FALSE,
           deferred' \in Seq(Nat), queue' \in Seq(Controls)
    PROVE  ControlsInv'
<1>1. cp.st \in States
  BY AtWork
<1>2. Landing(x) = <<>>
  <2>1. Landing(Limited(why)) = <<>> /\ Landing(Failed(why)) = <<>>
    BY OnlyInsertsLand
  <2>2. Landing(SuspendAt(cp.st, why)) = <<>>
    BY OnlyInsertsLand
  <2> QED
    BY <2>1, <2>2
<1>3. ~IsActive(x.st)
  <2>1. ~IsActive(Limited(why).st) /\ ~IsActive(Failed(why).st)
    BY EndsTheWork
  <2>2. ~IsActive(SuspendAt(cp.st, why).st)
    BY <1>1, EndsTheWork
  <2> QED
    BY <2>1, <2>2
<1> QED
  BY <1>2, <1>3, EndKeepsControls

(* The drained boundary of the loop. *)
LEMMA DrainKeeps ==
    ASSUME LifecycleInv, ControlsInv, pc \in ActivePoints, pc \notin Interruptibles, pc # "exec",
           ~HasPause(queue)
    PROVE  /\ Boundary \in Seq(Nat) /\ ~PauseAccepted /\ slot = <<>>
           /\ Waiting(<<>>, <<>>, Boundary, <<>>) = Waiting(queue, slot, deferred, batch.inserts)
           /\ HowMany(<<>>, <<>>, Boundary, <<>>) = HowMany(queue, slot, deferred, batch.inserts)
<1>1. /\ queue \in Seq(Controls) /\ deferred \in Seq(Nat) /\ slot = <<>>
      /\ batch.inserts = <<>> /\ batch.pause = FALSE /\ (PauseAccepted => PauseWaits)
  BY AtWork
<1>2. ~HasPause(slot)
  BY <1>1 DEF HasPause
<1>3. ~PauseAccepted
  BY <1>1, <1>2 DEF PauseWaits
<1>4. /\ Boundary \in Seq(Nat)
      /\ Waiting(<<>>, <<>>, Boundary, <<>>) = Waiting(queue, <<>>, deferred, <<>>)
      /\ HowMany(<<>>, <<>>, Boundary, <<>>) = HowMany(queue, <<>>, deferred, <<>>)
  BY <1>1, DrainingKeeps DEF Boundary
<1> QED
  BY <1>1, <1>3, <1>4

LEMMA NoBatchKept == NoBatch.inserts = <<>> /\ NoBatch.pause = FALSE
BY DEF NoBatch

LEMMA EngineStepKeepsControls ==
    ASSUME EngineAssumption, LifecycleInv, ControlsInv, EngineStep PROVE ControlsInv'
<1> USE DEF host, inbox, committing
<1>1. pc \in ActivePoints
  BY DEF EngineStep, OpenCatalog, OpenTooLate, TakeControl, ConsumeControl, ControlInterrupts,
         DeadlineInterrupts, LoopDeadline, LoopPause, LoopInsert, LoopPlan, Quiet, PlanLimit,
         PlanTooLate, AskModel, ToolLimit, ToolTurn, SelectFails, BindRefuses, SelectBatch,
         BatchTakesControl, ActivePoints, Effects, Interruptibles
<1> DEFINE Held == /\ queue \in Seq(Controls) /\ slot \in Seq(Controls)
                   /\ deferred \in Seq(Nat) /\ batch.inserts \in Seq(Nat) /\ batch.pause \in BOOLEAN
                   /\ pc \notin Interruptibles => slot = <<>>
                   /\ pc # "exec" => batch.inserts = <<>> /\ batch.pause = FALSE
                   /\ PauseAccepted => PauseWaits
<1>2. Held
  BY <1>1, AtWork
<1>3. CASE OpenCatalog
  <2>1. /\ UNCHANGED <<accepted, arrived, landed, deferred, queue, slot, batch>>
        /\ pc = "open" /\ pc' = "catalog"
    BY <1>3 DEF OpenCatalog
  <2> QED
    BY <1>1, <2>1, RestKeepsControls DEF ActivePoints, Effects, Interruptibles
<1>4. CASE AskModel
  <2>1. /\ UNCHANGED <<accepted, arrived, landed, deferred, queue, slot, batch>>
        /\ pc = "plan" /\ pc' = "model"
    BY <1>4 DEF AskModel
  <2> QED
    BY <1>1, <2>1, RestKeepsControls DEF ActivePoints, Effects, Interruptibles
<1>5. CASE OpenTooLate \/ LoopDeadline \/ PlanLimit \/ PlanTooLate
  <2>1. /\ UNCHANGED <<accepted, arrived, deferred, queue, slot, batch>>
        /\ pc \in {"open", "loop", "plan"}
        /\ \E why : Commit(Limited(why))
    BY <1>5 DEF OpenTooLate, LoopDeadline, PlanLimit, PlanTooLate
  <2>2. slot' = <<>> /\ batch'.inserts = <<>> /\ batch'.pause = FALSE
        /\ deferred' \in Seq(Nat) /\ queue' \in Seq(Controls)
    BY <1>2, <2>1 DEF Interruptibles
  <2>3. PICK why : Commit(Limited(why))
    BY <2>1
  <2>4. UNCHANGED <<accepted, arrived>>
    BY <2>1
  <2> QED
    BY <1>1, <2>2, <2>3, <2>4, EndingKeepsControls
<1>6. CASE DeadlineInterrupts
  <2>1. /\ Commit(Limited("deadline")) /\ slot' = <<>> /\ deferred' = deferred /\ queue' = queue
        /\ batch' = NoBatch /\ UNCHANGED <<accepted, arrived>>
    BY <1>6 DEF DeadlineInterrupts
  <2> QED
    BY <1>1, <1>2, <2>1, NoBatchKept, EndingKeepsControls
<1>7. CASE LoopPause \/ ToolLimit \/ SelectFails
  <2>1. /\ \E why : Commit(Limited(why)) \/ Commit(Failed(why)) \/ Commit(SuspendAt(cp.st, why))
        /\ Drain /\ pc = "loop" /\ UNCHANGED <<accepted, arrived, batch>>
    BY <1>7 DEF LoopPause, ToolLimit, SelectFails, ToolTurn, Quiet
  <2>2. PICK why : Commit(Limited(why)) \/ Commit(Failed(why)) \/ Commit(SuspendAt(cp.st, why))
    BY <2>1
  <2>3. /\ slot' = <<>> /\ batch'.inserts = <<>> /\ batch'.pause = FALSE
        /\ queue' \in Seq(Controls) /\ UNCHANGED <<accepted, arrived>>
    <3>1. queue' = <<>> /\ slot' = slot
      BY <2>1 DEF Drain
    <3> QED
      BY <1>2, <2>1, <3>1, NothingCounts DEF Interruptibles
  <2>4. deferred' \in Seq(Nat)
    <3>1. deferred' = deferred \o InsertsIn(queue)
      BY <2>1 DEF Drain, Boundary
    <3> QED
      BY <1>2, <3>1, DrainingKeeps
  <2>5. \E x \in {Limited(why), Failed(why), SuspendAt(cp.st, why)} : Commit(x)
    BY <2>2
  <2> QED
    BY <1>1, <2>3, <2>4, <2>5, EndingKeepsControls
<1>8. CASE TakeControl
  <2>1. /\ pc \in Interruptibles /\ slot = <<>> /\ queue # <<>> /\ pc' = pc
        /\ slot' = <<Head(queue)>> /\ queue' = Tail(queue)
        /\ UNCHANGED <<accepted, arrived, landed, deferred, batch>>
    BY <1>8 DEF TakeControl
  <2>2. /\ Waiting(Tail(queue), <<Head(queue)>>, deferred, batch.inserts)
             = Waiting(queue, <<>>, deferred, batch.inserts)
        /\ HowMany(Tail(queue), <<Head(queue)>>, deferred, batch.inserts)
             = HowMany(queue, <<>>, deferred, batch.inserts)
        /\ HasPause(Tail(queue)) \/ HasPause(<<Head(queue)>>) <=> HasPause(queue)
    BY <1>2, <2>1, TakingKeeps
  <2>3. Rearranges
    BY <2>1, <2>2 DEF Rearranges
  <2>4. PlacesStay
    BY <1>2, <2>1 DEF PlacesStay, Interruptibles
  <2>5. PauseAccepted => PauseWaits'
    <3>1. ~HasPause(slot)
      BY <2>1 DEF HasPause
    <3> QED
      BY <1>2, <2>1, <2>2, <3>1 DEF PauseWaits
  <2> QED
    BY <1>1, <2>1, <2>3, <2>4, <2>5, MoveKeepsControls
<1>9. CASE ConsumeControl
  <2>1. /\ pc \in Interruptibles /\ slot # <<>> /\ NonInterrupting(slot[1]) /\ pc' = pc
        /\ deferred' = DeferredBy(slot) /\ slot' = <<>>
        /\ UNCHANGED <<accepted, arrived, landed, queue, batch>>
    BY <1>9 DEF ConsumeControl
  <2>2. PICK c \in Controls : slot = <<c>>
    BY <1>2, <2>1, AtMostOne DEF LifecycleInv, InputsFit
  <2>3. NonInterrupting(c) /\ deferred' = deferred \o (IF Defers THEN InsertsIn(<<c>>) ELSE <<>>)
    BY <2>1, <2>2 DEF DeferredBy
  <2>4. \/ deferred' = deferred \o <<>> /\ c.kind = "cancel"
        \/ deferred' = deferred \o InsertsIn(<<c>>) /\ c.kind \in {"cancel", "insert"}
    <3>1. CASE Defers
      <4>1. deferred' = deferred \o InsertsIn(<<c>>)
        BY <2>3, <3>1
      <4>2. c.kind \in {"cancel", "insert"}
        BY <2>3 DEF NonInterrupting
      <4> QED
        BY <4>1, <4>2
    <3>2. CASE ~Defers
      <4>1. deferred' = deferred \o <<>>
        BY <2>3, <3>2
      <4>2. c.kind = "cancel"
        BY <2>3, <3>2 DEF NonInterrupting
      <4> QED
        BY <4>1, <4>2
    <3> QED
      BY <3>1, <3>2
  <2>5. /\ deferred' \in Seq(Nat)
        /\ SameCounts(queue, <<>>, deferred', batch.inserts, queue, <<c>>, deferred, batch.inserts)
        /\ ~HasPause(<<c>>)
    <3>1. queue \in Seq(Controls) /\ deferred \in Seq(Nat) /\ batch.inserts \in Seq(Nat)
      BY <1>2
    <3>2. Consumed(c, deferred, deferred')
      BY <2>4 DEF Consumed
    <3> QED
      BY <2>2, <3>1, <3>2, ConsumingKeeps, Zenon
  <2>6. Rearranges
    BY <2>1, <2>2, <2>5 DEF Rearranges, SameCounts
  <2>7. PlacesStay
    BY <1>2, <2>1, <2>5 DEF PlacesStay, Interruptibles
  <2>8. PauseAccepted => PauseWaits'
    BY <1>2, <2>1, <2>2, <2>5 DEF PauseWaits
  <2> QED
    BY <1>1, <2>1, <2>6, <2>7, <2>8, MoveKeepsControls
<1>10. CASE ControlInterrupts
  <2>1. /\ pc \in Interruptibles /\ slot # <<>> /\ ~NonInterrupting(slot[1]) /\ slot' = <<>>
        /\ Commit(IF slot[1].kind = "pause" THEN SuspendAt(cp.st, "pause") ELSE Insert(slot[1].n))
        /\ UNCHANGED <<accepted, arrived, deferred, queue, batch>>
    BY <1>10 DEF ControlInterrupts
  <2>2. PICK c \in Controls : slot = <<c>>
    BY <1>2, <2>1, AtMostOne DEF LifecycleInv, InputsFit
  <2>3. /\ batch'.inserts = <<>> /\ batch'.pause = FALSE /\ batch.inserts = <<>> /\ batch.pause = FALSE
        /\ deferred' = deferred /\ queue' = queue /\ deferred \in Seq(Nat) /\ queue \in Seq(Controls)
    BY <1>2, <2>1 DEF Interruptibles
  <2>4. CASE c.kind = "pause"
    <3>1. Commit(SuspendAt(cp.st, "pause"))
      BY <2>1, <2>2, <2>4
    <3> QED
      BY <1>1, <2>1, <2>3, <3>1, EndingKeepsControls
  <2>5. CASE c.kind # "pause"
    <3>1. Commit(Insert(c.n))
      BY <2>1, <2>2, <2>5
    <3>2. c.kind = "insert" /\ c.n \in Nat
      <4>1. c.kind \in ControlKinds /\ c.n \in Nat
        BY EngineAssumption DEF Controls
      <4>2. c.kind \in {"pause", "insert", "cancel"}
        BY <4>1 DEF EngineAssumption
      <4>3. c.kind # "cancel"
        BY <2>1, <2>2 DEF NonInterrupting
      <4> QED
        BY <2>5, <4>1, <4>2, <4>3
    <3>3. Landing(Insert(c.n)) = <<c.n>> /\ Landing(Insert(c.n)) \in Seq(Nat)
          /\ ToSet(<<c.n>>) = {c.n} /\ Len(<<c.n>>) = 1
      BY <3>2, OnlyInsertsLand, OneOrNone
    <3>4. InsertsIn(slot) = <<c.n>>
      BY <2>2, <3>2, InsertsInOne DEF InsertOf
    <3>5. Waiting(queue, <<>>, deferred, <<>>) \cup {c.n} = Waiting(queue, slot, deferred, <<>>)
      BY <3>3, <3>4, NothingCounts DEF Waiting
    <3>6. HowMany(queue, <<>>, deferred, <<>>) + 1 = HowMany(queue, slot, deferred, <<>>)
      <4>1. HowMany(queue, <<>>, deferred, <<>>) = Len(InsertsIn(queue)) + 0 + Len(deferred) + 0
        BY NothingCounts, Zenon DEF HowMany
      <4>2. HowMany(queue, slot, deferred, <<>>) = Len(InsertsIn(queue)) + 1 + Len(deferred) + 0
        BY <3>3, <3>4, NothingCounts, Zenon DEF HowMany
      <4>3. Len(InsertsIn(queue)) \in Nat /\ Len(deferred) \in Nat
        BY <2>3, CountsFit
      <4> QED
        BY <4>1, <4>2, <4>3
    <3>7. PauseAccepted => HasPause(queue)
      <4>1. ~HasPause(slot)
        BY <2>2, <2>5 DEF HasPause
      <4> QED
        BY <1>2, <2>3, <4>1 DEF PauseWaits
    <3>8. /\ Waiting(queue', <<>>, deferred', <<>>) \cup ToSet(Landing(Insert(c.n)))
               = Waiting(queue, slot, deferred, batch.inserts)
          /\ HowMany(queue', <<>>, deferred', <<>>) + Len(Landing(Insert(c.n)))
               = HowMany(queue, slot, deferred, batch.inserts)
          /\ PauseAccepted => HasPause(queue')
      BY <2>3, <3>3, <3>5, <3>6, <3>7
    <3> QED
      BY <1>1, <2>1, <2>3, <3>1, <3>3, <3>8, CommitKeepsControls
  <2> QED
    BY <2>4, <2>5
<1>11. CASE LoopInsert
  <2>1. /\ pc = "loop" /\ ~HasPause(queue) /\ Boundary # <<>>
        /\ deferred' = Tail(Boundary) /\ queue' = <<>> /\ Commit(Insert(Head(Boundary)))
        /\ UNCHANGED <<accepted, arrived, slot, batch>>
    BY <1>11 DEF LoopInsert, InsertDue
  <2> DEFINE B == Boundary
             k == Head(Boundary)
             t == Tail(Boundary)
  <2>2. /\ B \in Seq(Nat) /\ ~PauseAccepted /\ slot = <<>>
        /\ Waiting(<<>>, <<>>, B, <<>>) = Waiting(queue, slot, deferred, batch.inserts)
        /\ HowMany(<<>>, <<>>, B, <<>>) = HowMany(queue, slot, deferred, batch.inserts)
    BY <1>1, <2>1, DrainKeeps DEF Interruptibles
  <2>3. t \in Seq(Nat) /\ k \in Nat /\ ToSet(B) = {k} \cup ToSet(t) /\ Len(B) = 1 + Len(t)
    BY <2>1, <2>2, FirstLeaves
  <2>4. /\ Landing(Insert(k)) = <<k>> /\ Landing(Insert(k)) \in Seq(Nat)
        /\ ToSet(<<k>>) = {k} /\ Len(<<k>>) = 1
    BY <2>3, OnlyInsertsLand, OneOrNone
  <2>5. batch'.inserts = <<>> /\ batch'.pause = FALSE /\ slot' = <<>>
    BY <1>2, <2>1, <2>2
  <2> HIDE DEF B, k, t
  <2>6. Waiting(<<>>, <<>>, t, <<>>) \cup {k} = Waiting(<<>>, <<>>, B, <<>>)
    BY <2>3 DEF Waiting
  <2>7. HowMany(<<>>, <<>>, t, <<>>) + 1 = HowMany(<<>>, <<>>, B, <<>>)
    <3>1. HowMany(<<>>, <<>>, t, <<>>) = 0 + 0 + Len(t) + 0
      BY NothingCounts, Zenon DEF HowMany
    <3>2. HowMany(<<>>, <<>>, B, <<>>) = 0 + 0 + (1 + Len(t)) + 0
      BY <2>3, NothingCounts, Zenon DEF HowMany
    <3>3. Len(t) \in Nat
      BY <2>3
    <3> QED
      BY <3>1, <3>2, <3>3
  <2>8. queue' = <<>> /\ deferred' = t /\ Commit(Insert(k)) /\ UNCHANGED <<accepted, arrived>>
    BY <2>1 DEF k, t
  <2>9. queue' \in Seq(Controls) /\ deferred' \in Seq(Nat)
    BY <2>3, <2>8, NothingCounts
  <2>10. /\ Waiting(queue', <<>>, deferred', <<>>) \cup ToSet(Landing(Insert(k)))
              = Waiting(queue, slot, deferred, batch.inserts)
         /\ HowMany(queue', <<>>, deferred', <<>>) + Len(Landing(Insert(k)))
              = HowMany(queue, slot, deferred, batch.inserts)
    BY <2>2, <2>4, <2>6, <2>7, <2>8
  <2> QED
    BY <1>1, <2>2, <2>4, <2>5, <2>8, <2>9, <2>10, CommitKeepsControls
<1>12. CASE LoopPlan \/ SelectBatch
  <2>1. /\ pc = "loop" /\ ~HasPause(queue) /\ Drain
        /\ pc' \in {"reduce", "plan", "approve", "exec"}
        /\ batch'.inserts = batch.inserts /\ batch'.pause = batch.pause
        /\ UNCHANGED <<accepted, arrived, landed>>
    <3>1. CASE LoopPlan
      BY <3>1 DEF LoopPlan, Quiet
    <3>2. CASE SelectBatch
      <4>1. PICK k \in Selectable : batch' = [NoBatch EXCEPT !.n = k]
        BY <3>2 DEF SelectBatch
      <4>2. batch'.inserts = <<>> /\ batch'.pause = FALSE
        BY <4>1 DEF NoBatch
      <4>3. pc = "loop"
        BY <3>2 DEF SelectBatch, ToolTurn, Quiet
      <4>4. batch.inserts = <<>> /\ batch.pause = FALSE
        BY <1>2, <4>3
      <4> QED
        BY <3>2, <4>2, <4>3, <4>4 DEF SelectBatch, ToolTurn, Quiet
    <3> QED
      BY <1>12, <3>1, <3>2
  <2>2. /\ Boundary \in Seq(Nat) /\ ~PauseAccepted /\ slot = <<>>
        /\ Waiting(<<>>, <<>>, Boundary, <<>>) = Waiting(queue, slot, deferred, batch.inserts)
        /\ HowMany(<<>>, <<>>, Boundary, <<>>) = HowMany(queue, slot, deferred, batch.inserts)
    BY <1>1, <2>1, DrainKeeps DEF Interruptibles
  <2>3. deferred' = Boundary /\ queue' = <<>> /\ slot' = <<>>
    BY <2>1, <2>2 DEF Drain
  <2>4. batch'.inserts = <<>> /\ batch'.pause = FALSE
    BY <1>2, <2>1
  <2>5. Rearranges
    BY <2>2, <2>3, <2>4 DEF Rearranges
  <2>6. PlacesStay
    BY <2>2, <2>3, <2>4, NothingCounts DEF PlacesStay
  <2>7. pc' \in ActivePoints
    BY <2>1 DEF ActivePoints, Effects, Interruptibles
  <2> QED
    BY <1>1, <2>1, <2>2, <2>5, <2>6, <2>7, MoveKeepsControls
<1>13. CASE BindRefuses
  <2>1. PICK k \in Selectable : Commit(BatchOutcome(cp, k, "none"))
    BY <1>13 DEF BindRefuses
  <2>2. /\ pc = "loop" /\ ~HasPause(queue) /\ Drain /\ UNCHANGED <<accepted, arrived, batch>>
    BY <1>13 DEF BindRefuses, ToolTurn, Quiet
  <2>3. /\ Boundary \in Seq(Nat) /\ ~PauseAccepted /\ slot = <<>>
        /\ Waiting(<<>>, <<>>, Boundary, <<>>) = Waiting(queue, slot, deferred, batch.inserts)
        /\ HowMany(<<>>, <<>>, Boundary, <<>>) = HowMany(queue, slot, deferred, batch.inserts)
    BY <1>1, <2>2, DrainKeeps DEF Interruptibles
  <2>4. deferred' = Boundary /\ queue' = <<>> /\ slot' = <<>>
    BY <2>2, <2>3 DEF Drain
  <2> DEFINE x == BatchOutcome(cp, k, "none")
  <2>5. Landing(x) = <<>>
    BY OnlyInsertsLand
  <2> HIDE DEF x
  <2>6. Commit(x) /\ batch'.inserts = <<>> /\ batch'.pause = FALSE /\ UNCHANGED <<accepted, arrived>>
    BY <1>2, <2>1, <2>2 DEF x
  <2>7. HowMany(<<>>, <<>>, Boundary, <<>>) \in Nat
    BY <2>3, NothingCounts, CountsFit
  <2>8. /\ Waiting(queue', <<>>, deferred', <<>>) \cup ToSet(Landing(x))
             = Waiting(queue, slot, deferred, batch.inserts)
        /\ HowMany(queue', <<>>, deferred', <<>>) + Len(Landing(x))
             = HowMany(queue, slot, deferred, batch.inserts)
    BY <2>3, <2>4, <2>5, <2>7, NothingCounts
  <2>9. Landing(x) \in Seq(Nat) /\ queue' \in Seq(Controls) /\ deferred' \in Seq(Nat)
    BY <2>3, <2>4, <2>5, NothingCounts
  <2> QED
    BY <1>1, <2>3, <2>4, <2>6, <2>8, <2>9, CommitKeepsControls
<1>14. CASE BatchTakesControl
  <2> DEFINE c == Head(queue)
  <2>1. /\ pc = "exec" /\ pc' = pc /\ queue # <<>> /\ queue' = Tail(queue)
        /\ batch'.pause = (batch.pause \/ c.kind = "pause")
        /\ batch'.inserts = batch.inserts \o InsertOf(c)
        /\ UNCHANGED <<accepted, arrived, landed, deferred, slot>>
    BY <1>14 DEF BatchTakesControl
  <2>2. /\ batch.inserts \o InsertOf(c) \in Seq(Nat)
        /\ Waiting(Tail(queue), <<>>, deferred, batch.inserts \o InsertOf(c))
             = Waiting(queue, <<>>, deferred, batch.inserts)
        /\ HowMany(Tail(queue), <<>>, deferred, batch.inserts \o InsertOf(c))
             = HowMany(queue, <<>>, deferred, batch.inserts)
    BY <1>2, <2>1, BatchKeeps
  <2>3. slot = <<>> /\ slot' = <<>>
    BY <1>2, <2>1 DEF Interruptibles
  <2>4. Rearranges
    BY <2>1, <2>2, <2>3 DEF Rearranges
  <2>5. PlacesStay
    BY <1>2, <2>1, <2>2, <2>3 DEF PlacesStay
  <2>6. PauseAccepted => PauseWaits'
    <3>1. HasPause(queue) <=> c.kind = "pause" \/ HasPause(Tail(queue))
      <4>1. c \in Controls
        BY <1>2, <2>1
      <4> QED
        BY <1>2, <2>1, <4>1, PausesWaiting
    <3> QED
      BY <1>2, <2>1, <2>3, <3>1 DEF PauseWaits
  <2> QED
    BY <1>1, <2>1, <2>4, <2>5, <2>6, MoveKeepsControls
<1> QED
  BY <1>3, <1>4, <1>5, <1>6, <1>7, <1>8, <1>9, <1>10, <1>11, <1>12, <1>13, <1>14 DEF EngineStep

(* BatchOutcome keeps the run active only if it suspends for nothing. *)
LEMMA OutcomeLeavesControls ==
    ASSUME NEW c, NEW k, NEW b, NEW waits \in BOOLEAN
    PROVE  LET x == BatchOutcome(c, k, Suspension(b, waits))
           IN  /\ Landing(x) = <<>>
               /\ b.pause = TRUE => ~IsActive(x.st)
<1> DEFINE why == Suspension(b, waits)
           x == BatchOutcome(c, k, why)
<1>1. Landing(x) = <<>>
  BY OnlyInsertsLand
<1>2. ASSUME b.pause = TRUE PROVE ~IsActive(x.st)
  <2>1. why # "none"
    BY <1>2 DEF Suspension
  <2> HIDE DEF why
  <2> QED
    BY <2>1, EndsTheWork
<1> QED
  BY <1>1, <1>2

(* A commit that moves the queues without landing anything. *)
LEMMA MovingKeepsControls ==
    ASSUME LifecycleInv, ControlsInv, pc \in ActivePoints, NEW x, Commit(x), Landing(x) = <<>>,
           UNCHANGED <<accepted, arrived>>, slot' = <<>>, batch'.inserts = <<>>, batch'.pause = FALSE,
           deferred' \in Seq(Nat), queue' \in Seq(Controls),
           Waiting(queue', <<>>, deferred', <<>>) = Waiting(queue, slot, deferred, batch.inserts),
           HowMany(queue', <<>>, deferred', <<>>) = HowMany(queue, slot, deferred, batch.inserts),
           IsActive(x.st) /\ PauseAccepted => HasPause(queue')
    PROVE  ControlsInv'
<1>1. HowMany(queue', <<>>, deferred', <<>>) \in Nat
  BY NothingCounts, CountsFit
<1>2. /\ Waiting(queue', <<>>, deferred', <<>>) \cup ToSet(Landing(x))
           = Waiting(queue, slot, deferred, batch.inserts)
      /\ HowMany(queue', <<>>, deferred', <<>>) + Len(Landing(x))
           = HowMany(queue, slot, deferred, batch.inserts)
      /\ Landing(x) \in Seq(Nat)
  BY <1>1, NothingCounts
<1> QED
  BY <1>2, CommitKeepsControls

LEMMA PortStepKeepsControls ==
    ASSUME EngineAssumption, LifecycleInv, ControlsInv, PortStep PROVE ControlsInv'
<1> USE DEF host, inbox, committing
<1>1. pc \in ActivePoints
  BY DEF PortStep, CatalogOpens, CatalogFails, ReducerKeeps, ReducerRewrites, ReducerFails,
         ModelAnswers, ModelFails, Approves, ApprovalDenies, ApprovalSuspends, ApprovalFails,
         BatchDone, ActivePoints, Effects, Interruptibles
<1> DEFINE Held == /\ queue \in Seq(Controls) /\ slot \in Seq(Controls)
                   /\ deferred \in Seq(Nat) /\ batch.inserts \in Seq(Nat) /\ batch.pause \in BOOLEAN
                   /\ pc \notin Interruptibles => slot = <<>>
                   /\ pc # "exec" => batch.inserts = <<>> /\ batch.pause = FALSE
                   /\ PauseAccepted => PauseWaits
<1>2. Held
  BY <1>1, AtWork
<1> DEFINE Done == /\ queue' \in Seq(Controls) /\ deferred' \in Seq(Nat) /\ slot' = <<>>
                   /\ batch.inserts = <<>> /\ batch.pause = FALSE
                   /\ Waiting(queue', <<>>, deferred', <<>>) = Waiting(queue, slot, deferred, <<>>)
                   /\ HowMany(queue', <<>>, deferred', <<>>) = HowMany(queue, slot, deferred, <<>>)
                   /\ PauseAccepted => HasPause(queue')
<1>3. EffectDone => Done
  BY EffectDoneKeepsControls
<1>4. CASE CatalogOpens \/ ReducerKeeps
  <2>1. /\ EffectDone /\ pc' \in {"loop", "plan"} /\ UNCHANGED <<accepted, arrived, landed, batch>>
    BY <1>4 DEF CatalogOpens, ReducerKeeps
  <2>2. Done
    BY <1>3, <2>1
  <2>3. Rearranges
    BY <2>1, <2>2 DEF Rearranges
  <2>4. PlacesStay
    BY <2>1, <2>2, NothingCounts DEF PlacesStay
  <2>5. PauseAccepted => PauseWaits'
    BY <2>2 DEF PauseWaits
  <2>6. pc' \in ActivePoints /\ UNCHANGED <<accepted, arrived, landed>>
    BY <2>1 DEF ActivePoints
  <2> QED
    BY <1>1, <2>3, <2>4, <2>5, <2>6, MoveKeepsControls
<1>5. CASE CatalogFails \/ ReducerFails \/ ModelFails
  <2>1. EffectDone /\ (\E why : Commit(Failed(why))) /\ UNCHANGED <<accepted, arrived, batch>>
    BY <1>5 DEF CatalogFails, ReducerFails, ModelFails
  <2>2. PICK why : Commit(Failed(why))
    BY <2>1
  <2>3. Done
    BY <1>3, <2>1
  <2>4. batch'.inserts = <<>> /\ batch'.pause = FALSE /\ UNCHANGED <<accepted, arrived>>
    BY <2>1, <2>3
  <2> QED
    BY <1>1, <2>2, <2>3, <2>4, EndingKeepsControls
<1>6. CASE ReducerRewrites
  <2>1. /\ EffectDone /\ UNCHANGED <<accepted, arrived, batch>>
        /\ \E messages \in Rewrites(cp.hist) :
              Commit(IF ValidHistory(messages, Active(<<>>, FALSE))
                     THEN Rewrite(cp, messages) ELSE Failed("history_reducer_error"))
    BY <1>6 DEF ReducerRewrites
  <2>2. PICK x : /\ Commit(x)
                 /\ \E messages : x \in {Rewrite(cp, messages), Failed("history_reducer_error")}
    BY <2>1, Zenon
  <2>3. Landing(x) = <<>>
    <3>1. PICK messages : x \in {Rewrite(cp, messages), Failed("history_reducer_error")}
      BY <2>2
    <3>2. Landing(Rewrite(cp, messages)) = <<>> /\ Landing(Failed("history_reducer_error")) = <<>>
      BY OnlyInsertsLand
    <3> QED
      BY <3>1, <3>2
  <2>4. Done
    BY <1>3, <2>1
  <2>5. batch'.inserts = <<>> /\ batch'.pause = FALSE /\ UNCHANGED <<accepted, arrived>>
    BY <2>1, <2>4
  <2> QED
    BY <1>1, <2>2, <2>3, <2>4, <2>5, MovingKeepsControls
<1>7. CASE ModelAnswers
  <2>1. EffectDone /\ UNCHANGED <<accepted, arrived, batch>>
    BY <1>7 DEF ModelAnswers
  <2>2. PICK response \in Responses :
           LET turn == ModelTurn(cp, response, MaxTokens)
           IN  Commit(IF cp.st.ptp /\ deferred' # <<>> THEN KeepActive(turn) ELSE turn)
    BY <1>7 DEF ModelAnswers
  <2> DEFINE turn == ModelTurn(cp, response, MaxTokens)
             x == IF cp.st.ptp /\ deferred' # <<>> THEN KeepActive(turn) ELSE turn
  <2>3. Landing(x) = <<>>
    <3>1. Landing(turn) = <<>> /\ Landing(KeepActive(turn)) = <<>>
      BY OnlyInsertsLand
    <3> HIDE DEF turn
    <3> QED
      BY <3>1
  <2>4. Done
    BY <1>3, <2>1
  <2>5. batch'.inserts = <<>> /\ batch'.pause = FALSE /\ UNCHANGED <<accepted, arrived>>
    BY <2>1, <2>4
  <2>6. Commit(x)
    BY <2>2
  <2> HIDE DEF x
  <2> QED
    BY <1>1, <2>3, <2>4, <2>5, <2>6, MovingKeepsControls
<1>8. CASE Approves
  <2>1. /\ pc = "approve" /\ pc' = "exec" /\ queue' = <<>>
        /\ batch'.inserts = InsertsIn(queue) /\ batch'.pause = HasPause(queue)
        /\ UNCHANGED <<accepted, arrived, landed, deferred, slot>>
    BY <1>8 DEF Approves, DrainedBatch
  <2>2. slot = <<>> /\ batch.inserts = <<>> /\ batch.pause = FALSE
    BY <1>2, <2>1 DEF Interruptibles
  <2>3. /\ Waiting(<<>>, <<>>, deferred, InsertsIn(queue)) = Waiting(queue, <<>>, deferred, <<>>)
        /\ HowMany(<<>>, <<>>, deferred, InsertsIn(queue)) = HowMany(queue, <<>>, deferred, <<>>)
    BY <1>2, DrainingKeeps
  <2>4. Rearranges
    BY <2>1, <2>2, <2>3 DEF Rearranges
  <2>5. PlacesStay
    <3>1. InsertsIn(queue) \in Seq(Nat)
      BY <1>2, InsertsInFit
    <3>2. HasPause(queue) \in BOOLEAN
      BY DEF HasPause
    <3> QED
      BY <1>2, <2>1, <2>2, <3>1, <3>2 DEF PlacesStay
  <2>6. PauseAccepted => PauseWaits'
    <3>1. ~HasPause(slot)
      BY <2>2 DEF HasPause
    <3>2. HasPause(queue) => batch'.pause
      BY <2>1
    <3> QED
      BY <1>2, <2>2, <3>1, <3>2 DEF PauseWaits
  <2>7. pc' \in ActivePoints
    BY <2>1 DEF ActivePoints, Effects
  <2> QED
    BY <1>1, <2>1, <2>4, <2>5, <2>6, <2>7, MoveKeepsControls
<1>9. CASE ApprovalDenies
  <2> DEFINE b == DrainedBatch
             x == BatchOutcome(cp, batch.n, Suspension(b, FALSE))
  <2>1. /\ pc = "approve" /\ Commit(x) /\ deferred' = deferred \o InsertsIn(queue) /\ queue' = <<>>
        /\ batch' = NoBatch /\ UNCHANGED <<accepted, arrived, slot>>
    BY <1>9 DEF ApprovalDenies, DrainedBatch
  <2>2. slot = <<>> /\ batch.inserts = <<>> /\ batch.pause = FALSE
    BY <1>2, <2>1 DEF Interruptibles
  <2>3. /\ deferred' \in Seq(Nat)
        /\ Waiting(<<>>, <<>>, deferred', <<>>) = Waiting(queue, <<>>, deferred, <<>>)
        /\ HowMany(<<>>, <<>>, deferred', <<>>) = HowMany(queue, <<>>, deferred, <<>>)
    BY <1>2, <2>1, DrainingKeeps
  <2>4. Landing(x) = <<>> /\ (b.pause = TRUE => ~IsActive(x.st))
    BY OutcomeLeavesControls
  <2>5. IsActive(x.st) => ~PauseAccepted
    <3>1. b.pause = HasPause(queue)
      BY DEF DrainedBatch
    <3>2. HasPause(queue) \in BOOLEAN
      BY DEF HasPause
    <3>3. ~HasPause(slot)
      BY <2>2 DEF HasPause
    <3> HIDE DEF b, x
    <3>4. PauseAccepted => HasPause(queue)
      BY <1>2, <2>2, <3>3 DEF PauseWaits
    <3> QED
      BY <2>4, <3>1, <3>2, <3>4
  <2> HIDE DEF b, x
  <2>6. /\ Waiting(queue', <<>>, deferred', <<>>) = Waiting(queue, slot, deferred, batch.inserts)
        /\ HowMany(queue', <<>>, deferred', <<>>) = HowMany(queue, slot, deferred, batch.inserts)
        /\ queue' \in Seq(Controls) /\ slot' = <<>> /\ UNCHANGED <<accepted, arrived>>
    BY <2>1, <2>2, <2>3, NothingCounts
  <2>7. batch'.inserts = <<>> /\ batch'.pause = FALSE
    BY <2>1, NoBatchKept
  <2> QED
    BY <1>1, <2>1, <2>3, <2>4, <2>5, <2>6, <2>7, MovingKeepsControls
<1>10. CASE ApprovalSuspends \/ ApprovalFails
  <2>1. /\ \E why : Commit(Failed(why)) \/ Commit(SuspendAt(cp.st, why))
        /\ pc = "approve" /\ batch' = NoBatch /\ UNCHANGED <<accepted, arrived, deferred, queue, slot>>
    BY <1>10 DEF ApprovalSuspends, ApprovalFails
  <2>2. PICK why : Commit(Failed(why)) \/ Commit(SuspendAt(cp.st, why))
    BY <2>1
  <2>3. /\ slot' = <<>> /\ batch'.inserts = <<>> /\ batch'.pause = FALSE
        /\ deferred' \in Seq(Nat) /\ queue' \in Seq(Controls) /\ UNCHANGED <<accepted, arrived>>
    BY <1>2, <2>1, NoBatchKept DEF Interruptibles
  <2>4. \E x \in {Limited(why), Failed(why), SuspendAt(cp.st, why)} : Commit(x)
    BY <2>2
  <2> QED
    BY <1>1, <2>3, <2>4, EndingKeepsControls
<1>11. CASE BatchDone
  <2>1. /\ pc = "exec" /\ deferred' = deferred \o batch.inserts /\ batch' = NoBatch
        /\ UNCHANGED <<accepted, arrived, queue, slot>>
    BY <1>11 DEF BatchDone
  <2>2. PICK waits \in BOOLEAN : Commit(BatchOutcome(cp, batch.n, Suspension(batch, waits)))
    BY <1>11 DEF BatchDone
  <2> DEFINE x == BatchOutcome(cp, batch.n, Suspension(batch, waits))
  <2>3. slot = <<>>
    BY <1>2, <2>1 DEF Interruptibles
  <2>4. /\ deferred' \in Seq(Nat)
        /\ Waiting(queue, <<>>, deferred', <<>>) = Waiting(queue, <<>>, deferred, batch.inserts)
        /\ HowMany(queue, <<>>, deferred', <<>>) = HowMany(queue, <<>>, deferred, batch.inserts)
    BY <1>2, <2>1, BatchKeeps
  <2>5. Landing(x) = <<>> /\ (batch.pause = TRUE => ~IsActive(x.st))
    BY OutcomeLeavesControls
  <2>6. Commit(x)
    BY <2>2
  <2> HIDE DEF x
  <2>7. IsActive(x.st) /\ PauseAccepted => HasPause(queue')
    <3>1. ~HasPause(slot)
      BY <2>3 DEF HasPause
    <3>2. PauseAccepted => HasPause(queue) \/ batch.pause = TRUE
      BY <1>2, <3>1 DEF PauseWaits
    <3> QED
      BY <2>1, <2>5, <3>2
  <2>8. /\ Waiting(queue', <<>>, deferred', <<>>) = Waiting(queue, slot, deferred, batch.inserts)
        /\ HowMany(queue', <<>>, deferred', <<>>) = HowMany(queue, slot, deferred, batch.inserts)
        /\ queue' \in Seq(Controls) /\ slot' = <<>> /\ UNCHANGED <<accepted, arrived>>
    BY <1>2, <2>1, <2>3, <2>4
  <2>9. batch'.inserts = <<>> /\ batch'.pause = FALSE
    BY <2>1, NoBatchKept
  <2> QED
    BY <1>1, <2>4, <2>5, <2>6, <2>7, <2>8, <2>9, MovingKeepsControls
<1> QED
  BY <1>4, <1>5, <1>6, <1>7, <1>8, <1>9, <1>10, <1>11 DEF PortStep

(* What was coming has landed. *)
LEMMA LandingKeeps ==
    ASSUME LifecycleInv, ControlsInv, pc = "commit", Continues, Coming' = <<>>,
           ToSet(landed') = ToSet(landed) \cup ToSet(Coming), Len(landed') = Len(landed) + Len(Coming),
           UNCHANGED <<accepted, deferred, queue, slot, batch>>
    PROVE  Kept'
<1>1. Kept
  BY DEF ControlsInv
<1>2. UNCHANGED <<InsertsAccepted, PauseAccepted, PauseWaits>>
  BY DEF InsertsAccepted, PauseAccepted, PauseWaits
<1> DEFINE w == Waiting(queue, slot, deferred, batch.inserts)
           n == HowMany(queue, slot, deferred, batch.inserts)
           l == Len(landed)
           c == Len(Coming)
<1>3. n \in Nat /\ l \in Nat /\ c \in Nat
  <2>1. /\ queue \in Seq(Controls) /\ slot \in Seq(Controls) /\ deferred \in Seq(Nat)
        /\ batch.inserts \in Seq(Nat) /\ landed \in Seq(Nat) /\ Coming \in Seq(Nat)
    BY DEF LifecycleInv, InputsFit, ControlsInv, PlacesFit
  <2> QED
    BY <2>1, CountsFit
<1>4. /\ ToSet(landed) \cup w \cup ToSet(Coming) = InsertsAccepted
      /\ l + n + c = Cardinality(InsertsAccepted)
  BY <1>1 DEF Kept
<1>5. /\ Waiting(queue', slot', deferred', batch'.inserts) = w
      /\ HowMany(queue', slot', deferred', batch'.inserts) = n
  OBVIOUS
<1>6. ToSet(landed') = ToSet(landed) \cup ToSet(Coming) /\ Len(landed') = l + c
  OBVIOUS
<1> HIDE DEF w, n, l, c
<1>7. ToSet(landed') \cup w \cup ToSet(Coming') = InsertsAccepted'
  BY <1>2, <1>4, <1>6, NothingCounts
<1>8. Len(landed') + n + Len(Coming') = Cardinality(InsertsAccepted')
  <2>1. Len(Coming') = 0 /\ Cardinality(InsertsAccepted') = Cardinality(InsertsAccepted)
    BY <1>2, NothingCounts
  <2>2. (l + c) + n + 0 = l + n + c
    BY <1>3
  <2> QED
    BY <1>4, <1>6, <2>1, <2>2
<1> QED
  BY <1>1, <1>2, <1>5, <1>7, <1>8 DEF Kept

LEMMA ReturnKeepsControls ==
    ASSUME LifecycleInv, ControlsInv, pc = "commit", NEW next, Return(next), next.st = chg.st,
           UNCHANGED <<accepted, arrived>>, landed' \in Seq(Nat),
           ToSet(landed') = ToSet(landed) \cup ToSet(Coming), Len(landed') = Len(landed) + Len(Coming)
    PROVE  ControlsInv'
<1>1. CASE Verified(cp, next) /\ ~IsActive(next.st)
  <2>1. Discard /\ pc' \in Settled
    BY <1>1 DEF Return, Stop, Settled
  <2> QED
    BY <2>1, DiscardKeepsControls
<1>2. CASE ~(Verified(cp, next) /\ ~IsActive(next.st))
  <2>1. /\ pc' = IF ~Verified(cp, next) THEN "broken" ELSE IF ready THEN "loop" ELSE "open"
        /\ UNCHANGED <<deferred, queue, slot, batch>>
    BY <1>2 DEF Return, inbox
  <2>2. pc' \in {"broken", "loop", "open"} /\ (pc' # "broken" => IsActive(next.st))
    BY <1>2, <2>1
  <2>3. Coming' = <<>>
    BY <2>2 DEF Coming
  <2>4. slot = <<>> /\ batch.inserts = <<>> /\ batch.pause = FALSE /\ deferred \in Seq(Nat)
    BY DEF ControlsInv, PlacesFit, Interruptibles
  <2>5. PlacesFit'
    BY <2>1, <2>2, <2>3, <2>4, NothingCounts DEF PlacesFit
  <2>6. AcceptedFit'
    BY DEF ControlsInv, AcceptedFit
  <2>7. ASSUME Continues' PROVE Kept'
    <3>1. pc' # "broken"
      BY <2>7 DEF Continues, Live, Settled
    <3>2. Continues
      BY <2>2, <3>1 DEF Continues, Live, Settled
    <3> QED
      BY <2>1, <2>3, <3>2, LandingKeeps
  <2> QED
    BY <2>5, <2>6, <2>7 DEF ControlsInv
<1> QED
  BY <1>1, <1>2

LEMMA RepositoryStepKeepsControls ==
    ASSUME EngineAssumption, LifecycleInv, ControlsInv, RepositoryStep PROVE ControlsInv'
<1> USE DEF host, inbox
<1>1. landed \in Seq(Nat) /\ Coming \in Seq(Nat)
  BY DEF ControlsInv, PlacesFit
<1>2. /\ landed \o Coming \in Seq(Nat) /\ Len(landed \o Coming) = Len(landed) + Len(Coming)
      /\ ToSet(landed \o Coming) = ToSet(landed) \cup ToSet(Coming)
  BY <1>1, Joined
<1>3. CASE CommitInline
  <2>1. /\ pc = "commit" /\ repo = "inline" /\ head' = Reduce(cp, chg)
        /\ landed' = landed \o Landing(chg) /\ Return(head') /\ UNCHANGED <<accepted, arrived>>
    BY <1>3 DEF CommitInline
  <2>2. wr = "queued"
    BY <2>1 DEF LifecycleInv, InlineAtOnce, Inv, CommitPhase
  <2>3. Coming = Landing(chg)
    BY <2>1, <2>2 DEF Coming
  <2>4. head'.st = chg.st
    BY <2>1, ReduceShape
  <2> QED
    BY <1>2, <2>1, <2>3, <2>4, ReturnKeepsControls
<1>4. CASE RepositoryRuns
  <2>1. /\ pc = "commit" /\ wr = "queued" /\ wr' = "running"
        /\ UNCHANGED <<head, pc, deferred, queue, slot, batch, chg, landed, accepted, arrived>>
    BY <1>4 DEF RepositoryRuns
  <2>2. Coming' = Coming
    BY <2>1 DEF Coming
  <2>3. PlacesFit' /\ AcceptedFit' /\ (Continues' <=> Continues)
    BY <2>1, <2>2 DEF ControlsInv, PlacesFit, AcceptedFit, Continues, Live
  <2>4. ASSUME Continues PROVE Kept'
    BY <2>1, <2>2, <2>4 DEF ControlsInv, Kept, InsertsAccepted, PauseAccepted, PauseWaits
  <2> QED
    BY <2>3, <2>4 DEF ControlsInv
<1>5. CASE RepositoryWrites
  <2>1. /\ pc = "commit" /\ pc' = pc /\ wr = "running" /\ wr' = "written" /\ head' = Reduce(cp, chg)
        /\ landed' = landed \o Landing(chg)
        /\ UNCHANGED <<deferred, queue, slot, batch, chg, accepted, arrived>>
    BY <1>5 DEF RepositoryWrites
  <2>2. Coming = Landing(chg) /\ Coming' = <<>>
    BY <2>1 DEF Coming
  <2>3. head'.st = chg'.st
    BY <2>1, ReduceShape
  <2>4. landed' \in Seq(Nat)
    BY <1>2, <2>1, <2>2
  <2>5. PlacesFit'
    BY <2>1, <2>2, <2>3, <2>4, NothingCounts DEF ControlsInv, PlacesFit
  <2>6. AcceptedFit' /\ (Continues' <=> Continues)
    BY <2>1 DEF ControlsInv, AcceptedFit, Continues, Live
  <2>7. ASSUME Continues PROVE Kept'
    <3>1. /\ ToSet(landed') = ToSet(landed) \cup ToSet(Coming)
          /\ Len(landed') = Len(landed) + Len(Coming)
      BY <1>2, <2>1, <2>2
    <3> QED
      BY <2>1, <2>2, <2>7, <3>1, LandingKeeps
  <2> QED
    BY <2>5, <2>6, <2>7 DEF ControlsInv
<1>6. CASE RepositoryReplies
  <2>1. /\ pc = "commit" /\ wr = "written" /\ Return(head) /\ UNCHANGED <<landed, accepted, arrived>>
    BY <1>6 DEF RepositoryReplies
  <2>2. head.st = chg.st
    BY <2>1 DEF ControlsInv, PlacesFit
  <2>3. Coming = <<>>
    BY <2>1 DEF Coming
  <2>4. /\ ToSet(landed') = ToSet(landed) \cup ToSet(Coming)
        /\ Len(landed') = Len(landed) + Len(Coming) /\ landed' \in Seq(Nat)
    <3>1. Len(landed) \in Nat
      BY <1>1
    <3> QED
      BY <1>1, <2>1, <2>3, <3>1, NothingCounts
  <2>5. UNCHANGED <<accepted, arrived>>
    BY <2>1
  <2> QED
    BY <2>1, <2>2, <2>4, <2>5, ReturnKeepsControls
<1>7. CASE RepositoryFails
  <2>1. Discard /\ pc' \in Settled /\ landed' \in Seq(Nat) /\ UNCHANGED <<accepted, arrived>>
    BY <1>1, <1>7 DEF RepositoryFails, Stop, Settled
  <2> QED
    BY <2>1, DiscardKeepsControls
<1>8. CASE CommitTimesOut
  <2>1. CASE cp.rev = -1
    <3>1. Discard /\ pc' \in Settled /\ landed' \in Seq(Nat) /\ UNCHANGED <<accepted, arrived>>
      BY <1>1, <1>8, <2>1 DEF CommitTimesOut, Stop, Settled
    <3> QED
      BY <3>1, DiscardKeepsControls
  <2>2. CASE cp.rev # -1
    <3>1. /\ pc = "commit" /\ Commit(Limited("deadline"))
          /\ UNCHANGED <<deferred, queue, slot, batch, accepted, arrived>>
      BY <1>8, <2>2 DEF CommitTimesOut
    <3>2. /\ chg' = Limited("deadline") /\ landed' = landed
          /\ \/ pc' = "commit" /\ wr' = "queued"
             \/ pc' = "broken"
      BY <3>1 DEF Commit, Propose
    <3>3. Landing(Limited("deadline")) = <<>> /\ ~IsActive(Limited("deadline").st)
      BY OnlyInsertsLand, EndsTheWork
    <3>4. Coming' = <<>> /\ ~Continues'
      BY <3>2, <3>3 DEF Coming, Continues, Live, Settled
    <3>5. slot = <<>> /\ batch.inserts = <<>> /\ batch.pause = FALSE /\ deferred \in Seq(Nat)
      BY <3>1 DEF ControlsInv, PlacesFit, Interruptibles
    <3>6. PlacesFit'
      BY <1>1, <3>1, <3>2, <3>4, <3>5, NothingCounts DEF PlacesFit
    <3>7. AcceptedFit'
      BY <3>1 DEF ControlsInv, AcceptedFit
    <3> QED
      BY <3>4, <3>6, <3>7 DEF ControlsInv
  <2> QED
    BY <2>1, <2>2
<1> QED
  BY <1>3, <1>4, <1>5, <1>6, <1>7, <1>8 DEF RepositoryStep

LEMMA InitKeepsControls == Init => ControlsInv
<1> SUFFICES ASSUME Init PROVE ControlsInv
  OBVIOUS
<1>1. pc = "idle" /\ deferred = <<>> /\ queue = <<>> /\ slot = <<>> /\ batch = NoBatch
      /\ accepted = {} /\ landed = <<>>
  BY DEF Init
<1>2. Coming = <<>> /\ ~Continues
  BY <1>1 DEF Coming, Continues, Live, Settled
<1> QED
  BY <1>1, <1>2, NoBatchKept, NothingCounts DEF ControlsInv, PlacesFit, AcceptedFit

LEMMA NextKeepsControls ==
    LifecycleInv /\ ControlsInv /\ [Next]_vars => ControlsInv'
<1> SUFFICES ASSUME LifecycleInv, ControlsInv, [Next]_vars PROVE ControlsInv'
  OBVIOUS
<1>1. CASE UNCHANGED vars
  BY <1>1, StayKeepsControls DEF vars
<1>2. CASE Next
  BY <1>2, EngineAssumption, InvocationKeepsControls, EnvironmentKeepsControls,
     EngineStepKeepsControls, PortStepKeepsControls, RepositoryStepKeepsControls DEF Next
<1> QED
  BY <1>1, <1>2

(* ControlsConserved: while a run goes on no accepted insert is lost or    *)
(* repeated on its way through the inbox, an effect's reader, the deferred *)
(* queue, a batch and a commit, and an accepted pause is still held, for   *)
(* any number of controls.                                                 *)
THEOREM ControlsConservedAlways == Spec => []ControlsConserved
<1>1. Init => ControlsInv
  BY InitKeepsControls
<1>2. LifecycleInv /\ ControlsInv => ControlsConserved
  BY KeptIsConserved
<1> QED
  BY <1>1, <1>2, LifecycleInvAlways, NextKeepsControls, PTL DEF Spec

-----------------------------------------------------------------------------
(* Types.  A change under way carries messages only, and an insert it will *)
(* land is one the host submitted.                                         *)
Inserted == 1..MaxControls

Carries(x) == Landing(x) \in Seq(Inserted) /\ x.replace \in Seq(Messages)

HeadsTyped == head \in Checkpoints /\ cp \in Checkpoints
ChangeTyped == pc = "commit" /\ wr # "written" => Carries(chg)

PlacesTyped ==
    /\ deferred \in Seq(Inserted) /\ landed \in Seq(Inserted)
    /\ batch \in [n : Nat, pause : BOOLEAN, inserts : Seq(Inserted)]

PartsTyped ==
    /\ repo \in Repositories
    /\ pc \in Settled \cup SuspensionPoints \cup {"open", "loop", "plan"}
    /\ ready \in BOOLEAN /\ skip \in BOOLEAN /\ expired \in BOOLEAN /\ closed \in BOOLEAN
    /\ stop \in {"none", "suspended", "terminal", "repository_error", "consumer_closed"}
    /\ accepted \subseteq Controls /\ ran \subseteq Nat \X Nat /\ runs \in 0..MaxInvocations

TypeInv == HeadsTyped /\ ChangeTyped /\ PlacesTyped /\ PartsTyped

LEMMA TypedIsOK == LifecycleInv /\ TypeInv => TypeOK
<1> SUFFICES ASSUME LifecycleInv, TypeInv PROVE TypeOK
  OBVIOUS
<1>1. head \in Checkpoints /\ cp \in Checkpoints
  BY DEF TypeInv, HeadsTyped
<1>2. last \in Nat \cup {-1}
  <2>1. last \in {-1, cp.rev}
    BY DEF LifecycleInv, Inv, Reported
  <2>2. cp.rev \in Nat \cup {-1}
    BY <1>1 DEF Checkpoints
  <2> QED
    BY <2>1, <2>2
<1>3. wr \in {"idle", "queued", "running", "written"}
  BY DEF LifecycleInv, Inv, CommitPhase
<1>4. queue \in Seq(Controls) /\ slot \in Seq(Controls) /\ Len(slot) <= 1 /\ arrived \in 0..MaxControls
  BY DEF LifecycleInv, InputsFit
<1>5. PlacesTyped /\ PartsTyped
  BY DEF TypeInv
<1> QED
  BY <1>1, <1>2, <1>3, <1>4, <1>5, Zenon DEF TypeOK, PlacesTyped, PartsTyped, Inserted

-----------------------------------------------------------------------------
(* The messages and facts of each change.                                  *)
LEMMA MessagesTyped ==
    /\ UserMessage \in Messages
    /\ \A calls \in Seq(Nat) : Assistant(calls) \in Messages
    /\ \A n \in Nat : External(n) \in Messages /\ ToolMessage(n) \in Messages
<1>1. <<>> \in Seq(Nat)
  OBVIOUS
<1> QED
  BY <1>1 DEF UserMessage, Assistant, External, ToolMessage, Message, Messages

LEMMA OneMessage ==
    ASSUME NEW m \in Messages PROVE <<m>> \in Seq(Messages)
OBVIOUS

LEMMA StoppingTyped ==
    ASSUME NEW c, NEW x, MayStop(c, x)
    PROVE  x.fact \in Facts /\ x.append \in Seq(Messages)
<1>1. \E why \in Lifecycle!Reasons : x = Limited(why) \/ x = Failed(why)
  BY Vocabulary DEF MayStop
<1>2. PICK why \in Lifecycle!Reasons : x = Limited(why) \/ x = Failed(why)
  BY <1>1
<1>3. /\ x.append = <<>>
      /\ \E kind \in {"limited", "failed"} :
            x.fact = [kind |-> "control", result |-> kind, calls |-> <<>>, ptp |-> FALSE, why |-> why,
                      n |-> 0, m |-> 0]
  <2>1. CASE x = Limited(why)
    BY <2>1 DEF Limited, Change, Fact
  <2>2. CASE x = Failed(why)
    BY <2>2 DEF Failed, Change, Fact
  <2> QED
    BY <1>2, <2>1, <2>2
<1>4. {"limited", "failed"} \subseteq Lifecycle!Kinds \cup {"none"} /\ "control" \in FactKinds \cup {"none"}
  BY Vocabulary DEF FactKinds
<1>5. <<>> \in Seq(Nat) /\ <<>> \in Seq(Messages) /\ FALSE \in BOOLEAN /\ 0 \in Nat
  OBVIOUS
<1> QED
  BY <1>3, <1>4, <1>5 DEF Facts

LEMMA SuspendingTyped ==
    ASSUME NEW c, NEW x, MaySuspend(c, x)
    PROVE  x.fact \in Facts /\ x.append \in Seq(Messages)
<1>0. <<>> \in Seq(Nat) /\ <<>> \in Seq(Messages) /\ FALSE \in BOOLEAN /\ 0 \in Nat
  OBVIOUS
<1>1. ASSUME NEW why \in {"pause", "approval"}, x = SuspendAt(c.st, why)
      PROVE  x.fact \in Facts /\ x.append \in Seq(Messages)
  <2>1. /\ x.append = <<>>
        /\ x.fact = [kind |-> "control", result |-> "suspended", calls |-> <<>>, ptp |-> FALSE, why |-> why,
                     n |-> 0, m |-> 0]
    BY <1>1 DEF SuspendAt, Change, Fact
  <2>2. "suspended" \in Lifecycle!Kinds \cup {"none"} /\ "control" \in FactKinds \cup {"none"}
        /\ why \in Lifecycle!Reasons
    BY Vocabulary DEF FactKinds
  <2> QED
    BY <1>0, <2>1, <2>2 DEF Facts
<1>2. ASSUME NEW messages \in {<<>>, <<UserMessage>>}, x = Resumed(c, messages)
      PROVE  x.fact \in Facts /\ x.append \in Seq(Messages)
  <2>1. /\ x.append = messages
        /\ x.fact = [kind |-> "resumed", result |-> "none", calls |-> <<>>, ptp |-> FALSE, why |-> "none",
                     n |-> Len(messages), m |-> 0]
    BY <1>2 DEF Resumed, Change, Fact
  <2>2. messages \in Seq(Messages) /\ Len(messages) \in Nat
    BY <1>0, MessagesTyped, OneMessage
  <2>3. "none" \in Lifecycle!Kinds \cup {"none"} /\ "resumed" \in FactKinds \cup {"none"}
        /\ "none" \in Lifecycle!Reasons
    BY Vocabulary DEF FactKinds
  <2> QED
    BY <1>0, <2>1, <2>2, <2>3 DEF Facts
<1> QED
  BY <1>1, <1>2 DEF MaySuspend

LEMMA EditingTyped ==
    ASSUME NEW c, c.hist \in Seq(Messages), NEW x, MayEdit(c, x), Carries(x)
    PROVE  x.fact \in Facts /\ x.append \in Seq(Messages)
<1>0. <<>> \in Seq(Nat) /\ <<>> \in Seq(Messages) /\ FALSE \in BOOLEAN /\ 0 \in Nat
  OBVIOUS
<1>1. ASSUME NEW n, x = Insert(n)
      PROVE  x.fact \in Facts /\ x.append \in Seq(Messages)
  <2>1. /\ x.append = <<External(n)>>
        /\ x.fact = [kind |-> "conversation_insert", result |-> "none", calls |-> <<>>, ptp |-> FALSE,
                     why |-> "none", n |-> 0, m |-> 0]
    BY <1>1 DEF Insert, Change, Fact
  <2>2. n \in Nat
    <3>1. <<n>> \in Seq(Inserted)
      BY <1>1, OnlyInsertsLand DEF Carries
    <3>2. <<n>>[1] \in Inserted
      BY <3>1
    <3> QED
      BY <3>2 DEF Inserted
  <2>3. "none" \in Lifecycle!Kinds \cup {"none"} /\ "conversation_insert" \in FactKinds \cup {"none"}
        /\ "none" \in Lifecycle!Reasons
    BY Vocabulary DEF FactKinds
  <2>4. x.append \in Seq(Messages)
    BY <2>1, <2>2, MessagesTyped, OneMessage
  <2> QED
    BY <1>0, <2>1, <2>3, <2>4 DEF Facts
<1>2. ASSUME NEW messages, x = Rewrite(c, messages)
      PROVE  x.fact \in Facts /\ x.append \in Seq(Messages)
  <2>1. /\ x.append = <<>> /\ x.replace = messages
        /\ x.fact = [kind |-> "history_rewrite", result |-> "none", calls |-> <<>>, ptp |-> FALSE,
                     why |-> "none", n |-> Len(c.hist), m |-> Len(messages)]
    BY <1>2 DEF Rewrite, Change, Fact
  <2>2. Len(messages) \in Nat /\ Len(c.hist) \in Nat
    BY <2>1 DEF Carries
  <2>3. "none" \in Lifecycle!Kinds \cup {"none"} /\ "history_rewrite" \in FactKinds \cup {"none"}
        /\ "none" \in Lifecycle!Reasons
    BY Vocabulary DEF FactKinds
  <2> QED
    BY <1>0, <2>1, <2>2, <2>3 DEF Facts
<1> QED
  BY <1>1, <1>2 DEF MayEdit

LEMMA TurnTyped ==
    ASSUME NEW c, NEW x, MayTurn(c, x)
    PROVE  x.fact \in Facts /\ x.append \in Seq(Messages)
<1>1. PICK response \in Turns :
          x \in {ModelTurn(c, response, MaxTokens), KeepActive(ModelTurn(c, response, MaxTokens))}
  BY DEF MayTurn
<1>2. response.calls \in Seq(Nat) /\ response.ptp \in BOOLEAN /\ response.tokens \in Nat
  BY EngineAssumption DEF Turns
<1> DEFINE st == TurnState(c, response)
<1>3. st.kind \in Lifecycle!Kinds /\ st.ptp \in BOOLEAN /\ st.why \in Lifecycle!Reasons
  <2>1. OwnedPending(st)
    <3>1. OwnedPending(Terminal("limited", "max_total_tokens"))
      BY TerminalFits, Vocabulary
    <3>2. OwnedPending(Active(response.calls, response.ptp))
      BY <1>2, ActiveFits
    <3>3. OwnedPending(Terminal("completed", "none"))
      BY TerminalFits, Vocabulary
    <3> QED
      BY <3>1, <3>2, <3>3 DEF TurnState
  <2> QED
    BY <2>1 DEF OwnedPending, States
<1> HIDE DEF st
<1>4. /\ x.append = <<Assistant(response.calls)>>
      /\ \E result \in {st.kind, "planning"} :
            x.fact = [kind |-> "model_turn", result |-> result, calls |-> response.calls, ptp |-> st.ptp,
                      why |-> st.why, n |-> response.tokens, m |-> 0]
  <2> DEFINE turn == ModelTurn(c, response, MaxTokens)
  <2>1. /\ turn.append = <<Assistant(response.calls)>>
        /\ turn.fact = [kind |-> "model_turn", result |-> st.kind, calls |-> response.calls, ptp |-> st.ptp,
                        why |-> st.why, n |-> response.tokens, m |-> 0]
    BY DEF ModelTurn, Change, Fact, st, TurnState
  <2>2. CASE x = turn
    BY <2>1, <2>2
  <2>3. CASE x = KeepActive(turn)
    <3>1. {"append", "fact", "st"} \subseteq DOMAIN turn
      BY DEF ModelTurn, Change
    <3> HIDE DEF turn
    <3>2. CASE turn.st.kind = "completed"
      <4>1. x = [turn EXCEPT !.st = Active(<<>>, FALSE), !.fact.result = "planning"]
        BY <2>3, <3>2 DEF KeepActive
      <4>2. x.append = turn.append /\ x.fact = [turn.fact EXCEPT !.result = "planning"]
        BY <3>1, <4>1
      <4> QED
        BY <2>1, <4>2
    <3>3. CASE turn.st.kind # "completed"
      <4>1. x = turn
        BY <2>3, <3>3 DEF KeepActive
      <4> QED
        BY <2>1, <4>1
    <3> QED
      BY <3>2, <3>3
  <2> QED
    BY <1>1, <2>2, <2>3
<1>5. {st.kind, "planning"} \subseteq Lifecycle!Kinds \cup {"none"} /\ "model_turn" \in FactKinds \cup {"none"}
  BY <1>3, Vocabulary DEF FactKinds
<1>6. x.append \in Seq(Messages)
  BY <1>2, <1>4, MessagesTyped, OneMessage
<1> QED
  BY <1>2, <1>3, <1>4, <1>5, <1>6 DEF Facts

LEMMA BatchTyped ==
    ASSUME NEW c, c.st \in States, c.calls \in Nat, NEW x, MayBatch(c, x)
    PROVE  x.fact \in Facts /\ x.append \in Seq(Messages)
<1>1. PICK k \in BatchSizes(c), why \in {"none", "waiting", "pause"} : x = BatchOutcome(c, k, why)
  BY DEF MayBatch
<1> DEFINE calls == SubSeq(c.st.pending, 1, k)
<1>2. c.st.pending \in Seq(Nat) /\ k \in Nat /\ k <= Len(c.st.pending)
  BY DEF States, BatchSizes
<1>3. calls \in Seq(Nat) /\ Len(calls) = k /\ DOMAIN calls = 1..k
  BY <1>2
<1> HIDE DEF calls
<1>4. /\ x.append = [i \in 1..k |-> ToolMessage(calls[i])]
      /\ x.fact = [kind |-> "tool_batch", result |-> "none", calls |-> calls, ptp |-> FALSE,
                   why |-> why, n |-> 0, m |-> 0]
  BY <1>1 DEF BatchOutcome, Change, Fact, calls
<1>5. \A i \in 1..k : ToolMessage(calls[i]) \in Messages
  BY <1>3, MessagesTyped
<1>6. x.append \in Seq(Messages)
  BY <1>2, <1>4, <1>5
<1>7. "none" \in Lifecycle!Kinds \cup {"none"} /\ "tool_batch" \in FactKinds \cup {"none"}
      /\ why \in Lifecycle!Reasons
  BY Vocabulary DEF FactKinds
<1> QED
  BY <1>3, <1>4, <1>6, <1>7 DEF Facts

LEMMA ProposalTyped ==
    ASSUME NEW c, c.hist \in Seq(Messages), c.st \in States, c.calls \in Nat,
           NEW x, MayPropose(c, x), Carries(x)
    PROVE  x.fact \in Facts /\ x.append \in Seq(Messages)
<1>1. CASE x = Started
  <2>1. /\ x.append = <<UserMessage>>
        /\ x.fact = [kind |-> "started", result |-> "none", calls |-> <<>>, ptp |-> FALSE, why |-> "none",
                     n |-> 1, m |-> 0]
    BY <1>1 DEF Started, Change, Fact
  <2>2. "none" \in Lifecycle!Kinds \cup {"none"} /\ "started" \in FactKinds \cup {"none"}
        /\ "none" \in Lifecycle!Reasons
    BY Vocabulary DEF FactKinds
  <2>3. <<>> \in Seq(Nat) /\ FALSE \in BOOLEAN /\ 0 \in Nat /\ 1 \in Nat
    OBVIOUS
  <2>4. x.append \in Seq(Messages)
    BY <2>1, MessagesTyped, OneMessage
  <2> QED
    BY <2>1, <2>2, <2>3, <2>4 DEF Facts
<1> QED
  BY <1>1, StoppingTyped, SuspendingTyped, EditingTyped, TurnTyped, BatchTyped DEF MayPropose

(* A write makes a checkpoint of a checkpoint.                             *)
LEMMA WriteTyped ==
    ASSUME cp \in Checkpoints, NEW x, x.replace \in Seq(Messages), x.append \in Seq(Messages), x.fact \in Facts,
           HeadFits(Reduce(cp, x))
    PROVE  Reduce(cp, x) \in Checkpoints
<1> DEFINE next == Reduce(cp, x)
<1>1. /\ next.rev \in Nat \cup {-1} /\ next.steps \in Nat /\ next.calls \in Nat /\ next.tokens \in Nat
      /\ next.st \in States
  BY DEF HeadFits, OwnedPending
<1>2. cp.hist \in Seq(Messages)
  BY DEF Checkpoints
<1>3. next.hist \in Seq(Messages) /\ next.fact \in Facts
  <2>1. cp.hist \o x.append \in Seq(Messages)
    BY <1>2, ConcatProperties
  <2> QED
    BY <2>1 DEF Reduce
<1>4. next = [rev |-> next.rev, hist |-> next.hist, steps |-> next.steps, calls |-> next.calls,
              tokens |-> next.tokens, st |-> next.st, fact |-> next.fact]
  BY DEF Reduce
<1> HIDE DEF next
<1> QED
  BY <1>1, <1>3, <1>4 DEF Checkpoints, next

-----------------------------------------------------------------------------
(* What each change carries.                                               *)
LEMMA NothingCarried ==
    ASSUME NEW c, NEW k, NEW why, NEW response
    PROVE  /\ Carries(Started) /\ Carries(Limited(why)) /\ Carries(Failed(why))
           /\ Carries(SuspendAt(c.st, why)) /\ Carries(Resumed(c, why))
           /\ Carries(BatchOutcome(c, k, why))
           /\ Carries(ModelTurn(c, response, MaxTokens))
           /\ Carries(KeepActive(ModelTurn(c, response, MaxTokens)))
<1>1. <<>> \in Seq(Inserted) /\ <<>> \in Seq(Messages)
  OBVIOUS
<1>2. /\ Started.replace = <<>> /\ Limited(why).replace = <<>> /\ Failed(why).replace = <<>>
      /\ SuspendAt(c.st, why).replace = <<>> /\ Resumed(c, why).replace = <<>>
      /\ BatchOutcome(c, k, why).replace = <<>>
      /\ ModelTurn(c, response, MaxTokens).replace = <<>>
      /\ KeepActive(ModelTurn(c, response, MaxTokens)).replace = <<>>
  <2>1. Started.replace = <<>> /\ Limited(why).replace = <<>> /\ Failed(why).replace = <<>>
    BY StartShape, StopShape, Zenon
  <2>2. SuspendAt(c.st, why).replace = <<>>
    BY SuspendShape
  <2>3. Resumed(c, why).replace = <<>>
    BY ResumeShape
  <2>4. BatchOutcome(c, k, why).replace = <<>>
    BY DEF BatchOutcome, Change
  <2>5. ModelTurn(c, response, MaxTokens).replace = <<>>
    BY TurnShape
  <2>6. KeepActive(ModelTurn(c, response, MaxTokens)).replace = <<>>
    BY KeepShape
  <2> QED
    BY <2>1, <2>2, <2>3, <2>4, <2>5, <2>6
<1> QED
  BY <1>1, <1>2, OnlyInsertsLand, Zenon DEF Carries

LEMMA InsertCarried == ASSUME NEW n \in Inserted PROVE Carries(Insert(n))
<1>1. <<n>> \in Seq(Inserted) /\ <<>> \in Seq(Messages)
  OBVIOUS
<1> QED
  BY <1>1, InsertShape, OnlyInsertsLand, Zenon DEF Carries

LEMMA RewriteCarried == ASSUME NEW c, NEW messages \in Seq(Messages) PROVE Carries(Rewrite(c, messages))
<1>1. <<>> \in Seq(Inserted)
  OBVIOUS
<1> QED
  BY <1>1, RewriteShape, OnlyInsertsLand, Zenon DEF Carries

(* A commit proposes the change or the deadline.                           *)
Proposes ==
    /\ UNCHANGED <<head, cp, closed, stop, landed>>
    /\ pc' \in {"commit", "broken"}
    /\ Carries(chg')

LEMMA CommitProposes == ASSUME NEW c, Carries(c), Commit(c) PROVE Proposes
<1>1. chg' \in {c, Limited("deadline")} /\ pc' \in {"commit", "broken"}
  BY DEF Commit, Propose
<1> QED
  BY <1>1, NothingCarried DEF Proposes, Commit

Keeps == UNCHANGED <<head, cp, closed, stop, landed>> /\ pc' \in Effects \cup {"loop", "plan"}

(* What the inserts in a queue are numbered.                               *)
LEMMA InsertsNumbered ==
    ASSUME NEW controls \in Seq(Controls) PROVE InsertsIn(controls) \in Seq(Inserted)
<1>1. PICK f : Takes(f, controls, Len(controls)) /\ InsertsIn(controls) = f[Len(controls)]
  BY InsertsInTakes
<1> DEFINE P == {n \in Nat : n <= Len(controls) => f[n] \in Seq(Inserted)}
<1>2. 0 \in P
  <2>1. f[0] = <<>> /\ <<>> \in Seq(Inserted)
    BY <1>1 DEF Takes
  <2> QED
    BY <2>1
<1>3. ASSUME NEW n \in Nat, n \in P PROVE n + 1 \in P
  <2> SUFFICES ASSUME n + 1 <= Len(controls) PROVE f[n + 1] \in Seq(Inserted)
    OBVIOUS
  <2>1. /\ n + 1 \in 0..Len(controls) /\ n + 1 # 0 /\ (n + 1) - 1 = n /\ n <= Len(controls)
        /\ controls[n + 1] \in Controls
    OBVIOUS
  <2>2. f[n + 1] = Plus(f[n], controls[n + 1])
    BY <1>1, <2>1 DEF Takes
  <2>3. f[n] \in Seq(Inserted)
    BY <1>3, <2>1
  <2>4. InsertOf(controls[n + 1]) \in Seq(Inserted)
    <3>1. controls[n + 1].n \in Inserted
      BY <2>1 DEF Controls, Inserted
    <3>2. <<controls[n + 1].n>> \in Seq(Inserted) /\ <<>> \in Seq(Inserted)
      BY <3>1
    <3> QED
      BY <3>2 DEF InsertOf
  <2> QED
    BY <2>2, <2>3, <2>4, ConcatProperties DEF Plus
<1> HIDE DEF P
<1>4. Nat \subseteq P
  BY <1>2, <1>3, NumbersFromZero, Zenon
<1> QED
  BY <1>1, <1>4 DEF P

LEMMA SlotNumbered ==
    ASSUME InputsFit
    PROVE  /\ slot # <<>> => slot[1] \in Controls
           /\ queue # <<>> => Head(queue) \in Controls
BY DEF InputsFit

(* The numbers the engine may take over from its queues.                   *)
LEMMA QueuesNumbered ==
    ASSUME InputsFit, PlacesTyped
    PROVE  /\ InsertsIn(queue) \in Seq(Inserted) /\ InsertsIn(slot) \in Seq(Inserted)
           /\ DeferredBy(slot) \in Seq(Inserted) /\ Boundary \in Seq(Inserted)
           /\ DrainedBatch.inserts \in Seq(Inserted) /\ DrainedBatch.pause \in BOOLEAN
           /\ Boundary # <<>> => Head(Boundary) \in Inserted /\ Tail(Boundary) \in Seq(Inserted)
<1>1. InsertsIn(queue) \in Seq(Inserted) /\ InsertsIn(slot) \in Seq(Inserted)
  BY InsertsNumbered DEF InputsFit
<1>2. <<>> \in Seq(Inserted) /\ deferred \in Seq(Inserted)
  BY DEF PlacesTyped
<1>3. DeferredBy(slot) \in Seq(Inserted) /\ Boundary \in Seq(Inserted)
  BY <1>1, <1>2, ConcatProperties DEF DeferredBy, Boundary
<1>4. DrainedBatch.inserts \in Seq(Inserted) /\ DrainedBatch.pause \in BOOLEAN
  BY <1>1 DEF DrainedBatch, HasPause
<1>5. Boundary # <<>> => Head(Boundary) \in Inserted /\ Tail(Boundary) \in Seq(Inserted)
  BY <1>3
<1> QED
  BY <1>1, <1>3, <1>4, <1>5

LEMMA EngineStepProposes ==
    ASSUME LifecycleInv, TypeInv, EngineStep
    PROVE  (Proposes \/ Keeps) /\ UNCHANGED <<repo, runs, expired, accepted>>
<1>0. InputsFit /\ PlacesTyped
  BY DEF LifecycleInv, TypeInv
<1>1. CASE OpenTooLate \/ DeadlineInterrupts \/ LoopDeadline \/ PlanTooLate
  BY <1>1, NothingCarried, CommitProposes
     DEF OpenTooLate, DeadlineInterrupts, LoopDeadline, PlanTooLate, frame, host
<1>2. CASE PlanLimit \/ ToolLimit \/ SelectFails \/ LoopPause
  BY <1>2, NothingCarried, CommitProposes DEF PlanLimit, ToolLimit, SelectFails, LoopPause, frame, host
<1>3. CASE BindRefuses
  BY <1>3, NothingCarried, CommitProposes DEF BindRefuses, frame, host
<1>4. CASE LoopInsert
  <2>1. Head(Boundary) \in Inserted
    BY <1>0, <1>4, QueuesNumbered DEF LoopInsert, InsertDue
  <2> QED
    BY <1>4, <2>1, InsertCarried, CommitProposes DEF LoopInsert, frame, host
<1>5. CASE ControlInterrupts
  <2>1. slot[1].n \in Inserted
    BY <1>0, <1>5, SlotNumbered DEF ControlInterrupts, Controls, Inserted
  <2>2. Carries(IF slot[1].kind = "pause" THEN SuspendAt(cp.st, "pause") ELSE Insert(slot[1].n))
    BY <2>1, NothingCarried, InsertCarried
  <2> QED
    BY <1>5, <2>2, CommitProposes DEF ControlInterrupts, frame, host
<1>6. CASE OpenCatalog \/ TakeControl \/ ConsumeControl \/ AskModel \/ BatchTakesControl
  BY <1>6 DEF OpenCatalog, TakeControl, ConsumeControl, AskModel, BatchTakesControl, frame, host, Keeps,
              Effects, Interruptibles
<1>7. CASE LoopPlan \/ SelectBatch
  BY <1>7 DEF LoopPlan, SelectBatch, frame, host, Keeps, Effects, Interruptibles
<1> QED
  BY <1>1, <1>2, <1>3, <1>4, <1>5, <1>6, <1>7 DEF EngineStep

LEMMA PortStepProposes ==
    ASSUME LifecycleInv, TypeInv, PortStep
    PROVE  (Proposes \/ Keeps) /\ UNCHANGED <<repo, runs, expired, accepted>>
<1>1. CASE CatalogOpens \/ ReducerKeeps \/ Approves
  BY <1>1 DEF CatalogOpens, ReducerKeeps, Approves, frame, host, Keeps, Effects
<1>2. CASE CatalogFails \/ ReducerFails \/ ModelFails
  BY <1>2, NothingCarried, CommitProposes DEF CatalogFails, ReducerFails, ModelFails, frame, host
<1>3. CASE ApprovalDenies \/ ApprovalSuspends \/ ApprovalFails
  BY <1>3, NothingCarried, CommitProposes DEF ApprovalDenies, ApprovalSuspends, ApprovalFails, frame, host
<1>4. CASE BatchDone
  BY <1>4, NothingCarried, CommitProposes DEF BatchDone, frame, host
<1>5. CASE ModelAnswers
  <2>1. PICK response \in Responses :
            Commit(IF cp.st.ptp /\ deferred' # <<>> THEN KeepActive(ModelTurn(cp, response, MaxTokens))
                   ELSE ModelTurn(cp, response, MaxTokens))
    BY <1>5 DEF ModelAnswers
  <2>2. Proposes
    BY <2>1, NothingCarried, CommitProposes
  <2> QED
    BY <1>5, <2>2 DEF ModelAnswers, frame, host
<1>6. CASE ReducerRewrites
  <2>1. PICK messages \in Rewrites(cp.hist) :
            Commit(IF ValidHistory(messages, Active(<<>>, FALSE)) THEN Rewrite(cp, messages)
                   ELSE Failed("history_reducer_error"))
    BY <1>6 DEF ReducerRewrites
  <2>2. messages \in Seq(Messages)
    <3>1. cp.hist \in Seq(Messages) /\ <<UserMessage>> \in Seq(Messages)
      BY MessagesTyped, OneMessage DEF TypeInv, HeadsTyped, Checkpoints
    <3>2. Len(cp.hist) > KeepsUpTo /\ messages \in {<<UserMessage>>, Tail(cp.hist)}
      BY <2>1 DEF Rewrites
    <3>3. Tail(cp.hist) \in Seq(Messages)
      <4>1. KeepsUpTo \in Nat \ {0} /\ Len(cp.hist) \in Nat
        BY <3>1, EngineAssumption
      <4>2. cp.hist # <<>>
        BY <3>2, <4>1
      <4> QED
        BY <3>1, <4>2
    <3> QED
      BY <3>1, <3>2, <3>3
  <2>3. Proposes
    BY <2>1, <2>2, NothingCarried, RewriteCarried, CommitProposes
  <2> QED
    BY <1>6, <2>3 DEF ReducerRewrites, frame, host
<1> QED
  BY <1>1, <1>2, <1>3, <1>4, <1>5, <1>6 DEF PortStep

(* The engine's own queues, the batch and the flags.                       *)
Flags == ready' \in BOOLEAN /\ skip' \in BOOLEAN /\ ran' \subseteq Nat \X Nat
Batches == [n : Nat, pause : BOOLEAN, inserts : Seq(Inserted)]
Places == deferred' \in Seq(Inserted) /\ batch' \in Batches

LEMMA NoBatchTyped == NoBatch \in Batches
<1>1. <<>> \in Seq(Inserted)
  OBVIOUS
<1> QED
  BY <1>1 DEF NoBatch, Batches

LEMMA SelectedTyped ==
    ASSUME cp.st \in States, cp.steps \in Nat, NEW k \in Nat, k <= Len(cp.st.pending)
    PROVE  Calls(k) \subseteq Nat \X Nat
<1>1. cp.st.pending \in Seq(Nat)
  BY DEF States
<1> QED
  BY <1>1 DEF Calls

LEMMA EngineStepPlaces ==
    ASSUME LifecycleInv, TypeInv, EngineStep
    PROVE  Flags /\ Places
<1>0. /\ InputsFit /\ PlacesTyped /\ PartsTyped /\ cp.st \in States /\ cp.steps \in Nat
      /\ deferred \in Seq(Inserted) /\ batch \in Batches
      /\ ready \in BOOLEAN /\ skip \in BOOLEAN /\ ran \subseteq Nat \X Nat
  BY DEF LifecycleInv, TypeInv, PlacesTyped, PartsTyped, HeadsTyped, Checkpoints, Batches
<1>1. CASE OpenCatalog \/ OpenTooLate \/ TakeControl \/ ControlInterrupts \/ LoopDeadline
  BY <1>0, <1>1 DEF OpenCatalog, OpenTooLate, TakeControl, ControlInterrupts, LoopDeadline, Flags, Places
<1>2. CASE PlanLimit \/ PlanTooLate \/ AskModel
  BY <1>0, <1>2 DEF PlanLimit, PlanTooLate, AskModel, Flags, Places
<1>3. CASE DeadlineInterrupts
  BY <1>0, <1>3, NoBatchTyped DEF DeadlineInterrupts, Flags, Places
<1>4. CASE ConsumeControl
  BY <1>0, <1>4, QueuesNumbered DEF ConsumeControl, Flags, Places
<1>5. CASE LoopPause \/ LoopPlan \/ ToolLimit \/ SelectFails \/ BindRefuses
  BY <1>0, <1>5, QueuesNumbered DEF LoopPause, LoopPlan, ToolLimit, SelectFails, BindRefuses, Drain, Flags,
                                    Places
<1>6. CASE LoopInsert
  BY <1>0, <1>6, QueuesNumbered DEF LoopInsert, InsertDue, Flags, Places
<1>7. CASE SelectBatch
  <2>1. PICK k \in Selectable : /\ batch' = [NoBatch EXCEPT !.n = k]
                                /\ ran' = ran \/ ran' = ran \cup Calls(k)
    BY <1>7 DEF SelectBatch
  <2>2. k \in Nat /\ k <= Len(cp.st.pending)
    <3>1. Len(cp.st.pending) \in Nat
      BY <1>0 DEF States
    <3> QED
      BY <3>1 DEF Selectable
  <2>3. batch' \in Batches
    BY <2>1, <2>2, NoBatchTyped DEF Batches
  <2>4. deferred' \in Seq(Inserted) /\ UNCHANGED <<ready, skip>>
    BY <1>0, <1>7, QueuesNumbered DEF SelectBatch, Drain
  <2> QED
    BY <1>0, <2>1, <2>2, <2>3, <2>4, SelectedTyped DEF Flags, Places
<1>8. CASE BatchTakesControl
  <2>1. /\ queue # <<>> /\ UNCHANGED <<ready, skip, ran, deferred>>
        /\ batch' = [n |-> batch.n, pause |-> batch.pause \/ Head(queue).kind = "pause",
                     inserts |-> batch.inserts \o InsertOf(Head(queue))]
    BY <1>8 DEF BatchTakesControl
  <2>2. Head(queue) \in Controls
    BY <1>0, <2>1, SlotNumbered
  <2>3. InsertOf(Head(queue)) \in Seq(Inserted)
    <3>1. Head(queue).n \in Inserted
      BY <2>2 DEF Controls, Inserted
    <3>2. <<Head(queue).n>> \in Seq(Inserted) /\ <<>> \in Seq(Inserted)
      BY <3>1
    <3> QED
      BY <3>2 DEF InsertOf
  <2>4. batch.n \in Nat /\ batch.pause \in BOOLEAN /\ batch.inserts \in Seq(Inserted)
    BY <1>0 DEF Batches
  <2>5. batch.inserts \o InsertOf(Head(queue)) \in Seq(Inserted)
    BY <2>3, <2>4, ConcatProperties
  <2>6. (batch.pause \/ Head(queue).kind = "pause") \in BOOLEAN
    BY <2>4
  <2>7. batch' \in Batches
    BY <2>1, <2>4, <2>5, <2>6 DEF Batches
  <2> QED
    BY <1>0, <2>1, <2>7 DEF Flags, Places
<1> QED
  BY <1>1, <1>2, <1>3, <1>4, <1>5, <1>6, <1>7, <1>8 DEF EngineStep

LEMMA PortStepPlaces ==
    ASSUME LifecycleInv, TypeInv, PortStep
    PROVE  Flags /\ Places
<1>0. /\ InputsFit /\ PlacesTyped /\ PartsTyped /\ cp.st \in States /\ cp.steps \in Nat
      /\ deferred \in Seq(Inserted) /\ batch \in Batches
      /\ ready \in BOOLEAN /\ skip \in BOOLEAN /\ ran \subseteq Nat \X Nat
  BY DEF LifecycleInv, TypeInv, PlacesTyped, PartsTyped, HeadsTyped, Checkpoints, Batches
<1>1. CASE CatalogOpens \/ ReducerKeeps
  BY <1>0, <1>1, QueuesNumbered DEF CatalogOpens, ReducerKeeps, EffectDone, Flags, Places
<1>2. CASE CatalogFails \/ ReducerFails \/ ModelFails \/ ModelAnswers
  BY <1>0, <1>2, QueuesNumbered DEF CatalogFails, ReducerFails, ModelFails, ModelAnswers, EffectDone, Flags,
                                    Places
<1>3. CASE ReducerRewrites
  <2>1. skip' \in BOOLEAN /\ UNCHANGED <<ready, ran, batch>> /\ deferred' = DeferredBy(slot)
    BY <1>3 DEF ReducerRewrites, EffectDone
  <2> QED
    BY <1>0, <2>1, QueuesNumbered DEF Flags, Places
<1>4. CASE Approves
  <2>1. batch' = DrainedBatch /\ ran' = ran \cup Calls(batch.n) /\ UNCHANGED <<ready, skip, deferred>>
    BY <1>4 DEF Approves
  <2>2. batch.n \in Nat /\ batch.n <= Len(cp.st.pending)
    <3>1. batch.n \in BatchSizes(head) /\ head = cp
      BY <1>4, AtActivePoint DEF Approves, LifecycleInv, PointFits, ActivePoints, Effects
    <3>2. Len(cp.st.pending) \in Nat
      BY <1>0 DEF States
    <3> QED
      BY <3>1, <3>2 DEF BatchSizes
  <2>3. batch' \in Batches
    <3>1. DrainedBatch.inserts \in Seq(Inserted) /\ DrainedBatch.pause \in BOOLEAN
      BY <1>0, QueuesNumbered
    <3> QED
      BY <2>1, <2>2, <3>1 DEF DrainedBatch, Batches
  <2> QED
    BY <1>0, <2>1, <2>2, <2>3, SelectedTyped DEF Flags, Places
<1>5. CASE ApprovalDenies
  <2>1. deferred' = deferred \o DrainedBatch.inserts /\ batch' = NoBatch /\ UNCHANGED <<ready, skip, ran>>
    BY <1>5 DEF ApprovalDenies
  <2>2. deferred' \in Seq(Inserted)
    BY <1>0, <2>1, QueuesNumbered, ConcatProperties
  <2> QED
    BY <1>0, <2>1, <2>2, NoBatchTyped DEF Flags, Places
<1>6. CASE ApprovalSuspends \/ ApprovalFails
  BY <1>0, <1>6, NoBatchTyped DEF ApprovalSuspends, ApprovalFails, Flags, Places
<1>7. CASE BatchDone
  <2>1. deferred' = deferred \o batch.inserts /\ batch' = NoBatch /\ UNCHANGED <<ready, skip, ran>>
    BY <1>7 DEF BatchDone
  <2>2. batch.inserts \in Seq(Inserted)
    BY <1>0 DEF Batches
  <2>3. deferred' \in Seq(Inserted)
    BY <1>0, <2>1, <2>2, ConcatProperties
  <2> QED
    BY <1>0, <2>1, <2>3, NoBatchTyped DEF Flags, Places
<1> QED
  BY <1>1, <1>2, <1>3, <1>4, <1>5, <1>6, <1>7 DEF PortStep

LEMMA WorkKeepsTypes ==
    ASSUME LifecycleInv, TypeInv, EngineStep \/ PortStep PROVE TypeInv'
<1>1. (Proposes \/ Keeps) /\ UNCHANGED <<repo, runs, expired, accepted>>
  BY EngineStepProposes, PortStepProposes
<1>2. Flags /\ Places
  BY EngineStepPlaces, PortStepPlaces
<1>3. UNCHANGED <<head, cp, closed, stop, landed>>
  BY <1>1 DEF Proposes, Keeps
<1>4. ChangeTyped'
  BY <1>1 DEF ChangeTyped, Proposes, Keeps, Effects, Interruptibles
<1>5. PartsTyped'
  <2>1. pc' \in Settled \cup SuspensionPoints \cup {"open", "loop", "plan"}
    BY <1>1 DEF Proposes, Keeps, Settled, SuspensionPoints
  <2> QED
    BY <1>1, <1>2, <1>3, <2>1 DEF TypeInv, PartsTyped, Flags
<1>6. PlacesTyped'
  BY <1>2, <1>3 DEF TypeInv, PlacesTyped, Places, Batches
<1> QED
  BY <1>3, <1>4, <1>5, <1>6 DEF TypeInv, HeadsTyped

(* An invocation begins from the head with nothing in hand.                *)
LEMMA InvocationKeepsTypes ==
    ASSUME TypeInv, Invocation PROVE TypeInv'
<1>1. Begin
  BY DEF Invocation, StartRun, ContinueRun, ResumeRun
<1>2. /\ runs < MaxInvocations /\ runs' = runs + 1 /\ cp' = head /\ head' = head /\ repo' = repo
      /\ closed' = FALSE /\ deferred' = <<>> /\ batch' = NoBatch /\ ready' = FALSE /\ skip' = FALSE
      /\ accepted' = {} /\ landed' = <<>> /\ ran' = {} /\ expired' \in BOOLEAN
  BY <1>1 DEF Begin
<1>3. /\ pc' \in {"stopped", "commit", "open", "broken"} /\ stop' \in {"none", "repository_error"}
      /\ pc' = "commit" => Carries(chg')
  <2>1. CASE StartRun
    BY <2>1, NothingCarried DEF StartRun
  <2>2. CASE ContinueRun
    BY <2>2 DEF ContinueRun
  <2>3. CASE ResumeRun
    <3>1. PICK messages \in {<<>>, <<UserMessage>>} : Propose(head, Resumed(head, messages), expired')
      BY <2>3 DEF ResumeRun
    <3>2. pc' \in {"commit", "broken"} /\ chg' \in {Resumed(head, messages), Limited("deadline")}
      BY <3>1 DEF Propose
    <3> QED
      BY <2>3, <3>2, NothingCarried DEF ResumeRun
  <2> QED
    BY <2>1, <2>2, <2>3 DEF Invocation
<1>4. HeadsTyped'
  BY <1>2 DEF TypeInv, HeadsTyped
<1>5. PlacesTyped'
  <2>1. <<>> \in Seq(Inserted)
    OBVIOUS
  <2> QED
    BY <1>2, <2>1, NoBatchTyped DEF PlacesTyped, Batches
<1>6. PartsTyped'
  <2>1. runs' \in 0..MaxInvocations
    BY <1>2, EngineAssumption DEF TypeInv, PartsTyped
  <2>2. pc' \in Settled \cup SuspensionPoints \cup {"open", "loop", "plan"}
    BY <1>3 DEF Settled, SuspensionPoints
  <2> QED
    BY <1>2, <1>3, <2>1, <2>2 DEF TypeInv, PartsTyped
<1> QED
  BY <1>3, <1>4, <1>5, <1>6 DEF TypeInv, ChangeTyped

(* What is discarded with an invocation leaves every place empty.          *)
LEMMA DiscardKeepsTypes ==
    ASSUME TypeInv, Discard, UNCHANGED <<head, landed, repo, expired, accepted, ran, runs>>,
           cp' \in Checkpoints, closed' \in BOOLEAN, pc' \in {"stopped", "idle"},
           stop' \in {"none", "suspended", "terminal", "repository_error", "consumer_closed"}
    PROVE  TypeInv'
<1>1. <<>> \in Seq(Inserted)
  OBVIOUS
<1>2. PlacesTyped'
  BY <1>1, NoBatchTyped DEF TypeInv, PlacesTyped, Discard, Batches
<1>3. PartsTyped'
  <2>1. pc' \in Settled \cup SuspensionPoints \cup {"open", "loop", "plan"}
    BY DEF Settled
  <2> QED
    BY <2>1 DEF TypeInv, PartsTyped, Discard
<1> QED
  BY <1>2, <1>3 DEF TypeInv, HeadsTyped, ChangeTyped

LEMMA EnvironmentKeepsTypes ==
    ASSUME LifecycleInv, TypeInv, Environment PROVE TypeInv'
<1>0. cp \in Checkpoints /\ closed \in BOOLEAN
  BY DEF TypeInv, HeadsTyped, PartsTyped
<1>1. CASE Submit
  <2>1. PICK kind \in ControlKinds : accepted' = accepted \cup {[kind |-> kind, n |-> arrived + 1]}
    BY <1>1 DEF Submit
  <2>2. arrived < MaxControls /\ arrived \in 0..MaxControls
    BY <1>1 DEF Submit, LifecycleInv, InputsFit
  <2>3. [kind |-> kind, n |-> arrived + 1] \in Controls
    BY <2>2, EngineAssumption DEF Controls
  <2>4. accepted' \subseteq Controls
    BY <2>1, <2>3 DEF TypeInv, PartsTyped
  <2> QED
    BY <1>1, <2>4 DEF Submit, frame, committing, TypeInv, HeadsTyped, ChangeTyped, PlacesTyped, PartsTyped
<1>2. CASE Deadline
  BY <1>2 DEF Deadline, host, committing, TypeInv, HeadsTyped, ChangeTyped, PlacesTyped, PartsTyped
<1>3. CASE Close
  <2>1. closed' = TRUE /\ UNCHANGED <<repo, runs, expired, head, cp, accepted, landed, ran>>
    BY <1>3 DEF Close, frame, host
  <2>2. CASE Swallows
    BY <1>3, <2>1, <2>2 DEF Close, committing, TypeInv, HeadsTyped, ChangeTyped, PlacesTyped, PartsTyped
  <2>3. CASE ~Swallows
    <3>1. Discard /\ pc' = "stopped" /\ stop' = "consumer_closed"
      BY <1>3, <2>3 DEF Close, Stop
    <3> QED
      BY <1>0, <2>1, <3>1, DiscardKeepsTypes
  <2> QED
    BY <2>2, <2>3
<1>4. CASE EffectCancelled
  BY <1>0, <1>4, DiscardKeepsTypes DEF EffectCancelled, Stop, frame, host
<1>5. CASE Crash
  BY <1>0, <1>5, DiscardKeepsTypes DEF Crash, frame, host
<1> QED
  BY <1>1, <1>2, <1>3, <1>4, <1>5 DEF Environment

(* What a write leaves as the head is a checkpoint.                        *)
LEMMA WrittenTyped ==
    ASSUME LifecycleInv, TypeInv, CommitInline \/ RepositoryWrites, LifecycleInv'
    PROVE  head' \in Checkpoints /\ landed' \in Seq(Inserted)
<1>1. pc = "commit" /\ wr # "written" /\ head' = Reduce(cp, chg) /\ landed' = landed \o Landing(chg)
  BY DEF CommitInline, RepositoryWrites, LifecycleInv, InlineAtOnce
<1>2. Carries(chg) /\ cp \in Checkpoints
  BY <1>1 DEF TypeInv, ChangeTyped, HeadsTyped
<1>3. MayPropose(cp, chg)
  BY <1>1 DEF LifecycleInv, UnderWay, Inv, InStep
<1>4. cp.hist \in Seq(Messages) /\ cp.st \in States /\ cp.calls \in Nat
  BY <1>2 DEF Checkpoints
<1>5. chg.fact \in Facts /\ chg.append \in Seq(Messages)
  BY <1>2, <1>3, <1>4, ProposalTyped
<1>6. HeadFits(Reduce(cp, chg))
  BY <1>1 DEF LifecycleInv
<1>7. head' \in Checkpoints
  BY <1>1, <1>2, <1>5, <1>6, WriteTyped DEF Carries
<1>8. landed' \in Seq(Inserted)
  BY <1>1, <1>2, ConcatProperties DEF TypeInv, PlacesTyped, Carries
<1> QED
  BY <1>7, <1>8

LEMMA RepositoryStepKeepsTypes ==
    ASSUME LifecycleInv, TypeInv, RepositoryStep, LifecycleInv' PROVE TypeInv'
<1>0. cp \in Checkpoints /\ head \in Checkpoints /\ closed \in BOOLEAN
  BY DEF TypeInv, HeadsTyped, PartsTyped
<1> DEFINE Rest == UNCHANGED <<repo, runs, expired, closed, accepted, ran>>
<1>r. ASSUME Return(head'), head' \in Checkpoints, landed' \in Seq(Inserted), Rest PROVE TypeInv'
  <2>1. cp' = head'
    BY <1>r DEF Return
  <2>2. CASE Verified(cp, head') /\ ~IsActive(head'.st)
    <3>1. Discard /\ pc' = "stopped" /\ stop' \in {"suspended", "terminal"}
      BY <1>r, <2>2 DEF Return, Stop
    <3>2. <<>> \in Seq(Inserted)
      OBVIOUS
    <3>3. PlacesTyped'
      BY <1>r, <3>1, <3>2, NoBatchTyped DEF TypeInv, PlacesTyped, Discard, Batches
    <3>4. PartsTyped'
      BY <1>r, <3>1 DEF TypeInv, PartsTyped, Discard, Settled
    <3> QED
      BY <1>r, <2>1, <3>1, <3>3, <3>4 DEF TypeInv, HeadsTyped, ChangeTyped
  <2>3. CASE ~(Verified(cp, head') /\ ~IsActive(head'.st))
    <3>1. pc' \in {"broken", "loop", "open"} /\ UNCHANGED <<stop, ready, skip, deferred, batch>>
      BY <1>r, <2>3 DEF Return
    <3>2. PlacesTyped'
      BY <1>r, <3>1 DEF TypeInv, PlacesTyped
    <3>3. PartsTyped'
      BY <1>r, <3>1 DEF TypeInv, PartsTyped, Settled
    <3> QED
      BY <1>r, <2>1, <3>1, <3>2, <3>3 DEF TypeInv, HeadsTyped, ChangeTyped
  <2> QED
    BY <2>2, <2>3
<1>1. CASE CommitInline
  <2>1. Rest /\ Return(head')
    BY <1>1 DEF CommitInline, frame, host
  <2> QED
    BY <1>1, <1>r, <2>1, WrittenTyped
<1>2. CASE RepositoryRuns
  BY <1>2 DEF RepositoryRuns, frame, host, LifecycleInv, TypeInv, HeadsTyped, ChangeTyped, PlacesTyped,
              PartsTyped
<1>3. CASE RepositoryWrites
  <2>1. head' \in Checkpoints /\ landed' \in Seq(Inserted)
    BY <1>3, WrittenTyped
  <2>2. wr' = "written" /\ Rest /\ UNCHANGED <<cp, pc, ready, skip, deferred, batch, stop>>
    BY <1>3 DEF RepositoryWrites, frame, host
  <2> QED
    BY <2>1, <2>2 DEF TypeInv, HeadsTyped, ChangeTyped, PlacesTyped, PartsTyped
<1>4. CASE RepositoryReplies
  <2>1. Rest /\ head' = head /\ Return(head') /\ landed' = landed
    BY <1>4 DEF RepositoryReplies, frame, host
  <2>2. landed' \in Seq(Inserted)
    BY <2>1 DEF TypeInv, PlacesTyped
  <2> QED
    BY <1>0, <1>r, <2>1, <2>2
<1>5. CASE RepositoryFails
  BY <1>0, <1>5, DiscardKeepsTypes DEF RepositoryFails, Stop, frame, host
<1>6. CASE CommitTimesOut
  <2>1. CASE cp.rev = -1
    BY <1>0, <1>6, <2>1, DiscardKeepsTypes DEF CommitTimesOut, Stop, frame, host
  <2>2. CASE cp.rev # -1
    <3>1. /\ Commit(Limited("deadline"))
          /\ UNCHANGED <<ready, skip, deferred, batch, repo, runs, expired, accepted, ran>>
      BY <1>6, <2>2 DEF CommitTimesOut, frame, host
    <3>2. Proposes
      BY <3>1, NothingCarried, CommitProposes
    <3> QED
      BY <3>1, <3>2 DEF Proposes, TypeInv, HeadsTyped, ChangeTyped, PlacesTyped, PartsTyped, Settled,
                        SuspensionPoints
  <2> QED
    BY <2>1, <2>2
<1> QED
  BY <1>1, <1>2, <1>3, <1>4, <1>5, <1>6 DEF RepositoryStep

LEMMA InitTypes == Init => TypeInv
<1> SUFFICES ASSUME Init PROVE TypeInv
  OBVIOUS
<1>1. <<>> \in Seq(Nat) /\ <<>> \in Seq(Messages) /\ <<>> \in Seq(Inserted) /\ FALSE \in BOOLEAN /\ 0 \in Nat
  OBVIOUS
<1>2. NoCheckpoint \in Checkpoints
  <2>1. Active(<<>>, FALSE) \in States
    BY <1>1, ActiveFits DEF OwnedPending
  <2>2. Fact("none") \in Facts
    <3>1. "none" \in FactKinds \cup {"none"} /\ "none" \in Lifecycle!Kinds \cup {"none"}
          /\ "none" \in Lifecycle!Reasons
      BY Vocabulary
    <3> QED
      BY <1>1, <3>1 DEF Facts, Fact
  <2> QED
    BY <1>1, <2>1, <2>2 DEF NoCheckpoint, Checkpoints
<1>3. PlacesTyped
  BY <1>1, NoBatchTyped DEF Init, PlacesTyped, Batches
<1>4. PartsTyped
  <2>1. runs \in 0..MaxInvocations
    BY EngineAssumption DEF Init
  <2>2. pc \in Settled \cup SuspensionPoints \cup {"open", "loop", "plan"}
    BY DEF Init, Settled
  <2> QED
    BY <2>1, <2>2 DEF Init, PartsTyped
<1> QED
  BY <1>2, <1>3, <1>4 DEF Init, TypeInv, HeadsTyped, ChangeTyped

LEMMA NextKeepsTypes == LifecycleInv /\ TypeInv /\ [Next]_vars => TypeInv'
<1> SUFFICES ASSUME LifecycleInv, TypeInv, [Next]_vars PROVE TypeInv'
  OBVIOUS
<1>1. CASE UNCHANGED vars
  BY <1>1 DEF vars, TypeInv, HeadsTyped, ChangeTyped, PlacesTyped, PartsTyped
<1>2. CASE Next
  BY <1>2, NextKeepsLifecycleInv, InvocationKeepsTypes, EnvironmentKeepsTypes, WorkKeepsTypes,
     RepositoryStepKeepsTypes DEF Next
<1> QED
  BY <1>1, <1>2

(* Every variable of the engine keeps its type, for every value of the     *)
(* constants: whatever the repository was given to write, the head reloads *)
(* as a checkpoint whose messages, state and fact are of the vocabulary.   *)
THEOREM TypesAlways == Spec => []TypeOK
<1>1. Init => TypeInv
  BY InitTypes
<1>2. LifecycleInv /\ TypeInv => TypeOK
  BY TypedIsOK
<1> QED
  BY <1>1, <1>2, NextKeepsTypes, LifecycleInvAlways, PTL DEF Spec
=============================================================================
