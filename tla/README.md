# A TLA+ model of JHarness

JHarness is an asyncio runtime for durable model/tool runs: a host starts a run, the kernel asks a
model, executes the tools it calls, and stores a checkpoint in a repository after every step, so
that another process can go on after a crash. This directory holds TLA+ modules for the parts of it
where order, failure and time decide whether it is correct, TLC configurations that check them, and
proofs that TLAPS checks.

`kernel/` below is `src/packages/jharness-kernel/src/jharness/kernel/`, `repository/` is
`src/packages/jharness-repository/src/jharness/repository/`, and so on for the other packages.

## 1. Inventory

| Component | State it keeps | Operations | What is hard | What makes it correct |
|---|---|---|---|---|
| Run state, facts, reducer (`kernel/state.py`, `checkpoint.py`, `snapshot.py`, `_history.py`, `_engine/change.py`) | immutable checkpoints: revision, history, lifecycle state, metrics, retained history proof | `Change` constructors, `reduce`, boundary validation, linkage of calls and results | edits are checked against a retained proof, not the history | every stored checkpoint reloads; revisions are consecutive; budgets; terminals are final |
| View verifier (`_engine/verification.py`) | none | `verify_change` on views | a second, independent definition of every step | accepts exactly the steps the reducer makes |
| Engine (`_engine/engine.py`, `planning.py`, `deadline.py`, `commit.py`) | current checkpoint, `_last`, `_deferred`, catalog, deadline | one loop: boundary, planning turn or tool turn, commit | controls, deadline and cancellation race every await | nothing accepted is lost, the head is what the stop event says, no work after the deadline |
| Tool step (`_engine/tooling.py`) | tasks, permits, progress buffer, completion order | select, bind, approve, execute, settle | concurrent tools, bounded progress, CancelTool, deadline | progress before finish, permits bound overlap, one atomic outcome |
| Control channel (`control.py`) | pending controls, inbox, cancellation set | submit, attach, detach, close | host threads against the event loop | a control reaches exactly one inbox, or the closed source |
| Invocation (`invocation.py`, `runtime.py`, `commands.py`) | event queue, task, sequence, lossy count | start/continue/resume, iterate, await the result | abandonment, dropped lossy events | one ordered stream, one result |
| Repositories (`repository.py`, `repository/*.py`) | head and ledger of each run | commit by compare-and-swap on the previous id, idempotent retry, get_head | two writers, lost replies, cancelled commits | one chain per run, a retry is the same commit |
| Trace and verifier (`diagnostics/`) | verifier's phase machine | build, verify | must accept every trace the engine emits | sound and complete for real invocations |
| Run history (`history.py`) | persistent list | append, index, iterate | skew-binary structure, windows and tails | behaves as a sequence |
| Model decorators, transport (`jharness.models`) | attempts, deadlines, relayed deltas | retry, fallback, invoke | retry after deltas, deadlines | deltas of one attempt only, the budget of attempts |
| Provider adapters | partial stream state | assemble | fragment order | the response is the fold of its stream |
| Toolkit (`jharness.toolkit`) | circuit: failures, time it opened, probe flag; retry: attempt; registry: a dictionary | register, bind, retry, admit, record | concurrent callers of one circuit, cancelled probes | a circuit always recovers |
| Tools (`jharness.tools`: filesystem, shell, agent, interaction) | temporary files, child processes, agents | write, edit, run, delegate, ask | partial writes, processes that do not die | a file is replaced whole or not at all, nothing is left running |
| Wire codecs and values | none | encode, decode, digest, validate | breadth, not state | round trips |

How they interact: `Runtime` makes an `Invocation`, whose task runs `Engine.run`. The engine calls
the host's ports (catalog, reducer, model, approval, tools) and the repository, and reads controls
that the host submits through `ControlSource`. All of it is on one event loop: code between two
awaits is atomic, and everything can happen at an await.

## 2. Plan

What was planned, most important first, and where it stands.

1. **Durable run** (built): `RunState` (data and pure functions), `RunLifecycle` (abstract
   specification of the durable head), `Engine` (the loop against one repository),
   `EngineProperties`.
2. **Tool execution** (built): `ToolBatch`, the inside of what `Engine` treats as one effect.
3. **Several writers** (built): `RunChain` (abstract: one append-only chain), `RepositoryData` (the
   data and the decisions all adapters share), `RunRepository` (hosts, adapters, faults).
4. **Event stream and trace** (built): `ControlChannel` and `TraceVerifier`, composed in
   `Invocation`.
5. **Model side** (built): `StreamItems` and the three decoders over it, `ChatStream`,
   `MessagesStream`, `ResponsesStream`; `ModelCall` composes them with the transport and the
   decorators; `SseReader` is the framing.
6. **Tools** (built): `TextEdit`, `FileMutation`, `Shell`, `AgentTools`, `Questions`,
   `ToolPolicies`; `Ports` gathers them, the model side and `HistoryList` for checking.
7. **History** (built): `HistoryList`, the persistent list against the sequence it stands for.
8. **Left**: the searching tools and their budget; the registry; as theorems, the decoders
   (`LiveViewAgrees`).

## 3. Modules

### RunState

Checkpoints and the functions over them, no variables. A message is `[role, ref, calls]`: its
contents, metadata and timestamps cannot influence the order of anything. `Reduce` is
`_engine/change.py:reduce`; `Accepted` is what must hold for it not to raise: `LinksTo`
(`evolve_history`, which reads only the edit and the retained proof) and `BoundaryOK`
(`Checkpoint._validate_boundary`). `ValidHistory` is the other path, a history read from nothing
when a checkpoint is decoded. `Verified` is `verify_change`, written from the verifier's own code,
so that the two judges can disagree in the model as they could in the program. The digest of a view
and the identity of a suspension are left out. Missing usage counts as no tokens.

### Engine

`pc` is the suspension point the engine is at: `open`, `catalog`, `reduce`, `model`, `approve`,
`exec` and `commit`, plus the two straight-line positions `loop` and `plan` where only the clock can
move, and the ends `idle` (no engine: never started, or the process died), `stopped` and `broken`
(an exception escaped `Engine.run`). An action is all the code from one suspension point to the
next, so `LoopInsert`, for instance, contains the drain of the inbox, the deferral and the proposal
of the commit.

| Code | Actions |
|---|---|
| `Runtime.start/continue_from/resume`, `_initialize` | `StartRun`, `ContinueRun`, `ResumeRun` |
| `ControlSource.submit`, deadline timer, iterator closed, process death | `Submit`, `Deadline`, `Close`, `Crash` |
| `_prepare`, `_open_catalog` | `OpenCatalog`, `OpenTooLate`, `CatalogOpens`, `CatalogFails` (also a failing `capabilities`) |
| `await_effect` | `TakeControl`, `ConsumeControl`, `ControlInterrupts`, `DeadlineInterrupts`, `EffectDone` in every answer |
| `_run_active`, `_boundary` | `LoopDeadline`, `LoopPause`, `LoopInsert` |
| `_plan`, `_reduce_history`, `PlanningStep` | `LoopPlan`, `Reducer...`, `Plan...`, `AskModel`, `ModelAnswers`, `ModelFails` |
| `_tools`, `ToolStep` | `ToolLimit`, `SelectFails`, `BindRefuses`, `SelectBatch`, `Approv...`, `BatchTakesControl`, `BatchDone` |
| `_commit`, `Committer`, repository | `Propose`, `CommitInline`, `RepositoryRuns/Writes/Replies/Fails`, `CommitTimesOut`, `Return` |

The repository comes in two kinds. `"inline"` is memory and ephemeral: no await, so nothing
happens during a commit. `"settling"` is SQLite, MySQL and Redis as the engine sees them: while an
operation is queued it can be withdrawn, by a cancellation or a timeout; once it runs, the adapter
shields it and waits for its outcome (`_settle_future`, `_settle_task`), so neither the deadline nor
a closed iterator reaches the engine. Redis never withdraws, which is a subset of these behaviours.
A commit has then succeeded or failed as a whole; a driver that reports failure after the server
wrote is left to `RunRepository`.

History variables that only properties read: `accepted`, `landed`, `ran`, `arrived`, and `fresh`,
which hands a well-behaved model ids it has not used.

`ran` holds calls as turn and id, for an id may come back.

The ports choose from small sets: a model answers with up to `MaxCallsPerTurn` new calls or (when
`ReusesIds`) with any id given out before in the run, also one that a history rewrite has dropped and
that the retained proof no longer knows; with or without `provider_turn_pending`, and with
`0..MaxTurnTokens` tokens; a reducer keeps, summarises, or drops the oldest message, which may cut a
call from its result; a batch policy picks any prefix within the capacity and may fail; approval may
allow, deny all, suspend or fail.

Limits are fixed for the run, and continue and resume always take the current head.

### RunLifecycle

The abstract specification: revision, state, unanswered calls and budgets of the durable head, one
action per kind of fact, nothing about engines or failures. `ImplementsLifecycle` instantiates it
over `head` and is checked as a property of `Engine`.

### ToolBatch

`execute()` of `tooling.py`. A call is queued for a permit, running, returned, finished, or refused
before it got a task; `Advance` is one wake of the engine: the progress item and the control taken
by the two readers, then `_finish_ready` for every returned call (drain the progress buffer, emit
`tool_finished`, release the permit), then the loop's test and the deadline check. A tool that
raises `CancelledError` itself becomes `dead` and releases its own permit. Pauses and inserts only
accumulate during a batch and are in `Engine`; the inbox here holds `CancelTool`s. It is assumed
that a tool reports progress only while its invocation runs and that cancelled tasks die; a tool
that ignores cancellation is abandoned by the code after 0.1 s and is outside this model.

### RunChain, RepositoryData, RunRepository

`RunChain` says what a repository promises: accepted checkpoints form one chain that only grows;
an attempt told "accepted" is in it, one told "refused" never gets there, one whose host died before
the answer may still get there. `RepositoryData` holds the checks of `repository.py` and
`_codec.py` and the three layouts (whole checkpoint; rows and chunks of SQLite and MySQL; the keys
of Redis). A digest is the value it digests.

`RunRepository` is two hosts on one run in one of six adapters (`adapter` is chosen initially;
`cluster` is Redis on a cluster). Its steps are the statements whose order matters: take the write
lock, probe the ledger, write, COMMIT, lose the reply, roll back, time out, retry, read the head row
and then the chunks, close, crash. `session` is a MySQL transaction whose COMMIT the server has and
nobody waits for; `late` are Redis commands that timed out and may still run. With
`CommandsInOrder` such a command runs or is lost before the server answers the same host again;
without it, it may run later, which is what the run `repository_late_command` is about.

### ControlChannel, TraceVerifier, Invocation

`ControlChannel` is `ControlSource` and `ControlInbox`. `attach` and `close` release the source's
lock before they touch the inbox, so each is two steps and host threads submit between them; a
callback queued with `call_soon_threadsafe` runs only while the engine's task waits.

`TraceVerifier` translates `diagnostics/verification.py`: a record for the verifier, `Visited` that
folds one entry into it, `Concluded` for its end. `Invocation` is the stream: an engine reduced to
what decides the order of its events (what it commits and why is in `Engine`; the history reducer
and pending provider turns are left there), the queue with its lossy allowance, the iterator, its
`aclose`, `result()`, and a consumer that feeds each event to the verifier. A model that ignores
its cancellation is abandoned and may emit one late delta. What a consumer received before it left
is no trace and is forgotten.

### StreamItems, ChatStream, MessagesStream, ResponsesStream, ModelCall, SseReader

`StreamItems` has deltas, response items and `DeltaAccumulator`. Each decoder is a record, a
function from a frame to the next record and the deltas it tells, and a function for its end. A text
is the number of its fragments, and a call's input is JSON exactly when it is `<<"{", "}">>`.
`ModelCall` nests up to two of `RetryingModel` and `FallbackModel` around a provider client: `stack`
holds the decorators entered, and an error unwinds it one at a time through the code's except
clauses. An error of an open response takes its `retry-after` header along,
which only a decorator reads, of an error that may be retried. The client loads the images of the history, looks at the deadline, sends,
reads frames, hands deltas to the sink outside the transport's boundary, and stores images of the
response. Texts of a Responses stream are authoritative from the terminal event, so `LiveViewAgrees`
compares only calls and their status there. It assumes what `ResultAfterUse` says: a server tool's
result block follows its use's stop; an interleaved one would be overwritten when the use stops.
`SseReader` feeds bytes in arbitrary chunks to the two generators of `_http.py` and compares the
frames with those of the whole body.

### TextEdit, FileMutation

`TextEdit` is `apply_text_edit` step by step: matches in the text with normalised line ends,
positions carried over to the original. Deleting the text between a CR and an LF fuses the two into
one line end; the property compares characters, which is what the code promises. Size limits and
byte order marks are left out.

`FileMutation` is several Write and Edit calls on one path: the coroutine, the worker thread it
shields, the path's lock, the precondition checked before and after the temporary is written, the
rename or link, and programs outside. A step of the thread ends where another thread, program or
cancellation can come between.

### Shell, AgentTools, Questions, ToolPolicies

`Shell` is the Bash tool's coroutine, the cleanup task it shields, a root process and one
descendant, and the retained head and tail of the output. A tree is a POSIX group, a Windows job, or
taskkill. `AgentTools` is the in-memory backend, the four tools, a supervisor per child, which may
be interrupted and then leaves the snapshot as it was, and a host that resumes a suspended parent. A
child's own tool may suspend it, also with the reserved reason `agent_cancelled`. `Questions` is
what the tool accepts, what the host's own validators extract, and what answers they take; a number
counts sixths, so that halves and thirds meet in one step. `ToolPolicies` is `RetryingTool` and
`CircuitBreakingTool` in either nesting; callers may be threads, so a clock read before the lock may
be stale when the lock is taken.

### HistoryList

The skew-binary list under `RunHistory`. Each `_cons` makes one cell, a digit and the root of its tree,
that refers to earlier cells by their position; cells are never changed, so `cells` holds every list
the history ever was, as callers still hold them. The walks of the trees and of the digits are
recursive functions over cells. The list grows by appends of one to three messages, and every query
of every version is compared with the sequence of messages. Digests are left out, and so are two
appends to one version, which share cells and write none.

### Proof modules

`EngineProofs`, `RunLifecycleProofs` (also on `HistoryList`), `ToolBatchProofs`, `RepositoryProofs`,
`InvocationProofs` (also on `ControlChannel`), `DecoratorProofs` (on `ModelCall`, `SseReader` and
`ToolPolicies`), `WorkspaceToolProofs` (on `FileMutation`, `Shell` and `TextEdit`) and
`AgentToolsProofs` (also on `Questions`) extend the modules they prove about (section 7).

### Ports

What a run calls, and the list it calls them with; these parts share no state. `Ports` picks one
initially and leaves the others in one of their initial states, so one run explores their sum and
not their product.

## 4. Runs

Deadlock checking is off everywhere: an invocation settles, a batch, a call and a stream end, and the
numbers of invocations, commits and faults are bounded.

| Run | States | What it asks |
|---|---|---|
| `durability` | 518 k | two invocations of one run on a settling repository, crashes and failures anywhere, deadline, reducer, approval, reused ids: is every head one `RunLifecycle` allows, does it reload, does the engine's view of it agree, is a call of a turn handed out once per invocation |
| `controls` | 149 k | both repositories, two controls of any kind at any time, deadline, closing: are controls conserved, provider turns kept together, no work started late, do a pause and the deadline settle the invocation |
| `tool_batch` | 155 k | three calls, two permits, a buffer of one: progress, permits, cancellation, and the batch ends |
| `repository` | 194 k | two hosts, six adapters, faults: is it one chain, are reads whole, is everything answered and nothing left after close |
| `invocation` | 848 k | start, continue and resume, up to two controls at any time, dropped lossy events, a stubborn model, a consumer that leaves: do traces verify, do controls keep their order, does every iteration end |
| `ports` | 1.23 M | one call of each port: section 6 |
| `reuse`, `order`, `abandon`, `permits`, `repository_late_command`, `repository_provider_turn` | small | violated on purpose, section 5 |

Bounds, and why the interesting cases fit. Two invocations are needed for resume, for budgets that
span invocations and for continuing after a crash; two planning steps for a pending provider turn
and its continuation, and for a call id reused from an earlier turn, kept or dropped by the reducer;
two calls for a batch that takes only a prefix; token budget 1 with turns of 0 or 1 tokens for a
turn that stays within, reaches and crosses the budget; `KeepsUpTo` bounds the reducer to histories
longer than one message, so that rewrites end, and is 9 (no rewrite) in `controls`, where histories
do not matter. Two controls are the least that can be reordered. In `tool_batch` a third call must
wait for a permit, and two reports over a buffer of one reach overflow, the reader's race and the
order within a call.

`repository`: three commits by two hosts are the least for a conflict after a retry, and two faults
for a lost reply followed by a crash or a close; `MaxEvents = 4` bounds commits and faults together;
chunks of two messages make the second checkpoint begin a chunk and the third fill it. Hosts commit
one kind of state (`MCStates`), since only `repository_provider_turn` needs two.

`invocation`: an allowance of one lossy event and two lossy events per boundary make one drop and
one be kept; `MaxLag = 1` stops the engine from going on while more than one event waits, which
keeps the queue finite and still queues several events of one step behind each other; one planning
step, two pending calls and one call per response give parallel and sequential batches, a batch
with a second one after it, and a limit. A start is sent a control of any
kind and then an insert, the least that can be reordered; a continuation a pause or an insert, and a
resume a control of any kind (`ControlsOf`).

`ports`: bodies of 7 bytes, lines of 2 and events of 6 reach every limit of the reader with every
pair of line ends; streams of 5 (chat), 7 (messages) and 6 (responses) frames are the shortest that
open and close two items, so that their order can be lost; 5 with an artifact store, where images
are loaded and saved, and 3 under decorators, where only whether a delta went out matters; originals
of 5 characters and matches of 2 hold two matches with a mixed line end before, in and after them;
two mutations and one outside write; one descendant and two cancellations; one child (`MaxAgents`)
asked about by three calls, each delivered at most twice (two children with three calls were checked
once, 2.87 M states, and are too many to repeat); two callers of two attempts each around a circuit
with threshold 2; histories of up to 24 messages, whose lists have trees of weight 1, 3, 7 and 15 in
many combinations. All children of `AgentTools` are the parent's, so that another run's calls only
ever ask about them.

Fairness. `FairSpec` of `Engine` assumes weak fairness of the engine's own steps and of the
repository's: asyncio runs every ready callback and fires every timer, and a repository operation is
bounded by the adapter's timeouts. Nothing is assumed of ports: `PauseSettles` and `DeadlineSettles`
hold with a model that never answers. `FairSpec` of `ToolBatch` assumes only that the loop runs the
tasks that can run; that tools come back is a hypothesis inside `BatchEnds`, not fairness.
`RunRepository` assumes that a host that is inside an operation goes on (`WF` of `Works`, the
drivers' own timeouts bound each statement) and that a server gets rid of dead sessions and late
commands. `Invocation` assumes `WF` of the engine together with the delivery of a cancellation, and
of reading: ports answer or are timed out, and a consumer that began to iterate goes on or leaves.
Nothing is assumed of `Ports`, which has safety properties only.

## 5. Disagreements between the documents and the code

Each has a run whose counterexample shows it, and was reproduced by running the package except
where noted.

* **A reused call id leaves no stop event** (`reuse`, `TraceEndsWithStop`). A response that repeats
  a call id of the history makes `reduce` raise `ValueError` (`kernel/_history.py:202`), which
  passes both handlers of `Engine.run`. `contracts/v0/run-trace.md:28` promises that a trace ends
  with `invocation_stopped`. `OnlyReuseEscapes` checks that this is the only way out as far as the
  shape of changes goes. Contents are not modelled, and one of them also escapes: `value.encode()` of
  `kernel/_digest.py:53` raises for a lone surrogate in a text, inside `reduce`.
* **Inserts can be committed out of order** (`order`, `InsertsInArrivalOrder`). `await_effect` puts
  a control it took back at the tail of the inbox (`kernel/_engine/deadline.py:73`) when the answer
  won the race; `contracts/v0/run-control.md:71` promises arrival order.
* **Closing the iterator during a commit does not cancel** (`abandon`, `AbandonmentCancels`). The
  settling loop of the SQLite adapter (`repository/sqlite.py:593`; MySQL and Redis alike) consumes
  the cancellation and the engine starts its next effect; `docs/architecture.md:46` says that
  abandoning the iterator cancels execution.
* **A permit is reused before `tool_finished`** (`permits`, `PermitWaitsForFinish`). A tool that
  raises `CancelledError` releases its permit in `_invoke` (`kernel/_engine/tooling.py:371`), and
  the next call emits `tool_started` before the engine notices and stops the invocation;
  `contracts/v0/tool-scheduling.md:67` says a permit is not reused before `tool_finished`.

* **A late Redis command** (`repository_late_command`, `ImplementsChain`). The adapter takes the
  answer "new" of a probe as proof that the commit command it lost will not run
  (`repository/redis.py:643`); if it runs afterwards, `commit` has failed and its checkpoint is the
  head. `contracts/v0/repository.md:86` forbids detaching a write whose outcome is unknown. This one
  depends on a server that runs a command of a dropped connection late, and was not reproduced.
* **A pending provider turn beside tool calls** (`repository_provider_turn`, `ReadsSeeOneHead`).
  `repository/_codec.py:332` drops the flag of a `tools_pending` state and the digest covers it, so
  the head is refused as damaged and the run cannot be recovered from SQLite, MySQL or Redis.

Met while modelling, without a run of their own:

* `Engine`: a rewrite of the history is analysed from its replacement alone
  (`kernel/_history.py:123-124`), so an id of a call that the reducer dropped is new again: a response
  that repeats it is accepted and the call is executed, a second time by its id, in the same
  invocation. What holds is that each call of a turn is handed out once (`ExecutesOnce`). Ports that
  take run and call id for the identity of a call see one call: `start_or_get` of the Agent backend
  returns the old child or reports a conflict.
* `FileMutation`: a second cancellation, while the first is being settled, leaves a committed write
  reported as cancelled, which the docstring at `filesystem/_write_io.py:355` rules out.
* `AgentTools`: a child's answer longer than `max_result_chars` makes `agent_completion_message`
  raise, so that a waiting parent stays suspended; a foreground Agent call (or AskQuestion) beside
  other calls of its turn leaves a suspension the resume helpers refuse (`alone`). `_terminal_snapshot`
  tests only the reason (`agent/backend.py:308`), so a child that its own tool suspended with
  `agent_cancelled` is told as cancelled though nobody asked for it. A supervisor that is interrupted
  (`:281` catches `Exception`, `:290-294` runs anyway) is done with a snapshot that still says
  "running": the waiting parent stays suspended and AgentCancel answers `agent_backend_error`.
* `ModelCall`: an artifact store that raises a retryable `ModelError` of its own is retried like a
  provider (`decorators.py:71-84`); the model's stores raise other exceptions.
* `ToolPolicies`: a call admitted before the circuit opened and succeeding during the probe clears
  the probe flag, so that after the circuit opens again a second probe may run beside the first,
  where the docstring of `CircuitBreakingTool` speaks of one. An attempt that `RetryingTool` times
  out outside the breaker reaches it as a cancellation and counts as no failure.

## 6. Properties

`EngineProperties` and the ends of the other modules state them with a comment each. In short:

* `ReloadsCleanly`: the incremental proof never accepts what a full read refuses.
* `OnlyReuseEscapes`: the reducer, the boundary check and the verifier never refuse a change the
  engine builds, other than a reused id (contents are not modelled, section 5).
* `StopsAtHead`: no write is left behind unreported, however the invocation ended.
* `ControlsConserved`: each accepted insert is in exactly one place and a pause is still somewhere.
* `ProviderTurnAdjacent`: only tool results and the continuation follow a pending provider turn.
* `ExecutesOnce`: within an invocation each call of a turn is handed out once, and only if the head
  lists it. An id that a rewrite dropped and a model uses again is another call (section 5).
* `NoWorkAfterDeadline`, `PauseSettles`, `DeadlineSettles`: the deadline and pauses.
* `ImplementsLifecycle`: the head follows `RunLifecycle`.
* `PermitSpansCall`, `ProgressSettles`, `CancelsWhatRuns`, `BatchEnds`: the execution of a batch.
* `ImplementsChain`, `ReadsSeeOneHead`, `QuietAfterClose`, `CommitsAreAnswered`: the repositories.
* `TracesVerify`, `LossyAccounted`, `StreamEnds`: the event stream and its verifier.
* `ControlsInOrder`, `ClosedStaysEmpty`: the control channel.
* `OneAttemptStreams`: the host hears deltas of one attempt only; `LiveViewAgrees`: what it heard is
  what the response says; `HostErrorsAreFinal`: a failure of the sink or the artifact store that is
  no `ModelError` is neither retried nor taken for the model's; `AttemptsAreTimely`: no request
  after the deadline or before the time a server asked for; `FramesMatchBody`: chunking does not
  change the frames.
* `EditKeepsTheRest`, `NoToolWriteLost`, `OutcomesTellTheTruth`: edits, concurrent writes, and what
  is reported of them. The last speaks of one cancellation (section 5).
* `NothingLeftRunning`, `CaptureIsHonest`: processes and output of a command.
* `AgentReportsAgree`, `WaitingQuestionsHaveAnswers`, `CircuitRecovers`: children, questions, and
  circuit breakers. Of the second the weight is on the existence of an answer: tool and host check a
  question by code written twice, which the model has once, so that they agree holds largely by shape.
* `HistoryIsASequence`: the persistent list, and every list it grew from, answers every query as a
  sequence does.

Beside some definitions stands a second one, marked as a mutation: a plausible mistake in that
code. Each property is violated when its mutation replaces the original, which shows that it
depends on the code and not on the shape of the model.

## 7. Proofs

TLAPS checks these for every value of the constants, under the ASSUMEs of the modules they speak of
(counts and limits are naturals, the kinds and the names that must differ do). What a theorem needs
beyond them stands in its statement.

**`EngineProofs`**, in three layers, each using the one before it.

* `StopsAtHeadAlways`. `StopsAtHead` speaks of stopped engines only and is not inductive. `Inv` adds
  where the two checkpoints stand while the engine runs: equal between commits (`InStep`), equal
  during one until the write, and `wr` says whether it was written only while committing
  (`CommitPhase`); the last revision reported is none or the engine's own (`Reported`). Steps are
  sorted into a few kinds (proposing, stopping, moving, staying, returning, beginning), each with a
  lemma. Reducer, boundary check and verifier stay unexpanded: this theorem does not depend on what
  they accept. `NoWorkAfterDeadlineAlways` follows from the guards alone.
* `ReloadsCleanlyAlways`, `OnlyReuseEscapesAlways`, `ImplementsLifecycleAlways` and
  `ProviderTurnAdjacentAlways` do depend on it. `LifecycleInv` says which checkpoint may be the head
  (`HeadFits`: its history valid when read from nothing, pending calls owned by its state), what
  each waiting point knows of it (`PointFits`), and which changes may be under way from it
  (`MayPropose`, one disjunct per kind of fact): accepted by the reducer, and by the verifier once
  written. The lemmas below it are about the operators of `RunState`: the fold that links an edit
  to a retained proof gives what the fold over the whole new history gives (`Extend`), so the
  incremental check and the full one agree on histories of any length. With the refinement,
  everything `RunLifecycleProofs` shows of the abstract head holds of the engine's.
* `ExecutesOnceAlways`. `IdsFit`: what this invocation handed to execution belongs to turns up to
  the head's; the ids that wait are distinct, and none of them was handed out in this turn, also in
  a change that is not yet written. Whether an id was used in an earlier turn does not matter.
* `ControlsConservedAlways`. Inserts of the inbox, of the reader that took one, of the deferred
  queue, of the batch, of the commit under way (`Coming`) and of the history are, as a set, the
  accepted ones, and by count as many (`Kept`), so none is lost, invented or doubled; what a commit
  will make durable is in no queue, and reader and batch are empty outside their points
  (`PlacesFit`).
* `TypesAlways`. `TypeInv` adds to `TypeOK` what a change under way carries until it is written:
  messages only, and the number of a control the host submitted (`ChangeTyped`). That its facts and
  the head it leads to are of the vocabulary follows from `MayPropose`, one lemma per kind of change.

**`RunLifecycleProofs`**: `HeadWithinBudgets` and `TerminalsAreFinal`, under `BudgetsAreSet`: types,
budgets (tokens overrun by at most the turn that ends the run), ownership of unanswered calls, no
checkpoint after a terminal one. `HistoryIsASequenceAlways`, of `HistorySpec`: any messages, in appends
of any length, of which the runs' are some (`HistoriesAreSome`). `ListInv` says what each cell says of
the cells before it (`CellFits`): its digit's weight, that the next digit lies that many messages
back, and that the children of a node are the two trees before it, of one weight. That the walks end
and what they find is then shown by induction over the positions of the cells: a walk from a cell
only meets earlier ones (`RecursionExists`), the windows two subtrees and their root show join to the
window of the tree (`WindowsJoin`, `BranchShows`), and so do those of a digit and the next
(`DigitsShow`).

**`ToolBatchProofs`**

* `CancelsWhatRunsAlways`. `CInv` adds that nothing was announced for a call that still waits for a
  permit, and that what is in `completion_order` has returned, so a turn of the engine does not
  change who runs.
* `PermitSpansCallAlways`. Free permits and the calls that hold one add up to the limit (`PInv`);
  the finite-set lemmas count who starts and who finishes in one step.
* `OwnResultsKeepReports` and `ProgressSettlesAlways`. While the batch runs, what the buffer accepted
  from a call is what was emitted, then what the reader holds, then what is buffered, in order, and
  a finished call has nothing left in the last two (`SInv`); a call whose own result was taken
  accepted every report it made (`RInv`). The lemmas say what `Of`, the reports of one call among
  those of all, makes of an append, a head and a tail.
* `TypesAlways`: permits, buffer and slots stay within their limits, and no call makes more reports
  than the batch allows (`ReportsMade` is a sum over the calls).

**`RepositoryProofs`**, for any number of hosts, calls, reads and faults, and whatever boundaries the
hosts commit. `RepositoryInv`: the ledger has one entry per revision, each under its own id, and the
head is the last (`DbFits`); who holds a lock decided on what stays so until it lets go
(`LockFits`); a MySQL session or a late Redis command belongs to an attempt that was lost or is
still waited for (`SessionFits`, `LateFits`); what is stored under the id of a host's last commit was
accepted, or the host still waits (`OwnFits`). Every action is shown once to keep it and to map to a
step or a stutter of `RunChain` (`KeepsPromise`).

* `ImplementsChainAlways` and `QuietAfterCloseAlways`, both assuming `CommandsInOrder`: a Redis server
  has run or lost what a host sent before it answers that host again. The runs check them with that
  constant set, and `repository_late_command` shows the chain broken without it.
* `KnownIsCommittedAlways`, without that assumption.
* `ReadsSeeOneHeadAlways`, also without it, assuming `StatesRestore`: every state the hosts commit
  comes back from the store as it was. That is what the states of `repository_provider_turn` do not
  do, and there a read reports damage. `ReadInv` adds that no chunk is beyond what the head knows of
  (`ChunkBelow`), so a commit overwrites none; that the head row, and a row a reader has begun with,
  can be read whole (`RowReads`); and that every commit under way leads to the history it declares
  (`Sound`). That messages cut into chunks and joined again are what they were (`ChunksJoin`), and
  that chunks added behind others join to the two histories one after the other (`ConcatTwo`), is
  shown by induction over numbers.

**`InvocationProofs`**

* `ControlsKeepOrder` and `ClosedInboxStaysEmpty`, of `ChannelSpec`. Controls are numbered as they are
  submitted, and `ChannelInv` says that inbox, snapshot, callbacks and pending list hold, one after
  the other, the numbers after those taken: only one of the four is open to submissions at a time
  (`Handover`).
* `ImplementsChannel`: an invocation is a behaviour of that channel, so both hold of it too
  (`ControlsReachTheEngine`).
* `LossyAccountedAlways`. `QueueInv`: the events received and those in the queue are numbered without
  a gap, and `lossy` counts the droppable ones among the latter.
* `TracesVerifyAlways`. The property speaks of a consumer that has read everything, while the engine
  runs ahead of its consumer by a whole queue. `TraceInv` says that what is in the queue leads the
  reader, entry by entry and without a refusal (`Path`, `Ahead`), to the consumer who has read
  everything, and `Meets` relates what that consumer's verifier knows to the engine's variables, one
  conjunct per suspension point: the phase, the calls open and finished, the batch, the revision.
  `Advances` is the step: what an action adds to the queue takes that consumer along. `EngineInv`
  holds what the engine's own variables say about each other. `TraceInv` quantifies over paths of any
  length, so TLC checks the property itself.

**`DecoratorProofs`**

* `CircuitAlwaysRecovers`, for any number of callers and either nesting, from a positive threshold
  and delays that are numbers. `PolicyInv` adds that a call whose frame is outside the breaker holds
  no admission (`OutsideHoldsNothing`) and that only failures wait to be recorded.
* `OneAttemptStreamsAlways`, `HostErrorsAreFinalAlways` and `AttemptsAreTimelyAlways`, for any nesting
  of decorators, any attempts and delays and any behaviour of the provider; what the decoders make
  of a frame stays unexpanded. `CallInv`: when the host has seen a delta, every decorator that relayed
  it is marked and none is sleeping (`PublishedIsMarked`); an exception on its way up is in the past,
  a host's travels as itself, and a sleep ends after the time it was asked to wait (`FailureTravels`).
* `FramesMatchBodyAlways`, for bodies of any length and any bounds. The reference cuts the whole body
  at once; its definitions say which positions of a sequence are picked (`Picked`). `Reads` says what
  the two generators hold after a text: the letters since its last line end, the fields since its
  last blank line, the frames before. What one byte more does to the lines of a text (`LinesGrow`),
  and one line more to the frames of some lines (`FramesGrow`), is what `ReadByte` and `EndLine` do.

**`WorkspaceToolProofs`**

* `NoToolWriteLostAlways` and `OutcomesTellTheTruthAlways`. `FileInv`: a thread between acquisition
  and release holds the path's lock and no other does (`LockHeld`), what it verified is still there
  unless a program outside changed it (`VerifiedIsCurrent`), and how the thread ended says what its
  task may report (`Coherent`).
* `NothingLeftRunningAlways`. `ShellInv`: a group that was killed has nobody left who could fork into
  it (`GroupGone`), a living root is in its group, and before a spawn succeeded there is nobody.
* `CaptureIsHonestAlways`. The retained head holds the first bytes and the tail ends with the last
  byte read and is as long as it may be (`PipeFits`); a command that ended by itself without the
  mark has reached the end of its pipe, into which nobody can write again (`CompleteFits`).
* `EditKeepsTheRestAlways`, of `EditSpec`: texts of any length over any letters, of which the runs'
  are some (`EditsAreSome`). The reference gives what becomes of the last characters of the text, for
  every number of them; `EditInv` says that what the edit has written and what the reference makes of
  the rest are the whole, that the three positions it keeps name one place (`Reached`, `EditFits`),
  and that an edit of one match leaves no other. Up to the next match the reference only copies
  (`CopiesUpTo`), and counting characters over the original arrives where its next character
  begins (`AdvancedStarts`), which is where CR and LF of one line end must count as one.

**`AgentToolsProofs`**: `AgentReportsAgreeAlways`. `AgentInv`: a record's status is terminal only
when its supervisor is done, and follows from its outcome; only a child asked to pause can have ended
by pausing (`RecordFits`), no two records answer for one tool call (`AgentsFit`), and calls, waits
and answers refer to children of their own run. One lemma says that no step loses a record or takes
back what it said.

`WaitingQuestionsExtractAlways` and `WaitingQuestionsHaveAnswersAlways`: for any numbers a model
puts in a question and any positive `max_answer_chars` (`_positive_int` in `ask_question.py`), what
the tool normalises and suspends on, the host's validators accept, and some answer too. The
invariant is short (`InterviewFits`: a suspended run still holds what was asked); the work is
arithmetic. Every quantity counts sixths, so a denominator is one of 1, 2, 3 and 6 (`DenominatorIs`,
`LcmIs`), divisors and moduli too (`GcdOfSixths`), the inverse that `integer_answer_exists` looks for
exists (`InverseExists`), and what it computes from it is an index below the modulus at which the
origin and so many steps are a whole number (`FractionsMeet`, `FirstWholeAnswer`). Without a lower
bound the answer is the nearest multiple of six steps below the upper one (`MultipleBelow`). `AnswersTo`
therefore looks for numbers only in `NumbersNear` the bounds, and the theorem says that this finds one.

`FileSpec`, `ShellSpec`, `EditSpec`, `AgentSpec`, `PoliciesSpec`, `CallSpec`, `SseSpec`,
`QuestionsSpec` and `HistorySpec` are a component on its own. `Ports` runs the same steps from the
same initial states (of an edit and a history, from the bounded ones) beside the other ports, which
share no variable with them; that this restricts nothing is by reading.

How it is done, where it may surprise. The library's induction theorems take a predicate as a
parameter, which the provers here cannot instantiate. Induction over the length of a sequence is
done over sets of numbers instead: the least number of a set exists (`LeastNumber`, from the
well-foundedness of `<` on the naturals), and a set that contains 0 and with each number the next
contains all (`NumbersFromZero`). For this `Extend`, `InsertsIn`, `Of`, `Asked`, `ReportsMade`,
`Picked`, `Advanced`, `LastReplaced` and the walks of `HistoryList` are written as recursive functions
over positions or numbers, and not as folds, with `SelectSeq` or as recursive operators.

Only model-checked: every liveness property (`PauseSettles`, `DeadlineSettles`, `BatchEnds`,
`CommitsAreAnswered`, `StreamEnds`), which with `ENABLED` is out of the prover's reach, and
`LiveViewAgrees`, whose two sides are folds over deltas, compared after sorting by key.

## 8. Not modelled

* Contents of messages (a lone surrogate in a text: section 5), token accounting beyond the total,
  metadata, timestamps, digests and wire formats: field-by-field conversions. The encoding of
  requests and of the history for a provider, model profiles and the field checks of response bodies
  are the same.
* Reading and searching tools, which keep no state, and their budgets.
* The tool registry, a dictionary under a lock that is copied when a catalog is opened.
* SQL and Lua texts, schema set-up, connection pools.
* `Shell`: processes that call `setsid` leave their group and are outside what the code promises;
  `taskkill` cannot find the descendants of a root that has exited, so that tree is excluded from
  `NothingLeftRunning`; pid reuse and `PermissionError` are left out, and nothing is followed after
  the answer.
* `Questions`: one question in a call; texts are lengths.
* Ports that ignore cancellation and are abandoned after 0.1 s keep running outside anything the
  kernel controls; only their late deltas are modelled (`Invocation`).
* Limits are fixed for a run; resuming from a checkpoint that is no longer the head is a commit that
  conflicts in `RunRepository`.
