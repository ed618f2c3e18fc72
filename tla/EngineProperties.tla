-------------------------- MODULE EngineProperties --------------------------
(***************************************************************************)
(* What one run driven by Engine must guarantee: to the repository, to the *)
(* host that reads its stop events, to the tools it executes and to the    *)
(* controls it accepts.                                                    *)
(***************************************************************************)
EXTENDS Engine

Live == pc \notin Settled

(* The next durable step, if one is under way, keeps the run active. *)
Continues == Live /\ (pc = "commit" => IsActive(chg.st))

(* What RunLifecycle sees of a run: its durable head without the messages. *)
Lifecycle == INSTANCE RunLifecycle WITH
    rev <- head.rev, kind <- head.st.kind, pending <- head.st.pending,
    ptp <- head.st.ptp, why <- head.st.why,
    steps <- head.steps, calls <- head.calls, tokens <- head.tokens

-----------------------------------------------------------------------------
(* Every variable keeps its type; head and cp are checkpoints or the empty *)
(* one, and what waits in the inbox is a control of this run.              *)
States == [kind : Lifecycle!Kinds, pending : Seq(Nat), ptp : BOOLEAN,
           why : Lifecycle!Reasons]
Messages == [role : {"user", "assistant", "tool", "external"}, ref : Nat, calls : Seq(Nat)]
FactKinds == {"started", "resumed", "model_turn", "tool_batch", "conversation_insert",
              "history_rewrite", "control"}
Facts == [kind : FactKinds \cup {"none"}, result : Lifecycle!Kinds \cup {"none"},
          calls : Seq(Nat), ptp : BOOLEAN, why : Lifecycle!Reasons, n : Nat, m : Nat]
Checkpoints == [rev : Nat \cup {-1}, hist : Seq(Messages), steps : Nat, calls : Nat,
                tokens : Nat, st : States, fact : Facts]
Controls == [kind : ControlKinds, n : 1..MaxControls]

TypeOK ==
    /\ head \in Checkpoints /\ cp \in Checkpoints /\ last \in Nat \cup {-1}
    /\ repo \in Repositories
    /\ pc \in Settled \cup SuspensionPoints \cup {"open", "loop", "plan"}
    /\ ready \in BOOLEAN /\ skip \in BOOLEAN
    /\ queue \in Seq(Controls) /\ slot \in Seq(Controls) /\ Len(slot) <= 1
    /\ deferred \in Seq(1..MaxControls)
    /\ batch \in [n : Nat, pause : BOOLEAN, inserts : Seq(1..MaxControls)]
    /\ wr \in {"idle", "queued", "running", "written"}
    /\ expired \in BOOLEAN /\ closed \in BOOLEAN
    /\ stop \in {"none", "suspended", "terminal", "repository_error", "consumer_closed"}
    /\ arrived \in 0..MaxControls /\ accepted \subseteq Controls
    /\ landed \in Seq(1..MaxControls) /\ ran \subseteq Nat \X Nat /\ runs \in 0..MaxInvocations

-----------------------------------------------------------------------------
(* A durable checkpoint reloads: its whole history, read from nothing,     *)
(* passes the linkage check that each step made only on its own edit       *)
(* against the proof it retained (RunSnapshot against evolve_history).     *)
ReloadsCleanly == head.rev >= 0 => ValidHistory(head.hist, head.st)

(* As far as the shape of changes goes, only a model response that uses a  *)
(* call id its history already holds makes Engine.run raise past its       *)
(* handlers: no other change the engine builds is refused by the reducer,  *)
(* and none that is committed is refused by verify_change.  Contents are   *)
(* not modelled, and a text that UTF-8 cannot encode raises from the       *)
(* digest of the message as well.                                          *)
OnlyReuseEscapes ==
    pc = "broken" => /\ chg.fact.kind = "model_turn"
                     /\ ToSet(chg.fact.calls) \cap CallIds(cp.hist) # {}

(* However an invocation stopped, the checkpoint it last worked from is    *)
(* the repository's head, and its stop event names that checkpoint or, if  *)
(* it never returned one, none: no write is left behind unreported.        *)
StopsAtHead ==
    pc = "stopped" =>
        /\ cp = head
        /\ last \in {-1, head.rev}
        /\ stop = "suspended" => last = head.rev /\ head.st.kind = "suspended"
        /\ stop = "terminal" => /\ last = head.rev
                                /\ ~IsActive(head.st) /\ head.st.kind # "suspended"

(* While the run goes on, every insert this invocation accepted is in      *)
(* exactly one place - inbox, reader, deferred queue, executing batch,     *)
(* commit under way or history - and an accepted pause is still held       *)
(* somewhere: requeueing, draining and deferring lose and repeat nothing.  *)
InsertPlaces ==
    landed \o InsertsIn(queue) \o InsertsIn(slot) \o deferred \o batch.inserts
      \o (IF pc = "commit" /\ wr \in {"queued", "running"} THEN Landing(chg) ELSE <<>>)

ControlsConserved ==
    Continues =>
        /\ ToSet(InsertPlaces) = {c.n : c \in {d \in accepted : d.kind = "insert"}}
        /\ Cardinality(ToSet(InsertPlaces)) = Len(InsertPlaces)
        /\ (\E c \in accepted : c.kind = "pause") =>
              HasPause(queue) \/ HasPause(slot) \/ batch.pause

(* While a provider turn is pending nothing but that turn's tool results   *)
(* and its continuation enters the history, whoever resumes or inserts.    *)
ProviderTurnAdjacent ==
    [][head.st.ptp =>
          /\ IsPrefix(head.hist, head'.hist)
          /\ \A i \in (Len(head.hist) + 1)..Len(head'.hist) :
                head'.hist[i].role \in {"tool", "assistant"}]_vars

(* An invocation hands each call of a model turn to execution at most once *)
(* (tool-scheduling.md: "each allowed binding is invoked exactly once"),   *)
(* and only a call that the durable head still lists as unanswered.  A     *)
(* call is one occurrence of an id: an id that a history rewrite dropped   *)
(* may come back in a later turn and is then another call.                 *)
ExecutesOnce ==
    [][pc # "exec" /\ pc' = "exec" =>
          /\ Cardinality(ran' \ ran) = batch'.n
          /\ ran' \ ran \subseteq {<<head.steps, id>> : id \in ToSet(head.st.pending)}]_vars

(* Once the deadline has passed no external work starts: the cleanup time  *)
(* is spent on the terminal checkpoint alone.                              *)
NoWorkAfterDeadline ==
    [][pc' # pc /\ pc' \in Effects => ~expired]_vars

(* The durable head moves only as RunLifecycle allows: budgets, prefix     *)
(* order of the unanswered calls, one revision a step, final terminals.    *)
ImplementsLifecycle == Lifecycle!Spec

-----------------------------------------------------------------------------
(* A pause that reaches the engine while the catalog, the reducer or the   *)
(* model is working settles the invocation, even if that port never        *)
(* answers and however many inserts are ahead of it.                       *)
PauseInPlanning == pc \in Interruptibles /\ (HasPause(queue) \/ HasPause(slot))
PauseSettles == PauseInPlanning ~> pc \in Settled

(* An invocation whose deadline passes settles, whatever it waits for.     *)
DeadlineSettles == (expired /\ Live) ~> pc \in Settled

-----------------------------------------------------------------------------
(* run-control.md: inserts deferred to a boundary "are then committed in   *)
(* arrival order".                                                         *)
InsertsInArrivalOrder ==
    \A i, j \in DOMAIN landed : i < j => landed[i] < landed[j]

(* architecture.md: "Abandoning the iterator before completion cancels     *)
(* execution".                                                             *)
AbandonmentCancels == closed => pc \notin Effects

(* run-trace.md: a trace "ends with invocation_stopped".                   *)
TraceEndsWithStop == pc \in {"stopped", "broken"} => stop # "none"
=============================================================================
