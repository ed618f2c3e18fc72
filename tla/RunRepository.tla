---------------------------- MODULE RunRepository ----------------------------
(***************************************************************************)
(* The repositories of one run at work: hosts that commit, retry, read the *)
(* head, crash and close, against one of the six adapters, with the faults *)
(* each adapter handles.  "cluster" is the Redis adapter on a cluster.     *)
(*                                                                         *)
(* Each host has a repository instance of its own and uses it for one      *)
(* operation at a time; memory and ephemeral repositories live inside the  *)
(* one process all hosts are then part of, so there nothing crashes.       *)
(***************************************************************************)
EXTENDS RepositoryData

CONSTANTS
    Adapters,  \* the adapters the stored run may be kept by
    Hosts,     \* hosts that work on the run
    States,    \* checkpoint states the hosts commit: [kind, ptp] records
    CommandsInOrder, \* Redis answers a host after it has run or lost what the host
                     \* sent before
    MaxTries,  \* bound: calls of commit()
    MaxReads,  \* bound: calls of get_head()
    MaxEvents, \* bound: calls of commit() and faults together
    MaxFaults  \* bound: crashes, failures, lost replies, closes and stray checkpoints

ASSUME RepositoryAssumption ==
    /\ Adapters \subseteq {"memory", "ephemeral", "sqlite", "mysql", "redis", "cluster"}
    /\ Hosts \cap {"free", "session", "none", "foreign"} = {}
    /\ CommandsInOrder \in BOOLEAN
    /\ MaxTries \in Nat /\ MaxReads \in Nat /\ MaxEvents \in Nat /\ MaxFaults \in Nat \ {0}

VARIABLES
    adapter, \* which adapter this behaviour is about
    db,      \* the stored run
    lock,    \* who holds the write lock: a host, "session" or "free"
    op,      \* the operation each host is in
    known,   \* the checkpoint each host continues from
    latest,  \* the commit each host made last
    life,    \* the repository instance of each host: open, closing, closed
    session, \* a MySQL transaction whose COMMIT the server has and nobody waits for
    late,    \* Redis commands that timed out and were not run yet
    tries,   \* calls of commit() so far
    reads,   \* calls of get_head() so far
    faults,  \* faults so far
    lost,    \* attempts whose host crashed before the answer
    accepted \* commits of which some call was told that they are accepted

stored == <<db, lock, session, late>>
hosts == <<known, latest, tries, reads>>
past == <<lost, accepted>>
vars == <<adapter, db, lock, op, known, latest, life, session, late, tries, reads,
          faults, lost, accepted>>

Redis == {"redis", "cluster"}
Server == {"sqlite", "mysql", "redis", "cluster"}

Idle == [phase |-> "idle"]
Committing(w) == op[w].phase \in {"queued", "retry", "gap", "locked", "probe", "eval"}
Reading(w) == op[w].phase \in {"ledger", "chunks"}
Attempt(w) == [who |-> w, try |-> op[w].try, commit |-> op[w].commit]

Foreign == Checkpoint(<<"foreign", 0>>, 0, <<"m">>, [kind |-> "planning", ptp |-> FALSE])

(* A host knows nothing of the run, or holds a checkpoint of it from       *)
(* another store.                                                          *)
Init ==
    /\ adapter \in Adapters
    /\ db = EmptyDb /\ lock = "free" /\ session = None /\ late = {}
    /\ op = [w \in Hosts |-> Idle]
    /\ faults \in {0, 1}
    /\ LET stray == CHOOSE w \in Hosts : TRUE \* hosts are alike
       IN  known = [w \in Hosts |-> IF w = stray /\ faults = 1 THEN Foreign ELSE None]
    /\ latest = [w \in Hosts |-> None]
    /\ life = [w \in Hosts |-> "open"]
    /\ tries = 0 /\ reads = 0 /\ lost = {} /\ accepted = {}

Fault == faults < MaxFaults /\ tries + faults < MaxEvents /\ faults' = faults + 1
Free(w) == lock \in {"free", w}

-----------------------------------------------------------------------------
(* A host calls commit(): with the boundary that follows the checkpoint it *)
(* knows, with the last commit again, or with other content under its id.  *)

Start(w, c) ==
    /\ op[w] = Idle /\ life[w] = "open" /\ tries < MaxTries
    /\ tries + faults < MaxEvents
    /\ tries' = tries + 1
    /\ latest' = [latest EXCEPT ![w] = c]
    /\ op' = [op EXCEPT ![w] = [phase |-> IF adapter \in Redis THEN "probe" ELSE "queued",
                                commit |-> c, try |-> tries', retries |-> 0, unknown |-> FALSE]]
    /\ UNCHANGED <<adapter, stored, known, life, reads, faults, past>>

Commit(w) ==
    \E state \in States :
        LET id   == <<w, tries + 1>>
            some == [i \in 1..ChunkSize + 1 |-> id]
        IN  \/ IsNone(known[w]) /\ Start(w, InitialCommit(id, some, state))
            \/ ~IsNone(known[w]) /\ Start(w, NextCommit(known[w], "append", id, <<id>>, state))
            \/ ~IsNone(known[w]) /\ Start(w, NextCommit(known[w], "replace", id, some, state))
            \/ ~IsNone(known[w]) /\ Start(w, NextCommit(known[w], "unchanged", id, <<>>, state))

OtherState == [kind |-> "suspended", ptp |-> FALSE]

CommitAgain(w) ==
    /\ latest[w] # None
    /\ \/ Start(w, latest[w])
       \/ Start(w, [latest[w] EXCEPT !.checkpoint.state = OtherState])

Answered(w, ok) ==
    /\ op' = [op EXCEPT ![w] = Idle]
    /\ accepted' = IF ok THEN accepted \cup {op[w].commit} ELSE accepted
    /\ known' = IF ok THEN [known EXCEPT ![w] = op[w].commit.checkpoint] ELSE known
    /\ UNCHANGED <<adapter, latest, life, tries, reads, lost>>

Goes(w, phase) ==
    /\ op' = [op EXCEPT ![w].phase = phase]
    /\ UNCHANGED <<adapter, hosts, life, past>>

(* Cancelled while its future is still queued, a commit is taken back;     *)
(* later the caller waits for its end and the cancellation is absorbed.    *)
Withdraw(w) ==
    /\ adapter \in {"sqlite", "mysql"} /\ op[w].phase = "queued"
    /\ Answered(w, FALSE) /\ UNCHANGED <<stored, faults>>

-----------------------------------------------------------------------------
(* Memory and ephemeral: everything under one lock, or without an await.   *)

InProcess(w) ==
    /\ adapter \in {"memory", "ephemeral"} /\ op[w].phase = "queued"
    /\ LET c == op[w].commit
           v == IF adapter = "memory" THEN Verdict(db, c) ELSE EphemeralVerdict(db, c)
       IN  /\ db' = IF v = "new" THEN Publish(db, c) ELSE db
           /\ Answered(w, v # "refused")
    /\ UNCHANGED <<lock, session, late, faults>>

-----------------------------------------------------------------------------
(* SQLite: BEGIN IMMEDIATE takes the database's write lock.                *)

SqliteBegin(w) ==
    /\ adapter = "sqlite" /\ op[w].phase = "queued" /\ lock = "free"
    /\ IF Verdict(db, op[w].commit) = "refused"
       THEN Answered(w, FALSE) /\ UNCHANGED lock
       ELSE Goes(w, "locked") /\ lock' = w
    /\ UNCHANGED <<db, session, late, faults>>

(* busy_timeout has passed and another connection still writes. *)
SqliteBusy(w) ==
    /\ adapter = "sqlite" /\ op[w].phase = "queued" /\ lock # "free"
    /\ Fault /\ Answered(w, FALSE) /\ UNCHANGED stored

Written(c) == IF Known(db, c) THEN db ELSE Publish(db, c)

SqliteCommit(w) ==
    /\ adapter = "sqlite" /\ op[w].phase = "locked"
    /\ Known(db, op[w].commit) \/ Writable(db, op[w].commit)
    /\ db' = Written(op[w].commit) /\ lock' = "free"
    /\ Answered(w, TRUE) /\ UNCHANGED <<session, late, faults>>

SqliteKeepsLock(w) == \* mutation: no rollback
    /\ adapter = "sqlite" /\ op[w].phase = "locked"
    /\ Fault /\ UNCHANGED lock
    /\ Answered(w, FALSE) /\ UNCHANGED <<db, session, late>>

(* A statement or the COMMIT fails: the transaction is rolled back. *)
SqliteFails(w) ==
    /\ adapter = "sqlite" /\ op[w].phase = "locked"
    /\ Fault \/ (~Writable(db, op[w].commit) /\ UNCHANGED faults)
    /\ lock' = "free"
    /\ Answered(w, FALSE) /\ UNCHANGED <<db, session, late>>

-----------------------------------------------------------------------------
(* MySQL: SELECT ... FOR UPDATE locks the head row, or only the gap it is  *)
(* missing from, which any number of transactions can lock together.       *)

Ordinary(w) == op[w].phase \in {"queued", "retry"}

MysqlLockHead(w) ==
    /\ adapter = "mysql" /\ Ordinary(w) /\ lock = "free"
    /\ LET refused == Verdict(db, op[w].commit) = "refused" IN
       \/ refused /\ Answered(w, FALSE) /\ UNCHANGED lock
       \/ ~refused /\ IsNone(db.head) /\ Goes(w, "gap") /\ UNCHANGED lock
       \/ ~refused /\ ~IsNone(db.head) /\ Goes(w, "locked") /\ lock' = w
    /\ UNCHANGED <<db, session, late, faults>>

(* The first insert into the gap waits for the gap locks of the others. *)
MysqlInsert(w) ==
    /\ adapter = "mysql" /\ op[w].phase = "gap"
    /\ \A v \in Hosts \ {w} : op[v].phase # "gap"
    /\ lock' = w /\ Goes(w, "locked")
    /\ UNCHANGED <<db, session, late, faults>>

Raises(w) == Answered(w, FALSE) \* the error reaches the caller

(* Deadlock (1213), lock wait timeout (1205), duplicate key (1062): rolled *)
(* back and tried again, twice at most; while the outcome of an earlier    *)
(* COMMIT is unknown, as often as it takes.                                *)
MysqlRetry(w, ops) ==
    /\ LET o == ops[w]
           again == [o EXCEPT !.phase = "retry"]
       IN  op' = [ops EXCEPT ![w] = IF o.unknown          THEN again
                                    ELSE IF o.retries < 2 THEN [again EXCEPT !.retries = o.retries + 1]
                                    ELSE Idle]
    /\ UNCHANGED <<adapter, hosts, life, past>>

(* Inserts that wait for each other's gap locks: the server rolls one back *)
(* and, when nobody else holds the gap, the other goes on.                 *)
MysqlDeadlock(w) ==
    /\ adapter = "mysql" /\ op[w].phase = "gap"
    /\ \E v \in Hosts \ {w} :
          /\ op[v].phase = "gap"
          /\ IF \A u \in Hosts \ {v, w} : op[u].phase # "gap"
             THEN lock' = v /\ MysqlRetry(w, [op EXCEPT ![v].phase = "locked"])
             ELSE UNCHANGED lock /\ MysqlRetry(w, op)
    /\ UNCHANGED <<db, session, late, faults>>

(* Lock wait timeout (1205). *)
MysqlLockTimeout(w) ==
    /\ adapter = "mysql" /\ Ordinary(w) /\ lock # "free"
    /\ Fault /\ MysqlRetry(w, op) /\ UNCHANGED stored

(* The connection breaks before COMMIT was sent: the server rolls back.    *)
MysqlDisconnect(w) ==
    /\ adapter = "mysql" /\ (Ordinary(w) \/ op[w].phase \in {"gap", "locked"})
    /\ Fault
    /\ IF op[w].unknown THEN Goes(w, "retry") ELSE Raises(w)
    /\ lock' = (IF lock = w THEN "free" ELSE lock)
    /\ UNCHANGED <<db, session, late>>

MysqlCommit(w) ==
    /\ adapter = "mysql" /\ op[w].phase = "locked"
    /\ Known(db, op[w].commit) \/ Writable(db, op[w].commit)
    /\ db' = Written(op[w].commit) /\ lock' = "free"
    /\ Answered(w, TRUE) /\ UNCHANGED <<session, late, faults>>

(* _CommitOutcomeUnknown starts the settlement: the commit is made again.  *)
SettleLater(w) ==
    /\ op' = [op EXCEPT ![w].phase = "retry", ![w].unknown = TRUE]
    /\ UNCHANGED <<adapter, hosts, life, past>>

(* The reply to COMMIT is lost: the server had committed, had rolled back, *)
(* or still has the transaction open with its locks.                       *)
MysqlCommitLost(w) ==
    /\ adapter = "mysql" /\ op[w].phase = "locked" /\ Fault
    /\ \/ db' = Written(op[w].commit) /\ lock' = "free" /\ UNCHANGED session
       \/ lock' = "free" /\ UNCHANGED <<db, session>>
       \/ /\ ~Known(db, op[w].commit)
          /\ session' = [rev |-> op[w].commit.checkpoint.rev, commit |-> op[w].commit]
          /\ lock' = "session" /\ UNCHANGED db
    /\ SettleLater(w) /\ UNCHANGED late

SessionEnds ==
    /\ ~IsNone(session)
    /\ db' \in {db, Publish(db, session.commit)}
    /\ session' = None /\ lock' = "free"
    /\ UNCHANGED <<adapter, op, hosts, life, late, faults, past>>

-----------------------------------------------------------------------------
(* Redis: one script probes, another commits; both run atomically.         *)

RedisProbe(w) ==
    /\ adapter \in Redis /\ op[w].phase = "probe"
    /\ CommandsInOrder => Attempt(w) \notin late
    /\ LET v == ProbeVerdict(db, op[w].commit) IN
       IF v = "new"
       THEN /\ op' = [op EXCEPT ![w].phase = "eval", ![w].unknown = FALSE]
            /\ UNCHANGED <<adapter, hosts, life, past>>
       ELSE Answered(w, v = "known")
    /\ UNCHANGED <<stored, faults>>

(* A failed probe proves nothing: without an open outcome it is raised.    *)
RedisProbeFails(w) ==
    /\ adapter \in Redis /\ op[w].phase = "probe" /\ Fault
    /\ IF op[w].unknown THEN Goes(w, "probe") ELSE Raises(w)
    /\ UNCHANGED stored

RedisCommit(w) ==
    /\ adapter \in Redis /\ op[w].phase = "eval"
    /\ LET v == ScriptVerdict(db, op[w].commit) IN
       /\ db' = IF v = "new" THEN Publish(db, op[w].commit) ELSE db
       /\ Answered(w, v # "refused")
    /\ UNCHANGED <<lock, session, late, faults>>

Unsettled(w) ==
    /\ op' = [op EXCEPT ![w].phase = "probe", ![w].unknown = TRUE]
    /\ UNCHANGED <<adapter, hosts, life, past>>

(* The reply to the commit script is lost: it ran, it never will, or it is *)
(* still on its way.                                                       *)
RedisCommitLost(w) ==
    /\ adapter \in Redis /\ op[w].phase = "eval" /\ Fault
    /\ LET c == op[w].commit IN
       \/ /\ db' = IF ScriptVerdict(db, c) = "new" THEN Publish(db, c) ELSE db
          /\ UNCHANGED late
       \/ UNCHANGED <<db, late>>
       \/ late' = late \cup {Attempt(w)} /\ UNCHANGED db
    /\ Unsettled(w) /\ UNCHANGED <<lock, session>>

(* READONLY, LOADING, BUSY and the like: this command did not write.  A    *)
(* single server is believed, a cluster is probed again.                   *)
RedisNoWrite(w) ==
    /\ adapter \in Redis /\ op[w].phase = "eval" /\ Fault
    /\ IF adapter = "redis" /\ ~op[w].unknown THEN Raises(w) ELSE Unsettled(w)
    /\ UNCHANGED stored

(* It runs after all, or it is lost after all. *)
LateCommandRuns ==
    /\ \E a \in late :
          /\ late' = late \ {a}
          /\ db' \in {db, IF ScriptVerdict(db, a.commit) = "new" THEN Publish(db, a.commit)
                         ELSE db}
    /\ UNCHANGED <<adapter, op, hosts, life, lock, session, faults, past>>

-----------------------------------------------------------------------------
(* get_head(): the head row, its ledger entry, then the chunks, each read  *)
(* by a statement of its own while others commit.                          *)

ReadDone(w, cp) ==
    /\ op' = [op EXCEPT ![w] = IF cp = Damaged THEN [phase |-> "damaged"] ELSE Idle]
    /\ known' = [known EXCEPT ![w] = cp]
    /\ UNCHANGED <<adapter, latest, life, tries, stored, faults, past>>

BeginRead(w) ==
    /\ op[w] = Idle /\ life[w] = "open" /\ reads < MaxReads
    /\ reads' = reads + 1

(* These adapters keep the checkpoint itself. *)
ReadInProcess(w) ==
    /\ adapter \in {"memory", "ephemeral"} /\ BeginRead(w)
    /\ ReadDone(w, IF IsNone(db.head) THEN None ELSE db.head.digest)

ReadHead(w) ==
    /\ adapter \in Server /\ BeginRead(w)
    /\ CASE IsNone(db.head)         -> ReadDone(w, None)
         [] ~IsNone(db.head) /\ ~CoreMatches(db.head) -> ReadDone(w, Damaged)
         [] OTHER ->
            /\ op' = [op EXCEPT ![w] = [phase |-> "ledger", head |-> db.head, chunks |-> <<>>]]
            /\ UNCHANGED <<adapter, known, latest, tries, life, stored, faults, past>>

ReadLedger(w) ==
    /\ op[w].phase = "ledger"
    /\ LET head == op[w].head IN
       IF /\ head.id \in DOMAIN db.ledger
          /\ db.ledger[head.id] = [rev |-> head.rev, digest |-> head.digest]
       THEN /\ op' = [op EXCEPT ![w].phase = "chunks"]
            /\ UNCHANGED <<adapter, known, latest, tries, life, stored, faults, past>>
       ELSE ReadDone(w, Damaged)
    /\ UNCHANGED reads

ReadsLatestGeneration(w) == \* mutation: the chunks are selected by the current head
    /\ op[w].phase = "chunks"
    /\ LET keys  == {<<db.head.gen, i>> : i \in 0..db.head.chunks - 1}
           found == [i \in 1..op[w].head.chunks |-> db.chunks[<<db.head.gen, i - 1>>]]
       IN  IF keys \subseteq DOMAIN db.chunks /\ Cardinality(keys) = op[w].head.chunks
           THEN ReadDone(w, Reconstruct(op[w].head, found))
           ELSE ReadDone(w, Damaged)
    /\ UNCHANGED reads

(* All chunks of the generation below the count that the head row gave.    *)
ReadChunks(w) ==
    /\ op[w].phase = "chunks"
    /\ LET head == op[w].head
           keys == {<<head.gen, i>> : i \in 0..head.chunks - 1}
       IN  IF keys \subseteq DOMAIN db.chunks
           THEN ReadDone(w, Reconstruct(head, [i \in 1..head.chunks |->
                                                 db.chunks[<<head.gen, i - 1>>]]))
           ELSE ReadDone(w, Damaged)
    /\ UNCHANGED reads

-----------------------------------------------------------------------------
(* close() refuses new operations at once and returns after those it had   *)
(* accepted.                                                               *)

Close(w) ==
    /\ adapter \in Server /\ life[w] = "open" /\ Fault
    /\ life' = [life EXCEPT ![w] = "closing"]
    /\ UNCHANGED <<adapter, stored, op, hosts, past>>

CloseAtOnce(w) == \* mutation: close() does not wait for what it had accepted
    /\ life[w] = "closing" /\ life' = [life EXCEPT ![w] = "closed"]
    /\ UNCHANGED <<adapter, stored, op, hosts, faults, past>>

Closed(w) ==
    /\ life[w] = "closing" /\ op[w] = Idle
    /\ life' = [life EXCEPT ![w] = "closed"]
    /\ UNCHANGED <<adapter, stored, op, hosts, faults, past>>

(* The process of a host dies: its transaction is rolled back unless the   *)
(* COMMIT or the command was already with the server.  A new process with  *)
(* a new instance knows nothing until it reads the head.                   *)
Crash(w) ==
    /\ adapter \in Server /\ Fault
    /\ op' = [op EXCEPT ![w] = Idle]
    /\ known' = [known EXCEPT ![w] = None] /\ latest' = [latest EXCEPT ![w] = None]
    /\ life' = [life EXCEPT ![w] = "open"]
    /\ lost' = (IF Committing(w) THEN lost \cup {Attempt(w)} ELSE lost)
    /\ lock' = (IF lock = w THEN "free" ELSE lock)
    /\ \/ UNCHANGED <<db, late>>
       \/ op[w].phase = "locked" /\ db' = Written(op[w].commit) /\ UNCHANGED late
       \/ op[w].phase = "eval" /\ late' = late \cup {Attempt(w)} /\ UNCHANGED db
    /\ UNCHANGED <<adapter, session, tries, reads, accepted>>

-----------------------------------------------------------------------------
Works(w) ==
    \/ InProcess(w)
    \/ SqliteBegin(w) \/ SqliteCommit(w) \/ SqliteFails(w)
    \/ MysqlLockHead(w) \/ MysqlInsert(w) \/ MysqlDeadlock(w) \/ MysqlCommit(w)
    \/ RedisProbe(w) \/ RedisCommit(w)
    \/ ReadLedger(w) \/ ReadChunks(w) \/ Closed(w)

Fails(w) ==
    \/ SqliteBusy(w) \/ MysqlLockTimeout(w) \/ MysqlDisconnect(w) \/ MysqlCommitLost(w)
    \/ RedisProbeFails(w) \/ RedisCommitLost(w) \/ RedisNoWrite(w) \/ Crash(w)

Next ==
    \/ \E w \in Hosts : \/ Commit(w) \/ CommitAgain(w) \/ Withdraw(w) \/ Works(w) \/ Fails(w)
                        \/ ReadInProcess(w) \/ ReadHead(w) \/ Close(w)
    \/ SessionEnds
    \/ LateCommandRuns

Spec == Init /\ [][Next]_vars

(* A worker thread or task that was started goes on, and a server ends the *)
(* sessions and runs or loses the commands it has.                         *)
Fairness == /\ \A w \in Hosts : WF_vars(Works(w))
            /\ WF_vars(SessionEnds)
            /\ WF_vars(LateCommandRuns)

FairSpec == Spec /\ Fairness

-----------------------------------------------------------------------------
(* Properties.                                                             *)

(* The checkpoints the ledger vouches for, by revision. *)
Ledger == {db.ledger[id] : id \in DOMAIN db.ledger}
Chain == [i \in 1..Cardinality(Ledger) |->
             (CHOOSE entry \in Ledger : entry.rev = i - 1).digest]
Open == lost \cup {Attempt(w) : w \in {v \in Hosts : Committing(v)}}

(* Every adapter implements the append-only chain: what is accepted stays, *)
(* in one line of descent, a retry whose reply was lost is accepted as the *)
(* same commit, of two hosts on one head one is refused, and a commit that *)
(* was reported as failed never shows up.                                  *)
Abstract == INSTANCE RunChain WITH chain <- Chain, open <- Open
ImplementsChain == Abstract!Spec

(* A read that several commits overtake still returns one whole checkpoint *)
(* of the chain: never a mixture, never a false alarm.                     *)
ReadsSeeOneHead ==
    \A w \in Hosts :
        /\ op[w].phase # "damaged"
        /\ IsNone(known[w]) \/ known[w] = Foreign
           \/ \E entry \in Ledger : entry.digest = known[w]

(* Once close() has returned, nothing of the instance reaches the store;   *)
(* what an earlier, crashed instance of the host had sent still may.       *)
QuietAfterClose ==
    [][\A id \in DOMAIN db'.ledger \ DOMAIN db.ledger :
          life[id[1]] = "closed" => \E a \in lost : Id(a.commit) = id]_vars

(* Every commit() is answered, however often its replies were lost: there  *)
(* are always moments at which no call is waiting.                         *)
CommitsAreAnswered == []<>(\A w \in Hosts : ~Committing(w))
=============================================================================
