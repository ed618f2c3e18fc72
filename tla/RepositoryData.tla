---------------------------- MODULE RepositoryData ----------------------------
(***************************************************************************)
(* The data of the run repositories and the decisions every adapter takes  *)
(* on it: what a commit asks for, whether the stored run accepts it, what  *)
(* is written, and how a checkpoint is put together again when it is read. *)
(*                                                                         *)
(* A digest is the value it digests: digests do not collide.  So the       *)
(* digest of a checkpoint is the checkpoint, that of a history the history.*)
(***************************************************************************)
EXTENDS Integers, Sequences, FiniteSets

CONSTANTS ChunkSize \* HISTORY_CHUNK_SIZE: messages in one stored chunk

ASSUME ChunkAssumption == ChunkSize \in Nat \ {0}

NoId == <<"none", 0>>
None == [rev |-> -1]
IsNone(x) == x.rev = -1

(* Checkpoint: id, revision, history and state; the history is the sequence *)
(* of its messages and a message is named after the commit that added it.   *)
Checkpoint(id, rev, hist, state) == [id |-> id, rev |-> rev, hist |-> hist, state |-> state]

-----------------------------------------------------------------------------
(* DurableCommit: a checkpoint, its parent and the change of history.      *)

InitialCommit(id, msgs, state) ==
    [checkpoint |-> Checkpoint(id, 0, msgs, state), parent |-> NoId,
     kind |-> "initial", base |-> <<>>, msgs |-> msgs]

(* The history change of a later boundary: nothing, a suffix, or a whole   *)
(* new history; the base is the history of the predecessor.                *)
NextCommit(prev, kind, id, msgs, state) ==
    LET hist == CASE kind = "append"    -> prev.hist \o msgs
                  [] kind = "replace"   -> msgs
                  [] kind = "unchanged" -> prev.hist
    IN  [checkpoint |-> Checkpoint(id, prev.rev + 1, hist, state), parent |-> prev.id,
         kind |-> kind, base |-> prev.hist, msgs |-> IF kind = "unchanged" THEN <<>> ELSE msgs]

Id(c) == c.checkpoint.id
Expected(c) == c.checkpoint.rev - 1 \* expected_revision; -1 stands for None

-----------------------------------------------------------------------------
(* The stored run: a head row, a ledger of the accepted ids and the chunks *)
(* of history by generation and index.                                     *)

EmptyDb == [head |-> None, ledger |-> <<>>, chunks |-> <<>>]

Entry(db, c) == db.ledger[Id(c)]
Known(db, c) == Id(c) \in DOMAIN db.ledger

(* _read_head_manifest, _lock_head, read_head: a head row must have a      *)
(* parent exactly when it is not the first and its own ledger entry.       *)
HeadIntact(db) ==
    \/ IsNone(db.head)
    \/ /\ (db.head.rev = 0) <=> (db.head.parent = NoId)
       /\ db.head.id \in DOMAIN db.ledger
       /\ db.ledger[db.head.id] = [rev |-> db.head.rev, digest |-> db.head.digest]

(* _accept_existing: an exact retry is accepted, also after the run has    *)
(* advanced; other content under the id, or an entry the head does not     *)
(* reach, is refused.                                                      *)
AcceptsRetry(db, c) ==
    LET entry == Entry(db, c) IN
    /\ entry.digest = c.checkpoint /\ entry.rev = c.checkpoint.rev
    /\ ~IsNone(db.head) /\ db.head.rev >= entry.rev
    /\ db.head.rev = entry.rev => db.head.id = Id(c) /\ db.head.digest = entry.digest

(* validate_new_base: the parent is the head and the change was made to    *)
(* the head's history.                                                     *)
BaseMatches(head, c) ==
    IF IsNone(head)
    THEN c.parent = NoId /\ c.kind = "initial"
    ELSE /\ c.parent = head.id
         /\ Len(c.base) = head.count /\ c.base = head.hdigest

ExtendsByRevision(db, c) == db.head.rev = Expected(c) \* mutation: the parent is not compared
ExtendsHead(db, c) == db.head.rev = Expected(c) /\ BaseMatches(db.head, c)

(* What the memory, SQLite and MySQL repositories decide under their lock. *)
Verdict(db, c) ==
    IF Known(db, c)
    THEN IF AcceptsRetry(db, c) THEN "known" ELSE "refused"
    ELSE IF HeadIntact(db) /\ ExtendsHead(db, c) THEN "new" ELSE "refused"

(* EphemeralRepository.commit: no entry of its ledger can be orphaned.     *)
EphemeralVerdict(db, c) ==
    IF Known(db, c)
    THEN IF Entry(db, c).digest = c.checkpoint THEN "known" ELSE "refused"
    ELSE IF ExtendsHead(db, c) THEN "new" ELSE "refused"

(* _PROBE_SCRIPT: reads only; compares the revision and nothing else.      *)
ProbeVerdict(db, c) ==
    CASE ~HeadIntact(db) -> "refused"
      [] Known(db, c)    -> IF AcceptsRetry(db, c) THEN "known" ELSE "refused"
      [] OTHER           -> IF db.head.rev = Expected(c) THEN "new" ELSE "refused"

-----------------------------------------------------------------------------
(* Writing.                                                                *)

(* _encode_chunks: full chunks of ChunkSize messages and a shorter last    *)
(* one.  An append never fills up the last stored chunk.                   *)
Chunks(msgs) ==
    LET n == (Len(msgs) + ChunkSize - 1) \div ChunkSize
        last(k) == IF k * ChunkSize > Len(msgs) THEN Len(msgs) ELSE k * ChunkSize
    IN  [k \in 1..n |-> SubSeq(msgs, (k - 1) * ChunkSize + 1, last(k))]

(* next_history_manifest: a replacement opens the generation named after   *)
(* its revision; an append continues the generation of the head.           *)
NextManifest(head, c, added) ==
    IF IsNone(head) \/ c.kind = "replace"
    THEN [gen |-> c.checkpoint.rev, first |-> 0, total |-> added]
    ELSE [gen |-> head.gen, first |-> head.chunks, total |-> head.chunks + added]

Sum(chunks) == LET n[k \in 0..Len(chunks)] == IF k = 0 THEN 0 ELSE n[k - 1] + Len(chunks[k])
               IN  n[Len(chunks)]

(* validate_encoded_history: the chunks are the declared change. *)
EncodingMatches(head, c, chunks) ==
    /\ (chunks = <<>>) <=> (c.kind = "unchanged")
    /\ Len(c.checkpoint.hist) =
         Sum(chunks) + IF IsNone(head) \/ c.kind = "replace" THEN 0 ELSE head.count

(* _encode_storage_state: only a planning state is stored whole; what is   *)
(* pending is stored as its count and digest, which the history implies.   *)
EncodeState(state) == IF state.kind = "planning" THEN state ELSE [kind |-> state.kind]

(* encode_core: everything but the history, and its count and digest. *)
EncodeCore(c) ==
    [id |-> Id(c), parent |-> c.parent, rev |-> c.checkpoint.rev,
     state |-> EncodeState(c.checkpoint.state),
     count |-> Len(c.checkpoint.hist), hdigest |-> c.checkpoint.hist]

NewChunks(db, c) ==
    LET chunks == Chunks(c.msgs)
        m      == NextManifest(db.head, c, Len(chunks))
    IN  [key \in {<<m.gen, m.first + k - 1>> : k \in 1..Len(chunks)} |->
            chunks[key[2] - m.first + 1]]

(* The history table has one row per generation and index. *)
Writable(db, c) ==
    /\ EncodingMatches(db.head, c, Chunks(c.msgs))
    /\ DOMAIN NewChunks(db, c) \cap DOMAIN db.chunks = {}

(* The rows of a table f and those that are added to it. *)
AddRows(rows, f) == [key \in DOMAIN rows \cup DOMAIN f |-> IF key \in DOMAIN rows THEN rows[key] ELSE f[key]]

(* The rows of _commit_sync and _commit_once: chunks, ledger entry, head.  *)
Publish(db, c) ==
    LET m == NextManifest(db.head, c, Len(Chunks(c.msgs))) IN
    [head   |-> [rev |-> c.checkpoint.rev, id |-> Id(c), parent |-> c.parent,
                 digest |-> c.checkpoint, core |-> EncodeCore(c),
                 gen |-> m.gen, chunks |-> m.total,
                 count |-> Len(c.checkpoint.hist), hdigest |-> c.checkpoint.hist],
     ledger |-> AddRows([id \in {Id(c)} |-> [rev |-> c.checkpoint.rev, digest |-> c.checkpoint]], db.ledger),
     chunks |-> AddRows(NewChunks(db, c), db.chunks)]

(* _COMMIT_SCRIPT: the probe's checks, the base, the first chunk of the    *)
(* current generation as an anchor, and the fields it would write.         *)
ScriptVerdict(db, c) ==
    LET probed == ProbeVerdict(db, c)
        anchored == IsNone(db.head) \/ <<db.head.gen, 0>> \in DOMAIN db.chunks
    IN  IF probed = "new" /\ ~(BaseMatches(db.head, c) /\ anchored /\ Writable(db, c))
        THEN "refused" ELSE probed

-----------------------------------------------------------------------------
(* Reading.                                                                *)

(* _decode_storage_state: a state that is not planning comes back without  *)
(* a pending provider turn.                                                *)
DecodeState(stored) ==
    IF stored.kind = "planning" THEN stored ELSE [kind |-> stored.kind, ptp |-> FALSE]

(* The core in a head row must agree with the columns beside it. *)
CoreMatches(head) ==
    /\ head.core.id = head.id /\ head.core.parent = head.parent
    /\ head.core.rev = head.rev
    /\ head.core.count = head.count /\ head.core.hdigest = head.hdigest

Damaged == [rev |-> -2]

Concat(chunks) == LET s[k \in 0..Len(chunks)] == IF k = 0 THEN <<>> ELSE s[k - 1] \o chunks[k]
                  IN  s[Len(chunks)]

(* reconstruct_checkpoint: join core and chunks, then compare the digest   *)
(* of what came out with the one that was stored.                          *)
Reconstruct(head, chunks) ==
    LET hist == Concat(chunks)
        cp   == Checkpoint(head.core.id, head.core.rev, hist, DecodeState(head.core.state))
    IN  IF Len(hist) = head.core.count /\ cp = head.digest THEN cp ELSE Damaged
=============================================================================
