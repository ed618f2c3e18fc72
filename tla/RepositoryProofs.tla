---------------------------- MODULE RepositoryProofs ----------------------------
(***************************************************************************)
(* What the repositories keep, for any number of hosts, calls, reads and   *)
(* faults, whatever boundaries the hosts commit.                           *)
(***************************************************************************)
EXTENDS RunRepository, FiniteSetTheorems, SequenceTheorems, NaturalsInduction,
        WellFoundedInduction, TLAPS

(* The ids the hosts have given out after t calls of commit().             *)
IdOf(id, w, t) == id = <<w, id[2]>> /\ id[2] \in Int /\ 1 <= id[2] /\ id[2] <= t

CommitFits(c, w, t) ==
    /\ c = [checkpoint |-> c.checkpoint, parent |-> c.parent, kind |-> c.kind, base |-> c.base, msgs |-> c.msgs]
    /\ c.checkpoint = Checkpoint(c.checkpoint.id, c.checkpoint.rev, c.checkpoint.hist, c.checkpoint.state)
    /\ c.checkpoint.rev \in Nat
    /\ IdOf(Id(c), w, t)
    /\ c.parent = NoId <=> c.checkpoint.rev = 0
    /\ c.kind = "initial" => c.parent = NoId

-----------------------------------------------------------------------------
(* The stored run d after t calls: one entry for every revision up to the  *)
(* head's, each under its own id, and a head that is the last of them.     *)
LedgerOf(d) == {d.ledger[id] : id \in DOMAIN d.ledger}
ChainOf(d) == [i \in 1..Cardinality(LedgerOf(d)) |-> (CHOOSE entry \in LedgerOf(d) : entry.rev = i - 1).digest]

EntryFits(d, id, t) ==
    /\ d.ledger[id] = [rev |-> d.ledger[id].rev, digest |-> d.ledger[id].digest]
    /\ d.ledger[id].rev \in Int /\ 0 <= d.ledger[id].rev /\ d.ledger[id].rev <= d.head.rev
    /\ d.ledger[id].digest.id = id /\ d.ledger[id].digest.rev = d.ledger[id].rev
    /\ id[1] \in Hosts /\ IdOf(id, id[1], t)

HeadFits(d) ==
    /\ (d.head.rev = 0) <=> (d.head.parent = NoId)
    /\ d.head.id \in DOMAIN d.ledger
    /\ d.ledger[d.head.id] = [rev |-> d.head.rev, digest |-> d.head.digest]
    /\ d.head.hdigest = d.head.digest.hist

DbFits(d, t) ==
    /\ d.head.rev \in Int /\ d.head.rev >= -1
    /\ IsFiniteSet(LedgerOf(d)) /\ Cardinality(LedgerOf(d)) = d.head.rev + 1
    /\ \A id \in DOMAIN d.ledger : EntryFits(d, id, t)
    /\ \A r \in 0..d.head.rev : \E id \in DOMAIN d.ledger : d.ledger[id].rev = r
    /\ \A i, j \in DOMAIN d.ledger : d.ledger[i].rev = d.ledger[j].rev => i = j
    /\ ~IsNone(d.head) => HeadFits(d)

InLedger(d, cp) == \E id \in DOMAIN d.ledger : d.ledger[id].digest = cp

(* A commit the store may take: an exact retry or the head's continuation. *)
Taken(d, c) == IF Known(d, c) THEN AcceptsRetry(d, c) ELSE ExtendsHead(d, c)

New(d, c) == ~Known(d, c) /\ ExtendsHead(d, c)

-----------------------------------------------------------------------------
(* The hosts.                                                              *)
CommitPhases == {"queued", "retry", "gap", "locked", "probe", "eval"}

OpFits(w) ==
    LET o == op[w] IN
    /\ o.phase \in CommitPhases =>
           /\ o = [phase |-> o.phase, commit |-> o.commit, try |-> o.try,
                   retries |-> o.retries, unknown |-> o.unknown]
           /\ o.commit = latest[w] /\ CommitFits(o.commit, w, tries)
           /\ o.try \in Int /\ 1 <= o.try /\ o.try <= tries /\ o.unknown \in BOOLEAN
           /\ o.phase \in {"probe", "eval"} <=> adapter \in Redis
           /\ o.phase \in {"gap", "retry"} => adapter = "mysql"
           /\ o.phase = "locked" => adapter \in {"sqlite", "mysql"}
           /\ o.unknown => adapter \in Redis \cup {"mysql"} /\ o.phase \notin {"queued", "eval"}
    /\ o.phase \in {"ledger", "chunks"} =>
           o = [phase |-> o.phase, head |-> o.head, chunks |-> o.chunks] /\ InLedger(db, o.head.digest)

KnownFits(w) == op[w].phase = "damaged" \/ known[w] \in {None, Foreign} \/ InLedger(db, known[w])

LatestFits(w) == latest[w] # None => CommitFits(latest[w], w, tries)

(* What is stored under the id of a host's last commit was accepted, or    *)
(* the host still waits to learn what became of it.                        *)
OwnFits(w) ==
    (CommandsInOrder /\ latest[w] # None /\ Known(db, latest[w])) =>
        LET stored_ == Entry(db, latest[w]).digest IN
        \/ [latest[w] EXCEPT !.checkpoint = stored_] \in accepted
        \/ Committing(w) /\ op[w].unknown /\ stored_ = latest[w].checkpoint

(* Whoever holds a lock decides on what stays so until it lets go of it.   *)
LockFits(w) ==
    /\ op[w].phase = "locked" => lock = w /\ Taken(db, op[w].commit)
    /\ op[w].phase = "gap" => lock = "free" /\ IsNone(db.head) /\ Taken(db, op[w].commit)

QuietFits(w) == life[w] = "closed" => op[w] = Idle

HostFits(w) ==
    OpFits(w) /\ KnownFits(w) /\ LatestFits(w) /\ OwnFits(w) /\ LockFits(w) /\ QuietFits(w)

-----------------------------------------------------------------------------
(* What a server may still do belongs to an attempt that is not answered.  *)
LostFits ==
    \A a \in lost :
        /\ a.who \in Hosts /\ a.try \in Int /\ 1 <= a.try /\ a.try <= tries
        /\ CommitFits(a.commit, a.who, tries)
        /\ latest[a.who] # None => Id(a.commit) # Id(latest[a.who])

Waits(w) == Committing(w) /\ op[w].unknown

SessionFits ==
    ~IsNone(session) =>
        /\ adapter = "mysql" /\ lock = "session" /\ New(db, session.commit)
        /\ \/ \E a \in lost : a.commit = session.commit
           \/ \E w \in Hosts : Waits(w) /\ op[w].phase = "retry" /\ op[w].commit = session.commit

LateFits ==
    \A a \in late :
        /\ adapter \in Redis /\ a.who \in Hosts /\ CommitFits(a.commit, a.who, tries)
        /\ CommandsInOrder =>
               a \in lost \/ \E w \in Hosts : Waits(w) /\ op[w].phase = "probe" /\ a = Attempt(w)

RepositoryInv ==
    /\ op = [w \in Hosts |-> op[w]] /\ known = [w \in Hosts |-> known[w]]
    /\ latest = [w \in Hosts |-> latest[w]] /\ life = [w \in Hosts |-> life[w]]
    /\ tries \in Nat
    /\ DbFits(db, tries)
    /\ \A w \in Hosts : HostFits(w)
    /\ LostFits /\ SessionFits /\ LateFits

-----------------------------------------------------------------------------
(* Publishing.                                                             *)
LEMMA Published ==
    ASSUME NEW d, NEW c, ~Known(d, c)
    PROVE  /\ DOMAIN Publish(d, c).ledger = {Id(c)} \cup DOMAIN d.ledger
           /\ Publish(d, c).ledger[Id(c)] = [rev |-> c.checkpoint.rev, digest |-> c.checkpoint]
           /\ \A id \in DOMAIN d.ledger : id # Id(c) /\ Publish(d, c).ledger[id] = d.ledger[id]
           /\ Publish(d, c).head.rev = c.checkpoint.rev /\ Publish(d, c).head.id = Id(c)
           /\ Publish(d, c).head.parent = c.parent /\ Publish(d, c).head.digest = c.checkpoint
           /\ Publish(d, c).head.hdigest = c.checkpoint.hist
<1> DEFINE rows == [id \in {Id(c)} |-> [rev |-> c.checkpoint.rev, digest |-> c.checkpoint]]
<1>1. Publish(d, c).ledger = AddRows(rows, d.ledger)
  BY DEF Publish
<1>2. DOMAIN rows = {Id(c)} /\ rows[Id(c)] = [rev |-> c.checkpoint.rev, digest |-> c.checkpoint]
  OBVIOUS
<1> HIDE DEF rows
<1>3. /\ DOMAIN AddRows(rows, d.ledger) = {Id(c)} \cup DOMAIN d.ledger
      /\ AddRows(rows, d.ledger)[Id(c)] = rows[Id(c)]
      /\ \A id \in DOMAIN d.ledger : id # Id(c) => AddRows(rows, d.ledger)[id] = d.ledger[id]
  BY <1>2 DEF AddRows
<1>4. \A id \in DOMAIN d.ledger : id # Id(c)
  BY DEF Known
<1>5. /\ Publish(d, c).head.rev = c.checkpoint.rev /\ Publish(d, c).head.id = Id(c)
      /\ Publish(d, c).head.parent = c.parent /\ Publish(d, c).head.digest = c.checkpoint
      /\ Publish(d, c).head.hdigest = c.checkpoint.hist
  BY DEF Publish
<1> QED
  BY <1>1, <1>2, <1>3, <1>4, <1>5

LEMMA LedgerGrows ==
    ASSUME NEW d, NEW t \in Nat, NEW c, NEW w \in Hosts, DbFits(d, t), CommitFits(c, w, t), New(d, c)
    PROVE  /\ LedgerOf(Publish(d, c)) =
                  LedgerOf(d) \cup {[rev |-> c.checkpoint.rev, digest |-> c.checkpoint]}
           /\ \A entry \in LedgerOf(d) : entry.rev \in Int /\ entry.rev < c.checkpoint.rev
           /\ c.checkpoint.rev = d.head.rev + 1
           /\ IsFiniteSet(LedgerOf(Publish(d, c)))
           /\ Cardinality(LedgerOf(Publish(d, c))) = Cardinality(LedgerOf(d)) + 1
<1> DEFINE e == [rev |-> c.checkpoint.rev, digest |-> c.checkpoint]
<1>1. ~Known(d, c) /\ d.head.rev \in Int /\ c.checkpoint.rev \in Nat /\ d.head.rev = c.checkpoint.rev - 1
  BY DEF New, ExtendsHead, Expected, DbFits, CommitFits
<1>2. LedgerOf(Publish(d, c)) = LedgerOf(d) \cup {e}
  <2>1. DOMAIN Publish(d, c).ledger = {Id(c)} \cup DOMAIN d.ledger /\ Publish(d, c).ledger[Id(c)] = e
        /\ \A id \in DOMAIN d.ledger : Publish(d, c).ledger[id] = d.ledger[id]
    BY <1>1, Published
  <2> HIDE DEF e
  <2> QED
    BY <2>1 DEF LedgerOf
<1>3. \A entry \in LedgerOf(d) : entry.rev \in Int /\ entry.rev <= d.head.rev
  <2> SUFFICES ASSUME NEW id \in DOMAIN d.ledger
               PROVE  d.ledger[id].rev \in Int /\ d.ledger[id].rev <= d.head.rev
    BY DEF LedgerOf
  <2> QED
    BY DEF DbFits, EntryFits
<1>4. c.checkpoint.rev = d.head.rev + 1
  BY <1>1
<1>5. e \notin LedgerOf(d)
  <2>1. e.rev = d.head.rev + 1
    BY <1>4
  <2> HIDE DEF e
  <2> QED
    BY <1>1, <1>3, <2>1
<1>6. IsFiniteSet(LedgerOf(d) \cup {e}) /\ Cardinality(LedgerOf(d) \cup {e}) = Cardinality(LedgerOf(d)) + 1
  <2> HIDE DEF e
  <2> QED
    BY <1>5, FS_AddElement DEF DbFits
<1> QED
  BY <1>1, <1>2, <1>3, <1>4, <1>6

LEMMA PublishFits ==
    ASSUME NEW d, NEW t \in Nat, NEW c, NEW w \in Hosts, DbFits(d, t), CommitFits(c, w, t), New(d, c)
    PROVE  DbFits(Publish(d, c), t)
<1> DEFINE p == Publish(d, c)
<1>1. /\ DOMAIN p.ledger = {Id(c)} \cup DOMAIN d.ledger
      /\ p.ledger[Id(c)] = [rev |-> c.checkpoint.rev, digest |-> c.checkpoint]
      /\ \A id \in DOMAIN d.ledger : id # Id(c) /\ p.ledger[id] = d.ledger[id]
      /\ p.head.rev = c.checkpoint.rev /\ p.head.id = Id(c)
      /\ p.head.parent = c.parent /\ p.head.digest = c.checkpoint
      /\ p.head.hdigest = c.checkpoint.hist
  BY Published DEF New
<1>2. /\ c.checkpoint.rev = d.head.rev + 1
      /\ IsFiniteSet(LedgerOf(p)) /\ Cardinality(LedgerOf(p)) = Cardinality(LedgerOf(d)) + 1
  BY LedgerGrows
<1>3. d.head.rev \in Int /\ d.head.rev >= -1 /\ Cardinality(LedgerOf(d)) = d.head.rev + 1
  BY DEF DbFits
<1>4. /\ c.checkpoint.rev \in Nat /\ IdOf(Id(c), w, t) /\ c.checkpoint.id = Id(c)
      /\ c.parent = NoId <=> c.checkpoint.rev = 0
  BY DEF CommitFits, Id
<1> HIDE DEF p
<1>5. ASSUME NEW id \in DOMAIN p.ledger PROVE EntryFits(p, id, t)
  <2>1. CASE id = Id(c)
    <3>1. id[1] = w
      BY <1>4, <2>1 DEF IdOf
    <3>2. p.ledger[id].rev = c.checkpoint.rev /\ p.ledger[id].digest = c.checkpoint
          /\ p.ledger[id] = [rev |-> p.ledger[id].rev, digest |-> p.ledger[id].digest]
      BY <1>1, <2>1
    <3>3. IdOf(id, id[1], t) /\ id[1] \in Hosts
      BY <1>4, <2>1, <3>1
    <3> QED
      BY <1>1, <1>4, <2>1, <3>2, <3>3 DEF EntryFits
  <2>2. CASE id # Id(c)
    <3>1. id \in DOMAIN d.ledger /\ EntryFits(d, id, t) /\ p.ledger[id] = d.ledger[id]
      BY <1>1, <2>2 DEF DbFits
    <3>2. d.ledger[id].rev <= p.head.rev
      BY <1>1, <1>2, <1>3, <3>1 DEF EntryFits
    <3> QED
      BY <3>1, <3>2 DEF EntryFits
  <2> QED
    BY <2>1, <2>2
<1>6. ASSUME NEW r \in 0..p.head.rev PROVE \E id \in DOMAIN p.ledger : p.ledger[id].rev = r
  <2>1. CASE r = c.checkpoint.rev
    BY <1>1, <2>1
  <2>2. CASE r # c.checkpoint.rev
    <3>1. r \in 0..d.head.rev
      BY <1>1, <1>2, <1>3, <1>4, <2>2
    <3> QED
      BY <1>1, <3>1 DEF DbFits
  <2> QED
    BY <2>1, <2>2
<1>7. ASSUME NEW i \in DOMAIN p.ledger, NEW j \in DOMAIN p.ledger, p.ledger[i].rev = p.ledger[j].rev PROVE i = j
  <2>1. \A k \in DOMAIN d.ledger : p.ledger[k].rev # c.checkpoint.rev
    <3> SUFFICES ASSUME NEW k \in DOMAIN d.ledger PROVE p.ledger[k].rev # c.checkpoint.rev
      OBVIOUS
    <3>1. p.ledger[k] = d.ledger[k] /\ d.ledger[k].rev \in Int /\ d.ledger[k].rev <= d.head.rev
      BY <1>1 DEF DbFits, EntryFits
    <3> QED
      BY <1>2, <1>3, <3>1
  <2>2. p.ledger[Id(c)].rev = c.checkpoint.rev
    BY <1>1
  <2>3. CASE i = Id(c) \/ j = Id(c)
    BY <1>1, <1>7, <2>1, <2>2, <2>3
  <2>4. CASE i # Id(c) /\ j # Id(c)
    BY <1>1, <1>7, <2>4 DEF DbFits
  <2> QED
    BY <2>3, <2>4
<1>8. HeadFits(p)
  BY <1>1, <1>4 DEF HeadFits
<1>9. p.head.rev \in Int /\ p.head.rev >= -1 /\ Cardinality(LedgerOf(p)) = p.head.rev + 1
  BY <1>1, <1>2, <1>3, <1>4
<1>10. DbFits(p, t)
  BY <1>2, <1>5, <1>6, <1>7, <1>8, <1>9 DEF DbFits
<1> QED
  BY <1>10 DEF p

LEMMA Intact == ASSUME NEW d, NEW t, DbFits(d, t) PROVE HeadIntact(d)
BY DEF DbFits, HeadFits, HeadIntact

(* What is in the ledger under the commit's own checkpoint is an exact      *)
(* retry, whatever the head is by now.                                      *)
LEMMA Existing ==
    ASSUME NEW d, NEW t \in Nat, NEW c, NEW w, DbFits(d, t), CommitFits(c, w, t), InLedger(d, c.checkpoint)
    PROVE  Known(d, c) /\ Entry(d, c).digest = c.checkpoint /\ AcceptsRetry(d, c)
<1>1. PICK id \in DOMAIN d.ledger : d.ledger[id].digest = c.checkpoint
  BY DEF InLedger
<1>2. EntryFits(d, id, t) /\ d.head.rev \in Int
  BY DEF DbFits
<1>3. id = Id(c) /\ d.ledger[id].rev = c.checkpoint.rev
  BY <1>1, <1>2 DEF EntryFits, Id
<1>4. d.head.rev >= d.ledger[id].rev /\ ~IsNone(d.head)
  BY <1>2 DEF EntryFits, IsNone
<1>5. HeadFits(d)
  BY <1>4 DEF DbFits
<1>6. ASSUME d.head.rev = d.ledger[id].rev PROVE d.head.id = id /\ d.head.digest = d.ledger[id].digest
  <2>1. d.head.id \in DOMAIN d.ledger /\ d.ledger[d.head.id].rev = d.head.rev
        /\ d.ledger[d.head.id].digest = d.head.digest
    BY <1>5 DEF HeadFits
  <2>2. d.head.id = id
    BY <1>6, <2>1 DEF DbFits
  <2> QED
    BY <2>1, <2>2
<1> QED
  BY <1>1, <1>3, <1>4, <1>6 DEF Known, Entry, AcceptsRetry

(* What each of the four decisions says.                                   *)
LEMMA Decided ==
    ASSUME NEW d, NEW t \in Nat, NEW c, DbFits(d, t)
    PROVE  /\ Verdict(d, c) # "refused" <=> Taken(d, c)
           /\ Verdict(d, c) = "new" => New(d, c)
           /\ Verdict(d, c) \notin {"new", "refused"} => Known(d, c) /\ AcceptsRetry(d, c)
<1>1. HeadIntact(d)
  BY Intact
<1> QED
  BY <1>1 DEF Verdict, Taken, New

LEMMA DecidedElsewhere ==
    ASSUME NEW d, NEW t \in Nat, NEW c, DbFits(d, t)
    PROVE  /\ EphemeralVerdict(d, c) = "new" => New(d, c)
           /\ EphemeralVerdict(d, c) \notin {"new", "refused"} => Known(d, c) /\ Entry(d, c).digest = c.checkpoint
           /\ ProbeVerdict(d, c) = "new" => ~Known(d, c)
           /\ ProbeVerdict(d, c) = "known" => Known(d, c) /\ AcceptsRetry(d, c)
           /\ ProbeVerdict(d, c) \notin {"new", "known"} => ~(Known(d, c) /\ AcceptsRetry(d, c))
           /\ ScriptVerdict(d, c) = "new" => New(d, c)
           /\ ScriptVerdict(d, c) \notin {"new", "refused"} => Known(d, c) /\ AcceptsRetry(d, c)
<1>1. HeadIntact(d)
  BY Intact
<1>2. ProbeVerdict(d, c) = IF Known(d, c) THEN IF AcceptsRetry(d, c) THEN "known" ELSE "refused"
                           ELSE IF d.head.rev = Expected(c) THEN "new" ELSE "refused"
  BY <1>1 DEF ProbeVerdict
<1>3. ScriptVerdict(d, c) = "new" => ProbeVerdict(d, c) = "new" /\ BaseMatches(d.head, c)
  BY DEF ScriptVerdict
<1>4. ScriptVerdict(d, c) \notin {"new", "refused"} => ScriptVerdict(d, c) = ProbeVerdict(d, c)
  BY DEF ScriptVerdict
<1> QED
  BY <1>1, <1>2, <1>3, <1>4 DEF EphemeralVerdict, New, ExtendsHead

-----------------------------------------------------------------------------
(* The chain a stored run stands for.                                      *)
LEMMA ChainFits ==
    ASSUME NEW d, NEW t \in Nat, DbFits(d, t)
    PROVE  /\ DOMAIN ChainOf(d) = 1..(d.head.rev + 1) /\ ChainOf(d) = [i \in 1..(d.head.rev + 1) |-> ChainOf(d)[i]]
           /\ \A id \in DOMAIN d.ledger : ChainOf(d)[d.ledger[id].rev + 1] = d.ledger[id].digest
<1>1. /\ Cardinality(LedgerOf(d)) = d.head.rev + 1 /\ d.head.rev \in Int
      /\ \A id \in DOMAIN d.ledger : d.ledger[id].rev \in Int /\ 0 <= d.ledger[id].rev /\ d.ledger[id].rev <= d.head.rev
  BY DEF DbFits, EntryFits
<1>2. ASSUME NEW id \in DOMAIN d.ledger PROVE ChainOf(d)[d.ledger[id].rev + 1] = d.ledger[id].digest
  <2> DEFINE i == d.ledger[id].rev + 1
             e == CHOOSE entry \in LedgerOf(d) : entry.rev = i - 1
  <2>1. i \in 1..Cardinality(LedgerOf(d)) /\ i - 1 = d.ledger[id].rev
    BY <1>1
  <2>2. \E entry \in LedgerOf(d) : entry.rev = i - 1
    BY <2>1 DEF LedgerOf
  <2>3. e \in LedgerOf(d) /\ e.rev = i - 1
    BY <2>2
  <2>4. PICK j \in DOMAIN d.ledger : e = d.ledger[j]
    BY <2>3 DEF LedgerOf
  <2>5. j = id
    BY <2>1, <2>3, <2>4 DEF DbFits
  <2>6. ChainOf(d)[i] = e.digest
    BY <2>1 DEF ChainOf
  <2> QED
    BY <2>4, <2>5, <2>6
<1>3. DOMAIN ChainOf(d) = 1..Cardinality(LedgerOf(d))
      /\ ChainOf(d) = [i \in 1..Cardinality(LedgerOf(d)) |-> ChainOf(d)[i]]
  BY DEF ChainOf
<1> QED
  BY <1>1, <1>2, <1>3

LEMMA ChainLen ==
    ASSUME NEW d, NEW t \in Nat, DbFits(d, t)
    PROVE  /\ ChainOf(d) \in Seq({entry.digest : entry \in LedgerOf(d)})
           /\ Len(ChainOf(d)) = d.head.rev + 1 /\ d.head.rev + 1 \in Nat
<1> DEFINE n == d.head.rev + 1
           S == {entry.digest : entry \in LedgerOf(d)}
           s == ChainOf(d)
<1>1. n \in Nat /\ d.head.rev = n - 1
  BY DEF DbFits
<1>2. s = [i \in 1..n |-> s[i]]
  BY ChainFits
<1>3. ASSUME NEW i \in 1..n PROVE s[i] \in S
  <2>1. i - 1 \in 0..d.head.rev
    BY <1>1
  <2>2. PICK id \in DOMAIN d.ledger : d.ledger[id].rev = i - 1
    BY <2>1 DEF DbFits
  <2>3. s[i] = d.ledger[id].digest
    <3>1. s[d.ledger[id].rev + 1] = d.ledger[id].digest
      BY ChainFits
    <3>2. d.ledger[id].rev + 1 = i
      BY <2>2
    <3> QED
      BY <3>1, <3>2
  <2> QED
    BY <2>3 DEF LedgerOf
<1> HIDE DEF n, S, s
<1>4. s \in [1..n -> S]
  BY <1>2, <1>3
<1>5. s \in Seq(S)
  BY <1>1, <1>4
<1>6. Len(s) = n
  <2>1. DOMAIN s = 1..n
    BY <1>4
  <2>2. Len(s) \in Nat /\ DOMAIN s = 1..Len(s)
    BY <1>5, LenProperties
  <2> QED
    BY <1>1, <2>1, <2>2
<1> QED
  BY <1>1, <1>5, <1>6 DEF n, S, s

LEMMA InChain ==
    ASSUME NEW d, NEW t \in Nat, DbFits(d, t), NEW cp
    PROVE  InLedger(d, cp) <=> \E i \in 1..Len(ChainOf(d)) : ChainOf(d)[i] = cp
<1>1. /\ Len(ChainOf(d)) = d.head.rev + 1 /\ d.head.rev + 1 \in Nat /\ d.head.rev \in Int
      /\ \A id \in DOMAIN d.ledger : ChainOf(d)[d.ledger[id].rev + 1] = d.ledger[id].digest
  BY ChainLen, ChainFits DEF DbFits
<1>2. ASSUME NEW id \in DOMAIN d.ledger, d.ledger[id].digest = cp
      PROVE  \E i \in 1..Len(ChainOf(d)) : ChainOf(d)[i] = cp
  <2>1. d.ledger[id].rev + 1 \in 1..(d.head.rev + 1)
    <3>1. EntryFits(d, id, t)
      BY DEF DbFits
    <3> QED
      BY <1>1, <3>1 DEF EntryFits
  <2> QED
    BY <1>1, <1>2, <2>1
<1>3. ASSUME NEW i \in 1..Len(ChainOf(d)), ChainOf(d)[i] = cp PROVE InLedger(d, cp)
  <2>1. i - 1 \in 0..d.head.rev /\ i = (i - 1) + 1
    BY <1>1
  <2>2. PICK id \in DOMAIN d.ledger : d.ledger[id].rev = i - 1
    BY <2>1 DEF DbFits
  <2> QED
    BY <1>1, <1>3, <2>1, <2>2 DEF InLedger
<1> QED
  BY <1>2, <1>3 DEF InLedger

(* What the store takes as new continues the chain, which it then ends.    *)
LEMMA ChainGrows ==
    ASSUME NEW d, NEW t \in Nat, NEW c, NEW w \in Hosts, DbFits(d, t), CommitFits(c, w, t), New(d, c)
    PROVE  ChainOf(Publish(d, c)) = Append(ChainOf(d), c.checkpoint)
<1> DEFINE p == Publish(d, c)
           n == d.head.rev + 1
           s == ChainOf(d)
           e == ChainOf(p)
           f == Append(s, c.checkpoint)
<1>1. /\ DOMAIN p.ledger = {Id(c)} \cup DOMAIN d.ledger
      /\ p.ledger[Id(c)] = [rev |-> c.checkpoint.rev, digest |-> c.checkpoint]
      /\ \A id \in DOMAIN d.ledger : p.ledger[id] = d.ledger[id]
      /\ p.head.rev = c.checkpoint.rev
  BY Published DEF New
<1>2. c.checkpoint.rev = n /\ DbFits(p, t)
  BY LedgerGrows, PublishFits
<1>3. n \in Nat /\ Len(s) = n /\ s \in Seq({entry.digest : entry \in LedgerOf(d)}) /\ d.head.rev = n - 1
  <2>1. d.head.rev \in Int
    BY DEF DbFits
  <2>2. d.head.rev = n - 1
    BY <2>1
  <2> HIDE DEF n
  <2> QED
    BY <2>2, ChainLen DEF n
<1>4. /\ e = [i \in 1..(n + 1) |-> e[i]]
      /\ \A id \in DOMAIN p.ledger : e[p.ledger[id].rev + 1] = p.ledger[id].digest
  <2>1. /\ e = [i \in 1..(p.head.rev + 1) |-> e[i]]
        /\ \A id \in DOMAIN p.ledger : e[p.ledger[id].rev + 1] = p.ledger[id].digest
    BY <1>2, ChainFits
  <2> QED
    BY <1>1, <1>2, <2>1
<1>5. \A id \in DOMAIN d.ledger : s[d.ledger[id].rev + 1] = d.ledger[id].digest
  BY ChainFits
<1>6. \A r \in 0..(n - 1) : \E id \in DOMAIN d.ledger : d.ledger[id].rev = r
  BY <1>3 DEF DbFits
<1> HIDE DEF p, n, s, e
<1>7. f = [i \in 1..(n + 1) |-> f[i]] /\ f[n + 1] = c.checkpoint /\ \A i \in 1..n : f[i] = s[i]
  BY <1>3
<1>8. ASSUME NEW i \in 1..(n + 1) PROVE e[i] = f[i]
  <2>1. CASE i = n + 1
    <3>1. e[n + 1] = c.checkpoint
      <4>1. Id(c) \in DOMAIN p.ledger /\ p.ledger[Id(c)].rev = n /\ p.ledger[Id(c)].digest = c.checkpoint
        BY <1>1, <1>2
      <4>2. e[p.ledger[Id(c)].rev + 1] = p.ledger[Id(c)].digest
        BY <1>4, <4>1
      <4> QED
        BY <4>1, <4>2
    <3> QED
      BY <1>7, <2>1, <3>1
  <2>2. CASE i # n + 1
    <3>1. i \in 1..n /\ i - 1 \in 0..(n - 1) /\ (i - 1) + 1 = i
      BY <1>3, <2>2
    <3>2. PICK id \in DOMAIN d.ledger : d.ledger[id].rev = i - 1
      BY <1>6, <3>1
    <3>3. e[i] = d.ledger[id].digest
      BY <1>1, <1>4, <3>1, <3>2
    <3>4. s[i] = d.ledger[id].digest
      BY <1>5, <3>1, <3>2
    <3> QED
      BY <1>7, <3>1, <3>3, <3>4
  <2> QED
    BY <2>1, <2>2
<1> HIDE DEF f
<1>9. e = f
  <2>1. [i \in 1..(n + 1) |-> e[i]] = [i \in 1..(n + 1) |-> f[i]]
    BY <1>8
  <2> QED
    BY <1>4, <1>7, <2>1
<1> QED
  BY <1>9 DEF e, f, s, p

LEMMA NewContinues ==
    ASSUME NEW d, NEW t \in Nat, NEW c, NEW w \in Hosts, DbFits(d, t), CommitFits(c, w, t), New(d, c)
    PROVE  LET s == ChainOf(d) IN
           /\ c.checkpoint.rev = Len(s) /\ \A i \in 1..Len(s) : s[i].id # c.checkpoint.id
           /\ IF s = <<>> THEN c.kind = "initial"
              ELSE c.kind # "initial" /\ c.parent = s[Len(s)].id /\ c.base = s[Len(s)].hist
<1> DEFINE s == ChainOf(d)
           n == d.head.rev + 1
<1>1. /\ n \in Nat /\ Len(s) = n /\ c.checkpoint.rev = n /\ ~Known(d, c)
      /\ BaseMatches(d.head, c) /\ d.head.rev \in Int /\ s \in Seq({entry.digest : entry \in LedgerOf(d)})
  BY ChainLen, LedgerGrows DEF New, ExtendsHead, DbFits
<1>2. \A id \in DOMAIN d.ledger : s[d.ledger[id].rev + 1] = d.ledger[id].digest
  BY ChainFits
<1>3. ASSUME NEW i \in 1..Len(s) PROVE s[i].id # c.checkpoint.id
  <2>1. PICK id \in DOMAIN d.ledger : d.ledger[id].digest = s[i]
    <3>1. InLedger(d, s[i])
      BY InChain
    <3> QED
      BY <3>1 DEF InLedger
  <2>2. s[i].id = id
    BY <2>1 DEF DbFits, EntryFits
  <2> QED
    BY <1>1, <2>1, <2>2 DEF Known, Id
<1>4. CASE IsNone(d.head)
  <2>1. Len(s) = 0
    BY <1>1, <1>4 DEF IsNone
  <2>2. s = <<>>
    BY <1>1, <2>1, EmptySeq, SeqEqual
  <2> QED
    BY <1>1, <1>3, <1>4, <2>2 DEF BaseMatches
<1>5. CASE ~IsNone(d.head)
  <2>1. d.head.rev # -1 /\ n > 0 /\ n # 0
    BY <1>1, <1>5 DEF IsNone
  <2>2. s # <<>>
    BY <1>1, <2>1, EmptySeq
  <2>3. HeadFits(d)
    BY <1>5 DEF DbFits
  <2>4. s[n] = d.head.digest
    <3>1. d.head.id \in DOMAIN d.ledger /\ d.ledger[d.head.id].rev = d.head.rev
          /\ d.ledger[d.head.id].digest = d.head.digest
      BY <2>3 DEF HeadFits
    <3> QED
      BY <1>2, <3>1
  <2>5. d.head.digest.id = d.head.id /\ d.head.digest.hist = d.head.hdigest
    BY <2>3 DEF HeadFits, DbFits, EntryFits
  <2>6. c.parent = d.head.id /\ c.base = d.head.hdigest
    BY <1>1, <1>5 DEF BaseMatches
  <2>7. c.kind # "initial"
    BY <1>1, <2>1 DEF CommitFits
  <2> QED
    BY <1>1, <1>3, <2>2, <2>4, <2>5, <2>6, <2>7
<1> QED
  BY <1>4, <1>5

-----------------------------------------------------------------------------
(* A step of one host, or of a server, as the other hosts see it.          *)
Grows(d, e) ==
    DOMAIN d.ledger \subseteq DOMAIN e.ledger /\ \A id \in DOMAIN d.ledger : e.ledger[id] = d.ledger[id]

DbMoves ==
    \/ db' = db
    \/ \E u \in Hosts : \E c : CommitFits(c, u, tries) /\ New(db, c) /\ db' = Publish(db, c)

LEMMA IdLater ==
    ASSUME NEW id, NEW w, NEW t \in Nat, NEW u \in Nat, t <= u, IdOf(id, w, t)
    PROVE  IdOf(id, w, u)
BY DEF IdOf

LEMMA CommitLater ==
    ASSUME NEW c, NEW w, NEW t \in Nat, NEW u \in Nat, t <= u, CommitFits(c, w, t)
    PROVE  CommitFits(c, w, u)
BY IdLater DEF CommitFits

LEMMA DbLater ==
    ASSUME NEW d, NEW t \in Nat, NEW u \in Nat, t <= u, DbFits(d, t)
    PROVE  DbFits(d, u)
<1>1. \A id \in DOMAIN d.ledger : EntryFits(d, id, t)
  BY DEF DbFits
<1>2. ASSUME NEW id \in DOMAIN d.ledger PROVE EntryFits(d, id, u)
  BY <1>1, IdLater DEF EntryFits
<1> QED
  BY <1>2 DEF DbFits

LEMMA PublishGrows == ASSUME NEW d, NEW c, New(d, c) PROVE Grows(d, Publish(d, c))
<1>1. ~Known(d, c)
  BY DEF New
<1>2. /\ DOMAIN Publish(d, c).ledger = {Id(c)} \cup DOMAIN d.ledger
      /\ \A id \in DOMAIN d.ledger : id # Id(c) /\ Publish(d, c).ledger[id] = d.ledger[id]
  BY <1>1, Published
<1> QED
  BY <1>2 DEF Grows

LEMMA DbStep ==
    ASSUME RepositoryInv, DbMoves, tries' \in Nat, tries <= tries'
    PROVE  DbFits(db', tries') /\ Grows(db, db')
<1>1. tries \in Nat /\ DbFits(db, tries)
  BY DEF RepositoryInv
<1>2. CASE db' = db
  BY <1>1, <1>2, DbLater DEF Grows
<1>3. ASSUME NEW u \in Hosts, NEW c, CommitFits(c, u, tries), New(db, c), db' = Publish(db, c)
      PROVE  DbFits(db', tries') /\ Grows(db, db')
  <2>1. DbFits(db', tries)
    BY <1>1, <1>3, PublishFits
  <2>2. Grows(db, db')
    BY <1>3, PublishGrows
  <2> QED
    BY <1>1, <2>1, <2>2, DbLater
<1> QED
  BY <1>2, <1>3 DEF DbMoves

LEMMA InLedgerStays == ASSUME NEW d, NEW e, NEW cp, Grows(d, e), InLedger(d, cp) PROVE InLedger(e, cp)
BY DEF Grows, InLedger

(* What is stored of the host's own last commit and was not before, the    *)
(* host still waits for.                                                   *)
OwnLands(w) ==
    (CommandsInOrder /\ latest[w] # None /\ Id(latest[w]) \in DOMAIN db'.ledger \ DOMAIN db.ledger) =>
        Waits(w) /\ db'.ledger[Id(latest[w])].digest = latest[w].checkpoint

LEMMA HostOther ==
    ASSUME RepositoryInv, NEW w \in Hosts, Grows(db, db'), OwnLands(w),
           op'[w] = op[w], known'[w] = known[w], latest'[w] = latest[w], life'[w] = life[w],
           adapter' = adapter, tries' \in Nat, tries <= tries', accepted \subseteq accepted',
           op[w].phase = "locked" => lock' = lock /\ db' = db,
           op[w].phase = "gap" => lock' = lock /\ db' = db
    PROVE  HostFits(w)'
<1>1. HostFits(w) /\ tries \in Nat
  BY DEF RepositoryInv
<1>2. OpFits(w)'
  <2>1. op[w].phase \in CommitPhases => CommitFits(op[w].commit, w, tries')
    BY <1>1, CommitLater DEF HostFits, OpFits
  <2>2. op[w].phase \in {"ledger", "chunks"} => InLedger(db', op[w].head.digest)
    BY <1>1, InLedgerStays DEF HostFits, OpFits
  <2>3. op[w].phase \in CommitPhases => op[w].try <= tries'
    BY <1>1 DEF HostFits, OpFits
  <2> QED
    BY <1>1, <2>1, <2>2, <2>3 DEF HostFits, OpFits
<1>3. KnownFits(w)'
  BY <1>1, InLedgerStays DEF HostFits, KnownFits
<1>4. LatestFits(w)'
  BY <1>1, CommitLater DEF HostFits, LatestFits
<1>5. OwnFits(w)'
  <2> SUFFICES ASSUME CommandsInOrder, latest[w] # None, Id(latest[w]) \in DOMAIN db'.ledger
               PROVE  \/ [latest[w] EXCEPT !.checkpoint = db'.ledger[Id(latest[w])].digest] \in accepted'
                      \/ Committing(w) /\ op[w].unknown /\ db'.ledger[Id(latest[w])].digest = latest[w].checkpoint
    BY DEF OwnFits, Known, Entry, Committing
  <2>1. CASE Id(latest[w]) \in DOMAIN db.ledger
    BY <1>1, <2>1 DEF HostFits, OwnFits, Known, Entry, Grows
  <2>2. CASE Id(latest[w]) \notin DOMAIN db.ledger
    BY <2>2 DEF OwnLands, Waits
  <2> QED
    BY <2>1, <2>2
<1>6. LockFits(w)'
  BY <1>1 DEF HostFits, LockFits
<1>7. QuietFits(w)'
  BY <1>1 DEF HostFits, QuietFits
<1> QED
  BY <1>2, <1>3, <1>4, <1>5, <1>6, <1>7 DEF HostFits

(* The host whose commit goes on.                                          *)
Moved(w, p, u, r) ==
    [phase |-> p, commit |-> op[w].commit, try |-> op[w].try, retries |-> r, unknown |-> u]

LEMMA HostMoves ==
    ASSUME RepositoryInv, NEW w \in Hosts, Committing(w), Grows(db, db'),
           NEW p \in CommitPhases, NEW u \in BOOLEAN, NEW r, op'[w] = Moved(w, p, u, r),
           known'[w] = known[w], latest'[w] = latest[w], life'[w] = life[w],
           adapter' = adapter, tries' = tries, accepted' = accepted,
           p \in {"probe", "eval"} <=> adapter \in Redis,
           p \in {"gap", "retry"} => adapter = "mysql",
           p = "locked" => adapter \in {"sqlite", "mysql"} /\ lock' = w /\ Taken(db', op[w].commit),
           p = "gap" => lock' = "free" /\ IsNone(db'.head) /\ Taken(db', op[w].commit),
           u => adapter \in Redis \cup {"mysql"} /\ p \notin {"queued", "eval"},
           op[w].unknown /\ ~u => ~Known(db', op[w].commit),
           Known(db', op[w].commit) /\ ~Known(db, op[w].commit) =>
               u /\ db'.ledger[Id(op[w].commit)].digest = op[w].commit.checkpoint
    PROVE  HostFits(w)'
<1>1. HostFits(w) /\ tries \in Nat /\ op[w].phase \in CommitPhases
  BY DEF RepositoryInv, Committing, CommitPhases
<1> DEFINE c == op[w].commit
           o == op'[w]
<1>2. c = latest[w] /\ CommitFits(c, w, tries) /\ op[w].try \in Int /\ 1 <= op[w].try /\ op[w].try <= tries
  BY <1>1 DEF HostFits, OpFits
<1>3. o.phase = p /\ o.commit = c /\ o.try = op[w].try /\ o.unknown = u /\ o.retries = r
      /\ o = [phase |-> o.phase, commit |-> o.commit, try |-> o.try, retries |-> o.retries, unknown |-> o.unknown]
  BY DEF Moved
<1> HIDE DEF c, o
<1>4. OpFits(w)'
  <2>1. p \notin {"ledger", "chunks"}
    BY DEF CommitPhases
  <2> QED
    BY <1>2, <1>3, <2>1 DEF OpFits, o
<1>5. KnownFits(w)'
  <2>1. op[w].phase # "damaged"
    BY <1>1 DEF CommitPhases
  <2> QED
    BY <1>1, <2>1, InLedgerStays DEF HostFits, KnownFits
<1>6. LatestFits(w)'
  BY <1>1 DEF HostFits, LatestFits
<1>7. OwnFits(w)'
  <2> SUFFICES ASSUME CommandsInOrder, latest[w] # None, Id(latest[w]) \in DOMAIN db'.ledger
               PROVE  \/ [latest[w] EXCEPT !.checkpoint = db'.ledger[Id(latest[w])].digest] \in accepted
                      \/ u /\ db'.ledger[Id(latest[w])].digest = latest[w].checkpoint
    BY <1>3 DEF OwnFits, Known, Entry, Committing, CommitPhases, o
  <2>1. CASE Id(latest[w]) \in DOMAIN db.ledger
    <3>1. db'.ledger[Id(latest[w])] = db.ledger[Id(latest[w])]
      BY <2>1 DEF Grows
    <3>2. \/ [latest[w] EXCEPT !.checkpoint = db.ledger[Id(latest[w])].digest] \in accepted
          \/ op[w].unknown /\ db.ledger[Id(latest[w])].digest = latest[w].checkpoint
      BY <1>1, <2>1 DEF HostFits, OwnFits, Known, Entry
    <3>3. op[w].unknown => u
      BY <1>2 DEF Known, c
    <3> QED
      BY <3>1, <3>2, <3>3
  <2>2. CASE Id(latest[w]) \notin DOMAIN db.ledger
    BY <1>2, <2>2 DEF Known, c
  <2> QED
    BY <2>1, <2>2
<1>8. LockFits(w)'
  BY <1>3 DEF LockFits, c, o
<1>9. QuietFits(w)'
  <2>1. op[w] # Idle
    BY <1>1 DEF Idle, CommitPhases
  <2> QED
    BY <1>1, <2>1 DEF HostFits, QuietFits
<1> QED
  BY <1>4, <1>5, <1>6, <1>7, <1>8, <1>9 DEF HostFits

(* The host whose commit is answered.                                      *)
LEMMA HostAnswered ==
    ASSUME RepositoryInv, NEW w \in Hosts, Committing(w), Grows(db, db'), NEW ok \in BOOLEAN,
           op'[w] = Idle, latest'[w] = latest[w], life'[w] = life[w],
           adapter' = adapter, tries' = tries, accepted \subseteq accepted',
           ok => /\ known'[w] = op[w].commit.checkpoint /\ op[w].commit \in accepted'
                 /\ Known(db', op[w].commit) /\ Entry(db', op[w].commit).digest = op[w].commit.checkpoint,
           ~ok => known'[w] = known[w] /\ db' = db /\ ~(op[w].unknown /\ InLedger(db, op[w].commit.checkpoint))
    PROVE  HostFits(w)'
<1>1. HostFits(w) /\ tries \in Nat /\ op[w].phase \in CommitPhases
  BY DEF RepositoryInv, Committing, CommitPhases
<1> DEFINE c == op[w].commit
<1>2. c = latest[w] /\ CommitFits(c, w, tries)
  BY <1>1 DEF HostFits, OpFits
<1>3. op'[w].phase = "idle"
  BY DEF Idle
<1>4. OpFits(w)' /\ LockFits(w)' /\ QuietFits(w)'
  BY <1>3 DEF OpFits, LockFits, QuietFits, CommitPhases
<1> HIDE DEF c
<1>5. KnownFits(w)'
  <2>1. CASE ok
    BY <2>1 DEF KnownFits, InLedger, Known, Entry
  <2>2. CASE ~ok
    <3>1. op[w].phase # "damaged"
      BY <1>1 DEF CommitPhases
    <3> QED
      BY <1>1, <2>2, <3>1 DEF HostFits, KnownFits
  <2> QED
    BY <2>1, <2>2
<1>6. LatestFits(w)'
  BY <1>1 DEF HostFits, LatestFits
<1>7. OwnFits(w)'
  <2> SUFFICES ASSUME CommandsInOrder, latest[w] # None, Id(latest[w]) \in DOMAIN db'.ledger
               PROVE  [latest[w] EXCEPT !.checkpoint = db'.ledger[Id(latest[w])].digest] \in accepted'
    BY DEF OwnFits, Known, Entry
  <2>1. CASE ok
    <3>1. db'.ledger[Id(c)].digest = c.checkpoint /\ c \in accepted'
      BY <2>1 DEF Entry, c
    <3>2. [c EXCEPT !.checkpoint = c.checkpoint] = c
      BY <1>2 DEF CommitFits
    <3> QED
      BY <1>2, <3>1, <3>2
  <2>2. CASE ~ok
    <3>1. ~(op[w].unknown /\ db.ledger[Id(c)].digest = c.checkpoint)
      BY <1>2, <2>2 DEF InLedger, c
    <3> QED
      BY <1>1, <1>2, <2>2, <3>1 DEF HostFits, OwnFits, Known, Entry
  <2> QED
    BY <2>1, <2>2
<1> QED
  BY <1>4, <1>5, <1>6, <1>7 DEF HostFits

-----------------------------------------------------------------------------
(* A step of one host.                                                     *)
LEMMA Excepted ==
    ASSUME NEW S, NEW f, f = [v \in S |-> f[v]], NEW w \in S, NEW x, NEW g, g = [f EXCEPT ![w] = x]
    PROVE  g = [v \in S |-> g[v]] /\ g[w] = x /\ \A v \in S \ {w} : g[v] = f[v]
OBVIOUS

Frame(w) ==
    /\ op' = [v \in Hosts |-> op'[v]] /\ known' = [v \in Hosts |-> known'[v]]
    /\ latest' = [v \in Hosts |-> latest'[v]] /\ life' = [v \in Hosts |-> life'[v]]
    /\ \A v \in Hosts \ {w} :
           op'[v] = op[v] /\ known'[v] = known[v] /\ latest'[v] = latest[v] /\ life'[v] = life[v]
    /\ adapter' = adapter

LEMMA OneHost ==
    ASSUME RepositoryInv, NEW w \in Hosts, Frame(w), tries' \in Nat, tries <= tries',
           accepted \subseteq accepted',
           \/ db' = db
           \/ Committing(w) /\ New(db, op[w].commit) /\ db' = Publish(db, op[w].commit),
           \A v \in Hosts \ {w} : op[v].phase \in {"locked", "gap"} => lock' = lock /\ db' = db,
           HostFits(w)', LostFits', SessionFits', LateFits'
    PROVE  RepositoryInv'
<1>1. \A v \in Hosts : HostFits(v)
  BY DEF RepositoryInv
<1>2. Committing(w) => CommitFits(op[w].commit, w, tries)
  BY <1>1 DEF HostFits, OpFits, Committing, CommitPhases
<1>3. DbMoves
  BY <1>2 DEF DbMoves
<1>4. DbFits(db', tries') /\ Grows(db, db')
  BY <1>3, DbStep
<1>5. ASSUME NEW v \in Hosts \ {w} PROVE HostFits(v)'
  <2>1. OwnLands(v)
    <3> SUFFICES ASSUME latest[v] # None, Id(latest[v]) \in DOMAIN db'.ledger \ DOMAIN db.ledger
                 PROVE  FALSE
      BY DEF OwnLands
    <3>1. db' = Publish(db, op[w].commit) /\ New(db, op[w].commit) /\ Committing(w)
      OBVIOUS
    <3>2. DOMAIN Publish(db, op[w].commit).ledger = {Id(op[w].commit)} \cup DOMAIN db.ledger
      BY <3>1, Published DEF New
    <3>3. Id(latest[v]) = Id(op[w].commit)
      BY <3>1, <3>2
    <3>4. CommitFits(latest[v], v, tries)
      BY <1>1 DEF HostFits, LatestFits
    <3>5. IdOf(Id(latest[v]), v, tries) /\ IdOf(Id(latest[v]), w, tries)
      BY <1>2, <3>1, <3>3, <3>4 DEF CommitFits
    <3> QED
      BY <3>5 DEF IdOf
  <2> QED
    BY <1>4, <2>1, HostOther DEF Frame
<1>6. \A v \in Hosts : HostFits(v)'
  BY <1>5
<1> QED
  BY <1>4, <1>6 DEF RepositoryInv, Frame

-----------------------------------------------------------------------------
(* What a step of the repositories is to the chain they stand for.         *)
ChainStep == [Abstract!Next]_<<Chain, Open, accepted>>

KeepsPromise == RepositoryInv' /\ (CommandsInOrder => ChainStep)

Takes(w) == Committing(w) /\ New(db, op[w].commit) /\ db' = Publish(db, op[w].commit)

LEMMA ChainIs == Chain = ChainOf(db)
BY DEF Chain, Ledger, ChainOf, LedgerOf

SameCall(v) == (Committing(v)' <=> Committing(v)) /\ (Committing(v) => Attempt(v)' = Attempt(v))

LEMMA OpenSame == ASSUME lost' = lost, \A v \in Hosts : SameCall(v) PROVE Open' = Open
<1>1. {v \in Hosts : Committing(v)}' = {v \in Hosts : Committing(v)}
  BY DEF SameCall
<1>2. {Attempt(w) : w \in {v \in Hosts : Committing(v)}}' = {Attempt(w) : w \in {v \in Hosts : Committing(v)}}
  BY <1>1 DEF SameCall
<1> QED
  BY <1>2 DEF Open

LEMMA OpenFacts ==
    ASSUME RepositoryInv, NEW w \in Hosts, Committing(w)
    PROVE  /\ Attempt(w) \in Open /\ Attempt(w) \notin lost /\ Attempt(w).who = w
           /\ Attempt(w).commit = op[w].commit /\ CommitFits(op[w].commit, w, tries)
<1>1. HostFits(w) /\ op[w].phase \in CommitPhases
  BY DEF RepositoryInv, Committing, CommitPhases
<1>2. op[w].commit = latest[w] /\ CommitFits(op[w].commit, w, tries)
  BY <1>1 DEF HostFits, OpFits
<1>3. latest[w] # None
  <2>1. "rev" \notin DOMAIN op[w].commit
    BY <1>2 DEF CommitFits
  <2>2. "rev" \in DOMAIN None
    BY DEF None
  <2> QED
    BY <1>2, <2>1, <2>2
<1>4. Attempt(w).who = w /\ Attempt(w).commit = op[w].commit
  BY DEF Attempt
<1>5. Attempt(w) \notin lost
  BY <1>2, <1>3, <1>4 DEF RepositoryInv, LostFits
<1>6. Attempt(w) \in Open
  BY DEF Open
<1> QED
  BY <1>2, <1>4, <1>5, <1>6

LEMMA OpenAnswered ==
    ASSUME RepositoryInv, NEW w \in Hosts, Committing(w), op'[w] = Idle, lost' = lost,
           \A v \in Hosts \ {w} : SameCall(v)
    PROVE  Open' = Open \ {Attempt(w)}
<1>1. ~Committing(w)'
  BY DEF Committing, Idle
<1>2. \A v \in Hosts \ {w} : Attempt(v) # Attempt(w)
  <2> SUFFICES ASSUME NEW v \in Hosts \ {w} PROVE Attempt(v).who # Attempt(w).who
    OBVIOUS
  <2> QED
    BY DEF Attempt
<1>3. {v \in Hosts : Committing(v)}' = {v \in Hosts : Committing(v)} \ {w}
  BY <1>1 DEF SameCall
<1>4. {Attempt(x) : x \in {v \in Hosts : Committing(v)}}' =
          {Attempt(x) : x \in {v \in Hosts : Committing(v)}} \ {Attempt(w)}
  BY <1>2, <1>3 DEF SameCall
<1> QED
  BY <1>4, OpenFacts DEF Open

LEMMA Lands ==
    ASSUME RepositoryInv, NEW a \in Open, NEW w \in Hosts, CommitFits(a.commit, w, tries),
           New(db, a.commit), db' = Publish(db, a.commit)
    PROVE  Abstract!Lands(a)
<1>1. DbFits(db, tries) /\ tries \in Nat
  BY DEF RepositoryInv
<1>2. Abstract!Continues(a.commit)
  BY <1>1, NewContinues, ChainIs DEF Abstract!Continues
<1>3. Chain' = ChainOf(db')
  BY DEF Chain, Ledger, ChainOf, LedgerOf
<1>4. Chain' = Append(Chain, a.commit.checkpoint)
  BY <1>1, <1>3, ChainGrows, ChainIs
<1> QED
  BY <1>2, <1>4 DEF Abstract!Lands

LEMMA Landed ==
    ASSUME RepositoryInv, NEW c
    PROVE  Abstract!Landed(c) <=> InLedger(db, c.checkpoint)
BY InChain, ChainIs DEF RepositoryInv, Abstract!Landed

LEMMA ChainStays == ASSUME db' = db PROVE Chain' = Chain
BY DEF Chain, Ledger

(* A step that answers nobody.                                             *)
LEMMA Unanswered ==
    ASSUME RepositoryInv, Open' = Open, accepted' = accepted,
           db' = db \/ \E a \in Open : \E w \in Hosts :
                           CommitFits(a.commit, w, tries) /\ New(db, a.commit) /\ db' = Publish(db, a.commit)
    PROVE  ChainStep
<1>1. CASE db' = db
  BY <1>1, ChainStays DEF ChainStep
<1>2. ASSUME NEW a \in Open, NEW w \in Hosts, CommitFits(a.commit, w, tries), New(db, a.commit),
             db' = Publish(db, a.commit)
      PROVE  ChainStep
  <2>1. Abstract!Land(a)
    BY <1>2, Lands DEF Abstract!Land
  <2> QED
    BY <2>1 DEF ChainStep, Abstract!Next
<1> QED
  BY <1>1, <1>2

(* What is not there is refused, or what an earlier call was told of.      *)
LEMMA Refused ==
    ASSUME RepositoryInv, CommandsInOrder, NEW w \in Hosts, Committing(w), db' = db, accepted' = accepted,
           Open' = Open \ {Attempt(w)}, ~(op[w].unknown /\ InLedger(db, op[w].commit.checkpoint))
    PROVE  ChainStep
<1> DEFINE c == op[w].commit
<1>1. Attempt(w) \in Open /\ Attempt(w).commit = c /\ CommitFits(c, w, tries)
  BY OpenFacts
<1>2. InLedger(db, c.checkpoint) => c \in accepted
  <2> SUFFICES ASSUME InLedger(db, c.checkpoint) PROVE c \in accepted
    OBVIOUS
  <2>1. Known(db, c) /\ Entry(db, c).digest = c.checkpoint
    BY <1>1, Existing DEF RepositoryInv
  <2>2. HostFits(w) /\ op[w].phase \in CommitPhases
    BY DEF RepositoryInv, Committing, CommitPhases
  <2>3. c = latest[w]
    BY <2>2 DEF HostFits, OpFits
  <2>4. latest[w] # None
    <3>1. "rev" \notin DOMAIN c
      BY <1>1 DEF CommitFits
    <3>2. "rev" \in DOMAIN None
      BY DEF None
    <3> QED
      BY <2>3, <3>1, <3>2
  <2> HIDE DEF c
  <2>5. [c EXCEPT !.checkpoint = c.checkpoint] \in accepted
    BY <2>1, <2>2, <2>3, <2>4 DEF HostFits, OwnFits, c
  <2>6. [c EXCEPT !.checkpoint = c.checkpoint] = c
    BY <1>1 DEF CommitFits
  <2> QED
    BY <2>5, <2>6
<1>3. Abstract!Refuse(Attempt(w))
  BY <1>1, <1>2, Landed, ChainStays DEF Abstract!Refuse
<1> QED
  BY <1>1, <1>3 DEF ChainStep, Abstract!Next

LEMMA Accepted ==
    ASSUME RepositoryInv, NEW w \in Hosts, Committing(w), accepted' = accepted \cup {op[w].commit},
           Open' = Open \ {Attempt(w)}, db' = db \/ Takes(w),
           Takes(w) \/ InLedger(db, op[w].commit.checkpoint)
    PROVE  ChainStep
<1>1. Attempt(w) \in Open /\ Attempt(w).commit = op[w].commit /\ CommitFits(op[w].commit, w, tries)
  BY OpenFacts
<1>2. CASE Takes(w)
  <2>1. Abstract!LandAndAccept(Attempt(w))
    BY <1>1, <1>2, Lands DEF Takes, Abstract!LandAndAccept
  <2> QED
    BY <1>1, <2>1 DEF ChainStep, Abstract!Next
<1>3. CASE ~Takes(w)
  <2>1. Abstract!Accept(Attempt(w))
    BY <1>1, <1>3, Landed, ChainStays DEF Abstract!Accept
  <2> QED
    BY <1>1, <2>1 DEF ChainStep, Abstract!Next
<1> QED
  BY <1>2, <1>3

LEMMA FrameCalls == ASSUME NEW w \in Hosts, Frame(w) PROVE \A v \in Hosts \ {w} : SameCall(v)
BY DEF Frame, SameCall, Committing, Attempt

(* The servers have what they had; whoever waits for it still does.        *)
StillWaits(w) ==
    /\ (~IsNone(session) /\ Waits(w) /\ op[w].phase = "retry") =>
           Waits(w)' /\ op'[w].phase = "retry" /\ op'[w].commit = op[w].commit
    /\ (CommandsInOrder /\ Attempt(w) \in late /\ Waits(w) /\ op[w].phase = "probe") =>
           Waits(w)' /\ op'[w].phase = "probe" /\ op'[w].commit = op[w].commit /\ op'[w].try = op[w].try

LEMMA ServersStay ==
    ASSUME RepositoryInv, NEW w \in Hosts, Frame(w), tries' \in Nat, tries <= tries',
           lost' = lost, session' = session, late' = late, StillWaits(w),
           IsNone(session) \/ (lock' = lock /\ db' = db)
    PROVE  SessionFits' /\ LateFits'
<1>1. SessionFits'
  <2> SUFFICES ASSUME ~IsNone(session)
               PROVE  \/ \E a \in lost : a.commit = session.commit
                      \/ \E v \in Hosts : (Waits(v) /\ op[v].phase = "retry" /\ op[v].commit = session.commit)'
    BY DEF RepositoryInv, SessionFits, Frame
  <2>1. CASE \E a \in lost : a.commit = session.commit
    BY <2>1
  <2>2. ASSUME NEW v \in Hosts, Waits(v), op[v].phase = "retry", op[v].commit = session.commit
        PROVE  (Waits(v) /\ op[v].phase = "retry" /\ op[v].commit = session.commit)'
    <3>1. CASE v = w
      BY <2>2, <3>1 DEF StillWaits
    <3>2. CASE v # w
      BY <2>2, <3>2 DEF Frame, Waits, Committing
    <3> QED
      BY <3>1, <3>2
  <2> QED
    BY <2>1, <2>2 DEF RepositoryInv, SessionFits
<1>2. LateFits'
  <2> SUFFICES ASSUME NEW a \in late
               PROVE  /\ adapter \in Redis /\ a.who \in Hosts /\ CommitFits(a.commit, a.who, tries')
                      /\ CommandsInOrder =>
                             a \in lost \/ \E v \in Hosts : (Waits(v) /\ op[v].phase = "probe" /\ a = Attempt(v))'
    BY DEF LateFits, Frame
  <2>1. /\ adapter \in Redis /\ a.who \in Hosts /\ CommitFits(a.commit, a.who, tries)
        /\ CommandsInOrder => a \in lost \/ \E v \in Hosts : Waits(v) /\ op[v].phase = "probe" /\ a = Attempt(v)
    BY DEF RepositoryInv, LateFits
  <2>2. CommitFits(a.commit, a.who, tries')
    BY <2>1, CommitLater DEF RepositoryInv
  <2>3. ASSUME CommandsInOrder, NEW v \in Hosts, Waits(v), op[v].phase = "probe", a = Attempt(v)
        PROVE  (Waits(v) /\ op[v].phase = "probe" /\ a = Attempt(v))'
    <3>1. CASE v = w
      BY <2>3, <3>1 DEF StillWaits, Attempt
    <3>2. CASE v # w
      BY <2>3, <3>2 DEF Frame, Waits, Committing, Attempt
    <3> QED
      BY <3>1, <3>2
  <2> QED
    BY <2>1, <2>2, <2>3
<1> QED
  BY <1>1, <1>2

LEMMA LostStays ==
    ASSUME RepositoryInv, NEW w \in Hosts, Frame(w), latest'[w] = latest[w], tries' = tries, lost' = lost
    PROVE  LostFits'
<1>1. \A v \in Hosts : latest'[v] = latest[v]
  BY DEF Frame
<1> QED
  BY <1>1 DEF RepositoryInv, LostFits

(* Whoever is answered or goes on does not leave a server with its commit. *)
Settles(w) ==
    /\ IsNone(session) \/ ~(Waits(w) /\ op[w].phase = "retry")
    /\ ~(CommandsInOrder /\ Attempt(w) \in late /\ Waits(w) /\ op[w].phase = "probe")

OthersKeepLocks(w) ==
    \A v \in Hosts \ {w} : op[v].phase \in {"locked", "gap"} => lock' = lock /\ db' = db

LEMMA Answering ==
    ASSUME RepositoryInv, NEW w \in Hosts, Committing(w), NEW ok \in BOOLEAN,
           op' = [op EXCEPT ![w] = Idle], UNCHANGED <<adapter, latest, life, tries, lost>>,
           accepted' = IF ok THEN accepted \cup {op[w].commit} ELSE accepted,
           known' = IF ok THEN [known EXCEPT ![w] = op[w].commit.checkpoint] ELSE known,
           UNCHANGED <<session, late>>, db' = db \/ Takes(w), OthersKeepLocks(w),
           IsNone(session) \/ (lock' = lock /\ db' = db), Settles(w),
           ok => Takes(w) \/ InLedger(db, op[w].commit.checkpoint),
           ~ok => db' = db /\ ~(op[w].unknown /\ InLedger(db, op[w].commit.checkpoint))
    PROVE  KeepsPromise
<1>1. /\ op = [v \in Hosts |-> op[v]] /\ known = [v \in Hosts |-> known[v]]
      /\ latest = [v \in Hosts |-> latest[v]] /\ life = [v \in Hosts |-> life[v]]
      /\ tries \in Nat /\ DbFits(db, tries) /\ HostFits(w)
  BY DEF RepositoryInv
<1>2. Frame(w) /\ op'[w] = Idle
  <2>1. op' = [v \in Hosts |-> op'[v]] /\ op'[w] = Idle /\ \A v \in Hosts \ {w} : op'[v] = op[v]
    BY <1>1, Excepted
  <2>2. known' = [v \in Hosts |-> known'[v]] /\ \A v \in Hosts \ {w} : known'[v] = known[v]
    <3>1. CASE ok
      <4> DEFINE x == op[w].commit.checkpoint
      <4>1. known' = [known EXCEPT ![w] = x]
        BY <3>1
      <4> HIDE DEF x
      <4> QED
        BY <1>1, <4>1, Excepted
    <3>2. CASE ~ok
      BY <1>1, <3>2
    <3> QED
      BY <3>1, <3>2
  <2> QED
    BY <1>1, <2>1, <2>2 DEF Frame
<1>3. CommitFits(op[w].commit, w, tries) /\ op[w].commit = latest[w]
  BY <1>1 DEF HostFits, OpFits, Committing, CommitPhases
<1>4. DbFits(db', tries) /\ Grows(db, db')
  <2>1. DbMoves
    BY <1>3 DEF DbMoves, Takes
  <2>2. tries' \in Nat /\ tries <= tries'
    BY <1>1
  <2> QED
    BY <2>1, <2>2, DbStep
<1>5. ok => Known(db', op[w].commit) /\ Entry(db', op[w].commit).digest = op[w].commit.checkpoint
  <2>1. CASE Takes(w)
    <3>1. db' = Publish(db, op[w].commit) /\ ~Known(db, op[w].commit)
      BY <2>1 DEF Takes, New
    <3>2. /\ DOMAIN Publish(db, op[w].commit).ledger = {Id(op[w].commit)} \cup DOMAIN db.ledger
          /\ Publish(db, op[w].commit).ledger[Id(op[w].commit)] =
                 [rev |-> op[w].commit.checkpoint.rev, digest |-> op[w].commit.checkpoint]
      BY <3>1, Published
    <3> QED
      BY <3>1, <3>2 DEF Known, Entry
  <2>2. CASE ~Takes(w)
    <3>1. ok => InLedger(db', op[w].commit.checkpoint)
      BY <2>2
    <3> QED
      BY <1>1, <1>3, <1>4, <3>1, Existing
  <2> QED
    BY <2>1, <2>2
<1>6. HostFits(w)'
  <2>1. latest'[w] = latest[w] /\ life'[w] = life[w] /\ accepted \subseteq accepted'
        /\ adapter' = adapter /\ tries' = tries
    OBVIOUS
  <2>2. ok => known'[w] = op[w].commit.checkpoint /\ op[w].commit \in accepted'
    <3> DEFINE x == op[w].commit.checkpoint
    <3>1. ok => known' = [known EXCEPT ![w] = x]
      OBVIOUS
    <3> HIDE DEF x
    <3>2. ok => known'[w] = x
      BY <1>1, <3>1, Excepted
    <3> QED
      BY <3>2 DEF x
  <2>3. ~ok => known'[w] = known[w]
    OBVIOUS
  <2> QED
    BY <1>2, <1>4, <1>5, <2>1, <2>2, <2>3, HostAnswered
<1>7. StillWaits(w)
  BY DEF Settles, StillWaits
<1>8. tries' \in Nat /\ tries <= tries' /\ accepted \subseteq accepted'
  BY <1>1
<1>9. SessionFits' /\ LateFits' /\ LostFits'
  <2>1. latest'[w] = latest[w] /\ tries' = tries /\ lost' = lost /\ session' = session /\ late' = late
    OBVIOUS
  <2> QED
    BY <1>2, <1>7, <1>8, <2>1, ServersStay, LostStays
<1>10. RepositoryInv'
  BY <1>2, <1>6, <1>8, <1>9, OneHost DEF Takes, OthersKeepLocks
<1>11. Open' = Open \ {Attempt(w)}
  <2>1. \A v \in Hosts \ {w} : SameCall(v)
    BY <1>2, FrameCalls
  <2>2. lost' = lost
    OBVIOUS
  <2> QED
    BY <1>2, <2>1, <2>2, OpenAnswered
<1>12. CASE ok
  <2>1. accepted' = accepted \cup {op[w].commit}
    BY <1>12
  <2> QED
    BY <1>10, <1>11, <1>12, <2>1, Accepted DEF KeepsPromise
<1>13. CASE ~ok
  <2>1. accepted' = accepted
    BY <1>13
  <2> QED
    BY <1>10, <1>11, <1>13, <2>1, Refused DEF KeepsPromise
<1> QED
  BY <1>12, <1>13

(* A commit that goes on.                                                  *)
MoveFits(w, p, u) ==
    /\ p \in {"probe", "eval"} <=> adapter \in Redis
    /\ p \in {"gap", "retry"} => adapter = "mysql"
    /\ p = "locked" => adapter \in {"sqlite", "mysql"} /\ lock' = w /\ Taken(db', op[w].commit)
    /\ p = "gap" => lock' = "free" /\ IsNone(db'.head) /\ Taken(db', op[w].commit)
    /\ u => adapter \in Redis \cup {"mysql"} /\ p \notin {"queued", "eval"}
    /\ op[w].unknown /\ ~u => ~Known(db', op[w].commit)
    /\ db' = db \/ u

LEMMA Moving ==
    ASSUME RepositoryInv, NEW w \in Hosts, Committing(w), NEW p \in CommitPhases, NEW u \in BOOLEAN, NEW r,
           op' = [op EXCEPT ![w] = Moved(w, p, u, r)],
           UNCHANGED <<adapter, known, latest, life, tries, lost, accepted>>,
           db' = db \/ Takes(w), OthersKeepLocks(w), MoveFits(w, p, u)
    PROVE  /\ Frame(w) /\ op'[w] = Moved(w, p, u, r)
           /\ SessionFits' /\ LateFits' => KeepsPromise
           /\ (UNCHANGED <<session, late>> /\ StillWaits(w) /\ (IsNone(session) \/ (lock' = lock /\ db' = db)))
                  => KeepsPromise
<1>1. /\ op = [v \in Hosts |-> op[v]] /\ known = [v \in Hosts |-> known[v]]
      /\ latest = [v \in Hosts |-> latest[v]] /\ life = [v \in Hosts |-> life[v]]
      /\ tries \in Nat /\ DbFits(db, tries) /\ HostFits(w)
  BY DEF RepositoryInv
<1>2. Frame(w) /\ op'[w] = Moved(w, p, u, r)
  <2> DEFINE x == Moved(w, p, u, r)
  <2> HIDE DEF x
  <2>1. op' = [op EXCEPT ![w] = x]
    BY DEF x
  <2>2. op' = [v \in Hosts |-> op'[v]] /\ op'[w] = x /\ \A v \in Hosts \ {w} : op'[v] = op[v]
    BY <1>1, <2>1, Excepted
  <2> QED
    BY <1>1, <2>2 DEF Frame, x
<1>3. CommitFits(op[w].commit, w, tries)
  BY <1>1 DEF HostFits, OpFits, Committing, CommitPhases
<1>4. Grows(db, db')
  <2>1. DbMoves
    BY <1>3 DEF DbMoves, Takes
  <2>2. tries' \in Nat /\ tries <= tries'
    BY <1>1
  <2> QED
    BY <2>1, <2>2, DbStep
<1>5. Known(db', op[w].commit) /\ ~Known(db, op[w].commit) =>
          u /\ db'.ledger[Id(op[w].commit)].digest = op[w].commit.checkpoint
  <2> SUFFICES ASSUME Known(db', op[w].commit), ~Known(db, op[w].commit)
               PROVE  u /\ db'.ledger[Id(op[w].commit)].digest = op[w].commit.checkpoint
    OBVIOUS
  <2>1. Takes(w) /\ u
    BY DEF MoveFits
  <2>2. Publish(db, op[w].commit).ledger[Id(op[w].commit)] =
            [rev |-> op[w].commit.checkpoint.rev, digest |-> op[w].commit.checkpoint]
    BY Published
  <2> QED
    BY <2>1, <2>2 DEF Takes
<1>6. HostFits(w)'
  <2>1. /\ known'[w] = known[w] /\ latest'[w] = latest[w] /\ life'[w] = life[w]
        /\ adapter' = adapter /\ tries' = tries /\ accepted' = accepted
    OBVIOUS
  <2> QED
    BY <1>2, <1>4, <1>5, <2>1, HostMoves DEF MoveFits
<1>7. tries' \in Nat /\ tries <= tries' /\ accepted \subseteq accepted' /\ latest'[w] = latest[w]
      /\ tries' = tries /\ lost' = lost
  BY <1>1
<1>8. LostFits'
  BY <1>2, <1>7, LostStays
<1>9. ASSUME SessionFits', LateFits' PROVE KeepsPromise
  <2>1. RepositoryInv'
    BY <1>2, <1>6, <1>7, <1>8, <1>9, OneHost DEF Takes, OthersKeepLocks
  <2>2. SameCall(w)
    BY <1>2 DEF SameCall, Committing, CommitPhases, Moved, Attempt
  <2>3. Open' = Open
    BY <1>2, <1>7, <2>2, FrameCalls, OpenSame
  <2>4. db' = db \/ \E a \in Open : \E v \in Hosts :
                        CommitFits(a.commit, v, tries) /\ New(db, a.commit) /\ db' = Publish(db, a.commit)
    BY OpenFacts DEF Takes
  <2>5. accepted' = accepted
    OBVIOUS
  <2>6. ChainStep
    BY <2>3, <2>4, <2>5, Unanswered
  <2> QED
    BY <2>1, <2>6 DEF KeepsPromise
<1>10. ASSUME UNCHANGED <<session, late>>, StillWaits(w), IsNone(session) \/ (lock' = lock /\ db' = db)
       PROVE  SessionFits' /\ LateFits'
  BY <1>2, <1>7, <1>10, ServersStay
<1> QED
  BY <1>2, <1>9, <1>10

-----------------------------------------------------------------------------
(* Facts the steps of a host begin with.                                   *)
LEMMA HostFacts ==
    ASSUME RepositoryInv, NEW w \in Hosts
    PROVE  /\ HostFits(w) /\ tries \in Nat /\ DbFits(db, tries)
           /\ op[w].phase \in CommitPhases =>
                  /\ Committing(w) /\ CommitFits(op[w].commit, w, tries) /\ op[w].unknown \in BOOLEAN
                  /\ op[w].phase \in {"probe", "eval"} <=> adapter \in Redis
                  /\ op[w].phase \in {"queued", "eval"} => ~op[w].unknown
                  /\ op[w] = Moved(w, op[w].phase, op[w].unknown, op[w].retries)
           /\ w \notin {"free", "session"}
<1>1. HostFits(w) /\ tries \in Nat /\ DbFits(db, tries)
  BY DEF RepositoryInv
<1>2. ASSUME op[w].phase \in CommitPhases
      PROVE  /\ Committing(w) /\ CommitFits(op[w].commit, w, tries) /\ op[w].unknown \in BOOLEAN
             /\ op[w].phase \in {"probe", "eval"} <=> adapter \in Redis
             /\ op[w].phase \in {"queued", "eval"} => ~op[w].unknown
             /\ op[w] = Moved(w, op[w].phase, op[w].unknown, op[w].retries)
  BY <1>1, <1>2 DEF HostFits, OpFits, Committing, CommitPhases, Moved
<1> QED
  BY <1>1, <1>2, RepositoryAssumption

(* Who can be at work beside a host, by what holds the lock.               *)
LEMMA Alone ==
    ASSUME RepositoryInv, NEW w \in Hosts
    PROVE  /\ adapter \notin {"sqlite", "mysql"} => IsNone(session) /\ OthersKeepLocks(w)
           /\ lock = "free" => /\ IsNone(session)
                               /\ \A v \in Hosts : op[v].phase # "locked"
           /\ op[w].phase = "locked" => IsNone(session) /\ lock = w /\ OthersKeepLocks(w)
           /\ op[w].phase = "gap" => IsNone(session) /\ lock = "free"
           /\ lock' = lock /\ db' = db => OthersKeepLocks(w)
<1>1. \A v \in Hosts : /\ OpFits(v) /\ LockFits(v) /\ v \notin {"free", "session"}
  BY RepositoryAssumption DEF RepositoryInv, HostFits
<1>2. \A v \in Hosts : /\ op[v].phase = "locked" => adapter \in {"sqlite", "mysql"} /\ lock = v
                       /\ op[v].phase = "gap" => adapter = "mysql" /\ lock = "free"
  BY <1>1 DEF OpFits, LockFits, CommitPhases
<1>3. ~IsNone(session) => adapter = "mysql" /\ lock = "session"
  BY DEF RepositoryInv, SessionFits
<1> QED
  BY <1>1, <1>2, <1>3 DEF OthersKeepLocks

LEMMA NotInLate ==
    ASSUME RepositoryInv, NEW w \in Hosts, op[w].phase \in CommitPhases
    PROVE  op[w].phase \notin {"retry", "probe"} => Settles(w) /\ StillWaits(w)
BY DEF Settles, StillWaits

(* Memory and ephemeral.                                                   *)
LEMMA InProcessStep == ASSUME RepositoryInv, NEW w \in Hosts, InProcess(w) PROVE KeepsPromise
<1> DEFINE c == op[w].commit
           v == IF adapter = "memory" THEN Verdict(db, c) ELSE EphemeralVerdict(db, c)
<1>1. /\ adapter \in {"memory", "ephemeral"} /\ op[w].phase = "queued"
      /\ db' = IF v = "new" THEN Publish(db, c) ELSE db
      /\ Answered(w, v # "refused") /\ UNCHANGED <<lock, session, late, faults>>
  BY DEF InProcess
<1>2. /\ DbFits(db, tries) /\ tries \in Nat /\ Committing(w) /\ ~op[w].unknown /\ CommitFits(c, w, tries)
  BY <1>1, HostFacts DEF CommitPhases
<1>3. IsNone(session) /\ OthersKeepLocks(w) /\ Settles(w)
  BY <1>1, Alone, NotInLate DEF CommitPhases
<1>4. /\ v = "new" => New(db, c)
      /\ v \notin {"new", "refused"} => Known(db, c) /\ Entry(db, c).digest = c.checkpoint
  BY <1>2, Decided, DecidedElsewhere DEF AcceptsRetry
<1> HIDE DEF v
<1>5. v = "new" => Takes(w)
  BY <1>1, <1>2, <1>4 DEF Takes
<1>6. v \notin {"new", "refused"} => InLedger(db, c.checkpoint)
  BY <1>4 DEF InLedger, Known, Entry
<1> DEFINE ok == v # "refused"
<1>7. /\ ok \in BOOLEAN
      /\ op' = [op EXCEPT ![w] = Idle] /\ UNCHANGED <<adapter, latest, life, tries, lost, session, late>>
      /\ accepted' = IF ok THEN accepted \cup {op[w].commit} ELSE accepted
      /\ known' = IF ok THEN [known EXCEPT ![w] = op[w].commit.checkpoint] ELSE known
      /\ db' = db \/ Takes(w)
      /\ ok => Takes(w) \/ InLedger(db, op[w].commit.checkpoint)
      /\ ~ok => db' = db /\ ~(op[w].unknown /\ InLedger(db, op[w].commit.checkpoint))
  BY <1>1, <1>2, <1>5, <1>6 DEF Answered
<1> HIDE DEF ok
<1> QED
  BY <1>2, <1>3, <1>7, Answering

LEMMA AnsweredStep ==
    ASSUME RepositoryInv, NEW w \in Hosts, Committing(w), NEW ok \in BOOLEAN, Answered(w, ok),
           UNCHANGED <<session, late>>, db' = db \/ Takes(w), OthersKeepLocks(w),
           IsNone(session) \/ (lock' = lock /\ db' = db), Settles(w),
           ok => Takes(w) \/ InLedger(db, op[w].commit.checkpoint),
           ~ok => db' = db /\ ~(op[w].unknown /\ InLedger(db, op[w].commit.checkpoint))
    PROVE  KeepsPromise
<1>1. /\ op' = [op EXCEPT ![w] = Idle] /\ UNCHANGED <<adapter, latest, life, tries, lost>>
      /\ accepted' = IF ok THEN accepted \cup {op[w].commit} ELSE accepted
      /\ known' = IF ok THEN [known EXCEPT ![w] = op[w].commit.checkpoint] ELSE known
  BY DEF Answered
<1> QED
  BY <1>1, Answering

(* Letting go of the lock takes it from nobody else.                       *)
LEMMA Releases ==
    ASSUME RepositoryInv, NEW w \in Hosts, db' = db, lock' = lock \/ (lock = w /\ lock' = "free")
    PROVE  OthersKeepLocks(w) /\ (IsNone(session) \/ (lock' = lock /\ db' = db))
<1>1. CASE lock' = lock
  BY <1>1 DEF OthersKeepLocks
<1>2. CASE lock = w
  <2>1. \A v \in Hosts \ {w} : LockFits(v) /\ w # "free" /\ w # "session"
    BY HostFacts DEF HostFits, RepositoryInv
  <2>2. \A v \in Hosts \ {w} : op[v].phase \notin {"locked", "gap"}
    BY <1>2, <2>1 DEF LockFits
  <2>3. IsNone(session)
    BY <1>2, HostFacts DEF RepositoryInv, SessionFits
  <2> QED
    BY <2>2, <2>3 DEF OthersKeepLocks
<1> QED
  BY <1>1, <1>2

(* A commit that fails before anything was written.                        *)
LEMMA RaisedStep ==
    ASSUME RepositoryInv, NEW w \in Hosts, op[w].phase \in CommitPhases,
           ~op[w].unknown, Answered(w, FALSE), UNCHANGED <<db, session, late>>,
           lock' = lock \/ (lock = w /\ lock' = "free")
    PROVE  KeepsPromise
<1>1. Committing(w)
  BY HostFacts
<1>2. Settles(w)
  BY <1>1 DEF Settles, Waits
<1>3. OthersKeepLocks(w) /\ (IsNone(session) \/ (lock' = lock /\ db' = db))
  BY Releases
<1> QED
  BY <1>1, <1>2, <1>3, AnsweredStep

LEMMA OnlyPhase ==
    ASSUME RepositoryInv, NEW w \in Hosts, op[w].phase \in CommitPhases, NEW p
    PROVE  [op[w] EXCEPT !.phase = p] = Moved(w, p, op[w].unknown, op[w].retries)
<1> DEFINE o == op[w]
<1>1. o = [phase |-> o.phase, commit |-> o.commit, try |-> o.try, retries |-> o.retries, unknown |-> o.unknown]
  BY HostFacts DEF Moved
<1> HIDE DEF o
<1>2. [o EXCEPT !.phase = p] = [phase |-> p, commit |-> o.commit, try |-> o.try,
                                 retries |-> o.retries, unknown |-> o.unknown]
  BY <1>1
<1> QED
  BY <1>2 DEF Moved, o

(* A commit under the lock, and its answer.                                *)
LEMMA WrittenUnderLock ==
    ASSUME RepositoryInv, NEW w \in Hosts, op[w].phase = "locked", db' = Written(op[w].commit)
    PROVE  Takes(w) \/ (db' = db /\ InLedger(db, op[w].commit.checkpoint))
<1>1. Taken(db, op[w].commit) /\ Committing(w)
  BY HostFacts DEF HostFits, LockFits, CommitPhases
<1> QED
  BY <1>1 DEF Written, Taken, New, Takes, AcceptsRetry, Entry, InLedger, Known

LEMMA CommittedStep ==
    ASSUME RepositoryInv, NEW w \in Hosts, op[w].phase = "locked", db' = Written(op[w].commit),
           Answered(w, TRUE), UNCHANGED <<session, late>>
    PROVE  KeepsPromise
<1>1. Committing(w) /\ Settles(w)
  BY HostFacts, NotInLate DEF CommitPhases
<1>2. IsNone(session) /\ OthersKeepLocks(w)
  BY Alone
<1>3. Takes(w) \/ (db' = db /\ InLedger(db, op[w].commit.checkpoint))
  BY WrittenUnderLock
<1> QED
  BY <1>1, <1>2, <1>3, AnsweredStep

(* SQLite.                                                                 *)
LEMMA SqliteStep ==
    ASSUME RepositoryInv, NEW w \in Hosts,
           Withdraw(w) \/ SqliteBegin(w) \/ SqliteBusy(w) \/ SqliteCommit(w) \/ SqliteFails(w)
    PROVE  KeepsPromise
<1> DEFINE c == op[w].commit
<1>0. /\ op[w].phase \in CommitPhases /\ op[w].phase \in {"queued", "locked"}
      /\ adapter \in {"sqlite", "mysql"} /\ DbFits(db, tries) /\ tries \in Nat
  BY HostFacts DEF Withdraw, SqliteBegin, SqliteBusy, SqliteCommit, SqliteFails, CommitPhases
<1>1. /\ Committing(w) /\ CommitFits(c, w, tries) /\ Settles(w) /\ StillWaits(w)
      /\ op[w].unknown \in BOOLEAN
      /\ adapter = "sqlite" \/ op[w].phase = "queued" => ~op[w].unknown
  <2>1. HostFits(w)
    BY HostFacts
  <2> QED
    BY <1>0, <2>1, HostFacts, NotInLate DEF HostFits, OpFits, Redis
<1>2. CASE Withdraw(w)
  BY <1>0, <1>1, <1>2, RaisedStep DEF Withdraw, stored
<1>3. CASE SqliteBegin(w)
  <2>1. adapter = "sqlite" /\ op[w].phase = "queued" /\ lock = "free" /\ UNCHANGED <<db, session, late, faults>>
    BY <1>3 DEF SqliteBegin
  <2>2. CASE Verdict(db, c) = "refused"
    BY <1>0, <1>1, <1>3, <2>1, <2>2, RaisedStep DEF SqliteBegin
  <2>3. CASE Verdict(db, c) # "refused"
    <3>1. Goes(w, "locked") /\ lock' = w
      BY <1>3, <2>3 DEF SqliteBegin
    <3>2. op' = [op EXCEPT ![w] = Moved(w, "locked", op[w].unknown, op[w].retries)]
          /\ UNCHANGED <<adapter, known, latest, life, tries, lost, accepted>>
      <4>1. op' = [op EXCEPT ![w] = [op[w] EXCEPT !.phase = "locked"]]
        BY <3>1 DEF Goes
      <4> QED
        BY <1>0, <3>1, <4>1, OnlyPhase DEF Goes, hosts, past
    <3>3. Taken(db, c)
      BY <1>0, <2>3, Decided
    <3>4. OthersKeepLocks(w) /\ IsNone(session)
      <4>1. \A v \in Hosts : op[v].phase # "gap"
        BY <2>1 DEF RepositoryInv, HostFits, OpFits, CommitPhases
      <4> QED
        BY <2>1, <4>1, Alone DEF OthersKeepLocks
    <3>5. MoveFits(w, "locked", op[w].unknown)
      BY <1>1, <2>1, <3>1, <3>3 DEF MoveFits, Redis
    <3> QED
      BY <1>1, <2>1, <3>2, <3>4, <3>5, Moving DEF CommitPhases
  <2> QED
    BY <2>2, <2>3
<1>4. CASE SqliteBusy(w)
  BY <1>0, <1>1, <1>4, RaisedStep DEF SqliteBusy, stored
<1>5. CASE SqliteFails(w)
  <2>1. lock = w
    BY <1>5, Alone DEF SqliteFails
  <2> QED
    BY <1>0, <1>1, <1>5, <2>1, RaisedStep DEF SqliteFails
<1>6. CASE SqliteCommit(w)
  BY <1>0, <1>6, CommittedStep DEF SqliteCommit
<1> QED
  BY <1>2, <1>3, <1>4, <1>5, <1>6

LEMMA MovedStep ==
    ASSUME RepositoryInv, NEW w \in Hosts, op[w].phase \in CommitPhases, NEW p \in CommitPhases,
           NEW u \in BOOLEAN, NEW r, op' = [op EXCEPT ![w] = Moved(w, p, u, r)],
           UNCHANGED <<adapter, hosts, life, past>>,
           UNCHANGED <<session, late>>, db' = db \/ Takes(w), OthersKeepLocks(w), MoveFits(w, p, u),
           op[w].unknown => IsNone(session) \/ op[w].phase # "retry" \/ (p = "retry" /\ u),
           op[w].phase = "probe" /\ op[w].unknown /\ CommandsInOrder =>
               Attempt(w) \notin late \/ (p = "probe" /\ u),
           IsNone(session) \/ (lock' = lock /\ db' = db)
    PROVE  KeepsPromise
<1>1. Committing(w) /\ UNCHANGED <<adapter, known, latest, life, tries, lost, accepted>>
  BY HostFacts DEF hosts, past
<1>2. Frame(w) /\ op'[w] = Moved(w, p, u, r)
      /\ (StillWaits(w) => KeepsPromise)
  BY <1>1, Moving
<1>3. StillWaits(w)
  <2>1. op'[w].phase = p /\ op'[w].unknown = u /\ op'[w].commit = op[w].commit /\ op'[w].try = op[w].try
    BY <1>2 DEF Moved
  <2>2. (Waits(w)' <=> Committing(w)' /\ u) /\ (p \in {"retry", "probe"} => Committing(w)')
    BY <2>1 DEF Waits, Committing
  <2> QED
    BY <2>1, <2>2 DEF StillWaits, Waits
<1> QED
  BY <1>2, <1>3

LEMMA GoesStep ==
    ASSUME RepositoryInv, NEW w \in Hosts, op[w].phase \in CommitPhases, NEW p \in CommitPhases,
           Goes(w, p), UNCHANGED <<db, session, late>>, OthersKeepLocks(w), MoveFits(w, p, op[w].unknown),
           op[w].phase \notin {"retry", "probe"} \/ p = op[w].phase \/ ~op[w].unknown \/
               (IsNone(session) /\ op[w].phase # "probe"),
           IsNone(session) \/ lock' = lock
    PROVE  KeepsPromise
<1> DEFINE u == op[w].unknown
           r == op[w].retries
<1>1. op' = [op EXCEPT ![w] = Moved(w, p, u, r)]
  <2>1. op' = [op EXCEPT ![w] = [op[w] EXCEPT !.phase = p]]
    BY DEF Goes
  <2> QED
    BY <2>1, OnlyPhase
<1>2. u \in BOOLEAN /\ UNCHANGED <<adapter, hosts, life, past>> /\ MoveFits(w, p, u)
  BY HostFacts DEF Goes
<1>3. /\ op[w].unknown => IsNone(session) \/ op[w].phase # "retry" \/ (p = "retry" /\ u)
      /\ op[w].phase = "probe" /\ op[w].unknown /\ CommandsInOrder => Attempt(w) \notin late \/ (p = "probe" /\ u)
  OBVIOUS
<1> HIDE DEF u, r
<1> QED
  BY <1>1, <1>2, <1>3, MovedStep

(* What is stored already is never refused.                                *)
LEMMA RefusedIsAbsent ==
    ASSUME RepositoryInv, NEW w \in Hosts, op[w].phase \in CommitPhases,
           ~(Known(db, op[w].commit) /\ AcceptsRetry(db, op[w].commit))
    PROVE  ~InLedger(db, op[w].commit.checkpoint)
BY HostFacts, Existing

(* MySQL.                                                                  *)
LEMMA MysqlLockStep ==
    ASSUME RepositoryInv, NEW w \in Hosts, MysqlLockHead(w) \/ MysqlInsert(w)
    PROVE  KeepsPromise
<1> DEFINE c == op[w].commit
<1>0. /\ op[w].phase \in CommitPhases /\ op[w].phase \in {"queued", "retry", "gap"} /\ adapter = "mysql"
      /\ UNCHANGED <<db, session, late>>
  BY DEF MysqlLockHead, MysqlInsert, Ordinary, CommitPhases
<1>1. /\ DbFits(db, tries) /\ tries \in Nat /\ Committing(w) /\ CommitFits(c, w, tries)
      /\ op[w].unknown \in BOOLEAN
  BY <1>0, HostFacts
<1>2. lock = "free" /\ IsNone(session) /\ \A v \in Hosts : op[v].phase # "locked"
  BY Alone DEF MysqlLockHead, MysqlInsert
<1>3. Settles(w)
  BY <1>0, <1>2 DEF Settles
<1>4. CASE MysqlLockHead(w) /\ Verdict(db, c) = "refused"
  <2>1. Answered(w, FALSE) /\ lock' = lock
    BY <1>4 DEF MysqlLockHead
  <2>2. ~InLedger(db, c.checkpoint)
    <3>1. ~Taken(db, c)
      BY <1>1, <1>4, Decided
    <3> QED
      BY <1>0, <3>1, RefusedIsAbsent DEF Taken
  <2> QED
    BY <1>0, <1>1, <1>2, <1>3, <2>1, <2>2, AnsweredStep DEF OthersKeepLocks
<1>5. CASE MysqlLockHead(w) /\ Verdict(db, c) # "refused"
  <2>1. Taken(db, c)
    BY <1>1, <1>5, Decided
  <2>2. CASE IsNone(db.head)
    <3>1. Goes(w, "gap") /\ lock' = lock
      BY <1>5, <2>2 DEF MysqlLockHead
    <3>2. MoveFits(w, "gap", op[w].unknown)
      BY <1>0, <1>1, <1>2, <2>1, <2>2, <3>1 DEF MoveFits, Redis
    <3> QED
      BY <1>0, <1>2, <3>1, <3>2, GoesStep DEF OthersKeepLocks, CommitPhases
  <2>3. CASE ~IsNone(db.head)
    <3>1. Goes(w, "locked") /\ lock' = w
      BY <1>5, <2>3 DEF MysqlLockHead
    <3>2. MoveFits(w, "locked", op[w].unknown)
      BY <1>0, <1>1, <2>1, <3>1 DEF MoveFits, Redis
    <3>3. OthersKeepLocks(w)
      BY <1>2, <2>3 DEF RepositoryInv, HostFits, LockFits, OthersKeepLocks
    <3> QED
      BY <1>0, <1>2, <3>1, <3>2, <3>3, GoesStep DEF CommitPhases
  <2> QED
    BY <2>2, <2>3
<1>6. CASE MysqlInsert(w)
  <2>1. /\ op[w].phase = "gap" /\ lock' = w /\ Goes(w, "locked")
        /\ \A v \in Hosts \ {w} : op[v].phase # "gap"
    BY <1>6 DEF MysqlInsert
  <2>2. Taken(db, c)
    BY <2>1 DEF RepositoryInv, HostFits, LockFits
  <2>3. MoveFits(w, "locked", op[w].unknown)
    BY <1>0, <1>1, <2>1, <2>2 DEF MoveFits, Redis
  <2>4. OthersKeepLocks(w)
    BY <1>2, <2>1 DEF OthersKeepLocks
  <2> QED
    BY <1>0, <1>2, <2>1, <2>3, <2>4, GoesStep DEF CommitPhases
<1> QED
  BY <1>4, <1>5, <1>6

LEMMA RetryLeads ==
    ASSUME RepositoryInv, NEW w \in Hosts, op[w].phase \in CommitPhases,
           NEW ops, ops = [v \in Hosts |-> ops[v]], ops[w] = op[w], MysqlRetry(w, ops)
    PROVE  \/ op[w].unknown /\ op' = [ops EXCEPT ![w] = Moved(w, "retry", TRUE, op[w].retries)]
           \/ ~op[w].unknown /\ \E r : op' = [ops EXCEPT ![w] = Moved(w, "retry", FALSE, r)]
           \/ ~op[w].unknown /\ op' = [ops EXCEPT ![w] = Idle]
<1> DEFINE o == op[w]
<1>0. o.unknown \in BOOLEAN
  BY HostFacts
<1>1. o = [phase |-> o.phase, commit |-> o.commit, try |-> o.try, retries |-> o.retries, unknown |-> o.unknown]
  BY HostFacts DEF Moved
<1> DEFINE again == [o EXCEPT !.phase = "retry"]
           more == [again EXCEPT !.retries = o.retries + 1]
<1>2. op' = [ops EXCEPT ![w] = IF o.unknown THEN again ELSE IF o.retries < 2 THEN more ELSE Idle]
  BY DEF MysqlRetry
<1> HIDE DEF o
<1>3. again = [phase |-> "retry", commit |-> o.commit, try |-> o.try, retries |-> o.retries, unknown |-> o.unknown]
  BY <1>1
<1> HIDE DEF again
<1>4. more = [phase |-> "retry", commit |-> o.commit, try |-> o.try, retries |-> o.retries + 1, unknown |-> o.unknown]
  BY <1>3
<1> HIDE DEF more
<1>8. o.unknown = TRUE \/ o.unknown = FALSE
  BY <1>0
<1>5. CASE o.unknown
  BY <1>2, <1>3, <1>5, <1>8 DEF Moved, o
<1>6. CASE ~o.unknown /\ o.retries < 2
  BY <1>2, <1>4, <1>6, <1>8 DEF Moved, o
<1>7. CASE ~o.unknown /\ ~(o.retries < 2)
  BY <1>2, <1>7 DEF o
<1> QED
  BY <1>5, <1>6, <1>7

(* Rolled back and tried again, or given up, while nobody else moves.      *)
LEMMA RetryStep ==
    ASSUME RepositoryInv, NEW w \in Hosts, op[w].phase \in {"queued", "retry", "gap"}, adapter = "mysql",
           MysqlRetry(w, op), UNCHANGED stored
    PROVE  KeepsPromise
<1>0. op[w].phase \in CommitPhases /\ Committing(w) /\ op = [v \in Hosts |-> op[v]] /\ db' = db /\ lock' = lock
      /\ UNCHANGED <<session, late>>
  BY HostFacts DEF CommitPhases, RepositoryInv, stored
<1>1. UNCHANGED <<adapter, hosts, life, past>> /\ OthersKeepLocks(w)
  BY <1>0 DEF MysqlRetry, OthersKeepLocks
<1>2. CASE op[w].unknown /\ op' = [op EXCEPT ![w] = Moved(w, "retry", TRUE, op[w].retries)]
  <2>1. MoveFits(w, "retry", TRUE)
    BY <1>0 DEF MoveFits, Redis
  <2> QED
    BY <1>0, <1>1, <1>2, <2>1, MovedStep DEF CommitPhases
<1>3. ASSUME ~op[w].unknown, NEW r, op' = [op EXCEPT ![w] = Moved(w, "retry", FALSE, r)]
      PROVE  KeepsPromise
  <2>1. MoveFits(w, "retry", FALSE)
    BY <1>0, <1>3 DEF MoveFits, Redis
  <2> QED
    BY <1>0, <1>1, <1>3, <2>1, MovedStep DEF CommitPhases
<1>4. CASE ~op[w].unknown /\ op' = [op EXCEPT ![w] = Idle]
  <2>1. Settles(w)
    BY <1>4 DEF Settles, Waits
  <2>2. Answered(w, FALSE)
    BY <1>1, <1>4 DEF Answered, hosts, past
  <2> QED
    BY <1>0, <1>1, <1>4, <2>1, <2>2, AnsweredStep
<1> QED
  BY <1>0, <1>2, <1>3, <1>4, RetryLeads

LEMMA MysqlFailStep ==
    ASSUME RepositoryInv, NEW w \in Hosts, MysqlLockTimeout(w) \/ MysqlDisconnect(w)
    PROVE  KeepsPromise
<1>1. CASE MysqlLockTimeout(w)
  BY <1>1, RetryStep DEF MysqlLockTimeout, Ordinary
<1>2. CASE MysqlDisconnect(w)
  <2>0. /\ adapter = "mysql" /\ op[w].phase \in CommitPhases /\ op[w].phase # "probe"
        /\ UNCHANGED <<db, session, late>> /\ (lock' = lock \/ (lock = w /\ lock' = "free"))
    BY <1>2 DEF MysqlDisconnect, Ordinary, CommitPhases
  <2>1. CASE op[w].unknown
    <3>1. Goes(w, "retry") /\ op[w].unknown \in BOOLEAN
      BY <1>2, <2>0, <2>1, HostFacts DEF MysqlDisconnect
    <3>2. MoveFits(w, "retry", op[w].unknown)
      BY <2>0, <2>1 DEF MoveFits, Redis
    <3>3. OthersKeepLocks(w) /\ (IsNone(session) \/ lock' = lock)
      <4>1. db' = db
        BY <2>0
      <4> QED
        BY <2>0, <4>1, Releases
    <3>4. op[w].phase \notin {"retry", "probe"} \/ "retry" = op[w].phase
      BY <2>0
    <3> QED
      BY <2>0, <3>1, <3>2, <3>3, <3>4, GoesStep DEF CommitPhases
  <2>2. CASE ~op[w].unknown
    BY <1>2, <2>0, <2>2, RaisedStep DEF MysqlDisconnect, Raises
  <2> QED
    BY <2>1, <2>2
<1> QED
  BY <1>1, <1>2

(* The COMMIT itself, answered or not.                                     *)
LEMMA PhaseAndUnknown ==
    ASSUME RepositoryInv, NEW w \in Hosts, op[w].phase \in CommitPhases, NEW p, NEW u,
           op' = [op EXCEPT ![w].phase = p, ![w].unknown = u]
    PROVE  op' = [op EXCEPT ![w] = Moved(w, p, u, op[w].retries)]
<1> DEFINE o == op[w]
<1>1. o = [phase |-> o.phase, commit |-> o.commit, try |-> o.try, retries |-> o.retries, unknown |-> o.unknown]
      /\ op = [v \in Hosts |-> op[v]]
  BY HostFacts DEF Moved, RepositoryInv
<1>2. op' = [op EXCEPT ![w] = [[o EXCEPT !.phase = p] EXCEPT !.unknown = u]]
  BY <1>1
<1> HIDE DEF o
<1>3. [[o EXCEPT !.phase = p] EXCEPT !.unknown = u] =
          [phase |-> p, commit |-> o.commit, try |-> o.try, retries |-> o.retries, unknown |-> u]
  <2> DEFINE q == [o EXCEPT !.phase = p]
  <2>1. q = [phase |-> p, commit |-> o.commit, try |-> o.try, retries |-> o.retries, unknown |-> o.unknown]
    BY <1>1
  <2> HIDE DEF q
  <2>2. [q EXCEPT !.unknown = u] = [phase |-> p, commit |-> o.commit, try |-> o.try, retries |-> o.retries, unknown |-> u]
    BY <2>1
  <2> QED
    BY <2>2 DEF q
<1> QED
  BY <1>2, <1>3 DEF Moved, o

LEMMA MysqlCommitStep ==
    ASSUME RepositoryInv, NEW w \in Hosts, MysqlCommit(w) \/ MysqlCommitLost(w)
    PROVE  KeepsPromise
<1> DEFINE c == op[w].commit
<1>0. adapter = "mysql" /\ op[w].phase = "locked" /\ op[w].phase \in CommitPhases /\ Committing(w)
  BY HostFacts DEF MysqlCommit, MysqlCommitLost, CommitPhases
<1>1. IsNone(session) /\ OthersKeepLocks(w) /\ Taken(db, c)
  BY <1>0, Alone DEF RepositoryInv, HostFits, LockFits
<1>2. CASE MysqlCommit(w)
  BY <1>0, <1>2, CommittedStep DEF MysqlCommit
<1>3. CASE MysqlCommitLost(w)
  <2>1. /\ op' = [op EXCEPT ![w] = Moved(w, "retry", TRUE, op[w].retries)]
        /\ UNCHANGED <<adapter, hosts, life, past>> /\ late' = late
    BY <1>0, <1>3, PhaseAndUnknown DEF MysqlCommitLost, SettleLater
  <2>2. CASE db' \in {db, Written(c)} /\ session' = session
    <3>1. db' = db \/ Takes(w)
      BY <1>0, <2>2, WrittenUnderLock
    <3>2. MoveFits(w, "retry", TRUE)
      BY <1>0 DEF MoveFits, Redis
    <3> QED
      BY <1>0, <1>1, <2>1, <2>2, <3>1, <3>2, MovedStep DEF CommitPhases
  <2>3. CASE /\ ~Known(db, c) /\ lock' = "session" /\ db' = db
             /\ session' = [rev |-> c.checkpoint.rev, commit |-> c]
    <3>1. MoveFits(w, "retry", TRUE)
      BY <1>0, <2>3 DEF MoveFits, Redis
    <3>2. op'[w] = Moved(w, "retry", TRUE, op[w].retries) /\ (SessionFits' /\ LateFits' => KeepsPromise)
      BY <1>0, <1>1, <2>1, <2>3, <3>1, Moving DEF CommitPhases, hosts, past
    <3>3. New(db, c) /\ session'.commit = c
      BY <1>1, <2>3 DEF Taken, New
    <3>4. (Waits(w) /\ op[w].phase = "retry" /\ op[w].commit = session.commit)'
      BY <3>2, <3>3 DEF Waits, Committing, Moved
    <3>5. SessionFits'
      BY <1>0, <2>1, <2>3, <3>3, <3>4 DEF SessionFits
    <3>6. LateFits'
      BY <1>0, <2>1 DEF RepositoryInv, LateFits, Redis
    <3> QED
      BY <3>2, <3>5, <3>6
  <2> QED
    BY <1>3, <2>2, <2>3 DEF MysqlCommitLost
<1> QED
  BY <1>2, <1>3

(* Redis.                                                                  *)
LEMMA RedisProbeStep ==
    ASSUME RepositoryInv, NEW w \in Hosts, RedisProbe(w) \/ RedisProbeFails(w)
    PROVE  KeepsPromise
<1> DEFINE c == op[w].commit
<1>0. /\ adapter \in Redis /\ op[w].phase = "probe" /\ op[w].phase \in CommitPhases /\ Committing(w)
      /\ db' = db /\ lock' = lock /\ UNCHANGED <<session, late>>
      /\ op[w].unknown \in BOOLEAN /\ DbFits(db, tries) /\ tries \in Nat
  BY HostFacts DEF RedisProbe, RedisProbeFails, stored, CommitPhases
<1>1. IsNone(session) /\ OthersKeepLocks(w)
  BY <1>0, Alone DEF Redis
<1>2. CASE RedisProbe(w) /\ ProbeVerdict(db, c) = "new"
  <2>1. /\ op' = [op EXCEPT ![w] = Moved(w, "eval", FALSE, op[w].retries)]
        /\ UNCHANGED <<adapter, hosts, life, past>>
    BY <1>0, <1>2, PhaseAndUnknown DEF RedisProbe
  <2>2. ~Known(db, c)
    BY <1>0, <1>2, DecidedElsewhere
  <2>3. MoveFits(w, "eval", FALSE)
    BY <1>0, <2>2 DEF MoveFits, Redis
  <2>4. CommandsInOrder => Attempt(w) \notin late
    BY <1>2 DEF RedisProbe
  <2> QED
    BY <1>0, <1>1, <2>1, <2>3, <2>4, MovedStep DEF CommitPhases
<1>3. CASE RedisProbe(w) /\ ProbeVerdict(db, c) # "new"
  <2> DEFINE ok == ProbeVerdict(db, c) = "known"
  <2>1. Answered(w, ok) /\ Settles(w)
    BY <1>1, <1>3 DEF RedisProbe, Settles
  <2>2. ok => InLedger(db, c.checkpoint)
    BY <1>0, DecidedElsewhere DEF AcceptsRetry, InLedger, Known, Entry
  <2>3. ~ok => ~InLedger(db, c.checkpoint)
    BY <1>0, <1>3, DecidedElsewhere, RefusedIsAbsent
  <2>4. ok \in BOOLEAN
    OBVIOUS
  <2> HIDE DEF ok
  <2> QED
    BY <1>0, <1>1, <2>1, <2>2, <2>3, <2>4, AnsweredStep
<1>4. CASE RedisProbeFails(w) /\ op[w].unknown
  <2>1. Goes(w, "probe")
    BY <1>4 DEF RedisProbeFails
  <2>2. MoveFits(w, "probe", op[w].unknown)
    BY <1>0 DEF MoveFits, Redis
  <2> QED
    BY <1>0, <1>1, <2>1, <2>2, GoesStep DEF CommitPhases
<1>5. CASE RedisProbeFails(w) /\ ~op[w].unknown
  BY <1>0, <1>5, RaisedStep DEF RedisProbeFails, Raises
<1> QED
  BY <1>2, <1>3, <1>4, <1>5

LEMMA RedisCommitStep ==
    ASSUME RepositoryInv, NEW w \in Hosts, RedisCommit(w) \/ RedisCommitLost(w) \/ RedisNoWrite(w)
    PROVE  KeepsPromise
<1> DEFINE c == op[w].commit
<1>0. /\ adapter \in Redis /\ op[w].phase = "eval" /\ op[w].phase \in CommitPhases /\ Committing(w)
      /\ lock' = lock /\ UNCHANGED session /\ ~op[w].unknown
      /\ DbFits(db, tries) /\ tries \in Nat /\ CommitFits(c, w, tries)
  BY HostFacts DEF RedisCommit, RedisCommitLost, RedisNoWrite, stored, CommitPhases
<1>1. IsNone(session) /\ OthersKeepLocks(w) /\ Settles(w)
  BY <1>0, Alone, NotInLate DEF Redis
<1>2. /\ ScriptVerdict(db, c) = "new" /\ db' = Publish(db, c) => Takes(w)
      /\ ScriptVerdict(db, c) \notin {"new", "refused"} => InLedger(db, c.checkpoint)
  BY <1>0, DecidedElsewhere DEF Takes, AcceptsRetry, InLedger, Known, Entry
<1>3. CASE RedisCommit(w)
  <2> DEFINE ok == ScriptVerdict(db, c) # "refused"
  <2>1. /\ db' = IF ScriptVerdict(db, c) = "new" THEN Publish(db, c) ELSE db
        /\ Answered(w, ok) /\ late' = late
    BY <1>3 DEF RedisCommit
  <2>2. /\ db' = db \/ Takes(w)
        /\ ok => Takes(w) \/ InLedger(db, c.checkpoint)
        /\ ~ok => db' = db
        /\ ok \in BOOLEAN
    BY <1>2, <2>1
  <2> HIDE DEF ok
  <2> QED
    BY <1>0, <1>1, <2>1, <2>2, AnsweredStep
<1>4. ASSUME Unsettled(w), db' = db \/ Takes(w)
      PROVE  /\ op' = [op EXCEPT ![w] = Moved(w, "probe", TRUE, op[w].retries)]
             /\ UNCHANGED <<adapter, hosts, life, past>> /\ MoveFits(w, "probe", TRUE)
  <2>1. op' = [op EXCEPT ![w] = Moved(w, "probe", TRUE, op[w].retries)]
    BY <1>0, <1>4, PhaseAndUnknown DEF Unsettled
  <2>2. MoveFits(w, "probe", TRUE)
    BY <1>0, <1>4 DEF MoveFits, Redis
  <2> QED
    BY <1>4, <2>1, <2>2 DEF Unsettled
<1>5. ASSUME Unsettled(w), db' = db \/ Takes(w), late' = late PROVE KeepsPromise
  BY <1>0, <1>1, <1>4, <1>5, MovedStep DEF CommitPhases
<1>6. CASE RedisCommitLost(w)
  <2>1. Unsettled(w)
    BY <1>6 DEF RedisCommitLost
  <2>2. CASE late' = late
    <3>1. db' = db \/ Takes(w)
      BY <1>2, <1>6, <2>2 DEF RedisCommitLost
    <3> QED
      BY <1>5, <2>1, <2>2, <3>1
  <2>3. CASE late' = late \cup {Attempt(w)} /\ db' = db
    <3>1. op'[w] = Moved(w, "probe", TRUE, op[w].retries) /\ Frame(w)
          /\ (SessionFits' /\ LateFits' => KeepsPromise)
      BY <1>0, <1>1, <1>4, <2>1, <2>3, Moving DEF CommitPhases, hosts, past
    <3>2. SessionFits'
      BY <1>0, <1>1 DEF SessionFits
    <3>3. (Waits(w) /\ op[w].phase = "probe")' /\ Attempt(w)' = Attempt(w)
      BY <3>1 DEF Waits, Committing, Moved, Attempt
    <3>4. UNCHANGED <<lost, tries, adapter>>
      BY <2>1 DEF Unsettled, hosts, past
    <3>5. ASSUME NEW a \in late'
          PROVE  /\ adapter' \in Redis /\ a.who \in Hosts /\ CommitFits(a.commit, a.who, tries')
                 /\ CommandsInOrder =>
                        a \in lost' \/ \E v \in Hosts : (Waits(v) /\ op[v].phase = "probe" /\ a = Attempt(v))'
      <4>1. CASE a = Attempt(w)
        <5>1. a.who = w /\ a.commit = c
          BY <4>1 DEF Attempt
        <5> QED
          BY <1>0, <3>3, <3>4, <4>1, <5>1
      <4>2. CASE a \in late
        <5>1. /\ a.who \in Hosts /\ CommitFits(a.commit, a.who, tries)
              /\ CommandsInOrder => a \in lost \/ \E v \in Hosts : Waits(v) /\ op[v].phase = "probe" /\ a = Attempt(v)
          BY <4>2 DEF RepositoryInv, LateFits
        <5>2. ASSUME NEW v \in Hosts, Waits(v), op[v].phase = "probe", a = Attempt(v)
              PROVE  (Waits(v) /\ op[v].phase = "probe" /\ a = Attempt(v))'
          <6>1. op'[v] = op[v]
            BY <1>0, <3>1, <5>2 DEF Frame
          <6> QED
            BY <5>2, <6>1 DEF Waits, Committing, Attempt
        <5> QED
          BY <1>0, <3>4, <5>1, <5>2
      <4> QED
        BY <2>3, <4>1, <4>2
    <3>6. LateFits'
      BY <3>5 DEF LateFits
    <3> QED
      BY <3>1, <3>2, <3>6
  <2> QED
    BY <1>6, <2>2, <2>3 DEF RedisCommitLost
<1>7. CASE RedisNoWrite(w)
  <2>1. db' = db /\ late' = late
    BY <1>7 DEF RedisNoWrite, stored
  <2> QED
    BY <1>0, <1>5, <1>7, <2>1, RaisedStep DEF RedisNoWrite, Raises
<1> QED
  BY <1>3, <1>6, <1>7

(* Of two inserts that wait for each other one is rolled back.             *)
LEMMA MysqlDeadlockStep == ASSUME RepositoryInv, NEW w \in Hosts, MysqlDeadlock(w) PROVE KeepsPromise
<1>0. /\ adapter = "mysql" /\ op[w].phase = "gap" /\ op[w].phase \in CommitPhases /\ Committing(w)
      /\ db' = db /\ UNCHANGED <<session, late>> /\ lock = "free" /\ IsNone(session) /\ op[w].unknown \in BOOLEAN
      /\ \A u \in Hosts : op[u].phase # "locked"
  BY HostFacts, Alone DEF MysqlDeadlock, CommitPhases
<1>1. PICK v \in Hosts \ {w} :
          /\ op[v].phase = "gap"
          /\ IF \A u \in Hosts \ {v, w} : op[u].phase # "gap"
             THEN lock' = v /\ MysqlRetry(w, [op EXCEPT ![v].phase = "locked"])
             ELSE UNCHANGED lock /\ MysqlRetry(w, op)
  BY DEF MysqlDeadlock
<1>2. CASE UNCHANGED lock /\ MysqlRetry(w, op)
  BY <1>0, <1>2, RetryStep DEF stored
<1>3. CASE /\ \A u \in Hosts \ {v, w} : op[u].phase # "gap"
           /\ lock' = v /\ MysqlRetry(w, [op EXCEPT ![v].phase = "locked"])
  <2> DEFINE ops == [op EXCEPT ![v].phase = "locked"]
             x == Moved(v, "locked", op[v].unknown, op[v].retries)
  <2>1. /\ op = [u \in Hosts |-> op[u]] /\ known = [u \in Hosts |-> known[u]]
        /\ latest = [u \in Hosts |-> latest[u]] /\ life = [u \in Hosts |-> life[u]]
        /\ tries \in Nat /\ DbFits(db, tries) /\ LockFits(v) /\ op[v].phase \in CommitPhases
        /\ Committing(v) /\ op[v].unknown \in BOOLEAN
    BY <1>1, HostFacts DEF RepositoryInv, HostFits, CommitPhases
  <2>2. ops = [op EXCEPT ![v] = x]
    <3>1. ops = [op EXCEPT ![v] = [op[v] EXCEPT !.phase = "locked"]]
      BY <2>1
    <3> QED
      BY <2>1, <3>1, OnlyPhase
  <2> HIDE DEF x
  <2>3. ops = [u \in Hosts |-> ops[u]] /\ ops[v] = x /\ \A u \in Hosts \ {v} : ops[u] = op[u]
    BY <2>1, <2>2, Excepted
  <2>4. MysqlRetry(w, ops) /\ ops[w] = op[w]
    BY <1>3, <2>3
  <2> HIDE DEF ops
  <2>5. UNCHANGED <<adapter, known, latest, tries, life, lost, accepted>>
    BY <2>4 DEF MysqlRetry, hosts, past
  <2>6. PICK y : /\ op' = [ops EXCEPT ![w] = y]
                 /\ \/ \E r : y = Moved(w, "retry", op[w].unknown, r)
                    \/ y = Idle /\ ~op[w].unknown
    <3>1. \/ op[w].unknown /\ op' = [ops EXCEPT ![w] = Moved(w, "retry", TRUE, op[w].retries)]
          \/ ~op[w].unknown /\ \E r : op' = [ops EXCEPT ![w] = Moved(w, "retry", FALSE, r)]
          \/ ~op[w].unknown /\ op' = [ops EXCEPT ![w] = Idle]
      BY <1>0, <2>3, <2>4, RetryLeads
    <3>2. op[w].unknown = TRUE \/ op[w].unknown = FALSE
      BY <1>0
    <3>3. CASE op[w].unknown /\ op' = [ops EXCEPT ![w] = Moved(w, "retry", TRUE, op[w].retries)]
      <4>1. op[w].unknown = TRUE
        BY <3>2, <3>3
      <4> QED
        BY <3>3, <4>1
    <3>4. ASSUME ~op[w].unknown, NEW r, op' = [ops EXCEPT ![w] = Moved(w, "retry", FALSE, r)]
          PROVE  \E y, q : op' = [ops EXCEPT ![w] = y] /\ y = Moved(w, "retry", op[w].unknown, q)
      <4>1. op[w].unknown = FALSE
        BY <3>2, <3>4
      <4> QED
        BY <3>4, <4>1
    <3> QED
      BY <3>1, <3>3, <3>4
  <2>7. op' = [u \in Hosts |-> op'[u]] /\ op'[w] = y /\ \A u \in Hosts \ {w} : op'[u] = ops[u]
    BY <2>3, <2>6, Excepted
  <2>8. Grows(db, db') /\ tries' \in Nat /\ tries <= tries'
    BY <1>0, <2>1, <2>5 DEF Grows
  <2>9. HostFits(v)'
    <3>1. op'[v] = Moved(v, "locked", op[v].unknown, op[v].retries)
      BY <2>3, <2>7 DEF x
    <3>2. Taken(db', op[v].commit)
      BY <1>0, <1>1, <2>1 DEF LockFits
    <3>3. Known(db', op[v].commit) => Known(db, op[v].commit)
      BY <1>0
    <3>4. "locked" \in CommitPhases /\ lock' = v
      BY <1>3 DEF CommitPhases
    <3> QED
      BY <1>0, <2>1, <2>5, <2>8, <3>1, <3>2, <3>3, <3>4, HostMoves DEF Redis
  <2>10. HostFits(w)'
    <3>1. CASE y = Idle /\ ~op[w].unknown
      <4>1. op'[w] = Idle
        BY <2>7, <3>1
      <4> QED
        BY <1>0, <2>5, <2>8, <3>1, <4>1, HostAnswered
    <3>2. ASSUME NEW r, y = Moved(w, "retry", op[w].unknown, r) PROVE HostFits(w)'
      <4>1. op'[w] = Moved(w, "retry", op[w].unknown, r) /\ "retry" \in CommitPhases
        BY <2>7, <3>2 DEF CommitPhases
      <4>2. Known(db', op[w].commit) => Known(db, op[w].commit)
        BY <1>0
      <4> QED
        BY <1>0, <2>5, <2>8, <4>1, <4>2, HostMoves DEF Redis
    <3> QED
      BY <2>6, <3>1, <3>2
  <2>11. ASSUME NEW u \in Hosts \ {v, w} PROVE HostFits(u)'
    <3>1. OwnLands(u)
      BY <1>0 DEF OwnLands
    <3>2. op'[u] = op[u] /\ op[u].phase \notin {"locked", "gap"}
      BY <1>0, <1>3, <2>3, <2>7
    <3> QED
      BY <2>5, <2>8, <3>1, <3>2, HostOther
  <2>12. LostFits' /\ SessionFits' /\ LateFits'
    <3>1. LostFits'
      BY <2>5 DEF RepositoryInv, LostFits
    <3>2. SessionFits'
      BY <1>0 DEF SessionFits
    <3>3. LateFits'
      BY <1>0 DEF RepositoryInv, LateFits, Redis
    <3> QED
      BY <3>1, <3>2, <3>3
  <2>13. RepositoryInv'
    BY <1>0, <2>1, <2>5, <2>7, <2>9, <2>10, <2>11, <2>12 DEF RepositoryInv
  <2>14. \A u \in Hosts \ {w} : SameCall(u)
    <3>1. ASSUME NEW u \in Hosts \ {v, w} PROVE SameCall(u)
      <4>1. op'[u] = op[u]
        BY <2>3, <2>7
      <4> QED
        BY <4>1 DEF SameCall, Committing, Attempt
    <3>2. SameCall(v)
      <4>1. op'[v] = Moved(v, "locked", op[v].unknown, op[v].retries)
        BY <2>3, <2>7 DEF x
      <4> QED
        BY <2>1, <4>1 DEF SameCall, Committing, Moved, Attempt
    <3> QED
      BY <3>1, <3>2
  <2>15. CASE y = Idle /\ ~op[w].unknown
    <3>1. op'[w] = Idle /\ lost' = lost
      BY <2>5, <2>7, <2>15
    <3>2. Open' = Open \ {Attempt(w)}
      BY <1>0, <2>14, <3>1, OpenAnswered
    <3> QED
      BY <1>0, <2>5, <2>13, <2>15, <3>2, Refused DEF KeepsPromise
  <2>16. ASSUME NEW r, y = Moved(w, "retry", op[w].unknown, r) PROVE KeepsPromise
    <3>1. SameCall(w)
      BY <1>0, <2>7, <2>16 DEF SameCall, Committing, Moved, Attempt
    <3>2. Open' = Open
      BY <2>5, <2>14, <3>1, OpenSame
    <3> QED
      BY <1>0, <2>5, <2>13, <3>2, Unanswered DEF KeepsPromise
  <2> QED
    BY <2>6, <2>15, <2>16
<1> QED
  BY <1>1, <1>2, <1>3

-----------------------------------------------------------------------------
(* A call of commit(): a new id, or the id of the last commit again.       *)
LEMMA StartStep ==
    ASSUME RepositoryInv, NEW w \in Hosts, NEW c, Start(w, c), CommitFits(c, w, tries + 1),
           \/ Id(c) = <<w, tries + 1>>
           \/ /\ latest[w] # None /\ Id(c) = Id(latest[w])
              /\ \A x : [c EXCEPT !.checkpoint = x] = [latest[w] EXCEPT !.checkpoint = x]
    PROVE  KeepsPromise
<1> DEFINE p == IF adapter \in Redis THEN "probe" ELSE "queued"
           o == [phase |-> p, commit |-> c, try |-> tries', retries |-> 0, unknown |-> FALSE]
<1>0. /\ op = [v \in Hosts |-> op[v]] /\ known = [v \in Hosts |-> known[v]]
      /\ latest = [v \in Hosts |-> latest[v]] /\ life = [v \in Hosts |-> life[v]]
      /\ tries \in Nat /\ DbFits(db, tries) /\ HostFits(w)
  BY HostFacts DEF RepositoryInv
<1>1. /\ op[w] = Idle /\ life[w] = "open" /\ tries' = tries + 1
      /\ op' = [op EXCEPT ![w] = o] /\ latest' = [latest EXCEPT ![w] = c]
      /\ UNCHANGED <<adapter, db, lock, session, late, known, life, lost, accepted>>
  BY DEF Start, stored, past
<1>2. o.phase = p /\ o.commit = c /\ o.try = tries' /\ o.unknown = FALSE
      /\ o = [phase |-> o.phase, commit |-> o.commit, try |-> o.try, retries |-> o.retries, unknown |-> o.unknown]
  OBVIOUS
<1>3. p \in {"probe", "queued"} /\ (p = "probe" <=> adapter \in Redis)
  OBVIOUS
<1> HIDE DEF o, p
<1>4. /\ op' = [v \in Hosts |-> op'[v]] /\ op'[w] = o /\ \A v \in Hosts \ {w} : op'[v] = op[v]
  BY <1>0, <1>1, Excepted
<1>5. /\ latest' = [v \in Hosts |-> latest'[v]] /\ latest'[w] = c /\ \A v \in Hosts \ {w} : latest'[v] = latest[v]
  BY <1>0, <1>1, Excepted
<1>6. Frame(w) /\ tries' \in Nat /\ tries <= tries'
  BY <1>0, <1>1, <1>4, <1>5 DEF Frame
<1>7. Id(c) = <<w, tries + 1>> => ~Known(db, c)
  <2> SUFFICES ASSUME Id(c) = <<w, tries + 1>>, Id(c) \in DOMAIN db.ledger PROVE FALSE
    BY DEF Known
  <2>1. EntryFits(db, Id(c), tries)
    BY <1>0 DEF DbFits
  <2> QED
    BY <1>0, <2>1 DEF EntryFits, IdOf
<1>8. ~Committing(w)
  BY <1>1 DEF Committing, Idle
<1>9. HostFits(w)'
  <2>1. OpFits(w)'
    <3>1. CommitFits(c, w, tries') /\ tries' \in Int /\ 1 <= tries'
      BY <1>0, <1>1
    <3>2. /\ p \in {"probe", "eval"} <=> adapter \in Redis
          /\ p \in {"probe", "queued"} /\ p \in CommitPhases
      BY <1>3 DEF CommitPhases
    <3>5. o.try \in Int /\ 1 <= o.try /\ o.try <= tries'
      <4>1. o.try = tries'
        BY <1>2
      <4>2. tries' <= tries'
        BY <3>1
      <4> QED
        BY <3>1, <4>1, <4>2
    <3>6. ~o.unknown /\ o.unknown \in BOOLEAN
      BY <1>2
    <3>3. o.commit = latest'[w] /\ CommitFits(o.commit, w, tries')
      BY <1>2, <1>5, <3>1
    <3>4. op'[w] = o /\ adapter' = adapter
      BY <1>1, <1>4
    <3> QED
      BY <1>2, <3>2, <3>3, <3>4, <3>5, <3>6 DEF OpFits
  <2>2. KnownFits(w)'
    BY <1>0, <1>1 DEF HostFits, KnownFits, Idle
  <2>3. LatestFits(w)'
    BY <1>1, <1>5 DEF LatestFits
  <2>4. OwnFits(w)'
    <3> SUFFICES ASSUME CommandsInOrder, Known(db, c)
                 PROVE  [c EXCEPT !.checkpoint = Entry(db, c).digest] \in accepted
      BY <1>1, <1>5 DEF OwnFits
    <3>1. /\ latest[w] # None /\ Id(c) = Id(latest[w])
          /\ \A x : [c EXCEPT !.checkpoint = x] = [latest[w] EXCEPT !.checkpoint = x]
      BY <1>7
    <3>2. [latest[w] EXCEPT !.checkpoint = Entry(db, latest[w]).digest] \in accepted
      BY <1>0, <1>8, <3>1 DEF HostFits, OwnFits, Known
    <3> QED
      BY <3>1, <3>2 DEF Entry
  <2>5. LockFits(w)'
    BY <1>2, <1>3, <1>4 DEF LockFits
  <2>6. QuietFits(w)'
    BY <1>1 DEF QuietFits
  <2> QED
    BY <2>1, <2>2, <2>3, <2>4, <2>5, <2>6 DEF HostFits
<1>10. LostFits'
  <2> SUFFICES ASSUME NEW a \in lost
               PROVE  /\ a.who \in Hosts /\ a.try \in Int /\ 1 <= a.try /\ a.try <= tries'
                      /\ CommitFits(a.commit, a.who, tries')
                      /\ latest'[a.who] # None => Id(a.commit) # Id(latest'[a.who])
    BY <1>1 DEF LostFits
  <2>1. /\ a.who \in Hosts /\ a.try \in Int /\ 1 <= a.try /\ a.try <= tries
        /\ CommitFits(a.commit, a.who, tries)
        /\ latest[a.who] # None => Id(a.commit) # Id(latest[a.who])
    BY DEF RepositoryInv, LostFits
  <2>2. CommitFits(a.commit, a.who, tries') /\ a.try <= tries'
    BY <1>0, <1>6, <2>1, CommitLater
  <2>3. CASE a.who # w
    BY <1>5, <2>1, <2>2, <2>3
  <2>4. CASE a.who = w
    <3>1. IdOf(Id(a.commit), w, tries)
      BY <2>1, <2>4 DEF CommitFits
    <3>2. Id(a.commit) # <<w, tries + 1>>
      BY <1>0, <3>1 DEF IdOf
    <3> QED
      BY <1>5, <2>1, <2>2, <2>4, <3>2
  <2> QED
    BY <2>3, <2>4
<1>11. SessionFits' /\ LateFits'
  <2>1. StillWaits(w)
    BY <1>8 DEF StillWaits, Waits
  <2>2. UNCHANGED lost /\ UNCHANGED session /\ UNCHANGED late /\ lock' = lock /\ db' = db
    BY <1>1
  <2> QED
    BY <1>6, <2>1, <2>2, ServersStay
<1>12. /\ accepted \subseteq accepted' /\ db' = db
       /\ \A v \in Hosts \ {w} : op[v].phase \in {"locked", "gap"} => lock' = lock /\ db' = db
  BY <1>1
<1>13. RepositoryInv'
  BY <1>6, <1>9, <1>10, <1>11, <1>12, OneHost
<1>14. Attempt(w)' \notin Open
  <2>1. Attempt(w)'.try = tries + 1
    BY <1>1, <1>2, <1>4 DEF Attempt
  <2>2. \A a \in lost : a.try \in Int /\ a.try <= tries
    BY DEF RepositoryInv, LostFits
  <2>3. ASSUME NEW v \in Hosts, Committing(v) PROVE Attempt(v).try \in Int /\ Attempt(v).try <= tries
    <3>1. HostFits(v) /\ op[v].phase \in CommitPhases
      BY <2>3 DEF RepositoryInv, Committing, CommitPhases
    <3> QED
      BY <3>1 DEF HostFits, OpFits, Attempt
  <2> HIDE DEF o
  <2>4. \A a \in Open : a.try \in Int /\ a.try <= tries
    BY <2>2, <2>3 DEF Open
  <2> QED
    BY <1>0, <2>1, <2>4
<1>15. Open' = Open \cup {Attempt(w)'}
  <2>1. Committing(w)'
    BY <1>2, <1>3, <1>4 DEF Committing
  <2>2. \A v \in Hosts \ {w} : SameCall(v)
    BY <1>6, FrameCalls
  <2>3. {v \in Hosts : Committing(v)}' = {v \in Hosts : Committing(v)} \cup {w}
    BY <2>1, <2>2 DEF SameCall
  <2>4. {Attempt(x) : x \in {v \in Hosts : Committing(v)}}' =
            {Attempt(x) : x \in {v \in Hosts : Committing(v)}} \cup {Attempt(w)'}
    BY <1>8, <2>2, <2>3 DEF SameCall
  <2>5. lost' = lost
    BY <1>1
  <2> QED
    BY <2>4, <2>5 DEF Open
<1>16. ChainStep
  <2>1. accepted' = accepted /\ Chain' = Chain
    BY <1>1, ChainStays
  <2>2. Abstract!Begin(Attempt(w)')
    BY <1>14, <1>15, <2>1 DEF Abstract!Begin
  <2>3. Attempt(w)' \in Open'
    BY <1>15
  <2> QED
    BY <2>2, <2>3 DEF ChainStep, Abstract!Next
<1> QED
  BY <1>13, <1>16 DEF KeepsPromise

(* What a host knows is a checkpoint it can build on.                      *)
LEMMA KnownIsCheckpoint ==
    ASSUME RepositoryInv, NEW w \in Hosts, op[w] = Idle, ~IsNone(known[w])
    PROVE  known[w].rev \in Nat /\ known[w].id # NoId
<1>1. CASE known[w] = Foreign
  <2>1. known[w].rev = 0 /\ known[w].id = <<"foreign", 0>>
    BY <1>1 DEF Foreign, Checkpoint
  <2> QED
    BY <2>1 DEF NoId
<1>2. CASE InLedger(db, known[w])
  <2>1. PICK id \in DOMAIN db.ledger : db.ledger[id].digest = known[w]
    BY <1>2 DEF InLedger
  <2>2. EntryFits(db, id, tries)
    BY HostFacts DEF DbFits
  <2>3. known[w].rev \in Nat /\ known[w].id = id /\ id[2] \in Int /\ 1 <= id[2]
    BY <2>1, <2>2 DEF EntryFits, IdOf
  <2>4. NoId[2] = 0
    BY DEF NoId
  <2> QED
    BY <2>3, <2>4
<1>3. known[w] # None
  BY DEF IsNone, None
<1> QED
  BY <1>1, <1>2, <1>3, HostFacts DEF HostFits, KnownFits, Idle

LEMMA CommitStep == ASSUME RepositoryInv, NEW w \in Hosts, Commit(w) PROVE KeepsPromise
<1> DEFINE id == <<w, tries + 1>>
           some == [i \in 1..ChunkSize + 1 |-> id]
<1>0. tries \in Nat /\ IdOf(id, w, tries + 1)
  BY HostFacts DEF IdOf
<1>1. PICK state \in States :
          \/ IsNone(known[w]) /\ Start(w, InitialCommit(id, some, state))
          \/ ~IsNone(known[w]) /\ Start(w, NextCommit(known[w], "append", id, <<id>>, state))
          \/ ~IsNone(known[w]) /\ Start(w, NextCommit(known[w], "replace", id, some, state))
          \/ ~IsNone(known[w]) /\ Start(w, NextCommit(known[w], "unchanged", id, <<>>, state))
  BY DEF Commit
<1> HIDE DEF id, some
<1>2. CASE Start(w, InitialCommit(id, some, state))
  <2> DEFINE c == InitialCommit(id, some, state)
  <2>1. CommitFits(c, w, tries + 1) /\ Id(c) = id
    BY <1>0 DEF CommitFits, InitialCommit, Checkpoint, Id
  <2> HIDE DEF c
  <2> QED
    BY <1>2, <2>1, StartStep DEF c, id
<1>3. ASSUME NEW kind \in {"append", "replace", "unchanged"}, NEW msgs, ~IsNone(known[w]),
             Start(w, NextCommit(known[w], kind, id, msgs, state))
      PROVE  KeepsPromise
  <2> DEFINE c == NextCommit(known[w], kind, id, msgs, state)
  <2>1. known[w].rev \in Nat /\ known[w].id # NoId
    BY <1>3, KnownIsCheckpoint DEF Start
  <2>2. PICK h, m : c = [checkpoint |-> Checkpoint(id, known[w].rev + 1, h, state), parent |-> known[w].id,
                         kind |-> kind, base |-> known[w].hist, msgs |-> m]
    BY DEF NextCommit
  <2> HIDE DEF c
  <2>3. CommitFits(c, w, tries + 1) /\ Id(c) = id
    BY <1>0, <2>1, <2>2 DEF CommitFits, Checkpoint, Id
  <2> QED
    BY <1>3, <2>3, StartStep DEF c, id
<1> QED
  BY <1>1, <1>2, <1>3

LEMMA CommitAgainStep == ASSUME RepositoryInv, NEW w \in Hosts, CommitAgain(w) PROVE KeepsPromise
<1> DEFINE c == latest[w]
<1>1. c # None /\ CommitFits(c, w, tries + 1)
  <2>1. c # None /\ CommitFits(c, w, tries) /\ tries \in Nat
    BY HostFacts DEF CommitAgain, HostFits, LatestFits
  <2> QED
    BY <2>1, CommitLater
<1>2. CASE Start(w, c)
  BY <1>1, <1>2, StartStep
<1>3. CASE Start(w, [c EXCEPT !.checkpoint.state = OtherState])
  <2> DEFINE k == [c.checkpoint EXCEPT !.state = OtherState]
             e == [c EXCEPT !.checkpoint = k]
  <2>0. /\ c = [checkpoint |-> c.checkpoint, parent |-> c.parent, kind |-> c.kind, base |-> c.base, msgs |-> c.msgs]
        /\ c.checkpoint = Checkpoint(c.checkpoint.id, c.checkpoint.rev, c.checkpoint.hist, c.checkpoint.state)
    BY <1>1 DEF CommitFits
  <2>1. Start(w, e)
    BY <1>3
  <2> HIDE DEF c
  <2>2. k = Checkpoint(c.checkpoint.id, c.checkpoint.rev, c.checkpoint.hist, OtherState)
    BY <2>0 DEF Checkpoint
  <2> HIDE DEF k
  <2>3. e = [checkpoint |-> k, parent |-> c.parent, kind |-> c.kind, base |-> c.base, msgs |-> c.msgs]
    BY <2>0
  <2>4. \A x : [e EXCEPT !.checkpoint = x] = [c EXCEPT !.checkpoint = x]
    BY <2>0, <2>3
  <2> HIDE DEF e
  <2>5. k.id = c.checkpoint.id /\ k.rev = c.checkpoint.rev /\ k = Checkpoint(k.id, k.rev, k.hist, k.state)
    BY <2>2 DEF Checkpoint
  <2>6. Id(e) = Id(c) /\ CommitFits(e, w, tries + 1)
    BY <1>1, <2>3, <2>5 DEF Id, CommitFits, c
  <2> QED
    BY <1>1, <2>1, <2>4, <2>6, StartStep DEF c
<1> QED
  BY <1>2, <1>3 DEF CommitAgain

-----------------------------------------------------------------------------
(* get_head().                                                             *)
LEMMA HostReads ==
    ASSUME RepositoryInv, NEW w \in Hosts, op[w].phase \notin CommitPhases, life[w] # "closed", NEW x, NEW cp,
           op' = [op EXCEPT ![w] = x], known' = known \/ known' = [known EXCEPT ![w] = cp],
           UNCHANGED <<adapter, latest, life, tries, stored, past>>, x.phase \notin CommitPhases,
           x.phase \in {"ledger", "chunks"} =>
               x = [phase |-> x.phase, head |-> x.head, chunks |-> x.chunks] /\ InLedger(db, x.head.digest),
           known' = known => op[w].phase # "damaged",
           known' # known => x.phase = "damaged" \/ cp = None \/ InLedger(db, cp)
    PROVE  KeepsPromise
<1>0. /\ op = [v \in Hosts |-> op[v]] /\ known = [v \in Hosts |-> known[v]]
      /\ latest = [v \in Hosts |-> latest[v]] /\ life = [v \in Hosts |-> life[v]]
      /\ tries \in Nat /\ HostFits(w)
      /\ UNCHANGED <<adapter, latest, life, tries, db, lock, session, late, lost, accepted>>
  BY DEF RepositoryInv, stored, past
<1>1. op' = [v \in Hosts |-> op'[v]] /\ op'[w] = x /\ \A v \in Hosts \ {w} : op'[v] = op[v]
  BY <1>0, Excepted
<1>2. known' = [v \in Hosts |-> known'[v]] /\ (known' = known \/ known'[w] = cp)
      /\ \A v \in Hosts \ {w} : known'[v] = known[v]
  <2>1. CASE known' = known
    BY <1>0, <2>1
  <2>2. CASE known' = [known EXCEPT ![w] = cp]
    BY <1>0, <2>2, Excepted
  <2> QED
    BY <2>1, <2>2
<1>3. Frame(w)
  BY <1>0, <1>1, <1>2 DEF Frame
<1>4. ~Committing(w) /\ ~Committing(w)'
  BY <1>1 DEF Committing, CommitPhases
<1>5. HostFits(w)'
  <2>1. OpFits(w)'
    BY <1>0, <1>1 DEF OpFits
  <2>2. KnownFits(w)'
    BY <1>0, <1>1, <1>2 DEF HostFits, KnownFits
  <2>3. LatestFits(w)' /\ OwnFits(w)'
    BY <1>0, <1>4 DEF HostFits, LatestFits, OwnFits
  <2>4. LockFits(w)'
    BY <1>1 DEF LockFits, CommitPhases
  <2>5. QuietFits(w)'
    BY <1>0 DEF QuietFits
  <2> QED
    BY <2>1, <2>2, <2>3, <2>4, <2>5 DEF HostFits
<1>6. tries' \in Nat /\ tries <= tries' /\ accepted \subseteq accepted' /\ db' = db /\ lock' = lock
      /\ latest'[w] = latest[w] /\ tries' = tries /\ lost' = lost /\ session' = session /\ late' = late
  BY <1>0
<1>7. StillWaits(w)
  BY <1>4 DEF StillWaits, Waits
<1>8. SessionFits' /\ LateFits'
  BY <1>3, <1>6, <1>7, ServersStay
<1>9. LostFits'
  BY <1>3, <1>6, LostStays
<1>10. RepositoryInv'
  BY <1>3, <1>5, <1>6, <1>8, <1>9, OneHost
<1>11. Open' = Open
  BY <1>3, <1>4, <1>6, FrameCalls, OpenSame DEF SameCall
<1> QED
  BY <1>0, <1>10, <1>11, Unanswered DEF KeepsPromise

LEMMA ReadDoneStep ==
    ASSUME RepositoryInv, NEW w \in Hosts, op[w].phase \in {"idle", "ledger", "chunks"}, life[w] # "closed",
           NEW cp, ReadDone(w, cp), cp = Damaged \/ cp = None \/ InLedger(db, cp)
    PROVE  KeepsPromise
<1> DEFINE x == IF cp = Damaged THEN [phase |-> "damaged"] ELSE Idle
<1>1. op' = [op EXCEPT ![w] = x] /\ known' = [known EXCEPT ![w] = cp]
      /\ UNCHANGED <<adapter, latest, life, tries, stored, past>>
  BY DEF ReadDone
<1>2. x.phase \in {"damaged", "idle"} /\ (cp = Damaged => x.phase = "damaged")
  BY DEF Idle
<1> HIDE DEF x
<1> QED
  BY <1>1, <1>2, HostReads DEF CommitPhases

LEMMA ReadStep ==
    ASSUME RepositoryInv, NEW w \in Hosts, ReadInProcess(w) \/ ReadHead(w) \/ ReadLedger(w) \/ ReadChunks(w)
    PROVE  KeepsPromise
<1>0. op[w].phase \in {"idle", "ledger", "chunks"} /\ life[w] # "closed"
  <2>1. CASE ReadInProcess(w) \/ ReadHead(w)
    BY <2>1 DEF ReadInProcess, ReadHead, BeginRead, Idle
  <2>2. CASE ReadLedger(w) \/ ReadChunks(w)
    <3>1. op[w].phase \in {"ledger", "chunks"} /\ op[w] # Idle
      BY <2>2 DEF ReadLedger, ReadChunks, Idle
    <3> QED
      BY <3>1, HostFacts DEF HostFits, QuietFits
  <2> QED
    BY <2>1, <2>2
<1>1. ~IsNone(db.head) => InLedger(db, db.head.digest)
  <2>1. ~IsNone(db.head) => db.head.id \in DOMAIN db.ledger /\ db.ledger[db.head.id].digest = db.head.digest
    BY HostFacts DEF DbFits, HeadFits
  <2> QED
    BY <2>1 DEF InLedger
<1>2. op[w].phase \in {"ledger", "chunks"} =>
          /\ op[w] = [phase |-> op[w].phase, head |-> op[w].head, chunks |-> op[w].chunks]
          /\ InLedger(db, op[w].head.digest)
  BY HostFacts DEF HostFits, OpFits
<1>3. CASE ReadInProcess(w)
  BY <1>0, <1>1, <1>3, ReadDoneStep DEF ReadInProcess
<1>4. CASE ReadHead(w)
  <2>1. CASE IsNone(db.head)
    BY <1>0, <1>4, <2>1, ReadDoneStep DEF ReadHead
  <2>2. CASE ~IsNone(db.head) /\ ~CoreMatches(db.head)
    BY <1>0, <1>4, <2>2, ReadDoneStep DEF ReadHead
  <2>3. CASE ~IsNone(db.head) /\ CoreMatches(db.head)
    <3> DEFINE x == [phase |-> "ledger", head |-> db.head, chunks |-> <<>>]
    <3>1. op' = [op EXCEPT ![w] = x] /\ UNCHANGED <<adapter, known, latest, tries, life, stored, faults, past>>
      BY <1>4, <2>3 DEF ReadHead
    <3>2. x = [phase |-> x.phase, head |-> x.head, chunks |-> x.chunks] /\ x.phase = "ledger" /\ x.head = db.head
      OBVIOUS
    <3> HIDE DEF x
    <3> QED
      BY <1>0, <1>1, <2>3, <3>1, <3>2, HostReads DEF CommitPhases
  <2> QED
    BY <2>1, <2>2, <2>3
<1>5. CASE ReadLedger(w)
  <2>1. CASE ReadDone(w, Damaged)
    BY <1>0, <2>1, ReadDoneStep
  <2>2. CASE op' = [op EXCEPT ![w].phase = "chunks"]
             /\ UNCHANGED <<adapter, known, latest, tries, life, stored, faults, past>>
    <3> DEFINE o == op[w]
               x == [o EXCEPT !.phase = "chunks"]
    <3>0. op[w].phase = "ledger" /\ o = [phase |-> o.phase, head |-> o.head, chunks |-> o.chunks]
          /\ InLedger(db, o.head.digest)
      BY <1>2, <1>5 DEF ReadLedger
    <3>1. op' = [op EXCEPT ![w] = x]
      BY <2>2
    <3> HIDE DEF o
    <3>2. x = [phase |-> "chunks", head |-> o.head, chunks |-> o.chunks]
      BY <3>0
    <3> HIDE DEF x
    <3>3. x = [phase |-> x.phase, head |-> x.head, chunks |-> x.chunks] /\ x.phase = "chunks" /\ x.head = o.head
      BY <3>2
    <3> QED
      BY <1>0, <2>2, <3>0, <3>1, <3>3, HostReads DEF CommitPhases
  <2> QED
    BY <1>5, <2>1, <2>2 DEF ReadLedger
<1>6. CASE ReadChunks(w)
  <2>1. \A chunks : Reconstruct(op[w].head, chunks) \in {op[w].head.digest, Damaged}
    BY DEF Reconstruct
  <2>2. PICK cp \in {op[w].head.digest, Damaged} : ReadDone(w, cp)
    BY <1>6, <2>1 DEF ReadChunks
  <2>3. InLedger(db, op[w].head.digest)
    BY <1>2, <1>6 DEF ReadChunks
  <2> QED
    BY <1>0, <2>2, <2>3, ReadDoneStep
<1> QED
  BY <1>3, <1>4, <1>5, <1>6

-----------------------------------------------------------------------------
(* close(), and the death of a host.                                       *)
LEMMA CloseStep == ASSUME RepositoryInv, NEW w \in Hosts, Close(w) \/ Closed(w) PROVE KeepsPromise
<1>0. PICK s \in {"closing", "closed"} :
          /\ s = "closed" => op[w] = Idle
          /\ life' = [life EXCEPT ![w] = s]
  BY DEF Close, Closed
<1>1. UNCHANGED <<adapter, db, lock, session, late, op, known, latest, tries, lost, accepted>>
  BY DEF Close, Closed, stored, hosts, past
<1>2. life' = [v \in Hosts |-> life'[v]] /\ life'[w] = s /\ \A v \in Hosts \ {w} : life'[v] = life[v]
  BY <1>0, Excepted DEF RepositoryInv
<1>3. ASSUME NEW v \in Hosts PROVE HostFits(v)'
  <2>1. HostFits(v)
    BY DEF RepositoryInv
  <2>2. OpFits(v)' /\ KnownFits(v)' /\ LatestFits(v)' /\ LockFits(v)'
    BY <1>1, <2>1 DEF HostFits, OpFits, KnownFits, LatestFits, LockFits
  <2>3. OwnFits(v)'
    BY <1>1, <2>1 DEF HostFits, OwnFits, Committing
  <2>4. QuietFits(v)'
    BY <1>0, <1>1, <1>2, <2>1 DEF HostFits, QuietFits
  <2> QED
    BY <2>2, <2>3, <2>4 DEF HostFits
<1>4. LostFits' /\ SessionFits'
  BY <1>1 DEF RepositoryInv, LostFits, SessionFits, Waits, Committing
<1>5. LateFits'
  BY <1>1 DEF RepositoryInv, LateFits, Waits, Committing, Attempt
<1>6. RepositoryInv'
  BY <1>1, <1>2, <1>3, <1>4, <1>5 DEF RepositoryInv
<1>7. Open' = Open
  BY <1>1, OpenSame DEF SameCall, Committing, Attempt
<1> QED
  BY <1>1, <1>6, <1>7, Unanswered DEF KeepsPromise

LEMMA CrashStep == ASSUME RepositoryInv, NEW w \in Hosts, Crash(w) PROVE KeepsPromise
<1>0. /\ op = [v \in Hosts |-> op[v]] /\ known = [v \in Hosts |-> known[v]]
      /\ latest = [v \in Hosts |-> latest[v]] /\ life = [v \in Hosts |-> life[v]]
      /\ tries \in Nat
  BY DEF RepositoryInv
<1>1. /\ op' = [op EXCEPT ![w] = Idle] /\ known' = [known EXCEPT ![w] = None]
      /\ latest' = [latest EXCEPT ![w] = None] /\ life' = [life EXCEPT ![w] = "open"]
      /\ lost' = IF Committing(w) THEN lost \cup {Attempt(w)} ELSE lost
      /\ lock' = IF lock = w THEN "free" ELSE lock
      /\ UNCHANGED <<adapter, session, tries, accepted>>
  BY DEF Crash
<1>2. op' = [v \in Hosts |-> op'[v]] /\ op'[w] = Idle /\ \A v \in Hosts \ {w} : op'[v] = op[v]
  BY <1>0, <1>1, Excepted
<1>3. known' = [v \in Hosts |-> known'[v]] /\ known'[w] = None /\ \A v \in Hosts \ {w} : known'[v] = known[v]
  BY <1>0, <1>1, Excepted
<1>4. latest' = [v \in Hosts |-> latest'[v]] /\ latest'[w] = None /\ \A v \in Hosts \ {w} : latest'[v] = latest[v]
  BY <1>0, <1>1, Excepted
<1>5. life' = [v \in Hosts |-> life'[v]] /\ life'[w] = "open" /\ \A v \in Hosts \ {w} : life'[v] = life[v]
  BY <1>0, <1>1, Excepted
<1>6. Frame(w)
  BY <1>1, <1>2, <1>3, <1>4, <1>5 DEF Frame
<1>7. HostFits(w)'
  <2>1. op'[w].phase = "idle"
    BY <1>2 DEF Idle
  <2>2. OpFits(w)' /\ LockFits(w)'
    BY <2>1 DEF OpFits, LockFits, CommitPhases
  <2> QED
    BY <1>3, <1>4, <1>5, <2>2 DEF HostFits, KnownFits, LatestFits, OwnFits, QuietFits
<1>8. /\ db' = db \/ (op[w].phase = "locked" /\ Takes(w))
      /\ op[w].phase # "eval" => late' = late
      /\ late' = late \/ (late' = late \cup {Attempt(w)} /\ op[w].phase = "eval")
  <2>1. \/ UNCHANGED <<db, late>>
        \/ op[w].phase = "locked" /\ db' = Written(op[w].commit) /\ UNCHANGED late
        \/ op[w].phase = "eval" /\ late' = late \cup {Attempt(w)} /\ UNCHANGED db
    BY DEF Crash
  <2> QED
    BY <2>1, WrittenUnderLock
<1>9. OthersKeepLocks(w) /\ (IsNone(session) \/ (lock' = lock /\ db' = db))
  <2>1. CASE op[w].phase = "locked"
    BY <2>1, Alone
  <2>2. CASE op[w].phase # "locked"
    <3>1. db' = db /\ (lock' = lock \/ (lock = w /\ lock' = "free"))
      BY <1>1, <1>8, <2>2
    <3> QED
      BY <3>1, Releases
  <2> QED
    BY <2>1, <2>2
<1>10. Committing(w) => /\ op[w].phase \in CommitPhases /\ CommitFits(op[w].commit, w, tries)
                        /\ op[w].try \in Int /\ 1 <= op[w].try /\ op[w].try <= tries
                        /\ op[w].phase = "eval" => adapter \in Redis
                        /\ Attempt(w) \in lost' /\ Attempt(w).who = w /\ Attempt(w).try = op[w].try
                        /\ Attempt(w).commit = op[w].commit
  BY <1>1, HostFacts DEF HostFits, OpFits, Committing, CommitPhases, Attempt
<1>11. LostFits'
  <2> SUFFICES ASSUME NEW a \in lost'
               PROVE  /\ a.who \in Hosts /\ a.try \in Int /\ 1 <= a.try /\ a.try <= tries
                      /\ CommitFits(a.commit, a.who, tries)
                      /\ latest'[a.who] # None => Id(a.commit) # Id(latest'[a.who])
    BY <1>1 DEF LostFits
  <2>1. CASE a \in lost
    <3>1. /\ a.who \in Hosts /\ a.try \in Int /\ 1 <= a.try /\ a.try <= tries
          /\ CommitFits(a.commit, a.who, tries)
          /\ latest[a.who] # None => Id(a.commit) # Id(latest[a.who])
      BY <2>1 DEF RepositoryInv, LostFits
    <3> QED
      BY <1>4, <3>1
  <2>2. CASE a \notin lost
    <3>1. Committing(w) /\ a = Attempt(w)
      BY <1>1, <2>2
    <3> QED
      BY <1>4, <1>10, <3>1
  <2> QED
    BY <2>1, <2>2
<1>12. lost \subseteq lost'
  BY <1>1
<1>13. SessionFits'
  <2> SUFFICES ASSUME ~IsNone(session)
               PROVE  /\ adapter = "mysql" /\ lock' = "session" /\ New(db', session.commit)
                      /\ \/ \E a \in lost' : a.commit = session.commit
                         \/ \E v \in Hosts : (Waits(v) /\ op[v].phase = "retry" /\ op[v].commit = session.commit)'
    BY <1>1 DEF SessionFits
  <2>1. /\ adapter = "mysql" /\ lock = "session" /\ New(db, session.commit) /\ lock' = lock /\ db' = db
        /\ \/ \E a \in lost : a.commit = session.commit
           \/ \E v \in Hosts : Waits(v) /\ op[v].phase = "retry" /\ op[v].commit = session.commit
    BY <1>9 DEF RepositoryInv, SessionFits
  <2>2. ASSUME NEW v \in Hosts, Waits(v), op[v].phase = "retry", op[v].commit = session.commit
        PROVE  \/ \E a \in lost' : a.commit = session.commit
               \/ (Waits(v) /\ op[v].phase = "retry" /\ op[v].commit = session.commit)'
    <3>1. CASE v = w
      <4>1. Committing(w)
        BY <2>2, <3>1 DEF Waits
      <4> QED
        BY <1>10, <2>2, <3>1, <4>1
    <3>2. CASE v # w
      <4>1. op'[v] = op[v]
        BY <1>2, <3>2
      <4> QED
        BY <1>1, <2>2, <4>1 DEF Waits, Committing
    <3> QED
      BY <3>1, <3>2
  <2> QED
    BY <1>12, <2>1, <2>2
<1>14. LateFits'
  <2> SUFFICES ASSUME NEW a \in late'
               PROVE  /\ adapter \in Redis /\ a.who \in Hosts /\ CommitFits(a.commit, a.who, tries)
                      /\ CommandsInOrder =>
                             a \in lost' \/ \E v \in Hosts : (Waits(v) /\ op[v].phase = "probe" /\ a = Attempt(v))'
    BY <1>1 DEF LateFits
  <2>1. CASE a \notin late
    <3>1. a = Attempt(w) /\ op[w].phase = "eval"
      BY <1>8, <2>1
    <3>2. Committing(w)
      BY <3>1 DEF Committing
    <3> QED
      BY <1>10, <3>1, <3>2
  <2>2. CASE a \in late
    <3>1. /\ adapter \in Redis /\ a.who \in Hosts /\ CommitFits(a.commit, a.who, tries)
          /\ CommandsInOrder => a \in lost \/ \E v \in Hosts : Waits(v) /\ op[v].phase = "probe" /\ a = Attempt(v)
      BY <2>2 DEF RepositoryInv, LateFits
    <3>2. ASSUME NEW v \in Hosts, Waits(v), op[v].phase = "probe", a = Attempt(v)
          PROVE  a \in lost' \/ (Waits(v) /\ op[v].phase = "probe" /\ a = Attempt(v))'
      <4>1. CASE v = w
        BY <1>10, <3>2, <4>1 DEF Waits
      <4>2. CASE v # w
        BY <1>2, <3>2, <4>2 DEF Waits, Committing, Attempt
      <4> QED
        BY <4>1, <4>2
    <3> QED
      BY <1>12, <3>1, <3>2
  <2> QED
    BY <2>1, <2>2
<1>15. tries' \in Nat /\ tries <= tries' /\ accepted \subseteq accepted'
  BY <1>0, <1>1
<1>16. RepositoryInv'
  BY <1>6, <1>7, <1>8, <1>9, <1>11, <1>13, <1>14, <1>15, OneHost DEF Takes, OthersKeepLocks
<1>17. Open' = Open
  <2>1. ~Committing(w)'
    BY <1>2 DEF Committing, Idle
  <2>2. \A v \in Hosts \ {w} : SameCall(v)
    BY <1>6, FrameCalls
  <2>3. {v \in Hosts : Committing(v)}' = {v \in Hosts : Committing(v)} \ {w}
    BY <2>1, <2>2 DEF SameCall
  <2>4. {Attempt(x) : x \in {v \in Hosts : Committing(v)}}' = {Attempt(x) : x \in {v \in Hosts : Committing(v)} \ {w}}
    BY <2>2, <2>3 DEF SameCall
  <2>5. CASE Committing(w)
    <3>1. lost' = lost \cup {Attempt(w)}
      BY <1>1, <2>5
    <3> QED
      BY <2>4, <2>5, <3>1 DEF Open
  <2>6. CASE ~Committing(w)
    <3>1. lost' = lost
      BY <1>1, <2>6
    <3> QED
      BY <2>4, <2>6, <3>1 DEF Open
  <2> QED
    BY <2>5, <2>6
<1>18. db' = db \/ \E a \in Open : \E v \in Hosts :
                       CommitFits(a.commit, v, tries) /\ New(db, a.commit) /\ db' = Publish(db, a.commit)
  BY <1>8, OpenFacts DEF Takes
<1>19. accepted' = accepted
  BY <1>1
<1> QED
  BY <1>16, <1>17, <1>18, <1>19, Unanswered DEF KeepsPromise

-----------------------------------------------------------------------------
(* A transaction or a command that the server has and nobody waits for.    *)
LEMMA ServerLands ==
    ASSUME RepositoryInv, NEW c, NEW u \in Hosts, CommitFits(c, u, tries),
           db' = db \/ (New(db, c) /\ db' = Publish(db, c)),
           CommandsInOrder => \/ \E a \in lost : a.commit = c
                              \/ \E v \in Hosts : Waits(v) /\ op[v].commit = c,
           UNCHANGED <<adapter, op, hosts, life, past>>,
           \A v \in Hosts : op[v].phase \notin {"locked", "gap"},
           SessionFits', LateFits'
    PROVE  KeepsPromise
<1>0. UNCHANGED <<adapter, op, known, latest, tries, life, lost, accepted>> /\ tries' \in Nat /\ tries <= tries'
  BY DEF hosts, past, RepositoryInv
<1>1. DbFits(db', tries') /\ Grows(db, db')
  <2>1. DbMoves
    BY DEF DbMoves
  <2> QED
    BY <1>0, <2>1, DbStep
<1>2. ASSUME NEW w \in Hosts PROVE HostFits(w)'
  <2>1. OwnLands(w)
    <3> SUFFICES ASSUME CommandsInOrder, latest[w] # None, Id(latest[w]) \in DOMAIN db'.ledger \ DOMAIN db.ledger
                 PROVE  Waits(w) /\ db'.ledger[Id(latest[w])].digest = latest[w].checkpoint
      BY DEF OwnLands
    <3>1. New(db, c) /\ db' = Publish(db, c)
      OBVIOUS
    <3>2. /\ DOMAIN Publish(db, c).ledger = {Id(c)} \cup DOMAIN db.ledger
          /\ Publish(db, c).ledger[Id(c)] = [rev |-> c.checkpoint.rev, digest |-> c.checkpoint]
      BY <3>1, Published DEF New
    <3>3. Id(latest[w]) = Id(c) /\ db'.ledger[Id(c)].digest = c.checkpoint
      BY <3>1, <3>2
    <3>4. IdOf(Id(c), w, tries)
      BY <3>3, HostFacts DEF HostFits, LatestFits, CommitFits
    <3>5. ASSUME NEW a \in lost, a.commit = c PROVE FALSE
      <4>1. /\ a.who \in Hosts /\ CommitFits(a.commit, a.who, tries)
            /\ latest[a.who] # None => Id(a.commit) # Id(latest[a.who])
        BY DEF RepositoryInv, LostFits
      <4>2. a.who = w
        BY <3>4, <3>5, <4>1 DEF CommitFits, IdOf
      <4> QED
        BY <3>3, <3>5, <4>1, <4>2
    <3>6. PICK v \in Hosts : Waits(v) /\ op[v].commit = c
      BY <3>5
    <3>7. op[v].phase \in CommitPhases
      BY <3>6 DEF Waits, Committing, CommitPhases
    <3>8. CommitFits(op[v].commit, v, tries) /\ op[v].commit = latest[v]
      BY <3>7, HostFacts DEF HostFits, OpFits
    <3>9. v = w
      BY <3>4, <3>6, <3>8 DEF CommitFits, IdOf
    <3> QED
      BY <3>3, <3>6, <3>8, <3>9
  <2> QED
    BY <1>0, <1>1, <2>1, HostOther
<1>3. LostFits'
  BY <1>0 DEF RepositoryInv, LostFits
<1>4. RepositoryInv'
  BY <1>0, <1>1, <1>2, <1>3 DEF RepositoryInv
<1>5. Open' = Open
  BY <1>0, OpenSame DEF SameCall, Committing, Attempt
<1>6. CommandsInOrder => \E a \in Open : a.commit = c
  BY OpenFacts DEF Open, Waits
<1>7. CommandsInOrder => ChainStep
  BY <1>0, <1>5, <1>6, Unanswered
<1> QED
  BY <1>4, <1>7 DEF KeepsPromise

LEMMA SessionEndsStep == ASSUME RepositoryInv, SessionEnds PROVE KeepsPromise
<1> DEFINE c == session.commit
<1>1. /\ ~IsNone(session) /\ db' \in {db, Publish(db, c)} /\ session' = None /\ lock' = "free"
      /\ UNCHANGED <<adapter, op, hosts, life, late, faults, past>>
  BY DEF SessionEnds
<1>2. /\ adapter = "mysql" /\ lock = "session" /\ New(db, c)
      /\ \/ \E a \in lost : a.commit = c
         \/ \E v \in Hosts : Waits(v) /\ op[v].commit = c
  BY <1>1 DEF RepositoryInv, SessionFits
<1>3. \E u \in Hosts : CommitFits(c, u, tries)
  <2>1. CASE \E a \in lost : a.commit = c
    BY <2>1 DEF RepositoryInv, LostFits
  <2>2. CASE \E v \in Hosts : Waits(v) /\ op[v].commit = c
    <3>1. PICK v \in Hosts : Waits(v) /\ op[v].commit = c
      BY <2>2
    <3>2. op[v].phase \in CommitPhases
      BY <3>1 DEF Waits, Committing, CommitPhases
    <3> QED
      BY <3>1, <3>2, HostFacts
  <2> QED
    BY <1>2, <2>1, <2>2
<1>4. \A v \in Hosts : op[v].phase \notin {"locked", "gap"}
  <2> SUFFICES ASSUME NEW v \in Hosts PROVE op[v].phase \notin {"locked", "gap"}
    OBVIOUS
  <2> QED
    BY <1>2, HostFacts DEF HostFits, LockFits
<1>5. SessionFits' /\ LateFits'
  BY <1>1, <1>2 DEF SessionFits, LateFits, IsNone, None, RepositoryInv, Redis
<1> HIDE DEF c
<1> QED
  BY <1>1, <1>2, <1>3, <1>4, <1>5, ServerLands

LEMMA LateStep == ASSUME RepositoryInv, LateCommandRuns PROVE KeepsPromise
<1>1. PICK a \in late :
          /\ late' = late \ {a}
          /\ db' \in {db, IF ScriptVerdict(db, a.commit) = "new" THEN Publish(db, a.commit) ELSE db}
  BY DEF LateCommandRuns
<1>2. UNCHANGED <<adapter, op, hosts, life, lock, session, faults, past>>
  BY DEF LateCommandRuns
<1>3. /\ adapter \in Redis /\ a.who \in Hosts /\ CommitFits(a.commit, a.who, tries)
      /\ CommandsInOrder => a \in lost \/ \E v \in Hosts : Waits(v) /\ op[v].phase = "probe" /\ a = Attempt(v)
  BY DEF RepositoryInv, LateFits
<1>4. CommandsInOrder => \/ \E b \in lost : b.commit = a.commit
                         \/ \E v \in Hosts : Waits(v) /\ op[v].commit = a.commit
  BY <1>3 DEF Attempt
<1>5. db' = db \/ (New(db, a.commit) /\ db' = Publish(db, a.commit))
  BY <1>1, HostFacts, DecidedElsewhere DEF RepositoryInv
<1>6. \A v \in Hosts : op[v].phase \notin {"locked", "gap"}
  BY <1>3 DEF RepositoryInv, HostFits, OpFits, CommitPhases, Redis
<1>7. SessionFits'
  BY <1>2, <1>3, Alone DEF SessionFits, RepositoryInv, Redis
<1>8. LateFits'
  BY <1>1, <1>2 DEF RepositoryInv, LateFits, Waits, Committing, Attempt, hosts, past
<1> QED
  BY <1>2, <1>3, <1>4, <1>5, <1>6, <1>7, <1>8, ServerLands

-----------------------------------------------------------------------------
(* The invariant.                                                          *)
LEMMA InitFits == ASSUME Init PROVE RepositoryInv
<1>1. /\ db = EmptyDb /\ lock = "free" /\ session = None /\ late = {} /\ lost = {} /\ tries = 0
      /\ op = [w \in Hosts |-> Idle] /\ latest = [w \in Hosts |-> None] /\ life = [w \in Hosts |-> "open"]
      /\ known = [w \in Hosts |-> known[w]] /\ \A w \in Hosts : known[w] \in {None, Foreign}
  <2> DEFINE stray == CHOOSE w \in Hosts : TRUE
  <2>1. known = [w \in Hosts |-> IF w = stray /\ faults = 1 THEN Foreign ELSE None]
    BY DEF Init
  <2> HIDE DEF stray
  <2> QED
    BY <2>1 DEF Init
<1>2. DbFits(db, 0)
  <2>1. DOMAIN db.ledger = {} /\ db.head = None /\ IsNone(db.head) /\ db.head.rev = -1
    BY <1>1 DEF EmptyDb, None, IsNone
  <2>2. LedgerOf(db) = {}
    BY <2>1 DEF LedgerOf
  <2>3. IsFiniteSet(LedgerOf(db)) /\ Cardinality(LedgerOf(db)) = 0
    BY <2>2, FS_EmptySet
  <2>4. 0..db.head.rev = {}
    BY <2>1
  <2> QED
    BY <2>1, <2>3, <2>4 DEF DbFits
<1>3. ASSUME NEW w \in Hosts PROVE HostFits(w)
  BY <1>1 DEF HostFits, OpFits, KnownFits, LatestFits, OwnFits, LockFits, QuietFits, Idle, CommitPhases
<1>4. LostFits /\ SessionFits /\ LateFits
  BY <1>1 DEF LostFits, SessionFits, LateFits, IsNone, None
<1> QED
  BY <1>1, <1>2, <1>3, <1>4 DEF RepositoryInv

LEMMA StutterFits == ASSUME RepositoryInv, UNCHANGED vars PROVE KeepsPromise
<1>1. UNCHANGED <<adapter, db, lock, op, known, latest, life, session, late, tries, lost, accepted>>
  BY DEF vars
<1>2. ASSUME NEW v \in Hosts PROVE HostFits(v)'
  <2>1. HostFits(v)
    BY DEF RepositoryInv
  <2>2. OpFits(v)' /\ KnownFits(v)' /\ LatestFits(v)' /\ LockFits(v)' /\ QuietFits(v)'
    BY <1>1, <2>1 DEF HostFits, OpFits, KnownFits, LatestFits, LockFits, QuietFits
  <2>3. OwnFits(v)'
    BY <1>1, <2>1 DEF HostFits, OwnFits, Committing
  <2> QED
    BY <2>2, <2>3 DEF HostFits
<1>3. LostFits' /\ SessionFits'
  BY <1>1 DEF RepositoryInv, LostFits, SessionFits, Waits, Committing
<1>4. LateFits'
  BY <1>1 DEF RepositoryInv, LateFits, Waits, Committing, Attempt
<1>5. RepositoryInv'
  BY <1>1, <1>2, <1>3, <1>4 DEF RepositoryInv
<1>6. Open' = Open
  BY <1>1, OpenSame DEF SameCall, Committing, Attempt
<1> QED
  BY <1>1, <1>5, <1>6, Unanswered DEF KeepsPromise

LEMMA StepFits == ASSUME RepositoryInv, [Next]_vars PROVE KeepsPromise
<1>1. ASSUME NEW w \in Hosts, Works(w) PROVE KeepsPromise
  BY <1>1, InProcessStep, SqliteStep, MysqlLockStep, MysqlDeadlockStep, MysqlCommitStep, RedisProbeStep,
     RedisCommitStep, ReadStep, CloseStep DEF Works
<1>2. ASSUME NEW w \in Hosts, Fails(w) PROVE KeepsPromise
  BY <1>2, SqliteStep, MysqlFailStep, MysqlCommitStep, RedisProbeStep, RedisCommitStep, CrashStep DEF Fails
<1>3. ASSUME NEW w \in Hosts, \/ Commit(w) \/ CommitAgain(w) \/ Withdraw(w)
                              \/ ReadInProcess(w) \/ ReadHead(w) \/ Close(w)
      PROVE  KeepsPromise
  BY <1>3, CommitStep, CommitAgainStep, SqliteStep, ReadStep, CloseStep
<1> QED
  BY <1>1, <1>2, <1>3, SessionEndsStep, LateStep, StutterFits DEF Next

(* Every reachable state fits, for any hosts, states and bounds: the       *)
(* invariant that the theorems about the repositories rest on.             *)
THEOREM RepositoryFits == Spec => []RepositoryInv
<1>1. Init => RepositoryInv
  BY InitFits
<1>2. RepositoryInv /\ [Next]_vars => RepositoryInv'
  BY StepFits DEF KeepsPromise
<1> QED
  BY <1>1, <1>2, PTL DEF Spec

LEMMA ChainBegins == ASSUME Init PROVE Abstract!Init
<1>1. db.head.rev = -1 /\ accepted = {} /\ lost = {} /\ \A w \in Hosts : op[w].phase = "idle"
  BY DEF Init, EmptyDb, None, Idle
<1>2. RepositoryInv
  BY InitFits
<1>3. Len(ChainOf(db)) = 0 /\ ChainOf(db) \in Seq({entry.digest : entry \in LedgerOf(db)})
  <2>1. DbFits(db, tries) /\ tries \in Nat
    BY <1>2 DEF RepositoryInv
  <2>2. /\ ChainOf(db) \in Seq({entry.digest : entry \in LedgerOf(db)})
        /\ Len(ChainOf(db)) = db.head.rev + 1
    BY <2>1, ChainLen
  <2> QED
    BY <1>1, <2>2
<1>4. ChainOf(db) = <<>>
  BY <1>3, EmptySeq, SeqEqual
<1>5. Open = {}
  BY <1>1 DEF Open, Committing
<1> QED
  BY <1>1, <1>4, <1>5, ChainIs DEF Abstract!Init

(* Every adapter implements the append-only chain: whatever is accepted    *)
(* continues it, a commit is accepted only when it is in it and refused    *)
(* only when it is not, or was accepted before (_accept_existing, the      *)
(* settlement of commits whose outcome is unknown), for any number of      *)
(* hosts, calls, crashes and lost replies.                                 *)
THEOREM ImplementsChainAlways == ASSUME CommandsInOrder PROVE Spec => ImplementsChain
<1>1. Init => RepositoryInv /\ Abstract!Init
  BY InitFits, ChainBegins
<1>2. RepositoryInv /\ [Next]_vars => RepositoryInv' /\ [Abstract!Next]_(Abstract!vars)
  BY StepFits DEF KeepsPromise, ChainStep, Abstract!vars
<1> QED
  BY <1>1, <1>2, PTL DEF Spec, ImplementsChain, Abstract!Spec

LEMMA QuietStep ==
    ASSUME RepositoryInv, RepositoryInv', ChainStep,
           NEW id \in DOMAIN db'.ledger \ DOMAIN db.ledger, life[id[1]] = "closed"
    PROVE  \E a \in lost : Id(a.commit) = id
<1> DEFINE cp == db'.ledger[id].digest
<1>1. DbFits(db, tries) /\ tries \in Nat /\ DbFits(db', tries') /\ tries' \in Nat
  BY DEF RepositoryInv
<1>2. cp.id = id /\ InLedger(db', cp)
  BY <1>1 DEF DbFits, EntryFits, InLedger
<1>3. ~InLedger(db, cp)
  <2> SUFFICES ASSUME NEW j \in DOMAIN db.ledger, db.ledger[j].digest = cp PROVE FALSE
    BY DEF InLedger
  <2>1. cp.id = j
    BY <1>1 DEF DbFits, EntryFits
  <2> QED
    BY <1>2, <2>1
<1> HIDE DEF cp
<1>4. Chain = ChainOf(db) /\ Chain' = ChainOf(db')
  BY ChainIs DEF Chain, Ledger, ChainOf, LedgerOf
<1>5. /\ \E i \in 1..Len(Chain') : Chain'[i] = cp
      /\ ~\E i \in 1..Len(Chain) : Chain[i] = cp
  BY <1>1, <1>2, <1>3, <1>4, InChain
<1>6. PICK a \in Open : Chain' = Append(Chain, a.commit.checkpoint)
  <2>1. Chain' # Chain
    BY <1>5
  <2> QED
    BY <2>1 DEF ChainStep, Abstract!Next, Abstract!Begin, Abstract!Land, Abstract!LandAndAccept, Abstract!Lands,
                Abstract!Accept, Abstract!Refuse
<1>7. Chain \in Seq({entry.digest : entry \in LedgerOf(db)})
  BY <1>1, <1>4, ChainLen
<1>8. cp = a.commit.checkpoint
  <2> DEFINE x == a.commit.checkpoint
             n == Len(Chain)
  <2>1. n \in Nat /\ Len(Chain') = n + 1 /\ Chain'[n + 1] = x /\ \A i \in 1..n : Chain'[i] = Chain[i]
    BY <1>6, <1>7
  <2> HIDE DEF x, n
  <2>2. PICK i \in 1..(n + 1) : Chain'[i] = cp
    BY <1>5, <2>1
  <2>3. i \notin 1..n
    BY <1>5, <2>1, <2>2 DEF n
  <2>4. i = n + 1
    BY <2>1, <2>3
  <2> QED
    BY <2>1, <2>2, <2>4 DEF x
<1>9. Id(a.commit) = id
  BY <1>2, <1>8 DEF Id
<1>10. ASSUME NEW w \in Hosts, Committing(w), a = Attempt(w) PROVE FALSE
  <2>1. a.commit = op[w].commit /\ CommitFits(op[w].commit, w, tries)
    BY <1>10, OpenFacts
  <2>2. id[1] = w
    BY <1>9, <2>1 DEF CommitFits, IdOf
  <2>3. op[w] = Idle
    BY <2>2 DEF RepositoryInv, HostFits, QuietFits
  <2> QED
    BY <1>10, <2>3 DEF Committing, Idle
<1> QED
  BY <1>6, <1>9, <1>10 DEF Open

(* Once close() has returned, nothing of the instance reaches the store    *)
(* but what an earlier, crashed instance had sent.                         *)
THEOREM QuietAfterCloseAlways == ASSUME CommandsInOrder PROVE Spec => QuietAfterClose
<1>1. Init => RepositoryInv
  BY InitFits
<1>2. RepositoryInv /\ [Next]_vars =>
          /\ RepositoryInv'
          /\ [\A id \in DOMAIN db'.ledger \ DOMAIN db.ledger :
                 life[id[1]] = "closed" => \E a \in lost : Id(a.commit) = id]_vars
  <2> SUFFICES ASSUME RepositoryInv, [Next]_vars
               PROVE  /\ RepositoryInv'
                      /\ \A id \in DOMAIN db'.ledger \ DOMAIN db.ledger :
                             life[id[1]] = "closed" => \E a \in lost : Id(a.commit) = id
    OBVIOUS
  <2>1. RepositoryInv' /\ ChainStep
    BY StepFits DEF KeepsPromise
  <2> QED
    BY <2>1, QuietStep
<1> QED
  BY <1>1, <1>2, PTL DEF Spec, QuietAfterClose

(* What a host builds on, read by get_head() or committed, is a checkpoint *)
(* of the chain (or nothing, or the stray one of another store), unless    *)
(* the read reported damage: never a mixture of two commits.               *)
KnownIsCommitted ==
    \A w \in Hosts : \/ op[w].phase = "damaged" \/ IsNone(known[w]) \/ known[w] = Foreign
                     \/ \E entry \in Ledger : entry.digest = known[w]

THEOREM KnownIsCommittedAlways == Spec => []KnownIsCommitted
<1>1. RepositoryInv => KnownIsCommitted
  BY DEF RepositoryInv, HostFits, KnownFits, KnownIsCommitted, InLedger, Ledger, IsNone, None
<1> QED
  BY <1>1, RepositoryFits, PTL

-----------------------------------------------------------------------------
(* Histories in pieces.  Concat joins piece after piece; that its          *)
(* recursion has a solution, and only one, needs induction, here over sets *)
(* of numbers.                                                             *)

LEMMA LeastNumber ==
    ASSUME NEW T, T \subseteq Nat, T # {}
    PROVE  \E n \in T : \A m \in T : n <= m
<1>1. IsWellFoundedOn(OpToRel(<,Nat), Nat)
  BY NatLessThanWellFounded, Zenon
<1>2. PICK x \in T : \A y \in T : <<y, x>> \notin OpToRel(<,Nat)
  BY <1>1, WFMin, Zenon
<1>3. \A y \in T : ~(y < x)
  BY <1>2 DEF OpToRel
<1> QED
  BY <1>3

LEMMA NumbersFromZero ==
    ASSUME NEW P, 0 \in P, \A n \in Nat : n \in P => n + 1 \in P
    PROVE  Nat \subseteq P
<1> SUFFICES ASSUME Nat \ P # {} PROVE FALSE
  OBVIOUS
<1>1. PICK n \in Nat \ P : \A m \in Nat \ P : n <= m
  BY LeastNumber, Zenon
<1>2. n # 0 /\ n - 1 \in Nat
  BY <1>1
<1>3. n - 1 \in P
  BY <1>1, <1>2
<1> QED
  BY <1>1, <1>2, <1>3

(* A sequence that is x followed by y. *)
Pair(M, x, y, w) ==
    /\ w \in Seq(M) /\ Len(w) = Len(x) + Len(y)
    /\ \A i \in 1..Len(x) : w[i] = x[i]
    /\ \A i \in 1..Len(y) : w[Len(x) + i] = y[i]

Glue(mine, chunk) == mine \o chunk

LEMMA Glued ==
    ASSUME NEW M, NEW x \in Seq(M), NEW y \in Seq(M)
    PROVE  Pair(M, x, y, Glue(x, y))
<1>1. x \o y \in Seq(M) /\ Len(x \o y) = Len(x) + Len(y)
  OBVIOUS
<1>2. ASSUME NEW i \in 1..Len(x) PROVE (x \o y)[i] = x[i]
  OBVIOUS
<1>3. ASSUME NEW i \in 1..Len(y) PROVE (x \o y)[Len(x) + i] = y[i]
  OBVIOUS
<1> QED
  BY <1>1, <1>2, <1>3 DEF Pair, Glue

LEMMA GlueFits ==
    ASSUME NEW M, NEW x \in Seq(M), NEW y \in Seq(M)
    PROVE  Glue(x, y) \in Seq(M) /\ Glue(x, <<>>) = x /\ Glue(<<>>, x) = x
BY DEF Glue

LEMMA Regroup ==
    ASSUME NEW M, NEW x \in Seq(M), NEW y \in Seq(M), NEW z \in Seq(M)
    PROVE  Glue(Glue(x, y), z) = Glue(x, Glue(y, z))
<1>1. PICK a : a = Glue(x, y) /\ Pair(M, x, y, a)
  BY Glued
<1>2. PICK b : b = Glue(y, z) /\ Pair(M, y, z, b)
  BY Glued
<1>0. a \in Seq(M) /\ b \in Seq(M)
  BY <1>1, <1>2 DEF Pair
<1>3. PICK l : l = Glue(a, z) /\ Pair(M, a, z, l)
  BY <1>0, Glued
<1>4. PICK r : r = Glue(x, b) /\ Pair(M, x, b, r)
  BY <1>0, Glued
<1>5. Len(x) \in Nat /\ Len(y) \in Nat /\ Len(z) \in Nat
  OBVIOUS
<1>6. l \in Seq(M) /\ r \in Seq(M) /\ Len(l) = Len(x) + Len(y) + Len(z) /\ Len(r) = Len(l)
  BY <1>1, <1>2, <1>3, <1>4, <1>5 DEF Pair
<1>7. ASSUME NEW i \in 1..Len(l) PROVE l[i] = r[i]
  <2>1. CASE i \in 1..Len(x)
    <3>1. i \in 1..Len(a)
      BY <1>1, <1>5, <2>1 DEF Pair
    <3> QED
      BY <1>1, <1>3, <1>4, <2>1, <3>1 DEF Pair
  <2>2. ASSUME NEW j \in 1..Len(y), i = Len(x) + j PROVE l[i] = r[i]
    <3>1. i \in 1..Len(a) /\ j \in 1..Len(b)
      BY <1>1, <1>2, <1>5, <2>2 DEF Pair
    <3>2. l[i] = y[j]
      BY <1>1, <1>3, <2>2, <3>1 DEF Pair
    <3>3. r[i] = y[j]
      BY <1>2, <1>4, <2>2, <3>1 DEF Pair
    <3> QED
      BY <3>2, <3>3
  <2>3. ASSUME NEW j \in 1..Len(z), i = Len(x) + Len(y) + j PROVE l[i] = r[i]
    <3>1. Len(y) + j \in 1..Len(b) /\ i = Len(a) + j /\ i = Len(x) + (Len(y) + j)
      BY <1>1, <1>2, <1>5, <2>3 DEF Pair
    <3>2. l[i] = z[j]
      BY <1>3, <3>1 DEF Pair
    <3>3. r[i] = b[Len(y) + j]
      BY <1>4, <3>1 DEF Pair
    <3>4. b[Len(y) + j] = z[j]
      BY <1>2 DEF Pair
    <3> QED
      BY <3>2, <3>3, <3>4
  <2>4. \/ i \in 1..Len(x)
        \/ i - Len(x) \in 1..Len(y) /\ i = Len(x) + (i - Len(x))
        \/ i - Len(x) - Len(y) \in 1..Len(z) /\ i = Len(x) + Len(y) + (i - Len(x) - Len(y))
    <3> DEFINE u == Len(x)
               v == Len(y)
               w == Len(z)
    <3>1. u \in Nat /\ v \in Nat /\ w \in Nat /\ i \in 1..(u + v + w)
      BY <1>5, <1>6
    <3> HIDE DEF u, v, w
    <3>2. \/ i \in 1..u
          \/ i - u \in 1..v /\ i = u + (i - u)
          \/ i - u - v \in 1..w /\ i = u + v + (i - u - v)
      BY <3>1
    <3> QED
      BY <3>2 DEF u, v, w
  <2> QED
    BY <2>1, <2>2, <2>3, <2>4
<1>8. l = r
  BY <1>6, <1>7, SeqEqual
<1> QED
  BY <1>1, <1>2, <1>3, <1>4, <1>8

Joins(f, chunks, k) ==
    f = [i \in 0..k |-> IF i = 0 THEN <<>> ELSE Glue(f[i - 1], chunks[i])]

LEMMA SomethingJoins ==
    ASSUME NEW chunks, NEW k \in Nat
    PROVE  \E f : Joins(f, chunks, k)
<1> DEFINE P == {n \in Nat : \E f : Joins(f, chunks, n)}
<1>1. 0 \in P
  <2>1. Joins([i \in 0..0 |-> <<>>], chunks, 0)
    BY DEF Joins
  <2> QED
    BY <2>1
<1>2. ASSUME NEW n \in Nat, n \in P PROVE n + 1 \in P
  <2>1. PICK f : Joins(f, chunks, n)
    BY <1>2
  <2> DEFINE g == [i \in 0..(n + 1) |->
                      IF i = n + 1 THEN Glue(f[n], chunks[n + 1]) ELSE f[i]]
  <2>2. f = [i \in 0..n |-> IF i = 0 THEN <<>> ELSE Glue(f[i - 1], chunks[i])]
    BY <2>1 DEF Joins
  <2>3. ASSUME NEW i \in 0..(n + 1)
        PROVE  g[i] = IF i = 0 THEN <<>> ELSE Glue(g[i - 1], chunks[i])
    <3>1. CASE i = n + 1
      <4>1. g[i] = Glue(f[n], chunks[i]) /\ i # 0
        BY <3>1
      <4>2. g[i - 1] = f[n]
        BY <3>1
      <4> QED
        BY <4>1, <4>2
    <3>2. CASE i # n + 1
      <4>1. i \in 0..n /\ g[i] = f[i]
        BY <3>2
      <4>2. i # 0 => g[i - 1] = f[i - 1]
        BY <4>1
      <4>3. f[i] = IF i = 0 THEN <<>> ELSE Glue(f[i - 1], chunks[i])
        BY <2>2, <4>1
      <4> QED
        BY <4>1, <4>2, <4>3
    <3> QED
      BY <3>1, <3>2
  <2>4. Joins(g, chunks, n + 1)
    BY <2>3 DEF Joins
  <2> QED
    BY <2>4
<1> HIDE DEF P
<1>3. Nat \subseteq P
  BY <1>1, <1>2, NumbersFromZero, Zenon
<1> QED
  BY <1>3 DEF P

LEMMA ConcatJoins ==
    ASSUME NEW M, NEW chunks \in Seq(M)
    PROVE  \E f : Joins(f, chunks, Len(chunks)) /\ Concat(chunks) = f[Len(chunks)]
<1> DEFINE mine == CHOOSE g : g = [i \in 0..Len(chunks) |->
                                     IF i = 0 THEN <<>> ELSE Glue(g[i - 1], chunks[i])]
<1>1. Concat(chunks) = mine[Len(chunks)]
  BY DEF Concat, Glue
<1>2. Len(chunks) \in Nat
  OBVIOUS
<1>3. Joins(mine, chunks, Len(chunks))
  BY <1>2, SomethingJoins DEF Joins
<1> QED
  BY <1>1, <1>3

LEMMA JoinsFits ==
    ASSUME NEW M, NEW chunks \in Seq(Seq(M)), NEW f, Joins(f, chunks, Len(chunks))
    PROVE  \A i \in 0..Len(chunks) : f[i] \in Seq(M)
<1> DEFINE k == Len(chunks)
           P == {n \in Nat : n <= k => f[n] \in Seq(M)}
<1>0. k \in Nat /\ \A i \in 1..k : chunks[i] \in Seq(M)
  OBVIOUS
<1> HIDE DEF k
<1>1. 0 \in P
  <2>1. f[0] = <<>>
    BY <1>0 DEF Joins, k
  <2> QED
    BY <2>1, EmptySeq
<1>2. ASSUME NEW n \in Nat, n \in P PROVE n + 1 \in P
  <2> SUFFICES ASSUME n + 1 <= k PROVE f[n + 1] \in Seq(M)
    OBVIOUS
  <2>1. n + 1 \in 0..k /\ n + 1 \in 1..k /\ n + 1 # 0 /\ (n + 1) - 1 = n /\ n <= k
    BY <1>0
  <2>2. f[n + 1] = Glue(f[n], chunks[n + 1])
    BY <2>1 DEF Joins, k
  <2>3. f[n] \in Seq(M)
    BY <1>2, <2>1
  <2> QED
    BY <1>0, <2>1, <2>2, <2>3, GlueFits
<1> HIDE DEF P
<1>3. Nat \subseteq P
  BY <1>1, <1>2, NumbersFromZero, Zenon
<1> QED
  BY <1>0, <1>3 DEF P, k

LEMMA ConcatFits ==
    ASSUME NEW M, NEW chunks \in Seq(Seq(M))
    PROVE  Concat(chunks) \in Seq(M)
<1>1. PICK f : Joins(f, chunks, Len(chunks)) /\ Concat(chunks) = f[Len(chunks)]
  BY ConcatJoins
<1>2. Len(chunks) \in 0..Len(chunks)
  OBVIOUS
<1> QED
  BY <1>1, <1>2, JoinsFits

(* What is joined from the pieces of p and then those of t. *)
LEMMA ConcatTwo ==
    ASSUME NEW M, NEW p \in Seq(Seq(M)), NEW t \in Seq(Seq(M)), NEW q \in Seq(Seq(M)),
           Len(q) = Len(p) + Len(t),
           \A i \in 1..Len(p) : q[i] = p[i], \A i \in 1..Len(t) : q[Len(p) + i] = t[i]
    PROVE  Concat(q) = Glue(Concat(p), Concat(t))
<1> DEFINE m == Len(p)
           n == Len(t)
<1>0. m \in Nat /\ n \in Nat /\ Len(q) = m + n
  OBVIOUS
<1>1. PICK f : Joins(f, p, m) /\ Concat(p) = f[m]
  BY ConcatJoins
<1>2. PICK g : Joins(g, t, n) /\ Concat(t) = g[n]
  BY ConcatJoins
<1>3. PICK h : Joins(h, q, m + n) /\ Concat(q) = h[m + n]
  BY <1>0, ConcatJoins
<1>4. /\ \A i \in 0..m : f[i] \in Seq(M)
      /\ \A i \in 0..n : g[i] \in Seq(M)
  BY <1>1, <1>2, JoinsFits
<1>5. /\ \A i \in 1..m : q[i] = p[i]
      /\ \A i \in 1..n : q[m + i] = t[i] /\ t[i] \in Seq(M)
  OBVIOUS
<1> HIDE DEF m, n
<1> DEFINE P == {k \in Nat : k <= m => h[k] = f[k]}
           Q == {k \in Nat : k <= n => h[m + k] = Glue(f[m], g[k])}
<1>6. Nat \subseteq P
  <2>1. 0 \in P
    BY <1>0, <1>1, <1>3 DEF Joins
  <2>2. ASSUME NEW k \in Nat, k \in P PROVE k + 1 \in P
    <3> SUFFICES ASSUME k + 1 <= m PROVE h[k + 1] = f[k + 1]
      OBVIOUS
    <3>1. k + 1 \in 0..m /\ k + 1 \in 0..(m + n) /\ k + 1 \in 1..m /\ k + 1 # 0 /\ (k + 1) - 1 = k /\ k <= m
      BY <1>0
    <3>2. h[k] = f[k]
      BY <2>2, <3>1
    <3>3. f[k + 1] = Glue(f[k], p[k + 1])
      BY <1>1, <3>1 DEF Joins
    <3>4. h[k + 1] = Glue(h[k], q[k + 1])
      BY <1>3, <3>1 DEF Joins
    <3> QED
      BY <1>5, <3>1, <3>2, <3>3, <3>4
  <2> HIDE DEF P
  <2> QED
    BY <2>1, <2>2, NumbersFromZero, Zenon
<1>7. h[m] = f[m] /\ f[m] \in Seq(M)
  BY <1>0, <1>4, <1>6
<1>8. Nat \subseteq Q
  <2>1. 0 \in Q
    <3>1. g[0] = <<>> /\ m + 0 = m
      BY <1>0, <1>2 DEF Joins
    <3> QED
      BY <1>7, <3>1, GlueFits
  <2>2. ASSUME NEW k \in Nat, k \in Q PROVE k + 1 \in Q
    <3> SUFFICES ASSUME k + 1 <= n PROVE h[m + (k + 1)] = Glue(f[m], g[k + 1])
      OBVIOUS
    <3>1. /\ k + 1 \in 0..n /\ k \in 0..n /\ k + 1 \in 1..n /\ k + 1 # 0 /\ (k + 1) - 1 = k /\ k <= n
          /\ m + (k + 1) \in 0..(m + n) /\ m + (k + 1) # 0 /\ (m + (k + 1)) - 1 = m + k
      BY <1>0
    <3>2. h[m + k] = Glue(f[m], g[k]) /\ g[k] \in Seq(M)
      BY <1>4, <2>2, <3>1
    <3>3. g[k + 1] = Glue(g[k], t[k + 1])
      BY <1>2, <3>1 DEF Joins
    <3>4. h[m + (k + 1)] = Glue(h[m + k], q[m + (k + 1)])
      BY <1>3, <3>1 DEF Joins
    <3>5. q[m + (k + 1)] = t[k + 1] /\ t[k + 1] \in Seq(M)
      BY <1>5, <3>1
    <3>6. Glue(Glue(f[m], g[k]), t[k + 1]) = Glue(f[m], Glue(g[k], t[k + 1]))
      BY <1>7, <3>2, <3>5, Regroup
    <3> QED
      BY <3>2, <3>3, <3>4, <3>5, <3>6
  <2> HIDE DEF Q
  <2> QED
    BY <2>1, <2>2, NumbersFromZero, Zenon
<1> QED
  BY <1>0, <1>1, <1>2, <1>3, <1>8
LEMMA Listed ==
    ASSUME NEW n \in Nat, NEW S, NEW s, s = [i \in 1..n |-> s[i]], \A i \in 1..n : s[i] \in S
    PROVE  s \in Seq(S) /\ Len(s) = n
<1>1. s \in [1..n -> S]
  BY Zenon
<1>2. s \in Seq(S)
  BY <1>1
<1>3. DOMAIN s = 1..n
  BY <1>1
<1>4. Len(s) \in Nat /\ DOMAIN s = 1..Len(s)
  BY <1>2, LenProperties
<1> QED
  BY <1>2, <1>3, <1>4

(* As many chunks as it takes, none of them empty. *)
LEMMA Ceiling ==
    ASSUME NEW L \in Nat, NEW C \in Nat \ {0}, NEW n, n = (L + C - 1) \div C
    PROVE  n \in Nat /\ L <= n * C /\ \A k \in Nat : k < n => k * C < L
<1>1. n \in Int /\ n * C <= L + C - 1 /\ L + C - 1 < n * C + C
  OBVIOUS
<1>2. n >= 0
  <2> SUFFICES ASSUME n <= -1 PROVE FALSE
    BY <1>1
  <2>1. n * C <= (-1) * C
    BY <1>1
  <2> QED
    BY <1>1, <2>1
<1>3. ASSUME NEW k \in Nat, k < n PROVE k * C < L
  <2>1. k * C <= (n - 1) * C
    BY <1>1, <1>3
  <2>2. (n - 1) * C = n * C - C
    BY <1>1
  <2>3. k * C \in Int /\ n * C \in Int
    BY <1>1
  <2> QED
    BY <1>1, <2>1, <2>2, <2>3
<1>4. n * C \in Int
  BY <1>1
<1> QED
  BY <1>1, <1>2, <1>3, <1>4

LEMMA Adjacent ==
    ASSUME NEW M, NEW s \in Seq(M), NEW a \in Nat, NEW b \in Nat, a <= b, b <= Len(s)
    PROVE  Glue(SubSeq(s, 1, a), SubSeq(s, a + 1, b)) = SubSeq(s, 1, b)
BY ConcatAdjacentSubSeq DEF Glue

(* Cut into chunks and joined again, messages are what they were. *)
LEMMA ChunksJoin ==
    ASSUME NEW M, NEW msgs \in Seq(M)
    PROVE  Chunks(msgs) \in Seq(Seq(M)) /\ Concat(Chunks(msgs)) = msgs
<1> DEFINE L == Len(msgs)
           C == ChunkSize
           n == (L + C - 1) \div C
           upto(k) == IF k * C > L THEN L ELSE k * C
           chunks == Chunks(msgs)
<1>0. L \in Nat /\ C \in Nat \ {0}
  BY ChunkAssumption
<1>1. n \in Nat /\ L <= n * C /\ \A k \in Nat : k < n => k * C < L
  BY <1>0, Ceiling
<1>2. chunks = [k \in 1..n |-> SubSeq(msgs, (k - 1) * C + 1, upto(k))]
  BY DEF Chunks
<1>3. msgs = SubSeq(msgs, 1, L)
  BY SubSeqFull
<1>4. ASSUME NEW a \in Nat, NEW b \in Nat, b <= L PROVE SubSeq(msgs, a + 1, b) \in Seq(M)
  BY <1>4, SubSeqProperties
<1> HIDE DEF L, C, n
<1>5. ASSUME NEW k \in Nat
      PROVE  /\ k * C \in Nat /\ upto(k) \in Nat /\ upto(k) <= L
             /\ k < n => upto(k) = k * C /\ k * C <= upto(k + 1)
             /\ k = n => upto(k) = L
             /\ k = 0 => upto(k) = 0
  <2>1. k * C \in Nat
    BY <1>0
  <2>2. (k + 1) * C = k * C + C
    BY <1>0
  <2>3. k < n => k * C < L
    BY <1>1
  <2>4. k = 0 => k * C = 0
    BY <1>0
  <2>5. k = n => L <= k * C
    BY <1>1
  <2> QED
    BY <1>0, <2>1, <2>2, <2>3, <2>4, <2>5
<1>6. ASSUME NEW k \in Nat, k < n
      PROVE  k + 1 \in 1..n /\ chunks[k + 1] = SubSeq(msgs, k * C + 1, upto(k + 1)) /\ chunks[k + 1] \in Seq(M)
  <2>1. k + 1 \in 1..n /\ (k + 1) - 1 = k /\ k + 1 \in Nat
    BY <1>1, <1>6
  <2>2. chunks[k + 1] = SubSeq(msgs, k * C + 1, upto(k + 1))
    BY <1>2, <2>1
  <2>3. k * C \in Nat /\ upto(k + 1) \in Nat /\ upto(k + 1) <= L
    BY <1>5, <2>1
  <2>4. SubSeq(msgs, k * C + 1, upto(k + 1)) \in Seq(M)
    <3> DEFINE a == k * C
               b == upto(k + 1)
    <3>1. a \in Nat /\ b \in Nat /\ b <= L
      BY <2>3
    <3> HIDE DEF a, b
    <3>2. SubSeq(msgs, a + 1, b) \in Seq(M)
      BY <1>4, <3>1
    <3> QED
      BY <3>2 DEF a, b
  <2> QED
    BY <2>1, <2>2, <2>4
<1>7. chunks \in Seq(Seq(M)) /\ Len(chunks) = n
  <2>1. ASSUME NEW i \in 1..n PROVE chunks[i] \in Seq(M)
    <3>1. i - 1 \in Nat /\ i - 1 < n /\ (i - 1) + 1 = i
      BY <1>1
    <3> QED
      BY <1>6, <3>1
  <2>2. chunks = [k \in 1..n |-> chunks[k]]
    BY <1>2
  <2> HIDE DEF chunks
  <2> QED
    BY <1>1, <2>1, <2>2, Listed
<1> HIDE DEF chunks, upto
<1>8. PICK f : Joins(f, chunks, n) /\ Concat(chunks) = f[n]
  BY <1>7, ConcatJoins
<1> DEFINE P == {k \in Nat : k <= n => f[k] = SubSeq(msgs, 1, upto(k))}
<1>9. Nat \subseteq P
  <2>1. 0 \in P
    <3>1. f[0] = <<>>
      BY <1>1, <1>8 DEF Joins
    <3>2. upto(0) = 0
      BY <1>5
    <3>3. SubSeq(msgs, 1, 0) = <<>>
      BY SubSeqEmpty
    <3> QED
      BY <3>1, <3>2, <3>3
  <2>2. ASSUME NEW k \in Nat, k \in P PROVE k + 1 \in P
    <3> SUFFICES ASSUME k + 1 <= n PROVE f[k + 1] = SubSeq(msgs, 1, upto(k + 1))
      OBVIOUS
    <3>1. k < n /\ k <= n /\ k + 1 \in 0..n /\ k + 1 # 0 /\ (k + 1) - 1 = k
      BY <1>1
    <3>2. f[k + 1] = Glue(f[k], chunks[k + 1])
      BY <1>8, <3>1 DEF Joins
    <3>3. f[k] = SubSeq(msgs, 1, upto(k))
      BY <2>2, <3>1
    <3>4. upto(k) = k * C /\ k * C \in Nat /\ k * C <= upto(k + 1)
      BY <1>5, <3>1
    <3>5. chunks[k + 1] = SubSeq(msgs, k * C + 1, upto(k + 1))
      BY <1>6, <3>1
    <3>6. upto(k + 1) \in Nat /\ upto(k + 1) <= L
      BY <1>5
    <3>7. Glue(SubSeq(msgs, 1, k * C), SubSeq(msgs, k * C + 1, upto(k + 1))) = SubSeq(msgs, 1, upto(k + 1))
      <4> DEFINE a == k * C
                 b == upto(k + 1)
      <4>1. a \in Nat /\ b \in Nat /\ a <= b /\ b <= Len(msgs)
        BY <3>4, <3>6 DEF L
      <4> HIDE DEF a, b
      <4>2. Glue(SubSeq(msgs, 1, a), SubSeq(msgs, a + 1, b)) = SubSeq(msgs, 1, b)
        BY <4>1, Adjacent
      <4> QED
        BY <4>2 DEF a, b
    <3> QED
      BY <3>2, <3>3, <3>4, <3>5, <3>7
  <2> HIDE DEF P
  <2> QED
    BY <2>1, <2>2, NumbersFromZero, Zenon
<1>10. f[n] = SubSeq(msgs, 1, L)
  <2>1. f[n] = SubSeq(msgs, 1, upto(n))
    BY <1>1, <1>9
  <2> QED
    BY <1>1, <1>5, <2>1
<1>11. Concat(chunks) = msgs
  BY <1>3, <1>8, <1>10
<1> QED
  BY <1>7, <1>11 DEF chunks
-----------------------------------------------------------------------------
(* What a head row refers to can be read whole: its chunks are there, join *)
(* to the history the row has the digest of, and core and state give back  *)
(* the checkpoint the row has the digest of.                               *)
Message == (Hosts \X Int) \cup {"m"}

ChunksOf(rows, h) == [i \in 1..h.chunks |-> rows[<<h.gen, i - 1>>]]

ChunksRead(rows, h) ==
    /\ h.chunks \in Nat /\ h.gen \in Nat
    /\ \A i \in 1..h.chunks : <<h.gen, i - 1>> \in DOMAIN rows /\ rows[<<h.gen, i - 1>>] \in Seq(Message)
    /\ Concat(ChunksOf(rows, h)) = h.hdigest

CoreReads(h) ==
    /\ h.rev \in Nat /\ h.hdigest \in Seq(Message)
    /\ CoreMatches(h) /\ h.count = Len(h.hdigest)
    /\ h.digest = Checkpoint(h.core.id, h.core.rev, h.hdigest, DecodeState(h.core.state))

RowReads(d, h) ==
    /\ ChunksRead(d.chunks, h) /\ CoreReads(h)
    /\ h.id \in DOMAIN d.ledger /\ d.ledger[h.id] = [rev |-> h.rev, digest |-> h.digest]

(* A chunk is below what the head knows of: of an earlier generation, or   *)
(* within the count of the head's own.                                     *)
ChunkBelow(h, key) ==
    \E g, i \in Nat : key = <<g, i>> /\ g <= h.rev /\ (g = h.gen => i < h.chunks)

DbReads(d) ==
    /\ \A key \in DOMAIN d.chunks : ChunkBelow(d.head, key)
    /\ \A id \in DOMAIN d.ledger : d.ledger[id].digest.hist \in Seq(Message)
    /\ ~IsNone(d.head) => RowReads(d, d.head) /\ d.head.gen <= d.head.rev

(* A commit whose change of history leads to the history it declares, and  *)
(* whose state can be stored.                                              *)
Sound(c) ==
    /\ c.base \in Seq(Message) /\ c.msgs \in Seq(Message)
    /\ c.checkpoint.hist = IF c.kind \in {"initial", "replace"} THEN c.msgs ELSE Glue(c.base, c.msgs)
    /\ DecodeState(EncodeState(c.checkpoint.state)) = c.checkpoint.state

LEMMA SoundHistory == ASSUME NEW c, Sound(c) PROVE c.checkpoint.hist \in Seq(Message)
BY GlueFits DEF Sound

-----------------------------------------------------------------------------
(* Rows that are added to others.                                          *)
Holds(f, g) == DOMAIN f \subseteq DOMAIN g /\ \A key \in DOMAIN f : g[key] = f[key]

LEMMA RowsAdded ==
    ASSUME NEW rows, NEW f, DOMAIN rows \cap DOMAIN f = {}
    PROVE  /\ DOMAIN AddRows(rows, f) = DOMAIN rows \cup DOMAIN f
           /\ Holds(rows, AddRows(rows, f)) /\ Holds(f, AddRows(rows, f))
<1> DEFINE g == AddRows(rows, f)
<1>1. g = [key \in DOMAIN rows \cup DOMAIN f |-> IF key \in DOMAIN rows THEN rows[key] ELSE f[key]]
  BY DEF AddRows
<1> HIDE DEF g
<1>2. DOMAIN g = DOMAIN rows \cup DOMAIN f
  BY <1>1
<1>3. \A key \in DOMAIN rows : g[key] = rows[key]
  BY <1>1
<1>4. \A key \in DOMAIN f : g[key] = f[key]
  BY <1>1
<1> QED
  BY <1>2, <1>3, <1>4 DEF Holds, g

LEMMA StaysRead ==
    ASSUME NEW f, NEW g, Holds(f, g), NEW h, ChunksRead(f, h)
    PROVE  ChunksRead(g, h) /\ ChunksOf(g, h) = ChunksOf(f, h)
<1>1. \A i \in 1..h.chunks : <<h.gen, i - 1>> \in DOMAIN g /\ g[<<h.gen, i - 1>>] = f[<<h.gen, i - 1>>]
  BY DEF Holds, ChunksRead
<1>2. ChunksOf(g, h) = ChunksOf(f, h)
  BY <1>1 DEF ChunksOf
<1> QED
  BY <1>1, <1>2 DEF ChunksRead

LEMMA RowStays ==
    ASSUME NEW d, NEW e, Holds(d.chunks, e.chunks), Grows(d, e), NEW h, RowReads(d, h)
    PROVE  RowReads(e, h)
BY StaysRead DEF RowReads, Grows

LEMMA ChunksOfFit ==
    ASSUME NEW f, NEW h, ChunksRead(f, h)
    PROVE  ChunksOf(f, h) \in Seq(Seq(Message)) /\ Len(ChunksOf(f, h)) = h.chunks
<1> DEFINE s == ChunksOf(f, h)
           n == h.chunks
<1>1. n \in Nat /\ s = [i \in 1..n |-> s[i]] /\ \A i \in 1..n : s[i] \in Seq(Message)
  BY DEF ChunksRead, ChunksOf
<1> HIDE DEF s, n
<1>2. s \in Seq(Seq(Message)) /\ Len(s) = n
  BY <1>1, Listed
<1> QED
  BY <1>2 DEF s, n

-----------------------------------------------------------------------------
(* The chunks a commit adds.                                               *)
Fresh(d, c) == IsNone(d.head) \/ c.kind = "replace"
Manifest(d, c) == NextManifest(d.head, c, Len(Chunks(c.msgs)))

LEMMA ManifestFits ==
    ASSUME NEW d, NEW t \in Nat, NEW c, NEW w \in Hosts, DbFits(d, t), DbReads(d), CommitFits(c, w, t),
           New(d, c), Sound(c)
    PROVE  LET m == Manifest(d, c)
               n == Len(Chunks(c.msgs)) IN
           /\ n \in Nat /\ m.gen \in Nat /\ m.first \in Nat /\ m.total = m.first + n
           /\ c.checkpoint.rev = d.head.rev + 1 /\ d.head.rev \in Int
           /\ IF Fresh(d, c) THEN m.gen = c.checkpoint.rev /\ m.first = 0 /\ c.kind \in {"initial", "replace"}
              ELSE /\ m.gen = d.head.gen /\ m.first = d.head.chunks /\ m.gen <= d.head.rev
                   /\ RowReads(d, d.head) /\ c.kind \notin {"initial", "replace"} /\ c.base = d.head.hdigest
<1> DEFINE n == Len(Chunks(c.msgs))
<1>1. n \in Nat
  BY ChunksJoin DEF Sound
<1>2. c.checkpoint.rev = d.head.rev + 1 /\ d.head.rev \in Int /\ d.head.rev >= -1 /\ c.checkpoint.rev \in Nat
  BY DEF New, ExtendsHead, Expected, DbFits, CommitFits
<1>3. ~IsNone(d.head) => /\ RowReads(d, d.head) /\ d.head.gen <= d.head.rev
                         /\ d.head.chunks \in Nat /\ d.head.gen \in Nat
  BY DEF DbReads, RowReads, ChunksRead
<1>4. IsNone(d.head) => c.kind = "initial"
  BY DEF New, ExtendsHead, BaseMatches
<1>5. ~IsNone(d.head) => c.base = d.head.hdigest /\ c.kind # "initial"
  BY <1>2 DEF New, ExtendsHead, BaseMatches, CommitFits, IsNone
<1> HIDE DEF n
<1>6. Manifest(d, c) = IF Fresh(d, c) THEN [gen |-> c.checkpoint.rev, first |-> 0, total |-> n]
                       ELSE [gen |-> d.head.gen, first |-> d.head.chunks, total |-> d.head.chunks + n]
  BY DEF Manifest, NextManifest, Fresh, n
<1> QED
  BY <1>1, <1>2, <1>3, <1>4, <1>5, <1>6 DEF Fresh, n

RowsFrom(rows, m, s) ==
    /\ DOMAIN rows = {<<m.gen, m.first + k - 1>> : k \in 1..Len(s)}
    /\ \A k \in 1..Len(s) : rows[<<m.gen, m.first + k - 1>>] = s[k]

LEMMA NewRows ==
    ASSUME NEW d, NEW c, Manifest(d, c).gen \in Nat, Manifest(d, c).first \in Nat, Len(Chunks(c.msgs)) \in Nat
    PROVE  RowsFrom(NewChunks(d, c), Manifest(d, c), Chunks(c.msgs))
<1> DEFINE s == Chunks(c.msgs)
           m == Manifest(d, c)
           n == Len(s)
           g == m.gen
           b == m.first
<1>1. NewChunks(d, c) = [key \in {<<g, b + k - 1>> : k \in 1..n} |-> s[key[2] - b + 1]]
  BY DEF NewChunks, Manifest
<1>2. g \in Nat /\ b \in Nat /\ n \in Nat
  OBVIOUS
<1> HIDE DEF s, m, n, g, b
<1>3. ASSUME NEW k \in 1..n
      PROVE  <<g, b + k - 1>>[2] - b + 1 = k /\ <<g, b + k - 1>> \in {<<g, b + j - 1>> : j \in 1..n}
  BY <1>2
<1>4. \A k \in 1..n : NewChunks(d, c)[<<g, b + k - 1>>] = s[k]
  BY <1>1, <1>3
<1>5. DOMAIN NewChunks(d, c) = {<<g, b + k - 1>> : k \in 1..n}
  BY <1>1
<1> QED
  BY <1>4, <1>5 DEF RowsFrom, s, m, n, g, b

LEMMA NothingOverwritten ==
    ASSUME NEW d, NEW t \in Nat, NEW c, NEW w \in Hosts, DbFits(d, t), DbReads(d), CommitFits(c, w, t),
           New(d, c), Sound(c)
    PROVE  DOMAIN NewChunks(d, c) \cap DOMAIN d.chunks = {}
<1> DEFINE m == Manifest(d, c)
           n == Len(Chunks(c.msgs))
<1>1. /\ n \in Nat /\ m.gen \in Nat /\ m.first \in Nat
      /\ c.checkpoint.rev = d.head.rev + 1 /\ d.head.rev \in Int
      /\ IF Fresh(d, c) THEN m.gen = c.checkpoint.rev
         ELSE m.gen = d.head.gen /\ m.first = d.head.chunks
  BY ManifestFits
<1>2. DOMAIN NewChunks(d, c) = {<<m.gen, m.first + k - 1>> : k \in 1..n}
  <2>1. m.gen \in Nat /\ m.first \in Nat /\ n \in Nat
    BY <1>1
  <2>2. RowsFrom(NewChunks(d, c), m, Chunks(c.msgs))
    BY <2>1, NewRows
  <2> QED
    BY <2>2 DEF RowsFrom
<1> SUFFICES ASSUME NEW k \in 1..n, <<m.gen, m.first + k - 1>> \in DOMAIN d.chunks PROVE FALSE
  BY <1>2
<1>3. PICK g, i \in Nat : /\ <<m.gen, m.first + k - 1>> = <<g, i>> /\ g <= d.head.rev
                          /\ g = d.head.gen => i < d.head.chunks
  BY DEF DbReads, ChunkBelow
<1>4. m.gen = g /\ m.first + k - 1 = i
  BY <1>3
<1> HIDE DEF m, n
<1>5. m.first <= i
  BY <1>1, <1>4
<1>6. CASE Fresh(d, c)
  BY <1>1, <1>3, <1>4, <1>6
<1>7. CASE ~Fresh(d, c)
  <2>1. g = d.head.gen /\ i < m.first
    BY <1>1, <1>3, <1>4, <1>7
  <2> QED
    BY <1>1, <1>5, <2>1
<1> QED
  BY <1>6, <1>7

LEMMA HeadOf ==
    ASSUME NEW d, NEW c
    PROVE  /\ Publish(d, c).head =
                 [rev |-> c.checkpoint.rev, id |-> Id(c), parent |-> c.parent,
                  digest |-> c.checkpoint, core |-> EncodeCore(c),
                  gen |-> Manifest(d, c).gen, chunks |-> Manifest(d, c).total,
                  count |-> Len(c.checkpoint.hist), hdigest |-> c.checkpoint.hist]
           /\ Publish(d, c).chunks = AddRows(NewChunks(d, c), d.chunks)
BY DEF Publish, Manifest

HeadFields(h, c, m) ==
    /\ h.rev = c.checkpoint.rev /\ h.gen = m.gen /\ h.chunks = m.total
    /\ h.hdigest = c.checkpoint.hist /\ h.count = Len(c.checkpoint.hist)
    /\ h.id = Id(c) /\ h.parent = c.parent /\ h.digest = c.checkpoint
    /\ h.core = EncodeCore(c)

LEMMA FieldsOf ==
    ASSUME NEW d, NEW c
    PROVE  HeadFields(Publish(d, c).head, c, Manifest(d, c))
<1> DEFINE m == Manifest(d, c)
<1>1. Publish(d, c).head =
          [rev |-> c.checkpoint.rev, id |-> Id(c), parent |-> c.parent,
           digest |-> c.checkpoint, core |-> EncodeCore(c), gen |-> m.gen, chunks |-> m.total,
           count |-> Len(c.checkpoint.hist), hdigest |-> c.checkpoint.hist]
  BY HeadOf, Zenon
<1> HIDE DEF m
<1>2. HeadFields(Publish(d, c).head, c, m)
  BY <1>1 DEF HeadFields
<1> QED
  BY <1>2 DEF m

LEMMA ChunksAdded ==
    ASSUME NEW d, NEW t \in Nat, NEW c, NEW w \in Hosts, DbFits(d, t), DbReads(d), CommitFits(c, w, t),
           New(d, c), Sound(c)
    PROVE  /\ DOMAIN Publish(d, c).chunks = DOMAIN NewChunks(d, c) \cup DOMAIN d.chunks
           /\ Holds(NewChunks(d, c), Publish(d, c).chunks) /\ Holds(d.chunks, Publish(d, c).chunks)
<1>1. DOMAIN NewChunks(d, c) \cap DOMAIN d.chunks = {}
  BY NothingOverwritten
<1>2. Publish(d, c).chunks = AddRows(NewChunks(d, c), d.chunks)
  BY HeadOf, Zenon
<1> QED
  BY <1>1, <1>2, RowsAdded

(* The new head can be read whole. *)
LEMMA NewHeadReads ==
    ASSUME NEW d, NEW t \in Nat, NEW c, NEW w \in Hosts, DbFits(d, t), DbReads(d), CommitFits(c, w, t),
           New(d, c), Sound(c)
    PROVE  ChunksRead(Publish(d, c).chunks, Publish(d, c).head)
<1> DEFINE p == Publish(d, c)
           s == Chunks(c.msgs)
           m == Manifest(d, c)
           n == Len(s)
           rows == NewChunks(d, c)
           h == p.head
<1>1. s \in Seq(Seq(Message)) /\ Concat(s) = c.msgs /\ n \in Nat
  BY ChunksJoin DEF Sound
<1>2. /\ m.gen \in Nat /\ m.first \in Nat /\ m.total = m.first + n
      /\ IF Fresh(d, c) THEN m.first = 0 /\ c.kind \in {"initial", "replace"}
         ELSE /\ m.gen = d.head.gen /\ m.first = d.head.chunks
              /\ RowReads(d, d.head) /\ c.kind \notin {"initial", "replace"} /\ c.base = d.head.hdigest
  BY ManifestFits
<1>3. h.gen = m.gen /\ h.chunks = m.total /\ h.hdigest = c.checkpoint.hist
  BY FieldsOf, Zenon DEF HeadFields
<1>4. Holds(rows, p.chunks) /\ Holds(d.chunks, p.chunks)
  BY ChunksAdded, Zenon
<1>5. /\ DOMAIN rows = {<<m.gen, m.first + k - 1>> : k \in 1..n}
      /\ \A k \in 1..n : rows[<<m.gen, m.first + k - 1>>] = s[k]
  <2>1. m.gen \in Nat /\ m.first \in Nat /\ n \in Nat
    BY <1>1, <1>2
  <2>2. RowsFrom(rows, m, s)
    BY <2>1, NewRows
  <2> QED
    BY <2>2 DEF RowsFrom
<1>6. c.checkpoint.hist = IF c.kind \in {"initial", "replace"} THEN c.msgs ELSE Glue(c.base, c.msgs)
  BY DEF Sound
<1> DEFINE q == p.chunks
           g == m.gen
           b == m.first
<1>7. \A k \in 1..n : <<g, b + k - 1>> \in DOMAIN q /\ q[<<g, b + k - 1>>] = s[k] /\ s[k] \in Seq(Message)
  BY <1>1, <1>4, <1>5 DEF Holds
<1> HIDE DEF p, s, m, n, rows, h, q, g, b
<1>8. g \in Nat /\ b \in Nat /\ h.gen = g /\ h.chunks = b + n
  BY <1>2, <1>3 DEF g, b
<1>9. CASE Fresh(d, c)
  <2>1. b = 0 /\ h.chunks = n /\ h.hdigest = c.msgs
    BY <1>1, <1>2, <1>3, <1>6, <1>8, <1>9 DEF b
  <2>2. \A i \in 1..n : b + i - 1 = i - 1
    BY <2>1
  <2>3. \A i \in 1..n : <<g, i - 1>> \in DOMAIN q /\ q[<<g, i - 1>>] = s[i] /\ s[i] \in Seq(Message)
    BY <1>7, <2>2
  <2>4. s = [i \in 1..n |-> s[i]]
    BY <1>1 DEF n
  <2>5. ChunksOf(q, h) = s
    <3>1. ChunksOf(q, h) = [i \in 1..n |-> q[<<g, i - 1>>]]
      BY <1>8, <2>1 DEF ChunksOf
    <3> QED
      BY <2>3, <2>4, <3>1
  <2> QED
    BY <1>1, <1>8, <2>1, <2>3, <2>5 DEF ChunksRead, q, p, h
<1>10. CASE ~Fresh(d, c)
  <2> DEFINE o == ChunksOf(d.chunks, d.head)
             r == ChunksOf(q, h)
  <2>1. g = d.head.gen /\ b = d.head.chunks /\ ChunksRead(d.chunks, d.head)
    BY <1>2, <1>10 DEF g, b, RowReads
  <2>2. ChunksRead(q, d.head) /\ ChunksOf(q, d.head) = o
    BY <1>4, <2>1, StaysRead DEF q
  <2>3. o \in Seq(Seq(Message)) /\ Len(o) = b /\ Concat(o) = d.head.hdigest
    BY <2>1, ChunksOfFit DEF ChunksRead
  <2>4. \A i \in 1..b : <<g, i - 1>> \in DOMAIN q /\ q[<<g, i - 1>>] \in Seq(Message) /\ o[i] = q[<<g, i - 1>>]
    BY <2>1, <2>2 DEF ChunksRead, ChunksOf
  <2>5. ASSUME NEW i \in 1..(b + n)
        PROVE  <<g, i - 1>> \in DOMAIN q /\ q[<<g, i - 1>>] \in Seq(Message)
    <3>1. CASE i \in 1..b
      BY <2>4, <3>1
    <3>2. CASE i - b \in 1..n
      <4>1. b + (i - b) - 1 = i - 1
        BY <1>8
      <4> QED
        BY <1>7, <3>2, <4>1
    <3>3. i \in 1..b \/ i - b \in 1..n
      BY <1>1, <1>8
    <3> QED
      BY <3>1, <3>2, <3>3
  <2>6. r = [i \in 1..(b + n) |-> q[<<g, i - 1>>]]
    BY <1>8 DEF ChunksOf
  <2>7. r \in Seq(Seq(Message)) /\ Len(r) = b + n
    <3> HIDE DEF r
    <3>1. r = [i \in 1..(b + n) |-> r[i]] /\ \A i \in 1..(b + n) : r[i] \in Seq(Message)
      BY <2>5, <2>6
    <3>2. b + n \in Nat
      BY <1>1, <1>8
    <3> QED
      BY <3>1, <3>2, Listed
  <2>8. \A i \in 1..b : r[i] = o[i]
    <3> SUFFICES ASSUME NEW i \in 1..b PROVE r[i] = o[i]
      OBVIOUS
    <3>1. i \in 1..(b + n)
      BY <1>1, <1>8
    <3> QED
      BY <2>4, <2>6, <3>1
  <2>9. \A i \in 1..n : r[b + i] = s[i]
    <3> SUFFICES ASSUME NEW i \in 1..n PROVE r[b + i] = s[i]
      OBVIOUS
    <3>1. b + i \in 1..(b + n)
      BY <1>1, <1>8
    <3>2. r[b + i] = q[<<g, (b + i) - 1>>]
      BY <2>6, <3>1, Zenon
    <3>3. q[<<g, b + i - 1>>] = s[i]
      BY <1>7
    <3>4. (b + i) - 1 = b + i - 1
      BY <1>8
    <3> QED
      BY <3>2, <3>3, <3>4, Zenon
  <2> HIDE DEF o, r
  <2>10. Concat(r) = Glue(Concat(o), Concat(s))
    BY <1>1, <2>3, <2>7, <2>8, <2>9, ConcatTwo DEF n
  <2>11. Concat(r) = h.hdigest
    BY <1>1, <1>2, <1>3, <1>6, <1>10, <2>3, <2>10
  <2> QED
    BY <1>1, <1>8, <2>5, <2>11 DEF ChunksRead, r, q, p, h
<1> QED
  BY <1>9, <1>10 DEF p, h

LEMMA PublishReads ==
    ASSUME NEW d, NEW t \in Nat, NEW c, NEW w \in Hosts, DbFits(d, t), DbReads(d), CommitFits(c, w, t),
           New(d, c), Sound(c)
    PROVE  /\ DbReads(Publish(d, c))
           /\ \A h : RowReads(d, h) => RowReads(Publish(d, c), h)
<1> DEFINE p == Publish(d, c)
           m == Manifest(d, c)
           n == Len(Chunks(c.msgs))
<1>1. Holds(d.chunks, p.chunks) /\ DOMAIN p.chunks = DOMAIN NewChunks(d, c) \cup DOMAIN d.chunks
  BY ChunksAdded, Zenon
<1>2. Grows(d, p)
  BY PublishGrows
<1>3. \A h : RowReads(d, h) => RowReads(p, h)
  BY <1>1, <1>2, RowStays
<1>4. /\ n \in Nat /\ m.gen \in Nat /\ m.first \in Nat /\ m.total = m.first + n
      /\ c.checkpoint.rev = d.head.rev + 1 /\ d.head.rev \in Int
      /\ IF Fresh(d, c) THEN m.gen = c.checkpoint.rev
         ELSE m.gen = d.head.gen /\ m.first = d.head.chunks /\ m.gen <= d.head.rev
  BY ManifestFits
<1>5. /\ p.head.rev = c.checkpoint.rev /\ p.head.gen = m.gen /\ p.head.chunks = m.total
      /\ p.head.hdigest = c.checkpoint.hist /\ p.head.count = Len(c.checkpoint.hist)
      /\ p.head.id = Id(c) /\ p.head.parent = c.parent /\ p.head.digest = c.checkpoint
      /\ p.head.core = EncodeCore(c)
  BY FieldsOf, Zenon DEF HeadFields
<1>6. c.checkpoint.hist \in Seq(Message)
  BY SoundHistory
<1>7. ~Known(d, c)
  BY DEF New
<1>8. /\ DOMAIN p.ledger = {Id(c)} \cup DOMAIN d.ledger
      /\ p.ledger[Id(c)] = [rev |-> c.checkpoint.rev, digest |-> c.checkpoint]
  BY <1>7, Published
<1>9. CoreReads(p.head)
  <2>1. /\ c.checkpoint = Checkpoint(Id(c), c.checkpoint.rev, c.checkpoint.hist, c.checkpoint.state)
        /\ c.checkpoint.rev \in Nat
    BY DEF CommitFits, Id
  <2>2. /\ EncodeCore(c).id = Id(c) /\ EncodeCore(c).parent = c.parent /\ EncodeCore(c).rev = c.checkpoint.rev
        /\ EncodeCore(c).count = Len(c.checkpoint.hist) /\ EncodeCore(c).hdigest = c.checkpoint.hist
        /\ DecodeState(EncodeCore(c).state) = c.checkpoint.state
    BY DEF EncodeCore, Sound
  <2> QED
    BY <1>5, <1>6, <2>1, <2>2 DEF CoreReads, CoreMatches
<1>10. RowReads(p, p.head)
  BY <1>5, <1>8, <1>9, NewHeadReads DEF RowReads
<1>11. p.head.gen <= p.head.rev
  BY <1>4, <1>5
<1>12. ASSUME NEW key \in DOMAIN p.chunks PROVE ChunkBelow(p.head, key)
  <2>1. CASE key \in DOMAIN d.chunks
    <3>1. PICK g, i \in Nat : key = <<g, i>> /\ g <= d.head.rev /\ (g = d.head.gen => i < d.head.chunks)
      BY <2>1 DEF DbReads, ChunkBelow
    <3>2. g <= p.head.rev
      BY <1>4, <1>5, <3>1
    <3>3. g = p.head.gen => i < p.head.chunks
      BY <1>4, <1>5, <3>1
    <3> QED
      BY <3>1, <3>2, <3>3 DEF ChunkBelow
  <2>2. CASE key \in DOMAIN NewChunks(d, c)
    <3>1. DOMAIN NewChunks(d, c) = {<<m.gen, m.first + k - 1>> : k \in 1..n}
      <4>1. m.gen \in Nat /\ m.first \in Nat /\ n \in Nat
        BY <1>4
      <4>2. RowsFrom(NewChunks(d, c), m, Chunks(c.msgs))
        BY <4>1, NewRows
      <4> QED
        BY <4>2 DEF RowsFrom
    <3>2. PICK k \in 1..n : key = <<m.gen, m.first + k - 1>>
      BY <2>2, <3>1
    <3>3. m.first + k - 1 \in Nat /\ m.first + k - 1 < m.total
      BY <1>4
    <3> HIDE DEF m, p
    <3> QED
      BY <1>4, <1>5, <1>11, <3>2, <3>3 DEF ChunkBelow
  <2> QED
    BY <1>1, <2>1, <2>2
<1>13. ASSUME NEW id \in DOMAIN p.ledger PROVE p.ledger[id].digest.hist \in Seq(Message)
  BY <1>2, <1>6, <1>8 DEF DbReads, Grows
<1> QED
  BY <1>3, <1>10, <1>11, <1>12, <1>13 DEF DbReads

-----------------------------------------------------------------------------
(* What a reader holds stays readable, and every commit under way is sound.*)
HeldFits(w) ==
    /\ latest[w] # None => Sound(latest[w])
    /\ op[w].phase \in CommitPhases => Sound(op[w].commit)
    /\ op[w].phase \in {"ledger", "chunks"} => RowReads(db, op[w].head)
    /\ op[w].phase # "damaged"

ServersHold == (~IsNone(session) => Sound(session.commit)) /\ \A a \in late : Sound(a.commit)

ReadPart == DbReads(db) /\ (\A w \in Hosts : HeldFits(w)) /\ ServersHold

ReadInv == RepositoryInv /\ ReadPart

(* A step that publishes at most a sound commit, and lets every host go on *)
(* with the commit or the head row it had, or with none.                   *)
MovesSoundly ==
    \/ db' = db
    \/ \E u \in Hosts : \E c : CommitFits(c, u, tries) /\ New(db, c) /\ Sound(c) /\ db' = Publish(db, c)

OpGoes(v) ==
    \/ op'[v] = op[v]
    \/ op'[v].phase = "idle"
    \/ op[v].phase \in CommitPhases /\ op'[v].phase \in CommitPhases /\ op'[v].commit = op[v].commit

LEMMA StepReads ==
    ASSUME ReadInv, MovesSoundly
    PROVE  DbReads(db') /\ \A h : RowReads(db, h) => RowReads(db', h)
<1>1. CASE db' = db
  BY <1>1 DEF ReadInv, ReadPart
<1>2. ASSUME NEW u \in Hosts, NEW c, CommitFits(c, u, tries), New(db, c), Sound(c), db' = Publish(db, c)
      PROVE  DbReads(db') /\ \A h : RowReads(db, h) => RowReads(db', h)
  <2>1. DbFits(db, tries) /\ tries \in Nat /\ DbReads(db)
    BY DEF ReadInv, ReadPart, RepositoryInv
  <2>2. DbReads(Publish(db, c)) /\ \A h : RowReads(db, h) => RowReads(Publish(db, c), h)
    BY <1>2, <2>1, PublishReads
  <2> QED
    BY <1>2, <2>2
<1> QED
  BY <1>1, <1>2 DEF MovesSoundly

LEMMA HostGoes ==
    ASSUME ReadInv, MovesSoundly, NEW v \in Hosts, OpGoes(v), latest'[v] \in {latest[v], None}
    PROVE  HeldFits(v)'
<1>1. HeldFits(v) /\ \A h : RowReads(db, h) => RowReads(db', h)
  BY StepReads DEF ReadInv, ReadPart
<1>2. latest'[v] # None => Sound(latest'[v])
  BY <1>1 DEF HeldFits
<1>3. CASE op'[v] = op[v]
  BY <1>1, <1>2, <1>3 DEF HeldFits
<1>4. CASE op'[v].phase = "idle"
  BY <1>2, <1>4 DEF HeldFits, CommitPhases
<1>5. CASE op[v].phase \in CommitPhases /\ op'[v].phase \in CommitPhases /\ op'[v].commit = op[v].commit
  <2>1. op'[v].phase \notin {"ledger", "chunks", "damaged"}
    BY <1>5 DEF CommitPhases
  <2>2. Sound(op'[v].commit)
    BY <1>1, <1>5 DEF HeldFits
  <2> QED
    BY <1>2, <2>1, <2>2 DEF HeldFits
<1> QED
  BY <1>3, <1>4, <1>5 DEF OpGoes

LEMMA Carried ==
    ASSUME ReadInv, MovesSoundly, \A v \in Hosts : OpGoes(v) /\ latest'[v] \in {latest[v], None},
           session' = session \/ IsNone(session') \/ Sound(session'.commit),
           \A a \in late' : a \in late \/ Sound(a.commit)
    PROVE  ReadPart'
<1>1. DbReads(db')
  BY StepReads
<1>2. \A v \in Hosts : HeldFits(v)'
  BY HostGoes
<1>3. ServersHold'
  BY DEF ReadInv, ReadPart, ServersHold
<1> QED
  BY <1>1, <1>2, <1>3 DEF ReadPart

LEMMA HeldSound ==
    ASSUME ReadInv, NEW w \in Hosts, op[w].phase \in CommitPhases
    PROVE  Sound(op[w].commit) /\ CommitFits(op[w].commit, w, tries) /\ RepositoryInv
BY HostFacts DEF ReadInv, ReadPart, HeldFits

LEMMA TakesSoundly ==
    ASSUME ReadInv, NEW w \in Hosts, op[w].phase \in CommitPhases, db' = db \/ Takes(w)
    PROVE  MovesSoundly
BY HeldSound DEF Takes, MovesSoundly

(* A host whose operation changes, the others staying as they are.         *)
LEMMA OneGoes ==
    ASSUME ReadInv, NEW w \in Hosts, NEW x, op' = [op EXCEPT ![w] = x],
           \/ x.phase = "idle"
           \/ op[w].phase \in CommitPhases /\ x.phase \in CommitPhases /\ x.commit = op[w].commit
    PROVE  \A v \in Hosts : OpGoes(v)
<1>1. op = [v \in Hosts |-> op[v]]
  BY DEF ReadInv, RepositoryInv
<1>2. op'[w] = x /\ \A v \in Hosts \ {w} : op'[v] = op[v]
  BY <1>1, Excepted
<1> QED
  BY <1>2 DEF OpGoes

LEMMA AnsweredCarries ==
    ASSUME ReadInv, NEW w \in Hosts, op[w].phase \in CommitPhases, NEW ok, Answered(w, ok), db' = db \/ Takes(w),
           UNCHANGED <<session, late>>
    PROVE  ReadPart'
<1>1. op' = [op EXCEPT ![w] = Idle] /\ latest' = latest
  BY DEF Answered
<1>2. \A v \in Hosts : OpGoes(v)
  <2>1. Idle.phase = "idle"
    BY DEF Idle
  <2> HIDE DEF Idle
  <2> QED
    BY <1>1, <2>1, OneGoes
<1> QED
  BY <1>1, <1>2, TakesSoundly, Carried

LEMMA MovedCarries ==
    ASSUME ReadInv, NEW w \in Hosts, op[w].phase \in CommitPhases, NEW p \in CommitPhases, NEW u, NEW r,
           op' = [op EXCEPT ![w] = Moved(w, p, u, r)], latest' = latest, db' = db \/ Takes(w),
           session' = session \/ IsNone(session') \/ Sound(session'.commit),
           \A a \in late' : a \in late \/ Sound(a.commit)
    PROVE  ReadPart'
<1>1. Moved(w, p, u, r).phase = p /\ Moved(w, p, u, r).commit = op[w].commit
  BY DEF Moved
<1>2. \A v \in Hosts : OpGoes(v)
  BY <1>1, OneGoes
<1> QED
  BY <1>2, TakesSoundly, Carried

LEMMA GoesCarries ==
    ASSUME ReadInv, NEW w \in Hosts, op[w].phase \in CommitPhases, NEW p \in CommitPhases, Goes(w, p),
           db' = db \/ Takes(w), UNCHANGED <<session, late>>
    PROVE  ReadPart'
<1>1. op' = [op EXCEPT ![w] = [op[w] EXCEPT !.phase = p]] /\ latest' = latest
  BY DEF Goes, hosts
<1>2. op' = [op EXCEPT ![w] = Moved(w, p, op[w].unknown, op[w].retries)]
  BY <1>1, OnlyPhase DEF ReadInv
<1> QED
  BY <1>1, <1>2, MovedCarries

LEMMA RetryCarries ==
    ASSUME ReadInv, NEW w \in Hosts, op[w].phase \in CommitPhases,
           NEW ops, ops = [v \in Hosts |-> ops[v]], ops[w] = op[w], MysqlRetry(w, ops),
           \A v \in Hosts : ops[v] = op[v] \/ (/\ op[v].phase \in CommitPhases /\ ops[v].phase \in CommitPhases
                                               /\ ops[v].commit = op[v].commit),
           UNCHANGED <<db, session, late>>
    PROVE  ReadPart'
<1>1. \E x : op' = [ops EXCEPT ![w] = x] /\ (x = Idle \/ \E u, r : x = Moved(w, "retry", u, r))
  <2>1. RepositoryInv
    BY DEF ReadInv
  <2>2. \/ op[w].unknown /\ op' = [ops EXCEPT ![w] = Moved(w, "retry", TRUE, op[w].retries)]
        \/ ~op[w].unknown /\ \E r : op' = [ops EXCEPT ![w] = Moved(w, "retry", FALSE, r)]
        \/ ~op[w].unknown /\ op' = [ops EXCEPT ![w] = Idle]
    BY <2>1, RetryLeads
  <2>3. CASE op' = [ops EXCEPT ![w] = Moved(w, "retry", TRUE, op[w].retries)]
    BY <2>3
  <2>4. ASSUME NEW r, op' = [ops EXCEPT ![w] = Moved(w, "retry", FALSE, r)]
        PROVE  \E x : op' = [ops EXCEPT ![w] = x] /\ (x = Idle \/ \E u, q : x = Moved(w, "retry", u, q))
    BY <2>4
  <2>5. CASE op' = [ops EXCEPT ![w] = Idle]
    BY <2>5
  <2> QED
    BY <2>2, <2>3, <2>4, <2>5
<1>2. PICK x : op' = [ops EXCEPT ![w] = x] /\ (x = Idle \/ \E u, r : x = Moved(w, "retry", u, r))
  BY <1>1
<1>3. op'[w] = x /\ \A v \in Hosts \ {w} : op'[v] = ops[v]
  BY <1>2, Excepted
<1>4. OpGoes(w)
  <2>1. CASE x = Idle
    BY <1>3, <2>1 DEF Idle, OpGoes
  <2>2. ASSUME NEW u, NEW r, x = Moved(w, "retry", u, r) PROVE OpGoes(w)
    BY <1>3, <2>2 DEF Moved, OpGoes, CommitPhases
  <2> QED
    BY <1>2, <2>1, <2>2
<1>5. \A v \in Hosts : OpGoes(v)
  BY <1>3, <1>4 DEF OpGoes
<1>6. latest' = latest
  BY DEF MysqlRetry, hosts
<1> QED
  BY <1>5, <1>6, Carried DEF MovesSoundly

-----------------------------------------------------------------------------
(* The adapters.                                                           *)
LEMMA LocalReads ==
    ASSUME ReadInv, NEW w \in Hosts,
           InProcess(w) \/ Withdraw(w) \/ SqliteBegin(w) \/ SqliteBusy(w) \/ SqliteCommit(w) \/ SqliteFails(w)
    PROVE  ReadPart'
<1>0. op[w].phase \in CommitPhases /\ op[w].phase \in {"queued", "locked"}
  BY DEF InProcess, Withdraw, SqliteBegin, SqliteBusy, SqliteCommit, SqliteFails, CommitPhases
<1>1. RepositoryInv /\ DbFits(db, tries) /\ tries \in Nat /\ Committing(w)
  BY <1>0, HostFacts DEF ReadInv
<1>2. CASE InProcess(w)
  <2> DEFINE c == op[w].commit
             v == IF adapter = "memory" THEN Verdict(db, c) ELSE EphemeralVerdict(db, c)
  <2>1. /\ db' = IF v = "new" THEN Publish(db, c) ELSE db
        /\ Answered(w, v # "refused") /\ UNCHANGED <<session, late>>
    BY <1>2 DEF InProcess
  <2>2. v = "new" => New(db, c)
    BY <1>1, Decided, DecidedElsewhere
  <2> HIDE DEF v
  <2>3. db' = db \/ Takes(w)
    BY <1>1, <2>1, <2>2 DEF Takes
  <2> QED
    BY <1>0, <2>1, <2>3, AnsweredCarries
<1>3. CASE Withdraw(w) \/ SqliteBusy(w) \/ SqliteFails(w)
  <2>1. Answered(w, FALSE) /\ UNCHANGED <<db, session, late>>
    BY <1>3 DEF Withdraw, SqliteBusy, SqliteFails, stored
  <2> QED
    BY <1>0, <2>1, AnsweredCarries
<1>4. CASE SqliteBegin(w)
  <2>1. Answered(w, FALSE) \/ Goes(w, "locked")
    BY <1>4 DEF SqliteBegin
  <2>2. UNCHANGED <<db, session, late>>
    BY <1>4 DEF SqliteBegin
  <2> QED
    BY <1>0, <2>1, <2>2, AnsweredCarries, GoesCarries DEF CommitPhases
<1>5. CASE SqliteCommit(w)
  <2>1. Answered(w, TRUE) /\ UNCHANGED <<session, late>> /\ db' = Written(op[w].commit) /\ op[w].phase = "locked"
    BY <1>5 DEF SqliteCommit
  <2> QED
    BY <1>0, <1>1, <2>1, WrittenUnderLock, AnsweredCarries
<1> QED
  BY <1>2, <1>3, <1>4, <1>5

LEMMA MysqlReads ==
    ASSUME ReadInv, NEW w \in Hosts,
           \/ MysqlLockHead(w) \/ MysqlInsert(w) \/ MysqlCommit(w)
           \/ MysqlLockTimeout(w) \/ MysqlDisconnect(w) \/ MysqlCommitLost(w)
    PROVE  ReadPart'
<1>0. op[w].phase \in CommitPhases
  BY DEF MysqlLockHead, MysqlInsert, MysqlCommit, MysqlLockTimeout, MysqlDisconnect, MysqlCommitLost,
         Ordinary, CommitPhases
<1>1. RepositoryInv /\ Sound(op[w].commit) /\ op = [v \in Hosts |-> op[v]]
  BY <1>0, HeldSound DEF RepositoryInv
<1>2. CASE MysqlLockHead(w) \/ MysqlInsert(w)
  <2>1. Answered(w, FALSE) \/ Goes(w, "gap") \/ Goes(w, "locked")
    BY <1>2 DEF MysqlLockHead, MysqlInsert
  <2>2. UNCHANGED <<db, session, late>>
    BY <1>2 DEF MysqlLockHead, MysqlInsert
  <2> QED
    BY <1>0, <2>1, <2>2, AnsweredCarries, GoesCarries DEF CommitPhases
<1>3. CASE MysqlLockTimeout(w)
  <2>1. MysqlRetry(w, op) /\ UNCHANGED <<db, session, late>>
    BY <1>3 DEF MysqlLockTimeout, stored
  <2> QED
    BY <1>0, <1>1, <2>1, RetryCarries
<1>4. CASE MysqlDisconnect(w)
  <2>1. Answered(w, FALSE) \/ Goes(w, "retry")
    BY <1>4 DEF MysqlDisconnect, Raises
  <2>2. UNCHANGED <<db, session, late>>
    BY <1>4 DEF MysqlDisconnect
  <2> QED
    BY <1>0, <2>1, <2>2, AnsweredCarries, GoesCarries DEF CommitPhases
<1>5. CASE MysqlCommit(w)
  <2>1. Answered(w, TRUE) /\ UNCHANGED <<session, late>> /\ db' = Written(op[w].commit) /\ op[w].phase = "locked"
    BY <1>5 DEF MysqlCommit
  <2> QED
    BY <1>0, <1>1, <2>1, WrittenUnderLock, AnsweredCarries
<1>6. CASE MysqlCommitLost(w)
  <2>1. /\ op' = [op EXCEPT ![w] = Moved(w, "retry", TRUE, op[w].retries)]
        /\ latest' = latest /\ late' = late /\ op[w].phase = "locked"
    BY <1>0, <1>1, <1>6, PhaseAndUnknown DEF MysqlCommitLost, SettleLater, hosts
  <2>2. \/ db' \in {db, Written(op[w].commit)} /\ session' = session
        \/ db' = db /\ session'.commit = op[w].commit
    BY <1>6 DEF MysqlCommitLost
  <2>3. db' = db \/ Takes(w)
    BY <1>1, <2>1, <2>2, WrittenUnderLock
  <2>4. session' = session \/ Sound(session'.commit)
    BY <1>1, <2>2
  <2> QED
    BY <1>0, <2>1, <2>3, <2>4, MovedCarries DEF CommitPhases
<1> QED
  BY <1>2, <1>3, <1>4, <1>5, <1>6

LEMMA DeadlockReads == ASSUME ReadInv, NEW w \in Hosts, MysqlDeadlock(w) PROVE ReadPart'
<1>0. /\ op[w].phase = "gap" /\ op[w].phase \in CommitPhases /\ UNCHANGED <<db, session, late>>
      /\ op = [v \in Hosts |-> op[v]] /\ RepositoryInv
  BY DEF MysqlDeadlock, CommitPhases, ReadInv, RepositoryInv
<1>1. PICK v \in Hosts \ {w} :
          /\ op[v].phase = "gap"
          /\ IF \A u \in Hosts \ {v, w} : op[u].phase # "gap"
             THEN lock' = v /\ MysqlRetry(w, [op EXCEPT ![v].phase = "locked"])
             ELSE UNCHANGED lock /\ MysqlRetry(w, op)
  BY DEF MysqlDeadlock
<1>2. CASE MysqlRetry(w, op)
  BY <1>0, <1>2, RetryCarries
<1>3. CASE MysqlRetry(w, [op EXCEPT ![v].phase = "locked"])
  <2> DEFINE ops == [op EXCEPT ![v].phase = "locked"]
             x == Moved(v, "locked", op[v].unknown, op[v].retries)
  <2>1. op[v].phase \in CommitPhases
    BY <1>1 DEF CommitPhases
  <2>2. ops = [op EXCEPT ![v] = x]
    <3>1. ops = [op EXCEPT ![v] = [op[v] EXCEPT !.phase = "locked"]]
      BY <1>0
    <3> QED
      BY <1>0, <2>1, <3>1, OnlyPhase
  <2>3. x.phase = "locked" /\ x.commit = op[v].commit /\ "locked" \in CommitPhases
    BY DEF Moved, CommitPhases
  <2> HIDE DEF x
  <2>4. ops = [u \in Hosts |-> ops[u]] /\ ops[v] = x /\ \A u \in Hosts \ {v} : ops[u] = op[u]
    BY <1>0, <2>2, Excepted
  <2>5. MysqlRetry(w, ops)
    BY <1>3
  <2> HIDE DEF ops
  <2> QED
    BY <1>0, <2>1, <2>3, <2>4, <2>5, RetryCarries
<1> QED
  BY <1>1, <1>2, <1>3

LEMMA RedisReads ==
    ASSUME ReadInv, NEW w \in Hosts,
           RedisProbe(w) \/ RedisProbeFails(w) \/ RedisCommit(w) \/ RedisCommitLost(w) \/ RedisNoWrite(w)
    PROVE  ReadPart'
<1> DEFINE c == op[w].commit
           v == ProbeVerdict(db, c)
           u == ScriptVerdict(db, c)
<1>0. op[w].phase \in CommitPhases
  BY DEF RedisProbe, RedisProbeFails, RedisCommit, RedisCommitLost, RedisNoWrite, CommitPhases
<1>1. RepositoryInv /\ Sound(c) /\ DbFits(db, tries) /\ tries \in Nat /\ Committing(w)
  BY <1>0, HeldSound, HostFacts
<1>2. u = "new" /\ db' = Publish(db, c) => Takes(w)
  BY <1>1, DecidedElsewhere DEF Takes
<1>3. CASE RedisProbe(w)
  <2>1. UNCHANGED <<db, session, late>>
    BY <1>3 DEF RedisProbe, stored
  <2>2. CASE v = "new"
    <3>1. op' = [op EXCEPT ![w] = Moved(w, "eval", FALSE, op[w].retries)] /\ latest' = latest
      BY <1>0, <1>1, <1>3, <2>2, PhaseAndUnknown DEF RedisProbe, hosts
    <3> QED
      BY <1>0, <2>1, <3>1, MovedCarries DEF CommitPhases
  <2>3. CASE v # "new"
    <3>1. Answered(w, v = "known")
      BY <1>3, <2>3 DEF RedisProbe
    <3> QED
      BY <1>0, <2>1, <3>1, AnsweredCarries
  <2> QED
    BY <2>2, <2>3
<1>4. CASE RedisProbeFails(w)
  <2>1. (Answered(w, FALSE) \/ Goes(w, "probe")) /\ UNCHANGED <<db, session, late>>
    BY <1>4 DEF RedisProbeFails, Raises, stored
  <2> QED
    BY <1>0, <2>1, AnsweredCarries, GoesCarries DEF CommitPhases
<1>5. CASE RedisCommit(w)
  <2>1. db' = (IF u = "new" THEN Publish(db, c) ELSE db) /\ Answered(w, u # "refused") /\ UNCHANGED <<session, late>>
    BY <1>5 DEF RedisCommit
  <2>2. db' = db \/ Takes(w)
    BY <1>2, <2>1
  <2> QED
    BY <1>0, <2>1, <2>2, AnsweredCarries
<1>6. ASSUME Unsettled(w), db' = db \/ Takes(w), session' = session, \A a \in late' : a \in late \/ Sound(a.commit)
      PROVE  ReadPart'
  <2>1. op' = [op EXCEPT ![w] = Moved(w, "probe", TRUE, op[w].retries)] /\ latest' = latest
    BY <1>0, <1>1, <1>6, PhaseAndUnknown DEF Unsettled, hosts
  <2> QED
    BY <1>0, <1>6, <2>1, MovedCarries DEF CommitPhases
<1>7. CASE RedisCommitLost(w)
  <2>1. Unsettled(w) /\ session' = session
    BY <1>7 DEF RedisCommitLost
  <2>2. /\ db' = db \/ (u = "new" /\ db' = Publish(db, c))
        /\ late' = late \/ late' = late \cup {Attempt(w)}
    BY <1>7 DEF RedisCommitLost
  <2>3. Attempt(w).commit = c
    BY DEF Attempt
  <2>4. \A a \in late' : a \in late \/ Sound(a.commit)
    BY <1>1, <2>2, <2>3
  <2> QED
    BY <1>2, <1>6, <2>1, <2>2, <2>4
<1>8. CASE RedisNoWrite(w)
  <2>1. (Answered(w, FALSE) \/ Unsettled(w)) /\ UNCHANGED <<db, session, late>>
    BY <1>8 DEF RedisNoWrite, Raises, stored
  <2> QED
    BY <1>0, <1>6, <2>1, AnsweredCarries
<1> QED
  BY <1>3, <1>4, <1>5, <1>7, <1>8

-----------------------------------------------------------------------------
(* get_head(): the row that was read first leads to one whole checkpoint,  *)
(* however many commits follow.                                            *)
LEMMA ReaderCarries ==
    ASSUME ReadInv, NEW w \in Hosts, NEW x, op' = [op EXCEPT ![w] = x],
           \/ x.phase = "idle"
           \/ x.phase \in {"ledger", "chunks"} /\ RowReads(db, x.head),
           UNCHANGED <<db, latest, session, late>>
    PROVE  ReadPart'
<1>1. op'[w] = x /\ \A v \in Hosts \ {w} : op'[v] = op[v]
  <2>1. op = [v \in Hosts |-> op[v]]
    BY DEF ReadInv, RepositoryInv
  <2> QED
    BY <2>1, Excepted
<1>2. \A v \in Hosts : HeldFits(v)
  BY DEF ReadInv, ReadPart
<1>3. HeldFits(w)'
  <2>1. latest'[w] # None => Sound(latest'[w])
    BY <1>2 DEF HeldFits
  <2> QED
    BY <1>1, <2>1 DEF HeldFits, CommitPhases
<1>4. \A v \in Hosts \ {w} : HeldFits(v)'
  BY <1>1, <1>2 DEF HeldFits
<1>5. DbReads(db') /\ ServersHold'
  BY DEF ReadInv, ReadPart, ServersHold
<1> QED
  BY <1>3, <1>4, <1>5 DEF ReadPart

LEMMA DoneCarries ==
    ASSUME ReadInv, NEW w \in Hosts, NEW cp, cp # Damaged, ReadDone(w, cp)
    PROVE  ReadPart'
<1>1. op' = [op EXCEPT ![w] = Idle] /\ UNCHANGED <<db, latest, session, late>>
  BY DEF ReadDone, stored
<1>2. Idle.phase = "idle"
  BY DEF Idle
<1> HIDE DEF Idle
<1> QED
  BY <1>1, <1>2, ReaderCarries

Whole(d, h) ==
    /\ CoreMatches(h) /\ h.digest # Damaged
    /\ h.id \in DOMAIN d.ledger /\ d.ledger[h.id] = [rev |-> h.rev, digest |-> h.digest]
    /\ {<<h.gen, i>> : i \in 0..h.chunks - 1} \subseteq DOMAIN d.chunks
    /\ Reconstruct(h, ChunksOf(d.chunks, h)) = h.digest

LEMMA WholeRow == ASSUME NEW d, NEW h, RowReads(d, h) PROVE Whole(d, h)
<1>1. CoreReads(h) /\ ChunksRead(d.chunks, h)
  BY DEF RowReads
<1>2. h.core.rev = h.rev /\ h.core.count = h.count /\ h.rev \in Nat /\ CoreMatches(h)
  BY <1>1 DEF CoreReads, CoreMatches
<1>3. h.digest # Damaged
  <2>1. h.digest.rev = h.rev
    BY <1>1, <1>2 DEF CoreReads, Checkpoint
  <2> QED
    BY <1>2, <2>1 DEF Damaged
<1>4. ASSUME NEW i \in 0..h.chunks - 1 PROVE <<h.gen, i>> \in DOMAIN d.chunks
  <2>1. i + 1 \in 1..h.chunks /\ (i + 1) - 1 = i
    BY <1>1 DEF ChunksRead
  <2> QED
    BY <1>1, <2>1 DEF ChunksRead
<1>5. Concat(ChunksOf(d.chunks, h)) = h.hdigest
  BY <1>1 DEF ChunksRead
<1>6. Reconstruct(h, ChunksOf(d.chunks, h)) = h.digest
  BY <1>1, <1>2, <1>5 DEF Reconstruct, CoreReads
<1> QED
  BY <1>2, <1>3, <1>4, <1>6 DEF RowReads, Whole

LEMMA GetHeadReads ==
    ASSUME ReadInv, NEW w \in Hosts, ReadInProcess(w) \/ ReadHead(w) \/ ReadLedger(w) \/ ReadChunks(w)
    PROVE  ReadPart'
<1>0. None # Damaged
  <2>1. None.rev # Damaged.rev
    BY DEF None, Damaged
  <2> QED
    BY <2>1
<1>1. ~IsNone(db.head) => RowReads(db, db.head)
  BY DEF ReadInv, ReadPart, DbReads
<1>2. op[w].phase \in {"ledger", "chunks"} =>
          /\ RowReads(db, op[w].head)
          /\ op[w] = [phase |-> op[w].phase, head |-> op[w].head, chunks |-> op[w].chunks]
  BY HostFacts DEF HostFits, OpFits, ReadInv, ReadPart, HeldFits
<1>3. CASE ReadInProcess(w)
  <2>1. ReadDone(w, IF IsNone(db.head) THEN None ELSE db.head.digest)
    BY <1>3 DEF ReadInProcess
  <2>2. ~IsNone(db.head) => db.head.digest # Damaged
    BY <1>1, WholeRow DEF Whole
  <2> QED
    BY <1>0, <2>1, <2>2, DoneCarries
<1>4. CASE ReadHead(w)
  <2>1. CASE IsNone(db.head)
    BY <1>0, <1>4, <2>1, DoneCarries DEF ReadHead
  <2>2. CASE ~IsNone(db.head)
    <3> DEFINE x == [phase |-> "ledger", head |-> db.head, chunks |-> <<>>]
    <3>1. RowReads(db, db.head) /\ CoreMatches(db.head)
      BY <1>1, <2>2, WholeRow DEF Whole
    <3>2. op' = [op EXCEPT ![w] = x] /\ UNCHANGED <<db, latest, session, late>>
      BY <1>4, <2>2, <3>1 DEF ReadHead, stored
    <3>3. x.phase = "ledger" /\ x.head = db.head
      OBVIOUS
    <3> HIDE DEF x
    <3> QED
      BY <3>1, <3>2, <3>3, ReaderCarries
  <2> QED
    BY <2>1, <2>2
<1>5. CASE ReadLedger(w)
  <2> DEFINE o == op[w]
             x == [o EXCEPT !.phase = "chunks"]
  <2>0. RowReads(db, o.head) /\ o = [phase |-> o.phase, head |-> o.head, chunks |-> o.chunks]
    BY <1>2, <1>5 DEF ReadLedger
  <2>1. o.head.id \in DOMAIN db.ledger /\ db.ledger[o.head.id] = [rev |-> o.head.rev, digest |-> o.head.digest]
    BY <2>0, WholeRow DEF Whole
  <2>2. op' = [op EXCEPT ![w] = x] /\ UNCHANGED <<db, latest, session, late>>
    BY <1>5, <2>1 DEF ReadLedger, stored
  <2> HIDE DEF o
  <2>3. x = [phase |-> "chunks", head |-> o.head, chunks |-> o.chunks]
    BY <2>0
  <2> HIDE DEF x
  <2>4. x.phase = "chunks" /\ x.head = o.head
    BY <2>3
  <2> QED
    BY <2>0, <2>2, <2>4, ReaderCarries
<1>6. CASE ReadChunks(w)
  <2> DEFINE h == op[w].head
  <2>1. RowReads(db, h)
    BY <1>2, <1>6 DEF ReadChunks
  <2> HIDE DEF h
  <2>2. /\ {<<h.gen, i>> : i \in 0..h.chunks - 1} \subseteq DOMAIN db.chunks
        /\ Reconstruct(h, ChunksOf(db.chunks, h)) = h.digest /\ h.digest # Damaged
    <3>1. Whole(db, h)
      BY <2>1, WholeRow
    <3> QED
      BY <3>1, Zenon DEF Whole
  <2>3. ReadDone(w, Reconstruct(h, ChunksOf(db.chunks, h)))
    BY <1>6, <2>2 DEF ReadChunks, ChunksOf, h
  <2> QED
    BY <2>2, <2>3, DoneCarries
<1> QED
  BY <1>3, <1>4, <1>5, <1>6

-----------------------------------------------------------------------------
(* The rest of a host's life, and what the servers still do.               *)
LEMMA CloseReads == ASSUME ReadInv, NEW w \in Hosts, Close(w) \/ Closed(w) PROVE ReadPart'
<1>1. UNCHANGED <<db, session, late, op, latest>>
  BY DEF Close, Closed, stored, hosts
<1>2. \A v \in Hosts : OpGoes(v)
  BY <1>1 DEF OpGoes
<1> QED
  BY <1>1, <1>2, Carried DEF MovesSoundly

LEMMA CrashReads == ASSUME ReadInv, NEW w \in Hosts, Crash(w) PROVE ReadPart'
<1>1. op' = [op EXCEPT ![w] = Idle] /\ latest' = [latest EXCEPT ![w] = None] /\ session' = session
  BY DEF Crash
<1>2. \A v \in Hosts : OpGoes(v)
  <2>1. Idle.phase = "idle"
    BY DEF Idle
  <2> HIDE DEF Idle
  <2> QED
    BY <1>1, <2>1, OneGoes
<1>3. \A v \in Hosts : latest'[v] \in {latest[v], None}
  <2>1. latest = [v \in Hosts |-> latest[v]]
    BY DEF ReadInv, RepositoryInv
  <2>2. latest'[w] = None /\ \A v \in Hosts \ {w} : latest'[v] = latest[v]
    BY <1>1, <2>1, Excepted
  <2> QED
    BY <2>2
<1>4. \/ db' = db /\ late' = late
      \/ op[w].phase = "locked" /\ db' = Written(op[w].commit) /\ late' = late
      \/ op[w].phase = "eval" /\ late' = late \cup {Attempt(w)} /\ db' = db
  BY DEF Crash
<1>5. MovesSoundly
  <2>1. CASE db' = db
    BY <2>1 DEF MovesSoundly
  <2>2. CASE op[w].phase = "locked" /\ db' = Written(op[w].commit)
    <3>1. RepositoryInv /\ op[w].phase \in CommitPhases
      BY <2>2 DEF ReadInv, CommitPhases
    <3>2. db' = db \/ Takes(w)
      BY <2>2, <3>1, WrittenUnderLock
    <3> QED
      BY <3>1, <3>2, TakesSoundly
  <2> QED
    BY <1>4, <2>1, <2>2
<1>6. \A a \in late' : a \in late \/ Sound(a.commit)
  <2>1. op[w].phase = "eval" => Sound(Attempt(w).commit)
    BY HeldSound DEF Attempt, CommitPhases
  <2> QED
    BY <1>4, <2>1
<1> QED
  BY <1>1, <1>2, <1>3, <1>5, <1>6, Carried

LEMMA ServersRead == ASSUME ReadInv, SessionEnds \/ LateCommandRuns PROVE ReadPart'
<1>0. RepositoryInv /\ ServersHold /\ DbFits(db, tries)
  BY DEF ReadInv, ReadPart, RepositoryInv
<1>1. UNCHANGED <<op, latest>>
  BY DEF SessionEnds, LateCommandRuns, hosts
<1>2. \A v \in Hosts : OpGoes(v)
  BY <1>1 DEF OpGoes
<1>3. CASE SessionEnds
  <2> DEFINE c == session.commit
  <2>1. ~IsNone(session) /\ db' \in {db, Publish(db, c)} /\ session' = None /\ late' = late
    BY <1>3 DEF SessionEnds
  <2>2. /\ New(db, c) /\ Sound(c)
        /\ \/ \E a \in lost : a.commit = c
           \/ \E v \in Hosts : Waits(v) /\ op[v].commit = c
    BY <1>0, <2>1 DEF RepositoryInv, SessionFits, ServersHold
  <2>3. \E u \in Hosts : CommitFits(c, u, tries)
    <3>1. CASE \E a \in lost : a.commit = c
      BY <1>0, <3>1 DEF RepositoryInv, LostFits
    <3>2. CASE \E v \in Hosts : Waits(v) /\ op[v].commit = c
      <4>1. PICK v \in Hosts : Waits(v) /\ op[v].commit = c
        BY <3>2
      <4>2. op[v].phase \in CommitPhases
        BY <4>1 DEF Waits, Committing, CommitPhases
      <4> QED
        BY <1>0, <4>1, <4>2, HostFacts
    <3> QED
      BY <2>2, <3>1, <3>2
  <2> HIDE DEF c
  <2>4. MovesSoundly
    BY <2>1, <2>2, <2>3 DEF MovesSoundly
  <2>5. IsNone(session')
    BY <2>1 DEF IsNone, None
  <2> QED
    BY <1>1, <1>2, <2>1, <2>4, <2>5, Carried
<1>4. CASE LateCommandRuns
  <2>1. PICK a \in late :
            /\ late' = late \ {a}
            /\ db' \in {db, IF ScriptVerdict(db, a.commit) = "new" THEN Publish(db, a.commit) ELSE db}
    BY <1>4 DEF LateCommandRuns
  <2>2. session' = session /\ tries \in Nat
    BY <1>0, <1>4 DEF LateCommandRuns, RepositoryInv
  <2>3. a.who \in Hosts /\ CommitFits(a.commit, a.who, tries) /\ Sound(a.commit)
    BY <1>0 DEF RepositoryInv, LateFits, ServersHold
  <2>4. db' = db \/ (New(db, a.commit) /\ db' = Publish(db, a.commit))
    BY <1>0, <2>1, <2>2, DecidedElsewhere
  <2>5. MovesSoundly
    BY <2>3, <2>4 DEF MovesSoundly
  <2> QED
    BY <1>1, <1>2, <2>1, <2>2, <2>5, Carried
<1> QED
  BY <1>3, <1>4

-----------------------------------------------------------------------------
(* The commits the hosts make.  What is assumed of the states they commit  *)
(* is that each comes back from the store as it was: so planning states,   *)
(* and others without a pending provider turn.                             *)
StatesRestore == \A s \in States : DecodeState(EncodeState(s)) = s

LEMMA StartReads ==
    ASSUME ReadInv, NEW w \in Hosts, NEW c, Start(w, c), Sound(c)
    PROVE  ReadPart'
<1> DEFINE p == IF adapter \in Redis THEN "probe" ELSE "queued"
           o == [phase |-> p, commit |-> c, try |-> tries', retries |-> 0, unknown |-> FALSE]
<1>1. op' = [op EXCEPT ![w] = o] /\ latest' = [latest EXCEPT ![w] = c] /\ UNCHANGED <<db, session, late>>
  BY DEF Start, stored
<1>2. o.phase \in {"probe", "queued"} /\ o.commit = c
  OBVIOUS
<1> HIDE DEF o
<1>3. op = [v \in Hosts |-> op[v]] /\ latest = [v \in Hosts |-> latest[v]]
  BY DEF ReadInv, RepositoryInv
<1>4. op'[w] = o /\ \A v \in Hosts \ {w} : op'[v] = op[v]
  BY <1>1, <1>3, Excepted
<1>5. latest'[w] = c /\ \A v \in Hosts \ {w} : latest'[v] = latest[v]
  BY <1>1, <1>3, Excepted
<1>6. HeldFits(w)'
  BY <1>2, <1>4, <1>5 DEF HeldFits
<1>7. \A v \in Hosts \ {w} : HeldFits(v)'
  BY <1>1, <1>4, <1>5 DEF ReadInv, ReadPart, HeldFits
<1>8. DbReads(db') /\ ServersHold'
  BY <1>1 DEF ReadInv, ReadPart, ServersHold
<1> QED
  BY <1>6, <1>7, <1>8 DEF ReadPart

LEMMA KnownHistory ==
    ASSUME ReadInv, NEW w \in Hosts, op[w] = Idle, ~IsNone(known[w])
    PROVE  known[w].hist \in Seq(Message)
<1>1. known[w] = Foreign \/ InLedger(db, known[w])
  <2>1. KnownFits(w)
    BY DEF ReadInv, RepositoryInv, HostFits
  <2>2. known[w] # None
    BY DEF IsNone, None
  <2>3. op[w].phase = "idle"
    BY DEF Idle
  <2> QED
    BY <2>1, <2>2, <2>3 DEF KnownFits
<1>2. CASE known[w] = Foreign
  <2>1. Foreign.hist = <<"m">>
    BY DEF Foreign, Checkpoint
  <2>2. "m" \in Message
    BY DEF Message
  <2> QED
    BY <1>2, <2>1, <2>2
<1>3. CASE InLedger(db, known[w])
  BY <1>3 DEF InLedger, ReadInv, ReadPart, DbReads
<1> QED
  BY <1>1, <1>2, <1>3

LEMMA CommitReads == ASSUME StatesRestore, ReadInv, NEW w \in Hosts, Commit(w) PROVE ReadPart'
<1> DEFINE id == <<w, tries + 1>>
           some == [i \in 1..ChunkSize + 1 |-> id]
<1>1. PICK state \in States :
          \/ IsNone(known[w]) /\ Start(w, InitialCommit(id, some, state))
          \/ ~IsNone(known[w]) /\ Start(w, NextCommit(known[w], "append", id, <<id>>, state))
          \/ ~IsNone(known[w]) /\ Start(w, NextCommit(known[w], "replace", id, some, state))
          \/ ~IsNone(known[w]) /\ Start(w, NextCommit(known[w], "unchanged", id, <<>>, state))
  BY DEF Commit
<1>2. id \in Message
  BY DEF Message, ReadInv, RepositoryInv
<1> HIDE DEF id
<1>3. some \in Seq(Message) /\ <<id>> \in Seq(Message) /\ <<>> \in Seq(Message)
  <2>1. ChunkSize + 1 \in Nat
    BY ChunkAssumption
  <2>2. some = [i \in 1..ChunkSize + 1 |-> some[i]] /\ \A i \in 1..ChunkSize + 1 : some[i] \in Message
    BY <1>2
  <2> HIDE DEF some
  <2>3. some \in Seq(Message)
    BY <2>1, <2>2, Listed
  <2> QED
    BY <1>2, <2>3
<1> HIDE DEF some
<1>4. DecodeState(EncodeState(state)) = state
  BY DEF StatesRestore
<1>5. CASE Start(w, InitialCommit(id, some, state))
  <2> DEFINE c == InitialCommit(id, some, state)
  <2>1. Sound(c)
    BY <1>3, <1>4 DEF Sound, InitialCommit, Checkpoint
  <2> HIDE DEF c
  <2> QED
    BY <1>5, <2>1, StartReads DEF c
<1>6. ASSUME NEW kind \in {"append", "replace", "unchanged"}, NEW msgs \in Seq(Message), ~IsNone(known[w]),
             Start(w, NextCommit(known[w], kind, id, msgs, state))
      PROVE  ReadPart'
  <2> DEFINE c == NextCommit(known[w], kind, id, msgs, state)
             hist == known[w].hist
  <2>1. hist \in Seq(Message)
    BY <1>6, KnownHistory DEF Start
  <2>2. /\ c.base = hist /\ c.kind = kind /\ c.checkpoint.state = state
        /\ c.msgs = IF kind = "unchanged" THEN <<>> ELSE msgs
        /\ c.checkpoint.hist = CASE kind = "append"    -> Glue(hist, msgs)
                                 [] kind = "replace"   -> msgs
                                 [] kind = "unchanged" -> hist
    BY DEF NextCommit, Checkpoint, Glue
  <2>3. Glue(hist, <<>>) = hist
    BY <2>1, ConcatEmptySeq DEF Glue
  <2> HIDE DEF c, hist
  <2>4. Sound(c)
    BY <1>3, <1>4, <2>1, <2>2, <2>3 DEF Sound
  <2> QED
    BY <1>6, <2>4, StartReads DEF c
<1> QED
  BY <1>1, <1>3, <1>5, <1>6

LEMMA CommitAgainReads == ASSUME ReadInv, NEW w \in Hosts, CommitAgain(w) PROVE ReadPart'
<1> DEFINE c == latest[w]
<1>1. Sound(c) /\ CommitFits(c, w, tries)
  <2>1. c # None
    BY DEF CommitAgain
  <2> QED
    BY <2>1 DEF ReadInv, ReadPart, HeldFits, RepositoryInv, HostFits, LatestFits
<1>2. CASE Start(w, c)
  BY <1>1, <1>2, StartReads
<1>3. CASE Start(w, [c EXCEPT !.checkpoint.state = OtherState])
  <2> DEFINE k == [c.checkpoint EXCEPT !.state = OtherState]
             e == [c EXCEPT !.checkpoint = k]
  <2>0. /\ c = [checkpoint |-> c.checkpoint, parent |-> c.parent, kind |-> c.kind, base |-> c.base, msgs |-> c.msgs]
        /\ c.checkpoint = Checkpoint(c.checkpoint.id, c.checkpoint.rev, c.checkpoint.hist, c.checkpoint.state)
    BY <1>1 DEF CommitFits
  <2>1. Start(w, e)
    BY <1>3
  <2> HIDE DEF c
  <2>2. k = Checkpoint(c.checkpoint.id, c.checkpoint.rev, c.checkpoint.hist, OtherState)
    BY <2>0 DEF Checkpoint
  <2> HIDE DEF k
  <2>3. e = [checkpoint |-> k, parent |-> c.parent, kind |-> c.kind, base |-> c.base, msgs |-> c.msgs]
    BY <2>0
  <2> HIDE DEF e
  <2>4. k.hist = c.checkpoint.hist /\ k.state = OtherState
    BY <2>2 DEF Checkpoint
  <2>5. DecodeState(EncodeState(OtherState)) = OtherState
    BY DEF DecodeState, EncodeState, OtherState
  <2>6. Sound(e)
    BY <1>1, <2>3, <2>4, <2>5 DEF Sound
  <2> QED
    BY <2>1, <2>6, StartReads
<1> QED
  BY <1>2, <1>3 DEF CommitAgain

-----------------------------------------------------------------------------
LEMMA InitReads == ASSUME Init PROVE ReadPart
<1>1. /\ db = EmptyDb /\ session = None /\ late = {}
      /\ op = [w \in Hosts |-> Idle] /\ latest = [w \in Hosts |-> None]
  BY DEF Init
<1>2. DbReads(db)
  BY <1>1 DEF DbReads, EmptyDb, IsNone, None
<1>3. \A w \in Hosts : HeldFits(w)
  BY <1>1 DEF HeldFits, Idle, CommitPhases
<1>4. ServersHold
  BY <1>1 DEF ServersHold, IsNone, None
<1> QED
  BY <1>2, <1>3, <1>4 DEF ReadPart

LEMMA StutterReads == ASSUME ReadInv, UNCHANGED vars PROVE ReadPart'
<1>1. UNCHANGED <<db, session, late, op, latest>>
  BY DEF vars
<1>2. \A v \in Hosts : OpGoes(v)
  BY <1>1 DEF OpGoes
<1> QED
  BY <1>1, <1>2, Carried DEF MovesSoundly

LEMMA NextReads == ASSUME StatesRestore, ReadInv, [Next]_vars PROVE ReadPart'
<1>1. ASSUME NEW w \in Hosts, Works(w) PROVE ReadPart'
  BY <1>1, LocalReads, MysqlReads, DeadlockReads, RedisReads, GetHeadReads, CloseReads DEF Works
<1>2. ASSUME NEW w \in Hosts, Fails(w) PROVE ReadPart'
  BY <1>2, LocalReads, MysqlReads, RedisReads, CrashReads DEF Fails
<1>3. ASSUME NEW w \in Hosts, \/ Commit(w) \/ CommitAgain(w) \/ Withdraw(w)
                              \/ ReadInProcess(w) \/ ReadHead(w) \/ Close(w)
      PROVE  ReadPart'
  BY <1>3, CommitReads, CommitAgainReads, LocalReads, GetHeadReads, CloseReads
<1> QED
  BY <1>1, <1>2, <1>3, ServersRead, StutterReads DEF Next

(* A read that several commits overtake returns one whole checkpoint of    *)
(* the chain: never a mixture, and never a false report of damage          *)
(* (read_head, reconstruct_checkpoint), for any number of hosts, commits,  *)
(* crashes and late replies.  The hosts commit states that can be stored:  *)
(* with another one the store cannot give back what it has the digest of.  *)
THEOREM ReadsSeeOneHeadAlways == ASSUME StatesRestore PROVE Spec => []ReadsSeeOneHead
<1>1. Init => ReadInv
  BY InitFits, InitReads DEF ReadInv
<1>2. ReadInv /\ [Next]_vars => ReadInv'
  <2> SUFFICES ASSUME ReadInv, [Next]_vars PROVE ReadInv'
    OBVIOUS
  <2>1. RepositoryInv
    BY DEF ReadInv
  <2> QED
    BY <2>1, StepFits, NextReads DEF KeepsPromise, ReadInv
<1>3. ReadInv => ReadsSeeOneHead
  BY DEF ReadInv, ReadPart, HeldFits, RepositoryInv, HostFits, KnownFits, ReadsSeeOneHead, InLedger, Ledger,
         IsNone, None
<1> QED
  BY <1>1, <1>2, <1>3, PTL DEF Spec
=============================================================================
