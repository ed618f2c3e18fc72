--------------------------- MODULE WorkspaceToolProofs ---------------------------
(***************************************************************************)
(* The tools that work on a workspace.  Write and Edit: no write of this   *)
(* process is lost and outcomes tell the truth, for any number of          *)
(* mutations of one path and of changes made outside.  Bash: nothing of a  *)
(* command runs on after the answer, and the answer says honestly what of  *)
(* the output it holds, for every limit and whatever the processes do.     *)
(* Text edits: what is not replaced stays as it was, for texts of any      *)
(* length.                                                                 *)
(***************************************************************************)
EXTENDS FileMutation, Shell, TextEdit, NaturalsInduction, WellFoundedInduction, SequenceTheorems, TLAPS

LockedPhases == {"opening", "reading", "verifying", "writing", "checking", "committing"}
Verified == {"writing", "checking", "committing"} \* the first precondition held
Endings == {"running", "done", "unchanged", "failed", "cancelled"}

Files == [kind : {"missing", "regular", "link"}, content : Mutations \cup {"", "base", "other"},
          stamp : Int, author : Mutations \cup {Nobody, Outsider}]

WorkType == [op : {"write", "edit"}, expected : {"", "base"},
             pc : {"encoding", "leaving", "ended"} \cup LockedPhases, seen : Files, stop : BOOLEAN,
             waits : {"result", "settled"}, cancels : {0, 1, 2}, temporary : BOOLEAN, committed : BOOLEAN,
             ended : Endings, outcome : {"pending", "success", "failure", "cancelled"}]

FileTypes ==
    /\ file \in Files
    /\ holder \in Mutations \cup {Nobody}
    /\ work \in [Mutations -> WorkType]

(* What one record w says of itself: the thread's ending is what it did,   *)
(* and the call's outcome is that ending, unless a second cancellation     *)
(* answered first.                                                         *)
Coherent(w) ==
    /\ w.pc \in {"leaving", "ended"} <=> w.ended # "running"
    /\ w.committed <=> w.ended = "done"
    /\ w.temporary => w.pc \in Verified \cup {"leaving"}
    /\ w.waits = "result" <=> w.cancels = 0
    /\ w.outcome # "pending" =>
           \/ w.outcome = "cancelled" /\ w.cancels = 2
           \/ w.pc = "ended" /\ (w.outcome = Reported(w.ended)
                                 \/ (w.outcome = "cancelled" /\ Reported(w.ended) # "success"))

(* The thread between the acquisition and the release holds the lock, and  *)
(* no thread before or after it does.                                      *)
LockHeld ==
    \A m \in Mutations :
        /\ work[m].pc \in LockedPhases => holder = m
        /\ holder = m => work[m].pc \in LockedPhases \cup {"leaving"}

(* What a thread verified is what it will replace, but for what programs   *)
(* outside do.                                                             *)
VerifiedIsCurrent ==
    \A m \in Mutations :
        work[m].pc \in Verified => file = work[m].seen \/ file.author \notin Mutations

FileInv ==
    /\ FileTypes
    /\ \A m \in Mutations : Coherent(work[m])
    /\ LockHeld
    /\ VerifiedIsCurrent
    /\ NoToolWriteLost

-----------------------------------------------------------------------------
LEMMA Successor == ASSUME NEW n \in Int PROVE n + 1 \in Int
OBVIOUS

LEMMA CommittedFile ==
    ASSUME NEW f \in Files, NEW kind \in {"missing", "regular", "link"},
           NEW content \in Mutations \cup {"", "base", "other"}, NEW author \in Mutations \cup {Nobody, Outsider}
    PROVE  [kind |-> kind, content |-> content, stamp |-> f.stamp + 1, author |-> author] \in Files
<1>1. f.stamp \in Int
  BY DEF Files
<1>2. f.stamp + 1 \in Int
  BY <1>1, Successor
<1> QED
  BY <1>2 DEF Files

LEMMA FileStart == FileInit => FileInv
<1> SUFFICES ASSUME FileInit PROVE FileInv
  OBVIOUS
<1>0. file \in {NoFile, [kind |-> "regular", content |-> "base", stamp |-> 1, author |-> Nobody]}
  BY DEF FileInit
<1>1. file \in Files /\ NoFile \in Files
  <2>1. NoFile \in Files
    BY DEF NoFile, Files
  <2>2. [kind |-> "regular", content |-> "base", stamp |-> 1, author |-> Nobody] \in Files
    BY DEF Files
  <2> QED
    BY <1>0, <2>1, <2>2
<1>2. PICK calls \in [Mutations -> MutationCalls] : work = [m \in Mutations |-> Worker(calls[m])]
  BY DEF FileInit
<1>3. ASSUME NEW c \in MutationCalls
      PROVE  Worker(c) \in WorkType /\ Coherent(Worker(c)) /\ Worker(c).pc = "encoding"
  <2>1. c.op \in {"write", "edit"} /\ c.expected \in {"", "base"}
    BY DEF MutationCalls
  <2>2. Worker(c) \in WorkType
    BY <1>1, <2>1 DEF Worker, WorkType, Endings
  <2> QED
    BY <2>2 DEF Worker, Coherent
<1>4. \A m \in Mutations : work[m] \in WorkType /\ Coherent(work[m]) /\ work[m].pc = "encoding"
  BY <1>2, <1>3
<1>5. work \in [Mutations -> WorkType]
  BY <1>2, <1>3
<1> QED
  BY <1>1, <1>4, <1>5, FileAssumption
     DEF FileInit, FileInv, FileTypes, LockHeld, VerifiedIsCurrent, NoToolWriteLost, LockedPhases, Verified

(* A step of one mutation that leaves the file alone keeps the invariant   *)
(* when its new record k is coherent and fits the holder and the file.     *)
LEMMA QuietWorkStep ==
    ASSUME FileInv, NEW m \in Mutations, NEW STATE k,
           k \in WorkType, Coherent(k), work' = [work EXCEPT ![m] = k],
           holder' \in Mutations \cup {Nobody},
           \A n \in Mutations \ {m} : holder' = n <=> holder = n,
           k.pc \in LockedPhases => holder' = m,
           holder' = m => k.pc \in LockedPhases \cup {"leaving"},
           k.pc \in Verified => file = k.seen \/ file.author \notin Mutations,
           UNCHANGED <<file, lost>>
    PROVE  FileInv'
<1>1. work'[m] = k /\ \A n \in Mutations \ {m} : work'[n] = work[n]
  BY DEF FileInv, FileTypes
<1>2. FileTypes'
  BY DEF FileInv, FileTypes
<1>3. \A n \in Mutations : Coherent(work'[n])
  BY <1>1 DEF FileInv
<1>4. LockHeld'
  BY <1>1 DEF FileInv, LockHeld
<1>5. VerifiedIsCurrent'
  BY <1>1 DEF FileInv, VerifiedIsCurrent
<1> QED
  BY <1>2, <1>3, <1>4, <1>5 DEF FileInv, NoToolWriteLost, Coherent, Reported

(* The same, for a step that also leaves the lock alone.                   *)
LEMMA WorkStep ==
    ASSUME FileInv, NEW m \in Mutations, NEW STATE k,
           k \in WorkType, Coherent(k), work' = [work EXCEPT ![m] = k],
           k.pc \in LockedPhases => work[m].pc \in LockedPhases,
           work[m].pc \in LockedPhases \cup {"leaving"} => k.pc \in LockedPhases \cup {"leaving"},
           k.pc \in Verified => (file = k.seen \/ (work[m].pc \in Verified /\ k.seen = work[m].seen)),
           UNCHANGED <<file, holder, lost>>
    PROVE  FileInv'
<1>1. k.pc \in LockedPhases => holder' = m
  BY DEF FileInv, LockHeld
<1>2. holder' = m => k.pc \in LockedPhases \cup {"leaving"}
  BY DEF FileInv, LockHeld
<1>3. k.pc \in Verified => file = k.seen \/ file.author \notin Mutations
  BY DEF FileInv, VerifiedIsCurrent
<1>4. holder' \in Mutations \cup {Nobody}
  BY DEF FileInv, FileTypes
<1> QED
  BY <1>1, <1>2, <1>3, <1>4, QuietWorkStep

(* Leaving with an error, from any phase in which the thread runs.         *)
LEMMA LeavingStep ==
    ASSUME FileInv, NEW m \in Mutations, NEW ended \in {"unchanged", "failed", "cancelled"},
           work[m].pc \in LockedPhases \cup {"encoding"}, Leaving(m, ended),
           UNCHANGED <<file, holder, lost>>
    PROVE  FileInv'
<1> DEFINE w == work[m]
           k == [w EXCEPT !.pc = "leaving", !.ended = ended]
<1>1. w \in WorkType /\ Coherent(w)
  BY DEF FileInv, FileTypes
<1>2. k \in WorkType
  BY <1>1 DEF WorkType, Endings
<1>3. Coherent(k)
  BY <1>1 DEF Coherent, WorkType, LockedPhases, Verified, Endings
<1>4. work' = [work EXCEPT ![m] = k]
  BY DEF Leaving, FileInv, FileTypes
<1>5. k.pc = "leaving"
  BY <1>1 DEF WorkType
<1> HIDE DEF k, w
<1> QED
  BY <1>2, <1>3, <1>4, <1>5, WorkStep DEF LockedPhases, Verified

(* Going on to the next phase with the lock held.                          *)
LEMMA GotoStep ==
    ASSUME FileInv, NEW m \in Mutations, NEW pc \in LockedPhases,
           work[m].pc \in LockedPhases, pc \in Verified => work[m].pc \in Verified,
           work[m].temporary => pc \in Verified,
           Goto(m, pc), UNCHANGED <<file, holder, lost>>
    PROVE  FileInv'
<1> DEFINE w == work[m]
           k == [w EXCEPT !.pc = pc]
<1>1. w \in WorkType /\ Coherent(w)
  BY DEF FileInv, FileTypes
<1>2. k \in WorkType
  BY <1>1 DEF WorkType
<1>3. Coherent(k)
  BY <1>1 DEF Coherent, WorkType, LockedPhases, Verified
<1>4. work' = [work EXCEPT ![m] = k]
  BY DEF Goto, FileInv, FileTypes
<1>5. k.pc = pc /\ k.seen = w.seen
  BY <1>1 DEF WorkType
<1> HIDE DEF k
<1> QED
  BY <1>2, <1>3, <1>4, <1>5, WorkStep

LEMMA WorkerStep ==
    ASSUME FileInv, NEW m \in Mutations,
           \/ EncodeFails(m) \/ AcquireLock(m) \/ OpenParent(m) \/ ReadSnapshot(m) \/ VerifyFirst(m)
           \/ WriteTemporary(m) \/ VerifyAgain(m)
    PROVE  FileInv'
<1> DEFINE w == work[m]
<1>0. w \in WorkType /\ Coherent(w) /\ work \in [Mutations -> WorkType] /\ file \in Files
  BY DEF FileInv, FileTypes
<1>1. CASE EncodeFails(m)
  BY <1>1, LeavingStep DEF EncodeFails
<1>2. CASE AcquireLock(m)
  <2>1. CASE ~w.stop /\ LockFree(m) /\ holder' = m /\ Goto(m, "opening")
    <3> DEFINE k == [w EXCEPT !.pc = "opening"]
    <3>1. k \in WorkType /\ work' = [work EXCEPT ![m] = k] /\ k.pc = "opening"
      BY <1>0, <2>1 DEF Goto, WorkType, LockedPhases
    <3>2. Coherent(k)
      BY <1>0, <1>2 DEF AcquireLock, Coherent, WorkType, Verified
    <3>3. \A n \in Mutations \ {m} : holder' = n <=> holder = n
      BY <2>1, FileAssumption DEF LockFree, Nobody
    <3> HIDE DEF k
    <3> QED
      BY <1>2, <2>1, <3>1, <3>2, <3>3, QuietWorkStep DEF AcquireLock, Verified, LockedPhases
  <2>2. CASE w.stop /\ Leaving(m, "cancelled") /\ UNCHANGED holder
    BY <1>2, <2>2, LeavingStep DEF AcquireLock
  <2> QED
    BY <1>2, <2>1, <2>2 DEF AcquireLock
<1>3. CASE OpenParent(m)
  <2>1. w.pc = "opening" /\ UNCHANGED <<file, holder, lost>> /\ ~w.temporary
    BY <1>0, <1>3 DEF OpenParent, Coherent, Verified
  <2>2. \/ Goto(m, "reading") \/ Goto(m, "verifying")
        \/ Leaving(m, "cancelled") \/ Leaving(m, "failed")
    BY <1>3 DEF OpenParent, Go
  <2> QED
    BY <2>1, <2>2, GotoStep, LeavingStep DEF LockedPhases, Verified
<1>4. CASE ReadSnapshot(m)
  <2>1. w.pc = "reading" /\ UNCHANGED <<file, holder, lost>> /\ ~w.temporary
    BY <1>0, <1>4 DEF ReadSnapshot, Coherent, Verified
  <2>2. CASE work' = [work EXCEPT ![m].pc = "verifying", ![m].seen = file]
    <3> DEFINE k == [w EXCEPT !.pc = "verifying", !.seen = file]
    <3>1. k \in WorkType /\ work' = [work EXCEPT ![m] = k] /\ k.pc = "verifying"
      BY <1>0, <2>2 DEF WorkType, LockedPhases
    <3>2. Coherent(k)
      BY <1>0, <2>1 DEF Coherent, WorkType, Verified
    <3> HIDE DEF k
    <3> QED
      BY <2>1, <3>1, <3>2, WorkStep DEF LockedPhases, Verified
  <2>3. CASE Leaving(m, "cancelled") \/ Leaving(m, "failed")
    BY <2>1, <2>3, LeavingStep DEF LockedPhases
  <2> QED
    BY <1>4, <2>2, <2>3 DEF ReadSnapshot
<1>5. CASE VerifyFirst(m)
  <2>1. w.pc = "verifying" /\ UNCHANGED <<file, holder, lost>>
    BY <1>5 DEF VerifyFirst
  <2>2. CASE work' = [work EXCEPT ![m].pc = "writing", ![m].seen = file, ![m].temporary = TRUE]
    <3> DEFINE k == [w EXCEPT !.pc = "writing", !.seen = file, !.temporary = TRUE]
    <3>1. k \in WorkType /\ work' = [work EXCEPT ![m] = k] /\ k.pc = "writing" /\ k.seen = file
      BY <1>0, <2>2 DEF WorkType, LockedPhases
    <3>2. Coherent(k)
      BY <1>0, <2>1 DEF Coherent, WorkType, Verified
    <3> HIDE DEF k
    <3> QED
      BY <2>1, <3>1, <3>2, WorkStep DEF LockedPhases, Verified
  <2>3. CASE \E ended \in {"unchanged", "failed", "cancelled"} : Leaving(m, ended)
    BY <2>1, <2>3, LeavingStep DEF LockedPhases
  <2> QED
    BY <1>5, <2>2, <2>3 DEF VerifyFirst
<1>6. CASE WriteTemporary(m)
  <2>1. w.pc = "writing" /\ UNCHANGED <<file, holder, lost>>
    BY <1>6 DEF WriteTemporary
  <2>2. Goto(m, "checking") \/ Leaving(m, "cancelled") \/ Leaving(m, "failed")
    BY <1>6 DEF WriteTemporary, Go
  <2> QED
    BY <2>1, <2>2, GotoStep, LeavingStep DEF LockedPhases, Verified
<1>7. CASE VerifyAgain(m)
  <2>1. w.pc = "checking" /\ UNCHANGED <<file, holder, lost>>
    BY <1>7 DEF VerifyAgain
  <2>2. Goto(m, "committing") \/ Leaving(m, "cancelled") \/ Leaving(m, "failed")
    BY <1>7 DEF VerifyAgain
  <2> QED
    BY <2>1, <2>2, GotoStep, LeavingStep DEF LockedPhases, Verified
<1> QED
  BY <1>1, <1>2, <1>3, <1>4, <1>5, <1>6, <1>7

(* While a thread is between its verification and its commit it holds the  *)
(* lock, so no other thread is, and none of them verified what it replaces.*)
LEMMA CommitStep == ASSUME FileInv, NEW m \in Mutations, Commit(m) PROVE FileInv'
<1> DEFINE w == work[m]
<1>0. /\ w \in WorkType /\ Coherent(w) /\ work \in [Mutations -> WorkType] /\ file \in Files
      /\ w.pc = "committing" /\ holder = m /\ holder' = holder
  BY DEF FileInv, FileTypes, LockHeld, Commit, LockedPhases
<1>1. CASE w.expected = "" /\ file.kind # "missing"
  BY <1>0, <1>1, LeavingStep DEF Commit, LockedPhases
<1>2. CASE ~(w.expected = "" /\ file.kind # "missing")
  <2> DEFINE k == [w EXCEPT !.pc = "leaving", !.ended = "done", !.committed = TRUE, !.temporary = FALSE]
  <2>1. k \in WorkType /\ work' = [work EXCEPT ![m] = k] /\ k.pc = "leaving"
    BY <1>0, <1>2 DEF WorkType, Endings, Commit
  <2>2. Coherent(k)
    BY <1>0 DEF Coherent, WorkType, Verified
  <2> HIDE DEF k
  <2>3. work'[m] = k /\ \A n \in Mutations \ {m} : work'[n] = work[n]
    BY <1>0, <2>1
  <2>4. \A n \in Mutations \ {m} : work[n].pc \notin LockedPhases
    BY <1>0 DEF FileInv, LockHeld
  <2>5. lost' = {}
    BY <1>0, <1>2 DEF Commit, FileInv, VerifiedIsCurrent, NoToolWriteLost, Verified
  <2>6. file' \in Files
    <3>1. file' = [kind |-> "regular", content |-> m, stamp |-> file.stamp + 1, author |-> m]
      BY <1>2 DEF Commit
    <3> QED
      BY <1>0, <3>1, CommittedFile
  <2>7. work' \in [Mutations -> WorkType]
    BY <1>0, <2>1
  <2>8. \A n \in Mutations : Coherent(work'[n])
    BY <2>2, <2>3 DEF FileInv
  <2>9. LockHeld'
    BY <1>0, <2>1, <2>3 DEF FileInv, LockHeld, LockedPhases
  <2>10. VerifiedIsCurrent'
    BY <2>1, <2>3, <2>4 DEF VerifiedIsCurrent, Verified, LockedPhases
  <2> QED
    BY <1>0, <2>5, <2>6, <2>7, <2>8, <2>9, <2>10 DEF FileInv, FileTypes, NoToolWriteLost, Coherent, Reported
<1> QED
  BY <1>1, <1>2

LEMMA LeaveStep == ASSUME FileInv, NEW m \in Mutations, Leave(m) PROVE FileInv'
<1> DEFINE w == work[m]
           k == [w EXCEPT !.pc = "ended", !.temporary = FALSE]
<1>0. w \in WorkType /\ Coherent(w) /\ work \in [Mutations -> WorkType] /\ w.pc = "leaving"
  BY DEF FileInv, FileTypes, Leave
<1>1. k \in WorkType /\ work' = [work EXCEPT ![m] = k] /\ k.pc = "ended"
  BY <1>0 DEF Leave, WorkType
<1>2. Coherent(k)
  BY <1>0 DEF Coherent, WorkType, Verified
<1> HIDE DEF k
<1>3. /\ holder' \in Mutations \cup {Nobody} /\ holder' # m
      /\ \A n \in Mutations \ {m} : holder' = n <=> holder = n
  BY FileAssumption DEF Leave, FileInv, FileTypes
<1> QED
  BY <1>1, <1>2, <1>3, QuietWorkStep DEF Leave, LockedPhases, Verified

LEMMA CallStep ==
    ASSUME FileInv, NEW m \in Mutations, RequestStop(m) \/ CancelTask(m) \/ Settle(m) PROVE FileInv'
<1> DEFINE w == work[m]
<1>0. w \in WorkType /\ Coherent(w) /\ work \in [Mutations -> WorkType] /\ w.outcome = "pending"
  BY DEF FileInv, FileTypes, RequestStop, CancelTask, Settle
<1>1. UNCHANGED <<file, holder, lost>>
  BY DEF RequestStop, CancelTask, Settle
<1>2. ASSUME NEW STATE k, k \in WorkType, Coherent(k), work' = [work EXCEPT ![m] = k],
             k.pc = w.pc, k.seen = w.seen
      PROVE  FileInv'
  BY <1>1, <1>2, WorkStep
<1>3. CASE RequestStop(m)
  <2> DEFINE k == [w EXCEPT !.stop = TRUE]
  <2>1. k \in WorkType /\ work' = [work EXCEPT ![m] = k] /\ k.pc = w.pc /\ k.seen = w.seen
    BY <1>0, <1>3 DEF RequestStop, WorkType
  <2>2. Coherent(k)
    BY <1>0 DEF Coherent, WorkType
  <2> HIDE DEF k
  <2> QED
    BY <1>2, <2>1, <2>2
<1>4. CASE CancelTask(m) /\ ~Shielded(m)
  <2> DEFINE k == [w EXCEPT !.cancels = 2, !.outcome = "cancelled"]
  <2>0. w.cancels + 1 = 2
    <3>1. w.cancels \in {0, 1, 2}
      BY <1>0 DEF WorkType
    <3>2. w.cancels # 0
      BY <1>0, <1>4 DEF Shielded, Coherent
    <3>3. w.cancels < 2
      BY <1>4 DEF CancelTask
    <3> QED
      BY <3>1, <3>2, <3>3
  <2>1. k \in WorkType /\ work' = [work EXCEPT ![m] = k] /\ k.pc = w.pc /\ k.seen = w.seen
    BY <1>0, <1>4, <2>0 DEF CancelTask, WorkType
  <2>2. k.cancels = 2 /\ k.waits = "settled" /\ k.ended = w.ended /\ k.committed = w.committed
        /\ k.temporary = w.temporary /\ k.outcome = "cancelled"
    BY <1>0, <1>4 DEF WorkType, Shielded
  <2> HIDE DEF k
  <2>3. Coherent(k)
    BY <1>0, <2>1, <2>2 DEF Coherent
  <2> QED
    BY <1>2, <2>1, <2>3
<1>5. CASE CancelTask(m) /\ Shielded(m)
  <2> DEFINE k == [w EXCEPT !.cancels = 1, !.stop = TRUE, !.waits = "settled"]
  <2>0. w.cancels + 1 = 1
    BY <1>0, <1>5 DEF Shielded, Coherent
  <2>1. k \in WorkType /\ work' = [work EXCEPT ![m] = k] /\ k.pc = w.pc /\ k.seen = w.seen
    BY <1>0, <1>5, <2>0 DEF CancelTask, WorkType
  <2>2. k.cancels = 1 /\ k.waits = "settled" /\ k.ended = w.ended /\ k.committed = w.committed
        /\ k.temporary = w.temporary /\ k.outcome = "pending"
    BY <1>0 DEF WorkType, Shielded
  <2> HIDE DEF k
  <2>3. Coherent(k)
    BY <1>0, <2>1, <2>2 DEF Coherent
  <2> QED
    BY <1>2, <2>1, <2>3
<1>6. CASE Settle(m)
  <2> DEFINE o == IF w.waits = "settled" /\ Reported(w.ended) # "success" THEN "cancelled"
                  ELSE Reported(w.ended)
             k == [w EXCEPT !.outcome = o]
  <2>0. w.pc = "ended" /\ o \in {"success", "failure", "cancelled"}
    BY <1>6 DEF Settle, Reported
  <2>1. k \in WorkType /\ work' = [work EXCEPT ![m] = k] /\ k.pc = w.pc /\ k.seen = w.seen
    BY <1>0, <1>6, <2>0 DEF Settle, WorkType
  <2>2. k.outcome = o /\ k.ended = w.ended /\ k.committed = w.committed /\ k.temporary = w.temporary
        /\ k.waits = w.waits /\ k.cancels = w.cancels
    BY <1>0 DEF WorkType
  <2>3. o = Reported(w.ended) \/ (o = "cancelled" /\ Reported(w.ended) # "success")
    OBVIOUS
  <2> HIDE DEF k, o
  <2>4. Coherent(k)
    BY <1>0, <2>0, <2>1, <2>2, <2>3 DEF Coherent
  <2> QED
    BY <1>2, <2>1, <2>4
<1> QED
  BY <1>3, <1>4, <1>5, <1>6

LEMMA OutsideWriteStep == ASSUME FileInv, OutsideWrite PROVE FileInv'
<1>1. PICK kind \in {"missing", "regular", "link"}, content \in {"base", "other"} :
          file' = [kind |-> kind, content |-> IF kind = "regular" THEN content ELSE "",
                   stamp |-> file.stamp + 1, author |-> Outsider]
  BY DEF OutsideWrite
<1>2. file \in Files
  BY DEF FileInv, FileTypes
<1>3. file' \in Files
  BY <1>1, <1>2, CommittedFile
<1>4. file'.author \notin Mutations
  BY <1>1, FileAssumption
<1>5. UNCHANGED <<holder, work, lost>>
  BY DEF OutsideWrite
<1> QED
  BY <1>3, <1>4, <1>5 DEF FileInv, FileTypes, LockHeld, VerifiedIsCurrent, NoToolWriteLost, Coherent, Reported

LEMMA FileStep == FileInv /\ [FileNext]_fileVars => FileInv'
<1> SUFFICES ASSUME FileInv, [FileNext]_fileVars PROVE FileInv'
  OBVIOUS
<1>1. CASE UNCHANGED fileVars
  BY <1>1 DEF fileVars, FileInv, FileTypes, LockHeld, VerifiedIsCurrent, NoToolWriteLost, Coherent, Reported
<1>2. CASE FileNext
  BY <1>2, WorkerStep, CommitStep, LeaveStep, CallStep, OutsideWriteStep DEF FileNext
<1> QED
  BY <1>1, <1>2

LEMMA FileInvAlways == FileSpec => []FileInv
BY FileStart, FileStep, PTL DEF FileSpec

(* No commit of this process replaces a commit of another of its mutations *)
(* that it had not read, however many mutations run and whatever programs  *)
(* outside do: the lock spans the verification and the rename.             *)
THEOREM NoToolWriteLostAlways == FileSpec => []NoToolWriteLost
<1>1. FileInv => NoToolWriteLost
  BY DEF FileInv
<1> QED
  BY <1>1, FileInvAlways, PTL

(* What run_mutation reports is what its thread did to the file, up to a   *)
(* second cancellation, and an ended thread keeps neither the lock nor a   *)
(* temporary file.                                                         *)
THEOREM OutcomesTellTheTruthAlways == FileSpec => []OutcomesTellTheTruth
<1>1. ASSUME FileInv, NEW m \in Mutations
      PROVE  /\ (work[m].outcome \in {"failure", "cancelled"} /\ work[m].cancels <= 1) => ~work[m].committed
             /\ work[m].outcome = "success" => work[m].committed \/ work[m].ended = "unchanged"
             /\ work[m].pc = "ended" => holder # m /\ ~work[m].temporary
  <2>1. Coherent(work[m]) /\ work[m] \in WorkType
    BY <1>1 DEF FileInv, FileTypes
  <2>2. work[m].outcome \in {"failure", "cancelled"} /\ work[m].cancels <= 1 => ~work[m].committed
    <3>1. work[m].outcome \in {"failure", "cancelled"} /\ work[m].cancels # 2 => ~work[m].committed
      BY <2>1 DEF Coherent, Reported, WorkType
    <3>2. work[m].cancels <= 1 => work[m].cancels # 2
      OBVIOUS
    <3> QED
      BY <3>1, <3>2
  <2>3. work[m].outcome = "success" => work[m].committed \/ work[m].ended = "unchanged"
    BY <2>1 DEF Coherent, Reported, WorkType
  <2>4. work[m].pc = "ended" => holder # m /\ ~work[m].temporary
    BY <1>1, <2>1 DEF Coherent, FileInv, LockHeld, LockedPhases, Verified
  <2> QED
    BY <2>2, <2>3, <2>4
<1>2. FileInv => OutcomesTellTheTruth
  BY <1>1 DEF OutcomesTellTheTruth
<1> QED
  BY <1>2, FileInvAlways, PTL

-----------------------------------------------------------------------------
(* Bash: the coroutine, its clean-up and the processes.                    *)
Names == {"root", "child"}
ProcessType == [alive : BOOLEAN, deaf : BOOLEAN, grouped : BOOLEAN]

BashType ==
    [pc : {"start", "spawning", "orphan", "waiting", "finishing", "settling", "answered"},
     tree : Trees, spawn : {"no", "pending", "ok", "failed"}, asked : BOOLEAN, cancels : Int,
     reason : {"none", "cancelled", "exit", "timeout"},
     step : {"off", "signal", "grace", "drain", "reap", "done", "failed"}, force : BOOLEAN,
     reaped : BOOLEAN, closed : BOOLEAN, incomplete : BOOLEAN,
     after : {"none", "raised", "execution_failed"},
     answer : {"none", "cancelled", "spawn_failed", "raised", "execution_failed", "exit", "timeout"}]

ShellTypes == bash \in BashType /\ process \in [Names -> ProcessType]

Ends == {"finishing", "settling"}
Stopped == {"drain", "reap", "done", "failed"} \* steps after the tree was killed

(* What one record b of the coroutine says of the spawn task.              *)
SpawnFits(b) ==
    /\ b.pc = "start" => b.spawn = "no"
    /\ b.spawn = "no" => b.pc \in {"start", "answered"}
    /\ b.pc \in {"waiting", "finishing", "settling"} => b.spawn = "ok"
    /\ b.spawn = "pending" => b.pc \in {"spawning", "orphan"}
    /\ b.pc \in Ends => b.step # "off"

NobodyBefore == bash.spawn # "ok" => \A p \in Names : ~process[p].alive
RootGrouped == process["root"].alive => process["root"].grouped

(* Once a group was killed, nobody is left who could fork into it.         *)
GroupGone ==
    (bash.tree = "group" /\ bash.pc \in Ends /\ bash.step \in Stopped) => Members = {}

ShellInv ==
    /\ ShellTypes
    /\ SpawnFits(bash)
    /\ NobodyBefore
    /\ RootGrouped
    /\ GroupGone
    /\ NothingLeftRunning

LEMMA Settled == ASSUME ShellInv, bash.pc = "answered" PROVE bash.spawn # "pending"
BY DEF ShellInv, SpawnFits

(* Who is alive, and who can be signalled, only shrinks by a kill.         *)
LEMMA KillFewer ==
    ASSUME ShellTypes, NEW victims, Kill(victims)
    PROVE  /\ process' \in [Names -> ProcessType]
           /\ \A p \in Names : /\ process'[p].grouped = process[p].grouped
                               /\ process'[p].alive <=> process[p].alive /\ p \notin victims
<1>1. process' = [p \in Names |-> IF p \in victims THEN [process[p] EXCEPT !.alive = FALSE] ELSE process[p]]
  BY DEF Kill, Names
<1>2. \A p \in Names : process[p] \in ProcessType
  BY DEF ShellTypes
<1>3. ASSUME NEW p \in Names
      PROVE  /\ process'[p] \in ProcessType /\ process'[p].grouped = process[p].grouped
             /\ process'[p].alive <=> process[p].alive /\ p \notin victims
  <2>1. CASE p \in victims
    <3> DEFINE q == process[p]
    <3>1. q \in ProcessType /\ process'[p] = [q EXCEPT !.alive = FALSE]
      BY <1>1, <1>2, <2>1
    <3> HIDE DEF q
    <3>2. [q EXCEPT !.alive = FALSE] \in ProcessType /\ [q EXCEPT !.alive = FALSE].grouped = q.grouped
          /\ [q EXCEPT !.alive = FALSE].alive = FALSE
      BY <3>1 DEF ProcessType
    <3> QED
      BY <2>1, <3>1, <3>2 DEF q
  <2>2. CASE p \notin victims
    BY <1>1, <1>2, <2>2
  <2> QED
    BY <2>1, <2>2
<1> QED
  BY <1>1, <1>3

LEMMA ShellStart == ShellInit => ShellInv
<1> SUFFICES ASSUME ShellInit PROVE ShellInv
  OBVIOUS
<1>1. bash \in BashType /\ bash.pc = "start" /\ bash.spawn = "no"
  BY DEF ShellInit, BashType, Trees
<1>2. process \in [Names -> ProcessType] /\ \A p \in Names : ~process[p].alive
  <2>1. Absent \in ProcessType /\ ~Absent.alive
    BY DEF Absent, ProcessType
  <2>2. process = [p \in Names |-> Absent]
    BY DEF ShellInit, Names
  <2> QED
    BY <2>1, <2>2
<1> QED
  BY <1>1, <1>2 DEF ShellInv, ShellTypes, SpawnFits, NobodyBefore, RootGrouped, GroupGone, NothingLeftRunning, Ends, Names

(* A step of the coroutine or its clean-up that leaves the processes.      *)
LEMMA CoroutineStep ==
    ASSUME ShellInv, NEW STATE b, b \in BashType, SpawnFits(b), bash' = b, UNCHANGED process,
           b.tree = bash.tree, b.spawn = "ok" <=> bash.spawn = "ok",
           b.pc = "answered" => bash.spawn # "ok",
           b.pc \in Ends /\ b.step \in Stopped =>
               bash.pc \in Ends /\ bash.step \in Stopped
    PROVE  ShellInv'
<1>1. Members' = Members
  BY DEF Members
<1>2. ShellTypes' /\ SpawnFits(bash')
  BY DEF ShellInv, ShellTypes
<1>3. NobodyBefore' /\ RootGrouped' /\ GroupGone'
  BY <1>1 DEF ShellInv, NobodyBefore, RootGrouped, GroupGone
<1>4. NothingLeftRunning'
  <2>1. bash'.pc = "answered" => \A p \in Names : ~process[p].alive
    BY DEF ShellInv, NobodyBefore
  <2>2. bash'.pc = "answered" => Members = {}
    BY <2>1 DEF Members, Names
  <2> QED
    BY <1>1, <1>2, <2>2 DEF NothingLeftRunning, SpawnFits
<1> QED
  BY <1>2, <1>3, <1>4 DEF ShellInv

(* A step of the processes, which the coroutine does not see.              *)
LEMMA ProcessStep ==
    ASSUME ShellInv, bash' = bash, process' \in [Names -> ProcessType],
           bash.pc # "answered",
           \A p \in Names : process'[p].alive => bash.spawn = "ok",
           process'["root"].alive => process["root"].alive /\ process'["root"].grouped,
           \A p \in Names : process'[p].alive /\ process'[p].grouped => Members # {}
    PROVE  ShellInv'
<1>1. Members = {} => Members' = {}
  BY DEF Members, Names
<1> QED
  BY <1>1 DEF ShellInv, ShellTypes, SpawnFits, NobodyBefore, RootGrouped, GroupGone, NothingLeftRunning

LEMMA ProcessesStep ==
    ASSUME ShellInv, Fork \/ LeaveGroup \/ (\E p \in Names : Exit(p)) PROVE ShellInv'
<1>0. bash' = bash /\ bash.pc # "answered" /\ process \in [Names -> ProcessType]
      /\ \A p \in Names : process[p] \in ProcessType
  BY DEF Fork, LeaveGroup, Exit, ShellInv, ShellTypes
<1>1. CASE Fork
  <2>1. PICK deaf, grouped \in BOOLEAN : process' = [process EXCEPT !["child"] = Alive(deaf, grouped)]
    BY <1>1 DEF Fork
  <2>2. Alive(deaf, grouped) \in ProcessType
    BY DEF Alive, ProcessType
  <2>3. process' \in [Names -> ProcessType] /\ process'["root"] = process["root"]
    BY <1>0, <2>1, <2>2 DEF Names
  <2>4. process["root"].alive
    BY <1>1 DEF Fork
  <2>5. bash.spawn = "ok" /\ process["root"].grouped /\ Members # {}
    BY <2>4 DEF ShellInv, NobodyBefore, RootGrouped, Members, Names
  <2> QED
    BY <1>0, <2>3, <2>4, <2>5, ProcessStep
<1>2. CASE LeaveGroup
  <2> DEFINE q == [process["child"] EXCEPT !.grouped = FALSE]
  <2>1. process' = [process EXCEPT !["child"] = q]
    BY <1>0, <1>2 DEF LeaveGroup
  <2>2. q \in ProcessType /\ ~q.grouped /\ q.alive = process["child"].alive
    BY <1>0 DEF ProcessType, Names
  <2> HIDE DEF q
  <2>3. process' \in [Names -> ProcessType] /\ process'["root"] = process["root"] /\ process'["child"] = q
    BY <1>0, <2>1, <2>2 DEF Names
  <2>4. \A p \in Names : process'[p].alive => process[p].alive
    BY <2>2, <2>3 DEF Names
  <2>5. \A p \in Names : process'[p].alive /\ process'[p].grouped => p \in Members
    BY <2>2, <2>3 DEF Names, Members
  <2>6. process'["root"].alive => process["root"].alive /\ process'["root"].grouped
    BY <2>3 DEF ShellInv, RootGrouped
  <2>7. \A p \in Names : process'[p].alive => bash.spawn = "ok"
    BY <2>4 DEF ShellInv, NobodyBefore
  <2> QED
    BY <1>0, <2>3, <2>5, <2>6, <2>7, ProcessStep
<1>3. CASE \E p \in Names : Exit(p)
  <2>1. PICK p \in Names : Kill({p})
    BY <1>3 DEF Exit
  <2>2. /\ process' \in [Names -> ProcessType]
        /\ \A n \in Names : /\ process'[n].grouped = process[n].grouped
                            /\ process'[n].alive => process[n].alive
    BY <2>1, KillFewer DEF ShellInv
  <2>3. \A n \in Names : process'[n].alive /\ process'[n].grouped => n \in Members
    BY <2>2 DEF Members, Names
  <2>4. process'["root"].alive => process["root"].alive /\ process'["root"].grouped
    BY <2>2 DEF ShellInv, RootGrouped, Names
  <2>5. \A n \in Names : process'[n].alive => bash.spawn = "ok"
    BY <2>2 DEF ShellInv, NobodyBefore
  <2> QED
    BY <1>0, <2>2, <2>3, <2>4, <2>5, ProcessStep
<1> QED
  BY <1>1, <1>2, <1>3

LEMMA RepliedFits ==
    ASSUME NEW STATE b, b \in BashType, b.spawn # "pending",
           NEW answer \in {"none", "cancelled", "spawn_failed", "raised", "execution_failed", "exit", "timeout"}
    PROVE  /\ Replied(b, answer) \in BashType /\ SpawnFits(Replied(b, answer))
           /\ Replied(b, answer).tree = b.tree /\ Replied(b, answer).spawn = b.spawn
           /\ Replied(b, answer).pc = "answered"
BY DEF Replied, BashType, SpawnFits, Ends

LEMMA FinishingFits ==
    ASSUME NEW STATE b, b \in BashType, b.spawn = "ok", NEW pc \in Ends, NEW force \in BOOLEAN
    PROVE  LET f == Finishing(b, pc, force) IN
           f \in BashType /\ SpawnFits(f) /\ f.tree = b.tree /\ f.spawn = "ok" /\ f.step = "signal" /\ f.pc = pc
BY DEF Finishing, BashType, SpawnFits, Ends

SameCourse(f, n) ==
    n \in BashType /\ SpawnFits(n) /\ n.tree = f.tree /\ n.spawn = f.spawn /\ n.step = f.step /\ n.pc = f.pc

LEMMA NotesFit ==
    ASSUME NEW STATE f, f \in BashType, SpawnFits(f),
           NEW after \in {"none", "raised", "execution_failed"}, NEW reason \in {"none", "cancelled", "exit", "timeout"}
    PROVE  SameCourse(f, [f EXCEPT !.after = after]) /\ SameCourse(f, [f EXCEPT !.reason = reason])
BY DEF BashType, SpawnFits, Ends, SameCourse

(* The coroutine starts to finish: the tree is to be signalled.            *)
LEMMA BeginsFinish ==
    ASSUME ShellInv, NEW STATE b, b \in BashType, b.spawn = "ok", b.tree = bash.tree, bash.spawn = "ok",
           NEW pc \in Ends, NEW force \in BOOLEAN, UNCHANGED process,
           \/ \E after \in {"none", "raised", "execution_failed"} : bash' = [Finishing(b, pc, force) EXCEPT !.after = after]
           \/ \E reason \in {"none", "cancelled", "exit", "timeout"} : bash' = [Finishing(b, pc, force) EXCEPT !.reason = reason]
    PROVE  ShellInv'
<1> DEFINE f == Finishing(b, pc, force)
<1>1. f \in BashType /\ SpawnFits(f) /\ f.tree = b.tree /\ f.spawn = "ok" /\ f.step = "signal" /\ f.pc = pc
  BY FinishingFits
<1>2. \/ \E after \in {"none", "raised", "execution_failed"} : bash' = [f EXCEPT !.after = after]
      \/ \E reason \in {"none", "cancelled", "exit", "timeout"} : bash' = [f EXCEPT !.reason = reason]
  OBVIOUS
<1> HIDE DEF f
<1>3. /\ bash' \in BashType /\ SpawnFits(bash') /\ bash'.tree = bash.tree /\ bash'.spawn = "ok"
      /\ bash'.step = "signal" /\ bash'.pc = pc
  <2>1. SameCourse(f, bash')
    <3>1. ASSUME NEW after \in {"none", "raised", "execution_failed"}, bash' = [f EXCEPT !.after = after]
          PROVE  SameCourse(f, bash')
      <4>1. SameCourse(f, [f EXCEPT !.after = after])
        BY <1>1, NotesFit
      <4> QED
        BY <3>1, <4>1
    <3>2. ASSUME NEW reason \in {"none", "cancelled", "exit", "timeout"}, bash' = [f EXCEPT !.reason = reason]
          PROVE  SameCourse(f, bash')
      <4>1. SameCourse(f, [f EXCEPT !.reason = reason])
        BY <1>1, NotesFit
      <4> QED
        BY <3>2, <4>1
    <3> QED
      BY <1>2, <3>1, <3>2
  <2> QED
    BY <1>1, <2>1 DEF SameCourse
<1>4. bash'.pc # "answered" /\ bash'.step \notin Stopped
  BY <1>3 DEF Ends, Stopped
<1> QED
  BY <1>3, <1>4, CoroutineStep

LEMMA QuietBashStep ==
    ASSUME ShellInv,
           AskToCancel \/ Reap \/ StartBash \/ Spawned \/ OrphanSpawned \/ WaitReason
    PROVE  ShellInv'
<1>0. bash \in BashType /\ SpawnFits(bash) /\ process' = process
  BY DEF ShellInv, ShellTypes, AskToCancel, Reap, StartBash, Spawned, OrphanSpawned, WaitReason
<1>1. CASE AskToCancel
  <2> DEFINE b == [bash EXCEPT !.asked = TRUE]
  <2>1. b \in BashType /\ b.tree = bash.tree /\ b.spawn = bash.spawn /\ b.pc = bash.pc /\ b.step = bash.step
    BY <1>0 DEF BashType
  <2>2. bash' = b
    BY <1>1 DEF AskToCancel
  <2> HIDE DEF b
  <2>3. SpawnFits(b) /\ b.pc # "answered"
    BY <1>0, <1>1, <2>1 DEF SpawnFits, AskToCancel
  <2> QED
    BY <1>0, <2>1, <2>2, <2>3, CoroutineStep
<1>2. CASE Reap
  <2> DEFINE b == [bash EXCEPT !.reaped = TRUE]
  <2>1. b \in BashType /\ b.tree = bash.tree /\ b.spawn = bash.spawn /\ b.pc = bash.pc /\ b.step = bash.step
    BY <1>0 DEF BashType
  <2>2. bash' = b
    BY <1>2 DEF Reap
  <2> HIDE DEF b
  <2>3. SpawnFits(b) /\ b.pc # "answered"
    BY <1>0, <1>2, <2>1 DEF SpawnFits, Reap
  <2> QED
    BY <1>0, <2>1, <2>2, <2>3, CoroutineStep
<1>3. CASE StartBash
  <2>1. bash.spawn = "no"
    BY <1>0, <1>3 DEF StartBash, SpawnFits
  <2>2. CASE bash.asked
    BY <1>0, <1>3, <2>1, <2>2, RepliedFits, CoroutineStep DEF StartBash, Ends
  <2>3. CASE ~bash.asked
    <3> DEFINE b == [bash EXCEPT !.pc = "spawning", !.spawn = "pending"]
    <3>1. b \in BashType /\ b.tree = bash.tree /\ b.spawn = "pending" /\ b.pc = "spawning"
      BY <1>0 DEF BashType
    <3>2. bash' = b
      BY <1>3, <2>3 DEF StartBash
    <3> HIDE DEF b
    <3>3. SpawnFits(b)
      BY <3>1 DEF SpawnFits, Ends
    <3> QED
      BY <1>0, <2>1, <3>1, <3>2, <3>3, CoroutineStep DEF Ends
  <2> QED
    BY <2>2, <2>3
<1>4. CASE Spawned
  <2>1. CASE bash.spawn = "failed"
    BY <1>0, <1>4, <2>1, RepliedFits, CoroutineStep DEF Spawned, Ends
  <2>2. CASE bash.spawn # "failed"
    <3> DEFINE b == [bash EXCEPT !.pc = "waiting"]
    <3>1. bash.pc = "spawning" /\ bash.spawn # "pending"
      BY <1>4 DEF Spawned
    <3>2. b \in BashType /\ b.tree = bash.tree /\ b.spawn = bash.spawn /\ b.pc = "waiting"
      BY <1>0 DEF BashType
    <3>3. bash' = b
      BY <1>4, <2>2 DEF Spawned
    <3> HIDE DEF b
    <3>4. CASE bash.spawn = "ok"
      <4>1. SpawnFits(b)
        BY <3>2, <3>4 DEF SpawnFits, Ends
      <4> QED
        BY <1>0, <3>2, <3>3, <4>1, CoroutineStep DEF Ends
    <3>5. bash.spawn # "no"
      BY <1>0, <1>4 DEF Spawned, SpawnFits
    <3> QED
      BY <1>0, <2>2, <3>1, <3>4, <3>5 DEF BashType
  <2> QED
    BY <2>1, <2>2
<1>5. CASE OrphanSpawned
  <2>0. bash.spawn \in {"ok", "failed"}
    BY <1>0, <1>5 DEF OrphanSpawned, SpawnFits, BashType
  <2>1. CASE bash.spawn = "failed"
    BY <1>0, <1>5, <2>1, RepliedFits, CoroutineStep DEF OrphanSpawned, Ends
  <2>2. CASE bash.spawn = "ok"
    <3>1. bash' = [Finishing(bash, "settling", TRUE) EXCEPT !.after = "raised"]
      BY <1>5, <2>2 DEF OrphanSpawned
    <3> QED
      BY <1>0, <2>2, <3>1, BeginsFinish DEF Ends
  <2> QED
    BY <2>0, <2>1, <2>2
<1>6. CASE WaitReason
  <2>1. bash.spawn = "ok"
    BY <1>0, <1>6 DEF WaitReason, SpawnFits
  <2>2. PICK reason \in {"cancelled", "exit", "timeout"} :
            bash' = [Finishing(bash, "finishing", FALSE) EXCEPT !.reason = reason]
    BY <1>6 DEF WaitReason
  <2> QED
    BY <1>0, <2>1, <2>2, BeginsFinish DEF Ends
<1> QED
  BY <1>1, <1>2, <1>3, <1>4, <1>5, <1>6

(* A cancellation leaves the clean-up alone; before it, it starts it.      *)
LEMMA CancelStep == ASSUME ShellInv, CancelBash PROVE ShellInv'
<1> DEFINE b == [bash EXCEPT !.cancels = bash.cancels + 1]
<1>0. bash \in BashType /\ SpawnFits(bash) /\ process' = process
      /\ bash.pc \notin {"start", "answered"}
  BY DEF ShellInv, ShellTypes, CancelBash
<1>1. bash.cancels + 1 \in Int
  <2>1. bash.cancels \in Int
    BY <1>0 DEF BashType
  <2> QED
    BY <2>1
<1>2. SameCourse(bash, b)
  <2> DEFINE n == bash.cancels + 1
  <2>1. n \in Int
    BY <1>1
  <2> HIDE DEF n
  <2>2. SameCourse(bash, [bash EXCEPT !.cancels = n])
    BY <1>0, <2>1 DEF SameCourse, BashType, SpawnFits, Ends
  <2> QED
    BY <2>2 DEF n
<1>3. bash' = IF ResistsCancellation(bash.pc) THEN b
              ELSE CASE bash.pc = "spawning" -> [b EXCEPT !.pc = "orphan"]
                     [] bash.pc \in {"waiting", "finishing"} ->
                            [Finishing(b, "settling", TRUE) EXCEPT !.after = "raised"]
                     [] OTHER -> [Replied(b, "raised") EXCEPT !.step = "off"]
  BY DEF CancelBash
<1> HIDE DEF b
<1>4. CASE bash.pc \in {"orphan", "settling"}
  <2>1. bash' = b /\ b.pc # "answered"
    BY <1>0, <1>2, <1>3, <1>4 DEF ResistsCancellation, SameCourse
  <2> QED
    BY <1>0, <1>2, <2>1, CoroutineStep DEF SameCourse
<1>5. CASE bash.pc = "spawning"
  <2> DEFINE o == [b EXCEPT !.pc = "orphan"]
  <2>1. bash' = o
    BY <1>3, <1>5 DEF ResistsCancellation
  <2>2. o \in BashType /\ o.pc = "orphan" /\ o.spawn = bash.spawn /\ o.tree = bash.tree
    BY <1>2 DEF SameCourse, BashType
  <2>3. bash.spawn # "no"
    BY <1>0, <1>5 DEF SpawnFits
  <2> HIDE DEF o
  <2>4. SpawnFits(o)
    BY <2>2, <2>3 DEF SpawnFits, Ends
  <2> QED
    BY <1>0, <2>1, <2>2, <2>4, CoroutineStep DEF Ends
<1>6. CASE bash.pc \in {"waiting", "finishing"}
  <2>1. bash' = [Finishing(b, "settling", TRUE) EXCEPT !.after = "raised"]
    BY <1>3, <1>6 DEF ResistsCancellation
  <2>2. bash.spawn = "ok"
    BY <1>0, <1>6 DEF SpawnFits
  <2> QED
    BY <1>0, <1>2, <2>1, <2>2, BeginsFinish DEF SameCourse, Ends
<1> QED
  BY <1>0, <1>4, <1>5, <1>6 DEF BashType

LEMMA DrainStep == ASSUME ShellInv, Drained \/ ReapRoot \/ DrainFails PROVE ShellInv'
<1>0. /\ bash \in BashType /\ SpawnFits(bash) /\ process' = process
      /\ bash.pc \in Ends /\ bash.step \in Stopped
  BY DEF ShellInv, ShellTypes, Drained, ReapRoot, DrainFails, Running, Ends, Stopped
<1>1. PICK step \in {"done", "failed"} : bash' = [bash EXCEPT !.step = step]
  BY DEF Drained, ReapRoot, DrainFails, ToStep
<1> DEFINE b == [bash EXCEPT !.step = step]
<1>2. /\ b \in BashType /\ b.tree = bash.tree /\ b.spawn = bash.spawn /\ b.pc = bash.pc /\ b.step = step
  BY <1>0 DEF BashType
<1> HIDE DEF b
<1>3. SpawnFits(b) /\ b.pc # "answered"
  BY <1>0, <1>2 DEF SpawnFits, Ends
<1> QED
  BY <1>0, <1>1, <1>2, <1>3, CoroutineStep DEF b

(* A step of the clean-up that kills.                                      *)
LEMMA KillingStep ==
    ASSUME ShellInv, bash.pc \in Ends, NEW STATE b, b \in BashType, SpawnFits(b), bash' = b,
           b.tree = bash.tree, b.spawn = bash.spawn, NEW victims, Kill(victims),
           (bash.tree = "group" /\ b.pc \in Ends /\ b.step \in Stopped)
               => Members \subseteq victims \/ bash.step \in Stopped,
           b.pc = "answered" => bash.tree = "taskkill" \/ Members \subseteq victims
    PROVE  ShellInv'
<1>1. /\ process' \in [Names -> ProcessType]
      /\ \A p \in Names : /\ process'[p].grouped = process[p].grouped
                          /\ process'[p].alive <=> process[p].alive /\ p \notin victims
  BY KillFewer DEF ShellInv
<1>2. Members' = Members \ victims
  BY <1>1 DEF Members, Names
<1>3. ShellTypes' /\ SpawnFits(bash')
  BY <1>1 DEF ShellTypes
<1>4. bash.spawn = "ok"
  BY DEF ShellInv, SpawnFits, Ends
<1>5. NobodyBefore' /\ RootGrouped'
  BY <1>1, <1>4 DEF ShellInv, NobodyBefore, RootGrouped, Names
<1>6. GroupGone'
  BY <1>2 DEF ShellInv, GroupGone
<1>7. NothingLeftRunning'
  BY <1>2, <1>4 DEF NothingLeftRunning
<1> QED
  BY <1>3, <1>5, <1>6, <1>7 DEF ShellInv

LEMMA StepFits ==
    ASSUME NEW STATE b, b \in BashType, SpawnFits(b), NEW step \in {"grace", "drain", "reap", "done", "failed"}
    PROVE  /\ [b EXCEPT !.step = step] \in BashType /\ SpawnFits([b EXCEPT !.step = step])
           /\ [b EXCEPT !.step = step].tree = b.tree /\ [b EXCEPT !.step = step].spawn = b.spawn
           /\ [b EXCEPT !.step = step].pc = b.pc /\ [b EXCEPT !.step = step].step = step
BY DEF BashType, SpawnFits, Ends

LEMMA StepKills ==
    ASSUME ShellInv, bash.pc \in Ends, NEW step \in {"grace", "drain", "reap", "done", "failed"},
           NEW victims, Kill(victims), bash' = [bash EXCEPT !.step = step],
           bash.tree = "group" /\ step \in Stopped => Members \subseteq victims \/ bash.step \in Stopped
    PROVE  ShellInv'
<1> DEFINE b == [bash EXCEPT !.step = step]
<1>1. /\ b \in BashType /\ SpawnFits(b) /\ b.tree = bash.tree /\ b.spawn = bash.spawn
      /\ b.pc = bash.pc /\ b.step = step
  BY StepFits DEF ShellInv, ShellTypes
<1>2. bash' = b /\ b.pc # "answered"
  BY <1>1 DEF Ends
<1> HIDE DEF b
<1> QED
  BY <1>1, <1>2, KillingStep

(* SignalTree and GraceEnds: in a group everyone is killed who is in it.   *)
LEMMA TerminateStep == ASSUME ShellInv, SignalTree \/ GraceEnds PROVE ShellInv'
<1>0. bash \in BashType /\ SpawnFits(bash) /\ bash.pc \in Ends /\ bash.step \notin Stopped
  BY DEF ShellInv, ShellTypes, SignalTree, GraceEnds, Running, Ends, Stopped
<1>1. bash.pc # "answered"
  BY <1>0 DEF Ends
<1>2. CASE Kill(InTree) /\ ToStep("drain")
  <2>1. bash.tree = "group" => Members \subseteq InTree
    BY DEF InTree
  <2>2. Kill(InTree) /\ bash' = [bash EXCEPT !.step = "drain"]
    BY <1>2 DEF ToStep
  <2> QED
    BY <1>0, <1>1, <2>1, <2>2, StepKills
<1>3. CASE WindowsFails
  <2>1. bash.tree # "group" /\ bash' = [bash EXCEPT !.step = "failed"] /\ process' = process
    BY <1>3 DEF WindowsFails, ToStep
  <2>2. Kill({})
    <3>1. process = [p \in Names |-> process[p]]
      BY DEF ShellInv, ShellTypes
    <3> QED
      BY <2>1, <3>1 DEF Kill, Names
  <2> QED
    BY <1>0, <1>1, <2>1, <2>2, StepKills
<1>4. CASE Kill({p \in InTree : ~process[p].deaf}) /\ ToStep("grace")
  <2>1. bash' = [bash EXCEPT !.step = "grace"]
    BY <1>4 DEF ToStep
  <2> QED
    BY <1>0, <1>1, <1>4, <2>1, StepKills DEF Stopped
<1> QED
  BY <1>2, <1>3, <1>4 DEF SignalTree, GraceEnds

LEMMA CloseStep == ASSUME ShellInv, CloseTransport PROVE ShellInv'
<1>0. /\ bash \in BashType /\ SpawnFits(bash) /\ bash.pc \in Ends /\ bash.pc # "answered"
      /\ bash.step \in Stopped /\ Kill({"root"})
  BY DEF ShellInv, ShellTypes, CloseTransport, Running, Ends, Stopped
<1>1. PICK incomplete \in BOOLEAN, step \in {"done", "reap"} :
          bash' = [bash EXCEPT !.closed = TRUE, !.incomplete = incomplete, !.step = step]
  BY DEF CloseTransport
<1> DEFINE b == [bash EXCEPT !.closed = TRUE, !.incomplete = incomplete, !.step = step]
<1>2. /\ b \in BashType /\ b.tree = bash.tree /\ b.spawn = bash.spawn /\ b.pc = bash.pc /\ b.step = step
  BY <1>0 DEF BashType
<1>3. bash' = b
  BY <1>1
<1> HIDE DEF b
<1>4. SpawnFits(b)
  BY <1>0, <1>2 DEF SpawnFits
<1> QED
  BY <1>0, <1>2, <1>3, <1>4, KillingStep

(* The answer comes after the last kill: of the group, or of the job.      *)
LEMMA FinishedStep == ASSUME ShellInv, Finished PROVE ShellInv'
<1> DEFINE victims == IF bash.tree = "job" THEN Members ELSE {}
<1>0. /\ bash \in BashType /\ SpawnFits(bash) /\ bash.pc \in Ends /\ bash.step \in Stopped
      /\ Kill(victims) /\ bash.spawn = "ok"
  BY DEF ShellInv, ShellTypes, Finished, Ends, Stopped, SpawnFits
<1>1. bash.tree = "taskkill" \/ Members \subseteq victims
  BY <1>0 DEF ShellInv, GroupGone, BashType, Trees
<1> HIDE DEF victims
<1>2. CASE bash.pc = "settling" /\ bash' = Replied(bash, bash.after)
  <2>1. bash.after \in {"none", "raised", "execution_failed"}
    BY <1>0 DEF BashType
  <2> QED
    BY <1>0, <1>1, <1>2, <2>1, RepliedFits, KillingStep DEF Ends
<1>3. CASE bash.pc = "finishing" /\ bash' = [Finishing(bash, "settling", TRUE) EXCEPT !.after = "execution_failed"]
  <2> DEFINE f == Finishing(bash, "settling", TRUE)
             b == [f EXCEPT !.after = "execution_failed"]
  <2>1. f \in BashType /\ SpawnFits(f) /\ f.tree = bash.tree /\ f.spawn = "ok" /\ f.step = "signal" /\ f.pc = "settling"
    BY <1>0, FinishingFits DEF Ends
  <2>2. bash' = b
    BY <1>3
  <2> HIDE DEF f
  <2>3. SameCourse(f, b)
    BY <2>1, NotesFit
  <2> HIDE DEF b
  <2>4. b.step \notin Stopped /\ b.pc # "answered"
    BY <2>1, <2>3 DEF SameCourse, Stopped
  <2> QED
    BY <1>0, <2>1, <2>2, <2>3, <2>4, KillingStep DEF SameCourse
<1>4. CASE bash.pc = "finishing" /\ bash.step = "done" /\ bash' = Replied(bash, bash.reason)
  <2>1. bash.reason \in {"none", "cancelled", "exit", "timeout"}
    BY <1>0 DEF BashType
  <2> QED
    BY <1>0, <1>1, <1>4, <2>1, RepliedFits, KillingStep DEF Ends
<1> QED
  BY <1>0, <1>2, <1>3, <1>4 DEF Finished, Ends

LEMMA SpawnStep == ASSUME ShellInv, SpawnEnds PROVE ShellInv'
<1>0. /\ bash \in BashType /\ SpawnFits(bash) /\ bash.spawn = "pending" /\ bash.pc \in {"spawning", "orphan"}
      /\ process \in [Names -> ProcessType]
  BY DEF ShellInv, ShellTypes, SpawnEnds, SpawnFits
<1>1. CASE bash' = [bash EXCEPT !.spawn = "failed"] /\ UNCHANGED process
  <2> DEFINE b == [bash EXCEPT !.spawn = "failed"]
  <2>1. b \in BashType /\ b.tree = bash.tree /\ b.spawn = "failed" /\ b.pc = bash.pc
    BY <1>0 DEF BashType
  <2>2. bash' = b
    BY <1>1
  <2> HIDE DEF b
  <2>3. SpawnFits(b) /\ b.pc \notin Ends /\ b.pc # "answered"
    BY <1>0, <2>1 DEF SpawnFits, Ends
  <2> QED
    BY <1>0, <1>1, <2>1, <2>2, <2>3, CoroutineStep
<1>2. ASSUME NEW deaf \in BOOLEAN, bash' = [bash EXCEPT !.spawn = "ok"],
             process' = [process EXCEPT !["root"] = Alive(deaf, TRUE)]
      PROVE  ShellInv'
  <2> DEFINE b == [bash EXCEPT !.spawn = "ok"]
  <2>1. b \in BashType /\ b.tree = bash.tree /\ b.spawn = "ok" /\ b.pc = bash.pc
    BY <1>0 DEF BashType
  <2>2. bash' = b
    BY <1>2
  <2> HIDE DEF b
  <2>3. SpawnFits(b) /\ b.pc \notin Ends /\ b.pc # "answered"
    BY <1>0, <2>1 DEF SpawnFits, Ends
  <2>4. Alive(deaf, TRUE) \in ProcessType /\ Alive(deaf, TRUE).grouped
    BY DEF Alive, ProcessType
  <2>5. process' \in [Names -> ProcessType] /\ process'["root"].grouped
    BY <1>0, <1>2, <2>4 DEF Names
  <2> QED
    BY <2>1, <2>2, <2>3, <2>5
       DEF ShellInv, ShellTypes, NobodyBefore, RootGrouped, GroupGone, NothingLeftRunning
<1> QED
  BY <1>1, <1>2 DEF SpawnEnds

LEMMA ShellStep == ShellInv /\ [ShellNext]_shellVars => ShellInv'
<1> SUFFICES ASSUME ShellInv, [ShellNext]_shellVars PROVE ShellInv'
  OBVIOUS
<1>1. CASE WriteByte \/ DrainChunk \/ UNCHANGED shellVars
  <2>1. UNCHANGED <<bash, process>>
    BY <1>1 DEF WriteByte, DrainChunk, shellVars
  <2>2. Members' = Members
    BY <2>1 DEF Members
  <2> QED
    BY <2>1, <2>2
       DEF ShellInv, ShellTypes, NobodyBefore, RootGrouped, GroupGone, NothingLeftRunning, SpawnFits
<1>2. CASE ShellNext /\ ~(WriteByte \/ DrainChunk)
  BY <1>2, ProcessesStep, QuietBashStep, CancelStep, DrainStep, TerminateStep, CloseStep, FinishedStep, SpawnStep
     DEF ShellNext, Names
<1> QED
  BY <1>1, <1>2

(* No process of a command's group or job outlives the tool's answer,      *)
(* however often the task was cancelled and whatever the processes do.     *)
THEOREM NothingLeftRunningAlways == ShellSpec => []NothingLeftRunning
<1>1. ShellSpec => []ShellInv
  BY ShellStart, ShellStep, PTL DEF ShellSpec
<1>2. ShellInv => NothingLeftRunning
  BY DEF ShellInv
<1> QED
  BY <1>1, <1>2, PTL

-----------------------------------------------------------------------------
(* The capture.  The head holds the first bytes; the tail ends with the    *)
(* last byte read and is as long as it may be.                             *)
TailLimit == OutputLimit - HeadLimit
EndsAt(s, n) == \A i \in 1..Len(s) : s[i] = n - Len(s) + i
HeadLength(n) == IF n <= HeadLimit THEN n ELSE HeadLimit
TailLength(n) == IF n <= HeadLimit THEN 0 ELSE IF n - HeadLimit <= TailLimit THEN n - HeadLimit ELSE TailLimit

PipeFits ==
    /\ pipe \in [written : Int, read : Int, head : Seq(Int), tail : Seq(Int)]
    /\ 0 <= pipe.read /\ pipe.read <= pipe.written
    /\ Len(pipe.head) = HeadLength(pipe.read) /\ EndsAt(pipe.head, HeadLength(pipe.read))
    /\ Len(pipe.tail) = TailLength(pipe.read) /\ EndsAt(pipe.tail, pipe.read)

LEMMA Limits == HeadLimit \in Nat /\ TailLimit \in Nat /\ HeadLimit + TailLimit = OutputLimit
BY ShellAssumption DEF HeadLimit, TailLimit

LEMMA EndsAtConcat ==
    ASSUME NEW s \in Seq(Int), NEW t \in Seq(Int), NEW n \in Int, EndsAt(s, n - Len(t)), EndsAt(t, n)
    PROVE  s \o t \in Seq(Int) /\ Len(s \o t) = Len(s) + Len(t) /\ EndsAt(s \o t, n)
<1>1. /\ s \o t \in Seq(Int) /\ Len(s \o t) = Len(s) + Len(t) /\ Len(s) \in Nat /\ Len(t) \in Nat
      /\ \A i \in 1..(Len(s) + Len(t)) : (s \o t)[i] = IF i <= Len(s) THEN s[i] ELSE t[i - Len(s)]
  BY ConcatProperties
<1>2. ASSUME NEW i \in 1..(Len(s) + Len(t)) PROVE (s \o t)[i] = n - (Len(s) + Len(t)) + i
  <2>1. CASE i <= Len(s)
    <3>1. i \in 1..Len(s) /\ (s \o t)[i] = s[i]
      BY <1>1, <2>1
    <3>2. s[i] = n - Len(t) - Len(s) + i
      BY <3>1 DEF EndsAt
    <3> QED
      BY <1>1, <3>1, <3>2
  <2>2. CASE ~(i <= Len(s))
    <3>1. i - Len(s) \in 1..Len(t) /\ (s \o t)[i] = t[i - Len(s)]
      BY <1>1, <2>2
    <3>2. t[i - Len(s)] = n - Len(t) + (i - Len(s))
      BY <3>1 DEF EndsAt
    <3> QED
      BY <1>1, <3>1, <3>2
  <2> QED
    BY <2>1, <2>2
<1> QED
  BY <1>1, <1>2 DEF EndsAt

LEMMA LastOfEnds ==
    ASSUME NEW s \in Seq(Int), NEW n \in Int, NEW k \in Nat, EndsAt(s, n)
    PROVE  /\ LastOf(s, k) \in Seq(Int) /\ EndsAt(LastOf(s, k), n)
           /\ Len(LastOf(s, k)) = IF Len(s) <= k THEN Len(s) ELSE k
<1>1. CASE Len(s) <= k
  BY <1>1 DEF LastOf
<1>2. CASE ~(Len(s) <= k)
  <2> DEFINE t == SubSeq(s, Len(s) - k + 1, Len(s))
  <2>0. Len(s) \in Nat
    OBVIOUS
  <2> DEFINE m == Len(s) - k + 1
  <2>a. m \in Int /\ m >= 1 /\ m <= Len(s) + 1 /\ Len(s) - m + 1 = k
    BY <1>2, <2>0
  <2>b. \A i \in m..Len(s) : s[i] \in Int
    BY <2>0, <2>a
  <2>c. /\ SubSeq(s, m, Len(s)) \in Seq(Int)
        /\ Len(SubSeq(s, m, Len(s))) = IF m <= Len(s) THEN Len(s) - m + 1 ELSE 0
        /\ \A i \in 1..Len(s) - m + 1 : SubSeq(s, m, Len(s))[i] = s[m + i - 1]
    <3> HIDE DEF m
    <3> QED
      BY <2>0, <2>a, <2>b, SubSeqProperties
  <2>1. t \in Seq(Int) /\ Len(t) = k
    BY <2>0, <2>a, <2>c
  <2>2. ASSUME NEW i \in 1..k PROVE t[i] = n - k + i
    <3>1. t[i] = s[Len(s) - k + i] /\ Len(s) - k + i \in 1..Len(s)
      BY <1>2, <2>0, <2>a, <2>c
    <3>2. s[Len(s) - k + i] = n - Len(s) + (Len(s) - k + i)
      BY <3>1 DEF EndsAt
    <3> QED
      BY <2>0, <3>1, <3>2
  <2>3. LastOf(s, k) = t
    BY <1>2 DEF LastOf
  <2> HIDE DEF t
  <2> QED
    BY <1>2, <2>1, <2>2, <2>3 DEF EndsAt
<1> QED
  BY <1>1, <1>2

(* The bytes a chunk of n brings: the next n of the pipe.                  *)
Follows(chunk, read, n) == \A i \in 1..n : chunk[i] = read + i

LEMMA ChunkPart ==
    ASSUME NEW read \in Int, NEW n \in Nat, NEW chunk, Follows(chunk, read, n),
           NEW from \in Int, from >= 1, NEW to \in Int, to <= n, from <= to + 1
    PROVE  /\ SubSeq(chunk, from, to) \in Seq(Int) /\ Len(SubSeq(chunk, from, to)) = to - from + 1
           /\ EndsAt(SubSeq(chunk, from, to), read + to)
<1>1. ASSUME NEW i \in from..to PROVE chunk[i] \in Int
  <2>1. i \in 1..n
    OBVIOUS
  <2>2. chunk[i] = read + i
    BY <2>1 DEF Follows
  <2> QED
    BY <2>1, <2>2
<1>2. /\ SubSeq(chunk, from, to) \in Seq(Int)
      /\ Len(SubSeq(chunk, from, to)) = IF from <= to THEN to - from + 1 ELSE 0
      /\ \A i \in 1..to - from + 1 : SubSeq(chunk, from, to)[i] = chunk[from + i - 1]
  BY <1>1, SubSeqProperties
<1>3. Len(SubSeq(chunk, from, to)) = to - from + 1
  BY <1>2
<1>4. ASSUME NEW i \in 1..to - from + 1
      PROVE  SubSeq(chunk, from, to)[i] = (read + to) - (to - from + 1) + i
  <2>1. from + i - 1 \in 1..n
    OBVIOUS
  <2>2. chunk[from + i - 1] = read + (from + i - 1)
    BY <2>1 DEF Follows
  <2> QED
    BY <1>2, <2>2
<1>5. EndsAt(SubSeq(chunk, from, to), read + to)
  BY <1>3, <1>4 DEF EndsAt
<1> QED
  BY <1>2, <1>3, <1>5

(* How many bytes of the next n the head takes, and what both then hold.   *)
LEMMA Counts ==
    ASSUME NEW x \in Nat, NEW n \in Nat, NEW took,
           took = IF HeadLimit - HeadLength(x) < n THEN HeadLimit - HeadLength(x) ELSE n
    PROVE  /\ took \in Nat /\ took <= n
           /\ HeadLength(x) \in Nat /\ HeadLength(x + n) = HeadLength(x) + took
           /\ took > 0 => HeadLength(x) = x /\ TailLength(x) = 0
           /\ TailLength(x) \in Nat
           /\ TailLength(x + n) = IF TailLength(x) + (n - took) <= TailLimit
                                  THEN TailLength(x) + (n - took) ELSE TailLimit
<1>0. HeadLimit \in Nat /\ TailLimit \in Nat
  BY Limits
<1>1. CASE x <= HeadLimit
  <2>1. HeadLength(x) = x /\ TailLength(x) = 0
    BY <1>1 DEF HeadLength, TailLength
  <2>2. CASE x + n <= HeadLimit
    <3>1. took = n
      BY <1>0, <2>1, <2>2
    <3>2. HeadLength(x + n) = x + n /\ TailLength(x + n) = 0
      BY <1>0, <2>2 DEF HeadLength, TailLength
    <3> QED
      BY <1>0, <2>1, <3>1, <3>2
  <2>3. CASE ~(x + n <= HeadLimit)
    <3>1. took = HeadLimit - x
      BY <1>0, <2>1, <2>3
    <3>2. HeadLength(x + n) = HeadLimit
          /\ TailLength(x + n) = IF x + n - HeadLimit <= TailLimit THEN x + n - HeadLimit ELSE TailLimit
      BY <1>0, <2>3 DEF HeadLength, TailLength
    <3> QED
      BY <1>0, <1>1, <2>1, <2>3, <3>1, <3>2
  <2> QED
    BY <2>2, <2>3
<1>2. CASE ~(x <= HeadLimit)
  <2>1. HeadLength(x) = HeadLimit
        /\ TailLength(x) = IF x - HeadLimit <= TailLimit THEN x - HeadLimit ELSE TailLimit
    BY <1>2 DEF HeadLength, TailLength
  <2>2. took = 0 /\ ~(x + n <= HeadLimit)
    BY <1>0, <1>2, <2>1
  <2>3. HeadLength(x + n) = HeadLimit
        /\ TailLength(x + n) = IF x + n - HeadLimit <= TailLimit THEN x + n - HeadLimit ELSE TailLimit
    BY <1>0, <2>2 DEF HeadLength, TailLength
  <2> QED
    BY <1>0, <1>2, <2>1, <2>2, <2>3
<1> QED
  BY <1>1, <1>2

LEMMA DrainKeeps == ASSUME PipeFits, DrainChunk PROVE PipeFits'
<1> DEFINE chunk(n) == [i \in 1..n |-> pipe.read + i]
           took(n) == IF HeadLimit - Len(pipe.head) < n THEN HeadLimit - Len(pipe.head) ELSE n
           h(n) == SubSeq(chunk(n), 1, took(n))
           r(n) == SubSeq(chunk(n), took(n) + 1, n)
<1>1. \E n \in 1..(pipe.written - pipe.read) :
          pipe' = [pipe EXCEPT !.read = @ + n, !.head = @ \o h(n), !.tail = RetainedTail(@, r(n))]
  BY Zenon DEF DrainChunk
<1>2. PICK n \in 1..(pipe.written - pipe.read) :
          pipe' = [pipe EXCEPT !.read = @ + n, !.head = @ \o h(n), !.tail = RetainedTail(@, r(n))]
  BY <1>1
<1> DEFINE x == pipe.read
           k == took(n)
           front == h(n)
           rest == r(n)
<1>3. /\ pipe \in [written : Int, read : Int, head : Seq(Int), tail : Seq(Int)]
      /\ 0 <= x /\ x <= pipe.written /\ x \in Nat /\ n \in Nat /\ n <= pipe.written - x
      /\ Len(pipe.head) = HeadLength(x) /\ Len(pipe.tail) = TailLength(x)
      /\ EndsAt(pipe.head, HeadLength(x)) /\ EndsAt(pipe.tail, x)
  BY <1>2 DEF PipeFits
<1>4. k = IF HeadLimit - HeadLength(x) < n THEN HeadLimit - HeadLength(x) ELSE n
  BY <1>3
<1>5. front = SubSeq(chunk(n), 1, k) /\ rest = SubSeq(chunk(n), k + 1, n)
      /\ chunk(n) = [i \in 1..n |-> x + i]
  OBVIOUS
<1>6. pipe' = [pipe EXCEPT !.read = @ + n, !.head = @ \o front, !.tail = LastOf(@ \o rest, TailLimit)]
  BY <1>2 DEF RetainedTail, TailLimit
<1> HIDE DEF chunk, took, h, r, k, front, rest, x
<1>7. /\ k \in Nat /\ k <= n
      /\ HeadLength(x) \in Nat /\ HeadLength(x + n) = HeadLength(x) + k
      /\ k > 0 => HeadLength(x) = x /\ TailLength(x) = 0
      /\ TailLength(x) \in Nat
      /\ TailLength(x + n) = IF TailLength(x) + (n - k) <= TailLimit THEN TailLength(x) + (n - k) ELSE TailLimit
  <2>1. x \in Nat /\ n \in Nat
    BY <1>3
  <2> QED
    BY <1>4, <2>1, Counts
<1> DEFINE c == chunk(n)
<1>c. Follows(c, x, n) /\ front = SubSeq(c, 1, k) /\ rest = SubSeq(c, k + 1, n)
  BY <1>5 DEF Follows
<1> HIDE DEF c
<1>d. ASSUME NEW from \in Int, from >= 1, NEW to \in Int, to <= n, from <= to + 1
      PROVE  /\ SubSeq(c, from, to) \in Seq(Int) /\ Len(SubSeq(c, from, to)) = to - from + 1
             /\ EndsAt(SubSeq(c, from, to), x + to)
  <2>1. x \in Int /\ n \in Nat
    BY <1>3
  <2> QED
    BY <1>c, <1>d, <2>1, ChunkPart
<1>8. /\ front \in Seq(Int) /\ Len(front) = k /\ EndsAt(front, x + k)
  <2>1. 1 \in Int /\ 1 >= 1 /\ k \in Int /\ 1 <= k + 1 /\ k - 1 + 1 = k
    BY <1>7
  <2>2. /\ SubSeq(c, 1, k) \in Seq(Int) /\ Len(SubSeq(c, 1, k)) = k - 1 + 1
        /\ EndsAt(SubSeq(c, 1, k), x + k)
    BY <1>7, <1>d, <2>1
  <2> QED
    BY <1>c, <2>1, <2>2
<1>9. /\ rest \in Seq(Int) /\ Len(rest) = n - k /\ EndsAt(rest, x + n)
  <2>1. k + 1 \in Int /\ k + 1 >= 1 /\ n \in Int /\ n <= n /\ k + 1 <= n + 1 /\ n - (k + 1) + 1 = n - k
    BY <1>3, <1>7
  <2>2. /\ SubSeq(c, k + 1, n) \in Seq(Int) /\ Len(SubSeq(c, k + 1, n)) = n - (k + 1) + 1
        /\ EndsAt(SubSeq(c, k + 1, n), x + n)
    BY <1>d, <2>1
  <2> QED
    BY <1>c, <2>1, <2>2
<1>10. pipe'.read = x + n /\ pipe'.head = pipe.head \o front /\ pipe'.tail = LastOf(pipe.tail \o rest, TailLimit)
       /\ pipe'.written = pipe.written
       /\ pipe' = [written |-> pipe'.written, read |-> pipe'.read, head |-> pipe'.head, tail |-> pipe'.tail]
  BY <1>3, <1>6 DEF x
<1>11. /\ pipe.head \o front \in Seq(Int) /\ Len(pipe.head \o front) = HeadLength(x + n)
       /\ EndsAt(pipe.head \o front, HeadLength(x + n))
  <2>1. HeadLength(x + n) \in Int /\ HeadLength(x + n) - Len(front) = HeadLength(x)
    BY <1>7, <1>8
  <2>2. EndsAt(front, HeadLength(x + n))
    <3>1. CASE k = 0
      BY <1>8, <3>1 DEF EndsAt
    <3>2. CASE k > 0
      BY <1>7, <1>8, <3>2
    <3> QED
      BY <1>7, <3>1, <3>2
  <2>3. EndsAt(pipe.head, HeadLength(x + n) - Len(front)) /\ pipe.head \in Seq(Int)
    BY <1>3, <2>1
  <2>4. /\ pipe.head \o front \in Seq(Int) /\ Len(pipe.head \o front) = Len(pipe.head) + Len(front)
        /\ EndsAt(pipe.head \o front, HeadLength(x + n))
    BY <1>8, <2>1, <2>2, <2>3, EndsAtConcat
  <2> QED
    BY <1>3, <1>7, <1>8, <2>4
<1>12. /\ LastOf(pipe.tail \o rest, TailLimit) \in Seq(Int)
       /\ Len(LastOf(pipe.tail \o rest, TailLimit)) = TailLength(x + n)
       /\ EndsAt(LastOf(pipe.tail \o rest, TailLimit), x + n)
  <2> DEFINE t == pipe.tail \o rest
  <2>1. EndsAt(pipe.tail, (x + n) - Len(rest)) /\ pipe.tail \in Seq(Int)
    <3>1. CASE k = 0
      <4>1. (x + n) - Len(rest) = x
        BY <1>3, <1>9, <3>1
      <4> QED
        BY <1>3, <4>1
    <3>2. CASE k > 0
      <4>1. Len(pipe.tail) = 0
        BY <1>3, <1>7, <3>2
      <4> QED
        BY <1>3, <4>1 DEF EndsAt
    <3> QED
      BY <1>7, <3>1, <3>2
  <2>2. x + n \in Int
    BY <1>3
  <2>3. t \in Seq(Int) /\ Len(t) = Len(pipe.tail) + Len(rest) /\ EndsAt(t, x + n)
    BY <1>9, <2>1, <2>2, EndsAtConcat
  <2> HIDE DEF t
  <2>4. TailLimit \in Nat
    BY Limits
  <2>5. /\ LastOf(t, TailLimit) \in Seq(Int) /\ EndsAt(LastOf(t, TailLimit), x + n)
        /\ Len(LastOf(t, TailLimit)) = IF Len(t) <= TailLimit THEN Len(t) ELSE TailLimit
    BY <2>2, <2>3, <2>4, LastOfEnds
  <2>6. Len(t) = TailLength(x) + (n - k)
    BY <1>3, <1>9, <2>3
  <2>7. Len(LastOf(t, TailLimit)) = TailLength(x + n)
    BY <1>7, <2>5, <2>6
  <2> QED
    BY <2>5, <2>7 DEF t
<1>13. x + n \in Int /\ 0 <= x + n /\ x + n <= pipe.written /\ pipe.written \in Int
  BY <1>3
<1>14. pipe' \in [written : Int, read : Int, head : Seq(Int), tail : Seq(Int)]
  BY <1>10, <1>11, <1>12, <1>13
<1> QED
  BY <1>10, <1>11, <1>12, <1>13, <1>14 DEF PipeFits

(* When a command ends by itself or by its time limit, what was not drained *)
(* is marked: without the mark, the pipe has reached its end, and nothing   *)
(* can write into it again.                                                 *)
AtItsEnd(b) == (b.pc = "finishing" /\ b.step \in {"reap", "done"}) \/ b.answer \in {"exit", "timeout"}

CompleteFits ==
    /\ bash.pc \in {"start", "spawning", "orphan", "waiting"} => ~bash.closed
    /\ bash.pc = "finishing" /\ bash.closed => bash.step \in {"reap", "done", "failed"}
    /\ bash.answer # "none" => bash.pc = "answered"
    /\ AtItsEnd(bash) => bash.spawn = "ok" /\ (bash.incomplete \/ AtEof)

CaptureInv == ShellInv /\ PipeFits /\ CompleteFits

LEMMA EofStays ==
    ASSUME ShellInv, PipeFits, ShellNext, AtEof, bash.spawn = "ok"
    PROVE  AtEof' /\ bash'.spawn = "ok"
<1>0. /\ process \in [Names -> ProcessType] /\ bash \in BashType /\ \A p \in Names : ~process[p].alive
      /\ pipe.read = pipe.written
  BY DEF ShellInv, ShellTypes, AtEof, Names
<1>1. ~process["root"].alive /\ ~process["child"].alive
  BY <1>0 DEF Names
<1>2. ASSUME NEW victims, Kill(victims) PROVE \A p \in Names : ~process'[p].alive
  BY <1>0, <1>2, KillFewer DEF ShellInv
<1>3. (\A p \in Names : ~process'[p].alive) \/ UNCHANGED process
  BY <1>1, <1>2
     DEF ShellNext, Fork, LeaveGroup, Exit, WriteByte, AskToCancel, Reap, DrainChunk, StartBash, SpawnEnds,
         Spawned, OrphanSpawned, WaitReason, CancelBash, SignalTree, GraceEnds, WindowsFails, Drained,
         CloseTransport, ReapRoot, DrainFails, Finished
<1>4. UNCHANGED pipe
  <2>1. ~WriteByte
    BY <1>1 DEF WriteByte
  <2>2. ~DrainChunk
    <3>1. DrainChunk => \E n \in 1..(pipe.written - pipe.read) : TRUE
      BY Zenon DEF DrainChunk
    <3> QED
      BY <1>0, <3>1 DEF PipeFits
  <2> QED
    BY <2>1, <2>2
       DEF ShellNext, Fork, LeaveGroup, Exit, AskToCancel, Reap, StartBash, SpawnEnds,
           Spawned, OrphanSpawned, WaitReason, CancelBash, SignalTree, GraceEnds, WindowsFails, Drained,
           CloseTransport, ReapRoot, DrainFails, Finished
<1>5. bash'.spawn = "ok"
  BY <1>0
     DEF ShellNext, Fork, LeaveGroup, Exit, WriteByte, AskToCancel, Reap, DrainChunk, StartBash, SpawnEnds,
         Spawned, OrphanSpawned, WaitReason, CancelBash, SignalTree, GraceEnds, WindowsFails, Drained, ToStep,
         CloseTransport, ReapRoot, DrainFails, Finished, Replied, Finishing, BashType, ShellInv, SpawnFits
<1> QED
  BY <1>0, <1>3, <1>4, <1>5 DEF AtEof, Names

(* A step that brings no command to its end.                               *)
LEMMA NoNewEnd ==
    ASSUME CaptureInv, ShellNext, AtItsEnd(bash') => AtItsEnd(bash) /\ bash'.incomplete = bash.incomplete
    PROVE  AtItsEnd(bash') => bash'.spawn = "ok" /\ (bash'.incomplete \/ AtEof')
<1> SUFFICES ASSUME AtItsEnd(bash') PROVE bash'.spawn = "ok" /\ (bash'.incomplete \/ AtEof')
  OBVIOUS
<1>1. bash.spawn = "ok" /\ (bash.incomplete \/ AtEof) /\ bash'.incomplete = bash.incomplete
  BY DEF CaptureInv, CompleteFits
<1>2. bash'.spawn = "ok"
  <2>1. bash \in BashType /\ SpawnFits(bash)
    BY DEF CaptureInv, ShellInv, ShellTypes
  <2> QED
    BY <1>1, <2>1
       DEF ShellNext, Fork, LeaveGroup, Exit, WriteByte, AskToCancel, Reap, DrainChunk, StartBash, SpawnEnds,
           Spawned, OrphanSpawned, WaitReason, CancelBash, SignalTree, GraceEnds, WindowsFails, Drained, ToStep,
           CloseTransport, ReapRoot, DrainFails, Finished, Replied, Finishing, BashType, SpawnFits
<1>3. AtEof => AtEof'
  BY <1>1, EofStays DEF CaptureInv
<1> QED
  BY <1>1, <1>2, <1>3

Shape(b) ==
    /\ b.pc \in {"start", "spawning", "orphan", "waiting"} => ~b.closed
    /\ b.pc = "finishing" /\ b.closed => b.step \in {"reap", "done", "failed"}
    /\ b.answer # "none" => b.pc = "answered"

LEMMA ShapeStep ==
    ASSUME CaptureInv, ShellNext
    PROVE  /\ Shape(bash')
           /\ Drained \/ CloseTransport \/ (AtItsEnd(bash') => AtItsEnd(bash) /\ bash'.incomplete = bash.incomplete)
<1>0. bash \in BashType /\ SpawnFits(bash) /\ Shape(bash)
  BY DEF CaptureInv, ShellInv, ShellTypes, CompleteFits, Shape
<1> DEFINE Goal == /\ Shape(bash')
                   /\ AtItsEnd(bash') => AtItsEnd(bash) /\ bash'.incomplete = bash.incomplete
<1>1. CASE Fork \/ LeaveGroup \/ (\E p \in Names : Exit(p)) \/ WriteByte \/ DrainChunk
  <2>1. bash' = bash
    BY <1>1 DEF Fork, LeaveGroup, Exit, WriteByte, DrainChunk
  <2> QED
    BY <1>0, <2>1
<1>2. CASE AskToCancel \/ Reap \/ SpawnEnds
  BY <1>0, <1>2 DEF AskToCancel, Reap, SpawnEnds, BashType, SpawnFits, Shape, AtItsEnd
<1>3. CASE StartBash \/ Spawned \/ OrphanSpawned
  <2>1. CASE StartBash
    BY <1>0, <2>1 DEF StartBash, Replied, Finishing, BashType, SpawnFits, Shape, AtItsEnd
  <2>2. CASE Spawned
    BY <1>0, <2>2 DEF Spawned, Replied, Finishing, BashType, SpawnFits, Shape, AtItsEnd
  <2>3. CASE OrphanSpawned
    BY <1>0, <2>3 DEF OrphanSpawned, Replied, Finishing, BashType, SpawnFits, Shape, AtItsEnd
  <2> QED
    BY <1>3, <2>1, <2>2, <2>3
<1>4. CASE WaitReason
  BY <1>0, <1>4 DEF WaitReason, Finishing, BashType, Shape, AtItsEnd
<1>5. CASE CancelBash
  BY <1>0, <1>5 DEF CancelBash, ResistsCancellation, Replied, Finishing, BashType, Shape, AtItsEnd
<1>6. CASE SignalTree \/ GraceEnds \/ ReapRoot \/ DrainFails
  BY <1>0, <1>6 DEF SignalTree, GraceEnds, WindowsFails, ReapRoot, DrainFails, Running, ToStep, BashType, Shape, AtItsEnd
<1>7. CASE Finished
  BY <1>0, <1>7 DEF Finished, Replied, Finishing, BashType, Shape, AtItsEnd
<1>8. CASE Drained \/ CloseTransport
  BY <1>0, <1>8 DEF Drained, CloseTransport, Running, ToStep, BashType, Shape
<1> QED
  BY <1>1, <1>2, <1>3, <1>4, <1>5, <1>6, <1>7, <1>8 DEF ShellNext, Names

LEMMA CompleteStep == ASSUME CaptureInv, ShellNext PROVE CompleteFits'
<1>0. bash \in BashType /\ SpawnFits(bash) /\ Shape(bash) /\ process \in [Names -> ProcessType]
  BY DEF CaptureInv, ShellInv, ShellTypes, CompleteFits, Shape
<1>1. AtItsEnd(bash') => bash'.spawn = "ok" /\ (bash'.incomplete \/ AtEof')
  <2>1. CASE Drained
    <3>1. UNCHANGED <<process, pipe>> /\ bash'.spawn = bash.spawn /\ bash.pc \in {"finishing", "settling"}
          /\ bash'.pc = bash.pc /\ bash'.answer = bash.answer /\ bash.step = "drain"
          /\ (AtEof \/ bash.closed)
      BY <1>0, <2>1 DEF Drained, Running, ToStep, BashType
    <3>2. AtItsEnd(bash') => AtEof
      BY <1>0, <3>1 DEF AtItsEnd, Shape
    <3> QED
      BY <1>0, <3>1, <3>2 DEF AtEof, SpawnFits
  <2>2. CASE CloseTransport
    <3>1. pipe' = pipe /\ bash'.spawn = bash.spawn /\ bash.pc \in {"finishing", "settling"}
          /\ bash'.pc = bash.pc /\ bash'.answer = bash.answer /\ bash.step = "drain"
          /\ bash'.incomplete = (~bash.closed /\ ~AtEof) /\ Kill({"root"})
      BY <1>0, <2>2 DEF CloseTransport, Running, BashType
    <3>2. AtItsEnd(bash') => ~bash.closed
      BY <1>0, <3>1 DEF AtItsEnd, Shape
    <3>3. bash.spawn = "ok"
      BY <1>0, <3>1 DEF SpawnFits
    <3>4. AtEof => AtEof'
      BY <3>3, EofStays DEF CaptureInv
    <3> QED
      BY <3>1, <3>2, <3>3, <3>4
  <2> QED
    BY <2>1, <2>2, ShapeStep, NoNewEnd
<1> QED
  BY <1>1, ShapeStep DEF CompleteFits, Shape

LEMMA PipeStep == ASSUME PipeFits, ShellNext PROVE PipeFits'
<1>1. CASE WriteByte
  <2>1. /\ pipe \in [written : Int, read : Int, head : Seq(Int), tail : Seq(Int)]
        /\ pipe' = [pipe EXCEPT !.written = @ + 1]
    BY <1>1 DEF WriteByte, PipeFits
  <2>2. pipe.written \in Int /\ pipe.written + 1 \in Int
    BY <2>1
  <2>3. /\ pipe' \in [written : Int, read : Int, head : Seq(Int), tail : Seq(Int)]
        /\ pipe'.written = pipe.written + 1 /\ pipe'.read = pipe.read
        /\ pipe'.head = pipe.head /\ pipe'.tail = pipe.tail
    BY <2>1, <2>2
  <2>4. pipe.read <= pipe.written + 1
    BY <2>1, <2>2 DEF PipeFits
  <2> QED
    BY <2>3, <2>4 DEF PipeFits
<1>2. CASE UNCHANGED pipe
  BY <1>2 DEF PipeFits
<1>3. WriteByte \/ DrainChunk \/ UNCHANGED pipe
  BY DEF ShellNext, Fork, LeaveGroup, Exit, AskToCancel, Reap, StartBash, SpawnEnds, Spawned, OrphanSpawned,
         WaitReason, CancelBash, SignalTree, GraceEnds, WindowsFails, Drained, CloseTransport, ReapRoot,
         DrainFails, Finished
<1> QED
  BY <1>1, <1>2, <1>3, DrainKeeps

LEMMA CaptureStart == ShellInit => PipeFits /\ CompleteFits
<1> SUFFICES ASSUME ShellInit PROVE PipeFits /\ CompleteFits
  OBVIOUS
<1>1. pipe = [written |-> 0, read |-> 0, head |-> <<>>, tail |-> <<>>]
  BY DEF ShellInit
<1>2. HeadLength(0) = 0 /\ TailLength(0) = 0
  BY Limits DEF HeadLength, TailLength
<1>3. PipeFits
  BY <1>1, <1>2 DEF PipeFits, EndsAt
<1>4. CompleteFits
  BY DEF ShellInit, CompleteFits, AtItsEnd
<1> QED
  BY <1>3, <1>4

LEMMA CaptureStep == CaptureInv /\ [ShellNext]_shellVars => CaptureInv'
<1>1. CASE UNCHANGED shellVars
  BY <1>1 DEF shellVars, CaptureInv, ShellInv, ShellTypes, NobodyBefore, RootGrouped, GroupGone, Members,
              NothingLeftRunning, SpawnFits, PipeFits, CompleteFits, AtEof
<1>2. ASSUME CaptureInv, ShellNext PROVE CaptureInv'
  BY <1>2, ShellStep, PipeStep, CompleteStep DEF CaptureInv
<1> QED
  BY <1>1, <1>2

LEMMA Honest == ASSUME CaptureInv PROVE CaptureIsHonest
<1> SUFFICES ASSUME bash.answer \in {"exit", "timeout"}
             PROVE  /\ Captured.text =
                           (IF pipe.read <= OutputLimit THEN [i \in 1..pipe.read |-> i]
                            ELSE [i \in 1..OutputLimit |-> IF i <= HeadLimit THEN i ELSE pipe.read - OutputLimit + i])
                    /\ ~Captured.truncated => Len(Captured.text) = pipe.written
  BY DEF CaptureIsHonest, Captured
<1> DEFINE x == pipe.read
           size == IF x <= OutputLimit THEN x ELSE OutputLimit
           kept == [i \in 1..size |-> IF i <= HeadLength(x) THEN i ELSE x - size + i]
           text == pipe.head \o pipe.tail
<1>0. /\ x \in Nat /\ HeadLimit \in Nat /\ TailLimit \in Nat /\ HeadLimit + TailLimit = OutputLimit
      /\ pipe.head \in Seq(Int) /\ pipe.tail \in Seq(Int)
      /\ Len(pipe.head) = HeadLength(x) /\ Len(pipe.tail) = TailLength(x)
      /\ EndsAt(pipe.head, HeadLength(x)) /\ EndsAt(pipe.tail, x)
  BY Limits DEF CaptureInv, PipeFits
<1>1. size \in Nat /\ HeadLength(x) + TailLength(x) = size /\ HeadLength(x) \in Nat /\ TailLength(x) \in Nat
  <2> HIDE DEF x
  <2>1. OutputLimit \in Int
    BY <1>0
  <2>2. CASE x <= HeadLimit
    BY <1>0, <2>1, <2>2 DEF HeadLength, TailLength
  <2>3. CASE ~(x <= HeadLimit) /\ x <= OutputLimit
    <3>1. HeadLength(x) = HeadLimit /\ x - HeadLimit <= TailLimit
      BY <1>0, <2>1, <2>3 DEF HeadLength
    <3>2. TailLength(x) = x - HeadLimit
      BY <2>3, <3>1 DEF TailLength
    <3> QED
      BY <1>0, <2>1, <2>3, <3>1, <3>2
  <2>4. CASE ~(x <= OutputLimit)
    <3>1. HeadLength(x) = HeadLimit /\ ~(x - HeadLimit <= TailLimit) /\ ~(x <= HeadLimit)
      BY <1>0, <2>1, <2>4 DEF HeadLength
    <3>2. TailLength(x) = TailLimit
      BY <3>1 DEF TailLength
    <3> QED
      BY <1>0, <2>1, <2>4, <3>1, <3>2
  <2> QED
    BY <2>2, <2>3, <2>4
<1> HIDE DEF x, size
<1>2. text \in Seq(Int) /\ Len(text) = size
      /\ \A i \in 1..size : text[i] = IF i <= HeadLength(x) THEN pipe.head[i] ELSE pipe.tail[i - HeadLength(x)]
  <2> DEFINE h == pipe.head
             t == pipe.tail
  <2>1. h \in Seq(Int) /\ t \in Seq(Int) /\ Len(h) = HeadLength(x) /\ Len(t) = TailLength(x) /\ text = h \o t
    BY <1>0
  <2> HIDE DEF h, t, text
  <2>2. h \o t \in Seq(Int) /\ Len(h \o t) = Len(h) + Len(t)
        /\ \A i \in 1..(Len(h) + Len(t)) : (h \o t)[i] = IF i <= Len(h) THEN h[i] ELSE t[i - Len(h)]
    BY <2>1, ConcatProperties
  <2> QED
    BY <1>1, <2>1, <2>2 DEF h, t
<1>3. ASSUME NEW i \in 1..size PROVE text[i] = kept[i]
  <2>1. CASE i <= HeadLength(x)
    <3>1. i \in 1..Len(pipe.head)
      BY <1>0, <1>1, <2>1
    <3>2. pipe.head[i] = HeadLength(x) - Len(pipe.head) + i
      BY <1>0, <3>1 DEF EndsAt
    <3>3. pipe.head[i] = i
      BY <1>0, <1>1, <3>2
    <3> QED
      BY <1>2, <2>1, <3>3
  <2>2. CASE ~(i <= HeadLength(x))
    <3>1. i - HeadLength(x) \in 1..Len(pipe.tail)
      BY <1>0, <1>1, <2>2
    <3>2. pipe.tail[i - HeadLength(x)] = x - Len(pipe.tail) + (i - HeadLength(x))
      BY <1>0, <3>1 DEF EndsAt
    <3>3. x - Len(pipe.tail) + (i - HeadLength(x)) = x - size + i
      <4> DEFINE a == HeadLength(x)
                 b == TailLength(x)
      <4>1. a \in Int /\ b \in Int /\ a + b = size /\ Len(pipe.tail) = b /\ x \in Int /\ i \in Int
        BY <1>0, <1>1
      <4> HIDE DEF a, b
      <4>2. x - b + (i - a) = x - (a + b) + i
        BY <4>1
      <4> QED
        BY <4>1, <4>2 DEF a
    <3> QED
      BY <1>2, <2>2, <3>2, <3>3
  <2> QED
    BY <2>1, <2>2
<1>4. text = kept
  <2>1. kept \in Seq(Int) /\ Len(kept) = size
    BY <1>0, <1>1
  <2>2. \A i \in 1..Len(text) : text[i] = kept[i]
    BY <1>2, <1>3
  <2> HIDE DEF kept, text
  <2> QED
    BY <1>2, <2>1, <2>2, SeqEqual
<1>5. kept = IF x <= OutputLimit THEN [i \in 1..x |-> i]
             ELSE [i \in 1..OutputLimit |-> IF i <= HeadLimit THEN i ELSE x - OutputLimit + i]
  <2>1. CASE x <= OutputLimit
    <3>1. size = x
      BY <2>1 DEF size
    <3>2. \A i \in 1..x : (IF i <= HeadLength(x) THEN i ELSE x - size + i) = i
      BY <1>0, <3>1
    <3> QED
      BY <2>1, <3>1, <3>2
  <2>2. CASE ~(x <= OutputLimit)
    <3>1. size = OutputLimit
      BY <2>2 DEF size
    <3>2. HeadLength(x) = HeadLimit
      BY <1>0, <2>2 DEF HeadLength
    <3> QED
      BY <2>2, <3>1, <3>2
  <2> QED
    BY <2>1, <2>2
<1>6. ~(x > OutputLimit \/ bash.incomplete) => Len(text) = pipe.written
  <2>1. bash.incomplete \/ x = pipe.written
    BY DEF CaptureInv, CompleteFits, AtItsEnd, AtEof, x
  <2>2. ~(x > OutputLimit) => size = x
    BY <1>0, <1>1 DEF size
  <2> QED
    BY <1>2, <2>1, <2>2
<1> QED
  BY <1>4, <1>5, <1>6 DEF Captured, x

(* A command that ended by itself or by its time limit is answered with the *)
(* first and the last bytes it wrote, in order, and with their true number, *)
(* and the answer is marked whenever a byte it wrote is missing.            *)
THEOREM CaptureIsHonestAlways == ShellSpec => []CaptureIsHonest
<1>1. ShellSpec => []CaptureInv
  BY ShellStart, CaptureStart, CaptureStep, PTL DEF ShellSpec, CaptureInv
<1>2. CaptureInv => CaptureIsHonest
  BY Honest
<1> QED
  BY <1>1, <1>2, PTL

-----------------------------------------------------------------------------
(* apply_text_edit, for texts of any length.  First what induction over    *)
(* the characters of a text needs.                                         *)
LEMMA LeastNumber ==
    ASSUME NEW T, T \subseteq Nat, T # {}
    PROVE  \E n \in T : \A m \in T : n <= m
<1>1. IsWellFoundedOn(OpToRel(<,Nat), Nat)
  BY NatLessThanWellFounded, Zenon
<1>2. PICK x \in T : \A y \in T : <<y, x>> \notin OpToRel(<,Nat)
  BY <1>1, WFMin, Zenon
<1>3. \A y \in T : ~(y < x)
  BY <1>2 DEF OpToRel
<1> QED
  BY <1>3

LEMMA NumbersFromZero ==
    ASSUME NEW P, 0 \in P, \A n \in Nat : n \in P => n + 1 \in P
    PROVE  Nat \subseteq P
<1> SUFFICES ASSUME Nat \ P # {} PROVE FALSE
  OBVIOUS
<1>1. PICK n \in Nat \ P : \A m \in Nat \ P : n <= m
  BY LeastNumber, Zenon
<1>2. n # 0 /\ n - 1 \in Nat
  BY <1>1
<1>3. n - 1 \in P
  BY <1>1, <1>2
<1> QED
  BY <1>1, <1>2, <1>3

-----------------------------------------------------------------------------
(* A recursion over numbers has a solution.                                *)
StaysIn(G, S, N) == \A x \in S, i \in 1..N : G[<<x, i>>] \in S
GoesBy(f, G, S, b, N) == f \in [0..N -> S] /\ f[0] = b /\ \A i \in 1..N : f[i] = G[<<f[i - 1], i>>]

LEMMA StepsExist ==
    ASSUME NEW S, NEW b \in S, NEW N \in Nat, NEW G, StaysIn(G, S, N)
    PROVE  \E f : GoesBy(f, G, S, b, N)
<1> USE DEF StaysIn
<1> SUFFICES \E f \in [0..N -> S] : f[0] = b /\ \A i \in 1..N : f[i] = G[<<f[i - 1], i>>]
  BY DEF GoesBy
<1> DEFINE P == {n \in Nat : n <= N => \E f \in [0..n -> S] : f[0] = b /\ \A i \in 1..n : f[i] = G[<<f[i - 1], i>>]}
<1>1. 0 \in P
  <2> DEFINE f == [i \in 0..0 |-> b]
  <2>1. f \in [0..0 -> S] /\ f[0] = b /\ \A i \in 1..0 : f[i] = G[<<f[i - 1], i>>]
    OBVIOUS
  <2> HIDE DEF f
  <2> QED
    BY <2>1
<1>2. ASSUME NEW n \in Nat, n \in P PROVE n + 1 \in P
  <2> SUFFICES ASSUME n + 1 <= N
               PROVE  \E f \in [0..(n + 1) -> S] :
                        f[0] = b /\ \A i \in 1..(n + 1) : f[i] = G[<<f[i - 1], i>>]
    OBVIOUS
  <2>1. PICK f \in [0..n -> S] : f[0] = b /\ \A i \in 1..n : f[i] = G[<<f[i - 1], i>>]
    BY <1>2
  <2> DEFINE next == G[<<f[n], n + 1>>]
             g == [i \in 0..(n + 1) |-> IF i = n + 1 THEN next ELSE f[i]]
  <2>2. next \in S
    BY <2>1
  <2>3. g \in [0..(n + 1) -> S] /\ g[0] = b /\ g[n + 1] = next /\ \A i \in 0..n : g[i] = f[i]
    BY <2>1, <2>2
  <2>4. ASSUME NEW i \in 1..(n + 1) PROVE g[i] = G[<<g[i - 1], i>>]
    <3> HIDE DEF g
    <3>1. CASE i = n + 1
      <4>1. g[i - 1] = f[n]
        BY <2>3, <3>1
      <4> QED
        BY <2>3, <3>1, <4>1
    <3>2. CASE i # n + 1
      <4>1. i \in 1..n /\ i \in 0..n /\ i - 1 \in 0..n
        BY <3>2
      <4> QED
        BY <2>1, <2>3, <4>1
    <3> QED
      BY <3>1, <3>2
  <2> HIDE DEF g
  <2> QED
    BY <2>3, <2>4
<1> HIDE DEF P
<1>3. Nat \subseteq P
  BY <1>1, <1>2, NumbersFromZero, Zenon
<1> QED
  BY <1>3 DEF P

-----------------------------------------------------------------------------
(* Where the normalised characters begin.                                  *)
Starting(f, text) ==
    f = [i \in 0..Len(text) |->
           IF i = 0 THEN <<>> ELSE IF i > 1 /\ CrLfAt(text, i - 1) THEN f[i - 1] ELSE Append(f[i - 1], i)]

LEMMA StartsStart ==
    ASSUME NEW text, Len(text) \in Nat
    PROVE  \E f \in [0..Len(text) -> Seq(Nat)] : Starting(f, text) /\ UnitStarts(text) = f[Len(text)]
<1> DEFINE N == Len(text)
           G == [p \in Seq(Nat) \X Nat |-> IF p[2] > 1 /\ CrLfAt(text, p[2] - 1) THEN p[1] ELSE Append(p[1], p[2])]
           g == CHOOSE f : Starting(f, text)
<1>1. \A x \in Seq(Nat), i \in 1..N : /\ G[<<x, i>>] = IF i > 1 /\ CrLfAt(text, i - 1) THEN x ELSE Append(x, i)
                                      /\ G[<<x, i>>] \in Seq(Nat)
  OBVIOUS
<1>2. <<>> \in Seq(Nat)
  OBVIOUS
<1> HIDE DEF G, N
<1>n. N \in Nat /\ N = Len(text)
  BY DEF N
<1>3. PICK f \in [0..N -> Seq(Nat)] : f[0] = <<>> /\ \A i \in 1..N : f[i] = G[<<f[i - 1], i>>]
  <2>1. StaysIn(G, Seq(Nat), N)
    BY <1>1 DEF StaysIn
  <2>2. \E f : GoesBy(f, G, Seq(Nat), <<>>, N)
    BY <1>n, <1>2, <2>1, StepsExist
  <2> QED
    BY <2>2 DEF GoesBy
<1>4. Starting(f, text)
  <2>1. ASSUME NEW i \in 0..N
        PROVE  f[i] = IF i = 0 THEN <<>> ELSE IF i > 1 /\ CrLfAt(text, i - 1) THEN f[i - 1] ELSE Append(f[i - 1], i)
    <3>1. CASE i = 0
      BY <1>3, <3>1
    <3>2. CASE i # 0
      <4>1. i \in 1..N /\ i - 1 \in 0..N
        BY <1>n, <3>2
      <4>2. f[i] = G[<<f[i - 1], i>>] /\ f[i - 1] \in Seq(Nat)
        BY <1>3, <4>1
      <4>3. \A x \in Seq(Nat) : G[<<x, i>>] = IF i > 1 /\ CrLfAt(text, i - 1) THEN x ELSE Append(x, i)
        BY <1>1, <4>1
      <4> QED
        BY <3>2, <4>2, <4>3, Zenon
    <3> QED
      BY <3>1, <3>2
  <2>2. f = [i \in 0..N |-> f[i]]
    BY <1>3
  <2>3. f = [i \in 0..N |-> IF i = 0 THEN <<>>
                             ELSE IF i > 1 /\ CrLfAt(text, i - 1) THEN f[i - 1] ELSE Append(f[i - 1], i)]
    BY <2>1, <2>2, Zenon
  <2> QED
    BY <1>n, <2>3 DEF Starting
<1>5. Starting(g, text)
  BY <1>4, Zenon
<1>6. UnitStarts(text) = g[N]
  BY DEF UnitStarts, Starting, N
<1>7. g \in [0..N -> Seq(Nat)]
  <2> HIDE DEF g
  <2> DEFINE P == {n \in Nat : n <= N => g[n] = f[n]}
  <2>1. 0 \in P
    BY <1>4, <1>5, <1>n DEF Starting
  <2>2. ASSUME NEW n \in Nat, n \in P PROVE n + 1 \in P
    <3> SUFFICES ASSUME n + 1 <= N PROVE g[n + 1] = f[n + 1]
      OBVIOUS
    <3>1. n + 1 \in 0..Len(text) /\ n + 1 # 0 /\ (n + 1) - 1 = n
      BY <1>n
    <3>2. /\ g[n + 1] = IF n + 1 > 1 /\ CrLfAt(text, n) THEN g[n] ELSE Append(g[n], n + 1)
          /\ f[n + 1] = IF n + 1 > 1 /\ CrLfAt(text, n) THEN f[n] ELSE Append(f[n], n + 1)
      BY <1>4, <1>5, <3>1 DEF Starting
    <3>3. g[n] = f[n]
      BY <1>n, <2>2
    <3> QED
      BY <3>2, <3>3
  <2> HIDE DEF P
  <2>3. Nat \subseteq P
    BY <2>1, <2>2, NumbersFromZero, Zenon
  <2>4. \A n \in 0..N : g[n] = f[n]
    BY <2>3 DEF P
  <2>5. g = [n \in 0..N |-> g[n]]
    BY <1>5, <1>n DEF Starting
  <2> QED
    BY <1>3, <2>4, <2>5
<1> QED
  BY <1>5, <1>6, <1>7, <1>n

NextChar(text, i) == IF CrLfAt(text, i) THEN i + 2 ELSE i + 1

(* The starts found in the first i positions, one after the other.         *)
InOrder(s, text, i) ==
    /\ s \in Seq(Nat) /\ Len(s) > 0 /\ s[1] = 1 /\ \A k \in 1..Len(s) : s[k] \in 1..i
    /\ \A k \in 1..Len(s) : k < Len(s) => s[k + 1] = NextChar(text, s[k])
    /\ s[Len(s)] = i \/ (s[Len(s)] = i - 1 /\ CrLfAt(text, i - 1))

LEMMA StartsInOrder ==
    ASSUME NEW text, Len(text) \in Nat
    PROVE  /\ UnitStarts(text) \in Seq(Nat)
           /\ IF Len(text) = 0 THEN UnitStarts(text) = <<>> ELSE InOrder(UnitStarts(text), text, Len(text))
<1>1. PICK f \in [0..Len(text) -> Seq(Nat)] : Starting(f, text) /\ UnitStarts(text) = f[Len(text)]
  BY StartsStart
<1>2. \A i \in 0..Len(text) : f[i] = IF i = 0 THEN <<>>
                                     ELSE IF i > 1 /\ CrLfAt(text, i - 1) THEN f[i - 1] ELSE Append(f[i - 1], i)
  BY <1>1, Zenon DEF Starting
<1> DEFINE P == {n \in Nat : n + 1 <= Len(text) => InOrder(f[n + 1], text, n + 1)}
<1>3. 0 \in P
  <2> SUFFICES ASSUME 1 <= Len(text) PROVE InOrder(f[1], text, 1)
    OBVIOUS
  <2>1. f[0] = <<>> /\ f[1] = Append(f[0], 1)
    BY <1>2
  <2>2. f[1] = <<1>>
    BY <2>1
  <2> QED
    BY <2>2 DEF InOrder
<1>4. ASSUME NEW n \in Nat, n \in P PROVE n + 1 \in P
  <2> DEFINE i == n + 2
             s == f[n + 1]
  <2> SUFFICES ASSUME i <= Len(text) PROVE InOrder(f[i], text, i)
    OBVIOUS
  <2>1. InOrder(s, text, i - 1)
    BY <1>4
  <2>2. f[i] = IF CrLfAt(text, i - 1) THEN s ELSE Append(s, i)
    <3>1. i \in 0..Len(text) /\ i # 0 /\ i > 1 /\ i - 1 = n + 1
      OBVIOUS
    <3> QED
      BY <1>2, <3>1
  <2>3. i \in Nat /\ i > 1
    OBVIOUS
  <2> HIDE DEF i, s
  <2>4. CASE CrLfAt(text, i - 1)
    <3>1. ~CrLfAt(text, i - 2)
      BY <2>3, <2>4 DEF CrLfAt
    <3>2. s[Len(s)] = i - 1
      BY <2>1, <2>3, <3>1 DEF InOrder
    <3> QED
      BY <2>1, <2>2, <2>3, <2>4, <3>2 DEF InOrder
  <2>5. CASE ~CrLfAt(text, i - 1)
    <3> DEFINE t == Append(s, i)
    <3>1. /\ t \in Seq(Nat) /\ Len(t) = Len(s) + 1 /\ t[Len(t)] = i /\ Len(s) \in Nat
          /\ \A k \in 1..Len(s) : t[k] = s[k]
      BY <2>1, <2>3 DEF InOrder
    <3> HIDE DEF t
    <3>2. NextChar(text, s[Len(s)]) = i
      BY <2>1, <2>3, <2>5 DEF InOrder, NextChar
    <3>3. /\ Len(s) > 0 /\ s[1] = 1 /\ \A k \in 1..Len(s) : s[k] \in 1..(i - 1)
          /\ \A k \in 1..Len(s) : k < Len(s) => s[k + 1] = NextChar(text, s[k])
      BY <2>1 DEF InOrder
    <3>4. ASSUME NEW k \in Nat, k \in 1..Len(t), k < Len(t) PROVE t[k + 1] = NextChar(text, t[k])
      <4>1. k \in 1..Len(s) /\ t[k] = s[k]
        BY <3>1, <3>4
      <4>2. CASE k = Len(s)
        <5>1. k + 1 = Len(t)
          BY <3>1, <4>2
        <5> QED
          BY <3>1, <3>2, <4>1, <4>2, <5>1
      <4>3. CASE k # Len(s)
        <5>1. k + 1 \in 1..Len(s) /\ k < Len(s)
          BY <3>1, <4>1, <4>3
        <5>2. t[k + 1] = s[k + 1] /\ s[k + 1] = NextChar(text, s[k])
          BY <3>1, <3>3, <4>1, <5>1
        <5> QED
          BY <4>1, <5>2
      <4> QED
        BY <4>2, <4>3
    <3>5. Len(t) > 0 /\ t[1] = 1
      <4>1. 1 \in 1..Len(s)
        BY <3>1, <3>3
      <4> QED
        BY <3>1, <3>3, <4>1
    <3>6. ASSUME NEW k \in Nat, k \in 1..Len(t) PROVE t[k] \in 1..i
      <4>1. CASE k \in 1..Len(s)
        <5>1. t[k] = s[k] /\ s[k] \in 1..(i - 1)
          BY <3>1, <3>3, <4>1
        <5> QED
          BY <2>3, <5>1
      <4>2. CASE k \notin 1..Len(s)
        <5>1. k = Len(t)
          BY <3>1, <3>6, <4>2
        <5> QED
          BY <2>3, <3>1, <5>1
      <4> QED
        BY <4>1, <4>2
    <3>7. InOrder(t, text, i)
      <4>1. \A k \in 1..Len(t) : k \in Nat
        BY <3>1
      <4> QED
        BY <3>1, <3>4, <3>5, <3>6, <4>1 DEF InOrder
    <3> QED
      BY <2>2, <2>5, <3>7 DEF t
  <2> QED
    BY <2>4, <2>5
<1> HIDE DEF P
<1>5. Nat \subseteq P
  BY <1>3, <1>4, NumbersFromZero, Zenon
<1>6. CASE Len(text) = 0
  BY <1>1, <1>2, <1>6
<1>7. CASE Len(text) # 0
  <2>1. Len(text) - 1 \in P
    BY <1>5, <1>7
  <2> QED
    BY <1>1, <1>7, <2>1 DEF P
<1> QED
  BY <1>6, <1>7

(* One character further is what _advance_original moves by.               *)
LEMMA StartsStep ==
    ASSUME NEW text, Len(text) \in Nat
    PROVE  LET N == Len(normalize_newlines(text))
           IN  /\ N \in Nat /\ StartOf(text, 1) = 1 /\ StartOf(text, N + 1) = Len(text) + 1
               /\ \A k \in 1..(N + 1) : StartOf(text, k) \in 1..(Len(text) + 1)
               /\ \A k \in 1..N : StartOf(text, k + 1) = NextChar(text, StartOf(text, k))
<1> DEFINE s == UnitStarts(text)
           N == Len(normalize_newlines(text))
<1>1. s \in Seq(Nat) /\ (Len(text) = 0 => s = <<>>) /\ (Len(text) # 0 => InOrder(s, text, Len(text)))
  BY StartsInOrder
<1>n. Len(text) \in Nat
  OBVIOUS
<1> HIDE DEF s
<1>2. N = Len(s) /\ N \in Nat
  BY <1>1 DEF normalize_newlines, s
<1> HIDE DEF N
<1>3. \A k : StartOf(text, k) = IF k <= N THEN s[k] ELSE Len(text) + 1
  BY <1>2 DEF StartOf, s
<1>4. StartOf(text, N + 1) = Len(text) + 1
  BY <1>2, <1>3
<1>5. CASE Len(text) = 0
  <2>1. N = 0
    BY <1>1, <1>2, <1>5
  <2> QED
    BY <1>2, <1>3, <1>4, <1>5, <2>1 DEF N
<1>6. CASE Len(text) # 0
  <2>1. N > 0 /\ s[1] = 1 /\ \A k \in 1..N : s[k] \in 1..Len(text)
    BY <1>1, <1>2, <1>6 DEF InOrder
  <2>2. StartOf(text, 1) = 1 /\ \A k \in 1..(N + 1) : StartOf(text, k) \in 1..(Len(text) + 1)
    <3>1. StartOf(text, 1) = 1
      <4>1. 1 <= N
        BY <1>2, <2>1
      <4> QED
        BY <1>3, <2>1, <4>1, Zenon
    <3>2. ASSUME NEW k \in 1..N PROVE StartOf(text, k) \in 1..(Len(text) + 1)
      <4>1. k <= N /\ s[k] \in 1..Len(text)
        BY <1>2, <2>1
      <4>2. s[k] \in 1..(Len(text) + 1)
        BY <1>n, <4>1
      <4> QED
        BY <1>3, <4>1, <4>2, Zenon
    <3>3. StartOf(text, N + 1) \in 1..(Len(text) + 1)
      BY <1>n, <1>4
    <3>4. ASSUME NEW k \in 1..(N + 1) PROVE k \in 1..N \/ k = N + 1
      BY <1>2
    <3> QED
      BY <3>1, <3>2, <3>3, <3>4, Zenon
  <2>3. ASSUME NEW k \in 1..N PROVE StartOf(text, k + 1) = NextChar(text, StartOf(text, k))
    <3>1. CASE k < N
      <4>1. k \in Nat /\ k + 1 <= N /\ k <= N
        BY <1>2, <3>1
      <4>2. s[k + 1] = NextChar(text, s[k])
        BY <1>1, <1>2, <1>6, <3>1 DEF InOrder
      <4> QED
        BY <1>3, <4>1, <4>2
    <3>2. CASE k = N
      <4>1. NextChar(text, s[N]) = Len(text) + 1
        <5>1. s[N] = Len(text) \/ (s[N] = Len(text) - 1 /\ CrLfAt(text, Len(text) - 1))
          BY <1>1, <1>2, <1>6 DEF InOrder
        <5>2. ~CrLfAt(text, Len(text))
          BY DEF CrLfAt
        <5> QED
          BY <5>1, <5>2 DEF NextChar
      <4> QED
        BY <1>2, <1>3, <1>4, <3>2, <4>1
    <3> QED
      BY <1>2, <3>1, <3>2
  <2> QED
    BY <1>2, <1>4, <2>2, <2>3 DEF N
<1> QED
  BY <1>5, <1>6

-----------------------------------------------------------------------------
Moves(f, text, index, count) ==
    f = [n \in 0..count |-> IF n = 0 THEN index
                            ELSE IF CrLfAt(text, f[n - 1]) THEN f[n - 1] + 2 ELSE f[n - 1] + 1]

LEMMA AdvancedMoves ==
    ASSUME NEW text, NEW index \in Nat, NEW count \in Nat
    PROVE  \E f : Moves(f, text, index, count) /\ Advanced(text, index, count) = f[count]
<1> DEFINE G == [p \in Nat \X Nat |-> NextChar(text, p[1])]
           g == CHOOSE f : Moves(f, text, index, count)
<1>1. \A x \in Nat, i \in 1..count : G[<<x, i>>] = NextChar(text, x) /\ NextChar(text, x) \in Nat
  BY DEF NextChar
<1> HIDE DEF G
<1>2. StaysIn(G, Nat, count)
  BY <1>1 DEF StaysIn
<1>3. PICK f : GoesBy(f, G, Nat, index, count)
  BY <1>2, StepsExist
<1>4. Moves(f, text, index, count)
  <2>1. f \in [0..count -> Nat] /\ f[0] = index
    BY <1>3 DEF GoesBy
  <2>2. \A n \in 1..count : f[n] = IF CrLfAt(text, f[n - 1]) THEN f[n - 1] + 2 ELSE f[n - 1] + 1
    <3> TAKE n \in 1..count
    <3>1. n - 1 \in 0..count
      OBVIOUS
    <3>2. f[n - 1] \in Nat /\ f[n] = G[<<f[n - 1], n>>]
      BY <1>3, <2>1, <3>1 DEF GoesBy
    <3>3. G[<<f[n - 1], n>>] = NextChar(text, f[n - 1])
      BY <1>1, <3>2
    <3> QED
      BY <3>2, <3>3 DEF NextChar
  <2>3. \A n \in 0..count : f[n] = IF n = 0 THEN index
                                   ELSE IF CrLfAt(text, f[n - 1]) THEN f[n - 1] + 2 ELSE f[n - 1] + 1
    <3> TAKE n \in 0..count
    <3>1. n = 0 \/ n \in 1..count
      OBVIOUS
    <3> QED
      BY <2>1, <2>2, <3>1
  <2>4. f = [n \in 0..count |-> f[n]]
    BY <2>1
  <2>5. f = [n \in 0..count |-> IF n = 0 THEN index
                                ELSE IF CrLfAt(text, f[n - 1]) THEN f[n - 1] + 2 ELSE f[n - 1] + 1]
    BY <2>3, <2>4, Zenon
  <2> QED
    BY <2>5 DEF Moves
<1>5. Moves(g, text, index, count)
  BY <1>4, Zenon
<1>6. Advanced(text, index, count) = g[count]
  BY DEF Advanced, Moves
<1> QED
  BY <1>5, <1>6

(* Characters counted in the normalised text and in the original.          *)
LEMMA AdvancedStarts ==
    ASSUME NEW text, Len(text) \in Nat, NEW N, N = Len(normalize_newlines(text)),
           NEW k \in 1..(N + 1), NEW count \in Nat, k + count <= N + 1
    PROVE  Advanced(text, StartOf(text, k), count) = StartOf(text, k + count)
<1>1. /\ N \in Nat /\ \A i \in 1..(N + 1) : StartOf(text, i) \in 1..(Len(text) + 1)
      /\ \A i \in 1..N : StartOf(text, i + 1) = NextChar(text, StartOf(text, i))
  BY StartsStep
<1>2. StartOf(text, k) \in Nat
  BY <1>1
<1>3. PICK f : Moves(f, text, StartOf(text, k), count)
               /\ Advanced(text, StartOf(text, k), count) = f[count]
  BY <1>2, AdvancedMoves
<1> DEFINE P == {n \in Nat : n <= count => f[n] = StartOf(text, k + n)}
<1>4. 0 \in P
  <2>1. f[0] = StartOf(text, k) /\ k + 0 = k
    BY <1>1, <1>3 DEF Moves
  <2> QED
    BY <2>1
<1>5. ASSUME NEW n \in Nat, n \in P PROVE n + 1 \in P
  <2> SUFFICES ASSUME n + 1 <= count PROVE f[n + 1] = StartOf(text, k + (n + 1))
    OBVIOUS
  <2>1. n + 1 \in 0..count /\ n + 1 # 0 /\ (n + 1) - 1 = n
    OBVIOUS
  <2>2. f[n + 1] = NextChar(text, f[n])
    BY <1>3, <2>1 DEF Moves, NextChar
  <2>3. f[n] = StartOf(text, k + n)
    BY <1>5
  <2>4. k + n \in 1..N /\ k + (n + 1) = (k + n) + 1
    BY <1>1
  <2> QED
    BY <1>1, <2>2, <2>3, <2>4
<1> HIDE DEF P
<1>6. Nat \subseteq P
  BY <1>4, <1>5, NumbersFromZero, Zenon
<1> QED
  BY <1>3, <1>6 DEF P

-----------------------------------------------------------------------------
LEMMA WithNewlineTyped ==
    ASSUME NEW C, NEW text \in Seq(C), NEW newline \in Seq(C)
    PROVE  WithNewline(text, newline) \in Seq(C)
<1> DEFINE Adds(i) == IF text[i] = "LF" THEN newline ELSE <<text[i]>>
           N == Len(text)
           Spells(f) == f = [i \in 0..N |-> IF i = 0 THEN <<>> ELSE f[i - 1] \o Adds(i)]
           G == [p \in Seq(C) \X (1..N) |-> p[1] \o Adds(p[2])]
           g == CHOOSE f : Spells(f)
<1>1. N \in Nat /\ <<>> \in Seq(C) /\ \A i \in 1..N : Adds(i) \in Seq(C)
  OBVIOUS
<1> HIDE DEF N, Adds
<1>2. ASSUME NEW x \in Seq(C), NEW i \in 1..N
      PROVE  G[<<x, i>>] = x \o Adds(i) /\ x \o Adds(i) \in Seq(C)
  <2>1. Adds(i) \in Seq(C)
    BY <1>1
  <2>2. x \o Adds(i) \in Seq(C)
    BY <2>1
  <2> QED
    BY <2>2
<1> HIDE DEF G
<1>3. StaysIn(G, Seq(C), N)
  BY <1>2 DEF StaysIn
<1>4. PICK f : GoesBy(f, G, Seq(C), <<>>, N)
  BY <1>1, <1>3, StepsExist
<1>5. f \in [0..N -> Seq(C)] /\ f[0] = <<>> /\ \A i \in 1..N : f[i] = G[<<f[i - 1], i>>]
  BY <1>4 DEF GoesBy
<1>6. Spells(f)
  <2>1. \A i \in 1..N : f[i] = f[i - 1] \o Adds(i)
    <3> TAKE i \in 1..N
    <3>1. f[i - 1] \in Seq(C) /\ f[i] = G[<<f[i - 1], i>>]
      BY <1>1, <1>5
    <3> QED
      BY <1>2, <3>1
  <2>2. \A i \in 0..N : f[i] = IF i = 0 THEN <<>> ELSE f[i - 1] \o Adds(i)
    <3> TAKE i \in 0..N
    <3>1. i = 0 \/ i \in 1..N
      BY <1>1
    <3> QED
      BY <1>5, <2>1, <3>1
  <2>3. f = [i \in 0..N |-> f[i]]
    BY <1>5
  <2> QED
    BY <2>2, <2>3, Zenon
<1> HIDE DEF Spells
<1>7. Spells(g)
  BY <1>6, Zenon
<1>8. WithNewline(text, newline) = g[N]
  BY DEF WithNewline, Spells, N, Adds
<1> HIDE DEF g
<1> DEFINE P == {n \in Nat : n <= N => g[n] \in Seq(C)}
<1>9. 0 \in P
  BY <1>1, <1>7 DEF Spells
<1>10. ASSUME NEW n \in Nat, n \in P PROVE n + 1 \in P
  <2> SUFFICES ASSUME n + 1 <= N PROVE g[n + 1] \in Seq(C)
    OBVIOUS
  <2>1. n + 1 \in 0..N /\ n + 1 \in 1..N /\ n + 1 # 0 /\ (n + 1) - 1 = n /\ g[n] \in Seq(C)
    BY <1>1, <1>10
  <2>2. g[n + 1] = g[n] \o Adds(n + 1)
    BY <1>7, <2>1 DEF Spells
  <2>3. Adds(n + 1) \in Seq(C)
    BY <1>1, <2>1
  <2> QED
    BY <2>1, <2>2, <2>3
<1> HIDE DEF P
<1>11. Nat \subseteq P
  BY <1>9, <1>10, NumbersFromZero, Zenon
<1> QED
  BY <1>1, <1>8, <1>11 DEF P

LEMMA SpelledTyped ==
    ASSUME NEW C, NEW text \in Seq(C), NEW N, N = Len(normalize_newlines(text)),
           NEW from \in 1..(N + 1), NEW to \in 1..(N + 1)
    PROVE  Spelled(text, from, to) \in Seq(C)
<1>1. StartOf(text, from) \in 1..(Len(text) + 1) /\ StartOf(text, to) \in 1..(Len(text) + 1)
  BY StartsStep
<1> QED
  BY <1>1 DEF Spelled

(* The last n characters of the reference, for every n.                    *)
Replaces(f, original, old, new, n) ==
    LET text == normalize_newlines(original)
        k == Len(text) - n + 1
    IN  IF n = 0 THEN <<>>
        ELSE IF MatchAt(text, old, k) THEN ReplacementAt(original, old, new, k) \o f[n - Len(old)]
        ELSE Spelled(original, k, k + 1) \o f[n - 1]

LEMMA LastReplacedIs ==
    ASSUME NEW original, Len(original) \in Nat, NEW old, NEW new, Len(old) \in Nat \ {0},
           NEW N, N = Len(normalize_newlines(original))
    PROVE  \A n \in 0..N : LastReplaced(original, old, new)[n]
                             = Replaces(LastReplaced(original, old, new), original, old, new, n)
<1> DEFINE text == normalize_newlines(original)
           Is(f, m) == f = [n \in 0..m |-> Replaces(f, original, old, new, n)]
           P == {m \in Nat : m <= N => \E f : Is(f, m)}
           g == CHOOSE f : Is(f, N)
<1>0. N \in Nat
  BY StartsStep
<1>1. 0 \in P
  <2> DEFINE f == [n \in 0..0 |-> <<>>]
  <2>1. \A n \in 0..0 : f[n] = Replaces(f, original, old, new, n)
    BY DEF Replaces
  <2>2. f = [n \in 0..0 |-> f[n]]
    OBVIOUS
  <2> HIDE DEF f
  <2>3. Is(f, 0)
    BY <2>1, <2>2, Zenon
  <2> QED
    BY <2>3
<1>2. ASSUME NEW m \in Nat, m \in P PROVE m + 1 \in P
  <2> SUFFICES ASSUME m + 1 <= N PROVE \E h : Is(h, m + 1)
    OBVIOUS
  <2>1. PICK f : Is(f, m)
    BY <1>0, <1>2
  <2> DEFINE h == [n \in 0..(m + 1) |-> IF n = m + 1 THEN Replaces(f, original, old, new, m + 1) ELSE f[n]]
  <2>2. h = [n \in 0..(m + 1) |-> h[n]] /\ h[m + 1] = Replaces(f, original, old, new, m + 1)
        /\ \A n \in 0..m : h[n] = f[n]
    OBVIOUS
  <2> HIDE DEF h
  <2>3. ASSUME NEW n \in 0..(m + 1) PROVE Replaces(f, original, old, new, n) = Replaces(h, original, old, new, n)
    <3> DEFINE k == Len(text) - n + 1
    <3>1. n # 0 => n - 1 \in 0..m
      OBVIOUS
    <3>2. MatchAt(text, old, k) => n - Len(old) \in 0..m
      BY <1>0 DEF MatchAt
    <3> HIDE DEF k
    <3>3. /\ n # 0 => h[n - 1] = f[n - 1]
          /\ MatchAt(text, old, k) => h[n - Len(old)] = f[n - Len(old)]
      BY <2>2, <3>1, <3>2
    <3> QED
      BY <3>3, Zenon DEF Replaces, k
  <2>4. \A n \in 0..m : f[n] = Replaces(f, original, old, new, n)
    BY <2>1, Zenon
  <2>5. \A n \in 0..(m + 1) : h[n] = Replaces(h, original, old, new, n)
    <3> TAKE n \in 0..(m + 1)
    <3>1. CASE n = m + 1
      BY <2>2, <2>3, <3>1
    <3>2. CASE n # m + 1
      <4>1. n \in 0..m
        BY <3>2
      <4> QED
        BY <2>2, <2>3, <2>4, <4>1
    <3> QED
      BY <3>1, <3>2
  <2>6. Is(h, m + 1)
    BY <2>2, <2>5, Zenon
  <2> QED
    BY <2>6
<1> HIDE DEF P
<1>3. Nat \subseteq P
  BY <1>1, <1>2, NumbersFromZero, Zenon
<1>4. \E f : Is(f, N)
  BY <1>0, <1>3 DEF P
<1>5. Is(g, N)
  BY <1>4, Zenon
<1>6. LastReplaced(original, old, new) = g
  BY DEF LastReplaced, Replaces
<1> HIDE DEF g
<1>7. \A n \in 0..N : g[n] = Replaces(g, original, old, new, n)
  BY <1>5, Zenon
<1> QED
  BY <1>6, <1>7

LEMMA ReplacementTyped ==
    ASSUME NEW C, "CR" \in C, "LF" \in C, NEW original \in Seq(C), NEW old \in Seq(C), NEW new \in Seq(C), NEW k
    PROVE  ReplacementAt(original, old, new, k) \in Seq(C)
<1>1. ASSUME NEW text PROVE detect_newline(text) \in Seq(C)
  <2>1. detect_newline(text) \in {<<"CR", "LF">>, <<"CR">>, <<"LF">>}
    BY Zenon DEF detect_newline
  <2>2. <<"CR", "LF">> \in Seq(C) /\ <<"CR">> \in Seq(C) /\ <<"LF">> \in Seq(C)
    OBVIOUS
  <2> QED
    BY <2>1, <2>2
<1> QED
  BY <1>1, WithNewlineTyped DEF ReplacementAt

LEMMA LastReplacedTyped ==
    ASSUME NEW C, "CR" \in C, "LF" \in C, NEW original \in Seq(C),
           NEW old \in Seq(C), old # <<>>, NEW new \in Seq(C),
           NEW N, N = Len(normalize_newlines(original))
    PROVE  \A n \in 0..N : LastReplaced(original, old, new)[n] \in Seq(C)
<1> DEFINE text == normalize_newlines(original)
           f == LastReplaced(original, old, new)
           P == {m \in Nat : \A n \in 0..m : n <= N => f[n] \in Seq(C)}
<1>0. Len(original) \in Nat /\ Len(old) \in Nat \ {0}
  OBVIOUS
<1>1. N \in Nat /\ \A n \in 0..N : f[n] = Replaces(f, original, old, new, n)
  BY <1>0, StartsStep, LastReplacedIs
<1> HIDE DEF f
<1>2. ASSUME NEW n \in 0..N, \A m \in 0..N : m < n => f[m] \in Seq(C)
      PROVE  f[n] \in Seq(C)
  <2> DEFINE k == Len(text) - n + 1
  <2>1. CASE n = 0
    <3>1. f[n] = <<>>
      BY <1>1, <2>1 DEF Replaces
    <3>2. <<>> \in Seq(C)
      OBVIOUS
    <3> QED
      BY <3>1, <3>2
  <2>2. CASE n # 0 /\ MatchAt(text, old, k)
    <3>1. n - Len(old) \in 0..N /\ n - Len(old) < n
      BY <1>0, <1>1, <2>2 DEF MatchAt
    <3>2. f[n] = ReplacementAt(original, old, new, k) \o f[n - Len(old)]
      BY <1>1, <2>2 DEF Replaces
    <3>3. ReplacementAt(original, old, new, k) \in Seq(C) /\ f[n - Len(old)] \in Seq(C)
      BY <1>2, <3>1, ReplacementTyped
    <3> QED
      BY <3>2, <3>3
  <2>3. CASE n # 0 /\ ~MatchAt(text, old, k)
    <3>1. n - 1 \in 0..N /\ n - 1 < n /\ k \in 1..(N + 1) /\ k + 1 \in 1..(N + 1)
      BY <1>1, <2>3
    <3>2. f[n] = Spelled(original, k, k + 1) \o f[n - 1]
      BY <1>1, <2>3 DEF Replaces
    <3>3. Spelled(original, k, k + 1) \in Seq(C) /\ f[n - 1] \in Seq(C)
      BY <1>2, <3>1, SpelledTyped
    <3> QED
      BY <3>2, <3>3
  <2> QED
    BY <2>1, <2>2, <2>3
<1>3. 0 \in P
  BY <1>1, <1>2
<1>4. ASSUME NEW m \in Nat, m \in P PROVE m + 1 \in P
  <2>1. \A n \in 0..m : n <= N => f[n] \in Seq(C)
    BY <1>4
  <2>2. m + 1 <= N => f[m + 1] \in Seq(C)
    <3> SUFFICES ASSUME m + 1 <= N PROVE f[m + 1] \in Seq(C)
      OBVIOUS
    <3>1. m + 1 \in 0..N /\ \A n \in 0..N : n < m + 1 => n \in 0..m /\ n <= N
      BY <1>1
    <3> QED
      BY <1>2, <2>1, <3>1
  <2>3. \A n \in 0..(m + 1) : n \in 0..m \/ n = m + 1
    OBVIOUS
  <2> QED
    BY <2>1, <2>2, <2>3
<1> HIDE DEF P
<1>5. Nat \subseteq P
  BY <1>3, <1>4, NumbersFromZero, Zenon
<1>6. N \in P
  BY <1>1, <1>5
<1> QED
  BY <1>1, <1>6 DEF P, f

-----------------------------------------------------------------------------
LEMMA SubSeqsJoin ==
    ASSUME NEW C, NEW s \in Seq(C), NEW a \in 1..(Len(s) + 1), NEW b \in 1..(Len(s) + 1),
           NEW c \in 1..(Len(s) + 1), a <= b, b <= c
    PROVE  SubSeq(s, a, b - 1) \o SubSeq(s, b, c - 1) = SubSeq(s, a, c - 1)
<1> DEFINE l == SubSeq(s, a, b - 1)
           r == SubSeq(s, b, c - 1)
           w == SubSeq(s, a, c - 1)
<1>p. ASSUME NEW x \in 1..(Len(s) + 1), NEW y \in 1..(Len(s) + 1), x <= y
      PROVE  /\ SubSeq(s, x, y - 1) \in Seq(C) /\ Len(SubSeq(s, x, y - 1)) = y - x
             /\ \A i \in 1..(y - x) : SubSeq(s, x, y - 1)[i] = s[x + i - 1]
  BY ONLY s \in Seq(C), <1>p
<1>1. /\ l \in Seq(C) /\ Len(l) = b - a /\ \A i \in 1..(b - a) : l[i] = s[a + i - 1]
      /\ r \in Seq(C) /\ Len(r) = c - b /\ \A i \in 1..(c - b) : r[i] = s[b + i - 1]
      /\ w \in Seq(C) /\ Len(w) = c - a /\ \A i \in 1..(c - a) : w[i] = s[a + i - 1]
  <2>1. a <= c
    OBVIOUS
  <2> QED
    BY <1>p, <2>1, Zenon
<1> HIDE DEF l, r, w
<1>0. a \in Nat /\ b \in Nat /\ c \in Nat /\ a <= b /\ b <= c
  OBVIOUS
<1>2. /\ l \o r \in Seq(C) /\ Len(l \o r) = c - a
      /\ \A i \in 1..(c - a) : (l \o r)[i] = IF i <= b - a THEN l[i] ELSE r[i - (b - a)]
  <2>1. /\ l \o r \in Seq(C) /\ Len(l \o r) = Len(l) + Len(r)
        /\ \A i \in 1..(Len(l) + Len(r)) : (l \o r)[i] = IF i <= Len(l) THEN l[i] ELSE r[i - Len(l)]
    BY <1>1, ConcatProperties
  <2>2. Len(l) + Len(r) = c - a /\ Len(l) = b - a
    BY <1>0, <1>1
  <2> QED
    BY ONLY <2>1, <2>2
<1>3. ASSUME NEW i \in 1..(c - a) PROVE (l \o r)[i] = w[i]
  <2>1. CASE i <= b - a
    <3>1. i \in 1..(b - a)
      BY <1>0, <2>1
    <3> QED
      BY <1>1, <1>2, <2>1, <3>1
  <2>2. CASE ~(i <= b - a)
    <3> DEFINE j == i - (b - a)
    <3>1. j \in 1..(c - b) /\ b + j - 1 = a + i - 1
      BY <1>0, <2>2
    <3>2. (l \o r)[i] = r[j]
      BY <1>2, <2>2
    <3> HIDE DEF j
    <3>3. r[j] = s[b + j - 1] /\ w[i] = s[a + i - 1]
      BY <1>1, <3>1
    <3> QED
      BY <3>1, <3>2, <3>3
  <2> QED
    BY <2>1, <2>2
<1>4. l \o r = w
  BY <1>1, <1>2, <1>3, SeqEqual
<1> QED
  BY <1>4 DEF l, r, w

(* The same two facts, stated so that the prover finds where to use them.  *)
AreSeqs(C, x, y, z) == x \in Seq(C) /\ y \in Seq(C) /\ z \in Seq(C)
AreCuts(C, s, a, b, c) ==
    /\ s \in Seq(C) /\ a \in 1..(Len(s) + 1) /\ b \in 1..(Len(s) + 1) /\ c \in 1..(Len(s) + 1)
    /\ a <= b /\ b <= c

LEMMA SeqsAssociate ==
    ASSUME NEW C, NEW x, NEW y, NEW z, AreSeqs(C, x, y, z) PROVE (x \o y) \o z = x \o (y \o z)
BY ConcatAssociative DEF AreSeqs

Cut(s, a, b) == SubSeq(s, a, b - 1)

LEMMA CutsJoin ==
    ASSUME NEW C, NEW s, NEW a, NEW b, NEW c, AreCuts(C, s, a, b, c)
    PROVE  Cut(s, a, b) \o Cut(s, b, c) = Cut(s, a, c)
BY SubSeqsJoin DEF AreCuts, Cut

LEMMA SpelledJoins ==
    ASSUME NEW C, NEW text, NEW a, NEW b, NEW c,
           AreCuts(C, text, StartOf(text, a), StartOf(text, b), StartOf(text, c))
    PROVE  Spelled(text, a, b) \o Spelled(text, b, c) = Spelled(text, a, c)
<1>1. /\ Spelled(text, a, b) = Cut(text, StartOf(text, a), StartOf(text, b))
      /\ Spelled(text, b, c) = Cut(text, StartOf(text, b), StartOf(text, c))
      /\ Spelled(text, a, c) = Cut(text, StartOf(text, a), StartOf(text, c))
  BY Zenon DEF Spelled, Cut
<1>2. Cut(text, StartOf(text, a), StartOf(text, b)) \o Cut(text, StartOf(text, b), StartOf(text, c))
        = Cut(text, StartOf(text, a), StartOf(text, c))
  BY CutsJoin
<1> QED
  BY <1>1, <1>2, Zenon

LEMMA FoundIs ==
    ASSUME NEW text, Len(text) \in Nat, DOMAIN text = 1..Len(text), NEW needle, NEW from \in Nat
    PROVE  LET i == Find(text, needle, from)
           IN  /\ i = 0 => \A j \in 1..Len(text) : j >= from => ~MatchAt(text, needle, j)
               /\ i # 0 => /\ i \in 1..Len(text) /\ i >= from /\ MatchAt(text, needle, i)
                           /\ \A j \in 1..Len(text) : j >= from /\ j < i => ~MatchAt(text, needle, j)
<1> DEFINE found == {i \in DOMAIN text : i >= from /\ MatchAt(text, needle, i)}
<1>1. Find(text, needle, from) = IF found = {} THEN 0 ELSE CHOOSE i \in found : \A j \in found : i <= j
  BY DEF Find
<1>2. \A i : i \in found <=> i \in 1..Len(text) /\ i >= from /\ MatchAt(text, needle, i)
  OBVIOUS
<1> HIDE DEF found
<1>3. CASE found = {}
  BY <1>1, <1>2, <1>3
<1>4. CASE found # {}
  <2>1. found \subseteq Nat
    BY <1>2
  <2>2. \E i \in found : \A j \in found : i <= j
    BY <1>4, <2>1, LeastNumber, Zenon
  <2>3. Find(text, needle, from) \in found /\ \A j \in found : Find(text, needle, from) <= j
    BY <1>1, <1>4, <2>2, Zenon
  <2> QED
    BY <1>2, <2>1, <2>3
<1> QED
  BY <1>3, <1>4

(* Where nothing matches the reference only copies.                        *)
Texts(C, original, old, new) ==
    /\ "CR" \in C /\ "LF" \in C
    /\ original \in Seq(C) /\ old \in Seq(C) /\ old # <<>> /\ new \in Seq(C)

NoMatchIn(original, old, from, to) == \A k \in from..(to - 1) : ~MatchAt(normalize_newlines(original), old, k)
Between(original, from, to) ==
    LET N == Len(normalize_newlines(original)) IN from \in 1..(N + 1) /\ to \in 1..(N + 1) /\ from <= to
Copies(original, old, new, from, to) ==
    LET N == Len(normalize_newlines(original))
    IN  LastReplaced(original, old, new)[N + 1 - from]
          = Spelled(original, from, to) \o LastReplaced(original, old, new)[N + 1 - to]

LEMMA CopiesUpTo ==
    ASSUME NEW C, NEW original, NEW old, NEW new, NEW from, NEW to,
           Texts(C, original, old, new), Between(original, from, to), NoMatchIn(original, old, from, to)
    PROVE  Copies(original, old, new, from, to)
<1> "CR" \in C /\ "LF" \in C /\ original \in Seq(C) /\ old \in Seq(C) /\ old # <<>> /\ new \in Seq(C)
  BY Zenon DEF Texts
<1> PICK N : N = Len(normalize_newlines(original))
  OBVIOUS
<1> from \in 1..(N + 1) /\ to \in 1..(N + 1) /\ from <= to
  BY DEF Between
<1> \A k \in from..(to - 1) : ~MatchAt(normalize_newlines(original), old, k)
  BY Zenon DEF NoMatchIn
<1> DEFINE f == LastReplaced(original, old, new)
           S(k) == StartOf(original, k)
           P == {n \in Nat : from + n <= to =>
                      /\ f[N + 1 - from] = Spelled(original, from, from + n) \o f[N + 1 - (from + n)]
                      /\ S(from) <= S(from + n)}
<1>0. Len(original) \in Nat /\ Len(old) \in Nat \ {0}
  OBVIOUS
<1>1. /\ N \in Nat /\ \A k \in 1..(N + 1) : S(k) \in 1..(Len(original) + 1)
      /\ \A k \in 1..N : S(k + 1) = NextChar(original, S(k))
  BY <1>0, StartsStep
<1>2. \A n \in 0..N : f[n] = Replaces(f, original, old, new, n)
  BY <1>0, LastReplacedIs
<1>3. \A n \in 0..N : f[n] \in Seq(C)
  BY LastReplacedTyped
<1>4. \A i, j \in 1..(N + 1) : Spelled(original, i, j) = SubSeq(original, S(i), S(j) - 1)
                               /\ Spelled(original, i, j) \in Seq(C)
  BY SpelledTyped DEF Spelled
<1>a. N \in Nat /\ from \in Nat /\ to \in Nat /\ 1 <= from /\ from <= to /\ to <= N + 1
  BY <1>1
<1> HIDE DEF f, S
<1>5. 0 \in P
  <2>1. from + 0 = from /\ N + 1 - from \in 0..N
    BY <1>1
  <2>2. Spelled(original, from, from) = <<>>
    BY <1>1, <1>4
  <2>3. <<>> \o f[N + 1 - from] = f[N + 1 - from]
    BY <1>3, <2>1
  <2>4. S(from) <= S(from)
    BY <1>1
  <2> QED
    BY <2>1, <2>2, <2>3, <2>4
<1>6. ASSUME NEW k \in Nat, from <= k, k + 1 <= to,
             f[N + 1 - from] = Spelled(original, from, k) \o f[N + 1 - k] /\ S(from) <= S(k)
      PROVE  /\ f[N + 1 - from] = Spelled(original, from, k + 1) \o f[N + 1 - (k + 1)]
             /\ S(from) <= S(k + 1)
  <2> DEFINE rest == f[N + 1 - (k + 1)]
  <2>1. k \in 1..N /\ k \in from..(to - 1) /\ k + 1 \in 1..(N + 1) /\ N + 1 - k \in 0..N /\ N + 1 - (k + 1) \in 0..N
    BY <1>a, <1>6
  <2>3. f[N + 1 - k] = Spelled(original, k, k + 1) \o rest
    <3>1. N + 1 - k # 0 /\ N - (N + 1 - k) + 1 = k /\ (N + 1 - k) - 1 = N + 1 - (k + 1)
      BY <1>1, <2>1
    <3>2. ~MatchAt(normalize_newlines(original), old, k)
      BY <2>1
    <3> QED
      BY <1>2, <2>1, <3>1, <3>2 DEF Replaces
  <2>4. /\ S(from) \in 1..(Len(original) + 1) /\ S(k) \in 1..(Len(original) + 1)
        /\ S(k + 1) \in 1..(Len(original) + 1)
    BY <1>1, <2>1
  <2>5. S(k) <= S(k + 1) /\ S(from) <= S(k + 1)
    <3>1. S(k + 1) = NextChar(original, S(k))
      BY <1>1, <2>1
    <3>2. S(from) \in Nat /\ S(k) \in Nat /\ S(from) <= S(k)
      BY <1>0, <1>6, <2>4
    <3>3. S(k + 1) = S(k) + 1 \/ S(k + 1) = S(k) + 2
      BY <3>1 DEF NextChar
    <3> QED
      BY ONLY <3>2, <3>3
  <2>6. Spelled(original, from, k) \o Spelled(original, k, k + 1) = Spelled(original, from, k + 1)
    <3>1. S(from) <= S(k) /\ S(k) <= S(k + 1)
      BY <1>6, <2>5
    <3>2. AreCuts(C, original, StartOf(original, from), StartOf(original, k), StartOf(original, k + 1))
      BY <2>4, <3>1 DEF AreCuts, S
    <3> QED
      BY <3>2, SpelledJoins
  <2>7. /\ Spelled(original, from, k) \in Seq(C) /\ Spelled(original, k, k + 1) \in Seq(C) /\ rest \in Seq(C)
    BY <1>3, <1>4, <2>1
  <2> DEFINE x == Spelled(original, from, k)
             y == Spelled(original, k, k + 1)
  <2>c. x \in Seq(C) /\ y \in Seq(C) /\ rest \in Seq(C)
    BY <2>7
  <2> HIDE DEF rest, x, y
  <2>8. (x \o y) \o rest = x \o (y \o rest)
    <3>1. AreSeqs(C, x, y, rest)
      BY <2>c DEF AreSeqs
    <3> QED
      BY ONLY <3>1, SeqsAssociate
  <2> QED
    BY <1>6, <2>3, <2>5, <2>6, <2>8 DEF x, y, rest
<1>n. ASSUME NEW n \in Nat, n \in P PROVE n + 1 \in P
  <2> DEFINE k == from + n
  <2>0. from + (n + 1) = k + 1 /\ n + 1 \in Nat /\ k \in Nat /\ from <= k
    BY <1>a
  <2> SUFFICES ASSUME from + (n + 1) <= to
               PROVE  /\ f[N + 1 - from] = Spelled(original, from, from + (n + 1)) \o f[N + 1 - (from + (n + 1))]
                      /\ S(from) <= S(from + (n + 1))
    BY <2>0
  <2>1. k \in Nat /\ from <= k /\ k <= to /\ k + 1 <= to
    BY <1>a, <2>0
  <2>2. f[N + 1 - from] = Spelled(original, from, k) \o f[N + 1 - k] /\ S(from) <= S(k)
    BY <1>n, <2>1
  <2> HIDE DEF k
  <2>3. /\ f[N + 1 - from] = Spelled(original, from, k + 1) \o f[N + 1 - (k + 1)]
        /\ S(from) <= S(k + 1)
    BY <1>6, <2>1, <2>2
  <2> QED
    BY <2>0, <2>3, Zenon
<1> HIDE DEF P
<1>7. Nat \subseteq P
  BY <1>5, <1>n, NumbersFromZero, Zenon
<1>8. to - from \in P /\ from + (to - from) = to
  BY <1>1, <1>7
<1> QED
  BY <1>1, <1>8 DEF P, f, S, Copies

LEMMA NormalizedIs ==
    ASSUME NEW original, Len(original) \in Nat
    PROVE  /\ Len(normalize_newlines(original)) \in Nat
           /\ DOMAIN normalize_newlines(original) = 1..Len(normalize_newlines(original))
<1> DEFINE s == UnitStarts(original)
<1>1. s \in Seq(Nat)
  BY StartsInOrder
<1> HIDE DEF s
<1>2. DOMAIN normalize_newlines(original) = DOMAIN s /\ DOMAIN s = 1..Len(s) /\ Len(s) \in Nat
  BY <1>1 DEF normalize_newlines, s
<1> QED
  BY <1>2

(* One match: where it is in the original, and what it leaves to replace.  *)
AllCopied(original, old, new, next) ==
    LET N == Len(normalize_newlines(original))
    IN  /\ LastReplaced(original, old, new)[N + 1 - next] = Spelled(original, next, N + 1)
        /\ StartOf(original, N + 1) = Len(original) + 1
OneReplaced(original, old, new, next, start) ==
    LET N == Len(normalize_newlines(original))
        f == LastReplaced(original, old, new)
    IN  /\ start \in 1..N /\ next <= start /\ start + Len(old) \in 1..(N + 1)
        /\ Advanced(original, StartOf(original, next), start - next) = StartOf(original, start)
        /\ Advanced(original, StartOf(original, start), Len(old)) = StartOf(original, start + Len(old))
        /\ f[N + 1 - next] = Spelled(original, next, start)
                                \o (ReplacementAt(original, old, new, start) \o f[N + 1 - (start + Len(old))])

LEMMA MatchIsFound ==
    ASSUME NEW C, NEW original, NEW old, NEW new, NEW next, NEW start,
           Texts(C, original, old, new), Between(original, next, next),
           start = Find(normalize_newlines(original), old, next)
    PROVE  /\ start = 0 => AllCopied(original, old, new, next)
           /\ start # 0 => OneReplaced(original, old, new, next, start)
<1> PICK N : N = Len(normalize_newlines(original))
  OBVIOUS
<1> next \in 1..(N + 1)
  BY DEF Between
<1> DEFINE text == normalize_newlines(original)
           f == LastReplaced(original, old, new)
<1>0. /\ Len(original) \in Nat /\ Len(old) \in Nat \ {0} /\ original \in Seq(C) /\ old \in Seq(C) /\ old # <<>>
      /\ new \in Seq(C) /\ "CR" \in C /\ "LF" \in C
  BY DEF Texts
<1>1. N \in Nat /\ Len(text) = N /\ DOMAIN text = 1..N
  BY <1>0, NormalizedIs
<1>2. \A n \in 0..N : f[n] = Replaces(f, original, old, new, n)
  BY <1>0, LastReplacedIs
<1>3. \A n \in 0..N : f[n] \in Seq(C)
  BY <1>0, LastReplacedTyped
<1>4. next \in Nat /\ 1 <= next /\ next <= N + 1
  BY <1>1
<1>5. /\ start = 0 => \A j \in 1..N : j >= next => ~MatchAt(text, old, j)
      /\ start # 0 => /\ start \in 1..N /\ start >= next /\ MatchAt(text, old, start)
                      /\ \A j \in 1..N : j >= next /\ j < start => ~MatchAt(text, old, j)
  BY <1>1, <1>4, FoundIs
<1>6. \A to \in 1..(N + 1) : next <= to /\ NoMatchIn(original, old, next, to)
        => f[N + 1 - next] = Spelled(original, next, to) \o f[N + 1 - to]
  <2> SUFFICES ASSUME NEW to \in 1..(N + 1), next <= to, NoMatchIn(original, old, next, to)
               PROVE  f[N + 1 - next] = Spelled(original, next, to) \o f[N + 1 - to]
    OBVIOUS
  <2>1. Between(original, next, to)
    BY DEF Between
  <2>2. Copies(original, old, new, next, to)
    BY <2>1, CopiesUpTo, Zenon
  <2> QED
    BY <2>2, Zenon DEF Copies
<1> HIDE DEF f, text
<1>7. ASSUME start = 0
      PROVE  /\ f[N + 1 - next] = Spelled(original, next, N + 1)
             /\ StartOf(original, N + 1) = Len(original) + 1
  <2>1. N + 1 \in 1..(N + 1) /\ \A k \in next..((N + 1) - 1) : k \in 1..N /\ k >= next
    BY <1>1, <1>4
  <2>2. f[N + 1 - next] = Spelled(original, next, N + 1) \o f[N + 1 - (N + 1)]
    <3>1. NoMatchIn(original, old, next, N + 1)
      BY <1>5, <1>7, <2>1 DEF NoMatchIn, text
    <3> QED
      BY <1>4, <1>6, <2>1, <3>1
  <2>3. N + 1 - (N + 1) = 0 /\ 0 \in 0..N
    BY <1>1
  <2>4. f[0] = <<>>
    BY <1>2, <2>3 DEF Replaces
  <2>5. Spelled(original, next, N + 1) \in Seq(C)
    BY <1>0, <2>1, SpelledTyped
  <2>6. Spelled(original, next, N + 1) \o <<>> = Spelled(original, next, N + 1)
    BY <2>5, ConcatEmptySeq
  <2>7. StartOf(original, N + 1) = Len(original) + 1
    BY <1>0, StartsStep
  <2> QED
    BY <2>2, <2>3, <2>4, <2>6, <2>7
<1>8. ASSUME start # 0
      PROVE  /\ start \in 1..N /\ next <= start /\ start + Len(old) \in 1..(N + 1)
             /\ Advanced(original, StartOf(original, next), start - next) = StartOf(original, start)
             /\ Advanced(original, StartOf(original, start), Len(old)) = StartOf(original, start + Len(old))
             /\ f[N + 1 - next]
                  = Spelled(original, next, start)
                      \o (ReplacementAt(original, old, new, start) \o f[N + 1 - (start + Len(old))])
  <2>1. start \in 1..N /\ start >= next /\ MatchAt(text, old, start) /\ start \in Nat
    BY <1>1, <1>5, <1>8
  <2>2. start + Len(old) \in 1..(N + 1)
    BY <1>0, <1>1, <2>1 DEF MatchAt
  <2>3. Advanced(original, StartOf(original, next), start - next) = StartOf(original, start)
    <3>1. start - next \in Nat /\ next + (start - next) = start /\ start <= N + 1
      BY <1>1, <1>4, <2>1
    <3>2. next + (start - next) <= N + 1
      BY <3>1
    <3>3. Advanced(original, StartOf(original, next), start - next) = StartOf(original, next + (start - next))
      BY <1>0, <3>1, <3>2, AdvancedStarts
    <3> QED
      BY <3>1, <3>3
  <2>4. Advanced(original, StartOf(original, start), Len(old)) = StartOf(original, start + Len(old))
    <3>1. start \in 1..(N + 1) /\ start + Len(old) <= N + 1 /\ Len(old) \in Nat
      BY <1>0, <1>1, <2>1, <2>2
    <3> QED
      BY <1>0, <3>1, AdvancedStarts
  <2>5. f[N + 1 - next] = Spelled(original, next, start) \o f[N + 1 - start]
    <3>1. start \in 1..(N + 1) /\ next <= start
      BY <1>1, <2>1
    <3>2. \A k \in next..(start - 1) : k \in 1..N /\ k >= next /\ k < start
      BY <1>1, <1>4, <2>1
    <3>3. NoMatchIn(original, old, next, start)
      BY <1>5, <1>8, <3>2 DEF NoMatchIn, text
    <3> QED
      BY <1>6, <3>1, <3>3
  <2>6. f[N + 1 - start] = ReplacementAt(original, old, new, start) \o f[N + 1 - (start + Len(old))]
    <3>1. /\ N + 1 - start \in 0..N /\ N + 1 - start # 0 /\ N - (N + 1 - start) + 1 = start
          /\ (N + 1 - start) - Len(old) = N + 1 - (start + Len(old))
      BY <1>0, <1>1, <2>1
    <3>2. f[N + 1 - start] = Replaces(f, original, old, new, N + 1 - start)
      BY <1>2, <3>1
    <3> QED
      BY <1>1, <2>1, <3>1, <3>2 DEF Replaces, text
  <2> QED
    BY <2>1, <2>2, <2>3, <2>4, <2>5, <2>6
<1> QED
  BY <1>7, <1>8 DEF f, AllCopied, OneReplaced

-----------------------------------------------------------------------------
(* What is written and what is left to replace make up the whole.          *)
Reached(C, original, old, new, next, parts) ==
    LET N == Len(normalize_newlines(original))
        f == LastReplaced(original, old, new)
    IN  /\ Texts(C, original, old, new) /\ next \in 1..(N + 1) /\ parts \in Seq(C)
        /\ parts \o f[N + 1 - next] = f[N]
Written(original, old, new, next, parts, start) ==
    (parts \o Spelled(original, next, start)) \o ReplacementAt(original, old, new, start)

ReachedAfter(C, original, old, new, next, parts, start) ==
    /\ Reached(C, original, old, new, start + Len(old), Written(original, old, new, next, parts, start))
    /\ Advanced(original, StartOf(original, next), start - next) = StartOf(original, start)
    /\ Advanced(original, StartOf(original, start), Len(old)) = StartOf(original, start + Len(old))
    /\ start + Len(old) # 1
Ended(C, original, old, new, next, parts) ==
    LET whole == LastReplaced(original, old, new)[Len(normalize_newlines(original))]
    IN  parts \o SubSeq(original, StartOf(original, next), Len(original)) = whole /\ whole \in Seq(C)

AreFour(C, x, y, z, w) == AreSeqs(C, x, y, z) /\ w \in Seq(C)

LEMMA FourJoin ==
    ASSUME NEW C, NEW x, NEW y, NEW z, NEW w, AreFour(C, x, y, z, w)
    PROVE  ((x \o y) \o z) \o w = x \o (y \o (z \o w))
<1>1. x \o y \in Seq(C) /\ z \o w \in Seq(C)
  BY DEF AreSeqs, AreFour
<1>2. AreSeqs(C, x \o y, z, w)
  BY <1>1 DEF AreSeqs, AreFour
<1>3. ((x \o y) \o z) \o w = (x \o y) \o (z \o w)
  BY ONLY <1>2, SeqsAssociate
<1>5. AreSeqs(C, x, y, z \o w)
  BY <1>1 DEF AreSeqs, AreFour
<1>4. (x \o y) \o (z \o w) = x \o (y \o (z \o w))
  BY ONLY <1>5, SeqsAssociate
<1> QED
  BY ONLY <1>3, <1>4

LEMMA ReachedNext ==
    ASSUME NEW C, NEW original, NEW old, NEW new, NEW next, NEW parts, NEW start,
           Reached(C, original, old, new, next, parts),
           start # 0, Find(normalize_newlines(original), old, next) = start
    PROVE  ReachedAfter(C, original, old, new, next, parts, start)
<1> DEFINE N == Len(normalize_newlines(original))
           f == LastReplaced(original, old, new)
           s == Spelled(original, next, start)
           r == ReplacementAt(original, old, new, start)
           t == f[N + 1 - (start + Len(old))]
<1>1. /\ Texts(C, original, old, new) /\ next \in 1..(N + 1) /\ parts \in Seq(C)
      /\ parts \o f[N + 1 - next] = f[N]
  BY Zenon DEF Reached
<1>n. N \in Nat
  <2>1. Len(original) \in Nat
    BY <1>1 DEF Texts
  <2> QED
    BY <2>1, NormalizedIs
<1>2. /\ start \in 1..N /\ next <= start /\ start + Len(old) \in 1..(N + 1)
      /\ Advanced(original, StartOf(original, next), start - next) = StartOf(original, start)
      /\ Advanced(original, StartOf(original, start), Len(old)) = StartOf(original, start + Len(old))
      /\ f[N + 1 - next] = s \o (r \o t)
  <2>1. Between(original, next, next)
    BY <1>1, <1>n DEF Between
  <2>2. OneReplaced(original, old, new, next, start)
    BY <1>1, <2>1, MatchIsFound, Zenon
  <2> QED
    BY <2>2, Zenon DEF OneReplaced
<1>3. /\ original \in Seq(C) /\ old \in Seq(C) /\ old # <<>> /\ new \in Seq(C) /\ "CR" \in C /\ "LF" \in C
  BY <1>1, Zenon DEF Texts
<1>4. Len(original) \in Nat /\ Len(old) \in Nat \ {0}
  BY <1>3
<1>5. N \in Nat
  BY <1>4, NormalizedIs
<1>6. r \in Seq(C)
  BY <1>3, ReplacementTyped, Zenon
<1>7. s \in Seq(C)
  <2>1. next \in 1..(N + 1) /\ start \in 1..(N + 1)
    BY <1>1, <1>2, <1>5
  <2> QED
    BY <1>3, <1>4, <2>1, SpelledTyped
<1>8. t \in Seq(C)
  <2>1. N + 1 - (start + Len(old)) \in 0..N
    BY <1>2, <1>4, <1>5
  <2>2. \A n \in 0..N : f[n] \in Seq(C)
    BY <1>3, LastReplacedTyped
  <2> QED
    BY <2>1, <2>2, Zenon
<1> HIDE DEF s, r, t, f, N
<1>9. ((parts \o s) \o r) \o t = parts \o (s \o (r \o t))
  <2>1. AreFour(C, parts, s, r, t)
    BY <1>1, <1>6, <1>7, <1>8 DEF AreSeqs, AreFour
  <2> QED
    BY ONLY <2>1, FourJoin
<1>10. ((parts \o s) \o r) \o t = f[N]
  BY ONLY <1>1, <1>2, <1>9
<1>11. (parts \o s) \o r \in Seq(C)
  BY ONLY <1>1, <1>6, <1>7
<1>12. Written(original, old, new, next, parts, start) = (parts \o s) \o r
  BY Zenon DEF Written, s, r
<1>13. Reached(C, original, old, new, start + Len(old), Written(original, old, new, next, parts, start))
  BY <1>1, <1>2, <1>10, <1>11, <1>12, Zenon DEF Reached, t, f, N
<1>14. start + Len(old) # 1
  BY <1>2, <1>4, <1>5
<1> QED
  BY <1>2, <1>13, <1>14, Zenon DEF ReachedAfter

LEMMA ReachedEnd ==
    ASSUME NEW C, NEW original, NEW old, NEW new, NEW next, NEW parts,
           Reached(C, original, old, new, next, parts),
           Find(normalize_newlines(original), old, next) = 0
    PROVE  Ended(C, original, old, new, next, parts)
<1> DEFINE N == Len(normalize_newlines(original))
           f == LastReplaced(original, old, new)
<1>1. /\ Texts(C, original, old, new) /\ next \in 1..(N + 1) /\ parts \in Seq(C)
      /\ parts \o f[N + 1 - next] = f[N]
  BY Zenon DEF Reached
<1>n. N \in Nat
  <2>1. Len(original) \in Nat
    BY <1>1 DEF Texts
  <2> QED
    BY <2>1, NormalizedIs
<1>2. /\ f[N + 1 - next] = Spelled(original, next, N + 1)
      /\ StartOf(original, N + 1) = Len(original) + 1
  <2>1. Between(original, next, next)
    BY <1>1, <1>n DEF Between
  <2> QED
    BY <1>1, <2>1, MatchIsFound, Zenon DEF AllCopied, OneReplaced
<1>3. /\ original \in Seq(C) /\ old \in Seq(C) /\ old # <<>> /\ new \in Seq(C) /\ "CR" \in C /\ "LF" \in C
  BY <1>1, Zenon DEF Texts
<1>4. Len(original) \in Nat
  BY <1>3
<1>5. Spelled(original, next, N + 1) = SubSeq(original, StartOf(original, next), Len(original))
  <2>1. StartOf(original, N + 1) - 1 = Len(original)
    BY <1>2, <1>4
  <2> QED
    BY <2>1, Zenon DEF Spelled
<1>6. f[N] \in Seq(C)
  <2>1. N \in 0..N
    BY <1>4, NormalizedIs
  <2>2. \A n \in 0..N : f[n] \in Seq(C)
    BY <1>3, LastReplacedTyped
  <2> QED
    BY <2>1, <2>2, Zenon
<1> QED
  BY <1>1, <1>2, <1>5, <1>6, Zenon DEF Ended

-----------------------------------------------------------------------------
(* While an edit goes on, what it has written and what the reference makes *)
(* of the rest are the whole; its three positions name one place.          *)
EditFields == {"original", "old", "new", "all", "refusal", "next", "at", "copied", "normal", "parts", "done"}
EditFits(C) ==
    /\ Reached(C, edit.original, edit.old, edit.new, edit.next, edit.parts)
    /\ edit.at = StartOf(edit.original, edit.next) /\ edit.copied = edit.at /\ edit.normal = edit.next
    /\ edit.refusal = "none" /\ ~edit.all /\ edit.next # 1
         => Find(normalize_newlines(edit.original), edit.old, edit.next) = 0
EditInv ==
    /\ DOMAIN edit = EditFields
    /\ edit.refusal = Refusal(edit.original, edit.old, edit.new, edit.all)
    /\ ~edit.done => \E C : EditFits(C)
    /\ EditKeepsTheRest

LEMMA EditStarts ==
    ASSUME AnyEdit PROVE EditInv
<1>1. PICK L : \E original \in Seq(L), old \in Seq(L \ {"CR"}) \ {<<>>}, new \in Seq(L \ {"CR"}), all \in BOOLEAN :
                 edit = EditOf(original, old, new, all)
  BY DEF AnyEdit
<1>2. PICK original \in Seq(L), old \in Seq(L \ {"CR"}) \ {<<>>}, new \in Seq(L \ {"CR"}), all \in BOOLEAN :
         edit = EditOf(original, old, new, all)
  BY <1>1
<1> DEFINE C == L \cup {"CR", "LF"}
           N == Len(normalize_newlines(original))
           f == LastReplaced(original, old, new)
<1>3. /\ DOMAIN edit = EditFields /\ edit.original = original /\ edit.old = old /\ edit.new = new /\ edit.all = all
      /\ edit.refusal = Refusal(original, old, new, all) /\ edit.next = 1 /\ edit.at = 1 /\ edit.copied = 1
      /\ edit.normal = 1 /\ edit.parts = <<>> /\ edit.done = FALSE
  BY <1>2 DEF EditOf, EditFields
<1>4. Texts(C, original, old, new)
  BY <1>2 DEF Texts
<1>5. /\ original \in Seq(C) /\ old \in Seq(C) /\ old # <<>> /\ new \in Seq(C) /\ "CR" \in C /\ "LF" \in C
  BY <1>4, Zenon DEF Texts
<1>6. N \in Nat /\ StartOf(original, 1) = 1
  <2>1. Len(original) \in Nat
    BY <1>5
  <2> QED
    BY <2>1, StartsStep
<1>7. f[N] \in Seq(C)
  <2>1. N \in 0..N
    BY <1>6
  <2>2. \A n \in 0..N : f[n] \in Seq(C)
    BY <1>5, LastReplacedTyped
  <2> QED
    BY <2>1, <2>2, Zenon
<1>8. <<>> \o f[N] = f[N]
  BY <1>7, ConcatEmptySeq
<1>9. N + 1 - 1 = N /\ 1 \in 1..(N + 1)
  BY <1>6
<1>10. <<>> \in Seq(C)
  OBVIOUS
<1>11. Reached(C, original, old, new, 1, <<>>)
  BY <1>4, <1>8, <1>9, <1>10, Zenon DEF Reached
<1>12. EditFits(C)
  BY <1>3, <1>6, <1>11 DEF EditFits
<1> QED
  BY <1>3, <1>12, Zenon DEF EditInv, EditKeepsTheRest

LEMMA EditReplaces ==
    ASSUME EditInv, ReplaceMatch PROVE EditInv'
<1>0. PICK C : EditFits(C)
  BY Zenon DEF EditInv, ReplaceMatch
<1> DEFINE original == edit.original
           old == edit.old
           new == edit.new
           text == normalize_newlines(original)
           start == Find(text, old, edit.next)
           from == Advanced(original, edit.at, start - edit.normal)
           to == Advanced(original, from, Len(old))
           wrote == Written(original, old, new, edit.next, edit.parts, start)
<1>1. /\ Reached(C, original, old, new, edit.next, edit.parts)
      /\ edit.at = StartOf(original, edit.next) /\ edit.copied = edit.at /\ edit.normal = edit.next
  BY <1>0, Zenon DEF EditFits
<1>2. edit.refusal = "none" /\ ~edit.done /\ start # 0 /\ (edit.all \/ edit.next = 1)
  BY Zenon DEF ReplaceMatch, start
<1>r. Find(text, old, edit.next) = start
  OBVIOUS
<1> HIDE DEF start
<1>3. /\ Reached(C, original, old, new, start + Len(old), wrote)
      /\ Advanced(original, StartOf(original, edit.next), start - edit.next) = StartOf(original, start)
      /\ Advanced(original, StartOf(original, start), Len(old)) = StartOf(original, start + Len(old))
      /\ start + Len(old) # 1
  <2>1. ReachedAfter(C, original, old, new, edit.next, edit.parts, start)
    BY <1>1, <1>2, <1>r, ReachedNext, Zenon
  <2> QED
    BY <2>1, Zenon DEF ReachedAfter
<1>4. from = StartOf(original, start) /\ to = StartOf(original, start + Len(old))
  BY <1>1, <1>3, Zenon
<1>5. edit.parts \o SubSeq(original, edit.copied, from - 1)
        \o WithNewline(new, detect_newline(IF \E i \in DOMAIN old : old[i] = "LF"
                                            THEN SubSeq(original, from, to - 1) ELSE original))
        = wrote
  BY <1>1, <1>4, Zenon DEF Written, Spelled, ReplacementAt
<1>6. edit' = [edit EXCEPT !.parts = wrote, !.next = start + Len(old), !.at = to, !.copied = to,
                           !.normal = start + Len(old)]
  BY <1>5, Zenon DEF ReplaceMatch, start
<1> HIDE DEF to, wrote
<1>7. /\ DOMAIN edit' = EditFields /\ edit'.original = original /\ edit'.old = old /\ edit'.new = new
      /\ edit'.all = edit.all /\ edit'.refusal = edit.refusal /\ edit'.done = edit.done
      /\ edit'.next = start + Len(old) /\ edit'.normal = start + Len(old)
      /\ edit'.at = to /\ edit'.copied = to /\ edit'.parts = wrote
  BY <1>6 DEF EditInv, EditFields
<1>8. ~edit.all => Find(text, old, start + Len(old)) = 0
  <2> SUFFICES ASSUME ~edit.all PROVE Find(text, old, start + Len(old)) = 0
    OBVIOUS
  <2>1. start = Find(text, old, 1) /\ Refusal(original, old, new, edit.all) = "none"
    BY <1>2, Zenon DEF EditInv, start
  <2> QED
    BY <1>2, <2>1 DEF Refusal
<1>9. EditFits(C)'
  BY <1>3, <1>4, <1>7, <1>8 DEF EditFits
<1> QED
  BY <1>2, <1>7, <1>9, Zenon DEF EditInv, EditKeepsTheRest

LEMMA EditFinishes ==
    ASSUME EditInv, FinishEdit PROVE EditInv'
<1>0. PICK C : EditFits(C)
  BY Zenon DEF EditInv, FinishEdit
<1> DEFINE original == edit.original
           old == edit.old
           new == edit.new
           text == normalize_newlines(original)
           whole == LastReplaced(original, old, new)[Len(text)]
           tail == SubSeq(original, edit.copied, Len(original))
<1>1. /\ Reached(C, original, old, new, edit.next, edit.parts)
      /\ edit.copied = StartOf(original, edit.next)
  BY <1>0, Zenon DEF EditFits
<1>2. Find(text, old, edit.next) = 0
  BY <1>0, Zenon DEF EditFits, FinishEdit
<1>3. edit.parts \o tail = whole
  <2>1. edit.parts \o SubSeq(original, StartOf(original, edit.next), Len(original)) = whole
    <3>1. Ended(C, original, old, new, edit.next, edit.parts)
      BY <1>1, <1>2, ReachedEnd, Zenon
    <3> QED
      BY <3>1, Zenon DEF Ended
  <2> QED
    BY <1>1, <2>1, Zenon
<1>4. edit' = [edit EXCEPT !.done = TRUE, !.parts = whole]
  BY <1>3, Zenon DEF FinishEdit
<1> HIDE DEF whole
<1>5. /\ DOMAIN edit' = EditFields /\ edit'.original = original /\ edit'.old = old /\ edit'.new = new
      /\ edit'.all = edit.all /\ edit'.refusal = edit.refusal /\ edit'.done = TRUE /\ edit'.parts = whole
  BY <1>4 DEF EditInv, EditFields
<1> QED
  BY <1>5, Zenon DEF EditInv, EditKeepsTheRest, whole

(* For texts of any length and letters.                                    *)
THEOREM EditKeepsTheRestAlways == EditSpec => []EditKeepsTheRest
<1>1. AnyEdit => EditInv
  BY EditStarts
<1>2. EditInv /\ [EditNext]_edit => EditInv'
  <2> SUFFICES ASSUME EditInv, [EditNext]_edit PROVE EditInv'
    OBVIOUS
  <2>1. CASE ReplaceMatch
    BY <2>1, EditReplaces
  <2>2. CASE FinishEdit
    BY <2>2, EditFinishes
  <2>3. CASE UNCHANGED edit
    BY <2>3, Zenon DEF EditInv, EditKeepsTheRest, EditFits
  <2> QED
    BY <2>1, <2>2, <2>3 DEF EditNext
<1>3. EditInv => EditKeepsTheRest
  BY DEF EditInv
<1> QED
  BY <1>1, <1>2, <1>3, PTL DEF EditSpec

LEMMA EditsAreSome == ASSUME EditInit PROVE AnyEdit
<1> DEFINE L == {"a", "b", "CR", "LF"}
<1>1. /\ TextsUpTo({"a", "CR", "LF"}, MaxOriginal) \subseteq Seq(L)
      /\ TextsUpTo({"a", "LF"}, MaxOld) \subseteq Seq(L \ {"CR"})
      /\ TextsUpTo({"a", "b", "LF"}, MaxNew) \subseteq Seq(L \ {"CR"})
  <2>1. ASSUME NEW S, NEW T, S \subseteq T, NEW n \in Nat PROVE TextsUpTo(S, n) \subseteq Seq(T)
    <3> SUFFICES ASSUME NEW k \in 0..n, NEW t \in [1..k -> S] PROVE t \in Seq(T)
      BY DEF TextsUpTo
    <3>1. k \in Nat /\ t \in [1..k -> T]
      BY <2>1
    <3> QED
      BY <3>1
  <2>2. {"a", "CR", "LF"} \subseteq L /\ {"a", "LF"} \subseteq L \ {"CR"} /\ {"a", "b", "LF"} \subseteq L \ {"CR"}
    OBVIOUS
  <2> HIDE DEF L
  <2> QED
    BY <2>1, <2>2, TextBounds
<1>2. PICK original \in TextsUpTo({"a", "CR", "LF"}, MaxOriginal), old \in TextsUpTo({"a", "LF"}, MaxOld) \ {<<>>},
           new \in TextsUpTo({"a", "b", "LF"}, MaxNew), all \in BOOLEAN : edit = EditOf(original, old, new, all)
  BY Zenon DEF EditInit
<1>3. original \in Seq(L) /\ old \in Seq(L \ {"CR"}) \ {<<>>} /\ new \in Seq(L \ {"CR"})
  BY <1>1, <1>2
<1> HIDE DEF L
<1> QED
  BY <1>2, <1>3, Zenon DEF AnyEdit
=============================================================================
