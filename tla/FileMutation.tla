------------------------------ MODULE FileMutation ------------------------------
(***************************************************************************)
(* Write and Edit on one path: worker threads of one process that hold the *)
(* path's lock, compare what they replace with what the model last read,   *)
(* and commit a temporary file with one rename or link, while coroutines   *)
(* may be cancelled and programs outside may change the file.              *)
(***************************************************************************)
EXTENDS Integers, FiniteSets

CONSTANTS Mutations,     \* tool calls
          OutsideWrites  \* bound on the changes made outside

VARIABLES file,    \* what the path names: kind, content, stamp (its identity) and author
          holder,  \* the mutation that holds the path's lock
          work,    \* the call, the thread and the coroutine of each mutation
          outside, \* changes made outside so far
          lost     \* mutations whose commit was replaced unseen

fileVars == <<file, holder, work, outside, lost>>

Nobody == "nobody"
Outsider == "outsider"
ASSUME FileAssumption == Mutations \cap {Nobody, Outsider} = {} /\ OutsideWrites \in Nat

NoFile == [kind |-> "missing", content |-> "", stamp |-> 0, author |-> Nobody]

(* A digest stands for its content.  Expecting "" asks for a new path.     *)
MutationCalls == [op : {"write"}, expected : {"", "base"}] \cup [op : {"edit"}, expected : {"base"}]

Worker(c) ==
    [op |-> c.op, expected |-> c.expected, pc |-> "encoding", seen |-> NoFile, stop |-> FALSE,
     waits |-> "result", cancels |-> 0, temporary |-> FALSE, committed |-> FALSE,
     ended |-> "running", outcome |-> "pending"]

FileInit ==
    /\ file \in {NoFile, [kind |-> "regular", content |-> "base", stamp |-> 1, author |-> Nobody]}
    /\ holder = Nobody /\ outside = 0 /\ lost = {}
    /\ \E calls \in [Mutations -> MutationCalls] : work = [m \in Mutations |-> Worker(calls[m])]

Goto(m, pc) == work' = [work EXCEPT ![m].pc = pc]
Leaving(m, ended) == \* an exception, or the result, runs through the finally blocks
    work' = [work EXCEPT ![m].pc = "leaving", ![m].ended = ended]

(* check_cancelled, before what comes next.                                *)
Go(m, pc) == IF work[m].stop THEN Leaving(m, "cancelled") ELSE Goto(m, pc)

-----------------------------------------------------------------------------
(* The worker thread.                                                      *)
EncodeFails(m) == \* too large, binary, a path outside the workspace
    /\ work[m].pc = "encoding"
    /\ Leaving(m, "failed")
    /\ UNCHANGED <<file, holder, outside, lost>>

OwnLock(m) == TRUE \* mutation: the lock is one per call, not one per path
LockFree(m) == holder = Nobody

AcquireLock(m) == \* with the content encoded
    /\ work[m].pc = "encoding"
    /\ \/ ~work[m].stop /\ LockFree(m) /\ holder' = m /\ Goto(m, "opening")
       \/ work[m].stop /\ Leaving(m, "cancelled") /\ UNCHANGED holder
    /\ UNCHANGED <<file, outside, lost>>

OpenParent(m) == \* pinned by descriptors; it may be missing or unsafe
    /\ work[m].pc = "opening"
    /\ \/ Go(m, IF work[m].op = "edit" THEN "reading" ELSE "verifying")
       \/ Leaving(m, "failed")
    /\ UNCHANGED <<file, holder, outside, lost>>

Readable == file.kind = "regular"
Matches(m) == Readable /\ file.content = work[m].expected

ReadSnapshot(m) == \* Edit reads, compares and replaces before it writes
    /\ work[m].pc = "reading"
    /\ IF work[m].stop THEN Leaving(m, "cancelled")
       ELSE IF ~Matches(m) THEN Leaving(m, "failed")
       ELSE \/ work' = [work EXCEPT ![m].pc = "verifying", ![m].seen = file]
            \/ Leaving(m, "failed") \* old_string is missing or not unique
    /\ UNCHANGED <<file, holder, outside, lost>>

(* _verify_precondition, before and after the temporary is written.        *)
Precondition(m) ==
    IF work[m].expected = "" THEN file.kind = "missing"
    ELSE Matches(m) /\ (work[m].seen # NoFile => work[m].seen.stamp = file.stamp)

VerifyFirst(m) ==
    /\ work[m].pc = "verifying"
    /\ CASE work[m].stop -> Leaving(m, "cancelled")
         [] ~work[m].stop /\ ~Precondition(m) -> Leaving(m, "failed")
         [] OTHER -> \/ work' = [work EXCEPT ![m].pc = "writing", ![m].seen = file, ![m].temporary = TRUE]
                     \/ work[m].expected # "" /\ Leaving(m, "unchanged") \* the same bytes are there
                     \/ Leaving(m, "failed") \* no temporary could be opened
    /\ UNCHANGED <<file, holder, outside, lost>>

WriteTemporary(m) ==
    /\ work[m].pc = "writing"
    /\ Go(m, "checking") \/ Leaving(m, "failed")
    /\ UNCHANGED <<file, holder, outside, lost>>

VerifyAgain(m) ==
    /\ work[m].pc = "checking"
    /\ CASE work[m].stop -> Leaving(m, "cancelled")
         [] ~work[m].stop /\ ~Precondition(m) -> Leaving(m, "failed")
         [] OTHER -> Goto(m, "committing") \/ Leaving(m, "failed")
    /\ UNCHANGED <<file, holder, outside, lost>>

(* Replacing is a rename that always succeeds; creating is a link that     *)
(* fails when the path exists by now.                                      *)
Commit(m) ==
    /\ work[m].pc = "committing"
    /\ IF work[m].expected = "" /\ file.kind # "missing"
       THEN Leaving(m, "failed") /\ UNCHANGED <<file, lost>>
       ELSE /\ file' = [kind |-> "regular", content |-> m, stamp |-> file.stamp + 1, author |-> m]
            /\ lost' = IF file.author \in Mutations /\ file # work[m].seen
                       THEN lost \cup {file.author} ELSE lost
            /\ work' = [work EXCEPT ![m].pc = "leaving", ![m].ended = "done", ![m].committed = TRUE,
                                    ![m].temporary = FALSE]
    /\ UNCHANGED <<holder, outside>>

Leave(m) == \* the temporary is removed, the parent closed, the lock released
    /\ work[m].pc = "leaving"
    /\ work' = [work EXCEPT ![m].pc = "ended", ![m].temporary = FALSE]
    /\ holder' = IF holder = m THEN Nobody ELSE holder
    /\ UNCHANGED <<file, outside, lost>>

-----------------------------------------------------------------------------
(* run_mutation, on the event loop.                                        *)
Reported(ended) ==
    CASE ended \in {"done", "unchanged"} -> "success" [] ended = "failed" -> "failure" [] OTHER -> "cancelled"

RequestStop(m) == \* context.cancel_requested
    /\ work[m].outcome = "pending" /\ ~work[m].stop
    /\ work' = [work EXCEPT ![m].stop = TRUE]
    /\ UNCHANGED <<file, holder, outside, lost>>

NotShielded(m) == FALSE \* mutation: a cancelled call returns while its worker runs
Shielded(m) == work[m].waits = "result"

(* The first cancellation waits for the worker; a second one reaches the   *)
(* wait itself and leaves the worker to run on.                            *)
CancelTask(m) ==
    /\ work[m].outcome = "pending" /\ work[m].cancels < 2
    /\ work' = IF ~Shielded(m)
               THEN [work EXCEPT ![m].cancels = @ + 1, ![m].outcome = "cancelled"]
               ELSE [work EXCEPT ![m].cancels = @ + 1, ![m].stop = TRUE, ![m].waits = "settled"]
    /\ UNCHANGED <<file, holder, outside, lost>>

Settle(m) == \* after a cancellation only a result still counts
    /\ work[m].pc = "ended" /\ work[m].outcome = "pending"
    /\ work' = [work EXCEPT ![m].outcome =
           IF work[m].waits = "settled" /\ Reported(work[m].ended) # "success" THEN "cancelled"
           ELSE Reported(work[m].ended)]
    /\ UNCHANGED <<file, holder, outside, lost>>

(* Another program changes, deletes or replaces the file.                  *)
OutsideWrite ==
    /\ outside < OutsideWrites
    /\ outside' = outside + 1
    /\ \E kind \in {"missing", "regular", "link"}, content \in {"base", "other"} :
           file' = [kind |-> kind, content |-> IF kind = "regular" THEN content ELSE "",
                    stamp |-> file.stamp + 1, author |-> Outsider]
    /\ UNCHANGED <<holder, work, lost>>

FileNext ==
    \/ OutsideWrite
    \/ \E m \in Mutations :
           \/ EncodeFails(m) \/ AcquireLock(m) \/ OpenParent(m) \/ ReadSnapshot(m) \/ VerifyFirst(m)
           \/ WriteTemporary(m) \/ VerifyAgain(m) \/ Commit(m) \/ Leave(m)
           \/ RequestStop(m) \/ CancelTask(m) \/ Settle(m)

FileSpec == FileInit /\ [][FileNext]_fileVars

-----------------------------------------------------------------------------
(* Properties.                                                             *)

(* A write this process committed is never replaced by another of its      *)
(* writes that had not read it, whatever outside programs do meanwhile.    *)
NoToolWriteLost == lost = {}

(* A mutation that reports a failure or a cancellation has not changed the *)
(* file, unless its task was cancelled a second time while the first       *)
(* cancellation was being settled; one that reports success and had to     *)
(* change it did; and a mutation whose thread ended leaves neither its     *)
(* lock nor its temporary behind.                                          *)
OutcomesTellTheTruth ==
    \A m \in Mutations :
        /\ (work[m].outcome \in {"failure", "cancelled"} /\ work[m].cancels <= 1) => ~work[m].committed
        /\ work[m].outcome = "success" => work[m].committed \/ work[m].ended = "unchanged"
        /\ work[m].pc = "ended" => holder # m /\ ~work[m].temporary
=============================================================================
