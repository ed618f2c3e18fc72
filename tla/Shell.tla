---------------------------------- MODULE Shell ----------------------------------
(***************************************************************************)
(* One Bash command: the coroutine that spawns it, waits, stops its        *)
(* process group and drains its pipes, a cleanup task it shields from      *)
(* cancellation, and the processes themselves, which fork, write, ignore   *)
(* SIGTERM, leave the group or exit when they like.                        *)
(***************************************************************************)
EXTENDS Integers, Sequences

CONSTANTS OutputLimit,  \* max_stdout_bytes
          MaxOutput,    \* bound on the bytes the processes write
          MaxTaskCancels \* bound on the cancellations of the task

VARIABLES bash,    \* the coroutine and the finish() it runs, itself or in the cleanup task
          process, \* the root and one descendant
          pipe     \* standard output: bytes written, and what BoundedOutput keeps of them

shellVars == <<bash, process, pipe>>

ASSUME ShellAssumption == OutputLimit \in Nat \ {0} /\ MaxOutput \in Nat /\ MaxTaskCancels \in Nat

Absent == [alive |-> FALSE, deaf |-> FALSE, grouped |-> FALSE]
Alive(deaf, grouped) == [alive |-> TRUE, deaf |-> deaf, grouped |-> grouped]

(* How a tree is stopped: a POSIX group, or on Windows a job object that   *)
(* owns what is forked after it is attached or, without one, taskkill.     *)
Trees == {"group", "job", "taskkill"}

ShellInit ==
    /\ \E tree \in Trees :
           bash = [pc |-> "start", tree |-> tree, spawn |-> "no", asked |-> FALSE, cancels |-> 0,
                   reason |-> "none", step |-> "off", force |-> FALSE, reaped |-> FALSE,
                   closed |-> FALSE, incomplete |-> FALSE, after |-> "none", answer |-> "none"]
    /\ process = [root |-> Absent, child |-> Absent]
    /\ pipe = [written |-> 0, read |-> 0, head |-> <<>>, tail |-> <<>>]

Members == {p \in {"root", "child"} : process[p].alive /\ process[p].grouped}
GroupExists == Members # {} \/ (bash.spawn = "ok" /\ ~bash.reaped) \* a zombie is a member still
AtEof == (\A p \in {"root", "child"} : ~process[p].alive) /\ pipe.read = pipe.written
Kill(victims) == process' = [p \in {"root", "child"} |->
                                IF p \in victims THEN [process[p] EXCEPT !.alive = FALSE] ELSE process[p]]

-----------------------------------------------------------------------------
(* The processes, and the host.  What runs on after the answer is not      *)
(* followed further.                                                       *)
Fork ==
    /\ bash.pc # "answered" /\ process.root.alive /\ process.child = Absent
    /\ \E deaf \in BOOLEAN :
           process' = [process EXCEPT !.child =
               Alive(deaf, ~(bash.tree = "job" /\ bash.pc \in {"spawning", "orphan"}))]
    /\ UNCHANGED <<bash, pipe>>

LeaveGroup == \* setsid; a process does not leave a job
    /\ bash.pc # "answered" /\ bash.tree # "job" /\ process.child.alive /\ process.child.grouped
    /\ process' = [process EXCEPT !.child.grouped = FALSE]
    /\ UNCHANGED <<bash, pipe>>

Exit(p) ==
    /\ bash.pc # "answered" /\ process[p].alive
    /\ Kill({p})
    /\ UNCHANGED <<bash, pipe>>

WriteByte ==
    /\ \E p \in {"root", "child"} : process[p].alive
    /\ bash.pc # "answered" /\ ~bash.closed /\ pipe.written < MaxOutput
    /\ pipe' = [pipe EXCEPT !.written = @ + 1]
    /\ UNCHANGED <<bash, process>>

AskToCancel == \* context.cancel_requested
    /\ bash.pc # "answered" /\ ~bash.asked
    /\ bash' = [bash EXCEPT !.asked = TRUE]
    /\ UNCHANGED <<process, pipe>>

Reap == \* process.wait() returns
    /\ bash.pc # "answered" /\ bash.spawn = "ok" /\ ~process.root.alive /\ ~bash.reaped
    /\ bash' = [bash EXCEPT !.reaped = TRUE]
    /\ UNCHANGED <<process, pipe>>

-----------------------------------------------------------------------------
(* drain_stream and BoundedOutput.                                         *)
HeadLimit == (OutputLimit + 1) \div 2
LastOf(s, n) == IF Len(s) <= n THEN s ELSE SubSeq(s, Len(s) - n + 1, Len(s))
FirstTail(s, n) == IF Len(s) <= n THEN s ELSE SubSeq(s, 1, n) \* mutation: the tail keeps its first bytes

StaleTail(tail, chunk) == FirstTail(tail \o chunk, OutputLimit - HeadLimit)
RetainedTail(tail, chunk) == LastOf(tail \o chunk, OutputLimit - HeadLimit)

DrainChunk ==
    /\ bash.pc # "answered" /\ ~bash.closed
    /\ \E n \in 1..(pipe.written - pipe.read) :
           LET chunk == [i \in 1..n |-> pipe.read + i]
               room == HeadLimit - Len(pipe.head)
               took == IF room < n THEN room ELSE n
           IN  pipe' = [pipe EXCEPT !.read = @ + n, !.head = @ \o SubSeq(chunk, 1, took),
                                    !.tail = RetainedTail(@, SubSeq(chunk, took + 1, n))]
    /\ UNCHANGED <<bash, process>>

Captured == [bytes |-> pipe.read, text |-> pipe.head \o pipe.tail,
             truncated |-> pipe.read > OutputLimit \/ bash.incomplete]

-----------------------------------------------------------------------------
(* The coroutine.                                                          *)
Replied(b, answer) == [b EXCEPT !.pc = "answered", !.answer = answer]
Finishing(b, pc, force) == [b EXCEPT !.pc = pc, !.step = "signal", !.force = force]

StartBash ==
    /\ bash.pc = "start"
    /\ bash' = IF bash.asked THEN Replied(bash, "cancelled")
               ELSE [bash EXCEPT !.pc = "spawning", !.spawn = "pending"]
    /\ UNCHANGED <<process, pipe>>

SpawnEnds == \* the spawn task, whether or not the coroutine still waits for it
    /\ bash.spawn = "pending"
    /\ \/ bash' = [bash EXCEPT !.spawn = "failed"] /\ UNCHANGED process
       \/ /\ bash' = [bash EXCEPT !.spawn = "ok"]
          /\ \E deaf \in BOOLEAN : process' = [process EXCEPT !.root = Alive(deaf, TRUE)]
    /\ UNCHANGED pipe

Spawned ==
    /\ bash.pc = "spawning" /\ bash.spawn # "pending"
    /\ bash' = IF bash.spawn = "failed" THEN Replied(bash, "spawn_failed") ELSE [bash EXCEPT !.pc = "waiting"]
    /\ UNCHANGED <<process, pipe>>

OrphanSpawned == \* cancelled while spawning: the process is owned all the same
    /\ bash.pc = "orphan" /\ bash.spawn # "pending"
    /\ bash' = IF bash.spawn = "failed" THEN Replied(bash, "raised")
               ELSE [Finishing(bash, "settling", TRUE) EXCEPT !.after = "raised"]
    /\ UNCHANGED <<process, pipe>>

WaitReason ==
    /\ bash.pc = "waiting"
    /\ bash' = [Finishing(bash, "finishing", FALSE) EXCEPT !.reason =
                   IF bash.asked THEN "cancelled" ELSE IF bash.reaped THEN "exit" ELSE "timeout"]
    /\ UNCHANGED <<process, pipe>>

(* A cancellation starts the cleanup; later ones do not reach it.          *)
YieldsToCancellation(pc) == pc = "orphan" \* mutation: a second cancellation leaves the cleanup behind
ResistsCancellation(pc) == pc \in {"orphan", "settling"}

CancelBash ==
    /\ bash.pc \notin {"start", "answered"} /\ bash.cancels < MaxTaskCancels
    /\ LET b == [bash EXCEPT !.cancels = @ + 1] IN
       bash' = IF ResistsCancellation(bash.pc) THEN b
               ELSE CASE bash.pc = "spawning" -> [b EXCEPT !.pc = "orphan"]
                      [] bash.pc \in {"waiting", "finishing"} ->
                             [Finishing(b, "settling", TRUE) EXCEPT !.after = "raised"]
                      [] OTHER -> [Replied(b, "raised") EXCEPT !.step = "off"]
    /\ UNCHANGED <<process, pipe>>

-----------------------------------------------------------------------------
(* finish(): _terminate_tree, then _settle_pipes.                          *)
Running(step) == bash.pc \in {"finishing", "settling"} /\ bash.step = step
ToStep(step) == bash' = [bash EXCEPT !.step = step]

(* taskkill finds the root's descendants while the root lives.             *)
InTree == IF bash.tree # "taskkill" THEN Members
          ELSE IF bash.reaped THEN {} ELSE {"root", "child"}
Stoppable == IF bash.tree = "group" THEN GroupExists ELSE ~bash.reaped

WindowsFails == \* taskkill, or TerminateJobObject
    bash.tree # "group" /\ ToStep("failed") /\ UNCHANGED process

SignalTree ==
    /\ Running("signal")
    /\ IF bash.force \/ ~Stoppable
       THEN (Kill(InTree) /\ ToStep("drain")) \/ WindowsFails
       ELSE Kill({p \in InTree : ~process[p].deaf}) /\ ToStep("grace")
    /\ UNCHANGED pipe

GraceEnds == \* when the group is gone, or the time is up
    /\ Running("grace")
    /\ (Kill(InTree) /\ ToStep("drain")) \/ WindowsFails
    /\ UNCHANGED pipe

Drained ==
    /\ Running("drain")
    /\ bash.reaped /\ (AtEof \/ bash.closed)
    /\ ToStep("done")
    /\ UNCHANGED <<process, pipe>>

(* The drain window is over: closing the transport kills a live root.      *)
CloseTransport ==
    /\ Running("drain")
    /\ ~bash.reaped \/ ~(AtEof \/ bash.closed)
    /\ Kill({"root"})
    /\ bash' = [bash EXCEPT !.closed = TRUE, !.incomplete = ~bash.closed /\ ~AtEof,
                            !.step = IF bash.reaped THEN "done" ELSE "reap"]
    /\ UNCHANGED pipe

ReapRoot ==
    /\ Running("reap")
    /\ IF bash.reaped THEN ToStep("done") ELSE ToStep("failed")
    /\ UNCHANGED <<process, pipe>>

DrainFails == \* a pipe reports an error
    /\ Running("drain") /\ ~bash.closed
    /\ ToStep("failed")
    /\ UNCHANGED <<process, pipe>>

Finished == \* and a job is closed, which kills what it still holds
    /\ bash.pc \in {"finishing", "settling"} /\ bash.step \in {"done", "failed"}
    /\ Kill(IF bash.tree = "job" THEN Members ELSE {})
    /\ bash' = CASE bash.pc = "settling" -> Replied(bash, bash.after)
                 [] bash.pc = "finishing" /\ bash.step = "failed" ->
                        [Finishing(bash, "settling", TRUE) EXCEPT !.after = "execution_failed"]
                 [] OTHER -> Replied(bash, bash.reason)
    /\ UNCHANGED pipe

ShellNext ==
    \/ Fork \/ LeaveGroup \/ (\E p \in {"root", "child"} : Exit(p)) \/ WriteByte \/ AskToCancel \/ Reap
    \/ DrainChunk \/ StartBash \/ SpawnEnds \/ Spawned \/ OrphanSpawned \/ WaitReason \/ CancelBash
    \/ SignalTree \/ GraceEnds \/ Drained \/ CloseTransport \/ ReapRoot \/ DrainFails \/ Finished

ShellSpec == ShellInit /\ [][ShellNext]_shellVars

-----------------------------------------------------------------------------
(* Properties.                                                             *)

(* However a command ended and however often its task was cancelled while  *)
(* it was spawned, waited for or cleaned up, no process of its group (or   *)
(* its job) runs on once the tool has answered.                            *)
NothingLeftRunning ==
    (bash.pc = "answered" /\ bash.tree # "taskkill") =>
        /\ bash.spawn # "pending"
        /\ Members = {}

(* What the tool reports of the output is its first and its last bytes in  *)
(* order and their true number, and it is marked truncated whenever a      *)
(* byte the command wrote is not in it.                                    *)
CaptureIsHonest ==
    bash.answer \in {"exit", "timeout"} =>
        /\ Captured.bytes = pipe.read
        /\ Captured.text =
               (IF pipe.read <= OutputLimit THEN [i \in 1..pipe.read |-> i]
                ELSE [i \in 1..OutputLimit |-> IF i <= HeadLimit THEN i ELSE pipe.read - OutputLimit + i])
        /\ ~Captured.truncated => Len(Captured.text) = pipe.written
=============================================================================
