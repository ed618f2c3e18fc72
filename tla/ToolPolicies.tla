-------------------------------- MODULE ToolPolicies --------------------------------
(***************************************************************************)
(* The toolkit's policies around one tool: RetryingTool and                *)
(* CircuitBreakingTool, either outside the other, under concurrent calls.  *)
(* Calls may come from several threads: the clock is read before the lock  *)
(* is taken.                                                               *)
(***************************************************************************)
EXTENDS Integers

CONSTANTS Callers,          \* calls of the tool
          ToolAttempts,     \* max_attempts
          FailureThreshold, \* failure_threshold
          RecoveryTimeout,  \* recovery_timeout_seconds
          Delays,           \* what the jittered backoff may come to
          MaxToolClock      \* bound on the clock

ASSUME ThresholdAssumption == FailureThreshold \in Nat \ {0}
ASSUME DelaysAssumption == Delays \subseteq Nat

VARIABLES outer,   \* the policy that wraps the other
          circuit, \* the breaker's fields; openedAt is empty while it is closed
          caller,  \* the calls
          now      \* monotonic()

policyVars == <<outer, circuit, caller, now>>

(* A result may be a ToolFailure; it is a result for both policies.  What  *)
(* CancelledError and other BaseExceptions do is the same: "cancelled".    *)
ToolOutcomes == {"result", "retryable", "fatal", "cancelled"}

ClosedCircuit == [failures |-> 0, openedAt |-> {}, probing |-> FALSE]
NewCaller == [phase |-> "idle", attempt |-> 1, admitted |-> "no", seen |-> 0, outcome |-> "none", requested |-> FALSE]

PoliciesInit ==
    /\ outer \in {"retry", "circuit"}
    /\ circuit = ClosedCircuit
    /\ caller = [c \in Callers |-> NewCaller]
    /\ now = 0

Stay == UNCHANGED <<outer, now>>
Become(c, record) == caller' = [caller EXCEPT ![c] = record]

-----------------------------------------------------------------------------
(* The way out of a call, through one policy and then the other.           *)
Left(outcome) == [NewCaller EXCEPT !.phase = "left", !.outcome = outcome]

(* The breaker's handlers; a failure has the clock read before the lock.   *)
KeptProbe(k) == circuit \* mutation: a cancelled probe is not released
ReleaseCancelledProbe(k) == IF k.admitted = "probe" THEN [circuit EXCEPT !.probing = FALSE] ELSE circuit

OutOfCircuit(outcome) == outcome \notin {"retryable", "fatal", "exhausted"}
CircuitAfter(k, outcome) ==
    CASE outcome = "result" -> ClosedCircuit
      [] outcome = "cancelled" -> ReleaseCancelledProbe(k)
      [] OTHER -> circuit
Failing(k, outcome) == [k EXCEPT !.phase = "record", !.seen = now, !.outcome = outcome]

(* The retry loop's handlers.                                              *)
Sleeping(k, delay) == [k EXCEPT !.phase = "sleep", !.seen = now + delay, !.admitted =
                                    IF outer = "retry" THEN "no" ELSE @]
Final(outcome) == IF outcome = "retryable" THEN "exhausted" ELSE outcome
Again(k, outcome) == outcome = "retryable" /\ k.attempt < ToolAttempts

LeaveRetry(c, outcome) ==
    LET k == caller[c] IN
    IF outer = "retry" THEN Become(c, Left(outcome)) /\ UNCHANGED circuit
    ELSE /\ circuit' = CircuitAfter(k, outcome)
         /\ Become(c, IF OutOfCircuit(outcome) THEN Left(outcome) ELSE Failing(k, outcome))

AttemptEnds(c, outcome) ==
    IF Again(caller[c], outcome)
    THEN (\E d \in Delays : Become(c, Sleeping(caller[c], d))) /\ UNCHANGED circuit
    ELSE LeaveRetry(c, Final(outcome))

LeaveCircuit(c, outcome) ==
    IF outer = "circuit" THEN Become(c, Left(outcome))
    ELSE IF Again(caller[c], outcome) THEN \E d \in Delays : Become(c, Sleeping(caller[c], d))
    ELSE Become(c, Left(Final(outcome)))

-----------------------------------------------------------------------------
InvokeTool(c) ==
    /\ caller[c].phase = "idle"
    /\ Become(c, [caller[c] EXCEPT !.phase = IF outer = "retry" THEN "attempt" ELSE "admit", !.seen = now])
    /\ UNCHANGED circuit /\ Stay

(* One round of the retry loop begins.                                     *)
BeginAttempt(c) ==
    /\ caller[c].phase = "attempt"
    /\ \/ caller[c].requested /\ LeaveRetry(c, "result")
       \/ /\ ~caller[c].requested /\ UNCHANGED circuit
          /\ Become(c, [caller[c] EXCEPT !.phase = IF outer = "retry" THEN "admit" ELSE "work", !.seen = now])
    /\ Stay

(* _admit.                                                                 *)
Admit(c) ==
    /\ caller[c].phase = "admit"
    /\ LET closed == circuit.openedAt = {}
           refused == ~closed /\ (circuit.probing \/ \E t \in circuit.openedAt : caller[c].seen - t < RecoveryTimeout)
       IN  /\ circuit' = [circuit EXCEPT !.probing = @ \/ (~closed /\ ~refused)]
           /\ Become(c, IF refused THEN Left("circuit_open")
                        ELSE [caller[c] EXCEPT !.phase = IF outer = "retry" THEN "work" ELSE "attempt",
                                               !.admitted = IF closed THEN "plain" ELSE "probe"])
    /\ Stay

(* The tool answers, raises or is cancelled.                               *)
ToolEnds(c) ==
    /\ caller[c].phase = "work"
    /\ \E outcome \in ToolOutcomes :
           IF outer = "circuit" THEN AttemptEnds(c, outcome)
           ELSE /\ circuit' = CircuitAfter(caller[c], outcome)
                /\ IF OutOfCircuit(outcome) THEN LeaveCircuit(c, outcome)
                   ELSE Become(c, Failing(caller[c], outcome))
    /\ Stay

(* The attempt's timeout cancels what is inside the retry loop, a breaker  *)
(* too, and becomes a TimeoutError outside it, which is retryable.         *)
AttemptTimesOut(c) ==
    /\ caller[c].phase = "work"
    /\ IF outer = "circuit" THEN AttemptEnds(c, "retryable")
       ELSE circuit' = ReleaseCancelledProbe(caller[c]) /\ LeaveCircuit(c, "retryable")
    /\ Stay

(* _record_failure takes the lock.                                         *)
RecordFailure(c) ==
    /\ caller[c].phase = "record"
    /\ LET k == caller[c]
           failures == IF k.admitted = "probe" THEN FailureThreshold ELSE circuit.failures + 1
       IN  circuit' = [failures |-> failures,
                       openedAt |-> IF failures >= FailureThreshold THEN {k.seen} ELSE circuit.openedAt,
                       probing |-> circuit.probing /\ k.admitted # "probe"]
    /\ LeaveCircuit(c, caller[c].outcome) /\ Stay

(* _cooperative_sleep.                                                     *)
WakeUp(c) ==
    /\ caller[c].phase = "sleep"
    /\ \/ caller[c].requested /\ LeaveRetry(c, "result")
       \/ /\ ~caller[c].requested /\ now >= caller[c].seen /\ UNCHANGED circuit
          /\ Become(c, [caller[c] EXCEPT !.phase = "attempt", !.attempt = @ + 1])
    /\ Stay

CancelSleep(c) == caller[c].phase = "sleep" /\ LeaveRetry(c, "cancelled") /\ Stay

AskToStop(c) ==
    /\ caller[c].phase # "left" /\ ~caller[c].requested
    /\ Become(c, [caller[c] EXCEPT !.requested = TRUE]) /\ UNCHANGED circuit /\ Stay

PolicyTick == now < MaxToolClock /\ now' = now + 1 /\ UNCHANGED <<outer, circuit, caller>>

PoliciesNext ==
    \/ \E c \in Callers : \/ InvokeTool(c) \/ BeginAttempt(c) \/ Admit(c) \/ ToolEnds(c) \/ AttemptTimesOut(c)
                          \/ RecordFailure(c) \/ WakeUp(c) \/ CancelSleep(c) \/ AskToStop(c)
    \/ PolicyTick

PoliciesSpec == PoliciesInit /\ [][PoliciesNext]_policyVars

-----------------------------------------------------------------------------
(* A circuit always recovers: it counts a probe in flight only while an    *)
(* admitted probe has not come back, so that after the timeout an open     *)
(* circuit admits a call or has one out; and it is open exactly when the   *)
(* failures since the last success reach the threshold, so that a success  *)
(* closes it for a full run of failures (decorators.py).                   *)
CircuitRecovers ==
    /\ circuit.probing => \E c \in Callers : caller[c].admitted = "probe"
    /\ circuit.openedAt # {} <=> circuit.failures >= FailureThreshold
=============================================================================
