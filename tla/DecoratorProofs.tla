----------------------------- MODULE DecoratorProofs -----------------------------
(***************************************************************************)
(* The policies around a port.  RetryingTool and CircuitBreakingTool: a    *)
(* circuit breaker recovers, for any number of concurrent calls, either    *)
(* nesting of the two and any attempts, delays and timeouts.               *)
(* RetryingModel and FallbackModel: one attempt streams, a host's          *)
(* exception is final and attempts are timely, for any attempts, backoff,  *)
(* jitter, deadline and retry-after, and whatever the decoders do.         *)
(* iter_server_sent_events: the frames of a response are those of its      *)
(* whole body, whatever its bytes and however they are cut into chunks.    *)
(***************************************************************************)
EXTENDS ToolPolicies, ModelCall, SseReader, FiniteSetTheorems, SequenceTheorems, NaturalsInduction,
        WellFoundedInduction, TLAPS

(* A call is inside the breaker only where its frame is on the stack.      *)
Outside(k) == \/ k.phase \in {"idle", "admit", "left"}
              \/ outer = "retry" /\ k.phase \in {"attempt", "sleep"}

CallerType == [phase : {"idle", "attempt", "admit", "work", "record", "sleep", "left"}, attempt : Int,
               admitted : {"no", "plain", "probe"}, seen : Int,
               outcome : {"none", "result", "retryable", "fatal", "cancelled", "exhausted", "circuit_open"},
               requested : BOOLEAN]

PolicyTypes ==
    /\ outer \in {"retry", "circuit"} /\ now \in Int
    /\ circuit \in [failures : Int, openedAt : SUBSET Int, probing : BOOLEAN]
    /\ caller \in [Callers -> CallerType]

OutsideHoldsNothing == \A c \in Callers : Outside(caller[c]) => caller[c].admitted = "no"
FlagHasProbe == circuit.probing => \E c \in Callers : caller[c].admitted = "probe"
OpenAtThreshold == circuit.openedAt # {} <=> circuit.failures >= FailureThreshold

RecordsFailures == \A c \in Callers : caller[c].phase = "record" =>
                       caller[c].outcome \in {"retryable", "fatal", "exhausted"}

PolicyInv == PolicyTypes /\ OutsideHoldsNothing /\ RecordsFailures /\ FlagHasProbe /\ OpenAtThreshold

-----------------------------------------------------------------------------
(* What one step makes of call c (its new record k) and of the circuit     *)
(* (its new fields f): every step of a call is of this form.               *)
Fine(c, k, f) ==
    /\ k \in CallerType /\ (Outside(k) => k.admitted = "no")
    /\ (k.phase = "record" => k.outcome \in {"retryable", "fatal", "exhausted"})
    /\ f \in [failures : Int, openedAt : SUBSET Int, probing : BOOLEAN]
    /\ f.openedAt # {} <=> f.failures >= FailureThreshold
    /\ f.probing => k.admitted = "probe" \/ (circuit.probing /\ caller[c].admitted # "probe")

LEMMA FineStep ==
    ASSUME PolicyInv, NEW c \in Callers, NEW STATE k, NEW STATE f, Fine(c, k, f),
           Become(c, k), circuit' = f, Stay
    PROVE  PolicyInv'
<1>1. PolicyTypes'
  BY DEF PolicyInv, PolicyTypes, Fine, Become, Stay
<1>2. caller'[c] = k /\ \A d \in Callers \ {c} : caller'[d] = caller[d]
  BY DEF PolicyInv, PolicyTypes, Become
<1>3. OutsideHoldsNothing'
  BY <1>2 DEF PolicyInv, OutsideHoldsNothing, Outside, Fine, Stay
<1>4. FlagHasProbe'
  BY <1>2 DEF PolicyInv, FlagHasProbe, Fine
<1>5. OpenAtThreshold'
  BY DEF OpenAtThreshold, Fine
<1>6. RecordsFailures'
  BY <1>2 DEF PolicyInv, RecordsFailures, Fine
<1> QED
  BY <1>1, <1>3, <1>4, <1>5, <1>6 DEF PolicyInv

LEMMA LeftFine ==
    ASSUME NEW outcome \in {"result", "retryable", "fatal", "cancelled", "exhausted", "circuit_open"}
    PROVE  Left(outcome) \in CallerType /\ Left(outcome).admitted = "no" /\ Left(outcome).phase = "left"
<1>1. NewCaller \in CallerType /\ NewCaller.admitted = "no"
  BY DEF NewCaller, CallerType
<1> QED
  BY <1>1 DEF Left, CallerType

LEMMA SleepingFine ==
    ASSUME NEW STATE k, k \in CallerType, NEW d \in Delays, now \in Int
    PROVE  /\ Sleeping(k, d) \in CallerType
           /\ Sleeping(k, d).admitted = IF outer = "retry" THEN "no" ELSE k.admitted
           /\ Sleeping(k, d).phase = "sleep"
<1>1. now + d \in Int
  BY DelaysAssumption
<1>2. Sleeping(k, d) = [k EXCEPT !.phase = "sleep", !.seen = now + d,
                                 !.admitted = IF outer = "retry" THEN "no" ELSE k.admitted]
  BY DEF Sleeping, CallerType
<1>3. (IF outer = "retry" THEN "no" ELSE k.admitted) \in {"no", "plain", "probe"}
  BY DEF CallerType
<1> QED
  BY <1>1, <1>2, <1>3 DEF CallerType

(* The ways out of a call, which several actions share.                    *)
LEMMA LeaveRetryFine ==
    ASSUME PolicyInv, NEW c \in Callers, NEW outcome \in {"result", "fatal", "cancelled", "exhausted"},
           caller[c].phase \in {"attempt", "sleep", "work"},
           outer = "retry" => caller[c].phase # "work",
           LeaveRetry(c, outcome), Stay
    PROVE  PolicyInv'
<1>0. caller[c] \in CallerType
  BY DEF PolicyInv, PolicyTypes
<1>1. CASE outer = "retry"
  <2>1. Become(c, Left(outcome)) /\ circuit' = circuit
    BY <1>1 DEF LeaveRetry
  <2>2. caller[c].admitted = "no"
    BY <1>1 DEF PolicyInv, OutsideHoldsNothing, Outside
  <2>3. Fine(c, Left(outcome), circuit)
    BY <1>0, <2>2, LeftFine DEF Fine, PolicyInv, PolicyTypes, OpenAtThreshold
  <2> QED
    BY <2>1, <2>3, FineStep
<1>2. CASE outer = "circuit"
  <2>1. CASE outcome = "result"
    <3>1. Become(c, Left(outcome)) /\ circuit' = ClosedCircuit
      BY <1>2, <2>1 DEF LeaveRetry, CircuitAfter, OutOfCircuit
    <3>2. Fine(c, Left(outcome), ClosedCircuit)
      BY <1>0, LeftFine, ThresholdAssumption DEF Fine, ClosedCircuit
    <3> QED
      BY <3>1, <3>2, FineStep
  <2>2. CASE outcome = "cancelled"
    <3>1. Become(c, Left(outcome)) /\ circuit' = ReleaseCancelledProbe(caller[c])
      BY <1>2, <2>2 DEF LeaveRetry, CircuitAfter, OutOfCircuit
    <3>2. Fine(c, Left(outcome), ReleaseCancelledProbe(caller[c]))
      BY <1>0, LeftFine DEF Fine, ReleaseCancelledProbe, PolicyInv, PolicyTypes, OpenAtThreshold
    <3> QED
      BY <3>1, <3>2, FineStep
  <2>3. CASE outcome \in {"fatal", "exhausted"}
    <3>1. Become(c, Failing(caller[c], outcome)) /\ circuit' = circuit
      BY <1>2, <2>3 DEF LeaveRetry, CircuitAfter, OutOfCircuit
    <3>2. Fine(c, Failing(caller[c], outcome), circuit)
      BY <1>0, <2>3 DEF Fine, Failing, CallerType, Outside, PolicyInv, PolicyTypes, OpenAtThreshold
    <3> QED
      BY <3>1, <3>2, FineStep
  <2> QED
    BY <2>1, <2>2, <2>3
<1> QED
  BY <1>1, <1>2 DEF PolicyInv, PolicyTypes

LEMMA AttemptEndsFine ==
    ASSUME PolicyInv, NEW c \in Callers, NEW outcome \in ToolOutcomes,
           caller[c].phase = "work", outer = "circuit", AttemptEnds(c, outcome), Stay
    PROVE  PolicyInv'
<1>0. caller[c] \in CallerType
  BY DEF PolicyInv, PolicyTypes
<1>1. CASE Again(caller[c], outcome)
  <2>1. PICK d \in Delays : Become(c, Sleeping(caller[c], d)) /\ circuit' = circuit
    BY <1>1 DEF AttemptEnds
  <2>2. Fine(c, Sleeping(caller[c], d), circuit)
    BY <1>0, SleepingFine DEF Fine, Outside, PolicyInv, PolicyTypes, OpenAtThreshold
  <2> QED
    BY <2>1, <2>2, FineStep
<1>2. CASE ~Again(caller[c], outcome)
  <2>1. LeaveRetry(c, Final(outcome)) /\ Final(outcome) \in {"result", "fatal", "cancelled", "exhausted"}
    BY <1>2 DEF AttemptEnds, Final, ToolOutcomes
  <2> QED
    BY <2>1, LeaveRetryFine
<1> QED
  BY <1>1, <1>2

(* The fields the breaker leaves behind when a call comes out of it.       *)
LEMMA LeaveCircuitFine ==
    ASSUME PolicyInv, NEW c \in Callers,
           NEW outcome \in {"result", "retryable", "fatal", "cancelled", "exhausted"},
           NEW STATE f, f \in [failures : Int, openedAt : SUBSET Int, probing : BOOLEAN],
           f.openedAt # {} <=> f.failures >= FailureThreshold,
           f.probing => circuit.probing /\ caller[c].admitted # "probe",
           circuit' = f, LeaveCircuit(c, outcome), Stay
    PROVE  PolicyInv'
<1>0. caller[c] \in CallerType
  BY DEF PolicyInv, PolicyTypes
<1>1. CASE outer = "circuit"
  <2>1. Become(c, Left(outcome))
    BY <1>1 DEF LeaveCircuit
  <2>2. Fine(c, Left(outcome), f)
    BY <1>0, LeftFine DEF Fine
  <2> QED
    BY <2>1, <2>2, FineStep
<1>2. CASE outer = "retry" /\ Again(caller[c], outcome)
  <2>1. PICK d \in Delays : Become(c, Sleeping(caller[c], d))
    BY <1>2 DEF LeaveCircuit
  <2>2. Fine(c, Sleeping(caller[c], d), f)
    BY <1>0, <1>2, SleepingFine DEF Fine, Outside, PolicyInv, PolicyTypes
  <2> QED
    BY <2>1, <2>2, FineStep
<1>3. CASE outer = "retry" /\ ~Again(caller[c], outcome)
  <2>1. Become(c, Left(Final(outcome)))
    BY <1>3 DEF LeaveCircuit
  <2>2. Final(outcome) \in {"result", "fatal", "cancelled", "exhausted", "circuit_open"}
    BY DEF Final
  <2>3. Fine(c, Left(Final(outcome)), f)
    BY <1>0, <2>2, LeftFine DEF Fine
  <2> QED
    BY <2>1, <2>3, FineStep
<1> QED
  BY <1>1, <1>2, <1>3 DEF PolicyInv, PolicyTypes

LEMMA ReleaseFine ==
    ASSUME PolicyInv, NEW c \in Callers
    PROVE  LET f == ReleaseCancelledProbe(caller[c]) IN
           /\ f \in [failures : Int, openedAt : SUBSET Int, probing : BOOLEAN]
           /\ f.openedAt # {} <=> f.failures >= FailureThreshold
           /\ f.probing => circuit.probing /\ caller[c].admitted # "probe"
BY DEF ReleaseCancelledProbe, PolicyInv, PolicyTypes, OpenAtThreshold

-----------------------------------------------------------------------------
LEMMA PolicyStart == PoliciesInit => PolicyInv
BY ThresholdAssumption DEF PoliciesInit, PolicyInv, PolicyTypes, ClosedCircuit, NewCaller, CallerType,
   OutsideHoldsNothing, RecordsFailures, FlagHasProbe, OpenAtThreshold

LEMMA PolicyStep == PolicyInv /\ [PoliciesNext]_policyVars => PolicyInv'
<1> SUFFICES ASSUME PolicyInv, [PoliciesNext]_policyVars PROVE PolicyInv'
  OBVIOUS
<1>0. ASSUME NEW c \in Callers PROVE caller[c] \in CallerType
  BY <1>0 DEF PolicyInv, PolicyTypes
<1>1. ASSUME NEW c \in Callers, InvokeTool(c) PROVE PolicyInv'
  <2> DEFINE k == [caller[c] EXCEPT !.phase = IF outer = "retry" THEN "attempt" ELSE "admit", !.seen = now]
  <2>1. Become(c, k) /\ circuit' = circuit /\ Stay /\ caller[c].admitted = "no"
    BY <1>1 DEF InvokeTool, PolicyInv, OutsideHoldsNothing, Outside
  <2>2. Fine(c, k, circuit)
    BY <1>0, <2>1 DEF Fine, CallerType, PolicyInv, PolicyTypes, OpenAtThreshold
  <2> QED
    BY <2>1, <2>2, FineStep
<1>2. ASSUME NEW c \in Callers, BeginAttempt(c) PROVE PolicyInv'
  <2>1. CASE LeaveRetry(c, "result")
    BY <1>2, <2>1, LeaveRetryFine DEF BeginAttempt
  <2>2. CASE ~LeaveRetry(c, "result")
    <3> DEFINE k == [caller[c] EXCEPT !.phase = IF outer = "retry" THEN "admit" ELSE "work", !.seen = now]
    <3>1. Become(c, k) /\ circuit' = circuit /\ Stay /\ (outer = "retry" => caller[c].admitted = "no")
      BY <1>2, <2>2 DEF BeginAttempt, PolicyInv, OutsideHoldsNothing, Outside
    <3>2. Fine(c, k, circuit)
      BY <1>0, <3>1 DEF Fine, CallerType, Outside, PolicyInv, PolicyTypes, OpenAtThreshold
    <3> QED
      BY <3>1, <3>2, FineStep
  <2> QED
    BY <2>1, <2>2
<1>3. ASSUME NEW c \in Callers, Admit(c) PROVE PolicyInv'
  <2> DEFINE closed == circuit.openedAt = {}
             refused == ~closed /\ (circuit.probing \/ \E t \in circuit.openedAt : caller[c].seen - t < RecoveryTimeout)
             k == [caller[c] EXCEPT !.phase = IF outer = "retry" THEN "work" ELSE "attempt",
                                    !.admitted = IF closed THEN "plain" ELSE "probe"]
             f == [circuit EXCEPT !.probing = @ \/ (~closed /\ ~refused)]
  <2>1. /\ Become(c, IF refused THEN Left("circuit_open") ELSE k) /\ circuit' = f /\ Stay
        /\ caller[c].admitted = "no"
    BY <1>3 DEF Admit, PolicyInv, OutsideHoldsNothing, Outside
  <2>2. /\ f \in [failures : Int, openedAt : SUBSET Int, probing : BOOLEAN]
        /\ f.openedAt = circuit.openedAt /\ f.failures = circuit.failures
        /\ f.probing = (circuit.probing \/ (~closed /\ ~refused))
    BY DEF PolicyInv, PolicyTypes
  <2> HIDE DEF f
  <2>3. CASE refused
    <3>1. Fine(c, Left("circuit_open"), f)
      BY <2>1, <2>2, <2>3, LeftFine DEF Fine, PolicyInv, OpenAtThreshold
    <3> QED
      BY <2>1, <2>3, <3>1, FineStep
  <2>4. CASE ~refused
    <3>1. k \in CallerType /\ ~Outside(k) /\ k.phase # "record" /\ k.admitted = (IF closed THEN "plain" ELSE "probe")
      BY <1>0 DEF CallerType, Outside, PolicyInv, PolicyTypes
    <3> HIDE DEF k
    <3>2. Fine(c, k, f)
      BY <2>1, <2>2, <2>4, <3>1 DEF Fine, PolicyInv, OpenAtThreshold
    <3> QED
      BY <2>1, <2>4, <3>2, FineStep
  <2> QED
    BY <2>3, <2>4
<1>4. ASSUME NEW c \in Callers, ToolEnds(c) PROVE PolicyInv'
  <2>1. PICK outcome \in ToolOutcomes :
           IF outer = "circuit" THEN AttemptEnds(c, outcome)
           ELSE /\ circuit' = CircuitAfter(caller[c], outcome)
                /\ IF OutOfCircuit(outcome) THEN LeaveCircuit(c, outcome)
                   ELSE Become(c, Failing(caller[c], outcome))
    BY <1>4 DEF ToolEnds
  <2>2. CASE outer = "circuit"
    BY <1>4, <2>1, <2>2, AttemptEndsFine DEF ToolEnds
  <2>3. CASE outer # "circuit" /\ outcome = "result"
    <3>1. LeaveCircuit(c, outcome) /\ circuit' = ClosedCircuit /\ Stay
      BY <1>4, <2>1, <2>3 DEF ToolEnds, OutOfCircuit, CircuitAfter
    <3>2. /\ ClosedCircuit \in [failures : Int, openedAt : SUBSET Int, probing : BOOLEAN]
          /\ ClosedCircuit.openedAt # {} <=> ClosedCircuit.failures >= FailureThreshold
          /\ ~ClosedCircuit.probing
      BY ThresholdAssumption DEF ClosedCircuit
    <3> QED
      BY <2>3, <3>1, <3>2, LeaveCircuitFine
  <2>4. CASE outer # "circuit" /\ outcome = "cancelled"
    <3>1. LeaveCircuit(c, outcome) /\ circuit' = ReleaseCancelledProbe(caller[c]) /\ Stay
      BY <1>4, <2>1, <2>4 DEF ToolEnds, OutOfCircuit, CircuitAfter
    <3> QED
      BY <2>4, <3>1, ReleaseFine, LeaveCircuitFine
  <2>5. CASE outer # "circuit" /\ outcome \in {"retryable", "fatal"}
    <3>1. Become(c, Failing(caller[c], outcome)) /\ circuit' = circuit /\ Stay
      BY <1>4, <2>1, <2>5 DEF ToolEnds, OutOfCircuit, CircuitAfter
    <3>2. Fine(c, Failing(caller[c], outcome), circuit)
      BY <1>0, <2>5 DEF Fine, Failing, CallerType, Outside, PolicyInv, PolicyTypes, OpenAtThreshold
    <3> QED
      BY <3>1, <3>2, FineStep
  <2> QED
    BY <2>2, <2>3, <2>4, <2>5 DEF ToolOutcomes
<1>5. ASSUME NEW c \in Callers, AttemptTimesOut(c) PROVE PolicyInv'
  <2>1. CASE outer = "circuit"
    BY <1>5, <2>1, AttemptEndsFine DEF AttemptTimesOut, ToolOutcomes
  <2>2. CASE outer # "circuit"
    <3>1. LeaveCircuit(c, "retryable") /\ circuit' = ReleaseCancelledProbe(caller[c]) /\ Stay
      BY <1>5, <2>2 DEF AttemptTimesOut
    <3> QED
      BY <3>1, ReleaseFine, LeaveCircuitFine
  <2> QED
    BY <2>1, <2>2
<1>6. ASSUME NEW c \in Callers, RecordFailure(c) PROVE PolicyInv'
  <2> DEFINE failures == IF caller[c].admitted = "probe" THEN FailureThreshold ELSE circuit.failures + 1
             f == [failures |-> failures,
                   openedAt |-> IF failures >= FailureThreshold THEN {caller[c].seen} ELSE circuit.openedAt,
                   probing |-> circuit.probing /\ caller[c].admitted # "probe"]
  <2>1. circuit' = f /\ LeaveCircuit(c, caller[c].outcome) /\ Stay
    BY <1>6 DEF RecordFailure
  <2>2. f \in [failures : Int, openedAt : SUBSET Int, probing : BOOLEAN]
    BY <1>0, ThresholdAssumption DEF CallerType, PolicyInv, PolicyTypes
  <2>3. f.openedAt # {} <=> f.failures >= FailureThreshold
    BY ThresholdAssumption DEF PolicyInv, PolicyTypes, OpenAtThreshold
  <2>4. f.probing => circuit.probing /\ caller[c].admitted # "probe"
    OBVIOUS
  <2>5. caller[c].outcome \in {"retryable", "fatal", "exhausted"}
    BY <1>6 DEF RecordFailure, PolicyInv, RecordsFailures
  <2> HIDE DEF f
  <2> QED
    BY <2>1, <2>2, <2>3, <2>4, <2>5, LeaveCircuitFine
<1>7. ASSUME NEW c \in Callers, WakeUp(c) PROVE PolicyInv'
  <2>1. CASE LeaveRetry(c, "result")
    BY <1>7, <2>1, LeaveRetryFine DEF WakeUp
  <2>2. CASE ~LeaveRetry(c, "result")
    <3> DEFINE k == [caller[c] EXCEPT !.phase = "attempt", !.attempt = @ + 1]
    <3>1. Become(c, k) /\ circuit' = circuit /\ Stay /\ (outer = "retry" => caller[c].admitted = "no")
      BY <1>7, <2>2 DEF WakeUp, PolicyInv, OutsideHoldsNothing, Outside
    <3>2. caller[c].attempt + 1 \in Int
      BY <1>0 DEF CallerType
    <3>3. k = [caller[c] EXCEPT !.phase = "attempt", !.attempt = caller[c].attempt + 1]
      BY <1>0 DEF CallerType
    <3>4. k \in CallerType /\ k.phase = "attempt" /\ k.admitted = caller[c].admitted
      BY <1>0, <3>2, <3>3 DEF CallerType
    <3> HIDE DEF k
    <3>5. Fine(c, k, circuit)
      BY <3>1, <3>4 DEF Fine, Outside, PolicyInv, PolicyTypes, OpenAtThreshold
    <3> QED
      BY <3>1, <3>5, FineStep
  <2> QED
    BY <2>1, <2>2
<1>8. ASSUME NEW c \in Callers, CancelSleep(c) PROVE PolicyInv'
  BY <1>8, LeaveRetryFine DEF CancelSleep
<1>9. ASSUME NEW c \in Callers, AskToStop(c) PROVE PolicyInv'
  <2> DEFINE k == [caller[c] EXCEPT !.requested = TRUE]
  <2>1. Become(c, k) /\ circuit' = circuit /\ Stay
    BY <1>9 DEF AskToStop
  <2>2. k \in CallerType /\ k.phase = caller[c].phase /\ k.admitted = caller[c].admitted /\ k.outcome = caller[c].outcome
    BY <1>0 DEF CallerType
  <2> HIDE DEF k
  <2>3. Fine(c, k, circuit)
    BY <2>2 DEF Fine, Outside, PolicyInv, PolicyTypes, OutsideHoldsNothing, RecordsFailures, OpenAtThreshold
  <2> QED
    BY <2>1, <2>3, FineStep
<1>10. CASE PolicyTick
  BY <1>10 DEF PolicyTick, PolicyInv, PolicyTypes, OutsideHoldsNothing, Outside, RecordsFailures,
     FlagHasProbe, OpenAtThreshold
<1>11. CASE UNCHANGED policyVars
  BY <1>11 DEF policyVars, PolicyInv, PolicyTypes, OutsideHoldsNothing, Outside, RecordsFailures,
     FlagHasProbe, OpenAtThreshold
<1> QED
  BY <1>1, <1>2, <1>3, <1>4, <1>5, <1>6, <1>7, <1>8, <1>9, <1>10, <1>11 DEF PoliciesNext

(* decorators.py: a circuit counts a probe in flight only while one is,    *)
(* and is open exactly at its threshold, for any number of callers.        *)
THEOREM CircuitAlwaysRecovers == PoliciesSpec => []CircuitRecovers
<1>1. PolicyInv => CircuitRecovers
  BY DEF PolicyInv, FlagHasProbe, OpenAtThreshold, CircuitRecovers
<1> QED
  BY <1>1, PolicyStart, PolicyStep, PTL DEF PoliciesSpec

-----------------------------------------------------------------------------
(* One Model.invoke.  The layers of a call and its travelling exception.   *)
Layer == [kind : {"retry", "fallback"}, started : BOOLEAN, tries : Nat, backoff : Nat,
          side : {"primary", "backup"}]
Failure == [kind : {"none", "model", "host"}, origin : {"none", "provider", "host"},
            retryable : BOOLEAN, after : Int, at : Nat]

CallTypes ==
    /\ call.stack \in Seq({"retry", "fallback"})
    /\ stack \in Seq(Layer) /\ Len(stack) <= Len(call.stack)
    /\ failure \in Failure
    /\ clock \in Nat /\ wake \in Nat /\ attempt \in Nat

(* Who has seen a delta is told by every relay it went through, and no     *)
(* retry is under way once it has.                                         *)
PublishedIsMarked ==
    /\ published \subseteq {attempt}
    /\ published # {} => /\ call.sink /\ stage # "sleeping"
                         /\ \A i \in DOMAIN stack : stack[i].started
    /\ stage = "emitting" => call.sink

(* The travelling exception is in the past; a host's travels as itself,    *)
(* and nothing else runs while it does.                                    *)
FailureTravels ==
    /\ stage \in {"raising", "sleeping"} => failure.at <= clock
    /\ failure.origin = "host" => failure.kind = "host" /\ stage \in {"raising", "host_error"}
    /\ stage = "sleeping" => /\ wake >= failure.at + Most(0, failure.after)
                             /\ stack # <<>> /\ failure.kind = "model"

CallInv == CallTypes /\ PublishedIsMarked /\ FailureTravels

-----------------------------------------------------------------------------
(* The two outcomes of a step of the innermost client: it goes on, or its  *)
(* exception begins to travel.                                             *)
GoesOn ==
    /\ stage' \in {"asking", "reading", "answering", "emitting", "saving", "returned"}
    /\ stage' = "emitting" => call.sink
    /\ UNCHANGED <<clock, failure>>
Fails ==
    /\ stage' = "raising" /\ failure' \in Failure /\ clock' \in Nat
    /\ failure'.at <= clock'
    /\ failure'.origin = "host" => failure'.kind = "host"
Kept == UNCHANGED <<call, wake, attempt>>
Working == {"loading", "asking", "reading", "answering", "emitting", "saving"}

LEMMA ClientStep ==
    ASSUME CallInv, stage \in Working, GoesOn \/ Fails, Kept, UNCHANGED <<stack, published>>
    PROVE  CallInv'
<1>1. CallTypes'
  BY DEF CallInv, CallTypes, GoesOn, Fails, Kept
<1>2. PublishedIsMarked'
  BY DEF CallInv, PublishedIsMarked, GoesOn, Fails, Kept
<1>3. FailureTravels'
  BY DEF CallInv, FailureTravels, GoesOn, Fails, Kept, Working
<1> QED
  BY <1>1, <1>2, <1>3 DEF CallInv

LEMMA RaisedFails ==
    ASSUME CallTypes, NEW retryable \in BOOLEAN, NEW after \in Int, Raised("model", retryable, after)
    PROVE  Fails
<1>1. PICK late \in IF call.stack = <<>> THEN {0} ELSE {0, 1} :
          /\ clock' = clock + late /\ stage' = "raising"
          /\ failure' = [kind |-> "model", origin |-> "provider", retryable |-> retryable,
                         after |-> after, at |-> clock + late]
  BY DEF Raised
<1>2. late \in Nat /\ clock \in Nat
  BY DEF CallTypes
<1>3. clock + late \in Nat
  BY <1>2
<1> QED
  BY <1>1, <1>3 DEF Fails, Failure

LEMMA ModelFailsFails ==
    ASSUME CallTypes, NEW cause, ModelFails(cause)
    PROVE  Fails
<1>1. PICK after \in Headers(cause) : Raised("model", Retryable(cause), after)
  BY DEF ModelFails
<1>2. after \in Int
  BY CallAssumption DEF NoAfter, Headers
<1>3. Retryable(cause) \in BOOLEAN
  BY DEF Retryable
<1> QED
  BY <1>1, <1>2, <1>3, RaisedFails

LEMMA RaisedNowFails ==
    ASSUME CallTypes,
           NEW kind \in {"model", "host"}, NEW origin \in {"provider", "host"},
           origin = "host" => kind = "host", RaisedNow(kind, origin)
    PROVE  Fails
  BY DEF RaisedNow, Fails, Failure, CallTypes, NoAfter

LEMMA HostFailsFails ==
    ASSUME CallTypes, HostFails
    PROVE  Fails
  BY RaisedNowFails DEF HostFails, OutsideBoundary

LEMMA CodecFailsFails ==
    ASSUME CallTypes, CodecFails
    PROVE  Fails
  BY RaisedNowFails DEF CodecFails

LEMMA TakenEnds ==
    ASSUME CallTypes, NEW d, Taken(d)
    PROVE  GoesOn \/ Fails
<1>1. CASE d.fault \/ (d.done /\ ~Completes(d))
  <2>1. CodecFails
    BY <1>1 DEF Taken
  <2> QED
    BY <2>1, CodecFailsFails
<1>2. CASE ~(d.fault \/ (d.done /\ ~Completes(d)))
  <2> DEFINE response == CompletedResponse(d)
  <2>1. /\ UNCHANGED <<clock, failure>>
        /\ IF call.sink /\ d.out # <<>>
           THEN todo' = d.out /\ stage' = "emitting" /\ UNCHANGED result
           ELSE /\ todo' = <<>>
                /\ IF d.done THEN Complete(response) ELSE stage' = "reading" /\ UNCHANGED result
    BY <1>2 DEF Taken
  <2> HIDE DEF response
  <2> QED
    BY <2>1 DEF GoesOn, Complete
<1> QED
  BY <1>1, <1>2

-----------------------------------------------------------------------------
LEMMA CallStart == CallInit => CallInv
<1> SUFFICES ASSUME CallInit PROVE CallInv
  OBVIOUS
<1>1. call.stack \in Seq({"retry", "fallback"})
  <2>1. call \in Calls
    BY DEF CallInit
  <2>2. \A k \in {<<>>, <<"retry">>, <<"fallback">>, <<"retry", "fallback">>, <<"fallback", "retry">>} :
            k \in Seq({"retry", "fallback"})
    <3>1. <<>> \in Seq({"retry", "fallback"})
      OBVIOUS
    <3>2. \A a, b \in {"retry", "fallback"} : <<a>> \in Seq({"retry", "fallback"}) /\ <<a, b>> \in Seq({"retry", "fallback"})
      OBVIOUS
    <3> QED
      BY <3>1, <3>2
  <2>3. call.stack \in {<<>>, <<"retry">>, <<"fallback">>, <<"retry", "fallback">>, <<"fallback", "retry">>}
    BY <2>1 DEF Calls
  <2> QED
    BY <2>2, <2>3
<1>2. stack = [i \in 1..Len(call.stack) |-> Fresh(call.stack[i])]
  BY <1>1 DEF CallInit
<1>3. \A i \in 1..Len(call.stack) : Fresh(call.stack[i]) \in Layer
  BY <1>1, CallAssumption DEF Fresh, Layer
<1>4. stack \in Seq(Layer) /\ Len(stack) = Len(call.stack)
  BY <1>1, <1>2, <1>3
<1>5. CallTypes
  BY <1>1, <1>4 DEF CallInit, CallTypes, NoFailure, NoAfter, Failure
<1>6. PublishedIsMarked
  BY DEF CallInit, PublishedIsMarked, Begun
<1>7. FailureTravels
  BY DEF CallInit, FailureTravels, Begun, NoFailure
<1> QED
  BY <1>5, <1>6, <1>7 DEF CallInv

LEMMA LayersBelow ==
    ASSUME CallTypes, stack # <<>>
    PROVE  /\ Top \in Layer /\ Outer \in Seq(Layer) /\ Len(Outer) = Len(stack) - 1
           /\ \A i \in DOMAIN Outer : i \in DOMAIN stack /\ Outer[i] = stack[i]
<1>1. stack \in Seq(Layer) /\ Len(stack) \in Nat /\ Len(stack) >= 1
  BY DEF CallTypes
<1>2. Len(stack) \in 1..Len(stack) /\ Len(stack) - 1 \in Nat /\ Len(stack) - 1 <= Len(stack)
  BY <1>1
<1>3. Top \in Layer
  <2>1. \A i \in 1..Len(stack) : stack[i] \in Layer
    BY <1>1
  <2> QED
    BY <1>2, <2>1 DEF Top
<1>4. Outer \in Seq(Layer) /\ Len(Outer) = Len(stack) - 1
  <2>1. \A s \in Seq(Layer) : \A n \in 0..Len(s) : SubSeq(s, 1, n) \in Seq(Layer) /\ Len(SubSeq(s, 1, n)) = n
    OBVIOUS
  <2>2. Len(stack) - 1 \in 0..Len(stack)
    BY <1>1
  <2>3. Outer \in Seq(Layer) /\ Len(Outer) = Len(stack) - 1
    BY <1>1, <2>1, <2>2 DEF Outer
  <2> QED
    BY <2>3
<1>5. \A i \in 1..(Len(stack) - 1) : i \in 1..Len(stack) /\ Outer[i] = stack[i]
  <2>1. \A s \in Seq(Layer) : \A n \in 0..Len(s) : \A i \in 1..n : SubSeq(s, 1, n)[i] = s[i]
    OBVIOUS
  <2> QED
    BY <1>1, <2>1 DEF Outer
<1>6. DOMAIN stack = 1..Len(stack) /\ DOMAIN Outer = 1..(Len(stack) - 1)
  BY <1>1, <1>4
<1> QED
  BY <1>3, <1>4, <1>5, <1>6

LEMMA EnteredLayers ==
    ASSUME CallTypes, NEW layers \in Seq(Layer), Len(layers) <= Len(call.stack)
    PROVE  Entered(layers, Len(layers)) \in Seq(Layer) /\ Len(Entered(layers, Len(layers))) <= Len(call.stack)
<1> DEFINE depth == Len(layers)
           rest == [i \in 1..(Len(call.stack) - depth) |-> Fresh(call.stack[depth + i])]
<1>1. call.stack \in Seq({"retry", "fallback"}) /\ Len(call.stack) \in Nat /\ depth \in Nat
  BY DEF CallTypes
<1>2. \A i \in 1..(Len(call.stack) - depth) : depth + i \in 1..Len(call.stack)
  BY <1>1
<1>3. \A k \in {"retry", "fallback"} : Fresh(k) \in Layer
  BY CallAssumption DEF Fresh, Layer
<1>4. \A i \in 1..(Len(call.stack) - depth) : Fresh(call.stack[depth + i]) \in Layer
  BY <1>1, <1>2, <1>3
<1>5. rest \in Seq(Layer) /\ Len(rest) = Len(call.stack) - depth
  BY <1>1, <1>4
<1>6. SubSeq(layers, 1, depth) = layers
  BY <1>1
<1> HIDE DEF rest
<1>7. layers \o rest \in Seq(Layer) /\ Len(layers \o rest) = Len(call.stack)
  BY <1>1, <1>5
<1> QED
  BY <1>6, <1>7 DEF Entered, rest

(* A decorator that asks again has seen no delta go by: none went out.     *)
LEMMA NoneOutYet ==
    ASSUME CallInv, stack # <<>>, MayTryAgain
    PROVE  published = {} /\ failure.kind = "model" /\ failure.origin # "host"
<1>1. Len(stack) \in DOMAIN stack
  BY DEF CallInv, CallTypes
<1> QED
  BY <1>1 DEF CallInv, PublishedIsMarked, FailureTravels, MayTryAgain, Top

LEMMA Delayed ==
    ASSUME CallTypes, stack # <<>>, NEW d \in RetryDelays
    PROVE  d \in Nat /\ d >= Most(0, failure.after)
<1>1. Top.backoff \in Nat /\ failure.after \in Int
  BY LayersBelow DEF CallTypes, Layer, Failure
<1> DEFINE floor == Most(0, failure.after)
           scaled == Top.backoff * (1 - JitterRatio)
           most == Least(BackoffMax, Most(Top.backoff, floor) * (1 + JitterRatio))
<1>2. floor \in Nat
  BY <1>1 DEF Most
<1>3. scaled \in Int /\ Most(floor, scaled) \in Int /\ Most(floor, scaled) >= floor
  <2>1. 1 - JitterRatio \in {0, 1}
    BY CallAssumption
  <2>2. scaled \in Int
    BY <1>1, <2>1
  <2> HIDE DEF scaled, floor
  <2> QED
    BY <1>2, <2>2 DEF Most
<1>4. d \in Most(floor, scaled) .. most
  BY DEF RetryDelays
<1>5. d \in Int /\ d >= Most(floor, scaled)
  BY <1>3, <1>4
<1> HIDE DEF floor, scaled
<1>6. d \in Nat /\ d >= floor
  BY <1>2, <1>3, <1>5
<1> QED
  BY <1>6 DEF floor

LEMMA PassedOn ==
    ASSUME CallInv, stage = "raising", stack # <<>>, PassOn
    PROVE  CallInv'
<1>1. CallTypes'
  BY LayersBelow DEF CallInv, CallTypes, PassOn
<1>2. PublishedIsMarked'
  BY LayersBelow DEF CallInv, PublishedIsMarked, PassOn
<1>3. FailureTravels'
  BY DEF CallInv, FailureTravels, PassOn, CallTypes, Failure
<1> QED
  BY <1>1, <1>2, <1>3 DEF CallInv

LEMMA CallStep == CallInv /\ [CallNext]_callVars => CallInv'
<1> SUFFICES ASSUME CallInv, [CallNext]_callVars PROVE CallInv'
  OBVIOUS
<1>0. CallTypes
  BY DEF CallInv
<1>1. CASE LoadImages
  <2>1. GoesOn \/ Fails
    BY <1>0, <1>1, HostFailsFails DEF LoadImages, GoesOn
  <2> QED
    BY <1>1, <2>1, ClientStep DEF LoadImages, Kept, Working
<1>2. CASE SendRequest
  BY <1>2, ClientStep DEF SendRequest, GoesOn, Kept, Working
<1>3. CASE SendFails
  <2>1. Fails
    <3>1. CASE Raised("model", Retryable("timeout"), NoAfter)
      <4>1. Retryable("timeout") \in BOOLEAN /\ NoAfter \in Int
        BY DEF Retryable, NoAfter
      <4> QED
        BY <1>0, <3>1, <4>1, RaisedFails
    <3>2. CASE \E cause \in Causes : ModelFails(cause)
      BY <1>0, <3>2, ModelFailsFails
    <3> QED
      BY <1>3, <3>1, <3>2 DEF SendFails
  <2> QED
    BY <1>3, <2>1, ClientStep DEF SendFails, Kept, Working
<1>4. CASE ReadFrame
  <2>1. PICK ev \in ServerEvents : Taken(Decoded(ev))
    BY <1>4 DEF ReadFrame
  <2>2. GoesOn \/ Fails
    BY <1>0, <2>1, TakenEnds
  <2> QED
    BY <1>4, <2>2, ClientStep DEF ReadFrame, Kept, Working
<1>5. CASE ReadDone
  <2>1. GoesOn \/ Fails
    BY <1>0, <1>5, TakenEnds DEF ReadDone
  <2> QED
    BY <1>5, <2>1, ClientStep DEF ReadDone, Kept, Working
<1>6. CASE ReadFails
  <2>1. Fails
    BY <1>0, <1>6, ModelFailsFails DEF ReadFails
  <2> QED
    BY <1>6, <2>1, ClientStep DEF ReadFails, Kept, Working
<1>7. CASE ReadAnswer
  <2>1. GoesOn \/ Fails
    <3>1. CASE \E cause \in {"timeout", "network", "http", "codec", "body", "overloaded", "too_large"} :
                   ModelFails(cause)
      BY <1>0, <3>1, ModelFailsFails
    <3>2. CASE Complete(Response(<<>>, FALSE)) /\ UNCHANGED <<clock, failure>>
      BY <3>2 DEF Complete, GoesOn
    <3>3. CASE \E items \in JsonItems, status \in Terminals :
                   IF DecodeLegal(status, items) /\ SafeArtifacts(DecodedOutput(items))
                   THEN Complete(Response(DecodedOutput(items), FALSE)) /\ UNCHANGED <<dec, todo, clock, failure>>
                   ELSE CodecFails /\ UNCHANGED result
      <4>1. PICK items \in JsonItems, status \in Terminals :
                \/ Complete(Response(DecodedOutput(items), FALSE)) /\ UNCHANGED <<clock, failure>>
                \/ CodecFails
        BY <3>3
      <4> QED
        BY <1>0, <4>1, CodecFailsFails DEF Complete, GoesOn
    <3> QED
      BY <1>7, <3>1, <3>2, <3>3 DEF ReadAnswer
  <2> QED
    BY <1>7, <2>1, ClientStep DEF ReadAnswer, Kept, Working
<1>8. CASE Emit
  <2>1. GoesOn \/ Fails
    <3> DEFINE response == CompletedResponse(dec)
    <3>1. CASE HostFails
      BY <1>0, <3>1, HostFailsFails
    <3>2. CASE /\ IF Tail(todo) # <<>> THEN UNCHANGED <<stage, result>>
                  ELSE IF dec.done THEN Complete(response)
                  ELSE stage' = "reading" /\ UNCHANGED result
               /\ UNCHANGED <<dec, clock, failure>>
      <4>1. stage = "emitting" /\ call.sink
        BY <1>8 DEF Emit, CallInv, PublishedIsMarked
      <4> HIDE DEF response
      <4> QED
        BY <3>2, <4>1 DEF GoesOn, Complete
    <3> QED
      BY <1>8, <3>1, <3>2 DEF Emit
  <2>2. /\ call.sink /\ stage = "emitting" /\ published' = published \cup {attempt}
        /\ stack' = RelaysStarted /\ UNCHANGED <<call, wake, attempt>>
    BY <1>8 DEF Emit, CallInv, PublishedIsMarked
  <2>3. RelaysStarted \in Seq(Layer) /\ Len(RelaysStarted) = Len(stack)
        /\ \A i \in DOMAIN RelaysStarted : RelaysStarted[i].started
    <3>1. stack \in Seq(Layer) /\ DOMAIN stack = 1..Len(stack) /\ Len(stack) \in Nat
      BY <1>0 DEF CallTypes
    <3>2. \A i \in 1..Len(stack) : LET l == [stack[i] EXCEPT !.started = TRUE] IN l \in Layer /\ l.started
      <4> SUFFICES ASSUME NEW i \in 1..Len(stack)
                   PROVE  LET l == [stack[i] EXCEPT !.started = TRUE] IN l \in Layer /\ l.started
        OBVIOUS
      <4>1. stack[i] \in Layer
        BY <3>1
      <4> QED
        BY <4>1 DEF Layer
    <3>3. RelaysStarted = [i \in 1..Len(stack) |-> [stack[i] EXCEPT !.started = TRUE]]
      BY <3>1 DEF RelaysStarted
    <3>4. RelaysStarted \in Seq(Layer) /\ Len(RelaysStarted) = Len(stack)
          /\ DOMAIN RelaysStarted = 1..Len(stack)
      BY <3>1, <3>2, <3>3
    <3> QED
      BY <3>2, <3>3, <3>4
  <2>4. CallTypes'
    BY <1>0, <2>1, <2>2, <2>3 DEF CallTypes, GoesOn, Fails
  <2>5. PublishedIsMarked'
    BY <2>1, <2>2, <2>3 DEF CallInv, PublishedIsMarked, GoesOn, Fails
  <2>6. FailureTravels'
    BY <2>1, <2>2 DEF CallInv, FailureTravels, GoesOn, Fails
  <2> QED
    BY <2>4, <2>5, <2>6 DEF CallInv
<1>9. CASE SaveImage
  <2>1. GoesOn \/ Fails
    <3>1. CASE UNCHANGED <<stage, dec, todo, clock, failure>>
      BY <1>9, <3>1 DEF SaveImage, GoesOn
    <3>2. CASE HostFails
      BY <1>0, <3>2, HostFailsFails
    <3> QED
      BY <1>9, <3>1, <3>2 DEF SaveImage
  <2> QED
    BY <1>9, <2>1, ClientStep DEF SaveImage, Kept, Working
<1>10. CASE Saved
  BY <1>10, ClientStep DEF Saved, GoesOn, Kept, Working
<1>11. CASE RetryHandles
  <2>1. CASE PassOn
    BY <1>11, <2>1, PassedOn DEF RetryHandles
  <2>2. CASE ~PassOn
    <3>1. /\ MayTryAgain /\ stage = "raising" /\ stack # <<>> /\ stage' = "sleeping"
          /\ UNCHANGED <<call, stack, failure, clock, attempt, published>>
      BY <1>11, <2>2 DEF RetryHandles, Sleep
    <3>2. PICK delay \in RetryDelays : wake' = clock + delay
      BY <1>11, <2>2 DEF RetryHandles, Sleep
    <3>3. published = {} /\ failure.origin # "host" /\ failure.kind = "model"
      BY <3>1, NoneOutYet
    <3>4. delay \in Nat /\ delay >= Most(0, failure.after) /\ clock \in Nat
      BY <1>0, <3>1, Delayed DEF CallTypes
    <3>5. wake' \in Nat /\ failure.at \in Nat /\ failure.after \in Int
      BY <1>0, <3>2, <3>4 DEF CallTypes, Failure
    <3>6. failure.at <= clock
      BY <3>1 DEF CallInv, FailureTravels
    <3>7. wake' >= failure.at + Most(0, failure.after)
      BY <3>2, <3>4, <3>5, <3>6 DEF Most
    <3>8. CallTypes'
      BY <1>0, <3>1, <3>5 DEF CallTypes
    <3>9. PublishedIsMarked'
      BY <3>1, <3>3 DEF CallInv, PublishedIsMarked
    <3>10. FailureTravels'
      BY <3>1, <3>3, <3>6, <3>7 DEF FailureTravels, Most
    <3> QED
      BY <3>8, <3>9, <3>10 DEF CallInv
  <2> QED
    BY <2>1, <2>2
<1>12. CASE RetryWakes
  <2>1. /\ stage = "sleeping" /\ published = {} /\ failure.origin # "host"
        /\ UNCHANGED <<call, failure, wake, published>>
    BY <1>12 DEF RetryWakes, CallInv, PublishedIsMarked, FailureTravels
  <2>2. PICK late \in {0, 1} : clock' = wake + late
    BY <1>12 DEF RetryWakes
  <2>3. clock' \in Nat /\ clock' >= wake
    BY <1>0, <2>2 DEF CallTypes
  <2>4. clock' >= failure.at
    <3>1. wake >= failure.at + Most(0, failure.after) /\ wake \in Nat /\ failure.at \in Nat
          /\ failure.after \in Int
      BY <2>1, <1>0 DEF CallInv, FailureTravels, CallTypes, Failure
    <3> QED
      BY <2>3, <3>1 DEF Most
  <2>5. CASE DeadlineExpired(clock')
    <3>1. /\ stack' = Outer /\ stage' \in {"raised", "raising"} /\ UNCHANGED attempt
      BY <1>12, <2>5 DEF RetryWakes
    <3>2. Outer \in Seq(Layer) /\ Len(Outer) <= Len(call.stack)
      <4>1. stack # <<>>
        BY <2>1 DEF CallInv, FailureTravels
      <4> QED
        BY <1>0, <4>1, LayersBelow DEF CallTypes
    <3>3. CallTypes'
      BY <1>0, <2>1, <2>3, <3>1, <3>2 DEF CallTypes
    <3>4. PublishedIsMarked'
      BY <2>1, <3>1 DEF PublishedIsMarked
    <3>5. FailureTravels'
      BY <2>1, <2>4, <3>1 DEF FailureTravels
    <3> QED
      BY <3>3, <3>4, <3>5 DEF CallInv
  <2>6. CASE ~DeadlineExpired(clock')
    <3> DEFINE again == [Top EXCEPT !.tries = @ + 1, !.backoff = Least(BackoffMax, @ * Multiplier)]
               layers == Append(Outer, again)
    <3>1. /\ stack' = Entered(layers, Len(layers)) /\ stage' = Begun /\ attempt' = attempt + 1
      BY <1>12, <2>6 DEF RetryWakes, NewAttempt
    <3>2. stack # <<>>
      BY <2>1 DEF CallInv, FailureTravels
    <3>3. Top \in Layer /\ Outer \in Seq(Layer) /\ Len(Outer) = Len(stack) - 1
      BY <1>0, <3>2, LayersBelow
    <3>4. Top.tries + 1 \in Nat
      BY <3>3 DEF Layer
    <3>5. Least(BackoffMax, Top.backoff * Multiplier) \in Nat
      <4>1. Top.backoff \in Nat /\ Multiplier \in Nat
        BY <3>3, CallAssumption DEF Layer
      <4>2. Top.backoff * Multiplier \in Nat
        BY <4>1
      <4> QED
        BY <4>2, CallAssumption DEF Least
    <3>6. again \in Layer
      BY <3>3, <3>4, <3>5 DEF Layer
    <3> HIDE DEF again
    <3>7. layers \in Seq(Layer) /\ Len(layers) = Len(stack) /\ Len(stack) <= Len(call.stack)
      BY <1>0, <3>3, <3>6 DEF CallTypes
    <3> HIDE DEF layers
    <3>8. stack' \in Seq(Layer) /\ Len(stack') <= Len(call.stack)
      BY <1>0, <3>1, <3>7, EnteredLayers
    <3>9. CallTypes'
      BY <1>0, <2>1, <2>3, <3>1, <3>8 DEF CallTypes
    <3>10. PublishedIsMarked'
      BY <2>1, <3>1 DEF PublishedIsMarked, Begun
    <3>11. FailureTravels'
      BY <2>1, <2>4, <3>1 DEF FailureTravels, Begun
    <3> QED
      BY <3>9, <3>10, <3>11 DEF CallInv
  <2> QED
    BY <2>5, <2>6
<1>13. CASE FallbackHandles
  <2>1. CASE PassOn
    BY <1>13, <2>1, PassedOn DEF FallbackHandles
  <2>2. CASE ~PassOn
    <3> DEFINE backup == [Top EXCEPT !.side = "backup"]
    <3>1. /\ MayTryAgain /\ stack # <<>> /\ stage' = Begun /\ attempt' = attempt + 1
          /\ stack' = Append(Outer, backup)
          /\ UNCHANGED <<call, failure, clock, wake, published>>
      BY <1>13, <2>2 DEF FallbackHandles
    <3>2. published = {} /\ failure.origin # "host"
      BY <3>1, NoneOutYet
    <3>3. Top \in Layer /\ Outer \in Seq(Layer) /\ Len(Outer) = Len(stack) - 1
      BY <1>0, <3>1, LayersBelow
    <3>4. backup \in Layer
      BY <3>3 DEF Layer
    <3>5. Append(Outer, backup) \in Seq(Layer) /\ Len(Append(Outer, backup)) = Len(stack)
      BY <1>0, <3>3, <3>4 DEF CallTypes
    <3>6. CallTypes'
      BY <1>0, <3>1, <3>5 DEF CallTypes
    <3>7. PublishedIsMarked'
      BY <3>1, <3>2 DEF PublishedIsMarked, Begun
    <3>8. FailureTravels'
      BY <3>1, <3>2 DEF FailureTravels, Begun
    <3> QED
      BY <3>6, <3>7, <3>8 DEF CallInv
  <2> QED
    BY <2>1, <2>2
<1>14. CASE Unhandled
  <2>1. CallTypes'
    BY <1>0, <1>14 DEF Unhandled, CallTypes
  <2>2. PublishedIsMarked'
    BY <1>14 DEF Unhandled, CallInv, PublishedIsMarked
  <2>3. FailureTravels'
    BY <1>14 DEF Unhandled, CallInv, FailureTravels
  <2> QED
    BY <2>1, <2>2, <2>3 DEF CallInv
<1>15. CASE CancelCall
  <2>1. CallTypes'
    BY <1>0, <1>15 DEF CancelCall, CallTypes
  <2>2. PublishedIsMarked'
    BY <1>15 DEF CancelCall, CallInv, PublishedIsMarked
  <2>3. FailureTravels'
    BY <1>15 DEF CancelCall, CallInv, FailureTravels
  <2> QED
    BY <2>1, <2>2, <2>3 DEF CallInv
<1>16. CASE UNCHANGED callVars
  BY <1>16 DEF callVars, CallInv, CallTypes, PublishedIsMarked, FailureTravels
<1> QED
  BY <1>1, <1>2, <1>3, <1>4, <1>5, <1>6, <1>7, <1>8, <1>9, <1>10, <1>11, <1>12, <1>13, <1>14, <1>15,
     <1>16 DEF CallNext

(* _decorators.py, RetryingModel and FallbackModel: a retry or a fallback  *)
(* never follows a delta the host has seen, and the response that is       *)
(* returned is of the attempt that streamed.                               *)
THEOREM OneAttemptStreamsAlways == CallSpec => []OneAttemptStreams
<1>1. CallInv => OneAttemptStreams
  <2> SUFFICES ASSUME CallInv PROVE OneAttemptStreams
    OBVIOUS
  <2>1. published \subseteq {attempt}
    BY DEF CallInv, PublishedIsMarked
  <2>2. Cardinality({attempt}) = 1 /\ IsFiniteSet({attempt})
    BY FS_Singleton
  <2>3. Cardinality(published) <= 1
    BY <2>1, <2>2, FS_Subset
  <2> QED
    BY <2>1, <2>3 DEF OneAttemptStreams
<1> QED
  BY <1>1, CallStart, CallStep, PTL DEF CallSpec

(* An exception of the host's sink or artifact store reaches the caller as *)
(* itself: no decorator retries it, falls back on it or turns it into a    *)
(* model error.                                                            *)
THEOREM HostErrorsAreFinalAlways == CallSpec => HostErrorsAreFinal
<1>1. CallInv /\ [CallNext]_callVars =>
          [(failure.origin = "host") => (failure' = failure /\ attempt' = attempt /\ stage' # "raised")]_callVars
  <2> SUFFICES ASSUME CallInv, CallNext, failure.origin = "host"
               PROVE  failure' = failure /\ attempt' = attempt /\ stage' # "raised"
    OBVIOUS
  <2>1. failure.kind = "host" /\ stage \in {"raising", "host_error"}
    BY DEF CallInv, FailureTravels
  <2>2. CASE RetryHandles
    BY <2>1, <2>2 DEF RetryHandles, MayTryAgain, PassOn
  <2>3. CASE FallbackHandles
    BY <2>1, <2>3 DEF FallbackHandles, MayTryAgain, PassOn
  <2>4. CASE Unhandled
    BY <2>1, <2>4 DEF Unhandled
  <2> QED
    BY <2>1, <2>2, <2>3, <2>4 DEF CallNext, LoadImages, SendRequest, SendFails, ReadFrame, ReadDone,
       ReadFails, ReadAnswer, Emit, SaveImage, Saved, RetryWakes, CancelCall
<1> QED
  BY <1>1, CallStart, CallStep, PTL DEF CallSpec, HostErrorsAreFinal

(* No decorator begins a request at or after the deadline, and a retry     *)
(* never comes before the time the failed response asked to wait for,      *)
(* whatever the backoff, the jitter and how late the sleep ends.           *)
THEOREM AttemptsAreTimelyAlways == CallSpec => AttemptsAreTimely
<1>1. CallInv /\ [CallNext]_callVars =>
          [(attempt' # attempt) =>
              /\ call.limited => clock' < Deadline
              /\ stage = "sleeping" => clock' >= failure.at + Most(0, failure.after)]_callVars
  <2> SUFFICES ASSUME CallInv, CallNext, attempt' # attempt
               PROVE  /\ call.limited => clock' < Deadline
                      /\ stage = "sleeping" => clock' >= failure.at + Most(0, failure.after)
    OBVIOUS
  <2>0. wake \in Nat /\ clock \in Nat /\ failure \in Failure /\ Deadline \in Nat
    BY CallAssumption DEF CallInv, CallTypes
  <2>1. CASE RetryWakes
    <3>1. PICK late \in {0, 1} : clock' = wake + late
      BY <2>1 DEF RetryWakes
    <3>2. ~DeadlineExpired(clock') /\ call' = call /\ stage = "sleeping"
      BY <2>1 DEF RetryWakes
    <3>3. wake >= failure.at + Most(0, failure.after)
      BY <3>2 DEF CallInv, FailureTravels
    <3>4. failure.at + Most(0, failure.after) \in Int
      BY <2>0 DEF Failure, Most
    <3>5. clock' >= failure.at + Most(0, failure.after)
      BY <2>0, <3>1, <3>3, <3>4
    <3>6. clock' \in Nat
      BY <2>0, <3>1
    <3> QED
      BY <2>0, <3>2, <3>5, <3>6 DEF DeadlineExpired
  <2>2. CASE FallbackHandles
    BY <2>0, <2>2 DEF FallbackHandles, PassOn, DeadlineExpired
  <2>3. CASE RetryHandles
    BY <2>3 DEF RetryHandles, PassOn, Sleep
  <2> QED
    BY <2>1, <2>2, <2>3 DEF CallNext, LoadImages, SendRequest, SendFails, ReadFrame, ReadDone,
       ReadFails, ReadAnswer, Emit, SaveImage, Saved, Unhandled, CancelCall
<1> QED
  BY <1>1, CallStart, CallStep, PTL DEF CallSpec, AttemptsAreTimely

-----------------------------------------------------------------------------
(* The frames of a response: iter_server_sent_events.                     *)
LEMMA LeastNumber ==
    ASSUME NEW T, T \subseteq Nat, T # {}
    PROVE  \E n \in T : \A m \in T : n <= m
<1>1. IsWellFoundedOn(OpToRel(<,Nat), Nat)
  BY NatLessThanWellFounded, Zenon
<1>2. PICK x \in T : \A y \in T : <<y, x>> \notin OpToRel(<,Nat)
  BY <1>1, WFMin, Zenon
<1>3. \A y \in T : ~(y < x)
  BY <1>2 DEF OpToRel
<1> QED
  BY <1>3

LEMMA NumbersFromZero ==
    ASSUME NEW P, 0 \in P, \A n \in Nat : n \in P => n + 1 \in P
    PROVE  Nat \subseteq P
<1> SUFFICES ASSUME Nat \ P # {} PROVE FALSE
  OBVIOUS
<1>1. PICK n \in Nat \ P : \A m \in Nat \ P : n <= m
  BY LeastNumber, Zenon
<1>2. n # 0 /\ n - 1 \in Nat
  BY <1>1
<1>3. n - 1 \in P
  BY <1>1, <1>2
<1> QED
  BY <1>1, <1>2, <1>3

-----------------------------------------------------------------------------
(* What is picked of a sequence.  The recursion has a solution, it is the  *)
(* only one, and it depends on the elements picked alone.                  *)
Picks(f, seq, at, k) ==
    f = [i \in 0..k |-> IF i = 0 THEN <<>> ELSE IF i \in at THEN Append(f[i - 1], seq[i]) ELSE f[i - 1]]

LEMMA SomethingPicks ==
    ASSUME NEW seq, NEW at, NEW k \in Nat
    PROVE  \E f : Picks(f, seq, at, k)
<1> DEFINE P == {n \in Nat : \E f : Picks(f, seq, at, n)}
<1>1. 0 \in P
  <2>1. Picks([i \in 0..0 |-> <<>>], seq, at, 0)
    BY DEF Picks
  <2> QED
    BY <2>1
<1>2. ASSUME NEW n \in Nat, n \in P PROVE n + 1 \in P
  <2>1. PICK f : Picks(f, seq, at, n)
    BY <1>2
  <2> DEFINE next == IF n + 1 \in at THEN Append(f[n], seq[n + 1]) ELSE f[n]
             g == [i \in 0..(n + 1) |-> IF i = n + 1 THEN next ELSE f[i]]
  <2>2. f = [i \in 0..n |-> IF i = 0 THEN <<>> ELSE IF i \in at THEN Append(f[i - 1], seq[i]) ELSE f[i - 1]]
    BY <2>1 DEF Picks
  <2>3. ASSUME NEW i \in 0..(n + 1)
        PROVE  g[i] = IF i = 0 THEN <<>> ELSE IF i \in at THEN Append(g[i - 1], seq[i]) ELSE g[i - 1]
    <3>1. CASE i = n + 1
      <4>1. g[i] = next /\ i # 0
        BY <3>1
      <4>2. g[i - 1] = f[n]
        BY <3>1
      <4> QED
        BY <3>1, <4>1, <4>2
    <3>2. CASE i # n + 1
      <4>1. i \in 0..n /\ g[i] = f[i]
        BY <3>2
      <4>2. i # 0 => g[i - 1] = f[i - 1]
        BY <4>1
      <4>3. f[i] = IF i = 0 THEN <<>> ELSE IF i \in at THEN Append(f[i - 1], seq[i]) ELSE f[i - 1]
        BY <2>2, <4>1
      <4> QED
        BY <4>1, <4>2, <4>3
    <3> QED
      BY <3>1, <3>2
  <2>4. Picks(g, seq, at, n + 1)
    BY <2>3 DEF Picks
  <2> QED
    BY <2>4
<1> HIDE DEF P
<1>3. Nat \subseteq P
  BY <1>1, <1>2, NumbersFromZero, Zenon
<1> QED
  BY <1>3 DEF P

LEMMA PickedPicks ==
    ASSUME NEW seq, NEW at, Len(seq) \in Nat
    PROVE  \E f : Picks(f, seq, at, Len(seq)) /\ Picked(seq, at) = f[Len(seq)]
<1> DEFINE upTo == CHOOSE g : g = [i \in 0..Len(seq) |->
                                      IF i = 0 THEN <<>>
                                      ELSE IF i \in at THEN Append(g[i - 1], seq[i]) ELSE g[i - 1]]
<1>1. Picked(seq, at) = upTo[Len(seq)]
  BY DEF Picked
<1>2. \E f : Picks(f, seq, at, Len(seq))
  BY SomethingPicks
<1>3. Picks(upTo, seq, at, Len(seq))
  BY <1>2, Zenon DEF Picks
<1> QED
  BY <1>1, <1>3

LEMMA PicksAgree ==
    ASSUME NEW s, NEW a, NEW k \in Nat, NEW f, Picks(f, s, a, k),
           NEW t, NEW b, NEW l \in Nat, NEW g, Picks(g, t, b, l),
           l <= k, \A i \in 1..l : (i \in a <=> i \in b) /\ (i \in a => s[i] = t[i])
    PROVE  f[l] = g[l]
<1> DEFINE P == {n \in Nat : n <= l => f[n] = g[n]}
<1>1. 0 \in P
  BY DEF Picks
<1>2. ASSUME NEW n \in Nat, n \in P PROVE n + 1 \in P
  <2> SUFFICES ASSUME n + 1 <= l PROVE f[n + 1] = g[n + 1]
    OBVIOUS
  <2>1. f[n] = g[n]
    BY <1>2
  <2>2. n + 1 \in 0..k /\ n + 1 \in 0..l /\ n + 1 \in 1..l /\ n + 1 # 0 /\ (n + 1) - 1 = n
    OBVIOUS
  <2>3. f[n + 1] = IF n + 1 \in a THEN Append(f[n], s[n + 1]) ELSE f[n]
    BY <2>2 DEF Picks
  <2>4. g[n + 1] = IF n + 1 \in b THEN Append(g[n], t[n + 1]) ELSE g[n]
    BY <2>2 DEF Picks
  <2> QED
    BY <2>1, <2>2, <2>3, <2>4
<1> HIDE DEF P
<1>3. Nat \subseteq P
  BY <1>1, <1>2, NumbersFromZero, Zenon
<1> QED
  BY <1>3 DEF P

LEMMA PickedSame ==
    ASSUME NEW s, NEW a, NEW t, NEW b, Len(s) \in Nat, Len(t) = Len(s),
           \A i \in 1..Len(s) : (i \in a <=> i \in b) /\ (i \in a => s[i] = t[i])
    PROVE  Picked(s, a) = Picked(t, b)
<1>1. PICK f : Picks(f, s, a, Len(s)) /\ Picked(s, a) = f[Len(s)]
  BY PickedPicks
<1>2. PICK g : Picks(g, t, b, Len(s)) /\ Picked(t, b) = g[Len(s)]
  BY PickedPicks
<1> QED
  BY <1>1, <1>2, PicksAgree

LEMMA PickedNothing == ASSUME NEW at PROVE Picked(<<>>, at) = <<>>
<1>1. Len(<<>>) = 0
  OBVIOUS
<1>2. PICK f : Picks(f, <<>>, at, 0) /\ Picked(<<>>, at) = f[0]
  BY <1>1, PickedPicks
<1> QED
  BY <1>2 DEF Picks

(* One element more: s is the longer sequence, t what it was.              *)
LEMMA PickedAppend ==
    ASSUME NEW s, NEW t, NEW a, NEW b, Len(t) \in Nat, Len(s) = Len(t) + 1,
           \A i \in 1..Len(t) : (i \in a <=> i \in b) /\ (i \in a => s[i] = t[i])
    PROVE  Picked(s, a) = IF Len(s) \in a THEN Append(Picked(t, b), s[Len(s)]) ELSE Picked(t, b)
<1>1. PICK f : Picks(f, s, a, Len(s)) /\ Picked(s, a) = f[Len(s)]
  BY PickedPicks
<1>2. PICK g : Picks(g, t, b, Len(t)) /\ Picked(t, b) = g[Len(t)]
  BY PickedPicks
<1>3. f[Len(t)] = g[Len(t)]
  <2>1. Len(s) \in Nat /\ Len(t) <= Len(s)
    OBVIOUS
  <2> QED
    BY <1>1, <1>2, <2>1, PicksAgree
<1>4. Len(s) \in 0..Len(s) /\ Len(s) # 0 /\ Len(s) - 1 = Len(t)
  OBVIOUS
<1>5. f[Len(s)] = IF Len(s) \in a THEN Append(f[Len(s) - 1], s[Len(s)]) ELSE f[Len(s) - 1]
  BY <1>1, <1>4 DEF Picks
<1> QED
  BY <1>1, <1>2, <1>3, <1>4, <1>5

LEMMA PickedBefore ==
    ASSUME NEW s, NEW t, NEW a, NEW b, Len(t) \in Nat, Len(s) = Len(t) + 1, Len(s) \notin a,
           \A i \in 1..Len(t) : (i \in a <=> i \in b) /\ s[i] = t[i]
    PROVE  Picked(s, a) = Picked(t, b)
BY PickedAppend

LEMMA PickedType ==
    ASSUME NEW S, NEW s, NEW a, Len(s) \in Nat, \A i \in 1..Len(s) : i \in a => s[i] \in S
    PROVE  Picked(s, a) \in Seq(S)
<1>1. PICK f : Picks(f, s, a, Len(s)) /\ Picked(s, a) = f[Len(s)]
  BY PickedPicks
<1> DEFINE P == {n \in Nat : n <= Len(s) => f[n] \in Seq(S)}
<1>2. 0 \in P
  <2>1. f[0] = <<>> /\ <<>> \in Seq(S)
    BY <1>1 DEF Picks
  <2> QED
    BY <2>1
<1>3. ASSUME NEW n \in Nat, n \in P PROVE n + 1 \in P
  <2> SUFFICES ASSUME n + 1 <= Len(s) PROVE f[n + 1] \in Seq(S)
    OBVIOUS
  <2>1. n + 1 \in 0..Len(s) /\ n + 1 \in 1..Len(s) /\ n + 1 # 0 /\ (n + 1) - 1 = n /\ f[n] \in Seq(S)
    BY <1>3
  <2>2. f[n + 1] = IF n + 1 \in a THEN Append(f[n], s[n + 1]) ELSE f[n]
    BY <1>1, <2>1 DEF Picks
  <2> QED
    BY <2>1, <2>2
<1> HIDE DEF P
<1>4. Nat \subseteq P
  BY <1>2, <1>3, NumbersFromZero, Zenon
<1> QED
  BY <1>1, <1>4 DEF P

(* Nothing is picked at no position.                                       *)
LEMMA PickedNowhere ==
    ASSUME NEW s, NEW a, Len(s) \in Nat, \A i \in 1..Len(s) : i \notin a
    PROVE  Picked(s, a) = <<>>
<1>1. Picked(s, a) \in Seq({})
  BY PickedType
<1> QED
  BY <1>1, EmptySeq

-----------------------------------------------------------------------------
(* The lines of a body, when one byte more is read.                        *)
Bytes == {"CR", "LF", "d", "e", "#"}
Lines == Seq(Bytes)
Texts == Seq(Lines)

SinceLast(ends, n) == {j \in 1..n : \A end \in ends : end < j}
PendingOf(text) == Picked(text, SinceLast(LineEnds(text), Len(text)) \cap Letters(text))
AfterCr(text) == text # <<>> /\ text[Len(text)] = "CR"

Grows(more, text, byte) ==
    /\ Len(text) \in Nat /\ Len(more) = Len(text) + 1 /\ more[Len(more)] = byte
    /\ DOMAIN more = 1..Len(more) /\ DOMAIN text = 1..Len(text)
    /\ \A i \in 1..Len(text) : /\ more[i] = text[i]
                               /\ i \in LineEnds(more) <=> i \in LineEnds(text)
                               /\ i \in Letters(more) <=> i \in Letters(text)
    /\ LineEnds(text) \subseteq 1..Len(text) /\ LineEnds(more) \subseteq 1..Len(more)
    /\ Len(more) \in LineEnds(more) <=> byte = "CR" \/ (byte = "LF" /\ ~AfterCr(text))
    /\ Len(more) \in Letters(more) <=> byte \notin {"CR", "LF"}

LEMMA OneByteMore ==
    ASSUME NEW text \in Lines, NEW byte \in Bytes, NEW more, more = Append(text, byte)
    PROVE  Grows(more, text, byte)
<1>1. /\ Len(text) \in Nat /\ Len(more) = Len(text) + 1 /\ more \in Lines /\ more[Len(more)] = byte
      /\ DOMAIN more = 1..Len(more) /\ DOMAIN text = 1..Len(text)
      /\ \A i \in 1..Len(text) : more[i] = text[i]
  BY DEF Lines
<1>2. ASSUME NEW i \in 1..Len(text)
      PROVE  /\ i \in LineEnds(more) <=> i \in LineEnds(text)
             /\ i \in Letters(more) <=> i \in Letters(text)
  <2>1. i \in DOMAIN text /\ i \in DOMAIN more /\ more[i] = text[i]
    BY <1>1
  <2>2. i > 1 => more[i - 1] = text[i - 1]
    BY <1>1
  <2> QED
    BY <2>1, <2>2 DEF LineEnds, Letters
<1>3. LineEnds(text) \subseteq 1..Len(text) /\ LineEnds(more) \subseteq 1..Len(more)
  BY <1>1 DEF LineEnds
<1>4. Len(more) \in DOMAIN more
  BY <1>1
<1>5. Len(more) \in LineEnds(more) <=> byte = "CR" \/ (byte = "LF" /\ ~AfterCr(text))
  <2>1. (Len(more) > 1 /\ more[Len(more) - 1] = "CR") <=> AfterCr(text)
    <3>1. CASE text = <<>>
      BY <1>1, <3>1 DEF AfterCr
    <3>2. CASE text # <<>>
      <4>1. Len(text) > 0
        BY <3>2 DEF Lines
      <4>2. Len(text) \in 1..Len(text) /\ Len(more) - 1 = Len(text) /\ Len(more) > 1
        BY <1>1, <4>1
      <4>3. more[Len(more) - 1] = text[Len(text)]
        BY <1>1, <4>2
      <4> QED
        BY <3>2, <4>2, <4>3 DEF AfterCr
    <3> QED
      BY <3>1, <3>2
  <2> QED
    BY <1>1, <1>4, <2>1 DEF LineEnds
<1>6. Len(more) \in Letters(more) <=> byte \notin {"CR", "LF"}
  BY <1>1, <1>4 DEF Letters
<1> QED
  BY <1>1, <1>2, <1>3, <1>5, <1>6 DEF Grows

LEMMA LinesGrow ==
    ASSUME NEW text, NEW byte, NEW more, Grows(more, text, byte)
    PROVE  LinesOf(more) = IF Len(more) \in LineEnds(more) THEN Append(LinesOf(text), PendingOf(text))
                           ELSE LinesOf(text)
<1> DEFINE At(i) == Since(LineEnds(more), i) \cap Letters(more)
           Was(i) == Since(LineEnds(text), i) \cap Letters(text)
           s == [i \in DOMAIN more |-> Picked(more, At(i))]
           t == [i \in DOMAIN text |-> Picked(text, Was(i))]
<1>1. /\ Len(text) \in Nat /\ Len(more) = Len(text) + 1
      /\ DOMAIN more = 1..Len(more) /\ DOMAIN text = 1..Len(text)
      /\ \A i \in 1..Len(text) : /\ more[i] = text[i]
                                 /\ i \in LineEnds(more) <=> i \in LineEnds(text)
                                 /\ i \in Letters(more) <=> i \in Letters(text)
      /\ LineEnds(text) \subseteq 1..Len(text) /\ LineEnds(more) \subseteq 1..Len(more)
  BY DEF Grows
<1>0. Len(text) \in Nat /\ Len(more) = Len(text) + 1
  BY <1>1
<1>2. LinesOf(more) = Picked(s, LineEnds(more)) /\ LinesOf(text) = Picked(t, LineEnds(text))
  BY DEF LinesOf
<1>3. /\ Len(s) = Len(more) /\ Len(t) = Len(text) /\ s[Len(more)] = Picked(more, At(Len(more)))
      /\ \A i \in 1..Len(text) : s[i] = Picked(more, At(i)) /\ t[i] = Picked(text, Was(i))
  BY <1>1
<1>4. ASSUME NEW i \in 1..Len(text) PROVE Picked(more, At(i)) = Picked(text, Was(i))
  <2>1. Len(more) \notin At(i)
    BY <1>1 DEF Since
  <2>2. \A j \in 1..Len(text) : (j \in At(i) <=> j \in Was(i)) /\ more[j] = text[j]
    BY <1>1 DEF Since
  <2> HIDE DEF At, Was
  <2> QED
    BY <1>0, <2>1, <2>2, PickedBefore
<1>5. Len(more) \in LineEnds(more) => Picked(more, At(Len(more))) = PendingOf(text)
  <2> SUFFICES ASSUME Len(more) \in LineEnds(more) PROVE Picked(more, At(Len(more))) = PendingOf(text)
    OBVIOUS
  <2> DEFINE open == SinceLast(LineEnds(text), Len(text)) \cap Letters(text)
  <2>1. Len(more) \notin At(Len(more))
    BY <1>1 DEF Letters, LineEnds
  <2>2. \A j \in 1..Len(text) : (j \in At(Len(more)) <=> j \in open) /\ more[j] = text[j]
    BY <1>1 DEF Since, SinceLast
  <2> HIDE DEF At, open
  <2>3. Picked(more, At(Len(more))) = Picked(text, open)
    BY <1>0, <2>1, <2>2, PickedBefore
  <2> QED
    BY <2>3 DEF PendingOf, open
<1> HIDE DEF s, t, At, Was
<1>6. /\ Len(t) \in Nat /\ Len(s) = Len(t) + 1
      /\ \A i \in 1..Len(t) : (i \in LineEnds(more) <=> i \in LineEnds(text)) /\ s[i] = t[i]
  BY <1>1, <1>3, <1>4
<1>7. Picked(s, LineEnds(more)) = IF Len(s) \in LineEnds(more) THEN Append(Picked(t, LineEnds(text)), s[Len(s)])
                                  ELSE Picked(t, LineEnds(text))
  BY <1>6, PickedAppend
<1> QED
  BY <1>0, <1>2, <1>3, <1>5, <1>7

LEMMA PendingGrows ==
    ASSUME NEW text, NEW byte, NEW more, Grows(more, text, byte)
    PROVE  PendingOf(more) = IF Len(more) \in LineEnds(more) THEN <<>>
                             ELSE IF byte \in {"CR", "LF"} THEN PendingOf(text)
                             ELSE Append(PendingOf(text), byte)
<1> DEFINE at == SinceLast(LineEnds(more), Len(more)) \cap Letters(more)
           was == SinceLast(LineEnds(text), Len(text)) \cap Letters(text)
<1>1. /\ Len(text) \in Nat /\ Len(more) = Len(text) + 1 /\ more[Len(more)] = byte
      /\ \A i \in 1..Len(text) : /\ more[i] = text[i]
                                 /\ i \in LineEnds(more) <=> i \in LineEnds(text)
                                 /\ i \in Letters(more) <=> i \in Letters(text)
      /\ LineEnds(text) \subseteq 1..Len(text) /\ LineEnds(more) \subseteq 1..Len(more)
      /\ Len(more) \in Letters(more) <=> byte \notin {"CR", "LF"}
  BY DEF Grows
<1>0. Len(text) \in Nat /\ Len(more) = Len(text) + 1
  BY <1>1
<1>2. PendingOf(more) = Picked(more, at) /\ PendingOf(text) = Picked(text, was)
  BY DEF PendingOf
<1>3. CASE Len(more) \in LineEnds(more)
  <2>1. \A i \in 1..Len(more) : i \notin at
    BY <1>1, <1>3 DEF SinceLast
  <2>2. Len(more) \in Nat
    BY <1>1
  <2> HIDE DEF at
  <2> QED
    BY <1>2, <1>3, <2>1, <2>2, PickedNowhere, Zenon
<1>4. CASE Len(more) \notin LineEnds(more)
  <2>1. \A j \in 1..Len(text) : (j \in at <=> j \in was) /\ more[j] = text[j]
    BY <1>1, <1>4 DEF SinceLast
  <2>2. Len(more) \in at <=> byte \notin {"CR", "LF"}
    BY <1>1, <1>4 DEF SinceLast
  <2> HIDE DEF at, was
  <2> QED
    <3>1. Picked(more, at) = IF Len(more) \in at THEN Append(Picked(text, was), more[Len(more)])
                             ELSE Picked(text, was)
      BY <1>0, <2>1, PickedAppend
    <3> QED
      BY <1>1, <1>2, <1>4, <2>2, <3>1
<1> QED
  BY <1>3, <1>4

LEMMA LinesTyped ==
    ASSUME NEW text \in Lines PROVE LinesOf(text) \in Seq(Lines) /\ PendingOf(text) \in Lines
<1> DEFINE At(i) == Since(LineEnds(text), i) \cap Letters(text)
           t == [i \in DOMAIN text |-> Picked(text, At(i))]
<1>1. Len(text) \in Nat /\ DOMAIN text = 1..Len(text) /\ \A i \in 1..Len(text) : text[i] \in Bytes
  BY DEF Lines
<1>2. \A a : Picked(text, a) \in Lines
  BY <1>1, PickedType DEF Lines
<1>3. Len(t) = Len(text) /\ \A i \in 1..Len(text) : t[i] = Picked(text, At(i))
  BY <1>1
<1> HIDE DEF t, At
<1>4. Picked(t, LineEnds(text)) \in Seq(Lines)
  BY <1>1, <1>2, <1>3, PickedType
<1> QED
  BY <1>2, <1>4 DEF LinesOf, PendingOf, t, At

-----------------------------------------------------------------------------
(* The frames of the lines, when one line more is read.                    *)
Current(lines) == SinceLast(Blanks(lines), Len(lines))

Longer(more, lines, line) ==
    /\ Len(lines) \in Nat /\ Len(more) = Len(lines) + 1 /\ more[Len(more)] = line
    /\ DOMAIN more = 1..Len(more) /\ DOMAIN lines = 1..Len(lines)
    /\ \A k \in 1..Len(lines) : more[k] = lines[k]

LEMMA OneLineMore ==
    ASSUME NEW lines \in Texts, NEW line \in Lines
    PROVE  Longer(Append(lines, line), lines, line)
BY DEF Longer, Texts

LEMMA FieldSame ==
    ASSUME NEW lines, NEW line, NEW more, Longer(more, lines, line),
           NEW block, block \subseteq 1..Len(lines), NEW letter
    PROVE  Field(more, block, letter) = Field(lines, block, letter)
<1> DEFINE at == {k \in block : more[k] # <<>> /\ Head(more[k]) = letter}
           was == {k \in block : lines[k] # <<>> /\ Head(lines[k]) = letter}
<1>1. Len(lines) \in Nat /\ Len(more) = Len(lines) + 1 /\ \A k \in 1..Len(lines) : more[k] = lines[k]
  BY DEF Longer
<1>2. Len(more) \notin at
  BY <1>1
<1>4. at = was
  <2>1. \A k \in block : more[k] = lines[k]
    BY <1>1
  <2> QED
    BY <2>1
<1> HIDE DEF at, was
<1>3. Picked(more, at) = Picked(lines, was)
  BY <1>1, <1>2, <1>4, PickedBefore
<1> QED
  BY <1>3 DEF Field, at, was

LEMMA TailsAppend ==
    ASSUME NEW s \in Seq(Lines), \A k \in DOMAIN s : s[k] # <<>>, NEW line \in Lines, line # <<>>
    PROVE  [k \in DOMAIN Append(s, line) |-> Tail(Append(s, line)[k])]
             = Append([k \in DOMAIN s |-> Tail(s[k])], Tail(line))
<1> DEFINE more == Append(s, line)
           tails == [k \in DOMAIN s |-> Tail(s[k])]
           all == [k \in DOMAIN more |-> Tail(more[k])]
<1>1. /\ Len(s) \in Nat /\ DOMAIN more = 1..(Len(s) + 1) /\ DOMAIN s = 1..Len(s)
      /\ more[Len(s) + 1] = line /\ \A k \in 1..Len(s) : more[k] = s[k]
  OBVIOUS
<1> HIDE DEF more
<1>2. DOMAIN tails = 1..Len(s) /\ DOMAIN all = 1..(Len(s) + 1)
  BY <1>1
<1>3. \A k \in 1..(Len(s) + 1) : all[k] = IF k = Len(s) + 1 THEN Tail(line) ELSE tails[k]
  BY <1>1
<1>4. Tail(line) \in Lines /\ \A k \in 1..Len(s) : tails[k] \in Lines
  <2>1. \A l \in Lines : l # <<>> => Tail(l) \in Lines
    BY DEF Lines
  <2> QED
    BY <1>1, <2>1
<1>5. tails \in Seq(Lines) /\ Len(tails) = Len(s)
  BY <1>1, <1>2, <1>4
<1>6. all \in Seq(Lines) /\ Len(all) = Len(s) + 1
  BY <1>1, <1>2, <1>3, <1>4
<1> HIDE DEF tails, all
<1>7. /\ Append(tails, Tail(line)) \in Seq(Lines) /\ Len(Append(tails, Tail(line))) = Len(s) + 1
      /\ \A k \in 1..(Len(s) + 1) : Append(tails, Tail(line))[k] = IF k = Len(s) + 1 THEN Tail(line) ELSE tails[k]
  BY <1>1, <1>4, <1>5
<1>8. all = Append(tails, Tail(line))
  BY <1>3, <1>6, <1>7, SeqEqual
<1> QED
  BY <1>8 DEF all, tails, more

LEMMA BlocksGrow ==
    ASSUME NEW lines, NEW line, NEW more, Longer(more, lines, line)
    PROVE  /\ Blanks(lines) \subseteq 1..Len(lines) /\ Current(lines) \subseteq 1..Len(lines)
           /\ \A k \in 1..Len(lines) : /\ k \in Blanks(more) <=> k \in Blanks(lines)
                                       /\ Since(Blanks(more), k) = Since(Blanks(lines), k)
                                       /\ Since(Blanks(lines), k) \subseteq 1..Len(lines)
           /\ Len(more) \in Blanks(more) <=> line = <<>>
           /\ Since(Blanks(more), Len(more)) = Current(lines) \cup {Len(more)}
           /\ Current(more) = IF line = <<>> THEN {} ELSE Current(lines) \cup {Len(more)}
<1>1. /\ Len(lines) \in Nat /\ Len(more) = Len(lines) + 1 /\ more[Len(more)] = line
      /\ DOMAIN more = 1..Len(more) /\ DOMAIN lines = 1..Len(lines)
      /\ \A k \in 1..Len(lines) : more[k] = lines[k]
  BY DEF Longer
<1>2. Blanks(lines) \subseteq 1..Len(lines) /\ Blanks(more) \subseteq 1..Len(more)
  BY <1>1 DEF Blanks
<1>3. \A k \in 1..Len(lines) : k \in Blanks(more) <=> k \in Blanks(lines)
  BY <1>1 DEF Blanks
<1>4. Len(more) \in Blanks(more) <=> line = <<>>
  BY <1>1 DEF Blanks
<1>5. Current(lines) \subseteq 1..Len(lines)
  BY DEF Current, SinceLast
<1>6. ASSUME NEW k \in 1..Len(lines)
      PROVE  Since(Blanks(more), k) = Since(Blanks(lines), k) /\ Since(Blanks(lines), k) \subseteq 1..Len(lines)
  <2>1. \A end : end \in Blanks(more) /\ end < k <=> end \in Blanks(lines) /\ end < k
    BY <1>1, <1>2, <1>3
  <2> QED
    BY <1>1, <2>1 DEF Since
<1>7. Since(Blanks(more), Len(more)) = Current(lines) \cup {Len(more)}
  <2>1. \A end : end \in Blanks(more) /\ end < Len(more) <=> end \in Blanks(lines)
    BY <1>1, <1>2, <1>3
  <2>2. \A j : j \in Since(Blanks(more), Len(more)) <=>
                  j \in 1..Len(more) /\ \A end \in Blanks(lines) : end < j
    BY <2>1 DEF Since
  <2>3. \A end \in Blanks(lines) : end < Len(more)
    BY <1>1, <1>2
  <2>4. \A j : j \in Current(lines) <=> j \in 1..Len(lines) /\ \A end \in Blanks(lines) : end < j
    BY DEF Current, SinceLast
  <2>5. 1..Len(more) = (1..Len(lines)) \cup {Len(more)}
    BY <1>1
  <2> QED
    BY <2>2, <2>3, <2>4, <2>5
<1>8. CASE line = <<>>
  <2>1. Current(more) = {}
    BY <1>1, <1>4, <1>8 DEF Current, SinceLast
  <2> QED
    BY <1>2, <1>3, <1>4, <1>5, <1>6, <1>7, <1>8, <2>1
<1>9. CASE line # <<>>
  <2>1. Blanks(more) = Blanks(lines)
    <3>1. Len(more) \notin Blanks(more)
      BY <1>4, <1>9
    <3>2. 1..Len(more) = (1..Len(lines)) \cup {Len(more)}
      BY <1>1
    <3> QED
      BY <1>2, <1>3, <3>1, <3>2
  <2>2. Current(more) = Since(Blanks(more), Len(more))
    BY <1>1, <1>2, <2>1 DEF Current, SinceLast, Since
  <2> QED
    BY <1>2, <1>3, <1>4, <1>5, <1>6, <1>7, <1>9, <2>2
<1> QED
  BY <1>8, <1>9

LEMMA FieldGrows ==
    ASSUME NEW lines \in Texts, NEW line \in Lines, NEW more, Longer(more, lines, line), NEW letter
    PROVE  Field(more, Current(lines) \cup {Len(more)}, letter)
             = IF line # <<>> /\ Head(line) = letter
               THEN Append(Field(lines, Current(lines), letter), Tail(line))
               ELSE Field(lines, Current(lines), letter)
<1> DEFINE block == Current(lines)
           at == {k \in block \cup {Len(more)} : more[k] # <<>> /\ Head(more[k]) = letter}
           was == {k \in block : lines[k] # <<>> /\ Head(lines[k]) = letter}
           named == Picked(lines, was)
<1>1. /\ Len(lines) \in Nat /\ Len(more) = Len(lines) + 1 /\ more[Len(more)] = line
      /\ \A k \in 1..Len(lines) : more[k] = lines[k]
  BY DEF Longer
<1>0. block \subseteq 1..Len(lines)
  BY BlocksGrow
<1> HIDE DEF block
<1>2. \A k \in 1..Len(lines) : (k \in at <=> k \in was) /\ more[k] = lines[k]
  BY <1>0, <1>1
<1>3. Len(more) \in at <=> line # <<>> /\ Head(line) = letter
  BY <1>1
<1>4. named \in Seq(Lines) /\ \A k \in DOMAIN named : named[k] # <<>>
  <2>1. \A k \in 1..Len(lines) : k \in was => lines[k] \in Lines \ {<<>>}
    BY DEF Texts
  <2> HIDE DEF was
  <2>2. named \in Seq(Lines \ {<<>>})
    BY <1>1, <2>1, PickedType
  <2> HIDE DEF named
  <2> QED
    BY <2>2
<1>5. /\ Field(more, block \cup {Len(more)}, letter) = [k \in DOMAIN Picked(more, at) |-> Tail(Picked(more, at)[k])]
      /\ Field(lines, block, letter) = [k \in DOMAIN named |-> Tail(named[k])]
  BY DEF Field
<1> HIDE DEF at, was, named
<1>6. Picked(more, at) = IF Len(more) \in at THEN Append(named, line) ELSE named
  <2>1. Picked(more, at) = IF Len(more) \in at THEN Append(Picked(lines, was), more[Len(more)])
                           ELSE Picked(lines, was)
    BY <1>1, <1>2, PickedAppend
  <2> QED
    BY <1>1, <2>1 DEF named
<1>7. CASE Len(more) \in at
  BY <1>3, <1>4, <1>5, <1>6, <1>7, TailsAppend, Zenon DEF block
<1>8. CASE Len(more) \notin at
  BY <1>3, <1>5, <1>6, <1>8, Zenon DEF block
<1> QED
  BY <1>7, <1>8

(* A blank line ends a block, which is a frame if it has data.             *)
FrameDue(lines) ==
    IF Field(lines, Current(lines), "d") = <<>> THEN <<>> ELSE <<BlockFrame(lines, Current(lines))>>

Frames == [event : {NoEvent} \cup Lines, data : Seq(Lines)]

LEMMA FieldTyped ==
    ASSUME NEW lines \in Texts, NEW block, NEW letter PROVE Field(lines, block, letter) \in Seq(Lines)
<1> DEFINE was == {k \in block : lines[k] # <<>> /\ Head(lines[k]) = letter}
           named == Picked(lines, was)
<1>1. Len(lines) \in Nat /\ \A k \in 1..Len(lines) : k \in was => lines[k] \in Lines \ {<<>>}
  BY DEF Texts
<1> HIDE DEF was
<1>2. named \in Seq(Lines \ {<<>>})
  BY <1>1, PickedType
<1> HIDE DEF named
<1>3. \A line \in Lines \ {<<>>} : Tail(line) \in Lines
  BY DEF Lines
<1>4. \A k \in DOMAIN named : named[k] \in Lines \ {<<>>}
  BY <1>2
<1>5. DOMAIN named = 1..Len(named) /\ Len(named) \in Nat
  BY <1>2
<1>6. [k \in DOMAIN named |-> Tail(named[k])] \in Seq(Lines)
  BY <1>3, <1>4, <1>5
<1> QED
  BY <1>6 DEF Field, named, was

LEMMA FramesTyped ==
    ASSUME NEW lines \in Texts
    PROVE  /\ \A block : BlockFrame(lines, block) \in Frames
           /\ FramesOf(lines) \in Seq(Frames)
<1>1. ASSUME NEW block PROVE BlockFrame(lines, block) \in Frames
  <2> DEFINE names == Field(lines, block, "e")
  <2>1. names \in Seq(Lines) /\ Field(lines, block, "d") \in Seq(Lines)
    BY FieldTyped
  <2>2. names # <<>> => names[Len(names)] \in Lines
    BY <2>1
  <2> HIDE DEF names
  <2> QED
    BY <2>1, <2>2 DEF BlockFrame, Frames, names
<1> DEFINE at == {k \in Blanks(lines) : Field(lines, Since(Blanks(lines), k), "d") # <<>>}
           s == [k \in DOMAIN lines |-> BlockFrame(lines, Since(Blanks(lines), k))]
<1>2. Len(s) \in Nat /\ \A k \in 1..Len(s) : s[k] \in Frames
  <2>1. DOMAIN lines = 1..Len(lines) /\ Len(lines) \in Nat
    BY DEF Texts
  <2>2. Len(s) = Len(lines)
    BY <2>1
  <2> QED
    BY <1>1, <2>1, <2>2
<1> HIDE DEF at, s
<1>3. Picked(s, at) \in Seq(Frames)
  BY <1>2, PickedType
<1> QED
  BY <1>1, <1>3 DEF FramesOf, at, s

LEMMA FramesGrow ==
    ASSUME NEW lines \in Texts, NEW line \in Lines, NEW more, Longer(more, lines, line)
    PROVE  FramesOf(more) = IF line = <<>> THEN FramesOf(lines) \o FrameDue(lines) ELSE FramesOf(lines)
<1> DEFINE BlockAt(k) == Since(Blanks(more), k)
           Was(k) == Since(Blanks(lines), k)
           s == [k \in DOMAIN more |-> BlockFrame(more, BlockAt(k))]
           t == [k \in DOMAIN lines |-> BlockFrame(lines, Was(k))]
           at == {k \in Blanks(more) : Field(more, BlockAt(k), "d") # <<>>}
           was == {k \in Blanks(lines) : Field(lines, Was(k), "d") # <<>>}
<1>1. /\ Len(lines) \in Nat /\ Len(more) = Len(lines) + 1
      /\ DOMAIN more = 1..Len(more) /\ DOMAIN lines = 1..Len(lines)
  BY DEF Longer
<1>2. FramesOf(more) = Picked(s, at) /\ FramesOf(lines) = Picked(t, was)
  BY DEF FramesOf
<1>3. ASSUME NEW k \in 1..Len(lines)
      PROVE  (k \in at <=> k \in was) /\ s[k] = t[k]
  <2>1. BlockAt(k) = Was(k) /\ Was(k) \subseteq 1..Len(lines) /\ (k \in Blanks(more) <=> k \in Blanks(lines))
    BY BlocksGrow
  <2>2. \A letter : Field(more, BlockAt(k), letter) = Field(lines, Was(k), letter)
    BY <2>1, FieldSame
  <2>3. BlockFrame(more, BlockAt(k)) = BlockFrame(lines, Was(k))
    BY <2>2 DEF BlockFrame
  <2>4. k \in DOMAIN more /\ k \in DOMAIN lines
    BY <1>1
  <2> HIDE DEF BlockAt, Was
  <2> QED
    BY <2>1, <2>2, <2>3, <2>4
<1>4. Len(s) = Len(more) /\ Len(t) = Len(lines) /\ s[Len(more)] = BlockFrame(more, BlockAt(Len(more)))
  BY <1>1
<1>5. line = <<>> =>
        /\ Len(more) \in at <=> Field(lines, Current(lines), "d") # <<>>
        /\ BlockFrame(more, BlockAt(Len(more))) = BlockFrame(lines, Current(lines))
  <2> SUFFICES ASSUME line = <<>>
               PROVE  /\ Len(more) \in at <=> Field(lines, Current(lines), "d") # <<>>
                      /\ BlockFrame(more, BlockAt(Len(more))) = BlockFrame(lines, Current(lines))
    OBVIOUS
  <2>1. /\ BlockAt(Len(more)) = Current(lines) \cup {Len(more)} /\ Len(more) \in Blanks(more)
        /\ Current(lines) \subseteq 1..Len(lines)
    BY BlocksGrow
  <2>2. \A letter : Field(more, Current(lines) \cup {Len(more)}, letter) = Field(lines, Current(lines), letter)
    BY FieldGrows
  <2>3. /\ Field(more, BlockAt(Len(more)), "d") = Field(lines, Current(lines), "d")
        /\ Field(more, BlockAt(Len(more)), "e") = Field(lines, Current(lines), "e")
    BY <2>1, <2>2
  <2> HIDE DEF BlockAt
  <2> QED
    BY <2>1, <2>3 DEF BlockFrame
<1>6. line # <<>> => Len(more) \notin at
  BY BlocksGrow
<1> HIDE DEF s, t, at, was, BlockAt, Was
<1>7. /\ Len(t) \in Nat /\ Len(s) = Len(t) + 1
      /\ \A k \in 1..Len(t) : (k \in at <=> k \in was) /\ s[k] = t[k]
  BY <1>1, <1>3, <1>4
<1>8. Picked(s, at) = IF Len(s) \in at THEN Append(Picked(t, was), s[Len(s)]) ELSE Picked(t, was)
  BY <1>7, PickedAppend
<1>9. FramesOf(lines) \in Seq(Frames) /\ BlockFrame(lines, Current(lines)) \in Frames
  BY FramesTyped
<1>10. CASE line = <<>> /\ Field(lines, Current(lines), "d") # <<>>
  <2>1. FrameDue(lines) = <<BlockFrame(lines, Current(lines))>>
    BY <1>10 DEF FrameDue
  <2>2. FramesOf(more) = Append(FramesOf(lines), BlockFrame(lines, Current(lines)))
    BY <1>2, <1>4, <1>5, <1>8, <1>10
  <2>3. FramesOf(lines) \o <<BlockFrame(lines, Current(lines))>>
          = Append(FramesOf(lines), BlockFrame(lines, Current(lines)))
    BY <1>9
  <2> QED
    BY <1>10, <2>1, <2>2, <2>3
<1>11. CASE line = <<>> /\ Field(lines, Current(lines), "d") = <<>>
  <2>1. FrameDue(lines) = <<>>
    BY <1>11 DEF FrameDue
  <2>2. FramesOf(more) = FramesOf(lines)
    BY <1>2, <1>4, <1>5, <1>8, <1>11
  <2> QED
    BY <1>9, <1>11, <2>1, <2>2, ConcatEmptySeq
<1>12. CASE line # <<>>
  BY <1>2, <1>4, <1>6, <1>8, <1>12
<1> QED
  BY <1>10, <1>11, <1>12

-----------------------------------------------------------------------------
(* What the two generators hold when they have read a text: the letters    *)
(* since its last line end, and the fields since its last blank line.      *)
Shape(r) == DOMAIN r = {"pending", "skipLf", "event", "data", "size", "frames", "fault", "ended"}

EventIn(lines) ==
    LET names == Field(lines, Current(lines), "e") IN IF names = <<>> THEN NoEvent ELSE names[Len(names)]

HasRead(r, lines) ==
    /\ r.frames = FramesOf(lines)
    /\ r.data = Field(lines, Current(lines), "d")
    /\ r.event = EventIn(lines)

Reads(r, text) ==
    /\ r.pending = PendingOf(text)
    /\ r.skipLf = AfterCr(text)
    /\ HasRead(r, LinesOf(text))

LEMMA FieldNowhere ==
    ASSUME NEW lines, Len(lines) \in Nat, NEW letter PROVE Field(lines, {}, letter) = <<>>
<1> DEFINE at == {k \in {} : lines[k] # <<>> /\ Head(lines[k]) = letter}
<1>1. \A k \in 1..Len(lines) : k \notin at
  OBVIOUS
<1>2. Field(lines, {}, letter) = [k \in DOMAIN Picked(lines, at) |-> Tail(Picked(lines, at)[k])]
  BY DEF Field
<1> HIDE DEF at
<1>3. Picked(lines, at) = <<>>
  BY <1>1, PickedNowhere
<1> QED
  BY <1>2, <1>3

LEMMA FrameOfDue ==
    ASSUME NEW r, NEW lines, HasRead(r, lines) PROVE FrameOf(r) = FrameDue(lines)
BY DEF HasRead, FrameOf, FrameDue, BlockFrame, EventIn

LEMMA BlankAdds ==
    ASSUME NEW lines \in Texts, NEW more, more = Append(lines, <<>>)
    PROVE  /\ more \in Texts /\ FramesOf(more) = FramesOf(lines) \o FrameDue(lines)
           /\ \A letter : Field(more, Current(more), letter) = <<>>
           /\ FrameDue(more) = <<>>
<1>1. <<>> \in Lines
  BY DEF Lines
<1>2. more \in Texts
  BY <1>1 DEF Texts
<1>3. Longer(more, lines, <<>>)
  BY <1>1, OneLineMore
<1>4. FramesOf(more) = FramesOf(lines) \o FrameDue(lines)
  BY <1>1, <1>3, FramesGrow
<1>5. Current(more) = {}
  BY <1>3, BlocksGrow
<1>6. ASSUME NEW letter PROVE Field(more, Current(more), letter) = <<>>
  <2>1. Len(more) \in Nat
    BY <1>2 DEF Texts
  <2> QED
    BY <1>5, <2>1, FieldNowhere
<1>7. FrameDue(more) = <<>>
  BY <1>6 DEF FrameDue
<1> QED
  BY <1>2, <1>4, <1>6, <1>7

LEMMA LineAdds ==
    ASSUME NEW lines \in Texts, NEW line \in Lines, line # <<>>, NEW more, more = Append(lines, line)
    PROVE  FramesOf(more) = FramesOf(lines)
<1>1. Longer(more, lines, line)
  BY OneLineMore
<1> QED
  BY <1>1, FramesGrow

LEMMA LineAddsField ==
    ASSUME NEW lines \in Texts, NEW line \in Lines, line # <<>>, NEW more, Longer(more, lines, line), NEW letter
    PROVE  Field(more, Current(more), letter)
             = IF Head(line) = letter THEN Append(Field(lines, Current(lines), letter), Tail(line))
               ELSE Field(lines, Current(lines), letter)
<1>2. Current(more) = Current(lines) \cup {Len(more)}
  BY BlocksGrow
<1>3. Field(more, Current(lines) \cup {Len(more)}, letter)
        = IF line # <<>> /\ Head(line) = letter
          THEN Append(Field(lines, Current(lines), letter), Tail(line))
          ELSE Field(lines, Current(lines), letter)
  BY FieldGrows
<1> QED
  BY <1>2, <1>3

(* One pass of the loop over lines: a blank line, and another.             *)
LEMMA BlankRead ==
    ASSUME NEW r, Shape(r), NEW lines \in Texts, r.pending = <<>>, HasRead(r, lines),
           NEW next, next = EndLine(r), NEW more, more = Append(lines, <<>>)
    PROVE  /\ Shape(next) /\ next.pending = <<>> /\ next.skipLf = r.skipLf /\ next.ended = r.ended
           /\ HasRead(next, more)
<1>1. next = [r EXCEPT !.frames = @ \o FrameOf(r), !.event = NoEvent, !.data = <<>>, !.size = 0]
  BY DEF EndLine
<1>2. /\ Shape(next) /\ next.pending = <<>> /\ next.skipLf = r.skipLf /\ next.ended = r.ended
      /\ next.frames = r.frames \o FrameOf(r) /\ next.event = NoEvent /\ next.data = <<>>
  BY <1>1 DEF Shape
<1>3. /\ FramesOf(more) = FramesOf(lines) \o FrameDue(lines)
      /\ \A letter : Field(more, Current(more), letter) = <<>>
  BY BlankAdds
<1>4. FrameOf(r) = FrameDue(lines) /\ r.frames = FramesOf(lines)
  BY FrameOfDue DEF HasRead
<1>5. HasRead(next, more)
  BY <1>2, <1>3, <1>4 DEF HasRead, EventIn
<1> QED
  BY <1>2, <1>5

LEMMA FieldRead ==
    ASSUME NEW r, Shape(r), NEW lines \in Texts, NEW line \in Lines, r.pending = line, line # <<>>,
           HasRead(r, lines), NEW next, next = EndLine(r), ~next.fault, NEW more, more = Append(lines, line)
    PROVE  /\ Shape(next) /\ next.pending = <<>> /\ next.skipLf = r.skipLf /\ next.ended = r.ended
           /\ HasRead(next, more)
<1> DEFINE size == r.size + Len(line) + 1
           read == [r EXCEPT !.pending = <<>>, !.size = size]
<1>1. next = IF size > MaxSseEvent THEN [read EXCEPT !.fault = TRUE]
             ELSE CASE Head(line) = "d" -> [read EXCEPT !.data = Append(@, Tail(line))]
                    [] Head(line) = "e" -> [read EXCEPT !.event = Tail(line)]
                    [] OTHER -> read
  BY DEF EndLine
<1>2. ~(size > MaxSseEvent)
  <2>1. "fault" \in DOMAIN read
    BY DEF Shape
  <2> QED
    BY <1>1, <2>1
<1>3. FramesOf(more) = FramesOf(lines)
  BY LineAdds
<1>4. \A letter : Field(more, Current(more), letter)
                    = IF Head(line) = letter THEN Append(Field(lines, Current(lines), letter), Tail(line))
                      ELSE Field(lines, Current(lines), letter)
  <2>1. Longer(more, lines, line)
    BY OneLineMore
  <2> QED
    BY ONLY lines \in Texts, line \in Lines, line # <<>>, <2>1, LineAddsField
<1>5. /\ Shape(next) /\ next.pending = <<>> /\ next.skipLf = r.skipLf /\ next.ended = r.ended
      /\ next.frames = r.frames
      /\ next.data = IF Head(line) = "d" THEN Append(r.data, Tail(line)) ELSE r.data
      /\ next.event = IF Head(line) = "e" THEN Tail(line) ELSE r.event
  <2> HIDE DEF size
  <2>1. CASE Head(line) = "d"
    <3>1. next = [read EXCEPT !.data = Append(@, Tail(line))]
      BY <1>1, <1>2, <2>1
    <3> QED
      BY <2>1, <3>1 DEF Shape
  <2>2. CASE Head(line) = "e"
    <3>1. next = [read EXCEPT !.event = Tail(line)]
      BY <1>1, <1>2, <2>2
    <3> QED
      BY <2>2, <3>1 DEF Shape
  <2>3. CASE Head(line) \notin {"d", "e"}
    <3>1. next = read
      BY <1>1, <1>2, <2>3
    <3> QED
      BY <2>3, <3>1 DEF Shape
  <2> QED
    BY <2>1, <2>2, <2>3
<1>6. EventIn(more) = IF Head(line) = "e" THEN Tail(line) ELSE EventIn(lines)
  <2> DEFINE names == Field(lines, Current(lines), "e")
  <2>1. CASE Head(line) = "e"
    <3>1. Field(more, Current(more), "e") = Append(names, Tail(line))
      BY <1>4, <2>1
    <3>2. names \in Seq(Lines)
      BY FieldTyped
    <3> HIDE DEF names
    <3>3. Append(names, Tail(line)) # <<>> /\ Append(names, Tail(line))[Len(Append(names, Tail(line)))] = Tail(line)
      BY <3>2
    <3> QED
      BY <2>1, <3>1, <3>3 DEF EventIn
  <2>2. CASE Head(line) # "e"
    <3>1. Field(more, Current(more), "e") = names
      BY <1>4, <2>2
    <3> QED
      BY <2>2, <3>1 DEF EventIn
  <2> QED
    BY <2>1, <2>2
<1>7. next.data = Field(more, Current(more), "d")
  BY <1>4, <1>5 DEF HasRead
<1> QED
  BY <1>3, <1>5, <1>6, <1>7 DEF HasRead

LEMMA LineRead ==
    ASSUME NEW r, Shape(r), NEW lines \in Texts, r.pending \in Lines, HasRead(r, lines), ~EndLine(r).fault
    PROVE  LET next == EndLine(r)
           IN  /\ Shape(next) /\ next.pending = <<>>
               /\ next.skipLf = r.skipLf /\ next.ended = r.ended
               /\ HasRead(next, Append(lines, r.pending))
<1> DEFINE next == EndLine(r)
           more == Append(lines, r.pending)
<1>1. CASE r.pending = <<>>
  <2>1. more = Append(lines, <<>>)
    BY <1>1
  <2> HIDE DEF next, more
  <2> QED
    BY <1>1, <2>1, BlankRead DEF next, more
<1>2. CASE r.pending # <<>>
  <2>1. \A line \in Lines : \A n, m :
           r.pending = line /\ line # <<>> /\ n = EndLine(r) /\ ~n.fault /\ m = Append(lines, line)
           => /\ Shape(n) /\ n.pending = <<>> /\ n.skipLf = r.skipLf /\ n.ended = r.ended
              /\ HasRead(n, m)
    BY FieldRead, Zenon
  <2> QED
    BY <1>2, <2>1
<1> QED
  BY <1>1, <1>2

LEMMA NothingSinceCr ==
    ASSUME NEW text \in Lines, AfterCr(text) PROVE PendingOf(text) = <<>>
<1> DEFINE at == SinceLast(LineEnds(text), Len(text)) \cap Letters(text)
<1>1. Len(text) \in Nat /\ DOMAIN text = 1..Len(text) /\ Len(text) \in 1..Len(text) /\ text[Len(text)] = "CR"
  BY DEF AfterCr, Lines
<1>2. Len(text) \in LineEnds(text)
  BY <1>1 DEF LineEnds
<1>3. \A i \in 1..Len(text) : i \notin at
  BY <1>1, <1>2 DEF SinceLast
<1> HIDE DEF at
<1>4. Picked(text, at) = <<>>
  BY <1>1, <1>3, PickedNowhere
<1> QED
  BY <1>4 DEF PendingOf, at

LEMMA ByteRead ==
    ASSUME NEW r, Shape(r), NEW text \in Lines, NEW byte \in Bytes, Reads(r, text), ~ReadByte(r, byte).fault
    PROVE  LET next == ReadByte(r, byte)
           IN  Shape(next) /\ next.ended = r.ended /\ Reads(next, Append(text, byte))
<1> DEFINE next == ReadByte(r, byte)
           more == Append(text, byte)
           ready == [r EXCEPT !.skipLf = FALSE]
<1>1. Grows(more, text, byte)
  BY OneByteMore
<1>2. /\ LinesOf(more) = IF Len(more) \in LineEnds(more) THEN Append(LinesOf(text), PendingOf(text))
                         ELSE LinesOf(text)
      /\ PendingOf(more) = IF Len(more) \in LineEnds(more) THEN <<>>
                           ELSE IF byte \in {"CR", "LF"} THEN PendingOf(text)
                           ELSE Append(PendingOf(text), byte)
  BY <1>1, LinesGrow, PendingGrows
<1>3. Len(more) \in LineEnds(more) <=> byte = "CR" \/ (byte = "LF" /\ ~AfterCr(text))
  BY <1>1 DEF Grows
<1>4. AfterCr(more) <=> byte = "CR"
  <2>1. more # <<>> /\ more[Len(more)] = byte
    BY DEF Lines
  <2> QED
    BY <2>1 DEF AfterCr
<1>5. LinesOf(text) \in Texts /\ PendingOf(text) \in Lines
  BY LinesTyped DEF Texts
<1>6. /\ r.pending = PendingOf(text) /\ r.skipLf = AfterCr(text) /\ HasRead(r, LinesOf(text))
      /\ (r.skipLf \in BOOLEAN)
  BY DEF Reads, AfterCr
<1>7. /\ Shape(ready) /\ ready.skipLf = FALSE /\ ready.pending = r.pending /\ ready.ended = r.ended
      /\ ready.frames = r.frames /\ ready.data = r.data /\ ready.event = r.event
  BY DEF Shape
<1>8. HasRead(ready, LinesOf(text))
  BY <1>6, <1>7 DEF HasRead
<1> HIDE DEF ready, more
<1>a. next = CASE Skips(r, byte) -> ready
              [] ~Skips(r, byte) /\ byte = "CR" -> [EndLine(ready) EXCEPT !.skipLf = TRUE]
              [] ~Skips(r, byte) /\ byte = "LF" -> EndLine(ready)
              [] OTHER -> IF Len(r.pending) >= MaxSseLine THEN [ready EXCEPT !.fault = TRUE]
                          ELSE [ready EXCEPT !.pending = Append(@, byte)]
  BY DEF ReadByte, ready
<1> HIDE DEF next
<1>n. ~next.fault
  BY DEF next
<1>9. CASE Skips(r, byte)
  <2>1. next = ready /\ byte = "LF" /\ AfterCr(text)
    BY <1>6, <1>9, <1>a DEF Skips
  <2>2. LinesOf(more) = LinesOf(text) /\ PendingOf(more) = PendingOf(text) /\ ~AfterCr(more)
    BY <1>2, <1>3, <1>4, <2>1
  <2>3. next.skipLf = AfterCr(more)
    BY <1>7, <2>1, <2>2 DEF AfterCr
  <2>4. Reads(next, more)
    BY <1>6, <1>7, <1>8, <2>1, <2>2, <2>3 DEF Reads
  <2> QED
    BY <1>7, <2>1, <2>4 DEF next, more
<1>10. CASE ~Skips(r, byte) /\ byte \in {"CR", "LF"}
  <2> DEFINE line == EndLine(ready)
  <2>1. next = IF byte = "CR" THEN [line EXCEPT !.skipLf = TRUE] ELSE line
    BY <1>10, <1>a
  <2>2. byte = "CR" \/ (byte = "LF" /\ ~AfterCr(text))
    BY <1>6, <1>10 DEF Skips
  <2>3. LinesOf(more) = Append(LinesOf(text), PendingOf(text)) /\ PendingOf(more) = <<>>
    BY <1>2, <1>3, <2>2
  <2> HIDE DEF line
  <2>4. ~line.fault
    BY <1>n, <2>1
  <2>5. /\ Shape(line) /\ line.pending = <<>> /\ line.skipLf = FALSE /\ line.ended = r.ended
        /\ HasRead(line, Append(LinesOf(text), PendingOf(text)))
    BY <1>5, <1>6, <1>7, <1>8, <2>4, LineRead DEF line
  <2>6. /\ Shape(next) /\ next.pending = <<>> /\ next.skipLf = (byte = "CR") /\ next.ended = r.ended
        /\ next.frames = line.frames /\ next.data = line.data /\ next.event = line.event
    BY <1>10, <2>1, <2>5 DEF Shape
  <2>7. Reads(next, more)
    BY <1>4, <2>3, <2>5, <2>6 DEF Reads, HasRead, AfterCr
  <2> QED
    BY <2>6, <2>7 DEF next, more
<1>11. CASE ~Skips(r, byte) /\ byte \notin {"CR", "LF"}
  <2>1. next = IF Len(r.pending) >= MaxSseLine THEN [ready EXCEPT !.fault = TRUE]
               ELSE [ready EXCEPT !.pending = Append(@, byte)]
    BY <1>11, <1>a
  <2>2. next = [ready EXCEPT !.pending = Append(@, byte)]
    <3>1. "fault" \in DOMAIN ready
      BY <1>7 DEF Shape
    <3> QED
      BY <1>n, <2>1, <3>1
  <2>3. /\ Shape(next) /\ next.pending = Append(r.pending, byte) /\ next.skipLf = FALSE /\ next.ended = r.ended
        /\ next.frames = r.frames /\ next.data = r.data /\ next.event = r.event
    BY <1>7, <2>2 DEF Shape
  <2>4. LinesOf(more) = LinesOf(text) /\ PendingOf(more) = Append(PendingOf(text), byte) /\ ~AfterCr(more)
    BY <1>2, <1>3, <1>4, <1>11
  <2>5. Reads(next, more)
    BY <1>6, <2>3, <2>4 DEF Reads, HasRead, AfterCr
  <2> QED
    BY <2>3, <2>5 DEF next, more
<1> QED
  BY <1>9, <1>10, <1>11

-----------------------------------------------------------------------------
(* The end of a body: three line ends more end its last line and its last  *)
(* block, whatever it ended with.                                          *)
LEMMA LfRead ==
    ASSUME NEW text \in Lines, NEW more, more = Append(text, "LF")
    PROVE  /\ more \in Lines /\ ~AfterCr(more) /\ PendingOf(more) = <<>>
           /\ LinesOf(more) = IF AfterCr(text) THEN LinesOf(text)
                              ELSE Append(LinesOf(text), PendingOf(text))
<1>1. more \in Lines /\ more # <<>> /\ more[Len(more)] = "LF" /\ "LF" \in Bytes
  BY DEF Lines, Bytes
<1>2. Grows(more, text, "LF")
  BY <1>1, OneByteMore
<1>3. Len(more) \in LineEnds(more) <=> ~AfterCr(text)
  BY <1>2 DEF Grows
<1>4. LinesOf(more) = IF Len(more) \in LineEnds(more) THEN Append(LinesOf(text), PendingOf(text))
                      ELSE LinesOf(text)
  BY <1>2, LinesGrow
<1>5. PendingOf(more) = IF Len(more) \in LineEnds(more) THEN <<>> ELSE PendingOf(text)
  BY <1>2, PendingGrows
<1>6. AfterCr(text) => PendingOf(text) = <<>>
  BY NothingSinceCr
<1>7. ~AfterCr(more)
  BY <1>1 DEF AfterCr
<1> QED
  BY <1>1, <1>3, <1>4, <1>5, <1>6, <1>7

LEMMA NothingAfterBlanks ==
    ASSUME NEW lines \in Texts, NEW once, once = Append(lines, <<>>), NEW twice, twice = Append(once, <<>>)
    PROVE  FramesOf(twice) = FramesOf(once)
<1>1. once \in Texts /\ FrameDue(once) = <<>>
  BY BlankAdds
<1>2. FramesOf(twice) = FramesOf(once) \o FrameDue(once)
  BY <1>1, BlankAdds
<1>3. FramesOf(once) \in Seq(Frames)
  BY <1>1, FramesTyped
<1> QED
  BY <1>1, <1>2, <1>3, ConcatEmptySeq

LEMMA BodyEnds ==
    ASSUME NEW r, Shape(r), NEW text \in Lines, Reads(r, text),
           NEW last, last = IF r.pending = <<>> THEN r ELSE EndLine(r), ~last.fault
    PROVE  last.frames \o FrameOf(last) = FramesOf(LinesOf(text \o <<"LF", "LF", "LF">>))
<1> DEFINE t1 == Append(text, "LF")
           t2 == Append(t1, "LF")
           t3 == Append(t2, "LF")
           lines == LinesOf(text)
           pending == PendingOf(text)
<1>1. text \o <<"LF", "LF", "LF">> = t3
  BY DEF Lines, Bytes
<1>2. /\ t1 \in Lines /\ ~AfterCr(t1) /\ PendingOf(t1) = <<>>
      /\ LinesOf(t1) = IF AfterCr(text) THEN lines ELSE Append(lines, pending)
  BY LfRead
<1> HIDE DEF t1
<1>3. /\ t2 \in Lines /\ ~AfterCr(t2) /\ PendingOf(t2) = <<>> /\ LinesOf(t2) = Append(LinesOf(t1), <<>>)
  BY <1>2, LfRead
<1> HIDE DEF t2
<1>4. LinesOf(t3) = Append(LinesOf(t2), <<>>)
  BY <1>3, LfRead
<1> HIDE DEF t3
<1>5. lines \in Texts /\ pending \in Lines
  BY LinesTyped DEF Texts
<1>6. r.pending = pending /\ HasRead(r, lines)
  BY DEF Reads
<1>7. LinesOf(t1) \in Texts
  BY <1>2, LinesTyped DEF Texts
<1>8. FramesOf(LinesOf(t3)) = FramesOf(LinesOf(t2))
  BY <1>3, <1>4, <1>7, NothingAfterBlanks
<1>9. FramesOf(LinesOf(t2)) = FramesOf(LinesOf(t1)) \o FrameDue(LinesOf(t1))
  BY <1>3, <1>7, BlankAdds
<1> HIDE DEF lines, pending
<1>10. CASE pending = <<>>
  <2>1. last = r
    BY <1>6, <1>10
  <2>2. last.frames \o FrameOf(last) = FramesOf(lines) \o FrameDue(lines)
    BY <1>6, <2>1, FrameOfDue DEF HasRead
  <2>3. CASE AfterCr(text)
    BY <1>1, <1>2, <1>8, <1>9, <2>2, <2>3
  <2>4. CASE ~AfterCr(text)
    <3>1. LinesOf(t1) = Append(lines, <<>>)
      BY <1>2, <1>10, <2>4
    <3>2. FramesOf(LinesOf(t1)) = FramesOf(lines) \o FrameDue(lines)
      BY <1>5, <3>1, BlankAdds
    <3>3. FramesOf(LinesOf(t2)) = FramesOf(LinesOf(t1))
      BY <1>3, <1>5, <3>1, NothingAfterBlanks
    <3> QED
      BY <1>1, <1>8, <2>2, <3>2, <3>3
  <2> QED
    BY <2>3, <2>4
<1>11. CASE pending # <<>>
  <2>1. last = EndLine(r)
    BY <1>6, <1>11
  <2>2. LinesOf(t1) = Append(lines, pending)
    <3>1. ~AfterCr(text)
      BY <1>11, NothingSinceCr DEF pending
    <3> QED
      BY <1>2, <3>1
  <2>3. HasRead(last, LinesOf(t1))
    <3>1. ~EndLine(r).fault /\ r.pending \in Lines
      BY <1>5, <1>6, <2>1
    <3>2. HasRead(EndLine(r), Append(lines, r.pending))
      BY <1>5, <1>6, <3>1, LineRead
    <3> QED
      BY <1>6, <2>1, <2>2, <3>2
  <2>4. last.frames = FramesOf(LinesOf(t1)) /\ FrameOf(last) = FrameDue(LinesOf(t1))
    BY <2>3, FrameOfDue DEF HasRead
  <2> QED
    BY <1>1, <1>8, <1>9, <2>4
<1> QED
  BY <1>10, <1>11

-----------------------------------------------------------------------------
SseInv ==
    /\ body \in Lines /\ Shape(reader) /\ reader.fault \in BOOLEAN
    /\ IF reader.ended THEN FramesMatchBody ELSE ~reader.fault => Reads(reader, body)

LEMMA NothingRead ==
    /\ LinesOf(<<>>) = <<>> /\ PendingOf(<<>>) = <<>> /\ ~AfterCr(<<>>)
    /\ FramesOf(<<>>) = <<>> /\ Current(<<>>) = {}
    /\ \A letter : Field(<<>>, {}, letter) = <<>>
<1>1. LineEnds(<<>>) = {} /\ DOMAIN <<>> = {} /\ Len(<<>>) = 0
  BY DEF LineEnds
<1>2. LinesOf(<<>>) = <<>>
  <2>1. LinesOf(<<>>) = Picked(<<>>, LineEnds(<<>>))
    BY <1>1 DEF LinesOf
  <2> QED
    BY <2>1, PickedNothing
<1>3. PendingOf(<<>>) = <<>>
  BY PickedNothing DEF PendingOf
<1>4. FramesOf(<<>>) = <<>>
  <2> DEFINE at == {k \in Blanks(<<>>) : Field(<<>>, Since(Blanks(<<>>), k), "d") # <<>>}
  <2>1. FramesOf(<<>>) = Picked(<<>>, at)
    BY <1>1 DEF FramesOf
  <2> HIDE DEF at
  <2> QED
    BY <2>1, PickedNothing
<1>5. Current(<<>>) = {}
  BY <1>1 DEF Current, SinceLast
<1>6. \A letter : Field(<<>>, {}, letter) = <<>>
  BY <1>1, FieldNowhere
<1> QED
  BY <1>2, <1>3, <1>4, <1>5, <1>6 DEF AfterCr

LEMMA SseStarts == SseInit => SseInv
<1> SUFFICES ASSUME SseInit PROVE SseInv
  OBVIOUS
<1> USE DEF SseInit
<1>1. body \in Lines /\ Shape(reader) /\ reader.fault = FALSE /\ reader.ended = FALSE
  BY DEF Shape, Lines
<1>2. HasRead(reader, LinesOf(body))
  <2>1. reader.frames = <<>> /\ reader.data = <<>> /\ reader.event = NoEvent
    OBVIOUS
  <2>2. EventIn(<<>>) = NoEvent
    BY NothingRead DEF EventIn
  <2> QED
    BY <2>1, <2>2, NothingRead DEF HasRead
<1>3. reader.pending = PendingOf(body) /\ reader.skipLf = AfterCr(body)
  BY NothingRead DEF AfterCr
<1> QED
  BY <1>1, <1>2, <1>3 DEF SseInv, Reads

LEMMA FaultIsBoolean ==
    ASSUME NEW r, Shape(r), r.fault \in BOOLEAN
    PROVE  /\ Shape(EndLine(r)) /\ EndLine(r).fault \in BOOLEAN /\ EndLine(r).ended = r.ended
           /\ \A byte : /\ Shape(ReadByte(r, byte)) /\ ReadByte(r, byte).fault \in BOOLEAN
                        /\ ReadByte(r, byte).ended = r.ended
<1>1. ASSUME NEW q, Shape(q), q.fault \in BOOLEAN, q.ended = r.ended
      PROVE  Shape(EndLine(q)) /\ EndLine(q).fault \in BOOLEAN /\ EndLine(q).ended = r.ended
  BY <1>1 DEF EndLine, Shape
<1> DEFINE ready == [r EXCEPT !.skipLf = FALSE]
<1>2. Shape(ready) /\ ready.fault \in BOOLEAN /\ ready.ended = r.ended
  BY DEF Shape
<1>3. Shape(EndLine(ready)) /\ EndLine(ready).fault \in BOOLEAN /\ EndLine(ready).ended = r.ended
  BY <1>1, <1>2
<1>4. ASSUME NEW byte
      PROVE  Shape(ReadByte(r, byte)) /\ ReadByte(r, byte).fault \in BOOLEAN /\ ReadByte(r, byte).ended = r.ended
  <2> DEFINE next == ReadByte(r, byte)
  <2>1. \/ next = ready
        \/ next = [EndLine(ready) EXCEPT !.skipLf = TRUE]
        \/ next = EndLine(ready)
        \/ next = [ready EXCEPT !.fault = TRUE]
        \/ next = [ready EXCEPT !.pending = Append(@, byte)]
    BY DEF ReadByte
  <2> HIDE DEF next, ready
  <2> QED
    BY <1>2, <1>3, <2>1 DEF Shape, next
<1> QED
  BY <1>1, <1>4

LEMMA SseSteps == SseInv /\ [SseNext]_sseVars => SseInv'
<1> SUFFICES ASSUME SseInv, [SseNext]_sseVars PROVE SseInv'
  OBVIOUS
<1>0. body \in Lines /\ Shape(reader) /\ reader.fault \in BOOLEAN
  BY DEF SseInv
<1>1. CASE Feed
  <2>1. PICK byte \in Bytes : body' = Append(body, byte) /\ reader' = ReadByte(reader, byte)
    BY <1>1 DEF Feed, Bytes
  <2>2. ~reader.fault /\ ~reader.ended /\ Reads(reader, body)
    BY <1>1 DEF Feed, SseInv
  <2>3. Shape(reader') /\ reader'.fault \in BOOLEAN /\ reader'.ended = reader.ended
    BY <1>0, <2>1, FaultIsBoolean
  <2>4. body' \in Lines
    BY <1>0, <2>1 DEF Lines
  <2>5. ~reader'.fault => Reads(reader', body')
    BY <1>0, <2>1, <2>2, ByteRead
  <2> QED
    BY <2>2, <2>3, <2>4, <2>5 DEF SseInv, Reads, HasRead
<1>2. CASE EndBody
  <2> DEFINE last == IF reader.pending = <<>> THEN reader ELSE EndLine(reader)
  <2>1. /\ reader' = [last EXCEPT !.ended = TRUE, !.frames = IF last.fault THEN @ ELSE @ \o FrameOf(last)]
        /\ body' = body
    BY <1>2 DEF EndBody
  <2>2. ~reader.fault /\ ~reader.ended /\ Reads(reader, body)
    BY <1>2 DEF EndBody, SseInv
  <2>3. Shape(last) /\ last.fault \in BOOLEAN
    BY <1>0, FaultIsBoolean
  <2>4. ~last.fault => last.frames \o FrameOf(last) = FramesOf(LinesOf(body \o <<"LF", "LF", "LF">>))
    BY <1>0, <2>2, BodyEnds
  <2> HIDE DEF last
  <2>5. /\ Shape(reader') /\ reader'.ended = TRUE /\ reader'.fault = last.fault
        /\ reader'.frames = IF last.fault THEN last.frames ELSE last.frames \o FrameOf(last)
    BY <2>1, <2>3 DEF Shape
  <2>6. FramesMatchBody'
    BY <2>1, <2>4, <2>5 DEF FramesMatchBody
  <2> QED
    BY <1>0, <2>1, <2>3, <2>5, <2>6 DEF SseInv
<1>3. CASE UNCHANGED sseVars
  BY <1>3 DEF sseVars, SseInv, FramesMatchBody, Reads, HasRead
<1> QED
  BY <1>1, <1>2, <1>3 DEF SseNext

LEMMA ReadingMatches == SseInv => FramesMatchBody
<1> SUFFICES ASSUME SseInv, ~reader.ended, ~reader.fault PROVE reader.frames = FramesOf(LinesOf(body))
  BY DEF SseInv, FramesMatchBody
<1> QED
  BY DEF SseInv, Reads, HasRead

(* sse.py: whatever bytes the response is made of, and until a line or an  *)
(* event is over its bound, the frames are those of the whole body.        *)
THEOREM FramesMatchBodyAlways == SseSpec => []FramesMatchBody
BY SseStarts, SseSteps, ReadingMatches, PTL DEF SseSpec
================================================================================
