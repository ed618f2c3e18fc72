------------------------------- MODULE ModelCall -------------------------------
(***************************************************************************)
(* One Model.invoke: RetryingModel and FallbackModel around a provider     *)
(* client, which sends a request, reads an SSE stream or a JSON body       *)
(* through its decoder and hands the deltas to the host's sink.            *)
(*                                                                         *)
(* stack holds the decorators entered and not yet left, the outermost one  *)
(* first; an error unwinds it one decorator at a time.                     *)
(***************************************************************************)
EXTENDS ChatStream, MessagesStream, ResponsesStream

CONSTANTS MaxAttempts,   \* RetryingModel.max_attempts
          BackoffInitial, BackoffMax, Multiplier, \* its delays, in clock ticks
          JitterRatio,   \* 0 or 1
          Deadline,      \* the run's deadline, when a call has one
          MaxClock,      \* bound on the clock
          RetryAfters,   \* values of a retry-after header
          DecoderFrames, \* bound on the frames of a plain call: of each API, and "stored" with a store
          DecoratedFrames \* and of a call with decorators

ASSUME CallAssumption ==
    /\ MaxAttempts \in Nat \ {0} /\ BackoffInitial \in Nat /\ BackoffMax \in Nat
    /\ BackoffInitial <= BackoffMax /\ Multiplier \in Nat \ {0} /\ JitterRatio \in {0, 1}
    /\ Deadline \in Nat /\ MaxClock \in Nat /\ RetryAfters \subseteq Nat

VARIABLES
    call,      \* what was called: API, decorators, streaming, sink, artifact store, deadline
    stage,     \* what the innermost running code does
    stack,     \* decorators on the call stack
    failure,   \* the exception that is travelling outwards
    dec,       \* the stream decoder of the running attempt
    todo,      \* deltas of the last frame not yet handed to the sink
    result,    \* the response on its way to the caller
    clock, wake,
    attempt,   \* number of requests begun
    published, \* attempts that handed a delta to the host
    heard,     \* what the host has made of the deltas
    frames     \* frames read, for the bound

callVars == <<call, stage, stack, failure, dec, todo, result, clock, wake, attempt, published, heard, frames>>

NoAfter == -1
NoFailure == [kind |-> "none", origin |-> "none", retryable |-> FALSE, after |-> NoAfter, at |-> 0]
DeadlineForgotten(now) == FALSE \* mutation: the deadline is not looked at again
DeadlineExpired(now) == call.limited /\ now >= Deadline

Least(a, b) == IF a < b THEN a ELSE b
Most(a, b) == IF a > b THEN a ELSE b

Fresh(kind) ==
    [kind |-> kind, started |-> FALSE, tries |-> 1, backoff |-> BackoffInitial, side |-> "primary"]
Entered(layers, depth) == \* the decorators below depth call their model again
    SubSeq(layers, 1, depth)
        \o [i \in 1..(Len(call.stack) - depth) |-> Fresh(call.stack[depth + i])]

NewDecoder(api) ==
    CASE api = "chat" -> ChatDecoder
      [] api = "messages" -> MessagesDecoder
      [] api = "responses" -> ResponsesDecoder

Calls ==
    {[api |-> a, stack |-> <<>>, streaming |-> TRUE, sink |-> TRUE, store |-> s,
      limited |-> FALSE, frames |-> DecoderFrames[IF s THEN "stored" ELSE a]] :
        a \in {"chat", "messages", "responses"}, s \in BOOLEAN}
        \cup {[api |-> "chat", stack |-> k, streaming |-> m[1], sink |-> m[2], store |-> FALSE,
               limited |-> l, frames |-> DecoratedFrames] :
                 k \in {<<"retry">>, <<"fallback">>, <<"retry", "fallback">>, <<"fallback", "retry">>},
                 m \in {<<TRUE, TRUE>>, <<TRUE, FALSE>>, <<FALSE, FALSE>>}, l \in BOOLEAN}
        \cup {[api |-> a, stack |-> k, streaming |-> FALSE, sink |-> FALSE, store |-> s,
               limited |-> FALSE, frames |-> 0] :
                 a \in {"messages", "responses"}, s \in BOOLEAN, k \in {<<>>, <<"retry">>}}

(* A Responses client begins with the images in the history.               *)
Begun == IF call.api = "responses" THEN "loading" ELSE "asking"

CallInit ==
    /\ call \in {c \in Calls : c.store => c.api = "responses"}
    /\ stage = Begun /\ stack = [i \in DOMAIN call.stack |-> Fresh(call.stack[i])]
    /\ failure = NoFailure /\ dec = NewDecoder(call.api) /\ todo = <<>>
    /\ result = Response(<<>>, FALSE) /\ clock = 0 /\ wake = 0 /\ attempt = 1
    /\ published = {} /\ heard = <<>> /\ frames = 0

-----------------------------------------------------------------------------
(* Failures of an attempt.  Its decoder goes with it.  Time may pass until *)
(* a decorator notices; a plain client does not look at the clock again.   *)
Causes == {"timeout", "network", "http", "codec", "busy", "bad_status", "overloaded", "body", "too_large"}
Retryable(cause) ==
    \/ cause \in {"timeout", "network", "busy"}
    \/ cause = "overloaded" /\ call.api = "messages"

(* Any error of a response that is open takes its retry-after header along *)
(* (_model_error); only a decorator reads it, of a retryable error.        *)
Headers(cause) == {NoAfter} \cup IF call.stack # <<>> /\ Retryable(cause) THEN RetryAfters ELSE {}

Dropped == dec' = NewDecoder(call.api) /\ todo' = <<>>
Raised(kind, retryable, after) ==
    \E late \in IF call.stack = <<>> THEN {0} ELSE {0, 1} :
        /\ clock + late <= MaxClock
        /\ clock' = clock + late
        /\ Dropped
        /\ failure' = [kind |-> kind, origin |-> "provider", retryable |-> retryable, after |-> after, at |-> clock + late]
        /\ stage' = "raising"
ModelFails(cause) == \E after \in Headers(cause) : Raised("model", Retryable(cause), after)

RaisedNow(kind, origin) ==
    /\ failure' = [kind |-> kind, origin |-> origin, retryable |-> FALSE, after |-> NoAfter, at |-> clock]
    /\ stage' = "raising" /\ Dropped /\ UNCHANGED clock
CodecFails == RaisedNow("model", "provider")

(* The sink and the store are called outside the transport's boundary,     *)
(* which turns exceptions into model errors.                               *)
InsideBoundary == "model" \* mutation: the sink is called while the response is open
OutsideBoundary == "host"
HostFails == RaisedNow(OutsideBoundary, "host")

(* Artifacts in the history become images again.  The store may raise, or  *)
(* give other bytes, and without a store such a history is refused.        *)
LoadImages ==
    /\ stage = "loading"
    /\ \/ stage' = "asking" /\ UNCHANGED <<failure, dec, todo, clock>>
       \/ HostFails
    /\ UNCHANGED <<call, stack, result, wake, attempt, published, heard, frames>>

(* transport.response: the deadline is looked at, then the request sent.   *)
SendRequest ==
    /\ stage = "asking" /\ ~DeadlineExpired(clock)
    /\ stage' = IF call.streaming THEN "reading" ELSE "answering"
    /\ UNCHANGED <<call, stack, failure, dec, todo, result, clock, wake, attempt, published, heard, frames>>

(* Nothing is sent after the deadline.  Otherwise no response comes, or    *)
(* one with an error status, whose body is read first and may break too.   *)
SendFails ==
    /\ stage = "asking"
    /\ \/ DeadlineExpired(clock) /\ Raised("model", Retryable("timeout"), NoAfter)
       \/ ~DeadlineExpired(clock) /\ \E cause \in Causes : ModelFails(cause)
    /\ UNCHANGED <<call, stack, result, wake, attempt, published, heard, frames>>

-----------------------------------------------------------------------------
(* A response that is complete is checked for inline images, and a store   *)
(* takes them once the transport is closed.                                *)
Images(output) == {i \in DOMAIN output : output[i].name = "image"}
SafeArtifacts(output) == call.store \/ Images(output) = {}

Complete(response) ==
    /\ result' = response
    /\ stage' = IF call.store THEN "saving" ELSE "returned"

Decoded(ev) ==
    CASE call.api = "chat" -> ApplyChunk(dec, ev)
      [] call.api = "messages" -> ApplyMessagesEvent(dec, ev)
      [] call.api = "responses" -> ApplyResponsesEvent(dec, ev)
PlainChunks == \* enough chunks for the decorators
    {[Chunk EXCEPT !.text = "some"], [Chunk EXCEPT !.finish = TRUE],
     [Chunk EXCEPT !.choice = FALSE, !.usage = TRUE], [Chunk EXCEPT !.choice = FALSE]}
ServerEvents ==
    CASE call.api = "chat" -> IF call.stack = <<>> THEN ChatChunks ELSE PlainChunks
      [] call.api = "messages" -> MessagesEvents(dec, {0, 1})
      [] call.api = "responses" -> ResponsesEvents(dec, {0, 1})
CompletedResponse(d) ==
    CASE d.api = "chat" -> ChatResponse(d)
      [] d.api = "messages" -> MessagesResponse(d)
      [] d.api = "responses" -> ResponsesResponse(d)
Completes(d) ==
    CASE d.api = "chat" -> ChatCompletes(d)
      [] d.api = "messages" -> MessagesCompletes(d)
      [] d.api = "responses" -> ResponsesCompletes(d) /\ SafeArtifacts(d.output)

(* The frame's deltas leave the decoder and go out first; a terminal frame *)
(* has its response made before them.                                      *)
Taken(d) ==
    IF d.fault \/ (d.done /\ ~Completes(d))
    THEN CodecFails /\ UNCHANGED result
    ELSE /\ dec' = [d EXCEPT !.out = <<>>]
         /\ IF call.sink /\ d.out # <<>>
            THEN todo' = d.out /\ stage' = "emitting" /\ UNCHANGED result
            ELSE /\ todo' = <<>>
                 /\ IF d.done THEN Complete(CompletedResponse(d))
                    ELSE stage' = "reading" /\ UNCHANGED result
         /\ UNCHANGED <<clock, failure>>

ReadFrame ==
    /\ stage = "reading" /\ frames < call.frames
    /\ \E ev \in ServerEvents :
           /\ call.api = "messages" => ResultAfterUse(dec, ev)
           /\ Taken(Decoded(ev))
    /\ frames' = frames + 1
    /\ UNCHANGED <<call, stack, wake, attempt, published, heard>>

ReadDone == \* the [DONE] of a chat stream
    /\ stage = "reading" /\ call.api = "chat"
    /\ Taken([dec EXCEPT !.done = TRUE, !.out = <<>>])
    /\ UNCHANGED <<call, stack, wake, attempt, published, heard, frames>>

(* The connection breaks, an error frame comes, or the stream just ends.   *)
ReadFails ==
    /\ stage = "reading"
    /\ \E cause \in {"timeout", "network", "http", "codec", "body", "overloaded"} : ModelFails(cause)
    /\ UNCHANGED <<call, stack, result, wake, attempt, published, heard, frames>>

JsonItems == \* Responses output arrays a JSON body may carry
    LET item == [type |-> "message", id |-> "c1", call |-> "", status |-> "", parts |-> <<"output_text">>]
        tool(t, i, s) == [item EXCEPT !.type = t, !.id = i, !.status = s]
    IN  {<<item>>, <<>>}
        \cup {<<tool("image_generation_call", "c1", s)>> : s \in {"completed", "in_progress", "failed"}}
        \cup {<<tool("image_generation_call", "c1", "completed"), tool("image_generation_call", i, "completed")>> :
                 i \in {"c1", "c2"}}

ReadAnswer ==
    /\ stage = "answering"
    /\ \/ \E cause \in {"timeout", "network", "http", "codec", "body", "overloaded", "too_large"} :
              ModelFails(cause) /\ UNCHANGED result
       \/ /\ call.api # "responses" /\ Complete(Response(<<>>, FALSE))
          /\ UNCHANGED <<dec, todo, clock, failure>>
       \/ /\ call.api = "responses"
          /\ \E items \in JsonItems, status \in Terminals :
                 IF DecodeLegal(status, items) /\ SafeArtifacts(DecodedOutput(items))
                 THEN Complete(Response(DecodedOutput(items), FALSE)) /\ UNCHANGED <<dec, todo, clock, failure>>
                 ELSE CodecFails /\ UNCHANGED result
    /\ UNCHANGED <<call, stack, wake, attempt, published, heard, frames>>

-----------------------------------------------------------------------------
(* The sink is called through the relay of every decorator on the stack.   *)
Unmarked == stack \* mutation: a relay does not remember that a delta went out
RelaysStarted == [i \in DOMAIN stack |-> [stack[i] EXCEPT !.started = TRUE]]

HeardKey(d) == <<d.at, CASE d.kind = "call" -> -1 [] d.kind = "provider" -> -2 [] OTHER -> d.part>>
Heard(items, d) == \* what a host keeps of a delta
    IF d.kind \in {"usage", "reasoning"} THEN items
    ELSE LET k == HeardKey(d)
         IN  IF k \notin DOMAIN items THEN (k :> d) @@ items
             ELSE [items EXCEPT ![k] = [Merged(@, d) EXCEPT !.status = d.status]]

Emit ==
    /\ stage = "emitting"
    /\ stack' = RelaysStarted
    /\ published' = published \cup {attempt}
    /\ \/ /\ heard' = Heard(heard, Head(todo))
          /\ todo' = Tail(todo)
          /\ IF Tail(todo) # <<>> THEN UNCHANGED <<stage, result>>
             ELSE IF dec.done THEN Complete(CompletedResponse(dec))
             ELSE stage' = "reading" /\ UNCHANGED result
          /\ UNCHANGED <<dec, clock, failure>>
       \/ HostFails /\ UNCHANGED <<heard, result>> \* the sink raises
    /\ UNCHANGED <<call, wake, attempt, frames>>

SaveImage ==
    /\ stage = "saving" /\ Images(result.output) # {}
    /\ \/ LET i == CHOOSE j \in Images(result.output) : \A k \in Images(result.output) : j <= k
          IN  /\ result' = [result EXCEPT !.output[i].name = "artifact"]
              /\ UNCHANGED <<stage, dec, todo, clock, failure>>
       \/ HostFails /\ UNCHANGED result \* the store raises, or returns an artifact that does not fit
    /\ UNCHANGED <<call, stack, wake, attempt, published, heard, frames>>

Saved ==
    /\ stage = "saving" /\ Images(result.output) = {}
    /\ stage' = "returned"
    /\ UNCHANGED <<call, stack, failure, dec, todo, result, clock, wake, attempt, published, heard, frames>>

-----------------------------------------------------------------------------
(* The decorators, innermost first.                                        *)
Top == stack[Len(stack)]
Outer == SubSeq(stack, 1, Len(stack) - 1)

RetryDelays == \* what uniform(lower, upper) may give
    LET after == failure.after
        floor == Most(0, after)
    IN  IF after > BackoffMax THEN {}
        ELSE Most(floor, Top.backoff * (1 - JitterRatio))
             .. Least(BackoffMax, Most(Top.backoff, floor) * (1 + JitterRatio))
FitsDeadline(delay) == call.limited => delay < Deadline - clock

MayTryAgain ==
    /\ failure.kind = "model"
    /\ ~(call.sink /\ Top.started)
    /\ failure.retryable

PassOn == \* the failure leaves this decorator
    /\ stack' = Outer
    /\ stage' = IF Outer = <<>> THEN (IF failure.kind = "host" THEN "host_error" ELSE "raised") ELSE "raising"
    /\ UNCHANGED <<call, failure, dec, todo, result, clock, wake, attempt, published, heard, frames>>

NewAttempt(layers) ==
    /\ stack' = Entered(layers, Len(layers))
    /\ stage' = Begun /\ attempt' = attempt + 1

Sleep(delay) ==
    /\ clock + delay <= MaxClock /\ wake' = clock + delay
    /\ stage' = "sleeping"
    /\ UNCHANGED <<call, stack, failure, dec, todo, result, clock, attempt, published, heard, frames>>

(* The delay is drawn first; one that does not fit ends the attempts.      *)
RetryHandles ==
    /\ stage = "raising" /\ stack # <<>> /\ Top.kind = "retry"
    /\ IF MayTryAgain /\ Top.tries < MaxAttempts /\ RetryDelays # {}
       THEN \E delay \in RetryDelays : IF FitsDeadline(delay) THEN Sleep(delay) ELSE PassOn
       ELSE PassOn

(* The sleep may end late; the deadline is looked at again.                *)
RetryWakes ==
    /\ stage = "sleeping"
    /\ \E late \in {0, 1} : wake + late <= MaxClock /\ clock' = wake + late
    /\ IF DeadlineExpired(clock')
       THEN /\ stack' = Outer
            /\ stage' = IF Outer = <<>> THEN "raised" ELSE "raising"
            /\ UNCHANGED attempt
       ELSE NewAttempt(Append(Outer, [Top EXCEPT !.tries = @ + 1,
                                                 !.backoff = Least(BackoffMax, @ * Multiplier)]))
    /\ UNCHANGED <<call, failure, dec, todo, result, wake, published, heard, frames>>

(* The backup is asked inside the same call of invoke, but its failure is  *)
(* not caught: the layer stays for its relay and passes the failure on.    *)
FallbackHandles ==
    /\ stage = "raising" /\ stack # <<>> /\ Top.kind = "fallback"
    /\ IF MayTryAgain /\ Top.side = "primary" /\ ~DeadlineExpired(clock)
       THEN /\ stage' = Begun /\ attempt' = attempt + 1
            /\ stack' = Append(Outer, [Top EXCEPT !.side = "backup"])
            /\ UNCHANGED <<call, failure, dec, todo, result, clock, wake, published, heard, frames>>
       ELSE PassOn

Unhandled == \* a client that no decorator wraps
    /\ stage = "raising" /\ stack = <<>>
    /\ stage' = IF failure.kind = "host" THEN "host_error" ELSE "raised"
    /\ UNCHANGED <<call, stack, failure, dec, todo, result, clock, wake, attempt, published, heard, frames>>

(* The run is cancelled: no except clause of this code sees it.            *)
CancelCall ==
    /\ stage \in {"loading", "reading", "answering", "emitting", "saving", "sleeping"}
    /\ stage' = "cancelled" /\ Dropped
    /\ UNCHANGED <<call, stack, failure, result, clock, wake, attempt, published, heard, frames>>

Over == {"returned", "raised", "host_error", "cancelled"}

CallNext ==
    \/ LoadImages \/ SendRequest \/ SendFails \/ ReadFrame \/ ReadDone \/ ReadFails \/ ReadAnswer
    \/ Emit \/ SaveImage \/ Saved
    \/ RetryHandles \/ RetryWakes \/ FallbackHandles \/ Unhandled \/ CancelCall

CallSpec == CallInit /\ [][CallNext]_callVars

-----------------------------------------------------------------------------
(* Properties.                                                             *)

(* The deltas of a call come from one attempt at most, and from the one    *)
(* whose response is returned: a retry or a fallback never follows a delta *)
(* the host has seen.                                                      *)
OneAttemptStreams ==
    /\ Cardinality(published) <= 1
    /\ stage = "returned" => published \subseteq {attempt}

(* A host that only watched the deltas knows what the response says: the   *)
(* same calls and contents in the same order, with their final status,     *)
(* text and input.  A Responses stream takes texts and inputs from its     *)
(* terminal event, so only calls and their status are compared there.      *)
Told(item) ==
    \/ item.kind \in {"call", "provider"}
    \/ call.api # "responses" /\ item.len > 0
ViewOf(item) ==
    [kind |-> item.kind, id |-> item.id, status |-> item.status,
     len |-> IF call.api = "responses" THEN 0 ELSE item.len,
     input |-> IF call.api = "responses" \/ item.kind # "call" THEN <<>>
               ELSE IF call.api = "messages" /\ item.input = <<>> THEN <<"{", "}">> ELSE item.input]
Views(items) ==
    LET told == SelectSeq(items, Told) IN [i \in DOMAIN told |-> ViewOf(told[i])]
LiveViewAgrees ==
    (stage = "returned" /\ call.sink) => Views(SortedItems(heard)) = Views(result.output)

(* An exception of the host's sink or of the artifact store is final: it   *)
(* reaches the caller as itself and no decorator asks a model again.  This *)
(* is about exceptions that are no ModelError: one that a store raised as  *)
(* a retryable ModelError would be retried like a provider's.              *)
HostErrorsAreFinal ==
    [][(failure.origin = "host") => (failure' = failure /\ attempt' = attempt /\ stage' # "raised")]_callVars

(* No decorator begins a request at or after the deadline, and a retry     *)
(* never comes before the time the failed response asked to wait for.      *)
AttemptsAreTimely ==
    [][(attempt' # attempt) =>
          /\ call.limited => clock' < Deadline
          /\ stage = "sleeping" => clock' >= failure.at + Most(0, failure.after)]_callVars
=============================================================================
