---------------------------- MODULE ResponsesStream ----------------------------
(***************************************************************************)
(* OpenAIResponsesStreamDecoder: items are announced, filled and closed,   *)
(* and the terminal event carries the whole response, which must agree     *)
(* with the items that were streamed.                                      *)
(*                                                                         *)
(* An event that fails a check of its fields alone is one "malformed"      *)
(* event, and fresh says that its sequence number increases.               *)
(***************************************************************************)
EXTENDS StreamItems

ResponsesDecoder ==
    [api |-> "responses", phase |-> "initial", numbered |-> FALSE, items |-> <<>>,
     parts |-> <<>>, summaries |-> <<>>, ended |-> {}, output |-> <<>>,
     out |-> <<>>, done |-> FALSE, fault |-> FALSE]

RFault(dec) == [dec EXCEPT !.fault = TRUE, !.out = <<>>]
Live(dec, deltas) == [dec EXCEPT !.out = deltas]

RuntimeItems == {"function_call", "custom_tool_call"}
ProviderItems == {"web_search_call", "image_generation_call"}
Settled(status) == status \in {"completed", "failed"}

(* Output indexes count from 0, the items of the model from 1.             *)
ItemAt(dec, at) == dec.items[at + 1]
OpenItem(dec, ev) ==
    /\ ev.at < Len(dec.items)
    /\ ~ItemAt(dec, ev.at).closed
    /\ ev.id = ItemAt(dec, ev.at).id
OpenPart(parts, ev, types) ==
    <<ev.at, ev.part>> \in DOMAIN parts
        /\ ~parts[<<ev.at, ev.part>>].closed /\ parts[<<ev.at, ev.part>>].type \in types

-----------------------------------------------------------------------------
(* response.created, response.queued and response.in_progress.             *)
MayAnnounce(dec, ev) ==
    /\ ev.sameId
    /\ CASE ev.type = "created" -> dec.phase = "initial"
         [] ev.type = "in_progress" -> dec.phase \in {"queued", "active"}
         [] ev.type = "queued" -> dec.phase = "queued"

ResponseEvent(dec, ev) ==
    IF ~MayAnnounce(dec, ev) THEN RFault(dec)
    ELSE [dec EXCEPT !.phase = IF ev.status = "queued" THEN "queued" ELSE "active", !.out = <<>>]

(* A provider tool's status settles once, and only a change is told.       *)
ChangedStatus(dec, at, status) ==
    IF Settled(ItemAt(dec, at).status)
    THEN IF status = ItemAt(dec, at).status THEN Live(dec, <<>>) ELSE RFault(dec)
    ELSE [dec EXCEPT !.items[at + 1].status = status,
                     !.out = <<ProviderDelta(at, ItemAt(dec, at).id, status)>>]

ItemAdded(dec, ev) ==
    LET item == [type |-> ev.item, id |-> ev.id, call |-> ev.call, status |-> "", closed |-> FALSE]
        added == [dec EXCEPT !.items = Append(@, item)]
    IN  CASE ev.at # Len(dec.items) \/ (\E i \in DOMAIN dec.items : dec.items[i].id = ev.id) ->
                 RFault(dec)
          [] ev.item \in {"message", "reasoning"} -> Live(added, <<>>)
          [] ev.item \in RuntimeItems -> Live(added, <<CallDelta(ev.at, ev.call, "f", <<>>)>>)
          [] ev.item \in ProviderItems -> ChangedStatus(added, ev.at, ev.status)

PartsOpen(parts, at) == \E k \in DOMAIN parts : k[1] = at /\ ~parts[k].closed
ItemDone(dec, ev) ==
    CASE ~OpenItem(dec, ev) \/ PartsOpen(dec.parts, ev.at) \/ PartsOpen(dec.summaries, ev.at) ->
             RFault(dec)
      [] ItemAt(dec, ev.at).type \notin ProviderItems ->
             [dec EXCEPT !.items[ev.at + 1].closed = TRUE, !.out = <<>>]
      [] OTHER ->
             IF ~Settled(ev.status) THEN RFault(dec)
             ELSE LET changed == ChangedStatus(dec, ev.at, ev.status)
                  IN  [changed EXCEPT !.items[ev.at + 1].closed = TRUE]

-----------------------------------------------------------------------------
(* Parts are opened and closed under their item, and a delta needs an open *)
(* part of its type.                                                       *)
PartTypes(item) ==
    CASE item = "message" -> {"output_text", "refusal"}
      [] item = "reasoning" -> {"reasoning_text"}
      [] OTHER -> {}
NewPart(ev, type) == <<ev.at, ev.part>> :> [type |-> type, closed |-> FALSE]

ContentPartEvent(dec, ev) ==
    CASE ~OpenItem(dec, ev) -> RFault(dec)
      [] ev.partType \notin PartTypes(ItemAt(dec, ev.at).type) -> RFault(dec)
      [] ev.type = "part_added" ->
             IF <<ev.at, ev.part>> \in DOMAIN dec.parts THEN RFault(dec)
             ELSE [dec EXCEPT !.parts = NewPart(ev, ev.partType) @@ @, !.out = <<>>]
      [] ev.type = "part_done" ->
             IF ~OpenPart(dec.parts, ev, {ev.partType}) THEN RFault(dec)
             ELSE [dec EXCEPT !.parts[<<ev.at, ev.part>>].closed = TRUE, !.out = <<>>]

SummaryPartEvent(dec, ev) ==
    CASE ~OpenItem(dec, ev) -> RFault(dec)
      [] ItemAt(dec, ev.at).type # "reasoning" -> RFault(dec)
      [] ev.type = "summary_added" ->
             IF <<ev.at, ev.part>> \in DOMAIN dec.summaries THEN RFault(dec)
             ELSE [dec EXCEPT !.summaries = NewPart(ev, "summary_text") @@ @, !.out = <<>>]
      [] ev.type = "summary_done" ->
             IF ~OpenPart(dec.summaries, ev, {"summary_text"}) THEN RFault(dec)
             ELSE [dec EXCEPT !.summaries[<<ev.at, ev.part>>].closed = TRUE, !.out = <<>>]

ContentDeltas(dec, ev) ==
    LET wire == IF ev.kind = "text" THEN "output_text" ELSE "refusal"
    IN  IF ~OpenItem(dec, ev) \/ ~OpenPart(dec.parts, ev, {wire}) THEN RFault(dec)
        ELSE Live(dec, IF ev.len = 0 THEN <<>> ELSE <<ContentDelta(ev.kind, ev.at, ev.part, ev.len)>>)

AnnotationAdded(dec, ev) ==
    IF ~OpenItem(dec, ev) \/ ~OpenPart(dec.parts, ev, {"output_text"}) THEN RFault(dec)
    ELSE Live(dec, <<>>)

ReasoningDeltas(dec, ev) ==
    LET parts == IF ev.kind = "summary" THEN dec.summaries ELSE dec.parts
    IN  IF ~OpenItem(dec, ev) \/ ~OpenPart(parts, ev, {"summary_text", "reasoning_text"}) THEN RFault(dec)
        ELSE Live(dec, IF ev.len = 0 THEN <<>> ELSE <<ReasoningDelta(ev.at, ev.part, ev.len)>>)

InputDelta(dec, ev) ==
    IF ~OpenItem(dec, ev) THEN RFault(dec)
    ELSE IF ItemAt(dec, ev.at).type # ev.kind THEN RFault(dec)
    ELSE Live(dec, IF ev.input = <<>> THEN <<>> ELSE <<CallDelta(ev.at, "", "", ev.input)>>)

ProviderToolEvent(dec, ev) ==
    IF ~OpenItem(dec, ev) THEN RFault(dec)
    ELSE IF ItemAt(dec, ev.at).type # ev.kind THEN RFault(dec)
    ELSE ChangedStatus(dec, ev.at, ev.status)

(* The "...done" event of a text or an input comes once, in an open part.  *)
DoneEvent(dec, ev) ==
    LET key == <<ev.kind, ev.at, ev.part>>
        legal == CASE ev.kind \in RuntimeItems -> ItemAt(dec, ev.at).type = ev.kind
                   [] ev.kind = "summary_text" -> OpenPart(dec.summaries, ev, {"summary_text"})
                   [] OTHER -> OpenPart(dec.parts, ev, {ev.kind})
    IN  IF ~OpenItem(dec, ev) THEN RFault(dec)
        ELSE IF ~legal \/ key \in dec.ended THEN RFault(dec)
        ELSE [dec EXCEPT !.ended = @ \cup {key}, !.out = <<>>]

-----------------------------------------------------------------------------
(* The terminal event.  Its output is the authority, and has to name the   *)
(* streamed items in their order, with the provider status last told.      *)
Same(item, streamed) ==
    /\ item.id = streamed.id /\ item.type = streamed.type
    /\ item.type \in RuntimeItems => item.call = streamed.call
    /\ item.type \in ProviderItems => item.status = streamed.status
MatchedById(dec, output) == \* mutation: items are looked up by id instead of compared in order
    /\ Len(output) = Len(dec.items)
    /\ \A i \in DOMAIN output : \E j \in DOMAIN dec.items : Same(output[i], dec.items[j])
ValidTerminal(dec, output) ==
    /\ Len(output) = Len(dec.items)
    /\ \A i \in DOMAIN output : Same(output[i], dec.items[i])

(* codec.decode_response: one response item for each part of a message,    *)
(* and one for each other item.                                            *)
DecodedItem(item) ==
    CASE item.type = "message" ->
             [i \in DOMAIN item.parts |->
                 [Blank EXCEPT !.kind = IF item.parts[i] = "refusal" THEN "refusal" ELSE "text"]]
      [] item.type = "reasoning" -> <<[Blank EXCEPT !.kind = "reasoning"]>>
      [] item.type \in RuntimeItems -> <<[Blank EXCEPT !.kind = "call", !.id = item.call, !.name = "f"]>>
      [] item.type \in ProviderItems ->
             <<[Blank EXCEPT !.kind = "provider", !.id = item.id, !.status = item.status,
                             !.name = IF item.type = "image_generation_call" /\ item.status = "completed"
                                      THEN "image" ELSE ""]>>
DecodedOutput(items) == FlattenSeq([i \in DOMAIN items |-> DecodedItem(items[i])])

DecodeLegal(status, items) ==
    /\ status \in {"completed", "incomplete"}
    /\ \A i \in DOMAIN items : items[i].type \in ProviderItems => Settled(items[i].status)
    /\ status = "incomplete" => \A i \in DOMAIN items : items[i].type \notin RuntimeItems
    /\ ValidOutput(DecodedOutput(items), FALSE)

TerminalEvent(dec, ev) ==
    IF \/ \E i \in DOMAIN dec.items : ~dec.items[i].closed
       \/ \E k \in DOMAIN dec.summaries : ~dec.summaries[k].closed
       \/ ~ev.sameId \/ ~ValidTerminal(dec, ev.items) \/ ~DecodeLegal(ev.type, ev.items)
    THEN RFault(dec)
    ELSE [dec EXCEPT !.phase = "terminal", !.output = DecodedOutput(ev.items),
                     !.done = TRUE, !.out = <<UsageDelta>>]

Announcements == {"created", "queued", "in_progress"}
Terminals == {"completed", "incomplete", "failed"}

Handler(dec, ev) ==
    CASE ev.type = "item_added" -> ItemAdded(dec, ev)
      [] ev.type = "item_done" -> ItemDone(dec, ev)
      [] ev.type \in {"part_added", "part_done"} -> ContentPartEvent(dec, ev)
      [] ev.type \in {"summary_added", "summary_done"} -> SummaryPartEvent(dec, ev)
      [] ev.type = "content_delta" -> ContentDeltas(dec, ev)
      [] ev.type = "annotation" -> AnnotationAdded(dec, ev)
      [] ev.type = "reasoning_delta" -> ReasoningDeltas(dec, ev)
      [] ev.type = "input_delta" -> InputDelta(dec, ev)
      [] ev.type = "provider" -> ProviderToolEvent(dec, ev)
      [] ev.type = "done" -> DoneEvent(dec, ev)
      [] ev.type \in Terminals -> TerminalEvent(dec, ev)
      [] OTHER -> RFault(dec)

ApplyResponsesEvent(dec, ev) ==
    IF dec.phase = "terminal" \/ (dec.numbered /\ ~ev.fresh) THEN RFault(dec)
    ELSE LET seen == [dec EXCEPT !.numbered = TRUE]
         IN  IF ev.type \in Announcements THEN ResponseEvent(seen, ev)
             ELSE IF dec.phase = "initial" THEN RFault(seen)
             ELSE Handler(seen, ev)

ResponsesResponse(dec) == Response(dec.output, FALSE)
ResponsesCompletes(dec) == dec.phase = "terminal"

-----------------------------------------------------------------------------
(* The events a server may send, over the output indexes ats.              *)
Event == [type |-> "", fresh |-> TRUE, sameId |-> TRUE, at |-> 0, id |-> "c1", item |-> "", call |-> "",
          status |-> "", part |-> 0, partType |-> "", kind |-> "", len |-> 0, input |-> <<>>, items |-> <<>>]

TerminalItems(dec) ==
    [i \in DOMAIN dec.items |->
        [type |-> dec.items[i].type, id |-> dec.items[i].id, call |-> dec.items[i].call,
         status |-> dec.items[i].status,
         parts |-> LET keys == {k \in DOMAIN dec.parts : k[1] = i - 1}
                       sorted == SetToSortSeq(keys, KeyBefore)
                   IN  [j \in DOMAIN sorted |-> dec.parts[sorted[j]].type]]]
TerminalOutputs(dec) ==
    LET echo == TerminalItems(dec)
    IN  IF echo = <<>> THEN {echo}
        ELSE {echo, Front(echo), [echo EXCEPT ![Len(echo)].status = "failed"], Reverse(echo)}

ItemEvents(at) ==
    {[Event EXCEPT !.type = "item_added", !.at = at, !.item = t, !.id = i, !.call = "c1"] :
        t \in {"message", "reasoning"} \cup RuntimeItems, i \in {"c1", "c2"}}
        \cup {[Event EXCEPT !.type = "item_added", !.at = at, !.item = t, !.id = i, !.status = s] :
                 t \in ProviderItems, i \in {"c1", "c2"}, s \in {"in_progress", "completed", "failed"}}

PartEvents(at, id) ==
    LET ev == [Event EXCEPT !.at = at, !.id = id]
    IN  {[ev EXCEPT !.type = "item_done", !.status = s] : s \in {"in_progress", "completed", "failed"}}
        \cup {[ev EXCEPT !.type = t, !.partType = p] :
                 t \in {"part_added", "part_done"}, p \in {"output_text", "refusal", "reasoning_text"}}
        \cup {[ev EXCEPT !.type = t] : t \in {"summary_added", "summary_done", "annotation"}}
        \cup {[ev EXCEPT !.type = "content_delta", !.kind = k, !.len = n] : k \in {"text", "refusal"}, n \in {0, 1}}
        \cup {[ev EXCEPT !.type = "reasoning_delta", !.kind = k, !.len = 1] : k \in {"summary", "text"}}
        \cup {[ev EXCEPT !.type = "input_delta", !.kind = k, !.input = <<"{">>] : k \in RuntimeItems}
        \cup {[ev EXCEPT !.type = "provider", !.kind = k, !.status = s] :
                 k \in ProviderItems, s \in {"in_progress", "completed", "failed"}}
        \cup {[ev EXCEPT !.type = "done", !.kind = k] :
                 k \in RuntimeItems \cup {"summary_text", "output_text", "refusal", "reasoning_text"}}

ResponsesEvents(dec, ats) ==
    {[Event EXCEPT !.type = "created", !.status = s] : s \in {"queued", "in_progress"}}
        \cup {[Event EXCEPT !.type = t, !.status = t, !.sameId = b] :
                 t \in {"queued", "in_progress"}, b \in BOOLEAN}
        \cup {[Event EXCEPT !.type = "in_progress", !.status = "in_progress", !.fresh = FALSE],
              [Event EXCEPT !.type = "malformed"]}
        \cup UNION {ItemEvents(at) : at \in ats}
        \cup UNION {PartEvents(at, i) : at \in ats, i \in {"c1", "c2"}}
        \cup {[Event EXCEPT !.type = t, !.sameId = b, !.items = o] :
                 t \in Terminals, b \in BOOLEAN, o \in TerminalOutputs(dec)}
=============================================================================
