----------------------------- MODULE MessagesStream -----------------------------
(***************************************************************************)
(* AnthropicMessagesStreamDecoder: the message and content-block lifecycle *)
(* of an Anthropic stream.  Deltas and the response are built separately.  *)
(***************************************************************************)
EXTENDS StreamItems

MessagesDecoder ==
    [api |-> "messages", phase |-> "initial", blocks |-> <<>>, output |-> <<>>, uses |-> {},
     provider |-> <<>>, next |-> 0, paused |-> FALSE, out |-> <<>>, done |-> FALSE, fault |-> FALSE]

MFault(dec) == [dec EXCEPT !.fault = TRUE, !.out = <<>>]

Open(dec, index) == index \in DOMAIN dec.blocks /\ ~dec.blocks[index].closed
Block(type, at) ==
    [type |-> type, at |-> at, closed |-> FALSE, len |-> 0, input |-> <<>>, signed |-> FALSE, id |-> ""]

Content(type, at, len) == [Blank EXCEPT !.kind = type, !.at = at, !.len = len]
CallItem(at, id, input) == [Blank EXCEPT !.kind = "call", !.at = at, !.id = id, !.name = "f", !.input = input]
ProviderItem(at, id, status) == [Blank EXCEPT !.kind = "provider", !.at = at, !.id = id, !.status = status]

TextDeltas(type, at, len) == \* nothing is emitted for an empty text
    IF len = 0 THEN <<>>
    ELSE IF type = "text" THEN <<ContentDelta("text", at, 0, len)>>
    ELSE <<ReasoningDelta(at, 0, len), ContentDelta("thinking", at, 0, len)>>

(* content_block_start of every block but a search result.  A block takes  *)
(* the next output index.                                                  *)
StartOutput(dec, ev) ==
    LET at == dec.next
        block == [Block(ev.block, at) EXCEPT !.len = ev.len, !.input = ev.input,
                                             !.signed = ev.signed, !.id = ev.id]
        started(output, deltas) ==
            [dec EXCEPT !.blocks = (ev.index :> block) @@ @, !.next = @ + 1,
                        !.output = output @@ @, !.out = deltas]
    IN  CASE ev.block \in {"text", "thinking"} ->
                 started(<<>>, TextDeltas(ev.block, at, ev.len))
          [] ev.block = "redacted_thinking" ->
                 started(at :> Content("redacted_thinking", at, 0),
                         <<ContentDelta("redacted_thinking", at, 0, 0)>>)
          [] ev.block = "container_upload" -> started(at :> Content("artifact", at, 0), <<>>)
          [] ev.block = "tool_use" ->
                 started(<<>>, <<CallDelta(at, ev.id, "f", ev.input)>>)
          [] ev.block = "server_tool_use" ->
                 IF ev.id \in DOMAIN dec.provider THEN MFault(dec)
                 ELSE [started(at :> ProviderItem(at, ev.id, "in_progress"),
                               <<ProviderDelta(at, ev.id, "in_progress")>>)
                       EXCEPT !.uses = @ \cup {ev.id}, !.provider = (ev.id :> at) @@ @]

(* A result completes the call of its use, or is a call of its own when    *)
(* the use was in an earlier response.                                     *)
ResultIndex(dec, ev) == IF ev.id \in DOMAIN dec.provider THEN dec.provider[ev.id] ELSE dec.next

StartResult(dec, ev) ==
    LET at == ResultIndex(dec, ev)
        known == ev.id \in DOMAIN dec.provider
    IN  [dec EXCEPT !.blocks = (ev.index :> [Block(ev.block, at) EXCEPT !.id = ev.id]) @@ @,
                    !.next = IF known THEN @ ELSE @ + 1,
                    !.provider = IF known THEN @ ELSE (ev.id :> at) @@ @,
                    !.output = (at :> ProviderItem(at, ev.id, ev.status)) @@ @,
                    !.out = <<ProviderDelta(at, ev.id, ev.status)>>]

BlockStart(dec, ev) ==
    IF dec.phase # "active" \/ ev.index \in DOMAIN dec.blocks THEN MFault(dec)
    ELSE IF ev.block = "result" THEN StartResult(dec, ev) ELSE StartOutput(dec, ev)

DeltaFits(block, ev) ==
    CASE ev.delta \in {"text", "citations"} -> block.type = "text"
      [] ev.delta = "thinking" -> block.type = "thinking"
      [] ev.delta = "signature" -> block.type = "thinking" /\ ~block.signed
      [] ev.delta = "input_json" -> block.type \in {"tool_use", "server_tool_use"}

BlockDelta(dec, ev) ==
    IF dec.phase # "active" \/ ~Open(dec, ev.index) THEN MFault(dec)
    ELSE IF ~DeltaFits(dec.blocks[ev.index], ev) THEN MFault(dec)
    ELSE LET block == dec.blocks[ev.index]
             at == block.at
         IN  CASE ev.delta \in {"text", "thinking"} ->
                      [dec EXCEPT !.blocks[ev.index].len = @ + ev.len,
                                  !.out = TextDeltas(ev.delta, at, ev.len)]
               [] ev.delta = "citations" -> [dec EXCEPT !.out = <<ContentDelta("text", at, 0, 0)>>]
               [] ev.delta = "signature" ->
                      [dec EXCEPT !.blocks[ev.index].signed = TRUE,
                                  !.out = <<ContentDelta("thinking", at, 0, 0)>>]
               [] ev.delta = "input_json" ->
                      [dec EXCEPT !.blocks[ev.index].input = @ \o ev.input,
                                  !.out = IF ev.input = <<>> THEN <<>>
                                          ELSE IF block.type = "tool_use"
                                          THEN <<CallDelta(at, "", "", ev.input)>>
                                          ELSE <<ProviderDelta(at, block.id, "in_progress")>>]

(* content_block_stop commits what the block accumulated.                  *)
CommitBlock(dec, ev) ==
    LET block == dec.blocks[ev.index]
        commit(item) == [dec EXCEPT !.output = (block.at :> item) @@ @]
    IN  CASE block.type = "text" -> commit(Content("text", block.at, block.len))
          [] block.type = "thinking" -> commit(Content("thinking", block.at, block.len))
          [] block.type = "tool_use" ->
                 commit(CallItem(block.at, block.id, IF block.input = <<>> THEN <<"{", "}">> ELSE block.input))
          [] block.type = "server_tool_use" -> commit(ProviderItem(block.at, block.id, "in_progress"))
          [] OTHER -> dec

MayStop(block) ==
    /\ block.type = "thinking" => block.signed
    /\ block.type \in {"tool_use", "server_tool_use"} => block.input = <<>> \/ IsObject(block.input)

BlockStop(dec, ev) ==
    IF dec.phase # "active" \/ ~Open(dec, ev.index) THEN MFault(dec)
    ELSE IF ~MayStop(dec.blocks[ev.index]) THEN MFault(dec)
    ELSE [CommitBlock(dec, ev) EXCEPT !.blocks[ev.index].closed = TRUE, !.out = <<>>]

MessageDelta(dec, ev) ==
    IF dec.phase # "active" \/ \E i \in DOMAIN dec.blocks : ~dec.blocks[i].closed THEN MFault(dec)
    ELSE [dec EXCEPT !.phase = "delta_seen", !.paused = ev.paused, !.out = <<UsageDelta>>]

ApplyMessagesEvent(dec, ev) ==
    CASE dec.phase = "stopped" -> MFault(dec)
      [] ev.type = "ping" -> [dec EXCEPT !.out = <<>>]
      [] ev.type = "message_start" ->
             IF dec.phase # "initial" THEN MFault(dec)
             ELSE [dec EXCEPT !.phase = "active", !.out = <<UsageDelta>>]
      [] ev.type = "content_block_start" -> BlockStart(dec, ev)
      [] ev.type = "content_block_delta" -> BlockDelta(dec, ev)
      [] ev.type = "content_block_stop" -> BlockStop(dec, ev)
      [] ev.type = "message_delta" -> MessageDelta(dec, ev)
      [] ev.type = "message_stop" ->
             IF dec.phase # "delta_seen" THEN MFault(dec)
             ELSE [dec EXCEPT !.phase = "stopped", !.done = TRUE, !.out = <<>>]
      [] OTHER -> MFault(dec)

MessagesResponse(dec) ==
    LET output == [i \in 1..Cardinality(DOMAIN dec.output) |-> dec.output[i - 1]]
    IN  Response(output, dec.paused \/ \E i \in DOMAIN output : output[i].status = "in_progress")
MessagesCompletes(dec) ==
    /\ dec.phase = "stopped"
    /\ ValidOutput(MessagesResponse(dec).output, MessagesResponse(dec).pending)

-----------------------------------------------------------------------------
(* The events a server may send.  Its results follow the end of the use    *)
(* they answer (ResultAfterUse); an interleaved one would be overwritten   *)
(* when the use's block stops.                                             *)
Start == [type |-> "content_block_start", index |-> 0, block |-> "text", len |-> 0, input |-> <<>>,
          signed |-> FALSE, id |-> "", status |-> ""]
Starts ==
    {[Start EXCEPT !.len = n] : n \in {0, 1}}
        \cup {[Start EXCEPT !.block = "thinking", !.len = 1, !.signed = s] : s \in BOOLEAN}
        \cup {[Start EXCEPT !.block = b] : b \in {"redacted_thinking", "container_upload"}}
        \cup {[Start EXCEPT !.block = b, !.id = i, !.input = f] :
                 b \in {"tool_use", "server_tool_use"}, i \in {"c1", "c2"}, f \in {<<>>, <<"{", "}">>}}
        \cup {[Start EXCEPT !.block = "result", !.id = "c1", !.status = s] : s \in {"completed", "failed"}}
Delta(kind, len, input) == [type |-> "content_block_delta", index |-> 0, delta |-> kind, len |-> len, input |-> input]
Deltas ==
    {Delta("text", n, <<>>) : n \in {0, 1}}
        \cup {Delta(k, 1, <<>>) : k \in {"thinking", "signature", "citations"}}
        \cup {Delta("input_json", 0, f) : f \in {<<>>, <<"{">>, <<"}">>}}

ResultAfterUse(dec, ev) ==
    (ev.type = "content_block_start" /\ ev.block = "result") =>
        \A i \in DOMAIN dec.blocks : dec.blocks[i].id = ev.id => dec.blocks[i].closed

MessagesEvents(dec, blocks) ==
    {[type |-> t] : t \in {"ping", "message_start", "message_stop", "malformed"}}
        \cup {[type |-> "message_delta", paused |-> p] : p \in BOOLEAN}
        \cup {[e EXCEPT !.index = i] : e \in Starts \cup Deltas, i \in blocks}
        \cup {[type |-> "content_block_stop", index |-> i] : i \in blocks}
=============================================================================
