------------------------------- MODULE ChatStream -------------------------------
(***************************************************************************)
(* OpenAIChatStreamDecoder: chunks of a Chat Completions stream to deltas, *)
(* and the response accumulated from those deltas.                         *)
(*                                                                         *)
(* A chunk that fails a check of its shape is one "malformed" chunk.       *)
(***************************************************************************)
EXTENDS StreamItems

ChatDecoder ==
    [api |-> "chat", phase |-> "initial", id |-> "", parts |-> <<>>, toolOffset |-> -1,
     items |-> <<>>, out |-> <<>>, done |-> FALSE, fault |-> FALSE]

Faulted(dec) == [dec EXCEPT !.fault = TRUE, !.out = <<>>]

PartIndex(parts, type) == (CHOOSE i \in DOMAIN parts : parts[i] = type) - 1
WithPart(parts, type, present) ==
    IF present /\ \A i \in DOMAIN parts : parts[i] # type THEN Append(parts, type) ELSE parts

(* Text may not follow a refusal, and neither may follow a tool call.      *)
PartsInOrder(dec, chunk) ==
    /\ (chunk.text # "none" \/ chunk.refusal # "none") => dec.toolOffset = -1
    /\ chunk.text # "none" => \A i \in DOMAIN dec.parts : dec.parts[i] # "refusal"

ChunkLegal(dec, chunk) ==
    /\ dec.id \in {"", chunk.id}
    /\ chunk.choice \/ chunk.usage
    /\ chunk.choice => dec.phase # "finished" /\ PartsInOrder(dec, chunk)

TextLength(text) == IF text = "some" THEN 1 ELSE 0

ChunkDeltas(chunk, parts, offset) ==
    (IF chunk.usage THEN <<UsageDelta>> ELSE <<>>)
    \o (IF chunk.text # "none"
        THEN <<ContentDelta("text", PartIndex(parts, "text"), 0, TextLength(chunk.text))>> ELSE <<>>)
    \o (IF chunk.refusal # "none"
        THEN <<ContentDelta("refusal", PartIndex(parts, "refusal"), 0, TextLength(chunk.refusal))>>
        ELSE <<>>)
    \o [i \in DOMAIN chunk.calls |->
           LET call == chunk.calls[i] IN CallDelta(offset + call.index, call.id, call.name, call.input)]

CallOffset(dec, parts, chunk) ==
    IF dec.toolOffset = -1 /\ chunk.calls # <<>> THEN Len(parts) ELSE dec.toolOffset

ApplyChunk(dec, chunk) ==
    IF ~ChunkLegal(dec, chunk) THEN Faulted(dec)
    ELSE LET parts == WithPart(WithPart(dec.parts, "text", chunk.text # "none"),
                               "refusal", chunk.refusal # "none")
             offset == CallOffset(dec, parts, chunk)
             deltas == ChunkDeltas(chunk, parts, offset)
             acc == Accumulate(dec.items, deltas)
         IN  IF ~acc.ok THEN Faulted(dec)
             ELSE [dec EXCEPT !.id = chunk.id, !.parts = parts, !.toolOffset = offset,
                              !.items = acc.items, !.out = deltas,
                              !.phase = IF ~chunk.choice THEN @
                                        ELSE IF chunk.finish THEN "finished" ELSE "active"]

(* completed_response(), once the stream said [DONE].                      *)
ChatResponse(dec) == Response(SortedItems(dec.items), FALSE)
ChatCompletes(dec) ==
    /\ dec.phase = "finished"
    /\ CompleteCalls(ChatResponse(dec).output) /\ ValidOutput(ChatResponse(dec).output, FALSE)

-----------------------------------------------------------------------------
(* The chunks a server may send.                                           *)
Chunk == [id |-> "r1", usage |-> FALSE, choice |-> TRUE, text |-> "none", refusal |-> "none",
          calls |-> <<>>, finish |-> FALSE]
ChatCalls ==
    [index : {0, 1}, id : {"c1", "c2"}, name : {"f"}, input : {<<>>}]
        \cup [index : {0, 1}, id : {""}, name : {""}, input : {<<"{">>, <<"}">>}]
ChatChunks ==
    {[Chunk EXCEPT !.text = t] : t \in {"empty", "some"}}
        \cup {[Chunk EXCEPT !.refusal = "some"], [Chunk EXCEPT !.finish = TRUE],
              [Chunk EXCEPT !.choice = FALSE, !.usage = TRUE],
              [Chunk EXCEPT !.id = "r2", !.text = "some"]}
        \cup {[Chunk EXCEPT !.calls = <<c>>] : c \in ChatCalls}
        \cup {[Chunk EXCEPT !.text = "some", !.calls = <<c>>] : c \in {d \in ChatCalls : d.id = "c1"}}
=============================================================================
