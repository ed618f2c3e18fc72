------------------------------- MODULE SseReader -------------------------------
(***************************************************************************)
(* iter_server_sent_events: the bytes of a response become lines and the   *)
(* lines become frames, however the bytes are cut into chunks.             *)
(*                                                                         *)
(* A byte is CR, LF or the letter of a field: "d" for data:, "e" for       *)
(* event:, "#" for a comment.  The first letter of a line names its field  *)
(* and the others are its value.                                           *)
(***************************************************************************)
EXTENDS Integers, Sequences

CONSTANTS SseBytes,                     \* bound on the bytes of a body
          MaxSseLine, MaxSseEvent       \* max_sse_line_bytes, max_sse_event_bytes

VARIABLES body,   \* the bytes fed so far
          reader  \* the two generators' locals and the frames they yielded

sseVars == <<body, reader>>

NoEvent == <<"none">>
SseInit ==
    /\ body = <<>>
    /\ reader = [pending |-> <<>>, skipLf |-> FALSE, event |-> NoEvent, data |-> <<>>, size |-> 0,
                 frames |-> <<>>, fault |-> FALSE, ended |-> FALSE]

FrameOf(r) == IF r.data = <<>> THEN <<>> ELSE <<[event |-> r.event, data |-> r.data]>>

EndLine(r) == \* one pass of the loop over lines
    LET line == r.pending
        size == r.size + Len(line) + 1
        read == [r EXCEPT !.pending = <<>>, !.size = size]
    IN  IF line = <<>>
        THEN [r EXCEPT !.frames = @ \o FrameOf(r), !.event = NoEvent, !.data = <<>>, !.size = 0]
        ELSE IF size > MaxSseEvent THEN [read EXCEPT !.fault = TRUE]
        ELSE CASE Head(line) = "d" -> [read EXCEPT !.data = Append(@, Tail(line))]
               [] Head(line) = "e" -> [read EXCEPT !.event = Tail(line)]
               [] OTHER -> read

SkipsNothing(r, byte) == FALSE \* mutation: the LF of a CRLF ends a line of its own
Skips(r, byte) == r.skipLf /\ byte = "LF"

ReadByte(r, byte) ==
    LET ready == [r EXCEPT !.skipLf = FALSE]
    IN  CASE Skips(r, byte) -> ready
          [] ~Skips(r, byte) /\ byte = "CR" -> [EndLine(ready) EXCEPT !.skipLf = TRUE]
          [] ~Skips(r, byte) /\ byte = "LF" -> EndLine(ready)
          [] OTHER -> IF Len(r.pending) >= MaxSseLine THEN [ready EXCEPT !.fault = TRUE]
                      ELSE [ready EXCEPT !.pending = Append(@, byte)]

Feed ==
    /\ ~reader.fault /\ ~reader.ended /\ Len(body) < SseBytes
    /\ \E byte \in {"CR", "LF", "d", "e", "#"} :
           /\ body' = Append(body, byte)
           /\ reader' = ReadByte(reader, byte)

EndBody == \* what is left is a line, and its frame needs no blank line
    /\ ~reader.fault /\ ~reader.ended
    /\ LET last == IF reader.pending = <<>> THEN reader ELSE EndLine(reader)
       IN  reader' = [last EXCEPT !.ended = TRUE,
                                  !.frames = IF last.fault THEN @ ELSE @ \o FrameOf(last)]
    /\ UNCHANGED body

SseNext == Feed \/ EndBody

SseSpec == SseInit /\ [][SseNext]_sseVars

-----------------------------------------------------------------------------
(* The reference: the whole body is cut into lines at once, and the lines  *)
(* into blocks.                                                            *)
Picked(seq, at) == \* the elements of seq at the positions in at
    LET upTo[i \in 0..Len(seq)] ==
          IF i = 0 THEN <<>> ELSE IF i \in at THEN Append(upTo[i - 1], seq[i]) ELSE upTo[i - 1]
    IN  upTo[Len(seq)]
Since(ends, i) == {j \in 1..i : \A end \in ends : end < i => end < j} \* the positions from the last end to i

LineEnds(text) == {i \in DOMAIN text : text[i] = "CR" \/ (text[i] = "LF" /\ ~(i > 1 /\ text[i - 1] = "CR"))}
Letters(text) == {i \in DOMAIN text : text[i] \notin {"CR", "LF"}}
LinesOf(text) ==
    Picked([i \in DOMAIN text |-> Picked(text, Since(LineEnds(text), i) \cap Letters(text))], LineEnds(text))

Blanks(lines) == {k \in DOMAIN lines : lines[k] = <<>>}
Field(lines, block, letter) == \* the values of one field in a block of lines
    LET named == Picked(lines, {k \in block : lines[k] # <<>> /\ Head(lines[k]) = letter})
    IN  [k \in DOMAIN named |-> Tail(named[k])]
BlockFrame(lines, block) ==
    LET names == Field(lines, block, "e")
    IN  [event |-> IF names = <<>> THEN NoEvent ELSE names[Len(names)], data |-> Field(lines, block, "d")]
FramesOf(lines) ==
    LET Block(k) == Since(Blanks(lines), k)
    IN  Picked([k \in DOMAIN lines |-> BlockFrame(lines, Block(k))],
               {k \in Blanks(lines) : Field(lines, Block(k), "d") # <<>>})

(* The frames read byte by byte are those of the whole body, with CR, LF   *)
(* and CRLF alike as line ends, and a body that ends ends its last frame.  *)
FramesMatchBody ==
    ~reader.fault =>
        reader.frames = FramesOf(LinesOf(IF reader.ended THEN body \o <<"LF", "LF", "LF">> ELSE body))
=============================================================================
