-------------------------------- MODULE TextEdit --------------------------------
(***************************************************************************)
(* apply_text_edit: exact matches are found in the text with its line ends *)
(* normalised, and replaced in the original text, whose other line ends    *)
(* stay as they are.  A text is a sequence of "CR", "LF" and letters.      *)
(***************************************************************************)
EXTENDS Integers, Sequences, FiniteSets

CONSTANTS MaxOriginal, MaxOld, MaxNew \* bounds on the lengths of the texts

ASSUME TextBounds == MaxOriginal \in Nat /\ MaxOld \in Nat /\ MaxNew \in Nat

VARIABLE edit \* the arguments and the locals of one call

TextsUpTo(letters, n) == UNION {[1..k -> letters] : k \in 0..n}

(* A line end of the original is one character of the normalised text.     *)
CrLfAt(text, i) == i < Len(text) /\ text[i] = "CR" /\ text[i + 1] = "LF"
UnitStarts(text) == \* normalised character k begins at UnitStarts(text)[k]
    LET upTo[i \in 0..Len(text)] ==
          IF i = 0 THEN <<>> ELSE IF i > 1 /\ CrLfAt(text, i - 1) THEN upTo[i - 1] ELSE Append(upTo[i - 1], i)
    IN  upTo[Len(text)]
normalize_newlines(text) ==
    LET starts == UnitStarts(text)
    IN  [k \in DOMAIN starts |-> IF text[starts[k]] = "CR" THEN "LF" ELSE text[starts[k]]]

detect_newline(text) ==
    LET crlf == Cardinality({i \in DOMAIN text : CrLfAt(text, i)})
        lf == Cardinality({i \in DOMAIN text : text[i] = "LF"}) - crlf
        cr == Cardinality({i \in DOMAIN text : text[i] = "CR"}) - crlf
    IN  IF crlf > lf /\ crlf >= cr THEN <<"CR", "LF">>
        ELSE IF cr > lf THEN <<"CR">> ELSE <<"LF">>

WithNewline(text, newline) ==
    LET upTo[i \in 0..Len(text)] ==
          IF i = 0 THEN <<>> ELSE upTo[i - 1] \o (IF text[i] = "LF" THEN newline ELSE <<text[i]>>)
    IN  upTo[Len(text)]

MatchAt(text, needle, i) ==
    i + Len(needle) - 1 <= Len(text) /\ SubSeq(text, i, i + Len(needle) - 1) = needle
Find(text, needle, from) == \* 0 when there is no match
    LET found == {i \in DOMAIN text : i >= from /\ MatchAt(text, needle, i)}
    IN  IF found = {} THEN 0 ELSE CHOOSE i \in found : \A j \in found : i <= j

(* _prepare_text_edit: why an edit is refused.  Of the matches counted, it *)
(* matters whether there is one and whether there is another behind it.    *)
Refusal(original, old, new, all) ==
    LET text == normalize_newlines(original)
        first == Find(text, old, 1)
        again == Find(text, old, first + Len(old))
    IN  CASE old = new -> "no_changes"
          [] old # new /\ first = 0 -> "old_string_not_found"
          [] old # new /\ first # 0 /\ again # 0 /\ ~all -> "old_string_not_unique"
          [] OTHER -> "none"

EditOf(original, old, new, all) ==
    [original |-> original, old |-> old, new |-> new, all |-> all,
     refusal |-> Refusal(original, old, new, all),
     next |-> 1, at |-> 1, copied |-> 1, normal |-> 1, parts |-> <<>>, done |-> FALSE]

EditInit ==
    \E original \in TextsUpTo({"a", "CR", "LF"}, MaxOriginal),
       old \in TextsUpTo({"a", "LF"}, MaxOld) \ {<<>>},
       new \in TextsUpTo({"a", "b", "LF"}, MaxNew), all \in BOOLEAN :
        edit = EditOf(original, old, new, all)
AnyEdit == \* the same for texts of any length and letters; old and new have been normalised
    \E letters : \E original \in Seq(letters), old \in Seq(letters \ {"CR"}) \ {<<>>},
                    new \in Seq(letters \ {"CR"}), all \in BOOLEAN :
        edit = EditOf(original, old, new, all)

(* _advance_original: the position count normalised characters further on. *)
AdvancesByCharacter(text, index, count) == \* mutation: CR and LF of one line end are counted apart
    index + count
Advanced(text, index, count) ==
    LET past[n \in 0..count] ==
          IF n = 0 THEN index ELSE LET i == past[n - 1] IN IF CrLfAt(text, i) THEN i + 2 ELSE i + 1
    IN  past[count]

ReplaceMatch ==
    /\ edit.refusal = "none" /\ ~edit.done
    /\ LET start == Find(normalize_newlines(edit.original), edit.old, edit.next)
           from == Advanced(edit.original, edit.at, start - edit.normal)
           to == Advanced(edit.original, from, Len(edit.old))
           matched == SubSeq(edit.original, from, to - 1)
           newline == detect_newline(IF \E i \in DOMAIN edit.old : edit.old[i] = "LF"
                                     THEN matched ELSE edit.original)
           untouched == SubSeq(edit.original, edit.copied, from - 1)
       IN  /\ start # 0 /\ (edit.all \/ edit.next = 1)
           /\ edit' = [edit EXCEPT !.parts = @ \o untouched \o WithNewline(edit.new, newline),
                                   !.next = start + Len(edit.old), !.at = to, !.copied = to,
                                   !.normal = start + Len(edit.old)]

FinishEdit ==
    /\ edit.refusal = "none" /\ ~edit.done
    /\ Find(normalize_newlines(edit.original), edit.old, edit.next) = 0 \/ (~edit.all /\ edit.next # 1)
    /\ edit' = [edit EXCEPT !.done = TRUE,
                            !.parts = @ \o SubSeq(edit.original, edit.copied, Len(edit.original))]

EditNext == ReplaceMatch \/ FinishEdit

EditSpec == AnyEdit /\ [][EditNext]_edit

-----------------------------------------------------------------------------
(* The reference works on the characters of the normalised text, each with *)
(* its own spelling in the original.                                       *)
StartOf(text, k) ==
    LET starts == UnitStarts(text) IN IF k <= Len(starts) THEN starts[k] ELSE Len(text) + 1
Spelled(text, from, to) == \* characters from..(to - 1) as the original spells them
    SubSeq(text, StartOf(text, from), StartOf(text, to) - 1)

ReplacementAt(original, old, new, k) ==
    WithNewline(new, detect_newline(IF \E i \in DOMAIN old : old[i] = "LF"
                                    THEN Spelled(original, k, k + Len(old)) ELSE original))
LastReplaced(original, old, new) == \* the last n characters with every match in them replaced, for every n
    LET text == normalize_newlines(original)
        last[n \in 0..Len(text)] ==
          LET k == Len(text) - n + 1 IN
          IF n = 0 THEN <<>>
          ELSE IF MatchAt(text, old, k) THEN ReplacementAt(original, old, new, k) \o last[n - Len(old)]
          ELSE Spelled(original, k, k + 1) \o last[n - 1]
    IN  last

(* An edit replaces the matches it counted, each with line ends like those *)
(* around it, and leaves every other character, CR, LF or CRLF, as it was. *)
EditKeepsTheRest ==
    edit.done => edit.parts = LastReplaced(edit.original, edit.old, edit.new)
                                [Len(normalize_newlines(edit.original))]
=============================================================================
