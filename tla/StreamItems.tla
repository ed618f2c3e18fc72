------------------------------ MODULE StreamItems ------------------------------
(***************************************************************************)
(* Model deltas and the response items they build up, shared by the three  *)
(* provider decoders, and DeltaAccumulator, which builds a response out of *)
(* deltas.                                                                 *)
(*                                                                         *)
(* A text is the number of its non-empty fragments.  The input of a call   *)
(* is the sequence of its fragments "{" and "}", so that it is a JSON      *)
(* object exactly when it is <<"{", "}">>.                                 *)
(***************************************************************************)
EXTENDS Integers, Sequences, SequencesExt, FiniteSets, TLC

Blank == [kind |-> "", at |-> 0, part |-> 0, len |-> 0,
          id |-> "", name |-> "", input |-> <<>>, status |-> ""]

ContentDelta(kind, at, part, len) ==
    [Blank EXCEPT !.kind = kind, !.at = at, !.part = part, !.len = len]
CallDelta(at, id, name, input) ==
    [Blank EXCEPT !.kind = "call", !.at = at, !.id = id, !.name = name, !.input = input]
ProviderDelta(at, id, status) ==
    [Blank EXCEPT !.kind = "provider", !.at = at, !.id = id, !.status = status]
UsageDelta == [Blank EXCEPT !.kind = "usage"]
ReasoningDelta(at, part, len) ==
    [Blank EXCEPT !.kind = "reasoning", !.at = at, !.part = part, !.len = len]

IsObject(input) == input = <<"{", "}">>

(* The kernel's validation of a ModelResponse.                             *)
CallIds(output) == {i \in DOMAIN output : output[i].kind \in {"call", "provider"}}
ValidOutput(output, pending) ==
    /\ \A i, j \in CallIds(output) : i # j => output[i].id # output[j].id
    /\ pending \/ \A i \in CallIds(output) : output[i].status # "in_progress"

Response(output, pending) == [output |-> output, pending |-> pending]

-----------------------------------------------------------------------------
(* DeltaAccumulator.  Content is kept under its output and content index,  *)
(* a call under its output index and -1.                                   *)
DeltaKey(d) == <<d.at, IF d.kind = "call" THEN -1 ELSE d.part>>

Consistent(old, new) == IF new = "" THEN old ELSE new
Conflict(old, new) == old # "" /\ new # "" /\ old # new

Accepts(items, d) ==
    /\ \A k \in DOMAIN items : k[1] = d.at => (items[k].kind = "call") = (d.kind = "call")
    /\ DeltaKey(d) \in DOMAIN items =>
           LET old == items[DeltaKey(d)]
           IN  old.kind = d.kind /\ ~Conflict(old.id, d.id) /\ ~Conflict(old.name, d.name)

Merged(old, d) ==
    [old EXCEPT !.len = @ + d.len, !.id = Consistent(@, d.id), !.name = Consistent(@, d.name),
                !.input = @ \o d.input]

Accumulated(items, d) ==
    IF d.kind \in {"usage", "reasoning", "provider"} THEN items
    ELSE LET k == DeltaKey(d)
             old == IF k \in DOMAIN items THEN items[k] ELSE [Blank EXCEPT !.kind = d.kind, !.at = d.at]
         IN  (k :> Merged(old, d)) @@ items

Applied(acc, d) ==
    IF ~acc.ok THEN acc
    ELSE IF d.kind \in {"usage", "reasoning", "provider"} \/ Accepts(acc.items, d)
         THEN [acc EXCEPT !.items = Accumulated(@, d)]
         ELSE [acc EXCEPT !.ok = FALSE]
Accumulate(items, deltas) == \* [ok, items] after apply() of each delta
    FoldLeft(Applied, [ok |-> TRUE, items |-> items], deltas)

KeyBefore(k, l) == k[1] < l[1] \/ (k[1] = l[1] /\ k[2] < l[2])
SortedItems(items) ==
    LET keys == SetToSortSeq(DOMAIN items, KeyBefore)
    IN  [i \in DOMAIN keys |-> items[keys[i]]]

CompleteCalls(output) ==
    \A i \in DOMAIN output : output[i].kind = "call" => output[i].id # "" /\ output[i].name # ""
=============================================================================
