-------------------------------- MODULE HistoryList --------------------------------
(***************************************************************************)
(* The persistent list under RunHistory: a skew-binary random-access list, *)
(* newest message first, that is appended to without copying and read by   *)
(* index, from the end, and by windows.  Each _cons makes a cell, the      *)
(* digit and the root of its tree in one, for the message it adds; cells   *)
(* refer to cells by their position, 0 is None.  No cell is ever changed,  *)
(* so the history of the first n messages is the digit at cell n for ever, *)
(* also in a caller's hands when later messages have been appended.        *)
(***************************************************************************)
EXTENDS Integers, Sequences

CONSTANTS MaxHistory, \* bound on the messages of a history
          MaxAppended \* bound on the messages of one append

VARIABLES messages, \* the messages, in order: what the list stands for
          cells     \* [message, left, right] of a tree, [weight, next] of a digit

listVars == <<messages, cells>>

-----------------------------------------------------------------------------
NoMessage == 0 \* an IndexError, or the AssertionError of an inconsistent list

IsLeaf(tree) == cells[tree].left = 0
ChildWeight(weight) == (weight - 1) \div 2

(* _cons.                                                                  *)
ConsMessage(list, message) ==
    LET digits == Len(list)
        second == IF digits = 0 THEN 0 ELSE list[digits].next
    IN  Append(list, IF second # 0 /\ list[digits].weight = list[second].weight
                     THEN [message |-> message, left |-> digits, right |-> second,
                           weight |-> list[digits].weight * 2 + 1, next |-> list[second].next]
                     ELSE [message |-> message, left |-> 0, right |-> 0, weight |-> 1, next |-> digits])

ConsAll(list, new) ==
    LET upTo[i \in 0..Len(new)] == IF i = 0 THEN list ELSE ConsMessage(upTo[i - 1], new[i])
    IN  upTo[Len(new)]

(* A window of the tree, start <= position < stop from its newest, oldest  *)
(* first.                                                                  *)
TreeWindow(tree, weight, start, stop) ==
    LET visit[item \in 1..Len(cells)] ==
          [at \in Int \X Int |->
             LET item_weight == at[1]
                 offset == at[2]
                 child == ChildWeight(item_weight)
             IN  IF stop <= offset \/ offset + item_weight <= start THEN <<>>
                 ELSE IF IsLeaf(item) THEN <<cells[item].message>>
                 ELSE visit[cells[item].right][<<child, offset + child + 1>>]
                        \o visit[cells[item].left][<<child, offset + 1>>]
                        \o (IF start <= offset THEN <<cells[item].message>> ELSE <<>>)]
    IN  visit[tree][<<weight, 0>>]

(* _iter_tree: a whole tree, newest first.                                 *)
NewestFirst(tree) ==
    LET iter[item \in 1..Len(cells)] ==
          IF IsLeaf(item) THEN <<cells[item].message>>
          ELSE <<cells[item].message>> \o iter[cells[item].left] \o iter[cells[item].right]
    IN  iter[tree]

GoesLeftShort(index, weight) == index < ChildWeight(weight) \* mutation: an off-by-one in _lookup_tree
GoesLeft(index, weight) == index <= ChildWeight(weight)

LookupTree(tree, weight, index) ==
    LET down[item \in 1..Len(cells)] ==
          [at \in Int \X Int |->
             LET child == ChildWeight(at[1])
                 i == at[2]
             IN  IF i = 0 THEN cells[item].message
                 ELSE IF IsLeaf(item) THEN NoMessage
                 ELSE IF GoesLeft(i, at[1]) THEN down[cells[item].left][<<child, i - 1>>]
                 ELSE down[cells[item].right][<<child, i - child - 1>>]]
    IN  down[tree][<<weight, index>>]

LookupReverse(digits, index) ==
    LET along[digit \in 0..Len(cells)] ==
          [i \in Int |->
             IF digit = 0 THEN NoMessage
             ELSE IF i < cells[digit].weight THEN LookupTree(digit, cells[digit].weight, i)
             ELSE along[cells[digit].next][i - cells[digit].weight]]
    IN  along[digits][index]

(* __getitem__ of an index, and of a slice with step 1.                    *)
Item(count, index) ==
    LET i == IF index < 0 THEN index + count ELSE index
    IN  IF i < 0 \/ i >= count THEN NoMessage
        ELSE IF i = 0 THEN Head(messages) ELSE LookupReverse(count, count - i - 1)

Greater(a, b) == IF a >= b THEN a ELSE b
Lesser(a, b) == IF a <= b THEN a ELSE b

IterWindow(count, start, stop) ==
    LET reverse_start == count - stop
        reverse_stop == count - start
        selected[digit \in 0..Len(cells)] ==
          [offset \in Int |->
             IF digit = 0 \/ offset >= reverse_stop THEN <<>>
             ELSE LET weight == cells[digit].weight
                      local_start == Greater(reverse_start, offset) - offset
                      local_stop == Lesser(reverse_stop, offset + weight) - offset
                  IN  selected[cells[digit].next][offset + weight]
                        \o (IF local_start < local_stop
                            THEN TreeWindow(digit, weight, local_start, local_stop) ELSE <<>>)]
    IN  IF start = stop THEN <<>> ELSE selected[count][0]

ReversedHistory(count) ==
    LET from[digit \in 0..Len(cells)] ==
          IF digit = 0 THEN <<>> ELSE NewestFirst(digit) \o from[cells[digit].next]
    IN  from[count]

Backwards(s) == [i \in DOMAIN s |-> s[Len(s) + 1 - i]]
IterTail(count, n) == Backwards(SubSeq(ReversedHistory(count), 1, Lesser(n, count)))

-----------------------------------------------------------------------------
(* RunHistory(messages) of one message or more.                            *)
Built(new) == messages = new /\ cells = ConsAll(<<>>, new)
HistoryInit == \E n \in 1..MaxAppended : Built([i \in 1..n |-> i])

Appended(new) ==
    /\ messages' = messages \o new
    /\ cells' = ConsAll(cells, new)
AppendHistory ==
    \E n \in 1..MaxAppended :
        /\ Len(messages) + n <= MaxHistory
        /\ Appended([i \in 1..n |-> Len(messages) + i])

HistoryNext == AppendHistory

(* The same with any number of any messages.                               *)
SomeMessages(set) == Seq(set) \ {<<>>}
AnyHistory == \E set : \E new \in SomeMessages(set) : Built(new)
AppendAny == \E set : \E new \in SomeMessages(set) : Appended(new)
HistorySpec == AnyHistory /\ [][AppendAny]_listVars

-----------------------------------------------------------------------------
(* A history is the sequence of its messages: every index, negative ones   *)
(* and those out of range, every window, every tail and the reversed       *)
(* iteration give what they give on a sequence, whatever appends built it  *)
(* and whatever was appended to it since (history.py).                     *)
ReadsAs(count) ==
    /\ \A i \in 0..(count - 1) : Item(count, i) = messages[i + 1] /\ Item(count, i - count) = messages[i + 1]
    /\ Item(count, count) = NoMessage /\ Item(count, -count - 1) = NoMessage
    /\ \A start, stop \in 0..count : IterWindow(count, start, stop) = SubSeq(messages, start + 1, stop)
    /\ ReversedHistory(count) = Backwards(SubSeq(messages, 1, count))
    /\ \A n \in 0..(count + 1) : IterTail(count, n) = SubSeq(messages, IF n < count THEN count - n + 1 ELSE 1, count)
HistoryIsASequence == \A count \in 1..Len(messages) : ReadsAs(count)
=============================================================================
