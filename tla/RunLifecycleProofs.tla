-------------------------- MODULE RunLifecycleProofs --------------------------
(***************************************************************************)
(* What a host may rely on in a run it reads, whichever engine wrote it,   *)
(* each from one module alone.  RunLifecycle: the facts about its durable  *)
(* head, for all budgets.  HistoryList: its history is the sequence of its *)
(* messages, for any messages and any appends.                             *)
(***************************************************************************)
EXTENDS RunLifecycle, HistoryList, NaturalsInduction, WellFoundedInduction, SequenceTheorems, TLAPS

TypeOK ==
    /\ rev \in Nat \cup {-1}
    /\ kind \in Kinds
    /\ pending \in Seq(Nat)
    /\ ptp \in BOOLEAN
    /\ why \in Reasons
    /\ steps \in Nat /\ calls \in Nat /\ tokens \in Nat

(* The token budget is overrun by at most the turn that ends the run; the  *)
(* other two budgets are never overrun.                                    *)
WithinBudgets ==
    /\ steps <= MaxSteps
    /\ calls <= MaxToolCalls
    /\ tokens <= MaxTokens + MaxTurnTokens
    /\ kind \notin TerminalKinds => tokens <= MaxTokens

(* Unanswered calls belong to ToolsPending and to what resumes to it.      *)
PendingHasOwner ==
    /\ kind = "tools_pending" => pending # <<>>
    /\ kind = "planning" => pending = <<>>
    /\ kind \in TerminalKinds => pending = <<>> /\ ~ptp

(* Nothing has happened to a run that has no head yet. *)
NothingBeforeStart == rev = -1 => kind = "planning"

(* A terminal checkpoint is the last one. *)
TerminalIsFinal == [][kind \notin TerminalKinds]_vars

(* The vocabulary is expanded throughout. *)
USE DEF Kinds, TerminalKinds, Reasons, SuspendReasons, LimitReasons, FailureCodes

IInv == TypeOK /\ WithinBudgets /\ PendingHasOwner /\ NothingBeforeStart

-----------------------------------------------------------------------------
(* What is left of a sequence of calls after its first k is again one. *)
LEMMA RestIsSeq ==
    ASSUME NEW s \in Seq(Nat), NEW k \in 1..Len(s)
    PROVE  SubSeq(s, k + 1, Len(s)) \in Seq(Nat)
OBVIOUS

LEMMA InitIInv == ASSUME BudgetsAreSet PROVE Init => IInv
<1> SUFFICES ASSUME Init PROVE IInv
  OBVIOUS
<1>1. rev \in Nat \cup {-1} /\ steps \in Nat /\ calls \in Nat /\ tokens \in Nat
  BY DEF Init
<1>2. kind \in Kinds /\ why \in Reasons /\ pending \in Seq(Nat)
  BY DEF Init
<1>3. ptp \in BOOLEAN
  BY DEF Init
<1>4. WithinBudgets
  BY DEF Init, WithinBudgets, BudgetsAreSet
<1>5. PendingHasOwner /\ NothingBeforeStart
  BY DEF Init, PendingHasOwner, NothingBeforeStart
<1> QED
  BY <1>1, <1>2, <1>3, <1>4, <1>5 DEF IInv, TypeOK

(* A step is judged by its counters and by the state it moves to. *)
LEMMA StepKeepsIInv ==
    ASSUME /\ rev' \in Nat /\ steps' \in Nat /\ calls' \in Nat /\ tokens' \in Nat,
           kind' \in Kinds, why' \in Reasons, pending' \in Seq(Nat), ptp' \in BOOLEAN,
           WithinBudgets', PendingHasOwner'
    PROVE  IInv'
BY DEF IInv, TypeOK, NothingBeforeStart

(* A terminal state owns no calls and no pending provider turn. *)
LEMMA BecomesTerminal ==
    ASSUME /\ rev' \in Nat /\ steps' \in Nat /\ calls' \in Nat /\ tokens' \in Nat
           /\ steps' <= MaxSteps /\ calls' <= MaxToolCalls
           /\ tokens' <= MaxTokens + MaxTurnTokens,
           NEW k \in TerminalKinds, NEW reason \in Reasons,
           Become(k, <<>>, FALSE, reason)
    PROVE  IInv'
<1>1. ptp' = FALSE /\ pending' = <<>> /\ kind' = k /\ why' = reason
  BY DEF Become
<1>2. WithinBudgets'
  BY <1>1 DEF WithinBudgets
<1>3. PendingHasOwner'
  BY <1>1 DEF PendingHasOwner
<1>4. kind' \in Kinds /\ why' \in Reasons /\ pending' \in Seq(Nat)
  BY <1>1
<1>5. ptp' \in BOOLEAN
  BY <1>1
<1> QED
  BY <1>2, <1>3, <1>4, <1>5, StepKeepsIInv

LEMMA ModelTurnKeepsIInv ==
    ASSUME BudgetsAreSet, IInv, ModelTurn PROVE IInv'
<1>1. /\ rev' \in Nat /\ steps' \in Nat /\ calls' \in Nat /\ tokens' \in Nat
      /\ steps' <= MaxSteps /\ calls' <= MaxToolCalls
      /\ tokens' <= MaxTokens + MaxTurnTokens
  BY DEF IInv, TypeOK, WithinBudgets, BudgetsAreSet, ModelTurn, Advance
<1>2. CASE Become("limited", <<>>, FALSE, "max_total_tokens")
  BY <1>1, <1>2, BecomesTerminal
<1>3. CASE Become("completed", <<>>, FALSE, "none")
  BY <1>1, <1>3, BecomesTerminal
<1>4. CASE /\ ~(tokens' > MaxTokens) /\ pending' \in Seq(Nat) /\ ptp' \in BOOLEAN
           /\ Become(ActiveKind(pending'), pending', ptp', "none")
  <2>1. /\ kind' \in {"planning", "tools_pending"} /\ why' = "none"
        /\ kind' = "planning" => pending' = <<>>
        /\ kind' = "tools_pending" => pending' # <<>>
    BY <1>4 DEF Become, ActiveKind
  <2>2. WithinBudgets'
    BY <1>1, <1>4 DEF WithinBudgets, BudgetsAreSet
  <2>3. PendingHasOwner'
    BY <2>1 DEF PendingHasOwner
  <2> QED
    BY <1>1, <1>4, <2>1, <2>2, <2>3, StepKeepsIInv
<1> QED
  BY <1>2, <1>3, <1>4 DEF ModelTurn

LEMMA ToolBatchKeepsIInv ==
    ASSUME BudgetsAreSet, IInv, NEW k \in 1..Len(pending), ToolBatch(k)
    PROVE  IInv'
<1> DEFINE rest == SubSeq(pending, k + 1, Len(pending))
<1>1. rest \in Seq(Nat)
  BY RestIsSeq DEF IInv, TypeOK
<1>2. /\ rev' \in Nat /\ steps' \in Nat /\ calls' \in Nat /\ tokens' \in Nat
      /\ WithinBudgets'
  BY DEF ToolBatch, Advance, IInv, TypeOK, WithinBudgets, BudgetsAreSet
<1>3. \/ Become(ActiveKind(rest), rest, ptp, "none")
      \/ \E reason \in {"waiting", "pause"} : Become("suspended", rest, ptp, reason)
  BY DEF ToolBatch
<1> HIDE DEF rest
<1>4. /\ pending' = rest /\ ptp' = ptp /\ why' \in Reasons
      /\ kind' \in {"planning", "tools_pending", "suspended"}
      /\ kind' = "planning" => rest = <<>>
      /\ kind' = "tools_pending" => rest # <<>>
  BY <1>3 DEF Become, ActiveKind
<1>5. ptp' \in BOOLEAN
  BY <1>4 DEF IInv, TypeOK
<1>6. PendingHasOwner'
  BY <1>4 DEF PendingHasOwner
<1> QED
  BY <1>1, <1>2, <1>4, <1>5, <1>6, StepKeepsIInv

(* A step into a terminal state that spends nothing. *)
LEMMA EndKeepsIInv ==
    ASSUME BudgetsAreSet, IInv, rev >= 0, Advance, UNCHANGED <<steps, calls, tokens>>,
           NEW k \in {"failed", "limited"}, NEW reason \in Reasons,
           Become(k, <<>>, FALSE, reason)
    PROVE  IInv'
<1>1. /\ rev' \in Nat /\ steps' \in Nat /\ calls' \in Nat /\ tokens' \in Nat
      /\ steps' <= MaxSteps /\ calls' <= MaxToolCalls
      /\ tokens' <= MaxTokens + MaxTurnTokens
  BY DEF IInv, TypeOK, WithinBudgets, Advance
<1> QED
  BY <1>1, BecomesTerminal

LEMMA NextKeepsIInv == ASSUME BudgetsAreSet PROVE IInv /\ [Next]_vars => IInv'
<1> SUFFICES ASSUME IInv, [Next]_vars PROVE IInv'
  OBVIOUS
<1> USE DEF IInv, TypeOK, WithinBudgets, PendingHasOwner, NothingBeforeStart, BudgetsAreSet, Advance, Become,
            IsActive
<1>1. CASE Start
  BY <1>1 DEF Start
<1>2. CASE ModelTurn
  BY <1>2, ModelTurnKeepsIInv
<1>3. CASE \E k \in 1..Len(pending) : ToolBatch(k)
  BY <1>3, ToolBatchKeepsIInv
<1>4. CASE EditHistory
  BY <1>4 DEF EditHistory
<1>5. CASE Suspend
  BY <1>5 DEF Suspend
<1>6. CASE Resume
  BY <1>6 DEF Resume, ActiveKind
<1>7. CASE Fail
  <2> HIDE DEF IInv, Become
  <2>1. why' \in Reasons /\ rev >= 0 /\ Become("failed", <<>>, FALSE, why')
    BY <1>7 DEF Fail
  <2> QED
    BY <1>7, <2>1, EndKeepsIInv DEF Fail
<1>8. CASE Limit
  <2> HIDE DEF IInv, Become
  <2>1. PICK reason \in {"deadline", "max_planning_steps", "max_tool_calls"} :
           Become("limited", <<>>, FALSE, reason)
    BY <1>8 DEF Limit
  <2> QED
    BY <1>8, <2>1, EndKeepsIInv DEF Limit
<1>9. CASE UNCHANGED vars
  BY <1>9 DEF vars
<1> QED
  BY <1>1, <1>2, <1>3, <1>4, <1>5, <1>6, <1>7, <1>8, <1>9 DEF Next

(* Type correctness, the three budgets of RunLimits and the ownership of   *)
(* the unanswered calls hold of every durable head.                        *)
THEOREM HeadWithinBudgets ==
    ASSUME BudgetsAreSet PROVE Spec => [](TypeOK /\ WithinBudgets /\ PendingHasOwner)
<1>1. Init => IInv
  BY InitIInv
<1>2. IInv /\ [Next]_vars => IInv'
  BY NextKeepsIInv
<1> QED
  BY <1>1, <1>2, PTL DEF Spec, IInv

(* No checkpoint follows a terminal one (Completed, Failed, Limited). *)
THEOREM TerminalsAreFinal == ASSUME BudgetsAreSet PROVE Spec => TerminalIsFinal
<1>1. IInv /\ [Next]_vars => [kind \notin TerminalKinds]_vars
  <2> SUFFICES ASSUME IInv, Next PROVE kind \notin TerminalKinds
    BY DEF vars
  <2>1. CASE Start
    BY <2>1 DEF Start, IInv, NothingBeforeStart
  <2> QED
    BY <2>1 DEF Next, ModelTurn, ToolBatch, EditHistory, Suspend, Resume, Fail, Limit, IsActive
<1>2. Spec => []IInv
  BY InitIInv, NextKeepsIInv, PTL DEF Spec
<1> QED
  BY <1>1, <1>2, PTL DEF Spec, TerminalIsFinal

HIDE DEF Kinds, TerminalKinds, Reasons, SuspendReasons, LimitReasons, FailureCodes

-----------------------------------------------------------------------------
(* Induction over the natural numbers, by sets of numbers.                 *)
LEMMA LeastNumber ==
    ASSUME NEW T, T \subseteq Nat, T # {}
    PROVE  \E n \in T : \A m \in T : n <= m
<1>1. IsWellFoundedOn(OpToRel(<,Nat), Nat)
  BY NatLessThanWellFounded, Zenon
<1>2. PICK x \in T : \A y \in T : <<y, x>> \notin OpToRel(<,Nat)
  BY <1>1, WFMin, Zenon
<1>3. \A y \in T : ~(y < x)
  BY <1>2 DEF OpToRel
<1> QED
  BY <1>3

LEMMA NumbersFromZero ==
    ASSUME NEW P, 0 \in P, \A n \in Nat : n \in P => n + 1 \in P
    PROVE  Nat \subseteq P
<1> SUFFICES ASSUME Nat \ P # {} PROVE FALSE
  OBVIOUS
<1>1. PICK n \in Nat \ P : \A m \in Nat \ P : n <= m
  BY LeastNumber, Zenon
<1>2. n # 0 /\ n - 1 \in Nat
  BY <1>1
<1>3. n - 1 \in P
  BY <1>1, <1>2
<1> QED
  BY <1>1, <1>2, <1>3

(* A recursion over numbers, each value made of earlier ones, has a        *)
(* solution.                                                               *)
Makes(G, D, V) == \A t \in D : \A f \in [D -> V] : G[<<t, f>>] \in V
LooksBack(G, D, V) ==
    \A t \in D : \A f, g \in [D -> V] : (\A i \in D : i < t => f[i] = g[i]) => G[<<t, f>>] = G[<<t, g>>]
Recursion(G, D, V, N) == N \in Nat /\ D \subseteq 0..N /\ V # {} /\ Makes(G, D, V) /\ LooksBack(G, D, V)
Solves(f, G, D, V) == f \in [D -> V] /\ \A t \in D : f[t] = G[<<t, f>>]

LEMMA RecursionExists ==
    ASSUME NEW N, NEW D, NEW V, NEW G, Recursion(G, D, V, N)
    PROVE  \E f : Solves(f, G, D, V)
<1> N \in Nat /\ D \subseteq 0..N /\ V # {} /\ Makes(G, D, V) /\ LooksBack(G, D, V)
  BY Zenon DEF Recursion
<1> DEFINE P == {m \in Nat : \E f \in [D -> V] : \A t \in D : t < m => f[t] = G[<<t, f>>]}
<1>1. 0 \in P
  <2>1. PICK v : v \in V
    OBVIOUS
  <2>2. [t \in D |-> v] \in [D -> V] /\ \A t \in D : ~(t < 0)
    BY <2>1
  <2> QED
    BY <2>2, Zenon
<1>2. ASSUME NEW m \in Nat, m \in P PROVE m + 1 \in P
  <2>1. PICK f \in [D -> V] : \A t \in D : t < m => f[t] = G[<<t, f>>]
    BY <1>2
  <2> DEFINE g == [t \in D |-> IF t = m THEN G[<<t, f>>] ELSE f[t]]
  <2>2. \A t \in D : G[<<t, f>>] \in V
    BY Zenon DEF Makes
  <2>3. g \in [D -> V]
    BY <2>2
  <2>4. ASSUME NEW t \in D, t < m + 1 PROVE g[t] = G[<<t, g>>]
    <3>1. \A i \in D : i < t => f[i] = g[i]
      BY <2>4
    <3>2. G[<<t, f>>] = G[<<t, g>>]
      BY <2>3, <3>1, Zenon DEF LooksBack
    <3>3. CASE t = m
      BY <3>2, <3>3, Zenon
    <3>4. CASE t # m
      <4>1. t < m
        BY <2>4, <3>4
      <4>2. g[t] = f[t]
        BY <3>4, Zenon
      <4> QED
        BY <2>1, <3>2, <4>1, <4>2, Zenon
    <3> QED
      BY <3>3, <3>4, Zenon
  <2> HIDE DEF g
  <2>5. m + 1 \in Nat
    OBVIOUS
  <2> QED
    BY <2>3, <2>4, <2>5, Zenon
<1> HIDE DEF P
<1>3. N + 1 \in P
  BY <1>1, <1>2, NumbersFromZero, Zenon
<1>4. \A t \in D : t < N + 1
  OBVIOUS
<1> QED
  BY <1>3, <1>4 DEF P, Solves

-----------------------------------------------------------------------------
(* What every cell says of the cells before it: a tree of weight w at cell *)
(* t holds the messages t, t - 1, ..., t - w + 1, in that order.           *)
Cells(M) == [message : M, left : Nat, right : Nat, weight : Nat, next : Nat]
CellFits(list, seq, t) ==
    /\ list[t].message = seq[t]
    /\ list[t].weight \in 1..t /\ list[t].next = t - list[t].weight
    /\ \/ list[t].left = 0 /\ list[t].weight = 1
       \/ /\ list[t].left = t - 1 /\ list[t].left \in 1..Len(list)
          /\ list[t].right = t - 1 - list[t - 1].weight /\ list[t].right \in 1..Len(list)
          /\ list[list[t].right].weight = list[t - 1].weight
          /\ list[t].weight = 2 * list[t - 1].weight + 1
Shaped(list, seq) == Len(list) = Len(seq) /\ \A t \in 1..Len(list) : CellFits(list, seq, t)

LEMMA OneMoreCell ==
    ASSUME NEW M, NEW seq \in Seq(M), NEW list \in Seq(Cells(M)), Shaped(list, seq), NEW x \in M
    PROVE  ConsMessage(list, x) \in Seq(Cells(M)) /\ Shaped(ConsMessage(list, x), Append(seq, x))
<1> DEFINE n == Len(list)
           second == IF n = 0 THEN 0 ELSE list[n].next
           joins == second # 0 /\ list[n].weight = list[second].weight
           new == IF joins
                  THEN [message |-> x, left |-> n, right |-> second,
                        weight |-> list[n].weight * 2 + 1, next |-> list[second].next]
                  ELSE [message |-> x, left |-> 0, right |-> 0, weight |-> 1, next |-> n]
           more == ConsMessage(list, x)
<1>1. n \in Nat /\ Len(seq) = n /\ more = Append(list, new)
  BY DEF ConsMessage, Shaped
<1>2. \A t \in 1..n : /\ list[t] \in Cells(M) /\ list[t].weight \in Nat /\ list[t].next \in Nat
                      /\ list[t].weight \in 1..t /\ list[t].next = t - list[t].weight
  <2> SUFFICES ASSUME NEW t \in 1..n
               PROVE  /\ list[t] \in Cells(M) /\ list[t].weight \in Nat /\ list[t].next \in Nat
                      /\ list[t].weight \in 1..t /\ list[t].next = t - list[t].weight
    OBVIOUS
  <2>1. list[t] \in Cells(M)
    BY ElementOfSeq
  <2>2. list[t].weight \in Nat /\ list[t].next \in Nat
    BY <2>1 DEF Cells
  <2>3. list[t].weight \in 1..t /\ list[t].next = t - list[t].weight
    BY Zenon DEF Shaped, CellFits
  <2> QED
    BY <2>1, <2>2, <2>3
<1>3. second \in Nat /\ (second # 0 => /\ n \in 1..n /\ second \in 1..n /\ second = n - list[n].weight
                                       /\ list[second].next = second - list[second].weight
                                       /\ list[n].weight \in 1..n /\ list[second].weight \in 1..second
                                       /\ list[n].weight \in Nat /\ list[second].weight \in Nat
                                       /\ list[second].next \in Nat)
  <2>1. CASE n = 0
    BY <2>1
  <2>2. CASE n # 0
    <3>1. n \in 1..n
      BY <1>1, <2>2
    <3>2. second = n - list[n].weight /\ second \in 0..n /\ list[n].weight \in 1..n /\ list[n].weight \in Nat
      BY <1>1, <1>2, <2>2, <3>1
    <3> HIDE DEF second
    <3>3. second # 0 => second \in 1..n
      BY <3>2
    <3> QED
      BY <1>2, <3>1, <3>2, <3>3
  <2> QED
    BY <2>1, <2>2
<1> HIDE DEF n, second
<1>4. new \in Cells(M)
  <2>1. CASE joins
    <3>1. list[n].weight * 2 + 1 \in Nat /\ list[second].next \in Nat /\ second \in Nat
      BY <1>3, <2>1
    <3> QED
      BY <1>1, <2>1, <3>1 DEF Cells
  <2>2. CASE ~joins
    BY <1>1, <2>2 DEF Cells
  <2> QED
    BY <2>1, <2>2
<1>5. new.message = x /\ new.next = (n + 1) - new.weight /\ new.weight \in 1..(n + 1)
  <2>1. CASE joins
    <3>1. new.message = x /\ new.next = list[second].next /\ new.weight = list[n].weight * 2 + 1
      BY <2>1
    <3>a. second # 0 /\ list[n].weight = list[second].weight
      BY <2>1
    <3>2. list[second].next = (n + 1) - (list[n].weight * 2 + 1) /\ list[n].weight * 2 + 1 \in 1..(n + 1)
      <4>1. \A w, s, m \in Nat : s = n - w /\ m = s - w /\ w \in 1..n /\ w \in 1..s
              => m = (n + 1) - (w * 2 + 1) /\ w * 2 + 1 \in 1..(n + 1)
        BY <1>1
      <4>2. list[n].weight \in 1..second
        BY <1>3, <3>a, Zenon
      <4>3. list[second].next = second - list[n].weight
        BY <1>3, <3>a, Zenon
      <4> QED
        BY <1>3, <3>a, <4>1, <4>2, <4>3, Zenon
    <3> QED
      BY <3>1, <3>2, Zenon
  <2>2. CASE ~joins
    BY <1>1, <2>2
  <2> QED
    BY <2>1, <2>2
<1>6. \/ new.left = 0 /\ new.weight = 1
      \/ /\ new.left = n /\ n \in 1..n /\ new.right = n - list[n].weight /\ new.right \in 1..n
         /\ list[new.right].weight = list[n].weight /\ new.weight = 2 * list[n].weight + 1
  <2>1. CASE joins
    BY <1>1, <1>3, <2>1
  <2>2. CASE ~joins
    BY <1>1, <2>2
  <2> QED
    BY <2>1, <2>2
<1> HIDE DEF new, more
<1>7. /\ more \in Seq(Cells(M)) /\ Len(more) = n + 1 /\ more[n + 1] = new
      /\ \A t \in 1..n : more[t] = list[t]
  BY <1>1, <1>4 DEF n
<1>8. /\ Len(Append(seq, x)) = n + 1 /\ Append(seq, x)[n + 1] = x
      /\ \A t \in 1..n : Append(seq, x)[t] = seq[t]
  BY <1>1
<1>9. ASSUME NEW t \in 1..n PROVE CellFits(more, Append(seq, x), t)
  <2>1. CellFits(list, seq, t)
    BY DEF Shaped, n
  <2>2. more[t] = list[t] /\ Append(seq, x)[t] = seq[t]
    BY <1>7, <1>8
  <2>3. CASE list[t].left = 0 /\ list[t].weight = 1
    BY <2>1, <2>2, <2>3 DEF CellFits
  <2>4. CASE ~(list[t].left = 0 /\ list[t].weight = 1)
    <3>1. /\ list[t].left = t - 1 /\ list[t].left \in 1..n
          /\ list[t].right = t - 1 - list[t - 1].weight /\ list[t].right \in 1..n
          /\ list[list[t].right].weight = list[t - 1].weight
          /\ list[t].weight = 2 * list[t - 1].weight + 1
      BY <2>1, <2>4, Zenon DEF CellFits, n
    <3>2. t - 1 \in 1..n /\ more[t - 1] = list[t - 1] /\ more[list[t].right] = list[list[t].right]
      BY <1>7, <3>1
    <3>3. \A k \in 1..n : k \in 1..(n + 1)
      BY <1>1
    <3>4. /\ more[t].left = t - 1 /\ more[t].left \in 1..Len(more)
          /\ more[t].right = t - 1 - more[t - 1].weight /\ more[t].right \in 1..Len(more)
          /\ more[more[t].right].weight = more[t - 1].weight
          /\ more[t].weight = 2 * more[t - 1].weight + 1
      BY <1>7, <2>2, <3>1, <3>2, <3>3, Zenon
    <3> QED
      BY <2>1, <2>2, <3>4, Zenon DEF CellFits
  <2> QED
    BY <2>3, <2>4
<1>a. /\ more[n + 1].message = Append(seq, x)[n + 1]
      /\ more[n + 1].weight \in 1..(n + 1) /\ more[n + 1].next = (n + 1) - more[n + 1].weight
  BY <1>5, <1>7, <1>8
<1>b. \/ more[n + 1].left = 0 /\ more[n + 1].weight = 1
      \/ /\ more[n + 1].left = (n + 1) - 1 /\ more[n + 1].left \in 1..Len(more)
         /\ more[n + 1].right = (n + 1) - 1 - more[(n + 1) - 1].weight /\ more[n + 1].right \in 1..Len(more)
         /\ more[more[n + 1].right].weight = more[(n + 1) - 1].weight
         /\ more[n + 1].weight = 2 * more[(n + 1) - 1].weight + 1
  <2>1. CASE new.left = 0 /\ new.weight = 1
    BY <1>7, <2>1
  <2>2. CASE ~(new.left = 0 /\ new.weight = 1)
    <3>1. /\ new.left = n /\ n \in 1..n /\ new.right = n - list[n].weight /\ new.right \in 1..n
          /\ list[new.right].weight = list[n].weight /\ new.weight = 2 * list[n].weight + 1
      BY <1>6, <2>2
    <3>2. (n + 1) - 1 = n /\ more[n] = list[n] /\ more[new.right] = list[new.right]
      BY <1>1, <1>7, <3>1
    <3>3. n \in 1..(n + 1) /\ new.right \in 1..(n + 1)
      BY <1>1, <3>1
    <3> QED
      BY <1>7, <3>1, <3>2, <3>3, Zenon
  <2> QED
    BY <2>1, <2>2
<1>10. CellFits(more, Append(seq, x), n + 1)
  BY <1>a, <1>b, Zenon DEF CellFits
<1>11. \A t \in 1..(n + 1) : t \in 1..n \/ t = n + 1
  BY <1>1
<1> QED
  BY <1>7, <1>8, <1>9, <1>10, <1>11, Zenon DEF Shaped, more

Consed(f, list, new, i) == IF i = 0 THEN list ELSE ConsMessage(f[i - 1], new[i])
Lists(M) == {list \in Seq(Cells(M)) : \E seq \in Seq(M) : Shaped(list, seq)}

LEMMA ConsStays ==
    ASSUME NEW M, NEW list \in Lists(M), NEW x \in M
    PROVE  ConsMessage(list, x) \in Lists(M)
<1>1. PICK seq \in Seq(M) : Shaped(list, seq)
  BY DEF Lists
<1>2. list \in Seq(Cells(M))
  BY DEF Lists
<1>3. ConsMessage(list, x) \in Seq(Cells(M)) /\ Shaped(ConsMessage(list, x), Append(seq, x))
  BY <1>1, <1>2, OneMoreCell
<1>4. Append(seq, x) \in Seq(M)
  OBVIOUS
<1> QED
  BY <1>3, <1>4, Zenon DEF Lists

LEMMA ConsAllIs ==
    ASSUME NEW M, NEW list \in Lists(M), NEW new \in Seq(M)
    PROVE  \E f : /\ \A i \in 0..Len(new) : f[i] = Consed(f, list, new, i)
                  /\ ConsAll(list, new) = f[Len(new)]
<1> DEFINE D == 0..Len(new)
           V == Lists(M)
           G == [p \in D \X [D -> V] |-> Consed(p[2], list, new, p[1])]
           Is(f) == f = [i \in D |-> Consed(f, list, new, i)]
           g == CHOOSE f : Is(f)
<1>0. Len(new) \in Nat
  OBVIOUS
<1>1. \A t \in D, f \in [D -> V] : G[<<t, f>>] = Consed(f, list, new, t)
  OBVIOUS
<1> HIDE DEF G, V
<1>2. Makes(G, D, V)
  <2> SUFFICES ASSUME NEW t \in D, NEW f \in [D -> V] PROVE Consed(f, list, new, t) \in V
    BY <1>1, Zenon DEF Makes
  <2>1. CASE t = 0
    BY <2>1 DEF Consed, V
  <2>2. CASE t # 0
    <3>1. t - 1 \in D /\ t \in 1..Len(new)
      BY <1>0, <2>2
    <3>2. f[t - 1] \in Lists(M) /\ new[t] \in M
      BY <3>1 DEF V
    <3> QED
      BY <2>2, <3>2, ConsStays, Zenon DEF Consed, V
  <2> QED
    BY <2>1, <2>2
<1>3. LooksBack(G, D, V)
  <2> SUFFICES ASSUME NEW t \in D, NEW f \in [D -> V], NEW h \in [D -> V], \A i \in D : i < t => f[i] = h[i]
               PROVE  G[<<t, f>>] = G[<<t, h>>]
    BY Zenon DEF LooksBack
  <2>1. t # 0 => t - 1 \in D /\ t - 1 < t
    BY <1>0
  <2>2. Consed(f, list, new, t) = Consed(h, list, new, t)
    BY <2>1, Zenon DEF Consed
  <2> QED
    BY <1>1, <2>2, Zenon
<1>4. V # {} /\ D \subseteq 0..Len(new)
  BY DEF V
<1>r. Recursion(G, D, V, Len(new))
  BY <1>0, <1>2, <1>3, <1>4, Zenon DEF Recursion
<1>5. PICK f : Solves(f, G, D, V)
  BY <1>r, RecursionExists, Zenon
<1>s. f \in [D -> V] /\ \A t \in D : f[t] = G[<<t, f>>]
  BY <1>5, Zenon DEF Solves
<1>6. Is(f)
  <2>1. f = [i \in D |-> f[i]]
    BY <1>s
  <2>2. \A i \in D : f[i] = Consed(f, list, new, i)
    BY <1>1, <1>s, Zenon
  <2> QED
    BY <2>1, <2>2, Zenon
<1>7. Is(g)
  BY <1>6, Zenon
<1>8. ConsAll(list, new) = g[Len(new)]
  BY Zenon DEF ConsAll, Consed
<1> HIDE DEF g
<1>9. \A i \in 0..Len(new) : g[i] = Consed(g, list, new, i)
  BY <1>7, Zenon
<1> QED
  BY <1>8, <1>9, Zenon

LEMMA ManyMoreCells ==
    ASSUME NEW M, NEW seq \in Seq(M), NEW list \in Seq(Cells(M)), Shaped(list, seq), NEW new \in Seq(M)
    PROVE  ConsAll(list, new) \in Seq(Cells(M)) /\ Shaped(ConsAll(list, new), seq \o new)
<1>0. list \in Lists(M) /\ Len(new) \in Nat
  BY DEF Lists
<1>1. PICK f : (\A i \in 0..Len(new) : f[i] = Consed(f, list, new, i)) /\ ConsAll(list, new) = f[Len(new)]
  BY <1>0, ConsAllIs
<1> DEFINE Upto(i) == seq \o SubSeq(new, 1, i)
           P == {i \in Nat : i <= Len(new) => f[i] \in Seq(Cells(M)) /\ Shaped(f[i], Upto(i))}
<1>2. 0 \in P
  <2>1. f[0] = list
    BY <1>0, <1>1 DEF Consed
  <2>2. Upto(0) = seq
    BY <1>0
  <2> QED
    BY <2>1, <2>2
<1>3. ASSUME NEW i \in Nat, i \in P PROVE i + 1 \in P
  <2> SUFFICES ASSUME i + 1 <= Len(new) PROVE f[i + 1] \in Seq(Cells(M)) /\ Shaped(f[i + 1], Upto(i + 1))
    OBVIOUS
  <2>1. f[i] \in Seq(Cells(M)) /\ Shaped(f[i], Upto(i))
    BY <1>0, <1>3
  <2>2. f[i + 1] = ConsMessage(f[i], new[i + 1])
    <3>1. i + 1 \in 0..Len(new) /\ i + 1 # 0 /\ (i + 1) - 1 = i
      BY <1>0
    <3> QED
      BY <1>1, <3>1, Zenon DEF Consed
  <2>3. Upto(i) \in Seq(M) /\ new[i + 1] \in M
    BY <1>0
  <2>4. Upto(i + 1) = Append(Upto(i), new[i + 1])
    BY <1>0
  <2> HIDE DEF Upto
  <2>5. /\ ConsMessage(f[i], new[i + 1]) \in Seq(Cells(M))
        /\ Shaped(ConsMessage(f[i], new[i + 1]), Append(Upto(i), new[i + 1]))
    BY <2>1, <2>3, OneMoreCell
  <2> QED
    BY <2>2, <2>4, <2>5, Zenon
<1> HIDE DEF P
<1>4. Len(new) \in P
  BY <1>0, <1>2, <1>3, NumbersFromZero, Zenon
<1>5. Upto(Len(new)) = seq \o new
  BY <1>0
<1> HIDE DEF Upto
<1>6. f[Len(new)] \in Seq(Cells(M)) /\ Shaped(f[Len(new)], Upto(Len(new)))
  BY <1>0, <1>4 DEF P
<1> QED
  BY <1>1, <1>5, <1>6, Zenon

-----------------------------------------------------------------------------
(* What reading relies on.                                                 *)
ListFits(M) == messages \in Seq(M) /\ cells \in Seq(Cells(M)) /\ Shaped(cells, messages)
Heads(M, t) ==
    /\ cells[t].message = messages[t] /\ messages[t] \in M
    /\ cells[t].weight \in Nat /\ cells[t].weight >= 1 /\ cells[t].weight <= t
    /\ cells[t].next = t - cells[t].weight /\ cells[t].next \in 0..Len(cells) /\ cells[t].next < t
Branches(t) ==
    LET w == cells[t - 1].weight IN
    /\ cells[t].left = t - 1 /\ t - 1 \in 1..Len(cells) /\ cells[t].left < t
    /\ cells[t].right = t - 1 - w /\ cells[t].right \in 1..Len(cells) /\ cells[t].right < t
    /\ cells[cells[t].right].weight = w
    /\ cells[t].weight = 2 * w + 1 /\ w \in Nat /\ w >= 1 /\ ChildWeight(cells[t].weight) = w

LEMMA HeadsFit ==
    ASSUME NEW M, ListFits(M), NEW t \in 1..Len(cells) PROVE Heads(M, t)
<1>1. cells[t] \in Cells(M) /\ Len(cells) \in Nat /\ Len(messages) = Len(cells) /\ messages \in Seq(M)
  BY ElementOfSeq DEF ListFits, Shaped
<1>2. CellFits(cells, messages, t)
  BY Zenon DEF ListFits, Shaped
<1>3. cells[t].weight \in Nat
  BY <1>1 DEF Cells
<1>4. cells[t].message = messages[t] /\ cells[t].weight \in 1..t /\ cells[t].next = t - cells[t].weight
  BY <1>2, Zenon DEF CellFits
<1>5. messages[t] \in M
  BY <1>1
<1> QED
  BY <1>1, <1>3, <1>4, <1>5 DEF Heads

LEMMA BranchesFit ==
    ASSUME NEW M, ListFits(M), NEW t \in 1..Len(cells), ~IsLeaf(t) PROVE Branches(t)
<1>1. Len(cells) \in Nat
  BY DEF ListFits
<1>2. CellFits(cells, messages, t)
  BY Zenon DEF ListFits, Shaped
<1>3. /\ cells[t].left = t - 1 /\ cells[t].left \in 1..Len(cells)
      /\ cells[t].right = t - 1 - cells[t - 1].weight /\ cells[t].right \in 1..Len(cells)
      /\ cells[cells[t].right].weight = cells[t - 1].weight
      /\ cells[t].weight = 2 * cells[t - 1].weight + 1
  BY <1>2, Zenon DEF CellFits, IsLeaf
<1>4. t - 1 \in 1..Len(cells)
  BY <1>3, Zenon
<1>5. cells[t - 1].weight \in Nat /\ cells[t - 1].weight >= 1
  BY <1>4, HeadsFit, Zenon DEF Heads
<1>6. ChildWeight(cells[t].weight) = cells[t - 1].weight
  <2>1. \A w \in Nat : ((2 * w + 1) - 1) \div 2 = w
    OBVIOUS
  <2> QED
    BY <1>3, <1>5, <2>1, Zenon DEF ChildWeight
<1> QED
  BY <1>1, <1>3, <1>4, <1>5, <1>6 DEF Branches

LEMMA LeavesFit ==
    ASSUME NEW M, ListFits(M), NEW t \in 1..Len(cells), IsLeaf(t) PROVE cells[t].weight = 1
<1>1. CellFits(cells, messages, t)
  BY Zenon DEF ListFits, Shaped
<1>2. Len(cells) \in Nat
  BY DEF ListFits
<1> QED
  BY <1>1, <1>2 DEF CellFits, IsLeaf

(* _lookup_tree.                                                           *)
Descends(f, item, w, i) ==
    IF i = 0 THEN cells[item].message
    ELSE IF IsLeaf(item) THEN NoMessage
    ELSE IF GoesLeft(i, w) THEN f[cells[item].left][<<ChildWeight(w), i - 1>>]
    ELSE f[cells[item].right][<<ChildWeight(w), i - ChildWeight(w) - 1>>]

LEMMA LookupTreeIs ==
    ASSUME NEW M, ListFits(M)
    PROVE  \E f : /\ \A t \in 1..Len(cells) : \A w, i \in Int : f[t][<<w, i>>] = Descends(f, t, w, i)
                  /\ \A t, w, i : LookupTree(t, w, i) = f[t][<<w, i>>]
<1> DEFINE D == 1..Len(cells)
           V == [Int \X Int -> M \cup {NoMessage}]
           B(f, t) == [at \in Int \X Int |-> Descends(f, t, at[1], at[2])]
           G == [p \in D \X [D -> V] |-> B(p[2], p[1])]
           Is(f) == f = [t \in D |-> B(f, t)]
           g == CHOOSE f : Is(f)
<1>0. Len(cells) \in Nat
  BY DEF ListFits
<1>1. \A t \in D : \A f \in [D -> V] : G[<<t, f>>] = B(f, t)
  OBVIOUS
<1> HIDE DEF G
<1>2. \A t \in D : ~IsLeaf(t) => /\ cells[t].left \in D /\ cells[t].left < t
                                 /\ cells[t].right \in D /\ cells[t].right < t
  BY BranchesFit, Zenon DEF Branches
<1>3. \A w \in Int : ChildWeight(w) \in Int
  BY DEF ChildWeight
<1>4. Makes(G, D, V)
  <2> SUFFICES ASSUME NEW t \in D, NEW f \in [D -> V] PROVE G[<<t, f>>] \in V
    BY Zenon DEF Makes
  <2>0. SUFFICES ASSUME NEW w \in Int, NEW i \in Int PROVE Descends(f, t, w, i) \in M \cup {NoMessage}
    <3>1. B(f, t) \in V
      BY <2>0
    <3> QED
      BY <1>1, <3>1
  <2>1. cells[t].message \in M
    BY HeadsFit, Zenon DEF Heads
  <2>2. ASSUME NEW u \in D, NEW j \in Int PROVE f[u][<<ChildWeight(w), j>>] \in M \cup {NoMessage}
    <3>1. f[u] \in V /\ <<ChildWeight(w), j>> \in Int \X Int
      BY <1>3
    <3> QED
      BY <3>1
  <2>3. i - 1 \in Int /\ i - ChildWeight(w) - 1 \in Int
    BY <1>3
  <2> QED
    BY <1>2, <2>1, <2>2, <2>3, Zenon DEF Descends
<1>5. LooksBack(G, D, V)
  <2> SUFFICES ASSUME NEW t \in D, NEW f \in [D -> V], NEW h \in [D -> V], \A i \in D : i < t => f[i] = h[i]
               PROVE  G[<<t, f>>] = G[<<t, h>>]
    BY Zenon DEF LooksBack
  <2>1. ASSUME NEW w, NEW i PROVE Descends(f, t, w, i) = Descends(h, t, w, i)
    BY <1>2, Zenon DEF Descends
  <2>2. B(f, t) = B(h, t)
    BY <2>1, Zenon
  <2>3. G[<<t, f>>] = B(f, t) /\ G[<<t, h>>] = B(h, t)
    BY <1>1
  <2> QED
    BY ONLY <2>2, <2>3
<1>6. V # {} /\ D \subseteq 0..Len(cells)
  <2>1. [at \in Int \X Int |-> NoMessage] \in V
    OBVIOUS
  <2>2. D \subseteq 0..Len(cells)
    BY <1>0
  <2> QED
    BY <2>1, <2>2, Zenon
<1> HIDE DEF V
<1>7. Recursion(G, D, V, Len(cells))
  BY <1>0, <1>4, <1>5, <1>6, Zenon DEF Recursion
<1>8. PICK f : Solves(f, G, D, V)
  BY <1>7, RecursionExists, Zenon
<1>9. f \in [D -> V] /\ \A t \in D : f[t] = G[<<t, f>>]
  BY <1>8, Zenon DEF Solves
<1>10. Is(f)
  <2>1. f = [t \in D |-> f[t]]
    BY <1>9
  <2>2. \A t \in D : f[t] = B(f, t)
    BY <1>1, <1>9, Zenon
  <2> QED
    BY <2>1, <2>2, Zenon
<1>11. Is(g)
  BY <1>10, Zenon
<1>12. \A t, w, i : LookupTree(t, w, i) = g[t][<<w, i>>]
  BY Zenon DEF LookupTree, Descends
<1> HIDE DEF g
<1>13. \A t \in D : g[t] = B(g, t)
  BY <1>11, Zenon
<1>14. \A t \in D : \A w, i \in Int : g[t][<<w, i>>] = Descends(g, t, w, i)
  <2> SUFFICES ASSUME NEW t \in D, NEW w \in Int, NEW i \in Int PROVE B(g, t)[<<w, i>>] = Descends(g, t, w, i)
    BY <1>13, Zenon
  <2> QED
    OBVIOUS
<1> QED
  BY <1>12, <1>14, Zenon

LEMMA LookupTreeReads ==
    ASSUME NEW M, ListFits(M), NEW t \in 1..Len(cells), NEW i \in Int, 0 <= i, i < cells[t].weight
    PROVE  LookupTree(t, cells[t].weight, i) = messages[t - i]
<1>0. Len(cells) \in Nat
  BY DEF ListFits
<1>1. PICK f : /\ \A s \in 1..Len(cells) : \A w, j \in Int : f[s][<<w, j>>] = Descends(f, s, w, j)
               /\ \A s, w, j : LookupTree(s, w, j) = f[s][<<w, j>>]
  BY LookupTreeIs, Zenon
<1> DEFINE Reads(s) == \A j \in Int : 0 <= j /\ j < cells[s].weight
                                        => f[s][<<cells[s].weight, j>>] = messages[s - j]
           P == {m \in Nat : \A s \in 1..Len(cells) : s <= m => Reads(s)}
<1>2. 0 \in P
  <2>1. \A s \in 1..Len(cells) : ~(s <= 0)
    BY <1>0
  <2> QED
    BY <2>1
<1>3. ASSUME NEW m \in Nat, m \in P PROVE m + 1 \in P
  <2>1. SUFFICES ASSUME NEW s \in 1..Len(cells), s = m + 1 PROVE Reads(s)
    <3>1. \A s \in 1..Len(cells) : s <= m + 1 => s <= m \/ s = m + 1
      BY <1>0
    <3>2. \A s \in 1..Len(cells) : s <= m => Reads(s)
      BY <1>3, Zenon
    <3>3. \A s \in 1..Len(cells) : s <= m + 1 => Reads(s)
      BY <2>1, <3>1, <3>2, Zenon
    <3>4. m + 1 \in Nat
      OBVIOUS
    <3> HIDE DEF Reads
    <3> QED
      BY <3>3, <3>4
  <2>2. \A u \in 1..Len(cells) : u < s => Reads(u)
    <3>1. \A u \in 1..Len(cells) : u < s => u <= m
      BY <1>0, <2>1
    <3> QED
      BY <1>3, <3>1, Zenon
  <2> SUFFICES ASSUME NEW j \in Int, 0 <= j, j < cells[s].weight
               PROVE  f[s][<<cells[s].weight, j>>] = messages[s - j]
    OBVIOUS
  <2> DEFINE w == cells[s].weight
  <2>3. Heads(M, s)
    BY HeadsFit, Zenon
  <2>4. w \in Nat /\ w \in Int /\ w <= s /\ w >= 1
    BY <2>3 DEF Heads
  <2>5. f[s][<<w, j>>] = Descends(f, s, w, j)
    BY <1>1, <2>4, Zenon
  <2>6. CASE j = 0
    <3>1. s - j = s
      BY <1>0, <2>6
    <3>2. Descends(f, s, w, j) = messages[s]
      BY <2>3, <2>6, Zenon DEF Descends, Heads
    <3> QED
      BY <2>5, <3>1, <3>2, Zenon
  <2>7. CASE j # 0
    <3>1. ~IsLeaf(s)
      BY <2>7, LeavesFit
    <3>2. Branches(s)
      BY <3>1, BranchesFit, Zenon
    <3> DEFINE c == cells[s - 1].weight
               left == cells[s].left
               right == cells[s].right
    <3>3. /\ left \in 1..Len(cells) /\ left < s /\ left = s - 1 /\ cells[left].weight = c
          /\ right \in 1..Len(cells) /\ right < s /\ right = s - 1 - c /\ cells[right].weight = c
          /\ w = 2 * c + 1 /\ c \in Nat /\ ChildWeight(w) = c
      BY <3>2, Zenon DEF Branches
    <3> HIDE DEF c, left, right, w
    <3>4. CASE GoesLeft(j, w)
      <4>1. 0 <= j - 1 /\ j - 1 < c /\ j - 1 \in Int /\ left - (j - 1) = s - j
        BY <1>0, <2>7, <3>3, <3>4 DEF GoesLeft
      <4>2. f[left][<<c, j - 1>>] = messages[left - (j - 1)]
        BY <2>2, <3>3, <4>1, Zenon
      <4>3. Descends(f, s, w, j) = f[left][<<c, j - 1>>]
        BY <2>7, <3>1, <3>3, <3>4, Zenon DEF Descends, left
      <4> QED
        BY <2>5, <4>1, <4>2, <4>3, Zenon DEF w
    <3>5. CASE ~GoesLeft(j, w)
      <4>1. 0 <= j - c - 1 /\ j - c - 1 < c /\ j - c - 1 \in Int /\ right - (j - c - 1) = s - j
        <5>1. j > c /\ j < w
          BY <3>3, <3>5 DEF GoesLeft, w
        <5> QED
          BY <1>0, <3>3, <5>1
      <4>2. f[right][<<c, j - c - 1>>] = messages[right - (j - c - 1)]
        BY <2>2, <3>3, <4>1, Zenon
      <4>3. Descends(f, s, w, j) = f[right][<<c, j - c - 1>>]
        BY <2>7, <3>1, <3>3, <3>5, Zenon DEF Descends, right
      <4> QED
        BY <2>5, <4>1, <4>2, <4>3, Zenon DEF w
    <3> QED
      BY <3>4, <3>5
  <2> QED
    BY <2>6, <2>7
<1> HIDE DEF P, Reads
<1>4. Len(cells) \in P
  BY <1>0, <1>2, <1>3, NumbersFromZero, Zenon
<1>5. Reads(t)
  <2>1. t <= Len(cells)
    BY <1>0
  <2> QED
    BY <1>4, <2>1 DEF P
<1>6. f[t][<<cells[t].weight, i>>] = messages[t - i]
  BY <1>5, Zenon DEF Reads
<1> QED
  BY <1>1, <1>6, Zenon

(* _lookup_reverse.                                                        *)
GoesAlong(f, digit, i) ==
    IF digit = 0 THEN NoMessage
    ELSE IF i < cells[digit].weight THEN LookupTree(digit, cells[digit].weight, i)
    ELSE f[cells[digit].next][i - cells[digit].weight]

LEMMA LookupReverseIs ==
    ASSUME NEW M, ListFits(M)
    PROVE  \E f : /\ \A t \in 0..Len(cells) : \A i \in Int : f[t][i] = GoesAlong(f, t, i)
                  /\ \A t, i : LookupReverse(t, i) = f[t][i]
<1> DEFINE D == 0..Len(cells)
           U == {LookupTree(d, cells[d].weight, i) : d \in D, i \in Int} \cup {NoMessage}
           V == [Int -> U]
           B(f, t) == [i \in Int |-> GoesAlong(f, t, i)]
           G == [p \in D \X [D -> V] |-> B(p[2], p[1])]
           Is(f) == f = [t \in D |-> B(f, t)]
           g == CHOOSE f : Is(f)
<1>0. Len(cells) \in Nat
  BY DEF ListFits
<1>1. \A t \in D : \A f \in [D -> V] : G[<<t, f>>] = B(f, t)
  OBVIOUS
<1>2. ASSUME NEW t \in D, t # 0
      PROVE  cells[t].next \in D /\ cells[t].next < t /\ cells[t].weight \in Int
  <2>1. t \in 1..Len(cells)
    BY <1>0, <1>2
  <2>2. Heads(M, t)
    BY <2>1, HeadsFit, Zenon
  <2> QED
    BY <2>2 DEF Heads
<1>u. NoMessage \in U /\ \A d \in D : \A i \in Int : LookupTree(d, cells[d].weight, i) \in U
  OBVIOUS
<1> HIDE DEF G, U
<1>4. Makes(G, D, V)
  <2> SUFFICES ASSUME NEW t \in D, NEW f \in [D -> V] PROVE G[<<t, f>>] \in V
    BY Zenon DEF Makes
  <2>0. SUFFICES ASSUME NEW i \in Int PROVE GoesAlong(f, t, i) \in U
    <3>1. B(f, t) \in V
      BY <2>0
    <3> QED
      BY <1>1, <3>1
  <2>1. t # 0 => f[cells[t].next][i - cells[t].weight] \in U
    <3> SUFFICES ASSUME t # 0 PROVE f[cells[t].next][i - cells[t].weight] \in U
      OBVIOUS
    <3>1. f[cells[t].next] \in [Int -> U] /\ i - cells[t].weight \in Int
      BY <1>2
    <3> QED
      BY <3>1
  <2> QED
    BY <1>u, <2>1, Zenon DEF GoesAlong
<1>5. LooksBack(G, D, V)
  <2> SUFFICES ASSUME NEW t \in D, NEW f \in [D -> V], NEW h \in [D -> V], \A i \in D : i < t => f[i] = h[i]
               PROVE  G[<<t, f>>] = G[<<t, h>>]
    BY Zenon DEF LooksBack
  <2>1. ASSUME NEW i PROVE GoesAlong(f, t, i) = GoesAlong(h, t, i)
    BY <1>2, Zenon DEF GoesAlong
  <2>2. B(f, t) = B(h, t)
    BY <2>1, Zenon
  <2>3. G[<<t, f>>] = B(f, t) /\ G[<<t, h>>] = B(h, t)
    BY <1>1
  <2> QED
    BY ONLY <2>2, <2>3
<1>6. V # {} /\ D \subseteq 0..Len(cells)
  <2>1. [i \in Int |-> NoMessage] \in V
    BY <1>u
  <2> QED
    BY <2>1, Zenon
<1> HIDE DEF V
<1>7. Recursion(G, D, V, Len(cells))
  BY <1>0, <1>4, <1>5, <1>6, Zenon DEF Recursion
<1>8. PICK f : Solves(f, G, D, V)
  BY <1>7, RecursionExists, Zenon
<1>9. f \in [D -> V] /\ \A t \in D : f[t] = G[<<t, f>>]
  BY <1>8, Zenon DEF Solves
<1>10. Is(f)
  <2>1. f = [t \in D |-> f[t]]
    BY <1>9
  <2>2. \A t \in D : f[t] = B(f, t)
    BY <1>1, <1>9, Zenon
  <2> QED
    BY <2>1, <2>2, Zenon
<1>11. Is(g)
  BY <1>10, Zenon
<1>12. \A t, i : LookupReverse(t, i) = g[t][i]
  BY Zenon DEF LookupReverse, GoesAlong
<1> HIDE DEF g
<1>13. \A t \in D : g[t] = B(g, t)
  BY <1>11, Zenon
<1>14. \A t \in D : \A i \in Int : g[t][i] = GoesAlong(g, t, i)
  <2> SUFFICES ASSUME NEW t \in D, NEW i \in Int PROVE B(g, t)[i] = GoesAlong(g, t, i)
    BY <1>13, Zenon
  <2> QED
    OBVIOUS
<1> QED
  BY <1>12, <1>14, Zenon

LEMMA LookupReverseReads ==
    ASSUME NEW M, ListFits(M), NEW t \in 1..Len(cells), NEW i \in Int, 0 <= i, i < t
    PROVE  LookupReverse(t, i) = messages[t - i]
<1>0. Len(cells) \in Nat
  BY DEF ListFits
<1>1. PICK f : /\ \A s \in 0..Len(cells) : \A j \in Int : f[s][j] = GoesAlong(f, s, j)
               /\ \A s, j : LookupReverse(s, j) = f[s][j]
  BY LookupReverseIs, Zenon
<1> DEFINE Reads(s) == \A j \in Int : 0 <= j /\ j < s => f[s][j] = messages[s - j]
           P == {m \in Nat : \A s \in 0..Len(cells) : s <= m => Reads(s)}
<1>2. 0 \in P
  <2>1. \A s \in 0..Len(cells) : s <= 0 => Reads(s)
    OBVIOUS
  <2> QED
    BY <2>1
<1>3. ASSUME NEW m \in Nat, m \in P PROVE m + 1 \in P
  <2>1. SUFFICES ASSUME NEW s \in 0..Len(cells), s = m + 1 PROVE Reads(s)
    <3>1. \A s \in 0..Len(cells) : s <= m + 1 => s <= m \/ s = m + 1
      BY <1>0
    <3>2. \A s \in 0..Len(cells) : s <= m => Reads(s)
      BY <1>3, Zenon
    <3>3. \A s \in 0..Len(cells) : s <= m + 1 => Reads(s)
      BY <2>1, <3>1, <3>2, Zenon
    <3>4. m + 1 \in Nat
      OBVIOUS
    <3> HIDE DEF Reads
    <3> QED
      BY <3>3, <3>4
  <2>2. \A u \in 0..Len(cells) : u < s => Reads(u)
    <3>1. \A u \in 0..Len(cells) : u < s => u <= m
      BY <1>0, <2>1
    <3> QED
      BY <1>3, <3>1, Zenon
  <2> SUFFICES ASSUME NEW j \in Int, 0 <= j, j < s PROVE f[s][j] = messages[s - j]
    OBVIOUS
  <2>s. s \in 1..Len(cells) /\ s # 0 /\ s \in 0..Len(cells)
    BY <1>0, <2>1
  <2> DEFINE w == cells[s].weight
             next == cells[s].next
  <2>3. /\ w \in Nat /\ next = s - w /\ next \in 0..Len(cells) /\ next < s
    BY <2>s, HeadsFit, Zenon DEF Heads
  <2>5. f[s][j] = GoesAlong(f, s, j)
    BY <1>1, <2>s, Zenon
  <2>6. CASE j < w
    <3>1. LookupTree(s, w, j) = messages[s - j]
      BY <2>s, <2>6, LookupTreeReads
    <3> QED
      BY <2>5, <2>6, <2>s, <3>1, Zenon DEF GoesAlong
  <2>7. CASE ~(j < w)
    <3>1. 0 <= j - w /\ j - w < next /\ j - w \in Int /\ next - (j - w) = s - j
      <4> HIDE DEF w, next
      <4> QED
        BY <1>0, <2>3, <2>7
    <3>2. f[next][j - w] = messages[next - (j - w)]
      BY <2>2, <2>3, <3>1, Zenon
    <3> QED
      BY <2>5, <2>7, <2>s, <3>1, <3>2, Zenon DEF GoesAlong
  <2> QED
    BY <2>6, <2>7
<1> HIDE DEF P, Reads
<1>4. Len(cells) \in P
  BY <1>0, <1>2, <1>3, NumbersFromZero, Zenon
<1>5. Reads(t)
  <2>1. t <= Len(cells) /\ t \in 0..Len(cells)
    BY <1>0
  <2> QED
    BY <1>4, <2>1 DEF P
<1>6. f[t][i] = messages[t - i]
  BY <1>5, Zenon DEF Reads
<1> QED
  BY <1>1, <1>6, Zenon

-----------------------------------------------------------------------------
(* Parts of a sequence.                                                    *)
LEMMA SubSeqsJoin ==
    ASSUME NEW C, NEW s \in Seq(C), NEW a \in 1..(Len(s) + 1), NEW b \in 1..(Len(s) + 1),
           NEW c \in 1..(Len(s) + 1), a <= b, b <= c
    PROVE  SubSeq(s, a, b - 1) \o SubSeq(s, b, c - 1) = SubSeq(s, a, c - 1)
<1> DEFINE l == SubSeq(s, a, b - 1)
           r == SubSeq(s, b, c - 1)
           w == SubSeq(s, a, c - 1)
<1>p. ASSUME NEW x \in 1..(Len(s) + 1), NEW y \in 1..(Len(s) + 1), x <= y
      PROVE  /\ SubSeq(s, x, y - 1) \in Seq(C) /\ Len(SubSeq(s, x, y - 1)) = y - x
             /\ \A i \in 1..(y - x) : SubSeq(s, x, y - 1)[i] = s[x + i - 1]
  BY ONLY s \in Seq(C), <1>p
<1>1. /\ l \in Seq(C) /\ Len(l) = b - a /\ \A i \in 1..(b - a) : l[i] = s[a + i - 1]
      /\ r \in Seq(C) /\ Len(r) = c - b /\ \A i \in 1..(c - b) : r[i] = s[b + i - 1]
      /\ w \in Seq(C) /\ Len(w) = c - a /\ \A i \in 1..(c - a) : w[i] = s[a + i - 1]
  <2>1. a <= c
    OBVIOUS
  <2> QED
    BY <1>p, <2>1, Zenon
<1> HIDE DEF l, r, w
<1>0. a \in Nat /\ b \in Nat /\ c \in Nat /\ a <= b /\ b <= c
  OBVIOUS
<1>2. /\ l \o r \in Seq(C) /\ Len(l \o r) = c - a
      /\ \A i \in 1..(c - a) : (l \o r)[i] = IF i <= b - a THEN l[i] ELSE r[i - (b - a)]
  <2>1. /\ l \o r \in Seq(C) /\ Len(l \o r) = Len(l) + Len(r)
        /\ \A i \in 1..(Len(l) + Len(r)) : (l \o r)[i] = IF i <= Len(l) THEN l[i] ELSE r[i - Len(l)]
    BY <1>1, ConcatProperties
  <2>2. Len(l) + Len(r) = c - a /\ Len(l) = b - a
    BY <1>0, <1>1
  <2> QED
    BY ONLY <2>1, <2>2
<1>3. ASSUME NEW i \in 1..(c - a) PROVE (l \o r)[i] = w[i]
  <2>1. CASE i <= b - a
    <3>1. i \in 1..(b - a)
      BY <1>0, <2>1
    <3> QED
      BY <1>1, <1>2, <2>1, <3>1
  <2>2. CASE ~(i <= b - a)
    <3> DEFINE j == i - (b - a)
    <3>1. j \in 1..(c - b) /\ b + j - 1 = a + i - 1
      BY <1>0, <2>2
    <3>2. (l \o r)[i] = r[j]
      BY <1>2, <2>2
    <3> HIDE DEF j
    <3>3. r[j] = s[b + j - 1] /\ w[i] = s[a + i - 1]
      BY <1>1, <3>1
    <3> QED
      BY <3>1, <3>2, <3>3
  <2> QED
    BY <2>1, <2>2
<1>4. l \o r = w
  BY <1>1, <1>2, <1>3, SeqEqual
<1> QED
  BY <1>4 DEF l, r, w

(* The same, stated so that the prover finds where to use it.              *)
AreCuts(C, s, a, b, c) ==
    /\ s \in Seq(C) /\ a \in 1..(Len(s) + 1) /\ b \in 1..(Len(s) + 1) /\ c \in 1..(Len(s) + 1)
    /\ a <= b /\ b <= c

Cut(s, a, b) == SubSeq(s, a, b - 1)

LEMMA CutsJoin ==
    ASSUME NEW C, NEW s, NEW a, NEW b, NEW c, AreCuts(C, s, a, b, c)
    PROVE  Cut(s, a, b) \o Cut(s, b, c) = Cut(s, a, c)
BY SubSeqsJoin DEF AreCuts, Cut

LEMMA CutIsEmpty ==
    ASSUME NEW C, NEW s \in Seq(C), NEW a \in Int, NEW b \in Int, b <= a PROVE Cut(s, a, b) = <<>>
BY DEF Cut

LEMMA CutIsOne ==
    ASSUME NEW C, NEW s \in Seq(C), NEW a \in 1..Len(s) PROVE Cut(s, a, a + 1) = <<s[a]>>
<1>1. (a + 1) - 1 = a
  OBVIOUS
<1>2. Cut(s, a, a + 1) = SubSeq(s, a, a)
  BY <1>1, Zenon DEF Cut
<1> QED
  BY <1>2

(* The positions p, start <= p < stop, among those from..(upto - 1), where *)
(* position p holds the message top - 1 - p: oldest first.                 *)
Window(s, top, from, upto, start, stop) == Cut(s, top - Lesser(stop, upto), top - Greater(start, from))
Spans(C, s, top, from, upto, start, stop) ==
    /\ s \in Seq(C) /\ start \in Int /\ stop \in Int /\ top \in Int /\ from \in Int /\ upto \in Int
    /\ from <= upto /\ top - upto >= 1 /\ top - from <= Len(s) + 1

LEMMA WindowIsEmpty ==
    ASSUME NEW C, NEW s, NEW top, NEW from, NEW upto, NEW start, NEW stop,
           Spans(C, s, top, from, upto, start, stop),
           stop <= from \/ upto <= start \/ from = upto \/ stop <= start
    PROVE  Window(s, top, from, upto, start, stop) = <<>>
<1>1. /\ s \in Seq(C) /\ top - Lesser(stop, upto) \in Int /\ top - Greater(start, from) \in Int
      /\ top - Greater(start, from) <= top - Lesser(stop, upto)
  BY DEF Spans, Lesser, Greater
<1> QED
  BY <1>1, CutIsEmpty DEF Window

LEMMA WindowIsSeq ==
    ASSUME NEW C, NEW s, NEW top, NEW from, NEW upto, NEW start, NEW stop,
           Spans(C, s, top, from, upto, start, stop)
    PROVE  Window(s, top, from, upto, start, stop) \in Seq(C)
<1>1. top - Lesser(stop, upto) >= 1 /\ (top - Greater(start, from)) - 1 <= Len(s)
      /\ top - Lesser(stop, upto) \in Int /\ (top - Greater(start, from)) - 1 \in Int
  BY DEF Spans, Lesser, Greater
<1>2. \A a, b \in Int : a >= 1 /\ b <= Len(s) => SubSeq(s, a, b) \in Seq(C)
  BY DEF Spans
<1> QED
  BY <1>1, <1>2, Zenon DEF Window, Cut

LEMMA WindowsJoin ==
    ASSUME NEW C, NEW s, NEW top, NEW from, NEW k, NEW upto, NEW start, NEW stop,
           Spans(C, s, top, from, k, start, stop), Spans(C, s, top, k, upto, start, stop)
    PROVE  Window(s, top, k, upto, start, stop) \o Window(s, top, from, k, start, stop)
             = Window(s, top, from, upto, start, stop)
<1>0. /\ s \in Seq(C) /\ start \in Int /\ stop \in Int /\ top \in Int /\ from \in Int /\ upto \in Int /\ k \in Int
      /\ from <= k /\ k <= upto /\ top - upto >= 1 /\ top - from <= Len(s) + 1 /\ Len(s) \in Nat
  BY DEF Spans
<1> DEFINE l == Window(s, top, k, upto, start, stop)
           r == Window(s, top, from, k, start, stop)
           w == Window(s, top, from, upto, start, stop)
<1>w. Spans(C, s, top, from, upto, start, stop)
  BY <1>0 DEF Spans
<1>t. w \in Seq(C)
  BY <1>w, WindowIsSeq, Zenon
<1>1. CASE stop <= k
  <2>1. l = <<>>
    BY <1>1, WindowIsEmpty
  <2>2. r = w
    <3>1. Lesser(stop, k) = Lesser(stop, upto)
      BY <1>0, <1>1 DEF Lesser
    <3> QED
      BY <3>1, Zenon DEF Window
  <2> HIDE DEF l, r, w
  <2>3. <<>> \o w = w
    BY <1>t, ConcatEmptySeq
  <2> QED
    BY <2>1, <2>2, <2>3, Zenon DEF l, r, w
<1>2. CASE k <= start
  <2>1. r = <<>>
    BY <1>2, WindowIsEmpty
  <2>2. l = w
    <3>1. Greater(start, k) = Greater(start, from)
      BY <1>0, <1>2 DEF Greater
    <3> QED
      BY <3>1, Zenon DEF Window
  <2> HIDE DEF l, r, w
  <2>3. w \o <<>> = w
    BY <1>t, ConcatEmptySeq
  <2> QED
    BY <2>1, <2>2, <2>3, Zenon DEF l, r, w
<1>3. CASE start < k /\ k < stop
  <2> DEFINE a == top - Lesser(stop, upto)
             b == top - k
             c == top - Greater(start, from)
  <2>1. Greater(start, k) = k /\ Lesser(stop, k) = k
    BY <1>0, <1>3 DEF Greater, Lesser
  <2>2. l = Cut(s, a, b) /\ r = Cut(s, b, c) /\ w = Cut(s, a, c)
    BY <2>1, Zenon DEF Window
  <2>3. AreCuts(C, s, a, b, c)
    <3>1. a \in 1..(Len(s) + 1) /\ b \in 1..(Len(s) + 1) /\ c \in 1..(Len(s) + 1) /\ a <= b /\ b <= c
      BY <1>0, <1>3 DEF Lesser, Greater
    <3> QED
      BY <1>0, <3>1, Zenon DEF AreCuts
  <2> HIDE DEF a, b, c
  <2>4. Cut(s, a, b) \o Cut(s, b, c) = Cut(s, a, c)
    BY ONLY <2>3, CutsJoin
  <2> HIDE DEF l, r, w
  <2> QED
    BY <2>2, <2>4, Zenon DEF l, r, w
<1> QED
  BY <1>0, <1>1, <1>2, <1>3

(* _window_tree.                                                           *)
Visits(f, item, w, o, start, stop) ==
    IF stop <= o \/ o + w <= start THEN <<>>
    ELSE IF IsLeaf(item) THEN <<cells[item].message>>
    ELSE f[cells[item].right][<<ChildWeight(w), o + ChildWeight(w) + 1>>]
           \o f[cells[item].left][<<ChildWeight(w), o + 1>>]
           \o (IF start <= o THEN <<cells[item].message>> ELSE <<>>)

Windows(f, start, stop) ==
    /\ \A t \in 1..Len(cells) : \A w, o \in Int : f[t][<<w, o>>] = Visits(f, t, w, o, start, stop)
    /\ \A t, w : TreeWindow(t, w, start, stop) = f[t][<<w, 0>>]

LEMMA TreeWindowIs ==
    ASSUME NEW M, ListFits(M), NEW start, NEW stop PROVE \E f : Windows(f, start, stop)
<1> DEFINE D == 1..Len(cells)
           V == [Int \X Int -> Seq(M)]
           B(f, t) == [at \in Int \X Int |-> Visits(f, t, at[1], at[2], start, stop)]
           G == [p \in D \X [D -> V] |-> B(p[2], p[1])]
           Is(f) == f = [t \in D |-> B(f, t)]
           g == CHOOSE f : Is(f)
<1>0. Len(cells) \in Nat
  BY DEF ListFits
<1>1. \A t \in D : \A f \in [D -> V] : G[<<t, f>>] = B(f, t)
  OBVIOUS
<1> HIDE DEF G
<1>2. \A t \in D : ~IsLeaf(t) => /\ cells[t].left \in D /\ cells[t].left < t
                                 /\ cells[t].right \in D /\ cells[t].right < t
  BY BranchesFit, Zenon DEF Branches
<1>3. \A w \in Int : ChildWeight(w) \in Int
  BY DEF ChildWeight
<1>4. Makes(G, D, V)
  <2> SUFFICES ASSUME NEW t \in D, NEW f \in [D -> V] PROVE G[<<t, f>>] \in V
    BY Zenon DEF Makes
  <2>0. SUFFICES ASSUME NEW w \in Int, NEW o \in Int PROVE Visits(f, t, w, o, start, stop) \in Seq(M)
    <3>1. B(f, t) \in V
      BY <2>0
    <3> QED
      BY <1>1, <3>1
  <2>1. <<cells[t].message>> \in Seq(M) /\ <<>> \in Seq(M)
    <3>1. cells[t].message \in M
      BY HeadsFit, Zenon DEF Heads
    <3> QED
      BY <3>1
  <2>2. ASSUME NEW u \in D, NEW j \in Int PROVE f[u][<<ChildWeight(w), j>>] \in Seq(M)
    <3>1. f[u] \in V /\ <<ChildWeight(w), j>> \in Int \X Int
      BY <1>3
    <3> QED
      BY <3>1
  <2>3. o + 1 \in Int /\ o + ChildWeight(w) + 1 \in Int
    BY <1>3
  <2>4. \A x, y \in Seq(M) : x \o y \in Seq(M)
    OBVIOUS
  <2> QED
    BY <1>2, <2>1, <2>2, <2>3, <2>4, Zenon DEF Visits
<1>5. LooksBack(G, D, V)
  <2> SUFFICES ASSUME NEW t \in D, NEW f \in [D -> V], NEW h \in [D -> V], \A i \in D : i < t => f[i] = h[i]
               PROVE  G[<<t, f>>] = G[<<t, h>>]
    BY Zenon DEF LooksBack
  <2>1. ASSUME NEW w, NEW o PROVE Visits(f, t, w, o, start, stop) = Visits(h, t, w, o, start, stop)
    BY <1>2, Zenon DEF Visits
  <2>2. B(f, t) = B(h, t)
    BY <2>1, Zenon
  <2>3. G[<<t, f>>] = B(f, t) /\ G[<<t, h>>] = B(h, t)
    BY <1>1
  <2> QED
    BY ONLY <2>2, <2>3
<1>6. V # {} /\ D \subseteq 0..Len(cells)
  <2>1. [at \in Int \X Int |-> <<>>] \in V
    OBVIOUS
  <2>2. D \subseteq 0..Len(cells)
    BY <1>0
  <2> QED
    BY <2>1, <2>2, Zenon
<1> HIDE DEF V
<1>7. Recursion(G, D, V, Len(cells))
  BY <1>0, <1>4, <1>5, <1>6, Zenon DEF Recursion
<1>8. PICK f : Solves(f, G, D, V)
  BY <1>7, RecursionExists, Zenon
<1>9. f \in [D -> V] /\ \A t \in D : f[t] = G[<<t, f>>]
  BY <1>8, Zenon DEF Solves
<1>10. Is(f)
  <2>1. f = [t \in D |-> f[t]]
    BY <1>9
  <2>2. \A t \in D : f[t] = B(f, t)
    BY <1>1, <1>9, Zenon
  <2> QED
    BY <2>1, <2>2, Zenon
<1>11. Is(g)
  BY <1>10, Zenon
<1>12. \A t, w : TreeWindow(t, w, start, stop) = g[t][<<w, 0>>]
  BY Zenon DEF TreeWindow, Visits
<1> HIDE DEF g
<1>13. \A t \in D : g[t] = B(g, t)
  BY <1>11, Zenon
<1>14. \A t \in D : \A w, o \in Int : g[t][<<w, o>>] = Visits(g, t, w, o, start, stop)
  <2> SUFFICES ASSUME NEW t \in D, NEW w \in Int, NEW o \in Int
               PROVE  B(g, t)[<<w, o>>] = Visits(g, t, w, o, start, stop)
    BY <1>13, Zenon
  <2> QED
    OBVIOUS
<1> QED
  BY <1>12, <1>14, Zenon DEF Windows

Shows(M, t, o, start, stop) ==
    /\ Heads(M, t) /\ messages \in Seq(M) /\ Len(messages) = Len(cells)
    /\ t \in 1..Len(cells) /\ o \in Int /\ start \in Int /\ stop \in Int
TreeShows(t, o, start, stop) == Window(messages, t + o + 1, o, o + cells[t].weight, start, stop)

LEMMA RootShows ==
    ASSUME NEW M, NEW t, NEW o, NEW start, NEW stop, Shows(M, t, o, start, stop), o < stop
    PROVE  Window(messages, t + o + 1, o, o + 1, start, stop)
             = IF start <= o THEN <<cells[t].message>> ELSE <<>>
<1>0. /\ messages \in Seq(M) /\ Len(messages) \in Nat /\ t \in 1..Len(messages) /\ o \in Int
      /\ start \in Int /\ stop \in Int /\ cells[t].message = messages[t]
  BY DEF Shows, Heads
<1>1. CASE start <= o
  <2>1. /\ (t + o + 1) - Lesser(stop, o + 1) = t
        /\ (t + o + 1) - Greater(start, o) = t + 1
    BY <1>0, <1>1 DEF Lesser, Greater
  <2>2. Cut(messages, t, t + 1) = <<messages[t]>>
    BY <1>0, CutIsOne
  <2> QED
    BY <1>0, <1>1, <2>1, <2>2, Zenon DEF Window
<1>2. CASE ~(start <= o)
  <2>1. o + 1 <= start
    BY <1>0, <1>2
  <2>2. Spans(M, messages, t + o + 1, o, o + 1, start, stop)
    BY <1>0 DEF Spans
  <2> QED
    BY <1>2, <2>1, <2>2, WindowIsEmpty
<1> QED
  BY <1>1, <1>2

LEMMA TreeShowsNothing ==
    ASSUME NEW M, NEW t, NEW o, NEW start, NEW stop, Shows(M, t, o, start, stop),
           stop <= o \/ o + cells[t].weight <= start
    PROVE  TreeShows(t, o, start, stop) = <<>>
<1>1. Spans(M, messages, t + o + 1, o, o + cells[t].weight, start, stop)
  BY DEF Shows, Heads, Spans
<1> QED
  BY <1>1, WindowIsEmpty DEF TreeShows

PartsShow(t, c, o, start, stop) ==
    TreeShows(cells[t].right, o + c + 1, start, stop) \o TreeShows(cells[t].left, o + 1, start, stop)
        \o (IF start <= o THEN <<cells[t].message>> ELSE <<>>)

LEMMA BranchShows ==
    ASSUME NEW M, NEW t, NEW o, NEW start, NEW stop, Shows(M, t, o, start, stop), o < stop, Branches(t)
    PROVE  PartsShow(t, cells[t - 1].weight, o, start, stop) = TreeShows(t, o, start, stop)
<1> DEFINE c == cells[t - 1].weight
           top == t + o + 1
           W(from, upto) == Window(messages, top, from, upto, start, stop)
<1>0. /\ messages \in Seq(M) /\ Len(messages) \in Nat /\ t \in 1..Len(messages) /\ o \in Int
      /\ start \in Int /\ stop \in Int /\ cells[t].weight <= t
  BY DEF Shows, Heads
<1>1. /\ cells[t].left = t - 1 /\ cells[t].right = t - 1 - c /\ cells[cells[t].right].weight = c
      /\ cells[t].weight = 2 * c + 1 /\ c \in Nat
  BY Zenon DEF Branches
<1> HIDE DEF c
<1>2. TreeShows(cells[t].right, o + c + 1, start, stop) = W(o + c + 1, o + 2 * c + 1)
  <2>1. (t - 1 - c) + (o + c + 1) + 1 = top /\ (o + c + 1) + c = o + 2 * c + 1
    BY <1>0, <1>1
  <2> QED
    BY <1>1, <2>1, Zenon DEF TreeShows
<1>3. TreeShows(cells[t].left, o + 1, start, stop) = W(o + 1, o + c + 1)
  <2>1. (t - 1) + (o + 1) + 1 = top /\ (o + 1) + c = o + c + 1
    BY <1>0, <1>1
  <2> QED
    BY <1>1, <2>1, Zenon DEF TreeShows, c
<1>4. (IF start <= o THEN <<cells[t].message>> ELSE <<>>) = W(o, o + 1)
  BY RootShows, Zenon
<1>5. TreeShows(t, o, start, stop) = W(o, o + 2 * c + 1)
  <2>1. o + (2 * c + 1) = o + 2 * c + 1
    BY <1>0, <1>1
  <2> QED
    BY <1>1, <2>1, Zenon DEF TreeShows
<1>6. /\ Spans(M, messages, top, o + 1, o + c + 1, start, stop)
      /\ Spans(M, messages, top, o + c + 1, o + 2 * c + 1, start, stop)
      /\ Spans(M, messages, top, o, o + 1, start, stop)
      /\ Spans(M, messages, top, o + 1, o + 2 * c + 1, start, stop)
  BY <1>0, <1>1 DEF Spans
<1> HIDE DEF top
<1>7. W(o + c + 1, o + 2 * c + 1) \o W(o + 1, o + c + 1) = W(o + 1, o + 2 * c + 1)
  BY ONLY <1>6, WindowsJoin
<1>8. W(o + 1, o + 2 * c + 1) \o W(o, o + 1) = W(o, o + 2 * c + 1)
  BY ONLY <1>6, WindowsJoin
<1> HIDE DEF W
<1> QED
  BY <1>2, <1>3, <1>4, <1>5, <1>7, <1>8, Zenon DEF c, PartsShow

LEMMA TreeWindowReads ==
    ASSUME NEW M, ListFits(M), NEW t \in 1..Len(cells), NEW start \in Int, NEW stop \in Int
    PROVE  TreeWindow(t, cells[t].weight, start, stop) = TreeShows(t, 0, start, stop)
<1>0. Len(cells) \in Nat /\ messages \in Seq(M) /\ Len(messages) = Len(cells)
  BY DEF ListFits, Shaped
<1>f. PICK f : Windows(f, start, stop)
  BY TreeWindowIs, Zenon
<1>1. /\ \A s \in 1..Len(cells) : \A w, o \in Int : f[s][<<w, o>>] = Visits(f, s, w, o, start, stop)
      /\ \A s, w : TreeWindow(s, w, start, stop) = f[s][<<w, 0>>]
  BY <1>f, Zenon DEF Windows
<1> DEFINE Reads(s) == \A o \in Int : f[s][<<cells[s].weight, o>>] = TreeShows(s, o, start, stop)
           P == {m \in Nat : \A s \in 1..Len(cells) : s <= m => Reads(s)}
<1>2. 0 \in P
  <2>1. \A s \in 1..Len(cells) : ~(s <= 0)
    BY <1>0
  <2> QED
    BY <2>1
<1>3. ASSUME NEW m \in Nat, m \in P PROVE m + 1 \in P
  <2>1. SUFFICES ASSUME NEW s \in 1..Len(cells), s = m + 1 PROVE Reads(s)
    <3>1. \A s \in 1..Len(cells) : s <= m + 1 => s <= m \/ s = m + 1
      BY <1>0
    <3>2. \A s \in 1..Len(cells) : s <= m => Reads(s)
      BY <1>3, Zenon
    <3>3. \A s \in 1..Len(cells) : s <= m + 1 => Reads(s)
      BY <2>1, <3>1, <3>2, Zenon
    <3>4. m + 1 \in Nat
      OBVIOUS
    <3> HIDE DEF Reads
    <3> QED
      BY <3>3, <3>4
  <2>2. \A u \in 1..Len(cells) : u < s => Reads(u)
    <3>1. \A u \in 1..Len(cells) : u < s => u <= m
      BY <1>0, <2>1
    <3> QED
      BY <1>3, <3>1, Zenon
  <2> SUFFICES ASSUME NEW o \in Int PROVE f[s][<<cells[s].weight, o>>] = TreeShows(s, o, start, stop)
    OBVIOUS
  <2> DEFINE w == cells[s].weight
  <2>3. Heads(M, s)
    BY HeadsFit, Zenon
  <2>4. w \in Nat /\ w \in Int /\ w <= s /\ w >= 1
    BY <2>3 DEF Heads
  <2>5. f[s][<<w, o>>] = Visits(f, s, w, o, start, stop)
    BY <1>1, <2>4, Zenon
  <2>s. Shows(M, s, o, start, stop)
    BY <1>0, <2>3, Zenon DEF Shows
  <2>6. CASE stop <= o \/ o + w <= start
    <3>1. TreeShows(s, o, start, stop) = <<>>
      BY <2>6, <2>s, TreeShowsNothing, Zenon
    <3> QED
      BY <2>5, <2>6, <3>1, Zenon DEF Visits
  <2>7. CASE ~(stop <= o \/ o + w <= start) /\ IsLeaf(s)
    <3>1. w = 1
      BY <2>7, LeavesFit, Zenon
    <3>2. start <= o /\ o < stop
      BY <2>7, <3>1
    <3>3. TreeShows(s, o, start, stop) = <<cells[s].message>>
      BY <2>s, <3>1, <3>2, RootShows, Zenon DEF TreeShows
    <3> QED
      BY <2>5, <2>7, <3>3, Zenon DEF Visits
  <2>8. CASE ~(stop <= o \/ o + w <= start) /\ ~IsLeaf(s)
    <3>2. Branches(s)
      BY <2>8, BranchesFit, Zenon
    <3> DEFINE c == cells[s - 1].weight
               left == cells[s].left
               right == cells[s].right
    <3>3. /\ left \in 1..Len(cells) /\ left < s /\ cells[left].weight = c
          /\ right \in 1..Len(cells) /\ right < s /\ cells[right].weight = c
          /\ c \in Nat /\ ChildWeight(w) = c
      BY <3>2, Zenon DEF Branches
    <3>4. o < stop
      BY <2>8
    <3>5. PartsShow(s, cells[s - 1].weight, o, start, stop) = TreeShows(s, o, start, stop)
      <4> HIDE DEF w, c, left, right, Reads
      <4> QED
        BY ONLY <2>s, <3>2, <3>4, BranchShows
    <3> HIDE DEF c, left, right, w
    <3>6. o + 1 \in Int /\ o + c + 1 \in Int
      BY <3>3
    <3>7. f[right][<<c, o + c + 1>>] = TreeShows(right, o + c + 1, start, stop)
      BY <2>2, <3>3, <3>6, Zenon
    <3>8. f[left][<<c, o + 1>>] = TreeShows(left, o + 1, start, stop)
      BY <2>2, <3>3, <3>6, Zenon
    <3>9. Visits(f, s, w, o, start, stop)
            = f[right][<<c, o + c + 1>>] \o f[left][<<c, o + 1>>]
                \o (IF start <= o THEN <<cells[s].message>> ELSE <<>>)
      BY <2>8, <3>3, Zenon DEF Visits, left, right, w
    <3> QED
      BY <2>5, <3>5, <3>7, <3>8, <3>9, Zenon DEF w, PartsShow, left, right, c
  <2> QED
    BY <2>6, <2>7, <2>8
<1> HIDE DEF P, Reads
<1>4. Len(cells) \in P
  BY <1>0, <1>2, <1>3, NumbersFromZero, Zenon
<1>5. Reads(t)
  <2>1. t <= Len(cells)
    BY <1>0
  <2> QED
    BY <1>4, <2>1 DEF P
<1>6. f[t][<<cells[t].weight, 0>>] = TreeShows(t, 0, start, stop)
  BY <1>5 DEF Reads
<1> QED
  BY <1>1, <1>6, Zenon

LEMMA TreeWindowIsSeq ==
    ASSUME NEW M, ListFits(M), NEW t \in 1..Len(cells), NEW start \in Int, NEW stop \in Int
    PROVE  TreeWindow(t, cells[t].weight, start, stop) \in Seq(M)
<1>1. Len(cells) \in Nat /\ messages \in Seq(M) /\ Len(messages) = Len(cells)
  BY DEF ListFits, Shaped
<1>2. Heads(M, t)
  BY HeadsFit, Zenon
<1>3. Spans(M, messages, t + 0 + 1, 0, 0 + cells[t].weight, start, stop)
  BY <1>1, <1>2 DEF Heads, Spans
<1>4. TreeShows(t, 0, start, stop) \in Seq(M)
  BY <1>3, WindowIsSeq, Zenon DEF TreeShows
<1> QED
  BY <1>4, TreeWindowReads, Zenon

(* _iter_window.                                                           *)
Selects(f, digit, o, reverse_start, reverse_stop) ==
    IF digit = 0 \/ o >= reverse_stop THEN <<>>
    ELSE LET weight == cells[digit].weight
             local_start == Greater(reverse_start, o) - o
             local_stop == Lesser(reverse_stop, o + weight) - o
         IN  f[cells[digit].next][o + weight]
               \o (IF local_start < local_stop
                   THEN TreeWindow(digit, weight, local_start, local_stop) ELSE <<>>)
Selections(f, count, start, stop) ==
    /\ \A t \in 0..Len(cells) : \A o \in Int : f[t][o] = Selects(f, t, o, count - stop, count - start)
    /\ IterWindow(count, start, stop) = IF start = stop THEN <<>> ELSE f[count][0]

LEMMA IterWindowIs ==
    ASSUME NEW M, ListFits(M), NEW count \in Int, NEW start \in Int, NEW stop \in Int
    PROVE  \E f : Selections(f, count, start, stop)
<1> DEFINE D == 0..Len(cells)
           V == [Int -> Seq(M)]
           B(f, t) == [o \in Int |-> Selects(f, t, o, count - stop, count - start)]
           G == [p \in D \X [D -> V] |-> B(p[2], p[1])]
           Is(f) == f = [t \in D |-> B(f, t)]
           g == CHOOSE f : Is(f)
<1>0. Len(cells) \in Nat
  BY DEF ListFits
<1>1. \A t \in D : \A f \in [D -> V] : G[<<t, f>>] = B(f, t)
  OBVIOUS
<1>2. ASSUME NEW t \in D, t # 0
      PROVE  t \in 1..Len(cells) /\ cells[t].next \in D /\ cells[t].next < t /\ cells[t].weight \in Int
  <2>1. t \in 1..Len(cells)
    BY <1>0, <1>2
  <2>2. Heads(M, t)
    BY <2>1, HeadsFit, Zenon
  <2> QED
    BY <2>1, <2>2 DEF Heads
<1> HIDE DEF G
<1>4. Makes(G, D, V)
  <2> SUFFICES ASSUME NEW t \in D, NEW f \in [D -> V] PROVE G[<<t, f>>] \in V
    BY Zenon DEF Makes
  <2>0. SUFFICES ASSUME NEW o \in Int PROVE Selects(f, t, o, count - stop, count - start) \in Seq(M)
    <3>1. B(f, t) \in V
      BY <2>0
    <3> QED
      BY <1>1, <3>1
  <2> DEFINE weight == cells[t].weight
             local_start == Greater(count - stop, o) - o
             local_stop == Lesser(count - start, o + weight) - o
  <2>1. t # 0 => /\ f[cells[t].next][o + weight] \in Seq(M)
                 /\ TreeWindow(t, weight, local_start, local_stop) \in Seq(M)
    <3> SUFFICES ASSUME t # 0
                 PROVE  /\ f[cells[t].next][o + weight] \in Seq(M)
                        /\ TreeWindow(t, weight, local_start, local_stop) \in Seq(M)
      OBVIOUS
    <3>a. f[cells[t].next] \in [Int -> Seq(M)]
      BY <1>2
    <3>b. o + weight \in Int
      BY <1>2
    <3>1. f[cells[t].next][o + weight] \in Seq(M)
      BY <3>a, <3>b, Zenon
    <3>2. local_start \in Int /\ local_stop \in Int /\ t \in 1..Len(cells)
      <4>1. \A x, y, z \in Int : Greater(x, y) - y \in Int /\ Lesser(x, z) - y \in Int
        BY DEF Greater, Lesser
      <4>2. count - stop \in Int /\ count - start \in Int
        OBVIOUS
      <4> QED
        BY <1>2, <3>b, <4>1, <4>2, Zenon
    <3> HIDE DEF local_start, local_stop
    <3>3. TreeWindow(t, weight, local_start, local_stop) \in Seq(M)
      BY <3>2, TreeWindowIsSeq
    <3> QED
      BY <3>1, <3>3
  <2>2. <<>> \in Seq(M) /\ \A x, y \in Seq(M) : x \o y \in Seq(M)
    OBVIOUS
  <2> QED
    BY <2>1, <2>2, Zenon DEF Selects
<1>5. LooksBack(G, D, V)
  <2> SUFFICES ASSUME NEW t \in D, NEW f \in [D -> V], NEW h \in [D -> V], \A i \in D : i < t => f[i] = h[i]
               PROVE  G[<<t, f>>] = G[<<t, h>>]
    BY Zenon DEF LooksBack
  <2>1. ASSUME NEW o
        PROVE  Selects(f, t, o, count - stop, count - start) = Selects(h, t, o, count - stop, count - start)
    BY <1>2, Zenon DEF Selects
  <2>2. B(f, t) = B(h, t)
    BY <2>1, Zenon
  <2>3. G[<<t, f>>] = B(f, t) /\ G[<<t, h>>] = B(h, t)
    BY <1>1
  <2> QED
    BY ONLY <2>2, <2>3
<1>6. V # {} /\ D \subseteq 0..Len(cells)
  <2>1. [o \in Int |-> <<>>] \in V
    OBVIOUS
  <2> QED
    BY <2>1, Zenon
<1> HIDE DEF V
<1>7. Recursion(G, D, V, Len(cells))
  BY <1>0, <1>4, <1>5, <1>6, Zenon DEF Recursion
<1>8. PICK f : Solves(f, G, D, V)
  BY <1>7, RecursionExists, Zenon
<1>9. f \in [D -> V] /\ \A t \in D : f[t] = G[<<t, f>>]
  BY <1>8, Zenon DEF Solves
<1>10. Is(f)
  <2>1. f = [t \in D |-> f[t]]
    BY <1>9
  <2>2. \A t \in D : f[t] = B(f, t)
    BY <1>1, <1>9, Zenon
  <2> QED
    BY <2>1, <2>2, Zenon
<1>11. Is(g)
  BY <1>10, Zenon
<1>12. IterWindow(count, start, stop) = IF start = stop THEN <<>> ELSE g[count][0]
  BY Zenon DEF IterWindow, Selects
<1> HIDE DEF g
<1>13. \A t \in D : g[t] = B(g, t)
  BY <1>11, Zenon
<1>14. \A t \in D : \A o \in Int : g[t][o] = Selects(g, t, o, count - stop, count - start)
  <2> SUFFICES ASSUME NEW t \in D, NEW o \in Int
               PROVE  B(g, t)[o] = Selects(g, t, o, count - stop, count - start)
    BY <1>13, Zenon
  <2> QED
    OBVIOUS
<1>15. Selections(g, count, start, stop)
  BY <1>12, <1>14, Zenon DEF Selections
<1> QED
  BY <1>15, Zenon

DigitShows(t, o, start, stop) == Window(messages, t + o + 1, o, o + t, start, stop)
LocalStart(o, start) == Greater(start, o) - o
LocalStop(o, w, stop) == Lesser(stop, o + w) - o

LEMMA LocallyShows ==
    ASSUME NEW M, NEW t, NEW o, NEW start, NEW stop, Shows(M, t, o, start, stop)
    PROVE  (IF LocalStart(o, start) < LocalStop(o, cells[t].weight, stop)
            THEN TreeShows(t, 0, LocalStart(o, start), LocalStop(o, cells[t].weight, stop)) ELSE <<>>)
             = TreeShows(t, o, start, stop)
<1> DEFINE w == cells[t].weight
           a == LocalStart(o, start)
           b == LocalStop(o, w, stop)
<1>0. /\ messages \in Seq(M) /\ t \in Nat /\ w \in Nat /\ o \in Int /\ start \in Int /\ stop \in Int
  BY DEF Shows, Heads
<1> HIDE DEF w
<1>1. /\ (t + 0 + 1) - Lesser(b, 0 + w) = (t + o + 1) - Lesser(stop, o + w)
      /\ (t + 0 + 1) - Greater(a, 0) = (t + o + 1) - Greater(start, o)
  BY <1>0 DEF LocalStart, LocalStop, Lesser, Greater
<1>2. CASE a < b
  BY <1>1, <1>2, Zenon DEF TreeShows, Window, w
<1>3. CASE ~(a < b)
  <2>1. /\ (t + o + 1) - Greater(start, o) <= (t + o + 1) - Lesser(stop, o + w)
        /\ (t + o + 1) - Greater(start, o) \in Int /\ (t + o + 1) - Lesser(stop, o + w) \in Int
    BY <1>0, <1>3 DEF LocalStart, LocalStop, Lesser, Greater
  <2>2. Cut(messages, (t + o + 1) - Lesser(stop, o + w), (t + o + 1) - Greater(start, o)) = <<>>
    BY <1>0, <2>1, CutIsEmpty
  <2> QED
    BY <1>3, <2>2, Zenon DEF TreeShows, Window, w
<1> QED
  BY <1>2, <1>3, Zenon DEF w

LEMMA DigitsShow ==
    ASSUME NEW M, NEW t, NEW o, NEW start, NEW stop, Shows(M, t, o, start, stop)
    PROVE  DigitShows(cells[t].next, o + cells[t].weight, start, stop) \o TreeShows(t, o, start, stop)
             = DigitShows(t, o, start, stop)
<1> DEFINE w == cells[t].weight
           top == t + o + 1
           W(from, upto) == Window(messages, top, from, upto, start, stop)
<1>0. /\ messages \in Seq(M) /\ Len(messages) \in Nat /\ t \in 1..Len(messages) /\ o \in Int
      /\ start \in Int /\ stop \in Int /\ w <= t /\ w \in Nat /\ cells[t].next = t - w
  BY DEF Shows, Heads
<1> HIDE DEF w
<1>1. DigitShows(cells[t].next, o + w, start, stop) = W(o + w, o + t)
  <2>1. (t - w) + (o + w) + 1 = top /\ (o + w) + (t - w) = o + t
    BY <1>0
  <2> QED
    BY <1>0, <2>1, Zenon DEF DigitShows
<1>2. TreeShows(t, o, start, stop) = W(o, o + w)
  BY Zenon DEF TreeShows, w
<1>3. DigitShows(t, o, start, stop) = W(o, o + t)
  BY Zenon DEF DigitShows
<1>4. /\ Spans(M, messages, top, o, o + w, start, stop)
      /\ Spans(M, messages, top, o + w, o + t, start, stop)
  BY <1>0 DEF Spans
<1> HIDE DEF top
<1>5. W(o + w, o + t) \o W(o, o + w) = W(o, o + t)
  BY ONLY <1>4, WindowsJoin
<1> HIDE DEF W
<1> QED
  BY <1>1, <1>2, <1>3, <1>5, Zenon DEF w

LEMMA IterWindowReads ==
    ASSUME NEW M, ListFits(M), NEW count \in 1..Len(cells), NEW start \in 0..count, NEW stop \in 0..count
    PROVE  IterWindow(count, start, stop) = SubSeq(messages, start + 1, stop)
<1>0. /\ Len(cells) \in Nat /\ messages \in Seq(M) /\ Len(messages) = Len(cells) /\ Len(messages) \in Nat
      /\ count \in Int /\ start \in Int /\ stop \in Int
  BY DEF ListFits, Shaped
<1> DEFINE rs == count - stop
           re == count - start
<1>i. rs \in Int /\ re \in Int
  BY <1>0
<1>f. PICK f : Selections(f, count, start, stop)
  BY <1>0, IterWindowIs
<1>1. /\ \A s \in 0..Len(cells) : \A o \in Int : f[s][o] = Selects(f, s, o, rs, re)
      /\ IterWindow(count, start, stop) = IF start = stop THEN <<>> ELSE f[count][0]
  BY <1>f, Zenon DEF Selections
<1> HIDE DEF rs, re
<1> DEFINE Reads(s) == \A o \in Int : f[s][o] = DigitShows(s, o, rs, re)
           P == {m \in Nat : \A s \in 0..Len(cells) : s <= m => Reads(s)}
<1>e. ASSUME NEW s \in 0..Len(cells), NEW o \in Int, s = 0 \/ o >= re PROVE DigitShows(s, o, rs, re) = <<>>
  <2>1. Spans(M, messages, s + o + 1, o, o + s, rs, re)
    BY <1>0, <1>i DEF Spans
  <2>2. re <= o \/ o = o + s
    BY <1>0, <1>e, <1>i
  <2> QED
    BY <2>1, <2>2, WindowIsEmpty, Zenon DEF DigitShows
<1>s. ASSUME NEW s \in 0..Len(cells), \A u \in 0..Len(cells) : u < s => Reads(u) PROVE Reads(s)
  <2> SUFFICES ASSUME NEW o \in Int PROVE f[s][o] = DigitShows(s, o, rs, re)
    OBVIOUS
  <2>1. f[s][o] = Selects(f, s, o, rs, re)
    BY <1>1, Zenon
  <2>2. CASE s = 0 \/ o >= re
    BY <1>e, <2>1, <2>2, Zenon DEF Selects
  <2>3. CASE ~(s = 0 \/ o >= re)
    <3> DEFINE w == cells[s].weight
               next == cells[s].next
    <3>1. s \in 1..Len(cells)
      BY <1>0, <2>3
    <3>2. Heads(M, s)
      BY <3>1, HeadsFit, Zenon
    <3>3. w \in Nat /\ next \in 0..Len(cells) /\ next < s
      BY <3>2, Zenon DEF Heads
    <3>4. Shows(M, s, o, rs, re)
      BY <1>0, <1>i, <3>1, <3>2, Zenon DEF Shows
    <3>5. o + w \in Int /\ LocalStart(o, rs) \in Int /\ LocalStop(o, w, re) \in Int
      <4> HIDE DEF w
      <4> QED
        BY <1>i, <3>3 DEF LocalStart, LocalStop, Greater, Lesser
    <3>6. f[next][o + w] = DigitShows(next, o + w, rs, re)
      BY <1>s, <3>3, <3>5, Zenon
    <3>7. TreeWindow(s, w, LocalStart(o, rs), LocalStop(o, w, re))
            = TreeShows(s, 0, LocalStart(o, rs), LocalStop(o, w, re))
      BY <3>1, <3>5, TreeWindowReads, Zenon
    <3>8. (IF LocalStart(o, rs) < LocalStop(o, w, re)
           THEN TreeShows(s, 0, LocalStart(o, rs), LocalStop(o, w, re)) ELSE <<>>)
            = TreeShows(s, o, rs, re)
      BY <3>4, LocallyShows, Zenon
    <3>9. DigitShows(next, o + w, rs, re) \o TreeShows(s, o, rs, re) = DigitShows(s, o, rs, re)
      BY ONLY <3>4, DigitsShow
    <3>10. Selects(f, s, o, rs, re)
             = f[next][o + w] \o (IF LocalStart(o, rs) < LocalStop(o, w, re)
                                  THEN TreeWindow(s, w, LocalStart(o, rs), LocalStop(o, w, re)) ELSE <<>>)
      BY <2>3, Zenon DEF Selects, LocalStart, LocalStop
    <3> HIDE DEF w, next
    <3> QED
      BY <2>1, <3>6, <3>7, <3>8, <3>9, <3>10, Zenon
  <2> QED
    BY <2>2, <2>3
<1> HIDE DEF Reads
<1>2. 0 \in P
  <2>1. \A s \in 0..Len(cells) : s <= 0 => s = 0
    BY <1>0
  <2>2. \A u \in 0..Len(cells) : ~(u < 0)
    BY <1>0
  <2>3. Reads(0)
    BY <1>0, <1>s, <2>2
  <2> QED
    BY <2>1, <2>3
<1>3. ASSUME NEW m \in Nat, m \in P PROVE m + 1 \in P
  <2>1. \A s \in 0..Len(cells) : s <= m + 1 => s <= m \/ s = m + 1
    BY <1>0
  <2>2. \A u \in 0..Len(cells) : u < m + 1 => Reads(u)
    <3>1. \A u \in 0..Len(cells) : u < m + 1 => u <= m
      BY <1>0
    <3> QED
      BY <1>3, <3>1, Zenon
  <2>3. m + 1 \in 0..Len(cells) => Reads(m + 1)
    BY <1>s, <2>2, Zenon
  <2>4. \A s \in 0..Len(cells) : s <= m + 1 => Reads(s)
    BY <1>3, <2>1, <2>3, Zenon
  <2>5. m + 1 \in Nat
    OBVIOUS
  <2> QED
    BY <2>4, <2>5
<1> HIDE DEF P
<1>4. Len(cells) \in P
  BY <1>0, <1>2, <1>3, NumbersFromZero, Zenon
<1>5. f[count][0] = DigitShows(count, 0, rs, re)
  <2>1. count <= Len(cells) /\ count \in 0..Len(cells) /\ 0 \in Int
    BY <1>0
  <2>2. Reads(count)
    BY <1>4, <2>1 DEF P
  <2> QED
    BY <2>1, <2>2, Zenon DEF Reads
<1>6. /\ (count + 0 + 1) - Lesser(re, 0 + count) = start + 1
      /\ (count + 0 + 1) - Greater(rs, 0) = stop + 1 /\ (stop + 1) - 1 = stop
  BY <1>0 DEF rs, re, Lesser, Greater
<1>7. f[count][0] = SubSeq(messages, start + 1, stop)
  BY <1>5, <1>6, Zenon DEF DigitShows, Window, Cut
<1>8. start = stop => SubSeq(messages, start + 1, stop) = <<>>
  BY <1>0
<1> QED
  BY <1>1, <1>7, <1>8, Zenon

(* _iter_tree and __reversed__: the messages from..(from - n + 1).         *)
Falling(seq, from, n) == [i \in 1..n |-> seq[from + 1 - i]]
Falls(C, seq, from, m, n) ==
    /\ seq \in Seq(C) /\ m \in Nat /\ n \in Nat /\ from \in Nat /\ from <= Len(seq) /\ m + n <= from
FallsAs(C, falling, seq, from, n) ==
    falling \in Seq(C) /\ Len(falling) = n /\ \A i \in 1..n : falling[i] = seq[from + 1 - i]

LEMMA FallingIsSeq ==
    ASSUME NEW C, NEW seq, NEW from, NEW n, Falls(C, seq, from, 0, n)
    PROVE  FallsAs(C, Falling(seq, from, n), seq, from, n)
<1>1. \A i \in 1..n : seq[from + 1 - i] \in C
  <2> SUFFICES ASSUME NEW i \in 1..n PROVE seq[from + 1 - i] \in C
    OBVIOUS
  <2>1. from + 1 - i \in 1..Len(seq)
    BY DEF Falls
  <2> QED
    BY <2>1 DEF Falls
<1>2. n \in Nat
  BY DEF Falls
<1> QED
  BY <1>1, <1>2 DEF Falling, FallsAs

LEMMA FallingsJoin ==
    ASSUME NEW C, NEW seq, NEW from, NEW m, NEW n, Falls(C, seq, from, m, n)
    PROVE  Falling(seq, from, m) \o Falling(seq, from - m, n) = Falling(seq, from, m + n)
<1> DEFINE l == Falling(seq, from, m)
           r == Falling(seq, from - m, n)
           w == Falling(seq, from, m + n)
<1>0. m \in Nat /\ n \in Nat /\ from \in Nat
  BY DEF Falls
<1>1. l \in Seq(C) /\ Len(l) = m /\ \A i \in 1..m : l[i] = seq[from + 1 - i]
  <2>1. Falls(C, seq, from, 0, m)
    BY DEF Falls
  <2>2. FallsAs(C, Falling(seq, from, m), seq, from, m)
    BY ONLY <2>1, FallingIsSeq
  <2> QED
    BY <2>2, Zenon DEF FallsAs
<1>2. r \in Seq(C) /\ Len(r) = n /\ \A i \in 1..n : r[i] = seq[(from - m) + 1 - i]
  <2>1. Falls(C, seq, from - m, 0, n)
    BY DEF Falls
  <2>2. FallsAs(C, Falling(seq, from - m, n), seq, from - m, n)
    BY ONLY <2>1, FallingIsSeq
  <2> QED
    BY <2>2, Zenon DEF FallsAs
<1>3. w \in Seq(C) /\ Len(w) = m + n /\ \A i \in 1..(m + n) : w[i] = seq[from + 1 - i]
  <2>1. Falls(C, seq, from, 0, m + n)
    BY DEF Falls
  <2>2. FallsAs(C, Falling(seq, from, m + n), seq, from, m + n)
    BY ONLY <2>1, FallingIsSeq
  <2> QED
    BY <2>2, Zenon DEF FallsAs
<1> HIDE DEF l, r, w
<1>4. /\ l \o r \in Seq(C) /\ Len(l \o r) = m + n
      /\ \A i \in 1..(m + n) : (l \o r)[i] = IF i <= m THEN l[i] ELSE r[i - m]
  BY <1>1, <1>2, ConcatProperties
<1>5. ASSUME NEW i \in 1..(m + n) PROVE (l \o r)[i] = w[i]
  <2>1. CASE i <= m
    <3>1. i \in 1..m
      BY <1>0, <2>1
    <3> QED
      BY <1>1, <1>3, <1>4, <2>1, <3>1
  <2>2. CASE ~(i <= m)
    <3>1. i - m \in 1..n /\ (from - m) + 1 - (i - m) = from + 1 - i
      BY <1>0, <2>2
    <3>2. (l \o r)[i] = r[i - m] /\ w[i] = seq[from + 1 - i]
      BY <1>3, <1>4, <2>2
    <3>3. r[i - m] = seq[(from - m) + 1 - (i - m)]
      BY <1>2, <3>1
    <3> QED
      BY <3>1, <3>2, <3>3
  <2> QED
    BY <2>1, <2>2
<1>6. l \o r = w
  BY <1>3, <1>4, <1>5, SeqEqual
<1> QED
  BY <1>6 DEF l, r, w

LEMMA FallingIsOne ==
    ASSUME NEW C, NEW seq, NEW from, Falls(C, seq, from, 0, 1)
    PROVE  Falling(seq, from, 1) = <<seq[from]>>
<1>1. from + 1 - 1 = from /\ from \in Nat
  BY DEF Falls
<1>a. FallsAs(C, Falling(seq, from, 1), seq, from, 1)
  BY FallingIsSeq
<1>2. Falling(seq, from, 1) \in Seq(C) /\ Len(Falling(seq, from, 1)) = 1
  BY <1>a, Zenon DEF FallsAs
<1>3. Falling(seq, from, 1)[1] = seq[from]
  BY <1>1 DEF Falling
<1> QED
  BY <1>2, <1>3

Walks(f, item) ==
    IF IsLeaf(item) THEN <<cells[item].message>>
    ELSE <<cells[item].message>> \o f[cells[item].left] \o f[cells[item].right]
Walked(f) ==
    /\ \A t \in 1..Len(cells) : f[t] = Walks(f, t)
    /\ \A t : NewestFirst(t) = f[t]

LEMMA NewestFirstIs ==
    ASSUME NEW M, ListFits(M) PROVE \E f : Walked(f)
<1> DEFINE D == 1..Len(cells)
           V == Seq(M)
           G == [p \in D \X [D -> V] |-> Walks(p[2], p[1])]
           Is(f) == f = [t \in D |-> Walks(f, t)]
           g == CHOOSE f : Is(f)
<1>0. Len(cells) \in Nat
  BY DEF ListFits
<1>1. \A t \in D : \A f \in [D -> V] : G[<<t, f>>] = Walks(f, t)
  OBVIOUS
<1> HIDE DEF G
<1>2. \A t \in D : ~IsLeaf(t) => /\ cells[t].left \in D /\ cells[t].left < t
                                 /\ cells[t].right \in D /\ cells[t].right < t
  BY BranchesFit, Zenon DEF Branches
<1>4. Makes(G, D, V)
  <2> SUFFICES ASSUME NEW t \in D, NEW f \in [D -> V] PROVE Walks(f, t) \in V
    BY <1>1, Zenon DEF Makes
  <2>1. <<cells[t].message>> \in Seq(M)
    <3>1. cells[t].message \in M
      BY HeadsFit, Zenon DEF Heads
    <3> QED
      BY <3>1
  <2>4. \A x, y \in Seq(M) : x \o y \in Seq(M)
    OBVIOUS
  <2>5. \A u \in D : f[u] \in Seq(M)
    OBVIOUS
  <2> QED
    BY <1>2, <2>1, <2>4, <2>5, Zenon DEF Walks
<1>5. LooksBack(G, D, V)
  <2> SUFFICES ASSUME NEW t \in D, NEW f \in [D -> V], NEW h \in [D -> V], \A i \in D : i < t => f[i] = h[i]
               PROVE  G[<<t, f>>] = G[<<t, h>>]
    BY Zenon DEF LooksBack
  <2>1. Walks(f, t) = Walks(h, t)
    BY <1>2, Zenon DEF Walks
  <2> QED
    BY <1>1, <2>1, Zenon
<1>6. V # {} /\ D \subseteq 0..Len(cells)
  <2>1. <<>> \in V
    OBVIOUS
  <2>2. D \subseteq 0..Len(cells)
    BY <1>0
  <2> QED
    BY <2>1, <2>2, Zenon
<1> HIDE DEF V
<1>7. Recursion(G, D, V, Len(cells))
  BY <1>0, <1>4, <1>5, <1>6, Zenon DEF Recursion
<1>8. PICK f : Solves(f, G, D, V)
  BY <1>7, RecursionExists, Zenon
<1>9. f \in [D -> V] /\ \A t \in D : f[t] = G[<<t, f>>]
  BY <1>8, Zenon DEF Solves
<1>10. Is(f)
  <2>1. f = [t \in D |-> f[t]]
    BY <1>9
  <2>2. \A t \in D : f[t] = Walks(f, t)
    BY <1>1, <1>9, Zenon
  <2> QED
    BY <2>1, <2>2, Zenon
<1>11. Is(g)
  BY <1>10, Zenon
<1>12. \A t : NewestFirst(t) = g[t]
  BY Zenon DEF NewestFirst, Walks
<1> HIDE DEF g
<1>13. \A t \in D : g[t] = Walks(g, t)
  BY <1>11, Zenon
<1>14. Walked(g)
  BY <1>12, <1>13, Zenon DEF Walked
<1> QED
  BY <1>14, Zenon

LEMMA NewestFirstReads ==
    ASSUME NEW M, ListFits(M), NEW t \in 1..Len(cells)
    PROVE  NewestFirst(t) = Falling(messages, t, cells[t].weight)
<1>0. Len(cells) \in Nat /\ messages \in Seq(M) /\ Len(messages) = Len(cells)
  BY DEF ListFits, Shaped
<1>f. PICK f : Walked(f)
  BY NewestFirstIs, Zenon
<1>1. (\A s \in 1..Len(cells) : f[s] = Walks(f, s)) /\ \A s : NewestFirst(s) = f[s]
  BY <1>f, Zenon DEF Walked
<1> DEFINE Reads(s) == f[s] = Falling(messages, s, cells[s].weight)
           P == {m \in Nat : \A s \in 1..Len(cells) : s <= m => Reads(s)}
<1>s. ASSUME NEW s \in 1..Len(cells), \A u \in 1..Len(cells) : u < s => Reads(u) PROVE Reads(s)
  <2> DEFINE w == cells[s].weight
  <2>1. f[s] = Walks(f, s)
    BY <1>1, Zenon
  <2>2. w \in Nat /\ w <= s /\ w >= 1 /\ cells[s].message = messages[s]
    BY HeadsFit, Zenon DEF Heads
  <2>3. Falling(messages, s, 1) = <<cells[s].message>>
    <3>1. Falls(M, messages, s, 0, 1)
      BY <1>0 DEF Falls
    <3>2. Falling(messages, s, 1) = <<messages[s]>>
      BY <3>1, FallingIsOne, Zenon
    <3> QED
      BY <2>2, <3>2, Zenon
  <2>4. CASE IsLeaf(s)
    <3>1. w = 1
      BY <2>4, LeavesFit, Zenon
    <3> QED
      BY <2>1, <2>3, <2>4, <3>1, Zenon DEF Walks
  <2>5. CASE ~IsLeaf(s)
    <3>2. Branches(s)
      BY <2>5, BranchesFit, Zenon
    <3> DEFINE c == cells[s - 1].weight
               left == cells[s].left
               right == cells[s].right
    <3>3. /\ left \in 1..Len(cells) /\ left < s /\ left = s - 1 /\ cells[left].weight = c
          /\ right \in 1..Len(cells) /\ right < s /\ right = (s - 1) - c /\ cells[right].weight = c
          /\ c \in Nat /\ w = 2 * c + 1
      BY <3>2, Zenon DEF Branches
    <3> HIDE DEF c, left, right, w
    <3>4. f[left] = Falling(messages, s - 1, c)
      BY <1>s, <3>3, Zenon
    <3>5. f[right] = Falling(messages, (s - 1) - c, c)
      BY <1>s, <3>3, Zenon
    <3>a. Falls(M, messages, s, 1, c)
      BY <1>0, <2>2, <3>3 DEF Falls
    <3>6. Falls(M, messages, s, 1 + c, c)
      BY <1>0, <2>2, <3>3 DEF Falls
    <3>7. Falling(messages, s, 1) \o Falling(messages, s - 1, c) = Falling(messages, s, 1 + c)
      BY ONLY <3>a, FallingsJoin
    <3>8. Falling(messages, s, 1 + c) \o Falling(messages, s - (1 + c), c) = Falling(messages, s, (1 + c) + c)
      BY ONLY <3>6, FallingsJoin
    <3>9. s - (1 + c) = (s - 1) - c /\ (1 + c) + c = w
      BY <1>0, <3>3
    <3>10. f[s] = <<cells[s].message>> \o f[left] \o f[right]
      BY <2>1, <2>5, Zenon DEF Walks, left, right
    <3> QED
      BY <2>3, <3>4, <3>5, <3>7, <3>8, <3>9, <3>10, Zenon DEF w
  <2> QED
    BY <2>4, <2>5
<1> HIDE DEF Reads
<1>2. 0 \in P
  <2>1. \A s \in 1..Len(cells) : ~(s <= 0)
    BY <1>0
  <2> QED
    BY <2>1
<1>3. ASSUME NEW m \in Nat, m \in P PROVE m + 1 \in P
  <2>1. \A s \in 1..Len(cells) : s <= m + 1 => s <= m \/ s = m + 1
    BY <1>0
  <2>2. \A u \in 1..Len(cells) : u < m + 1 => Reads(u)
    <3>1. \A u \in 1..Len(cells) : u < m + 1 => u <= m
      BY <1>0
    <3> QED
      BY <1>3, <3>1, Zenon
  <2>3. m + 1 \in 1..Len(cells) => Reads(m + 1)
    BY <1>s, <2>2, Zenon
  <2>4. \A s \in 1..Len(cells) : s <= m + 1 => Reads(s)
    BY <1>3, <2>1, <2>3, Zenon
  <2>5. m + 1 \in Nat
    OBVIOUS
  <2> QED
    BY <2>4, <2>5
<1> HIDE DEF P
<1>4. Len(cells) \in P
  BY <1>0, <1>2, <1>3, NumbersFromZero, Zenon
<1>5. Reads(t)
  <2>1. t <= Len(cells)
    BY <1>0
  <2> QED
    BY <1>4, <2>1 DEF P
<1> QED
  BY <1>1, <1>5, Zenon DEF Reads

Continues(f, digit) == IF digit = 0 THEN <<>> ELSE NewestFirst(digit) \o f[cells[digit].next]
Continued(f) ==
    /\ \A t \in 0..Len(cells) : f[t] = Continues(f, t)
    /\ \A t : ReversedHistory(t) = f[t]

LEMMA ReversedHistoryIs ==
    ASSUME NEW M, ListFits(M) PROVE \E f : Continued(f)
<1> DEFINE D == 0..Len(cells)
           V == Seq(M)
           G == [p \in D \X [D -> V] |-> Continues(p[2], p[1])]
           Is(f) == f = [t \in D |-> Continues(f, t)]
           g == CHOOSE f : Is(f)
<1>0. Len(cells) \in Nat /\ messages \in Seq(M) /\ Len(messages) = Len(cells)
  BY DEF ListFits, Shaped
<1>1. \A t \in D : \A f \in [D -> V] : G[<<t, f>>] = Continues(f, t)
  OBVIOUS
<1>2. ASSUME NEW t \in D, t # 0
      PROVE  cells[t].next \in D /\ cells[t].next < t /\ NewestFirst(t) \in Seq(M)
  <2>1. t \in 1..Len(cells)
    BY <1>0, <1>2
  <2>2. Heads(M, t)
    BY <2>1, HeadsFit, Zenon
  <2>3. Falls(M, messages, t, 0, cells[t].weight)
    BY <1>0, <2>1, <2>2 DEF Heads, Falls
  <2>4. FallsAs(M, Falling(messages, t, cells[t].weight), messages, t, cells[t].weight)
    BY ONLY <2>3, FallingIsSeq
  <2>5. NewestFirst(t) \in Seq(M)
    BY <2>1, <2>4, NewestFirstReads, Zenon DEF FallsAs
  <2> QED
    BY <2>2, <2>5 DEF Heads
<1> HIDE DEF G
<1>4. Makes(G, D, V)
  <2> SUFFICES ASSUME NEW t \in D, NEW f \in [D -> V] PROVE Continues(f, t) \in V
    BY <1>1, Zenon DEF Makes
  <2>1. <<>> \in Seq(M) /\ \A x, y \in Seq(M) : x \o y \in Seq(M)
    OBVIOUS
  <2>2. \A u \in D : f[u] \in Seq(M)
    OBVIOUS
  <2> QED
    BY <1>2, <2>1, <2>2, Zenon DEF Continues
<1>5. LooksBack(G, D, V)
  <2> SUFFICES ASSUME NEW t \in D, NEW f \in [D -> V], NEW h \in [D -> V], \A i \in D : i < t => f[i] = h[i]
               PROVE  G[<<t, f>>] = G[<<t, h>>]
    BY Zenon DEF LooksBack
  <2>1. Continues(f, t) = Continues(h, t)
    BY <1>2, Zenon DEF Continues
  <2> QED
    BY <1>1, <2>1, Zenon
<1>6. V # {} /\ D \subseteq 0..Len(cells)
  <2>1. <<>> \in V
    OBVIOUS
  <2> QED
    BY <2>1, Zenon
<1> HIDE DEF V
<1>7. Recursion(G, D, V, Len(cells))
  BY <1>0, <1>4, <1>5, <1>6, Zenon DEF Recursion
<1>8. PICK f : Solves(f, G, D, V)
  BY <1>7, RecursionExists, Zenon
<1>9. f \in [D -> V] /\ \A t \in D : f[t] = G[<<t, f>>]
  BY <1>8, Zenon DEF Solves
<1>10. Is(f)
  <2>1. f = [t \in D |-> f[t]]
    BY <1>9
  <2>2. \A t \in D : f[t] = Continues(f, t)
    BY <1>1, <1>9, Zenon
  <2> QED
    BY <2>1, <2>2, Zenon
<1>11. Is(g)
  BY <1>10, Zenon
<1>12. \A t : ReversedHistory(t) = g[t]
  BY Zenon DEF ReversedHistory, Continues
<1> HIDE DEF g
<1>13. \A t \in D : g[t] = Continues(g, t)
  BY <1>11, Zenon
<1>14. Continued(g)
  BY <1>12, <1>13, Zenon DEF Continued
<1> QED
  BY <1>14, Zenon

LEMMA ReversedHistoryReads ==
    ASSUME NEW M, ListFits(M), NEW count \in 0..Len(cells)
    PROVE  ReversedHistory(count) = Falling(messages, count, count)
<1>0. Len(cells) \in Nat /\ messages \in Seq(M) /\ Len(messages) = Len(cells)
  BY DEF ListFits, Shaped
<1>f. PICK f : Continued(f)
  BY ReversedHistoryIs, Zenon
<1>1. (\A s \in 0..Len(cells) : f[s] = Continues(f, s)) /\ \A s : ReversedHistory(s) = f[s]
  BY <1>f, Zenon DEF Continued
<1> DEFINE Reads(s) == f[s] = Falling(messages, s, s)
           P == {m \in Nat : \A s \in 0..Len(cells) : s <= m => Reads(s)}
<1>s. ASSUME NEW s \in 0..Len(cells), \A u \in 0..Len(cells) : u < s => Reads(u) PROVE Reads(s)
  <2>1. f[s] = Continues(f, s)
    BY <1>1, Zenon
  <2>2. CASE s = 0
    <3>1. Falling(messages, 0, 0) = <<>>
      BY DEF Falling
    <3> QED
      BY <2>1, <2>2, <3>1, Zenon DEF Continues
  <2>3. CASE s # 0
    <3> DEFINE w == cells[s].weight
               next == cells[s].next
    <3>1. s \in 1..Len(cells)
      BY <1>0, <2>3
    <3>2. w \in Nat /\ w <= s /\ next = s - w /\ next \in 0..Len(cells) /\ next < s
      BY <3>1, HeadsFit, Zenon DEF Heads
    <3>3. NewestFirst(s) = Falling(messages, s, w)
      BY <3>1, NewestFirstReads, Zenon
    <3>4. f[s] = NewestFirst(s) \o f[next]
      BY <2>1, <2>3, Zenon DEF Continues
    <3> HIDE DEF w, next
    <3>5. f[next] = Falling(messages, s - w, s - w)
      BY <1>s, <3>2, Zenon
    <3>6. Falls(M, messages, s, w, s - w) /\ w + (s - w) = s
      BY <1>0, <3>2 DEF Falls
    <3>7. Falling(messages, s, w) \o Falling(messages, s - w, s - w) = Falling(messages, s, w + (s - w))
      BY ONLY <3>6, FallingsJoin
    <3> QED
      BY <3>3, <3>4, <3>5, <3>6, <3>7, Zenon
  <2> QED
    BY <2>2, <2>3
<1> HIDE DEF Reads
<1>2. 0 \in P
  <2>1. \A s \in 0..Len(cells) : s <= 0 => s = 0
    BY <1>0
  <2>2. \A u \in 0..Len(cells) : ~(u < 0)
    BY <1>0
  <2>3. Reads(0)
    BY <1>0, <1>s, <2>2
  <2> QED
    BY <2>1, <2>3
<1>3. ASSUME NEW m \in Nat, m \in P PROVE m + 1 \in P
  <2>1. \A s \in 0..Len(cells) : s <= m + 1 => s <= m \/ s = m + 1
    BY <1>0
  <2>2. \A u \in 0..Len(cells) : u < m + 1 => Reads(u)
    <3>1. \A u \in 0..Len(cells) : u < m + 1 => u <= m
      BY <1>0
    <3> QED
      BY <1>3, <3>1, Zenon
  <2>3. m + 1 \in 0..Len(cells) => Reads(m + 1)
    BY <1>s, <2>2, Zenon
  <2>4. \A s \in 0..Len(cells) : s <= m + 1 => Reads(s)
    BY <1>3, <2>1, <2>3, Zenon
  <2>5. m + 1 \in Nat
    OBVIOUS
  <2> QED
    BY <2>4, <2>5
<1> HIDE DEF P
<1>4. Len(cells) \in P
  BY <1>0, <1>2, <1>3, NumbersFromZero, Zenon
<1>5. Reads(count)
  <2>1. count <= Len(cells)
    BY <1>0
  <2> QED
    BY <1>4, <2>1 DEF P
<1> QED
  BY <1>1, <1>5, Zenon DEF Reads

LEMMA ItemReads ==
    ASSUME NEW M, ListFits(M), NEW count \in 1..Len(cells), NEW i \in 0..(count - 1)
    PROVE  Item(count, i) = messages[i + 1] /\ Item(count, i - count) = messages[i + 1]
<1>0. /\ Len(cells) \in Nat /\ messages \in Seq(M) /\ Len(messages) = Len(cells)
      /\ count \in Nat /\ i \in Nat /\ i < count /\ i - count < 0 /\ (i - count) + count = i
      /\ ~(i < 0) /\ ~(i >= count)
  BY DEF ListFits, Shaped
<1>1. CASE i = 0
  <2>1. Head(messages) = messages[i + 1]
    BY <1>0, <1>1
  <2>2. Item(count, i) = Head(messages) /\ Item(count, i - count) = Head(messages)
    BY <1>0, <1>1, Zenon DEF Item
  <2> QED
    BY <2>1, <2>2, Zenon
<1>2. CASE i # 0
  <2> DEFINE j == count - i - 1
  <2>1. j \in Int /\ 0 <= j /\ j < count /\ count - j = i + 1
    BY <1>0, <1>2
  <2>2. Item(count, i) = LookupReverse(count, j) /\ Item(count, i - count) = LookupReverse(count, j)
    BY <1>0, <1>2, Zenon DEF Item
  <2> HIDE DEF j
  <2>3. LookupReverse(count, j) = messages[count - j]
    BY <2>1, LookupReverseReads, Zenon
  <2> QED
    BY <2>1, <2>2, <2>3, Zenon
<1> QED
  BY <1>1, <1>2

LEMMA ItemsEnd ==
    ASSUME NEW count \in Nat PROVE Item(count, count) = NoMessage /\ Item(count, -count - 1) = NoMessage
<1>1. ~(count < 0) /\ count >= count /\ -count - 1 < 0 /\ (-count - 1) + count < 0
  OBVIOUS
<1> QED
  BY <1>1, Zenon DEF Item

LEMMA ReversedReads ==
    ASSUME NEW M, ListFits(M), NEW count \in 1..Len(cells)
    PROVE  ReversedHistory(count) = Backwards(SubSeq(messages, 1, count))
<1>0. Len(cells) \in Nat /\ messages \in Seq(M) /\ Len(messages) = Len(cells)
  BY DEF ListFits, Shaped
<1> DEFINE s == SubSeq(messages, 1, count)
<1>1. s \in Seq(M) /\ Len(s) = count /\ DOMAIN s = 1..count /\ \A i \in 1..count : s[i] = messages[i]
  BY <1>0
<1> HIDE DEF s
<1>2. \A i \in 1..count : s[Len(s) + 1 - i] = messages[count + 1 - i]
  <2> SUFFICES ASSUME NEW i \in 1..count PROVE s[Len(s) + 1 - i] = messages[count + 1 - i]
    OBVIOUS
  <2>1. count + 1 - i \in 1..count
    BY <1>0
  <2> QED
    BY <1>1, <2>1
<1>3. Backwards(s) = Falling(messages, count, count)
  BY <1>1, <1>2, Zenon DEF Backwards, Falling
<1>4. count \in 0..Len(cells)
  BY <1>0
<1> QED
  BY <1>3, <1>4, ReversedHistoryReads, Zenon DEF s

LEMMA TailReads ==
    ASSUME NEW M, ListFits(M), NEW count \in 1..Len(cells), NEW n \in Nat
    PROVE  IterTail(count, n) = SubSeq(messages, IF n < count THEN count - n + 1 ELSE 1, count)
<1>0. /\ Len(cells) \in Nat /\ messages \in Seq(M) /\ Len(messages) = Len(cells)
      /\ count \in Nat /\ count <= Len(messages) /\ count \in 0..Len(cells)
  BY DEF ListFits, Shaped
<1> DEFINE m == Lesser(n, count)
           r == Falling(messages, count, count)
           h == SubSeq(r, 1, m)
           first == IF n < count THEN count - n + 1 ELSE 1
           tail == SubSeq(messages, first, count)
<1>1. m \in 0..count /\ first = (count - m) + 1
  BY <1>0 DEF Lesser
<1> HIDE DEF m, first
<1>2. r \in Seq(M) /\ Len(r) = count /\ \A i \in 1..count : r[i] = messages[count + 1 - i]
  <2>1. Falls(M, messages, count, 0, count)
    BY <1>0 DEF Falls
  <2>2. FallsAs(M, Falling(messages, count, count), messages, count, count)
    BY ONLY <2>1, FallingIsSeq
  <2> QED
    BY <2>2, Zenon DEF FallsAs
<1> HIDE DEF r
<1>3. h \in Seq(M) /\ Len(h) = m /\ DOMAIN h = 1..m /\ \A i \in 1..m : h[i] = r[i]
  BY <1>0, <1>1, <1>2
<1>4. tail \in Seq(M) /\ Len(tail) = m /\ \A i \in 1..m : tail[i] = messages[(count - m) + i]
  BY <1>0, <1>1
<1> HIDE DEF h, tail
<1>5. ASSUME NEW i \in 1..m PROVE h[Len(h) + 1 - i] = tail[i]
  <2>1. m + 1 - i \in 1..m /\ m + 1 - i \in 1..count /\ count + 1 - (m + 1 - i) = (count - m) + i
    BY <1>0, <1>1
  <2>2. h[m + 1 - i] = r[m + 1 - i]
    BY <1>3, <2>1
  <2>3. r[m + 1 - i] = messages[count + 1 - (m + 1 - i)]
    BY <1>2, <2>1
  <2>4. tail[i] = messages[(count - m) + i]
    BY <1>4
  <2> QED
    BY <1>3, <2>1, <2>2, <2>3, <2>4
<1>6. Backwards(h) = [i \in 1..m |-> tail[i]]
  BY <1>3, <1>5, Zenon DEF Backwards
<1>7. tail = [i \in 1..m |-> tail[i]]
  BY <1>0, <1>1, <1>4
<1>8. IterTail(count, n) = Backwards(h)
  BY <1>0, ReversedHistoryReads, Zenon DEF IterTail, h, m, r
<1> QED
  BY <1>6, <1>7, <1>8, Zenon DEF tail, first

LEMMA ListReads == ASSUME NEW M, ListFits(M) PROVE HistoryIsASequence
<1>0. Len(cells) \in Nat /\ Len(messages) = Len(cells)
  BY DEF ListFits, Shaped
<1> SUFFICES ASSUME NEW count \in 1..Len(messages) PROVE ReadsAs(count)
  BY DEF HistoryIsASequence
<1>1. count \in 1..Len(cells) /\ count \in Nat /\ \A n \in 0..(count + 1) : n \in Nat
  BY <1>0
<1>2. \A i \in 0..(count - 1) : Item(count, i) = messages[i + 1] /\ Item(count, i - count) = messages[i + 1]
  BY <1>1, ItemReads, Zenon
<1>3. Item(count, count) = NoMessage /\ Item(count, -count - 1) = NoMessage
  BY <1>1, ItemsEnd
<1>4. \A start, stop \in 0..count : IterWindow(count, start, stop) = SubSeq(messages, start + 1, stop)
  BY <1>1, IterWindowReads, Zenon
<1>5. ReversedHistory(count) = Backwards(SubSeq(messages, 1, count))
  BY <1>1, ReversedReads, Zenon
<1>6. \A n \in 0..(count + 1) :
        IterTail(count, n) = SubSeq(messages, IF n < count THEN count - n + 1 ELSE 1, count)
  BY <1>1, TailReads, Zenon
<1> QED
  BY <1>2, <1>3, <1>4, <1>5, <1>6, Zenon DEF ReadsAs

ListInv == \E M : ListFits(M)

LEMMA BuiltFits == ASSUME NEW M, NEW new \in Seq(M), Built(new) PROVE ListFits(M)
<1>1. <<>> \in Seq(M) /\ <<>> \in Seq(Cells(M)) /\ Shaped(<<>>, <<>>) /\ <<>> \o new = new
  BY DEF Shaped
<1>2. ConsAll(<<>>, new) \in Seq(Cells(M)) /\ Shaped(ConsAll(<<>>, new), <<>> \o new)
  BY ONLY <1>1, new \in Seq(M), ManyMoreCells
<1> QED
  BY <1>1, <1>2, Zenon DEF Built, ListFits

LEMMA AppendedFits == ASSUME NEW M, NEW N, ListFits(M), NEW new \in Seq(N), Appended(new) PROVE ListFits(M \cup N)'
<1> DEFINE K == M \cup N
<1>1. messages \in Seq(K) /\ cells \in Seq(Cells(K)) /\ new \in Seq(K)
  <2>1. Cells(M) \subseteq Cells(K)
    BY DEF Cells
  <2>2. \A A, B : A \subseteq B => Seq(A) \subseteq Seq(B)
    OBVIOUS
  <2> QED
    BY <2>1, <2>2 DEF ListFits
<1>2. Shaped(cells, messages)
  BY DEF ListFits
<1> HIDE DEF K
<1>3. ConsAll(cells, new) \in Seq(Cells(K)) /\ Shaped(ConsAll(cells, new), messages \o new)
  BY ONLY <1>1, <1>2, ManyMoreCells
<1>4. messages \o new \in Seq(K)
  BY <1>1
<1> QED
  BY <1>3, <1>4, Zenon DEF Appended, ListFits, K

(* A history, and every history it was appended to, is the sequence of its *)
(* messages: whatever the messages are, in however many appends of however *)
(* many messages they came (RunHistory).                                   *)
THEOREM HistoryIsASequenceAlways == HistorySpec => []HistoryIsASequence
<1>1. AnyHistory => ListInv
  <2>1. ASSUME NEW set, NEW new \in SomeMessages(set), Built(new) PROVE ListInv
    BY <2>1, BuiltFits, Zenon DEF ListInv, SomeMessages
  <2> QED
    BY <2>1, Zenon DEF AnyHistory
<1>2. ListInv /\ [AppendAny]_listVars => ListInv'
  <2> SUFFICES ASSUME ListInv, [AppendAny]_listVars PROVE ListInv'
    OBVIOUS
  <2>1. PICK M : ListFits(M)
    BY Zenon DEF ListInv
  <2>2. CASE UNCHANGED listVars
    <3>1. ListFits(M)'
      BY <2>1, <2>2 DEF ListFits, listVars
    <3> QED
      BY <3>1, Zenon DEF ListInv
  <2>3. ASSUME NEW set, NEW new \in SomeMessages(set), Appended(new) PROVE ListInv'
    <3>1. ListFits(M \cup set)'
      BY <2>1, <2>3, AppendedFits DEF SomeMessages
    <3> QED
      BY <3>1, Zenon DEF ListInv
  <2> QED
    BY <2>2, <2>3, Zenon DEF AppendAny
<1>3. ListInv => HistoryIsASequence
  BY ListReads, Zenon DEF ListInv
<1> QED
  BY <1>1, <1>2, <1>3, PTL DEF HistorySpec

LEMMA HistoriesAreSome == ASSUME MaxAppended \in Nat
    PROVE  (HistoryInit => AnyHistory) /\ (ListInv /\ AppendHistory => AppendAny)
<1>1. ASSUME NEW n \in 1..MaxAppended, NEW k \in Nat PROVE [i \in 1..n |-> k + i] \in SomeMessages(Nat)
  <2>1. [i \in 1..n |-> k + i] \in Seq(Nat) /\ Len([i \in 1..n |-> k + i]) = n /\ n # 0
    OBVIOUS
  <2> QED
    BY <2>1 DEF SomeMessages
<1>2. ASSUME NEW n \in 1..MaxAppended PROVE [i \in 1..n |-> i] = [i \in 1..n |-> 0 + i]
  OBVIOUS
<1>3. HistoryInit => AnyHistory
  <2> SUFFICES ASSUME NEW n \in 1..MaxAppended, Built([i \in 1..n |-> i]) PROVE AnyHistory
    BY Zenon DEF HistoryInit
  <2>1. [i \in 1..n |-> i] \in SomeMessages(Nat)
    BY <1>1, <1>2
  <2> QED
    BY <2>1, Zenon DEF AnyHistory
<1>4. ASSUME ListInv PROVE AppendHistory => AppendAny
  <2> SUFFICES ASSUME NEW n \in 1..MaxAppended, Appended([i \in 1..n |-> Len(messages) + i]) PROVE AppendAny
    BY Zenon DEF AppendHistory
  <2>1. Len(messages) \in Nat
    BY <1>4 DEF ListInv, ListFits
  <2>2. [i \in 1..n |-> Len(messages) + i] \in SomeMessages(Nat)
    BY <1>1, <2>1, Zenon
  <2> QED
    BY <2>2, Zenon DEF AppendAny
<1> QED
  BY <1>3, <1>4, Zenon
=============================================================================
