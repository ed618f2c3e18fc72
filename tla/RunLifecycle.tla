---------------------------- MODULE RunLifecycle ----------------------------
(***************************************************************************)
(* What the kernel promises about the durable head of one run, whoever     *)
(* writes it and whatever happens in between: the legal sequence of        *)
(* checkpoints, one action per kind of durable fact.  Messages are gone;   *)
(* what remains is the revision, the lifecycle state, the unanswered calls *)
(* and the three budgets.  Engine.tla implements this specification.       *)
(***************************************************************************)
EXTENDS Integers, Sequences

CONSTANTS MaxSteps,      \* RunLimits.max_planning_steps
          MaxToolCalls,  \* RunLimits.max_tool_calls
          MaxTokens,     \* RunLimits.max_total_tokens
          MaxTurnTokens  \* the most tokens one response reports

BudgetsAreSet ==
    /\ MaxSteps \in Nat \ {0}
    /\ MaxToolCalls \in Nat
    /\ MaxTokens \in Nat \ {0}
    /\ MaxTurnTokens \in Nat

VARIABLES rev,      \* revision of the head, -1 before the first checkpoint
          kind,     \* lifecycle state
          pending,  \* ids of the tool calls still unanswered, in model order
          ptp,      \* provider_turn_pending
          why,      \* reason of a suspension, failure or limit
          steps, calls, tokens  \* RunMetrics

vars == <<rev, kind, pending, ptp, why, steps, calls, tokens>>

TerminalKinds == {"completed", "failed", "limited"}
Kinds == {"planning", "tools_pending", "suspended"} \cup TerminalKinds

SuspendReasons == {"pause", "approval", "waiting"}
LimitReasons == {"deadline", "max_planning_steps", "max_tool_calls", "max_total_tokens"}
FailureCodes == {"tool_catalog_error", "history_reducer_error",
                 "model_provider_error", "tool_protocol_error"}
Reasons == {"none"} \cup SuspendReasons \cup LimitReasons \cup FailureCodes

IsActive == kind \in {"planning", "tools_pending"}

Init ==
    /\ rev = -1 /\ kind = "planning" /\ pending = <<>> /\ ptp = FALSE
    /\ why = "none" /\ steps = 0 /\ calls = 0 /\ tokens = 0

(* Every durable step takes exactly the next revision. *)
Advance == rev' = rev + 1

Become(k, rest, turn, reason) ==
    /\ kind' = k
    /\ pending' = rest
    /\ ptp' = turn
    /\ why' = reason

ActiveKind(rest) == IF rest = <<>> THEN "planning" ELSE "tools_pending"

Start ==
    /\ rev = -1
    /\ Advance
    /\ UNCHANGED <<kind, pending, ptp, why, steps, calls, tokens>>

(* A model turn: one planning step, taken only below the step budget; its  *)
(* tokens may overrun the token budget once, and that ends the run.        *)
ModelTurn ==
    /\ rev >= 0 /\ kind = "planning" /\ steps < MaxSteps
    /\ Advance
    /\ steps' = steps + 1
    /\ tokens' \in tokens .. tokens + MaxTurnTokens
    /\ UNCHANGED calls
    /\ IF tokens' > MaxTokens
       THEN Become("limited", <<>>, FALSE, "max_total_tokens")
       ELSE \/ pending' \in Seq(Nat) /\ ptp' \in BOOLEAN
               /\ Become(ActiveKind(pending'), pending', ptp', "none")
            \/ Become("completed", <<>>, FALSE, "none")

(* A batch answers the first k unanswered calls and may suspend the rest. *)
ToolBatch(k) ==
    LET rest == SubSeq(pending, k + 1, Len(pending))
    IN  /\ rev >= 0 /\ kind = "tools_pending"
        /\ calls + k <= MaxToolCalls
        /\ Advance
        /\ calls' = calls + k
        /\ UNCHANGED <<steps, tokens>>
        /\ \/ Become(ActiveKind(rest), rest, ptp, "none")
           \/ \E reason \in {"waiting", "pause"} : Become("suspended", rest, ptp, reason)

(* An insert and a rewrite change only the history, and never under a      *)
(* pending provider turn.                                                  *)
EditHistory ==
    /\ rev >= 0 /\ kind = "planning" /\ ~ptp
    /\ Advance
    /\ UNCHANGED <<kind, pending, ptp, why, steps, calls, tokens>>

Suspend ==
    /\ rev >= 0 /\ IsActive
    /\ Advance
    /\ \E reason \in {"pause", "approval"} : Become("suspended", pending, ptp, reason)
    /\ UNCHANGED <<steps, calls, tokens>>

Resume ==
    /\ kind = "suspended"
    /\ Advance
    /\ Become(ActiveKind(pending), pending, ptp, "none")
    /\ UNCHANGED <<steps, calls, tokens>>

Fail ==
    /\ rev >= 0 /\ IsActive
    /\ Advance
    /\ why' \in FailureCodes /\ Become("failed", <<>>, FALSE, why')
    /\ UNCHANGED <<steps, calls, tokens>>

(* A limit is reached only for its own reason; the deadline may also end a *)
(* suspended run, when it is resumed too late.                             *)
Limit ==
    /\ rev >= 0 /\ kind \notin TerminalKinds
    /\ Advance
    /\ \/ Become("limited", <<>>, FALSE, "deadline")
       \/ /\ kind = "planning" /\ steps >= MaxSteps
          /\ Become("limited", <<>>, FALSE, "max_planning_steps")
       \/ /\ kind = "tools_pending" /\ calls >= MaxToolCalls
          /\ Become("limited", <<>>, FALSE, "max_tool_calls")
    /\ UNCHANGED <<steps, calls, tokens>>

Next ==
    \/ Start
    \/ ModelTurn
    \/ \E k \in 1..Len(pending) : ToolBatch(k)
    \/ EditHistory
    \/ Suspend
    \/ Resume
    \/ Fail
    \/ Limit

Spec == Init /\ [][Next]_vars
=============================================================================
