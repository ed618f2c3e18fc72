---------------------------- MODULE MCRepository ----------------------------
(* RunRepository for model checking: the checkpoint states hosts commit.   *)
EXTENDS RunRepository

State(kind, ptp) == [kind |-> kind, ptp |-> ptp]

MCStates == {State("planning", TRUE)}
MCTurnStates == {State("planning", TRUE), State("tools_pending", TRUE)}
=============================================================================
