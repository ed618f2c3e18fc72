----------------------------- MODULE MCInvocation -----------------------------
(* Instances of Invocation for TLC.                                        *)
EXTENDS Invocation

(* Every kind of request and every state one may start from, once.         *)
MCRequests == {<<"start", "planning">>, <<"continue", "planning">>, <<"resume", "tools_pending">>}

(* Two controls are the least that can be reordered; one is enough to meet  *)
(* the pending calls of a resumed run.                                      *)
MCControls ==
    [start    |-> <<Kinds, {"insert"}>>,
     continue |-> <<{"pause", "insert"}>>,
     resume   |-> <<Kinds>>]
=============================================================================
