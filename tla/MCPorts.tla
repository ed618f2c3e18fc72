---------------------------------- MODULE MCPorts ----------------------------------
(* Ports for model checking: the constants its configuration cannot spell. *)
EXTENDS Ports

MCFrames == [chat |-> 5, messages |-> 7, responses |-> 6, stored |-> 5]
MCNumbers == {-7, 0, 2, 3, 4, 9}
=============================================================================
