------------------------------ MODULE MCEngine ------------------------------
(* Values of Engine's constants for model checking. *)
EXTENDS EngineProperties

Inline == {"inline"}
Settling == {"settling"}
BothRepositories == {"inline", "settling"}

AllControls == {"pause", "insert", "cancel"}
PauseAndInsert == {"pause", "insert"}
Inserts == {"insert"}
NoControls == {}
=============================================================================
