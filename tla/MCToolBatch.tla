---------------------------- MODULE MCToolBatch ----------------------------
(* ToolBatch for model checking; its constants are plain numbers, given in *)
(* the configurations.                                                     *)
EXTENDS ToolBatch
=============================================================================
