------------------------- MODULE MCPushbackClient -------------------------
(* Model-checking instance of PushbackClient: the constants are given in   *)
(* the .cfg files of the runs.                                             *)
EXTENDS PushbackClient
=============================================================================
