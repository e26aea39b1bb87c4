------------------------- MODULE MCBaselineGenerator -------------------------
(* Model-checking instance of BaselineGenerator: the constants are given   *)
(* in the .cfg files of the runs.                                          *)
EXTENDS BaselineGenerator
=============================================================================
