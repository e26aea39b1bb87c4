----------------------------- MODULE MCNativeMul -----------------------------
(* Model-checking instance of NativeMul: the constants are given in the    *)
(* .cfg files of the runs.                                                 *)
EXTENDS NativeMul
=============================================================================
