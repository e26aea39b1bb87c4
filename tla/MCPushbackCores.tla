-------------------------- MODULE MCPushbackCores --------------------------
(* Model-checking instance of PushbackCores: the cores are model values.  *)
(* No symmetry set is declared: the run checks Termination, a liveness     *)
(* property, which symmetry reduction may not preserve.                    *)
EXTENDS PushbackCores

CONSTANTS c1, c2, c3

MCCores2 == {c1, c2}

MCCores3 == {c1, c2, c3}
=============================================================================
