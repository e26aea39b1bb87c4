--------------------------- MODULE WindowCoreProofs ---------------------------
(***************************************************************************)
(* Proofs about the abstract core: WindowInv holds in every reachable      *)
(* state, for every window, request count and responses target.            *)
(***************************************************************************)
EXTENDS WindowCore, TLAPS

\* The counters are natural numbers and the flags Booleans.
WTypeOK ==
    /\ sent \in Nat
    /\ recvd \in Nat
    /\ outstanding \in Nat
    /\ stopped \in BOOLEAN
    /\ finished \in BOOLEAN

\* WindowInv is inductive once the types are known.
WInv == WTypeOK /\ WindowInv

\* The constants as the code has them: a positive window (32), unsigned
\* counts.
WConstants == W \in Nat \ {0} /\ Requests \in Nat /\ Responses \in Nat

LEMMA WInitInv == WConstants /\ Init => WInv
<1> SUFFICES ASSUME WConstants, Init PROVE WInv
    OBVIOUS
<1>1. WTypeOK
      BY DEF Init, WTypeOK
<1>2. WindowInv
      BY DEF WConstants, Init, WindowInv
<1> QED
    BY <1>1, <1>2 DEF WInv

LEMMA WStepInv == WConstants /\ WInv /\ [WNext]_wvars => WInv'
<1> SUFFICES ASSUME WConstants, WInv, [WNext]_wvars PROVE WInv'
    OBVIOUS
<1>1. CASE Issue
      BY <1>1 DEF WConstants, WInv, WTypeOK, WindowInv, Issue
<1>2. CASE Complete
      BY <1>2 DEF WConstants, WInv, WTypeOK, WindowInv, Complete
<1>3. CASE Stamp
      BY <1>3 DEF WConstants, WInv, WTypeOK, WindowInv, Stamp
<1>4. CASE Finish
      BY <1>4 DEF WConstants, WInv, WTypeOK, WindowInv, Finish
<1>5. CASE UNCHANGED wvars
      BY <1>5 DEF WInv, WTypeOK, WindowInv, wvars
<1> QED
    BY <1>1, <1>2, <1>3, <1>4, <1>5 DEF WNext

(* The abstract core's promise: never more than W requests outstanding,   *)
(* sent below Requests + W, the stop stamp only after the target, and     *)
(* finished only after the stamp; this is what every core of the client   *)
(* guarantees through WindowRefinement.                                   *)
THEOREM WindowSafe == WConstants => (Spec => []WindowInv)
<1> SUFFICES ASSUME WConstants PROVE Spec => []WindowInv
    OBVIOUS
<1>1. Init => WInv
      BY WInitInv
<1>2. WInv /\ [WNext]_wvars => WInv'
      BY WStepInv
<1>3. WInv => WindowInv
      BY DEF WInv
<1> QED
    BY <1>1, <1>2, <1>3, PTL DEF Spec
=============================================================================
