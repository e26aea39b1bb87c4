----------------------------- MODULE NativeMulProofs -----------------------------
(***************************************************************************)
(* Type correctness of the mul() loop for every accumulator width of at   *)
(* least a byte and every limit: the accumulator stays an unsigned value  *)
(* of Width bits in both builds, and the loop variable stays in 1..limit.  *)
(* What the loop computes (MulComputesProduct) needs the recurrence of    *)
(* FactMod and modular arithmetic, and stays with TLC.                    *)
(***************************************************************************)
EXTENDS NativeMul, TLAPS

LEMMA ModulusFacts == Modulus \in Nat /\ Modulus > 255
BY MulAssumption DEF Modulus

LEMMA MulInitType == Init => MulTypeOK
<1> SUFFICES ASSUME Init PROVE MulTypeOK
    OBVIOUS
<1>1. mul \in 0..Modulus - 1
      BY ModulusFacts, MulAssumption DEF Init
<1>2. i \in 1..Limit
      BY MulAssumption DEF Init
<1> QED
    BY <1>1, <1>2 DEF Init, MulTypeOK

LEMMA MulStepType == MulTypeOK /\ [Next]_vars => MulTypeOK'
<1> SUFFICES ASSUME MulTypeOK, [Next]_vars PROVE MulTypeOK'
    OBVIOUS
<1>1. CASE Step
      <2>1. mul' = (mul * i) % Modulus /\ i' = i + 1 /\ i < Limit
            /\ UNCHANGED <<debug, init, pc>>
            BY <1>1 DEF Step
      <2>2. mul' \in 0..Modulus - 1
            BY <2>1, ModulusFacts DEF MulTypeOK
      <2>3. i' \in 1..Limit
            BY <2>1, MulAssumption DEF MulTypeOK
      <2> QED
          BY <2>1, <2>2, <2>3 DEF MulTypeOK
<1>2. CASE OverflowPanic \/ Return
      BY <1>2 DEF OverflowPanic, Return, MulTypeOK
<1>3. CASE UNCHANGED vars
      BY <1>3 DEF vars, MulTypeOK
<1> QED
    BY <1>1, <1>2, <1>3 DEF Next

(* In both builds the accumulator of mul() stays within its Width bits    *)
(* (a release build wraps, a debug build stops at the overflow) and the   *)
(* loop variable within 1..limit.                                          *)
THEOREM MulTypeCorrect == Spec => []MulTypeOK
BY MulInitType, MulStepType, PTL DEF Spec
=============================================================================
