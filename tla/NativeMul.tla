------------------------------ MODULE NativeMul ------------------------------
(***************************************************************************)
(* The synthetic extension cost of the native mode                          *)
(* (src/splinter/src/bin/client/pushback.rs, PushbackRecvSend::mul):       *)
(*                                                                         *)
(*     let mut mul: u64 = init as u64;                                     *)
(*     for i in 1..limit { mul *= i; }                                     *)
(*                                                                         *)
(* called from recv() as mul(payload[0], NUM_MUL) with NUM_MUL = 1000, and *)
(* subtracted from the latency sample.  The loop is modelled step by step  *)
(* on an unsigned integer of Width bits: `*=` wraps modulo 2^Width in a    *)
(* release build and panics on overflow in a debug build.  TLC's integers  *)
(* hold 31 bits, so the runs take Width = 16 and a proportionally smaller  *)
(* limit; the 2-adic argument that makes the product wrap to 0 (2^Width    *)
(* divides (limit - 1)!) is the same at Width = 64 from limit = 67 on.     *)
(***************************************************************************)
EXTENDS Naturals

CONSTANTS
    Width,   \* bits of the accumulator (64 for u64)
    Limit,   \* limit (NUM_MUL)
    Inits    \* the values init can take (payload[0]: a u8)

\* The accumulator holds any u8 (`init as u64` is exact): it is at least a
\* byte wide.
ASSUME MulAssumption ==
    /\ Width \in Nat \ {0}
    /\ 2 ^ Width \in Nat \ (0..255)
    /\ Limit \in Nat \ {0}
    /\ Inits \subseteq 0..255

Modulus == 2 ^ Width

VARIABLES
    debug,  \* the build: TRUE for a debug build (overflow checks on)
    init,   \* the argument init
    mul,    \* the accumulator
    i,      \* the loop variable
    pc      \* "loop", "done", or "panic" (a debug build's overflow check)

vars == <<debug, init, mul, i, pc>>

\* `let mut mul: u64 = init as u64;` at the head of `for i in 1..limit`.
Init ==
    /\ debug \in BOOLEAN
    /\ init \in Inits
    /\ mul = init
    /\ i = 1
    /\ pc = "loop"

\* Mutant: the range written 1..=limit.
StepInclusive ==
    /\ pc = "loop"
    /\ i <= Limit
    /\ ~debug \/ mul * i < Modulus
    /\ mul' = (mul * i) % Modulus
    /\ i' = i + 1
    /\ UNCHANGED <<debug, init, pc>>

\* Mutant: `mul = init * i` written for `mul *= i`.
StepAssigns ==
    /\ pc = "loop"
    /\ i < Limit
    /\ ~debug \/ init * i < Modulus
    /\ mul' = (init * i) % Modulus
    /\ i' = i + 1
    /\ UNCHANGED <<debug, init, pc>>

\* One iteration `mul *= i`: it wraps in a release build.
Step ==
    /\ pc = "loop"
    /\ i < Limit
    /\ ~debug \/ mul * i < Modulus
    /\ mul' = (mul * i) % Modulus
    /\ i' = i + 1
    /\ UNCHANGED <<debug, init, pc>>

\* The same iteration in a debug build, when the product does not fit.
OverflowPanic ==
    /\ pc = "loop"
    /\ i < Limit
    /\ debug
    /\ mul * i >= Modulus
    /\ pc' = "panic"
    /\ UNCHANGED <<debug, init, mul, i>>

\* The range is exhausted; mul is returned.
Return ==
    /\ pc = "loop"
    /\ i >= Limit
    /\ pc' = "done"
    /\ UNCHANGED <<debug, init, mul, i>>

Next == Step \/ OverflowPanic \/ Return

Spec == Init /\ [][Next]_vars

-----------------------------------------------------------------------------
(* Properties.                                                             *)

\* The reference: n! modulo 2^Width, by its recurrence.
FactMod[n \in Nat] == IF n = 0 THEN 1 ELSE (n * FactMod[n - 1]) % Modulus

MulTypeOK ==
    /\ debug \in BOOLEAN
    /\ init \in Inits
    /\ mul \in 0..Modulus - 1
    /\ i \in 1..Limit
    /\ pc \in {"loop", "done", "panic"}

(* After the iterations for 1..i-1 the accumulator holds init * (i-1)!     *)
(* modulo 2^Width, so the value mul() returns is init * (limit-1)!, the    *)
(* product of limit - 1 multiplications, wrapped.                          *)
MulComputesProduct == mul = (init * FactMod[i - 1]) % Modulus

(* mul() returns a non-zero cost for a non-zero payload byte, so recv()    *)
(* subtracts something from the latency sample (spec 4.5: "latency minus  *)
(* a synthetic cycle cost representing ... 1000 multiplications"), and a  *)
(* debug build does not panic on the way.                                  *)
MulCostNonZero == init # 0 => pc # "panic" /\ (pc = "done" => mul # 0)

=============================================================================
