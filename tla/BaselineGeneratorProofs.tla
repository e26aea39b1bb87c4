------------------------ MODULE BaselineGeneratorProofs ------------------------
(***************************************************************************)
(* Type correctness of the baseline generator's mbuf counts, for every     *)
(* pool and pair of ring sizes that leave buffers for the generator.      *)
(***************************************************************************)
EXTENDS BaselineGenerator, TLAPS

PCSet == {"setup", "pipeline", "run", "exited", "panicked"}

(* The inductive invariant: the mbufs the receive ring does not hold are   *)
(* split between the pool, the transmit ring and the unsent frames.  It   *)
(* bounds free and leaked, which the type invariant alone does not.        *)
GInv ==
    /\ pc \in PCSet
    /\ free \in Nat /\ ring \in 0..TxRing /\ leaked \in Nat
    /\ free + ring + leaked = Pool - RxRing

LEMMA GInitInv == Init => GInv
<1> SUFFICES ASSUME Init PROVE GInv
    OBVIOUS
<1>1. pc \in PCSet /\ ring \in 0..TxRing /\ leaked \in Nat
      BY GeneratorAssumption DEF Init, PCSet
<1>2. free \in Nat /\ free + ring + leaked = Pool - RxRing
      BY GeneratorAssumption DEF Init
<1> QED
    BY <1>1, <1>2 DEF GInv

\* The two steps of start-up change pc alone.
LEMMA GStartInv == GInv /\ (StartClient \/ SetupClient) => GInv'
<1> SUFFICES ASSUME GInv, StartClient \/ SetupClient PROVE GInv'
    OBVIOUS
<1>1. pc' \in PCSet
      BY DEF StartClient, SetupClient, PCSet
<1>2. free' = free /\ ring' = ring /\ leaked' = leaked
      BY DEF StartClient, SetupClient
<1> QED
    BY <1>1, <1>2 DEF GInv

\* generate_request(): each outcome moves one mbuf, or none.
LEMMA GGenerateInv == GInv /\ Generate => GInv'
<1> SUFFICES ASSUME GInv, Generate PROVE GInv'
    OBVIOUS
<1>1. CASE ~CreateRequest /\ pc' = "panicked" /\ UNCHANGED <<free, ring, leaked>>
      BY <1>1 DEF GInv, PCSet
<1>2. CASE CreateRequest /\ ring < TxRing /\ free' = free - 1 /\ ring' = ring + 1
           /\ UNCHANGED <<pc, leaked>>
      BY <1>2, GeneratorAssumption DEF GInv, CreateRequest
<1>3. CASE CreateRequest /\ ring = TxRing /\ Unsent /\ UNCHANGED <<pc, ring>>
      <2>1. CASE PortFreesUnsent
            <3>1. free' = free /\ leaked' = leaked
                  BY <1>3, <2>1 DEF Unsent
            <3> QED
                BY <1>3, <3>1 DEF GInv
      <2>2. CASE ~PortFreesUnsent
            <3>1. free' = free - 1 /\ leaked' = leaked + 1
                  BY <1>3, <2>2 DEF Unsent
            <3> QED
                BY <1>3, <3>1 DEF GInv, CreateRequest
      <2> QED
          BY <2>1, <2>2
<1>4. CASE CreateRequest /\ SendErrors /\ free' = free - 1 /\ pc' = "exited"
           /\ leaked' = leaked + 1 /\ UNCHANGED ring
      BY <1>4 DEF GInv, CreateRequest, PCSet
<1> QED
    BY <1>1, <1>2, <1>3, <1>4 DEF Generate

LEMMA GTransmitInv == GInv /\ Transmit => GInv'
<1> SUFFICES ASSUME GInv, Transmit PROVE GInv'
    OBVIOUS
<1>1. ring > 0 /\ ring' = ring - 1 /\ free' = free + 1
      /\ pc' = pc /\ leaked' = leaked
      BY DEF Transmit
<1> QED
    BY <1>1, GeneratorAssumption DEF GInv

LEMMA GStepInv == GInv /\ [Next]_vars => GInv'
<1> SUFFICES ASSUME GInv, [Next]_vars PROVE GInv'
    OBVIOUS
<1>1. CASE StartClient \/ SetupClient
      BY <1>1, GStartInv
<1>2. CASE Generate
      BY <1>2, GGenerateInv
<1>3. CASE Transmit
      BY <1>3, GTransmitInv
<1>4. CASE UNCHANGED vars
      BY <1>4 DEF GInv, vars
<1> QED
    BY <1>1, <1>2, <1>3, <1>4 DEF Next

THEOREM GInvInvariant == Spec => []GInv
BY GInitInv, GStepInv, PTL DEF Spec

(* Every mbuf count of generate_request() and the NIC stays a natural      *)
(* number within its bound: the pool never holds more than the buffers    *)
(* the receive ring left, the transmit ring never more than its           *)
(* descriptors, whatever the pool and ring sizes.                          *)
THEOREM GeneratorTypeCorrect == Spec => []GeneratorTypeOK
<1>1. GInv => GeneratorTypeOK
      BY GeneratorAssumption DEF GInv, GeneratorTypeOK, PCSet
<1> QED
    BY <1>1, GInvInvariant, PTL
=============================================================================
