-------------------------- MODULE PushbackCoresProofs --------------------------
(***************************************************************************)
(* Proofs about the multi-core client: its types, and that shutdown        *)
(* starts only after some core met its target, for any set of cores,      *)
(* window, request count and responses target.                             *)
(***************************************************************************)
EXTENDS PushbackCores, TLAPS

(* The inductive invariant: finished only after the stop stamp, the stamp *)
(* only after the target, FINISHED only when some core finished, and      *)
(* main() past its loop only when FINISHED is set.                        *)
CInv ==
    /\ CoresTypeOK
    /\ \A c \in Cores : finished[c] => stopped[c]
    /\ \A c \in Cores : stopped[c] => Responses <= recvd[c]
    /\ FINISHED => \E c \in Cores : finished[c]
    /\ ShuttingDown => FINISHED

LEMMA CInitInv == Init => CInv
<1> SUFFICES ASSUME Init PROVE CInv
    OBVIOUS
<1>1. CoresTypeOK
      <2>1. sent \in [Cores -> Nat] /\ recvd \in [Cores -> Nat]
            BY DEF Init
      <2>2. outstanding \in [Cores -> 0..W]
            BY CoresAssumption DEF Init
      <2>3. stopped \in [Cores -> BOOLEAN] /\ finished \in [Cores -> BOOLEAN]
            /\ running \in [Cores -> BOOLEAN] /\ FINISHED \in BOOLEAN
            BY DEF Init
      <2>4. mainPc \in MainPCs
            BY DEF Init, MainPCs
      <2> QED
          BY <2>1, <2>2, <2>3, <2>4 DEF CoresTypeOK
<1> QED
    BY <1>1 DEF Init, CInv, ShuttingDown

\* A step that leaves every variable but the per-core counters alone.
LEMMA CCountersInv ==
    ASSUME CInv, NEW c \in Cores,
           Issue(c) \/ Complete(c)
    PROVE  CInv'
<1>1. stopped' = stopped /\ finished' = finished /\ FINISHED' = FINISHED
      /\ mainPc' = mainPc /\ running' = running
      BY DEF Issue, Complete
<1>2. CASE Issue(c)
      <2>1. sent' = [sent EXCEPT ![c] = @ + 1]
            /\ outstanding' = [outstanding EXCEPT ![c] = @ + 1]
            /\ recvd' = recvd /\ outstanding[c] < W
            BY <1>2 DEF Issue
      <2>2. CoresTypeOK'
            BY <2>1, <1>1, CoresAssumption DEF CInv, CoresTypeOK
      <2> QED
          BY <2>1, <2>2, <1>1 DEF CInv, ShuttingDown
<1>3. CASE Complete(c)
      <2>1. recvd' = [recvd EXCEPT ![c] = @ + 1]
            /\ outstanding' = [outstanding EXCEPT ![c] = @ - 1]
            /\ sent' = sent /\ outstanding[c] > 0 /\ ~stopped[c]
            BY <1>3 DEF Complete
      <2>2. CoresTypeOK'
            BY <2>1, <1>1, CoresAssumption DEF CInv, CoresTypeOK
      <2>3. \A d \in Cores : stopped'[d] => Responses <= recvd'[d]
            BY <2>1, <1>1 DEF CInv, CoresTypeOK
      <2> QED
          BY <2>1, <2>2, <2>3, <1>1 DEF CInv, ShuttingDown
<1> QED
    BY <1>2, <1>3

LEMMA CStampInv == ASSUME CInv, NEW c \in Cores, Stamp(c) PROVE CInv'
<1>1. stopped' = [stopped EXCEPT ![c] = TRUE] /\ Responses <= recvd[c]
      /\ sent' = sent /\ recvd' = recvd /\ outstanding' = outstanding
      /\ finished' = finished /\ FINISHED' = FINISHED
      /\ mainPc' = mainPc /\ running' = running
      BY DEF Stamp
<1>2. CoresTypeOK'
      BY <1>1 DEF CInv, CoresTypeOK
<1>3. \A d \in Cores : stopped'[d] => Responses <= recvd'[d]
      BY <1>1 DEF CInv, CoresTypeOK
<1>4. \A d \in Cores : finished'[d] => stopped'[d]
      BY <1>1 DEF CInv, CoresTypeOK
<1> QED
    BY <1>1, <1>2, <1>3, <1>4 DEF CInv, ShuttingDown

LEMMA CFinishInv == ASSUME CInv, NEW c \in Cores, Finish(c) PROVE CInv'
<1>1. finished' = [finished EXCEPT ![c] = TRUE] /\ stopped[c] /\ FINISHED'
      /\ sent' = sent /\ recvd' = recvd /\ outstanding' = outstanding
      /\ stopped' = stopped /\ mainPc' = mainPc /\ running' = running
      BY DEF Finish
<1>2. CoresTypeOK'
      BY <1>1 DEF CInv, CoresTypeOK
<1>3. \A d \in Cores : finished'[d] => stopped'[d]
      BY <1>1 DEF CInv, CoresTypeOK
<1>4. \E d \in Cores : finished'[d]
      BY <1>1 DEF CInv, CoresTypeOK
<1> QED
    BY <1>1, <1>2, <1>3, <1>4 DEF CInv, ShuttingDown

\* main()'s steps and the halting of a core touch no core counter.
LEMMA CMainInv ==
    ASSUME CInv, Launch \/ Poll \/ Exit \/ \E c \in Cores : Halt(c)
    PROVE  CInv'
<1>1. sent' = sent /\ recvd' = recvd /\ outstanding' = outstanding
      /\ stopped' = stopped /\ finished' = finished /\ FINISHED' = FINISHED
      BY DEF Launch, Poll, Exit, Halt
<1>2. mainPc' \in MainPCs /\ running' \in [Cores -> BOOLEAN]
      BY DEF Launch, Poll, Exit, Halt, CInv, CoresTypeOK, MainPCs
<1>3. ShuttingDown' => FINISHED
      BY DEF Launch, Poll, Exit, Halt, CInv, ShuttingDown
<1> QED
    BY <1>1, <1>2, <1>3 DEF CInv, CoresTypeOK

LEMMA CStepInv == CInv /\ [Next]_vars => CInv'
<1> SUFFICES ASSUME CInv, [Next]_vars PROVE CInv'
    OBVIOUS
<1>1. ASSUME NEW c \in Cores, CoreStep(c) PROVE CInv'
      BY <1>1, CCountersInv, CStampInv, CFinishInv DEF CoreStep
<1>2. CASE Launch \/ Poll \/ Exit \/ \E c \in Cores : Halt(c)
      BY <1>2, CMainInv
<1>3. CASE UNCHANGED vars
      BY <1>3 DEF CInv, vars, CoresTypeOK, ShuttingDown
<1> QED
    BY <1>1, <1>2, <1>3 DEF Next

THEOREM CInvInvariant == Spec => []CInv
BY CInitInv, CStepInv, PTL DEF Spec

(* Every per-core counter stays a natural number and outstanding stays    *)
(* within the window, on every core.                                       *)
THEOREM CoresTypeCorrect == Spec => []CoresTypeOK
<1>1. CInv => CoresTypeOK
      BY DEF CInv
<1> QED
    BY <1>1, CInvInvariant, PTL

(* main() calls net_context.stop() only after some core counted its whole *)
(* target and stamped its stop time, however the cores interleave with    *)
(* each other and with main()'s reads of FINISHED.                         *)
THEOREM ShutdownAfterTargetThm == Spec => []ShutdownAfterTarget
<1>1. CInv => ShutdownAfterTarget
      BY DEF CInv, ShutdownAfterTarget
<1> QED
    BY <1>1, CInvInvariant, PTL

=============================================================================
