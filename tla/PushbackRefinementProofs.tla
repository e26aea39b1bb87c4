------------------------ MODULE PushbackRefinementProofs ------------------------
(***************************************************************************)
(* The proof that one core of the PUSHBACK client implements the abstract  *)
(* window client WindowCore under the refinement mapping                   *)
(* stopped <- Stamped (PushbackClient), for every window, request count,   *)
(* target and mode.  It rests on the inductive invariant IInv proved in    *)
(* PushbackClientProofs and on SendLoopBound.                              *)
(***************************************************************************)
EXTENDS PushbackClientProofs

LEMMA SendLoopBoundStep ==
    IInv /\ SendLoopBound /\ [Next]_vars => SendLoopBound'
<1> SUFFICES ASSUME IInv, SendLoopBound, [Next]_vars PROVE SendLoopBound'
    OBVIOUS
<1>1. sent \in Nat /\ outstanding \in Nat /\ Requests \in Nat
      BY ConstAssumption DEF IInv, TypeOK
<1>2. CASE SendCheck
      BY <1>1, <1>2 DEF SendCheck, SendLoopBound
<1>3. CASE SendOne
      BY <1>1, <1>3 DEF SendOne, SendLoopBound
<1>4. CASE SendDone \/ RecvCheck \/ RecvDone \/ ExecuteTask
      BY <1>4 DEF SendDone, RecvCheck, RecvDone, ExecuteTask, SendLoopBound
<1>5. CASE \E m \in toClient : RecvPacket(m)
      BY <1>5 DEF RecvPacket, SendLoopBound
<1>6. CASE Environment \/ UNCHANGED vars
      BY <1>6 DEF Environment, ServerReply, LoseRequest, LoseResponse, vars,
         SendLoopBound
<1> QED
    BY <1>2, <1>3, <1>4, <1>5, <1>6 DEF Next, ClientStep

(* Inside the send loop of one execute() call, sent - outstanding stays    *)
(* below num_reqs: the entry check of send() held when the loop began.     *)
THEOREM SendLoopBoundInvariant == Spec => []SendLoopBound
<1>1. Init => SendLoopBound
      BY DEF Init, SendLoopBound
<1> QED
    BY <1>1, SendLoopBoundStep, IInvInvariant, PTL DEF Spec

\* A step that moves no abstract counter and keeps the stamp is a stutter.
LEMMA StutterStep ==
    ASSUME sent' = sent, recvd' = recvd, outstanding' = outstanding,
           finished' = finished,
           pc # "recvloop", pc' # "recvloop"
    PROVE  UNCHANGED Window!wvars
BY DEF Window!wvars, Stamped

LEMMA RecvPacketRefines ==
    ASSUME IInv, IInv', NEW m \in toClient, RecvPacket(m)
    PROVE  [Window!WNext]_Window!wvars
<1>1. pc = "recvloop" /\ pc' = "recvloop" /\ sent' = sent
      /\ finished' = finished
      BY DEF RecvPacket
<1>2. ~Stamped /\ ~Stamped'
      BY <1>1 DEF Stamped
<1>3. \/ recvd' = recvd + 1 /\ outstanding' = outstanding - 1
      \/ recvd' = recvd /\ outstanding' = outstanding
      BY DEF RecvPacket, RecvInvokeOk, RecvPushback, RecvTaskGet, RecvNativeGet
<1>4. outstanding \in Nat /\ outstanding' \in Nat /\ recvd \in Nat
      BY DEF IInv, TypeOK
<1>5. CASE recvd' = recvd + 1 /\ outstanding' = outstanding - 1
      <2>1. outstanding > 0
            BY <1>4, <1>5
      <2>2. Window!Complete
            BY <1>1, <1>5, <2>1 DEF Window!Complete, Stamped
      <2> QED
          BY <2>2 DEF Window!WNext
<1>6. CASE recvd' = recvd /\ outstanding' = outstanding
      BY <1>1, <1>6 DEF Window!wvars, Stamped
<1> QED
    BY <1>3, <1>5, <1>6

LEMMA RefineStep ==
    IInv /\ IInv' /\ SendLoopBound /\ [Next]_vars => [Window!WNext]_Window!wvars
<1> SUFFICES ASSUME IInv, IInv', SendLoopBound, [Next]_vars
             PROVE  [Window!WNext]_Window!wvars
    OBVIOUS
<1>1. sent \in Nat /\ recvd \in Nat /\ outstanding \in Nat /\ W \in Nat
      /\ Requests \in Nat
      BY ConstAssumption DEF IInv, TypeOK
<1>2. CASE SendOne
      <2>1. pc = "sendloop" /\ pc' = "sendloop" /\ outstanding < W
            /\ sent' = sent + 1 /\ outstanding' = outstanding + 1
            /\ recvd' = recvd /\ finished' = finished
            BY <1>2 DEF SendOne
      <2>2. sent < Requests + outstanding
            BY <2>1 DEF SendLoopBound
      <2>3. Stamped' = Stamped
            BY <2>1 DEF Stamped
      <2>4. Window!Issue
            BY <2>1, <2>2, <2>3 DEF Window!Issue
      <2> QED
          BY <2>4 DEF Window!WNext
<1>3. CASE RecvCheck
      <2>1. CASE Responses <= recvd
            <3>1. pc = "recv" /\ pc' = "task" /\ finished'
                  /\ UNCHANGED <<sent, recvd, outstanding>>
                  BY <1>3, <2>1 DEF RecvCheck
            <3>2. Stamped /\ Stamped'
                  BY <2>1, <3>1 DEF Stamped
            <3>3. CASE finished
                  BY <3>1, <3>2, <3>3 DEF Window!wvars
            <3>4. CASE ~finished
                  BY <3>1, <3>2, <3>4 DEF Window!WNext, Window!Finish
            <3> QED
                BY <3>3, <3>4
      <2>2. CASE ~(Responses <= recvd)
            <3>1. UNCHANGED <<sent, recvd, outstanding, finished>>
                  BY <1>3, <2>2 DEF RecvCheck
            <3>2. ~Stamped /\ ~Stamped'
                  BY <2>2, <3>1 DEF Stamped
            <3> QED
                BY <1>3, <2>2, <3>1 DEF Window!wvars, Stamped, RecvCheck
      <2> QED
          BY <2>1, <2>2
<1>4. CASE RecvDone
      <2>1. pc = "recvloop" /\ pc' = "task"
            /\ UNCHANGED <<sent, recvd, outstanding, finished>>
            BY <1>4 DEF RecvDone
      <2>2. ~Stamped /\ (Stamped' <=> Responses <= recvd)
            BY <2>1 DEF Stamped
      <2>3. CASE Responses <= recvd
            BY <2>1, <2>2, <2>3 DEF Window!WNext, Window!Stamp
      <2>4. CASE ~(Responses <= recvd)
            BY <2>1, <2>4 DEF Window!wvars, Stamped
      <2> QED
          BY <2>3, <2>4
<1>5. CASE \E m \in toClient : RecvPacket(m)
      BY <1>5, RecvPacketRefines
<1>6. CASE SendCheck \/ SendDone \/ ExecuteTask
      BY <1>6, StutterStep DEF SendCheck, SendDone, ExecuteTask, PCs
<1>7. CASE Environment \/ UNCHANGED vars
      <2>1. pc = pc' /\ UNCHANGED <<sent, recvd, outstanding, finished>>
            BY <1>7 DEF Environment, ServerReply, LoseRequest, LoseResponse,
               vars
      <2> QED
          BY <2>1 DEF Window!wvars, Stamped
<1> QED
    BY <1>2, <1>3, <1>4, <1>5, <1>6, <1>7 DEF Next, ClientStep

(* One core of the client implements the abstract window client: its      *)
(* initial state is one of WindowCore's, and every step of send(),        *)
(* recv(), execute_task(), the server and the network is an Issue, a      *)
(* Complete, the stop stamp, the setting of finished, or a stutter.        *)
THEOREM WindowRefinementThm == Spec => WindowRefinement
<1>1. Init => Window!Init
      BY ConstAssumption DEF Init, Window!Init, Stamped
<1> QED
    BY <1>1, RefineStep, IInvInvariant, SendLoopBoundInvariant, PTL
       DEF Spec, WindowRefinement, Window!Spec

=============================================================================
