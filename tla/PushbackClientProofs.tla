------------------------ MODULE PushbackClientProofs ------------------------
(***************************************************************************)
(* Proofs about PushbackClient for every value of the constants: IInv is   *)
(* an inductive invariant, hence TypeOK, Accounting, TaskPlacement and     *)
(* StampsMatchLiveRequests hold in every reachable state.                  *)
(***************************************************************************)
EXTENDS PushbackClient, FiniteSetTheorems, SequenceTheorems, TLAPS

USE ConstAssumption

(* What HashMap::insert and HashMap::remove return.                        *)
LEMMA MapPutFacts ==
    ASSUME NEW f, NEW k, NEW v
    PROVE  /\ DOMAIN MapPut(f, k, v) = DOMAIN f \cup {k}
           /\ MapPut(f, k, v)[k] = v
           /\ \A x \in DOMAIN f \ {k} : MapPut(f, k, v)[x] = f[x]
BY DEF MapPut

LEMMA MapRemoveFacts ==
    ASSUME NEW f, NEW k
    PROVE  /\ DOMAIN MapRemove(f, k) = DOMAIN f \ {k}
           /\ \A x \in DOMAIN f \ {k} : MapRemove(f, k)[x] = f[x]
BY DEF MapRemove

(* The run-queue holds TaskManagers, the frames carry natural stamps.      *)
LEMMA TypeFacts ==
    ASSUME TypeOK
    PROVE  /\ Len(waiting) \in Nat
           /\ \A i \in 1..Len(waiting) : waiting[i] \in Task /\ waiting[i].id \in Nat
           /\ \A m \in InFlight : m.stamp \in Nat /\ m.op \in Ops
           /\ \A s \in DOMAIN manager : manager[s] \in Task /\ s \in Nat
<1>1. waiting \in Seq(Task)
    BY DEF TypeOK
<1>2. Len(waiting) \in Nat /\ \A i \in 1..Len(waiting) : waiting[i] \in Task
    BY <1>1
<1>3. QED
    BY <1>2 DEF TypeOK, Task, InFlight, Request, Response

(* A request frame is never a response frame.                              *)
LEMMA FramesDistinct ==
    \A x \in Request, y \in Response : x # y
<1> SUFFICES ASSUME NEW x \in Request, NEW y \in Response PROVE x # y
    OBVIOUS
<1>1. DOMAIN x = {"op", "stamp"} /\ DOMAIN y = {"op", "status", "stamp"}
    BY DEF Request, Response
<1>2. DOMAIN x # DOMAIN y
    BY <1>1
<1>3. QED
    BY <1>2

LEMMA InitIInv == Init => IInv
<1> SUFFICES ASSUME Init PROVE IInv
    OBVIOUS
<1>1. Open = {} /\ InFlight = {}
    BY DEF Init, Open, InFlight
<1>2. IsFiniteSet(Open) /\ Cardinality(Open) = 0
    BY <1>1, FS_EmptySet
<1>3. TypeOK
    <2>1. DOMAIN nativeState = {} /\ DOMAIN manager = {}
        BY DEF Init
    <2>2. nativeState \in [DOMAIN nativeState -> 1..NumOps]
        BY <2>1 DEF Init
    <2>3. manager \in [DOMAIN manager -> Task]
        BY <2>1 DEF Init
    <2>4. waiting \in Seq(Task) /\ toServer \subseteq Request
          /\ toClient \subseteq Response
        BY DEF Init
    <2>5. outstanding \in 0..W
        BY DEF Init
    <2>6. pc \in PCs /\ clock \in Nat /\ sent \in Nat /\ recvd \in Nat
          /\ latencies \in Nat /\ finished \in BOOLEAN
        BY DEF Init, PCs
    <2>7. QED
        BY <2>1, <2>2, <2>3, <2>4, <2>5, <2>6 DEF TypeOK
<1>4. QED
    BY <1>1, <1>2, <1>3 DEF Init, IInv, Accounting, StampsFresh, ModesApart,
       OneFramePerStamp, QueuedTasksIdle, TaskPlacement,
       StampsMatchLiveRequests

(* The steps of execute() that only move pc (and set finished).            *)
LEMMA ControlStepsIInv ==
    ASSUME IInv, SendCheck \/ SendDone \/ RecvCheck \/ RecvDone
    PROVE  IInv'
<1>1. UNCHANGED <<clock, sent, recvd, outstanding, latencies,
                  nativeState, manager, waiting, toServer, toClient>>
    BY DEF SendCheck, SendDone, RecvCheck, RecvDone
<1>2. pc' \in PCs /\ finished' \in BOOLEAN
    BY DEF SendCheck, SendDone, RecvCheck, RecvDone, PCs, IInv, TypeOK
<1>3. Open' = Open /\ InFlight' = InFlight
    BY <1>1 DEF Open, InFlight
<1>4. QED
    BY <1>1, <1>2, <1>3 DEF IInv, TypeOK, Accounting, StampsFresh, ModesApart,
       OneFramePerStamp, QueuedTasksIdle, TaskPlacement,
       StampsMatchLiveRequests

(* send() issues one request under the fresh stamp clock.                 *)
LEMMA SendOneIInv ==
    ASSUME IInv, SendOne
    PROVE  IInv'
<1>0. TypeOK /\ IsFiniteSet(Open) /\ Accounting /\ StampsFresh /\ ModesApart
      /\ OneFramePerStamp /\ QueuedTasksIdle /\ TaskPlacement
      /\ StampsMatchLiveRequests
    BY DEF IInv
<1> DEFINE NewTask == [id |-> clock, gen |-> FALSE, gets |-> 0, yields |-> 0]
           NewFrame == [op |-> IF Native THEN "get" ELSE "invoke", stamp |-> clock]
<1>1. /\ clock' = clock + 1
      /\ toServer' = toServer \cup {NewFrame}
      /\ outstanding' = outstanding + 1 /\ outstanding < W
      /\ sent' = sent + 1
      /\ UNCHANGED <<pc, recvd, latencies, finished, waiting, toClient>>
    BY DEF SendOne
<1>2. clock \notin DOMAIN nativeState \cup DOMAIN manager
    BY <1>0 DEF StampsFresh, TypeOK
<1>6. TypeOK'
    <2>1. DOMAIN nativeState' \subseteq Nat
          /\ nativeState' \in [DOMAIN nativeState' -> 1..NumOps]
        BY <1>0 DEF SendOne, MapPut, TypeOK
    <2>2. DOMAIN manager' \subseteq Nat /\ manager' \in [DOMAIN manager' -> Task]
        BY <1>0 DEF SendOne, AddRequest, MapPut, TypeOK, Task
    <2>3. toServer' \subseteq Request
        BY <1>0, <1>1 DEF TypeOK, Request, Ops
    <2>0. outstanding \in 0..W /\ clock \in Nat /\ sent \in Nat
        BY <1>0 DEF TypeOK
    <2>4. outstanding' \in 0..W
        BY <1>1, <2>0
    <2>7. clock' \in Nat
        BY <1>1, <2>0
    <2>8. sent' \in Nat
        BY <1>1, <2>0
    <2>5. pc' \in PCs /\ recvd' \in Nat /\ latencies' \in Nat
          /\ finished' \in BOOLEAN /\ waiting' \in Seq(Task)
          /\ toClient' \subseteq Response
        BY <1>0, <1>1 DEF TypeOK
    <2>6. QED
        BY <2>1, <2>2, <2>3, <2>4, <2>5, <2>7, <2>8 DEF TypeOK
<1>7. InFlight' = InFlight \cup {NewFrame} /\ NewFrame.stamp = clock
    BY <1>1 DEF InFlight
<1>8. /\ DOMAIN nativeState' \subseteq DOMAIN nativeState \cup {clock}
      /\ DOMAIN manager' \subseteq DOMAIN manager \cup {clock}
    BY DEF SendOne, AddRequest, MapPut
<1>9. StampsFresh'
    <2>1. clock \in Nat /\ clock' = clock + 1
        BY <1>0, <1>1 DEF TypeOK
    <2>2. \A s \in DOMAIN nativeState' \cup DOMAIN manager' : s < clock'
        BY <1>0, <1>8, <2>1 DEF StampsFresh, TypeOK
    <2>3. \A m \in InFlight' : m.stamp < clock'
        BY <1>0, <1>7, <2>1 DEF StampsFresh, TypeOK, InFlight, Request, Response
    <2>4. \A i \in 1..Len(waiting') : waiting'[i].id < clock'
        BY <1>0, <1>1, <2>1, TypeFacts DEF StampsFresh
    <2>5. QED
        BY <2>2, <2>3, <2>4 DEF StampsFresh
<1>10. OneFramePerStamp'
    BY <1>0, <1>1, <1>7 DEF OneFramePerStamp, StampsFresh, TypeOK, InFlight
<1>11. QueuedTasksIdle'
    BY SMTT(30), <1>0, <1>1, <1>7 DEF QueuedTasksIdle, StampsFresh, TypeOK
<1>3. CASE Native
    <2>1. nativeState' = MapPut(nativeState, clock, 1) /\ manager' = manager
        BY <1>2, <1>3 DEF SendOne
    <2>2. DOMAIN nativeState' = DOMAIN nativeState \cup {clock}
        BY <2>1 DEF MapPut
    <2>3. Open' = Open \cup {clock} /\ clock \notin Open
        BY <2>1, <2>2, <1>2 DEF Open
    <2>4. IsFiniteSet(Open') /\ Cardinality(Open') = Cardinality(Open) + 1
        BY <2>3, <1>0, FS_AddElement
    <2>5. Accounting'
        BY <1>0, <1>1, <2>4 DEF Accounting, TypeOK
    <2>6. ModesApart' /\ TaskPlacement'
        BY <1>0, <1>1, <1>3, <2>1 DEF ModesApart, TaskPlacement
    <2>7. StampsMatchLiveRequests'
        BY <1>0, <1>3, <1>7, <2>1, <2>2 DEF StampsMatchLiveRequests
    <2>8. QED
        BY <1>6, <1>9, <1>10, <1>11, <2>4, <2>5, <2>6, <2>7 DEF IInv
<1>4. CASE ~Native
    <2>1. manager' = MapPut(manager, clock, NewTask) /\ nativeState' = nativeState
        BY <1>4 DEF SendOne, AddRequest
    <2>2. /\ DOMAIN manager' = DOMAIN manager \cup {clock}
          /\ manager'[clock] = NewTask
          /\ \A x \in DOMAIN manager : manager'[x] = manager[x]
        BY <2>1, <1>2 DEF MapPut
    <2>3. Open' = Open \cup {clock} /\ clock \notin Open
        <3>1. manager'[clock].gen = FALSE
            BY <2>2
        <3>2. QED
            BY <3>1, <2>1, <2>2, <1>2 DEF Open
    <2>4. IsFiniteSet(Open') /\ Cardinality(Open') = Cardinality(Open) + 1
        BY <2>3, <1>0, FS_AddElement
    <2>5. Accounting'
        BY <1>0, <1>1, <2>4 DEF Accounting, TypeOK
    <2>6. ModesApart'
        BY <1>0, <1>4, <2>1 DEF ModesApart
    <2>7. TaskPlacement'
        BY <1>0, <1>1, <2>2, TypeFacts DEF TaskPlacement, StampsFresh
    <2>8. StampsMatchLiveRequests'
        <3>1. SUFFICES ASSUME NEW m \in InFlight'
                       PROVE  /\ m.op = "invoke" =>
                                   m.stamp \in DOMAIN manager' /\ ~manager'[m.stamp].gen
                              /\ m.op = "get" =>
                                   m.stamp \in DOMAIN manager' /\ manager'[m.stamp].gen
            BY <1>4 DEF StampsMatchLiveRequests
        <3>2. CASE m = NewFrame
            BY <1>4, <2>2, <3>2
        <3>3. CASE m \in InFlight
            BY <1>0, <1>4, <2>2, <3>3 DEF StampsMatchLiveRequests
        <3>4. QED
            BY <1>7, <3>2, <3>3
    <2>9. QED
        BY <1>6, <1>9, <1>10, <1>11, <2>4, <2>5, <2>6, <2>7, <2>8 DEF IInv
<1>5. QED
    BY <1>3, <1>4

(* The frame m is taken off the rx ring by recv().                         *)
RecvFrame(m) ==
    /\ m \in toClient
    /\ toClient' = toClient \ {m}
    /\ UNCHANGED <<pc, clock, sent, finished>>

(* A StatusOk answer retires its invoke.                                   *)
LEMMA RecvInvokeOkIInv ==
    ASSUME IInv, NEW m, RecvFrame(m), ~Native, m.op = "invoke",
           m.status = "ok", RecvInvokeOk(m)
    PROVE  IInv'
<1>0. TypeOK /\ IsFiniteSet(Open) /\ Accounting /\ StampsFresh /\ ModesApart
      /\ OneFramePerStamp /\ QueuedTasksIdle /\ TaskPlacement
      /\ StampsMatchLiveRequests
    BY DEF IInv
<1> DEFINE s == m.stamp
<1>1. m \in InFlight /\ s \in DOMAIN manager /\ ~manager[s].gen
    BY <1>0 DEF RecvFrame, InFlight, StampsMatchLiveRequests
<1>2. InFlight' = InFlight \ {m}
    BY <1>0, FramesDistinct DEF RecvFrame, RecvInvokeOk, InFlight, TypeOK
<1>3. /\ DOMAIN manager' = DOMAIN manager \ {s}
      /\ \A x \in DOMAIN manager' : manager'[x] = manager[x]
    BY DEF RecvInvokeOk, RemoveRequest, MapRemove
<1>4. Open' = Open \ {s} /\ s \in Open
    <2>1. DOMAIN nativeState' = {} /\ DOMAIN nativeState = {}
        BY <1>0 DEF RecvInvokeOk, ModesApart
    <2>2. QED
        BY <1>1, <1>3, <2>1 DEF Open
<1>5. IsFiniteSet(Open') /\ Cardinality(Open') = Cardinality(Open) - 1
      /\ Cardinality(Open) \in Nat
    BY <1>0, <1>4, FS_RemoveElement, FS_CardinalityType
<1>6. Cardinality(Open) >= 1
    BY <1>0, <1>4, <1>5, FS_EmptySet
<1>7. Accounting' /\ outstanding' \in 0..W
    <2>1. outstanding = Cardinality(Open) /\ recvd + outstanding = sent
        BY <1>0 DEF Accounting
    <2>2. outstanding' = outstanding - 1 /\ recvd' = recvd + 1 /\ sent' = sent
        BY DEF RecvFrame, RecvInvokeOk
    <2>3. outstanding' = Cardinality(Open') /\ outstanding' \in 0..W
        BY <1>0, <1>5, <1>6, <2>1, <2>2 DEF TypeOK
    <2>4. recvd' + outstanding' = sent'
        BY <1>0, <2>1, <2>2 DEF TypeOK
    <2>5. QED
        BY <2>3, <2>4 DEF Accounting
<1>8. TypeOK'
    <2>1. DOMAIN manager' \subseteq Nat /\ manager' \in [DOMAIN manager' -> Task]
        BY <1>0, <1>3 DEF RecvInvokeOk, RemoveRequest, MapRemove, TypeOK
    <2>2. /\ pc' \in PCs /\ clock' \in Nat /\ sent' \in Nat /\ finished' \in BOOLEAN
          /\ toClient' \subseteq Response
        BY <1>0 DEF RecvFrame, TypeOK
    <2>3. /\ recvd' \in Nat /\ latencies' \in Nat /\ waiting' \in Seq(Task)
          /\ toServer' \subseteq Request
          /\ DOMAIN nativeState' \subseteq Nat
          /\ nativeState' \in [DOMAIN nativeState' -> 1..NumOps]
        <3>1. UNCHANGED <<waiting, nativeState, toServer>>
            BY DEF RecvInvokeOk
        <3>2. recvd' = recvd + 1 /\ latencies' = latencies + 1
            BY DEF RecvInvokeOk
        <3>3. QED
            BY SMTT(30), <1>0, <3>1, <3>2 DEF TypeOK
    <2>4. QED
        BY <1>7, <2>1, <2>2, <2>3 DEF TypeOK
<1>9. StampsFresh' /\ ModesApart' /\ OneFramePerStamp' /\ QueuedTasksIdle'
    BY <1>0, <1>2, <1>3 DEF RecvFrame, RecvInvokeOk, StampsFresh, ModesApart,
       OneFramePerStamp, QueuedTasksIdle
<1>10. TaskPlacement'
    BY <1>0, <1>3 DEF RecvInvokeOk, TaskPlacement
<1>11. StampsMatchLiveRequests'
    <2>1. SUFFICES ASSUME NEW m2 \in InFlight'
                   PROVE  /\ m2.op = "invoke" =>
                               m2.stamp \in DOMAIN manager' /\ ~manager'[m2.stamp].gen
                          /\ m2.op = "get" =>
                               m2.stamp \in DOMAIN manager' /\ manager'[m2.stamp].gen
        BY DEF StampsMatchLiveRequests
    <2>2. m2 \in InFlight /\ m2.stamp # s
        BY <1>0, <1>1, <1>2 DEF OneFramePerStamp
    <2>3. QED
        BY <1>0, <1>3, <2>2 DEF StampsMatchLiveRequests
<1>12. QED
    BY <1>5, <1>7, <1>8, <1>9, <1>10, <1>11 DEF IInv

(* A StatusPushback answer moves its TaskManager onto the run-queue.       *)
LEMMA RecvPushbackIInv ==
    ASSUME IInv, NEW m, RecvFrame(m), ~Native, m.op = "invoke",
           m.status = "pushback", RecvPushback(m)
    PROVE  IInv'
<1>0. TypeOK /\ IsFiniteSet(Open) /\ Accounting /\ StampsFresh /\ ModesApart
      /\ OneFramePerStamp /\ QueuedTasksIdle /\ TaskPlacement
      /\ StampsMatchLiveRequests
    BY DEF IInv
<1> DEFINE s == m.stamp
           T == [manager[s] EXCEPT !.gen = TRUE]
<1>1. m \in InFlight /\ s \in DOMAIN manager /\ ~manager[s].gen
    BY <1>0 DEF RecvFrame, InFlight, StampsMatchLiveRequests
<1>2. InFlight' = InFlight \ {m}
    BY <1>0, FramesDistinct DEF RecvFrame, RecvPushback, InFlight, TypeOK
<1>3. /\ manager' = MapRemove(manager, s)
      /\ waiting' = Append(waiting, T)
      /\ latencies' = latencies + 1 /\ outstanding' = outstanding - 1
      /\ recvd' = recvd + 1 /\ sent' = sent
      /\ UNCHANGED <<nativeState, toServer>>
    BY <1>1 DEF RecvPushback, RecvFrame
<1>4. /\ DOMAIN manager' = DOMAIN manager \ {s}
      /\ \A x \in DOMAIN manager' : manager'[x] = manager[x]
    BY <1>3 DEF MapRemove
<1>5. T \in Task /\ T.id = s /\ T.gen
    <2>1. manager[s] \in Task /\ manager[s].id = s
        BY <1>0, <1>1, TypeFacts DEF TaskPlacement
    <2>2. QED
        BY <2>1 DEF Task
<1>6. /\ Len(waiting') = Len(waiting) + 1
      /\ waiting'[Len(waiting) + 1] = T
      /\ \A i \in 1..Len(waiting) : waiting'[i] = waiting[i]
      /\ waiting' \in Seq(Task)
    BY <1>0, <1>3, <1>5, TypeFacts DEF TypeOK
<1>7. Open' = Open \ {s} /\ s \in Open
    <2>1. DOMAIN nativeState' = {} /\ DOMAIN nativeState = {}
        BY <1>0, <1>3 DEF ModesApart
    <2>2. QED
        BY <1>1, <1>4, <2>1 DEF Open
<1>8. IsFiniteSet(Open') /\ Cardinality(Open') = Cardinality(Open) - 1
      /\ Cardinality(Open) \in Nat /\ Cardinality(Open) >= 1
    BY <1>0, <1>7, FS_RemoveElement, FS_CardinalityType, FS_EmptySet
<1>9. Accounting' /\ outstanding' \in 0..W
    <2>1. outstanding = Cardinality(Open) /\ recvd + outstanding = sent
        BY <1>0 DEF Accounting
    <2>2. outstanding' = outstanding - 1
        BY <1>3
    <2>5. outstanding' = Cardinality(Open') /\ outstanding' \in 0..W
        BY <1>0, <1>8, <2>1, <2>2 DEF TypeOK
    <2>3. recvd' + outstanding' = sent'
        BY SMTT(30), <1>0, <1>3, <2>1 DEF TypeOK
    <2>4. QED
        BY <2>5, <2>3 DEF Accounting
<1>10. TypeOK'
    <2>1. DOMAIN manager' \subseteq Nat /\ manager' \in [DOMAIN manager' -> Task]
        BY SMTT(30), <1>0, <1>3, <1>4 DEF TypeOK, MapRemove
    <2>2. /\ pc' \in PCs /\ clock' \in Nat /\ sent' \in Nat /\ finished' \in BOOLEAN
          /\ toClient' \subseteq Response
        BY <1>0 DEF RecvFrame, TypeOK
    <2>3. /\ recvd' \in Nat /\ latencies' \in Nat /\ toServer' \subseteq Request
          /\ DOMAIN nativeState' \subseteq Nat
          /\ nativeState' \in [DOMAIN nativeState' -> 1..NumOps]
        <3>1. nativeState' = nativeState /\ toServer' = toServer
              /\ recvd' = recvd + 1 /\ latencies' = latencies + 1
            BY <1>3
        <3>2. recvd \in Nat /\ latencies \in Nat /\ toServer \subseteq Request
              /\ DOMAIN nativeState \subseteq Nat
              /\ nativeState \in [DOMAIN nativeState -> 1..NumOps]
            BY <1>0 DEF TypeOK
        <3>3. QED
            BY <3>1, <3>2
    <2>4. QED
        BY <1>6, <1>9, <2>1, <2>2, <2>3 DEF TypeOK
<1>11. StampsFresh'
    <2>1. \A x \in DOMAIN nativeState' \cup DOMAIN manager' : x < clock'
        BY <1>0, <1>3, <1>4 DEF StampsFresh, RecvFrame
    <2>2. \A m2 \in InFlight' : m2.stamp < clock'
        BY <1>0, <1>2 DEF StampsFresh, RecvFrame
    <2>3. \A i \in 1..Len(waiting') : waiting'[i].id < clock'
        <3>1. SUFFICES ASSUME NEW i \in 1..Len(waiting') PROVE waiting'[i].id < clock'
            OBVIOUS
        <3>2. clock' = clock /\ s < clock
            BY <1>0, <1>1 DEF StampsFresh, RecvFrame
        <3>3. CASE i \in 1..Len(waiting)
            BY <1>0, <1>6, <3>2, <3>3 DEF StampsFresh
        <3>4. CASE i = Len(waiting) + 1
            BY <1>5, <1>6, <3>2, <3>4
        <3>5. QED
            BY <1>0, <1>6, <3>3, <3>4, TypeFacts
    <2>4. QED
        BY <2>1, <2>2, <2>3 DEF StampsFresh
<1>12. ModesApart' /\ OneFramePerStamp'
    BY <1>0, <1>2, <1>3 DEF ModesApart, OneFramePerStamp
<1>13. QueuedTasksIdle'
    <2>1. \A m2 \in InFlight' : m2.stamp # s
        BY <1>0, <1>1, <1>2 DEF OneFramePerStamp
    <2>2. SUFFICES ASSUME NEW i \in 1..Len(waiting'), NEW m2 \in InFlight'
                   PROVE  m2.stamp # waiting'[i].id
        BY DEF QueuedTasksIdle
    <2>3. CASE i \in 1..Len(waiting)
        BY <1>0, <1>2, <1>6, <2>3 DEF QueuedTasksIdle
    <2>4. CASE i = Len(waiting) + 1
        BY <1>5, <1>6, <2>1, <2>4
    <2>5. QED
        BY <1>0, <1>6, <2>3, <2>4, TypeFacts
<1>14. TaskPlacement'
    <2>1. \A x \in DOMAIN manager' : manager'[x].id = x
        BY <1>0, <1>4 DEF TaskPlacement
    <2>2. \A i \in 1..Len(waiting) : waiting[i].id # s
        BY <1>0, <1>1 DEF TaskPlacement
    <2>3. \A i \in 1..Len(waiting') :
             /\ waiting'[i].gen
             /\ waiting'[i].id \notin DOMAIN manager'
             /\ \A j \in 1..Len(waiting') : i # j => waiting'[i].id # waiting'[j].id
        <3>1. SUFFICES ASSUME NEW i \in 1..Len(waiting')
                       PROVE  /\ waiting'[i].gen
                              /\ waiting'[i].id \notin DOMAIN manager'
                              /\ \A j \in 1..Len(waiting') :
                                    i # j => waiting'[i].id # waiting'[j].id
            OBVIOUS
        <3>2. \A j \in 1..Len(waiting') :
                 \/ j \in 1..Len(waiting) /\ waiting'[j] = waiting[j]
                 \/ j = Len(waiting) + 1 /\ waiting'[j] = T
            BY <1>0, <1>6, TypeFacts
        <3>3. CASE i \in 1..Len(waiting)
            <4>1. waiting'[i] = waiting[i] /\ waiting[i].gen
                  /\ waiting[i].id \notin DOMAIN manager /\ waiting[i].id # s
                BY <1>0, <1>6, <2>2, <3>3 DEF TaskPlacement
            <4>2. \A j \in 1..Len(waiting) : i # j => waiting[i].id # waiting[j].id
                BY <1>0, <3>3 DEF TaskPlacement
            <4>3. QED
                BY <1>4, <1>5, <3>2, <4>1, <4>2
        <3>4. CASE i = Len(waiting) + 1
            <4>1. waiting'[i] = T
                BY <1>6, <3>4
            <4>2. \A j \in 1..Len(waiting') : i # j => j \in 1..Len(waiting)
                BY <3>2, <3>4
            <4>3. QED
                BY SMTT(30), <1>4, <1>5, <1>6, <2>2, <4>1, <4>2
        <3>5. QED
            BY <3>2, <3>3, <3>4
    <2>4. QED
        BY <2>1, <2>3 DEF TaskPlacement
<1>15. StampsMatchLiveRequests'
    <2>1. SUFFICES ASSUME NEW m2 \in InFlight'
                   PROVE  /\ m2.op = "invoke" =>
                               m2.stamp \in DOMAIN manager' /\ ~manager'[m2.stamp].gen
                          /\ m2.op = "get" =>
                               m2.stamp \in DOMAIN manager' /\ manager'[m2.stamp].gen
        BY DEF StampsMatchLiveRequests
    <2>2. m2 \in InFlight /\ m2.stamp # s
        BY <1>0, <1>1, <1>2 DEF OneFramePerStamp
    <2>3. QED
        BY <1>0, <1>4, <2>2 DEF StampsMatchLiveRequests
<1>16. QED
    BY <1>8, <1>9, <1>10, <1>11, <1>12, <1>13, <1>14, <1>15 DEF IInv

(* The answer to a task's GET puts the task back on the run-queue.        *)
LEMMA RecvTaskGetIInv ==
    ASSUME IInv, NEW m, RecvFrame(m), ~Native, m.op = "get", RecvTaskGet(m)
    PROVE  IInv'
<1>0. TypeOK /\ IsFiniteSet(Open) /\ Accounting /\ StampsFresh /\ ModesApart
      /\ OneFramePerStamp /\ QueuedTasksIdle /\ TaskPlacement
      /\ StampsMatchLiveRequests
    BY DEF IInv
<1> DEFINE s == m.stamp
           T == manager[s]
<1>1. m \in InFlight /\ s \in DOMAIN manager /\ manager[s].gen
    BY <1>0 DEF RecvFrame, InFlight, StampsMatchLiveRequests
<1>2. InFlight' = InFlight \ {m}
    BY <1>0, FramesDistinct DEF RecvFrame, RecvTaskGet, InFlight, TypeOK
<1>3. /\ manager' = MapRemove(manager, s)
      /\ waiting' = Append(waiting, T)
      /\ latencies' = latencies + 1 /\ outstanding' = outstanding
      /\ recvd' = recvd /\ sent' = sent
      /\ UNCHANGED <<nativeState, toServer>>
    BY <1>1 DEF RecvTaskGet, RecvFrame
<1>4. /\ DOMAIN manager' = DOMAIN manager \ {s}
      /\ \A x \in DOMAIN manager' : manager'[x] = manager[x]
    BY <1>3 DEF MapRemove
<1>5. T \in Task /\ T.id = s /\ T.gen
    <2>1. manager[s] \in Task /\ manager[s].id = s
        BY <1>0, <1>1, TypeFacts DEF TaskPlacement
    <2>2. QED
        BY <1>1, <2>1
<1>6. /\ Len(waiting') = Len(waiting) + 1
      /\ waiting'[Len(waiting) + 1] = T
      /\ \A i \in 1..Len(waiting) : waiting'[i] = waiting[i]
      /\ waiting' \in Seq(Task)
    BY <1>0, <1>3, <1>5, TypeFacts DEF TypeOK
<1>7. Open' = Open
    <2>1. DOMAIN nativeState' = {} /\ DOMAIN nativeState = {}
        BY <1>0, <1>3 DEF ModesApart
    <2>2. QED
        BY <1>1, <1>4, <2>1 DEF Open
<1>8. IsFiniteSet(Open')
    BY <1>0, <1>7
<1>9. Accounting' /\ outstanding' \in 0..W
    BY <1>0, <1>3, <1>7 DEF Accounting, TypeOK
<1>10. TypeOK'
    <2>1. DOMAIN manager' \subseteq Nat /\ manager' \in [DOMAIN manager' -> Task]
        BY <1>0, <1>3, <1>4 DEF TypeOK, MapRemove
    <2>2. /\ pc' \in PCs /\ clock' \in Nat /\ sent' \in Nat /\ finished' \in BOOLEAN
          /\ toClient' \subseteq Response
        BY <1>0 DEF RecvFrame, TypeOK
    <2>3. /\ recvd' \in Nat /\ latencies' \in Nat /\ toServer' \subseteq Request
          /\ DOMAIN nativeState' \subseteq Nat
          /\ nativeState' \in [DOMAIN nativeState' -> 1..NumOps]
        <3>1. nativeState' = nativeState /\ toServer' = toServer
              /\ recvd' = recvd /\ latencies' = latencies + 1
            BY <1>3
        <3>2. QED
            BY SMTT(30), <1>0, <3>1 DEF TypeOK
    <2>4. QED
        BY <1>6, <1>9, <2>1, <2>2, <2>3 DEF TypeOK
<1>11. StampsFresh'
    <2>1. \A x \in DOMAIN nativeState' \cup DOMAIN manager' : x < clock'
        BY <1>0, <1>3, <1>4 DEF StampsFresh, RecvFrame
    <2>2. \A m2 \in InFlight' : m2.stamp < clock'
        BY <1>0, <1>2 DEF StampsFresh, RecvFrame
    <2>3. \A i \in 1..Len(waiting') : waiting'[i].id < clock'
        <3>1. SUFFICES ASSUME NEW i \in 1..Len(waiting') PROVE waiting'[i].id < clock'
            OBVIOUS
        <3>2. clock' = clock /\ s < clock
            BY <1>0, <1>1 DEF StampsFresh, RecvFrame
        <3>3. CASE i \in 1..Len(waiting)
            BY <1>0, <1>6, <3>2, <3>3 DEF StampsFresh
        <3>4. CASE i = Len(waiting) + 1
            BY <1>5, <1>6, <3>2, <3>4
        <3>5. QED
            BY <1>0, <1>6, <3>3, <3>4, TypeFacts
    <2>4. QED
        BY <2>1, <2>2, <2>3 DEF StampsFresh
<1>12. ModesApart' /\ OneFramePerStamp'
    BY <1>0, <1>2, <1>3 DEF ModesApart, OneFramePerStamp
<1>13. QueuedTasksIdle'
    <2>1. \A m2 \in InFlight' : m2.stamp # s
        BY <1>0, <1>1, <1>2 DEF OneFramePerStamp
    <2>2. SUFFICES ASSUME NEW i \in 1..Len(waiting'), NEW m2 \in InFlight'
                   PROVE  m2.stamp # waiting'[i].id
        BY DEF QueuedTasksIdle
    <2>3. CASE i \in 1..Len(waiting)
        BY <1>0, <1>2, <1>6, <2>3 DEF QueuedTasksIdle
    <2>4. CASE i = Len(waiting) + 1
        BY <1>5, <1>6, <2>1, <2>4
    <2>5. QED
        BY <1>0, <1>6, <2>3, <2>4, TypeFacts
<1>14. TaskPlacement'
    <2>1. \A x \in DOMAIN manager' : manager'[x].id = x
        BY <1>0, <1>4 DEF TaskPlacement
    <2>2. \A i \in 1..Len(waiting) : waiting[i].id # s
        BY <1>0, <1>1 DEF TaskPlacement
    <2>3. \A i \in 1..Len(waiting') :
             /\ waiting'[i].gen
             /\ waiting'[i].id \notin DOMAIN manager'
             /\ \A j \in 1..Len(waiting') : i # j => waiting'[i].id # waiting'[j].id
        <3>1. SUFFICES ASSUME NEW i \in 1..Len(waiting')
                       PROVE  /\ waiting'[i].gen
                              /\ waiting'[i].id \notin DOMAIN manager'
                              /\ \A j \in 1..Len(waiting') :
                                    i # j => waiting'[i].id # waiting'[j].id
            OBVIOUS
        <3>2. \A j \in 1..Len(waiting') :
                 \/ j \in 1..Len(waiting) /\ waiting'[j] = waiting[j]
                 \/ j = Len(waiting) + 1 /\ waiting'[j] = T
            BY <1>0, <1>6, TypeFacts
        <3>3. CASE i \in 1..Len(waiting)
            <4>1. waiting'[i] = waiting[i] /\ waiting[i].gen
                  /\ waiting[i].id \notin DOMAIN manager /\ waiting[i].id # s
                BY <1>0, <1>6, <2>2, <3>3 DEF TaskPlacement
            <4>2. \A j \in 1..Len(waiting) : i # j => waiting[i].id # waiting[j].id
                BY <1>0, <3>3 DEF TaskPlacement
            <4>3. QED
                BY <1>4, <1>5, <3>2, <4>1, <4>2
        <3>4. CASE i = Len(waiting) + 1
            <4>1. waiting'[i] = T
                BY <1>6, <3>4
            <4>2. \A j \in 1..Len(waiting') : i # j => j \in 1..Len(waiting)
                BY <3>2, <3>4
            <4>3. QED
                BY <1>4, <1>5, <1>6, <2>2, <4>1, <4>2
        <3>5. QED
            BY <3>2, <3>3, <3>4
    <2>4. QED
        BY <2>1, <2>3 DEF TaskPlacement
<1>15. StampsMatchLiveRequests'
    <2>1. SUFFICES ASSUME NEW m2 \in InFlight'
                   PROVE  /\ m2.op = "invoke" =>
                               m2.stamp \in DOMAIN manager' /\ ~manager'[m2.stamp].gen
                          /\ m2.op = "get" =>
                               m2.stamp \in DOMAIN manager' /\ manager'[m2.stamp].gen
        BY DEF StampsMatchLiveRequests
    <2>2. m2 \in InFlight /\ m2.stamp # s
        BY <1>0, <1>1, <1>2 DEF OneFramePerStamp
    <2>3. QED
        BY <1>0, <1>4, <2>2 DEF StampsMatchLiveRequests
<1>16. QED
    BY <1>8, <1>9, <1>10, <1>11, <1>12, <1>13, <1>14, <1>15 DEF IInv

(* Native mode: the last get of an operation retires it.                   *)
LEMMA RecvNativeLastIInv ==
    ASSUME IInv, NEW m, RecvFrame(m), Native, m.op = "get", RecvNativeGet(m),
           nativeState[m.stamp] = NumOps
    PROVE  IInv'
<1>0. TypeOK /\ IsFiniteSet(Open) /\ Accounting /\ StampsFresh /\ ModesApart
      /\ OneFramePerStamp /\ QueuedTasksIdle /\ TaskPlacement
      /\ StampsMatchLiveRequests
    BY DEF IInv
<1> DEFINE s == m.stamp
<1>1. m \in InFlight /\ s \in DOMAIN nativeState
    BY <1>0 DEF RecvFrame, InFlight, StampsMatchLiveRequests
<1>2. InFlight' = InFlight \ {m}
    BY SMTT(30), <1>0, FramesDistinct DEF RecvFrame, RecvNativeGet, InFlight, TypeOK
<1>3. /\ nativeState' = MapRemove(nativeState, s)
      /\ recvd' = recvd + 1 /\ latencies' = latencies + 1
      /\ outstanding' = outstanding - 1 /\ sent' = sent
      /\ toServer' = toServer /\ manager' = manager /\ waiting' = waiting
    BY DEF RecvNativeGet, RecvFrame
<1>4. /\ DOMAIN nativeState' = DOMAIN nativeState \ {s}
      /\ \A x \in DOMAIN nativeState' : nativeState'[x] = nativeState[x]
    BY <1>3 DEF MapRemove
<1>5. Open' = Open \ {s} /\ s \in Open
    <2>1. DOMAIN manager' = {} /\ DOMAIN manager = {}
        BY <1>0, <1>3 DEF ModesApart
    <2>2. QED
        BY <1>1, <1>4, <2>1 DEF Open
<1>6. IsFiniteSet(Open') /\ Cardinality(Open') = Cardinality(Open) - 1
      /\ Cardinality(Open) \in Nat /\ Cardinality(Open) >= 1
    <2>1. IsFiniteSet(Open') /\ Cardinality(Open') = Cardinality(Open) - 1
        BY <1>0, <1>5, FS_RemoveElement
    <2>2. Cardinality(Open) \in Nat /\ Cardinality(Open) # 0
        BY <1>0, <1>5, FS_CardinalityType, FS_EmptySet
    <2>3. QED
        BY <2>1, <2>2
<1>7. Accounting' /\ outstanding' \in 0..W
    <2>1. outstanding = Cardinality(Open) /\ recvd + outstanding = sent
        BY <1>0 DEF Accounting
    <2>2. outstanding' = outstanding - 1
        BY <1>3
    <2>3. outstanding' = Cardinality(Open') /\ outstanding' \in 0..W
        BY <1>0, <1>6, <2>1, <2>2 DEF TypeOK
    <2>4. recvd' + outstanding' = sent'
        BY SMTT(30), <1>0, <1>3, <2>1 DEF TypeOK
    <2>5. QED
        BY <2>3, <2>4 DEF Accounting
<1>8. TypeOK'
    <2>1. DOMAIN nativeState' \subseteq Nat
          /\ nativeState' \in [DOMAIN nativeState' -> 1..NumOps]
        BY SMTT(30), <1>0, <1>3, <1>4 DEF TypeOK, MapRemove
    <2>2. /\ pc' \in PCs /\ clock' \in Nat /\ sent' \in Nat /\ finished' \in BOOLEAN
          /\ toClient' \subseteq Response
        BY <1>0 DEF RecvFrame, TypeOK
    <2>3. /\ recvd' \in Nat /\ latencies' \in Nat /\ toServer' \subseteq Request
          /\ DOMAIN manager' \subseteq Nat /\ manager' \in [DOMAIN manager' -> Task]
          /\ waiting' \in Seq(Task)
        <3>1. recvd \in Nat /\ latencies \in Nat /\ toServer \subseteq Request
              /\ DOMAIN manager \subseteq Nat /\ manager \in [DOMAIN manager -> Task]
              /\ waiting \in Seq(Task)
            BY <1>0 DEF TypeOK
        <3>2. QED
            BY <1>3, <3>1
    <2>4. QED
        BY <1>7, <2>1, <2>2, <2>3 DEF TypeOK
<1>9. StampsFresh' /\ ModesApart' /\ OneFramePerStamp' /\ QueuedTasksIdle'
      /\ TaskPlacement'
    <2>1. StampsFresh'
        BY <1>0, <1>2, <1>3, <1>4 DEF RecvFrame, StampsFresh
    <2>2. ModesApart'
        BY <1>0, <1>3, <1>4 DEF ModesApart
    <2>3. OneFramePerStamp'
        BY <1>0, <1>2 DEF OneFramePerStamp
    <2>4. QueuedTasksIdle'
        BY <1>0, <1>2, <1>3 DEF QueuedTasksIdle
    <2>5. TaskPlacement'
        BY <1>0, <1>3 DEF TaskPlacement
    <2>6. QED
        BY <2>1, <2>2, <2>3, <2>4, <2>5
<1>10. StampsMatchLiveRequests'
    <2>1. SUFFICES ASSUME NEW m2 \in InFlight'
                   PROVE  m2.op = "get" /\ m2.stamp \in DOMAIN nativeState'
        BY DEF StampsMatchLiveRequests
    <2>2. m2 \in InFlight /\ m2.stamp # s
        BY <1>0, <1>1, <1>2 DEF OneFramePerStamp
    <2>3. QED
        BY <1>0, <1>4, <2>2 DEF StampsMatchLiveRequests
<1>11. QED
    BY <1>6, <1>7, <1>8, <1>9, <1>10 DEF IInv

(* Native mode: any other get of an operation re-sends a get under the     *)
(* same stamp and counts the step.                                         *)
LEMMA RecvNativeNextIInv ==
    ASSUME IInv, NEW m, RecvFrame(m), Native, m.op = "get", RecvNativeGet(m),
           nativeState[m.stamp] # NumOps
    PROVE  IInv'
<1>0. TypeOK /\ IsFiniteSet(Open) /\ Accounting /\ StampsFresh /\ ModesApart
      /\ OneFramePerStamp /\ QueuedTasksIdle /\ TaskPlacement
      /\ StampsMatchLiveRequests
    BY DEF IInv
<1> DEFINE s == m.stamp
           G == [op |-> "get", stamp |-> s]
<1>1. m \in InFlight /\ s \in DOMAIN nativeState /\ s \in Nat
    BY <1>0, TypeFacts DEF RecvFrame, InFlight, StampsMatchLiveRequests
<1>2. InFlight' = (InFlight \ {m}) \cup {G}
    BY <1>0, FramesDistinct DEF RecvFrame, RecvNativeGet, InFlight, TypeOK
<1>3. /\ nativeState' = [nativeState EXCEPT ![s] = @ + 1]
      /\ toServer' = toServer \cup {G}
      /\ recvd' = recvd /\ latencies' = latencies
      /\ outstanding' = outstanding /\ sent' = sent /\ clock' = clock
      /\ manager' = manager /\ waiting' = waiting
    BY DEF RecvNativeGet, RecvFrame
<1>4. DOMAIN nativeState' = DOMAIN nativeState
      /\ nativeState' \in [DOMAIN nativeState' -> 1..NumOps]
    <2>1. nativeState[s] \in 1..NumOps - 1
        BY <1>0, <1>1 DEF TypeOK
    <2>2. DOMAIN nativeState' = DOMAIN nativeState
        BY <1>3
    <2>3. \A x \in DOMAIN nativeState : nativeState'[x] \in 1..NumOps
        <3>1. TAKE x \in DOMAIN nativeState
        <3>2. CASE x = s
            BY <1>1, <1>3, <2>1, <3>2, ConstAssumption
        <3>3. CASE x # s
            BY <1>0, <1>3, <3>3 DEF TypeOK
        <3>4. QED
            BY <3>2, <3>3
    <2>4. QED
        BY <1>3, <2>2, <2>3
<1>5. Open' = Open
    BY <1>3, <1>4 DEF Open
<1>6. TypeOK'
    <2>1. toServer' \subseteq Request
        BY <1>0, <1>1, <1>3 DEF TypeOK, Request, Ops
    <2>2. /\ pc' \in PCs /\ clock' \in Nat /\ sent' \in Nat /\ finished' \in BOOLEAN
          /\ toClient' \subseteq Response
        BY <1>0 DEF RecvFrame, TypeOK
    <2>3. /\ recvd' \in Nat /\ latencies' \in Nat /\ outstanding' \in 0..W
          /\ DOMAIN manager' \subseteq Nat /\ manager' \in [DOMAIN manager' -> Task]
          /\ waiting' \in Seq(Task) /\ DOMAIN nativeState' \subseteq Nat
        BY SMTT(30), <1>0, <1>3, <1>4 DEF TypeOK
    <2>4. QED
        BY <1>4, <2>1, <2>2, <2>3 DEF TypeOK
<1>7. IsFiniteSet(Open') /\ Accounting'
    BY <1>0, <1>3, <1>5 DEF Accounting
<1>8. StampsFresh'
    BY <1>0, <1>1, <1>2, <1>3, <1>4 DEF StampsFresh
<1>9. ModesApart' /\ QueuedTasksIdle' /\ TaskPlacement'
    BY <1>0, <1>3 DEF ModesApart, QueuedTasksIdle, TaskPlacement
<1>10. OneFramePerStamp'
    <2>1. \A m2 \in InFlight \ {m} : m2.stamp # s
        BY <1>0, <1>1 DEF OneFramePerStamp
    <2>2. QED
        BY <1>0, <1>2, <2>1 DEF OneFramePerStamp
<1>11. StampsMatchLiveRequests'
    BY SMTT(30), <1>0, <1>1, <1>2, <1>4 DEF StampsMatchLiveRequests
<1>12. QED
    BY <1>6, <1>7, <1>8, <1>9, <1>10, <1>11 DEF IInv

(* A response frame leaves the rx ring and nothing else changes: an        *)
(* invoke answer with another status, or a frame the network drops.        *)
LEMMA DropResponseIInv ==
    ASSUME IInv, NEW m, m \in toClient, toClient' = toClient \ {m},
           UNCHANGED <<pc, clock, sent, recvd, outstanding, latencies, finished,
                       nativeState, manager, waiting, toServer>>
    PROVE  IInv'
<1>0. TypeOK /\ IsFiniteSet(Open) /\ Accounting /\ StampsFresh /\ ModesApart
      /\ OneFramePerStamp /\ QueuedTasksIdle /\ TaskPlacement
      /\ StampsMatchLiveRequests
    BY DEF IInv
<1>1. InFlight' \subseteq InFlight /\ Open' = Open
    BY DEF InFlight, Open
<1>2. TypeOK'
    BY <1>0 DEF TypeOK
<1>3. QED
    BY <1>0, <1>1, <1>2 DEF IInv, Accounting, StampsFresh, ModesApart,
       OneFramePerStamp, QueuedTasksIdle, TaskPlacement, StampsMatchLiveRequests

(* A request frame is dropped by the network.                              *)
LEMMA DropRequestIInv ==
    ASSUME IInv, NEW m, m \in toServer, toServer' = toServer \ {m},
           UNCHANGED <<pc, clock, sent, recvd, outstanding, latencies, finished,
                       nativeState, manager, waiting, toClient>>
    PROVE  IInv'
<1>0. TypeOK /\ IsFiniteSet(Open) /\ Accounting /\ StampsFresh /\ ModesApart
      /\ OneFramePerStamp /\ QueuedTasksIdle /\ TaskPlacement
      /\ StampsMatchLiveRequests
    BY DEF IInv
<1>1. InFlight' \subseteq InFlight /\ Open' = Open
    BY DEF InFlight, Open
<1>2. TypeOK'
    BY <1>0 DEF TypeOK
<1>3. QED
    BY <1>0, <1>1, <1>2 DEF IInv, Accounting, StampsFresh, ModesApart,
       OneFramePerStamp, QueuedTasksIdle, TaskPlacement, StampsMatchLiveRequests

(* execute_task() leaves every counter and the native map alone.           *)
TaskFrame ==
    /\ pc' = "send" /\ clock' = clock /\ sent' = sent /\ recvd' = recvd
    /\ outstanding' = outstanding /\ latencies' = latencies
    /\ finished' = finished /\ nativeState' = nativeState /\ toClient' = toClient

(* The head of a non-empty run-queue and what VecDeque::pop_front leaves.  *)
LEMMA QueueFacts ==
    ASSUME TypeOK, waiting # << >>
    PROVE  /\ Len(waiting) \in Nat \ {0}
           /\ Head(waiting) = waiting[1] /\ Head(waiting) \in Task
           /\ Tail(waiting) \in Seq(Task)
           /\ Len(Tail(waiting)) = Len(waiting) - 1
           /\ \A i \in 1..Len(Tail(waiting)) : Tail(waiting)[i] = waiting[i + 1]
<1>1. waiting \in Seq(Task)
    BY DEF TypeOK
<1>2. Len(waiting) \in Nat \ {0}
    BY <1>1, EmptySeq, LenProperties
<1>3. QED
    BY <1>1, <1>2, HeadTailProperties

(* Counting a yield or a get keeps a task a task, with its id and flag.    *)
LEMMA TaskBump ==
    ASSUME NEW t \in Task
    PROVE  /\ t.yields < MaxYields =>
                LET t2 == [t EXCEPT !.yields = @ + 1]
                IN  t2 \in Task /\ t2.id = t.id /\ t2.gen = t.gen
           /\ t.gets < MaxGets =>
                LET t3 == [t EXCEPT !.gets = @ + 1]
                IN  t3 \in Task /\ t3.id = t.id /\ t3.gen = t.gen
<1>1. t = [id |-> t.id, gen |-> t.gen, gets |-> t.gets, yields |-> t.yields]
      /\ t.id \in Nat /\ t.gen \in BOOLEAN /\ t.gets \in 0..MaxGets
      /\ t.yields \in 0..MaxYields
    BY SMTT(30) DEF Task
<1>2. QED
    BY <1>1 DEF Task

(* YIELDED: the head task goes back to the tail of the run-queue.          *)
LEMMA ExecYieldIInv ==
    ASSUME IInv, TaskFrame, waiting # << >>,
           Head(waiting).yields < MaxYields,
           waiting' = Append(Tail(waiting), [Head(waiting) EXCEPT !.yields = @ + 1]),
           manager' = manager, toServer' = toServer
    PROVE  IInv'
<1>0. TypeOK /\ IsFiniteSet(Open) /\ Accounting /\ StampsFresh /\ ModesApart
      /\ OneFramePerStamp /\ QueuedTasksIdle /\ TaskPlacement
      /\ StampsMatchLiveRequests
    BY DEF IInv
<1> DEFINE t == Head(waiting)
           t2 == [t EXCEPT !.yields = @ + 1]
           n == Len(waiting)
           idx(i) == IF i = n THEN 1 ELSE i + 1
<1>1. /\ n \in Nat \ {0} /\ t = waiting[1] /\ t \in Task
      /\ Tail(waiting) \in Seq(Task) /\ Len(Tail(waiting)) = n - 1
      /\ \A i \in 1..n - 1 : Tail(waiting)[i] = waiting[i + 1]
    BY <1>0, QueueFacts
<1>2. t2 \in Task /\ t2.id = t.id /\ t2.gen = t.gen
    BY <1>1, TaskBump
<1>3. /\ waiting' \in Seq(Task) /\ Len(waiting') = n
      /\ \A i \in 1..n : waiting'[i].id = waiting[idx(i)].id
                         /\ waiting'[i].gen = waiting[idx(i)].gen
    <2>1. waiting' \in Seq(Task) /\ Len(waiting') = n
          /\ waiting'[n] = t2
          /\ \A i \in 1..n - 1 : waiting'[i] = waiting[i + 1]
        BY <1>1, <1>2, AppendProperties
    <2>2. QED
        BY <1>1, <1>2, <2>1
<1>4. /\ \A i \in 1..n : idx(i) \in 1..n
      /\ \A i, j \in 1..n : i # j => idx(i) # idx(j)
    <2>1. n \in Nat \ {0}
        BY <1>1
    <2>2. QED
        BY ONLY <2>1
<1>5. Open' = Open /\ InFlight' = InFlight
    BY DEF TaskFrame, Open, InFlight
<1>6. TypeOK'
    <2>1. /\ pc' \in PCs /\ clock' \in Nat /\ sent' \in Nat /\ recvd' \in Nat
          /\ outstanding' \in 0..W /\ latencies' \in Nat /\ finished' \in BOOLEAN
        BY <1>0 DEF TaskFrame, TypeOK, PCs
    <2>2. /\ DOMAIN nativeState' \subseteq Nat
          /\ nativeState' \in [DOMAIN nativeState' -> 1..NumOps]
          /\ DOMAIN manager' \subseteq Nat /\ manager' \in [DOMAIN manager' -> Task]
          /\ toServer' \subseteq Request /\ toClient' \subseteq Response
        BY SMTT(30), <1>0 DEF TaskFrame, TypeOK
    <2>3. QED
        BY <1>3, <2>1, <2>2 DEF TypeOK
<1>7. StampsFresh' /\ QueuedTasksIdle'
    <2>1. \A i \in 1..n : waiting'[i].id < clock'
        BY <1>0, <1>3, <1>4 DEF StampsFresh, TaskFrame
    <2>2. ASSUME NEW i \in 1..n, NEW m \in InFlight'
          PROVE  m.stamp # waiting'[i].id
        <3>1. idx(i) \in 1..n /\ waiting'[i].id = waiting[idx(i)].id
            BY <1>3, <1>4
        <3>2. \A k \in 1..n : m.stamp # waiting[k].id
            BY SMTT(30), <1>0, <1>5 DEF QueuedTasksIdle
        <3>3. QED
            BY SMTT(30), <3>1, <3>2
    <2>3. QED
        BY ZenonT(40), <1>0, <1>3, <1>5, <2>1, <2>2 DEF StampsFresh, QueuedTasksIdle,
           TaskFrame
<1>8. TaskPlacement'
    <2>1. ASSUME NEW i \in 1..n
          PROVE  /\ waiting'[i].gen
                 /\ waiting'[i].id \notin DOMAIN manager'
        <3>1. idx(i) \in 1..n
            BY <1>4
        <3>2. QED
            BY ZenonT(40), <1>0, <1>3, <3>1 DEF TaskPlacement
    <2>2. ASSUME NEW i \in 1..n, NEW j \in 1..n
          PROVE  i # j => waiting'[i].id # waiting'[j].id
        <3>0. HAVE i # j
        <3>1. idx(i) \in 1..n /\ idx(j) \in 1..n
            BY <1>4
        <3>2. idx(i) # idx(j)
            <4>1. \A k1, k2 \in 1..n : k1 # k2 => idx(k1) # idx(k2)
                BY <1>4
            <4>2. QED
                BY <3>0, <4>1
        <3>3. \A k1, k2 \in 1..n : k1 # k2 => waiting[k1].id # waiting[k2].id
            BY SMTT(30), <1>0 DEF TaskPlacement
        <3>4. waiting'[i].id = waiting[idx(i)].id /\ waiting'[j].id = waiting[idx(j)].id
            BY <1>3
        <3>5. QED
            BY <3>1, <3>2, <3>3, <3>4
    <2>3. QED
        BY ZenonT(40), <1>0, <1>3, <2>1, <2>2 DEF TaskPlacement
<1>9. QED
    BY <1>0, <1>5, <1>6, <1>7, <1>8 DEF IInv, TaskFrame, Accounting,
       ModesApart, OneFramePerStamp, StampsMatchLiveRequests

(* COMPLETED: the head task is dropped from the run-queue.                 *)
LEMMA ExecCompleteIInv ==
    ASSUME IInv, TaskFrame, waiting # << >>,
           waiting' = Tail(waiting), manager' = manager, toServer' = toServer
    PROVE  IInv'
<1>0. TypeOK /\ IsFiniteSet(Open) /\ Accounting /\ StampsFresh /\ ModesApart
      /\ OneFramePerStamp /\ QueuedTasksIdle /\ TaskPlacement
      /\ StampsMatchLiveRequests
    BY DEF IInv
<1> DEFINE n == Len(waiting)
<1>1. /\ n \in Nat \ {0}
      /\ waiting' \in Seq(Task) /\ Len(waiting') = n - 1
      /\ \A i \in 1..n - 1 : waiting'[i] = waiting[i + 1]
    BY <1>0, QueueFacts
<1>2. Open' = Open /\ InFlight' = InFlight
    BY DEF TaskFrame, Open, InFlight
<1>3. TypeOK'
    <2>1. /\ pc' \in PCs /\ clock' \in Nat /\ sent' \in Nat /\ recvd' \in Nat
          /\ outstanding' \in 0..W /\ latencies' \in Nat /\ finished' \in BOOLEAN
        BY <1>0 DEF TaskFrame, TypeOK, PCs
    <2>2. /\ DOMAIN nativeState' \subseteq Nat
          /\ nativeState' \in [DOMAIN nativeState' -> 1..NumOps]
          /\ DOMAIN manager' \subseteq Nat /\ manager' \in [DOMAIN manager' -> Task]
          /\ toServer' \subseteq Request /\ toClient' \subseteq Response
        BY <1>0 DEF TaskFrame, TypeOK
    <2>3. QED
        BY <1>1, <2>1, <2>2 DEF TypeOK
<1>4. ASSUME NEW i \in 1..n - 1
      PROVE  /\ waiting'[i].id < clock'
             /\ \A m \in InFlight' : m.stamp # waiting'[i].id
             /\ waiting'[i].gen /\ waiting'[i].id \notin DOMAIN manager'
    <2>1. i + 1 \in 1..n /\ waiting'[i] = waiting[i + 1]
        BY <1>1
    <2>2. QED
        BY <1>0, <1>2, <2>1 DEF StampsFresh, QueuedTasksIdle, TaskPlacement,
           TaskFrame
<1>5. ASSUME NEW i \in 1..n - 1, NEW j \in 1..n - 1
      PROVE  i # j => waiting'[i].id # waiting'[j].id
    <2>0. HAVE i # j
    <2>1. i + 1 \in 1..n /\ j + 1 \in 1..n /\ i + 1 # j + 1
        BY <1>1, <2>0
    <2>2. \A k1, k2 \in 1..n : k1 # k2 => waiting[k1].id # waiting[k2].id
        BY <1>0 DEF TaskPlacement
    <2>3. QED
        BY <1>1, <2>1, <2>2
<1>6. StampsFresh' /\ QueuedTasksIdle' /\ TaskPlacement'
    BY <1>0, <1>1, <1>2, <1>4, <1>5 DEF StampsFresh, QueuedTasksIdle,
       TaskPlacement, TaskFrame
<1>7. QED
    BY <1>0, <1>2, <1>3, <1>6 DEF IInv, TaskFrame, Accounting,
       ModesApart, OneFramePerStamp, StampsMatchLiveRequests

(* WAITING: the head task issues a get under its own id and is parked in   *)
(* the manager until the response arrives.                                 *)
LEMMA ExecWaitIInv ==
    ASSUME IInv, TaskFrame, waiting # << >>,
           Head(waiting).gets < MaxGets,
           waiting' = Tail(waiting),
           manager' = MapPut(manager, Head(waiting).id,
                             [Head(waiting) EXCEPT !.gets = @ + 1]),
           toServer' = toServer \cup {[op |-> "get", stamp |-> Head(waiting).id]}
    PROVE  IInv'
<1>0. TypeOK /\ IsFiniteSet(Open) /\ Accounting /\ StampsFresh /\ ModesApart
      /\ OneFramePerStamp /\ QueuedTasksIdle /\ TaskPlacement
      /\ StampsMatchLiveRequests
    BY DEF IInv
<1> DEFINE n == Len(waiting)
           t == Head(waiting)
           t3 == [t EXCEPT !.gets = @ + 1]
           G == [op |-> "get", stamp |-> t.id]
<1>1. /\ n \in Nat \ {0} /\ t = waiting[1] /\ t \in Task
      /\ waiting' \in Seq(Task) /\ Len(waiting') = n - 1
      /\ \A i \in 1..n - 1 : waiting'[i] = waiting[i + 1]
    BY <1>0, QueueFacts
<1>2. t3 \in Task /\ t3.id = t.id /\ t3.gen = t.gen /\ t.id \in Nat
    BY <1>1, TaskBump DEF Task
<1>3. /\ t.gen /\ t.id \notin DOMAIN manager /\ t.id < clock
      /\ \A m \in InFlight : m.stamp # t.id
      /\ \A i \in 2..n : waiting[i].id # t.id
    <2>1. 1 \in 1..n
        BY <1>1
    <2>2. QED
        BY <1>0, <1>1, <2>1 DEF TaskPlacement, StampsFresh, QueuedTasksIdle
<1>4. ~Native /\ DOMAIN nativeState = {}
    BY <1>0 DEF ModesApart
<1>5. /\ DOMAIN manager' = DOMAIN manager \cup {t.id}
      /\ manager'[t.id] = t3
      /\ \A x \in DOMAIN manager : manager'[x] = manager[x]
    BY <1>3 DEF MapPut
<1>6. InFlight' = InFlight \cup {G}
    BY DEF TaskFrame, InFlight
<1>7. Open' = Open
    <2>1. {x \in DOMAIN manager' : ~manager'[x].gen}
          = {x \in DOMAIN manager : ~manager[x].gen}
        BY ZenonT(40), <1>2, <1>3, <1>5
    <2>2. QED
        BY <2>1 DEF TaskFrame, Open
<1>8. TypeOK'
    <2>1. /\ pc' \in PCs /\ clock' \in Nat /\ sent' \in Nat /\ recvd' \in Nat
          /\ outstanding' \in 0..W /\ latencies' \in Nat /\ finished' \in BOOLEAN
        BY <1>0 DEF TaskFrame, TypeOK, PCs
    <2>2. /\ DOMAIN nativeState' \subseteq Nat
          /\ nativeState' \in [DOMAIN nativeState' -> 1..NumOps]
          /\ toClient' \subseteq Response
        BY <1>0 DEF TaskFrame, TypeOK
    <2>3. DOMAIN manager' \subseteq Nat /\ manager' \in [DOMAIN manager' -> Task]
        BY <1>0, <1>2, <1>3 DEF TypeOK, MapPut
    <2>4. toServer' \subseteq Request
        BY SMTT(30), <1>0, <1>2 DEF TypeOK, Request, Ops
    <2>5. QED
        BY <1>1, <2>1, <2>2, <2>3, <2>4 DEF TypeOK
<1>9. IsFiniteSet(Open') /\ Accounting'
    BY <1>0, <1>7 DEF TaskFrame, Accounting
<1>10. StampsFresh'
    BY <1>0, <1>1, <1>3, <1>5, <1>6 DEF TaskFrame, StampsFresh
<1>11. ModesApart' /\ OneFramePerStamp'
    BY <1>0, <1>3, <1>4, <1>6 DEF TaskFrame, ModesApart, OneFramePerStamp
<1>12. ASSUME NEW i \in 1..n - 1
       PROVE  /\ \A m \in InFlight' : m.stamp # waiting'[i].id
              /\ waiting'[i].gen /\ waiting'[i].id \notin DOMAIN manager'
    <2>1. i + 1 \in 2..n /\ waiting'[i] = waiting[i + 1]
        BY <1>1
    <2>2. waiting[i + 1].id # t.id
        BY <1>3, <2>1
    <2>3. QED
        BY <1>0, <1>5, <1>6, <2>1, <2>2 DEF QueuedTasksIdle, TaskPlacement
<1>13. ASSUME NEW i \in 1..n - 1, NEW j \in 1..n - 1
       PROVE  i # j => waiting'[i].id # waiting'[j].id
    <2>0. HAVE i # j
    <2>1. i + 1 \in 1..n /\ j + 1 \in 1..n /\ i + 1 # j + 1
        BY <1>1, <2>0
    <2>2. \A k1, k2 \in 1..n : k1 # k2 => waiting[k1].id # waiting[k2].id
        BY SMTT(30), <1>0 DEF TaskPlacement
    <2>3. QED
        BY <1>1, <2>1, <2>2
<1>14. QueuedTasksIdle' /\ TaskPlacement'
    <2>1. \A s \in DOMAIN manager' : manager'[s].id = s
        BY <1>0, <1>2, <1>5 DEF TaskPlacement
    <2>2. QED
        BY SMTT(30), <1>1, <1>12, <1>13, <2>1 DEF QueuedTasksIdle, TaskPlacement
<1>15. StampsMatchLiveRequests'
    <2>1. SUFFICES ASSUME NEW m \in InFlight'
                   PROVE  /\ m.op = "invoke" =>
                               m.stamp \in DOMAIN manager' /\ ~manager'[m.stamp].gen
                          /\ m.op = "get" =>
                               m.stamp \in DOMAIN manager' /\ manager'[m.stamp].gen
        BY <1>4 DEF StampsMatchLiveRequests
    <2>2. CASE m = G
        BY <1>2, <1>3, <1>5, <2>2
    <2>3. CASE m # G
        <3>1. m \in InFlight /\ m.stamp # t.id
            BY <1>3, <1>6, <2>3
        <3>2. QED
            BY <1>0, <1>4, <1>5, <3>1 DEF StampsMatchLiveRequests
    <2>4. QED
        BY <2>2, <2>3
<1>16. QED
    BY <1>8, <1>9, <1>10, <1>11, <1>14, <1>15 DEF IInv

(* execute_task(): an empty run-queue, or one of the three outcomes.       *)
LEMMA ExecuteTaskIInv ==
    ASSUME IInv, ExecuteTask
    PROVE  IInv'
<1>1. TaskFrame
    BY DEF ExecuteTask, TaskFrame
<1>2. CASE waiting = << >>
    <2>1. UNCHANGED <<manager, waiting, toServer>>
        BY <1>2 DEF ExecuteTask
    <2>2. Open' = Open /\ InFlight' = InFlight
        BY <1>1, <2>1 DEF TaskFrame, Open, InFlight
    <2>3. TypeOK'
        BY <1>1, <2>1 DEF IInv, TaskFrame, TypeOK, PCs
    <2>4. QED
        BY <1>1, <2>1, <2>2, <2>3 DEF IInv, TaskFrame, Accounting, StampsFresh,
           ModesApart, OneFramePerStamp, QueuedTasksIdle, TaskPlacement,
           StampsMatchLiveRequests
<1>3. CASE waiting # << >>
    <2> DEFINE t == Head(waiting)
    <2>1. \/ /\ t.yields < MaxYields
             /\ waiting' = Append(Tail(waiting), [t EXCEPT !.yields = @ + 1])
             /\ manager' = manager /\ toServer' = toServer
          \/ /\ t.gets < MaxGets
             /\ waiting' = Tail(waiting)
             /\ manager' = MapPut(manager, t.id, [t EXCEPT !.gets = @ + 1])
             /\ toServer' = toServer \cup {[op |-> "get", stamp |-> t.id]}
          \/ /\ waiting' = Tail(waiting)
             /\ manager' = manager /\ toServer' = toServer
        BY <1>3 DEF ExecuteTask
    <2>2. QED
        BY <1>1, <1>3, <2>1, ExecYieldIInv, ExecWaitIInv, ExecCompleteIInv
<1>4. QED
    BY <1>2, <1>3

(* The server answers a request with a response under the same stamp.      *)
LEMMA ServerReplyIInv ==
    ASSUME IInv, NEW m, ServerReply(m)
    PROVE  IInv'
<1>0. TypeOK /\ IsFiniteSet(Open) /\ Accounting /\ StampsFresh /\ ModesApart
      /\ OneFramePerStamp /\ QueuedTasksIdle /\ TaskPlacement
      /\ StampsMatchLiveRequests
    BY DEF IInv
<1>1. PICK st \in (IF m.op = "invoke" THEN InvokeStatuses ELSE {"ok"}) :
          toClient' = toClient \cup {[op |-> m.op, status |-> st, stamp |-> m.stamp]}
    BY DEF ServerReply
<1> DEFINE R == [op |-> m.op, status |-> st, stamp |-> m.stamp]
<1>2. m \in toServer /\ m \in InFlight /\ m \in Request /\ R \in Response
    <2>1. m \in toServer /\ m \in Request
        BY <1>0 DEF ServerReply, TypeOK
    <2>2. st \in Statuses
        BY ConstAssumption DEF Statuses
    <2>3. QED
        BY <2>1, <2>2 DEF InFlight, Request, Response
<1>3. /\ toServer' = toServer \ {m}
      /\ UNCHANGED <<pc, clock, sent, recvd, outstanding, latencies, finished,
                     nativeState, manager, waiting>>
    BY DEF ServerReply
<1>4. InFlight' = (InFlight \ {m}) \cup {R}
    BY <1>0, <1>1, <1>2, <1>3, FramesDistinct DEF InFlight, TypeOK
<1>5. R.stamp = m.stamp /\ R.op = m.op
    OBVIOUS
<1>6. Open' = Open
    BY <1>3 DEF Open
<1>7. TypeOK'
    BY SMTT(30), <1>0, <1>1, <1>2, <1>3 DEF TypeOK
<1>8. \A m2 \in InFlight \ {m} : m2.stamp # m.stamp
    BY <1>0, <1>2 DEF OneFramePerStamp
<1>9. OneFramePerStamp'
    BY <1>0, <1>4, <1>5, <1>8 DEF OneFramePerStamp
<1>10. StampsFresh' /\ QueuedTasksIdle' /\ StampsMatchLiveRequests'
    BY <1>0, <1>2, <1>3, <1>4, <1>5 DEF StampsFresh, QueuedTasksIdle,
       StampsMatchLiveRequests
<1>11. QED
    BY <1>0, <1>3, <1>6, <1>7, <1>9, <1>10 DEF IInv, Accounting, ModesApart,
       TaskPlacement

(* Every step of the client or of the network preserves IInv.             *)
LEMMA NextIInv ==
    ASSUME IInv, [Next]_vars
    PROVE  IInv'
<1>1. CASE SendCheck \/ SendDone \/ RecvCheck \/ RecvDone
    BY <1>1, ControlStepsIInv
<1>2. CASE SendOne
    BY <1>2, SendOneIInv
<1>3. CASE ExecuteTask
    BY <1>3, ExecuteTaskIInv
<1>4. ASSUME NEW m \in toClient, RecvPacket(m)
      PROVE  IInv'
    <2>1. RecvFrame(m)
        BY <1>4 DEF RecvPacket, RecvFrame
    <2>2. CASE ~Native /\ m.op = "invoke" /\ m.status = "ok" /\ RecvInvokeOk(m)
        BY <2>1, <2>2, RecvInvokeOkIInv
    <2>3. CASE ~Native /\ m.op = "invoke" /\ m.status = "pushback"
               /\ RecvPushback(m)
        BY <2>1, <2>3, RecvPushbackIInv
    <2>4. CASE ~Native /\ m.op = "get" /\ RecvTaskGet(m)
        BY <2>1, <2>4, RecvTaskGetIInv
    <2>5. CASE Native /\ m.op = "get" /\ RecvNativeGet(m)
        BY <2>1, <2>5, RecvNativeLastIInv, RecvNativeNextIInv
    <2>6. CASE ~Native /\ m.op = "invoke" /\ m.status = "other"
               /\ UNCHANGED <<recvd, latencies, outstanding, nativeState,
                              manager, waiting, toServer>>
        BY <1>4, <2>6, DropResponseIInv DEF RecvPacket
    <2>7. QED
        BY <1>4, <2>2, <2>3, <2>4, <2>5, <2>6 DEF RecvPacket
<1>5. ASSUME NEW m \in toServer \cup toClient,
             ServerReply(m) \/ LoseRequest(m) \/ LoseResponse(m)
      PROVE  IInv'
    <2>1. CASE ServerReply(m)
        BY <2>1, ServerReplyIInv
    <2>2. CASE LoseRequest(m)
        BY <2>2, DropRequestIInv DEF LoseRequest
    <2>3. CASE LoseResponse(m)
        BY SMTT(30), <2>3, DropResponseIInv DEF LoseResponse
    <2>4. QED
        BY <1>5, <2>1, <2>2, <2>3
<1>6. CASE UNCHANGED vars
    <2>1. Open' = Open /\ InFlight' = InFlight
        BY <1>6 DEF vars, Open, InFlight
    <2>2. QED
        BY SMTT(30), <1>6, <2>1 DEF vars, IInv, TypeOK, Accounting, StampsFresh,
           ModesApart, OneFramePerStamp, QueuedTasksIdle, TaskPlacement,
           StampsMatchLiveRequests
<1>7. QED
    BY <1>1, <1>2, <1>3, <1>4, <1>5, <1>6 DEF Next, ClientStep, Environment

-----------------------------------------------------------------------------
(* The main results.                                                       *)

(* IInv holds in every reachable state of the client and network.          *)
THEOREM IInvInvariant == Spec => []IInv
<1>1. Init => IInv
    BY InitIInv
<1>2. IInv /\ [Next]_vars => IInv'
    BY NextIInv
<1>3. QED
    BY <1>1, <1>2, PTL DEF Spec

(* Type correctness of every variable of send()/recv()/execute_task(),     *)
(* including that outstanding never leaves 0..W (no u64 underflow and no   *)
(* window overrun).                                                        *)
THEOREM TypeCorrect == Spec => []TypeOK
<1>1. IInv => TypeOK
    BY DEF IInv
<1>2. QED
    BY <1>1, IInvInvariant, PTL

(* The outstanding counter of send()/recv() equals the number of open     *)
(* requests, and every request sent is received or outstanding.           *)
THEOREM AccountingInvariant == Spec => []Accounting
<1>1. IInv => Accounting
    BY DEF IInv
<1>2. QED
    BY <1>1, IInvInvariant, PTL

(* Every task the TaskManager holds is filed under its own id, and the     *)
(* run-queue holds each task at most once and never one still filed.       *)
THEOREM TaskPlacementInvariant == Spec => []TaskPlacement
<1>1. IInv => TaskPlacement
    BY DEF IInv
<1>2. QED
    BY <1>1, IInvInvariant, PTL

(* Every frame in flight names the live record recv() dispatches it to,   *)
(* so native_state.get_mut(..).unwrap() never panics.                     *)
THEOREM StampsMatchInvariant == Spec => []StampsMatchLiveRequests
<1>1. IInv => StampsMatchLiveRequests
    BY DEF IInv
<1>2. QED
    BY <1>1, IInvInvariant, PTL

-----------------------------------------------------------------------------
(* Once recv() has seen responses <= recvd it never polls again.           *)

FinishedStable == finished => Responses <= recvd /\ pc # "recvloop"

LEMMA FinishedStableStep ==
    ASSUME TypeOK, FinishedStable, [Next]_vars
    PROVE  FinishedStable'
<1>1. CASE finished' = finished /\ recvd' = recvd /\ pc' = pc
    BY <1>1 DEF FinishedStable
<1>2. CASE SendCheck \/ SendDone \/ RecvDone \/ ExecuteTask
    <2>1. finished' = finished /\ recvd' = recvd /\ pc' # "recvloop"
        BY <1>2 DEF SendCheck, SendDone, RecvDone, ExecuteTask
    <2>2. QED
        BY <2>1 DEF FinishedStable
<1>3. CASE RecvCheck
    <2>1. CASE Responses <= recvd
        BY <1>3, <2>1 DEF RecvCheck, FinishedStable
    <2>2. CASE ~(Responses <= recvd)
        BY <1>3, <2>2 DEF RecvCheck, FinishedStable
    <2>3. QED
        BY <2>1, <2>2
<1>4. CASE SendOne
    BY <1>1, <1>4 DEF SendOne
<1>5. CASE \E m \in toClient : RecvPacket(m)
    <2>1. pc = "recvloop" /\ finished' = finished /\ pc' = pc
        BY <1>5 DEF RecvPacket
    <2>2. QED
        BY <2>1 DEF FinishedStable
<1>6. CASE Environment
    BY <1>1, <1>6 DEF Environment, ServerReply, LoseRequest, LoseResponse
<1>7. CASE UNCHANGED vars
    BY <1>1, <1>7 DEF vars
<1>8. QED
    BY <1>2, <1>3, <1>4, <1>5, <1>6, <1>7 DEF Next, ClientStep

(* After finished is set no step changes recvd: the response count the    *)
(* throughput figure in Drop divides by is frozen.                        *)
THEOREM FinishedFreezesRecvdThm == Spec => FinishedFreezesRecvd
<1>1. Init => FinishedStable
    BY DEF Init, FinishedStable
<1>2. TypeOK /\ FinishedStable /\ [Next]_vars => FinishedStable'
    BY FinishedStableStep
<1>3. FinishedStable /\ [Next]_vars => [finished => recvd' = recvd]_vars
    <2>1. SUFFICES ASSUME FinishedStable, [Next]_vars, finished
                   PROVE  recvd' = recvd
        OBVIOUS
    <2>2. pc # "recvloop"
        BY <2>1 DEF FinishedStable
    <2>3. ~\E m \in toClient : RecvPacket(m)
        BY <2>2 DEF RecvPacket
    <2>4. QED
        BY <2>1, <2>3 DEF Next, ClientStep, Environment, vars, SendCheck,
           SendOne, SendDone, RecvCheck, RecvDone, ExecuteTask, ServerReply,
           LoseRequest, LoseResponse
<1>4. QED
    BY <1>1, <1>2, <1>3, TypeCorrect, PTL DEF Spec, FinishedFreezesRecvd

=============================================================================
