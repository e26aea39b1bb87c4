--------------------------- MODULE PushbackClient ---------------------------
(***************************************************************************)
(* One core of the closed-loop PUSHBACK benchmark client                   *)
(* (src/splinter/src/bin/client/pushback.rs, PushbackRecvSend).            *)
(*                                                                         *)
(* The netbricks scheduler calls execute() forever; each call runs         *)
(* send(), recv() and execute_task() in that order.  pc records which of   *)
(* the three is running, so that the interleaving with the server and the  *)
(* network (which run on other machines) is explicit.                      *)
(*                                                                         *)
(* Data is abstracted away: a request is identified by its stamp (the      *)
(* rdtsc value `curr` taken at send time, modelled by the counter clock),  *)
(* keys, tenants, payloads and latency values are left out; the latency    *)
(* vector is modelled by its length.  The workload is built with put_pct   *)
(* hard-coded to 0 (pushback.rs:286), so every operation drawn is a get.   *)
(*                                                                         *)
(* TaskManager (the re-hosted extension) lives in src/splinter outside     *)
(* this repository's sources; its execute_task() is modelled from the      *)
(* spec as a choice among YIELDED, WAITING (issue one GET, stamped with    *)
(* the task's id, the key under which pushback.rs:556 re-files it) and     *)
(* COMPLETED, bounded by MaxGets and MaxYields.                            *)
(***************************************************************************)
EXTENDS Naturals, Sequences, FiniteSets

CONSTANTS
    Native,         \* !config.use_invoke: native gets instead of invoke()
    W,              \* the outstanding window (the literal 32 in send())
    Requests,       \* self.requests = config.num_reqs
    Responses,      \* self.responses (34 * 1000 * 1000 in setup_send_recv)
    NumOps,         \* NUM_OPS: gets per native logical operation
    InvokeStatuses, \* statuses the server may put on an invoke() response
    Lossy,          \* TRUE if the network may drop a frame
    MaxGets,        \* bound on GETs one pushed-back extension issues
    MaxYields       \* bound on voluntary yields of one extension

Statuses == {"ok", "pushback", "other"}

ASSUME ConstAssumption ==
    /\ Native \in BOOLEAN
    /\ W \in Nat \ {0}
    /\ Requests \in Nat
    /\ Responses \in Nat \ {0}
    /\ NumOps \in Nat \ {0}
    /\ InvokeStatuses \subseteq Statuses
    /\ Lossy \in BOOLEAN
    /\ MaxGets \in Nat
    /\ MaxYields \in Nat

VARIABLES
    pc,           \* which part of execute() runs next
    clock,        \* cycles::rdtsc(): the next stamp handed out
    sent,         \* self.sent
    recvd,        \* self.recvd
    outstanding,  \* self.outstanding
    latencies,    \* Len(self.latencies)
    finished,     \* self.finished
    nativeState,  \* self.native_state: stamp -> gets completed so far
    manager,      \* self.manager: stamp -> TaskManager
    waiting,      \* self.waiting: run-queue of TaskManagers
    toServer,     \* request frames in flight to the server
    toClient      \* response frames in flight to (or queued at) the client

vars == <<pc, clock, sent, recvd, outstanding, latencies, finished,
          nativeState, manager, waiting, toServer, toClient>>

PCs == {"send", "sendloop", "recv", "recvloop", "task"}

Ops == {"get", "invoke"}

\* A TaskManager: its id (the send stamp), whether its generator exists
\* (created on pushback), and how far the re-hosted extension has got.
Task == [id : Nat, gen : BOOLEAN, gets : 0..MaxGets, yields : 0..MaxYields]

Request == [op : Ops, stamp : Nat]

Response == [op : Ops, status : Statuses, stamp : Nat]

\* HashMap::insert and HashMap::remove on a function with a finite domain.
MapPut(f, k, v) == [x \in DOMAIN f \cup {k} |-> IF x = k THEN v ELSE f[x]]

MapRemove(f, k) == [x \in DOMAIN f \ {k} |-> f[x]]

\* add_request(): a fresh TaskManager filed under stamp id (insert
\* overwrites an existing entry after logging it).
AddRequest(id) == MapPut(manager, id, [id |-> id, gen |-> FALSE,
                                       gets |-> 0, yields |-> 0])

\* remove_request()
RemoveRequest(id) == MapRemove(manager, id)

-----------------------------------------------------------------------------

Init ==
    /\ pc = "send"
    /\ clock = 0
    /\ sent = 0
    /\ recvd = 0
    /\ outstanding = 0
    /\ latencies = 0
    /\ finished = FALSE
    /\ nativeState = [s \in {} |-> 1]
    /\ manager = [s \in {} |-> [id |-> s, gen |-> FALSE, gets |-> 0, yields |-> 0]]
    /\ waiting = << >>
    /\ toServer = {}
    /\ toClient = {}

(* send(): the entry check `if self.requests <= self.sent { return; }`.   *)
SendCheck ==
    /\ pc = "send"
    /\ pc' = IF Requests <= sent THEN "recv" ELSE "sendloop"
    /\ UNCHANGED <<clock, sent, recvd, outstanding, latencies, finished,
                   nativeState, manager, waiting, toServer, toClient>>

\* Mutant: the window test written `<=`.
SendOneWindowOffByOne ==
    /\ pc = "sendloop"
    /\ outstanding <= W
    /\ clock' = clock + 1
    /\ toServer' = toServer \cup
           {[op |-> IF Native THEN "get" ELSE "invoke", stamp |-> clock]}
    /\ nativeState' = IF Native THEN MapPut(nativeState, clock, 1) ELSE nativeState
    /\ manager' = IF Native THEN manager ELSE AddRequest(clock)
    /\ outstanding' = outstanding + 1
    /\ sent' = sent + 1
    /\ UNCHANGED <<pc, recvd, latencies, finished, waiting, toClient>>

\* Mutant: the frame is stamped with a second rdtsc() read, not with the
\* `curr` the request is filed under.
SendOneStampedTwice ==
    /\ pc = "sendloop"
    /\ outstanding < W
    /\ clock' = clock + 2
    /\ toServer' = toServer \cup
           {[op |-> IF Native THEN "get" ELSE "invoke", stamp |-> clock + 1]}
    /\ nativeState' = IF Native THEN MapPut(nativeState, clock, 1) ELSE nativeState
    /\ manager' = IF Native THEN manager ELSE AddRequest(clock)
    /\ outstanding' = outstanding + 1
    /\ sent' = sent + 1
    /\ UNCHANGED <<pc, recvd, latencies, finished, waiting, toClient>>

(* One iteration of `while self.outstanding < 32`: stamp, draw a get from  *)
(* the workload, track it, send it.  The loop does not re-test sent.      *)
SendOne ==
    /\ pc = "sendloop"
    /\ outstanding < W
    /\ LET curr == clock IN
         /\ clock' = clock + 1
         /\ toServer' = toServer \cup
                {[op |-> IF Native THEN "get" ELSE "invoke", stamp |-> curr]}
         /\ nativeState' = IF Native /\ curr \notin DOMAIN nativeState
                             THEN MapPut(nativeState, curr, 1)
                             ELSE nativeState
         /\ manager' = IF Native THEN manager ELSE AddRequest(curr)
    /\ outstanding' = outstanding + 1
    /\ sent' = sent + 1
    /\ UNCHANGED <<pc, recvd, latencies, finished, waiting, toClient>>

SendDone ==
    /\ pc = "sendloop"
    /\ outstanding >= W
    /\ pc' = "recv"
    /\ UNCHANGED <<clock, sent, recvd, outstanding, latencies, finished,
                   nativeState, manager, waiting, toServer, toClient>>

\* Mutant: the early return after setting finished is missing.
RecvCheckNoReturn ==
    /\ pc = "recv"
    /\ pc' = "recvloop"
    /\ finished' = (finished \/ Responses <= recvd)
    /\ UNCHANGED <<clock, sent, recvd, outstanding, latencies,
                   nativeState, manager, waiting, toServer, toClient>>

\* Mutant: the termination test written `<`.
RecvCheckOffByOne ==
    /\ pc = "recv"
    /\ IF Responses < recvd
         THEN pc' = "task" /\ finished' = TRUE
         ELSE pc' = "recvloop" /\ UNCHANGED finished
    /\ UNCHANGED <<clock, sent, recvd, outstanding, latencies,
                   nativeState, manager, waiting, toServer, toClient>>

(* recv(): `if self.responses <= self.recvd { self.finished = true; return }` *)
RecvCheck ==
    /\ pc = "recv"
    /\ IF Responses <= recvd
         THEN pc' = "task" /\ finished' = TRUE
         ELSE pc' = "recvloop" /\ UNCHANGED finished
    /\ UNCHANGED <<clock, sent, recvd, outstanding, latencies,
                   nativeState, manager, waiting, toServer, toClient>>

\* Mutant: StatusOk forgets `self.outstanding -= 1`.
RecvInvokeOkNoDecrement(m) ==
    /\ recvd' = recvd + 1
    /\ latencies' = latencies + 1
    /\ manager' = RemoveRequest(m.stamp)
    /\ UNCHANGED <<outstanding, waiting, nativeState, toServer>>

(* Invoke mode, SandstormInvokeRpc with StatusOk.                          *)
RecvInvokeOk(m) ==
    /\ recvd' = recvd + 1
    /\ latencies' = latencies + 1
    /\ outstanding' = outstanding - 1
    /\ manager' = RemoveRequest(m.stamp)
    /\ UNCHANGED <<waiting, nativeState, toServer>>

(* Invoke mode, StatusPushback: the TaskManager, if any, gets a generator  *)
(* and joins the run-queue; the request is accounted whether or not.       *)
RecvPushback(m) ==
    /\ IF m.stamp \in DOMAIN manager
         THEN /\ manager' = MapRemove(manager, m.stamp)
              /\ waiting' = Append(waiting, [manager[m.stamp] EXCEPT !.gen = TRUE])
         ELSE UNCHANGED <<manager, waiting>>
    /\ latencies' = latencies + 1
    /\ outstanding' = outstanding - 1
    /\ recvd' = recvd + 1
    /\ UNCHANGED <<nativeState, toServer>>

\* Mutant: the GET answer is sampled but the task is never resumed.
RecvTaskGetNoResume(m) ==
    /\ latencies' = latencies + 1
    /\ UNCHANGED <<manager, waiting, recvd, outstanding, nativeState, toServer>>

(* Invoke mode, SandstormGetRpc: the answer to a pushed-back task's GET.   *)
(* A latency sample is pushed; recvd is not touched.                       *)
RecvTaskGet(m) ==
    /\ latencies' = latencies + 1
    /\ IF m.stamp \in DOMAIN manager
         THEN /\ manager' = MapRemove(manager, m.stamp)
              /\ waiting' = Append(waiting, manager[m.stamp])
         ELSE UNCHANGED <<manager, waiting>>
    /\ UNCHANGED <<recvd, outstanding, nativeState, toServer>>

\* Mutant: the step counter is compared with NumOps + 1 (counting from 0).
RecvNativeGetOffByOne(m) ==
    /\ m.stamp \in DOMAIN nativeState
    /\ IF nativeState[m.stamp] = NumOps + 1
         THEN /\ recvd' = recvd + 1
              /\ latencies' = latencies + 1
              /\ nativeState' = MapRemove(nativeState, m.stamp)
              /\ outstanding' = outstanding - 1
              /\ UNCHANGED toServer
         ELSE /\ toServer' = toServer \cup {[op |-> "get", stamp |-> m.stamp]}
              /\ nativeState' = [nativeState EXCEPT ![m.stamp] = @ + 1]
              /\ UNCHANGED <<recvd, latencies, outstanding>>
    /\ UNCHANGED <<manager, waiting>>

\* Mutant: the completed operation is left in native_state.
RecvNativeGetKeepsState(m) ==
    /\ m.stamp \in DOMAIN nativeState
    /\ IF nativeState[m.stamp] = NumOps
         THEN /\ recvd' = recvd + 1
              /\ latencies' = latencies + 1
              /\ outstanding' = outstanding - 1
              /\ UNCHANGED <<toServer, nativeState>>
         ELSE /\ toServer' = toServer \cup {[op |-> "get", stamp |-> m.stamp]}
              /\ nativeState' = [nativeState EXCEPT ![m.stamp] = @ + 1]
              /\ UNCHANGED <<recvd, latencies, outstanding>>
    /\ UNCHANGED <<manager, waiting>>

\* Mutant: the follow-up get is stamped with a fresh rdtsc value.
RecvNativeGetFreshStamp(m) ==
    /\ m.stamp \in DOMAIN nativeState
    /\ IF nativeState[m.stamp] = NumOps
         THEN /\ recvd' = recvd + 1
              /\ latencies' = latencies + 1
              /\ nativeState' = MapRemove(nativeState, m.stamp)
              /\ outstanding' = outstanding - 1
              /\ UNCHANGED toServer
         ELSE /\ toServer' = toServer \cup {[op |-> "get", stamp |-> clock]}
              /\ nativeState' = [nativeState EXCEPT ![m.stamp] = @ + 1]
              /\ UNCHANGED <<recvd, latencies, outstanding>>
    /\ UNCHANGED <<manager, waiting>>

(* Native mode, SandstormGetRpc: `native_state.get(&timestamp).unwrap()`;  *)
(* the last of NumOps gets completes the operation, any other re-sends a   *)
(* get under the same stamp.  The unwrap is the guard;                    *)
(* StampsMatchLiveRequests checks that it never fails.                     *)
RecvNativeGet(m) ==
    /\ m.stamp \in DOMAIN nativeState
    /\ IF nativeState[m.stamp] = NumOps
         THEN /\ recvd' = recvd + 1
              /\ latencies' = latencies + 1
              /\ nativeState' = MapRemove(nativeState, m.stamp)
              /\ outstanding' = outstanding - 1
              /\ UNCHANGED toServer
         ELSE /\ toServer' = toServer \cup {[op |-> "get", stamp |-> m.stamp]}
              /\ nativeState' = [nativeState EXCEPT ![m.stamp] = @ + 1]
              /\ UNCHANGED <<recvd, latencies, outstanding>>
    /\ UNCHANGED <<manager, waiting>>

(* One frame of the batch returned by recv_res(), dispatched on mode,      *)
(* opcode and status; every other combination is freed and ignored.        *)
RecvPacket(m) ==
    /\ pc = "recvloop"
    /\ toClient' = toClient \ {m}
    /\ \/ /\ ~Native /\ m.op = "invoke" /\ m.status = "ok"
          /\ RecvInvokeOk(m)
       \/ /\ ~Native /\ m.op = "invoke" /\ m.status = "pushback"
          /\ RecvPushback(m)
       \/ /\ ~Native /\ m.op = "get"
          /\ RecvTaskGet(m)
       \/ /\ Native /\ m.op = "get"
          /\ RecvNativeGet(m)
       \/ /\ ~Native /\ m.op = "invoke" /\ m.status = "other"
          /\ UNCHANGED <<recvd, latencies, outstanding, nativeState, manager,
                         waiting, toServer>>
    /\ UNCHANGED <<pc, clock, sent, finished>>

(* End of the batch.  The stop stamp taken when responses <= recvd is a    *)
(* measurement only.                                                       *)
RecvDone ==
    /\ pc = "recvloop"
    /\ pc' = "task"
    /\ UNCHANGED <<clock, sent, recvd, outstanding, latencies, finished,
                   nativeState, manager, waiting, toServer, toClient>>

\* Mutant: YIELDED re-enqueues the task without popping it.
ExecuteTaskYieldKeepsHead ==
    /\ pc = "task"
    /\ pc' = "send"
    /\ IF waiting = << >>
         THEN UNCHANGED <<manager, waiting, toServer>>
         ELSE LET t == Head(waiting) IN
              \/ /\ t.yields < MaxYields
                 /\ waiting' = Append(waiting, [t EXCEPT !.yields = @ + 1])
                 /\ UNCHANGED <<manager, toServer>>
              \/ /\ t.gets < MaxGets
                 /\ waiting' = Tail(waiting)
                 /\ manager' = MapPut(manager, t.id, [t EXCEPT !.gets = @ + 1])
                 /\ toServer' = toServer \cup {[op |-> "get", stamp |-> t.id]}
              \/ /\ waiting' = Tail(waiting)
                 /\ UNCHANGED <<manager, toServer>>
    /\ UNCHANGED <<clock, sent, recvd, outstanding, latencies, finished,
                   nativeState, toClient>>

(* execute_task(): pop the head of the run-queue and resume it once.       *)
ExecuteTask ==
    /\ pc = "task"
    /\ pc' = "send"
    /\ IF waiting = << >>
         THEN UNCHANGED <<manager, waiting, toServer>>
         ELSE LET t == Head(waiting) IN
              \/ /\ t.yields < MaxYields                     \* YIELDED
                 /\ waiting' = Append(Tail(waiting), [t EXCEPT !.yields = @ + 1])
                 /\ UNCHANGED <<manager, toServer>>
              \/ /\ t.gets < MaxGets                         \* WAITING
                 /\ waiting' = Tail(waiting)
                 /\ manager' = MapPut(manager, t.id, [t EXCEPT !.gets = @ + 1])
                 /\ toServer' = toServer \cup {[op |-> "get", stamp |-> t.id]}
              \/ /\ waiting' = Tail(waiting)                 \* COMPLETED
                 /\ UNCHANGED <<manager, toServer>>
    /\ UNCHANGED <<clock, sent, recvd, outstanding, latencies, finished,
                   nativeState, toClient>>

-----------------------------------------------------------------------------
(* The environment: the server answers a request, and an unreliable        *)
(* network may lose a frame in either direction.                           *)

ServerReply(m) ==
    /\ m \in toServer
    /\ toServer' = toServer \ {m}
    /\ \E st \in (IF m.op = "invoke" THEN InvokeStatuses ELSE {"ok"}) :
         toClient' = toClient \cup {[op |-> m.op, status |-> st, stamp |-> m.stamp]}
    /\ UNCHANGED <<pc, clock, sent, recvd, outstanding, latencies, finished,
                   nativeState, manager, waiting>>

LoseRequest(m) ==
    /\ Lossy
    /\ m \in toServer
    /\ toServer' = toServer \ {m}
    /\ UNCHANGED <<pc, clock, sent, recvd, outstanding, latencies, finished,
                   nativeState, manager, waiting, toClient>>

LoseResponse(m) ==
    /\ Lossy
    /\ m \in toClient
    /\ toClient' = toClient \ {m}
    /\ UNCHANGED <<pc, clock, sent, recvd, outstanding, latencies, finished,
                   nativeState, manager, waiting, toServer>>

ClientStep ==
    \/ SendCheck \/ SendOne \/ SendDone
    \/ RecvCheck \/ RecvDone \/ ExecuteTask
    \/ \E m \in toClient : RecvPacket(m)

Environment ==
    \E m \in toServer \cup toClient :
        ServerReply(m) \/ LoseRequest(m) \/ LoseResponse(m)

Next == ClientStep \/ Environment

(* The scheduler calls execute() forever and the loop never blocks; the    *)
(* server answers every request it gets; a frame in the rx ring is         *)
(* returned by a later recv_res(), which is polled once per execute().     *)
Fairness ==
    /\ WF_vars(ClientStep)
    /\ WF_vars(\E m \in toServer : ServerReply(m))
    /\ SF_vars(\E m \in toClient : RecvPacket(m))

Spec == Init /\ [][Next]_vars

FairSpec == Spec /\ Fairness

-----------------------------------------------------------------------------
(* The statistics Drop prints on the master once the loop has stopped.     *)
(* Only the length of the sorted latency vector decides which samples are  *)
(* read (0-based, as in the code).                                         *)

\* The median: latencies[n/2] and latencies[n/2 + 1] for an even length,
\* latencies[n/2] for an odd one.
MedianIndices(n) ==
    IF n % 2 = 0 THEN {n \div 2, n \div 2 + 1} ELSE {n \div 2}

-----------------------------------------------------------------------------
(* Properties.                                                             *)

\* The stamps of the requests whose terminal response is still to come:
\* native operations in native_state, invokes not yet pushed back.
Open == DOMAIN nativeState \cup {s \in DOMAIN manager : ~manager[s].gen}

\* Every frame in flight, in either direction.
InFlight == toServer \cup toClient

TypeOK ==
    /\ pc \in PCs
    /\ clock \in Nat
    /\ sent \in Nat
    /\ recvd \in Nat
    /\ outstanding \in 0..W
    /\ latencies \in Nat
    /\ finished \in BOOLEAN
    /\ DOMAIN nativeState \subseteq Nat
    /\ nativeState \in [DOMAIN nativeState -> 1..NumOps]
    /\ DOMAIN manager \subseteq Nat
    /\ manager \in [DOMAIN manager -> Task]
    /\ waiting \in Seq(Task)
    /\ toServer \subseteq Request
    /\ toClient \subseteq Response

(* The outstanding counter of send()/recv() is exact: every request sent   *)
(* is either accounted in recvd or counted in outstanding, and outstanding *)
(* is the number of native operations and invokes that still await their  *)
(* terminal response, whatever frames the network has lost.                *)
Accounting ==
    /\ recvd + outstanding = sent
    /\ outstanding = Cardinality(Open)

(* A TaskManager is in exactly one place: the run-queue holds each task at *)
(* most once, only with its generator created, and never one that is also  *)
(* filed in the manager map; the map files each task under its own id.     *)
TaskPlacement ==
    /\ \A s \in DOMAIN manager : manager[s].id = s
    /\ \A i \in 1..Len(waiting) :
         /\ waiting[i].gen
         /\ waiting[i].id \notin DOMAIN manager
         /\ \A j \in 1..Len(waiting) : i # j => waiting[i].id # waiting[j].id

(* Stamp round trip: every frame in flight carries the stamp of the live   *)
(* record it belongs to, so the dispatch in recv() finds it: a native get  *)
(* its native_state entry (the unwrap() never panics), an invoke its       *)
(* TaskManager without generator, a task's GET its re-filed TaskManager.   *)
StampsMatchLiveRequests ==
    \A m \in InFlight :
        /\ Native => m.op = "get" /\ m.stamp \in DOMAIN nativeState
        /\ ~Native /\ m.op = "invoke" =>
             m.stamp \in DOMAIN manager /\ ~manager[m.stamp].gen
        /\ ~Native /\ m.op = "get" =>
             m.stamp \in DOMAIN manager /\ manager[m.stamp].gen

(* Once recv() has set finished it returns before polling, so the count of *)
(* responses the throughput figure divides by no longer changes.           *)
FinishedFreezesRecvd == [][finished => recvd' = recvd]_vars

-----------------------------------------------------------------------------
(* The refinement of the abstract core WindowCore.  The stop stamp of      *)
(* recv() (pushback.rs:540-542) is taken at the end of the call in which    *)
(* recvd reaches the target: once Responses <= recvd and that call is      *)
(* over.  Later calls return at the entry check before reaching it.        *)
Stamped == Responses <= recvd /\ pc # "recvloop"

Window == INSTANCE WindowCore WITH stopped <- Stamped

(* Each core implements the abstract window client: every step of send(),  *)
(* recv() and execute_task() either issues a request within the window,    *)
(* counts a response before the stop stamp, takes the stamp, sets          *)
(* finished after it, or leaves the counters alone.                        *)
WindowRefinement == Window!Spec

\* Inside the send loop, sent - outstanding is still below num_reqs: the
\* entry check held and the loop moves both counters together.
SendLoopBound == pc = "sendloop" => sent < Requests + outstanding

-----------------------------------------------------------------------------
(* The inductive strengthening of TypeOK, Accounting, TaskPlacement and    *)
(* StampsMatchLiveRequests used by the proofs (PushbackClientProofs).     *)

\* Stamps come from a counter that only moves forward.
StampsFresh ==
    /\ \A s \in DOMAIN nativeState \cup DOMAIN manager : s < clock
    /\ \A m \in InFlight : m.stamp < clock
    /\ \A i \in 1..Len(waiting) : waiting[i].id < clock

\* Native and invoke state are never both in use.
ModesApart ==
    /\ Native => DOMAIN manager = {} /\ waiting = << >>
    /\ ~Native => DOMAIN nativeState = {}

\* At most one frame per stamp is in flight.
OneFramePerStamp ==
    \A m1, m2 \in InFlight : m1.stamp = m2.stamp => m1 = m2

\* A task on the run-queue has no frame in flight.
QueuedTasksIdle ==
    \A i \in 1..Len(waiting) : \A m \in InFlight : m.stamp # waiting[i].id

IInv ==
    /\ TypeOK
    /\ IsFiniteSet(Open)
    /\ Accounting
    /\ StampsFresh
    /\ ModesApart
    /\ OneFramePerStamp
    /\ QueuedTasksIdle
    /\ TaskPlacement
    /\ StampsMatchLiveRequests

(* The benchmark terminates: recv() eventually sets finished.              *)
Termination == <>finished

MaxStamp == Requests + W

\* A pushed-back task that is still alive: queued, or waiting for its GET.
TaskLive(s) ==
    \/ \E i \in 1..Len(waiting) : waiting[i].id = s
    \/ s \in DOMAIN manager /\ manager[s].gen

(* Every pushed-back extension eventually runs to COMPLETED and leaves     *)
(* the client: its GETs are answered and it is resumed each time.          *)
TasksDrain == \A s \in 0..MaxStamp : TaskLive(s) ~> ~TaskLive(s)

\* The middle samples of a sorted vector of n: as many below as above,
\* give or take one.
MiddleIndices(n) == {i \in 0..n - 1 : 2 * i + 2 \in {n, n + 1, n + 2}}

(* When the finished loop is dropped, the median Drop prints is taken from  *)
(* the middle samples of the sorted latency vector (and so from samples    *)
(* that exist: a read past the end panics).                                *)
DropMedianIsMiddle ==
    finished /\ latencies > 0 => MedianIndices(latencies) = MiddleIndices(latencies)

=============================================================================
