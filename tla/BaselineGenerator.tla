--------------------------- MODULE BaselineGenerator ---------------------------
(***************************************************************************)
(* The baseline open-loop request generator                                 *)
(* (src/db/src/bin/client/main.rs, RequestGenerator and main).             *)
(*                                                                         *)
(* main() initialises netbricks with one port whose mbuf pool holds        *)
(* pool_size buffers and whose transmit ring has txd descriptors, adds a   *)
(* RequestGenerator to the scheduler, and spins.  The scheduler calls      *)
(* execute() -> generate_request() for ever: allocate an mbuf and build a  *)
(* get() or invoke() request in it (panicking if the pool is empty), hand  *)
(* it to net_port.send(), and on Ok(sent) with sent < 1 print a warning    *)
(* and go on; on Err exit(1).  The NIC frees an mbuf once it has           *)
(* transmitted it.                                                         *)
(*                                                                         *)
(* Packet contents (headers, the fixed 30-byte key, length fields) are     *)
(* left out: they decide nothing here.  An mbuf is counted by where it is. *)
(* The NIC and the netbricks port live outside this repository: the ring   *)
(* accepts a frame when it has a free descriptor, and send() returns Ok(0) *)
(* when it has none.  Whether the port then frees the unsent frame is not  *)
(* settled by this repository (spec 6 only gives send() its signature):    *)
(* PortFreesUnsent chooses.  generate_request() itself never frees it.     *)
(*                                                                         *)
(* The pool also fills the port's receive descriptors when the port is    *)
(* started; this client never polls its receive queue, so those RxRing    *)
(* mbufs stay on the receive ring for good.  The mempool cache (64, at    *)
(* core 1) belongs to the one core that allocates and frees here, so the  *)
(* buffers it holds remain allocatable and are counted as free.          *)
(***************************************************************************)
EXTENDS Naturals

CONSTANTS
    Pool,            \* net_pool_size: mbufs in the pool (2047)
    RxRing,          \* net_port_rxd: receive descriptors (256)
    TxRing,          \* net_port_txd: transmit descriptors (256)
    SendErrors,      \* TRUE if net_port.send() may return Err
    PortFreesUnsent  \* TRUE if send() frees the frames it did not queue

ASSUME GeneratorAssumption ==
    /\ Pool \in Nat \ {0}
    /\ RxRing \in Nat
    /\ TxRing \in Nat \ {0}
    /\ RxRing + TxRing < Pool
    /\ SendErrors \in BOOLEAN
    /\ PortFreesUnsent \in BOOLEAN

VARIABLES
    pc,      \* "setup", "pipeline", "run", "exited" (exit(1)), "panicked"
    free,    \* mbufs in the pool
    ring,    \* mbufs queued on the transmit ring
    leaked   \* mbufs neither queued nor freed: unsent frames

vars == <<pc, free, ring, leaked>>

\* config_and_init_netbricks(): the port's pool is allocated, the receive
\* ring is filled from it, and the transmit ring is empty.
Init ==
    /\ pc = "setup"
    /\ free = Pool - RxRing
    /\ ring = 0
    /\ leaked = 0

(* main(): load the config, initialise netbricks (an error is exit(1)),   *)
(* start the scheduler, hand it the pipeline closure, execute(), spin.    *)
StartClient ==
    /\ pc = "setup"
    /\ pc' \in {"pipeline", "exited"}
    /\ UNCHANGED <<free, ring, leaked>>

(* setup_client(), run by the scheduler: more than one port, or a failing  *)
(* add_task(), is exit(1); otherwise the generator is scheduled.           *)
SetupClient ==
    /\ pc = "pipeline"
    /\ pc' \in {"run", "exited"}
    /\ UNCHANGED <<free, ring, leaked>>

\* create_request(): new_packet().expect(...) panics on an empty pool.
CreateRequest == free > 0

\* The frame send() did not queue: back to the pool, or lost for good.
Unsent ==
    IF PortFreesUnsent
      THEN free' = free /\ leaked' = leaked
      ELSE free' = free - 1 /\ leaked' = leaked + 1

\* Mutant: the full-ring test written `<=`.
GenerateRingOffByOne ==
    /\ pc = "run"
    /\ \/ /\ ~CreateRequest
          /\ pc' = "panicked"
          /\ UNCHANGED <<free, ring, leaked>>
       \/ /\ CreateRequest
          /\ \/ /\ ring <= TxRing
                /\ free' = free - 1
                /\ ring' = ring + 1
                /\ UNCHANGED <<pc, leaked>>
             \/ /\ ring = TxRing
                /\ Unsent
                /\ UNCHANGED <<pc, ring>>
             \/ /\ SendErrors
                /\ free' = free - 1
                /\ pc' = "exited"
                /\ leaked' = leaked + 1
                /\ UNCHANGED ring

(* generate_request(): build the request, send it, and on a partial send   *)
(* only print a warning: the mbuf of the frame that was not sent is not    *)
(* freed here.  requests_sent is a log counter and is left out.            *)
Generate ==
    /\ pc = "run"
    /\ \/ /\ ~CreateRequest
          /\ pc' = "panicked"
          /\ UNCHANGED <<free, ring, leaked>>
       \/ /\ CreateRequest
          /\ \/ /\ ring < TxRing                 \* Ok(1)
                /\ free' = free - 1
                /\ ring' = ring + 1
                /\ UNCHANGED <<pc, leaked>>
             \/ /\ ring = TxRing                 \* Ok(0): the warning
                /\ Unsent
                /\ UNCHANGED <<pc, ring>>
             \/ /\ SendErrors                    \* Err: exit(1)
                /\ free' = free - 1
                /\ pc' = "exited"
                /\ leaked' = leaked + 1
                /\ UNCHANGED ring

\* The NIC has transmitted the frame at the head of the ring and its driver
\* returns the mbuf to the pool.
Transmit ==
    /\ ring > 0
    /\ pc = "run"
    /\ ring' = ring - 1
    /\ free' = free + 1
    /\ UNCHANGED <<pc, leaked>>

Next == StartClient \/ SetupClient \/ Generate \/ Transmit

Spec == Init /\ [][Next]_vars

-----------------------------------------------------------------------------
(* Properties.                                                             *)

GeneratorTypeOK ==
    /\ pc \in {"setup", "pipeline", "run", "exited", "panicked"}
    /\ free \in 0..Pool - RxRing
    /\ ring \in 0..TxRing
    /\ leaked \in 0..Pool

(* The generator never dies of an empty pool: the frames the two rings    *)
(* hold are fewer than the pool, and a partial transmit is logged and the  *)
(* loop goes on (spec 7: "Partial transmit: log and continue"; an         *)
(* allocation failure "indicates pool exhaustion and a misconfigured      *)
(* NIC").                                                                  *)
NeverPanics == pc # "panicked"

=============================================================================
