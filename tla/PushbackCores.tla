---------------------------- MODULE PushbackCores ----------------------------
(***************************************************************************)
(* The multi-core PUSHBACK client and its shutdown                         *)
(* (src/splinter/src/bin/client/pushback.rs: main, setup_send_recv,        *)
(* Executable::execute, Drop, and the flag `static mut FINISHED`).         *)
(*                                                                         *)
(* main() adds one PushbackRecvSend pipeline per core, starts the          *)
(* schedulers, then polls FINISHED every two seconds; the first core whose *)
(* recv() has set its own `finished` writes FINISHED = true at the end of  *)
(* execute().  main() then calls net_context.stop(): every scheduler stops *)
(* after its current execute() and drops its pipeline, which runs Drop     *)
(* and prints the throughput recvd / (stop - start).                       *)
(*                                                                         *)
(* Each core is the abstract core of WindowCore, which PushbackClient is   *)
(* shown to implement (WindowRefinement); its four steps are lifted here   *)
(* to one core of the family.  The netbricks scheduler is outside this     *)
(* repository: stop() is modelled as letting each core finish its         *)
(* current execute() and then dropping it.                                 *)
(***************************************************************************)
EXTENDS Naturals

CONSTANTS
    Cores,      \* the cores running a pipeline (eight in main())
    W,          \* the outstanding window
    Requests,   \* config.num_reqs, per core
    Responses   \* the responses target per core (34 * 1000 * 1000)

ASSUME CoresAssumption ==
    /\ Cores # {}
    /\ W \in Nat \ {0}
    /\ Requests \in Nat
    /\ Responses \in Nat \ {0}

VARIABLES
    sent, recvd, outstanding,  \* per core: the counters of PushbackRecvSend
    stopped,                   \* per core: self.stop has been stamped
    finished,                  \* per core: self.finished
    FINISHED,                  \* the shared static flag
    mainPc,                    \* where main() is
    running                    \* per core: its pipeline is still scheduled

vars == <<sent, recvd, outstanding, stopped, finished, FINISHED, mainPc,
          running>>

MainPCs == {"setup", "poll", "stopping", "done"}

Init ==
    /\ sent = [c \in Cores |-> 0]
    /\ recvd = [c \in Cores |-> 0]
    /\ outstanding = [c \in Cores |-> 0]
    /\ stopped = [c \in Cores |-> FALSE]
    /\ finished = [c \in Cores |-> FALSE]
    /\ FINISHED = FALSE
    /\ mainPc = "setup"
    /\ running = [c \in Cores |-> TRUE]

\* Core c is being scheduled: main() has started the schedulers and its
\* scheduler has not stopped yet.
Scheduled(c) == mainPc \in {"poll", "stopping"} /\ running[c]

-----------------------------------------------------------------------------
(* The steps of one core's execute(): those of WindowCore, lifted to     *)
(* core c.                                                               *)

\* Mutant: the window test written `<=`.
IssueWindowOffByOne(c) ==
    /\ Scheduled(c)
    /\ outstanding[c] <= W
    /\ sent[c] < Requests + outstanding[c]
    /\ sent' = [sent EXCEPT ![c] = @ + 1]
    /\ outstanding' = [outstanding EXCEPT ![c] = @ + 1]
    /\ UNCHANGED <<recvd, stopped, finished, FINISHED, mainPc, running>>

Issue(c) ==
    /\ Scheduled(c)
    /\ outstanding[c] < W
    /\ sent[c] < Requests + outstanding[c]
    /\ sent' = [sent EXCEPT ![c] = @ + 1]
    /\ outstanding' = [outstanding EXCEPT ![c] = @ + 1]
    /\ UNCHANGED <<recvd, stopped, finished, FINISHED, mainPc, running>>

Complete(c) ==
    /\ Scheduled(c)
    /\ ~stopped[c]
    /\ outstanding[c] > 0
    /\ recvd' = [recvd EXCEPT ![c] = @ + 1]
    /\ outstanding' = [outstanding EXCEPT ![c] = @ - 1]
    /\ UNCHANGED <<sent, stopped, finished, FINISHED, mainPc, running>>

Stamp(c) ==
    /\ Scheduled(c)
    /\ ~stopped[c]
    /\ Responses <= recvd[c]
    /\ stopped' = [stopped EXCEPT ![c] = TRUE]
    /\ UNCHANGED <<sent, recvd, outstanding, finished, FINISHED, mainPc,
                   running>>

\* Mutant: the test of self.finished before the store is dropped.
FinishAnyCore(c) ==
    /\ Scheduled(c)
    /\ FINISHED' = TRUE
    /\ UNCHANGED <<sent, recvd, outstanding, stopped, finished, mainPc, running>>

(* recv() sets self.finished at its entry check, and the same execute()    *)
(* then writes FINISHED = true (pushback.rs:613-616).                      *)
Finish(c) ==
    /\ Scheduled(c)
    /\ stopped[c]
    /\ ~finished[c]
    /\ finished' = [finished EXCEPT ![c] = TRUE]
    /\ FINISHED' = TRUE
    /\ UNCHANGED <<sent, recvd, outstanding, stopped, mainPc, running>>

-----------------------------------------------------------------------------
(* main().                                                                 *)

\* Load the config, populate the tenants, initialise netbricks, start the
\* schedulers, add one pipeline per core (setup_send_recv), sleep, and
\* net_context.execute().
Launch ==
    /\ mainPc = "setup"
    /\ mainPc' = "poll"
    /\ UNCHANGED <<sent, recvd, outstanding, stopped, finished, FINISHED,
                   running>>

\* Mutant: the loaded value of FINISHED is kept in a register across the
\* loop, so main() only ever sees the value it had when the loop began.
PollHoisted ==
    /\ mainPc = "poll"
    /\ FALSE
    /\ mainPc' = "stopping"
    /\ UNCHANGED <<sent, recvd, outstanding, stopped, finished, FINISHED,
                   running>>

(* `while !FINISHED { sleep(2s) }`: an iteration that reads false is a     *)
(* stutter; a read racing the cores' store may still return false, which  *)
(* is again a stutter.  The loop is left by a read that returns true.      *)
Poll ==
    /\ mainPc = "poll"
    /\ FINISHED
    /\ mainPc' = "stopping"
    /\ UNCHANGED <<sent, recvd, outstanding, stopped, finished, FINISHED,
                   running>>

(* net_context.stop(): the scheduler of core c stops between two calls of  *)
(* execute() (after the stop stamp of a recv() that reached the target)    *)
(* and drops the pipeline, which runs Drop.                                *)
Halt(c) ==
    /\ mainPc = "stopping"
    /\ running[c]
    /\ Responses <= recvd[c] => stopped[c]
    /\ running' = [running EXCEPT ![c] = FALSE]
    /\ UNCHANGED <<sent, recvd, outstanding, stopped, finished, FINISHED,
                   mainPc>>

\* stop() has joined every scheduler thread; main() returns.
Exit ==
    /\ mainPc = "stopping"
    /\ \A c \in Cores : ~running[c]
    /\ mainPc' = "done"
    /\ UNCHANGED <<sent, recvd, outstanding, stopped, finished, FINISHED,
                   running>>

CoreStep(c) == Issue(c) \/ Complete(c) \/ Stamp(c) \/ Finish(c)

Next ==
    \/ \E c \in Cores : CoreStep(c) \/ Halt(c)
    \/ Launch \/ Poll \/ Exit

(* Each scheduler calls execute() for ever and the server answers every    *)
(* request (the abstract Complete); main() re-reads FINISHED every two     *)
(* seconds, and the store of one core becomes visible to it (x86 is cache  *)
(* coherent and the load is redone after every call of sleep()); stop()    *)
(* reaches every scheduler.                                                *)
Fairness ==
    /\ \A c \in Cores : WF_vars(CoreStep(c)) /\ WF_vars(Halt(c))
    /\ WF_vars(Launch) /\ WF_vars(Poll) /\ WF_vars(Exit)

Spec == Init /\ [][Next]_vars

FairSpec == Spec /\ Fairness

-----------------------------------------------------------------------------
(* Properties.                                                             *)

CoresTypeOK ==
    /\ sent \in [Cores -> Nat]
    /\ recvd \in [Cores -> Nat]
    /\ outstanding \in [Cores -> 0..W]
    /\ stopped \in [Cores -> BOOLEAN]
    /\ finished \in [Cores -> BOOLEAN]
    /\ FINISHED \in BOOLEAN
    /\ mainPc \in MainPCs
    /\ running \in [Cores -> BOOLEAN]

\* main() has called net_context.stop().
ShuttingDown == mainPc \in {"stopping", "done"}

(* The client is shut down only after some core has counted its whole     *)
(* target of responses and stamped its stop time: FINISHED, written by the *)
(* cores and read by main(), is set only by a core whose recv() finished.  *)
ShutdownAfterTarget ==
    ShuttingDown => \E c \in Cores : stopped[c] /\ Responses <= recvd[c]

(* The process ends: some core reaches its target, main() sees FINISHED,  *)
(* and stop() halts every core.                                            *)
Termination == <>(mainPc = "done")

(* Every pipeline dropped by stop() has stamped its stop time, so the      *)
(* throughput Drop prints divides by stop - start of this core (spec 6:    *)
(* "summary line emits throughput").                                       *)
DropStopStamped ==
    \A c \in Cores : ShuttingDown /\ ~running[c] => stopped[c]

=============================================================================
