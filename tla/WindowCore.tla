----------------------------- MODULE WindowCore -----------------------------
(***************************************************************************)
(* What one core of the PUSHBACK client promises, seen only through its    *)
(* counters (src/splinter/src/bin/client/pushback.rs, PushbackRecvSend):   *)
(* requests are issued while fewer than W are outstanding, responses are   *)
(* counted until the stop stamp is taken, and the core declares itself     *)
(* finished only after that.                                               *)
(*                                                                         *)
(* The detailed module PushbackClient implements this specification        *)
(* (WindowRefinement), and PushbackCores composes one instance of it per   *)
(* core.  The bound on issuing is the one send() really enforces: the      *)
(* entry check `requests <= sent` is made once per call, so within one     *)
(* call sent - outstanding stays below Requests while sent itself may      *)
(* pass it.                                                                *)
(***************************************************************************)
EXTENDS Naturals

CONSTANTS W, Requests, Responses

VARIABLES
    sent,         \* self.sent
    recvd,        \* self.recvd
    outstanding,  \* self.outstanding
    stopped,      \* self.stop has been stamped with rdtsc()
    finished      \* self.finished

wvars == <<sent, recvd, outstanding, stopped, finished>>

\* PushbackRecvSend::new(): all counters zero, stop = 0.
Init ==
    /\ sent = 0
    /\ recvd = 0
    /\ outstanding = 0
    /\ stopped = FALSE
    /\ finished = FALSE

\* One iteration of the send loop of a call that passed the entry check.
Issue ==
    /\ outstanding < W
    /\ sent < Requests + outstanding
    /\ sent' = sent + 1
    /\ outstanding' = outstanding + 1
    /\ UNCHANGED <<recvd, stopped, finished>>

\* A terminal response (StatusOk, StatusPushback, or the last native get)
\* is counted; recv() only polls before its stop stamp is taken.
Complete ==
    /\ ~stopped
    /\ outstanding > 0
    /\ recvd' = recvd + 1
    /\ outstanding' = outstanding - 1
    /\ UNCHANGED <<sent, stopped, finished>>

\* The end of the recv() call in which recvd reached the target.
Stamp ==
    /\ ~stopped
    /\ Responses <= recvd
    /\ stopped' = TRUE
    /\ UNCHANGED <<sent, recvd, outstanding, finished>>

\* The entry check of the next recv() call.
Finish ==
    /\ stopped
    /\ ~finished
    /\ finished' = TRUE
    /\ UNCHANGED <<sent, recvd, outstanding, stopped>>

WNext == Issue \/ Complete \/ Stamp \/ Finish

Spec == Init /\ [][WNext]_wvars

-----------------------------------------------------------------------------
(* The promise: the window is never exceeded, one call of send() passes   *)
(* num_reqs by less than a window, the stop stamp is taken only once the   *)
(* target is met, and finished is set only after the stamp.                *)
WindowInv ==
    /\ outstanding <= W
    /\ sent < Requests + W
    /\ stopped => Responses <= recvd
    /\ finished => stopped

=============================================================================
