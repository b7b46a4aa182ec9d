----------------------------- MODULE KmodReopen -----------------------------
(***************************************************************************)
(* A device that is closed and opened again by a task that keeps other     *)
(* devices open: the consumer stays, ppm_open() resets the ring, and       *)
(* record_event_consumer() may be in the middle of an event meanwhile (it  *)
(* does not look at ring->open).  ppm_open() says why it leaves            *)
(* preempt_count alone then; this module checks that reasoning.            *)
(***************************************************************************)
EXTENDS KmodRing

CONSTANT MaxOpens   \* bound: times the device is opened again

VARIABLE opens      \* times it was

(* Mutant: preempt_count is reset with the rest. *)
GateAtOpenReset == 0
GateAtOpen == preempt_count

(* ppm_release, ppm_open (reset_ring_buffer) and a scap_device that starts *)
(* over.  The contexts inside record_event_consumer keep their locals, and *)
(* the buffer its bytes.                                                   *)
Reopen ==
    /\ opens < MaxOpens
    /\ opens' = opens + 1
    /\ head' = 0 /\ tail' = 0 /\ nevents' = 0
    /\ preempt_count' = GateAtOpen
    /\ n_evts' = 0 /\ n_preemptions' = 0 /\ n_drops_buffer' = 0 /\ n_drops_pf' = 0
    /\ n_skip' = 0
    /\ lastreadsize' = 0 /\ sn_next' = 0 /\ sn_len' = 0
    /\ cpc' = "next"
    /\ held' = NoEvent
    /\ rel' = 0 /\ lim' = 0 /\ rd' = 0
    /\ UNCHANGED <<buf, pc, h, t, sz, at, ln>>

ReopenInit == Init /\ opens = 0

(* Bound: libscap stops after MaxHits events, since what it reads in a     *)
(* reopened ring may have length 0 and never end.                          *)
ReopenNext ==
    \/ Reopen
    \/ (\E c \in Ctxs : Record(c)) /\ UNCHANGED opens
    \/ rd < MaxHits /\ RingbufferNext /\ UNCHANGED opens

ReopenSpec == ReopenInit /\ [][ReopenNext]_<<vars, opens>>

(* "if the same device is quickly closed and then reopened, record_event() *)
(* might still be executing (with ring->preempt_count to 1)" (ppm_open):   *)
(* the gate counts the contexts that are inside across any number of       *)
(* reopens, so that it opens again when they have left.                    *)
GateSurvivesReopen == GateExclusive
=============================================================================
