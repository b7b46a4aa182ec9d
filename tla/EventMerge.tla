----------------------------- MODULE EventMerge -----------------------------
(***************************************************************************)
(* What sinsp::next promises about the two streams it merges: the events   *)
(* libscap hands out, one at a time, and the asynchronous events that      *)
(* other threads inject.  As long as every injected event has a timestamp, *)
(* the next event is always the one that comes first: the injected event   *)
(* with the lowest timestamp (of two equal ones, the one injected first)   *)
(* unless the event of libscap is strictly earlier.  An injected event     *)
(* without a timestamp suspends the order until none is pending.           *)
(***************************************************************************)
EXTENDS Naturals

CONSTANT NoTs   \* the timestamp of an event that has none

VARIABLES
    pending,  \* the injected events: records [num, ts], num the order of injection
    scap,     \* the timestamp of the event libscap handed out, 0 for none
    mixed     \* an event without a timestamp was injected since pending was last empty

mgvars == <<pending, scap, mixed>>

First(e) ==
    \A f \in pending \ {e} : e.ts < f.ts \/ (e.ts = f.ts /\ e.num < f.num)

MgInit == pending = {} /\ scap = 0 /\ mixed = FALSE

Inject ==
    /\ pending \subseteq pending'
    /\ \E e \in pending' \ pending :
          /\ pending' = pending \cup {e}
          /\ \A f \in pending : f.num < e.num
          /\ mixed' = (mixed \/ e.ts = NoTs)
    /\ UNCHANGED scap

Fetch ==
    /\ scap = 0 /\ scap' # 0
    /\ UNCHANGED <<pending, mixed>>

DeliverAsync ==
    /\ \E e \in pending :
          /\ pending' = pending \ {e}
          /\ mixed \/ First(e)
          /\ scap # 0 /\ e.ts # NoTs => e.ts <= scap
    /\ mixed' = (mixed /\ pending' # {})
    /\ UNCHANGED scap

DeliverScap ==
    /\ scap # 0 /\ scap' = 0
    /\ mixed \/ \A e \in pending : scap < e.ts
    /\ UNCHANGED <<pending, mixed>>

MgNext == Inject \/ Fetch \/ DeliverAsync \/ DeliverScap

MgSpec == MgInit /\ [][MgNext]_mgvars
=============================================================================
