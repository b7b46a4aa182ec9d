---------------------------- MODULE EventChannel ----------------------------
(***************************************************************************)
(* What one ring promises to the capture process: a lossy channel.  Events *)
(* are numbered in the order the driver accepts them; the process gets     *)
(* event 1, 2, 3, ... with none repeated, none out of order, none before   *)
(* it was accepted, and holds at most one at a time.                       *)
(***************************************************************************)
EXTENDS Naturals

VARIABLES
    accepted,   \* events accepted so far
    delivered,  \* events delivered so far
    out         \* the event the process holds, 0 for none

chvars == <<accepted, delivered, out>>

ChInit == accepted = 0 /\ delivered = 0 /\ out = 0

Accept ==
    /\ accepted' = accepted + 1
    /\ UNCHANGED <<delivered, out>>

Deliver ==
    /\ delivered < accepted
    /\ delivered' = delivered + 1
    /\ out' = delivered + 1
    /\ UNCHANGED accepted

Release ==
    /\ out' = 0
    /\ UNCHANGED <<accepted, delivered>>

ChNext == Accept \/ Deliver \/ Release

ChSpec == ChInit /\ [][ChNext]_chvars
=============================================================================
