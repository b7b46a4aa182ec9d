------------------------------- MODULE DevSet -------------------------------
(***************************************************************************)
(* The devices of a kernel module capture read as one stream: libscap's    *)
(* ringbuffer_next() over all of a scap_device_set (ringbuffer.h), and the *)
(* settings that throw away what was captured before them (scap_kmod.c).   *)
(*                                                                         *)
(* KmodRing shows for one ring that bytes are as good as a queue of whole  *)
(* events; here a ring is that queue, from tail to head, and sizes are     *)
(* numbers of events.  The drivers of the CPUs run in between any two      *)
(* accesses of libscap to a device.  The driver takes an event's timestamp *)
(* before it does anything else with it (record_event_all_consumers), and  *)
(* one CPU records one event at a time (the preemption gate).  How long    *)
(* refill_read_buffers sleeps is not modelled: it may take any time.       *)
(***************************************************************************)
EXTENDS Integers, FiniteSets, Sequences, Functions

CONSTANTS
    NDevs,      \* m_ndevs
    Cap,        \* events that fit in a ring
    MaxEvents,  \* bound: events the CPUs begin to record
    MaxFlushes  \* bound: calls of scap_set_snaplen and the like

ASSUME DevSetAssumption ==
    /\ NDevs \in Nat \ {0} /\ Cap \in Nat \ {0}
    /\ MaxEvents \in Nat /\ MaxFlushes \in Nat

Devs == 1 .. NDevs
Events == 1 .. MaxEvents

VARIABLES
    ring,            \* the events between tail and head of each device
    pc, ev,          \* each CPU's record_event_consumer, and its event
    begun,           \* events begun; an event's number is its timestamp
    snaplen, sl,     \* consumer->snaplen, and the one an event was cut to
    lastreadsize, sn_len,  \* scap_device fields, in events
    cpc, j,          \* "idle", "scan", "refill", "flush"; the device it is at
    pdevid,          \* the device with the lowest timestamp so far, or 0
    held,            \* *pevent until the next call, 0 for none
    dlv, flushed,    \* history: events handed out in order, thrown away
    published,       \* history: events published
    early,           \* history: those before the last refill began
    mark, stale      \* history: Len(dlv) and the rings at the last setting

driver == <<pc, ev, begun, sl, published>>
libscap == <<snaplen, lastreadsize, sn_len, cpc, j, pdevid, held, dlv, flushed,
             early, mark, stale>>
vars == <<ring, driver, libscap>>

-----------------------------------------------------------------------------
(* record_event_consumer on the CPU of device d *)

Begin(d) ==
    /\ pc[d] = "idle"
    /\ begun < MaxEvents
    /\ begun' = begun + 1
    /\ ev' = [ev EXCEPT ![d] = begun + 1]
    /\ pc' = [pc EXCEPT ![d] = "begun"]
    /\ UNCHANGED <<ring, sl, published, libscap>>

(* There is room: the filler cuts the data to the snaplen it reads now. *)
Fill(d) ==
    /\ pc[d] = "begun"
    /\ Len(ring[d]) < Cap
    /\ sl' = [sl EXCEPT ![ev[d]] = snaplen]
    /\ pc' = [pc EXCEPT ![d] = "filled"]
    /\ UNCHANGED <<ring, ev, begun, published, libscap>>

Drop(d) ==
    /\ pc[d] = "begun"
    /\ Len(ring[d]) = Cap
    /\ pc' = [pc EXCEPT ![d] = "idle"]
    /\ UNCHANGED <<ring, ev, begun, sl, published, libscap>>

Publish(d) ==
    /\ pc[d] = "filled"
    /\ ring' = [ring EXCEPT ![d] = Append(@, ev[d])]
    /\ published' = published \cup {ev[d]}
    /\ pc' = [pc EXCEPT ![d] = "idle"]
    /\ UNCHANGED <<ev, begun, sl, libscap>>

RecordEvent(d) == Begin(d) \/ Fill(d) \/ Drop(d) \/ Publish(d)

-----------------------------------------------------------------------------
(* ringbuffer_next *)

Call ==
    /\ cpc = "idle"
    /\ held' = 0
    /\ cpc' = "scan" /\ j' = 1 /\ pdevid' = 0
    /\ UNCHANGED <<ring, driver, snaplen, lastreadsize, sn_len, dlv, flushed, early,
                   mark, stale>>

(* NEXT_EVENT: m_sn_next_event is what is left of the block away from its  *)
(* end.                                                                    *)
NextEvent(d) == ring[d][lastreadsize[d] - sn_len[d] + 1]

(* Mutant: the size of the block is kept, and the tail moved by it again. *)
SizeAfterKept(d) == lastreadsize[d]
SizeAfter(d) == 0

(* ADVANCE_TAIL of an exhausted block. *)
Exhausted ==
    /\ cpc = "scan" /\ j <= NDevs
    /\ sn_len[j] = 0
    /\ ring' = [ring EXCEPT ![j] = SubSeq(@, lastreadsize[j] + 1, Len(@))]
    /\ lastreadsize' = [lastreadsize EXCEPT ![j] = SizeAfter(j)]
    /\ j' = j + 1
    /\ UNCHANGED <<driver, snaplen, sn_len, cpc, pdevid, held, dlv, flushed, early,
                   mark, stale>>

(* Mutant: the last device with a block wins. *)
LowerLast(d) == TRUE
Lower(d) == pdevid = 0 \/ NextEvent(d) < NextEvent(pdevid)

Compare ==
    /\ cpc = "scan" /\ j <= NDevs
    /\ sn_len[j] > 0
    /\ pdevid' = IF Lower(j) THEN j ELSE pdevid
    /\ j' = j + 1
    /\ UNCHANGED <<ring, driver, snaplen, lastreadsize, sn_len, cpc, held, dlv,
                   flushed, early, mark, stale>>

(* Mutant: the block is given back with its last event. *)
DeliverEager ==
    /\ cpc = "scan" /\ j > NDevs
    /\ pdevid # 0
    /\ held' = NextEvent(pdevid)
    /\ dlv' = Append(dlv, NextEvent(pdevid))
    /\ sn_len' = [sn_len EXCEPT ![pdevid] = @ - 1]
    /\ IF sn_len[pdevid] = 1
       THEN /\ ring' = [ring EXCEPT ![pdevid] = SubSeq(@, lastreadsize[pdevid] + 1, Len(@))]
            /\ lastreadsize' = [lastreadsize EXCEPT ![pdevid] = 0]
       ELSE UNCHANGED <<ring, lastreadsize>>
    /\ cpc' = "idle"
    /\ UNCHANGED <<driver, snaplen, j, pdevid, flushed, early, mark, stale>>

(* ADVANCE_TO_EVT, SCAP_SUCCESS. *)
Deliver ==
    /\ cpc = "scan" /\ j > NDevs
    /\ pdevid # 0
    /\ held' = NextEvent(pdevid)
    /\ dlv' = Append(dlv, NextEvent(pdevid))
    /\ sn_len' = [sn_len EXCEPT ![pdevid] = @ - 1]
    /\ cpc' = "idle"
    /\ UNCHANGED <<ring, driver, snaplen, lastreadsize, j, pdevid, flushed, early,
                   mark, stale>>

(* No block has an event left: refill_read_buffers. *)
Refill ==
    /\ cpc = "scan" /\ j > NDevs
    /\ pdevid = 0
    /\ early' = published
    /\ cpc' = "refill" /\ j' = 1
    /\ UNCHANGED <<ring, driver, snaplen, lastreadsize, sn_len, pdevid, held, dlv,
                   flushed, mark, stale>>

(* READBUF takes everything from tail to head. *)
ReadSize(d) == Len(ring[d])

(* Mutant: the last device is not read. *)
LastDeviceEarly == NDevs - 1
LastDevice == NDevs

Readbuf ==
    /\ cpc = "refill"
    /\ IF j <= LastDevice
       THEN /\ lastreadsize' = [lastreadsize EXCEPT ![j] = ReadSize(j)]
            /\ sn_len' = [sn_len EXCEPT ![j] = ReadSize(j)]
            /\ j' = j + 1
            /\ UNCHANGED cpc
       ELSE /\ cpc' = "idle"                      \* SCAP_TIMEOUT
            /\ UNCHANGED <<lastreadsize, sn_len, j>>
    /\ UNCHANGED <<ring, driver, snaplen, pdevid, held, dlv, flushed, early, mark, stale>>

RingbufferNext == Call \/ Exhausted \/ Compare \/ Deliver \/ Refill \/ Readbuf

-----------------------------------------------------------------------------
(* scap_kmod_set_snaplen, _set_fullcapture_port_range, _set_statsd_port *)

(* The ioctl. *)
SetSnaplen ==
    /\ cpc = "idle"
    /\ snaplen < MaxFlushes
    /\ snaplen' = snaplen + 1
    /\ mark' = Len(dlv)
    /\ stale' = UNION {Range(ring[d]) : d \in Devs}
    /\ cpc' = "flush" /\ j' = 1
    /\ UNCHANGED <<ring, driver, lastreadsize, sn_len, pdevid, held, dlv, flushed, early>>

(* Mutant: only the block libscap is in is thrown away. *)
FlushSizeBlock(d) == lastreadsize[d]
FlushSize(d) == ReadSize(d)

(* Mutant: the block is read anew and not thrown away. *)
FlushLeavesAll(d) == ReadSize(d)
FlushLeaves(d) == 0

(* READBUF, and m_sn_len = 0: the next call moves the tail over it all. *)
Flush ==
    /\ cpc = "flush"
    /\ IF j <= NDevs
       THEN /\ flushed' = flushed \cup Range(SubSeq(ring[j], lastreadsize[j] - sn_len[j] + 1,
                                                    FlushSize(j)))
            /\ lastreadsize' = [lastreadsize EXCEPT ![j] = FlushSize(j)]
            /\ sn_len' = [sn_len EXCEPT ![j] = FlushLeaves(j)]
            /\ j' = j + 1
            /\ UNCHANGED cpc
       ELSE /\ cpc' = "idle"
            /\ UNCHANGED <<lastreadsize, sn_len, j, flushed>>
    /\ UNCHANGED <<ring, driver, snaplen, pdevid, held, dlv, early, mark, stale>>

-----------------------------------------------------------------------------

(* Devices just opened. *)
Init ==
    /\ ring = [d \in Devs |-> <<>>]
    /\ pc = [d \in Devs |-> "idle"] /\ ev = [d \in Devs |-> 0]
    /\ begun = 0 /\ snaplen = 0 /\ sl = [e \in Events |-> 0]
    /\ lastreadsize = [d \in Devs |-> 0] /\ sn_len = [d \in Devs |-> 0]
    /\ cpc = "idle" /\ j = 1 /\ pdevid = 0 /\ held = 0
    /\ dlv = <<>> /\ flushed = {}
    /\ published = {} /\ early = {}
    /\ mark = 0 /\ stale = {}

Next == (\E d \in Devs : RecordEvent(d)) \/ RingbufferNext \/ SetSnaplen \/ Flush

Spec == Init /\ [][Next]_vars

(* A CPU finishes the event it began, a setting is completed, and the      *)
(* capture loop keeps calling scap_next().                                 *)
FairSpec ==
    /\ Spec
    /\ \A d \in Devs : WF_vars(pc[d] # "idle" /\ RecordEvent(d))
    /\ WF_vars(RingbufferNext) /\ WF_vars(Flush)

-----------------------------------------------------------------------------

(* Types are kept; a block never extends past what was published, and what *)
(* is left of it never past its end.                                       *)
TypeOK ==
    /\ ring \in [Devs -> Seq(Events)] /\ \A d \in Devs : Len(ring[d]) <= Cap
    /\ pc \in [Devs -> {"idle", "begun", "filled"}] /\ ev \in [Devs -> 0 .. MaxEvents]
    /\ begun \in 0 .. MaxEvents /\ snaplen \in 0 .. MaxFlushes
    /\ \A d \in Devs : /\ sn_len[d] \in 0 .. lastreadsize[d]
                       /\ lastreadsize[d] \in 0 .. Len(ring[d])
    /\ cpc \in {"idle", "scan", "refill", "flush"} /\ j \in 1 .. NDevs + 1
    /\ pdevid \in 0 .. NDevs /\ held \in 0 .. MaxEvents

(* The event handed out stays in its ring until the next call, also across *)
(* a setting: only ringbuffer_next moves a tail.                           *)
HeldStays == held # 0 => \E d \in Devs : held \in Range(ring[d])

(* No event is lost or repeated on the way from the rings to the caller: a *)
(* tail moves only over events that were handed out or thrown away by a    *)
(* setting, never both, and none is handed out twice.                      *)
ExactlyOnce ==
    /\ \A e \in published :
          \/ \E d \in Devs : e \in Range(ring[d])
          \/ e \in Range(dlv) \cup flushed
    /\ Range(dlv) \cap flushed = {}
    /\ Cardinality(Range(dlv)) = Len(dlv)

(* "Consume from all these blocks the event with the lowest timestamp"     *)
(* (ringbuffer_next): an event that was published before the round began   *)
(* is not overtaken by one with a higher timestamp.                        *)
NoOvertaking ==
    held # 0 => \A e \in early \ (Range(dlv) \cup flushed) : held < e

(* A setting throws away all that was published before it.                 *)
NoStaleEvents ==
    cpc # "flush" => \A i \in mark + 1 .. Len(dlv) : dlv[i] \notin stale

(* "Force a flush of the read buffers, so we don't capture events with the *)
(* old snaplen" (scap_kmod_set_snaplen): an event handed out after the     *)
(* flush was cut to the new snaplen.                                       *)
NoOldSnaplen ==
    cpc # "flush" => \A i \in mark + 1 .. Len(dlv) : sl[dlv[i]] = snaplen

(* A published event is handed out or thrown away by a setting: no device  *)
(* waits forever for the blocks of the others.  (Events are bounded, so    *)
(* that each one is handled if again and again none is left to handle.)    *)
EveryPublishedHandled == []<>(published \subseteq Range(dlv) \cup flushed)
=============================================================================
