----------------------------- MODULE ModernRing -----------------------------
(***************************************************************************)
(* The ring buffers of the modern BPF probe and their one reader,          *)
(* pman_consume_first_event() (userspace/libpman/src/ringbuffer.c).        *)
(*                                                                         *)
(*   - A BPF program either reserves a record, stamps it and submits it    *)
(*     (ringbuf_store_params.h) or stamps the event in a scratch map and   *)
(*     copies it into a record at the end (auxmap_store_params.h).  The    *)
(*     CPUs of a group share a ring, so that records of several programs   *)
(*     are under way in it at once.                                        *)
(*   - libpman looks at the first record of every ring, hands out the one  *)
(*     with the lowest timestamp, and moves its consumer position at the   *)
(*     next call.                                                          *)
(*                                                                         *)
(* Reserve, commit and discard are the kernel's BPF ring buffer, modelled  *)
(* from how libpman reads it: positions only grow, a record starts with a  *)
(* header that says "busy" until it is committed or discarded, and the     *)
(* position pos lives in the cell pos % Size.  A record is written in one  *)
(* step when it is reserved; its busy flag is what the reader goes by.     *)
(***************************************************************************)
EXTENDS Integers, FiniteSets, Sequences, Functions

CONSTANTS
    NCpus,        \* CPUs
    CpusPerRing,  \* cpus_for_each_buffer
    Size,         \* cells of a ring
    Lens,         \* the lengths of records
    Discards,     \* records may be discarded (no program of the driver does)
    MaxEvents     \* bound: events the programs may see

ASSUME ModernAssumption ==
    /\ NCpus \in Nat \ {0} /\ CpusPerRing \in 1 .. NCpus
    /\ Size \in Nat \ {0} /\ Lens \subseteq 1 .. Size
    /\ Discards \in BOOLEAN /\ MaxEvents \in Nat

Cpus == 0 .. NCpus - 1
NRings == (NCpus + CpusPerRing - 1) \div CpusPerRing   \* n_required_buffers
Rings == 0 .. NRings - 1
Events == 1 .. MaxEvents   \* numbered as their records are reserved
None == -1

(* Consecutive CPUs are given the same ring. *)
RingOf(c) == c \div CpusPerRing

VARIABLES
    data,             \* cells: the event, and the offset in its record
    producer_pos, consumer_pos,
    st, len, ts,      \* header of an event: state, length, timestamp
    now,              \* bpf_ktime_get_boot_ns
    nres,             \* records reserved so far
    pc, ev, stamp,    \* a CPU's program: its record, its timestamp or 0
    n_evts, n_drops_buffer, n_drops_max_event_size,   \* sums over the CPUs
    cons_pos, prod_pos, last_ring_read, last_event_size,   \* g_state
    cpc, pos,         \* the call under way: "push", "scan", "return"; ring
    tmp,              \* tmp_ring, tmp_pointer, tmp_cons_increment
    held,             \* *event_ptr: the event handed out, or 0
    home, start,      \* history: the ring and the position of an event's record
    dlv,              \* history: the events of a ring as delivered
    ready, front      \* history: what was committed and not delivered as the
                      \* call began, and which of it came first in its ring

kernel == <<data, producer_pos, st, len, ts, now, nres, pc, ev, stamp,
            n_evts, n_drops_buffer, n_drops_max_event_size, home, start>>
reader == <<consumer_pos, cons_pos, prod_pos, last_ring_read, last_event_size,
            cpc, pos, tmp, held, dlv, ready, front>>
vars == <<kernel, reader>>

NoTmp == [ring |-> None, ev |-> 0, inc |-> 0]

-----------------------------------------------------------------------------
(* A BPF program on CPU c *)

(* Bound: the events seen, or about to be counted as seen. *)
MayBegin(c) ==
    pc[c] = "idle" => n_evts + Cardinality({d \in Cpus : pc[d] = "aux"}) < MaxEvents

(* The timestamp is taken before the record is reserved (auxmap) or after  *)
(* it (ringbuf).                                                           *)
Stamp(c) ==
    /\ stamp[c] = 0
    /\ MayBegin(c)
    /\ now' = now + 1
    /\ stamp' = [stamp EXCEPT ![c] = now + 1]
    /\ pc' = [pc EXCEPT ![c] = IF @ = "idle" THEN "aux" ELSE @]
    /\ UNCHANGED <<data, producer_pos, st, len, ts, nres, ev, n_evts,
                   n_drops_buffer, n_drops_max_event_size, home, start, reader>>

(* bpf_ringbuf_reserve keeps one cell free. *)
Fits(r, n) == producer_pos[r] + n - consumer_pos[r] < Size

(* The cell of a position. *)
Cell(p) == p % Size

(* The cells of ring r with event e in a new record of length n. *)
Written(r, e, n) ==
    [a \in 0 .. Size - 1 |->
       IF \E k \in 0 .. n - 1 : a = Cell(producer_pos[r] + k)
       THEN [ev |-> e, off |-> CHOOSE k \in 0 .. n - 1 : a = Cell(producer_pos[r] + k)]
       ELSE data[r][a]]

Reserve(c) ==
    /\ pc[c] \in {"idle", "aux"}
    /\ MayBegin(c)
    /\ n_evts' = n_evts + 1
    /\ nres' = nres + 1
    /\ LET r == RingOf(c) IN
       /\ \E n \in Lens :
             /\ Fits(r, n)
             /\ data' = [data EXCEPT ![r] = Written(r, nres + 1, n)]
             /\ producer_pos' = [producer_pos EXCEPT ![r] = @ + n]
             /\ len' = [len EXCEPT ![nres + 1] = n]
       /\ home' = [home EXCEPT ![nres + 1] = r]
       /\ start' = [start EXCEPT ![nres + 1] = producer_pos[r]]
    /\ st' = [st EXCEPT ![nres + 1] = "busy"]
    /\ ev' = [ev EXCEPT ![c] = nres + 1]
    /\ pc' = [pc EXCEPT ![c] = "reserved"]
    /\ UNCHANGED <<ts, now, stamp, n_drops_buffer, n_drops_max_event_size, reader>>

(* Mutant: the drop is not counted. *)
NoSpaceUncounted(c) ==
    /\ pc[c] \in {"idle", "aux"}
    /\ MayBegin(c)
    /\ \E n \in Lens : ~ Fits(RingOf(c), n)
    /\ n_evts' = n_evts + 1
    /\ pc' = [pc EXCEPT ![c] = "idle"]
    /\ stamp' = [stamp EXCEPT ![c] = 0]
    /\ UNCHANGED <<data, producer_pos, st, len, ts, now, nres, ev, n_drops_buffer,
                   n_drops_max_event_size, home, start, reader>>

(* No space: the event is counted and dropped. *)
NoSpace(c) ==
    /\ pc[c] \in {"idle", "aux"}
    /\ MayBegin(c)
    /\ \E n \in Lens : ~ Fits(RingOf(c), n)
    /\ n_evts' = n_evts + 1
    /\ n_drops_buffer' = n_drops_buffer + 1
    /\ pc' = [pc EXCEPT ![c] = "idle"]
    /\ stamp' = [stamp EXCEPT ![c] = 0]
    /\ UNCHANGED <<data, producer_pos, st, len, ts, now, nres, ev,
                   n_drops_max_event_size, home, start, reader>>

(* auxmap__submit_event: the event is longer than MAX_EVENT_SIZE. *)
TooLong(c) ==
    /\ pc[c] = "aux"
    /\ n_evts' = n_evts + 1
    /\ n_drops_max_event_size' = n_drops_max_event_size + 1
    /\ pc' = [pc EXCEPT ![c] = "idle"]
    /\ stamp' = [stamp EXCEPT ![c] = 0]
    /\ UNCHANGED <<data, producer_pos, st, len, ts, now, nres, ev, n_drops_buffer,
                   home, start, reader>>

(* The record is committed, or discarded. *)
Submit(c) ==
    /\ pc[c] = "reserved"
    /\ stamp[c] # 0
    /\ ts' = [ts EXCEPT ![ev[c]] = stamp[c]]
    /\ \E s \in {"committed"} \cup (IF Discards THEN {"discarded"} ELSE {}) :
          st' = [st EXCEPT ![ev[c]] = s]
    /\ pc' = [pc EXCEPT ![c] = "idle"]
    /\ stamp' = [stamp EXCEPT ![c] = 0] /\ ev' = [ev EXCEPT ![c] = 0]
    /\ UNCHANGED <<data, producer_pos, len, now, nres, n_evts, n_drops_buffer,
                   n_drops_max_event_size, home, start, reader>>

Program(c) == Stamp(c) \/ Reserve(c) \/ NoSpace(c) \/ TooLong(c) \/ Submit(c)

-----------------------------------------------------------------------------
(* ringbuf__consume_first_event *)

(* The event handed out by the last call is given back. *)
Push ==
    /\ cpc = "push"
    /\ IF last_ring_read # None
       THEN LET to == cons_pos[last_ring_read] + last_event_size IN
            /\ cons_pos' = [cons_pos EXCEPT ![last_ring_read] = to]
            /\ consumer_pos' = [consumer_pos EXCEPT ![last_ring_read] = to]
       ELSE UNCHANGED <<cons_pos, consumer_pos>>
    /\ held' = 0
    /\ ready' = {e \in Events : st[e] = "committed"} \ UNION {Range(dlv[r]) : r \in Rings}
    /\ front' = {e \in ready' : \E r \in Rings : e = data[r][Cell(cons_pos'[r])].ev}
    /\ cpc' = "scan" /\ pos' = 0 /\ tmp' = NoTmp
    /\ UNCHANGED <<prod_pos, last_ring_read, last_event_size, dlv, kernel>>

(* The reader loads the producer's position when it has reached the old one. *)
Producer(r) == IF cons_pos[r] = prod_pos[r] THEN producer_pos[r] ELSE prod_pos[r]

(* The event whose header is at the reader's position. *)
First(r) == data[r][Cell(cons_pos[r])].ev

(* Mutant: the last ring with an event wins. *)
LowerLast(e) == TRUE
Lower(e) == tmp.ev = 0 \/ ts[e] < ts[tmp.ev]

(* Mutant: the reader stays at a discarded record. *)
AfterDiscardedStay(r) == cons_pos[r]
AfterDiscarded(r) == cons_pos[r] + len[First(r)]

(* ringbuf__get_first_ring_event of ring pos, and the comparison. *)
Scan ==
    /\ cpc = "scan"
    /\ pos < NRings
    /\ prod_pos' = [prod_pos EXCEPT ![pos] = Producer(pos)]
    /\ LET e == First(pos) IN
       CASE cons_pos[pos] = prod_pos'[pos] \/ st[e] = "busy" ->
               UNCHANGED <<cons_pos, consumer_pos, last_event_size, tmp>>
         [] cons_pos[pos] # prod_pos'[pos] /\ st[e] = "committed" ->
               /\ last_event_size' = len[e]
               /\ tmp' = IF Lower(e) THEN [ring |-> pos, ev |-> e, inc |-> len[e]]
                                     ELSE tmp
               /\ UNCHANGED <<cons_pos, consumer_pos>>
         [] OTHER ->
               /\ cons_pos' = [cons_pos EXCEPT ![pos] = AfterDiscarded(pos)]
               /\ consumer_pos' = [consumer_pos EXCEPT ![pos] = cons_pos'[pos]]
               /\ UNCHANGED <<last_event_size, tmp>>
    /\ pos' = pos + 1
    /\ UNCHANGED <<last_ring_read, cpc, held, dlv, ready, front, kernel>>

(* Mutant: the reader moves by the size it looked at last. *)
IncrementLast == last_event_size
(* Mutant: the size is reset with the pointer before it is kept. *)
IncrementReset == 0
Increment == tmp.inc

(* Mutant: the record goes back to the kernel with the event still in use. *)
FreedEagerly ==
    IF tmp.ring = None THEN consumer_pos
    ELSE [consumer_pos EXCEPT ![tmp.ring] = @ + tmp.inc]
FreedOnReturn == consumer_pos

Return ==
    /\ cpc = "scan"
    /\ pos = NRings
    /\ held' = tmp.ev
    /\ last_ring_read' = tmp.ring
    /\ last_event_size' = Increment
    /\ dlv' = IF tmp.ev = 0 THEN dlv ELSE [dlv EXCEPT ![tmp.ring] = Append(@, tmp.ev)]
    /\ consumer_pos' = FreedOnReturn
    /\ cpc' = "push" /\ pos' = 0 /\ tmp' = NoTmp
    /\ UNCHANGED <<cons_pos, prod_pos, ready, front, kernel>>

ConsumeFirstEvent == Push \/ Scan \/ Return

-----------------------------------------------------------------------------

Init ==
    /\ data = [r \in Rings |-> [a \in 0 .. Size - 1 |-> [ev |-> 0, off |-> 0]]]
    /\ producer_pos = [r \in Rings |-> 0] /\ consumer_pos = [r \in Rings |-> 0]
    /\ st = [e \in Events |-> "none"] /\ len = [e \in Events |-> 0]
    /\ ts = [e \in Events |-> 0]
    /\ now = 0 /\ nres = 0
    /\ pc = [c \in Cpus |-> "idle"] /\ ev = [c \in Cpus |-> 0]
    /\ stamp = [c \in Cpus |-> 0]
    /\ n_evts = 0 /\ n_drops_buffer = 0 /\ n_drops_max_event_size = 0
    /\ cons_pos = [r \in Rings |-> 0] /\ prod_pos = [r \in Rings |-> 0]
    /\ last_ring_read = None /\ last_event_size = 0
    /\ cpc = "push" /\ pos = 0 /\ tmp = NoTmp /\ held = 0
    /\ home = [e \in Events |-> None] /\ start = [e \in Events |-> 0]
    /\ dlv = [r \in Rings |-> <<>>]
    /\ ready = {} /\ front = {}

Next == (\E c \in Cpus : Program(c)) \/ ConsumeFirstEvent

Spec == Init /\ [][Next]_vars

(* A BPF program runs to its end, and the capture loop keeps calling       *)
(* scap_next().                                                            *)
FairSpec ==
    /\ Spec
    /\ \A c \in Cpus : WF_vars(pc[c] # "idle" /\ Program(c))
    /\ WF_vars(ConsumeFirstEvent)

-----------------------------------------------------------------------------

(* Types are kept, and the reader's position, its copy of the producer's   *)
(* position and the producer's position stay in this order.                *)
TypeOK ==
    /\ \A r \in Rings :
          /\ data[r] \in [0 .. Size - 1 -> [ev : 0 .. MaxEvents, off : 0 .. Size - 1]]
          /\ consumer_pos[r] \in Nat /\ cons_pos[r] \in Nat
          /\ cons_pos[r] <= prod_pos[r] /\ prod_pos[r] <= producer_pos[r]
          /\ producer_pos[r] - consumer_pos[r] < Size
    /\ st \in [Events -> {"none", "busy", "committed", "discarded"}]
    /\ len \in [Events -> {0} \cup Lens] /\ ts \in [Events -> 0 .. now]
    /\ now \in Nat /\ nres \in 0 .. MaxEvents
    /\ pc \in [Cpus -> {"idle", "aux", "reserved"}]
    /\ ev \in [Cpus -> 0 .. MaxEvents] /\ stamp \in [Cpus -> 0 .. now]
    /\ last_ring_read \in Rings \cup {None} /\ held \in 0 .. MaxEvents

(* The event handed out stays intact until the next call: its record is    *)
(* not given back to the kernel before.                                    *)
HeldIntact ==
    held # 0 => /\ st[held] = "committed"
                /\ \A k \in 0 .. len[held] - 1 :
                      data[last_ring_read][Cell(cons_pos[last_ring_read] + k)]
                         = [ev |-> held, off |-> k]

(* Each ring is read in the order its records were reserved, every         *)
(* committed event once and no discarded one, whatever the sizes of the    *)
(* records and wherever a call finds nothing.                              *)
InOrder ==
    \A r \in Rings :
       /\ \A i, k \in 1 .. Len(dlv[r]) : i < k => dlv[r][i] < dlv[r][k]
       /\ \A e \in Range(dlv[r]) :
             /\ home[e] = r /\ st[e] = "committed"
             /\ \A f \in 1 .. e - 1 :
                   home[f] = r => f \in Range(dlv[r]) \/ st[f] = "discarded"

(* Every event counted in n_evts has a record or is counted as dropped.    *)
Accounting == n_evts = nres + n_drops_buffer + n_drops_max_event_size

(* The event handed out is the lowest of those that were first in their    *)
(* rings and committed when the call began, however the sizes differ and   *)
(* whatever is committed meanwhile.                                        *)
LowestFront ==
    held # 0 => \A e \in front : ts[held] <= ts[e]

(* "Search for the event with the lowest timestamp in all the ring         *)
(* buffers" (libpman.h): an event that was committed when the call began   *)
(* is not left behind for one with a higher timestamp.                     *)
LowestFirst ==
    held # 0 => \A e \in ready : ts[held] <= ts[e]

(* A committed event is delivered: a record that is busy or discarded      *)
(* holds a ring up only for a while.  (Events are bounded, so that each    *)
(* one is delivered if again and again none is left to deliver.)           *)
EveryCommittedDelivered ==
    []<>(\A e \in Events : st[e] = "committed" => \E r \in Rings : e \in Range(dlv[r]))
=============================================================================
