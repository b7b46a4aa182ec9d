------------------------------ MODULE KmodRing ------------------------------
(***************************************************************************)
(* One per-CPU ring buffer of the kernel module, between two ends that     *)
(* share nothing but memory:                                               *)
(*                                                                         *)
(*   - record_event_consumer() (driver/main.c) runs on the ring's CPU, in  *)
(*     task context and in the contexts that interrupt it (a page fault    *)
(*     taken inside a filler, for one).  It passes the preemption gate,    *)
(*     reads head and tail, fills the event in place, copies what spilled  *)
(*     into the cushion to the start of the buffer, publishes the new head *)
(*     and leaves the gate.                                                *)
(*   - libscap's ringbuffer.h runs in the capture process on any CPU.  It  *)
(*     takes a block (READBUF), walks its events and gives the block back  *)
(*     (ADVANCE_TAIL) on the first call that finds it exhausted.           *)
(*                                                                         *)
(* Every step below is one that another CPU or an interrupting context     *)
(* can fall between.  The behaviour starts in the state ppm_open() leaves  *)
(* (reset_ring_buffer): one capture session of one ring.                   *)
(*                                                                         *)
(* Memory is modelled byte by byte.  A byte holds the event it belongs to, *)
(* that event's length and its offset in it; where a header is expected, a *)
(* byte that does not start one reads as any length at all.  at, ln, rel,  *)
(* lim and rd are history variables: no step of the code depends on them.  *)
(***************************************************************************)
EXTENDS Integers, FiniteSets

CONSTANTS
    Dim,      \* buffer_bytes_dim: the bytes of the ring
    Cushion,  \* 2 * PAGE_SIZE: overflow space behind the ring
    HdrLen,   \* sizeof(ppm_evt_hdr) + 16 bits per parameter
    EvLens,   \* the total lengths a filler may produce
    Levels,   \* nesting depth: context c + 1 interrupts context c
    MaxHits   \* bound: gate entries stop once this many are counted

ASSUME RingAssumption ==
    /\ Dim \in Nat /\ Cushion \in Nat /\ HdrLen \in Nat /\ MaxHits \in Nat
    /\ Levels \in Nat
    /\ 0 < HdrLen /\ HdrLen <= Cushion /\ Cushion < Dim

ASSUME LengthAssumption ==
    \A n \in EvLens : n \in Nat /\ HdrLen <= n

VARIABLES
    head, tail,     \* ppm_ring_buffer_info.head, .tail
    buf,            \* ring->buffer, cushion included
    nevents,        \* ring->nevents
    preempt_count,  \* ring->preempt_count
    n_evts, n_preemptions, n_drops_buffer, n_drops_pf,
    n_skip,         \* events a filler skipped (the code does not count them)
    pc,             \* where each context is in record_event_consumer
    h, t,           \* its locals head and ttail
    sz,             \* its local event_size
    lastreadsize, sn_next, sn_len,  \* scap_device fields
    cpc,            \* "next", "refill" or "failed" (SCAP_FAILURE)
    held,           \* the event libscap last handed out, until its next call
    at, ln,         \* history: where event i was published, and its length
    rel, lim, rd    \* history: events released, in the block, delivered

prodvars == <<head, buf, nevents, preempt_count, n_evts, n_preemptions,
              n_drops_buffer, n_drops_pf, n_skip, pc, h, t, sz, at, ln>>
consvars == <<tail, lastreadsize, sn_next, sn_len, cpc, held, rel, lim, rd>>
vars == <<prodvars, consvars>>

Ctxs == 1 .. Levels
Addrs == 0 .. Dim + Cushion - 1
Cell == [id : Nat, len : Nat, off : Nat]
Zero == [id |-> 0, len |-> 0, off |-> 0]   \* as init_ring_buffer clears it
Torn == [id |-> 0, len |-> 0, off |-> 1]   \* what a filler left unfinished
NoEvent == [id |-> 0, len |-> 0, addr |-> 0]

(* The stages at which a context works on an event, and owns the ring. *)
Working == {"read", "fill", "wrap", "publish"}
Owning == Working \cup {"exit"}

(* The buffer is mapped twice in the capture process (ppm_mmap), so that a *)
(* position up to 2 * Dim names the same byte as its remainder.            *)
View(a) == IF a < Dim THEN a ELSE a - Dim

(* An interrupted context does not run before the interrupting ones are    *)
(* done.                                                                   *)
Running(c) == \A d \in Ctxs : d > c => pc[d] = "idle"

(* Mutant: the byte that tells a full ring from an empty one is given out. *)
FreespaceAll(hd, tl) == IF tl > hd THEN tl - hd ELSE Dim + tl - hd
Freespace(hd, tl) == IF tl > hd THEN tl - hd - 1 ELSE Dim + tl - hd - 1
DeltaFromEnd(hd) == Dim + Cushion - hd - 1
Avail(hd, tl) ==
    IF Freespace(hd, tl) < DeltaFromEnd(hd) THEN Freespace(hd, tl)
                                            ELSE DeltaFromEnd(hd)

Fill(b, hd, e, n) ==
    [a \in Addrs |-> IF hd <= a /\ a < hd + n
                     THEN [id |-> e, len |-> n, off |-> a - hd]
                     ELSE b[a]]
Scribble(b, hd, n) ==
    [a \in Addrs |-> IF hd <= a /\ a < hd + n THEN Torn ELSE b[a]]

-----------------------------------------------------------------------------
(* record_event_consumer, from the preemption gate on *)

Gate(c) ==
    /\ Running(c)
    /\ pc[c] = "idle"
    /\ n_evts + n_preemptions < MaxHits
    /\ preempt_count' = preempt_count + 1
    /\ IF preempt_count + 1 = 1
       THEN /\ pc' = [pc EXCEPT ![c] = "read"]
            /\ n_evts' = n_evts + 1
       ELSE /\ pc' = [pc EXCEPT ![c] = "bail"]
            /\ UNCHANGED n_evts
    /\ UNCHANGED <<head, buf, nevents, n_preemptions, n_drops_buffer, n_drops_pf,
                   n_skip, h, t, sz, at, ln, consvars>>

(* Mutant: the early return forgets atomic_dec. *)
BailLeaky(c) ==
    /\ Running(c)
    /\ pc[c] = "bail"
    /\ n_preemptions' = n_preemptions + 1
    /\ pc' = [pc EXCEPT ![c] = "idle"]
    /\ UNCHANGED <<head, buf, nevents, preempt_count, n_evts, n_drops_buffer,
                   n_drops_pf, n_skip, h, t, sz, at, ln, consvars>>

(* The gate was taken: the event is lost and only counted. *)
Bail(c) ==
    /\ Running(c)
    /\ pc[c] = "bail"
    /\ n_preemptions' = n_preemptions + 1
    /\ preempt_count' = preempt_count - 1
    /\ pc' = [pc EXCEPT ![c] = "idle"]
    /\ UNCHANGED <<head, buf, nevents, n_evts, n_drops_buffer, n_drops_pf, n_skip,
                   h, t, sz, at, ln, consvars>>

ReadPointers(c) ==
    /\ Running(c)
    /\ pc[c] = "read"
    /\ h' = [h EXCEPT ![c] = head]
    /\ t' = [t EXCEPT ![c] = tail]
    /\ pc' = [pc EXCEPT ![c] = "fill"]
    /\ UNCHANGED <<head, buf, nevents, preempt_count, n_evts, n_preemptions,
                   n_drops_buffer, n_drops_pf, n_skip, sz, at, ln, consvars>>

(* The header and the filler's parameters are written in place, starting   *)
(* at head and running into the cushion when the end of the ring is near.  *)
FillOk(c) ==
    /\ Running(c)
    /\ pc[c] = "fill"
    /\ Freespace(h[c], t[c]) >= HdrLen
    /\ \E n \in EvLens :
          /\ n <= Avail(h[c], t[c])
          /\ buf' = Fill(buf, h[c], nevents + 1, n)
          /\ sz' = [sz EXCEPT ![c] = n]
    /\ pc' = [pc EXCEPT ![c] = "wrap"]
    /\ UNCHANGED <<head, nevents, preempt_count, n_evts, n_preemptions,
                   n_drops_buffer, n_drops_pf, n_skip, h, t, at, ln, consvars>>

(* Mutant: the drop is not counted. *)
NoRoomUncounted(c) ==
    /\ Running(c)
    /\ pc[c] = "fill"
    /\ Freespace(h[c], t[c]) < HdrLen
    /\ pc' = [pc EXCEPT ![c] = "exit"]
    /\ UNCHANGED <<head, buf, nevents, preempt_count, n_evts, n_preemptions,
                   n_drops_buffer, n_drops_pf, n_skip, h, t, sz, at, ln, consvars>>

(* Not even the header fits: nothing is written. *)
NoRoom(c) ==
    /\ Running(c)
    /\ pc[c] = "fill"
    /\ Freespace(h[c], t[c]) < HdrLen
    /\ n_drops_buffer' = n_drops_buffer + 1
    /\ pc' = [pc EXCEPT ![c] = "exit"]
    /\ UNCHANGED <<head, buf, nevents, preempt_count, n_evts, n_preemptions,
                   n_drops_pf, n_skip, h, t, sz, at, ln, consvars>>

(* The filler gives up: PPM_FAILURE_BUFFER_FULL when a parameter does not  *)
(* fit, PPM_FAILURE_INVALID_USER_MEMORY on a bad copy, PPM_SKIP_EVENT.     *)
(* What it wrote so far stays behind.                                      *)
FillFail(c) ==
    /\ Running(c)
    /\ pc[c] = "fill"
    /\ Freespace(h[c], t[c]) >= HdrLen
    /\ \E k \in HdrLen .. Avail(h[c], t[c]) : buf' = Scribble(buf, h[c], k)
    /\ \/ /\ \E n \in EvLens : n > Avail(h[c], t[c])
          /\ n_drops_buffer' = n_drops_buffer + 1
          /\ UNCHANGED <<n_drops_pf, n_skip>>
       \/ /\ n_drops_pf' = n_drops_pf + 1
          /\ UNCHANGED <<n_drops_buffer, n_skip>>
       \/ /\ n_skip' = n_skip + 1
          /\ UNCHANGED <<n_drops_buffer, n_drops_pf>>
    /\ pc' = [pc EXCEPT ![c] = "exit"]
    /\ UNCHANGED <<head, nevents, preempt_count, n_evts, n_preemptions,
                   h, t, sz, at, ln, consvars>>

(* The memcpy of what was written past the end of the ring. *)
CopyCushion(b, next) ==
    [a \in Addrs |-> IF a < next - Dim THEN b[a + Dim] ELSE b[a]]

Wrap(c) ==
    /\ Running(c)
    /\ pc[c] = "wrap"
    /\ buf' = CopyCushion(buf, h[c] + sz[c])
    /\ pc' = [pc EXCEPT ![c] = "publish"]
    /\ UNCHANGED <<head, nevents, preempt_count, n_evts, n_preemptions,
                   n_drops_buffer, n_drops_pf, n_skip, h, t, sz, at, ln, consvars>>

(* Mutant: the head is not wrapped around. *)
NextHeadNoWrap(c) == h[c] + sz[c]
NextHead(c) == View(h[c] + sz[c])

Publish(c) ==
    /\ Running(c)
    /\ pc[c] = "publish"
    /\ head' = NextHead(c)
    /\ nevents' = nevents + 1
    /\ at' = [at EXCEPT ![nevents + 1] = h[c]]
    /\ ln' = [ln EXCEPT ![nevents + 1] = sz[c]]
    /\ pc' = [pc EXCEPT ![c] = "exit"]
    /\ UNCHANGED <<buf, preempt_count, n_evts, n_preemptions, n_drops_buffer,
                   n_drops_pf, n_skip, h, t, sz, consvars>>

LeaveGate(c) ==
    /\ Running(c)
    /\ pc[c] = "exit"
    /\ preempt_count' = preempt_count - 1
    /\ pc' = [pc EXCEPT ![c] = "idle"]
    /\ UNCHANGED <<head, buf, nevents, n_evts, n_preemptions, n_drops_buffer,
                   n_drops_pf, n_skip, h, t, sz, at, ln, consvars>>

Record(c) ==
    \/ Gate(c) \/ Bail(c) \/ ReadPointers(c)
    \/ FillOk(c) \/ NoRoom(c) \/ FillFail(c)
    \/ Wrap(c) \/ Publish(c) \/ LeaveGate(c)

-----------------------------------------------------------------------------
(* ringbuffer_next on this device *)

(* The block is exhausted (or none was taken): its bytes go back to the    *)
(* producer, and with them the event handed out last.                      *)
AdvanceTail ==
    /\ cpc = "next"
    /\ sn_len = 0
    /\ tail' = View(tail + lastreadsize)
    /\ lastreadsize' = 0
    /\ held' = NoEvent
    /\ rel' = rd
    /\ cpc' = "refill"
    /\ UNCHANGED <<sn_next, sn_len, lim, rd, prodvars>>

(* Mutant: the size of a block that wraps is one byte short. *)
ReadSizeShort == IF tail > head THEN Dim - tail + head - 1 ELSE head - tail
(* Mutant: a ring whose head wrapped around looks empty. *)
ReadSizeNoWrap == IF tail > head THEN 0 ELSE head - tail
ReadSize == IF tail > head THEN Dim - tail + head ELSE head - tail

(* refill_read_buffers: READBUF takes everything published so far. *)
Readbuf ==
    /\ cpc = "refill"
    /\ lastreadsize' = ReadSize
    /\ sn_len' = ReadSize
    /\ sn_next' = tail
    /\ lim' = nevents
    /\ cpc' = "next"
    /\ UNCHANGED <<tail, held, rel, rd, prodvars>>

(* The lengths the header at read position a may show. *)
LensAt(a) == IF buf[View(a)].off = 0 THEN {buf[View(a)].len} ELSE 0 .. Dim

(* Mutant: the block is given back with its last event, not at the next    *)
(* call.                                                                   *)
NextEventEager ==
    /\ cpc = "next"
    /\ sn_len > 0
    /\ \E len \in LensAt(sn_next) :
          /\ len <= sn_len
          /\ held' = [id |-> buf[View(sn_next)].id, len |-> len, addr |-> sn_next]
          /\ sn_len' = sn_len - len
          /\ sn_next' = sn_next + len
          /\ rd' = rd + 1
    /\ IF sn_len' = 0
       THEN tail' = View(tail + lastreadsize) /\ lastreadsize' = 0 /\ rel' = rd'
       ELSE UNCHANGED <<tail, lastreadsize, rel>>
    /\ UNCHANGED <<cpc, lim, prodvars>>

(* Mutant: ADVANCE_TO_EVT shrinks the block but does not move in it. *)
NextEventStuck ==
    /\ cpc = "next"
    /\ sn_len > 0
    /\ \E len \in LensAt(sn_next) :
          /\ len <= sn_len
          /\ held' = [id |-> buf[View(sn_next)].id, len |-> len, addr |-> sn_next]
          /\ sn_len' = sn_len - len
          /\ rd' = rd + 1
    /\ UNCHANGED <<cpc, sn_next, tail, lastreadsize, rel, lim, prodvars>>

(* NEXT_EVENT and ADVANCE_TO_EVT, or "scap_next buffer corruption". *)
NextEvent ==
    /\ cpc = "next"
    /\ sn_len > 0
    /\ \E len \in LensAt(sn_next) :
          IF len > sn_len
          THEN /\ cpc' = "failed"
               /\ UNCHANGED <<sn_next, sn_len, held, rd>>
          ELSE /\ held' = [id |-> buf[View(sn_next)].id, len |-> len, addr |-> sn_next]
               /\ sn_len' = sn_len - len
               /\ sn_next' = sn_next + len
               /\ rd' = rd + 1
               /\ UNCHANGED cpc
    /\ UNCHANGED <<tail, lastreadsize, rel, lim, prodvars>>

RingbufferNext == AdvanceTail \/ Readbuf \/ NextEvent

-----------------------------------------------------------------------------

(* reset_ring_buffer, and a scap_device that has read nothing. *)
Init ==
    /\ head = 0 /\ tail = 0
    /\ buf = [a \in Addrs |-> Zero]
    /\ nevents = 0 /\ preempt_count = 0
    /\ n_evts = 0 /\ n_preemptions = 0 /\ n_drops_buffer = 0 /\ n_drops_pf = 0
    /\ n_skip = 0
    /\ pc = [c \in Ctxs |-> "idle"]
    /\ h = [c \in Ctxs |-> 0] /\ t = [c \in Ctxs |-> 0] /\ sz = [c \in Ctxs |-> 0]
    /\ lastreadsize = 0 /\ sn_next = 0 /\ sn_len = 0
    /\ cpc = "next"
    /\ held = NoEvent
    /\ at = [i \in 1 .. MaxHits |-> 0] /\ ln = [i \in 1 .. MaxHits |-> 0]
    /\ rel = 0 /\ lim = 0 /\ rd = 0

Next == (\E c \in Ctxs : Record(c)) \/ RingbufferNext

Spec == Init /\ [][Next]_vars

(* A context that entered record_event_consumer runs to the end of it, and *)
(* the capture loop keeps calling scap_next().                             *)
FairSpec ==
    /\ Spec
    /\ \A c \in Ctxs : WF_vars(pc[c] # "idle" /\ Record(c))
    /\ WF_vars(RingbufferNext)

-----------------------------------------------------------------------------

(* The types of the shared memory, the counters, the contexts, libscap's   *)
(* device and the history.                                                 *)
RingType ==
    /\ head \in 0 .. Dim - 1 /\ tail \in 0 .. Dim - 1
    /\ buf \in [Addrs -> Cell]
    /\ nevents \in 0 .. MaxHits
CountType ==
    /\ preempt_count \in Nat
    /\ n_evts \in 0 .. MaxHits
    /\ n_preemptions \in Nat /\ n_drops_buffer \in Nat /\ n_drops_pf \in Nat
    /\ n_skip \in Nat
CtxType ==
    /\ pc \in [Ctxs -> Owning \cup {"idle", "bail"}]
    /\ h \in [Ctxs -> 0 .. Dim - 1] /\ t \in [Ctxs -> 0 .. Dim - 1]
    /\ sz \in [Ctxs -> Nat]
ConsType ==
    /\ lastreadsize \in 0 .. Dim - 1 /\ sn_len \in 0 .. Dim - 1
    /\ sn_next \in 0 .. 2 * Dim - 1
    /\ cpc \in {"next", "refill", "failed"}
    /\ held \in [id : Nat, len : Nat, addr : Nat]
LogType ==
    /\ at \in [1 .. MaxHits -> 0 .. Dim - 1] /\ ln \in [1 .. MaxHits -> Nat]
    /\ rel \in Nat /\ lim \in Nat /\ rd \in Nat

(* Types are kept; tail, the read position and the block size stay inside  *)
(* the doubly mapped ring.                                                 *)
TypeOK == RingType /\ CountType /\ CtxType /\ ConsType /\ LogType

(* The event a is intact at address p: every byte of it, read through the  *)
(* double mapping, is the byte record_event_consumer published.            *)
IntactAt(e, p, n) ==
    \A k \in 0 .. n - 1 : buf[View(p + k)] = [id |-> e, len |-> n, off |-> k]

(* An event stays intact in the ring from the moment head is moved past it *)
(* until libscap moves the tail past it, whatever the producer writes in   *)
(* between (freespace, cushion copy and failed fillers included).          *)
UnreleasedIntact ==
    \A i \in rel + 1 .. nevents : IntactAt(i, at[i], ln[i])

(* The event handed out by scap_next() can be read until the next call:    *)
(* "the caller is using the buffer we give to her until she calls us again" *)
(* (ringbuffer.h), and it is the event that follows the previous one.      *)
HeldIntact ==
    held # NoEvent => held.id = rd /\ IntactAt(held.id, held.addr, held.len)

(* scap_next never meets "scap_next buffer corruption": a block always     *)
(* ends at the end of an event, and the next position is a header.         *)
NoCorruption == cpc # "failed"

(* The events that record_event_consumer is done with. *)
Settled == nevents + n_drops_buffer + n_drops_pf + n_skip

(* Every gate entry is accounted for: an event counted in n_evts was       *)
(* published, dropped for space or for a bad copy, skipped, or is under    *)
(* way in the one context that owns the ring.                              *)
Accounting ==
    n_evts = Settled + Cardinality({c \in Ctxs : pc[c] \in Working})

(* The preemption gate lets one context at a time work on the ring, and    *)
(* comes back to zero when no context is inside: it never stays closed.    *)
GateExclusive ==
    /\ preempt_count = Cardinality({c \in Ctxs : pc[c] # "idle"})
    /\ \A c, d \in Ctxs : pc[c] \in Owning /\ pc[d] \in Owning => c = d

(* The lossy channel the ring implements: what the capture process sees is *)
(* the accepted events, once each and in order, one held at a time.        *)
Channel == INSTANCE EventChannel WITH
              accepted <- nevents, delivered <- rd, out <- held.id

(* Seen from outside, record_event_consumer and ringbuffer_next together   *)
(* do nothing but accept, deliver and release events of that channel.      *)
IsChannel == Channel!ChSpec

(* A published event is delivered: no block is forgotten and no event is   *)
(* stuck behind the end of the ring.                                       *)
EveryPublishedDelivered ==
    \A i \in 1 .. MaxHits : (nevents >= i) ~> (rd >= i)
=============================================================================
