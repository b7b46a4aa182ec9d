----------------------------- MODULE AsyncQueue -----------------------------
(***************************************************************************)
(* The asynchronous events of the inspector: sinsp::fetch_next_event       *)
(* merges the events of libscap with those that plugin threads (and        *)
(* get_procs_cpu_from_driver, on the thread of the inspector itself) push  *)
(* into m_async_events_queue.  The queue is an mpsc_priority_queue: a      *)
(* binary heap under a mutex, and next to it the atomic m_queue_top, which *)
(* the consumer reads and dereferences without the mutex.                  *)
(*                                                                         *)
(* A push holds the mutex over two visible steps: the heap changes, then   *)
(* m_queue_top is stored.  The consumer takes one step per access to       *)
(* m_queue_top, and one for what it does under the mutex.                  *)
(***************************************************************************)
EXTENDS Integers, Sequences, FiniteSets, Functions

CONSTANTS
    Producers,  \* the plugin threads that push
    Capacity,   \* m_capacity
    MaxAsync,   \* bound: events offered to the queue
    MaxScap,    \* bound: events libscap hands out
    MaxTime,    \* bound: the clock, and with it the timestamps
    Ahead       \* how far in the future a timestamp may be (10 s in the code)

ASSUME AsyncAssumption ==
    /\ Capacity \in Nat /\ MaxAsync \in Nat /\ MaxScap \in Nat
    /\ MaxTime \in Nat \ {0} /\ Ahead \in Nat

NoTs == MaxTime + Ahead + 1    \* (uint64_t)-1: above every timestamp
NoElem == [num |-> -1, ts |-> 0]  \* the null pointer

(* A queue_elm: its number, in the order of the pushes, and the timestamp  *)
(* of its event.                                                           *)
Elem == [num : -1 .. MaxAsync - 1, ts : 0 .. NoTs]

VARIABLES
    now,           \* sinsp_utils::get_current_time_ns()
    \* the queue
    m_queue,       \* the heap, its first element the top
    m_queue_top,
    m_elem_counter,
    ppc,           \* where each producer is: "idle", or "store" with the mutex held
    offered,       \* events offered so far
    \* the consumer
    cpc,           \* where sinsp::next is
    m_pevt,        \* m_delayed_scap_evt: the timestamp of its event, 0 for none
    fetched,       \* events libscap handed out so far
    checker,       \* m_async_events_checker.ts
    top,           \* the local of try_pop_if
    cur,           \* the timestamp of the event next() got
    m_cached_ts,   \* of the timestamper, 0 for none
    \* history
    dlv,           \* the numbers of the asynchronous events delivered
    mixed          \* an event without a timestamp was queued since the queue was last empty

clock == <<now>>
queue == <<m_queue, m_queue_top, m_elem_counter, offered, mixed>>
consumer == <<cpc, m_pevt, fetched, checker, top, cur, m_cached_ts, dlv>>
vars == <<clock, queue, ppc, consumer>>

-----------------------------------------------------------------------------
(* The order of the events *)

compare_evt_timestamps(left, right) == left = NoTs \/ left <= right

state_evts_less(l, r) == ~compare_evt_timestamps(l.ts, r.ts)

(* queue_elm::operator< *)
Less(l, r) ==
    IF state_evts_less(l, r) = state_evts_less(r, l)
    THEN l.num >= r.num
    ELSE state_evts_less(l, r)

-----------------------------------------------------------------------------
(* std::priority_queue: push_heap and pop_heap on a sequence *)

Swap(h, i, k) == [h EXCEPT ![i] = h[k], ![k] = h[i]]

(* An element on its way through the heap h: it is at i. *)
Sift == [h : Seq(Elem), i : Nat]

(* Past a lesser parent. *)
UpStep ==
    [s \in Sift |->
       LET p == s.i \div 2
       IN  IF s.i > 1 /\ Less(s.h[p], s.h[s.i])
           THEN [h |-> Swap(s.h, p, s.i), i |-> p]
           ELSE s]

(* As far up as it can, which is less than s.i times. *)
Up(s) ==
    LET at[n \in Nat] == IF n = 0 THEN s ELSE UpStep[at[n - 1]]
    IN  at[s.i].h

GreaterChild(h, i) ==
    IF 2 * i + 1 <= Len(h) /\ ~Less(h[2 * i + 1], h[2 * i]) THEN 2 * i + 1 ELSE 2 * i

(* In place of the greater child. *)
DownStep ==
    [s \in Sift |->
       LET c == GreaterChild(s.h, s.i)
       IN  IF 2 * s.i <= Len(s.h)
           THEN [h |-> Swap(s.h, s.i, c), i |-> c]
           ELSE s]

(* Down to a leaf. *)
Down(s) ==
    LET at[n \in Nat] == IF n = 0 THEN s ELSE DownStep[at[n - 1]]
    IN  at[Len(s.h)]

HeapPush(h, e) == Up([h |-> Append(h, e), i |-> Len(h) + 1])

(* The last element takes the place of the first, goes down to a leaf and  *)
(* from there up again.                                                    *)
HeapPop(h) ==
    IF Len(h) = 1 THEN <<>>
    ELSE Up(Down([h |-> SubSeq([h EXCEPT ![1] = h[Len(h)]], 1, Len(h) - 1), i |-> 1]))

-----------------------------------------------------------------------------
(* mpsc_priority_queue *)

Locked == \E p \in Producers : ppc[p] = "store"

Top(h) == IF h = <<>> THEN NoElem ELSE Head(h)

(* The first half of push: the heap. *)
Enqueue(ts) ==
    /\ m_queue' = HeapPush(m_queue, [num |-> m_elem_counter, ts |-> ts])
    /\ m_elem_counter' = m_elem_counter + 1

(* Off by one: one more than the capacity. *)
HasRoomOff == Len(m_queue) <= Capacity
HasRoom == Len(m_queue) < Capacity

(* handle_plugin_async_event, handle_async_event, push. *)
Push(p) ==
    /\ ppc[p] = "idle" /\ ~Locked
    /\ offered < MaxAsync
    /\ offered' = offered + 1
    /\ \E ts \in 1 .. now + Ahead + 1 \cup {NoTs} :
          IF ts # NoTs /\ ts > now + Ahead
          THEN UNCHANGED <<m_queue, m_elem_counter, ppc>>  \* "too far in future"
          ELSE IF HasRoom
          THEN Enqueue(ts) /\ ppc' = [ppc EXCEPT ![p] = "store"]
          ELSE UNCHANGED <<m_queue, m_elem_counter, ppc>>  \* "queue is full"
    /\ UNCHANGED <<clock, m_queue_top, mixed, consumer>>

Newest == CHOOSE e \in Range(m_queue) : e.num = m_elem_counter - 1

(* The second half of push, and the unlock. *)
StoreTop(p) ==
    /\ ppc[p] = "store"
    /\ m_queue_top' = Top(m_queue)
    /\ ppc' = [ppc EXCEPT ![p] = "idle"]
    /\ mixed' = (mixed \/ Newest.ts = NoTs)
    /\ UNCHANGED <<clock, m_queue, m_elem_counter, offered, consumer>>

-----------------------------------------------------------------------------
(* sinsp::fetch_next_event *)

get_new_ts == IF m_cached_ts = 0 THEN now ELSE m_cached_ts

(* m_delayed_scap_evt.next: SCAP_SUCCESS, SCAP_TIMEOUT, or it is not called *)
(* because an event is delayed from before.                                *)
Fetch ==
    /\ cpc = "idle"
    /\ cpc' = "empty"
    /\ \/ m_pevt # 0 /\ UNCHANGED <<m_pevt, fetched>>
       \/ m_pevt = 0 /\ UNCHANGED <<m_pevt, fetched>>
       \/ /\ m_pevt = 0 /\ fetched < MaxScap
          /\ \E ts \in 1 .. now : m_pevt' = ts
          /\ fetched' = fetched + 1
    /\ UNCHANGED <<clock, queue, ppc, checker, top, cur, m_cached_ts, dlv>>

(* No asynchronous event comes first: m_delayed_scap_evt.move, or the      *)
(* timeout is returned.                                                    *)
ScapEvent ==
    /\ IF m_pevt # 0
       THEN cpc' = "next" /\ cur' = m_pevt /\ m_pevt' = 0
       ELSE cpc' = "idle" /\ UNCHANGED <<cur, m_pevt>>
    /\ top' = NoElem /\ checker' = 0     \* not read again before they are set
    /\ UNCHANGED <<queue, fetched, m_cached_ts, dlv>>

(* Missing branch: on a timeout the queue is not looked at. *)
CheckEmptyBusy ==
    /\ cpc = "empty"
    /\ \/ (m_queue_top = NoElem \/ m_pevt = 0) /\ ScapEvent
       \/ /\ m_queue_top # NoElem /\ m_pevt # 0
          /\ checker' = m_pevt
          /\ cpc' = "load"
          /\ UNCHANGED <<queue, m_pevt, fetched, top, cur, m_cached_ts, dlv>>
    /\ UNCHANGED <<clock, ppc>>

(* m_async_events_queue.empty(), and the predicate is set up. *)
CheckEmpty ==
    /\ cpc = "empty"
    /\ \/ m_queue_top = NoElem /\ ScapEvent
       \/ /\ m_queue_top # NoElem
          /\ checker' = (IF m_pevt # 0 THEN m_pevt ELSE get_new_ts)
          /\ cpc' = "load"
          /\ UNCHANGED <<queue, m_pevt, fetched, top, cur, m_cached_ts, dlv>>
    /\ UNCHANGED <<clock, ppc>>

(* try_pop_if: the load of m_queue_top. *)
Load ==
    /\ cpc = "load"
    /\ top' = m_queue_top
    /\ cpc' = "check"
    /\ UNCHANGED <<clock, queue, ppc, m_pevt, fetched, checker, cur, m_cached_ts, dlv>>

(* Missing test: the top is not compared again. *)
UnchangedTopNot == TRUE
UnchangedTop == top = m_queue_top

(* The predicate, and the second load of m_queue_top. *)
Check ==
    /\ cpc = "check"
    /\ \/ /\ UnchangedTop /\ ~compare_evt_timestamps(top.ts, checker)
          /\ ScapEvent
       \/ /\ UnchangedTop /\ compare_evt_timestamps(top.ts, checker)
          /\ cpc' = "pop"
          /\ UNCHANGED <<queue, m_pevt, fetched, checker, top, cur, m_cached_ts, dlv>>
       \/ /\ ~UnchangedTop
          /\ cpc' = "load"
          /\ UNCHANGED <<queue, m_pevt, fetched, checker, top, cur, m_cached_ts, dlv>>
    /\ UNCHANGED <<clock, ppc>>

(* Missing pop: the element is returned and left in the queue. *)
RemainsAll == m_queue
(* The queue without its top. *)
Remains == HeapPop(m_queue)

(* Missing store: m_queue_top is stored by pushes alone. *)
TopAfterPopOld == IF Remains = <<>> THEN NoElem ELSE m_queue_top
TopAfterPop == Top(Remains)

(* Under the mutex: the pop, unless the top changed.  An event without a   *)
(* timestamp gets one now.                                                 *)
Pop ==
    /\ cpc = "pop" /\ ~Locked
    /\ \/ /\ Head(m_queue) # top
          /\ cpc' = "load"
          /\ UNCHANGED <<queue, checker, top, cur, dlv>>
       \/ /\ Head(m_queue) = top
          /\ m_queue' = Remains
          /\ m_queue_top' = TopAfterPop
          /\ cur' = (IF top.ts = NoTs THEN get_new_ts ELSE top.ts)
          /\ dlv' = Append(dlv, top.num)
          /\ mixed' = (mixed /\ Remains # <<>>)
          /\ cpc' = "next"
          /\ top' = NoElem /\ checker' = 0
          /\ UNCHANGED <<m_elem_counter, offered>>
    /\ UNCHANGED <<clock, ppc, m_pevt, fetched, m_cached_ts>>

-----------------------------------------------------------------------------
(* sinsp::next, after the event is fetched *)

(* get_procs_cpu_from_driver: the thread of next() pushes an event with    *)
(* the timestamp of the current one.  It is the only reader of m_queue_top, *)
(* so that its push is one step.                                           *)
PushProcinfo ==
    /\ cpc = "next" /\ ~Locked
    /\ offered < MaxAsync
    /\ offered' = offered + 1
    /\ IF HasRoom
       THEN Enqueue(cur) /\ m_queue_top' = Top(m_queue')
       ELSE UNCHANGED <<m_queue, m_elem_counter, m_queue_top>>
    /\ UNCHANGED <<clock, ppc, mixed, consumer>>

(* m_timestamper.set_cached_ts *)
SetCachedTs ==
    /\ cpc = "next"
    /\ m_cached_ts' = cur
    /\ cur' = 0
    /\ cpc' = "idle"
    /\ UNCHANGED <<clock, queue, ppc, m_pevt, fetched, checker, top, dlv>>

Tick ==
    /\ now < MaxTime
    /\ now' = now + 1
    /\ UNCHANGED <<queue, ppc, consumer>>

-----------------------------------------------------------------------------

(* sinsp::open: an empty queue, no event delayed, the timestamper reset. *)
Init ==
    /\ now = 1
    /\ m_queue = <<>> /\ m_queue_top = NoElem /\ m_elem_counter = 0
    /\ ppc = [p \in Producers |-> "idle"] /\ offered = 0
    /\ cpc = "idle" /\ m_pevt = 0 /\ fetched = 0
    /\ checker = 0 /\ top = NoElem /\ cur = 0 /\ m_cached_ts = 0
    /\ dlv = <<>> /\ mixed = FALSE

FetchNextEvent == Fetch \/ CheckEmpty \/ Load \/ Check \/ Pop

Next ==
    \/ \E p \in Producers : Push(p) \/ StoreTop(p)
    \/ FetchNextEvent \/ PushProcinfo \/ SetCachedTs
    \/ Tick

Spec == Init /\ [][Next]_vars

(* A thread in push releases the mutex, and the capture loop keeps calling *)
(* next().                                                                 *)
FairSpec ==
    /\ Spec
    /\ \A p \in Producers : WF_vars(StoreTop(p))
    /\ WF_vars(FetchNextEvent \/ SetCachedTs)

-----------------------------------------------------------------------------

TypeOK ==
    /\ now \in 1 .. MaxTime
    /\ Len(m_queue) <= Capacity /\ Range(m_queue) \subseteq Elem
    /\ m_queue_top \in Elem /\ top \in Elem
    /\ m_elem_counter \in 0 .. offered /\ offered \in 0 .. MaxAsync
    /\ ppc \in [Producers -> {"idle", "store"}]
    /\ Cardinality({p \in Producers : ppc[p] = "store"}) <= 1
    /\ cpc \in {"idle", "empty", "load", "check", "pop", "next"}
    /\ m_pevt \in 0 .. MaxTime /\ fetched \in 0 .. MaxScap
    /\ {checker, cur, m_cached_ts} \subseteq 0 .. MaxTime + Ahead
    /\ mixed \in BOOLEAN

(* "we're sure that the queue is not empty and that we're the only one     *)
(* attempting pop-ing": what try_pop_if reads through m_queue_top without  *)
(* the mutex is an element the queue still owns.                           *)
NoDanglingTop ==
    /\ cpc = "load" => m_queue_top \in Range(m_queue)
    /\ cpc \in {"check", "pop"} => top \in Range(m_queue)

(* An event the queue accepted is in it or was delivered, never both and   *)
(* never twice.                                                            *)
AsyncExactlyOnce ==
    /\ \A i \in 1 .. Len(dlv) : \A e \in Range(m_queue) : dlv[i] # e.num
    /\ Len(m_queue) + Len(dlv) = m_elem_counter
    /\ Cardinality(Range(dlv)) = Len(dlv)

(* The events the consumer can see. *)
Visible == {e \in Range(m_queue) : Locked => e.num # m_elem_counter - 1}

Merge == INSTANCE EventMerge WITH pending <- Visible, scap <- m_pevt

(* "the goal is to guarantee events to be fetched ordered by timestamp"    *)
(* (fetch_next_event): whatever is pushed while the consumer decides       *)
(* without the mutex, the event that next() returns comes first of all     *)
(* that were visible when it was chosen, as long as all queued events have *)
(* a timestamp.                                                            *)
MergesByTimestamp == Merge!MgSpec

(* What may be delivered is delivered: again and again the queue is empty  *)
(* or its top is later than the last event, also if libscap only times out *)
(* and whatever the producers push meanwhile.                              *)
AsyncDrained ==
    []<>(m_queue = <<>> \/ ~compare_evt_timestamps(Head(m_queue).ts, get_new_ts))
=============================================================================
