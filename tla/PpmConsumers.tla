---------------------------- MODULE PpmConsumers ----------------------------
(***************************************************************************)
(* The consumers of the kernel module (driver/main.c): the tasks that have *)
(* devices open, the tracepoints they share, and the probes that walk the  *)
(* list of consumers while it changes.                                     *)
(*                                                                         *)
(*   - ppm_open(), ppm_release() and ppm_ioctl() run under                 *)
(*     g_consumer_mutex.  The last release of a consumer gives its         *)
(*     tracepoints back, unlinks it, waits for the probes that may still   *)
(*     see it and frees it, all without letting go of the mutex.           *)
(*   - record_event_all_consumers() runs on any CPU inside an RCU read     *)
(*     section and takes no lock.                                          *)
(*                                                                         *)
(* A consumer is named by the task that opened it (filp->private_data).  A *)
(* device is open exactly as long as there is a file for it, so that files *)
(* need no variable of their own.  Bits of a mask are members of a set.    *)
(***************************************************************************)
EXTENDS Integers, FiniteSets

CONSTANTS
    Tasks,         \* tasks that may open devices
    Cpus,          \* possible CPUs: one device and one ring for each
    NTps,          \* KMOD_PROG_ATTACHED_MAX
    MaxConsumers,  \* max_consumers
    Failing,       \* tracepoints whose registration may fail
    NoTask         \* no task

Tps == 0 .. NTps - 1

ASSUME ConsumersAssumption ==
    /\ IsFiniteSet(Tasks) /\ NoTask \notin Tasks
    /\ NTps \in Nat /\ MaxConsumers \in Nat
    /\ Failing \subseteq Tps

VARIABLES
    alloc,     \* consumers whose memory is allocated
    linked,    \* g_consumer_list
    id,        \* consumer->id
    tps,       \* consumer->tracepoints_attached
    rings,     \* the CPUs for which the consumer has a ring
    open,      \* the CPUs whose ring is open
    attached,  \* g_tracepoints_attached
    refs,      \* g_tracepoints_refs
    gone,      \* the consumer check_remove_consumer is removing, or NoTask
    phase,     \* "unregister" or "grace": what the removal waits for
    wait,      \* the probes it waits for
    cur,       \* the consumer each CPU's probe is at, or NoTask
    seen,      \* the consumers it has been at
    probing,   \* the CPUs inside record_event_all_consumers
    clash      \* history: two consumers have had the same id

consumers == <<alloc, linked, id, tps, rings, open, attached, refs, clash>>
removal == <<gone, phase, wait>>
probes == <<cur, seen, probing>>
vars == <<consumers, removal, probes>>

(* g_consumer_mutex is free. *)
Unlocked == gone = NoTask

-----------------------------------------------------------------------------
(* force_tp_set: what becomes of tracepoint p when the consumer with id i  *)
(* does or does not want it.                                               *)

(* Mutant: nothing is noted when the tracepoint is already as wanted. *)
NextRefsSkip(p, i, want) ==
    IF want = (p \in attached) THEN refs[p]
    ELSE IF want THEN refs[p] \cup {i} ELSE refs[p] \ {i}
NextRefs(p, i, want) == IF want THEN refs[p] \cup {i} ELSE refs[p] \ {i}

(* Mutant: the tracepoint is detached although others want it. *)
StaysAttachedMine(p, i, want) == want /\ (p \in attached \/ refs[p] = {})
(* It is attached for the first one who asks, detached with the last. *)
StaysAttached(p, i, want) ==
    IF want THEN p \in attached \/ refs[p] = {}
            ELSE p \in attached /\ refs[p] # {i}

(* compat_register_trace is called for p, and may fail. *)
Registers(p, want) == want /\ p \notin attached /\ refs[p] = {}

(* The loop handles the tracepoints below n. *)
ForceTpSet(i, want, n) ==
    /\ refs' = [p \in Tps |-> IF p < n THEN NextRefs(p, i, p \in want) ELSE refs[p]]
    /\ attached' = {p \in Tps : IF p < n THEN StaysAttached(p, i, p \in want)
                                         ELSE p \in attached}

(* The loop stops after a registration that failed, and counts its         *)
(* tracepoint as processed.                                                *)
SetConsumerTracepoints(t, want) ==
    \E n \in 0 .. NTps :
       /\ n < NTps => n \in Failing /\ Registers(n, n \in want)
       /\ ForceTpSet(id[t], want, n)
       /\ tps' = [tps EXCEPT ![t] = {p \in Tps : IF p <= n THEN p \in want
                                                           ELSE p \in @}]

-----------------------------------------------------------------------------
(* ppm_open *)

RoomForConsumer == Cardinality(linked) < MaxConsumers

(* Mutant: the new consumer is counted as well. *)
NewIdNext == Cardinality(linked) + 1
(* consumer->id = num_consumers. *)
NewId == Cardinality(linked)

(* The task has no consumer yet.  One is added, with a ring for every CPU  *)
(* that is online; the device itself opens only if its CPU is one of them  *)
(* (ENODEV otherwise, and the consumer stays).                             *)
OpenNew(t, c) ==
    /\ Unlocked
    /\ t \notin linked
    /\ RoomForConsumer
    /\ \E online \in SUBSET Cpus \ {{}} :
          /\ rings' = [rings EXCEPT ![t] = online]
          /\ open' = [open EXCEPT ![t] = IF c \in online THEN {c} ELSE {}]
    /\ alloc' = alloc \cup {t}
    /\ linked' = linked \cup {t}
    /\ id' = [id EXCEPT ![t] = NewId]
    /\ tps' = [tps EXCEPT ![t] = {}]
    /\ clash' = (clash \/ \E u \in linked : id[u] = NewId)
    /\ UNCHANGED <<attached, refs, removal, probes>>

(* init_ring_buffer failed: the consumer was never linked, and             *)
(* check_remove_consumer takes back tracepoints in the name of its id.     *)
OpenNoMemory(t) ==
    /\ Unlocked
    /\ t \notin linked
    /\ RoomForConsumer
    /\ ForceTpSet(NewId, {}, NTps)
    /\ clash' = (clash \/ \E u \in linked : id[u] = NewId)
    /\ UNCHANGED <<alloc, linked, id, tps, rings, open, removal, probes>>

(* The task has a consumer already: one more of its devices is opened. *)
OpenMore(t, c) ==
    /\ Unlocked
    /\ t \in linked
    /\ c \in rings[t]
    /\ c \notin open[t]
    /\ open' = [open EXCEPT ![t] = @ \cup {c}]
    /\ UNCHANGED <<alloc, linked, id, tps, rings, attached, refs, clash, removal, probes>>

-----------------------------------------------------------------------------
(* ppm_ioctl, through any file of the consumer *)

EnableTp(t, p) ==
    /\ Unlocked
    /\ open[t] # {}
    /\ SetConsumerTracepoints(t, tps[t] \cup {p})
    /\ UNCHANGED <<alloc, linked, id, rings, open, clash, removal, probes>>

DisableTp(t, p) ==
    /\ Unlocked
    /\ open[t] # {}
    /\ SetConsumerTracepoints(t, tps[t] \ {p})
    /\ UNCHANGED <<alloc, linked, id, rings, open, clash, removal, probes>>

-----------------------------------------------------------------------------
(* ppm_release and check_remove_consumer *)

CloseOne(t, c) ==
    /\ Unlocked
    /\ c \in open[t]
    /\ open[t] # {c}
    /\ open' = [open EXCEPT ![t] = @ \ {c}]
    /\ UNCHANGED <<alloc, linked, id, tps, rings, attached, refs, clash, removal, probes>>

(* Mutant: any release removes the consumer. *)
AnyRing(t, c) == c \in open[t]
LastRing(t, c) == open[t] = {c}

(* Mutant: the references of the consumer are left behind. *)
DropTracepointsNot(t) == UNCHANGED <<refs, attached, tps>>
DropTracepoints(t) ==
    ForceTpSet(id[t], {}, NTps) /\ tps' = [tps EXCEPT ![t] = {}]

(* When no tracepoint is left, tracepoint_synchronize_unregister waits for *)
(* the probes that are still running.                                      *)
CloseLast(t, c) ==
    /\ Unlocked
    /\ LastRing(t, c)
    /\ open' = [open EXCEPT ![t] = @ \ {c}]
    /\ DropTracepoints(t)
    /\ gone' = t
    /\ phase' = "unregister"
    /\ wait' = IF attached' = {} THEN probing ELSE {}
    /\ UNCHANGED <<alloc, linked, id, rings, clash, probes>>

(* list_del_rcu; synchronize_rcu starts to wait. *)
Unlink ==
    /\ phase = "unregister"
    /\ wait = {}
    /\ linked' = linked \ {gone}
    /\ phase' = "grace"
    /\ wait' = probing
    /\ UNCHANGED <<alloc, id, tps, rings, open, attached, refs, clash, gone, probes>>

(* Mutant: the consumer is freed without a grace period. *)
GraceOverAtOnce == phase = "grace"
(* Mutant: it is freed when no probe runs at all, new ones included. *)
GraceOverQuiet == phase = "grace" /\ probing = {}
GraceOver == phase = "grace" /\ wait = {}

(* mutex_unlock, at the end of ppm_release. *)
Unlock == gone' = NoTask

Free ==
    /\ GraceOver
    /\ alloc' = alloc \ {gone}
    /\ id' = [id EXCEPT ![gone] = 0]
    /\ rings' = [rings EXCEPT ![gone] = {}]
    /\ Unlock
    /\ phase' = "none"
    /\ wait' = {}
    /\ UNCHANGED <<linked, tps, open, attached, refs, clash, probes>>

-----------------------------------------------------------------------------
(* record_event_all_consumers, on each CPU *)

ProbeBegin(c) ==
    /\ attached # {}
    /\ c \notin probing
    /\ probing' = probing \cup {c}
    /\ UNCHANGED <<cur, seen, consumers, removal>>

(* The next consumer of the list. *)
ProbeVisit(c) ==
    /\ c \in probing
    /\ \E t \in linked \ seen[c] :
          /\ cur' = [cur EXCEPT ![c] = t]
          /\ seen' = [seen EXCEPT ![c] = @ \cup {t}]
    /\ UNCHANGED <<probing, consumers, removal>>

(* rcu_read_unlock. *)
ProbeEnd(c) ==
    /\ c \in probing
    /\ probing' = probing \ {c}
    /\ cur' = [cur EXCEPT ![c] = NoTask]
    /\ seen' = [seen EXCEPT ![c] = {}]
    /\ wait' = wait \ {c}
    /\ UNCHANGED <<consumers, gone, phase>>

-----------------------------------------------------------------------------

(* scap_init. *)
Init ==
    /\ alloc = {} /\ linked = {}
    /\ id = [t \in Tasks |-> 0]
    /\ tps = [t \in Tasks |-> {}]
    /\ rings = [t \in Tasks |-> {}] /\ open = [t \in Tasks |-> {}]
    /\ attached = {} /\ refs = [p \in Tps |-> {}]
    /\ gone = NoTask /\ phase = "none" /\ wait = {}
    /\ cur = [c \in Cpus |-> NoTask] /\ seen = [c \in Cpus |-> {}]
    /\ probing = {}
    /\ clash = FALSE

Next ==
    \/ \E t \in Tasks :
          \/ \E c \in Cpus : OpenNew(t, c) \/ OpenMore(t, c)
          \/ OpenNoMemory(t)
          \/ \E p \in Tps : EnableTp(t, p) \/ DisableTp(t, p)
          \/ \E c \in Cpus : CloseOne(t, c) \/ CloseLast(t, c)
    \/ Unlink \/ Free
    \/ \E c \in Cpus : ProbeBegin(c) \/ ProbeVisit(c) \/ ProbeEnd(c)

Spec == Init /\ [][Next]_vars

(* A probe runs to the end of the list, and a removal under way goes on    *)
(* when what it waits for is over.                                         *)
FairSpec ==
    /\ Spec
    /\ \A c \in Cpus : WF_vars(ProbeEnd(c))
    /\ WF_vars(Unlink) /\ WF_vars(Free)

-----------------------------------------------------------------------------

(* The types of the consumers, the tracepoints, the removal and the probes. *)
ConsumerType ==
    /\ alloc \subseteq Tasks /\ linked \subseteq Tasks
    /\ id \in [Tasks -> 0 .. MaxConsumers]
    /\ \A t \in alloc : id[t] < MaxConsumers
    /\ rings \in [Tasks -> SUBSET Cpus] /\ open \in [Tasks -> SUBSET Cpus]
TpType ==
    /\ tps \in [Tasks -> SUBSET Tps]
    /\ attached \subseteq Tps
    /\ refs \in [Tps -> SUBSET (0 .. MaxConsumers)]
RemovalType ==
    /\ gone \in Tasks \cup {NoTask} /\ phase \in {"none", "unregister", "grace"}
    /\ wait \subseteq Cpus
ProbeType ==
    /\ probing \subseteq Cpus
    /\ cur \in [Cpus -> Tasks \cup {NoTask}] /\ seen \in [Cpus -> SUBSET Tasks]

(* Types are kept; in particular every id is a bit below max_consumers.    *)
TypeOK == ConsumerType /\ TpType /\ RemovalType /\ ProbeType /\ clash \in BOOLEAN

(* A probe never stands on a consumer that was freed: check_remove_consumer *)
(* frees it after every probe that may have found it in the list is done.  *)
NoUseAfterFree == \A c \in Cpus : cur[c] # NoTask => cur[c] \in alloc

(* A file always finds its consumer: the "unknown consumer" branches of    *)
(* ppm_ioctl, ppm_mmap and ppm_release are never taken.                    *)
FileHasConsumer == \A t \in Tasks : open[t] # {} => t \in linked

(* A tracepoint is attached exactly as long as somebody holds a reference  *)
(* to it, whatever registrations failed in between.                        *)
AttachedWhileReferenced == attached = {p \in Tps : refs[p] # {}}

(* References are held in the name of consumers that exist: once the last  *)
(* one is gone no probe stays attached, and the module can be unloaded.    *)
RefsAreLive == \A p \in Tps : \A i \in refs[p] : \E t \in alloc : id[t] = i

(* As long as no two consumers were given the same id, the references to a *)
(* tracepoint are those of the consumers that asked for it, except for a   *)
(* registration that failed (which the consumer believes to have).         *)
RefsAreExact ==
    ~ clash => \A p \in Tps \ Failing :
                  refs[p] = {id[t] : t \in {u \in linked : p \in tps[u]}}

(* The mutex is free again and again: the probes a removal waits for never *)
(* wait for the mutex themselves.                                          *)
RemovalEnds == []<>(gone = NoTask)

(* "we are not the last to unrequest this tp" (force_tp_set): a tracepoint *)
(* stays attached while a consumer has it in its tracepoints_attached.     *)
TracepointKept == \A t \in linked : tps[t] \subseteq attached

(* "Maximum number of consumers that can simultaneously open the devices"  *)
(* (max_consumers): when ppm_open refuses a task, that many tasks have     *)
(* devices open.                                                           *)
LimitCountsOpeners ==
    Unlocked /\ ~ RoomForConsumer => \A t \in linked : open[t] # {}
=============================================================================
