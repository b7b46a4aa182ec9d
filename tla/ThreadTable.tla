---------------------------- MODULE ThreadTable -----------------------------
(***************************************************************************)
(* The thread table of libsinsp: sinsp_thread_manager and the handlers of  *)
(* sinsp_parser that keep it in step with the kernel from clone, execve    *)
(* and procexit events, any of which may be lost.                          *)
(*                                                                         *)
(* The kernel is the environment: it creates threads and processes, gives  *)
(* their children to a reaper when they die and uses their tids again.     *)
(* clone() returns twice, in either order, and the caller's return may     *)
(* come after the child is dead.  What the kernel reports is handled at    *)
(* once or lost; what it knows is also what a look in /proc finds.         *)
(*                                                                         *)
(* A handler is an operator from the state of the manager to the set of    *)
(* states it can leave, because a look in /proc may succeed or not.  A     *)
(* weak pointer is a tid that is taken out of every list when its object   *)
(* is freed; "expired" records that a list of children still has entries   *)
(* of that kind.  Namespaces, file descriptors and the m_last_tinfo cache  *)
(* are left out, and so are the thresholds (11 entries) at which the lists *)
(* of children and threads are cleaned.                                    *)
(***************************************************************************)
EXTENDS Integers, Sequences, FiniteSets, FiniteSetsExt

CONSTANTS
    Tids,        \* thread ids, positive numbers, with 1 for init
    TableSizes,  \* possible values of m_max_thread_table_size
    Kinds,       \* ways to create a thread: "process", "thread", "vfork"
    MaxLost,     \* events that are lost, a bound
    LossyTids,   \* thread ids in use when events are lost, a bound
    MaxClones    \* threads that are created, a bound

ASSUME ThreadAssumption ==
    /\ IsFiniteSet(Tids) /\ Tids \subseteq Nat \ {0} /\ 1 \in Tids
    /\ MaxLost \in Nat /\ MaxClones \in Nat

VARIABLES
    kt,      \* the kernel's threads: a function from tids in use
    calls,   \* the clone() calls that have not returned in the caller
    tm,      \* the thread manager, and the removal the parser asks for
    lost,    \* number of events lost so far
    clones,  \* number of threads created so far
    made,    \* how often each tid was used so far
    early    \* threads that the kernel gave to a parent still inside clone()

vars == <<kt, calls, tm, lost, clones, made, early>>

Drop(f, t) == [x \in DOMAIN f \ {t} |-> f[x]]

Put(f, t, e) == [x \in DOMAIN f \cup {t} |-> IF x = t THEN e ELSE f[x]]

(* A list without t, which it has at most once. *)
Without(s, t) ==
    LET i == CHOOSE k \in 1 .. Len(s) : s[k] = t
    IN  IF t \notin Range(s) THEN s
        ELSE [k \in 1 .. Len(s) - 1 |-> IF k < i THEN s[k] ELSE s[k + 1]]

-----------------------------------------------------------------------------
(* sinsp_threadinfo and thread_group_info *)

(* A threadinfo just created. *)
NewInfo(pid, ptid, inverted, clone_ts) ==
    [pid |-> pid, ptid |-> ptid, dead |-> FALSE, inverted |-> inverted,
     clone_ts |-> clone_ts, reaper_tid |-> -1, tginfo |-> 0,
     children |-> {}, expired |-> FALSE]

(* The entry that keeps a thread from being looked up again and again. *)
FakeInfo == NewInfo(-1, -1, FALSE, "none")

(* What /proc says of a thread: its parent is a process. *)
ProcInfo(t) ==
    NewInfo(kt[t].pid,
            IF kt[t].ptid \in DOMAIN kt THEN kt[kt[t].ptid].pid ELSE kt[t].ptid,
            FALSE, IF kt[t].fresh THEN "fresh" ELSE "old")

is_invalid(e) == e.pid < 0 \/ e.ptid < 0

Has(u, t) == t \in DOMAIN u.tab

Valid(u, t) == Has(u, t) /\ ~is_invalid(u.tab[t])

HasChildren(e) == e.children # {} \/ e.expired

GroupOf(u, t) == u.grp[u.tab[t].tginfo]

(* The first live thread of a group that is not t, 0 for none. *)
LiveThread(u, g, t) ==
    LET s == u.grp[g].threads
        live == {i \in 1 .. Len(s) : s[i] # t /\ ~u.tab[s[i]].dead}
    IN  IF u.grp[g].alive > 0 /\ live # {} THEN s[Min(live)] ELSE 0

Count(u, g, n) == [u EXCEPT !.grp[g].alive = @ + n]

-----------------------------------------------------------------------------
(* sinsp_thread_manager *)

(* m_threadtable.erase: the object of t is freed, if there is one.  "leaked" *)
(* records that its group still counted it.                                  *)
Erase(u, t) ==
    [u EXCEPT
        !.leaked = @ \/ (Has(u, t) /\ u.tab[t].tginfo # 0 /\ ~u.tab[t].dead),
        !.tab = [x \in DOMAIN u.tab \ {t} |->
                    [u.tab[x] EXCEPT !.children = @ \ {t},
                                     !.expired = @ \/ t \in u.tab[x].children]],
        !.grp = [g \in DOMAIN u.grp |->
                    [u.grp[g] EXCEPT !.threads = Without(@, t)]]]

AddChild(u, p, t) ==
    [u EXCEPT !.tab[p].children = @ \cup {t}, !.tab[t].ptid = p]

FreeGroup(u) ==
    CHOOSE g \in 1 .. Cardinality(DOMAIN u.grp) + 1 : g \notin DOMAIN u.grp

(* The group of a process, or a number for a new one. *)
GroupFor(u, pid) == IF pid \in DOMAIN u.groups THEN u.groups[pid] ELSE FreeGroup(u)

(* That group with the thread t, the main thread in front. *)
AddToGroup(u, pid, t) ==
    IF pid \in DOMAIN u.groups
    THEN [u.grp[u.groups[pid]] EXCEPT !.alive = @ + 1,
                                      !.threads = IF t = pid THEN <<t>> \o @ ELSE Append(@, t)]
    ELSE [alive |-> 1, reaper |-> pid = 1, threads |-> <<t>>]

JoinGroup(u, t) ==
    LET pid == u.tab[t].pid
        g == GroupFor(u, pid)
    IN  [u EXCEPT !.grp = Put(@, g, AddToGroup(u, pid, t)),
                  !.groups = Put(@, pid, g),
                  !.tab[t].tginfo = g]

ValidTids(u) == {x \in DOMAIN u.tab : Valid(u, x)}

(* The thread joins its group and its parent, if that is among those which *)
(* find_thread finds.  A thread that names itself finds the entry it is    *)
(* about to replace.                                                       *)
create_thread_dependencies(u, t, parents) ==
    IF is_invalid(u.tab[t]) \/ u.tab[t].tginfo # 0
    THEN u
    ELSE LET v == JoinGroup(u, t)
             p == u.tab[t].ptid
         IN  IF u.tab[t].pid = 1 THEN v
             ELSE IF p \notin parents THEN [v EXCEPT !.tab[t].ptid = 0]
             ELSE IF p = t THEN v ELSE AddChild(v, p, t)

Full(u) == Cardinality(DOMAIN u.tab) >= u.max

add_thread(u, t, e) ==
    IF Full(u) THEN u
    ELSE create_thread_dependencies([Erase(u, t) EXCEPT !.tab = Put(@, t, e)], t, ValidTids(u))

(* get_thread: a look in /proc for a thread that is not in the table. *)
get_thread(u, t) ==
    IF Has(u, t) \/ Full(u) THEN {u}
    ELSE {add_thread(u, t, FakeInfo)} \cup
         {add_thread(u, t, ProcInfo(x)) : x \in DOMAIN kt \cap {t}}

(* A live thread in the group of p, if that is a reaper. *)
ReaperAt(u, p) ==
    LET g == u.tab[p].tginfo
    IN  IF g # 0 /\ u.grp[g].reaper THEN LiveThread(u, g, 0) ELSE 0

(* The walk of find_new_reaper over the ancestors ends at a thread that is *)
(* not in the table, at one it has met (-1, a loop) or at a reaper.        *)
Ancestor(u, t) ==
    LET steps == 0 .. Cardinality(DOMAIN u.tab)
        at[n \in steps] == IF n = 0 THEN u.tab[t].ptid
                           ELSE IF Has(u, at[n - 1]) THEN u.tab[at[n - 1]].ptid ELSE 0
        Met(n) == at[n] \in {t} \cup {at[m] : m \in 0 .. n - 1}
        last == Min({n \in steps : ~Has(u, at[n]) \/ Met(n) \/ ReaperAt(u, at[n]) # 0})
    IN  IF ~Has(u, at[last]) THEN 0
        ELSE IF Met(last) THEN -1 ELSE ReaperAt(u, at[last])

(* Any other thread of the group will do, dead or alive. *)
find_new_reaper_any(u, t) ==
    LET g == u.tab[t].tginfo
    IN  IF u.grp[g].alive > 0 /\ u.grp[g].threads # <<>> THEN Head(u.grp[g].threads)
        ELSE Ancestor(u, t)

find_new_reaper(u, t) ==
    LET r == LiveThread(u, u.tab[t].tginfo, t)
    IN  IF r # 0 THEN r ELSE Ancestor(u, t)

(* The list of the children is not emptied. *)
EmptiedNot(e, r) == [e EXCEPT !.reaper_tid = IF r > 0 THEN r ELSE @]

Emptied(e, r) ==
    [e EXCEPT !.children = {}, !.expired = FALSE,
              !.reaper_tid = IF r > 0 THEN r ELSE @]

(* assign_children_to_reaper, and what remove_thread does to the reaper. *)
Reparent(u, t, r) ==
    LET kids == u.tab[t].children
        Own(x) == IF x = t THEN Emptied(u.tab[x], r) ELSE u.tab[x]
        v == [u EXCEPT !.tab = [x \in DOMAIN u.tab |->
                  [Own(x) EXCEPT !.ptid = IF x \notin kids THEN @ ELSE IF r > 0 THEN r ELSE 0,
                                 !.children = IF x = r THEN @ \cup kids ELSE @]]]
    IN  IF r > 0 /\ v.tab[r].pid # v.tab[t].pid /\ v.tab[r].tginfo # 0
        THEN [v EXCEPT !.grp[v.tab[r].tginfo].reaper = TRUE] ELSE v

(* The children of t go to the reaper the kernel named, if it can be       *)
(* found, and otherwise to the one the table suggests.                     *)
Reaper(u, t) ==
    LET k == u.tab[t].reaper_tid
    IN  IF k > 0 /\ Valid(u, k) THEN k ELSE find_new_reaper(u, t)

Reap(u, t) ==
    IF ~HasChildren(u.tab[t]) THEN {u}
    ELSE {Reparent(v, t, Reaper(v, t)) :
             v \in IF u.tab[t].reaper_tid > 0 THEN get_thread(u, u.tab[t].reaper_tid) ELSE {u}}

(* The count goes down although it did when the thread exited. *)
KillTwice(u, t) == Count([u EXCEPT !.tab[t].dead = TRUE], u.tab[t].tginfo, -1)

Kill(u, t) ==
    IF u.tab[t].dead THEN u
    ELSE Count([u EXCEPT !.tab[t].dead = TRUE], u.tab[t].tginfo, -1)

(* The main thread goes with the last live thread of its group, any other  *)
(* thread at once.                                                         *)
Unlist(u, t) ==
    LET pid == u.tab[t].pid
        v == IF GroupOf(u, t).alive = 0
             THEN Erase([u EXCEPT !.groups = Drop(@, pid)], pid) ELSE u
    IN  IF t = pid THEN v ELSE Erase(v, t)

(* A thread whose exit was lost keeps its place in the count. *)
remove_thread_counted(u, t) ==
    IF ~Has(u, t) THEN {u}
    ELSE IF is_invalid(u.tab[t]) \/ u.tab[t].tginfo = 0 THEN {Erase(u, t)}
    ELSE {Unlist(v, t) : v \in Reap(u, t)}

remove_thread(u, t) ==
    IF ~Has(u, t) THEN {u}
    ELSE IF is_invalid(u.tab[t]) \/ u.tab[t].tginfo = 0 THEN {Erase(u, t)}
    ELSE {Unlist(v, t) : v \in Reap(Kill(u, t), t)}

(* The members of a set are removed in the order of a list. *)
RemoveAll(u, s, S) ==
    LET at[n \in 0 .. Len(s)] ==
            IF n = 0 THEN {u}
            ELSE UNION {IF s[n] \in S THEN remove_thread(v, s[n]) ELSE {v} : v \in at[n - 1]}
    IN  at[Len(s)]

(* sinsp::next: the removal that the previous event asked for. *)
RemoveExited(u) ==
    IF u.to_remove = 0 THEN {u}
    ELSE LET t == u.to_remove
             p == IF Has(u, t) THEN u.tab[t].ptid ELSE -1
         IN  remove_thread([u EXCEPT !.to_remove = 0, !.recent = @ \cup {<<p, t>>}], t)

-----------------------------------------------------------------------------
(* sinsp_parser *)

has_recently_exited(u, t, p) == <<p, t>> \in u.recent

(* An entry that is only known by its tid is completed from an event. *)
Complete(u, t, pid, ptid) ==
    IF is_invalid(u.tab[t])
    THEN LET v == [u EXCEPT !.tab[t].pid = pid, !.tab[t].ptid = ptid]
         IN  create_thread_dependencies(v, t, ValidTids(v))
    ELSE u

AddFromChild(u, t, pid, ptid) ==
    LET main == t = pid
        add(v) == add_thread(v, t, NewInfo(pid, ptid, TRUE, "fresh"))
        lookup == IF main THEN ptid ELSE pid
    IN  {IF ~Has(v, lookup) THEN v
         ELSE add(IF main THEN v ELSE Complete(v, pid, pid, ptid)) :
            v \in get_thread(u, lookup)}

parse_clone_exit_child(u, t, pid, ptid) ==
    IF Has(u, t) /\ u.tab[t].clone_ts = "fresh" THEN {u}
    ELSE UNION {AddFromChild(v, t, pid, ptid) :
                   v \in IF Has(u, t) /\ u.tab[t].clone_ts = "old"
                         THEN remove_thread(u, t) ELSE {u}}

(* A thread is a child of the thread that created it. *)
NewChildOwn(info, k) ==
    NewInfo(IF k.kind = "thread" THEN info.pid ELSE k.child, k.caller, FALSE, "fresh")

(* The parent of a thread is the parent of the process. *)
NewChild(info, k) ==
    IF k.kind = "thread" THEN NewInfo(info.pid, info.ptid, FALSE, "fresh")
    ELSE NewInfo(k.child, k.caller, FALSE, "fresh")

(* The caller is read after an entry with the tid of the child is removed. *)
AddFromCaller(u, c, k) ==
    LET info(v) == IF Has(v, c) THEN v.tab[c] ELSE u.tab[c]
    IN  IF has_recently_exited(u, k.child, c) \/ (Has(u, k.child) /\ u.tab[k.child].inverted)
        THEN {u}
        ELSE {add_thread(v, k.child, NewChild(info(v), k)) : v \in remove_thread(u, k.child)}

parse_clone_exit_caller(u, k, pid, ptid) ==
    LET c == k.caller
    IN  UNION {IF ~Has(v, c) THEN {v}
               ELSE LET w == Complete(v, c, pid, ptid)
                    IN  IF k.kind = "vfork" THEN {w} ELSE AddFromCaller(w, c, k) :
                  v \in get_thread(u, c)}

(* The count stays where the exit left it. *)
ResurrectUncounted(u, t) == [u EXCEPT !.tab[t].dead = FALSE]

Resurrect(u, t) ==
    IF u.tab[t].dead /\ u.tab[t].tginfo # 0
    THEN Count([u EXCEPT !.tab[t].dead = FALSE], u.tab[t].tginfo, 1)
    ELSE [u EXCEPT !.tab[t].dead = FALSE]

(* The other threads of the group are gone. *)
KeepMain(u, t) ==
    IF u.tab[t].tginfo = 0 \/ GroupOf(u, t).alive <= 1 THEN {u}
    ELSE RemoveAll(u, GroupOf(u, t).threads, {x \in DOMAIN u.tab : x # t /\ x # u.tab[x].pid})

parse_execve_exit(u, t, pid, ptid) ==
    UNION {IF ~Has(v, t) THEN {v}
           ELSE LET w == Resurrect(v, t)
                IN  KeepMain(IF is_invalid(w.tab[t]) THEN Complete(w, t, pid, ptid)
                             ELSE [w EXCEPT !.tab[t].pid = pid], t) :
              v \in get_thread(u, t)}

parse_thread_exit(u, t, reaper) ==
    IF ~Has(u, t) THEN {u}
    ELSE LET v == IF u.tab[t].tginfo # 0 THEN Kill(u, t)
                  ELSE [u EXCEPT !.tab[t].dead = TRUE]
         IN  {[v EXCEPT !.to_remove = t,
                        !.tab[t].reaper_tid = IF HasChildren(v.tab[t]) THEN reaper ELSE @]}

-----------------------------------------------------------------------------
(* The kernel, and the events it reports *)

(* Group objects that nothing points to are freed. *)
Collect(u) ==
    [u EXCEPT !.grp = [g \in {h \in DOMAIN u.grp :
                                 \/ \E t \in DOMAIN u.tab : u.tab[t].tginfo = h
                                 \/ \E p \in DOMAIN u.groups : u.groups[p] = h} |-> u.grp[g]]]

(* sinsp::next on an event that handler parses. *)
Handle(handler(_)) ==
    /\ \E u \in RemoveExited(tm) : \E v \in handler(u) : tm' = Collect(v)
    /\ UNCHANGED lost

MayLose == lost < MaxLost /\ \A x \in Tids \ LossyTids : made[x] = 0

(* An event is handled, or it is lost. *)
Report(handler(_)) ==
    \/ Handle(handler)
    \/ MayLose /\ lost' = lost + 1 /\ UNCHANGED tm

InCall(t) == \E k \in calls : k.caller = t

Running(t) == t \in DOMAIN kt /\ ~kt[t].zombie /\ ~kt[t].new /\ ~InCall(t)

Clone(c, t, kind) ==
    /\ Running(c) /\ t \notin DOMAIN kt
    /\ \A x \in Tids : x < t => made[x] > 0
    /\ clones < MaxClones /\ clones' = clones + 1
    /\ lost > 0 => t \in LossyTids
    /\ made' = [made EXCEPT ![t] = @ + 1]
    /\ kt' = Put(kt, t, [pid |-> IF kind = "thread" THEN kt[c].pid ELSE t,
                         ptid |-> IF kind = "thread" THEN kt[c].ptid ELSE c,
                         zombie |-> FALSE, new |-> TRUE, fresh |-> TRUE])
    /\ calls' = calls \cup {[caller |-> c, child |-> t, kind |-> kind,
                              waits |-> kind = "vfork"]}
    /\ early' = early \cup {x \in {t} : kind = "thread" /\ c \in early}
    /\ UNCHANGED <<tm, lost>>

ChildReturns(t) ==
    /\ t \in DOMAIN kt /\ kt[t].new
    /\ kt' = [kt EXCEPT ![t].new = FALSE]
    /\ Report(LAMBDA u : parse_clone_exit_child(u, t, kt[t].pid, kt[t].ptid))
    /\ UNCHANGED <<calls, clones, made, early>>

(* After vfork() the caller waits for the child to exec or to be gone. *)
CallerReturns(k) ==
    /\ k \in calls
    /\ k.waits => k.child \notin DOMAIN kt
    /\ calls' = calls \ {k}
    /\ Report(LAMBDA u : parse_clone_exit_caller(u, k, kt[k.caller].pid, kt[k.caller].ptid))
    /\ UNCHANGED <<kt, clones, made, early>>

Live(pid) == {x \in DOMAIN kt : kt[x].pid = pid /\ ~kt[x].zombie}

KernelReapers(t) ==
    LET others == Live(kt[t].pid) \ {t}
    IN  IF others # {} THEN others ELSE {1}

Exit(t) ==
    /\ Running(t) /\ t # 1
    /\ LET pid == kt[t].pid
           kids == {x \in DOMAIN kt : kt[x].ptid = t}
           gone == IF Live(pid) = {t} THEN {t, pid}
                   ELSE IF t = pid THEN {} ELSE {t}
       IN  \E r \in KernelReapers(t) :
              /\ kt' = [x \in DOMAIN kt \ gone |->
                           [kt[x] EXCEPT !.ptid = IF x \in kids THEN r ELSE @,
                                         !.zombie = @ \/ x = t]]
              /\ early' = early \cup {x \in kids : kt[r].new}
              /\ Report(LAMBDA u : parse_thread_exit(u, t, IF kids = {} THEN 0 ELSE r))
    /\ UNCHANGED <<calls, clones, made>>

(* A thread that is not the leader takes the place of the dead leader. *)
Exec(t) ==
    /\ Running(t) /\ t # 1 /\ Live(kt[t].pid) = {t}
    /\ LET pid == kt[t].pid
       IN  /\ kt' = [x \in DOMAIN kt \ ({t} \ {pid}) |->
                        IF x = pid THEN [kt[t] EXCEPT !.zombie = FALSE]
                        ELSE [kt[x] EXCEPT !.ptid = IF @ = t THEN pid ELSE @]]
           /\ calls' = {[k EXCEPT !.waits = @ /\ k.child # pid] : k \in calls}
           /\ early' = early \cup {x \in {pid} : t \in early}
           /\ Report(LAMBDA u : parse_execve_exit(u, pid, pid, kt[t].ptid))
    /\ UNCHANGED <<clones, made>>

(* Any other event of a thread. *)
Syscall(t) ==
    /\ Running(t)
    /\ Handle(LAMBDA u : get_thread(u, t))
    /\ UNCHANGED <<kt, calls, clones, made, early>>

(* CLONE_STALE_TIME_NS passes without an event.  A clone() that does not   *)
(* wait takes less.                                                        *)
TimePasses ==
    /\ \A t \in DOMAIN kt : ~kt[t].new
    /\ \A k \in calls : k.waits
    /\ kt' = [t \in DOMAIN kt |-> [kt[t] EXCEPT !.fresh = FALSE]]
    /\ tm' = [tm EXCEPT !.recent = {},
                        !.tab = [t \in DOMAIN tm.tab |->
                                    [tm.tab[t] EXCEPT !.clone_ts = IF @ = "fresh" THEN "old" ELSE @]]]
    /\ UNCHANGED <<calls, lost, clones, made, early>>

-----------------------------------------------------------------------------
(* remove_inactive_threads *)

ThreadAlive(u, t) == t \in DOMAIN kt /\ kt[t].pid = u.tab[t].pid

Gone == {t \in DOMAIN tm.tab : ~ThreadAlive(tm, t)}

(* All the invalid threads, and the idle ones that /proc does not know,    *)
(* in any order.  It follows the removal of the thread that exited.        *)
PurgeIdle(u, idle) ==
    LET to_delete == {t \in DOMAIN u.tab : is_invalid(u.tab[t])
                                           \/ (t \in idle /\ ~ThreadAlive(u, t))}
        orders == Bijection(1 .. Cardinality(to_delete), to_delete)
        purged == UNION {RemoveAll(u, s, to_delete) : s \in orders}
    IN  {[v EXCEPT !.tab = [t \in DOMAIN v.tab |-> [v.tab[t] EXCEPT !.expired = FALSE]]] :
            v \in purged}

remove_inactive_threads(idle) ==
    /\ Handle(LAMBDA u : PurgeIdle(u, idle))
    /\ UNCHANGED <<kt, calls, clones, made, early>>

-----------------------------------------------------------------------------

(* The capture starts with the /proc scan. *)
Init ==
    /\ kt = [t \in {1} |-> [pid |-> 1, ptid |-> 0, zombie |-> FALSE, new |-> FALSE, fresh |-> FALSE]]
    /\ calls = {} /\ lost = 0 /\ clones = 0 /\ early = {}
    /\ made = [t \in Tids |-> IF t = 1 THEN 1 ELSE 0]
    /\ \E max \in TableSizes :
       tm = [tab |-> [t \in {1} |-> [NewInfo(1, 0, FALSE, "old") EXCEPT !.tginfo = 1]],
             grp |-> [g \in {1} |-> [alive |-> 1, reaper |-> TRUE, threads |-> <<1>>]],
             groups |-> [pid \in {1} |-> 1],
             to_remove |-> 0, recent |-> {}, leaked |-> FALSE, max |-> max]

Kernel ==
    \E t \in Tids :
        \/ \E c \in Tids, kind \in Kinds : Clone(c, t, kind)
        \/ ChildReturns(t) \/ Exit(t) \/ Exec(t) \/ Syscall(t)

Next ==
    \/ Kernel \/ \E k \in calls : CallerReturns(k)
    \/ TimePasses
    \/ \E idle \in SUBSET Gone : remove_inactive_threads(idle)

Spec == Init /\ [][Next]_vars

FairSpec == Spec /\ WF_vars(remove_inactive_threads(Gone))

-----------------------------------------------------------------------------

(* The parts have their types: the table and the kernel know thread ids    *)
(* only, no group counts below zero, and neither the pointers to groups    *)
(* nor the lists of children dangle after remove_thread or add_thread.     *)
TypeOK ==
    /\ DOMAIN kt \subseteq Tids /\ DOMAIN tm.tab \subseteq Tids
    /\ lost \in 0 .. MaxLost /\ clones \in 0 .. MaxClones /\ made \in [Tids -> 0 .. MaxClones + 1]
    /\ tm.to_remove \in Tids \cup {0} /\ tm.leaked \in BOOLEAN /\ early \subseteq Tids
    /\ \A g \in DOMAIN tm.grp : tm.grp[g].alive \in Nat
    /\ \A t \in DOMAIN tm.tab :
          /\ tm.tab[t].tginfo \in DOMAIN tm.grp \cup {0}
          /\ tm.tab[t].children \subseteq DOMAIN tm.tab

(* The count of a group is the number of its threads in the table that are *)
(* not dead, whatever was lost, out of order or done twice: exits counted  *)
(* by parse_thread_exit are not counted again by remove_thread, and execve *)
(* counts a dead main thread back in.  The exception is an entry that was  *)
(* freed without remove_thread, by add_thread or as somebody's leader.     *)
GroupCountExact ==
    tm.leaked \/ \A g \in DOMAIN tm.grp :
        tm.grp[g].alive = Cardinality({t \in DOMAIN tm.tab :
                                          tm.tab[t].tginfo = g /\ ~tm.tab[t].dead})

(* m_children and m_ptid agree: a thread in the list of another has it as  *)
(* its parent, through every reparenting by assign_children_to_reaper.     *)
ChildrenPointBack ==
    \A t \in DOMAIN tm.tab : \A c \in tm.tab[t].children : tm.tab[c].ptid = t

(* The removal of any thread would not make it the reaper of itself, the   *)
(* case in which assign_children_to_reaper throws.                         *)
NeverOwnReaper ==
    \A t \in DOMAIN tm.tab :
        tm.tab[t].tginfo # 0 /\ HasChildren(tm.tab[t]) => Reaper(Kill(tm, t), t) # t

Reused == \E t \in Tids : made[t] > 1

(* As long as no event is lost, the table has room and no tid was used     *)
(* twice, the table says of every thread that returned from clone() what   *)
(* the kernel knows: its process, its parent and whether it is alive.  It  *)
(* does so in whichever order the two returns of clone(), exits and execve *)
(* came, once the pending removal of an exited thread is done.  The        *)
(* exception is the parent of a thread that the kernel gave to one that    *)
(* was still inside clone(): the table does not know that reaper, and when *)
(* /proc has no answer either the children go to another.                  *)
MirrorsKernel ==
    lost = 0 /\ ~Reused /\ tm.max >= Cardinality(Tids) /\ tm.to_remove = 0 =>
        \A t \in {x \in DOMAIN kt : ~kt[x].new} :
            /\ Has(tm, t) /\ tm.tab[t].pid = kt[t].pid
            /\ tm.tab[t].dead <=> kt[t].zombie
            /\ ~kt[t].zombie /\ t \notin early => tm.tab[t].ptid = kt[t].ptid

(* Whatever was lost, one sweep of remove_inactive_threads over idle       *)
(* threads leaves none that the kernel does not know, unless tids were     *)
(* used again.  A reaper that remove_thread looks up and does not find     *)
(* leaves a placeholder, which the next sweep takes.                       *)
SweepClears ==
    ~Reused /\ tm.to_remove = 0 =>
        \A u \in PurgeIdle(tm, DOMAIN tm.tab) : \A t \in DOMAIN u.tab :
            ThreadAlive(u, t) \/ is_invalid(u.tab[t])

(* "Other cases are left to the autopurge mechanisms that eventually clean *)
(* up stale threads" (parse_clone_exit_caller): again and again the table  *)
(* has no thread that the kernel does not know.                            *)
StaleEventuallyPurged == []<>(Gone = {})
=============================================================================
