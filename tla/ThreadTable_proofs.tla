------------------------- MODULE ThreadTable_proofs -------------------------
(***************************************************************************)
(* Theorems about the thread table, for any number of thread ids, clones   *)
(* and lost events.  Every handler of the parser is shown to keep Base of  *)
(* ThreadTableInv, and that a thread that exited without a group is the    *)
(* one whose removal was asked for (Tables).  KInv says what the kernel's  *)
(* side guarantees.                                                        *)
(***************************************************************************)
EXTENDS ThreadTableInv

(* The prover of the steps that name none; arithmetic is left to SMT.     *)
USE ZenonT(40)

(* The removal of a list of threads *)

RemoveStep(s, S, n, X) ==
    UNION {IF s[n] \in S THEN remove_thread(v, s[n]) ELSE {v} : v \in X}

(* g is what the first m removals leave. *)
Walk(g, u, s, S, m) ==
    g = [n \in 0 .. m |-> IF n = 0 THEN {u} ELSE RemoveStep(s, S, n, g[n - 1])]

Walked(u, s, S) == CHOOSE g : Walk(g, u, s, S, Len(s))

(* There is such a function, whatever the number of removals. *)
LEMMA WalkExists ==
    ASSUME NEW u, NEW s, NEW S, NEW m \in Nat
    PROVE  \E g : Walk(g, u, s, S, m)
  <1> DEFINE N == {n \in Nat : \E g : Walk(g, u, s, S, n)}
  <1>1. 0 \in N
    <2> DEFINE g == [n \in 0 .. 0 |-> {u}]
    <2>1. g = [n \in 0 .. 0 |-> IF n = 0 THEN {u} ELSE RemoveStep(s, S, n, g[n - 1])]
      BY SMTT(60), Z3T(60)
    <2> HIDE DEF g
    <2>2. Walk(g, u, s, S, 0)
      BY <2>1 DEF Walk
    <2> QED BY <2>2
  <1>2. ASSUME NEW n \in N PROVE n + 1 \in N
    <2>1. PICK g : Walk(g, u, s, S, n)
      OBVIOUS
    <2> DEFINE F(k) == IF k <= n THEN g[k] ELSE RemoveStep(s, S, n + 1, g[n])
               h == [k \in 0 .. n + 1 |-> F(k)]
    <2>2. \A k \in 0 .. n : g[k] = IF k = 0 THEN {u} ELSE RemoveStep(s, S, k, g[k - 1])
      BY <2>1 DEF Walk
    <2>3. \A k \in 0 .. n + 1 : F(k) = IF k = 0 THEN {u} ELSE RemoveStep(s, S, k, h[k - 1])
      <3> TAKE k \in 0 .. n + 1
      <3>1. CASE k = 0
        BY <2>2, <3>1, SMTT(60), Z3T(60)
      <3>2. CASE k # 0 /\ k <= n
        <4>1. k - 1 \in 0 .. n + 1 /\ k - 1 <= n /\ k \in 0 .. n
          BY <3>2, SMTT(60), Z3T(60)
        <4>2. h[k - 1] = g[k - 1]
          BY <4>1
        <4> HIDE DEF h
        <4> QED BY <2>2, <3>2, <4>1, <4>2
      <3>3. CASE k = n + 1
        <4>1. h[n] = g[n] /\ k - 1 = n /\ k # 0 /\ ~(k <= n)
          BY <3>3, SMTT(60), Z3T(60)
        <4> HIDE DEF h
        <4> QED BY <3>3, <4>1
      <3> QED BY <3>1, <3>2, <3>3, SMTT(60), Z3T(60)
    <2>4. h = [k \in 0 .. n + 1 |-> IF k = 0 THEN {u} ELSE RemoveStep(s, S, k, h[k - 1])]
      BY <2>3
    <2> HIDE DEF h
    <2>5. Walk(h, u, s, S, n + 1)
      BY <2>4 DEF Walk
    <2>6. n + 1 \in Nat
      BY SMTT(60), Z3T(60)
    <2> QED BY <2>5, <2>6
  <1> HIDE DEF N
  <1>3. N = Nat
    BY <1>1, <1>2, SetInduction DEF N
  <1> QED BY <1>3 DEF N

(* The removal of a list is the end of such a walk. *)
LEMMA RemoveAllIs ==
    ASSUME NEW u, NEW s, NEW S
    PROVE  RemoveAll(u, s, S) = Walked(u, s, S)[Len(s)]
  BY DEF RemoveAll, Walked, Walk, RemoveStep

(* Removing any list of threads keeps the invariant. *)
LEMMA RemoveAllKeeps ==
    ASSUME KType, NEW u, Base(u), NEW s, Len(s) \in Nat, NEW S, NEW v \in RemoveAll(u, s, S)
    PROVE  Keeps(u, v)
  <1> DEFINE a == Walked(u, s, S)
             L == Len(s)
             N == {n \in Nat : n <= L => \A w \in a[n] : Keeps(u, w)}
  <1>1. Walk(a, u, s, S, L)
    BY WalkExists DEF Walked
  <1>2. v \in a[L]
    BY RemoveAllIs
  <1> HIDE DEF a, L
  <1>3. \A n \in 0 .. L : a[n] = IF n = 0 THEN {u} ELSE RemoveStep(s, S, n, a[n - 1])
    BY <1>1 DEF Walk
  <1>4. 0 \in N
    BY <1>3, KeepsSame, SMTT(60), Z3T(60) DEF L
  <1>5. ASSUME NEW n \in N PROVE n + 1 \in N
    <2> SUFFICES ASSUME n + 1 <= L, NEW w \in a[n + 1] PROVE Keeps(u, w)
      BY SMTT(60), Z3T(60)
    <2>1. n + 1 \in 0 .. L /\ n + 1 # 0 /\ (n + 1) - 1 = n /\ n <= L
      BY SMTT(60), Z3T(60) DEF L
    <2>2. w \in RemoveStep(s, S, n + 1, a[n])
      BY <1>3, <2>1
    <2>3. PICK x \in a[n] : w \in IF s[n + 1] \in S THEN remove_thread(x, s[n + 1]) ELSE {x}
      BY <2>2 DEF RemoveStep
    <2>4. Keeps(u, x)
      BY <2>1
    <2>5. CASE w = x
      BY <2>4, <2>5
    <2>6. CASE w \in remove_thread(x, s[n + 1])
      <3>1. Keeps(x, w)
        BY <2>4, <2>6, RemoveThreadKeeps, SMTT(60), Z3T(60) DEF Keeps
      <3> QED BY <2>4, <3>1, KeepsTwice
    <2> QED BY <2>3, <2>5, <2>6
  <1> HIDE DEF N
  <1>6. N = Nat
    BY <1>4, <1>5, SetInduction DEF N
  <1> QED BY <1>2, <1>6, SMTT(60), Z3T(60) DEF N, L

-----------------------------------------------------------------------------
(* The handlers *)

(* The state in which a handler runs: the removal the event before asked   *)
(* for is done.                                                            *)
Ready(u) == Base(u) /\ Pend(u) = {} /\ u.to_remove = 0

(* What keeps a state that awaits no removal awaits none. *)
LEMMA KeepsReady ==
    ASSUME NEW u, NEW v, Ready(u), Keeps(u, v)
    PROVE  Ready(v)
  BY DEF Ready, Keeps

(* to_remove and recent are in no part of the invariant but the type. *)
LEMMA SameTables ==
    ASSUME NEW u, Base(u), NEW v \in Manager, v.tab = u.tab, v.grp = u.grp,
           v.groups = u.groups, v.leaked = u.leaked
    PROVE  Base(v) /\ Pend(v) = Pend(u)
  <1>1. Refs(v) /\ Lists(v) /\ Counts(v) /\ Pend(v) = Pend(u)
    BY SameGroups
  <1>2. Links(v) /\ Reapers(v)
    BY DEF Base, Links, Reapers
  <1> QED BY <1>1, <1>2 DEF Base

(* RemoveExited leaves a state in which a handler can run. *)
LEMMA RemoveExitedReady ==
    ASSUME KType, NEW u, Base(u), Pend(u) \subseteq {u.to_remove}, NEW v \in RemoveExited(u)
    PROVE  Ready(v)
  <1>0. u \in Manager /\ Pend(u) \subseteq Tids /\ 0 \notin Tids
    BY Types, ThreadAssumption DEF Base, Pend
  <1>1. CASE u.to_remove = 0
    BY <1>0, <1>1 DEF RemoveExited, Ready
  <1>2. CASE u.to_remove # 0
    <2> DEFINE t == u.to_remove
               p == IF Has(u, t) THEN u.tab[t].ptid ELSE -1
               R == u.recent \cup {<<p, t>>}
               x == [u EXCEPT !.to_remove = 0]
               w == [x EXCEPT !.recent = R]
    <2>1. v \in remove_thread([u EXCEPT !.to_remove = 0, !.recent = @ \cup {<<p, t>>}], t)
      BY <1>2 DEF RemoveExited
    <2>2. [u EXCEPT !.to_remove = 0, !.recent = @ \cup {<<p, t>>}] = w
      BY <1>0 DEF Manager
    <2>3. R \in SUBSET (Int \X Tids)
      <3>1. ASSUME Has(u, t) PROVE u.tab[t] \in Info
        BY <1>0, <3>1, Types DEF Has
      <3>2. p \in Int
        BY <3>1, SMTT(60), Z3T(60) DEF Info
      <3>3. t \in Tids /\ u.recent \in SUBSET (Int \X Tids)
        BY <1>0, <1>2, Types
      <3> HIDE DEF p, t
      <3> QED BY <3>2, <3>3, SMTT(60), Z3T(60)
    <2> HIDE DEF R, p
    <2>4. x = Mgr(u.tab, u.grp, u.groups, 0, u.recent, u.leaked, u.max)
      BY <1>0, MgrIs, SMTT(60), Z3T(60) DEF Mgr
    <2> HIDE DEF x
    <2>5. w = Mgr(u.tab, u.grp, u.groups, 0, R, u.leaked, u.max)
      BY <2>4, SMTT(60), Z3T(60) DEF Mgr
    <2> HIDE DEF w
    <2>6. w \in Manager
      BY <1>0, <2>3, <2>5, Types, MgrType
    <2>7. /\ w.tab = u.tab /\ w.grp = u.grp /\ w.groups = u.groups /\ w.leaked = u.leaked
          /\ w.to_remove = 0
      BY <2>5 DEF Mgr
    <2>8. Base(w) /\ Pend(w) = Pend(u)
      BY <2>6, <2>7, SameTables
    <2>9. v \in remove_thread(w, t)
      BY <2>1, <2>2
    <2>10. Keeps(w, v) /\ t \notin Pend(v)
      BY <2>8, <2>9, RemoveThreadKeeps
    <2> QED BY <2>7, <2>8, <2>10 DEF Keeps, Ready
  <1> QED BY <1>1, <1>2

(* Completing an entry. *)
LEMMA CompleteKeeps ==
    ASSUME NEW u, Ready(u), NEW t \in DOMAIN u.tab, NEW pid \in Int, NEW ptid \in Int
    PROVE  LET v == Complete(u, t, pid, ptid)
           IN  Keeps(u, v) /\ DOMAIN v.tab = DOMAIN u.tab
  <1> DEFINE v == Complete(u, t, pid, ptid)
  <1> SUFFICES Keeps(u, v) /\ DOMAIN v.tab = DOMAIN u.tab
    OBVIOUS
  <1>0. Base(u) /\ u \in Manager /\ Links(u) /\ Reapers(u)
    BY DEF Ready, Base
  <1>1. CASE ~is_invalid(u.tab[t])
    <2>1. v = u
      BY <1>1 DEF Complete
    <2> HIDE DEF v
    <2> QED BY <1>0, <2>1, KeepsSame
  <1>2. CASE is_invalid(u.tab[t])
    <2> DEFINE d == [u.tab[t] EXCEPT !.pid = pid]
               e == [d EXCEPT !.ptid = ptid]
               y == [u EXCEPT !.tab[t].pid = pid, !.tab[t].ptid = ptid]
    <2>1. v = create_thread_dependencies(y, t, ValidTids(y))
      BY <1>2 DEF Complete
    <2>2. u.tab[t] \in Info
      BY <1>0, Types
    <2>3. d \in Info /\ e \in Info
      BY <2>2 DEF Info
    <2>4. /\ e.tginfo = u.tab[t].tginfo /\ e.dead = u.tab[t].dead
          /\ e.children = u.tab[t].children /\ e.reaper_tid = u.tab[t].reaper_tid
      BY <2>2 DEF Info
    <2>7. [u EXCEPT !.tab[t] = e] = y
      OBVIOUS
    <2> HIDE DEF d, e
    <2>8. Orphan(u, t)
      <3> SUFFICES ASSUME NEW p \in DOMAIN u.tab, t \in u.tab[p].children PROVE FALSE
        BY DEF Orphan
      <3>1. u.tab[t].ptid = p /\ u.tab[t].pid >= 0
        BY <1>0 DEF Links
      <3>2. DOMAIN u.tab \subseteq Tids
        BY <1>0, Types
      <3>3. p \in Nat
        BY <3>2, ThreadAssumption
      <3>4. u.tab[t].pid \in Int
        BY <2>2 DEF Info
      <3> QED BY <1>2, <3>1, <3>3, <3>4, SMTT(60), Z3T(60) DEF is_invalid
    <2>9. u.tab[t].reaper_tid # t
      BY <1>0 DEF Reapers
    <2> DEFINE z == [u EXCEPT !.tab[t] = e]
    <2>10. /\ Keeps(u, z) /\ DOMAIN z.tab = DOMAIN u.tab /\ z.tab[t] = e
           /\ \A k \in DOMAIN u.tab \ {t} : z.tab[k] = u.tab[k]
      BY <1>0, <2>3, <2>4, <2>8, <2>9, EntryKeeps, SMTT(60), Z3T(60)
    <2>11. v = create_thread_dependencies(z, t, ValidTids(z))
      BY <2>1, <2>7
    <2> HIDE DEF z, v
    <2>12. Orphan(z, t)
      BY <2>4, <2>8, <2>10 DEF Orphan
    <2>13. z.tab[t].tginfo = 0 => ~z.tab[t].dead
      BY <2>4, <2>10 DEF Ready, Pend
    <2>14. ValidTids(z) \ {t} \subseteq DOMAIN z.tab /\ t \in DOMAIN z.tab /\ Base(z)
      BY <2>10 DEF ValidTids, Keeps
    <2>15. Keeps(z, v) /\ DOMAIN v.tab = DOMAIN z.tab
      BY <2>11, <2>12, <2>13, <2>14, DependenciesKeep
    <2> QED BY <2>10, <2>15, KeepsTwice
  <1> QED BY <1>1, <1>2

(* A new thread reported by itself. *)
LEMMA AddFromChildKeeps ==
    ASSUME KType, NEW u, Ready(u), NEW t \in Tids, NEW pid \in Tids, NEW ptid \in Int,
           t = pid => ptid \in Tids, NEW v \in AddFromChild(u, t, pid, ptid)
    PROVE  Keeps(u, v)
  <1> DEFINE lookup == IF t = pid THEN ptid ELSE pid
             e == NewInfo(pid, ptid, TRUE, "fresh")
  <1>0. Tids \subseteq Int
    BY ThreadAssumption, SMTT(60), Z3T(60)
  <1>1. PICK w \in get_thread(u, lookup) :
            v = IF ~Has(w, lookup) THEN w
                ELSE add_thread(IF t = pid THEN w ELSE Complete(w, pid, pid, ptid), t, e)
    BY DEF AddFromChild
  <1>2. lookup \in Tids /\ (t # pid => lookup = pid)
    OBVIOUS
  <1>3. Fresh(e)
    <2>1. pid \in Int /\ TRUE \in BOOLEAN /\ "fresh" \in {"none", "fresh", "old"}
      BY <1>0
    <2> QED BY <2>1, NewInfoFresh
  <1> HIDE DEF lookup, e
  <1>4. Keeps(u, w)
    BY <1>2, GetThreadKeeps DEF Ready
  <1>5. Ready(w)
    BY <1>4, KeepsReady
  <1>6. CASE v = w
    BY <1>4, <1>6
  <1>7. CASE Has(w, lookup) /\ t = pid /\ v = add_thread(w, t, e)
    <2>1. Keeps(w, v)
      BY <1>3, <1>5, <1>7, AddThreadKeeps DEF Ready
    <2> QED BY <1>4, <2>1, KeepsTwice
  <1>8. CASE Has(w, lookup) /\ t # pid /\ v = add_thread(Complete(w, pid, pid, ptid), t, e)
    <2> DEFINE x == Complete(w, pid, pid, ptid)
    <2>1. pid \in DOMAIN w.tab /\ pid \in Int
      BY <1>0, <1>2, <1>8 DEF Has
    <2>2. Keeps(w, x)
      BY <1>5, <2>1, CompleteKeeps
    <2> HIDE DEF x
    <2>3. Keeps(x, v)
      BY <1>3, <1>8, <2>2, AddThreadKeeps DEF Keeps, x
    <2> QED BY <1>4, <2>2, <2>3, KeepsTwice
  <1> QED BY <1>1, <1>6, <1>7, <1>8

(* The return of clone in the child. *)
LEMMA ChildExitKeeps ==
    ASSUME KType, NEW u, Ready(u), NEW t \in Tids, NEW pid \in Tids, NEW ptid \in Int,
           t = pid => ptid \in Tids, NEW v \in parse_clone_exit_child(u, t, pid, ptid)
    PROVE  Ready(v)
  <1>1. CASE v = u
    BY <1>1
  <1>2. ASSUME v # u
        PROVE  \E w : (w = u \/ w \in remove_thread(u, t)) /\ v \in AddFromChild(w, t, pid, ptid)
    BY <1>2 DEF parse_clone_exit_child
  <1>3. ASSUME NEW w, w = u \/ w \in remove_thread(u, t), v \in AddFromChild(w, t, pid, ptid)
        PROVE  Ready(v)
    <2>1. Keeps(u, w)
      BY <1>3, KeepsSame, RemoveThreadKeeps DEF Ready
    <2>2. Ready(w)
      BY <2>1, KeepsReady
    <2>3. Keeps(w, v)
      BY <1>3, <2>2, AddFromChildKeeps
    <2> QED BY <2>2, <2>3, KeepsReady
  <1> QED BY <1>1, <1>2, <1>3

(* The return of clone in the caller. *)
LEMMA CallerExitKeeps ==
    ASSUME KType, NEW u, Ready(u), NEW k, k.caller \in Tids, k.child \in Tids,
           NEW pid \in Int, NEW ptid \in Int, NEW v \in parse_clone_exit_caller(u, k, pid, ptid)
    PROVE  Ready(v)
  <1> DEFINE c == k.caller
             t == k.child
  <1>0. Tids \subseteq Int
    BY ThreadAssumption, SMTT(60), Z3T(60)
  <1>1. PICK x \in get_thread(u, c) :
            v \in IF ~Has(x, c) THEN {x}
                  ELSE IF k.kind = "vfork" THEN {Complete(x, c, pid, ptid)}
                       ELSE AddFromCaller(Complete(x, c, pid, ptid), c, k)
    BY DEF parse_clone_exit_caller
  <1> HIDE DEF c, t
  <1>2. c \in Tids /\ t \in Tids
    BY DEF c, t
  <1>3. Ready(x)
    BY <1>2, GetThreadKeeps, KeepsReady DEF Ready
  <1>4. CASE ~Has(x, c)
    BY <1>1, <1>3, <1>4
  <1>5. CASE Has(x, c)
    <2> DEFINE w == Complete(x, c, pid, ptid)
    <2>1. Keeps(x, w) /\ DOMAIN w.tab = DOMAIN x.tab
      BY <1>3, <1>5, CompleteKeeps, SMTT(60), Z3T(60) DEF Has
    <2>2. v = w \/ v \in AddFromCaller(w, c, k)
      BY <1>1, <1>5
    <2> HIDE DEF w
    <2>3. Ready(w) /\ c \in DOMAIN w.tab
      BY <1>3, <1>5, <2>1, KeepsReady DEF Has
    <2>4. ASSUME v \in AddFromCaller(w, c, k), v # w PROVE Ready(v)
      <3> DEFINE info(y) == IF Has(y, c) THEN y.tab[c] ELSE w.tab[c]
                 e(y) == NewChild(info(y), k)
      <3>1. PICK y \in remove_thread(w, t) : v = add_thread(y, t, e(y))
        BY <2>4 DEF AddFromCaller, t
      <3>2. Keeps(w, y) /\ Base(y)
        BY <2>3, RemoveThreadKeeps DEF Ready, Keeps
      <3>3. info(y) \in Info
        BY <2>3, <3>2, Types DEF Ready, Base, Has
      <3>4. Fresh(e(y))
        <4> DEFINE i == info(y)
        <4>1. i.pid \in Int /\ i.ptid \in Int
          BY <3>3 DEF Info
        <4> HIDE DEF i
        <4>2. c \in Int /\ t \in Int /\ FALSE \in BOOLEAN /\ "fresh" \in {"none", "fresh", "old"}
          BY <1>0, <1>2
        <4>3. \/ NewChild(i, k) = NewInfo(i.pid, i.ptid, FALSE, "fresh")
              \/ NewChild(i, k) = NewInfo(t, c, FALSE, "fresh")
          BY DEF NewChild, t, c
        <4>4. Fresh(NewChild(i, k))
          BY <4>1, <4>2, <4>3, NewInfoFresh
        <4> QED BY <4>4 DEF i
      <3> HIDE DEF e
      <3>5. Keeps(y, v)
        BY <1>2, <3>1, <3>2, <3>4, AddThreadKeeps
      <3> QED BY <2>3, <3>2, <3>5, KeepsReady
    <2> QED BY <2>2, <2>3, <2>4
  <1> QED BY <1>4, <1>5

(* execve finds the thread alive. *)
LEMMA ResurrectKeeps ==
    ASSUME NEW u, Ready(u), NEW t \in DOMAIN u.tab
    PROVE  LET v == Resurrect(u, t) IN Keeps(u, v) /\ DOMAIN v.tab = DOMAIN u.tab
  <1> DEFINE v == Resurrect(u, t)
             d == [u.tab[t] EXCEPT !.dead = FALSE]
             n == 1
             c == SetDead(u, t, d, n)
             w == [u EXCEPT !.tab[t] = d]
  <1> SUFFICES Keeps(u, v) /\ DOMAIN v.tab = DOMAIN u.tab
    OBVIOUS
  <1>0. Base(u) /\ u.tab[t] \in Info /\ u.tab[t].reaper_tid # t
    BY Types DEF Ready, Base, Reapers
  <1>1. /\ d \in Info /\ ~d.dead /\ d.tginfo = u.tab[t].tginfo
        /\ d.children = u.tab[t].children /\ d.reaper_tid = u.tab[t].reaper_tid
        /\ d.ptid = u.tab[t].ptid /\ d.pid = u.tab[t].pid
    BY <1>0 DEF Info
  <1>2. CASE u.tab[t].dead /\ u.tab[t].tginfo # 0
    <2>1. v = c
      BY <1>2 DEF Resurrect, SetDead
    <2>2. d.dead # u.tab[t].dead
      BY <1>1, <1>2
    <2>3. n \in Int /\ n = 1
      BY SMTT(60), Z3T(60)
    <2> HIDE DEF v, d, n
    <2>4. Keeps(u, c) /\ OneChanged(u, c, t, d)
      BY <1>0, <1>1, <1>2, <2>2, <2>3, DeadKeeps
    <2> QED BY <2>1, <2>4 DEF OneChanged
  <1>3. CASE ~(u.tab[t].dead /\ u.tab[t].tginfo # 0)
    <2>1. v = w
      BY <1>3 DEF Resurrect
    <2>2. ~u.tab[t].dead
      BY <1>3 DEF Ready, Pend
    <2>3. d.dead = u.tab[t].dead
      <3>1. u.tab[t].dead \in BOOLEAN /\ d.dead \in BOOLEAN
        BY <1>0, <1>1 DEF Info
      <3> QED BY <1>1, <2>2, <3>1
    <2> HIDE DEF v, d
    <2>4. Keeps(u, w) /\ DOMAIN w.tab = DOMAIN u.tab
      BY <1>0, <1>1, <2>3, EntryKeeps, SMTT(60), Z3T(60)
    <2> QED BY <2>1, <2>4
  <1> QED BY <1>2, <1>3

(* The other threads of the group are removed. *)
LEMMA KeepMainKeeps ==
    ASSUME KType, NEW u, Base(u), NEW t \in DOMAIN u.tab, NEW v \in KeepMain(u, t)
    PROVE  Keeps(u, v)
  <1> DEFINE g == u.tab[t].tginfo
             s == u.grp[g].threads
  <1>1. CASE v = u
    BY <1>1, KeepsSame
  <1>2. ASSUME v # u PROVE g # 0 /\ \E S : v \in RemoveAll(u, s, S)
    BY <1>2 DEF KeepMain, GroupOf
  <1>3. ASSUME g # 0 PROVE Len(s) \in Nat
    <2>1. g \in DOMAIN u.grp
      BY <1>3 DEF Base, Refs
    <2>2. u.grp[g] \in Group
      BY <2>1, Types DEF Base
    <2>3. s \in Seq(Tids)
      BY <2>2 DEF Group
    <2> HIDE DEF s
    <2> QED BY <2>3, SMTT(60), Z3T(60)
  <1> HIDE DEF s, g
  <1> QED BY <1>1, <1>2, <1>3, RemoveAllKeeps

(* The exit of execve. *)
LEMMA ExecveExitKeeps ==
    ASSUME KType, NEW u, Ready(u), NEW t \in Tids, NEW pid \in Tids, NEW ptid \in Int,
           NEW v \in parse_execve_exit(u, t, pid, ptid)
    PROVE  Ready(v)
  <1>0. Tids \subseteq Nat /\ pid \in Int /\ pid >= 0
    BY ThreadAssumption, SMTT(60), Z3T(60)
  <1>1. PICK x \in get_thread(u, t) :
            v \in IF ~Has(x, t) THEN {x}
                  ELSE LET w == Resurrect(x, t)
                       IN  KeepMain(IF is_invalid(w.tab[t]) THEN Complete(w, t, pid, ptid)
                                    ELSE [w EXCEPT !.tab[t].pid = pid], t)
    BY DEF parse_execve_exit
  <1>2. Ready(x)
    BY GetThreadKeeps, KeepsReady DEF Ready
  <1>3. CASE ~Has(x, t)
    BY <1>1, <1>2, <1>3
  <1>4. CASE Has(x, t)
    <2> DEFINE w == Resurrect(x, t)
               c == Complete(w, t, pid, ptid)
               d == [w EXCEPT !.tab[t].pid = pid]
               y == IF is_invalid(w.tab[t]) THEN c ELSE d
    <2>1. v \in KeepMain(y, t)
      BY <1>1, <1>4
    <2>2. Keeps(x, w) /\ DOMAIN w.tab = DOMAIN x.tab
      BY <1>2, <1>4, ResurrectKeeps DEF Has
    <2> HIDE DEF w
    <2>3. Ready(w) /\ t \in DOMAIN w.tab
      BY <1>2, <1>4, <2>2, KeepsReady DEF Has
    <2>4. Keeps(w, c) /\ DOMAIN c.tab = DOMAIN w.tab
      BY <1>0, <2>3, CompleteKeeps, SMTT(60), Z3T(60)
    <2>5. Keeps(w, d) /\ DOMAIN d.tab = DOMAIN w.tab
      <3> DEFINE e == [w.tab[t] EXCEPT !.pid = pid]
      <3>1. w.tab[t] \in Info /\ w.tab[t].reaper_tid # t /\ Base(w)
        BY <2>3, Types DEF Ready, Base, Reapers
      <3>2. /\ e \in Info /\ e.tginfo = w.tab[t].tginfo /\ e.dead = w.tab[t].dead
            /\ e.children = w.tab[t].children /\ e.reaper_tid = w.tab[t].reaper_tid
            /\ e.ptid = w.tab[t].ptid /\ e.pid >= 0
        BY <1>0, <3>1 DEF Info
      <3>3. d = [w EXCEPT !.tab[t] = e]
        OBVIOUS
      <3> HIDE DEF e, d
      <3> QED BY <2>3, <3>1, <3>2, <3>3, EntryKeeps, SMTT(60), Z3T(60)
    <2> HIDE DEF c, d
    <2>6. Keeps(w, y) /\ DOMAIN y.tab = DOMAIN w.tab
      BY <2>4, <2>5
    <2> HIDE DEF y
    <2>7. Keeps(y, v)
      BY <2>1, <2>3, <2>6, KeepMainKeeps DEF Keeps
    <2> QED BY <2>3, <2>6, <2>7, KeepsReady
  <1> QED BY <1>3, <1>4

(* A thread without a group dies. *)
LEMMA DiesAlone ==
    ASSUME NEW u, Base(u), NEW t \in DOMAIN u.tab, u.tab[t].tginfo = 0,
           NEW d \in Info, d.tginfo = 0,
           d.children = u.tab[t].children, d.reaper_tid = u.tab[t].reaper_tid,
           d.ptid = u.tab[t].ptid, d.pid = u.tab[t].pid
    PROVE  LET v == [u EXCEPT !.tab[t] = d]
           IN  /\ Base(v) /\ Pend(v) \subseteq Pend(u) \cup {t}
               /\ DOMAIN v.tab = DOMAIN u.tab /\ v.tab[t] = d
  <1> DEFINE v == [u EXCEPT !.tab[t] = d]
  <1>0. u \in Manager /\ Links(u) /\ Reapers(u) /\ Refs(u) /\ Lists(u) /\ Counts(u)
    BY DEF Base
  <1>1. /\ v \in Manager /\ DOMAIN v.tab = DOMAIN u.tab /\ v.tab[t] = d
        /\ \A x \in DOMAIN u.tab \ {t} : v.tab[x] = u.tab[x]
        /\ v.grp = u.grp /\ v.groups = u.groups /\ v.leaked = u.leaked
    BY <1>0, SetEntry, SMTT(60), Z3T(60)
  <1> HIDE DEF v
  <1>2. \A x \in DOMAIN u.tab :
           /\ v.tab[x].pid = u.tab[x].pid /\ v.tab[x].ptid = u.tab[x].ptid
           /\ v.tab[x].children = u.tab[x].children /\ v.tab[x].tginfo = u.tab[x].tginfo
           /\ v.tab[x].reaper_tid = u.tab[x].reaper_tid
    BY <1>1
  <1>3. Links(v) /\ Reapers(v) /\ Refs(v)
    BY <1>0, <1>1, <1>2, SMTT(60), Z3T(60) DEF Links, Reapers, Refs
  <1>4. Lists(v)
    BY <1>0, <1>1, <1>2, SameLists, SMTT(60), Z3T(60)
  <1>5. \A g \in DOMAIN u.grp : LiveOf(v, g) = LiveOf(u, g)
    <2>1. 0 \notin DOMAIN u.grp
      BY <1>0, Types
    <2> QED BY <1>1, <2>1, SMTT(60), Z3T(60) DEF LiveOf
  <1>6. Counts(v)
    BY <1>0, <1>1, <1>5 DEF Counts
  <1>7. Pend(v) \subseteq Pend(u) \cup {t}
    BY <1>1 DEF Pend
  <1>8. Base(v)
    BY <1>1, <1>3, <1>4, <1>6 DEF Base
  <1> QED BY <1>1, <1>7, <1>8 DEF v

(* What holds between two events: no thread waits for its removal but the  *)
(* one named in to_remove.                                                 *)
Tables(u) == Base(u) /\ Pend(u) \subseteq {u.to_remove}

(* The exit of a thread, whose removal is left to the next event. *)
LEMMA ThreadExitKeeps ==
    ASSUME NEW u, Ready(u), NEW t \in Tids, NEW reaper \in Tids \cup {0}, reaper # t,
           NEW v \in parse_thread_exit(u, t, reaper)
    PROVE  Tables(v)
  <1>1. CASE ~Has(u, t)
    <2>1. v = u
      BY <1>1 DEF parse_thread_exit
    <2> QED BY <2>1 DEF Ready, Tables
  <1>2. CASE Has(u, t)
    <2> DEFINE d == [u.tab[t] EXCEPT !.dead = TRUE]
               w == IF u.tab[t].tginfo # 0 THEN Kill(u, t) ELSE [u EXCEPT !.tab[t].dead = TRUE]
               q == IF HasChildren(w.tab[t]) THEN reaper ELSE w.tab[t].reaper_tid
               x == [w EXCEPT !.to_remove = t]
               e == [x.tab[t] EXCEPT !.reaper_tid = q]
    <2>0. t \in DOMAIN u.tab /\ Base(u) /\ u.tab[t] \in Info /\ Pend(u) = {}
      BY <1>2, Types DEF Has, Ready, Base
    <2>1. v = [w EXCEPT !.to_remove = t,
                        !.tab[t].reaper_tid = IF HasChildren(w.tab[t]) THEN reaper ELSE @]
      BY <1>2 DEF parse_thread_exit
    <2>2. /\ d \in Info /\ d.tginfo = u.tab[t].tginfo /\ d.children = u.tab[t].children
          /\ d.reaper_tid = u.tab[t].reaper_tid /\ d.ptid = u.tab[t].ptid
          /\ d.pid = u.tab[t].pid
      BY <2>0 DEF Info
    <2>3. Base(w) /\ Pend(w) \subseteq {t} /\ t \in DOMAIN w.tab
      <3>1. CASE u.tab[t].tginfo # 0
        <4>1. Keeps(u, Kill(u, t)) /\ OneChanged(u, Kill(u, t), t, d)
          BY <2>0, <3>1, KillKeeps
        <4> HIDE DEF d
        <4> QED BY <2>0, <3>1, <4>1 DEF Keeps, OneChanged
      <3>2. CASE u.tab[t].tginfo = 0
        <4>1. w = [u EXCEPT !.tab[t] = d]
          BY <3>2
        <4>2. d.tginfo = 0
          BY <2>2, <3>2
        <4> HIDE DEF d, w
        <4> QED BY <2>0, <2>2, <3>2, <4>1, <4>2, DiesAlone, SMTT(60), Z3T(60)
      <3> QED BY <3>1, <3>2
    <2> HIDE DEF w
    <2>4. w \in Manager /\ w.tab[t] \in Info /\ w.tab[t].reaper_tid # t
      BY <2>3, Types DEF Base, Reapers
    <2>5. v = [x EXCEPT !.tab[t].reaper_tid = q]
      BY <2>1, <2>4 DEF Manager
    <2>6. x = Mgr(w.tab, w.grp, w.groups, t, w.recent, w.leaked, w.max)
      BY <2>4, MgrIs, SMTT(60), Z3T(60) DEF Mgr
    <2> HIDE DEF x
    <2>7. x \in Manager
      BY <2>4, <2>6, Types, MgrType
    <2>8. /\ x.tab = w.tab /\ x.grp = w.grp /\ x.groups = w.groups /\ x.leaked = w.leaked
          /\ x.to_remove = t
      BY <2>6 DEF Mgr
    <2>9. Base(x) /\ Pend(x) = Pend(w)
      BY <2>3, <2>7, <2>8, SameTables
    <2>10. q \in Tids \cup {0, -1} /\ q # t
      BY <2>4 DEF Info
    <2> HIDE DEF q
    <2>11. x.tab[t] \in Info
      BY <2>4, <2>8
    <2>12. /\ e \in Info /\ e.tginfo = x.tab[t].tginfo /\ e.dead = x.tab[t].dead
           /\ e.children = x.tab[t].children /\ e.reaper_tid = q
           /\ e.ptid = x.tab[t].ptid /\ e.pid = x.tab[t].pid
      BY <2>10, <2>11 DEF Info
    <2>13. v = [x EXCEPT !.tab[t] = e]
      BY <2>5
    <2> HIDE DEF e
    <2>14. t \in DOMAIN x.tab
      BY <2>3, <2>8
    <2>15. Keeps(x, v)
      BY <2>9, <2>10, <2>12, <2>13, <2>14, EntryKeeps
    <2> QED BY <2>3, <2>8, <2>9, <2>15 DEF Keeps, Tables
  <1> QED BY <1>1, <1>2

(* Freeing the groups nothing points to. *)
LEMMA CollectKeeps ==
    ASSUME NEW u, Base(u)
    PROVE  Keeps(u, Collect(u))
  <1> DEFINE D == {h \in DOMAIN u.grp : \/ \E t \in DOMAIN u.tab : u.tab[t].tginfo = h
                                        \/ \E p \in DOMAIN u.groups : u.groups[p] = h}
             G == [g \in D |-> u.grp[g]]
             v == [u EXCEPT !.grp = G]
  <1>0. u \in Manager /\ Links(u) /\ Reapers(u) /\ Refs(u) /\ Lists(u) /\ Counts(u)
    BY DEF Base
  <1>1. Collect(u) = v
    BY DEF Collect
  <1>2. /\ D \subseteq DOMAIN u.grp
        /\ \A t \in DOMAIN u.tab : u.tab[t].tginfo \in D \cup {0}
        /\ \A p \in DOMAIN u.groups : u.groups[p] \in D
    BY <1>0 DEF Refs
  <1> HIDE DEF D
  <1>3. /\ DOMAIN G = D /\ \A g \in D : G[g] = u.grp[g]
        /\ G \in [DOMAIN G -> Group]
    BY <1>0, <1>2, Types, SMTT(60), Z3T(60)
  <1> HIDE DEF G
  <1>4. v = Mgr(u.tab, G, u.groups, u.to_remove, u.recent, u.leaked, u.max)
    BY <1>0, MgrIs, SMTT(60), Z3T(60) DEF Mgr
  <1> HIDE DEF v
  <1>5. v \in Manager
    <2>1. DOMAIN G \subseteq Nat \ {0}
      BY <1>0, <1>2, <1>3, Types
    <2> QED BY <1>0, <1>3, <1>4, <2>1, Types, MgrType
  <1>6. /\ v.tab = u.tab /\ v.grp = G /\ v.groups = u.groups /\ v.leaked = u.leaked
        /\ v.to_remove = u.to_remove
    BY <1>4 DEF Mgr
  <1>7. Links(v) /\ Reapers(v)
    BY <1>0, <1>6 DEF Links, Reapers
  <1>8. Refs(v)
    <2>1. IsFiniteSet(D)
      BY <1>0, <1>2, FS_Subset DEF Refs
    <2> QED BY <1>2, <1>3, <1>6, <2>1 DEF Refs
  <1>9. Lists(v)
    <2> SUFFICES ASSUME NEW g \in D PROVE ListOf(v, g)
      BY <1>3, <1>6 DEF Lists
    <2>1. ListOf(u, g)
      BY <1>0, <1>2 DEF Lists
    <2>2. v.grp[g] = u.grp[g] /\ v.tab = u.tab
      BY <1>3, <1>6
    <2> QED BY <2>1, <2>2 DEF ListOf
  <1>10. Counts(v)
    <2>1. \A g : LiveOf(v, g) = LiveOf(u, g)
      BY <1>6 DEF LiveOf
    <2>2. \A g \in DOMAIN v.grp : g \in DOMAIN u.grp /\ v.grp[g] = u.grp[g]
      BY <1>2, <1>3, <1>6
    <2> QED BY <1>0, <1>6, <2>1, <2>2 DEF Counts
  <1>11. Pend(v) = Pend(u)
    BY <1>6 DEF Pend
  <1>12. Keeps(u, v)
    BY <1>5, <1>6, <1>7, <1>8, <1>9, <1>10, <1>11 DEF Base, Keeps
  <1> QED BY <1>1, <1>12

(* A change of entries that leaves all that the invariant speaks of. *)
LEMMA OtherFields ==
    ASSUME NEW u, Base(u), NEW T, DOMAIN T = DOMAIN u.tab, T \in [DOMAIN T -> Info],
           \A x \in DOMAIN T :
              /\ T[x].pid = u.tab[x].pid /\ T[x].ptid = u.tab[x].ptid
              /\ T[x].dead = u.tab[x].dead /\ T[x].reaper_tid = u.tab[x].reaper_tid
              /\ T[x].tginfo = u.tab[x].tginfo /\ T[x].children = u.tab[x].children
    PROVE  Keeps(u, [u EXCEPT !.tab = T])
  <1> DEFINE v == [u EXCEPT !.tab = T]
  <1>0. u \in Manager /\ Links(u) /\ Reapers(u) /\ DOMAIN u.tab \subseteq Tids
    BY Types DEF Base
  <1>1. /\ v \in Manager /\ v.tab = T
        /\ v.grp = u.grp /\ v.groups = u.groups /\ v.leaked = u.leaked
        /\ v.to_remove = u.to_remove
    BY <1>0, SetTab, SMTT(60), Z3T(60)
  <1> HIDE DEF v
  <1>2. Refs(v) /\ Lists(v) /\ Counts(v) /\ Pend(v) = Pend(u)
    BY <1>1, SameGroups
  <1>3. Links(v) /\ Reapers(v)
    BY <1>0, <1>1, SMTT(60), Z3T(60) DEF Links, Reapers
  <1>4. Keeps(u, v)
    BY <1>1, <1>2, <1>3 DEF Base, Keeps
  <1> QED BY <1>4 DEF v

(* The purge, in whatever order it removes the threads. *)
LEMMA PurgeKeeps ==
    ASSUME KType, NEW u, Ready(u), NEW idle, NEW v \in PurgeIdle(u, idle)
    PROVE  Ready(v)
  <1> DEFINE D == {t \in DOMAIN u.tab : is_invalid(u.tab[t])
                                        \/ (t \in idle /\ ~ThreadAlive(u, t))}
             orders == Bijection(1 .. Cardinality(D), D)
             E(w) == [w EXCEPT !.tab = [t \in DOMAIN w.tab |-> [w.tab[t] EXCEPT !.expired = FALSE]]]
  <1>0. v \in {E(w) : w \in UNION {RemoveAll(u, s, D) : s \in orders}}
    BY DEF PurgeIdle
  <1> HIDE DEF D, E, orders
  <1>1. PICK w \in UNION {RemoveAll(u, s, D) : s \in orders} : v = E(w)
    BY <1>0
  <1>2. PICK s \in orders : w \in RemoveAll(u, s, D)
    OBVIOUS
  <1>3. Len(s) \in Nat
    <2>1. D \subseteq Tids
      BY Types DEF Ready, Base, D
    <2>2. Cardinality(D) \in Nat
      BY <2>1, ThreadAssumption, FS_Subset, FS_CardinalityType
    <2>3. s \in [1 .. Cardinality(D) -> D]
      BY DEF orders, Bijection, Injection
    <2> DEFINE n == Cardinality(D)
    <2> HIDE DEF n
    <2>4. n \in Nat /\ s \in [1 .. n -> D]
      BY <2>2, <2>3 DEF n
    <2>5. s \in Seq(D) /\ Len(s) = n
      BY <2>4, SMTT(60), Z3T(60)
    <2> QED BY <2>4, <2>5
  <1>4. Keeps(u, w)
    BY <1>2, <1>3, RemoveAllKeeps DEF Ready
  <1> DEFINE T == [t \in DOMAIN w.tab |-> [w.tab[t] EXCEPT !.expired = FALSE]]
  <1>5. Base(w) /\ w.tab \in [DOMAIN w.tab -> Info]
    BY <1>4, Types DEF Keeps, Base
  <1>6. DOMAIN T = DOMAIN w.tab
    OBVIOUS
  <1>7. \A x \in DOMAIN T :
           /\ T[x] \in Info
           /\ T[x].pid = w.tab[x].pid /\ T[x].ptid = w.tab[x].ptid
           /\ T[x].dead = w.tab[x].dead /\ T[x].reaper_tid = w.tab[x].reaper_tid
           /\ T[x].tginfo = w.tab[x].tginfo /\ T[x].children = w.tab[x].children
    <2> TAKE x \in DOMAIN T
    <2> DEFINE i == w.tab[x]
    <2>1. i \in Info
      BY <1>5
    <2>2. T[x] = [i EXCEPT !.expired = FALSE]
      OBVIOUS
    <2> HIDE DEF i, T
    <2> QED BY <2>1, <2>2 DEF Info, i
  <1>8. v = [w EXCEPT !.tab = T]
    BY <1>1 DEF E
  <1>9. T \in [DOMAIN T -> Info]
    BY <1>6, <1>7
  <1> HIDE DEF T
  <1>10. Keeps(w, v)
    BY <1>5, <1>6, <1>7, <1>8, <1>9, OtherFields
  <1> QED BY <1>4, <1>10, KeepsReady

(* Time that passes. *)
LEMMA TimeKeeps ==
    ASSUME NEW u, Tables(u)
    PROVE  Tables([u EXCEPT !.recent = {},
                            !.tab = [t \in DOMAIN u.tab |->
                                       [u.tab[t] EXCEPT !.clone_ts = IF @ = "fresh" THEN "old" ELSE @]]])
  <1> DEFINE T == [t \in DOMAIN u.tab |->
                     [u.tab[t] EXCEPT !.clone_ts = IF @ = "fresh" THEN "old" ELSE @]]
             w == [u EXCEPT !.recent = {}]
             v == [w EXCEPT !.tab = T]
  <1>0. Base(u) /\ u \in Manager /\ u.tab \in [DOMAIN u.tab -> Info]
    BY Types DEF Tables, Base
  <1>1. [u EXCEPT !.recent = {},
                  !.tab = [t \in DOMAIN u.tab |->
                             [u.tab[t] EXCEPT !.clone_ts = IF @ = "fresh" THEN "old" ELSE @]]] = v
    BY <1>0 DEF Manager
  <1>2. w = Mgr(u.tab, u.grp, u.groups, u.to_remove, {}, u.leaked, u.max)
    BY <1>0, MgrIs, SMTT(60), Z3T(60) DEF Mgr
  <1> HIDE DEF w
  <1>3. w \in Manager
    BY <1>0, <1>2, Types, MgrType
  <1>4. /\ w.tab = u.tab /\ w.grp = u.grp /\ w.groups = u.groups /\ w.leaked = u.leaked
        /\ w.to_remove = u.to_remove
    BY <1>2 DEF Mgr
  <1>5. Base(w) /\ Pend(w) = Pend(u)
    BY <1>0, <1>3, <1>4, SameTables
  <1>6. DOMAIN T = DOMAIN w.tab
    BY <1>4
  <1>7. \A x \in DOMAIN T :
           /\ T[x] \in Info
           /\ T[x].pid = w.tab[x].pid /\ T[x].ptid = w.tab[x].ptid
           /\ T[x].dead = w.tab[x].dead /\ T[x].reaper_tid = w.tab[x].reaper_tid
           /\ T[x].tginfo = w.tab[x].tginfo /\ T[x].children = w.tab[x].children
    <2> TAKE x \in DOMAIN T
    <2> DEFINE i == u.tab[x]
               ts == IF i.clone_ts = "fresh" THEN "old" ELSE i.clone_ts
    <2>1. i \in Info /\ w.tab[x] = i
      BY <1>0, <1>4
    <2>2. T[x] = [i EXCEPT !.clone_ts = ts]
      OBVIOUS
    <2>3. ts \in {"none", "fresh", "old"}
      BY <2>1 DEF Info
    <2> HIDE DEF i, ts, T
    <2> QED BY <2>1, <2>2, <2>3 DEF Info
  <1>8. T \in [DOMAIN T -> Info]
    BY <1>7
  <1> HIDE DEF T
  <1>9. Keeps(w, v)
    BY <1>5, <1>6, <1>7, <1>8, OtherFields
  <1> HIDE DEF v
  <1>10. Tables(v)
    BY <1>4, <1>5, <1>9 DEF Tables, Keeps
  <1> QED BY <1>1, <1>10

-----------------------------------------------------------------------------
(* The kernel *)

(* Init is there and alive.  Every thread belongs to a process whose       *)
(* leader is there, if only as a zombie, and no other thread is a zombie.  *)
(* Threads without a parent are init's.  A thread inside clone() is alive. *)
KInv ==
    /\ KType
    /\ 1 \in DOMAIN kt /\ kt[1].pid = 1 /\ ~kt[1].zombie /\ ~kt[1].new
    /\ \A t \in DOMAIN kt : /\ kt[t].pid \in DOMAIN kt /\ kt[kt[t].pid].pid = kt[t].pid
                            /\ kt[t].zombie => t = kt[t].pid
                            /\ kt[t].ptid = 0 => kt[t].pid = 1
    /\ \A k \in calls : /\ k.caller \in DOMAIN kt /\ k.child \in Tids
                        /\ ~kt[k.caller].zombie
    /\ lost \in 0 .. MaxLost /\ clones \in 0 .. MaxClones
    /\ made \in [Tids -> Nat] /\ \A t \in Tids : made[t] <= clones + 1
    /\ early \subseteq Tids

(* The inductive invariant. *)
IInv == KInv /\ Tables(tm)

(* The kernel's side of a report: at most one event more is lost. *)
LostType == lost' \in 0 .. MaxLost

(* clone() keeps the invariant of the kernel. *)
LEMMA CloneKInv ==
    ASSUME KInv, NEW c \in Tids, NEW t \in Tids, NEW kind \in Kinds, Clone(c, t, kind)
    PROVE  KInv'
  <1> DEFINE e == [pid |-> IF kind = "thread" THEN kt[c].pid ELSE t,
                   ptid |-> IF kind = "thread" THEN kt[c].ptid ELSE c,
                   zombie |-> FALSE, new |-> TRUE, fresh |-> TRUE]
             k == [caller |-> c, child |-> t, kind |-> kind, waits |-> kind = "vfork"]
  <1>1. /\ c \in DOMAIN kt /\ ~kt[c].zombie /\ t \notin DOMAIN kt
        /\ clones < MaxClones /\ clones' = clones + 1 /\ made' = [made EXCEPT ![t] = @ + 1]
        /\ kt' = Put(kt, t, e) /\ calls' = calls \cup {k} /\ lost' = lost
        /\ early' \subseteq early \cup {t}
    BY DEF Clone, Running
  <1>2. /\ kt[c] \in KThread /\ kt \in [DOMAIN kt -> KThread] /\ DOMAIN kt \subseteq Tids
    BY <1>1 DEF KInv, KType
  <1>3. /\ e \in KThread /\ ~e.zombie /\ (e.pid = t \/ e.pid = kt[c].pid)
        /\ e.ptid = 0 => e.pid = 1
    <2>1. kt[c].ptid = 0 => kt[c].pid = 1
      BY <1>1 DEF KInv
    <2>2. c # 0
      BY ThreadAssumption
    <2>3. CASE kind = "thread"
      BY <1>2, <2>1, <2>3 DEF KThread
    <2>4. CASE kind # "thread"
      BY <2>2, <2>4 DEF KThread
    <2> QED BY <2>3, <2>4
  <1>4. k.caller = c /\ k.child = t
    OBVIOUS
  <1> HIDE DEF e, k
  <1>5. /\ DOMAIN kt' = DOMAIN kt \cup {t} /\ kt'[t] = e
        /\ \A x \in DOMAIN kt : kt'[x] = kt[x]
    BY <1>1 DEF Put
  <1>6. KType'
    BY <1>1, <1>2, <1>3, <1>5 DEF KType, Put
  <1>7. /\ 1 \in DOMAIN kt' /\ kt'[1].pid = 1 /\ ~kt'[1].zombie /\ ~kt'[1].new
    BY <1>5 DEF KInv
  <1>8. \A x \in DOMAIN kt' : /\ kt'[x].pid \in DOMAIN kt' /\ kt'[kt'[x].pid].pid = kt'[x].pid
                              /\ kt'[x].zombie => x = kt'[x].pid
                              /\ kt'[x].ptid = 0 => kt'[x].pid = 1
    <2> TAKE x \in DOMAIN kt'
    <2>1. CASE x \in DOMAIN kt
      BY <1>5, <2>1, SMTT(60), Z3T(60) DEF KInv
    <2>2. CASE x = t
      BY <1>1, <1>3, <1>5, <2>2, SMTT(60), Z3T(60) DEF KInv
    <2> QED BY <1>5, <2>1, <2>2
  <1>9. \A x \in calls' : /\ x.caller \in DOMAIN kt' /\ x.child \in Tids
                          /\ ~kt'[x.caller].zombie
    BY <1>1, <1>4, <1>5, SMTT(60), Z3T(60) DEF KInv
  <1>10. /\ lost' \in 0 .. MaxLost /\ clones' \in 0 .. MaxClones
         /\ made' \in [Tids -> Nat] /\ \A x \in Tids : made'[x] <= clones' + 1
    BY <1>1, ThreadAssumption, SMTT(60), Z3T(60) DEF KInv
  <1>11. early' \subseteq Tids
    BY <1>1 DEF KInv
  <1> QED BY <1>6, <1>7, <1>8, <1>9, <1>10, <1>11 DEF KInv

(* So does an exit. *)
LEMMA ExitKInv ==
    ASSUME KInv, NEW t \in Tids, Exit(t), LostType
    PROVE  KInv'
  <1> DEFINE pid == kt[t].pid
             kids == {x \in DOMAIN kt : kt[x].ptid = t}
             gone == IF Live(pid) = {t} THEN {t, pid} ELSE IF t = pid THEN {} ELSE {t}
  <1>1. /\ t \in DOMAIN kt /\ ~kt[t].zombie /\ t # 1 /\ \A k \in calls : k.caller # t
        /\ calls' = calls /\ clones' = clones /\ made' = made
    BY DEF Exit, Running, InCall
  <1>2. PICK r \in KernelReapers(t) :
            /\ kt' = [x \in DOMAIN kt \ gone |-> [kt[x] EXCEPT !.ptid = IF x \in kids THEN r ELSE @,
                                                               !.zombie = @ \/ x = t]]
            /\ early' \subseteq early \cup kids
    BY DEF Exit
  <1>15. early' \subseteq Tids
    <2>1. early' \subseteq early \cup kids
      BY <1>2
    <2> QED BY <2>1 DEF KInv, KType
  <1>3. kt \in [DOMAIN kt -> KThread] /\ DOMAIN kt \subseteq Tids /\ pid \in DOMAIN kt
    BY <1>1 DEF KInv, KType
  <1>4. r \in Tids /\ r # 0
    <2>1. r \in DOMAIN kt \/ r = 1
      BY DEF KernelReapers, Live
    <2> QED BY <1>3, <2>1, ThreadAssumption
  <1>5. ASSUME NEW x \in DOMAIN kt, x \in gone
        PROVE  x = t \/ (x = pid /\ (x # t => kt[x].zombie))
    <2>1. x = t \/ (x = pid /\ Live(pid) = {t})
      BY <1>5
    <2>2. kt[pid].pid = pid
      BY <1>1 DEF KInv
    <2> QED BY <1>3, <2>1, <2>2 DEF Live
  <1>6. ASSUME NEW x \in DOMAIN kt \ gone
        PROVE  kt[x].pid \notin gone
    <2> DEFINE q == kt[x].pid
    <2>0. kt[q].pid = q /\ q \in DOMAIN kt
      BY DEF KInv
    <2> SUFFICES ASSUME q \in gone PROVE FALSE
      OBVIOUS
    <2>1. q = pid
      BY <1>5, <2>0
    <2>2. CASE Live(pid) = {t}
      <3>1. x # t /\ x # pid
        BY <2>2
      <3>2. x \in Live(pid)
        BY <2>1, <3>1 DEF KInv, Live
      <3> QED BY <2>2, <3>1, <3>2
    <2>3. CASE Live(pid) # {t}
      BY <2>1, <2>3
    <2> QED BY <2>2, <2>3
  <1>7. 1 \notin gone
    BY <1>1, <1>5 DEF KInv
  <1>8. \A k \in calls : k.caller \notin gone
    BY <1>1, <1>5 DEF KInv
  <1>9. ASSUME NEW x \in DOMAIN kt, x = t, x \notin gone PROVE x = pid
    BY <1>9
  <1> HIDE DEF gone, kids
  <1>10. /\ DOMAIN kt' = DOMAIN kt \ gone
         /\ \A x \in DOMAIN kt \ gone :
               /\ kt'[x] \in KThread /\ kt'[x].pid = kt[x].pid /\ kt'[x].new = kt[x].new
               /\ kt'[x].ptid \in {kt[x].ptid, r}
               /\ kt'[x].zombie <=> kt[x].zombie \/ x = t
    <2>1. DOMAIN kt' = DOMAIN kt \ gone
      BY <1>2
    <2>2. ASSUME NEW x \in DOMAIN kt \ gone
          PROVE  /\ kt'[x] \in KThread /\ kt'[x].pid = kt[x].pid /\ kt'[x].new = kt[x].new
                 /\ kt'[x].ptid \in {kt[x].ptid, r}
                 /\ kt'[x].zombie <=> kt[x].zombie \/ x = t
      <3> DEFINE i == kt[x]
                 p == IF x \in kids THEN r ELSE i.ptid
                 z == i.zombie \/ x = t
      <3>1. kt'[x] = [i EXCEPT !.ptid = p, !.zombie = z]
        BY <1>2
      <3>2. i \in KThread
        BY <1>3
      <3>3. p \in Tids \cup {0} /\ z \in BOOLEAN /\ p \in {i.ptid, r}
        BY <1>4, <3>2 DEF KThread
      <3> HIDE DEF i, p, z
      <3>4. /\ kt'[x] \in KThread /\ kt'[x].pid = i.pid /\ kt'[x].new = i.new
            /\ kt'[x].ptid = p /\ kt'[x].zombie = z
        BY <3>1, <3>2, <3>3 DEF KThread
      <3> QED BY <3>3, <3>4 DEF i, z
    <2> QED BY <2>1, <2>2
  <1>11. KType'
    <2>1. kt' = [x \in DOMAIN kt' |-> kt'[x]]
      BY <1>2, <1>10
    <2> QED BY <1>3, <1>10, <2>1 DEF KType
  <1>12. /\ 1 \in DOMAIN kt' /\ kt'[1].pid = 1 /\ ~kt'[1].zombie /\ ~kt'[1].new
    BY <1>1, <1>7, <1>10 DEF KInv
  <1>13. \A x \in DOMAIN kt' : /\ kt'[x].pid \in DOMAIN kt' /\ kt'[kt'[x].pid].pid = kt'[x].pid
                               /\ kt'[x].zombie => x = kt'[x].pid
                               /\ kt'[x].ptid = 0 => kt'[x].pid = 1
    <2> TAKE x \in DOMAIN kt'
    <2>1. x \in DOMAIN kt \ gone /\ kt[x].pid \in DOMAIN kt \ gone
      BY <1>6, <1>10 DEF KInv
    <2>2. kt'[x].pid \in DOMAIN kt' /\ kt'[kt'[x].pid].pid = kt'[x].pid
      BY <1>10, <2>1, SMTT(60), Z3T(60) DEF KInv
    <2>3. kt'[x].zombie => x = kt'[x].pid
      BY <1>9, <1>10, <2>1, SMTT(60), Z3T(60) DEF KInv
    <2>4. kt'[x].ptid = 0 => kt'[x].pid = 1
      BY <1>4, <1>10, <2>1, SMTT(60), Z3T(60) DEF KInv
    <2> QED BY <2>2, <2>3, <2>4
  <1>14. \A k \in calls' : /\ k.caller \in DOMAIN kt' /\ k.child \in Tids
                           /\ ~kt'[k.caller].zombie
    BY <1>1, <1>8, <1>10 DEF KInv
  <1> QED BY <1>1, <1>11, <1>12, <1>13, <1>14, <1>15, SMTT(60), Z3T(60) DEF KInv, LostType

(* And an execve, after which the leader is alive. *)
LEMMA ExecKInv ==
    ASSUME KInv, NEW t \in Tids, Exec(t), LostType
    PROVE  KInv'
  <1> DEFINE pid == kt[t].pid
             gone == {t} \ {pid}
  <1>1. /\ t \in DOMAIN kt /\ ~kt[t].zombie /\ ~kt[t].new /\ t # 1 /\ Live(pid) = {t}
        /\ \A k \in calls : k.caller # t
        /\ calls' = {[k EXCEPT !.waits = @ /\ k.child # pid] : k \in calls}
        /\ clones' = clones /\ made' = made /\ early' = early \cup {x \in {pid} : t \in early}
        /\ kt' = [x \in DOMAIN kt \ gone |->
                     IF x = pid THEN [kt[t] EXCEPT !.zombie = FALSE]
                     ELSE [kt[x] EXCEPT !.ptid = IF @ = t THEN pid ELSE @]]
    BY DEF Exec, Running, InCall
  <1>2. /\ kt \in [DOMAIN kt -> KThread] /\ DOMAIN kt \subseteq Tids
        /\ pid \in DOMAIN kt /\ kt[pid].pid = pid /\ pid # 0
    BY <1>1, ThreadAssumption DEF KInv, KType
  <1>3. ASSUME NEW x \in DOMAIN kt PROVE kt[x].pid \notin gone
    BY DEF KInv
  <1>13. early' \subseteq Tids
    BY <1>1, <1>2 DEF KInv
  <1>4. pid # 1
    BY <1>1, <1>2 DEF KInv, Live
  <1>5. \A k \in calls : k.caller # pid /\ k.caller \notin gone
    <2> TAKE k \in calls
    <2>1. k.caller \in DOMAIN kt /\ ~kt[k.caller].zombie /\ k.caller # t
      BY <1>1 DEF KInv
    <2> QED BY <1>1, <1>2, <2>1 DEF Live
  <1>6. /\ DOMAIN kt' = DOMAIN kt \ gone /\ kt'[pid] = [kt[t] EXCEPT !.zombie = FALSE]
        /\ \A x \in DOMAIN kt \ gone :
              x # pid => kt'[x] = [kt[x] EXCEPT !.ptid = IF @ = t THEN pid ELSE @]
    BY <1>1, <1>2
  <1>7. /\ kt'[pid] \in KThread /\ kt'[pid].pid = pid /\ kt'[pid].ptid = kt[t].ptid
        /\ ~kt'[pid].zombie
    <2> DEFINE i == kt[t]
    <2>1. i \in KThread
      BY <1>1, <1>2
    <2>2. kt'[pid] = [i EXCEPT !.zombie = FALSE]
      BY <1>6
    <2> HIDE DEF i
    <2>3. /\ kt'[pid] \in KThread /\ kt'[pid].pid = i.pid /\ kt'[pid].ptid = i.ptid
          /\ ~kt'[pid].zombie
      BY <2>1, <2>2 DEF KThread
    <2> QED BY <2>3 DEF i
  <1>8. \A x \in DOMAIN kt \ gone : x # pid =>
           /\ kt'[x] \in KThread /\ kt'[x].pid = kt[x].pid /\ kt'[x].new = kt[x].new
           /\ kt'[x].ptid \in {kt[x].ptid, pid}
           /\ kt'[x].zombie = kt[x].zombie
    <2> SUFFICES ASSUME NEW x \in DOMAIN kt \ gone, x # pid
                 PROVE  /\ kt'[x] \in KThread /\ kt'[x].pid = kt[x].pid
                        /\ kt'[x].new = kt[x].new /\ kt'[x].ptid \in {kt[x].ptid, pid}
                        /\ kt'[x].zombie = kt[x].zombie
      OBVIOUS
    <2> DEFINE i == kt[x]
               p == IF i.ptid = t THEN pid ELSE i.ptid
    <2>1. i \in KThread
      BY <1>2
    <2>2. kt'[x] = [i EXCEPT !.ptid = p]
      BY <1>6
    <2>3. p \in Tids \cup {0} /\ p \in {i.ptid, pid}
      BY <1>2, <2>1 DEF KThread
    <2> HIDE DEF i, p
    <2>4. /\ kt'[x] \in KThread /\ kt'[x].pid = i.pid /\ kt'[x].new = i.new
          /\ kt'[x].ptid = p /\ kt'[x].zombie = i.zombie
      BY <2>1, <2>2, <2>3 DEF KThread
    <2> QED BY <2>3, <2>4 DEF i
  <1> HIDE DEF gone, pid
  <1>9. KType'
    <2>1. kt' = [x \in DOMAIN kt' |-> kt'[x]]
      BY <1>1
    <2>2. \A x \in DOMAIN kt' : kt'[x] \in KThread
      BY <1>6, <1>7, <1>8
    <2> QED BY <1>2, <1>6, <2>1, <2>2 DEF KType
  <1>10. /\ 1 \in DOMAIN kt' /\ kt'[1].pid = 1 /\ ~kt'[1].zombie /\ ~kt'[1].new
    <2>1. 1 \in DOMAIN kt \ gone
      BY <1>1 DEF KInv, gone
    <2> QED BY <1>4, <1>6, <1>8, <2>1 DEF KInv
  <1>11. \A x \in DOMAIN kt' : /\ kt'[x].pid \in DOMAIN kt' /\ kt'[kt'[x].pid].pid = kt'[x].pid
                               /\ kt'[x].zombie => x = kt'[x].pid
                               /\ kt'[x].ptid = 0 => kt'[x].pid = 1
    <2> TAKE x \in DOMAIN kt'
    <2>0. pid \in DOMAIN kt'
      BY <1>2, <1>6 DEF gone
    <2>1. CASE x = pid
      <3>1. kt[t].ptid = 0 => kt[t].pid = 1
        BY <1>1 DEF KInv
      <3> QED BY <1>7, <2>0, <2>1, <3>1 DEF pid
    <2>2. CASE x # pid
      <3> DEFINE q == kt[x].pid
      <3>1. x \in DOMAIN kt \ gone /\ q \in DOMAIN kt \ gone /\ kt[q].pid = q
        BY <1>3, <1>6 DEF KInv
      <3>2. kt'[x].pid = q /\ kt'[x].zombie = kt[x].zombie /\ kt'[x].ptid \in {kt[x].ptid, pid}
        BY <1>8, <2>2, <3>1
      <3>3. q \in DOMAIN kt' /\ kt'[q].pid = q
        BY <1>6, <1>7, <1>8, <3>1
      <3>4. (kt[x].zombie => x = q) /\ (kt[x].ptid = 0 => q = 1)
        BY <3>1 DEF KInv
      <3> HIDE DEF q
      <3> QED BY <1>2, <3>2, <3>3, <3>4
    <2> QED BY <2>1, <2>2
  <1>12. \A k \in calls' : /\ k.caller \in DOMAIN kt' /\ k.child \in Tids
                           /\ ~kt'[k.caller].zombie
    <2> TAKE k \in calls'
    <2>1. PICK j \in calls : k = [j EXCEPT !.waits = @ /\ j.child # pid]
      BY <1>1
    <2>2. k.caller = j.caller /\ k.child = j.child
      BY <2>1, SMTT(60), Z3T(60)
    <2> QED BY <1>5, <1>6, <1>8, <2>2, SMTT(60), Z3T(60) DEF KInv
  <1> QED BY <1>1, <1>9, <1>10, <1>11, <1>12, <1>13 DEF KInv, LostType

(* And the steps that only mark threads. *)
LEMMA MarkKInv ==
    ASSUME KInv, calls' \subseteq calls, UNCHANGED <<clones, made, early>>, LostType,
           DOMAIN kt' = DOMAIN kt, kt' \in [DOMAIN kt -> KThread],
           \A x \in DOMAIN kt : /\ kt'[x].pid = kt[x].pid /\ kt'[x].ptid = kt[x].ptid
                                /\ kt'[x].zombie = kt[x].zombie
                                /\ kt'[x].new => kt[x].new
    PROVE  KInv'
  <1>1. KType'
    BY DEF KInv, KType
  <1>2. 1 \in DOMAIN kt' /\ kt'[1].pid = 1 /\ ~kt'[1].zombie /\ ~kt'[1].new
    BY DEF KInv
  <1>3. \A x \in DOMAIN kt' : /\ kt'[x].pid \in DOMAIN kt' /\ kt'[kt'[x].pid].pid = kt'[x].pid
                              /\ kt'[x].zombie => x = kt'[x].pid
                              /\ kt'[x].ptid = 0 => kt'[x].pid = 1
    BY SMTT(60), Z3T(60) DEF KInv
  <1>4. \A k \in calls' : /\ k.caller \in DOMAIN kt' /\ k.child \in Tids
                          /\ ~kt'[k.caller].zombie
    BY DEF KInv
  <1> QED BY <1>1, <1>2, <1>3, <1>4 DEF KInv, LostType

-----------------------------------------------------------------------------
(* The events *)

(* What an event leaves, with the groups collected. *)
LEMMA Collected ==
    ASSUME NEW v, Tables(v) \/ Ready(v)
    PROVE  Tables(Collect(v))
  BY CollectKeeps DEF Tables, Ready, Keeps

(* The scan of /proc at start leaves init in the table: the invariant holds. *)
LEMMA InitInv ==
    ASSUME Init
    PROVE  IInv
  <1>1. KInv
    <2>1. /\ DOMAIN kt = {1} /\ calls = {} /\ lost = 0 /\ clones = 0 /\ early = {}
          /\ kt[1] = [pid |-> 1, ptid |-> 0, zombie |-> FALSE, new |-> FALSE, fresh |-> FALSE]
          /\ kt = [t \in {1} |-> kt[1]]
          /\ made = [t \in Tids |-> IF t = 1 THEN 1 ELSE 0]
      BY DEF Init
    <2>2. KType
      BY <2>1, ThreadAssumption, SMTT(60), Z3T(60) DEF KType, KThread
    <2>3. made \in [Tids -> Nat] /\ \A t \in Tids : made[t] <= clones + 1
      BY <2>1, SMTT(60), Z3T(60)
    <2> QED BY <2>1, <2>2, <2>3, ThreadAssumption, SMTT(60), Z3T(60) DEF KInv
  <1>2. Tables(tm)
    <2>1. PICK max \in TableSizes :
             tm = [tab |-> [t \in {1} |-> [NewInfo(1, 0, FALSE, "old") EXCEPT !.tginfo = 1]],
                   grp |-> [g \in {1} |-> [alive |-> 1, reaper |-> TRUE, threads |-> <<1>>]],
                   groups |-> [pid \in {1} |-> 1],
                   to_remove |-> 0, recent |-> {}, leaked |-> FALSE, max |-> max]
      BY DEF Init
    <2> DEFINE e == [NewInfo(1, 0, FALSE, "old") EXCEPT !.tginfo = 1]
               G == [alive |-> 1, reaper |-> TRUE, threads |-> <<1>>]
               tab == [t \in {1} |-> e]
               grp == [g \in {1} |-> G]
               groups == [pid \in {1} |-> 1]
    <2>2. /\ e \in Info /\ e.children = {} /\ e.tginfo = 1 /\ ~e.dead /\ e.reaper_tid = -1
      <3> DEFINE i == NewInfo(1, 0, FALSE, "old")
      <3>1. 1 \in Int /\ 0 \in Int /\ FALSE \in BOOLEAN /\ "old" \in {"none", "fresh", "old"}
        BY SMTT(60), Z3T(60)
      <3>2. Fresh(i)
        BY <3>1, NewInfoFresh
      <3> HIDE DEF i
      <3>3. e = [i EXCEPT !.tginfo = 1]
        BY DEF i
      <3> HIDE DEF e
      <3> QED BY <3>2, <3>3 DEF Fresh, Info
    <2>3. <<1>> \in Seq(Tids) /\ Len(<<1>>) = 1 /\ <<1>>[1] = 1
      BY ThreadAssumption, SMTT(60), Z3T(60)
    <2>4. G \in Group /\ G.alive = 1 /\ G.threads = <<1>>
      BY <2>3 DEF Group
    <2>5. tm = Mgr(tab, grp, groups, 0, {}, FALSE, max)
      BY <2>1 DEF Mgr
    <2> HIDE DEF e, G
    <2>6. /\ DOMAIN tab = {1} /\ tab[1] = e /\ tab \in [{1} -> Info]
          /\ DOMAIN grp = {1} /\ grp[1] = G /\ grp \in [{1} -> Group]
          /\ DOMAIN groups = {1} /\ groups[1] = 1 /\ groups \in [{1} -> Nat]
      BY <2>2, <2>4
    <2> HIDE DEF tab, grp, groups
    <2>7. tm \in Manager
      <3>1. {1} \subseteq Tids /\ {1} \subseteq Nat \ {0} /\ {1} \subseteq Int
        BY ThreadAssumption, SMTT(60), Z3T(60)
      <3> QED BY <2>5, <2>6, <3>1, MgrType
    <2>8. /\ tm.tab = tab /\ tm.grp = grp /\ tm.groups = groups /\ tm.to_remove = 0
          /\ tm.leaked = FALSE
      BY <2>5 DEF Mgr
    <2>9. Links(tm) /\ Reapers(tm)
      BY <2>2, <2>6, <2>8, SMTT(60), Z3T(60) DEF Links, Reapers
    <2>10. Refs(tm)
      <3>1. IsFiniteSet({1})
        BY FS_Singleton
      <3> QED BY <2>2, <2>6, <2>8, <3>1 DEF Refs
    <2>11. Lists(tm)
      <3> DEFINE s == <<1>>
      <3> HIDE DEF s
      <3>1. Len(s) = 1 /\ s[1] = 1 /\ tm.grp[1].threads = s
        BY <2>3, <2>4, <2>6, <2>8, SMTT(60), Z3T(60) DEF s
      <3>2. /\ \A i \in 1 .. Len(s) : s[i] \in DOMAIN tm.tab /\ tm.tab[s[i]].tginfo = 1
            /\ \A i, k \in 1 .. Len(s) : s[i] = s[k] => i = k
        BY <2>2, <2>6, <2>8, <3>1, SMTT(60), Z3T(60)
      <3> QED BY <2>6, <2>8, <3>1, <3>2, SMTT(60), Z3T(60) DEF Lists, ListOf
    <2>12. Counts(tm)
      <3>1. LiveOf(tm, 1) = {1}
        BY <2>2, <2>6, <2>8 DEF LiveOf
      <3>2. Cardinality({1}) = 1
        BY FS_Singleton
      <3> QED BY <2>4, <2>6, <2>8, <3>1, <3>2, SMTT(60), Z3T(60) DEF Counts
    <2>13. Pend(tm) = {}
      BY <2>2, <2>6, <2>8 DEF Pend
    <2> QED BY <2>7, <2>9, <2>10, <2>11, <2>12, <2>13, SMTT(60), Z3T(60) DEF Tables, Base
  <1> QED BY <1>1, <1>2 DEF IInv

(* A new process or thread is not an event yet. *)
LEMMA CloneInv ==
    ASSUME IInv, NEW c \in Tids, NEW t \in Tids, NEW kind \in Kinds, Clone(c, t, kind)
    PROVE  IInv'
  <1>1. tm' = tm
    BY DEF Clone
  <1> QED BY <1>1, CloneKInv DEF IInv

(* The return of clone in the child, handled or lost, keeps the invariant. *)
LEMMA ChildReturnsInv ==
    ASSUME IInv, NEW t \in Tids, ChildReturns(t)
    PROVE  IInv'
  <1> DEFINE pid == kt[t].pid
             ptid == kt[t].ptid
  <1>0. KInv /\ KType /\ Tables(tm)
    BY DEF IInv, KInv
  <1>1. /\ t \in DOMAIN kt /\ kt[t].new /\ kt' = [kt EXCEPT ![t].new = FALSE]
        /\ calls' = calls /\ clones' = clones /\ made' = made /\ early' = early
    BY DEF ChildReturns
  <1>2. \/ /\ lost' = lost
           /\ \E u \in RemoveExited(tm) :
                 \E v \in parse_clone_exit_child(u, t, pid, ptid) : tm' = Collect(v)
        \/ lost < MaxLost /\ lost' = lost + 1 /\ tm' = tm
    BY DEF ChildReturns, Report, Handle, MayLose
  <1>3. LostType
    BY <1>0, <1>2, ThreadAssumption, SMTT(60), Z3T(60) DEF KInv, LostType
  <1>4. kt[t] \in KThread /\ kt \in [DOMAIN kt -> KThread]
    BY <1>0, <1>1 DEF KType
  <1>5. KInv'
    <2> DEFINE i == kt[t]
               e == [i EXCEPT !.new = FALSE]
    <2>1. e \in KThread /\ e.pid = i.pid /\ e.ptid = i.ptid /\ e.zombie = i.zombie /\ ~e.new
      <3> HIDE DEF i
      <3>1. i \in KThread
        BY <1>4 DEF i
      <3> QED BY <3>1 DEF KThread
    <2>2. kt' = [kt EXCEPT ![t] = e]
      BY <1>1
    <2> HIDE DEF e
    <2>3. DOMAIN kt' = DOMAIN kt /\ kt' \in [DOMAIN kt -> KThread]
      BY <1>4, <2>1, <2>2
    <2>4. \A x \in DOMAIN kt : /\ kt'[x].pid = kt[x].pid /\ kt'[x].ptid = kt[x].ptid
                               /\ kt'[x].zombie = kt[x].zombie /\ (kt'[x].new => kt[x].new)
      BY <1>1, <2>1, <2>2
    <2> QED BY <1>0, <1>1, <1>3, <2>3, <2>4, MarkKInv, SMTT(60), Z3T(60)
  <1>6. pid \in Tids /\ ptid \in Int /\ (t = pid => ptid \in Tids)
    <2>1. pid \in Tids /\ ptid \in Tids \cup {0}
      BY <1>4 DEF KThread
    <2>2. t = pid => ptid # 0
      BY <1>0, <1>1 DEF KInv
    <2>3. Tids \subseteq Int
      BY ThreadAssumption, SMTT(60), Z3T(60)
    <2> HIDE DEF pid, ptid
    <2> QED BY <2>1, <2>2, <2>3, SMTT(60), Z3T(60)
  <1> HIDE DEF pid, ptid
  <1>7. Tables(tm')
    <2>1. ASSUME NEW u \in RemoveExited(tm), NEW v \in parse_clone_exit_child(u, t, pid, ptid),
                 tm' = Collect(v)
          PROVE  Tables(tm')
      <3>1. Ready(u)
        BY <1>0, RemoveExitedReady DEF Tables
      <3>2. Ready(v)
        BY <1>0, <1>6, <3>1, ChildExitKeeps
      <3> QED BY <2>1, <3>2, Collected
    <2> QED BY <1>0, <1>2, <2>1
  <1> QED BY <1>5, <1>7 DEF IInv

(* The return of clone in the caller, handled or lost, keeps the invariant. *)
LEMMA CallerReturnsInv ==
    ASSUME IInv, NEW k \in calls, CallerReturns(k)
    PROVE  IInv'
  <1> DEFINE pid == kt[k.caller].pid
             ptid == kt[k.caller].ptid
  <1>0. KInv /\ KType /\ Tables(tm)
    BY DEF IInv, KInv
  <1>1. /\ calls' = calls \ {k} /\ kt' = kt /\ clones' = clones /\ made' = made
        /\ early' = early
    BY DEF CallerReturns
  <1>2. \/ /\ lost' = lost
           /\ \E u \in RemoveExited(tm) :
                 \E v \in parse_clone_exit_caller(u, k, pid, ptid) : tm' = Collect(v)
        \/ lost < MaxLost /\ lost' = lost + 1 /\ tm' = tm
    BY DEF CallerReturns, Report, Handle, MayLose
  <1>3. LostType
    BY <1>0, <1>2, ThreadAssumption, SMTT(60), Z3T(60) DEF KInv, LostType
  <1>4. KInv'
    <2>1. kt' \in [DOMAIN kt -> KThread] /\ DOMAIN kt' = DOMAIN kt /\ calls' \subseteq calls
      BY <1>0, <1>1 DEF KType
    <2> QED BY <1>0, <1>1, <1>3, <2>1, MarkKInv, SMTT(60), Z3T(60)
  <1>5. k.caller \in Tids /\ k.child \in Tids /\ pid \in Int /\ ptid \in Int
    <2>1. k.caller \in DOMAIN kt /\ k.child \in Tids
      BY <1>0 DEF KInv
    <2>2. kt[k.caller] \in KThread /\ k.caller \in Tids
      BY <1>0, <2>1 DEF KType
    <2>3. pid \in Tids /\ ptid \in Tids \cup {0}
      BY <2>2 DEF KThread
    <2>4. Tids \subseteq Int
      BY ThreadAssumption, SMTT(60), Z3T(60)
    <2> HIDE DEF pid, ptid
    <2> QED BY <2>1, <2>2, <2>3, <2>4, SMTT(60), Z3T(60)
  <1> HIDE DEF pid, ptid
  <1>6. Tables(tm')
    <2>1. ASSUME NEW u \in RemoveExited(tm), NEW v \in parse_clone_exit_caller(u, k, pid, ptid),
                 tm' = Collect(v)
          PROVE  Tables(tm')
      <3>1. Ready(u)
        BY <1>0, RemoveExitedReady DEF Tables
      <3>2. Ready(v)
        BY <1>0, <1>5, <3>1, CallerExitKeeps
      <3> QED BY <2>1, <3>2, Collected
    <2> QED BY <1>0, <1>2, <2>1
  <1> QED BY <1>4, <1>6 DEF IInv

(* The exit of a thread, handled or lost, keeps the invariant. *)
LEMMA ExitInv ==
    ASSUME IInv, NEW t \in Tids, Exit(t)
    PROVE  IInv'
  <1>0. KInv /\ KType /\ Tables(tm)
    BY DEF IInv, KInv
  <1>1. PICK r \in KernelReapers(t) :
            LET q == IF {x \in DOMAIN kt : kt[x].ptid = t} = {} THEN 0 ELSE r
            IN  \/ /\ lost' = lost
                   /\ \E u \in RemoveExited(tm) :
                         \E v \in parse_thread_exit(u, t, q) : tm' = Collect(v)
                \/ lost < MaxLost /\ lost' = lost + 1 /\ tm' = tm
    BY DEF Exit, Report, Handle, MayLose
  <1> DEFINE q == IF {x \in DOMAIN kt : kt[x].ptid = t} = {} THEN 0 ELSE r
  <1>2. LostType
    BY <1>0, <1>1, ThreadAssumption, SMTT(60), Z3T(60) DEF KInv, LostType
  <1>3. KInv'
    BY <1>0, <1>2, ExitKInv
  <1>4. q \in Tids \cup {0} /\ q # t
    <2>0. t # 1
      BY DEF Exit
    <2>1. t # 1 /\ t # 0 /\ 1 \in Tids
      BY <2>0, ThreadAssumption
    <2>2. r # t /\ (r = 1 \/ r \in DOMAIN kt)
      BY <2>1 DEF KernelReapers, Live
    <2>3. r \in Tids
      BY <1>0, <2>1, <2>2 DEF KType
    <2> QED BY <2>1, <2>2, <2>3
  <1> HIDE DEF q
  <1>5. \/ \E u \in RemoveExited(tm) : \E v \in parse_thread_exit(u, t, q) : tm' = Collect(v)
        \/ tm' = tm
    BY <1>1 DEF q
  <1>6. Tables(tm')
    <2>1. ASSUME NEW u \in RemoveExited(tm), NEW v \in parse_thread_exit(u, t, q),
                 tm' = Collect(v)
          PROVE  Tables(tm')
      <3>1. Ready(u)
        BY <1>0, RemoveExitedReady DEF Tables
      <3>2. Tables(v)
        BY <1>4, <3>1, ThreadExitKeeps
      <3> QED BY <2>1, <3>2, Collected
    <2> QED BY <1>0, <1>5, <2>1
  <1> QED BY <1>3, <1>6 DEF IInv

(* An execve, handled or lost, keeps the invariant. *)
LEMMA ExecInv ==
    ASSUME IInv, NEW t \in Tids, Exec(t)
    PROVE  IInv'
  <1> DEFINE pid == kt[t].pid
             ptid == kt[t].ptid
  <1>0. KInv /\ KType /\ Tables(tm)
    BY DEF IInv, KInv
  <1>1. \/ /\ lost' = lost
           /\ \E u \in RemoveExited(tm) :
                 \E v \in parse_execve_exit(u, pid, pid, ptid) : tm' = Collect(v)
        \/ lost < MaxLost /\ lost' = lost + 1 /\ tm' = tm
    BY DEF Exec, Report, Handle, MayLose
  <1>2. LostType
    BY <1>0, <1>1, ThreadAssumption, SMTT(60), Z3T(60) DEF KInv, LostType
  <1>3. KInv'
    BY <1>0, <1>2, ExecKInv
  <1>4. pid \in Tids /\ ptid \in Int
    <2>1. kt[t] \in KThread
      BY <1>0 DEF KType, Exec, Running
    <2>2. pid \in Tids /\ ptid \in Tids \cup {0}
      BY <2>1 DEF KThread
    <2>3. Tids \subseteq Int
      BY ThreadAssumption, SMTT(60), Z3T(60)
    <2> HIDE DEF pid, ptid
    <2> QED BY <2>2, <2>3, SMTT(60), Z3T(60)
  <1> HIDE DEF pid, ptid
  <1>5. Tables(tm')
    <2>1. ASSUME NEW u \in RemoveExited(tm), NEW v \in parse_execve_exit(u, pid, pid, ptid),
                 tm' = Collect(v)
          PROVE  Tables(tm')
      <3>1. Ready(u)
        BY <1>0, RemoveExitedReady DEF Tables
      <3>2. Ready(v)
        BY <1>0, <1>4, <3>1, ExecveExitKeeps
      <3> QED BY <2>1, <3>2, Collected
    <2> QED BY <1>0, <1>1, <2>1
  <1> QED BY <1>3, <1>5 DEF IInv

(* Any other event of a thread, which only looks the thread up, keeps the invariant. *)
LEMMA SyscallInv ==
    ASSUME IInv, NEW t \in Tids, Syscall(t)
    PROVE  IInv'
  <1>0. KInv /\ KType /\ Tables(tm)
    BY DEF IInv, KInv
  <1>1. /\ kt' = kt /\ calls' = calls /\ clones' = clones /\ made' = made /\ lost' = lost
        /\ early' = early
        /\ \E u \in RemoveExited(tm) : \E v \in get_thread(u, t) : tm' = Collect(v)
    BY DEF Syscall, Handle
  <1>2. KInv'
    BY <1>0, <1>1 DEF KInv, KType
  <1>3. PICK u \in RemoveExited(tm) : \E v \in get_thread(u, t) : tm' = Collect(v)
    BY <1>1
  <1>4. PICK v \in get_thread(u, t) : tm' = Collect(v)
    BY <1>3
  <1>5. Ready(u)
    BY <1>0, RemoveExitedReady DEF Tables
  <1>6. Ready(v)
    BY <1>0, <1>5, GetThreadKeeps, KeepsReady, SMTT(60), Z3T(60) DEF Ready
  <1> QED BY <1>2, <1>4, <1>6, Collected DEF IInv

(* The periodic purge keeps the invariant, whichever threads are idle. *)
LEMMA PurgeInv ==
    ASSUME IInv, NEW idle, remove_inactive_threads(idle)
    PROVE  IInv'
  <1>0. KInv /\ KType /\ Tables(tm)
    BY DEF IInv, KInv
  <1>1. /\ kt' = kt /\ calls' = calls /\ clones' = clones /\ made' = made /\ lost' = lost
        /\ early' = early
        /\ \E u \in RemoveExited(tm) : \E v \in PurgeIdle(u, idle) : tm' = Collect(v)
    BY DEF remove_inactive_threads, Handle
  <1>2. KInv'
    BY <1>0, <1>1 DEF KInv, KType
  <1>3. PICK u \in RemoveExited(tm) : \E v \in PurgeIdle(u, idle) : tm' = Collect(v)
    BY <1>1
  <1>4. PICK v \in PurgeIdle(u, idle) : tm' = Collect(v)
    BY <1>3
  <1>5. Ready(u)
    BY <1>0, RemoveExitedReady DEF Tables
  <1>6. Ready(v)
    BY <1>0, <1>5, PurgeKeeps
  <1> QED BY <1>2, <1>4, <1>6, Collected DEF IInv

(* The passing of time keeps the invariant. *)
LEMMA TimeInv ==
    ASSUME IInv, TimePasses
    PROVE  IInv'
  <1>0. KInv /\ KType /\ Tables(tm)
    BY DEF IInv, KInv
  <1>1. /\ calls' = calls /\ lost' = lost /\ clones' = clones /\ made' = made /\ early' = early
        /\ kt' = [t \in DOMAIN kt |-> [kt[t] EXCEPT !.fresh = FALSE]]
        /\ tm' = [tm EXCEPT !.recent = {},
                            !.tab = [t \in DOMAIN tm.tab |->
                                       [tm.tab[t] EXCEPT !.clone_ts = IF @ = "fresh" THEN "old" ELSE @]]]
    BY DEF TimePasses
  <1>2. Tables(tm')
    BY <1>0, <1>1, TimeKeeps
  <1>3. \A x \in DOMAIN kt : /\ kt'[x] \in KThread
                             /\ kt'[x].pid = kt[x].pid /\ kt'[x].ptid = kt[x].ptid
                             /\ kt'[x].zombie = kt[x].zombie /\ kt'[x].new = kt[x].new
    <2> TAKE x \in DOMAIN kt
    <2> DEFINE i == kt[x]
    <2>1. i \in KThread /\ kt'[x] = [i EXCEPT !.fresh = FALSE]
      BY <1>0, <1>1 DEF KType
    <2> HIDE DEF i
    <2>2. /\ kt'[x] \in KThread /\ kt'[x].pid = i.pid /\ kt'[x].ptid = i.ptid
          /\ kt'[x].zombie = i.zombie /\ kt'[x].new = i.new
      BY <2>1 DEF KThread
    <2> QED BY <2>2 DEF i
  <1>4. DOMAIN kt' = DOMAIN kt /\ kt' \in [DOMAIN kt -> KThread]
    BY <1>1, <1>3
  <1>5. LostType
    BY <1>0, <1>1 DEF KInv, LostType
  <1>6. KInv'
    BY <1>0, <1>1, <1>3, <1>4, <1>5, MarkKInv
  <1> QED BY <1>2, <1>6 DEF IInv

(* The invariant of the table and of the kernel holds in every behaviour:  *)
(* whatever events are lost, in whichever order the two returns of clone() *)
(* are handled, and however the purge and the reuse of thread ids fall.    *)
THEOREM TableInvariant == Spec => []IInv
  <1>1. Init => IInv
    BY InitInv
  <1>2. IInv /\ [Next]_vars => IInv'
    <2> SUFFICES ASSUME IInv, [Next]_vars PROVE IInv'
      OBVIOUS
    <2>1. CASE Kernel
      <3>1. PICK t \in Tids : \/ \E c \in Tids, kind \in Kinds : Clone(c, t, kind)
                              \/ ChildReturns(t) \/ Exit(t) \/ Exec(t) \/ Syscall(t)
        BY <2>1 DEF Kernel
      <3> QED BY <3>1, CloneInv, ChildReturnsInv, ExitInv, ExecInv, SyscallInv
    <2>2. CASE \E k \in calls : CallerReturns(k)
      BY <2>2, CallerReturnsInv
    <2>3. CASE TimePasses
      BY <2>3, TimeInv
    <2>4. CASE \E idle \in SUBSET Gone : remove_inactive_threads(idle)
      BY <2>4, PurgeInv
    <2>5. CASE UNCHANGED vars
      <3>1. /\ kt' = kt /\ calls' = calls /\ tm' = tm /\ lost' = lost /\ clones' = clones
            /\ made' = made /\ early' = early
        BY <2>5 DEF vars
      <3> QED BY <3>1 DEF IInv, KInv, KType
    <2> QED BY <2>1, <2>2, <2>3, <2>4, <2>5 DEF Next
  <1> QED BY <1>1, <1>2, PTL DEF Spec

(* The manager's tables refer to what exists, and the counters stay in     *)
(* their ranges.                                                           *)
THEOREM TableTypes == Spec => []TypeOK
  <1>1. IInv => TypeOK
    <2> SUFFICES ASSUME IInv PROVE TypeOK
      OBVIOUS
    <2>1. KInv /\ Base(tm) /\ tm \in Manager /\ Links(tm) /\ Refs(tm)
      BY DEF IInv, Tables, Base
    <2>2. /\ DOMAIN tm.tab \subseteq Tids /\ tm.to_remove \in Tids \cup {0}
          /\ tm.leaked \in BOOLEAN /\ tm.grp \in [DOMAIN tm.grp -> Group]
      BY <2>1, Types
    <2>3. made \in [Tids -> 0 .. MaxClones + 1]
      BY <2>1, ThreadAssumption, SMTT(60), Z3T(60) DEF KInv
    <2>4. \A g \in DOMAIN tm.grp : tm.grp[g].alive \in Nat
      BY <2>2 DEF Group
    <2>5. \A t \in DOMAIN tm.tab : /\ tm.tab[t].tginfo \in DOMAIN tm.grp \cup {0}
                                   /\ tm.tab[t].children \subseteq DOMAIN tm.tab
      BY <2>1 DEF Refs, Links
    <2> QED BY <2>1, <2>2, <2>3, <2>4, <2>5 DEF TypeOK, KInv, KType
  <1> QED BY <1>1, TableInvariant, PTL

(* A group counts its live threads, unless an entry was freed that it      *)
(* counted: exits, removals, execve and the purge keep m_alive_count.      *)
THEOREM GroupsCountExactly == Spec => []GroupCountExact
  <1>1. IInv => GroupCountExact
    BY DEF IInv, Tables, Base, Counts, LiveOf, GroupCountExact
  <1> QED BY <1>1, TableInvariant, PTL

(* m_children and m_ptid agree after every reparenting and removal. *)
THEOREM ChildrenKnowParent == Spec => []ChildrenPointBack
  <1>1. IInv => ChildrenPointBack
    BY DEF IInv, Tables, Base, Links, ChildrenPointBack
  <1> QED BY <1>1, TableInvariant, PTL

(* find_new_reaper and the reaper an exit named never give a thread its    *)
(* own children: the exception of assign_children_to_reaper is not thrown. *)
THEOREM ReaperIsAnother == Spec => []NeverOwnReaper
  <1>1. IInv => NeverOwnReaper
    <2> SUFFICES ASSUME IInv, NEW t \in DOMAIN tm.tab, tm.tab[t].tginfo # 0
                 PROVE  Reaper(Kill(tm, t), t) # t
      BY DEF NeverOwnReaper
    <2> DEFINE k == Kill(tm, t)
               d == [tm.tab[t] EXCEPT !.dead = TRUE]
               r == Reaper(k, t)
    <2>1. Base(tm) /\ tm.tab[t] \in Info /\ t \in Tids
      BY Types DEF IInv, Tables, Base
    <2>2. Keeps(tm, k) /\ OneChanged(tm, k, t, d)
      BY <2>1, KillKeeps
    <2>3. d.dead /\ d.tginfo = tm.tab[t].tginfo
      BY <2>1 DEF Info
    <2> HIDE DEF k, d
    <2>4. Base(k) /\ t \in DOMAIN k.tab /\ k.tab[t].tginfo # 0 /\ k.tab[t].dead
      BY <2>2, <2>3 DEF Keeps, OneChanged
    <2>5. r \in {0, -1} \/ (r \in DOMAIN k.tab /\ r # t)
      BY <2>4, ReaperIs
    <2>6. t \in Nat \ {0}
      BY <2>1, ThreadAssumption
    <2> HIDE DEF r
    <2>7. r # t
      BY <2>5, <2>6, SMTT(60), Z3T(60)
    <2> QED BY <2>7 DEF r, k
  <1> QED BY <1>1, TableInvariant, PTL
=============================================================================
