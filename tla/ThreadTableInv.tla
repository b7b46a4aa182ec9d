--------------------------- MODULE ThreadTableInv ---------------------------
(***************************************************************************)
(* The invariant of the thread manager, Base, and what its operations keep *)
(* of it, for any number of thread ids and clones.  Base relates the       *)
(* table, the groups with their counts and lists, and the lists of         *)
(* children to each other.  ThreadTable_proofs goes on with the handlers   *)
(* of the parser and the kernel's side.                                    *)
(***************************************************************************)
EXTENDS ThreadTable, FiniteSetTheorems, TLAPS

(* The prover of the steps that name none; arithmetic is left to SMT.     *)
USE ZenonT(40)

(* A set of numbers has a least one. *)
LEMMA Least ==
    ASSUME NEW S \in SUBSET Nat, S # {}
    PROVE  Min(S) \in S /\ \A m \in S : Min(S) <= m
  <1> DEFINE R == OpToRel(<, Nat)
  <1>1. IsWellFoundedOn(R, Nat)
    BY NatLessThanWellFounded
  <1>2. \A m, n \in Nat : <<m, n>> \in R <=> m < n
    BY DEF OpToRel
  <1> HIDE DEF R
  <1>3. PICK n \in S : \A m \in S : <<m, n>> \notin R
    BY <1>1, WFMin
  <1>4. \A m \in S : ~(m < n)
    BY <1>2, <1>3
  <1>5. \A m \in S : n <= m
    BY <1>4, SMTT(60), Z3T(60)
  <1> QED BY <1>5 DEF Min

(* Induction, over a set of numbers. *)
LEMMA SetInduction ==
    ASSUME NEW S \in SUBSET Nat, 0 \in S, \A n \in S : n + 1 \in S
    PROVE  S = Nat
  <1> SUFFICES ASSUME S # Nat PROVE FALSE
    OBVIOUS
  <1> DEFINE n == Min(Nat \ S)
  <1>1. n \in Nat \ S /\ \A m \in Nat \ S : n <= m
    BY Least
  <1> HIDE DEF n
  <1>2. n # 0 /\ n - 1 \in Nat /\ n - 1 \notin S
    BY <1>1, SMTT(60), Z3T(60)
  <1> QED BY <1>1, <1>2, SMTT(60), Z3T(60)

-----------------------------------------------------------------------------
(* The state of the manager *)

Info == [pid : Int, ptid : Int, dead : BOOLEAN, inverted : BOOLEAN,
         clone_ts : {"none", "fresh", "old"}, reaper_tid : Tids \cup {0, -1},
         tginfo : Nat, children : SUBSET Tids, expired : BOOLEAN]

Group == [alive : Nat, reaper : BOOLEAN, threads : Seq(Tids)]

(* Functions from some members of S. *)
Partial(S, T) == UNION {[D -> T] : D \in SUBSET S}

Manager ==
    [tab : Partial(Tids, Info), grp : Partial(Nat \ {0}, Group), groups : Partial(Int, Nat),
     to_remove : Tids \cup {0}, recent : SUBSET (Int \X Tids), leaked : BOOLEAN,
     max : TableSizes]

(* A thread in a list of children has that thread as its parent. *)
Links(u) ==
    \A t \in DOMAIN u.tab : \A c \in u.tab[t].children :
        c \in DOMAIN u.tab /\ u.tab[c].ptid = t /\ u.tab[c].pid >= 0

(* No thread is named as its own reaper. *)
Reapers(u) == \A t \in DOMAIN u.tab : u.tab[t].reaper_tid # t

(* Threads and process ids refer to groups that exist. *)
Refs(u) ==
    /\ IsFiniteSet(DOMAIN u.grp)
    /\ \A t \in DOMAIN u.tab : u.tab[t].tginfo \in DOMAIN u.grp \cup {0}
    /\ \A p \in DOMAIN u.groups : u.groups[p] \in DOMAIN u.grp

(* The list of a group has threads of the group, each once. *)
ListOf(u, g) ==
    LET s == u.grp[g].threads
    IN  /\ \A i \in 1 .. Len(s) : s[i] \in DOMAIN u.tab /\ u.tab[s[i]].tginfo = g
        /\ \A i, k \in 1 .. Len(s) : s[i] = s[k] => i = k

Lists(u) == \A g \in DOMAIN u.grp : ListOf(u, g)

LiveOf(u, g) == {t \in DOMAIN u.tab : u.tab[t].tginfo = g /\ ~u.tab[t].dead}

(* A group never counts less than its live threads, and exactly them       *)
(* unless an entry was freed that was counted.                             *)
Counts(u) ==
    \A g \in DOMAIN u.grp :
        /\ u.grp[g].alive >= Cardinality(LiveOf(u, g))
        /\ u.leaked \/ u.grp[g].alive = Cardinality(LiveOf(u, g))

Base(u) == u \in Manager /\ Links(u) /\ Reapers(u) /\ Refs(u) /\ Lists(u) /\ Counts(u)

(* The threads that exited and had no group. *)
Pend(u) == {t \in DOMAIN u.tab : u.tab[t].dead /\ u.tab[t].tginfo = 0}

(* What the type says. *)
LEMMA Types ==
    ASSUME NEW u \in Manager
    PROVE  /\ u.tab \in [DOMAIN u.tab -> Info] /\ DOMAIN u.tab \subseteq Tids
           /\ u.grp \in [DOMAIN u.grp -> Group] /\ DOMAIN u.grp \subseteq Nat \ {0}
           /\ u.groups \in [DOMAIN u.groups -> Nat] /\ DOMAIN u.groups \subseteq Int
           /\ u.leaked \in BOOLEAN /\ u.to_remove \in Tids \cup {0}
           /\ u.recent \in SUBSET (Int \X Tids) /\ u.max \in TableSizes
  <1>1. /\ u.tab \in Partial(Tids, Info) /\ u.grp \in Partial(Nat \ {0}, Group)
        /\ u.groups \in Partial(Int, Nat)
        /\ u.leaked \in BOOLEAN /\ u.to_remove \in Tids \cup {0}
        /\ u.recent \in SUBSET (Int \X Tids) /\ u.max \in TableSizes
    BY DEF Manager
  <1>2. \A S, T, f : f \in Partial(S, T) => f \in [DOMAIN f -> T] /\ DOMAIN f \subseteq S
    BY DEF Partial
  <1> QED BY <1>1, <1>2

(* A manager, by its fields. *)
Mgr(tab, grp, groups, to_remove, recent, leaked, max) ==
    [tab |-> tab, grp |-> grp, groups |-> groups, to_remove |-> to_remove,
     recent |-> recent, leaked |-> leaked, max |-> max]

(* The fields of such a manager. *)
LEMMA MgrFields ==
    ASSUME NEW a, NEW b, NEW c, NEW d, NEW e, NEW f, NEW g
    PROVE  LET u == Mgr(a, b, c, d, e, f, g)
           IN  /\ u.tab = a /\ u.grp = b /\ u.groups = c /\ u.to_remove = d
               /\ u.recent = e /\ u.leaked = f /\ u.max = g
  BY DEF Mgr

(* A manager is the record of its fields. *)
LEMMA MgrIs ==
    ASSUME NEW u \in Manager
    PROVE  u = Mgr(u.tab, u.grp, u.groups, u.to_remove, u.recent, u.leaked, u.max)
  BY DEF Mgr, Manager

(* And what gives the type. *)
LEMMA MgrType ==
    ASSUME NEW tab, NEW grp, NEW groups, NEW to_remove \in Tids \cup {0},
           NEW recent \in SUBSET (Int \X Tids), NEW leaked \in BOOLEAN, NEW max \in TableSizes,
           tab \in [DOMAIN tab -> Info], DOMAIN tab \subseteq Tids,
           grp \in [DOMAIN grp -> Group], DOMAIN grp \subseteq Nat \ {0},
           groups \in [DOMAIN groups -> Nat], DOMAIN groups \subseteq Int
    PROVE  Mgr(tab, grp, groups, to_remove, recent, leaked, max) \in Manager
  <1>1. \A S, T, f : f \in [DOMAIN f -> T] /\ DOMAIN f \subseteq S => f \in Partial(S, T)
    BY DEF Partial
  <1>2. /\ tab \in Partial(Tids, Info) /\ grp \in Partial(Nat \ {0}, Group)
        /\ groups \in Partial(Int, Nat)
    BY <1>1
  <1> QED BY <1>2 DEF Manager, Mgr

(* What Erase leaves. *)
LEMMA EraseIs ==
    ASSUME NEW u \in Manager, NEW t
    PROVE  Erase(u, t) =
             Mgr([x \in DOMAIN u.tab \ {t} |->
                     [u.tab[x] EXCEPT !.children = @ \ {t},
                                      !.expired = @ \/ t \in u.tab[x].children]],
                 [g \in DOMAIN u.grp |-> [u.grp[g] EXCEPT !.threads = Without(@, t)]],
                 u.groups, u.to_remove, u.recent,
                 u.leaked \/ (Has(u, t) /\ u.tab[t].tginfo # 0 /\ ~u.tab[t].dead), u.max)
  <1> DEFINE tab == [x \in DOMAIN u.tab \ {t} |->
                        [u.tab[x] EXCEPT !.children = @ \ {t},
                                         !.expired = @ \/ t \in u.tab[x].children]]
             grp == [g \in DOMAIN u.grp |-> [u.grp[g] EXCEPT !.threads = Without(@, t)]]
             l == u.leaked \/ (Has(u, t) /\ u.tab[t].tginfo # 0 /\ ~u.tab[t].dead)
             v == [u EXCEPT !.leaked = l]
             w == [v EXCEPT !.tab = tab]
  <1>1. Erase(u, t) = [w EXCEPT !.grp = grp]
    BY DEF Erase
  <1> HIDE DEF tab, grp, l
  <1>2. v = Mgr(u.tab, u.grp, u.groups, u.to_remove, u.recent, l, u.max)
    BY MgrIs, SMTT(60), Z3T(60) DEF Mgr
  <1> HIDE DEF v
  <1>3. w = Mgr(tab, u.grp, u.groups, u.to_remove, u.recent, l, u.max)
    BY <1>2, SMTT(60), Z3T(60) DEF Mgr
  <1> HIDE DEF w
  <1>4. [w EXCEPT !.grp = grp] = Mgr(tab, grp, u.groups, u.to_remove, u.recent, l, u.max)
    BY <1>3, SMTT(60), Z3T(60) DEF Mgr
  <1> QED BY <1>1, <1>4 DEF tab, grp, l

-----------------------------------------------------------------------------
(* Erase *)

(* The members of a list without t are the others, in the type it had. *)
LEMMA WithoutDoes ==
    ASSUME NEW T, NEW s \in Seq(T), NEW t
    PROVE  /\ Without(s, t) \in Seq(T)
           /\ (\A i, k \in 1 .. Len(s) : s[i] = s[k] => i = k) =>
                 /\ \A i \in 1 .. Len(Without(s, t)) :
                        /\ Without(s, t)[i] # t
                        /\ \E k \in 1 .. Len(s) : Without(s, t)[i] = s[k]
                 /\ \A i, k \in 1 .. Len(Without(s, t)) :
                        Without(s, t)[i] = Without(s, t)[k] => i = k
  <1>1. /\ Len(s) \in Nat /\ \A k \in 1 .. Len(s) : s[k] \in T
        /\ \A x : x \in Range(s) <=> \E k \in 1 .. Len(s) : s[k] = x
    BY SMTT(60), Z3T(60) DEF Range
  <1>2. CASE t \notin Range(s)
    <2>1. Without(s, t) = s
      BY <1>2 DEF Without
    <2> QED BY <1>1, <1>2, <2>1
  <1>3. CASE t \in Range(s)
    <2> DEFINE j == CHOOSE k \in 1 .. Len(s) : s[k] = t
               w == [k \in 1 .. Len(s) - 1 |-> IF k < j THEN s[k] ELSE s[k + 1]]
    <2>1. j \in 1 .. Len(s) /\ s[j] = t
      BY <1>1, <1>3
    <2>2. Without(s, t) = w
      BY <1>3 DEF Without
    <2> HIDE DEF j
    <2>3. Len(s) - 1 \in Nat
      BY <1>1, <2>1, SMTT(60), Z3T(60)
    <2>4. w \in Seq(T) /\ Len(w) = Len(s) - 1
      <3>1. \A k \in 1 .. Len(s) - 1 : (IF k < j THEN s[k] ELSE s[k + 1]) \in T
        BY <1>1, <2>1, SMTT(60), Z3T(60)
      <3>2. w \in [1 .. Len(s) - 1 -> T]
        BY <3>1
      <3> QED BY <2>3, <3>2, SMTT(60), Z3T(60)
    <2>5. \A k \in 1 .. Len(s) - 1 : w[k] = IF k < j THEN s[k] ELSE s[k + 1]
      OBVIOUS
    <2> HIDE DEF w
    <2>6. ASSUME \A i, k \in 1 .. Len(s) : s[i] = s[k] => i = k
          PROVE  /\ \A i \in 1 .. Len(w) : w[i] # t /\ \E k \in 1 .. Len(s) : w[i] = s[k]
                 /\ \A i, k \in 1 .. Len(w) : w[i] = w[k] => i = k
      <3> DEFINE at(i) == IF i < j THEN i ELSE i + 1
      <3>1. \A i \in 1 .. Len(w) : at(i) \in 1 .. Len(s) /\ at(i) # j /\ w[i] = s[at(i)]
        BY <1>1, <2>1, <2>3, <2>4, <2>5, SMTT(60), Z3T(60)
      <3>2. \A i, k \in 1 .. Len(w) : at(i) = at(k) => i = k
        BY <1>1, <2>1, <2>3, <2>4, SMTT(60), Z3T(60)
      <3> HIDE DEF at
      <3> QED BY <2>1, <2>6, <3>1, <3>2
    <2> QED BY <2>2, <2>4, <2>6
  <1> QED BY <1>2, <1>3

(* The object of t is gone, and no list has it; the other entries are as   *)
(* they were.                                                              *)
LEMMA EraseDoes ==
    ASSUME NEW u \in Manager, NEW t
    PROVE  LET v == Erase(u, t)
           IN  /\ v \in Manager
               /\ v.groups = u.groups /\ v.to_remove = u.to_remove /\ v.recent = u.recent
               /\ v.max = u.max
               /\ v.leaked <=> u.leaked \/ (Has(u, t) /\ u.tab[t].tginfo # 0 /\ ~u.tab[t].dead)
               /\ DOMAIN v.tab = DOMAIN u.tab \ {t} /\ DOMAIN v.grp = DOMAIN u.grp
               /\ \A x \in DOMAIN u.tab \ {t} :
                     /\ v.tab[x].pid = u.tab[x].pid /\ v.tab[x].ptid = u.tab[x].ptid
                     /\ v.tab[x].dead = u.tab[x].dead /\ v.tab[x].tginfo = u.tab[x].tginfo
                     /\ v.tab[x].reaper_tid = u.tab[x].reaper_tid
                     /\ v.tab[x].children = u.tab[x].children \ {t}
               /\ \A g \in DOMAIN u.grp :
                     /\ v.grp[g].alive = u.grp[g].alive
                     /\ v.grp[g].threads = Without(u.grp[g].threads, t)
  <1> DEFINE tab == [x \in DOMAIN u.tab \ {t} |->
                        [u.tab[x] EXCEPT !.children = @ \ {t},
                                         !.expired = @ \/ t \in u.tab[x].children]]
             grp == [g \in DOMAIN u.grp |-> [u.grp[g] EXCEPT !.threads = Without(@, t)]]
             l == u.leaked \/ (Has(u, t) /\ u.tab[t].tginfo # 0 /\ ~u.tab[t].dead)
             v == Erase(u, t)
  <1>1. v = Mgr(tab, grp, u.groups, u.to_remove, u.recent, l, u.max)
    BY EraseIs
  <1> HIDE DEF v
  <1>2. /\ v.tab = tab /\ v.grp = grp /\ v.groups = u.groups /\ v.to_remove = u.to_remove
        /\ v.recent = u.recent /\ v.leaked = l /\ v.max = u.max
    <2> HIDE DEF tab, grp, l
    <2> QED BY <1>1 DEF Mgr
  <1>3. \A x \in DOMAIN u.tab \ {t} :
           /\ tab[x] \in Info
           /\ tab[x].pid = u.tab[x].pid /\ tab[x].ptid = u.tab[x].ptid
           /\ tab[x].dead = u.tab[x].dead /\ tab[x].tginfo = u.tab[x].tginfo
           /\ tab[x].reaper_tid = u.tab[x].reaper_tid
           /\ tab[x].children = u.tab[x].children \ {t}
    <2> SUFFICES ASSUME NEW x \in DOMAIN u.tab \ {t}
                 PROVE  /\ tab[x] \in Info
                        /\ tab[x].pid = u.tab[x].pid /\ tab[x].ptid = u.tab[x].ptid
                        /\ tab[x].dead = u.tab[x].dead /\ tab[x].tginfo = u.tab[x].tginfo
                        /\ tab[x].reaper_tid = u.tab[x].reaper_tid
                        /\ tab[x].children = u.tab[x].children \ {t}
      OBVIOUS
    <2> DEFINE e == u.tab[x]
               f == [e EXCEPT !.children = @ \ {t}]
    <2>1. e \in Info /\ tab[x] = [f EXCEPT !.expired = @ \/ t \in e.children]
      BY Types
    <2> HIDE DEF e, tab
    <2>2. /\ f \in Info
          /\ f.pid = e.pid /\ f.ptid = e.ptid /\ f.dead = e.dead /\ f.tginfo = e.tginfo
          /\ f.reaper_tid = e.reaper_tid /\ f.children = e.children \ {t}
      BY <2>1 DEF Info
    <2> HIDE DEF f
    <2>3. /\ tab[x] \in Info
          /\ tab[x].pid = f.pid /\ tab[x].ptid = f.ptid /\ tab[x].dead = f.dead
          /\ tab[x].tginfo = f.tginfo /\ tab[x].reaper_tid = f.reaper_tid
          /\ tab[x].children = f.children
      BY <2>1, <2>2 DEF Info
    <2> QED BY <2>2, <2>3 DEF e
  <1>4. \A g \in DOMAIN u.grp :
           /\ grp[g] \in Group
           /\ grp[g].alive = u.grp[g].alive
           /\ grp[g].threads = Without(u.grp[g].threads, t)
    <2> SUFFICES ASSUME NEW g \in DOMAIN u.grp
                 PROVE  /\ grp[g] \in Group
                        /\ grp[g].alive = u.grp[g].alive
                        /\ grp[g].threads = Without(u.grp[g].threads, t)
      OBVIOUS
    <2>1. u.grp[g] \in Group /\ grp[g] = [u.grp[g] EXCEPT !.threads = Without(@, t)]
      BY Types
    <2>2. Without(u.grp[g].threads, t) \in Seq(Tids)
      BY <2>1, WithoutDoes DEF Group
    <2> HIDE DEF grp
    <2> QED BY <2>1, <2>2 DEF Group
  <1>5. /\ DOMAIN tab = DOMAIN u.tab \ {t} /\ tab \in [DOMAIN tab -> Info]
        /\ DOMAIN grp = DOMAIN u.grp /\ grp \in [DOMAIN grp -> Group]
        /\ l \in BOOLEAN
    BY <1>3, <1>4
  <1> HIDE DEF tab, grp, l
  <1>6. v \in Manager
    BY <1>1, <1>5, Types, MgrType
  <1>7. v.leaked <=> u.leaked \/ (Has(u, t) /\ u.tab[t].tginfo # 0 /\ ~u.tab[t].dead)
    BY <1>2 DEF l
  <1> QED BY <1>2, <1>3, <1>4, <1>5, <1>6, <1>7 DEF v

(* t is in no list of children. *)
Orphan(u, t) == \A x \in DOMAIN u.tab : t \notin u.tab[x].children

(* The live threads of a group are finitely many. *)
LEMMA LiveFinite ==
    ASSUME NEW u \in Manager, NEW g
    PROVE  IsFiniteSet(LiveOf(u, g)) /\ Cardinality(LiveOf(u, g)) \in Nat
  <1>1. LiveOf(u, g) \subseteq Tids
    BY Types DEF LiveOf
  <1> QED BY <1>1, ThreadAssumption, FS_Subset, FS_CardinalityType

(* Freeing the object of t keeps all of the invariant. *)
LEMMA EraseKeeps ==
    ASSUME NEW u, Base(u), NEW t
    PROVE  /\ Base(Erase(u, t)) /\ Orphan(Erase(u, t), t)
           /\ Pend(Erase(u, t)) \subseteq Pend(u) \ {t}
  <1> DEFINE v == Erase(u, t)
  <1>0. u \in Manager /\ Links(u) /\ Reapers(u) /\ Refs(u) /\ Lists(u) /\ Counts(u)
    BY DEF Base
  <1>1. /\ v \in Manager
        /\ v.groups = u.groups
        /\ v.leaked <=> u.leaked \/ (Has(u, t) /\ u.tab[t].tginfo # 0 /\ ~u.tab[t].dead)
        /\ DOMAIN v.tab = DOMAIN u.tab \ {t} /\ DOMAIN v.grp = DOMAIN u.grp
        /\ \A x \in DOMAIN u.tab \ {t} :
              /\ v.tab[x].pid = u.tab[x].pid /\ v.tab[x].ptid = u.tab[x].ptid
              /\ v.tab[x].dead = u.tab[x].dead /\ v.tab[x].tginfo = u.tab[x].tginfo
              /\ v.tab[x].reaper_tid = u.tab[x].reaper_tid
              /\ v.tab[x].children = u.tab[x].children \ {t}
        /\ \A g \in DOMAIN u.grp :
              /\ v.grp[g].alive = u.grp[g].alive
              /\ v.grp[g].threads = Without(u.grp[g].threads, t)
    BY <1>0, EraseDoes, SMTT(60), Z3T(60)
  <1> HIDE DEF v
  <1>2. Links(v)
    BY <1>0, <1>1, SMTT(60), Z3T(60) DEF Links
  <1>3. Reapers(v)
    BY <1>0, <1>1, SMTT(60), Z3T(60) DEF Reapers
  <1>4. Refs(v)
    BY <1>0, <1>1 DEF Refs
  <1>5. Lists(v)
    <2> SUFFICES ASSUME NEW g \in DOMAIN u.grp PROVE ListOf(v, g)
      BY <1>1 DEF Lists
    <2> DEFINE s == u.grp[g].threads
               w == v.grp[g].threads
    <2>1. /\ s \in Seq(Tids) /\ w = Without(s, t)
          /\ \A i \in 1 .. Len(s) : s[i] \in DOMAIN u.tab /\ u.tab[s[i]].tginfo = g
          /\ \A i, k \in 1 .. Len(s) : s[i] = s[k] => i = k
      <3>1. ListOf(u, g)
        BY <1>0 DEF Lists
      <3>2. u.grp[g] \in Group
        BY <1>0, Types
      <3>3. s \in Seq(Tids)
        BY <3>2 DEF Group
      <3>4. w = Without(s, t)
        BY <1>1
      <3> QED BY <3>1, <3>3, <3>4 DEF ListOf
    <2> HIDE DEF s
    <2>2. /\ \A i \in 1 .. Len(w) : w[i] # t /\ \E k \in 1 .. Len(s) : w[i] = s[k]
          /\ \A i, k \in 1 .. Len(w) : w[i] = w[k] => i = k
      BY <2>1, WithoutDoes, SMTT(60), Z3T(60)
    <2>3. \A i \in 1 .. Len(w) : w[i] \in DOMAIN v.tab /\ v.tab[w[i]].tginfo = g
      <3> SUFFICES ASSUME NEW i \in 1 .. Len(w)
                   PROVE  w[i] \in DOMAIN v.tab /\ v.tab[w[i]].tginfo = g
        OBVIOUS
      <3>1. PICK k \in 1 .. Len(s) : w[i] = s[k]
        BY <2>2
      <3>2. w[i] \in DOMAIN u.tab \ {t} /\ u.tab[w[i]].tginfo = g
        BY <2>1, <2>2, <3>1
      <3> QED BY <1>1, <3>2
    <2> QED BY <2>2, <2>3 DEF ListOf
  <1>6. Counts(v)
    <2> SUFFICES ASSUME NEW g \in DOMAIN u.grp
                 PROVE  /\ v.grp[g].alive >= Cardinality(LiveOf(v, g))
                        /\ v.leaked \/ v.grp[g].alive = Cardinality(LiveOf(v, g))
      BY <1>1 DEF Counts
    <2>1. LiveOf(v, g) = LiveOf(u, g) \ {t}
      BY <1>1 DEF LiveOf
    <2>2. IsFiniteSet(LiveOf(u, g)) /\ Cardinality(LiveOf(u, g)) \in Nat
      BY <1>0, LiveFinite
    <2>3. /\ u.grp[g].alive \in Nat /\ u.grp[g].alive >= Cardinality(LiveOf(u, g))
          /\ u.leaked \/ u.grp[g].alive = Cardinality(LiveOf(u, g))
      BY <1>0, Types DEF Counts, Group
    <2>4. CASE t \in LiveOf(u, g)
      <3>1. v.leaked
        BY <1>0, <1>1, <2>4, Types DEF LiveOf, Has
      <3>2. Cardinality(LiveOf(v, g)) = Cardinality(LiveOf(u, g)) - 1
        BY <2>1, <2>2, <2>4, FS_RemoveElement
      <3> QED BY <1>1, <2>2, <2>3, <3>1, <3>2, SMTT(60), Z3T(60)
    <2>5. CASE t \notin LiveOf(u, g)
      <3>1. LiveOf(v, g) = LiveOf(u, g)
        BY <2>1, <2>5
      <3> QED BY <1>1, <2>3, <3>1
    <2> QED BY <2>4, <2>5
  <1>7. Orphan(v, t)
    BY <1>1 DEF Orphan
  <1>8. Pend(v) \subseteq Pend(u) \ {t}
    BY <1>1 DEF Pend
  <1> QED BY <1>1, <1>2, <1>3, <1>4, <1>5, <1>6, <1>7, <1>8 DEF Base, v

-----------------------------------------------------------------------------
(* Changes of single fields *)

(* Another table. *)
LEMMA SetTab ==
    ASSUME NEW u \in Manager, NEW T, DOMAIN T \subseteq Tids, T \in [DOMAIN T -> Info]
    PROVE  LET v == [u EXCEPT !.tab = T]
           IN  /\ v \in Manager /\ v.tab = T
               /\ v.grp = u.grp /\ v.groups = u.groups /\ v.leaked = u.leaked
               /\ v.to_remove = u.to_remove /\ v.recent = u.recent /\ v.max = u.max
  <1> DEFINE v == [u EXCEPT !.tab = T]
  <1>1. v = Mgr(T, u.grp, u.groups, u.to_remove, u.recent, u.leaked, u.max)
    BY MgrIs, SMTT(60), Z3T(60) DEF Mgr
  <1> HIDE DEF v
  <1>2. v \in Manager
    BY <1>1, Types, MgrType
  <1>3. /\ v.tab = T /\ v.grp = u.grp /\ v.groups = u.groups /\ v.leaked = u.leaked
        /\ v.to_remove = u.to_remove /\ v.recent = u.recent /\ v.max = u.max
    BY <1>1 DEF Mgr
  <1> QED BY <1>2, <1>3 DEF v

(* Another entry of t. *)
LEMMA SetEntry ==
    ASSUME NEW u \in Manager, NEW t \in DOMAIN u.tab, NEW e \in Info
    PROVE  LET v == [u EXCEPT !.tab[t] = e]
           IN  /\ v \in Manager /\ DOMAIN v.tab = DOMAIN u.tab /\ v.tab[t] = e
               /\ \A x \in DOMAIN u.tab \ {t} : v.tab[x] = u.tab[x]
               /\ v.grp = u.grp /\ v.groups = u.groups /\ v.leaked = u.leaked
               /\ v.to_remove = u.to_remove /\ v.recent = u.recent /\ v.max = u.max
  <1> DEFINE T == [u.tab EXCEPT ![t] = e]
  <1>1. /\ T \in [DOMAIN u.tab -> Info] /\ T[t] = e /\ DOMAIN T = DOMAIN u.tab
        /\ \A x \in DOMAIN u.tab \ {t} : T[x] = u.tab[x]
        /\ DOMAIN u.tab \subseteq Tids
    BY Types
  <1>2. [u EXCEPT !.tab[t] = e] = [u EXCEPT !.tab = T]
    OBVIOUS
  <1> HIDE DEF T
  <1> DEFINE v == [u EXCEPT !.tab = T]
  <1>3. /\ v \in Manager /\ v.tab = T
        /\ v.grp = u.grp /\ v.groups = u.groups /\ v.leaked = u.leaked
        /\ v.to_remove = u.to_remove /\ v.recent = u.recent /\ v.max = u.max
    BY <1>1, SetTab
  <1> HIDE DEF v
  <1> QED BY <1>1, <1>2, <1>3 DEF v

(* What the lists of the groups say depends on tginfo only. *)
LEMMA SameLists ==
    ASSUME NEW u, Lists(u), NEW v, DOMAIN v.tab = DOMAIN u.tab, DOMAIN v.grp = DOMAIN u.grp,
           \A g \in DOMAIN u.grp : v.grp[g].threads = u.grp[g].threads,
           \A x \in DOMAIN u.tab : v.tab[x].tginfo = u.tab[x].tginfo
    PROVE  Lists(v)
  <1> SUFFICES ASSUME NEW g \in DOMAIN u.grp PROVE ListOf(v, g)
    BY DEF Lists
  <1> DEFINE s == u.grp[g].threads
  <1>1. /\ \A i \in 1 .. Len(s) : s[i] \in DOMAIN u.tab /\ u.tab[s[i]].tginfo = g
        /\ \A i, k \in 1 .. Len(s) : s[i] = s[k] => i = k
        /\ v.grp[g].threads = s
    BY DEF Lists, ListOf
  <1> HIDE DEF s
  <1>2. \A i \in 1 .. Len(s) : s[i] \in DOMAIN v.tab /\ v.tab[s[i]].tginfo = g
    BY <1>1
  <1> QED BY <1>1, <1>2 DEF ListOf

(* What the groups say of the threads depends on tginfo and dead only. *)
LEMMA SameGroups ==
    ASSUME NEW u, Base(u), NEW v, v \in Manager, DOMAIN v.tab = DOMAIN u.tab,
           v.groups = u.groups, v.leaked = u.leaked, DOMAIN v.grp = DOMAIN u.grp,
           \A g \in DOMAIN u.grp : /\ v.grp[g].alive = u.grp[g].alive
                                   /\ v.grp[g].threads = u.grp[g].threads,
           \A x \in DOMAIN u.tab : /\ v.tab[x].tginfo = u.tab[x].tginfo
                                   /\ v.tab[x].dead = u.tab[x].dead
    PROVE  Refs(v) /\ Lists(v) /\ Counts(v) /\ Pend(v) = Pend(u)
  <1>1. Refs(v)
    BY DEF Base, Refs
  <1>2. Lists(v)
    BY SameLists DEF Base
  <1>3. \A g : LiveOf(v, g) = LiveOf(u, g)
    BY DEF LiveOf
  <1>4. Counts(v)
    BY <1>3 DEF Base, Counts
  <1>5. Pend(v) = Pend(u)
    BY DEF Pend
  <1> QED BY <1>1, <1>2, <1>4, <1>5

(* A new entry. *)
Fresh(e) ==
    /\ e \in Info /\ e.children = {} /\ e.tginfo = 0 /\ ~e.dead
    /\ e.reaper_tid = -1

(* It joins the table at a free place. *)
LEMMA PutKeeps ==
    ASSUME NEW u, Base(u), NEW t \in Tids, t \notin DOMAIN u.tab, NEW e, Fresh(e)
    PROVE  LET v == [u EXCEPT !.tab = Put(@, t, e)]
           IN  /\ Base(v) /\ Orphan(v, t) /\ Pend(v) \subseteq Pend(u)
               /\ DOMAIN v.tab = DOMAIN u.tab \cup {t} /\ v.tab[t] = e
               /\ \A x \in DOMAIN u.tab : v.tab[x] = u.tab[x]
               /\ v.to_remove = u.to_remove
  <1>0. u \in Manager /\ Links(u) /\ Reapers(u) /\ Refs(u) /\ Lists(u) /\ Counts(u)
    BY DEF Base
  <1> DEFINE T == Put(u.tab, t, e)
             v == [u EXCEPT !.tab = T]
  <1>1. /\ DOMAIN T = DOMAIN u.tab \cup {t} /\ T[t] = e /\ T \in [DOMAIN T -> Info]
        /\ \A x \in DOMAIN u.tab : T[x] = u.tab[x]
        /\ DOMAIN T \subseteq Tids
    BY <1>0, Types DEF Put, Fresh
  <1> HIDE DEF T
  <1>2. /\ v \in Manager /\ v.tab = T
        /\ v.grp = u.grp /\ v.groups = u.groups /\ v.leaked = u.leaked
        /\ v.to_remove = u.to_remove
    BY <1>0, <1>1, SetTab, SMTT(60), Z3T(60)
  <1> HIDE DEF v
  <1>3. /\ DOMAIN v.tab = DOMAIN u.tab \cup {t} /\ v.tab[t] = e
        /\ \A x \in DOMAIN u.tab : v.tab[x] = u.tab[x]
    BY <1>1, <1>2
  <1>4. Links(v)
    BY <1>0, <1>3, SMTT(60), Z3T(60) DEF Links, Fresh
  <1>5. Reapers(v)
    BY <1>0, <1>3, ThreadAssumption, SMTT(60), Z3T(60) DEF Reapers, Fresh
  <1>6. Refs(v)
    BY <1>0, <1>2, <1>3 DEF Refs, Fresh
  <1>7. Lists(v)
    <2> SUFFICES ASSUME NEW g \in DOMAIN u.grp PROVE ListOf(v, g)
      BY <1>2 DEF Lists
    <2>1. ListOf(u, g)
      BY <1>0 DEF Lists
    <2>2. v.grp[g].threads = u.grp[g].threads
      BY <1>2
    <2> QED BY <1>3, <2>1, <2>2 DEF ListOf
  <1>8. Counts(v)
    <2>1. \A g \in DOMAIN u.grp : LiveOf(v, g) = LiveOf(u, g)
      BY <1>0, <1>3, Types, SMTT(60), Z3T(60) DEF LiveOf, Fresh
    <2> QED BY <1>0, <1>2, <2>1 DEF Counts
  <1>9. Orphan(v, t)
    BY <1>0, <1>3 DEF Orphan, Links, Fresh
  <1>10. Pend(v) \subseteq Pend(u)
    BY <1>3 DEF Pend, Fresh
  <1> QED BY <1>2, <1>3, <1>4, <1>5, <1>6, <1>7, <1>8, <1>9, <1>10 DEF Base, v, T

-----------------------------------------------------------------------------
(* Groups and parents of a new thread *)

(* There is a number for a new group. *)
LEMMA FreeGroupIs ==
    ASSUME NEW u, IsFiniteSet(DOMAIN u.grp)
    PROVE  FreeGroup(u) \in Nat \ {0} /\ FreeGroup(u) \notin DOMAIN u.grp
  <1> DEFINE n == Cardinality(DOMAIN u.grp)
  <1>1. n \in Nat
    BY FS_CardinalityType
  <1>2. \E g \in 1 .. n + 1 : g \notin DOMAIN u.grp
    <2> SUFFICES ASSUME 1 .. n + 1 \subseteq DOMAIN u.grp PROVE FALSE
      OBVIOUS
    <2>1. Cardinality(1 .. n + 1) <= n
      BY FS_Subset
    <2>2. Cardinality(1 .. n + 1) = n + 1
      <3> HIDE DEF n
      <3> DEFINE m == n + 1
      <3>1. m \in Nat \ {0} /\ m \in Int
        BY <1>1, SMTT(60), Z3T(60)
      <3> HIDE DEF m
      <3>2. Cardinality(1 .. m) = m
        BY <3>1, FS_Interval, SMTT(60), Z3T(60)
      <3> QED BY <3>2 DEF m
    <2> HIDE DEF n
    <2> QED BY <1>1, <2>1, <2>2, SMTT(60), Z3T(60)
  <1>3. FreeGroup(u) \in 1 .. n + 1 /\ FreeGroup(u) \notin DOMAIN u.grp
    BY <1>2 DEF FreeGroup
  <1> HIDE DEF n
  <1> QED BY <1>1, <1>3, SMTT(60), Z3T(60)

(* What joining a group changes. *)
LEMMA JoinGroupIs ==
    ASSUME NEW u \in Manager, NEW t \in DOMAIN u.tab
    PROVE  JoinGroup(u, t) =
             LET g == GroupFor(u, u.tab[t].pid)
             IN  Mgr([u.tab EXCEPT ![t] = [u.tab[t] EXCEPT !.tginfo = g]],
                     Put(u.grp, g, AddToGroup(u, u.tab[t].pid, t)),
                     Put(u.groups, u.tab[t].pid, g),
                     u.to_remove, u.recent, u.leaked, u.max)
  <1> DEFINE pid == u.tab[t].pid
             g == GroupFor(u, pid)
             G == Put(u.grp, g, AddToGroup(u, pid, t))
             P == Put(u.groups, pid, g)
             v == [u EXCEPT !.grp = G]
             w == [v EXCEPT !.groups = P]
  <1>1. JoinGroup(u, t) = [w EXCEPT !.tab[t].tginfo = g]
    BY DEF JoinGroup
  <1> HIDE DEF G, P
  <1>2. v = Mgr(u.tab, G, u.groups, u.to_remove, u.recent, u.leaked, u.max)
    BY MgrIs, SMTT(60), Z3T(60) DEF Mgr
  <1> HIDE DEF v
  <1>3. w = Mgr(u.tab, G, P, u.to_remove, u.recent, u.leaked, u.max)
    BY <1>2, SMTT(60), Z3T(60) DEF Mgr
  <1> HIDE DEF w, g
  <1>4. w.tab = u.tab
    BY <1>3 DEF Mgr
  <1> DEFINE T == [u.tab EXCEPT ![t] = [u.tab[t] EXCEPT !.tginfo = g]]
  <1>5. [w EXCEPT !.tab[t].tginfo = g] = [w EXCEPT !.tab = T]
    BY <1>4
  <1> HIDE DEF T
  <1>6. [w EXCEPT !.tab = T] = Mgr(T, G, P, u.to_remove, u.recent, u.leaked, u.max)
    BY <1>3, SMTT(60), Z3T(60) DEF Mgr
  <1> QED BY <1>1, <1>5, <1>6 DEF T, G, P, g

(* What the thread t does to its group. *)
LEMMA AddToGroupDoes ==
    ASSUME NEW u, Base(u), NEW t \in DOMAIN u.tab, u.tab[t].tginfo = 0
    PROVE  LET pid == u.tab[t].pid
               g == GroupFor(u, pid)
               G == AddToGroup(u, pid, t)
               n == IF g \in DOMAIN u.grp THEN u.grp[g].alive ELSE 0
           IN  /\ g \in Nat \ {0} /\ G \in Group
               /\ G.alive = n + 1
               /\ pid \notin DOMAIN u.groups => g \notin DOMAIN u.grp
               /\ \A i \in 1 .. Len(G.threads) :
                     \/ G.threads[i] = t
                     \/ G.threads[i] \in DOMAIN u.tab /\ u.tab[G.threads[i]].tginfo = g
               /\ \A i, k \in 1 .. Len(G.threads) : G.threads[i] = G.threads[k] => i = k
  <1> DEFINE pid == u.tab[t].pid
             g == GroupFor(u, pid)
             G == AddToGroup(u, pid, t)
  <1>0. u \in Manager /\ Refs(u) /\ Lists(u) /\ t \in Tids
    BY Types DEF Base
  <1>1. CASE pid \notin DOMAIN u.groups
    <2>1. g = FreeGroup(u) /\ G = [alive |-> 1, reaper |-> pid = 1, threads |-> <<t>>]
      BY <1>1 DEF GroupFor, AddToGroup
    <2>2. g \in Nat \ {0} /\ g \notin DOMAIN u.grp
      BY <1>0, <2>1, FreeGroupIs DEF Refs
    <2> HIDE DEF g, G, pid
    <2>3. <<t>> \in Seq(Tids) /\ Len(<<t>>) = 1 /\ <<t>>[1] = t
      BY <1>0, SMTT(60), Z3T(60)
    <2>4. G \in Group /\ G.alive = 1 /\ G.threads = <<t>>
      BY <2>1, <2>3 DEF Group
    <2> QED BY <2>2, <2>3, <2>4, SMTT(60), Z3T(60) DEF g, G, pid
  <1>2. CASE pid \in DOMAIN u.groups
    <2> DEFINE o == u.grp[g]
               s == IF t = pid THEN <<t>> \o o.threads ELSE Append(o.threads, t)
               p == [o EXCEPT !.alive = @ + 1]
    <2>1. g = u.groups[pid] /\ G = [p EXCEPT !.threads = s]
      <3>1. p.threads = o.threads
        BY SMTT(60), Z3T(60)
      <3> QED BY <1>2, <3>1 DEF GroupFor, AddToGroup
    <2>2. g \in DOMAIN u.grp /\ g \in Nat \ {0} /\ o \in Group
      <3> HIDE DEF pid, g
      <3>1. g \in DOMAIN u.grp
        BY <1>0, <1>2, <2>1 DEF Refs
      <3> QED BY <1>0, <3>1, Types
    <2>3. o.threads \in Seq(Tids) /\ o.alive \in Nat
      BY <2>2 DEF Group
    <2>4. /\ \A i \in 1 .. Len(o.threads) :
                o.threads[i] \in DOMAIN u.tab /\ u.tab[o.threads[i]].tginfo = g
          /\ \A i, k \in 1 .. Len(o.threads) : o.threads[i] = o.threads[k] => i = k
      BY <1>0, <2>2 DEF Lists, ListOf
    <2>5. \A i \in 1 .. Len(o.threads) : o.threads[i] # t
      BY <2>2, <2>4
    <2> DEFINE q == o.threads
    <2>6. /\ s \in Seq(Tids)
          /\ \A i \in 1 .. Len(s) : s[i] = t \/ \E k \in 1 .. Len(q) : s[i] = q[k]
          /\ \A i, k \in 1 .. Len(s) : s[i] = s[k] => i = k
      <3>1. q \in Seq(Tids) /\ Len(q) \in Nat
        BY <2>3, SMTT(60), Z3T(60)
      <3> HIDE DEF q
      <3>2. CASE t = pid
        <4>1. s = <<t>> \o q
          BY <3>2 DEF q
        <4>2. /\ s \in Seq(Tids) /\ Len(s) = Len(q) + 1
              /\ \A i \in 1 .. Len(s) : s[i] = IF i = 1 THEN t ELSE q[i - 1]
          <5>1. <<t>> \in Seq(Tids) /\ Len(<<t>>) = 1 /\ <<t>>[1] = t
            BY <1>0, SMTT(60), Z3T(60)
          <5> HIDE DEF s
          <5> QED BY <3>1, <4>1, <5>1, SMTT(60), Z3T(60)
        <4> HIDE DEF s
        <4>3. \A i \in 1 .. Len(q) : q[i] # t
          BY <2>5 DEF q
        <4>4. \A i, k \in 1 .. Len(q) : q[i] = q[k] => i = k
          BY <2>4 DEF q
        <4>5. \A i \in 1 .. Len(s) : i # 1 => i - 1 \in 1 .. Len(q) /\ s[i] = q[i - 1]
          BY <3>1, <4>2, SMTT(60), Z3T(60)
        <4>6. \A i \in 1 .. Len(s) : s[i] = t \/ \E k \in 1 .. Len(q) : s[i] = q[k]
          BY <4>2, <4>5
        <4>7. ASSUME NEW i \in 1 .. Len(s), NEW k \in 1 .. Len(s), s[i] = s[k] PROVE i = k
          <5>1. CASE i # 1 /\ k # 1
            BY <4>4, <4>5, <4>7, <5>1, SMTT(60), Z3T(60)
          <5>2. CASE i = 1 \/ k = 1
            BY <4>2, <4>3, <4>5, <4>7, <5>2, SMTT(60), Z3T(60)
          <5> QED BY <5>1, <5>2
        <4> QED BY <4>2, <4>6, <4>7
      <3>3. CASE t # pid
        <4>1. s = Append(q, t)
          BY <3>3 DEF q
        <4>2. /\ s \in Seq(Tids) /\ Len(s) = Len(q) + 1
              /\ \A i \in 1 .. Len(s) : s[i] = IF i = Len(q) + 1 THEN t ELSE q[i]
          <5> HIDE DEF s
          <5> QED BY <1>0, <3>1, <4>1, SMTT(60), Z3T(60)
        <4> HIDE DEF s
        <4>3. \A i \in 1 .. Len(q) : q[i] # t
          BY <2>5 DEF q
        <4>4. \A i, k \in 1 .. Len(q) : q[i] = q[k] => i = k
          BY <2>4 DEF q
        <4> QED BY <3>1, <4>2, <4>3, <4>4, SMTT(60), Z3T(60)
      <3> QED BY <3>2, <3>3
    <2> HIDE DEF s
    <2>7. p \in Group /\ p.alive = o.alive + 1
      <3> HIDE DEF o
      <3> QED BY <2>2, <2>3, SMTT(60), Z3T(60) DEF Group
    <2> HIDE DEF p
    <2>8. G \in Group /\ G.alive = o.alive + 1 /\ G.threads = s
      <3> HIDE DEF G
      <3> QED BY <2>1, <2>6, <2>7 DEF Group
    <2>9. \A i \in 1 .. Len(s) :
             s[i] = t \/ (s[i] \in DOMAIN u.tab /\ u.tab[s[i]].tginfo = g)
      <3> HIDE DEF o, g
      <3> QED BY <2>4, <2>6, SMTT(60), Z3T(60)
    <2> HIDE DEF g, G, pid, q
    <2> QED BY <1>2, <2>2, <2>6, <2>8, <2>9 DEF g, G, pid, o
  <1> QED BY <1>1, <1>2

(* What most operations leave of the entries: everything but the parent,   *)
(* the children and the group.                                             *)
SameEntries(u, v) ==
    \A x \in DOMAIN u.tab :
        /\ x \in DOMAIN v.tab
        /\ v.tab[x].pid = u.tab[x].pid /\ v.tab[x].dead = u.tab[x].dead
        /\ v.tab[x].reaper_tid = u.tab[x].reaper_tid

(* A thread without a group joins one and is counted there. *)
LEMMA JoinGroupKeeps ==
    ASSUME NEW u, Base(u), NEW t \in DOMAIN u.tab, u.tab[t].tginfo = 0, ~u.tab[t].dead
    PROVE  LET v == JoinGroup(u, t)
           IN  /\ Base(v) /\ Pend(v) \subseteq Pend(u) /\ DOMAIN v.tab = DOMAIN u.tab
               /\ SameEntries(u, v) /\ v.to_remove = u.to_remove
               /\ \A x \in DOMAIN u.tab : /\ v.tab[x].ptid = u.tab[x].ptid
                                          /\ v.tab[x].children = u.tab[x].children
                                          /\ x # t => v.tab[x].tginfo = u.tab[x].tginfo
  <1> DEFINE pid == u.tab[t].pid
             g == GroupFor(u, pid)
             G == AddToGroup(u, pid, t)
             T == [u.tab EXCEPT ![t] = [u.tab[t] EXCEPT !.tginfo = g]]
             grp == Put(u.grp, g, G)
             groups == Put(u.groups, pid, g)
             v == JoinGroup(u, t)
             n == IF g \in DOMAIN u.grp THEN u.grp[g].alive ELSE 0
  <1>0. u \in Manager /\ Links(u) /\ Reapers(u) /\ Refs(u) /\ Lists(u) /\ Counts(u)
    BY DEF Base
  <1>1. v = Mgr(T, grp, groups, u.to_remove, u.recent, u.leaked, u.max)
    BY <1>0, JoinGroupIs
  <1>2. /\ g \in Nat \ {0} /\ G \in Group /\ G.alive = n + 1
        /\ pid \notin DOMAIN u.groups => g \notin DOMAIN u.grp
        /\ \A i \in 1 .. Len(G.threads) :
              \/ G.threads[i] = t
              \/ G.threads[i] \in DOMAIN u.tab /\ u.tab[G.threads[i]].tginfo = g
        /\ \A i, k \in 1 .. Len(G.threads) : G.threads[i] = G.threads[k] => i = k
    BY AddToGroupDoes
  <1> HIDE DEF v, G, g
  <1>3. pid \in Int
    BY <1>0, Types DEF Info
  <1> HIDE DEF pid
  <1>4. /\ DOMAIN T = DOMAIN u.tab /\ T \in [DOMAIN T -> Info] /\ DOMAIN T \subseteq Tids
        /\ T[t].tginfo = g
        /\ \A x \in DOMAIN u.tab :
              /\ T[x].pid = u.tab[x].pid /\ T[x].dead = u.tab[x].dead
              /\ T[x].reaper_tid = u.tab[x].reaper_tid
              /\ T[x].ptid = u.tab[x].ptid /\ T[x].children = u.tab[x].children
              /\ x # t => T[x].tginfo = u.tab[x].tginfo
    <2> DEFINE e == [u.tab[t] EXCEPT !.tginfo = g]
    <2>1. /\ u.tab[t] \in Info /\ u.tab \in [DOMAIN u.tab -> Info]
          /\ DOMAIN u.tab \subseteq Tids
      BY <1>0, Types
    <2>2. /\ e \in Info /\ e.tginfo = g /\ e.pid = u.tab[t].pid /\ e.dead = u.tab[t].dead
          /\ e.reaper_tid = u.tab[t].reaper_tid /\ e.ptid = u.tab[t].ptid
          /\ e.children = u.tab[t].children
      BY <1>2, <2>1 DEF Info
    <2> HIDE DEF e
    <2>3. DOMAIN T = DOMAIN u.tab /\ T[t] = e /\ \A x \in DOMAIN u.tab : x # t => T[x] = u.tab[x]
      BY DEF e
    <2>4. T \in [DOMAIN T -> Info]
      BY <2>1, <2>2, <2>3
    <2> HIDE DEF T
    <2> QED BY <2>1, <2>2, <2>3, <2>4
  <1>5. /\ DOMAIN grp = DOMAIN u.grp \cup {g} /\ grp[g] = G
        /\ \A h \in DOMAIN u.grp : h # g => grp[h] = u.grp[h]
        /\ grp \in [DOMAIN grp -> Group] /\ DOMAIN grp \subseteq Nat \ {0}
    BY <1>0, <1>2, Types, SMTT(60), Z3T(60) DEF Put
  <1>6. /\ DOMAIN groups = DOMAIN u.groups \cup {pid} /\ groups[pid] = g
        /\ \A p \in DOMAIN u.groups : p # pid => groups[p] = u.groups[p]
        /\ groups \in [DOMAIN groups -> Nat] /\ DOMAIN groups \subseteq Int
    BY <1>0, <1>2, <1>3, Types, SMTT(60), Z3T(60) DEF Put
  <1> HIDE DEF T, grp, groups
  <1>7. /\ v \in Manager /\ v.tab = T /\ v.grp = grp /\ v.groups = groups
        /\ v.to_remove = u.to_remove /\ v.leaked = u.leaked
    <2>1. v \in Manager
      BY <1>0, <1>1, <1>4, <1>5, <1>6, Types, MgrType
    <2> QED BY <1>1, <2>1 DEF Mgr
  <1>8. Links(v)
    BY <1>0, <1>4, <1>7, SMTT(60), Z3T(60) DEF Links
  <1>9. Reapers(v)
    BY <1>0, <1>4, <1>7, SMTT(60), Z3T(60) DEF Reapers
  <1>10. Refs(v)
    <2>1. IsFiniteSet(DOMAIN v.grp)
      BY <1>0, <1>5, <1>7, FS_AddElement, SMTT(60), Z3T(60) DEF Refs
    <2>2. \A x \in DOMAIN v.tab : v.tab[x].tginfo \in DOMAIN v.grp \cup {0}
      BY <1>0, <1>4, <1>5, <1>7 DEF Refs
    <2>3. \A p \in DOMAIN v.groups : v.groups[p] \in DOMAIN v.grp
      BY <1>0, <1>5, <1>6, <1>7 DEF Refs
    <2> QED BY <2>1, <2>2, <2>3 DEF Refs
  <1>11. Lists(v)
    <2> SUFFICES ASSUME NEW h \in DOMAIN v.grp PROVE ListOf(v, h)
      BY DEF Lists
    <2>1. CASE h = g
      <3>1. v.grp[h].threads = G.threads
        BY <1>5, <1>7, <2>1
      <3>2. \A i \in 1 .. Len(G.threads) :
               G.threads[i] \in DOMAIN v.tab /\ v.tab[G.threads[i]].tginfo = h
        BY <1>2, <1>4, <1>7, <2>1, SMTT(60), Z3T(60)
      <3> QED BY <1>2, <3>1, <3>2 DEF ListOf
    <2>2. CASE h # g
      <3> DEFINE s == u.grp[h].threads
      <3>1. h \in DOMAIN u.grp /\ h # 0 /\ v.grp[h].threads = s
        BY <1>0, <1>5, <1>7, <2>2, Types
      <3>2. /\ \A i \in 1 .. Len(s) : s[i] \in DOMAIN u.tab /\ u.tab[s[i]].tginfo = h
            /\ \A i, k \in 1 .. Len(s) : s[i] = s[k] => i = k
        BY <1>0, <3>1 DEF Lists, ListOf
      <3> HIDE DEF s
      <3>3. \A i \in 1 .. Len(s) : s[i] \in DOMAIN v.tab /\ v.tab[s[i]].tginfo = h
        BY <1>4, <1>7, <3>1, <3>2, SMTT(60), Z3T(60)
      <3> QED BY <3>1, <3>2, <3>3 DEF ListOf
    <2> QED BY <2>1, <2>2
  <1>12. Counts(v)
    <2> SUFFICES ASSUME NEW h \in DOMAIN v.grp
                 PROVE  /\ v.grp[h].alive >= Cardinality(LiveOf(v, h))
                        /\ v.leaked \/ v.grp[h].alive = Cardinality(LiveOf(v, h))
      BY DEF Counts
    <2>0. IsFiniteSet(LiveOf(u, h)) /\ Cardinality(LiveOf(u, h)) \in Nat
      BY <1>0, LiveFinite
    <2>1. CASE h = g
      <3>1. LiveOf(v, h) = LiveOf(u, h) \cup {t}
        BY <1>4, <1>7, <2>1 DEF LiveOf
      <3>2. t \notin LiveOf(u, h)
        BY <1>2, <2>1 DEF LiveOf
      <3>3. Cardinality(LiveOf(v, h)) = Cardinality(LiveOf(u, h)) + 1
        BY <2>0, <3>1, <3>2, FS_AddElement
      <3>4. v.grp[h].alive = n + 1
        BY <1>2, <1>5, <1>7, <2>1
      <3>5. n \in Nat /\ n >= Cardinality(LiveOf(u, h))
            /\ (u.leaked \/ n = Cardinality(LiveOf(u, h)))
        <4>1. CASE h \in DOMAIN u.grp
          BY <1>0, <2>1, <4>1, Types DEF Counts, Group
        <4>2. CASE h \notin DOMAIN u.grp
          <5>1. LiveOf(u, h) = {}
            BY <1>0, <1>2, <2>1, <4>2, SMTT(60), Z3T(60) DEF LiveOf, Refs
          <5>2. n = 0
            BY <2>1, <4>2
          <5>3. Cardinality({}) = 0
            BY FS_EmptySet
          <5> QED BY <5>1, <5>2, <5>3, SMTT(60), Z3T(60)
        <4> QED BY <4>1, <4>2
      <3> HIDE DEF n
      <3> QED BY <1>7, <2>0, <3>3, <3>4, <3>5, SMTT(60), Z3T(60)
    <2>2. CASE h # g
      <3>1. h \in DOMAIN u.grp /\ v.grp[h] = u.grp[h] /\ h # 0
        BY <1>0, <1>5, <1>7, <2>2, Types
      <3>2. LiveOf(v, h) = LiveOf(u, h)
        BY <1>4, <1>7, <2>2, <3>1, SMTT(60), Z3T(60) DEF LiveOf
      <3> QED BY <1>0, <1>7, <3>1, <3>2 DEF Counts
    <2> QED BY <2>1, <2>2
  <1>13. Pend(v) \subseteq Pend(u)
    BY <1>2, <1>4, <1>7 DEF Pend
  <1>14. SameEntries(u, v)
    BY <1>4, <1>7 DEF SameEntries
  <1>15. Base(v)
    BY <1>7, <1>8, <1>9, <1>10, <1>11, <1>12 DEF Base
  <1> QED BY <1>4, <1>7, <1>13, <1>14, <1>15 DEF v

(* An operation that keeps the invariant. *)
Keeps(u, v) == Base(v) /\ Pend(v) \subseteq Pend(u) /\ v.to_remove = u.to_remove

(* Threads in the table stay there, in their groups. *)
Stays(u, v) ==
    \A x \in DOMAIN u.tab :
        /\ x \in DOMAIN v.tab
        /\ v.tab[x].pid = u.tab[x].pid /\ v.tab[x].dead = u.tab[x].dead
        /\ v.tab[x].reaper_tid = u.tab[x].reaper_tid
        /\ u.tab[x].tginfo # 0 => v.tab[x].tginfo = u.tab[x].tginfo

(* A thread that is in no list becomes a child of p. *)
LEMMA AddChildKeeps ==
    ASSUME NEW u, Base(u), NEW t \in DOMAIN u.tab, NEW p \in DOMAIN u.tab, p # t,
           Orphan(u, t), u.tab[t].pid >= 0
    PROVE  LET v == AddChild(u, p, t)
           IN  Keeps(u, v) /\ Stays(u, v) /\ DOMAIN v.tab = DOMAIN u.tab
  <1> DEFINE e == [u.tab[p] EXCEPT !.children = @ \cup {t}]
             f == [u.tab[t] EXCEPT !.ptid = p]
             w == [u EXCEPT !.tab[p] = e]
             v == [w EXCEPT !.tab[t] = f]
  <1>0. u \in Manager /\ Links(u) /\ Reapers(u) /\ t \in Tids /\ p \in Tids /\ p \in Int
    <2>1. u \in Manager /\ Links(u) /\ Reapers(u)
      BY DEF Base
    <2>2. DOMAIN u.tab \subseteq Tids
      BY <2>1, Types
    <2>3. Tids \subseteq Int
      BY ThreadAssumption, SMTT(60), Z3T(60)
    <2>4. t \in Tids /\ p \in Tids
      BY <2>2
    <2>5. p \in Int
      BY <2>3, <2>4
    <2> QED BY <2>1, <2>4, <2>5
  <1>1. /\ e \in Info /\ e.pid = u.tab[p].pid /\ e.ptid = u.tab[p].ptid
        /\ e.dead = u.tab[p].dead /\ e.reaper_tid = u.tab[p].reaper_tid
        /\ e.tginfo = u.tab[p].tginfo /\ e.children = u.tab[p].children \cup {t}
    <2>1. u.tab[p] \in Info
      BY <1>0, Types
    <2> QED BY <1>0, <2>1 DEF Info
  <1>2. /\ f \in Info /\ f.pid = u.tab[t].pid /\ f.ptid = p
        /\ f.dead = u.tab[t].dead /\ f.reaper_tid = u.tab[t].reaper_tid
        /\ f.tginfo = u.tab[t].tginfo /\ f.children = u.tab[t].children
    <2>1. u.tab[t] \in Info
      BY <1>0, Types
    <2> QED BY <1>0, <2>1 DEF Info
  <1>3. /\ w \in Manager /\ DOMAIN w.tab = DOMAIN u.tab /\ w.tab[p] = e
        /\ \A x \in DOMAIN u.tab \ {p} : w.tab[x] = u.tab[x]
        /\ w.grp = u.grp /\ w.groups = u.groups /\ w.leaked = u.leaked
        /\ w.to_remove = u.to_remove
    <2> HIDE DEF e
    <2> QED BY <1>0, <1>1, SetEntry, SMTT(60), Z3T(60)
  <1>4. AddChild(u, p, t) = v
    <2>1. w.tab[t] = u.tab[t]
      BY <1>3
    <2>2. AddChild(u, p, t) = [w EXCEPT !.tab[t].ptid = p]
      BY DEF AddChild
    <2> HIDE DEF w
    <2> QED BY <2>1, <2>2
  <1> HIDE DEF e, f, w
  <1>5. /\ v \in Manager /\ DOMAIN v.tab = DOMAIN w.tab /\ v.tab[t] = f
        /\ \A x \in DOMAIN w.tab \ {t} : v.tab[x] = w.tab[x]
        /\ v.grp = w.grp /\ v.groups = w.groups /\ v.leaked = w.leaked
        /\ v.to_remove = w.to_remove
    BY <1>2, <1>3, SetEntry, SMTT(60), Z3T(60)
  <1> HIDE DEF v
  <1>6. /\ DOMAIN v.tab = DOMAIN u.tab /\ v.tab[p] = e /\ v.tab[t] = f
        /\ \A x \in DOMAIN u.tab \ {p, t} : v.tab[x] = u.tab[x]
        /\ v.grp = u.grp /\ v.groups = u.groups /\ v.leaked = u.leaked
        /\ v.to_remove = u.to_remove
    BY <1>3, <1>5
  <1>7. \A x \in DOMAIN u.tab :
           /\ v.tab[x].pid = u.tab[x].pid /\ v.tab[x].dead = u.tab[x].dead
           /\ v.tab[x].reaper_tid = u.tab[x].reaper_tid /\ v.tab[x].tginfo = u.tab[x].tginfo
           /\ v.tab[x].ptid = IF x = t THEN p ELSE u.tab[x].ptid
           /\ v.tab[x].children = IF x = p THEN u.tab[p].children \cup {t} ELSE u.tab[x].children
    BY <1>1, <1>2, <1>6, SMTT(60), Z3T(60)
  <1>8. Refs(v) /\ Lists(v) /\ Counts(v) /\ Pend(v) = Pend(u)
    BY <1>5, <1>6, <1>7, SameGroups
  <1>9. Links(v)
    BY <1>0, <1>6, <1>7, SMTT(60), Z3T(60) DEF Links, Orphan
  <1>10. Reapers(v)
    BY <1>0, <1>6, <1>7 DEF Reapers
  <1>11. Base(v)
    BY <1>5, <1>8, <1>9, <1>10 DEF Base
  <1>12. Keeps(u, v)
    BY <1>6, <1>8, <1>11 DEF Keeps
  <1>13. Stays(u, v)
    BY <1>6, <1>7 DEF Stays
  <1> QED BY <1>4, <1>6, <1>12, <1>13

(* A change of an entry that leaves the group and the children. *)
LEMMA EntryKeeps ==
    ASSUME NEW u, Base(u), NEW t \in DOMAIN u.tab, NEW e \in Info,
           e.tginfo = u.tab[t].tginfo, e.dead = u.tab[t].dead,
           e.children = u.tab[t].children, e.reaper_tid # t,
           Orphan(u, t) \/ (e.ptid = u.tab[t].ptid /\ (u.tab[t].pid >= 0 => e.pid >= 0))
    PROVE  LET v == [u EXCEPT !.tab[t] = e]
           IN  /\ Keeps(u, v) /\ DOMAIN v.tab = DOMAIN u.tab /\ v.tab[t] = e
               /\ \A x \in DOMAIN u.tab \ {t} : v.tab[x] = u.tab[x]
  <1> DEFINE v == [u EXCEPT !.tab[t] = e]
  <1>0. u \in Manager /\ Links(u) /\ Reapers(u)
    BY DEF Base
  <1>1. /\ v \in Manager /\ DOMAIN v.tab = DOMAIN u.tab /\ v.tab[t] = e
        /\ \A x \in DOMAIN u.tab \ {t} : v.tab[x] = u.tab[x]
        /\ v.grp = u.grp /\ v.groups = u.groups /\ v.leaked = u.leaked
        /\ v.to_remove = u.to_remove
    BY <1>0, SetEntry, SMTT(60), Z3T(60)
  <1> HIDE DEF v
  <1>2. Refs(v) /\ Lists(v) /\ Counts(v) /\ Pend(v) = Pend(u)
    BY <1>1, SameGroups, SMTT(60), Z3T(60)
  <1>3. Links(v)
    BY <1>0, <1>1, SMTT(60), Z3T(60) DEF Links, Orphan
  <1>4. Reapers(v)
    BY <1>0, <1>1, SMTT(60), Z3T(60) DEF Reapers
  <1>5. Keeps(u, v)
    BY <1>1, <1>2, <1>3, <1>4 DEF Base, Keeps
  <1> QED BY <1>1, <1>5 DEF v

(* create_thread_dependencies, for a thread that is in no list of children. *)
LEMMA DependenciesKeep ==
    ASSUME NEW u, Base(u), NEW t \in DOMAIN u.tab, Orphan(u, t),
           u.tab[t].tginfo = 0 => ~u.tab[t].dead,
           NEW parents, parents \ {t} \subseteq DOMAIN u.tab
    PROVE  LET v == create_thread_dependencies(u, t, parents)
           IN  Keeps(u, v) /\ Stays(u, v) /\ DOMAIN v.tab = DOMAIN u.tab
  <1> DEFINE v == create_thread_dependencies(u, t, parents)
             w == JoinGroup(u, t)
             p == u.tab[t].ptid
  <1> SUFFICES Keeps(u, v) /\ Stays(u, v) /\ DOMAIN v.tab = DOMAIN u.tab
    OBVIOUS
  <1>1. CASE is_invalid(u.tab[t]) \/ u.tab[t].tginfo # 0
    <2>1. v = u
      BY <1>1 DEF create_thread_dependencies
    <2> HIDE DEF v
    <2> QED BY <2>1 DEF Keeps, Stays
  <1>2. CASE ~(is_invalid(u.tab[t]) \/ u.tab[t].tginfo # 0)
    <2>0. u.tab[t].tginfo = 0 /\ ~u.tab[t].dead
      BY <1>2
    <2>1. u.tab[t].pid >= 0
      <3>1. u.tab[t] \in Info
        BY Types DEF Base
      <3>2. u.tab[t].pid \in Int
        BY <3>1 DEF Info
      <3> QED BY <1>2, <3>2, SMTT(60), Z3T(60) DEF is_invalid
    <2>2. /\ Base(w) /\ Pend(w) \subseteq Pend(u) /\ DOMAIN w.tab = DOMAIN u.tab
          /\ SameEntries(u, w) /\ w.to_remove = u.to_remove
          /\ \A x \in DOMAIN u.tab : /\ w.tab[x].ptid = u.tab[x].ptid
                                     /\ w.tab[x].children = u.tab[x].children
                                     /\ x # t => w.tab[x].tginfo = u.tab[x].tginfo
      BY <2>0, JoinGroupKeeps
    <2>3. v = IF u.tab[t].pid = 1 THEN w
              ELSE IF p \notin parents THEN [w EXCEPT !.tab[t].ptid = 0]
              ELSE IF p = t THEN w ELSE AddChild(w, p, t)
      BY <1>2 DEF create_thread_dependencies
    <2> HIDE DEF v, w, p
    <2>4. Keeps(u, w) /\ Stays(u, w)
      BY <2>0, <2>2 DEF Keeps, Stays, SameEntries
    <2>5. Orphan(w, t) /\ w.tab[t].pid >= 0
      BY <2>1, <2>2 DEF Orphan, SameEntries
    <2>6. CASE v = w
      BY <2>2, <2>4, <2>6
    <2>7. CASE v = [w EXCEPT !.tab[t].ptid = 0]
      <3> DEFINE e == [w.tab[t] EXCEPT !.ptid = 0]
      <3>1. w.tab[t] \in Info /\ w.tab[t].reaper_tid # t
        BY <2>2, Types DEF Base, Reapers
      <3>2. /\ e \in Info /\ e.tginfo = w.tab[t].tginfo /\ e.dead = w.tab[t].dead
            /\ e.children = w.tab[t].children /\ e.reaper_tid = w.tab[t].reaper_tid
            /\ e.pid = w.tab[t].pid
        BY <3>1, SMTT(60), Z3T(60) DEF Info
      <3>3. v = [w EXCEPT !.tab[t] = e]
        BY <2>7
      <3> HIDE DEF e
      <3>4. t \in DOMAIN w.tab
        BY <2>2
      <3>5. /\ Keeps(w, v) /\ DOMAIN v.tab = DOMAIN w.tab /\ v.tab[t] = e
            /\ \A x \in DOMAIN w.tab \ {t} : v.tab[x] = w.tab[x]
        BY <2>2, <2>5, <3>1, <3>2, <3>3, <3>4, EntryKeeps, SMTT(60), Z3T(60)
      <3>6. Keeps(u, v)
        BY <2>4, <3>5 DEF Keeps
      <3>7. Stays(u, v)
        BY <2>2, <2>4, <3>2, <3>5, SMTT(60), Z3T(60) DEF Stays
      <3> QED BY <2>2, <3>5, <3>6, <3>7
    <2>8. CASE v = AddChild(w, p, t) /\ p # t /\ p \in parents
      <3>1. p \in DOMAIN w.tab /\ t \in DOMAIN w.tab
        BY <2>2, <2>8
      <3>2. Keeps(w, v) /\ Stays(w, v) /\ DOMAIN v.tab = DOMAIN w.tab
        BY <2>2, <2>5, <2>8, <3>1, AddChildKeeps
      <3>3. Keeps(u, v)
        BY <2>4, <3>2 DEF Keeps
      <3>4. Stays(u, v)
        BY <2>2, <2>4, <3>2, SMTT(60), Z3T(60) DEF Stays
      <3> QED BY <2>2, <3>2, <3>3, <3>4
    <2> QED BY <2>3, <2>6, <2>7, <2>8
  <1> QED BY <1>1, <1>2

(* add_thread, which may replace an entry. *)
LEMMA AddThreadKeeps ==
    ASSUME NEW u, Base(u), NEW t \in Tids, NEW e, Fresh(e)
    PROVE  /\ Keeps(u, add_thread(u, t, e))
           /\ t \notin DOMAIN u.tab => Stays(u, add_thread(u, t, e))
  <1> DEFINE z == Erase(u, t)
             y == [z EXCEPT !.tab = Put(@, t, e)]
             v == create_thread_dependencies(y, t, ValidTids(u))
  <1>1. CASE Full(u)
    <2>1. add_thread(u, t, e) = u
      BY <1>1 DEF add_thread
    <2>2. Keeps(u, u) /\ Stays(u, u)
      BY DEF Keeps, Stays
    <2> QED BY <2>1, <2>2
  <1>2. CASE ~Full(u)
    <2>1. add_thread(u, t, e) = v
      BY <1>2 DEF add_thread
    <2>2. /\ DOMAIN z.tab = DOMAIN u.tab \ {t} /\ z.to_remove = u.to_remove
          /\ \A x \in DOMAIN u.tab \ {t} :
                /\ z.tab[x].pid = u.tab[x].pid
                /\ z.tab[x].dead = u.tab[x].dead /\ z.tab[x].tginfo = u.tab[x].tginfo
                /\ z.tab[x].reaper_tid = u.tab[x].reaper_tid
      BY EraseDoes, SMTT(60), Z3T(60) DEF Base
    <2>3. Base(z) /\ Pend(z) \subseteq Pend(u) \ {t}
      BY EraseKeeps
    <2> HIDE DEF z
    <2>4. t \notin DOMAIN z.tab
      BY <2>2
    <2>5. /\ Base(y) /\ Orphan(y, t) /\ Pend(y) \subseteq Pend(z)
          /\ DOMAIN y.tab = DOMAIN z.tab \cup {t} /\ y.tab[t] = e
          /\ \A x \in DOMAIN z.tab : y.tab[x] = z.tab[x]
          /\ y.to_remove = z.to_remove
      BY <2>3, <2>4, PutKeeps
    <2> HIDE DEF y
    <2>6. ~y.tab[t].dead /\ t \in DOMAIN y.tab
      BY <2>5 DEF Fresh
    <2>7. ValidTids(u) \ {t} \subseteq DOMAIN y.tab
      BY <2>2, <2>5 DEF ValidTids
    <2>8. Keeps(y, v) /\ Stays(y, v)
      BY <2>5, <2>6, <2>7, DependenciesKeep
    <2> HIDE DEF v
    <2>9. Keeps(u, v)
      BY <2>2, <2>3, <2>5, <2>8 DEF Keeps
    <2>10. ASSUME t \notin DOMAIN u.tab PROVE Stays(u, v)
      <3>1. Stays(u, y)
        BY <2>2, <2>5, <2>10 DEF Stays
      <3> QED BY <2>8, <3>1, SMTT(60), Z3T(60) DEF Stays
    <2> QED BY <2>1, <2>9, <2>10
  <1> QED BY <1>1, <1>2

(* Entries from the kernel and from nothing. *)
LEMMA NewInfoFresh ==
    ASSUME NEW pid \in Int, NEW ptid \in Int, NEW inverted \in BOOLEAN,
           NEW clone_ts \in {"none", "fresh", "old"}
    PROVE  Fresh(NewInfo(pid, ptid, inverted, clone_ts))
  BY ThreadAssumption DEF Fresh, NewInfo, Info

(* What the kernel's table is. *)
KThread == [pid : Tids, ptid : Tids \cup {0}, zombie : BOOLEAN, new : BOOLEAN, fresh : BOOLEAN]

KType == kt \in [DOMAIN kt -> KThread] /\ DOMAIN kt \subseteq Tids

(* get_thread, with or without an answer from /proc. *)
LEMMA GetThreadKeeps ==
    ASSUME KType, NEW u, Base(u), NEW t \in Tids, NEW v \in get_thread(u, t)
    PROVE  Keeps(u, v) /\ Stays(u, v)
  <1>1. CASE v = u
    BY <1>1 DEF Keeps, Stays
  <1>2. ASSUME v # u
        PROVE  t \notin DOMAIN u.tab /\ \E e : Fresh(e) /\ v = add_thread(u, t, e)
    <2>1. /\ ~Has(u, t)
          /\ \/ v = add_thread(u, t, FakeInfo)
             \/ t \in DOMAIN kt /\ v = add_thread(u, t, ProcInfo(t))
      BY <1>2 DEF get_thread
    <2>2. Fresh(FakeInfo)
      <3>1. -1 \in Int /\ FALSE \in BOOLEAN /\ "none" \in {"none", "fresh", "old"}
        BY SMTT(60), Z3T(60)
      <3> QED BY <3>1, NewInfoFresh DEF FakeInfo
    <2>3. ASSUME t \in DOMAIN kt PROVE Fresh(ProcInfo(t))
      <3>1. /\ kt[t].pid \in Int /\ kt[t].ptid \in Int
            /\ kt[t].ptid \in DOMAIN kt => kt[kt[t].ptid].pid \in Int
        BY <2>3, ThreadAssumption, SMTT(60), Z3T(60) DEF KType, KThread
      <3> QED BY <3>1, NewInfoFresh DEF ProcInfo
    <2> QED BY <2>1, <2>2, <2>3 DEF Has
  <1> QED BY <1>1, <1>2, AddThreadKeeps

(* A change of one group. *)
LEMMA SetGroup ==
    ASSUME NEW u \in Manager, NEW g \in DOMAIN u.grp, NEW e \in Group
    PROVE  LET v == [u EXCEPT !.grp[g] = e]
           IN  /\ v \in Manager /\ DOMAIN v.grp = DOMAIN u.grp /\ v.grp[g] = e
               /\ \A x \in DOMAIN u.grp \ {g} : v.grp[x] = u.grp[x]
               /\ v.tab = u.tab /\ v.groups = u.groups /\ v.leaked = u.leaked
               /\ v.to_remove = u.to_remove /\ v.recent = u.recent /\ v.max = u.max
  <1> DEFINE G == [u.grp EXCEPT ![g] = e]
             v == [u EXCEPT !.grp[g] = e]
             w == Mgr(u.tab, G, u.groups, u.to_remove, u.recent, u.leaked, u.max)
  <1>1. v = [u EXCEPT !.grp = G]
    BY DEF Manager
  <1>2. /\ DOMAIN G = DOMAIN u.grp /\ G \in [DOMAIN G -> Group] /\ G[g] = e
        /\ \A x \in DOMAIN u.grp \ {g} : G[x] = u.grp[x]
    BY Types
  <1> HIDE DEF G
  <1>3. v = w
    BY <1>1, MgrIs, SMTT(60), Z3T(60) DEF Mgr
  <1>4. w \in Manager
    BY <1>2, Types, MgrType
  <1>5. /\ w.tab = u.tab /\ w.grp = G /\ w.groups = u.groups /\ w.to_remove = u.to_remove
        /\ w.recent = u.recent /\ w.leaked = u.leaked /\ w.max = u.max
    BY MgrFields, SMTT(60), Z3T(60)
  <1> HIDE DEF v, w
  <1>6. /\ v \in Manager /\ DOMAIN v.grp = DOMAIN u.grp /\ v.grp[g] = e
        /\ \A x \in DOMAIN u.grp \ {g} : v.grp[x] = u.grp[x]
        /\ v.tab = u.tab /\ v.groups = u.groups /\ v.leaked = u.leaked
        /\ v.to_remove = u.to_remove /\ v.recent = u.recent /\ v.max = u.max
    BY <1>2, <1>3, <1>4, <1>5
  <1> QED BY <1>6 DEF v

(* Only the entry of t is another. *)
OneChanged(u, v, t, d) ==
    /\ DOMAIN v.tab = DOMAIN u.tab /\ v.tab[t] = d
    /\ \A x \in DOMAIN u.tab \ {t} : v.tab[x] = u.tab[x]

(* A thread dies or comes back, and its group counts it. *)
SetDead(u, t, d, n) == Count([u EXCEPT !.tab[t] = d], u.tab[t].tginfo, n)

(* That keeps the tables: the count follows the mark. *)
LEMMA DeadKeeps ==
    ASSUME NEW u, Base(u), NEW t \in DOMAIN u.tab, u.tab[t].tginfo # 0,
           NEW d \in Info, d.dead # u.tab[t].dead, d.tginfo = u.tab[t].tginfo,
           d.children = u.tab[t].children, d.reaper_tid = u.tab[t].reaper_tid,
           d.ptid = u.tab[t].ptid, d.pid = u.tab[t].pid,
           NEW n \in Int, d.dead => n = -1, ~d.dead => n = 1
    PROVE  Keeps(u, SetDead(u, t, d, n)) /\ OneChanged(u, SetDead(u, t, d, n), t, d)
  <1> DEFINE g == u.tab[t].tginfo
             b == d.dead
             w == [u EXCEPT !.tab[t] = d]
             e == [w.grp[g] EXCEPT !.alive = @ + n]
             v == [w EXCEPT !.grp[g] = e]
  <1>0. u \in Manager /\ Links(u) /\ Reapers(u) /\ Refs(u) /\ Lists(u) /\ Counts(u)
    BY DEF Base
  <1>1. u.tab[t] \in Info /\ u.grp \in [DOMAIN u.grp -> Group]
    BY <1>0, Types
  <1>2. /\ d.dead = b /\ b \in BOOLEAN /\ b # u.tab[t].dead
        /\ (b => n = -1) /\ (~b => n = 1)
        /\ d.tginfo = g /\ d.children = u.tab[t].children
        /\ d.reaper_tid = u.tab[t].reaper_tid /\ d.ptid = u.tab[t].ptid /\ d.pid = u.tab[t].pid
    BY DEF Info
  <1>3. g \in DOMAIN u.grp /\ u.grp[g] \in Group
    BY <1>0, <1>1 DEF Refs
  <1>4. SetDead(u, t, d, n) = v
    BY DEF Count, SetDead
  <1> HIDE DEF b, g
  <1>5. /\ w \in Manager /\ DOMAIN w.tab = DOMAIN u.tab /\ w.tab[t] = d
        /\ \A x \in DOMAIN u.tab \ {t} : w.tab[x] = u.tab[x]
        /\ w.grp = u.grp /\ w.groups = u.groups /\ w.leaked = u.leaked
        /\ w.to_remove = u.to_remove
    BY <1>0, <1>2, SetEntry, SMTT(60), Z3T(60)
  <1>6. /\ \A h : h # g => LiveOf(w, h) = LiveOf(u, h)
        /\ IF b THEN t \in LiveOf(u, g) /\ LiveOf(w, g) = LiveOf(u, g) \ {t}
                ELSE t \notin LiveOf(u, g) /\ LiveOf(w, g) = LiveOf(u, g) \cup {t}
    <2>1. \A x \in DOMAIN u.tab : x # t => w.tab[x] = u.tab[x]
      BY <1>5
    <2> HIDE DEF w
    <2>2. \A h : h # g => LiveOf(w, h) = LiveOf(u, h)
      BY <1>2, <1>5, <2>1, SMTT(60), Z3T(60) DEF LiveOf, g
    <2>3. CASE b
      <3>1. ~u.tab[t].dead
        BY <2>3, <1>1, <1>2 DEF Info
      <3>2. t \in LiveOf(u, g)
        BY <3>1 DEF LiveOf, g
      <3>3. w.tab[t].dead
        BY <1>2, <1>5, <2>3
      <3>4. LiveOf(w, g) = LiveOf(u, g) \ {t}
        BY <1>5, <2>1, <3>3 DEF LiveOf
      <3> QED BY <2>2, <2>3, <3>2, <3>4
    <2>4. CASE ~b
      <3>1. u.tab[t].dead
        BY <2>4, <1>1, <1>2 DEF Info
      <3>2. t \notin LiveOf(u, g)
        BY <3>1 DEF LiveOf
      <3>3. ~w.tab[t].dead /\ w.tab[t].tginfo = g
        BY <1>2, <1>5, <2>4
      <3>4. LiveOf(w, g) = LiveOf(u, g) \cup {t}
        BY <1>5, <2>1, <3>3 DEF LiveOf
      <3> QED BY <2>2, <2>4, <3>2, <3>4
    <2> QED BY <2>3, <2>4
  <1>7. IsFiniteSet(LiveOf(u, g)) /\ Cardinality(LiveOf(u, g)) \in Nat
    BY <1>0, LiveFinite
  <1>8. Cardinality(LiveOf(w, g)) = Cardinality(LiveOf(u, g)) + n
        /\ Cardinality(LiveOf(w, g)) \in Nat
    <2>0. Cardinality(LiveOf(w, g)) \in Nat
      BY <1>5, LiveFinite
    <2>1. CASE b
      BY <1>2, <1>6, <1>7, <2>0, <2>1, FS_RemoveElement, SMTT(60), Z3T(60)
    <2>2. CASE ~b
      BY <1>2, <1>6, <1>7, <2>0, <2>2, FS_AddElement, SMTT(60), Z3T(60)
    <2> QED BY <2>1, <2>2
  <1>9. /\ w.grp[g].alive \in Nat /\ w.grp[g].alive >= Cardinality(LiveOf(u, g))
        /\ w.leaked \/ w.grp[g].alive = Cardinality(LiveOf(u, g))
    BY <1>0, <1>3, <1>5 DEF Counts, Group
  <1>10. /\ e \in Group /\ e.alive = w.grp[g].alive + n /\ e.threads = w.grp[g].threads
    <2>1. w.grp[g] \in Group /\ w.grp[g].alive + n \in Nat
      BY <1>3, <1>5, <1>7, <1>8, <1>9, SMTT(60), Z3T(60)
    <2> QED BY <2>1 DEF Group
  <1> HIDE DEF w, e
  <1>11. /\ v \in Manager /\ DOMAIN v.grp = DOMAIN w.grp /\ v.grp[g] = e
         /\ \A x \in DOMAIN w.grp \ {g} : v.grp[x] = w.grp[x]
         /\ v.tab = w.tab /\ v.groups = w.groups /\ v.leaked = w.leaked
         /\ v.to_remove = w.to_remove
    <2>1. w \in Manager /\ g \in DOMAIN w.grp /\ e \in Group
      BY <1>3, <1>5, <1>10
    <2> QED BY <2>1, SetGroup, SMTT(60), Z3T(60)
  <1> HIDE DEF v
  <1>12. \A x \in DOMAIN u.tab :
            /\ v.tab[x].pid = u.tab[x].pid /\ v.tab[x].ptid = u.tab[x].ptid
            /\ v.tab[x].children = u.tab[x].children /\ v.tab[x].tginfo = u.tab[x].tginfo
            /\ v.tab[x].reaper_tid = u.tab[x].reaper_tid
    BY <1>2, <1>5, <1>11, SMTT(60), Z3T(60) DEF g
  <1>13. \A h \in DOMAIN u.grp : v.grp[h].threads = u.grp[h].threads
    BY <1>5, <1>10, <1>11, SMTT(60), Z3T(60)
  <1>14. Links(v) /\ Reapers(v) /\ Refs(v)
    <2>1. DOMAIN v.tab = DOMAIN u.tab /\ DOMAIN v.grp = DOMAIN u.grp /\ v.groups = u.groups
      BY <1>5, <1>11
    <2>2. Links(v)
      BY <1>0, <1>12, <2>1, SMTT(60), Z3T(60) DEF Links
    <2>3. Reapers(v)
      BY <1>0, <1>12, <2>1 DEF Reapers
    <2>4. Refs(v)
      BY <1>0, <1>12, <2>1 DEF Refs
    <2> QED BY <2>2, <2>3, <2>4
  <1>15. Lists(v)
    <2>1. DOMAIN v.tab = DOMAIN u.tab /\ DOMAIN v.grp = DOMAIN u.grp
      BY <1>5, <1>11
    <2> QED BY <1>0, <1>12, <1>13, <2>1, SameLists
  <1>16. Counts(v)
    <2> SUFFICES ASSUME NEW h \in DOMAIN v.grp
                 PROVE  /\ v.grp[h].alive >= Cardinality(LiveOf(v, h))
                        /\ v.leaked \/ v.grp[h].alive = Cardinality(LiveOf(v, h))
      BY DEF Counts
    <2>1. LiveOf(v, h) = LiveOf(w, h)
      BY <1>11 DEF LiveOf
    <2>2. CASE h = g
      BY <1>7, <1>8, <1>9, <1>10, <1>11, <2>1, <2>2, SMTT(60), Z3T(60)
    <2>3. CASE h # g
      <3>1. v.grp[h] = u.grp[h] /\ h \in DOMAIN u.grp /\ v.leaked = u.leaked
        BY <1>5, <1>11, <2>3
      <3>2. LiveOf(v, h) = LiveOf(u, h)
        BY <1>6, <2>1, <2>3
      <3> QED BY <1>0, <3>1, <3>2 DEF Counts
    <2> QED BY <2>2, <2>3
  <1>17. Pend(v) \subseteq Pend(u)
    BY <1>2, <1>5, <1>11, SMTT(60), Z3T(60) DEF Pend, g
  <1>18. Keeps(u, v)
    BY <1>5, <1>11, <1>14, <1>15, <1>16, <1>17 DEF Keeps, Base
  <1>19. OneChanged(u, v, t, d)
    BY <1>5, <1>11 DEF OneChanged
  <1> QED BY <1>4, <1>18, <1>19

(* Kill leaves t dead and all else of the table as it was. *)
LEMMA KillKeeps ==
    ASSUME NEW u, Base(u), NEW t \in DOMAIN u.tab, u.tab[t].tginfo # 0
    PROVE  LET v == Kill(u, t)
           IN  Keeps(u, v) /\ OneChanged(u, v, t, [u.tab[t] EXCEPT !.dead = TRUE])
  <1> DEFINE v == Kill(u, t)
             d == [u.tab[t] EXCEPT !.dead = TRUE]
             n == -1
             c == SetDead(u, t, d, n)
  <1> SUFFICES Keeps(u, v) /\ OneChanged(u, v, t, d)
    OBVIOUS
  <1>0. u.tab[t] \in Info
    BY Types DEF Base
  <1>1. CASE u.tab[t].dead
    <2>1. v = u
      BY <1>1 DEF Kill
    <2>2. u.tab[t] = d
      BY <1>0, <1>1 DEF Info
    <2> HIDE DEF v, d
    <2>3. Keeps(u, u)
      BY DEF Keeps
    <2> QED BY <2>1, <2>2, <2>3 DEF OneChanged
  <1>2. CASE ~u.tab[t].dead
    <2>1. v = c
      BY <1>2 DEF Kill, SetDead
    <2>2. /\ d \in Info /\ d.dead /\ d.tginfo = u.tab[t].tginfo
          /\ d.children = u.tab[t].children /\ d.reaper_tid = u.tab[t].reaper_tid
          /\ d.ptid = u.tab[t].ptid /\ d.pid = u.tab[t].pid
      BY <1>0 DEF Info
    <2>5. n \in Int /\ n = -1
      BY SMTT(60), Z3T(60)
    <2>3. d.dead # u.tab[t].dead
      BY <1>2, <2>2
    <2> HIDE DEF v, d, n
    <2>4. Keeps(u, c) /\ OneChanged(u, c, t, d)
      BY <2>2, <2>3, <2>5, DeadKeeps
    <2> HIDE DEF c
    <2> QED BY <2>1, <2>4
  <1> QED BY <1>1, <1>2

(* A thread that is not among the dead. *)
Alive(u, r) == r \in DOMAIN u.tab /\ ~u.tab[r].dead

(* The thread that LiveThread finds is alive and is not t. *)
LEMMA LiveThreadIs ==
    ASSUME NEW u, Base(u), NEW g \in DOMAIN u.grp, NEW t
    PROVE  LET r == LiveThread(u, g, t)
           IN  r = 0 \/ (Alive(u, r) /\ r # t)
  <1> DEFINE s == u.grp[g].threads
             live == {i \in 1 .. Len(s) : s[i] # t /\ ~u.tab[s[i]].dead}
             r == LiveThread(u, g, t)
  <1>1. \A i \in 1 .. Len(s) : s[i] \in DOMAIN u.tab
    BY DEF Base, Lists, ListOf
  <1>2. r = 0 \/ (live # {} /\ r = s[Min(live)])
    BY DEF LiveThread
  <1>3. live \subseteq Nat
    BY SMTT(60), Z3T(60)
  <1>4. ASSUME live # {} PROVE Min(live) \in live
    <2> HIDE DEF live
    <2> QED BY <1>3, <1>4, Least
  <1>5. \A i \in live : i \in 1 .. Len(s) /\ s[i] # t /\ ~u.tab[s[i]].dead
    OBVIOUS
  <1> HIDE DEF live, s
  <1>6. ASSUME live # {}, r = s[Min(live)] PROVE Alive(u, r) /\ r # t
    <2> HIDE DEF r
    <2> QED BY <1>1, <1>4, <1>5, <1>6 DEF Alive
  <1> QED BY <1>2, <1>6

(* ... and the one in a reaper's group is alive. *)
LEMMA ReaperAtIs ==
    ASSUME NEW u, Base(u), NEW p \in DOMAIN u.tab
    PROVE  LET r == ReaperAt(u, p) IN r = 0 \/ Alive(u, r)
  <1> DEFINE g == u.tab[p].tginfo
             r == ReaperAt(u, p)
  <1>1. r = 0 \/ (g # 0 /\ r = LiveThread(u, g, 0))
    BY DEF ReaperAt
  <1>2. g \in DOMAIN u.grp \cup {0}
    BY DEF Base, Refs
  <1> HIDE DEF g
  <1>3. ASSUME g # 0 PROVE LiveThread(u, g, 0) = 0 \/ Alive(u, LiveThread(u, g, 0))
    BY <1>2, <1>3, LiveThreadIs
  <1> QED BY <1>1, <1>3

(* The walk over the ancestors, wherever it ends. *)
LEMMA AncestorIs ==
    ASSUME NEW u, Base(u), NEW t
    PROVE  LET r == Ancestor(u, t) IN r \in {0, -1} \/ Alive(u, r)
  <1>1. \E a : Ancestor(u, t) \in {0, -1} \/ (Has(u, a) /\ Ancestor(u, t) = ReaperAt(u, a))
    BY DEF Ancestor
  <1>2. PICK a : Ancestor(u, t) \in {0, -1} \/ (Has(u, a) /\ Ancestor(u, t) = ReaperAt(u, a))
    BY <1>1
  <1>3. ASSUME Has(u, a) PROVE ReaperAt(u, a) = 0 \/ Alive(u, ReaperAt(u, a))
    BY <1>3, ReaperAtIs DEF Has
  <1> QED BY <1>2, <1>3

(* A dead thread is not its own reaper, and the reaper is in the table. *)
LEMMA ReaperIs ==
    ASSUME NEW u, Base(u), NEW t \in DOMAIN u.tab, u.tab[t].tginfo # 0, u.tab[t].dead
    PROVE  LET r == Reaper(u, t) IN r \in {0, -1} \/ (r \in DOMAIN u.tab /\ r # t)
  <1> DEFINE k == u.tab[t].reaper_tid
             g == u.tab[t].tginfo
             l == LiveThread(u, g, t)
             a == Ancestor(u, t)
  <1>1. k # t
    BY DEF Base, Reapers
  <1>2. g \in DOMAIN u.grp
    BY DEF Base, Refs
  <1>3. l = 0 \/ (Alive(u, l) /\ l # t)
    BY <1>2, LiveThreadIs
  <1>4. a \in {0, -1} \/ Alive(u, a)
    BY AncestorIs
  <1>5. \/ Reaper(u, t) = k /\ k \in DOMAIN u.tab
        \/ Reaper(u, t) = l /\ l # 0
        \/ Reaper(u, t) = a
    BY DEF Reaper, find_new_reaper, Valid, Has
  <1> HIDE DEF k, l, a
  <1> QED BY <1>1, <1>3, <1>4, <1>5 DEF Alive

(* The children of t go to r, or nowhere. *)
LEMMA ReparentKeeps ==
    ASSUME NEW u, Base(u), NEW t \in DOMAIN u.tab,
           NEW r \in Int, r \in {0, -1} \/ (r \in DOMAIN u.tab /\ r # t)
    PROVE  LET v == Reparent(u, t, r)
           IN  /\ Keeps(u, v) /\ DOMAIN v.tab = DOMAIN u.tab
               /\ v.groups = u.groups /\ v.leaked = u.leaked
               /\ \A x \in DOMAIN u.tab : /\ v.tab[x].pid = u.tab[x].pid
                                          /\ v.tab[x].dead = u.tab[x].dead
                                          /\ v.tab[x].tginfo = u.tab[x].tginfo
  <1> DEFINE kids == u.tab[t].children
             Own(x) == IF x = t THEN Emptied(u.tab[x], r) ELSE u.tab[x]
             P(x) == IF x \notin kids THEN Own(x).ptid ELSE IF r > 0 THEN r ELSE 0
             C(x) == IF x = r THEN Own(x).children \cup kids ELSE Own(x).children
             E(x) == [Own(x) EXCEPT !.ptid = P(x), !.children = C(x)]
             T == [x \in DOMAIN u.tab |-> E(x)]
             w == [u EXCEPT !.tab = T]
             v == Reparent(u, t, r)
  <1>0. /\ u \in Manager /\ Links(u) /\ Reapers(u) /\ Refs(u)
        /\ u.tab \in [DOMAIN u.tab -> Info] /\ DOMAIN u.tab \subseteq Tids
    BY Types DEF Base
  <1>1. \A x \in DOMAIN u.tab : u.tab[x] \in Info
    BY <1>0
  <1>2. r > 0 <=> r \in DOMAIN u.tab /\ r # t
    BY <1>0, ThreadAssumption, SMTT(60), Z3T(60)
  <1>3. v = IF r > 0 /\ w.tab[r].pid # w.tab[t].pid /\ w.tab[r].tginfo # 0
            THEN [w EXCEPT !.grp[w.tab[r].tginfo].reaper = TRUE] ELSE w
    BY DEF Reparent
  <1>4. \A x \in DOMAIN u.tab :
           /\ Own(x) \in Info /\ Own(x).pid = u.tab[x].pid /\ Own(x).dead = u.tab[x].dead
           /\ Own(x).tginfo = u.tab[x].tginfo /\ Own(x).reaper_tid # x
           /\ Own(x).ptid = u.tab[x].ptid
           /\ Own(x).children = IF x = t THEN {} ELSE u.tab[x].children
    <2> SUFFICES ASSUME NEW x \in DOMAIN u.tab
                 PROVE  /\ Own(x) \in Info /\ Own(x).pid = u.tab[x].pid
                        /\ Own(x).dead = u.tab[x].dead
                        /\ Own(x).tginfo = u.tab[x].tginfo /\ Own(x).reaper_tid # x
                        /\ Own(x).ptid = u.tab[x].ptid
                        /\ Own(x).children = IF x = t THEN {} ELSE u.tab[x].children
      OBVIOUS
    <2>0. u.tab[x] \in Info /\ u.tab[x].reaper_tid # x
      BY <1>0, <1>1 DEF Reapers
    <2>1. CASE x = t
      <3> DEFINE q == IF r > 0 THEN r ELSE u.tab[x].reaper_tid
      <3>1. q \in Tids \cup {0, -1} /\ q # x
        BY <1>0, <1>2, <2>0, <2>1 DEF Info
      <3>2. Own(x) = [u.tab[x] EXCEPT !.children = {}, !.expired = FALSE, !.reaper_tid = q]
        BY <2>1 DEF Emptied
      <3> HIDE DEF q
      <3> QED BY <2>0, <2>1, <3>1, <3>2 DEF Info
    <2>2. CASE x # t
      BY <2>0, <2>2
    <2> QED BY <2>1, <2>2
  <1>5. kids \subseteq Tids
    BY <1>1 DEF Info
  <1> HIDE DEF Own
  <1>6. \A x \in DOMAIN u.tab : P(x) \in Int /\ C(x) \in SUBSET Tids
    BY <1>4, <1>5, SMTT(60), Z3T(60) DEF Info
  <1>7. \A x \in DOMAIN u.tab :
           /\ E(x) \in Info /\ E(x).pid = u.tab[x].pid /\ E(x).dead = u.tab[x].dead
           /\ E(x).tginfo = u.tab[x].tginfo /\ E(x).reaper_tid # x
           /\ E(x).ptid = P(x) /\ E(x).children = C(x)
    <2> HIDE DEF P, C
    <2> TAKE x \in DOMAIN u.tab
    <2> DEFINE o == Own(x)
               p == P(x)
               c == C(x)
    <2>1. /\ o \in Info /\ o.pid = u.tab[x].pid /\ o.dead = u.tab[x].dead
          /\ o.tginfo = u.tab[x].tginfo /\ o.reaper_tid # x
          /\ p \in Int /\ c \in SUBSET Tids
      BY <1>4, <1>6
    <2> HIDE DEF o, p, c
    <2>2. E(x) = [o EXCEPT !.ptid = p, !.children = c]
      BY DEF o, p, c
    <2> HIDE DEF E
    <2>3. /\ E(x) \in Info /\ E(x).pid = o.pid /\ E(x).dead = o.dead
          /\ E(x).tginfo = o.tginfo /\ E(x).reaper_tid = o.reaper_tid
          /\ E(x).ptid = p /\ E(x).children = c
      BY <2>1, <2>2 DEF Info
    <2> QED BY <2>1, <2>3 DEF p, c
  <1> HIDE DEF E
  <1>8. DOMAIN T = DOMAIN u.tab /\ T \in [DOMAIN T -> Info] /\ \A x \in DOMAIN u.tab : T[x] = E(x)
    BY <1>7
  <1> HIDE DEF T
  <1>9. /\ w \in Manager /\ w.tab = T
        /\ w.grp = u.grp /\ w.groups = u.groups /\ w.leaked = u.leaked
        /\ w.to_remove = u.to_remove
    BY <1>0, <1>8, SetTab, SMTT(60), Z3T(60)
  <1> HIDE DEF w, v
  <1>20. DOMAIN w.tab = DOMAIN u.tab
    BY <1>8, <1>9
  <1>10. \A x \in DOMAIN u.tab :
             /\ w.tab[x].pid = u.tab[x].pid /\ w.tab[x].dead = u.tab[x].dead
             /\ w.tab[x].tginfo = u.tab[x].tginfo /\ w.tab[x].reaper_tid # x
             /\ w.tab[x].ptid = IF x \notin kids THEN u.tab[x].ptid ELSE IF r > 0 THEN r ELSE 0
             /\ w.tab[x].children = IF x = r THEN u.tab[x].children \cup kids
                                    ELSE IF x = t THEN {} ELSE u.tab[x].children
    <2>1. \A x \in DOMAIN u.tab : P(x) = IF x \notin kids THEN u.tab[x].ptid ELSE IF r > 0 THEN r ELSE 0
      BY <1>4
    <2>2. \A x \in DOMAIN u.tab : C(x) = IF x = r THEN u.tab[x].children \cup kids
                                         ELSE IF x = t THEN {} ELSE u.tab[x].children
      BY <1>2, <1>4, ThreadAssumption
    <2>3. \A x \in DOMAIN u.tab : w.tab[x] = E(x)
      BY <1>8, <1>9
    <2> HIDE DEF P, C, kids
    <2>4. \A x \in DOMAIN u.tab :
             /\ w.tab[x].pid = u.tab[x].pid /\ w.tab[x].dead = u.tab[x].dead
             /\ w.tab[x].tginfo = u.tab[x].tginfo /\ w.tab[x].reaper_tid # x
             /\ w.tab[x].ptid = P(x) /\ w.tab[x].children = C(x)
      BY <1>7, <2>3, SMTT(60), Z3T(60)
    <2> TAKE x \in DOMAIN u.tab
    <2>5. w.tab[x].ptid = IF x \notin kids THEN u.tab[x].ptid ELSE IF r > 0 THEN r ELSE 0
      BY <2>1, <2>4, SMTT(60), Z3T(60)
    <2>6. w.tab[x].children = IF x = r THEN u.tab[x].children \cup kids
                              ELSE IF x = t THEN {} ELSE u.tab[x].children
      BY <2>2, <2>4
    <2> QED BY <2>4, <2>5, <2>6
  <1>19. \A x \in DOMAIN u.tab :
            /\ w.tab[x].pid = u.tab[x].pid /\ w.tab[x].dead = u.tab[x].dead
            /\ w.tab[x].tginfo = u.tab[x].tginfo
    BY <1>10
  <1>11. Links(w)
    <2> SUFFICES ASSUME NEW y \in DOMAIN u.tab, NEW c \in w.tab[y].children
                 PROVE  c \in DOMAIN u.tab /\ w.tab[c].ptid = y /\ w.tab[c].pid >= 0
      BY <1>10, <1>20 DEF Links
    <2>1. CASE y = r /\ c \in kids
      <3>1. c \in DOMAIN u.tab /\ u.tab[c].pid >= 0
        BY <1>0, <2>1 DEF Links
      <3>2. y \in Nat \ {0}
        BY <1>0, ThreadAssumption
      <3>3. r > 0
        BY <2>1, <3>2, SMTT(60), Z3T(60)
      <3> QED BY <1>10, <2>1, <3>1, <3>3
    <2>2. CASE c \in u.tab[y].children /\ y # t
      <3>1. c \in DOMAIN u.tab /\ u.tab[c].pid >= 0 /\ u.tab[c].ptid = y
        BY <1>0, <2>2 DEF Links
      <3>2. c \notin kids
        BY <1>0, <2>2, <3>1 DEF Links
      <3> QED BY <1>10, <3>1, <3>2
    <2> QED BY <1>2, <1>10, <2>1, <2>2
  <1>12. Reapers(w)
    BY <1>10, <1>20 DEF Reapers
  <1>13. \/ v = w
         \/ \E g \in DOMAIN w.grp : v = [w EXCEPT !.grp[g].reaper = TRUE]
    <2>1. ASSUME r > 0, w.tab[r].tginfo # 0 PROVE w.tab[r].tginfo \in DOMAIN w.grp
      BY <1>0, <1>2, <1>9, <1>19, <2>1 DEF Refs
    <2> QED BY <1>3, <2>1
  <1> DEFINE Same == /\ v \in Manager /\ v.tab = w.tab /\ v.groups = w.groups
                     /\ v.leaked = w.leaked /\ v.to_remove = w.to_remove
                     /\ DOMAIN v.grp = DOMAIN w.grp
                     /\ \A g \in DOMAIN w.grp : /\ v.grp[g].alive = w.grp[g].alive
                                                /\ v.grp[g].threads = w.grp[g].threads
  <1>14. Same
    <2>1. CASE v = w
      BY <1>9, <2>1
    <2>2. ASSUME NEW g \in DOMAIN w.grp, v = [w EXCEPT !.grp[g].reaper = TRUE] PROVE Same
      <3> DEFINE e == [w.grp[g] EXCEPT !.reaper = TRUE]
      <3>1. w.grp[g] \in Group
        BY <1>9, Types
      <3>2. e \in Group /\ e.alive = w.grp[g].alive /\ e.threads = w.grp[g].threads
        BY <3>1 DEF Group
      <3>3. v = [w EXCEPT !.grp[g] = e]
        BY <2>2
      <3> HIDE DEF e
      <3>4. /\ v \in Manager /\ DOMAIN v.grp = DOMAIN w.grp /\ v.grp[g] = e
            /\ \A x \in DOMAIN w.grp \ {g} : v.grp[x] = w.grp[x]
            /\ v.tab = w.tab /\ v.groups = w.groups /\ v.leaked = w.leaked
            /\ v.to_remove = w.to_remove
        BY <1>9, <3>2, <3>3, SetGroup, SMTT(60), Z3T(60)
      <3> QED BY <3>2, <3>4
    <2> QED BY <1>13, <2>1, <2>2
  <1>15. Refs(v) /\ Lists(v) /\ Counts(v) /\ Pend(v) = Pend(u)
    <2>1. /\ DOMAIN v.tab = DOMAIN u.tab /\ v.groups = u.groups /\ v.leaked = u.leaked
          /\ DOMAIN v.grp = DOMAIN u.grp /\ v \in Manager
      BY <1>9, <1>20, <1>14
    <2>2. \A g \in DOMAIN u.grp : /\ v.grp[g].alive = u.grp[g].alive
                                  /\ v.grp[g].threads = u.grp[g].threads
      BY <1>9, <1>14
    <2>3. \A x \in DOMAIN u.tab : /\ v.tab[x].tginfo = u.tab[x].tginfo
                                  /\ v.tab[x].dead = u.tab[x].dead
      BY <1>19, <1>14
    <2> QED BY <2>1, <2>2, <2>3, SameGroups
  <1>16. Links(v) /\ Reapers(v)
    BY <1>11, <1>12, <1>14, SMTT(60), Z3T(60) DEF Links, Reapers
  <1>17. Keeps(u, v)
    BY <1>9, <1>14, <1>15, <1>16 DEF Keeps, Base
  <1>18. /\ DOMAIN v.tab = DOMAIN u.tab /\ v.groups = u.groups /\ v.leaked = u.leaked
         /\ \A x \in DOMAIN u.tab : /\ v.tab[x].pid = u.tab[x].pid
                                    /\ v.tab[x].dead = u.tab[x].dead
                                    /\ v.tab[x].tginfo = u.tab[x].tginfo
    BY <1>9, <1>14, <1>19, <1>20
  <1> QED BY <1>17, <1>18 DEF v

(* Erase, once more. *)
LEMMA EraseAll ==
    ASSUME NEW u, Base(u), NEW t
    PROVE  Keeps(u, Erase(u, t)) /\ t \notin Pend(Erase(u, t))
  <1>1. Erase(u, t).to_remove = u.to_remove
    BY EraseDoes DEF Base
  <1> QED BY <1>1, EraseKeeps DEF Keeps

(* Keeping the invariant twice is keeping it. *)
LEMMA KeepsTwice ==
    ASSUME NEW u, NEW v, NEW w, Keeps(u, v), Keeps(v, w)
    PROVE  Keeps(u, w)
  BY DEF Keeps

(* A state keeps what it has. *)
LEMMA KeepsSame ==
    ASSUME NEW u, Base(u)
    PROVE  Keeps(u, u)
  BY DEF Keeps

(* A process id is forgotten. *)
LEMMA DropKeeps ==
    ASSUME NEW u, Base(u), NEW pid
    PROVE  Keeps(u, [u EXCEPT !.groups = Drop(@, pid)])
  <1> DEFINE G == Drop(u.groups, pid)
             v == [u EXCEPT !.groups = G]
  <1>0. u \in Manager /\ Links(u) /\ Reapers(u) /\ Refs(u) /\ Lists(u) /\ Counts(u)
    BY DEF Base
  <1>1. /\ DOMAIN G = DOMAIN u.groups \ {pid} /\ G \in [DOMAIN G -> Nat]
        /\ \A p \in DOMAIN G : G[p] = u.groups[p]
    BY <1>0, Types DEF Drop
  <1>2. [u EXCEPT !.groups = Drop(@, pid)] = v
    BY <1>0 DEF Manager
  <1> HIDE DEF G
  <1>3. v = Mgr(u.tab, u.grp, G, u.to_remove, u.recent, u.leaked, u.max)
    BY <1>0, MgrIs, SMTT(60), Z3T(60) DEF Mgr
  <1> HIDE DEF v
  <1>4. v \in Manager
    BY <1>0, <1>1, <1>3, Types, MgrType
  <1>5. /\ v.tab = u.tab /\ v.grp = u.grp /\ v.groups = G /\ v.leaked = u.leaked
        /\ v.to_remove = u.to_remove
    BY <1>3 DEF Mgr
  <1>6. Links(v) /\ Reapers(v)
    BY <1>0, <1>5 DEF Links, Reapers
  <1>7. Refs(v)
    BY <1>0, <1>1, <1>5 DEF Refs
  <1>8. Lists(v)
    BY <1>0, <1>5, SameLists
  <1>9. Counts(v)
    <2>1. \A g : LiveOf(v, g) = LiveOf(u, g)
      BY <1>5 DEF LiveOf
    <2> QED BY <1>0, <1>5, <2>1 DEF Counts
  <1>10. Pend(v) = Pend(u)
    BY <1>5 DEF Pend
  <1>11. Keeps(u, v)
    BY <1>4, <1>5, <1>6, <1>7, <1>8, <1>9, <1>10 DEF Base, Keeps
  <1> QED BY <1>2, <1>11

(* The last steps of remove_thread. *)
LEMMA UnlistKeeps ==
    ASSUME NEW u, Base(u), NEW t
    PROVE  Keeps(u, Unlist(u, t))
  <1> DEFINE pid == u.tab[t].pid
             d == [u EXCEPT !.groups = Drop(@, pid)]
             v == IF GroupOf(u, t).alive = 0 THEN Erase(d, pid) ELSE u
  <1>1. Unlist(u, t) = IF t = pid THEN v ELSE Erase(v, t)
    BY DEF Unlist
  <1>2. Keeps(u, d)
    BY DropKeeps
  <1> HIDE DEF d
  <1>3. Keeps(u, Erase(d, pid))
    <2>1. Keeps(d, Erase(d, pid))
      BY <1>2, EraseAll DEF Keeps
    <2> QED BY <1>2, <2>1, KeepsTwice
  <1>4. Keeps(u, v)
    BY <1>3, KeepsSame
  <1> HIDE DEF v
  <1>5. Keeps(u, Erase(v, t))
    <2>1. Keeps(v, Erase(v, t))
      BY <1>4, EraseAll DEF Keeps
    <2> QED BY <1>4, <2>1, KeepsTwice
  <1> QED BY <1>1, <1>4, <1>5

(* The children of a thread that is dead are given to a reaper. *)
LEMMA ReapKeeps ==
    ASSUME KType, NEW u, Base(u), NEW t \in DOMAIN u.tab, u.tab[t].tginfo # 0, u.tab[t].dead,
           NEW v \in Reap(u, t)
    PROVE  Keeps(u, v)
  <1> DEFINE k == u.tab[t].reaper_tid
  <1>1. CASE v = u
    BY <1>1, KeepsSame
  <1>2. ASSUME v # u
        PROVE  \E x \in IF k > 0 THEN get_thread(u, k) ELSE {u} : v = Reparent(x, t, Reaper(x, t))
    BY <1>2 DEF Reap
  <1>3. k \in Tids \cup {0, -1}
    <2>1. u.tab[t] \in Info
      BY Types DEF Base
    <2> QED BY <2>1 DEF Info
  <1>4. ASSUME NEW x \in IF k > 0 THEN get_thread(u, k) ELSE {u}
        PROVE  Keeps(u, Reparent(x, t, Reaper(x, t)))
    <2>1. Keeps(u, x) /\ Stays(u, x)
      <3>1. CASE k > 0
        <4>1. k \in Tids /\ x \in get_thread(u, k)
          BY <1>3, <1>4, <3>1, SMTT(60), Z3T(60)
        <4> HIDE DEF k
        <4> QED BY <4>1, GetThreadKeeps
      <3>2. CASE ~(k > 0)
        <4>1. x = u
          BY <1>4, <3>2
        <4> QED BY <4>1, KeepsSame DEF Stays
      <3> QED BY <3>1, <3>2
    <2>2. t \in DOMAIN x.tab /\ x.tab[t].tginfo # 0 /\ x.tab[t].dead /\ Base(x)
      BY <2>1 DEF Stays, Keeps
    <2> DEFINE r == Reaper(x, t)
    <2>3. r \in {0, -1} \/ (r \in DOMAIN x.tab /\ r # t)
      BY <2>2, ReaperIs
    <2>4. DOMAIN x.tab \subseteq Int
      <3>1. DOMAIN x.tab \subseteq Tids
        BY <2>2, Types DEF Base
      <3>2. Tids \subseteq Int
        BY ThreadAssumption, SMTT(60), Z3T(60)
      <3> QED BY <3>1, <3>2
    <2> HIDE DEF r
    <2>5. r \in Int
      BY <2>3, <2>4, SMTT(60), Z3T(60)
    <2>6. Keeps(x, Reparent(x, t, r))
      BY <2>2, <2>3, <2>5, ReparentKeeps
    <2>7. Keeps(u, Reparent(x, t, r))
      BY <2>1, <2>6, KeepsTwice
    <2> QED BY <2>7 DEF r
  <1> QED BY <1>1, <1>2, <1>4

(* remove_thread, in each of its cases. *)
LEMMA RemoveThreadKeeps ==
    ASSUME KType, NEW u, Base(u), NEW t, NEW v \in remove_thread(u, t)
    PROVE  Keeps(u, v) /\ t \notin Pend(v)
  <1>1. CASE ~Has(u, t)
    <2>1. v = u
      BY <1>1 DEF remove_thread
    <2> QED BY <1>1, <2>1, KeepsSame DEF Has, Pend
  <1>2. CASE Has(u, t) /\ (is_invalid(u.tab[t]) \/ u.tab[t].tginfo = 0)
    <2>1. v = Erase(u, t)
      BY <1>2 DEF remove_thread
    <2> QED BY <2>1, EraseAll
  <1>3. CASE Has(u, t) /\ ~(is_invalid(u.tab[t]) \/ u.tab[t].tginfo = 0)
    <2>1. \E w \in Reap(Kill(u, t), t) : v = Unlist(w, t)
      BY <1>3 DEF remove_thread
    <2>2. PICK w \in Reap(Kill(u, t), t) : v = Unlist(w, t)
      BY <2>1
    <2> DEFINE k == Kill(u, t)
               d == [u.tab[t] EXCEPT !.dead = TRUE]
    <2>3. t \in DOMAIN u.tab /\ u.tab[t].tginfo # 0
      BY <1>3 DEF Has
    <2>4. Keeps(u, k) /\ OneChanged(u, k, t, d)
      BY <2>3, KillKeeps
    <2>5. d.dead /\ d.tginfo = u.tab[t].tginfo
      <3>1. u.tab[t] \in Info
        BY <2>3, Types DEF Base
      <3> QED BY <3>1 DEF Info
    <2> HIDE DEF k, d
    <2>6. Base(k) /\ t \in DOMAIN k.tab /\ k.tab[t].tginfo # 0 /\ k.tab[t].dead
      BY <2>3, <2>4, <2>5 DEF Keeps, OneChanged
    <2>7. Keeps(k, w)
      BY <2>2, <2>6, ReapKeeps DEF k
    <2>8. Keeps(w, v)
      BY <2>2, <2>7, UnlistKeeps DEF Keeps
    <2>9. Keeps(u, v)
      BY <2>4, <2>7, <2>8, KeepsTwice
    <2>10. t \notin Pend(u)
      BY <2>3 DEF Pend
    <2> QED BY <2>9, <2>10 DEF Keeps
  <1> QED BY <1>1, <1>2, <1>3

=============================================================================
