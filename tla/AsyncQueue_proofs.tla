------------------------- MODULE AsyncQueue_proofs --------------------------
(***************************************************************************)
(* Proofs for AsyncQueue: the priority queue of asynchronous events with   *)
(* its atomic top, and its merge with the events of libscap.               *)
(*                                                                         *)
(* The sift operations of the heap repeat a step.  The first part is       *)
(* induction, in the form "a set of numbers that has 0 and the successor   *)
(* of each member is Nat", and what it gives for a repeated step.  The     *)
(* second is about the heap alone: a push and a pop keep its elements, and *)
(* keep it in order as long as its elements have timestamps.  The third is *)
(* the inductive invariant with one lemma per action, and the theorems.    *)
(***************************************************************************)
EXTENDS AsyncQueue, SequenceTheorems, FiniteSetTheorems, WellFoundedInduction, TLAPS

(* The prover of the steps that name none; arithmetic is left to SMT.     *)
USE ZenonT(40)

(* A set of numbers has a least one. *)
LEMMA Least ==
    ASSUME NEW S \in SUBSET Nat, S # {}
    PROVE  \E n \in S : \A m \in S : n <= m
  <1> DEFINE R == OpToRel(<, Nat)
  <1>1. IsWellFoundedOn(R, Nat)
    BY NatLessThanWellFounded
  <1>2. \A m, n \in Nat : <<m, n>> \in R <=> m < n
    BY DEF OpToRel
  <1> HIDE DEF R
  <1>3. PICK n \in S : \A m \in S : <<m, n>> \notin R
    BY <1>1, WFMin
  <1>4. \A m \in S : ~(m < n)
    BY <1>2, <1>3
  <1>5. \A m \in S : n <= m
    BY <1>4, SMTT(60), Z3T(60)
  <1> QED BY <1>5

(* Induction, over a set of numbers. *)
LEMMA SetInduction ==
    ASSUME NEW S \in SUBSET Nat, 0 \in S, \A n \in S : n + 1 \in S
    PROVE  S = Nat
  <1> SUFFICES ASSUME S # Nat PROVE FALSE
    OBVIOUS
  <1>1. Nat \ S # {} /\ Nat \ S \in SUBSET Nat
    OBVIOUS
  <1>2. PICK n \in Nat \ S : \A m \in Nat \ S : n <= m
    BY <1>1, Least
  <1>3. n # 0 /\ n - 1 \in Nat /\ n - 1 \notin S
    BY <1>2, SMTT(60), Z3T(60)
  <1> QED BY <1>2, <1>3, SMTT(60), Z3T(60)

(* The function g repeats the step F, from x on. *)
Repeats(g, F, x) == g = [n \in Nat |-> IF n = 0 THEN x ELSE F[g[n - 1]]]
Repeat(F, x) == CHOOSE g : Repeats(g, F, x)

(* A step repeated n times from x is defined for every n. *)
LEMMA Iteration ==
    ASSUME NEW F, NEW x, NEW T, x \in T, \A s \in T : F[s] \in T
    PROVE  \E g \in [Nat -> T] : Repeats(g, F, x)
  <1> DEFINE Runs(n) == {g \in [0 .. n -> T] : g[0] = x /\ \A k \in 1 .. n : g[k] = F[g[k - 1]]}
  <1>1. \A n \in Nat : Runs(n) # {}
    <2> DEFINE N == {n \in Nat : Runs(n) # {}}
    <2>1. 0 \in N
      <3>1. [k \in 0 .. 0 |-> x] \in Runs(0)
        BY SMTT(60), Z3T(60)
      <3> QED BY <3>1
    <2>2. ASSUME NEW n \in N PROVE n + 1 \in N
      <3>1. PICK g : g \in Runs(n)
        OBVIOUS
      <3> DEFINE r == [k \in 0 .. n + 1 |-> IF k <= n THEN g[k] ELSE F[g[n]]]
      <3>2. g \in [0 .. n -> T] /\ g[0] = x /\ \A k \in 1 .. n : g[k] = F[g[k - 1]]
        BY <3>1
      <3>3. r \in [0 .. n + 1 -> T]
        BY <3>2, SMTT(60), Z3T(60)
      <3>4. r[0] = x /\ \A k \in 1 .. n + 1 : r[k] = F[r[k - 1]]
        BY <3>2, SMTT(60), Z3T(60)
      <3>5. r \in Runs(n + 1)
        BY <3>3, <3>4
      <3> HIDE DEF r, Runs
      <3>6. n + 1 \in Nat /\ Runs(n + 1) # {}
        BY <3>5, SMTT(60), Z3T(60)
      <3> QED BY <3>6
    <2> HIDE DEF N
    <2>3. N = Nat
      BY <2>1, <2>2, SetInduction DEF N
    <2> QED BY <2>3 DEF N
  <1>2. ASSUME NEW m \in Nat, NEW n \in Nat, NEW g \in Runs(m), NEW h \in Runs(n)
        PROVE  \A k \in Nat : k <= m /\ k <= n => g[k] = h[k]
    <2> DEFINE K == {k \in Nat : k <= m /\ k <= n => g[k] = h[k]}
    <2>1. 0 \in K
      OBVIOUS
    <2>2. ASSUME NEW k \in K PROVE k + 1 \in K
      <3>1. k \in Nat /\ k + 1 \in Nat /\ (k + 1) - 1 = k
        BY SMTT(60), Z3T(60)
      <3>2. ASSUME k + 1 <= m, k + 1 <= n PROVE g[k + 1] = h[k + 1]
        <4>1. k <= m /\ k <= n /\ k + 1 \in 1 .. m /\ k + 1 \in 1 .. n
          BY <3>1, <3>2, SMTT(60), Z3T(60)
        <4>2. g[k] = h[k]
          BY <4>1
        <4>3. g[k + 1] = F[g[(k + 1) - 1]] /\ h[k + 1] = F[h[(k + 1) - 1]]
          BY <4>1
        <4> QED BY <3>1, <4>2, <4>3
      <3> QED BY <3>1, <3>2
    <2>3. K = Nat
      BY <2>1, <2>2, SetInduction
    <2> QED BY <2>3
  <1> DEFINE r(n) == CHOOSE g : g \in Runs(n)
             G == [n \in Nat |-> r(n)[n]]
  <1>3. \A n \in Nat : r(n) \in Runs(n)
    BY <1>1
  <1> HIDE DEF r
  <1>4. \A n \in Nat : r(n) \in [0 .. n -> T] /\ r(n)[0] = x /\ \A k \in 1 .. n : r(n)[k] = F[r(n)[k - 1]]
    BY <1>3
  <1>5. G \in [Nat -> T]
    BY <1>4, SMTT(60), Z3T(60)
  <1>6. ASSUME NEW n \in Nat \ {0} PROVE r(n)[n - 1] = r(n - 1)[n - 1]
    <2> HIDE DEF Runs
    <2>1. /\ n \in Nat /\ n - 1 \in Nat /\ n - 1 <= n /\ n - 1 <= n - 1
          /\ r(n) \in Runs(n) /\ r(n - 1) \in Runs(n - 1)
      BY <1>3, SMTT(60), Z3T(60)
    <2> QED BY <2>1, <1>2
  <1>7. \A n \in Nat : G[n] = IF n = 0 THEN x ELSE F[G[n - 1]]
    <2> SUFFICES ASSUME NEW n \in Nat PROVE G[n] = IF n = 0 THEN x ELSE F[G[n - 1]]
      OBVIOUS
    <2>1. CASE n = 0
      BY <1>4, <2>1
    <2>2. CASE n # 0
      <3>1. n \in Nat \ {0} /\ n - 1 \in Nat /\ n \in 1 .. n
        BY <2>2, SMTT(60), Z3T(60)
      <3>2. r(n)[n] = F[r(n)[n - 1]] /\ r(n)[n - 1] = r(n - 1)[n - 1]
        BY <1>4, <1>6, <3>1
      <3> QED BY <2>2, <3>1, <3>2
    <2> QED BY <2>1, <2>2
  <1> HIDE DEF G
  <1>8. G = [n \in Nat |-> IF n = 0 THEN x ELSE F[G[n - 1]]]
    BY <1>5, <1>7
  <1> QED BY <1>5, <1>8 DEF Repeats

(* What the recursive function of such a step is. *)
LEMMA Iterated ==
    ASSUME NEW F, NEW x, NEW T, x \in T, \A s \in T : F[s] \in T
    PROVE  /\ Repeat(F, x)[0] = x
           /\ \A n \in Nat : Repeat(F, x)[n] \in T
           /\ \A n \in Nat : Repeat(F, x)[n + 1] = F[Repeat(F, x)[n]]
  <1>1. \E g \in [Nat -> T] : Repeats(g, F, x)
    BY Iteration
  <1> DEFINE a == Repeat(F, x)
  <1>2. Repeats(a, F, x)
    BY <1>1 DEF Repeat
  <1> HIDE DEF a
  <1>3. a[0] = x /\ \A n \in Nat : a[n + 1] = F[a[n]]
    <2>1. \A n \in Nat : a[n] = IF n = 0 THEN x ELSE F[a[n - 1]]
      BY <1>2 DEF Repeats
    <2>2. \A n \in Nat : n + 1 \in Nat /\ n + 1 # 0 /\ (n + 1) - 1 = n
      BY SMTT(60), Z3T(60)
    <2> QED BY <2>1, <2>2
  <1> DEFINE N == {n \in Nat : a[n] \in T}
  <1>4. N = Nat
    <2>1. 0 \in N /\ \A n \in N : n + 1 \in N
      BY <1>3, SMTT(60), Z3T(60)
    <2> QED BY <2>1, SetInduction
  <1> QED BY <1>3, <1>4 DEF a

(* The element that goes up does as many steps as its index. *)
LEMMA UpIs ==
    ASSUME NEW s
    PROVE  Up(s) = Repeat(UpStep, s)[s.i].h
  BY DEF Up, Repeat, Repeats

(* The element that goes down does as many steps as there are elements. *)
LEMMA DownIs ==
    ASSUME NEW s
    PROVE  Down(s) = Repeat(DownStep, s)[Len(s.h)]
  BY DEF Down, Repeat, Repeats

-----------------------------------------------------------------------------
(* The order of the events *)

(* No two elements have the same number. *)
Distinct(h) == \A i, k \in 1 .. Len(h) : h[i].num = h[k].num => i = k

Timed(h) == \A i \in 1 .. Len(h) : h[i].ts # NoTs

(* The comparison of events that have a timestamp: by timestamp, and of    *)
(* equal ones the number decides.                                          *)
LEMMA LessTimed ==
    ASSUME NEW a \in Elem, NEW b \in Elem, a.ts # NoTs, b.ts # NoTs
    PROVE  Less(a, b) <=> b.ts < a.ts \/ (b.ts = a.ts /\ b.num <= a.num)
  <1>1. a.ts \in Int /\ b.ts \in Int /\ a.num \in Int /\ b.num \in Int
    BY AsyncAssumption, SMTT(60), Z3T(60) DEF Elem, NoTs
  <1>2. state_evts_less(a, b) <=> b.ts < a.ts
    BY <1>1, SMTT(60), Z3T(60) DEF state_evts_less, compare_evt_timestamps
  <1>3. state_evts_less(b, a) <=> a.ts < b.ts
    BY <1>1, SMTT(60), Z3T(60) DEF state_evts_less, compare_evt_timestamps
  <1>4. state_evts_less(a, b) \in BOOLEAN /\ state_evts_less(b, a) \in BOOLEAN
    BY DEF state_evts_less
  <1>5. CASE b.ts < a.ts
    BY <1>1, <1>2, <1>3, <1>4, <1>5, SMTT(60), Z3T(60) DEF Less
  <1>6. CASE a.ts < b.ts
    BY <1>1, <1>2, <1>3, <1>4, <1>6, SMTT(60), Z3T(60) DEF Less
  <1>7. CASE a.ts = b.ts
    BY <1>1, <1>2, <1>3, <1>4, <1>7, SMTT(60), Z3T(60) DEF Less
  <1> QED BY <1>1, <1>5, <1>6, <1>7, SMTT(60), Z3T(60)

(* It is a total order. *)
LEMMA LessOrder ==
    ASSUME NEW a \in Elem, NEW b \in Elem, NEW c \in Elem,
           a.ts # NoTs, b.ts # NoTs, c.ts # NoTs
    PROVE  /\ a.num # b.num /\ Less(a, b) => ~Less(b, a)
           /\ ~Less(a, b) => Less(b, a)
           /\ ~Less(a, b) /\ ~Less(b, c) => ~Less(a, c)
  <1>1. /\ a.ts \in Int /\ b.ts \in Int /\ c.ts \in Int
        /\ a.num \in Int /\ b.num \in Int /\ c.num \in Int
    BY AsyncAssumption, SMTT(60), Z3T(60) DEF Elem, NoTs
  <1>2. Less(a, b) <=> b.ts < a.ts \/ (b.ts = a.ts /\ b.num <= a.num)
    BY LessTimed
  <1>3. Less(b, a) <=> a.ts < b.ts \/ (b.ts = a.ts /\ a.num <= b.num)
    BY LessTimed
  <1>4. Less(b, c) <=> c.ts < b.ts \/ (c.ts = b.ts /\ c.num <= b.num)
    BY LessTimed
  <1>5. Less(a, c) <=> c.ts < a.ts \/ (c.ts = a.ts /\ c.num <= a.num)
    BY LessTimed
  <1> QED BY <1>1, <1>2, <1>3, <1>4, <1>5, SMTT(60), Z3T(60)

-----------------------------------------------------------------------------
(* Moving an element through the heap *)

(* g has the elements of h, in another order. *)
Same(g, h) ==
    /\ g \in Seq(Elem) /\ Len(g) = Len(h) /\ Range(g) = Range(h)
    /\ Distinct(h) => Distinct(g)

(* The members of a sequence are what stands at its indices. *)
LEMMA InRange ==
    ASSUME NEW S, NEW h \in Seq(S)
    PROVE  \A e : e \in Range(h) <=> \E i \in 1 .. Len(h) : h[i] = e
  BY LenProperties DEF Range

(* A swap of two places keeps the elements. *)
LEMMA SwapSame ==
    ASSUME NEW h \in Seq(Elem), NEW i \in 1 .. Len(h), NEW k \in 1 .. Len(h)
    PROVE  /\ Same(Swap(h, i, k), h)
           /\ \A j \in 1 .. Len(h) :
                 Swap(h, i, k)[j] = IF j = k THEN h[i] ELSE IF j = i THEN h[k] ELSE h[j]
  <1> DEFINE g == [h EXCEPT ![i] = h[k]]
  <1>1. h[i] \in Elem /\ h[k] \in Elem /\ Len(h) \in Nat
    BY ElementOfSeq, LenProperties
  <1>2. /\ g \in Seq(Elem) /\ Len(g) = Len(h)
        /\ \A j \in 1 .. Len(h) : g[j] = IF j = i THEN h[k] ELSE h[j]
    BY <1>1, ExceptSeq, SMTT(60), Z3T(60)
  <1>3. Swap(h, i, k) = [g EXCEPT ![k] = h[i]]
    BY DEF Swap
  <1> HIDE DEF g
  <1> DEFINE w == [g EXCEPT ![k] = h[i]]
  <1>4. /\ w \in Seq(Elem) /\ Len(w) = Len(h)
        /\ \A j \in 1 .. Len(h) : w[j] = IF j = k THEN h[i] ELSE g[j]
    BY <1>1, <1>2, ExceptSeq, SMTT(60), Z3T(60)
  <1> HIDE DEF w
  <1>5. \A j \in 1 .. Len(h) : w[j] = IF j = k THEN h[i] ELSE IF j = i THEN h[k] ELSE h[j]
    BY <1>2, <1>4
  <1>6. Range(w) = Range(h)
    <2>1. ASSUME NEW e, e \in Range(w) PROVE e \in Range(h)
      <3>1. PICK j \in 1 .. Len(h) : w[j] = e
        BY <1>4, <2>1, InRange, SMTT(60), Z3T(60)
      <3>2. \E l \in 1 .. Len(h) : h[l] = e
        BY <1>5, <3>1
      <3> QED BY <3>2, InRange
    <2>2. ASSUME NEW e, e \in Range(h) PROVE e \in Range(w)
      <3>1. PICK j \in 1 .. Len(h) : h[j] = e
        BY <2>2, InRange
      <3>2. \E l \in 1 .. Len(h) : w[l] = e
        BY <1>5, <3>1
      <3> QED BY <1>4, <3>2, InRange
    <2> QED BY <2>1, <2>2
  <1>7. ASSUME Distinct(h) PROVE Distinct(w)
    BY <1>1, <1>4, <1>5, <1>7 DEF Distinct
  <1> QED BY <1>3, <1>4, <1>5, <1>6, <1>7 DEF Same, w

(* To have the same elements is transitive. *)
LEMMA SameTrans ==
    ASSUME NEW f, NEW g, NEW h, Same(f, g), Same(g, h)
    PROVE  Same(f, h)
  BY DEF Same

(* What has the same elements has a timestamp at each. *)
LEMMA SameTimed ==
    ASSUME NEW h \in Seq(Elem), NEW g, Same(g, h), Timed(h)
    PROVE  Timed(g)
  <1>1. ASSUME NEW i \in 1 .. Len(g) PROVE g[i].ts # NoTs
    <2>1. g[i] \in Range(h)
      BY InRange DEF Same
    <2>2. PICK k \in 1 .. Len(h) : h[k] = g[i]
      BY <2>1, InRange
    <2> QED BY <2>2 DEF Timed
  <1> QED BY <1>1 DEF Timed

(* Every element comes after its parent. *)
Ordered(h) == \A k \in 2 .. Len(h) : ~Less(h[k \div 2], h[k])

Placed(s) == s \in Sift /\ s.i \in 1 .. Len(s.h)

(* The element on its way up is where it belongs. *)
Settled(s) == ~(s.i > 1 /\ Less(s.h[s.i \div 2], s.h[s.i]))

(* All but the element on its way up are in order. *)
UpReady(s) ==
    /\ \A k \in 2 .. Len(s.h) : k # s.i => ~Less(s.h[k \div 2], s.h[k])
    /\ s.i > 1 => \A k \in 2 .. Len(s.h) : k \div 2 = s.i => ~Less(s.h[s.i \div 2], s.h[k])

(* The two children of a place. *)
LEMMA Halves ==
    ASSUME NEW k \in Nat
    PROVE  k \in {2 * (k \div 2), 2 * (k \div 2) + 1}
  <1>1. k \div 2 \in Nat
    BY SMTT(60), Z3T(60)
  <1> QED BY <1>1, SMTT(60), Z3T(60)

(* What one step of UpStep does. *)
LEMMA UpStepDoes ==
    ASSUME NEW s, Placed(s)
    PROVE  /\ Placed(UpStep[s]) /\ Same(UpStep[s].h, s.h)
           /\ Settled(s) => UpStep[s] = s
           /\ ~Settled(s) =>
                 /\ UpStep[s].i = s.i \div 2 /\ UpStep[s].i < s.i
                 /\ UpStep[s].h = Swap(s.h, s.i \div 2, s.i)
  <1>1. s.h \in Seq(Elem) /\ s.i \in 1 .. Len(s.h) /\ Len(s.h) \in Nat /\ s \in Sift
    BY LenProperties DEF Placed, Sift
  <1>2. UpStep[s] = IF Settled(s) THEN s ELSE [h |-> Swap(s.h, s.i \div 2, s.i), i |-> s.i \div 2]
    BY <1>1 DEF UpStep, Settled
  <1>3. CASE Settled(s)
    BY <1>1, <1>2, <1>3 DEF Same
  <1>4. CASE ~Settled(s)
    <2>1. s.i \div 2 \in 1 .. Len(s.h) /\ s.i \div 2 < s.i
      BY <1>1, <1>4, SMTT(60), Z3T(60) DEF Settled
    <2>2. Same(Swap(s.h, s.i \div 2, s.i), s.h)
      BY <1>1, <2>1, SwapSame, SMTT(60), Z3T(60)
    <2>3. /\ UpStep[s].h = Swap(s.h, s.i \div 2, s.i) /\ UpStep[s].i = s.i \div 2
          /\ UpStep[s] = [h |-> Swap(s.h, s.i \div 2, s.i), i |-> s.i \div 2]
      BY <1>2, <1>4, SMTT(60), Z3T(60)
    <2>4. Swap(s.h, s.i \div 2, s.i) \in Seq(Elem) /\ Len(Swap(s.h, s.i \div 2, s.i)) = Len(s.h)
      BY <2>2 DEF Same
    <2>5. Placed(UpStep[s])
      BY <1>1, <2>1, <2>3, <2>4, SMTT(60), Z3T(60) DEF Placed, Sift
    <2> QED BY <1>4, <2>1, <2>2, <2>3, <2>5
  <1> QED BY <1>3, <1>4

(* A step up keeps the rest in order. *)
LEMMA UpStepReady ==
    ASSUME NEW s, Placed(s), Timed(s.h), Distinct(s.h), UpReady(s)
    PROVE  UpReady(UpStep[s])
  <1>1. CASE Settled(s)
    BY <1>1, UpStepDoes
  <1>2. CASE ~Settled(s)
    <2> DEFINE h == s.h
               i == s.i
               p == s.i \div 2
               w == UpStep[s].h
    <2>1. /\ h \in Seq(Elem) /\ i \in 2 .. Len(h) /\ Len(h) \in Nat
          /\ p \in 1 .. Len(h) /\ p < i /\ p = i \div 2 /\ Less(h[p], h[i])
      BY <1>2, LenProperties, SMTT(60), Z3T(60) DEF Placed, Sift, Settled
    <2>2. UpStep[s].i = p /\ w = Swap(h, p, i)
      BY <1>2, UpStepDoes
    <2>3. /\ Len(w) = Len(h)
          /\ \A j \in 1 .. Len(h) : w[j] = IF j = i THEN h[p] ELSE IF j = p THEN h[i] ELSE h[j]
      <3> HIDE DEF h, i, p, w
      <3>1. i \in 1 .. Len(h)
        BY <2>1, SMTT(60), Z3T(60)
      <3>2. /\ Same(w, h)
            /\ \A j \in 1 .. Len(h) : w[j] = IF j = i THEN h[p] ELSE IF j = p THEN h[i] ELSE h[j]
        BY <2>1, <2>2, <3>1, SwapSame, SMTT(60), Z3T(60)
      <3> QED BY <3>2 DEF Same
    <2>4. \A k \in 1 .. Len(h) : h[k] \in Elem /\ h[k].ts # NoTs
      BY <2>1, ElementOfSeq DEF Timed
    <2>5. h[p].num # h[i].num
      BY <2>1, SMTT(60), Z3T(60) DEF Distinct
    <2>6. ~Less(h[i], h[p])
      <3> HIDE DEF h, i, p, w
      <3>1. i \in 1 .. Len(h)
        BY <2>1, SMTT(60), Z3T(60)
      <3>2. h[p] \in Elem /\ h[i] \in Elem /\ h[p].ts # NoTs /\ h[i].ts # NoTs
        BY <2>1, <2>4, <3>1
      <3>3. Less(h[p], h[i]) => ~Less(h[i], h[p])
        BY <2>5, <3>2, LessOrder, SMTT(60), Z3T(60)
      <3> QED BY <2>1, <3>3
    <2>7. /\ \A k \in 2 .. Len(h) : k # i => ~Less(h[k \div 2], h[k])
          /\ \A k \in 2 .. Len(h) : k \div 2 = i => ~Less(h[p], h[k])
      BY <2>1, SMTT(60), Z3T(60) DEF UpReady
    <2> HIDE DEF h, i, p, w
    <2>8. ASSUME NEW k \in 2 .. Len(h), k # p PROVE ~Less(w[k \div 2], w[k])
      <3>0. k \div 2 \in 1 .. Len(h) /\ k \div 2 < k
        BY <2>1, SMTT(60), Z3T(60)
      <3>1. CASE k = i
        BY <2>1, <2>3, <2>6, <3>1, SMTT(60), Z3T(60)
      <3>2. CASE k # i /\ k \div 2 = i
        BY <2>1, <2>3, <2>7, <2>8, <3>0, <3>2, SMTT(60), Z3T(60)
      <3>3. CASE k # i /\ k \div 2 = p
        <4>1. ~Less(h[p], h[k])
          BY <2>7, <3>3
        <4>2. ~Less(h[i], h[k])
          BY <2>1, <2>4, <2>6, <4>1, LessOrder, SMTT(60), Z3T(60)
        <4> QED BY <2>1, <2>3, <2>8, <3>0, <3>3, <4>2, SMTT(60), Z3T(60)
      <3>4. CASE k # i /\ k \div 2 # i /\ k \div 2 # p
        BY <2>1, <2>3, <2>7, <2>8, <3>0, <3>4, SMTT(60), Z3T(60)
      <3> QED BY <3>1, <3>2, <3>3, <3>4
    <2>9. ASSUME p > 1, NEW k \in 2 .. Len(h), k \div 2 = p PROVE ~Less(w[p \div 2], w[k])
      <3>1. p \div 2 \in 1 .. Len(h) /\ p \div 2 < p /\ p # i /\ p \in 2 .. Len(h) /\ k # p
        BY <2>1, <2>9, SMTT(60), Z3T(60)
      <3>2. ~Less(h[p \div 2], h[p]) /\ w[p \div 2] = h[p \div 2]
        BY <2>1, <2>3, <2>7, <3>1, SMTT(60), Z3T(60)
      <3>3. CASE k = i
        BY <2>1, <2>3, <3>2, <3>3, SMTT(60), Z3T(60)
      <3>4. CASE k # i
        <4>1. ~Less(h[p], h[k])
          BY <2>7, <2>9, <3>4
        <4>2. ~Less(h[p \div 2], h[k])
          BY <2>1, <2>4, <3>1, <3>2, <4>1, LessOrder, SMTT(60), Z3T(60)
        <4> QED BY <2>1, <2>3, <3>1, <3>2, <3>4, <4>2, SMTT(60), Z3T(60)
      <3> QED BY <3>3, <3>4
    <2> QED BY <2>2, <2>3, <2>8, <2>9 DEF UpReady, w
  <1> QED BY <1>1, <1>2

(* An element that goes up as far as it can leaves the same elements, and, *)
(* if the rest was in order, all of them in order.                         *)
LEMMA UpDoes ==
    ASSUME NEW s, Placed(s)
    PROVE  /\ Same(Up(s), s.h)
           /\ Timed(s.h) /\ Distinct(s.h) /\ UpReady(s) => Ordered(Up(s))
  <1> DEFINE Fine == Timed(s.h) /\ Distinct(s.h) /\ UpReady(s)
             T == {r \in Sift : Placed(r) /\ Same(r.h, s.h) /\ (Fine => UpReady(r))}
             a == Repeat(UpStep, s)
  <1> HIDE DEF Fine, a
  <1>1. s \in T
    <2>1. s \in Sift /\ s.h \in Seq(Elem)
      BY DEF Placed, Sift
    <2> QED BY <2>1 DEF Same, Fine
  <1>2. ASSUME NEW r \in T PROVE UpStep[r] \in T
    <2>1. Placed(UpStep[r]) /\ Same(UpStep[r].h, r.h)
      BY UpStepDoes
    <2>2. Same(UpStep[r].h, s.h)
      BY <2>1, SameTrans
    <2>3. ASSUME Fine PROVE UpReady(UpStep[r])
      <3>1. Timed(s.h) /\ Distinct(s.h) /\ s.h \in Seq(Elem)
        BY <2>3 DEF Fine, Placed, Sift
      <3>2. Timed(r.h) /\ Distinct(r.h)
        BY <3>1, SameTimed DEF Same
      <3> QED BY <2>3, <3>2, UpStepReady
    <2> QED BY <2>1, <2>2, <2>3 DEF Placed
  <1>3. /\ a[0] = s /\ \A n \in Nat : a[n] \in T
        /\ \A n \in Nat : a[n + 1] = UpStep[a[n]]
    <2> HIDE DEF T
    <2>1. \A r \in T : UpStep[r] \in T
      BY <1>2
    <2> QED BY <1>1, <2>1, Iterated, SMTT(60), Z3T(60) DEF a
  <1>4. s.i \in Nat \ {0}
    BY SMTT(60), Z3T(60) DEF Placed
  <1> DEFINE N == {n \in Nat : Settled(a[n]) \/ a[n].i + n <= s.i}
  <1>5. N = Nat
    <2>1. 0 \in N
      BY <1>3, <1>4, SMTT(60), Z3T(60)
    <2>2. ASSUME NEW n \in N PROVE n + 1 \in N
      <3>1. Placed(a[n]) /\ a[n + 1] = UpStep[a[n]]
        BY <1>3
      <3>2. CASE Settled(a[n])
        BY <3>1, <3>2, UpStepDoes, SMTT(60), Z3T(60)
      <3>3. CASE ~Settled(a[n])
        <4>1. a[n + 1].i < a[n].i /\ Placed(a[n + 1])
          BY <3>1, <3>3, UpStepDoes
        <4>2. a[n].i \in Nat /\ a[n + 1].i \in Nat
          BY <3>1, <4>1, SMTT(60), Z3T(60) DEF Placed
        <4> QED BY <1>4, <3>3, <4>1, <4>2, SMTT(60), Z3T(60)
      <3> QED BY <3>2, <3>3
    <2> HIDE DEF N
    <2>3. N \in SUBSET Nat
      BY DEF N
    <2> QED BY <2>1, <2>2, <2>3, SetInduction
  <1>6. Placed(a[s.i]) /\ Same(a[s.i].h, s.h) /\ (Fine => UpReady(a[s.i]))
    BY <1>3, <1>4
  <1>7. Settled(a[s.i])
    <2>1. Settled(a[s.i]) \/ a[s.i].i + s.i <= s.i
      BY <1>4, <1>5
    <2>2. a[s.i].i \in Nat \ {0}
      BY <1>6, SMTT(60), Z3T(60) DEF Placed
    <2> QED BY <1>4, <2>1, <2>2, SMTT(60), Z3T(60)
  <1>8. ASSUME NEW r, Placed(r), Settled(r), UpReady(r) PROVE Ordered(r.h)
    <2> SUFFICES ASSUME NEW k \in 2 .. Len(r.h) PROVE ~Less(r.h[k \div 2], r.h[k])
      BY DEF Ordered
    <2>1. CASE k = r.i
      <3>1. r.i > 1
        BY <2>1, SMTT(60), Z3T(60)
      <3> QED BY <1>8, <2>1, <3>1 DEF Settled
    <2>2. CASE k # r.i
      BY <1>8, <2>2 DEF UpReady
    <2> QED BY <2>1, <2>2
  <1>9. Up(s) = a[s.i].h
    BY UpIs DEF a
  <1> QED BY <1>6, <1>7, <1>8, <1>9 DEF Fine

Leaf(s) == 2 * s.i > Len(s.h)

(* All but the element on its way down, its parent and its children are in *)
(* order, and its children come after its parent.                          *)
DownReady(s) ==
    /\ \A k \in 2 .. Len(s.h) :
          k # s.i /\ k \div 2 # s.i => ~Less(s.h[k \div 2], s.h[k])
    /\ s.i > 1 => \A k \in 2 .. Len(s.h) : k \div 2 = s.i => ~Less(s.h[s.i \div 2], s.h[k])

(* What one step of DownStep does. *)
LEMMA DownStepDoes ==
    ASSUME NEW s, Placed(s)
    PROVE  /\ Placed(DownStep[s]) /\ Same(DownStep[s].h, s.h)
           /\ Leaf(s) => DownStep[s] = s
           /\ ~Leaf(s) =>
                 /\ GreaterChild(s.h, s.i) \in 2 .. Len(s.h)
                 /\ GreaterChild(s.h, s.i) \div 2 = s.i
                 /\ DownStep[s].i = GreaterChild(s.h, s.i)
                 /\ DownStep[s].h = Swap(s.h, s.i, GreaterChild(s.h, s.i))
  <1> DEFINE c == GreaterChild(s.h, s.i)
  <1>1. s.h \in Seq(Elem) /\ s.i \in 1 .. Len(s.h) /\ Len(s.h) \in Nat /\ s \in Sift
    BY LenProperties DEF Placed, Sift
  <1>2. CASE Leaf(s)
    <2>1. ~(2 * s.i <= Len(s.h))
      BY <1>1, <1>2, SMTT(60), Z3T(60) DEF Leaf
    <2>2. DownStep[s] = s
      BY <1>1, <2>1 DEF DownStep
    <2> QED BY <1>1, <1>2, <2>2 DEF Same
  <1>3. CASE ~Leaf(s)
    <2>1. 2 * s.i <= Len(s.h)
      BY <1>1, <1>3, SMTT(60), Z3T(60) DEF Leaf
    <2>2. DownStep[s] = [h |-> Swap(s.h, s.i, c), i |-> c]
      BY <1>1, <2>1 DEF DownStep
    <2>3. c \in 2 .. Len(s.h) /\ c \div 2 = s.i
      <3>1. c = 2 * s.i \/ (c = 2 * s.i + 1 /\ c <= Len(s.h))
        BY DEF GreaterChild
      <3> HIDE DEF c
      <3>2. (2 * s.i) \div 2 = s.i /\ (2 * s.i + 1) \div 2 = s.i
        BY <1>1, SMTT(60), Z3T(60)
      <3>3. c \div 2 = s.i
        BY <3>1, <3>2
      <3>4. 2 * s.i \in 2 .. Len(s.h)
        BY <1>1, <2>1, SMTT(60), Z3T(60)
      <3>5. c \in 2 .. Len(s.h)
        BY <1>1, <3>1, <3>4, SMTT(60), Z3T(60)
      <3> QED BY <3>3, <3>5
    <2> HIDE DEF c
    <2>4. c \in 1 .. Len(s.h)
      BY <2>3, SMTT(60), Z3T(60)
    <2>5. Same(Swap(s.h, s.i, c), s.h)
      BY <1>1, <2>4, SwapSame
    <2>6. Swap(s.h, s.i, c) \in Seq(Elem) /\ Len(Swap(s.h, s.i, c)) = Len(s.h)
      BY <2>5 DEF Same
    <2>7. Placed(DownStep[s])
      BY <2>2, <2>4, <2>6, SMTT(60), Z3T(60) DEF Placed, Sift
    <2> QED BY <1>3, <2>2, <2>3, <2>5, <2>7, SMTT(60), Z3T(60) DEF c
  <1> QED BY <1>2, <1>3

(* A step down keeps the rest in order. *)
LEMMA DownStepReady ==
    ASSUME NEW s, Placed(s), Timed(s.h), Distinct(s.h), DownReady(s)
    PROVE  DownReady(DownStep[s])
  <1>1. CASE Leaf(s)
    BY <1>1, DownStepDoes
  <1>2. CASE ~Leaf(s)
    <2> DEFINE h == s.h
               i == s.i
               c == GreaterChild(s.h, s.i)
               w == DownStep[s].h
    <2>1. /\ h \in Seq(Elem) /\ i \in 1 .. Len(h) /\ Len(h) \in Nat
          /\ c \in 2 .. Len(h) /\ c \div 2 = i
      BY <1>2, LenProperties, DownStepDoes DEF Placed, Sift
    <2>2. DownStep[s].i = c /\ w = Swap(h, i, c)
      BY <1>2, DownStepDoes
    <2>3. /\ Len(w) = Len(h)
          /\ \A j \in 1 .. Len(h) : w[j] = IF j = c THEN h[i] ELSE IF j = i THEN h[c] ELSE h[j]
      <3> HIDE DEF h, i, c, w
      <3>1. c \in 1 .. Len(h)
        BY <2>1, SMTT(60), Z3T(60)
      <3>2. /\ Same(w, h)
            /\ \A j \in 1 .. Len(h) : w[j] = IF j = c THEN h[i] ELSE IF j = i THEN h[c] ELSE h[j]
        BY <2>1, <2>2, <3>1, SwapSame, SMTT(60), Z3T(60)
      <3> QED BY <3>2 DEF Same
    <2>4. \A k \in 1 .. Len(h) : h[k] \in Elem /\ h[k].ts # NoTs
      BY <2>1, ElementOfSeq DEF Timed
    <2>5. ASSUME NEW k \in 2 .. Len(h), k \div 2 = i, k # c PROVE ~Less(h[c], h[k])
      <3>1. k \in {2 * i, 2 * i + 1}
        <4>1. k \in Nat
          BY <2>1, SMTT(60), Z3T(60)
        <4> QED BY <2>5, <4>1, Halves
      <3>2. CASE c = 2 * i + 1
        <4>1. 2 * i + 1 <= Len(h) /\ ~Less(h[2 * i + 1], h[2 * i])
          BY <2>1, <3>2, SMTT(60), Z3T(60) DEF GreaterChild
        <4> HIDE DEF c, h, i
        <4> QED BY <2>5, <3>1, <3>2, <4>1
      <3>3. CASE c # 2 * i + 1
        <4>1. c = 2 * i /\ ~(2 * i + 1 <= Len(h) /\ ~Less(h[2 * i + 1], h[2 * i]))
          BY <3>3 DEF GreaterChild
        <4>2. k = 2 * i + 1
          BY <2>5, <3>1, <4>1
        <4>3. Less(h[k], h[c])
          BY <2>5, <4>1, <4>2, SMTT(60), Z3T(60)
        <4> HIDE DEF c, h, i
        <4>4. c \in 1 .. Len(h) /\ k \in 1 .. Len(h)
          BY <2>1, SMTT(60), Z3T(60)
        <4>5. h[k].num # h[c].num
          BY <2>5, <4>4 DEF Distinct, h
        <4> QED BY <2>4, <4>3, <4>4, <4>5, LessOrder
      <3> QED BY <3>2, <3>3
    <2>6. /\ \A k \in 2 .. Len(h) : k # i /\ k \div 2 # i => ~Less(h[k \div 2], h[k])
          /\ i > 1 => \A k \in 2 .. Len(h) : k \div 2 = i => ~Less(h[i \div 2], h[k])
      BY DEF DownReady
    <2> HIDE DEF h, i, c, w
    <2>7. ASSUME NEW k \in 2 .. Len(h), k # c, k \div 2 # c PROVE ~Less(w[k \div 2], w[k])
      <3>0. k \div 2 \in 1 .. Len(h) /\ k \div 2 < k
        BY <2>1, SMTT(60), Z3T(60)
      <3>1. CASE k = i
        <4>1. c # i /\ i > 1 /\ i \div 2 # i /\ i \div 2 # c /\ i \in 1 .. Len(h)
          BY <2>1, <3>1, SMTT(60), Z3T(60)
        <4>2. ~Less(h[i \div 2], h[c])
          BY <2>1, <2>6, <4>1
        <4> QED BY <2>3, <3>0, <3>1, <4>1, <4>2
      <3>2. CASE k # i /\ k \div 2 = i
        BY <2>1, <2>3, <2>5, <2>7, <3>0, <3>2, SMTT(60), Z3T(60)
      <3>3. CASE k # i /\ k \div 2 # i
        BY <2>1, <2>3, <2>6, <2>7, <3>0, <3>3, SMTT(60), Z3T(60)
      <3> QED BY <3>1, <3>2, <3>3
    <2>8. ASSUME NEW k \in 2 .. Len(h), k \div 2 = c PROVE ~Less(w[c \div 2], w[k])
      <3>1. k # i /\ k # c /\ k \div 2 # i /\ c # i /\ i \in 1 .. Len(h) /\ k \in 1 .. Len(h)
        BY <2>1, <2>8, SMTT(60), Z3T(60)
      <3>2. ~Less(h[c], h[k])
        BY <2>6, <2>8, <3>1
      <3> QED BY <2>1, <2>3, <3>1, <3>2
    <2> QED BY <2>2, <2>3, <2>7, <2>8 DEF DownReady, w
  <1> QED BY <1>1, <1>2

(* An element that goes down ends in a leaf, among the same elements; if   *)
(* the rest was in order it still is.                                      *)
LEMMA DownDoes ==
    ASSUME NEW s, Placed(s)
    PROVE  /\ Placed(Down(s)) /\ Same(Down(s).h, s.h)
           /\ Timed(s.h) /\ Distinct(s.h) /\ DownReady(s) => UpReady(Down(s))
  <1> DEFINE Fine == Timed(s.h) /\ Distinct(s.h) /\ DownReady(s)
             T == {r \in Sift : Placed(r) /\ Same(r.h, s.h) /\ (Fine => DownReady(r))}
             a == Repeat(DownStep, s)
  <1> HIDE DEF Fine, a
  <1>0. s \in Sift /\ s.h \in Seq(Elem) /\ s.i \in 1 .. Len(s.h) /\ Len(s.h) \in Nat
    BY LenProperties DEF Placed, Sift
  <1>1. s \in T
    BY <1>0 DEF Same, Fine
  <1>2. ASSUME NEW r \in T PROVE DownStep[r] \in T
    <2>1. Placed(DownStep[r]) /\ Same(DownStep[r].h, r.h)
      BY DownStepDoes
    <2>2. Same(DownStep[r].h, s.h)
      BY <2>1, SameTrans
    <2>3. ASSUME Fine PROVE DownReady(DownStep[r])
      <3>1. Timed(s.h) /\ Distinct(s.h)
        BY <2>3 DEF Fine
      <3>2. Timed(r.h) /\ Distinct(r.h)
        BY <1>0, <3>1, SameTimed DEF Same
      <3> QED BY <2>3, <3>2, DownStepReady
    <2> QED BY <2>1, <2>2, <2>3 DEF Placed
  <1>3. /\ a[0] = s /\ \A n \in Nat : a[n] \in T
        /\ \A n \in Nat : a[n + 1] = DownStep[a[n]]
    <2> HIDE DEF T
    <2>1. \A r \in T : DownStep[r] \in T
      BY <1>2
    <2> QED BY <1>1, <2>1, Iterated, SMTT(60), Z3T(60) DEF a
  <1> DEFINE N == {n \in Nat : Leaf(a[n]) \/ a[n].i > n}
  <1>4. N = Nat
    <2>1. 0 \in N
      <3>1. a[0] = s
        BY <1>3
      <3>2. s.i > 0
        BY <1>0, SMTT(60), Z3T(60)
      <3> QED BY <3>1, <3>2
    <2>2. ASSUME NEW n \in N PROVE n + 1 \in N
      <3>1. Placed(a[n]) /\ a[n + 1] = DownStep[a[n]]
        BY <1>3
      <3>2. CASE Leaf(a[n])
        BY <3>1, <3>2, DownStepDoes, SMTT(60), Z3T(60)
      <3>3. CASE ~Leaf(a[n])
        <4>1. a[n + 1].i \div 2 = a[n].i /\ Placed(a[n + 1])
          BY <3>1, <3>3, DownStepDoes
        <4>2. a[n].i \in Nat \ {0} /\ a[n + 1].i \in Nat
          BY <3>1, <4>1, SMTT(60), Z3T(60) DEF Placed
        <4> QED BY <3>3, <4>1, <4>2, SMTT(60), Z3T(60)
      <3> QED BY <3>2, <3>3
    <2> HIDE DEF N
    <2>3. N \in SUBSET Nat
      BY DEF N
    <2> QED BY <2>1, <2>2, <2>3, SetInduction
  <1> DEFINE r == a[Len(s.h)]
  <1>5. Placed(r) /\ Same(r.h, s.h) /\ (Fine => DownReady(r))
    BY <1>0, <1>3
  <1>6. Leaf(r)
    <2>1. Leaf(r) \/ r.i > Len(s.h)
      BY <1>0, <1>4
    <2>2. r.i \in 1 .. Len(s.h)
      BY <1>5 DEF Placed, Same
    <2> QED BY <1>0, <2>1, <2>2, SMTT(60), Z3T(60)
  <1>7. ASSUME NEW q, Placed(q), Leaf(q), DownReady(q) PROVE UpReady(q)
    <2>1. q.i \in 1 .. Len(q.h) /\ Len(q.h) \in Nat /\ 2 * q.i > Len(q.h)
      BY <1>7, LenProperties DEF Placed, Sift, Leaf
    <2>2. \A k \in 2 .. Len(q.h) : k \div 2 # q.i
      BY <2>1, SMTT(60), Z3T(60)
    <2> QED BY <1>7, <2>2 DEF DownReady, UpReady
  <1>8. Down(s) = r
    BY DownIs DEF a
  <1> HIDE DEF r
  <1> QED BY <1>5, <1>6, <1>7, <1>8 DEF Fine

-----------------------------------------------------------------------------
(* The heap *)

(* A push adds its element; in a heap in order, whose elements and the new *)
(* one have a timestamp, it leaves all in order.                           *)
LEMMA HeapPushDoes ==
    ASSUME NEW h \in Seq(Elem), NEW e \in Elem, Distinct(h),
           \A i \in 1 .. Len(h) : h[i].num # e.num
    PROVE  /\ HeapPush(h, e) \in Seq(Elem) /\ Len(HeapPush(h, e)) = Len(h) + 1
           /\ Range(HeapPush(h, e)) = Range(h) \cup {e}
           /\ Distinct(HeapPush(h, e))
           /\ Ordered(h) /\ Timed(h) /\ e.ts # NoTs => Ordered(HeapPush(h, e))
  <1> DEFINE g == Append(h, e)
             s == [h |-> g, i |-> Len(h) + 1]
             w == HeapPush(h, e)
  <1>1. /\ g \in Seq(Elem) /\ Len(g) = Len(h) + 1 /\ Len(h) \in Nat
        /\ \A i \in 1 .. Len(h) : g[i] = h[i]
        /\ g[Len(h) + 1] = e
    BY AppendProperties, LenProperties, SMTT(60), Z3T(60)
  <1> HIDE DEF g
  <1>2. Placed(s)
    BY <1>1, SMTT(60), Z3T(60) DEF Placed, Sift
  <1>3. s.h = g /\ s.i = Len(h) + 1
    OBVIOUS
  <1>4. w = Up(s)
    BY DEF HeapPush, g
  <1> HIDE DEF s, w
  <1>5. Range(g) = Range(h) \cup {e}
    <2>1. ASSUME NEW x, x \in Range(g) PROVE x \in Range(h) \cup {e}
      <3>1. PICK i \in 1 .. Len(g) : g[i] = x
        BY <1>1, <2>1, InRange, SMTT(60), Z3T(60)
      <3>2. x = e \/ \E k \in 1 .. Len(h) : h[k] = x
        BY <1>1, <3>1, SMTT(60), Z3T(60)
      <3> QED BY <3>2, InRange
    <2>2. ASSUME NEW x, x \in Range(h) \cup {e} PROVE x \in Range(g)
      <3>1. x = e \/ \E k \in 1 .. Len(h) : h[k] = x
        BY <2>2, InRange
      <3>2. \E i \in 1 .. Len(g) : g[i] = x
        BY <1>1, <3>1, SMTT(60), Z3T(60)
      <3> QED BY <1>1, <3>2, InRange
    <2> QED BY <2>1, <2>2
  <1>6. Distinct(g)
    <2> SUFFICES ASSUME NEW i \in 1 .. Len(g), NEW k \in 1 .. Len(g), g[i].num = g[k].num
                 PROVE  i = k
      BY DEF Distinct
    <2>1. (i \in 1 .. Len(h) \/ i = Len(h) + 1) /\ (k \in 1 .. Len(h) \/ k = Len(h) + 1)
      BY <1>1, SMTT(60), Z3T(60)
    <2> QED BY <1>1, <2>1 DEF Distinct
  <1>7. Same(w, g)
    BY <1>2, <1>3, <1>4, UpDoes
  <1>8. ASSUME Ordered(h), Timed(h), e.ts # NoTs PROVE Ordered(w)
    <2>1. Timed(g)
      <3> SUFFICES ASSUME NEW i \in 1 .. Len(g) PROVE g[i].ts # NoTs
        BY DEF Timed
      <3>1. i \in 1 .. Len(h) \/ i = Len(h) + 1
        BY <1>1, SMTT(60), Z3T(60)
      <3> QED BY <1>1, <1>8, <3>1 DEF Timed
    <2>2. UpReady(s)
      <3>1. ASSUME NEW k \in 2 .. Len(g), k # Len(h) + 1 PROVE ~Less(g[k \div 2], g[k])
        <4>1. k \in 2 .. Len(h) /\ k \in 1 .. Len(h) /\ k \div 2 \in 1 .. Len(h)
          BY <1>1, <3>1, SMTT(60), Z3T(60)
        <4>2. g[k] = h[k] /\ g[k \div 2] = h[k \div 2]
          BY <1>1, <4>1
        <4> QED BY <1>8, <4>1, <4>2 DEF Ordered
      <3>2. \A k \in 2 .. Len(g) : k \div 2 # Len(h) + 1
        BY <1>1, SMTT(60), Z3T(60)
      <3> QED BY <1>3, <3>1, <3>2 DEF UpReady
    <2> QED BY <1>2, <1>3, <1>4, <1>6, <2>1, <2>2, UpDoes
  <1> QED BY <1>1, <1>5, <1>6, <1>7, <1>8 DEF Same, w

(* A pop takes the top away, and leaves a heap in order in order. *)
LEMMA HeapPopDoes ==
    ASSUME NEW h \in Seq(Elem), h # <<>>, Distinct(h)
    PROVE  /\ HeapPop(h) \in Seq(Elem) /\ Len(HeapPop(h)) = Len(h) - 1
           /\ Range(HeapPop(h)) = Range(h) \ {h[1]}
           /\ Distinct(HeapPop(h))
           /\ Ordered(h) /\ Timed(h) => Ordered(HeapPop(h))
  <1> DEFINE n == Len(h)
  <1>1. n \in Nat \ {0} /\ \A i \in 1 .. n : h[i] \in Elem
    BY EmptySeq, LenProperties, ElementOfSeq
  <1>2. CASE n = 1
    <2>1. HeapPop(h) = <<>> /\ <<>> \in Seq(Elem) /\ Len(<<>>) = 0
      BY <1>2, SMTT(60), Z3T(60) DEF HeapPop
    <2>2. Range(<<>>) = {}
      BY SMTT(60), Z3T(60) DEF Range
    <2>3. \A x : x \in Range(h) <=> x = h[1]
      BY <1>1, <1>2, InRange, SMTT(60), Z3T(60)
    <2>4. Distinct(<<>>) /\ Ordered(<<>>)
      BY <2>1, SMTT(60), Z3T(60) DEF Distinct, Ordered
    <2> QED BY <1>2, <2>1, <2>2, <2>3, <2>4, SMTT(60), Z3T(60)
  <1>3. CASE n # 1
    <2> DEFINE f == [h EXCEPT ![1] = h[n]]
               g == SubSeq(f, 1, n - 1)
               s == [h |-> g, i |-> 1]
               d == Down(s)
               w == Up(d)
    <2>1. f \in Seq(Elem) /\ Len(f) = n /\ \A i \in 1 .. n : f[i] = IF i = 1 THEN h[n] ELSE h[i]
      <3>1. 1 \in 1 .. Len(h) /\ h[n] \in Elem
        BY <1>1, SMTT(60), Z3T(60)
      <3> QED BY <3>1, ExceptSeq, SMTT(60), Z3T(60)
    <2> HIDE DEF f
    <2>2. /\ g \in Seq(Elem) /\ Len(g) = n - 1
          /\ \A i \in 1 .. n - 1 : g[i] = IF i = 1 THEN h[n] ELSE h[i]
      <3> HIDE DEF n
      <3>1. 1 \in 1 .. n + 1 /\ n - 1 \in 0 .. n /\ n - 1 \in Nat
        BY <1>1, SMTT(60), Z3T(60)
      <3>2. /\ g \in Seq(Elem) /\ Len(g) = n - 1
            /\ \A i \in 1 .. n - 1 : g[i] = f[i]
        BY <1>1, <2>1, <3>1, SMTT(60), Z3T(60)
      <3>3. ASSUME NEW i \in 1 .. n - 1 PROVE g[i] = IF i = 1 THEN h[n] ELSE h[i]
        <4>1. i \in 1 .. n
          BY <1>1, SMTT(60), Z3T(60)
        <4> QED BY <2>1, <3>2, <4>1
      <3> QED BY <3>2, <3>3
    <2>3. HeapPop(h) = w
      BY <1>3 DEF HeapPop, f
    <2> HIDE DEF g, n
    <2>4. s.h = g /\ s.i = 1 /\ Placed(s)
      BY <1>1, <1>3, <2>2, SMTT(60), Z3T(60) DEF Placed, Sift
    <2> HIDE DEF s
    <2>5. Distinct(g)
      <3> SUFFICES ASSUME NEW i \in 1 .. n - 1, NEW k \in 1 .. n - 1, g[i].num = g[k].num
                   PROVE  i = k
        BY <2>2 DEF Distinct
      <3>1. \A a, b \in 1 .. n : h[a].num = h[b].num => a = b
        BY DEF Distinct, n
      <3> QED BY <1>1, <2>2, <3>1, SMTT(60), Z3T(60)
    <2>6. Range(g) = Range(h) \ {h[1]}
      <3>0. \A a, b \in 1 .. n : h[a] = h[b] => a = b
        BY DEF Distinct, n
      <3>1. ASSUME NEW x, x \in Range(g) PROVE x \in Range(h) \ {h[1]}
        <4>1. PICK i \in 1 .. n - 1 : g[i] = x
          BY <2>2, <3>1, InRange, SMTT(60), Z3T(60)
        <4>2. PICK k \in 1 .. n : h[k] = x /\ k # 1
          BY <1>1, <1>3, <2>2, <4>1, SMTT(60), Z3T(60)
        <4>3. 1 \in 1 .. n /\ x # h[1]
          BY <1>1, <3>0, <4>2, SMTT(60), Z3T(60)
        <4> QED BY <4>2, <4>3, InRange DEF n
      <3>2. ASSUME NEW x, x \in Range(h), x # h[1] PROVE x \in Range(g)
        <4>1. PICK i \in 1 .. n : h[i] = x
          BY <3>2, InRange DEF n
        <4>2. \E k \in 1 .. n - 1 : g[k] = x
          BY <1>1, <1>3, <2>2, <3>2, <4>1, SMTT(60), Z3T(60)
        <4> QED BY <2>2, <4>2, InRange
      <3> QED BY <3>1, <3>2
    <2>7. Placed(d) /\ Same(d.h, g) /\ Same(w, d.h) /\ Same(w, g)
      <3>1. Placed(d) /\ Same(d.h, g)
        BY <2>4, DownDoes
      <3>2. Same(w, d.h)
        BY <3>1, UpDoes
      <3> QED BY <3>1, <3>2, SameTrans
    <2>8. ASSUME Ordered(h), Timed(h) PROVE Ordered(w)
      <3>1. Timed(g)
        BY <1>1, <2>2, <2>8, SMTT(60), Z3T(60) DEF Timed, n
      <3>2. DownReady(s)
        <4>1. ASSUME NEW k \in 2 .. n - 1, k \div 2 # 1 PROVE ~Less(g[k \div 2], g[k])
          <5>1. k \div 2 \in 2 .. n - 1 /\ k \in 2 .. n
            BY <1>1, <4>1, SMTT(60), Z3T(60)
          <5>2. g[k] = h[k] /\ g[k \div 2] = h[k \div 2]
            BY <1>1, <2>2, <5>1, SMTT(60), Z3T(60)
          <5> QED BY <2>8, <5>1, <5>2 DEF Ordered, n
        <4> QED BY <2>2, <2>4, <4>1, SMTT(60), Z3T(60) DEF DownReady
      <3>3. UpReady(d)
        BY <2>4, <2>5, <3>1, <3>2, DownDoes
      <3>4. Timed(d.h) /\ Distinct(d.h)
        BY <2>2, <2>5, <2>7, <3>1, SameTimed DEF Same
      <3> QED BY <2>7, <3>3, <3>4, UpDoes
    <2> QED BY <2>2, <2>3, <2>5, <2>6, <2>7, <2>8 DEF Same, n
  <1> QED BY <1>2, <1>3

(* The top of a heap in order comes before all others. *)
LEMMA TopFirst ==
    ASSUME NEW h \in Seq(Elem), Ordered(h), Timed(h)
    PROVE  \A k \in 2 .. Len(h) : ~Less(h[1], h[k])
  <1> DEFINE S == {k \in 2 .. Len(h) : Less(h[1], h[k])}
  <1> SUFFICES ASSUME S # {} PROVE FALSE
    OBVIOUS
  <1>1. Len(h) \in Nat /\ S \in SUBSET Nat
    BY LenProperties, SMTT(60), Z3T(60)
  <1>2. PICK k \in S : \A m \in S : k <= m
    BY <1>1, Least
  <1>3. k \in 2 .. Len(h) /\ Less(h[1], h[k])
    OBVIOUS
  <1>4. ~Less(h[k \div 2], h[k])
    BY <1>3 DEF Ordered
  <1>5. k \div 2 \in 1 .. Len(h) /\ k \div 2 < k /\ k \in 1 .. Len(h) /\ 1 \in 1 .. Len(h)
    BY <1>1, <1>3, SMTT(60), Z3T(60)
  <1>6. k \div 2 # 1
    BY <1>3, <1>4
  <1>7. k \div 2 \notin S
    BY <1>2, <1>5, <1>3, SMTT(60), Z3T(60)
  <1>8. ~Less(h[1], h[k \div 2])
    BY <1>1, <1>5, <1>6, <1>7, SMTT(60), Z3T(60)
  <1>9. \A i \in 1 .. Len(h) : h[i] \in Elem /\ h[i].ts # NoTs
    BY ElementOfSeq DEF Timed
  <1> HIDE DEF S
  <1> QED BY <1>3, <1>4, <1>5, <1>8, <1>9, LessOrder, SMTT(60), Z3T(60)

(* a comes before b. *)
Before(a, b) == a.ts < b.ts \/ (a.ts = b.ts /\ a.num < b.num)

(* The same, for the elements of the heap. *)
LEMMA HeadFirst ==
    ASSUME NEW h \in Seq(Elem), h # <<>>, Ordered(h), Timed(h), Distinct(h)
    PROVE  \A e \in Range(h) \ {h[1]} : Before(h[1], e)
  <1> SUFFICES ASSUME NEW e \in Range(h) \ {h[1]} PROVE Before(h[1], e)
    OBVIOUS
  <1>1. PICK k \in 1 .. Len(h) : h[k] = e
    BY InRange
  <1>2. Len(h) \in Nat /\ k \in 2 .. Len(h) /\ 1 \in 1 .. Len(h)
    BY <1>1, LenProperties, SMTT(60), Z3T(60)
  <1>3. ~Less(h[1], e)
    BY <1>1, <1>2, TopFirst
  <1>4. h[1] \in Elem /\ e \in Elem /\ h[1].ts # NoTs /\ e.ts # NoTs
    BY <1>1, <1>2, ElementOfSeq DEF Timed
  <1>5. ~(e.ts < h[1].ts \/ (e.ts = h[1].ts /\ e.num <= h[1].num))
    BY <1>3, <1>4, LessTimed
  <1>6. h[1].ts \in Int /\ e.ts \in Int /\ h[1].num \in Int /\ e.num \in Int
    BY <1>4, AsyncAssumption, SMTT(60), Z3T(60) DEF Elem, NoTs
  <1> QED BY <1>5, <1>6, SMTT(60), Z3T(60) DEF Before

(* The top of a queue is in it, if it is not empty. *)
LEMMA TopIs ==
    ASSUME NEW h \in Seq(Elem)
    PROVE  /\ h = <<>> => Top(h) = NoElem /\ Range(h) = {}
           /\ h # <<>> => Top(h) = h[1] /\ h[1] \in Range(h) /\ Len(h) > 0
           /\ Range(h) \subseteq Elem
  <1>1. CASE h = <<>>
    BY <1>1, SMTT(60), Z3T(60) DEF Top, Range
  <1>2. CASE h # <<>>
    <2>1. Len(h) \in Nat \ {0} /\ Head(h) = h[1]
      BY <1>2, EmptySeq, LenProperties, HeadTailProperties, SMTT(60), Z3T(60)
    <2>2. h[1] \in Range(h)
      BY <2>1, InRange, SMTT(60), Z3T(60)
    <2>3. Range(h) \subseteq Elem
      BY InRange, ElementOfSeq, SMTT(60), Z3T(60)
    <2> QED BY <1>2, <2>1, <2>2, <2>3, SMTT(60), Z3T(60) DEF Top
  <1> QED BY <1>1, <1>2

-----------------------------------------------------------------------------
(* The inductive invariant *)

TypeInv ==
    /\ now \in 1 .. MaxTime
    /\ m_queue \in Seq(Elem) /\ Len(m_queue) <= Capacity
    /\ m_queue_top \in Elem /\ top \in Elem
    /\ m_elem_counter \in 0 .. offered /\ offered \in 0 .. MaxAsync
    /\ ppc \in [Producers -> {"idle", "store"}]
    /\ cpc \in {"idle", "empty", "load", "check", "pop", "next"}
    /\ m_pevt \in 0 .. MaxTime /\ fetched \in 0 .. MaxScap
    /\ checker \in 0 .. MaxTime + Ahead /\ cur \in 0 .. MaxTime + Ahead
    /\ m_cached_ts \in 0 .. MaxTime + Ahead
    /\ mixed \in BOOLEAN /\ dlv \in Seq(Nat)

(* The elements have numbers of their own, below the counter; the mutex    *)
(* has one owner, whose element is the newest.                             *)
QueueInv ==
    /\ Distinct(m_queue)
    /\ \A e \in Range(m_queue) : e.num \in 0 .. m_elem_counter - 1
    /\ \A p, q \in Producers : ppc[p] = "store" /\ ppc[q] = "store" => p = q
    /\ Locked => \E e \in Range(m_queue) : e.num = m_elem_counter - 1

DlvInv ==
    /\ \A i, k \in 1 .. Len(dlv) : dlv[i] = dlv[k] => i = k
    /\ \A i \in 1 .. Len(dlv) :
          dlv[i] < m_elem_counter /\ \A e \in Range(m_queue) : dlv[i] # e.num
    /\ Len(m_queue) + Len(dlv) = m_elem_counter

(* t is the top of what is visible, v, of the queue q: a member of it, and *)
(* unless events without a timestamp are mixed in (m) the first.           *)
TopFits(q, v, t, m) ==
    /\ IF v = {} THEN t = NoElem ELSE t \in v
    /\ ~m => (\A e \in v : e.ts # NoTs) /\ \A e \in v \ {t} : Before(t, e)
    /\ ~m /\ Timed(q) => Ordered(q)

TopInv ==
    /\ TopFits(m_queue, Visible, m_queue_top, mixed)
    /\ ~Locked => m_queue_top = Top(m_queue)

(* What the consumer knows when it is inside try_pop_if. *)
ConsInv ==
    /\ cpc = "load" => m_queue_top # NoElem
    /\ cpc \in {"check", "pop"} => top \in Visible
    /\ cpc \in {"load", "check", "pop"} /\ m_pevt # 0 => checker = m_pevt
    /\ cpc = "pop" => compare_evt_timestamps(top.ts, checker)

IInv == TypeInv /\ QueueInv /\ DlvInv /\ TopInv /\ ConsInv

(* The top that is stored under the mutex fits. *)
LEMMA TopOfHeap ==
    ASSUME NEW h \in Seq(Elem), Distinct(h), NEW m, ~m => Timed(h) /\ Ordered(h)
    PROVE  TopFits(h, Range(h), Top(h), m)
  <1>1. CASE h = <<>>
    <2>1. Range(h) = {} /\ Top(h) = NoElem
      BY <1>1, TopIs
    <2> QED BY <2>1 DEF TopFits
  <1>2. CASE h # <<>>
    <2>1. Top(h) = h[1] /\ h[1] \in Range(h)
      BY <1>2, TopIs
    <2>2. ASSUME ~m PROVE \A e \in Range(h) \ {h[1]} : Before(h[1], e)
      BY <1>2, <2>2, HeadFirst
    <2>3. ASSUME ~m PROVE \A e \in Range(h) : e.ts # NoTs
      BY <2>3, InRange, SMTT(60), Z3T(60) DEF Timed
    <2> QED BY <2>1, <2>2, <2>3 DEF TopFits
  <1> QED BY <1>1, <1>2

(* Without a push under way all elements are visible, and the order holds  *)
(* in the heap.                                                            *)
LEMMA Open ==
    ASSUME IInv, ~Locked
    PROVE  Visible = Range(m_queue) /\ (~mixed => Timed(m_queue) /\ Ordered(m_queue))
  <1>1. Visible = Range(m_queue)
    BY DEF Visible
  <1>2. ASSUME ~mixed PROVE Timed(m_queue)
    <2>1. \A e \in Range(m_queue) : e.ts # NoTs
      BY <1>1, <1>2 DEF IInv, TopInv, TopFits
    <2>2. m_queue \in Seq(Elem)
      BY DEF IInv, TypeInv
    <2> QED BY <2>1, <2>2, InRange DEF Timed
  <1> QED BY <1>1, <1>2 DEF IInv, TopInv, TopFits

(* A push into the heap. *)
LEMMA EnqueueDoes ==
    ASSUME IInv, ~Locked, HasRoom, offered < MaxAsync, NEW ts \in 0 .. NoTs, Enqueue(ts)
    PROVE  /\ m_queue' \in Seq(Elem) /\ Len(m_queue') = Len(m_queue) + 1
           /\ Len(m_queue') <= Capacity /\ m_elem_counter' = m_elem_counter + 1
           /\ [num |-> m_elem_counter, ts |-> ts] \notin Range(m_queue)
           /\ Range(m_queue') = Range(m_queue) \cup {[num |-> m_elem_counter, ts |-> ts]}
           /\ Distinct(m_queue')
           /\ ~mixed /\ ts # NoTs => Timed(m_queue') /\ Ordered(m_queue')
           /\ ~mixed /\ Timed(m_queue') => Ordered(m_queue')
           /\ \A x \in Range(m_queue') : x.num \in 0 .. m_elem_counter
  <1> DEFINE e == [num |-> m_elem_counter, ts |-> ts]
  <1>1. /\ m_queue \in Seq(Elem) /\ Distinct(m_queue) /\ m_elem_counter \in 0 .. MaxAsync - 1
        /\ \A x \in Range(m_queue) : x.num \in 0 .. m_elem_counter - 1
    BY AsyncAssumption, SMTT(60), Z3T(60) DEF IInv, TypeInv, QueueInv
  <1>2. e \in Elem /\ e.num = m_elem_counter /\ e.ts = ts
    BY <1>1, SMTT(60), Z3T(60) DEF Elem
  <1>3. m_queue' = HeapPush(m_queue, e) /\ m_elem_counter' = m_elem_counter + 1
    BY DEF Enqueue
  <1>4. \A x \in Range(m_queue) : x.num # m_elem_counter
    BY <1>1, SMTT(60), Z3T(60)
  <1> HIDE DEF e
  <1>5. \A i \in 1 .. Len(m_queue) : m_queue[i].num # e.num
    BY <1>1, <1>2, <1>4, InRange
  <1>6. /\ m_queue' \in Seq(Elem) /\ Len(m_queue') = Len(m_queue) + 1
        /\ Range(m_queue') = Range(m_queue) \cup {e}
        /\ Distinct(m_queue')
        /\ Ordered(m_queue) /\ Timed(m_queue) /\ e.ts # NoTs => Ordered(m_queue')
    BY <1>1, <1>2, <1>3, <1>5, HeapPushDoes
  <1>7. ~mixed => Timed(m_queue) /\ Ordered(m_queue)
    BY Open
  <1>8. ASSUME ~mixed, ts # NoTs PROVE Timed(m_queue') /\ Ordered(m_queue')
    <2>1. ASSUME NEW i \in 1 .. Len(m_queue') PROVE m_queue'[i].ts # NoTs
      <3>1. m_queue'[i] \in Range(m_queue')
        BY <1>6, InRange
      <3>2. m_queue'[i] \in Range(m_queue) \/ m_queue'[i] = e
        BY <1>6, <3>1
      <3>3. \A x \in Range(m_queue) : x.ts # NoTs
        BY <1>1, <1>7, <1>8, InRange, SMTT(60), Z3T(60) DEF Timed
      <3> QED BY <1>2, <1>8, <3>2, <3>3
    <2> QED BY <1>2, <1>6, <1>7, <1>8, <2>1, SMTT(60), Z3T(60) DEF Timed
  <1>9. ASSUME ~mixed, Timed(m_queue') PROVE ts # NoTs
    <2>1. e \in Range(m_queue')
      BY <1>6
    <2>2. PICK i \in 1 .. Len(m_queue') : m_queue'[i] = e
      BY <1>6, <2>1, InRange
    <2> QED BY <1>2, <1>9, <2>2 DEF Timed
  <1>10. Len(m_queue') <= Capacity
    <2>1. Len(m_queue) \in Nat /\ Capacity \in Nat /\ Len(m_queue) < Capacity
      BY <1>1, LenProperties, AsyncAssumption DEF HasRoom
    <2> QED BY <1>6, <2>1, SMTT(60), Z3T(60)
  <1>11. \A x \in Range(m_queue') : x.num \in 0 .. m_elem_counter
    BY <1>1, <1>2, <1>6, SMTT(60), Z3T(60)
  <1>12. e \notin Range(m_queue)
    BY <1>2, <1>4
  <1> QED BY <1>3, <1>6, <1>8, <1>9, <1>10, <1>11, <1>12 DEF e

-----------------------------------------------------------------------------
(* The steps of the producers *)

(* The invariant holds when the inspector is opened. *)
LEMMA InitInv ==
    ASSUME Init
    PROVE  IInv
  <1>1. <<>> \in Seq(Elem) /\ <<>> \in Seq(Nat) /\ Len(<<>>) = 0 /\ Range(<<>>) = {}
    BY SMTT(60), Z3T(60) DEF Range
  <1>2. NoElem \in Elem
    BY AsyncAssumption, SMTT(60), Z3T(60) DEF NoElem, Elem, NoTs
  <1>3. TypeInv
    <2>1. ppc \in [Producers -> {"idle", "store"}]
      BY DEF Init
    <2>2. /\ 1 \in 1 .. MaxTime /\ 0 <= Capacity /\ 0 \in 0 .. 0 /\ 0 \in 0 .. MaxAsync
          /\ 0 \in 0 .. MaxTime /\ 0 \in 0 .. MaxScap /\ 0 \in 0 .. MaxTime + Ahead
      BY AsyncAssumption, SMTT(60), Z3T(60)
    <2> QED BY <1>1, <1>2, <2>1, <2>2 DEF Init, TypeInv
  <1>4. ~Locked
    BY DEF Init, Locked
  <1>5. QueueInv /\ DlvInv
    BY <1>1, <1>4, SMTT(60), Z3T(60) DEF Init, QueueInv, DlvInv, Distinct
  <1>6. Visible = {}
    BY <1>1 DEF Init, Visible
  <1>7. Top(<<>>) = NoElem
    BY DEF Top
  <1>8. TopFits(<<>>, {}, NoElem, FALSE)
    BY <1>1, SMTT(60), Z3T(60) DEF TopFits, Ordered
  <1>9. TopInv
    BY <1>6, <1>7, <1>8 DEF Init, TopInv
  <1>10. ConsInv
    BY DEF Init, ConsInv
  <1> QED BY <1>3, <1>5, <1>9, <1>10 DEF IInv

(* A push that is turned away only counts. *)
LEMMA RejectKeeps ==
    ASSUME IInv, offered < MaxAsync, offered' = offered + 1,
           UNCHANGED <<now, m_queue, m_queue_top, m_elem_counter, mixed, ppc, consumer>>
    PROVE  IInv'
  <1>1. TypeInv'
    BY AsyncAssumption, SMTT(60), Z3T(60) DEF IInv, TypeInv, consumer
  <1>2. (Visible' = Visible) /\ (Locked' = Locked)
    BY DEF Visible, Locked
  <1>3. QueueInv' /\ DlvInv' /\ TopInv' /\ ConsInv'
    BY <1>2 DEF IInv, QueueInv, DlvInv, TopInv, ConsInv, consumer
  <1> QED BY <1>1, <1>3 DEF IInv

(* The first half of push. *)
LEMMA PushKeeps ==
    ASSUME IInv, NEW p \in Producers, Push(p)
    PROVE  IInv' /\ Visible' = Visible
  <1>1. /\ ppc[p] = "idle" /\ ~Locked /\ offered < MaxAsync /\ offered' = offered + 1
        /\ UNCHANGED <<now, m_queue_top, mixed, consumer>>
    BY DEF Push, clock
  <1>2. CASE UNCHANGED <<m_queue, m_elem_counter, ppc>>
    <2>1. Visible' = Visible
      BY <1>2 DEF Visible, Locked
    <2> QED BY <1>1, <1>2, <2>1, RejectKeeps
  <1>3. CASE \E ts \in 0 .. NoTs : HasRoom /\ Enqueue(ts) /\ ppc' = [ppc EXCEPT ![p] = "store"]
    <2>1. PICK ts \in 0 .. NoTs : HasRoom /\ Enqueue(ts) /\ ppc' = [ppc EXCEPT ![p] = "store"]
      BY <1>3
    <2> DEFINE e == [num |-> m_elem_counter, ts |-> ts]
    <2>2. /\ m_queue' \in Seq(Elem) /\ Len(m_queue') = Len(m_queue) + 1
          /\ Len(m_queue') <= Capacity /\ m_elem_counter' = m_elem_counter + 1
          /\ e \notin Range(m_queue)
          /\ Range(m_queue') = Range(m_queue) \cup {e}
          /\ Distinct(m_queue')
          /\ ~mixed /\ Timed(m_queue') => Ordered(m_queue')
          /\ \A x \in Range(m_queue') : x.num \in 0 .. m_elem_counter
      BY <1>1, <2>1, EnqueueDoes
    <2>3. e.num = m_elem_counter
      OBVIOUS
    <2> HIDE DEF e
    <2>4. /\ m_queue \in Seq(Elem) /\ m_elem_counter \in Nat /\ ppc \in [Producers -> {"idle", "store"}]
          /\ \A x \in Range(m_queue) : x.num \in 0 .. m_elem_counter - 1
      BY SMTT(60), Z3T(60) DEF IInv, TypeInv, QueueInv
    <2>5. TypeInv'
      BY <1>1, <2>1, <2>2, AsyncAssumption, SMTT(60), Z3T(60) DEF IInv, TypeInv, consumer
    <2>6. \A q \in Producers : ppc'[q] = "store" <=> q = p
      BY <1>1, <2>1, <2>4 DEF Locked
    <2>7. Locked'
      BY <2>6 DEF Locked
    <2>8. QueueInv'
      <3>1. \A x \in Range(m_queue') : x.num \in 0 .. m_elem_counter' - 1
        BY <2>2, <2>4, SMTT(60), Z3T(60)
      <3>2. e \in Range(m_queue') /\ e.num = m_elem_counter' - 1
        BY <2>2, <2>3, <2>4, SMTT(60), Z3T(60)
      <3> QED BY <2>2, <2>6, <3>1, <3>2 DEF QueueInv
    <2>9. DlvInv'
      <3>1. dlv' = dlv /\ Len(dlv) \in Nat /\ Len(m_queue) \in Nat /\ dlv \in Seq(Nat)
        BY <1>1, <2>4, LenProperties DEF consumer, IInv, TypeInv
      <3>2. \A i \in 1 .. Len(dlv) : dlv[i] \in Nat
        BY <3>1, ElementOfSeq
      <3>3. /\ \A i, k \in 1 .. Len(dlv) : dlv[i] = dlv[k] => i = k
            /\ \A i \in 1 .. Len(dlv) :
                  dlv[i] < m_elem_counter /\ \A x \in Range(m_queue) : dlv[i] # x.num
            /\ Len(m_queue) + Len(dlv) = m_elem_counter
        BY DEF IInv, DlvInv
      <3>4. ASSUME NEW i \in 1 .. Len(dlv)
            PROVE  dlv[i] < m_elem_counter' /\ \A x \in Range(m_queue') : dlv[i] # x.num
        BY <2>2, <2>3, <2>4, <3>2, <3>3, SMTT(60), Z3T(60)
      <3>5. Len(m_queue') + Len(dlv) = m_elem_counter'
        BY <2>2, <3>1, <3>3, SMTT(60), Z3T(60)
      <3> QED BY <3>1, <3>3, <3>4, <3>5 DEF DlvInv
    <2>10. Visible' = Visible
      <3>1. Visible = Range(m_queue)
        BY <1>1, Open
      <3>2. Visible' = {x \in Range(m_queue') : x.num # m_elem_counter' - 1}
        BY <2>7 DEF Visible
      <3>3. m_elem_counter' - 1 = m_elem_counter /\ \A x \in Range(m_queue) : x.num # m_elem_counter
        BY <2>2, <2>4, SMTT(60), Z3T(60)
      <3> QED BY <2>2, <2>3, <3>1, <3>2, <3>3
    <2>11. TopInv'
      <3>1. mixed' = mixed /\ m_queue_top' = m_queue_top
        BY <1>1
      <3> QED BY <2>2, <2>7, <2>10, <3>1 DEF IInv, TopInv, TopFits
    <2>12. ConsInv'
      BY <1>1, <2>10 DEF IInv, ConsInv, consumer
    <2> QED BY <2>5, <2>8, <2>9, <2>10, <2>11, <2>12, SMTT(60), Z3T(60) DEF IInv
  <1>4. \A ts \in 1 .. now + Ahead + 1 \cup {NoTs} : ~(ts # NoTs /\ ts > now + Ahead) => ts \in 0 .. NoTs
    BY AsyncAssumption, SMTT(60), Z3T(60) DEF IInv, TypeInv, NoTs
  <1> QED BY <1>2, <1>3, <1>4 DEF Push

(* The second half. *)
LEMMA StoreTopKeeps ==
    ASSUME IInv, NEW p \in Producers, StoreTop(p)
    PROVE  /\ IInv' /\ Visible' = Visible \cup {Newest} /\ Newest \notin Visible
           /\ Newest.num = m_elem_counter - 1
  <1>1. /\ ppc[p] = "store" /\ m_queue_top' = Top(m_queue) /\ ppc' = [ppc EXCEPT ![p] = "idle"]
        /\ mixed' = (mixed \/ Newest.ts = NoTs)
        /\ UNCHANGED <<now, m_queue, m_elem_counter, offered, consumer>>
    BY DEF StoreTop, clock
  <1>2. /\ m_queue \in Seq(Elem) /\ ppc \in [Producers -> {"idle", "store"}] /\ Distinct(m_queue)
        /\ mixed \in BOOLEAN /\ m_elem_counter \in Nat
    BY SMTT(60), Z3T(60) DEF IInv, TypeInv, QueueInv
  <1>3. Locked /\ ~Locked'
    BY <1>1, <1>2 DEF IInv, QueueInv, Locked
  <1>4. Newest \in Range(m_queue) /\ Newest.num = m_elem_counter - 1
    BY <1>3 DEF IInv, QueueInv, Newest
  <1>5. Visible = {x \in Range(m_queue) : x.num # m_elem_counter - 1} /\ Visible' = Range(m_queue)
    BY <1>1, <1>3 DEF Visible
  <1>6. \A x \in Range(m_queue) : x.num = m_elem_counter - 1 => x = Newest
    <2>1. \A x, y \in Range(m_queue) : x.num = y.num => x = y
      BY <1>2, InRange, SMTT(60), Z3T(60) DEF Distinct
    <2> QED BY <1>4, <2>1
  <1>7. Visible' = Visible \cup {Newest} /\ Newest \notin Visible
    BY <1>4, <1>5, <1>6
  <1>8. TypeInv'
    <2>1. Top(m_queue) \in Elem
      <3>1. NoElem \in Elem
        BY AsyncAssumption, SMTT(60), Z3T(60) DEF NoElem, Elem, NoTs
      <3> QED BY <1>2, <3>1, TopIs
    <2>2. ppc' \in [Producers -> {"idle", "store"}] /\ mixed' \in BOOLEAN
      BY <1>1, <1>2
    <2> QED BY <1>1, <2>1, <2>2 DEF IInv, TypeInv, consumer
  <1>9. QueueInv' /\ DlvInv'
    <2>1. \A q \in Producers : ppc'[q] # "store"
      BY <1>3 DEF Locked
    <2> QED BY <1>1, <1>3, <2>1 DEF IInv, QueueInv, DlvInv, consumer
  <1>10. TopInv'
    <2>1. ASSUME ~mixed' PROVE Timed(m_queue) /\ Ordered(m_queue)
      <3>1. ~mixed /\ Newest.ts # NoTs
        BY <1>1, <2>1
      <3>2. \A x \in Range(m_queue) : x.ts # NoTs
        BY <1>5, <1>7, <3>1 DEF IInv, TopInv, TopFits
      <3>3. Timed(m_queue)
        BY <1>2, <3>2, InRange DEF Timed
      <3> QED BY <3>1, <3>3 DEF IInv, TopInv, TopFits
    <2>2. TopFits(m_queue, Range(m_queue), Top(m_queue), mixed')
      BY <1>2, <2>1, TopOfHeap
    <2>3. m_queue' = m_queue /\ m_queue_top' = Top(m_queue)
      BY <1>1
    <2>4. TopFits(m_queue', Visible', m_queue_top', mixed')
      BY <1>5, <2>2, <2>3
    <2> QED BY <2>3, <2>4 DEF TopInv
  <1>11. ConsInv'
    <2>1. m_queue_top' # NoElem
      <3>1. m_queue # <<>> /\ Top(m_queue) \in Range(m_queue)
        BY <1>2, <1>4, TopIs
      <3>2. Top(m_queue).num \in 0 .. m_elem_counter - 1
        BY <3>1 DEF IInv, QueueInv
      <3>3. Top(m_queue).num # NoElem.num
        BY <1>2, <3>2, SMTT(60), Z3T(60) DEF NoElem
      <3> QED BY <1>1, <3>3
    <2> QED BY <1>1, <1>7, <2>1 DEF IInv, ConsInv, consumer
  <1> QED BY <1>4, <1>7, <1>8, <1>9, <1>10, <1>11 DEF IInv

(* The whole push of the thread of next(). *)
LEMMA PushProcinfoKeeps ==
    ASSUME IInv, PushProcinfo
    PROVE  /\ IInv' /\ UNCHANGED <<m_pevt, mixed>>
           /\ \/ Visible' = Visible
              \/ \E e : /\ e \notin Visible /\ Visible' = Visible \cup {e}
                        /\ e.num = m_elem_counter /\ e.ts # NoTs
  <1>1. /\ cpc = "next" /\ ~Locked /\ offered < MaxAsync /\ offered' = offered + 1
        /\ UNCHANGED <<now, ppc, mixed, consumer>>
    BY DEF PushProcinfo, clock
  <1>2. Locked' = Locked
    BY <1>1 DEF Locked
  <1>3. CASE UNCHANGED <<m_queue, m_elem_counter, m_queue_top>>
    <2>1. IInv'
      BY <1>1, <1>3, RejectKeeps
    <2>2. Visible' = Visible
      BY <1>2, <1>3 DEF Visible
    <2> QED BY <1>1, <2>1, <2>2 DEF consumer
  <1>4. CASE HasRoom /\ Enqueue(cur) /\ m_queue_top' = Top(m_queue')
    <2>0. cur \in 0 .. NoTs /\ cur # NoTs
      BY AsyncAssumption, SMTT(60), Z3T(60) DEF IInv, TypeInv, NoTs
    <2> DEFINE e == [num |-> m_elem_counter, ts |-> cur]
    <2>1. /\ m_queue' \in Seq(Elem) /\ Len(m_queue') = Len(m_queue) + 1
          /\ Len(m_queue') <= Capacity /\ m_elem_counter' = m_elem_counter + 1
          /\ e \notin Range(m_queue)
          /\ Range(m_queue') = Range(m_queue) \cup {e}
          /\ Distinct(m_queue')
          /\ ~mixed => Timed(m_queue') /\ Ordered(m_queue')
          /\ \A x \in Range(m_queue') : x.num \in 0 .. m_elem_counter
      BY <1>1, <1>4, <2>0, EnqueueDoes
    <2>2. e.num = m_elem_counter /\ e.ts = cur
      OBVIOUS
    <2> HIDE DEF e
    <2>3. /\ m_queue \in Seq(Elem) /\ m_elem_counter \in Nat
          /\ \A x \in Range(m_queue) : x.num \in 0 .. m_elem_counter - 1
      BY SMTT(60), Z3T(60) DEF IInv, TypeInv, QueueInv
    <2>4. TypeInv'
      <3>1. m_queue_top' \in Elem
        <4>1. NoElem \in Elem
          BY AsyncAssumption, SMTT(60), Z3T(60) DEF NoElem, Elem, NoTs
        <4> QED BY <1>4, <2>1, <4>1, TopIs
      <3> QED BY <1>1, <2>1, <3>1, AsyncAssumption, SMTT(60), Z3T(60) DEF IInv, TypeInv, consumer
    <2>5. QueueInv'
      <3>1. \A x \in Range(m_queue') : x.num \in 0 .. m_elem_counter' - 1
        BY <2>1, <2>3, SMTT(60), Z3T(60)
      <3> QED BY <1>1, <1>2, <2>1, <3>1 DEF IInv, QueueInv
    <2>6. DlvInv'
      <3>1. dlv' = dlv /\ Len(dlv) \in Nat /\ Len(m_queue) \in Nat /\ dlv \in Seq(Nat)
        BY <1>1, <2>3, LenProperties DEF consumer, IInv, TypeInv
      <3>2. \A i \in 1 .. Len(dlv) : dlv[i] \in Nat
        BY <3>1, ElementOfSeq
      <3>3. /\ \A i, k \in 1 .. Len(dlv) : dlv[i] = dlv[k] => i = k
            /\ \A i \in 1 .. Len(dlv) :
                  dlv[i] < m_elem_counter /\ \A x \in Range(m_queue) : dlv[i] # x.num
            /\ Len(m_queue) + Len(dlv) = m_elem_counter
        BY DEF IInv, DlvInv
      <3>4. ASSUME NEW i \in 1 .. Len(dlv)
            PROVE  dlv[i] < m_elem_counter' /\ \A x \in Range(m_queue') : dlv[i] # x.num
        BY <2>1, <2>2, <2>3, <3>2, <3>3, SMTT(60), Z3T(60)
      <3>5. Len(m_queue') + Len(dlv) = m_elem_counter'
        BY <2>1, <3>1, <3>3, SMTT(60), Z3T(60)
      <3> QED BY <3>1, <3>3, <3>4, <3>5, SMTT(60), Z3T(60) DEF DlvInv
    <2>7. Visible = Range(m_queue) /\ Visible' = Range(m_queue')
      BY <1>1, <1>2 DEF Visible
    <2>8. TopInv'
      <3>1. TopFits(m_queue', Range(m_queue'), Top(m_queue'), mixed)
        BY <2>1, TopOfHeap
      <3> QED BY <1>1, <1>4, <2>7, <3>1 DEF TopInv
    <2>9. ConsInv'
      BY <1>1 DEF ConsInv, consumer
    <2>10. IInv'
      BY <2>4, <2>5, <2>6, <2>8, <2>9 DEF IInv
    <2>11. e \notin Visible /\ Visible' = Visible \cup {e} /\ e.num = m_elem_counter /\ e.ts # NoTs
      BY <2>0, <2>1, <2>2, <2>7
    <2> QED BY <1>1, <2>10, <2>11 DEF consumer
  <1> QED BY <1>3, <1>4 DEF PushProcinfo

-----------------------------------------------------------------------------
(* The steps of the consumer *)

(* As long as the consumer only looks, the queue is as it was. *)
LEMMA LookKeeps ==
    ASSUME IInv, UNCHANGED <<queue, ppc, dlv>>
    PROVE  /\ QueueInv' /\ DlvInv' /\ TopInv' /\ Visible' = Visible
           /\ UNCHANGED <<m_queue, m_queue_top, m_elem_counter, offered, mixed>>
  <1>1. UNCHANGED <<m_queue, m_queue_top, m_elem_counter, offered, mixed>>
    BY DEF queue
  <1>2. (Visible' = Visible) /\ (Locked' = Locked)
    BY <1>1 DEF Visible, Locked
  <1> QED BY <1>1, <1>2 DEF IInv, QueueInv, DlvInv, TopInv

(* There is a top unless nothing is visible. *)
LEMMA TopSeen ==
    ASSUME IInv
    PROVE  /\ m_queue_top = NoElem <=> Visible = {}
           /\ m_queue_top # NoElem => m_queue_top \in Visible
  <1>1. \A e \in Visible : e # NoElem
    <2>1. \A e \in Visible : e.num \in 0 .. m_elem_counter - 1
      BY DEF IInv, QueueInv, Visible
    <2>2. NoElem.num = -1 /\ m_elem_counter \in Nat
      BY SMTT(60), Z3T(60) DEF NoElem, IInv, TypeInv
    <2>3. \A e \in Visible : e.num # NoElem.num
      BY <2>1, <2>2, SMTT(60), Z3T(60)
    <2> QED BY <2>3
  <1> QED BY <1>1 DEF IInv, TopInv, TopFits

(* The event of libscap, or the timeout, is returned. *)
LEMMA ScapEventKeeps ==
    ASSUME IInv, ScapEvent, UNCHANGED <<clock, ppc>>
    PROVE  IInv' /\ Visible' = Visible /\ mixed' = mixed /\ m_pevt' = 0
  <1>1. /\ cpc' \in {"next", "idle"} /\ cur' \in {cur, m_pevt} /\ m_pevt' = 0
        /\ top' = NoElem /\ checker' = 0 /\ UNCHANGED <<queue, fetched, m_cached_ts, dlv>>
        /\ now' = now /\ ppc' = ppc
    BY DEF ScapEvent, clock
  <1>2. /\ QueueInv' /\ DlvInv' /\ TopInv' /\ Visible' = Visible
        /\ UNCHANGED <<m_queue, m_queue_top, m_elem_counter, offered, mixed>>
    BY <1>1, LookKeeps
  <1>3. TypeInv'
    <2>1. NoElem \in Elem
      BY AsyncAssumption, SMTT(60), Z3T(60) DEF NoElem, Elem, NoTs
    <2>2. cur' \in 0 .. MaxTime + Ahead /\ 0 \in 0 .. MaxTime /\ 0 \in 0 .. MaxTime + Ahead
      BY <1>1, AsyncAssumption, SMTT(60), Z3T(60) DEF IInv, TypeInv
    <2>3. cpc' \in {"idle", "empty", "load", "check", "pop", "next"}
      BY <1>1
    <2> QED BY <1>1, <1>2, <2>1, <2>2, <2>3 DEF IInv, TypeInv
  <1>4. ConsInv'
    BY <1>1 DEF ConsInv
  <1> QED BY <1>1, <1>2, <1>3, <1>4 DEF IInv

(* Fetching from libscap leaves the queue alone. *)
LEMMA FetchKeeps ==
    ASSUME IInv, Fetch
    PROVE  /\ IInv' /\ Visible' = Visible /\ mixed' = mixed
           /\ m_pevt' = m_pevt \/ (m_pevt = 0 /\ m_pevt' # 0)
  <1>1. /\ cpc' = "empty"
        /\ UNCHANGED <<now, queue, ppc, checker, top, cur, m_cached_ts, dlv>>
    BY DEF Fetch, clock
  <1>2. /\ QueueInv' /\ DlvInv' /\ TopInv' /\ Visible' = Visible
        /\ UNCHANGED <<m_queue, m_queue_top, m_elem_counter, offered, mixed>>
    BY <1>1, LookKeeps
  <1>3. \/ UNCHANGED <<m_pevt, fetched>>
        \/ /\ m_pevt = 0 /\ m_pevt' \in 1 .. now /\ fetched < MaxScap /\ fetched' = fetched + 1
    BY DEF Fetch
  <1>4. m_pevt' \in 0 .. MaxTime /\ fetched' \in 0 .. MaxScap
    BY <1>3, AsyncAssumption, SMTT(60), Z3T(60) DEF IInv, TypeInv
  <1>5. TypeInv'
    BY <1>1, <1>2, <1>4 DEF IInv, TypeInv
  <1>6. ConsInv'
    BY <1>1 DEF ConsInv
  <1>7. m_pevt' = m_pevt \/ (m_pevt = 0 /\ m_pevt' # 0)
    BY <1>3
  <1> QED BY <1>2, <1>5, <1>6, <1>7 DEF IInv

(* The test for an empty queue, and the return of the event of libscap. *)
LEMMA CheckEmptyKeeps ==
    ASSUME IInv, CheckEmpty
    PROVE  /\ IInv' /\ Visible' = Visible /\ mixed' = mixed
           /\ m_pevt' = m_pevt \/ (m_pevt' = 0 /\ Visible = {})
  <1>1. CASE m_queue_top = NoElem /\ ScapEvent
    <2>1. UNCHANGED <<clock, ppc>>
      BY DEF CheckEmpty
    <2>2. Visible = {}
      BY <1>1, TopSeen
    <2> QED BY <1>1, <2>1, <2>2, ScapEventKeeps
  <1>2. CASE /\ m_queue_top # NoElem /\ checker' = (IF m_pevt # 0 THEN m_pevt ELSE get_new_ts)
             /\ cpc' = "load"
             /\ UNCHANGED <<queue, m_pevt, fetched, top, cur, m_cached_ts, dlv>>
    <2>1. now' = now /\ ppc' = ppc
      BY DEF CheckEmpty, clock
    <2>2. /\ QueueInv' /\ DlvInv' /\ TopInv' /\ Visible' = Visible
          /\ UNCHANGED <<m_queue, m_queue_top, m_elem_counter, offered, mixed>>
      BY <1>2, <2>1, LookKeeps
    <2>3. checker' \in 0 .. MaxTime + Ahead
      BY <1>2, AsyncAssumption, SMTT(60), Z3T(60) DEF IInv, TypeInv, get_new_ts
    <2>4. TypeInv'
      BY <1>2, <2>1, <2>2, <2>3 DEF IInv, TypeInv
    <2>5. ConsInv'
      BY <1>2, <2>2 DEF ConsInv
    <2> QED BY <1>2, <2>2, <2>4, <2>5 DEF IInv
  <1> QED BY <1>1, <1>2 DEF CheckEmpty

(* The load of m_queue_top sees an element that is queued. *)
LEMMA LoadKeeps ==
    ASSUME IInv, Load
    PROVE  IInv' /\ Visible' = Visible /\ UNCHANGED <<mixed, m_pevt>>
  <1>1. /\ cpc = "load" /\ top' = m_queue_top /\ cpc' = "check"
        /\ UNCHANGED <<now, queue, ppc, m_pevt, fetched, checker, cur, m_cached_ts, dlv>>
    BY DEF Load, clock
  <1>2. /\ QueueInv' /\ DlvInv' /\ TopInv' /\ Visible' = Visible
        /\ UNCHANGED <<m_queue, m_queue_top, m_elem_counter, offered, mixed>>
    BY <1>1, LookKeeps
  <1>3. TypeInv'
    BY <1>1, <1>2 DEF IInv, TypeInv
  <1>4. m_queue_top \in Visible
    BY <1>1, TopSeen DEF IInv, ConsInv
  <1>5. ConsInv'
    BY <1>1, <1>2, <1>4 DEF IInv, ConsInv
  <1> QED BY <1>1, <1>2, <1>3, <1>5 DEF IInv

(* The predicate, and the second look at m_queue_top, without the mutex. *)
LEMMA CheckKeeps ==
    ASSUME IInv, Check
    PROVE  /\ IInv' /\ Visible' = Visible /\ mixed' = mixed
           /\ \/ m_pevt' = m_pevt
              \/ m_pevt' = 0 /\ (mixed \/ \A e \in Visible : m_pevt < e.ts)
  <1>0. /\ cpc = "check" /\ now' = now /\ ppc' = ppc /\ top \in Visible
        /\ UNCHANGED <<clock, ppc>>
    BY DEF Check, clock, IInv, ConsInv
  <1>1. CASE UnchangedTop /\ ~compare_evt_timestamps(top.ts, checker) /\ ScapEvent
    <2>1. IInv' /\ Visible' = Visible /\ mixed' = mixed /\ m_pevt' = 0
      BY <1>0, <1>1, ScapEventKeeps
    <2>2. ASSUME m_pevt # 0, ~mixed, NEW e \in Visible PROVE m_pevt < e.ts
      <3>1. checker = m_pevt /\ m_pevt \in Nat
        BY <1>0, <2>2, SMTT(60), Z3T(60) DEF IInv, ConsInv, TypeInv
      <3>2. \A x \in Visible : x.ts \in Nat /\ x.num \in Int
        <4>1. Range(m_queue) \subseteq Elem
          BY TopIs DEF IInv, TypeInv
        <4>2. \A x \in Elem : x.ts \in Nat /\ x.num \in Int
          BY AsyncAssumption, SMTT(60), Z3T(60) DEF Elem, NoTs
        <4> QED BY <4>1, <4>2 DEF Visible
      <3>3. ~(top.ts <= m_pevt)
        BY <1>1, <3>1 DEF compare_evt_timestamps
      <3>4. e = top \/ Before(top, e)
        BY <1>1, <2>2 DEF UnchangedTop, IInv, TopInv, TopFits
      <3>5. top.ts <= e.ts
        BY <1>0, <3>2, <3>4, SMTT(60), Z3T(60) DEF Before
      <3> QED BY <1>0, <3>1, <3>2, <3>3, <3>5, SMTT(60), Z3T(60)
    <2> QED BY <2>1, <2>2
  <1>2. CASE /\ cpc' \in {"pop", "load"}
             /\ cpc' = "pop" => compare_evt_timestamps(top.ts, checker)
             /\ UNCHANGED <<queue, m_pevt, fetched, checker, top, cur, m_cached_ts, dlv>>
    <2>1. /\ QueueInv' /\ DlvInv' /\ TopInv' /\ Visible' = Visible
          /\ UNCHANGED <<m_queue, m_queue_top, m_elem_counter, offered, mixed>>
      BY <1>0, <1>2, LookKeeps
    <2>2. TypeInv'
      BY <1>0, <1>2, <2>1 DEF IInv, TypeInv
    <2>3. m_queue_top # NoElem
      BY <1>0, TopSeen
    <2>4. ConsInv'
      BY <1>0, <1>2, <2>1, <2>3 DEF IInv, ConsInv
    <2> QED BY <1>2, <2>1, <2>2, <2>4 DEF IInv
  <1> QED BY <1>1, <1>2 DEF Check

(* A pop takes what the predicate saw. *)
LEMMA PopKeeps ==
    ASSUME IInv, Pop
    PROVE  /\ IInv' /\ m_pevt' = m_pevt
           /\ \/ Visible' = Visible /\ mixed' = mixed
              \/ /\ top \in Visible /\ Visible' = Visible \ {top}
                 /\ mixed \/ \A e \in Visible \ {top} : Before(top, e)
                 /\ m_pevt # 0 /\ top.ts # NoTs => top.ts <= m_pevt
                 /\ mixed' = (mixed /\ Visible' # {})
  <1>0. /\ cpc = "pop" /\ ~Locked /\ now' = now /\ top \in Visible
        /\ compare_evt_timestamps(top.ts, checker) /\ (m_pevt # 0 => checker = m_pevt)
        /\ UNCHANGED <<ppc, m_pevt, fetched, m_cached_ts>>
    BY DEF Pop, clock, IInv, ConsInv
  <1>1. CASE cpc' = "load" /\ UNCHANGED <<queue, checker, top, cur, dlv>>
    <2>1. /\ QueueInv' /\ DlvInv' /\ TopInv' /\ Visible' = Visible
          /\ UNCHANGED <<m_queue, m_queue_top, m_elem_counter, offered, mixed>>
      BY <1>0, <1>1, LookKeeps
    <2>2. TypeInv'
      BY <1>0, <1>1, <2>1 DEF IInv, TypeInv
    <2>3. m_queue_top # NoElem
      BY <1>0, TopSeen
    <2>4. ConsInv'
      BY <1>0, <1>1, <2>1, <2>3 DEF ConsInv
    <2> QED BY <1>0, <2>1, <2>2, <2>4 DEF IInv
  <1>2. CASE /\ Head(m_queue) = top /\ m_queue' = Remains /\ m_queue_top' = TopAfterPop
             /\ cur' = (IF top.ts = NoTs THEN get_new_ts ELSE top.ts)
             /\ dlv' = Append(dlv, top.num)
             /\ mixed' = (mixed /\ Remains # <<>>)
             /\ cpc' = "next" /\ top' = NoElem /\ checker' = 0
             /\ UNCHANGED <<m_elem_counter, offered>>
    <2>1. /\ m_queue \in Seq(Elem) /\ Distinct(m_queue) /\ mixed \in BOOLEAN
          /\ Visible = Range(m_queue) /\ (~mixed => Timed(m_queue) /\ Ordered(m_queue))
          /\ m_queue_top = Top(m_queue)
      BY <1>0, Open DEF IInv, TypeInv, QueueInv, TopInv
    <2>2. m_queue # <<>> /\ m_queue[1] = top /\ m_queue_top = top
      <3>1. m_queue # <<>>
        BY <1>0, <2>1, TopIs
      <3> QED BY <1>2, <2>1, <3>1, TopIs DEF Top
    <2>3. /\ m_queue' \in Seq(Elem) /\ Len(m_queue') = Len(m_queue) - 1
          /\ Range(m_queue') = Range(m_queue) \ {top}
          /\ Distinct(m_queue')
          /\ Ordered(m_queue) /\ Timed(m_queue) => Ordered(m_queue')
      <3>1. m_queue' = HeapPop(m_queue)
        BY <1>2 DEF Remains
      <3> QED BY <2>1, <2>2, <3>1, HeapPopDoes
    <2>4. Locked' = Locked
      BY <1>0 DEF Locked
    <2>5. Visible' = Range(m_queue')
      BY <1>0, <2>4 DEF Visible
    <2>6. m_queue' = <<>> <=> Range(m_queue') = {}
      BY <2>3, TopIs
    <2>7. mixed' = (mixed /\ Visible' # {})
      BY <1>2, <2>1, <2>5, <2>6
    <2>8. ASSUME ~mixed' PROVE Timed(m_queue') /\ Ordered(m_queue')
      <3>1. CASE mixed
        <4>1. m_queue' = <<>>
          BY <2>5, <2>6, <2>7, <2>8, <3>1
        <4> QED BY <4>1, SMTT(60), Z3T(60) DEF Timed, Ordered
      <3>2. CASE ~mixed
        <4>1. \A e \in Range(m_queue) : e.ts # NoTs
          BY <2>1, <3>2, InRange, SMTT(60), Z3T(60) DEF Timed
        <4>2. \A e \in Range(m_queue') : e.ts # NoTs
          BY <2>3, <4>1
        <4>3. Timed(m_queue')
          BY <2>3, <4>2, InRange DEF Timed
        <4> QED BY <2>1, <2>3, <3>2, <4>3
      <3> QED BY <3>1, <3>2
    <2>9. TopInv'
      <3>1. TopFits(m_queue', Range(m_queue'), Top(m_queue'), mixed')
        BY <2>3, <2>8, TopOfHeap
      <3>2. m_queue_top' = Top(m_queue')
        BY <1>2 DEF TopAfterPop
      <3> QED BY <2>5, <3>1, <3>2 DEF TopInv
    <2>10. /\ Len(m_queue) \in Nat /\ top \in Elem /\ top.num \in 0 .. m_elem_counter - 1
           /\ m_elem_counter \in Nat /\ Len(m_queue) <= Capacity
      BY <1>0, <2>1, LenProperties, SMTT(60), Z3T(60) DEF IInv, TypeInv, QueueInv
    <2>11. TypeInv'
      <3>1. cur' \in 0 .. MaxTime + Ahead
        <4>1. top.ts \in 0 .. NoTs
          BY <2>10 DEF Elem
        <4>2. get_new_ts \in 0 .. MaxTime + Ahead
          BY AsyncAssumption, SMTT(60), Z3T(60) DEF IInv, TypeInv, get_new_ts
        <4>3. top.ts # NoTs => top.ts \in 0 .. MaxTime + Ahead
          BY <4>1, AsyncAssumption, SMTT(60), Z3T(60) DEF NoTs
        <4> QED BY <1>2, <4>2, <4>3
      <3>2. NoElem \in Elem
        BY AsyncAssumption, SMTT(60), Z3T(60) DEF NoElem, Elem, NoTs
      <3>3. m_queue_top' \in Elem
        BY <1>2, <2>3, <3>2, TopIs DEF TopAfterPop
      <3>4. dlv' \in Seq(Nat)
        <4>1. dlv \in Seq(Nat) /\ top.num \in Nat
          BY <2>10, SMTT(60), Z3T(60) DEF IInv, TypeInv
        <4> QED BY <1>2, <4>1, AppendProperties
      <3>5. Len(m_queue') <= Capacity
        BY <2>3, <2>10, AsyncAssumption, SMTT(60), Z3T(60)
      <3>6. mixed' \in BOOLEAN /\ 0 \in 0 .. MaxTime + Ahead
        BY <2>7, AsyncAssumption, SMTT(60), Z3T(60)
      <3>7. cpc' \in {"idle", "empty", "load", "check", "pop", "next"}
        BY <1>2
      <3> QED BY <1>0, <1>2, <2>3, <3>1, <3>2, <3>3, <3>4, <3>5, <3>6, <3>7 DEF IInv, TypeInv
    <2>12. QueueInv'
      BY <1>0, <1>2, <2>3, <2>4 DEF IInv, QueueInv
    <2>13. DlvInv'
      <3>1. /\ dlv \in Seq(Nat) /\ Len(dlv) \in Nat /\ \A i \in 1 .. Len(dlv) : dlv[i] \in Nat
        BY LenProperties, ElementOfSeq DEF IInv, TypeInv
      <3>2. /\ \A i, k \in 1 .. Len(dlv) : dlv[i] = dlv[k] => i = k
            /\ \A i \in 1 .. Len(dlv) :
                  dlv[i] < m_elem_counter /\ \A x \in Range(m_queue) : dlv[i] # x.num
            /\ Len(m_queue) + Len(dlv) = m_elem_counter
        BY DEF IInv, DlvInv
      <3>3. /\ Len(dlv') = Len(dlv) + 1 /\ dlv'[Len(dlv) + 1] = top.num
            /\ \A i \in 1 .. Len(dlv) : dlv'[i] = dlv[i]
        <4>1. top.num \in Nat
          BY <2>10, SMTT(60), Z3T(60)
        <4> QED BY <1>2, <3>1, <4>1, AppendProperties, SMTT(60), Z3T(60)
      <3>4. \A x \in Range(m_queue') : x \in Range(m_queue) /\ x.num # top.num
        <4>1. \A x, y \in Range(m_queue) : x.num = y.num => x = y
          BY <2>1, InRange, SMTT(60), Z3T(60) DEF Distinct
        <4> QED BY <1>0, <2>1, <2>3, <4>1
      <3>5. top \in Range(m_queue)
        BY <1>0, <2>1
      <3>6. \A i \in 1 .. Len(dlv') : i \in 1 .. Len(dlv) \/ i = Len(dlv) + 1
        BY <3>1, <3>3, SMTT(60), Z3T(60)
      <3>7. \A i, k \in 1 .. Len(dlv') : dlv'[i] = dlv'[k] => i = k
        <4> SUFFICES ASSUME NEW i \in 1 .. Len(dlv'), NEW k \in 1 .. Len(dlv'), dlv'[i] = dlv'[k]
                     PROVE  i = k
          OBVIOUS
        <4>1. CASE i \in 1 .. Len(dlv) /\ k \in 1 .. Len(dlv)
          BY <3>2, <3>3, <4>1
        <4>2. ~(i \in 1 .. Len(dlv) /\ k = Len(dlv) + 1) /\ ~(k \in 1 .. Len(dlv) /\ i = Len(dlv) + 1)
          BY <3>2, <3>3, <3>5
        <4> QED BY <3>6, <4>1, <4>2
      <3>8. top.num < m_elem_counter
        BY <2>10, SMTT(60), Z3T(60)
      <3>9. \A i \in 1 .. Len(dlv') :
               dlv'[i] < m_elem_counter /\ \A x \in Range(m_queue') : dlv'[i] # x.num
        BY <3>2, <3>3, <3>4, <3>6, <3>8
      <3>10. Len(m_queue') + Len(dlv') = m_elem_counter
        <4>1. Len(m_queue') = Len(m_queue) - 1 /\ Len(dlv') = Len(dlv) + 1
          BY <2>3, <3>3
        <4>2. Len(m_queue) \in Nat
          BY <2>1, LenProperties
        <4> QED BY <3>1, <3>2, <4>1, <4>2, SMTT(60), Z3T(60)
      <3> QED BY <1>2, <3>7, <3>9, <3>10 DEF DlvInv
    <2>14. ConsInv'
      BY <1>2 DEF ConsInv
    <2>15. m_pevt # 0 /\ top.ts # NoTs => top.ts <= m_pevt
      BY <1>0 DEF compare_evt_timestamps
    <2>16. mixed \/ \A e \in Visible \ {top} : Before(top, e)
      BY <2>2 DEF IInv, TopInv, TopFits
    <2> QED BY <1>0, <2>1, <2>3, <2>5, <2>7, <2>9, <2>11, <2>12, <2>13, <2>14, <2>15, <2>16 DEF IInv
  <1> QED BY <1>1, <1>2 DEF Pop

(* The timestamp cached by next(), and the clock. *)
LEMMA RestKeeps ==
    ASSUME IInv, SetCachedTs \/ Tick \/ UNCHANGED vars
    PROVE  IInv' /\ Visible' = Visible /\ UNCHANGED <<mixed, m_pevt>>
  <1>1. /\ UNCHANGED <<queue, ppc, dlv, m_pevt, fetched, checker, top>>
        /\ \/ UNCHANGED <<cpc, cur, m_cached_ts>>
           \/ cpc' = "idle" /\ m_cached_ts' = cur /\ cur' = 0
        /\ now' = now \/ (now < MaxTime /\ now' = now + 1)
    BY DEF SetCachedTs, Tick, vars, consumer, clock
  <1>2. /\ QueueInv' /\ DlvInv' /\ TopInv' /\ Visible' = Visible
        /\ UNCHANGED <<m_queue, m_queue_top, m_elem_counter, offered, mixed>>
    BY <1>1, LookKeeps
  <1>3. TypeInv'
    <2>1. now' \in 1 .. MaxTime /\ 0 \in 0 .. MaxTime + Ahead
      BY <1>1, AsyncAssumption, SMTT(60), Z3T(60) DEF IInv, TypeInv
    <2> QED BY <1>1, <1>2, <2>1 DEF IInv, TypeInv
  <1>4. ConsInv'
    BY <1>1, <1>2 DEF IInv, ConsInv
  <1> QED BY <1>1, <1>2, <1>3, <1>4 DEF IInv

-----------------------------------------------------------------------------
(* The theorems *)

(* Every step keeps the invariant. *)
LEMMA NextInv ==
    ASSUME IInv, [Next]_vars
    PROVE  IInv'
  <1>1. ASSUME NEW p \in Producers, Push(p) PROVE IInv'
    BY <1>1, PushKeeps
  <1>2. ASSUME NEW p \in Producers, StoreTop(p) PROVE IInv'
    BY <1>2, StoreTopKeeps
  <1>3. CASE PushProcinfo
    BY <1>3, PushProcinfoKeeps
  <1>4. CASE Fetch
    BY <1>4, FetchKeeps
  <1>5. CASE CheckEmpty
    BY <1>5, CheckEmptyKeeps
  <1>6. CASE Load
    BY <1>6, LoadKeeps
  <1>7. CASE Check
    BY <1>7, CheckKeeps
  <1>8. CASE Pop
    BY <1>8, PopKeeps
  <1>9. CASE SetCachedTs \/ Tick \/ UNCHANGED vars
    BY <1>9, RestKeeps
  <1> QED BY <1>1, <1>2, <1>3, <1>4, <1>5, <1>6, <1>7, <1>8, <1>9 DEF Next, FetchNextEvent

(* The inductive invariant holds: the heap keeps its order whatever is     *)
(* pushed and popped, and m_queue_top is the first visible element.        *)
THEOREM QueueInvariant == Spec => []IInv
  <1>1. Init => IInv
    BY InitInv
  <1>2. IInv /\ [Next]_vars => IInv'
    BY NextInv
  <1> QED BY <1>1, <1>2, PTL DEF Spec

(* The queue stays within its capacity, the mutex has at most one owner,   *)
(* and every field keeps its type.                                         *)
THEOREM QueueTypes == Spec => []TypeOK
  <1>1. ASSUME IInv PROVE TypeOK
    <2>1. Range(m_queue) \subseteq Elem
      BY <1>1, TopIs DEF IInv, TypeInv
    <2>2. Cardinality({p \in Producers : ppc[p] = "store"}) <= 1
      <3> DEFINE S == {p \in Producers : ppc[p] = "store"}
      <3>1. \A p, q \in S : p = q
        BY <1>1 DEF IInv, QueueInv
      <3>2. S = {} \/ \E p : S = {p}
        BY <3>1
      <3> HIDE DEF S
      <3>3. Cardinality(S) \in {0, 1}
        BY <3>2, FS_EmptySet, FS_Singleton
      <3>4. Cardinality(S) <= 1
        BY <3>3, SMTT(60), Z3T(60)
      <3> QED BY <3>4 DEF S
    <2> QED BY <1>1, <2>1, <2>2 DEF IInv, TypeInv, TypeOK
  <1> QED BY <1>1, QueueInvariant, PTL

(* What the consumer reads through m_queue_top without the mutex is always *)
(* an element the queue owns.                                              *)
THEOREM TopNeverDangles == Spec => []NoDanglingTop
  <1>1. ASSUME IInv PROVE NoDanglingTop
    <2>1. Visible \subseteq Range(m_queue)
      BY DEF Visible
    <2>2. cpc = "load" => m_queue_top \in Visible
      BY <1>1, TopSeen DEF IInv, ConsInv
    <2> QED BY <1>1, <2>1, <2>2 DEF IInv, ConsInv, NoDanglingTop
  <1> QED BY <1>1, QueueInvariant, PTL

(* Every event the queue accepted is in it or was delivered, once.         *)
THEOREM DeliveredOnce == Spec => []AsyncExactlyOnce
  <1>1. ASSUME IInv PROVE AsyncExactlyOnce
    <2>1. dlv \in Seq(Nat) /\ Len(dlv) \in Nat /\ DOMAIN dlv = 1 .. Len(dlv)
      BY <1>1, LenProperties DEF IInv, TypeInv
    <2>2. \A i, k \in 1 .. Len(dlv) : dlv[i] = dlv[k] => i = k
      BY <1>1 DEF IInv, DlvInv
    <2>3. dlv \in Bijection(1 .. Len(dlv), Range(dlv))
      <3>1. \A e : e \in Range(dlv) <=> \E i \in 1 .. Len(dlv) : dlv[i] = e
        BY <2>1, InRange
      <3>2. dlv \in [1 .. Len(dlv) -> Range(dlv)]
        BY <2>1, <3>1, SMTT(60), Z3T(60)
      <3> QED BY <2>1, <2>2, <3>1, <3>2 DEF Bijection, Injection, Surjection, IsInjective
    <2>4. IsFiniteSet(1 .. Len(dlv)) /\ Cardinality(1 .. Len(dlv)) = Len(dlv)
      <3>1. 1 \in Int /\ Len(dlv) \in Int
        BY <2>1, SMTT(60), Z3T(60)
      <3>2. /\ IsFiniteSet(1 .. Len(dlv))
            /\ Cardinality(1 .. Len(dlv)) = IF 1 > Len(dlv) THEN 0 ELSE Len(dlv) - 1 + 1
        BY <3>1, FS_Interval
      <3>3. CASE Len(dlv) = 0
        BY <3>2, <3>3, SMTT(60), Z3T(60)
      <3>4. CASE Len(dlv) # 0
        <4>1. ~ (1 > Len(dlv)) /\ Len(dlv) - 1 + 1 = Len(dlv)
          BY <2>1, <3>4, SMTT(60), Z3T(60)
        <4> QED BY <3>2, <4>1
      <3> QED BY <3>3, <3>4
    <2>5. Cardinality(Range(dlv)) = Len(dlv)
      BY <2>3, <2>4, FS_Bijection DEF ExistsBijection
    <2> QED BY <1>1, <2>5 DEF IInv, DlvInv, AsyncExactlyOnce
  <1> QED BY <1>1, QueueInvariant, PTL

(* What next() returns is what EventMerge allows: as long as every queued  *)
(* event has a timestamp it is the first of those visible and of the event *)
(* of libscap, whatever producers push while the consumer decides without  *)
(* the mutex.                                                              *)
THEOREM QueueMerges == Spec => MergesByTimestamp
  <1>1. Init => Merge!MgInit
    BY SMTT(60), Z3T(60) DEF Init, Merge!MgInit, Visible, Range
  <1>2. ASSUME IInv, [Next]_vars PROVE [Merge!MgNext]_(Merge!mgvars)
    <2>0. ASSUME Visible' = Visible, m_pevt' = m_pevt, mixed' = mixed
          PROVE  UNCHANGED Merge!mgvars
      BY <2>0 DEF Merge!mgvars
    <2>1. \A e \in Visible : e.num \in 0 .. m_elem_counter - 1 /\ e.num \in Nat /\ m_elem_counter \in Nat
      BY <1>2, SMTT(60), Z3T(60) DEF IInv, QueueInv, TypeInv, Visible
    <2>2. ASSUME NEW p \in Producers, Push(p) PROVE UNCHANGED Merge!mgvars
      <3>1. Visible' = Visible
        BY <1>2, <2>2, PushKeeps
      <3>2. m_pevt' = m_pevt /\ mixed' = mixed
        BY <2>2 DEF Push, consumer
      <3> QED BY <2>0, <3>1, <3>2
    <2>3. ASSUME NEW p \in Producers, StoreTop(p) PROVE Merge!Inject
      <3>1. /\ Visible' = Visible \cup {Newest} /\ Newest \notin Visible
            /\ Newest.num = m_elem_counter - 1
        BY <1>2, <2>3, StoreTopKeeps
      <3>2. m_pevt' = m_pevt /\ mixed' = (mixed \/ Newest.ts = NoTs)
        BY <2>3 DEF StoreTop, consumer
      <3>3. \A f \in Visible : f.num < Newest.num
        <4>1. \A f \in Visible : f.num # m_elem_counter - 1
          <5>1. Locked
            BY <2>3 DEF StoreTop, Locked
          <5> QED BY <5>1 DEF Visible
        <4> QED BY <2>1, <3>1, <4>1, SMTT(60), Z3T(60)
      <3> QED BY <3>1, <3>2, <3>3 DEF Merge!Inject
    <2>4. ASSUME PushProcinfo PROVE [Merge!MgNext]_(Merge!mgvars)
      <3>1. /\ m_pevt' = m_pevt /\ mixed' = mixed
            /\ \/ Visible' = Visible
               \/ \E e : /\ e \notin Visible /\ Visible' = Visible \cup {e}
                         /\ e.num = m_elem_counter /\ e.ts # NoTs
        BY <1>2, <2>4, PushProcinfoKeeps
      <3>2. CASE Visible' = Visible
        BY <2>0, <3>1, <3>2
      <3>3. CASE \E e : /\ e \notin Visible /\ Visible' = Visible \cup {e}
                        /\ e.num = m_elem_counter /\ e.ts # NoTs
        <4>1. PICK e : /\ e \notin Visible /\ Visible' = Visible \cup {e}
                       /\ e.num = m_elem_counter /\ e.ts # NoTs
          BY <3>3
        <4>2. \A f \in Visible : f.num < e.num
          BY <2>1, <4>1, SMTT(60), Z3T(60)
        <4>3. mixed' = (mixed \/ e.ts = NoTs)
          BY <1>2, <3>1, <4>1 DEF IInv, TypeInv
        <4>4. Merge!Inject
          BY <3>1, <4>1, <4>2, <4>3 DEF Merge!Inject
        <4> QED BY <4>4 DEF Merge!MgNext
      <3> QED BY <3>1, <3>2, <3>3
    <2>5. ASSUME Fetch PROVE [Merge!MgNext]_(Merge!mgvars)
      <3>1. /\ Visible' = Visible /\ mixed' = mixed
            /\ m_pevt' = m_pevt \/ (m_pevt = 0 /\ m_pevt' # 0)
        BY <1>2, <2>5, FetchKeeps
      <3>2. m_pevt' # m_pevt => Merge!Fetch
        BY <3>1 DEF Merge!Fetch
      <3> QED BY <2>0, <3>1, <3>2 DEF Merge!MgNext
    <2>6. ASSUME CheckEmpty \/ Check PROVE [Merge!MgNext]_(Merge!mgvars)
      <3>1. /\ Visible' = Visible /\ mixed' = mixed
            /\ m_pevt' = m_pevt \/ (m_pevt' = 0 /\ (mixed \/ \A e \in Visible : m_pevt < e.ts))
        BY <1>2, <2>6, CheckEmptyKeeps, CheckKeeps
      <3>2. m_pevt' # m_pevt => Merge!DeliverScap
        BY <3>1 DEF Merge!DeliverScap
      <3> QED BY <2>0, <3>1, <3>2 DEF Merge!MgNext
    <2>7. ASSUME Pop PROVE [Merge!MgNext]_(Merge!mgvars)
      <3>1. /\ m_pevt' = m_pevt
            /\ \/ Visible' = Visible /\ mixed' = mixed
               \/ /\ top \in Visible /\ Visible' = Visible \ {top}
                  /\ mixed \/ \A e \in Visible \ {top} : Before(top, e)
                  /\ m_pevt # 0 /\ top.ts # NoTs => top.ts <= m_pevt
                  /\ mixed' = (mixed /\ Visible' # {})
        BY <1>2, <2>7, PopKeeps
      <3>2. ~(Visible' = Visible /\ mixed' = mixed) => Merge!DeliverAsync
        BY <3>1 DEF Merge!DeliverAsync, Merge!First, Before
      <3> QED BY <2>0, <3>1, <3>2 DEF Merge!MgNext
    <2>8. ASSUME Load \/ SetCachedTs \/ Tick \/ UNCHANGED vars PROVE UNCHANGED Merge!mgvars
      <3>1. Visible' = Visible /\ m_pevt' = m_pevt /\ mixed' = mixed
        BY <1>2, <2>8, LoadKeeps, RestKeeps
      <3> QED BY <2>0, <3>1
    <2> QED BY <1>2, <2>2, <2>3, <2>4, <2>5, <2>6, <2>7, <2>8
            DEF Next, FetchNextEvent, Merge!MgNext
  <1> QED BY <1>1, <1>2, QueueInvariant, PTL DEF Spec, MergesByTimestamp, Merge!MgSpec

=============================================================================
