---------------------------- MODULE KmodRingInv -----------------------------
(***************************************************************************)
(* The inductive invariant of KmodRing, that it holds initially, and that  *)
(* the steps of record_event_consumer up to the publishing preserve it.    *)
(* KmodRing_proofs continues with the move of the head, ringbuffer_next    *)
(* and the theorems.                                                       *)
(***************************************************************************)
EXTENDS KmodRing, FiniteSetTheorems, TLAPS

(* The prover of the steps that name none; arithmetic is left to SMT.     *)
USE ZenonT(40)

Active == {c \in Ctxs : pc[c] # "idle"}
WorkSet == {c \in Ctxs : pc[c] \in Working}

(* The distance from the tail to an address of the ring. *)
Dist(a) == IF a >= tail THEN a - tail ELSE a + Dim - tail

(* Where event i starts, or will start. *)
Start(i) == IF i <= nevents THEN at[i] ELSE head

(* The unreleased events lie end to end from tail to head. *)
LogInv ==
    /\ rel <= rd /\ rd <= lim /\ lim <= nevents
    /\ tail = Start(rel + 1)
    /\ \A i \in rel + 1 .. nevents :
          /\ HdrLen <= ln[i]
          /\ Dist(at[i]) + ln[i] = Dist(Start(i + 1))
          /\ Dist(at[i]) + ln[i] <= Dist(head)
    /\ \A i, j \in rel + 1 .. nevents :
          i < j => Dist(at[i]) + ln[i] <= Dist(at[j])

(* The block libscap holds starts at tail and ends where event lim ends;   *)
(* it stands before event rd + 1.                                          *)
ConsInv ==
    /\ cpc # "failed"
    /\ cpc = "refill" =>
          rel = rd /\ held = NoEvent /\ lastreadsize = 0 /\ sn_len = 0
    /\ cpc = "next" =>
          /\ lastreadsize = Dist(Start(lim + 1))
          /\ sn_len = lastreadsize - Dist(Start(rd + 1))
          /\ sn_next = tail + Dist(Start(rd + 1))
    /\ held # NoEvent =>
          /\ rel < rd
          /\ held = [id |-> rd, len |-> ln[rd], addr |-> tail + Dist(at[rd])]

(* What the context that owns the ring knows of it: its head is current,   *)
(* the space it saw is still free, and the event under way is complete.    *)
StageInv(c) ==
    /\ pc[c] \in {"fill", "wrap", "publish"} => h[c] = head
    /\ pc[c] = "fill" => Freespace(h[c], t[c]) <= Dim - 1 - Dist(head)
    /\ pc[c] \in {"wrap", "publish"} =>
          /\ HdrLen <= sz[c]
          /\ sz[c] <= Dim - 1 - Dist(head)
          /\ h[c] + sz[c] < Dim + Cushion
    /\ pc[c] = "wrap" =>
          \A k \in 0 .. sz[c] - 1 :
             buf[h[c] + k] = [id |-> nevents + 1, len |-> sz[c], off |-> k]
    /\ pc[c] = "publish" => IntactAt(nevents + 1, h[c], sz[c])

ProdInv == \A c \in Ctxs : StageInv(c)

IInv ==
    /\ TypeOK
    /\ GateExclusive
    /\ Accounting
    /\ LogInv
    /\ UnreleasedIntact
    /\ ConsInv
    /\ ProdInv

-----------------------------------------------------------------------------

(* The contexts inside the gate are finitely many, and one more or one     *)
(* fewer of them moves the count the preemption gate keeps by one.         *)
LEMMA ContextSets ==
    /\ IsFiniteSet(Active) /\ Cardinality(Active) \in Nat
    /\ IsFiniteSet(WorkSet) /\ Cardinality(WorkSet) \in Nat
  <1>1. IsFiniteSet(Ctxs)
    BY FS_Interval, RingAssumption, SMTT(60), Z3T(60) DEF Ctxs
  <1>2. Active \in SUBSET Ctxs /\ WorkSet \in SUBSET Ctxs
    BY DEF Active, WorkSet
  <1> QED BY <1>1, <1>2, FS_Subset, FS_CardinalityType

(* The inductive invariant holds when ppm_open has reset the ring.         *)
LEMMA InitInv == Init => IInv
  <1> SUFFICES ASSUME Init PROVE IInv
    OBVIOUS
  <1> USE RingAssumption DEF Init
  <1>1. TypeOK
    <2>1. RingType
      BY SMTT(60), Z3T(60) DEF RingType, Cell, Zero
    <2>2. CountType
      BY SMTT(60), Z3T(60) DEF CountType
    <2>3. CtxType
      BY SMTT(60), Z3T(60) DEF CtxType
    <2>4. ConsType
      BY SMTT(60), Z3T(60) DEF ConsType, NoEvent
    <2>5. LogType
      BY SMTT(60), Z3T(60) DEF LogType
    <2> QED BY <2>1, <2>2, <2>3, <2>4, <2>5 DEF TypeOK
  <1>2. Active = {} /\ WorkSet = {}
    BY DEF Active, WorkSet, Working
  <1>3. GateExclusive
    <2>1. preempt_count = Cardinality(Active)
      BY <1>2, FS_EmptySet
    <2>2. \A c \in Ctxs : pc[c] \notin Owning
      BY DEF Owning, Working
    <2> QED BY <2>1, <2>2 DEF GateExclusive, Active
  <1>4. Accounting
    <2>1. Cardinality(WorkSet) = 0
      BY <1>2, FS_EmptySet
    <2>2. n_evts = Settled + Cardinality(WorkSet)
      BY <2>1, SMTT(60), Z3T(60) DEF Settled
    <2> QED BY <2>2 DEF Accounting, WorkSet
  <1>5. LogInv
    BY SMTT(60), Z3T(60) DEF LogInv, Start
  <1>6. UnreleasedIntact
    BY SMTT(60), Z3T(60) DEF UnreleasedIntact
  <1>7. ConsInv
    BY SMTT(60), Z3T(60) DEF ConsInv, Dist, Start, NoEvent
  <1>8. ProdInv
    BY DEF ProdInv, StageInv
  <1> QED BY <1>1, <1>3, <1>4, <1>5, <1>6, <1>7, <1>8 DEF IInv

(* What a step that leaves the positions, the block and the history alone  *)
(* leaves true.                                                            *)
LEMMA LogFrame ==
    ASSUME LogType, ConsType, LogInv, ConsInv,
           UNCHANGED consvars, UNCHANGED <<head, nevents, at, ln>>
    PROVE  /\ LogType' /\ ConsType' /\ LogInv' /\ ConsInv'
           /\ Dist(head)' = Dist(head)
  <1> USE DEF consvars
  <1>1. LogType' /\ ConsType'
    BY DEF LogType, ConsType
  <1>2. \A a : Dist(a)' = Dist(a)
    BY DEF Dist
  <1>3. \A i : Start(i)' = Start(i)
    BY DEF Start
  <1>4. Dist(head)' = Dist(head)
    BY DEF Dist
  <1>5. LogInv'
    BY SMTT(60), Z3T(60) DEF LogInv, Dist, Start
  <1>6. ConsInv'
    BY DEF ConsInv, Dist, Start
  <1> QED BY <1>1, <1>4, <1>5, <1>6

(* Memory that does not change keeps every unreleased event intact.        *)
LEMMA IntactFrame ==
    ASSUME UnreleasedIntact, UNCHANGED <<buf, nevents, at, ln, rel>>
    PROVE  UnreleasedIntact'
  BY DEF UnreleasedIntact, IntactAt, View

(* A step of a context that is already past the gate, described by its old *)
(* and new stage, keeps the gate and the sets of contexts in order.        *)
LEMMA StageStep ==
    ASSUME CtxType, GateExclusive, NEW c \in Ctxs, NEW s \in Owning,
           pc[c] \in Owning, pc' = [pc EXCEPT ![c] = s],
           preempt_count' = preempt_count
    PROVE  /\ GateExclusive'
           /\ pc' \in [Ctxs -> Owning \cup {"idle", "bail"}]
           /\ pc'[c] = s
           /\ pc[c] \in Working /\ s \in Working => WorkSet' = WorkSet
           /\ pc[c] \in Working /\ s \notin Working =>
                 Cardinality(WorkSet') = Cardinality(WorkSet) - 1
           /\ \A d \in Ctxs : d # c => pc'[d] \in {"idle", "bail"}
  <1> USE RingAssumption
  <1>0. pc \in [Ctxs -> Owning \cup {"idle", "bail"}]
    BY DEF CtxType
  <1>1. pc'[c] = s /\ \A d \in Ctxs : d # c => pc'[d] = pc[d]
    BY <1>0
  <1>2. s # "idle" /\ pc[c] # "idle"
    BY DEF Owning, Working
  <1>3. Active' = Active
    BY <1>1, <1>2 DEF Active
  <1>4. \A d \in Ctxs : pc'[d] \in Owning => pc[d] \in Owning
    BY <1>1
  <1>5. GateExclusive'
    <2>1. preempt_count' = Cardinality(Active')
      BY <1>3 DEF GateExclusive, Active
    <2>2. \A d, e \in Ctxs : pc'[d] \in Owning /\ pc'[e] \in Owning => d = e
      BY <1>4 DEF GateExclusive
    <2> QED BY <2>1, <2>2 DEF GateExclusive, Active
  <1>6. pc[c] \in Working /\ s \in Working => WorkSet' = WorkSet
    BY <1>1 DEF WorkSet
  <1>7. ASSUME pc[c] \in Working, s \notin Working
        PROVE  Cardinality(WorkSet') = Cardinality(WorkSet) - 1
    <2>1. WorkSet' = WorkSet \ {c} /\ c \in WorkSet
      BY <1>7, <1>1 DEF WorkSet
    <2> QED BY <2>1, ContextSets, FS_RemoveElement
  <1>8. \A d \in Ctxs : d # c => pc'[d] \in {"idle", "bail"}
    <2>1. \A d \in Ctxs : d # c => pc[d] \notin Owning
      BY DEF GateExclusive
    <2> QED BY <1>0, <1>1, <2>1
  <1>9. pc' \in [Ctxs -> Owning \cup {"idle", "bail"}]
    BY <1>0
  <1> QED BY <1>1, <1>5, <1>6, <1>7, <1>8, <1>9

(* The other contexts are outside of the ring, so that only the context    *)
(* that moves matters to ProdInv.                                          *)
LEMMA OneStage ==
    ASSUME NEW c \in Ctxs, StageInv(c)',
           \A d \in Ctxs : d # c => pc'[d] \in {"idle", "bail"}
    PROVE  ProdInv'
  <1> SUFFICES ASSUME NEW d \in Ctxs, d # c PROVE StageInv(d)'
    BY DEF ProdInv
  <1>1. pc'[d] \in {"idle", "bail"}
    OBVIOUS
  <1> QED BY <1>1 DEF StageInv

(* A context that leaves the working stages settles one event.             *)
LEMMA SettleStep ==
    ASSUME RingType, CountType, Accounting,
           n_evts' = n_evts, Settled' = Settled + 1,
           Cardinality(WorkSet') = Cardinality(WorkSet) - 1
    PROVE  Accounting'
  <1>1. n_evts = Settled + Cardinality(WorkSet)
    BY DEF Accounting, WorkSet
  <1>2. Settled \in Nat
    BY RingAssumption, SMTT(60), Z3T(60) DEF Settled, RingType, CountType
  <1>3. n_evts' = Settled' + Cardinality(WorkSet')
    BY <1>1, <1>2, ContextSets, SMTT(60), Z3T(60)
  <1> QED BY <1>3 DEF Accounting, WorkSet

(* A step between two working stages moves no counter.                     *)
LEMMA SameCount ==
    ASSUME Accounting, WorkSet' = WorkSet,
           UNCHANGED <<n_evts, nevents, n_drops_buffer, n_drops_pf, n_skip>>
    PROVE  Accounting'
  <1>1. Settled' = Settled /\ n_evts' = n_evts
    BY DEF Settled
  <1> QED BY <1>1 DEF Accounting, WorkSet

(* Passing the gate, or finding it taken: in both cases one more context   *)
(* is inside.                                                              *)
LEMMA GateInv ==
    ASSUME IInv, NEW c \in Ctxs, Gate(c)
    PROVE  IInv'
  <1> USE RingAssumption
  <1>1. /\ RingType /\ CountType /\ CtxType /\ ConsType /\ LogType
        /\ GateExclusive /\ Accounting /\ LogInv /\ UnreleasedIntact /\ ConsInv /\ ProdInv
    BY DEF IInv, TypeOK
  <1>2. /\ pc[c] = "idle" /\ preempt_count' = preempt_count + 1
        /\ n_evts + n_preemptions < MaxHits
        /\ UNCHANGED <<head, buf, nevents, n_preemptions, n_drops_buffer, n_drops_pf,
                       n_skip, h, t, sz, at, ln>>
        /\ UNCHANGED consvars
    BY DEF Gate
  <1>3. RingType' /\ LogType' /\ ConsType' /\ LogInv' /\ ConsInv' /\ Dist(head)' = Dist(head)
    <2>1. RingType'
      BY <1>1, <1>2 DEF RingType, consvars
    <2> QED BY <2>1, <1>1, <1>2, LogFrame
  <1>4. UnreleasedIntact'
    BY <1>1, <1>2, IntactFrame DEF consvars
  <1>5. /\ preempt_count = Cardinality(Active)
        /\ \A d, e \in Ctxs : pc[d] \in Owning /\ pc[e] \in Owning => d = e
    BY <1>1 DEF GateExclusive, Active
  <1>6. pc \in [Ctxs -> Owning \cup {"idle", "bail"}]
    BY <1>1 DEF CtxType
  <1>7. ASSUME NEW s, s # "idle", pc' = [pc EXCEPT ![c] = s]
        PROVE  preempt_count' = Cardinality(Active')
    <2>1. Active' = Active \cup {c} /\ c \notin Active
      BY <1>2, <1>6, <1>7 DEF Active
    <2>2. Cardinality(Active') = Cardinality(Active) + 1
      BY <2>1, ContextSets, FS_AddElement
    <2> QED BY <2>2, <1>2, <1>5
  <1>8. CASE preempt_count = 0
    <2>1. \A d \in Ctxs : pc[d] = "idle"
      <3>1. Active = {}
        BY <1>5, <1>8, ContextSets, FS_EmptySet
      <3> QED BY <3>1 DEF Active
    <2>2. pc' = [pc EXCEPT ![c] = "read"] /\ n_evts' = n_evts + 1
      BY <1>8, SMTT(60), Z3T(60) DEF Gate
    <2>3. /\ pc'[c] = "read" /\ \A d \in Ctxs : d # c => pc'[d] = "idle"
          /\ "read" \in Working /\ "idle" \notin Owning
      BY <1>6, <2>1, <2>2 DEF Owning, Working
    <2>4. CountType'
      BY <1>1, <1>2, <2>2, SMTT(60), Z3T(60) DEF CountType
    <2>5. CtxType'
      BY <1>1, <1>2, <2>2, <2>3 DEF CtxType, Owning
    <2>6. GateExclusive'
      <3>1. preempt_count' = Cardinality(Active')
        BY <1>7, <2>2
      <3>2. \A d, e \in Ctxs : pc'[d] \in Owning /\ pc'[e] \in Owning => d = e
        BY <2>3
      <3> QED BY <3>1, <3>2 DEF GateExclusive, Active
    <2>7. Accounting'
      <3>1. WorkSet = {} /\ WorkSet' = {c}
        BY <2>1, <2>3 DEF WorkSet, Owning
      <3>2. Cardinality(WorkSet) = 0 /\ Cardinality(WorkSet') = 1
        BY <3>1, FS_EmptySet, FS_Singleton
      <3>3. n_evts = Settled + Cardinality(WorkSet)
        BY <1>1 DEF Accounting, WorkSet
      <3>4. Settled' = Settled /\ Settled \in Nat
        BY <1>1, <1>2, SMTT(60), Z3T(60) DEF Settled, RingType, CountType
      <3>5. n_evts' = Settled' + Cardinality(WorkSet')
        BY <3>2, <3>3, <3>4, <2>2, SMTT(60), Z3T(60)
      <3> QED BY <3>5 DEF Accounting, WorkSet
    <2>8. ProdInv'
      <3>1. StageInv(c)'
        BY <2>3 DEF StageInv
      <3> QED BY <3>1, <2>3, OneStage
    <2> QED BY <2>4, <2>5, <2>6, <2>7, <2>8, <1>3, <1>4 DEF IInv, TypeOK
  <1>9. CASE preempt_count # 0
    <2>1. pc' = [pc EXCEPT ![c] = "bail"] /\ n_evts' = n_evts
      <3>1. preempt_count + 1 # 1
        BY <1>9, <1>1, SMTT(60), Z3T(60) DEF CountType
      <3> QED BY <3>1 DEF Gate
    <2>2. /\ pc'[c] = "bail" /\ \A d \in Ctxs : d # c => pc'[d] = pc[d]
          /\ "bail" \notin Owning
      BY <1>6, <2>1 DEF Owning, Working
    <2>3. CountType'
      BY <1>1, <1>2, <2>1, SMTT(60), Z3T(60) DEF CountType
    <2>4. CtxType'
      BY <1>1, <1>2, <2>1 DEF CtxType
    <2>5. GateExclusive'
      <3>1. preempt_count' = Cardinality(Active')
        BY <1>7, <2>1
      <3>2. \A d, e \in Ctxs : pc'[d] \in Owning /\ pc'[e] \in Owning => d = e
        BY <1>5, <2>2
      <3> QED BY <3>1, <3>2 DEF GateExclusive, Active
    <2>6. Accounting'
      <3>1. WorkSet' = WorkSet
        BY <1>2, <2>2 DEF WorkSet, Working
      <3> QED BY <3>1, <1>1, <1>2, <2>1, SameCount
    <2>7. ProdInv'
      <3> SUFFICES ASSUME NEW d \in Ctxs PROVE StageInv(d)'
        BY DEF ProdInv
      <3>1. CASE d = c
        BY <3>1, <2>2 DEF StageInv
      <3>2. CASE d # c
        <4>1. StageInv(d) /\ pc'[d] = pc[d]
          BY <3>2, <1>1, <2>2 DEF ProdInv
        <4> QED BY <4>1, <1>2, <1>3 DEF StageInv, IntactAt, View, Freespace
      <3> QED BY <3>1, <3>2
    <2> QED BY <2>3, <2>4, <2>5, <2>6, <2>7, <1>3, <1>4 DEF IInv, TypeOK
  <1> QED BY <1>8, <1>9

(* Leaving the gate, by the early return or at the end, makes one context  *)
(* fewer inside and touches nothing else of the ring.                      *)
LEMMA LeaveInv ==
    ASSUME IInv, NEW c \in Ctxs, pc[c] \in {"bail", "exit"},
           pc' = [pc EXCEPT ![c] = "idle"],
           preempt_count' = preempt_count - 1, n_preemptions' \in Nat,
           UNCHANGED <<head, buf, nevents, n_evts, n_drops_buffer, n_drops_pf,
                       n_skip, h, t, sz, at, ln>>,
           UNCHANGED consvars
    PROVE  IInv'
  <1> USE RingAssumption
  <1>1. /\ RingType /\ CountType /\ CtxType /\ ConsType /\ LogType
        /\ GateExclusive /\ Accounting /\ LogInv /\ UnreleasedIntact /\ ConsInv /\ ProdInv
    BY DEF IInv, TypeOK
  <1>2. pc \in [Ctxs -> Owning \cup {"idle", "bail"}]
    BY <1>1 DEF CtxType
  <1>3. pc'[c] = "idle" /\ \A d \in Ctxs : d # c => pc'[d] = pc[d]
    BY <1>2
  <1>4. preempt_count = Cardinality(Active)
    BY <1>1 DEF GateExclusive, Active
  <1>5. preempt_count' = Cardinality(Active') /\ Cardinality(Active') \in Nat
    <2>1. Active' = Active \ {c} /\ c \in Active
      BY <1>3 DEF Active
    <2>2. Cardinality(Active') = Cardinality(Active) - 1 /\ IsFiniteSet(Active')
      BY <2>1, ContextSets, FS_RemoveElement
    <2>3. Cardinality(Active') \in Nat
      BY <2>2, FS_CardinalityType
    <2> QED BY <2>2, <2>3, <1>4
  <1>6. TypeOK' /\ LogInv' /\ ConsInv' /\ Dist(head)' = Dist(head)
    <2>1. RingType'
      BY <1>1 DEF RingType, consvars
    <2>2. CountType'
      BY <1>1, <1>5 DEF CountType
    <2>3. CtxType'
      BY <1>1 DEF CtxType
    <2> QED BY <2>1, <2>2, <2>3, <1>1, LogFrame DEF TypeOK
  <1>7. UnreleasedIntact'
    BY <1>1, IntactFrame DEF consvars
  <1>8. GateExclusive'
    <2>1. \A d \in Ctxs : pc'[d] \in Owning => pc[d] \in Owning
      BY <1>3 DEF Owning, Working
    <2>2. \A d, e \in Ctxs : pc'[d] \in Owning /\ pc'[e] \in Owning => d = e
      BY <1>1, <2>1 DEF GateExclusive
    <2> QED BY <1>5, <2>2 DEF GateExclusive, Active
  <1>9. Accounting'
    <2>1. WorkSet' = WorkSet
      BY <1>3 DEF WorkSet, Working
    <2> QED BY <2>1, <1>1, SameCount
  <1>10. ProdInv'
    <2> SUFFICES ASSUME NEW d \in Ctxs PROVE StageInv(d)'
      BY DEF ProdInv
    <2>1. CASE d = c
      BY <2>1, <1>3 DEF StageInv
    <2>2. CASE d # c
      <3>1. StageInv(d) /\ pc'[d] = pc[d]
        BY <2>2, <1>1, <1>3 DEF ProdInv
      <3> QED BY <3>1, <1>6 DEF StageInv, IntactAt, View, Freespace
    <2> QED BY <2>1, <2>2
  <1> QED BY <1>6, <1>7, <1>8, <1>9, <1>10 DEF IInv

(* The two ways out of the gate.                                           *)
LEMMA BailInv ==
    ASSUME IInv, NEW c \in Ctxs, Bail(c)
    PROVE  IInv'
  <1>1. n_preemptions' \in Nat
    BY SMTT(60), Z3T(60) DEF Bail, IInv, TypeOK, CountType
  <1> QED BY <1>1, LeaveInv DEF Bail

(* The end of record_event_consumer.                                       *)
LEMMA LeaveGateInv ==
    ASSUME IInv, NEW c \in Ctxs, LeaveGate(c)
    PROVE  IInv'
  <1>1. n_preemptions' \in Nat
    BY DEF LeaveGate, IInv, TypeOK, CountType
  <1> QED BY <1>1, LeaveInv DEF LeaveGate

-----------------------------------------------------------------------------
(* The steps that read the pointers and write into free memory: what was   *)
(* seen as free stays free, and what is written there disturbs no          *)
(* unreleased event.                                                       *)

(* Reading head and tail: what the context saw of the tail is at most as   *)
(* generous as the ring.                                                   *)
LEMMA ReadPointersInv ==
    ASSUME IInv, NEW c \in Ctxs, ReadPointers(c)
    PROVE  IInv'
  <1> USE RingAssumption
  <1>1. /\ RingType /\ CountType /\ CtxType /\ ConsType /\ LogType
        /\ GateExclusive /\ Accounting /\ LogInv /\ UnreleasedIntact /\ ConsInv
    BY DEF IInv, TypeOK
  <1>2. /\ pc[c] = "read" /\ pc' = [pc EXCEPT ![c] = "fill"]
        /\ h' = [h EXCEPT ![c] = head] /\ t' = [t EXCEPT ![c] = tail]
        /\ UNCHANGED <<head, buf, nevents, preempt_count, n_evts, n_preemptions,
                       n_drops_buffer, n_drops_pf, n_skip, sz, at, ln>>
        /\ UNCHANGED consvars
    BY DEF ReadPointers
  <1>3. /\ GateExclusive' /\ WorkSet' = WorkSet /\ pc'[c] = "fill"
        /\ pc' \in [Ctxs -> Owning \cup {"idle", "bail"}]
        /\ \A d \in Ctxs : d # c => pc'[d] \in {"idle", "bail"}
    <2>1. "read" \in Working /\ "fill" \in Working /\ Working \subseteq Owning
      BY DEF Owning, Working
    <2> QED BY <1>1, <1>2, <2>1, StageStep
  <1>4. TypeOK' /\ LogInv' /\ ConsInv' /\ Dist(head)' = Dist(head)
    <2>1. RingType' /\ CountType'
      BY <1>1, <1>2 DEF RingType, CountType, consvars
    <2>2. CtxType'
      BY <1>1, <1>2, <1>3 DEF CtxType, RingType
    <2> QED BY <2>1, <2>2, <1>1, <1>2, LogFrame DEF TypeOK
  <1>5. UnreleasedIntact' /\ Accounting'
    BY <1>1, <1>2, <1>3, IntactFrame, SameCount DEF consvars
  <1>6. StageInv(c)'
    <2>1. h'[c] = head /\ t'[c] = tail /\ head' = head
      BY <1>1, <1>2 DEF CtxType
    <2>2. Freespace(head, tail) <= Dim - 1 - Dist(head)
      BY <1>1, SMTT(60), Z3T(60) DEF RingType, Freespace, Dist
    <2>3. Freespace(h[c], t[c])' = Freespace(head, tail)
      BY <2>1 DEF Freespace
    <2> QED BY <1>3, <1>4, <2>1, <2>2, <2>3 DEF StageInv
  <1> QED BY <1>3, <1>4, <1>5, <1>6, OneStage DEF IInv

(* A drop for want of space even for the header.                           *)
LEMMA NoRoomInv ==
    ASSUME IInv, NEW c \in Ctxs, NoRoom(c)
    PROVE  IInv'
  <1> USE RingAssumption
  <1>1. /\ RingType /\ CountType /\ CtxType /\ ConsType /\ LogType
        /\ GateExclusive /\ Accounting /\ LogInv /\ UnreleasedIntact /\ ConsInv
    BY DEF IInv, TypeOK
  <1>2. /\ pc[c] = "fill" /\ pc' = [pc EXCEPT ![c] = "exit"]
        /\ n_drops_buffer' = n_drops_buffer + 1
        /\ UNCHANGED <<head, buf, nevents, preempt_count, n_evts, n_preemptions,
                       n_drops_pf, n_skip, h, t, sz, at, ln>>
        /\ UNCHANGED consvars
    BY DEF NoRoom
  <1>3. /\ GateExclusive' /\ Cardinality(WorkSet') = Cardinality(WorkSet) - 1
        /\ pc'[c] = "exit" /\ pc' \in [Ctxs -> Owning \cup {"idle", "bail"}]
        /\ \A d \in Ctxs : d # c => pc'[d] \in {"idle", "bail"}
    <2>1. "fill" \in Working /\ "exit" \in Owning /\ "exit" \notin Working
          /\ Working \subseteq Owning
      BY DEF Owning, Working
    <2> QED BY <1>1, <1>2, <2>1, StageStep
  <1>4. TypeOK' /\ LogInv' /\ ConsInv'
    <2>1. RingType' /\ CountType'
      BY <1>1, <1>2, SMTT(60), Z3T(60) DEF RingType, CountType, consvars
    <2>2. CtxType'
      BY <1>1, <1>2, <1>3 DEF CtxType
    <2> QED BY <2>1, <2>2, <1>1, <1>2, LogFrame DEF TypeOK
  <1>5. UnreleasedIntact'
    BY <1>1, <1>2, IntactFrame DEF consvars
  <1>6. Accounting'
    <2>1. Settled' = Settled + 1
      BY <1>1, <1>2, SMTT(60), Z3T(60) DEF Settled, RingType, CountType
    <2> QED BY <2>1, <1>1, <1>2, <1>3, SettleStep
  <1>7. StageInv(c)'
    BY <1>3 DEF StageInv
  <1> QED BY <1>3, <1>4, <1>5, <1>6, <1>7, OneStage DEF IInv

(* The bytes of an unreleased event lie outside the free bytes that follow *)
(* head, also where those wrap: neither a filler that respects freespace   *)
(* nor the cushion copy reaches them.                                      *)
LEMMA FreeIsDisjoint ==
    ASSUME RingType, LogType, LogInv, NEW n \in Nat, n <= Dim - 1 - Dist(head),
           NEW i \in rel + 1 .. nevents, NEW k \in 0 .. ln[i] - 1
    PROVE  /\ View(at[i] + k) \in 0 .. Dim - 1
           /\ ~ (head <= View(at[i] + k) /\ View(at[i] + k) < head + n)
           /\ ~ (View(at[i] + k) < head + n - Dim)
  <1> USE RingAssumption
  <1>1. i \in 1 .. MaxHits /\ at[i] \in 0 .. Dim - 1 /\ ln[i] \in Nat
    BY SMTT(60), Z3T(60) DEF RingType, LogType
  <1>2. Dist(at[i]) + ln[i] <= Dist(head)
    BY DEF LogInv
  <1>3. head \in 0 .. Dim - 1 /\ tail \in 0 .. Dim - 1
    BY DEF RingType
  <1> QED BY <1>1, <1>2, <1>3, SMTT(60), Z3T(60) DEF View, Dist

(* What is granted is a number. *)
LEMMA AvailInt ==
    ASSUME NEW hd \in Int, NEW tl \in Int
    PROVE  Avail(hd, tl) \in Int
  <1> USE RingAssumption
  <1>1. Freespace(hd, tl) \in Int
    BY SMTT(60), Z3T(60) DEF Freespace
  <1>2. DeltaFromEnd(hd) \in Int
    BY SMTT(60), Z3T(60) DEF DeltaFromEnd
  <1> QED BY <1>1, <1>2 DEF Avail

(* A distance from the tail is shorter than the ring. *)
LEMMA DistBound ==
    ASSUME NEW a \in 0 .. Dim - 1, tail \in 0 .. Dim - 1
    PROVE  Dist(a) \in 0 .. Dim - 1
  BY RingAssumption, SMTT(60), Z3T(60) DEF Dist

(* Memory that changes only in the free bytes leaves every unreleased      *)
(* event intact.                                                           *)
LEMMA FreeWrite ==
    ASSUME RingType, LogType, LogInv, UnreleasedIntact,
           NEW n \in Nat, n <= Dim - 1 - Dist(head),
           \A a \in 0 .. Dim - 1 :
              ~ (head <= a /\ a < head + n) /\ ~ (a < head + n - Dim)
                 => buf'[a] = buf[a],
           UNCHANGED <<nevents, at, ln, rel>>
    PROVE  UnreleasedIntact'
  <1>0. nevents' = nevents /\ at' = at /\ ln' = ln /\ rel' = rel
    OBVIOUS
  <1> SUFFICES ASSUME NEW i \in rel + 1 .. nevents, NEW k \in 0 .. ln[i] - 1
               PROVE  buf'[View(at[i] + k)] = [id |-> i, len |-> ln[i], off |-> k]
    BY <1>0 DEF UnreleasedIntact, IntactAt, View
  <1>1. buf[View(at[i] + k)] = [id |-> i, len |-> ln[i], off |-> k]
    BY DEF UnreleasedIntact, IntactAt
  <1>2. /\ View(at[i] + k) \in 0 .. Dim - 1
        /\ ~ (head <= View(at[i] + k) /\ View(at[i] + k) < head + n)
        /\ ~ (View(at[i] + k) < head + n - Dim)
    BY FreeIsDisjoint
  <1>3. buf'[View(at[i] + k)] = buf[View(at[i] + k)]
    BY <1>2
  <1> QED BY <1>1, <1>3

(* What fits the freespace a context computed is free, and ends inside the *)
(* cushion.                                                                *)
LEMMA AvailIsFree ==
    ASSUME RingType, CtxType, NEW c \in Ctxs, StageInv(c), pc[c] = "fill",
           NEW n \in Nat, n <= Avail(h[c], t[c])
    PROVE  h[c] = head /\ n <= Dim - 1 - Dist(head) /\ head + n < Dim + Cushion
  <1> USE RingAssumption
  <1>1. /\ h[c] = head /\ head \in 0 .. Dim - 1 /\ tail \in 0 .. Dim - 1
        /\ t[c] \in 0 .. Dim - 1
        /\ Freespace(h[c], t[c]) <= Dim - 1 - Dist(head)
    BY DEF RingType, CtxType, StageInv
  <1>2. Freespace(h[c], t[c]) \in Int /\ Dist(head) \in Int
        /\ DeltaFromEnd(h[c]) = Dim + Cushion - head - 1
    BY <1>1, SMTT(60), Z3T(60) DEF Freespace, Dist, DeltaFromEnd
  <1>3. n <= Freespace(h[c], t[c]) /\ n <= DeltaFromEnd(h[c])
    BY <1>1, <1>2, SMTT(60), Z3T(60) DEF Avail
  <1> QED BY <1>1, <1>2, <1>3, SMTT(60), Z3T(60)

(* A filler that succeeds writes only free bytes, and the whole event.     *)
LEMMA FillOkInv ==
    ASSUME IInv, NEW c \in Ctxs, FillOk(c)
    PROVE  IInv'
  <1> USE RingAssumption
  <1>1. /\ RingType /\ CountType /\ CtxType /\ ConsType /\ LogType
        /\ GateExclusive /\ Accounting /\ LogInv /\ UnreleasedIntact /\ ConsInv
        /\ StageInv(c)
    BY DEF IInv, TypeOK, ProdInv
  <1>2. /\ pc[c] = "fill" /\ pc' = [pc EXCEPT ![c] = "wrap"]
        /\ UNCHANGED <<head, nevents, preempt_count, n_evts, n_preemptions,
                       n_drops_buffer, n_drops_pf, n_skip, h, t, at, ln>>
        /\ UNCHANGED consvars
    BY DEF FillOk
  <1>3. PICK n \in EvLens : /\ n <= Avail(h[c], t[c])
                            /\ buf' = Fill(buf, h[c], nevents + 1, n)
                            /\ sz' = [sz EXCEPT ![c] = n]
    BY DEF FillOk
  <1>4. n \in Nat /\ HdrLen <= n
    BY LengthAssumption
  <1>5. h[c] = head /\ n <= Dim - 1 - Dist(head) /\ head + n < Dim + Cushion
    BY <1>1, <1>2, <1>3, <1>4, AvailIsFree
  <1>6. head \in 0 .. Dim - 1 /\ nevents \in Nat
    BY <1>1, SMTT(60), Z3T(60) DEF RingType
  <1>7. /\ GateExclusive' /\ WorkSet' = WorkSet /\ pc'[c] = "wrap"
        /\ pc' \in [Ctxs -> Owning \cup {"idle", "bail"}]
        /\ \A d \in Ctxs : d # c => pc'[d] \in {"idle", "bail"}
    <2>1. "fill" \in Working /\ "wrap" \in Working /\ Working \subseteq Owning
      BY DEF Owning, Working
    <2> QED BY <1>1, <1>2, <2>1, StageStep
  <1>8. /\ \A a \in Addrs : ~ (head <= a /\ a < head + n) => buf'[a] = buf[a]
        /\ \A a \in Addrs : head <= a /\ a < head + n =>
              buf'[a] = [id |-> nevents + 1, len |-> n, off |-> a - head]
        /\ DOMAIN buf' = Addrs /\ buf' = [a \in Addrs |-> buf'[a]]
    BY <1>3, <1>5 DEF Fill
  <1>9. buf' \in [Addrs -> Cell]
    <2>1. ASSUME NEW a \in Addrs PROVE buf'[a] \in Cell
      <3>1. buf[a] \in Cell
        BY <1>1 DEF RingType
      <3>2. a \in Int
        BY SMTT(60), Z3T(60) DEF Addrs
      <3>3. CASE head <= a /\ a < head + n
        <4>1. a - head \in Nat /\ nevents + 1 \in Nat
          BY <3>2, <3>3, <1>6, SMTT(60), Z3T(60)
        <4>2. buf'[a] = [id |-> nevents + 1, len |-> n, off |-> a - head]
          BY <1>8, <3>3
        <4>3. [id |-> nevents + 1, len |-> n, off |-> a - head] \in Cell
          BY <4>1, <1>4 DEF Cell
        <4> QED BY <4>2, <4>3
      <3> QED BY <3>1, <3>3, <1>8
    <2> QED BY <2>1, <1>8
  <1>10. TypeOK' /\ LogInv' /\ ConsInv' /\ Dist(head)' = Dist(head)
    <2>1. RingType' /\ CountType'
      BY <1>1, <1>2, <1>9 DEF RingType, CountType, consvars
    <2>2. CtxType'
      BY <1>1, <1>2, <1>3, <1>4, <1>7 DEF CtxType
    <2> QED BY <2>1, <2>2, <1>1, <1>2, LogFrame DEF TypeOK
  <1>11. Accounting'
    BY <1>1, <1>2, <1>7, SameCount
  <1>12. UnreleasedIntact'
    <2>1. \A a \in 0 .. Dim - 1 : ~ (head <= a /\ a < head + n) => buf'[a] = buf[a]
      BY <1>8, SMTT(60), Z3T(60) DEF Addrs
    <2>2. UNCHANGED <<nevents, at, ln, rel>>
      BY <1>2 DEF consvars
    <2> QED BY <2>1, <2>2, <1>1, <1>4, <1>5, FreeWrite
  <1>13. StageInv(c)'
    <2>1. h'[c] = head /\ sz'[c] = n /\ head' = head /\ nevents' = nevents
      BY <1>1, <1>2, <1>3, <1>5 DEF CtxType
    <2>2. \A k \in 0 .. n - 1 :
             buf'[head + k] = [id |-> nevents + 1, len |-> n, off |-> k]
      <3> TAKE k \in 0 .. n - 1
      <3>1. head + k \in Addrs /\ head <= head + k /\ head + k < head + n
            /\ (head + k) - head = k
        BY <1>4, <1>5, <1>6, SMTT(60), Z3T(60) DEF Addrs
      <3> QED BY <3>1, <1>8
    <2> QED BY <1>4, <1>5, <1>7, <1>10, <2>1, <2>2 DEF StageInv
  <1> QED BY <1>7, <1>10, <1>11, <1>12, <1>13, OneStage DEF IInv

(* A filler that fails has scribbled only over free bytes.                 *)
LEMMA FillFailInv ==
    ASSUME IInv, NEW c \in Ctxs, FillFail(c)
    PROVE  IInv'
  <1> USE RingAssumption
  <1>1. /\ RingType /\ CountType /\ CtxType /\ ConsType /\ LogType
        /\ GateExclusive /\ Accounting /\ LogInv /\ UnreleasedIntact /\ ConsInv
        /\ StageInv(c)
    BY DEF IInv, TypeOK, ProdInv
  <1>2. /\ pc[c] = "fill" /\ pc' = [pc EXCEPT ![c] = "exit"]
        /\ UNCHANGED <<head, nevents, preempt_count, n_evts, n_preemptions,
                       h, t, sz, at, ln>>
        /\ UNCHANGED consvars
    BY DEF FillFail
  <1>3. PICK k \in HdrLen .. Avail(h[c], t[c]) : buf' = Scribble(buf, h[c], k)
    BY DEF FillFail
  <1>4. h[c] = head /\ k \in Nat /\ k <= Dim - 1 - Dist(head)
    <2>1. k \in Nat /\ k <= Avail(h[c], t[c])
      <3>1. h[c] \in Int /\ t[c] \in Int
        BY <1>1, SMTT(60), Z3T(60) DEF CtxType
      <3>2. Avail(h[c], t[c]) \in Int
        BY <3>1, AvailInt
      <3> QED BY <3>2, SMTT(60), Z3T(60)
    <2> QED BY <2>1, <1>1, <1>2, AvailIsFree
  <1>5. /\ GateExclusive' /\ Cardinality(WorkSet') = Cardinality(WorkSet) - 1
        /\ pc'[c] = "exit" /\ pc' \in [Ctxs -> Owning \cup {"idle", "bail"}]
        /\ \A d \in Ctxs : d # c => pc'[d] \in {"idle", "bail"}
    <2>1. "fill" \in Working /\ "exit" \in Owning /\ "exit" \notin Working
          /\ Working \subseteq Owning
      BY DEF Owning, Working
    <2> QED BY <1>1, <1>2, <2>1, StageStep
  <1>6. /\ n_drops_buffer' \in Nat /\ n_drops_pf' \in Nat /\ n_skip' \in Nat
        /\ Settled' = Settled + 1
    <2>1. \/ n_drops_buffer' = n_drops_buffer + 1 /\ n_drops_pf' = n_drops_pf /\ n_skip' = n_skip
          \/ n_drops_buffer' = n_drops_buffer /\ n_drops_pf' = n_drops_pf + 1 /\ n_skip' = n_skip
          \/ n_drops_buffer' = n_drops_buffer /\ n_drops_pf' = n_drops_pf /\ n_skip' = n_skip + 1
      BY DEF FillFail
    <2>2. nevents \in Nat
      BY <1>1, SMTT(60), Z3T(60) DEF RingType
    <2>3. n_drops_buffer \in Nat /\ n_drops_pf \in Nat /\ n_skip \in Nat
      BY <1>1 DEF CountType
    <2>4. nevents' = nevents
      BY <1>2
    <2> QED BY <2>1, <2>2, <2>3, <2>4, SMTT(60), Z3T(60) DEF Settled
  <1>7. \A a \in Addrs : buf'[a] = IF head <= a /\ a < head + k THEN Torn ELSE buf[a]
    BY <1>3, <1>4 DEF Scribble
  <1>8. buf' \in [Addrs -> Cell]
    <2>1. Torn \in Cell
      BY DEF Torn, Cell
    <2>2. \A a \in Addrs : buf'[a] \in Cell
      BY <2>1, <1>1, <1>7 DEF RingType
    <2>3. buf' = [a \in Addrs |-> buf'[a]]
      BY <1>3 DEF Scribble
    <2> QED BY <2>2, <2>3
  <1>9. TypeOK' /\ LogInv' /\ ConsInv'
    <2>1. RingType' /\ CountType'
      BY <1>1, <1>2, <1>6, <1>8 DEF RingType, CountType, consvars
    <2>2. CtxType'
      BY <1>1, <1>2, <1>5 DEF CtxType
    <2> QED BY <2>1, <2>2, <1>1, <1>2, LogFrame DEF TypeOK
  <1>10. Accounting'
    BY <1>1, <1>2, <1>5, <1>6, SettleStep
  <1>11. UnreleasedIntact'
    <2>1. \A a \in 0 .. Dim - 1 : ~ (head <= a /\ a < head + k) => buf'[a] = buf[a]
      <3>1. 0 .. Dim - 1 \subseteq Addrs
        BY RingAssumption, SMTT(60), Z3T(60) DEF Addrs
      <3> QED BY <1>7, <3>1
    <2>2. UNCHANGED <<nevents, at, ln, rel>>
      BY <1>2 DEF consvars
    <2> QED BY <2>1, <2>2, <1>1, <1>4, FreeWrite
  <1>12. StageInv(c)'
    BY <1>5 DEF StageInv
  <1> QED BY <1>5, <1>9, <1>10, <1>11, <1>12, OneStage DEF IInv

(* A cell after the cushion copy. *)
LEMMA CopiedCell ==
    ASSUME NEW b, NEW next, NEW a \in Addrs
    PROVE  CopyCushion(b, next)[a] = IF a < next - Dim THEN b[a + Dim] ELSE b[a]
  BY DEF CopyCushion

(* The cushion copy completes the event under way and touches no other.    *)
LEMMA WrapInv ==
    ASSUME IInv, NEW c \in Ctxs, Wrap(c)
    PROVE  IInv'
  <1> USE RingAssumption
  <1>1. /\ RingType /\ CountType /\ CtxType /\ ConsType /\ LogType
        /\ GateExclusive /\ Accounting /\ LogInv /\ UnreleasedIntact /\ ConsInv
        /\ StageInv(c)
    BY DEF IInv, TypeOK, ProdInv
  <1>2. /\ pc[c] = "wrap" /\ pc' = [pc EXCEPT ![c] = "publish"]
        /\ buf' = CopyCushion(buf, h[c] + sz[c])
        /\ UNCHANGED <<head, nevents, preempt_count, n_evts, n_preemptions,
                       n_drops_buffer, n_drops_pf, n_skip, h, t, sz, at, ln>>
        /\ UNCHANGED consvars
    BY DEF Wrap
  <1>3. /\ GateExclusive' /\ WorkSet' = WorkSet /\ pc'[c] = "publish"
        /\ pc' \in [Ctxs -> Owning \cup {"idle", "bail"}]
        /\ \A d \in Ctxs : d # c => pc'[d] \in {"idle", "bail"}
    <2>1. "wrap" \in Working /\ "publish" \in Working /\ Working \subseteq Owning
      BY DEF Owning, Working
    <2> QED BY <1>1, <1>2, <2>1, StageStep
  <1> DEFINE n == sz[c]
  <1>4. /\ n \in Nat /\ HdrLen <= n /\ n <= Dim - 1 - Dist(head)
        /\ h[c] = head /\ head \in 0 .. Dim - 1 /\ tail \in 0 .. Dim - 1
        /\ head + n < Dim + Cushion
    BY <1>1, <1>2 DEF RingType, CtxType, StageInv
  <1>5. \A k \in 0 .. n - 1 :
           buf[head + k] = [id |-> nevents + 1, len |-> n, off |-> k]
    BY <1>1, <1>2, <1>4 DEF StageInv
  <1>6. \A a \in Addrs : buf'[a] = IF a < head + n - Dim THEN buf[a + Dim] ELSE buf[a]
    <2>1. h[c] + sz[c] = head + n
      BY <1>4
    <2>2. buf' = CopyCushion(buf, head + n)
      BY <1>2, <2>1
    <2> HIDE DEF n
    <2> TAKE a \in Addrs
    <2> DEFINE next == head + n
    <2>3. buf' = CopyCushion(buf, next)
      BY <2>2
    <2>4. next - Dim = head + n - Dim
      BY <1>4, SMTT(60), Z3T(60)
    <2> HIDE DEF next
    <2>5. CopyCushion(buf, next)[a] = IF a < next - Dim THEN buf[a + Dim] ELSE buf[a]
      BY CopiedCell
    <2>6. buf'[a] = IF a < next - Dim THEN buf[a + Dim] ELSE buf[a]
      BY <2>3, <2>5
    <2> QED BY <2>4, <2>6
  <1>7. buf' = [a \in Addrs |-> buf'[a]]
    BY <1>2 DEF CopyCushion
  <1>8. Dist(head) \in 0 .. Dim - 1
    BY <1>4, DistBound
  <1>9. sz'[c] = n /\ h'[c] = head /\ head' = head /\ nevents' = nevents
    BY <1>2, <1>4
  <1> HIDE DEF n
  <1>10. buf' \in [Addrs -> Cell]
    <2>1. ASSUME NEW a \in Addrs PROVE buf'[a] \in Cell
      <3>1. a < head + n - Dim => a + Dim \in Addrs
        BY <1>4, SMTT(60), Z3T(60) DEF Addrs
      <3> QED BY <3>1, <1>1, <1>6 DEF RingType
    <2> QED BY <2>1, <1>7
  <1>11. TypeOK' /\ LogInv' /\ ConsInv' /\ Dist(head)' = Dist(head)
    <2>1. RingType' /\ CountType'
      BY <1>1, <1>2, <1>10 DEF RingType, CountType, consvars
    <2>2. CtxType'
      BY <1>1, <1>2, <1>3 DEF CtxType
    <2> QED BY <2>1, <2>2, <1>1, <1>2, LogFrame DEF TypeOK
  <1>12. Accounting'
    BY <1>1, <1>2, <1>3, SameCount
  <1>13. UnreleasedIntact'
    <2>1. \A a \in 0 .. Dim - 1 : ~ (a < head + n - Dim) => buf'[a] = buf[a]
      BY <1>6, SMTT(60), Z3T(60) DEF Addrs
    <2>2. UNCHANGED <<nevents, at, ln, rel>>
      BY <1>2 DEF consvars
    <2> QED BY <2>1, <2>2, <1>1, <1>4, FreeWrite
  <1>14. ASSUME NEW k \in 0 .. n - 1
         PROVE  buf'[View(head + k)] = [id |-> nevents + 1, len |-> n, off |-> k]
    <2>1. CASE head + k < Dim
      <3>1. head + k \in Addrs /\ ~ (head + k < head + n - Dim) /\ View(head + k) = head + k
        BY <1>4, <1>8, <2>1, SMTT(60), Z3T(60) DEF View, Addrs
      <3> QED BY <3>1, <1>5, <1>6
    <2>2. CASE ~ (head + k < Dim)
      <3>1. /\ View(head + k) = head + k - Dim /\ head + k - Dim \in Addrs
            /\ head + k - Dim < head + n - Dim /\ (head + k - Dim) + Dim = head + k
        BY <1>4, <2>2, SMTT(60), Z3T(60) DEF View, Addrs
      <3> QED BY <3>1, <1>5, <1>6
    <2> QED BY <2>1, <2>2
  <1>15. StageInv(c)'
    <2>1. IntactAt(nevents + 1, h[c], sz[c])'
      BY <1>9, <1>14 DEF IntactAt, View
    <2> QED BY <1>3, <1>4, <1>9, <1>11, <2>1 DEF StageInv
  <1> QED BY <1>3, <1>11, <1>12, <1>13, <1>15, OneStage DEF IInv

=============================================================================
