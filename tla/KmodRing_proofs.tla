-------------------------- MODULE KmodRing_proofs ---------------------------
(***************************************************************************)
(* The ring of KmodRing never loses or corrupts a published event, for     *)
(* every buffer size, cushion, event length and nesting depth, and its     *)
(* preemption gate survives any number of reopens.                         *)
(***************************************************************************)
EXTENDS KmodRingInv, KmodReopen

(* The prover of the steps that name none; arithmetic is left to SMT.     *)
USE ZenonT(40)

(* Moving the head (record_event_consumer) and moving the tail             *)
(* (ringbuffer_advance_tail).                                              *)

(* What Publish does to the positions and the history: an event of n bytes *)
(* joins the ones between tail and head.                                   *)
Appends(n) ==
    /\ head' = View(head + n) /\ nevents' = nevents + 1
    /\ at' = [at EXCEPT ![nevents + 1] = head]
    /\ ln' = [ln EXCEPT ![nevents + 1] = n]
    /\ UNCHANGED <<tail, rel, lim, rd>>

(* Moving the head appends the event under way to the unreleased ones.     *)
LEMMA PublishLog ==
    ASSUME RingType, LogType, LogInv, NEW n \in Nat, HdrLen <= n,
           n <= Dim - 1 - Dist(head), nevents + 1 \in 1 .. MaxHits,
           Appends(n)
    PROVE  /\ head' \in 0 .. Dim - 1 /\ LogType' /\ LogInv'
           /\ \A i \in 1 .. nevents : at'[i] = at[i] /\ ln'[i] = ln[i]
           /\ at'[nevents + 1] = head /\ ln'[nevents + 1] = n
           /\ \A i \in 1 .. nevents + 1 : Start(i)' = Start(i)
           /\ \A i \in 1 .. nevents + 1 : Dist(Start(i))' = Dist(Start(i))
  <1> USE RingAssumption
  <1> DEFINE e == nevents + 1
  <1>1. /\ head \in 0 .. Dim - 1 /\ tail \in 0 .. Dim - 1 /\ nevents \in Nat
        /\ rel \in Nat /\ lim \in Nat /\ rd \in Nat /\ e \in 1 .. MaxHits
        /\ at \in [1 .. MaxHits -> 0 .. Dim - 1] /\ ln \in [1 .. MaxHits -> Nat]
    BY SMTT(60), Z3T(60) DEF RingType, LogType
  <1>0. nevents' = nevents + 1 /\ UNCHANGED <<tail, rel, lim, rd>>
    BY DEF Appends
  <1>2. /\ head' \in 0 .. Dim - 1 /\ Dist(head)' = Dist(head) + n
        /\ Dist(head) \in 0 .. Dim - 1
    BY <1>1, SMTT(60), Z3T(60) DEF View, Dist, Appends
  <1>3. LogType'
    <2>1. at' \in [1 .. MaxHits -> 0 .. Dim - 1]
      BY <1>1 DEF Appends
    <2>2. ln' \in [1 .. MaxHits -> Nat]
      BY <1>1 DEF Appends
    <2> QED BY <2>1, <2>2, <1>0, <1>1 DEF LogType
  <1>4. \A i \in 1 .. nevents : i \in 1 .. MaxHits /\ i # e
    BY <1>1, SMTT(60), Z3T(60)
  <1>5. /\ \A i \in 1 .. nevents : at'[i] = at[i] /\ ln'[i] = ln[i]
        /\ at'[e] = head /\ ln'[e] = n
    BY <1>1, <1>4 DEF Appends
  <1>6. \A i \in 1 .. nevents + 1 : Start(i)' = Start(i)
    <2> TAKE i \in 1 .. nevents + 1
    <2>1. CASE i \in 1 .. nevents
      <3>1. i <= nevents /\ i <= nevents'
        BY <1>0, <1>1, <2>1, SMTT(60), Z3T(60)
      <3>2. at'[i] = at[i]
        BY <1>5, <2>1
      <3> QED BY <3>1, <3>2 DEF Start
    <2>2. CASE i = e
      <3>1. ~ (i <= nevents) /\ i <= nevents'
        BY <1>0, <1>1, <2>2, SMTT(60), Z3T(60)
      <3> QED BY <3>1, <2>2, <1>5 DEF Start
    <2>3. i \in 1 .. nevents \/ i = e
      BY <1>1, SMTT(60), Z3T(60)
    <2> QED BY <2>1, <2>2, <2>3
  <1>7. \A i \in 1 .. nevents + 1 : Dist(Start(i))' = Dist(Start(i))
    BY <1>0, <1>6 DEF Dist
  <1> HIDE DEF e
  <1>8. (rel <= rd /\ rd <= lim /\ lim <= nevents)' /\ (tail = Start(rel + 1))'
    <2>1. rel <= rd /\ rd <= lim /\ lim <= nevents /\ tail = Start(rel + 1)
      BY DEF LogInv
    <2>2. rel + 1 \in 1 .. nevents + 1
      BY <2>1, <1>1, SMTT(60), Z3T(60)
    <2>3. \A i \in 1 .. nevents + 1 : i = rel + 1 => Start(rel + 1)' = Start(i)'
      BY <1>0 DEF Start
    <2>4. Start(rel + 1)' = Start(rel + 1)
      BY <2>2, <2>3, <1>6
    <2> QED BY <2>1, <2>4, <1>0, <1>1, SMTT(60), Z3T(60)
  <1>9. ASSUME NEW i \in rel + 1 .. nevents
        PROVE  /\ i \in 1 .. nevents /\ at[i] \in 0 .. Dim - 1 /\ ln[i] \in Nat
               /\ Dist(at[i]) \in 0 .. Dim - 1
               /\ at'[i] = at[i] /\ ln'[i] = ln[i] /\ Dist(at[i])' = Dist(at[i])
               /\ HdrLen <= ln[i]
               /\ Dist(at[i]) + ln[i] = Dist(Start(i + 1))
               /\ Dist(at[i]) + ln[i] <= Dist(head)
    <2>1. i \in 1 .. nevents /\ i \in 1 .. MaxHits
      BY <1>1, <1>4, SMTT(60), Z3T(60)
    <2>2. at[i] \in 0 .. Dim - 1 /\ ln[i] \in Nat
      BY <1>1, <2>1
    <2>3. Dist(at[i]) \in 0 .. Dim - 1
      BY <1>1, <2>2, DistBound
    <2>4. at'[i] = at[i] /\ ln'[i] = ln[i]
      BY <1>5, <2>1
    <2>5. Dist(at[i])' = Dist(at[i])
      BY <1>0, <2>4 DEF Dist
    <2>6. /\ HdrLen <= ln[i]
          /\ Dist(at[i]) + ln[i] = Dist(Start(i + 1))
          /\ Dist(at[i]) + ln[i] <= Dist(head)
      BY DEF LogInv
    <2> QED BY <2>1, <2>2, <2>3, <2>4, <2>5, <2>6
  <1>10. \A i \in rel + 1 .. nevents + 1 : i = e => Dist(at[i])' = Dist(head)
    <2> SUFFICES ASSUME NEW i \in rel + 1 .. nevents + 1, i = e
                 PROVE  Dist(at[i])' = Dist(head)
      OBVIOUS
    <2>1. at'[i] = head /\ tail' = tail
      BY <1>0, <1>5
    <2> QED BY <2>1 DEF Dist
  <1>11. ASSUME NEW i \in rel + 1 .. nevents + 1
         PROVE  /\ HdrLen <= ln'[i]
                /\ Dist(at[i])' + ln'[i] = Dist(Start(i + 1))'
                /\ Dist(at[i])' + ln'[i] <= Dist(head)'
    <2>1. CASE i = e
      <3>1. Start(i + 1)' = head'
        BY <2>1, <1>0, <1>1, SMTT(60), Z3T(60) DEF Start, e
      <3>2. Dist(Start(i + 1))' = Dist(head)'
        BY <3>1 DEF Dist
      <3>3. Dist(at[i])' = Dist(head) /\ ln'[i] = n
        BY <2>1, <1>5, <1>10
      <3> QED BY <3>2, <3>3, <1>2, SMTT(60), Z3T(60)
    <2>2. CASE i # e
      <3>1. i \in rel + 1 .. nevents /\ i + 1 \in 1 .. nevents + 1
        BY <2>2, <1>1, SMTT(60), Z3T(60) DEF e
      <3>2. Dist(Start(i + 1))' = Dist(Start(i + 1))
        BY <3>1, <1>7
      <3>3. /\ Dist(at[i])' = Dist(at[i]) /\ ln'[i] = ln[i] /\ HdrLen <= ln[i]
            /\ Dist(at[i]) + ln[i] = Dist(Start(i + 1))
            /\ Dist(at[i]) + ln[i] <= Dist(head)
            /\ Dist(at[i]) \in 0 .. Dim - 1 /\ ln[i] \in Nat
        BY <1>9, <3>1
      <3> QED BY <3>2, <3>3, <1>2, SMTT(60), Z3T(60)
    <2> QED BY <2>1, <2>2
  <1>12. ASSUME NEW i \in rel + 1 .. nevents + 1, NEW j \in rel + 1 .. nevents + 1, i < j
         PROVE  Dist(at[i])' + ln'[i] <= Dist(at[j])'
    <2>1. i \in rel + 1 .. nevents
      BY <1>12, <1>1, SMTT(60), Z3T(60)
    <2>2. Dist(at[i])' = Dist(at[i]) /\ ln'[i] = ln[i] /\ Dist(at[i]) + ln[i] <= Dist(head)
      BY <2>1, <1>9
    <2>3. CASE j = e
      <3>1. Dist(at[j])' = Dist(head)
        BY <2>3, <1>10
      <3> QED BY <2>2, <3>1
    <2>4. CASE j # e
      <3>1. j \in rel + 1 .. nevents
        BY <2>4, <1>1, SMTT(60), Z3T(60) DEF e
      <3>2. Dist(at[j])' = Dist(at[j])
        BY <3>1, <1>9
      <3>3. Dist(at[i]) + ln[i] <= Dist(at[j])
        BY <1>12, <2>1, <3>1 DEF LogInv
      <3> QED BY <2>2, <3>2, <3>3
    <2> QED BY <2>3, <2>4
  <1>13. LogInv'
    <2> QED BY <1>0, <1>8, <1>11, <1>12 DEF LogInv
  <1> QED BY <1>2, <1>3, <1>5, <1>6, <1>7, <1>13 DEF e

(* The new head is published: the event under way is complete, so every    *)
(* unreleased event, this one included, is intact.                         *)
LEMMA PublishInv ==
    ASSUME IInv, NEW c \in Ctxs, Publish(c)
    PROVE  IInv'
  <1> USE RingAssumption
  <1>1. /\ RingType /\ CountType /\ CtxType /\ ConsType /\ LogType
        /\ GateExclusive /\ Accounting /\ LogInv /\ UnreleasedIntact /\ ConsInv
        /\ StageInv(c)
    BY DEF IInv, TypeOK, ProdInv
  <1>2. /\ pc[c] = "publish" /\ pc' = [pc EXCEPT ![c] = "exit"]
        /\ head' = View(h[c] + sz[c]) /\ nevents' = nevents + 1
        /\ at' = [at EXCEPT ![nevents + 1] = h[c]]
        /\ ln' = [ln EXCEPT ![nevents + 1] = sz[c]]
        /\ UNCHANGED <<buf, preempt_count, n_evts, n_preemptions, n_drops_buffer,
                       n_drops_pf, n_skip, h, t, sz>>
        /\ UNCHANGED consvars
    BY DEF Publish, NextHead
  <1>3. /\ GateExclusive' /\ Cardinality(WorkSet') = Cardinality(WorkSet) - 1
        /\ pc'[c] = "exit" /\ pc' \in [Ctxs -> Owning \cup {"idle", "bail"}]
        /\ \A d \in Ctxs : d # c => pc'[d] \in {"idle", "bail"}
    <2>1. "publish" \in Working /\ "exit" \in Owning /\ "exit" \notin Working
          /\ Working \subseteq Owning
      BY DEF Owning, Working
    <2> QED BY <1>1, <1>2, <2>1, StageStep
  <1> DEFINE n == sz[c]
  <1>4. /\ n \in Nat /\ HdrLen <= n /\ n <= Dim - 1 - Dist(head) /\ h[c] = head
        /\ IntactAt(nevents + 1, head, n)
    BY <1>1, <1>2 DEF CtxType, StageInv
  <1>5. nevents + 1 \in 1 .. MaxHits
    <2>1. c \in WorkSet
      BY <1>2 DEF WorkSet, Working
    <2>2. Cardinality(WorkSet) > 0
      BY <2>1, ContextSets, FS_EmptySet, SMTT(60), Z3T(60)
    <2>3. n_evts = Settled + Cardinality(WorkSet)
      BY <1>1 DEF Accounting, WorkSet
    <2> QED BY <2>2, <2>3, <1>1, ContextSets, SMTT(60), Z3T(60) DEF Settled, RingType, CountType
  <1>6. UNCHANGED <<tail, rel, lim, rd>>
    BY <1>2 DEF consvars
  <1>7. Appends(n)
    BY <1>2, <1>4, <1>6 DEF Appends
  <1> HIDE DEF n
  <1>8. /\ head' \in 0 .. Dim - 1 /\ LogType' /\ LogInv'
        /\ \A i \in 1 .. nevents : at'[i] = at[i] /\ ln'[i] = ln[i]
        /\ at'[nevents + 1] = head /\ ln'[nevents + 1] = n
        /\ \A i \in 1 .. nevents + 1 : Dist(Start(i))' = Dist(Start(i))
    BY <1>1, <1>4, <1>5, <1>7, PublishLog
  <1>9. rel \in Nat /\ rd \in Nat /\ lim \in Nat /\ nevents \in Nat
        /\ rel <= rd /\ rd <= lim /\ lim <= nevents
    BY <1>1, SMTT(60), Z3T(60) DEF RingType, LogType, LogInv
  <1>10. TypeOK'
    <2>1. RingType'
      BY <1>1, <1>2, <1>5, <1>6, <1>8, SMTT(60), Z3T(60) DEF RingType
    <2>2. CountType'
      BY <1>1, <1>2 DEF CountType
    <2>3. CtxType'
      BY <1>1, <1>2, <1>3 DEF CtxType
    <2>4. ConsType'
      BY <1>1, <1>2 DEF ConsType, consvars
    <2> QED BY <2>1, <2>2, <2>3, <2>4, <1>8 DEF TypeOK
  <1>11. Accounting'
    <2>1. Settled' = Settled + 1
      BY <1>1, <1>2, <1>9, SMTT(60), Z3T(60) DEF Settled, CountType
    <2> QED BY <2>1, <1>1, <1>2, <1>3, SettleStep
  <1>12. UnreleasedIntact'
    <2> SUFFICES ASSUME NEW i \in rel + 1 .. nevents + 1
                 PROVE  IntactAt(i, at[i], ln[i])'
      BY <1>2, <1>6 DEF UnreleasedIntact
    <2>1. CASE i = nevents + 1
      BY <2>1, <1>2, <1>4, <1>8, SMTT(60), Z3T(60) DEF IntactAt, View
    <2>2. CASE i # nevents + 1
      <3>1. i \in rel + 1 .. nevents /\ i \in 1 .. nevents
        BY <2>2, <1>9, SMTT(60), Z3T(60)
      <3>2. IntactAt(i, at[i], ln[i])
        BY <3>1, <1>1 DEF UnreleasedIntact
      <3> QED BY <3>1, <3>2, <1>2, <1>8, SMTT(60), Z3T(60) DEF IntactAt, View
    <2> QED BY <2>1, <2>2
  <1>13. ConsInv'
    <2>1. Dist(Start(lim + 1))' = Dist(Start(lim + 1))
      <3>1. lim + 1 \in 1 .. nevents + 1
        BY <1>9, SMTT(60), Z3T(60)
      <3>2. \A i \in 1 .. nevents + 1 : i = lim + 1 => Dist(Start(i))' = Dist(Start(lim + 1))'
        BY <1>6 DEF Dist, Start
      <3> QED BY <3>1, <3>2, <1>8
    <2>2. Dist(Start(rd + 1))' = Dist(Start(rd + 1))
      <3>1. rd + 1 \in 1 .. nevents + 1
        BY <1>9, SMTT(60), Z3T(60)
      <3>2. \A i \in 1 .. nevents + 1 : i = rd + 1 => Dist(Start(i))' = Dist(Start(rd + 1))'
        BY <1>6 DEF Dist, Start
      <3> QED BY <3>1, <3>2, <1>8
    <2>3. rel < rd => ln'[rd] = ln[rd] /\ Dist(at[rd])' = Dist(at[rd])
      <3>1. rel < rd => rd \in 1 .. nevents
        BY <1>9, SMTT(60), Z3T(60)
      <3> QED BY <3>1, <1>6, <1>8 DEF Dist
    <2>4. UNCHANGED <<cpc, held, lastreadsize, sn_len, sn_next, tail, rel, rd>>
      BY <1>2 DEF consvars
    <2> QED BY <2>1, <2>2, <2>3, <2>4, <1>1 DEF ConsInv
  <1>14. StageInv(c)'
    BY <1>3 DEF StageInv
  <1> QED BY <1>3, <1>8, <1>10, <1>11, <1>12, <1>13, <1>14, OneStage DEF IInv

-----------------------------------------------------------------------------
(* A step of the consumer leaves the counters and the contexts alone.      *)
LEMMA ConsumerFrame ==
    ASSUME IInv, UNCHANGED prodvars
    PROVE  /\ CountType' /\ CtxType' /\ GateExclusive' /\ Accounting'
           /\ UNCHANGED <<head, nevents, at, ln, buf, pc, h, t, sz>>
  <1>1. UNCHANGED <<head, nevents, at, ln, buf, pc, h, t, sz>>
    BY DEF prodvars
  <1>2. UNCHANGED <<preempt_count, n_evts, n_preemptions, n_drops_buffer,
                    n_drops_pf, n_skip>>
    BY DEF prodvars
  <1>3. CountType' /\ CtxType'
    <2>1. CountType /\ CtxType
      BY DEF IInv, TypeOK, RingType, LogType
    <2>2. CountType'
      BY <2>1, <1>2 DEF CountType
    <2>3. CtxType'
      BY <2>1, <1>1 DEF CtxType
    <2> QED BY <2>2, <2>3
  <1>4. GateExclusive'
    <2>1. GateExclusive
      BY DEF IInv
    <2> QED BY <2>1, <1>1, <1>2 DEF GateExclusive
  <1>5. Accounting'
    <2>1. Accounting
      BY DEF IInv
    <2>2. WorkSet' = WorkSet
      BY <1>1 DEF WorkSet
    <2> QED BY <2>1, <2>2, <1>1, <1>2, SameCount
  <1> QED BY <1>1, <1>3, <1>4, <1>5

(* Nor does it disturb the context that owns the ring, as long as the tail *)
(* does not move away from the head.                                       *)
LEMMA StageFrame ==
    ASSUME ProdInv, CtxType, UNCHANGED <<head, nevents, buf, pc, h, t, sz>>,
           Dist(head) \in Int, Dist(head)' \in Int, Dist(head)' <= Dist(head)
    PROVE  ProdInv'
  <1> USE RingAssumption
  <1> SUFFICES ASSUME NEW c \in Ctxs PROVE StageInv(c)'
    BY DEF ProdInv
  <1>1. StageInv(c)
    BY DEF ProdInv
  <1>2. h[c] \in 0 .. Dim - 1 /\ t[c] \in 0 .. Dim - 1 /\ sz[c] \in Nat
    BY DEF CtxType
  <1>3. Freespace(h[c], t[c]) \in Int /\ Freespace(h[c], t[c])' = Freespace(h[c], t[c])
    BY <1>2, SMTT(60), Z3T(60) DEF Freespace
  <1>4. IntactAt(nevents + 1, h[c], sz[c])' = IntactAt(nevents + 1, h[c], sz[c])
    BY DEF IntactAt, View
  <1>5. (pc[c] \in {"fill", "wrap", "publish"} => h[c] = head)'
    BY <1>1 DEF StageInv
  <1>6. (pc[c] = "fill" => Freespace(h[c], t[c]) <= Dim - 1 - Dist(head))'
    BY <1>1, <1>3, SMTT(60), Z3T(60) DEF StageInv
  <1>7. (pc[c] \in {"wrap", "publish"} =>
          /\ HdrLen <= sz[c]
          /\ sz[c] <= Dim - 1 - Dist(head)
          /\ h[c] + sz[c] < Dim + Cushion)'
    BY <1>1, <1>2, SMTT(60), Z3T(60) DEF StageInv
  <1>8. (pc[c] = "wrap" =>
          \A k \in 0 .. sz[c] - 1 :
             buf[h[c] + k] = [id |-> nevents + 1, len |-> sz[c], off |-> k])'
    BY <1>1 DEF StageInv
  <1>9. (pc[c] = "publish" => IntactAt(nevents + 1, h[c], sz[c]))'
    BY <1>1, <1>4 DEF StageInv
  <1> QED BY <1>5, <1>6, <1>7, <1>8, <1>9 DEF StageInv

(* The positions the consumer depends on are inside the ring, and the      *)
(* event at rd + 1, while the block has one, ends inside the block.        *)
LEMMA BlockShape ==
    ASSUME IInv
    PROVE  /\ \A i \in Nat \ {0} : Start(i) \in 0 .. Dim - 1
           /\ \A a \in 0 .. Dim - 1 :
                 Dist(a) \in 0 .. Dim - 1 /\ View(tail + Dist(a)) = a
           /\ rd < lim =>
                 /\ rd + 1 \in rel + 1 .. nevents /\ rd + 1 \in 1 .. nevents
                 /\ Start(rd + 1) = at[rd + 1]
                 /\ HdrLen <= ln[rd + 1]
                 /\ Dist(at[rd + 1]) + ln[rd + 1] <= Dist(Start(lim + 1))
  <1> USE RingAssumption
  <1>1. /\ head \in 0 .. Dim - 1 /\ tail \in 0 .. Dim - 1
        /\ rel \in Nat /\ rd \in Nat /\ lim \in Nat /\ nevents \in 0 .. MaxHits
        /\ at \in [1 .. MaxHits -> 0 .. Dim - 1]
    BY DEF IInv, TypeOK, RingType, LogType
  <1>2. \A i \in Nat \ {0} : Start(i) \in 0 .. Dim - 1
    BY <1>1, SMTT(60), Z3T(60) DEF Start
  <1>3. \A a \in 0 .. Dim - 1 :
           Dist(a) \in 0 .. Dim - 1 /\ View(tail + Dist(a)) = a
    BY <1>1, SMTT(60), Z3T(60) DEF Dist, View
  <1>4. ASSUME rd < lim
        PROVE  /\ rd + 1 \in rel + 1 .. nevents /\ rd + 1 \in 1 .. nevents
               /\ Start(rd + 1) = at[rd + 1]
               /\ HdrLen <= ln[rd + 1]
               /\ Dist(at[rd + 1]) + ln[rd + 1] <= Dist(Start(lim + 1))
    <2>1. rel <= rd /\ lim <= nevents
      BY DEF IInv, LogInv
    <2>2. rd + 1 \in rel + 1 .. nevents /\ rd + 1 \in 1 .. nevents
      BY <1>1, <1>4, <2>1, SMTT(60), Z3T(60)
    <2>3. Start(rd + 1) = at[rd + 1]
      BY <2>2, SMTT(60), Z3T(60) DEF Start
    <2>4. /\ HdrLen <= ln[rd + 1]
          /\ Dist(at[rd + 1]) + ln[rd + 1] <= Dist(head)
      BY <2>2 DEF IInv, LogInv
    <2>5. Dist(at[rd + 1]) + ln[rd + 1] <= Dist(Start(lim + 1))
      <3>1. CASE lim + 1 <= nevents
        <4>1. lim + 1 \in rel + 1 .. nevents /\ rd + 1 < lim + 1
          BY <1>1, <1>4, <2>1, <3>1, SMTT(60), Z3T(60)
        <4>2. Start(lim + 1) = at[lim + 1]
          BY <3>1 DEF Start
        <4> QED BY <2>2, <4>1, <4>2 DEF IInv, LogInv
      <3>2. CASE ~ (lim + 1 <= nevents)
        <4>1. Start(lim + 1) = head
          BY <3>2 DEF Start
        <4> QED BY <2>4, <4>1
      <3> QED BY <3>1, <3>2
    <2> QED BY <2>2, <2>3, <2>4, <2>5
  <1> QED BY <1>2, <1>3, <1>4

(* An exhausted block ends where event rd ends: giving it back releases the *)
(* events up to rd, and only them.                                         *)
LEMMA AdvanceTailInv ==
    ASSUME IInv, AdvanceTail
    PROVE  IInv'
  <1> USE RingAssumption
  <1>1. /\ head \in 0 .. Dim - 1 /\ tail \in 0 .. Dim - 1
        /\ rel \in Nat /\ rd \in Nat /\ lim \in Nat /\ nevents \in 0 .. MaxHits
        /\ at \in [1 .. MaxHits -> 0 .. Dim - 1] /\ ln \in [1 .. MaxHits -> Nat]
    BY DEF IInv, TypeOK, RingType, LogType
  <1>2. rel <= rd /\ rd <= lim /\ lim <= nevents
    BY DEF IInv, LogInv
  <1> DEFINE S == Start(rd + 1)
  <1>3. /\ lastreadsize = Dist(Start(lim + 1))
        /\ 0 = lastreadsize - Dist(S)
    BY DEF AdvanceTail, IInv, ConsInv
  <1>4. S \in 0 .. Dim - 1 /\ Dist(S) \in 0 .. Dim - 1 /\ View(tail + Dist(S)) = S
        /\ Start(lim + 1) \in 0 .. Dim - 1 /\ Dist(Start(lim + 1)) \in 0 .. Dim - 1
    <2>1. rd + 1 \in Nat \ {0} /\ lim + 1 \in Nat \ {0}
      BY <1>1, SMTT(60), Z3T(60)
    <2>2. S \in 0 .. Dim - 1 /\ Start(lim + 1) \in 0 .. Dim - 1
      BY <2>1, BlockShape
    <2> HIDE DEF S
    <2> QED BY <2>2, BlockShape
  <1>5. rd = lim
    <2>1. CASE rd < lim
      <3>1. S = at[rd + 1] /\ HdrLen <= ln[rd + 1] /\ rd + 1 \in 1 .. nevents
            /\ Dist(at[rd + 1]) + ln[rd + 1] <= Dist(Start(lim + 1))
        BY <2>1, BlockShape
      <3>2. ln[rd + 1] \in Nat
        BY <1>1, <3>1, SMTT(60), Z3T(60)
      <3> HIDE DEF S
      <3> QED BY <1>3, <1>4, <3>1, <3>2, SMTT(60), Z3T(60)
    <2> QED BY <2>1, <1>1, <1>2, SMTT(60), Z3T(60)
  <1>6. /\ tail' = S /\ rel' = rd /\ held' = NoEvent /\ lastreadsize' = 0
        /\ cpc' = "refill" /\ sn_len' = 0
        /\ UNCHANGED <<sn_next, lim, rd, prodvars>>
    <2>1. lastreadsize = Dist(S)
      BY <1>3, <1>4, SMTT(60), Z3T(60)
    <2> QED BY <2>1, <1>4 DEF AdvanceTail
  <1>7. UNCHANGED <<head, nevents, at, ln, buf, pc, h, t, sz>>
    BY <1>6 DEF prodvars
  <1>8. \A i \in Nat : Start(i)' = Start(i)
    BY <1>7 DEF Start
  <1> HIDE DEF S
  <1>9. \A a \in 0 .. Dim - 1 :
           Dist(S) <= Dist(a) => Dist(a)' = Dist(a) - Dist(S)
    BY <1>1, <1>4, <1>6, SMTT(60), Z3T(60) DEF Dist
  <1>10. Dist(S) <= Dist(head) /\ Dist(head) \in 0 .. Dim - 1
    <2>1. CASE rd + 1 <= nevents
      <3>1. rd + 1 \in rel + 1 .. nevents /\ S = at[rd + 1] /\ ln[rd + 1] \in Nat
        BY <1>1, <1>2, <2>1, SMTT(60), Z3T(60) DEF S, Start
      <3>2. Dist(at[rd + 1]) + ln[rd + 1] <= Dist(head)
        BY <3>1 DEF IInv, LogInv
      <3>3. Dist(head) \in 0 .. Dim - 1
        BY <1>1, BlockShape
      <3>4. Dist(S) + ln[rd + 1] <= Dist(head)
        BY <3>1, <3>2
      <3> QED BY <1>4, <3>1, <3>3, <3>4, SMTT(60), Z3T(60)
    <2>2. CASE ~ (rd + 1 <= nevents)
      BY <2>2, <1>1, BlockShape, SMTT(60), Z3T(60) DEF S, Start
    <2> QED BY <2>1, <2>2
  <1>11. Dist(head)' = Dist(head) - Dist(S)
    <2>1. \A a \in 0 .. Dim - 1 : a = head => Dist(a)' = Dist(head)'
      BY <1>7 DEF Dist
    <2> QED BY <1>1, <1>9, <1>10, <2>1
  <1>12. \A i \in rd + 1 .. nevents :
            /\ i \in rel + 1 .. nevents /\ at[i] \in 0 .. Dim - 1 /\ ln[i] \in Nat
            /\ Dist(at[i]) \in 0 .. Dim - 1
            /\ Dist(S) <= Dist(at[i])
            /\ Dist(at[i])' = Dist(at[i]) - Dist(S)
    <2> SUFFICES ASSUME NEW i \in rd + 1 .. nevents
                 PROVE  /\ i \in rel + 1 .. nevents /\ at[i] \in 0 .. Dim - 1
                        /\ ln[i] \in Nat
                        /\ Dist(at[i]) \in 0 .. Dim - 1
                        /\ Dist(S) <= Dist(at[i])
                        /\ Dist(at[i])' = Dist(at[i]) - Dist(S)
      OBVIOUS
    <2>1. /\ i \in rel + 1 .. nevents /\ at[i] \in 0 .. Dim - 1 /\ ln[i] \in Nat
          /\ rd + 1 \in rel + 1 .. nevents /\ S = at[rd + 1]
          /\ at[rd + 1] \in 0 .. Dim - 1 /\ ln[rd + 1] \in Nat
      BY <1>1, <1>2, SMTT(60), Z3T(60) DEF S, Start
    <2>2. Dist(at[i]) \in 0 .. Dim - 1
      BY <2>1, BlockShape
    <2>3. Dist(S) <= Dist(at[i])
      <3>1. CASE i = rd + 1
        BY <3>1, <2>1, <2>2, SMTT(60), Z3T(60)
      <3>2. CASE rd + 1 < i
        <4>1. Dist(at[rd + 1]) + ln[rd + 1] <= Dist(at[i])
          BY <2>1, <3>2 DEF IInv, LogInv
        <4> QED BY <4>1, <2>1, <2>2, <1>4, SMTT(60), Z3T(60)
      <3> QED BY <3>1, <3>2, <1>1, SMTT(60), Z3T(60)
    <2>4. Dist(at[i])' = Dist(at[i]) - Dist(S)
      <3>1. \A a \in 0 .. Dim - 1 : a = at[i] => Dist(a)' = Dist(at[i])'
        BY <1>7 DEF Dist
      <3> QED BY <3>1, <2>1, <2>3, <1>9
    <2> QED BY <2>1, <2>2, <2>3, <2>4
  <1>13. LogInv'
    <2>1. (rel <= rd /\ rd <= lim /\ lim <= nevents)'
      BY <1>1, <1>2, <1>6, <1>7, SMTT(60), Z3T(60)
    <2>2. (tail = Start(rel + 1))'
      <3>1. Start(rel + 1)' = Start(rd + 1)
        BY <1>1, <1>6, <1>7 DEF Start
      <3> QED BY <3>1, <1>6 DEF S
    <2>3. ASSUME NEW i \in rd + 1 .. nevents
          PROVE  /\ HdrLen <= ln[i]
                 /\ Dist(at[i])' + ln[i] = Dist(Start(i + 1))'
                 /\ Dist(at[i])' + ln[i] <= Dist(head)'
      <3>1. /\ HdrLen <= ln[i]
            /\ Dist(at[i]) + ln[i] = Dist(Start(i + 1))
            /\ Dist(at[i]) + ln[i] <= Dist(head)
        BY <1>12 DEF IInv, LogInv
      <3>2. Start(i + 1) \in 0 .. Dim - 1 /\ Dist(Start(i + 1)) \in 0 .. Dim - 1
        <4>1. i + 1 \in Nat \ {0}
          BY <1>1, SMTT(60), Z3T(60)
        <4>2. Start(i + 1) \in 0 .. Dim - 1
          BY <4>1, BlockShape
        <4> QED BY <4>2, BlockShape
      <3>3. Dist(S) <= Dist(Start(i + 1))
        BY <3>1, <3>2, <1>4, <1>12, SMTT(60), Z3T(60)
      <3>4. Dist(Start(i + 1))' = Dist(Start(i + 1)) - Dist(S)
        <4>1. Start(i + 1)' = Start(i + 1)
          BY <1>1, <1>8, SMTT(60), Z3T(60)
        <4>2. \A a \in 0 .. Dim - 1 : a = Start(i + 1) => Dist(a)' = Dist(Start(i + 1))'
          BY <4>1 DEF Dist
        <4> QED BY <4>2, <3>2, <3>3, <1>9
      <3>5. Dist(at[i]) \in Int /\ ln[i] \in Int /\ Dist(S) \in Int /\ Dist(head) \in Int
            /\ Dist(at[i])' = Dist(at[i]) - Dist(S)
        BY <1>4, <1>10, <1>12, SMTT(60), Z3T(60)
      <3> QED BY <3>1, <3>2, <3>4, <3>5, <1>11, SMTT(60), Z3T(60)
    <2>4. ASSUME NEW i \in rd + 1 .. nevents, NEW j \in rd + 1 .. nevents, i < j
          PROVE  Dist(at[i])' + ln[i] <= Dist(at[j])'
      <3>1. Dist(at[i]) + ln[i] <= Dist(at[j])
        BY <2>4, <1>12 DEF IInv, LogInv
      <3>2. /\ Dist(at[i]) \in Int /\ ln[i] \in Int /\ Dist(S) \in Int /\ Dist(at[j]) \in Int
            /\ Dist(at[i])' = Dist(at[i]) - Dist(S)
            /\ Dist(at[j])' = Dist(at[j]) - Dist(S)
        BY <1>4, <1>12, SMTT(60), Z3T(60)
      <3> QED BY <3>1, <3>2, SMTT(60), Z3T(60)
    <2>5. rel' = rd /\ nevents' = nevents /\ ln' = ln
      BY <1>6, <1>7
    <2> QED BY <2>1, <2>2, <2>3, <2>4, <2>5 DEF LogInv
  <1>14. CountType' /\ CtxType' /\ GateExclusive' /\ Accounting'
    BY <1>6, ConsumerFrame
  <1>15. TypeOK'
    <2>1. RingType /\ ConsType /\ LogType
      BY DEF IInv, TypeOK
    <2>2. RingType'
      BY <2>1, <1>4, <1>6, <1>7 DEF RingType
    <2>3. LogType'
      BY <2>1, <1>6, <1>7 DEF LogType
    <2>4. held' \in [id : Nat, len : Nat, addr : Nat]
      BY <1>6 DEF NoEvent
    <2>5. ConsType'
      BY <2>1, <2>4, <1>6, SMTT(60), Z3T(60) DEF ConsType
    <2> QED BY <1>14, <2>2, <2>3, <2>5 DEF TypeOK
  <1>16. UnreleasedIntact'
    <2> SUFFICES ASSUME NEW i \in rd + 1 .. nevents
                 PROVE  IntactAt(i, at[i], ln[i])'
      BY <1>6, <1>7 DEF UnreleasedIntact
    <2>1. IntactAt(i, at[i], ln[i])
      BY <1>12 DEF IInv, UnreleasedIntact
    <2> QED BY <2>1, <1>7 DEF IntactAt, View
  <1>17. ConsInv'
    BY <1>6 DEF ConsInv, NoEvent
  <1>18. ProdInv'
    <2>1. Dist(head)' <= Dist(head) /\ Dist(head)' \in Int /\ Dist(head) \in Int
      BY <1>4, <1>10, <1>11, SMTT(60), Z3T(60)
    <2>2. ProdInv /\ CtxType
      BY DEF IInv, TypeOK
    <2> QED BY <2>1, <2>2, <1>7, StageFrame
  <1> QED BY <1>13, <1>14, <1>15, <1>16, <1>17, <1>18 DEF IInv

-----------------------------------------------------------------------------
(* The other steps of ringbuffer_next, and the theorems. *)

(* READBUF takes a block that starts at tail and ends at an event boundary. *)
LEMMA ReadbufInv ==
    ASSUME IInv, Readbuf
    PROVE  IInv'
  <1> USE RingAssumption
  <1>1. /\ head \in 0 .. Dim - 1 /\ tail \in 0 .. Dim - 1
        /\ rel \in Nat /\ rd \in Nat /\ lim \in Nat /\ nevents \in 0 .. MaxHits
    BY DEF IInv, TypeOK, RingType, LogType
  <1>2. /\ rel = rd /\ held = NoEvent
        /\ rd <= lim /\ lim <= nevents /\ tail = Start(rd + 1)
    BY DEF Readbuf, IInv, ConsInv, LogInv
  <1>3. /\ lastreadsize' = Dist(head) /\ sn_len' = Dist(head) /\ sn_next' = tail
        /\ lim' = nevents /\ cpc' = "next"
        /\ UNCHANGED <<tail, held, rel, rd, prodvars>>
    BY <1>1, SMTT(60), Z3T(60) DEF Readbuf, ReadSize, Dist
  <1>4. Dist(head) \in 0 .. Dim - 1
    BY <1>1, SMTT(60), Z3T(60) DEF Dist
  <1>5. /\ CountType' /\ CtxType' /\ GateExclusive' /\ Accounting'
        /\ UNCHANGED <<head, nevents, at, ln, buf, pc, h, t, sz>>
    BY <1>3, ConsumerFrame
  <1>6. TypeOK'
    <2>1. RingType /\ ConsType /\ LogType
      BY DEF IInv, TypeOK
    <2>2. RingType'
      BY <2>1, <1>3, <1>5 DEF RingType
    <2>3. LogType'
      BY <2>1, <1>1, <1>3, <1>5, SMTT(60), Z3T(60) DEF LogType
    <2>4. sn_next' \in 0 .. 2 * Dim - 1
      BY <1>1, <1>3, SMTT(60), Z3T(60)
    <2>5. ConsType'
      BY <2>1, <2>4, <1>3, <1>4 DEF ConsType
    <2> QED BY <1>5, <2>2, <2>3, <2>5 DEF TypeOK
  <1>7. UNCHANGED <<head, tail, nevents, at, ln, buf, pc, h, t, sz, rel, rd, held>>
    BY <1>3, <1>5
  <1>8. LogInv'
    <2>1. (rel <= rd /\ rd <= lim /\ lim <= nevents)'
      BY <1>1, <1>2, <1>3, <1>7, SMTT(60), Z3T(60)
    <2>2. LogInv
      BY DEF IInv
    <2> QED BY <2>1, <2>2, <1>7, SMTT(60), Z3T(60) DEF LogInv, Dist, Start
  <1>9. UnreleasedIntact'
    BY <1>7, IntactFrame DEF IInv
  <1>10. ProdInv'
    <2>1. Dist(head)' = Dist(head)
      BY <1>7 DEF Dist
    <2>2. ProdInv /\ CtxType
      BY DEF IInv, TypeOK
    <2> QED BY <2>1, <2>2, <1>4, <1>7, StageFrame, SMTT(60), Z3T(60)
  <1>11. ConsInv'
    <2>1. Dist(Start(lim + 1))' = Dist(head)
      BY <1>1, <1>3, <1>7, SMTT(60), Z3T(60) DEF Dist, Start
    <2>2. Dist(Start(rd + 1))' = 0
      <3>1. Start(rd + 1)' = tail
        BY <1>2, <1>7 DEF Start
      <3> QED BY <3>1, <1>1, <1>7, SMTT(60), Z3T(60) DEF Dist
    <2> QED BY <2>1, <2>2, <1>1, <1>2, <1>3, <1>4, <1>7, SMTT(60), Z3T(60) DEF ConsInv
  <1> QED BY <1>5, <1>6, <1>8, <1>9, <1>10, <1>11 DEF IInv

(* The next event of a block that is not exhausted: its header is intact   *)
(* at the read position and the whole of it lies in the block.             *)
LEMMA NextEventStep ==
    ASSUME IInv, NextEvent
    PROVE  /\ rd < lim
           /\ rd + 1 \in rel + 1 .. nevents /\ rd + 1 \in 1 .. nevents
           /\ ln[rd + 1] \in Nat /\ 0 < ln[rd + 1] /\ ln[rd + 1] <= sn_len
           /\ sn_next = tail + Dist(at[rd + 1])
           /\ held' = [id |-> rd + 1, len |-> ln[rd + 1], addr |-> sn_next]
           /\ sn_len' = sn_len - ln[rd + 1]
           /\ sn_next' = sn_next + ln[rd + 1]
           /\ rd' = rd + 1
           /\ cpc' = cpc
           /\ UNCHANGED <<tail, lastreadsize, rel, lim, prodvars>>
  <1> USE RingAssumption
  <1>1. /\ rel \in Nat /\ rd \in Nat /\ lim \in Nat /\ nevents \in 0 .. MaxHits
        /\ at \in [1 .. MaxHits -> 0 .. Dim - 1] /\ ln \in [1 .. MaxHits -> Nat]
        /\ sn_len \in 0 .. Dim - 1 /\ rd <= lim
    <2>1. RingType /\ ConsType /\ LogType /\ LogInv
      BY DEF IInv, TypeOK
    <2> QED BY <2>1 DEF RingType, ConsType, LogType, LogInv
  <1>2. /\ sn_len > 0 /\ cpc = "next"
        /\ sn_len = Dist(Start(lim + 1)) - Dist(Start(rd + 1))
        /\ sn_next = tail + Dist(Start(rd + 1))
    <2>1. sn_len > 0 /\ cpc = "next"
      BY DEF NextEvent
    <2> QED BY <2>1 DEF IInv, ConsInv
  <1>3. Dist(Start(lim + 1)) \in 0 .. Dim - 1
    <2>1. lim + 1 \in Nat \ {0}
      BY <1>1, SMTT(60), Z3T(60)
    <2>2. Start(lim + 1) \in 0 .. Dim - 1
      BY <2>1, BlockShape
    <2> QED BY <2>2, BlockShape
  <1>4. rd < lim
    <2>1. CASE rd = lim
      BY <2>1, <1>2, <1>3, SMTT(60), Z3T(60)
    <2> QED BY <2>1, <1>1, SMTT(60), Z3T(60)
  <1>5. /\ rd + 1 \in rel + 1 .. nevents /\ rd + 1 \in 1 .. nevents
        /\ Start(rd + 1) = at[rd + 1] /\ HdrLen <= ln[rd + 1]
        /\ Dist(at[rd + 1]) + ln[rd + 1] <= Dist(Start(lim + 1))
    BY <1>4, BlockShape
  <1>6. at[rd + 1] \in 0 .. Dim - 1 /\ ln[rd + 1] \in Nat
    BY <1>1, <1>5, SMTT(60), Z3T(60)
  <1>7. Dist(at[rd + 1]) \in 0 .. Dim - 1 /\ View(tail + Dist(at[rd + 1])) = at[rd + 1]
    BY <1>6, BlockShape
  <1>8. sn_next = tail + Dist(at[rd + 1])
    BY <1>2, <1>5
  <1>9. ln[rd + 1] <= sn_len
    <2>1. sn_len = Dist(Start(lim + 1)) - Dist(at[rd + 1])
      BY <1>2, <1>5
    <2> QED BY <2>1, <1>3, <1>5, <1>6, <1>7, SMTT(60), Z3T(60)
  <1>10. buf[at[rd + 1]] = [id |-> rd + 1, len |-> ln[rd + 1], off |-> 0]
    <2>1. IntactAt(rd + 1, at[rd + 1], ln[rd + 1])
      BY <1>5 DEF IInv, UnreleasedIntact
    <2>2. 0 \in 0 .. ln[rd + 1] - 1 /\ View(at[rd + 1] + 0) = at[rd + 1]
      BY <1>5, <1>6, SMTT(60), Z3T(60) DEF View
    <2> QED BY <2>1, <2>2 DEF IntactAt
  <1>11. buf[View(sn_next)] = [id |-> rd + 1, len |-> ln[rd + 1], off |-> 0]
    BY <1>7, <1>8, <1>10
  <1>12. LensAt(sn_next) = {ln[rd + 1]} /\ ~ (ln[rd + 1] > sn_len)
    BY <1>1, <1>6, <1>9, <1>11, SMTT(60), Z3T(60) DEF LensAt
  <1>13. /\ held' = [id |-> rd + 1, len |-> ln[rd + 1], addr |-> sn_next]
         /\ sn_len' = sn_len - ln[rd + 1]
         /\ sn_next' = sn_next + ln[rd + 1]
         /\ rd' = rd + 1
         /\ cpc' = cpc
         /\ UNCHANGED <<tail, lastreadsize, rel, lim, prodvars>>
    BY <1>11, <1>12, SMTT(60), Z3T(60) DEF NextEvent
  <1> QED BY <1>4, <1>5, <1>6, <1>8, <1>9, <1>13, SMTT(60), Z3T(60)

(* Walking over an event of the block keeps the read position at a boundary. *)
LEMMA NextEventInv ==
    ASSUME IInv, NextEvent
    PROVE  IInv'
  <1> USE RingAssumption
  <1>1. /\ rd < lim
        /\ rd + 1 \in rel + 1 .. nevents /\ rd + 1 \in 1 .. nevents
        /\ ln[rd + 1] \in Nat /\ 0 < ln[rd + 1] /\ ln[rd + 1] <= sn_len
        /\ sn_next = tail + Dist(at[rd + 1])
        /\ held' = [id |-> rd + 1, len |-> ln[rd + 1], addr |-> sn_next]
        /\ sn_len' = sn_len - ln[rd + 1]
        /\ sn_next' = sn_next + ln[rd + 1]
        /\ rd' = rd + 1
        /\ cpc' = cpc
        /\ UNCHANGED <<tail, lastreadsize, rel, lim, prodvars>>
    BY NextEventStep
  <1>2. /\ rel \in Nat /\ rd \in Nat /\ lim \in Nat /\ nevents \in 0 .. MaxHits
        /\ sn_len \in 0 .. Dim - 1 /\ tail \in 0 .. Dim - 1
        /\ sn_next \in 0 .. 2 * Dim - 1 /\ lastreadsize \in 0 .. Dim - 1
        /\ rel <= rd /\ rd <= lim /\ lim <= nevents
        /\ at[rd + 1] \in 0 .. Dim - 1
    <2>1. at \in [1 .. MaxHits -> 0 .. Dim - 1] /\ rd + 1 \in 1 .. MaxHits
      BY <1>1, SMTT(60), Z3T(60) DEF IInv, TypeOK, RingType, LogType
    <2> QED BY <2>1 DEF IInv, TypeOK, RingType, ConsType, LogType, LogInv
  <1>3. UNCHANGED <<head, tail, nevents, at, ln, buf, pc, h, t, sz, rel, lim>>
    BY <1>1 DEF prodvars
  <1>4. Dist(at[rd + 1]) + ln[rd + 1] = Dist(Start(rd + 2))
    <2>1. Dist(at[rd + 1]) + ln[rd + 1] = Dist(Start((rd + 1) + 1))
      BY <1>1 DEF IInv, LogInv
    <2>2. (rd + 1) + 1 = rd + 2
      BY <1>2, SMTT(60), Z3T(60)
    <2> QED BY <2>1, <2>2
  <1>5. Dist(Start(rd + 2)) \in 0 .. Dim - 1
    <2>1. rd + 2 \in Nat \ {0}
      BY <1>2, SMTT(60), Z3T(60)
    <2>2. Start(rd + 2) \in 0 .. Dim - 1
      BY <2>1, BlockShape
    <2> QED BY <2>2, BlockShape
  <1>6. Dist(at[rd + 1]) \in 0 .. Dim - 1
    BY <1>2, BlockShape
  <1>7. /\ CountType' /\ CtxType' /\ GateExclusive' /\ Accounting'
    BY <1>1, ConsumerFrame
  <1>8. TypeOK'
    <2>1. RingType /\ ConsType /\ LogType
      BY DEF IInv, TypeOK
    <2>2. RingType'
      BY <2>1, <1>3 DEF RingType
    <2>3. LogType'
      BY <2>1, <1>1, <1>3, SMTT(60), Z3T(60) DEF LogType
    <2>4. sn_len' \in 0 .. Dim - 1
      BY <1>1, <1>2, SMTT(60), Z3T(60)
    <2>5. sn_next' \in 0 .. 2 * Dim - 1
      BY <1>1, <1>2, <1>4, <1>5, <1>6, SMTT(60), Z3T(60)
    <2>6. held' \in [id : Nat, len : Nat, addr : Nat]
      BY <1>1, <1>2, SMTT(60), Z3T(60)
    <2>7. UNCHANGED <<cpc, lastreadsize>>
      BY <1>1
    <2>8. ConsType'
      BY <2>1, <2>4, <2>5, <2>6, <2>7 DEF ConsType
    <2> QED BY <1>7, <2>2, <2>3, <2>8 DEF TypeOK
  <1>9. LogInv'
    <2>1. (rel <= rd /\ rd <= lim /\ lim <= nevents)'
      BY <1>1, <1>2, <1>3, SMTT(60), Z3T(60)
    <2>2. LogInv
      BY DEF IInv
    <2> QED BY <2>1, <2>2, <1>3, SMTT(60), Z3T(60) DEF LogInv, Dist, Start
  <1>10. UnreleasedIntact'
    BY <1>3, IntactFrame DEF IInv
  <1>11. ProdInv'
    <2>1. Dist(head)' = Dist(head) /\ Dist(head) \in Int
      <3>1. head \in 0 .. Dim - 1
        BY DEF IInv, TypeOK, RingType
      <3> QED BY <3>1, <1>2, <1>3, SMTT(60), Z3T(60) DEF Dist
    <2>2. ProdInv /\ CtxType
      BY DEF IInv, TypeOK
    <2> QED BY <2>1, <2>2, <1>3, StageFrame, SMTT(60), Z3T(60)
  <1>12. ConsInv'
    <2>1. cpc = "next" /\ lastreadsize = Dist(Start(lim + 1))
          /\ sn_len = lastreadsize - Dist(Start(rd + 1))
      <3>1. cpc = "next"
        BY DEF NextEvent
      <3> QED BY <3>1 DEF IInv, ConsInv
    <2>2. Start(rd + 1) = at[rd + 1]
      BY <1>1, SMTT(60), Z3T(60) DEF Start
    <2>3. Dist(Start(lim + 1))' = Dist(Start(lim + 1))
      BY <1>3 DEF Dist, Start
    <2>4. Dist(Start(rd + 1))' = Dist(Start(rd + 2))
      <3>1. Start(rd + 1)' = Start(rd + 2)
        <4>1. rd' + 1 = rd + 2
          BY <1>1, <1>2, SMTT(60), Z3T(60)
        <4> QED BY <4>1, <1>3 DEF Start
      <3> QED BY <3>1, <1>3 DEF Dist
    <2>5. Dist(at[rd])' = Dist(at[rd + 1])
      BY <1>1, <1>3 DEF Dist
    <2>6. sn_len' = lastreadsize - Dist(Start(rd + 2))
      BY <2>1, <2>2, <1>1, <1>2, <1>4, <1>5, <1>6, SMTT(60), Z3T(60)
    <2>7. sn_next' = tail + Dist(Start(rd + 2))
      BY <1>1, <1>2, <1>4, <1>5, <1>6, SMTT(60), Z3T(60)
    <2>8. rel < rd + 1
      BY <1>2, SMTT(60), Z3T(60)
    <2>9. held' = [id |-> rd', len |-> ln'[rd'], addr |-> tail + Dist(at[rd])']
      BY <1>1, <1>3, <2>5
    <2> QED BY <2>1, <2>3, <2>4, <2>6, <2>7, <2>8, <2>9, <1>1, <1>3 DEF ConsInv
  <1> QED BY <1>7, <1>8, <1>9, <1>10, <1>11, <1>12 DEF IInv

-----------------------------------------------------------------------------

(* Steps of neither side change nothing the invariant is about.            *)
LEMMA StutterInv ==
    ASSUME IInv, UNCHANGED vars
    PROVE  IInv'
  <1> USE RingAssumption
  <1>1. UNCHANGED prodvars /\ UNCHANGED consvars
    BY DEF vars
  <1>2. /\ CountType' /\ CtxType' /\ GateExclusive' /\ Accounting'
        /\ UNCHANGED <<head, nevents, at, ln, buf, pc, h, t, sz>>
    BY <1>1, ConsumerFrame
  <1>3. tail' = tail /\ rel' = rel
    BY <1>1 DEF consvars
  <1>4. /\ LogType' /\ ConsType' /\ LogInv' /\ ConsInv'
        /\ Dist(head)' = Dist(head)
    BY <1>1, <1>2, LogFrame DEF IInv, TypeOK
  <1>5. RingType'
    BY <1>2, <1>3 DEF IInv, TypeOK, RingType
  <1>6. UnreleasedIntact'
    BY <1>2, <1>3, IntactFrame DEF IInv
  <1>7. ProdInv'
    <2>1. Dist(head) \in Int
      BY SMTT(60), Z3T(60) DEF IInv, TypeOK, RingType, Dist
    <2> QED BY <2>1, <1>2, <1>4, StageFrame, SMTT(60), Z3T(60) DEF IInv, TypeOK
  <1> QED BY <1>2, <1>4, <1>5, <1>6, <1>7 DEF IInv, TypeOK

(* Every step of record_event_consumer, in any context, and of             *)
(* ringbuffer_next preserves the inductive invariant.                      *)
LEMMA NextInv ==
    ASSUME IInv, [Next]_vars
    PROVE  IInv'
  <1>1. ASSUME NEW c \in Ctxs, Record(c)
        PROVE  IInv'
    <2>1. CASE Gate(c)
      BY <2>1, GateInv
    <2>2. CASE Bail(c)
      BY <2>2, BailInv
    <2>3. CASE ReadPointers(c)
      BY <2>3, ReadPointersInv
    <2>4. CASE FillOk(c)
      BY <2>4, FillOkInv
    <2>5. CASE NoRoom(c)
      BY <2>5, NoRoomInv
    <2>6. CASE FillFail(c)
      BY <2>6, FillFailInv
    <2>7. CASE Wrap(c)
      BY <2>7, WrapInv
    <2>8. CASE Publish(c)
      BY <2>8, PublishInv
    <2>9. CASE LeaveGate(c)
      BY <2>9, LeaveGateInv
    <2> QED BY <1>1, <2>1, <2>2, <2>3, <2>4, <2>5, <2>6, <2>7, <2>8, <2>9 DEF Record
  <1>2. CASE RingbufferNext
    BY <1>2, AdvanceTailInv, ReadbufInv, NextEventInv DEF RingbufferNext
  <1>3. CASE UNCHANGED vars
    BY <1>3, StutterInv
  <1> QED BY <1>1, <1>2, <1>3 DEF Next

(* The inductive invariant holds throughout a capture session.             *)
THEOREM Inductive == Spec => []IInv
  BY InitInv, NextInv, PTL DEF Spec

(* Types are kept: in particular tail, the read position and the block     *)
(* size never leave the doubly mapped ring.                                *)
THEOREM TypeCorrect == Spec => []TypeOK
  <1>1. IInv => TypeOK
    BY DEF IInv
  <1> QED BY <1>1, Inductive, PTL

(* For every ring size, cushion, event length and nesting depth, no        *)
(* published event is overwritten before libscap moves the tail past it.   *)
THEOREM UnreleasedStaysIntact == Spec => []UnreleasedIntact
  <1>1. IInv => UnreleasedIntact
    BY DEF IInv
  <1> QED BY <1>1, Inductive, PTL

(* The event scap_next handed out can be read until the next call.         *)
THEOREM HeldStaysIntact == Spec => []HeldIntact
  <1>1. IInv => HeldIntact
    <2> SUFFICES ASSUME IInv, held # NoEvent
                 PROVE  held.id = rd /\ IntactAt(held.id, held.addr, held.len)
      BY DEF HeldIntact
    <2> USE RingAssumption
    <2>1. rel < rd /\ held = [id |-> rd, len |-> ln[rd], addr |-> tail + Dist(at[rd])]
      BY DEF IInv, ConsInv
    <2>2. /\ head \in 0 .. Dim - 1 /\ tail \in 0 .. Dim - 1 /\ rel \in Nat
          /\ rd \in Nat /\ lim \in Nat /\ nevents \in 0 .. MaxHits
          /\ rd <= lim /\ lim <= nevents
          /\ at \in [1 .. MaxHits -> 0 .. Dim - 1] /\ ln \in [1 .. MaxHits -> Nat]
      <3>1. RingType /\ LogType /\ LogInv
        BY DEF IInv, TypeOK
      <3> QED BY <3>1 DEF RingType, LogType, LogInv
    <2>3. rd \in rel + 1 .. nevents /\ rd \in 1 .. MaxHits
      BY <2>1, <2>2, SMTT(60), Z3T(60)
    <2>4. at[rd] \in 0 .. Dim - 1 /\ ln[rd] \in Nat
      BY <2>2, <2>3
    <2>5. Dist(at[rd]) + ln[rd] <= Dist(head)
      BY <2>3 DEF IInv, LogInv
    <2>6. IntactAt(rd, at[rd], ln[rd])
      BY <2>3 DEF IInv, UnreleasedIntact
    <2>7. \A k \in 0 .. ln[rd] - 1 : View(tail + Dist(at[rd]) + k) = View(at[rd] + k)
      <3> TAKE k \in 0 .. ln[rd] - 1
      <3> DEFINE a == at[rd]
                 n == ln[rd]
      <3>1. a \in 0 .. Dim - 1 /\ n \in Nat /\ k \in 0 .. n - 1 /\ Dist(a) + n <= Dist(head)
        BY <2>4, <2>5
      <3>2. Dist(head) <= Dim - 1 /\ Dist(head) \in Int
        BY <2>2, SMTT(60), Z3T(60) DEF Dist
      <3> HIDE DEF a, n
      <3>3. View(tail + Dist(a) + k) = View(a + k)
        <4>1. CASE a >= tail
          BY <4>1, <2>2, <3>1, SMTT(60), Z3T(60) DEF Dist
        <4>2. CASE ~ (a >= tail)
          <5>1. Dist(a) = a + Dim - tail
            BY <4>2 DEF Dist
          <5>2. a + k < Dim /\ tail + Dist(a) + k = Dim + a + k
            BY <5>1, <2>2, <3>1, <3>2, SMTT(60), Z3T(60)
          <5>3. View(a + k) = a + k /\ View(Dim + a + k) = a + k
            BY <5>2, <3>1, SMTT(60), Z3T(60) DEF View
          <5> QED BY <5>2, <5>3
        <4> QED BY <4>1, <4>2
      <3> QED BY <3>3 DEF a
    <2>8. IntactAt(rd, tail + Dist(at[rd]), ln[rd])
      BY <2>6, <2>7 DEF IntactAt
    <2> QED BY <2>1, <2>8
  <1> QED BY <1>1, Inductive, PTL

(* The "scap_next buffer corruption" branch is dead code.                  *)
THEOREM CorruptionUnreachable == Spec => []NoCorruption
  <1>1. IInv => NoCorruption
    BY DEF IInv, ConsInv, NoCorruption
  <1> QED BY <1>1, Inductive, PTL

(* The preemption gate admits one context at a time, at any nesting depth, *)
(* and no context leaves it closed.                                        *)
THEOREM GateCorrect == Spec => []GateExclusive
  <1>1. IInv => GateExclusive
    BY DEF IInv
  <1> QED BY <1>1, Inductive, PTL

(* The driver's counters account for every event that passed the gate.     *)
THEOREM CountersCorrect == Spec => []Accounting
  <1>1. IInv => Accounting
    BY DEF IInv
  <1> QED BY <1>1, Inductive, PTL

(* The ring implements the lossy channel: every step is an accept, a       *)
(* deliver, a release or invisible.                                        *)
THEOREM RingIsChannel == Spec => IsChannel
  <1>1. Init => Channel!ChInit
    BY SMTT(60), Z3T(60) DEF Init, NoEvent, Channel!ChInit
  <1>2. ASSUME IInv, [Next]_vars
        PROVE  [Channel!ChNext]_(Channel!chvars)
    <2> USE DEF Channel!ChNext, Channel!chvars, Channel!Accept, Channel!Deliver, Channel!Release
    <2>1. ASSUME NEW c \in Ctxs, Publish(c)
          PROVE  Channel!ChNext
      BY <2>1 DEF Publish, consvars
    <2>2. ASSUME NEW c \in Ctxs, Record(c), ~ Publish(c)
          PROVE  UNCHANGED <<nevents, rd, held>>
      BY <2>2 DEF Record, Gate, Bail, ReadPointers, FillOk, NoRoom, FillFail, Wrap,
                  LeaveGate, consvars
    <2>3. CASE AdvanceTail
      BY <2>3 DEF AdvanceTail, NoEvent, prodvars
    <2>4. CASE Readbuf
      BY <2>4 DEF Readbuf, prodvars
    <2>5. CASE NextEvent
      <3>1. /\ rd < lim /\ rd' = rd + 1 /\ nevents' = nevents
            /\ held' = [id |-> rd + 1, len |-> ln[rd + 1], addr |-> sn_next]
        BY <1>2, <2>5, NextEventStep DEF prodvars
      <3>2. rd < nevents
        BY <1>2, <3>1, SMTT(60), Z3T(60) DEF IInv, TypeOK, RingType, ConsType, LogType, LogInv
      <3> QED BY <3>1, <3>2
    <2>6. CASE UNCHANGED vars
      BY <2>6 DEF vars, prodvars, consvars
    <2> QED BY <1>2, <2>1, <2>2, <2>3, <2>4, <2>5, <2>6 DEF Next, RingbufferNext
  <1> QED BY <1>1, <1>2, Inductive, PTL DEF Spec, IsChannel, Channel!ChSpec

-----------------------------------------------------------------------------
(* Reopening the device (KmodReopen).  The argument is the one ppm_open    *)
(* gives: the gate counts the contexts inside record_event_consumer, and a *)
(* reopen neither moves a context nor the count.  Nothing is assumed of    *)
(* the positions and the bytes, which a reopen does disturb under a        *)
(* context at work.                                                        *)

Inside == {c \in Ctxs : pc[c] # "idle"}
Stages == [Ctxs -> Owning \cup {"idle", "bail"}]

GateState == pc \in Stages /\ GateExclusive

(* The contexts inside the gate are finitely many.                         *)
LEMMA InsideFinite == IsFiniteSet(Inside) /\ Cardinality(Inside) \in Nat
  <1>1. IsFiniteSet(Ctxs)
    BY FS_Interval, RingAssumption, SMTT(60), Z3T(60) DEF Ctxs
  <1>2. Inside \in SUBSET Ctxs
    BY DEF Inside
  <1> QED BY <1>1, <1>2, FS_Subset, FS_CardinalityType

(* atomic_inc_return: the context that finds the gate open owns the ring,  *)
(* any other one bails out.                                                *)
LEMMA GateKeeps ==
    ASSUME GateState, NEW c \in Ctxs, Gate(c)
    PROVE  GateState'
  <1>1. /\ preempt_count = Cardinality(Inside)
        /\ \A d, e \in Ctxs : pc[d] \in Owning /\ pc[e] \in Owning => d = e
    BY DEF GateState, GateExclusive, Inside
  <1>2. PICK s \in {"read", "bail"} :
           /\ pc' = [pc EXCEPT ![c] = s]
           /\ s = "read" => preempt_count + 1 = 1
    BY DEF Gate
  <1>3. pc[c] = "idle" /\ preempt_count' = preempt_count + 1 /\ pc \in Stages
    BY DEF Gate, GateState
  <1>4. pc'[c] = s /\ \A d \in Ctxs : d # c => pc'[d] = pc[d]
    BY <1>2, <1>3 DEF Stages
  <1>5. pc' \in Stages
    BY <1>2, <1>3 DEF Stages, Owning, Working
  <1>6. preempt_count' = Cardinality(Inside')
    <2>1. Inside' = Inside \cup {c} /\ c \notin Inside
      BY <1>3, <1>4 DEF Inside
    <2>2. Cardinality(Inside') = Cardinality(Inside) + 1
      BY <2>1, InsideFinite, FS_AddElement
    <2> QED BY <2>2, <1>1, <1>3
  <1>7. \A d, e \in Ctxs : pc'[d] \in Owning /\ pc'[e] \in Owning => d = e
    <2>1. CASE s = "bail"
      BY <2>1, <1>1, <1>4 DEF Owning, Working
    <2>2. CASE s = "read"
      <3>1. Cardinality(Inside) = 0
        BY <2>2, <1>1, <1>2, InsideFinite, SMTT(60), Z3T(60)
      <3>2. Inside = {}
        BY <3>1, InsideFinite, FS_EmptySet
      <3>3. \A d \in Ctxs : d # c => pc'[d] = "idle"
        BY <3>2, <1>4 DEF Inside
      <3> QED BY <3>3 DEF Owning, Working
    <2> QED BY <2>1, <2>2
  <1> QED BY <1>5, <1>6, <1>7 DEF GateState, GateExclusive, Inside

(* atomic_dec, after the early return or at the end: one context fewer is  *)
(* inside, whether or not the ring was reset under it.                     *)
LEMMA LeaveKeeps ==
    ASSUME GateState, NEW c \in Ctxs, pc[c] # "idle",
           pc' = [pc EXCEPT ![c] = "idle"], preempt_count' = preempt_count - 1
    PROVE  GateState'
  <1>1. /\ preempt_count = Cardinality(Inside)
        /\ \A d, e \in Ctxs : pc[d] \in Owning /\ pc[e] \in Owning => d = e
    BY DEF GateState, GateExclusive, Inside
  <1>2. pc \in Stages
    BY DEF GateState
  <1>3. pc'[c] = "idle" /\ \A d \in Ctxs : d # c => pc'[d] = pc[d]
    BY <1>2 DEF Stages
  <1>4. pc' \in Stages
    BY <1>2 DEF Stages
  <1>5. preempt_count' = Cardinality(Inside')
    <2>1. Inside' = Inside \ {c} /\ c \in Inside
      BY <1>3 DEF Inside
    <2>2. Cardinality(Inside') = Cardinality(Inside) - 1
      BY <2>1, InsideFinite, FS_RemoveElement
    <2> QED BY <2>2, <1>1
  <1>6. \A d \in Ctxs : pc'[d] \in Owning => pc[d] \in Owning
    BY <1>3 DEF Owning, Working
  <1>7. \A d, e \in Ctxs : pc'[d] \in Owning /\ pc'[e] \in Owning => d = e
    BY <1>1, <1>6
  <1> QED BY <1>4, <1>5, <1>7 DEF GateState, GateExclusive, Inside

(* The owner of the ring goes on to another stage and leaves the gate      *)
(* alone.                                                                  *)
LEMMA StageKeeps ==
    ASSUME GateState, NEW c \in Ctxs, NEW s \in Owning, pc[c] \in Owning,
           pc' = [pc EXCEPT ![c] = s], preempt_count' = preempt_count
    PROVE  GateState'
  <1>1. /\ preempt_count = Cardinality(Inside)
        /\ \A d, e \in Ctxs : pc[d] \in Owning /\ pc[e] \in Owning => d = e
    BY DEF GateState, GateExclusive, Inside
  <1>2. pc \in Stages
    BY DEF GateState
  <1>3. pc'[c] = s /\ \A d \in Ctxs : d # c => pc'[d] = pc[d]
    BY <1>2 DEF Stages
  <1>4. pc' \in Stages
    BY <1>2 DEF Stages
  <1>5. Inside' = Inside
    <2>1. s # "idle" /\ pc[c] # "idle"
      BY DEF Owning, Working
    <2> QED BY <2>1, <1>3 DEF Inside
  <1>6. preempt_count' = Cardinality(Inside')
    BY <1>1, <1>5
  <1>7. \A d \in Ctxs : pc'[d] \in Owning => pc[d] \in Owning
    BY <1>3
  <1>8. \A d, e \in Ctxs : pc'[d] \in Owning /\ pc'[e] \in Owning => d = e
    BY <1>1, <1>7
  <1> QED BY <1>4, <1>6, <1>8 DEF GateState, GateExclusive, Inside

(* A step that moves no context leaves the gate as it is: libscap's, and a *)
(* reopen.                                                                 *)
LEMMA OthersKeep ==
    ASSUME GateState, UNCHANGED <<pc, preempt_count>>
    PROVE  GateState'
  <1>1. pc' = pc /\ preempt_count' = preempt_count
    OBVIOUS
  <1>2. pc' \in Stages
    BY <1>1 DEF GateState
  <1>3. GateExclusive'
    BY <1>1 DEF GateState, GateExclusive
  <1> QED BY <1>2, <1>3 DEF GateState

(* Every step of a capture with reopens keeps the invariant of the gate.   *)
LEMMA ReopenStep == GateState /\ [ReopenNext]_<<vars, opens>> => GateState'
  <1> SUFFICES ASSUME GateState, [ReopenNext]_<<vars, opens>> PROVE GateState'
    OBVIOUS
  <1>1. CASE Reopen
    BY <1>1, OthersKeep DEF Reopen, GateAtOpen
  <1>2. ASSUME NEW c \in Ctxs, Record(c) PROVE GateState'
    <2> USE DEF Owning, Working
    <2>1. CASE Gate(c)
      BY <2>1, GateKeeps
    <2>2. CASE Bail(c)
      BY <2>2, LeaveKeeps DEF Bail
    <2>3. CASE ReadPointers(c)
      BY <2>3, StageKeeps DEF ReadPointers
    <2>4. CASE FillOk(c)
      BY <2>4, StageKeeps DEF FillOk
    <2>5. CASE NoRoom(c)
      BY <2>5, StageKeeps DEF NoRoom
    <2>6. CASE FillFail(c)
      BY <2>6, StageKeeps DEF FillFail
    <2>7. CASE Wrap(c)
      BY <2>7, StageKeeps DEF Wrap
    <2>8. CASE Publish(c)
      BY <2>8, StageKeeps DEF Publish
    <2>9. CASE LeaveGate(c)
      BY <2>9, LeaveKeeps DEF LeaveGate
    <2> QED BY <1>2, <2>1, <2>2, <2>3, <2>4, <2>5, <2>6, <2>7, <2>8, <2>9 DEF Record
  <1>3. CASE RingbufferNext
    <2>1. UNCHANGED prodvars
      BY <1>3 DEF RingbufferNext, AdvanceTail, Readbuf, NextEvent
    <2> QED BY <2>1, OthersKeep DEF prodvars
  <1>4. CASE UNCHANGED <<vars, opens>>
    BY <1>4, OthersKeep DEF vars, prodvars
  <1> QED BY <1>1, <1>2, <1>3, <1>4 DEF ReopenNext

(* Closing and opening a device while record_event_consumer is inside it   *)
(* leaves the gate exclusive and in step with the contexts inside, however *)
(* often it is done: it is never left closed for good.                     *)
THEOREM GateSurvives == ReopenSpec => []GateSurvivesReopen
  <1>1. ReopenInit => GateState
    <2> SUFFICES ASSUME ReopenInit PROVE GateState
      OBVIOUS
    <2>1. pc = [c \in Ctxs |-> "idle"] /\ preempt_count = 0
      BY DEF ReopenInit, Init
    <2>2. Inside = {} /\ pc \in Stages
      BY <2>1 DEF Inside, Stages
    <2>3. preempt_count = Cardinality(Inside)
      BY <2>1, <2>2, FS_EmptySet
    <2>4. \A d \in Ctxs : pc[d] \notin Owning
      BY <2>1 DEF Owning, Working
    <2> QED BY <2>2, <2>3, <2>4 DEF GateState, GateExclusive, Inside
  <1>2. GateState => GateSurvivesReopen
    BY DEF GateState, GateSurvivesReopen
  <1> QED BY <1>1, <1>2, ReopenStep, PTL DEF ReopenSpec
=============================================================================
