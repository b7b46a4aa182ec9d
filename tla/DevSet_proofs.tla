--------------------------- MODULE DevSet_proofs ----------------------------
(***************************************************************************)
(* The safety of ringbuffer_next() over a set of devices, for any number   *)
(* of devices and events, any ring and any number of settings.             *)
(*                                                                         *)
(* What ties the rings to what was handed out is the place of libscap in   *)
(* each block: the events of a ring before it, and no others, were handed  *)
(* out or thrown away (UseInv).  The merge is right because a ring is      *)
(* sorted (RingInv) and no event published before the round began lies     *)
(* behind the block of its ring (RoundInv).                                *)
(***************************************************************************)
EXTENDS DevSet, SequenceTheorems, FiniteSetTheorems, TLAPS

(* The prover of the steps that name none; arithmetic is left to SMT.     *)
USE ZenonT(40)

(* The events of device d's block that libscap is done with, by number. *)
Past(d) == lastreadsize[d] - sn_len[d]
Used == Range(dlv) \cup flushed

(* The events of ring d, from tail to head. *)
Idx(d) == 1 .. Len(ring[d])
At(d, i) == ring[d][i]

RingType ==
    /\ ring \in [Devs -> Seq(Events)]
    /\ \A d \in Devs : Len(ring[d]) <= Cap
DriverType ==
    /\ pc \in [Devs -> {"idle", "begun", "filled"}] /\ ev \in [Devs -> 0 .. MaxEvents]
    /\ begun \in 0 .. MaxEvents
    /\ published \subseteq 1 .. begun
BlockType ==
    /\ lastreadsize \in [Devs -> Nat] /\ sn_len \in [Devs -> Nat]
    /\ \A d \in Devs : sn_len[d] <= lastreadsize[d] /\ lastreadsize[d] <= Len(ring[d])
LibType ==
    /\ snaplen \in 0 .. MaxFlushes
    /\ cpc \in {"idle", "scan", "refill", "flush"} /\ j \in 1 .. NDevs + 1
    /\ pdevid \in 0 .. NDevs /\ held \in 0 .. MaxEvents
    /\ dlv \in Seq(Events) /\ flushed \subseteq published /\ Range(dlv) \subseteq published
    /\ early \subseteq published /\ stale \subseteq published
    /\ mark \in 0 .. Len(dlv)

(* A CPU records one new event at a time, later than all in its ring, and  *)
(* has room for it from the moment it is filled.                           *)
DriverInv ==
    /\ \A d \in Devs : pc[d] # "idle" =>
          /\ ev[d] \in 1 .. begun /\ ev[d] \notin published
          /\ \A i \in Idx(d) : At(d, i) < ev[d]
    /\ \A c, d \in Devs : pc[c] # "idle" /\ pc[d] # "idle" /\ ev[c] = ev[d] => c = d
    /\ \A d \in Devs : pc[d] = "filled" => Len(ring[d]) < Cap

(* The rings are sorted and share no event. *)
RingInv ==
    /\ \A d \in Devs : \A i \in Idx(d) : At(d, i) \in published
    /\ \A d \in Devs : \A i, k \in Idx(d) : i < k => At(d, i) < At(d, k)
    /\ \A c, d \in Devs : \A i \in Idx(c), k \in Idx(d) : At(c, i) = At(d, k) => c = d

UseInv ==
    /\ \A d \in Devs : \A i \in Idx(d) : At(d, i) \in Used <=> i <= Past(d)
    /\ ExactlyOnce

(* What a call knows while it scans the devices, while it refills the      *)
(* blocks, and afterwards.                                                 *)
RoundInv ==
    /\ cpc = "scan" /\ pdevid = 0 => \A d \in Devs : d < j => lastreadsize[d] = 0
    /\ cpc = "scan" /\ pdevid # 0 =>
          /\ pdevid < j /\ sn_len[pdevid] > 0
          /\ \A d \in Devs : d < j /\ sn_len[d] > 0 => NextEvent(pdevid) <= NextEvent(d)
    /\ cpc = "refill" => \A d \in Devs : j <= d => lastreadsize[d] = 0
    /\ \A d \in Devs : cpc # "refill" \/ d < j =>
          \A i \in Idx(d) : At(d, i) \in early => i <= lastreadsize[d]

(* The event handed out is kept by the block it is in, and only while no   *)
(* call is under way.                                                      *)
HeldInv ==
    /\ held # 0 => cpc \in {"idle", "flush"}
    /\ HeldStays
    /\ NoOvertaking

(* Once the flush has passed a device, libscap is past all that was in its *)
(* ring when the setting was made.                                         *)
StaleInv ==
    /\ cpc = "flush" => mark = Len(dlv)
    /\ \A d \in Devs : cpc # "flush" \/ d < j =>
          \A i \in Idx(d) : At(d, i) \in stale => i <= Past(d)
    /\ NoStaleEvents

Types == RingType /\ DriverType /\ BlockType /\ LibType
IInv == Types /\ DriverInv /\ RingInv /\ UseInv /\ RoundInv /\ HeldInv /\ StaleInv

-----------------------------------------------------------------------------
(* The members of a sequence are what stands at its indices.               *)
LEMMA InSeq ==
    ASSUME NEW S, NEW s \in Seq(S)
    PROVE  \A e : e \in Range(s) <=> \E i \in 1 .. Len(s) : s[i] = e
  BY LenProperties DEF Range

(* What is left of a sequence behind its first n members.                  *)
LEMMA CutSeq ==
    ASSUME NEW S, NEW s \in Seq(S), NEW n \in 0 .. Len(s)
    PROVE  /\ SubSeq(s, n + 1, Len(s)) \in Seq(S)
           /\ Len(SubSeq(s, n + 1, Len(s))) = Len(s) - n
           /\ \A i \in 1 .. Len(s) - n : SubSeq(s, n + 1, Len(s))[i] = s[n + i]
  <1>1. Len(s) \in Nat /\ \A i \in n + 1 .. Len(s) : s[i] \in S
    BY LenProperties, ElementOfSeq, SMTT(60), Z3T(60)
  <1>2. /\ SubSeq(s, n + 1, Len(s)) \in Seq(S)
        /\ Len(SubSeq(s, n + 1, Len(s))) = IF n + 1 <= Len(s) THEN Len(s) - (n + 1) + 1 ELSE 0
        /\ \A i \in 1 .. Len(s) - (n + 1) + 1 : SubSeq(s, n + 1, Len(s))[i] = s[n + 1 + i - 1]
    BY <1>1, SubSeqProperties, SMTT(60), Z3T(60)
  <1>3. Len(SubSeq(s, n + 1, Len(s))) = Len(s) - n
    BY <1>1, <1>2, SMTT(60), Z3T(60)
  <1>4. \A i \in 1 .. Len(s) - n : SubSeq(s, n + 1, Len(s))[i] = s[n + i]
    BY <1>1, <1>2, SMTT(60), Z3T(60)
  <1> QED BY <1>2, <1>3, <1>4

(* Devices just opened satisfy the invariant.                              *)
LEMMA InitInv == Init => IInv
  <1> SUFFICES ASSUME Init PROVE IInv
    OBVIOUS
  <1> USE DevSetAssumption DEF Init
  <1>1. <<>> \in Seq(Events) /\ Len(<<>>) = 0 /\ Range(<<>>) = {}
    BY EmptySeq, SMTT(60), Z3T(60) DEF Range
  <1>2. \A d \in Devs : ring[d] = <<>>
    OBVIOUS
  <1>3. Types
    <2>1. RingType /\ BlockType
      BY <1>1, <1>2, SMTT(60), Z3T(60) DEF RingType, BlockType
    <2>2. DriverType /\ LibType
      BY <1>1, SMTT(60), Z3T(60) DEF DriverType, LibType, Devs
    <2> QED BY <2>1, <2>2 DEF Types
  <1>4. \A d \in Devs : Idx(d) = {}
    BY <1>1, <1>2, SMTT(60), Z3T(60) DEF Idx
  <1>5. DriverInv /\ RingInv
    BY <1>4 DEF DriverInv, RingInv
  <1>6. UseInv
    <2>1. ExactlyOnce
      BY <1>1, FS_EmptySet DEF ExactlyOnce
    <2> QED BY <2>1, <1>4 DEF UseInv
  <1>7. RoundInv /\ HeldInv /\ StaleInv
    BY <1>1, <1>4 DEF RoundInv, HeldInv, HeldStays, NoOvertaking, StaleInv, NoStaleEvents
  <1> QED BY <1>3, <1>5, <1>6, <1>7 DEF IInv

(* A step of a CPU that publishes nothing is invisible to libscap.         *)
LEMMA LibscapFrame ==
    ASSUME RingType, BlockType, LibType, RingInv, UseInv, RoundInv, HeldInv, StaleInv,
           UNCHANGED <<ring, published, libscap>>
    PROVE  /\ RingType' /\ BlockType' /\ LibType' /\ RingInv' /\ UseInv'
           /\ RoundInv' /\ HeldInv' /\ StaleInv'
  <1> USE DEF libscap
  <1>1. RingType' /\ BlockType' /\ LibType'
    BY DEF RingType, BlockType, LibType
  <1>2. RingInv'
    BY DEF RingInv, Idx, At
  <1>3. UseInv'
    BY DEF UseInv, Used, Past, Idx, At, ExactlyOnce
  <1>4. RoundInv'
    BY DEF RoundInv, Idx, At, NextEvent
  <1>5. HeldInv'
    BY DEF HeldInv, HeldStays, NoOvertaking
  <1>6. StaleInv'
    BY DEF StaleInv, Past, Idx, At, NoStaleEvents
  <1> QED BY <1>1, <1>2, <1>3, <1>4, <1>5, <1>6

(* The timestamp is taken: the event is later than all published ones.     *)
LEMMA BeginInv ==
    ASSUME IInv, NEW d \in Devs, Begin(d)
    PROVE  IInv'
  <1> USE DevSetAssumption
  <1>1. Types /\ DriverInv /\ RingInv /\ UseInv /\ RoundInv /\ HeldInv /\ StaleInv
    BY DEF IInv
  <1>2. /\ RingType' /\ BlockType' /\ LibType' /\ RingInv' /\ UseInv'
        /\ RoundInv' /\ HeldInv' /\ StaleInv'
    BY <1>1, LibscapFrame DEF Types, Begin
  <1>3. /\ begun' = begun + 1 /\ begun' \in 0 .. MaxEvents /\ begun \in Nat
        /\ pc' = [pc EXCEPT ![d] = "begun"] /\ ev' = [ev EXCEPT ![d] = begun + 1]
        /\ ring' = ring /\ published' = published /\ published \subseteq 1 .. begun
    BY <1>1, SMTT(60), Z3T(60) DEF Begin, Types, DriverType
  <1>4. DriverType'
    BY <1>1, <1>3, SMTT(60), Z3T(60) DEF Types, DriverType
  <1>5. /\ pc'[d] = "begun" /\ ev'[d] = begun + 1
        /\ \A c \in Devs : c # d => pc'[c] = pc[c] /\ ev'[c] = ev[c]
    BY <1>1, <1>3 DEF Types, DriverType
  <1>6. DriverInv'
    <2>1. \A i \in Idx(d) : At(d, i) \in 1 .. begun
      BY <1>1, <1>3 DEF RingInv
    <2>2. \A c \in Devs : Idx(c)' = Idx(c) /\ \A i : At(c, i)' = At(c, i)
      BY <1>3 DEF Idx, At
    <2>3. \A c \in Devs : pc'[c] # "idle" =>
             /\ ev'[c] \in 1 .. begun' /\ ev'[c] \notin published'
             /\ \A i \in Idx(c)' : At(c, i)' < ev'[c]
      BY <1>1, <1>3, <1>5, <2>1, <2>2, SMTT(60), Z3T(60) DEF DriverInv
    <2>4. \A c \in Devs : c # d /\ pc'[c] # "idle" => ev'[c] # ev'[d]
      BY <1>1, <1>3, <1>5, SMTT(60), Z3T(60) DEF DriverInv
    <2>5. \A b, c \in Devs : pc'[b] # "idle" /\ pc'[c] # "idle" /\ ev'[b] = ev'[c] => b = c
      BY <1>1, <1>5, <2>4 DEF DriverInv
    <2>6. \A c \in Devs : pc'[c] = "filled" => Len(ring'[c]) < Cap
      BY <1>1, <1>3, <1>5 DEF DriverInv
    <2> QED BY <2>3, <2>5, <2>6 DEF DriverInv
  <1> QED BY <1>2, <1>4, <1>6 DEF IInv, Types

(* The event is filled or dropped: only the CPU's own state changes.       *)
LEMMA FillDropInv ==
    ASSUME IInv, NEW d \in Devs, Fill(d) \/ Drop(d)
    PROVE  IInv'
  <1> USE DevSetAssumption
  <1>1. Types /\ DriverInv /\ RingInv /\ UseInv /\ RoundInv /\ HeldInv /\ StaleInv
    BY DEF IInv
  <1>2. /\ RingType' /\ BlockType' /\ LibType' /\ RingInv' /\ UseInv'
        /\ RoundInv' /\ HeldInv' /\ StaleInv'
    BY <1>1, LibscapFrame DEF Types, Fill, Drop
  <1>3. /\ UNCHANGED <<ring, ev, begun, published>> /\ pc[d] = "begun"
        /\ \/ pc' = [pc EXCEPT ![d] = "filled"] /\ Len(ring[d]) < Cap
           \/ pc' = [pc EXCEPT ![d] = "idle"]
    BY DEF Fill, Drop
  <1>4. DriverType'
    BY <1>1, <1>3 DEF Types, DriverType
  <1>5. /\ pc'[d] = "filled" => Len(ring[d]) < Cap
        /\ \A c \in Devs : c # d => pc'[c] = pc[c]
        /\ \A c \in Devs : pc'[c] # "idle" => pc[c] # "idle"
    BY <1>1, <1>3 DEF Types, DriverType
  <1>6. DriverInv'
    BY <1>1, <1>3, <1>5 DEF DriverInv, Idx, At
  <1> QED BY <1>2, <1>4, <1>6 DEF IInv, Types

(* What is in a ring stands at one of its indices.                         *)
LEMMA Members ==
    ASSUME RingType, NEW d \in Devs
    PROVE  /\ \A e : e \in Range(ring[d]) <=> \E i \in Idx(d) : At(d, i) = e
           /\ Len(ring[d]) \in Nat
           /\ Idx(d) \subseteq Nat \ {0}
           /\ \A i \in Nat \ {0} : i \in Idx(d) <=> i <= Len(ring[d])
  <1>1. ring[d] \in Seq(Events)
    BY DEF RingType
  <1>2. \A e : e \in Range(ring[d]) <=> \E i \in Idx(d) : At(d, i) = e
    BY <1>1, InSeq DEF Idx, At
  <1>3. Len(ring[d]) \in Nat
    BY <1>1, LenProperties
  <1>4. /\ Idx(d) \subseteq Nat \ {0}
        /\ \A i \in Nat \ {0} : i \in Idx(d) <=> i <= Len(ring[d])
    BY <1>3, SMTT(60), Z3T(60) DEF Idx
  <1> QED BY <1>2, <1>3, <1>4

(* Where libscap is in a block, and what it would take next.               *)
LEMMA Blocks ==
    ASSUME RingType, BlockType, NEW d \in Devs
    PROVE  /\ lastreadsize[d] \in Nat /\ sn_len[d] \in Nat
           /\ lastreadsize[d] <= Len(ring[d])
           /\ Past(d) \in Nat /\ Past(d) <= lastreadsize[d]
           /\ Past(d) = lastreadsize[d] <=> sn_len[d] = 0
           /\ sn_len[d] > 0 => Past(d) + 1 \in Idx(d) /\ Past(d) + 1 <= lastreadsize[d]
           /\ NextEvent(d) = At(d, Past(d) + 1)
  <1>1. /\ lastreadsize[d] \in Nat /\ sn_len[d] \in Nat
        /\ sn_len[d] <= lastreadsize[d] /\ lastreadsize[d] <= Len(ring[d])
        /\ Len(ring[d]) \in Nat
    BY Members DEF BlockType
  <1>2. /\ Past(d) \in Nat /\ Past(d) <= lastreadsize[d]
        /\ Past(d) = lastreadsize[d] <=> sn_len[d] = 0
    BY <1>1, SMTT(60), Z3T(60) DEF Past
  <1>3. sn_len[d] > 0 => Past(d) + 1 \in Idx(d) /\ Past(d) + 1 <= lastreadsize[d]
    BY <1>1, SMTT(60), Z3T(60) DEF Past, Idx
  <1>4. NextEvent(d) = At(d, Past(d) + 1)
    BY DEF NextEvent, At, Past
  <1> QED BY <1>1, <1>2, <1>3, <1>4

(* The rings after a publication: the new event is the last of its ring.   *)
LEMMA PublishStep ==
    ASSUME RingType, DriverType, DriverInv, NEW d \in Devs, Publish(d)
    PROVE  /\ RingType'
           /\ \A c \in Devs : \A i \in Idx(c) : i \in Idx(c)' /\ At(c, i)' = At(c, i)
           /\ \A c \in Devs : \A i \in Idx(c)' : i \notin Idx(c) =>
                 c = d /\ i = Len(ring[d]) + 1 /\ At(c, i)' = ev[d]
           /\ \E i \in Idx(d)' : At(d, i)' = ev[d]
           /\ \A c \in Devs : c # d => ring'[c] = ring[c] /\ Idx(c)' = Idx(c)
           /\ ev[d] \in 1 .. begun /\ ev[d] \notin published
  <1> USE DevSetAssumption
  <1>1. ring \in [Devs -> Seq(Events)] /\ ring' = [ring EXCEPT ![d] = Append(@, ev[d])]
    BY DEF RingType, Publish
  <1>2. ev[d] \in 1 .. begun /\ ev[d] \in Events /\ ev[d] \notin published
    BY SMTT(60), Z3T(60) DEF DriverType, DriverInv, Publish, Events
  <1>3. ring'[d] = Append(ring[d], ev[d]) /\ \A c \in Devs : c # d => ring'[c] = ring[c]
    BY <1>1
  <1>4. ring[d] \in Seq(Events) /\ Len(ring[d]) \in Nat /\ Len(ring[d]) < Cap
    BY <1>1, LenProperties DEF DriverInv, Publish
  <1>5. /\ ring'[d] \in Seq(Events) /\ Len(ring'[d]) = Len(ring[d]) + 1
        /\ \A i \in 1 .. Len(ring[d]) : ring'[d][i] = ring[d][i]
        /\ ring'[d][Len(ring[d]) + 1] = ev[d]
    BY <1>2, <1>3, <1>4, AppendProperties, SMTT(60), Z3T(60)
  <1>6. RingType'
    <2>1. \A c \in Devs : Len(ring'[c]) <= Cap
      BY <1>3, <1>4, <1>5, SMTT(60), Z3T(60) DEF RingType
    <2>2. ring' \in [Devs -> Seq(Events)]
      BY <1>1, <1>3, <1>5
    <2> QED BY <2>1, <2>2 DEF RingType
  <1>7. \A c \in Devs : \A i \in Idx(c) : i \in Idx(c)' /\ At(c, i)' = At(c, i)
    <2>1. \A i \in Idx(d) : i \in Idx(d)' /\ At(d, i)' = At(d, i)
      BY <1>4, <1>5, SMTT(60), Z3T(60) DEF Idx, At
    <2>2. \A c \in Devs : c # d => \A i \in Idx(c) : i \in Idx(c)' /\ At(c, i)' = At(c, i)
      BY <1>3 DEF Idx, At
    <2> QED BY <2>1, <2>2
  <1>8. \A c \in Devs : \A i \in Idx(c)' : i \notin Idx(c) =>
           c = d /\ i = Len(ring[d]) + 1 /\ At(c, i)' = ev[d]
    BY <1>3, <1>4, <1>5, SMTT(60), Z3T(60) DEF Idx, At
  <1>9. \E i \in Idx(d)' : At(d, i)' = ev[d]
    BY <1>4, <1>5, SMTT(60), Z3T(60) DEF Idx, At
  <1>10. \A c \in Devs : c # d => Idx(c)' = Idx(c)
    BY <1>3 DEF Idx
  <1> QED BY <1>2, <1>3, <1>6, <1>7, <1>8, <1>9, <1>10

(* A publication keeps the rings sorted, and is behind every block.        *)
LEMMA PublishInv ==
    ASSUME IInv, NEW d \in Devs, Publish(d)
    PROVE  IInv'
  <1> USE DevSetAssumption
  <1>1. RingType /\ DriverType /\ BlockType /\ LibType
    BY DEF IInv, Types
  <1>2. DriverInv /\ RingInv /\ UseInv /\ RoundInv /\ HeldInv /\ StaleInv
    BY DEF IInv
  <1>3. /\ pc[d] = "filled" /\ pc' = [pc EXCEPT ![d] = "idle"]
        /\ published' = published \cup {ev[d]}
        /\ UNCHANGED <<ev, begun>>
    BY DEF Publish
  <1>4. UNCHANGED <<snaplen, lastreadsize, sn_len, cpc, j, pdevid, held, dlv, flushed,
                    early, mark, stale>>
    BY DEF Publish, libscap
  <1>5. RingType'
    BY <1>1, <1>2, PublishStep
  <1>6. \A c \in Devs : \A i \in Idx(c) : i \in Idx(c)' /\ At(c, i)' = At(c, i)
    BY <1>1, <1>2, PublishStep
  <1>7. \A c \in Devs : \A i \in Idx(c)' : i \notin Idx(c) =>
           c = d /\ i = Len(ring[d]) + 1 /\ At(c, i)' = ev[d]
    BY <1>1, <1>2, PublishStep
  <1>8. ev[d] \in 1 .. begun /\ ev[d] \notin published
    BY <1>1, <1>2, PublishStep
  <1>9. \A c \in Devs : c # d => ring'[c] = ring[c] /\ Idx(c)' = Idx(c)
    BY <1>1, <1>2, PublishStep
  <1>10. /\ pc'[d] = "idle" /\ \A c \in Devs : c # d => pc'[c] = pc[c]
         /\ pc' \in [Devs -> {"idle", "begun", "filled"}]
    BY <1>1, <1>3 DEF DriverType
  <1>11. \A c \in Devs : \A i \in Idx(c) : At(c, i) # ev[d]
    BY <1>2, <1>8, SMTT(60), Z3T(60) DEF RingInv
  <1>12. \A c \in Devs : \A e : e \in Range(ring[c]) => e \in Range(ring'[c])
    <2> SUFFICES ASSUME NEW c \in Devs, NEW e, e \in Range(ring[c])
                 PROVE  e \in Range(ring'[c])
      OBVIOUS
    <2>1. PICK i \in Idx(c) : At(c, i) = e
      BY <1>1, Members
    <2>2. i \in Idx(c)' /\ At(c, i)' = e
      BY <2>1, <1>6
    <2>3. ring'[c] \in Seq(Events)
      BY <1>5 DEF RingType
    <2> QED BY <2>2, <2>3, InSeq DEF Idx, At
  <1>13. Types'
    <2>1. DriverType'
      BY <1>1, <1>3, <1>8, <1>10 DEF DriverType
    <2>2. \A c \in Devs : Len(ring[c]) \in Nat /\ Len(ring'[c]) \in Nat
                          /\ Len(ring[c]) <= Len(ring'[c])
      <3> SUFFICES ASSUME NEW c \in Devs
                   PROVE  /\ Len(ring[c]) \in Nat /\ Len(ring'[c]) \in Nat
                          /\ Len(ring[c]) <= Len(ring'[c])
        OBVIOUS
      <3>1. ring[c] \in Seq(Events) /\ ring'[c] \in Seq(Events)
        BY <1>1, <1>5 DEF RingType
      <3>2. Len(ring[c]) \in Nat /\ Len(ring'[c]) \in Nat
        BY <3>1, LenProperties
      <3>3. Len(ring[c]) # 0 => Len(ring[c]) \in 1 .. Len(ring'[c])
        BY <3>2, <1>6, SMTT(60), Z3T(60) DEF Idx
      <3> QED BY <3>2, <3>3, SMTT(60), Z3T(60)
    <2>3. BlockType'
      <3>1. \A c \in Devs : lastreadsize[c] <= Len(ring'[c])
        <4> TAKE c \in Devs
        <4>1. lastreadsize[c] \in Nat /\ lastreadsize[c] <= Len(ring[c])
          BY <1>1 DEF BlockType
        <4> QED BY <4>1, <2>2, SMTT(60), Z3T(60)
      <3> QED BY <3>1, <1>1, <1>4 DEF BlockType
    <2>4. LibType'
      BY <1>1, <1>3, <1>4 DEF LibType
    <2> QED BY <1>5, <2>1, <2>3, <2>4 DEF Types
  <1>14. DriverInv'
    <2> SUFFICES ASSUME NEW c \in Devs, pc'[c] # "idle"
                 PROVE  /\ ev'[c] \in 1 .. begun' /\ ev'[c] \notin published'
                        /\ \A i \in Idx(c)' : At(c, i)' < ev'[c]
                        /\ pc'[c] = "filled" => Len(ring'[c]) < Cap
                        /\ \A b \in Devs : pc'[b] # "idle" /\ ev'[b] = ev'[c] => b = c
      BY DEF DriverInv
    <2>1. c # d /\ pc[c] # "idle" /\ pc'[c] = pc[c] /\ ev'[c] = ev[c]
      BY <1>3, <1>10
    <2>2. ev[c] # ev[d] /\ ev[c] \in 1 .. begun /\ ev[c] \notin published
      BY <1>2, <1>3, <2>1 DEF DriverInv
    <2>3. \A i \in Idx(c)' : At(c, i)' < ev[c]
      BY <1>2, <1>6, <1>7, <2>1 DEF DriverInv
    <2>4. pc'[c] = "filled" => Len(ring'[c]) < Cap
      BY <1>2, <1>9, <2>1 DEF DriverInv
    <2>5. \A b \in Devs : pc'[b] # "idle" /\ ev'[b] = ev'[c] => b = c
      BY <1>2, <1>3, <1>10, <2>1 DEF DriverInv
    <2> QED BY <1>3, <2>1, <2>2, <2>3, <2>4, <2>5
  <1>15. RingInv'
    <2>1. \A c \in Devs : \A i \in Idx(c)' : At(c, i)' \in published'
      BY <1>2, <1>3, <1>6, <1>7, SMTT(60), Z3T(60) DEF RingInv
    <2>2. ASSUME NEW c \in Devs, NEW i \in Idx(c)', NEW k \in Idx(c)', i < k
          PROVE  At(c, i)' < At(c, k)'
      <3>1. CASE k \in Idx(c) /\ i \in Idx(c)
        BY <3>1, <2>2, <1>2, <1>6, SMTT(60), Z3T(60) DEF RingInv
      <3>2. CASE k \notin Idx(c) /\ i \in Idx(c)
        BY <3>2, <2>2, <1>2, <1>3, <1>6, <1>7 DEF DriverInv
      <3>3. CASE i \notin Idx(c)
        <4>1. i = Len(ring[d]) + 1 /\ c = d
          BY <3>3, <1>7
        <4>2. k \in Idx(d) => k \in Nat /\ k <= Len(ring[d])
          BY <1>1, Members
        <4>3. k \notin Idx(d) => k = i
          BY <4>1, <1>7
        <4>4. Len(ring[d]) \in Nat
          BY <1>1, Members
        <4> QED BY <2>2, <4>1, <4>2, <4>3, <4>4, SMTT(60), Z3T(60)
      <3> QED BY <3>1, <3>2, <3>3
    <2>3. ASSUME NEW b \in Devs, NEW c \in Devs, NEW i \in Idx(b)', NEW k \in Idx(c)',
                 At(b, i)' = At(c, k)'
          PROVE  b = c
      <3>1. CASE i \in Idx(b) /\ k \in Idx(c)
        BY <3>1, <2>3, <1>2, <1>6, SMTT(60), Z3T(60) DEF RingInv
      <3>2. CASE i \notin Idx(b)
        BY <3>2, <2>3, <1>6, <1>7, <1>11, SMTT(60), Z3T(60)
      <3>3. CASE k \notin Idx(c)
        BY <3>3, <2>3, <1>6, <1>7, <1>11, SMTT(60), Z3T(60)
      <3> QED BY <3>1, <3>2, <3>3
    <2> QED BY <2>1, <2>2, <2>3 DEF RingInv
  <1>16. UseInv'
    <2>1. Used' = Used /\ Used \subseteq published /\ \A c \in Devs : Past(c)' = Past(c)
      BY <1>1, <1>4 DEF Used, Past, LibType
    <2>2. ASSUME NEW c \in Devs, NEW i \in Idx(c)'
          PROVE  At(c, i)' \in Used' <=> i <= Past(c)'
      <3>1. CASE i \in Idx(c)
        BY <3>1, <1>2, <1>6, <2>1 DEF UseInv
      <3>2. CASE i \notin Idx(c)
        <4>1. c = d /\ i = Len(ring[d]) + 1 /\ At(c, i)' = ev[d]
          BY <3>2, <2>2, <1>7
        <4>2. /\ Past(d) <= lastreadsize[d] /\ lastreadsize[d] <= Len(ring[d])
              /\ Past(d) \in Nat /\ lastreadsize[d] \in Nat /\ Len(ring[d]) \in Nat
          BY <1>1, Blocks, Members
        <4> QED BY <4>1, <4>2, <1>8, <2>1, SMTT(60), Z3T(60)
      <3> QED BY <3>1, <3>2
    <2>3. ExactlyOnce'
      <3>1. ev[d] \in Range(ring'[d])
        <4>1. PICK i \in Idx(d)' : At(d, i)' = ev[d]
          BY <1>1, <1>2, PublishStep
        <4>2. ring'[d] \in Seq(Events)
          BY <1>5 DEF RingType
        <4> QED BY <4>1, <4>2, InSeq DEF Idx, At
      <3>2. \A e \in published :
               (\E c \in Devs : e \in Range(ring[c])) \/ e \in Range(dlv) \cup flushed
        BY <1>2 DEF UseInv, ExactlyOnce
      <3>3. \A e \in published' :
               (\E c \in Devs : e \in Range(ring'[c])) \/ e \in Range(dlv) \cup flushed
        BY <1>3, <1>12, <3>1, <3>2
      <3> QED BY <1>2, <1>4, <3>3 DEF UseInv, ExactlyOnce
    <2> QED BY <2>2, <2>3 DEF UseInv
  <1>17. RoundInv'
    <2>1. ASSUME NEW c \in Devs, sn_len[c] > 0 PROVE NextEvent(c)' = NextEvent(c)
      <3>1. Past(c) + 1 \in Idx(c)
        BY <1>1, <2>1, Blocks
      <3> QED BY <3>1, <1>4, <1>6 DEF NextEvent, At, Past
    <2>2. ASSUME NEW c \in Devs, cpc # "refill" \/ c < j, NEW i \in Idx(c)',
                 At(c, i)' \in early
          PROVE  i <= lastreadsize[c]
      BY <1>1, <1>2, <1>6, <1>7, <1>8, <2>2, SMTT(60), Z3T(60) DEF RoundInv, LibType
    <2>3. pdevid # 0 => pdevid \in Devs
      BY <1>1, SMTT(60), Z3T(60) DEF LibType, Devs
    <2> QED BY <1>2, <1>4, <2>1, <2>2, <2>3 DEF RoundInv
  <1>18. HeldInv'
    BY <1>2, <1>4, <1>12 DEF HeldInv, HeldStays, NoOvertaking
  <1>19. StaleInv'
    <2>1. ASSUME NEW c \in Devs, cpc # "flush" \/ c < j, NEW i \in Idx(c)',
                 At(c, i)' \in stale
          PROVE  i <= Past(c)
      BY <1>1, <1>2, <1>6, <1>7, <1>8, <2>1 DEF StaleInv, LibType
    <2>2. \A c \in Devs : Past(c)' = Past(c)
      BY <1>4 DEF Past
    <2> QED BY <1>2, <1>4, <2>1, <2>2 DEF StaleInv, NoStaleEvents
  <1> QED BY <1>13, <1>14, <1>15, <1>16, <1>17, <1>18, <1>19 DEF IInv

(* A step of libscap that moves no tail leaves the rings and the drivers   *)
(* as they are.                                                            *)
LEMMA DriverFrame ==
    ASSUME RingType, DriverType, DriverInv, RingInv, UNCHANGED <<ring, driver>>
    PROVE  /\ RingType' /\ DriverType' /\ DriverInv' /\ RingInv'
           /\ ring' = ring /\ published' = published
           /\ \A d \in Devs : Idx(d)' = Idx(d) /\ \A i : At(d, i)' = At(d, i)
  <1> USE DEF driver
  <1>1. \A d \in Devs : Idx(d)' = Idx(d) /\ \A i : At(d, i)' = At(d, i)
    BY DEF Idx, At
  <1>2. RingType' /\ DriverType'
    BY DEF RingType, DriverType
  <1>3. DriverInv' /\ RingInv'
    BY SMTT(60), Z3T(60) DEF DriverInv, RingInv, Idx, At
  <1> QED BY <1>1, <1>2, <1>3

(* A step that moves libscap in no block either.                           *)
LEMMA BlockFrame ==
    ASSUME IInv, UNCHANGED <<ring, driver>>,
           UNCHANGED <<lastreadsize, sn_len, dlv, flushed>>
    PROVE  /\ RingType' /\ DriverType' /\ BlockType' /\ DriverInv' /\ RingInv' /\ UseInv'
           /\ ring' = ring /\ published' = published
           /\ \A d \in Devs : /\ Idx(d)' = Idx(d) /\ Past(d)' = Past(d)
                              /\ NextEvent(d)' = NextEvent(d)
                              /\ \A i : At(d, i)' = At(d, i)
  <1>1. RingType /\ DriverType /\ BlockType /\ DriverInv /\ RingInv /\ UseInv
    BY DEF IInv, Types
  <1>2. /\ RingType' /\ DriverType' /\ DriverInv' /\ RingInv'
        /\ ring' = ring /\ published' = published
        /\ \A d \in Devs : Idx(d)' = Idx(d) /\ \A i : At(d, i)' = At(d, i)
    BY <1>1, DriverFrame
  <1>3. BlockType'
    BY <1>1, <1>2 DEF BlockType
  <1>4. \A d \in Devs : Past(d)' = Past(d) /\ NextEvent(d)' = NextEvent(d)
    BY <1>2 DEF Past, NextEvent
  <1>5. UseInv'
    <2>1. Used' = Used
      BY DEF Used
    <2>2. ExactlyOnce'
      BY <1>1, <1>2 DEF UseInv, ExactlyOnce
    <2> QED BY <1>1, <1>2, <1>4, <2>1, <2>2 DEF UseInv
  <1> QED BY <1>2, <1>3, <1>4, <1>5

(* A call begins: the event handed out last is given up.                   *)
LEMMA CallInv ==
    ASSUME IInv, Call
    PROVE  IInv'
  <1> USE DevSetAssumption
  <1>1. LibType /\ RoundInv /\ StaleInv
    BY DEF IInv, Types
  <1>2. /\ RingType' /\ DriverType' /\ BlockType' /\ DriverInv' /\ RingInv' /\ UseInv'
        /\ ring' = ring /\ published' = published
    BY BlockFrame DEF Call
  <1>3. \A d \in Devs : Idx(d)' = Idx(d) /\ Past(d)' = Past(d) /\ \A i : At(d, i)' = At(d, i)
    BY BlockFrame DEF Call
  <1>4. LibType'
    BY <1>1, <1>2, SMTT(60), Z3T(60) DEF LibType, Call
  <1>5. RoundInv'
    BY <1>1, <1>3, SMTT(60), Z3T(60) DEF RoundInv, Call, Devs
  <1>6. HeldInv'
    BY DEF HeldInv, HeldStays, NoOvertaking, Call
  <1>7. StaleInv'
    BY <1>1, <1>3 DEF StaleInv, NoStaleEvents, Call
  <1> QED BY <1>2, <1>4, <1>5, <1>6, <1>7 DEF IInv, Types

(* The device with the lowest next event so far is kept.                   *)
LEMMA CompareInv ==
    ASSUME IInv, Compare
    PROVE  IInv'
  <1> USE DevSetAssumption
  <1>1. /\ LibType /\ RingType /\ DriverType /\ BlockType
        /\ RingInv /\ RoundInv /\ HeldInv /\ StaleInv
    BY DEF IInv, Types
  <1>2. /\ RingType' /\ DriverType' /\ BlockType' /\ DriverInv' /\ RingInv' /\ UseInv'
        /\ ring' = ring /\ published' = published
    BY BlockFrame DEF Compare
  <1>3. \A d \in Devs : /\ Idx(d)' = Idx(d) /\ Past(d)' = Past(d)
                        /\ \A i : At(d, i)' = At(d, i)
    BY BlockFrame DEF Compare
  <1>4. \A d \in Devs : NextEvent(d)' = NextEvent(d)
    BY BlockFrame DEF Compare
  <1>5. /\ cpc = "scan" /\ cpc' = "scan" /\ j \in Devs /\ j' = j + 1 /\ sn_len[j] > 0
        /\ pdevid' = IF Lower(j) THEN j ELSE pdevid
        /\ UNCHANGED <<lastreadsize, sn_len, held, dlv, flushed, early, mark, stale, snaplen>>
    BY <1>1, SMTT(60), Z3T(60) DEF Compare, LibType, Devs
  <1>6. pdevid' \in Devs
    BY <1>1, <1>5, SMTT(60), Z3T(60) DEF Lower, LibType, Devs
  <1>7. LibType'
    BY <1>1, <1>2, <1>5, <1>6, SMTT(60), Z3T(60) DEF LibType, Devs
  <1>8. \A d \in Devs : sn_len[d] > 0 => NextEvent(d) \in Nat
    <2> SUFFICES ASSUME NEW d \in Devs, sn_len[d] > 0 PROVE NextEvent(d) \in Nat
      OBVIOUS
    <2>1. NextEvent(d) \in published
      BY <1>1, Blocks, SMTT(60), Z3T(60) DEF RingInv
    <2>2. \A e \in published : e \in Nat
      BY <1>1, SMTT(60), Z3T(60) DEF DriverType
    <2> QED BY <2>1, <2>2
  <1>9. pdevid # 0 => pdevid \in Devs /\ pdevid < j /\ sn_len[pdevid] > 0
    BY <1>1, <1>5, SMTT(60), Z3T(60) DEF LibType, Devs, RoundInv
  <1>10. pdevid' < j' /\ sn_len[pdevid'] > 0
    BY <1>1, <1>5, <1>9, SMTT(60), Z3T(60) DEF Lower, LibType, Devs
  <1>11. ASSUME NEW d \in Devs, d < j', sn_len[d] > 0
         PROVE  NextEvent(pdevid') <= NextEvent(d)
    <2>1. d < j \/ d = j
      BY <1>1, <1>5, <1>11, SMTT(60), Z3T(60) DEF LibType, Devs
    <2>2. CASE pdevid = 0
      <3>1. pdevid' = j
        BY <2>2, <1>5 DEF Lower
      <3>2. d < j => lastreadsize[d] = 0 /\ sn_len[d] = 0
        BY <2>2, <1>1, <1>5, Blocks, SMTT(60), Z3T(60) DEF RoundInv, BlockType
      <3>3. d = j
        BY <3>2, <2>1, <1>11, SMTT(60), Z3T(60)
      <3> QED BY <3>1, <3>3, <1>8, <1>11, SMTT(60), Z3T(60)
    <2>3. CASE pdevid # 0
      <3>1. /\ NextEvent(pdevid) \in Nat /\ NextEvent(j) \in Nat /\ NextEvent(d) \in Nat
        BY <2>3, <1>5, <1>8, <1>9, <1>11
      <3>2. d < j => NextEvent(pdevid) <= NextEvent(d)
        BY <2>3, <1>1, <1>5, <1>11 DEF RoundInv
      <3>3. \/ NextEvent(j) < NextEvent(pdevid) /\ pdevid' = j
            \/ NextEvent(pdevid) <= NextEvent(j) /\ pdevid' = pdevid
        <4>1. Lower(j) <=> NextEvent(j) < NextEvent(pdevid)
          BY <2>3 DEF Lower
        <4> QED BY <4>1, <3>1, <1>5, SMTT(60), Z3T(60)
      <3> QED BY <2>1, <3>1, <3>2, <3>3, SMTT(60), Z3T(60)
    <2> QED BY <2>2, <2>3
  <1>12. RoundInv'
    <2>1. NextEvent(pdevid)' = NextEvent(pdevid')
      BY <1>2, <1>5 DEF NextEvent
    <2>2. ASSUME NEW d \in Devs, d < j', sn_len'[d] > 0
          PROVE  NextEvent(pdevid)' <= NextEvent(d)'
      BY <2>1, <2>2, <1>4, <1>5, <1>11
    <2>3. pdevid' # 0
      BY <1>6, SMTT(60), Z3T(60) DEF Devs
    <2> QED BY <1>1, <1>3, <1>5, <1>10, <2>2, <2>3, SMTT(60), Z3T(60) DEF RoundInv
  <1>13. HeldInv'
    BY <1>1, <1>5 DEF HeldInv, HeldStays, NoOvertaking
  <1>14. StaleInv'
    BY <1>1, <1>3, <1>5 DEF StaleInv, NoStaleEvents
  <1> QED BY <1>2, <1>7, <1>12, <1>13, <1>14 DEF IInv, Types

(* No block has an event left, and a new round begins.                     *)
LEMMA RefillInv ==
    ASSUME IInv, Refill
    PROVE  IInv'
  <1> USE DevSetAssumption
  <1>1. LibType /\ RoundInv /\ HeldInv /\ StaleInv
    BY DEF IInv, Types
  <1>2. /\ RingType' /\ DriverType' /\ BlockType' /\ DriverInv' /\ RingInv' /\ UseInv'
        /\ ring' = ring /\ published' = published
    BY BlockFrame DEF Refill
  <1>3. \A d \in Devs : Idx(d)' = Idx(d) /\ Past(d)' = Past(d) /\ \A i : At(d, i)' = At(d, i)
    BY BlockFrame DEF Refill
  <1>4. LibType'
    BY <1>1, <1>2, SMTT(60), Z3T(60) DEF LibType, Refill
  <1>5. RoundInv'
    <2>1. \A d \in Devs : lastreadsize[d] = 0
      BY <1>1, SMTT(60), Z3T(60) DEF RoundInv, Refill, Devs, LibType
    <2> QED BY <2>1, SMTT(60), Z3T(60) DEF RoundInv, Refill, Devs
  <1>6. HeldInv'
    BY <1>1 DEF HeldInv, HeldStays, NoOvertaking, Refill
  <1>7. StaleInv'
    BY <1>1, <1>3 DEF StaleInv, NoStaleEvents, Refill
  <1> QED BY <1>2, <1>4, <1>5, <1>6, <1>7 DEF IInv, Types

(* A setting is made: what is in the rings is to be thrown away.           *)
LEMMA SetSnaplenInv ==
    ASSUME IInv, SetSnaplen
    PROVE  IInv'
  <1> USE DevSetAssumption
  <1>1. RingType /\ LibType /\ RingInv /\ RoundInv /\ HeldInv
    BY DEF IInv, Types
  <1>2. /\ RingType' /\ DriverType' /\ BlockType' /\ DriverInv' /\ RingInv' /\ UseInv'
        /\ ring' = ring /\ published' = published
    BY BlockFrame DEF SetSnaplen
  <1>3. \A d \in Devs : Idx(d)' = Idx(d) /\ \A i : At(d, i)' = At(d, i)
    BY BlockFrame DEF SetSnaplen
  <1>4. stale' \subseteq published
    <2>1. \A d \in Devs : Range(ring[d]) \subseteq published
      BY <1>1, Members, SMTT(60), Z3T(60) DEF RingInv
    <2> QED BY <2>1 DEF SetSnaplen
  <1>5. LibType'
    <2>1. Len(dlv) \in Nat
      BY <1>1, LenProperties DEF LibType
    <2> QED BY <1>1, <1>2, <1>4, <2>1, SMTT(60), Z3T(60) DEF LibType, SetSnaplen
  <1>6. RoundInv'
    BY <1>1, <1>3 DEF RoundInv, SetSnaplen
  <1>7. HeldInv'
    BY <1>1, <1>2 DEF HeldInv, HeldStays, NoOvertaking, SetSnaplen
  <1>8. StaleInv'
    BY SMTT(60), Z3T(60) DEF StaleInv, NoStaleEvents, SetSnaplen, Devs
  <1> QED BY <1>2, <1>5, <1>6, <1>7, <1>8 DEF IInv, Types

(* READBUF of one device, or SCAP_TIMEOUT after the last one: the block    *)
(* covers all that was published before the round began.                   *)
LEMMA ReadbufInv ==
    ASSUME IInv, Readbuf
    PROVE  IInv'
  <1> USE DevSetAssumption
  <1>1. RingType /\ DriverType /\ BlockType /\ LibType
    BY DEF IInv, Types
  <1>2. DriverInv /\ RingInv /\ UseInv /\ RoundInv /\ HeldInv /\ StaleInv
    BY DEF IInv
  <1>3. /\ RingType' /\ DriverType' /\ DriverInv' /\ RingInv'
        /\ ring' = ring /\ published' = published
    BY <1>1, <1>2, DriverFrame DEF Readbuf
  <1>4. \A d \in Devs : Idx(d)' = Idx(d) /\ \A i : At(d, i)' = At(d, i)
    BY <1>1, <1>2, DriverFrame DEF Readbuf
  <1>5. /\ cpc = "refill" /\ held = 0
        /\ UNCHANGED <<snaplen, pdevid, held, dlv, flushed, early, mark, stale>>
    BY <1>2 DEF Readbuf, HeldInv
  <1>6. Used' = Used /\ ExactlyOnce'
    BY <1>2, <1>3, <1>5 DEF Used, UseInv, ExactlyOnce
  <1>7. HeldInv'
    BY <1>5 DEF HeldInv, HeldStays, NoOvertaking
  <1>8. CASE j <= NDevs
    <2>1. /\ lastreadsize' = [lastreadsize EXCEPT ![j] = Len(ring[j])]
          /\ sn_len' = [sn_len EXCEPT ![j] = Len(ring[j])]
          /\ j' = j + 1 /\ cpc' = cpc /\ j \in Devs
      BY <1>1, <1>8, SMTT(60), Z3T(60) DEF Readbuf, LastDevice, ReadSize, LibType, Devs
    <2>2. /\ lastreadsize'[j] = Len(ring[j]) /\ sn_len'[j] = Len(ring[j])
          /\ \A d \in Devs : d # j => lastreadsize'[d] = lastreadsize[d] /\ sn_len'[d] = sn_len[d]
      BY <2>1, <1>1 DEF BlockType
    <2>3. \A d \in Devs : Len(ring[d]) \in Nat
      BY <1>1, Members
    <2>4. BlockType'
      BY <1>1, <1>3, <2>1, <2>2, <2>3, SMTT(60), Z3T(60) DEF BlockType
    <2>5. \A d \in Devs : Past(d)' = Past(d)
      <3>1. lastreadsize[j] = 0 /\ sn_len[j] = 0
        <4>1. j <= j
          BY <2>1, SMTT(60), Z3T(60) DEF Devs
        <4> QED BY <1>1, <1>2, <1>5, <2>1, <4>1, SMTT(60), Z3T(60) DEF RoundInv, BlockType
      <3> QED BY <3>1, <2>2, <2>3, SMTT(60), Z3T(60) DEF Past
    <2>6. LibType'
      BY <1>1, <1>3, <1>5, <2>1, SMTT(60), Z3T(60) DEF LibType, Devs
    <2>7. UseInv'
      BY <1>2, <1>4, <1>6, <2>5 DEF UseInv
    <2>8. RoundInv'
      <3>1. \A d \in Devs : j' <= d => lastreadsize'[d] = 0
        BY <1>2, <1>5, <2>1, <2>2, SMTT(60), Z3T(60) DEF RoundInv, Devs
      <3>2. ASSUME NEW d \in Devs, d < j', NEW i \in Idx(d), At(d, i) \in early
            PROVE  i <= lastreadsize'[d]
        <4>1. CASE d = j
          BY <4>1, <1>1, <2>2, Members
        <4>2. CASE d # j
          BY <4>2, <3>2, <1>2, <1>5, <2>1, <2>2, SMTT(60), Z3T(60) DEF RoundInv, Devs
        <4> QED BY <4>1, <4>2
      <3> QED BY <1>4, <1>5, <2>1, <3>1, <3>2, SMTT(60), Z3T(60) DEF RoundInv
    <2>9. StaleInv'
      BY <1>2, <1>4, <1>5, <2>1, <2>5 DEF StaleInv, NoStaleEvents
    <2> QED BY <1>3, <1>7, <2>4, <2>6, <2>7, <2>8, <2>9 DEF IInv, Types
  <1>9. CASE ~ (j <= NDevs)
    <2>1. cpc' = "idle" /\ UNCHANGED <<lastreadsize, sn_len, j>>
      BY <1>9 DEF Readbuf, LastDevice
    <2>2. BlockType' /\ LibType'
      BY <1>1, <1>3, <1>5, <2>1 DEF BlockType, LibType
    <2>3. \A d \in Devs : Past(d)' = Past(d)
      BY <2>1 DEF Past
    <2>4. UseInv'
      BY <1>2, <1>4, <1>6, <2>3 DEF UseInv
    <2>5. RoundInv'
      <3>1. \A d \in Devs : d < j
        BY <1>1, <1>9, SMTT(60), Z3T(60) DEF LibType, Devs
      <3> QED BY <1>2, <1>4, <1>5, <2>1, <3>1, SMTT(60), Z3T(60) DEF RoundInv
    <2>6. StaleInv'
      BY <1>2, <1>4, <1>5, <2>1, <2>3 DEF StaleInv, NoStaleEvents
    <2> QED BY <1>3, <1>7, <2>2, <2>4, <2>5, <2>6 DEF IInv, Types
  <1> QED BY <1>8, <1>9

(* The flush of one device throws away what libscap had not handed out of  *)
(* its ring, and puts libscap behind all of it.                            *)
LEMMA FlushDeviceInv ==
    ASSUME IInv, Flush, NEW g \in Devs, j = g
    PROVE  IInv'
  <1> USE DevSetAssumption
  <1>1. RingType /\ DriverType /\ BlockType /\ LibType
    BY DEF IInv, Types
  <1>2. DriverInv /\ RingInv /\ UseInv /\ RoundInv /\ HeldInv /\ StaleInv
    BY DEF IInv
  <1>3. /\ RingType' /\ DriverType' /\ DriverInv' /\ RingInv'
        /\ ring' = ring /\ published' = published
    BY <1>1, <1>2, DriverFrame DEF Flush
  <1>4. \A d \in Devs : Idx(d)' = Idx(d) /\ \A i : At(d, i)' = At(d, i)
    BY <1>1, <1>2, DriverFrame DEF Flush
  <1>5. /\ cpc = "flush" /\ cpc' = cpc /\ j = g /\ j' = g + 1
        /\ UNCHANGED <<snaplen, pdevid, held, dlv, early, mark, stale>>
    BY <1>1, SMTT(60), Z3T(60) DEF Flush, LibType, Devs
  <1>6. /\ lastreadsize' = [lastreadsize EXCEPT ![g] = Len(ring[g])]
        /\ sn_len' = [sn_len EXCEPT ![g] = 0]
        /\ flushed' = flushed \cup Range(SubSeq(ring[g], Past(g) + 1, Len(ring[g])))
    <2>1. g <= NDevs
      BY SMTT(60), Z3T(60) DEF Devs
    <2> QED BY <2>1 DEF Flush, FlushSize, FlushLeaves, ReadSize, Past
  <1>7. /\ lastreadsize'[g] = Len(ring[g]) /\ sn_len'[g] = 0
        /\ \A d \in Devs : d # g => lastreadsize'[d] = lastreadsize[d] /\ sn_len'[d] = sn_len[d]
    BY <1>1, <1>5, <1>6 DEF BlockType
  <1>8. \A d \in Devs : Len(ring[d]) \in Nat
    BY <1>1, Members
  <1>9. Past(g)' = Len(ring[g]) /\ \A d \in Devs : d # g => Past(d)' = Past(d)
    BY <1>5, <1>7, <1>8, SMTT(60), Z3T(60) DEF Past
  <1>10. \A e : e \in flushed' <=>
            e \in flushed \/ \E i \in Idx(g) : Past(g) < i /\ At(g, i) = e
    <2> DEFINE s == SubSeq(ring[g], Past(g) + 1, Len(ring[g]))
    <2>1. Past(g) \in Nat /\ Past(g) <= Len(ring[g]) /\ Len(ring[g]) \in Nat
      BY <1>1, <1>5, <1>8, Blocks, SMTT(60), Z3T(60)
    <2>2. ring[g] \in Seq(Events) /\ Past(g) \in 0 .. Len(ring[g])
      BY <1>1, <2>1, SMTT(60), Z3T(60) DEF RingType
    <2>3. /\ s \in Seq(Events) /\ Len(s) = Len(ring[g]) - Past(g)
          /\ \A i \in 1 .. Len(ring[g]) - Past(g) : s[i] = ring[g][Past(g) + i]
      BY <2>2, CutSeq
    <2> HIDE DEF s
    <2>4. \A e : e \in Range(s) <=> \E k \in 1 .. Len(s) : s[k] = e
      BY <2>3, InSeq
    <2>5. \A e : e \in Range(s) => \E i \in Idx(g) : Past(g) < i /\ At(g, i) = e
      <3> SUFFICES ASSUME NEW e, e \in Range(s)
                   PROVE  \E i \in Idx(g) : Past(g) < i /\ At(g, i) = e
        OBVIOUS
      <3>1. PICK k \in 1 .. Len(s) : s[k] = e
        BY <2>4
      <3>2. Past(g) + k \in Idx(g) /\ Past(g) < Past(g) + k
        BY <2>1, <2>3, SMTT(60), Z3T(60) DEF Idx
      <3>3. At(g, Past(g) + k) = e
        BY <2>3, <3>1 DEF At
      <3> QED BY <3>2, <3>3
    <2>6. ASSUME NEW i \in Idx(g), Past(g) < i PROVE At(g, i) \in Range(s)
      <3>1. i - Past(g) \in 1 .. Len(s) /\ Past(g) + (i - Past(g)) = i
        BY <2>1, <2>3, <2>6, SMTT(60), Z3T(60) DEF Idx
      <3>2. s[i - Past(g)] = ring[g][i]
        BY <2>3, <3>1
      <3> QED BY <2>4, <3>1, <3>2 DEF At
    <2>7. flushed' = flushed \cup Range(s)
      BY <1>6 DEF s
    <2> QED BY <2>5, <2>6, <2>7
  <1>11. ASSUME NEW d \in Devs, NEW i \in Idx(d)
         PROVE  At(d, i) \in Used' <=> i <= Past(d)'
    <2>1. At(d, i) \in Used' <=>
             At(d, i) \in Used \/ \E k \in Idx(g) : Past(g) < k /\ At(g, k) = At(d, i)
      BY <1>5, <1>10 DEF Used
    <2>2. At(d, i) \in Used <=> i <= Past(d)
      BY <1>2, <1>11 DEF UseInv
    <2>3. CASE d = g
      <3>1. i \in Nat /\ i <= Len(ring[g]) /\ Past(g) \in Nat
        BY <2>3, <1>1, <1>11, Members, Blocks
      <3>2. i <= Past(g) \/ Past(g) < i
        BY <3>1, SMTT(60), Z3T(60)
      <3> QED BY <2>1, <2>2, <2>3, <3>1, <3>2, <1>9
    <2>4. CASE d # g
      <3>1. \A k \in Idx(g) : At(g, k) # At(d, i)
        BY <2>4, <1>2, <1>5 DEF RingInv
      <3> QED BY <2>1, <2>2, <2>4, <3>1, <1>9
    <2> QED BY <2>3, <2>4
  <1>12. flushed' \subseteq published /\ Range(dlv) \cap flushed' = {}
    <2>1. ASSUME NEW i \in Idx(g), Past(g) < i
          PROVE  At(g, i) \in published /\ At(g, i) \notin Range(dlv)
      <3>1. Past(g) \in Nat /\ i \in Nat
        BY <1>1, <1>5, Blocks, Members
      <3>2. At(g, i) \notin Used
        BY <1>2, <1>5, <2>1, <3>1, SMTT(60), Z3T(60) DEF UseInv
      <3> QED BY <1>2, <1>5, <3>2 DEF RingInv, Used
    <2>2. Range(dlv) \cap flushed = {}
      BY <1>2 DEF UseInv, ExactlyOnce
    <2>3. flushed \subseteq published
      BY <1>1 DEF LibType
    <2> QED BY <1>10, <2>1, <2>2, <2>3
  <1>13. UseInv'
    <2>1. ExactlyOnce'
      <3>1. flushed \subseteq flushed'
        BY <1>10
      <3> QED BY <1>2, <1>3, <1>5, <1>12, <3>1 DEF UseInv, ExactlyOnce
    <2> QED BY <1>4, <1>11, <2>1 DEF UseInv
  <1>14. BlockType'
    BY <1>1, <1>3, <1>6, <1>7, <1>8, SMTT(60), Z3T(60) DEF BlockType
  <1>15. LibType'
    BY <1>1, <1>3, <1>5, <1>12, SMTT(60), Z3T(60) DEF LibType, Devs
  <1>16. RoundInv'
    <2>1. ASSUME NEW d \in Devs, NEW i \in Idx(d), At(d, i) \in early
          PROVE  i <= lastreadsize'[d]
      <3>1. CASE d = g
        BY <3>1, <2>1, <1>1, <1>7, Members
      <3>2. CASE d # g
        BY <3>2, <2>1, <1>2, <1>5, <1>7 DEF RoundInv
      <3> QED BY <3>1, <3>2
    <2> QED BY <1>4, <1>5, <2>1 DEF RoundInv
  <1>17. HeldInv'
    BY <1>2, <1>3, <1>5, <1>10 DEF HeldInv, HeldStays, NoOvertaking
  <1>18. StaleInv'
    <2>1. ASSUME NEW d \in Devs, d < j', NEW i \in Idx(d), At(d, i) \in stale
          PROVE  i <= Past(d)'
      <3>1. CASE d = g
        BY <3>1, <2>1, <1>1, <1>9, Members
      <3>2. CASE d # g
        BY <3>2, <2>1, <1>2, <1>5, <1>9, SMTT(60), Z3T(60) DEF StaleInv, Devs
      <3> QED BY <3>1, <3>2
    <2> QED BY <1>2, <1>4, <1>5, <2>1 DEF StaleInv, NoStaleEvents
  <1> QED BY <1>3, <1>13, <1>14, <1>15, <1>16, <1>17, <1>18 DEF IInv, Types

(* A flush of one device, or the end of the flush.                         *)
LEMMA FlushInv ==
    ASSUME IInv, Flush
    PROVE  IInv'
  <1>1. CASE j <= NDevs
    <2>1. j \in Devs
      BY <1>1, SMTT(60), Z3T(60) DEF IInv, Types, LibType, Devs
    <2> QED BY <2>1, FlushDeviceInv
  <1>2. CASE ~ (j <= NDevs)
    <2>1. RingType /\ DriverType /\ LibType /\ RoundInv /\ HeldInv /\ StaleInv
      BY DEF IInv, Types
    <2>2. /\ cpc = "flush" /\ cpc' = "idle"
          /\ UNCHANGED <<lastreadsize, sn_len, j, flushed, ring, driver>>
          /\ UNCHANGED <<snaplen, pdevid, held, dlv, early, mark, stale>>
      BY <1>2 DEF Flush
    <2>3. /\ RingType' /\ DriverType' /\ BlockType' /\ DriverInv' /\ RingInv' /\ UseInv'
          /\ ring' = ring /\ published' = published
      BY <2>2, BlockFrame
    <2>4. \A d \in Devs : Idx(d)' = Idx(d) /\ Past(d)' = Past(d) /\ \A i : At(d, i)' = At(d, i)
      BY <2>2, BlockFrame
    <2>5. LibType'
      BY <2>1, <2>2, <2>3 DEF LibType
    <2>6. RoundInv'
      BY <2>1, <2>2, <2>4, SMTT(60), Z3T(60) DEF RoundInv
    <2>7. HeldInv'
      BY <2>1, <2>2 DEF HeldInv, HeldStays, NoOvertaking
    <2>8. StaleInv'
      <3>1. \A d \in Devs : d < j
        BY <1>2, <2>1, DevSetAssumption, SMTT(60), Z3T(60) DEF LibType, Devs
      <3>2. Len(dlv) \in Nat
        BY <2>1, LenProperties DEF LibType
      <3> QED BY <2>1, <2>2, <2>4, <3>1, <3>2, SMTT(60), Z3T(60) DEF StaleInv, NoStaleEvents
    <2> QED BY <2>3, <2>5, <2>6, <2>7, <2>8 DEF IInv, Types
  <1> QED BY <1>1, <1>2

(* The lowest of the next events is handed out: it was not before, it is   *)
(* lower than all that the round still holds, and it is not stale.         *)
LEMMA DeliverInv ==
    ASSUME IInv, Deliver
    PROVE  IInv'
  <1> USE DevSetAssumption
  <1>1. RingType /\ DriverType /\ BlockType /\ LibType
    BY DEF IInv, Types
  <1>2. DriverInv /\ RingInv /\ UseInv /\ RoundInv /\ HeldInv /\ StaleInv
    BY DEF IInv
  <1>3. /\ RingType' /\ DriverType' /\ DriverInv' /\ RingInv'
        /\ ring' = ring /\ published' = published
    BY <1>1, <1>2, DriverFrame DEF Deliver
  <1>4. \A d \in Devs : Idx(d)' = Idx(d) /\ \A i : At(d, i)' = At(d, i)
    BY <1>1, <1>2, DriverFrame DEF Deliver
  <1>5. PICK g \in Devs : pdevid = g
    BY <1>1, SMTT(60), Z3T(60) DEF Deliver, LibType, Devs
  <1>6. PICK e : e = NextEvent(g)
    OBVIOUS
  <1>7. /\ cpc = "scan" /\ cpc' = "idle" /\ \A d \in Devs : d < j
        /\ held' = e /\ dlv' = Append(dlv, e)
        /\ sn_len' = [sn_len EXCEPT ![g] = @ - 1]
        /\ UNCHANGED <<snaplen, lastreadsize, j, pdevid, flushed, early, mark, stale>>
    BY <1>1, <1>5, <1>6, SMTT(60), Z3T(60) DEF Deliver, LibType, Devs
  <1>8. sn_len[g] > 0 /\ \A d \in Devs : sn_len[d] > 0 => e <= NextEvent(d)
    <2>1. g # 0
      BY SMTT(60), Z3T(60) DEF Devs
    <2> QED BY <2>1, <1>2, <1>5, <1>6, <1>7 DEF RoundInv
  <1>9. Past(g) + 1 \in Idx(g) /\ At(g, Past(g) + 1) = e /\ Past(g) \in Nat
    BY <1>1, <1>6, <1>8, Blocks
  <1>10. \A x \in published : x \in Nat /\ x \in Events /\ x # 0
    BY <1>1, SMTT(60), Z3T(60) DEF DriverType, Events
  <1>11. e \in published /\ e \notin Used
    <2>1. ~ (Past(g) + 1 <= Past(g))
      BY <1>9, SMTT(60), Z3T(60)
    <2> QED BY <2>1, <1>2, <1>9 DEF RingInv, UseInv
  <1>12. /\ dlv \in Seq(Events) /\ dlv' \in Seq(Events) /\ Len(dlv) \in Nat
         /\ Len(dlv') = Len(dlv) + 1
         /\ \A i \in 1 .. Len(dlv) : dlv'[i] = dlv[i]
         /\ dlv'[Len(dlv) + 1] = e
    <2>1. dlv \in Seq(Events) /\ e \in Events
      BY <1>1, <1>10, <1>11 DEF LibType
    <2> QED BY <2>1, <1>7, AppendProperties, LenProperties, SMTT(60), Z3T(60)
  <1>13. Range(dlv') = Range(dlv) \cup {e}
    <2>1. /\ \A x : x \in Range(dlv) <=> \E i \in 1 .. Len(dlv) : dlv[i] = x
          /\ \A x : x \in Range(dlv') <=> \E i \in 1 .. Len(dlv') : dlv'[i] = x
      BY <1>12, InSeq
    <2>2. \A x : (\E i \in 1 .. Len(dlv') : dlv'[i] = x)
                    <=> (\E i \in 1 .. Len(dlv) : dlv[i] = x) \/ x = e
      <3>1. \A i \in 1 .. Len(dlv') : i \in 1 .. Len(dlv) \/ i = Len(dlv) + 1
        BY <1>12, SMTT(60), Z3T(60)
      <3>2. /\ \A i \in 1 .. Len(dlv) : i \in 1 .. Len(dlv')
            /\ Len(dlv) + 1 \in 1 .. Len(dlv')
        BY <1>12, SMTT(60), Z3T(60)
      <3> QED BY <1>12, <3>1, <3>2
    <2> QED BY <2>1, <2>2
  <1>14. Used' = Used \cup {e}
    BY <1>7, <1>13 DEF Used
  <1>15. /\ sn_len'[g] = sn_len[g] - 1 /\ \A d \in Devs : d # g => sn_len'[d] = sn_len[d]
         /\ sn_len[g] \in Nat /\ lastreadsize[g] \in Nat
    BY <1>1, <1>7 DEF BlockType
  <1>16. Past(g)' = Past(g) + 1 /\ \A d \in Devs : d # g => Past(d)' = Past(d)
    BY <1>7, <1>15, SMTT(60), Z3T(60) DEF Past
  <1>17. BlockType'
    <2>1. sn_len[g] - 1 \in Nat /\ sn_len[g] - 1 <= lastreadsize[g]
      BY <1>1, <1>8, <1>15, SMTT(60), Z3T(60) DEF BlockType
    <2> QED BY <1>1, <1>3, <1>7, <1>15, <2>1 DEF BlockType
  <1>18. LibType'
    <2>1. held' \in 0 .. MaxEvents
      BY <1>7, <1>10, <1>11, SMTT(60), Z3T(60) DEF Events
    <2>2. mark' \in 0 .. Len(dlv')
      BY <1>1, <1>7, <1>12, SMTT(60), Z3T(60) DEF LibType
    <2>3. Range(dlv') \subseteq published'
      BY <1>1, <1>3, <1>11, <1>13 DEF LibType
    <2> QED BY <1>1, <1>3, <1>7, <1>12, <2>1, <2>2, <2>3 DEF LibType
  <1>19. UseInv'
    <2>1. ASSUME NEW d \in Devs, NEW i \in Idx(d)
          PROVE  At(d, i) \in Used' <=> i <= Past(d)'
      <3>1. At(d, i) \in Used <=> i <= Past(d)
        BY <1>2, <2>1 DEF UseInv
      <3>2. i \in Nat
        BY <1>1, <2>1, Members
      <3>3. At(d, i) = e <=> d = g /\ i = Past(g) + 1
        <4>1. CASE d # g
          BY <4>1, <1>2, <1>9, <2>1 DEF RingInv
        <4>2. CASE d = g
          <5>1. i < Past(g) + 1 \/ i = Past(g) + 1 \/ Past(g) + 1 < i
            BY <1>9, <3>2, SMTT(60), Z3T(60)
          <5>2. i < Past(g) + 1 => At(g, i) < e
            BY <4>2, <1>2, <1>9, <2>1 DEF RingInv
          <5>3. Past(g) + 1 < i => e < At(g, i)
            BY <4>2, <1>2, <1>9, <2>1 DEF RingInv
          <5>4. e \in Nat
            BY <1>10, <1>11
          <5> QED BY <4>2, <1>9, <5>1, <5>2, <5>3, <5>4, SMTT(60), Z3T(60)
        <4> QED BY <4>1, <4>2
      <3> QED BY <1>9, <1>14, <1>16, <3>1, <3>2, <3>3, SMTT(60), Z3T(60)
    <2>2. ExactlyOnce'
      <3>1. Range(dlv') \cap flushed' = {}
        BY <1>2, <1>7, <1>11, <1>13 DEF UseInv, ExactlyOnce, Used
      <3>2. Cardinality(Range(dlv')) = Len(dlv')
        <4>1. IsFiniteSet(Range(dlv))
          <5>1. Range(dlv) \in SUBSET Events
            BY <1>12, RangeOfSeq
          <5>2. IsFiniteSet(Events)
            BY FS_Interval, SMTT(60), Z3T(60) DEF Events
          <5> QED BY <5>1, <5>2, FS_Subset
        <4>2. e \notin Range(dlv)
          BY <1>11 DEF Used
        <4>3. Cardinality(Range(dlv) \cup {e}) = Cardinality(Range(dlv)) + 1
          BY <4>1, <4>2, FS_AddElement
        <4>4. Cardinality(Range(dlv)) = Len(dlv)
          BY <1>2 DEF UseInv, ExactlyOnce
        <4> QED BY <1>12, <1>13, <4>3, <4>4
      <3>3. \A x \in published' :
               (\E d \in Devs : x \in Range(ring'[d])) \/ x \in Range(dlv') \cup flushed'
        BY <1>2, <1>3, <1>7, <1>13 DEF UseInv, ExactlyOnce
      <3> QED BY <3>1, <3>2, <3>3 DEF ExactlyOnce
    <2> QED BY <1>4, <2>1, <2>2 DEF UseInv
  <1>20. RoundInv'
    BY <1>2, <1>4, <1>7, SMTT(60), Z3T(60) DEF RoundInv
  <1>21. HeldInv'
    <2>1. HeldStays'
      <3>1. e \in Range(ring[g])
        BY <1>1, <1>9, Members
      <3> QED BY <1>3, <1>7, <3>1 DEF HeldStays
    <2>2. ASSUME NEW x \in early, x \notin Used'
          PROVE  e < x
      <3>1. x \in published /\ x \notin Used /\ x # e
        BY <1>1, <1>14, <2>2 DEF LibType
      <3>2. PICK d \in Devs : x \in Range(ring[d])
        BY <1>2, <3>1 DEF UseInv, ExactlyOnce, Used
      <3>3. PICK i \in Idx(d) : At(d, i) = x
        BY <1>1, <3>2, Members
      <3>4. i \in Nat /\ ~ (i <= Past(d)) /\ i <= lastreadsize[d]
        BY <1>1, <1>2, <1>7, <2>2, <3>1, <3>3, Members DEF UseInv, RoundInv
      <3>5. /\ Past(d) \in Nat /\ sn_len[d] \in Nat /\ lastreadsize[d] \in Nat
            /\ Past(d) = lastreadsize[d] <=> sn_len[d] = 0
        BY <1>1, Blocks
      <3>6. sn_len[d] > 0
        BY <3>4, <3>5, SMTT(60), Z3T(60)
      <3>7. Past(d) + 1 \in Idx(d) /\ NextEvent(d) = At(d, Past(d) + 1)
        BY <1>1, <3>6, Blocks
      <3>8. NextEvent(d) <= x
        <4>1. CASE i = Past(d) + 1
          BY <4>1, <3>1, <3>3, <3>7, <1>10, SMTT(60), Z3T(60)
        <4>2. CASE Past(d) + 1 < i
          <5>1. At(d, Past(d) + 1) < At(d, i)
            BY <4>2, <1>2, <3>3, <3>7 DEF RingInv
          <5>2. At(d, Past(d) + 1) \in Nat /\ x \in Nat
            BY <1>2, <1>10, <3>1, <3>7 DEF RingInv
          <5> QED BY <5>1, <5>2, <3>3, <3>7, SMTT(60), Z3T(60)
        <4> QED BY <4>1, <4>2, <3>4, <3>5, SMTT(60), Z3T(60)
      <3>9. e \in Nat /\ x \in Nat /\ NextEvent(d) \in Nat
        BY <1>2, <1>10, <1>11, <3>1, <3>7 DEF RingInv
      <3> QED BY <1>8, <3>1, <3>6, <3>8, <3>9, SMTT(60), Z3T(60)
    <2>3. NoOvertaking'
      BY <1>7, <2>2 DEF NoOvertaking, Used
    <2> QED BY <1>7, <2>1, <2>3 DEF HeldInv
  <1>22. StaleInv'
    <2>1. e \notin stale
      <3>1. ~ (Past(g) + 1 <= Past(g))
        BY <1>9, SMTT(60), Z3T(60)
      <3> QED BY <3>1, <1>2, <1>7, <1>9 DEF StaleInv
    <2>2. NoStaleEvents'
      <3>1. \A i \in mark + 1 .. Len(dlv) : dlv[i] \notin stale
        BY <1>2, <1>7 DEF StaleInv, NoStaleEvents
      <3>2. mark \in Nat
        BY <1>1, SMTT(60), Z3T(60) DEF LibType
      <3>3. \A i \in mark + 1 .. Len(dlv') : i \in mark + 1 .. Len(dlv) \/ i = Len(dlv) + 1
        BY <1>12, <3>2, SMTT(60), Z3T(60)
      <3>4. \A i \in mark + 1 .. Len(dlv) : i \in 1 .. Len(dlv)
        BY <1>12, <3>2, SMTT(60), Z3T(60)
      <3>5. \A i \in mark + 1 .. Len(dlv') : dlv'[i] \notin stale
        BY <1>12, <2>1, <3>1, <3>3, <3>4
      <3> QED BY <1>7, <3>5 DEF NoStaleEvents
    <2>3. ASSUME NEW d \in Devs, NEW i \in Idx(d), At(d, i) \in stale
          PROVE  i <= Past(d)'
      <3>1. i <= Past(d) /\ i \in Nat
        BY <1>1, <1>2, <1>7, <2>3, Members DEF StaleInv
      <3> QED BY <1>9, <1>16, <3>1, SMTT(60), Z3T(60)
    <2> QED BY <1>4, <1>7, <2>2, <2>3 DEF StaleInv
  <1> QED BY <1>3, <1>17, <1>18, <1>19, <1>20, <1>21, <1>22 DEF IInv, Types

(* The tail moves over an exhausted block, all of which was handed out or  *)
(* thrown away: the ring keeps what is behind it.                          *)
LEMMA ExhaustedInv ==
    ASSUME IInv, Exhausted
    PROVE  IInv'
  <1> USE DevSetAssumption
  <1>1. RingType /\ DriverType /\ BlockType /\ LibType
    BY DEF IInv, Types
  <1>2. DriverInv /\ RingInv /\ UseInv /\ RoundInv /\ HeldInv /\ StaleInv
    BY DEF IInv
  <1>3. PICK g \in Devs : j = g
    BY <1>1, SMTT(60), Z3T(60) DEF Exhausted, LibType, Devs
  <1>4. PICK n \in 0 .. Len(ring[g]) : n = lastreadsize[g]
    <2>1. lastreadsize[g] \in Nat /\ lastreadsize[g] <= Len(ring[g]) /\ Len(ring[g]) \in Nat
      <3>1. ring[g] \in Seq(Events)
        BY <1>1 DEF RingType
      <3> QED BY <1>1, <3>1, LenProperties DEF BlockType
    <2> QED BY <2>1, SMTT(60), Z3T(60)
  <1>5. /\ cpc = "scan" /\ cpc' = "scan" /\ j' = g + 1 /\ sn_len[g] = 0 /\ held = 0
        /\ lastreadsize' = [lastreadsize EXCEPT ![g] = 0]
        /\ ring' = [ring EXCEPT ![g] = SubSeq(@, n + 1, Len(@))]
        /\ UNCHANGED <<snaplen, sn_len, pdevid, held, dlv, flushed, early, mark, stale>>
        /\ UNCHANGED <<pc, ev, begun, published>>
    BY <1>2, <1>3, <1>4 DEF Exhausted, SizeAfter, driver, HeldInv
  <1>0. /\ cpc = "scan" /\ cpc' = "scan" /\ j = g /\ j' = g + 1 /\ sn_len[g] = 0
        /\ sn_len' = sn_len /\ pdevid' = pdevid /\ early' = early
        /\ pc' = pc /\ ev' = ev /\ published' = published
    BY <1>3, <1>5
  <1>6. ring'[g] = SubSeq(ring[g], n + 1, Len(ring[g]))
        /\ \A d \in Devs : d # g => ring'[d] = ring[d]
    BY <1>1, <1>5 DEF RingType
  <1>7. /\ ring'[g] \in Seq(Events) /\ Len(ring'[g]) = Len(ring[g]) - n
        /\ \A i \in 1 .. Len(ring[g]) - n : ring'[g][i] = ring[g][n + i]
        /\ Len(ring[g]) \in Nat
    <2>1. ring[g] \in Seq(Events)
      BY <1>1 DEF RingType
    <2> QED BY <2>1, <1>6, CutSeq, LenProperties, SMTT(60), Z3T(60)
  <1>8. \A i \in Idx(g)' : n + i \in Idx(g) /\ At(g, i)' = At(g, n + i) /\ i \in Nat \ {0}
    BY <1>7, SMTT(60), Z3T(60) DEF Idx, At
  <1>9. ASSUME NEW k \in Idx(g), ~ (k <= n)
        PROVE  \E i \in Idx(g)' : At(g, i)' = At(g, k)
    <2>1. k - n \in 1 .. Len(ring[g]) - n /\ n + (k - n) = k
      BY <1>7, <1>9, SMTT(60), Z3T(60) DEF Idx
    <2>2. k - n \in Idx(g)'
      BY <2>1, <1>7 DEF Idx
    <2>3. ring'[g][k - n] = ring[g][k]
      BY <2>1, <1>7
    <2> QED BY <2>2, <2>3 DEF At
  <1>10. \A d \in Devs : d # g => Idx(d)' = Idx(d) /\ \A i : At(d, i)' = At(d, i)
    BY <1>6 DEF Idx, At
  <1>11. /\ lastreadsize'[g] = 0 /\ \A d \in Devs : d # g => lastreadsize'[d] = lastreadsize[d]
    BY <1>1, <1>5 DEF BlockType
  <1>12. Past(g) = n /\ Past(g)' = 0 /\ \A d \in Devs : d # g => Past(d)' = Past(d)
    BY <1>4, <1>5, <1>11, SMTT(60), Z3T(60) DEF Past
  <1>13. Types'
    <2>1. RingType'
      <3>1. Len(ring'[g]) <= Cap
        BY <1>1, <1>4, <1>7, SMTT(60), Z3T(60) DEF RingType
      <3> QED BY <1>1, <1>5, <1>6, <1>7, <3>1 DEF RingType
    <2>2. DriverType'
      BY <1>1, <1>5 DEF DriverType
    <2>3. BlockType'
      <3>1. lastreadsize' \in [Devs -> Nat] /\ sn_len' \in [Devs -> Nat]
        BY <1>1, <1>5 DEF BlockType
      <3>2. \A d \in Devs : sn_len'[d] <= lastreadsize'[d] /\ lastreadsize'[d] <= Len(ring'[d])
        <4>1. sn_len'[g] <= lastreadsize'[g] /\ lastreadsize'[g] <= Len(ring'[g])
          BY <1>4, <1>5, <1>7, <1>11, SMTT(60), Z3T(60)
        <4> QED BY <1>1, <1>5, <1>6, <1>11, <4>1 DEF BlockType
      <3> QED BY <3>1, <3>2 DEF BlockType
    <2>4. LibType'
      BY <1>1, <1>3, <1>5, SMTT(60), Z3T(60) DEF LibType, Devs
    <2> QED BY <2>1, <2>2, <2>3, <2>4 DEF Types
  <1>14. DriverInv'
    <2>1. ASSUME NEW d \in Devs, pc'[d] # "idle", NEW i \in Idx(d)'
          PROVE  At(d, i)' < ev'[d]
      <3>1. CASE d = g
        BY <3>1, <2>1, <1>2, <1>5, <1>8 DEF DriverInv
      <3>2. CASE d # g
        <4>1. pc[d] # "idle" /\ i \in Idx(d) /\ At(d, i)' = At(d, i)
          BY <3>2, <2>1, <1>0, <1>10
        <4>2. At(d, i) < ev[d]
          BY <4>1, <1>2 DEF DriverInv
        <4> QED BY <4>1, <4>2, <1>0
      <3> QED BY <3>1, <3>2
    <2>2. \A d \in Devs : pc'[d] = "filled" => Len(ring'[d]) < Cap
      <3>1. Len(ring[g]) < Cap => Len(ring'[g]) < Cap
        BY <1>4, <1>7, SMTT(60), Z3T(60)
      <3> QED BY <3>1, <1>2, <1>5, <1>6 DEF DriverInv
    <2> QED BY <1>2, <1>5, <2>1, <2>2 DEF DriverInv
  <1>15. RingInv'
    <2>1. ASSUME NEW d \in Devs, NEW i \in Idx(d)'
          PROVE  \E k \in Idx(d) : At(d, i)' = At(d, k)
      BY <2>1, <1>8, <1>10, SMTT(60), Z3T(60)
    <2>2. \A d \in Devs : \A i \in Idx(d)' : At(d, i)' \in published'
      <3>1. \A d \in Devs : \A k \in Idx(d) : At(d, k) \in published
        BY <1>2 DEF RingInv
      <3> SUFFICES ASSUME NEW d \in Devs, NEW i \in Idx(d)' PROVE At(d, i)' \in published'
        OBVIOUS
      <3>2. PICK k \in Idx(d) : At(d, i)' = At(d, k)
        BY <2>1
      <3> QED BY <3>1, <3>2, <1>0
    <2>3. ASSUME NEW d \in Devs, NEW i \in Idx(d)', NEW k \in Idx(d)', i < k
          PROVE  At(d, i)' < At(d, k)'
      <3>1. CASE d = g
        <4>1. n + i < n + k
          BY <3>1, <2>3, <1>4, <1>8, SMTT(60), Z3T(60)
        <4> QED BY <3>1, <4>1, <2>3, <1>2, <1>8, SMTT(60), Z3T(60) DEF RingInv
      <3>2. CASE d # g
        BY <3>2, <2>3, <1>2, <1>10, SMTT(60), Z3T(60) DEF RingInv
      <3> QED BY <3>1, <3>2
    <2>4. ASSUME NEW c \in Devs, NEW d \in Devs, NEW i \in Idx(c)', NEW k \in Idx(d)',
                 At(c, i)' = At(d, k)'
          PROVE  c = d
      BY <1>2, <2>1, <2>4, SMTT(60), Z3T(60) DEF RingInv
    <2> QED BY <2>2, <2>3, <2>4 DEF RingInv
  <1>16. UseInv'
    <2>1. Used' = Used
      BY <1>5 DEF Used
    <2>2. ASSUME NEW d \in Devs, NEW i \in Idx(d)'
          PROVE  At(d, i)' \in Used <=> i <= Past(d)'
      <3>1. CASE d = g
        <4>1. At(g, n + i) \in Used <=> n + i <= n
          BY <3>1, <2>2, <1>2, <1>8, <1>12 DEF UseInv
        <4>2. i \in Nat \ {0} /\ n \in Nat
          BY <3>1, <2>2, <1>4, <1>8, SMTT(60), Z3T(60)
        <4> QED BY <3>1, <2>2, <4>1, <4>2, <1>8, <1>12, SMTT(60), Z3T(60)
      <3>2. CASE d # g
        BY <3>2, <2>2, <1>2, <1>10, <1>12, SMTT(60), Z3T(60) DEF UseInv
      <3> QED BY <3>1, <3>2
    <2>3. ASSUME NEW e \in published, e \notin Used
          PROVE  \E d \in Devs : e \in Range(ring'[d])
      <3>1. PICK d \in Devs : e \in Range(ring[d])
        BY <1>2, <2>3 DEF UseInv, ExactlyOnce, Used
      <3>2. CASE d # g
        BY <3>1, <3>2, <1>6
      <3>3. CASE d = g
        <4>1. PICK k \in Idx(g) : At(g, k) = e
          BY <3>1, <3>3, <1>1, Members
        <4>2. ~ (k <= n)
          BY <4>1, <2>3, <1>2, <1>12 DEF UseInv
        <4>3. PICK i \in Idx(g)' : At(g, i)' = e
          BY <4>1, <4>2, <1>9
        <4> QED BY <4>3, <1>7, InSeq DEF Idx, At
      <3> QED BY <3>2, <3>3
    <2>4. ExactlyOnce'
      BY <1>2, <1>5, <2>3 DEF UseInv, ExactlyOnce, Used
    <2> QED BY <2>1, <2>2, <2>4 DEF UseInv
  <1>17. RoundInv'
    <2>1. ASSUME NEW d \in Devs, NEW i \in Idx(d)', At(d, i)' \in early
          PROVE  i <= lastreadsize'[d]
      <3>1. CASE d = g
        <4>1. n + i <= n
          <5>1. n + i \in Idx(g) /\ At(g, n + i) \in early
            BY <3>1, <2>1, <1>8
          <5>2. n + i <= lastreadsize[g]
            BY <5>1, <1>0, <1>2 DEF RoundInv
          <5> QED BY <5>2, <1>4
        <4>2. i \in Nat \ {0} /\ n \in Nat
          BY <3>1, <2>1, <1>4, <1>8, SMTT(60), Z3T(60)
        <4> QED BY <4>1, <4>2, SMTT(60), Z3T(60)
      <3>2. CASE d # g
        <4>1. i \in Idx(d) /\ At(d, i) \in early
          BY <3>2, <2>1, <1>10
        <4>2. i <= lastreadsize[d]
          BY <4>1, <1>0, <1>2 DEF RoundInv
        <4> QED BY <3>2, <4>2, <1>11
      <3> QED BY <3>1, <3>2
    <2>2. \A d \in Devs : d # g => NextEvent(d)' = NextEvent(d)
      BY <1>5, <1>6, <1>11 DEF NextEvent
    <2>3. CASE pdevid = 0
      <3>1. \A d \in Devs : d < j' => lastreadsize'[d] = 0
        <4>1. \A d \in Devs : d < g => lastreadsize[d] = 0
          BY <2>3, <1>0, <1>2 DEF RoundInv
        <4>2. \A d \in Devs : d < g + 1 => d < g \/ d = g
          BY SMTT(60), Z3T(60) DEF Devs
        <4> QED BY <4>1, <4>2, <1>0, <1>11
      <3> QED BY <2>1, <2>3, <3>1, <1>5 DEF RoundInv
    <2>4. CASE pdevid # 0
      <3>1. pdevid \in Devs /\ pdevid < j' /\ pdevid # g /\ sn_len[pdevid] > 0
        <4>1. pdevid < g /\ sn_len[pdevid] > 0
          BY <2>4, <1>0, <1>2 DEF RoundInv
        <4>2. pdevid \in Devs
          BY <2>4, <1>1, SMTT(60), Z3T(60) DEF LibType, Devs
        <4> QED BY <4>1, <4>2, <1>0, SMTT(60), Z3T(60) DEF Devs
      <3>2. NextEvent(pdevid)' = NextEvent(pdevid)
        BY <3>1, <1>5, <1>6, <1>11 DEF NextEvent
      <3>3. \A d \in Devs : d < j' /\ sn_len'[d] > 0 => NextEvent(pdevid) <= NextEvent(d)'
        <4>1. \A d \in Devs : d < g /\ sn_len[d] > 0 => NextEvent(pdevid) <= NextEvent(d)
          BY <2>4, <1>0, <1>2 DEF RoundInv
        <4>2. \A d \in Devs : d < g + 1 /\ d # g => d < g
          BY SMTT(60), Z3T(60) DEF Devs
        <4>3. ~(sn_len[g] > 0)
          BY <1>0, SMTT(60), Z3T(60)
        <4> QED BY <4>1, <4>2, <4>3, <2>2, <1>0
      <3> QED BY <2>1, <2>4, <3>1, <3>2, <3>3, <1>5 DEF RoundInv
    <2> QED BY <2>3, <2>4
  <1>18. HeldInv'
    BY <1>5 DEF HeldInv, HeldStays, NoOvertaking
  <1>19. StaleInv'
    <2>1. ASSUME NEW d \in Devs, NEW i \in Idx(d)', At(d, i)' \in stale
          PROVE  i <= Past(d)'
      <3>1. CASE d = g
        <4>1. n + i <= n
          BY <3>1, <2>1, <1>2, <1>5, <1>8, <1>12 DEF StaleInv
        <4> QED BY <3>1, <2>1, <4>1, <1>4, <1>8, SMTT(60), Z3T(60)
      <3>2. CASE d # g
        BY <3>2, <2>1, <1>2, <1>5, <1>10, <1>12 DEF StaleInv
      <3> QED BY <3>1, <3>2
    <2> QED BY <1>2, <1>5, <2>1 DEF StaleInv, NoStaleEvents
  <1> QED BY <1>13, <1>14, <1>15, <1>16, <1>17, <1>18, <1>19 DEF IInv

(* Every step of the drivers, of a call and of a setting keeps the         *)
(* invariant.                                                              *)
LEMMA NextInv == IInv /\ [Next]_vars => IInv'
  <1> SUFFICES ASSUME IInv, [Next]_vars PROVE IInv'
    OBVIOUS
  <1>1. ASSUME NEW d \in Devs, RecordEvent(d) PROVE IInv'
    BY <1>1, BeginInv, FillDropInv, PublishInv DEF RecordEvent
  <1>2. CASE RingbufferNext
    BY <1>2, CallInv, ExhaustedInv, CompareInv, DeliverInv, RefillInv, ReadbufInv
       DEF RingbufferNext
  <1>3. CASE SetSnaplen
    BY <1>3, SetSnaplenInv
  <1>4. CASE Flush
    BY <1>4, FlushInv
  <1>5. CASE UNCHANGED vars
    <2>1. UNCHANGED <<ring, published, libscap>> /\ UNCHANGED <<ring, driver>>
      BY <1>5 DEF vars, driver
    <2>2. RingType /\ DriverType /\ BlockType /\ LibType
      BY DEF IInv, Types
    <2>3. DriverInv /\ RingInv /\ UseInv /\ RoundInv /\ HeldInv /\ StaleInv
      BY DEF IInv
    <2>4. DriverType' /\ DriverInv'
      BY <2>1, <2>2, <2>3, DriverFrame
    <2>5. /\ RingType' /\ BlockType' /\ LibType' /\ RingInv' /\ UseInv'
          /\ RoundInv' /\ HeldInv' /\ StaleInv'
      BY <2>1, <2>2, <2>3, LibscapFrame
    <2> QED BY <2>4, <2>5 DEF IInv, Types
  <1> QED BY <1>1, <1>2, <1>3, <1>4, <1>5 DEF Next

(* The invariant holds throughout a capture.                               *)
LEMMA Invariance == Spec => []IInv
  BY InitInv, NextInv, PTL DEF Spec

(* The blocks stay inside the rings, and libscap inside the blocks.        *)
THEOREM TypesKept == Spec => []TypeOK
  <1>1. IInv => TypeOK
    BY SMTT(60), Z3T(60) DEF IInv, Types, RingType, DriverType, BlockType, LibType, TypeOK
  <1> QED BY <1>1, Invariance, PTL

(* The event ringbuffer_next handed out is not given back to the driver    *)
(* before the next call, also when a setting flushes the buffers.          *)
THEOREM HeldKept == Spec => []HeldStays
  <1>1. IInv => HeldStays
    BY DEF IInv, HeldInv
  <1> QED BY <1>1, Invariance, PTL

(* A tail moves only over events that were handed out or thrown away, and  *)
(* no event is handed out twice or both: for any number of devices.        *)
THEOREM DeliveredOnce == Spec => []ExactlyOnce
  <1>1. IInv => ExactlyOnce
    BY DEF IInv, UseInv
  <1> QED BY <1>1, Invariance, PTL

(* ringbuffer_next hands out the events of a round by their timestamps.    *)
THEOREM MergedInOrder == Spec => []NoOvertaking
  <1>1. IInv => NoOvertaking
    BY DEF IInv, HeldInv
  <1> QED BY <1>1, Invariance, PTL

(* After the flush of a setting, no event published before it comes out.   *)
THEOREM FlushComplete == Spec => []NoStaleEvents
  <1>1. IInv => NoStaleEvents
    BY DEF IInv, StaleInv
  <1> QED BY <1>1, Invariance, PTL

=============================================================================
