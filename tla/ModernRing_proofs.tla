------------------------- MODULE ModernRing_proofs --------------------------
(***************************************************************************)
(* Proofs of the safety properties of ModernRing, for any number of CPUs,  *)
(* CPUs per ring, cells, record lengths and events.                        *)
(*                                                                         *)
(* The argument: records lie end to end in positions that only grow, the   *)
(* reader's positions are never inside a record, and what is between the   *)
(* consumer's and the producer's position is in the cells, because the two *)
(* are less than Size apart and so share no cell.                          *)
(***************************************************************************)
EXTENDS ModernRing, FiniteSetTheorems, TLAPS

(* The prover of the steps that name none; arithmetic is left to SMT.     *)
USE ZenonT(40)

End(e) == start[e] + len[e]

Aux == {c \in Cpus : pc[c] = "aux"}

KernelType ==
    /\ data \in [Rings -> [0 .. Size - 1 -> [ev : 0 .. MaxEvents, off : 0 .. Size - 1]]]
    /\ producer_pos \in [Rings -> Nat]
    /\ st \in [Events -> {"none", "busy", "committed", "discarded"}]
    /\ len \in [Events -> {0} \cup Lens] /\ ts \in [Events -> 0 .. now]
    /\ now \in Nat /\ nres \in 0 .. MaxEvents
    /\ pc \in [Cpus -> {"idle", "aux", "reserved"}]
    /\ ev \in [Cpus -> 0 .. MaxEvents] /\ stamp \in [Cpus -> 0 .. now]
    /\ home \in [Events -> Rings \cup {None}] /\ start \in [Events -> Nat]

ReaderType ==
    /\ cons_pos \in [Rings -> Nat] /\ consumer_pos = cons_pos
    /\ prod_pos \in [Rings -> Nat]
    /\ last_ring_read \in Rings \cup {None} /\ last_event_size \in Nat
    /\ cpc \in {"push", "scan"} /\ pos \in 0 .. NRings
    /\ tmp \in [ring : Rings \cup {None}, ev : 0 .. MaxEvents, inc : Nat]
    /\ held \in 0 .. MaxEvents /\ dlv \in [Rings -> Seq(Events)]
    /\ front \subseteq Events

CountInv ==
    /\ n_evts \in Nat /\ n_drops_buffer \in Nat /\ n_drops_max_event_size \in Nat
    /\ n_evts + Cardinality(Aux) <= MaxEvents
    /\ Accounting

(* A program that has reserved a record is the only one that will commit it. *)
ProgInv ==
    \A c \in Cpus : pc[c] = "reserved" =>
       /\ ev[c] \in 1 .. nres /\ st[ev[c]] = "busy"
       /\ \A d \in Cpus \ {c} : pc[d] = "reserved" => ev[d] # ev[c]

(* The records of a ring lie end to end, in the order of their numbers, up *)
(* to the producer's position.                                             *)
RecInv ==
    \A e \in Events :
       /\ e <= nres => /\ home[e] \in Rings /\ len[e] \in Lens /\ st[e] # "none"
                       /\ End(e) <= producer_pos[home[e]]
       /\ e > nres => home[e] = None /\ st[e] = "none"

OrderInv ==
    \A e, f \in Events : home[e] # None /\ home[e] = home[f] /\ e < f => End(e) <= start[f]

CoverInv ==
    \A r \in Rings : \A p \in 0 .. producer_pos[r] - 1 :
       \E e \in Events : home[e] = r /\ start[e] <= p /\ p < End(e)

(* Position p is not inside a record. *)
Boundary(r, p) == \A e \in Events : home[e] = r => End(e) <= p \/ p <= start[e]

PosInv ==
    \A r \in Rings :
       /\ cons_pos[r] <= prod_pos[r] /\ prod_pos[r] <= producer_pos[r]
       /\ producer_pos[r] - cons_pos[r] < Size
       /\ Boundary(r, cons_pos[r]) /\ Boundary(r, prod_pos[r])

(* What was not given back is intact. *)
HomeInv == \A r \in Rings : \A a \in 0 .. Size - 1 :
              data[r][a].ev # 0 => home[data[r][a].ev] = r

DataInv ==
    \A e \in Events : home[e] # None => \A k \in 0 .. len[e] - 1 :
       start[e] + k >= cons_pos[home[e]] =>
          data[home[e]][Cell(start[e] + k)] = [ev |-> e, off |-> k]

(* Event e is committed and the first of ring r for the reader. *)
AtFront(r, e) ==
    /\ r \in Rings /\ e \in Events /\ home[e] = r /\ st[e] = "committed"
    /\ start[e] = cons_pos[r] /\ End(e) <= prod_pos[r]

HeldInv ==
    /\ cpc = "scan" => held = 0
    /\ cpc = "push" => IF held = 0 THEN last_ring_read = None
                       ELSE AtFront(last_ring_read, held) /\ last_event_size = len[held]

TmpInv ==
    cpc = "scan" => IF tmp.ev = 0 THEN tmp = NoTmp
                    ELSE AtFront(tmp.ring, tmp.ev) /\ tmp.inc = len[tmp.ev] /\ tmp.ring < pos

FrontInv ==
    /\ \A e \in front : st[e] = "committed"
    /\ cpc = "scan" => \A e \in front :
          /\ home[e] \in Rings
          /\ home[e] >= pos => start[e] = cons_pos[home[e]]
          /\ home[e] < pos => tmp.ev # 0 /\ ts[tmp.ev] <= ts[e]
    /\ LowestFront

Passed(r, e) == home[e] = r /\ (start[e] < cons_pos[r] \/ e = held)

DlvInv ==
    \A r \in Rings :
       /\ \A i, k \in 1 .. Len(dlv[r]) : i < k => dlv[r][i] < dlv[r][k]
       /\ \A e \in Events :
             /\ e \in Range(dlv[r]) <=> Passed(r, e) /\ st[e] = "committed"
             /\ Passed(r, e) => st[e] \in {"committed", "discarded"}

IInv ==
    /\ KernelType /\ ReaderType /\ CountInv /\ ProgInv /\ RecInv /\ OrderInv /\ CoverInv
    /\ PosInv /\ HomeInv /\ DataInv /\ HeldInv /\ TmpInv /\ FrontInv /\ DlvInv

-----------------------------------------------------------------------------
(* Arithmetic *)

(* A multiple of a number is not below it. *)
LEMMA Multiple ==
  ASSUME NEW S \in Nat \ {0}, NEW d \in Nat \ {0}
  PROVE  S * d >= S
BY SMTT(60), Z3T(60)

(* Positions that are closer than the size of a ring have different cells. *)
LEMMA CellInjective ==
  ASSUME NEW a \in Nat, NEW b \in Nat, a < b, b < a + Size
  PROVE  Cell(a) # Cell(b)
<1> DEFINE qa == a \div Size
           qb == b \div Size
<1>0. Size \in Nat \ {0}
  BY ModernAssumption
<1>1. qa \in Int /\ qb \in Int /\ a % Size \in 0 .. Size - 1 /\ b % Size \in 0 .. Size - 1
  BY <1>0, SMTT(60), Z3T(60)
<1>2. a = Size * qa + (a % Size) /\ b = Size * qb + (b % Size)
  BY <1>0, SMTT(60), Z3T(60)
<1> HIDE DEF qa, qb
<1> SUFFICES ASSUME a % Size = b % Size PROVE FALSE
  BY DEF Cell
<1>3. b - a = Size * qb - Size * qa
  BY <1>0, <1>1, <1>2, SMTT(60), Z3T(60)
<1>4. b - a = Size * (qb - qa)
  BY <1>0, <1>1, <1>3, SMTT(60), Z3T(60)
<1>5. CASE qb - qa >= 1
  BY <1>0, <1>1, <1>4, <1>5, Multiple, SMTT(60), Z3T(60)
<1>6. CASE qb - qa <= 0
  <2>1. Size * (qa - qb) >= 0
    BY <1>0, <1>1, <1>6, SMTT(60), Z3T(60)
  <2>2. Size * (qa - qb) = -(Size * (qb - qa))
    BY <1>0, <1>1, SMTT(60), Z3T(60)
  <2> QED
    BY <1>0, <1>1, <1>4, <2>1, <2>2, SMTT(60), Z3T(60)
<1> QED
  BY <1>1, <1>5, <1>6, SMTT(60), Z3T(60)

(* A cell is a cell of the ring. *)
LEMMA CellType ==
  ASSUME NEW p \in Nat
  PROVE  Cell(p) \in 0 .. Size - 1
BY ModernAssumption, SMTT(60), Z3T(60) DEF Cell

(* No record is empty. *)
LEMMA LensType == \A n \in Lens : n \in Nat \ {0}
<1> TAKE n \in Lens
<1>1. n \in 1 .. Size /\ Size \in Nat
  BY ModernAssumption
<1> QED
  BY <1>1, SMTT(60), Z3T(60)

(* pman_init_state counts enough rings for the CPUs it assigns to them. *)
LEMMA RingsType ==
  /\ NRings \in Nat
  /\ \A c \in Cpus : RingOf(c) \in Rings
<1> DEFINE K == CpusPerRing
           m == (NCpus + K - 1) \div K
<1>0. K \in Nat \ {0} /\ NCpus \in Nat \ {0}
  BY ModernAssumption, SMTT(60), Z3T(60)
<1>1. m \in Nat /\ (NCpus + K - 1) % K \in 0 .. K - 1
  BY <1>0, SMTT(60), Z3T(60)
<1>2. NCpus + K - 1 = K * m + ((NCpus + K - 1) % K)
  BY <1>0, SMTT(60), Z3T(60)
<1>3. NRings = m
  BY DEF NRings
<1> HIDE DEF m
<1>4. ASSUME NEW c \in Cpus
      PROVE  RingOf(c) \in Rings
  <2> DEFINE q == c \div K
  <2>0. c \in 0 .. NCpus - 1
    BY DEF Cpus
  <2>1. q \in Nat /\ c % K \in 0 .. K - 1
    BY <1>0, <2>0, SMTT(60), Z3T(60)
  <2>2. c = K * q + (c % K)
    BY <1>0, <2>0, SMTT(60), Z3T(60)
  <2>3. RingOf(c) = q
    BY DEF RingOf
  <2> HIDE DEF q
  <2>4. K * q + K < K * m + K
    BY <1>0, <1>1, <1>2, <2>0, <2>1, <2>2, SMTT(60), Z3T(60)
  <2>5. K * (q - m) < 0
    BY <1>0, <1>1, <2>1, <2>4, SMTT(60), Z3T(60)
  <2>6. q < m
    BY <1>0, <1>1, <2>1, <2>5, SMTT(60), Z3T(60)
  <2> QED
    BY <1>1, <1>3, <2>1, <2>3, <2>6, SMTT(60), Z3T(60) DEF Rings
<1> QED
  BY <1>1, <1>3, <1>4

-----------------------------------------------------------------------------
(* The initial state *)

(* The behaviour starts in the invariant. *)
LEMMA InitInv == Init => IInv
<1> SUFFICES ASSUME Init PROVE IInv
  OBVIOUS
<1> USE ModernAssumption
<1>1. KernelType
  BY SMTT(60), Z3T(60) DEF Init, KernelType, Rings, Events, Cpus, None
<1>2. ReaderType
  BY RingsType, SMTT(60), Z3T(60) DEF Init, ReaderType, Rings, None, NoTmp
<1>3. CountInv
  <2>1. Aux = {}
    BY DEF Init, Aux
  <2>2. Cardinality(Aux) = 0
    BY <2>1, FS_EmptySet
  <2> QED
    BY <2>2, SMTT(60), Z3T(60) DEF Init, CountInv, Accounting
<1>4. ProgInv
  BY DEF Init, ProgInv
<1>5. RecInv
  BY SMTT(60), Z3T(60) DEF Init, RecInv, Events
<1>6. OrderInv
  BY DEF Init, OrderInv, Events
<1>7. CoverInv
  BY SMTT(60), Z3T(60) DEF Init, CoverInv, Rings
<1>8. PosInv
  BY SMTT(60), Z3T(60) DEF Init, PosInv, Boundary, Rings, Events, None
<1>9. HomeInv /\ DataInv
  BY DEF Init, HomeInv, DataInv
<1>10. HeldInv /\ TmpInv
  BY DEF Init, HeldInv, TmpInv
<1>11. FrontInv
  BY DEF Init, FrontInv, LowestFront
<1>12. DlvInv
  BY SMTT(60), Z3T(60) DEF Init, DlvInv, Passed, Range, Rings, Events, None
<1> QED
  BY <1>1, <1>2, <1>3, <1>4, <1>5, <1>6, <1>7, <1>8, <1>9, <1>10, <1>11, <1>12 DEF IInv

-----------------------------------------------------------------------------
(* Programs that do not touch a record *)

(* The records and the reader are as good as before. *)
LEMMA RecordsFrame ==
  ASSUME IInv, UNCHANGED <<data, producer_pos, st, len, ts, nres, home, start, reader>>
  PROVE  /\ RecInv' /\ OrderInv' /\ CoverInv' /\ PosInv' /\ HomeInv' /\ DataInv'
         /\ HeldInv' /\ TmpInv' /\ FrontInv' /\ DlvInv' /\ ReaderType'
<1> USE DEF IInv, reader
<1>1. RecInv' /\ OrderInv' /\ CoverInv'
  BY DEF RecInv, OrderInv, CoverInv, End
<1>2. PosInv'
  BY DEF PosInv, Boundary, End
<1>3. HomeInv' /\ DataInv'
  BY DEF HomeInv, DataInv
<1>4. HeldInv' /\ TmpInv'
  BY DEF HeldInv, TmpInv, AtFront, End
<1>5. FrontInv'
  BY DEF FrontInv, LowestFront
<1>6. DlvInv'
  BY DEF DlvInv, Passed
<1>7. ReaderType'
  BY DEF ReaderType
<1> QED
  BY <1>1, <1>2, <1>3, <1>4, <1>5, <1>6, <1>7

(* The programs with an event in the scratch map are finitely many. *)
LEMMA AuxFinite ==
  ASSUME pc \in [Cpus -> {"idle", "aux", "reserved"}]
  PROVE  /\ IsFiniteSet(Aux) /\ Cardinality(Aux) \in Nat
         /\ \A c \in Cpus : pc[c] = "aux" => Cardinality(Aux) >= 1
<1>1. IsFiniteSet(Cpus)
  BY FS_Interval, ModernAssumption, SMTT(60), Z3T(60) DEF Cpus
<1>2. IsFiniteSet(Aux)
  BY <1>1, FS_Subset DEF Aux
<1>3. Cardinality(Aux) \in Nat
  BY <1>2, FS_CardinalityType
<1>4. ASSUME NEW c \in Cpus, pc[c] = "aux"
      PROVE  Cardinality(Aux) >= 1
  <2>1. c \in Aux
    BY <1>4 DEF Aux
  <2>2. Cardinality(Aux) # 0
    BY <1>2, <2>1, FS_EmptySet
  <2> QED
    BY <1>3, <2>2, SMTT(60), Z3T(60)
<1> QED
  BY <1>2, <1>3, <1>4

(* What a program does to the number of scratch maps in use. *)
LEMMA AuxStep ==
  ASSUME KernelType, KernelType', NEW c \in Cpus,
         \A d \in Cpus \ {c} : pc'[d] = pc[d]
  PROVE  /\ pc[c] # "aux" /\ pc'[c] = "aux" => Cardinality(Aux') = Cardinality(Aux) + 1
         /\ pc[c] = "aux" /\ pc'[c] # "aux" => Cardinality(Aux') = Cardinality(Aux) - 1
         /\ (pc[c] = "aux") = (pc'[c] = "aux") => Cardinality(Aux') = Cardinality(Aux)
<1>1. IsFiniteSet(Aux)
  BY AuxFinite DEF KernelType
<1>2. CASE pc[c] # "aux" /\ pc'[c] = "aux"
  <2>1. Aux' = Aux \cup {c} /\ c \notin Aux
    BY <1>2, SMTT(60), Z3T(60) DEF Aux
  <2> QED
    BY <1>1, <1>2, <2>1, FS_AddElement
<1>3. CASE pc[c] = "aux" /\ pc'[c] # "aux"
  <2>1. Aux' = Aux \ {c} /\ c \in Aux
    BY <1>3 DEF Aux
  <2> QED
    BY <1>1, <1>3, <2>1, FS_RemoveElement
<1>4. CASE (pc[c] = "aux") = (pc'[c] = "aux")
  <2>1. Aux' = Aux
    BY <1>4 DEF Aux
  <2> QED
    BY <1>4, <2>1
<1> QED
  BY <1>2, <1>3, <1>4

(* The timestamp is taken. *)
LEMMA StampInv ==
  ASSUME IInv, NEW c \in Cpus, Stamp(c)
  PROVE  IInv'
<1>1. UNCHANGED <<data, producer_pos, st, len, ts, nres, home, start, reader>>
  BY DEF Stamp
<1>2. /\ now' = now + 1 /\ stamp' = [stamp EXCEPT ![c] = now + 1]
      /\ pc' = [pc EXCEPT ![c] = IF @ = "idle" THEN "aux" ELSE @] /\ MayBegin(c)
      /\ UNCHANGED <<data, producer_pos, st, len, ts, nres, ev, n_evts,
                     n_drops_buffer, n_drops_max_event_size, home, start>>
  BY DEF Stamp
<1>3. KernelType
  BY DEF IInv
<1>4. KernelType'
  BY <1>2, <1>3, SMTT(60), Z3T(60) DEF KernelType
<1>5. CountInv'
  <2>1. /\ pc[c] = "idle" => pc'[c] = "aux"
        /\ pc[c] # "idle" => pc'[c] = pc[c]
        /\ \A d \in Cpus \ {c} : pc'[d] = pc[d]
    BY <1>2, <1>3 DEF KernelType
  <2>2. Cardinality(Aux) \in Nat
    BY <1>3, AuxFinite DEF KernelType
  <2>3. CASE pc[c] = "idle"
    <3>1. n_evts + Cardinality(Aux) < MaxEvents
      BY <1>2, <2>3 DEF MayBegin, Aux
    <3>2. Cardinality(Aux') = Cardinality(Aux) + 1
      BY <1>3, <1>4, <2>1, <2>3, AuxStep
    <3> QED
      BY <1>2, <2>2, <3>1, <3>2, ModernAssumption, SMTT(60), Z3T(60) DEF IInv, CountInv, Accounting
  <2>4. CASE pc[c] # "idle"
    <3>1. Cardinality(Aux') = Cardinality(Aux)
      BY <1>3, <1>4, <2>1, <2>4, AuxStep
    <3> QED
      BY <1>2, <3>1 DEF IInv, CountInv, Accounting
  <2> QED
    BY <2>3, <2>4
<1>6. ProgInv'
  BY <1>2, <1>3, SMTT(60), Z3T(60) DEF IInv, ProgInv, KernelType
<1> QED
  BY <1>1, <1>4, <1>5, <1>6, RecordsFrame DEF IInv

(* An event is dropped because there is no room for it, or because it is   *)
(* too long.                                                               *)
LEMMA DropInv ==
  ASSUME IInv, NEW c \in Cpus, NoSpace(c) \/ TooLong(c)
  PROVE  IInv'
<1>1. /\ UNCHANGED <<data, producer_pos, st, len, ts, nres, home, start, reader>>
      /\ UNCHANGED <<now, ev>>
  BY DEF NoSpace, TooLong
<1>2. /\ pc' = [pc EXCEPT ![c] = "idle"] /\ stamp' = [stamp EXCEPT ![c] = 0]
      /\ n_evts' = n_evts + 1
      /\ \/ /\ n_drops_buffer' = n_drops_buffer + 1
            /\ UNCHANGED n_drops_max_event_size
         \/ /\ n_drops_max_event_size' = n_drops_max_event_size + 1
            /\ UNCHANGED n_drops_buffer
  BY DEF NoSpace, TooLong
<1>3. pc[c] = "aux" \/ (pc[c] = "idle" /\ MayBegin(c))
  BY DEF NoSpace, TooLong
<1>4. KernelType
  BY DEF IInv
<1>5. KernelType'
  BY <1>1, <1>2, <1>4, SMTT(60), Z3T(60) DEF KernelType
<1>6. CountInv'
  <2>1. /\ pc'[c] = "idle"
        /\ \A d \in Cpus \ {c} : pc'[d] = pc[d]
    BY <1>2, <1>4 DEF KernelType
  <2>2. Cardinality(Aux) \in Nat
    BY <1>4, AuxFinite DEF KernelType
  <2>3. n_evts' + Cardinality(Aux') <= MaxEvents
    <3>1. CASE pc[c] = "aux"
      <4>1. Cardinality(Aux') = Cardinality(Aux) - 1
        BY <1>4, <1>5, <2>1, <3>1, AuxStep
      <4> QED
        BY <1>2, <2>2, <4>1, ModernAssumption, SMTT(60), Z3T(60) DEF IInv, CountInv
    <3>2. CASE pc[c] = "idle" /\ MayBegin(c)
      <4>1. n_evts + Cardinality(Aux) < MaxEvents
        BY <3>2 DEF MayBegin, Aux
      <4>2. Cardinality(Aux') = Cardinality(Aux)
        BY <1>4, <1>5, <2>1, <3>2, AuxStep
      <4> QED
        BY <1>2, <2>2, <4>1, <4>2, ModernAssumption, SMTT(60), Z3T(60) DEF IInv, CountInv
    <3> QED
      BY <1>3, <3>1, <3>2
  <2>4. nres \in Nat
    BY <1>4, SMTT(60), Z3T(60) DEF KernelType
  <2> QED
    BY <1>1, <1>2, <2>3, <2>4, SMTT(60), Z3T(60) DEF IInv, CountInv, Accounting
<1>7. ProgInv'
  BY <1>1, <1>2, <1>4 DEF IInv, ProgInv, KernelType
<1> QED
  BY <1>1, <1>5, <1>6, <1>7, RecordsFrame DEF IInv

-----------------------------------------------------------------------------
(* A record is committed or discarded *)

(* Its event was busy: it is neither handed out nor passed by the reader.  *)
LEMMA SubmitInv ==
  ASSUME IInv, NEW c \in Cpus, Submit(c)
  PROVE  IInv'
<1> DEFINE x == ev[c]
<1>1. KernelType /\ RecInv /\ ReaderType
  BY DEF IInv
<1>2. x \in Events /\ x <= nres /\ st[x] = "busy" /\ pc[c] = "reserved"
  BY <1>1, SMTT(60), Z3T(60) DEF IInv, ProgInv, Submit, Events, KernelType
<1>3. /\ UNCHANGED <<data, producer_pos, len, now, nres, n_evts, n_drops_buffer,
                     n_drops_max_event_size, home, start>>
      /\ UNCHANGED reader
      /\ pc' = [pc EXCEPT ![c] = "idle"] /\ stamp' = [stamp EXCEPT ![c] = 0]
      /\ ev' = [ev EXCEPT ![c] = 0]
  BY DEF Submit
<1>4. PICK s \in {"committed", "discarded"} : st' = [st EXCEPT ![x] = s]
  BY DEF Submit
<1>5. ts' = [ts EXCEPT ![x] = stamp[c]] /\ stamp[c] \in 0 .. now
  BY <1>1 DEF Submit, KernelType
<1> HIDE DEF x
<1>6. \A e \in Events : e # x => st'[e] = st[e] /\ ts'[e] = ts[e]
  BY <1>1, <1>2, <1>4, <1>5 DEF KernelType
<1>7. st'[x] = s
  BY <1>1, <1>2, <1>4 DEF KernelType
<1>8. KernelType'
  <2>1. st' \in [Events -> {"none", "busy", "committed", "discarded"}]
    BY <1>1, <1>4 DEF KernelType
  <2>2. ts' \in [Events -> 0 .. now]
    BY <1>1, <1>5 DEF KernelType
  <2>3. /\ pc' \in [Cpus -> {"idle", "aux", "reserved"}]
        /\ ev' \in [Cpus -> 0 .. MaxEvents] /\ stamp' \in [Cpus -> 0 .. now]
    BY <1>1, <1>3, ModernAssumption, SMTT(60), Z3T(60) DEF KernelType
  <2> QED
    BY <1>1, <1>3, <2>1, <2>2, <2>3 DEF KernelType
<1>9. CountInv'
  <2>1. /\ pc'[c] = "idle"
        /\ \A d \in Cpus \ {c} : pc'[d] = pc[d]
    BY <1>1, <1>3 DEF KernelType
  <2>2. Cardinality(Aux') = Cardinality(Aux)
    BY <1>1, <1>2, <1>8, <2>1, AuxStep
  <2> QED
    BY <1>3, <2>2 DEF IInv, CountInv, Accounting
<1>10. ProgInv'
  <2> SUFFICES ASSUME NEW d \in Cpus, pc'[d] = "reserved"
               PROVE  /\ ev'[d] \in 1 .. nres' /\ st'[ev'[d]] = "busy"
                      /\ \A b \in Cpus \ {d} : pc'[b] = "reserved" => ev'[b] # ev'[d]
    BY DEF ProgInv
  <2>1. d # c /\ pc[d] = "reserved" /\ ev'[d] = ev[d]
    BY <1>1, <1>3 DEF KernelType
  <2>2. ev[d] \in 1 .. nres /\ st[ev[d]] = "busy" /\ ev[d] # ev[c]
    BY <1>2, <2>1 DEF IInv, ProgInv
  <2>3. st'[ev[d]] = "busy"
    BY <1>1, <1>6, <2>2, SMTT(60), Z3T(60) DEF KernelType, Events, x
  <2>4. \A b \in Cpus \ {d} : pc'[b] = "reserved" => b # c /\ ev'[b] = ev[b] /\ pc[b] = "reserved"
    BY <1>1, <1>3 DEF KernelType
  <2>5. \A b \in Cpus \ {d} : pc[b] = "reserved" => ev[b] # ev[d]
    BY <2>1 DEF IInv, ProgInv
  <2> QED
    BY <1>3, <2>1, <2>2, <2>3, <2>4, <2>5
<1>11. RecInv'
  BY <1>1, <1>3, <1>6, <1>7, <1>2 DEF RecInv, End
<1>12. OrderInv' /\ CoverInv' /\ PosInv'
  BY <1>3 DEF IInv, OrderInv, CoverInv, PosInv, Boundary, End, reader
<1>13. HomeInv' /\ DataInv' /\ ReaderType'
  BY <1>3 DEF IInv, HomeInv, DataInv, ReaderType, reader
<1>14. \A r, e : AtFront(r, e) => AtFront(r, e)' /\ e # x /\ ts'[e] = ts[e]
  BY <1>2, <1>3, <1>6 DEF AtFront, End, reader
<1>15. HeldInv' /\ TmpInv'
  <2>1. HeldInv'
    BY <1>3, <1>14 DEF IInv, HeldInv, AtFront, reader
  <2>2. TmpInv'
    BY <1>3, <1>14, SMTT(60), Z3T(60) DEF IInv, TmpInv, AtFront, reader
  <2> QED
    BY <2>1, <2>2
<1>16. FrontInv'
  <2>1. \A e \in front : e \in Events /\ e # x /\ st'[e] = st[e] /\ ts'[e] = ts[e]
    BY <1>1, <1>2, <1>6 DEF IInv, FrontInv, ReaderType
  <2>2. cpc = "scan" /\ tmp.ev # 0 => ts'[tmp.ev] = ts[tmp.ev]
    BY <1>14 DEF IInv, TmpInv
  <2>3. held # 0 => ts'[held] = ts[held]
    <3>1. held # 0 => cpc = "push"
      BY <1>1 DEF IInv, HeldInv, ReaderType
    <3> QED
      BY <1>14, <3>1 DEF IInv, HeldInv
  <2> QED
    BY <1>3, <2>1, <2>2, <2>3 DEF IInv, FrontInv, LowestFront, reader
<1>17. DlvInv'
  <2> SUFFICES ASSUME NEW r \in Rings
               PROVE  /\ \A i, k \in 1 .. Len(dlv[r]) : i < k => dlv[r][i] < dlv[r][k]
                      /\ \A e \in Events :
                           /\ e \in Range(dlv[r]) <=> Passed(r, e) /\ st'[e] = "committed"
                           /\ Passed(r, e) => st'[e] \in {"committed", "discarded"}
    BY <1>3 DEF DlvInv, Passed, reader
  <2>1. ~Passed(r, x)
    BY <1>2 DEF IInv, DlvInv
  <2>2. x \notin Range(dlv[r])
    BY <1>2, <2>1 DEF IInv, DlvInv
  <2> QED
    BY <1>6, <2>1, <2>2 DEF IInv, DlvInv
<1> QED
  BY <1>8, <1>9, <1>10, <1>11, <1>12, <1>13, <1>15, <1>16, <1>17 DEF IInv

-----------------------------------------------------------------------------
(* A record is reserved *)

(* The new record can be read back. *)
LEMMA WrittenNew ==
  ASSUME KernelType, NEW r \in Rings, NEW e, NEW n \in 1 .. Size, NEW k \in 0 .. n - 1
  PROVE  Written(r, e, n)[Cell(producer_pos[r] + k)] = [ev |-> e, off |-> k]
<1> DEFINE p == producer_pos[r]
           a == Cell(p + k)
           off == CHOOSE i \in 0 .. n - 1 : a = Cell(p + i)
<1>1. p \in Nat /\ Size \in Nat
  BY ModernAssumption DEF KernelType
<1>2. a \in 0 .. Size - 1
  BY <1>1, CellType, SMTT(60), Z3T(60)
<1>3. off \in 0 .. n - 1 /\ a = Cell(p + off)
  OBVIOUS
<1>4. Written(r, e, n)[a] = [ev |-> e, off |-> off]
  BY <1>2 DEF Written
<1>5. off = k
  <2> HIDE DEF off, a, p
  <2>0. a = Cell(p + k)
    BY DEF a
  <2>1. CASE off < k
    BY <1>1, <1>3, <2>0, <2>1, CellInjective, SMTT(60), Z3T(60)
  <2>2. CASE k < off
    BY <1>1, <1>3, <2>0, <2>2, CellInjective, SMTT(60), Z3T(60)
  <2> QED
    BY <1>1, <1>3, <2>1, <2>2, SMTT(60), Z3T(60)
<1> QED
  BY <1>4, <1>5

(* The cells of what was not given back are other ones. *)
LEMMA WrittenOld ==
  ASSUME KernelType, NEW r \in Rings, NEW e, NEW n \in 1 .. Size,
         NEW p \in Nat, p < producer_pos[r], producer_pos[r] + n - p <= Size
  PROVE  Written(r, e, n)[Cell(p)] = data[r][Cell(p)]
<1>1. producer_pos[r] \in Nat /\ Size \in Nat
  BY ModernAssumption DEF KernelType
<1>2. Cell(p) \in 0 .. Size - 1
  BY CellType
<1>3. \A k \in 0 .. n - 1 : Cell(p) # Cell(producer_pos[r] + k)
  <2> TAKE k \in 0 .. n - 1
  <2>1. producer_pos[r] + k \in Nat /\ p < producer_pos[r] + k /\ producer_pos[r] + k < p + Size
    BY <1>1, SMTT(60), Z3T(60)
  <2> QED
    BY <2>1, CellInjective
<1> QED
  BY <1>2, <1>3 DEF Written

(* The cells hold events. *)
LEMMA WrittenType ==
  ASSUME KernelType, NEW r \in Rings, NEW e \in Events, NEW n \in 1 .. Size
  PROVE  /\ Written(r, e, n) \in [0 .. Size - 1 -> [ev : 0 .. MaxEvents, off : 0 .. Size - 1]]
         /\ \A a \in 0 .. Size - 1 :
               Written(r, e, n)[a].ev = e \/ Written(r, e, n)[a] = data[r][a]
<1> DEFINE w(a) == IF \E k \in 0 .. n - 1 : a = Cell(producer_pos[r] + k)
                   THEN [ev |-> e, off |-> CHOOSE k \in 0 .. n - 1 : a = Cell(producer_pos[r] + k)]
                   ELSE data[r][a]
<1>1. Written(r, e, n) = [a \in 0 .. Size - 1 |-> w(a)]
  BY DEF Written
<1>2. ASSUME NEW a \in 0 .. Size - 1
      PROVE  /\ w(a) \in [ev : 0 .. MaxEvents, off : 0 .. Size - 1]
             /\ w(a).ev = e \/ w(a) = data[r][a]
  <2>1. CASE \E k \in 0 .. n - 1 : a = Cell(producer_pos[r] + k)
    <3> DEFINE off == CHOOSE k \in 0 .. n - 1 : a = Cell(producer_pos[r] + k)
    <3>1. off \in 0 .. n - 1
      BY <2>1
    <3>2. w(a) = [ev |-> e, off |-> off]
      BY <2>1
    <3> HIDE DEF off, w
    <3>3. off \in 0 .. Size - 1 /\ e \in 0 .. MaxEvents
      BY <3>1, ModernAssumption, SMTT(60), Z3T(60) DEF Events
    <3> QED
      BY <3>2, <3>3, SMTT(60), Z3T(60)
  <2>2. CASE ~ \E k \in 0 .. n - 1 : a = Cell(producer_pos[r] + k)
    <3>1. w(a) = data[r][a]
      BY <2>2
    <3>2. data[r][a] \in [ev : 0 .. MaxEvents, off : 0 .. Size - 1]
      BY DEF KernelType
    <3> HIDE DEF w
    <3> QED
      BY <3>1, <3>2
  <2> QED
    BY <2>1, <2>2
<1> HIDE DEF w
<1> QED
  BY <1>1, <1>2

(* There is a number left for the event of a program that may go on. *)
LEMMA RoomForEvent ==
  ASSUME IInv, NEW c \in Cpus, pc[c] \in {"idle", "aux"}, MayBegin(c)
  PROVE  nres < MaxEvents /\ n_evts < MaxEvents
<1>1. KernelType
  BY DEF IInv
<1>2. Cardinality(Aux) \in Nat /\ (pc[c] = "aux" => Cardinality(Aux) >= 1)
  BY <1>1, AuxFinite DEF KernelType
<1>3. pc[c] = "idle" => n_evts + Cardinality(Aux) < MaxEvents
  BY DEF MayBegin, Aux
<1>4. n_evts < MaxEvents
  BY <1>2, <1>3, ModernAssumption, SMTT(60), Z3T(60) DEF IInv, CountInv
<1> QED
  BY <1>1, <1>4, ModernAssumption, SMTT(60), Z3T(60) DEF IInv, CountInv, Accounting, KernelType

(* A record is added behind the last one. *)
LEMMA ReserveInv ==
  ASSUME IInv, NEW c \in Cpus, Reserve(c)
  PROVE  IInv'
<1> DEFINE r == RingOf(c)
<1>0. PICK x : x = nres + 1
  OBVIOUS
<1>1. KernelType /\ ReaderType /\ RecInv /\ PosInv
  BY DEF IInv
<1>2. r \in Rings
  BY RingsType
<1>3. pc[c] \in {"idle", "aux"} /\ MayBegin(c)
  BY DEF Reserve
<1>4. x \in Events /\ x > nres /\ nres \in Nat
  BY <1>0, <1>1, <1>3, RoomForEvent, ModernAssumption, SMTT(60), Z3T(60) DEF KernelType, Events
<1>5. PICK n \in Lens : /\ Fits(r, n) /\ data' = [data EXCEPT ![r] = Written(r, x, n)]
                        /\ producer_pos' = [producer_pos EXCEPT ![r] = @ + n]
                        /\ len' = [len EXCEPT ![x] = n]
  BY <1>0 DEF Reserve
<1>6. /\ home' = [home EXCEPT ![x] = r]
      /\ start' = [start EXCEPT ![x] = producer_pos[r]]
      /\ st' = [st EXCEPT ![x] = "busy"]
      /\ ev' = [ev EXCEPT ![c] = x] /\ pc' = [pc EXCEPT ![c] = "reserved"]
      /\ n_evts' = n_evts + 1 /\ nres' = x
  BY <1>0 DEF Reserve
<1>7. UNCHANGED <<ts, now, stamp, n_drops_buffer, n_drops_max_event_size>> /\ UNCHANGED reader
  BY DEF Reserve
<1> DEFINE p == producer_pos[r]
<1>8. p \in Nat /\ n \in 1 .. Size /\ Size \in Nat \ {0}
  BY <1>1, <1>2, ModernAssumption DEF KernelType
<1>9. p + n - cons_pos[r] < Size /\ cons_pos[r] <= p /\ cons_pos[r] \in Nat
  <2>1. p + n - consumer_pos[r] < Size
    BY <1>5 DEF Fits
  <2>2. consumer_pos[r] = cons_pos[r] /\ cons_pos[r] \in Nat /\ prod_pos[r] \in Nat
    BY <1>1, <1>2 DEF ReaderType
  <2>3. cons_pos[r] <= prod_pos[r] /\ prod_pos[r] <= p
    BY <1>1, <1>2 DEF PosInv
  <2> HIDE DEF r, p
  <2> QED
    BY <1>8, <2>1, <2>2, <2>3, SMTT(60), Z3T(60)
<1> HIDE DEF r, p
<1>10. \A e \in Events : e # x => /\ home'[e] = home[e] /\ start'[e] = start[e]
                                  /\ st'[e] = st[e] /\ len'[e] = len[e]
  BY <1>1, <1>4, <1>5, <1>6 DEF KernelType
<1>11. home'[x] = r /\ start'[x] = p /\ st'[x] = "busy" /\ len'[x] = n
  BY <1>1, <1>4, <1>5, <1>6 DEF KernelType, p
<1>12. \A q \in Rings \ {r} : data'[q] = data[q] /\ producer_pos'[q] = producer_pos[q]
  BY <1>1, <1>2, <1>5 DEF KernelType
<1>13. data'[r] = Written(r, x, n) /\ producer_pos'[r] = p + n
  BY <1>1, <1>2, <1>5 DEF KernelType, p
<1>14. home[x] = None /\ st[x] = "none" /\ None \notin Rings
  BY <1>1, <1>4, SMTT(60), Z3T(60) DEF RecInv, Rings, None
<1>15. KernelType'
  <2>1. data' \in [Rings -> [0 .. Size - 1 -> [ev : 0 .. MaxEvents, off : 0 .. Size - 1]]]
    <3>1. Written(r, x, n) \in [0 .. Size - 1 -> [ev : 0 .. MaxEvents, off : 0 .. Size - 1]]
      BY <1>1, <1>2, <1>4, <1>8, WrittenType
    <3> QED
      BY <1>1, <1>5, <3>1 DEF KernelType
  <2>2. producer_pos' \in [Rings -> Nat]
    <3>1. producer_pos[r] + n \in Nat
      BY <1>8, SMTT(60), Z3T(60) DEF p
    <3> QED
      BY <1>1, <1>5, <3>1 DEF KernelType
  <2>3. st' \in [Events -> {"none", "busy", "committed", "discarded"}]
    BY <1>1, <1>6 DEF KernelType
  <2>4. len' \in [Events -> {0} \cup Lens]
    BY <1>1, <1>5 DEF KernelType
  <2>5. nres' \in 0 .. MaxEvents
    BY <1>4, <1>6, ModernAssumption, SMTT(60), Z3T(60) DEF Events
  <2>6. pc' \in [Cpus -> {"idle", "aux", "reserved"}]
    BY <1>1, <1>6 DEF KernelType
  <2>7. ev' \in [Cpus -> 0 .. MaxEvents]
    BY <1>1, <1>4, <1>6, ModernAssumption, SMTT(60), Z3T(60) DEF KernelType, Events
  <2>8. home' \in [Events -> Rings \cup {None}]
    BY <1>1, <1>2, <1>6 DEF KernelType
  <2>9. start' \in [Events -> Nat]
    BY <1>1, <1>6, <1>8 DEF KernelType, p
  <2>10. ts' \in [Events -> 0 .. now'] /\ now' \in Nat /\ stamp' \in [Cpus -> 0 .. now']
    BY <1>1, <1>7 DEF KernelType
  <2> QED
    BY <2>1, <2>2, <2>3, <2>4, <2>5, <2>6, <2>7, <2>8, <2>9, <2>10 DEF KernelType
<1>16. ReaderType'
  BY <1>1, <1>7 DEF ReaderType, reader
<1>17. CountInv'
  <2>1. /\ pc'[c] = "reserved"
        /\ \A d \in Cpus \ {c} : pc'[d] = pc[d]
    BY <1>1, <1>6 DEF KernelType
  <2>2. Cardinality(Aux) \in Nat
    BY <1>1, AuxFinite DEF KernelType
  <2>3. n_evts' + Cardinality(Aux') <= MaxEvents
    <3>1. CASE pc[c] = "aux"
      <4>1. Cardinality(Aux') = Cardinality(Aux) - 1
        BY <1>1, <1>15, <2>1, <3>1, AuxStep
      <4> QED
        BY <1>6, <2>2, <4>1, ModernAssumption, SMTT(60), Z3T(60) DEF IInv, CountInv
    <3>2. CASE pc[c] = "idle"
      <4>1. n_evts + Cardinality(Aux) < MaxEvents
        BY <1>3, <3>2 DEF MayBegin, Aux
      <4>2. Cardinality(Aux') = Cardinality(Aux)
        BY <1>1, <1>15, <2>1, <3>2, AuxStep
      <4> QED
        BY <1>6, <2>2, <4>1, <4>2, ModernAssumption, SMTT(60), Z3T(60) DEF IInv, CountInv
    <3> QED
      BY <1>3, <3>1, <3>2
  <2> QED
    BY <1>0, <1>4, <1>6, <1>7, <2>3, SMTT(60), Z3T(60) DEF IInv, CountInv, Accounting
<1>18. ProgInv'
  <2> SUFFICES ASSUME NEW d \in Cpus, pc'[d] = "reserved"
               PROVE  /\ ev'[d] \in 1 .. nres' /\ st'[ev'[d]] = "busy"
                      /\ \A b \in Cpus \ {d} : pc'[b] = "reserved" => ev'[b] # ev'[d]
    BY DEF ProgInv
  <2>1. ev'[c] = x
    BY <1>1, <1>6 DEF KernelType
  <2>2. \A b \in Cpus \ {c} : pc'[b] = pc[b] /\ ev'[b] = ev[b]
    BY <1>1, <1>6 DEF KernelType
  <2>3. \A b \in Cpus \ {c} : pc[b] = "reserved" =>
           ev[b] \in 1 .. nres /\ st[ev[b]] = "busy" /\ ev[b] # x
    BY <1>4, SMTT(60), Z3T(60) DEF IInv, ProgInv
  <2>4. \A b \in Cpus \ {c} : pc[b] = "reserved" => st'[ev[b]] = "busy"
    BY <1>1, <1>10, <2>3, SMTT(60), Z3T(60) DEF KernelType, Events
  <2>5. \A b \in Cpus \ {d} : pc[b] = "reserved" /\ pc[d] = "reserved" => ev[b] # ev[d]
    BY DEF IInv, ProgInv
  <2>6. CASE d = c
    BY <1>0, <1>4, <1>6, <1>11, <2>1, <2>2, <2>3, <2>6, SMTT(60), Z3T(60)
  <2>7. CASE d # c
    BY <1>0, <1>4, <1>6, <2>1, <2>2, <2>3, <2>4, <2>5, <2>7, SMTT(60), Z3T(60)
  <2> QED
    BY <2>6, <2>7
<1>19. \A e \in Events : e # x => End(e)' = End(e)
  BY <1>10 DEF End
<1>20. End(x)' = p + n
  BY <1>11 DEF End
<1>21. \A e \in Events : e # x /\ e <= nres' => e <= nres
  BY <1>0, <1>4, <1>6, SMTT(60), Z3T(60) DEF Events
<1>22. \A e \in Events : home[e] # None => e # x /\ e <= nres /\ End(e) <= producer_pos[home[e]] /\ home[e] \in Rings
  BY <1>1, <1>4, <1>14, SMTT(60), Z3T(60) DEF RecInv, Events
<1>23. \A e \in Events : start[e] \in Nat /\ len[e] \in Nat /\ End(e) \in Nat /\ start[e] <= End(e)
  <2>1. \A e \in Events : start[e] \in Nat /\ len[e] \in {0} \cup Lens
    BY <1>1 DEF KernelType
  <2>2. {0} \cup Lens \subseteq Nat
    BY ModernAssumption, SMTT(60), Z3T(60)
  <2> QED
    BY <2>1, <2>2, SMTT(60), Z3T(60) DEF End
<1>24. RecInv'
  <2> SUFFICES ASSUME NEW e \in Events
               PROVE  /\ e <= nres' => /\ home'[e] \in Rings /\ len'[e] \in Lens
                                       /\ st'[e] # "none"
                                       /\ End(e)' <= producer_pos'[home'[e]]
                      /\ e > nres' => home'[e] = None /\ st'[e] = "none"
    BY DEF RecInv
  <2>1. CASE e = x
    BY <1>0, <1>2, <1>4, <1>6, <1>8, <1>11, <1>13, <1>20, <2>1, SMTT(60), Z3T(60)
  <2>2. CASE e # x
    <3>1. CASE e <= nres'
      <4>1. /\ home[e] \in Rings /\ len[e] \in Lens /\ st[e] # "none"
            /\ End(e) <= producer_pos[home[e]] /\ producer_pos[home[e]] \in Nat
        BY <1>1, <1>21, <2>2, <3>1 DEF RecInv, KernelType
      <4>2. producer_pos[home[e]] <= producer_pos'[home[e]]
        BY <1>8, <1>12, <1>13, <4>1, SMTT(60), Z3T(60) DEF p
      <4>3. producer_pos'[home[e]] \in Nat
        BY <1>15, <4>1 DEF KernelType
      <4> QED
        BY <1>4, <1>6, <1>10, <1>19, <1>23, <2>2, <3>1, <4>1, <4>2, <4>3, SMTT(60), Z3T(60) DEF Events
    <3>2. CASE e > nres'
      BY <1>0, <1>1, <1>4, <1>6, <1>10, <2>2, <3>2, SMTT(60), Z3T(60) DEF RecInv, Events
    <3> QED
      BY <1>4, <1>6, <3>1, <3>2 DEF Events
  <2> QED
    BY <2>1, <2>2
<1>25. OrderInv'
  <2> SUFFICES ASSUME NEW e \in Events, NEW f \in Events,
                      home'[e] # None, home'[e] = home'[f], e < f
               PROVE  End(e)' <= start'[f]
    BY DEF OrderInv
  <2>1. e # x
    <3>1. CASE f = x
      BY <3>1, <1>4, SMTT(60), Z3T(60) DEF Events
    <3>2. CASE f # x
      <4>1. home[f] # None
        BY <1>10, <3>2
      <4> QED
        BY <1>0, <1>4, <1>22, <4>1, SMTT(60), Z3T(60) DEF Events
    <3> QED
      BY <3>1, <3>2
  <2>2. CASE f = x
    <3>1. home[e] = r
      BY <1>10, <1>11, <2>1, <2>2
    <3>2. End(e) <= p
      BY <1>2, <1>14, <1>22, <3>1 DEF p
    <3> QED
      BY <1>11, <1>19, <2>1, <2>2, <3>2
  <2>3. CASE f # x
    <3>1. home[e] # None /\ home[e] = home[f]
      BY <1>10, <2>1, <2>3
    <3>2. End(e) <= start[f]
      BY <3>1 DEF IInv, OrderInv
    <3> QED
      BY <1>10, <1>19, <2>1, <2>3, <3>2
  <2> QED
    BY <2>2, <2>3
<1>26. CoverInv'
  <2> SUFFICES ASSUME NEW q \in Rings, NEW i \in 0 .. producer_pos'[q] - 1
               PROVE  \E e \in Events : home'[e] = q /\ start'[e] <= i /\ i < End(e)'
    BY DEF CoverInv
  <2>1. CASE q = r /\ i >= p
    BY <1>4, <1>8, <1>11, <1>13, <1>20, <2>1, SMTT(60), Z3T(60)
  <2>2. CASE ~(q = r /\ i >= p)
    <3>1. i \in 0 .. producer_pos[q] - 1
      <4>1. CASE q = r
        BY <1>8, <1>13, <2>2, <4>1, SMTT(60), Z3T(60) DEF p
      <4>2. CASE q # r
        BY <1>12, <4>2
      <4> QED
        BY <4>1, <4>2, SMTT(60), Z3T(60)
    <3>2. PICK e \in Events : home[e] = q /\ start[e] <= i /\ i < End(e)
      BY <3>1 DEF IInv, CoverInv
    <3>3. e # x
      BY <1>14, <3>2, SMTT(60), Z3T(60)
    <3> QED
      BY <1>10, <1>19, <3>2, <3>3, SMTT(60), Z3T(60)
  <2> QED
    BY <2>1, <2>2
<1>27. PosInv'
  <2> SUFFICES ASSUME NEW q \in Rings
               PROVE  /\ cons_pos[q] <= prod_pos[q] /\ prod_pos[q] <= producer_pos'[q]
                      /\ producer_pos'[q] - cons_pos[q] < Size
                      /\ Boundary(q, cons_pos[q])' /\ Boundary(q, prod_pos[q])'
    BY <1>7 DEF PosInv, reader
  <2>0. producer_pos[q] \in Nat /\ cons_pos[q] \in Nat /\ prod_pos[q] \in Nat
    BY <1>1 DEF KernelType, ReaderType
  <2>1. /\ cons_pos[q] <= prod_pos[q] /\ prod_pos[q] <= producer_pos[q]
        /\ producer_pos[q] - cons_pos[q] < Size
        /\ Boundary(q, cons_pos[q]) /\ Boundary(q, prod_pos[q])
    BY <1>1 DEF PosInv
  <2>2. prod_pos[q] <= producer_pos'[q] /\ producer_pos'[q] - cons_pos[q] < Size
    BY <1>8, <1>9, <1>12, <1>13, <2>0, <2>1, SMTT(60), Z3T(60) DEF p
  <2>3. ASSUME NEW i \in Nat, i <= producer_pos[q], Boundary(q, i)
        PROVE  \A e \in Events : home'[e] = q => End(e)' <= i \/ i <= start'[e]
    <3> TAKE e \in Events
    <3>1. CASE e = x
      BY <1>11, <2>3, <3>1 DEF p
    <3>2. CASE e # x
      BY <1>10, <1>19, <2>3, <3>2 DEF Boundary
    <3> QED
      BY <3>1, <3>2
  <2>4. Boundary(q, cons_pos[q])'
    <3>1. cons_pos[q] <= producer_pos[q]
      BY <2>0, <2>1, SMTT(60), Z3T(60)
    <3> QED
      BY <1>7, <2>0, <2>1, <2>3, <3>1 DEF Boundary, reader
  <2>5. Boundary(q, prod_pos[q])'
    BY <1>7, <2>0, <2>1, <2>3 DEF Boundary, reader
  <2> QED
    BY <2>1, <2>2, <2>4, <2>5
<1>28. HomeInv'
  <2> SUFFICES ASSUME NEW q \in Rings, NEW a \in 0 .. Size - 1, data'[q][a].ev # 0
               PROVE  home'[data'[q][a].ev] = q
    BY DEF HomeInv
  <2>1. data[q][a].ev \in 0 .. MaxEvents
    <3>1. data \in [Rings -> [0 .. Size - 1 -> [ev : 0 .. MaxEvents, off : 0 .. Size - 1]]]
      BY <1>1 DEF KernelType
    <3> QED
      BY <3>1
  <2>2. ASSUME data'[q][a] = data[q][a]
        PROVE  home'[data'[q][a].ev] = q
    <3>1. home[data[q][a].ev] = q /\ data[q][a].ev \in Events
      BY <2>1, <2>2, SMTT(60), Z3T(60) DEF IInv, HomeInv, Events
    <3> QED
      BY <1>10, <1>14, <2>2, <3>1
  <2>3. CASE q = r
    <3>1. data'[q][a].ev = x \/ data'[q][a] = data[q][a]
      <4>1. \A b \in 0 .. Size - 1 : Written(r, x, n)[b].ev = x \/ Written(r, x, n)[b] = data[r][b]
        BY <1>1, <1>2, <1>4, <1>8, WrittenType
      <4> QED
        BY <1>13, <2>3, <4>1
    <3> QED
      BY <1>11, <2>2, <2>3, <3>1
  <2>4. CASE q # r
    BY <1>12, <2>2, <2>4
  <2> QED
    BY <2>3, <2>4
<1>29. DataInv'
  <2> SUFFICES ASSUME NEW e \in Events, home'[e] # None, NEW k \in 0 .. len'[e] - 1,
                      start'[e] + k >= cons_pos[home'[e]]
               PROVE  data'[home'[e]][Cell(start'[e] + k)] = [ev |-> e, off |-> k]
    BY <1>7 DEF DataInv, reader, Cell
  <2>1. CASE e = x
    BY <1>1, <1>2, <1>8, <1>11, <1>13, <2>1, WrittenNew, SMTT(60), Z3T(60) DEF p
  <2>2. CASE e # x
    <3>1. /\ home[e] # None /\ k \in 0 .. len[e] - 1 /\ start[e] + k >= cons_pos[home[e]]
          /\ home'[e] = home[e] /\ start'[e] = start[e]
      BY <1>10, <2>2
    <3>2. data[home[e]][Cell(start[e] + k)] = [ev |-> e, off |-> k]
      BY <3>1 DEF IInv, DataInv
    <3>3. CASE home[e] = r
      <4>1. start[e] + k \in Nat /\ start[e] + k < p /\ start[e] + k >= cons_pos[r]
        <5>1. End(e) <= p /\ cons_pos[home[e]] = cons_pos[r]
          BY <1>22, <3>1, <3>3 DEF p
        <5>2. /\ start[e] \in Nat /\ len[e] \in Nat /\ End(e) = start[e] + len[e]
              /\ start[e] + k >= cons_pos[r]
          BY <1>23, <3>1, <5>1 DEF End
        <5> QED
          BY <1>8, <3>1, <5>1, <5>2, SMTT(60), Z3T(60)
      <4>2. p + n - (start[e] + k) <= Size
        BY <1>8, <1>9, <4>1, SMTT(60), Z3T(60)
      <4>3. Written(r, x, n)[Cell(start[e] + k)] = data[r][Cell(start[e] + k)]
        BY <1>1, <1>2, <1>8, <4>1, <4>2, WrittenOld, SMTT(60), Z3T(60) DEF p
      <4> QED
        BY <1>13, <3>1, <3>2, <3>3, <4>3
    <3>4. CASE home[e] # r
      BY <1>12, <1>22, <3>1, <3>2, <3>4
    <3> QED
      BY <3>3, <3>4
  <2> QED
    BY <2>1, <2>2
<1>30. \A q, e : AtFront(q, e) => AtFront(q, e)' /\ e # x /\ len'[e] = len[e]
  BY <1>7, <1>10, <1>14, <1>19 DEF AtFront, reader
<1>31. HeldInv'
  BY <1>7, <1>30 DEF IInv, HeldInv, reader
<1>32. TmpInv'
  BY <1>7, <1>30 DEF IInv, TmpInv, reader
<1>33. FrontInv'
  <2>1. \A e \in front : e \in Events /\ e # x
    BY <1>1, <1>14 DEF IInv, FrontInv, ReaderType
  <2> QED
    BY <1>7, <1>10, <2>1 DEF IInv, FrontInv, LowestFront, reader
<1>34. DlvInv'
  <2> SUFFICES ASSUME NEW q \in Rings
               PROVE  /\ \A i, k \in 1 .. Len(dlv[q]) : i < k => dlv[q][i] < dlv[q][k]
                      /\ \A e \in Events :
                           /\ e \in Range(dlv[q]) <=> Passed(q, e)' /\ st'[e] = "committed"
                           /\ Passed(q, e)' => st'[e] \in {"committed", "discarded"}
    BY <1>7 DEF DlvInv, reader
  <2>1. held # x
    <3>1. held # 0 => cpc = "push" /\ AtFront(last_ring_read, held)
      BY <1>1 DEF IInv, HeldInv, ReaderType
    <3> QED
      BY <1>4, <1>30, <3>1, SMTT(60), Z3T(60) DEF Events
  <2>2. ~Passed(q, x)' /\ ~Passed(q, x)
    <3>1. cons_pos[q] \in Nat /\ (q = r => ~(p < cons_pos[q]))
      BY <1>1, <1>8, <1>9, SMTT(60), Z3T(60) DEF ReaderType
    <3> QED
      BY <1>7, <1>11, <1>14, <2>1, <3>1 DEF Passed, reader
  <2>3. x \notin Range(dlv[q])
    BY <1>4, <2>2 DEF IInv, DlvInv
  <2>4. \A e \in Events : e # x => (Passed(q, e)' <=> Passed(q, e)) /\ st'[e] = st[e]
    BY <1>7, <1>10 DEF Passed, reader
  <2> QED
    BY <2>2, <2>3, <2>4 DEF IInv, DlvInv
<1> QED
  BY <1>15, <1>16, <1>17, <1>18, <1>24, <1>25, <1>26, <1>27, <1>28, <1>29, <1>31, <1>32,
     <1>33, <1>34 DEF IInv

-----------------------------------------------------------------------------
(* The reader *)

(* At a position in front of the producer's that is not inside a record, a *)
(* record starts, and its header is in the cell of the position.           *)
LEMMA RecordAt ==
  ASSUME IInv, NEW r \in Rings, NEW p \in Nat, cons_pos[r] <= p, p < producer_pos[r],
         Boundary(r, p)
  PROVE  \E e \in Events :
            /\ home[e] = r /\ start[e] = p /\ data[r][Cell(p)] = [ev |-> e, off |-> 0]
            /\ len[e] \in Nat \ {0} /\ st[e] # "none" /\ End(e) <= producer_pos[r]
<1>1. KernelType /\ ReaderType /\ RecInv /\ None \notin Rings
  BY SMTT(60), Z3T(60) DEF IInv, None, Rings
<1>2. cons_pos[r] \in Nat /\ producer_pos[r] \in Nat
  BY <1>1 DEF KernelType, ReaderType
<1>3. PICK e \in Events : home[e] = r /\ start[e] <= p /\ p < End(e)
  BY <1>2, SMTT(60), Z3T(60) DEF IInv, CoverInv
<1>4. e <= nres
  BY <1>1, <1>3, SMTT(60), Z3T(60) DEF RecInv, KernelType, Events
<1>5. start[e] \in Nat /\ len[e] \in Lens /\ st[e] # "none" /\ End(e) <= producer_pos[r]
  BY <1>1, <1>3, <1>4 DEF RecInv, KernelType
<1>6. len[e] \in Nat \ {0}
  BY <1>5, LensType
<1>7. start[e] = p
  BY <1>3, <1>5, <1>6, SMTT(60), Z3T(60) DEF Boundary, End
<1>8. data[r][Cell(p)] = [ev |-> e, off |-> 0]
  <2>1. 0 \in 0 .. len[e] - 1 /\ start[e] + 0 = start[e] /\ start[e] >= cons_pos[home[e]]
    BY <1>2, <1>3, <1>5, <1>6, <1>7, SMTT(60), Z3T(60)
  <2> QED
    BY <1>1, <1>3, <1>7, <2>1 DEF IInv, DataInv
<1> QED
  BY <1>3, <1>5, <1>6, <1>7, <1>8

(* The record the reader is at, if the producer is further. *)
LEMMA FirstRecord ==
  ASSUME IInv, NEW r \in Rings, cons_pos[r] < producer_pos[r]
  PROVE  /\ First(r) \in Events /\ home[First(r)] = r /\ start[First(r)] = cons_pos[r]
         /\ len[First(r)] \in Nat \ {0} /\ End(First(r)) = cons_pos[r] + len[First(r)]
         /\ st[First(r)] \in {"busy", "committed", "discarded"}
         /\ End(First(r)) <= producer_pos[r]
         /\ \A q \in Nat : Boundary(r, q) /\ cons_pos[r] < q => End(First(r)) <= q
<1>1. cons_pos[r] \in Nat /\ cons_pos[r] <= cons_pos[r] /\ Boundary(r, cons_pos[r])
  BY SMTT(60), Z3T(60) DEF IInv, ReaderType, PosInv
<1>2. PICK e \in Events :
         /\ home[e] = r /\ start[e] = cons_pos[r]
         /\ data[r][Cell(cons_pos[r])] = [ev |-> e, off |-> 0]
         /\ len[e] \in Nat \ {0} /\ st[e] # "none" /\ End(e) <= producer_pos[r]
  BY <1>1, RecordAt
<1>3. First(r) = e
  BY <1>2, SMTT(60), Z3T(60) DEF First
<1>4. End(e) = cons_pos[r] + len[e]
  BY <1>2 DEF End
<1>5. \A q \in Nat : Boundary(r, q) /\ cons_pos[r] < q => End(e) <= q
  BY <1>1, <1>2, SMTT(60), Z3T(60) DEF Boundary
<1>6. st[e] \in {"busy", "committed", "discarded"}
  BY <1>2 DEF IInv, KernelType
<1> QED
  BY <1>2, <1>3, <1>4, <1>5, <1>6

(* No two records of a ring start at one position, and those before a     *)
(* record end where it starts.                                             *)
LEMMA Records ==
  ASSUME IInv, NEW r \in Rings
  PROVE  /\ \A e \in Events : home[e] = r =>
               /\ start[e] \in Nat /\ End(e) \in Nat /\ start[e] < End(e)
               /\ End(e) <= producer_pos[r]
         /\ \A e, f \in Events : home[e] = r /\ home[f] = r /\ e # f =>
               End(e) <= start[f] \/ End(f) <= start[e]
         /\ \A e, f \in Events : home[e] = r /\ home[f] = r =>
               /\ start[e] = start[f] => e = f
               /\ start[e] < start[f] <=> e < f
<1>1. KernelType /\ RecInv /\ OrderInv /\ None \notin Rings
  BY SMTT(60), Z3T(60) DEF IInv, None, Rings
<1>2. ASSUME NEW e \in Events, home[e] = r
      PROVE  /\ start[e] \in Nat /\ End(e) \in Nat /\ start[e] < End(e)
             /\ End(e) <= producer_pos[r]
  <2>1. e <= nres
    BY <1>1, <1>2, SMTT(60), Z3T(60) DEF RecInv, KernelType, Events
  <2>2. len[e] \in Lens /\ End(e) <= producer_pos[r]
    BY <1>1, <1>2, <2>1 DEF RecInv
  <2>3. len[e] \in Nat \ {0} /\ start[e] \in Nat
    BY <1>1, <2>2, LensType DEF KernelType
  <2> QED
    BY <2>2, <2>3, SMTT(60), Z3T(60) DEF End
<1>3. ASSUME NEW e \in Events, NEW f \in Events, home[e] = r, home[f] = r, e < f
      PROVE  End(e) <= start[f]
  BY <1>1, <1>3 DEF OrderInv
<1>4. \A e, f \in Events : e < f \/ f < e \/ e = f
  BY SMTT(60), Z3T(60) DEF Events
<1>5. ASSUME NEW e \in Events, NEW f \in Events, home[e] = r, home[f] = r
      PROVE  /\ e # f => End(e) <= start[f] \/ End(f) <= start[e]
             /\ start[e] = start[f] => e = f
             /\ start[e] < start[f] <=> e < f
  <2>1. /\ start[e] \in Nat /\ End(e) \in Nat /\ start[e] < End(e)
        /\ start[f] \in Nat /\ End(f) \in Nat /\ start[f] < End(f)
    BY <1>2, <1>5
  <2>2. CASE e < f
    BY <1>3, <1>5, <2>1, <2>2, SMTT(60), Z3T(60) DEF Events
  <2>3. CASE f < e
    BY <1>3, <1>5, <2>1, <2>3, SMTT(60), Z3T(60) DEF Events
  <2>4. CASE e = f
    BY <2>1, <2>4, SMTT(60), Z3T(60) DEF Events
  <2> QED
    BY <1>4, <2>2, <2>3, <2>4
<1> QED
  BY <1>2, <1>5

(* The reader moves to the end of the record it is at. *)
LEMMA Advance ==
  ASSUME IInv, NEW r \in Rings, NEW e \in Events, home[e] = r, start[e] = cons_pos[r],
         UNCHANGED kernel, cons_pos' = [cons_pos EXCEPT ![r] = End(e)]
  PROVE  /\ DataInv'
         /\ cons_pos' \in [Rings -> Nat] /\ cons_pos'[r] = End(e) /\ cons_pos[r] < End(e)
         /\ \A q \in Rings \ {r} : cons_pos'[q] = cons_pos[q]
         /\ \A q \in Rings : producer_pos[q] - cons_pos'[q] < Size /\ Boundary(q, cons_pos'[q])
         /\ \A f \in Events : home[f] = r => (start[f] < End(e) <=> start[f] < cons_pos[r] \/ f = e)
<1>1. KernelType /\ ReaderType /\ PosInv
  BY DEF IInv
<1>2. /\ cons_pos[r] \in Nat /\ producer_pos[r] \in Nat
      /\ \A f \in Events : start[f] \in Nat
  BY <1>1 DEF KernelType, ReaderType
<1>3. \A f \in Events : home[f] = r => End(f) \in Nat /\ start[f] < End(f)
  BY Records
<1>4. \A f \in Events : home[f] = r /\ f # e => End(e) <= start[f] \/ End(f) <= start[e]
  BY Records
<1>5. cons_pos'[r] = End(e) /\ \A q \in Rings \ {r} : cons_pos'[q] = cons_pos[q]
  BY <1>1 DEF ReaderType
<1>6. End(e) \in Nat /\ cons_pos[r] < End(e)
  BY <1>3
<1>7. cons_pos' \in [Rings -> Nat]
  BY <1>1, <1>6 DEF ReaderType
<1>8. \A f \in Events : home[f] = r => (start[f] < End(e) <=> start[f] < cons_pos[r] \/ f = e)
  BY <1>2, <1>3, <1>4, <1>6, SMTT(60), Z3T(60)
<1>9. \A f \in Events : home[f] = r => End(f) <= End(e) \/ End(e) <= start[f]
  <2> TAKE f \in Events
  <2> HAVE home[f] = r
  <2>1. CASE f = e
    BY <1>3, <2>1, SMTT(60), Z3T(60)
  <2>2. CASE f # e
    BY <1>2, <1>3, <1>4, <2>2, SMTT(60), Z3T(60)
  <2> QED
    BY <2>1, <2>2
<1>10. \A q \in Rings : producer_pos[q] - cons_pos'[q] < Size /\ Boundary(q, cons_pos'[q])
  <2> TAKE q \in Rings
  <2>1. producer_pos[q] - cons_pos[q] < Size /\ Boundary(q, cons_pos[q])
    BY <1>1 DEF PosInv
  <2>2. CASE q = r
    BY <1>2, <1>5, <1>6, <1>9, <2>1, <2>2, ModernAssumption, SMTT(60), Z3T(60) DEF Boundary
  <2>3. CASE q # r
    BY <1>5, <2>1, <2>3
  <2> QED
    BY <2>2, <2>3
<1>11. DataInv'
  <2>0. home' = home /\ start' = start /\ len' = len /\ data' = data
    BY DEF kernel
  <2> SUFFICES ASSUME NEW f \in Events, home[f] # None, NEW k \in 0 .. len[f] - 1,
                      start[f] + k >= cons_pos'[home[f]]
               PROVE  data[home[f]][Cell(start[f] + k)] = [ev |-> f, off |-> k]
    BY <2>0 DEF DataInv, Cell
  <2>1. home[f] \in Rings /\ start[f] + k \in Nat
    BY <1>1, <1>2, SMTT(60), Z3T(60) DEF KernelType
  <2>2. cons_pos[home[f]] \in Nat /\ cons_pos[home[f]] <= cons_pos'[home[f]]
    <3>1. cons_pos[home[f]] \in Nat
      BY <1>1, <2>1 DEF ReaderType
    <3>2. CASE home[f] = r
      BY <1>2, <1>5, <1>6, <3>2, SMTT(60), Z3T(60)
    <3>3. CASE home[f] # r
      BY <1>5, <2>1, <3>1, <3>3, SMTT(60), Z3T(60)
    <3> QED
      BY <3>1, <3>2, <3>3
  <2>3. cons_pos'[home[f]] \in Nat
    BY <1>7, <2>1
  <2>4. start[f] + k >= cons_pos[home[f]]
    BY <2>1, <2>2, <2>3, SMTT(60), Z3T(60)
  <2> QED
    BY <2>4 DEF IInv, DataInv
<1> QED
  BY <1>5, <1>6, <1>7, <1>8, <1>10, <1>11

(* What the reader leaves alone. *)
LEMMA KernelFrame ==
  ASSUME IInv, UNCHANGED kernel
  PROVE  /\ KernelType' /\ CountInv' /\ ProgInv' /\ RecInv' /\ OrderInv' /\ CoverInv' /\ HomeInv'
         /\ \A e : End(e)' = End(e)
         /\ \A r, p : Boundary(r, p)' <=> Boundary(r, p)
<1> USE DEF IInv, kernel
<1>1. KernelType'
  BY DEF KernelType
<1>2. CountInv' /\ ProgInv'
  BY SMTT(60), Z3T(60) DEF CountInv, ProgInv, Aux, Accounting
<1>3. RecInv' /\ OrderInv' /\ CoverInv'
  BY DEF RecInv, OrderInv, CoverInv, End
<1>4. HomeInv'
  BY DEF HomeInv
<1>5. \A e : End(e)' = End(e)
  BY DEF End
<1>6. \A r, p : Boundary(r, p)' <=> Boundary(r, p)
  BY DEF Boundary, End
<1> QED
  BY <1>1, <1>2, <1>3, <1>4, <1>5, <1>6

(* The positions after a step of the reader. *)
LEMMA Positions ==
  ASSUME IInv, UNCHANGED kernel,
         \A q \in Rings : /\ cons_pos'[q] <= prod_pos'[q] /\ prod_pos'[q] <= producer_pos[q]
                          /\ producer_pos[q] - cons_pos'[q] < Size
                          /\ Boundary(q, cons_pos'[q]) /\ Boundary(q, prod_pos'[q])
  PROVE  PosInv'
<1>1. producer_pos' = producer_pos /\ home' = home /\ start' = start /\ len' = len
  BY DEF kernel
<1> QED
  BY <1>1 DEF PosInv, Boundary, End

(* The record of the event handed out last is given back. *)
LEMMA PushMoves ==
  ASSUME IInv, Push
  PROVE  /\ cons_pos' \in [Rings -> Nat] /\ consumer_pos' = cons_pos' /\ DataInv' /\ PosInv'
         /\ \A r \in Rings : \A e \in Events :
               Passed(r, e) <=> home[e] = r /\ start[e] < cons_pos'[r]
<1>1. KernelType /\ ReaderType /\ PosInv /\ HeldInv /\ None \notin Rings /\ 0 \notin Events
  BY SMTT(60), Z3T(60) DEF IInv, None, Rings, Events
<1>2. cpc = "push" /\ UNCHANGED kernel /\ prod_pos' = prod_pos
  BY DEF Push
<1>3. CASE last_ring_read = None
  <2>1. cons_pos' = cons_pos /\ consumer_pos' = consumer_pos
    BY <1>3 DEF Push
  <2>2. held = 0
    BY <1>1, <1>2, <1>3 DEF HeldInv, AtFront
  <2>3. DataInv' /\ PosInv'
    BY <1>2, <2>1 DEF IInv, DataInv, PosInv, Boundary, End, kernel
  <2> QED
    BY <1>1, <2>1, <2>2, <2>3 DEF ReaderType, Passed
<1>4. CASE last_ring_read # None
  <2> DEFINE to == cons_pos[last_ring_read] + last_event_size
  <2>1. /\ cons_pos' = [cons_pos EXCEPT ![last_ring_read] = to]
        /\ consumer_pos' = [consumer_pos EXCEPT ![last_ring_read] = to]
    BY <1>4 DEF Push
  <2>2. held # 0 /\ AtFront(last_ring_read, held) /\ last_event_size = len[held]
    BY <1>1, <1>2, <1>4 DEF HeldInv
  <2>3. to = End(held)
    BY <2>2 DEF AtFront, End
  <2>4. PICK r \in Rings, e \in Events : r = last_ring_read /\ e = held
    BY <2>2 DEF AtFront
  <2>5. home[e] = r /\ start[e] = cons_pos[r] /\ End(e) <= prod_pos[r]
    BY <2>2, <2>4 DEF AtFront
  <2>6. cons_pos' = [cons_pos EXCEPT ![r] = End(e)]
    BY <2>1, <2>3, <2>4
  <2>7. /\ DataInv'
        /\ cons_pos' \in [Rings -> Nat] /\ cons_pos'[r] = End(e)
        /\ \A q \in Rings \ {r} : cons_pos'[q] = cons_pos[q]
        /\ \A q \in Rings : producer_pos[q] - cons_pos'[q] < Size /\ Boundary(q, cons_pos'[q])
        /\ \A f \in Events : home[f] = r =>
              (start[f] < End(e) <=> start[f] < cons_pos[r] \/ f = e)
    <3>1. UNCHANGED kernel
      BY <1>2
    <3> QED
      BY <2>5, <2>6, <3>1, Advance
  <2>9. PosInv'
    <3>1. \A q \in Rings : cons_pos'[q] <= prod_pos'[q] /\ prod_pos'[q] <= producer_pos[q]
                           /\ Boundary(q, prod_pos'[q])
      BY <1>1, <1>2, <2>5, <2>7 DEF PosInv
    <3> QED
      BY <1>2, <2>7, <3>1, Positions
  <2>10. consumer_pos' = cons_pos'
    BY <1>1, <2>1 DEF ReaderType
  <2>11. ASSUME NEW q \in Rings, NEW f \in Events
         PROVE  Passed(q, f) <=> home[f] = q /\ start[f] < cons_pos'[q]
    <3>1. CASE q = r
      BY <2>4, <2>7, <3>1, SMTT(60), Z3T(60) DEF Passed
    <3>2. CASE q # r
      BY <2>4, <2>5, <2>7, <3>2, SMTT(60), Z3T(60) DEF Passed
    <3> QED
      BY <3>1, <3>2, SMTT(60), Z3T(60)
  <2> QED
    BY <2>7, <2>9, <2>10, <2>11
<1> QED
  BY <1>3, <1>4

(* A sequence with one more element. *)
LEMMA AppendRange ==
  ASSUME NEW S, NEW s \in Seq(S), NEW x \in S
  PROVE  \A e : e \in Range(Append(s, x)) <=> e \in Range(s) \/ e = x
<1>1. /\ Len(Append(s, x)) = Len(s) + 1 /\ Append(s, x) \in Seq(S) /\ Len(s) \in Nat
      /\ Append(s, x)[Len(s) + 1] = x
      /\ \A i \in 1 .. Len(s) : Append(s, x)[i] = s[i]
  BY SMTT(60), Z3T(60)
<1>2. DOMAIN Append(s, x) = 1 .. Len(s) + 1 /\ DOMAIN s = 1 .. Len(s)
  BY <1>1, SMTT(60), Z3T(60)
<1>3. 1 .. Len(s) + 1 = 1 .. Len(s) \cup {Len(s) + 1}
  BY <1>1, SMTT(60), Z3T(60)
<1> QED
  BY <1>1, <1>2, <1>3 DEF Range

(* A call begins: the events at the front are those the reader will meet.  *)
LEMMA PushInv ==
  ASSUME IInv, Push
  PROVE  IInv'
<1>1. KernelType /\ ReaderType /\ DlvInv /\ HomeInv
  BY DEF IInv
<1>2. /\ cpc' = "scan" /\ pos' = 0 /\ tmp' = NoTmp /\ held' = 0
      /\ UNCHANGED <<prod_pos, last_ring_read, last_event_size, dlv>> /\ UNCHANGED kernel
      /\ ready' = {e \in Events : st[e] = "committed"} \ UNION {Range(dlv[r]) : r \in Rings}
      /\ front' = {e \in ready' : \E r \in Rings : e = data[r][Cell(cons_pos'[r])].ev}
  BY DEF Push
<1>3. cons_pos' \in [Rings -> Nat] /\ consumer_pos' = cons_pos' /\ DataInv' /\ PosInv'
  BY PushMoves
<1>4. \A r \in Rings : \A e \in Events :
         Passed(r, e) <=> home[e] = r /\ start[e] < cons_pos'[r]
  BY PushMoves
<1>5. /\ KernelType' /\ CountInv' /\ ProgInv' /\ RecInv' /\ OrderInv' /\ CoverInv' /\ HomeInv'
  BY <1>2, KernelFrame
<1>6. front' \subseteq Events /\ \A e \in front' : st[e] = "committed"
  BY <1>2
<1>7. ReaderType'
  <2>1. NRings \in Nat
    BY RingsType
  <2>2. NoTmp \in [ring : Rings \cup {None}, ev : 0 .. MaxEvents, inc : Nat] /\ 0 \in 0 .. MaxEvents
    BY ModernAssumption, SMTT(60), Z3T(60) DEF NoTmp
  <2>3. /\ prod_pos' \in [Rings -> Nat] /\ dlv' \in [Rings -> Seq(Events)]
        /\ last_ring_read' \in Rings \cup {None} /\ last_event_size' \in Nat
    BY <1>1, <1>2 DEF ReaderType
  <2>4. /\ tmp' \in [ring : Rings \cup {None}, ev : 0 .. MaxEvents, inc : Nat]
        /\ held' \in 0 .. MaxEvents /\ pos' \in 0 .. NRings /\ cpc' \in {"push", "scan"}
    BY <1>2, <2>1, <2>2, SMTT(60), Z3T(60)
  <2> QED
    BY <1>3, <1>6, <2>3, <2>4 DEF ReaderType
<1>8. HeldInv' /\ TmpInv'
  BY <1>2 DEF HeldInv, TmpInv, NoTmp
<1>9. DlvInv'
  <2>1. \A r \in Rings : \A e \in Events : Passed(r, e)' <=> Passed(r, e)
    <3> TAKE r \in Rings
    <3> TAKE e \in Events
    <3>1. e # 0
      BY SMTT(60), Z3T(60) DEF Events
    <3> QED
      BY <1>2, <1>4, <3>1 DEF Passed, kernel
  <2>2. dlv' = dlv /\ st' = st
    BY <1>2 DEF kernel
  <2> QED
    BY <1>1, <2>1, <2>2 DEF DlvInv
<1>10. ASSUME NEW e \in front'
       PROVE  home[e] \in Rings /\ start[e] = cons_pos'[home[e]]
  <2>1. e \in Events /\ st[e] = "committed" /\ \A r \in Rings : e \notin Range(dlv[r])
    BY <1>2
  <2>2. PICK q \in Rings : e = data[q][Cell(cons_pos'[q])].ev
    BY <1>2
  <2>3. cons_pos'[q] \in Nat /\ Cell(cons_pos'[q]) \in 0 .. Size - 1
    BY <1>3, CellType, SMTT(60), Z3T(60)
  <2>4. home[e] = q
    BY <1>1, <2>1, <2>2, <2>3, SMTT(60), Z3T(60) DEF HomeInv, Events
  <2>5. ~(start[e] < cons_pos'[q])
    BY <1>1, <1>4, <2>1, <2>4 DEF DlvInv
  <2>6. /\ cons_pos'[q] <= producer_pos[q] /\ Boundary(q, cons_pos'[q])
        /\ cons_pos[q] <= cons_pos'[q]
    <3>1. /\ producer_pos' = producer_pos /\ home' = home /\ start' = start /\ len' = len
          /\ prod_pos' = prod_pos
      BY <1>2 DEF kernel
    <3>2. /\ cons_pos'[q] <= prod_pos[q] /\ prod_pos[q] <= producer_pos[q]
          /\ Boundary(q, cons_pos'[q])
      BY <1>3, <3>1 DEF PosInv, Boundary, End
    <3>3. prod_pos[q] \in Nat /\ producer_pos[q] \in Nat
      BY <1>1 DEF KernelType, ReaderType
    <3>4. cons_pos[q] <= cons_pos'[q]
      <4>1. CASE cons_pos' = cons_pos
        BY <2>3, <4>1, SMTT(60), Z3T(60)
      <4>2. CASE cons_pos' # cons_pos
        <5>1. /\ last_ring_read \in Rings \cup {None} /\ last_ring_read # None
              /\ cons_pos' = [cons_pos EXCEPT ![last_ring_read] =
                                 cons_pos[last_ring_read] + last_event_size]
          BY <1>1, <4>2 DEF Push, ReaderType
        <5>2. last_event_size \in Nat /\ cons_pos \in [Rings -> Nat]
          BY <1>1 DEF ReaderType
        <5> QED
          BY <5>1, <5>2, SMTT(60), Z3T(60)
      <4> QED
        BY <4>1, <4>2
    <3> QED
      BY <2>3, <3>2, <3>3, <3>4, SMTT(60), Z3T(60)
  <2>7. /\ start[e] \in Nat /\ End(e) \in Nat /\ start[e] < End(e) /\ End(e) <= producer_pos[q]
        /\ producer_pos[q] \in Nat
    BY <1>1, <2>1, <2>4, Records DEF KernelType
  <2>8. cons_pos'[q] < producer_pos[q]
    BY <2>3, <2>5, <2>6, <2>7, SMTT(60), Z3T(60)
  <2>9. \E f \in Events : start[f] = cons_pos'[q]
                          /\ data[q][Cell(cons_pos'[q])] = [ev |-> f, off |-> 0]
    <3>1. PICK p \in Nat : p = cons_pos'[q]
      BY <2>3
    <3>2. cons_pos[q] <= p /\ p < producer_pos[q] /\ Boundary(q, p)
      BY <2>6, <2>8, <3>1
    <3>3. \E f \in Events :
             /\ home[f] = q /\ start[f] = p /\ data[q][Cell(p)] = [ev |-> f, off |-> 0]
             /\ len[f] \in Nat \ {0} /\ st[f] # "none" /\ End(f) <= producer_pos[q]
      BY <3>2, RecordAt
    <3> QED
      BY <3>1, <3>3
  <2> QED
    BY <2>2, <2>4, <2>9, SMTT(60), Z3T(60)
<1>11. FrontInv'
  <2>1. st' = st /\ home' = home /\ start' = start
    BY <1>2 DEF kernel
  <2>2. \A e \in front' : ~(home[e] < 0)
    BY <1>10, RingsType, SMTT(60), Z3T(60) DEF Rings
  <2> QED
    BY <1>2, <1>6, <1>10, <2>1, <2>2 DEF FrontInv, LowestFront
<1> QED
  BY <1>3, <1>5, <1>7, <1>8, <1>9, <1>11 DEF IInv

(* The event with the lowest timestamp of the first ones is handed out. *)
LEMMA ReturnInv ==
  ASSUME IInv, Return
  PROVE  IInv'
<1>1. KernelType /\ ReaderType /\ TmpInv /\ HeldInv /\ FrontInv /\ DlvInv
  BY DEF IInv
<1>2. /\ cpc = "scan" /\ pos = NRings
      /\ held' = tmp.ev /\ last_ring_read' = tmp.ring /\ last_event_size' = tmp.inc
      /\ consumer_pos' = consumer_pos /\ cpc' = "push" /\ pos' = 0 /\ tmp' = NoTmp
      /\ UNCHANGED <<cons_pos, prod_pos, front>> /\ UNCHANGED kernel
  BY DEF Return, Increment, FreedOnReturn
<1>3. dlv' = IF tmp.ev = 0 THEN dlv ELSE [dlv EXCEPT ![tmp.ring] = Append(@, tmp.ev)]
  BY DEF Return
<1>4. held = 0
  BY <1>1, <1>2 DEF HeldInv
<1>5. tmp.ring \in Rings \cup {None} /\ tmp.ev \in 0 .. MaxEvents /\ tmp.inc \in Nat
  BY <1>1 DEF ReaderType
<1>6. tmp.ev = 0 => tmp.ring = None
  BY <1>1, <1>2, SMTT(60), Z3T(60) DEF TmpInv, NoTmp
<1>7. tmp.ev # 0 => AtFront(tmp.ring, tmp.ev) /\ tmp.inc = len[tmp.ev]
  BY <1>1, <1>2 DEF TmpInv
<1>8. KernelType' /\ CountInv' /\ ProgInv' /\ RecInv' /\ OrderInv' /\ CoverInv' /\ HomeInv'
  BY <1>2, KernelFrame
<1>9. DataInv' /\ PosInv'
  BY <1>2 DEF IInv, DataInv, PosInv, Boundary, End, kernel
<1>10. ReaderType'
  <2>1. NoTmp \in [ring : Rings \cup {None}, ev : 0 .. MaxEvents, inc : Nat] /\ 0 \in 0 .. NRings
    BY ModernAssumption, RingsType, SMTT(60), Z3T(60) DEF NoTmp
  <2>2. dlv' \in [Rings -> Seq(Events)]
    <3>1. CASE tmp.ev = 0
      BY <1>1, <1>3, <3>1 DEF ReaderType
    <3>2. CASE tmp.ev # 0
      <4>1. tmp.ring \in Rings /\ tmp.ev \in Events
        BY <1>7, <3>2 DEF AtFront
      <4> QED
        BY <1>1, <1>3, <3>2, <4>1, SMTT(60), Z3T(60) DEF ReaderType
    <3> QED
      BY <3>1, <3>2
  <2> QED
    BY <1>1, <1>2, <1>5, <2>1, <2>2 DEF ReaderType
<1>11. HeldInv'
  <2>1. tmp.ev # 0 => /\ home'[tmp.ev] = tmp.ring /\ st'[tmp.ev] = "committed"
                      /\ start'[tmp.ev] = cons_pos'[tmp.ring]
                      /\ start'[tmp.ev] + len'[tmp.ev] <= prod_pos'[tmp.ring]
                      /\ len'[tmp.ev] = tmp.inc /\ tmp.ring \in Rings /\ tmp.ev \in Events
    BY <1>2, <1>7 DEF AtFront, End, kernel
  <2> QED
    BY <1>2, <1>6, <2>1 DEF HeldInv, AtFront, End
<1>12. TmpInv'
  BY <1>2 DEF TmpInv
<1>13. FrontInv'
  <2>1. \A e \in front : st[e] = "committed" /\ home[e] < pos
    BY <1>1, <1>2, RingsType, SMTT(60), Z3T(60) DEF FrontInv, Rings
  <2>2. \A e \in front : ts[tmp.ev] <= ts[e]
    BY <1>1, <1>2, <2>1 DEF FrontInv
  <2>3. st' = st /\ ts' = ts
    BY <1>2 DEF kernel
  <2> QED
    BY <1>2, <2>1, <2>2, <2>3 DEF FrontInv, LowestFront
<1>14. DlvInv'
  <2>0. st' = st /\ home' = home /\ start' = start /\ cons_pos' = cons_pos
    BY <1>2 DEF kernel
  <2> SUFFICES ASSUME NEW q \in Rings
               PROVE  /\ \A i, k \in 1 .. Len(dlv'[q]) : i < k => dlv'[q][i] < dlv'[q][k]
                      /\ \A e \in Events :
                           /\ e \in Range(dlv'[q]) <=> Passed(q, e)' /\ st[e] = "committed"
                           /\ Passed(q, e)' => st[e] \in {"committed", "discarded"}
    BY <2>0 DEF DlvInv
  <2>1. \A e \in Events : Passed(q, e)' <=> home[e] = q /\ (start[e] < cons_pos[q] \/ e = tmp.ev)
    BY <1>2, <2>0 DEF Passed
  <2>2. \A e \in Events : Passed(q, e) <=> home[e] = q /\ start[e] < cons_pos[q]
    BY <1>4, SMTT(60), Z3T(60) DEF Passed, Events
  <2>3. /\ \A i, k \in 1 .. Len(dlv[q]) : i < k => dlv[q][i] < dlv[q][k]
        /\ \A e \in Events :
             /\ e \in Range(dlv[q]) <=> Passed(q, e) /\ st[e] = "committed"
             /\ Passed(q, e) => st[e] \in {"committed", "discarded"}
    BY <1>1 DEF DlvInv
  <2>4. CASE tmp.ev = 0 \/ q # tmp.ring
    <3>1. dlv'[q] = dlv[q]
      BY <1>1, <1>3, <2>4 DEF ReaderType
    <3>2. \A e \in Events : home[e] = q => e # tmp.ev
      BY <1>7, <2>4, SMTT(60), Z3T(60) DEF AtFront, Events
    <3> QED
      BY <2>1, <2>2, <2>3, <3>1, <3>2
  <2>5. CASE tmp.ev # 0 /\ q = tmp.ring
    <3>1. PICK g \in Events : g = tmp.ev
      BY <1>7, <2>5 DEF AtFront
    <3>2. home[g] = q /\ start[g] = cons_pos[q] /\ st[g] = "committed"
      BY <1>7, <2>5, <3>1 DEF AtFront
    <3>3. dlv[q] \in Seq(Events) /\ dlv'[q] = Append(dlv[q], g)
      BY <1>1, <1>3, <2>5, <3>1 DEF ReaderType
    <3>4. \A e \in Events : e \in Range(dlv'[q]) <=> e \in Range(dlv[q]) \/ e = g
      BY <3>3, AppendRange, SMTT(60), Z3T(60)
    <3>5. \A e \in Range(dlv[q]) : e < g
      <4> TAKE e \in Range(dlv[q])
      <4>1. e \in Events
        BY <3>3, SMTT(60), Z3T(60) DEF Range
      <4>2. home[e] = q /\ start[e] < start[g]
        BY <2>2, <2>3, <3>2, <4>1
      <4> QED
        BY <3>2, <4>1, <4>2, Records
    <3>6. \A i, k \in 1 .. Len(dlv'[q]) : i < k => dlv'[q][i] < dlv'[q][k]
      <4> TAKE i, k \in 1 .. Len(dlv'[q])
      <4> HAVE i < k
      <4>1. Len(dlv'[q]) = Len(dlv[q]) + 1 /\ Len(dlv[q]) \in Nat
        BY <3>3, SMTT(60), Z3T(60)
      <4>2. i \in 1 .. Len(dlv[q]) /\ dlv'[q][i] = dlv[q][i]
        BY <3>3, <4>1, SMTT(60), Z3T(60)
      <4>3. CASE k = Len(dlv[q]) + 1
        <5>1. dlv'[q][k] = g
          BY <3>3, <4>3, SMTT(60), Z3T(60)
        <5>2. dlv[q][i] \in Range(dlv[q])
          BY <3>3, <4>2, SMTT(60), Z3T(60) DEF Range
        <5> QED
          BY <3>5, <4>2, <5>1, <5>2
      <4>4. CASE k \in 1 .. Len(dlv[q])
        BY <2>3, <3>3, <4>2, <4>4, SMTT(60), Z3T(60)
      <4> QED
        BY <4>1, <4>3, <4>4, SMTT(60), Z3T(60)
    <3> QED
      BY <2>1, <2>2, <2>3, <3>1, <3>2, <3>4, <3>6
  <2> QED
    BY <2>4, <2>5
<1> QED
  BY <1>8, <1>9, <1>10, <1>11, <1>12, <1>13, <1>14 DEF IInv

(* What the look at ring pos finds: nothing yet, an event, or a record to  *)
(* pass by.                                                                *)
FoundNothing ==
    /\ cons_pos[pos] = prod_pos'[pos] \/ st[First(pos)] = "busy"
    /\ UNCHANGED <<cons_pos, consumer_pos, last_event_size, tmp>>

FoundCommitted ==
    /\ cons_pos[pos] # prod_pos'[pos] /\ st[First(pos)] = "committed"
    /\ UNCHANGED <<cons_pos, consumer_pos>>
    /\ last_event_size' = len[First(pos)]
    /\ tmp' = IF Lower(First(pos))
              THEN [ring |-> pos, ev |-> First(pos), inc |-> len[First(pos)]]
              ELSE tmp

FoundDiscarded ==
    /\ cons_pos[pos] # prod_pos'[pos] /\ st[First(pos)] \notin {"busy", "committed"}
    /\ cons_pos' = [cons_pos EXCEPT ![pos] = AfterDiscarded(pos)]
    /\ consumer_pos' = [consumer_pos EXCEPT ![pos] = cons_pos'[pos]]
    /\ UNCHANGED <<last_event_size, tmp>>

(* What a look at ring pos finds, and what it leaves of the positions. *)
LEMMA ScanMoves ==
  ASSUME IInv, Scan
  PROVE  /\ pos \in Rings /\ prod_pos' \in [Rings -> Nat]
         /\ \A q \in Rings \ {pos} : prod_pos'[q] = prod_pos[q]
         /\ prod_pos[pos] <= prod_pos'[pos] /\ cons_pos[pos] <= prod_pos'[pos]
         /\ prod_pos'[pos] <= producer_pos[pos] /\ Boundary(pos, prod_pos'[pos])
         /\ cons_pos[pos] = prod_pos'[pos] => cons_pos[pos] = producer_pos[pos]
<1>1. KernelType /\ ReaderType /\ PosInv
  BY DEF IInv
<1>2. pos < NRings /\ prod_pos' = [prod_pos EXCEPT ![pos] = Producer(pos)]
  BY DEF Scan
<1>3. pos \in Rings
  BY <1>1, <1>2, RingsType, SMTT(60), Z3T(60) DEF ReaderType, Rings
<1>4. producer_pos[pos] \in Nat /\ prod_pos[pos] \in Nat /\ cons_pos[pos] \in Nat
  BY <1>1, <1>3 DEF KernelType, ReaderType
<1>5. /\ cons_pos[pos] <= prod_pos[pos] /\ prod_pos[pos] <= producer_pos[pos]
      /\ Boundary(pos, prod_pos[pos])
  BY <1>1, <1>3 DEF PosInv
<1>6. Boundary(pos, producer_pos[pos])
  BY <1>3, Records DEF Boundary
<1>7. prod_pos'[pos] = Producer(pos) /\ prod_pos' \in [Rings -> Nat]
  BY <1>1, <1>2, <1>3, <1>4 DEF ReaderType, Producer
<1>8. \A q \in Rings \ {pos} : prod_pos'[q] = prod_pos[q]
  BY <1>1, <1>2 DEF ReaderType
<1>9. CASE cons_pos[pos] = prod_pos[pos]
  <2>1. prod_pos'[pos] = producer_pos[pos]
    BY <1>7, <1>9 DEF Producer
  <2> QED
    BY <1>3, <1>4, <1>5, <1>6, <1>7, <1>8, <2>1, SMTT(60), Z3T(60)
<1>10. CASE cons_pos[pos] # prod_pos[pos]
  <2>1. prod_pos'[pos] = prod_pos[pos]
    BY <1>7, <1>10 DEF Producer
  <2> QED
    BY <1>3, <1>4, <1>5, <1>7, <1>8, <1>10, <2>1, SMTT(60), Z3T(60)
<1> QED
  BY <1>9, <1>10

(* An event that was at the front of ring pos is the one the reader finds. *)
LEMMA ScanFinds ==
  ASSUME IInv, Scan, NEW e \in front, home[e] = pos
  PROVE  e = First(pos) /\ st[e] = "committed" /\ cons_pos[pos] < prod_pos'[pos]
<1>1. KernelType /\ ReaderType /\ FrontInv /\ cpc = "scan"
  BY DEF IInv, Scan
<1>2. pos \in Rings /\ e \in Events /\ prod_pos'[pos] \in Nat
  BY <1>1, ScanMoves DEF ReaderType
<1>3. pos \in Nat /\ producer_pos[pos] \in Nat /\ cons_pos[pos] \in Nat
  BY <1>1, <1>2, RingsType, SMTT(60), Z3T(60) DEF KernelType, ReaderType
<1>4. start[e] = cons_pos[pos] /\ st[e] = "committed"
  BY <1>1, <1>3, SMTT(60), Z3T(60) DEF FrontInv
<1>5. start[e] \in Nat /\ End(e) \in Nat /\ start[e] < End(e) /\ End(e) <= producer_pos[pos]
  BY <1>2, Records
<1>6. cons_pos[pos] < producer_pos[pos]
  BY <1>3, <1>4, <1>5, SMTT(60), Z3T(60)
<1>7. First(pos) \in Events /\ home[First(pos)] = pos /\ start[First(pos)] = cons_pos[pos]
  BY <1>2, <1>6, FirstRecord
<1>8. e = First(pos)
  <2>1. \A f \in Events : home[f] = pos => (start[e] = start[f] => e = f)
    BY <1>2, Records
  <2> QED
    BY <1>4, <1>7, <2>1
<1>9. cons_pos[pos] <= prod_pos'[pos]
      /\ (cons_pos[pos] = prod_pos'[pos] => cons_pos[pos] = producer_pos[pos])
  BY ScanMoves
<1> QED
  BY <1>2, <1>3, <1>4, <1>6, <1>8, <1>9, SMTT(60), Z3T(60)

(* Whatever it finds, a look at a ring keeps what does not depend on it.   *)
LEMMA ScanFrame ==
  ASSUME IInv, Scan
  PROVE  /\ cpc = "scan" /\ cpc' = "scan" /\ held = 0 /\ held' = 0 /\ pos' = pos + 1
         /\ pos' \in 0 .. NRings /\ pos \in Nat
         /\ UNCHANGED <<last_ring_read, dlv, front>> /\ UNCHANGED kernel
         /\ KernelType' /\ CountInv' /\ ProgInv' /\ RecInv' /\ OrderInv' /\ CoverInv' /\ HomeInv'
         /\ HeldInv'
<1>1. /\ cpc = "scan" /\ cpc' = "scan" /\ pos' = pos + 1 /\ pos < NRings
      /\ UNCHANGED <<last_ring_read, held, dlv, front>> /\ UNCHANGED kernel
  BY DEF Scan
<1>2. held = 0 /\ pos \in 0 .. NRings
  BY <1>1 DEF IInv, HeldInv, ReaderType
<1>3. /\ KernelType' /\ CountInv' /\ ProgInv' /\ RecInv' /\ OrderInv' /\ CoverInv' /\ HomeInv'
  BY <1>1, KernelFrame
<1>4. HeldInv'
  BY <1>1, <1>2 DEF HeldInv
<1> QED
  BY <1>1, <1>2, <1>3, <1>4, RingsType, SMTT(60), Z3T(60)

(* The best event so far stays at the front of a ring the reader has left. *)
LEMMA TmpKept ==
  ASSUME IInv, Scan, tmp' = tmp,
         \A q \in Rings \ {pos} : cons_pos'[q] = cons_pos[q]
  PROVE  TmpInv'
<1>1. TmpInv /\ ReaderType
  BY DEF IInv
<1>2. cpc = "scan" /\ pos' = pos + 1 /\ pos \in Nat /\ UNCHANGED kernel
  BY ScanFrame
<1>3. \A q \in Rings \ {pos} : prod_pos'[q] = prod_pos[q]
  BY ScanMoves
<1>4. st' = st /\ home' = home /\ start' = start /\ len' = len
  BY <1>2 DEF kernel
<1>5. CASE tmp.ev = 0
  BY <1>1, <1>2, <1>5 DEF TmpInv
<1>6. CASE tmp.ev # 0
  <2>1. AtFront(tmp.ring, tmp.ev) /\ tmp.inc = len[tmp.ev] /\ tmp.ring < pos
    BY <1>1, <1>2, <1>6 DEF TmpInv
  <2>2. tmp.ring \in Rings \ {pos} /\ tmp.ring \in Int
    BY <2>1, SMTT(60), Z3T(60) DEF AtFront, Rings
  <2>3. cons_pos'[tmp.ring] = cons_pos[tmp.ring] /\ prod_pos'[tmp.ring] = prod_pos[tmp.ring]
    BY <1>3, <2>2
  <2>4. /\ tmp.ring \in Rings /\ tmp.ev \in Events /\ home'[tmp.ev] = tmp.ring
        /\ st'[tmp.ev] = "committed" /\ start'[tmp.ev] = cons_pos'[tmp.ring]
        /\ start'[tmp.ev] + len'[tmp.ev] <= prod_pos'[tmp.ring]
    BY <1>4, <2>1, <2>3 DEF AtFront, End
  <2>5. tmp.ring < pos' /\ tmp.inc = len'[tmp.ev]
    BY <1>2, <1>4, <2>1, <2>2, SMTT(60), Z3T(60)
  <2> QED
    BY <1>6, <2>4, <2>5 DEF TmpInv, AtFront, End
<1> QED
  BY <1>5, <1>6

(* An empty ring, or one whose first record is not committed yet.          *)
LEMMA ScanIdle ==
  ASSUME IInv, Scan, FoundNothing
  PROVE  IInv'
<1>1. ReaderType /\ PosInv /\ TmpInv /\ FrontInv /\ DlvInv /\ DataInv
  BY DEF IInv
<1>2. /\ cpc = "scan" /\ cpc' = "scan" /\ held = 0 /\ held' = 0 /\ pos' = pos + 1
      /\ pos' \in 0 .. NRings /\ pos \in Nat
      /\ UNCHANGED <<last_ring_read, dlv, front>> /\ UNCHANGED kernel
      /\ KernelType' /\ CountInv' /\ ProgInv' /\ RecInv' /\ OrderInv' /\ CoverInv' /\ HomeInv'
      /\ HeldInv'
  BY ScanFrame
<1>3. /\ pos \in Rings /\ prod_pos' \in [Rings -> Nat]
      /\ \A q \in Rings \ {pos} : prod_pos'[q] = prod_pos[q]
      /\ prod_pos[pos] <= prod_pos'[pos] /\ cons_pos[pos] <= prod_pos'[pos]
      /\ prod_pos'[pos] <= producer_pos[pos] /\ Boundary(pos, prod_pos'[pos])
  BY ScanMoves
<1>4. /\ st' = st /\ ts' = ts /\ home' = home /\ start' = start /\ len' = len /\ data' = data
      /\ cons_pos' = cons_pos /\ tmp' = tmp /\ dlv' = dlv /\ front' = front
  BY <1>2 DEF FoundNothing, kernel
<1>5. PosInv'
  <2>1. \A q \in Rings : /\ cons_pos'[q] <= prod_pos'[q] /\ prod_pos'[q] <= producer_pos[q]
                         /\ producer_pos[q] - cons_pos'[q] < Size
                         /\ Boundary(q, cons_pos'[q]) /\ Boundary(q, prod_pos'[q])
    <3> TAKE q \in Rings
    <3>1. CASE q = pos
      BY <1>1, <1>3, <1>4, <3>1 DEF PosInv
    <3>2. CASE q # pos
      BY <1>1, <1>3, <1>4, <3>2 DEF PosInv
    <3> QED
      BY <3>1, <3>2
  <2> QED
    BY <1>2, <2>1, Positions
<1>6. DataInv' /\ DlvInv'
  BY <1>1, <1>2, <1>4 DEF DataInv, DlvInv, Passed
<1>7. ReaderType'
  BY <1>1, <1>2, <1>3, <1>4 DEF FoundNothing, ReaderType
<1>8. TmpInv'
  BY <1>4, TmpKept
<1>9. \A e \in front : home[e] # pos
  <2> SUFFICES ASSUME NEW e \in front, home[e] = pos PROVE FALSE
    OBVIOUS
  <2>1. e = First(pos) /\ st[e] = "committed" /\ cons_pos[pos] < prod_pos'[pos]
    BY ScanFinds
  <2>2. cons_pos[pos] \in Nat /\ prod_pos'[pos] \in Nat
    BY <1>1, <1>3 DEF ReaderType
  <2> QED
    BY <2>1, <2>2, SMTT(60), Z3T(60) DEF FoundNothing
<1>10. FrontInv'
  <2>1. \A e \in front : /\ home[e] \in Rings
                         /\ home[e] >= pos => start[e] = cons_pos[home[e]]
                         /\ home[e] < pos => tmp.ev # 0 /\ ts[tmp.ev] <= ts[e]
                         /\ st[e] = "committed" /\ home[e] # pos
    BY <1>1, <1>2, <1>9 DEF FrontInv
  <2>2. \A q \in Rings : q # pos => (q >= pos + 1 <=> q >= pos) /\ (q < pos + 1 <=> q < pos)
    BY <1>2, SMTT(60), Z3T(60) DEF Rings
  <2> QED
    BY <1>2, <1>4, <2>1, <2>2 DEF FrontInv, LowestFront
<1> QED
  BY <1>2, <1>5, <1>6, <1>7, <1>8, <1>10 DEF IInv

(* What is kept of ring pos and the rings before is as low as their fronts. *)
LEMMA ScanLowers ==
  ASSUME IInv, Scan, FoundCommitted, NEW x \in Events, x = First(pos)
  PROVE  \A e \in front : home[e] < pos + 1 => tmp'.ev # 0 /\ ts[tmp'.ev] <= ts[e]
<1> SUFFICES ASSUME NEW e \in front, home[e] < pos + 1
             PROVE  tmp'.ev # 0 /\ ts[tmp'.ev] <= ts[e]
  OBVIOUS
<1>1. KernelType /\ ReaderType /\ TmpInv /\ FrontInv
  BY DEF IInv
<1>2. cpc = "scan" /\ pos \in Nat
  BY ScanFrame
<1>3. x # 0 /\ e \in Events
  BY <1>1, SMTT(60), Z3T(60) DEF Events, ReaderType
<1>4. tmp.ev # 0 => tmp.ev \in Events
  BY <1>1, <1>2 DEF TmpInv, AtFront
<1>5. ts \in [Events -> 0 .. now] /\ now \in Nat
  BY <1>1 DEF KernelType
<1>6. ts[x] \in Int /\ ts[e] \in Int /\ (tmp.ev # 0 => ts[tmp.ev] \in Int)
  BY <1>3, <1>4, <1>5, SMTT(60), Z3T(60)
<1>7. home[e] \in Rings /\ (home[e] < pos => tmp.ev # 0 /\ ts[tmp.ev] <= ts[e])
  BY <1>1, <1>2 DEF FrontInv
<1>8. home[e] < pos \/ home[e] = pos
  BY <1>2, <1>7, SMTT(60), Z3T(60) DEF Rings
<1>9. home[e] = pos => e = x
  BY ScanFinds
<1>10. CASE Lower(x)
  <2>1. tmp'.ev = x
    BY <1>10 DEF FoundCommitted
  <2>2. CASE home[e] = pos
    BY <1>3, <1>6, <1>9, <2>1, <2>2, SMTT(60), Z3T(60)
  <2>3. CASE home[e] < pos
    <3>1. tmp.ev # 0 /\ ts[tmp.ev] <= ts[e] /\ ts[x] < ts[tmp.ev]
      BY <1>7, <1>10, <2>3 DEF Lower
    <3> QED
      BY <1>3, <1>6, <2>1, <3>1, SMTT(60), Z3T(60)
  <2> QED
    BY <1>8, <2>2, <2>3
<1>11. CASE ~ Lower(x)
  <2>1. tmp' = tmp /\ tmp.ev # 0 /\ ~(ts[x] < ts[tmp.ev])
    BY <1>11 DEF FoundCommitted, Lower
  <2> QED
    BY <1>6, <1>7, <1>8, <1>9, <2>1, SMTT(60), Z3T(60)
<1> QED
  BY <1>10, <1>11

(* A committed event is kept if it is lower than the best one so far.      *)
LEMMA ScanCommitted ==
  ASSUME IInv, Scan, FoundCommitted
  PROVE  IInv'
<1>1. ReaderType /\ PosInv /\ TmpInv /\ FrontInv /\ DlvInv /\ DataInv /\ KernelType
  BY DEF IInv
<1>2. /\ cpc = "scan" /\ cpc' = "scan" /\ held = 0 /\ held' = 0 /\ pos' = pos + 1
      /\ pos' \in 0 .. NRings /\ pos \in Nat
      /\ UNCHANGED <<last_ring_read, dlv, front>> /\ UNCHANGED kernel
      /\ KernelType' /\ CountInv' /\ ProgInv' /\ RecInv' /\ OrderInv' /\ CoverInv' /\ HomeInv'
      /\ HeldInv'
  BY ScanFrame
<1>3. /\ pos \in Rings /\ prod_pos' \in [Rings -> Nat]
      /\ \A q \in Rings \ {pos} : prod_pos'[q] = prod_pos[q]
      /\ prod_pos[pos] <= prod_pos'[pos] /\ cons_pos[pos] <= prod_pos'[pos]
      /\ prod_pos'[pos] <= producer_pos[pos] /\ Boundary(pos, prod_pos'[pos])
  BY ScanMoves
<1>4. /\ st' = st /\ ts' = ts /\ home' = home /\ start' = start /\ len' = len /\ data' = data
      /\ cons_pos' = cons_pos /\ dlv' = dlv /\ front' = front
  BY <1>2 DEF FoundCommitted, kernel
<1>5. PosInv'
  <2>1. \A q \in Rings : /\ cons_pos'[q] <= prod_pos'[q] /\ prod_pos'[q] <= producer_pos[q]
                         /\ producer_pos[q] - cons_pos'[q] < Size
                         /\ Boundary(q, cons_pos'[q]) /\ Boundary(q, prod_pos'[q])
    <3> TAKE q \in Rings
    <3>1. CASE q = pos
      BY <1>1, <1>3, <1>4, <3>1 DEF PosInv
    <3>2. CASE q # pos
      <4>1. cons_pos'[q] = cons_pos[q] /\ prod_pos'[q] = prod_pos[q]
        BY <1>3, <1>4, <3>2
      <4> QED
        BY <1>1, <4>1 DEF PosInv
    <3> QED
      BY <3>1, <3>2
  <2> QED
    BY <1>2, <2>1, Positions
<1>6. DataInv' /\ DlvInv'
  BY <1>1, <1>2, <1>4 DEF DataInv, DlvInv, Passed
<1>7. cons_pos[pos] \in Nat /\ prod_pos'[pos] \in Nat /\ producer_pos[pos] \in Nat
  BY <1>1, <1>3 DEF KernelType, ReaderType
<1>8. cons_pos[pos] < prod_pos'[pos] /\ cons_pos[pos] < producer_pos[pos]
  <2>1. /\ cons_pos[pos] # prod_pos'[pos] /\ cons_pos[pos] <= prod_pos'[pos]
        /\ prod_pos'[pos] <= producer_pos[pos]
    BY <1>3 DEF FoundCommitted
  <2> QED
    BY <1>7, <2>1, SMTT(60), Z3T(60)
<1>9. PICK x \in Events : x = First(pos)
  BY <1>3, <1>8, FirstRecord
<1>10. home[x] = pos /\ start[x] = cons_pos[pos] /\ len[x] \in Nat /\ End(x) <= prod_pos'[pos]
  BY <1>3, <1>7, <1>8, <1>9, FirstRecord
<1>11. st[x] = "committed" /\ last_event_size' = len[x]
       /\ tmp' = IF Lower(x) THEN [ring |-> pos, ev |-> x, inc |-> len[x]] ELSE tmp
  BY <1>9 DEF FoundCommitted
<1>12. x \in 0 .. MaxEvents /\ x # 0
  BY SMTT(60), Z3T(60) DEF Events
<1>13. tmp' \in [ring : Rings \cup {None}, ev : 0 .. MaxEvents, inc : Nat]
  <2>1. CASE Lower(x)
    <3>1. tmp' = [ring |-> pos, ev |-> x, inc |-> len[x]]
      BY <1>11, <2>1
    <3> QED
      BY <1>3, <1>10, <1>12, <3>1
  <2>2. CASE ~ Lower(x)
    BY <1>1, <1>11, <2>2 DEF ReaderType
  <2> QED
    BY <2>1, <2>2
<1>14. ReaderType'
  <2>1. /\ consumer_pos' = cons_pos' /\ cons_pos' \in [Rings -> Nat]
        /\ last_ring_read' \in Rings \cup {None} /\ dlv' \in [Rings -> Seq(Events)]
        /\ front' \subseteq Events
    BY <1>1, <1>2, <1>4 DEF FoundCommitted, ReaderType
  <2>2. last_event_size' \in Nat /\ held' \in 0 .. MaxEvents /\ cpc' \in {"push", "scan"}
    BY <1>1, <1>2, <1>10, <1>11 DEF ReaderType
  <2> QED
    BY <1>2, <1>3, <1>13, <2>1, <2>2 DEF ReaderType
<1>15. TmpInv'
  <2>1. CASE Lower(x)
    <3>1. tmp'.ring = pos /\ tmp'.ev = x /\ tmp'.inc = len[x]
      <4>1. tmp' = [ring |-> pos, ev |-> x, inc |-> len[x]]
        BY <1>11, <2>1
      <4> QED
        BY <4>1
    <3>2. /\ home'[x] = pos /\ st'[x] = "committed" /\ start'[x] = cons_pos'[pos]
          /\ start'[x] + len'[x] <= prod_pos'[pos] /\ len'[x] = len[x] /\ pos < pos'
      <4>1. pos < pos'
        BY <1>2, SMTT(60), Z3T(60)
      <4> QED
        BY <1>4, <1>10, <1>11, <4>1 DEF End
    <3> QED
      BY <1>3, <1>12, <3>1, <3>2 DEF TmpInv, AtFront, End
  <2>2. CASE ~ Lower(x)
    <3>1. tmp' = tmp /\ \A q \in Rings \ {pos} : cons_pos'[q] = cons_pos[q]
      BY <1>4, <1>11, <2>2
    <3> QED
      BY <3>1, TmpKept
  <2> QED
    BY <2>1, <2>2
<1>16. \A e \in front : home[e] < pos + 1 => tmp'.ev # 0 /\ ts[tmp'.ev] <= ts[e]
  BY <1>9, ScanLowers
<1>17. FrontInv'
  <2>1. \A e \in front : /\ home[e] \in Rings /\ st[e] = "committed"
                         /\ home[e] >= pos => start[e] = cons_pos[home[e]]
    BY <1>1, <1>2 DEF FrontInv
  <2>2. \A q \in Rings : q >= pos + 1 => q >= pos
    BY <1>2, SMTT(60), Z3T(60) DEF Rings
  <2> QED
    BY <1>2, <1>4, <1>16, <2>1, <2>2 DEF FrontInv, LowestFront
<1> QED
  BY <1>2, <1>5, <1>6, <1>14, <1>15, <1>17 DEF IInv

(* A discarded record is passed by at once. *)
LEMMA ScanDiscarded ==
  ASSUME IInv, Scan, FoundDiscarded
  PROVE  IInv'
<1>1. ReaderType /\ PosInv /\ TmpInv /\ FrontInv /\ DlvInv /\ DataInv /\ KernelType
  BY DEF IInv
<1>2. /\ cpc = "scan" /\ cpc' = "scan" /\ held = 0 /\ held' = 0 /\ pos' = pos + 1
      /\ pos' \in 0 .. NRings /\ pos \in Nat
      /\ UNCHANGED <<last_ring_read, dlv, front>> /\ UNCHANGED kernel
      /\ KernelType' /\ CountInv' /\ ProgInv' /\ RecInv' /\ OrderInv' /\ CoverInv' /\ HomeInv'
      /\ HeldInv'
  BY ScanFrame
<1>3. /\ pos \in Rings /\ prod_pos' \in [Rings -> Nat]
      /\ \A q \in Rings \ {pos} : prod_pos'[q] = prod_pos[q]
      /\ prod_pos[pos] <= prod_pos'[pos] /\ cons_pos[pos] <= prod_pos'[pos]
      /\ prod_pos'[pos] <= producer_pos[pos] /\ Boundary(pos, prod_pos'[pos])
  BY ScanMoves
<1>4. /\ st' = st /\ ts' = ts /\ home' = home /\ start' = start
      /\ tmp' = tmp /\ dlv' = dlv /\ front' = front
  BY <1>2 DEF FoundDiscarded, kernel
<1>5. cons_pos[pos] \in Nat /\ prod_pos'[pos] \in Nat /\ producer_pos[pos] \in Nat
  BY <1>1, <1>3 DEF KernelType, ReaderType
<1>6. cons_pos[pos] < prod_pos'[pos] /\ cons_pos[pos] < producer_pos[pos]
  <2>1. /\ cons_pos[pos] # prod_pos'[pos] /\ cons_pos[pos] <= prod_pos'[pos]
        /\ prod_pos'[pos] <= producer_pos[pos]
    BY <1>3 DEF FoundDiscarded
  <2> QED
    BY <1>5, <2>1, SMTT(60), Z3T(60)
<1>7. PICK x \in Events : x = First(pos)
  BY <1>3, <1>6, FirstRecord
<1>8. /\ home[x] = pos /\ start[x] = cons_pos[pos] /\ End(x) <= prod_pos'[pos]
      /\ End(x) = cons_pos[pos] + len[x] /\ st[x] \in {"busy", "committed", "discarded"}
  BY <1>3, <1>5, <1>6, <1>7, FirstRecord
<1>9. st[x] = "discarded" /\ cons_pos' = [cons_pos EXCEPT ![pos] = End(x)]
  BY <1>7, <1>8 DEF FoundDiscarded, AfterDiscarded
<1>10. /\ DataInv'
       /\ cons_pos' \in [Rings -> Nat] /\ cons_pos'[pos] = End(x) /\ cons_pos[pos] < End(x)
       /\ \A q \in Rings \ {pos} : cons_pos'[q] = cons_pos[q]
       /\ \A q \in Rings : producer_pos[q] - cons_pos'[q] < Size /\ Boundary(q, cons_pos'[q])
       /\ \A f \in Events : home[f] = pos =>
             (start[f] < End(x) <=> start[f] < cons_pos[pos] \/ f = x)
  <2>1. /\ pos \in Rings /\ home[x] = pos /\ start[x] = cons_pos[pos] /\ UNCHANGED kernel
        /\ cons_pos' = [cons_pos EXCEPT ![pos] = End(x)]
    BY <1>2, <1>3, <1>8, <1>9
  <2> QED
    BY <2>1, Advance
<1>11. PosInv'
  <2>1. \A q \in Rings : /\ cons_pos'[q] <= prod_pos'[q] /\ prod_pos'[q] <= producer_pos[q]
                         /\ producer_pos[q] - cons_pos'[q] < Size
                         /\ Boundary(q, cons_pos'[q]) /\ Boundary(q, prod_pos'[q])
    <3> TAKE q \in Rings
    <3>1. CASE q = pos
      BY <1>3, <1>8, <1>10, <3>1
    <3>2. CASE q # pos
      <4>1. cons_pos'[q] = cons_pos[q] /\ prod_pos'[q] = prod_pos[q]
        BY <1>3, <1>10, <3>2
      <4> QED
        BY <1>1, <4>1 DEF PosInv
    <3> QED
      BY <3>1, <3>2
  <2> QED
    BY <1>2, <2>1, Positions
<1>12. ReaderType'
  <2>1. consumer_pos' = cons_pos'
    BY <1>1, <1>9, <1>10 DEF FoundDiscarded, ReaderType
  <2>2. /\ last_ring_read' \in Rings \cup {None} /\ last_event_size' \in Nat
        /\ tmp' \in [ring : Rings \cup {None}, ev : 0 .. MaxEvents, inc : Nat]
        /\ held' \in 0 .. MaxEvents /\ dlv' \in [Rings -> Seq(Events)]
        /\ front' \subseteq Events
    BY <1>1, <1>2, <1>4 DEF FoundDiscarded, ReaderType
  <2> QED
    BY <1>2, <1>3, <1>10, <2>1, <2>2 DEF ReaderType
<1>13. TmpInv'
  BY <1>4, <1>10, TmpKept
<1>14. \A e \in front : home[e] # pos
  BY <1>7, <1>9, ScanFinds
<1>15. FrontInv'
  <2>1. \A e \in front : /\ home[e] \in Rings
                         /\ home[e] >= pos => start[e] = cons_pos[home[e]]
                         /\ home[e] < pos => tmp.ev # 0 /\ ts[tmp.ev] <= ts[e]
                         /\ st[e] = "committed" /\ home[e] # pos
    BY <1>1, <1>2, <1>14 DEF FrontInv
  <2>2. \A q \in Rings : q # pos => (q >= pos + 1 <=> q >= pos) /\ (q < pos + 1 <=> q < pos)
    BY <1>2, SMTT(60), Z3T(60) DEF Rings
  <2>3. \A e \in front : cons_pos'[home[e]] = cons_pos[home[e]]
    BY <1>10, <2>1
  <2> QED
    BY <1>2, <1>4, <2>1, <2>2, <2>3 DEF FrontInv, LowestFront
<1>16. DlvInv'
  <2>1. ASSUME NEW r \in Rings, NEW e \in Events
        PROVE  Passed(r, e)' <=> Passed(r, e) \/ (r = pos /\ e = x)
    <3>1. e # 0
      BY SMTT(60), Z3T(60) DEF Events
    <3>2. CASE r = pos
      BY <1>2, <1>4, <1>8, <1>10, <3>1, <3>2 DEF Passed
    <3>3. CASE r # pos
      BY <1>2, <1>4, <1>10, <3>1, <3>3 DEF Passed
    <3> QED
      BY <3>2, <3>3
  <2> QED
    BY <1>1, <1>4, <1>9, <2>1 DEF DlvInv
<1> QED
  BY <1>2, <1>10, <1>11, <1>12, <1>13, <1>15, <1>16 DEF IInv

(* A look at one ring. *)
LEMMA ScanInv ==
  ASSUME IInv, Scan
  PROVE  IInv'
<1>1. FoundNothing \/ FoundCommitted \/ FoundDiscarded
  BY DEF Scan, FoundNothing, FoundCommitted, FoundDiscarded
<1> QED
  BY <1>1, ScanIdle, ScanCommitted, ScanDiscarded

-----------------------------------------------------------------------------

(* Every step keeps the invariant. *)
LEMMA NextInv == IInv /\ [Next]_vars => IInv'
<1> SUFFICES ASSUME IInv, [Next]_vars PROVE IInv'
  OBVIOUS
<1>1. ASSUME NEW c \in Cpus, Program(c) PROVE IInv'
  <2>1. CASE Stamp(c)
    BY <2>1, StampInv
  <2>2. CASE Reserve(c)
    BY <2>2, ReserveInv
  <2>3. CASE NoSpace(c) \/ TooLong(c)
    BY <2>3, DropInv
  <2>4. CASE Submit(c)
    BY <2>4, SubmitInv
  <2> QED
    BY <1>1, <2>1, <2>2, <2>3, <2>4 DEF Program
<1>2. CASE Push
  BY <1>2, PushInv
<1>3. CASE Scan
  BY <1>3, ScanInv
<1>4. CASE Return
  BY <1>4, ReturnInv
<1>5. CASE UNCHANGED vars
  <2>1. UNCHANGED kernel /\ UNCHANGED reader
    BY <1>5 DEF vars
  <2>2. KernelType' /\ CountInv' /\ ProgInv' /\ RecInv' /\ OrderInv' /\ CoverInv' /\ HomeInv'
    BY <2>1, KernelFrame
  <2>3. ReaderType'
    BY <2>1 DEF IInv, ReaderType, reader
  <2>4. PosInv' /\ DataInv'
    BY <2>1 DEF IInv, PosInv, DataInv, Boundary, End, kernel, reader
  <2>5. HeldInv' /\ TmpInv'
    BY <2>1 DEF IInv, HeldInv, TmpInv, AtFront, End, kernel, reader
  <2>6. FrontInv' /\ DlvInv'
    BY <2>1 DEF IInv, FrontInv, LowestFront, DlvInv, Passed, kernel, reader
  <2> QED
    BY <2>2, <2>3, <2>4, <2>5, <2>6 DEF IInv
<1> QED
  BY <1>1, <1>2, <1>3, <1>4, <1>5 DEF Next, ConsumeFirstEvent

(* The invariant holds in every reachable state. *)
THEOREM Invariance == Spec => []IInv
BY InitInv, NextInv, PTL DEF Spec

(* Types are kept, and the reader never passes the programs nor they it,   *)
(* whatever the sizes of rings and records (the position arithmetic of     *)
(* ringbuf__get_first_ring_event and bpf_ringbuf_reserve).                 *)
THEOREM PositionsOrdered == Spec => []TypeOK
<1>1. IInv => TypeOK
  <2> SUFFICES ASSUME IInv PROVE TypeOK
    OBVIOUS
  <2>1. KernelType /\ ReaderType /\ PosInv
    BY DEF IInv
  <2>2. ASSUME NEW r \in Rings
        PROVE  /\ data[r] \in [0 .. Size - 1 -> [ev : 0 .. MaxEvents, off : 0 .. Size - 1]]
               /\ consumer_pos[r] \in Nat /\ cons_pos[r] \in Nat
               /\ cons_pos[r] <= prod_pos[r] /\ prod_pos[r] <= producer_pos[r]
               /\ producer_pos[r] - consumer_pos[r] < Size
    BY <2>1 DEF KernelType, ReaderType, PosInv
  <2>3. /\ st \in [Events -> {"none", "busy", "committed", "discarded"}]
        /\ len \in [Events -> {0} \cup Lens] /\ ts \in [Events -> 0 .. now]
        /\ now \in Nat /\ nres \in 0 .. MaxEvents
        /\ pc \in [Cpus -> {"idle", "aux", "reserved"}]
        /\ ev \in [Cpus -> 0 .. MaxEvents] /\ stamp \in [Cpus -> 0 .. now]
    BY <2>1 DEF KernelType
  <2>4. last_ring_read \in Rings \cup {None} /\ held \in 0 .. MaxEvents
    BY <2>1 DEF ReaderType
  <2> QED
    BY <2>2, <2>3, <2>4 DEF TypeOK
<1> QED
  BY <1>1, Invariance, PTL

(* The record of the event handed out is intact until the next call of     *)
(* pman_consume_first_event, which is when its space is given back.        *)
THEOREM HandedOutIntact == Spec => []HeldIntact
<1>1. IInv => HeldIntact
  <2> SUFFICES ASSUME IInv, held # 0
               PROVE  /\ st[held] = "committed"
                      /\ \A k \in 0 .. len[held] - 1 :
                            data[last_ring_read][Cell(cons_pos[last_ring_read] + k)]
                               = [ev |-> held, off |-> k]
    BY DEF HeldIntact
  <2>1. ReaderType /\ HeldInv /\ DataInv /\ None \notin Rings
    BY SMTT(60), Z3T(60) DEF IInv, None, Rings
  <2>2. AtFront(last_ring_read, held)
    BY <2>1 DEF HeldInv, ReaderType
  <2>3. /\ last_ring_read \in Rings /\ held \in Events /\ home[held] = last_ring_read
        /\ st[held] = "committed" /\ start[held] = cons_pos[last_ring_read]
        /\ cons_pos[last_ring_read] \in Nat
    BY <2>1, <2>2 DEF AtFront, ReaderType
  <2>4. ASSUME NEW k \in 0 .. len[held] - 1
        PROVE  data[last_ring_read][Cell(cons_pos[last_ring_read] + k)]
                  = [ev |-> held, off |-> k]
    <3>1. k >= 0 /\ k \in Int
      BY SMTT(60), Z3T(60)
    <3>2. start[held] + k >= cons_pos[home[held]] /\ home[held] # None
      BY <2>1, <2>3, <3>1, SMTT(60), Z3T(60)
    <3>3. data[home[held]][Cell(start[held] + k)] = [ev |-> held, off |-> k]
      BY <2>1, <2>3, <3>2 DEF DataInv
    <3> QED
      BY <2>3, <3>3
  <2> QED
    BY <2>3, <2>4
<1> QED
  BY <1>1, Invariance, PTL

(* Every ring is read in the order its records were reserved: no committed *)
(* event is missed or delivered twice, and no discarded one is delivered.  *)
THEOREM ReadInOrder == Spec => []InOrder
<1>1. IInv => InOrder
  <2> SUFFICES ASSUME IInv, NEW r \in Rings
               PROVE  /\ \A i, k \in 1 .. Len(dlv[r]) : i < k => dlv[r][i] < dlv[r][k]
                      /\ \A e \in Range(dlv[r]) :
                            /\ home[e] = r /\ st[e] = "committed"
                            /\ \A f \in 1 .. e - 1 :
                                  home[f] = r => f \in Range(dlv[r]) \/ st[f] = "discarded"
    BY DEF InOrder
  <2>1. /\ \A i, k \in 1 .. Len(dlv[r]) : i < k => dlv[r][i] < dlv[r][k]
        /\ \A e \in Events :
              /\ e \in Range(dlv[r]) <=> Passed(r, e) /\ st[e] = "committed"
              /\ Passed(r, e) => st[e] \in {"committed", "discarded"}
    BY DEF IInv, DlvInv
  <2>2. ASSUME NEW e \in Range(dlv[r])
        PROVE  e \in Events /\ Passed(r, e) /\ home[e] = r /\ st[e] = "committed"
    <3>1. dlv[r] \in Seq(Events)
      BY DEF IInv, ReaderType
    <3>2. e \in Events
      BY <3>1, SMTT(60), Z3T(60) DEF Range
    <3> QED
      BY <2>1, <3>2 DEF Passed
  <2>3. ASSUME NEW e \in Range(dlv[r]), NEW f \in 1 .. e - 1, home[f] = r
        PROVE  f \in Range(dlv[r]) \/ st[f] = "discarded"
    <3>1. e \in Events /\ Passed(r, e) /\ home[e] = r
      BY <2>2
    <3>2. f \in Events /\ f < e
      BY <3>1, ModernAssumption, SMTT(60), Z3T(60) DEF Events
    <3>3. start[f] < start[e]
      BY <2>3, <3>1, <3>2, Records
    <3>4. start[e] <= cons_pos[r]
      <4>1. CASE start[e] < cons_pos[r]
        <5>1. cons_pos[r] \in Nat
          BY DEF IInv, ReaderType
        <5>2. start[e] \in Nat
          BY <3>1, Records
        <5> QED
          BY <4>1, <5>1, <5>2, SMTT(60), Z3T(60)
      <4>2. CASE e = held
        <5>1. held # 0 /\ AtFront(last_ring_read, held)
          BY <3>1, <4>2, SMTT(60), Z3T(60) DEF IInv, HeldInv, ReaderType, Events
        <5>2. start[e] = cons_pos[r] /\ cons_pos[r] \in Nat
          BY <3>1, <4>2, <5>1 DEF AtFront, IInv, ReaderType
        <5> QED
          BY <5>2, SMTT(60), Z3T(60)
      <4> QED
        BY <3>1, <4>1, <4>2 DEF Passed
    <3>5. start[f] \in Nat /\ start[e] \in Nat /\ cons_pos[r] \in Nat
      BY <2>3, <3>1, <3>2, Records DEF IInv, ReaderType
    <3>6. Passed(r, f)
      BY <2>3, <3>3, <3>4, <3>5, SMTT(60), Z3T(60) DEF Passed
    <3> QED
      BY <2>1, <3>2, <3>6
  <2> QED
    BY <2>1, <2>2, <2>3
<1> QED
  BY <1>1, Invariance, PTL

(* Every event counted in n_evts has a record or is counted as dropped.    *)
THEOREM EventsAccounted == Spec => []Accounting
<1>1. IInv => Accounting
  BY DEF IInv, CountInv
<1> QED
  BY <1>1, Invariance, PTL

(* The event handed out has the lowest timestamp of those that were the    *)
(* first committed ones of their rings when the call began.                *)
THEOREM LowestOfFronts == Spec => []LowestFront
<1>1. IInv => LowestFront
  BY DEF IInv, FrontInv
<1> QED
  BY <1>1, Invariance, PTL

=============================================================================
