------------------------ MODULE PpmConsumers_proofs ------------------------
(***************************************************************************)
(* The list of consumers and the tracepoint references of PpmConsumers are *)
(* consistent for any number of tasks, CPUs, tracepoints and consumers.    *)
(***************************************************************************)
EXTENDS PpmConsumers, FiniteSetTheorems, TLAPS

(* The prover of the steps that name none; arithmetic is left to SMT.     *)
USE ZenonT(40)

(* Only the consumer being removed may be out of the list and still        *)
(* allocated, and it has no device open and no reference of its own.       *)
RemovalInv ==
    /\ linked \subseteq alloc
    /\ alloc \ linked \subseteq {gone}
    /\ gone = NoTask => phase = "none"
    /\ phase = "none" => gone = NoTask
    /\ phase = "unregister" => gone \in linked
    /\ phase = "grace" => gone \in alloc \ linked
    /\ gone # NoTask => open[gone] = {} /\ tps[gone] = {}

(* Nobody references a tracepoint in the name of the consumer that leaves, *)
(* unless another one has the same id.                                     *)
RefsInv == \A p \in Tps : \A i \in refs[p] : \E t \in linked \ {gone} : id[t] = i

(* A probe on a consumer that has left the list is one the removal waits   *)
(* for.                                                                    *)
ProbeInv ==
    \A c \in Cpus : cur[c] # NoTask =>
       /\ c \in probing
       /\ cur[c] \in alloc
       /\ cur[c] \in linked \/ c \in wait

(* Without a clash, an id names one consumer.                              *)
IdsInv == ~ clash => \A t, u \in linked : id[t] = id[u] => t = u

PInv ==
    /\ TypeOK
    /\ RemovalInv
    /\ FileHasConsumer
    /\ AttachedWhileReferenced
    /\ RefsInv
    /\ ProbeInv
    /\ IdsInv
    /\ RefsAreExact

-----------------------------------------------------------------------------

(* The id of a new consumer is a bit below max_consumers.                  *)
LEMMA NewIdType ==
    ASSUME linked \subseteq Tasks, RoomForConsumer
    PROVE  NewId \in 0 .. MaxConsumers /\ NewId < MaxConsumers
  <1>1. IsFiniteSet(linked)
    BY ConsumersAssumption, FS_Subset
  <1>2. Cardinality(linked) \in Nat
    BY <1>1, FS_CardinalityType
  <1> QED BY <1>2, ConsumersAssumption, SMTT(60), Z3T(60) DEF NewId, RoomForConsumer

(* force_tp_set keeps "attached while referenced", for any id, any set of  *)
(* wanted tracepoints and any number of them processed.                    *)
LEMMA ForceTpSetKeeps ==
    ASSUME refs \in [Tps -> SUBSET (0 .. MaxConsumers)], attached \subseteq Tps,
           AttachedWhileReferenced, NEW i \in 0 .. MaxConsumers, NEW want,
           NEW n, ForceTpSet(i, want, n)
    PROVE  /\ refs' \in [Tps -> SUBSET (0 .. MaxConsumers)]
           /\ attached' \subseteq Tps
           /\ AttachedWhileReferenced'
  <1>1. \A p \in Tps : NextRefs(p, i, p \in want) \in SUBSET (0 .. MaxConsumers)
    BY DEF NextRefs
  <1>2. refs' \in [Tps -> SUBSET (0 .. MaxConsumers)]
    BY <1>1 DEF ForceTpSet
  <1>3. \A p \in Tps : p \in attached' <=> refs'[p] # {}
    <2> SUFFICES ASSUME NEW p \in Tps PROVE p \in attached' <=> refs'[p] # {}
      OBVIOUS
    <2>1. p \in attached <=> refs[p] # {}
      BY DEF AttachedWhileReferenced
    <2>2. CASE p < n
      <3>1. /\ refs'[p] = NextRefs(p, i, p \in want)
            /\ p \in attached' <=> StaysAttached(p, i, p \in want)
        BY <2>2 DEF ForceTpSet
      <3> QED BY <3>1, <2>1 DEF NextRefs, StaysAttached
    <2>3. CASE ~ (p < n)
      BY <2>1, <2>3 DEF ForceTpSet
    <2> QED BY <2>2, <2>3
  <1>4. attached' \subseteq Tps
    BY DEF ForceTpSet
  <1> QED BY <1>2, <1>3, <1>4 DEF AttachedWhileReferenced

(* The references that force_tp_set leaves are old ones or the caller's,   *)
(* and the caller has none if it wants nothing.                            *)
LEMMA ForceTpSetRefs ==
    ASSUME NEW i, NEW want, NEW n, ForceTpSet(i, want, n)
    PROVE  /\ \A p \in Tps : refs'[p] \subseteq refs[p] \cup {i}
           /\ \A p \in Tps : p < n => refs'[p] = IF p \in want THEN refs[p] \cup {i}
                                                              ELSE refs[p] \ {i}
           /\ \A p \in Tps : ~ (p < n) => refs'[p] = refs[p]
  BY DEF ForceTpSet, NextRefs

(* The invariant holds when the module is loaded.                          *)
LEMMA InitPInv == Init => PInv
  <1> SUFFICES ASSUME Init PROVE PInv
    OBVIOUS
  <1> USE ConsumersAssumption DEF Init
  <1>1. TypeOK
    <2>1. ConsumerType /\ TpType
      BY SMTT(60), Z3T(60) DEF ConsumerType, TpType
    <2>2. RemovalType /\ ProbeType
      BY DEF RemovalType, ProbeType
    <2>3. clash \in BOOLEAN
      OBVIOUS
    <2> QED BY <2>1, <2>2, <2>3 DEF TypeOK
  <1>2. RemovalInv /\ FileHasConsumer /\ AttachedWhileReferenced
    BY DEF RemovalInv, FileHasConsumer, AttachedWhileReferenced
  <1>3. RefsInv /\ ProbeInv /\ IdsInv /\ RefsAreExact
    BY DEF RefsInv, ProbeInv, IdsInv, RefsAreExact
  <1> QED BY <1>1, <1>2, <1>3 DEF PInv

-----------------------------------------------------------------------------
(* ppm_open *)

(* A new consumer joins the list with an id below max_consumers and no     *)
(* tracepoint.                                                             *)
LEMMA OpenNewInv ==
    ASSUME PInv, NEW t \in Tasks, NEW c \in Cpus, OpenNew(t, c)
    PROVE  PInv'
  <1>1. /\ ConsumerType /\ TpType /\ RemovalType /\ ProbeType /\ RemovalInv
        /\ FileHasConsumer /\ AttachedWhileReferenced /\ RefsInv /\ ProbeInv
        /\ IdsInv /\ RefsAreExact
    BY DEF PInv, TypeOK
  <1>2. /\ gone = NoTask /\ t \notin linked /\ RoomForConsumer
        /\ alloc' = alloc \cup {t} /\ linked' = linked \cup {t}
        /\ id' = [id EXCEPT ![t] = NewId] /\ tps' = [tps EXCEPT ![t] = {}]
        /\ UNCHANGED <<attached, refs>> /\ UNCHANGED removal /\ UNCHANGED probes
    BY DEF OpenNew, Unlocked
  <1>3. PICK on \in SUBSET Cpus :
           /\ rings' = [rings EXCEPT ![t] = on]
           /\ open' = [open EXCEPT ![t] = IF c \in on THEN {c} ELSE {}]
    BY DEF OpenNew
  <1>4. clash' = (clash \/ \E u \in linked : id[u] = NewId)
    BY DEF OpenNew
  <1>5. NewId \in 0 .. MaxConsumers /\ NewId < MaxConsumers
    BY <1>1, <1>2, NewIdType DEF ConsumerType
  <1>6. id'[t] = NewId /\ \A u \in Tasks : u # t => id'[u] = id[u]
    BY <1>1, <1>2 DEF ConsumerType
  <1>7. alloc = linked
    BY <1>1, <1>2, ConsumersAssumption DEF RemovalInv, ConsumerType
  <1>8. UNCHANGED <<gone, phase, wait, cur, seen, probing>>
    BY <1>2 DEF removal, probes
  <1>9. TypeOK'
    <2>1. ConsumerType'
      <3>1. id' \in [Tasks -> 0 .. MaxConsumers]
        BY <1>1, <1>2, <1>5 DEF ConsumerType
      <3>2. rings' \in [Tasks -> SUBSET Cpus] /\ open' \in [Tasks -> SUBSET Cpus]
        BY <1>1, <1>3 DEF ConsumerType
      <3>3. \A u \in alloc' : id'[u] < MaxConsumers
        BY <1>1, <1>2, <1>5, <1>6 DEF ConsumerType
      <3> QED BY <1>1, <1>2, <3>1, <3>2, <3>3 DEF ConsumerType
    <2>2. TpType'
      BY <1>1, <1>2 DEF TpType
    <2>3. RemovalType' /\ ProbeType'
      BY <1>1, <1>8 DEF RemovalType, ProbeType
    <2>4. clash' \in BOOLEAN
      BY <1>4
    <2> QED BY <2>1, <2>2, <2>3, <2>4 DEF TypeOK
  <1>10. RemovalInv'
    BY <1>1, <1>2, <1>7, <1>8 DEF RemovalInv
  <1>11. FileHasConsumer'
    BY <1>1, <1>2, <1>3 DEF FileHasConsumer, ConsumerType
  <1>12. AttachedWhileReferenced'
    BY <1>1, <1>2 DEF AttachedWhileReferenced
  <1>13. RefsInv'
    <2> SUFFICES ASSUME NEW p \in Tps, NEW i \in refs[p]
                 PROVE  \E u \in linked' \ {gone'} : id'[u] = i
      BY <1>2 DEF RefsInv
    <2>1. PICK u \in linked \ {gone} : id[u] = i
      BY <1>1 DEF RefsInv
    <2>2. u # t /\ u \in Tasks
      BY <1>1, <1>2 DEF ConsumerType
    <2> QED BY <2>1, <2>2, <1>2, <1>6, <1>8
  <1>14. ProbeInv'
    BY <1>1, <1>2, <1>8 DEF ProbeInv
  <1>15. IdsInv'
    <2> SUFFICES ASSUME ~ clash', NEW u \in linked', NEW v \in linked', id'[u] = id'[v]
                 PROVE  u = v
      BY DEF IdsInv
    <2>1. ~ clash /\ \A w \in linked : id[w] # NewId
      BY <1>4
    <2>2. \A w \in linked : w \in Tasks /\ w # t
      BY <1>1, <1>2 DEF ConsumerType
    <2>3. \A w, x \in linked : id[w] = id[x] => w = x
      BY <1>1, <2>1 DEF IdsInv
    <2> QED BY <2>1, <2>2, <2>3, <1>2, <1>6
  <1>16. RefsAreExact'
    <2> SUFFICES ASSUME ~ clash', NEW p \in Tps \ Failing
                 PROVE  refs'[p] = {id'[u] : u \in {w \in linked' : p \in tps'[w]}}
      BY DEF RefsAreExact
    <2>1. refs[p] = {id[u] : u \in {w \in linked : p \in tps[w]}}
      BY <1>1, <1>4 DEF RefsAreExact
    <2>2. \A w \in linked : w \in Tasks /\ w # t
      BY <1>1, <1>2 DEF ConsumerType
    <2>3. tps'[t] = {} /\ \A w \in linked : tps'[w] = tps[w]
      BY <1>1, <1>2, <2>2 DEF TpType
    <2>4. {w \in linked' : p \in tps'[w]} = {w \in linked : p \in tps[w]}
      BY <1>2, <2>3
    <2>5. \A w \in linked : id'[w] = id[w]
      BY <1>6, <2>2
    <2> QED BY <1>2, <2>1, <2>4, <2>5, SMTT(60), Z3T(60)
  <1> QED BY <1>9, <1>10, <1>11, <1>12, <1>13, <1>14, <1>15, <1>16 DEF PInv

(* A consumer that could not be completed takes back references in the     *)
(* name of the id it would have had; if nobody has that id, nothing is     *)
(* lost.                                                                   *)
LEMMA OpenNoMemoryInv ==
    ASSUME PInv, NEW t \in Tasks, OpenNoMemory(t)
    PROVE  PInv'
  <1>1. /\ ConsumerType /\ TpType /\ RemovalType /\ ProbeType /\ RemovalInv
        /\ FileHasConsumer /\ AttachedWhileReferenced /\ RefsInv /\ ProbeInv
        /\ IdsInv /\ RefsAreExact /\ clash \in BOOLEAN
    BY DEF PInv, TypeOK
  <1>2. /\ gone = NoTask /\ RoomForConsumer
        /\ ForceTpSet(NewId, {}, NTps)
        /\ UNCHANGED <<alloc, linked, id, tps, rings, open>>
        /\ UNCHANGED removal /\ UNCHANGED probes
    BY DEF OpenNoMemory, Unlocked
  <1>3. clash' = (clash \/ \E u \in linked : id[u] = NewId)
    BY DEF OpenNoMemory
  <1>4. NewId \in 0 .. MaxConsumers
    BY <1>1, <1>2, NewIdType DEF ConsumerType
  <1>5. UNCHANGED <<gone, phase, wait, cur, seen, probing>>
    BY <1>2 DEF removal, probes
  <1>6. /\ refs' \in [Tps -> SUBSET (0 .. MaxConsumers)] /\ attached' \subseteq Tps
        /\ AttachedWhileReferenced'
    BY <1>1, <1>2, <1>4, ForceTpSetKeeps DEF TpType
  <1>7. \A p \in Tps : refs'[p] = refs[p] \ {NewId}
    <2>1. \A p \in Tps : p < NTps
      BY ConsumersAssumption, SMTT(60), Z3T(60) DEF Tps
    <2> QED BY <2>1, <1>2 DEF ForceTpSet, NextRefs
  <1>8. TypeOK'
    <2>1. ConsumerType' /\ RemovalType' /\ ProbeType'
      BY <1>1, <1>2, <1>5 DEF ConsumerType, RemovalType, ProbeType
    <2>2. TpType'
      BY <1>1, <1>2, <1>6 DEF TpType
    <2>3. clash' \in BOOLEAN
      BY <1>3
    <2> QED BY <2>1, <2>2, <2>3 DEF TypeOK
  <1>9. RemovalInv' /\ FileHasConsumer' /\ ProbeInv'
    BY <1>1, <1>2, <1>5 DEF RemovalInv, FileHasConsumer, ProbeInv
  <1>10. RefsInv'
    BY <1>1, <1>2, <1>5, <1>7, SMTT(60), Z3T(60) DEF RefsInv
  <1>11. IdsInv'
    BY <1>1, <1>2, <1>3 DEF IdsInv
  <1>12. RefsAreExact'
    <2> SUFFICES ASSUME ~ clash', NEW p \in Tps \ Failing
                 PROVE  refs'[p] = {id'[u] : u \in {w \in linked' : p \in tps'[w]}}
      BY DEF RefsAreExact
    <2>1. refs[p] = {id[u] : u \in {w \in linked : p \in tps[w]}}
      BY <1>1, <1>3 DEF RefsAreExact
    <2>2. NewId \notin refs[p]
      BY <1>3, <2>1
    <2>3. refs'[p] = refs[p]
      BY <1>7, <2>2
    <2> QED BY <1>2, <2>1, <2>3
  <1> QED BY <1>6, <1>8, <1>9, <1>10, <1>11, <1>12 DEF PInv

(* One more device of a consumer, or one of several devices closed.        *)
LEMMA DeviceInv ==
    ASSUME PInv, NEW t \in Tasks, NEW c \in Cpus, OpenMore(t, c) \/ CloseOne(t, c)
    PROVE  PInv'
  <1>1. /\ ConsumerType /\ TpType /\ RemovalType /\ ProbeType /\ RemovalInv
        /\ FileHasConsumer /\ AttachedWhileReferenced /\ RefsInv /\ ProbeInv
        /\ IdsInv /\ RefsAreExact /\ clash \in BOOLEAN
    BY DEF PInv, TypeOK
  <1>2. /\ gone = NoTask /\ t \in linked
        /\ UNCHANGED <<alloc, linked, id, tps, rings, attached, refs, clash>>
        /\ UNCHANGED removal /\ UNCHANGED probes
    BY <1>1 DEF OpenMore, CloseOne, Unlocked, FileHasConsumer
  <1>3. /\ open' \in [Tasks -> SUBSET Cpus]
        /\ \A u \in Tasks : u # t => open'[u] = open[u]
    BY <1>1, SMTT(60), Z3T(60) DEF OpenMore, CloseOne, ConsumerType
  <1>4. UNCHANGED <<gone, phase, wait, cur, seen, probing>>
    BY <1>2 DEF removal, probes
  <1>5. TypeOK'
    <2>1. ConsumerType' /\ RemovalType' /\ ProbeType' /\ TpType'
      BY <1>1, <1>2, <1>3, <1>4 DEF ConsumerType, RemovalType, ProbeType, TpType
    <2> QED BY <2>1, <1>1, <1>2 DEF TypeOK
  <1>6. RemovalInv'
    BY <1>1, <1>2, <1>4 DEF RemovalInv
  <1>7. FileHasConsumer'
    BY <1>1, <1>2, <1>3 DEF FileHasConsumer
  <1>8. AttachedWhileReferenced' /\ RefsInv' /\ ProbeInv' /\ IdsInv' /\ RefsAreExact'
    BY <1>1, <1>2, <1>4, SMTT(60), Z3T(60) DEF AttachedWhileReferenced, RefsInv, ProbeInv, IdsInv, RefsAreExact
  <1> QED BY <1>5, <1>6, <1>7, <1>8 DEF PInv

-----------------------------------------------------------------------------
(* ppm_ioctl *)

(* A consumer changes the set of tracepoints it wants; a registration that *)
(* fails stops the loop.                                                   *)
LEMMA SetTpsInv ==
    ASSUME PInv, NEW t \in Tasks, NEW want \in SUBSET Tps, Unlocked, open[t] # {},
           SetConsumerTracepoints(t, want),
           UNCHANGED <<alloc, linked, id, rings, open, clash>>,
           UNCHANGED removal, UNCHANGED probes
    PROVE  PInv'
  <1>1. /\ ConsumerType /\ TpType /\ RemovalType /\ ProbeType /\ RemovalInv
        /\ FileHasConsumer /\ AttachedWhileReferenced /\ RefsInv /\ ProbeInv
        /\ IdsInv /\ RefsAreExact /\ clash \in BOOLEAN
    BY DEF PInv, TypeOK
  <1>2. gone = NoTask /\ t \in linked /\ id[t] \in 0 .. MaxConsumers
    BY <1>1 DEF Unlocked, FileHasConsumer, ConsumerType
  <1>3. PICK n \in 0 .. NTps :
           /\ n < NTps => n \in Failing
           /\ ForceTpSet(id[t], want, n)
           /\ tps' = [tps EXCEPT ![t] = {p \in Tps : IF p <= n THEN p \in want
                                                              ELSE p \in @}]
    BY DEF SetConsumerTracepoints
  <1>4. UNCHANGED <<gone, phase, wait, cur, seen, probing>>
    BY DEF removal, probes
  <1>5. /\ refs' \in [Tps -> SUBSET (0 .. MaxConsumers)] /\ attached' \subseteq Tps
        /\ AttachedWhileReferenced'
    BY <1>1, <1>2, <1>3, ForceTpSetKeeps DEF TpType
  <1>6. /\ \A p \in Tps : refs'[p] \subseteq refs[p] \cup {id[t]}
        /\ \A p \in Tps : p < n => refs'[p] = IF p \in want THEN refs[p] \cup {id[t]}
                                                           ELSE refs[p] \ {id[t]}
        /\ \A p \in Tps : ~ (p < n) => refs'[p] = refs[p]
    <2> DEFINE i == id[t]
    <2>1. ForceTpSet(i, want, n)
      BY <1>3
    <2> HIDE DEF i
    <2>2. /\ \A p \in Tps : refs'[p] \subseteq refs[p] \cup {i}
          /\ \A p \in Tps : p < n => refs'[p] = IF p \in want THEN refs[p] \cup {i}
                                                             ELSE refs[p] \ {i}
          /\ \A p \in Tps : ~ (p < n) => refs'[p] = refs[p]
      BY <2>1, ForceTpSetRefs
    <2> QED BY <2>2 DEF i
  <1>7. /\ tps' \in [Tasks -> SUBSET Tps]
        /\ \A u \in Tasks : u # t => tps'[u] = tps[u]
        /\ \A p \in Tps : p <= n => (p \in tps'[t] <=> p \in want)
        /\ \A p \in Tps : ~ (p <= n) => (p \in tps'[t] <=> p \in tps[t])
    BY <1>1, <1>3 DEF TpType
  <1>8. TypeOK'
    <2>1. ConsumerType' /\ RemovalType' /\ ProbeType'
      BY <1>1, <1>4 DEF ConsumerType, RemovalType, ProbeType
    <2>2. TpType'
      BY <1>5, <1>7 DEF TpType
    <2> QED BY <2>1, <2>2, <1>1 DEF TypeOK
  <1>9. RemovalInv' /\ FileHasConsumer' /\ ProbeInv' /\ IdsInv'
    BY <1>1, <1>2, <1>4 DEF RemovalInv, FileHasConsumer, ProbeInv, IdsInv
  <1>10. RefsInv'
    <2> SUFFICES ASSUME NEW p \in Tps, NEW i \in refs'[p]
                 PROVE  \E u \in linked \ {gone} : id[u] = i
      BY <1>4 DEF RefsInv
    <2>1. CASE i = id[t]
      BY <2>1, <1>2, ConsumersAssumption
    <2>2. CASE i # id[t]
      BY <2>2, <1>1, <1>6 DEF RefsInv
    <2> QED BY <2>1, <2>2
  <1>11. RefsAreExact'
    <2> SUFFICES ASSUME ~ clash, NEW p \in Tps \ Failing
                 PROVE  refs'[p] = {id[u] : u \in {w \in linked : p \in tps'[w]}}
      BY DEF RefsAreExact
    <2>1. refs[p] = {id[u] : u \in {w \in linked : p \in tps[w]}}
      BY <1>1 DEF RefsAreExact
    <2>2. \A w \in linked : w \in Tasks
      BY <1>1 DEF ConsumerType
    <2>3. \A w \in linked : w # t => id[w] # id[t]
      BY <1>1, <1>2 DEF IdsInv
    <2>4. p < n \/ ~ (p <= n)
      <3>1. p # n
        BY <1>3, ConsumersAssumption, SMTT(60), Z3T(60) DEF Tps
      <3> QED BY <3>1, <1>3, ConsumersAssumption, SMTT(60), Z3T(60) DEF Tps
    <2>5. CASE p < n
      <3>0. p <= n
        BY <2>5, <1>3, ConsumersAssumption, SMTT(60), Z3T(60) DEF Tps
      <3>1. CASE p \in want
        <4>1. {w \in linked : p \in tps'[w]} = {w \in linked : p \in tps[w]} \cup {t}
          BY <3>0, <3>1, <1>2, <1>7, <2>2
        <4>2. refs'[p] = refs[p] \cup {id[t]}
          BY <3>1, <2>5, <1>6
        <4> QED BY <2>1, <4>1, <4>2
      <3>2. CASE p \notin want
        <4>1. {w \in linked : p \in tps'[w]} = {w \in linked : p \in tps[w]} \ {t}
          BY <3>0, <3>2, <1>2, <1>7, <2>2
        <4>2. refs'[p] = refs[p] \ {id[t]}
          BY <3>2, <2>5, <1>6
        <4> QED BY <2>1, <2>3, <4>1, <4>2
      <3> QED BY <3>1, <3>2
    <2>6. CASE ~ (p <= n)
      <3>1. {w \in linked : p \in tps'[w]} = {w \in linked : p \in tps[w]}
        BY <2>6, <1>2, <1>7, <2>2
      <3>2. refs'[p] = refs[p]
        <4>1. ~ (p < n)
          BY <2>6, <1>3, ConsumersAssumption, SMTT(60), Z3T(60) DEF Tps
        <4> QED BY <4>1, <1>6
      <3> QED BY <2>1, <3>1, <3>2
    <2> QED BY <2>4, <2>5, <2>6
  <1> QED BY <1>5, <1>8, <1>9, <1>10, <1>11 DEF PInv

-----------------------------------------------------------------------------
(* ppm_release and check_remove_consumer *)

(* The last device of a consumer is closed: it gives up its references but *)
(* stays in the list.                                                      *)
LEMMA CloseLastInv ==
    ASSUME PInv, NEW t \in Tasks, NEW c \in Cpus, CloseLast(t, c)
    PROVE  PInv'
  <1>1. /\ ConsumerType /\ TpType /\ RemovalType /\ ProbeType /\ RemovalInv
        /\ FileHasConsumer /\ AttachedWhileReferenced /\ RefsInv /\ ProbeInv
        /\ IdsInv /\ RefsAreExact /\ clash \in BOOLEAN
    BY DEF PInv, TypeOK
  <1>2. /\ gone = NoTask /\ open[t] = {c}
        /\ open' = [open EXCEPT ![t] = @ \ {c}]
        /\ ForceTpSet(id[t], {}, NTps) /\ tps' = [tps EXCEPT ![t] = {}]
        /\ gone' = t /\ phase' = "unregister"
        /\ wait' \subseteq probing
        /\ UNCHANGED <<alloc, linked, id, rings, clash>> /\ UNCHANGED probes
    BY DEF CloseLast, Unlocked, LastRing, DropTracepoints
  <1>3. /\ t \in linked /\ id[t] \in 0 .. MaxConsumers /\ alloc = linked
        /\ NoTask \notin alloc
    BY <1>1, <1>2, ConsumersAssumption
       DEF FileHasConsumer, ConsumerType, RemovalInv
  <1>4. /\ open' \in [Tasks -> SUBSET Cpus] /\ open'[t] = {}
        /\ \A u \in Tasks : u # t => open'[u] = open[u]
    BY <1>1, <1>2 DEF ConsumerType
  <1>5. /\ tps' \in [Tasks -> SUBSET Tps] /\ tps'[t] = {}
        /\ \A u \in Tasks : u # t => tps'[u] = tps[u]
    BY <1>1, <1>2 DEF TpType
  <1>6. UNCHANGED <<cur, seen, probing>>
    BY <1>2 DEF probes
  <1>7. /\ refs' \in [Tps -> SUBSET (0 .. MaxConsumers)] /\ attached' \subseteq Tps
        /\ AttachedWhileReferenced'
    BY <1>1, <1>2, <1>3, ForceTpSetKeeps DEF TpType
  <1>8. \A p \in Tps : refs'[p] = refs[p] \ {id[t]}
    <2>1. \A p \in Tps : p < NTps
      BY ConsumersAssumption, SMTT(60), Z3T(60) DEF Tps
    <2> QED BY <2>1, <1>2 DEF ForceTpSet, NextRefs
  <1>9. TypeOK'
    <2>1. ConsumerType'
      BY <1>1, <1>2, <1>4 DEF ConsumerType
    <2>2. TpType'
      BY <1>5, <1>7 DEF TpType
    <2>3. RemovalType' /\ ProbeType'
      BY <1>1, <1>2, <1>6 DEF RemovalType, ProbeType
    <2> QED BY <2>1, <2>2, <2>3, <1>1, <1>2 DEF TypeOK
  <1>10. RemovalInv'
    BY <1>2, <1>3, <1>4, <1>5 DEF RemovalInv
  <1>11. FileHasConsumer'
    BY <1>1, <1>2, <1>4 DEF FileHasConsumer
  <1>12. RefsInv'
    <2> SUFFICES ASSUME NEW p \in Tps, NEW i \in refs'[p]
                 PROVE  \E u \in linked \ {t} : id[u] = i
      BY <1>2 DEF RefsInv
    <2>1. i \in refs[p] /\ i # id[t]
      BY <1>8
    <2>2. PICK u \in linked : id[u] = i
      BY <2>1, <1>1 DEF RefsInv
    <2> QED BY <2>1, <2>2
  <1>13. ProbeInv'
    BY <1>1, <1>2, <1>3, <1>6 DEF ProbeInv
  <1>14. IdsInv'
    BY <1>1, <1>2 DEF IdsInv
  <1>15. RefsAreExact'
    <2> SUFFICES ASSUME ~ clash, NEW p \in Tps \ Failing
                 PROVE  refs'[p] = {id[u] : u \in {w \in linked : p \in tps'[w]}}
      BY <1>2 DEF RefsAreExact
    <2>1. refs[p] = {id[u] : u \in {w \in linked : p \in tps[w]}}
      BY <1>1 DEF RefsAreExact
    <2>2. \A w \in linked : w \in Tasks
      BY <1>1 DEF ConsumerType
    <2>3. \A w \in linked : w # t => id[w] # id[t]
      BY <1>1, <1>3 DEF IdsInv
    <2>4. {w \in linked : p \in tps'[w]} = {w \in linked : p \in tps[w]} \ {t}
      BY <1>5, <2>2
    <2>5. refs'[p] = refs[p] \ {id[t]}
      BY <1>8
    <2> QED BY <2>1, <2>3, <2>4, <2>5
  <1> QED BY <1>7, <1>9, <1>10, <1>11, <1>12, <1>13, <1>14, <1>15 DEF PInv

(* The consumer leaves the list; probes that found it there are waited for. *)
LEMMA UnlinkInv ==
    ASSUME PInv, Unlink
    PROVE  PInv'
  <1>1. /\ ConsumerType /\ TpType /\ RemovalType /\ ProbeType /\ RemovalInv
        /\ FileHasConsumer /\ AttachedWhileReferenced /\ RefsInv /\ ProbeInv
        /\ IdsInv /\ RefsAreExact /\ clash \in BOOLEAN
    BY DEF PInv, TypeOK
  <1>2. /\ phase = "unregister" /\ linked' = linked \ {gone}
        /\ phase' = "grace" /\ wait' = probing
        /\ UNCHANGED <<alloc, id, tps, rings, open, attached, refs, clash, gone>>
        /\ UNCHANGED probes
    BY DEF Unlink
  <1>3. /\ gone \in linked /\ gone # NoTask /\ open[gone] = {} /\ tps[gone] = {}
        /\ linked \subseteq alloc /\ alloc \ linked \subseteq {gone}
    BY <1>1, <1>2 DEF RemovalInv
  <1>4. UNCHANGED <<cur, seen, probing>>
    BY <1>2 DEF probes
  <1>5. TypeOK'
    <2>1. ConsumerType' /\ TpType'
      BY <1>1, <1>2 DEF ConsumerType, TpType
    <2>2. RemovalType' /\ ProbeType'
      BY <1>1, <1>2, <1>4 DEF RemovalType, ProbeType
    <2>3. clash' \in BOOLEAN
      BY <1>1, <1>2
    <2> QED BY <2>1, <2>2, <2>3 DEF TypeOK
  <1>6. RemovalInv'
    BY <1>2, <1>3 DEF RemovalInv
  <1>7. FileHasConsumer' /\ AttachedWhileReferenced'
    BY <1>1, <1>2, <1>3 DEF FileHasConsumer, AttachedWhileReferenced
  <1>8. RefsInv' /\ IdsInv'
    BY <1>1, <1>2 DEF RefsInv, IdsInv
  <1>9. ProbeInv'
    BY <1>1, <1>2, <1>4 DEF ProbeInv
  <1>10. RefsAreExact'
    <2>1. \A p \in Tps : {w \in linked \ {gone} : p \in tps[w]} = {w \in linked : p \in tps[w]}
      BY <1>3
    <2> QED BY <2>1, <1>1, <1>2 DEF RefsAreExact
  <1> QED BY <1>5, <1>6, <1>7, <1>8, <1>9, <1>10 DEF PInv

(* The grace period is over: nobody stands on the consumer any more.       *)
LEMMA FreeInv ==
    ASSUME PInv, Free
    PROVE  PInv'
  <1>1. /\ ConsumerType /\ TpType /\ RemovalType /\ ProbeType /\ RemovalInv
        /\ FileHasConsumer /\ AttachedWhileReferenced /\ RefsInv /\ ProbeInv
        /\ IdsInv /\ RefsAreExact /\ clash \in BOOLEAN
    BY DEF PInv, TypeOK
  <1>2. /\ phase = "grace" /\ wait = {} /\ alloc' = alloc \ {gone}
        /\ id' = [id EXCEPT ![gone] = 0] /\ rings' = [rings EXCEPT ![gone] = {}]
        /\ gone' = NoTask /\ phase' = "none" /\ wait' = {}
        /\ UNCHANGED <<linked, tps, open, attached, refs, clash>> /\ UNCHANGED probes
    BY DEF Free, GraceOver, Unlock
  <1>3. /\ gone \notin linked /\ linked \subseteq alloc /\ alloc \ linked \subseteq {gone}
        /\ linked \subseteq Tasks
    BY <1>1, <1>2 DEF RemovalInv, ConsumerType
  <1>4. UNCHANGED <<cur, seen, probing>>
    BY <1>2 DEF probes
  <1>5. \A u \in Tasks : u # gone => id'[u] = id[u]
    BY <1>1, <1>2 DEF ConsumerType
  <1>6. TypeOK'
    <2>1. ConsumerType'
      <3>1. 0 \in 0 .. MaxConsumers
        BY ConsumersAssumption, SMTT(60), Z3T(60)
      <3>2. id \in [Tasks -> 0 .. MaxConsumers] /\ rings \in [Tasks -> SUBSET Cpus]
        BY <1>1 DEF ConsumerType
      <3>3. id' \in [Tasks -> 0 .. MaxConsumers]
        BY <3>1, <3>2, <1>2
      <3>4. rings' \in [Tasks -> SUBSET Cpus]
        BY <3>2, <1>2
      <3> QED BY <3>3, <3>4, <1>1, <1>2, <1>5 DEF ConsumerType
    <2>2. TpType' /\ RemovalType' /\ ProbeType'
      BY <1>1, <1>2, <1>4 DEF TpType, RemovalType, ProbeType
    <2> QED BY <2>1, <2>2, <1>1, <1>2 DEF TypeOK
  <1>7. RemovalInv'
    BY <1>2, <1>3 DEF RemovalInv
  <1>8. FileHasConsumer' /\ AttachedWhileReferenced'
    BY <1>1, <1>2 DEF FileHasConsumer, AttachedWhileReferenced
  <1>9. \A u \in linked : id'[u] = id[u]
    BY <1>3, <1>5
  <1>10. RefsInv'
    <2> SUFFICES ASSUME NEW p \in Tps, NEW i \in refs[p]
                 PROVE  \E u \in linked \ {NoTask} : id'[u] = i
      BY <1>2 DEF RefsInv
    <2>1. PICK u \in linked : id[u] = i
      BY <1>1 DEF RefsInv
    <2> QED BY <2>1, <1>3, <1>9, ConsumersAssumption
  <1>11. ProbeInv'
    BY <1>1, <1>2, <1>3, <1>4 DEF ProbeInv
  <1>12. IdsInv'
    <2>1. ~ clash => \A u, v \in linked : id[u] = id[v] => u = v
      BY <1>1 DEF IdsInv
    <2>2. ~ clash => \A u, v \in linked : id'[u] = id'[v] => u = v
      BY <2>1, <1>9
    <2> QED BY <2>2, <1>2 DEF IdsInv
  <1>13. RefsAreExact'
    <2> SUFFICES ASSUME ~ clash, NEW p \in Tps \ Failing
                 PROVE  refs[p] = {id'[u] : u \in {w \in linked : p \in tps[w]}}
      BY <1>2 DEF RefsAreExact
    <2>1. refs[p] = {id[u] : u \in {w \in linked : p \in tps[w]}}
      BY <1>1 DEF RefsAreExact
    <2> QED BY <2>1, <1>9
  <1> QED BY <1>6, <1>7, <1>8, <1>10, <1>11, <1>12, <1>13 DEF PInv

-----------------------------------------------------------------------------
(* record_event_all_consumers *)

(* A probe enters, moves along the list or leaves.                         *)
LEMMA ProbeStepInv ==
    ASSUME PInv, NEW c \in Cpus, ProbeBegin(c) \/ ProbeVisit(c) \/ ProbeEnd(c)
    PROVE  PInv'
  <1>1. /\ ConsumerType /\ TpType /\ RemovalType /\ ProbeType /\ RemovalInv
        /\ FileHasConsumer /\ AttachedWhileReferenced /\ RefsInv /\ ProbeInv
        /\ IdsInv /\ RefsAreExact /\ clash \in BOOLEAN
    BY DEF PInv, TypeOK
  <1>2. UNCHANGED consumers /\ UNCHANGED <<gone, phase>>
    BY DEF ProbeBegin, ProbeVisit, ProbeEnd, removal
  <1>3. UNCHANGED <<alloc, linked, id, tps, rings, open, attached, refs, clash>>
    BY <1>2 DEF consumers
  <1>4. RemovalType' /\ ProbeType' /\ ProbeInv'
    <2>1. CASE ProbeBegin(c)
      <3>1. probing' = probing \cup {c} /\ UNCHANGED <<cur, seen, wait>>
        BY <2>1 DEF ProbeBegin, removal
      <3> QED BY <3>1, <1>1, <1>2, <1>3 DEF RemovalType, ProbeType, ProbeInv
    <2>2. CASE ProbeVisit(c)
      <3>1. PICK t \in linked : /\ cur' = [cur EXCEPT ![c] = t]
                               /\ seen' = [seen EXCEPT ![c] = @ \cup {t}]
        BY <2>2 DEF ProbeVisit
      <3>2. c \in probing /\ UNCHANGED <<probing, wait>>
        BY <2>2 DEF ProbeVisit, removal
      <3>3. linked \subseteq Tasks /\ linked \subseteq alloc
        BY <1>1 DEF ConsumerType, RemovalInv
      <3>4. RemovalType' /\ ProbeType'
        BY <3>1, <3>2, <3>3, <1>1, <1>2 DEF RemovalType, ProbeType
      <3>5. cur'[c] = t /\ \A d \in Cpus : d # c => cur'[d] = cur[d]
        BY <3>1, <1>1 DEF ProbeType
      <3> QED BY <3>2, <3>3, <3>4, <3>5, <1>1, <1>3 DEF ProbeInv
    <2>3. CASE ProbeEnd(c)
      <3>1. /\ probing' = probing \ {c} /\ cur' = [cur EXCEPT ![c] = NoTask]
            /\ seen' = [seen EXCEPT ![c] = {}] /\ wait' = wait \ {c}
        BY <2>3 DEF ProbeEnd
      <3>2. RemovalType' /\ ProbeType'
        BY <3>1, <1>1, <1>2 DEF RemovalType, ProbeType
      <3>3. cur'[c] = NoTask /\ \A d \in Cpus : d # c => cur'[d] = cur[d]
        BY <3>1, <1>1 DEF ProbeType
      <3> QED BY <3>1, <3>2, <3>3, <1>1, <1>3, SMTT(60), Z3T(60) DEF ProbeInv
    <2> QED BY <2>1, <2>2, <2>3
  <1>5. ConsumerType' /\ TpType'
    BY <1>1, <1>3 DEF ConsumerType, TpType
  <1>6. TypeOK'
    BY <1>1, <1>3, <1>4, <1>5 DEF TypeOK
  <1>7. RemovalInv' /\ FileHasConsumer' /\ AttachedWhileReferenced' /\ RefsInv'
    BY <1>1, <1>2, <1>3 DEF RemovalInv, FileHasConsumer, AttachedWhileReferenced, RefsInv
  <1>8. IdsInv' /\ RefsAreExact'
    BY <1>1, <1>3 DEF IdsInv, RefsAreExact
  <1> QED BY <1>4, <1>6, <1>7, <1>8 DEF PInv

-----------------------------------------------------------------------------

(* Steps of nobody change nothing the invariant is about.                  *)
LEMMA StutterPInv ==
    ASSUME PInv, UNCHANGED vars
    PROVE  PInv'
  <1>1. /\ ConsumerType /\ TpType /\ RemovalType /\ ProbeType /\ RemovalInv
        /\ FileHasConsumer /\ AttachedWhileReferenced /\ RefsInv /\ ProbeInv
        /\ IdsInv /\ RefsAreExact /\ clash \in BOOLEAN
    BY DEF PInv, TypeOK
  <1>2. /\ UNCHANGED <<alloc, linked, id, tps, rings, open, attached, refs, clash>>
        /\ UNCHANGED <<gone, phase, wait, cur, seen, probing>>
    BY DEF vars, consumers, removal, probes
  <1>3. ConsumerType' /\ TpType' /\ RemovalType' /\ ProbeType'
    BY <1>1, <1>2 DEF ConsumerType, TpType, RemovalType, ProbeType
  <1>4. TypeOK'
    BY <1>1, <1>2, <1>3 DEF TypeOK
  <1>5. RemovalInv' /\ FileHasConsumer' /\ AttachedWhileReferenced' /\ RefsInv' /\ ProbeInv'
    BY <1>1, <1>2 DEF RemovalInv, FileHasConsumer, AttachedWhileReferenced, RefsInv, ProbeInv
  <1>6. IdsInv' /\ RefsAreExact'
    BY <1>1, <1>2 DEF IdsInv, RefsAreExact
  <1> QED BY <1>4, <1>5, <1>6 DEF PInv

(* Every system call and every step of a probe preserves the invariant.    *)
LEMMA NextPInv ==
    ASSUME PInv, [Next]_vars
    PROVE  PInv'
  <1>1. ASSUME NEW t \in Tasks, NEW p \in Tps, EnableTp(t, p) \/ DisableTp(t, p)
        PROVE  PInv'
    <2>1. tps[t] \in SUBSET Tps
      BY DEF PInv, TypeOK, TpType
    <2>2. PICK want \in SUBSET Tps : SetConsumerTracepoints(t, want)
      BY <1>1, <2>1 DEF EnableTp, DisableTp
    <2>3. /\ Unlocked /\ open[t] # {}
          /\ UNCHANGED <<alloc, linked, id, rings, open, clash>>
          /\ UNCHANGED removal /\ UNCHANGED probes
      BY <1>1 DEF EnableTp, DisableTp
    <2> QED BY <2>2, <2>3, SetTpsInv
  <1>2. ASSUME NEW t \in Tasks, NEW c \in Cpus,
               OpenNew(t, c) \/ OpenMore(t, c) \/ CloseOne(t, c) \/ CloseLast(t, c)
        PROVE  PInv'
    BY <1>2, OpenNewInv, DeviceInv, CloseLastInv
  <1>3. ASSUME NEW t \in Tasks, OpenNoMemory(t)
        PROVE  PInv'
    BY <1>3, OpenNoMemoryInv
  <1>4. CASE Unlink \/ Free
    BY <1>4, UnlinkInv, FreeInv
  <1>5. ASSUME NEW c \in Cpus, ProbeBegin(c) \/ ProbeVisit(c) \/ ProbeEnd(c)
        PROVE  PInv'
    BY <1>5, ProbeStepInv
  <1>6. CASE UNCHANGED vars
    BY <1>6, StutterPInv
  <1> QED BY <1>1, <1>2, <1>3, <1>4, <1>5, <1>6 DEF Next

(* The invariant holds from the load of the module on.                     *)
THEOREM ConsumersInductive == Spec => []PInv
  BY InitPInv, NextPInv, PTL DEF Spec

(* Ids stay below max_consumers, and every set and mask keeps its type.    *)
THEOREM ConsumersTypeCorrect == Spec => []TypeOK
  <1>1. PInv => TypeOK
    BY DEF PInv
  <1> QED BY <1>1, ConsumersInductive, PTL

(* For any number of tasks and CPUs, record_event_all_consumers never      *)
(* reaches a consumer that check_remove_consumer has freed.                *)
THEOREM ProbesAreSafe == Spec => []NoUseAfterFree
  <1>1. PInv => NoUseAfterFree
    BY DEF PInv, ProbeInv, NoUseAfterFree
  <1> QED BY <1>1, ConsumersInductive, PTL

(* ppm_ioctl, ppm_mmap and ppm_release always find the consumer of a file. *)
THEOREM FilesAreKnown == Spec => []FileHasConsumer
  <1>1. PInv => FileHasConsumer
    BY DEF PInv
  <1> QED BY <1>1, ConsumersInductive, PTL

(* A tracepoint is attached exactly while it is referenced.                *)
THEOREM AttachmentsMatch == Spec => []AttachedWhileReferenced
  <1>1. PInv => AttachedWhileReferenced
    BY DEF PInv
  <1> QED BY <1>1, ConsumersInductive, PTL

(* No reference outlives the consumers: after the last of them no probe is *)
(* attached.                                                               *)
THEOREM NoReferenceLeaks == Spec => []RefsAreLive
  <1>1. PInv => RefsAreLive
    BY DEF PInv, RefsInv, RemovalInv, RefsAreLive
  <1> QED BY <1>1, ConsumersInductive, PTL

(* As long as ids are not given twice, force_tp_set keeps exact books.     *)
THEOREM ReferencesAreExact == Spec => []RefsAreExact
  <1>1. PInv => RefsAreExact
    BY DEF PInv
  <1> QED BY <1>1, ConsumersInductive, PTL
=============================================================================
