----------------------- MODULE ResourceManagerProof -----------------------
(***************************************************************************)
(* Proofs about ResourceManager, for every set of assets and leases, every *)
(* generation space and, but where a theorem says so, whether or not       *)
(* unloadUnused may run while the owner reads without the lock.            *)
(***************************************************************************)
EXTENDS ResourceManager, FiniteSetTheorems, TLAPS

(* The slots behind the properties: which of them exist, that slot 0 stays *)
(* usable for ever, and that nobody leases the slot a load works on.       *)
UnusedIndicesAreEmpty == \A i \in Index \ InUse : slots[i] = NoSlot

FallbackAlwaysReady ==
    /\ \A i \in Index : slots[i].pinned <=> i = 0
    /\ slots[0].state = "Ready"
    /\ slots[0].resource # None

LoadedSlotIsUnleased ==
    loading # None => /\ loading.index \in InUse
                      /\ ~slots[loading.index].pinned
                      /\ slots[loading.index].references = 0

ByIdInUse == \A id \in DOMAIN byId : byId[id] # None => byId[id] \in InUse

(* A slot that some lease names has a lease counted on it.                 *)
IInv ==
    /\ TypeOK
    /\ ReferencesCountLeases
    /\ LeasedSlotKeepsResource
    /\ UnleasedSlotIsEmpty
    /\ UnusedIndicesAreEmpty
    /\ FallbackAlwaysReady
    /\ LoadedSlotIsUnleased
    /\ ByIdInUse

-----------------------------------------------------------------------------
(* How many leases name a slot, after one was taken or dropped.            *)
LEMMA LeaseTaken ==
    ASSUME TypeOK, NEW l \in Lease, NEW i \in Index, NEW r, r.index = i, r # None,
           leases[l] = None, leases' = [leases EXCEPT ![l] = r]
    PROVE  \A j \in Index : Cardinality(LeasesOn(j)') =
               IF j = i THEN Cardinality(LeasesOn(j)) + 1 ELSE Cardinality(LeasesOn(j))
<1> SUFFICES ASSUME NEW j \in Index
             PROVE  Cardinality(LeasesOn(j)') =
               IF j = i THEN Cardinality(LeasesOn(j)) + 1 ELSE Cardinality(LeasesOn(j))
    OBVIOUS
<1>1. IsFiniteSet(LeasesOn(j))
    BY FS_Subset, ConstantsAssumption DEF LeasesOn
<1>2. CASE j = i
  <2>1. LeasesOn(j)' = LeasesOn(j) \cup {l} /\ l \notin LeasesOn(j)
      BY <1>2 DEF LeasesOn, TypeOK
  <2> QED BY <2>1, <1>1, <1>2, FS_AddElement, ZenonT(60)
<1>3. CASE j # i
  <2>1. LeasesOn(j)' = LeasesOn(j)
      BY <1>3 DEF LeasesOn, TypeOK
  <2> QED BY <2>1, <1>3
<1> QED BY <1>2, <1>3

LEMMA LeaseDropped ==
    ASSUME TypeOK, NEW l \in Lease, leases[l] # None,
           leases' = [leases EXCEPT ![l] = None]
    PROVE  \A j \in Index : Cardinality(LeasesOn(j)') =
               IF j = leases[l].index THEN Cardinality(LeasesOn(j)) - 1
               ELSE Cardinality(LeasesOn(j))
<1> SUFFICES ASSUME NEW j \in Index
             PROVE  Cardinality(LeasesOn(j)') =
               IF j = leases[l].index THEN Cardinality(LeasesOn(j)) - 1
               ELSE Cardinality(LeasesOn(j))
    OBVIOUS
<1>1. IsFiniteSet(LeasesOn(j))
    BY FS_Subset, ConstantsAssumption DEF LeasesOn
<1>2. CASE j = leases[l].index
  <2>1. LeasesOn(j)' = LeasesOn(j) \ {l} /\ l \in LeasesOn(j)
      BY <1>2 DEF LeasesOn, TypeOK
  <2> QED BY <2>1, <1>1, <1>2, FS_RemoveElement
<1>3. CASE j # leases[l].index
  <2>1. LeasesOn(j)' = LeasesOn(j)
      BY <1>3 DEF LeasesOn, TypeOK
  <2> QED BY <2>1, <1>3
<1> QED BY <1>2, <1>3

(* A slot that a lease names is in use and its count is not zero; a slot   *)
(* whose count is zero is named by no lease.                               *)
LEMMA LeasedIsCounted ==
    ASSUME TypeOK, ReferencesCountLeases, UnusedIndicesAreEmpty
    PROVE  \A l \in Lease : leases[l] # None =>
               /\ leases[l].index \in InUse
               /\ slots[leases[l].index].references \in Nat \ {0}
<1> SUFFICES ASSUME NEW l \in Lease, leases[l] # None
             PROVE  /\ leases[l].index \in InUse
                    /\ slots[leases[l].index].references \in Nat \ {0}
    OBVIOUS
<1> DEFINE i == leases[l].index
<1>0. i \in Index
    BY DEF TypeOK, LeaseRecord
<1>1. IsFiniteSet(LeasesOn(i)) /\ LeasesOn(i) # {}
    BY FS_Subset, ConstantsAssumption DEF LeasesOn
<1>2. slots[i].references \in Nat \ {0}
    BY <1>0, <1>1, FS_EmptySet, FS_CardinalityType DEF ReferencesCountLeases
<1>3. i \in InUse
    BY <1>0, <1>2 DEF UnusedIndicesAreEmpty, NoSlot
<1> QED BY <1>2, <1>3

LEMMA SlotTypes ==
    ASSUME TypeOK
    PROVE  \A i \in Index : slots[i] \in SlotRecord
BY DEF TypeOK

LEMMA IndexFacts == Index \subseteq Nat /\ 0 \in Index /\ IsFiniteSet(Lease)
BY ConstantsAssumption DEF Index

(* releaseSlot leaves an empty slot of the right type.                     *)
LEMMA ReleasedSlot ==
    ASSUME NEW s \in SlotRecord
    PROVE  /\ Released(s) \in SlotRecord
           /\ Released(s).resource = None
           /\ Released(s).references = s.references
           /\ Released(s).pinned = s.pinned
<1>1. CASE s.generation = MaxGeneration
  <2>1. Released(s) = [s EXCEPT !.resource = None, !.state = "Unloaded", !.retired = TRUE]
      BY <1>1 DEF Released
  <2> QED BY <2>1 DEF SlotRecord, States
<1>2. CASE s.generation # MaxGeneration
  <2>1. Released(s) = [s EXCEPT !.resource = None, !.state = "Unloaded",
                                !.generation = @ + 1]
      BY <1>2 DEF Released
  <2>2. s.generation \in 1 .. MaxGeneration /\ s.generation + 1 \in 1 .. MaxGeneration
      BY <1>2, ConstantsAssumption DEF SlotRecord
  <2> QED BY <2>1, <2>2 DEF SlotRecord, States
<1> QED BY <1>1, <1>2


-----------------------------------------------------------------------------
LEMMA InitIInv == Init => IInv
<1> SUFFICES ASSUME Init PROVE IInv
    OBVIOUS
<1> USE IndexFacts, ConstantsAssumption DEF Init
<1>1. TypeOK
  <2>0. 1 \in 1 .. MaxGeneration
      OBVIOUS
  <2>1. FallbackSlot \in SlotRecord /\ NoSlot \in SlotRecord
      BY <2>0 DEF FallbackSlot, NoSlot, SlotRecord, States
  <2>2. slots \in [Index -> SlotRecord]
      BY <2>1
  <2>3. byId \in [Id \cup {FallbackId} -> Index \cup {None}]
      OBVIOUS
  <2> QED BY <2>2, <2>3 DEF TypeOK
<1>2. \A i \in Index : LeasesOn(i) = {} /\ slots[i].references = 0
    BY DEF LeasesOn, FallbackSlot, NoSlot
<1>3. ReferencesCountLeases
    BY <1>2, FS_EmptySet DEF ReferencesCountLeases
<1>4. /\ LeasedSlotKeepsResource
      /\ UnleasedSlotIsEmpty
      /\ UnusedIndicesAreEmpty
      /\ FallbackAlwaysReady
      /\ LoadedSlotIsUnleased
      /\ ByIdInUse
    BY DEF LeasedSlotKeepsResource, UnleasedSlotIsEmpty, UnusedIndicesAreEmpty,
           FallbackAlwaysReady, LoadedSlotIsUnleased, ByIdInUse, InUse,
           FallbackSlot, NoSlot
<1> QED BY <1>1, <1>3, <1>4 DEF IInv

(* makeLease on a slot in use that holds a resource, which for a slot      *)
(* somebody leases already is the resource it held before.                 *)
LEMMA LeaseTakenKeepsIInv ==
    ASSUME IInv, NEW l \in Lease, NEW i \in InUse, NEW s \in SlotRecord,
           s.state = "Ready", s.resource \in Nat,
           s.references = slots[i].references, s.pinned = slots[i].pinned,
           s.references # 0 => /\ s.generation = slots[i].generation
                               /\ s.resource = slots[i].resource,
           TakeLease(l, i, s), loading' \in {loading, None},
           loading' # None => loading'.index # i,
           UNCHANGED <<size, byId>>
    PROVE  IInv'
<1> DEFINE r == [index |-> i, generation |-> s.generation, resource |-> s.resource]
           t == [s EXCEPT !.references = @ + 1]
<1> USE IndexFacts, ConstantsAssumption
<1>0. i \in Index /\ TypeOK
    BY DEF InUse, IInv
<1>1. t \in SlotRecord /\ t.references = s.references + 1
    BY DEF SlotRecord
<1>2. /\ slots' = [slots EXCEPT ![i] = t]
      /\ leases' = [leases EXCEPT ![l] = r]
      /\ leases[l] = None
    BY DEF TakeLease
<1>3. r \in LeaseRecord /\ r # None
  <2>1. s.generation \in 1 .. MaxGeneration /\ s.generation \in Nat
      BY DEF SlotRecord
  <2>2. r \in LeaseRecord
      BY <1>0, <2>1 DEF LeaseRecord
  <2>3. r \in [index: Nat, generation: Nat, resource: Nat]
      BY <1>0, <2>1
  <2> QED BY <2>2, <2>3
<1>4. TypeOK'
    BY <1>0, <1>1, <1>2, <1>3 DEF TypeOK
<1>5. ReferencesCountLeases'
  <2>1. \A j \in Index : Cardinality(LeasesOn(j)') =
               IF j = i THEN Cardinality(LeasesOn(j)) + 1 ELSE Cardinality(LeasesOn(j))
      BY <1>0, <1>2, <1>3, LeaseTaken
  <2>2. \A j \in Index : slots'[j].references =
               IF j = i THEN slots[j].references + 1 ELSE slots[j].references
      BY <1>0, <1>1, <1>2 DEF TypeOK
  <2> QED BY <2>1, <2>2 DEF ReferencesCountLeases, IInv
<1>6. LeasedSlotKeepsResource'
  <2> SUFFICES ASSUME NEW m \in Lease, leases'[m] # None
               PROVE  /\ slots'[leases'[m].index].generation = leases'[m].generation
                      /\ slots'[leases'[m].index].state = "Ready"
                      /\ slots'[leases'[m].index].resource = leases'[m].resource
      BY DEF LeasedSlotKeepsResource
  <2>1. CASE m = l
      BY <2>1, <1>0, <1>2 DEF TypeOK, SlotRecord
  <2>2. CASE m # l
    <3>1. leases'[m] = leases[m] /\ leases[m] # None
        BY <2>2, <1>0, <1>2 DEF TypeOK
    <3>2. /\ leases[m].index \in Index
          /\ slots[leases[m].index].references # 0
          /\ slots[leases[m].index].generation = leases[m].generation
          /\ slots[leases[m].index].state = "Ready"
          /\ slots[leases[m].index].resource = leases[m].resource
        BY <3>1, LeasedIsCounted DEF IInv, LeasedSlotKeepsResource, InUse
    <3> QED BY <3>1, <3>2, <1>0, <1>2 DEF TypeOK, SlotRecord
  <2> QED BY <2>1, <2>2
<1>7. UnleasedSlotIsEmpty'
    BY <1>0, <1>1, <1>2 DEF UnleasedSlotIsEmpty, IInv, TypeOK, SlotRecord
<1>8. UnusedIndicesAreEmpty'
    BY <1>0, <1>2 DEF UnusedIndicesAreEmpty, IInv, InUse, TypeOK
<1>9. FallbackAlwaysReady'
  <2>1. /\ t.pinned = slots[i].pinned
        /\ t.state = "Ready"
        /\ t.resource # None
      BY DEF SlotRecord
  <2> QED BY <2>1, <1>0, <1>2 DEF FallbackAlwaysReady, IInv, TypeOK
<1>10. LoadedSlotIsUnleased'
    BY <1>0, <1>2 DEF LoadedSlotIsUnleased, IInv, TypeOK, InUse, Loading
<1>11. ByIdInUse'
    BY DEF ByIdInUse, IInv, InUse
<1> QED BY <1>4, <1>5, <1>6, <1>7, <1>8, <1>9, <1>10, <1>11 DEF IInv

(* Slots that nobody leases are emptied, released, reused or reloaded.     *)
LEMMA UnleasedSlotsKeepIInv ==
    ASSUME IInv, slots' \in [Index -> SlotRecord],
           \A i \in Index :
               \/ slots'[i] = slots[i]
               \/ /\ i # 0
                  /\ i \in InUse'
                  /\ slots[i].references = 0
                  /\ slots'[i].references = 0
                  /\ ~slots'[i].pinned
                  /\ slots'[i].resource = None,
           size' \in size .. MaxIndex + 1,
           byId' \in [DOMAIN byId -> Index \cup {None}], ByIdInUse',
           loading' \in Loading \cup {None}, LoadedSlotIsUnleased',
           UNCHANGED leases
    PROVE  IInv'
<1> USE IndexFacts, ConstantsAssumption
<1>0. TypeOK /\ InUse \subseteq InUse'
  <2>1. TypeOK /\ size \in Nat /\ size' \in Nat /\ size <= size'
      BY DEF IInv, TypeOK
  <2> SUFFICES ASSUME NEW i \in InUse
               PROVE  i \in InUse'
      BY <2>1
  <2>2. i \in Index /\ i \in Nat /\ i < size
      BY DEF InUse
  <2>3. i < size'
      BY <2>1, <2>2
  <2> QED BY <2>2, <2>3 DEF InUse
<1>1. TypeOK'
    BY <1>0 DEF TypeOK
<1>2. ReferencesCountLeases'
  <2>1. \A i \in Index : slots'[i].references = slots[i].references
      OBVIOUS
  <2> QED BY <2>1 DEF ReferencesCountLeases, LeasesOn, IInv
<1>3. LeasedSlotKeepsResource'
  <2>1. \A l \in Lease : leases[l] # None => slots'[leases[l].index] = slots[leases[l].index]
      BY LeasedIsCounted DEF IInv, InUse
  <2> QED BY <2>1 DEF LeasedSlotKeepsResource, IInv
<1>4. UnleasedSlotIsEmpty'
    BY DEF UnleasedSlotIsEmpty, IInv
<1>5. UnusedIndicesAreEmpty'
  <2>1. \A i \in Index \ InUse' : i \in Index \ InUse /\ slots'[i] = slots[i]
      BY <1>0
  <2> QED BY <2>1 DEF UnusedIndicesAreEmpty, IInv
<1>6. FallbackAlwaysReady'
    BY DEF FallbackAlwaysReady, IInv
<1> QED BY <1>1, <1>2, <1>3, <1>4, <1>5, <1>6 DEF IInv

(* load starts on a slot without a resource: an old one or a new one.      *)
LEMMA LoadAgainKeepsIInv ==
    ASSUME IInv, NEW id \in Id, LoadAgain(id)
    PROVE  IInv'
<1> DEFINE i == byId[id]
<1> USE IndexFacts, ConstantsAssumption
<1>0. TypeOK /\ i \in InUse /\ i \in Index
    BY DEF IInv, LoadAgain, ByIdInUse, TypeOK, InUse
<1>1. slots[i].references = 0
  <2>1. \A l \in Lease : leases[l] # None => leases[l].resource # None
      BY <1>0 DEF TypeOK, LeaseRecord
  <2>2. LeasesOn(i) = {}
      BY <2>1 DEF LoadAgain, LeasesOn, IInv, LeasedSlotKeepsResource
  <2> QED BY <1>0, <2>2, FS_EmptySet DEF IInv, ReferencesCountLeases
<1>2. i # 0 /\ ~slots[i].pinned /\ slots[i].resource = None
    BY <1>0, <1>1 DEF LoadAgain, IInv, FallbackAlwaysReady, UnleasedSlotIsEmpty
<1>3. /\ slots' \in [Index -> SlotRecord]
      /\ slots'[i].references = 0
      /\ ~slots'[i].pinned
      /\ slots'[i].resource = None
      /\ \A j \in Index \ {i} : slots'[j] = slots[j]
    BY <1>0, <1>1, <1>2 DEF LoadAgain, TypeOK, SlotRecord, States
<1>4. /\ loading' \in Loading
      /\ LoadedSlotIsUnleased'
    BY <1>0, <1>3 DEF LoadAgain, Loading, LoadedSlotIsUnleased, InUse
<1>5. ByIdInUse' /\ byId' \in [DOMAIN byId -> Index \cup {None}] /\ size' \in size .. MaxIndex + 1
    BY <1>0 DEF LoadAgain, IInv, ByIdInUse, InUse, TypeOK
<1>6. i \in InUse' /\ leases' = leases
    BY <1>0 DEF LoadAgain, InUse
<1> QED BY <1>1, <1>2, <1>3, <1>4, <1>5, <1>6, UnleasedSlotsKeepIInv

LEMMA LoadNewKeepsIInv ==
    ASSUME IInv, NEW id \in Id, LoadNew(id)
    PROVE  IInv'
<1> USE IndexFacts, ConstantsAssumption
<1>0. TypeOK /\ size \in Index \ {0} /\ size \notin InUse /\ size' = size + 1
    BY DEF IInv, LoadNew, TypeOK, InUse, Index
<1>1. slots[size].references = 0
    BY <1>0 DEF IInv, UnusedIndicesAreEmpty, NoSlot
<1>2. /\ slots' \in [Index -> SlotRecord]
      /\ slots'[size] = NewSlot(id)
      /\ \A j \in Index \ {size} : slots'[j] = slots[j]
  <2>1. NewSlot(id) \in SlotRecord
      BY DEF NewSlot, SlotRecord, States
  <2> QED BY <1>0, <2>1 DEF LoadNew, TypeOK
<1>3. size \in InUse' /\ InUse \subseteq InUse' /\ size' \in size .. MaxIndex + 1
    BY <1>0 DEF InUse, Index
<1>4. /\ loading' \in Loading
      /\ LoadedSlotIsUnleased'
    BY <1>0, <1>2, <1>3 DEF LoadNew, Loading, LoadedSlotIsUnleased, NewSlot
<1>5. /\ byId' \in [DOMAIN byId -> Index \cup {None}]
      /\ ByIdInUse'
    BY <1>0, <1>3 DEF LoadNew, IInv, ByIdInUse, TypeOK
<1>6. leases' = leases
    BY DEF LoadNew
<1> QED
  <2>1. /\ slots'[size].references = 0
        /\ ~slots'[size].pinned
        /\ slots'[size].resource = None
      BY <1>2 DEF NewSlot
  <2> QED BY <1>0, <1>1, <1>2, <1>3, <1>4, <1>5, <1>6, <2>1, UnleasedSlotsKeepIInv

LEMMA LoadFailsKeepsIInv ==
    ASSUME IInv, LoadFails
    PROVE  IInv'
<1> DEFINE i == loading.index
<1> USE IndexFacts, ConstantsAssumption
<1>0. TypeOK /\ i \in InUse /\ i \in Index /\ ~slots[i].pinned /\ slots[i].references = 0
    BY DEF IInv, LoadFails, LoadedSlotIsUnleased, InUse
<1>1. i # 0
    BY <1>0 DEF IInv, FallbackAlwaysReady
<1>2. /\ slots' \in [Index -> SlotRecord]
      /\ slots'[i].references = 0
      /\ ~slots'[i].pinned
      /\ slots'[i].resource = None
      /\ \A j \in Index \ {i} : slots'[j] = slots[j]
    BY <1>0 DEF LoadFails, TypeOK, SlotRecord, States
<1>3. ByIdInUse' /\ byId' \in [DOMAIN byId -> Index \cup {None}] /\ size' \in size .. MaxIndex + 1
    BY <1>0 DEF LoadFails, IInv, ByIdInUse, InUse, TypeOK
<1>4. loading' = None /\ i \in InUse' /\ leases' = leases /\ LoadedSlotIsUnleased'
    BY <1>0 DEF LoadFails, InUse, LoadedSlotIsUnleased
<1> QED BY <1>0, <1>1, <1>2, <1>3, <1>4, UnleasedSlotsKeepIInv

(* unload and unloadUnused: releaseSlot on slots nobody leases.            *)
LEMMA ReleaseKeepsIInv ==
    ASSUME IInv, NEW S \in SUBSET InUse,
           \A i \in S : ~slots[i].pinned /\ slots[i].references = 0,
           slots' = [i \in Index |-> IF i \in S THEN Released(slots[i]) ELSE slots[i]],
           ForgetReleased(S), UNCHANGED <<size, leases, loading>>
    PROVE  IInv'
<1> USE IndexFacts, ConstantsAssumption
<1>0. TypeOK /\ InUse \subseteq Index /\ InUse' = InUse
    BY DEF InUse, IInv
<1>1. slots' \in [Index -> SlotRecord]
    BY <1>0, ReleasedSlot, SlotTypes
<1>2. \A i \in Index :
          \/ slots'[i] = slots[i]
          \/ /\ i # 0
             /\ i \in InUse'
             /\ slots[i].references = 0
             /\ slots'[i].references = 0
             /\ ~slots'[i].pinned
             /\ slots'[i].resource = None
  <2> SUFFICES ASSUME NEW i \in S
               PROVE  /\ i # 0
                      /\ i \in InUse'
                      /\ slots[i].references = 0
                      /\ slots'[i].references = 0
                      /\ ~slots'[i].pinned
                      /\ slots'[i].resource = None
      BY <1>0
  <2>1. i \in Index /\ slots[i] \in SlotRecord /\ slots'[i] = Released(slots[i])
      BY <1>0, SlotTypes
  <2>2. /\ Released(slots[i]).references = slots[i].references
        /\ Released(slots[i]).pinned = slots[i].pinned
        /\ Released(slots[i]).resource = None
      BY <2>1, ReleasedSlot
  <2>3. i # 0
      BY <2>1 DEF IInv, FallbackAlwaysReady
  <2> QED BY <1>0, <2>1, <2>2, <2>3
<1>3. byId' \in [DOMAIN byId -> Index \cup {None}] /\ size' \in size .. MaxIndex + 1
    BY <1>0 DEF ForgetReleased, TypeOK
<1>4. ByIdInUse'
    BY <1>0 DEF ByIdInUse, IInv, ForgetReleased
<1>5. LoadedSlotIsUnleased' /\ loading' \in Loading \cup {None}
    BY <1>0, <1>2 DEF LoadedSlotIsUnleased, IInv, TypeOK
<1> QED BY <1>1, <1>2, <1>3, <1>4, <1>5, UnleasedSlotsKeepIInv

(* A lease is dropped: its slot counts one less, and is emptied if that    *)
(* was the last.                                                           *)
LEMMA DropLeaseKeepsIInv ==
    ASSUME IInv, NEW l \in Lease, DropLease(l)
    PROVE  IInv'
<1> DEFINE i == leases[l].index
           fewer == [slots[i] EXCEPT !.references = @ - 1]
           last == slots[i].references = 1 /\ ~slots[i].pinned
           t == IF last THEN Released(fewer) ELSE fewer
<1> USE IndexFacts, ConstantsAssumption
<1>0. /\ TypeOK /\ InUse \subseteq Index /\ InUse' = InUse
      /\ leases[l] # None /\ leases' = [leases EXCEPT ![l] = None]
      /\ UNCHANGED <<size, loading>>
    BY DEF DropLease, IInv, InUse
<1>1. /\ i \in InUse /\ i \in Index
      /\ slots[i].references \in Nat \ {0}
      /\ slots[i].generation = leases[l].generation
    BY <1>0, LeasedIsCounted DEF IInv, LeasedSlotKeepsResource
<1>2. /\ slots' = [slots EXCEPT ![i] = t]
      /\ ForgetReleased(IF last THEN {i} ELSE {})
    BY <1>1 DEF DropLease
<1>3. /\ fewer \in SlotRecord
      /\ fewer.references = slots[i].references - 1
      /\ fewer.pinned = slots[i].pinned
      /\ fewer.state = slots[i].state
      /\ fewer.generation = slots[i].generation
      /\ fewer.resource = slots[i].resource
  <2>1. slots[i] \in SlotRecord
      BY <1>0, <1>1, SlotTypes
  <2>2. slots[i].references - 1 \in Nat
      BY <1>1
  <2>3. \A n \in Nat : [slots[i] EXCEPT !.references = n] \in SlotRecord
      BY <2>1 DEF SlotRecord
  <2> QED BY <2>1, <2>2, <2>3 DEF SlotRecord
<1>4. /\ t \in SlotRecord
      /\ t.references = slots[i].references - 1
      /\ t.pinned = slots[i].pinned
      /\ last => t.resource = None
      /\ ~last => t = fewer
  <2> HIDE DEF fewer
  <2> QED BY <1>3, ReleasedSlot
<1> HIDE DEF fewer, t
<1>5. slots'[i] = t /\ \A j \in Index \ {i} : slots'[j] = slots[j]
    BY <1>0, <1>1, <1>2 DEF TypeOK
<1>6. TypeOK'
  <2>1. slots' \in [Index -> SlotRecord]
      BY <1>0, <1>2, <1>4 DEF TypeOK
  <2>2. byId' \in [DOMAIN byId -> Index \cup {None}]
      BY <1>0, <1>2 DEF TypeOK, ForgetReleased
  <2> QED BY <1>0, <2>1, <2>2 DEF TypeOK
<1>7. ReferencesCountLeases'
  <2>1. \A j \in Index : Cardinality(LeasesOn(j)') =
            IF j = i THEN Cardinality(LeasesOn(j)) - 1 ELSE Cardinality(LeasesOn(j))
      BY <1>0, LeaseDropped
  <2> QED BY <2>1, <1>4, <1>5 DEF ReferencesCountLeases, IInv
<1>8. LeasedSlotKeepsResource'
  <2> SUFFICES ASSUME NEW m \in Lease, leases'[m] # None
               PROVE  /\ slots'[leases'[m].index].generation = leases'[m].generation
                      /\ slots'[leases'[m].index].state = "Ready"
                      /\ slots'[leases'[m].index].resource = leases'[m].resource
      BY DEF LeasedSlotKeepsResource
  <2>1. leases'[m] = leases[m] /\ leases[m] # None /\ m # l
      BY <1>0 DEF TypeOK
  <2>2. /\ leases[m].index \in Index
        /\ slots[leases[m].index].generation = leases[m].generation
        /\ slots[leases[m].index].state = "Ready"
        /\ slots[leases[m].index].resource = leases[m].resource
      BY <2>1, <1>0 DEF TypeOK, LeaseRecord, IInv, LeasedSlotKeepsResource
  <2>3. CASE leases[m].index = i
    <3>1. PICK j \in Index : j = i
        BY <1>1
    <3>3. slots'[j].references # 0
      <4>1. m \in LeasesOn(j)'
          BY <2>1, <2>3, <3>1 DEF LeasesOn
      <4>2. IsFiniteSet(Lease) /\ LeasesOn(j)' \subseteq Lease
          BY DEF LeasesOn
      <4>3. IsFiniteSet(LeasesOn(j)')
          BY <4>2, FS_Subset
      <4>4. Cardinality(LeasesOn(j)') # 0
          BY <4>1, <4>3, FS_EmptySet
      <4>5. slots'[j].references = Cardinality(LeasesOn(j)')
          BY <1>7 DEF ReferencesCountLeases
      <4> QED BY <4>4, <4>5
    <3>2. ~last
        BY <1>1, <1>4, <1>5, <3>1, <3>3
    <3> QED BY <2>1, <2>2, <2>3, <3>2, <1>3, <1>4, <1>5
  <2>4. CASE leases[m].index # i
      BY <2>1, <2>2, <2>4, <1>5
  <2> QED BY <2>3, <2>4
<1>9. UnleasedSlotIsEmpty'
    BY <1>1, <1>4, <1>5 DEF UnleasedSlotIsEmpty, IInv
<1>10. UnusedIndicesAreEmpty'
    BY <1>0, <1>1, <1>5 DEF UnusedIndicesAreEmpty, IInv
<1>11. FallbackAlwaysReady'
  <2>1. i = 0 => ~last
      BY <1>1 DEF IInv, FallbackAlwaysReady
  <2> QED BY <2>1, <1>3, <1>4, <1>5 DEF FallbackAlwaysReady, IInv
<1>12. LoadedSlotIsUnleased'
  <2>1. loading # None => loading.index \in Index \ {i}
      BY <1>0, <1>1 DEF IInv, LoadedSlotIsUnleased
  <2> QED BY <2>1, <1>0, <1>5 DEF LoadedSlotIsUnleased, IInv
<1>13. ByIdInUse'
    BY <1>0, <1>2 DEF ByIdInUse, IInv, ForgetReleased
<1> QED BY <1>6, <1>7, <1>8, <1>9, <1>10, <1>11, <1>12, <1>13 DEF IInv

-----------------------------------------------------------------------------
LEMMA NextKeepsIInv == IInv /\ [Next]_vars => IInv'
<1> SUFFICES ASSUME IInv, [Next]_vars
             PROVE  IInv'
    OBVIOUS
<1> USE IndexFacts, ConstantsAssumption
<1>0. TypeOK /\ InUse \subseteq Index
    BY DEF InUse, IInv
<1>1. ASSUME NEW id \in Id, NEW l \in Lease, LoadShared(id, l) PROVE IInv'
  <2> DEFINE i == byId[id]
  <2>1. i \in InUse /\ slots[i] \in SlotRecord
      BY <1>0, <1>1 DEF LoadShared, IInv, ByIdInUse, TypeOK
  <2>2. slots[i].resource \in Nat
      BY <1>1, <2>1 DEF LoadShared, SlotRecord
  <2> QED BY <1>1, <2>1, <2>2, LeaseTakenKeepsIInv DEF LoadShared
<1>2. ASSUME NEW id \in Id, LoadAgain(id) PROVE IInv'
    BY <1>2, LoadAgainKeepsIInv
<1>3. ASSUME NEW id \in Id, LoadNew(id) PROVE IInv'
    BY <1>3, LoadNewKeepsIInv
<1>4. ASSUME LoadFails PROVE IInv'
    BY <1>4, LoadFailsKeepsIInv
<1>5. ASSUME NEW l \in Lease, LoadPublishes(l) PROVE IInv'
  <2> DEFINE i == loading.index
             rev == slots[i].revision + 1
             s == [slots[i] EXCEPT !.resource = rev, !.state = "Ready", !.revision = rev]
  <2>1. i \in InUse /\ slots[i] \in SlotRecord /\ slots[i].references = 0
      BY <1>0, <1>5 DEF LoadPublishes, IInv, LoadedSlotIsUnleased, TypeOK
  <2>2. rev \in Nat
      BY <2>1 DEF SlotRecord
  <2>4. "Ready" \in States
      BY DEF States
  <2>5. \A n \in Nat, st \in States :
            [slots[i] EXCEPT !.resource = n, !.state = st, !.revision = n] \in SlotRecord
      BY <2>1 DEF SlotRecord
  <2>6. s \in SlotRecord
      BY <2>2, <2>4, <2>5
  <2>7. /\ s.state = "Ready" /\ s.resource \in Nat
        /\ s.references = slots[i].references /\ s.pinned = slots[i].pinned
      BY <2>1, <2>2 DEF SlotRecord
  <2>3. /\ TakeLease(l, i, s)
        /\ loading' = None
        /\ UNCHANGED <<size, byId>>
      BY <1>5 DEF LoadPublishes
  <2> HIDE DEF s
  <2> QED BY <2>1, <2>3, <2>6, <2>7, LeaseTakenKeepsIInv
<1>6. ASSUME NEW l \in Lease, Fallback(l) PROVE IInv'
  <2>1. 0 \in InUse /\ slots[0] \in SlotRecord
      BY <1>0 DEF InUse, TypeOK
  <2>2. slots[0].state = "Ready" /\ slots[0].resource \in Nat
      BY <2>1 DEF IInv, FallbackAlwaysReady, SlotRecord
  <2> QED BY <1>6, <2>1, <2>2, LeaseTakenKeepsIInv DEF Fallback
<1>7. ASSUME NEW l \in Lease, DropLease(l) PROVE IInv'
    BY <1>7, DropLeaseKeepsIInv
<1>8. ASSUME NEW h \in Handle, Unload(h) PROVE IInv'
  <2>1. h.index \in InUse /\ ~slots[h.index].pinned /\ slots[h.index].references = 0
      BY <1>8 DEF Unload, Current
  <2>2. slots' = [i \in Index |-> IF i \in {h.index} THEN Released(slots[i]) ELSE slots[i]]
      BY <1>0, <1>8, <2>1 DEF Unload, TypeOK
  <2> QED BY <1>8, <2>1, <2>2, ReleaseKeepsIInv DEF Unload
<1>9. ASSUME UnloadUnused PROVE IInv'
  <2>1. \A i \in Unused : ~slots[i].pinned /\ slots[i].references = 0
      BY DEF Unused
  <2>2. Unused \in SUBSET InUse
      BY DEF Unused
  <2> QED BY <1>9, <2>1, <2>2, ReleaseKeepsIInv DEF UnloadUnused
<1>10. ASSUME UNCHANGED vars PROVE IInv'
    BY <1>10 DEF vars, IInv, TypeOK, ReferencesCountLeases, LeasesOn, LeasedSlotKeepsResource,
                 UnleasedSlotIsEmpty, UnusedIndicesAreEmpty, FallbackAlwaysReady,
                 LoadedSlotIsUnleased, ByIdInUse, InUse
<1> QED BY <1>1, <1>2, <1>3, <1>4, <1>5, <1>6, <1>7, <1>8, <1>9, <1>10 DEF Next

LEMMA Inductive == Spec => []IInv
<1> QED BY InitIInv, NextKeepsIInv, PTL DEF Spec

(* The pool keeps its types: no count goes below zero and no generation    *)
(* leaves the 32-bit space (makeLease, releaseLease, releaseSlot).         *)
THEOREM TypeCorrect == Spec => []TypeOK
<1>1. IInv => TypeOK
    BY DEF IInv
<1> QED BY <1>1, Inductive, PTL

(* strongReferences counts the live leases of a slot, for any number of    *)
(* threads that drop leases while the owner loads.                         *)
THEOREM CountsAreExact == Spec => []ReferencesCountLeases
<1>1. IInv => ReferencesCountLeases
    BY DEF IInv
<1> QED BY <1>1, Inductive, PTL

(* No load, unload or sweep of any thread takes the resource from under a  *)
(* lease or moves its slot to another generation.                          *)
THEOREM LeasesAreStable == Spec => []LeasedSlotKeepsResource
<1>1. IInv => LeasedSlotKeepsResource
    BY DEF IInv
<1> QED BY <1>1, Inductive, PTL

(* The last release of a slot empties it and a failed load leaves nothing  *)
(* behind, so a slot nobody leases holds no memory.                        *)
THEOREM NothingLeaks == Spec => []UnleasedSlotIsEmpty
<1>1. IInv => UnleasedSlotIsEmpty
    BY DEF IInv
<1> QED BY <1>1, Inductive, PTL

-----------------------------------------------------------------------------
(* What a step may do to the slots in use: none disappears, no generation  *)
(* goes down, and a retired slot stays retired.                            *)
SlotsOnlyAge ==
    \A i \in InUse : /\ i \in InUse'
                     /\ slots'[i].generation >= slots[i].generation
                     /\ slots[i].retired => slots'[i].retired
                     /\ slots'[i].generation \in 1 .. MaxGeneration

(* A step that changes neither generation nor retirement of a slot in use. *)
LEMMA GenerationsKept ==
    ASSUME TypeOK, InUse \subseteq InUse',
           \A i \in InUse : /\ slots'[i].generation = slots[i].generation
                            /\ slots'[i].retired = slots[i].retired
    PROVE  SlotsOnlyAge
<1>1. \A i \in InUse : slots[i].generation \in 1 .. MaxGeneration
    BY DEF TypeOK, SlotRecord, InUse
<1>2. 1 .. MaxGeneration \subseteq Nat
    BY ConstantsAssumption
<1> QED BY <1>1, <1>2 DEF SlotsOnlyAge

LEMMA ReleasedAges ==
    ASSUME NEW s \in SlotRecord
    PROVE  /\ Released(s).generation >= s.generation
           /\ s.retired => Released(s).retired
           /\ Released(s).generation \in 1 .. MaxGeneration
           /\ Released(s).generation = s.generation => Released(s).retired
<1>0. s.generation \in 1 .. MaxGeneration /\ MaxGeneration \in Nat
    BY ConstantsAssumption DEF SlotRecord
<1>1. CASE s.generation = MaxGeneration
  <2>1. Released(s) = [s EXCEPT !.resource = None, !.state = "Unloaded", !.retired = TRUE]
      BY <1>1 DEF Released
  <2> QED BY <1>0, <2>1 DEF SlotRecord
<1>2. CASE s.generation # MaxGeneration
  <2>1. Released(s) = [s EXCEPT !.resource = None, !.state = "Unloaded",
                                !.generation = @ + 1]
      BY <1>2 DEF Released
  <2>2. /\ Released(s).generation = s.generation + 1
        /\ Released(s).retired = s.retired
      BY <2>1 DEF SlotRecord
  <2> QED BY <1>0, <1>2, <2>2
<1> QED BY <1>1, <1>2

(* makeLease changes the generation of no slot.                            *)
LEMMA LeaseTakenAges ==
    ASSUME TypeOK, NEW l \in Lease, NEW i \in InUse, NEW s \in SlotRecord,
           s.generation = slots[i].generation, s.retired = slots[i].retired,
           TakeLease(l, i, s), UNCHANGED size
    PROVE  SlotsOnlyAge
<1>0. i \in Index /\ InUse \subseteq Index /\ InUse' = InUse
    BY DEF InUse
<1>1. slots' = [slots EXCEPT ![i] = [s EXCEPT !.references = @ + 1]]
    BY DEF TakeLease
<1>2. /\ [s EXCEPT !.references = @ + 1].generation = s.generation
      /\ [s EXCEPT !.references = @ + 1].retired = s.retired
    BY DEF SlotRecord
<1> QED BY <1>0, <1>1, <1>2, GenerationsKept DEF TypeOK

LEMMA ReleaseAges ==
    ASSUME TypeOK, NEW S \in SUBSET InUse, UNCHANGED size,
           slots' = [i \in Index |-> IF i \in S THEN Released(slots[i]) ELSE slots[i]]
    PROVE  SlotsOnlyAge
<1> SUFFICES ASSUME NEW i \in InUse
             PROVE  /\ i \in InUse'
                    /\ slots'[i].generation >= slots[i].generation
                    /\ slots[i].retired => slots'[i].retired
                    /\ slots'[i].generation \in 1 .. MaxGeneration
    BY DEF SlotsOnlyAge
<1>1. i \in Index /\ slots[i] \in SlotRecord /\ i \in InUse'
    BY DEF InUse, TypeOK
<1>2. slots[i].generation \in 1 .. MaxGeneration /\ MaxGeneration \in Nat
    BY <1>1, ConstantsAssumption DEF SlotRecord
<1>3. slots'[i] = Released(slots[i]) \/ slots'[i] = slots[i]
    BY <1>1
<1> QED BY <1>1, <1>2, <1>3, ReleasedAges

LEMMA StepsOnlyAge == IInv /\ [Next]_vars => SlotsOnlyAge
<1> SUFFICES ASSUME IInv, [Next]_vars
             PROVE  SlotsOnlyAge
    OBVIOUS
<1> USE IndexFacts, ConstantsAssumption
<1>0. TypeOK /\ InUse \subseteq Index
    BY DEF InUse, IInv
<1>1. ASSUME NEW id \in Id, NEW l \in Lease, LoadShared(id, l) PROVE SlotsOnlyAge
  <2>1. byId[id] \in InUse /\ slots[byId[id]] \in SlotRecord
      BY <1>0, <1>1 DEF LoadShared, IInv, ByIdInUse, TypeOK
  <2> QED BY <1>0, <1>1, <2>1, LeaseTakenAges DEF LoadShared
<1>2. ASSUME NEW id \in Id, LoadAgain(id) PROVE SlotsOnlyAge
  <2>1. InUse' = InUse
      BY <1>2 DEF LoadAgain, InUse
  <2>2. slots' = [slots EXCEPT ![byId[id]].state = "Loading"]
      BY <1>2 DEF LoadAgain
  <2> QED BY <1>0, <2>1, <2>2, GenerationsKept DEF TypeOK, SlotRecord
<1>3. ASSUME NEW id \in Id, LoadNew(id) PROVE SlotsOnlyAge
  <2>1. size \in Nat
    <3>1. size \in 1 .. MaxIndex + 1
        BY <1>0 DEF TypeOK
    <3> QED BY <3>1
  <2>3. size' = size + 1
      BY <1>3 DEF LoadNew
  <2>4. InUse \subseteq InUse' /\ size \notin InUse
    <3>1. \A i \in Index : i < size => i < size'
        BY <2>1, <2>3
    <3>2. ~(size < size)
        BY <2>1
    <3> QED BY <3>1, <3>2 DEF InUse
  <2>2. \A i \in InUse : slots'[i] = slots[i]
      BY <1>0, <1>3, <2>4 DEF LoadNew, TypeOK
  <2> QED BY <1>0, <2>4, <2>2, GenerationsKept
<1>4. ASSUME LoadFails PROVE SlotsOnlyAge
  <2>1. InUse' = InUse
      BY <1>4 DEF LoadFails, InUse
  <2>2. slots' = [slots EXCEPT ![loading.index].state = "Failed",
                               ![loading.index].resource = None]
      BY <1>4 DEF LoadFails
  <2> QED BY <1>0, <2>1, <2>2, GenerationsKept DEF TypeOK, SlotRecord
<1>5. ASSUME NEW l \in Lease, LoadPublishes(l) PROVE SlotsOnlyAge
  <2> DEFINE i == loading.index
             rev == slots[i].revision + 1
             s == [slots[i] EXCEPT !.resource = rev, !.state = "Ready", !.revision = rev]
  <2>1. i \in InUse /\ slots[i] \in SlotRecord
      BY <1>0, <1>5 DEF LoadPublishes, IInv, LoadedSlotIsUnleased, TypeOK
  <2>2. rev \in Nat
      BY <2>1 DEF SlotRecord
  <2>3. "Ready" \in States
      BY DEF States
  <2>4. \A n \in Nat, st \in States :
            [slots[i] EXCEPT !.resource = n, !.state = st, !.revision = n] \in SlotRecord
      BY <2>1 DEF SlotRecord
  <2>5. s \in SlotRecord
      BY <2>2, <2>3, <2>4
  <2>6. s.generation = slots[i].generation /\ s.retired = slots[i].retired
      BY <2>1 DEF SlotRecord
  <2>7. TakeLease(l, i, s) /\ UNCHANGED size
      BY <1>5 DEF LoadPublishes
  <2> HIDE DEF s
  <2> QED BY <1>0, <2>1, <2>5, <2>6, <2>7, LeaseTakenAges
<1>6. ASSUME NEW l \in Lease, Fallback(l) PROVE SlotsOnlyAge
  <2>1. 0 \in InUse /\ slots[0] \in SlotRecord
      BY <1>0 DEF InUse, TypeOK
  <2> QED BY <1>0, <1>6, <2>1, LeaseTakenAges DEF Fallback
<1>7. ASSUME NEW l \in Lease, DropLease(l) PROVE SlotsOnlyAge
  <2> SUFFICES ASSUME NEW i \in InUse
               PROVE  /\ i \in InUse'
                      /\ slots'[i].generation >= slots[i].generation
                      /\ slots[i].retired => slots'[i].retired
                      /\ slots'[i].generation \in 1 .. MaxGeneration
      BY DEF SlotsOnlyAge
  <2> DEFINE fewer == [slots[i] EXCEPT !.references = @ - 1]
  <2>1. i \in Index /\ slots[i] \in SlotRecord /\ i \in InUse'
      BY <1>0, <1>7 DEF InUse, TypeOK, DropLease
  <2>2. slots[i].generation \in 1 .. MaxGeneration /\ MaxGeneration \in Nat
      BY <2>1 DEF SlotRecord
  <2>3. \/ slots'[i] = slots[i]
        \/ slots'[i] = fewer
        \/ slots'[i] = Released(fewer) /\ slots[i].references # 0
      BY <2>1, <1>0, <1>7 DEF DropLease, TypeOK
  <2>4. fewer.generation = slots[i].generation /\ fewer.retired = slots[i].retired
      BY <2>1 DEF SlotRecord
  <2>5. slots[i].references # 0 => fewer \in SlotRecord
    <3>1. \A n \in Nat : [slots[i] EXCEPT !.references = n] \in SlotRecord
        BY <2>1 DEF SlotRecord
    <3>2. slots[i].references \in Nat
        BY <2>1 DEF SlotRecord
    <3> QED BY <3>1, <3>2
  <2> HIDE DEF fewer
  <2> QED BY <2>1, <2>2, <2>3, <2>4, <2>5, ReleasedAges
<1>8. ASSUME NEW h \in Handle, Unload(h) PROVE SlotsOnlyAge
  <2>1. h.index \in InUse /\ {h.index} \in SUBSET InUse /\ UNCHANGED size
      BY <1>8 DEF Unload, Current
  <2>2. slots' = [i \in Index |-> IF i \in {h.index} THEN Released(slots[i]) ELSE slots[i]]
      BY <1>0, <1>8, <2>1 DEF Unload, TypeOK
  <2> QED BY <1>0, <2>1, <2>2, ReleaseAges
<1>9. ASSUME UnloadUnused PROVE SlotsOnlyAge
  <2>1. Unused \in SUBSET InUse /\ UNCHANGED size
      BY <1>9 DEF Unused, UnloadUnused
  <2> QED BY <1>0, <1>9, <2>1, ReleaseAges DEF UnloadUnused
<1>10. ASSUME UNCHANGED vars PROVE SlotsOnlyAge
    BY <1>0, <1>10, GenerationsKept DEF vars, InUse
<1> QED BY <1>1, <1>2, <1>3, <1>4, <1>5, <1>6, <1>7, <1>8, <1>9, <1>10 DEF Next

(* A handle that checkedSlot rejects once is rejected for ever: releaseSlot *)
(* retires the slot rather than let its 32-bit generation wrap.             *)
THEOREM StaleHandlesStayStale == Spec => StaleForever
<1>1. IInv /\ SlotsOnlyAge =>
          \A h \in Handle : Issued(h) /\ ~Current(h) => ~Current(h)'
  <2> SUFFICES ASSUME IInv, SlotsOnlyAge, NEW h \in Handle, Issued(h), ~Current(h)
               PROVE  ~Current(h)'
      OBVIOUS
  <2> DEFINE i == h.index
  <2>1. /\ i \in InUse /\ slots[i].generation \in 1 .. MaxGeneration
        /\ h.generation \in 1 .. MaxGeneration /\ MaxGeneration \in Nat
        /\ h.generation <= slots[i].generation
      BY ConstantsAssumption DEF Issued, IInv, TypeOK, InUse, SlotRecord, Handle
  <2>2. slots[i].retired \/ slots[i].generation # h.generation
      BY <2>1 DEF Current
  <2>3. /\ slots'[i].generation >= slots[i].generation
        /\ slots[i].retired => slots'[i].retired
        /\ slots'[i].generation \in 1 .. MaxGeneration
      BY <2>1 DEF SlotsOnlyAge
  <2>4. slots'[i].retired \/ slots'[i].generation # h.generation
      BY <2>1, <2>2, <2>3
  <2> QED BY <2>4 DEF Current
<1> QED BY <1>1, StepsOnlyAge, Inductive, PTL DEF Spec, StaleForever

-----------------------------------------------------------------------------
(* The slots that byId finds, if nobody sweeps while the owner reads: a    *)
(* retired slot is not used again, and the slot of a load is not retired.  *)
SlotIdsAreKnown == \A i \in InUse : slots[i].id \in DOMAIN byId
RetiredIsUnloaded == \A i \in InUse : slots[i].retired => slots[i].state = "Unloaded"
LoadedSlotIsLive == loading # None => ~slots[loading.index].retired

ByIdInv == ByIdFindsLiveSlots /\ SlotIdsAreKnown /\ RetiredIsUnloaded /\ LoadedSlotIsLive

(* A slot that is not retired is the one that byId finds under its id.     *)
LEMMA LiveSlotIsFound ==
    ASSUME ByIdInv
    PROVE  \A i \in InUse : ~slots[i].retired => byId[slots[i].id] = i
BY DEF ByIdInv, ByIdFindsLiveSlots

(* A step that changes the state of slots, but not who they are.           *)
LEMMA SameSlotsKeepById ==
    ASSUME ByIdInv, UNCHANGED <<size, byId>>,
           \A i \in InUse : slots'[i].id = slots[i].id /\ slots'[i].retired = slots[i].retired
    PROVE  ByIdFindsLiveSlots' /\ SlotIdsAreKnown'
<1>1. InUse' = InUse
    BY DEF InUse
<1> QED BY <1>1 DEF ByIdInv, ByIdFindsLiveSlots, SlotIdsAreKnown

(* releaseSlot on slots that are not retired: it forgets the ones it       *)
(* retires, and no other is found under their ids.                         *)
LEMMA ReleasedSlotsKeepById ==
    ASSUME ByIdInv, NEW S \in SUBSET InUse, \A i \in S : ~slots[i].retired,
           UNCHANGED size, ForgetReleased(S),
           \A i \in InUse :
               /\ slots'[i].id = slots[i].id
               /\ slots'[i].retired <=>
                      slots[i].retired \/ (i \in S /\ slots[i].generation = MaxGeneration)
    PROVE  ByIdFindsLiveSlots' /\ SlotIdsAreKnown'
<1>0. InUse' = InUse /\ DOMAIN byId' = DOMAIN byId
    BY DEF InUse, ForgetReleased
<1>1. SlotIdsAreKnown'
    BY <1>0 DEF ByIdInv, SlotIdsAreKnown
<1>2. \A id \in DOMAIN byId : byId'[id] = IF id \in Forgotten(S) THEN None ELSE byId[id]
    BY DEF ForgetReleased
<1>3. \A i \in InUse : None # i
    BY ConstantsAssumption DEF InUse, Index
<1>4. ASSUME NEW id \in DOMAIN byId', byId'[id] # None
      PROVE  byId'[id] \in InUse' /\ slots'[byId'[id]].id = id
  <2>1. byId'[id] = byId[id] /\ id \in DOMAIN byId
      BY <1>0, <1>2, <1>4
  <2> QED BY <1>0, <1>4, <2>1 DEF ByIdInv, ByIdFindsLiveSlots
<1>5. ASSUME NEW i \in InUse
      PROVE  slots'[i].retired <=> byId'[slots'[i].id] # i
  <2> DEFINE id == slots[i].id
  <2>1. id \in DOMAIN byId /\ slots'[i].id = id
      BY DEF ByIdInv, SlotIdsAreKnown
  <2>2. CASE id \in Forgotten(S)
    <3>1. PICK j \in S : slots[j].generation = MaxGeneration /\ slots[j].id = id
        BY <2>2 DEF Forgotten
    <3>2. byId[id] = j
        BY <3>1, LiveSlotIsFound
    <3>3. i # j => slots[i].retired
        BY <3>2, LiveSlotIsFound
    <3> QED BY <1>2, <1>3, <2>1, <2>2, <3>1, <3>3
  <2>3. CASE id \notin Forgotten(S)
    <3>1. byId'[id] = byId[id]
        BY <1>2, <2>1, <2>3
    <3>2. ~(i \in S /\ slots[i].generation = MaxGeneration)
        BY <2>3 DEF Forgotten
    <3>3. slots[i].retired <=> byId[id] # i
        BY DEF ByIdInv, ByIdFindsLiveSlots
    <3> QED BY <2>1, <3>1, <3>2, <3>3
  <2> QED BY <2>2, <2>3
<1> QED BY <1>0, <1>1, <1>4, <1>5 DEF ByIdFindsLiveSlots

(* The same, for the slots of unload and unloadUnused and the last lease.  *)
LEMMA ReleaseKeepsById ==
    ASSUME IInv, ByIdInv, NEW S \in SUBSET InUse, \A i \in S : ~slots[i].retired,
           NEW held \in [Index -> SlotRecord],
           \A i \in InUse : /\ held[i].id = slots[i].id
                            /\ held[i].generation = slots[i].generation
                            /\ held[i].retired = slots[i].retired
                            /\ slots[i].retired => held[i].state = "Unloaded",
           \A i \in InUse : slots'[i] = IF i \in S THEN Released(held[i]) ELSE held[i],
           UNCHANGED size, ForgetReleased(S), loading' = loading,
           loading # None => loading.index \in InUse \ S
    PROVE  ByIdInv'
<1>0. InUse \subseteq Index /\ InUse' = InUse
    BY DEF InUse
<1>1. ASSUME NEW s \in SlotRecord
      PROVE  /\ Released(s).id = s.id
             /\ Released(s).state = "Unloaded"
             /\ Released(s).retired <=> s.retired \/ s.generation = MaxGeneration
  <2>1. CASE s.generation = MaxGeneration
    <3>1. Released(s) = [s EXCEPT !.resource = None, !.state = "Unloaded", !.retired = TRUE]
        BY <2>1 DEF Released
    <3> QED BY <2>1, <3>1 DEF SlotRecord
  <2>2. CASE s.generation # MaxGeneration
    <3>1. Released(s) = [s EXCEPT !.resource = None, !.state = "Unloaded", !.generation = @ + 1]
        BY <2>2 DEF Released
    <3> QED BY <2>2, <3>1 DEF SlotRecord
  <2> QED BY <2>1, <2>2
<1>2. \A i \in InUse : held[i] \in SlotRecord
    BY <1>0
<1>3. \A i \in InUse :
          /\ slots'[i].id = slots[i].id
          /\ slots'[i].retired <=>
                 slots[i].retired \/ (i \in S /\ slots[i].generation = MaxGeneration)
          /\ slots'[i].state = IF i \in S THEN "Unloaded" ELSE held[i].state
    BY <1>1, <1>2
<1>4. ByIdFindsLiveSlots' /\ SlotIdsAreKnown'
    BY <1>3, ReleasedSlotsKeepById
<1>5. RetiredIsUnloaded'
    BY <1>0, <1>3 DEF RetiredIsUnloaded
<1>6. LoadedSlotIsLive'
    BY <1>3 DEF ByIdInv, LoadedSlotIsLive
<1> QED BY <1>4, <1>5, <1>6 DEF ByIdInv

(* makeLease leaves a slot's id and retirement alone.                      *)
LEMMA LeaseTakenKeepsById ==
    ASSUME IInv, ByIdInv, NEW l \in Lease, NEW i \in InUse, NEW s \in SlotRecord,
           s.id = slots[i].id, s.retired = slots[i].retired, ~s.retired,
           TakeLease(l, i, s), UNCHANGED <<size, byId>>, loading' \in {loading, None}
    PROVE  ByIdInv'
<1>0. InUse \subseteq Index /\ InUse' = InUse /\ TypeOK
    BY DEF InUse, IInv
<1>1. slots' = [slots EXCEPT ![i] = [s EXCEPT !.references = @ + 1]]
    BY DEF TakeLease
<1>2. /\ [s EXCEPT !.references = @ + 1].id = s.id
      /\ [s EXCEPT !.references = @ + 1].retired = s.retired
    BY DEF SlotRecord
<1>3. \A j \in InUse : slots'[j].id = slots[j].id /\ slots'[j].retired = slots[j].retired
    BY <1>0, <1>1, <1>2 DEF TypeOK
<1>4. ByIdFindsLiveSlots' /\ SlotIdsAreKnown'
    BY <1>3, SameSlotsKeepById
<1>5. RetiredIsUnloaded'
    BY <1>0, <1>1, <1>2, <1>3 DEF ByIdInv, RetiredIsUnloaded, TypeOK
<1>6. LoadedSlotIsLive'
    BY <1>0, <1>3 DEF ByIdInv, LoadedSlotIsLive, IInv, LoadedSlotIsUnleased
<1> QED BY <1>4, <1>5, <1>6 DEF ByIdInv

LEMMA InitByIdInv == Init => ByIdInv
BY ConstantsAssumption, IndexFacts
   DEF Init, ByIdInv, ByIdFindsLiveSlots, SlotIdsAreKnown, RetiredIsUnloaded, LoadedSlotIsLive,
       InUse, FallbackSlot

LEMMA NextKeepsByIdInv ==
    ASSUME ~SweepDuringLoad, IInv, ByIdInv, [Next]_vars
    PROVE  ByIdInv'
<1> USE IndexFacts, ConstantsAssumption
<1>0. TypeOK /\ InUse \subseteq Index
    BY DEF InUse, IInv
<1>f. \A id \in Id : byId[id] # None =>
          /\ byId[id] \in InUse
          /\ slots[byId[id]] \in SlotRecord
          /\ ~slots[byId[id]].retired
    BY <1>0, ZenonT(60) DEF ByIdInv, ByIdFindsLiveSlots, TypeOK
<1>1. ASSUME NEW id \in Id, NEW l \in Lease, LoadShared(id, l) PROVE ByIdInv'
    BY <1>1, <1>f, LeaseTakenKeepsById DEF LoadShared
<1>2. ASSUME NEW id \in Id, LoadAgain(id) PROVE ByIdInv'
  <2> DEFINE i == byId[id]
  <2>1. i \in InUse /\ ~slots[i].retired
      BY <1>2, <1>f DEF LoadAgain
  <2>2. \A j \in InUse : /\ slots'[j].id = slots[j].id /\ slots'[j].retired = slots[j].retired
                         /\ j # i => slots'[j] = slots[j]
      BY <1>0, <1>2 DEF LoadAgain, TypeOK, SlotRecord
  <2>3. ByIdFindsLiveSlots' /\ SlotIdsAreKnown'
      BY <1>2, <2>2, SameSlotsKeepById DEF LoadAgain
  <2>4. InUse' = InUse
      BY <1>2 DEF InUse, LoadAgain
  <2>5. RetiredIsUnloaded'
      BY <2>1, <2>2, <2>4 DEF ByIdInv, RetiredIsUnloaded
  <2>6. LoadedSlotIsLive'
      BY <1>2, <2>1, <2>2 DEF LoadedSlotIsLive, LoadAgain
  <2> QED BY <2>3, <2>5, <2>6 DEF ByIdInv
<1>3. ASSUME NEW id \in Id, LoadNew(id) PROVE ByIdInv'
  <2>1. size \in Index /\ size \notin InUse /\ size \in InUse' /\ InUse' = InUse \cup {size}
      BY <1>0, <1>3 DEF LoadNew, TypeOK, InUse, Index
  <2>2. slots'[size] = NewSlot(id) /\ \A j \in InUse : slots'[j] = slots[j]
      BY <1>0, <1>3, <2>1 DEF LoadNew, TypeOK
  <2>3. /\ DOMAIN byId' = DOMAIN byId /\ id \in DOMAIN byId /\ byId[id] = None
        /\ byId'[id] = size /\ \A other \in DOMAIN byId \ {id} : byId'[other] = byId[other]
      BY <1>0, <1>3 DEF LoadNew, TypeOK
  <2>4. NewSlot(id).id = id /\ NewSlot(id).retired = FALSE
      BY DEF NewSlot
  <2>5. SlotIdsAreKnown' /\ RetiredIsUnloaded'
      BY <2>1, <2>2, <2>3, <2>4 DEF ByIdInv, SlotIdsAreKnown, RetiredIsUnloaded
  <2>6. \A i \in InUse : slots[i].retired <=> byId'[slots[i].id] # i
    <3> SUFFICES ASSUME NEW i \in InUse
                 PROVE  slots[i].retired <=> byId'[slots[i].id] # i
        OBVIOUS
    <3>1. slots[i].id \in DOMAIN byId /\ (slots[i].retired <=> byId[slots[i].id] # i)
        BY DEF ByIdInv, SlotIdsAreKnown, ByIdFindsLiveSlots
    <3>2. CASE slots[i].id = id
      <4>1. None # i /\ size # i
          BY <2>1 DEF InUse, Index
      <4> QED BY <2>3, <3>1, <3>2, <4>1
    <3>3. CASE slots[i].id # id
        BY <2>3, <3>1, <3>3
    <3> QED BY <3>2, <3>3
  <2>9. \A other \in DOMAIN byId' : byId'[other] # None =>
            byId'[other] \in InUse' /\ slots'[byId'[other]].id = other
    <3>1. \A other \in DOMAIN byId \ {id} : byId[other] # None =>
              byId[other] \in InUse /\ slots[byId[other]].id = other
        BY DEF ByIdInv, ByIdFindsLiveSlots
    <3>2. byId'[id] \in InUse' /\ slots'[byId'[id]].id = id
        BY <2>1, <2>2, <2>3, <2>4
    <3>3. \A other \in DOMAIN byId \ {id} : byId'[other] # None =>
              byId'[other] \in InUse' /\ slots'[byId'[other]].id = other
      <4> SUFFICES ASSUME NEW other \in DOMAIN byId \ {id}, byId'[other] # None
                   PROVE  byId'[other] \in InUse' /\ slots'[byId'[other]].id = other
          OBVIOUS
      <4>1. byId'[other] = byId[other]
          BY <2>3
      <4>2. byId[other] \in InUse /\ slots[byId[other]].id = other
          BY <3>1, <4>1
      <4> QED BY <2>1, <2>2, <4>1, <4>2
    <3> QED BY <2>3, <3>2, <3>3
  <2>10. \A i \in InUse' : slots'[i].retired <=> byId'[slots'[i].id] # i
      BY <2>1, <2>2, <2>3, <2>4, <2>6
  <2>7. ByIdFindsLiveSlots'
      BY <2>9, <2>10 DEF ByIdFindsLiveSlots
  <2>8. LoadedSlotIsLive'
      BY <1>3, <2>2, <2>4 DEF LoadNew, LoadedSlotIsLive
  <2> QED BY <2>5, <2>7, <2>8 DEF ByIdInv
<1>4. ASSUME LoadFails PROVE ByIdInv'
  <2> DEFINE i == loading.index
  <2>1. i \in InUse /\ ~slots[i].retired
      BY <1>4 DEF LoadFails, IInv, LoadedSlotIsUnleased, ByIdInv, LoadedSlotIsLive
  <2>2. \A j \in InUse : /\ slots'[j].id = slots[j].id /\ slots'[j].retired = slots[j].retired
                         /\ j # i => slots'[j] = slots[j]
      BY <1>0, <1>4 DEF LoadFails, TypeOK, SlotRecord
  <2>3. ByIdFindsLiveSlots' /\ SlotIdsAreKnown'
      BY <1>4, <2>2, SameSlotsKeepById DEF LoadFails
  <2>4. InUse' = InUse /\ loading' = None
      BY <1>4 DEF InUse, LoadFails
  <2>5. RetiredIsUnloaded' /\ LoadedSlotIsLive'
      BY <2>1, <2>2, <2>4 DEF ByIdInv, RetiredIsUnloaded, LoadedSlotIsLive
  <2> QED BY <2>3, <2>5 DEF ByIdInv
<1>5. ASSUME NEW l \in Lease, LoadPublishes(l) PROVE ByIdInv'
  <2> DEFINE i == loading.index
             rev == slots[i].revision + 1
             s == [slots[i] EXCEPT !.resource = rev, !.state = "Ready", !.revision = rev]
  <2>1. i \in InUse /\ slots[i] \in SlotRecord /\ ~slots[i].retired
      BY <1>0, <1>5 DEF LoadPublishes, IInv, LoadedSlotIsUnleased, ByIdInv, LoadedSlotIsLive, TypeOK
  <2>2. rev \in Nat /\ "Ready" \in States
      BY <2>1 DEF SlotRecord, States
  <2>3. \A n \in Nat, st \in States :
            [slots[i] EXCEPT !.resource = n, !.state = st, !.revision = n] \in SlotRecord
      BY <2>1 DEF SlotRecord
  <2>4. s \in SlotRecord
      BY <2>2, <2>3
  <2>5. s.id = slots[i].id /\ s.retired = slots[i].retired
      BY <2>1 DEF SlotRecord
  <2>6. TakeLease(l, i, s) /\ loading' = None /\ UNCHANGED <<size, byId>>
      BY <1>5 DEF LoadPublishes
  <2> HIDE DEF s
  <2> QED BY <2>1, <2>4, <2>5, <2>6, LeaseTakenKeepsById
<1>6. ASSUME NEW l \in Lease, Fallback(l) PROVE ByIdInv'
  <2>1. 0 \in InUse /\ slots[0] \in SlotRecord
      BY <1>0 DEF InUse, TypeOK
  <2>2. ~slots[0].retired
      BY <2>1 DEF IInv, FallbackAlwaysReady, ByIdInv, RetiredIsUnloaded
  <2> QED BY <1>6, <2>1, <2>2, LeaseTakenKeepsById DEF Fallback
<1>7. ASSUME NEW l \in Lease, DropLease(l) PROVE ByIdInv'
  <2> DEFINE i == leases[l].index
             fewer == [slots[i] EXCEPT !.references = @ - 1]
             last == slots[i].references = 1 /\ ~slots[i].pinned
             held == [slots EXCEPT ![i] = fewer]
             S == IF last THEN {i} ELSE {}
  <2>1. /\ leases[l] # None /\ i \in InUse /\ slots[i] \in SlotRecord
        /\ slots[i].references \in Nat \ {0}
      BY <1>0, <1>7, LeasedIsCounted DEF DropLease, IInv, TypeOK
  <2>2. slots[i].generation = leases[l].generation /\ slots[i].state = "Ready"
      BY <2>1 DEF IInv, LeasedSlotKeepsResource
  <2>3. ~slots[i].retired
      BY <2>1, <2>2 DEF ByIdInv, RetiredIsUnloaded
  <2>4. /\ slots' = [slots EXCEPT ![i] = IF last THEN Released(fewer) ELSE fewer]
        /\ ForgetReleased(S)
        /\ UNCHANGED <<size, loading>>
      BY <1>7, <2>1, <2>2 DEF DropLease
  <2>5. /\ fewer \in SlotRecord /\ fewer.id = slots[i].id
        /\ fewer.generation = slots[i].generation /\ fewer.retired = slots[i].retired
    <3>1. \A n \in Nat : [slots[i] EXCEPT !.references = n] \in SlotRecord
        BY <2>1 DEF SlotRecord
    <3>2. slots[i].references - 1 \in Nat
        BY <2>1
    <3> QED BY <2>1, <3>1, <3>2 DEF SlotRecord
  <2>6. held \in [Index -> SlotRecord] /\ held[i] = fewer /\ \A j \in Index \ {i} : held[j] = slots[j]
      BY <1>0, <2>1, <2>5 DEF TypeOK
  <2>7. S \in SUBSET InUse /\ \A j \in S : ~slots[j].retired
      BY <2>1, <2>3
  <2>8. loading # None => loading.index \in InUse \ S
      BY <2>1 DEF IInv, LoadedSlotIsUnleased
  <2>9. \A j \in InUse : slots'[j] = IF j \in S THEN Released(held[j]) ELSE held[j]
      BY <1>0, <2>1, <2>4, <2>6 DEF TypeOK
  <2>10. \A j \in InUse : /\ held[j].id = slots[j].id
                          /\ held[j].generation = slots[j].generation
                          /\ held[j].retired = slots[j].retired
                          /\ slots[j].retired => held[j].state = "Unloaded"
      BY <1>0, <2>3, <2>5, <2>6 DEF ByIdInv, RetiredIsUnloaded
  <2> HIDE DEF held, S, fewer, last, i
  <2> QED BY <2>4, <2>6, <2>7, <2>8, <2>9, <2>10, ReleaseKeepsById
<1>8. ASSUME NEW h \in Handle, Unload(h) PROVE ByIdInv'
  <2>1. {h.index} \in SUBSET InUse /\ ~slots[h.index].retired /\ loading = None
      BY <1>8 DEF Unload, Current
  <2>2. \A j \in InUse : slots'[j] = IF j \in {h.index} THEN Released(slots[j]) ELSE slots[j]
      BY <1>0, <1>8, <2>1 DEF Unload, TypeOK
  <2> QED BY <1>0, <1>8, <2>1, <2>2, ReleaseKeepsById DEF Unload, TypeOK, ByIdInv, RetiredIsUnloaded
<1>9. ASSUME UnloadUnused PROVE ByIdInv'
  <2>1. Unused \in SUBSET InUse /\ (\A i \in Unused : ~slots[i].retired) /\ loading = None
      BY <1>9 DEF Unused, UnloadUnused
  <2>2. \A j \in InUse : slots'[j] = IF j \in Unused THEN Released(slots[j]) ELSE slots[j]
      BY <1>0, <1>9 DEF UnloadUnused
  <2> QED BY <1>0, <1>9, <2>1, <2>2, ReleaseKeepsById DEF UnloadUnused, TypeOK, ByIdInv, RetiredIsUnloaded
<1>10. ASSUME UNCHANGED vars PROVE ByIdInv'
    BY <1>10 DEF vars, ByIdInv, ByIdFindsLiveSlots, SlotIdsAreKnown, RetiredIsUnloaded,
                 LoadedSlotIsLive, InUse
<1> QED BY <1>1, <1>2, <1>3, <1>4, <1>5, <1>6, <1>7, <1>8, <1>9, <1>10 DEF Next

(* If nobody sweeps while the owner reads without the lock, byId finds     *)
(* every slot that is not retired and no other, so that no asset is loaded *)
(* into two slots (load, releaseSlot).                                     *)
THEOREM ByIdIsExact ==
    ASSUME ~SweepDuringLoad
    PROVE  Spec => []ByIdFindsLiveSlots
<1>1. IInv /\ ByIdInv /\ [Next]_vars => ByIdInv'
    BY NextKeepsByIdInv
<1>2. ByIdInv => ByIdFindsLiveSlots
    BY DEF ByIdInv
<1> QED BY <1>1, <1>2, InitByIdInv, Inductive, PTL DEF Spec

-----------------------------------------------------------------------------
(* The objects of the refinement: a resource is one of the revisions under *)
(* which its slot was published, and slot 0 is the fallback's.             *)
ObjectsInv ==
    /\ slots[0].id = FallbackId
    /\ \A i \in InUse :
           /\ slots[i].revision \in 0 .. MaxRevision
           /\ slots[i].resource # None => slots[i].resource \in 1 .. slots[i].revision

RefinementInv == IInv /\ ByIdInv /\ ObjectsInv

(* A step that publishes nothing.                                          *)
SameObjects ==
    /\ InUse \subseteq InUse'
    /\ \A i \in InUse : /\ slots'[i].id = slots[i].id
                        /\ slots'[i].revision = slots[i].revision
                        /\ slots'[i].resource \in {slots[i].resource, None}
    /\ \A i \in InUse' \ InUse : slots'[i].revision = 0 /\ slots'[i].resource = None

LEMMA InUseFacts ==
    ASSUME TypeOK
    PROVE  /\ InUse \subseteq Index /\ InUse \subseteq Nat /\ 0 \in InUse
           /\ \A i \in InUse : slots[i] \in SlotRecord /\ slots[i].revision \in Nat
<1>1. InUse \subseteq Index /\ 0 \in InUse
    BY IndexFacts, ConstantsAssumption DEF InUse, TypeOK
<1>2. \A i \in InUse : slots[i] \in SlotRecord
    BY <1>1, SlotTypes
<1> QED BY <1>1, <1>2, IndexFacts DEF SlotRecord

LEMMA ReleasedKeepsObject ==
    ASSUME NEW s \in SlotRecord
    PROVE  /\ Released(s).id = s.id
           /\ Released(s).revision = s.revision
           /\ Released(s).resource = None
<1>1. CASE s.generation = MaxGeneration
  <2>1. Released(s) = [s EXCEPT !.resource = None, !.state = "Unloaded", !.retired = TRUE]
      BY <1>1 DEF Released
  <2> QED BY <2>1 DEF SlotRecord
<1>2. CASE s.generation # MaxGeneration
  <2>1. Released(s) = [s EXCEPT !.resource = None, !.state = "Unloaded", !.generation = @ + 1]
      BY <1>2 DEF Released
  <2> QED BY <2>1 DEF SlotRecord
<1> QED BY <1>1, <1>2

LEMMA SameObjectsKept ==
    ASSUME TypeOK, ObjectsInv, SameObjects
    PROVE  ObjectsInv' /\ Published' = Published
<1>1. ObjectsInv'
  <2>1. slots'[0].id = FallbackId
      BY InUseFacts DEF ObjectsInv, SameObjects
  <2>2. ASSUME NEW i \in InUse'
        PROVE  /\ slots'[i].revision \in 0 .. MaxRevision
               /\ slots'[i].resource # None => slots'[i].resource \in 1 .. slots'[i].revision
    <3>1. CASE i \in InUse
        BY <3>1 DEF ObjectsInv, SameObjects
    <3>2. CASE i \notin InUse
        BY <2>2, <3>2, ConstantsAssumption DEF SameObjects
    <3> QED BY <3>1, <3>2
  <2> QED BY <2>1, <2>2 DEF ObjectsInv
<1>2. ASSUME NEW i, NEW r \in 1 .. MaxRevision
      PROVE  i \in InUse /\ r <= slots[i].revision <=> i \in InUse' /\ r <= slots'[i].revision
  <2>1. i \in InUse' \ InUse => slots'[i].revision = 0
      BY DEF SameObjects
  <2>2. ~ (r <= 0)
      BY ConstantsAssumption
  <2> QED BY <2>1, <2>2 DEF SameObjects
<1>3. Published' = Published
  <2>1. \A p : p \in Published <=>
            p \in InUse \X (1 .. MaxRevision) /\ p[2] <= slots[p[1]].revision
      BY DEF Published
  <2>2. \A p : p \in Published' <=>
            p \in InUse' \X (1 .. MaxRevision) /\ p[2] <= slots'[p[1]].revision
      BY DEF Published
  <2>3. ASSUME NEW p
        PROVE  p \in Published' <=> p \in Published
    <3>1. p \in Published' => p[1] \in InUse' /\ p[2] \in 1 .. MaxRevision /\ p = <<p[1], p[2]>>
        BY <2>2
    <3>2. p \in Published => p[1] \in InUse /\ p[2] \in 1 .. MaxRevision /\ p = <<p[1], p[2]>>
        BY <2>1
    <3> QED BY <1>2, <2>1, <2>2, <3>1, <3>2
  <2> QED BY <2>3
<1> QED BY <1>1, <1>3

-----------------------------------------------------------------------------
(* What a lease holds, and who holds an asset.                             *)
LEMMA HeldFacts ==
    ASSUME RefinementInv, NEW l \in Lease, leases[l] # None
    PROVE  /\ leases[l].index \in InUse
           /\ Held(l) # None
           /\ Held(l).asset = slots[leases[l].index].id
           /\ Held(l).object = <<leases[l].index, leases[l].resource>>
           /\ slots[leases[l].index].id \in Id \cup {FallbackId}
           /\ byId[slots[leases[l].index].id] = leases[l].index
           /\ slots[leases[l].index].resource = leases[l].resource
<1> DEFINE i == leases[l].index
<1>1. i \in InUse /\ leases[l].resource \in Nat
    BY LeasedIsCounted DEF RefinementInv, IInv, TypeOK, LeaseRecord
<1>2. slots[i].state = "Ready" /\ slots[i].resource = leases[l].resource
    BY DEF RefinementInv, IInv, LeasedSlotKeepsResource
<1>3. slots[i].id \in Id \cup {FallbackId}
    BY <1>1 DEF RefinementInv, ByIdInv, SlotIdsAreKnown, IInv, TypeOK
<1>4. byId[slots[i].id] = i
    BY <1>1, <1>2, LiveSlotIsFound DEF RefinementInv, ByIdInv, RetiredIsUnloaded
<1>5. Held(l) = [asset |-> slots[i].id, object |-> <<i, leases[l].resource>>]
    BY DEF Held
<1>6. i \in Index
    BY <1>1 DEF InUse
<1>7. Held(l) \in [asset: Id \cup {FallbackId}, object: Index \X Nat]
    BY <1>1, <1>3, <1>5, <1>6
<1> QED BY <1>1, <1>2, <1>3, <1>4, <1>5, <1>7, HeldAssumption

LEMMA HoldersAreLeases ==
    ASSUME RefinementInv, NEW i \in InUse, ~slots[i].retired
    PROVE  Table!Holders(slots[i].id) = LeasesOn(i)
<1>1. \A l \in Lease : leases[l] = None => Held(l) = None
    BY DEF Held
<1>2. byId[slots[i].id] = i
    BY LiveSlotIsFound DEF RefinementInv
<1>3. \A l \in Lease : Held(l) # None /\ Held(l).asset = slots[i].id <=>
                       leases[l] # None /\ leases[l].index = i
    BY <1>1, <1>2, HeldFacts
<1> QED BY <1>3 DEF Table!Holders, LeasesOn

LEMMA HeldKept ==
    ASSUME RefinementInv, NEW l \in Lease, leases'[l] = leases[l],
           \A i \in InUse : slots'[i].id = slots[i].id
    PROVE  Held(l)' = Held(l)
<1>1. CASE leases[l] = None
    BY <1>1 DEF Held
<1>2. CASE leases[l] # None
    BY <1>2, HeldFacts DEF Held
<1> QED BY <1>1, <1>2

(* makeLease takes l for what slot i holds now.                            *)
LEMMA LeaseTakenHolds ==
    ASSUME RefinementInv, NEW l \in Lease, NEW i \in InUse, NEW s \in SlotRecord,
           s.id = slots[i].id, s.resource \in Nat, TakeLease(l, i, s)
    PROVE  /\ Held(l) = None
           /\ [m \in Lease |-> Held(m)]' =
                  [[m \in Lease |-> Held(m)] EXCEPT ![l] =
                       [asset |-> slots[i].id, object |-> <<i, s.resource>>]]
<1>1. TypeOK /\ i \in Index /\ InUse \subseteq Index
    BY DEF RefinementInv, IInv, InUse
<1>2. /\ leases[l] = None
      /\ leases' = [leases EXCEPT ![l] = [index |-> i, generation |-> s.generation,
                                          resource |-> s.resource]]
      /\ slots' = [slots EXCEPT ![i] = [s EXCEPT !.references = @ + 1]]
    BY DEF TakeLease
<1>3. [s EXCEPT !.references = @ + 1].id = s.id
    BY DEF SlotRecord
<1>4. slots'[i].id = slots[i].id /\ \A j \in InUse : slots'[j].id = slots[j].id
    BY <1>1, <1>2, <1>3 DEF TypeOK
<1>5. leases'[l] = [index |-> i, generation |-> s.generation, resource |-> s.resource]
    BY <1>1, <1>2 DEF TypeOK
<1>6. leases'[l] # None
  <2>1. s.generation \in Nat /\ i \in Nat
      BY <1>1, IndexFacts, ConstantsAssumption DEF SlotRecord
  <2>2. leases'[l] \in [index: Nat, generation: Nat, resource: Nat]
      BY <1>5, <2>1
  <2> QED BY <2>2, ConstantsAssumption
<1>7. Held(l)' = [asset |-> slots[i].id, object |-> <<i, s.resource>>]
    BY <1>4, <1>5, <1>6 DEF Held
<1>8. \A m \in Lease \ {l} : Held(m)' = Held(m)
  <2>1. \A m \in Lease \ {l} : leases'[m] = leases[m]
      BY <1>1, <1>2 DEF TypeOK
  <2> QED BY <1>4, <2>1, HeldKept
<1>9. Held(l) = None
    BY <1>2 DEF Held
<1> QED BY <1>7, <1>8, <1>9

(* LoadShared and Fallback.                                                *)
LEMMA SharedIsShare ==
    ASSUME RefinementInv, NEW l \in Lease, NEW i \in InUse,
           slots[i].state = "Ready", slots[i].resource # None,
           TakeLease(l, i, slots[i]), UNCHANGED size
    PROVE  SameObjects /\ Table!Next
<1> DEFINE s == slots[i]
           o == <<i, s.resource>>
           table == [m \in Lease |-> Held(m)]
<1>1. /\ TypeOK /\ InUse' = InUse /\ InUse \subseteq Index /\ s \in SlotRecord /\ i \in Index
    BY InUseFacts DEF RefinementInv, IInv, InUse
<1>2. SameObjects
  <2>1. slots' = [slots EXCEPT ![i] = [s EXCEPT !.references = @ + 1]]
      BY DEF TakeLease
  <2>2. /\ [s EXCEPT !.references = @ + 1].id = s.id
        /\ [s EXCEPT !.references = @ + 1].revision = s.revision
        /\ [s EXCEPT !.references = @ + 1].resource = s.resource
      BY <1>1 DEF SlotRecord
  <2> QED BY <1>1, <2>1, <2>2 DEF SameObjects, TypeOK
<1>3. s.resource \in 1 .. s.revision /\ s.revision \in 0 .. MaxRevision
    BY DEF RefinementInv, ObjectsInv
<1>4. /\ s.resource \in Nat /\ s.resource \in 1 .. MaxRevision /\ s.resource <= s.revision
    BY <1>3, ConstantsAssumption
<1>5. ~s.retired /\ s.id \in Id \cup {FallbackId}
    BY <1>1 DEF RefinementInv, ByIdInv, RetiredIsUnloaded, SlotIdsAreKnown, TypeOK
<1>6. o \in Published
    BY <1>4 DEF Published
<1>7. s.id \in {FallbackId} \/ Table!Holders(s.id) # {}
  <2>1. CASE i = 0
      BY <2>1 DEF RefinementInv, ObjectsInv
  <2>2. CASE i # 0
    <3>1. s.references # 0
        BY <1>1, <2>2 DEF RefinementInv, IInv, FallbackAlwaysReady, UnleasedSlotIsEmpty
    <3>2. LeasesOn(i) # {}
        BY <1>1, <3>1, FS_EmptySet DEF RefinementInv, IInv, ReferencesCountLeases
    <3> QED BY <1>5, <3>2, HoldersAreLeases
  <2> QED BY <2>1, <2>2
<1>8. \A m \in Table!Holders(s.id) : table[m].object = o
  <2>1. \A m \in LeasesOn(i) : m \in Lease /\ leases[m] # None /\ leases[m].index = i
      BY DEF LeasesOn
  <2>2. \A m \in LeasesOn(i) : m \in Lease /\ Held(m).object = o
      BY <2>1, HeldFacts
  <2> QED BY <1>5, <2>2, HoldersAreLeases
<1>9. table[l] = None /\ table' = [table EXCEPT ![l] = [asset |-> s.id, object |-> o]]
    BY <1>1, <1>4, LeaseTakenHolds
<1>10. Published' = Published
    BY <1>1, <1>2, SameObjectsKept DEF RefinementInv
<1>11. Table!Share(l, s.id, o)
    BY <1>6, <1>7, <1>8, <1>9, <1>10 DEF Table!Share
<1>12. o \in Index \X (1 .. MaxRevision)
    BY <1>1, <1>4
<1> QED BY <1>2, <1>5, <1>11, <1>12 DEF Table!Next

(* LoadPublishes: an object that no lease has held.                        *)
LEMMA PublishIsCreate ==
    ASSUME RefinementInv, NEW l \in Lease, LoadPublishes(l)
    PROVE  ObjectsInv' /\ Table!Next
<1> DEFINE i == loading.index
           rev == slots[i].revision + 1
           s == [slots[i] EXCEPT !.resource = rev, !.state = "Ready", !.revision = rev]
           o == <<i, rev>>
           table == [m \in Lease |-> Held(m)]
<1>1. /\ TypeOK /\ InUse' = InUse /\ InUse \subseteq Index
      /\ i \in InUse /\ i \in Index /\ slots[i] \in SlotRecord
      /\ slots[i].references = 0 /\ ~slots[i].pinned /\ i # 0 /\ ~slots[i].retired
      /\ rev \in Nat /\ rev \in 1 .. MaxRevision
  <2>1. TypeOK /\ InUse' = InUse /\ InUse \subseteq Index /\ i \in InUse /\ rev <= MaxRevision
      BY DEF RefinementInv, IInv, InUse, LoadPublishes, LoadedSlotIsUnleased
  <2>2. slots[i].references = 0 /\ ~slots[i].pinned /\ ~slots[i].retired /\ i \in Index
      BY <2>1 DEF RefinementInv, IInv, LoadPublishes, LoadedSlotIsUnleased, ByIdInv, LoadedSlotIsLive
  <2>3. i # 0
      BY <2>2, <2>1 DEF RefinementInv, IInv, FallbackAlwaysReady
  <2>4. slots[i] \in SlotRecord /\ slots[i].revision \in Nat
      BY <2>1, InUseFacts
  <2> QED BY <2>1, <2>2, <2>3, <2>4, ConstantsAssumption
<1>2. /\ TakeLease(l, i, s) /\ UNCHANGED size
    BY DEF LoadPublishes
<1>3. /\ s \in SlotRecord /\ s.id = slots[i].id /\ s.resource = rev /\ s.revision = rev
      /\ [s EXCEPT !.references = @ + 1].id = s.id
      /\ [s EXCEPT !.references = @ + 1].resource = rev
      /\ [s EXCEPT !.references = @ + 1].revision = rev
  <2>1. \A n \in Nat, st \in States :
            [slots[i] EXCEPT !.resource = n, !.state = st, !.revision = n] \in SlotRecord
      BY <1>1 DEF SlotRecord
  <2>2. "Ready" \in States
      BY DEF States
  <2>3. s \in SlotRecord
      BY <1>1, <2>1, <2>2
  <2> QED BY <1>1, <2>3 DEF SlotRecord
<1> HIDE DEF s, rev
<1>4. slots' = [slots EXCEPT ![i] = [s EXCEPT !.references = @ + 1]]
    BY <1>2 DEF TakeLease
<1>5. /\ slots'[i].id = slots[i].id /\ slots'[i].resource = rev /\ slots'[i].revision = rev
      /\ \A j \in InUse \ {i} : slots'[j] = slots[j]
    BY <1>1, <1>3, <1>4 DEF TypeOK
<1>6. ObjectsInv'
  <2>1. slots'[0].id = FallbackId
      BY <1>1, <1>5, InUseFacts DEF RefinementInv, ObjectsInv
  <2>2. rev \in 0 .. MaxRevision /\ rev \in 1 .. rev
      BY <1>1
  <2>3. \A j \in InUse : /\ slots'[j].revision \in 0 .. MaxRevision
                         /\ slots'[j].resource # None => slots'[j].resource \in 1 .. slots'[j].revision
      BY <1>5, <2>2 DEF RefinementInv, ObjectsInv
  <2> QED BY <1>1, <2>1, <2>3 DEF ObjectsInv
<1>7. slots[i].id \in Id
  <2>1. slots[i].id \in Id \cup {FallbackId} /\ byId[slots[i].id] = i
      BY <1>1, LiveSlotIsFound DEF RefinementInv, ByIdInv, SlotIdsAreKnown, TypeOK
  <2>2. 0 \in InUse /\ ~slots[0].retired
      BY <1>1, InUseFacts
         DEF RefinementInv, IInv, FallbackAlwaysReady, ByIdInv, RetiredIsUnloaded
  <2>3. byId[FallbackId] = 0
      BY <2>2, LiveSlotIsFound DEF RefinementInv, ObjectsInv
  <2> QED BY <1>1, <2>1, <2>3
<1>8. Table!Holders(slots[i].id) = {}
  <2>1. LeasesOn(i) = {}
      BY <1>1, LeasedIsCounted DEF RefinementInv, IInv, LeasesOn
  <2> QED BY <1>1, <2>1, HoldersAreLeases
<1>9. table[l] = None /\ table' = [table EXCEPT ![l] = [asset |-> slots[i].id, object |-> o]]
  <2>1. s.resource \in Nat
      BY <1>1, <1>3
  <2> QED BY <1>1, <1>2, <1>3, <2>1, LeaseTakenHolds
<1>10. o \notin Published /\ Published' = Published \cup {o}
  <2>1. rev = slots[i].revision + 1 /\ \A j \in InUse : slots[j].revision \in Nat
      BY <1>1, InUseFacts DEF rev
  <2>2. o \notin Published
      BY <1>1, <2>1 DEF Published
  <2>3. ASSUME NEW j \in InUse, NEW r \in 1 .. MaxRevision
        PROVE  r <= slots'[j].revision <=> r <= slots[j].revision \/ (j = i /\ r = rev)
      BY <1>1, <1>5, <2>1, <2>3
  <2>4. ASSUME NEW p
        PROVE  p \in Published' <=> p \in Published \cup {o}
    <3>1. p \in Published' <=> p \in InUse \X (1 .. MaxRevision) /\ p[2] <= slots'[p[1]].revision
        BY <1>1 DEF Published
    <3>2. p \in Published <=> p \in InUse \X (1 .. MaxRevision) /\ p[2] <= slots[p[1]].revision
        BY DEF Published
    <3>3. o \in InUse \X (1 .. MaxRevision) /\ o[1] = i /\ o[2] = rev
        BY <1>1
    <3>4. p \in InUse \X (1 .. MaxRevision) =>
              p[1] \in InUse /\ p[2] \in 1 .. MaxRevision /\ p = <<p[1], p[2]>>
        OBVIOUS
    <3> QED BY <2>3, <3>1, <3>2, <3>3, <3>4
  <2> QED BY <2>2, <2>4
<1>11. o \in Index \X (1 .. MaxRevision)
    BY <1>1
<1>12. slots[i].id \notin {FallbackId}
    BY <1>7, ConstantsAssumption
<1>13. Table!Create(l, slots[i].id, o)
    BY <1>8, <1>9, <1>10, <1>11, <1>12 DEF Table!Create
<1> QED BY <1>6, <1>7, <1>11, <1>13 DEF Table!Next

(* A step that publishes nothing and takes no lease is not seen.           *)
LEMMA QuietIsStutter ==
    ASSUME RefinementInv, SameObjects, UNCHANGED leases
    PROVE  UNCHANGED Table!vars
<1>1. [m \in Lease |-> Held(m)]' = [m \in Lease |-> Held(m)]
    BY HeldKept DEF SameObjects
<1>2. Published' = Published
    BY SameObjectsKept DEF RefinementInv, IInv
<1> QED BY <1>1, <1>2 DEF Table!vars

LEMMA DropIsDrop ==
    ASSUME RefinementInv, NEW l \in Lease, leases[l] # None, SameObjects,
           leases' = [leases EXCEPT ![l] = None]
    PROVE  Table!Next
<1> DEFINE table == [m \in Lease |-> Held(m)]
<1>1. TypeOK
    BY DEF RefinementInv, IInv
<1>2. Held(l) # None
    BY HeldFacts
<1>3. leases'[l] = None /\ \A m \in Lease \ {l} : leases'[m] = leases[m]
    BY <1>1 DEF TypeOK
<1>4. Held(l)' = None
    BY <1>3 DEF Held
<1>5. \A m \in Lease \ {l} : Held(m)' = Held(m)
    BY <1>3, HeldKept DEF SameObjects
<1>6. table[l] # None /\ table' = [table EXCEPT ![l] = None]
  <2>1. table' = [m \in Lease |-> Held(m)']
      OBVIOUS
  <2>2. \A m \in Lease : Held(m)' = IF m = l THEN None ELSE Held(m)
      BY <1>4, <1>5
  <2> QED BY <1>2, <2>1, <2>2
<1>7. Published' = Published
    BY <1>1, SameObjectsKept DEF RefinementInv
<1>8. Table!Drop(l)
    BY <1>6, <1>7 DEF Table!Drop
<1> QED BY <1>8 DEF Table!Next

LEMMA ReleasedAreSame ==
    ASSUME TypeOK, NEW S \in SUBSET InUse, UNCHANGED size,
           slots' = [i \in Index |-> IF i \in S THEN Released(slots[i]) ELSE slots[i]]
    PROVE  SameObjects
<1>1. InUse' = InUse
    BY DEF InUse
<1>2. \A i \in InUse : slots'[i] = slots[i] \/ slots'[i] = Released(slots[i])
    BY InUseFacts
<1> QED BY <1>1, <1>2, InUseFacts, ReleasedKeepsObject DEF SameObjects

(* Every step is one of a user of leases, or none that he sees.            *)
LEMMA StepsImplement ==
    ASSUME ~SweepDuringLoad, RefinementInv, [Next]_vars
    PROVE  ObjectsInv' /\ [Table!Next]_(Table!vars)
<1> USE IndexFacts
<1>0. TypeOK /\ InUse \subseteq Index /\ 0 \in InUse /\ \A i \in InUse : slots[i] \in SlotRecord
    BY InUseFacts DEF RefinementInv, IInv
<1>s. SameObjects => ObjectsInv'
    BY <1>0, SameObjectsKept DEF RefinementInv
<1>q. SameObjects /\ UNCHANGED leases => ObjectsInv' /\ [Table!Next]_(Table!vars)
    BY <1>s, QuietIsStutter
<1>1. ASSUME NEW id \in Id, NEW l \in Lease, LoadShared(id, l)
      PROVE  ObjectsInv' /\ [Table!Next]_(Table!vars)
  <2>1. byId[id] \in InUse
      BY <1>1, <1>0 DEF LoadShared, RefinementInv, IInv, ByIdInUse, TypeOK
  <2> QED BY <1>1, <1>s, <2>1, SharedIsShare DEF LoadShared
<1>2. ASSUME NEW id \in Id, LoadAgain(id) PROVE SameObjects /\ UNCHANGED leases
  <2>1. InUse' = InUse /\ slots' = [slots EXCEPT ![byId[id]].state = "Loading"]
      BY <1>2 DEF LoadAgain, InUse
  <2> QED BY <1>0, <1>2, <2>1 DEF LoadAgain, SameObjects, TypeOK, SlotRecord
<1>3. ASSUME NEW id \in Id, LoadNew(id) PROVE SameObjects /\ UNCHANGED leases
  <2>1. size \in Index /\ size \notin InUse /\ InUse' = InUse \cup {size}
      BY <1>0, <1>3, ConstantsAssumption DEF LoadNew, TypeOK, InUse, Index
  <2>2. slots'[size] = NewSlot(id) /\ \A j \in InUse : slots'[j] = slots[j]
      BY <1>0, <1>3, <2>1 DEF LoadNew, TypeOK
  <2> QED BY <1>3, <2>1, <2>2 DEF LoadNew, SameObjects, NewSlot
<1>4. ASSUME LoadFails PROVE SameObjects /\ UNCHANGED leases
  <2>1. InUse' = InUse /\ slots' = [slots EXCEPT ![loading.index].state = "Failed",
                                                 ![loading.index].resource = None]
      BY <1>4 DEF LoadFails, InUse
  <2> QED BY <1>0, <1>4, <2>1 DEF LoadFails, SameObjects, TypeOK, SlotRecord
<1>5. ASSUME NEW l \in Lease, LoadPublishes(l)
      PROVE  ObjectsInv' /\ [Table!Next]_(Table!vars)
    BY <1>5, PublishIsCreate
<1>6. ASSUME NEW l \in Lease, Fallback(l)
      PROVE  ObjectsInv' /\ [Table!Next]_(Table!vars)
  <2>1. slots[0].state = "Ready" /\ slots[0].resource # None
      BY DEF RefinementInv, IInv, FallbackAlwaysReady
  <2> QED BY <1>0, <1>6, <1>s, <2>1, SharedIsShare DEF Fallback
<1>7. ASSUME NEW l \in Lease, DropLease(l)
      PROVE  ObjectsInv' /\ [Table!Next]_(Table!vars)
  <2> DEFINE i == leases[l].index
             fewer == [slots[i] EXCEPT !.references = @ - 1]
  <2>1. leases[l] # None /\ leases' = [leases EXCEPT ![l] = None] /\ InUse' = InUse
      BY <1>7 DEF DropLease, InUse
  <2>2. i \in InUse /\ slots[i].references \in Nat \ {0}
      BY <2>1, LeasedIsCounted DEF RefinementInv, IInv
  <2>3. /\ \A j \in InUse \ {i} : slots'[j] = slots[j]
        /\ slots'[i] \in {slots[i], fewer, Released(fewer)}
      BY <1>0, <1>7, <2>2 DEF DropLease, TypeOK
  <2>4. fewer \in SlotRecord
    <3>1. \A n \in Nat : [slots[i] EXCEPT !.references = n] \in SlotRecord
        BY <1>0, <2>2 DEF SlotRecord
    <3>2. slots[i].references - 1 \in Nat
        BY <2>2
    <3> QED BY <3>1, <3>2
  <2>5. fewer.id = slots[i].id /\ fewer.revision = slots[i].revision /\ fewer.resource = slots[i].resource
      BY <1>0, <2>2 DEF SlotRecord
  <2> HIDE DEF fewer
  <2>6. /\ slots'[i].id = slots[i].id
        /\ slots'[i].revision = slots[i].revision
        /\ slots'[i].resource \in {slots[i].resource, None}
      BY <2>3, <2>4, <2>5, ReleasedKeepsObject
  <2>7. SameObjects
      BY <2>1, <2>3, <2>6 DEF SameObjects
  <2> QED BY <1>s, <2>1, <2>7, DropIsDrop
<1>8. ASSUME NEW h \in Handle, Unload(h) PROVE SameObjects /\ UNCHANGED leases
  <2>1. {h.index} \in SUBSET InUse
      BY <1>8 DEF Unload, Current
  <2>2. slots' = [i \in Index |-> IF i \in {h.index} THEN Released(slots[i]) ELSE slots[i]]
      BY <1>0, <1>8, <2>1 DEF Unload, TypeOK
  <2> QED BY <1>0, <1>8, <2>1, <2>2, ReleasedAreSame DEF Unload
<1>9. ASSUME UnloadUnused PROVE SameObjects /\ UNCHANGED leases
  <2>1. Unused \in SUBSET InUse
      BY DEF Unused
  <2> QED BY <1>0, <1>9, <2>1, ReleasedAreSame DEF UnloadUnused
<1>10. ASSUME UNCHANGED vars PROVE SameObjects /\ UNCHANGED leases
    BY <1>10 DEF vars, SameObjects, InUse
<1> QED BY <1>q, <1>1, <1>2, <1>3, <1>4, <1>5, <1>6, <1>7, <1>8, <1>9, <1>10 DEF Next

LEMMA InitImplements == Init => ObjectsInv /\ Table!Init
<1> SUFFICES ASSUME Init PROVE ObjectsInv /\ Table!Init
    OBVIOUS
<1>1. InUse = {0} /\ slots[0] = FallbackSlot
  <2>1. \A i \in Index : i < size <=> i = 0
      BY IndexFacts DEF Init
  <2>2. 0 \in Index /\ slots[0] = FallbackSlot
      BY IndexFacts DEF Init
  <2> QED BY <2>1, <2>2 DEF InUse
<1>2. ObjectsInv
    BY <1>1, ConstantsAssumption DEF ObjectsInv, FallbackSlot
<1>3. [m \in Lease |-> Held(m)] = [m \in Lease |-> None]
    BY DEF Init, Held
<1>4. Published \subseteq Index \X (1 .. MaxRevision)
    BY DEF Published, InUse
<1> QED BY <1>2, <1>3, <1>4 DEF Table!Init

(* The pool is a table of shared leases: an asset somebody holds is shared *)
(* by everyone, and one that was let go comes back as an object that no    *)
(* lease has seen (load, makeLease, releaseLease).                         *)
THEOREM Refinement ==
    ASSUME ~SweepDuringLoad
    PROVE  Spec => ImplementsLeaseTable
<1>1. RefinementInv /\ [Next]_vars => RefinementInv' /\ [Table!Next]_(Table!vars)
    BY StepsImplement, NextKeepsIInv, NextKeepsByIdInv DEF RefinementInv
<1>2. Init => RefinementInv /\ Table!Init
    BY InitIInv, InitByIdInv, InitImplements DEF RefinementInv
<1> QED BY <1>1, <1>2, PTL DEF Spec, ImplementsLeaseTable, Table!Spec
=============================================================================
