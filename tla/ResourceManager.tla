-------------------------- MODULE ResourceManager --------------------------
(***************************************************************************)
(* The typed slot pool of cuexis::assets::ResourceManager.                 *)
(*                                                                         *)
(* One thread owns the manager and calls load, fallback and unload.  A     *)
(* load holds the mutex twice, with the content provider's read in between *)
(* and no lock held.  A lease may be dropped by any thread at any time:    *)
(* its control block's destructor takes the mutex by itself.               *)
(*                                                                         *)
(* The five pools (mesh, material, texture, audio, shader) are copies of   *)
(* one template, so one pool is modelled.  The contents of a resource are  *)
(* abstracted to the content revision under which it was published.        *)
(***************************************************************************)
EXTENDS Naturals, FiniteSets

CONSTANTS
    Id,              \* AssetIds known to the AssetDatabase with the pool's type
    FallbackId,      \* the id of the built-in resource in slot 0
    Lease,           \* lease control blocks that can exist at the same time
    MaxIndex,        \* the largest slot index: invalidIndex - 1
    MaxGeneration,   \* the largest 32-bit generation
    MaxRevision,     \* BOUND on the 64-bit content revision of a slot
    SweepDuringLoad, \* may unloadUnused run while the owner reads unlocked?
    None             \* a null pointer, an absent key or an idle owner

ASSUME ConstantsAssumption ==
    /\ IsFiniteSet(Lease)
    /\ FallbackId \notin Id
    /\ MaxIndex \in Nat
    /\ MaxGeneration \in Nat \ {0}
    /\ MaxRevision \in Nat \ {0}
    /\ SweepDuringLoad \in BOOLEAN
    /\ None \notin Id \cup {FallbackId} \cup Nat
    /\ None \notin [index: Nat, generation: Nat, resource: Nat]
    /\ None \notin [id: Id, index: Nat]

VARIABLES
    slots,    \* Pool::slots, a function from the slot index
    size,     \* slots.size(): the indices in use are those below it
    byId,     \* Pool::byId
    leases,   \* the live control blocks, with the resource their lease shares
    loading   \* the owner's call to load between its two locked sections

vars == <<slots, size, byId, leases, loading>>

Index == 0 .. MaxIndex
States == {"Unloaded", "Loading", "Ready", "Failed"}

SlotRecord == [id: Id \cup {FallbackId, None}, state: States,
               generation: 1 .. MaxGeneration, revision: Nat,
               references: Nat, resource: Nat \cup {None},
               pinned: BOOLEAN, retired: BOOLEAN]
LeaseRecord == [index: Index, generation: 1 .. MaxGeneration, resource: Nat]
Loading == [id: Id, index: Index]

Handle == [index: Index, generation: 1 .. MaxGeneration]

InUse == {i \in Index : i < size}

-----------------------------------------------------------------------------
(* A slot as push_back leaves it, and an index no slot was pushed at.      *)
NewSlot(id) ==
    [id |-> id, state |-> "Loading", generation |-> 1, revision |-> 0,
     references |-> 0, resource |-> None, pinned |-> FALSE, retired |-> FALSE]
NoSlot ==
    [id |-> None, state |-> "Unloaded", generation |-> 1, revision |-> 0,
     references |-> 0, resource |-> None, pinned |-> FALSE, retired |-> FALSE]

FallbackSlot ==
    [id |-> FallbackId, state |-> "Ready", generation |-> 1, revision |-> 1,
     references |-> 0, resource |-> 1, pinned |-> TRUE, retired |-> FALSE]

Init ==
    /\ slots = [i \in Index |-> IF i = 0 THEN FallbackSlot ELSE NoSlot]
    /\ size = 1
    /\ byId = [id \in Id \cup {FallbackId} |-> IF id = FallbackId THEN 0 ELSE None]
    /\ leases = [l \in Lease |-> None]
    /\ loading = None

(* Whether checkedSlot accepts handle h.                                   *)
Current(h) ==
    /\ h.index \in InUse
    /\ ~slots[h.index].retired
    /\ slots[h.index].generation = h.generation

(* A bug: the generation wraps to a value that handles still name.         *)
ReleasedWrapping(slot) ==
    [slot EXCEPT !.resource = None, !.state = "Unloaded",
                 !.generation = IF @ = MaxGeneration THEN 1 ELSE @ + 1]

(* The slot after releaseSlot: emptied, and never again under a generation *)
(* that a handle may still name.                                           *)
Released(slot) ==
    IF slot.generation = MaxGeneration
    THEN [slot EXCEPT !.resource = None, !.state = "Unloaded", !.retired = TRUE]
    ELSE [slot EXCEPT !.resource = None, !.state = "Unloaded",
                      !.generation = @ + 1]

(* A bug: releaseSlot retires a slot without erasing its id.               *)
ForgetNothing(S) == UNCHANGED byId

(* The ids releaseSlot erases from byId when it releases the slots of S.   *)
Forgotten(S) == {slots[i].id : i \in {j \in S : slots[j].generation = MaxGeneration}}
ForgetReleased(S) ==
    byId' = [id \in DOMAIN byId |-> IF id \in Forgotten(S) THEN None ELSE byId[id]]

(* A bug: makeLease does not count the lease.                              *)
TakeLeaseUncounted(l, i, s) ==
    /\ leases[l] = None
    /\ slots' = [slots EXCEPT ![i] = s]
    /\ leases' = [leases EXCEPT ![l] = [index |-> i, generation |-> s.generation,
                                        resource |-> s.resource]]

(* makeLease on a slot that has just become s, with a fresh control block. *)
TakeLease(l, i, s) ==
    /\ leases[l] = None
    /\ slots' = [slots EXCEPT ![i] = [s EXCEPT !.references = @ + 1]]
    /\ leases' = [leases EXCEPT ![l] = [index |-> i, generation |-> s.generation,
                                        resource |-> s.resource]]

-----------------------------------------------------------------------------
(* load of an id whose resource is there: one more lease on it.            *)
LoadShared(id, l) ==
    /\ loading = None
    /\ byId[id] # None
    /\ slots[byId[id]].state = "Ready"
    /\ slots[byId[id]].resource # None
    /\ TakeLease(l, byId[id], slots[byId[id]])
    /\ UNCHANGED <<size, byId, loading>>

(* load's first locked section on a slot that exists without a resource.   *)
LoadAgain(id) ==
    /\ loading = None
    /\ byId[id] # None
    /\ ~(slots[byId[id]].state = "Ready" /\ slots[byId[id]].resource # None)
    /\ slots' = [slots EXCEPT ![byId[id]].state = "Loading"]
    /\ loading' = [id |-> id, index |-> byId[id]]
    /\ UNCHANGED <<size, byId, leases>>

(* A bug: load pushes a slot without looking the id up first.              *)
LoadNewAlways(id) ==
    /\ loading = None
    /\ size <= MaxIndex
    /\ slots' = [slots EXCEPT ![size] = NewSlot(id)]
    /\ size' = size + 1
    /\ byId' = [byId EXCEPT ![id] = size]
    /\ loading' = [id |-> id, index |-> size]
    /\ UNCHANGED leases

(* load's first locked section for an id without a slot: a new slot, unless *)
(* the index space is exhausted (the call then fails and changes nothing).  *)
LoadNew(id) ==
    /\ loading = None
    /\ byId[id] = None
    /\ size <= MaxIndex
    /\ slots' = [slots EXCEPT ![size] = NewSlot(id)]
    /\ size' = size + 1
    /\ byId' = [byId EXCEPT ![id] = size]
    /\ loading' = [id |-> id, index |-> size]
    /\ UNCHANGED leases

(* The provider is missing, fails, throws or returns too much.             *)
LoadFails ==
    /\ loading # None
    /\ slots' = [slots EXCEPT ![loading.index].state = "Failed",
                              ![loading.index].resource = None]
    /\ loading' = None
    /\ UNCHANGED <<size, byId, leases>>

(* load's second locked section: publish the resource and lease it.  The   *)
(* 64-bit revision cannot wrap within a run, so it is bounded.             *)
LoadPublishes(l) ==
    /\ loading # None
    /\ LET slot == slots[loading.index]
           rev == slot.revision + 1
       IN  /\ rev <= MaxRevision
           /\ TakeLease(l, loading.index,
                        [slot EXCEPT !.resource = rev, !.state = "Ready",
                                     !.revision = rev])
    /\ loading' = None
    /\ UNCHANGED <<size, byId>>

(* fallback: a lease on the pinned slot.                                   *)
Fallback(l) ==
    /\ loading = None
    /\ TakeLease(l, 0, slots[0])
    /\ UNCHANGED <<size, byId, loading>>

(* unload, where checkedSlot accepts the handle and nobody leases the slot. *)
Unload(h) ==
    /\ loading = None
    /\ Current(h)
    /\ ~slots[h.index].pinned
    /\ slots[h.index].references = 0
    /\ slots' = [slots EXCEPT ![h.index] = Released(@)]
    /\ ForgetReleased({h.index})
    /\ UNCHANGED <<size, leases, loading>>

(* A bug: the last release leaves the resource in its slot.                *)
DropLeaseOnly(l) ==
    /\ leases[l] # None
    /\ leases' = [leases EXCEPT ![l] = None]
    /\ slots' = [slots EXCEPT ![leases[l].index].references = @ - 1]
    /\ UNCHANGED <<size, byId, loading>>

(* A control block is destroyed, on whichever thread drops the lease last. *)
DropLease(l) ==
    /\ leases[l] # None
    /\ leases' = [leases EXCEPT ![l] = None]
    /\ LET i == leases[l].index
           slot == slots[i]
           fewer == [slot EXCEPT !.references = @ - 1]
           last == slot.references = 1 /\ ~slot.pinned
       IN  IF slot.generation # leases[l].generation \/ slot.references = 0
           THEN UNCHANGED <<slots, byId>>
           ELSE /\ slots' = [slots EXCEPT ![i] = IF last THEN Released(fewer) ELSE fewer]
                /\ ForgetReleased(IF last THEN {i} ELSE {})
    /\ UNCHANGED <<size, loading>>

(* A bug: the sweep takes every slot that is not pinned.                   *)
UnusedOrLeased == {i \in InUse : /\ ~slots[i].pinned /\ ~slots[i].retired
                                 /\ slots[i].state # "Unloaded"}

(* unloadUnused: the one mutating call that does not ask for the owner.    *)
Unused == {i \in InUse : /\ ~slots[i].pinned /\ ~slots[i].retired
                         /\ slots[i].references = 0
                         /\ slots[i].state # "Unloaded"}
UnloadUnused ==
    /\ loading = None \/ SweepDuringLoad
    /\ Unused # {}
    /\ slots' = [i \in Index |-> IF i \in Unused THEN Released(slots[i]) ELSE slots[i]]
    /\ ForgetReleased(Unused)
    /\ UNCHANGED <<size, leases, loading>>

Next ==
    \/ \E id \in Id, l \in Lease : LoadShared(id, l)
    \/ \E id \in Id : LoadAgain(id) \/ LoadNew(id)
    \/ LoadFails
    \/ \E l \in Lease : LoadPublishes(l) \/ Fallback(l) \/ DropLease(l)
    \/ \E h \in Handle : Unload(h)
    \/ UnloadUnused

Spec == Init /\ [][Next]_vars

-----------------------------------------------------------------------------
(***************************************************************************)
(* Type correctness.                                                       *)
(***************************************************************************)
TypeOK ==
    /\ slots \in [Index -> SlotRecord]
    /\ size \in 1 .. MaxIndex + 1
    /\ byId \in [Id \cup {FallbackId} -> Index \cup {None}]
    /\ leases \in [Lease -> LeaseRecord \cup {None}]
    /\ loading \in Loading \cup {None}

LeasesOn(i) == {l \in Lease : leases[l] # None /\ leases[l].index = i}

(* strongReferences of a slot is exactly the number of leases on it,       *)
(* whichever threads dropped the others (makeLease, releaseLease).         *)
ReferencesCountLeases ==
    \A i \in Index : slots[i].references = Cardinality(LeasesOn(i))

(* While a lease lives, its slot keeps the generation and the resource the *)
(* lease was made with: no load, unload or sweep of any thread takes the   *)
(* resource from under it.                                                 *)
LeasedSlotKeepsResource ==
    \A l \in Lease : leases[l] # None =>
        LET slot == slots[leases[l].index]
        IN  /\ slot.generation = leases[l].generation
            /\ slot.state = "Ready"
            /\ slot.resource = leases[l].resource

(* A slot nobody leases holds no memory: the last release empties it, and a *)
(* load that fails leaves nothing behind.  Only the fallback stays.        *)
UnleasedSlotIsEmpty ==
    \A i \in Index : slots[i].references = 0 /\ ~slots[i].pinned => slots[i].resource = None

(* byId finds exactly the slots that are not retired, so no asset is ever  *)
(* loaded into two slots.                                                  *)
ByIdFindsLiveSlots ==
    /\ \A id \in DOMAIN byId : byId[id] # None => /\ byId[id] \in InUse
                                                  /\ slots[byId[id]].id = id
    /\ \A i \in InUse : slots[i].retired <=> byId[slots[i].id] # i

(* A handle that was ever issued and is stale now never resolves again:    *)
(* no generation comes back, not even at the end of the generation space.  *)
Issued(h) == h.index \in InUse /\ h.generation <= slots[h.index].generation
StaleForever ==
    [][\A h \in Handle : Issued(h) /\ ~Current(h) => ~Current(h)']_vars

-----------------------------------------------------------------------------
(* The pool implements LeaseTable: an object is a slot and the revision it *)
(* was published under.                                                    *)
Held(l) ==
    IF leases[l] = None THEN None
    ELSE [asset |-> slots[leases[l].index].id,
          object |-> <<leases[l].index, leases[l].resource>>]

(* The null lease is none that is held.                                    *)
ASSUME HeldAssumption ==
    None \notin [asset: Id \cup {FallbackId}, object: Index \X Nat]

Published == {p \in InUse \X (1 .. MaxRevision) : p[2] <= slots[p[1]].revision}

Table == INSTANCE LeaseTable
    WITH Asset <- Id \cup {FallbackId},
         Builtin <- {FallbackId},
         Object <- Index \X (1 .. MaxRevision),
         holds <- [l \in Lease |-> Held(l)],
         used <- Published

ImplementsLeaseTable == Table!Spec
=============================================================================
