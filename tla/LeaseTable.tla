----------------------------- MODULE LeaseTable -----------------------------
(***************************************************************************)
(* What a user of cuexis::assets::ResourceManager relies on, with no slot, *)
(* handle or reference count in sight.  All leases on an asset share one   *)
(* object.  The object goes when its last lease is dropped, and an asset   *)
(* that is acquired again gets an object nobody has seen before.           *)
(***************************************************************************)
CONSTANTS Asset,    \* what can be leased
          Builtin,  \* the assets that always exist
          Lease,    \* leases that can exist at the same time
          Object,   \* the objects a load may produce
          None

VARIABLES
    holds,  \* the asset and the object each lease shares, or None
    used    \* the objects that have ever been leased or built in

vars == <<holds, used>>

Holders(a) == {l \in Lease : holds[l] # None /\ holds[l].asset = a}

Init ==
    /\ holds = [l \in Lease |-> None]
    /\ used \subseteq Object

(* A lease on an asset somebody holds, or on a built-in: the shared object. *)
Share(l, a, o) ==
    /\ holds[l] = None
    /\ o \in used
    /\ a \in Builtin \/ Holders(a) # {}
    /\ \A m \in Holders(a) : holds[m].object = o
    /\ holds' = [holds EXCEPT ![l] = [asset |-> a, object |-> o]]
    /\ UNCHANGED used

(* The first lease on an asset: a new object.                              *)
Create(l, a, o) ==
    /\ holds[l] = None
    /\ a \notin Builtin
    /\ Holders(a) = {}
    /\ o \in Object \ used
    /\ holds' = [holds EXCEPT ![l] = [asset |-> a, object |-> o]]
    /\ used' = used \cup {o}

Drop(l) ==
    /\ holds[l] # None
    /\ holds' = [holds EXCEPT ![l] = None]
    /\ UNCHANGED used

Next ==
    \/ \E l \in Lease, a \in Asset, o \in Object : Share(l, a, o) \/ Create(l, a, o)
    \/ \E l \in Lease : Drop(l)

Spec == Init /\ [][Next]_vars
=============================================================================
