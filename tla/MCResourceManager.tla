------------------------- MODULE MCResourceManager -------------------------
(* ResourceManager for TLC: two assets, a generation space of two and      *)
(* interchangeable leases and assets.                                      *)
EXTENDS ResourceManager, TLC

Symmetry == Permutations(Id) \cup Permutations(Lease)
=============================================================================
