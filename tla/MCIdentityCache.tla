--------------------------- MODULE MCIdentityCache ---------------------------
(* Instances of IdentityCache for TLC.  Addresses, IDs and threads are each  *)
(* interchangeable: no definition tells two of them apart.                   *)
EXTENDS IdentityCache, TLC

Symmetry == Permutations(Macs) \cup Permutations(Uas) \cup Permutations(Finalisers)
=============================================================================
