--------------------------- MODULE MCAddressSpace ---------------------------
(* Model checking of AddressSpace: user tasks are interchangeable. *)
EXTENDS AddressSpace, TLC

Symmetry == Permutations(Tasks)
=============================================================================
