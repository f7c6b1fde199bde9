---------------------------- MODULE MCNextFS ----------------------------
(* NextFS on a small disk; the names are interchangeable. *)
EXTENDS NextFS, TLC

NameSymmetry == Permutations(Names)
=============================================================================
