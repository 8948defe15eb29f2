---------------------------- MODULE MCClientLoops ----------------------------
(* Model-checking instances of ClientLoops. *)
EXTENDS ClientLoops, TLC

(* Nothing tells two unused descriptors apart. *)
Symmetry == Permutations(Fd)
=============================================================================
