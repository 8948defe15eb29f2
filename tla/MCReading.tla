----------------------------- MODULE MCReading ------------------------------
(* Model-checking instances of Reading. *)
EXTENDS Reading
=============================================================================
