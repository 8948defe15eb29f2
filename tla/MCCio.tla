------------------------------- MODULE MCCio --------------------------------
(* Model-checking instances of Cio. *)
EXTENDS Cio
=============================================================================
