------------------------------ MODULE MCFormats ------------------------------
(* Model-checking instances of Formats. *)
EXTENDS Formats
=============================================================================
