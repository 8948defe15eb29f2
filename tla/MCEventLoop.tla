---------------------------- MODULE MCEventLoop -----------------------------
(* Model-checking instances of EventLoop. *)
EXTENDS EventLoop, TLC

(* Connections to one port differ in nothing; descriptors are ordered. *)
Symmetry == Permutations(SseConn) \union Permutations(CommConn)
=============================================================================
