-------------------------------- MODULE Feed ---------------------------------
(***************************************************************************)
(* What a writer of hasses relies on: what it writes is handed over in     *)
(* order, part by part, with nothing left out in between but separators    *)
(* and line ends, nothing handed over twice, and nothing joined across a   *)
(* separator or with what another writer wrote.  A part ends before a      *)
(* separator, or where what has been seen of the stream ends.              *)
(***************************************************************************)
EXTENDS Naturals, Sequences

CONSTANT Source

VARIABLES
  stream,   \* what each source has written
  seen,     \* how much of it has been read
  passed,   \* how much of it has been handed over, or passed over
  handled   \* the parts handed over, as pairs of positions in the stream

vars == <<stream, seen, passed, handled>>

Kind == {"text", "delimiter", "newline"}

Init ==
  /\ stream = [s \in Source |-> <<>>]
  /\ seen = [s \in Source |-> 0]
  /\ passed = [s \in Source |-> 0]
  /\ handled = [s \in Source |-> <<>>]

Write(s) ==
  /\ UNCHANGED <<seen, passed, handled>>
  /\ \E k \in Kind : stream' = [stream EXCEPT ![s] = Append(@, k)]

See(s) ==
  /\ UNCHANGED <<stream, passed, handled>>
  /\ \E n \in seen[s] .. Len(stream[s]) : seen' = [seen EXCEPT ![s] = n]

(* No text from position i to position j. *)
Blank(s, i, j) == \A p \in i .. j : stream[s][p] # "text"

(* A part may be handed over. *)
Part(s, i, j) ==
  /\ \A p \in i .. j : stream[s][p] # "delimiter"
  /\ \/ j < seen[s] /\ stream[s][j + 1] = "delimiter"
     \/ \A p \in j + 1 .. seen[s] : stream[s][p] = "newline"

(* What is passed up to position k is blank but for one part at most. *)
Pass(s, k) ==
  /\ UNCHANGED <<stream, seen>>
  /\ passed' = [passed EXCEPT ![s] = k]
  /\ \/ /\ Blank(s, passed[s] + 1, k)
        /\ UNCHANGED handled
     \/ \E i, j \in passed[s] + 1 .. k :
          /\ i <= j /\ Part(s, i, j)
          /\ Blank(s, passed[s] + 1, i - 1) /\ Blank(s, j + 1, k)
          /\ handled' = [handled EXCEPT ![s] = Append(@, <<i, j>>)]

Next ==
  \E s \in Source :
    Write(s) \/ See(s) \/ \E k \in passed[s] .. seen[s] : Pass(s, k)

Spec == Init /\ [][Next]_vars
=============================================================================
