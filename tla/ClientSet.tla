------------------------------ MODULE ClientSet ------------------------------
(***************************************************************************)
(* What the rest of hasses relies on from its client database: a set of    *)
(* client records in which a descriptor identifies at most one record.     *)
(* A step connects one client, changes the record of one client or drops   *)
(* one client; the records of all the other clients are left alone.  The   *)
(* records a step may add are not enumerated: they are those of members'.  *)
(***************************************************************************)
VARIABLE members

Init == members = {}

Connect(c) ==
  /\ \A m \in members : m.descr # c.descr
  /\ members' = members \union {c}

Update(old, new) ==
  /\ old \in members
  /\ new.descr = old.descr
  /\ members' = (members \ {old}) \union {new}

Drop(c) ==
  /\ c \in members
  /\ members' = members \ {c}

Next ==
  \/ \E c \in members' : Connect(c)
  \/ \E old \in members, new \in members' : Update(old, new)
  \/ \E c \in members : Drop(c)

Spec == Init /\ [][Next]_members
=============================================================================
