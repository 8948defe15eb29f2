-------------------------------- MODULE PubSub --------------------------------
(***************************************************************************)
(* What hasses promises both its sides: a stream is open for what it asked *)
(* for, from its opening to its end; a published message goes to the       *)
(* streams that are open for it then, all of them and no other; a number   *)
(* that is reported is the number of such streams.  There are no requests, *)
(* parameters, transports or client records here, and every stream is on   *)
(* its own: what others ask for, are refused or do is of no consequence.   *)
(***************************************************************************)
EXTENDS FiniteSets

CONSTANTS Fd, Token, Id, Messages

VARIABLES
  streams,     (* What each open stream has asked for                      *)
  allowed,     (* Whether an open stream may be opened anew                *)
  delivered,   (* The message of the last step and its receivers           *)
  counted      (* The number reported in the last step                     *)

vars == <<streams, allowed, delivered, counted>>

Interest == [tokens : SUBSET (Token \union {"*"}), id : Id \union {""}]

Init ==
  /\ streams = << >>
  /\ allowed \in BOOLEAN
  /\ delivered = {} /\ counted = {}

Silent == delivered' = {} /\ counted' = {}

(* What the stream asks for is what is known of it afterwards.             *)
Open(fd) ==
  /\ Silent /\ UNCHANGED allowed
  /\ fd \in DOMAIN streams => allowed
  /\ fd \in DOMAIN streams' /\ streams'[fd] \in Interest
  /\ streams' = [x \in DOMAIN streams \union {fd} |->
                   IF x = fd THEN streams'[fd] ELSE streams[x]]

End(fd) ==
  /\ Silent /\ UNCHANGED allowed
  /\ fd \in DOMAIN streams
  /\ streams' = [x \in DOMAIN streams \ {fd} |-> streams[x]]

Allow(b) == allowed' = b /\ Silent /\ UNCHANGED streams

(* A stream does not get what is kept from its own id.                     *)
Wants(i, m) ==
  /\ m.rejectId = "" \/ m.rejectId # i.id
  /\ m.all \/ "*" \in i.tokens \/ \E t \in m.tokens : t \in i.tokens

Publish(m) ==
  /\ counted' = {} /\ UNCHANGED <<streams, allowed>>
  /\ delivered' = {[msg |-> m, to |-> {fd \in DOMAIN streams : Wants(streams[fd], m)}]}

Count(of, S) ==
  /\ counted' = {[of |-> of, count |-> Cardinality(S)]}
  /\ delivered' = {} /\ UNCHANGED <<streams, allowed>>

(* "*" counts the streams that ask for a token of that name: there is none.*)
CountToken(t) ==
  Count(t, {fd \in DOMAIN streams : t # "*" /\ t \in streams[fd].tokens})

Other == Silent /\ UNCHANGED <<streams, allowed>>

Next ==
  \/ Other
  \/ \E fd \in Fd : Open(fd) \/ End(fd)
  \/ \E b \in BOOLEAN : Allow(b)
  \/ \E m \in Messages : Publish(m)
  \/ \E t \in Token \union {"*"} : CountToken(t)
  \/ Count("status", DOMAIN streams)

Spec == Init /\ [][Next]_vars
=============================================================================
