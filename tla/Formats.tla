------------------------------ MODULE Formats -------------------------------
(***************************************************************************)
(* The conversions of hasses whose limits matter: how the token of a       *)
(* message is taken apart and compared with a subscription, the chunk a    *)
(* message is sent in, and the list of subscriptions (chat.c:303-461,      *)
(* cdata.c:253-326, hasses.c:1272-1282).                                   *)
(*                                                                         *)
(* Each is an operator, and is compared with what it is to do on inputs    *)
(* that the actions lengthen step by step across the limits.  Strings are  *)
(* sequences of characters without the NUL.                                *)
(***************************************************************************)
EXTENDS Integers, SequencesExt

CONSTANTS
  TokenSize,     \* char token[32] (chat.c:358, cdata.h:19)
  OutSize,       \* char send_outbuffer[2048]
  IdLen,         \* the length of "id: <time>\ndata: "
  ListSize,      \* the length of the list's buffer, 512
  Char,          \* characters of tokens and ids, without "*" and "-"
  MaxMessage     \* bound on the length of a message

ASSUME SizesAssumption ==
  /\ TokenSize \in Nat /\ TokenSize > 2
  /\ OutSize \in Nat /\ IdLen \in Nat /\ ListSize \in Nat /\ ListSize > 1
  /\ MaxMessage \in Nat
  /\ {"*", "-"} \intersect Char = {}

VARIABLES
  about,    \* the conversion looked at
  sub,      \* a subscription, as asked for
  id,       \* the id of its client
  full,     \* a message up to its "="
  len,      \* the length of a message
  list      \* how far client_subscribe_list has come with a client's tokens

vars == <<about, sub, id, full, len, list>>

Least(a, b) == IF a <= b THEN a ELSE b

(* client_subscribe_list's buffer behind the "*" of a client that has      *)
(* asked for everything: br is where the next token goes, left the room it *)
(* counts with, end the place of the NUL.                                  *)
ListStart(all) ==
  LET star == IF all THEN 1 ELSE 0
  IN  [br |-> star, left |-> ListSize - star, end |-> star]

(* Mutant of ListStep: the place of the comma is not counted. *)
ListStep_comma(l, n) ==
  LET comma == IF l.end > 0 THEN 1 ELSE 0
      left  == l.left
      fits  == IF left > 0 THEN Least(n, left - 1) ELSE 0
  IN  [br |-> l.br + comma + n, left |-> left - n,
       end |-> IF left > 0 THEN l.br + comma + fits ELSE l.end]

(* It adds a token of n characters, and a comma before it.                 *)
ListStep(l, n) ==
  LET comma == IF l.end > 0 THEN 1 ELSE 0
      left  == l.left - comma
      fits  == IF left > 0 THEN Least(n, left - 1) ELSE 0
  IN  [br |-> l.br + comma + n, left |-> left - n,
       end |-> IF left > 0 THEN l.br + comma + fits ELSE l.end]

Init ==
  /\ about \in {"token", "chunk", "list"}
  /\ sub = <<>> /\ id = <<>> /\ full = <<>> /\ len = 0
  /\ list \in {ListStart(all) : all \in BOOLEAN}

(* A subscription has no "-", which separates subscriptions.               *)
Subscribe(c) ==
  /\ about = "token" /\ Len(sub) < TokenSize /\ c \in Char \union {"*"}
  /\ sub' = Append(sub, c)
  /\ UNCHANGED <<about, id, full, len, list>>

Identify(c) ==
  /\ about = "token" /\ Len(id) < 2 /\ c \in Char
  /\ id' = Append(id, c)
  /\ UNCHANGED <<about, sub, full, len, list>>

Address(c) ==
  /\ about = "token" /\ Len(full) <= TokenSize /\ c \in Char \union {"*", "-"}
  /\ full' = Append(full, c)
  /\ UNCHANGED <<about, sub, id, len, list>>

Lengthen ==
  /\ about = "chunk" /\ len < MaxMessage
  /\ len' = len + 1
  /\ UNCHANGED <<about, sub, id, full, list>>

AddToken(n) ==
  /\ about = "list" /\ list.left > 0
  /\ list' = ListStep(list, n)
  /\ UNCHANGED <<about, sub, id, full, len>>

Next ==
  \/ \E c \in Char \union {"*", "-"} : Subscribe(c) \/ Identify(c) \/ Address(c)
  \/ Lengthen
  \/ \E n \in 1 .. TokenSize - 2 : AddToken(n)

Spec == Init /\ [][Next]_vars

-----------------------------------------------------------------------------
(***************************************************************************)
(* Tokens.                                                                 *)
(***************************************************************************)

(* The string h_strlcpy leaves in a buffer of `size` characters. *)
h_strlcpy(s, size) == SubSeq(s, 1, Least(Len(s), size - 1))

(* strncmp(s, t, n) == 0 *)
SameUpTo(s, t, n) == SubSeq(s, 1, Least(Len(s), n)) = SubSeq(t, 1, Least(Len(t), n))

(* The C index of the first c in s, or -1. *)
get_pos(s, c) ==
  IF c \in Range(s)
    THEN (CHOOSE i \in DOMAIN s : s[i] = c /\ \A x \in 1 .. i - 1 : s[x] # c) - 1
    ELSE -1

(* Mutant of token: it is copied as subscriptions are. *)
token_short == h_strlcpy(full, TokenSize - 1)

(* sendmessages' token, before the id is cut off it. *)
token == h_strlcpy(full, TokenSize)

mr == get_pos(token, "-")

mm == IF get_pos(token, "*") = -1 THEN TokenSize ELSE get_pos(token, "*")

Accepted ==
  /\ full # <<>> /\ Len(full) <= TokenSize
  /\ ~(mr # -1 /\ mm # TokenSize /\ mr < mm)

rejectId == IF mr = -1 THEN <<>> ELSE SubSeq(token, mr + 2, Len(token))

(* The token that clients are compared with. *)
Name == IF mr = -1 THEN token ELSE SubSeq(token, 1, mr)

(* Mutant of client_subscribe_exists: the "*" is compared too. *)
client_subscribe_exists_star ==
  /\ ~(rejectId # <<>> /\ rejectId = id)
  /\ sub = <<"*">> \/ Name = <<"*">>
     \/ (sub # <<>> /\ SameUpTo(h_strlcpy(sub, TokenSize - 1), Name, mm + 1))

(* client_subscribe_add keeps a subscription in TokenSize - 1 characters,  *)
(* and none at all that is empty.                                          *)
client_subscribe_exists ==
  /\ ~(rejectId # <<>> /\ rejectId = id)
  /\ sub = <<"*">> \/ Name = <<"*">>
     \/ (sub # <<>> /\ SameUpTo(h_strlcpy(sub, TokenSize - 1), Name, mm))

Delivered == Accepted /\ client_subscribe_exists

(* What the sender has written: a name, and an id after the first "-". *)
NameAsWritten ==
  IF get_pos(full, "-") = -1 THEN full ELSE SubSeq(full, 1, get_pos(full, "-"))

IdAsWritten == SubSeq(full, Len(NameAsWritten) + 2, Len(full))

(* Whether the name, or what is before its "*", is the subscription's.     *)
NamesSubscription ==
  \/ sub = <<"*">> \/ NameAsWritten = <<"*">>
  \/ /\ sub # <<>>
     /\ IF "*" \in Range(NameAsWritten)
          THEN IsPrefix(SubSeq(NameAsWritten, 1, get_pos(NameAsWritten, "*")), sub)
          ELSE sub = NameAsWritten

-----------------------------------------------------------------------------
(***************************************************************************)
(* Chunks.                                                                 *)
(***************************************************************************)

(* The digits of %x: a message has less than 65536 characters, for the     *)
(* buffer it is read in has 6144 (hasses.h:26).                            *)
HexDigits(n) ==
  IF n < 16 THEN 1 ELSE IF n < 256 THEN 2 ELSE IF n < 4096 THEN 3 ELSE 4

(* Mutant of Announced: the line ends are not counted. *)
Announced_text == IdLen + len

(* chat_chunk_encoding: the length it writes before the data, ... *)
Announced == IdLen + len + 2

(* ... and how much snprintf leaves behind it of the data and line ends,   *)
(* the two bytes that end the chunk included.                              *)
ChunkSent ==
  LET room == OutSize - 1 - (HexDigits(Announced) + 2)
  IN  Least(IdLen + len + 4, room)

-----------------------------------------------------------------------------
(***************************************************************************)
(* Properties.                                                             *)
(***************************************************************************)

(* As long as token, "-" and id together fit the token's buffer, and the   *)
(* subscription its own, which is one character shorter, a message goes to *)
(* those whose subscription it names, and not to the one whose id it       *)
(* gives; only a "*" within the id makes it wrong (chat.c:358-392).        *)
MatchesAsNamed ==
  /\ Len(full) \in 1 .. TokenSize - 1 /\ Len(sub) <= TokenSize - 2
  /\ Accepted \/ "*" \notin Range(IdAsWritten)
  => (Delivered <=> /\ NamesSubscription
                    /\ ~(IdAsWritten # <<>> /\ IdAsWritten = id))

(* Beyond that length a message may be lost for those it names, but it     *)
(* never goes to others, unless their own subscription has been cut        *)
(* (cdata.c:295).  Of the id it says nothing: one that is cut excludes     *)
(* another client than the one it gives, or none.                          *)
NeverToOthers == Len(sub) <= TokenSize - 2 /\ Delivered => NamesSubscription

(* A chunk is as long as it announces up to the length of a message that  *)
(* fills its buffer.  A longer message breaks the chunked stream, whose    *)
(* reader takes what is sent next for its rest (chat.c:435).               *)
ChunkAsAnnounced ==
  about = "chunk" => (ChunkSent = Announced + 2 <=> len <= OutSize - IdLen - 10)

(* However many tokens there are, what client_subscribe_list writes stays  *)
(* within its buffer, with the NUL.                                        *)
ListStaysInBuffer == list.end < ListSize
=============================================================================
