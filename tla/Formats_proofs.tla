---------------------------- MODULE Formats_proofs ----------------------------
(***************************************************************************)
(* Proofs about the conversions of Formats: what get_pos, h_strlcpy and    *)
(* strncmp give on any strings, and from that what sendmessages compares,  *)
(* for tokens, subscriptions and ids of any characters.                    *)
(***************************************************************************)
EXTENDS Formats, WellFoundedInduction, SequenceTheorems, TLAPS

Letter == Char \union {"*", "-"}

(***************************************************************************)
(* Strings.                                                                *)
(***************************************************************************)

(* A set of positions that is not empty has a least one.                   *)
LEMMA LeastPosition ==
  ASSUME NEW P \in SUBSET Nat, P # {}
  PROVE  \E i \in P : \A j \in P : i <= j
<1>1. PICK i \in P : \A j \in P : ~(<<j, i>> \in OpToRel(<, Nat))
  BY NatLessThanWellFounded, WFMin
<1>2. \A j \in P : ~(j < i)
  BY <1>1, Zenon DEF OpToRel
<1>3. QED
  BY <1>2

(* get_pos gives the place of the first c, counted from 0, or -1.          *)
LEMMA FirstPlace ==
  ASSUME NEW s \in Seq(Letter), NEW c
  PROVE  /\ get_pos(s, c) \in -1 .. Len(s) - 1
         /\ get_pos(s, c) = -1 <=> c \notin Range(s)
         /\ get_pos(s, c) # -1 => s[get_pos(s, c) + 1] = c
         /\ \A x \in 1 .. get_pos(s, c) : s[x] # c
<1>1. CASE c \notin Range(s)
  BY <1>1 DEF get_pos
<1>2. CASE c \in Range(s)
  <2> DEFINE First(i) == s[i] = c /\ \A x \in 1 .. i - 1 : s[x] # c
             P == {i \in DOMAIN s : s[i] = c}
  <2>1. P \in SUBSET Nat /\ P # {}
    BY <1>2 DEF Range
  <2>2. PICK i \in P : \A j \in P : i <= j
    BY <2>1, LeastPosition
  <2>3. First(i) /\ i \in DOMAIN s
    BY <2>2
  <2>4. PICK k \in DOMAIN s : k = (CHOOSE j \in DOMAIN s : First(j)) /\ First(k)
    BY <2>3
  <2>5. get_pos(s, c) = k - 1
    BY <1>2, <2>4 DEF get_pos
  <2>6. k \in 1 .. Len(s) /\ Len(s) \in Nat /\ s[k] = c
        /\ \A x \in 1 .. k - 1 : s[x] # c
    BY <2>4
  <2> HIDE DEF First, P
  <2>7. QED
    BY <1>2, <2>5, <2>6
<1>3. QED
  BY <1>1, <1>2

(* The beginning of a string.                                              *)
LEMMA Beginning ==
  ASSUME NEW s \in Seq(Letter), NEW n \in 0 .. Len(s)
  PROVE  /\ SubSeq(s, 1, n) \in Seq(Letter)
         /\ Len(SubSeq(s, 1, n)) = n
         /\ \A i \in 1 .. n : SubSeq(s, 1, n)[i] = s[i]
         /\ SubSeq(s, 1, Len(s)) = s
<1>1. \A i \in 1 .. n : s[i] \in Letter
  OBVIOUS
<1>2. QED
  BY <1>1, SubSeqProperties, SubSeqFull

(* Two beginnings are the same when they are as long and agree place by    *)
(* place.                                                                  *)
LEMMA SameBeginnings ==
  ASSUME NEW s \in Seq(Letter), NEW t \in Seq(Letter),
         NEW m \in 0 .. Len(s), NEW n \in 0 .. Len(t)
  PROVE  SubSeq(s, 1, m) = SubSeq(t, 1, n)
           <=> m = n /\ \A i \in 1 .. m : s[i] = t[i]
<1> DEFINE a == SubSeq(s, 1, m)
           b == SubSeq(t, 1, n)
<1>1. /\ a \in Seq(Letter) /\ Len(a) = m /\ \A i \in 1 .. m : a[i] = s[i]
      /\ b \in Seq(Letter) /\ Len(b) = n /\ \A i \in 1 .. n : b[i] = t[i]
  BY Beginning
<1> HIDE DEF a, b
<1>2. ASSUME m = n, \A i \in 1 .. m : s[i] = t[i]  PROVE  a = b
  BY <1>1, <1>2, SeqEqual
<1>3. ASSUME a = b  PROVE  m = n /\ \A i \in 1 .. m : s[i] = t[i]
  BY <1>1, <1>3
<1>4. QED
  BY <1>2, <1>3 DEF a, b

(* A string that has room in a buffer is copied whole.                     *)
LEMMA Copied ==
  ASSUME NEW s \in Seq(Letter), NEW size \in Nat, Len(s) < size
  PROVE  h_strlcpy(s, size) = s
<1>1. Least(Len(s), size - 1) = Len(s)
  BY DEF Least
<1>2. QED
  BY <1>1, Beginning DEF h_strlcpy

(* One that has none is cut.                                               *)
LEMMA Cut ==
  ASSUME NEW s \in Seq(Letter), NEW size \in Nat \ {0}, Len(s) >= size
  PROVE  h_strlcpy(s, size) = SubSeq(s, 1, size - 1)
<1>1. Least(Len(s), size - 1) = size - 1
  BY DEF Least
<1>2. QED
  BY <1>1 DEF h_strlcpy

-----------------------------------------------------------------------------
(***************************************************************************)
(* Tokens.                                                                 *)
(***************************************************************************)

(* What the strings and counters are: no more than types, for the          *)
(* properties of tokens and chunks hold of any strings and lengths.        *)
Typed ==
  /\ sub \in Seq(Letter) /\ id \in Seq(Letter) /\ full \in Seq(Letter)
  /\ len \in Nat

(* The token sendmessages keeps is what it was given, to TokenSize - 1     *)
(* characters.                                                             *)
LEMMA TokenKept ==
  ASSUME Typed, full # <<>>, Len(full) <= TokenSize
  PROVE  /\ token \in Seq(Letter) /\ Len(token) \in 1 .. TokenSize - 1
         /\ \A i \in 1 .. Len(token) : token[i] = full[i]
         /\ Len(full) < TokenSize => token = full
         /\ Len(full) = TokenSize => Len(token) = TokenSize - 1
<1>1. TokenSize \in Nat /\ TokenSize > 2 /\ full \in Seq(Letter) /\ Len(full) \in Nat \ {0}
  BY SizesAssumption, EmptySeq DEF Typed
<1>2. CASE Len(full) < TokenSize
  BY <1>1, <1>2, Copied DEF token
<1>3. CASE Len(full) = TokenSize
  <2>1. token = SubSeq(full, 1, TokenSize - 1)
    BY <1>1, <1>3, Cut DEF token
  <2>2. TokenSize - 1 \in 0 .. Len(full)
    BY <1>1, <1>3
  <2>3. QED
    BY <1>1, <1>3, <2>1, <2>2, Beginning
<1>4. QED
  BY <1>1, <1>2, <1>3

(* The name is the token up to its first "-".                              *)
LEMMA NameKept ==
  ASSUME token \in Seq(Letter)
  PROVE  /\ mr \in -1 .. Len(token) - 1
         /\ Name \in Seq(Letter)
         /\ Len(Name) = IF mr = -1 THEN Len(token) ELSE mr
         /\ \A i \in 1 .. Len(Name) : Name[i] = token[i]
<1>1. mr \in -1 .. Len(token) - 1
  BY FirstPlace DEF mr
<1>2. mr # -1 => mr \in 0 .. Len(token)
  BY <1>1
<1>3. QED
  BY <1>1, <1>2, Beginning DEF Name

(* In a message that is accepted the place of "*", which the comparison    *)
(* stops at, is a place in the name, or there is none.                     *)
LEMMA StarInName ==
  ASSUME token \in Seq(Letter), Len(token) < TokenSize, Accepted
  PROVE  IF "*" \in Range(Name) THEN mm = get_pos(Name, "*")
                                       /\ mm \in 0 .. Len(Name) - 1
                                ELSE mm = TokenSize
<1> DEFINE p == get_pos(token, "*")
           q == get_pos(Name, "*")
<1>1. /\ p \in -1 .. Len(token) - 1
      /\ p = -1 <=> "*" \notin Range(token)
      /\ p # -1 => token[p + 1] = "*"
      /\ \A x \in 1 .. p : token[x] # "*"
  BY FirstPlace
<1>2. /\ q \in -1 .. Len(Name) - 1
      /\ q = -1 <=> "*" \notin Range(Name)
      /\ q # -1 => Name[q + 1] = "*"
      /\ \A x \in 1 .. q : Name[x] # "*"
  BY FirstPlace, NameKept
<1>3. mr # -1 => token[mr + 1] = "-"
  BY FirstPlace DEF mr
<1>4. mm = (IF p = -1 THEN TokenSize ELSE p)
  BY DEF mm
<1>5. /\ ~(mr # -1 /\ mm # TokenSize /\ mr < mm)
      /\ TokenSize \in Nat /\ Len(token) \in Nat /\ Len(Name) \in Nat
      /\ Len(Name) <= Len(token)
  BY SizesAssumption, NameKept DEF Accepted
<1>6. /\ mr \in -1 .. Len(token) - 1
      /\ Len(Name) = IF mr = -1 THEN Len(token) ELSE mr
      /\ \A i \in 1 .. Len(Name) : Name[i] = token[i]
  BY NameKept
<1>7. \A i \in 1 .. Len(token) : token[i] = "*" => p # -1
  BY <1>1 DEF Range
<1>8. \A i \in 1 .. Len(Name) : Name[i] = "*" => q # -1
  BY <1>2, NameKept DEF Range
<1> HIDE DEF p, q
<1>9. CASE q # -1
  <2>1. q + 1 \in 1 .. Len(Name) /\ q + 1 \in 1 .. Len(token) /\ token[q + 1] = "*"
    BY <1>2, <1>5, <1>6, <1>9
  <2>2. p # -1 /\ ~(q + 1 <= p)
    BY <1>1, <1>2, <1>7, <2>1
  <2>3. ~(p < q)
    BY <1>1, <1>2, <1>5, <1>6, <2>2
  <2>4. p = q
    BY <1>1, <1>2, <1>5, <2>2, <2>3
  <2> QED
    BY <1>2, <1>4, <1>9, <2>2, <2>4 DEF q
<1>10. CASE q = -1
  <2>1. CASE p = -1
    BY <1>2, <1>4, <1>10, <2>1
  <2>2. CASE p # -1
    <3>1. p + 1 \in 1 .. Len(token) /\ token[p + 1] = "*"
      BY <1>1, <1>5, <2>2
    <3>2. p + 1 \notin 1 .. Len(Name)
      BY <1>6, <1>8, <1>10, <3>1
    <3>3. mr # -1 /\ p # mr /\ mr < p
      BY <1>1, <1>3, <1>5, <1>6, <3>1, <3>2
    <3>4. p # TokenSize
      BY <1>1, <1>5
    <3> QED
      BY <1>4, <1>5, <2>2, <3>3, <3>4
  <2> QED
    BY <2>1, <2>2
<1> QED
  BY <1>9, <1>10

(* What strncmp compares is the subscription and the name, or what the     *)
(* name has before its "*".                                                *)
LEMMA Comparison ==
  ASSUME Typed, token \in Seq(Letter), Len(token) < TokenSize, Accepted,
         Len(sub) <= TokenSize - 2
  PROVE  SameUpTo(h_strlcpy(sub, TokenSize - 1), Name, mm)
           <=> IF "*" \in Range(Name)
                 THEN IsPrefix(SubSeq(Name, 1, get_pos(Name, "*")), sub)
                 ELSE sub = Name
<1>1. TokenSize \in Nat /\ Len(sub) \in Nat /\ sub \in Seq(Letter)
  BY SizesAssumption DEF Typed
<1>2. Name \in Seq(Letter) /\ Len(Name) \in Nat /\ Len(Name) < TokenSize
  BY <1>1, NameKept
<1>3. h_strlcpy(sub, TokenSize - 1) = sub
  BY <1>1, Copied
<1>4. CASE "*" \in Range(Name)
  <2> DEFINE P == SubSeq(Name, 1, mm)
  <2>1. mm = get_pos(Name, "*") /\ mm \in 0 .. Len(Name) - 1
    BY <1>4, StarInName
  <2>2. Least(Len(Name), mm) = mm
    BY <1>2, <2>1 DEF Least
  <2>3. SameUpTo(sub, Name, mm) <=> SubSeq(sub, 1, Least(Len(sub), mm)) = P
    BY <2>2 DEF SameUpTo
  <2>4. mm \in 0 .. Len(Name)
    BY <1>2, <2>1
  <2>5. P \in Seq(Letter) /\ Len(P) = mm /\ SubSeq(P, 1, mm) = P
    BY <1>2, <2>4, Beginning
  <2>6. IsPrefix(P, sub) <=> mm <= Len(sub) /\ SubSeq(sub, 1, mm) = P
    BY <2>5 DEF IsPrefix
  <2>7. CASE mm <= Len(sub)
    BY <1>1, <2>1, <2>3, <2>6, <2>7, <1>3, <1>4 DEF Least
  <2>8. CASE ~(mm <= Len(sub))
    <3>1. Least(Len(sub), mm) = Len(sub)
      BY <1>1, <2>1, <2>8 DEF Least
    <3>2. SubSeq(sub, 1, Len(sub)) # P
      <4>1. Len(SubSeq(sub, 1, Len(sub))) = Len(sub)
        BY <1>1, Beginning
      <4> QED
        BY <1>1, <2>4, <2>5, <2>8, <4>1
    <3> QED
      BY <1>3, <1>4, <2>1, <2>3, <2>6, <2>8, <3>1, <3>2
  <2> QED
    BY <2>7, <2>8
<1>5. CASE "*" \notin Range(Name)
  <2>1. mm = TokenSize
    BY <1>5, StarInName
  <2>2. Least(Len(sub), mm) = Len(sub) /\ Least(Len(Name), mm) = Len(Name)
    BY <1>1, <1>2, <2>1 DEF Least
  <2>3. SubSeq(sub, 1, Len(sub)) = sub /\ SubSeq(Name, 1, Len(Name)) = Name
    BY <1>1, <1>2, Beginning
  <2> QED
    BY <1>3, <1>5, <2>2, <2>3 DEF SameUpTo
<1> QED
  BY <1>4, <1>5

(* A message in the name its sender has written goes to those it names.    *)
LEMMA NamesWhenKept ==
  ASSUME Typed, token \in Seq(Letter), Len(token) < TokenSize, Accepted,
         Len(sub) <= TokenSize - 2, Name = NameAsWritten
  PROVE  client_subscribe_exists
           <=> NamesSubscription /\ ~(rejectId # <<>> /\ rejectId = id)
BY Comparison DEF client_subscribe_exists, NamesSubscription

(* The name and the id of a message that fits the buffer are those its     *)
(* sender has written.                                                     *)
LEMMA AsWritten ==
  ASSUME Typed, token = full
  PROVE  Name = NameAsWritten /\ rejectId = IdAsWritten
<1>1. mr = get_pos(full, "-")
  BY DEF mr
<1>2. Name = NameAsWritten
  BY <1>1 DEF Name, NameAsWritten
<1>3. full \in Seq(Letter) /\ Len(full) \in Nat
  BY DEF Typed
<1>4. CASE mr = -1
  <2>1. rejectId = <<>> /\ NameAsWritten = full
    BY <1>1, <1>4 DEF rejectId, NameAsWritten
  <2>2. SubSeq(full, Len(full) + 2, Len(full)) = <<>>
    BY <1>3, SubSeqEmpty
  <2> QED
    BY <1>2, <2>1, <2>2 DEF IdAsWritten
<1>5. CASE mr # -1
  <2>1. Len(NameAsWritten) = mr
    BY <1>2, <1>3, <1>5, NameKept
  <2> QED
    BY <1>2, <1>5, <2>1 DEF IdAsWritten, rejectId
<1> QED
  BY <1>4, <1>5

(* A message that is refused for its form has a "*" behind its first "-".  *)
LEMMA RefusedForStar ==
  ASSUME Typed, token = full, full # <<>>, Len(full) <= TokenSize, ~Accepted
  PROVE  "*" \in Range(IdAsWritten)
<1> DEFINE p == get_pos(full, "*")
<1>1. full \in Seq(Letter) /\ Len(full) \in Nat
  BY DEF Typed
<1>2. mr # -1 /\ mm # TokenSize /\ mr < mm
  BY DEF Accepted
<1>3. mm = p /\ p # -1
  BY <1>2 DEF mm
<1>4. p \in -1 .. Len(full) - 1 /\ (p # -1 => full[p + 1] = "*")
  BY <1>1, FirstPlace
<1>5. mr \in -1 .. Len(full) - 1
  BY <1>1, NameKept
<1>6. rejectId = SubSeq(full, mr + 2, Len(full))
  BY <1>2 DEF rejectId
<1> HIDE DEF p
<1>7. p + 1 \in mr + 2 .. Len(full) /\ mr + 2 \in 1 .. Len(full) /\ full[p + 1] = "*"
  BY <1>1, <1>2, <1>3, <1>4, <1>5
<1>8. \A i \in mr + 2 .. Len(full) : full[i] \in Letter
  BY <1>1, <1>7
<1>9. /\ Len(rejectId) = Len(full) - (mr + 2) + 1
      /\ \A i \in 1 .. Len(full) - (mr + 2) + 1 : rejectId[i] = full[mr + 2 + i - 1]
      /\ rejectId \in Seq(Letter)
  BY <1>1, <1>6, <1>7, <1>8, SubSeqProperties
<1>10. p - mr \in 1 .. Len(rejectId) /\ rejectId[p - mr] = "*"
  BY <1>1, <1>4, <1>5, <1>7, <1>9
<1>11. "*" \in Range(rejectId)
  BY <1>9, <1>10 DEF Range
<1> QED
  BY <1>11, AsWritten

(* A message that fits, with its id, goes where its sender has written,    *)
(* whatever the characters.                                                *)
LEMMA TypedMatchesAsNamed == Typed => MatchesAsNamed
<1> SUFFICES ASSUME Typed, Len(full) \in 1 .. TokenSize - 1,
                    Len(sub) <= TokenSize - 2,
                    Accepted \/ "*" \notin Range(IdAsWritten)
             PROVE  Delivered <=> /\ NamesSubscription
                                  /\ ~(IdAsWritten # <<>> /\ IdAsWritten = id)
  BY Zenon DEF MatchesAsNamed
<1>1. full \in Seq(Letter) /\ Len(full) \in Nat /\ TokenSize \in Nat
  BY SizesAssumption DEF Typed
<1>2. full # <<>> /\ Len(full) <= TokenSize /\ Len(full) < TokenSize
  BY <1>1, EmptySeq
<1>3. token = full /\ token \in Seq(Letter) /\ Len(token) < TokenSize
  BY <1>1, <1>2, TokenKept
<1>4. Accepted
  BY <1>2, <1>3, RefusedForStar
<1>5. Name = NameAsWritten /\ rejectId = IdAsWritten
  BY <1>3, AsWritten
<1> QED
  BY <1>3, <1>4, <1>5, NamesWhenKept DEF Delivered

(* A name that has been cut still has everything before its "*", if it has *)
(* one, and is too long for a subscription if it has none.                 *)
LEMMA CutName ==
  ASSUME Typed, Len(full) = TokenSize, Len(sub) <= TokenSize - 2, Delivered,
         get_pos(full, "-") = -1
  PROVE  NamesSubscription
<1>1. full \in Seq(Letter) /\ TokenSize \in Nat /\ TokenSize > 2
  BY SizesAssumption DEF Typed
<1>2. /\ token \in Seq(Letter) /\ Len(token) = TokenSize - 1
      /\ \A i \in 1 .. Len(token) : token[i] = full[i]
  BY <1>1, TokenKept, EmptySeq
<1>3. mr = -1 /\ Name = token /\ NameAsWritten = full
  <2>1. \A i \in 1 .. Len(full) : full[i] # "-"
    BY <1>1, FirstPlace DEF Range
  <2>2. \A i \in 1 .. Len(token) : token[i] # "-"
    BY <1>1, <1>2, <2>1
  <2>3. "-" \notin Range(token)
    BY <1>2, <2>2 DEF Range
  <2>4. mr = -1
    BY <1>2, <2>3, FirstPlace DEF mr
  <2> QED
    BY <2>4 DEF Name, NameAsWritten
<1>4. Accepted
  BY DEF Delivered
<1>5. CASE sub = <<"*">>
  BY <1>5 DEF NamesSubscription
<1>6. CASE sub # <<"*">> /\ "*" \in Range(Name)
  <2> DEFINE p == get_pos(full, "*")
             q == get_pos(token, "*")
  <2>1. /\ q \in 0 .. Len(token) - 1 /\ token[q + 1] = "*"
        /\ \A x \in 1 .. q : token[x] # "*"
    BY <1>2, <1>3, <1>6, FirstPlace
  <2>2. /\ p \in -1 .. Len(full) - 1
        /\ p = -1 <=> "*" \notin Range(full)
        /\ p # -1 => full[p + 1] = "*"
        /\ \A x \in 1 .. p : full[x] # "*"
    BY <1>1, FirstPlace
  <2>3. "*" \in Range(full)
    BY <1>1, <1>2, <2>1 DEF Range
  <2> HIDE DEF p, q
  <2>4. ~(q + 1 \in 1 .. p)
    BY <1>1, <1>2, <2>1, <2>2
  <2>5. ~(p + 1 \in 1 .. q)
    BY <1>1, <1>2, <2>1, <2>2, <2>3
  <2>6. p = q
    BY <1>1, <1>2, <2>1, <2>2, <2>3, <2>4, <2>5
  <2>7. q \in 0 .. Len(token) /\ q \in 0 .. Len(full)
    BY <1>1, <1>2, <2>1
  <2>8. SubSeq(full, 1, p) = SubSeq(token, 1, q)
    <3>1. \A i \in 1 .. p : full[i] = token[i]
      BY <1>1, <1>2, <2>6, <2>7
    <3> QED
      BY <1>1, <1>2, <2>6, <2>7, <3>1, SameBeginnings
  <2>9. Name = <<"*">> \/ (sub # <<>> /\ IsPrefix(SubSeq(token, 1, q), sub))
    BY <1>1, <1>2, <1>3, <1>4, <1>6, Comparison DEF q, Delivered, client_subscribe_exists
  <2>10. Name # <<"*">>
    <3>1. Len(<<"*">>) = 1
      OBVIOUS
    <3> QED
      BY <1>1, <1>2, <1>3, <3>1
  <2> QED
    BY <1>3, <2>3, <2>8, <2>9, <2>10 DEF NamesSubscription, p
<1>7. CASE sub # <<"*">> /\ "*" \notin Range(Name)
  <2>1. Name # <<"*">>
    <3>1. Len(<<"*">>) = 1
      OBVIOUS
    <3> QED
      BY <1>1, <1>2, <1>3, <3>1
  <2>2. sub = Name
    BY <1>1, <1>2, <1>4, <1>7, <2>1, Comparison DEF Delivered, client_subscribe_exists
  <2> QED
    BY <1>1, <1>2, <1>3, <2>2
<1> QED
  BY <1>5, <1>6, <1>7

LEMMA TypedNeverToOthers == Typed => NeverToOthers
<1> SUFFICES ASSUME Typed, Len(sub) <= TokenSize - 2, Delivered
             PROVE  NamesSubscription
  BY Zenon DEF NeverToOthers
<1>1. /\ full \in Seq(Letter) /\ Len(full) \in Nat
      /\ TokenSize \in Nat /\ TokenSize > 2
      /\ full # <<>> /\ Len(full) <= TokenSize /\ Accepted
  BY SizesAssumption DEF Typed, Delivered, Accepted
<1>2. /\ token \in Seq(Letter) /\ Len(token) \in 1 .. TokenSize - 1
      /\ \A i \in 1 .. Len(token) : token[i] = full[i]
      /\ Len(full) < TokenSize => token = full
      /\ Len(full) = TokenSize => Len(token) = TokenSize - 1
  BY <1>1, TokenKept
<1>3. Len(token) < TokenSize
  BY <1>1, <1>2
<1>4. CASE Name = NameAsWritten
  BY <1>1, <1>2, <1>3, <1>4, NamesWhenKept DEF Delivered
<1>5. CASE Name # NameAsWritten
  <2>1. Len(full) = TokenSize
    BY <1>1, <1>2, <1>5, AsWritten
  <2>2. CASE get_pos(full, "-") = -1
    BY <2>1, <2>2, CutName
  <2>3. CASE get_pos(full, "-") # -1
    <3> DEFINE g == get_pos(full, "-")
    <3>1. /\ g \in 0 .. Len(full) - 1 /\ full[g + 1] = "-"
          /\ \A x \in 1 .. g : full[x] # "-"
      BY <1>1, <2>3, FirstPlace
    <3>2. /\ mr \in -1 .. Len(token) - 1
          /\ mr = -1 <=> "-" \notin Range(token)
          /\ mr # -1 => token[mr + 1] = "-"
          /\ \A x \in 1 .. mr : token[x] # "-"
      BY <1>2, FirstPlace DEF mr
    <3>3. NameAsWritten = SubSeq(full, 1, g)
      BY <2>3 DEF NameAsWritten
    <3>4. \A i \in 1 .. Len(token) : token[i] = "-" => mr # -1
      BY <1>2, <3>2 DEF Range
    <3> HIDE DEF g
    <3>5. Len(Name) = g
      <4>1. CASE mr = -1
        <5>1. g = TokenSize - 1
          BY <1>1, <1>2, <2>1, <3>1, <3>4, <4>1
        <5> QED
          BY <1>2, <2>1, <4>1, <5>1, NameKept
      <4>2. CASE mr # -1
        <5>1. ~(mr + 1 \in 1 .. g) /\ ~(g + 1 \in 1 .. mr)
          BY <1>1, <1>2, <2>1, <3>1, <3>2, <4>2
        <5>2. mr = g
          BY <1>1, <1>2, <2>1, <3>1, <3>2, <4>2, <5>1
        <5> QED
          BY <1>2, <4>2, <5>2, NameKept
      <4> QED
        BY <4>1, <4>2
    <3>6. Name \in Seq(Letter) /\ \A i \in 1 .. Len(Name) : Name[i] = full[i]
      BY <1>1, <1>2, NameKept
    <3>7. SubSeq(Name, 1, Len(Name)) = Name
      BY <3>6, Beginning
    <3>8. Name = NameAsWritten
      <4>1. g \in 0 .. Len(Name) /\ g \in 0 .. Len(full)
        BY <1>1, <3>1, <3>5
      <4> QED
        BY <1>1, <3>3, <3>5, <3>6, <3>7, <4>1, SameBeginnings
    <3> QED
      BY <1>5, <3>8
  <2> QED
    BY <2>2, <2>3
<1> QED
  BY <1>4, <1>5

-----------------------------------------------------------------------------
(***************************************************************************)
(* Chunks.                                                                 *)
(***************************************************************************)

(* With a buffer in which the longest chunk has three digits, as the one   *)
(* of 2048 bytes has, a chunk is as long as announced exactly up to the    *)
(* length that fills it.                                                   *)
LEMMA TypedChunkAsAnnounced ==
  ASSUME OutSize \in 264 .. 4096
  PROVE  Typed => ChunkAsAnnounced
<1> SUFFICES ASSUME Typed
             PROVE  ChunkSent = Announced + 2 <=> len <= OutSize - IdLen - 10
  BY DEF ChunkAsAnnounced
<1> DEFINE d == HexDigits(Announced)
<1>1. IdLen \in Nat /\ len \in Nat /\ OutSize \in Nat
  BY SizesAssumption DEF Typed
<1>2. Announced = IdLen + len + 2 /\ ChunkSent = Least(IdLen + len + 4, OutSize - 3 - d)
  <2>1. d \in 1 .. 4
    BY <1>1 DEF HexDigits
  <2>2. OutSize - 1 - (d + 2) = OutSize - 3 - d
    BY <1>1, <2>1
  <2>3. ChunkSent = Least(IdLen + len + 4, OutSize - 1 - (d + 2))
    BY DEF ChunkSent
  <2> QED
    BY <2>2, <2>3 DEF Announced
<1>3. /\ d \in 1 .. 4
      /\ Announced < 256 => d <= 2
      /\ Announced >= 256 /\ Announced < 4096 => d = 3
      /\ Announced >= 4096 => d = 4
  BY <1>1, <1>2 DEF HexDigits
<1> HIDE DEF d
<1>4. ChunkSent = Announced + 2 <=> IdLen + len + 4 <= OutSize - 3 - d
  BY <1>1, <1>2, <1>3 DEF Least
<1>5. QED
  BY <1>1, <1>2, <1>3, <1>4

-----------------------------------------------------------------------------
(***************************************************************************)
(* Lists and the theorems of the specification.                            *)
(***************************************************************************)

(* What is written and the room that is left are the buffer, commas        *)
(* included, and the NUL is within it.                                     *)
ListInv ==
  /\ list \in [br : Nat, left : Int, end : Nat]
  /\ list.br + list.left = ListSize
  /\ list.end < ListSize

IInv == Typed /\ ListInv

LEMMA ListStartInv ==
  ASSUME NEW all \in BOOLEAN, list = ListStart(all)
  PROVE  ListInv
<1> DEFINE star == IF all THEN 1 ELSE 0
<1>1. list = [br |-> star, left |-> ListSize - star, end |-> star]
  BY DEF ListStart
<1>2. star \in 0 .. 1 /\ ListSize \in Nat /\ ListSize > 1
  BY SizesAssumption
<1> HIDE DEF star
<1> QED
  BY <1>1, <1>2 DEF ListInv

LEMMA ListStepInv ==
  ASSUME ListInv, NEW n \in Nat, AddToken(n)
  PROVE  ListInv'
<1> DEFINE comma == IF list.end > 0 THEN 1 ELSE 0
           left  == list.left - comma
           fits  == IF left > 0 THEN Least(n, left - 1) ELSE 0
<1>1. list' = [br |-> list.br + comma + n, left |-> left - n,
               end |-> IF left > 0 THEN list.br + comma + fits ELSE list.end]
  BY DEF AddToken, ListStep
<1>2. /\ list.br \in Nat /\ list.left \in Int /\ list.end \in Nat
      /\ list.br + list.left = ListSize /\ list.end < ListSize
      /\ ListSize \in Nat
  BY SizesAssumption DEF ListInv
<1>3. comma \in 0 .. 1
  OBVIOUS
<1> HIDE DEF comma
<1>4. left \in Int /\ list.br + comma + left = ListSize
  BY <1>2, <1>3
<1> HIDE DEF left
<1>5. /\ fits \in Nat
      /\ left > 0 => fits <= left - 1
  BY <1>4 DEF Least
<1> HIDE DEF fits
<1>6. /\ list'.br = list.br + comma + n /\ list'.left = left - n
      /\ list'.end = (IF left > 0 THEN list.br + comma + fits ELSE list.end)
  BY <1>1
<1>7. /\ list.br + comma + n \in Nat /\ left - n \in Int
      /\ (IF left > 0 THEN list.br + comma + fits ELSE list.end) \in Nat
      /\ (IF left > 0 THEN list.br + comma + fits ELSE list.end) < ListSize
      /\ list.br + comma + n + (left - n) = ListSize
  BY <1>2, <1>3, <1>4, <1>5
<1>8. list' \in [br : Nat, left : Int, end : Nat]
  BY <1>1, <1>7
<1> QED
  BY <1>6, <1>7, <1>8 DEF ListInv

(* The inductive invariant: strings are strings, and the room that is left *)
(* in the list's buffer is what has not been written.                      *)
THEOREM FormatsInductive == Spec => []IInv
<1>1. Init => IInv
  <2> SUFFICES ASSUME Init PROVE IInv
    OBVIOUS
  <2>1. ListInv
    BY ListStartInv DEF Init
  <2> QED
    BY <2>1, EmptySeq DEF Init, IInv, Typed
<1>2. IInv /\ [Next]_vars => IInv'
  <2> SUFFICES ASSUME IInv, [Next]_vars PROVE IInv'
    OBVIOUS
  <2>1. ASSUME NEW c \in Char \union {"*", "-"}, Subscribe(c)  PROVE IInv'
    <3>1. sub' \in Seq(Letter)
      BY <2>1, AppendProperties DEF Subscribe, IInv, Typed, Letter
    <3> QED
      BY <2>1, <3>1 DEF Subscribe, IInv, Typed, ListInv
  <2>2. ASSUME NEW c \in Char \union {"*", "-"}, Identify(c)  PROVE IInv'
    <3>1. id' \in Seq(Letter)
      BY <2>2, AppendProperties DEF Identify, IInv, Typed, Letter
    <3> QED
      BY <2>2, <3>1 DEF Identify, IInv, Typed, ListInv
  <2>3. ASSUME NEW c \in Char \union {"*", "-"}, Address(c)  PROVE IInv'
    <3>1. full' \in Seq(Letter)
      BY <2>3, AppendProperties DEF Address, IInv, Typed, Letter
    <3> QED
      BY <2>3, <3>1 DEF Address, IInv, Typed, ListInv
  <2>4. CASE Lengthen
    BY <2>4 DEF Lengthen, IInv, Typed, ListInv
  <2>5. ASSUME NEW n \in 1 .. TokenSize - 2, AddToken(n)  PROVE IInv'
    <3>1. n \in Nat
      BY SizesAssumption
    <3>2. ListInv'
      BY <2>5, <3>1, ListStepInv DEF IInv
    <3> QED
      BY <2>5, <3>2 DEF AddToken, IInv, Typed
  <2>6. CASE UNCHANGED vars
    BY <2>6 DEF vars, IInv, Typed, ListInv
  <2> QED
    BY <2>1, <2>2, <2>3, <2>4, <2>5, <2>6 DEF Next
<1> QED
  BY <1>1, <1>2, PTL DEF Spec

(* A message whose token, with the "-" and the id, fits the buffer goes to *)
(* exactly those whose subscription it names, except the one whose id it   *)
(* gives: for tokens and ids of any characters and buffers of any size     *)
(* (chat.c:358-392).                                                       *)
THEOREM MatchesAsNamedHolds == Spec => []MatchesAsNamed
<1>1. IInv => MatchesAsNamed
  BY TypedMatchesAsNamed DEF IInv
<1> QED
  BY <1>1, FormatsInductive, PTL

(* However long the token, a message goes to nobody whose subscription it  *)
(* does not name; whom the id excludes is another matter.                  *)
THEOREM NeverToOthersHolds == Spec => []NeverToOthers
<1>1. IInv => NeverToOthers
  BY TypedNeverToOthers DEF IInv
<1> QED
  BY <1>1, FormatsInductive, PTL

(* Messages are sent as they are announced exactly up to the length that   *)
(* fills the buffer, for any size of it whose chunks have three digits,    *)
(* the 2048 of the code included (chat.c:435-446).                         *)
THEOREM ChunkAsAnnouncedHolds ==
  ASSUME OutSize \in 264 .. 4096
  PROVE  Spec => []ChunkAsAnnounced
<1>1. IInv => ChunkAsAnnounced
  BY TypedChunkAsAnnounced DEF IInv
<1> QED
  BY <1>1, FormatsInductive, PTL

(* The list of subscriptions stays in its buffer, however many and however *)
(* long they are (cdata.c:253-283).                                        *)
THEOREM ListStaysInBufferHolds == Spec => []ListStaysInBuffer
<1>1. IInv => ListStaysInBuffer
  BY DEF IInv, ListInv, ListStaysInBuffer
<1> QED
  BY <1>1, FormatsInductive, PTL
=============================================================================
