-------------------------- MODULE ClientData_proofs --------------------------
(***************************************************************************)
(* Lemmas about the operations of the client database: which slots each of *)
(* them leaves in use, what is in these slots, and that the invariants of  *)
(* ClientData are preserved.                                               *)
(***************************************************************************)
EXTENDS ClientData, SequenceTheorems, TLAPS

DbInv == DbTypeOK /\ BanksPacked /\ OneSlotPerDescr /\ CursorOnLiveBank

(* A slot in use is a pair of a bank and an index into its used part.      *)
LEMMA SlotsDef ==
  ASSUME NEW list, NEW p
  PROVE  p \in SlotsIn(list) <=>
           \E k \in 1 .. Len(list) : \E i \in 1 .. Len(list[k]) : p = <<k, i>>
  BY DEF SlotsIn

LEMMA SlotType ==
  ASSUME DbTypeOK, NEW p \in Slots
  PROVE  /\ p[1] \in 1 .. Len(banks)
         /\ p[2] \in 1 .. Len(banks[p[1]])
         /\ p = <<p[1], p[2]>>
         /\ Entry(p) \in Client
         /\ banks[p[1]] \in Seq(Client)
  <1>1. PICK k \in 1 .. Len(banks) :
               \E i \in 1 .. Len(banks[k]) : p = <<k, i>>
    BY SlotsDef DEF Slots
  <1>2. banks[k] \in Seq(Client) /\ Len(banks[k]) \in Nat
    BY <1>1, ElementOfSeq DEF DbTypeOK
  <1> QED  BY <1>1, <1>2 DEF Entry, DbTypeOK

LEMMA SlotIntro ==
  ASSUME NEW list, NEW k \in 1 .. Len(list), NEW i \in 1 .. Len(list[k])
  PROVE  <<k, i>> \in SlotsIn(list)
  BY SlotsDef

LEMMA SameSlots ==
  ASSUME NEW s, NEW t, Len(s) = Len(t),
         \A k \in 1 .. Len(s) : Len(s[k]) = Len(t[k])
  PROVE  SlotsIn(s) = SlotsIn(t)
  BY DEF SlotsIn

LEMMA WrittenOK ==
  ASSUME DbTypeOK, NEW p \in Slots, NEW c \in Client, NEW w, w = Written(p, c)
  PROVE  /\ w \in Seq(Seq(Client))
         /\ Len(w) = Len(banks)
         /\ \A k \in 1 .. Len(banks) :
              w[k] \in Seq(Client) /\ Len(w[k]) = Len(banks[k])
         /\ SlotsIn(w) = Slots
         /\ \A q \in Slots : w[q[1]][q[2]] = IF q = p THEN c ELSE Entry(q)
  <1> DEFINE b == [banks[p[1]] EXCEPT ![p[2]] = c]
  <1>1. p[1] \in 1 .. Len(banks) /\ p[2] \in 1 .. Len(banks[p[1]])
         /\ banks[p[1]] \in Seq(Client) /\ p = <<p[1], p[2]>>
    BY SlotType
  <1>2. b \in Seq(Client) /\ Len(b) = Len(banks[p[1]])
    BY <1>1, ExceptSeq
  <1>3. w = [banks EXCEPT ![p[1]] = b]
    BY DEF Written
  <1>4. /\ w \in Seq(Seq(Client))
        /\ Len(w) = Len(banks)
        /\ \A k \in 1 .. Len(banks) : w[k] = IF k = p[1] THEN b ELSE banks[k]
    BY <1>1, <1>2, <1>3, ExceptSeq DEF DbTypeOK
  <1>5. \A k \in 1 .. Len(banks) :
          w[k] \in Seq(Client) /\ Len(w[k]) = Len(banks[k])
    BY <1>2, <1>4, ElementOfSeq DEF DbTypeOK
  <1>6. SlotsIn(w) = Slots
    BY <1>4, <1>5, SameSlots DEF Slots
  <1>7. ASSUME NEW q \in Slots
        PROVE  w[q[1]][q[2]] = IF q = p THEN c ELSE Entry(q)
    <2>1. q[1] \in 1 .. Len(banks) /\ q[2] \in 1 .. Len(banks[q[1]])
           /\ banks[q[1]] \in Seq(Client) /\ q = <<q[1], q[2]>>
      BY SlotType
    <2>2. q = p <=> q[1] = p[1] /\ q[2] = p[2]
      BY <1>1, <2>1
    <2>3. CASE q[1] = p[1]
      <3>1. w[q[1]] = b
        BY <1>4, <2>1, <2>3
      <3> QED  BY <1>1, <2>1, <2>2, <2>3, <3>1, ExceptSeq DEF Entry
    <2>4. CASE q[1] # p[1]
      BY <1>4, <2>1, <2>2, <2>4 DEF Entry
    <2> QED  BY <2>3, <2>4
  <1> HIDE DEF b
  <1> QED  BY <1>4, <1>5, <1>6, <1>7

(* One slot more, at the end of the last bank or in a new bank.            *)
LEMMA SlotsGrow ==
  ASSUME NEW s, NEW t, NEW L \in Nat \ {0}, NEW n \in Nat,
         Len(s) = L, Len(t) = L, Len(s[L]) = n, Len(t[L]) = n + 1,
         \A j \in 1 .. L : j # L => Len(t[j]) = Len(s[j])
  PROVE  <<L, n + 1>> \notin SlotsIn(s)
         /\ SlotsIn(t) = SlotsIn(s) \union {<<L, n + 1>>}
  <1>1. <<L, n + 1>> \notin SlotsIn(s)
    BY SlotsDef
  <1>2. ASSUME NEW q \in SlotsIn(t)
        PROVE  q \in SlotsIn(s) \union {<<L, n + 1>>}
    <2>1. PICK j \in 1 .. L : \E h \in 1 .. Len(t[j]) : q = <<j, h>>
      BY SlotsDef
    <2>2. PICK h \in 1 .. Len(t[j]) : q = <<j, h>>
      BY <2>1
    <2>3. CASE j = L /\ h = n + 1
      BY <2>2, <2>3
    <2>4. CASE ~(j = L /\ h = n + 1)
      <3>1. h \in 1 .. Len(s[j])
        BY <2>4
      <3> QED  BY <2>2, <3>1, SlotIntro
    <2> QED  BY <2>3, <2>4
  <1>3. ASSUME NEW q \in SlotsIn(s)
        PROVE  q \in SlotsIn(t)
    <2>1. PICK j \in 1 .. L : \E h \in 1 .. Len(s[j]) : q = <<j, h>>
      BY SlotsDef
    <2>2. PICK h \in 1 .. Len(s[j]) : q = <<j, h>>
      BY <2>1
    <2>3. h \in 1 .. Len(t[j])
      OBVIOUS
    <2> QED  BY <2>2, <2>3, SlotIntro
  <1>4. <<L, n + 1>> \in SlotsIn(t)
    BY SlotIntro
  <1> QED  BY <1>1, <1>2, <1>3, <1>4

LEMMA SlotsNewBank ==
  ASSUME NEW s, NEW t, NEW L \in Nat,
         Len(s) = L, Len(t) = L + 1, Len(t[L + 1]) = 1,
         \A j \in 1 .. L : t[j] = s[j]
  PROVE  <<L + 1, 1>> \notin SlotsIn(s)
         /\ SlotsIn(t) = SlotsIn(s) \union {<<L + 1, 1>>}
  <1>1. <<L + 1, 1>> \notin SlotsIn(s)
    BY SlotsDef
  <1>2. ASSUME NEW q \in SlotsIn(t)
        PROVE  q \in SlotsIn(s) \union {<<L + 1, 1>>}
    <2>1. PICK j \in 1 .. L + 1 : \E h \in 1 .. Len(t[j]) : q = <<j, h>>
      BY SlotsDef
    <2>2. PICK h \in 1 .. Len(t[j]) : q = <<j, h>>
      BY <2>1
    <2>3. CASE j = L + 1
      <3>1. Len(t[j]) = 1
        BY <2>3
      <3>2. h = 1
        BY <3>1
      <3> QED  BY <2>2, <2>3, <3>2
    <2>4. CASE j # L + 1
      <3>1. j \in 1 .. L /\ h \in 1 .. Len(s[j])
        BY <2>4
      <3> QED  BY <2>2, <3>1, SlotIntro
    <2> QED  BY <2>3, <2>4
  <1>3. ASSUME NEW q \in SlotsIn(s)
        PROVE  q \in SlotsIn(t)
    <2>1. PICK j \in 1 .. L : \E h \in 1 .. Len(s[j]) : q = <<j, h>>
      BY SlotsDef
    <2>2. PICK h \in 1 .. Len(s[j]) : q = <<j, h>>
      BY <2>1
    <2>3. j \in 1 .. Len(t) /\ h \in 1 .. Len(t[j])
      OBVIOUS
    <2> QED  BY <2>2, <2>3, SlotIntro
  <1>4. <<L + 1, 1>> \in SlotsIn(t)
    BY SlotIntro
  <1> QED  BY <1>1, <1>2, <1>3, <1>4

(* client_add puts the record into one slot more and moves no other one.   *)
LEMMA AddOK ==
  ASSUME DbTypeOK, BanksPacked, NEW c \in Client, client_add(c)
  PROVE  /\ DbTypeOK' /\ BanksPacked' /\ CursorOnLiveBank'
         /\ \E p : /\ p \notin Slots
                   /\ Slots' = Slots \union {p}
                   /\ Entry(p)' = c
                   /\ \A q \in Slots : Entry(q)' = Entry(q)
  <1>0. PICK L, n : L = bCurr /\ n = Len(banks[bCurr])
    OBVIOUS
  <1>1. /\ L = Len(banks) /\ n = Len(banks[L])
        /\ L \in Nat \ {0} /\ L \in 1 .. L /\ n \in Nat /\ n <= BANKSIZE
        /\ \A k \in 1 .. L : banks[k] \in Seq(Client) /\ Len(banks[k]) \in Nat
    BY <1>0, ElementOfSeq, BankAssumption DEF DbTypeOK, BanksPacked, bCurr
  <1>2. CASE /\ Len(banks[bCurr]) < BANKSIZE
             /\ banks' = [banks EXCEPT ![bCurr] = Append(@, c)]
             /\ cursor' = [bank |-> bCurr, slot |-> Len(banks[bCurr]) + 1]
    <2>0. PICK b : b = Append(banks[L], c)
      OBVIOUS
    <2>1. /\ n < BANKSIZE
          /\ banks' = [banks EXCEPT ![L] = b]
          /\ cursor' = [bank |-> L, slot |-> n + 1]
      BY <1>0, <1>2, <2>0
    <2>2. /\ b \in Seq(Client) /\ Len(b) = n + 1 /\ b[n + 1] = c
          /\ \A i \in 1 .. n : b[i] = banks[L][i]
      BY <1>1, <2>0, AppendProperties
    <2>3. /\ banks' \in Seq(Seq(Client)) /\ Len(banks') = L
          /\ \A k \in 1 .. L : banks'[k] = IF k = L THEN b ELSE banks[k]
      BY <1>1, <2>1, <2>2, ExceptSeq DEF DbTypeOK
    <2>4. DbTypeOK' /\ BanksPacked' /\ CursorOnLiveBank'
      BY <1>1, <2>1, <2>2, <2>3, BankAssumption
      DEF DbTypeOK, BanksPacked, CursorOnLiveBank, Cursor
    <2>5. PICK p : p = <<L, n + 1>>
      OBVIOUS
    <2>6. p \notin Slots /\ Slots' = Slots \union {p}
      <3>1. Len(banks'[L]) = n + 1
        BY <1>1, <2>2, <2>3
      <3>2. \A j \in 1 .. L : j # L => Len(banks'[j]) = Len(banks[j])
        BY <2>3
      <3>3. <<L, n + 1>> \notin SlotsIn(banks)
            /\ SlotsIn(banks') = SlotsIn(banks) \union {<<L, n + 1>>}
        <4>1. /\ L \in Nat \ {0} /\ n \in Nat
              /\ Len(banks) = L /\ Len(banks') = L /\ Len(banks[L]) = n
          BY <1>1, <2>3
        <4> QED  BY ONLY <3>1, <3>2, <4>1, SlotsGrow
      <3> QED  BY <2>5, <3>3 DEF Slots
    <2>7. Entry(p)' = c
      BY <1>1, <2>2, <2>3, <2>5 DEF Entry
    <2>8. ASSUME NEW q \in Slots
          PROVE  Entry(q)' = Entry(q)
      BY <1>1, <2>2, <2>3, SlotType DEF Entry
    <2> QED  BY <2>4, <2>6, <2>7, <2>8
  <1>3. CASE /\ Len(banks[bCurr]) >= BANKSIZE
             /\ banks' = Append(banks, <<c>>)
             /\ cursor' = [bank |-> bCurr + 1, slot |-> 1]
    <2>1. /\ n = BANKSIZE
          /\ banks' = Append(banks, <<c>>)
          /\ cursor' = [bank |-> L + 1, slot |-> 1]
      <3>1. n = BANKSIZE
        BY <1>0, <1>1, <1>3, BankAssumption
      <3> QED  BY <1>0, <1>3, <3>1
    <2>2. <<c>> \in Seq(Client) /\ Len(<<c>>) = 1 /\ <<c>>[1] = c
      OBVIOUS
    <2>3. /\ banks' \in Seq(Seq(Client)) /\ Len(banks') = L + 1
          /\ banks'[L + 1] = <<c>>
          /\ \A k \in 1 .. L : banks'[k] = banks[k]
      BY <1>1, <2>1, <2>2, AppendProperties DEF DbTypeOK
    <2>4. DbTypeOK' /\ BanksPacked' /\ CursorOnLiveBank'
      <3>1. DbTypeOK' /\ CursorOnLiveBank'
        BY <1>1, <2>1, <2>3 DEF DbTypeOK, CursorOnLiveBank, Cursor
      <3>2. ASSUME NEW k \in 1 .. L
            PROVE  Len(banks[k]) = BANKSIZE
        <4>1. k = L \/ k \in 1 .. (L - 1)
          BY <1>1
        <4> QED  BY <1>1, <2>1, <4>1 DEF BanksPacked
      <3>3. Len(banks'[L + 1]) = 1
        BY <2>2, <2>3
      <3>4. BanksPacked'
        BY <1>1, <2>3, <3>2, <3>3, BankAssumption DEF BanksPacked
      <3> QED  BY <3>1, <3>4
    <2>5. PICK p : p = <<L + 1, 1>>
      OBVIOUS
    <2>6. p \notin Slots /\ Slots' = Slots \union {p}
      <3>1. Len(banks'[L + 1]) = 1
        BY <2>2, <2>3
      <3> QED  BY <1>1, <2>3, <2>5, <3>1, SlotsNewBank DEF Slots
    <2>7. Entry(p)' = c
      BY <1>1, <2>2, <2>3, <2>5 DEF Entry
    <2>8. ASSUME NEW q \in Slots
          PROVE  Entry(q)' = Entry(q)
      BY <1>1, <2>3, SlotType DEF Entry
    <2> QED  BY <2>4, <2>6, <2>7, <2>8
  <1> QED  BY <1>2, <1>3 DEF client_add

LEMMA SlotsShrink ==
  ASSUME NEW s, NEW t, NEW L \in Nat \ {0}, NEW n \in Nat \ {0},
         Len(s) = L, Len(t) = L, Len(s[L]) = n, Len(t[L]) = n - 1,
         \A j \in 1 .. L : j # L => Len(t[j]) = Len(s[j])
  PROVE  /\ <<L, n>> \in SlotsIn(s)
         /\ SlotsIn(t) = SlotsIn(s) \ {<<L, n>>}
  <1>1. PICK m \in Nat : n = m + 1 /\ Len(t[L]) = m
    OBVIOUS
  <1>2. /\ <<L, m + 1>> \notin SlotsIn(t)
        /\ SlotsIn(s) = SlotsIn(t) \union {<<L, m + 1>>}
    <2>1. Len(s[L]) = m + 1 /\ \A j \in 1 .. L : j # L => Len(s[j]) = Len(t[j])
      BY <1>1
    <2> QED  BY <1>1, <2>1, SlotsGrow
  <1> QED  BY <1>1, <1>2

LEMMA SlotsLoseBank ==
  ASSUME NEW s, NEW t, NEW L \in Nat \ {0},
         Len(s) = L, Len(t) = L - 1, Len(s[L]) = 1,
         \A j \in 1 .. L - 1 : s[j] = t[j]
  PROVE  /\ <<L, 1>> \in SlotsIn(s)
         /\ SlotsIn(t) = SlotsIn(s) \ {<<L, 1>>}
  <1>1. PICK m \in Nat : L = m + 1
    OBVIOUS
  <1>2. /\ <<m + 1, 1>> \notin SlotsIn(t)
        /\ SlotsIn(s) = SlotsIn(t) \union {<<m + 1, 1>>}
    <2>1. Len(t) = m /\ Len(s) = m + 1 /\ Len(s[m + 1]) = 1
      BY <1>1
    <2>2. \A j \in 1 .. m : s[j] = t[j]
      BY <1>1
    <2> QED  BY ONLY <2>1, <2>2, SlotsNewBank, m \in Nat
  <1> QED  BY <1>1, <1>2

(* client_del takes the last slot out of use; its record replaces the      *)
(* deleted one and no other record moves.  The cursor stays on the deleted *)
(* slot, or goes to the end of the bank before when its bank is freed.     *)
LEMMA DeleteOK ==
  ASSUME DbTypeOK, BanksPacked, NEW p \in Slots, DeleteAt(p)
  PROVE  \E L, n :
         /\ L = Len(banks) /\ n = Len(banks[L])
         /\ DbTypeOK' /\ BanksPacked' /\ CursorOnLiveBank'
         /\ <<L, n>> \in Slots
         /\ Slots' = Slots \ {<<L, n>>}
         /\ \A q \in Slots' :
              Entry(q)' = IF q = p THEN Entry(<<L, n>>) ELSE Entry(q)
         /\ \/ cursor' = [bank |-> p[1], slot |-> p[2]]
            \/ /\ p = <<L, n>>
               /\ cursor'.bank < p[1]
  <1>0. PICK L, n, w : L = bCurr /\ n = Len(banks[bCurr]) /\ w = Overwritten(p)
    OBVIOUS
  <1>1. /\ L = Len(banks) /\ n = Len(banks[L])
        /\ L \in Nat \ {0} /\ L \in 1 .. L
        /\ \A k \in 1 .. L : banks[k] \in Seq(Client) /\ Len(banks[k]) \in Nat
    BY <1>0, ElementOfSeq DEF DbTypeOK, BanksPacked, bCurr
  <1>2. /\ p[1] \in 1 .. L /\ p[2] \in 1 .. Len(banks[p[1]])
        /\ p = <<p[1], p[2]>>
    BY <1>1, SlotType
  <1>3. n \in Nat \ {0} /\ n <= BANKSIZE
    <2>1. CASE L = 1
      BY <1>1, <1>2, <2>1 DEF BanksPacked
    <2>2. CASE L > 1
      BY <1>1, <2>2 DEF BanksPacked
    <2> QED  BY <1>1, <2>1, <2>2
  <1>4. <<L, n>> \in Slots
    BY <1>1, <1>3, SlotIntro DEF Slots
  <1>5. w = Written(p, Entry(<<L, n>>)) /\ Entry(<<L, n>>) \in Client
    BY <1>0, <1>4, SlotType DEF Overwritten, Written, Entry
  <1>6. /\ w \in Seq(Seq(Client)) /\ Len(w) = L
        /\ \A k \in 1 .. L : w[k] \in Seq(Client) /\ Len(w[k]) = Len(banks[k])
        /\ \A q \in Slots :
             w[q[1]][q[2]] = IF q = p THEN Entry(<<L, n>>) ELSE Entry(q)
    <2>1. PICK c : c = Entry(<<L, n>>)
      OBVIOUS
    <2>2. c \in Client /\ w = Written(p, c)
      BY <1>5, <2>1
    <2>3. /\ w \in Seq(Seq(Client)) /\ Len(w) = Len(banks)
          /\ \A k \in 1 .. Len(banks) :
               w[k] \in Seq(Client) /\ Len(w[k]) = Len(banks[k])
          /\ \A q \in Slots : w[q[1]][q[2]] = IF q = p THEN c ELSE Entry(q)
      BY ONLY DbTypeOK, p \in Slots, <2>2, WrittenOK
    <2> QED  BY <1>1, <2>1, <2>3
  <1>7. ASSUME NEW b, b \in Seq(Client), Len(b) = n - 1,
               \A i \in 1 .. n - 1 : b[i] = w[L][i],
               banks' = [w EXCEPT ![L] = b],
               cursor' = [bank |-> p[1], slot |-> p[2]],
               ~(n = 1 /\ L > 1)
        PROVE  /\ DbTypeOK' /\ BanksPacked' /\ CursorOnLiveBank'
               /\ Slots' = Slots \ {<<L, n>>}
               /\ \A q \in Slots' :
                    Entry(q)' = IF q = p THEN Entry(<<L, n>>) ELSE Entry(q)
    <2>1. /\ banks' \in Seq(Seq(Client)) /\ Len(banks') = L
          /\ \A k \in 1 .. L : banks'[k] = IF k = L THEN b ELSE w[k]
      BY <1>1, <1>6, <1>7, ExceptSeq
    <2>2. \A k \in 1 .. L : Len(banks'[k]) = IF k = L THEN n - 1 ELSE Len(banks[k])
      BY <1>6, <1>7, <2>1
    <2>3. DbTypeOK' /\ CursorOnLiveBank'
      BY <1>1, <1>2, <1>7, <2>1 DEF DbTypeOK, CursorOnLiveBank, Cursor
    <2>4. BanksPacked'
      <3>1. \A k \in 1 .. L : Len(banks'[k]) <= BANKSIZE
        BY <1>1, <1>3, <2>2, BankAssumption DEF BanksPacked
      <3>2. \A k \in 1 .. (L - 1) : Len(banks'[k]) = BANKSIZE
        BY <1>1, <2>2 DEF BanksPacked
      <3>3. L > 1 => Len(banks'[L]) > 0
        <4>1. Len(banks'[L]) = n - 1
          BY <1>1, <2>2
        <4>2. L > 1 => n > 1
          BY <1>3, <1>7
        <4> QED  BY <1>3, <4>1, <4>2
      <3> QED  BY <1>1, <2>1, <3>1, <3>2, <3>3 DEF BanksPacked
    <2>5. Slots' = Slots \ {<<L, n>>}
      <3>1. /\ Len(banks) = L /\ Len(banks') = L
            /\ Len(banks[L]) = n /\ Len(banks'[L]) = n - 1
            /\ L \in Nat \ {0} /\ n \in Nat \ {0}
            /\ \A j \in 1 .. L : j # L => Len(banks'[j]) = Len(banks[j])
        BY <1>1, <1>3, <2>1, <2>2
      <3>2. /\ <<L, n>> \in SlotsIn(banks)
            /\ SlotsIn(banks') = SlotsIn(banks) \ {<<L, n>>}
        BY ONLY <3>1, SlotsShrink
      <3> QED  BY <3>2 DEF Slots
    <2>6. ASSUME NEW q \in Slots'
          PROVE  Entry(q)' = IF q = p THEN Entry(<<L, n>>) ELSE Entry(q)
      <3>1. q \in Slots /\ q # <<L, n>>
        BY <2>5, <2>6
      <3>2. /\ q[1] \in 1 .. L /\ q[2] \in 1 .. Len(banks[q[1]])
            /\ q = <<q[1], q[2]>>
        BY <1>1, <3>1, SlotType
      <3>3. q[1] = L => q[2] \in 1 .. n - 1
        BY <1>1, <1>3, <3>1, <3>2
      <3>4. banks'[q[1]][q[2]] = w[q[1]][q[2]]
        BY <1>7, <2>1, <3>2, <3>3
      <3> QED  BY <1>6, <3>1, <3>4 DEF Entry
    <2> QED  BY <2>3, <2>4, <2>5, <2>6
  <1>8. CASE ~EmptiesLastBank
    <2>1. PICK b : b = SubSeq(w[L], 1, n - 1)
      OBVIOUS
    <2>2. /\ banks' = [w EXCEPT ![L] = b]
          /\ cursor' = [bank |-> p[1], slot |-> p[2]]
          /\ ~(n = 1 /\ L > 1)
      <3>1. Len(w[L]) = n
        BY <1>1, <1>6
      <3> QED  BY <1>0, <1>8, <2>1, <3>1 DEF DeleteAt, EmptiesLastBank
    <2>3. /\ b \in Seq(Client) /\ Len(b) = n - 1
          /\ \A i \in 1 .. n - 1 : b[i] = w[L][i]
      <3>1. \A i \in 1 .. n - 1 : w[L][i] \in Client
        BY <1>1, <1>3, <1>6, ElementOfSeq
      <3> QED  BY <1>3, <2>1, <3>1, SubSeqProperties
    <2> QED  BY <1>1, <1>4, <1>7, <2>2, <2>3
  <1>9. CASE EmptiesLastBank
    <2>1. n = 1 /\ L > 1 /\ banks' = SubSeq(w, 1, L - 1)
      BY <1>0, <1>9 DEF DeleteAt, EmptiesLastBank
    <2>2. /\ banks' \in Seq(Seq(Client)) /\ Len(banks') = L - 1
          /\ \A k \in 1 .. L - 1 : banks'[k] = w[k]
      <3>1. \A k \in 1 .. L - 1 : w[k] \in Seq(Client)
        BY <1>1, <1>6
      <3> QED  BY <1>1, <2>1, <3>1, SubSeqProperties
    <2>3. ASSUME NEW k \in 1 .. L - 1
          PROVE  Len(banks'[k]) = BANKSIZE /\ Len(banks[k]) = BANKSIZE
      <3>1. Len(banks[k]) = BANKSIZE
        BY <1>1 DEF BanksPacked
      <3>2. k \in 1 .. L
        BY <1>1
      <3>3. Len(banks'[k]) = Len(banks[k])
        BY <1>6, <2>2, <3>2
      <3> QED  BY <3>1, <3>3
    <2>4. /\ cursor' \in Cursor /\ cursor'.bank \in 1 .. L - 1
          /\ \/ cursor' = [bank |-> p[1], slot |-> p[2]]
             \/ p = <<L, n>> /\ cursor'.bank < p[1]
      <3>1. CASE p[1] = L
        <4>1. cursor' = [bank |-> L - 1, slot |-> Len(banks[L - 1])]
          BY <1>0, <1>9, <3>1 DEF DeleteAt
        <4>2. p[2] = 1
          <5>1. Len(banks[p[1]]) = 1
            BY <1>1, <2>1, <3>1
          <5> QED  BY <1>2, <5>1
        <4>3. Len(banks[L - 1]) \in Nat
          BY <1>1, <2>1
        <4> QED  BY <1>1, <1>2, <2>1, <3>1, <4>1, <4>2, <4>3 DEF Cursor
      <3>2. CASE p[1] # L
        <4>1. cursor' = [bank |-> p[1], slot |-> p[2]]
          BY <1>0, <1>9, <3>2 DEF DeleteAt
        <4> QED  BY <1>1, <1>2, <3>2, <4>1 DEF Cursor
      <3> QED  BY <3>1, <3>2
    <2>5. DbTypeOK' /\ CursorOnLiveBank'
      BY <2>2, <2>4 DEF DbTypeOK, CursorOnLiveBank
    <2>6. BanksPacked'
      BY <1>1, <2>1, <2>2, <2>3, BankAssumption DEF BanksPacked
    <2>7. Slots' = Slots \ {<<L, n>>}
      <3>1. PICK v : v = SubSeq(banks, 1, L - 1)
        OBVIOUS
      <3>2. Len(v) = L - 1 /\ \A k \in 1 .. L - 1 : v[k] = banks[k]
        BY <1>1, <3>1, SubSeqProperties
      <3>3. SlotsIn(v) = SlotsIn(banks) \ {<<L, n>>}
        BY <1>1, <2>1, <3>2, SlotsLoseBank
      <3>4. SlotsIn(banks') = SlotsIn(v)
        BY <1>1, <2>2, <2>3, <3>2, SameSlots
      <3> QED  BY <3>3, <3>4 DEF Slots
    <2>8. ASSUME NEW q \in Slots'
          PROVE  Entry(q)' = IF q = p THEN Entry(<<L, n>>) ELSE Entry(q)
      <3>1. q \in Slots /\ q # <<L, n>>
        BY <2>7, <2>8
      <3>2. /\ q[1] \in 1 .. L /\ q[2] \in 1 .. Len(banks[q[1]])
            /\ q = <<q[1], q[2]>>
        BY <1>1, <3>1, SlotType
      <3>3. q[1] \in 1 .. L - 1
        <4>1. ASSUME q[1] = L  PROVE FALSE
          <5>1. Len(banks[q[1]]) = 1
            BY <1>1, <2>1, <4>1
          <5>2. q[2] = 1
            BY <3>2, <5>1
          <5> QED  BY <2>1, <3>1, <3>2, <4>1, <5>2
        <4> QED  BY <1>1, <3>2, <4>1
      <3>4. banks'[q[1]][q[2]] = w[q[1]][q[2]]
        BY <2>2, <3>3
      <3> QED  BY <1>6, <3>1, <3>4 DEF Entry
    <2> QED  BY <1>1, <1>4, <2>4, <2>5, <2>6, <2>7, <2>8
  <1> QED  BY <1>8, <1>9

-----------------------------------------------------------------------------
(* What the operations do to the records, when the invariants hold.        *)

LEMMA EntriesDiffer ==
  ASSUME OneSlotPerDescr, NEW p \in Slots, NEW q \in Slots, p # q
  PROVE  Entry(p) # Entry(q) /\ Entry(p).descr # Entry(q).descr
  BY DEF OneSlotPerDescr

LEMMA AddInv ==
  ASSUME DbInv, NEW c \in Client, c.descr \notin Descrs, client_add(c)
  PROVE  DbInv' /\ members' = members \union {c}
  <1>1. PICK p : /\ p \notin Slots
                 /\ Slots' = Slots \union {p}
                 /\ Entry(p)' = c
                 /\ \A q \in Slots : Entry(q)' = Entry(q)
    BY AddOK DEF DbInv
  <1>2. DbTypeOK' /\ BanksPacked' /\ CursorOnLiveBank'
    BY AddOK DEF DbInv
  <1>3. members' = members \union {c}
    BY <1>1 DEF members
  <1>4. \A q \in Slots : Entry(q).descr # c.descr
    BY DEF Descrs, members
  <1>5. OneSlotPerDescr'
    BY <1>1, <1>4 DEF DbInv, OneSlotPerDescr
  <1> QED  BY <1>2, <1>3, <1>5 DEF DbInv

LEMMA WriteInv ==
  ASSUME DbInv, NEW p \in Slots, NEW c \in Client, c.descr = Entry(p).descr,
         banks' = Written(p, c), cursor' \in Cursor, cursor'.bank \in 1 .. Len(banks)
  PROVE  /\ DbInv' /\ Slots' = Slots
         /\ \A q \in Slots : Entry(q)' = IF q = p THEN c ELSE Entry(q)
         /\ members' = (members \ {Entry(p)}) \union {c}
  <1>0. PICK w : w = Written(p, c)
    OBVIOUS
  <1>1. /\ w \in Seq(Seq(Client))
        /\ Len(w) = Len(banks)
        /\ \A k \in 1 .. Len(banks) : Len(w[k]) = Len(banks[k])
        /\ SlotsIn(w) = Slots
        /\ \A q \in Slots : w[q[1]][q[2]] = IF q = p THEN c ELSE Entry(q)
    BY <1>0, WrittenOK DEF DbInv
  <1>2. /\ Slots' = Slots
        /\ \A q \in Slots : Entry(q)' = IF q = p THEN c ELSE Entry(q)
    <2>1. Slots' = Slots
      BY <1>0, <1>1 DEF Slots
    <2>2. ASSUME NEW q \in Slots
          PROVE  Entry(q)' = IF q = p THEN c ELSE Entry(q)
      BY <1>0, <1>1 DEF Entry
    <2> QED  BY <2>1, <2>2
  <1>3. DbTypeOK' /\ BanksPacked' /\ CursorOnLiveBank'
    <2>1. DbTypeOK' /\ CursorOnLiveBank'
      BY <1>0, <1>1 DEF DbInv, DbTypeOK, CursorOnLiveBank
    <2>2. BanksPacked'
      BY <1>0, <1>1 DEF DbInv, DbTypeOK, BanksPacked
    <2> QED  BY <2>1, <2>2
  <1>4. OneSlotPerDescr'
    BY <1>2 DEF DbInv, OneSlotPerDescr
  <1>5. \A q \in Slots : q # p => Entry(q) # Entry(p)
    BY EntriesDiffer DEF DbInv
  <1>6. members' = (members \ {Entry(p)}) \union {c}
    BY <1>2, <1>5 DEF members
  <1> QED  BY <1>2, <1>3, <1>4, <1>6 DEF DbInv

LEMMA DeleteInv ==
  ASSUME DbInv, NEW p \in Slots, DeleteAt(p)
  PROVE  DbInv' /\ members' = members \ {Entry(p)}
  <1>1. PICK L, n :
          /\ DbTypeOK' /\ BanksPacked' /\ CursorOnLiveBank'
          /\ <<L, n>> \in Slots
          /\ Slots' = Slots \ {<<L, n>>}
          /\ \A q \in Slots' :
               Entry(q)' = IF q = p THEN Entry(<<L, n>>) ELSE Entry(q)
    BY DeleteOK DEF DbInv
  <1>2. PICK last : last = <<L, n>>
    OBVIOUS
  <1>3. /\ last \in Slots /\ Slots' = Slots \ {last}
        /\ \A q \in Slots' : Entry(q)' = IF q = p THEN Entry(last) ELSE Entry(q)
    BY <1>1, <1>2
  <1>4. \A q, r \in Slots : q # r => /\ Entry(q) # Entry(r)
                                     /\ Entry(q).descr # Entry(r).descr
    BY EntriesDiffer DEF DbInv
  <1>5. OneSlotPerDescr'
    BY <1>3, <1>4 DEF OneSlotPerDescr
  <1>6. members' = members \ {Entry(p)}
    <2>1. ASSUME NEW m \in members'
          PROVE  m \in members \ {Entry(p)}
      BY <1>3, <1>4 DEF members
    <2>2. ASSUME NEW m \in members \ {Entry(p)}
          PROVE  m \in members'
      <3>1. PICK q \in Slots : m = Entry(q) /\ q # p
        BY DEF members
      <3>2. CASE q = last
        <4>1. p \in Slots' /\ Entry(p)' = m
          BY <1>3, <3>1, <3>2
        <4> QED  BY <4>1 DEF members
      <3>3. CASE q # last
        <4>1. q \in Slots' /\ Entry(q)' = m
          BY <1>3, <3>1, <3>3
        <4> QED  BY <4>1 DEF members
      <3> QED  BY <3>2, <3>3
    <2> QED  BY <2>1, <2>2
  <1> QED  BY <1>1, <1>5, <1>6 DEF DbInv

(* client_start, client_get and client_next keep the cursor on a bank.     *)
LEMMA MoveInv ==
  ASSUME DbInv, UNCHANGED banks, cursor' \in Cursor,
         cursor'.bank \in 1 .. Len(banks)
  PROVE  DbInv' /\ Slots' = Slots /\ members' = members
  <1>1. Slots' = Slots /\ \A q : Entry(q)' = Entry(q)
    BY DEF Slots, Entry
  <1>2. members' = members /\ OneSlotPerDescr'
    BY <1>1 DEF members, DbInv, OneSlotPerDescr
  <1> QED  BY <1>1, <1>2
           DEF DbInv, DbTypeOK, BanksPacked, CursorOnLiveBank

LEMMA GetInv ==
  ASSUME DbInv, NEW fd, client_get(fd)
  PROVE  DbInv' /\ Slots' = Slots /\ members' = members
  <1>1. cursor' \in Cursor /\ cursor'.bank \in 1 .. Len(banks)
    <2>1. CASE cursor' = [bank |-> 1, slot |-> 0]
      BY <2>1 DEF Cursor, DbInv, DbTypeOK, BanksPacked
    <2>2. CASE \E p \in Slots : cursor' = [bank |-> p[1], slot |-> p[2]]
      <3>1. PICK p \in Slots : cursor' = [bank |-> p[1], slot |-> p[2]]
        BY <2>2
      <3>2. /\ p[1] \in 1 .. Len(banks) /\ p[2] \in 1 .. Len(banks[p[1]])
            /\ banks[p[1]] \in Seq(Client)
        BY SlotType DEF DbInv
      <3> QED  BY <3>1, <3>2 DEF Cursor, DbInv, DbTypeOK
    <2> QED  BY <2>1, <2>2 DEF client_get
  <1> QED  BY <1>1, MoveInv DEF client_get

(* A walk to the end leaves the cursor on the last bank.                   *)
LEMMA WalkedInv ==
  ASSUME DbInv, client_walked
  PROVE  DbInv' /\ Slots' = Slots /\ members' = members
  <1>1. bCurr \in 1 .. Len(banks) /\ banks[bCurr] \in Seq(Client)
    BY DEF bCurr, DbInv, DbTypeOK, BanksPacked
  <1>2. cursor' \in Cursor /\ cursor'.bank \in 1 .. Len(banks)
    BY <1>1 DEF client_walked, Cursor, DbInv, DbTypeOK
  <1> QED  BY <1>2, MoveInv DEF client_walked

LEMMA DelInv ==
  ASSUME DbInv, NEW fd, client_del(fd)
  PROVE  /\ DbInv'
         /\ \/ members' = members
            \/ \E c \in members : c.descr = fd /\ members' = members \ {c}
  <1>1. CASE client_get(fd)
    BY <1>1, GetInv
  <1>2. CASE \E p \in Slots : FoundAt(p, fd) /\ DeleteAt(p)
    <2>1. PICK p \in Slots : FoundAt(p, fd) /\ DeleteAt(p)
      BY <1>2
    <2>2. Entry(p) \in members /\ Entry(p).descr = fd
      BY <2>1 DEF FoundAt, members
    <2> QED  BY <2>1, <2>2, DeleteInv
  <1> QED  BY <1>1, <1>2 DEF client_del

-----------------------------------------------------------------------------
(* The cursor as a walk over the slots, in the order of banks and slots.   *)

LEMMA StartInv ==
  ASSUME DbInv, client_start
  PROVE  /\ DbInv' /\ Slots' = Slots /\ members' = members
         /\ \A q \in Slots : Entry(q)' = Entry(q)
         /\ cursor' = [bank |-> 1, slot |-> 0]
         /\ \A q \in Slots : ~Precedes(q, <<1, 0>>) /\ q # <<1, 0>>
  <1>1. DbInv' /\ Slots' = Slots /\ members' = members
    BY MoveInv DEF client_start, Cursor, DbInv, BanksPacked, DbTypeOK
  <1>2. ASSUME NEW q \in Slots
        PROVE  /\ Entry(q)' = Entry(q)
               /\ ~Precedes(q, <<1, 0>>) /\ q # <<1, 0>>
    <2>1. q[1] \in 1 .. Len(banks) /\ q[2] \in 1 .. Len(banks[q[1]])
          /\ q = <<q[1], q[2]>> /\ banks[q[1]] \in Seq(Client)
      BY SlotType DEF DbInv
    <2> QED  BY <2>1 DEF Precedes, Entry, client_start, DbInv, DbTypeOK
  <1> QED  BY <1>1, <1>2 DEF client_start

(* client_next goes from one slot in use to the next one, bank after bank, *)
(* and returns NULL only when there is none after the cursor.              *)
LEMMA NextInv ==
  ASSUME DbInv, client_next
  PROVE  /\ DbInv' /\ Slots' = Slots /\ members' = members
         /\ \A q \in Slots : Entry(q)' = Entry(q)
         /\ \E o, n :
              /\ o = <<cursor.bank, cursor.slot>>
              /\ n = <<cursor'.bank, cursor'.slot>>
              /\ HasCurrent' => n \in Slots
              /\ \A q \in Slots : Precedes(q, n) <=> Precedes(q, o) \/ q = o
              /\ ~HasCurrent' => \A q \in Slots : Precedes(q, o) \/ q = o
  <1>0. PICK k, i, o, n : /\ k = cursor.bank /\ i = cursor.slot
                          /\ o = <<k, i>> /\ n = <<cursor'.bank, cursor'.slot>>
    OBVIOUS
  <1>1. /\ banks' = banks
        /\ k \in 1 .. Len(banks) /\ i \in Nat /\ Len(banks) \in Nat
        /\ \A j \in 1 .. Len(banks) : Len(banks[j]) \in Nat
    BY <1>0, ElementOfSeq
    DEF DbInv, DbTypeOK, CursorOnLiveBank, Cursor, client_next
  <1>2. \A q \in Slots : /\ q[1] \in 1 .. Len(banks)
                         /\ q[2] \in 1 .. Len(banks[q[1]])
                         /\ q = <<q[1], q[2]>>
    BY SlotType DEF DbInv
  <1>3. CASE i + 1 <= Len(banks[k]) \/ k = Len(banks)
    <2>1. cursor' = [bank |-> k, slot |-> i + 1] /\ n = <<k, i + 1>>
      BY <1>0, <1>3 DEF client_next, bCurr
    <2>2. DbInv' /\ Slots' = Slots /\ members' = members
      BY <1>1, <2>1, MoveInv DEF Cursor
    <2>3. HasCurrent' => n \in Slots
      BY <1>1, <2>1, SlotIntro DEF HasCurrent, Slots
    <2>4. \A q \in Slots : Precedes(q, n) <=> Precedes(q, o) \/ q = o
      BY <1>0, <1>1, <1>2, <2>1 DEF Precedes
    <2>5. ASSUME ~HasCurrent', NEW q \in Slots
          PROVE  Precedes(q, o) \/ q = o
      <3>1. k = Len(banks) /\ i >= Len(banks[k])
        BY <1>1, <1>3, <2>1, <2>5 DEF HasCurrent
      <3>2. q[1] < k \/ (q[1] = k /\ q[2] <= i)
        <4>1. q[1] \in 1 .. k /\ q[2] \in 1 .. Len(banks[q[1]])
          BY <1>2, <3>1
        <4>2. CASE q[1] = k
          <5>1. q[2] \in 1 .. Len(banks[k])
            BY <4>1, <4>2
          <5> QED  BY <1>1, <3>1, <4>2, <5>1
        <4> QED  BY <1>1, <4>1, <4>2
      <3> QED  BY <1>0, <1>1, <1>2, <3>2 DEF Precedes
    <2>6. \A q \in Slots : Entry(q)' = Entry(q)
      BY <1>1 DEF Entry
    <2> QED  BY <1>0, <2>2, <2>3, <2>4, <2>5, <2>6
  <1>4. CASE ~(i + 1 <= Len(banks[k]) \/ k = Len(banks))
    <2>1. k + 1 \in 1 .. Len(banks) /\ Len(banks[k + 1]) > 0
      <3>1. k + 1 \in 1 .. Len(banks)
        BY <1>1, <1>4
      <3>2. k + 1 = Len(banks) \/ k + 1 \in 1 .. (Len(banks) - 1)
        BY <1>1, <3>1
      <3>3. Len(banks[k + 1]) > 0
        BY <1>1, <1>4, <3>1, <3>2, BankAssumption DEF DbInv, BanksPacked
      <3> QED  BY <3>1, <3>3
    <2>2. cursor' = [bank |-> k + 1, slot |-> 1] /\ n = <<k + 1, 1>>
      <3>1. banks[k + 1] # << >>
        BY <2>1
      <3> QED  BY <1>0, <1>4, <3>1 DEF client_next, bCurr
    <2>3. DbInv' /\ Slots' = Slots /\ members' = members
      BY <1>1, <2>1, <2>2, MoveInv DEF Cursor
    <2>4. n \in Slots
      <3>1. 1 \in 1 .. Len(banks[k + 1])
        BY <1>1, <2>1
      <3> QED  BY <2>1, <2>2, <3>1, SlotIntro DEF Slots
    <2>5. ASSUME NEW q \in Slots
          PROVE  Precedes(q, n) <=> Precedes(q, o) \/ q = o
      <3>1. q[1] \in 1 .. Len(banks) /\ q[2] \in 1 .. Len(banks[q[1]])
        BY <1>2
      <3>2. q[1] = k => q[2] <= i
        <4>1. ASSUME q[1] = k  PROVE q[2] <= i
          <5>1. q[2] \in 1 .. Len(banks[k])
            BY <3>1, <4>1
          <5> QED  BY <1>1, <1>4, <5>1
        <4> QED  BY <4>1
      <3> QED  BY <1>0, <1>1, <1>2, <2>2, <3>1, <3>2 DEF Precedes
    <2>6. HasCurrent'
      BY <1>1, <2>1, <2>2 DEF HasCurrent
    <2>7. \A q \in Slots : Entry(q)' = Entry(q)
      BY <1>1 DEF Entry
    <2> QED  BY <1>0, <2>3, <2>4, <2>5, <2>6, <2>7
  <1> QED  BY <1>3, <1>4

(* A deletion under the cursor disturbs nothing that lies before it.       *)
LEMMA DeleteKeepsBefore ==
  ASSUME DbInv, NEW p \in Slots, DeleteAt(p), NEW q \in Slots',
         Precedes(q, <<cursor'.bank, cursor'.slot>>)
  PROVE  q \in Slots /\ Precedes(q, p) /\ Entry(q)' = Entry(q)
  <1>1. PICK L, n :
          /\ DbTypeOK'
          /\ Slots' = Slots \ {<<L, n>>}
          /\ \A r \in Slots' :
               Entry(r)' = IF r = p THEN Entry(<<L, n>>) ELSE Entry(r)
          /\ \/ cursor' = [bank |-> p[1], slot |-> p[2]]
             \/ cursor'.bank < p[1]
    BY DeleteOK DEF DbInv
  <1>2. /\ q \in Slots
        /\ q[1] \in 1 .. Len(banks) /\ q[2] \in 1 .. Len(banks[q[1]])
        /\ p[1] \in 1 .. Len(banks) /\ p[2] \in 1 .. Len(banks[p[1]])
        /\ banks[p[1]] \in Seq(Client) /\ banks[q[1]] \in Seq(Client)
    BY <1>1, SlotType DEF DbInv
  <1>3. cursor' \in Cursor /\ Len(banks) \in Nat
    BY <1>1 DEF DbInv, DbTypeOK
  <1>4. Precedes(q, p)
    <2>1. CASE cursor' = [bank |-> p[1], slot |-> p[2]]
      BY <2>1 DEF Precedes
    <2>2. CASE cursor'.bank < p[1]
      BY <1>2, <1>3, <2>2 DEF Precedes, Cursor
    <2> QED  BY <1>1, <2>1, <2>2
  <1>5. q # p
    BY <1>2, <1>4 DEF Precedes
  <1> QED  BY <1>1, <1>2, <1>4, <1>5
=============================================================================
