-------------------------- MODULE ClientLoops_proofs -------------------------
(***************************************************************************)
(* The theorems about ClientLoops, for any set of descriptors, any bank    *)
(* size and both transports.  IInv is the inductive invariant: the walk    *)
(* invariants say which part of the database a handler has dealt with and  *)
(* what the rest still is, which is what its last step needs.              *)
(***************************************************************************)
EXTENDS ClientLoops, ClientData_proofs, FiniteSetTheorems

IInv == TypeOK /\ DbInv /\ WalkInv

LEMMA MembersType ==
  ASSUME DbTypeOK
  PROVE  members \subseteq Client /\ Descrs \subseteq Fd
  BY SlotType DEF members, Descrs, Client

LEMMA CurrentSlot ==
  ASSUME DbInv, HasCurrent
  PROVE  \E p \in Slots : /\ p = <<cursor.bank, cursor.slot>>
                          /\ client_current = Entry(p)
                          /\ Entry(p) \in members
  <1>1. PICK p : p = <<cursor.bank, cursor.slot>>
    OBVIOUS
  <1>2. p \in Slots
    BY <1>1, SlotIntro DEF HasCurrent, DbInv, CursorOnLiveBank, Slots
  <1> QED  BY <1>1, <1>2 DEF client_current, Entry, members

(* client_del of the record under the cursor deletes exactly this one.     *)
LEMMA DelCurrent ==
  ASSUME DbInv, NEW p \in Slots, client_del(Entry(p).descr)
  PROVE  DeleteAt(p)
  <1>1. Entry(p).descr \in Descrs
    BY DEF Descrs, members
  <1>2. PICK q \in Slots : FoundAt(q, Entry(p).descr) /\ DeleteAt(q)
    BY <1>1 DEF client_del
  <1>3. q = p
    BY <1>2 DEF FoundAt, DbInv, OneSlotPerDescr
  <1> QED  BY <1>2, <1>3

LEMMA InitIInv ==
  ASSUME Init
  PROVE  IInv
  <1>1. /\ banks = << << >> >> /\ cursor = [bank |-> 1, slot |-> 0]
        /\ pc = "idle" /\ expired = {} /\ audience = {} /\ error_o = FALSE
        /\ atStart = {}
    BY DEF Init, client_init
  <1>2. Len(banks) = 1 /\ banks[1] = << >> /\ Len(banks[1]) = 0
    BY <1>1
  <1>3. Slots = {}
    BY <1>2, SlotsDef DEF Slots
  <1>4. DbTypeOK
    <2>1. << >> \in Seq(Client)
      OBVIOUS
    <2> QED  BY <1>1, <2>1 DEF DbTypeOK, Cursor
  <1>5. DbInv
    BY <1>1, <1>2, <1>3, <1>4, BankAssumption
    DEF DbInv, BanksPacked, OneSlotPerDescr, CursorOnLiveBank
  <1>6. TypeOK
    BY <1>1, <1>4 DEF TypeOK, PC
  <1>7. WalkInv
    BY <1>1 DEF WalkInv, CheckWalkInv, SendWalkInv, ReapWalkInv
  <1> QED  BY <1>5, <1>6, <1>7 DEF IInv

LEMMA AcceptIInv ==
  ASSUME IInv, NEW fd \in Fd, Accept(fd)
  PROVE  IInv' /\ members' = members \union {NewClient(fd)}
  <1>1. NewClient(fd) \in Client /\ NewClient(fd).descr \notin Descrs
    BY DEF Accept, NewClient, Client
  <1>2. DbInv' /\ members' = members \union {NewClient(fd)}
    BY <1>1, AddInv DEF IInv, Accept
  <1>3. TypeOK'
    BY <1>2 DEF IInv, TypeOK, DbInv, Accept
  <1>4. WalkInv'
    BY DEF Accept, WalkInv, CheckWalkInv, SendWalkInv, ReapWalkInv
  <1> QED  BY <1>2, <1>3, <1>4 DEF IInv

LEMMA StartedType ==
  ASSUME NEW c \in Client, NEW failed \in BOOLEAN
  PROVE  /\ Started(c, failed) \in Client /\ Started(c, failed).descr = c.descr
         /\ Answered(c, failed) \in Client /\ Answered(c, failed).descr = c.descr
  <1>1. PICK e1 \in BOOLEAN : e1 = (failed \/ (c.err /\ c.status = "NEW"))
    BY DEF Client
  <1>2. PICK e2 \in BOOLEAN : e2 = (c.err \/ (use_ssl /\ failed))
    BY SslAssumption DEF Client
  <1>3. Started(c, failed) = [c EXCEPT !.status = "COMM", !.err = e1]
    BY <1>1 DEF Started
  <1>4. Answered(c, failed) = [c EXCEPT !.err = e2]
    BY <1>2 DEF Answered
  <1> QED  BY <1>3, <1>4 DEF Client

LEMMA ReadEventIInv ==
  ASSUME IInv, NEW fd \in Fd, ReadEvent(fd)
  PROVE  /\ IInv'
         /\ \E old \in members, new \in Client :
              /\ new.descr = old.descr
              /\ members' = (members \ {old}) \union {new}
  <1>1. PICK p \in Slots, new \in Client :
          /\ cursor' = [bank |-> p[1], slot |-> p[2]]
          /\ banks' = Written(p, new)
          /\ new.descr = Entry(p).descr
    <2>1. PICK p \in Slots, failed \in BOOLEAN :
            /\ cursor' = [bank |-> p[1], slot |-> p[2]]
            /\ \/ banks' = Written(p, Started(Entry(p), failed))
               \/ banks' = Written(p, Answered(Entry(p), failed))
      BY DEF ReadEvent
    <2>2. Entry(p) \in Client
      BY SlotType DEF IInv, DbInv
    <2>3. CASE banks' = Written(p, Started(Entry(p), failed))
      <3>1. /\ Started(Entry(p), failed) \in Client
            /\ Started(Entry(p), failed).descr = Entry(p).descr
        BY <2>2, StartedType
      <3> QED  BY <2>1, <2>3, <3>1
    <2>4. CASE banks' = Written(p, Answered(Entry(p), failed))
      <3>1. /\ Answered(Entry(p), failed) \in Client
            /\ Answered(Entry(p), failed).descr = Entry(p).descr
        BY <2>2, StartedType
      <3> QED  BY <2>1, <2>4, <3>1
    <2> QED  BY <2>1, <2>3, <2>4
  <1>2. cursor' \in Cursor /\ cursor'.bank \in 1 .. Len(banks)
    <2>1. /\ p[1] \in 1 .. Len(banks) /\ p[2] \in 1 .. Len(banks[p[1]])
          /\ banks[p[1]] \in Seq(Client) /\ Len(banks) \in Nat
      BY SlotType DEF IInv, DbInv, DbTypeOK
    <2> QED  BY <1>1, <2>1 DEF Cursor
  <1>3. DbInv' /\ members' = (members \ {Entry(p)}) \union {new}
    BY <1>1, <1>2, WriteInv DEF IInv
  <1>4. TypeOK'
    <2>1. pc' \in PC
      BY DEF IInv, TypeOK, ReadEvent, PC
    <2> QED  BY <2>1, <1>3 DEF IInv, TypeOK, DbInv, ReadEvent
  <1>5. WalkInv'
    BY DEF ReadEvent, WalkInv, CheckWalkInv, SendWalkInv, ReapWalkInv
  <1>6. Entry(p) \in members
    BY DEF members
  <1> QED  BY <1>1, <1>3, <1>4, <1>5, <1>6 DEF IInv

LEMMA CloseClientIInv ==
  ASSUME IInv, NEW fd \in Fd, CloseClient(fd)
  PROVE  /\ IInv'
         /\ members' = members \/ \E c \in members : members' = members \ {c}
  <1>1. /\ DbInv'
        /\ members' = members \/ \E c \in members : members' = members \ {c}
    BY DelInv DEF IInv, CloseClient
  <1>2. TypeOK'
    BY <1>1 DEF IInv, TypeOK, DbInv, CloseClient
  <1>3. WalkInv'
    BY DEF CloseClient, WalkInv, CheckWalkInv, SendWalkInv, ReapWalkInv
  <1> QED  BY <1>1, <1>2, <1>3 DEF IInv

LEMMA CountIInv ==
  ASSUME IInv, Count
  PROVE  IInv' /\ members' = members
  <1>1. DbInv' /\ members' = members
    BY WalkedInv DEF IInv, Count
  <1>2. TypeOK'
    BY <1>1 DEF IInv, TypeOK, DbInv, Count
  <1>3. WalkInv'
    BY DEF Count, WalkInv, CheckWalkInv, SendWalkInv, ReapWalkInv
  <1> QED  BY <1>1, <1>2, <1>3 DEF IInv

-----------------------------------------------------------------------------
(* checkTimeouts.                                                          *)

LEMMA CheckStartIInv ==
  ASSUME IInv, NEW S \in SUBSET Descrs, checkTimeouts(S)
  PROVE  IInv' /\ members' = members
  <1>1. /\ DbInv' /\ Slots' = Slots /\ members' = members
        /\ cursor' = [bank |-> 1, slot |-> 0]
        /\ \A q \in Slots : ~Precedes(q, <<1, 0>>) /\ q # <<1, 0>>
    BY StartInv DEF IInv, checkTimeouts
  <1>2. TypeOK'
    BY <1>1, MembersType DEF IInv, TypeOK, DbInv, checkTimeouts, PC
  <1>3. \A q \in Slots' : ~Passed(q)'
    BY <1>1 DEF Passed, Before, Precedes
  <1>4. WalkInv'
    BY <1>1, <1>3
    DEF checkTimeouts, WalkInv, CheckWalkInv, SendWalkInv, ReapWalkInv
  <1> QED  BY <1>1, <1>2, <1>4 DEF IInv

LEMMA CheckNextIInv ==
  ASSUME IInv, CheckNext
  PROVE  /\ IInv' /\ members' = members
         /\ pc' = "idle" => members' = {m \in atStart : m.descr \notin expired}
  <1>1. PICK o, n :
          /\ o = <<cursor.bank, cursor.slot>>
          /\ n = <<cursor'.bank, cursor'.slot>>
          /\ \A q \in Slots : Precedes(q, n) <=> Precedes(q, o) \/ q = o
          /\ ~HasCurrent' => \A q \in Slots : Precedes(q, o) \/ q = o
    BY NextInv DEF IInv, CheckNext
  <1>2. /\ DbInv' /\ Slots' = Slots /\ members' = members
        /\ \A q \in Slots : Entry(q)' = Entry(q)
    BY NextInv DEF IInv, CheckNext
  <1>3. TypeOK'
    BY <1>2 DEF IInv, TypeOK, DbInv, CheckNext, PC
  <1>4. WalkInv'
    <2>1. CASE pc' = "checking"
      <3>1. \A q \in Slots' : Before(q)' => Passed(q)
        BY <1>1, <1>2 DEF Before, Passed
      <3> QED  BY <1>2, <2>1, <3>1
      DEF IInv, CheckNext, WalkInv, CheckWalkInv, SendWalkInv, ReapWalkInv
    <2>2. CASE pc' = "idle"
      BY <2>2 DEF WalkInv, CheckWalkInv, SendWalkInv, ReapWalkInv
    <2> QED  BY <2>1, <2>2 DEF CheckNext
  <1>5. ASSUME pc' = "idle"
        PROVE  members' = {m \in atStart : m.descr \notin expired}
    <2>1. \A q \in Slots : Entry(q).descr \notin expired
      BY <1>1, <1>5
      DEF CheckNext, IInv, WalkInv, CheckWalkInv, Passed, Before
    <2>2. \A m \in members : m \in atStart /\ m.descr \notin expired
      BY <2>1 DEF members, CheckNext, IInv, WalkInv, CheckWalkInv
    <2>3. \A m \in atStart : m.descr \notin expired => m \in members
      BY DEF CheckNext, IInv, WalkInv, CheckWalkInv
    <2> QED  BY <1>2, <2>2, <2>3
  <1> QED  BY <1>2, <1>3, <1>4, <1>5 DEF IInv

LEMMA CheckCurrentIInv ==
  ASSUME IInv, CheckCurrent
  PROVE  /\ IInv'
         /\ members' = members \/ \E c \in members : members' = members \ {c}
  <1>1. CASE CurrentExpired /\ client_del(client_current.descr) /\ UNCHANGED pc
    <2>1. PICK p \in Slots : /\ p = <<cursor.bank, cursor.slot>>
                             /\ client_current = Entry(p) /\ Entry(p) \in members
      BY <1>1, CurrentSlot DEF IInv, CurrentExpired
    <2>2. DeleteAt(p)
      BY <1>1, <2>1, DelCurrent DEF IInv
    <2>3. DbInv' /\ members' = members \ {Entry(p)}
      BY <2>2, DeleteInv DEF IInv
    <2>4. TypeOK'
      BY <1>1, <2>3 DEF IInv, TypeOK, DbInv, CheckCurrent
    <2>5. \A q \in Slots' : Before(q)' =>
            q \in Slots /\ Before(q) /\ Entry(q)' = Entry(q)
      BY <2>1, <2>2, DeleteKeepsBefore DEF IInv, Before
    <2>6. Entry(p).descr \in expired
      BY <1>1, <2>1 DEF CurrentExpired
    <2>7. CheckWalkInv'
      BY <1>1, <2>3, <2>5, <2>6 DEF CheckCurrent, IInv, WalkInv, CheckWalkInv
    <2>8. WalkInv'
      BY <1>1, <2>7
      DEF CheckCurrent, WalkInv, SendWalkInv, ReapWalkInv
    <2> QED  BY <2>1, <2>3, <2>4, <2>8 DEF IInv
  <1>2. CASE ~CurrentExpired /\ pc' = "check" /\ UNCHANGED dbVars
    <2>1. /\ banks' = banks /\ cursor' = cursor
          /\ expired' = expired /\ audience' = audience
          /\ error_o' = error_o /\ atStart' = atStart
      BY <1>2 DEF CheckCurrent, dbVars
    <2>2. /\ DbInv' /\ Slots' = Slots /\ members' = members
          /\ \A q \in Slots : Entry(q)' = Entry(q)
      BY <2>1 DEF IInv, DbInv, DbTypeOK, BanksPacked, OneSlotPerDescr,
                  CursorOnLiveBank, Slots, members, Entry
    <2>3. TypeOK'
      BY <1>2, <2>1, <2>2 DEF IInv, TypeOK, DbInv, PC
    <2>4. ASSUME NEW q \in Slots, Passed(q)
          PROVE  Entry(q).descr \notin expired
      <3>1. CASE Before(q)
        BY <3>1 DEF IInv, WalkInv, CheckWalkInv, CheckCurrent
      <3>2. CASE q = <<cursor.bank, cursor.slot>>
        <4>1. q[1] = cursor.bank /\ q[2] = cursor.slot
          BY <3>2
        <4>2. HasCurrent /\ client_current = Entry(q)
          BY <4>1, SlotType DEF HasCurrent, client_current, Entry, IInv, DbInv
        <4> QED  BY <1>2, <4>2 DEF CurrentExpired
      <3> QED  BY <2>4, <3>1, <3>2 DEF Passed
    <2>5. \A q : Passed(q)' <=> Passed(q)
      BY <2>1 DEF Passed, Before
    <2>6. WalkInv'
      BY <1>2, <2>1, <2>2, <2>4, <2>5
      DEF IInv, CheckCurrent, WalkInv, CheckWalkInv, SendWalkInv, ReapWalkInv
    <2> QED  BY <2>2, <2>3, <2>6 DEF IInv
  <1> QED  BY <1>1, <1>2 DEF CheckCurrent

-----------------------------------------------------------------------------
(* sendmessages.                                                           *)

LEMMA SendStartIInv ==
  ASSUME IInv, NEW S \in SUBSET Descrs, sendmessages(S)
  PROVE  IInv' /\ members' = members
  <1>1. /\ DbInv' /\ Slots' = Slots /\ members' = members
        /\ cursor' = [bank |-> 1, slot |-> 0]
        /\ \A q \in Slots : Entry(q)' = Entry(q)
        /\ \A q \in Slots : ~Precedes(q, <<1, 0>>) /\ q # <<1, 0>>
    BY StartInv DEF IInv, sendmessages
  <1>2. audience' \subseteq Fd
    BY MembersType DEF IInv, DbInv, sendmessages
  <1>3. TypeOK'
    BY <1>1, <1>2, MembersType DEF IInv, TypeOK, DbInv, sendmessages, PC
  <1>4. \A q \in Slots' : ~Passed(q)'
    BY <1>1 DEF Passed, Before, Precedes
  <1>5. /\ Descrs' = {old.descr : old \in atStart'}
        /\ \A q \in Slots' : Entry(q)' \in atStart'
    BY <1>1 DEF Descrs, members, sendmessages
  <1>6. \A old1, old2 \in atStart' : old1.descr = old2.descr => old1 = old2
    BY DEF IInv, DbInv, OneSlotPerDescr, members, sendmessages
  <1>7. WalkInv'
    BY <1>4, <1>5, <1>6
    DEF sendmessages, WalkInv, CheckWalkInv, SendWalkInv, ReapWalkInv
  <1> QED  BY <1>1, <1>3, <1>7 DEF IInv

LEMMA SendNextIInv ==
  ASSUME IInv, SendNext
  PROVE  /\ IInv' /\ members' = members
         /\ pc' = "sent" =>
              /\ Descrs' = {m.descr : m \in atStart}
              /\ \A m \in members', old \in atStart : m.descr = old.descr =>
                   m.message = old.message + (IF m.descr \in audience THEN 1 ELSE 0)
  <1>1. PICK o, n :
          /\ o = <<cursor.bank, cursor.slot>>
          /\ n = <<cursor'.bank, cursor'.slot>>
          /\ \A q \in Slots : Precedes(q, n) <=> Precedes(q, o) \/ q = o
          /\ ~HasCurrent' => \A q \in Slots : Precedes(q, o) \/ q = o
    BY NextInv DEF IInv, SendNext
  <1>2. /\ DbInv' /\ Slots' = Slots /\ members' = members
        /\ \A q \in Slots : Entry(q)' = Entry(q)
    BY NextInv DEF IInv, SendNext
  <1>3. TypeOK'
    BY <1>2 DEF IInv, TypeOK, DbInv, SendNext, PC
  <1>4. Descrs' = Descrs
    BY <1>2 DEF Descrs
  <1>5. \A q \in Slots : Before(q)' <=> Passed(q)
    BY <1>1 DEF Before, Passed
  <1>6. WalkInv'
    <2>1. CASE HasCurrent' /\ pc' = "sending"
      <3>1. \A q \in Slots' : IF Before(q)'
              THEN \E old \in atStart : OfferedOnce(Entry(q), old)
              ELSE Entry(q) \in atStart
        BY <1>2, <1>5 DEF IInv, SendNext, WalkInv, SendWalkInv
      <3>2. \A q \in Slots' : IF Before(q)'
              THEN \E old \in atStart' : OfferedOnce(Entry(q), old)'
              ELSE Entry(q)' \in atStart'
        BY <1>2, <3>1 DEF SendNext, OfferedOnce
      <3> QED  BY <1>4, <2>1, <3>2
      DEF IInv, SendNext, WalkInv, CheckWalkInv, SendWalkInv, ReapWalkInv
    <2>2. CASE pc' = "sent"
      BY <2>2 DEF WalkInv, CheckWalkInv, SendWalkInv, ReapWalkInv
    <2> QED  BY <2>1, <2>2 DEF SendNext
  <1>7. ASSUME pc' = "sent"
        PROVE  /\ Descrs' = {m.descr : m \in atStart}
               /\ \A m \in members', old \in atStart : m.descr = old.descr =>
                    m.message = old.message + (IF m.descr \in audience THEN 1 ELSE 0)
    <2>1. \A q \in Slots : \E old \in atStart : OfferedOnce(Entry(q), old)
      BY <1>1, <1>7 DEF SendNext, IInv, WalkInv, SendWalkInv, Passed, Before
    <2>2. \A m \in members' : \E old \in atStart : OfferedOnce(m, old)
      BY <1>2, <2>1 DEF members
    <2>3. /\ Descrs = {m.descr : m \in atStart}
          /\ \A old1, old2 \in atStart : old1.descr = old2.descr => old1 = old2
      BY DEF SendNext, IInv, WalkInv, SendWalkInv
    <2> QED  BY <1>4, <2>2, <2>3 DEF OfferedOnce
  <1> QED  BY <1>2, <1>3, <1>6, <1>7 DEF IInv

LEMMA OfferedType ==
  ASSUME NEW c \in Client, NEW failed \in BOOLEAN,
         NEW new, new = [c EXCEPT !.err = failed, !.message = @ + 1]
  PROVE  new \in Client /\ new.descr = c.descr /\ new.message = c.message + 1
  <1>1. PICK m \in Nat : m = c.message + 1
    BY DEF Client
  <1>2. new = [c EXCEPT !.err = failed, !.message = m]
    BY <1>1
  <1>3. new \in Client /\ new.descr = c.descr /\ new.message = m
    BY <1>2 DEF Client
  <1> QED  BY <1>1, <1>3

LEMMA SendCurrentIInv ==
  ASSUME IInv, SendCurrent
  PROVE  /\ IInv'
         /\ \/ members' = members
            \/ \E old \in members, new \in Client :
                 /\ new.descr = old.descr
                 /\ members' = (members \ {old}) \union {new}
  <1>1. PICK p \in Slots : /\ p = <<cursor.bank, cursor.slot>>
                           /\ client_current = Entry(p) /\ Entry(p) \in members
    BY CurrentSlot DEF IInv, WalkInv, SendWalkInv, SendCurrent
  <1>2. /\ Entry(p) \in Client /\ Entry(p) \in atStart /\ ~Before(p)
    <2>1. p[1] = cursor.bank /\ p[2] = cursor.slot /\ p[1] \in Nat /\ p[2] \in Nat
      BY <1>1 DEF IInv, DbInv, DbTypeOK, Cursor
    <2>2. ~Before(p)
      BY <2>1 DEF Before, Precedes
    <2> QED  BY <2>2, SlotType
             DEF IInv, DbInv, WalkInv, SendWalkInv, SendCurrent
  <1>3. CASE /\ Entry(p).descr \in audience
             /\ my_cio_low_write(Entry(p))
             /\ pc' = "send"
    <2>1. PICK failed \in BOOLEAN :
            /\ banks' = Written(p, [Entry(p) EXCEPT !.err = failed, !.message = @ + 1])
            /\ error_o' = (error_o \/ (failed /\ ~use_ssl))
      BY <1>1, <1>3 DEF my_cio_low_write
    <2>2. PICK new : new = [Entry(p) EXCEPT !.err = failed, !.message = @ + 1]
      OBVIOUS
    <2>3. /\ new \in Client /\ new.descr = Entry(p).descr
          /\ new.message = Entry(p).message + 1
      BY <1>2, <2>2, OfferedType
    <2>4. /\ DbInv' /\ Slots' = Slots
          /\ \A q \in Slots : Entry(q)' = IF q = p THEN new ELSE Entry(q)
          /\ members' = (members \ {Entry(p)}) \union {new}
      BY <2>1, <2>2, <2>3, WriteInv
      DEF SendCurrent, IInv, DbInv, DbTypeOK, CursorOnLiveBank
    <2>5. error_o' \in BOOLEAN
      BY <2>1, SslAssumption DEF IInv, TypeOK
    <2>6. TypeOK'
      BY <1>3, <2>4, <2>5 DEF SendCurrent, IInv, TypeOK, DbInv, PC
    <2>7. Descrs' = Descrs
      <3>1. \A d : d \in Descrs' <=> \E q \in Slots : Entry(q)'.descr = d
        BY <2>4 DEF Descrs, members
      <3>2. \A d : d \in Descrs <=> \E q \in Slots : Entry(q).descr = d
        BY DEF Descrs, members
      <3>3. \A q \in Slots : Entry(q)'.descr = Entry(q).descr
        BY <2>3, <2>4
      <3> QED  BY <3>1, <3>2, <3>3
    <2>8. ASSUME NEW q \in Slots'
          PROVE  IF Passed(q)' THEN \E old \in atStart' : OfferedOnce(Entry(q), old)'
                               ELSE Entry(q)' \in atStart'
      <3>1. /\ Before(q)' <=> Before(q)
            /\ Passed(q)' <=> Before(q) \/ q = p
            /\ atStart' = atStart /\ audience' = audience
        BY <1>1 DEF SendCurrent, Before, Passed
      <3>2. CASE q = p
        <4>1. PICK old : old = Entry(p)
          OBVIOUS
        <4>2. OfferedOnce(Entry(q), old)'
          BY <1>3, <2>3, <2>4, <3>1, <3>2, <4>1 DEF OfferedOnce
        <4> QED  BY <1>2, <3>1, <3>2, <4>1, <4>2
      <3>3. CASE q # p
        <4>1. Entry(q)' = Entry(q) /\ q \in Slots
          BY <2>4, <3>3
        <4>2. IF Before(q) THEN \E old \in atStart : OfferedOnce(Entry(q), old)
                           ELSE Entry(q) \in atStart
          BY <4>1 DEF IInv, WalkInv, SendWalkInv, SendCurrent
        <4> QED  BY <3>1, <3>3, <4>1, <4>2 DEF OfferedOnce
      <3> QED  BY <3>2, <3>3
    <2>9. WalkInv'
      BY <1>3, <2>7, <2>8
      DEF SendCurrent, IInv, WalkInv, CheckWalkInv, SendWalkInv, ReapWalkInv
    <2> QED  BY <1>1, <2>3, <2>4, <2>6, <2>9 DEF IInv
  <1>4. CASE UNCHANGED <<banks, error_o>> /\
             (pc' = "sigpipe" \/ (Entry(p).descr \notin audience /\ pc' = "send"))
    <2>1. /\ banks' = banks /\ cursor' = cursor
          /\ expired' = expired /\ audience' = audience
          /\ error_o' = error_o /\ atStart' = atStart
      BY <1>4 DEF SendCurrent
    <2>2. /\ DbInv' /\ Slots' = Slots /\ members' = members /\ Descrs' = Descrs
          /\ \A q \in Slots : Entry(q)' = Entry(q)
      BY <2>1 DEF IInv, DbInv, DbTypeOK, BanksPacked, OneSlotPerDescr,
                  CursorOnLiveBank, Slots, members, Descrs, Entry
    <2>3. TypeOK'
      BY <1>4, <2>1, <2>2 DEF IInv, TypeOK, DbInv, PC
    <2>4. ASSUME pc' = "send", NEW q \in Slots
          PROVE  IF Passed(q) THEN \E old \in atStart : OfferedOnce(Entry(q), old)
                              ELSE Entry(q) \in atStart
      <3>1. IF Before(q) THEN \E old \in atStart : OfferedOnce(Entry(q), old)
                         ELSE Entry(q) \in atStart
        BY DEF IInv, WalkInv, SendWalkInv, SendCurrent
      <3>2. Passed(q) <=> Before(q) \/ q = p
        BY <1>1 DEF Passed
      <3>3. q = p => OfferedOnce(Entry(q), Entry(p))
        BY <1>2, <1>4, <2>4 DEF OfferedOnce, Client
      <3> QED  BY <1>2, <3>1, <3>2, <3>3
    <2>5. \A q : Passed(q)' <=> Passed(q)
      BY <2>1 DEF Passed, Before
    <2>6. WalkInv'
      <3>1. CASE pc' = "sigpipe"
        BY <3>1 DEF WalkInv, CheckWalkInv, SendWalkInv, ReapWalkInv
      <3>2. CASE pc' = "send"
        <4>1. \A q \in Slots' : IF Passed(q)'
                THEN \E old \in atStart' : OfferedOnce(Entry(q), old)'
                ELSE Entry(q)' \in atStart'
          BY <2>1, <2>2, <2>4, <2>5, <3>2 DEF OfferedOnce
        <4> QED  BY <2>1, <2>2, <3>2, <4>1
        DEF IInv, SendCurrent, WalkInv, CheckWalkInv, SendWalkInv, ReapWalkInv
      <3> QED  BY <1>4, <3>1, <3>2
    <2> QED  BY <2>2, <2>3, <2>6 DEF IInv
  <1> QED  BY <1>1, <1>3, <1>4 DEF SendCurrent

LEMMA SendDoneIInv ==
  ASSUME IInv, SendDone
  PROVE  IInv' /\ members' = members
  <1>1. CASE pc' = "reap" /\ atStart' = members /\ client_start
             /\ UNCHANGED <<audience, error_o>>
    <2>1. /\ DbInv' /\ Slots' = Slots /\ members' = members
          /\ cursor' = [bank |-> 1, slot |-> 0]
          /\ \A q \in Slots : ~Precedes(q, <<1, 0>>) /\ q # <<1, 0>>
      BY <1>1, StartInv DEF IInv
    <2>2. TypeOK'
      BY <1>1, <2>1, MembersType DEF IInv, TypeOK, DbInv, SendDone, PC
    <2>3. \A q \in Slots' : ~Passed(q)'
      BY <2>1 DEF Passed, Before, Precedes
    <2>4. WalkInv'
      BY <1>1, <2>1, <2>3
      DEF WalkInv, CheckWalkInv, SendWalkInv, ReapWalkInv
    <2> QED  BY <2>1, <2>2, <2>4 DEF IInv
  <1>2. CASE pc' = "idle" /\ audience' = {} /\ atStart' = {}
             /\ UNCHANGED <<banks, cursor, error_o>>
    <2>1. DbInv' /\ members' = members
      BY <1>2 DEF IInv, DbInv, DbTypeOK, BanksPacked, OneSlotPerDescr,
                  CursorOnLiveBank, Slots, members, Entry
    <2>2. TypeOK'
      BY <1>2, <2>1 DEF IInv, TypeOK, DbInv, SendDone, PC
    <2>3. WalkInv'
      BY <1>2 DEF WalkInv, CheckWalkInv, SendWalkInv, ReapWalkInv
    <2> QED  BY <2>1, <2>2, <2>3 DEF IInv
  <1> QED  BY <1>1, <1>2 DEF SendDone

LEMMA ReapNextIInv ==
  ASSUME IInv, ReapNext
  PROVE  /\ IInv' /\ members' = members
         /\ pc' = "idle" => members' = {m \in atStart : ~m.err}
  <1>1. PICK o, n :
          /\ o = <<cursor.bank, cursor.slot>>
          /\ n = <<cursor'.bank, cursor'.slot>>
          /\ \A q \in Slots : Precedes(q, n) <=> Precedes(q, o) \/ q = o
          /\ ~HasCurrent' => \A q \in Slots : Precedes(q, o) \/ q = o
    BY NextInv DEF IInv, ReapNext
  <1>2. /\ DbInv' /\ Slots' = Slots /\ members' = members
        /\ \A q \in Slots : Entry(q)' = Entry(q)
    BY NextInv DEF IInv, ReapNext
  <1>3. TypeOK'
    BY <1>2 DEF IInv, TypeOK, DbInv, ReapNext, PC
  <1>4. WalkInv'
    <2>1. CASE pc' = "reaping" /\ atStart' = atStart
      <3>1. \A q \in Slots' : Before(q)' => Passed(q)
        BY <1>1, <1>2 DEF Before, Passed
      <3> QED  BY <1>2, <2>1, <3>1
      DEF IInv, ReapNext, WalkInv, CheckWalkInv, SendWalkInv, ReapWalkInv
    <2>2. CASE pc' = "idle"
      BY <2>2 DEF WalkInv, CheckWalkInv, SendWalkInv, ReapWalkInv
    <2> QED  BY <2>1, <2>2 DEF ReapNext
  <1>5. ASSUME pc' = "idle"
        PROVE  members' = {m \in atStart : ~m.err}
    <2>1. \A q \in Slots : ~Entry(q).err
      BY <1>1, <1>5 DEF ReapNext, IInv, WalkInv, ReapWalkInv, Passed, Before
    <2>2. \A m \in members : m \in atStart /\ ~m.err
      BY <2>1 DEF members, ReapNext, IInv, WalkInv, ReapWalkInv
    <2>3. \A m \in atStart : ~m.err => m \in members
      BY DEF ReapNext, IInv, WalkInv, ReapWalkInv
    <2> QED  BY <1>2, <2>2, <2>3
  <1> QED  BY <1>2, <1>3, <1>4, <1>5 DEF IInv

LEMMA ReapCurrentIInv ==
  ASSUME IInv, ReapCurrent
  PROVE  /\ IInv'
         /\ members' = members \/ \E c \in members : members' = members \ {c}
  <1>1. CASE /\ HasCurrent /\ client_current.err
             /\ client_del(client_current.descr) /\ UNCHANGED pc
    <2>1. PICK p \in Slots : /\ p = <<cursor.bank, cursor.slot>>
                             /\ client_current = Entry(p) /\ Entry(p) \in members
      BY <1>1, CurrentSlot DEF IInv
    <2>2. DeleteAt(p)
      BY <1>1, <2>1, DelCurrent DEF IInv
    <2>3. DbInv' /\ members' = members \ {Entry(p)}
      BY <2>2, DeleteInv DEF IInv
    <2>4. TypeOK'
      BY <1>1, <2>3 DEF IInv, TypeOK, DbInv, ReapCurrent
    <2>5. \A q \in Slots' : Before(q)' =>
            q \in Slots /\ Before(q) /\ Entry(q)' = Entry(q)
      BY <2>1, <2>2, DeleteKeepsBefore DEF IInv, Before
    <2>6. Entry(p).err
      BY <1>1, <2>1
    <2>7. ReapWalkInv'
      BY <1>1, <2>3, <2>5, <2>6 DEF ReapCurrent, IInv, WalkInv, ReapWalkInv
    <2>8. WalkInv'
      BY <1>1, <2>7 DEF ReapCurrent, WalkInv, SendWalkInv, CheckWalkInv
    <2> QED  BY <2>1, <2>3, <2>4, <2>8 DEF IInv
  <1>2. CASE /\ UNCHANGED dbVars
             /\ \/ ~HasCurrent /\ pc' = "segv"
                \/ HasCurrent /\ ~client_current.err /\ pc' = "reap"
    <2>1. /\ banks' = banks /\ cursor' = cursor
          /\ expired' = expired /\ audience' = audience
          /\ error_o' = error_o /\ atStart' = atStart
      BY <1>2 DEF ReapCurrent, dbVars
    <2>2. /\ DbInv' /\ Slots' = Slots /\ members' = members
          /\ \A q \in Slots : Entry(q)' = Entry(q)
      BY <2>1 DEF IInv, DbInv, DbTypeOK, BanksPacked, OneSlotPerDescr,
                  CursorOnLiveBank, Slots, members, Entry
    <2>3. TypeOK'
      BY <1>2, <2>1, <2>2 DEF IInv, TypeOK, DbInv, PC
    <2>4. ASSUME pc' = "reap", NEW q \in Slots, Passed(q)
          PROVE  ~Entry(q).err
      <3>1. CASE Before(q)
        BY <3>1 DEF IInv, WalkInv, ReapWalkInv, ReapCurrent
      <3>2. CASE q = <<cursor.bank, cursor.slot>>
        <4>1. q[1] = cursor.bank /\ q[2] = cursor.slot
          BY <3>2
        <4>2. HasCurrent /\ client_current = Entry(q)
          BY <4>1, SlotType DEF HasCurrent, client_current, Entry, IInv, DbInv
        <4> QED  BY <1>2, <2>4, <4>2
      <3> QED  BY <2>4, <3>1, <3>2 DEF Passed
    <2>5. \A q : Passed(q)' <=> Passed(q)
      BY <2>1 DEF Passed, Before
    <2>6. WalkInv'
      BY <1>2, <2>1, <2>2, <2>4, <2>5
      DEF IInv, ReapCurrent, WalkInv, CheckWalkInv, SendWalkInv, ReapWalkInv
    <2> QED  BY <2>2, <2>3, <2>6 DEF IInv
  <1> QED  BY <1>1, <1>2 DEF ReapCurrent

LEMMA StutterIInv ==
  ASSUME IInv, UNCHANGED vars
  PROVE  IInv' /\ members' = members
  <1>1. /\ banks' = banks /\ cursor' = cursor /\ pc' = pc
        /\ expired' = expired /\ audience' = audience
        /\ error_o' = error_o /\ atStart' = atStart
    BY DEF vars
  <1>2. Slots' = Slots /\ members' = members /\ Descrs' = Descrs
        /\ \A q : Entry(q)' = Entry(q) /\ Before(q)' = Before(q)
                  /\ Passed(q)' = Passed(q)
    BY <1>1 DEF Slots, members, Descrs, Entry, Before, Passed
  <1>3. DbInv' /\ TypeOK'
    BY <1>1, <1>2 DEF IInv, DbInv, DbTypeOK, BanksPacked, OneSlotPerDescr,
                      CursorOnLiveBank, TypeOK
  <1>4. HasCurrent' = HasCurrent
        /\ \A m, old : OfferedOnce(m, old)' = OfferedOnce(m, old)
    BY <1>1 DEF HasCurrent, OfferedOnce
  <1>5. CheckWalkInv' /\ ReapWalkInv'
    BY <1>1, <1>2 DEF IInv, WalkInv, CheckWalkInv, ReapWalkInv
  <1>6. SendWalkInv'
    BY <1>1, <1>2, <1>4 DEF IInv, WalkInv, SendWalkInv, OfferedOnce
  <1> QED  BY <1>2, <1>3, <1>5, <1>6 DEF IInv, WalkInv

-----------------------------------------------------------------------------
(* One step of the specification.                                          *)

LEMMA NextIInv ==
  ASSUME IInv, [Next]_vars
  PROVE  IInv' /\ [ClientSet!Next]_members
  <1>1. CASE \E fd \in Fd : Accept(fd)
    <2>1. PICK fd \in Fd : Accept(fd)
      BY <1>1
    <2>2. IInv' /\ members' = members \union {NewClient(fd)}
      BY <2>1, AcceptIInv
    <2>3. \A m \in members : m.descr # NewClient(fd).descr
      BY <2>1 DEF Accept, NewClient, Descrs
    <2> QED  BY <2>2, <2>3 DEF ClientSet!Next, ClientSet!Connect
  <1>2. CASE \E fd \in Fd : ReadEvent(fd)
    BY <1>2, ReadEventIInv DEF ClientSet!Next, ClientSet!Update
  <1>3. CASE \E fd \in Fd : CloseClient(fd)
    BY <1>3, CloseClientIInv DEF ClientSet!Next, ClientSet!Drop
  <1>4. CASE \E S \in SUBSET Descrs : checkTimeouts(S)
    BY <1>4, CheckStartIInv
  <1>5. CASE \E S \in SUBSET Descrs : sendmessages(S)
    BY <1>5, SendStartIInv
  <1>6. CASE CheckNext
    BY <1>6, CheckNextIInv
  <1>7. CASE CheckCurrent
    BY <1>7, CheckCurrentIInv DEF ClientSet!Next, ClientSet!Drop
  <1>8. CASE SendNext
    BY <1>8, SendNextIInv
  <1>9. CASE SendCurrent
    BY <1>9, SendCurrentIInv DEF ClientSet!Next, ClientSet!Update
  <1>10. CASE SendDone
    BY <1>10, SendDoneIInv
  <1>11. CASE ReapNext
    BY <1>11, ReapNextIInv
  <1>12. CASE ReapCurrent
    BY <1>12, ReapCurrentIInv DEF ClientSet!Next, ClientSet!Drop
  <1>13. CASE UNCHANGED vars
    BY <1>13, StutterIInv
  <1>14. CASE Count
    BY <1>14, CountIInv
  <1> QED  BY <1>1, <1>2, <1>3, <1>4, <1>5, <1>6, <1>7, <1>8, <1>9, <1>10,
              <1>11, <1>12, <1>13, <1>14 DEF Next, Walk

-----------------------------------------------------------------------------
(* The theorems.                                                           *)

(* IInv holds in every reachable state.                                    *)
THEOREM Invariance == Spec => []IInv
  <1>1. Init => IInv
    BY InitIInv
  <1>2. IInv /\ [Next]_vars => IInv'
    BY NextIInv
  <1> QED  BY <1>1, <1>2, PTL DEF Spec

(* Type correctness of the database and of the handlers' state.            *)
THEOREM TypeCorrect == Spec => []TypeOK
  <1>1. IInv => TypeOK
    BY DEF IInv
  <1> QED  BY <1>1, Invariance, PTL

(* The banks of cdata.c stay packed, a descriptor has one slot at most and *)
(* the cursor never points at a freed bank.                                *)
THEOREM DatabaseCorrect ==
  Spec => [](BanksPacked /\ OneSlotPerDescr /\ CursorOnLiveBank)
  <1>1. IInv => BanksPacked /\ OneSlotPerDescr /\ CursorOnLiveBank
    BY DEF IInv, DbInv
  <1> QED  BY <1>1, Invariance, PTL

(* However records are added and deleted, a descriptor has one slot at     *)
(* most, so that client_get never finds another record than the one meant. *)
THEOREM OneSlotCorrect == Spec => []OneSlotPerDescr
  <1>1. IInv => OneSlotPerDescr
    BY DEF IInv, DbInv
  <1> QED  BY <1>1, Invariance, PTL

(* The cursor that client_del leaves on the emptied slot, or takes back    *)
(* when it frees the last bank, never points at a freed bank.              *)
THEOREM CursorCorrect == Spec => []CursorOnLiveBank
  <1>1. IInv => CursorOnLiveBank
    BY DEF IInv, DbInv
  <1> QED  BY <1>1, Invariance, PTL

(* Deleting under the cursor never disturbs a walk.                        *)
THEOREM WalksCorrect == Spec => []WalkInv
  <1>1. IInv => WalkInv
    BY DEF IInv
  <1> QED  BY <1>1, Invariance, PTL

(* checkTimeouts closes the clients whose time is over and no other.       *)
THEOREM TimeoutCheckCorrect == Spec => TimeoutCheckIsExact
  <1>1. IInv /\ [Next]_vars =>
          [pc = "check" /\ pc' = "idle"
             => members' = {m \in atStart : m.descr \notin expired}]_vars
    <2> SUFFICES ASSUME IInv, [Next]_vars, pc = "check", pc' = "idle"
                 PROVE  members' = {m \in atStart : m.descr \notin expired}
      OBVIOUS
    <2>1. CheckNext
      BY DEF Next, Walk, Accept, ReadEvent, CloseClient, Count, checkTimeouts,
             sendmessages, CheckCurrent, SendNext, SendCurrent, SendDone,
             ReapNext, ReapCurrent, vars
    <2> QED  BY <2>1, CheckNextIInv
  <1> QED  BY <1>1, Invariance, PTL DEF Spec, TimeoutCheckIsExact

(* sendmessages offers a message to every client it matches exactly once.  *)
THEOREM FanOutCorrect == Spec => FanOutIsExact
  <1>1. IInv /\ [Next]_vars =>
          [pc = "send" /\ pc' = "sent"
             => /\ Descrs' = {m.descr : m \in atStart}
                /\ \A m \in members', old \in atStart : m.descr = old.descr =>
                     m.message = old.message
                                 + (IF m.descr \in audience THEN 1 ELSE 0)]_vars
    <2> SUFFICES ASSUME IInv, [Next]_vars, pc = "send", pc' = "sent"
                 PROVE  /\ Descrs' = {m.descr : m \in atStart}
                        /\ \A m \in members', old \in atStart : m.descr = old.descr =>
                             m.message = old.message
                                         + (IF m.descr \in audience THEN 1 ELSE 0)
      OBVIOUS
    <2>1. SendNext
      BY DEF Next, Walk, Accept, ReadEvent, CloseClient, Count, checkTimeouts,
             sendmessages, CheckNext, CheckCurrent, SendCurrent, SendDone,
             ReapNext, ReapCurrent, vars
    <2> QED  BY <2>1, SendNextIInv
  <1> QED  BY <1>1, Invariance, PTL DEF Spec, FanOutIsExact

(* The clean-up of sendmessages, when it ends, has closed the clients with *)
(* the error mark and no other.                                            *)
THEOREM CleanUpCorrect == Spec => CleanUpIsExact
  <1>1. IInv /\ [Next]_vars =>
          [pc = "reap" /\ pc' = "idle" => members' = {m \in atStart : ~m.err}]_vars
    <2> SUFFICES ASSUME IInv, [Next]_vars, pc = "reap", pc' = "idle"
                 PROVE  members' = {m \in atStart : ~m.err}
      OBVIOUS
    <2>1. ReapNext
      BY DEF Next, Walk, Accept, ReadEvent, CloseClient, Count, checkTimeouts,
             sendmessages, CheckNext, CheckCurrent, SendNext, SendCurrent,
             SendDone, ReapCurrent, vars
    <2> QED  BY <2>1, ReapNextIInv
  <1> QED  BY <1>1, Invariance, PTL DEF Spec, CleanUpIsExact

(* The database with its banks, swaps and cursor implements a set of       *)
(* records in which a descriptor identifies one client.                    *)
THEOREM ClientSetImplemented == Spec => ImplementsClientSet
  <1>1. Init => ClientSet!Init
    <2>1. ASSUME Init  PROVE Slots = {}
      <3>1. Len(banks) = 1 /\ Len(banks[1]) = 0
        BY <2>1 DEF Init, client_init
      <3> QED  BY <3>1, SlotsDef DEF Slots
    <2> QED  BY <2>1 DEF ClientSet!Init, members
  <1>2. IInv /\ [Next]_vars => [ClientSet!Next]_members
    BY NextIInv
  <1> QED  BY <1>1, <1>2, Invariance, PTL
           DEF Spec, ImplementsClientSet, ClientSet!Spec

-----------------------------------------------------------------------------
(***************************************************************************)
(* Failed clients.                                                         *)
(***************************************************************************)

(* As long as no write has failed, no client behind the cursor that the    *)
(* message was for has its error mark set: one that had it already is not  *)
(* written to, which counts as a failure.                                  *)
ErrorsKnown ==
  /\ pc = "send" /\ ~error_o =>
       \A q \in Slots : Passed(q) /\ Entry(q).descr \in audience => ~Entry(q).err
  /\ pc = "sending" /\ ~error_o =>
       \A q \in Slots : Before(q) /\ Entry(q).descr \in audience => ~Entry(q).err
  /\ pc = "sent" /\ ~error_o =>
       \A m \in members : m.descr \in audience => ~m.err

LEMMA SendStartErrors ==
  ASSUME IInv, NEW S \in SUBSET Descrs, sendmessages(S)
  PROVE  ErrorsKnown'
  <1>1. /\ Slots' = Slots /\ cursor' = [bank |-> 1, slot |-> 0]
        /\ \A q \in Slots : ~Precedes(q, <<1, 0>>) /\ q # <<1, 0>>
    BY StartInv DEF IInv, sendmessages
  <1>2. \A q \in Slots' : ~Passed(q)'
    BY <1>1 DEF Passed, Before, Precedes
  <1> QED  BY <1>2 DEF sendmessages, ErrorsKnown

LEMMA SendNextErrors ==
  ASSUME IInv, ErrorsKnown, SendNext
  PROVE  ErrorsKnown'
  <1>1. PICK o, n :
          /\ o = <<cursor.bank, cursor.slot>>
          /\ n = <<cursor'.bank, cursor'.slot>>
          /\ \A q \in Slots : Precedes(q, n) <=> Precedes(q, o) \/ q = o
          /\ ~HasCurrent' => \A q \in Slots : Precedes(q, o) \/ q = o
    BY NextInv DEF IInv, SendNext
  <1>2. /\ Slots' = Slots /\ members' = members
        /\ \A q \in Slots : Entry(q)' = Entry(q)
    BY NextInv DEF IInv, SendNext
  <1>3. \A q \in Slots : Before(q)' <=> Passed(q)
    BY <1>1 DEF Before, Passed
  <1>4. CASE pc' = "sending"
    BY <1>2, <1>3, <1>4 DEF SendNext, ErrorsKnown
  <1>5. CASE pc' = "sent" /\ ~HasCurrent'
    <2>1. \A q \in Slots : Passed(q)
      BY <1>1, <1>5 DEF Passed, Before
    <2>2. ~error_o => \A m \in members : m.descr \in audience => ~m.err
      BY <2>1 DEF SendNext, ErrorsKnown, members
    <2> QED  BY <1>2, <1>5, <2>2 DEF SendNext, ErrorsKnown
  <1> QED  BY <1>4, <1>5 DEF SendNext

LEMMA SendCurrentErrors ==
  ASSUME IInv, ErrorsKnown, ~use_ssl, SendCurrent
  PROVE  ErrorsKnown'
  <1>1. PICK p \in Slots : /\ p = <<cursor.bank, cursor.slot>>
                           /\ client_current = Entry(p) /\ Entry(p) \in members
    BY CurrentSlot DEF IInv, WalkInv, SendWalkInv, SendCurrent
  <1>2. Entry(p) \in Client
    BY SlotType DEF IInv, DbInv
  <1>3. cursor' = cursor /\ audience' = audience /\ pc = "sending"
    BY DEF SendCurrent
  <1>4. CASE /\ Entry(p).descr \in audience
             /\ my_cio_low_write(Entry(p))
             /\ pc' = "send"
    <2>1. PICK failed \in BOOLEAN :
            /\ banks' = Written(p, [Entry(p) EXCEPT !.err = failed, !.message = @ + 1])
            /\ error_o' = (error_o \/ failed)
      BY <1>1, <1>4 DEF my_cio_low_write
    <2>2. PICK new : new = [Entry(p) EXCEPT !.err = failed, !.message = @ + 1]
      OBVIOUS
    <2>3. new \in Client /\ new.descr = Entry(p).descr /\ new.err = failed
      BY <1>2, <2>2, OfferedType DEF Client
    <2>4. /\ Slots' = Slots
          /\ \A q \in Slots : Entry(q)' = IF q = p THEN new ELSE Entry(q)
      BY <1>3, <2>1, <2>2, <2>3, WriteInv
      DEF IInv, DbInv, DbTypeOK, CursorOnLiveBank
    <2>5. ASSUME ~error_o', NEW q \in Slots, Passed(q)', Entry(q)'.descr \in audience
          PROVE  ~Entry(q)'.err
      <3>1. ~error_o /\ ~failed
        BY <2>1, <2>5
      <3>2. Before(q) \/ q = p
        BY <1>1, <1>3, <2>5 DEF Passed, Before
      <3>3. CASE q = p
        BY <2>3, <2>4, <3>1, <3>3
      <3>4. CASE q # p
        BY <1>3, <2>4, <2>5, <3>1, <3>2, <3>4 DEF ErrorsKnown
      <3> QED  BY <3>3, <3>4
    <2> QED  BY <1>3, <1>4, <2>4, <2>5 DEF ErrorsKnown
  <1>5. CASE UNCHANGED <<banks, error_o>> /\ pc' = "sigpipe"
    BY <1>5 DEF ErrorsKnown
  <1>6. CASE UNCHANGED <<banks, error_o>> /\ Entry(p).descr \notin audience /\ pc' = "send"
    <2>1. /\ Slots' = Slots /\ \A q : Entry(q)' = Entry(q)
          /\ \A q : Passed(q)' <=> Before(q) \/ q = p
      BY <1>1, <1>3, <1>6 DEF Slots, Entry, Passed, Before
    <2> QED  BY <1>3, <1>6, <2>1 DEF ErrorsKnown
  <1> QED  BY <1>1, <1>4, <1>5, <1>6 DEF SendCurrent

LEMMA NextErrors ==
  ASSUME IInv, ErrorsKnown, ~use_ssl, [Next]_vars
  PROVE  ErrorsKnown'
  <1>1. CASE \E S \in SUBSET Descrs : sendmessages(S)
    BY <1>1, SendStartErrors
  <1>2. CASE SendNext
    BY <1>2, SendNextErrors
  <1>3. CASE SendCurrent
    BY <1>3, SendCurrentErrors
  <1>4. CASE UNCHANGED vars
    <2>1. /\ pc' = pc /\ error_o' = error_o /\ audience' = audience
          /\ banks' = banks /\ cursor' = cursor
      BY <1>4 DEF vars
    <2>2. /\ Slots' = Slots /\ members' = members
          /\ \A q : Entry(q)' = Entry(q) /\ Before(q)' = Before(q) /\ Passed(q)' = Passed(q)
      BY <2>1 DEF Slots, members, Entry, Before, Passed
    <2> QED  BY <2>1, <2>2 DEF ErrorsKnown
  <1>5. CASE pc' \notin {"send", "sending", "sent"}
    BY <1>5 DEF ErrorsKnown
  <1> QED  BY <1>1, <1>2, <1>3, <1>4, <1>5
           DEF Next, Walk, Accept, ReadEvent, CloseClient, Count, checkTimeouts,
               CheckNext, CheckCurrent, SendDone, ReapNext, ReapCurrent

(* When sendmessages returns without TLS, every client the message was for *)
(* and could not be written to is gone: error_o misses none of them, and   *)
(* the clean-up, once started, takes them all (chat.c:398-426).            *)
THEOREM FailedClientsClosedHolds ==
  ASSUME ~use_ssl
  PROVE  Spec => FailedClientsClosed
  <1>1. Init => ErrorsKnown
    BY DEF Init, ErrorsKnown
  <1>2. IInv /\ ErrorsKnown /\ [Next]_vars => ErrorsKnown'
    BY NextErrors
  <1>3. IInv /\ ErrorsKnown /\ [Next]_vars =>
          [(pc = "sent" \/ pc = "reap") /\ pc' = "idle"
             => \A m \in members' : m.descr \in audience => ~m.err]_vars
    <2> SUFFICES ASSUME IInv, ErrorsKnown, [Next]_vars,
                        pc = "sent" \/ pc = "reap", pc' = "idle"
                 PROVE  \A m \in members' : m.descr \in audience => ~m.err
      OBVIOUS
    <2>1. SendDone \/ ReapNext
      BY DEF Next, Walk, Accept, ReadEvent, CloseClient, Count, checkTimeouts,
             sendmessages, CheckNext, CheckCurrent, SendNext, SendCurrent,
             ReapCurrent, vars
    <2>2. CASE SendDone
      <3>1. pc = "sent" /\ ~error_o
        BY <2>2 DEF SendDone
      <3>2. members' = members
        BY <2>2, SendDoneIInv
      <3> QED  BY <3>1, <3>2 DEF ErrorsKnown
    <2>3. CASE ReapNext
      BY <2>3, ReapNextIInv
    <2> QED  BY <2>1, <2>2, <2>3
  <1> QED  BY <1>1, <1>2, <1>3, Invariance, PTL DEF Spec, FailedClientsClosed

-----------------------------------------------------------------------------
(***************************************************************************)
(* The length of a walk.                                                   *)
(***************************************************************************)

LEMMA FiniteSlots ==
  ASSUME DbInv
  PROVE  /\ IsFiniteSet(Slots) /\ Cardinality(Slots) \in Nat
         /\ IsFiniteSet(Ahead) /\ Cardinality(Ahead) \in Nat
         /\ Cardinality(Ahead) <= Cardinality(Slots)
  <1>1. Len(banks) \in Nat /\ BANKSIZE \in Nat
    BY BankAssumption DEF DbInv, DbTypeOK
  <1>2. Slots \subseteq (1 .. Len(banks)) \X (1 .. BANKSIZE)
    <2>1. ASSUME NEW q \in Slots
          PROVE  q \in (1 .. Len(banks)) \X (1 .. BANKSIZE)
      <3>1. /\ q[1] \in 1 .. Len(banks) /\ q[2] \in 1 .. Len(banks[q[1]])
            /\ q = <<q[1], q[2]>> /\ Len(banks[q[1]]) \in Nat
        BY SlotType DEF DbInv
      <3>2. Len(banks[q[1]]) <= BANKSIZE
        BY <3>1 DEF DbInv, BanksPacked
      <3>3. q[2] \in 1 .. BANKSIZE
        BY <1>1, <3>1, <3>2
      <3> QED  BY <3>1, <3>3
    <2> QED  BY <2>1
  <1>3. IsFiniteSet((1 .. Len(banks)) \X (1 .. BANKSIZE))
    <2>1. IsFiniteSet(1 .. Len(banks)) /\ IsFiniteSet(1 .. BANKSIZE)
      BY <1>1, FS_Interval
    <2> QED  BY <2>1, FS_Product
  <1>4. IsFiniteSet(Slots)
    BY <1>2, <1>3, FS_Subset
  <1>5. Ahead \in SUBSET Slots
    BY DEF Ahead
  <1> QED  BY <1>4, <1>5, FS_Subset, FS_CardinalityType

(* client_next leaves the slot it comes to behind.                         *)
LEMMA NextAhead ==
  ASSUME DbInv, client_next
  PROVE  /\ DbInv' /\ Slots' = Slots
         /\ HasCurrent' => Cardinality(Ahead)' = Cardinality(Ahead) - 1
         /\ Cardinality(Ahead)' \in Nat /\ Cardinality(Ahead)' <= Cardinality(Ahead)
  <1>1. PICK o, n :
          /\ o = <<cursor.bank, cursor.slot>>
          /\ n = <<cursor'.bank, cursor'.slot>>
          /\ HasCurrent' => n \in Slots
          /\ \A q \in Slots : Precedes(q, n) <=> Precedes(q, o) \/ q = o
    BY NextInv
  <1>2. DbInv' /\ Slots' = Slots
    BY NextInv
  <1>3. ~Precedes(n, n)
    <2>1. n[1] \in Nat /\ n[2] \in Nat
      BY <1>1, <1>2 DEF DbInv, DbTypeOK, Cursor
    <2> QED  BY <2>1 DEF Precedes
  <1>4. Ahead' = Ahead \ {n}
    BY <1>1, <1>2 DEF Ahead, Passed, Before
  <1>5. HasCurrent' => n \in Ahead
    BY <1>1, <1>3 DEF Ahead, Passed, Before
  <1>6. IsFiniteSet(Ahead) /\ Cardinality(Ahead) \in Nat
    BY FiniteSlots
  <1>7. Cardinality(Ahead \ {n}) =
          IF n \in Ahead THEN Cardinality(Ahead) - 1 ELSE Cardinality(Ahead)
    BY <1>6, FS_RemoveElement
  <1>8. n \in Ahead => Cardinality(Ahead) # 0
    BY <1>6, FS_EmptySet
  <1> QED  BY <1>2, <1>4, <1>5, <1>6, <1>7, <1>8

(* What a walk has left behind stays behind when the record under the      *)
(* cursor is deleted, even where the cursor goes back to another bank.     *)
LEMMA DeleteKeepsPassed ==
  ASSUME DbInv, NEW p \in Slots, DeleteAt(p), NEW q \in Slots',
         Precedes(q, p) \/ q = p
  PROVE  LET n == <<cursor'.bank, cursor'.slot>> IN Precedes(q, n) \/ q = n
  <1>1. PICK L, n :
          /\ L = Len(banks) /\ n = Len(banks[L])
          /\ <<L, n>> \in Slots
          /\ Slots' = Slots \ {<<L, n>>}
    BY DeleteOK DEF DbInv
  <1>2. /\ q \in Slots /\ q # <<L, n>> /\ q = <<q[1], q[2]>>
        /\ q[1] \in 1 .. L /\ q[2] \in 1 .. Len(banks[q[1]])
        /\ p[1] \in 1 .. L /\ p = <<p[1], p[2]>> /\ L \in Nat
        /\ \A k \in 1 .. L : Len(banks[k]) \in Nat
    BY <1>1, SlotType, ElementOfSeq DEF DbInv, DbTypeOK
  <1>3. CASE cursor' = [bank |-> p[1], slot |-> p[2]]
    BY <1>2, <1>3
  <1>4. CASE /\ n = 1 /\ L > 1
             /\ cursor' = [bank |-> L - 1, slot |-> Len(banks[L - 1])]
    <2>1. q[1] # L
      <3>1. ASSUME q[1] = L  PROVE FALSE
        <4>1. q[2] \in 1 .. 1
          BY <1>1, <1>2, <1>4, <3>1
        <4> QED  BY <1>2, <1>4, <3>1, <4>1
      <3> QED  BY <3>1
    <2>2. q[1] < L - 1 \/ q[1] = L - 1
      BY <1>2, <2>1
    <2>3. CASE q[1] < L - 1
      BY <1>4, <2>3 DEF Precedes
    <2>4. CASE q[1] = L - 1
      <3>1. q[2] \in 1 .. Len(banks[L - 1]) /\ Len(banks[L - 1]) \in Nat
        BY <1>2, <2>4
      <3>2. q[2] < Len(banks[L - 1]) \/ q[2] = Len(banks[L - 1])
        BY <3>1
      <3> QED  BY <1>2, <1>4, <2>4, <3>2 DEF Precedes
    <2> QED  BY <2>2, <2>3, <2>4
  <1> QED  BY <1>1, <1>3, <1>4 DEF DeleteAt, EmptiesLastBank, bCurr

LEMMA DeleteAhead ==
  ASSUME DbInv, NEW p \in Slots, p = <<cursor.bank, cursor.slot>>, DeleteAt(p)
  PROVE  /\ Cardinality(Slots)' = Cardinality(Slots) - 1
         /\ Cardinality(Slots)' \in Nat
         /\ Cardinality(Ahead)' \in Nat /\ Cardinality(Ahead)' <= Cardinality(Ahead)
  <1>1. PICK l \in Slots : Slots' = Slots \ {l}
    BY DeleteOK DEF DbInv
  <1>2. IsFiniteSet(Slots) /\ IsFiniteSet(Ahead)
    BY FiniteSlots
  <1>3. Cardinality(Slots \ {l}) = Cardinality(Slots) - 1
    BY <1>2, FS_RemoveElement
  <1>7. Cardinality(Slots \ {l}) \in Nat
    BY <1>2, FS_RemoveElement, FS_CardinalityType
  <1>4. ASSUME NEW q \in Ahead'  PROVE q \in Ahead
    <2>1. q \in Slots' /\ q \in Slots /\ ~Passed(q)'
      BY <1>1, <1>4 DEF Ahead
    <2>2. ~(Precedes(q, p) \/ q = p)
      BY <2>1, DeleteKeepsPassed DEF Passed, Before
    <2> QED  BY <2>1, <2>2 DEF Ahead, Passed, Before
  <1>5. Ahead' \in SUBSET Ahead
    BY <1>4
  <1>6. Cardinality(Ahead') \in Nat /\ Cardinality(Ahead') <= Cardinality(Ahead)
    BY <1>2, <1>5, FS_Subset, FS_CardinalityType
  <1> QED  BY <1>1, <1>3, <1>6, <1>7

(* Writing to a client moves no record.                                    *)
LEMMA SendCurrentKeepsSlots ==
  ASSUME IInv, SendCurrent
  PROVE  Slots' = Slots
  <1>1. PICK p \in Slots : /\ p = <<cursor.bank, cursor.slot>>
                           /\ client_current = Entry(p)
    BY CurrentSlot DEF IInv, WalkInv, SendWalkInv, SendCurrent
  <1>2. CASE my_cio_low_write(Entry(p))
    <2>1. PICK failed \in BOOLEAN :
            banks' = Written(p, [Entry(p) EXCEPT !.err = failed, !.message = @ + 1])
      BY <1>1, <1>2 DEF my_cio_low_write
    <2>2. PICK new : new = [Entry(p) EXCEPT !.err = failed, !.message = @ + 1]
      OBVIOUS
    <2>3. new \in Client
      BY <2>2, OfferedType, SlotType DEF IInv, DbInv
    <2>4. banks' = Written(p, new)
      BY <2>1, <2>2
    <2>5. PICK w : w = Written(p, new)
      OBVIOUS
    <2>6. SlotsIn(w) = Slots
      BY <2>3, <2>5, WrittenOK DEF IInv, DbInv
    <2> QED  BY <2>4, <2>5, <2>6 DEF Slots
  <1>3. CASE UNCHANGED banks
    BY <1>3 DEF Slots
  <1> QED  BY <1>1, <1>2, <1>3 DEF SendCurrent

(* client_start has all the slots ahead of it, at most.                    *)
LEMMA StartAhead ==
  ASSUME DbInv, client_start
  PROVE  /\ Slots' = Slots
         /\ Cardinality(Ahead)' \in Nat /\ Cardinality(Ahead)' <= Cardinality(Slots)
  <1>1. Slots' = Slots
    BY StartInv
  <1>2. Ahead' \in SUBSET Slots
    BY <1>1 DEF Ahead
  <1> QED  BY <1>1, <1>2, FiniteSlots, FS_Subset, FS_CardinalityType

(* Each step of a walk, but its last one, brings it nearer to its end.     *)
LEMMA StepsDecrease ==
  ASSUME IInv, Walk, pc' \notin {"idle", "segv", "sigpipe"}
  PROVE  StepsLeft' \in 0 .. StepsLeft - 1
  <1> DEFINE n == Cardinality(Slots)
             a == Cardinality(Ahead)
  <1>1. n \in Nat /\ a \in Nat /\ a <= n
    BY FiniteSlots DEF IInv
  <1>2. CASE CheckNext \/ SendNext \/ ReapNext
    <2>1. Slots' = Slots /\ n' = n
      BY <1>2, NextAhead DEF CheckNext, SendNext, ReapNext, IInv
    <2>2. /\ a' \in Nat /\ a' <= a
          /\ HasCurrent' => a' = a - 1
      BY <1>2, NextAhead DEF CheckNext, SendNext, ReapNext, IInv
    <2>3. \/ pc = "check" /\ pc' = "checking" /\ HasCurrent'
          \/ pc = "send" /\ pc' = "sending" /\ HasCurrent'
          \/ pc = "send" /\ pc' = "sent"
          \/ pc = "reap" /\ pc' = "reaping" /\ HasCurrent'
      BY <1>2 DEF CheckNext, SendNext, ReapNext
    <2> HIDE DEF n, a
    <2> QED  BY <1>1, <2>1, <2>2, <2>3 DEF StepsLeft, n, a
  <1>3. CASE \/ CheckCurrent /\ CurrentExpired /\ client_del(client_current.descr)
                               /\ UNCHANGED pc
             \/ ReapCurrent /\ HasCurrent /\ client_del(client_current.descr)
                              /\ UNCHANGED pc
    <2>1. PICK p \in Slots : /\ p = <<cursor.bank, cursor.slot>>
                             /\ client_current = Entry(p)
      BY <1>3, CurrentSlot DEF IInv, CurrentExpired
    <2>2. DeleteAt(p)
      BY <1>3, <2>1, DelCurrent DEF IInv
    <2>3. n' = n - 1 /\ n' \in Nat /\ a' \in Nat /\ a' <= a
      BY <2>1, <2>2, DeleteAhead DEF IInv
    <2>4. pc' = pc /\ pc \in {"checking", "reaping"}
      BY <1>3 DEF CheckCurrent, ReapCurrent
    <2> HIDE DEF n, a
    <2> QED  BY <1>1, <2>3, <2>4 DEF StepsLeft, n, a
  <1>4. CASE /\ UNCHANGED dbVars
             /\ \/ pc = "checking" /\ pc' = "check"
                \/ pc = "reaping" /\ pc' = "reap"
    <2>1. Slots' = Slots /\ Ahead' = Ahead
      BY <1>4 DEF dbVars, Slots, Ahead, Passed, Before
    <2>2. n' = n /\ a' = a
      BY <2>1
    <2> HIDE DEF n, a
    <2> QED  BY <1>1, <1>4, <2>2 DEF StepsLeft, n, a
  <1>5. CASE pc = "sending" /\ pc' = "send"
             /\ Slots' = Slots /\ cursor' = cursor
    <2>1. Ahead' = Ahead
      BY <1>5 DEF Ahead, Passed, Before
    <2>2. n' = n /\ a' = a
      BY <1>5, <2>1
    <2> HIDE DEF n, a
    <2> QED  BY <1>1, <1>5, <2>2 DEF StepsLeft, n, a
  <1>6. CASE pc = "sent" /\ pc' = "reap" /\ client_start
    <2>1. Slots' = Slots /\ a' \in Nat /\ a' <= n
      BY <1>6, StartAhead DEF IInv
    <2>2. n' = n
      BY <2>1
    <2> HIDE DEF n, a
    <2> QED  BY <1>1, <1>6, <2>1, <2>2 DEF StepsLeft, n, a
  <1>7. CASE SendCurrent
    <2>1. pc = "sending" /\ pc' = "send" /\ cursor' = cursor
      BY <1>7 DEF SendCurrent
    <2>2. Slots' = Slots
      BY <1>7, SendCurrentKeepsSlots
    <2> QED  BY <1>5, <2>1, <2>2
  <1>8. CASE CheckCurrent
    BY <1>3, <1>4, <1>8 DEF CheckCurrent
  <1>9. CASE ReapCurrent
    BY <1>3, <1>4, <1>9 DEF ReapCurrent
  <1>10. CASE SendDone
    BY <1>6, <1>10 DEF SendDone
  <1> QED  BY <1>2, <1>7, <1>8, <1>9, <1>10 DEF Walk

(* The walks of the event loop's handlers come to an end for any number of *)
(* clients and banks: each step but the last takes one off a bound that is *)
(* a natural number (hasses.c:1203-1222, chat.c:398-426).                  *)
THEOREM StepsRunOutHolds == Spec => StepsRunOut
  <1>1. IInv /\ [Next]_vars =>
          [pc # "idle" /\ pc' \notin {"idle", "segv", "sigpipe"}
             => StepsLeft' \in 0 .. StepsLeft - 1]_vars
    <2> SUFFICES ASSUME IInv, [Next]_vars, vars' # vars, pc # "idle",
                        pc' \notin {"idle", "segv", "sigpipe"}
                 PROVE  StepsLeft' \in 0 .. StepsLeft - 1
      OBVIOUS
    <2>1. Walk
      BY DEF Next, Accept, ReadEvent, CloseClient, Count, checkTimeouts,
             sendmessages
    <2> QED  BY <2>1, StepsDecrease
  <1> QED  BY <1>1, Invariance, PTL DEF Spec, StepsRunOut

-----------------------------------------------------------------------------
(***************************************************************************)
(* The end of the clean-up at NULL.                                        *)
(***************************************************************************)

(* A deletion after which the cursor is on no record has taken the last    *)
(* one of all away: every other one is behind the cursor.                  *)
LEMMA DeleteAtEnd ==
  ASSUME DbInv, NEW p \in Slots, DeleteAt(p), ~HasCurrent', NEW q \in Slots'
  PROVE  Precedes(q, <<cursor'.bank, cursor'.slot>>)
  <1>1. PICK L, n :
          /\ L = Len(banks) /\ n = Len(banks[L])
          /\ DbTypeOK' /\ BanksPacked' /\ CursorOnLiveBank'
          /\ <<L, n>> \in Slots
          /\ Slots' = Slots \ {<<L, n>>}
    BY DeleteOK DEF DbInv
  <1>2. /\ q \in Slots /\ q # <<L, n>> /\ q = <<q[1], q[2]>>
        /\ q[1] \in 1 .. L /\ q[2] \in 1 .. Len(banks[q[1]])
        /\ p[1] \in 1 .. L /\ p[2] \in 1 .. Len(banks[p[1]])
        /\ p = <<p[1], p[2]>> /\ L \in Nat
        /\ \A k \in 1 .. L : Len(banks[k]) \in Nat
    BY <1>1, SlotType, ElementOfSeq DEF DbInv, DbTypeOK
  <1>3. <<cursor'.bank, cursor'.slot>> \notin Slots'
    <2> SUFFICES ASSUME NEW r \in Slots', r = <<cursor'.bank, cursor'.slot>>
                 PROVE  FALSE
      OBVIOUS
    <2>1. r[1] = cursor'.bank /\ r[2] = cursor'.slot
      OBVIOUS
    <2>2. r[2] \in 1 .. Len(banks'[r[1]])
      <3>1. PICK k \in 1 .. Len(banks') : \E i \in 1 .. Len(banks'[k]) : r = <<k, i>>
        BY SlotsDef DEF Slots
      <3> QED  BY <3>1
    <2> QED  BY <2>1, <2>2 DEF HasCurrent
  <1>4. CASE cursor' = [bank |-> p[1], slot |-> p[2]]
    <2>1. p = <<L, n>>
      BY <1>1, <1>2, <1>3, <1>4
    <2>2. q[1] # L \/ q[2] # n
      BY <1>2
    <2>3. q[1] = L => q[2] \in 1 .. n /\ n \in Nat
      BY <1>1, <1>2
    <2>4. Precedes(q, <<L, n>>)
      BY <1>2, <2>2, <2>3 DEF Precedes
    <2> QED  BY <1>4, <2>1, <2>4
  <1>5. CASE /\ n = 1 /\ L > 1
             /\ cursor' = [bank |-> L - 1, slot |-> Len(banks[L - 1])]
    <2>1. /\ L - 1 \in 1 .. L /\ L - 1 \in 1 .. Len(banks) - 1
      BY <1>1, <1>2, <1>5
    <2>2. Len(banks[L - 1]) = BANKSIZE /\ BANKSIZE \in Nat /\ BANKSIZE > 0
      BY <2>1, BankAssumption DEF DbInv, BanksPacked
    <2>3. <<L - 1, Len(banks[L - 1])>> \in Slots
      BY <1>1, <2>1, <2>2, SlotIntro DEF DbInv, Slots
    <2>4. <<L - 1, Len(banks[L - 1])>> # <<L, n>>
      BY <1>2
    <2> QED  BY <1>1, <1>3, <1>5, <2>3, <2>4
  <1> QED  BY <1>1, <1>4, <1>5 DEF DeleteAt, EmptiesLastBank, bCurr

(* When the cursor of the clean-up is on no record nothing is ahead of it. *)
NullAtEnd ==
  /\ pc = "reaping" /\ ~HasCurrent => \A q \in Slots : Before(q)
  /\ CleanUpDoneAtNull

LEMMA NextNullAtEnd ==
  ASSUME IInv, NullAtEnd, [Next]_vars
  PROVE  NullAtEnd'
  <1>1. CASE /\ ReapCurrent /\ HasCurrent
             /\ client_del(client_current.descr) /\ pc' = pc
    <2>1. PICK p \in Slots : client_current = Entry(p)
      BY <1>1, CurrentSlot DEF IInv
    <2>2. DeleteAt(p)
      BY <1>1, <2>1, DelCurrent DEF IInv
    <2>3. ~HasCurrent' => \A q \in Slots' : Before(q)'
      BY <2>2, DeleteAtEnd DEF IInv, Before
    <2> QED  BY <1>1, <2>3 DEF ReapCurrent, NullAtEnd, CleanUpDoneAtNull
  <1>2. CASE ReapCurrent /\ ~HasCurrent /\ pc' = "segv" /\ UNCHANGED dbVars
    <2>1. \A q \in Slots : ~Entry(q).err
      BY <1>2 DEF IInv, WalkInv, ReapWalkInv, NullAtEnd, ReapCurrent
    <2>2. members = {m \in atStart : ~m.err}
      <3>1. \A m \in members : m \in atStart /\ ~m.err
        BY <1>2, <2>1 DEF members, IInv, WalkInv, ReapWalkInv, ReapCurrent
      <3>2. \A m \in atStart : ~m.err => m \in members
        BY <1>2 DEF IInv, WalkInv, ReapWalkInv, ReapCurrent
      <3> QED  BY <3>1, <3>2
    <2>3. members' = members /\ atStart' = atStart
      BY <1>2 DEF ReapCurrent, dbVars, members, Slots, Entry
    <2> QED  BY <1>2, <2>2, <2>3 DEF NullAtEnd, CleanUpDoneAtNull
  <1>3. CASE ReapNext
    <2>1. pc' = "reaping" => HasCurrent'
      BY <1>3 DEF ReapNext
    <2>2. pc' # "segv"
      BY <1>3 DEF ReapNext
    <2> QED  BY <2>1, <2>2 DEF NullAtEnd, CleanUpDoneAtNull
  <1>4. CASE UNCHANGED vars
    BY <1>4 DEF vars, dbVars, NullAtEnd, CleanUpDoneAtNull, HasCurrent, Before,
                members, Slots, Entry
  <1>5. CASE pc' \notin {"reaping", "segv"}
    BY <1>5 DEF NullAtEnd, CleanUpDoneAtNull
  <1>6. ReapNext \/ ReapCurrent \/ UNCHANGED vars \/ pc' \notin {"reaping", "segv"}
    BY DEF Next, Walk, Accept, ReadEvent, CloseClient, Count, checkTimeouts,
           sendmessages, CheckNext, CheckCurrent, SendNext, SendCurrent, SendDone
  <1> QED  BY <1>1, <1>2, <1>3, <1>4, <1>5, <1>6 DEF ReapCurrent

(* When the clean-up of sendmessages reads NULL (chat.c:420) it has closed *)
(* the clients with the error mark, all of them and no other.              *)
THEOREM CleanUpDoneAtNullHolds == Spec => []CleanUpDoneAtNull
  <1>1. Init => NullAtEnd
    BY DEF Init, NullAtEnd, CleanUpDoneAtNull
  <1>2. IInv /\ NullAtEnd /\ [Next]_vars => NullAtEnd'
    BY NextNullAtEnd
  <1>3. NullAtEnd => CleanUpDoneAtNull
    BY DEF NullAtEnd
  <1> QED  BY <1>1, <1>2, <1>3, Invariance, PTL DEF Spec
=============================================================================
