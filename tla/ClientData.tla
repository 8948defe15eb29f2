----------------------------- MODULE ClientData ------------------------------
(***************************************************************************)
(* The client database of hasses (cdata.c).  Connected SSE clients live in *)
(* a linked list of banks, arrays of BANKSIZE records.  A record is added  *)
(* after the last one; a deleted record is overwritten by the last one,    *)
(* and a last bank that becomes empty is unlinked and freed.  The handlers *)
(* walk the database with one global cursor, which every operation moves.  *)
(*                                                                         *)
(* banks[k] is the used part clis[0 .. next-1] of the k-th bank, so the    *)
(* slot i of a bank is the C index i-1; bFirst is bank 1 and bCurr bank    *)
(* Len(banks).  A slot 0 is the C value -1, "before the first record".     *)
(***************************************************************************)
EXTENDS Integers, Sequences

CONSTANTS
  Fd,          (* The socket descriptors the kernel may hand out           *)
  BANKSIZE     (* Records in one bank                                      *)

ASSUME BankAssumption == BANKSIZE \in Nat \ {0}

VARIABLES
  banks,       (* The list of banks                                        *)
  cursor       (* The global cursor: a bank and a slot of it               *)

dbVars == <<banks, cursor>>

(***************************************************************************)
(* The fields of struct CliConn that the walks over the database read or   *)
(* write: the descriptor, the status (COMM once the stream has started,    *)
(* NEW for all that comes before), the write error mark, and the counter   *)
(* of messages.                                                            *)
(***************************************************************************)
Client ==
  [descr : Fd, status : {"NEW", "COMM"}, err : BOOLEAN, message : Nat]

NewClient(fd) ==
  [descr |-> fd, status |-> "NEW", err |-> FALSE, message |-> 0]

Cursor == [bank : Nat \ {0}, slot : Nat]

bCurr == Len(banks)

(* The slots in use in a list of banks, as pairs of a bank and an index.   *)
SlotsIn(list) == UNION {{k} \X (1 .. Len(list[k])) : k \in 1 .. Len(list)}

Slots == SlotsIn(banks)

Entry(p) == banks[p[1]][p[2]]

members == {Entry(p) : p \in Slots}

Descrs == {m.descr : m \in members}

Precedes(p, q) == p[1] < q[1] \/ (p[1] = q[1] /\ p[2] < q[2])

-----------------------------------------------------------------------------
(***************************************************************************)
(* The operations of cdata.c.                                              *)
(***************************************************************************)

client_init ==
  /\ banks = << << >> >>
  /\ cursor = [bank |-> 1, slot |-> 0]

client_start ==
  /\ cursor' = [bank |-> 1, slot |-> 0]
  /\ UNCHANGED banks

(* client_current() returns a record: it is not NULL.                      *)
HasCurrent == cursor.slot \in 1 .. Len(banks[cursor.bank])

client_current == banks[cursor.bank][cursor.slot]

(* Mutant of client_next: the first record of a further bank is skipped.   *)
client_next_skips ==
  /\ LET k == cursor.bank
         i == cursor.slot
     IN  cursor' = IF i + 1 <= Len(banks[k]) \/ k = bCurr
                     THEN [bank |-> k, slot |-> i + 1]
                     ELSE [bank |-> k + 1, slot |-> 2]
  /\ UNCHANGED banks

(* client_next() returns NULL exactly when HasCurrent is false after it.   *)
client_next ==
  /\ LET k == cursor.bank
         i == cursor.slot
     IN  cursor' = IF i + 1 <= Len(banks[k]) \/ k = bCurr
                     THEN [bank |-> k, slot |-> i + 1]
                     ELSE [bank |-> k + 1,
                           slot |-> IF banks[k + 1] = << >> THEN i + 1 ELSE 1]
  /\ UNCHANGED banks

(* The whole walk of a function that only counts or lists the clients:     *)
(* client_start, and client_next until it returns NULL.                    *)
client_walked ==
  /\ cursor' = [bank |-> bCurr, slot |-> Len(banks[bCurr]) + 1]
  /\ UNCHANGED banks

(* The record client_get(fd) finds: the first one with that descriptor.    *)
FoundAt(p, fd) ==
  /\ Entry(p).descr = fd
  /\ \A q \in Slots : Precedes(q, p) => Entry(q).descr # fd

client_get(fd) ==
  /\ \/ /\ fd \notin Descrs
        /\ cursor' = [bank |-> 1, slot |-> 0]
     \/ \E p \in Slots :
          /\ FoundAt(p, fd)
          /\ cursor' = [bank |-> p[1], slot |-> p[2]]
  /\ UNCHANGED banks

(* Mutant of client_add: a bank takes one record more than it has room for.*)
client_add_past_end(c) ==
  \/ /\ Len(banks[bCurr]) <= BANKSIZE
     /\ banks' = [banks EXCEPT ![bCurr] = Append(@, c)]
     /\ cursor' = [bank |-> bCurr, slot |-> Len(banks[bCurr]) + 1]
  \/ /\ Len(banks[bCurr]) > BANKSIZE
     /\ banks' = Append(banks, <<c>>)
     /\ cursor' = [bank |-> bCurr + 1, slot |-> 1]

client_add(c) ==
  \/ /\ Len(banks[bCurr]) < BANKSIZE
     /\ banks' = [banks EXCEPT ![bCurr] = Append(@, c)]
     /\ cursor' = [bank |-> bCurr, slot |-> Len(banks[bCurr]) + 1]
  \/ /\ Len(banks[bCurr]) >= BANKSIZE
     /\ banks' = Append(banks, <<c>>)
     /\ cursor' = [bank |-> bCurr + 1, slot |-> 1]

(* Mutant of Overwritten: the last record of the same bank is taken.       *)
Overwritten_same_bank(p) ==
  [banks EXCEPT ![p[1]] = [@ EXCEPT ![p[2]] = banks[p[1]][Len(banks[p[1]])]]]

(* The memcpy of the last record over the deleted one at slot p.           *)
Overwritten(p) ==
  [banks EXCEPT ![p[1]] = [@ EXCEPT ![p[2]] = banks[bCurr][Len(banks[bCurr])]]]

(* Whether client_del unlinks the last bank, which is not the first one.   *)
EmptiesLastBank == Len(banks[bCurr]) = 1 /\ bCurr > 1

(* Mutant of DeleteAt: the last record is copied but stays where it was.   *)
DeleteAt_keeps_last(p) ==
  \/ /\ ~EmptiesLastBank
     /\ banks' = Overwritten(p)
     /\ cursor' = [bank |-> p[1], slot |-> p[2]]
  \/ /\ EmptiesLastBank
     /\ banks' = SubSeq(Overwritten(p), 1, bCurr - 1)
     /\ cursor' = IF p[1] = bCurr
                    THEN [bank |-> bCurr - 1, slot |-> Len(banks[bCurr - 1])]
                    ELSE [bank |-> p[1], slot |-> p[2]]

(* Mutant of DeleteAt: the cursor stays on the bank that is freed.         *)
DeleteAt_keeps_cursor(p) ==
  /\ cursor' = [bank |-> p[1], slot |-> p[2]]
  /\ banks' = IF EmptiesLastBank
                THEN SubSeq(Overwritten(p), 1, bCurr - 1)
                ELSE [Overwritten(p) EXCEPT ![bCurr] = SubSeq(@, 1, Len(@) - 1)]

DeleteAt(p) ==
  \/ /\ ~EmptiesLastBank
     /\ banks' = [Overwritten(p) EXCEPT ![bCurr] = SubSeq(@, 1, Len(@) - 1)]
     /\ cursor' = [bank |-> p[1], slot |-> p[2]]
  \/ /\ EmptiesLastBank
     /\ banks' = SubSeq(Overwritten(p), 1, bCurr - 1)
     /\ cursor' = IF p[1] = bCurr
                    THEN [bank |-> bCurr - 1, slot |-> Len(banks[bCurr - 1])]
                    ELSE [bank |-> p[1], slot |-> p[2]]

client_del(fd) ==
  \/ /\ fd \notin Descrs
     /\ client_get(fd)
  \/ \E p \in Slots : FoundAt(p, fd) /\ DeleteAt(p)

(* A handler writes the fields of the record the cursor is at.             *)
Written(p, c) == [banks EXCEPT ![p[1]] = [@ EXCEPT ![p[2]] = c]]

-----------------------------------------------------------------------------
(***************************************************************************)
(* The invariants of the database.                                         *)
(***************************************************************************)

(* Type correctness of the database and its cursor. *)
DbTypeOK ==
  /\ banks \in Seq(Seq(Client))
  /\ cursor \in Cursor

(* Every bank but the last is full and none is empty but the only one: the *)
(* record that client_del moves and the place where client_add puts one    *)
(* are really at the end, and client_next, which goes one bank further at  *)
(* most, never meets an empty bank before the end of the list.             *)
BanksPacked ==
  /\ Len(banks) >= 1
  /\ \A k \in 1 .. Len(banks) : Len(banks[k]) <= BANKSIZE
  /\ \A k \in 1 .. (Len(banks) - 1) : Len(banks[k]) = BANKSIZE
  /\ Len(banks) > 1 => Len(banks[Len(banks)]) > 0

(* A descriptor is in one slot at most, so that client_get, which stops at *)
(* the first match, always returns the record of the connection it is      *)
(* asked for, whatever deletions have moved it.                            *)
OneSlotPerDescr ==
  \A p, q \in Slots : Entry(p).descr = Entry(q).descr => p = q

(* The cursor is always on a bank of the list, never on one client_del has *)
(* freed: client_current and client_next dereference its bank unchecked.   *)
CursorOnLiveBank == cursor.bank \in 1 .. Len(banks)
=============================================================================
