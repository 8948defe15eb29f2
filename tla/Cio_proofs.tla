----------------------------- MODULE Cio_proofs ------------------------------
(***************************************************************************)
(* What is pending in out_bio, for any size of out_buffer, any flight of   *)
(* the server and any lengths that are written later.                      *)
(*                                                                         *)
(* The peer ends its part of the handshake only when it has the whole      *)
(* flight; so nothing is pending any more when something else is put into  *)
(* out_bio, and one call is enough for that.                               *)
(***************************************************************************)
EXTENDS Cio, FiniteSetTheorems, FunctionTheorems, TLAPS

Phase ==
  /\ pc = "read" => ssl = "over"
  /\ pc = "accept" => ssl # "over"
  /\ served > 0 => ssl = "over"

(* Some record is of those that come behind the flight. *)
Late == {"finished", "data"}
LateIn(s) == \E i \in 1 .. Len(s) : s[i] \in Late

(* The peer's end of the handshake comes after the flight. *)
Order ==
  /\ LateIn(inBio) \/ LateIn(net) => sent["finished"] > 0
  /\ sent["finished"] > 0 => ssl \in {"finished", "over"}

Pending ==
  /\ ssl \in {"hello", "failed"} => written = 0
  /\ ssl \in {"hello", "over"} => outBio = 0
  /\ ssl = "over" => written >= flight
  /\ ssl = "finished" =>
       /\ outBio + written = flight
       /\ pc = "idle" /\ flight <= MAX_READ_SIZE => outBio = 0
       /\ sent["finished"] > 0 => outBio = 0

Left ==
  /\ DataIn(inBio) <= IF pc = "idle" THEN together ELSE together + 1
  /\ pc = "idle" /\ DataIn(inBio) > 0 => served > 0

(* Every data record is in one place. *)
Kept == served + DataIn(inBio) + DataIn(net) = sent["data"]

Has(s, r) == \E i \in 1 .. Len(s) : s[i] = r

(* What the peer has sent is on its way to SSL, or SSL has gone on. *)
Due ==
  /\ net # <<>> => edge
  /\ pc = "idle" /\ ssl \in {"hello", "finished"} => inBio = <<>>
  /\ sent["hello"] > 0 => ssl # "hello" \/ Has(inBio, "hello") \/ Has(net, "hello")
  /\ sent["finished"] > 0 =>
       ssl = "over" \/ Has(inBio, "finished") \/ Has(net, "finished")

IInv == TypeOK /\ Phase /\ Order /\ Pending /\ Left /\ Kept /\ Due

-----------------------------------------------------------------------------
(* Counting the data records of a sequence.                                *)

LEMMA DataInType ==
  ASSUME NEW s \in Seq(Record)
  PROVE  IsFiniteSet({i \in DOMAIN s : s[i] = "data"}) /\ DataIn(s) \in Nat
<1> DEFINE D == {i \in DOMAIN s : s[i] = "data"}
<1>1. DOMAIN s = 1 .. Len(s) /\ Len(s) \in Int /\ D \in SUBSET (DOMAIN s)
  OBVIOUS
<1>2. IsFiniteSet(1 .. Len(s))
  BY <1>1, FS_Interval
<1> HIDE DEF D
<1>3. IsFiniteSet(D)
  BY <1>1, <1>2, FS_Subset
<1>4. Cardinality(D) \in Nat
  BY <1>3, FS_CardinalityType
<1> QED  BY <1>3, <1>4 DEF D, DataIn

(* Moving a set of numbers along keeps its size. *)
LEMMA Moved ==
  ASSUME NEW S, S \subseteq Nat, IsFiniteSet(S), NEW k \in Nat
  PROVE  /\ IsFiniteSet({i + k : i \in S})
         /\ Cardinality({i + k : i \in S}) = Cardinality(S)
<1> DEFINE T == {i + k : i \in S}
           f == [i \in S |-> i + k]
<1>1. f \in [S -> T] /\ \A i \in S : f[i] = i + k
  OBVIOUS
<1>2. \A i, j \in S : f[i] = f[j] => i = j
  BY <1>1
<1>3. \A t \in T : \E i \in S : f[i] = t
  BY <1>1
<1> HIDE DEF T, f
<1>4. f \in Bijection(S, T)
  BY <1>1, <1>2, <1>3, Fun_IsBij
<1>5. IsFiniteSet(T) /\ Cardinality(T) = Cardinality(S)
  BY <1>4, FS_Bijection DEF ExistsBijection
<1> QED  BY <1>5 DEF T

LEMMA DataInCat ==
  ASSUME NEW s \in Seq(Record), NEW t \in Seq(Record)
  PROVE  DataIn(s \o t) = DataIn(s) + DataIn(t)
<1> DEFINE A == {i \in DOMAIN s : s[i] = "data"}
           B == {i \in DOMAIN t : t[i] = "data"}
           C == {i + Len(s) : i \in B}
           D == {i \in DOMAIN (s \o t) : (s \o t)[i] = "data"}
<1>1. /\ Len(s) \in Nat /\ Len(t) \in Nat
      /\ DOMAIN s = 1 .. Len(s) /\ DOMAIN t = 1 .. Len(t)
      /\ DOMAIN (s \o t) = 1 .. Len(s) + Len(t)
      /\ \A i \in 1 .. Len(s) + Len(t) :
           (s \o t)[i] = IF i <= Len(s) THEN s[i] ELSE t[i - Len(s)]
  OBVIOUS
<1>2. IsFiniteSet(A) /\ Cardinality(A) \in Nat
  BY DataInType DEF DataIn
<1>3. IsFiniteSet(B) /\ Cardinality(B) \in Nat /\ B \subseteq Nat
  BY <1>1, DataInType DEF DataIn
<1>4. IsFiniteSet(C) /\ Cardinality(C) = Cardinality(B)
  <2> HIDE DEF B
  <2> QED  BY <1>1, <1>3, Moved
<1>5. D = A \union C
  <2>1. ASSUME NEW i \in D PROVE i \in A \union C
    <3>1. CASE i <= Len(s)
      BY <1>1, <3>1
    <3>2. CASE ~(i <= Len(s))
      <4>1. i - Len(s) \in B /\ i = (i - Len(s)) + Len(s)
        BY <1>1, <3>2
      <4> QED  BY <4>1
    <3> QED  BY <3>1, <3>2
  <2>2. ASSUME NEW i \in A PROVE i \in D
    BY <1>1
  <2>3. ASSUME NEW j \in B PROVE j + Len(s) \in D
    <3>1. j \in 1 .. Len(t) /\ t[j] = "data"
      BY <1>1
    <3>2. /\ j + Len(s) \in 1 .. Len(s) + Len(t) /\ ~(j + Len(s) <= Len(s))
          /\ (j + Len(s)) - Len(s) = j
      BY <1>1, <3>1
    <3> QED  BY <1>1, <3>1, <3>2
  <2> QED  BY <2>1, <2>2, <2>3
<1>6. A \intersect C = {}
  BY <1>1
<1>7. /\ DataIn(s \o t) = Cardinality(D) /\ DataIn(s) = Cardinality(A)
      /\ DataIn(t) = Cardinality(B)
  BY DEF DataIn
<1> HIDE DEF A, B, C, D
<1>8. Cardinality(A \union C) = Cardinality(A) + Cardinality(C) - 0
  BY <1>2, <1>4, <1>6, FS_Union, FS_EmptySet
<1> QED  BY <1>2, <1>3, <1>4, <1>5, <1>7, <1>8

LEMMA DataInOne ==
  ASSUME NEW r \in Record
  PROVE  DataIn(<<r>>) = IF r = "data" THEN 1 ELSE 0
<1>1. CASE r = "data"
  <2>1. {i \in DOMAIN <<r>> : <<r>>[i] = "data"} = {1}
    BY <1>1
  <2> QED  BY <1>1, <2>1, FS_Singleton DEF DataIn
<1>2. CASE r # "data"
  <2>1. {i \in DOMAIN <<r>> : <<r>>[i] = "data"} = {}
    BY <1>2
  <2> QED  BY <1>2, <2>1, FS_EmptySet DEF DataIn
<1> QED  BY <1>1, <1>2

LEMMA DataInTail ==
  ASSUME NEW s \in Seq(Record), s # <<>>
  PROVE  DataIn(Tail(s)) = IF Head(s) = "data" THEN DataIn(s) - 1 ELSE DataIn(s)
<1>1. /\ Tail(s) \in Seq(Record) /\ Head(s) \in Record
      /\ <<Head(s)>> \in Seq(Record) /\ s = <<Head(s)>> \o Tail(s)
  OBVIOUS
<1>2. DataIn(s) = DataIn(<<Head(s)>>) + DataIn(Tail(s))
  BY <1>1, DataInCat
<1>3. DataIn(Tail(s)) \in Nat /\ DataIn(<<Head(s)>>) \in Nat
  BY <1>1, DataInType
<1>4. DataIn(<<Head(s)>>) = IF Head(s) = "data" THEN 1 ELSE 0
  BY <1>1, DataInOne
<1> QED  BY <1>2, <1>3, <1>4

LEMMA DataInEmpty == DataIn(<<>>) = 0
<1>1. {i \in DOMAIN <<>> : <<>>[i] = "data"} = {}
  OBVIOUS
<1> QED  BY <1>1, FS_EmptySet DEF DataIn

-----------------------------------------------------------------------------

LEMMA Sizes ==
  /\ MAX_READ_SIZE \in Nat /\ MAX_READ_SIZE > 0
  /\ \A f \in Flights : f \in Nat /\ f > 0
  /\ \A n \in Writes : n \in Nat /\ n <= MAX_READ_SIZE
  BY SizeAssumption

(* What one call of write_outbio_pending_to_low does. *)
LEMMA FlushedFacts ==
  ASSUME TypeOK, NEW n \in Nat, Flushed(n)
  PROVE  /\ outBio' \in Nat /\ written' \in Nat
         /\ outBio' + written' = n + written
         /\ written' >= written
         /\ n <= MAX_READ_SIZE => outBio' = 0
  BY Sizes DEF Flushed, TypeOK

(* What SSL consumes leaves records of the connection behind. *)
LEMMA ConsumedFacts ==
  ASSUME TypeOK, NEW r, Consumed(r)
  PROVE  /\ inBio' \in Seq(Record)
         /\ LateIn(inBio)' => LateIn(inBio)
         /\ r \in Late => LateIn(inBio)
<1>1. /\ inBio \in Seq(Record) /\ inBio # <<>> /\ inBio[1] = r
      /\ inBio' = Tail(inBio) /\ Len(inBio) \in Nat /\ Len(inBio) > 0
  BY DEF Consumed, TypeOK
<1>2. /\ Tail(inBio) \in Seq(Record) /\ Len(Tail(inBio)) = Len(inBio) - 1
      /\ \A i \in 1 .. Len(inBio) - 1 : Tail(inBio)[i] = inBio[i + 1]
  BY <1>1
<1>3. LateIn(inBio)' => LateIn(inBio)
  <2> SUFFICES ASSUME NEW i \in 1 .. Len(inBio) - 1, inBio[i + 1] \in Late
               PROVE  LateIn(inBio)
    BY <1>1, <1>2 DEF LateIn
  <2>1. i + 1 \in 1 .. Len(inBio)
    BY <1>1
  <2> QED  BY <2>1 DEF LateIn
<1>4. r \in Late => LateIn(inBio)
  BY <1>1 DEF LateIn
<1> QED  BY <1>1, <1>2, <1>3, <1>4

LEMMA ConsumedCount ==
  ASSUME TypeOK, NEW r, Consumed(r)
  PROVE  /\ DataIn(inBio) \in Nat /\ DataIn(inBio)' \in Nat
         /\ DataIn(net) \in Nat
         /\ DataIn(inBio)' = IF r = "data" THEN DataIn(inBio) - 1 ELSE DataIn(inBio)
<1>1. /\ inBio \in Seq(Record) /\ inBio # <<>> /\ Head(inBio) = r
      /\ inBio' = Tail(inBio) /\ Tail(inBio) \in Seq(Record)
  BY DEF Consumed, TypeOK
<1>2. DataIn(inBio)' = DataIn(Tail(inBio))
  BY <1>1 DEF DataIn
<1>3. DataIn(net) \in Nat
  BY DataInType DEF TypeOK
<1> QED  BY <1>1, <1>2, <1>3, DataInType, DataInTail

(* A step that moves no data record. *)
LEMMA KeptStays ==
  ASSUME Kept, UNCHANGED <<sent, net, served>>, DataIn(inBio)' = DataIn(inBio)
  PROVE  Kept'
<1>1. DataIn(net)' = DataIn(net)
  BY DEF DataIn
<1> QED  BY <1>1 DEF Kept

(* A step that moves no record and does not become idle in the handshake.  *)
LEMMA DueStays ==
  ASSUME Due, UNCHANGED <<sent, net, edge, inBio>>, ssl' = ssl,
         pc' # "idle" \/ ssl = "over" \/ inBio = <<>>
  PROVE  Due'
  BY DEF Due, Has

LEMMA PeerSendsKeeps ==
  ASSUME IInv, NEW r \in Record, PeerSends(r),
         r = "finished" => written >= flight,
         r = "data" => sent["finished"] = 1
  PROVE  IInv'
<1> USE Sizes DEF IInv
<1> PICK s : s = [sent EXCEPT ![r] = @ + 1]
  OBVIOUS
<1>1. /\ sent' = s /\ net' = Append(net, r) /\ edge' = TRUE
      /\ UNCHANGED <<inBio, outBio, written, flight, ssl, pc, served, together>>
  BY DEF PeerSends
<1>2. /\ s \in [Record -> Nat]
      /\ r = "finished" => s["finished"] > 0
      /\ r # "finished" => s["finished"] = sent["finished"]
      /\ sent["finished"] > 0 => s["finished"] > 0
  <2>1. "finished" \in Record
    BY DEF Record
  <2> QED  BY <2>1 DEF TypeOK
<1>3. TypeOK'
  <2>1. net' \in Seq(Record)
    BY <1>1 DEF TypeOK
  <2> QED  BY <2>1, <1>1, <1>2 DEF TypeOK
<1>4. Phase'
  BY <1>1 DEF Phase
<1>5. r = "finished" => ssl \in {"finished", "over"} /\ (ssl = "finished" => outBio = 0)
  BY DEF Pending, TypeOK
<1>6. Order'
  <2>1. LateIn(net)' => r \in Late \/ LateIn(net)
    <3>1. /\ net \in Seq(Record) /\ Len(net) \in Nat
          /\ Len(Append(net, r)) = Len(net) + 1
          /\ \A i \in 1 .. Len(net) : Append(net, r)[i] = net[i]
          /\ Append(net, r)[Len(net) + 1] = r
      BY DEF TypeOK
    <3> SUFFICES ASSUME NEW i \in 1 .. Len(net) + 1, Append(net, r)[i] \in Late,
                        r \notin Late
                 PROVE  LateIn(net)
      BY <1>1, <3>1 DEF LateIn
    <3>2. i \in 1 .. Len(net)
      BY <3>1
    <3> QED  BY <3>1, <3>2 DEF LateIn
  <2>2. LateIn(inBio)' <=> LateIn(inBio)
    BY <1>1 DEF LateIn
  <2> QED  BY <2>1, <2>2, <1>1, <1>2, <1>5 DEF Order, Late
<1>7. Pending'
  BY <1>1, <1>2, <1>5 DEF Pending
<1>8. Left'
  BY <1>1 DEF Left, DataIn
<1>9. Kept'
  <2>1. /\ net \in Seq(Record) /\ <<r>> \in Seq(Record)
        /\ Append(net, r) = net \o <<r>>
    BY DEF TypeOK
  <2>2. DataIn(Append(net, r)) = DataIn(net) + IF r = "data" THEN 1 ELSE 0
    BY <2>1, DataInCat, DataInOne
  <2>3. DataIn(net)' = DataIn(Append(net, r)) /\ DataIn(inBio)' = DataIn(inBio)
    BY <1>1 DEF DataIn
  <2>4. DataIn(net) \in Nat /\ DataIn(inBio) \in Nat /\ served \in Nat
    BY DataInType DEF TypeOK
  <2>5. s["data"] = sent["data"] + IF r = "data" THEN 1 ELSE 0
    <3>1. "data" \in Record
      BY DEF Record
    <3> QED  BY <3>1 DEF TypeOK
  <2>6. sent'["data"] = s["data"] /\ served' = served
    BY <1>1
  <2>7. sent["data"] \in Nat /\ served + DataIn(inBio) + DataIn(net) = sent["data"]
    BY <2>4 DEF TypeOK, Record, Kept
  <2> QED  BY <2>2, <2>3, <2>4, <2>5, <2>6, <2>7 DEF Kept
<1>10. Due'
  <2>1. /\ net \in Seq(Record) /\ Len(net) \in Nat
        /\ Len(Append(net, r)) = Len(net) + 1
        /\ \A i \in 1 .. Len(net) : Append(net, r)[i] = net[i]
        /\ Append(net, r)[Len(net) + 1] = r
    BY DEF TypeOK
  <2>2. \A k \in Record : k = r \/ Has(net, k) => Has(Append(net, r), k)
    BY <2>1 DEF Has
  <2>3. \A k \in Record : (Has(net, k) => Has(net', k)) /\ (k = r => Has(net', k))
    BY <2>2, <1>1
  <2>4. \A k \in Record : sent'[k] = IF k = r THEN sent[k] + 1 ELSE sent[k]
    BY <1>1 DEF TypeOK
  <2>5. "hello" \in Record /\ "finished" \in Record
    BY DEF Record
  <2>6. edge' /\ UNCHANGED <<inBio, ssl, pc>>
    BY <1>1
  <2>7. /\ Has(inBio, "hello")' <=> Has(inBio, "hello")
        /\ Has(inBio, "finished")' <=> Has(inBio, "finished")
    BY <2>6 DEF Has
  <2>8. /\ Has(net, "hello") \/ r = "hello" => Has(net, "hello")'
        /\ Has(net, "finished") \/ r = "finished" => Has(net, "finished")'
    BY <2>3, <2>5 DEF Has
  <2> QED  BY <2>4, <2>5, <2>6, <2>7, <2>8 DEF Due
<1> QED  BY <1>3, <1>4, <1>6, <1>7, <1>8, <1>9, <1>10

LEMMA ReadKeeps ==
  ASSUME IInv, cio_low_read
  PROVE  IInv'
<1> USE Sizes DEF IInv
<1>1. /\ pc = "idle" /\ edge' = FALSE /\ net' = <<>> /\ inBio' = inBio \o net
      /\ together' = IF DataIn(net) > 1 THEN together + DataIn(net) - 1 ELSE together
      /\ pc' = IF ssl = "over" THEN "read" ELSE "accept"
      /\ UNCHANGED <<sent, outBio, written, flight, ssl, served>>
  BY DEF cio_low_read
<1>2. /\ inBio \in Seq(Record) /\ net \in Seq(Record)
      /\ Len(inBio) \in Nat /\ Len(net) \in Nat
  BY DEF TypeOK
<1>3. TypeOK'
  <2>1. together' \in Nat
    <3>1. DataIn(net) \in Nat
      BY <1>2, DataInType
    <3> QED  BY <3>1, <1>1 DEF TypeOK
  <2>2. pc' \in {"idle", "accept", "read"} /\ edge' \in BOOLEAN
    BY <1>1
  <2>3. net' \in Seq(Record) /\ inBio' \in Seq(Record)
    BY <1>1, <1>2
  <2>4. UNCHANGED <<sent, outBio, written, flight, ssl, served>>
    BY <1>1
  <2> QED  BY <2>1, <2>2, <2>3, <2>4 DEF TypeOK
<1>4. Phase'
  BY <1>1 DEF Phase
<1>5. Order'
  <2>1. LateIn(inBio)' => LateIn(inBio) \/ LateIn(net)
    <3>1. /\ Len(inBio \o net) = Len(inBio) + Len(net)
          /\ \A i \in 1 .. Len(inBio) + Len(net) :
               (inBio \o net)[i] = IF i <= Len(inBio) THEN inBio[i] ELSE net[i - Len(inBio)]
      BY <1>2
    <3> SUFFICES ASSUME NEW i \in 1 .. Len(inBio) + Len(net),
                        (inBio \o net)[i] \in Late
                 PROVE  LateIn(inBio) \/ LateIn(net)
      BY <1>1, <3>1 DEF LateIn
    <3>2. CASE i <= Len(inBio)
      BY <3>1, <3>2, <1>2 DEF LateIn
    <3>3. CASE i > Len(inBio)
      <4>1. i - Len(inBio) \in 1 .. Len(net) /\ net[i - Len(inBio)] \in Late
        BY <3>1, <3>3, <1>2
      <4> QED  BY <4>1 DEF LateIn
    <3> QED  BY <3>2, <3>3, <1>2
  <2>2. ~LateIn(net)'
    BY <1>1 DEF LateIn
  <2> QED  BY <2>1, <2>2, <1>1 DEF Order
<1>6. Pending'
  BY <1>1 DEF Pending
<1>7. Left'
  <2>1. /\ DataIn(inBio) \in Nat /\ DataIn(net) \in Nat /\ together \in Nat
        /\ DataIn(inBio \o net) = DataIn(inBio) + DataIn(net)
    BY <1>2, DataInType, DataInCat DEF TypeOK
  <2>2. DataIn(inBio)' = DataIn(inBio \o net)
    BY <1>1 DEF DataIn
  <2>3. DataIn(inBio) <= together
    BY <1>1 DEF Left
  <2>4. pc' # "idle"
    BY <1>1
  <2> QED  BY <2>1, <2>2, <2>3, <2>4, <1>1 DEF Left
<1>8. Kept'
  <2>1. /\ DataIn(inBio) \in Nat /\ DataIn(net) \in Nat /\ served \in Nat
        /\ DataIn(inBio \o net) = DataIn(inBio) + DataIn(net)
    BY <1>2, DataInType, DataInCat DEF TypeOK
  <2>2. DataIn(inBio)' = DataIn(inBio \o net) /\ DataIn(net)' = 0
    BY <1>1, DataInEmpty DEF DataIn
  <2>3. sent'["data"] = sent["data"] /\ served' = served
    BY <1>1
  <2> QED  BY <2>1, <2>2, <2>3 DEF Kept
<1>9. Due'
  <2>1. /\ Len(inBio \o net) = Len(inBio) + Len(net)
        /\ \A i \in 1 .. Len(inBio) : (inBio \o net)[i] = inBio[i]
        /\ \A i \in 1 .. Len(net) : (inBio \o net)[Len(inBio) + i] = net[i]
    BY <1>2
  <2>2. \A k : Has(inBio, k) \/ Has(net, k) => Has(inBio', k)
    <3> SUFFICES ASSUME NEW k PROVE Has(inBio, k) \/ Has(net, k) => Has(inBio', k)
      OBVIOUS
    <3>1. ASSUME NEW i \in 1 .. Len(inBio), inBio[i] = k PROVE Has(inBio', k)
      <4>1. i \in 1 .. Len(inBio) + Len(net)
        BY <1>2
      <4> QED  BY <1>1, <2>1, <3>1, <4>1 DEF Has
    <3>2. ASSUME NEW i \in 1 .. Len(net), net[i] = k PROVE Has(inBio', k)
      <4>1. Len(inBio) + i \in 1 .. Len(inBio) + Len(net)
        BY <1>2
      <4> QED  BY <1>1, <2>1, <3>2, <4>1 DEF Has
    <3> QED  BY <3>1, <3>2 DEF Has
  <2>3. /\ Has(inBio, "hello") \/ Has(net, "hello") => Has(inBio, "hello")'
        /\ Has(inBio, "finished") \/ Has(net, "finished") => Has(inBio, "finished")'
    BY <2>2 DEF Has
  <2>4. pc' # "idle" /\ net' = <<>> /\ sent' = sent /\ ssl' = ssl
    BY <1>1
  <2> QED  BY <2>3, <2>4 DEF Due
<1> QED  BY <1>3, <1>4, <1>5, <1>6, <1>7, <1>8, <1>9

LEMMA AcceptHelloKeeps ==
  ASSUME IInv, AcceptHello
  PROVE  IInv'
<1> USE Sizes DEF IInv
<1>1. /\ pc = "accept" /\ ssl = "hello" /\ Consumed("hello")
      /\ ssl' = "finished" /\ outBio' = outBio + flight
      /\ UNCHANGED <<sent, net, edge, written, flight, pc, served, together>>
  BY DEF AcceptHello, peerVars
<1>2. inBio' \in Seq(Record) /\ (LateIn(inBio)' => LateIn(inBio))
  BY <1>1, ConsumedFacts
<1>3. DataIn(inBio)' = DataIn(inBio) /\ DataIn(inBio) \in Nat
  BY <1>1, ConsumedCount
<1>4. TypeOK'
  BY <1>1, <1>2 DEF TypeOK
<1>5. Phase'
  BY <1>1 DEF Phase
<1>6. LateIn(net)' <=> LateIn(net)
  BY <1>1 DEF LateIn
<1>7. Order' /\ Pending'
  BY <1>1, <1>2, <1>6 DEF Order, Pending, TypeOK
<1>8. Left' /\ Kept'
  BY <1>1, <1>3, KeptStays DEF Left, TypeOK
<1>9. Due'
  BY <1>1 DEF Due, Order
<1> QED  BY <1>4, <1>5, <1>7, <1>8, <1>9

LEMMA WantsKeeps ==
  ASSUME IInv, AcceptWants \/ ReadWants
  PROVE  IInv'
<1> USE Sizes DEF IInv
<1>1. /\ inBio = <<>> /\ Flushed(outBio) /\ pc' = "idle"
      /\ pc = "accept" \/ pc = "read"
      /\ UNCHANGED <<sent, net, edge, inBio, flight, ssl, served, together>>
  BY DEF AcceptWants, ReadWants, peerVars
<1>2. /\ outBio' \in Nat /\ written' \in Nat
      /\ outBio' + written' = outBio + written
      /\ outBio <= MAX_READ_SIZE => outBio' = 0
  BY <1>1, FlushedFacts DEF TypeOK
<1>3. outBio = 0 => outBio' = 0 /\ written' = written
  <2> HIDE DEF IInv
  <2>1. \A a, b \in Nat : 0 + a = 0 + b => a = b
    OBVIOUS
  <2>2. written \in Nat
    BY DEF IInv, TypeOK
  <2> SUFFICES ASSUME outBio = 0 PROVE outBio' = 0 /\ written' = written
    OBVIOUS
  <2>3. outBio' = 0
    BY <1>2
  <2>4. 0 + written' = 0 + written /\ written' \in Nat
    BY <1>2, <2>3
  <2>5. written' = written
    BY <2>1, <2>2, <2>4, Zenon
  <2> QED  BY <2>3, <2>5
<1>4. ssl = "failed" => FALSE
  BY DEF AcceptWants, ReadWants, Phase
<1>5. TypeOK'
  BY <1>1, <1>2 DEF TypeOK
<1>6. Phase' /\ Order'
  BY <1>1 DEF Phase, Order, LateIn, TypeOK
<1>7. Pending'
  <2>1. ssl = "finished" /\ flight <= MAX_READ_SIZE => outBio <= MAX_READ_SIZE
    BY DEF Pending, TypeOK
  <2> QED  BY <1>1, <1>2, <1>3, <1>4, <2>1 DEF Pending, TypeOK
<1>8. Left' /\ Kept'
  <2>1. DataIn(inBio)' = DataIn(inBio) /\ DataIn(inBio) = 0
    BY <1>1, DataInEmpty
  <2> QED  BY <1>1, <2>1, KeptStays DEF Left, TypeOK
<1>9. Due'
  BY <1>1, DueStays
<1> QED  BY <1>5, <1>6, <1>7, <1>8, <1>9

LEMMA AcceptDoneKeeps ==
  ASSUME IInv, AcceptDone
  PROVE  IInv'
<1> USE Sizes DEF IInv
<1>1. PICK n \in Writes \union {0} :
        /\ pc = "accept" /\ ssl = "finished" /\ Consumed("finished")
        /\ ssl' = "over" /\ pc' = "read" /\ Flushed(outBio + n)
        /\ UNCHANGED <<sent, net, edge, flight, served, together>>
  BY DEF AcceptDone, peerVars
<1>2. /\ inBio' \in Seq(Record) /\ (LateIn(inBio)' => LateIn(inBio))
      /\ LateIn(inBio)
  BY <1>1, ConsumedFacts DEF Late
<1>3. DataIn(inBio)' = DataIn(inBio) /\ DataIn(inBio) \in Nat
  BY <1>1, ConsumedCount
<1>4. outBio = 0
  BY <1>1, <1>2 DEF Order, Pending
<1>5. outBio' = 0 /\ written' \in Nat /\ written' >= flight
  BY <1>1, <1>4, FlushedFacts DEF Pending, TypeOK
<1>6. TypeOK'
  BY <1>1, <1>2, <1>5 DEF TypeOK
<1>7. LateIn(net)' <=> LateIn(net)
  BY <1>1 DEF LateIn
<1>8. Phase' /\ Order' /\ Pending'
  BY <1>1, <1>2, <1>5, <1>7 DEF Phase, Order, Pending
<1>9. Left' /\ Kept'
  BY <1>1, <1>3, KeptStays DEF Left, TypeOK
<1>10. Due'
  BY <1>1 DEF Due
<1> QED  BY <1>6, <1>8, <1>9, <1>10

LEMMA AcceptFailsKeeps ==
  ASSUME IInv, AcceptFails
  PROVE  IInv'
<1> USE Sizes DEF IInv
<1>1. /\ pc = "accept" /\ ssl \in {"hello", "failed"}
      /\ ssl' = "failed" /\ pc' = "idle"
      /\ UNCHANGED <<sent, net, edge, written, flight, served, together>>
  BY DEF AcceptFails, peerVars
<1>2. /\ inBio' \in Seq(Record) /\ outBio' \in Nat
      /\ LateIn(inBio)' => LateIn(inBio)
  <2>1. CASE Consumed("bad") /\ \E n \in Writes : outBio' = outBio + n
    BY <2>1, ConsumedFacts DEF TypeOK
  <2>2. CASE UNCHANGED <<inBio, outBio>>
    BY <2>2 DEF TypeOK, LateIn
  <2> QED  BY <2>1, <2>2 DEF AcceptFails
<1>3. TypeOK'
  BY <1>1, <1>2 DEF TypeOK
<1>4. LateIn(net)' <=> LateIn(net)
  BY <1>1 DEF LateIn
<1>5. sent["finished"] \in Nat
  <2>1. "finished" \in Record
    BY DEF Record
  <2> QED  BY <2>1 DEF TypeOK
<1>6. Phase' /\ Order' /\ Pending'
  BY <1>1, <1>2, <1>4, <1>5 DEF Phase, Order, Pending
<1>7. Left' /\ Kept'
  <2>1. ~LateIn(inBio)' /\ ~LateIn(inBio)
    BY <1>1, <1>2 DEF Order
  <2> DEFINE D == {i \in DOMAIN inBio : inBio[i] = "data"}
  <2>2. D' = {} /\ D = {}
    BY <1>2, <2>1 DEF LateIn, Late, TypeOK
  <2>3. DataIn(inBio)' = 0 /\ DataIn(inBio) = 0
    BY <2>2, FS_EmptySet DEF DataIn
  <2> QED  BY <1>1, <2>3, KeptStays DEF Left, TypeOK
<1>8. Due'
  BY <1>1 DEF Due, Order
<1> QED  BY <1>3, <1>6, <1>7, <1>8

(* Data is only written once the handshake is over, and then all at once.  *)
LEMMA WriteAllFacts ==
  ASSUME IInv, ssl = "over", NEW n \in Writes \union {0}, Flushed(outBio + n)
  PROVE  outBio' = 0 /\ written' \in Nat /\ written' >= flight
<1>1. outBio = 0 /\ written >= flight /\ written \in Nat /\ flight \in Nat
  BY Sizes DEF IInv, Pending, TypeOK
<1> QED  BY <1>1, Sizes, FlushedFacts DEF IInv

LEMMA ReadRecordKeeps ==
  ASSUME IInv, ReadRecord
  PROVE  IInv'
<1> USE Sizes DEF IInv
<1>1. /\ pc = "read" /\ Consumed("data") /\ served' = served + 1 /\ pc' = "idle"
      /\ UNCHANGED <<sent, net, edge, flight, ssl, together>>
      /\ UNCHANGED <<outBio, written>> \/ \E n \in Writes : Flushed(outBio + n)
  BY DEF ReadRecord, peerVars
<1>2. inBio' \in Seq(Record) /\ (LateIn(inBio)' => LateIn(inBio))
  BY <1>1, ConsumedFacts
<1>3. DataIn(inBio)' = DataIn(inBio) - 1 /\ DataIn(inBio) \in Nat
  BY <1>1, ConsumedCount
<1>4. ssl = "over"
  BY <1>1 DEF Phase
<1>5. outBio' = 0 /\ written' \in Nat /\ written' >= flight
  BY <1>1, <1>4, WriteAllFacts DEF Pending, TypeOK
<1>6. TypeOK'
  BY <1>1, <1>2, <1>5 DEF TypeOK
<1>7. LateIn(net)' <=> LateIn(net)
  BY <1>1 DEF LateIn
<1>8. Phase' /\ Order' /\ Pending'
  BY <1>1, <1>2, <1>4, <1>5, <1>7 DEF Phase, Order, Pending
<1>9. Left' /\ Kept'
  <2>1. DataIn(net)' = DataIn(net) /\ DataIn(net) \in Nat
    BY <1>1, ConsumedCount DEF DataIn
  <2>2. /\ served \in Nat /\ served' = served + 1
        /\ sent'["data"] = sent["data"]
    BY <1>1 DEF TypeOK
  <2> QED  BY <1>1, <1>3, <2>1, <2>2 DEF Left, Kept, TypeOK
<1>10. Due'
  BY <1>1, <1>4 DEF Due
<1> QED  BY <1>6, <1>8, <1>9, <1>10

LEMMA WriteKeeps ==
  ASSUME IInv, cio_high_write
  PROVE  IInv'
<1> USE Sizes DEF IInv
<1>1. PICK n \in Writes :
        /\ pc = "idle" /\ served > 0 /\ Flushed(outBio + n)
        /\ UNCHANGED <<sent, net, edge, inBio, flight, ssl, pc, served, together>>
  BY DEF cio_high_write, peerVars
<1>2. ssl = "over"
  BY <1>1 DEF Phase
<1>3. outBio' = 0 /\ written' \in Nat /\ written' >= flight
  BY <1>1, <1>2, WriteAllFacts
<1>4. TypeOK'
  BY <1>1, <1>3 DEF TypeOK
<1>5. Phase' /\ Order' /\ Pending' /\ Left' /\ Kept'
  BY <1>1, <1>2, <1>3 DEF Phase, Order, LateIn, Pending, Left, DataIn, Kept
<1>6. Due'
  BY <1>1, <1>2, DueStays
<1> QED  BY <1>4, <1>5, <1>6

-----------------------------------------------------------------------------

LEMMA InitIInv == Init => IInv
<1> SUFFICES ASSUME Init PROVE IInv
  OBVIOUS
<1>1. TypeOK
  <2>1. sent \in [Record -> Nat] /\ net \in Seq(Record) /\ inBio \in Seq(Record)
    BY DEF Init
  <2> QED  BY <2>1 DEF Init, TypeOK
<1>2. Phase /\ Pending
  BY DEF Init, Phase, Pending
<1>3. sent["finished"] = 0
  BY DEF Init, Record
<1>4. Order
  BY <1>3 DEF Init, Order, LateIn
<1>5. Left /\ Kept
  <2>1. sent["data"] = 0
    BY DEF Init, Record
  <2> QED  BY <2>1, DataInEmpty DEF Init, Left, Kept
<1>6. Due
  <2>1. sent["hello"] = 0
    BY DEF Init, Record
  <2> QED  BY <1>3, <2>1 DEF Init, Due
<1> QED  BY <1>1, <1>2, <1>4, <1>5, <1>6 DEF IInv

LEMMA NextIInv == IInv /\ [Next]_vars => IInv'
<1> SUFFICES ASSUME IInv, [Next]_vars PROVE IInv'
  OBVIOUS
<1>1. CASE PeerStarts
  <2>1. PICK r \in {"hello", "bad"} : PeerSends(r)
    BY <1>1 DEF PeerStarts
  <2> QED  BY <2>1, PeerSendsKeeps DEF Record
<1>2. CASE PeerFinishes
  BY <1>2, PeerSendsKeeps DEF PeerFinishes, Record
<1>3. CASE PeerData
  BY <1>3, PeerSendsKeeps DEF PeerData, Record
<1>4. CASE Piece
  BY <1>4 DEF Piece, IInv, TypeOK, Phase, Order, LateIn, Pending, Left, DataIn, Kept, Due, Has
<1>5. CASE Handler \/ cio_high_write
  BY <1>5, ReadKeeps, AcceptHelloKeeps, WantsKeeps, AcceptDoneKeeps,
     AcceptFailsKeeps, ReadRecordKeeps, WriteKeeps DEF Handler
<1>6. CASE UNCHANGED vars
  BY <1>6 DEF vars, IInv, TypeOK, Phase, Order, LateIn, Pending, Left, DataIn, Kept, Due, Has
<1> QED  BY <1>1, <1>2, <1>3, <1>4, <1>5, <1>6 DEF Next

(* The invariant of a TLS connection.                                      *)
THEOREM Invariance == Spec => []IInv
  BY InitIInv, NextIInv, PTL DEF Spec

(* Type correctness of the TLS transport.                                  *)
THEOREM TypeCorrect == Spec => []TypeOK
<1>1. IInv => TypeOK
  BY DEF IInv
<1> QED  BY <1>1, Invariance, PTL

(* One call of write_outbio_pending_to_low is enough whenever the flight   *)
(* fits out_buffer (cio.c:138): the server never waits for a peer that     *)
(* waits for it.                                                           *)
THEOREM NothingHeldBackCorrect == Spec => []NothingHeldBack
<1>1. ASSUME IInv PROVE NothingHeldBack
  <2> SUFFICES ASSUME pc = "idle", flight <= MAX_READ_SIZE, ssl # "failed"
               PROVE  /\ outBio = 0
                      /\ ~edge => /\ sent["hello"] > 0 => written >= flight
                                  /\ sent["finished"] > 0 => ssl = "over"
    BY DEF NothingHeldBack
  <2>1. outBio = 0
    BY <1>1 DEF IInv, Pending, TypeOK
  <2>2. ASSUME ~edge, NEW r, Has(inBio, r) \/ Has(net, r) PROVE ssl = "over"
    <3>1. ssl # "over" => inBio = <<>> /\ net = <<>>
      BY <1>1, <2>2 DEF IInv, TypeOK, Due
    <3> QED  BY <2>2, <3>1 DEF Has
  <2>3. ssl = "finished" => written >= flight
    <3>1. written \in Nat /\ flight \in Nat
      BY <1>1, Sizes DEF IInv, TypeOK
    <3> QED  BY <1>1, <2>1, <3>1 DEF IInv, Pending
  <2>4. /\ ssl = "over" => written >= flight
        /\ ssl \in {"hello", "finished", "over"}
    BY <1>1 DEF IInv, Pending, TypeOK
  <2> QED  BY <1>1, <2>1, <2>2, <2>3, <2>4 DEF IInv, Due
<1> QED  BY <1>1, Invariance, PTL

(* No data record is lost; one waits in in_bio only behind one of the same *)
(* read, which has been served (cio.c:222).                                *)
THEOREM LeftBehindCorrect == Spec => []LeftBehind
<1>1. IInv => LeftBehind
  BY DEF IInv, Left, Kept, LeftBehind
<1> QED  BY <1>1, Invariance, PTL
=============================================================================
