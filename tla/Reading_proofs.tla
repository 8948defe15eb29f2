-------------------------- MODULE Reading_proofs ---------------------------
(***************************************************************************)
(* The read loops over the shared buffer, for any size of it and any       *)
(* number of connections.                                                  *)
(***************************************************************************)
EXTENDS Reading, WellFoundedInduction, TLAPS

(* As long as the last place holds a NUL every search for one ends in the *)
(* block; what comes over the FIFO has one of its own.                     *)
Buffer ==
  /\ padded => MAX_READ_SIZE - 1 \in nul /\ got < MAX_READ_SIZE
  /\ pc = "read" /\ who = fifo => got \in nul

(* The text is written inside the block, and so is every NUL until an      *)
(* event has filled it; the one after such an event's text is written one  *)
(* byte behind it (hasses.c:900 and 943).                                  *)
StaysInBlock ==
  /\ got <= MAX_READ_SIZE
  /\ ~flooded => got < MAX_READ_SIZE /\ nul \subseteq 0 .. MAX_READ_SIZE - 1

Counts ==
  /\ \A s \in Source :
       /\ taken[s] <= Len(stream[s]) /\ dropped[s] <= taken[s]
       /\ s \in open => dropped[s] = 0
  /\ pc # "wait" => got <= taken[who]

(* What is known of the input between the read loop and the end of its     *)
(* splitting.                                                              *)
Lines == \A i \in limit + 1 .. got : stream[who][taken[who] - got + i] = "newline"

AllRead ==
  /\ Unread(who) = 0 \/ who \in ready \/ done \/ (who = fifo /\ flooded)
  /\ padded /\ done => who \in ended /\ Unread(who) = 0

Parsing ==
  pc = "parse" =>
    /\ who \notin Sse /\ part <= limit /\ limit <= got
    /\ Lines /\ AllRead

Texts == \A s \in Sse : \A i \in 1 .. Len(stream[s]) : stream[s][i] = "text"

IInv ==
  /\ TypeOK /\ Buffer /\ StaysInBlock /\ Counts /\ Parsing /\ Texts
  /\ EndsAreReal /\ NoneForgotten /\ LossIsShort

-----------------------------------------------------------------------------
(* The lengths computed from the buffer.                                   *)

(* A set of naturals that has an element has a least one. *)
LEMMA LeastNat ==
  ASSUME NEW S \in SUBSET Nat, NEW m \in S
  PROVE  \E n \in S : \A x \in S : n <= x
<1>1. PICK n \in S : \A x \in S : ~ (<<x, n>> \in OpToRel(<, Nat))
  BY NatLessThanWellFounded, WFMin
<1>2. n \in Nat /\ \A x \in S : x \in Nat
  OBVIOUS
<1>3. \A x \in S : ~ (x < n)
  BY <1>1, <1>2 DEF OpToRel
<1>4. \A x \in S : n <= x
  BY <1>2, <1>3
<1> QED  BY <1>4

LEMMA LastPlace == MAX_READ_SIZE \in Nat /\ MAX_READ_SIZE > 0
                   /\ Short \in Nat
  BY SizeAssumption

(* A read asks for no more than fits, and for something as long as the     *)
(* last place holds a NUL, or the text has one behind it in the block.     *)
LEMMA ReadSizeFacts ==
  ASSUME TypeOK, Buffer, StaysInBlock
  PROVE  /\ ReadSize \in 0 .. MAX_READ_SIZE - got
         /\ padded => ReadSize > 0
         /\ pc = "read" /\ who = fifo /\ ~flooded => ReadSize > 0
<1> DEFINE S == {n \in nul \union {MAX_READ_SIZE} : n >= got}
<1>0. S \subseteq Nat
  <2>1. nul \subseteq 0 .. MAX_READ_SIZE
    BY DEF TypeOK
  <2>2. \A n \in nul : n \in Nat
    BY <2>1, LastPlace
  <2> QED  BY <2>2, LastPlace
<1>1. MAX_READ_SIZE \in S
  BY LastPlace DEF TypeOK
<1> HIDE DEF S
<1>2. \E n \in S : \A x \in S : n <= x
  BY <1>0, <1>1, LeastNat
<1> USE DEF S
<1>3. \E n \in nul \union {MAX_READ_SIZE} :
        n >= got /\ \A x \in nul : x >= got => n <= x
  BY <1>2
<1>4. PICK q \in nul \union {MAX_READ_SIZE} :
        /\ ReadSize = MAX_READ_SIZE - q
        /\ q >= got /\ \A x \in nul : x >= got => q <= x
  BY <1>3 DEF ReadSize, NulAt
<1>5. /\ q \in 0 .. MAX_READ_SIZE /\ got \in 0 .. MAX_READ_SIZE
      /\ MAX_READ_SIZE \in Nat
  BY LastPlace DEF TypeOK
<1>6. ReadSize \in 0 .. MAX_READ_SIZE - got
  BY <1>4, <1>5
<1>7. ASSUME padded PROVE ReadSize > 0
  <2>1. MAX_READ_SIZE - 1 >= got /\ q <= MAX_READ_SIZE - 1
    BY <1>4, <1>5, <1>7 DEF Buffer
  <2> QED  BY <2>1, <1>4, <1>5
<1>8. ASSUME pc = "read", who = fifo, ~flooded PROVE ReadSize > 0
  <2>1. q <= got /\ got < MAX_READ_SIZE
    BY <1>4, <1>5, <1>8 DEF Buffer, StaysInBlock
  <2> QED  BY <2>1, <1>4, <1>5
<1> QED  BY <1>6, <1>7, <1>8

LEMMA ChoppedFacts ==
  ASSUME got \in Nat, NEW base, base = taken[who] - got
  PROVE  /\ Chopped \in 0 .. got
         /\ \A i \in Chopped + 1 .. got : stream[who][base + i] = "newline"
<1> DEFINE Line(n) == \A i \in n + 1 .. got : stream[who][base + i] = "newline"
           S == {n \in 0 .. got : Line(n) /\ (got > 0 => n > 0)}
<1>0. S \subseteq Nat
  OBVIOUS
<1>a. Line(got)
  OBVIOUS
<1>1. got \in S
  <2> HIDE DEF Line
  <2> QED  BY <1>a
<1>2. \E n \in S : \A x \in S : n <= x
  <2> HIDE DEF S
  <2> QED  BY <1>0, <1>1, LeastNat
<1>3. \E n \in 0 .. got :
        /\ Line(n) /\ (got > 0 => n > 0)
        /\ \A x \in 0 .. got : Line(x) /\ (got > 0 => x > 0) => n <= x
  <2> HIDE DEF Line
  <2> QED  BY <1>2
<1>4. Chopped = CHOOSE n \in 0 .. got :
        /\ Line(n) /\ (got > 0 => n > 0)
        /\ \A x \in 0 .. got : Line(x) /\ (got > 0 => x > 0) => n <= x
  BY DEF Chopped
<1> HIDE DEF Line, S
<1>5. Chopped \in 0 .. got /\ Line(Chopped)
  BY <1>3, <1>4
<1> QED  BY <1>5 DEF Line

(* A read loop that ends without having filled the buffer has read all,    *)
(* and an end is a real one as long as the last place holds a NUL.         *)
LEMMA NothingLeft ==
  ASSUME IInv, NothingRead
  PROVE  /\ who = fifo => flooded \/ Unread(who) = 0
         /\ who # fifo /\ ~Done => Unread(who) = 0
         /\ padded => Unread(who) = 0 /\ (Done => who \in ended)
  BY ReadSizeFacts DEF IInv, NothingRead, Done

(* Who is being served is open; a closed source is not being served. *)
LEMMA Served ==
  ASSUME TypeOK
  PROVE  /\ pc # "wait" => who \in open /\ who \in Source
         /\ \A s \in Source \ open : who # s /\ Passed(s) = taken[s] - dropped[s]
  BY SourceAssumption DEF TypeOK, Passed

-----------------------------------------------------------------------------
(* Every step keeps the invariant.                                         *)

LEMMA ArriveKeeps ==
  ASSUME IInv, NEW s \in Source, NEW k \in Kind, Arrive(s, k)
  PROVE  IInv'
<1> USE LastPlace, SourceAssumption DEF IInv
<1> PICK new : new = [stream EXCEPT ![s] = Append(@, k)]
  OBVIOUS
<1>1. /\ s \in open \ ended /\ (s \in Sse => k = "text")
      /\ stream' = new /\ ready' = ready \union {s}
      /\ ended' = ended
      /\ UNCHANGED readerVars
  BY DEF Arrive
<1>2. stream[s] \in Seq(Kind) /\ DOMAIN stream = Source
  BY DEF TypeOK
<1>3. /\ new \in [Source -> Seq(Kind)]
      /\ \A x \in Source : x # s => new[x] = stream[x]
      /\ new[s] = Append(stream[s], k)
  BY <1>2 DEF TypeOK
<1>4. /\ Len(new[s]) = Len(stream[s]) + 1 /\ Len(stream[s]) \in Nat
      /\ \A i \in 1 .. Len(stream[s]) : new[s][i] = stream[s][i]
      /\ new[s][Len(stream[s]) + 1] = k
  BY <1>2, <1>3
<1>5. TypeOK'
  BY <1>1, <1>3 DEF TypeOK, readerVars
<1>6. Buffer' /\ StaysInBlock'
  BY <1>1 DEF Buffer, StaysInBlock, readerVars
<1>7. \A x \in Source : /\ Len(stream[x]) \in Nat /\ Len(new[x]) >= Len(stream[x])
                        /\ \A i \in 1 .. Len(stream[x]) : new[x][i] = stream[x][i]
  BY <1>3, <1>4 DEF TypeOK
<1>8. Counts'
  BY <1>1, <1>7 DEF Counts, TypeOK, readerVars
<1>9. Parsing'
  <2> SUFFICES ASSUME pc = "parse" PROVE Parsing'
    BY <1>1 DEF Parsing, readerVars
  <2>1. who \in Source /\ who \in open
    BY Served
  <2>2. Lines'
    BY <2>1, <1>1, <1>7 DEF Lines, Parsing, Counts, TypeOK, readerVars
  <2>3. AllRead'
    <3>1. CASE s = who
      BY <3>1, <1>1, <2>1 DEF AllRead, Parsing, readerVars
    <3>2. CASE s # who
      BY <3>2, <1>1, <1>3, <2>1 DEF AllRead, Parsing, Unread, readerVars
    <3> QED  BY <3>1, <3>2
  <2> QED  BY <2>2, <2>3, <1>1 DEF Parsing, readerVars
<1>10. Texts'
  <2> SUFFICES ASSUME NEW x \in Sse, NEW i \in 1 .. Len(new[x])
               PROVE  new[x][i] = "text"
    BY <1>1 DEF Texts
  <2>1. CASE x = s
    BY <2>1, <1>1, <1>4 DEF Texts
  <2>2. CASE x # s
    BY <2>2, <1>3 DEF Texts, Source
  <2> QED  BY <2>1, <2>2
<1>11. EndsAreReal'
  BY <1>1 DEF EndsAreReal, readerVars
<1>12. NoneForgotten'
  <2> SUFFICES ASSUME NEW x \in open, x # s PROVE Unread(x)' = Unread(x)
    BY <1>1 DEF NoneForgotten, readerVars
  <2> QED  BY <1>1, <1>3 DEF Unread, readerVars, TypeOK
<1>13. LossIsShort'
  <2> SUFFICES ASSUME padded, NEW x \in Comm \ open
               PROVE  Len(new[x]) <= Passed(x)' + Short
    BY <1>1 DEF LossIsShort, readerVars
  <2>1. x \in Source /\ x # s /\ Passed(x)' = Passed(x)
    BY <1>1 DEF Passed, readerVars, Source
  <2> QED  BY <2>1, <1>3 DEF LossIsShort
<1> QED  BY <1>5, <1>6, <1>8, <1>9, <1>10, <1>11, <1>12, <1>13

LEMMA PeerEndsKeeps ==
  ASSUME IInv, NEW s \in Source, PeerEnds(s)
  PROVE  IInv'
<1> USE LastPlace, SourceAssumption DEF IInv
<1>1. /\ s \in open
      /\ ended' = ended \union {s} /\ ready' = ready \union {s}
      /\ UNCHANGED <<stream, readerVars>>
  BY DEF PeerEnds
<1>2. TypeOK'
  BY <1>1 DEF TypeOK, readerVars
<1>3. Buffer' /\ StaysInBlock' /\ Counts' /\ Texts'
  BY <1>1 DEF Buffer, StaysInBlock, Counts, Texts, readerVars
<1>4. Parsing'
  BY <1>1 DEF Parsing, Lines, AllRead, Unread, readerVars
<1>5. EndsAreReal' /\ NoneForgotten'
  BY <1>1 DEF EndsAreReal, NoneForgotten, Unread, readerVars
<1>6. LossIsShort'
  BY <1>1 DEF LossIsShort, Passed, readerVars
<1> QED  BY <1>2, <1>3, <1>4, <1>5, <1>6

LEMMA EventKeeps ==
  ASSUME IInv, NEW s \in Source, Event(s)
  PROVE  IInv'
<1> USE LastPlace, SourceAssumption DEF IInv, Event
<1>1. TypeOK'
  <2>1. nul' \subseteq 0 .. MAX_READ_SIZE
    BY DEF TypeOK
  <2>2. pc' = "read" /\ who' \in open' /\ ready' \subseteq open'
    BY DEF TypeOK
  <2> QED  BY <2>1, <2>2 DEF TypeOK
<1>2. Buffer' /\ StaysInBlock'
  BY DEF Buffer, StaysInBlock
<1>3. Counts'
  BY DEF Counts, TypeOK
<1>4. Parsing' /\ Texts' /\ EndsAreReal'
  BY DEF Parsing, Texts, EndsAreReal
<1>5. NoneForgotten'
  BY DEF NoneForgotten, Unread, TypeOK
<1>6. LossIsShort'
  <2> SUFFICES ASSUME NEW x \in Comm \ open PROVE Passed(x)' = Passed(x)
    BY DEF LossIsShort
  <2> QED  BY Served DEF Passed, TypeOK, Source
<1> QED  BY <1>1, <1>2, <1>3, <1>4, <1>5, <1>6

LEMMA ReadSomeKeeps ==
  ASSUME IInv, NEW n \in 1 .. MAX_READ_SIZE, ReadSome(n)
  PROVE  IInv'
<1> USE LastPlace, SourceAssumption DEF IInv
<1>1. /\ pc = "read" /\ n <= Unread(who) /\ n <= ReadSize
      /\ taken' = [taken EXCEPT ![who] = @ + n]
      /\ got' = got + n
      /\ nul' = (nul \ (got .. got + n - 1))
                \union (IF who = fifo THEN {got + n} ELSE {})
      /\ flooded' = (flooded \/ got + n = MAX_READ_SIZE)
      /\ padded' = (padded /\ got + n < MAX_READ_SIZE)
      /\ UNCHANGED <<stream, ended, open, ready, pc, who, part, limit, done,
                     handled, dropped>>
  <2> HIDE DEF IInv
  <2>1. Unread(who) \in Nat
    BY Served DEF IInv, Unread, Counts, TypeOK, ReadSome
  <2>2. ReadSize \in Nat
    <3>1. ReadSize \in 0 .. MAX_READ_SIZE - got /\ got \in Nat
      BY ReadSizeFacts DEF IInv, TypeOK
    <3> QED  BY <3>1
  <2> QED  BY <2>1, <2>2 DEF ReadSome
<1>2. got + n \in 0 .. MAX_READ_SIZE /\ got \in Nat
  BY <1>1, ReadSizeFacts DEF TypeOK
<1>3. who \in open /\ who \in Source
  BY <1>1, Served
<1>4. /\ taken' \in [Source -> Nat] /\ taken'[who] = taken[who] + n
      /\ \A x \in Source : x # who => taken'[x] = taken[x]
  BY <1>1, <1>3 DEF TypeOK
<1>5. TypeOK'
  <2>1. nul' \subseteq 0 .. MAX_READ_SIZE
    <3>1. nul \subseteq 0 .. MAX_READ_SIZE
      BY DEF TypeOK
    <3> QED  BY <1>1, <1>2, <3>1
  <2>2. got' \in 0 .. MAX_READ_SIZE /\ flooded' \in BOOLEAN /\ padded' \in BOOLEAN
    BY <1>1, <1>2
  <2> QED  BY <2>1, <2>2, <1>1, <1>4 DEF TypeOK
<1>6. Buffer' /\ StaysInBlock'
  <2>1. ASSUME padded'
        PROVE  MAX_READ_SIZE - 1 \in nul' /\ got' < MAX_READ_SIZE
    <3>1. padded /\ got + n < MAX_READ_SIZE
      BY <1>1, <2>1
    <3>2. MAX_READ_SIZE - 1 \in nul
      BY <3>1 DEF Buffer
    <3>3. MAX_READ_SIZE - 1 \notin got .. got + n - 1
      BY <3>1, <1>2
    <3> QED  BY <3>1, <3>2, <3>3, <1>1
  <2>2. who' = fifo => got' \in nul'
    BY <1>1
  <2>3. ASSUME ~flooded'
        PROVE  got' < MAX_READ_SIZE /\ nul' \subseteq 0 .. MAX_READ_SIZE - 1
    <3>1. ~flooded /\ got + n # MAX_READ_SIZE
      BY <1>1, <2>3
    <3>2. nul \subseteq 0 .. MAX_READ_SIZE - 1
      BY <3>1 DEF StaysInBlock
    <3>3. got + n \in 0 .. MAX_READ_SIZE - 1
      BY <3>1, <1>2
    <3>4. nul' \subseteq nul \union {got + n}
      BY <1>1
    <3>5. got' = got + n
      BY <1>1
    <3>6. got' < MAX_READ_SIZE
      BY <3>3, <3>5
    <3>7. nul' \subseteq 0 .. MAX_READ_SIZE - 1
      BY <3>2, <3>3, <3>4
    <3> QED  BY <3>6, <3>7
  <2>4. got' <= MAX_READ_SIZE
    BY <1>1, <1>2
  <2> QED  BY <2>1, <2>2, <2>3, <2>4 DEF Buffer, StaysInBlock
<1>7. Counts'
  BY <1>1, <1>2, <1>3, <1>4 DEF Counts, Unread, TypeOK
<1>8. Parsing' /\ Texts'
  BY <1>1 DEF Parsing, Texts
<1>9. EndsAreReal'
  BY <1>1 DEF EndsAreReal
<1>10. NoneForgotten'
  BY <1>1, <1>4 DEF NoneForgotten, Unread, TypeOK
<1>11. LossIsShort'
  <2> SUFFICES ASSUME NEW x \in Comm \ open PROVE Passed(x)' = Passed(x)
    BY <1>1 DEF LossIsShort
  <2>1. x \in Source /\ x # who
    BY <1>3 DEF Source
  <2> QED  BY <2>1, <1>1, <1>4 DEF Passed
<1> QED  BY <1>5, <1>6, <1>7, <1>8, <1>9, <1>10, <1>11

LEMMA StartParsingKeeps ==
  ASSUME IInv, StartParsing
  PROVE  IInv'
<1> USE LastPlace, SourceAssumption DEF IInv
<1>1. /\ NothingRead /\ pc = "read"
      /\ who = fifo \/ (who \in Comm /\ (Done => got > Short))
      /\ done' = Done /\ pc' = "parse" /\ part' = 0 /\ limit' = Chopped
      /\ nul' = nul \union (Chopped .. got)
      /\ UNCHANGED <<stream, taken, ended, open, ready, who, got, handled,
                     dropped, flooded, padded>>
  BY DEF StartParsing, NothingRead
<1>2. who \in open /\ who \in Source
  BY <1>1, Served
<1>3. got \in 0 .. MAX_READ_SIZE /\ Chopped \in 0 .. got
  <2>1. got \in 0 .. MAX_READ_SIZE
    BY DEF TypeOK
  <2> QED  BY <2>1, ChoppedFacts
<1>4. TypeOK'
  <2>1. nul' \subseteq 0 .. MAX_READ_SIZE
    <3>1. nul \subseteq 0 .. MAX_READ_SIZE
      BY DEF TypeOK
    <3> QED  BY <1>1, <1>3, <3>1
  <2>2. limit' \in 0 .. MAX_READ_SIZE /\ part' \in 0 .. MAX_READ_SIZE
    BY <1>1, <1>3
  <2>3. done' \in BOOLEAN
    BY <1>1 DEF Done
  <2> QED  BY <2>1, <2>2, <2>3, <1>1, <1>2 DEF TypeOK
<1>5. Buffer' /\ StaysInBlock'
  BY <1>1, <1>3 DEF Buffer, StaysInBlock
<1>6. Counts' /\ Texts' /\ EndsAreReal'
  BY <1>1 DEF Counts, Texts, EndsAreReal
<1>7. Parsing'
  <2>1. who \notin Sse /\ part' <= limit' /\ limit' <= got'
    BY <1>1, <1>3
  <2>2. Lines'
    <3>1. \A i \in Chopped + 1 .. got : stream[who][taken[who] - got + i] = "newline"
      BY <1>3, ChoppedFacts
    <3> QED  BY <3>1, <1>1 DEF Lines
  <2>3. AllRead'
    <3>1. /\ who = fifo => flooded \/ Unread(who) = 0
          /\ who # fifo /\ ~Done => Unread(who) = 0
          /\ padded => Unread(who) = 0 /\ (Done => who \in ended)
      BY <1>1, NothingLeft
    <3>2. UNCHANGED <<Unread(who), who, flooded, padded, ended, ready>>
      BY <1>1 DEF Unread
    <3>3. done' = Done
      BY <1>1
    <3> QED  BY <3>1, <3>2, <3>3 DEF AllRead
  <2> QED  BY <2>1, <2>2, <2>3, <1>1 DEF Parsing
<1>8. NoneForgotten'
  BY <1>1 DEF NoneForgotten, Unread
<1>9. LossIsShort'
  <2> SUFFICES ASSUME NEW x \in Comm \ open PROVE Passed(x)' = Passed(x)
    BY <1>1 DEF LossIsShort
  <2> QED  BY <1>1, <1>2 DEF Passed
<1> QED  BY <1>4, <1>5, <1>6, <1>7, <1>8, <1>9

LEMMA CloseEndedKeeps ==
  ASSUME IInv, CloseEnded
  PROVE  IInv'
<1> USE LastPlace, SourceAssumption DEF IInv
<1>1. /\ NothingRead /\ pc = "read" /\ Done /\ (who \in Comm => got <= Short)
      /\ open' = open \ {who} /\ ready' = ready \ {who}
      /\ dropped' = [dropped EXCEPT ![who] = got]
      /\ pc' = "wait" /\ who' = none /\ got' = 0
      /\ nul' = nul \union {got}
      /\ UNCHANGED <<stream, taken, ended, part, limit, done, handled, flooded, padded>>
  BY DEF CloseEnded, NothingRead
<1>2. who \in open /\ who \in Source /\ got \in 0 .. MAX_READ_SIZE
  BY <1>1, Served DEF TypeOK
<1>3. /\ dropped' \in [Source -> Nat] /\ dropped'[who] = got
      /\ \A x \in Source : x # who => dropped'[x] = dropped[x]
  BY <1>1, <1>2 DEF TypeOK
<1>4. padded => Unread(who) = 0 /\ who \in ended
  BY <1>1, NothingLeft
<1>5. TypeOK'
  <2>1. nul' \subseteq 0 .. MAX_READ_SIZE
    BY <1>1, <1>2 DEF TypeOK
  <2> QED  BY <2>1, <1>1, <1>3 DEF TypeOK
<1>6. Buffer' /\ StaysInBlock'
  BY <1>1, <1>2 DEF Buffer, StaysInBlock
<1>7. Counts'
  BY <1>1, <1>2, <1>3 DEF Counts, TypeOK
<1>8. Parsing' /\ Texts'
  BY <1>1 DEF Parsing, Texts
<1>9. EndsAreReal'
  BY <1>1, <1>4 DEF EndsAreReal
<1>10. NoneForgotten'
  BY <1>1 DEF NoneForgotten, Unread
<1>11. LossIsShort'
  <2> SUFFICES ASSUME padded, NEW x \in Comm \ open'
               PROVE  Len(stream[x]) <= Passed(x)' + Short
    BY <1>1 DEF LossIsShort
  <2>1. x \in Source /\ Passed(x)' = taken[x] - dropped'[x]
    BY <1>1 DEF Passed, Source
  <2>2. CASE x = who
    BY <2>1, <2>2, <1>1, <1>2, <1>3, <1>4 DEF Unread, TypeOK, Counts
  <2>3. CASE x # who
    BY <2>1, <2>3, <1>1, <1>2, <1>3 DEF LossIsShort, Passed
  <2> QED  BY <2>2, <2>3
<1> QED  BY <1>5, <1>6, <1>7, <1>8, <1>9, <1>10, <1>11

LEMMA RequestKeeps ==
  ASSUME IInv, Request
  PROVE  IInv'
<1> USE LastPlace, SourceAssumption DEF IInv
<1>1. PICK cuts \in SUBSET (0 .. got - 1) :
        /\ NothingRead /\ pc = "read" /\ who \in Sse /\ ~Done
        /\ nul' = nul \union {got} \union cuts
        /\ pc' = "wait" /\ who' = none /\ got' = 0
        /\ UNCHANGED <<stream, taken, ended, open, ready, part, limit, done,
                       dropped, flooded, padded>>
  BY DEF Request, NothingRead
<1>2. who \in open /\ who \in Source /\ got \in 0 .. MAX_READ_SIZE
  BY <1>1, Served DEF TypeOK
<1>3. Unread(who) = 0
  BY <1>1, NothingLeft
<1>4. TypeOK'
  <2>1. nul' \subseteq 0 .. MAX_READ_SIZE
    <3>1. nul \subseteq 0 .. MAX_READ_SIZE /\ cuts \subseteq 0 .. MAX_READ_SIZE
      BY <1>2 DEF TypeOK
    <3> QED  BY <3>1, <1>1, <1>2
  <2> QED  BY <2>1, <1>1 DEF TypeOK
<1>5. Buffer' /\ StaysInBlock'
  <2>1. ASSUME ~flooded PROVE nul' \subseteq 0 .. MAX_READ_SIZE - 1
    <3>1. got \in 0 .. MAX_READ_SIZE - 1 /\ nul \subseteq 0 .. MAX_READ_SIZE - 1
      BY <2>1, <1>2 DEF StaysInBlock
    <3>2. cuts \subseteq 0 .. MAX_READ_SIZE - 1
      BY <3>1
    <3> QED  BY <3>1, <3>2, <1>1
  <2>2. StaysInBlock'
    BY <2>1, <1>1 DEF StaysInBlock
  <2>3. Buffer'
    <3>1. nul \subseteq nul' /\ padded' = padded /\ got' = 0 /\ pc' = "wait"
      BY <1>1
    <3> QED  BY <3>1 DEF Buffer
  <2> QED  BY <2>2, <2>3
<1>6. Counts' /\ Parsing' /\ Texts' /\ EndsAreReal'
  BY <1>1 DEF Counts, Parsing, Texts, EndsAreReal
<1>7. NoneForgotten'
  BY <1>1, <1>3 DEF NoneForgotten, Unread
<1>8. LossIsShort'
  <2> SUFFICES ASSUME NEW x \in Comm \ open PROVE Passed(x)' = Passed(x)
    BY <1>1 DEF LossIsShort
  <2> QED  BY <1>1, <1>2 DEF Passed, Source
<1> QED  BY <1>4, <1>5, <1>6, <1>7, <1>8

(* What handing over a part leaves of the buffer. *)
LEMMA HandedNul ==
  ASSUME IInv, NEW e \in 0 .. MAX_READ_SIZE, e <= limit, Handed(e), pc = "parse"
  PROVE  /\ nul' \subseteq 0 .. MAX_READ_SIZE /\ nul \subseteq nul'
         /\ ~flooded => nul' \subseteq 0 .. MAX_READ_SIZE - 1
<1>1. PICK cuts \in SUBSET (part .. e - 1) : nul' = nul \union {e} \union cuts
  BY DEF Handed
<1>2. part \in Nat /\ nul \subseteq 0 .. MAX_READ_SIZE
  BY LastPlace DEF IInv, TypeOK
<1>3. cuts \subseteq 0 .. MAX_READ_SIZE
  BY <1>2, LastPlace
<1>4. ASSUME ~flooded PROVE nul' \subseteq 0 .. MAX_READ_SIZE - 1
  <2>1. got < MAX_READ_SIZE /\ nul \subseteq 0 .. MAX_READ_SIZE - 1
    BY <1>4 DEF IInv, StaysInBlock
  <2>2. e <= got
    BY LastPlace DEF IInv, TypeOK, Parsing
  <2>3. cuts \subseteq 0 .. MAX_READ_SIZE - 1 /\ e \in 0 .. MAX_READ_SIZE - 1
    BY <1>2, <2>1, <2>2, LastPlace DEF IInv, TypeOK
  <2> QED  BY <1>1, <2>1, <2>3
<1> QED  BY <1>1, <1>2, <1>3, <1>4

LEMMA ParsePartKeeps ==
  ASSUME IInv, NEW e \in 0 .. MAX_READ_SIZE, ParsePart(e)
  PROVE  IInv'
<1> USE LastPlace, SourceAssumption DEF IInv
<1>1. /\ pc = "parse" /\ e < limit /\ Handed(e)
      /\ part' = e + 1
      /\ UNCHANGED <<stream, taken, ended, open, ready, pc, who, got, limit,
                     done, dropped, flooded, padded>>
  BY DEF ParsePart
<1>2. /\ nul' \subseteq 0 .. MAX_READ_SIZE /\ nul \subseteq nul'
      /\ ~flooded => nul' \subseteq 0 .. MAX_READ_SIZE - 1
  <2>1. e <= limit
    BY <1>1 DEF TypeOK
  <2> QED  BY <2>1, <1>1, HandedNul
<1>3. part' \in 0 .. MAX_READ_SIZE
  BY <1>1 DEF TypeOK
<1>4. TypeOK'
  BY <1>1, <1>2, <1>3 DEF TypeOK
<1>5. Buffer' /\ StaysInBlock'
  BY <1>1, <1>2 DEF Buffer, StaysInBlock
<1>6. Counts' /\ Texts' /\ EndsAreReal'
  BY <1>1 DEF Counts, Texts, EndsAreReal
<1>7. Parsing'
  <2>1. part' <= limit'
    BY <1>1 DEF TypeOK
  <2> QED  BY <2>1, <1>1 DEF Parsing, Lines, AllRead, Unread
<1>8. NoneForgotten'
  BY <1>1 DEF NoneForgotten, Unread
<1>9. LossIsShort'
  <2> SUFFICES ASSUME NEW x \in Comm \ open PROVE Passed(x)' = Passed(x)
    BY <1>1 DEF LossIsShort
  <2> QED  BY <1>1, Served DEF Passed, Source
<1> QED  BY <1>4, <1>5, <1>6, <1>7, <1>8, <1>9

LEMMA ParseLastKeeps ==
  ASSUME IInv, ParseLast
  PROVE  IInv'
<1> USE LastPlace, SourceAssumption DEF IInv
<1>1. /\ pc = "parse" /\ Handed(limit)
      /\ open' = IF done THEN open \ {who} ELSE open
      /\ ready' = IF done THEN ready \ {who} ELSE ready
      /\ pc' = "wait" /\ who' = none
      /\ got' = 0 /\ part' = 0 /\ limit' = 0 /\ done' = FALSE
      /\ UNCHANGED <<stream, taken, ended, dropped, flooded, padded>>
  BY DEF ParseLast
<1>2. /\ nul' \subseteq 0 .. MAX_READ_SIZE /\ nul \subseteq nul'
      /\ ~flooded => nul' \subseteq 0 .. MAX_READ_SIZE - 1
  <2>1. limit \in 0 .. MAX_READ_SIZE /\ limit <= limit
    BY DEF TypeOK
  <2> QED  BY <2>1, <1>1, HandedNul
<1>3. who \in open /\ who \in Source /\ AllRead
  BY <1>1, Served DEF Parsing
<1>4. TypeOK'
  <2>1. open' \subseteq Source /\ ready' \subseteq open'
    BY <1>1 DEF TypeOK
  <2>2. pc' = "wait" /\ who' \in {none} /\ done' \in BOOLEAN
    BY <1>1
  <2>3. got' \in 0 .. MAX_READ_SIZE /\ part' \in 0 .. MAX_READ_SIZE
        /\ limit' \in 0 .. MAX_READ_SIZE
    BY <1>1
  <2>4. UNCHANGED <<stream, taken, ended, dropped, flooded, padded>>
    BY <1>1
  <2> QED  BY <2>1, <2>2, <2>3, <2>4, <1>2 DEF TypeOK
<1>5. Buffer' /\ StaysInBlock'
  BY <1>1, <1>2 DEF Buffer, StaysInBlock
<1>6. Counts' /\ Texts' /\ Parsing'
  BY <1>1 DEF Counts, Texts, Parsing
<1>7. EndsAreReal'
  BY <1>1, <1>3 DEF EndsAreReal, AllRead
<1>8. NoneForgotten'
  BY <1>1, <1>3 DEF NoneForgotten, AllRead, Unread
<1>9. LossIsShort'
  <2> SUFFICES ASSUME padded, NEW x \in Comm \ open'
               PROVE  Len(stream[x]) <= Passed(x)' + Short
    BY <1>1 DEF LossIsShort
  <2>1. x \in Source /\ Passed(x)' = taken[x] - dropped[x]
    BY <1>1 DEF Passed, Source
  <2>2. CASE x = who
    <3>1. done /\ Unread(x) = 0 /\ dropped[x] = 0
      BY <2>2, <1>1, <1>3 DEF AllRead, Counts
    <3> QED  BY <3>1, <2>1 DEF Unread, TypeOK
  <2>3. CASE x # who
    BY <2>1, <2>3, <1>1 DEF LossIsShort, Passed
  <2> QED  BY <2>2, <2>3
<1> QED  BY <1>4, <1>5, <1>6, <1>7, <1>8, <1>9

-----------------------------------------------------------------------------

LEMMA InitIInv == Init => IInv
<1> SUFFICES ASSUME Init PROVE IInv
  OBVIOUS
<1> USE LastPlace, SourceAssumption DEF Init
<1>1. TypeOK
  <2>1. stream \in [Source -> Seq(Kind)]
    OBVIOUS
  <2>2. nul \subseteq 0 .. MAX_READ_SIZE
    OBVIOUS
  <2>3. taken \in [Source -> Nat] /\ dropped \in [Source -> Nat]
    OBVIOUS
  <2>4. ended \subseteq Source /\ open \subseteq Source /\ ready \subseteq open
    OBVIOUS
  <2>5. got \in 0 .. MAX_READ_SIZE /\ part \in 0 .. MAX_READ_SIZE
        /\ limit \in 0 .. MAX_READ_SIZE
    OBVIOUS
  <2>6. pc = "wait" /\ who \in {none} /\ done \in BOOLEAN /\ flooded \in BOOLEAN
    OBVIOUS
  <2>7. padded \in BOOLEAN
    <3>1. padded = (MAX_READ_SIZE - 1 \in nul)
      BY Zenon
    <3>2. (MAX_READ_SIZE - 1 \in nul) \in BOOLEAN
      OBVIOUS
    <3> PICK b : b = (MAX_READ_SIZE - 1 \in nul)
      BY Zenon
    <3>3. b \in BOOLEAN
      BY <3>2, Zenon
    <3> QED  BY <3>1, <3>3, Zenon
  <2> QED  BY <2>1, <2>2, <2>3, <2>4, <2>5, <2>6, <2>7 DEF TypeOK
<1>2. Buffer
  <2>1. padded => MAX_READ_SIZE - 1 \in nul
    BY Zenon
  <2> QED  BY <2>1 DEF Buffer
<1>3. StaysInBlock /\ Counts /\ Parsing
  <2>1. nul \subseteq 0 .. MAX_READ_SIZE - 1
    OBVIOUS
  <2> QED  BY <2>1 DEF StaysInBlock, Counts, Parsing
<1>4. Texts
  BY DEF Texts, Source
<1>5. EndsAreReal /\ NoneForgotten /\ LossIsShort
  BY DEF EndsAreReal, NoneForgotten, LossIsShort, Unread, Source
<1> QED  BY <1>1, <1>2, <1>3, <1>4, <1>5 DEF IInv

LEMMA NextIInv == IInv /\ [Next]_vars => IInv'
<1> SUFFICES ASSUME IInv, [Next]_vars PROVE IInv'
  OBVIOUS
<1>1. CASE Next
  BY <1>1, ArriveKeeps, PeerEndsKeeps, EventKeeps, ReadSomeKeeps,
     StartParsingKeeps, CloseEndedKeeps, RequestKeeps, ParsePartKeeps,
     ParseLastKeeps DEF Next, Program
<1>2. CASE UNCHANGED vars
  BY <1>2 DEF vars, IInv, TypeOK, Buffer, StaysInBlock, Counts, Parsing, Lines, AllRead,
              Texts, EndsAreReal, NoneForgotten, LossIsShort, Unread, Passed
<1> QED  BY <1>1, <1>2

(* The invariant of the read loops.                                        *)
THEOREM Invariance == Spec => []IInv
  BY InitIInv, NextIInv, PTL DEF Spec

(* Type correctness of the read loops.                                     *)
THEOREM TypeCorrect == Spec => []TypeOK
<1>1. IInv => TypeOK
  BY DEF IInv
<1> QED  BY <1>1, Invariance, PTL

(* The text and every NUL are written inside the allocated block, but for  *)
(* the NUL behind the text of an event that fills it: that is one byte     *)
(* behind the block (hasses.c:900 and 943).                                *)
THEOREM StaysInBlockCorrect == Spec => []StaysInBlock
<1>1. IInv => StaysInBlock
  BY DEF IInv
<1> QED  BY <1>1, Invariance, PTL

(* Unless an event has filled the buffer, or its last place held no NUL    *)
(* from the start, no connection is taken for closed that is not           *)
(* (hasses.c:923).                                                         *)
THEOREM EndsAreRealCorrect == Spec => []EndsAreReal
<1>1. IInv => EndsAreReal
  BY DEF IInv
<1> QED  BY <1>1, Invariance, PTL

(* Nothing that has arrived is left without an edge, but for the FIFO once *)
(* the buffer has been filled (hasses.c:884).                              *)
THEOREM NoneForgottenCorrect == Spec => []NoneForgotten
<1>1. IInv => NoneForgotten
  BY DEF IInv
<1> QED  BY <1>1, Invariance, PTL

(* A communication client that closes loses at most a short last piece     *)
(* (hasses.c:950).                                                         *)
THEOREM LossIsShortCorrect == Spec => []LossIsShort
<1>1. IInv => LossIsShort
  BY DEF IInv
<1> QED  BY <1>1, Invariance, PTL

(* A handler's steps come closer to its end, whatever arrives meanwhile:   *)
(* the read loops of hasses.c:913 and 1041 cannot be held by a writer that *)
(* never stops.  What the buffer leaves to be asked for shrinks with every *)
(* read, since a read never goes past the place of the buffer's end.       *)
THEOREM ReadsRunOutHolds == Spec => ReadsRunOut
<1>1. IInv /\ [Next]_vars =>
        [pc # "wait" => \/ UNCHANGED readerVars
                        \/ pc' = "wait"
                        \/ StepsLeft' \in 0 .. StepsLeft - 1]_vars
  <2> SUFFICES ASSUME IInv, Next, pc # "wait"
               PROVE  \/ UNCHANGED readerVars
                      \/ pc' = "wait"
                      \/ StepsLeft' \in 0 .. StepsLeft - 1
    OBVIOUS
  <2>1. /\ got \in 0 .. MAX_READ_SIZE /\ part \in Nat /\ limit \in 0 .. MAX_READ_SIZE
        /\ TypeOK /\ Buffer /\ StaysInBlock /\ MAX_READ_SIZE \in Nat
    BY LastPlace DEF IInv, TypeOK
  <2>2. ASSUME NEW s \in Source, Event(s) PROVE FALSE
    BY <2>2 DEF Event
  <2>3. ASSUME NEW n \in 1 .. MAX_READ_SIZE, ReadSome(n)
        PROVE  StepsLeft' \in 0 .. StepsLeft - 1
    <3>1. ReadSize \in 0 .. MAX_READ_SIZE - got
      BY <2>1, ReadSizeFacts
    <3>2. Unread(who) \in Nat
      BY <2>3, Served DEF IInv, Unread, Counts, TypeOK, ReadSome
    <3>3. /\ pc = "read" /\ pc' = "read" /\ got' = got + n
          /\ n = IF Unread(who) <= ReadSize THEN Unread(who) ELSE ReadSize
      BY <2>3 DEF ReadSome
    <3>4. n <= ReadSize
      BY <3>1, <3>2, <3>3
    <3>5. got + n <= MAX_READ_SIZE
      BY <2>1, <3>1, <3>4
    <3>6. StepsLeft = 2 * MAX_READ_SIZE + 1 - got
          /\ StepsLeft' = 2 * MAX_READ_SIZE + 1 - (got + n)
      BY <3>3 DEF StepsLeft
    <3> HIDE DEF StepsLeft
    <3> QED  BY <2>1, <3>5, <3>6
  <2>4. ASSUME StartParsing
        PROVE  StepsLeft' \in 0 .. StepsLeft - 1
    <3>1. /\ pc = "read" /\ pc' = "parse" /\ part' = 0 /\ limit' = Chopped
      BY <2>4 DEF StartParsing, NothingRead
    <3>2. Chopped \in 0 .. got
      BY <2>1, ChoppedFacts
    <3>3. StepsLeft = 2 * MAX_READ_SIZE + 1 - got /\ StepsLeft' = Chopped - 0
      BY <3>1 DEF StepsLeft
    <3> QED  BY <2>1, <3>2, <3>3
  <2>5. ASSUME NEW e \in 0 .. MAX_READ_SIZE, ParsePart(e)
        PROVE  StepsLeft' \in 0 .. StepsLeft - 1
    <3>1. /\ pc = "parse" /\ pc' = "parse" /\ part' = e + 1 /\ limit' = limit
          /\ e \in part .. limit /\ e < limit
      BY <2>5 DEF ParsePart, PartEnd
    <3>2. StepsLeft = limit - part /\ StepsLeft' = limit - (e + 1)
      BY <3>1 DEF StepsLeft
    <3> QED  BY <2>1, <3>1, <3>2
  <2>6. ASSUME CloseEnded \/ Request \/ ParseLast PROVE pc' = "wait"
    BY <2>6 DEF CloseEnded, Request, ParseLast
  <2>7. ASSUME NEW s \in Source, (\E k \in Kind : Arrive(s, k)) \/ PeerEnds(s)
        PROVE  UNCHANGED readerVars
    <3>1. ASSUME NEW k \in Kind, Arrive(s, k) PROVE UNCHANGED readerVars
      BY <3>1, Zenon DEF Arrive
    <3>2. ASSUME PeerEnds(s) PROVE UNCHANGED readerVars
      BY <3>2 DEF PeerEnds
    <3> QED  BY <2>7, <3>1, <3>2
  <2> QED
    BY <2>2, <2>3, <2>4, <2>5, <2>6, <2>7 DEF Next, Program
<1> QED  BY <1>1, Invariance, PTL DEF Spec, ReadsRunOut

-----------------------------------------------------------------------------
(***************************************************************************)
(* The reading of every source implements Feed.                            *)
(***************************************************************************)

LEMMA PassedStays ==
  ASSUME \A s \in Source : Passed(s)' = Passed(s)
  PROVE  [s \in Source |-> Passed(s)]' = [s \in Source |-> Passed(s)]
  BY DEF Passed

LEMMA PassedMoves ==
  ASSUME NEW w \in Source, NEW k, Passed(w)' = k,
         \A s \in Source : s # w => Passed(s)' = Passed(s)
  PROVE  [s \in Source |-> Passed(s)]' = [[s \in Source |-> Passed(s)] EXCEPT ![w] = k]
<1>1. \A s \in Source : Passed(s)' = IF s = w THEN k ELSE Passed(s)
  OBVIOUS
<1> QED  BY <1>1 DEF Passed

LEMMA PassedIsNat ==
  ASSUME IInv, NEW s \in Source
  PROVE  Passed(s) \in 0 .. taken[s]
<1>1. CASE who # s
  BY <1>1 DEF Passed, IInv, Counts, TypeOK
<1>2. CASE who = s
  <2>1. pc # "wait" /\ got <= taken[s] /\ got \in Nat
    BY <1>2, SourceAssumption, LastPlace DEF IInv, Counts, TypeOK
  <2>2. pc = "parse" => part \in Nat /\ part <= got
    BY LastPlace DEF IInv, Parsing, TypeOK
  <2> QED  BY <1>2, <2>1, <2>2 DEF Passed, IInv, TypeOK
<1> QED  BY <1>1, <1>2

LEMMA ArriveImplements ==
  ASSUME IInv, NEW s \in Source, NEW k \in Kind, Arrive(s, k)
  PROVE  Stream!Write(s)
<1>1. /\ stream' = [stream EXCEPT ![s] = Append(@, k)]
      /\ UNCHANGED <<taken, handled, dropped, who, pc, got, part>>
  BY DEF Arrive, readerVars
<1>2. \A x \in Source : Passed(x)' = Passed(x)
  BY <1>1 DEF Passed
<1> QED  BY <1>1, <1>2, PassedStays DEF Stream!Write, Kind, Stream!Kind

LEMMA ReadSomeImplements ==
  ASSUME IInv, NEW n \in 1 .. MAX_READ_SIZE, ReadSome(n)
  PROVE  Stream!See(who) /\ who \in Source
<1> USE LastPlace, SourceAssumption
<1>1. /\ pc = "read" /\ n <= Unread(who) /\ got' = got + n
      /\ taken' = [taken EXCEPT ![who] = @ + n]
      /\ UNCHANGED <<stream, handled, dropped, who, pc, part>>
  <2>1. Unread(who) \in Nat
    BY Served DEF IInv, Unread, Counts, TypeOK, ReadSome
  <2>2. ReadSize \in Nat
    <3>1. ReadSize \in 0 .. MAX_READ_SIZE - got /\ got \in Nat
      BY ReadSizeFacts DEF IInv, TypeOK
    <3> QED  BY <3>1
  <2> QED  BY <2>1, <2>2 DEF ReadSome
<1>2. who \in Source /\ got \in Nat
  BY <1>1, Served DEF IInv, TypeOK
<1>3. taken'[who] = taken[who] + n /\ \A x \in Source : x # who => taken'[x] = taken[x]
  BY <1>1, <1>2 DEF IInv, TypeOK
<1>4. \A x \in Source : Passed(x)' = Passed(x)
  BY <1>1, <1>2, <1>3 DEF Passed, IInv, TypeOK
<1>5. taken[who] + n \in taken[who] .. Len(stream[who])
  BY <1>1, <1>2 DEF Unread, IInv, TypeOK
<1>6. taken' = [taken EXCEPT ![who] = taken[who] + n]
  BY <1>1
<1> QED  BY <1>1, <1>2, <1>4, <1>5, <1>6, PassedStays DEF Stream!See

(* The steps that hand over nothing. *)
LEMMA StutterImplements ==
  ASSUME IInv,
         (\E s \in Source : PeerEnds(s) \/ Event(s)) \/ StartParsing \/ CloseEnded
  PROVE  UNCHANGED Stream!vars
<1> USE LastPlace, SourceAssumption
<1> SUFFICES /\ UNCHANGED <<stream, taken, handled>>
             /\ \A x \in Source : Passed(x)' = Passed(x)
  BY PassedStays DEF Stream!vars
<1>1. ASSUME NEW s \in Source, PeerEnds(s)
      PROVE  /\ UNCHANGED <<stream, taken, handled>>
             /\ \A x \in Source : Passed(x)' = Passed(x)
  BY <1>1 DEF PeerEnds, readerVars, Passed
<1>2. ASSUME NEW s \in Source, Event(s)
      PROVE  /\ UNCHANGED <<stream, taken, handled>>
             /\ \A x \in Source : Passed(x)' = Passed(x)
  <2>1. /\ pc = "wait" /\ pc' = "read" /\ who' = s /\ got' = 0
        /\ UNCHANGED <<stream, taken, handled, dropped>>
    BY <1>2 DEF Event
  <2>2. who = none /\ none # s /\ dropped[s] = 0
    BY <1>2, <2>1 DEF IInv, TypeOK, Counts, Event
  <2> QED  BY <2>1, <2>2 DEF Passed, IInv, TypeOK
<1>3. ASSUME StartParsing
      PROVE  /\ UNCHANGED <<stream, taken, handled>>
             /\ \A x \in Source : Passed(x)' = Passed(x)
  <2>1. /\ pc = "read" /\ pc' = "parse" /\ part' = 0 /\ got \in Nat
        /\ UNCHANGED <<stream, taken, handled, dropped, who, got>>
    BY <1>3 DEF StartParsing, NothingRead, IInv, TypeOK
  <2> QED  BY <2>1 DEF Passed
<1>4. ASSUME CloseEnded
      PROVE  /\ UNCHANGED <<stream, taken, handled>>
             /\ \A x \in Source : Passed(x)' = Passed(x)
  <2>1. /\ pc = "read" /\ pc' = "wait" /\ who' = none
        /\ dropped' = [dropped EXCEPT ![who] = got]
        /\ UNCHANGED <<stream, taken, handled>>
    BY <1>4 DEF CloseEnded, NothingRead
  <2>2. /\ dropped'[who] = got /\ who \in Source
        /\ \A x \in Source : x # who => dropped'[x] = dropped[x]
    BY <2>1, Served DEF IInv, TypeOK
  <2> QED  BY <2>1, <2>2 DEF Passed
<1> QED  BY <1>1, <1>2, <1>3, <1>4

(* Handing over one part, with what lies around it passed over.            *)
LEMMA PassPart ==
  ASSUME NEW w \in Source, NEW k, NEW i, NEW j, i <= j,
         i \in Passed(w) + 1 .. k, j \in Passed(w) + 1 .. k,
         [s \in Source |-> Passed(s)]' = [[s \in Source |-> Passed(s)] EXCEPT ![w] = k],
         Stream!Part(w, i, j),
         Stream!Blank(w, Passed(w) + 1, i - 1), Stream!Blank(w, j + 1, k),
         handled' = [handled EXCEPT ![w] = Append(@, <<i, j>>)],
         UNCHANGED <<stream, taken>>
  PROVE  Stream!Pass(w, k)
<1> PICK f : f = [s \in Source |-> Passed(s)]
  OBVIOUS
<1>1. f[w] = Passed(w)
  OBVIOUS
<1> HIDE DEF Passed
<1>2. \E x, y \in f[w] + 1 .. k :
        /\ x <= y /\ Stream!Part(w, x, y)
        /\ Stream!Blank(w, f[w] + 1, x - 1) /\ Stream!Blank(w, y + 1, k)
        /\ handled' = [handled EXCEPT ![w] = Append(@, <<x, y>>)]
  BY <1>1
<1> QED  BY <1>2 DEF Stream!Pass

(* Passing over what holds no text. *)
LEMMA PassBlank ==
  ASSUME NEW w \in Source, NEW k,
         [s \in Source |-> Passed(s)]' = [[s \in Source |-> Passed(s)] EXCEPT ![w] = k],
         Stream!Blank(w, Passed(w) + 1, k),
         UNCHANGED <<stream, taken, handled>>
  PROVE  Stream!Pass(w, k)
  BY DEF Stream!Pass

(* A request is handed over as one part: it is text throughout.            *)
LEMMA RequestImplements ==
  ASSUME IInv, Request
  PROVE  \E s \in Source : \E k \in Passed(s) .. taken[s] : Stream!Pass(s, k)
<1> USE LastPlace, SourceAssumption
<1> PICK w : w = who
  OBVIOUS
<1> PICK i : i = taken[w] - got + 1
  OBVIOUS
<1>1. /\ pc = "read" /\ pc' = "wait" /\ who' = none /\ w \in Sse
      /\ handled' = IF got = 0 THEN handled
                    ELSE [handled EXCEPT ![w] = Append(@, <<i, taken[w]>>)]
      /\ UNCHANGED <<stream, taken, dropped>>
  BY DEF Request, NothingRead
<1>2. /\ w \in Source /\ w \in open /\ got \in Nat /\ taken[w] \in Nat
      /\ got <= taken[w] /\ taken[w] <= Len(stream[w]) /\ dropped[w] = 0
  BY <1>1, Served DEF IInv, TypeOK, Counts
<1>3. Passed(w) = taken[w] - got
  BY <1>1 DEF Passed
<1>4. Passed(w)' = taken[w]
  BY <1>1, <1>2 DEF Passed
<1>5. \A x \in Source : x # w => Passed(x)' = Passed(x)
  BY <1>1 DEF Passed
<1>6. [s \in Source |-> Passed(s)]' =
        [[s \in Source |-> Passed(s)] EXCEPT ![w] = taken[w]]
  BY <1>2, <1>4, <1>5, PassedMoves
<1>7. \A p \in i .. taken[w] : stream[w][p] = "text"
  <2>1. Len(stream[w]) \in Nat
    BY <1>2 DEF IInv, TypeOK
  <2> QED  BY <1>1, <1>2, <2>1 DEF IInv, Texts
<1>8. taken[w] \in Passed(w) .. taken[w]
  BY <1>2, <1>3
<1>9. Stream!Pass(w, taken[w])
  <2>1. CASE got = 0
    <3>1. Stream!Blank(w, Passed(w) + 1, taken[w])
      BY <2>1, <1>2, <1>3 DEF Stream!Blank
    <3> QED  BY <3>1, <2>1, <1>1, <1>2, <1>6, PassBlank
  <2>2. CASE got # 0
    <3>1. Stream!Part(w, i, taken[w])
      BY <1>2, <1>7 DEF Stream!Part
    <3>2. Stream!Blank(w, Passed(w) + 1, i - 1) /\ Stream!Blank(w, taken[w] + 1, taken[w])
      BY <1>2, <1>3 DEF Stream!Blank
    <3>3. i \in Passed(w) + 1 .. taken[w] /\ i <= taken[w]
          /\ taken[w] \in Passed(w) + 1 .. taken[w]
      BY <2>2, <1>2, <1>3
    <3>4. handled' = [handled EXCEPT ![w] = Append(@, <<i, taken[w]>>)]
      BY <2>2, <1>1
    <3>5. UNCHANGED <<stream, taken>>
      BY <1>1
    <3> QED  BY <3>1, <3>2, <3>3, <3>4, <3>5, <1>2, <1>6, PassPart
  <2> QED  BY <2>1, <2>2
<1> QED  BY <1>2, <1>8, <1>9

(* The splitting at work: what lies before and behind the end of a part.   *)
LEMMA PartFacts ==
  ASSUME IInv, pc = "parse", NEW e \in 0 .. MAX_READ_SIZE, PartEnd(e), e <= limit,
         NEW base, base = taken[who] - got
  PROVE  /\ base \in Nat /\ part \in Nat /\ part <= e /\ limit <= got
         /\ base + got = taken[who]
         /\ who \in Source /\ who \in open /\ Passed(who) = base + part
         /\ dropped[who] = 0
         /\ \A p \in base + part + 1 .. base + e : stream[who][p] # "delimiter"
         /\ e < limit => stream[who][base + e + 1] = "delimiter"
         /\ \A p \in base + limit + 1 .. taken[who] : stream[who][p] = "newline"
<1> USE LastPlace, SourceAssumption
<1>1. /\ got \in Nat /\ part \in Nat /\ limit \in Nat /\ e \in Nat
      /\ taken[who] \in Nat /\ got <= taken[who]
      /\ limit <= got /\ part <= e /\ Lines
      /\ who \in Source /\ who \in open /\ dropped[who] = 0
  BY Served DEF IInv, TypeOK, Counts, Parsing, PartEnd
<1>2. base \in Nat /\ base + got = taken[who] /\ Passed(who) = base + part
  BY <1>1 DEF Passed
<1>3. ASSUME NEW p \in base + part + 1 .. base + e
      PROVE  stream[who][p] # "delimiter"
  <2>1. p - base - 1 \in part .. e - 1
    BY <1>1, <1>2
  <2>2. taken[who] - got + (p - base - 1) + 1 = p
    BY <1>1, <1>2
  <2>3. InputAt(p - base - 1) # "delimiter"
    BY <2>1 DEF PartEnd
  <2> QED  BY <2>2, <2>3 DEF InputAt
<1>4. e < limit => stream[who][base + e + 1] = "delimiter"
  BY DEF PartEnd, InputAt
<1>5. ASSUME NEW p \in base + limit + 1 .. taken[who]
      PROVE  stream[who][p] = "newline"
  <2>1. p - base \in limit + 1 .. got
    BY <1>1, <1>2
  <2>2. taken[who] - got + (p - base) = p
    BY <1>1, <1>2
  <2>3. stream[who][taken[who] - got + (p - base)] = "newline"
    BY <1>1, <2>1 DEF Lines
  <2> QED  BY <2>2, <2>3
<1> QED  BY <1>1, <1>2, <1>3, <1>4, <1>5

LEMMA ParsePartImplements ==
  ASSUME IInv, NEW e \in 0 .. MAX_READ_SIZE, ParsePart(e)
  PROVE  \E s \in Source : \E k \in Passed(s) .. taken[s] : Stream!Pass(s, k)
<1> USE LastPlace, SourceAssumption
<1> PICK w : w = who
  OBVIOUS
<1> PICK base : base = taken[w] - got
  OBVIOUS
<1>1. /\ pc = "parse" /\ PartEnd(e) /\ e < limit /\ part' = e + 1
      /\ handled' = IF e = part THEN handled
                    ELSE [handled EXCEPT ![w] = Append(@, <<base + part + 1, base + e>>)]
      /\ UNCHANGED <<stream, taken, pc, who, got, dropped>>
  BY DEF ParsePart, Handed
<1>2. /\ base \in Nat /\ part \in Nat /\ e \in Nat /\ got \in Nat /\ limit \in Nat
      /\ part <= e /\ e < limit /\ limit <= got
      /\ base + got = taken[w] /\ w \in Source /\ Passed(w) = base + part
      /\ \A p \in base + part + 1 .. base + e : stream[w][p] # "delimiter"
      /\ stream[w][base + e + 1] = "delimiter"
  <2>1. got \in Nat /\ limit \in Nat /\ e \in Nat /\ e <= limit
    BY <1>1 DEF IInv, TypeOK
  <2>2. base = taken[who] - got
    OBVIOUS
  <2> HIDE DEF IInv
  <2> QED  BY <1>1, <2>1, <2>2, PartFacts
<1>3. Passed(w)' = base + e + 1
  BY <1>1, <1>2 DEF Passed
<1>4. \A x \in Source : x # w => Passed(x)' = Passed(x)
  BY <1>1 DEF Passed
<1>5. [s \in Source |-> Passed(s)]' =
        [[s \in Source |-> Passed(s)] EXCEPT ![w] = base + e + 1]
  BY <1>2, <1>3, <1>4, PassedMoves
<1>6. base + e + 1 \in Passed(w) .. taken[w]
  BY <1>2
<1>7. Stream!Blank(w, base + e + 1, base + e + 1)
  BY <1>2 DEF Stream!Blank
<1>8. Stream!Pass(w, base + e + 1)
  <2>1. CASE e = part
    <3>1. Stream!Blank(w, Passed(w) + 1, base + e + 1)
      BY <2>1, <1>2, <1>7
    <3> QED  BY <3>1, <2>1, <1>1, <1>2, <1>5, PassBlank
  <2>2. CASE e # part
    <3>1. Stream!Part(w, base + part + 1, base + e)
      BY <1>2 DEF Stream!Part
    <3>2. Stream!Blank(w, Passed(w) + 1, (base + part + 1) - 1)
      BY <1>2 DEF Stream!Blank
    <3>3. /\ base + part + 1 \in Passed(w) + 1 .. base + e + 1
          /\ base + e \in Passed(w) + 1 .. base + e + 1
          /\ base + part + 1 <= base + e
      BY <2>2, <1>2
    <3>4. handled' = [handled EXCEPT ![w] = Append(@, <<base + part + 1, base + e>>)]
      BY <2>2, <1>1
    <3>5. UNCHANGED <<stream, taken>>
      BY <1>1
    <3> PICK i : i = base + part + 1
      OBVIOUS
    <3> PICK j : j = base + e
      OBVIOUS
    <3> PICK k : k = base + e + 1
      OBVIOUS
    <3>6. i <= j /\ i \in Passed(w) + 1 .. k /\ j \in Passed(w) + 1 .. k
      BY <3>3, Zenon
    <3>7. /\ Stream!Part(w, i, j)
          /\ Stream!Blank(w, Passed(w) + 1, i - 1) /\ Stream!Blank(w, j + 1, k)
      BY <3>1, <3>2, <1>7, Zenon
    <3>8. handled' = [handled EXCEPT ![w] = Append(@, <<i, j>>)]
      BY <3>4, Zenon
    <3>9. [s \in Source |-> Passed(s)]' = [[s \in Source |-> Passed(s)] EXCEPT ![w] = k]
      BY <1>5, Zenon
    <3>10. Stream!Pass(w, k)
      BY <3>5, <3>6, <3>7, <3>8, <3>9, <1>2, PassPart
    <3> QED  BY <3>10, Zenon
  <2> QED  BY <2>1, <2>2
<1> QED  BY <1>2, <1>6, <1>8

LEMMA ParseLastImplements ==
  ASSUME IInv, ParseLast
  PROVE  \E s \in Source : \E k \in Passed(s) .. taken[s] : Stream!Pass(s, k)
<1> USE LastPlace, SourceAssumption
<1> PICK w : w = who
  OBVIOUS
<1> PICK base : base = taken[w] - got
  OBVIOUS
<1> PICK last : last = taken[w]
  OBVIOUS
<1>1. /\ pc = "parse" /\ PartEnd(limit) /\ pc' = "wait" /\ who' = none
      /\ handled' = IF limit = part THEN handled
                    ELSE [handled EXCEPT ![w] = Append(@, <<base + part + 1, base + limit>>)]
      /\ UNCHANGED <<stream, taken, dropped>>
  BY DEF ParseLast, Handed
<1>2. /\ base \in Nat /\ part \in Nat /\ got \in Nat /\ limit \in Nat /\ last \in Nat
      /\ part <= limit /\ limit <= got /\ dropped[w] = 0
      /\ base + got = last /\ w \in Source /\ Passed(w) = base + part
      /\ \A p \in base + part + 1 .. base + limit : stream[w][p] # "delimiter"
      /\ \A p \in base + limit + 1 .. last : stream[w][p] = "newline"
  <2>1. got \in Nat /\ limit \in 0 .. MAX_READ_SIZE /\ limit \in Nat /\ limit <= limit
    BY DEF IInv, TypeOK
  <2>2. base = taken[who] - got
    OBVIOUS
  <2>3. /\ base \in Nat /\ part \in Nat /\ part <= limit /\ limit <= got
        /\ base + got = taken[who] /\ who \in Source /\ Passed(who) = base + part
        /\ dropped[who] = 0
        /\ \A p \in base + part + 1 .. base + limit : stream[who][p] # "delimiter"
        /\ \A p \in base + limit + 1 .. taken[who] : stream[who][p] = "newline"
    BY <1>1, <2>1, <2>2, PartFacts
  <2> QED  BY <2>1, <2>3
<1>3. Passed(w)' = last
  BY <1>1, <1>2 DEF Passed
<1>4. \A x \in Source : x # w => Passed(x)' = Passed(x)
  BY <1>1 DEF Passed
<1>5. [s \in Source |-> Passed(s)]' =
        [[s \in Source |-> Passed(s)] EXCEPT ![w] = last]
  BY <1>2, <1>3, <1>4, PassedMoves
<1>6. last \in Passed(w) .. taken[w]
  BY <1>2
<1>7. Stream!Blank(w, base + limit + 1, last)
  BY <1>2 DEF Stream!Blank
<1>8. Stream!Pass(w, last)
  <2>1. CASE limit = part
    <3>1. Stream!Blank(w, Passed(w) + 1, last)
      BY <2>1, <1>2, <1>7
    <3> QED  BY <3>1, <2>1, <1>1, <1>2, <1>5, PassBlank
  <2>2. CASE limit # part
    <3>1. Stream!Part(w, base + part + 1, base + limit)
      BY <1>2 DEF Stream!Part
    <3>2. Stream!Blank(w, Passed(w) + 1, (base + part + 1) - 1)
      BY <1>2 DEF Stream!Blank
    <3>3. /\ base + part + 1 \in Passed(w) + 1 .. last
          /\ base + limit \in Passed(w) + 1 .. last
          /\ base + part + 1 <= base + limit
      BY <2>2, <1>2
    <3>4. handled' = [handled EXCEPT ![w] = Append(@, <<base + part + 1, base + limit>>)]
      BY <2>2, <1>1
    <3>5. UNCHANGED <<stream, taken>>
      BY <1>1
    <3> PICK i : i = base + part + 1
      OBVIOUS
    <3> PICK j : j = base + limit
      OBVIOUS
    <3> PICK k : k = last
      OBVIOUS
    <3>6. i <= j /\ i \in Passed(w) + 1 .. k /\ j \in Passed(w) + 1 .. k
      BY <3>3, Zenon
    <3>7. /\ Stream!Part(w, i, j)
          /\ Stream!Blank(w, Passed(w) + 1, i - 1) /\ Stream!Blank(w, j + 1, k)
      BY <3>1, <3>2, <1>7, Zenon
    <3>8. handled' = [handled EXCEPT ![w] = Append(@, <<i, j>>)]
      BY <3>4, Zenon
    <3>9. [s \in Source |-> Passed(s)]' = [[s \in Source |-> Passed(s)] EXCEPT ![w] = k]
      BY <1>5, Zenon
    <3>10. Stream!Pass(w, k)
      BY <3>5, <3>6, <3>7, <3>8, <3>9, <1>2, PassPart
    <3> QED  BY <3>10, Zenon
  <2> QED  BY <2>1, <2>2
<1> QED  BY <1>2, <1>6, <1>8

LEMMA StepImplements == IInv /\ [Next]_vars => [Stream!Next]_(Stream!vars)
<1> SUFFICES ASSUME IInv, [Next]_vars PROVE Stream!Next \/ UNCHANGED Stream!vars
  OBVIOUS
<1>1. ASSUME NEW s \in Source, NEW k \in Kind, Arrive(s, k) PROVE Stream!Next
  BY <1>1, ArriveImplements DEF Stream!Next
<1>2. ASSUME NEW n \in 1 .. MAX_READ_SIZE, ReadSome(n) PROVE Stream!Next
  BY <1>2, ReadSomeImplements DEF Stream!Next
<1>3. ASSUME \E s \in Source : \E k \in Passed(s) .. taken[s] : Stream!Pass(s, k)
      PROVE  Stream!Next
  BY <1>3 DEF Stream!Next
<1>4. CASE UNCHANGED vars
  BY <1>4, PassedStays DEF vars, Stream!vars, Passed
<1> QED
  BY <1>1, <1>2, <1>3, <1>4, StutterImplements, RequestImplements,
     ParsePartImplements, ParseLastImplements DEF Next, Program

(* For every buffer size and any writers, what each has written is handed  *)
(* over in order, unmixed, nothing left out and nothing twice.             *)
THEOREM FeedImplemented == Spec => ImplementsFeed
<1>1. Init => Stream!Init
  <2> SUFFICES ASSUME Init PROVE Stream!Init
    OBVIOUS
  <2>1. \A s \in Source : Passed(s) = 0
    BY SourceAssumption DEF Init, Passed
  <2> QED  BY <2>1 DEF Init, Stream!Init
<1>2. IInv /\ [Next]_vars => [Stream!Next]_(Stream!vars)
  BY StepImplements
<1> QED  BY <1>1, <1>2, Invariance, PTL DEF Spec, ImplementsFeed, Stream!Spec
=============================================================================
