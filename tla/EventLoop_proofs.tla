-------------------------- MODULE EventLoop_proofs --------------------------
(***************************************************************************)
(* Theorems about EventLoop for any number of descriptors and connections, *)
(* with and without TLS.                                                   *)
(*                                                                         *)
(* Every handler but those that accept closes some descriptors and reads   *)
(* others; lemma ClosingKeeps says once what such a step keeps, and the    *)
(* handlers are instances of it.                                           *)
(***************************************************************************)
EXTENDS EventLoop, SequenceTheorems, TLAPS

(* What has not been accepted, or is closed, has nothing to read.          *)
Silent ==
  \A c \in Conn : net[c] \in {"unborn", "backlog", "gone"} => unread[c] = 0

(* A batch is empty unless events are handled, it has one event for a      *)
(* descriptor, and only connections hang up.                               *)
Batches ==
  /\ loop \in {"timeouts", "wait"} => batch = {}
  /\ \A e1, e2 \in batch : e1.fd = e2.fd => e1 = e2
  /\ \A e \in batch : e.hup => e.fd \in Fd

(* Without a clean-up, the descriptors of the batch are open still, and    *)
(* not for another connection: none of them can be handed out again.       *)
Fresh ==
  ~cleaned =>
    \A e \in batch : e.fd \in Fd => e.fd \in DOMAIN sock /\ sock[e.fd] = e.conn

(* Each client has one record. *)
SlotsFit == slots \in Seq(Fd) /\ slots \in Bijection(1 .. Len(slots), DOMAIN client)

IInv == TypeOK /\ ListsAgree /\ EdgesKept /\ Silent /\ Batches /\ Fresh

-----------------------------------------------------------------------------
(***************************************************************************)
(* What closing and reading descriptors keeps.                             *)
(***************************************************************************)

(* The connections of different descriptors are different, so that closing *)
(* some leaves the connections of the others as they are.                  *)
LEMMA OthersStay ==
  ASSUME TypeOK, ListsAgree,
         NEW S \in SUBSET Fd, NEW R \in SUBSET Conn, Closed(S, R),
         NEW fd \in DOMAIN sock \ S
  PROVE  /\ sock'[fd] = sock[fd]
         /\ net'[sock[fd]] = net[sock[fd]]
         /\ unread'[sock[fd]] = IF sock[fd] \in R THEN 0 ELSE unread[sock[fd]]
<1> DEFINE gone == {sock[x] : x \in S \intersect DOMAIN sock}
<1>1. sock[fd] \in Conn
  BY DEF TypeOK
<1>2. sock[fd] \notin gone
  BY DEF ListsAgree
<1>3. /\ net' = [c \in Conn |-> IF c \in gone THEN "gone" ELSE net[c]]
      /\ unread' = [c \in Conn |-> IF c \in gone \union R THEN 0 ELSE unread[c]]
      /\ sock' = Without(sock, S)
  BY DEF Closed
<1>4. sock'[fd] = sock[fd]
  BY <1>3 DEF Without
<1> HIDE DEF gone
<1> QED
  BY <1>1, <1>2, <1>3, <1>4

(* Closing descriptors and taking them off the program's lists keeps the   *)
(* types, the agreement of the lists with the kernel, and the silence of   *)
(* what is closed.                                                         *)
LEMMA ClosingKeeps ==
  ASSUME TypeOK, ListsAgree, Silent,
         NEW S \in SUBSET Fd, NEW R \in SUBSET Conn, Closed(S, R),
         DOMAIN client' = DOMAIN client \ S,
         client' \in [DOMAIN client' -> {"NEW", "COMM"}], SlotsFit',
         comm' = comm \ S, overdue' \subseteq overdue \ S
  PROVE  /\ net' \in [Conn -> NetState] /\ unread' \in [Conn -> Nat]
         /\ DOMAIN sock' = DOMAIN sock \ S /\ sock' \in [DOMAIN sock' -> Conn]
         /\ ready' = ready \ S
         /\ ListsAgree' /\ Silent'
<1> DEFINE gone == {sock[x] : x \in S \intersect DOMAIN sock}
<1>1. /\ net' = [c \in Conn |-> IF c \in gone THEN "gone" ELSE net[c]]
      /\ unread' = [c \in Conn |-> IF c \in gone \union R THEN 0 ELSE unread[c]]
      /\ sock' = Without(sock, S)
      /\ ready' = ready \ S
  BY DEF Closed
<1>2. DOMAIN sock' = DOMAIN sock \ S /\ \A fd \in DOMAIN sock' : sock'[fd] = sock[fd]
  BY <1>1 DEF Without
<1>3. sock' \in [DOMAIN sock' -> Conn]
  BY <1>1, <1>2 DEF TypeOK, Without
<1>4. ListsAgree'
  <2>1. /\ DOMAIN client' = {fd \in DOMAIN sock' : sock'[fd] \in SseConn}
        /\ comm' = {fd \in DOMAIN sock' : sock'[fd] \in CommConn}
    BY <1>2 DEF ListsAgree
  <2>2. \A fd1, fd2 \in DOMAIN sock' : sock'[fd1] = sock'[fd2] => fd1 = fd2
    BY <1>2 DEF ListsAgree
  <2>3. \A fd \in DOMAIN sock' : net'[sock'[fd]] \in {"open", "fin", "reset"}
    BY <1>2, OthersStay DEF ListsAgree
  <2>4. overdue' \subseteq DOMAIN client'
    BY DEF ListsAgree
  <2> QED
    BY <2>1, <2>2, <2>3, <2>4 DEF ListsAgree, SlotsFit
<1> HIDE DEF gone
<1>5. net' \in [Conn -> NetState] /\ unread' \in [Conn -> Nat]
  BY <1>1 DEF TypeOK, NetState
<1>6. Silent'
  BY <1>1 DEF Silent, TypeOK
<1> QED
  BY <1>1, <1>2, <1>3, <1>4, <1>5, <1>6

(* Closing and reading loses no edge: what can still be read is on a       *)
(* descriptor that was neither closed nor read to the end.                 *)
LEMMA ClosingKeepsEdges ==
  ASSUME TypeOK, ListsAgree, EdgesKept,
         NEW S \in SUBSET Fd, NEW R \in SUBSET Conn, Closed(S, R),
         NEW fd \in DOMAIN sock', HasInput(sock[fd])'
  PROVE  fd \in ready' \/ \E e \in batch : e.fd = fd
<1>1. fd \in DOMAIN sock \ S /\ ready' = ready \ S
  BY DEF Closed, Without
<1>2. sock'[fd] = sock[fd] /\ sock[fd] \in Conn
  BY <1>1, OthersStay DEF TypeOK
<1>3. HasInput(sock[fd])
  BY <1>1, <1>2, OthersStay DEF HasInput, TypeOK
<1> QED
  BY <1>1, <1>3 DEF EdgesKept

(* An event that is handled may be forgotten: its descriptor is closed, or *)
(* read to the end.  Any other closing in a batch is a clean-up's.         *)
LEMMA HandledKeeps ==
  ASSUME IInv,
         NEW e, Handled(e),
         NEW S \in SUBSET Fd, NEW R \in SUBSET Conn, Closed(S, R),
         DOMAIN client' = DOMAIN client \ S,
         client' \in [DOMAIN client' -> {"NEW", "COMM"}], SlotsFit',
         comm' = comm \ S, overdue' \subseteq overdue \ S,
         e.fd \in DOMAIN sock \ S =>
           sock[e.fd] \in R /\ net[sock[e.fd]] \notin {"fin", "reset"},
         fifoData' \in BOOLEAN, flooded' \in BOOLEAN,
         e.fd = fifo => (fifoData' => flooded'),
         e.fd # fifo => fifoData' = fifoData /\ flooded' = flooded,
         cleaned' \in BOOLEAN,
         ~cleaned' => ~cleaned /\ S \subseteq {e.fd}
  PROVE  IInv'
<1> USE DEF IInv
<1>1. /\ loop = "events" /\ e \in batch /\ batch' = batch \ {e}
      /\ loop' = IF batch = {e} THEN "timeouts" ELSE "events"
      /\ checkDue' = checkDue
  BY DEF Handled
<1>2. /\ net' \in [Conn -> NetState] /\ unread' \in [Conn -> Nat]
      /\ DOMAIN sock' = DOMAIN sock \ S /\ sock' \in [DOMAIN sock' -> Conn]
      /\ ready' = ready \ S
      /\ ListsAgree' /\ Silent'
  BY ClosingKeeps
<1>3. TypeOK'
  BY <1>1, <1>2 DEF TypeOK, SlotsFit
<1>4. EdgesKept'
  <2>1. ASSUME NEW fd \in DOMAIN sock', HasInput(sock[fd])'
        PROVE  fd \in ready' \/ \E x \in batch' : x.fd = fd
    <3>1. fd \in ready' \/ \E x \in batch : x.fd = fd
      BY <2>1, ClosingKeepsEdges
    <3>2. fd # e.fd
      <4> SUFFICES ASSUME fd = e.fd PROVE FALSE
        OBVIOUS
      <4>1. /\ fd \in DOMAIN sock \ S /\ sock[fd] \in R
            /\ net[sock[fd]] \notin {"fin", "reset"}
        BY <1>2, <2>1
      <4>2. /\ sock'[fd] = sock[fd] /\ unread'[sock[fd]] = 0
            /\ net'[sock[fd]] = net[sock[fd]]
        BY <4>1, OthersStay
      <4> QED
        BY <2>1, <4>1, <4>2 DEF HasInput
    <3> QED
      BY <1>1, <3>1, <3>2
  <2>2. fifoData' => fifo \in ready' \/ flooded' \/ \E x \in batch' : x.fd = fifo
    <3>1. fifo \notin Fd
      BY FdAssumption
    <3> QED
      BY <1>1, <1>2, <3>1 DEF EdgesKept
  <2> QED
    BY <2>1, <2>2 DEF EdgesKept
<1>5. Batches'
  BY <1>1 DEF Batches
<1>6. Fresh'
  <2> SUFFICES ASSUME ~cleaned', NEW x \in batch', x.fd \in Fd
               PROVE  x.fd \in DOMAIN sock' /\ sock'[x.fd] = x.conn
    BY DEF Fresh
  <2>1. x \in batch /\ x.fd # e.fd
    BY <1>1 DEF Batches
  <2>2. x.fd \in DOMAIN sock \ S /\ sock[x.fd] = x.conn
    BY <2>1 DEF Fresh
  <2> QED
    BY <1>2, <2>2, OthersStay
<1> QED
  BY <1>2, <1>3, <1>4, <1>5, <1>6

-----------------------------------------------------------------------------
(***************************************************************************)
(* The handlers.                                                           *)
(***************************************************************************)

(* No descriptor is on both lists.                                         *)
LEMMA OneList ==
  ASSUME ListsAgree
  PROVE  DOMAIN client \intersect comm = {}
BY ConnAssumption DEF ListsAgree

(* client_del leaves the clients that are not deleted, with one record for *)
(* each of them.                                                           *)
LEMMA RecordsLeft ==
  ASSUME TypeOK, NEW S, RecordsDeleted(S)
  PROVE  /\ DOMAIN client' = DOMAIN client \ S
         /\ client' \in [DOMAIN client' -> {"NEW", "COMM"}]
         /\ overdue' = overdue \ S
         /\ SlotsFit'
<1>1. client' = Without(client, S) /\ overdue' = overdue \ S
  BY DEF RecordsDeleted
<1>2. DOMAIN client' = DOMAIN client \ S /\ client' \in [DOMAIN client' -> {"NEW", "COMM"}]
  BY <1>1 DEF TypeOK, Without
<1>3. PICK n \in 0 .. Len(slots) : slots' \in Bijection(1 .. n, DOMAIN client \ S)
  BY DEF RecordsDeleted
<1>4. n \in Nat /\ slots' \in [1 .. n -> DOMAIN client \ S]
  <2>1. Len(slots) \in Nat
    BY DEF TypeOK
  <2> QED
    BY <1>3, <2>1 DEF Bijection, Injection
<1>5. slots' \in Seq(Fd) /\ Len(slots') = n
  <2>1. slots' \in [1 .. n -> Fd]
    BY <1>4 DEF TypeOK
  <2>2. slots' \in Seq(Fd)
    BY <1>4, <2>1, SeqDef
  <2>3. DOMAIN slots' = 1 .. Len(slots') /\ DOMAIN slots' = 1 .. n
    BY <2>1, <2>2, LenProperties
  <2> QED
    BY <1>4, <2>2, <2>3, LenProperties
<1> QED
  BY <1>1, <1>2, <1>3, <1>5 DEF SlotsFit

(* A handler that closes its own descriptor and does nothing else.         *)
LEMMA OwnClosed ==
  ASSUME IInv, NEW e, Handled(e), e.fd \in Fd, Closed({e.fd}, {}),
         DOMAIN client' = DOMAIN client \ {e.fd},
         client' \in [DOMAIN client' -> {"NEW", "COMM"}], SlotsFit',
         comm' = comm \ {e.fd}, overdue' \subseteq overdue \ {e.fd},
         fifoData' = fifoData, UNCHANGED history
  PROVE  IInv'
<1> DEFINE S == {e.fd}
           R == {}
<1>1. S \in SUBSET Fd /\ R \in SUBSET Conn /\ Closed(S, R)
  OBVIOUS
<1>2. /\ DOMAIN client' = DOMAIN client \ S
      /\ comm' = comm \ S /\ overdue' \subseteq overdue \ S
  OBVIOUS
<1>3. e.fd # fifo
  BY FdAssumption
<1>4. e.fd \notin DOMAIN sock \ S /\ S \subseteq {e.fd}
  OBVIOUS
<1>5. /\ cleaned' = cleaned /\ cleaned' \in BOOLEAN
      /\ flooded' = flooded /\ flooded' \in BOOLEAN /\ fifoData' \in BOOLEAN
  BY DEF IInv, TypeOK, history
<1> HIDE DEF S, R
<1> QED
  BY <1>1, <1>2, <1>3, <1>4, <1>5, HandledKeeps

LEMMA HangUpKeeps ==
  ASSUME IInv, NEW e \in batch, HangUp(e)
  PROVE  IInv'
<1>1. e.fd \in Fd
  BY DEF HangUp, IInv, Batches
<1>2. Handled(e) /\ UNCHANGED history /\ fifoData' = fifoData /\ e.fd # fifo
  BY <1>1, FdAssumption DEF HangUp
<1>3. CASE e.fd \in comm /\ CommClosed(e.fd)
  <2>1. /\ Closed({e.fd}, {}) /\ client' = client /\ overdue' = overdue
        /\ slots' = slots /\ comm' = comm \ {e.fd}
    BY <1>3 DEF CommClosed
  <2>2. /\ DOMAIN client' = DOMAIN client \ {e.fd}
        /\ client' \in [DOMAIN client' -> {"NEW", "COMM"}]
        /\ overdue' \subseteq overdue \ {e.fd}
    BY <1>3, <2>1, OneList DEF IInv, TypeOK, ListsAgree
  <2>3. SlotsFit'
    BY <2>1 DEF IInv, TypeOK, ListsAgree, SlotsFit
  <2> QED
    BY <1>1, <1>2, <2>1, <2>2, <2>3, OwnClosed
<1>4. CASE e.fd \notin comm /\ ClientsClosed({e.fd}, {})
  <2>1. Closed({e.fd}, {}) /\ RecordsDeleted({e.fd}) /\ comm' = comm \ {e.fd}
    BY <1>4 DEF ClientsClosed
  <2>2. /\ DOMAIN client' = DOMAIN client \ {e.fd}
        /\ client' \in [DOMAIN client' -> {"NEW", "COMM"}]
        /\ overdue' = overdue \ {e.fd} /\ SlotsFit'
    BY <2>1, RecordsLeft DEF IInv
  <2> QED
    BY <1>1, <1>2, <2>1, <2>2, OwnClosed
<1> QED
  BY <1>3, <1>4 DEF HangUp

LEMMA ReadFifoKeeps ==
  ASSUME IInv, NEW e \in batch, ReadFifo(e)
  PROVE  IInv'
<1>1. PICK failed \in Failing :
        ClientsClosed(failed, {}) /\ cleaned' = (cleaned \/ failed # {})
  BY DEF ReadFifo
<1>2. /\ Handled(e) /\ e.fd = fifo /\ fifo \notin Fd
      /\ fifoData' \in {FALSE, fifoData} /\ flooded' = fifoData'
  BY FdAssumption DEF ReadFifo
<1>3. failed \subseteq DOMAIN client /\ failed \in SUBSET Fd
  BY DEF Failing, IInv, TypeOK
<1>4. Closed(failed, {}) /\ RecordsDeleted(failed) /\ comm' = comm \ failed
  BY <1>1, <1>3, OneList DEF ClientsClosed, IInv
<1>5. /\ DOMAIN client' = DOMAIN client \ failed
      /\ client' \in [DOMAIN client' -> {"NEW", "COMM"}]
      /\ overdue' = overdue \ failed /\ SlotsFit'
  BY <1>4, RecordsLeft DEF IInv
<1>6. /\ cleaned' \in BOOLEAN /\ fifoData' \in BOOLEAN /\ flooded' \in BOOLEAN
      /\ ~cleaned' => ~cleaned /\ failed \subseteq {e.fd}
  BY <1>1, <1>2 DEF IInv, TypeOK
<1>7. e.fd \notin DOMAIN sock
  BY <1>2 DEF IInv, TypeOK
<1> QED
  BY <1>2, <1>3, <1>4, <1>5, <1>6, <1>7, HandledKeeps

LEMMA ReadCommKeeps ==
  ASSUME IInv, NEW e \in batch, ReadComm(e)
  PROVE  IInv'
<1>1. PICK failed \in Failing, done \in TakenForEnd(e.fd) :
        /\ Closed(failed \union {x \in {e.fd} : done}, ConnOf(e.fd))
        /\ RecordsDeleted(failed)
        /\ comm' = comm \ {x \in {e.fd} : done}
        /\ cleaned' = (cleaned \/ failed # {})
  BY DEF ReadComm
<1> DEFINE left == {x \in {e.fd} : done}
           S == failed \union left
<1>2. /\ Handled(e) /\ e.fd \in comm /\ e.fd \in Fd /\ e.fd # fifo
      /\ fifoData' = fifoData /\ flooded' = flooded
  BY FdAssumption DEF ReadComm, IInv, TypeOK
<1>3. failed \subseteq DOMAIN client /\ S \in SUBSET Fd /\ left \subseteq {e.fd}
  BY <1>2 DEF Failing, IInv, TypeOK
<1>4. left \intersect DOMAIN client = {} /\ failed \intersect comm = {}
  BY <1>2, <1>3, OneList DEF IInv
<1>5. /\ DOMAIN client' = DOMAIN client \ failed
      /\ client' \in [DOMAIN client' -> {"NEW", "COMM"}]
      /\ overdue' = overdue \ failed /\ SlotsFit'
  BY <1>1, RecordsLeft DEF IInv
<1>6. ConnOf(e.fd) \in SUBSET Conn
  BY DEF ConnOf, IInv, TypeOK
<1>7. e.fd \in DOMAIN sock \ S =>
        sock[e.fd] \in ConnOf(e.fd) /\ net[sock[e.fd]] \notin {"fin", "reset"}
  BY DEF TakenForEnd, ReadFails, ConnOf
<1>8. /\ cleaned' \in BOOLEAN /\ fifoData' \in BOOLEAN /\ flooded' \in BOOLEAN
      /\ ~cleaned' => ~cleaned /\ S \subseteq {e.fd}
  BY <1>1, <1>2, <1>3 DEF IInv, TypeOK
<1>9. /\ Closed(S, ConnOf(e.fd)) /\ DOMAIN client' = DOMAIN client \ S
      /\ comm' = comm \ S /\ overdue' \subseteq overdue \ S
  BY <1>1, <1>4, <1>5 DEF IInv, ListsAgree
<1> HIDE DEF S
<1> QED
  BY <1>2, <1>3, <1>5, <1>6, <1>7, <1>8, <1>9, HandledKeeps

LEMMA ReadSseKeeps ==
  ASSUME IInv, NEW e \in batch, ReadSse(e)
  PROVE  IInv'
<1>1. /\ Handled(e) /\ e.fd \in Fd \ comm /\ e.fd # fifo
      /\ fifoData' = fifoData /\ UNCHANGED history
      /\ cleaned' = cleaned /\ cleaned' \in BOOLEAN
      /\ flooded' = flooded /\ flooded' \in BOOLEAN /\ fifoData' \in BOOLEAN
  BY FdAssumption DEF ReadSse, IInv, TypeOK, history
<1>2. ConnOf(e.fd) \in SUBSET Conn
  BY DEF ConnOf, IInv, TypeOK
<1>3. CASE ClientsClosed({e.fd}, {})
  <2>1. Closed({e.fd}, {}) /\ RecordsDeleted({e.fd}) /\ comm' = comm \ {e.fd}
    BY <1>1, <1>3 DEF ClientsClosed
  <2>2. /\ DOMAIN client' = DOMAIN client \ {e.fd}
        /\ client' \in [DOMAIN client' -> {"NEW", "COMM"}]
        /\ overdue' = overdue \ {e.fd} /\ SlotsFit'
    BY <2>1, RecordsLeft DEF IInv
  <2> QED
    BY <1>1, <2>1, <2>2, OwnClosed
<1>4. CASE ~ReadFails(e.fd) /\ (Ignores(e.fd) \/ Starts(e.fd))
  <2>1. e.fd \in DOMAIN sock => /\ sock[e.fd] \in ConnOf(e.fd)
                                /\ net[sock[e.fd]] \notin {"fin", "reset"}
    BY <1>4 DEF ReadFails, ConnOf
  <2>2. /\ Closed({}, ConnOf(e.fd)) /\ comm' = comm \ {} /\ overdue' \subseteq overdue \ {}
        /\ DOMAIN client' = DOMAIN client \ {}
        /\ client' \in [DOMAIN client' -> {"NEW", "COMM"}] /\ SlotsFit'
    <3>1. CASE Ignores(e.fd)
      <4>1. Closed({}, ConnOf(e.fd)) /\ RecordsDeleted({}) /\ comm' = comm
        BY <3>1 DEF Ignores, ClientsClosed
      <4> QED
        BY <4>1, RecordsLeft DEF IInv
    <3>2. CASE Starts(e.fd)
      BY <3>2 DEF Starts, IInv, TypeOK, ListsAgree, SlotsFit
    <3> QED
      BY <1>4, <3>1, <3>2
  <2> QED
    BY <1>1, <1>2, <2>1, <2>2, HandledKeeps
<1> QED
  BY <1>3, <1>4 DEF ReadSse, Refuses, TakenForEnd

(* When the process dies nothing else happens any more. *)
LEMMA DiesKeeps ==
  ASSUME IInv, NEW e \in batch, Dies(e)
  PROVE  IInv'
BY DEF Dies, kernelVars, listVars, history, IInv, TypeOK, ListsAgree, EdgesKept,
       HasInput, Silent, Batches, Fresh

LEMMA AcceptEventKeeps ==
  ASSUME IInv, NEW e \in batch, AcceptEvent(e)
  PROVE  IInv'
<1> USE DEF IInv
<1>1. /\ e.fd \in Listening /\ batch' = batch \ {e}
      /\ loop' = IF e.fd = sfd THEN "acceptSse" ELSE "acceptComm"
      /\ UNCHANGED <<net, unread, fifoData, sock, ready, client, slots, comm,
                     overdue, checkDue, cleaned, flooded>>
  BY DEF AcceptEvent, kernelVars, listVars, history
<1>2. e.fd \notin Fd /\ e.fd # fifo
  BY <1>1, FdAssumption DEF Listening
<1>3. TypeOK'
  BY <1>1 DEF TypeOK
<1>4. ListsAgree' /\ Silent'
  BY <1>1 DEF ListsAgree, Silent
<1>5. EdgesKept'
  BY <1>1, <1>2 DEF EdgesKept, HasInput, TypeOK
<1>6. Batches' /\ Fresh'
  BY <1>1 DEF Batches, Fresh
<1> QED
  BY <1>3, <1>4, <1>5, <1>6

-----------------------------------------------------------------------------
(***************************************************************************)
(* The rest of the loop.                                                   *)
(***************************************************************************)

LEMMA CheckTimeoutsKeeps ==
  ASSUME IInv, checkTimeouts
  PROVE  IInv'
<1> USE DEF IInv
<1>1. /\ loop = "timeouts" /\ loop' = "wait" /\ batch = {} /\ batch' = {}
      /\ fifoData' = fifoData /\ cleaned' = cleaned /\ flooded' = flooded
  BY DEF checkTimeouts, Batches, history
<1>2. Batches' /\ Fresh'
  BY <1>1 DEF Batches, Fresh
<1>3. CASE UNCHANGED <<net, unread, sock, ready, client, slots, comm, overdue, checkDue>>
  BY <1>1, <1>2, <1>3 DEF TypeOK, ListsAgree, EdgesKept, Silent, HasInput
<1>4. CASE checkDue' = FALSE /\ ClientsClosed(overdue, {})
  <2> DEFINE S == overdue
             R == {}
  <2>1. S \in SUBSET Fd /\ S \subseteq DOMAIN client /\ R \in SUBSET Conn
    BY DEF TypeOK, ListsAgree
  <2>2. Closed(S, R) /\ RecordsDeleted(S) /\ comm' = comm \ S
    BY <1>4, <2>1, OneList DEF ClientsClosed
  <2>3. /\ DOMAIN client' = DOMAIN client \ S
        /\ client' \in [DOMAIN client' -> {"NEW", "COMM"}] /\ SlotsFit'
    BY <2>2, RecordsLeft
  <2>4. overdue' \subseteq overdue \ S
    BY <2>2, RecordsLeft
  <2> HIDE DEF S, R
  <2>5. /\ net' \in [Conn -> NetState] /\ unread' \in [Conn -> Nat]
        /\ DOMAIN sock' = DOMAIN sock \ S /\ sock' \in [DOMAIN sock' -> Conn]
        /\ ready' = ready \ S
        /\ ListsAgree' /\ Silent'
    BY <2>1, <2>2, <2>3, <2>4, ClosingKeeps
  <2>6. TypeOK'
    BY <1>1, <1>4, <2>2, <2>3, <2>4, <2>5 DEF TypeOK, SlotsFit
  <2>7. EdgesKept'
    <3>1. ASSUME NEW fd \in DOMAIN sock', HasInput(sock[fd])'
          PROVE  fd \in ready' \/ \E x \in batch' : x.fd = fd
      BY <1>1, <2>1, <2>2, <3>1, ClosingKeepsEdges
    <3>2. fifoData' => fifo \in ready' \/ flooded'
      BY <1>1, <2>1, <2>5, FdAssumption DEF EdgesKept
    <3> QED
      BY <3>1, <3>2 DEF EdgesKept
  <2> QED
    BY <1>2, <2>5, <2>6, <2>7
<1> QED
  BY <1>3, <1>4 DEF checkTimeouts, listVars

(* The events epoll_wait reports are at most one for each descriptor, and  *)
(* those of connections are of the ones their descriptors stand for.       *)
LEMMA ReportedEvents ==
  ASSUME TypeOK
  PROVE  /\ Reported \subseteq Event
         /\ \A e1, e2 \in Reported : e1.fd = e2.fd => e1 = e2
         /\ \A e \in Reported : e.hup => e.fd \in Fd
         /\ \A e \in Reported : e.fd \in Fd => e.fd \in DOMAIN sock /\ sock[e.fd] = e.conn
<1> DEFINE A == {[fd |-> fd, hup |-> net[sock[fd]] = "reset", conn |-> sock[fd]] :
                   fd \in {x \in ready \intersect DOMAIN sock : HasInput(sock[x])}}
           B == {[fd |-> l, hup |-> FALSE, conn |-> NoConn] :
                   l \in {x \in ready \intersect Listening : Backlog(x) # {}}}
           C == {[fd |-> fifo, hup |-> FALSE, conn |-> NoConn] :
                   x \in {y \in ready \intersect {fifo} : fifoData}}
<1>1. Reported = A \union B \union C
  BY DEF Reported
<1>2. ASSUME NEW e \in A
      PROVE  /\ e.fd \in DOMAIN sock /\ e.fd \in Fd /\ e.conn = sock[e.fd]
             /\ e = [fd |-> e.fd, hup |-> net[sock[e.fd]] = "reset", conn |-> sock[e.fd]]
             /\ e \in Event
  <2>1. PICK fd \in DOMAIN sock :
          e = [fd |-> fd, hup |-> net[sock[fd]] = "reset", conn |-> sock[fd]]
    BY Zenon
  <2>2. e.fd = fd /\ e.conn = sock[fd] /\ fd \in Fd /\ sock[fd] \in Conn
    BY <2>1 DEF TypeOK
  <2>3. (net[sock[fd]] = "reset") \in BOOLEAN
    OBVIOUS
  <2>4. e \in Event
    BY <2>1, <2>2, <2>3 DEF Event
  <2> QED
    BY <2>1, <2>2, <2>4
<1>3. ASSUME NEW e \in B
      PROVE  /\ e.fd \in Listening /\ ~e.hup /\ e \in Event
             /\ e = [fd |-> e.fd, hup |-> FALSE, conn |-> NoConn]
  <2>1. PICK l \in Listening : e = [fd |-> l, hup |-> FALSE, conn |-> NoConn]
    BY Zenon
  <2> QED
    BY <2>1 DEF Event
<1>4. ASSUME NEW e \in C
      PROVE  /\ e.fd = fifo /\ ~e.hup /\ e \in Event
             /\ e = [fd |-> fifo, hup |-> FALSE, conn |-> NoConn]
  <2>1. e = [fd |-> fifo, hup |-> FALSE, conn |-> NoConn]
    BY Zenon
  <2> QED
    BY <2>1 DEF Event
<1>5. Listening \intersect Fd = {} /\ fifo \notin Fd /\ fifo \notin Listening
  BY FdAssumption DEF Listening
<1> HIDE DEF A, B, C
<1>6. \A e1, e2 \in Reported : e1.fd = e2.fd => e1 = e2
  <2> SUFFICES ASSUME NEW e1 \in Reported, NEW e2 \in Reported, e1.fd = e2.fd
               PROVE  e1 = e2
    OBVIOUS
  <2>1. CASE e1 \in A /\ e2 \in A
    BY <1>2, <2>1, Zenon
  <2>2. CASE e1 \in B /\ e2 \in B
    BY <1>3, <2>2, Zenon
  <2>3. CASE e1 \in C /\ e2 \in C
    BY <1>4, <2>3, Zenon
  <2> QED
    BY <1>1, <1>2, <1>3, <1>4, <1>5, <2>1, <2>2, <2>3
<1> QED
  BY <1>1, <1>2, <1>3, <1>4, <1>5, <1>6

LEMMA EpollWaitKeeps ==
  ASSUME IInv, epoll_wait
  PROVE  IInv'
<1> USE DEF IInv
<1>1. /\ loop = "wait" /\ loop' = "events" /\ batch = {} /\ batch' = Reported
      /\ ready' = {} /\ cleaned' = FALSE
      /\ UNCHANGED <<net, unread, fifoData, sock, client, slots, comm, overdue,
                     checkDue, flooded>>
  BY DEF epoll_wait, Batches, listVars
<1>2. /\ batch' \subseteq Event
      /\ \A e1, e2 \in batch' : e1.fd = e2.fd => e1 = e2
      /\ \A e \in batch' : e.hup => e.fd \in Fd
      /\ \A e \in batch' : e.fd \in Fd => e.fd \in DOMAIN sock /\ sock[e.fd] = e.conn
  BY <1>1, ReportedEvents
<1>3. TypeOK'
  BY <1>1, <1>2 DEF TypeOK
<1>4. ListsAgree' /\ Silent'
  BY <1>1 DEF ListsAgree, Silent
<1>5. EdgesKept'
  <2>1. ASSUME NEW fd \in DOMAIN sock, HasInput(sock[fd])
        PROVE  \E e \in batch' : e.fd = fd
    <3>1. fd \in {x \in ready \intersect DOMAIN sock : HasInput(sock[x])}
      BY <1>1, <2>1 DEF EdgesKept
    <3>2. [fd |-> fd, hup |-> net[sock[fd]] = "reset", conn |-> sock[fd]] \in batch'
      BY <1>1, <3>1 DEF Reported
    <3> QED
      BY <3>2
  <2>2. ASSUME fifoData, ~flooded
        PROVE  \E e \in batch' : e.fd = fifo
    <3>1. fifo \in {y \in ready \intersect {fifo} : fifoData}
      BY <1>1, <2>2 DEF EdgesKept
    <3>2. [fd |-> fifo, hup |-> FALSE, conn |-> NoConn] \in batch'
      BY <1>1, <3>1 DEF Reported
    <3> QED
      BY <3>2
  <2> QED
    BY <1>1, <2>1, <2>2 DEF EdgesKept, HasInput
<1>6. Batches' /\ Fresh'
  BY <1>1, <1>2 DEF Batches, Fresh
<1> QED
  BY <1>3, <1>4, <1>5, <1>6

LEMMA AcceptEndsKeeps ==
  ASSUME IInv, AcceptEnds
  PROVE  IInv'
BY DEF IInv, AcceptEnds, kernelVars, listVars, history, TypeOK, ListsAgree, EdgesKept, HasInput,
       Silent, Batches, Fresh

LEMMA AcceptKeeps ==
  ASSUME IInv, NEW c \in Conn, NEW fd \in Fd, Accept(c, fd)
  PROVE  IInv'
<1> USE DEF IInv
<1>1. /\ Accepting /\ net[c] = "backlog" /\ fd \notin DOMAIN sock
      /\ net' = [net EXCEPT ![c] = "open"]
      /\ sock' = With(sock, fd, c)
      /\ UNCHANGED <<unread, fifoData, ready, overdue, checkDue, loop, batch,
                     cleaned, flooded>>
  BY DEF Accept, Backlog, Free, history
<1>2. \/ /\ c \in SseConn /\ client' = With(client, fd, "NEW") /\ comm' = comm
         /\ slots' = Append(slots, fd)
      \/ /\ c \in CommConn /\ comm' = comm \union {fd} /\ client' = client
         /\ slots' = slots
  BY DEF Accept, Backlog
<1>3. /\ DOMAIN sock' = DOMAIN sock \union {fd} /\ sock'[fd] = c
      /\ \A x \in DOMAIN sock : sock'[x] = sock[x] /\ x # fd /\ sock[x] # c
      /\ sock' \in [DOMAIN sock' -> Conn]
  <2>1. \A x \in DOMAIN sock : sock[x] # c
    BY <1>1 DEF ListsAgree
  <2> QED
    BY <1>1, <2>1 DEF With, TypeOK
<1>4. /\ fd \notin DOMAIN client /\ fd \notin comm
      /\ DOMAIN client' = IF c \in SseConn THEN DOMAIN client \union {fd} ELSE DOMAIN client
      /\ comm' = IF c \in SseConn THEN comm ELSE comm \union {fd}
      /\ client' \in [DOMAIN client' -> {"NEW", "COMM"}]
  <2>1. fd \notin DOMAIN client /\ fd \notin comm
    BY <1>1 DEF ListsAgree
  <2> QED
    BY <1>2, <2>1, ConnAssumption DEF With, TypeOK
<1>5. net'[c] = "open" /\ \A d \in Conn \ {c} : net'[d] = net[d]
  BY <1>1 DEF TypeOK
<1>6. SlotsFit'
  <2>1. CASE slots' = slots /\ DOMAIN client' = DOMAIN client
    BY <2>1 DEF SlotsFit, TypeOK, ListsAgree
  <2>2. CASE slots' = Append(slots, fd) /\ DOMAIN client' = DOMAIN client \union {fd}
    <3> DEFINE n == Len(slots)
    <3>1. slots \in Seq(Fd) /\ slots \in Bijection(1 .. n, DOMAIN client) /\ n \in Nat
      BY DEF TypeOK, ListsAgree
    <3>2. /\ slots' \in Seq(Fd) /\ Len(slots') = n + 1 /\ slots'[n + 1] = fd
          /\ \A i \in 1 .. n : slots'[i] = slots[i]
      BY <2>2, <3>1
    <3>3. /\ \A i \in 1 .. n : slots[i] \in DOMAIN client
          /\ \A i, j \in 1 .. n : slots[i] = slots[j] => i = j
          /\ \A x \in DOMAIN client : \E i \in 1 .. n : slots[i] = x
      BY <3>1 DEF Bijection, Injection, IsInjective, Surjection
    <3>4. 1 .. n + 1 = (1 .. n) \union {n + 1}
      BY <3>1
    <3>5. slots' \in [1 .. n + 1 -> DOMAIN client']
      <4>1. slots' \in [1 .. n + 1 -> Fd]
        BY <3>2, LenProperties
      <4>2. \A i \in 1 .. n + 1 : slots'[i] \in DOMAIN client'
        BY <2>2, <3>2, <3>3, <3>4
      <4> QED
        BY <4>1, <4>2
    <3>6. \A i, j \in 1 .. n + 1 : slots'[i] = slots'[j] => i = j
      BY <1>4, <3>2, <3>3, <3>4
    <3>7. \A x \in DOMAIN client' : \E i \in 1 .. n + 1 : slots'[i] = x
      BY <2>2, <3>2, <3>3, <3>4
    <3> QED
      BY <3>2, <3>5, <3>6, <3>7 DEF SlotsFit, Bijection, Injection, IsInjective, Surjection
  <2> QED
    BY <1>2, <1>4, <2>1, <2>2, ConnAssumption
<1>7. TypeOK'
  BY <1>1, <1>3, <1>4, <1>6 DEF TypeOK, NetState, SlotsFit
<1>8. ListsAgree'
  <2>1. DOMAIN client' = {x \in DOMAIN sock' : sock'[x] \in SseConn}
    BY <1>3, <1>4 DEF ListsAgree
  <2>2. comm' = {x \in DOMAIN sock' : sock'[x] \in CommConn}
    BY <1>3, <1>4, ConnAssumption DEF ListsAgree, Conn
  <2>3. \A x, y \in DOMAIN sock' : sock'[x] = sock'[y] => x = y
    BY <1>3 DEF ListsAgree
  <2>4. \A x \in DOMAIN sock' : net'[sock'[x]] \in {"open", "fin", "reset"}
    BY <1>3, <1>5 DEF ListsAgree, TypeOK
  <2>5. overdue' \subseteq DOMAIN client'
    BY <1>1, <1>4 DEF ListsAgree
  <2> QED
    BY <1>6, <2>1, <2>2, <2>3, <2>4, <2>5 DEF ListsAgree, SlotsFit
<1>9. EdgesKept'
  <2>1. ASSUME NEW x \in DOMAIN sock', HasInput(sock[x])'
        PROVE  x \in DOMAIN sock /\ HasInput(sock[x])
    <3>1. x # fd
      BY <1>1, <1>3, <1>5, <2>1 DEF HasInput, Silent, TypeOK
    <3>2. x \in DOMAIN sock /\ sock'[x] = sock[x] /\ sock[x] \in Conn \ {c}
      BY <1>3, <3>1 DEF TypeOK
    <3> QED
      BY <1>1, <1>5, <2>1, <3>2 DEF HasInput
  <2> QED
    BY <1>1, <2>1 DEF EdgesKept
<1>10. Silent'
  BY <1>1, <1>5 DEF Silent
<1>11. Batches' /\ Fresh'
  BY <1>1, <1>3 DEF Batches, Fresh, Accepting
<1> QED
  BY <1>7, <1>8, <1>9, <1>10, <1>11

-----------------------------------------------------------------------------
(***************************************************************************)
(* The environment.                                                        *)
(***************************************************************************)

LEMMA PeerConnectsKeeps ==
  ASSUME IInv, NEW c \in Conn, PeerConnects(c)
  PROVE  IInv'
<1> USE DEF IInv
<1>1. /\ net[c] = "unborn" /\ net' = [net EXCEPT ![c] = "backlog"]
      /\ ready \subseteq ready' /\ ready' \subseteq ready \union Listening
      /\ UNCHANGED <<unread, fifoData, sock, client, slots, comm, overdue,
                     checkDue, loop, batch, cleaned, flooded>>
  BY DEF PeerConnects, Listening, listVars, history
<1>2. net'[c] = "backlog" /\ \A d \in Conn \ {c} : net'[d] = net[d]
  BY <1>1 DEF TypeOK
<1>3. \A fd \in DOMAIN sock : sock[fd] \in Conn \ {c}
  BY <1>1 DEF TypeOK, ListsAgree
<1>4. TypeOK'
  BY <1>1 DEF TypeOK, NetState
<1>5. ListsAgree'
  BY <1>1, <1>2, <1>3 DEF ListsAgree
<1>6. EdgesKept'
  BY <1>1, <1>2, <1>3 DEF EdgesKept, HasInput
<1>7. Silent' /\ Batches' /\ Fresh'
  BY <1>1, <1>2 DEF Silent, Batches, Fresh
<1> QED
  BY <1>4, <1>5, <1>6, <1>7

(* What happens on an open connection, as long as its edge is noticed.     *)
LEMMA NoticedKeeps ==
  ASSUME IInv, NEW c \in Conn, Noticed(c),
         net[c] \in {"open", "fin", "reset"}, net'[c] \in {"open", "fin", "reset"},
         net' \in [Conn -> NetState], unread' \in [Conn -> Nat],
         \A d \in Conn \ {c} : net'[d] = net[d] /\ unread'[d] = unread[d],
         UNCHANGED <<fifoData, sock, client, slots, comm, overdue, checkDue,
                     loop, batch, cleaned, flooded>>
  PROVE  IInv'
<1> USE DEF IInv
<1>1. ready' = ready \union {fd \in DOMAIN sock : sock[fd] = c}
  BY DEF Noticed
<1>2. TypeOK'
  BY <1>1 DEF TypeOK
<1>3. ListsAgree'
  <2>1. \A fd \in DOMAIN sock : net'[sock[fd]] \in {"open", "fin", "reset"}
    BY DEF ListsAgree, TypeOK
  <2> QED
    BY <2>1 DEF ListsAgree
<1>4. EdgesKept'
  <2>1. ASSUME NEW fd \in DOMAIN sock, HasInput(sock[fd])'
        PROVE  fd \in ready' \/ \E e \in batch : e.fd = fd
    <3>1. CASE sock[fd] = c
      BY <1>1, <3>1
    <3>2. CASE sock[fd] # c
      <4>1. sock[fd] \in Conn \ {c}
        BY <3>2 DEF TypeOK
      <4>2. HasInput(sock[fd])
        BY <2>1, <4>1 DEF HasInput
      <4> QED
        BY <1>1, <4>2 DEF EdgesKept
    <3> QED
      BY <3>1, <3>2
  <2> QED
    BY <1>1, <2>1 DEF EdgesKept
<1>5. Silent' /\ Batches' /\ Fresh'
  BY DEF Silent, Batches, Fresh
<1> QED
  BY <1>2, <1>3, <1>4, <1>5

LEMMA PeerSendsKeeps ==
  ASSUME IInv, NEW c \in Conn, PeerSends(c)
  PROVE  IInv'
<1>1. /\ net[c] = "open" /\ net' = net /\ Noticed(c)
      /\ unread' = [unread EXCEPT ![c] = @ + 1]
      /\ UNCHANGED <<fifoData, sock, client, slots, comm, overdue, checkDue,
                     loop, batch, cleaned, flooded>>
  BY DEF PeerSends, listVars, history
<1>2. /\ net' \in [Conn -> NetState] /\ unread' \in [Conn -> Nat]
      /\ \A d \in Conn \ {c} : net'[d] = net[d] /\ unread'[d] = unread[d]
  BY <1>1 DEF IInv, TypeOK
<1> QED
  BY <1>1, <1>2, NoticedKeeps

LEMMA PeerLeavesKeeps ==
  ASSUME IInv, NEW c \in Conn, NEW how \in {"fin", "reset"}, PeerLeaves(c, how)
  PROVE  IInv'
<1>1. /\ net[c] \in {"open", "fin"} /\ net' = [net EXCEPT ![c] = how]
      /\ unread' = unread /\ Noticed(c)
      /\ UNCHANGED <<fifoData, sock, client, slots, comm, overdue, checkDue,
                     loop, batch, cleaned, flooded>>
  BY DEF PeerLeaves, listVars, history
<1>2. /\ net' \in [Conn -> NetState] /\ unread' \in [Conn -> Nat]
      /\ net'[c] \in {"open", "fin", "reset"}
      /\ \A d \in Conn \ {c} : net'[d] = net[d] /\ unread'[d] = unread[d]
  BY <1>1 DEF IInv, TypeOK, NetState
<1> QED
  BY <1>1, <1>2, NoticedKeeps

LEMMA FifoWrittenKeeps ==
  ASSUME IInv, FifoWritten
  PROVE  IInv'
BY DEF IInv, FifoWritten, listVars, TypeOK, ListsAgree, EdgesKept, HasInput, Silent,
       Batches, Fresh

LEMMA TimePassesKeeps ==
  ASSUME IInv, TimePasses
  PROVE  IInv'
<1> USE DEF IInv
<1>1. /\ overdue' \subseteq overdue \union DOMAIN client /\ checkDue' \in BOOLEAN
      /\ UNCHANGED <<net, unread, fifoData, sock, ready, client, slots, comm,
                     loop, batch, cleaned, flooded>>
  BY DEF TimePasses, kernelVars, history, TypeOK
<1>2. TypeOK' /\ ListsAgree'
  BY <1>1 DEF TypeOK, ListsAgree
<1>3. EdgesKept' /\ Silent' /\ Batches' /\ Fresh'
  BY <1>1 DEF EdgesKept, HasInput, Silent, Batches, Fresh
<1> QED
  BY <1>2, <1>3

-----------------------------------------------------------------------------
(***************************************************************************)
(* The theorems.                                                           *)
(***************************************************************************)

LEMMA InitIInv == Init => IInv
<1> SUFFICES ASSUME Init PROVE IInv
  OBVIOUS
<1>1. DOMAIN sock = {} /\ DOMAIN client = {}
  BY DEF Init
<1>2. sock \in [DOMAIN sock -> Conn] /\ client \in [DOMAIN client -> {"NEW", "COMM"}]
  <2>1. ASSUME NEW X PROVE << >> \in [{} -> X]
    OBVIOUS
  <2> QED
    BY <1>1, <2>1 DEF Init
<1>3. TypeOK
  <2>1. slots \in Seq(Fd)
    BY DEF Init
  <2>2. net \in [Conn -> NetState] /\ unread \in [Conn -> Nat]
    BY DEF Init, NetState
  <2>3. batch \subseteq Event /\ ready = {} /\ comm = {} /\ overdue = {}
    BY DEF Init
  <2>4. /\ loop = "timeouts" /\ fifoData = FALSE /\ checkDue = FALSE
        /\ cleaned = FALSE /\ flooded = FALSE
    BY DEF Init
  <2> QED
    BY <1>1, <1>2, <2>1, <2>2, <2>3, <2>4 DEF TypeOK
<1>4. slots \in Bijection(1 .. Len(slots), DOMAIN client)
  <2>1. slots = << >> /\ 1 .. Len(slots) = {}
    BY DEF Init
  <2>2. slots \in [{} -> DOMAIN client]
    BY <2>1
  <2> QED
    BY <1>1, <2>1, <2>2 DEF Bijection, Injection, IsInjective, Surjection
<1> QED
  BY <1>1, <1>3, <1>4 DEF Init, IInv, ListsAgree, EdgesKept, Silent, Batches, Fresh

LEMMA NextIInv == IInv /\ [Next]_vars => IInv'
<1> SUFFICES ASSUME IInv, [Next]_vars PROVE IInv'
  OBVIOUS
<1>1. CASE UNCHANGED vars
  BY <1>1 DEF vars, IInv, TypeOK, ListsAgree, EdgesKept, HasInput, Silent,
              Batches, Fresh
<1>2. CASE checkTimeouts \/ epoll_wait \/ AcceptEnds
  BY <1>2, CheckTimeoutsKeeps, EpollWaitKeeps, AcceptEndsKeeps
<1>3. ASSUME NEW e \in batch, HandleEvent(e) PROVE IInv'
  BY <1>3, HangUpKeeps, AcceptEventKeeps, ReadFifoKeeps, ReadCommKeeps,
     ReadSseKeeps, DiesKeeps DEF HandleEvent
<1>4. ASSUME NEW c \in Conn, NEW fd \in Fd, Accept(c, fd) PROVE IInv'
  BY <1>4, AcceptKeeps
<1>5. CASE Environment
  BY <1>5, PeerConnectsKeeps, PeerSendsKeeps, PeerLeavesKeeps,
     FifoWrittenKeeps, TimePassesKeeps DEF Environment
<1> QED
  BY <1>1, <1>2, <1>3, <1>4, <1>5 DEF Next, Loop

(* The inductive invariant of the event loop.                              *)
THEOREM Invariance == Spec => []IInv
BY InitIInv, NextIInv, PTL DEF Spec

(* Type correctness of the event loop.                                     *)
THEOREM TypeCorrect == Spec => []TypeOK
<1>1. IInv => TypeOK
  BY DEF IInv
<1> QED
  BY <1>1, Invariance, PTL

(* Over any number of connections, whatever their peers do and whatever    *)
(* events are left over in a batch, the client database and the list of    *)
(* communication clients name exactly the open descriptors (accept,        *)
(* close_client and close_communication_client as main calls them).        *)
THEOREM ListsCorrect == Spec => []ListsAgree
<1>1. IInv => ListsAgree
  BY DEF IInv
<1> QED
  BY <1>1, Invariance, PTL

(* Under edge-triggered epoll main never forgets what a connection has     *)
(* sent or that it has ended: its read loops and closings leave nothing    *)
(* behind whose edge has been consumed.  Of the FIFO they do (hasses.c:    *)
(* 884-898), but only where an event has filled input.                     *)
THEOREM EdgesCorrect == Spec => []EdgesKept
<1>1. IInv => EdgesKept
  BY DEF IInv
<1> QED
  BY <1>1, Invariance, PTL

-----------------------------------------------------------------------------
(***************************************************************************)
(* The causes of the events of a batch.                                    *)
(***************************************************************************)

(* Without a clean-up, what an event was reported for is still there: its  *)
(* connection has input or has ended, and one that hangs up was reset.     *)
Warranted ==
  ~cleaned =>
    \A e \in batch : e.fd \in Fd =>
      HasInput(e.conn) /\ (e.hup => net[e.conn] = "reset")

(* While an event is handled only its own connection is read or closed, or *)
(* a clean-up is on record.                                                *)
LEMMA HandledWarranted ==
  ASSUME IInv, Warranted, NEW e, Handled(e),
         NEW S \in SUBSET Fd, NEW R \in SUBSET Conn, Closed(S, R),
         ~cleaned' => ~cleaned /\ S \subseteq {e.fd} /\ R \subseteq ConnOf(e.fd)
  PROVE  Warranted'
<1> SUFFICES ASSUME ~cleaned', NEW x \in batch', x.fd \in Fd
             PROVE  HasInput(x.conn)' /\ (x.hup => net'[x.conn] = "reset")
  BY DEF Warranted
<1>1. x \in batch /\ x.fd # e.fd
  BY DEF Handled, IInv, Batches
<1>2. x.fd \in DOMAIN sock \ S /\ sock[x.fd] = x.conn
  BY <1>1 DEF IInv, Fresh
<1>3. sock[x.fd] \notin R
  BY <1>1, <1>2 DEF ConnOf, IInv, ListsAgree
<1>4. net'[x.conn] = net[x.conn] /\ unread'[x.conn] = unread[x.conn]
  BY <1>2, <1>3, OthersStay DEF IInv
<1> QED
  BY <1>1, <1>4 DEF Warranted, HasInput

LEMMA HandleWarranted ==
  ASSUME IInv, Warranted, NEW e \in batch, HandleEvent(e)
  PROVE  Warranted'
<1>1. ConnOf(e.fd) \in SUBSET Conn
  BY DEF ConnOf, IInv, TypeOK
<1>2. CASE HangUp(e)
  <2>1. /\ Handled(e) /\ e.fd \in Fd /\ cleaned' = cleaned
        /\ Closed({e.fd}, {})
    BY <1>2 DEF HangUp, CommClosed, ClientsClosed, IInv, Batches, history
  <2> QED
    BY <2>1, HandledWarranted
<1>3. CASE AcceptEvent(e)
  BY <1>3 DEF AcceptEvent, kernelVars, history, Warranted, HasInput
<1>4. CASE ReadFifo(e)
  <2>1. PICK failed \in Failing : /\ Closed(failed, {})
                                  /\ cleaned' = (cleaned \/ failed # {})
    BY <1>4 DEF ReadFifo, ClientsClosed
  <2>2. Handled(e) /\ failed \in SUBSET Fd
    BY <1>4 DEF ReadFifo, Failing, IInv, TypeOK
  <2> QED
    BY <2>1, <2>2, HandledWarranted
<1>5. CASE ReadComm(e)
  <2>1. PICK failed \in Failing, done \in TakenForEnd(e.fd) :
          /\ Closed(failed \union {x \in {e.fd} : done}, ConnOf(e.fd))
          /\ cleaned' = (cleaned \/ failed # {})
    BY <1>5 DEF ReadComm
  <2> DEFINE left == {x \in {e.fd} : done}
  <2>2. /\ Handled(e) /\ left \subseteq {e.fd}
        /\ failed \union left \in SUBSET Fd
    BY <1>5 DEF ReadComm, Failing, IInv, TypeOK
  <2>3. Closed(failed \union left, ConnOf(e.fd))
    BY <2>1
  <2> HIDE DEF left
  <2> QED
    BY <1>1, <2>1, <2>2, <2>3, HandledWarranted
<1>6. CASE ReadSse(e)
  <2>1. Handled(e) /\ e.fd \in Fd /\ cleaned' = cleaned
    BY <1>6 DEF ReadSse, history
  <2>2. \/ Closed({e.fd}, {}) \/ Closed({}, ConnOf(e.fd))
    BY <1>6 DEF ReadSse, Ignores, Starts, Refuses, ClientsClosed
  <2> QED
    BY <1>1, <2>1, <2>2, HandledWarranted
<1>7. CASE Dies(e)
  BY <1>7 DEF Dies, kernelVars, history, Warranted, HasInput
<1> QED
  BY <1>2, <1>3, <1>4, <1>5, <1>6, <1>7 DEF HandleEvent

(* epoll_wait reports what has a cause.                                    *)
LEMMA WaitWarranted ==
  ASSUME IInv, epoll_wait
  PROVE  Warranted'
<1> SUFFICES ASSUME NEW e \in Reported, e.fd \in Fd
             PROVE  HasInput(e.conn) /\ (e.hup => net[e.conn] = "reset")
  BY DEF epoll_wait, Warranted, HasInput
<1>1. e.fd \notin Listening /\ e.fd # fifo
  BY FdAssumption DEF Listening
<1>2. PICK fd \in {x \in ready \intersect DOMAIN sock : HasInput(sock[x])} :
        e = [fd |-> fd, hup |-> net[sock[fd]] = "reset", conn |-> sock[fd]]
  <2> DEFINE A == {[fd |-> fd, hup |-> net[sock[fd]] = "reset", conn |-> sock[fd]] :
                     fd \in {x \in ready \intersect DOMAIN sock : HasInput(sock[x])}}
             B == {[fd |-> l, hup |-> FALSE, conn |-> NoConn] :
                     l \in {x \in ready \intersect Listening : Backlog(x) # {}}}
             C == {[fd |-> fifo, hup |-> FALSE, conn |-> NoConn] :
                     x \in {y \in ready \intersect {fifo} : fifoData}}
  <2>1. e \in A \union B \union C
    BY DEF Reported
  <2>2. e \notin B
    <3> SUFFICES ASSUME e \in B PROVE FALSE
      OBVIOUS
    <3>1. PICK l \in Listening : e = [fd |-> l, hup |-> FALSE, conn |-> NoConn]
      BY Zenon
    <3> QED
      BY <1>1, <3>1
  <2>3. e \notin C
    <3> SUFFICES ASSUME e \in C PROVE FALSE
      OBVIOUS
    <3>1. e = [fd |-> fifo, hup |-> FALSE, conn |-> NoConn]
      BY Zenon
    <3> QED
      BY <1>1, <3>1
  <2>4. e \in A
    <3> HIDE DEF A, B, C
    <3> QED
      BY <2>1, <2>2, <2>3
  <2> QED
    BY <2>4, Zenon
<1>3. e.conn = sock[fd] /\ e.hup = (net[sock[fd]] = "reset")
  BY <1>2
<1> QED
  BY <1>2, <1>3

(* What peers do takes no cause away.                                      *)
LEMMA EnvironmentWarranted ==
  ASSUME IInv, Warranted, Environment
  PROVE  Warranted'
<1> SUFFICES ASSUME ~cleaned', NEW e \in batch', e.fd \in Fd
             PROVE  HasInput(e.conn)' /\ (e.hup => net'[e.conn] = "reset")
  BY DEF Warranted
<1>1. batch' = batch /\ cleaned' = cleaned
  BY DEF Environment, PeerConnects, PeerSends, PeerLeaves, FifoWritten, TimePasses,
         history
<1>2. /\ e.conn \in Conn /\ net[e.conn] \in {"open", "fin", "reset"}
      /\ HasInput(e.conn) /\ (e.hup => net[e.conn] = "reset")
      /\ net \in [Conn -> NetState] /\ unread \in [Conn -> Nat]
  BY <1>1 DEF IInv, Fresh, TypeOK, ListsAgree, Warranted
<1>3. ASSUME NEW c \in Conn, PeerConnects(c)
      PROVE  net'[e.conn] = net[e.conn] /\ unread' = unread
  BY <1>2, <1>3 DEF PeerConnects
<1>4. ASSUME NEW c \in Conn, PeerSends(c)
      PROVE  /\ net' = net
             /\ unread'[e.conn] = unread[e.conn] \/ unread'[e.conn] = unread[e.conn] + 1
  BY <1>2, <1>4 DEF PeerSends
<1>5. ASSUME NEW c \in Conn, NEW how \in {"fin", "reset"}, PeerLeaves(c, how)
      PROVE  /\ unread' = unread
             /\ \/ net'[e.conn] = net[e.conn]
                \/ net'[e.conn] \in {"fin", "reset"} /\ net[e.conn] # "reset"
  BY <1>2, <1>5 DEF PeerLeaves
<1>6. CASE FifoWritten \/ TimePasses
  BY <1>2, <1>6 DEF FifoWritten, TimePasses, kernelVars, HasInput
<1> QED
  BY <1>2, <1>3, <1>4, <1>5, <1>6 DEF Environment, HasInput

LEMMA NextWarranted == IInv /\ Warranted /\ [Next]_vars => Warranted'
<1> SUFFICES ASSUME IInv, Warranted, [Next]_vars PROVE Warranted'
  OBVIOUS
<1>1. CASE UNCHANGED vars
  BY <1>1 DEF vars, Warranted, HasInput
<1>2. CASE checkTimeouts
  BY <1>2 DEF checkTimeouts, history, IInv, Batches, Warranted
<1>3. CASE AcceptEnds
  BY <1>3 DEF AcceptEnds, kernelVars, history, Warranted, HasInput
<1>4. ASSUME NEW c \in Conn, NEW fd \in Fd, Accept(c, fd)
      PROVE  Warranted'
  <2> SUFFICES ASSUME ~cleaned', NEW e \in batch', e.fd \in Fd
               PROVE  HasInput(e.conn)' /\ (e.hup => net'[e.conn] = "reset")
    BY DEF Warranted
  <2>1. /\ net[c] = "backlog" /\ net' = [net EXCEPT ![c] = "open"]
        /\ unread' = unread /\ batch' = batch /\ cleaned' = cleaned
    BY <1>4 DEF Accept, Backlog, history
  <2>2. /\ e.conn \in Conn /\ net[e.conn] \in {"open", "fin", "reset"}
        /\ HasInput(e.conn) /\ (e.hup => net[e.conn] = "reset")
    BY <2>1 DEF IInv, Fresh, TypeOK, ListsAgree, Warranted
  <2>3. net'[e.conn] = net[e.conn]
    BY <2>1, <2>2 DEF IInv, TypeOK
  <2> QED
    BY <2>1, <2>2, <2>3 DEF HasInput
<1> QED
  BY <1>1, <1>2, <1>3, <1>4, HandleWarranted, WaitWarranted, EnvironmentWarranted
  DEF Next, Loop

(* Unless a clean-up has closed clients, what an event of the batch was     *)
(* reported for is still there when its turn comes.                        *)
THEOREM WarrantedInvariance == Spec => []Warranted
<1>1. Init => Warranted
  BY DEF Init, Warranted
<1> QED
  BY <1>1, NextWarranted, Invariance, PTL DEF Spec

(* Only a clean-up of sendmessages makes events of the batch stale: until  *)
(* one has closed clients, every event is of the connection its descriptor *)
(* stands for, and what it was reported for is still there.                *)
THEOREM FreshCorrect == Spec => []FreshUntilCleanUp
<1>1. IInv /\ Warranted => FreshUntilCleanUp
  BY DEF IInv, Fresh, Warranted, FreshUntilCleanUp, TypeOK
<1> QED
  BY <1>1, Invariance, WarrantedInvariance, PTL

(* So it takes a clean-up for an event to close a healthy client.          *)
THEOREM HealthyUntilCleanUpCorrect == Spec => HealthyUntilCleanUp
<1>1. IInv /\ Warranted /\ [Next]_vars => [~cleaned => ClosesNoHealthy]_vars
  <2> SUFFICES ASSUME IInv, Warranted, ~cleaned, loop = "events",
                      NEW fd \in DOMAIN client,
                      net[sock[fd]] = "open", unread[sock[fd]] = 0,
                      NEW e \in batch, e.fd = fd
               PROVE  FALSE
    BY DEF ClosesNoHealthy
  <2>1. fd \in Fd
    BY DEF IInv, TypeOK
  <2>2. sock[fd] = e.conn /\ HasInput(e.conn)
    BY <2>1 DEF IInv, Fresh, Warranted
  <2> QED
    BY <2>2 DEF HasInput
<1> QED
  BY <1>1, Invariance, WarrantedInvariance, PTL DEF Spec, HealthyUntilCleanUp
=============================================================================
