------------------------------ MODULE EventLoop ------------------------------
(***************************************************************************)
(* The event loop of hasses (main in hasses.c) over edge-triggered epoll:  *)
(* accepting connections on the SSE and the communication port, reading    *)
(* them and the FIFO, closing what has ended and what has been here for    *)
(* too long, while peers connect, send, close and reset at any time.       *)
(*                                                                         *)
(* A connection is told from its descriptor, which the kernel hands out    *)
(* again once it is closed.  The two lists of the program, client and      *)
(* comm, only have descriptors.  What a request does to its client is the  *)
(* subject of Chat, how sendmessages walks the clients that of ClientLoops.*)
(*                                                                         *)
(* A clean-up of sendmessages that deletes the last record reads through   *)
(* NULL and the process dies: so the client database is modelled with the  *)
(* order of its records, as one bank.                                      *)
(*                                                                         *)
(* The ready list and a batch of events are sets: the order of the events  *)
(* is the one in which independent peers act, so any order may occur.  A   *)
(* batch has room for MAXEVENTS (10000) events, taken as enough for all.   *)
(***************************************************************************)
EXTENDS Integers, Sequences, FiniteSets, Functions

CONSTANTS
  Fd,                  (* Descriptors accept may return                    *)
  sfd, commfd, fifo,   (* The listening sockets and the FIFO               *)
  SseConn, CommConn,   (* Connections peers make to either port            *)
  NoConn,              (* No connection: events of sfd, commfd and fifo    *)
  use_ssl,             (* hsettings.use_ssl                                *)
  MaxUnread            (* Bounds the unread pieces of data of a connection *)

Conn == SseConn \union CommConn

ASSUME FdAssumption ==
  /\ Fd \subseteq Nat /\ {sfd, commfd, fifo} \subseteq Nat \ Fd
  /\ sfd # commfd /\ sfd # fifo /\ commfd # fifo

ASSUME ConnAssumption == SseConn \intersect CommConn = {} /\ NoConn \notin Conn

ASSUME SslAssumption == use_ssl \in BOOLEAN

ASSUME UnreadAssumption == MaxUnread \in Nat \ {0}

VARIABLES
  net,         (* How far each connection has got, seen from its peer      *)
  unread,      (* Pieces of data of each connection the program can read   *)
  fifoData,    (* The FIFO has data to read                                *)
  sock,        (* The connection of each open descriptor                   *)
  ready,       (* The descriptors in epoll's ready list                    *)
  client,      (* The client database: descriptors and their status        *)
  slots,       (* The descriptors in the order of their records            *)
  comm,        (* The list of communication clients (commFirst)            *)
  overdue,     (* Clients whose created is further back than allowed       *)
  checkDue,    (* The check interval since last_cli_ttl_check is over      *)
  loop,        (* Where the loop is                                        *)
  batch,       (* The events of the last epoll_wait that are still to do   *)
  cleaned,     (* History: a clean-up closed clients during this batch     *)
  flooded      (* History: an event of the FIFO has filled input and left  *)
               (* the rest, and nothing has been written since             *)

kernelVars == <<net, unread, fifoData, sock, ready>>

listVars == <<client, slots, comm, overdue>>

history == <<cleaned, flooded>>

vars == <<net, unread, fifoData, sock, ready, client, slots, comm, overdue,
          checkDue, loop, batch, cleaned, flooded>>

Listening == {sfd, commfd}

(* The state of a connection: not there yet, waiting to be accepted, open, *)
(* closed or reset by its peer, closed by the program.                     *)
NetState == {"unborn", "backlog", "open", "fin", "reset", "gone"}

Event == [fd : Fd \union Listening \union {fifo}, hup : BOOLEAN,
          conn : Conn \union {NoConn}]

(* The connections waiting to be accepted on a listening socket.           *)
Backlog(l) ==
  {c \in IF l = sfd THEN SseConn ELSE CommConn : net[c] = "backlog"}

Free == Fd \ DOMAIN sock

Without(f, S) == [x \in DOMAIN f \ S |-> f[x]]

With(f, d, v) == [x \in DOMAIN f \union {d} |-> IF x = d THEN v ELSE f[x]]

Init ==
  /\ net = [c \in Conn |-> "unborn"]
  /\ unread = [c \in Conn |-> 0]
  /\ fifoData = FALSE
  /\ sock = << >>
  /\ ready = {}
  /\ client = << >> /\ slots = << >>
  /\ comm = {}
  /\ overdue = {}
  /\ checkDue = FALSE
  /\ loop = "timeouts"
  /\ batch = {}
  /\ cleaned = FALSE /\ flooded = FALSE

-----------------------------------------------------------------------------
(***************************************************************************)
(* The kernel: peers, the clock and the ready list.                        *)
(***************************************************************************)

(* Something has happened on a connection, if the program has accepted it. *)
Noticed(c) == ready' = ready \union {fd \in DOMAIN sock : sock[fd] = c}

PeerConnects(c) ==
  /\ net[c] = "unborn"
  /\ net' = [net EXCEPT ![c] = "backlog"]
  /\ ready' = ready \union {IF c \in SseConn THEN sfd ELSE commfd}
  /\ UNCHANGED <<unread, fifoData, sock, listVars, checkDue, loop, batch, history>>

PeerSends(c) ==
  /\ net[c] = "open" /\ unread[c] < MaxUnread
  /\ unread' = [unread EXCEPT ![c] = @ + 1]
  /\ Noticed(c)
  /\ UNCHANGED <<net, fifoData, sock, listVars, checkDue, loop, batch, history>>

PeerLeaves(c, how) ==
  /\ net[c] = "open" \/ (net[c] = "fin" /\ how = "reset")
  /\ net' = [net EXCEPT ![c] = how]
  /\ Noticed(c)
  /\ UNCHANGED <<unread, fifoData, sock, listVars, checkDue, loop, batch, history>>

(* Every write gives an edge.  One before the edge of an earlier one is    *)
(* handled is taken as joined to it.                                       *)
FifoWritten ==
  /\ ~fifoData \/ flooded
  /\ fifoData' = TRUE
  /\ ready' = ready \union {fifo}
  /\ flooded' = FALSE
  /\ UNCHANGED <<net, unread, sock, listVars, checkDue, loop, batch, cleaned>>

TimePasses ==
  /\ \/ \E fd \in DOMAIN client : overdue' = overdue \union {fd} /\ UNCHANGED checkDue
     \/ checkDue' = TRUE /\ UNCHANGED overdue
  /\ UNCHANGED <<kernelVars, client, slots, comm, loop, batch, history>>

HasInput(c) == unread[c] > 0 \/ net[c] \in {"fin", "reset"}

(* The events epoll_wait reports: an entry of the ready list on which      *)
(* there is nothing left is dropped.                                       *)
Reported ==
  {[fd |-> fd, hup |-> net[sock[fd]] = "reset", conn |-> sock[fd]] :
     fd \in {x \in ready \intersect DOMAIN sock : HasInput(sock[x])}}
  \union {[fd |-> l, hup |-> FALSE, conn |-> NoConn] :
            l \in {x \in ready \intersect Listening : Backlog(x) # {}}}
  \union {[fd |-> fifo, hup |-> FALSE, conn |-> NoConn] :
            x \in {y \in ready \intersect {fifo} : fifoData}}

-----------------------------------------------------------------------------
(***************************************************************************)
(* Closing and reading descriptors.                                        *)
(***************************************************************************)

(* The kernel's side of closing the descriptors of S, open or not: it      *)
(* forgets them, while their events stay in the batch.  The data of the    *)
(* connections of R is read before.                                        *)
Closed(S, R) ==
  LET gone == {sock[fd] : fd \in S \intersect DOMAIN sock}
  IN  /\ net' = [c \in Conn |-> IF c \in gone THEN "gone" ELSE net[c]]
      /\ unread' = [c \in Conn |-> IF c \in gone \union R THEN 0 ELSE unread[c]]
      /\ sock' = Without(sock, S)
      /\ ready' = ready \ S

(* client_del of the descriptors of S: the last record takes the place of  *)
(* each, so the first records stay where they are if they stay at all, and *)
(* those behind them fill the gaps.                                        *)
RecordsDeleted(S) ==
  /\ client' = Without(client, S)
  /\ \E n \in 0 .. Len(slots) : \E rest \in Bijection(1 .. n, DOMAIN client \ S) :
       /\ \A i \in 1 .. n : slots[i] \notin S => rest[i] = slots[i]
       /\ slots' = rest
  /\ overdue' = overdue \ S

(* close_client of the descriptors of S, with R as above.                  *)
ClientsClosed(S, R) == Closed(S, R) /\ RecordsDeleted(S) /\ UNCHANGED comm

(* Mutant of CommClosed: commclient_del is not called.                     *)
CommClosed_listed(fd) ==
  /\ Closed({fd}, {})
  /\ UNCHANGED listVars

(* close_communication_client.                                             *)
CommClosed(fd) ==
  /\ Closed({fd}, {})
  /\ comm' = comm \ {fd}
  /\ UNCHANGED <<client, slots, overdue>>

(* The connection a descriptor stands for when it is read, if any.         *)
ConnOf(fd) == {sock[x] : x \in {fd} \intersect DOMAIN sock}

(* Mutant of ReadFails: a read that returns 0 is not taken for the end.     *)
ReadFails_on_error(fd) == \A c \in ConnOf(fd) : net[c] = "reset"

(* read returns 0 or an error other than EAGAIN: the peer has gone or the  *)
(* descriptor is not open any more.                                        *)
ReadFails(fd) == \A c \in ConnOf(fd) : net[c] \in {"fin", "reset"}

HasData(fd) == \E c \in ConnOf(fd) : unread[c] > 0

(* Whether the descriptor is taken for one its peer has closed: when read  *)
(* fails, and when what was there has filled input, so that the next read  *)
(* asks for nothing and returns 0.                                         *)
TakenForEnd(fd) == {b \in BOOLEAN : IF b THEN ReadFails(fd) \/ HasData(fd)
                                         ELSE ~ReadFails(fd)}

(* Messages for the clients: those that cannot be written to are closed by *)
(* the clean-ups of sendmessages, never under TLS.                         *)
Failing == SUBSET {fd \in DOMAIN client : client[fd] = "COMM" /\ ~use_ssl}

(* The clean-ups of the messages of an event come to their end: a record   *)
(* they delete has one behind it that stays.                               *)
Survived(failed) ==
  failed # {} => \E i, j \in 1 .. Len(slots) :
                   i < j /\ slots[i] \in failed /\ slots[j] \notin failed

(* They delete a record that is the last one then, and client_current() is *)
(* NULL (chat.c:420): as many records stay as are before it.               *)
NullRead(failed) ==
  failed # {} /\ slots[Cardinality(DOMAIN client \ failed) + 1] \in failed

-----------------------------------------------------------------------------
(***************************************************************************)
(* The loop.                                                               *)
(***************************************************************************)

checkTimeouts ==
  /\ loop = "timeouts" /\ loop' = "wait"
  /\ \/ /\ ~checkDue
        /\ UNCHANGED <<net, unread, sock, ready, listVars, checkDue>>
     \/ /\ checkDue /\ checkDue' = FALSE
        /\ ClientsClosed(overdue, {})
  /\ UNCHANGED <<fifoData, batch, history>>

(* Mutant of epoll_wait: the timeouts are checked after it, not before.    *)
epoll_wait_then_check ==
  /\ loop = "wait" /\ loop' = "events"
  /\ Reported # {}
  /\ batch' = Reported
  /\ cleaned' = FALSE
  /\ ClientsClosed(overdue, {})
  /\ UNCHANGED <<fifoData, checkDue, flooded>>

epoll_wait ==
  /\ loop = "wait" /\ loop' = "events"
  /\ Reported # {}
  /\ batch' = Reported
  /\ ready' = {}
  /\ cleaned' = FALSE
  /\ UNCHANGED <<net, unread, fifoData, sock, listVars, checkDue, flooded>>

(* The event e is handled, and the loop goes on with the next one.         *)
Handled(e) ==
  /\ loop = "events" /\ e \in batch
  /\ batch' = batch \ {e}
  /\ loop' = IF batch = {e} THEN "timeouts" ELSE "events"
  /\ UNCHANGED checkDue

(* EPOLLERR or EPOLLHUP: whatever the descriptor stands for now is closed. *)
HangUp(e) ==
  /\ Handled(e)
  /\ e.hup
  /\ \/ e.fd \in comm /\ CommClosed(e.fd)
     \/ e.fd \notin comm /\ ClientsClosed({e.fd}, {})
  /\ UNCHANGED <<fifoData, history>>

(* The accept loop, and the socket it accepts from.                        *)
Accepting == loop \in {"acceptSse", "acceptComm"}

listener == IF loop = "acceptSse" THEN sfd ELSE commfd

AcceptEvent(e) ==
  /\ loop = "events" /\ e \in batch
  /\ e.fd \in Listening
  /\ loop' = IF e.fd = sfd THEN "acceptSse" ELSE "acceptComm"
  /\ batch' = batch \ {e}
  /\ UNCHANGED <<kernelVars, listVars, checkDue, history>>

(* accept, epoll_ctl, and client_add or commclient_add.  What the peer may *)
(* have sent before is taken as sent right after.                          *)
Accept(c, fd) ==
  /\ Accepting
  /\ c \in Backlog(listener) /\ fd \in Free /\ \A x \in Free : fd <= x
  /\ net' = [net EXCEPT ![c] = "open"]
  /\ sock' = With(sock, fd, c)
  /\ IF listener = sfd
       THEN /\ client' = With(client, fd, "NEW") /\ slots' = Append(slots, fd)
            /\ UNCHANGED comm
       ELSE comm' = comm \union {fd} /\ UNCHANGED <<client, slots>>
  /\ UNCHANGED <<unread, fifoData, ready, overdue, checkDue, loop, batch,
                 history>>

(* Mutant of AcceptEnds: one connection is accepted for one event.         *)
AcceptEnds_at_once ==
  /\ Accepting
  /\ loop' = IF batch = {} THEN "timeouts" ELSE "events"
  /\ UNCHANGED <<kernelVars, listVars, checkDue, batch, history>>

(* EAGAIN, or another error of accept: no descriptor is left.              *)
AcceptEnds ==
  /\ Accepting
  /\ Backlog(listener) = {} \/ Free = {}
  /\ loop' = IF batch = {} THEN "timeouts" ELSE "events"
  /\ UNCHANGED <<kernelVars, listVars, checkDue, batch, history>>

(* A FIFO with more than fits into input is left with the rest, although   *)
(* its edge is gone.                                                       *)
ReadFifo(e) ==
  /\ Handled(e)
  /\ e.fd = fifo
  /\ fifoData' \in {FALSE, fifoData} /\ flooded' = fifoData'
  /\ \E failed \in Failing :
       /\ Survived(failed)
       /\ ClientsClosed(failed, {})
       /\ cleaned' = (cleaned \/ failed # {})

(* A communication client: what was read is handled even if it has gone.   *)
ReadComm(e) ==
  /\ Handled(e)
  /\ ~e.hup /\ e.fd \in comm
  /\ \E failed \in Failing, done \in TakenForEnd(e.fd) :
       LET left == {x \in {e.fd} : done}
       IN  /\ failed # {} => HasData(e.fd)
           /\ Survived(failed)
           /\ Closed(failed \union left, ConnOf(e.fd))
           /\ RecordsDeleted(failed)
           /\ comm' = comm \ left
           /\ cleaned' = (cleaned \/ failed # {})
  /\ UNCHANGED <<fifoData, flooded>>

(* The messages of an event are the end of the process: a clean-up reads   *)
(* through NULL, or a write to a connection that has been reset raises     *)
(* SIGPIPE.  What becomes of its descriptors is no matter of the loop.     *)
Dies(e) ==
  /\ loop = "events" /\ e \in batch /\ loop' = "dead"
  /\ e.fd = fifo \/ (~e.hup /\ e.fd \in comm /\ HasData(e.fd))
  /\ \/ \E failed \in Failing : NullRead(failed)
     \/ \E fd \in DOMAIN sock :
          /\ net[sock[fd]] = "reset"
          /\ fd = e.fd \/ (fd \in DOMAIN client /\ client[fd] = "COMM")
  /\ UNCHANGED <<kernelVars, listVars, checkDue, batch, history>>

(* cio_low_read of an SSE client leaves it as it is: data on a stream, a   *)
(* TLS connection being set up, or nothing at all.                         *)
Ignores(fd) ==
  /\ client[fd] = "COMM" \/ use_ssl \/ ~HasData(fd)
  /\ ClientsClosed({}, ConnOf(fd))

(* It starts or re-initialises the stream, whose time is now another one.  *)
Starts(fd) ==
  /\ use_ssl \/ HasData(fd)
  /\ Closed({}, ConnOf(fd))
  /\ client' = [client EXCEPT ![fd] = "COMM"]
  /\ overdue' = overdue \ {fd}
  /\ UNCHANGED <<slots, comm>>

(* It refuses the request. *)
Refuses(fd) ==
  /\ use_ssl \/ HasData(fd)
  /\ ClientsClosed({fd}, {})

(* Mutant of ReadSse: a streaming client is not read.                      *)
ReadSse_not_streams(e) ==
  /\ Handled(e)
  /\ ~e.hup /\ e.fd \in Fd \ comm
  /\ \/ ReadFails(e.fd) /\ ClientsClosed({e.fd}, {})
     \/ ~ReadFails(e.fd) /\ client[e.fd] = "NEW" /\ (Starts(e.fd) \/ Refuses(e.fd))
     \/ ~ReadFails(e.fd) /\ client[e.fd] = "COMM" /\ ClientsClosed({}, {})
  /\ UNCHANGED <<fifoData, history>>

(* Any other descriptor is that of an SSE client.                          *)
ReadSse(e) ==
  /\ Handled(e)
  /\ ~e.hup /\ e.fd \in Fd \ comm
  /\ \E done \in TakenForEnd(e.fd) :
       \/ done /\ ClientsClosed({e.fd}, {})
       \/ ~done /\ (Ignores(e.fd) \/ Starts(e.fd) \/ Refuses(e.fd))
  /\ UNCHANGED <<fifoData, history>>

HandleEvent(e) ==
  \/ HangUp(e) \/ AcceptEvent(e) \/ ReadFifo(e) \/ ReadComm(e) \/ ReadSse(e)
  \/ Dies(e)

Loop ==
  \/ checkTimeouts \/ epoll_wait \/ AcceptEnds
  \/ \E e \in batch : HandleEvent(e)
  \/ \E c \in Conn, fd \in Fd : Accept(c, fd)

Environment ==
  /\ loop # "dead"
  /\ \/ \E c \in Conn : \/ PeerConnects(c) \/ PeerSends(c)
                        \/ \E how \in {"fin", "reset"} : PeerLeaves(c, how)
     \/ FifoWritten \/ TimePasses

Next == Loop \/ Environment

Spec == Init /\ [][Next]_vars

(* The only thread of the program goes on unless epoll_wait blocks it.     *)
FairSpec == Spec /\ WF_vars(Loop)

-----------------------------------------------------------------------------
(***************************************************************************)
(* Properties.                                                             *)
(***************************************************************************)

(* Type correctness. *)
TypeOK ==
  /\ net \in [Conn -> NetState]
  /\ unread \in [Conn -> Nat]
  /\ fifoData \in BOOLEAN
  /\ DOMAIN sock \subseteq Fd /\ sock \in [DOMAIN sock -> Conn]
  /\ ready \subseteq Fd \union Listening \union {fifo}
  /\ DOMAIN client \subseteq Fd /\ client \in [DOMAIN client -> {"NEW", "COMM"}]
  /\ slots \in Seq(Fd)
  /\ comm \subseteq Fd
  /\ overdue \subseteq Fd
  /\ checkDue \in BOOLEAN
  /\ loop \in {"timeouts", "wait", "events", "acceptSse", "acceptComm", "dead"}
  /\ batch \subseteq Event
  /\ cleaned \in BOOLEAN /\ flooded \in BOOLEAN

(* The two lists of the program always name exactly the open descriptors,  *)
(* each the kind of connection it is for, although descriptors are reused  *)
(* at once, events of closed ones are still handled and the lists are      *)
(* searched by descriptor alone: none is leaked, none is in both, and each *)
(* client has one record.                                                  *)
ListsAgree ==
  /\ slots \in Bijection(1 .. Len(slots), DOMAIN client)
  /\ DOMAIN client = {fd \in DOMAIN sock : sock[fd] \in SseConn}
  /\ comm = {fd \in DOMAIN sock : sock[fd] \in CommConn}
  /\ \A fd1, fd2 \in DOMAIN sock : sock[fd1] = sock[fd2] => fd1 = fd2
  /\ \A fd \in DOMAIN sock : net[sock[fd]] \in {"open", "fin", "reset"}
  /\ overdue \subseteq DOMAIN client

(* No edge of a connection is ever lost: whatever can be read on it, and   *)
(* its end, is still to be reported or about to be handled, so epoll_wait  *)
(* does not block with it waiting.  What is in the FIFO may wait with no   *)
(* edge, but only if an event has filled input and nothing has been        *)
(* written since.                                                          *)
EdgesKept ==
  /\ \A fd \in DOMAIN sock :
       HasInput(sock[fd]) => fd \in ready \/ \E e \in batch : e.fd = fd
  /\ fifoData => fifo \in ready \/ flooded \/ \E e \in batch : e.fd = fifo

(* The events of a batch are those of the connections their descriptors    *)
(* stand for, and their cause is still there, unless a clean-up of         *)
(* sendmessages has closed clients during the batch: no other step closes  *)
(* or reads a descriptor other than that of the event it handles.          *)
FreshUntilCleanUp ==
  ~cleaned =>
    \A e \in batch : e.fd \in DOMAIN sock =>
      /\ sock[e.fd] = e.conn
      /\ HasInput(e.conn) /\ (e.hup => net[e.conn] = "reset")

(* What a peer has sent is read, or the connection closed, unless messages *)
(* have been the end of the process, here and below.                       *)
InputIsHandled == \A c \in Conn : unread[c] > 0 ~> unread[c] = 0 \/ loop = "dead"

(* A connection its peer has closed or reset is closed and its descriptor  *)
(* free for others.                                                        *)
LeftAreReleased ==
  \A c \in Conn : net[c] \in {"fin", "reset"} ~> net[c] = "gone" \/ loop = "dead"

(* Unless accept fails for want of a descriptor while connections wait,    *)
(* every connection is accepted in the end, even if it is made while       *)
(* others are being accepted.                                              *)
BacklogIsAccepted ==
  []~(Accepting /\ Backlog(listener) # {} /\ Free = {})
    => \A c \in Conn : net[c] = "backlog" ~> net[c] # "backlog" \/ loop = "dead"

(* The step closes no client that is connected, has sent nothing and has   *)
(* no error because of an event of its descriptor.                         *)
ClosesNoHealthy ==
  loop = "events" =>
    \A fd \in DOMAIN client :
      /\ net[sock[fd]] = "open" /\ unread[sock[fd]] = 0
      /\ \E e \in batch : e.fd = fd /\ batch' = batch \ {e}
      => fd \in DOMAIN client'

(* "An error has occured on this fd, or the socket is not ready for        *)
(* reading" (hasses.c:722): an event closes no healthy client.             *)
HealthyKept == [][ClosesNoHealthy]_vars

(* The clean-up of sendmessages (chat.c:414) is the only reason why one    *)
(* ever does: until it has closed clients no healthy one is closed.        *)
HealthyUntilCleanUp == [][~cleaned => ClosesNoHealthy]_vars

(* "A connected handshaked sse client connection will be dropped after     *)
(* this seconds" (hasses.h:13).                                            *)
OverdueAreDropped ==
  \A fd \in Fd : fd \in overdue /\ checkDue ~> fd \notin overdue \/ loop = "dead"
=============================================================================
