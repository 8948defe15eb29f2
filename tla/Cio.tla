-------------------------------- MODULE Cio ---------------------------------
(***************************************************************************)
(* One TLS connection through cio.c: SSL works on two memory BIOs, which   *)
(* cio_low_read fills with what came from the socket and                   *)
(* write_outbio_pending_to_low empties into it, MAX_READ_SIZE bytes at     *)
(* most for a call.                                                        *)
(*                                                                         *)
(* What comes in is counted in TLS records, what goes out in bytes.  The   *)
(* lengths of the server's flight and of what is written later are those   *)
(* of the certificate and of the messages.  Closing is in Chat.            *)
(***************************************************************************)
EXTENDS Naturals, Sequences, FiniteSets

CONSTANTS
  MAX_READ_SIZE,   \* the size of out_buffer
  Flights,         \* the lengths the server's flight may have
  Writes,          \* the lengths that one SSL_write, the alert or the session
                   \* tickets may have
  MaxRecords,      \* bound on the data records of a connection
  MaxWritten       \* bound on what is written before a last message

ASSUME SizeAssumption ==
  /\ MAX_READ_SIZE \in Nat \ {0}
  /\ Flights \subseteq Nat \ {0}
  /\ Writes \subseteq 1 .. MAX_READ_SIZE
  /\ MaxRecords \in Nat /\ MaxWritten \in Nat

Record == {"hello", "finished", "data", "bad"}

VARIABLES
  sent,      \* the records the peer has sent, counted by kind
  net,       \* those not read from the socket yet
  edge,      \* epoll has an event for the connection
  inBio,     \* in_bio: the records not consumed by SSL yet
  outBio,    \* out_bio: the bytes pending
  written,   \* what has been written to the socket
  flight,    \* the length of the server's flight
  ssl,       \* what SSL waits for, or how its handshake ended
  pc,        \* where cio_low_read is
  served,    \* the data records given to cio_high_read
  together   \* history: data records read along with an earlier one

vars == <<sent, net, edge, inBio, outBio, written, flight, ssl, pc, served, together>>

peerVars == <<sent, net, edge>>

Init ==
  /\ sent = [r \in Record |-> 0] /\ net = <<>> /\ edge = FALSE
  /\ inBio = <<>> /\ outBio = 0 /\ written = 0
  /\ flight \in Flights
  /\ ssl = "hello" /\ pc = "idle" /\ served = 0 /\ together = 0

-----------------------------------------------------------------------------
(***************************************************************************)
(* The peer.                                                               *)
(***************************************************************************)

PeerSends(r) ==
  /\ sent' = [sent EXCEPT ![r] = @ + 1]
  /\ net' = Append(net, r)
  /\ edge' = TRUE
  /\ UNCHANGED <<inBio, outBio, written, flight, ssl, pc, served, together>>

(* Its first record starts a handshake, or is no TLS at all.               *)
PeerStarts ==
  \E r \in {"hello", "bad"} : sent["hello"] + sent["bad"] = 0 /\ PeerSends(r)

(* It ends its part of the handshake when it has the whole flight.         *)
PeerFinishes ==
  /\ sent["hello"] = 1 /\ sent["finished"] = 0 /\ written >= flight
  /\ PeerSends("finished")

PeerData ==
  sent["finished"] = 1 /\ sent["data"] < MaxRecords /\ PeerSends("data")

(* A piece of a record, of which SSL makes nothing yet.                    *)
Piece ==
  /\ edge' = TRUE
  /\ UNCHANGED <<sent, net, inBio, outBio, written, flight, ssl, pc, served, together>>

-----------------------------------------------------------------------------
(***************************************************************************)
(* cio_low_read.                                                           *)
(***************************************************************************)

DataIn(s) == Cardinality({i \in DOMAIN s : s[i] = "data"})

(* What the socket has is read and put into in_bio.                        *)
cio_low_read ==
  /\ pc = "idle" /\ edge
  /\ edge' = FALSE /\ net' = <<>> /\ inBio' = inBio \o net
  /\ together' = IF DataIn(net) > 1 THEN together + DataIn(net) - 1 ELSE together
  /\ pc' = IF ssl = "over" THEN "read" ELSE "accept"
  /\ UNCHANGED <<sent, outBio, written, flight, ssl, served>>

(* Mutant of Flushed: the rest waits until there is more than a buffer.    *)
Flushed_full(n) ==
  \/ n < MAX_READ_SIZE /\ outBio' = n /\ UNCHANGED written
  \/ n >= MAX_READ_SIZE /\ outBio' = n - MAX_READ_SIZE /\ written' = written + MAX_READ_SIZE

(* n bytes are pending, and write_outbio_pending_to_low is called.         *)
Flushed(n) ==
  LET out == IF n <= MAX_READ_SIZE THEN n ELSE MAX_READ_SIZE
  IN  outBio' = n - out /\ written' = written + out

(* SSL consumes the next record from in_bio, which has to be r.            *)
Consumed(r) ==
  /\ inBio # <<>> /\ Head(inBio) = r
  /\ inBio' = Tail(inBio)

(* SSL_accept goes on: the hello makes it put its flight into out_bio.     *)
AcceptHello ==
  /\ pc = "accept" /\ ssl = "hello" /\ Consumed("hello")
  /\ ssl' = "finished" /\ outBio' = outBio + flight
  /\ UNCHANGED <<peerVars, written, flight, pc, served, together>>

(* Mutant of AcceptWants: nothing is written before the handshake is over. *)
AcceptWants_silent ==
  /\ pc = "accept" /\ inBio = <<>> /\ ssl \in {"hello", "finished"}
  /\ pc' = "idle"
  /\ UNCHANGED <<peerVars, inBio, outBio, written, flight, ssl, served, together>>

(* SSL_accept returns with SSL_ERROR_WANT_READ.                            *)
AcceptWants ==
  /\ pc = "accept" /\ inBio = <<>> /\ ssl \in {"hello", "finished"}
  /\ Flushed(outBio)
  /\ pc' = "idle"
  /\ UNCHANGED <<peerVars, inBio, flight, ssl, served, together>>

(* Mutant of AcceptDone: what came with the handshake's end is not read.   *)
AcceptDone_returns ==
  /\ pc = "accept" /\ ssl = "finished" /\ Consumed("finished")
  /\ ssl' = "over" /\ pc' = "idle"
  /\ \E n \in Writes \union {0} : Flushed(outBio + n)
  /\ UNCHANGED <<peerVars, flight, served, together>>

(* SSL_accept returns 1, with or without session tickets in out_bio.       *)
AcceptDone ==
  /\ pc = "accept" /\ ssl = "finished" /\ Consumed("finished")
  /\ ssl' = "over" /\ pc' = "read"
  /\ \E n \in Writes \union {0} : Flushed(outBio + n)
  /\ UNCHANGED <<peerVars, flight, served, together>>

(* SSL_accept fails, at once or again; its alert stays in out_bio, and the *)
(* connection is not closed.                                               *)
AcceptFails ==
  /\ pc = "accept"
  /\ \/ ssl = "hello" /\ Consumed("bad") /\ \E n \in Writes : outBio' = outBio + n
     \/ ssl = "failed" /\ UNCHANGED <<inBio, outBio>>
  /\ ssl' = "failed" /\ pc' = "idle"
  /\ UNCHANGED <<peerVars, written, flight, served, together>>

(* SSL_read returns one record, for which chat_received may write.         *)
ReadRecord ==
  /\ pc = "read" /\ Consumed("data")
  /\ served' = served + 1
  /\ \/ UNCHANGED <<outBio, written>>
     \/ \E n \in Writes : Flushed(outBio + n)
  /\ pc' = "idle"
  /\ UNCHANGED <<peerVars, flight, ssl, together>>

(* SSL_read returns with SSL_ERROR_WANT_READ.                              *)
ReadWants ==
  /\ pc = "read" /\ inBio = <<>>
  /\ Flushed(outBio)
  /\ pc' = "idle"
  /\ UNCHANGED <<peerVars, inBio, flight, ssl, served, together>>

(* cio_high_write of a message to a stream. *)
cio_high_write ==
  /\ pc = "idle" /\ served > 0 /\ written < MaxWritten
  /\ \E n \in Writes : Flushed(outBio + n)
  /\ UNCHANGED <<peerVars, inBio, flight, ssl, pc, served, together>>

Handler ==
  \/ cio_low_read \/ AcceptHello \/ AcceptWants \/ AcceptDone \/ AcceptFails
  \/ ReadRecord \/ ReadWants

Next ==
  \/ Handler \/ cio_high_write
  \/ PeerStarts \/ PeerFinishes \/ PeerData \/ Piece

Spec == Init /\ [][Next]_vars

(* The program handles what is reported, and a peer that has the flight    *)
(* goes on with the handshake.                                             *)
FairSpec == Spec /\ WF_vars(Handler) /\ WF_vars(PeerFinishes)

-----------------------------------------------------------------------------
(***************************************************************************)
(* Properties.                                                             *)
(***************************************************************************)

(* Type correctness. *)
TypeOK ==
  /\ sent \in [Record -> Nat] /\ net \in Seq(Record) /\ edge \in BOOLEAN
  /\ inBio \in Seq(Record) /\ outBio \in Nat /\ written \in Nat
  /\ flight \in Flights
  /\ ssl \in {"hello", "finished", "over", "failed"}
  /\ pc \in {"idle", "accept", "read"}
  /\ served \in Nat /\ together \in Nat

(* Between two events nothing is pending that the peer may be waiting for, *)
(* unless the flight is longer than out_buffer or the handshake has failed *)
(* (write_outbio_pending_to_low is called once, cio.c:138).  When no event *)
(* is due, it is the peer's turn: a hello has been answered with the whole *)
(* flight, and what ends the handshake has ended it.                       *)
NothingHeldBack ==
  pc = "idle" /\ flight <= MAX_READ_SIZE /\ ssl # "failed" =>
    /\ outBio = 0
    /\ ~edge => /\ sent["hello"] > 0 => written >= flight
                /\ sent["finished"] > 0 => ssl = "over"

(* No data record is lost or served twice; between two events one is left  *)
(* in in_bio only if it came in one read with an earlier one, and only     *)
(* behind one that has been served: an event is one SSL_read, also the one *)
(* that ends the handshake (cio.c:222).                                    *)
LeftBehind ==
  /\ served + DataIn(inBio) + DataIn(net) = sent["data"]
  /\ pc = "idle" => /\ DataIn(inBio) <= together
                    /\ DataIn(inBio) > 0 => served > 0

(* With a flight that fits, a handshake that the peer starts comes to its  *)
(* end.                                                                    *)
HandshakeEnds ==
  sent["hello"] = 1 /\ flight <= MAX_READ_SIZE ~> ssl = "over"

(* With a flight that fits, the first request is served, even if it comes  *)
(* in one read with the end of the handshake.                              *)
FirstIsServed == sent["data"] > 0 ~> served > 0
=============================================================================
