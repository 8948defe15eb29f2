----------------------------- MODULE Chat_proofs -----------------------------
(***************************************************************************)
(* Theorems about Chat for any descriptors, tokens, ids, requests and      *)
(* messages, with and without TLS.                                         *)
(*                                                                         *)
(* The inductive invariant ties each client record to what its own         *)
(* connection has asked for; sent needs no strengthening, since a handler  *)
(* that writes a message changes no client.                                *)
(***************************************************************************)
EXTENDS Chat, WellFoundedInduction, SequenceTheorems, TLAPS

-----------------------------------------------------------------------------
(***************************************************************************)
(* chat_parseparam.                                                        *)
(***************************************************************************)

(* The last parameter with a name is one of the parameters.                *)
LEMMA LastNamedType ==
  ASSUME NEW params \in Seq(Param), NEW name, Named(params, name) # {}
  PROVE  LastNamed(params, name) \in Param
<1> DEFINE K == Named(params, name)
           D == {Len(params) - k : k \in K}
<1>1. K \subseteq 1 .. Len(params) /\ Len(params) \in Nat
  BY DEF Named
<1>2. D \in SUBSET Nat /\ D # {}
  BY <1>1
<1>3. PICK d \in D : \A e \in D : d <= e
  <2>1. PICK d \in D : \A e \in D : ~ (<<e, d>> \in OpToRel(<, Nat))
    BY <1>2, NatLessThanWellFounded, WFMin
  <2>2. \A e \in D : ~ (e < d)
    BY <1>2, <2>1 DEF OpToRel
  <2>3. \A e \in D : d <= e
    <3>1. d \in Nat /\ \A e \in D : e \in Nat
      BY <1>2
    <3> HIDE DEF D
    <3> QED
      BY <2>2, <3>1
  <2> QED
    BY <2>3
<1>4. PICK k \in K : d = Len(params) - k
  OBVIOUS
<1>5. \A j \in K : j <= k
  <2> SUFFICES ASSUME NEW j \in K PROVE j <= k
    OBVIOUS
  <2>1. d <= Len(params) - j
    BY <1>3
  <2> QED
    BY <1>1, <1>4, <2>1
<1> DEFINE last == CHOOSE i \in K : \A j \in K : j <= i
<1>6. last \in K
  BY <1>4, <1>5
<1>7. last \in 1 .. Len(params)
  BY <1>1, <1>6
<1> QED
  BY <1>7 DEF LastNamed

(* What strtok leaves is a prefix of the parameters.                       *)
LEMMA TokenizedType ==
  ASSUME NEW params \in Seq(Param)
  PROVE  Tokenized(params) \in Seq(Param)
<1>1. CASE Len(params) = 0
  BY <1>1 DEF Tokenized
<1>2. CASE Len(params) # 0
  <2>1. \A i \in 1 .. 1 : params[i] \in Param
    BY <1>2
  <2> QED
    BY <1>2, <2>1, SubSeqProperties DEF Tokenized
<1> QED
  BY <1>1, <1>2

(* The id after a query is one of the ids, or none.                        *)
LEMMA IdAfterType ==
  ASSUME NEW params \in Seq(Param), NEW old \in Id \union {""}
  PROVE  IdAfter(params, old) \in Id \union {""}
BY LastNamedType DEF IdAfter, Param

(* The buffer par holds parameters of a request.                           *)
LEMMA ParAfterType ==
  ASSUME TypeOK, NEW r \in Requests
  PROVE  ParAfter(r) \in Seq(Param)
BY RequestAssumption DEF TypeOK, ParAfter, Request

-----------------------------------------------------------------------------
(***************************************************************************)
(* The inductive invariant.                                                *)
(***************************************************************************)

(* The state of the TLS layer in which requests are read.                  *)
Readable == IF use_ssl THEN "up" ELSE "null"

(* The client c of a connection that has asked for a.                      *)
Opened(c, a) ==
  /\ c.status = "COMM" <=> a.stream
  /\ c.status # "COMM" => c.subs = {} /\ ~c.allsubs
  /\ c.status = "COMM" => c.cio = Readable
  /\ ~use_ssl => c.cio = "null"

StreamsInv ==
  /\ \A fd \in DOMAIN cli : Opened(cli[fd], asked[fd])
  /\ \A fd \in Fd \ DOMAIN cli : asked[fd] = NothingAsked

(* c has the subscriptions and the id of the requests a of its own.        *)
OwnSubs(c, a) ==
  /\ c.uniq_id = a.lastId
  /\ c.status = "COMM" =>
       /\ c.subs = a.tokens \ {"*"}
       /\ c.allsubs <=> "*" \in a.tokens

SubsInv == \A fd \in DOMAIN cli : OwnSubs(cli[fd], asked[fd])

(* Every GET for the configured URL has a query.                           *)
GetsHaveQuery == \A r \in Requests : WellFormedGet(r) => r.query.given

(* Types of what a handler of one connection changes.                      *)
ConnTypeOK ==
  /\ DOMAIN cli \subseteq Fd
  /\ cli \in [DOMAIN cli -> CliConn]
  /\ par \in Seq(Param)
  /\ asked \in [Fd -> Asked]

-----------------------------------------------------------------------------
(***************************************************************************)
(* Changes of one connection.                                              *)
(***************************************************************************)

(* The record of a connection is replaced.                                 *)
LEMMA Replaced ==
  ASSUME ConnTypeOK, StreamsInv, UNCHANGED use_ssl,
         NEW fd \in DOMAIN cli, NEW c \in CliConn, NEW a \in Asked,
         Opened(c, a),
         cli' = [cli EXCEPT ![fd] = c],
         asked' = [asked EXCEPT ![fd] = a]
  PROVE  /\ DOMAIN cli' = DOMAIN cli
         /\ cli' \in [DOMAIN cli' -> CliConn]
         /\ asked' \in [Fd -> Asked]
         /\ StreamsInv'
         /\ SubsInv /\ OwnSubs(c, a) => SubsInv'
<1>1. /\ DOMAIN cli' = DOMAIN cli
      /\ cli' \in [DOMAIN cli -> CliConn]
      /\ asked' \in [Fd -> Asked]
  BY DEF ConnTypeOK
<1>2. cli'[fd] = c /\ asked'[fd] = a
  BY DEF ConnTypeOK
<1>3. \A x \in DOMAIN cli : x # fd => cli'[x] = cli[x] /\ asked'[x] = asked[x]
  BY DEF ConnTypeOK
<1>4. \A x \in Fd \ DOMAIN cli : asked'[x] = asked[x]
  BY DEF ConnTypeOK
<1>5. StreamsInv'
  BY <1>1, <1>2, <1>3, <1>4 DEF StreamsInv, Opened, Readable
<1>6. SubsInv /\ OwnSubs(c, a) => SubsInv'
  BY <1>1, <1>2, <1>3 DEF SubsInv, OwnSubs
<1> QED
  BY <1>1, <1>5, <1>6

(* The record of a connection is taken away: close_client.                 *)
LEMMA Removed ==
  ASSUME ConnTypeOK, StreamsInv, UNCHANGED use_ssl,
         NEW fd \in DOMAIN cli,
         cli' = Without(cli, fd),
         asked' = [asked EXCEPT ![fd] = NothingAsked]
  PROVE  /\ DOMAIN cli' = DOMAIN cli \ {fd}
         /\ cli' \in [DOMAIN cli' -> CliConn]
         /\ asked' \in [Fd -> Asked]
         /\ StreamsInv'
         /\ SubsInv => SubsInv'
<1>1. NothingAsked \in Asked
  BY DEF NothingAsked, Asked
<1>2. /\ DOMAIN cli' = DOMAIN cli \ {fd}
      /\ cli' \in [DOMAIN cli' -> CliConn]
      /\ asked' \in [Fd -> Asked]
  BY <1>1 DEF ConnTypeOK, Without
<1>3. \A x \in DOMAIN cli' : cli'[x] = cli[x] /\ asked'[x] = asked[x]
  BY DEF ConnTypeOK, Without
<1>4. \A x \in Fd \ DOMAIN cli' : asked'[x] = NothingAsked
  BY <1>2 DEF ConnTypeOK, StreamsInv
<1>5. StreamsInv'
  BY <1>2, <1>3, <1>4 DEF StreamsInv, Opened, Readable
<1>6. SubsInv => SubsInv'
  BY <1>2, <1>3 DEF SubsInv, OwnSubs
<1> QED
  BY <1>2, <1>5, <1>6

-----------------------------------------------------------------------------
(***************************************************************************)
(* chat_received.                                                          *)
(***************************************************************************)

(* The client of an accepted GET with the parameters ps.                   *)
Streaming(c, ps) == [Subscribed(Reset(c), ps) EXCEPT !.status = "COMM"]

(* What an accepted GET leaves of the client's record.                     *)
LEMMA SubscribedType ==
  ASSUME NEW c \in CliConn, NEW ps \in Seq(Param), HasSubscribe(ps),
         NEW d, d = Streaming(c, ps),
         c.status # "COMM" => c.subs = {} /\ ~c.allsubs
  PROVE  /\ d \in CliConn
         /\ d.status = "COMM" /\ d.cio = c.cio
         /\ d.uniq_id = IdAfter(ps, c.uniq_id)
         /\ d.subs = LastNamed(ps, "subscribe").tokens \ {"*"}
         /\ d.allsubs <=> "*" \in LastNamed(ps, "subscribe").tokens
<1> DEFINE tokens == LastNamed(ps, "subscribe").tokens
<1>1. tokens \subseteq Token \union {"*"}
  BY LastNamedType DEF HasSubscribe, Param
<1>2. IdAfter(ps, c.uniq_id) \in Id \union {""}
  BY IdAfterType DEF CliConn
<1>3. /\ Reset(c) \in CliConn
      /\ Reset(c).subs = {} /\ ~Reset(c).allsubs
      /\ Reset(c).cio = c.cio /\ Reset(c).uniq_id = c.uniq_id
  BY DEF Reset, CliConn
<1> DEFINE e == Reset(c)
<1>4. PICK all \in BOOLEAN : all = (e.allsubs \/ "*" \in tokens)
  OBVIOUS
<1>5. PICK subs : subs = e.subs \union (tokens \ {"*"})
  OBVIOUS
<1>6. PICK id : id = IdAfter(ps, e.uniq_id)
  OBVIOUS
<1>7. d = [[e EXCEPT !.uniq_id = id, !.subs = subs, !.allsubs = all]
             EXCEPT !.status = "COMM"]
  BY <1>4, <1>5, <1>6 DEF Subscribed, Streaming
<1>8. subs = tokens \ {"*"} /\ subs \subseteq Token
  BY <1>1, <1>3, <1>5
<1>9. id = IdAfter(ps, c.uniq_id) /\ id \in Id \union {""}
  BY <1>2, <1>3, <1>6
<1>10. all <=> "*" \in tokens
  BY <1>3, <1>4
<1> HIDE DEF tokens, e
<1>11. e \in CliConn /\ e.cio = c.cio
  BY <1>3 DEF e
<1>12. /\ d \in CliConn
       /\ d.status = "COMM" /\ d.cio = c.cio /\ d.uniq_id = id
       /\ d.subs = subs /\ d.allsubs = all
  BY <1>7, <1>8, <1>9, <1>11 DEF CliConn
<1> QED
  BY <1>8, <1>9, <1>10, <1>12 DEF tokens

(* What a connection has asked for once its GET is accepted.               *)
LEMMA AskedByType ==
  ASSUME NEW a \in Asked, NEW r \in Requests
  PROVE  /\ AskedBy(a, r) \in Asked
         /\ AskedBy(a, r).stream
<1>1. r.query.params \in Seq(Param)
  BY RequestAssumption DEF Request
<1>2. /\ IdAfter(r.query.params, "") \in Id \union {""}
      /\ IdAfter(r.query.params, a.lastId) \in Id \union {""}
  BY <1>1, IdAfterType DEF Asked
<1>3. HasSubscribe(r.query.params) =>
        LastNamed(r.query.params, "subscribe").tokens \subseteq Token \union {"*"}
  BY <1>1, LastNamedType DEF HasSubscribe, Param
<1>4. HasSubscribe(r.query.params) \in BOOLEAN
  BY DEF HasSubscribe
<1> QED
  BY <1>2, <1>3, <1>4 DEF AskedBy, Asked

(* A request on a readable connection, in whatever way it is answered.     *)
LEMMA Received ==
  ASSUME TypeOK, StreamsInv,
         NEW fd \in DOMAIN cli, NEW c \in CliConn, NEW r \in Requests,
         Opened(c, asked[fd]), c.cio = Readable, UNCHANGED use_ssl,
         chat_received(fd, c, r)
  PROVE  /\ ConnTypeOK'
         /\ \A a \in answer' : a.fd \in Fd /\ a.written \in BOOLEAN
         /\ StreamsInv'
         /\ GetsHaveQuery /\ SubsInv /\ OwnSubs(c, asked[fd]) => SubsInv'
<1>1. ConnTypeOK /\ fd \in Fd /\ asked[fd] \in Asked
  BY DEF TypeOK, ConnTypeOK
<1>2. ParAfter(r) \in Seq(Param) /\ Tokenized(ParAfter(r)) \in Seq(Param)
  BY ParAfterType, TokenizedType
<1>3. \A st : HighWritten(st) \in BOOLEAN
  BY DEF TypeOK, HighWritten
<1>4. CASE Ignored(c, r) /\ cli' = [cli EXCEPT ![fd] = c] /\ answer' = {}
           /\ UNCHANGED <<par, asked>>
  <2>1. asked' = [asked EXCEPT ![fd] = asked[fd]]
    BY <1>1, <1>4 DEF ConnTypeOK
  <2>2. /\ DOMAIN cli' = DOMAIN cli /\ cli' \in [DOMAIN cli' -> CliConn]
        /\ asked' \in [Fd -> Asked]
        /\ StreamsInv' /\ (SubsInv /\ OwnSubs(c, asked[fd]) => SubsInv')
    BY <1>1, <1>4, <2>1, Replaced
  <2> QED
    BY <1>1, <1>4, <2>2 DEF ConnTypeOK
<1>5. CASE StartStream(fd, c, r)
  <2>1. PICK d : d = Streaming(c, ParAfter(r))
    OBVIOUS
  <2>2. PICK b : b = AskedBy(asked[fd], r)
    OBVIOUS
  <2>3. /\ cli' = [cli EXCEPT ![fd] = d]
        /\ asked' = [asked EXCEPT ![fd] = b]
    BY <1>5, <2>1, <2>2 DEF StartStream, Streaming
  <2>4. /\ d \in CliConn
        /\ d.status = "COMM" /\ d.cio = c.cio
        /\ d.uniq_id = IdAfter(ParAfter(r), c.uniq_id)
        /\ d.subs = LastNamed(ParAfter(r), "subscribe").tokens \ {"*"}
        /\ d.allsubs <=> "*" \in LastNamed(ParAfter(r), "subscribe").tokens
    <3>1. HasSubscribe(ParAfter(r)) /\ (c.status # "COMM" => c.subs = {} /\ ~c.allsubs)
      BY <1>5 DEF StartStream, Opened
    <3>2. PICK ps \in Seq(Param) : ps = ParAfter(r)
      BY <1>2
    <3>3. HasSubscribe(ps) /\ d = Streaming(c, ps)
      BY <2>1, <3>1, <3>2
    <3>4. /\ d \in CliConn
          /\ d.status = "COMM" /\ d.cio = c.cio
          /\ d.uniq_id = IdAfter(ps, c.uniq_id)
          /\ d.subs = LastNamed(ps, "subscribe").tokens \ {"*"}
          /\ d.allsubs <=> "*" \in LastNamed(ps, "subscribe").tokens
      BY <3>1, <3>3, SubscribedType
    <3> QED
      BY <3>2, <3>4
  <2>5. b \in Asked /\ b.stream
    BY <1>1, <2>2, AskedByType
  <2>6. Opened(d, b)
    BY <2>4, <2>5 DEF Opened, Readable
  <2>7. GetsHaveQuery /\ OwnSubs(c, asked[fd]) => OwnSubs(d, b)
    <3> SUFFICES ASSUME GetsHaveQuery, OwnSubs(c, asked[fd])
                 PROVE  OwnSubs(d, b)
      OBVIOUS
    <3>1. ParAfter(r) = r.query.params /\ HasSubscribe(r.query.params)
      BY <1>5 DEF StartStream, GetsHaveQuery, WellFormedGet, ParAfter
    <3>2. /\ b.lastId = IdAfter(r.query.params, asked[fd].lastId)
          /\ b.tokens = LastNamed(r.query.params, "subscribe").tokens
      BY <2>2, <3>1 DEF AskedBy
    <3> QED
      BY <2>4, <3>1, <3>2 DEF OwnSubs
  <2>8. /\ DOMAIN cli' = DOMAIN cli /\ cli' \in [DOMAIN cli' -> CliConn]
        /\ asked' \in [Fd -> Asked]
        /\ StreamsInv' /\ (SubsInv /\ OwnSubs(d, b) => SubsInv')
    BY <1>1, <2>3, <2>4, <2>5, <2>6, Replaced
  <2>9. par' \in Seq(Param) /\ \A a \in answer' : a.fd \in Fd /\ a.written \in BOOLEAN
    BY <1>1, <1>2, <1>3, <1>5 DEF StartStream
  <2> QED
    BY <1>1, <2>7, <2>8, <2>9 DEF ConnTypeOK
<1>6. CASE Refuse(fd, r)
  <2>1. /\ DOMAIN cli' = DOMAIN cli \ {fd} /\ cli' \in [DOMAIN cli' -> CliConn]
        /\ asked' \in [Fd -> Asked]
        /\ StreamsInv' /\ (SubsInv => SubsInv')
    BY <1>1, <1>6, Removed DEF Refuse
  <2>2. par' \in Seq(Param) /\ \A a \in answer' : a.fd \in Fd /\ a.written \in BOOLEAN
    BY <1>1, <1>2, <1>3, <1>6 DEF Refuse
  <2> QED
    BY <1>1, <2>1, <2>2 DEF ConnTypeOK
<1> QED
  BY <1>4, <1>5, <1>6 DEF chat_received

-----------------------------------------------------------------------------
(***************************************************************************)
(* The handlers.                                                           *)
(***************************************************************************)

(* The TLS layer while SSL_accept goes on.                                 *)
LEMMA AcceptingType ==
  ASSUME use_ssl, NEW c \in CliConn, NEW a, Opened(c, a), c.cio # "up"
  PROVE  /\ Accepting(c) \in CliConn
         /\ Opened(Accepting(c), a)
         /\ OwnSubs(c, a) => OwnSubs(Accepting(c), a)
<1>1. c.status # "COMM"
  BY DEF Opened, Readable
<1>2. PICK d : d = Accepting(c)
  OBVIOUS
<1>3. /\ d \in CliConn /\ d.status # "COMM"
      /\ d.subs = c.subs /\ d.allsubs = c.allsubs /\ d.uniq_id = c.uniq_id
  BY <1>1, <1>2 DEF Accepting, CliConn
<1>4. Opened(d, a) /\ (OwnSubs(c, a) => OwnSubs(d, a))
  BY <1>1, <1>3 DEF Opened, OwnSubs
<1> QED
  BY <1>2, <1>3, <1>4

(* The TLS layer once SSL_accept has come to its end.                      *)
LEMMA SecuredType ==
  ASSUME use_ssl, NEW c \in CliConn, NEW a, Opened(c, a)
  PROVE  /\ Secured(c) \in CliConn
         /\ Secured(c).cio = Readable
         /\ Opened(Secured(c), a)
         /\ OwnSubs(c, a) => OwnSubs(Secured(c), a)
         /\ c.status = "COMM" => Secured(c) = c
<1>1. CASE c.cio = "up"
  BY <1>1 DEF Secured, Readable
<1>2. CASE c.cio # "up"
  <2>1. c.status # "COMM"
    BY <1>2 DEF Opened, Readable
  <2>2. PICK d : d = Accepting(c)
    OBVIOUS
  <2>3. /\ d \in CliConn
        /\ d.subs = c.subs /\ d.allsubs = c.allsubs /\ d.uniq_id = c.uniq_id
    BY <2>2 DEF Accepting, CliConn
  <2>4. PICK e : e = [d EXCEPT !.cio = "up", !.status = "NEW"]
    OBVIOUS
  <2>5. /\ e \in CliConn /\ e.status = "NEW" /\ e.cio = "up"
        /\ e.subs = c.subs /\ e.allsubs = c.allsubs /\ e.uniq_id = c.uniq_id
    BY <2>3, <2>4 DEF CliConn
  <2>6. Opened(e, a) /\ (OwnSubs(c, a) => OwnSubs(e, a))
    BY <2>1, <2>5 DEF Opened, OwnSubs
  <2>7. Secured(c) = e
    BY <1>2, <2>2, <2>4 DEF Secured
  <2> QED
    BY <2>1, <2>5, <2>6, <2>7 DEF Readable
<1> QED
  BY <1>1, <1>2

(* The clients' invariants, without and with the one of subscriptions.     *)
Streams == TypeOK /\ StreamsInv

(* What every step has to keep.                                            *)
Kept ==
  /\ Streams'
  /\ GetsHaveQuery /\ SubsInv => SubsInv'

LEMMA ConnectKept ==
  ASSUME Streams, NEW fd \in Fd, Connect(fd)
  PROVE  Kept
<1>1. NewCliConn \in CliConn
  BY DEF NewCliConn, CliConn
<1>2. /\ fd \notin DOMAIN cli /\ cli' = With(cli, fd, NewCliConn)
      /\ sent' = {} /\ answer' = {} /\ report' = {} /\ use_ssl' = use_ssl
      /\ par' = par /\ asked' = asked /\ reinit_allowed' = reinit_allowed
  BY DEF Connect
<1>3. /\ DOMAIN cli' = DOMAIN cli \union {fd}
      /\ cli'[fd] = NewCliConn
      /\ \A x \in DOMAIN cli : cli'[x] = cli[x]
      /\ cli' \in [DOMAIN cli' -> CliConn]
  BY <1>1, <1>2 DEF With, Streams, TypeOK
<1>4. TypeOK'
  BY <1>2, <1>3 DEF Streams, TypeOK
<1>5. asked[fd] = NothingAsked
  BY <1>2 DEF Streams, StreamsInv
<1>6. Opened(NewCliConn, NothingAsked) /\ OwnSubs(NewCliConn, NothingAsked)
  BY DEF Opened, OwnSubs, NewCliConn, NothingAsked
<1>7. StreamsInv'
  BY <1>2, <1>3, <1>5, <1>6 DEF Streams, StreamsInv, Opened, Readable
<1>8. SubsInv => SubsInv'
  BY <1>2, <1>3, <1>5, <1>6 DEF SubsInv, OwnSubs
<1> QED
  BY <1>4, <1>7, <1>8 DEF Kept, Streams

LEMMA PlainReadKept ==
  ASSUME Streams, NEW fd \in Fd, NEW r \in Requests, PlainRead(fd, r)
  PROVE  Kept
<1>1. /\ fd \in DOMAIN cli /\ cli[fd] \in CliConn
      /\ Opened(cli[fd], asked[fd]) /\ cli[fd].cio = Readable
      /\ SubsInv => OwnSubs(cli[fd], asked[fd])
  BY DEF Streams, TypeOK, StreamsInv, SubsInv, PlainRead, Opened, Readable
<1>2. /\ chat_received(fd, cli[fd], r)
      /\ sent' = {} /\ report' = {}
      /\ reinit_allowed' = reinit_allowed /\ use_ssl' = use_ssl
  BY DEF PlainRead
<1>3. /\ ConnTypeOK'
      /\ \A a \in answer' : a.fd \in Fd /\ a.written \in BOOLEAN
      /\ StreamsInv'
      /\ GetsHaveQuery /\ SubsInv => SubsInv'
  BY <1>1, <1>2, Received DEF Streams
<1> QED
  BY <1>2, <1>3 DEF Kept, Streams, TypeOK, ConnTypeOK

LEMMA TlsReadKept ==
  ASSUME Streams, NEW fd \in Fd, NEW r \in Requests, TlsRead(fd, r)
  PROVE  Kept
<1>1. /\ fd \in DOMAIN cli /\ cli[fd] \in CliConn /\ use_ssl
      /\ Opened(cli[fd], asked[fd])
      /\ SubsInv => OwnSubs(cli[fd], asked[fd])
  BY DEF Streams, TypeOK, StreamsInv, SubsInv, TlsRead
<1>2. /\ Secured(cli[fd]) \in CliConn /\ Secured(cli[fd]).cio = Readable
      /\ Opened(Secured(cli[fd]), asked[fd])
      /\ SubsInv => OwnSubs(Secured(cli[fd]), asked[fd])
  BY <1>1, SecuredType
<1>3. /\ chat_received(fd, Secured(cli[fd]), r)
      /\ sent' = {} /\ report' = {}
      /\ reinit_allowed' = reinit_allowed /\ use_ssl' = use_ssl
  BY DEF TlsRead
<1>4. /\ ConnTypeOK'
      /\ \A a \in answer' : a.fd \in Fd /\ a.written \in BOOLEAN
      /\ StreamsInv'
      /\ GetsHaveQuery /\ SubsInv => SubsInv'
  BY <1>1, <1>2, <1>3, Received DEF Streams
<1> QED
  BY <1>3, <1>4 DEF Kept, Streams, TypeOK, ConnTypeOK

(* SSL_accept goes on, or it has come to its end and nothing else is read. *)
LEMMA TlsSetUpKept ==
  ASSUME Streams, NEW fd \in Fd, TlsAccepting(fd) \/ TlsReadNothing(fd)
  PROVE  Kept
<1>1. /\ fd \in DOMAIN cli /\ cli[fd] \in CliConn /\ use_ssl
      /\ asked[fd] \in Asked
      /\ Opened(cli[fd], asked[fd])
      /\ SubsInv => OwnSubs(cli[fd], asked[fd])
  BY DEF Streams, TypeOK, StreamsInv, SubsInv, TlsAccepting, TlsReadNothing
<1>2. PICK c \in CliConn : /\ cli' = [cli EXCEPT ![fd] = c]
                           /\ Opened(c, asked[fd])
                           /\ SubsInv => OwnSubs(c, asked[fd])
  <2>1. CASE TlsAccepting(fd)
    BY <1>1, <2>1, AcceptingType DEF TlsAccepting
  <2>2. CASE TlsReadNothing(fd)
    BY <1>1, <2>2, SecuredType DEF TlsReadNothing
  <2> QED
    BY <2>1, <2>2
<1>3. /\ asked' = [asked EXCEPT ![fd] = asked[fd]]
      /\ par' = par /\ reinit_allowed' = reinit_allowed
      /\ sent' = {} /\ answer' = {} /\ report' = {} /\ use_ssl' = use_ssl
  BY DEF Streams, TypeOK, TlsAccepting, TlsReadNothing
<1>4. ConnTypeOK
  BY DEF Streams, TypeOK, ConnTypeOK
<1>5. /\ DOMAIN cli' = DOMAIN cli /\ cli' \in [DOMAIN cli' -> CliConn]
      /\ asked' \in [Fd -> Asked]
      /\ StreamsInv' /\ (SubsInv => SubsInv')
  BY <1>1, <1>2, <1>3, <1>4, Replaced DEF Streams
<1> QED
  BY <1>3, <1>5 DEF Kept, Streams, TypeOK

LEMMA CloseKept ==
  ASSUME Streams, NEW fd \in Fd, Close(fd)
  PROVE  Kept
<1>1. /\ fd \in DOMAIN cli /\ cli' = Without(cli, fd)
      /\ asked' = [asked EXCEPT ![fd] = NothingAsked]
      /\ sent' = {} /\ answer' = {} /\ report' = {} /\ use_ssl' = use_ssl
      /\ par' = par /\ reinit_allowed' = reinit_allowed
  BY DEF Close
<1>2. ConnTypeOK
  BY DEF Streams, TypeOK, ConnTypeOK
<1>3. /\ DOMAIN cli' = DOMAIN cli \ {fd} /\ cli' \in [DOMAIN cli' -> CliConn]
      /\ asked' \in [Fd -> Asked]
      /\ StreamsInv' /\ (SubsInv => SubsInv')
  BY <1>1, <1>2, Removed DEF Streams
<1> QED
  BY <1>1, <1>3 DEF Kept, Streams, TypeOK

LEMMA commandsKept ==
  ASSUME Streams, NEW allowed \in BOOLEAN, commands(allowed)
  PROVE  Kept
<1>1. /\ reinit_allowed' \in BOOLEAN
      /\ sent' = {} /\ answer' = {} /\ report' = {} /\ use_ssl' = use_ssl
      /\ cli' = cli /\ par' = par /\ asked' = asked
  BY DEF commands
<1>2. TypeOK'
  BY <1>1 DEF Streams, TypeOK
<1>3. StreamsInv' /\ (SubsInv => SubsInv')
  BY <1>1 DEF Streams, StreamsInv, SubsInv, Opened, OwnSubs, Readable
<1> QED
  BY <1>2, <1>3 DEF Kept, Streams

LEMMA sendmessagesKept ==
  ASSUME Streams, NEW m \in Messages, sendmessages(m)
  PROVE  Kept
<1>1. /\ answer' = {} /\ report' = {}
      /\ reinit_allowed' = reinit_allowed /\ use_ssl' = use_ssl
      /\ cli' = cli /\ par' = par /\ asked' = asked
  BY DEF sendmessages
<1>2. \A s \in sent' : s.msg \in Messages /\ s.to \subseteq DOMAIN cli
  BY DEF sendmessages
<1>3. TypeOK'
  BY <1>1, <1>2 DEF Streams, TypeOK
<1>4. StreamsInv' /\ (SubsInv => SubsInv')
  BY <1>1 DEF Streams, StreamsInv, SubsInv, Opened, OwnSubs, Readable
<1> QED
  BY <1>3, <1>4 DEF Kept, Streams

(* The counting commands change no client.                                 *)
LEMMA ReportedKept ==
  ASSUME Streams, NEW of \in Token \union {"*", "status"}, NEW count,
         Reported(of, count)
  PROVE  Kept
<1>1. /\ answer' = {} /\ sent' = {} /\ report' = {[of |-> of, count |-> count]}
      /\ reinit_allowed' = reinit_allowed /\ use_ssl' = use_ssl
      /\ cli' = cli /\ par' = par /\ asked' = asked
  BY DEF Reported
<1>2. \A n \in report' : n.of = of
  BY <1>1
<1>3. TypeOK'
  BY <1>1, <1>2 DEF Streams, TypeOK
<1>4. StreamsInv' /\ (SubsInv => SubsInv')
  BY <1>1 DEF Streams, StreamsInv, SubsInv, Opened, OwnSubs, Readable
<1> QED
  BY <1>3, <1>4 DEF Kept, Streams

LEMMA StepKept ==
  ASSUME Streams, [Next]_vars
  PROVE  Kept
<1>1. CASE Next
  BY <1>1, ConnectKept, TlsSetUpKept, CloseKept, PlainReadKept, TlsReadKept,
     commandsKept, sendmessagesKept, ReportedKept
  DEF Next, subscribedclients, status
<1>2. CASE UNCHANGED vars
  <2>1. TypeOK'
    BY <1>2 DEF Streams, TypeOK, vars
  <2>2. StreamsInv' /\ (SubsInv => SubsInv')
    BY <1>2 DEF Streams, StreamsInv, SubsInv, Opened, OwnSubs, Readable, vars
  <2> QED
    BY <2>1, <2>2 DEF Kept, Streams
<1> QED
  BY <1>1, <1>2

LEMMA InitKept ==
  ASSUME Init
  PROVE  Streams /\ SubsInv /\ sent = {} /\ report = {}
<1>1. /\ cli = << >> /\ DOMAIN cli = {} /\ par \in Seq(Param)
      /\ asked = [fd \in Fd |-> NothingAsked]
      /\ reinit_allowed \in BOOLEAN /\ sent = {} /\ answer = {}
      /\ report = {} /\ use_ssl \in BOOLEAN
  BY DEF Init
<1>2. NothingAsked \in Asked
  BY DEF NothingAsked, Asked
<1>3. cli \in [DOMAIN cli -> CliConn]
  BY <1>1
<1>4. TypeOK
  BY <1>1, <1>2, <1>3 DEF TypeOK
<1>5. StreamsInv /\ SubsInv
  BY <1>1 DEF StreamsInv, SubsInv
<1> QED
  BY <1>1, <1>4, <1>5 DEF Streams

-----------------------------------------------------------------------------
(***************************************************************************)
(* Theorems.                                                               *)
(***************************************************************************)

(* The inductive invariant: each record agrees with what its connection    *)
(* has asked for.                                                          *)
THEOREM Invariance == Spec => []Streams
<1>1. Init => Streams
  BY InitKept
<1>2. Streams /\ [Next]_vars => Streams'
  BY StepKept DEF Kept
<1> QED
  BY <1>1, <1>2, PTL DEF Spec

(* Type correctness of the protocol. *)
THEOREM TypeCorrect == Spec => []TypeOK
BY Invariance, PTL DEF Streams

(* A client that is not streaming has no subscription left, and under TLS  *)
(* a stream only starts once SSL_accept was successful.                    *)
THEOREM StreamsOpenedCorrect == Spec => []StreamsAreOpened
<1>1. Streams => StreamsAreOpened
  BY DEF Streams, StreamsInv, StreamsAreOpened, Opened, Readable
<1> QED
  BY <1>1, Invariance, PTL

(* The audience sendmessages chooses by the clients' records is the one    *)
(* that the connections' own requests define.                              *)
LEMMA AudienceAsAsked ==
  ASSUME Streams, SubsInv, NEW m \in Messages, NEW fd \in Fd
  PROVE  fd \in DOMAIN cli /\ cli[fd].status = "COMM" /\ client_subscribe_exists(cli[fd], m)
           <=> asked[fd].stream /\ Wanted(asked[fd], m)
<1>1. CASE fd \notin DOMAIN cli
  <2>1. ~asked[fd].stream
    <3>1. asked[fd] = NothingAsked
      BY <1>1 DEF Streams, StreamsInv
    <3>2. NothingAsked.stream = FALSE
      BY DEF NothingAsked
    <3> QED
      BY <3>1, <3>2
  <2> QED
    BY <1>1, <2>1
<1>2. CASE fd \in DOMAIN cli
  <2>1. /\ cli[fd].status = "COMM" <=> asked[fd].stream
        /\ cli[fd].uniq_id = asked[fd].lastId
    BY <1>2 DEF Streams, StreamsInv, SubsInv, Opened, OwnSubs, Readable
  <2>2. cli[fd].status = "COMM" =>
          /\ cli[fd].subs = asked[fd].tokens \ {"*"}
          /\ cli[fd].allsubs <=> "*" \in asked[fd].tokens
    BY <1>2 DEF SubsInv, OwnSubs
  <2>3. "*" \notin m.tokens
    BY MessagesAssumption, NamesAssumption DEF Message
  <2>4. (asked[fd].tokens \ {"*"}) \intersect m.tokens = asked[fd].tokens \intersect m.tokens
    BY <2>3
  <2>5. cli[fd].status = "COMM" =>
          (client_subscribe_exists(cli[fd], m) <=> Wanted(asked[fd], m))
    BY <2>1, <2>2, <2>4 DEF client_subscribe_exists, Wanted
  <2> QED
    BY <1>2, <2>1, <2>5
<1> QED
  BY <1>1, <1>2

(* When every GET for the URL has a query, a message goes to the streams   *)
(* whose own GET asked for it and to no other, whatever the clients, which *)
(* share the buffer par, have sent before.                                 *)
THEOREM DeliveryCorrect ==
  ASSUME GetsHaveQuery
  PROVE  Spec => []DeliveredAsAsked
<1> DEFINE Inv == Streams /\ SubsInv /\ DeliveredAsAsked
<1>1. Init => Inv
  BY InitKept DEF DeliveredAsAsked
<1>2. Inv /\ [Next]_vars => Inv'
  <2> SUFFICES ASSUME Inv, [Next]_vars
               PROVE  Inv'
    OBVIOUS
  <2>1. Streams' /\ SubsInv'
    BY GetsHaveQuery, StepKept DEF Kept
  <2>2. DeliveredAsAsked'
    <3>1. CASE sent' = {}
      BY <3>1 DEF DeliveredAsAsked
    <3>2. CASE UNCHANGED vars
      BY <3>2 DEF DeliveredAsAsked, Wanted, vars
    <3>3. ASSUME NEW m \in Messages, sendmessages(m)
          PROVE  DeliveredAsAsked'
      <4>1. DOMAIN cli \subseteq Fd
        BY DEF Streams, TypeOK
      <4>2. {fd \in DOMAIN cli : /\ cli[fd].status = "COMM"
                                 /\ client_subscribe_exists(cli[fd], m)}
              = {fd \in Fd : asked[fd].stream /\ Wanted(asked[fd], m)}
        BY <4>1, AudienceAsAsked
      <4>3. sent' = {[msg |-> m,
                      to |-> {fd \in Fd : asked[fd].stream /\ Wanted(asked[fd], m)}]}
        BY <3>3, <4>2 DEF sendmessages
      <4>4. asked' = asked
        BY <3>3 DEF sendmessages
      <4>5. PICK audience :
              audience = {fd \in Fd : asked[fd].stream /\ Wanted(asked[fd], m)}
        OBVIOUS
      <4>6. \A s \in sent' : s.msg = m /\ s.to = audience
        BY <4>3, <4>5
      <4>7. audience = {fd \in Fd : asked'[fd].stream /\ Wanted(asked'[fd], m)}
        BY <4>4, <4>5
      <4> QED
        BY <4>6, <4>7 DEF DeliveredAsAsked
    <3> QED
      BY <3>1, <3>2, <3>3
      DEF Next, Connect, TlsAccepting, TlsReadNothing, Close, PlainRead, TlsRead,
          commands, subscribedclients, status, Reported
  <2> QED
    BY <2>1, <2>2
<1> QED
  BY <1>1, <1>2, PTL DEF Spec

(* A report counts the clients that have asked, when every GET for the URL *)
(* has a query.                                                            *)
LEMMA CountAsAsked ==
  ASSUME Streams, SubsInv, NEW t \in Token \union {"*"}
  PROVE  /\ {fd \in DOMAIN cli : t \in cli[fd].subs}
              = {fd \in Fd : asked[fd].stream /\ t \in asked[fd].tokens \ {"*"}}
         /\ {fd \in DOMAIN cli : cli[fd].status = "COMM"} = {fd \in Fd : asked[fd].stream}
<1>1. DOMAIN cli \subseteq Fd
  BY DEF Streams, TypeOK
<1>2. ASSUME NEW fd \in Fd, fd \notin DOMAIN cli
      PROVE  ~asked[fd].stream
  <2>1. asked[fd] = NothingAsked
    BY <1>2 DEF Streams, StreamsInv
  <2>2. NothingAsked.stream = FALSE
    BY DEF NothingAsked
  <2> QED
    BY <2>1, <2>2
<1>3. \A fd \in DOMAIN cli :
        /\ cli[fd].status = "COMM" <=> asked[fd].stream
        /\ cli[fd].status = "COMM" => cli[fd].subs = asked[fd].tokens \ {"*"}
        /\ cli[fd].status # "COMM" => cli[fd].subs = {}
  BY DEF Streams, StreamsInv, SubsInv, Opened, OwnSubs, Readable
<1> QED
  BY <1>1, <1>2, <1>3

(* The numbers reported are those of the streams whose own GET asked.      *)
THEOREM CountsCorrect ==
  ASSUME GetsHaveQuery
  PROVE  Spec => []CountsAsAsked
<1> DEFINE Inv == Streams /\ SubsInv /\ CountsAsAsked
<1>1. Init => Inv
  BY InitKept DEF CountsAsAsked
<1>2. Inv /\ [Next]_vars => Inv'
  <2> SUFFICES ASSUME Inv, [Next]_vars
               PROVE  Inv'
    OBVIOUS
  <2>1. Streams' /\ SubsInv'
    BY GetsHaveQuery, StepKept DEF Kept
  <2>2. CountsAsAsked'
    <3>1. CASE report' = {}
      BY <3>1 DEF CountsAsAsked
    <3>2. CASE UNCHANGED vars
      BY <3>2 DEF CountsAsAsked, vars
    <3>3. ASSUME NEW n \in report', report' # {}, ~UNCHANGED vars
          PROVE  n.count = Cardinality({fd \in Fd :
                   /\ asked'[fd].stream
                   /\ n.of = "status" \/ n.of \in asked'[fd].tokens \ {"*"}})
      <4> DEFINE Asking == {fd \in Fd :
                   /\ asked'[fd].stream
                   /\ n.of = "status" \/ n.of \in asked'[fd].tokens \ {"*"}}
      <4>1. CASE \E t \in Token \union {"*"} : subscribedclients(t)
        <5>1. PICK t \in Token \union {"*"} : subscribedclients(t)
          BY <4>1
        <5>2. PICK who : who = {fd \in DOMAIN cli : t \in cli[fd].subs}
          OBVIOUS
        <5>3. /\ report' = {[of |-> t, count |-> Cardinality(who)]}
              /\ asked' = asked /\ t # "status"
          BY <5>1, <5>2, NamesAssumption
          DEF subscribedclients, Reported, subscribed_client_count
        <5>4. n.of = t /\ n.count = Cardinality(who)
          BY <3>3, <5>3
        <5>5. who = {fd \in Fd : asked[fd].stream /\ t \in asked[fd].tokens \ {"*"}}
          BY <5>2, CountAsAsked
        <5>6. \A fd : fd \in who <=> fd \in Asking
          BY <5>3, <5>4, <5>5
        <5>7. who = Asking
          BY <5>6
        <5> QED
          BY <5>4, <5>7
      <4>2. CASE status
        <5>1. PICK who : who = {fd \in DOMAIN cli : cli[fd].status = "COMM"}
          OBVIOUS
        <5>2. /\ report' = {[of |-> "status", count |-> Cardinality(who)]}
              /\ asked' = asked
          BY <4>2, <5>1 DEF status, Reported, client_count_commstate
        <5>3. n.of = "status" /\ n.count = Cardinality(who)
          BY <3>3, <5>2
        <5>4. who = {fd \in Fd : asked[fd].stream}
          BY <5>1, CountAsAsked
        <5>5. \A fd : fd \in who <=> fd \in Asking
          BY <5>2, <5>3, <5>4
        <5>6. who = Asking
          BY <5>5
        <5> QED
          BY <5>3, <5>6
      <4> QED
        BY <3>3, <4>1, <4>2
        DEF Next, Connect, TlsAccepting, TlsReadNothing, Close, PlainRead, TlsRead,
            commands, sendmessages
    <3> QED
      BY <3>1, <3>2, <3>3 DEF CountsAsAsked
  <2> QED
    BY <2>1, <2>2
<1> QED
  BY <1>1, <1>2, PTL DEF Spec

(* Without reinit_allowed nothing but its closing touches a stream.        *)
THEOREM StreamUndisturbedCorrect == Spec => StreamUndisturbed
<1> DEFINE Undisturbed(fd) ==
             cli[fd].status = "COMM" /\ ~reinit_allowed =>
               \/ fd \in DOMAIN cli' /\ cli'[fd] = cli[fd] /\ \A a \in answer' : a.fd # fd
               \/ Close(fd)
<1>1. Streams /\ [Next]_vars =>
        [\A fd \in DOMAIN cli : Undisturbed(fd)]_vars
  <2> SUFFICES ASSUME Streams, Next,
                      NEW fd \in DOMAIN cli,
                      cli[fd].status = "COMM", ~reinit_allowed
               PROVE  \/ fd \in DOMAIN cli' /\ cli'[fd] = cli[fd] /\ \A a \in answer' : a.fd # fd
                      \/ Close(fd)
    OBVIOUS
  <2>1. /\ fd \in Fd /\ cli \in [DOMAIN cli -> CliConn]
        /\ Opened(cli[fd], asked[fd]) /\ cli[fd].cio = Readable
    BY DEF Streams, TypeOK, StreamsInv, Opened
  <2>2. ASSUME NEW x \in Fd, Connect(x)
        PROVE  fd \in DOMAIN cli' /\ cli'[fd] = cli[fd] /\ answer' = {}
    BY <2>2 DEF Connect, With
  <2>3. ASSUME NEW x \in Fd, TlsAccepting(x)
        PROVE  fd \in DOMAIN cli' /\ cli'[fd] = cli[fd] /\ answer' = {}
    BY <2>1, <2>3 DEF TlsAccepting, Readable
  <2>4. ASSUME NEW x \in Fd, TlsReadNothing(x)
        PROVE  fd \in DOMAIN cli' /\ cli'[fd] = cli[fd] /\ answer' = {}
    <3>1. Secured(cli[fd]) = cli[fd] \/ x # fd
      BY <2>1, <2>4, SecuredType DEF TlsReadNothing
    <3> QED
      BY <2>1, <2>4, <3>1 DEF TlsReadNothing
  <2>5. ASSUME NEW x \in Fd, Close(x), x # fd
        PROVE  fd \in DOMAIN cli' /\ cli'[fd] = cli[fd] /\ answer' = {}
    BY <2>5 DEF Close, Without
  <2>6. ASSUME NEW x \in DOMAIN cli, NEW c, NEW r \in Requests,
               chat_received(x, c, r), x = fd => c = cli[fd]
        PROVE  fd \in DOMAIN cli' /\ cli'[fd] = cli[fd] /\ \A a \in answer' : a.fd # fd
    <3>1. CASE x = fd
      BY <2>1, <2>6, <3>1 DEF chat_received, Ignored
    <3>2. CASE x # fd
      <4>1. CASE Ignored(c, r) /\ cli' = [cli EXCEPT ![x] = c] /\ answer' = {}
        BY <2>1, <3>2, <4>1
      <4>2. CASE StartStream(x, c, r)
        BY <2>1, <3>2, <4>2 DEF StartStream
      <4>3. CASE Refuse(x, r)
        BY <2>1, <3>2, <4>3 DEF Refuse, Without
      <4> QED
        BY <2>6, <4>1, <4>2, <4>3 DEF chat_received
    <3> QED
      BY <3>1, <3>2
  <2>7. ASSUME NEW x \in Fd, NEW r \in Requests, PlainRead(x, r)
        PROVE  fd \in DOMAIN cli' /\ cli'[fd] = cli[fd] /\ \A a \in answer' : a.fd # fd
    BY <2>6, <2>7 DEF PlainRead
  <2>8. ASSUME NEW x \in Fd, NEW r \in Requests, TlsRead(x, r)
        PROVE  fd \in DOMAIN cli' /\ cli'[fd] = cli[fd] /\ \A a \in answer' : a.fd # fd
    <3>1. use_ssl /\ x \in DOMAIN cli /\ chat_received(x, Secured(cli[x]), r)
      BY <2>8 DEF TlsRead
    <3>2. x = fd => Secured(cli[x]) = cli[fd]
      BY <2>1, <3>1, SecuredType
    <3> QED
      BY <2>6, <3>1, <3>2
  <2>9. ASSUME NEW allowed \in BOOLEAN, commands(allowed)
        PROVE  cli' = cli /\ answer' = {}
    BY <2>9 DEF commands
  <2>10. ASSUME NEW m \in Messages, sendmessages(m)
         PROVE  cli' = cli /\ answer' = {}
    BY <2>10 DEF sendmessages
  <2>11. ASSUME NEW of, NEW count, Reported(of, count)
         PROVE  cli' = cli /\ answer' = {}
    BY <2>11 DEF Reported
  <2> QED
    BY <2>2, <2>3, <2>4, <2>5, <2>7, <2>8, <2>9, <2>10, <2>11
    DEF Next, subscribedclients, status
<1> QED
  BY <1>1, Invariance, PTL DEF Spec, StreamUndisturbed
-----------------------------------------------------------------------------
(***************************************************************************)
(* The protocol implements PubSub.                                         *)
(***************************************************************************)

(* The visible outputs of a handler that neither sends nor reports.        *)
Quiet == sent' = {} /\ report' = {} /\ reinit_allowed' = reinit_allowed

LEMMA OtherStep ==
  ASSUME Quiet, Interests' = Interests
  PROVE  PubSub!Next
BY DEF Quiet, PubSub!Next, PubSub!Other, PubSub!Silent

(* The streams are what asked says, and nothing else.                      *)
LEMMA InterestsStay ==
  ASSUME asked' = asked
  PROVE  Interests' = Interests
BY DEF Interests

(* An accepted GET opens a stream, or opens it anew.                       *)
LEMMA OpenStep ==
  ASSUME Streams, Quiet, NEW fd \in Fd, NEW b \in Asked, b.stream,
         asked[fd].stream => reinit_allowed,
         asked' = [asked EXCEPT ![fd] = b]
  PROVE  PubSub!Open(fd)
<1> DEFINE D == {x \in Fd : asked[x].stream}
<1> PICK i : i = [tokens |-> b.tokens, id |-> b.lastId]
  OBVIOUS
<1>1. asked'[fd] = b /\ \A x \in Fd : x # fd => asked'[x] = asked[x]
  BY DEF Streams, TypeOK
<1>2. {x \in Fd : asked'[x].stream} = D \union {fd}
  BY <1>1
<1>3. Interests' = [x \in {y \in Fd : asked'[y].stream} |->
                     [tokens |-> asked'[x].tokens, id |-> asked'[x].lastId]]
  BY DEF Interests
<1>4. Interests = [x \in D |-> [tokens |-> asked[x].tokens, id |-> asked[x].lastId]]
  BY DEF Interests
<1>5. Interests' = [x \in D \union {fd} |-> IF x = fd THEN i ELSE Interests[x]]
  <2>1. \A x \in D \union {fd} :
          [tokens |-> asked'[x].tokens, id |-> asked'[x].lastId]
            = IF x = fd THEN i ELSE Interests[x]
    BY <1>1, <1>4
  <2> QED
    BY <1>2, <1>3, <2>1
<1>6. i \in PubSub!Interest
  BY DEF Asked, PubSub!Interest
<1>7. DOMAIN Interests = D
  BY <1>4
<1>8. fd \in DOMAIN Interests' /\ Interests'[fd] = i
  BY <1>5
<1> HIDE DEF D
<1>9. Interests' = [x \in DOMAIN Interests \union {fd} |->
                     IF x = fd THEN Interests'[fd] ELSE Interests[x]]
  BY <1>5, <1>7, <1>8
<1>10. fd \in DOMAIN Interests => reinit_allowed
  BY <1>7 DEF D
<1> QED
  BY <1>6, <1>8, <1>9, <1>10 DEF PubSub!Open, PubSub!Silent, Quiet

(* A connection that is closed ends its stream if it had one.              *)
LEMMA EndStep ==
  ASSUME Streams, Quiet, NEW fd \in Fd,
         asked' = [asked EXCEPT ![fd] = NothingAsked]
  PROVE  PubSub!Next
<1> DEFINE D == {x \in Fd : asked[x].stream}
<1>1. asked'[fd] = NothingAsked /\ \A x \in Fd : x # fd => asked'[x] = asked[x]
  BY DEF Streams, TypeOK
<1>2. ~NothingAsked.stream
  BY DEF NothingAsked
<1>3. {x \in Fd : asked'[x].stream} = D \ {fd}
  BY <1>1, <1>2
<1>4. Interests' = [x \in {y \in Fd : asked'[y].stream} |->
                     [tokens |-> asked'[x].tokens, id |-> asked'[x].lastId]]
  BY DEF Interests
<1>5. Interests = [x \in D |-> [tokens |-> asked[x].tokens, id |-> asked[x].lastId]]
  BY DEF Interests
<1>6. Interests' = [x \in D \ {fd} |-> Interests[x]]
  <2>1. \A x \in D \ {fd} :
          [tokens |-> asked'[x].tokens, id |-> asked'[x].lastId] = Interests[x]
    BY <1>1, <1>5
  <2> QED
    BY <1>3, <1>4, <2>1
<1>7. DOMAIN Interests = D
  BY <1>5
<1> HIDE DEF D
<1>8. CASE fd \in D
  <2>1. PubSub!End(fd)
    BY <1>6, <1>7, <1>8 DEF PubSub!End, PubSub!Silent, Quiet
  <2> QED
    BY <2>1 DEF PubSub!Next
<1>9. CASE fd \notin D
  <2>1. D \ {fd} = D
    BY <1>9
  <2>2. Interests' = Interests
    BY <1>5, <1>6, <2>1
  <2> QED
    BY <2>2, OtherStep
<1> QED
  BY <1>8, <1>9

(* A request, in whatever way it is answered.                              *)
LEMMA ReceivedStep ==
  ASSUME Streams, Quiet, NEW fd \in Fd, NEW c, NEW r \in Requests,
         c.status = "COMM" <=> asked[fd].stream,
         chat_received(fd, c, r)
  PROVE  PubSub!Next
<1>1. CASE Ignored(c, r) /\ UNCHANGED <<par, asked>>
  BY <1>1, InterestsStay, OtherStep
<1>2. CASE ~Ignored(c, r) /\ StartStream(fd, c, r)
  <2>1. PICK b : b = AskedBy(asked[fd], r)
    OBVIOUS
  <2>2. asked' = [asked EXCEPT ![fd] = b]
    BY <1>2, <2>1 DEF StartStream
  <2>3. asked[fd] \in Asked
    BY DEF Streams, TypeOK
  <2>4. b \in Asked /\ b.stream
    BY <2>1, <2>3, AskedByType
  <2>5. asked[fd].stream => reinit_allowed
    BY <1>2 DEF Ignored
  <2>6. PubSub!Open(fd)
    BY <2>2, <2>4, <2>5, OpenStep
  <2> QED
    BY <2>6 DEF PubSub!Next
<1>3. CASE Refuse(fd, r)
  BY <1>3, EndStep DEF Refuse
<1> QED
  BY <1>1, <1>2, <1>3 DEF chat_received

(* What sendmessages chooses from the clients' records are the streams     *)
(* that want the message.                                                  *)
LEMMA PublishStep ==
  ASSUME Streams, SubsInv, NEW m \in Messages, sendmessages(m)
  PROVE  PubSub!Publish(m)
<1> DEFINE D == {x \in Fd : asked[x].stream}
<1>1. PICK audience : audience = {fd \in DOMAIN cli :
                                    /\ cli[fd].status = "COMM"
                                    /\ client_subscribe_exists(cli[fd], m)}
  OBVIOUS
<1>2. /\ sent' = {[msg |-> m, to |-> audience]}
      /\ report' = {} /\ asked' = asked /\ reinit_allowed' = reinit_allowed
  BY <1>1 DEF sendmessages
<1>3. DOMAIN cli \subseteq Fd
  BY DEF Streams, TypeOK
<1>4. audience = {fd \in D : Wanted(asked[fd], m)}
  BY <1>1, <1>3, AudienceAsAsked
<1>5. Interests = [x \in D |-> [tokens |-> asked[x].tokens, id |-> asked[x].lastId]]
  BY DEF Interests
<1>6. ASSUME NEW fd \in D
      PROVE  Wanted(asked[fd], m) <=> PubSub!Wants(Interests[fd], m)
  <2>1. Interests[fd].tokens = asked[fd].tokens /\ Interests[fd].id = asked[fd].lastId
    BY <1>5
  <2> QED
    BY <2>1 DEF Wanted, PubSub!Wants
<1>7. DOMAIN Interests = D
  BY <1>5
<1> HIDE DEF D
<1>8. audience = {fd \in DOMAIN Interests : PubSub!Wants(Interests[fd], m)}
  BY <1>4, <1>6, <1>7
<1>9. sent' = {[msg |-> m,
                to |-> {fd \in DOMAIN Interests : PubSub!Wants(Interests[fd], m)}]}
  BY <1>2, <1>8
<1>10. Interests' = Interests
  BY <1>2, InterestsStay
<1> QED
  BY <1>2, <1>9, <1>10 DEF PubSub!Publish

(* An instance has its own copy of Cardinality.                            *)
LEMMA SameCardinality == \A S : PubSub!Cardinality(S) = Cardinality(S)
BY DEF Cardinality, PubSub!Cardinality

(* The counting commands report numbers of streams.                        *)
LEMMA CountStep ==
  ASSUME Streams, SubsInv,
         status \/ \E t \in Token \union {"*"} : subscribedclients(t)
  PROVE  PubSub!Next
<1> DEFINE D == {x \in Fd : asked[x].stream}
<1>1. sent' = {} /\ reinit_allowed' = reinit_allowed /\ asked' = asked
  BY DEF status, subscribedclients, Reported
<1>2. Interests' = Interests
  BY <1>1, InterestsStay
<1>3. Interests = [x \in D |-> [tokens |-> asked[x].tokens, id |-> asked[x].lastId]]
  BY DEF Interests
<1>4. DOMAIN Interests = D /\ \A x \in D : Interests[x].tokens = asked[x].tokens
  BY <1>3
<1>5. CASE status
  <2>1. PICK who : who = {fd \in DOMAIN cli : cli[fd].status = "COMM"}
    OBVIOUS
  <2>2. report' = {[of |-> "status", count |-> Cardinality(who)]}
    BY <1>5, <2>1 DEF status, Reported, client_count_commstate
  <2>3. who = DOMAIN Interests
    <3>1. PICK any \in Token \union {"*"} : TRUE
      OBVIOUS
    <3> QED
      BY <2>1, <1>4, CountAsAsked
  <2>4. PubSub!Count("status", DOMAIN Interests)
    BY <1>1, <1>2, <2>2, <2>3, SameCardinality DEF PubSub!Count
  <2> QED
    BY <2>4 DEF PubSub!Next
<1>6. ASSUME NEW t \in Token \union {"*"}, subscribedclients(t)
      PROVE  PubSub!Next
  <2>1. PICK who : who = {fd \in DOMAIN cli : t \in cli[fd].subs}
    OBVIOUS
  <2>2. report' = {[of |-> t, count |-> Cardinality(who)]}
    BY <1>6, <2>1 DEF subscribedclients, Reported, subscribed_client_count
  <2>3. who = {fd \in Fd : asked[fd].stream /\ t \in asked[fd].tokens \ {"*"}}
    BY <2>1, CountAsAsked
  <2>4. \A fd : fd \in who <=> /\ fd \in DOMAIN Interests
                               /\ t # "*" /\ t \in Interests[fd].tokens
    BY <1>4, <2>3
  <2>5. who = {fd \in DOMAIN Interests : t # "*" /\ t \in Interests[fd].tokens}
    BY <2>4
  <2>6. PubSub!CountToken(t)
    BY <1>1, <1>2, <2>2, <2>5, SameCardinality DEF PubSub!CountToken, PubSub!Count
  <2> QED
    BY <2>6 DEF PubSub!Next
<1> QED
  BY <1>5, <1>6

LEMMA StepImplements ==
  ASSUME Streams, SubsInv, [Next]_vars
  PROVE  [PubSub!Next]_(PubSub!vars)
<1>1. ASSUME NEW fd \in DOMAIN cli
      PROVE  /\ fd \in Fd /\ cli[fd] \in CliConn
             /\ Opened(cli[fd], asked[fd])
             /\ cli[fd].status = "COMM" <=> asked[fd].stream
  BY DEF Streams, TypeOK, StreamsInv, Opened
<1>2. ASSUME NEW fd \in Fd, Connect(fd) \/ TlsAccepting(fd) \/ TlsReadNothing(fd)
      PROVE  PubSub!Next
  <2>1. Quiet /\ asked' = asked
    BY <1>2 DEF Connect, TlsAccepting, TlsReadNothing, Quiet
  <2> QED
    BY <2>1, InterestsStay, OtherStep
<1>3. ASSUME NEW fd \in Fd, Close(fd)
      PROVE  PubSub!Next
  BY <1>3, EndStep DEF Close, Quiet
<1>4. ASSUME NEW fd \in Fd, NEW r \in Requests, PlainRead(fd, r)
      PROVE  PubSub!Next
  <2>1. Quiet /\ fd \in DOMAIN cli /\ chat_received(fd, cli[fd], r)
    BY <1>4 DEF PlainRead, Quiet
  <2> QED
    BY <1>1, <2>1, ReceivedStep
<1>5. ASSUME NEW fd \in Fd, NEW r \in Requests, TlsRead(fd, r)
      PROVE  PubSub!Next
  <2>1. Quiet /\ fd \in DOMAIN cli /\ use_ssl /\ chat_received(fd, Secured(cli[fd]), r)
    BY <1>5 DEF TlsRead, Quiet
  <2>2. Opened(Secured(cli[fd]), asked[fd])
    BY <1>1, <2>1, SecuredType
  <2>3. Secured(cli[fd]).status = "COMM" <=> asked[fd].stream
    BY <2>2 DEF Opened
  <2> QED
    BY <2>1, <2>3, ReceivedStep
<1>6. ASSUME NEW allowed \in BOOLEAN, commands(allowed)
      PROVE  PubSub!Next
  <2>1. Interests' = Interests
    BY <1>6, InterestsStay DEF commands
  <2>2. PubSub!Allow(allowed)
    BY <1>6, <2>1 DEF commands, PubSub!Allow, PubSub!Silent
  <2> QED
    BY <2>2 DEF PubSub!Next
<1>7. ASSUME NEW m \in Messages, sendmessages(m)
      PROVE  PubSub!Next
  BY <1>7, PublishStep DEF PubSub!Next
<1>8. CASE UNCHANGED vars
  <2>1. Interests' = Interests
    BY <1>8, InterestsStay DEF vars
  <2> QED
    BY <1>8, <2>1 DEF vars, PubSub!vars
<1> QED
  BY <1>2, <1>3, <1>4, <1>5, <1>6, <1>7, <1>8, CountStep DEF Next

(* When every GET for the URL has a query, the protocol is a               *)
(* publish/subscribe service: its streams open for what they themselves    *)
(* have asked, an open one opens anew only when that is allowed, and       *)
(* messages and counts are those of the streams that are open.             *)
THEOREM PubSubImplemented ==
  ASSUME GetsHaveQuery
  PROVE  Spec => ImplementsPubSub
<1>1. Init => PubSub!Init
  <2> SUFFICES ASSUME Init PROVE PubSub!Init
    OBVIOUS
  <2>1. /\ asked = [fd \in Fd |-> NothingAsked]
        /\ reinit_allowed \in BOOLEAN /\ sent = {} /\ report = {}
    BY DEF Init
  <2>2. ~NothingAsked.stream
    BY DEF NothingAsked
  <2>3. {x \in Fd : asked[x].stream} = {}
    BY <2>1, <2>2
  <2>4. Interests = << >>
    BY <2>3 DEF Interests
  <2> QED
    BY <2>1, <2>4 DEF PubSub!Init
<1>2. Init => Streams /\ SubsInv
  BY InitKept
<1>3. Streams /\ SubsInv /\ [Next]_vars => Streams' /\ SubsInv'
  BY GetsHaveQuery, StepKept DEF Kept
<1>4. Streams /\ SubsInv /\ [Next]_vars => [PubSub!Next]_(PubSub!vars)
  BY StepImplements
<1> QED
  BY <1>1, <1>2, <1>3, <1>4, PTL DEF Spec, ImplementsPubSub, PubSub!Spec

-----------------------------------------------------------------------------
(* With a query in every GET for the URL a stream is only ever started by  *)
(* a subscribe parameter of its own: what run no_query shows needs a GET   *)
(* without one (chat.c:179, 234).                                          *)
THEOREM StartedByOwnParameterHolds ==
  ASSUME GetsHaveQuery
  PROVE  Spec => []StartedByOwnParameter
<1> DEFINE Inv == Streams /\ StartedByOwnParameter
<1>1. ASSUME Init PROVE Inv
  <2>1. Streams /\ asked = [fd \in Fd |-> NothingAsked]
    BY <1>1, InitKept DEF Init
  <2>2. NothingAsked.stream = FALSE
    BY DEF NothingAsked
  <2> QED  BY <2>1, <2>2 DEF StartedByOwnParameter
<1>2. Inv /\ [Next]_vars => Inv'
  <2> SUFFICES ASSUME Inv, [Next]_vars PROVE Inv'
    OBVIOUS
  <2>1. Streams'
    BY StepKept DEF Kept
  <2>2. CASE asked' = asked
    BY <2>1, <2>2 DEF StartedByOwnParameter
  <2>3. ASSUME NEW fd \in Fd, NEW b, asked' = [asked EXCEPT ![fd] = b],
               b.stream => b.subscribe
        PROVE  Inv'
    BY <2>1, <2>3 DEF Streams, TypeOK, StartedByOwnParameter
  <2>4. ASSUME NEW fd \in Fd, asked' = [asked EXCEPT ![fd] = NothingAsked]
        PROVE  Inv'
    BY <2>3, <2>4 DEF NothingAsked
  <2>5. ASSUME NEW fd \in Fd, NEW c, NEW r \in Requests, StartStream(fd, c, r)
        PROVE  Inv'
    <3>1. HasSubscribe(r.query.params)
      BY <2>5, GetsHaveQuery DEF StartStream, GetsHaveQuery, WellFormedGet, ParAfter
    <3>2. asked' = [asked EXCEPT ![fd] = AskedBy(asked[fd], r)]
      BY <2>5 DEF StartStream, Streams, TypeOK
    <3>3. AskedBy(asked[fd], r).subscribe
      BY <3>1 DEF AskedBy
    <3> QED  BY <2>3, <3>2, <3>3
  <2>6. ASSUME NEW fd \in Fd, NEW c, NEW r \in Requests, chat_received(fd, c, r)
        PROVE  Inv'
    BY <2>2, <2>4, <2>5, <2>6 DEF chat_received, Refuse
  <2> QED
    BY <2>2, <2>4, <2>6
    DEF Next, vars, Connect, TlsAccepting, TlsReadNothing, Close, PlainRead, TlsRead,
        commands, subscribedclients, status, Reported, sendmessages
<1> QED
  BY <1>1, <1>2, PTL DEF Spec
=============================================================================
