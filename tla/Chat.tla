-------------------------------- MODULE Chat ---------------------------------
(***************************************************************************)
(* The HTTP and SSE protocol of one client connection (chat.c) on top of   *)
(* the transport (cio.c), for all connections together: they share the     *)
(* buffer par, which keeps the parameters of the last request that had     *)
(* any, and the reinit_allowed switch.                                     *)
(*                                                                         *)
(* Every action is one handler of the event loop, which nothing            *)
(* interrupts.  The clients are a function from descriptors to records;    *)
(* ClientLoops shows that the database of cdata.c is such a set.  Failing  *)
(* writes are left to ClientLoops, the times to close a client to Close.   *)
(***************************************************************************)
EXTENDS Integers, Sequences, FiniteSets

CONSTANTS
  Fd,          (* The socket descriptors the kernel may hand out           *)
  Token,       (* Subscription tokens, without the "*" for all of them     *)
  Id,          (* Values of the id parameter, without the empty one        *)
  Requests,    (* The HTTP requests the clients send                       *)
  Messages     (* The messages the server's own side sends                 *)

(* One parameter of a query: its tokens, or its id.  *)
Param == [name : {"subscribe", "id"},
          tokens : SUBSET (Token \union {"*"}), id : Id \union {""}]

(* What chat_received reads in a request: the method, whether the URL is   *)
(* the configured one (or "*"), the parameters after "?" if there is one,  *)
(* the HTTP version and the Connection header.  What one read returns is   *)
(* taken for a request: of one that comes in two pieces the first is a     *)
(* request without what follows, the second one of no known method.        *)
Request == [method : {"GET", "HEAD", "OPTIONS", "UNSUPP"},
            url : {"NO", "YES", "ALL"},
            query : [given : BOOLEAN, params : Seq(Param)],
            http11 : BOOLEAN, keepalive : BOOLEAN]

(* A message: the subscription tokens its own one matches, exactly or with *)
(* its wildcard; whether it is "*"; the id it is not for, "" for none.     *)
Message == [tokens : SUBSET Token, all : BOOLEAN, rejectId : Id \union {""}]

ASSUME RequestAssumption == Requests \subseteq Request

ASSUME MessagesAssumption == Messages \subseteq Message

ASSUME NamesAssumption == {"*", "status"} \intersect Token = {} /\ "" \notin Id

VARIABLES
  use_ssl,         (* hsettings.use_ssl, which nothing changes             *)
  cli,             (* The connected clients                                *)
  par,             (* The parameters chat.c has in its buffer par          *)
  reinit_allowed,  (* hsettings.reinit_allowed                             *)
  asked,           (* History: what a connection itself has asked for      *)
  sent,            (* Output of the last handler: a message and receivers  *)
  answer,          (* Output of the last handler: an answer to a request   *)
  report           (* Output of the last handler: a number of clients      *)

vars == <<use_ssl, cli, par, reinit_allowed, asked, sent, answer, report>>

(***************************************************************************)
(* The fields of struct CliConn the protocol uses.  cio is the state of    *)
(* the TLS layer of the connection: cio is NULL, SSL_accept has not come   *)
(* to its end, or it has.                                                  *)
(***************************************************************************)
CliConn == [status : {"NEW", "SSLACPT", "COMM"},
            cio : {"null", "accepting", "up"},
            subs : SUBSET Token, allsubs : BOOLEAN, uniq_id : Id \union {""}]

(* stream: a GET of the connection was accepted; subscribe: that GET had a *)
(* subscribe parameter, with tokens; id: its id; lastId: the last id it or *)
(* an earlier GET of the connection gave.                                  *)
Asked == [stream : BOOLEAN, subscribe : BOOLEAN,
          tokens : SUBSET (Token \union {"*"}), id : Id \union {""},
          lastId : Id \union {""}]

NothingAsked ==
  [stream |-> FALSE, subscribe |-> FALSE, tokens |-> {}, id |-> "", lastId |-> ""]

NewCliConn ==
  [status |-> "NEW", cio |-> "null", subs |-> {}, allsubs |-> FALSE,
   uniq_id |-> ""]

Without(f, d) == [x \in DOMAIN f \ {d} |-> f[x]]

With(f, d, v) == [x \in DOMAIN f \union {d} |-> IF x = d THEN v ELSE f[x]]

Init ==
  /\ use_ssl \in BOOLEAN
  /\ cli = << >>
  /\ par = << >>
  /\ reinit_allowed \in BOOLEAN
  /\ asked = [fd \in Fd |-> NothingAsked]
  /\ sent = {}
  /\ answer = {}
  /\ report = {}

-----------------------------------------------------------------------------
(***************************************************************************)
(* chat_parseparam.                                                        *)
(***************************************************************************)

(* The positions of the parameters with a name.                            *)
Named(params, name) == {k \in 1 .. Len(params) : params[k].name = name}

(* The last parameter with a name, which is the one that counts.           *)
LastNamed(params, name) ==
  params[CHOOSE k \in Named(params, name) :
           \A j \in Named(params, name) : j <= k]

HasSubscribe(params) == Named(params, "subscribe") # {}

(* What strtok leaves in the parsed buffer.                                *)
Tokenized(params) == SubSeq(params, 1, IF Len(params) = 0 THEN 0 ELSE 1)

IdAfter(params, old) ==
  IF Named(params, "id") = {} THEN old ELSE LastNamed(params, "id").id

(* The client after chat_parseparam, which found a subscribe parameter.    *)
Subscribed(c, params) ==
  LET tokens == LastNamed(params, "subscribe").tokens
  IN  [c EXCEPT !.uniq_id = IdAfter(params, @),
                !.subs = @ \union (tokens \ {"*"}),
                !.allsubs = @ \/ "*" \in tokens]

-----------------------------------------------------------------------------
(***************************************************************************)
(* chat_received.                                                          *)
(***************************************************************************)

(* Mutant of Ignored: get_reinit_allowed is not asked.                     *)
Ignored_by_method(c, r) == c.status = "COMM" /\ r.method # "GET"

(* The request is for an established stream and does not re-initialise it. *)
Ignored(c, r) == c.status = "COMM" /\ ~(reinit_allowed /\ r.method = "GET")

(* Mutant of Reset: client_subscribe_clear is not called.                  *)
Reset_keeps_subs(c) == IF c.status = "COMM" THEN [c EXCEPT !.status = "NEW"] ELSE c

(* The client when the request line is read: a stream has been reset.      *)
Reset(c) ==
  IF c.status = "COMM"
    THEN [c EXCEPT !.status = "NEW", !.subs = {}, !.allsubs = FALSE]
    ELSE c

(* The buffer par after the request line is read.                          *)
ParAfter(r) == IF r.url = "YES" /\ r.query.given THEN r.query.params ELSE par

(* A GET for which the parameters are looked at.                           *)
WellFormedGet(r) ==
  r.method = "GET" /\ r.url = "YES" /\ r.http11 /\ r.keepalive

(* The answer to a request that does not start a stream.                   *)
Refusal(r) ==
  LET right == IF r.method = "OPTIONS" THEN {"YES", "ALL"} ELSE {"YES"}
  IN  IF r.method = "UNSUPP" THEN "notsupported"
      ELSE IF r.url \notin right THEN "notfound"
      ELSE IF ~r.http11 THEN "notsupported"
      ELSE IF r.method = "HEAD" THEN "head"
      ELSE IF r.method = "OPTIONS" THEN "options"
      ELSE "badreq"

(* cio_high_write: under TLS nothing is written to a client that has not   *)
(* got as far as the HTTP header or is to be closed (STATUS_END).          *)
HighWritten(status) == ~use_ssl \/ status \in {"HEADER", "COMM"}

(* What the connection has asked for with its accepted GET.                *)
AskedBy(old, r) ==
  [stream |-> TRUE,
   subscribe |-> HasSubscribe(r.query.params),
   tokens |-> IF HasSubscribe(r.query.params)
                THEN LastNamed(r.query.params, "subscribe").tokens ELSE {},
   id |-> IdAfter(r.query.params, ""),
   lastId |-> IdAfter(r.query.params, old.lastId)]

(* The GET is accepted: chat_send_handshake.                               *)
StartStream(fd, c, r) ==
  /\ WellFormedGet(r) /\ HasSubscribe(ParAfter(r))
  /\ cli' = [cli EXCEPT ![fd] =
               [Subscribed(Reset(c), ParAfter(r)) EXCEPT !.status = "COMM"]]
  /\ par' = Tokenized(ParAfter(r))
  /\ asked' = [asked EXCEPT ![fd] = AskedBy(@, r)]
  /\ answer' = {[fd |-> fd, what |-> "handshake", written |-> HighWritten("HEADER")]}

(* Every other request is answered and the connection closed.              *)
Refuse(fd, r) ==
  /\ ~(WellFormedGet(r) /\ HasSubscribe(ParAfter(r)))
  /\ cli' = Without(cli, fd)
  /\ par' = IF WellFormedGet(r) THEN Tokenized(ParAfter(r)) ELSE ParAfter(r)
  /\ asked' = [asked EXCEPT ![fd] = NothingAsked]
  /\ answer' = {[fd |-> fd, what |-> Refusal(r), written |-> HighWritten("END")]}

(* The request r has been read from the connection; c is the client then.  *)
chat_received(fd, c, r) ==
  \/ /\ Ignored(c, r)
     /\ cli' = [cli EXCEPT ![fd] = c]
     /\ answer' = {}
     /\ UNCHANGED <<par, asked>>
  \/ ~Ignored(c, r) /\ (StartStream(fd, c, r) \/ Refuse(fd, r))

-----------------------------------------------------------------------------
(***************************************************************************)
(* The handlers of the event loop.                                         *)
(***************************************************************************)

(* The listening socket is ready: accept and client_add.                   *)
Connect(fd) ==
  /\ fd \notin DOMAIN cli
  /\ cli' = With(cli, fd, NewCliConn)
  /\ sent' = {} /\ answer' = {} /\ report' = {}
  /\ UNCHANGED <<use_ssl, par, reinit_allowed, asked>>

(* cio_low_read without TLS.                                               *)
PlainRead(fd, r) ==
  /\ ~use_ssl
  /\ fd \in DOMAIN cli
  /\ chat_received(fd, cli[fd], r)
  /\ sent' = {} /\ report' = {}
  /\ UNCHANGED <<use_ssl, reinit_allowed>>

(* The client after cio_init_ssl, if the TLS layer has not been set up.    *)
Accepting(c) ==
  IF c.cio = "null" THEN [c EXCEPT !.cio = "accepting", !.status = "SSLACPT"] ELSE c

(* cio_low_read with TLS, and SSL_accept does not come to its end now:     *)
(* it wants more, or it has failed, which is only logged.                  *)
TlsAccepting(fd) ==
  /\ use_ssl
  /\ fd \in DOMAIN cli
  /\ cli[fd].cio # "up"
  /\ cli' = [cli EXCEPT ![fd] = Accepting(@)]
  /\ sent' = {} /\ answer' = {} /\ report' = {}
  /\ UNCHANGED <<use_ssl, par, reinit_allowed, asked>>

(* Mutant of Secured: SSL_is_init_finished is not asked before SSL_read.   *)
Secured_unfinished(c) ==
  IF c.cio = "up" THEN c ELSE [Accepting(c) EXCEPT !.status = "NEW"]

(* The client once SSL_accept has come to its end.                         *)
Secured(c) ==
  IF c.cio = "up" THEN c ELSE [Accepting(c) EXCEPT !.cio = "up", !.status = "NEW"]

(* cio_low_read with TLS: SSL_accept is or was successful, and SSL_read    *)
(* returns a request or nothing.                                           *)
TlsRead(fd, r) ==
  /\ use_ssl
  /\ fd \in DOMAIN cli
  /\ chat_received(fd, Secured(cli[fd]), r)
  /\ sent' = {} /\ report' = {}
  /\ UNCHANGED <<use_ssl, reinit_allowed>>

TlsReadNothing(fd) ==
  /\ use_ssl
  /\ fd \in DOMAIN cli
  /\ cli' = [cli EXCEPT ![fd] = Secured(@)]
  /\ sent' = {} /\ answer' = {} /\ report' = {}
  /\ UNCHANGED <<use_ssl, par, reinit_allowed, asked>>

(* close_client: the peer has closed, an error, or a timeout.              *)
Close(fd) ==
  /\ fd \in DOMAIN cli
  /\ cli' = Without(cli, fd)
  /\ asked' = [asked EXCEPT ![fd] = NothingAsked]
  /\ sent' = {} /\ answer' = {} /\ report' = {}
  /\ UNCHANGED <<use_ssl, par, reinit_allowed>>

(* The commands reinit_enable and reinit_disable.                          *)
commands(allowed) ==
  /\ reinit_allowed' = allowed
  /\ sent' = {} /\ answer' = {} /\ report' = {}
  /\ UNCHANGED <<use_ssl, cli, par, asked>>

(* subscribed_client_count: the clients, whatever their status, that have  *)
(* subscribed to the token by its name.                                    *)
subscribed_client_count(t) == Cardinality({fd \in DOMAIN cli : t \in cli[fd].subs})

(* Mutant of client_count_commstate: all clients are counted.              *)
client_count_any == Cardinality(DOMAIN cli)

client_count_commstate ==
  Cardinality({fd \in DOMAIN cli : cli[fd].status = "COMM"})

Reported(of, count) ==
  /\ report' = {[of |-> of, count |-> count]}
  /\ sent' = {} /\ answer' = {}
  /\ UNCHANGED <<use_ssl, cli, par, reinit_allowed, asked>>

(* The commands subscribedclients: and tcpsubscribedclients:.              *)
subscribedclients(t) == Reported(t, subscribed_client_count(t))

(* The commands status and tcpstatus: the registered SSE clients.          *)
status == Reported("status", client_count_commstate)

client_subscribe_exists(c, m) ==
  /\ ~(m.rejectId # "" /\ m.rejectId = c.uniq_id)
  /\ c.allsubs \/ m.all \/ c.subs \intersect m.tokens # {}

sendmessages(m) ==
  /\ sent' = {[msg |-> m,
               to |-> {fd \in DOMAIN cli : /\ cli[fd].status = "COMM"
                                           /\ client_subscribe_exists(cli[fd], m)}]}
  /\ answer' = {} /\ report' = {}
  /\ UNCHANGED <<use_ssl, cli, par, reinit_allowed, asked>>

Next ==
  \/ \E fd \in Fd :
       \/ Connect(fd) \/ TlsAccepting(fd) \/ TlsReadNothing(fd) \/ Close(fd)
       \/ \E r \in Requests : PlainRead(fd, r) \/ TlsRead(fd, r)
  \/ \E allowed \in BOOLEAN : commands(allowed)
  \/ \E t \in Token \union {"*"} : subscribedclients(t)
  \/ status
  \/ \E m \in Messages : sendmessages(m)

Spec == Init /\ [][Next]_vars

-----------------------------------------------------------------------------
(***************************************************************************)
(* Properties.                                                             *)
(***************************************************************************)

(* Type correctness. *)
TypeOK ==
  /\ use_ssl \in BOOLEAN
  /\ DOMAIN cli \subseteq Fd
  /\ cli \in [DOMAIN cli -> CliConn]
  /\ par \in Seq(Param)
  /\ reinit_allowed \in BOOLEAN
  /\ asked \in [Fd -> Asked]
  /\ \A s \in sent : s.msg \in Messages /\ s.to \subseteq DOMAIN cli
  /\ \A a \in answer : a.fd \in Fd /\ a.written \in BOOLEAN
  /\ \A n \in report : n.of \in Token \union {"*", "status"}

(* A message is for a connection by what the connection itself asked for.  *)
Wanted(a, m) ==
  /\ ~(m.rejectId # "" /\ m.rejectId = a.lastId)
  /\ "*" \in a.tokens \/ m.all \/ a.tokens \intersect m.tokens # {}

(* A message goes to the streams whose own accepted GET asked for it, and  *)
(* to no other: whatever the other clients have asked for, refused or      *)
(* granted, through the buffer par they all share, and whatever the        *)
(* connection had subscribed to before it was re-initialised.              *)
DeliveredAsAsked ==
  \A s \in sent :
    s.to = {fd \in Fd : asked[fd].stream /\ Wanted(asked[fd], s.msg)}

(* The numbers that are reported are those of the streams: all of them, or *)
(* those whose own GET asked for the token by name, which for "*" is none. *)
(* A client that has not got as far, or whose stream has been refused or   *)
(* re-initialised, is not counted for what it once asked for.              *)
CountsAsAsked ==
  \A n \in report :
    n.count = Cardinality({fd \in Fd :
                             /\ asked[fd].stream
                             /\ n.of = "status" \/ n.of \in asked[fd].tokens \ {"*"}})

(* A client that is not streaming has no subscription left from a request  *)
(* or a stream, and under TLS a stream only starts on a connection on      *)
(* which SSL_accept was successful.                                        *)
StreamsAreOpened ==
  \A fd \in DOMAIN cli :
    /\ cli[fd].status = "COMM" <=> asked[fd].stream
    /\ cli[fd].status # "COMM" => cli[fd].subs = {} /\ ~cli[fd].allsubs
    /\ cli[fd].status = "COMM" => cli[fd].cio = (IF use_ssl THEN "up" ELSE "null")

(* Without reinit_allowed no data on an established stream changes it, and *)
(* nothing but its own closing ends it.                                    *)
StreamUndisturbed ==
  [][\A fd \in DOMAIN cli :
       cli[fd].status = "COMM" /\ ~reinit_allowed =>
         \/ fd \in DOMAIN cli' /\ cli'[fd] = cli[fd] /\ \A a \in answer' : a.fd # fd
         \/ Close(fd)]_vars

(* The streams, by what their own accepted GETs have asked for.            *)
Interests ==
  [fd \in {x \in Fd : asked[x].stream} |->
     [tokens |-> asked[fd].tokens, id |-> asked[fd].lastId]]

(* All the requests, refusals, resets and TLS states together, over one    *)
(* buffer par, are nothing but streams that open, for what each itself has *)
(* asked, and end; one that is open is opened anew only if reinit_allowed. *)
PubSub == INSTANCE PubSub WITH
            streams <- Interests, allowed <- reinit_allowed,
            delivered <- sent, counted <- report

ImplementsPubSub == PubSub!Spec

(* "Error in GET parameters. (Missing or wrong "subscribe" parameter)"     *)
(* (chat.c:242): a stream is only started for a GET that has the parameter.*)
StartedByOwnParameter ==
  \A fd \in Fd : asked[fd].stream => asked[fd].subscribe
=============================================================================
