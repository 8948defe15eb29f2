----------------------------- MODULE ClientLoops -----------------------------
(***************************************************************************)
(* The handlers of hasses that walk the client database with its global    *)
(* cursor while they change it: checkTimeouts (hasses.c), which closes the *)
(* clients whose time is over, and sendmessages (chat.c), which writes a   *)
(* message to its audience and then closes the clients whose write failed. *)
(*                                                                         *)
(* The daemon is one thread: a handler runs to its end before the next one *)
(* starts.  pc says where it is, one step for one iteration of a loop:     *)
(*   idle             between two handlers                                 *)
(*   check, checking  outer and inner loop of checkTimeouts                *)
(*   send, sending    sendmessages: client_next, and the loop's body       *)
(*   sent             sendmessages: the test of error_o                    *)
(*   reap, reaping    outer and inner loop of sendmessages' clean-up       *)
(*   segv             NULL was dereferenced and the process is gone        *)
(*   sigpipe          write() raised SIGPIPE and the process is gone       *)
(***************************************************************************)
EXTENDS ClientData, FiniteSets

CONSTANTS
  use_ssl,     (* hsettings.use_ssl                                        *)
  MaxMessage   (* Bounds the messages sent to a client, for TLC            *)

ASSUME SslAssumption == use_ssl \in BOOLEAN

ASSUME MessageAssumption == MaxMessage \in Nat

VARIABLES
  pc,          (* Where the only thread is, see above                      *)
  expired,     (* Descriptors checkTimeouts finds over their time          *)
  audience,    (* Descriptors of the streaming clients a message matches   *)
  error_o,     (* Local of sendmessages: cio_high_write reported an error  *)
  atStart      (* History: the records when the current walk started       *)

vars == <<banks, cursor, pc, expired, audience, error_o, atStart>>

PC == {"idle", "check", "checking", "send", "sending", "sent",
       "reap", "reaping", "segv", "sigpipe"}

Init ==
  /\ client_init
  /\ pc = "idle"
  /\ expired = {}
  /\ audience = {}
  /\ error_o = FALSE
  /\ atStart = {}

-----------------------------------------------------------------------------
(***************************************************************************)
(* Handlers that touch one client.                                         *)
(***************************************************************************)

(* The listening socket is ready: accept() returned an unused descriptor.  *)
Accept(fd) ==
  /\ pc = "idle"
  /\ fd \notin Descrs
  /\ client_add(NewClient(fd))
  /\ UNCHANGED <<pc, expired, audience, error_o, atStart>>

(* The record after an accepted GET has started or, when it is streaming   *)
(* and may be re-initialised, restarted the stream: a restart takes the    *)
(* error mark away, and writing the handshake may fail and set it again.   *)
Started(c, failed) ==
  [c EXCEPT !.status = "COMM", !.err = failed \/ (@ /\ c.status = "NEW")]

(* The record after other data: only under TLS is anything written then.   *)
Answered(c, failed) == [c EXCEPT !.err = @ \/ (use_ssl /\ failed)]

(* A client's data: the record is found and handled.  What is written to a *)
(* client that has reset its connection may also kill the process.         *)
ReadEvent(fd) ==
  /\ pc = "idle"
  /\ \E p \in Slots, failed \in BOOLEAN :
       /\ FoundAt(p, fd)
       /\ cursor' = [bank |-> p[1], slot |-> p[2]]
       /\ \/ /\ banks' = Written(p, Started(Entry(p), failed))
             /\ \/ UNCHANGED pc
                \/ failed /\ (Entry(p).err => Entry(p).status # "NEW") /\ pc' = "sigpipe"
          \/ /\ banks' = Written(p, Answered(Entry(p), failed))
             /\ \/ UNCHANGED pc
                \/ failed /\ use_ssl /\ ~Entry(p).err /\ pc' = "sigpipe"
  /\ UNCHANGED <<expired, audience, error_o, atStart>>

(* close_client(d) called by the event loop or a request handler; d need   *)
(* not be in the database any more.                                        *)
CloseClient(fd) ==
  /\ pc = "idle"
  /\ client_del(fd)
  /\ UNCHANGED <<pc, expired, audience, error_o, atStart>>

(* A command that counts or lists the clients. *)
Count ==
  /\ pc = "idle"
  /\ client_walked
  /\ UNCHANGED <<pc, expired, audience, error_o, atStart>>

-----------------------------------------------------------------------------
(***************************************************************************)
(* checkTimeouts.                                                          *)
(***************************************************************************)

(* The condition on created and status, evaluated with one time t, holds   *)
(* for the clients of S; a check interval has gone by.                     *)
checkTimeouts(S) ==
  /\ pc = "idle"
  /\ pc' = "check"
  /\ expired' = S
  /\ atStart' = members
  /\ client_start
  /\ UNCHANGED <<audience, error_o>>

CheckNext ==
  /\ pc = "check"
  /\ client_next
  /\ \/ HasCurrent' /\ pc' = "checking" /\ UNCHANGED <<expired, atStart>>
     \/ ~HasCurrent' /\ pc' = "idle" /\ expired' = {} /\ atStart' = {}
  /\ UNCHANGED <<audience, error_o>>

(* The condition of the inner while of checkTimeouts.                      *)
CurrentExpired == HasCurrent /\ client_current.descr \in expired

(* Mutant of CheckCurrent: an if in place of the inner while.              *)
CheckCurrent_once ==
  /\ pc = "checking"
  /\ pc' = "check"
  /\ IF CurrentExpired THEN client_del(client_current.descr) ELSE UNCHANGED dbVars
  /\ UNCHANGED <<expired, audience, error_o, atStart>>

(* Mutant of CheckCurrent: the record of the closed client is left.        *)
CheckCurrent_leaves ==
  /\ pc = "checking"
  /\ ~CurrentExpired
  /\ pc' = "check"
  /\ UNCHANGED <<banks, cursor, expired, audience, error_o, atStart>>

CheckCurrent ==
  /\ pc = "checking"
  /\ \/ CurrentExpired /\ client_del(client_current.descr) /\ UNCHANGED pc
     \/ ~CurrentExpired /\ pc' = "check" /\ UNCHANGED dbVars
  /\ UNCHANGED <<expired, audience, error_o, atStart>>

-----------------------------------------------------------------------------
(***************************************************************************)
(* sendmessages.                                                           *)
(***************************************************************************)

(* Mutant of sendmessages: the cursor is not put back to the start.        *)
sendmessages_no_start(S) ==
  /\ pc = "idle"
  /\ \A m \in members : m.message < MaxMessage
  /\ pc' = "send"
  /\ audience' = {m.descr : m \in {x \in members : x.status = "COMM"}} \cap S
  /\ error_o' = FALSE
  /\ atStart' = members
  /\ UNCHANGED <<banks, cursor, expired>>

(* A message arrives whose token matches the clients of S; only those with *)
(* a started stream get it.                                                *)
sendmessages(S) ==
  /\ pc = "idle"
  /\ \A m \in members : m.message < MaxMessage
  /\ pc' = "send"
  /\ audience' = {m.descr : m \in {x \in members : x.status = "COMM"}} \cap S
  /\ error_o' = FALSE
  /\ atStart' = members
  /\ client_start
  /\ UNCHANGED expired

SendNext ==
  /\ pc = "send"
  /\ client_next
  /\ pc' = IF HasCurrent' THEN "sending" ELSE "sent"
  /\ UNCHANGED <<expired, audience, error_o, atStart>>

(* Mutant of my_cio_low_write: success for a client with its mark set.     *)
my_cio_low_write_silent(c) ==
  \E failed \in IF c.err THEN {TRUE} ELSE BOOLEAN :
    /\ banks' = Written(<<cursor.bank, cursor.slot>>,
                        [c EXCEPT !.err = failed, !.message = @ + 1])
    /\ error_o' = (error_o \/ (failed /\ ~c.err /\ ~use_ssl))

(* my_cio_low_write: a client with its error mark set is not written to.   *)
(* Under TLS cio_high_write drops the result of the low-level write.       *)
my_cio_low_write(c) ==
  \E failed \in IF c.err THEN {TRUE} ELSE BOOLEAN :
    /\ banks' = Written(<<cursor.bank, cursor.slot>>,
                        [c EXCEPT !.err = failed, !.message = @ + 1])
    /\ error_o' = (error_o \/ (failed /\ ~use_ssl))

SendCurrent ==
  /\ pc = "sending"
  /\ \/ /\ client_current.descr \in audience
        /\ my_cio_low_write(client_current)
        /\ pc' = "send"
     \/ /\ client_current.descr \in audience
        /\ ~client_current.err
        /\ pc' = "sigpipe"
        /\ UNCHANGED <<banks, error_o>>
     \/ /\ client_current.descr \notin audience
        /\ pc' = "send"
        /\ UNCHANGED <<banks, error_o>>
  /\ UNCHANGED <<cursor, expired, audience, atStart>>

SendDone ==
  /\ pc = "sent"
  /\ \/ /\ error_o
        /\ pc' = "reap"
        /\ atStart' = members
        /\ client_start
        /\ UNCHANGED <<audience, error_o>>
     \/ /\ ~error_o
        /\ pc' = "idle"
        /\ audience' = {}
        /\ atStart' = {}
        /\ UNCHANGED <<banks, cursor, error_o>>
  /\ UNCHANGED expired

ReapNext ==
  /\ pc = "reap"
  /\ client_next
  /\ \/ HasCurrent' /\ pc' = "reaping" /\ UNCHANGED <<audience, error_o, atStart>>
     \/ /\ ~HasCurrent'
        /\ pc' = "idle"
        /\ audience' = {}
        /\ error_o' = FALSE
        /\ atStart' = {}
  /\ UNCHANGED expired

(* Mutant of ReapCurrent: an if in place of the inner while.               *)
ReapCurrent_once ==
  /\ pc = "reaping"
  /\ pc' = "reap"
  /\ IF client_current.err THEN client_del(client_current.descr) ELSE UNCHANGED dbVars
  /\ UNCHANGED <<expired, audience, error_o, atStart>>

(* while(client_current()->err): no test for NULL here.                    *)
ReapCurrent ==
  /\ pc = "reaping"
  /\ \/ ~HasCurrent /\ pc' = "segv" /\ UNCHANGED dbVars
     \/ /\ HasCurrent
        /\ client_current.err
        /\ client_del(client_current.descr)
        /\ UNCHANGED pc
     \/ HasCurrent /\ ~client_current.err /\ pc' = "reap" /\ UNCHANGED dbVars
  /\ UNCHANGED <<expired, audience, error_o, atStart>>

-----------------------------------------------------------------------------
Walk == CheckNext \/ CheckCurrent \/ SendNext \/ SendCurrent \/ SendDone
        \/ ReapNext \/ ReapCurrent

Next ==
  \/ \E fd \in Fd : Accept(fd) \/ ReadEvent(fd) \/ CloseClient(fd)
  \/ \E S \in SUBSET Descrs : checkTimeouts(S) \/ sendmessages(S)
  \/ Count
  \/ Walk

Spec == Init /\ [][Next]_vars

(* A handler that has started goes on: nothing in it waits.                *)
FairSpec == Spec /\ WF_vars(Walk)

-----------------------------------------------------------------------------
(***************************************************************************)
(* Properties.                                                             *)
(***************************************************************************)

(* Type correctness. *)
TypeOK ==
  /\ DbTypeOK
  /\ pc \in PC
  /\ expired \subseteq Fd
  /\ audience \subseteq Fd
  /\ error_o \in BOOLEAN
  /\ atStart \subseteq Client

(* The slots a walk has left behind, without and with the cursor's own.    *)
Before(q) == Precedes(q, <<cursor.bank, cursor.slot>>)

Passed(q) == Before(q) \/ q = <<cursor.bank, cursor.slot>>

(* m is the record old after a message was offered to it, and only once.   *)
OfferedOnce(m, old) ==
  /\ m.descr = old.descr
  /\ m.message = old.message + (IF old.descr \in audience THEN 1 ELSE 0)

(* While checkTimeouts runs, what lies behind the cursor is in time, and   *)
(* only clients whose time is over have gone since the walk started.       *)
CheckWalkInv ==
  /\ pc = "check" => \A q \in Slots : Passed(q) => Entry(q).descr \notin expired
  /\ pc = "checking" =>
       \A q \in Slots : Before(q) => Entry(q).descr \notin expired
  /\ pc \in {"check", "checking"} =>
       /\ members \subseteq atStart
       /\ \A m \in atStart : m.descr \notin expired => m \in members

(* While sendmessages writes, each client behind the cursor was offered    *)
(* the message once, and each one ahead of it is still as it was.          *)
SendWalkInv ==
  /\ pc \in {"send", "sending"} =>
       /\ Descrs = {old.descr : old \in atStart}
       /\ \A old1, old2 \in atStart : old1.descr = old2.descr => old1 = old2
  /\ pc = "sending" => HasCurrent
  /\ pc = "send" =>
       \A q \in Slots : IF Passed(q) THEN \E old \in atStart : OfferedOnce(Entry(q), old)
                                     ELSE Entry(q) \in atStart
  /\ pc = "sending" =>
       \A q \in Slots : IF Before(q) THEN \E old \in atStart : OfferedOnce(Entry(q), old)
                                     ELSE Entry(q) \in atStart

(* While sendmessages cleans up, no client behind the cursor has the error *)
(* mark, and only clients with it have gone since the clean-up started.    *)
ReapWalkInv ==
  /\ pc = "reap" => \A q \in Slots : Passed(q) => ~Entry(q).err
  /\ pc = "reaping" => \A q \in Slots : Before(q) => ~Entry(q).err
  /\ pc \in {"reap", "reaping"} =>
       /\ members \subseteq atStart
       /\ \A m \in atStart : ~m.err => m \in members

(* The deletions under the cursor of a walk never let it miss a client,    *)
(* meet one twice or lose one.                                             *)
WalkInv == CheckWalkInv /\ SendWalkInv /\ ReapWalkInv

(* A timeout check closes every client whose time is over and no other     *)
(* one, in whatever banks they are and although each deletion moves the    *)
(* last client into the slot under the cursor or takes the bank away.      *)
TimeoutCheckIsExact ==
  [][pc = "check" /\ pc' = "idle"
       => members' = {m \in atStart : m.descr \notin expired}]_vars

(* sendmessages offers a message exactly once to each client it matches,   *)
(* and to no other: the message counters of cdata.c show it.               *)
FanOutIsExact ==
  [][pc = "send" /\ pc' = "sent"
       => /\ Descrs' = {m.descr : m \in atStart}
          /\ \A m \in members', old \in atStart : m.descr = old.descr =>
               m.message = old.message + (IF m.descr \in audience THEN 1 ELSE 0)]_vars

(* The clean-up after a failed send, when it comes to its end, has closed  *)
(* the clients with the error mark and left all the others as they were.   *)
CleanUpIsExact ==
  [][pc = "reap" /\ pc' = "idle" => members' = {m \in atStart : ~m.err}]_vars

(* When sendmessages returns, no client that the message could not be      *)
(* written to is left: "Close client which signed error at send"           *)
(* (chat.c:422).                                                           *)
FailedClientsClosed ==
  [][(pc = "sent" \/ pc = "reap") /\ pc' = "idle"
       => \A m \in members' : m.descr \in audience => ~m.err]_vars

(* The clean-up of sendmessages reads the error mark of a client, never    *)
(* through the NULL that client_current returns when client_del has just   *)
(* removed the last record: its comment says "Cursor leaved at toDelete    *)
(* which set by client_get" (cdata.c:175).                                 *)
CleanUpNeverReadsNull == pc # "segv"

(* Where it does, it has already closed all that it was to close: with the *)
(* test for NULL that checkTimeouts has (hasses.c:1212) it would be exact. *)
CleanUpDoneAtNull == pc = "segv" => members = {m \in atStart : ~m.err}

(* Every walk over the database comes to an end: the handler returns to    *)
(* the event loop, or the process is gone.                                 *)
WalksEnd ==
  pc \notin {"idle", "segv", "sigpipe"} ~> pc \in {"idle", "segv", "sigpipe"}

(* The slots a walk still has ahead of it, and a bound on the steps that a *)
(* handler takes until it returns.                                         *)
Ahead == {q \in Slots : ~Passed(q)}

StepsLeft ==
  LET n == Cardinality(Slots)
      a == Cardinality(Ahead)
  IN  CASE pc \in {"check", "reap"}       -> 2 * n + 2 * a
        [] pc \in {"checking", "reaping"} -> 2 * n + 2 * a + 1
        [] pc = "sent"                    -> 4 * n + 1
        [] pc = "send"                    -> 4 * n + 2 * a + 2
        [] pc = "sending"                 -> 4 * n + 2 * a + 3
        [] OTHER                          -> 0

(* However a walk deletes under its cursor, moves records into the place   *)
(* it is at or loses the bank it is on, each of its steps brings it nearer *)
(* to its end: a handler takes at most 6 steps for each client and 3 more, *)
(* in which time no other connection is served.                            *)
StepsRunOut ==
  [][pc # "idle" /\ pc' \notin {"idle", "segv", "sigpipe"}
       => StepsLeft' \in 0 .. StepsLeft - 1]_vars

(* The banks, the swapping deletion and the cursor implement a plain set   *)
(* of client records.                                                      *)
ClientSet == INSTANCE ClientSet WITH members <- members

ImplementsClientSet == ClientSet!Spec
=============================================================================
