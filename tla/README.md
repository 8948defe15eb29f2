# Verification of hasses

hasses is an asynchronous SSE server in C: browsers hold HTTP connections open
(optionally over TLS), back-end programs write messages to a FIFO or to a TCP
communication port, and the daemon copies each message to the clients that
subscribed to its token. It is one process with one thread around an
edge-triggered epoll loop.

This directory models the core of that program in TLA+, checks the models with
TLC and proves the main results with TLAPS. File and line numbers refer to the
sources next to this directory.

## Inventory

| component | state it keeps | operations | what is hard about it |
|---|---|---|---|
| client database, `cdata.c` | a linked list of banks of 256 records; one global cursor | `client_init/start/current/next/get/add/del`, subscriptions, counts and lists | deletion moves the last record and frees banks while a walk's cursor is there |
| walks over the clients, `checkTimeouts` (`hasses.c`), `sendmessages` (`chat.c`) | the cursor, `error_o`, each client's `err` | timeout check, fan-out, clean-up | they close clients, and so change the list, under their own cursor |
| HTTP and SSE protocol, `chat.c` | status, subscriptions and id of each client; `par`, one buffer for all | `chat_received`, `chat_parseparam`, answers | state left from earlier requests, of the same or of another connection |
| TLS transport, `cio.c` | `cio` of each client, in and out BIO | `cio_low_read`, `cio_high_write`, `cio_init_ssl` | requests before the TLS handshake is over, write errors |
| event loop, `main` in `hasses.c` | epoll, the batch of events, the list of communication clients | accepting, reading, hang-ups, FIFO | lost edges, reused descriptors, events of closed connections, when timeouts are looked at |
| communication channel, `hasses.c` | `input`, one read buffer for all; `commFirst`, `hsettings` | read loops, splitting messages, commands | fragments, NULs left in the buffer, its limit, the last message of a closing client |
| start-up and shutdown, `hasses.c` | pid file, FIFO, sockets | options, daemonising, signals | a second daemon, signals and crashes at any point |
| logging and utilities | log file | `toLog`, string helpers | the lengths of buffers |

The event loop calls the protocol for what it reads from clients, and
`sendmessages` and `commands` for what it reads from the FIFO and the
communication clients. All of them close clients through `close_client`, which
deletes the record from the database, so that any handler may change the list
another one is about to walk; since there is one thread, a handler is never
interrupted, but the events of a batch are handled after whatever the events
before them did.

What makes each component correct:

* database: it is a set of clients in which a descriptor identifies one record,
  whatever is added and deleted, and its cursor is never on freed memory;
* walks: no client is missed, met twice or lost; they end; those that could not
  be written to are closed and nobody else;
* protocol: a message goes to the streams whose own request asked for it;
  a stream is disturbed by nothing but its own closing or an allowed
  re-initialisation; an answer that is meant to be sent is sent;
* TLS: no stream before the TLS handshake is over; what the peer waits for is
  written; what it has sent is read;
* event loop: the two lists name exactly the open descriptors; no input is
  forgotten; an event is for the connection it happened on; ended and overdue
  connections are closed;
* communication channel: what a back-end writes is handed over in order, part by
  part, unmixed with what others write;
* start-up: one server at most, and a pid file that names it.

`PROJECT.json` lists the hazards with their lines and the properties for them.

## Modules

| module | models | proofs |
|---|---|---|
| `ClientSet` | abstract specification of the database: a set of records | |
| `ClientData` | `cdata.c`: banks, cursor, the operations | `ClientData_proofs` |
| `ClientLoops` | `checkTimeouts`, `sendmessages`, and the handlers that touch one client between them; EXTENDS `ClientData`, implements `ClientSet` | `ClientLoops_proofs` |
| `PubSub` | abstract specification of what both sides rely on: open streams and what each asked for, messages and counts | |
| `Chat` | `chat.c` on `cio.c` for all connections: requests, TLS progress, subscriptions, audience; implements `PubSub` | `Chat_proofs` |
| `EventLoop` | the loop in `main`, the kernel's descriptors, ready list and connections | `EventLoop_proofs` |
| `Feed` | abstract specification of what a writer relies on: parts in order, nothing left out | |
| `Reading` | the read loops of `main` over the buffer `input`, and `parse_comm_messages`; implements `Feed` | `Reading_proofs` |
| `Cio` | one TLS connection through `cio.c`: the two memory BIOs, the handshake, reading and writing | `Cio_proofs` |
| `Lifecycle` | `main` up to its loop, signals and crashes, for several processes with one pid file, FIFO and pair of ports | `Lifecycle_proofs` |
| `Formats` | pure conversions: tokens and their comparison, the chunk of a message, the list of subscriptions | `Formats_proofs` |
| `MCClientLoops`, `MCChat`, `MCEventLoop`, `MCReading`, `MCCio`, `MCLifecycle`, `MCFormats` | instances for TLC: symmetry sets, requests and messages | |

The mutants named `<definition>_<change>` stand next to the definitions they
change; each one breaks a property, which shows that the property is about it.

### ClientData and ClientLoops

`banks[k]` is the used part `clis[0 .. next-1]` of a bank; slot `i` is the C
index `i-1` and slot 0 the C value -1. `cursor` is the C `cursor`. Operations
have the C names. `ClientLoops` has a program counter for the one thread;
each step is one iteration of a loop:

| code | actions |
|---|---|
| `checkTimeouts`, hasses.c:1203 | `checkTimeouts`, `CheckNext` (outer while), `CheckCurrent` (inner while) |
| fan-out of `sendmessages`, chat.c:399-414 | `sendmessages`, `SendNext`, `SendCurrent`, `SendDone` |
| its clean-up, chat.c:416-425 | `ReapNext`, `ReapCurrent` |
| accept, data of a client, a closing | `Accept`, `ReadEvent`, `CloseClient` |
| a command that counts or lists the clients | `Count`, with `client_walked` |

Abstracted: which clients are over their time (`expired`) and which a message
matches (`audience`) are arbitrary sets, chosen when the walk starts; whether a
write fails is arbitrary. The process may end in the NULL dereference (`segv`)
or with SIGPIPE (`sigpipe`: a message, or the answer to a request in
`ReadEvent`, is written to a connection its peer has reset), after which nothing
happens.

### Chat and PubSub

Connections are a function from descriptors to records. A request is what
`chat_received` reads in it: method, whether the URL is the configured one, the
parameters, HTTP/1.1, keep-alive; a message is which tokens it matches, whether
it is for all and the id it is not for. `StartStream`, `Refuse` and `Ignored`
are the three ways through `chat_received`. `par` is the shared buffer,
`Tokenized` what `strtok` leaves in it. `cio` says how far `SSL_accept` is;
`use_ssl` is chosen at the start and never changes. `asked` is a history
variable: what the connection's own requests asked for; it does not look at
`par`, so it is what the audience and the counts are compared with. `sent`,
`answer` and `report` are the outputs of the last handler; `report` is the
number the commands `subscribedclients:` and `status` give. A request cut by
reads is several requests, each of one of the kinds in `Requests`.

`PubSub` has no requests, parameters, transports or records: streams open for
something, end, are opened anew if that is allowed; a message goes to those that
want it, a count is the number of them. The refinement maps its `streams` to
what `asked` says of the connections that stream (`Interests`), `delivered` to
`sent` and `counted` to `report`; so the records of the database, from which the
code computes the last two, have to agree with the requests at every step.

### EventLoop

Connections and descriptors are different things here: `sock` maps the open
descriptors to connections, and `accept` returns the lowest free one. The
program only has descriptors: `client` (with the status), `comm`, and the
events of the `batch`. `ready` is epoll's ready list: an edge enters it when
something happens, `epoll_wait` takes all entries on which there still is
something (`Reported`). Peers connect, send, close and reset at any time
between two handlers; what arrives within a read loop is the same as arriving
before or after it. The kernel's and the peers' actions are marked external in
the map. What a request does is chosen among what `Chat` shows (`Ignores`,
`Starts`, `Refuses`); which clients a message could not be written to is
arbitrary.

A clean-up that deletes the last record of the database reads through NULL, so
which clients can be closed together depends on the order of the records:
`slots` is that order (in one bank), `RecordsDeleted` fills the gaps as
`client_del` does. A clean-up that comes to its end leaves a record behind every
one it deletes (`Survived`); otherwise the process dies (`NullRead`), as it may
by SIGPIPE: `Dies` sets `loop` to "dead", the end of the behaviour.

An event that fills `input` makes the next read ask for nothing. A FIFO may
therefore be left with its rest, although its edge is gone (`ReadFifo`, and
`flooded` until somebody writes to it again), and a connection may be taken for
ended that is not (`TakenForEnd`). How much fills the buffer is the subject of
`Reading`; here it is a choice whenever there is something to read.

### Reading and Feed

`stream` is what each source has written, unit by unit: text, a delimiter or a
line end. `taken` is how much of it has been read; the text in `input` is
therefore known, and of the buffer only the positions of its NULs are kept
(`nul`). That is what matters: the length of a further read is
`MAX_READ_SIZE-strlen(input)`, and the loop for sockets puts the NUL behind the
text only after its end (hasses.c:943), so `strlen` finds whatever NUL an
earlier use of the buffer has left, or `malloc` when it was allocated: `Init`
has NULs at any places. If there is none behind the text, `strlen` runs out of
the block, and the length computed is 0 or wraps to one that `read` refuses; for
both `ReadSize` is 0, and a connection is taken for ended. Two history variables
name the cases in which that can happen: `flooded`, an event has filled the
buffer, and `~padded`, that or its last place held no NUL at the start. The code
ensures neither; `EndsAreReal` and `LossIsShort` have `padded` as their
condition, and TLC's initial states include both. An event that fills the buffer
has its NUL written at `MAX_READ_SIZE`, one byte behind the block (hasses.c:900,
943), which the model has too. Each `read` is a step (`ReadSome`,
`NothingRead`), so more can arrive between two of them.

| code | actions |
|---|---|
| an event is taken up, `input[0] = '\0'`, hasses.c:879, 916 | `Event` |
| one `read` of a loop, hasses.c:881-942 | `ReadSome` |
| end of the loop and what follows | `StartParsing`, `CloseEnded`, `Request` |
| `parse_comm_messages`, hasses.c:1042 | `ParsePart`, `ParseLast` |

`Feed` is the abstract specification, from a writer's point of view: parts of
what it has written are handed over in order, each ends before a separator or at
the end of what has been read so far, nothing but separators and line ends lies
between them, and no part contains anything of another writer. It allows what
the code does and no more: text that is read in two events is two parts, and a
closing connection's last piece may be read and never handed over. What must not
be lost is stated by `LossIsShort` and `NoneForgotten`.

### Cio

One connection. What comes in is counted in TLS records, what goes out in
bytes, since `write_outbio_pending_to_low` writes `MAX_READ_SIZE` bytes at most
in one call. `flight` is the length of the server's part of the handshake,
which depends on its certificates. `cio_low_read` puts what was read into the
BIO; `AcceptHello` to `AcceptFails` are `SSL_accept` and what is done with its
result; `ReadRecord` and `ReadWants` are the one `SSL_read`. The peer and the
behaviour of the TLS library on its BIOs are external. A peer ends its part of
the handshake only when it has the whole flight.

### Lifecycle

Each process has a program counter for `main`; a step is one group of system
calls. `Exit` is `beforeExit` and `exit`, which removes the pid file whatever it
says, or leaves it when `unlink` fails, which the code only logs (hasses.c:73;
`undeleted` is the history of those processes); `Crash` is every end without it:
signals that have no handler (yet), and `toLog`, which ends the process when the
log file cannot be opened. Ports follow the kernel: with `SO_REUSEADDR` two
sockets may be bound to a port on which nobody listens, and only one of them can
then listen.

### Formats

Operators with the names of the functions, on strings as sequences of characters
or only on their lengths. The actions lengthen the inputs one character at a
time, so that TLC meets every input up to and beyond the limits of the buffers;
the invariants compare with reference definitions. `client_subscribe_list` is a
loop over the tokens; `AddToken` is one iteration of it, `list` how far it has
come. The buffers of tokens and of the list are scaled down (4 and 9 instead of
32 and 512); that of chunks has its real size.

## Runs

| run | question | bounds |
|---|---|---|
| `walks` | database invariants, exact walks, refinement of `ClientSet`; every step brings a walk nearer to its end, and walks end | 3 descriptors, banks of 2: a full bank and a second one, which can be freed under the cursor; one message to a client, so a marked client meets a second walk; fairness of `Walk` |
| `cleanup_null` (violation) | clean-up and NULL | 3 descriptors |
| `chat` | who gets a message; what opens a stream; what is counted; refinement of `PubSub` | 3 connections, 2 tokens, 2 ids, 12 requests that take all paths through `chat_received`, 8 messages, with and without TLS |
| `no_query` (violation) | a stream is started by its own parameter | same, and a GET without a query |
| `events` | lists, edges, stale events | 2 SSE connections, 1 communication client, 2 descriptors, so that descriptors are reused and run out; messages of both kinds, events that fill `input`, and the end of the process |
| `events_served` | input is handled, what has left is released, the backlog is emptied | 2 SSE connections, 2 descriptors, so that one connection arrives, sends or leaves while the other is accepted or handled, and there is a descriptor for each; fairness of `Loop` |
| `stale_event` (violation) | an event is for its own connection | 3 SSE connections and the FIFO, 2 descriptors: the one closed, the one behind it in the database, without which the clean-up would be the end of the process, and the one that gets the descriptor |
| `idle_timeouts` (violation) | the overdue are dropped | 1 SSE and 1 communication client |
| `reading` | reads, splitting, closings; refinement of `Feed`; every step brings a handler nearer to its end, and handlers end | FIFO, 1 communication client, 1 SSE client; a buffer of 3 and 4 units written in all, so that an event fills the buffer exactly and more than that; NULs at any places of it at the start; last pieces of 1 dropped |
| `tls` | handshake, first request, what is held back, whose turn it is; no data record lost | a buffer of 3; flights of 1 and 3 (fit), 4 and 7 (do not); 3 data records, so that two come together and one later |
| `lifecycle` | one server, pid file, leftovers | 3 processes: two that meet on a port and one before or after them |
| `formats` | tokens, chunks, lists | tokens to 5 characters for a buffer of 4, ids to 2, messages to 2100 for a buffer of 2048, lists of tokens until nothing is left of a buffer of 9 |

Why small bounds are enough: the walks only look at the slot under the cursor,
the last record and the bank before the last, which three clients in banks of
two put into the relative positions that matter: in one bank, in two, alone; the
protocol relates one connection to itself and to one other through `par`, and a
third is there to be unaffected; a stale event needs the closed connection, one
behind it, the new one and a message. The proofs do away with the bounds for the
safety properties. `MaxMessage` bounds the message counters, `MaxUnread` the
data waiting on a connection, `MaxUnits` what is written in `Reading`,
`MaxRecords` and `MaxWritten` what a TLS connection carries, and `MaxMessage` of
`Formats` the length of a message; all occur in guards only. Programs that loop
over a buffer meet its limit with 3 places as with 6144. `CHECK_DEADLOCK FALSE`
is set where the process may be gone (`ClientLoops`, `Lifecycle`), where all
connections of an instance have been used up or the process has died
(`EventLoop`), where all has been written and read (`Reading`), and where the
inputs have their full length (`Formats`).

The type invariant of each module is proved for all values of its constants
(`TypeCorrect`, and within `FormatsInductive`), so no run spends a check on it.

Fairness: `WF_vars(Walk)` and `WF_vars(Loop)` say that the only thread of the
program goes on whenever it can; within a handler nothing waits, and
`epoll_wait` is enabled only when it would return. `WF_<<pc, got, part>>(Program)`
in `Reading`, of which each step of the program changes a variable, and
`WF_vars(Handler)` in `Cio` say the same. The liveness properties of `EventLoop`
hold as long as the process lives (`\/ loop = "dead"`). Nothing is assumed of
the clock, and of peers only, in `Cio`, that one which has the whole flight goes
on with its handshake (`WF_vars(PeerFinishes)`): without it a handshake need
not end, whatever the server does.

## What the violations show

* `cleanup_null`: `while(client_current()->err)` (chat.c:420) has no test for
  NULL; when the clean-up has just deleted the last record, the cursor is past
  the end.
* `no_query`: a GET without a query uses the parameters that the last request
  with a query, of any client, left in `par`.
* `stale_event`: a hang-up or read event is handled for whatever connection has
  the descriptor by then; a clean-up and an accept in the same batch make that
  another one. In the trace the message of the FIFO cannot be written to a
  reset client, whose record is deleted while another one stays behind it; the
  third client is accepted with its descriptor, and the hang-up event that is
  still in the batch closes it.
* `idle_timeouts`: timeouts are only checked when some event occurs.

Other limits of the code that the models contain and the properties name:

* With TLS `cio_high_write` drops write errors (cio.c:163), so the clean-up of
  `sendmessages` does not run; `FailedClientsClosed` is checked without TLS.
* A re-initialisation clears the subscriptions and keeps `uniq_id` (chat.c:120).
* With TLS an answer that ends the connection is never written, since its status
  is set first and `cio_high_write` refuses it (cio.c:157); `HighWritten` in `Chat`.
* An event that fills `input` makes the next read ask for 0 bytes, which is
  taken for the end of the connection; a FIFO's rest waits for its next writer,
  while `epoll_wait` blocks; its NUL is written one byte behind the block; and
  afterwards there may be no NUL left within the buffer, so that later
  connections may be taken for closed. `flooded` marks this.
* The same may happen before, if the last place of the block was not NUL when
  `malloc` returned it: `padded`.
* A subscription is cut to 30 characters and may then match another token; an id
  cut at the limit of the token's buffer excludes another client or none.
  `NeverToOthers` is about tokens and uncut subscriptions.
* `unlink` of the pid file may fail, which is only logged: the file then names a
  process that is gone until the next start.
* A communication client's last piece of at most 3 characters is dropped when it
  comes in one read loop with the closing (hasses.c:950).
* Messages written without a delimiter and read together are one message.
* A flight longer than `MAX_READ_SIZE` is written only in part before the peer
  answers; a second record in one read waits for the next event.
* A second start writes the pid file over and removes it when it finds the port
  in use; `PidFileNamesServer` is about starts that do not overlap.
* A connection that `accept` had no descriptor for waits until another one
  arrives; `BacklogIsAccepted` exempts it.
* A message of more than 2048 - 10 - `IdLen` characters breaks its chunk; a
  message is sent only up to its second "=".

README.md:116 of the sources describes `reinit_disable` with the words of
`reinit_enable`; the code disables.

## Proofs

All theorems hold for any constants that satisfy the named assumptions.

**ClientLoops_proofs** (on the lemmas of `ClientData_proofs` about
`client_next`, `client_get`, `client_add`, `DeleteAt` and `Written`).
`Invariance`: `IInv` is `TypeOK`, the database invariants and `WalkInv`.
`WalkInv` is the point: it splits the slots into those behind the cursor and
those ahead of it, and says what is true of each part, for each of the three
walks; a deletion puts the last record, which is ahead, into the cursor's slot,
which the walk looks at again. From it follow `TypeCorrect`, `DatabaseCorrect`,
`OneSlotCorrect`, `CursorCorrect`, `WalksCorrect`, the three action properties
(`TimeoutCheckCorrect`, `FanOutCorrect`, `CleanUpCorrect`) and, step by step,
`ClientSetImplemented`.

`FailedClientsClosedHolds` needs an invariant about marks: as long as `error_o`
is not set, no client of the audience that the fan-out has met has the error
mark (`ErrorsKnown`), not of an earlier message either, since a marked client is not
written to and that counts as a failure. It assumes `~use_ssl`, since with TLS
the property is false. `StepsRunOutHolds`
is what can be proved of `WalksEnd`: `StepsLeft`, counted from the slots ahead
of the cursor and the clients there are, is a natural number that each step of
a walk decreases, whichever bank is freed meanwhile. That a natural number
decreases only so often, and that the thread goes on (`WF_vars(Walk)`), is the
rest of `WalksEnd`, which TLC checks.

`CleanUpDoneAtNullHolds` is about the crash that `cleanup_null` shows: a deletion
after which the cursor is on no record has taken the last record of all
(`DeleteAtEnd`), so everything that is left lies behind the cursor, and the
clean-up has done all it had to do when it reads NULL. A test for NULL is enough.

**Chat_proofs.** The invariant `Streams` ties each client record to the history
of its connection (`Opened`), and says that a descriptor not in use has asked
for nothing. `StreamsOpenedCorrect` needs nothing else; `DeliveryCorrect` and
`CountsCorrect` add `SubsInv` (the record's subscriptions and id are those asked
for) under the hypothesis `GetsHaveQuery`, that every GET for the configured URL
has a query. The run `no_query` shows that the hypothesis is needed.
`StreamUndisturbedCorrect` goes through the handlers for a fixed stream.
`PubSubImplemented`, under the same hypothesis, has a lemma for each kind of
step: `chat_received` is `Open`, or leaves `Interests` alone, however the
request is refused or ignored; `close_client` is `End` or nothing;
`sendmessages` is `Publish` and the commands are `Count` by `SubsInv`.
`StartedByOwnParameterHolds` says, under the hypothesis again, what `no_query`
refutes without it.

**EventLoop_proofs.** `IInv` adds three facts to the properties. `Silent`: what
is not accepted yet or closed has nothing to read, so an accept loses no edge.
`Batches`: a batch has one event for a descriptor, so handling an event cannot
make another one stale. `Fresh`: without a clean-up the descriptors of the
batch stay open, so none of them can be handed out again; this is what makes
`FreshUntilCleanUp` inductive, which only speaks of descriptors that are open.
`HandledKeeps` says once what a handler that closes and reads descriptors keeps;
the handlers are instances of it, and `RecordsLeft` says that the records left by
a deletion are those of the descriptors left. `ListsCorrect` and `EdgesCorrect`
follow, the latter with the exception that it names, the FIFO's rest.

`Warranted` says that what an event was reported for is still there when its
turn comes: no step but a clean-up reads or closes a descriptor other than that
of the event it handles, and what peers do takes no cause away. With `Fresh` it gives
`FreshCorrect` and `HealthyUntilCleanUpCorrect`: until a clean-up has closed
clients no event closes a healthy one, so the behaviour that `stale_event`
shows is the only kind there is.

**Reading_proofs.** The point is when the lengths computed from leftover NULs do
no harm. `IInv` says that while `padded`, the last place of the buffer holds a
NUL and less than the buffer has been read: then `strlen` is less than
`MAX_READ_SIZE`, a further read asks for something, and a read of nothing means
that nothing is there or the peer has closed (`EndsAreRealCorrect`). What comes
over the FIFO has a NUL of its own behind it, whatever the buffer held, and
whoever is taken for closed is closed, so that nothing waits on an open source
(`NoneForgottenCorrect`). `StaysInBlockCorrect` bounds what is written: the text
always stays in the block, and until an event fills it every NUL does too. A
handler cuts the text only within what it was given, so the NULs it adds never
shorten the next one's text. For `FeedImplemented` the invariant also says,
while a buffer is taken apart, that what lies before `part` has been handed over
or is blank; a read is `See`, a part, an end and a closing are `Pass`, and each
step has a lemma of its own. `ReadsRunOutHolds` bounds a handler by what is free
in the buffer and what is left to split: it ends whatever arrives meanwhile, so
one writer cannot hold the program.

**Cio_proofs.** `NothingHeldBack` is not inductive: a message could be written
on top of a flight that is still pending. `IInv` says that the peer ends its
part of the handshake only after the whole flight has been written, so that the
out BIO is empty whenever something else is put into it (`Order`, `Pending`),
and that what the peer has sent is in the socket, with an edge, or in the in
BIO, or SSL has gone on (`Due`). So when no event is due it is the peer's turn:
the safety part of `HandshakeEnds`, for every flight that fits. `Kept` accounts
for every data record, and `Left` says that one waits in the in BIO only behind
one that has been served: the safety part of `FirstIsServed`.

**Formats_proofs.** Tokens: the four ways a message can be written (with and
without "-" and "*") are compared with what `strncmp` sees of the cut copies.
The proofs are about sequences of any characters and any size of the buffers.
Chunks: `ChunkAsAnnouncedHolds` assumes `OutSize \in 264 .. 4096`, where the
length that fills the buffer has three hexadecimal digits, as the 2048 of the
code does. The list: the invariant is that `br` and `left` add up to the
buffer's size, commas included, and that the NUL is within it.

**Lifecycle_proofs.** `IInv` ties the ports to the place of each process in
`main`, which gives `OneServerCorrect`, and says what holds as long as no two
starts overlap: all processes but one are off or gone, so that nothing in the
way can be another one's (`NothingLeftCorrect`, `PidFileCorrect`).

Assumptions, which TLC checks in every run: the listening sockets and the FIFO
are three descriptors `accept` does not return; no connection is to both ports;
a bank holds at least one record; `use_ssl` is a Boolean; requests and messages
are of their types; "*" is no token and "" no id; the sources of `Reading` are
disjoint and its buffer has a place at least; a TLS write is not longer than the
buffer of `Cio`; "no process" is not a process; in `Formats` a token's buffer
holds two characters and the list's one, and "*" and "-" are not among the other
characters.

Three hypotheses are of single theorems: `GetsHaveQuery`, which the configuration
`MCChat.cfg` satisfies and `MCChatNoQuery.cfg` does not; `~use_ssl` for
`FailedClientsClosedHolds`; the size of the chunk buffer for
`ChunkAsAnnouncedHolds`.

Only model-checked: liveness (`WalksEnd`, `InputIsHandled`, `LeftAreReleased`,
`BacklogIsAccepted`, `HandlersEnd`, `HandshakeEnds`, `FirstIsServed`): from
fairness to "eventually" is out of the prover's reach. What each of them rests
on is proved: the decreasing bounds for `WalksEnd` and `HandlersEnd`, `EdgesKept`
for `InputIsHandled` and `LeftAreReleased`, `NothingHeldBack` and `LeftBehind`
for the last two. Every other property of a passing run is a theorem.

## Not modelled

* The text of requests: how `chat_received` and its string helpers take header
  lines apart character by character. A request is one of the kinds it
  can be taken for; `Requests` lists them, refused ones included.
* What TLS carries as data in `Reading`: records are binary, may contain NULs,
  and `strlen` then depends on them. `Reading` is about text, as without TLS.
* The answers of commands on the communication port (`send` without a look at
  its result), the log level and the client list's wording; the statistics
  counters, which nothing reads but `status`.
* The rest of a FIFO that stays when the buffer was filled: it is read with the
  next write, which the model shows; how long that takes is up to the writers.
* Options, the configuration file, log texts, time formats, the build files and
  the examples, which have no behaviour worth a model.
* One model of the whole server. The components are composed where they share
  state (`ClientLoops` on `ClientData`, `Chat` on the progress of TLS, `EventLoop`
  on both lists); elsewhere each has the others' behaviour as a choice: `Chat`
  the reads, `EventLoop` what a request does, `ClientLoops` which clients match
  and which are overdue.
