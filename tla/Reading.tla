------------------------------ MODULE Reading -------------------------------
(***************************************************************************)
(* How hasses reads: the read loops of main over the one buffer input,     *)
(* and the splitting of what came over the FIFO or from a communication    *)
(* client (hasses.c:877-977 and 1041-1066).                                *)
(*                                                                         *)
(* The length of a further read is MAX_READ_SIZE-strlen(input), while the  *)
(* loop for sockets only puts the NUL behind the text at its end: strlen   *)
(* then finds a NUL an earlier use of the buffer has left, or one that the *)
(* block had when it was allocated, or none.  So the buffer is modelled by *)
(* where it has NULs; its text is known from `stream`.                     *)
(* What is read is text, as it is without TLS.  A reset is in EventLoop.   *)
(***************************************************************************)
EXTENDS Naturals, Sequences, FiniteSetsExt

CONSTANTS
  fifo,            \* the FIFO
  Comm,            \* the communication clients
  Sse,             \* the SSE clients
  none,            \* no source
  MAX_READ_SIZE,
  Short,           \* hasses.c:950: the longest last message that is dropped
  MaxUnits         \* bound on what is written, over all sources

Source == {fifo} \union Comm \union Sse

ASSUME SourceAssumption ==
  fifo \notin Comm \union Sse /\ Comm \intersect Sse = {} /\ none \notin Source

ASSUME SizeAssumption ==
  /\ MAX_READ_SIZE \in Nat \ {0} /\ Short \in 0 .. MAX_READ_SIZE
  /\ MaxUnits \in Nat

(* What is written, unit by unit: a character, the delimiter or a newline. *)
Kind == {"text", "delimiter", "newline"}

VARIABLES
  stream,    \* what has arrived from each source since the start
  taken,     \* how much of it has been read
  ended,     \* the connections their peer has closed
  open,      \* the sources whose descriptor is open
  ready,     \* the sources with an edge in epoll
  pc, who,   \* what the program does, and for which source
  nul,       \* the positions of input that hold a NUL; the block ends before
             \* MAX_READ_SIZE, where a NUL that is written is one byte behind it
  got,       \* fullcount: what has been read for this event
  part,      \* in_part - fms
  limit,     \* input_length
  done,      \* done
  handled,   \* the parts handed over, as positions in the stream
  dropped,   \* history: what was read and dropped when a client closed
  flooded,   \* history: an event that filled the buffer has been read
  padded     \* history: its last place has held a NUL ever since malloc

vars == <<stream, taken, ended, open, ready, pc, who, nul, got, part, limit,
          done, handled, dropped, flooded, padded>>

-----------------------------------------------------------------------------

(* The block comes from malloc: nothing is known of what it holds, but for *)
(* its first place, which every event sets to NUL before it is looked at.  *)
Init ==
  /\ stream = [s \in Source |-> <<>>] /\ taken = [s \in Source |-> 0]
  /\ ended = {} /\ open = Source /\ ready = {}
  /\ pc = "wait" /\ who = none
  /\ nul \in SUBSET (1 .. MAX_READ_SIZE - 1)
  /\ got = 0 /\ part = 0 /\ limit = 0 /\ done = FALSE
  /\ handled = [s \in Source |-> <<>>] /\ dropped = [s \in Source |-> 0]
  /\ flooded = FALSE /\ padded = (MAX_READ_SIZE - 1 \in nul)

readerVars == <<taken, open, pc, who, nul, got, part, limit, done, handled,
                dropped, flooded, padded>>

(* What is written arrives in pieces of any length.                        *)
Arrive(s, k) ==
  /\ MapThenSumSet(LAMBDA x : Len(stream[x]), Source) < MaxUnits
  /\ s \in open \ ended /\ (s \in Sse => k = "text")
  /\ stream' = [stream EXCEPT ![s] = Append(@, k)]
  /\ ready' = ready \union {s}
  /\ UNCHANGED <<ended, readerVars>>

PeerEnds(s) ==
  /\ s \in (open \ ended) \ {fifo}
  /\ ended' = ended \union {s}
  /\ ready' = ready \union {s}
  /\ UNCHANGED <<stream, readerVars>>

Unread(s) == Len(stream[s]) - taken[s]

(* An event is taken up: input[0] = '\0'.                                  *)
Event(s) ==
  /\ pc = "wait" /\ s \in ready /\ (Unread(s) > 0 \/ s \in ended)
  /\ pc' = "read" /\ who' = s /\ ready' = ready \ {s}
  /\ nul' = nul \union {0}
  /\ got' = 0 /\ done' = FALSE
  /\ UNCHANGED <<stream, taken, ended, open, part, limit, handled, dropped, flooded, padded>>

-----------------------------------------------------------------------------
(***************************************************************************)
(* The read loops.                                                         *)
(***************************************************************************)

(* strlen(input), whose first `got` characters are text.  If no NUL is     *)
(* left in the block it finds one behind it: the length computed from that *)
(* is 0 or, since it wraps, one that read refuses with EFAULT.             *)
NulAt == CHOOSE n \in nul \union {MAX_READ_SIZE} :
           n >= got /\ \A x \in nul : x >= got => n <= x

(* Mutant of ReadSize: room is kept for the NUL. *)
ReadSize_with_nul == MAX_READ_SIZE - 1 - NulAt

(* MAX_READ_SIZE - strlen(input); 0 also for a read that is refused.       *)
ReadSize == MAX_READ_SIZE - NulAt

(* Mutant of ReadSome: what is read next goes over what was read before.   *)
ReadSome_restarts(n) ==
  /\ pc = "read"
  /\ n = IF Unread(who) <= ReadSize THEN Unread(who) ELSE ReadSize
  /\ n > 0
  /\ taken' = [taken EXCEPT ![who] = @ + n]
  /\ got' = n
  /\ nul' = (nul \ (0 .. n - 1)) \union (IF who = fifo THEN {n} ELSE {})
  /\ UNCHANGED <<stream, ended, open, ready, pc, who, part, limit, done,
                 handled, dropped, flooded, padded>>

(* read returns n > 0 characters.  Only the FIFO's are terminated.         *)
ReadSome(n) ==
  /\ pc = "read"
  /\ n = IF Unread(who) <= ReadSize THEN Unread(who) ELSE ReadSize
  /\ n > 0
  /\ taken' = [taken EXCEPT ![who] = @ + n]
  /\ got' = got + n
  /\ nul' = (nul \ (got .. got + n - 1))
            \union (IF who = fifo THEN {got + n} ELSE {})
  /\ flooded' = (flooded \/ got + n = MAX_READ_SIZE)
  /\ padded' = (padded /\ got + n < MAX_READ_SIZE)
  /\ UNCHANGED <<stream, ended, open, ready, pc, who, part, limit, done,
                 handled, dropped>>

(* Mutant of NothingRead: a read of no length goes on.                     *)
NothingRead_eagain == pc = "read" /\ Unread(who) = 0

(* read returns 0, since nothing was asked for or the peer has closed, or  *)
(* it fails, with EAGAIN or for the length that was asked for.             *)
NothingRead == pc = "read" /\ (ReadSize = 0 \/ Unread(who) = 0)

Done == who # fifo /\ (ReadSize = 0 \/ who \in ended)

(* The length of the input after chop, which leaves the first character.   *)
Chopped ==
  LET base == taken[who] - got
      Line(n) == \A i \in n + 1 .. got : stream[who][base + i] = "newline"
  IN  CHOOSE n \in 0 .. got :
        /\ Line(n) /\ (got > 0 => n > 0)
        /\ \A x \in 0 .. got : Line(x) /\ (got > 0 => x > 0) => n <= x

(* The FIFO, or a communication client: chop and parse_comm_messages.      *)
StartParsing ==
  /\ NothingRead
  /\ who = fifo \/ (who \in Comm /\ (Done => got > Short))
  /\ done' = Done
  /\ pc' = "parse" /\ part' = 0 /\ limit' = Chopped
  /\ nul' = nul \union (Chopped .. got)
  /\ UNCHANGED <<stream, taken, ended, open, ready, who, got, handled,
                 dropped, flooded, padded>>

(* Mutant of CloseEnded: whatever was read last is dropped.                *)
CloseEnded_any ==
  /\ NothingRead /\ Done
  /\ open' = open \ {who} /\ ready' = ready \ {who}
  /\ dropped' = [dropped EXCEPT ![who] = got]
  /\ pc' = "wait" /\ who' = none /\ got' = 0
  /\ nul' = nul \union {got}
  /\ UNCHANGED <<stream, taken, ended, part, limit, done, handled, flooded, padded>>

(* close_client, close_communication_client: the rest is not handled.      *)
CloseEnded ==
  /\ NothingRead /\ Done
  /\ who \in Comm => got <= Short
  /\ open' = open \ {who} /\ ready' = ready \ {who}
  /\ dropped' = [dropped EXCEPT ![who] = got]
  /\ pc' = "wait" /\ who' = none /\ got' = 0
  /\ nul' = nul \union {got}
  /\ UNCHANGED <<stream, taken, ended, part, limit, done, handled, flooded, padded>>

(* cio_low_read of an SSE client: the request is taken apart in place, by  *)
(* NULs in it.                                                             *)
Request ==
  /\ NothingRead /\ who \in Sse /\ ~Done
  /\ \E cuts \in SUBSET (0 .. got - 1) : nul' = nul \union {got} \union cuts
  /\ handled' = IF got = 0 THEN handled
                ELSE [handled EXCEPT ![who] =
                        Append(@, <<taken[who] - got + 1, taken[who]>>)]
  /\ pc' = "wait" /\ who' = none /\ got' = 0
  /\ UNCHANGED <<stream, taken, ended, open, ready, part, limit, done, dropped,
                 flooded, padded>>

-----------------------------------------------------------------------------
(***************************************************************************)
(* parse_comm_messages, one part at a time.                                *)
(***************************************************************************)

(* The character at a position of the input. *)
InputAt(i) == stream[who][taken[who] - got + i + 1]

(* Where the part ends that begins at `part`. *)
PartEnd(e) ==
  /\ e \in part .. limit
  /\ \A i \in part .. e - 1 : InputAt(i) # "delimiter"
  /\ e < limit => InputAt(e) = "delimiter"

(* parse_comm_message: an empty part is nothing.  Another one is handed to *)
(* commands and sendmessages, which take it apart in place.                *)
Handed(e) ==
  /\ \E cuts \in SUBSET (part .. e - 1) : nul' = nul \union {e} \union cuts
  /\ handled' = IF e = part THEN handled
                ELSE [handled EXCEPT ![who] =
                        Append(@, <<taken[who] - got + part + 1, taken[who] - got + e>>)]

(* Mutant of ParsePart: the character after the delimiter is skipped.      *)
ParsePart_skips(e) ==
  /\ pc = "parse" /\ PartEnd(e) /\ e < limit
  /\ Handed(e)
  /\ part' = IF e + 2 <= limit THEN e + 2 ELSE limit
  /\ UNCHANGED <<stream, taken, ended, open, ready, pc, who, got, limit, done,
                 dropped, flooded, padded>>

ParsePart(e) ==
  /\ pc = "parse" /\ PartEnd(e) /\ e < limit
  /\ Handed(e)
  /\ part' = e + 1
  /\ UNCHANGED <<stream, taken, ended, open, ready, pc, who, got, limit, done,
                 dropped, flooded, padded>>

(* The last part; a communication client that has closed is closed.        *)
ParseLast ==
  /\ pc = "parse" /\ PartEnd(limit)
  /\ Handed(limit)
  /\ open' = IF done THEN open \ {who} ELSE open
  /\ ready' = IF done THEN ready \ {who} ELSE ready
  /\ pc' = "wait" /\ who' = none
  /\ got' = 0 /\ part' = 0 /\ limit' = 0 /\ done' = FALSE
  /\ UNCHANGED <<stream, taken, ended, dropped, flooded, padded>>

Program ==
  \/ \E s \in Source : Event(s)
  \/ \E n \in 1 .. MAX_READ_SIZE : ReadSome(n)
  \/ StartParsing \/ CloseEnded \/ Request
  \/ \E e \in 0 .. MAX_READ_SIZE : ParsePart(e)
  \/ ParseLast

Next ==
  \/ Program
  \/ \E s \in Source : \E k \in Kind : Arrive(s, k)
  \/ \E s \in Source : PeerEnds(s)

Spec == Init /\ [][Next]_vars

(* The only thread goes on as long as there is an event.  Each of its      *)
(* steps changes one of the three.                                         *)
FairSpec == Spec /\ WF_<<pc, got, part>>(Program)

-----------------------------------------------------------------------------
(***************************************************************************)
(* Properties.                                                             *)
(***************************************************************************)

(* Type correctness. *)
TypeOK ==
  /\ stream \in [Source -> Seq(Kind)]
  /\ taken \in [Source -> Nat] /\ dropped \in [Source -> Nat]
  /\ ended \subseteq Source /\ open \subseteq Source /\ ready \subseteq open
  /\ pc \in {"wait", "read", "parse"}
  /\ who \in IF pc = "wait" THEN {none} ELSE open
  /\ nul \subseteq 0 .. MAX_READ_SIZE
  /\ got \in 0 .. MAX_READ_SIZE /\ part \in 0 .. MAX_READ_SIZE
  /\ limit \in 0 .. MAX_READ_SIZE
  /\ done \in BOOLEAN /\ flooded \in BOOLEAN /\ padded \in BOOLEAN

(* How much of what was read has been handed over or passed over. *)
Passed(s) ==
  taken[s] - (IF who # s THEN dropped[s]
              ELSE IF pc = "parse" THEN got - part ELSE got)

(* "Connection closed by peer" (hasses.c:969): unless some event has       *)
(* filled the buffer, or its last place held no NUL when it was allocated, *)
(* no connection is closed that its peer has not closed, whatever NULs     *)
(* other connections have left in the buffer.                              *)
EndsAreReal == padded => Source \ open \subseteq ended

(* "We must read whatever data is available completely" (hasses.c:913):    *)
(* what waits on an open source is still to be reported or being read,     *)
(* unless the source is the FIFO and the buffer has been filled.           *)
NoneForgotten ==
  \A s \in open : Unread(s) > 0 => s \in ready \/ who = s \/ (s = fifo /\ flooded)

(* With the same exceptions, a communication client that has closed loses  *)
(* at most a last piece of Short characters, which has come in the same    *)
(* read loop as its closing (hasses.c:950).                                *)
LossIsShort ==
  padded => \A s \in Comm \ open : Len(stream[s]) <= Passed(s) + Short

(* However what is written arrives while it reads, and whatever length it  *)
(* computes for the next read, the loops of a handler come to an end.      *)
HandlersEnd == pc # "wait" ~> pc = "wait"

(* What is left of a handler, at most: the buffer only fills in the read   *)
(* loop, and the splitting only goes on.                                   *)
StepsLeft ==
  CASE pc = "read"  -> 2 * MAX_READ_SIZE + 1 - got
    [] pc = "parse" -> limit - part
    [] OTHER        -> 0

(* A writer that never stops cannot hold the program in the read loops of  *)
(* hasses.c:913-934 and 1041-1055: every step of a handler comes closer to *)
(* its end, whatever arrives meanwhile and whichever NULs the buffer has.  *)
ReadsRunOut ==
  [][pc # "wait" => \/ UNCHANGED readerVars
                    \/ pc' = "wait"
                    \/ StepsLeft' \in 0 .. StepsLeft - 1]_vars

(* The loops over the shared buffer and the splitting in place hand over   *)
(* what every source has written, in order and unmixed.                    *)
Stream == INSTANCE Feed WITH
            stream <- stream, handled <- handled, seen <- taken,
            passed <- [s \in Source |-> Passed(s)]

ImplementsFeed == Stream!Spec
=============================================================================
