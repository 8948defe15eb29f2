----------------------------- MODULE Lifecycle ------------------------------
(***************************************************************************)
(* Starting and ending hasses: what several processes of it, started with  *)
(* the same options one after the other or at once, do to the pid file,    *)
(* the FIFO and the ports, with signals and crashes at any point           *)
(* (hasses.c:70-167, 236-295 and 530-706; cio.c:49-97).                    *)
(*                                                                         *)
(* A step is one group of system calls.  Any of them may fail; so may the  *)
(* opening of the log file in any message, which ends the process without  *)
(* beforeExit, like a crash.                                               *)
(***************************************************************************)
EXTENDS Naturals

CONSTANTS
  Proc,      \* the processes, each started once at most
  sse, comm, \* the two ports
  none       \* no process

Port == {sse, comm}

ASSUME ProcAssumption == none \notin Proc /\ sse # comm

VARIABLES
  pc,        \* where each process is in main
  pidFile,   \* which process the pid file names, if it is there
  fifo,      \* the FIFO is there
  bound,     \* the ports each process has bound
  listener,  \* which process listens on a port
  nopid,     \* history: the processes that could not write the pid file
  abrupt,    \* history: those that ended without beforeExit
  undeleted, \* history: those whose beforeExit could not delete the pid file
  refused,   \* history: those that found something of another one in the way
  overlap    \* history: a process was started while another one was there

history == <<nopid, abrupt, undeleted, refused, overlap>>

vars == <<pc, pidFile, fifo, bound, listener, history>>

(* Before the pid file, before the signal handlers, and after them. *)
Early == {"daemon", "setuid", "pidfile"}
Unhandled == {"sigint", "sigterm"}
Setup == {"fifo", "cio", "bind", "listen", "bindComm", "listenComm", "epoll"}

Alive(p) == pc[p] \notin {"off", "gone"}

Init ==
  /\ pc = [p \in Proc |-> "off"]
  /\ pidFile = none /\ fifo \in BOOLEAN
  /\ bound = [p \in Proc |-> {}] /\ listener = [x \in Port |-> none]
  /\ nopid = {} /\ abrupt = {} /\ undeleted = {} /\ refused = {} /\ overlap = FALSE

Start(p) ==
  /\ pc[p] = "off"
  /\ pc' = [pc EXCEPT ![p] = "daemon"]
  /\ overlap' = (overlap \/ \E q \in Proc : Alive(q))
  /\ UNCHANGED <<pidFile, fifo, bound, listener, nopid, abrupt, undeleted, refused>>

-----------------------------------------------------------------------------
(***************************************************************************)
(* Ending.                                                                 *)
(***************************************************************************)

(* The kernel frees the ports of a process that ends. *)
Released(p) ==
  /\ pc' = [pc EXCEPT ![p] = "gone"]
  /\ bound' = [bound EXCEPT ![p] = {}]
  /\ listener' = [x \in Port |-> IF listener[x] = p THEN none ELSE listener[x]]
  /\ UNCHANGED <<fifo, nopid, overlap>>

(* Mutant of Exit: the pid file is left. *)
Exit_keeps_pid_file(p) == Released(p) /\ UNCHANGED <<pidFile, abrupt, undeleted>>

(* beforeExit and exit: the pid file goes, whichever process it names, or  *)
(* unlink fails, which is only logged.                                     *)
Exit(p) ==
  /\ Released(p) /\ UNCHANGED abrupt
  /\ \/ pidFile' = none /\ UNCHANGED undeleted
     \/ pidFile # none /\ UNCHANGED pidFile /\ undeleted' = undeleted \union {p}

(* A system call fails, after the pid file. *)
Fails(p) ==
  /\ pc[p] \in Unhandled \union Setup
  /\ Exit(p) /\ UNCHANGED refused

(* It fails before: daemon or setuid. *)
FailsEarly(p) ==
  /\ pc[p] \in {"daemon", "setuid"}
  /\ Released(p) /\ UNCHANGED <<pidFile, abrupt, undeleted, refused>>

(* INT or TERM once its handler is attached. *)
sigint_handler(p) ==
  /\ pc[p] \in {"sigterm", "serving"} \union Setup
  /\ Exit(p) /\ UNCHANGED refused

(* The end without beforeExit: a signal with no handler, such as PIPE, or  *)
(* INT and TERM before they are attached; the log file cannot be opened.   *)
Crash(p) ==
  /\ Alive(p)
  /\ Released(p) /\ abrupt' = abrupt \union {p}
  /\ UNCHANGED <<pidFile, undeleted, refused>>

-----------------------------------------------------------------------------
(***************************************************************************)
(* Starting, in the order of main.                                         *)
(***************************************************************************)

Goes(p, from, to) == pc[p] = from /\ pc' = [pc EXCEPT ![p] = to]

(* The steps that touch nothing the processes share: daemon, setuid, the   *)
(* handlers, cio_init, and the epoll descriptor.                           *)
Proceeds(p) ==
  /\ \/ Goes(p, "daemon", "setuid") \/ Goes(p, "setuid", "pidfile")
     \/ Goes(p, "sigint", "sigterm") \/ Goes(p, "sigterm", "fifo")
     \/ Goes(p, "cio", "bind") \/ Goes(p, "epoll", "serving")
  /\ UNCHANGED <<pidFile, fifo, bound, listener, history>>

(* Mutant of WritePidFile: an existing one is respected. *)
WritePidFile_if_none(p) ==
  /\ Goes(p, "pidfile", "sigint")
  /\ pidFile' = (IF pidFile = none THEN p ELSE pidFile)
  /\ UNCHANGED <<fifo, bound, listener, history>>

(* The pid file is written over, or cannot be opened. *)
WritePidFile(p) ==
  /\ Goes(p, "pidfile", "sigint")
  /\ \/ pidFile' = p /\ UNCHANGED nopid
     \/ nopid' = nopid \union {p} /\ UNCHANGED pidFile
  /\ UNCHANGED <<fifo, bound, listener, abrupt, undeleted, refused, overlap>>

(* Mutant of create_open_fifo: EEXIST is an error like any other. *)
create_open_fifo_new(p) ==
  \/ /\ ~fifo /\ fifo' = TRUE
     /\ Goes(p, "fifo", "cio")
     /\ UNCHANGED <<pidFile, bound, listener, history>>
  \/ /\ fifo /\ pc[p] = "fifo"
     /\ Exit(p) /\ refused' = refused \union {p}

create_open_fifo(p) ==
  /\ Goes(p, "fifo", "cio")
  /\ fifo' = TRUE
  /\ UNCHANGED <<pidFile, bound, listener, history>>

(* bind, with SO_REUSEADDR, fails if a process listens on the port.        *)
Bind(p, x, from, to) ==
  /\ listener[x] = none
  /\ Goes(p, from, to)
  /\ bound' = [bound EXCEPT ![p] = @ \union {x}]
  /\ UNCHANGED <<pidFile, fifo, listener, history>>

(* Mutant of Listen: two sockets bound to a port may both listen on it. *)
Listen_shared(p, x, from, to) ==
  /\ x \in bound[p]
  /\ Goes(p, from, to)
  /\ listener' = [listener EXCEPT ![x] = p]
  /\ UNCHANGED <<pidFile, fifo, bound, history>>

(* Two processes may both have bound the port: the first to listen has it. *)
Listen(p, x, from, to) ==
  /\ x \in bound[p] /\ listener[x] = none
  /\ Goes(p, from, to)
  /\ listener' = [listener EXCEPT ![x] = p]
  /\ UNCHANGED <<pidFile, fifo, bound, history>>

OpenPorts(p) ==
  \/ Bind(p, sse, "bind", "listen") \/ Listen(p, sse, "listen", "bindComm")
  \/ Bind(p, comm, "bindComm", "listenComm") \/ Listen(p, comm, "listenComm", "epoll")

(* The port is another's: EADDRINUSE. *)
InUse(p) ==
  /\ \/ pc[p] \in {"bind", "listen"} /\ listener[sse] # none
     \/ pc[p] \in {"bindComm", "listenComm"} /\ listener[comm] # none
  /\ Exit(p) /\ refused' = refused \union {p}

main(p) ==
  Proceeds(p) \/ WritePidFile(p) \/ create_open_fifo(p) \/ OpenPorts(p) \/ InUse(p)

Next ==
  \E p \in Proc :
    \/ Start(p) \/ main(p)
    \/ Fails(p) \/ FailsEarly(p) \/ sigint_handler(p) \/ Crash(p)

Spec == Init /\ [][Next]_vars

-----------------------------------------------------------------------------
(***************************************************************************)
(* Properties.                                                             *)
(***************************************************************************)

(* Type correctness. *)
TypeOK ==
  /\ pc \in [Proc -> {"off", "serving", "gone"} \union Early \union Unhandled \union Setup]
  /\ pidFile \in Proc \union {none} /\ fifo \in BOOLEAN
  /\ bound \in [Proc -> SUBSET Port] /\ listener \in [Port -> Proc \union {none}]
  /\ nopid \subseteq Proc /\ abrupt \subseteq Proc /\ undeleted \subseteq Proc
  /\ refused \subseteq Proc /\ overlap \in BOOLEAN

(* However starts overlap, one process serves at most, and it listens on   *)
(* both ports.                                                             *)
OneServer ==
  /\ \A p \in Proc : pc[p] = "serving" => \A x \in Port : listener[x] = p
  /\ \A x \in Port : listener[x] # none => Alive(listener[x])

(* The pid file names a process that is there, unless that process ended   *)
(* without beforeExit or failed to delete it there: every other way out of *)
(* main removes it.                                                        *)
NoStalePidFile ==
  pidFile # none => Alive(pidFile) \/ pidFile \in abrupt \union undeleted

(* Unless it could not be written, the pid file names the process that     *)
(* serves, whatever an earlier one has left, as long as no process is      *)
(* started while another one is there: a second one writes it over and     *)
(* removes it when it finds the ports in use.                              *)
PidFileNamesServer ==
  ~overlap => \A p \in Proc \ nopid : pc[p] = "serving" => pidFile = p

(* What processes leave behind when they end, in whatever way, stops no    *)
(* other one.                                                              *)
NothingLeftRefuses == ~overlap => refused = {}
=============================================================================
