-------------------------- MODULE Lifecycle_proofs --------------------------
(***************************************************************************)
(* What starts, ends and crashes of any number of processes do to the pid  *)
(* file and the ports.                                                     *)
(***************************************************************************)
EXTENDS Lifecycle, TLAPS

(* Where a process has the listening socket of a port. *)
HasSse == {"bindComm", "listenComm", "epoll", "serving"}
HasComm == {"epoll", "serving"}

(* A port has a listener exactly while that process is between its listen  *)
(* and its end.                                                            *)
Ports ==
  \A p \in Proc :
    /\ listener[sse] = p <=> pc[p] \in HasSse
    /\ listener[comm] = p <=> pc[p] \in HasComm

(* A pid is written by its own process, once it is at that. *)
Written == \A p \in Proc : pidFile = p => pc[p] \notin {"off"} \union Early

(* Until starts overlap there is one process at most. *)
Alone == ~overlap => \A p, q \in Proc : Alive(p) /\ Alive(q) => p = q

(* Until then it keeps its pid file from the moment it has written it. *)
Named ==
  ~overlap => \A p \in Proc \ nopid :
                Alive(p) /\ pc[p] \notin Early => pidFile = p

IInv ==
  /\ TypeOK /\ Ports /\ Written /\ Alone /\ Named
  /\ NoStalePidFile /\ NothingLeftRefuses

USE DEF Early, Unhandled, Setup

LEMMA InitIInv == Init => IInv
  BY ProcAssumption
     DEF Init, IInv, TypeOK, Ports, Written, Alone, Named, NoStalePidFile,
         NothingLeftRefuses, Alive, HasSse, HasComm, Port

(* A step of a process that goes on within the part of main that touches   *)
(* neither the pid file nor the ports.                                     *)
LEMMA StartIInv ==
  ASSUME IInv, NEW p \in Proc, Start(p)
  PROVE  IInv'
<1> USE ProcAssumption DEF IInv, Start
<1>1. TypeOK'
  BY DEF TypeOK
<1>2. Ports'
  BY DEF TypeOK, Ports, HasSse, HasComm
<1>3. Written'
  BY DEF TypeOK, Written
<1>4. Alone'
  BY DEF TypeOK, Alone, Alive
<1>5. Named'
  BY DEF TypeOK, Named, Alone, Alive
<1>6. NoStalePidFile'
  BY DEF TypeOK, NoStalePidFile, Alive, Written
<1>7. NothingLeftRefuses'
  BY DEF NothingLeftRefuses
<1> QED  BY <1>1, <1>2, <1>3, <1>4, <1>5, <1>6, <1>7

LEMMA ProceedsIInv ==
  ASSUME IInv, NEW p \in Proc, Proceeds(p)
  PROVE  IInv'
<1> USE ProcAssumption DEF IInv, Proceeds, Goes, history
<1>1. TypeOK'
  BY DEF TypeOK
<1>2. Ports'
  BY DEF TypeOK, Ports, HasSse, HasComm
<1>3. Written'
  BY DEF TypeOK, Written
<1>4. Alone'
  BY DEF TypeOK, Alone, Alive
<1>5. Named'
  BY DEF TypeOK, Named, Alive
<1>6. NoStalePidFile'
  BY DEF TypeOK, NoStalePidFile, Alive
<1>7. NothingLeftRefuses'
  BY DEF NothingLeftRefuses
<1> QED  BY <1>1, <1>2, <1>3, <1>4, <1>5, <1>6, <1>7

LEMMA WritePidFileIInv ==
  ASSUME IInv, NEW p \in Proc, WritePidFile(p)
  PROVE  IInv'
<1> USE ProcAssumption DEF IInv, WritePidFile, Goes
<1>1. TypeOK'
  BY DEF TypeOK
<1>2. Ports'
  BY DEF TypeOK, Ports, HasSse, HasComm
<1>3. Written'
  BY DEF TypeOK, Written
<1>4. Alone'
  BY DEF TypeOK, Alone, Alive
<1>5. Named'
  BY <1>4 DEF TypeOK, Named, Alone, Alive
<1>6. NoStalePidFile'
  BY DEF TypeOK, NoStalePidFile, Alive
<1>7. NothingLeftRefuses'
  BY DEF NothingLeftRefuses
<1> QED  BY <1>1, <1>2, <1>3, <1>4, <1>5, <1>6, <1>7

LEMMA FifoIInv ==
  ASSUME IInv, NEW p \in Proc, create_open_fifo(p)
  PROVE  IInv'
<1> USE ProcAssumption DEF IInv, create_open_fifo, Goes, history
<1>1. TypeOK'
  BY DEF TypeOK
<1>2. Ports'
  BY DEF TypeOK, Ports, HasSse, HasComm
<1>3. Written'
  BY DEF TypeOK, Written
<1>4. Alone'
  BY DEF TypeOK, Alone, Alive
<1>5. Named'
  BY DEF TypeOK, Named, Alive
<1>6. NoStalePidFile'
  BY DEF TypeOK, NoStalePidFile, Alive
<1>7. NothingLeftRefuses'
  BY DEF NothingLeftRefuses
<1> QED  BY <1>1, <1>2, <1>3, <1>4, <1>5, <1>6, <1>7

LEMMA OpenPortsIInv ==
  ASSUME IInv, NEW p \in Proc, OpenPorts(p)
  PROVE  IInv'
<1> USE ProcAssumption DEF IInv, OpenPorts, Bind, Listen, Goes, history
<1>1. TypeOK'
  BY DEF TypeOK, Port
<1>2. Ports'
  BY DEF TypeOK, Ports, HasSse, HasComm, Port
<1>3. Written'
  BY DEF TypeOK, Written
<1>4. Alone'
  BY DEF TypeOK, Alone, Alive
<1>5. Named'
  BY DEF TypeOK, Named, Alive
<1>6. NoStalePidFile'
  BY DEF TypeOK, NoStalePidFile, Alive
<1>7. NothingLeftRefuses'
  BY DEF NothingLeftRefuses
<1> QED  BY <1>1, <1>2, <1>3, <1>4, <1>5, <1>6, <1>7

(* However a process ends, the ports are the others' as before. *)
LEMMA ReleasedKeeps ==
  ASSUME IInv, NEW p \in Proc, Released(p), Alive(p),
         pidFile' \in Proc \union {none}, abrupt' \subseteq Proc,
         undeleted' \subseteq Proc, refused' \subseteq Proc
  PROVE  TypeOK' /\ Ports' /\ Alone'
<1> USE ProcAssumption DEF IInv, Released
<1>1. TypeOK'
  BY DEF TypeOK, Port
<1>2. Ports'
  BY DEF TypeOK, Ports, HasSse, HasComm, Port
<1>3. Alone'
  BY DEF TypeOK, Alone, Alive
<1> QED  BY <1>1, <1>2, <1>3

LEMMA ExitIInv ==
  ASSUME IInv, NEW p \in Proc, Exit(p), Alive(p), pc[p] \notin Early,
         refused' \subseteq Proc, NothingLeftRefuses'
  PROVE  IInv'
<1>1. TypeOK' /\ Ports' /\ Alone'
  BY ReleasedKeeps DEF Exit, IInv, TypeOK
<1> USE ProcAssumption DEF IInv, Exit, Released
<1>2. Written'
  BY DEF TypeOK, Written
<1>3. Named'
  BY <1>1 DEF TypeOK, Named, Alone, Alive
<1>4. NoStalePidFile'
  BY DEF TypeOK, NoStalePidFile, Alive
<1> QED  BY <1>1, <1>2, <1>3, <1>4

LEMMA FailsEarlyIInv ==
  ASSUME IInv, NEW p \in Proc, FailsEarly(p)
  PROVE  IInv'
<1>1. TypeOK' /\ Ports' /\ Alone'
  BY ReleasedKeeps DEF FailsEarly, IInv, TypeOK, Alive
<1> USE ProcAssumption DEF IInv, FailsEarly, Released
<1>2. Written'
  BY DEF TypeOK, Written
<1>3. Named'
  BY DEF TypeOK, Named, Alive
<1>4. NoStalePidFile'
  BY DEF TypeOK, NoStalePidFile, Written, Alive
<1>5. NothingLeftRefuses'
  BY DEF NothingLeftRefuses
<1> QED  BY <1>1, <1>2, <1>3, <1>4, <1>5

LEMMA CrashIInv ==
  ASSUME IInv, NEW p \in Proc, Crash(p)
  PROVE  IInv'
<1>1. TypeOK' /\ Ports' /\ Alone'
  BY ReleasedKeeps DEF Crash, IInv, TypeOK
<1> USE ProcAssumption DEF IInv, Crash, Released
<1>2. Written'
  BY DEF TypeOK, Written
<1>3. Named'
  BY DEF TypeOK, Named, Alive
<1>4. NoStalePidFile'
  BY DEF TypeOK, NoStalePidFile, Alive
<1>5. NothingLeftRefuses'
  BY DEF NothingLeftRefuses
<1> QED  BY <1>1, <1>2, <1>3, <1>4, <1>5

(* The port of a process that is alone is nobody's before it listens on it. *)
LEMMA InUseIInv ==
  ASSUME IInv, NEW p \in Proc, InUse(p)
  PROVE  IInv'
<1>1. Alive(p) /\ pc[p] \notin Early /\ Exit(p) /\ refused' \subseteq Proc
  BY DEF InUse, Alive, IInv, TypeOK
<1>2. PICK x \in Port : listener[x] # none /\ listener[x] \in Proc
                        /\ (x = sse => pc[p] \in {"bind", "listen"})
                        /\ (x = comm => pc[p] \in {"bindComm", "listenComm"})
  BY ProcAssumption DEF InUse, IInv, TypeOK, Port
<1>3. Alive(listener[x]) /\ listener[x] # p
  BY <1>2, ProcAssumption DEF IInv, Ports, Alive, HasSse, HasComm, Port
<1>4. overlap
  BY <1>1, <1>2, <1>3 DEF IInv, Alone
<1>5. NothingLeftRefuses'
  BY <1>1, <1>4 DEF Exit, Released, NothingLeftRefuses
<1> QED  BY <1>1, <1>5, ExitIInv

LEMMA NextIInv == IInv /\ [Next]_vars => IInv'
<1> SUFFICES ASSUME IInv, [Next]_vars PROVE IInv'
  OBVIOUS
<1>1. ASSUME NEW p \in Proc, Start(p) PROVE IInv'
  BY <1>1, StartIInv
<1>2. ASSUME NEW p \in Proc, main(p) PROVE IInv'
  BY <1>2, ProceedsIInv, WritePidFileIInv, FifoIInv, OpenPortsIInv, InUseIInv
     DEF main
<1>3. ASSUME NEW p \in Proc, Fails(p) \/ sigint_handler(p) PROVE IInv'
  <2>1. Exit(p) /\ Alive(p) /\ pc[p] \notin Early /\ refused' = refused
    BY <1>3 DEF Fails, sigint_handler, Alive
  <2>2. NothingLeftRefuses' /\ refused' \subseteq Proc
    BY <2>1 DEF IInv, TypeOK, NothingLeftRefuses, Exit, Released
  <2> QED  BY <2>1, <2>2, ExitIInv
<1>4. ASSUME NEW p \in Proc, FailsEarly(p) PROVE IInv'
  BY <1>4, FailsEarlyIInv
<1>5. ASSUME NEW p \in Proc, Crash(p) PROVE IInv'
  BY <1>5, CrashIInv
<1>6. CASE UNCHANGED vars
  BY <1>6 DEF IInv, vars, history, TypeOK, Ports, Written, Alone, Named, NoStalePidFile,
              NothingLeftRefuses, Alive
<1> QED  BY <1>1, <1>2, <1>3, <1>4, <1>5, <1>6 DEF Next

-----------------------------------------------------------------------------
(* The theorems.                                                           *)

(* IInv holds in every reachable state. *)
THEOREM Invariance == Spec => []IInv
  BY InitIInv, NextIInv, PTL DEF Spec

(* Type correctness of the processes and of what they share. *)
THEOREM TypeCorrect == Spec => []TypeOK
  <1>1. IInv => TypeOK
    BY DEF IInv
  <1> QED  BY <1>1, Invariance, PTL

(* However many processes are started at once, one of them at most gets    *)
(* both ports and serves.                                                  *)
THEOREM OneServerCorrect == Spec => []OneServer
  <1>1. IInv => OneServer
    BY ProcAssumption
       DEF IInv, TypeOK, Ports, OneServer, Alive, HasSse, HasComm, Port
  <1> QED  BY <1>1, Invariance, PTL

(* Only a process that ended without beforeExit, or could not delete the   *)
(* pid file there, leaves one that names it.                               *)
THEOREM NoStalePidFileCorrect == Spec => []NoStalePidFile
  <1>1. IInv => NoStalePidFile
    BY DEF IInv
  <1> QED  BY <1>1, Invariance, PTL

(* Without overlapping starts the pid file names the process that serves.  *)
THEOREM PidFileCorrect == Spec => []PidFileNamesServer
  <1>1. IInv => PidFileNamesServer
    BY DEF IInv, TypeOK, Named, PidFileNamesServer, Alive
  <1> QED  BY <1>1, Invariance, PTL

(* Without overlapping starts no process finds anything of an earlier one  *)
(* in its way.                                                             *)
THEOREM NothingLeftCorrect == Spec => []NothingLeftRefuses
  <1>1. IInv => NothingLeftRefuses
    BY DEF IInv
  <1> QED  BY <1>1, Invariance, PTL
=============================================================================
