---------------------------- MODULE Control_proofs ----------------------------
(***************************************************************************)
(* Theorems about Daemon and Control, for every set of processes, clients  *)
(* and commands: what the instance lock guarantees up to the one race that *)
(* Unlock leaves open, and, as the processes of Control are those of       *)
(* Daemon, that it does so with any clients at work.                       *)
(***************************************************************************)
EXTENDS Control, TLAPS

\* A process that holds the flock of the file it has open.
Locker(d) == proc[d] \in Running \cup {"flocked"}

\* A process has the lock file open from TryLock's open to its close.
OpenInv == \A d \in Daemons : lockFd[d] # NoOne <=> Locker(d) \/ proc[d] = "opened"

\* Flocks and the processes past flock belong together: no crash and no failed
\* start leaves a flock behind.
FlockInv ==
  /\ \A d \in Daemons : Locker(d) => flocked[lockFd[d]] = d
  /\ \A f \in Daemons :
       flocked[f] # NoOne => Locker(flocked[f]) /\ lockFd[flocked[f]] = f

\* Until an Unlock tears it, all open lock files are the file at the path.
PathInv == torn \/ \A d \in Daemons : lockFd[d] # NoOne => lockFd[d] = lockPath

LockInv == DaemonTypeOK /\ OpenInv /\ FlockInv /\ PathInv /\ PidIsHolders

\* While the lock excludes, only a process between Listen and the end of Stop
\* has a listener.
ListenerInv ==
  torn \/ \A d \in listener : proc[d] \in {"guarding", "running", "closing"}

SocketInv == ListenerInv /\ SocketIsServing

(***************************************************************************)
(* The lock                                                                *)
(***************************************************************************)

\* TryLock, step by step, keeps the lock's invariant.
LEMMA TryLockKeepsLock ==
  ASSUME LockInv, NEW d \in Daemons,
         OpenLockFile(d) \/ Flock(d) \/ FlockRefused(d) \/ WritePid(d)
  PROVE  LockInv'
<1>. USE NoOneIsNoDaemon DEF LockInv, DaemonTypeOK, Running, Step, Goto, socket
<1>1. CASE OpenLockFile(d)
  <2>. DEFINE file == IF lockPath = NoOne THEN d ELSE lockPath
  <2>1. /\ proc[d] = "off" /\ proc' = [proc EXCEPT ![d] = "opened"]
        /\ lockPath' = file /\ lockFd' = [lockFd EXCEPT ![d] = file]
        /\ UNCHANGED <<flocked, pidIn, torn, sockPath, listener, accepting>>
    BY <1>1 DEF OpenLockFile
  <2>2. file \in Daemons
    OBVIOUS
  <2>3. DaemonTypeOK'
    BY <2>1, <2>2
  <2>4. OpenInv'
    BY <2>1, <2>2 DEF OpenInv, Locker
  <2>5. FlockInv'
    BY <2>1, <2>2 DEF FlockInv, OpenInv, Locker
  <2>6. PathInv'
    BY <2>1, <2>2 DEF PathInv
  <2>7. PidIsHolders'
    BY <2>1 DEF PidIsHolders, HoldsLock
  <2>. QED  BY <2>3, <2>4, <2>5, <2>6, <2>7
<1>2. CASE Flock(d)
  <2>1. lockFd[d] \in Daemons
    BY <1>2 DEF Flock, OpenInv
  <2>2. DaemonTypeOK'
    BY <1>2, <2>1 DEF Flock
  <2>3. OpenInv'
    BY <1>2, <2>1 DEF Flock, OpenInv, Locker
  <2>4. FlockInv'
    BY <1>2, <2>1 DEF Flock, FlockInv, OpenInv, Locker
  <2>5. PathInv' /\ PidIsHolders'
    BY <1>2 DEF Flock, PathInv, PidIsHolders, HoldsLock
  <2>. QED  BY <2>2, <2>3, <2>4, <2>5
<1>3. CASE FlockRefused(d)
  <2>1. DaemonTypeOK' /\ OpenInv'
    BY <1>3 DEF FlockRefused, OpenInv, Locker
  <2>2. FlockInv'
    BY <1>3 DEF FlockRefused, FlockInv, Locker
  <2>3. PathInv' /\ PidIsHolders'
    BY <1>3 DEF FlockRefused, PathInv, PidIsHolders, HoldsLock
  <2>. QED  BY <2>1, <2>2, <2>3
<1>4. CASE WritePid(d)
  <2>1. /\ proc[d] = "flocked" /\ Locker(d)
        /\ lockFd[d] \in Daemons /\ flocked[lockFd[d]] = d
    BY <1>4 DEF WritePid, OpenInv, FlockInv, Locker
  <2>2. \A e \in Daemons : Locker(e) /\ e # d => lockFd[e] # lockFd[d]
    BY <2>1 DEF FlockInv
  <2>3. CASE /\ proc' = [proc EXCEPT ![d] = "initializing"]
             /\ pidIn' = [pidIn EXCEPT ![lockFd[d]] = d]
             /\ UNCHANGED <<lockPath, lockFd, flocked, torn, socket>>
    <3>1. DaemonTypeOK' /\ OpenInv'
      BY <2>1, <2>3 DEF OpenInv, Locker
    <3>2. FlockInv' /\ PathInv'
      BY <2>1, <2>3 DEF FlockInv, PathInv, Locker
    <3>3. PidIsHolders'
      BY <2>1, <2>2, <2>3 DEF PidIsHolders, HoldsLock, Locker
    <3>. QED  BY <3>1, <3>2, <3>3
  <2>4. CASE /\ proc' = [proc EXCEPT ![d] = "gone"]
             /\ pidIn' = [pidIn EXCEPT ![lockFd[d]] = NoOne]
             /\ flocked' = [flocked EXCEPT ![lockFd[d]] = NoOne]
             /\ lockFd' = [lockFd EXCEPT ![d] = NoOne]
             /\ UNCHANGED <<lockPath, torn, socket>>
    <3>1. DaemonTypeOK' /\ OpenInv'
      BY <2>1, <2>4 DEF OpenInv, Locker
    <3>2. FlockInv'
      BY <2>1, <2>2, <2>4 DEF FlockInv, Locker
    <3>3. PathInv'
      BY <2>4 DEF PathInv
    <3>4. PidIsHolders'
      BY <2>1, <2>2, <2>4 DEF PidIsHolders, HoldsLock, Locker
    <3>. QED  BY <3>1, <3>2, <3>3, <3>4
  <2>. QED  BY <1>4, <2>3, <2>4 DEF WritePid
<1>. QED  BY <1>1, <1>2, <1>3, <1>4

\* The steps between TryLock and Unlock leave the lock alone.
LEMMA HoldingKeepsLock ==
  ASSUME LockInv, NEW d \in Daemons,
         \/ Initialize(d) \/ ClearSocketPath(d) \/ Listen(d) \/ Guard(d)
         \/ AcceptFails(d) \/ Quit(d) \/ CloseListener(d) \/ RemoveSocket(d)
  PROVE  LockInv'
<1>1. /\ UNCHANGED files /\ DaemonTypeOK'
      /\ \A e \in Daemons : proc'[e] # proc[e] => HoldsLock(e) /\ HoldsLock(e)'
  BY NoOneIsNoDaemon
  DEF LockInv, DaemonTypeOK, Running, HoldsLock, Step, Goto, files, socket, Initialize,
      ClearSocketPath, Listen, Guard, AcceptFails, Quit, CloseListener, RemoveSocket
<1>2. OpenInv'
  BY <1>1 DEF LockInv, OpenInv, Locker, HoldsLock, Running, files
<1>3. FlockInv'
  BY <1>1 DEF LockInv, DaemonTypeOK, FlockInv, Locker, HoldsLock, Running, files
<1>4. PathInv'
  BY <1>1 DEF LockInv, PathInv, files
<1>5. PidIsHolders'
  BY <1>1 DEF LockInv, PidIsHolders, HoldsLock, Running, files
<1>. QED  BY <1>1, <1>2, <1>3, <1>4, <1>5 DEF LockInv

\* Unlock's two steps and a crash keep the lock's invariant.
LEMMA UnlockKeepsLock ==
  ASSUME LockInv, NEW d \in Daemons, ReleaseLock(d) \/ RemoveLockFile(d) \/ Crash(d)
  PROVE  LockInv'
<1>. USE NoOneIsNoDaemon DEF LockInv, DaemonTypeOK, Running, Step, Goto, socket
<1>1. CASE ReleaseLock(d)
  <2>1. /\ proc[d] = "unlocking" /\ Locker(d)
        /\ lockFd[d] \in Daemons /\ flocked[lockFd[d]] = d
    BY <1>1 DEF ReleaseLock, OpenInv, FlockInv, Locker
  <2>2. \A e \in Daemons : Locker(e) /\ e # d => lockFd[e] # lockFd[d]
    BY <2>1 DEF FlockInv
  <2>3. DaemonTypeOK' /\ OpenInv'
    BY <1>1, <2>1 DEF ReleaseLock, OpenInv, Locker
  <2>4. FlockInv'
    BY <1>1, <2>1, <2>2 DEF ReleaseLock, FlockInv, Locker
  <2>5. PathInv' /\ PidIsHolders'
    BY <1>1 DEF ReleaseLock, PathInv, PidIsHolders, HoldsLock
  <2>. QED  BY <2>3, <2>4, <2>5
<1>2. CASE RemoveLockFile(d)
  <2>1. DaemonTypeOK' /\ OpenInv'
    BY <1>2 DEF RemoveLockFile, OpenInv, Locker
  <2>2. FlockInv'
    BY <1>2 DEF RemoveLockFile, FlockInv, Locker
  <2>3. PathInv'
    BY <1>2 DEF RemoveLockFile, PathInv
  <2>4. PidIsHolders'
    BY <1>2 DEF RemoveLockFile, PidIsHolders, HoldsLock
  <2>. QED  BY <2>1, <2>2, <2>3, <2>4
<1>3. CASE Crash(d)
  <2>1. DaemonTypeOK' /\ OpenInv'
    BY <1>3 DEF Crash, OpenInv, Locker
  <2>2. FlockInv'
    <3>1. \A e \in Daemons : Locker(e)' => e # d /\ Locker(e) /\ lockFd'[e] = lockFd[e]
      BY <1>3 DEF Crash, Locker
    <3>2. \A e \in Daemons : Locker(e) => lockFd[e] \in Daemons
      BY DEF OpenInv
    <3>3. \A e \in Daemons : e # d => proc'[e] = proc[e] /\ lockFd'[e] = lockFd[e]
      BY <1>3 DEF Crash
    <3>4. \A f \in Daemons : flocked'[f] = IF flocked[f] = d THEN NoOne ELSE flocked[f]
      BY <1>3 DEF Crash
    <3>. QED  BY <3>1, <3>2, <3>3, <3>4 DEF FlockInv, Locker
  <2>3. PathInv' /\ PidIsHolders'
    BY <1>3 DEF Crash, PathInv, PidIsHolders, HoldsLock
  <2>. QED  BY <2>1, <2>2, <2>3
<1>. QED  BY <1>1, <1>2, <1>3

\* The lock's invariant is inductive.
LEMMA LockStep == LockInv /\ [\E d \in Daemons : DaemonNext(d)]_daemonVars => LockInv'
<1>1. ASSUME LockInv, NEW d \in Daemons, DaemonNext(d)
      PROVE  LockInv'
  BY <1>1, TryLockKeepsLock, HoldingKeepsLock, UnlockKeepsLock
  DEF DaemonNext, StartSteps, EndSteps
<1>2. ASSUME LockInv, UNCHANGED daemonVars
      PROVE  LockInv'
  BY <1>2 DEF LockInv, DaemonTypeOK, OpenInv, FlockInv, PathInv, PidIsHolders, Locker, HoldsLock,
              daemonVars, files, socket
<1>. QED  BY <1>1, <1>2

\* Every process starts without a file.
LEMMA LockStart == DaemonInit => LockInv
  BY NoOneIsNoDaemon DEF DaemonInit, LockInv, DaemonTypeOK, OpenInv, FlockInv, PathInv, PidIsHolders,
         Locker, HoldsLock, Running

LEMMA LockHolds == DaemonSpec => []LockInv
  BY LockStart, LockStep, PTL DEF DaemonSpec

\* Two processes that hold the lock hold the flock of one file.
LEMMA LockExcludes == LockInv => InstancesExclude
  BY NoOneIsNoDaemon
  DEF LockInv, InstancesExclude, OneDaemon, HoldsLock, FlockInv, OpenInv, PathInv, Locker

\* TryLock and Unlock exclude, for any number of processes that start, are
\* refused, fail, quit and crash - unless an Unlock removed a lock file that
\* another process had opened (lockfile.go).
THEOREM Exclusion == DaemonSpec => []InstancesExclude
  BY LockHolds, LockExcludes, PTL

\* The lock file shows the PID of the daemon that holds it (TryLock writes
\* after it has the flock, and truncates nothing before).
THEOREM PidOfHolder == DaemonSpec => []PidIsHolders
<1>1. LockInv => PidIsHolders
  BY DEF LockInv
<1>. QED  BY <1>1, LockHolds, PTL

\* Every variable keeps its type.
THEOREM DaemonTypes == DaemonSpec => []DaemonTypeOK
<1>1. LockInv => DaemonTypeOK
  BY DEF LockInv
<1>. QED  BY <1>1, LockHolds, PTL

(***************************************************************************)
(* No stale lock                                                           *)
(***************************************************************************)

\* A process that is refused met the flock of another one that lives.
LEMMA RefusalStep ==
  ASSUME LockInv, NEW d \in Daemons, NEW e \in Daemons, DaemonNext(e),
         proc[d] = "opened", proc'[d] = "gone"
  PROVE  \E g \in Daemons \ {d} : Alive(g)
<1>1. e = d /\ FlockRefused(d)
  BY DEF LockInv, DaemonTypeOK, Running, DaemonNext, StartSteps, EndSteps, Step, Goto, OpenLockFile, Flock,
         FlockRefused, WritePid, Initialize, ClearSocketPath, Listen, Guard, AcceptFails, Quit,
         CloseListener, RemoveSocket, ReleaseLock, RemoveLockFile, Crash
<1>2. lockFd[d] \in Daemons /\ flocked[lockFd[d]] \in Daemons
  BY <1>1 DEF FlockRefused, LockInv, DaemonTypeOK, OpenInv
<1>3. Locker(flocked[lockFd[d]])
  BY <1>2, NoOneIsNoDaemon DEF LockInv, FlockInv
<1>. QED  BY <1>2, <1>3 DEF Alive, Locker, Running

\* An instance is refused only by another one that lives: the kernel gives a
\* flock back when its process dies, whatever files it leaves.
THEOREM NoStaleLock == DaemonSpec => RefusedByLiving
<1>1. LockInv /\ [\E d \in Daemons : DaemonNext(d)]_daemonVars
        => [\A d \in Daemons : proc[d] = "opened" /\ proc'[d] = "gone" =>
              \E e \in Daemons \ {d} : Alive(e)]_daemonVars
  BY RefusalStep
<1>. QED  BY <1>1, LockHolds, PTL DEF DaemonSpec, RefusedByLiving

(***************************************************************************)
(* The socket                                                              *)
(***************************************************************************)

\* Socket and listener stay together while one process at most is a daemon.
LEMMA SocketStep ==
  ASSUME LockInv, SocketInv, NEW d \in Daemons, DaemonNext(d)
  PROVE  SocketInv'
<1>. SUFFICES ASSUME ~torn'
              PROVE  SocketInv'
  BY DEF SocketInv, ListenerInv, SocketIsServing
<1>1. ~torn
  BY DEF DaemonNext, StartSteps, EndSteps, OpenLockFile, Flock, FlockRefused, WritePid, Initialize,
         ClearSocketPath, Listen, Guard, AcceptFails, Quit, CloseListener, RemoveSocket,
         ReleaseLock, RemoveLockFile, Crash, files
<1>2. /\ \A e \in listener : sockPath = e /\ proc[e] \in {"guarding", "running", "closing"}
      /\ sockPath # NoOne => sockPath \in listener \/ proc[sockPath] = "crashed"
  BY <1>1 DEF SocketInv, ListenerInv, SocketIsServing
<1>3. \A e \in Daemons : HoldsLock(d) /\ HoldsLock(e) => e = d
  BY <1>1, LockExcludes DEF InstancesExclude, OneDaemon
<1>4. \A e \in listener : e \in Daemons /\ HoldsLock(e)
  BY <1>2 DEF LockInv, DaemonTypeOK, HoldsLock, Running
<1>. USE NoOneIsNoDaemon DEF LockInv, DaemonTypeOK, SocketInv, ListenerInv, SocketIsServing,
                             Running, HoldsLock, Step, Goto, files, socket
<1>5. CASE OpenLockFile(d) \/ Flock(d) \/ FlockRefused(d) \/ WritePid(d) \/ Initialize(d)
  BY <1>2, <1>5 DEF OpenLockFile, Flock, FlockRefused, WritePid, Initialize
<1>6. CASE ClearSocketPath(d) \/ Listen(d)
  BY <1>2, <1>3, <1>4, <1>6 DEF ClearSocketPath, Listen
<1>7. CASE Guard(d)
  BY <1>2, <1>3, <1>4, <1>7 DEF Guard
<1>8. CASE AcceptFails(d) \/ Quit(d)
  BY <1>2, <1>8 DEF AcceptFails, Quit
<1>9. CASE CloseListener(d) \/ RemoveSocket(d)
  BY <1>2, <1>3, <1>4, <1>9 DEF CloseListener, RemoveSocket
<1>10. CASE ReleaseLock(d) \/ RemoveLockFile(d)
  BY <1>2, <1>10 DEF ReleaseLock, RemoveLockFile
<1>11. CASE Crash(d)
  BY <1>2, <1>11 DEF Crash
<1>. QED  BY <1>5, <1>6, <1>7, <1>8, <1>9, <1>10, <1>11 DEF DaemonNext, StartSteps, EndSteps

\* While the lock excludes, the path leads to the daemon that listens, and
\* only a crash leaves a socket behind: Server.Start and Stop may remove
\* whatever they find there.
THEOREM SocketServes == DaemonSpec => []SocketIsServing
<1>1. DaemonInit => SocketInv
  BY DEF DaemonInit, SocketInv, ListenerInv, SocketIsServing
<1>2. LockInv /\ SocketInv /\ [\E d \in Daemons : DaemonNext(d)]_daemonVars => SocketInv'
  <2>1. ASSUME SocketInv, UNCHANGED daemonVars
        PROVE  SocketInv'
    BY <2>1 DEF SocketInv, ListenerInv, SocketIsServing, daemonVars, files, socket
  <2>. QED  BY <2>1, SocketStep
<1>3. SocketInv => SocketIsServing
  BY DEF SocketInv
<1>. QED  BY <1>1, <1>2, <1>3, LockHolds, PTL DEF DaemonSpec

(***************************************************************************)
(* Clients                                                                 *)
(***************************************************************************)

\* The steps of a client and of its handler leave the processes alone.
LEMMA ClientsLeaveDaemons ==
  ASSUME NEW c \in Clients, ClientNext(c) \/ Handle(c) \/ HandleModel(c)
  PROVE  UNCHANGED daemonVars
<1>1. CASE ClientNext(c)
  BY <1>1 DEF ClientNext, SendRequest, TimeOut, ConnectionLost
<1>2. CASE Handle(c) \/ HandleModel(c)
  BY <1>2 DEF Handle, Accept, Reset, Route, HandleToggle, HandleQuery, HandleStart,
               HandleStop, AnswerStop, HandleModel, Respond, Proceed
<1>. QED  BY <1>1, <1>2

\* Every behaviour with clients is a behaviour of the daemons: no command
\* reaches the lock or the socket's path.  The theorems of Daemon_proofs hold
\* here as well.
THEOREM ImplementsDaemon == Spec => DaemonSpec
<1>1. Init => DaemonInit
  BY DEF Init
<1>2. [Next]_vars => [\E d \in Daemons : DaemonNext(d)]_daemonVars
  <2>1. ASSUME UNCHANGED vars
        PROVE  UNCHANGED daemonVars
    BY <2>1 DEF vars
  <2>2. ASSUME NEW d \in Daemons,
               StartSteps(d) \/ AcceptFails(d) \/ Quit(d) \/ Crash(d) \/ Ending(d)
        PROVE  DaemonNext(d)
    BY <2>2 DEF DaemonNext, Ending
  <2>. QED  BY <2>1, <2>2, ClientsLeaveDaemons DEF Next
<1>. QED  BY <1>1, <1>2, PTL DEF Spec, DaemonSpec

\* Two daemons never serve commands at once, up to the race of Unlock.
THEOREM ControlExcludes == Spec => []InstancesExclude
  BY ImplementsDaemon, Exclusion, PTL

\* A handler works only for a client that sent a request.
ClientInv == TypeOK /\ \A c \in Clients : cli[c] = "idle" => handler[c] = "none"

\* What Respond does to a client is all it does.
LEMMA RespondKeeps ==
  ASSUME ClientInv, NEW c \in Clients, NEW ok \in BOOLEAN, Respond(c, ok), handler[c] # "none"
  PROVE  ClientInv'
<1>1. TypeOK'
  BY DEF ClientInv, TypeOK, DaemonTypeOK, daemonVars, files, socket, Respond
<1>2. \A d \in Clients : cli'[d] = "idle" => handler'[d] = "none"
  BY DEF ClientInv, TypeOK, Respond
<1>. QED  BY <1>1, <1>2 DEF ClientInv

\* A handler that goes on answers nobody.
LEMMA ProceedKeeps ==
  ASSUME ClientInv, NEW c \in Clients, NEW there \in Busy \cup {"ended"}, Proceed(c, there),
         handler[c] # "none"
  PROVE  ClientInv'
<1>1. TypeOK'
  BY DEF ClientInv, TypeOK, DaemonTypeOK, daemonVars, files, socket, Proceed
<1>2. \A d \in Clients : cli'[d] = "idle" => handler'[d] = "none"
  BY DEF ClientInv, TypeOK, Proceed
<1>. QED  BY <1>1, <1>2 DEF ClientInv

\* Every step of a handler keeps the clients' invariant.
LEMMA HandlerKeeps ==
  ASSUME ClientInv, NEW c \in Clients, Handle(c) \/ HandleModel(c)
  PROVE  ClientInv'
<1>1. handler[c] # "none"
  BY DEF Handle, HandleModel, Accept, Reset, Route, HandleStart, HandleStop, AnswerStop, Serving
<1>2. \/ \E ok \in BOOLEAN : Respond(c, ok)
      \/ \E there \in Busy \cup {"ended"} : Proceed(c, there)
  BY DEF Handle, HandleModel, Accept, Reset, Route, HandleToggle, HandleQuery, HandleStart,
         HandleStop, AnswerStop, Busy
<1>. QED  BY <1>1, <1>2, RespondKeeps, ProceedKeeps

\* So do the steps of the client.
LEMMA ClientKeeps ==
  ASSUME ClientInv, NEW c \in Clients, ClientNext(c)
  PROVE  ClientInv'
<1>1. CASE SendRequest(c)
  <2>1. sockPath \in listener => sockPath \in Daemons
    BY DEF ClientInv, TypeOK, DaemonTypeOK
  <2>2. TypeOK'
    BY <1>1, <2>1 DEF ClientInv, TypeOK, DaemonTypeOK, daemonVars, files, socket, SendRequest
  <2>3. \A d \in Clients : cli'[d] = "idle" => handler'[d] = "none"
    BY <1>1 DEF ClientInv, TypeOK, SendRequest
  <2>. QED  BY <2>2, <2>3 DEF ClientInv
<1>2. CASE TimeOut(c) \/ ConnectionLost(c)
  <2>1. TypeOK'
    BY <1>2 DEF ClientInv, TypeOK, DaemonTypeOK, daemonVars, files, socket, TimeOut, ConnectionLost
  <2>2. \A d \in Clients : cli'[d] = "idle" => handler'[d] = "none"
    BY <1>2 DEF ClientInv, TypeOK, TimeOut, ConnectionLost
  <2>. QED  BY <2>1, <2>2 DEF ClientInv
<1>. QED  BY <1>1, <1>2 DEF ClientNext

\* Daemons, files, clients and handlers are what the code knows them to be.
THEOREM ControlTypes == Spec => []TypeOK
<1>1. Init => ClientInv
  BY LockStart DEF Init, ClientInv, TypeOK, LockInv
<1>2. ClientInv /\ DaemonTypeOK' /\ [Next]_vars => ClientInv'
  <2>1. ASSUME ClientInv, DaemonTypeOK', UNCHANGED clientVars
        PROVE  ClientInv'
    BY <2>1 DEF ClientInv, TypeOK, clientVars
  <2>. QED  BY <2>1, HandlerKeeps, ClientKeeps DEF Next, vars
<1>3. ClientInv => TypeOK
  BY DEF ClientInv
<1>. QED  BY <1>1, <1>2, <1>3, ImplementsDaemon, DaemonTypes, PTL DEF Spec
=============================================================================
