-------------------------------- MODULE Daemon --------------------------------
(***************************************************************************)
(* Daemon processes that share a runtime directory: the instance lock      *)
(* (internal/utils/lockfile.go), the path of the control socket            *)
(* (internal/ipc/server.go) and the life of a process around them          *)
(* (cmd/dabri/daemon.go, internal/app/app.go).  A file is named after the   *)
(* process that created it: the lock file's path and the socket's path may *)
(* come to name a file other than the one a process has open.              *)
(***************************************************************************)
EXTENDS Naturals, FiniteSets

CONSTANTS
  Daemons,  \* daemon processes; each runs once, a restart is another process
  NoOne     \* no file, no process

ASSUME NoOneIsNoDaemon == NoOne \notin Daemons

VARIABLES
  proc,      \* how far a process is
  lockPath,  \* the lock file at the path, by its creator
  lockFd,    \* the lock file a process has open
  flocked,   \* the process that holds the flock of a file
  pidIn,     \* the process whose PID is written in a file
  sockPath,  \* the socket at the path, by its listener
  listener,  \* processes whose listener is open
  accepting, \* processes whose acceptLoop runs
  torn       \* history: Unlock removed a lock file another process had open

files == <<lockPath, lockFd, flocked, pidIn, torn>>
socket == <<sockPath, listener, accepting>>
daemonVars == <<proc, files, socket>>

Running == {"initializing", "clearing", "binding", "guarding", "running",
            "closing", "draining", "unlocking"}
\* TryLock has returned to the caller and Unlock has not released the flock.
HoldsLock(d) == proc[d] \in Running
Alive(d) == proc[d] \in Running \cup {"opened", "flocked", "unlocked"}

DaemonTypeOK ==
  /\ proc \in [Daemons -> Running \cup {"off", "opened", "flocked", "unlocked", "gone", "crashed"}]
  /\ lockPath \in Daemons \cup {NoOne} /\ sockPath \in Daemons \cup {NoOne}
  /\ lockFd \in [Daemons -> Daemons \cup {NoOne}]
  /\ flocked \in [Daemons -> Daemons \cup {NoOne}]
  /\ pidIn \in [Daemons -> Daemons \cup {NoOne}]
  /\ listener \subseteq Daemons /\ accepting \subseteq Daemons
  /\ torn \in BOOLEAN

DaemonInit ==
  /\ proc = [d \in Daemons |-> "off"]
  /\ lockPath = NoOne /\ sockPath = NoOne
  /\ lockFd = [d \in Daemons |-> NoOne]
  /\ flocked = [d \in Daemons |-> NoOne]
  /\ pidIn = [d \in Daemons |-> NoOne]
  /\ listener = {} /\ accepting = {} /\ torn = FALSE

Goto(d, there) == proc' = [proc EXCEPT ![d] = there]
Step(d, here, there) == proc[d] = here /\ Goto(d, there)

-----------------------------------------------------------------------------
\* TryLock.

\* Mutant: the file is truncated as it is opened.
OpenTruncating(d) ==
  /\ Step(d, "off", "opened")
  /\ LET file == IF lockPath = NoOne THEN d ELSE lockPath
     IN /\ lockPath' = file /\ lockFd' = [lockFd EXCEPT ![d] = file]
        /\ pidIn' = [pidIn EXCEPT ![file] = NoOne]
  /\ UNCHANGED <<flocked, torn, socket>>

\* O_CREATE: the file at the path, or a new one.
OpenLockFile(d) ==
  /\ Step(d, "off", "opened")
  /\ LET file == IF lockPath = NoOne THEN d ELSE lockPath
     IN lockPath' = file /\ lockFd' = [lockFd EXCEPT ![d] = file]
  /\ UNCHANGED <<flocked, pidIn, torn, socket>>

\* Mutant: the lock is shared.
FlockShared(d) ==
  /\ Step(d, "opened", "flocked")
  /\ flocked' = [flocked EXCEPT ![lockFd[d]] = d]
  /\ UNCHANGED <<lockPath, lockFd, pidIn, torn, socket>>

\* LOCK_EX | LOCK_NB on the open file.
Flock(d) ==
  /\ Step(d, "opened", "flocked")
  /\ flocked[lockFd[d]] = NoOne
  /\ flocked' = [flocked EXCEPT ![lockFd[d]] = d]
  /\ UNCHANGED <<lockPath, lockFd, pidIn, torn, socket>>

\* Another instance holds it: the file is closed and left alone.
FlockRefused(d) ==
  /\ Step(d, "opened", "gone")
  /\ flocked[lockFd[d]] # NoOne
  /\ lockFd' = [lockFd EXCEPT ![d] = NoOne]
  /\ UNCHANGED <<lockPath, flocked, pidIn, torn, socket>>

\* Truncate and write the PID.  On failure the file is closed, which gives
\* the flock back, and stays at its path: runDaemonCobra has not deferred
\* Unlock yet.
WritePid(d) ==
  \/ /\ Step(d, "flocked", "initializing")
     /\ pidIn' = [pidIn EXCEPT ![lockFd[d]] = d]
     /\ UNCHANGED <<lockPath, lockFd, flocked, torn, socket>>
  \/ /\ Step(d, "flocked", "gone")
     /\ pidIn' = [pidIn EXCEPT ![lockFd[d]] = NoOne]
     /\ flocked' = [flocked EXCEPT ![lockFd[d]] = NoOne]
     /\ lockFd' = [lockFd EXCEPT ![d] = NoOne]
     /\ UNCHANGED <<lockPath, torn, socket>>

-----------------------------------------------------------------------------
\* Start.

\* Initialize fails before anything runs: only the deferred Unlock is left.
Initialize(d) ==
  /\ Step(d, "initializing", "clearing") \/ Step(d, "initializing", "unlocking")
  /\ UNCHANGED <<files, socket>>

\* ipc Server.Start removes whatever is at the socket's path.
ClearSocketPath(d) ==
  /\ Step(d, "clearing", "binding")
  /\ sockPath' = NoOne
  /\ UNCHANGED <<files, listener, accepting>>

\* Listen fails when the path is taken; the daemon then runs without CLI.
Listen(d) ==
  \/ /\ sockPath = NoOne
     /\ Step(d, "binding", "guarding")
     /\ sockPath' = d /\ listener' = listener \cup {d}
     /\ UNCHANGED <<files, accepting>>
  \/ /\ Step(d, "binding", "running")
     /\ UNCHANGED <<files, socket>>

\* Chmod, then the goroutine of acceptLoop; a listener that is closed
\* unlinks the path.
Guard(d) ==
  \/ /\ sockPath # NoOne
     /\ Step(d, "guarding", "running")
     /\ accepting' = accepting \cup {d}
     /\ UNCHANGED <<files, sockPath, listener>>
  \/ /\ Step(d, "guarding", "running")
     /\ listener' = listener \ {d} /\ sockPath' = NoOne
     /\ UNCHANGED <<files, accepting>>

\* acceptLoop gives up on an error that is not transient.
AcceptFails(d) ==
  /\ proc[d] = "running" /\ d \in accepting
  /\ accepting' = accepting \ {d}
  /\ UNCHANGED <<proc, files, sockPath, listener>>

-----------------------------------------------------------------------------
\* The end.

\* Mutant: Shutdown does not stop the IPC server.
QuitLeavingServer(d) ==
  /\ Step(d, "running", "unlocking")
  /\ UNCHANGED <<files, socket>>

\* A signal ends the UI loop; Shutdown cancels the context.
Quit(d) ==
  /\ IF d \in listener THEN Step(d, "running", "closing") ELSE Step(d, "running", "unlocking")
  /\ UNCHANGED <<files, socket>>

\* Server.Stop: the listener unlinks the path and the acceptLoop ends.
CloseListener(d) ==
  /\ Step(d, "closing", "draining")
  /\ listener' = listener \ {d} /\ accepting' = accepting \ {d}
  /\ sockPath' = NoOne
  /\ UNCHANGED files

\* ... and the path is removed after the handlers, or two seconds.
RemoveSocket(d) ==
  /\ Step(d, "draining", "unlocking")
  /\ sockPath' = NoOne
  /\ UNCHANGED <<files, listener, accepting>>

\* The services are down; Unlock: LOCK_UN and Close ...
ReleaseLock(d) ==
  /\ Step(d, "unlocking", "unlocked")
  /\ flocked' = [flocked EXCEPT ![lockFd[d]] = NoOne]
  /\ lockFd' = [lockFd EXCEPT ![d] = NoOne]
  /\ UNCHANGED <<lockPath, pidIn, torn, socket>>

\* ... then os.Remove, whatever file is at the path by now, and the exit.
RemoveLockFile(d) ==
  /\ Step(d, "unlocked", "gone")
  /\ lockPath' = NoOne
  /\ torn' = (torn \/ \E e \in Daemons : lockFd[e] = lockPath /\ lockPath # NoOne)
  /\ listener' = listener \ {d} /\ accepting' = accepting \ {d}
  /\ UNCHANGED <<lockFd, flocked, pidIn, sockPath>>

\* Mutant: a lock that outlives its process.
CrashKeepingLock(d) ==
  /\ Alive(d) /\ Goto(d, "crashed")
  /\ lockFd' = [lockFd EXCEPT ![d] = NoOne]
  /\ listener' = listener \ {d} /\ accepting' = accepting \ {d}
  /\ UNCHANGED <<lockPath, flocked, pidIn, torn, sockPath>>

\* The process dies: the kernel closes its files, both paths stay.
Crash(d) ==
  /\ Alive(d) /\ Goto(d, "crashed")
  /\ lockFd' = [lockFd EXCEPT ![d] = NoOne]
  /\ flocked' = [f \in Daemons |-> IF flocked[f] = d THEN NoOne ELSE flocked[f]]
  /\ listener' = listener \ {d} /\ accepting' = accepting \ {d}
  /\ UNCHANGED <<lockPath, pidIn, torn, sockPath>>

StartSteps(d) ==
  \/ OpenLockFile(d) \/ Flock(d) \/ FlockRefused(d) \/ WritePid(d)
  \/ Initialize(d) \/ ClearSocketPath(d) \/ Listen(d) \/ Guard(d)
EndSteps(d) == CloseListener(d) \/ RemoveSocket(d) \/ ReleaseLock(d) \/ RemoveLockFile(d)

DaemonNext(d) == StartSteps(d) \/ AcceptFails(d) \/ Quit(d) \/ EndSteps(d) \/ Crash(d)

DaemonSpec == DaemonInit /\ [][\E d \in Daemons : DaemonNext(d)]_daemonVars

-----------------------------------------------------------------------------
\* What the lock is for.

\* runDaemonCobra: "prevent multiple daemon processes".
OneDaemon == \A d, e \in Daemons : HoldsLock(d) /\ HoldsLock(e) => d = e

\* Two processes run as daemon only after an Unlock has removed a lock file
\* that another process had open by then (lockfile.go: the flock is released
\* before the file is removed).
InstancesExclude == torn \/ OneDaemon

\* The file a running daemon holds names its PID, however many later
\* instances open it and are refused.
PidIsHolders == \A d \in Daemons : HoldsLock(d) => pidIn[lockFd[d]] = d

\* While the lock excludes, the socket's path leads to the daemon that
\* listens, and a daemon that shut down leaves no socket behind.
SocketIsServing ==
  torn \/ /\ \A d \in listener : sockPath = d
          /\ sockPath # NoOne => sockPath \in listener \/ proc[sockPath] = "crashed"

\* An instance is refused only by another one that lives: no crash leaves a
\* stale lock.
RefusedByLiving ==
  [][\A d \in Daemons : proc[d] = "opened" /\ proc'[d] = "gone" =>
       \E e \in Daemons \ {d} : Alive(e)]_daemonVars
=============================================================================
