------------------------------- MODULE Control -------------------------------
(***************************************************************************)
(* Controlling a daemon from the command line: commands                    *)
(* (cmd/dabri/commands.go, model.go, internal/ipc/client.go) dial the      *)
(* socket, one handler goroutine per connection (internal/ipc/server.go)   *)
(* carries a command out (internal/app/ipc.go), and the processes of       *)
(* Daemon come, go and crash under them.  A handler succeeds or fails here *)
(* as the services allow; what a stop is answered with is AudioService's.  *)
(***************************************************************************)
EXTENDS Daemon

CONSTANTS
  Clients,  \* CLI processes
  Commands  \* the commands they send

\* What registerIPCHandlers knows, by the name the command line uses.
Registered == {"start", "stop", "toggle", "status", "transcript", "set", "delete"}

ASSUME CommandsAreWords == Commands \subseteq Registered \cup {"other"}

VARIABLES
  cli,      \* how far a client is
  command,  \* the command of a client
  server,   \* the process a client is connected to
  handler   \* where the handler of its connection is

clientVars == <<cli, command, server, handler>>
vars == <<daemonVars, clientVars>>

Busy == {"reading", "starting", "stopping", "waiting", "working", "answering"}

TypeOK ==
  /\ DaemonTypeOK
  /\ cli \in [Clients -> {"idle", "waiting", "answered", "failed"}]
  /\ command \in [Clients -> Commands \cup {"none"}]
  /\ server \in [Clients -> Daemons \cup {NoOne}]
  /\ handler \in [Clients -> Busy \cup {"none", "queued", "ended"}]

Init ==
  /\ DaemonInit
  /\ cli = [c \in Clients |-> "idle"]
  /\ command = [c \in Clients |-> "none"]
  /\ server = [c \in Clients |-> NoOne]
  /\ handler = [c \in Clients |-> "none"]

-----------------------------------------------------------------------------
\* The client.

\* Dial and send.  A refused connection ends the command, and so does a
\* model ID the client does not know.
SendRequest(c) ==
  /\ cli[c] = "idle"
  /\ \E cmd \in Commands :
       /\ command' = [command EXCEPT ![c] = cmd]
       /\ \/ /\ sockPath \in listener
             /\ cli' = [cli EXCEPT ![c] = "waiting"]
             /\ server' = [server EXCEPT ![c] = sockPath]
             /\ handler' = [handler EXCEPT ![c] = "queued"]
          \/ /\ sockPath \notin listener \/ cmd \in {"set", "delete"}
             /\ cli' = [cli EXCEPT ![c] = "failed"]
             /\ UNCHANGED <<server, handler>>
  /\ UNCHANGED daemonVars

\* The deadline of deriveTimeout; the handler does not learn of it.
TimeOut(c) ==
  /\ cli[c] = "waiting"
  /\ cli' = [cli EXCEPT ![c] = "failed"]
  /\ UNCHANGED <<daemonVars, command, server, handler>>

Orphaned(c) == server[c] \in Daemons /\ ~Alive(server[c])

\* The connection goes with its handler, or with the process.
ConnectionLost(c) ==
  /\ cli[c] = "waiting"
  /\ handler[c] = "ended" \/ Orphaned(c)
  /\ cli' = [cli EXCEPT ![c] = "failed"]
  /\ UNCHANGED <<daemonVars, command, server, handler>>

-----------------------------------------------------------------------------
\* The server.

Serving(c, here) == handler[c] = here /\ Alive(server[c])
Proceed(c, there) ==
  /\ handler' = [handler EXCEPT ![c] = there]
  /\ UNCHANGED <<daemonVars, cli, command, server>>

Accept(c) ==
  /\ Serving(c, "queued") /\ server[c] \in accepting
  /\ Proceed(c, "reading")

\* A connection nobody accepted is reset when the listener closes.
Reset(c) ==
  /\ handler[c] = "queued" /\ server[c] \notin listener
  /\ Proceed(c, "ended")

\* writeResponse, and the deferred Close: ok or an error, if the client is
\* still there.
Respond(c, ok) ==
  /\ handler' = [handler EXCEPT ![c] = "ended"]
  /\ cli' = IF cli[c] = "waiting"
              THEN [cli EXCEPT ![c] = IF ok THEN "answered" ELSE "failed"] ELSE cli
  /\ UNCHANGED <<daemonVars, command, server>>

\* Decided by IsRecording; another caller may be quicker.
HandleToggle(c) == Proceed(c, "starting") \/ Proceed(c, "stopping")

\* ipcHandleStatus and ipcHandleLastTranscript only read.
HandleQuery(c) == Respond(c, TRUE)


\* handleConnection: the request is there, or cannot be read any more.
Route(c) ==
  /\ Serving(c, "reading")
  /\ \/ command[c] = "start" /\ Proceed(c, "starting")
     \/ command[c] = "stop" /\ Proceed(c, "stopping")
     \/ command[c] = "toggle" /\ HandleToggle(c)
     \/ command[c] \in {"set", "delete"} /\ Proceed(c, "working")
     \/ command[c] \in {"status", "transcript"} /\ HandleQuery(c)
     \/ command[c] \notin Registered /\ Respond(c, FALSE)
     \/ cli[c] # "waiting" /\ Proceed(c, "ended")

HandleStart(c) ==
  /\ Serving(c, "starting")
  /\ \E ok \in BOOLEAN : Respond(c, ok)

\* A stop without a recording is a success; one that captured something waits.
HandleStop(c) ==
  /\ Serving(c, "stopping")
  /\ (\E ok \in BOOLEAN : Respond(c, ok)) \/ Proceed(c, "waiting")

\* After WaitForTranscription, with a transcript (be it an earlier one, or
\* none) or after 45 seconds with a warning: a success in any case.
AnswerStop(c) ==
  /\ Serving(c, "waiting")
  /\ Respond(c, TRUE)

\* SwitchModel and DeleteModel; a switch may download for as long as it takes.
HandleModel(c) ==
  /\ Serving(c, "working")
  /\ \E ok \in BOOLEAN : Respond(c, ok)

Handle(c) ==
  Accept(c) \/ Reset(c) \/ Route(c) \/ HandleStart(c) \/ HandleStop(c) \/ AnswerStop(c)

\* Stop waits for the handlers of its process, but only two seconds.
HandlersDone(d) == \A c \in Clients : server[c] = d => handler[c] \notin Busy


\* The select of Stop: done, or the timer.
Ending(d) == EndSteps(d)

-----------------------------------------------------------------------------
ClientNext(c) == SendRequest(c) \/ TimeOut(c) \/ ConnectionLost(c)

Next ==
  \/ \E d \in Daemons :
       /\ StartSteps(d) \/ AcceptFails(d) \/ Quit(d) \/ Crash(d) \/ Ending(d)
       /\ UNCHANGED clientVars
  \/ \E c \in Clients : ClientNext(c) \/ Handle(c) \/ HandleModel(c)

Spec == Init /\ [][Next]_vars

\* A process that starts or ends goes on, as each handler does, and the kernel
\* reports a closed connection.  A model switch may take for ever, nobody has
\* to start anything, and no client's deadline is counted on.
FairSpec ==
  /\ Spec
  /\ \A d \in Daemons : WF_vars((StartSteps(d) \/ Ending(d)) /\ UNCHANGED clientVars)
  /\ \A c \in Clients : WF_vars(ConnectionLost(c)) /\ WF_vars(Handle(c))

-----------------------------------------------------------------------------
\* Properties.

\* A client is left to its deadline only by a download or by an acceptLoop that
\* has died under a running daemon: every other command comes back, through
\* quits, crashes and failing starts of its daemon.  (handleConnection, Stop)
LeftToDeadline(c) ==
  \/ Serving(c, "working")
  \/ handler[c] = "queued" /\ server[c] \notin accepting /\ proc[server[c]] = "running"

=============================================================================
