--------------------------- MODULE WebSocketServer ---------------------------
(***************************************************************************)
(* The WebSocket server (websocket/server.go, message_handler.go,          *)
(* retry_manager.go, authentication.go): one goroutine that serves HTTP,   *)
(* one handler goroutine and one pinger per connection, and Stop, which    *)
(* ServiceContainer.Shutdown calls.  clientsLock protects clients and the  *)
(* retry counts; it is never held across a step.  What a request does to   *)
(* the recording is the business of AudioService; here it ends somehow.    *)
(***************************************************************************)
EXTENDS Naturals, FiniteSets

CONSTANTS
  Conns,        \* the connections clients may make
  MaxClients,   \* cfg.WebServer.MaxClients, positive: the limit is on
  MaxRetries,   \* maxRetries of executeWithRetry
  MaxRequests   \* bound: requests sent over one connection

ASSUME ConnsFinite == IsFiniteSet(Conns)
ASSUME LimitOn == MaxClients \in Nat \ {0}
ASSUME BoundsAreNatural == MaxRetries \in Nat /\ MaxRequests \in Nat

VARIABLES
  loop,      \* the goroutine of Start: running (started is set), serving, ...
  started,   \* WebSocketServer.started
  down,      \* http.Server.Shutdown was called
  stop,      \* how far the call of Stop is
  pc,        \* where the handler of a connection is
  peer,      \* connections up at the client's end
  open,      \* upgraded sockets this side has not closed
  clients,   \* WebSocketServer.clients
  pinging,   \* connections with a pingClient goroutine
  asked,     \* requests the client of a connection has sent
  answered,  \* requests its handler is done with
  retries,   \* WebSocketServer.retryCount
  raced,     \* history: admitted while another admitted client was not registered
  late       \* history: on the way in when Stop closed the clients, or dialed before Shutdown

server == <<loop, started, down, stop>>
sockets == <<peer, open, clients, pinging>>
requests == <<asked, answered, retries>>
vars == <<server, pc, sockets, requests, raced, late>>

Handling == {"start", "stop"}
Served == {"serving"} \cup Handling
\* Accepted by the HTTP server and not in clients yet.
Handshaking == {c \in Conns : pc[c] \in {"accepted", "admitted", "upgraded"}}
\* Handlers between the check of the limit and the entry in clients.
Entering == {c \in Conns : pc[c] \in {"admitted", "upgraded"}}

TypeOK ==
  /\ loop \in {"spawned", "running", "serving", "closing", "ended"}
  /\ started \in BOOLEAN /\ down \in BOOLEAN
  /\ stop \in {"none", "ignored", "swept", "draining", "waiting", "done"}
  /\ pc \in [Conns -> {"idle", "accepted", "admitted", "upgraded", "leaving", "gone"} \cup Served]
  /\ peer \subseteq Conns /\ open \subseteq Conns
  /\ clients \subseteq Conns /\ pinging \subseteq Conns
  /\ asked \in [Conns -> 0..MaxRequests] /\ answered \in [Conns -> 0..MaxRequests]
  /\ retries \in [Conns -> 0..MaxRetries]
  /\ raced \subseteq Conns /\ late \subseteq Conns

\* Start has returned: its goroutine may not have run yet.
Init ==
  /\ loop = "spawned" /\ started = FALSE /\ down = FALSE /\ stop = "none"
  /\ pc = [c \in Conns |-> "idle"]
  /\ peer = {} /\ open = {} /\ clients = {} /\ pinging = {}
  /\ asked = [c \in Conns |-> 0] /\ answered = [c \in Conns |-> 0]
  /\ retries = [c \in Conns |-> 0]
  /\ raced = {} /\ late = {}

-----------------------------------------------------------------------------
\* The goroutine of Start.

MarkStarted ==
  /\ loop = "spawned"
  /\ loop' = "running" /\ started' = TRUE
  /\ UNCHANGED <<down, stop, pc, sockets, requests, raced, late>>

\* Mutant: it does not know of an earlier Shutdown.
ListenAnyway ==
  /\ loop = "running"
  /\ loop' \in {"serving", "ended"}
  /\ UNCHANGED <<started, down, stop, pc, sockets, requests, raced, late>>

\* ListenAndServe refuses after Shutdown; the address may also be taken.
ListenAndServe ==
  /\ loop = "running"
  /\ \/ ~down /\ loop' = "serving"
     \/ loop' = "ended"
  /\ UNCHANGED <<started, down, stop, pc, sockets, requests, raced, late>>

ServeReturns ==
  /\ loop = "closing"
  /\ loop' = "ended"
  /\ UNCHANGED <<started, down, stop, pc, sockets, requests, raced, late>>

-----------------------------------------------------------------------------
\* Stop.

\* Mutant: the clients are forgotten before they are closed.
StopForgets ==
  /\ stop = "none" /\ started
  /\ stop' = "swept" /\ clients' = {}
  /\ late' = Handshaking
  /\ UNCHANGED <<loop, started, down, pc, peer, open, pinging, requests, raced>>

\* It closes what is in clients and forgets it, in one critical section.
StopSweeps ==
  /\ stop = "none"
  /\ IF started
     THEN /\ stop' = "swept"
          /\ open' = open \ clients /\ peer' = peer \ clients
          /\ clients' = {}
          /\ late' = Handshaking
     ELSE stop' = "ignored" /\ UNCHANGED <<open, peer, clients, late>>
  /\ UNCHANGED <<loop, started, down, pc, pinging, requests, raced>>

\* Closes the listener; the goroutine of Start notices, or never listens.
ShutdownHttp ==
  /\ stop = "swept"
  /\ stop' = "draining" /\ down' = TRUE
  /\ loop' = IF loop = "serving" THEN "closing" ELSE loop
  /\ UNCHANGED <<started, pc, sockets, requests, raced, late>>

\* Mutant: Stop waits for every handler.
DrainedOfAll ==
  /\ stop = "draining" /\ \A c \in Conns : pc[c] \notin Served
  /\ stop' = "waiting"
  /\ UNCHANGED <<loop, started, down, pc, sockets, requests, raced, late>>

\* Shutdown waits for the connections that are still HTTP, at most
\* shutdownTimeout; an upgraded one is not its concern any more.
Drained ==
  /\ stop = "draining"
  /\ stop' = "waiting"
  /\ UNCHANGED <<loop, started, down, pc, sockets, requests, raced, late>>

StopReturns ==
  /\ stop = "waiting" /\ loop = "ended"
  /\ stop' = "done" /\ started' = FALSE
  /\ UNCHANGED <<loop, down, pc, sockets, requests, raced, late>>

-----------------------------------------------------------------------------
\* Clients.

Dial(c) ==
  /\ pc[c] = "idle" /\ loop = "serving"
  /\ pc' = [pc EXCEPT ![c] = "accepted"]
  /\ peer' = peer \cup {c}
  /\ late' = IF stop = "swept" THEN late \cup {c} ELSE late
  /\ UNCHANGED <<server, open, clients, pinging, requests, raced>>

Send(c) ==
  /\ c \in peer \cap open /\ asked[c] < MaxRequests
  /\ asked' = [asked EXCEPT ![c] = @ + 1]
  /\ UNCHANGED <<server, pc, sockets, answered, retries, raced, late>>

HangUp(c) ==
  /\ c \in peer \cap open
  /\ peer' = peer \ {c}
  /\ UNCHANGED <<server, pc, open, clients, pinging, requests, raced, late>>

-----------------------------------------------------------------------------
\* handleWebSocket.

\* Mutant: one client too many.
HasRoomAtLimit == Cardinality(clients) <= MaxClients

HasRoom == Cardinality(clients) < MaxClients

\* The token is right (or none is set) and there is room; the count is
\* taken under clientsLock, which is released again.
Admit(c) ==
  /\ pc[c] = "accepted" /\ HasRoom
  /\ pc' = [pc EXCEPT ![c] = "admitted"]
  /\ raced' = IF Entering = {} THEN raced ELSE raced \cup {c}
  /\ UNCHANGED <<server, sockets, requests, late>>

\* Unauthorized, too many connections, or the upgrade fails: a foreign
\* origin (checkOriginFunc), or the client is gone.
Refuse(c) ==
  /\ pc[c] \in {"accepted", "admitted"}
  /\ pc' = [pc EXCEPT ![c] = "gone"]
  /\ peer' = peer \ {c} /\ raced' = raced \ {c}
  /\ UNCHANGED <<server, open, clients, pinging, requests, late>>

Upgrade(c) ==
  /\ pc[c] = "admitted"
  /\ pc' = [pc EXCEPT ![c] = "upgraded"]
  /\ open' = open \cup {c}
  /\ UNCHANGED <<server, peer, clients, pinging, requests, raced, late>>

\* Registers the client, greets it and starts its pinger.
Register(c) ==
  /\ pc[c] = "upgraded"
  /\ pc' = [pc EXCEPT ![c] = "serving"]
  /\ clients' = clients \cup {c}
  /\ pinging' = pinging \cup {c}
  /\ UNCHANGED <<server, peer, open, requests, raced, late>>

\* ReadMessage returned start-recording or stop-recording.
ReadCommand(c, kind) ==
  /\ pc[c] = "serving" /\ c \in open /\ answered[c] < asked[c]
  /\ pc' = [pc EXCEPT ![c] = kind]
  /\ UNCHANGED <<server, sockets, requests, raced, late>>

Answered(c) == answered' = [answered EXCEPT ![c] = @ + 1]

\* ping, an unknown type, or JSON that does not parse.
ReadOther(c) ==
  /\ pc[c] = "serving" /\ c \in open /\ answered[c] < asked[c]
  /\ Answered(c)
  /\ UNCHANGED <<server, pc, sockets, asked, retries, raced, late>>

\* executeWithRetry around HandleStartRecording, then the reply.  An
\* attempt that fails is repeated after a pause while there are retries.
StartEnds(c) ==
  /\ pc[c] = "start"
  /\ \/ retries' = [retries EXCEPT ![c] = 0]
        /\ pc' = [pc EXCEPT ![c] = "serving"]
        /\ Answered(c)
     \/ retries[c] < MaxRetries
        /\ retries' = [retries EXCEPT ![c] = @ + 1]
        /\ UNCHANGED <<pc, answered>>
  /\ UNCHANGED <<server, sockets, asked, raced, late>>

\* HandleStopRecordingSync returns within transcriptionCtxTimeout; the
\* client gets the transcript or an error.
StopEnds(c) ==
  /\ pc[c] = "stop"
  /\ pc' = [pc EXCEPT ![c] = "serving"]
  /\ Answered(c)
  /\ UNCHANGED <<server, sockets, asked, retries, raced, late>>

\* ReadMessage fails: closed by Stop or by the client, or past its
\* deadline; the deferred function closes the socket ...
ReadFails(c) ==
  /\ pc[c] = "serving"
  /\ pc' = [pc EXCEPT ![c] = "leaving"]
  /\ open' = open \ {c} /\ peer' = peer \ {c}
  /\ UNCHANGED <<server, clients, pinging, requests, raced, late>>

\* Mutant: the entry in clients stays.
UnregisterForgets(c) ==
  /\ pc[c] = "leaving"
  /\ pc' = [pc EXCEPT ![c] = "gone"]
  /\ retries' = [retries EXCEPT ![c] = 0]
  /\ asked' = [asked EXCEPT ![c] = 0] /\ answered' = [answered EXCEPT ![c] = 0]
  /\ UNCHANGED <<server, sockets, raced, late>>

\* ... and then removes the client and its retry count.
Unregister(c) ==
  /\ pc[c] = "leaving"
  /\ pc' = [pc EXCEPT ![c] = "gone"]
  /\ clients' = clients \ {c}
  /\ retries' = [retries EXCEPT ![c] = 0]
  /\ asked' = [asked EXCEPT ![c] = 0] /\ answered' = [answered EXCEPT ![c] = 0]
  /\ raced' = raced \ {c}
  /\ UNCHANGED <<server, peer, open, pinging, late>>

\* A ping cannot be written any more.
PingFails(c) ==
  /\ c \in pinging /\ c \notin peer
  /\ pinging' = pinging \ {c}
  /\ UNCHANGED <<server, pc, peer, open, clients, requests, raced, late>>

-----------------------------------------------------------------------------
Serving == MarkStarted \/ ListenAndServe \/ ServeReturns
StopRuns == ShutdownHttp \/ Drained \/ StopReturns
Client(c) == Dial(c) \/ Send(c) \/ HangUp(c)
\* What a handler goroutine does next without waiting for its client.
HandlerRuns(c) ==
  \/ Admit(c) \/ Refuse(c) \/ Upgrade(c) \/ Register(c)
  \/ \E kind \in Handling : ReadCommand(c, kind)
  \/ ReadOther(c) \/ StartEnds(c) \/ StopEnds(c) \/ Unregister(c)
  \/ c \notin peer /\ ReadFails(c)

Next ==
  \/ Serving \/ StopSweeps \/ StopRuns
  \/ \E c \in Conns : Client(c) \/ HandlerRuns(c) \/ ReadFails(c) \/ PingFails(c)

Spec == Init /\ [][Next]_vars

\* Goroutines run, calls of the audio service return (CallsReturn of
\* AudioService), a running Stop goes on.  Whether clients do anything and
\* whether Stop is called is left open.
Fairness ==
  /\ WF_vars(Serving) /\ WF_vars(StopRuns)
  /\ \A c \in Conns : WF_vars(HandlerRuns(c)) /\ WF_vars(PingFails(c))

FairSpec == Spec /\ Fairness

-----------------------------------------------------------------------------
(* The limit: the count is checked in one critical section and the client  *)
(* added in another, so concurrent handshakes may exceed MaxClients; the   *)
(* clients that were alone in their handshake never do.                    *)
LimitUnlessRaced == Cardinality(clients \ raced) <= MaxClients

(* server.go:246, "Stop() closes all connections": it closes those that    *)
(* are registered.  What stays open was on its way in when Stop went       *)
(* through the clients, or was dialed after that and before Shutdown.      *)
OnlyLateStayOpen == stop \notin {"none", "ignored"} => open \subseteq late

(* Once Stop has shut the HTTP server down no connection is accepted any   *)
(* more, whichever of Shutdown and ListenAndServe comes first.             *)
NoneAfterShutdown ==
  [][down => \A c \in Conns : pc[c] = "idle" => pc'[c] = "idle"]_vars

(* A connection whose client has hung up, or that was closed, leaves       *)
(* neither an entry in clients nor a handler or a pinger behind.           *)
ConnectionsEnd ==
  \A c \in Conns :
    (pc[c] \in Served /\ c \notin peer)
      ~> (pc[c] = "gone" /\ c \notin clients \cup open \cup pinging)

(* A call of Stop returns.                                                 *)
StopTerminates == (stop = "swept") ~> (stop = "done")
=============================================================================
