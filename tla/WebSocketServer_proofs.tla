------------------------ MODULE WebSocketServer_proofs ------------------------
(***************************************************************************)
(* Theorems about WebSocketServer, for every set of connections, limit,    *)
(* number of retries and number of requests.                               *)
(***************************************************************************)
EXTENDS WebSocketServer, FiniteSetTheorems, TLAPS

\* Requests are answered in order, and one that is being carried out is not
\* answered yet.
RequestInv ==
  \A c \in Conns :
    /\ answered[c] <= asked[c]
    /\ pc[c] \in Handling => answered[c] < asked[c]

\* Where a handler is tells whether its socket is open and registered.
PlaceInv ==
  \A c \in Conns :
    /\ c \in open => pc[c] \in {"upgraded"} \cup Served
    /\ c \in clients => pc[c] \in Served \cup {"leaving"}
    /\ stop = "none" /\ pc[c] \in Served => c \in clients

\* After Stop went through the clients: who is not registered yet is late.
SweptInv ==
  stop \notin {"none", "ignored"} => open \cup Handshaking \subseteq late

\* A server that was shut down does not serve, and Stop shuts it down.
DownInv ==
  /\ down => loop # "serving"
  /\ stop \in {"draining", "waiting", "done"} => down

\* The clients on their way count as well, but for those that were not
\* alone in their handshake.
Counted == (clients \cup Entering) \ raced
LimitInv == Cardinality(Counted) <= MaxClients

ServerInv == TypeOK /\ RequestInv /\ PlaceInv /\ SweptInv /\ DownInv

USE DEF vars, server, sockets, requests, Served, Handling, Handshaking

(***************************************************************************)
(* Types, places, and what Stop leaves open                                *)
(***************************************************************************)

\* The goroutine of Start and Stop.
LEMMA ServerStep ==
  ASSUME ServerInv, Serving \/ StopSweeps \/ StopRuns
  PROVE  ServerInv'
<1>. USE DEF ServerInv, TypeOK
<1>1. CASE Serving
  <2>. USE <1>1 DEF Serving, MarkStarted, ListenAndServe, ServeReturns
  <2>1. TypeOK'
    OBVIOUS
  <2>2. RequestInv' /\ PlaceInv'
    BY DEF RequestInv, PlaceInv
  <2>3. SweptInv' /\ DownInv'
    BY DEF SweptInv, DownInv
  <2>. QED  BY <2>1, <2>2, <2>3
<1>2. CASE StopSweeps
  <2>1. TypeOK' /\ RequestInv' /\ DownInv'
    BY <1>2 DEF StopSweeps, RequestInv, DownInv
  <2>2. PlaceInv'
    BY <1>2 DEF StopSweeps, PlaceInv
  <2>3. SweptInv'
    BY <1>2 DEF StopSweeps, PlaceInv, SweptInv
  <2>. QED  BY <2>1, <2>2, <2>3
<1>3. CASE StopRuns
  <2>. USE <1>3 DEF StopRuns, ShutdownHttp, Drained, StopReturns
  <2>1. TypeOK'
    OBVIOUS
  <2>2. RequestInv' /\ PlaceInv'
    BY DEF RequestInv, PlaceInv
  <2>3. SweptInv' /\ DownInv'
    BY DEF SweptInv, DownInv
  <2>. QED  BY <2>1, <2>2, <2>3
<1>. QED  BY <1>1, <1>2, <1>3

\* A client, and the pinger of its connection.
LEMMA ClientStep ==
  ASSUME ServerInv, NEW c \in Conns, Client(c) \/ PingFails(c)
  PROVE  ServerInv'
<1>. USE BoundsAreNatural DEF ServerInv, TypeOK
<1>1. CASE Send(c)
  <2>1. TypeOK'
    BY <1>1 DEF Send
  <2>2. RequestInv'
    BY <1>1 DEF Send, RequestInv
  <2>3. PlaceInv' /\ SweptInv' /\ DownInv'
    BY <1>1 DEF Send, PlaceInv, SweptInv, DownInv
  <2>. QED  BY <2>1, <2>2, <2>3
<1>2. CASE Dial(c) \/ HangUp(c) \/ PingFails(c)
  <2>1. TypeOK'
    BY <1>2 DEF Dial, HangUp, PingFails
  <2>2. RequestInv' /\ DownInv'
    BY <1>2 DEF Dial, HangUp, PingFails, RequestInv, DownInv
  <2>3. PlaceInv' /\ SweptInv'
    BY <1>2 DEF Dial, HangUp, PingFails, PlaceInv, SweptInv, DownInv
  <2>. QED  BY <2>1, <2>2, <2>3
<1>. QED  BY <1>1, <1>2 DEF Client

\* A handler that is let in, or not.
LEMMA HandshakeStep ==
  ASSUME ServerInv, NEW c \in Conns, Admit(c) \/ Refuse(c) \/ Upgrade(c) \/ Register(c)
  PROVE  ServerInv'
<1>. USE DEF ServerInv, TypeOK, Admit, Refuse, Upgrade, Register
<1>1. TypeOK'
  OBVIOUS
<1>2. RequestInv' /\ DownInv'
  BY DEF RequestInv, DownInv
<1>3. PlaceInv'
  BY DEF PlaceInv
<1>4. SweptInv'
  BY DEF SweptInv
<1>. QED  BY <1>1, <1>2, <1>3, <1>4

\* A handler at its messages.
LEMMA MessageStep ==
  ASSUME ServerInv, NEW c \in Conns,
         (\E kind \in Handling : ReadCommand(c, kind)) \/ ReadOther(c) \/ StartEnds(c) \/ StopEnds(c)
  PROVE  ServerInv'
<1>. USE BoundsAreNatural DEF ServerInv, TypeOK, ReadCommand, ReadOther, StartEnds, StopEnds, Answered
<1>1. answered[c] \in Nat /\ asked[c] \in Nat /\ asked[c] <= MaxRequests /\ answered[c] < asked[c]
  BY DEF RequestInv
<1>2. TypeOK'
  BY <1>1
<1>3. RequestInv'
  BY <1>1 DEF RequestInv
<1>4. PlaceInv' /\ SweptInv' /\ DownInv'
  BY DEF PlaceInv, SweptInv, DownInv
<1>. QED  BY <1>2, <1>3, <1>4

\* A handler that ends.
LEMMA LeaveStep ==
  ASSUME ServerInv, NEW c \in Conns, ReadFails(c) \/ Unregister(c)
  PROVE  ServerInv'
<1>. USE BoundsAreNatural DEF ServerInv, TypeOK, ReadFails, Unregister
<1>1. TypeOK'
  OBVIOUS
<1>2. RequestInv'
  BY DEF RequestInv
<1>3. PlaceInv' /\ SweptInv' /\ DownInv'
  BY DEF PlaceInv, SweptInv, DownInv
<1>. QED  BY <1>1, <1>2, <1>3

\* The server's invariant is inductive.
LEMMA ServerInvStep == ServerInv /\ [Next]_vars => ServerInv'
<1>1. ASSUME ServerInv, UNCHANGED vars
      PROVE  ServerInv'
  <2>1. TypeOK' /\ DownInv'
    BY <1>1 DEF ServerInv, TypeOK, DownInv
  <2>2. RequestInv' /\ PlaceInv'
    BY <1>1 DEF ServerInv, RequestInv, PlaceInv
  <2>3. SweptInv'
    BY <1>1 DEF ServerInv, SweptInv
  <2>. QED  BY <2>1, <2>2, <2>3 DEF ServerInv
<1>. QED  BY <1>1, ServerStep, ClientStep, HandshakeStep, MessageStep, LeaveStep
          DEF Next, HandlerRuns

LEMMA ServerInvStart == Init => ServerInv
<1>. SUFFICES ASSUME Init
              PROVE  ServerInv
  OBVIOUS
<1>1. TypeOK
  <2>1. 0 \in 0..MaxRequests /\ 0 \in 0..MaxRetries
    BY BoundsAreNatural
  <2>2. /\ asked \in [Conns -> 0..MaxRequests] /\ answered \in [Conns -> 0..MaxRequests]
        /\ retries \in [Conns -> 0..MaxRetries]
    BY <2>1 DEF Init
  <2>. QED  BY <2>2 DEF Init, TypeOK
<1>2. RequestInv /\ PlaceInv
  BY DEF Init, RequestInv, PlaceInv
<1>3. SweptInv /\ DownInv
  BY DEF Init, SweptInv, DownInv
<1>. QED  BY <1>1, <1>2, <1>3 DEF ServerInv

LEMMA ServerInvHolds == Spec => []ServerInv
  BY ServerInvStart, ServerInvStep, PTL DEF Spec

\* Every variable keeps its type: no request is answered twice, no retry goes
\* beyond maxRetries (retry_manager.go).
THEOREM ServerTypes == Spec => []TypeOK
<1>1. ServerInv => TypeOK
  BY DEF ServerInv
<1>. QED  BY <1>1, ServerInvHolds, PTL

\* Once Stop went through the clients, a socket that is open belongs to a
\* connection that was in its handshake then, or that was dialed before the
\* Shutdown that follows: Stop leaves no registered one open and lets none in
\* after Shutdown (server.go:172).
THEOREM OpenAreLate == Spec => []OnlyLateStayOpen
<1>1. ServerInv => OnlyLateStayOpen
  BY DEF ServerInv, SweptInv, OnlyLateStayOpen
<1>. QED  BY <1>1, ServerInvHolds, PTL

\* No connection is accepted after the HTTP server was shut down, whichever
\* of ListenAndServe and Shutdown comes first (server.go:158).
THEOREM ShutdownIsFinal == Spec => NoneAfterShutdown
<1>1. ServerInv /\ [Next]_vars
        => [down => \A c \in Conns : pc[c] = "idle" => pc'[c] = "idle"]_vars
  <2>. SUFFICES ASSUME ServerInv, Next, down, NEW c \in Conns, pc[c] = "idle"
                PROVE  pc'[c] = "idle"
    OBVIOUS
  <2>1. CASE Serving \/ StopSweeps \/ StopRuns
    BY <2>1 DEF Serving, MarkStarted, ListenAndServe, ServeReturns, StopSweeps, StopRuns,
                ShutdownHttp, Drained, StopReturns
  <2>2. ASSUME NEW d \in Conns, Client(d) \/ HandlerRuns(d) \/ ReadFails(d) \/ PingFails(d)
        PROVE  pc'[c] = "idle"
    <3>1. ~Dial(d)
      BY DEF ServerInv, DownInv, Dial
    <3>2. CASE Send(d) \/ HangUp(d) \/ PingFails(d) \/ ReadOther(d)
      BY <3>2 DEF Send, HangUp, PingFails, ReadOther
    <3>3. CASE Admit(d) \/ Refuse(d) \/ Upgrade(d) \/ Register(d)
      BY <3>3 DEF ServerInv, TypeOK, Admit, Refuse, Upgrade, Register
    <3>4. CASE (\E kind \in Handling : ReadCommand(d, kind)) \/ StopEnds(d)
               \/ Unregister(d) \/ ReadFails(d)
      BY <3>4 DEF ServerInv, TypeOK, ReadCommand, StopEnds, Unregister, ReadFails
    <3>5. CASE StartEnds(d)
      BY <3>5 DEF ServerInv, TypeOK, StartEnds
    <3>. QED  BY <2>2, <3>1, <3>2, <3>3, <3>4, <3>5 DEF Client, HandlerRuns
  <2>. QED  BY <2>1, <2>2 DEF Next
<1>. QED  BY <1>1, ServerInvHolds, PTL DEF Spec, NoneAfterShutdown

(***************************************************************************)
(* The limit                                                               *)
(***************************************************************************)

\* Sets of connections are finite and count monotonically.
LEMMA CountMonotone ==
  ASSUME NEW S \in SUBSET Conns, NEW T \in SUBSET S
  PROVE  IsFiniteSet(S) /\ Cardinality(T) \in Nat /\ Cardinality(S) \in Nat
         /\ Cardinality(T) <= Cardinality(S)
<1>1. IsFiniteSet(S)
  BY ConnsFinite, FS_Subset
<1>2. IsFiniteSet(T) /\ Cardinality(T) <= Cardinality(S)
  BY <1>1, FS_Subset
<1>. QED  BY <1>1, <1>2, FS_CardinalityType

\* Whatever does not let somebody in adds nobody to the count.
LEMMA CountShrinks ==
  ASSUME TypeOK, LimitInv, Counted' \subseteq Counted
  PROVE  LimitInv'
<1>1. Counted \in SUBSET Conns
  BY DEF TypeOK, Counted, Entering
<1>2. Cardinality(Counted') \in Nat /\ Cardinality(Counted) \in Nat
      /\ Cardinality(Counted') <= Cardinality(Counted)
  BY <1>1, CountMonotone
<1>. QED  BY <1>2, LimitOn DEF LimitInv

\* A client that is let in found room; it only counts if nobody else was on
\* the way.
LEMMA AdmitCounts ==
  ASSUME TypeOK, LimitInv, NEW c \in Conns, Admit(c)
  PROVE  LimitInv'
<1>. USE DEF TypeOK
<1>1. Entering' = Entering \cup {c}
  BY DEF Admit, Entering
<1>2. CASE Entering # {}
  <2>1. Counted' \subseteq Counted
    BY <1>1, <1>2 DEF Admit, Counted
  <2>. QED  BY <2>1, CountShrinks
<1>3. CASE Entering = {}
  <2>1. IsFiniteSet(clients) /\ Cardinality(clients) \in Nat
    BY CountMonotone
  <2>2. Cardinality(clients \cup {c}) <= MaxClients
    <3>1. Cardinality(clients \cup {c})
            = IF c \in clients THEN Cardinality(clients) ELSE Cardinality(clients) + 1
      BY <2>1, FS_AddElement, Zenon
    <3>2. Cardinality(clients) < MaxClients
      BY DEF Admit, HasRoom
    <3>. QED  BY <2>1, <3>1, <3>2, LimitOn
  <2>3. Counted' \subseteq clients \cup {c}
    BY <1>1, <1>3 DEF Admit, Counted
  <2>4. /\ Cardinality(Counted') \in Nat /\ Cardinality(clients \cup {c}) \in Nat
        /\ Cardinality(Counted') <= Cardinality(clients \cup {c})
    BY <2>3, CountMonotone
  <2>. QED  BY <2>2, <2>4, LimitOn DEF LimitInv
<1>. QED  BY <1>2, <1>3

\* All other steps let nobody in.
LEMMA NobodyEnters ==
  ASSUME ServerInv, [Next]_vars, \A c \in Conns : ~Admit(c)
  PROVE  Counted' \subseteq Counted
<1>. USE DEF ServerInv, TypeOK, Counted, Entering
<1>1. CASE UNCHANGED vars
  BY <1>1
<1>2. CASE Serving \/ StopSweeps \/ StopRuns
  BY <1>2 DEF Serving, MarkStarted, ListenAndServe, ServeReturns, StopSweeps, StopRuns,
              ShutdownHttp, Drained, StopReturns
<1>3. ASSUME NEW c \in Conns, Client(c) \/ HandlerRuns(c) \/ ReadFails(c) \/ PingFails(c)
      PROVE  Counted' \subseteq Counted
  <2>1. CASE Client(c) \/ ReadFails(c) \/ PingFails(c)
    BY <2>1 DEF Client, Dial, Send, HangUp, ReadFails, PingFails
  <2>2. CASE Refuse(c) \/ Unregister(c)
    BY <2>2 DEF Refuse, Unregister, PlaceInv
  <2>3. CASE Upgrade(c) \/ Register(c)
    BY <2>3 DEF Upgrade, Register
  <2>4. CASE (\E kind \in Handling : ReadCommand(c, kind)) \/ ReadOther(c) \/ StartEnds(c) \/ StopEnds(c)
    BY <2>4 DEF ReadCommand, ReadOther, StartEnds, StopEnds
  <2>. QED  BY <1>3, <2>1, <2>2, <2>3, <2>4 DEF HandlerRuns
<1>. QED  BY <1>1, <1>2, <1>3 DEF Next

\* The clients that were alone in their handshake keep to MaxClients, for
\* any limit and any number of connections (server.go:205, :230).
THEOREM LimitHolds == Spec => []LimitUnlessRaced
<1>1. Init => LimitInv
  <2>1. Init => Counted = {}
    BY DEF Init, Counted, Entering
  <2>. QED  BY <2>1, FS_EmptySet, LimitOn DEF LimitInv
<1>2. ServerInv /\ LimitInv /\ [Next]_vars => LimitInv'
  BY NobodyEnters, CountShrinks, AdmitCounts DEF ServerInv
<1>3. ServerInv /\ LimitInv => LimitUnlessRaced
  <2>. SUFFICES ASSUME ServerInv, LimitInv
                PROVE  LimitUnlessRaced
    OBVIOUS
  <2>1. Counted \in SUBSET Conns /\ clients \ raced \in SUBSET Counted
    BY DEF ServerInv, TypeOK, Counted, Entering
  <2>2. /\ Cardinality(clients \ raced) \in Nat /\ Cardinality(Counted) \in Nat
        /\ Cardinality(clients \ raced) <= Cardinality(Counted)
    BY <2>1, CountMonotone
  <2>. QED  BY <2>2, LimitOn DEF LimitInv, LimitUnlessRaced
<1>. QED  BY <1>1, <1>2, <1>3, ServerInvHolds, PTL DEF Spec
=============================================================================
