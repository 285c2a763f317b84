----------------------------- MODULE GatewayHub -----------------------------
(***************************************************************************)
(* The gateway's fan-out (src/backend/gateway/main.go): one Kafka consumer *)
(* goroutine per feed stores each payload in the state cache and broadcasts*)
(* it through the hub; each WebSocket connection has a handler goroutine,  *)
(* which registers the connection and queues the cached state, and a write *)
(* pump goroutine, which drains the connection's bounded queue.            *)
(*                                                                         *)
(* A payload is the version number of its feed: the n-th payload a         *)
(* consumer accepted. Every critical section of hub.mu is one action. The  *)
(* read lock of the cache is held over several steps of sendAll, so        *)
(* broadcasts may interleave with it while stateCache.set may not.         *)
(* The metrics are left out.                                               *)
(***************************************************************************)
EXTENDS Naturals, Sequences, FiniteSets

CONSTANTS
    Clients,  \* connections; a reconnecting viewer is another element
    QueueCap, \* capacity of client.send (64 in the code)
    Updates   \* Updates[f]: payloads consumer f receives (bounds a run)

Feeds == {"satellites", "conjunctions", "spaceWeather"}

ASSUME QueueCapAssumption == QueueCap \in Nat \ {0}
ASSUME UpdatesAssumption == Updates \in [Feeds -> Nat]

VARIABLES
    cache,   \* stateCache: version stored per feed, 0 for a nil payload
    cpc,     \* control of the consumer goroutine of each feed
    held,    \* version the consumer of each feed is handling or handled last
    slow,    \* local `slow` of broadcast: evicted, socket not yet closed
    hub,     \* hub.clients
    send,    \* buffered messages of client.send
    closes,  \* how often client.send was closed
    conn,    \* socket: "none", "open", "dead" (peer gone), "closed"
    hpc,     \* control of the handler goroutine
    ppc,     \* control of the write pump goroutine
    writing, \* message the write pump is writing
    seen     \* seen[c][f]: version of f last written to the peer of c

vars == <<cache, cpc, held, slow, hub, send, closes, conn, hpc, ppc, writing, seen>>
consumerVars == <<cache, cpc, held, slow>>
pumpVars == <<ppc, writing, seen>>

Hello == [kind |-> "connected", ver |-> 0]
Message(f, v) == [kind |-> f, ver |-> v]
Messages == [kind : Feeds \cup {"connected"}, ver : Nat]

Init ==
    /\ cache = [f \in Feeds |-> 0]
    /\ cpc = [f \in Feeds |-> "read"]
    /\ held = [f \in Feeds |-> 0]
    /\ slow = [f \in Feeds |-> {}]
    /\ hub = {}
    /\ send = [c \in Clients |-> <<>>]
    /\ closes = [c \in Clients |-> 0]
    /\ conn = [c \in Clients |-> "none"]
    /\ hpc = [c \in Clients |-> "none"]
    /\ ppc = [c \in Clients |-> "none"]
    /\ writing = [c \in Clients |-> Hello]
    /\ seen = [c \in Clients |-> [f \in Feeds |-> 0]]

Full(c) == Len(send[c]) >= QueueCap

-----------------------------------------------------------------------------
(* consumeAndBroadcast, one goroutine per feed.                            *)

ReadMessage(f) ==
    /\ cpc[f] = "read"
    /\ held[f] < Updates[f]
    /\ held' = [held EXCEPT ![f] = @ + 1]
    /\ cpc' = [cpc EXCEPT ![f] = "set"]
    /\ UNCHANGED <<cache, slow, hub, send, closes, conn, hpc, pumpVars>>

\* The handlers inside sendAll: they hold the cache's read lock from the
\* first feed they queue to the last.
CacheReaders == {c \in Clients : hpc[c] \in {"conjunctions", "spaceWeather"}}

\* Variant: the cache keeps the first payload it was given.
CacheSetOnce(f) ==
    /\ cpc[f] = "set"
    /\ CacheReaders = {}
    /\ cache' = [cache EXCEPT ![f] = IF @ = 0 THEN held[f] ELSE @]
    /\ cpc' = [cpc EXCEPT ![f] = "broadcast"]
    /\ UNCHANGED <<held, slow, hub, send, closes, conn, hpc, pumpVars>>

CacheSet(f) ==
    /\ cpc[f] = "set"
    /\ CacheReaders = {}
    /\ cache' = [cache EXCEPT ![f] = held[f]]
    /\ cpc' = [cpc EXCEPT ![f] = "broadcast"]
    /\ UNCHANGED <<held, slow, hub, send, closes, conn, hpc, pumpVars>>

\* Variant: a full queue silently loses the payload.
BroadcastDropping(f) ==
    /\ cpc[f] = "broadcast"
    /\ send' = [c \in Clients |->
                   IF c \in hub /\ ~Full(c)
                   THEN Append(send[c], Message(f, held[f]))
                   ELSE send[c]]
    /\ cpc' = [cpc EXCEPT ![f] = "read"]
    /\ UNCHANGED <<cache, held, slow, hub, closes, conn, hpc, pumpVars>>

\* Under hub.mu: queue the payload for everyone but the lagging clients, which
\* are removed and their channels closed; afterwards close sockets in turn.
BroadcastEvicting(f, lagging, closing) ==
    /\ cpc[f] = "broadcast"
    /\ send' = [c \in Clients |->
                   IF c \in hub \ lagging
                   THEN Append(send[c], Message(f, held[f]))
                   ELSE send[c]]
    /\ hub' = hub \ lagging
    /\ closes' = [c \in Clients |-> IF c \in lagging THEN closes[c] + 1 ELSE closes[c]]
    /\ slow' = [slow EXCEPT ![f] = closing]
    /\ cpc' = [cpc EXCEPT ![f] = IF closing = {} THEN "read" ELSE "closeSlow"]
    /\ UNCHANGED <<cache, held, conn, hpc, pumpVars>>

\* select { case c.send <- data: default: } evicts whoever has a full queue.
Broadcast(f) ==
    LET lagging == {c \in hub : Full(c)}
    IN  BroadcastEvicting(f, lagging, lagging)

\* After the unlock, the sockets of the evicted clients are closed in turn.
CloseSlow(f, c) ==
    /\ cpc[f] = "closeSlow"
    /\ c \in slow[f]
    /\ conn' = [conn EXCEPT ![c] = "closed"]
    /\ slow' = [slow EXCEPT ![f] = @ \ {c}]
    /\ cpc' = [cpc EXCEPT ![f] = IF slow[f] = {c} THEN "read" ELSE @]
    /\ UNCHANGED <<cache, held, hub, send, closes, hpc, pumpVars>>

-----------------------------------------------------------------------------
(* wsHandler, the goroutine of the HTTP request.                           *)

Register(c) ==
    /\ hpc[c] = "none"
    /\ hub' = hub \cup {c}
    /\ conn' = [conn EXCEPT ![c] = "open"]
    /\ hpc' = [hpc EXCEPT ![c] = "hello"]
    /\ UNCHANGED <<consumerVars, send, closes, pumpVars>>

\* select { case c.send <- m: default: } in the handler: a full queue drops m,
\* and a send on a channel that broadcast already closed panics. net/http
\* recovers the panic, which ends the handler before it starts the pump.
TrySend(c, m, next) ==
    IF closes[c] > 0
    THEN /\ hpc' = [hpc EXCEPT ![c] = "panicked"]
         /\ UNCHANGED send
    ELSE /\ hpc' = [hpc EXCEPT ![c] = next]
         /\ send' = IF Full(c) THEN send ELSE [send EXCEPT ![c] = Append(@, m)]

\* Variant: the cached state is not sent.
SendHelloOnly(c) ==
    /\ hpc[c] = "hello"
    /\ TrySend(c, Hello, "startPump")
    /\ UNCHANGED <<consumerVars, hub, closes, conn, pumpVars>>

SendHello(c) ==
    /\ hpc[c] = "hello"
    /\ TrySend(c, Hello, "satellites")
    /\ UNCHANGED <<consumerVars, hub, closes, conn, pumpVars>>

\* sendAll queues the feeds in this order and skips those never received.
AfterFeed ==
    [satellites |-> "conjunctions", conjunctions |-> "spaceWeather", spaceWeather |-> "startPump"]

SendCached(c) ==
    /\ hpc[c] \in Feeds
    /\ IF cache[hpc[c]] = 0
       THEN /\ hpc' = [hpc EXCEPT ![c] = AfterFeed[@]]
            /\ UNCHANGED send
       ELSE TrySend(c, Message(hpc[c], cache[hpc[c]]), AfterFeed[hpc[c]])
    /\ UNCHANGED <<consumerVars, hub, closes, conn, pumpVars>>

StartPump(c) ==
    /\ hpc[c] = "startPump"
    /\ hpc' = [hpc EXCEPT ![c] = "reading"]
    /\ ppc' = [ppc EXCEPT ![c] = "select"]
    /\ UNCHANGED <<consumerVars, hub, send, closes, conn, writing, seen>>

\* The read pump ends on a read error or the 60 s read deadline. It neither
\* unregisters the client nor closes the socket: only the write pump does.
ReadEnds(c) ==
    /\ hpc[c] = "reading"
    /\ hpc' = [hpc EXCEPT ![c] = "returned"]
    /\ UNCHANGED <<consumerVars, hub, send, closes, conn, pumpVars>>

-----------------------------------------------------------------------------
(* The write pump goroutine.                                               *)

Dequeue(c) ==
    /\ ppc[c] = "select"
    /\ send[c] # <<>>
    /\ writing' = [writing EXCEPT ![c] = Head(send[c])]
    /\ send' = [send EXCEPT ![c] = Tail(@)]
    /\ ppc' = [ppc EXCEPT ![c] = "write"]
    /\ UNCHANGED <<consumerVars, hub, closes, conn, hpc, seen>>

WriteDone(c) ==
    /\ ppc[c] = "write"
    /\ conn[c] = "open"
    /\ seen' = IF writing[c].kind \in Feeds
               THEN [seen EXCEPT ![c][writing[c].kind] = writing[c].ver]
               ELSE seen
    /\ ppc' = [ppc EXCEPT ![c] = "select"]
    /\ writing' = [writing EXCEPT ![c] = Hello]
    /\ UNCHANGED <<consumerVars, hub, send, closes, conn, hpc>>

\* The write fails on a closed socket, or within the 10 s write deadline when
\* the peer no longer takes data.
WriteFails(c) ==
    /\ ppc[c] = "write"
    /\ conn[c] # "open"
    /\ ppc' = [ppc EXCEPT ![c] = "unregister"]
    /\ writing' = [writing EXCEPT ![c] = Hello]
    /\ UNCHANGED <<consumerVars, hub, send, closes, conn, hpc, seen>>

\* Variant: no keepalive, a dead peer is found by the next payload only.
NoKeepalive(c) ==
    /\ ppc[c] = "ping"
    /\ UNCHANGED vars

\* The 30 s keepalive; a ping the peer takes changes nothing.
PingFails(c) ==
    /\ ppc[c] = "select"
    /\ conn[c] # "open"
    /\ ppc' = [ppc EXCEPT ![c] = "unregister"]
    /\ UNCHANGED <<consumerVars, hub, send, closes, conn, hpc, writing, seen>>

ChannelClosed(c) ==
    /\ ppc[c] = "select"
    /\ send[c] = <<>>
    /\ closes[c] > 0
    /\ ppc' = [ppc EXCEPT ![c] = "unregister"]
    /\ UNCHANGED <<consumerVars, hub, send, closes, conn, hpc, writing, seen>>

\* Variant: unregister closes the channel without looking the client up.
UnregisterUnchecked(c) ==
    /\ ppc[c] = "unregister"
    /\ hub' = hub \ {c}
    /\ closes' = [closes EXCEPT ![c] = @ + 1]
    /\ ppc' = [ppc EXCEPT ![c] = "closeConn"]
    /\ UNCHANGED <<consumerVars, send, conn, hpc, writing, seen>>

Unregister(c) ==
    /\ ppc[c] = "unregister"
    /\ hub' = hub \ {c}
    /\ closes' = IF c \in hub THEN [closes EXCEPT ![c] = @ + 1] ELSE closes
    /\ ppc' = [ppc EXCEPT ![c] = "closeConn"]
    /\ UNCHANGED <<consumerVars, send, conn, hpc, writing, seen>>

CloseConn(c) ==
    /\ ppc[c] = "closeConn"
    /\ conn' = [conn EXCEPT ![c] = "closed"]
    /\ ppc' = [ppc EXCEPT ![c] = "exited"]
    /\ UNCHANGED <<consumerVars, hub, send, closes, hpc, writing, seen>>

-----------------------------------------------------------------------------
(* The environment: a viewer leaves, or its network stops taking data.     *)

PeerLeaves(c) ==
    /\ conn[c] = "open"
    /\ conn' = [conn EXCEPT ![c] = "dead"]
    /\ UNCHANGED <<consumerVars, hub, send, closes, hpc, pumpVars>>

Next ==
    \/ \E f \in Feeds :
          \/ ReadMessage(f) \/ CacheSet(f) \/ Broadcast(f)
          \/ \E c \in Clients : CloseSlow(f, c)
    \/ \E c \in Clients :
          \/ Register(c) \/ SendHello(c) \/ SendCached(c) \/ StartPump(c) \/ ReadEnds(c)
          \/ Dequeue(c) \/ WriteDone(c) \/ WriteFails(c) \/ PingFails(c)
          \/ ChannelClosed(c) \/ Unregister(c) \/ CloseConn(c)
          \/ PeerLeaves(c)

Spec == Init /\ [][Next]_vars

\* Goroutines that are not waiting for the network or a new Kafka record run;
\* Go's RWMutex does not let readers starve the cache writer; a ping or a write
\* on a socket that takes nothing fails within its deadline.
Fairness ==
    /\ \A f \in Feeds :
          /\ WF_vars(CacheSet(f)) /\ WF_vars(Broadcast(f))
          /\ \A c \in Clients : WF_vars(CloseSlow(f, c))
    /\ \A c \in Clients :
          /\ WF_vars(SendHello(c)) /\ WF_vars(SendCached(c)) /\ WF_vars(StartPump(c))
          /\ WF_vars(Dequeue(c)) /\ WF_vars(WriteDone(c)) /\ WF_vars(WriteFails(c))
          /\ WF_vars(PingFails(c)) /\ WF_vars(ChannelClosed(c))
          /\ WF_vars(Unregister(c)) /\ WF_vars(CloseConn(c))

FairSpec == Spec /\ Fairness

-----------------------------------------------------------------------------
(* Properties.                                                             *)

\* Every variable ranges over the values the goroutines can give it.
TypeOK ==
    /\ cache \in [Feeds -> Nat]
    /\ cpc \in [Feeds -> {"read", "set", "broadcast", "closeSlow"}]
    /\ held \in [Feeds -> Nat]
    /\ slow \in [Feeds -> SUBSET Clients]
    /\ hub \subseteq Clients
    /\ send \in [Clients -> Seq(Messages)]
    /\ closes \in [Clients -> Nat]
    /\ conn \in [Clients -> {"none", "open", "dead", "closed"}]
    /\ hpc \in [Clients -> Feeds \cup
                 {"none", "hello", "startPump", "reading", "returned", "panicked"}]
    /\ ppc \in [Clients -> {"none", "select", "write", "unregister", "closeConn", "exited"}]
    /\ writing \in [Clients -> Messages]
    /\ seen \in [Clients -> [Feeds -> Nat]]

\* A connection's channel is open exactly while it is registered, whichever of
\* the broadcasters and its own write pump removes it: no channel is closed
\* twice (a panic that would end the gateway) and none is left open unserved.
ChannelClosedOnce ==
    \A c \in Clients :
        /\ c \in hub => closes[c] = 0
        /\ hpc[c] # "none" /\ c \notin hub => closes[c] = 1

\* What a connection still has to show of a feed is never older than what it
\* shows, is queued oldest first, and is no newer than the cached state, so
\* the cached copy queued by sendAll cannot overtake or undo a broadcast.
QueuesOrdered ==
    \A c \in Clients, f \in Feeds :
        /\ seen[c][f] <= cache[f]
        /\ writing[c].kind = f => seen[c][f] <= writing[c].ver /\ writing[c].ver <= cache[f]
        /\ \A i \in 1..Len(send[c]) :
              send[c][i].kind = f =>
                 /\ seen[c][f] <= send[c][i].ver
                 /\ send[c][i].ver <= cache[f]
                 /\ writing[c].kind = f => writing[c].ver <= send[c][i].ver
                 /\ \A j \in i..Len(send[c]) :
                       send[c][j].kind = f => send[c][i].ver <= send[c][j].ver

\* No step takes a dashboard back to an older version of a feed.
NeverShowsOlder ==
    [][\A c \in Clients, f \in Feeds : seen[c][f] <= seen'[c][f]]_vars

\* The pump of c has nothing left to do and no consumer is in mid-update.
AtRest(c) ==
    /\ c \in hub
    /\ ppc[c] = "select" /\ send[c] = <<>>
    /\ \A f \in Feeds : cpc[f] = "read"

\* A registered connection that has drained its queue shows the cached state
\* of every feed: the coherence the comment in hub.broadcast asks for.
CoherentAtRest ==
    \A c \in Clients : AtRest(c) => seen[c] = cache

\* What a connection shows is the version sequence of the abstract feed: it
\* starts at a cached or broadcast version and skips none after it.
Subscription == INSTANCE FeedSubscription WITH published <- cache, view <- seen
ImplementsSubscription == Subscription!Spec

\* A viewer that is gone leaves the hub, although the read pump that notices it
\* first does nothing about it; and once its channel is closed, by whichever
\* goroutine, a connection's socket is closed too, so that the viewer learns that
\* it has to reconnect, also behind a handler that panicked before it could start
\* the write pump.
GonePeersAreRemoved ==
    \A c \in Clients :
        /\ conn[c] = "dead" ~> c \notin hub
        /\ closes[c] > 0 ~> conn[c] = "closed"

\* Each version of a feed that reaches the cache reaches every connection that
\* stays, or is superseded there by a newer one.
UpdatesReachViewers ==
    \A c \in Clients, f \in Feeds : \A v \in 1..Updates[f] :
        (c \in hub /\ cache[f] >= v) ~> (seen[c][f] >= v \/ conn[c] # "open")
=============================================================================
