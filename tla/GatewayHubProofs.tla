-------------------------- MODULE GatewayHubProofs --------------------------
(***************************************************************************)
(* Proofs about the gateway hub for any set of connections, any queue      *)
(* capacity and any number of updates.                                     *)
(***************************************************************************)
EXTENDS GatewayHub, TLAPS

\* A handler's send keeps the queues and the control of the handlers typed.
LEMMA TrySendType ==
    ASSUME TypeOK, NEW c \in Clients, NEW m \in Messages,
           NEW next \in Feeds \cup {"startPump"}, TrySend(c, m, next)
    PROVE  /\ send' \in [Clients -> Seq(Messages)]
           /\ hpc' \in [Clients -> Feeds \cup
                {"none", "hello", "startPump", "reading", "returned", "panicked"}]
<1>1. CASE closes[c] > 0
  BY <1>1 DEF TrySend, TypeOK
<1>2. CASE ~(closes[c] > 0)
  <2>1. Append(send[c], m) \in Seq(Messages)
    BY DEF TypeOK
  <2>2. send' \in [Clients -> Seq(Messages)]
    BY <1>2, <2>1 DEF TrySend, TypeOK
  <2>3. hpc' = [hpc EXCEPT ![c] = next]
    BY <1>2 DEF TrySend
  <2>4. QED
    BY <2>2, <2>3 DEF TypeOK
<1>3. QED
  BY <1>1, <1>2

\* Every variable of the hub stays in the range TypeOK states (main.go:53-137).
THEOREM HubTypeCorrect == Spec => []TypeOK
<1>1. Init => TypeOK
  BY QueueCapAssumption DEF Init, TypeOK, Hello, Messages, Feeds
<1>2. TypeOK /\ [Next]_vars => TypeOK'
  <2> SUFFICES ASSUME TypeOK, [Next]_vars PROVE TypeOK'
    OBVIOUS
  <2> USE DEF TypeOK, consumerVars, pumpVars
  <2>1. ASSUME NEW f \in Feeds, ReadMessage(f) PROVE TypeOK'
    BY <2>1 DEF ReadMessage
  <2>2. ASSUME NEW f \in Feeds, CacheSet(f) PROVE TypeOK'
    BY <2>2 DEF CacheSet
  <2>3. ASSUME NEW f \in Feeds, Broadcast(f) PROVE TypeOK'
    <3> DEFINE lagging == {c \in hub : Full(c)}
    <3>1. Message(f, held[f]) \in Messages
      BY DEF Message, Messages
    <3>2. send' \in [Clients -> Seq(Messages)]
      BY <2>3, <3>1 DEF Broadcast, BroadcastEvicting
    <3>3. closes' \in [Clients -> Nat] /\ slow' \in [Feeds -> SUBSET Clients]
      BY <2>3 DEF Broadcast, BroadcastEvicting
    <3>4. QED
      BY <2>3, <3>2, <3>3 DEF Broadcast, BroadcastEvicting
  <2>4. ASSUME NEW f \in Feeds, NEW c \in Clients, CloseSlow(f, c) PROVE TypeOK'
    BY <2>4 DEF CloseSlow
  <2>5. ASSUME NEW c \in Clients, Register(c) PROVE TypeOK'
    BY <2>5 DEF Register
  <2>6. ASSUME NEW c \in Clients, SendHello(c) PROVE TypeOK'
    <3>1. Hello \in Messages
      BY DEF Hello, Messages
    <3>2. "satellites" \in Feeds
      BY DEF Feeds
    <3>3. TrySend(c, Hello, "satellites")
      BY <2>6 DEF SendHello
    <3>4. /\ send' \in [Clients -> Seq(Messages)]
          /\ hpc' \in [Clients -> Feeds \cup
                {"none", "hello", "startPump", "reading", "returned", "panicked"}]
      BY <3>1, <3>2, <3>3, TrySendType
    <3>5. QED
      BY <2>6, <3>4 DEF SendHello
  <2>7. ASSUME NEW c \in Clients, SendCached(c) PROVE TypeOK'
    <3>1. hpc[c] \in Feeds /\ Message(hpc[c], cache[hpc[c]]) \in Messages
      BY <2>7 DEF SendCached, Message, Messages
    <3>2. AfterFeed[hpc[c]] \in Feeds \cup {"startPump"}
      BY <3>1 DEF AfterFeed, Feeds
    <3>3. /\ send' \in [Clients -> Seq(Messages)]
          /\ hpc' \in [Clients -> Feeds \cup
                {"none", "hello", "startPump", "reading", "returned", "panicked"}]
      <4>1. CASE cache[hpc[c]] = 0
        <5>1. hpc' = [hpc EXCEPT ![c] = AfterFeed[hpc[c]]] /\ send' = send
          BY <2>7, <4>1 DEF SendCached
        <5>2. QED
          BY ONLY TypeOK, <3>2, <5>1 DEF TypeOK
      <4>2. CASE cache[hpc[c]] # 0
        <5>1. TrySend(c, Message(hpc[c], cache[hpc[c]]), AfterFeed[hpc[c]])
          BY <2>7, <4>2 DEF SendCached
        <5>2. QED
          BY ONLY TypeOK, <3>1, <3>2, <5>1, TrySendType
      <4>3. QED
        BY <4>1, <4>2
    <3>4. QED
      BY <2>7, <3>3 DEF SendCached
  <2>8. ASSUME NEW c \in Clients, StartPump(c) PROVE TypeOK'
    BY <2>8 DEF StartPump
  <2>9. ASSUME NEW c \in Clients, ReadEnds(c) PROVE TypeOK'
    BY <2>9 DEF ReadEnds
  <2>10. ASSUME NEW c \in Clients, Dequeue(c) PROVE TypeOK'
    BY <2>10 DEF Dequeue
  <2>11. ASSUME NEW c \in Clients, WriteDone(c) PROVE TypeOK'
    <3>1. Hello \in Messages /\ writing[c].ver \in Nat
      BY DEF Hello, Messages
    <3>2. seen' \in [Clients -> [Feeds -> Nat]]
      BY <2>11, <3>1 DEF WriteDone
    <3>3. QED
      BY <2>11, <3>1, <3>2 DEF WriteDone
  <2>12. ASSUME NEW c \in Clients, WriteFails(c) PROVE TypeOK'
    <3>1. Hello \in Messages
      BY DEF Hello, Messages
    <3>2. QED
      BY <2>12, <3>1 DEF WriteFails
  <2>13. ASSUME NEW c \in Clients, PingFails(c) \/ ChannelClosed(c) \/ PeerLeaves(c)
         PROVE TypeOK'
    <3>1. CASE PingFails(c)
      BY <3>1 DEF PingFails
    <3>2. CASE ChannelClosed(c)
      BY <3>2 DEF ChannelClosed
    <3>3. CASE PeerLeaves(c)
      BY <3>3 DEF PeerLeaves
    <3>4. QED
      BY <2>13, <3>1, <3>2, <3>3
  <2>14. ASSUME NEW c \in Clients, Unregister(c) PROVE TypeOK'
    BY <2>14 DEF Unregister
  <2>15. ASSUME NEW c \in Clients, CloseConn(c) PROVE TypeOK'
    BY <2>15 DEF CloseConn
  <2>16. CASE UNCHANGED vars
    BY <2>16 DEF vars
  <2>17. QED
    BY <2>1, <2>2, <2>3, <2>4, <2>5, <2>6, <2>7, <2>8, <2>9, <2>10, <2>11, <2>12,
       <2>13, <2>14, <2>15, <2>16 DEF Next
<1>3. QED
  BY <1>1, <1>2, PTL DEF Spec

-----------------------------------------------------------------------------
(* Registration and the channel.                                           *)

\* ChannelClosedOnce with what it needs of connections not made yet.
RegistryInv ==
    /\ ChannelClosedOnce
    /\ \A c \in Clients : hpc[c] = "none" => c \notin hub /\ closes[c] = 0

LEMMA HubRegistry == Spec => []RegistryInv
<1>1. Init => RegistryInv
  BY DEF Init, RegistryInv, ChannelClosedOnce
<1>2. TypeOK /\ RegistryInv /\ [Next]_vars => RegistryInv'
  <2> SUFFICES ASSUME TypeOK, RegistryInv, [Next]_vars PROVE RegistryInv'
    OBVIOUS
  <2> USE DEF RegistryInv, ChannelClosedOnce, TypeOK, consumerVars, pumpVars
  <2>1. ASSUME NEW f \in Feeds, ReadMessage(f) \/ CacheSet(f) PROVE RegistryInv'
    BY <2>1 DEF ReadMessage, CacheSet
  <2>2. ASSUME NEW f \in Feeds, Broadcast(f) PROVE RegistryInv'
    BY <2>2 DEF Broadcast, BroadcastEvicting
  <2>3. ASSUME NEW f \in Feeds, NEW c \in Clients, CloseSlow(f, c) PROVE RegistryInv'
    BY <2>3 DEF CloseSlow
  <2>4. ASSUME NEW c \in Clients, Register(c) PROVE RegistryInv'
    BY <2>4 DEF Register
  <2>5. ASSUME NEW c \in Clients, SendHello(c) PROVE RegistryInv'
    BY <2>5 DEF SendHello, TrySend
  <2>6. ASSUME NEW c \in Clients, SendCached(c) PROVE RegistryInv'
    <3>1. hpc[c] # "none" /\ UNCHANGED <<hub, closes>>
      BY <2>6 DEF SendCached, Feeds
    <3>2. \A d \in Clients : d # c => hpc'[d] = hpc[d]
      BY <2>6 DEF SendCached, TrySend
    <3>3. AfterFeed[hpc[c]] # "none"
      BY <2>6 DEF SendCached, AfterFeed, Feeds
    <3>4. hpc'[c] # "none"
      BY <2>6, <3>3 DEF SendCached, TrySend
    <3>5. QED
      BY <3>1, <3>2, <3>4
  <2>7. ASSUME NEW c \in Clients, StartPump(c) \/ ReadEnds(c) PROVE RegistryInv'
    BY <2>7 DEF StartPump, ReadEnds
  <2>8. ASSUME NEW c \in Clients, Dequeue(c) \/ WriteDone(c) \/ WriteFails(c)
        PROVE RegistryInv'
    BY <2>8 DEF Dequeue, WriteDone, WriteFails
  <2>9. ASSUME NEW c \in Clients,
               PingFails(c) \/ ChannelClosed(c) \/ CloseConn(c) \/ PeerLeaves(c)
        PROVE RegistryInv'
    BY <2>9 DEF PingFails, ChannelClosed, CloseConn, PeerLeaves
  <2>10. ASSUME NEW c \in Clients, Unregister(c) PROVE RegistryInv'
    BY <2>10 DEF Unregister
  <2>11. CASE UNCHANGED vars
    BY <2>11 DEF vars
  <2>12. QED
    BY <2>1, <2>2, <2>3, <2>4, <2>5, <2>6, <2>7, <2>8, <2>9, <2>10, <2>11 DEF Next
<1>3. QED
  BY <1>1, <1>2, HubTypeCorrect, PTL DEF Spec

\* A channel is closed exactly once, by whoever takes its client out of the
\* hub: hub.unregister and hub.broadcast (main.go:74-122) never close it twice.
THEOREM HubClosesOnce == Spec => []ChannelClosedOnce
<1>1. RegistryInv => ChannelClosedOnce
  BY DEF RegistryInv
<1>2. QED
  BY <1>1, HubRegistry, PTL

-----------------------------------------------------------------------------
(* The order of what a connection shows.                                   *)

\* A consumer broadcasts what it has just cached.
HeldInv ==
    \A f \in Feeds :
        /\ cache[f] <= held[f]
        /\ cpc[f] = "broadcast" => held[f] = cache[f]

OrderInv == HeldInv /\ QueuesOrdered

\* Queued versions are numbers.
LEMMA QueuedVersions ==
    ASSUME TypeOK, NEW c \in Clients
    PROVE  /\ writing[c].ver \in Nat
           /\ \A i \in 1..Len(send[c]) : send[c][i].ver \in Nat
<1>1. \A m \in Messages : m.ver \in Nat
  BY DEF Messages
<1>2. writing[c] \in Messages /\ send[c] \in Seq(Messages)
  BY DEF TypeOK
<1>3. \A i \in 1..Len(send[c]) : send[c][i] \in Messages
  BY <1>2
<1>4. QED
  BY <1>1, <1>2, <1>3

\* Queueing the cached version of a feed, for some of the connections, keeps
\* every queue in order.
LEMMA QueueingKeepsOrder ==
    ASSUME TypeOK, QueuesOrdered, UNCHANGED <<cache, seen, writing>>,
           NEW S \in SUBSET Clients, NEW m \in Messages,
           m.kind \in Feeds => m.ver = cache[m.kind],
           send' = [c \in Clients |-> IF c \in S THEN Append(send[c], m) ELSE send[c]]
    PROVE  QueuesOrdered'
<1> SUFFICES ASSUME NEW c \in Clients, NEW f \in Feeds
             PROVE  /\ seen[c][f] <= cache[f]
                    /\ writing[c].kind = f =>
                          seen[c][f] <= writing[c].ver /\ writing[c].ver <= cache[f]
                    /\ \A i \in 1..Len(send'[c]) :
                          send'[c][i].kind = f =>
                             /\ seen[c][f] <= send'[c][i].ver
                             /\ send'[c][i].ver <= cache[f]
                             /\ writing[c].kind = f => writing[c].ver <= send'[c][i].ver
                             /\ \A j \in i..Len(send'[c]) :
                                   send'[c][j].kind = f => send'[c][i].ver <= send'[c][j].ver
  BY DEF QueuesOrdered
<1>1. /\ seen[c][f] \in Nat /\ cache[f] \in Nat /\ writing[c].ver \in Nat
      /\ send[c] \in Seq(Messages) /\ m.ver \in Nat
      /\ \A i \in 1..Len(send[c]) : send[c][i].ver \in Nat
  <2>1. m.ver \in Nat
    BY DEF Messages
  <2>2. QED
    BY <2>1, QueuedVersions DEF TypeOK
<1>2. /\ seen[c][f] <= cache[f]
      /\ writing[c].kind = f => seen[c][f] <= writing[c].ver /\ writing[c].ver <= cache[f]
      /\ \A i \in 1..Len(send[c]) :
            send[c][i].kind = f =>
               /\ seen[c][f] <= send[c][i].ver
               /\ send[c][i].ver <= cache[f]
               /\ writing[c].kind = f => writing[c].ver <= send[c][i].ver
               /\ \A j \in i..Len(send[c]) :
                     send[c][j].kind = f => send[c][i].ver <= send[c][j].ver
  BY DEF QueuesOrdered
<1>3. CASE c \notin S
  BY <1>2, <1>3
<1>4. CASE c \in S
  <2>1. send'[c] = Append(send[c], m)
    BY <1>4
  <2>2. /\ Len(send'[c]) = Len(send[c]) + 1 /\ Len(send[c]) \in Nat
        /\ \A i \in 1..Len(send[c]) : send'[c][i] = send[c][i]
        /\ send'[c][Len(send[c]) + 1] = m
    BY <1>1, <2>1
  <2>3. \A i \in 1..Len(send'[c]) : send'[c][i].kind = f =>
           /\ seen[c][f] <= send'[c][i].ver
           /\ send'[c][i].ver <= cache[f]
           /\ writing[c].kind = f => writing[c].ver <= send'[c][i].ver
    BY <1>1, <1>2, <2>2
  <2>4. ASSUME NEW i \in 1..Len(send'[c]), send'[c][i].kind = f,
               NEW j \in i..Len(send'[c]), send'[c][j].kind = f
        PROVE  send'[c][i].ver <= send'[c][j].ver
    <3>1. CASE j \in 1..Len(send[c])
      <4>1. i \in 1..Len(send[c]) /\ j \in i..Len(send[c])
        BY <2>2, <2>4, <3>1
      <4>2. send'[c][i] = send[c][i] /\ send'[c][j] = send[c][j]
        BY <2>2, <3>1, <4>1
      <4>3. QED
        BY <1>2, <2>4, <4>1, <4>2
    <3>2. CASE j = Len(send[c]) + 1
      <4>1. send'[c][j].ver = cache[f]
        BY <2>2, <2>4, <3>2
      <4>2. QED
        BY <2>3, <2>4, <4>1
    <3>3. QED
      BY <2>2, <2>4, <3>1, <3>2
  <2>5. QED
    BY <1>2, <2>3, <2>4
<1>5. QED
  BY <1>3, <1>4

\* Taking the head of a queue into `writing` keeps the order.
LEMMA DequeueKeepsOrder ==
    ASSUME TypeOK, QueuesOrdered, NEW c \in Clients, Dequeue(c)
    PROVE  QueuesOrdered'
<1>1. /\ send[c] \in Seq(Messages) /\ send[c] # <<>>
      /\ send'[c] = Tail(send[c]) /\ writing'[c] = Head(send[c])
      /\ \A d \in Clients : d # c => send'[d] = send[d] /\ writing'[d] = writing[d]
      /\ UNCHANGED <<cache, seen>>
  BY DEF Dequeue, TypeOK, consumerVars
<1>2. /\ Len(send[c]) \in Nat \ {0} /\ Len(send'[c]) = Len(send[c]) - 1
      /\ writing'[c] = send[c][1]
      /\ \A i \in 1..Len(send'[c]) : send'[c][i] = send[c][i + 1] /\ i + 1 \in 1..Len(send[c])
  BY <1>1
<1>3. ASSUME NEW f \in Feeds
      PROVE  /\ writing'[c].kind = f => seen[c][f] <= writing'[c].ver /\ writing'[c].ver <= cache[f]
             /\ \A i \in 1..Len(send'[c]) :
                   send'[c][i].kind = f =>
                      /\ seen[c][f] <= send'[c][i].ver
                      /\ send'[c][i].ver <= cache[f]
                      /\ writing'[c].kind = f => writing'[c].ver <= send'[c][i].ver
                      /\ \A j \in i..Len(send'[c]) :
                            send'[c][j].kind = f => send'[c][i].ver <= send'[c][j].ver
  <2>1. \A i \in 1..Len(send[c]) : send[c][i].kind = f =>
           /\ seen[c][f] <= send[c][i].ver
           /\ send[c][i].ver <= cache[f]
           /\ \A j \in i..Len(send[c]) :
                 send[c][j].kind = f => send[c][i].ver <= send[c][j].ver
    BY DEF QueuesOrdered
  <2>2. 1 \in 1..Len(send[c])
    BY <1>2
  <2>3. writing'[c].kind = f => seen[c][f] <= writing'[c].ver /\ writing'[c].ver <= cache[f]
    BY <1>2, <2>1, <2>2
  <2>4. ASSUME NEW i \in 1..Len(send'[c]), send'[c][i].kind = f
        PROVE  /\ seen[c][f] <= send'[c][i].ver
               /\ send'[c][i].ver <= cache[f]
               /\ writing'[c].kind = f => writing'[c].ver <= send'[c][i].ver
    <3>1. send'[c][i] = send[c][i + 1] /\ i + 1 \in 1..Len(send[c])
      BY <1>2
    <3>2. QED
      BY <1>2, <2>1, <2>2, <2>4, <3>1
  <2>5. ASSUME NEW i \in 1..Len(send'[c]), send'[c][i].kind = f,
               NEW j \in i..Len(send'[c]), send'[c][j].kind = f
        PROVE  send'[c][i].ver <= send'[c][j].ver
    <3>1. /\ send'[c][i] = send[c][i + 1] /\ i + 1 \in 1..Len(send[c])
      BY <1>2
    <3>2. j \in 1..Len(send'[c]) /\ i \in Nat /\ j \in Nat /\ i <= j
      BY <1>2, <2>5
    <3>3. send'[c][j] = send[c][j + 1] /\ j + 1 \in 1..Len(send[c])
      BY <1>2, <3>2
    <3>4. j + 1 \in (i + 1)..Len(send[c])
      BY <3>2, <3>3
    <3>5. QED
      BY <2>1, <2>5, <3>1, <3>3, <3>4
  <2>6. QED
    BY <2>3, <2>4, <2>5
<1>4. SUFFICES ASSUME NEW d \in Clients, NEW f \in Feeds
               PROVE  /\ seen[d][f] <= cache[f]
                      /\ writing'[d].kind = f =>
                            seen[d][f] <= writing'[d].ver /\ writing'[d].ver <= cache[f]
                      /\ \A i \in 1..Len(send'[d]) :
                            send'[d][i].kind = f =>
                               /\ seen[d][f] <= send'[d][i].ver
                               /\ send'[d][i].ver <= cache[f]
                               /\ writing'[d].kind = f => writing'[d].ver <= send'[d][i].ver
                               /\ \A j \in i..Len(send'[d]) :
                                     send'[d][j].kind = f => send'[d][i].ver <= send'[d][j].ver
  BY <1>1 DEF QueuesOrdered
<1>5. CASE d = c
  BY <1>3, <1>5 DEF QueuesOrdered
<1>6. CASE d # c
  BY <1>1, <1>6 DEF QueuesOrdered
<1>7. QED
  BY <1>5, <1>6

\* A queued cached copy or broadcast is never older than what precedes it, nor
\* newer than the cache (stateCache.sendAll, consumeAndBroadcast).
THEOREM HubQueuesOrdered == Spec => []QueuesOrdered
<1>1. Init => OrderInv
  BY DEF Init, OrderInv, HeldInv, QueuesOrdered, Hello, Feeds
<1>2. TypeOK /\ OrderInv /\ [Next]_vars => OrderInv'
  <2> SUFFICES ASSUME TypeOK, HeldInv, QueuesOrdered, [Next]_vars
               PROVE  HeldInv' /\ QueuesOrdered'
    BY DEF OrderInv
  <2>1. ASSUME NEW f \in Feeds, ReadMessage(f) PROVE HeldInv' /\ QueuesOrdered'
    BY <2>1 DEF ReadMessage, HeldInv, QueuesOrdered, TypeOK, pumpVars
  <2>2. ASSUME NEW f \in Feeds, CacheSet(f) PROVE HeldInv' /\ QueuesOrdered'
    <3>1. HeldInv'
      BY <2>2 DEF CacheSet, HeldInv, TypeOK
    <3>2. /\ UNCHANGED <<send, writing, seen>>
          /\ \A g \in Feeds : cache[g] <= cache'[g] /\ cache[g] \in Nat /\ cache'[g] \in Nat
      BY <2>2 DEF CacheSet, HeldInv, TypeOK, pumpVars
    <3>3. \A c \in Clients : /\ \A g \in Feeds : seen[c][g] \in Nat
                             /\ writing[c].ver \in Nat
                             /\ \A i \in 1..Len(send[c]) : send[c][i].ver \in Nat
      BY QueuedVersions DEF TypeOK
    <3>4. QED
      BY <3>1, <3>2, <3>3 DEF QueuesOrdered
  <2>3. ASSUME NEW f \in Feeds, Broadcast(f) PROVE HeldInv' /\ QueuesOrdered'
    <3> DEFINE S == hub \ {c \in hub : Full(c)}
    <3>1. HeldInv'
      BY <2>3 DEF Broadcast, BroadcastEvicting, HeldInv, TypeOK
    <3>2. /\ Message(f, held[f]) \in Messages
          /\ Message(f, held[f]).kind = f /\ Message(f, held[f]).ver = cache[f]
      BY <2>3 DEF Broadcast, BroadcastEvicting, HeldInv, Message, Messages, TypeOK
    <3>3. /\ UNCHANGED <<cache, seen, writing>> /\ S \in SUBSET Clients
          /\ send' = [c \in Clients |-> IF c \in S THEN Append(send[c], Message(f, held[f]))
                                                 ELSE send[c]]
      BY <2>3 DEF Broadcast, BroadcastEvicting, TypeOK, pumpVars
    <3>4. QueuesOrdered'
      BY <3>2, <3>3, QueueingKeepsOrder
    <3>5. QED
      BY <3>1, <3>4
  <2>4. ASSUME NEW c \in Clients, NEW m \in Messages,
               NEW next, TrySend(c, m, next), UNCHANGED <<consumerVars, pumpVars>>,
               m.kind \in Feeds => m.ver = cache[m.kind]
        PROVE  HeldInv' /\ QueuesOrdered'
    <3>1. HeldInv'
      BY <2>4 DEF HeldInv, consumerVars
    <3>2. UNCHANGED <<cache, seen, writing>>
      BY <2>4 DEF consumerVars, pumpVars
    <3>3. \E S \in SUBSET Clients :
             send' = [d \in Clients |-> IF d \in S THEN Append(send[d], m) ELSE send[d]]
      <4>1. CASE send' = send
        <5>1. send = [d \in Clients |-> send[d]]
          BY DEF TypeOK
        <5>2. send' = [d \in Clients |-> IF d \in {} THEN Append(send[d], m) ELSE send[d]]
          BY <4>1, <5>1
        <5>3. {} \in SUBSET Clients
          OBVIOUS
        <5>4. QED
          BY <5>2, <5>3
      <4>2. CASE send' = [send EXCEPT ![c] = Append(@, m)]
        <5>1. send' = [d \in Clients |-> IF d \in {c} THEN Append(send[d], m) ELSE send[d]]
          BY <4>2 DEF TypeOK
        <5>2. QED
          BY <5>1
      <4>3. QED
        BY <2>4, <4>1, <4>2 DEF TrySend
    <3>4. PICK S \in SUBSET Clients :
             send' = [d \in Clients |-> IF d \in S THEN Append(send[d], m) ELSE send[d]]
      BY <3>3
    <3>5. QueuesOrdered'
      BY <2>4, <3>2, <3>4, QueueingKeepsOrder
    <3>6. QED
      BY <3>1, <3>5
  <2>5. ASSUME NEW c \in Clients, SendHello(c) PROVE HeldInv' /\ QueuesOrdered'
    <3>1. Hello \in Messages /\ Hello.kind \notin Feeds
      BY DEF Hello, Messages, Feeds
    <3>2. QED
      BY <2>4, <2>5, <3>1 DEF SendHello
  <2>6. ASSUME NEW c \in Clients, SendCached(c) PROVE HeldInv' /\ QueuesOrdered'
    <3>1. CASE cache[hpc[c]] = 0
      BY <2>6, <3>1 DEF SendCached, HeldInv, QueuesOrdered, consumerVars, pumpVars
    <3>2. CASE cache[hpc[c]] # 0
      <4> DEFINE m == Message(hpc[c], cache[hpc[c]])
      <4>1. m \in Messages /\ m.kind = hpc[c] /\ m.ver = cache[m.kind]
        BY <2>6 DEF SendCached, Message, Messages, TypeOK
      <4>2. TrySend(c, m, AfterFeed[hpc[c]]) /\ UNCHANGED <<consumerVars, pumpVars>>
        BY <2>6, <3>2 DEF SendCached
      <4> HIDE DEF m
      <4>3. QED
        BY <2>4, <4>1, <4>2
    <3>3. QED
      BY <3>1, <3>2
  <2>7. ASSUME NEW c \in Clients, Dequeue(c) PROVE HeldInv' /\ QueuesOrdered'
    <3>1. HeldInv'
      BY <2>7 DEF Dequeue, HeldInv, consumerVars
    <3>2. QED
      BY <2>7, <3>1, DequeueKeepsOrder
  <2>8. ASSUME NEW c \in Clients, WriteDone(c) PROVE HeldInv' /\ QueuesOrdered'
    <3>1. HeldInv'
      BY <2>8 DEF WriteDone, HeldInv, consumerVars
    <3>2. /\ writing' = [writing EXCEPT ![c] = Hello] /\ UNCHANGED <<cache, send>>
          /\ \A d \in Clients : d # c => writing'[d] = writing[d]
          /\ writing'[c].kind \notin Feeds
      BY <2>8 DEF WriteDone, TypeOK, consumerVars, Hello, Feeds
    <3>3. \A d \in Clients, f \in Feeds :
             seen'[d][f] = IF d = c /\ writing[c].kind = f THEN writing[c].ver ELSE seen[d][f]
      BY <2>8 DEF WriteDone, TypeOK
    <3>4. QED
      BY <3>1, <3>2, <3>3 DEF QueuesOrdered
  <2>9. ASSUME NEW c \in Clients, WriteFails(c) PROVE HeldInv' /\ QueuesOrdered'
    <3>1. HeldInv'
      BY <2>9 DEF WriteFails, HeldInv, consumerVars
    <3>2. /\ UNCHANGED <<cache, send, seen>>
          /\ \A d \in Clients : d # c => writing'[d] = writing[d]
          /\ writing'[c].kind \notin Feeds
      BY <2>9 DEF WriteFails, TypeOK, consumerVars, Hello, Feeds
    <3>3. QED
      BY <3>1, <3>2 DEF QueuesOrdered
  <2>10. CASE UNCHANGED <<cache, held, cpc, send, writing, seen>>
    BY <2>10 DEF HeldInv, QueuesOrdered
  <2>11. ASSUME NEW f \in Feeds, NEW c \in Clients, CloseSlow(f, c)
         PROVE HeldInv' /\ QueuesOrdered'
    BY <2>11 DEF CloseSlow, HeldInv, QueuesOrdered, TypeOK, pumpVars
  <2>12. ASSUME NEW c \in Clients,
                \/ Register(c) \/ StartPump(c) \/ ReadEnds(c) \/ PingFails(c)
                \/ ChannelClosed(c) \/ Unregister(c) \/ CloseConn(c) \/ PeerLeaves(c)
         PROVE  UNCHANGED <<cache, held, cpc, send, writing, seen>>
    BY <2>12 DEF Register, StartPump, ReadEnds, PingFails, ChannelClosed, Unregister,
                 CloseConn, PeerLeaves, consumerVars, pumpVars
  <2>13. UNCHANGED vars => UNCHANGED <<cache, held, cpc, send, writing, seen>>
    BY DEF vars
  <2>14. QED
    BY <2>1, <2>2, <2>3, <2>5, <2>6, <2>7, <2>8, <2>9, <2>10, <2>11, <2>12, <2>13 DEF Next
<1>3. OrderInv => QueuesOrdered
  BY DEF OrderInv
<1>4. QED
  BY <1>1, <1>2, <1>3, HubTypeCorrect, PTL DEF Spec

\* No dashboard goes back to an older version of a feed: the only step that
\* changes what a connection shows writes the head of its ordered queue.
THEOREM HubNeverShowsOlder == Spec => NeverShowsOlder
<1>1. TypeOK /\ QueuesOrdered /\ [Next]_vars
         => [\A c \in Clients, f \in Feeds : seen[c][f] <= seen'[c][f]]_vars
  <2> SUFFICES ASSUME TypeOK, QueuesOrdered, [Next]_vars,
                      NEW c \in Clients, NEW f \in Feeds
               PROVE  seen[c][f] <= seen'[c][f]
    OBVIOUS
  <2>1. seen[c][f] \in Nat
    BY DEF TypeOK
  <2>2. ASSUME NEW d \in Clients, WriteDone(d) PROVE seen[c][f] <= seen'[c][f]
    <3>1. seen'[c][f] = IF c = d /\ writing[d].kind = f THEN writing[d].ver ELSE seen[c][f]
      BY <2>2 DEF WriteDone, TypeOK
    <3>2. QED
      BY <2>1, <3>1 DEF QueuesOrdered
  <2>3. CASE UNCHANGED seen
    BY <2>1, <2>3
  <2>4. ASSUME NEW g \in Feeds,
               \/ ReadMessage(g) \/ CacheSet(g) \/ Broadcast(g)
               \/ \E d \in Clients : CloseSlow(g, d)
        PROVE  UNCHANGED seen
    BY <2>4 DEF ReadMessage, CacheSet, Broadcast, BroadcastEvicting, CloseSlow, pumpVars
  <2>5. ASSUME NEW d \in Clients,
               \/ Register(d) \/ SendHello(d) \/ SendCached(d) \/ StartPump(d) \/ ReadEnds(d)
               \/ Dequeue(d) \/ WriteFails(d) \/ PingFails(d) \/ ChannelClosed(d)
               \/ Unregister(d) \/ CloseConn(d) \/ PeerLeaves(d)
        PROVE  UNCHANGED seen
    BY <2>5 DEF Register, SendHello, SendCached, StartPump, ReadEnds, Dequeue, WriteFails,
                PingFails, ChannelClosed, Unregister, CloseConn, PeerLeaves, pumpVars
  <2>6. UNCHANGED vars => UNCHANGED seen
    BY DEF vars
  <2>7. QED
    BY <2>2, <2>3, <2>4, <2>5, <2>6 DEF Next
<1>2. QED
  BY <1>1, HubTypeCorrect, HubQueuesOrdered, PTL DEF Spec, NeverShowsOlder

-----------------------------------------------------------------------------
(* What a connection shows has no gaps. Below, s is the version of feed f  *)
(* that the connection shows, w the message its pump writes, q its queue.  *)

\* Nothing of feed f is shown, being written, or queued before place i.
First(s, w, q, f, i) ==
    s = 0 /\ w.kind # f /\ \A j \in 1..Len(q) : q[j].kind = f => i <= j

\* Version v is at most one after one of f that is shown, or comes before place i.
Near(s, w, q, f, i, v) ==
    \/ v <= s + 1
    \/ w.kind = f /\ v <= w.ver + 1
    \/ \E j \in 1..Len(q) : j < i /\ q[j].kind = f /\ v <= q[j].ver + 1

\* Version v leaves no gap at place i.
Fits(s, w, q, f, i, v) == First(s, w, q, f, i) \/ Near(s, w, q, f, i, v)

\* What is written and queued of f leaves no gap.
Chained(s, w, q, f) ==
    /\ w.kind = f => s = 0 \/ w.ver <= s + 1
    /\ \A i \in 1..Len(q) : q[i].kind = f => Fits(s, w, q, f, i, q[i].ver)

LEMMA VersionsAreNumbers ==
    /\ \A m \in Messages : m.ver \in Nat
    /\ \A q \in Seq(Messages) : \A j \in 1..Len(q) : q[j].ver \in Nat
<1>1. \A m \in Messages : m.ver \in Nat
  BY DEF Messages
<1>2. \A q \in Seq(Messages) : \A j \in 1..Len(q) : q[j] \in Messages
  OBVIOUS
<1>3. QED
  BY <1>1, <1>2

LEMMA FitsAfterAppend ==
    ASSUME NEW s \in Nat, NEW w \in Messages, NEW q \in Seq(Messages), NEW f, NEW m \in Messages,
           NEW i \in 1..(Len(q) + 1), NEW u \in Nat, NEW v \in Nat, u <= v, Fits(s, w, q, f, i, v)
    PROVE  Fits(s, w, Append(q, m), f, i, u)
<1> DEFINE r == Append(q, m)
<1>1. /\ Len(q) \in Nat /\ Len(r) = Len(q) + 1 /\ r[Len(q) + 1] = m
      /\ \A j \in 1..Len(q) : r[j] = q[j] /\ q[j].ver \in Nat
  BY VersionsAreNumbers
<1> HIDE DEF r
<1>2. CASE First(s, w, q, f, i)
  BY <1>1, <1>2 DEF First, Fits, r
<1>3. CASE Near(s, w, q, f, i, v)
  <2>1. w.ver \in Nat
    BY DEF Messages
  <2>2. CASE v <= s + 1 \/ (w.kind = f /\ v <= w.ver + 1)
    BY <2>1, <2>2 DEF Near, Fits
  <2>3. ASSUME NEW j \in 1..Len(q), j < i, q[j].kind = f, v <= q[j].ver + 1
        PROVE  Fits(s, w, r, f, i, u)
    <3>1. j \in 1..Len(r) /\ r[j] = q[j] /\ u <= q[j].ver + 1
      BY <1>1, <2>3
    <3>2. QED
      BY <2>3, <3>1 DEF Near, Fits
  <2>4. QED
    BY <1>3, <2>2, <2>3 DEF Near, r
<1>4. QED
  BY <1>2, <1>3 DEF Fits

\* A message that fits at the end of a queue keeps it without gaps; what comes
\* after it, or fits beside it, fits behind it.
LEMMA AppendLeavesNoGap ==
    ASSUME NEW s \in Nat, NEW w \in Messages, NEW q \in Seq(Messages), NEW f, NEW m \in Messages,
           NEW v \in Nat, NEW u \in Nat,
           Chained(s, w, q, f), Fits(s, w, q, f, Len(q) + 1, v),
           m.kind = f => m.ver <= v /\ u <= m.ver + 1,
           m.kind # f => u = v
    PROVE  /\ Chained(s, w, Append(q, m), f)
           /\ Fits(s, w, Append(q, m), f, Len(Append(q, m)) + 1, u)
<1> DEFINE r == Append(q, m)
<1>1. /\ Len(q) \in Nat /\ Len(r) = Len(q) + 1 /\ r[Len(q) + 1] = m /\ m.ver \in Nat
      /\ \A j \in 1..Len(q) : r[j] = q[j] /\ q[j].ver \in Nat
  BY VersionsAreNumbers
<1>2. ASSUME NEW i \in 1..Len(r), r[i].kind = f PROVE Fits(s, w, r, f, i, r[i].ver)
  <2>1. CASE i \in 1..Len(q)
    <3>1. Fits(s, w, q, f, i, q[i].ver) /\ r[i] = q[i] /\ q[i].ver \in Nat /\ q[i].ver <= q[i].ver
      BY <1>1, <1>2, <2>1 DEF Chained
    <3>2. i \in 1..(Len(q) + 1)
      BY <1>1
    <3>3. QED
      BY <3>1, <3>2, FitsAfterAppend
  <2>2. CASE i = Len(q) + 1
    <3>1. r[i] = m /\ m.ver <= v /\ i \in 1..(Len(q) + 1)
      BY <1>1, <1>2, <2>2
    <3>2. Fits(s, w, q, f, i, v)
      BY <2>2
    <3>3. QED
      BY <1>1, <3>1, <3>2, FitsAfterAppend
  <2>3. QED
    BY <1>1, <2>1, <2>2
<1>3. Fits(s, w, r, f, Len(r) + 1, u)
  <2>1. CASE m.kind = f
    <3>1. Len(r) \in 1..Len(r) /\ Len(r) < Len(r) + 1 /\ r[Len(r)].kind = f /\ u <= r[Len(r)].ver + 1
      BY <1>1, <2>1
    <3>2. QED
      BY <3>1 DEF Near, Fits
  <2>2. CASE m.kind # f /\ First(s, w, q, f, Len(q) + 1)
    <3>1. \A j \in 1..Len(r) : r[j].kind # f
      BY <1>1, <2>2 DEF First
    <3>2. QED
      BY <2>2, <3>1 DEF First, Fits
  <2>3. CASE m.kind # f /\ Near(s, w, q, f, Len(q) + 1, v)
    <3>1. CASE v <= s + 1 \/ (w.kind = f /\ v <= w.ver + 1)
      BY <2>3, <3>1 DEF Near, Fits
    <3>2. ASSUME NEW j \in 1..Len(q), q[j].kind = f, v <= q[j].ver + 1
          PROVE  Fits(s, w, r, f, Len(r) + 1, u)
      <4>1. j \in 1..Len(r) /\ j < Len(r) + 1 /\ r[j] = q[j]
        BY <1>1, <3>2
      <4>2. QED
        BY <2>3, <3>2, <4>1 DEF Near, Fits
    <3>3. QED
      BY <2>3, <3>1, <3>2 DEF Near
  <2>4. QED
    BY <2>1, <2>2, <2>3 DEF Fits
<1>4. w.kind = f => s = 0 \/ w.ver <= s + 1
  BY DEF Chained
<1>5. QED
  BY <1>2, <1>3, <1>4 DEF Chained

\* The head of a queue comes first when it is being written, too.
LEMMA FitsAfterDequeue ==
    ASSUME NEW s \in Nat, NEW w \in Messages, NEW q \in Seq(Messages), NEW f,
           q # <<>>, w.kind # f, NEW i \in 1..Len(q), NEW v, Fits(s, w, q, f, i + 1, v)
    PROVE  Fits(s, Head(q), Tail(q), f, i, v)
<1> DEFINE t == Tail(q)
<1>1. /\ Len(q) \in Nat /\ Len(q) > 0 /\ Len(t) = Len(q) - 1 /\ Head(q) = q[1]
      /\ \A j \in 1..Len(t) : t[j] = q[j + 1]
  OBVIOUS
<1> HIDE DEF t
<1>2. CASE First(s, w, q, f, i + 1)
  <2>1. 1 \in 1..Len(q) /\ ~(i + 1 <= 1)
    BY <1>1
  <2>2. s = 0 /\ Head(q).kind # f
    BY <1>1, <1>2, <2>1 DEF First
  <2>3. ASSUME NEW j \in 1..Len(t), t[j].kind = f PROVE i <= j
    <3>1. j + 1 \in 1..Len(q) /\ q[j + 1].kind = f
      BY <1>1, <2>3
    <3>2. QED
      BY <1>1, <1>2, <3>1 DEF First
  <2>4. QED
    BY <2>2, <2>3 DEF First, Fits, t
<1>3. CASE v <= s + 1
  BY <1>3 DEF Near, Fits
<1>4. ASSUME NEW j \in 1..Len(q), j < i + 1, q[j].kind = f, v <= q[j].ver + 1
      PROVE  Fits(s, Head(q), t, f, i, v)
  <2>1. CASE j = 1
    BY <1>1, <1>4, <2>1 DEF Near, Fits
  <2>2. CASE j # 1
    <3>1. j - 1 \in 1..Len(t) /\ j - 1 < i /\ t[j - 1] = q[j]
      BY <1>1, <1>4, <2>2
    <3>2. QED
      BY <1>4, <3>1 DEF Near, Fits
  <2>3. QED
    BY <2>1, <2>2
<1>5. QED
  BY <1>2, <1>3, <1>4 DEF Near, Fits, t

LEMMA DequeueLeavesNoGap ==
    ASSUME NEW s \in Nat, NEW w \in Messages, NEW q \in Seq(Messages), NEW f,
           q # <<>>, w.kind # f, Chained(s, w, q, f)
    PROVE  Chained(s, Head(q), Tail(q), f)
<1>1. /\ Len(q) \in Nat /\ Len(q) > 0 /\ Len(Tail(q)) = Len(q) - 1 /\ Head(q) = q[1]
      /\ \A j \in 1..Len(Tail(q)) : Tail(q)[j] = q[j + 1]
  OBVIOUS
<1>2. Head(q).kind = f => s = 0 \/ Head(q).ver <= s + 1
  <2>1. 1 \in 1..Len(q)
    BY <1>1
  <2>2. q[1].kind = f => Fits(s, w, q, f, 1, q[1].ver)
    BY <2>1 DEF Chained
  <2>3. ASSUME Near(s, w, q, f, 1, q[1].ver) PROVE q[1].ver <= s + 1
    BY <1>1, <2>3 DEF Near
  <2>4. QED
    BY <1>1, <2>2, <2>3 DEF Fits, First
<1>3. ASSUME NEW i \in 1..Len(Tail(q)), Tail(q)[i].kind = f
      PROVE  Fits(s, Head(q), Tail(q), f, i, Tail(q)[i].ver)
  <2>1. i \in 1..Len(q) /\ i + 1 \in 1..Len(q) /\ Tail(q)[i] = q[i + 1]
    BY <1>1
  <2>2. Fits(s, w, q, f, i + 1, Tail(q)[i].ver)
    BY <1>3, <2>1 DEF Chained
  <2>3. QED
    BY <2>1, <2>2, FitsAfterDequeue
<1>4. QED
  BY <1>2, <1>3 DEF Chained

\* A message that was written is shown, and is no older than what was.
LEMMA WriteLeavesNoGap ==
    ASSUME NEW s \in Nat, NEW w \in Messages, NEW q \in Seq(Messages), NEW f \in Feeds,
           NEW z, z = IF w.kind = f THEN w.ver ELSE s,
           w.kind = f => s <= w.ver,
           Chained(s, w, q, f)
    PROVE  /\ Chained(z, Hello, q, f)
           /\ \A i \in Nat, v \in Nat : Fits(s, w, q, f, i, v) => Fits(z, Hello, q, f, i, v)
<1>1. Hello.kind # f /\ w.ver \in Nat /\ z \in Nat /\ s <= z
  BY DEF Hello, Messages, Feeds
<1>2. ASSUME NEW i \in Nat, NEW v \in Nat, Fits(s, w, q, f, i, v)
      PROVE  Fits(z, Hello, q, f, i, v)
  <2>1. CASE First(s, w, q, f, i)
    BY <1>1, <2>1 DEF First, Fits
  <2>2. CASE v <= s + 1 \/ (w.kind = f /\ v <= w.ver + 1)
    BY <1>1, <2>2 DEF Near, Fits
  <2>3. CASE \E j \in 1..Len(q) : j < i /\ q[j].kind = f /\ v <= q[j].ver + 1
    BY <2>3 DEF Near, Fits
  <2>4. QED
    BY <1>2, <2>1, <2>2, <2>3 DEF Near, Fits
<1>3. \A i \in 1..Len(q) : i \in Nat /\ q[i].ver \in Nat
  BY VersionsAreNumbers
<1>4. QED
  BY <1>1, <1>2, <1>3 DEF Chained

\* The version that the consumer of f broadcasts next.
Coming(f) == IF cpc[f] \in {"set", "broadcast"} THEN held[f] ELSE held[f] + 1

\* The pump of c has not given up: what it drops in mid-write is never shown.
Pumping(c) == ppc[c] \in {"none", "select", "write"}

\* What c has of feed f has no gaps, and the next broadcast adds none.
Followed(c, f) ==
    /\ Chained(seen[c][f], writing[c], send[c], f)
    /\ c \in hub => Fits(seen[c][f], writing[c], send[c], f, Len(send[c]) + 1, Coming(f))

Gapless == \A c \in Clients, f \in Feeds : Pumping(c) => Followed(c, f)

\* A consumer is at most one version ahead of the cache and versions begin at 1.
Numbered ==
    /\ \A f \in Feeds :
          /\ held[f] = IF cpc[f] = "set" THEN cache[f] + 1 ELSE cache[f]
          /\ cpc[f] = "broadcast" => held[f] > 0
    /\ \A c \in Clients :
          /\ writing[c].kind \in Feeds => writing[c].ver > 0
          /\ \A i \in 1..Len(send[c]) : send[c][i].kind \in Feeds => send[c][i].ver > 0

\* A pump that waits writes nothing, and a connection that is not made has nothing.
Blank ==
    \A c \in Clients :
        /\ ppc[c] # "write" => writing[c] = Hello
        /\ hpc[c] \notin {"reading", "returned"} => ppc[c] = "none"
        /\ hpc[c] = "none" => send[c] = <<>> /\ \A f \in Feeds : seen[c][f] = 0

LEMMA ComingIsNumber ==
    ASSUME TypeOK, NEW f \in Feeds PROVE Coming(f) \in Nat
  BY DEF TypeOK, Coming

\* Queueing positive versions, or greetings, for some of the connections.
LEMMA QueueingKeepsNumbers ==
    ASSUME TypeOK, NEW c \in Clients, NEW m \in Messages, m.kind \in Feeds => m.ver > 0,
           \A i \in 1..Len(send[c]) : send[c][i].kind \in Feeds => send[c][i].ver > 0,
           send'[c] = send[c] \/ send'[c] = Append(send[c], m)
    PROVE  \A i \in 1..Len(send'[c]) : send'[c][i].kind \in Feeds => send'[c][i].ver > 0
<1>1. CASE send'[c] = send[c]
  BY <1>1
<1>2. CASE send'[c] = Append(send[c], m)
  <2>1. /\ Len(send[c]) \in Nat /\ Len(send'[c]) = Len(send[c]) + 1
        /\ send'[c][Len(send[c]) + 1] = m
        /\ \A i \in 1..Len(send[c]) : send'[c][i] = send[c][i]
    BY <1>2 DEF TypeOK
  <2>2. QED
    BY <2>1
<1>3. QED
  BY <1>1, <1>2

LEMMA NumberedStep ==
    TypeOK /\ RegistryInv /\ Numbered /\ Blank /\ [Next]_vars => Numbered' /\ Blank'
<1> SUFFICES ASSUME TypeOK, RegistryInv, Numbered, Blank, [Next]_vars PROVE Numbered' /\ Blank'
  OBVIOUS
<1>1. ASSUME NEW f \in Feeds, ReadMessage(f) PROVE Numbered' /\ Blank'
  BY <1>1 DEF ReadMessage, Numbered, Blank, TypeOK, pumpVars
<1>2. ASSUME NEW f \in Feeds, CacheSet(f) PROVE Numbered' /\ Blank'
  BY <1>2 DEF CacheSet, Numbered, Blank, TypeOK, pumpVars
<1>3. ASSUME NEW f \in Feeds, Broadcast(f) PROVE Numbered' /\ Blank'
  <2> DEFINE m == Message(f, held[f])
  <2>1. m \in Messages /\ m.ver > 0
    BY <1>3 DEF Broadcast, BroadcastEvicting, Message, Messages, Numbered, TypeOK
  <2>2. \A c \in Clients : send'[c] = send[c] \/ (c \in hub /\ send'[c] = Append(send[c], m))
    BY <1>3 DEF Broadcast, BroadcastEvicting
  <2>3. /\ UNCHANGED <<cache, held, hpc, ppc, writing, seen>> /\ cpc[f] = "broadcast"
        /\ \A g \in Feeds : g # f => cpc'[g] = cpc[g]
        /\ cpc'[f] \in {"read", "closeSlow"}
    BY <1>3 DEF Broadcast, BroadcastEvicting, TypeOK, pumpVars
  <2> HIDE DEF m
  <2>4. \A c \in Clients :
          \A i \in 1..Len(send'[c]) : send'[c][i].kind \in Feeds => send'[c][i].ver > 0
    BY <2>1, <2>2, QueueingKeepsNumbers DEF Numbered
  <2>5. Numbered'
    BY <2>3, <2>4 DEF Numbered
  <2>6. QED
    BY <2>2, <2>3, <2>5, RegistryInv DEF Blank, RegistryInv
<1>4. ASSUME NEW c \in Clients, NEW m \in Messages, NEW next \in Feeds \cup {"startPump"},
             TrySend(c, m, next), hpc[c] \notin {"none", "reading", "returned"}, UNCHANGED <<consumerVars, pumpVars>>,
             m.kind \in Feeds => m.ver > 0
      PROVE  Numbered' /\ Blank'
  <2>1. /\ send'[c] = send[c] \/ send'[c] = Append(send[c], m)
        /\ \A d \in Clients : d # c => send'[d] = send[d] /\ hpc'[d] = hpc[d]
    BY <1>4 DEF TrySend, TypeOK
  <2>2. hpc'[c] # "none"
    BY <1>4 DEF TrySend, TypeOK, Feeds
  <2>3. UNCHANGED <<cache, held, cpc, ppc, writing, seen>>
    BY <1>4 DEF consumerVars, pumpVars
  <2>4. \A i \in 1..Len(send'[c]) : send'[c][i].kind \in Feeds => send'[c][i].ver > 0
    BY <1>4, <2>1, QueueingKeepsNumbers DEF Numbered
  <2>5. Numbered'
    BY <2>1, <2>3, <2>4 DEF Numbered
  <2>6. QED
    BY <1>4, <2>1, <2>2, <2>3, <2>5 DEF Blank
<1>5. ASSUME NEW c \in Clients, SendHello(c) PROVE Numbered' /\ Blank'
  <2>1. Hello \in Messages /\ Hello.kind \notin Feeds /\ "satellites" \in Feeds
    BY DEF Hello, Messages, Feeds
  <2>2. QED
    BY <1>4, <1>5, <2>1 DEF SendHello
<1>6. ASSUME NEW c \in Clients, SendCached(c) PROVE Numbered' /\ Blank'
  <2>1. hpc[c] \notin {"none", "reading", "returned"} /\ hpc[c] \in Feeds
    BY <1>6 DEF SendCached, Feeds
  <2>2. AfterFeed[hpc[c]] \in Feeds \cup {"startPump"}
    BY <2>1 DEF AfterFeed, Feeds
  <2>3. CASE cache[hpc[c]] = 0
    <3>1. hpc' = [hpc EXCEPT ![c] = AfterFeed[hpc[c]]] /\ UNCHANGED <<send, consumerVars, pumpVars>>
      BY <1>6, <2>3 DEF SendCached
    <3>2. \A d \in Clients :
             /\ hpc'[d] = "none" => hpc[d] = "none"
             /\ hpc[d] \in {"reading", "returned"} => hpc'[d] \in {"reading", "returned"}
      BY <2>1, <2>2, <3>1 DEF Feeds, TypeOK
    <3>3. Numbered'
      BY <3>1 DEF Numbered, consumerVars, pumpVars
    <3>4. QED
      BY <3>1, <3>2, <3>3 DEF Blank, pumpVars
  <2>4. CASE cache[hpc[c]] # 0
    <3> DEFINE m == Message(hpc[c], cache[hpc[c]])
    <3>1. m \in Messages /\ m.ver > 0
      BY <2>1, <2>4 DEF Message, Messages, TypeOK
    <3>2. TrySend(c, m, AfterFeed[hpc[c]]) /\ UNCHANGED <<consumerVars, pumpVars>>
      BY <1>6, <2>4 DEF SendCached
    <3> HIDE DEF m
    <3>3. QED
      BY <1>4, <2>1, <2>2, <3>1, <3>2
  <2>5. QED
    BY <2>3, <2>4
<1>7. ASSUME NEW c \in Clients, Register(c) PROVE Numbered' /\ Blank'
  BY <1>7 DEF Register, Numbered, Blank, TypeOK, consumerVars, pumpVars
<1>8. ASSUME NEW c \in Clients, StartPump(c) PROVE Numbered' /\ Blank'
  BY <1>8 DEF StartPump, Numbered, Blank, TypeOK, consumerVars
<1>9. ASSUME NEW c \in Clients, Dequeue(c) PROVE Numbered' /\ Blank'
  <2>1. /\ send[c] # <<>> /\ send[c] \in Seq(Messages) /\ ppc[c] = "select"
        /\ send'[c] = Tail(send[c]) /\ writing'[c] = Head(send[c]) /\ ppc'[c] = "write"
        /\ \A d \in Clients : d # c => send'[d] = send[d] /\ writing'[d] = writing[d] /\ ppc'[d] = ppc[d]
        /\ UNCHANGED <<cache, held, cpc, hpc, seen>>
    BY <1>9 DEF Dequeue, TypeOK, consumerVars
  <2>2. /\ Len(send[c]) \in Nat /\ Len(send[c]) > 0 /\ Len(send'[c]) = Len(send[c]) - 1
        /\ writing'[c] = send[c][1]
        /\ \A i \in 1..Len(send'[c]) : send'[c][i] = send[c][i + 1] /\ i + 1 \in 1..Len(send[c])
    BY <2>1
  <2>3. Numbered'
    <3>1. 1 \in 1..Len(send[c])
      BY <2>2
    <3>2. writing'[c].kind \in Feeds => writing'[c].ver > 0
      BY <2>2, <3>1 DEF Numbered
    <3>3. \A i \in 1..Len(send'[c]) : send'[c][i].kind \in Feeds => send'[c][i].ver > 0
      BY <2>2 DEF Numbered
    <3>4. QED
      BY <2>1, <3>2, <3>3 DEF Numbered
  <2>4. hpc[c] # "none"
    BY <2>1 DEF Blank
  <2>5. QED
    BY <2>1, <2>3, <2>4 DEF Blank
<1>10. ASSUME NEW c \in Clients, WriteDone(c) PROVE Numbered' /\ Blank'
  <2>1. /\ writing' = [writing EXCEPT ![c] = Hello] /\ ppc' = [ppc EXCEPT ![c] = "select"]
        /\ ppc[c] = "write" /\ UNCHANGED <<cache, held, cpc, hpc, send>>
        /\ \A d \in Clients : d # c => seen'[d] = seen[d]
    BY <1>10 DEF WriteDone, TypeOK, consumerVars
  <2>2. Hello.kind \notin Feeds
    BY DEF Hello, Feeds
  <2>3. hpc[c] # "none"
    BY <2>1 DEF Blank
  <2>4. Numbered'
    BY <2>1, <2>2 DEF Numbered, TypeOK
  <2>5. QED
    BY <2>1, <2>3, <2>4 DEF Blank, TypeOK
<1>11. ASSUME NEW c \in Clients, WriteFails(c) PROVE Numbered' /\ Blank'
  <2>1. /\ writing' = [writing EXCEPT ![c] = Hello] /\ ppc' = [ppc EXCEPT ![c] = "unregister"]
        /\ ppc[c] = "write" /\ UNCHANGED <<cache, held, cpc, hpc, send, seen>>
    BY <1>11 DEF WriteFails, consumerVars
  <2>2. Hello.kind \notin Feeds
    BY DEF Hello, Feeds
  <2>3. hpc[c] # "none"
    BY <2>1 DEF Blank
  <2>4. Numbered'
    BY <2>1, <2>2 DEF Numbered, TypeOK
  <2>5. QED
    BY <2>1, <2>3, <2>4 DEF Blank, TypeOK
<1>12. ASSUME NEW c \in Clients,
              \/ ReadEnds(c) \/ PingFails(c) \/ ChannelClosed(c) \/ Unregister(c) \/ CloseConn(c)
              \/ PeerLeaves(c)
       PROVE  /\ UNCHANGED <<cache, held, cpc, send, writing, seen>>
              /\ \A d \in Clients :
                    /\ ppc'[d] # ppc[d] => ppc[d] \notin {"none", "write"} /\ ppc'[d] # "write"
                    /\ hpc'[d] = "none" => hpc[d] = "none"
                    /\ hpc[d] \in {"reading", "returned"} => hpc'[d] \in {"reading", "returned"}
  BY <1>12 DEF ReadEnds, PingFails, ChannelClosed, Unregister, CloseConn, PeerLeaves, TypeOK,
               consumerVars, pumpVars
<1>13. ASSUME NEW f \in Feeds, NEW c \in Clients, CloseSlow(f, c) PROVE Numbered' /\ Blank'
  BY <1>13 DEF CloseSlow, Numbered, Blank, TypeOK, pumpVars
<1>14. CASE /\ UNCHANGED <<cache, held, cpc, send, writing, seen>>
            /\ \A d \in Clients :
                  /\ ppc'[d] # ppc[d] => ppc[d] \notin {"none", "write"} /\ ppc'[d] # "write"
                  /\ hpc'[d] = "none" => hpc[d] = "none"
                  /\ hpc[d] \in {"reading", "returned"} => hpc'[d] \in {"reading", "returned"}
  <2>1. Numbered'
    BY <1>14 DEF Numbered
  <2>2. Blank'
    BY <1>14 DEF Blank
  <2>3. QED
    BY <2>1, <2>2
<1>15. CASE UNCHANGED vars
  BY <1>15 DEF vars, Numbered, Blank
<1>16. QED
  BY <1>1, <1>2, <1>3, <1>5, <1>6, <1>7, <1>8, <1>9, <1>10, <1>11, <1>12, <1>13, <1>14, <1>15 DEF Next

\* Of a step that moves no message and broadcasts nothing.
LEMMA QuietStep ==
    ASSUME Gapless, UNCHANGED <<send, writing, seen>>,
           \A c \in Clients : Pumping(c)' => Pumping(c),
           \A f \in Feeds : Coming(f)' = Coming(f),
           \A c \in Clients : c \in hub' => c \in hub
    PROVE  Gapless'
  BY DEF Gapless, Followed

\* A registered connection is queued the version to come, or the one before it.
LEMMA QueueingStep ==
    ASSUME TypeOK, TypeOK', NEW c \in Clients, NEW f \in Feeds, Followed(c, f), c \in hub,
           UNCHANGED <<writing, seen>>, NEW m \in Messages, send'[c] = Append(send[c], m),
           m.kind = f => m.ver <= Coming(f) /\ Coming(f)' <= m.ver + 1,
           m.kind # f => Coming(f)' = Coming(f)
    PROVE  Followed(c, f)'
<1>1. /\ seen[c][f] \in Nat /\ writing[c] \in Messages /\ send[c] \in Seq(Messages)
      /\ Coming(f) \in Nat /\ Coming(f)' \in Nat
  BY ComingIsNumber DEF TypeOK, Coming
<1>2. /\ Chained(seen[c][f], writing[c], send[c], f)
      /\ Fits(seen[c][f], writing[c], send[c], f, Len(send[c]) + 1, Coming(f))
  BY DEF Followed
<1>3. /\ Chained(seen[c][f], writing[c], Append(send[c], m), f)
      /\ Fits(seen[c][f], writing[c], Append(send[c], m), f, Len(Append(send[c], m)) + 1, Coming(f)')
  BY <1>1, <1>2, AppendLeavesNoGap
<1>4. QED
  BY <1>3 DEF Followed

LEMMA GaplessStep ==
    TypeOK /\ TypeOK' /\ RegistryInv /\ QueuesOrdered /\ Numbered /\ Blank /\ Gapless /\ [Next]_vars
      => Gapless'
<1> SUFFICES ASSUME TypeOK, TypeOK', RegistryInv, QueuesOrdered, Numbered, Blank, Gapless,
                    [Next]_vars
             PROVE  Gapless'
  OBVIOUS
<1>1. ASSUME NEW f \in Feeds, ReadMessage(f) \/ CacheSet(f) \/ \E c \in Clients : CloseSlow(f, c)
      PROVE  Gapless'
  <2>1. UNCHANGED <<send, writing, seen, ppc, hub>>
    BY <1>1 DEF ReadMessage, CacheSet, CloseSlow, pumpVars
  <2>2. \A g \in Feeds : Coming(g)' = Coming(g)
    <3>1. CASE ReadMessage(f)
      BY <3>1 DEF ReadMessage, Coming, TypeOK
    <3>2. CASE CacheSet(f)
      BY <3>2 DEF CacheSet, Coming, TypeOK
    <3>3. ASSUME NEW c \in Clients, CloseSlow(f, c) PROVE \A g \in Feeds : Coming(g)' = Coming(g)
      <4>1. held' = held /\ \A g \in Feeds : g # f => cpc'[g] = cpc[g]
        BY <3>3 DEF CloseSlow, TypeOK
      <4>2. cpc[f] = "closeSlow" /\ cpc'[f] \in {"read", "closeSlow"}
        BY <3>3 DEF CloseSlow, TypeOK
      <4>3. QED
        BY <4>1, <4>2 DEF Coming
    <3>4. QED
      BY <1>1, <3>1, <3>2, <3>3
  <2>3. QED
    BY <2>1, <2>2, QuietStep DEF Pumping
<1>2. ASSUME NEW f \in Feeds, Broadcast(f) PROVE Gapless'
  <2> DEFINE m == Message(f, held[f])
  <2>1. /\ UNCHANGED <<writing, seen, ppc, held>> /\ cpc[f] = "broadcast"
        /\ cpc'[f] \in {"read", "closeSlow"} /\ \A g \in Feeds : g # f => cpc'[g] = cpc[g]
        /\ \A c \in Clients : /\ c \in hub' => c \in hub /\ send'[c] = Append(send[c], m)
                              /\ c \notin hub' => send'[c] = send[c]
    BY <1>2 DEF Broadcast, BroadcastEvicting, TypeOK, pumpVars
  <2>2. /\ m \in Messages /\ m.kind = f /\ m.ver = Coming(f) /\ Coming(f)' = m.ver + 1
        /\ \A g \in Feeds : g # f => Coming(g)' = Coming(g)
    BY <2>1 DEF Message, Messages, Coming, TypeOK
  <2> HIDE DEF m
  <2>3. ASSUME NEW c \in Clients, NEW g \in Feeds, Pumping(c)' PROVE Followed(c, g)'
    <3>1. Followed(c, g)
      BY <2>1, <2>3 DEF Gapless, Pumping
    <3>2. CASE c \in hub'
      <4>1. m.ver \in Nat
        BY <2>2, VersionsAreNumbers
      <4>2. m.kind = g => m.ver <= Coming(g) /\ Coming(g)' <= m.ver + 1
        BY <2>2, <4>1
      <4>3. QED
        BY <2>1, <2>2, <3>1, <3>2, <4>2, QueueingStep
    <3>3. CASE c \notin hub'
      BY <2>1, <3>1, <3>3 DEF Followed
    <3>4. QED
      BY <3>2, <3>3
  <2>4. QED
    BY <2>3 DEF Gapless
<1>3. ASSUME NEW c \in Clients, NEW m \in Messages, NEW next, TrySend(c, m, next),
             hpc[c] # "none", UNCHANGED <<consumerVars, pumpVars, hub>>,
             m.kind \in Feeds => m.ver = cache[m.kind]
      PROVE  Gapless'
  <2>1. UNCHANGED <<cache, held, cpc, ppc, writing, seen, hub>>
    BY <1>3 DEF consumerVars, pumpVars
  <2>2. \A f \in Feeds : Coming(f)' = Coming(f)
    BY <2>1 DEF Coming
  <2>3. CASE send' = send
    BY <2>1, <2>2, <2>3, QuietStep DEF Pumping
  <2>4. CASE closes[c] = 0 /\ send' = [send EXCEPT ![c] = Append(@, m)]
    <3>1. c \in hub
      BY <1>3, <2>4 DEF RegistryInv, ChannelClosedOnce
    <3>2. ASSUME NEW f \in Feeds, m.kind = f
          PROVE  m.ver <= Coming(f) /\ Coming(f)' <= m.ver + 1
      <4>1. m.ver = cache[f] /\ cache[f] \in Nat
        BY <1>3, <3>2 DEF TypeOK
      <4>2. Coming(f) \in {cache[f], cache[f] + 1}
        BY DEF Numbered, Coming
      <4>3. QED
        BY <2>2, <4>1, <4>2
    <3>3. ASSUME NEW f \in Feeds, Pumping(c)' PROVE Followed(c, f)'
      <4>1. Followed(c, f) /\ send'[c] = Append(send[c], m)
        BY <2>1, <2>4, <3>3 DEF Gapless, Pumping, TypeOK
      <4>2. QED
        BY <2>1, <2>2, <3>1, <3>2, <4>1, QueueingStep
    <3>4. ASSUME NEW d \in Clients, d # c, NEW f \in Feeds, Pumping(d)' PROVE Followed(d, f)'
      <4>1. send'[d] = send[d] /\ Followed(d, f)
        BY <2>1, <2>4, <3>4 DEF Gapless, Pumping, TypeOK
      <4>2. QED
        BY <2>1, <2>2, <4>1 DEF Followed
    <3>5. QED
      BY <3>3, <3>4 DEF Gapless
  <2>5. closes[c] \in Nat
    BY DEF TypeOK
  <2>6. QED
    BY <1>3, <2>3, <2>4, <2>5 DEF TrySend
<1>4. ASSUME NEW c \in Clients, SendHello(c) PROVE Gapless'
  <2>1. Hello \in Messages /\ Hello.kind \notin Feeds
    BY DEF Hello, Messages, Feeds
  <2>2. QED
    BY <1>3, <1>4, <2>1 DEF SendHello
<1>5. ASSUME NEW c \in Clients, SendCached(c) PROVE Gapless'
  <2>1. hpc[c] # "none" /\ hpc[c] \in Feeds
    BY <1>5 DEF SendCached, Feeds
  <2>2. CASE cache[hpc[c]] = 0
    <3>1. UNCHANGED <<send, writing, seen, ppc, hub, cpc, held>>
      BY <1>5, <2>2 DEF SendCached, consumerVars, pumpVars
    <3>2. QED
      BY <3>1, QuietStep DEF Pumping, Coming
  <2>3. CASE cache[hpc[c]] # 0
    <3> DEFINE m == Message(hpc[c], cache[hpc[c]])
    <3>1. m \in Messages /\ m.ver = cache[m.kind]
      BY <2>1 DEF Message, Messages, TypeOK
    <3>2. TrySend(c, m, AfterFeed[hpc[c]]) /\ UNCHANGED <<consumerVars, pumpVars, hub>>
      BY <1>5, <2>3 DEF SendCached
    <3> HIDE DEF m
    <3>3. QED
      BY <1>3, <2>1, <3>1, <3>2
  <2>4. QED
    BY <2>2, <2>3
<1>6. ASSUME NEW c \in Clients, Register(c) PROVE Gapless'
  <2>1. /\ hub' = hub \cup {c} /\ hpc[c] = "none"
        /\ UNCHANGED <<send, writing, seen, ppc, held, cpc>>
    BY <1>6 DEF Register, consumerVars, pumpVars
  <2>2. \A f \in Feeds : Coming(f)' = Coming(f)
    BY <2>1 DEF Coming
  <2>3. ASSUME NEW f \in Feeds PROVE Followed(c, f)'
    <3>1. seen[c][f] = 0 /\ send[c] = <<>> /\ writing[c].kind # f
      BY <2>1 DEF Blank, Hello, Feeds
    <3>2. Chained(seen[c][f], writing[c], send[c], f)
      BY <3>1 DEF Chained
    <3>3. \A v : Fits(seen[c][f], writing[c], send[c], f, Len(send[c]) + 1, v)
      BY <3>1 DEF Fits, First
    <3>4. QED
      BY <2>1, <3>2, <3>3 DEF Followed
  <2>4. ASSUME NEW d \in Clients, d # c, NEW f \in Feeds, Pumping(d)' PROVE Followed(d, f)'
    <3>1. Followed(d, f)
      BY <2>1, <2>4 DEF Gapless, Pumping
    <3>2. QED
      BY <2>1, <2>2, <2>4, <3>1 DEF Followed
  <2>5. QED
    BY <2>3, <2>4 DEF Gapless
<1>7. ASSUME NEW c \in Clients, Dequeue(c) PROVE Gapless'
  <2>1. /\ send[c] # <<>> /\ ppc[c] = "select" /\ UNCHANGED <<hub, held, cpc, seen>>
        /\ send'[c] = Tail(send[c]) /\ writing'[c] = Head(send[c])
        /\ \A d \in Clients : d # c =>
              send'[d] = send[d] /\ writing'[d] = writing[d] /\ ppc'[d] = ppc[d]
    BY <1>7 DEF Dequeue, TypeOK, consumerVars
  <2>2. \A f \in Feeds : Coming(f)' = Coming(f)
    BY <2>1 DEF Coming
  <2>3. ASSUME NEW f \in Feeds PROVE Followed(c, f)'
    <3>1. Followed(c, f)
      BY <2>1 DEF Gapless, Pumping
    <3>2. /\ seen[c][f] \in Nat /\ writing[c] \in Messages /\ send[c] \in Seq(Messages)
          /\ writing[c].kind # f
      <4>1. writing[c] = Hello /\ Hello.kind \notin Feeds
        BY <2>1 DEF Blank, Hello, Feeds
      <4>2. QED
        BY <4>1 DEF TypeOK
    <3>3. Chained(seen[c][f], Head(send[c]), Tail(send[c]), f)
      BY <2>1, <3>1, <3>2, DequeueLeavesNoGap DEF Followed
    <3>4. Len(send[c]) \in 1..Len(send[c]) /\ Len(Tail(send[c])) + 1 = Len(send[c])
      BY <2>1, <3>2
    <3>5. c \in hub => Fits(seen[c][f], Head(send[c]), Tail(send[c]), f, Len(send[c]), Coming(f))
      BY <2>1, <3>1, <3>2, <3>4, FitsAfterDequeue DEF Followed
    <3>6. QED
      BY <2>1, <2>2, <3>3, <3>4, <3>5 DEF Followed
  <2>4. ASSUME NEW d \in Clients, d # c, NEW f \in Feeds, Pumping(d)' PROVE Followed(d, f)'
    <3>1. Followed(d, f)
      BY <2>1, <2>4 DEF Gapless, Pumping
    <3>2. QED
      BY <2>1, <2>2, <2>4, <3>1 DEF Followed
  <2>5. QED
    BY <2>3, <2>4 DEF Gapless
<1>8. ASSUME NEW c \in Clients, WriteDone(c) PROVE Gapless'
  <2>1. /\ ppc[c] = "write" /\ UNCHANGED <<hub, held, cpc, send>> /\ writing'[c] = Hello
        /\ \A d \in Clients : d # c =>
              seen'[d] = seen[d] /\ writing'[d] = writing[d] /\ ppc'[d] = ppc[d]
        /\ \A f \in Feeds : seen'[c][f] = IF writing[c].kind = f THEN writing[c].ver ELSE seen[c][f]
    BY <1>8 DEF WriteDone, TypeOK, consumerVars
  <2>2. \A f \in Feeds : Coming(f)' = Coming(f) /\ Coming(f) \in Nat
    BY <2>1, ComingIsNumber DEF Coming
  <2>3. ASSUME NEW f \in Feeds PROVE Followed(c, f)'
    <3>1. Followed(c, f)
      BY <2>1 DEF Gapless, Pumping
    <3>2. /\ seen[c][f] \in Nat /\ writing[c] \in Messages /\ send[c] \in Seq(Messages)
          /\ writing[c].kind = f => seen[c][f] <= writing[c].ver
      BY DEF TypeOK, QueuesOrdered
    <3>3. /\ Chained(seen'[c][f], Hello, send[c], f)
          /\ \A i \in Nat, v \in Nat :
                Fits(seen[c][f], writing[c], send[c], f, i, v) => Fits(seen'[c][f], Hello, send[c], f, i, v)
      BY <2>1, <3>1, <3>2, WriteLeavesNoGap DEF Followed
    <3>4. Len(send[c]) + 1 \in Nat
      BY <3>2
    <3>5. QED
      BY <2>1, <2>2, <3>1, <3>3, <3>4 DEF Followed
  <2>4. ASSUME NEW d \in Clients, d # c, NEW f \in Feeds, Pumping(d)' PROVE Followed(d, f)'
    <3>1. Followed(d, f)
      BY <2>1, <2>4 DEF Gapless, Pumping
    <3>2. QED
      BY <2>1, <2>2, <2>4, <3>1 DEF Followed
  <2>5. QED
    BY <2>3, <2>4 DEF Gapless
<1>9. ASSUME NEW c \in Clients, WriteFails(c) PROVE Gapless'
  <2>1. /\ UNCHANGED <<hub, held, cpc, send, seen>> /\ ppc'[c] = "unregister"
        /\ \A d \in Clients : d # c => writing'[d] = writing[d] /\ ppc'[d] = ppc[d]
    BY <1>9 DEF WriteFails, TypeOK, consumerVars
  <2>2. \A f \in Feeds : Coming(f)' = Coming(f)
    BY <2>1 DEF Coming
  <2>3. ASSUME NEW d \in Clients, NEW f \in Feeds, Pumping(d)' PROVE Followed(d, f)'
    <3>1. d # c /\ Followed(d, f)
      BY <2>1, <2>3 DEF Gapless, Pumping
    <3>2. QED
      BY <2>1, <2>2, <3>1 DEF Followed
  <2>4. QED
    BY <2>3 DEF Gapless
<1>10. ASSUME NEW c \in Clients,
              \/ StartPump(c) \/ ReadEnds(c) \/ PingFails(c) \/ ChannelClosed(c) \/ Unregister(c)
              \/ CloseConn(c) \/ PeerLeaves(c)
       PROVE  Gapless'
  <2>1. UNCHANGED <<send, writing, seen, held, cpc>> /\ \A d \in Clients : d \in hub' => d \in hub
    BY <1>10 DEF StartPump, ReadEnds, PingFails, ChannelClosed, Unregister, CloseConn, PeerLeaves,
                 consumerVars, pumpVars
  <2>2. ppc[c] \in {"none", "select"} \/ ppc'[c] \notin {"none", "select", "write"} \/ ppc'[c] = ppc[c]
    BY <1>10 DEF StartPump, ReadEnds, PingFails, ChannelClosed, Unregister, CloseConn, PeerLeaves,
                 TypeOK, Blank, pumpVars
  <2>3. \A d \in Clients : d # c => ppc'[d] = ppc[d]
    BY <1>10 DEF StartPump, ReadEnds, PingFails, ChannelClosed, Unregister, CloseConn, PeerLeaves,
                 TypeOK, pumpVars
  <2>4. \A d \in Clients : Pumping(d)' => Pumping(d)
    BY <2>2, <2>3 DEF Pumping
  <2>5. QED
    BY <2>1, <2>4, QuietStep DEF Coming
<1>11. CASE UNCHANGED vars
  BY <1>11, QuietStep DEF vars, Pumping, Coming
<1>12. QED
  BY <1>1, <1>2, <1>4, <1>5, <1>6, <1>7, <1>8, <1>9, <1>10, <1>11 DEF Next

LEMMA HubGapless == Spec => [](Numbered /\ Blank /\ Gapless)
<1>1. Init => Numbered /\ Blank /\ Gapless
  <2> SUFFICES ASSUME Init PROVE Numbered /\ Blank /\ Gapless
    OBVIOUS
  <2>1. Numbered
    BY DEF Init, Numbered, Hello, Feeds
  <2>2. Blank
    BY DEF Init, Blank
  <2>3. ASSUME NEW c \in Clients, NEW f \in Feeds PROVE Followed(c, f)
    <3>1. send[c] = <<>> /\ writing[c].kind # f /\ c \notin hub
      BY DEF Init, Hello, Feeds
    <3>2. QED
      BY <3>1 DEF Followed, Chained
  <2>4. QED
    BY <2>1, <2>2, <2>3 DEF Gapless
<1>2. QED
  BY <1>1, NumberedStep, GaplessStep, HubTypeCorrect, HubRegistry, HubQueuesOrdered, PTL DEF Spec

\* The hub implements the subscription (FeedSubscription): storing a payload
\* publishes it, a write shows the next version, and every other step is a stutter.
THEOREM HubImplementsSubscription == Spec => ImplementsSubscription
<1>1. Init => Subscription!Init
  BY DEF Init, Subscription!Init
<1>2. TypeOK /\ QueuesOrdered /\ Numbered /\ Blank /\ Gapless /\ [Next]_vars
        => [Subscription!Next]_(Subscription!vars)
  <2> SUFFICES ASSUME TypeOK, QueuesOrdered, Numbered, Blank, Gapless, [Next]_vars
               PROVE  Subscription!Next \/ UNCHANGED <<cache, seen>>
    BY DEF Subscription!vars
  <2>1. ASSUME NEW f \in Feeds, CacheSet(f) PROVE Subscription!Next
    <3>1. held[f] = cache[f] + 1 /\ cache' = [cache EXCEPT ![f] = held[f]] /\ seen' = seen
      BY <2>1 DEF CacheSet, Numbered, pumpVars
    <3>2. Subscription!Publish(f)
      BY <3>1 DEF Subscription!Publish
    <3>3. QED
      BY <3>2 DEF Subscription!Next
  <2>2. ASSUME NEW c \in Clients, WriteDone(c)
        PROVE  Subscription!Next \/ UNCHANGED <<cache, seen>>
    <3>1. cache' = cache
      BY <2>2 DEF WriteDone, consumerVars
    <3>2. CASE writing[c].kind \notin Feeds
      BY <2>2, <3>1, <3>2 DEF WriteDone
    <3>3. CASE writing[c].kind \in Feeds
      <4>1. PICK f \in Feeds : f = writing[c].kind
        BY <3>3
      <4>2. PICK v : v = writing[c].ver
        OBVIOUS
      <4>3. seen' = [seen EXCEPT ![c][f] = v]
        BY <2>2, <4>1, <4>2 DEF WriteDone
      <4>4. v \in Nat /\ v > 0 /\ v <= cache[f] /\ seen[c][f] <= v /\ seen[c][f] \in Nat /\ cache[f] \in Nat
        BY <4>1, <4>2, QueuedVersions DEF Numbered, QueuesOrdered, TypeOK
      <4>5. seen[c][f] = 0 \/ v <= seen[c][f] + 1
        <5>1. Pumping(c)
          BY <2>2 DEF WriteDone, Pumping
        <5>2. QED
          BY <4>1, <4>2, <5>1 DEF Gapless, Followed, Chained
      <4>6. CASE v = seen[c][f]
        <5>1. seen' = seen
          BY <4>3, <4>6 DEF TypeOK
        <5>2. QED
          BY <3>1, <5>1
      <4>7. CASE v # seen[c][f]
        <5>1. v \in 1..cache[f] /\ (seen[c][f] = 0 \/ v = seen[c][f] + 1)
          BY <4>4, <4>5, <4>7
        <5>2. Subscription!Show(c, f)
          BY <3>1, <4>3, <5>1 DEF Subscription!Show
        <5>3. QED
          BY <5>2 DEF Subscription!Next
      <4>8. QED
        BY <4>6, <4>7
    <3>4. QED
      BY <3>2, <3>3
  <2>3. ASSUME NEW f \in Feeds, ReadMessage(f) \/ Broadcast(f) \/ \E c \in Clients : CloseSlow(f, c)
        PROVE  UNCHANGED <<cache, seen>>
    BY <2>3 DEF ReadMessage, Broadcast, BroadcastEvicting, CloseSlow, pumpVars
  <2>4. ASSUME NEW c \in Clients,
               \/ Register(c) \/ SendHello(c) \/ SendCached(c) \/ StartPump(c) \/ ReadEnds(c)
               \/ Dequeue(c) \/ WriteFails(c) \/ PingFails(c) \/ ChannelClosed(c)
               \/ Unregister(c) \/ CloseConn(c) \/ PeerLeaves(c)
        PROVE  UNCHANGED <<cache, seen>>
    BY <2>4 DEF Register, SendHello, SendCached, StartPump, ReadEnds, Dequeue, WriteFails,
                PingFails, ChannelClosed, Unregister, CloseConn, PeerLeaves, consumerVars, pumpVars
  <2>5. UNCHANGED vars => UNCHANGED <<cache, seen>>
    BY DEF vars
  <2>6. QED
    BY <2>1, <2>2, <2>3, <2>4, <2>5 DEF Next
<1>3. QED
  BY <1>1, <1>2, HubTypeCorrect, HubQueuesOrdered, HubGapless, PTL
     DEF Spec, ImplementsSubscription, Subscription!Spec

-----------------------------------------------------------------------------
(* The coherence of a connection at rest.                                  *)

\* The handler's select takes its default: a cached payload finds the queue of
\* its connection full and is dropped.
SnapshotDropped(c) ==
    SendCached(c) /\ cache[hpc[c]] # 0 /\ closes[c] = 0 /\ Full(c)
KeepsSnapshots == \A c \in Clients : ~SnapshotDropped(c)
NothingDropped == [][KeepsSnapshots]_vars

\* Version v of feed f is shown, being written, or queued.
Has(s, w, q, f, v) ==
    \/ s = v
    \/ w.kind = f /\ w.ver = v
    \/ \E j \in 1..Len(q) : q[j].kind = f /\ q[j].ver = v

\* sendAll is past feed f.
Sent(h, f) ==
    \/ h \in {"startPump", "reading", "returned"}
    \/ f = "satellites" /\ h \in {"conjunctions", "spaceWeather"}
    \/ f = "conjunctions" /\ h = "spaceWeather"

\* A registered connection has the cached version of every feed that it was sent,
\* but for what is about to be broadcast.
Fresh(c, f) == Has(seen[c][f], writing[c], send[c], f, cache[f])
Caught ==
    \A c \in Clients, f \in Feeds :
        c \in hub /\ Pumping(c) /\ Sent(hpc[c], f) /\ cpc[f] # "broadcast" => Fresh(c, f)

LEMMA HasAfterAppend ==
    ASSUME NEW s, NEW w, NEW q \in Seq(Messages), NEW f, NEW m \in Messages, NEW v
    PROVE  /\ Has(s, w, q, f, v) => Has(s, w, Append(q, m), f, v)
           /\ m.kind = f /\ m.ver = v => Has(s, w, Append(q, m), f, v)
<1> DEFINE r == Append(q, m)
<1>1. /\ Len(q) \in Nat /\ Len(r) = Len(q) + 1 /\ r[Len(q) + 1] = m /\ \A j \in 1..Len(q) : r[j] = q[j]
  OBVIOUS
<1> HIDE DEF r
<1>2. \A j \in 1..Len(q) : j \in 1..Len(r)
  BY <1>1
<1>3. Len(q) + 1 \in 1..Len(r)
  BY <1>1
<1>4. QED
  BY <1>1, <1>2, <1>3 DEF Has, r

LEMMA HasAfterDequeue ==
    ASSUME NEW s, NEW w, NEW q \in Seq(Messages), NEW f, NEW v, q # <<>>, w.kind # f, Has(s, w, q, f, v)
    PROVE  Has(s, Head(q), Tail(q), f, v)
<1>1. /\ Len(q) \in Nat /\ Len(q) > 0 /\ Len(Tail(q)) = Len(q) - 1 /\ Head(q) = q[1]
      /\ \A j \in 1..Len(Tail(q)) : Tail(q)[j] = q[j + 1]
  OBVIOUS
<1>2. ASSUME NEW j \in 1..Len(q), q[j].kind = f, q[j].ver = v PROVE Has(s, Head(q), Tail(q), f, v)
  <2>1. CASE j = 1
    BY <1>1, <1>2, <2>1 DEF Has
  <2>2. CASE j # 1
    <3>1. j - 1 \in 1..Len(Tail(q)) /\ Tail(q)[j - 1] = q[j]
      BY <1>1, <2>2
    <3>2. QED
      BY <1>2, <3>1 DEF Has
  <2>3. QED
    BY <2>1, <2>2
<1>3. QED
  BY <1>2 DEF Has

\* A step that moves no message, sends nothing and broadcasts nothing.
LEMMA CaughtRests ==
    ASSUME Caught, UNCHANGED <<send, writing, seen, cache>>,
           \A c \in Clients : /\ c \in hub' => c \in hub
                              /\ Pumping(c)' => Pumping(c)
                              /\ \A f \in Feeds : Sent(hpc'[c], f) => Sent(hpc[c], f),
           \A f \in Feeds : cpc'[f] # "broadcast" => cpc[f] # "broadcast"
    PROVE  Caught'
<1> SUFFICES ASSUME NEW c \in Clients, NEW f \in Feeds,
                    c \in hub', Pumping(c)', Sent(hpc'[c], f), cpc'[f] # "broadcast"
             PROVE  Fresh(c, f)'
  BY DEF Caught
<1>1. Fresh(c, f)
  BY DEF Caught
<1>2. QED
  BY <1>1 DEF Fresh

LEMMA CaughtStep ==
    TypeOK /\ HeldInv /\ RegistryInv /\ QueuesOrdered /\ Blank /\ Caught
      /\ [Next]_vars /\ [KeepsSnapshots]_vars => Caught'
<1> SUFFICES ASSUME TypeOK, HeldInv, RegistryInv, QueuesOrdered, Blank, Caught, [Next]_vars,
                    [KeepsSnapshots]_vars
             PROVE  Caught'
  OBVIOUS
<1>1. ASSUME NEW f \in Feeds, ReadMessage(f) PROVE Caught'
  BY <1>1, CaughtRests DEF ReadMessage, pumpVars, Pumping, TypeOK
<1>2. ASSUME NEW f \in Feeds, CacheSet(f) PROVE Caught'
  <2>1. /\ UNCHANGED <<send, writing, seen, hub, hpc, ppc>> /\ cpc'[f] = "broadcast"
        /\ \A g \in Feeds : g # f => cpc'[g] = cpc[g] /\ cache'[g] = cache[g]
    BY <1>2 DEF CacheSet, pumpVars, TypeOK
  <2>2. QED
    BY <2>1 DEF Caught, Fresh, Pumping
<1>3. ASSUME NEW f \in Feeds, Broadcast(f) PROVE Caught'
  <2> DEFINE m == Message(f, held[f])
  <2>1. /\ UNCHANGED <<writing, seen, ppc, cache, hpc>>
        /\ \A g \in Feeds : g # f => cpc'[g] = cpc[g]
        /\ \A c \in Clients : c \in hub' => c \in hub /\ send'[c] = Append(send[c], m)
    BY <1>3 DEF Broadcast, BroadcastEvicting, TypeOK, pumpVars
  <2>2. m \in Messages /\ m.kind = f /\ m.ver = cache[f]
    BY <1>3 DEF Message, Messages, TypeOK, HeldInv, Broadcast, BroadcastEvicting
  <2> HIDE DEF m
  <2>3. ASSUME NEW c \in Clients, NEW g \in Feeds, c \in hub', Pumping(c)', Sent(hpc'[c], g), cpc'[g] # "broadcast"
        PROVE  Fresh(c, g)'
    <3>1. send[c] \in Seq(Messages) /\ c \in hub /\ Pumping(c) /\ Sent(hpc[c], g)
      BY <2>1, <2>3 DEF TypeOK, Pumping
    <3>2. Has(seen[c][g], writing[c], Append(send[c], m), g, cache[g])
      <4>1. CASE g = f
        BY <2>2, <3>1, <4>1, HasAfterAppend
      <4>2. CASE g # f
        BY <2>1, <2>2, <2>3, <3>1, <4>2, HasAfterAppend DEF Caught, Fresh
      <4>3. QED
        BY <4>1, <4>2
    <3>3. QED
      BY <2>1, <2>3, <3>2 DEF Fresh
  <2>4. QED
    BY <2>3 DEF Caught
<1>4. ASSUME NEW f \in Feeds, NEW c \in Clients, CloseSlow(f, c) PROVE Caught'
  BY <1>4, CaughtRests DEF CloseSlow, pumpVars, Pumping, TypeOK
<1>5. ASSUME NEW c \in Clients, Register(c) PROVE Caught'
  <2>1. /\ UNCHANGED <<send, writing, seen, cache, ppc, cpc>> /\ hpc'[c] = "hello"
        /\ \A d \in Clients : d # c => hpc'[d] = hpc[d] /\ (d \in hub' => d \in hub)
    BY <1>5 DEF Register, consumerVars, pumpVars, TypeOK
  <2>2. \A f \in Feeds : ~Sent(hpc'[c], f)
    BY <2>1 DEF Sent
  <2>3. QED
    BY <2>1, <2>2 DEF Caught, Fresh, Pumping
  \* What a handler queues, it adds to what the connection has.
<1>6. ASSUME NEW c \in Clients, NEW m \in Messages, NEW next, UNCHANGED <<consumerVars, pumpVars, hub>>,
             hpc' = [hpc EXCEPT ![c] = next], send' = [send EXCEPT ![c] = Append(@, m)],
             \A f \in Feeds : Sent(next, f) => Sent(hpc[c], f) \/ m = Message(f, cache[f])
      PROVE  Caught'
  <2>1. /\ UNCHANGED <<cache, writing, seen, hub, ppc, cpc>> /\ send[c] \in Seq(Messages)
        /\ hpc'[c] = next /\ send'[c] = Append(send[c], m)
        /\ \A d \in Clients : d # c => hpc'[d] = hpc[d] /\ send'[d] = send[d]
    BY <1>6 DEF consumerVars, pumpVars, TypeOK
  <2>2. ASSUME NEW f \in Feeds, c \in hub, Pumping(c), Sent(next, f), cpc[f] # "broadcast" PROVE Fresh(c, f)'
    <3>1. m = Message(f, cache[f]) => m.kind = f /\ m.ver = cache[f]
      BY DEF Message
    <3>2. Has(seen[c][f], writing[c], send[c], f, cache[f]) \/ (m.kind = f /\ m.ver = cache[f])
      BY <1>6, <2>2, <3>1 DEF Caught, Fresh
    <3>3. Has(seen[c][f], writing[c], Append(send[c], m), f, cache[f])
      BY <2>1, <3>2, HasAfterAppend
    <3>4. QED
      BY <2>1, <3>3 DEF Fresh
  <2>3. QED
    BY <2>1, <2>2 DEF Caught, Fresh, Pumping
<1>7. ASSUME NEW c \in Clients, SendHello(c) PROVE Caught'
  <2>1. hpc[c] = "hello" /\ TrySend(c, Hello, "satellites") /\ UNCHANGED <<consumerVars, pumpVars, hub>>
    BY <1>7 DEF SendHello
  <2>2. Hello \in Messages /\ \A f \in Feeds : ~Sent("satellites", f) /\ ~Sent("panicked", f)
    BY DEF Hello, Messages, Sent
  <2>3. CASE send' = send
    <3>1. /\ hpc'[c] \in {"panicked", "satellites"}
          /\ \A d \in Clients : d # c => hpc'[d] = hpc[d]
      BY <2>1 DEF TrySend, TypeOK
    <3>2. \A d \in Clients, f \in Feeds : Sent(hpc'[d], f) => Sent(hpc[d], f)
      BY <2>2, <3>1
    <3>3. UNCHANGED <<cache, writing, seen, hub, ppc, cpc>>
      BY <2>1 DEF consumerVars, pumpVars
    <3>4. QED
      BY <2>1, <2>3, <3>2, <3>3, CaughtRests DEF consumerVars, pumpVars, Pumping
  <2>4. CASE send' # send
    BY <1>6, <2>1, <2>2, <2>4 DEF TrySend
  <2>5. QED
    BY <2>3, <2>4
<1>8. ASSUME NEW c \in Clients, SendCached(c) PROVE Caught'
  <2>1. hpc[c] \in Feeds /\ UNCHANGED <<consumerVars, pumpVars, hub>>
    BY <1>8 DEF SendCached
  <2>2. \A f \in Feeds : Sent(AfterFeed[hpc[c]], f) => Sent(hpc[c], f) \/ f = hpc[c]
    BY <2>1 DEF Sent, AfterFeed, Feeds
  <2>3. \A f \in Feeds : ~Sent("panicked", f)
    BY DEF Sent
  <2>4. CASE cache[hpc[c]] = 0
    <3>1. /\ UNCHANGED <<send, cache, writing, seen, hub, ppc, cpc>> /\ hpc'[c] = AfterFeed[hpc[c]]
          /\ \A d \in Clients : d # c => hpc'[d] = hpc[d]
      BY <1>8, <2>1, <2>4 DEF SendCached, consumerVars, pumpVars, TypeOK
    <3>2. Fresh(c, hpc[c])
      BY <2>1, <2>4 DEF QueuesOrdered, TypeOK, Fresh, Has
    <3>3. QED
      BY <2>2, <3>1, <3>2 DEF Caught, Fresh, Pumping
  <2>5. CASE cache[hpc[c]] # 0
    <3> DEFINE m == Message(hpc[c], cache[hpc[c]])
    <3>1. m \in Messages
      BY <2>1 DEF Message, Messages, TypeOK
    <3>2. TrySend(c, m, AfterFeed[hpc[c]])
      BY <1>8, <2>5 DEF SendCached
    <3>3. CASE closes[c] > 0
      <4>1. \A d \in Clients, f \in Feeds : Sent(hpc'[d], f) => Sent(hpc[d], f)
        BY <2>3, <3>2, <3>3 DEF TrySend, TypeOK
      <4>2. QED
        BY <2>1, <3>2, <3>3, <4>1, CaughtRests DEF TrySend, consumerVars, pumpVars, Pumping
    <3>4. CASE ~(closes[c] > 0)
      <4>1. closes[c] = 0
        BY <3>4 DEF TypeOK
      <4>2. UNCHANGED vars => Caught'
        BY DEF vars, Caught, Fresh, Pumping
      <4>3. CASE KeepsSnapshots
        <5>1. ~Full(c)
          BY <1>8, <2>5, <4>1, <4>3 DEF SnapshotDropped, KeepsSnapshots
        <5>2. hpc' = [hpc EXCEPT ![c] = AfterFeed[hpc[c]]] /\ send' = [send EXCEPT ![c] = Append(@, m)]
          BY <3>2, <3>4, <5>1 DEF TrySend
        <5>3. QED
          BY <1>6, <2>1, <2>2, <3>1, <5>2
      <4>4. QED
        BY <4>2, <4>3
    <3>5. QED
      BY <3>3, <3>4
  <2>6. QED
    BY <2>4, <2>5
<1>9. ASSUME NEW c \in Clients, StartPump(c) \/ ReadEnds(c) PROVE Caught'
  <2>1. /\ UNCHANGED <<send, writing, seen, cache, hub, cpc>>
        /\ \A d \in Clients, f \in Feeds : Sent(hpc'[d], f) => Sent(hpc[d], f)
    BY <1>9 DEF StartPump, ReadEnds, consumerVars, pumpVars, TypeOK, Sent
  <2>2. \A d \in Clients : Pumping(d)' => Pumping(d)
    BY <1>9 DEF StartPump, ReadEnds, pumpVars, TypeOK, Pumping, Blank
  <2>3. QED
    BY <2>1, <2>2, CaughtRests
<1>10. ASSUME NEW c \in Clients, Dequeue(c) PROVE Caught'
  <2>1. /\ send[c] # <<>> /\ send[c] \in Seq(Messages) /\ ppc[c] = "select"
        /\ UNCHANGED <<cache, cpc, hub, hpc, seen>>
        /\ send'[c] = Tail(send[c]) /\ writing'[c] = Head(send[c])
        /\ \A d \in Clients : d # c => send'[d] = send[d] /\ writing'[d] = writing[d] /\ ppc'[d] = ppc[d]
    BY <1>10 DEF Dequeue, TypeOK, consumerVars
  <2>2. \A f \in Feeds : writing[c].kind # f
    BY <2>1 DEF Blank, Hello, Feeds
  <2>3. \A f \in Feeds : Fresh(c, f) => Fresh(c, f)'
    BY <2>1, <2>2, HasAfterDequeue DEF Fresh
  <2>4. QED
    BY <2>1, <2>3 DEF Caught, Fresh, Pumping
<1>11. ASSUME NEW c \in Clients, WriteDone(c) PROVE Caught'
  <2>1. /\ ppc[c] = "write" /\ UNCHANGED <<cache, cpc, hub, hpc, send>>
        /\ \A d \in Clients : d # c =>
              seen'[d] = seen[d] /\ writing'[d] = writing[d] /\ ppc'[d] = ppc[d]
        /\ \A f \in Feeds : seen'[c][f] = IF writing[c].kind = f THEN writing[c].ver ELSE seen[c][f]
    BY <1>11 DEF WriteDone, TypeOK, consumerVars
  <2>2. ASSUME NEW f \in Feeds, Fresh(c, f) PROVE Fresh(c, f)'
    <3>1. writing[c].kind = f => seen[c][f] <= writing[c].ver /\ writing[c].ver <= cache[f]
      BY DEF QueuesOrdered
    <3>2. seen[c][f] \in Nat /\ writing[c].ver \in Nat /\ cache[f] \in Nat
      BY QueuedVersions DEF TypeOK
    <3>3. QED
      BY <2>1, <2>2, <3>1, <3>2 DEF Fresh, Has
  <2>3. QED
    BY <2>1, <2>2 DEF Caught, Fresh, Pumping
<1>12. ASSUME NEW c \in Clients, WriteFails(c) PROVE Caught'
  <2>1. /\ UNCHANGED <<cache, cpc, hub, hpc, send, seen>> /\ ppc'[c] = "unregister"
        /\ \A d \in Clients : d # c => writing'[d] = writing[d] /\ ppc'[d] = ppc[d]
    BY <1>12 DEF WriteFails, TypeOK, consumerVars
  <2>2. QED
    BY <2>1 DEF Caught, Fresh, Pumping
<1>13. ASSUME NEW c \in Clients, PingFails(c) \/ ChannelClosed(c) \/ Unregister(c) \/ CloseConn(c) \/ PeerLeaves(c)
       PROVE  Caught'
  <2>1. /\ UNCHANGED <<send, writing, seen, cache, cpc, hpc>> /\ \A d \in Clients : d \in hub' => d \in hub
    BY <1>13 DEF PingFails, ChannelClosed, Unregister, CloseConn, PeerLeaves, consumerVars, pumpVars
  <2>2. \A d \in Clients : Pumping(d)' => Pumping(d)
    BY <1>13 DEF PingFails, ChannelClosed, Unregister, CloseConn, PeerLeaves, pumpVars, Pumping, TypeOK
  <2>3. QED
    BY <2>1, <2>2, CaughtRests
<1>14. CASE UNCHANGED vars
  BY <1>14, CaughtRests DEF vars, Pumping
<1>15. QED
  BY <1>1, <1>2, <1>3, <1>4, <1>5, <1>7, <1>8, <1>9, <1>10, <1>11, <1>12, <1>13, <1>14 DEF Next

\* While no handler finds the queue of its own connection full (stateCache.sendAll,
\* main.go:280-302, drops what does not fit), a connection at rest shows the cached
\* state of every feed. HubOverflow.cfg shows that the premise is needed.
THEOREM HubCaughtUp == Spec /\ NothingDropped => []CoherentAtRest
<1>1. Init => Caught
  BY DEF Init, Caught, Sent, Feeds
<1>2. TypeOK /\ Blank /\ Numbered /\ Caught => CoherentAtRest
  <2> SUFFICES ASSUME TypeOK, Blank, Caught, NEW c \in Clients, AtRest(c)
               PROVE  seen[c] = cache
    BY DEF CoherentAtRest
  <2>1. /\ c \in hub /\ ppc[c] = "select" /\ send[c] = <<>> /\ hpc[c] \in {"reading", "returned"}
        /\ writing[c] = Hello
    BY DEF AtRest, Blank
  <2>2. ASSUME NEW f \in Feeds PROVE seen[c][f] = cache[f]
    <3>1. Fresh(c, f)
      BY <2>1 DEF Caught, Sent, Pumping, AtRest
    <3>2. Hello.kind # f
      BY DEF Hello, Feeds
    <3>3. QED
      BY <2>1, <3>1, <3>2 DEF Fresh, Has
  <2>3. QED
    BY <2>2 DEF TypeOK
<1>3. TypeOK /\ Numbered => HeldInv
  BY DEF Numbered, HeldInv, TypeOK
<1>4. QED
  BY <1>1, CaughtStep, <1>2, <1>3, HubTypeCorrect, HubRegistry, HubQueuesOrdered, HubGapless, PTL
     DEF Spec, NothingDropped

\* What a handler that has come to h has put in its queue at most.
Snapshots(h) ==
    CASE h = "satellites" -> 1
      [] h = "conjunctions" -> 2
      [] h = "spaceWeather" -> 3
      [] h \in {"startPump", "reading", "returned", "panicked"} -> 4
      [] OTHER -> 0

Coverage == Coming("satellites") + Coming("conjunctions") + Coming("spaceWeather")

\* A queue holds no more than the handler and the broadcasts of the run put there.
Roomy ==
    /\ \A f \in Feeds : held[f] <= Updates[f]
    /\ \A c \in Clients : Len(send[c]) + 3 <= Snapshots(hpc[c]) + Coverage

LEMMA RoomyStep == TypeOK /\ Roomy /\ [Next]_vars => Roomy'
<1> SUFFICES ASSUME TypeOK, Roomy, [Next]_vars PROVE Roomy'
  OBVIOUS
<1>1. /\ \A f \in Feeds : Coming(f) \in Nat /\ held[f] \in Nat /\ Updates[f] \in Nat
      /\ \A c \in Clients : Len(send[c]) \in Nat
      /\ \A h : Snapshots(h) \in Nat
  BY UpdatesAssumption DEF TypeOK, Coming, Snapshots
<1>2. "satellites" \in Feeds /\ "conjunctions" \in Feeds /\ "spaceWeather" \in Feeds
  BY DEF Feeds
<1>3. Coverage \in Nat
  BY <1>1, <1>2 DEF Coverage
  \* A step of no consumer.
<1>4. ASSUME UNCHANGED <<held, cpc>>,
             \A c \in Clients :
                /\ Len(send'[c]) \in Nat /\ Snapshots(hpc[c]) <= Snapshots(hpc'[c])
                /\ \/ Len(send'[c]) <= Len(send[c])
                   \/ Len(send'[c]) = Len(send[c]) + 1 /\ Snapshots(hpc'[c]) = Snapshots(hpc[c]) + 1
      PROVE  Roomy'
  <2>1. Coverage' = Coverage
    BY <1>4 DEF Coverage, Coming
  <2>2. ASSUME NEW c \in Clients PROVE Len(send'[c]) + 3 <= Snapshots(hpc'[c]) + Coverage
    <3>1. /\ Len(send[c]) + 3 <= Snapshots(hpc[c]) + Coverage
          /\ Len(send[c]) \in Nat /\ Snapshots(hpc[c]) \in Nat /\ Snapshots(hpc'[c]) \in Nat
      BY <1>1 DEF Roomy
    <3>2. QED
      BY <1>3, <1>4, <3>1
  <2>3. QED
    BY <1>4, <2>1, <2>2 DEF Roomy
<1>5. ASSUME NEW f \in Feeds,
             ReadMessage(f) \/ CacheSet(f) \/ \E c \in Clients : CloseSlow(f, c)
      PROVE  Roomy'
  <2>1. /\ UNCHANGED <<send, hpc>> /\ held'[f] <= Updates[f]
        /\ \A g \in Feeds : g # f => held'[g] = held[g]
    BY <1>1, <1>5 DEF ReadMessage, CacheSet, CloseSlow, TypeOK, Roomy
  <2>2. ASSUME NEW g \in Feeds PROVE Coming(g)' = Coming(g)
    <3>1. CASE ReadMessage(f)
      BY <1>1, <3>1 DEF ReadMessage, TypeOK, Coming
    <3>2. CASE CacheSet(f)
      BY <3>2 DEF CacheSet, TypeOK, Coming
    <3>3. CASE \E c \in Clients : CloseSlow(f, c)
      BY <3>3 DEF CloseSlow, TypeOK, Coming
    <3>4. QED
      BY <1>5, <3>1, <3>2, <3>3
  <2>3. Coverage' = Coverage
    BY <1>2, <2>2 DEF Coverage
  <2>4. QED
    BY <2>1, <2>3 DEF Roomy
<1>6. ASSUME NEW f \in Feeds, Broadcast(f) PROVE Roomy'
  <2>1. /\ UNCHANGED <<held, hpc>> /\ Coming(f)' = Coming(f) + 1
        /\ \A g \in Feeds : g # f => Coming(g)' = Coming(g)
    BY <1>1, <1>6 DEF Broadcast, BroadcastEvicting, TypeOK, Coming
  <2>2. Coverage' = Coverage + 1
    BY <1>1, <1>2, <2>1 DEF Coverage, Feeds
  <2>3. \A c \in Clients : send'[c] = send[c] \/ send'[c] = Append(send[c], Message(f, held[f]))
    BY <1>6 DEF Broadcast, BroadcastEvicting
  <2>4. Message(f, held[f]) \in Messages
    BY DEF Message, Messages, TypeOK
  <2>5. ASSUME NEW c \in Clients PROVE Len(send'[c]) \in Nat /\ Len(send'[c]) <= Len(send[c]) + 1
    <3>1. send[c] \in Seq(Messages) /\ Len(send[c]) \in Nat
      BY <1>1 DEF TypeOK
    <3>2. Len(Append(send[c], Message(f, held[f]))) = Len(send[c]) + 1
      BY <2>4, <3>1
    <3>3. QED
      BY <2>3, <3>1, <3>2
  <2>6. ASSUME NEW c \in Clients PROVE Len(send'[c]) + 3 <= Snapshots(hpc[c]) + (Coverage + 1)
    <3>1. /\ Len(send[c]) + 3 <= Snapshots(hpc[c]) + Coverage
          /\ Len(send[c]) \in Nat /\ Snapshots(hpc[c]) \in Nat
      BY <1>1 DEF Roomy
    <3>2. QED
      BY <1>3, <2>5, <3>1
  <2>7. QED
    BY <2>1, <2>2, <2>6 DEF Roomy
<1>7. ASSUME NEW c \in Clients, NEW m \in Messages, NEW next, TrySend(c, m, next),
             UNCHANGED consumerVars, Snapshots(hpc[c]) <= 3, Snapshots(next) = Snapshots(hpc[c]) + 1
      PROVE  Roomy'
  <2>1. /\ UNCHANGED <<held, cpc>> /\ Snapshots("panicked") = 4
        /\ \A d \in Clients : d # c => hpc'[d] = hpc[d] /\ send'[d] = send[d]
        /\ \/ hpc'[c] = "panicked" /\ send'[c] = send[c]
           \/ hpc'[c] = next /\ (send'[c] = send[c] \/ send'[c] = Append(send[c], m))
    BY <1>7 DEF TrySend, TypeOK, consumerVars, Snapshots
  <2>2. \A d \in Clients : send[d] \in Seq(Messages) /\ Snapshots(hpc[d]) \in Nat
    BY <1>1 DEF TypeOK
  <2>3. send'[c] = Append(send[c], m) => Len(send'[c]) = Len(send[c]) + 1
    BY <2>2
  <2>4. \A d \in Clients :
           /\ Len(send'[d]) \in Nat /\ Snapshots(hpc[d]) <= Snapshots(hpc'[d])
           /\ \/ Len(send'[d]) <= Len(send[d])
              \/ Len(send'[d]) = Len(send[d]) + 1 /\ Snapshots(hpc'[d]) = Snapshots(hpc[d]) + 1
    BY <1>1, <1>7, <2>1, <2>2, <2>3
  <2>5. QED
    BY <1>4, <2>1, <2>4
<1>8. ASSUME NEW c \in Clients, SendHello(c) PROVE Roomy'
  <2>1. Hello \in Messages /\ Snapshots("hello") = 0 /\ Snapshots("satellites") = 1
    BY DEF Hello, Messages, Snapshots
  <2>2. QED
    BY <1>7, <1>8, <2>1 DEF SendHello
<1>9. ASSUME NEW c \in Clients, SendCached(c) PROVE Roomy'
  <2>1. /\ hpc[c] \in Feeds /\ UNCHANGED consumerVars
        /\ Snapshots(AfterFeed[hpc[c]]) = Snapshots(hpc[c]) + 1 /\ Snapshots(hpc[c]) <= 3
    BY <1>9 DEF SendCached, AfterFeed, Snapshots, Feeds
  <2>2. CASE cache[hpc[c]] = 0
    <3>1. /\ UNCHANGED <<held, cpc, send>> /\ hpc'[c] = AfterFeed[hpc[c]]
          /\ \A d \in Clients : d # c => hpc'[d] = hpc[d]
      BY <1>9, <2>1, <2>2 DEF SendCached, consumerVars, TypeOK
    <3>2. \A d \in Clients : /\ Len(send'[d]) \in Nat /\ Snapshots(hpc[d]) <= Snapshots(hpc'[d])
                             /\ Len(send'[d]) <= Len(send[d])
      BY <1>1, <2>1, <3>1
    <3>3. QED
      BY <1>4, <3>1, <3>2
  <2>3. CASE cache[hpc[c]] # 0
    <3>1. Message(hpc[c], cache[hpc[c]]) \in Messages
      BY <2>1 DEF Message, Messages, TypeOK
    <3>2. QED
      BY <1>7, <1>9, <2>1, <2>3, <3>1 DEF SendCached
  <2>4. QED
    BY <2>2, <2>3
<1>10. ASSUME NEW c \in Clients, Register(c) \/ StartPump(c) \/ ReadEnds(c) PROVE Roomy'
  <2>1. /\ UNCHANGED <<held, cpc, send>> /\ Snapshots(hpc'[c]) = Snapshots(hpc[c])
        /\ \A d \in Clients : d # c => hpc'[d] = hpc[d]
    BY <1>10 DEF Register, StartPump, ReadEnds, consumerVars, TypeOK, Snapshots
  <2>2. \A d \in Clients : /\ Len(send'[d]) \in Nat /\ Snapshots(hpc[d]) <= Snapshots(hpc'[d])
                           /\ Len(send'[d]) <= Len(send[d])
    BY <1>1, <2>1
  <2>3. QED
    BY <1>4, <2>1, <2>2
<1>11. ASSUME NEW c \in Clients, Dequeue(c) PROVE Roomy'
  <2>1. /\ UNCHANGED <<held, cpc, hpc>> /\ send[c] # <<>>
        /\ \A d \in Clients : send[d] \in Seq(Messages) /\ send'[d] = IF d = c THEN Tail(send[d]) ELSE send[d]
    BY <1>11 DEF Dequeue, consumerVars, TypeOK
  <2>2. Len(send'[c]) \in Nat /\ Len(send'[c]) <= Len(send[c])
    <3>1. send[c] \in Seq(Messages) /\ send[c] # <<>> /\ send'[c] = Tail(send[c])
      BY <2>1
    <3>2. Len(Tail(send[c])) = Len(send[c]) - 1 /\ Len(send[c]) \in Nat /\ Len(send[c]) > 0
      BY <3>1
    <3>3. QED
      BY <3>1, <3>2
  <2>3. ASSUME NEW d \in Clients
        PROVE  /\ Len(send'[d]) \in Nat /\ Snapshots(hpc[d]) <= Snapshots(hpc'[d])
               /\ Len(send'[d]) <= Len(send[d])
    <3>1. Len(send[d]) \in Nat /\ Snapshots(hpc[d]) \in Nat
      BY <1>1
    <3>2. Snapshots(hpc[d]) <= Snapshots(hpc'[d])
      <4>1. hpc' = hpc
        BY <2>1
      <4>2. QED
        BY <3>1, <4>1
    <3>3. CASE d = c
      BY <2>2, <3>2, <3>3
    <3>4. CASE d # c
      <4>1. send'[d] = send[d]
        BY <2>1, <3>4
      <4>2. QED
        BY <3>1, <3>2, <4>1
    <3>5. QED
      BY <3>3, <3>4
  <2>4. QED
    BY <1>4, <2>1, <2>3
<1>12. ASSUME NEW c \in Clients,
              \/ WriteDone(c) \/ WriteFails(c) \/ PingFails(c) \/ ChannelClosed(c)
              \/ Unregister(c) \/ CloseConn(c) \/ PeerLeaves(c)
       PROVE  UNCHANGED <<held, cpc, send, hpc>>
  BY <1>12 DEF WriteDone, WriteFails, PingFails, ChannelClosed, Unregister, CloseConn, PeerLeaves,
               consumerVars
<1>13. ASSUME UNCHANGED <<held, cpc, send, hpc>> PROVE Roomy'
  <2>1. Coverage' = Coverage
    BY <1>13 DEF Coverage, Coming
  <2>2. QED
    BY <1>13, <2>1 DEF Roomy
<1>14. UNCHANGED vars => UNCHANGED <<held, cpc, send, hpc>>
  BY DEF vars
<1>15. QED
  BY <1>5, <1>6, <1>8, <1>9, <1>10, <1>11, <1>12, <1>13, <1>14 DEF Next

\* The premise holds, and with it the coherence that the comment in hub.broadcast
\* asks for, in every run in which the queue has room for the greeting, the three
\* snapshots and all that is broadcast.
THEOREM HubCoherentAtRest ==
    ASSUME QueueCap >= 4 + (Updates["satellites"] + Updates["conjunctions"] + Updates["spaceWeather"])
    PROVE  Spec => []CoherentAtRest
<1>1. Init => Roomy
  <2> SUFFICES ASSUME Init PROVE Roomy
    OBVIOUS
  <2>1. \A f \in Feeds : held[f] = 0 /\ held[f] <= Updates[f] /\ Coming(f) = 1
    BY UpdatesAssumption DEF Init, Coming
  <2>2. Coverage = 3
    BY <2>1 DEF Coverage, Feeds
  <2>3. \A c \in Clients : Len(send[c]) = 0 /\ Snapshots(hpc[c]) = 0
    BY DEF Init, Snapshots
  <2>4. QED
    BY <2>1, <2>2, <2>3 DEF Roomy
<1>2. TypeOK /\ Roomy => KeepsSnapshots
  <2> SUFFICES ASSUME TypeOK, Roomy, NEW c \in Clients, SnapshotDropped(c) PROVE FALSE
    BY DEF KeepsSnapshots
  <2>1. Len(send[c]) >= QueueCap /\ Snapshots(hpc[c]) <= 3 /\ Snapshots(hpc[c]) \in Nat
    <3>1. Full(c) /\ hpc[c] \in Feeds
      BY DEF SnapshotDropped, SendCached
    <3>2. QED
      BY <3>1 DEF Full, Snapshots, Feeds
  <2>2. ASSUME NEW f \in Feeds PROVE Coming(f) \in Nat /\ Updates[f] \in Nat /\ Coming(f) <= Updates[f] + 1
    <3>1. held[f] \in Nat /\ Updates[f] \in Nat /\ held[f] <= Updates[f]
      BY UpdatesAssumption DEF Roomy, TypeOK
    <3>2. QED
      BY <3>1 DEF Coming
  <2>3. Coverage <= 3 + (Updates["satellites"] + Updates["conjunctions"] + Updates["spaceWeather"])
        /\ Coverage \in Nat
    BY <2>2 DEF Coverage, Feeds
  <2>4. Len(send[c]) + 3 <= Snapshots(hpc[c]) + Coverage /\ Len(send[c]) \in Nat
    BY DEF Roomy, TypeOK
  <2>5. QueueCap \in Nat /\ \A f \in Feeds : Updates[f] \in Nat
    BY QueueCapAssumption, UpdatesAssumption
  <2>6. QED
    BY <2>1, <2>3, <2>4, <2>5 DEF Feeds
<1>3. QED
  BY <1>1, <1>2, RoomyStep, HubCaughtUp, HubTypeCorrect, PTL DEF Spec, NothingDropped
=============================================================================
