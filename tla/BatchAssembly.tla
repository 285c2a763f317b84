---------------------------- MODULE BatchAssembly ----------------------------
(***************************************************************************)
(* The engine publishes each propagation cycle as a batch of parts         *)
(* (publishSatelliteBatches, src/backend/engine/main.go) with retried,     *)
(* at-least-once Kafka writes; the gateway's satellite consumer puts the   *)
(* parts together again (satelliteBatchAssembler.ingest,                   *)
(* src/backend/gateway/main.go) and caches the result.                     *)
(*                                                                         *)
(* A batch ID is its cycle number. The rows of a part are the pair of its  *)
(* cycle and index; a cached payload is the function from part indices to  *)
(* rows whose values, in index order, the code concatenates.               *)
(***************************************************************************)
EXTENDS Naturals, Sequences, FiniteSets

CONSTANTS
    Cycles,      \* propagation cycles of a run (a bound)
    BatchCount,  \* BatchCount[k]: parts of cycle k
    Partitions,  \* partitions of aurora.satellites.positions
    MaxRetries,  \* unacknowledged writes that took effect (a bound)
    MaxRestarts, \* gateway restarts (a bound)
    MaxRejoins   \* times the consumer rejoins its group (a bound)

ASSUME CyclesAssumption == Cycles \in Nat
ASSUME BatchCountAssumption == BatchCount \in [1..Cycles -> Nat \ {0}]
ASSUME BoundsAssumption == {MaxRetries, MaxRestarts, MaxRejoins} \subseteq Nat

VARIABLES
    cycle,     \* engine: current or last cycle
    next,      \* engine: index of the next part to publish; all published if
               \* it is the cycle's BatchCount
    retries,   \* engine: unacknowledged writes so far
    log,       \* the topic: per partition, the records in it
    pos,       \* gateway: records read per partition
    committed, \* Kafka: the group's committed offsets
    pending,   \* gateway: assembler.batches, parts received by batch ID
    order,     \* gateway: the IDs in pending, least recently received first
    expired,   \* gateway: how many of order were received over a minute ago
    cache,     \* gateway: satellites payload in the state cache
    restarts,  \* gateway restarts so far
    rejoins,   \* consumer group rejoins so far
    received   \* history: <<cycle, index>> read since the restart, without
               \* the batches that expired

engineVars == <<cycle, next, retries, log>>
gatewayVars == <<pos, committed, pending, order, expired, cache, restarts, rejoins, received>>
vars == <<engineVars, gatewayVars>>

CycleIDs == 1..Cycles
Indices(k) == 0..(BatchCount[k] - 1)
Record(k, i) == [id |-> k, index |-> i, rows |-> <<k, i>>]
NoPayload == <<>>
NoBatch == [id \in {} |-> {}]

Init ==
    /\ cycle = 0 /\ next = 0 /\ retries = 0
    /\ log = [p \in Partitions |-> <<>>]
    /\ pos = [p \in Partitions |-> 0]
    /\ committed = [p \in Partitions |-> 0]
    /\ pending = NoBatch
    /\ order = <<>> /\ expired = 0
    /\ cache = NoPayload
    /\ restarts = 0 /\ rejoins = 0
    /\ received = {}

-----------------------------------------------------------------------------
(* The engine.                                                             *)

Publishing == cycle > 0 /\ next < BatchCount[cycle]

StartCycle ==
    /\ ~Publishing
    /\ cycle < Cycles
    /\ cycle' = cycle + 1
    /\ next' = 0
    /\ UNCHANGED <<retries, log, gatewayVars>>

\* The balancer may choose any partition.
Append1(p) == log' = [log EXCEPT ![p] = Append(@, Record(cycle, next))]

PublishPart(p) ==
    /\ Publishing
    /\ Append1(p)
    /\ next' = next + 1
    /\ UNCHANGED <<cycle, retries, gatewayVars>>

\* The write takes effect but its acknowledgement is lost: the producer writes
\* the part again.
PublishUnacknowledged(p) ==
    /\ Publishing
    /\ retries < MaxRetries
    /\ Append1(p)
    /\ retries' = retries + 1
    /\ UNCHANGED <<cycle, next, gatewayVars>>

\* After five failed attempts, or when the engine stops, the rest of the cycle
\* is never published.
AbandonCycle ==
    /\ Publishing
    /\ next' = BatchCount[cycle]
    /\ UNCHANGED <<cycle, retries, log, gatewayVars>>

-----------------------------------------------------------------------------
(* The gateway.                                                            *)

\* The batches left once those received over a minute ago are deleted.
Unexpired == {id \in DOMAIN pending : \A i \in 1..expired : order[i] # id}

\* seq, in which an ID stands once at most, less id.
Without(seq, id) ==
    IF \A n \in DOMAIN seq : seq[n] # id THEN seq
    ELSE LET at == CHOOSE n \in DOMAIN seq : seq[n] = id
         IN  SubSeq(seq, 1, at - 1) \o SubSeq(seq, at + 1, Len(seq))

\* Variant: parts are told apart by their index only.
PartsByIndex(r) ==
    LET others == UNION {DOMAIN pending[k] : k \in Unexpired}
    IN  [i \in others \cup {r.index} |->
            IF i = r.index THEN r.rows
            ELSE LET k == CHOOSE k \in Unexpired : i \in DOMAIN pending[k] IN pending[k][i]]

\* The parts of r's batch with r among them.
PartsWith(r) ==
    IF r.id \in Unexpired
    THEN [i \in DOMAIN pending[r.id] \cup {r.index} |->
             IF i = r.index THEN r.rows ELSE pending[r.id][i]]
    ELSE [i \in {r.index} |-> r.rows]

\* Variant: a batch is ready one part too late.
ReadyLate(k, parts) == Cardinality(DOMAIN parts) > BatchCount[k]

\* len(parts) reaches the batch count and no index is missing.
Ready(k, parts) == Indices(k) \subseteq DOMAIN parts

\* Delete the batch and hand it out.
Deliver(r, parts, others, kept) ==
    /\ pending' = [id \in others |-> pending[id]]
    /\ order' = kept
    /\ cache' = [i \in Indices(r.id) |-> parts[i]]

\* ingest for a batch of several parts: prune, store the part, and hand out the
\* batch when it is ready.
IngestPart(r) ==
    LET parts == PartsWith(r)
        others == Unexpired \ {r.id}
        kept == Without(SubSeq(order, expired + 1, Len(order)), r.id)
        alive == {x \in received : x[1] \in Unexpired \/ x[1] \notin DOMAIN pending}
    IN  /\ expired' = 0
        /\ received' = alive \cup {<<r.id, r.index>>}
        /\ \/ /\ Ready(r.id, parts)
              /\ Deliver(r, parts, others, kept)
           \/ /\ ~Ready(r.id, parts)
              /\ pending' = [id \in others \cup {r.id} |->
                                 IF id = r.id THEN parts ELSE pending[id]]
              /\ order' = Append(kept, r.id)
              /\ UNCHANGED cache

\* A batch of one part is handed out at once and touches nothing else.
IngestWhole(r) ==
    /\ cache' = [i \in {0} |-> r.rows]
    /\ received' = received \cup {<<r.id, r.index>>}
    /\ UNCHANGED <<pending, order, expired>>

ReadRecord(p) ==
    /\ pos[p] < Len(log[p])
    /\ pos' = [pos EXCEPT ![p] = @ + 1]
    /\ LET r == log[p][pos[p] + 1]
       IN  IF BatchCount[r.id] <= 1 THEN IngestWhole(r) ELSE IngestPart(r)
    /\ UNCHANGED <<committed, restarts, rejoins, engineVars>>

\* Offsets of what was read are committed in the background, once a second.
Commit(p) ==
    /\ committed[p] < pos[p]
    /\ committed' = [committed EXCEPT ![p] = pos[p]]
    /\ UNCHANGED <<pos, pending, order, expired, cache, restarts, rejoins, received, engineVars>>

\* A minute passes since the next batch in receipt order was last received.
Expire ==
    /\ expired < Len(order)
    /\ expired' = expired + 1
    /\ UNCHANGED <<pos, committed, pending, order, cache, restarts, rejoins, received, engineVars>>

\* Variant: a restart that keeps showing what it had.
RestartKeeping ==
    /\ restarts < MaxRestarts
    /\ restarts' = restarts + 1
    /\ pos' = committed
    /\ UNCHANGED <<committed, pending, order, expired, cache, rejoins, received, engineVars>>

\* The gateway restarts at the committed offsets with nothing in memory.
Restart ==
    /\ restarts < MaxRestarts
    /\ restarts' = restarts + 1
    /\ pos' = committed
    /\ pending' = NoBatch
    /\ order' = <<>> /\ expired' = 0
    /\ cache' = NoPayload
    /\ received' = {}
    /\ UNCHANGED <<committed, rejoins, engineVars>>

\* The reader loses its place in the consumer group and rejoins: it resumes at
\* the committed offsets while the gateway keeps its memory.
Rejoin ==
    /\ rejoins < MaxRejoins
    /\ rejoins' = rejoins + 1
    /\ pos' = committed
    /\ UNCHANGED <<committed, pending, order, expired, cache, restarts, received, engineVars>>

Next ==
    \/ StartCycle
    \/ \E p \in Partitions : PublishPart(p) \/ PublishUnacknowledged(p)
    \/ AbandonCycle
    \/ \E p \in Partitions : ReadRecord(p) \/ Commit(p)
    \/ Expire
    \/ Restart
    \/ Rejoin

Spec == Init /\ [][Next]_vars

-----------------------------------------------------------------------------
(* Properties.                                                             *)

\* The variables are typed; `order` lists the pending batches once each.
TypeOK ==
    /\ cycle \in 0..Cycles /\ next \in Nat /\ retries \in 0..MaxRetries
    /\ cycle > 0 => next <= BatchCount[cycle]
    /\ \A p \in Partitions :
          /\ \A n \in 1..Len(log[p]) :
                \E k \in CycleIDs : \E i \in Indices(k) : log[p][n] = Record(k, i)
          /\ committed[p] <= pos[p] /\ pos[p] <= Len(log[p])
    /\ DOMAIN pending \subseteq CycleIDs
    /\ {order[n] : n \in 1..Len(order)} = DOMAIN pending
    /\ Len(order) = Cardinality(DOMAIN pending)
    /\ expired \in 0..Len(order)
    /\ restarts \in 0..MaxRestarts /\ rejoins \in 0..MaxRejoins
    /\ received \subseteq CycleIDs \X Nat

\* The rows of a whole cycle, in index order.
WholeCycle(k) == [i \in Indices(k) |-> <<k, i>>]

\* What the gateway shows is the positions of one cycle, all of its parts in
\* their order: retried, duplicated or reordered parts, parts lost with an
\* abandoned cycle and restarts never show a mixture or a fragment.
PayloadWhole ==
    cache # NoPayload => \E k \in CycleIDs : cache = WholeCycle(k)

ShownCycle == IF cache = NoPayload THEN 0 ELSE cache[0][1]

\* All records lie in one partition and the reader kept its place in the group,
\* so that the gateway has read every record once and in the order written.
ReadInOrder ==
    /\ rejoins = 0
    /\ Cardinality({p \in Partitions : log[p] # <<>>}) <= 1

\* The cycle that is shown is at least any cycle whose parts have all been read
\* since the restart and have not expired: late duplicates and fragments of
\* other cycles do not hold a complete one back.
CompleteCycleShown ==
    ReadInOrder =>
        \A k \in CycleIDs :
            {k} \X Indices(k) \subseteq received => ShownCycle >= k

\* Retries, abandoned cycles, expiry and restarts alone never take the gateway
\* back to an earlier propagation cycle while it runs.
OlderCycleOnlyIfReordered ==
    [][cache' # NoPayload => ShownCycle' >= ShownCycle \/ ~ReadInOrder]_vars

\* While the gateway runs, the satellites it shows never go back to an earlier
\* propagation cycle, whatever the consumer reads again.
NeverOlderCycle ==
    [][cache' # NoPayload => ShownCycle' >= ShownCycle]_vars
=============================================================================
