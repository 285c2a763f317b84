------------------------- MODULE BatchAssemblyProofs -------------------------
(***************************************************************************)
(* The assembler never shows a mixture or a fragment of cycles and, read   *)
(* in order, shows every complete cycle and goes back to none, whatever    *)
(* the number of cycles, parts, partitions, retries and restarts.          *)
(***************************************************************************)
EXTENDS BatchAssembly, FiniteSetTheorems, SequenceTheorems, TLAPS

Records == UNION {{Record(k, i) : i \in Indices(k)} : k \in CycleIDs}

EngineInv ==
    /\ cycle \in 0..Cycles
    /\ next \in Nat
    /\ log \in [Partitions -> Seq(Records)]

\* A stored part holds the rows of its own batch and index.
PendingInv ==
    /\ DOMAIN pending \subseteq CycleIDs
    /\ \A k \in DOMAIN pending : \A i \in DOMAIN pending[k] : pending[k][i] = <<k, i>>

ReaderInv == pos \in [Partitions -> Nat] /\ committed \in [Partitions -> Nat]

AssemblyInv == EngineInv /\ ReaderInv /\ PendingInv /\ PayloadWhole

\* What the engine appends is a part of the cycle it is publishing.
LEMMA PublishedIsRecord ==
    ASSUME EngineInv, Publishing PROVE Record(cycle, next) \in Records
<1>1. cycle \in CycleIDs /\ BatchCount[cycle] \in Nat \ {0} /\ next < BatchCount[cycle]
  BY BatchCountAssumption, CyclesAssumption DEF EngineInv, Publishing, CycleIDs
<1>2. next \in Indices(cycle)
  BY <1>1 DEF EngineInv, Indices
<1>3. QED
  BY <1>1, <1>2 DEF Records

\* The parts stored with a new one all hold their own rows.
LEMMA PartsHoldRows ==
    ASSUME PendingInv, NEW k \in CycleIDs, NEW i \in Indices(k)
    PROVE  \A j \in DOMAIN PartsWith(Record(k, i)) : PartsWith(Record(k, i))[j] = <<k, j>>
<1>1. /\ Record(k, i).id = k /\ Record(k, i).index = i /\ Record(k, i).rows = <<k, i>>
  BY DEF Record
<1>2. CASE k \in Unexpired
  <2>1. k \in DOMAIN pending
    BY <1>2 DEF Unexpired
  <2>2. PartsWith(Record(k, i)) = [j \in DOMAIN pending[k] \cup {i} |->
                                      IF j = i THEN <<k, i>> ELSE pending[k][j]]
    BY <1>1, <1>2 DEF PartsWith
  <2>3. \A j \in DOMAIN pending[k] : pending[k][j] = <<k, j>>
    BY <2>1 DEF PendingInv
  <2>4. QED
    BY <2>2, <2>3
<1>3. CASE k \notin Unexpired
  <2>1. PartsWith(Record(k, i)) = [j \in {i} |-> <<k, i>>]
    BY <1>1, <1>3 DEF PartsWith
  <2>2. QED
    BY <2>1
<1>4. QED
  BY <1>2, <1>3

LEMMA AssemblyKept == Spec => []AssemblyInv
<1>1. Init => AssemblyInv
  <2> SUFFICES ASSUME Init PROVE AssemblyInv
    OBVIOUS
  <2>1. EngineInv /\ ReaderInv
    BY CyclesAssumption DEF Init, EngineInv, ReaderInv
  <2>2. DOMAIN NoBatch = {}
    BY DEF NoBatch
  <2>3. PendingInv
    BY <2>2 DEF Init, PendingInv
  <2>4. PayloadWhole
    BY DEF Init, PayloadWhole
  <2>5. QED
    BY <2>1, <2>3, <2>4 DEF AssemblyInv
<1>2. AssemblyInv /\ [Next]_vars => AssemblyInv'
  <2> SUFFICES ASSUME EngineInv, ReaderInv, PendingInv, PayloadWhole, [Next]_vars
               PROVE  EngineInv' /\ ReaderInv' /\ PendingInv' /\ PayloadWhole'
    BY DEF AssemblyInv
  <2>1. CASE StartCycle
    BY <2>1, CyclesAssumption DEF StartCycle, EngineInv, ReaderInv, PendingInv, PayloadWhole, gatewayVars
  <2>2. ASSUME NEW p \in Partitions, PublishPart(p) \/ PublishUnacknowledged(p)
        PROVE  EngineInv' /\ ReaderInv' /\ PendingInv' /\ PayloadWhole'
    <3>1. Publishing /\ Append1(p) /\ next' \in Nat /\ cycle' = cycle /\ UNCHANGED gatewayVars
      BY <2>2 DEF PublishPart, PublishUnacknowledged, EngineInv
    <3>2. Append(log[p], Record(cycle, next)) \in Seq(Records)
      BY <3>1, PublishedIsRecord DEF EngineInv
    <3>3. EngineInv'
      BY <3>1, <3>2 DEF EngineInv, Append1
    <3>4. QED
      BY <3>1, <3>3 DEF ReaderInv, PendingInv, PayloadWhole, gatewayVars
  <2>3. CASE AbandonCycle
    <3>1. next' \in Nat
      BY <2>3, BatchCountAssumption, CyclesAssumption DEF AbandonCycle, Publishing, EngineInv
    <3>2. QED
      BY <2>3, <3>1 DEF AbandonCycle, EngineInv, ReaderInv, PendingInv, PayloadWhole, gatewayVars
  <2>4. ASSUME NEW p \in Partitions, ReadRecord(p)
        PROVE  EngineInv' /\ ReaderInv' /\ PendingInv' /\ PayloadWhole'
    <3>1. EngineInv' /\ ReaderInv'
      BY <2>4 DEF ReadRecord, EngineInv, ReaderInv, engineVars
    <3>2. log[p][pos[p] + 1] \in Records
      <4>1. log[p] \in Seq(Records) /\ pos[p] \in Nat /\ pos[p] < Len(log[p])
        BY <2>4 DEF ReadRecord, EngineInv, ReaderInv
      <4>2. QED
        BY <4>1
    <3>a. PICK k \in CycleIDs : log[p][pos[p] + 1] \in {Record(k, j) : j \in Indices(k)}
      BY <3>2 DEF Records
    <3>3. PICK i \in Indices(k) : log[p][pos[p] + 1] = Record(k, i)
      BY <3>a
    <3> DEFINE r == Record(k, i)
    <3>4. r.id = k /\ r.index = i /\ r.rows = <<k, i>>
      BY DEF Record
    <3>5. CASE BatchCount[k] <= 1
      <4>1. IngestWhole(r)
        BY <2>4, <3>3, <3>4, <3>5 DEF ReadRecord
      <4>2. Indices(k) = {0} /\ i = 0
        BY <3>3, <3>5, BatchCountAssumption DEF Indices, CycleIDs
      <4>3. cache' = [j \in {0} |-> <<k, i>>]
        BY <3>4, <4>1 DEF IngestWhole
      <4>4. cache' = WholeCycle(k)
        BY <4>2, <4>3 DEF WholeCycle
      <4>5. PendingInv'
        BY <4>1 DEF IngestWhole, PendingInv
      <4>6. QED
        BY <3>1, <4>4, <4>5 DEF PayloadWhole
    <3>6. CASE ~(BatchCount[k] <= 1)
      <4> DEFINE parts == PartsWith(r)
                 others == Unexpired \ {k}
      <4>1. IngestPart(r)
        BY <2>4, <3>3, <3>4, <3>6 DEF ReadRecord
      <4>2. \A j \in DOMAIN parts : parts[j] = <<k, j>>
        BY <3>3, PartsHoldRows
      <4>3. others \subseteq DOMAIN pending
        BY DEF Unexpired
      <4>4. CASE Ready(k, parts)
        <5>1. /\ pending' = [id \in others |-> pending[id]]
              /\ cache' = [j \in Indices(k) |-> parts[j]]
          BY <3>4, <4>1, <4>4 DEF IngestPart, Deliver
        <5>2. PendingInv'
          BY <4>3, <5>1 DEF PendingInv
        <5>3. cache' = WholeCycle(k)
          BY <4>2, <4>4, <5>1 DEF Ready, WholeCycle
        <5>4. QED
          BY <3>1, <5>2, <5>3 DEF PayloadWhole
      <4>5. CASE ~Ready(k, parts)
        <5>1. /\ pending' = [id \in others \cup {k} |-> IF id = k THEN parts ELSE pending[id]]
              /\ cache' = cache
          BY <3>4, <4>1, <4>5 DEF IngestPart
        <5> HIDE DEF parts, others
        <5>2. PendingInv'
          BY <4>2, <4>3, <5>1 DEF PendingInv
        <5>3. QED
          BY <3>1, <5>1, <5>2 DEF PayloadWhole
      <4>6. QED
        BY <4>4, <4>5
    <3>7. QED
      BY <3>5, <3>6
  <2>5. ASSUME NEW p \in Partitions, Commit(p)
        PROVE  EngineInv' /\ ReaderInv' /\ PendingInv' /\ PayloadWhole'
    BY <2>5 DEF Commit, EngineInv, ReaderInv, PendingInv, PayloadWhole, engineVars
  <2>6. CASE Expire
    BY <2>6 DEF Expire, EngineInv, ReaderInv, PendingInv, PayloadWhole, engineVars
  <2>7. CASE Restart
    <3>1. DOMAIN NoBatch = {}
      BY DEF NoBatch
    <3>2. QED
      BY <2>7, <3>1 DEF Restart, EngineInv, ReaderInv, PendingInv, PayloadWhole, engineVars
  <2>8. CASE Rejoin
    BY <2>8 DEF Rejoin, EngineInv, ReaderInv, PendingInv, PayloadWhole, engineVars
  <2>9. CASE UNCHANGED vars
    BY <2>9 DEF vars, engineVars, gatewayVars, EngineInv, ReaderInv, PendingInv, PayloadWhole
  <2>10. QED
    BY <2>1, <2>2, <2>3, <2>4, <2>5, <2>6, <2>7, <2>8, <2>9 DEF Next
<1>3. QED
  BY <1>1, <1>2, PTL DEF Spec

\* Whatever is lost, repeated or reordered between the engine and the gateway,
\* satelliteBatchAssembler.ingest hands out whole cycles only.
THEOREM AssemblyShowsWholeCycles == Spec => []PayloadWhole
<1>1. AssemblyInv => PayloadWhole
  BY DEF AssemblyInv
<1>2. QED
  BY <1>1, AssemblyKept, PTL

-----------------------------------------------------------------------------
(* The cycle that is shown, when the records are read in order.            *)

\* The partitions that hold records.
Written == {p \in Partitions : log[p] # <<>>}

\* The engine numbers cycles upwards, so each partition holds them in order.
LogInv ==
    /\ IsFiniteSet(Written)
    /\ \A p \in Partitions : \A n \in 1..Len(log[p]) :
          /\ log[p][n].id <= cycle
          /\ \A m \in n..Len(log[p]) : log[p][n].id <= log[p][m].id
    /\ rejoins \in Nat

\* Nothing that is still to be read is older than what is shown.
Ahead ==
    /\ ShownCycle <= cycle
    /\ \A p \in Partitions : \A n \in (pos[p] + 1)..Len(log[p]) : ShownCycle <= log[p][n].id

\* A cycle that is not shown has all of its parts that were received pending.
Collected ==
    \A k \in CycleIDs : ShownCycle < k =>
        \A j : <<k, j>> \in received => k \in DOMAIN pending /\ j \in DOMAIN pending[k]

\* A batch with all of its parts does not wait.
Incomplete == \A k \in DOMAIN pending : ~(Indices(k) \subseteq DOMAIN pending[k])

ShownInv ==
    /\ LogInv /\ Incomplete
    /\ ReadInOrder => Ahead /\ Collected

\* The cycle that ShownCycle gives for payload c.
CycleOf(c) == IF c = NoPayload THEN 0 ELSE c[0][1]

LEMMA CycleOfWhole ==
    ASSUME NEW c, c # NoPayload => \E k \in CycleIDs : c = WholeCycle(k)
    PROVE  CycleOf(c) \in Nat /\ \A k \in CycleIDs : c = WholeCycle(k) => CycleOf(c) = k
<1>1. ASSUME NEW k \in CycleIDs, c = WholeCycle(k) PROVE CycleOf(c) = k
  <2>1. 0 \in Indices(k)
    BY BatchCountAssumption DEF Indices, CycleIDs
  <2>2. WholeCycle(k)[0] = <<k, 0>> /\ DOMAIN WholeCycle(k) # {}
    BY <2>1 DEF WholeCycle
  <2>3. WholeCycle(k) # NoPayload
    BY <2>2 DEF NoPayload
  <2>4. QED
    BY <1>1, <2>2, <2>3 DEF CycleOf
<1>2. CycleOf(c) \in Nat
  <2>1. CASE c = NoPayload
    BY <2>1 DEF CycleOf
  <2>2. CASE c # NoPayload
    <3>1. PICK k \in CycleIDs : c = WholeCycle(k)
      BY <2>2
    <3>2. k \in Nat
      BY CyclesAssumption DEF CycleIDs
    <3>3. QED
      BY <1>1, <3>1, <3>2
  <2>3. QED
    BY <2>1, <2>2
<1>3. QED
  BY <1>1, <1>2

LEMMA ShownIsCycle ==
    ASSUME AssemblyInv, AssemblyInv'
    PROVE  /\ ShownCycle \in Nat /\ ShownCycle' \in Nat
           /\ \A k \in CycleIDs : cache' = WholeCycle(k) => ShownCycle' = k
<1>1. /\ cache # NoPayload => \E k \in CycleIDs : cache = WholeCycle(k)
      /\ cache' # NoPayload => \E k \in CycleIDs : cache' = WholeCycle(k)
  BY DEF AssemblyInv, PayloadWhole
<1>2. ShownCycle = CycleOf(cache) /\ ShownCycle' = CycleOf(cache')
  BY DEF ShownCycle, CycleOf
<1>3. QED
  BY <1>1, <1>2, CycleOfWhole

\* When the records are read in order, they all lie in one partition.
LEMMA OnePartition ==
    ASSUME LogInv, ReadInOrder, NEW p \in Written, NEW q \in Written PROVE p = q
<1>1. SUFFICES ASSUME p # q PROVE FALSE
  OBVIOUS
<1>2. IsFiniteSet({q}) /\ Cardinality({q}) = 1
  BY FS_Singleton
<1>3. Cardinality({q} \cup {p}) = 2 /\ IsFiniteSet({q} \cup {p})
  BY <1>1, <1>2, FS_AddElement
<1>4. Cardinality({q} \cup {p}) <= Cardinality(Written) /\ Cardinality(Written) \in Nat
  BY <1>3, FS_Subset, FS_CardinalityType DEF LogInv
<1>5. Cardinality(Written) <= 1
  BY DEF ReadInOrder, Written
<1>6. QED
  BY <1>3, <1>4, <1>5

\* What is read next is a part of a cycle, and no record after it is older.
LEMMA NextRecord ==
    ASSUME AssemblyInv, LogInv, NEW p \in Partitions, ReadRecord(p)
    PROVE  /\ pos[p] \in Nat /\ pos[p] < Len(log[p]) /\ Len(log[p]) \in Nat
           /\ \E k \in CycleIDs : \E i \in Indices(k) :
                 /\ log[p][pos[p] + 1] = Record(k, i)
                 /\ k <= cycle
                 /\ \A m \in (pos[p] + 2)..Len(log[p]) : k <= log[p][m].id
                 /\ IF BatchCount[k] <= 1 THEN IngestWhole(Record(k, i)) ELSE IngestPart(Record(k, i))
<1>1. log[p] \in Seq(Records) /\ pos[p] \in Nat /\ pos[p] < Len(log[p])
  BY DEF ReadRecord, AssemblyInv, EngineInv, ReaderInv
<1>2. Len(log[p]) \in Nat /\ pos[p] + 1 \in 1..Len(log[p]) /\ log[p][pos[p] + 1] \in Records
  BY <1>1
<1>3. PICK k \in CycleIDs : log[p][pos[p] + 1] \in {Record(k, j) : j \in Indices(k)}
  BY <1>2 DEF Records
<1>4. PICK i \in Indices(k) : log[p][pos[p] + 1] = Record(k, i)
  BY <1>3
<1>5. Record(k, i).id = k
  BY DEF Record
<1>6. k <= cycle /\ \A m \in (pos[p] + 1)..Len(log[p]) : k <= log[p][m].id
  BY <1>2, <1>4, <1>5 DEF LogInv
<1>7. \A m \in (pos[p] + 2)..Len(log[p]) : m \in (pos[p] + 1)..Len(log[p])
  BY <1>1, <1>2
<1>8. IF BatchCount[k] <= 1 THEN IngestWhole(Record(k, i)) ELSE IngestPart(Record(k, i))
  BY <1>4, <1>5 DEF ReadRecord
<1>9. QED
  BY <1>1, <1>2, <1>4, <1>6, <1>7, <1>8

\* Reading a part of cycle k shows k, or leaves what is shown and keeps the part.
LEMMA IngestStep ==
    ASSUME AssemblyInv, Incomplete, NEW k \in CycleIDs, NEW i \in Indices(k),
           IF BatchCount[k] <= 1 THEN IngestWhole(Record(k, i)) ELSE IngestPart(Record(k, i))
    PROVE  /\ Incomplete'
           /\ cache' = cache \/ cache' = WholeCycle(k)
           /\ cache' = WholeCycle(k)
                \/ \A j : <<k, j>> \in received' /\ (<<k, j>> \in received => k \in DOMAIN pending /\ j \in DOMAIN pending[k])
                        => k \in DOMAIN pending' /\ j \in DOMAIN pending'[k]
           /\ \A m \in CycleIDs \ {k} : \A j :
                 <<m, j>> \in received' /\ (<<m, j>> \in received => m \in DOMAIN pending /\ j \in DOMAIN pending[m])
                        => m \in DOMAIN pending' /\ j \in DOMAIN pending'[m]
<1> DEFINE r == Record(k, i)
<1>1. r.id = k /\ r.index = i /\ r.rows = <<k, i>>
  BY DEF Record
<1>2. CASE BatchCount[k] <= 1
  <2>1. IngestWhole(r)
    BY <1>2
  <2>2. Indices(k) = {0} /\ i = 0
    BY <1>2, BatchCountAssumption DEF Indices, CycleIDs
  <2>3. cache' = WholeCycle(k)
    BY <1>1, <2>1, <2>2 DEF IngestWhole, WholeCycle
  <2>4. pending' = pending /\ \A m \in CycleIDs \ {k} : \A j : <<m, j>> \in received' => <<m, j>> \in received
    BY <1>1, <2>1 DEF IngestWhole
  <2>5. QED
    BY <2>3, <2>4 DEF Incomplete
<1>3. CASE ~(BatchCount[k] <= 1)
  <2> DEFINE parts == PartsWith(r)
             others == Unexpired \ {k}
  <2>1. IngestPart(r)
    BY <1>3
  <2>2. \A j \in DOMAIN parts : parts[j] = <<k, j>>
    BY PartsHoldRows DEF AssemblyInv
  <2>3. others \subseteq DOMAIN pending
    BY DEF Unexpired
  <2>4. received' = {x \in received : x[1] \in Unexpired \/ x[1] \notin DOMAIN pending} \cup {<<k, i>>}
    BY <1>1, <2>1 DEF IngestPart
  <2>5. /\ i \in DOMAIN parts
        /\ k \in Unexpired => DOMAIN pending[k] \subseteq DOMAIN parts
    BY <1>1 DEF PartsWith
  <2>6. \A m \in CycleIDs \ {k} : \A j :
           <<m, j>> \in received' => <<m, j>> \in received /\ (m \in DOMAIN pending => m \in others)
    BY <2>4
  <2>7. CASE Ready(k, parts)
    <3>1. /\ pending' = [id \in others |-> pending[id]]
          /\ cache' = [j \in Indices(k) |-> parts[j]]
      BY <1>1, <2>1, <2>7 DEF IngestPart, Deliver
    <3>2. cache' = WholeCycle(k)
      BY <2>2, <2>7, <3>1 DEF Ready, WholeCycle
    <3> HIDE DEF parts, others
    <3>3. QED
      BY <2>3, <2>6, <3>1, <3>2 DEF Incomplete
  <2>8. CASE ~Ready(k, parts)
    <3>1. /\ pending' = [id \in others \cup {k} |-> IF id = k THEN parts ELSE pending[id]]
          /\ cache' = cache
      BY <1>1, <2>1, <2>8 DEF IngestPart
    <3>2. \A j : <<k, j>> \in received' => j = i \/ (<<k, j>> \in received /\ (k \in DOMAIN pending => k \in Unexpired))
      BY <2>4
    <3>3. ~(Indices(k) \subseteq DOMAIN parts)
      BY <2>8 DEF Ready
    <3> HIDE DEF parts, others
    <3>4. QED
      BY <2>3, <2>5, <2>6, <3>1, <3>2, <3>3 DEF Incomplete
  <2>9. QED
    BY <2>7, <2>8
<1>4. QED
  BY <1>2, <1>3

\* Records are never taken away, and a consumer that rejoined stays out of order.
LEMMA StillInOrder ==
    ASSUME LogInv, LogInv', Written \subseteq Written', rejoins' = 0 => rejoins = 0, ReadInOrder'
    PROVE  ReadInOrder
<1>1. Cardinality(Written) <= Cardinality(Written') /\ Cardinality(Written) \in Nat /\ Cardinality(Written') \in Nat
  BY FS_Subset, FS_CardinalityType DEF LogInv
<1>2. Cardinality(Written') <= 1 /\ rejoins' = 0
  BY DEF ReadInOrder, Written
<1>3. Cardinality(Written) <= 1
  BY <1>1, <1>2
<1>4. QED
  BY <1>2, <1>3 DEF ReadInOrder, Written

LEMMA PublishStep ==
    ASSUME AssemblyInv, AssemblyInv', ShownInv, NEW p \in Partitions,
           PublishPart(p) \/ PublishUnacknowledged(p)
    PROVE  ShownInv'
<1>1. /\ Publishing /\ UNCHANGED <<cycle, pos, pending, cache, rejoins, received>>
      /\ Append1(p)
  BY DEF PublishPart, PublishUnacknowledged, gatewayVars
<1>2. ShownCycle' = ShownCycle
  BY <1>1 DEF ShownCycle
<1>3. Record(cycle, next) \in Records /\ Record(cycle, next).id = cycle /\ cycle \in Nat
  BY <1>1, PublishedIsRecord, CyclesAssumption DEF AssemblyInv, EngineInv, Record
<1>4. /\ \A q \in Partitions : Len(log[q]) \in Nat
      /\ \A q \in Partitions : q # p => log'[q] = log[q]
      /\ Len(log'[p]) = Len(log[p]) + 1 /\ log'[p][Len(log[p]) + 1] = Record(cycle, next)
      /\ \A n \in 1..Len(log[p]) : log'[p][n] = log[p][n]
  BY <1>1, <1>3 DEF Append1, AssemblyInv, EngineInv
<1>5. Written \subseteq Written' /\ Written' \subseteq Written \cup {p}
  <2>1. log'[p] # <<>>
    BY <1>1, <1>3 DEF Append1, AssemblyInv, EngineInv
  <2>2. QED
    BY <1>4, <2>1 DEF Written
<1>6. LogInv'
  <2>1. IsFiniteSet(Written')
    <3>1. IsFiniteSet(Written \cup {p})
      BY FS_AddElement DEF ShownInv, LogInv
    <3>2. QED
      BY <1>5, <3>1, FS_Subset
  <2>2. ASSUME NEW n \in 1..Len(log'[p])
        PROVE  /\ log'[p][n].id <= cycle
               /\ \A m \in n..Len(log'[p]) : log'[p][n].id <= log'[p][m].id
    <3>1. CASE n = Len(log[p]) + 1
      <4>1. \A m \in n..Len(log'[p]) : m = n
        BY <1>4, <3>1
      <4>2. QED
        BY <1>3, <1>4, <3>1, <4>1
    <3>2. CASE n \in 1..Len(log[p])
      <4>1. /\ log[p][n].id <= cycle
            /\ \A m \in n..Len(log[p]) : log[p][n].id <= log[p][m].id
        BY <3>2 DEF ShownInv, LogInv
      <4>2. \A m \in n..Len(log'[p]) : m = Len(log[p]) + 1 \/ (m \in n..Len(log[p]) /\ m \in 1..Len(log[p]))
        BY <1>4, <3>2
      <4>3. QED
        BY <1>3, <1>4, <3>2, <4>1, <4>2
    <3>3. QED
      BY <1>4, <3>1, <3>2
  <2>3. \A q \in Partitions \ {p} : \A n \in 1..Len(log'[q]) :
           /\ log'[q][n].id <= cycle
           /\ \A m \in n..Len(log'[q]) : log'[q][n].id <= log'[q][m].id
    BY <1>4 DEF ShownInv, LogInv
  <2>4. QED
    BY <1>1, <2>1, <2>2, <2>3 DEF ShownInv, LogInv
<1>7. Incomplete'
  BY <1>1 DEF ShownInv, Incomplete
<1>8. ASSUME ReadInOrder' PROVE Ahead' /\ Collected'
  <2>1. ReadInOrder
    BY <1>1, <1>5, <1>6, <1>8, StillInOrder DEF ShownInv
  <2>2. Ahead /\ Collected
    BY <2>1 DEF ShownInv
  <2>3. Collected'
    BY <1>1, <1>2, <2>2 DEF Collected
  <2>4. ASSUME NEW q \in Partitions, NEW n \in (pos[q] + 1)..Len(log'[q]) PROVE ShownCycle <= log'[q][n].id
    <3>1. pos[q] \in Nat
      BY DEF AssemblyInv, ReaderInv
    <3>2. CASE q = p /\ n = Len(log[p]) + 1
      BY <1>3, <1>4, <2>2, <3>2 DEF Ahead
    <3>3. CASE ~(q = p /\ n = Len(log[p]) + 1)
      <4>1. n \in (pos[q] + 1)..Len(log[q]) /\ log'[q][n] = log[q][n]
        BY <1>4, <2>4, <3>1, <3>3
      <4>2. QED
        BY <2>2, <4>1 DEF Ahead
    <3>4. QED
      BY <3>2, <3>3
  <2>5. Ahead'
    BY <1>1, <1>2, <2>2, <2>4 DEF Ahead
  <2>6. QED
    BY <2>3, <2>5
<1>9. QED
  BY <1>6, <1>7, <1>8 DEF ShownInv

LEMMA ReadStep ==
    ASSUME AssemblyInv, AssemblyInv', ShownInv, NEW p \in Partitions, ReadRecord(p)
    PROVE  /\ ShownInv'
           /\ ReadInOrder => ShownCycle <= ShownCycle'
<1>1. /\ UNCHANGED <<log, cycle, rejoins>> /\ pos' = [pos EXCEPT ![p] = @ + 1] /\ pos \in [Partitions -> Nat]
  BY DEF ReadRecord, engineVars, AssemblyInv, ReaderInv
<1>2. LogInv' /\ Written' = Written /\ (ReadInOrder' <=> ReadInOrder)
  BY <1>1 DEF ShownInv, LogInv, Written, ReadInOrder
<1>3. /\ pos[p] \in Nat /\ pos[p] < Len(log[p]) /\ Len(log[p]) \in Nat
      /\ \E k \in CycleIDs : \E i \in Indices(k) :
            /\ log[p][pos[p] + 1] = Record(k, i)
            /\ k <= cycle
            /\ \A m \in (pos[p] + 2)..Len(log[p]) : k <= log[p][m].id
            /\ IF BatchCount[k] <= 1 THEN IngestWhole(Record(k, i)) ELSE IngestPart(Record(k, i))
  BY NextRecord DEF ShownInv
<1>a. PICK k \in CycleIDs : \E i \in Indices(k) :
         /\ log[p][pos[p] + 1] = Record(k, i)
         /\ k <= cycle
         /\ \A m \in (pos[p] + 2)..Len(log[p]) : k <= log[p][m].id
         /\ IF BatchCount[k] <= 1 THEN IngestWhole(Record(k, i)) ELSE IngestPart(Record(k, i))
  BY <1>3
<1>4. PICK i \in Indices(k) :
         /\ log[p][pos[p] + 1] = Record(k, i)
         /\ k <= cycle
         /\ \A m \in (pos[p] + 2)..Len(log[p]) : k <= log[p][m].id
         /\ IF BatchCount[k] <= 1 THEN IngestWhole(Record(k, i)) ELSE IngestPart(Record(k, i))
  BY <1>a
<1>5. /\ Incomplete'
      /\ cache' = cache \/ cache' = WholeCycle(k)
      /\ cache' = WholeCycle(k)
           \/ \A j : <<k, j>> \in received' /\ (<<k, j>> \in received => k \in DOMAIN pending /\ j \in DOMAIN pending[k])
                   => k \in DOMAIN pending' /\ j \in DOMAIN pending'[k]
      /\ \A m \in CycleIDs \ {k} : \A j :
            <<m, j>> \in received' /\ (<<m, j>> \in received => m \in DOMAIN pending /\ j \in DOMAIN pending[m])
                   => m \in DOMAIN pending' /\ j \in DOMAIN pending'[m]
  BY <1>4, IngestStep DEF ShownInv
<1>6. /\ ShownCycle \in Nat /\ ShownCycle' \in Nat /\ k \in Nat /\ cycle \in Nat
      /\ cache' = cache => ShownCycle' = ShownCycle
      /\ cache' = WholeCycle(k) => ShownCycle' = k
  <2>1. ShownCycle \in Nat /\ ShownCycle' \in Nat /\ (cache' = WholeCycle(k) => ShownCycle' = k)
    BY ShownIsCycle
  <2>2. k \in Nat /\ cycle \in Nat
    BY CyclesAssumption DEF CycleIDs, AssemblyInv, EngineInv
  <2>3. cache' = cache => ShownCycle' = ShownCycle
    BY DEF ShownCycle
  <2>4. QED
    BY <2>1, <2>2, <2>3
<1>7. ASSUME ReadInOrder PROVE Ahead' /\ Collected' /\ ShownCycle <= ShownCycle'
  <2>1. Ahead /\ Collected
    BY <1>7 DEF ShownInv
  <2>2. ShownCycle <= k
    <3>1. pos[p] + 1 \in (pos[p] + 1)..Len(log[p]) /\ Record(k, i).id = k
      BY <1>3 DEF Record
    <3>2. QED
      BY <1>4, <2>1, <3>1 DEF Ahead
  <2>3. ShownCycle <= ShownCycle' /\ ShownCycle' <= cycle /\ (ShownCycle' = ShownCycle \/ ShownCycle' = k)
    BY <1>4, <1>5, <1>6, <2>1, <2>2 DEF Ahead
  <2>4. ASSUME NEW q \in Partitions, NEW n \in (pos'[q] + 1)..Len(log[q]) PROVE ShownCycle' <= log[q][n].id
    <3>1. CASE q = p
      <4>1. pos'[q] = pos[p] + 1
        BY <1>1, <3>1
      <4>2. n \in (pos[p] + 2)..Len(log[p]) /\ n \in (pos[p] + 1)..Len(log[p])
        BY <1>3, <2>4, <3>1, <4>1
      <4>3. k <= log[p][n].id /\ ShownCycle <= log[p][n].id
        BY <1>4, <2>1, <4>2 DEF Ahead
      <4>4. QED
        BY <2>3, <3>1, <4>3
    <3>2. CASE q # p
      <4>1. log[q] \in Seq(Records) /\ log[p] \in Seq(Records) /\ pos'[q] \in Nat
        BY <1>1, <3>2 DEF AssemblyInv, EngineInv
      <4>2. log[q] # <<>> /\ log[p] # <<>>
        BY <1>3, <2>4, <4>1
      <4>3. FALSE
        BY <1>7, <3>2, <4>2, OnePartition DEF Written, ShownInv
      <4>4. QED
        BY <4>3
    <3>3. QED
      BY <3>1, <3>2
  <2>5. Ahead'
    BY <1>1, <2>3, <2>4 DEF Ahead
  <2>6. ASSUME NEW m \in CycleIDs, ShownCycle' < m, NEW j, <<m, j>> \in received'
        PROVE  m \in DOMAIN pending' /\ j \in DOMAIN pending'[m]
    <3>1. m \in Nat
      BY CyclesAssumption DEF CycleIDs
    <3>2. ShownCycle < m
      BY <1>6, <2>3, <2>6, <3>1
    <3>3. <<m, j>> \in received => m \in DOMAIN pending /\ j \in DOMAIN pending[m]
      BY <2>1, <3>2 DEF Collected
    <3>4. CASE m = k
      <4>1. cache' # WholeCycle(k)
        BY <1>6, <2>6, <3>1, <3>4
      <4>2. QED
        BY <1>5, <2>6, <3>3, <3>4, <4>1
    <3>5. CASE m # k
      BY <1>5, <2>6, <3>3, <3>5
    <3>6. QED
      BY <3>4, <3>5
  <2>7. Collected'
    BY <2>6 DEF Collected
  <2>8. QED
    BY <2>3, <2>5, <2>7
<1>8. QED
  BY <1>2, <1>5, <1>7 DEF ShownInv

LEMMA ShownStep ==
    AssemblyInv /\ AssemblyInv' /\ ShownInv /\ [Next]_vars
        => ShownInv' /\ (cache' # NoPayload => ShownCycle' >= ShownCycle \/ ~ReadInOrder)
<1> SUFFICES ASSUME AssemblyInv, AssemblyInv', ShownInv, [Next]_vars
             PROVE  ShownInv' /\ (cache' # NoPayload => ShownCycle' >= ShownCycle \/ ~ReadInOrder)
  OBVIOUS
<1>1. ShownCycle \in Nat /\ ShownCycle' \in Nat /\ cycle \in Nat
  BY ShownIsCycle, CyclesAssumption DEF AssemblyInv, EngineInv
<1>2. UNCHANGED cache => ShownCycle' = ShownCycle /\ ShownCycle' >= ShownCycle
  BY <1>1 DEF ShownCycle
<1>3. ASSUME UNCHANGED <<log, pos, pending, cache, rejoins, received>>, cycle' = cycle \/ cycle' = cycle + 1
      PROVE  ShownInv' /\ UNCHANGED cache
  <2>1. Written' = Written /\ (ReadInOrder' <=> ReadInOrder) /\ ShownCycle' = ShownCycle /\ cycle <= cycle'
    BY <1>1, <1>2, <1>3 DEF Written, ReadInOrder
  <2>2. LogInv' /\ Incomplete'
    <3>1. \A p \in Partitions : \A n \in 1..Len(log[p]) : log[p][n].id \in Nat
      <4>1. ASSUME NEW p \in Partitions, NEW n \in 1..Len(log[p]) PROVE log[p][n].id \in Nat
        <5>1. log[p] \in Seq(Records)
          BY DEF AssemblyInv, EngineInv
        <5>2. log[p][n] \in Records
          BY <5>1
        <5>3. PICK k \in CycleIDs : log[p][n] \in {Record(k, j) : j \in Indices(k)}
          BY <5>2 DEF Records
        <5>4. log[p][n].id = k
          BY <5>3 DEF Record
        <5>5. QED
          BY <5>4, CyclesAssumption DEF CycleIDs
      <4>2. QED
        BY <4>1
    <3>2. QED
      BY <1>1, <1>3, <2>1, <3>1 DEF ShownInv, LogInv, Incomplete
  <2>3. ReadInOrder' => Ahead' /\ Collected'
    BY <1>1, <1>3, <2>1 DEF ShownInv, Ahead, Collected
  <2>4. QED
    BY <1>3, <2>2, <2>3 DEF ShownInv
<1>4. CASE StartCycle \/ AbandonCycle \/ Expire \/ UNCHANGED vars
  <2>1. UNCHANGED <<log, pos, pending, cache, rejoins, received>> /\ (cycle' = cycle \/ cycle' = cycle + 1)
    BY <1>4 DEF StartCycle, AbandonCycle, Expire, vars, engineVars, gatewayVars
  <2>2. QED
    BY <1>2, <1>3, <2>1
<1>5. ASSUME NEW p \in Partitions, Commit(p)
      PROVE  ShownInv' /\ UNCHANGED cache
  <2>1. UNCHANGED <<log, pos, pending, cache, rejoins, received>> /\ cycle' = cycle
    BY <1>5 DEF Commit, engineVars
  <2>2. QED
    BY <1>3, <2>1
<1>6. ASSUME NEW p \in Partitions, PublishPart(p) \/ PublishUnacknowledged(p)
      PROVE  ShownInv' /\ UNCHANGED cache
  <2>1. UNCHANGED cache
    BY <1>6 DEF PublishPart, PublishUnacknowledged, gatewayVars
  <2>2. QED
    BY <1>6, <2>1, PublishStep
<1>7. CASE Restart
  <2>1. /\ cache' = NoPayload /\ received' = {} /\ pending' = NoBatch /\ DOMAIN NoBatch = {}
        /\ UNCHANGED <<log, cycle, rejoins>>
    BY <1>7 DEF Restart, engineVars, NoBatch
  <2>2. ShownCycle' = 0
    BY <2>1 DEF ShownCycle
  <2>3. LogInv' /\ Incomplete' /\ Collected'
    BY <2>1 DEF ShownInv, LogInv, Incomplete, Collected, Written
  <2>4. Ahead'
    <3>1. ASSUME NEW p \in Partitions, NEW n \in (pos'[p] + 1)..Len(log'[p]) PROVE 0 <= log'[p][n].id
      <4>1. log'[p] \in Seq(Records) /\ pos'[p] \in Nat
        BY DEF AssemblyInv, EngineInv, ReaderInv
      <4>2. log'[p][n] \in Records
        BY <3>1, <4>1
      <4>3. PICK k \in CycleIDs : log'[p][n] \in {Record(k, j) : j \in Indices(k)}
        BY <4>2 DEF Records
      <4>4. log'[p][n].id = k
        BY <4>3 DEF Record
      <4>5. QED
        BY <4>4, CyclesAssumption DEF CycleIDs
    <3>2. QED
      BY <1>1, <2>1, <2>2, <3>1 DEF Ahead
  <2>5. QED
    BY <2>1, <2>3, <2>4 DEF ShownInv
<1>8. CASE Rejoin
  <2>1. UNCHANGED <<log, cycle, pending, cache, received>> /\ rejoins' = rejoins + 1
    BY <1>8 DEF Rejoin, engineVars
  <2>2. LogInv' /\ Incomplete' /\ ~ReadInOrder'
    BY <2>1 DEF ShownInv, LogInv, Incomplete, Written, ReadInOrder
  <2>3. QED
    BY <1>2, <2>1, <2>2 DEF ShownInv
<1>9. ASSUME NEW p \in Partitions, ReadRecord(p)
      PROVE  ShownInv' /\ (ReadInOrder => ShownCycle <= ShownCycle')
  BY <1>9, ReadStep
<1>10. QED
  BY <1>1, <1>2, <1>4, <1>5, <1>6, <1>7, <1>8, <1>9 DEF Next

LEMMA ShownKept == Spec => []ShownInv
<1>1. Init => ShownInv
  <2> SUFFICES ASSUME Init PROVE ShownInv
    OBVIOUS
  <2>1. Written = {} /\ IsFiniteSet({})
    BY FS_EmptySet DEF Init, Written
  <2>2. LogInv
    BY <2>1 DEF Init, LogInv
  <2>3. DOMAIN pending = {}
    BY DEF Init, NoBatch
  <2>4. Incomplete /\ Collected
    BY <2>3 DEF Init, Incomplete, Collected
  <2>5. Ahead
    BY DEF Init, Ahead, ShownCycle
  <2>6. QED
    BY <2>2, <2>4, <2>5 DEF ShownInv
<1>2. QED
  BY <1>1, ShownStep, AssemblyKept, PTL DEF Spec

\* When the records lie in one partition and are read once, in order, a cycle all of
\* whose parts were received is shown, or a later one is: what is left over of other
\* cycles does not hold it back (satelliteBatchAssembler.ingest).
THEOREM CompleteCyclesAreShown == Spec => []CompleteCycleShown
<1>1. AssemblyInv /\ ShownInv => CompleteCycleShown
  <2> SUFFICES ASSUME AssemblyInv, ShownInv, ReadInOrder, NEW k \in CycleIDs,
                      {k} \X Indices(k) \subseteq received, ~(ShownCycle >= k)
               PROVE  FALSE
    BY DEF CompleteCycleShown
  <2>1. ShownCycle \in Nat /\ k \in Nat
    <3>1. ShownCycle = CycleOf(cache) /\ PayloadWhole
      BY DEF ShownCycle, CycleOf, AssemblyInv
    <3>2. QED
      BY <3>1, CycleOfWhole, CyclesAssumption DEF PayloadWhole, CycleIDs
  <2>2. \A j \in Indices(k) : k \in DOMAIN pending /\ j \in DOMAIN pending[k]
    <3>1. ShownCycle < k
      BY <2>1
    <3>2. \A j \in Indices(k) : <<k, j>> \in received
      OBVIOUS
    <3>3. QED
      BY <3>1, <3>2 DEF ShownInv, Collected
  <2>3. 0 \in Indices(k)
    BY BatchCountAssumption DEF Indices, CycleIDs
  <2>4. QED
    BY <2>2, <2>3 DEF ShownInv, Incomplete
<1>2. QED
  BY <1>1, ShownKept, AssemblyKept, PTL

\* Retries, abandoned cycles, expiry and restarts alone never make
\* satelliteBatchAssembler.ingest hand out an earlier cycle than the one shown.
THEOREM AssemblyNeverGoesBack == Spec => OlderCycleOnlyIfReordered
<1>1. QED
  BY ShownStep, ShownKept, AssemblyKept, PTL DEF Spec, OlderCycleOnlyIfReordered

-----------------------------------------------------------------------------
(* Types: what is stored is listed in the order of receipt.                  *)

Entries(s) == {s[n] : n \in 1..Len(s)}
Distinct(s) == \A m, n \in 1..Len(s) : s[m] = s[n] => m = n

\* No batch is listed twice, and those listed are those stored.
Listed ==
    /\ order \in Seq(CycleIDs) /\ Distinct(order)
    /\ Entries(order) = DOMAIN pending
    /\ expired \in 0..Len(order)

\* The engine stays within its cycle, and the reader within the topic.
Progress ==
    /\ cycle > 0 => next <= BatchCount[cycle]
    /\ \A p \in Partitions : committed[p] <= pos[p] /\ pos[p] <= Len(log[p])
    /\ retries \in 0..MaxRetries /\ restarts \in 0..MaxRestarts /\ rejoins \in 0..MaxRejoins

\* What is less one entry lists the others once each.
LEMMA WithoutOne ==
    ASSUME NEW S, NEW s \in Seq(S), Distinct(s), NEW id
    PROVE  /\ Without(s, id) \in Seq(S) /\ Distinct(Without(s, id))
           /\ Entries(Without(s, id)) = Entries(s) \ {id}
<1>1. CASE \A n \in DOMAIN s : s[n] # id
  <2>1. Without(s, id) = s
    BY <1>1 DEF Without
  <2>2. DOMAIN s = 1..Len(s)
    OBVIOUS
  <2>3. QED
    BY <1>1, <2>1, <2>2 DEF Entries
<1>2. CASE \E n \in DOMAIN s : s[n] = id
  <2> DEFINE at == CHOOSE n \in DOMAIN s : s[n] = id
             w == SubSeq(s, 1, at - 1) \o SubSeq(s, at + 1, Len(s))
  <2>1. at \in 1..Len(s) /\ s[at] = id
    BY <1>2
  <2>2. Without(s, id) = w
    BY <1>2 DEF Without
  <2> HIDE DEF at
  <2>3. /\ w \in Seq(S) /\ Len(w) = Len(s) - 1
        /\ \A n \in 1..(Len(s) - 1) : w[n] = IF n < at THEN s[n] ELSE s[n + 1]
    <3> DEFINE a == SubSeq(s, 1, at - 1)
               b == SubSeq(s, at + 1, Len(s))
    <3>1. a \in Seq(S) /\ Len(a) = at - 1 /\ \A n \in 1..(at - 1) : a[n] = s[n]
      BY <2>1
    <3>2. b \in Seq(S) /\ Len(b) = Len(s) - at /\ \A n \in 1..(Len(s) - at) : b[n] = s[at + n]
      BY <2>1
    <3> HIDE DEF a, b
    <3>3. w = a \o b
      BY DEF a, b
    <3>4. /\ w \in Seq(S) /\ Len(w) = Len(a) + Len(b)
          /\ \A n \in 1..(Len(a) + Len(b)) : w[n] = IF n <= Len(a) THEN a[n] ELSE b[n - Len(a)]
      <4>1. /\ a \o b \in Seq(S) /\ Len(a \o b) = Len(a) + Len(b)
            /\ \A n \in 1..(Len(a) + Len(b)) : (a \o b)[n] = IF n <= Len(a) THEN a[n] ELSE b[n - Len(a)]
        BY <3>1, <3>2, ConcatProperties, Zenon
      <4> HIDE DEF w
      <4>2. QED
        BY <3>3, <4>1, Zenon
    <3>5. ASSUME NEW n \in 1..(Len(s) - 1) PROVE w[n] = IF n < at THEN s[n] ELSE s[n + 1]
      <4> HIDE DEF w
      <4>1. CASE n < at
        <5>1. n \in 1..(Len(a) + Len(b)) /\ n <= Len(a) /\ n \in 1..(at - 1)
          BY <2>1, <3>1, <3>2, <4>1
        <5>2. w[n] = a[n]
          BY <3>4, <5>1, Zenon
        <5>3. a[n] = s[n]
          BY <3>1, <5>1, Zenon
        <5>4. QED
          BY <4>1, <5>2, <5>3, Zenon
      <4>2. CASE ~(n < at)
        <5>1. w[n] = b[n - at + 1] /\ n - at + 1 \in 1..(Len(s) - at)
          <6>1. Len(a) + Len(b) = Len(s) - 1 /\ n \in 1..(Len(a) + Len(b)) /\ ~(n <= Len(a))
            BY <2>1, <3>1, <3>2, <4>2
          <6>2. w[n] = b[n - Len(a)]
            BY <3>4, <6>1
          <6>3. n - Len(a) = n - at + 1 /\ n - at + 1 \in 1..(Len(s) - at)
            BY <2>1, <3>1, <4>2
          <6>4. QED
            BY <6>2, <6>3
        <5>2. b[n - at + 1] = s[at + (n - at + 1)]
          BY <3>2, <5>1
        <5>3. at + (n - at + 1) = n + 1
          BY <2>1
        <5>4. QED
          BY <4>2, <5>1, <5>2, <5>3
      <4>3. QED
        BY <4>1, <4>2
    <3>6. Len(a) + Len(b) = Len(s) - 1
      BY <2>1, <3>1, <3>2
    <3>7. QED
      BY <3>4, <3>5, <3>6
  <2> HIDE DEF w
  <2>4. Distinct(w)
    <3> SUFFICES ASSUME NEW m \in 1..(Len(s) - 1), NEW n \in 1..(Len(s) - 1), w[m] = w[n] PROVE m = n
      BY <2>3 DEF Distinct
    <3>1. /\ Len(s) \in Nat /\ at \in 1..Len(s)
          /\ {m, m + 1, n, n + 1} \subseteq 1..Len(s)
      BY <2>1
    <3>2. CASE m < at /\ n < at
      <4>1. s[m] = s[n]
        BY <2>3, <3>2, Zenon
      <4>2. QED
        BY <3>1, <4>1 DEF Distinct
    <3>3. CASE m < at /\ ~(n < at)
      <4>1. s[m] = s[n + 1]
        BY <2>3, <3>3, Zenon
      <4>2. m = n + 1
        BY <3>1, <4>1 DEF Distinct
      <4>3. QED
        BY <3>1, <3>3, <4>2
    <3>4. CASE ~(m < at) /\ n < at
      <4>1. s[m + 1] = s[n]
        BY <2>3, <3>4, Zenon
      <4>2. m + 1 = n
        BY <3>1, <4>1 DEF Distinct
      <4>3. QED
        BY <3>1, <3>4, <4>2
    <3>5. CASE ~(m < at) /\ ~(n < at)
      <4>1. s[m + 1] = s[n + 1]
        BY <2>3, <3>5, Zenon
      <4>2. m + 1 = n + 1
        BY <3>1, <4>1 DEF Distinct
      <4>3. QED
        BY <4>2
    <3>6. QED
      BY <3>2, <3>3, <3>4, <3>5
  <2>5. ASSUME NEW x \in Entries(w) PROVE x \in Entries(s) \ {id}
    <3>1. PICK n \in 1..(Len(s) - 1) : w[n] = x
      BY <2>3, <2>5 DEF Entries
    <3>2. n \in 1..Len(s) /\ n + 1 \in 1..Len(s)
      BY <2>1
    <3>3. \E m \in 1..Len(s) : m # at /\ s[m] = x
      <4>1. CASE n < at
        BY <2>3, <3>1, <3>2, <4>1
      <4>2. CASE ~(n < at)
        BY <2>1, <2>3, <3>1, <3>2, <4>2
      <4>3. QED
        BY <4>1, <4>2
    <3>4. QED
      BY <2>1, <3>3 DEF Entries, Distinct
  <2>6. ASSUME NEW x \in Entries(s) \ {id} PROVE x \in Entries(w)
    <3>1. PICK n \in 1..Len(s) : s[n] = x
      BY <2>6 DEF Entries
    <3>2. n # at
      BY <2>1, <2>6, <3>1
    <3>3. CASE n < at
      BY <2>1, <2>3, <3>1, <3>3 DEF Entries
    <3>4. CASE n > at
      <4>1. n - 1 \in 1..(Len(s) - 1) /\ w[n - 1] = s[n - 1 + 1]
        BY <2>1, <2>3, <3>4
      <4>2. QED
        BY <2>3, <3>1, <4>1 DEF Entries
    <3>5. QED
      BY <2>1, <3>2, <3>3, <3>4
  <2>7. QED
    BY <2>2, <2>3, <2>4, <2>5, <2>6
<1>3. QED
  BY <1>1, <1>2

\* The batches left are those listed behind the expired ones.
LEMMA LeftOver ==
    ASSUME Listed
    PROVE  LET rest == SubSeq(order, expired + 1, Len(order)) IN
           rest \in Seq(CycleIDs) /\ Distinct(rest) /\ Entries(rest) = Unexpired
<1> DEFINE rest == SubSeq(order, expired + 1, Len(order))
<1>1. /\ rest \in Seq(CycleIDs) /\ Len(rest) = Len(order) - expired
      /\ \A n \in 1..(Len(order) - expired) : rest[n] = order[expired + n]
  BY DEF Listed
<1> HIDE DEF rest
<1>2. Distinct(rest)
  BY <1>1 DEF Listed, Distinct
<1>3. ASSUME NEW id \in Entries(rest) PROVE id \in Unexpired
  <2>1. PICK n \in 1..(Len(order) - expired) : id = order[expired + n]
    BY <1>1 DEF Entries
  <2>2. expired + n \in 1..Len(order) /\ expired + n > expired
    BY DEF Listed
  <2>3. \A i \in 1..expired : order[i] # id
    BY <2>1, <2>2 DEF Listed, Distinct
  <2>4. QED
    BY <2>1, <2>2, <2>3 DEF Unexpired, Listed, Entries
<1>4. ASSUME NEW id \in Unexpired PROVE id \in Entries(rest)
  <2>1. PICK n \in 1..Len(order) : order[n] = id
    BY DEF Unexpired, Listed, Entries
  <2>2. n > expired
    BY <2>1 DEF Unexpired, Listed
  <2>3. n - expired \in 1..(Len(order) - expired) /\ rest[n - expired] = order[expired + (n - expired)]
    BY <1>1, <2>2 DEF Listed
  <2>4. QED
    BY <1>1, <2>1, <2>3 DEF Listed, Entries
<1>5. QED
  BY <1>1, <1>2, <1>3, <1>4 DEF rest

LEMMA IngestListed ==
    ASSUME Listed, NEW k \in CycleIDs, NEW i \in Indices(k), IngestPart(Record(k, i))
    PROVE  Listed'
<1> DEFINE r == Record(k, i)
           rest == SubSeq(order, expired + 1, Len(order))
           kept == Without(rest, k)
           others == Unexpired \ {k}
<1>1. r.id = k
  BY DEF Record
<1>2. kept \in Seq(CycleIDs) /\ Distinct(kept) /\ Entries(kept) = others
  <2>1. rest \in Seq(CycleIDs) /\ Distinct(rest) /\ Entries(rest) = Unexpired
    BY LeftOver
  <2> HIDE DEF rest
  <2>2. QED
    BY <2>1, WithoutOne
<1>3. expired' = 0
  BY DEF IngestPart
<1>4. CASE Ready(k, PartsWith(r))
  <2>1. DOMAIN pending' = others /\ order' = kept
    BY <1>1, <1>4 DEF IngestPart, Deliver
  <2> HIDE DEF kept, others
  <2>2. QED
    BY <1>2, <1>3, <2>1 DEF Listed
<1>5. CASE ~Ready(k, PartsWith(r))
  <2>1. DOMAIN pending' = others \cup {k} /\ order' = Append(kept, k)
    BY <1>1, <1>5 DEF IngestPart
  <2> HIDE DEF kept
  <2>2. k \notin Entries(kept)
    BY <1>2
  <2>3. /\ order' \in Seq(CycleIDs) /\ Len(order') = Len(kept) + 1 /\ order'[Len(kept) + 1] = k
        /\ \A n \in 1..Len(kept) : order'[n] = kept[n]
    BY <1>2, <2>1
  <2>4. Distinct(order')
    BY <1>2, <2>2, <2>3 DEF Distinct, Entries
  <2>5. Entries(order') = Entries(kept) \cup {k}
    <3>1. \A n \in 1..(Len(kept) + 1) : n \in 1..Len(kept) \/ n = Len(kept) + 1
      BY <1>2
    <3>2. 1..Len(kept) \subseteq 1..(Len(kept) + 1) /\ Len(kept) + 1 \in 1..(Len(kept) + 1)
      BY <1>2
    <3>3. QED
      BY <2>3, <3>1, <3>2 DEF Entries
  <2>6. QED
    BY <1>2, <1>3, <2>1, <2>3, <2>4, <2>5 DEF Listed
<1>6. QED
  BY <1>4, <1>5

\* Every pass of the engine and of the reader keeps within what was published.
LEMMA ProgressStep ==
    ASSUME AssemblyInv, AssemblyInv', Progress, Next PROVE Progress'
<1> USE DEF AssemblyInv, EngineInv, ReaderInv
<1>1. CASE StartCycle
  <2>1. cycle' \in CycleIDs /\ next' = 0 /\ UNCHANGED <<retries, log, pos, committed, restarts, rejoins>>
    BY <1>1, CyclesAssumption DEF StartCycle, gatewayVars, CycleIDs
  <2>2. BatchCount[cycle'] \in Nat
    BY <2>1, BatchCountAssumption DEF CycleIDs
  <2>3. QED
    BY <2>1, <2>2 DEF Progress
<1>2. ASSUME NEW p \in Partitions, PublishPart(p) \/ PublishUnacknowledged(p) PROVE Progress'
  <2>1. /\ log' = [log EXCEPT ![p] = Append(@, Record(cycle, next))] /\ next < BatchCount[cycle] /\ cycle \in CycleIDs
        /\ cycle' = cycle /\ next' \in {next, next + 1} /\ UNCHANGED <<pos, committed, restarts, rejoins>>
    BY <1>2, CyclesAssumption DEF PublishPart, PublishUnacknowledged, Append1, Publishing, gatewayVars, CycleIDs
  <2>2. next' <= BatchCount[cycle']
    <3>1. BatchCount[cycle] \in Nat /\ next \in Nat
      BY <2>1, BatchCountAssumption DEF CycleIDs
    <3>2. next + 1 <= BatchCount[cycle] /\ next <= BatchCount[cycle]
      BY <2>1, <3>1
    <3>3. QED
      BY <2>1, <3>2
  <2>3. retries' \in 0..MaxRetries
    BY <1>2, BoundsAssumption DEF PublishPart, PublishUnacknowledged, Progress
  <2>4. ASSUME NEW q \in Partitions PROVE pos[q] <= Len(log'[q])
    <3>1. Len(log[q]) \in Nat /\ Len(log'[q]) \in {Len(log[q]), Len(log[q]) + 1}
      <4>1. log[p] \in Seq(Records) /\ log[q] \in Seq(Records) /\ Len(log[p]) \in Nat
        OBVIOUS
      <4>2. Len(Append(log[p], Record(cycle, next))) = Len(log[p]) + 1
        BY <4>1
      <4>3. CASE q = p
        BY <2>1, <4>1, <4>2, <4>3
      <4>4. CASE q # p
        BY <2>1, <4>1, <4>4
      <4>5. QED
        BY <4>3, <4>4
    <3>2. pos[q] \in Nat /\ pos[q] <= Len(log[q])
      BY DEF Progress
    <3>3. QED
      BY <3>1, <3>2
  <2>5. QED
    BY <2>1, <2>2, <2>3, <2>4 DEF Progress
<1>3. CASE AbandonCycle
  <2>1. /\ cycle \in CycleIDs /\ cycle' = cycle /\ next' = BatchCount[cycle]
        /\ UNCHANGED <<retries, log, pos, committed, restarts, rejoins>>
    BY <1>3, CyclesAssumption DEF AbandonCycle, Publishing, gatewayVars, CycleIDs
  <2>2. BatchCount[cycle] \in Nat
    BY <2>1, BatchCountAssumption DEF CycleIDs
  <2>3. QED
    BY <2>1, <2>2 DEF Progress
<1>4. ASSUME NEW p \in Partitions, ReadRecord(p) PROVE Progress'
  <2>1. /\ pos[p] < Len(log[p]) /\ pos' = [pos EXCEPT ![p] = @ + 1]
        /\ UNCHANGED <<committed, restarts, rejoins, cycle, next, retries, log>>
    BY <1>4 DEF ReadRecord, engineVars
  <2>2. ASSUME NEW q \in Partitions PROVE committed[q] <= pos'[q] /\ pos'[q] <= Len(log[q])
    <3>1. pos[q] \in Nat /\ committed[q] \in Nat /\ Len(log[q]) \in Nat
      OBVIOUS
    <3>2. committed[q] <= pos[q] /\ pos[q] <= Len(log[q])
      BY DEF Progress
    <3>3. QED
      BY <2>1, <3>1, <3>2
  <2>3. QED
    BY <2>1, <2>2 DEF Progress
<1>5. ASSUME NEW p \in Partitions, Commit(p) PROVE Progress'
  BY <1>5 DEF Commit, engineVars, Progress
<1>6. CASE Expire
  BY <1>6 DEF Expire, engineVars, Progress
<1>7. CASE Restart \/ Rejoin
  <2>1. /\ pos' = committed /\ UNCHANGED <<committed, cycle, next, retries, log>>
        /\ restarts' \in 0..MaxRestarts /\ rejoins' \in 0..MaxRejoins
    BY <1>7, BoundsAssumption DEF Restart, Rejoin, engineVars, Progress
  <2>2. ASSUME NEW q \in Partitions PROVE committed[q] <= Len(log[q])
    <3>1. committed[q] \in Nat /\ pos[q] \in Nat /\ Len(log[q]) \in Nat
      OBVIOUS
    <3>2. QED
      BY <3>1 DEF Progress
  <2>3. QED
    BY <2>1, <2>2 DEF Progress
<1>8. QED
  BY <1>1, <1>2, <1>3, <1>4, <1>5, <1>6, <1>7 DEF Next

\* What is remembered as received are parts of cycles.
LEMMA ReceivedStep ==
    ASSUME AssemblyInv, received \subseteq CycleIDs \X Nat, Next PROVE received' \subseteq CycleIDs \X Nat
<1>1. CASE \E p \in Partitions : ReadRecord(p)
  <2>1. PICK p \in Partitions : ReadRecord(p)
    BY <1>1
  <2>2. log[p][pos[p] + 1] \in Records
    <3>1. log[p] \in Seq(Records) /\ pos[p] \in Nat /\ pos[p] < Len(log[p])
      BY <2>1 DEF ReadRecord, AssemblyInv, EngineInv, ReaderInv
    <3>2. QED
      BY <3>1
  <2>3. PICK k \in CycleIDs : log[p][pos[p] + 1] \in {Record(k, j) : j \in Indices(k)}
    BY <2>2 DEF Records
  <2>4. PICK i \in Indices(k) : log[p][pos[p] + 1] = Record(k, i)
    BY <2>3
  <2> DEFINE r == log[p][pos[p] + 1]
  <2>5. r.id = k /\ r.index = i /\ i \in Nat
    BY <2>4, BatchCountAssumption DEF Record, Indices, CycleIDs
  <2>6. received' \subseteq received \cup {<<r.id, r.index>>}
    BY <2>1 DEF ReadRecord, IngestPart, IngestWhole
  <2> HIDE DEF r
  <2>7. QED
    BY <2>5, <2>6
<1>2. CASE Restart
  BY <1>2 DEF Restart
<1>3. CASE StartCycle \/ AbandonCycle \/ Expire \/ Rejoin
  BY <1>3 DEF StartCycle, AbandonCycle, Expire, Rejoin, gatewayVars
<1>4. ASSUME NEW p \in Partitions, PublishPart(p) \/ PublishUnacknowledged(p) \/ Commit(p)
      PROVE  received' \subseteq CycleIDs \X Nat
  BY <1>4 DEF PublishPart, PublishUnacknowledged, Commit, gatewayVars
<1>5. QED
  BY <1>1, <1>2, <1>3, <1>4 DEF Next

LEMMA ListedStep ==
    ASSUME AssemblyInv, Listed, Next PROVE Listed'
<1>1. CASE StartCycle \/ AbandonCycle \/ Rejoin
  <2>1. UNCHANGED <<pending, order, expired>>
    BY <1>1 DEF StartCycle, AbandonCycle, Rejoin, gatewayVars
  <2>2. QED
    BY <2>1 DEF Listed, Distinct, Entries
<1>2. ASSUME NEW p \in Partitions, PublishPart(p) \/ PublishUnacknowledged(p) \/ Commit(p) PROVE Listed'
  <2>1. UNCHANGED <<pending, order, expired>>
    BY <1>2 DEF PublishPart, PublishUnacknowledged, Commit, gatewayVars
  <2>2. QED
    BY <2>1 DEF Listed, Distinct, Entries
<1>3. ASSUME NEW p \in Partitions, ReadRecord(p) PROVE Listed'
  <2>1. log[p][pos[p] + 1] \in Records
    <3>1. log[p] \in Seq(Records) /\ pos[p] \in Nat /\ pos[p] < Len(log[p])
      BY <1>3 DEF ReadRecord, AssemblyInv, EngineInv, ReaderInv
    <3>2. QED
      BY <3>1
  <2>2. PICK k \in CycleIDs : log[p][pos[p] + 1] \in {Record(k, j) : j \in Indices(k)}
    BY <2>1 DEF Records
  <2>3. PICK i \in Indices(k) : log[p][pos[p] + 1] = Record(k, i)
    BY <2>2
  <2>4. CASE IngestPart(Record(k, i))
    BY <2>4, IngestListed
  <2>5. CASE IngestWhole(Record(k, i))
    BY <2>5 DEF IngestWhole, Listed, Distinct, Entries
  <2>6. QED
    BY <1>3, <2>3, <2>4, <2>5 DEF ReadRecord
<1>4. CASE Expire
  BY <1>4 DEF Expire, Listed, Distinct, Entries
<1>5. CASE Restart
  <2>1. pending' = NoBatch /\ order' = <<>> /\ expired' = 0
    BY <1>5 DEF Restart
  <2>2. DOMAIN NoBatch = {}
    BY DEF NoBatch
  <2>3. order' \in Seq(CycleIDs) /\ Len(order') = 0 /\ 1..0 = {}
    BY <2>1
  <2>4. QED
    BY <2>1, <2>2, <2>3 DEF Listed, Distinct, Entries
<1>6. QED
  BY <1>1, <1>2, <1>3, <1>4, <1>5 DEF Next

\* A sequence that lists a set once each is as long as the set is large.
LEMMA CountOfList ==
    ASSUME NEW S, NEW s \in Seq(S), Distinct(s)
    PROVE  Len(s) = Cardinality(Entries(s))
<1>1. s \in Bijection(1..Len(s), Entries(s))
  BY DEF Bijection, Injection, IsInjective, Surjection, Distinct, Entries
<1>2. ExistsBijection(1..Len(s), Entries(s))
  BY <1>1 DEF ExistsBijection
<1>3. QED
  BY <1>2, FS_CountingElements

\* The variables keep their types: no cycle publishes more parts than it has, what
\* was committed was read and what was read was written, and the assembler of
\* gateway/main.go lists each batch that it stores once.
THEOREM BatchTypeCorrect == Spec => []TypeOK
<1> DEFINE Received == received \subseteq CycleIDs \X Nat
<1>1. Init => AssemblyInv /\ Progress /\ Listed /\ Received
  <2> SUFFICES ASSUME Init PROVE Progress /\ Listed /\ AssemblyInv /\ Received
    OBVIOUS
  <2>1. Progress
    BY BoundsAssumption DEF Init, Progress
  <2>2. DOMAIN NoBatch = {} /\ 1..0 = {}
    BY DEF NoBatch
  <2>3. Listed
    BY <2>2 DEF Init, Listed, Distinct, Entries
  <2>4. EngineInv /\ ReaderInv
    BY CyclesAssumption DEF Init, EngineInv, ReaderInv
  <2>5. PendingInv
    BY <2>2 DEF Init, PendingInv
  <2>6. QED
    BY <2>1, <2>3, <2>4, <2>5 DEF Init, PayloadWhole, AssemblyInv
<1>2. AssemblyInv /\ AssemblyInv' /\ Progress /\ Listed /\ Received /\ [Next]_vars => Progress' /\ Listed' /\ Received'
  <2>1. CASE UNCHANGED vars
    BY <2>1 DEF vars, engineVars, gatewayVars, Progress, Listed, Distinct, Entries
  <2>2. QED
    BY <2>1, ProgressStep, ListedStep, ReceivedStep
<1>3. AssemblyInv /\ Progress /\ Listed /\ Received => TypeOK
  <2> SUFFICES ASSUME AssemblyInv, Progress, Listed, Received PROVE TypeOK
    OBVIOUS
  <2>1. ASSUME NEW p \in Partitions, NEW n \in 1..Len(log[p])
        PROVE  \E k \in CycleIDs : \E i \in Indices(k) : log[p][n] = Record(k, i)
    <3>1. log[p] \in Seq(Records)
      BY DEF AssemblyInv, EngineInv
    <3>2. log[p][n] \in Records
      BY <3>1
    <3>3. PICK k \in CycleIDs : log[p][n] \in {Record(k, j) : j \in Indices(k)}
      BY <3>2 DEF Records
    <3>4. QED
      BY <3>3
  <2>2. Len(order) = Cardinality(DOMAIN pending)
    BY CountOfList DEF Listed
  <2>3. /\ cycle \in 0..Cycles /\ next \in Nat /\ DOMAIN pending \subseteq CycleIDs
        /\ cycle > 0 => next <= BatchCount[cycle]
        /\ retries \in 0..MaxRetries /\ restarts \in 0..MaxRestarts /\ rejoins \in 0..MaxRejoins
        /\ \A p \in Partitions : committed[p] <= pos[p] /\ pos[p] <= Len(log[p])
    BY DEF AssemblyInv, EngineInv, PendingInv, Progress
  <2>4. {order[n] : n \in 1..Len(order)} = DOMAIN pending /\ expired \in 0..Len(order)
    BY DEF Listed, Entries
  <2>5. \A p \in Partitions :
           /\ \A n \in 1..Len(log[p]) : \E k \in CycleIDs : \E i \in Indices(k) : log[p][n] = Record(k, i)
           /\ committed[p] <= pos[p] /\ pos[p] <= Len(log[p])
    BY <2>1, <2>3, Zenon
  <2>6. QED
    BY <2>2, <2>3, <2>4, <2>5 DEF TypeOK
<1>4. QED
  BY <1>1, <1>2, <1>3, AssemblyKept, PTL DEF Spec

=============================================================================
