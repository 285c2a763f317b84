----------------------------- MODULE TleCatalog -----------------------------
(***************************************************************************)
(* The engine's catalog of orbital elements (src/backend/engine/main.go).  *)
(* At start it loads the elements topic from its first offset with a plain *)
(* reader; then a consumer of the group "aurora-engine" follows the topic  *)
(* from its committed offsets, and every 30 s the propagation loop         *)
(* publishes positions computed from a snapshot of the catalog.            *)
(*                                                                         *)
(* An element set is reduced to its satellite, its epoch and whether it    *)
(* passes isTLEValid. A published position is the epoch it came from.      *)
(***************************************************************************)
EXTENDS Naturals, Sequences

CONSTANTS
    Satellites, \* NORAD numbers
    MaxEpoch,   \* epochs are 1..MaxEpoch (a bound)
    Partitions, \* partitions of aurora.satellites.tle
    First,      \* partition 0, the only one the plain reader reads
    MaxRecords, \* records published (a bound)
    MaxCrashes  \* engine restarts (a bound)

ASSUME FirstAssumption == First \in Partitions
ASSUME BoundsAssumption == {MaxEpoch, MaxRecords, MaxCrashes} \subseteq Nat

VARIABLES
    log,       \* the topic: records per partition
    records,   \* number of records published
    phase,     \* engine: "load" or "run"
    loadPos,   \* plain reader: records of partition First read
    whole,     \* history: the load ended at the end of the topic
    from,      \* group consumer: offsets it started at
    pos,       \* group consumer: offsets it has read up to
    committed, \* committed offsets of the group
    catalog,   \* tleCache: epoch held per satellite, 0 for none
    published, \* epoch of the satellite's last published position, or 0
    crashes

vars == <<log, records, phase, loadPos, whole, from, pos, committed, catalog, published, crashes>>

Record == [sat : Satellites, epoch : 1..MaxEpoch, valid : BOOLEAN]
Empty == [s \in Satellites |-> 0]
Start == [p \in Partitions |-> 0]

Init ==
    /\ log = [p \in Partitions |-> <<>>]
    /\ records = 0
    /\ phase = "load" /\ loadPos = 0 /\ whole = FALSE
    /\ from = Start /\ pos = Start /\ committed = Start
    /\ catalog = Empty /\ published = Empty
    /\ crashes = 0

\* The ingestion services append element sets of any epoch: catalogs of
\* overlapping groups lag behind one another, and writes are retried.
Publish(p, r) ==
    /\ records < MaxRecords
    /\ records' = records + 1
    /\ log' = [log EXCEPT ![p] = Append(@, r)]
    /\ UNCHANGED <<phase, loadPos, whole, from, pos, committed, catalog, published, crashes>>

\* Variants: the epoch guard is missing; it refuses the first element set.
IngestLatest(r) ==
    catalog' = IF r.valid THEN [catalog EXCEPT ![r.sat] = r.epoch] ELSE catalog

IngestKnown(r) ==
    catalog' = IF r.valid /\ 0 < catalog[r.sat] /\ catalog[r.sat] <= r.epoch
               THEN [catalog EXCEPT ![r.sat] = r.epoch]
               ELSE catalog

\* ingestTLE and tleCache.set: an older epoch never replaces a newer one.
Ingest(r) ==
    catalog' = IF r.valid /\ catalog[r.sat] <= r.epoch
               THEN [catalog EXCEPT ![r.sat] = r.epoch]
               ELSE catalog

LoadRecord ==
    /\ phase = "load"
    /\ loadPos < Len(log[First])
    /\ Ingest(log[First][loadPos + 1])
    /\ loadPos' = loadPos + 1
    /\ UNCHANGED <<log, records, phase, whole, from, pos, committed, published, crashes>>

\* A read that fails or finds nothing for 2 s ends the load, and so does the
\* deadline of 10 s, wherever it is in the topic; the group consumer starts at
\* the committed offsets.
EndLoad ==
    /\ phase = "load"
    /\ phase' = "run"
    /\ whole' = (loadPos = Len(log[First]))
    /\ from' = committed /\ pos' = committed
    /\ UNCHANGED <<log, records, loadPos, committed, catalog, published, crashes>>

ConsumeRecord(p) ==
    /\ phase = "run"
    /\ pos[p] < Len(log[p])
    /\ Ingest(log[p][pos[p] + 1])
    /\ pos' = [pos EXCEPT ![p] = @ + 1]
    /\ UNCHANGED <<log, records, phase, loadPos, whole, from, committed, published, crashes>>

Commit(p) ==
    /\ phase = "run"
    /\ committed[p] < pos[p]
    /\ committed' = [committed EXCEPT ![p] = pos[p]]
    /\ UNCHANGED <<log, records, phase, loadPos, whole, from, pos, catalog, published, crashes>>

\* Every satellite in the snapshot gets a new position; one that is not in it
\* keeps its last.
Propagate ==
    /\ phase = "run"
    /\ catalog # Empty
    /\ published' = [s \in Satellites |->
                        IF catalog[s] > 0 THEN catalog[s] ELSE published[s]]
    /\ UNCHANGED <<log, records, phase, loadPos, whole, from, pos, committed, catalog, crashes>>

\* Variant: the load resumes where the group had committed.
RestartCommitted ==
    /\ crashes < MaxCrashes
    /\ crashes' = crashes + 1
    /\ phase' = "load" /\ loadPos' = committed[First] /\ whole' = FALSE
    /\ from' = Start /\ pos' = Start
    /\ catalog' = Empty
    /\ UNCHANGED <<log, records, committed, published>>

Restart ==
    /\ crashes < MaxCrashes
    /\ crashes' = crashes + 1
    /\ phase' = "load" /\ loadPos' = 0 /\ whole' = FALSE
    /\ from' = Start /\ pos' = Start
    /\ catalog' = Empty
    /\ UNCHANGED <<log, records, committed, published>>

Next ==
    \/ \E p \in Partitions, r \in Record : Publish(p, r)
    \/ LoadRecord \/ EndLoad
    \/ \E p \in Partitions : ConsumeRecord(p) \/ Commit(p)
    \/ Propagate
    \/ Restart

Spec == Init /\ [][Next]_vars

-----------------------------------------------------------------------------
(* Properties.                                                             *)

\* The variables are typed and the offsets are inside the topic.
TypeOK ==
    /\ log \in [Partitions -> Seq(Record)]
    /\ records \in 0..MaxRecords
    /\ phase \in {"load", "run"}
    /\ loadPos \in 0..Len(log[First]) /\ whole \in BOOLEAN
    /\ \A p \in Partitions :
          /\ {from[p], pos[p], committed[p]} \subseteq 0..Len(log[p])
          /\ from[p] <= pos[p]
    /\ catalog \in [Satellites -> 0..MaxEpoch]
    /\ published \in [Satellites -> 0..MaxEpoch]
    /\ crashes \in 0..MaxCrashes

\* Epochs of s among the valid records of partition p at offsets a+1..b.
Epochs(s, p, a, b) ==
    {log[p][n].epoch : n \in {m \in (a + 1)..b : log[p][m].sat = s /\ log[p][m].valid}}

ReadEpochs(s) ==
    Epochs(s, First, 0, loadPos) \cup UNION {Epochs(s, p, from[p], pos[p]) : p \in Partitions}

\* Whatever order loader and consumer meet the records in, and however often,
\* the catalog holds for each satellite the newest epoch read since the start.
CatalogIsNewestRead ==
    \A s \in Satellites :
        /\ catalog[s] = 0 => ReadEpochs(s) = {}
        /\ catalog[s] > 0 => catalog[s] \in ReadEpochs(s)
        /\ \A e \in ReadEpochs(s) : e <= catalog[s]

CaughtUp == phase = "run" /\ \A p \in Partitions : pos[p] = Len(log[p])

\* The load has read the topic as it was: it was not cut short and no record
\* lies in a partition that the plain reader does not read.
LoadedWhole == whole /\ \A p \in Partitions \ {First} : log[p] = <<>>

\* An engine that loaded the topic whole and has caught up with it knows the
\* newest elements in it: between the end of the load and the offsets at which
\* the consumer resumes no record is lost, also not one published meanwhile.
CatalogCompleteWhenCaughtUp ==
    LoadedWhole /\ CaughtUp => \A s \in Satellites, p \in Partitions :
                   \A e \in Epochs(s, p, 0, Len(log[p])) : e <= catalog[s]

\* An engine that loaded the topic whole never computes a satellite's positions
\* from older elements than before, not even after it was restarted.
PositionsNeverFromOlderElements ==
    [][LoadedWhole => \A s \in Satellites : published[s] <= published'[s]]_vars
=============================================================================
