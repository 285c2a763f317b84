-------------------------- MODULE TleCatalogProofs --------------------------
(***************************************************************************)
(* Proofs about TleCatalog, for any satellites, partitions and numbers of  *)
(* records and restarts: the catalog is the newest of what was read, it is *)
(* complete when a whole load was caught up with, and positions then never *)
(* go back to older elements.                                              *)
(*                                                                         *)
(* The argument: a record adds at most its own epoch to what was read      *)
(* (EpochsInNext), and ingesting it keeps the catalog at the maximum of    *)
(* the enlarged set (IngestKeepsNewest). A whole load covers the topic up  *)
(* to the consumer's first offset (NoGap), and every published position    *)
(* came from a record of the topic (Sourced), which a whole load has read  *)
(* again after a restart (Remembers).                                      *)
(***************************************************************************)
EXTENDS TleCatalog, SequenceTheorems, TLAPS

\* The typing that the argument needs.
Typed ==
    /\ log \in [Partitions -> Seq(Record)]
    /\ phase \in {"load", "run"}
    /\ loadPos \in 0..Len(log[First]) /\ whole \in BOOLEAN
    /\ from \in [Partitions -> Nat] /\ pos \in [Partitions -> Nat]
    /\ committed \in [Partitions -> Nat]
    /\ \A p \in Partitions :
          from[p] <= pos[p] /\ pos[p] <= Len(log[p]) /\ committed[p] <= Len(log[p])
    /\ phase = "load" => ~whole /\ \A p \in Partitions : from[p] = 0 /\ pos[p] = 0
    /\ catalog \in [Satellites -> Nat]
    /\ published \in [Satellites -> Nat]

\* A whole load leaves no gap before the consumer's first offset.
NoGap == whole => from[First] <= loadPos

\* Every published position was computed from a valid record of the topic.
Sourced ==
    \A s \in Satellites :
        published[s] = 0 \/ \E p \in Partitions : published[s] \in Epochs(s, p, 0, Len(log[p]))

\* An engine that loaded the topic whole knows what it published before.
Remembers ==
    LoadedWhole => \A s \in Satellites : published[s] <= catalog[s]

IInv == Typed /\ CatalogIsNewestRead /\ NoGap /\ Sourced /\ Remembers

-----------------------------------------------------------------------------
(* Epochs of a sequence of records.                                        *)

Of(s, r) == IF r.sat = s /\ r.valid THEN {r.epoch} ELSE {}

EpochsIn(L, s, a, b) ==
    {L[n].epoch : n \in {m \in (a + 1)..b : L[m].sat = s /\ L[m].valid}}

LEMMA EpochsInNone ==
    ASSUME NEW L, NEW s, NEW a \in Nat PROVE EpochsIn(L, s, a, a) = {}
  BY DEF EpochsIn

LEMMA EpochsInNext ==
    ASSUME NEW L, NEW s, NEW a \in Nat, NEW b \in Nat, a <= b
    PROVE  EpochsIn(L, s, a, b + 1) = EpochsIn(L, s, a, b) \cup Of(s, L[b + 1])
<1>1. (a + 1)..(b + 1) = ((a + 1)..b) \cup {b + 1}
  OBVIOUS
<1>2. QED
  BY <1>1 DEF EpochsIn, Of

LEMMA EpochsInAppend ==
    ASSUME NEW L \in Seq(Record), NEW r \in Record, NEW s,
           NEW a \in Nat, NEW b \in 0..Len(L)
    PROVE  EpochsIn(Append(L, r), s, a, b) = EpochsIn(L, s, a, b)
<1>1. \A n \in (a + 1)..b : Append(L, r)[n] = L[n]
  OBVIOUS
<1>2. QED
  BY <1>1 DEF EpochsIn

\* What a reader read is part of the sequence.
LEMMA EpochsInWhole ==
    ASSUME NEW L \in Seq(Record), NEW s, NEW a \in Nat, NEW b \in 0..Len(L)
    PROVE  EpochsIn(L, s, a, b) \subseteq EpochsIn(L, s, 0, Len(L))
  BY DEF EpochsIn

LEMMA EpochsInNat ==
    ASSUME NEW L \in Seq(Record), NEW s, NEW a \in Nat, NEW b \in 0..Len(L)
    PROVE  EpochsIn(L, s, a, b) \subseteq Nat \ {0}
<1>1. \A n \in (a + 1)..b : L[n] \in Record
  OBVIOUS
<1>2. QED
  BY <1>1, BoundsAssumption DEF EpochsIn, Record

LEMMA ReadEpochsIs ==
    ASSUME NEW s
    PROVE  ReadEpochs(s) = EpochsIn(log[First], s, 0, loadPos)
                           \cup UNION {EpochsIn(log[p], s, from[p], pos[p]) : p \in Partitions}
  BY DEF ReadEpochs, Epochs, EpochsIn

-----------------------------------------------------------------------------
(* The maximum of what was read.                                           *)

NewestOf(c, R) ==
    /\ c = 0 => R = {}
    /\ c > 0 => c \in R
    /\ \A e \in R : e <= c

\* Ingesting a record keeps the catalog at the maximum of the epochs read.
LEMMA IngestKeepsNewest ==
    ASSUME catalog \in [Satellites -> Nat], NEW r \in Record, Ingest(r),
           NEW s \in Satellites, NEW R \in SUBSET Nat, NewestOf(catalog[s], R)
    PROVE  /\ catalog' \in [Satellites -> Nat]
           /\ catalog[s] <= catalog'[s]
           /\ NewestOf(catalog'[s], R \cup Of(s, r))
<1>1. r.sat \in Satellites /\ r.epoch \in Nat \ {0} /\ r.valid \in BOOLEAN
  BY BoundsAssumption DEF Record
<1>2. CASE r.valid /\ catalog[r.sat] <= r.epoch
  <2>1. catalog' = [catalog EXCEPT ![r.sat] = r.epoch]
    BY <1>2 DEF Ingest
  <2>2. CASE r.sat = s
    <3>1. catalog'[s] = r.epoch /\ catalog[s] <= r.epoch /\ Of(s, r) = {r.epoch}
      BY <1>2, <2>1, <2>2 DEF Of
    <3>2. \A e \in R : e <= r.epoch
      BY <1>1, <3>1 DEF NewestOf
    <3>3. catalog' \in [Satellites -> Nat] /\ r.epoch > 0 /\ r.epoch <= r.epoch
      BY <1>1, <2>1
    <3>4. QED
      BY <1>1, <3>1, <3>2, <3>3 DEF NewestOf
  <2>3. CASE r.sat # s
    BY <1>1, <1>2, <2>1, <2>3 DEF NewestOf, Of
  <2>4. QED
    BY <2>2, <2>3
<1>3. CASE ~(r.valid /\ catalog[r.sat] <= r.epoch)
  <2>1. catalog' = catalog
    BY <1>3 DEF Ingest
  <2>2. CASE r.sat = s /\ r.valid
    <3>1. r.epoch <= catalog[s] /\ catalog[s] > 0
      BY <1>1, <1>3, <2>2
    <3>2. QED
      BY <1>1, <2>1, <2>2, <3>1 DEF NewestOf, Of
  <2>3. CASE ~(r.sat = s /\ r.valid)
    <3>1. R \cup Of(s, r) = R
      BY <2>3 DEF Of
    <3>2. catalog'[s] = catalog[s] /\ catalog[s] \in Nat
      BY <2>1
    <3>3. QED
      BY <2>1, <3>1, <3>2
  <2>4. QED
    BY <2>2, <2>3
<1>4. QED
  BY <1>2, <1>3

LEMMA CatalogIs ==
    CatalogIsNewestRead <=> \A s \in Satellites : NewestOf(catalog[s], ReadEpochs(s))
  BY DEF CatalogIsNewestRead, NewestOf

-----------------------------------------------------------------------------
(* The invariant is inductive.                                             *)

LEMMA EpochsIs ==
    ASSUME NEW s, NEW p PROVE \A a, b : Epochs(s, p, a, b) = EpochsIn(log[p], s, a, b)
  BY DEF Epochs, EpochsIn

LEMMA InitInv == Init => IInv
<1> SUFFICES ASSUME Init PROVE IInv
  OBVIOUS
<1>1. \A p \in Partitions : log[p] = <<>> /\ from[p] = 0 /\ pos[p] = 0 /\ committed[p] = 0
  BY DEF Init, Start
<1>2. Typed
  <2>1. log \in [Partitions -> Seq(Record)] /\ Len(log[First]) = 0
    BY <1>1, FirstAssumption DEF Init
  <2>2. from = Start /\ pos = Start /\ committed = Start /\ Start \in [Partitions -> Nat]
    BY DEF Init, Start
  <2>3. \A p \in Partitions :
           from[p] <= pos[p] /\ pos[p] <= Len(log[p]) /\ committed[p] <= Len(log[p])
    BY <1>1
  <2>4. phase = "load" /\ loadPos = 0 /\ whole = FALSE
        /\ catalog \in [Satellites -> Nat] /\ published \in [Satellites -> Nat]
    BY DEF Init, Empty
  <2>5. from \in [Partitions -> Nat] /\ pos \in [Partitions -> Nat]
        /\ committed \in [Partitions -> Nat]
    BY <2>2
  <2>6. loadPos \in 0..Len(log[First])
    BY <2>1, <2>4
  <2>7. QED
    BY <1>1, <2>1, <2>3, <2>4, <2>5, <2>6 DEF Typed
<1>3. \A s \in Satellites : ReadEpochs(s) = {}
  BY <1>1, EpochsInNone, ReadEpochsIs DEF Init
<1>4. CatalogIsNewestRead
  <2>1. SUFFICES ASSUME NEW s \in Satellites PROVE NewestOf(catalog[s], ReadEpochs(s))
    BY CatalogIs
  <2>2. catalog[s] = 0 /\ ReadEpochs(s) = {}
    BY <1>3 DEF Init, Empty
  <2>3. NewestOf(0, {})
    BY DEF NewestOf
  <2>4. QED
    BY <2>2, <2>3
<1>5. NoGap /\ Sourced /\ Remembers
  BY DEF Init, Empty, NoGap, Sourced, Remembers, LoadedWhole
<1>6. QED
  BY <1>2, <1>4, <1>5 DEF IInv

\* A record at the end of the topic changes nothing that was read.
LEMMA PublishKeeps ==
    ASSUME IInv, NEW p \in Partitions, NEW r \in Record, Publish(p, r)
    PROVE  IInv'
<1> USE DEF IInv
<1>1. /\ log \in [Partitions -> Seq(Record)]
      /\ log' = [log EXCEPT ![p] = Append(@, r)]
      /\ UNCHANGED <<phase, loadPos, whole, from, pos, committed, catalog, published>>
  BY DEF Typed, Publish
<1>2. \A q \in Partitions : /\ log[q] \in Seq(Record)
                            /\ log'[q] = IF q = p THEN Append(log[p], r) ELSE log[q]
  BY <1>1
<1>3. \A q \in Partitions : /\ log'[q] \in Seq(Record)
                            /\ Len(log[q]) \in Nat
                            /\ Len(log[q]) <= Len(log'[q]) /\ Len(log'[q]) \in Nat
                            /\ log'[q] = <<>> => log[q] = <<>>
  <2>1. TAKE q \in Partitions
  <2>2. CASE q = p
    <3>1. log'[q] = Append(log[p], r) /\ log[p] \in Seq(Record)
      BY <1>2, <2>2
    <3>2. Append(log[p], r) \in Seq(Record) /\ Len(Append(log[p], r)) = Len(log[p]) + 1
      BY <3>1
    <3>3. Append(log[p], r) # <<>>
      BY <3>1, AppendProperties
    <3>4. QED
      BY <2>2, <3>1, <3>2, <3>3
  <2>3. CASE q # p
    BY <1>2, <2>3
  <2>4. QED
    BY <2>2, <2>3
<1>4. Typed'
  <2>1. log' \in [Partitions -> Seq(Record)]
    BY <1>1
  <2>2. loadPos' \in 0..Len(log'[First])
    BY <1>1, <1>3, FirstAssumption DEF Typed
  <2>3. \A q \in Partitions :
           from'[q] <= pos'[q] /\ pos'[q] <= Len(log'[q]) /\ committed'[q] <= Len(log'[q])
    <3>1. TAKE q \in Partitions
    <3>2. from[q] \in Nat /\ pos[q] \in Nat /\ committed[q] \in Nat
      BY DEF Typed
    <3>3. QED
      BY <1>1, <1>3, <3>2 DEF Typed
  <2>4. QED
    BY <1>1, <2>1, <2>2, <2>3 DEF Typed
<1>5. \A q \in Partitions : \A s : \A a \in Nat, b \in 0..Len(log[q]) :
          EpochsIn(log'[q], s, a, b) = EpochsIn(log[q], s, a, b)
  BY <1>2, EpochsInAppend
<1>6. \A s \in Satellites : ReadEpochs(s)' = ReadEpochs(s)
  <2>1. TAKE s \in Satellites
  <2>2. EpochsIn(log'[First], s, 0, loadPos) = EpochsIn(log[First], s, 0, loadPos)
    BY <1>5, FirstAssumption DEF Typed
  <2>3. \A q \in Partitions :
           EpochsIn(log'[q], s, from[q], pos[q]) = EpochsIn(log[q], s, from[q], pos[q])
    <3>1. TAKE q \in Partitions
    <3>2. from[q] \in Nat /\ pos[q] \in 0..Len(log[q])
      BY <1>3 DEF Typed
    <3>3. QED
      BY <1>5, <3>2
  <2>4. ReadEpochs(s)' = EpochsIn(log'[First], s, 0, loadPos)
                         \cup UNION {EpochsIn(log'[q], s, from[q], pos[q]) : q \in Partitions}
    BY <1>1 DEF ReadEpochs, Epochs, EpochsIn
  <2>5. QED
    BY <2>2, <2>3, <2>4, ReadEpochsIs
<1>7. CatalogIsNewestRead'
  BY <1>1, <1>6 DEF CatalogIsNewestRead
<1>8. NoGap'
  BY <1>1 DEF NoGap
<1>9. Sourced'
  <2>1. SUFFICES ASSUME NEW s \in Satellites, published[s] # 0
                 PROVE  \E q \in Partitions : published[s] \in Epochs(s, q, 0, Len(log[q]))'
    BY <1>1 DEF Sourced
  <2>2. PICK q \in Partitions : published[s] \in EpochsIn(log[q], s, 0, Len(log[q]))
    BY <2>1, EpochsIs DEF Sourced
  <2>3. published[s] \in EpochsIn(log'[q], s, 0, Len(log[q]))
    <3>1. 0 \in Nat /\ Len(log[q]) \in 0..Len(log[q])
      BY <1>3
    <3>2. EpochsIn(log'[q], s, 0, Len(log[q])) = EpochsIn(log[q], s, 0, Len(log[q]))
      BY <1>5, <3>1
    <3>3. QED
      BY <2>2, <3>2
  <2>4. published[s] \in EpochsIn(log'[q], s, 0, Len(log'[q]))
    BY <1>3, <2>3, EpochsInWhole
  <2>5. Epochs(s, q, 0, Len(log[q]))' = EpochsIn(log'[q], s, 0, Len(log'[q]))
    BY DEF Epochs, EpochsIn
  <2>6. QED
    BY <2>4, <2>5
<1>10. Remembers'
  BY <1>1, <1>3 DEF Remembers, LoadedWhole
<1>11. QED
  BY <1>4, <1>7, <1>8, <1>9, <1>10

\* What was read is epochs of the topic.
LEMMA ReadFromTopic ==
    ASSUME Typed, NEW s, NEW e \in ReadEpochs(s)
    PROVE  e \in Nat \ {0} /\ \E p \in Partitions : e \in EpochsIn(log[p], s, 0, Len(log[p]))
<1>1. \A p \in Partitions : log[p] \in Seq(Record) /\ Len(log[p]) \in Nat
  BY DEF Typed
<1>2. PICK p \in Partitions, a \in Nat, b \in Nat :
          b <= Len(log[p]) /\ e \in EpochsIn(log[p], s, a, b)
  <2>1. CASE e \in EpochsIn(log[First], s, 0, loadPos)
    BY <2>1, FirstAssumption DEF Typed
  <2>2. CASE \E p \in Partitions : e \in EpochsIn(log[p], s, from[p], pos[p])
    <3>1. PICK p \in Partitions : e \in EpochsIn(log[p], s, from[p], pos[p])
      BY <2>2
    <3>2. from[p] \in Nat /\ pos[p] \in 0..Len(log[p])
      BY <1>1 DEF Typed
    <3>3. QED
      BY <3>1, <3>2
  <2>3. QED
    BY <2>1, <2>2, ReadEpochsIs
<1>3. QED
  BY <1>1, <1>2, EpochsInWhole, EpochsInNat

\* A step that ingests a record and adds it to what was read.
LEMMA ReadOne ==
    ASSUME Typed, CatalogIsNewestRead, NEW r \in Record, Ingest(r),
           \A s \in Satellites : ReadEpochs(s)' = ReadEpochs(s) \cup Of(s, r)
    PROVE  /\ CatalogIsNewestRead'
           /\ catalog' \in [Satellites -> Nat]
           /\ \A s \in Satellites : catalog[s] <= catalog'[s]
<1>1. catalog \in [Satellites -> Nat]
  BY DEF Typed
<1>2. \A s \in Satellites : ReadEpochs(s) \in SUBSET Nat
  BY ReadFromTopic
<1>3. \A s \in Satellites : NewestOf(catalog[s], ReadEpochs(s))
  BY CatalogIs
<1>4. \A s \in Satellites : /\ catalog' \in [Satellites -> Nat]
                            /\ catalog[s] <= catalog'[s]
                            /\ NewestOf(catalog'[s], ReadEpochs(s)')
  <2>1. TAKE s \in Satellites
  <2>2. ReadEpochs(s)' = ReadEpochs(s) \cup Of(s, r)
    OBVIOUS
  <2>3. NewestOf(catalog'[s], ReadEpochs(s) \cup Of(s, r)) /\ catalog[s] <= catalog'[s]
        /\ catalog' \in [Satellites -> Nat]
    BY <1>1, <1>2, <1>3, IngestKeepsNewest
  <2>4. QED
    BY <2>2, <2>3
<1>5. catalog' \in [Satellites -> Nat]
  <2>1. r.sat \in Satellites
    BY DEF Record
  <2>2. QED
    BY <1>4, <2>1
<1>6. CatalogIsNewestRead'
  BY <1>4 DEF CatalogIsNewestRead, NewestOf
<1>7. QED
  BY <1>4, <1>5, <1>6

LEMMA LoadKeeps == ASSUME IInv, LoadRecord PROVE IInv'
<1> USE DEF IInv
<1> DEFINE r == log[First][loadPos + 1]
<1>1. /\ phase = "load" /\ loadPos < Len(log[First]) /\ Ingest(r) /\ loadPos' = loadPos + 1
      /\ UNCHANGED <<log, phase, whole, from, pos, committed, published>>
  BY DEF LoadRecord
<1>2. log[First] \in Seq(Record) /\ loadPos \in Nat /\ Len(log[First]) \in Nat /\ ~whole
  BY <1>1, FirstAssumption DEF Typed
<1>3. r \in Record
  BY <1>1, <1>2
<1>4. \A s \in Satellites : ReadEpochs(s)' = ReadEpochs(s) \cup Of(s, r)
  <2>1. TAKE s \in Satellites
  <2>2. EpochsIn(log[First], s, 0, loadPos + 1) = EpochsIn(log[First], s, 0, loadPos) \cup Of(s, r)
    BY <1>2, EpochsInNext
  <2>3. ReadEpochs(s)' = EpochsIn(log[First], s, 0, loadPos + 1)
                         \cup UNION {EpochsIn(log[q], s, from[q], pos[q]) : q \in Partitions}
    BY <1>1 DEF ReadEpochs, Epochs, EpochsIn
  <2>4. QED
    BY <2>2, <2>3, ReadEpochsIs
<1> HIDE DEF r
<1>5. CatalogIsNewestRead' /\ catalog' \in [Satellites -> Nat]
  BY <1>1, <1>3, <1>4, ReadOne
<1>6. Typed'
  <2>1. loadPos' \in 0..Len(log'[First])
    BY <1>1, <1>2
  <2>2. QED
    BY <1>1, <1>5, <2>1 DEF Typed
<1>7. NoGap' /\ Remembers'
  BY <1>1, <1>2 DEF NoGap, Remembers, LoadedWhole
<1>8. Sourced'
  BY <1>1 DEF Sourced, Epochs
<1>9. QED
  BY <1>5, <1>6, <1>7, <1>8

LEMMA ConsumeKeeps == ASSUME IInv, NEW p \in Partitions, ConsumeRecord(p) PROVE IInv'
<1> USE DEF IInv
<1> DEFINE r == log[p][pos[p] + 1]
<1>1. /\ phase = "run" /\ pos[p] < Len(log[p]) /\ Ingest(r) /\ pos' = [pos EXCEPT ![p] = @ + 1]
      /\ UNCHANGED <<log, phase, loadPos, whole, from, committed, published>>
  BY DEF ConsumeRecord
<1>2. /\ log[p] \in Seq(Record) /\ Len(log[p]) \in Nat
      /\ pos[p] \in Nat /\ from[p] \in Nat /\ from[p] <= pos[p]
  BY DEF Typed
<1>3. r \in Record
  BY <1>1, <1>2
<1>4. pos' \in [Partitions -> Nat] /\ pos'[p] = pos[p] + 1
      /\ \A q \in Partitions : q # p => pos'[q] = pos[q]
  BY <1>1, <1>2 DEF Typed
<1>5. \A s \in Satellites : ReadEpochs(s)' = ReadEpochs(s) \cup Of(s, r)
  <2>1. TAKE s \in Satellites
  <2>2. EpochsIn(log[p], s, from[p], pos'[p]) = EpochsIn(log[p], s, from[p], pos[p]) \cup Of(s, r)
    BY <1>2, <1>4, EpochsInNext
  <2>3. UNION {EpochsIn(log[q], s, from[q], pos'[q]) : q \in Partitions}
        = Of(s, r) \cup UNION {EpochsIn(log[q], s, from[q], pos[q]) : q \in Partitions}
    BY <1>4, <2>2
  <2>4. ReadEpochs(s)' = EpochsIn(log[First], s, 0, loadPos)
                         \cup UNION {EpochsIn(log[q], s, from[q], pos'[q]) : q \in Partitions}
    BY <1>1 DEF ReadEpochs, Epochs, EpochsIn
  <2>5. QED
    BY <2>3, <2>4, ReadEpochsIs
<1> HIDE DEF r
<1>6. CatalogIsNewestRead' /\ catalog' \in [Satellites -> Nat]
      /\ \A s \in Satellites : catalog[s] <= catalog'[s]
  BY <1>1, <1>3, <1>5, ReadOne
<1>7. Typed'
  <2>1. \A q \in Partitions :
           from'[q] <= pos'[q] /\ pos'[q] <= Len(log'[q]) /\ committed'[q] <= Len(log'[q])
    <3>1. TAKE q \in Partitions
    <3>2. CASE q = p
      BY <1>1, <1>2, <1>4, <3>2 DEF Typed
    <3>3. CASE q # p
      BY <1>1, <1>4, <3>3 DEF Typed
    <3>4. QED
      BY <3>2, <3>3
  <2>2. QED
    BY <1>1, <1>4, <1>6, <2>1 DEF Typed
<1>8. NoGap' /\ Sourced'
  BY <1>1 DEF NoGap, Sourced, Epochs
<1>9. Remembers'
  <2>1. SUFFICES ASSUME LoadedWhole, NEW s \in Satellites PROVE published[s] <= catalog'[s]
    BY <1>1 DEF Remembers, LoadedWhole
  <2>2. published[s] <= catalog[s] /\ catalog[s] <= catalog'[s]
    BY <1>6, <2>1 DEF Remembers
  <2>3. published[s] \in Nat /\ catalog[s] \in Nat /\ catalog'[s] \in Nat
    BY <1>6 DEF Typed
  <2>4. QED
    BY <2>2, <2>3
<1>10. QED
  BY <1>6, <1>7, <1>8, <1>9

\* The load ends and the consumer has read nothing: what was read is the same.
LEMMA EndLoadKeeps == ASSUME IInv, EndLoad PROVE IInv'
<1> USE DEF IInv
<1>1. /\ phase = "load" /\ phase' = "run" /\ whole' = (loadPos = Len(log[First]))
      /\ from' = committed /\ pos' = committed
      /\ UNCHANGED <<log, loadPos, committed, catalog, published>>
  BY DEF EndLoad
<1>2. Typed'
  BY <1>1 DEF Typed
<1>3. \A s \in Satellites : /\ ReadEpochs(s) = EpochsIn(log[First], s, 0, loadPos)
                            /\ ReadEpochs(s)' = EpochsIn(log[First], s, 0, loadPos)
  <2>1. TAKE s \in Satellites
  <2>2. \A p \in Partitions : EpochsIn(log[p], s, from[p], pos[p]) = {}
    BY <1>1, EpochsInNone DEF Typed
  <2>3. \A p \in Partitions : EpochsIn(log[p], s, committed[p], committed[p]) = {}
    BY EpochsInNone DEF Typed
  <2>4. ReadEpochs(s)' = EpochsIn(log[First], s, 0, loadPos)
                 \cup UNION {EpochsIn(log[q], s, committed[q], committed[q]) : q \in Partitions}
    BY <1>1 DEF ReadEpochs, Epochs, EpochsIn
  <2>5. QED
    BY <2>2, <2>3, <2>4, ReadEpochsIs
<1>4. CatalogIsNewestRead'
  BY <1>1, <1>3 DEF CatalogIsNewestRead
<1>5. NoGap'
  BY <1>1, FirstAssumption DEF NoGap, Typed
<1>6. Sourced'
  BY <1>1 DEF Sourced, Epochs
<1>7. Remembers'
  <2>1. SUFFICES ASSUME loadPos = Len(log[First]), \A p \in Partitions \ {First} : log[p] = <<>>,
                        NEW s \in Satellites
                 PROVE  published[s] <= catalog[s]
    BY <1>1 DEF Remembers, LoadedWhole
  <2>2. published[s] \in Nat /\ catalog[s] \in Nat
    BY DEF Typed
  <2>3. CASE published[s] # 0
    <3>1. PICK p \in Partitions : published[s] \in EpochsIn(log[p], s, 0, Len(log[p]))
      BY <2>3, EpochsIs DEF Sourced
    <3>2. p = First
      BY <2>1, <3>1 DEF EpochsIn
    <3>3. published[s] \in ReadEpochs(s)
      BY <1>3, <2>1, <3>1, <3>2
    <3>4. QED
      BY <3>3 DEF CatalogIsNewestRead
  <2>4. QED
    BY <2>2, <2>3
<1>8. QED
  BY <1>2, <1>4, <1>5, <1>6, <1>7

\* A step that reads nothing.
LEMMA SameRead ==
    ASSUME UNCHANGED <<log, loadPos, from, pos, catalog>>, CatalogIsNewestRead
    PROVE  CatalogIsNewestRead'
<1>1. \A s \in Satellites : ReadEpochs(s)' = ReadEpochs(s)
  BY DEF ReadEpochs, Epochs
<1>2. catalog' = catalog
  OBVIOUS
<1>3. QED
  BY <1>1, <1>2 DEF CatalogIsNewestRead

LEMMA CommitKeeps == ASSUME IInv, NEW p \in Partitions, Commit(p) PROVE IInv'
<1> USE DEF IInv
<1>1. /\ committed' = [committed EXCEPT ![p] = pos[p]]
      /\ UNCHANGED <<log, phase, loadPos, whole, from, pos, catalog, published>>
  BY DEF Commit
<1>2. Typed'
  BY <1>1 DEF Typed
<1>3. CatalogIsNewestRead'
  BY <1>1, SameRead
<1>4. NoGap' /\ Sourced' /\ Remembers'
  BY <1>1 DEF NoGap, Sourced, Remembers, LoadedWhole, Epochs
<1>5. QED
  BY <1>2, <1>3, <1>4

\* Positions come from the catalog, and so from the topic.
LEMMA PropagateKeeps == ASSUME IInv, Propagate PROVE IInv'
<1> USE DEF IInv
<1>1. /\ published' = [s \in Satellites |-> IF catalog[s] > 0 THEN catalog[s] ELSE published[s]]
      /\ UNCHANGED <<log, phase, loadPos, whole, from, pos, committed, catalog>>
  BY DEF Propagate
<1>2. Typed'
  BY <1>1 DEF Typed
<1>3. CatalogIsNewestRead'
  BY <1>1, SameRead
<1>4. NoGap'
  BY <1>1 DEF NoGap
<1>5. Sourced'
  <2>1. SUFFICES ASSUME NEW s \in Satellites
                 PROVE  published'[s] = 0 \/ \E p \in Partitions :
                                              published'[s] \in Epochs(s, p, 0, Len(log[p]))
    BY <1>1 DEF Sourced, Epochs
  <2>2. CASE catalog[s] > 0
    <3>1. published'[s] \in ReadEpochs(s)
      BY <1>1, <2>2 DEF CatalogIsNewestRead
    <3>2. PICK p \in Partitions : published'[s] \in EpochsIn(log[p], s, 0, Len(log[p]))
      BY <3>1, ReadFromTopic
    <3>3. QED
      BY <3>2, EpochsIs
  <2>3. CASE ~(catalog[s] > 0)
    BY <1>1, <2>3 DEF Sourced
  <2>4. QED
    BY <2>2, <2>3
<1>6. Remembers'
  BY <1>1 DEF Remembers, LoadedWhole, Typed
<1>7. QED
  BY <1>2, <1>3, <1>4, <1>5, <1>6

LEMMA RestartKeeps == ASSUME IInv, Restart PROVE IInv'
<1> USE DEF IInv
<1>1. /\ phase' = "load" /\ loadPos' = 0 /\ whole' = FALSE
      /\ from' = Start /\ pos' = Start /\ catalog' = Empty
      /\ UNCHANGED <<log, committed, published>>
  BY DEF Restart
<1>2. Start \in [Partitions -> Nat] /\ Empty \in [Satellites -> Nat]
      /\ \A p \in Partitions : Start[p] = 0 /\ log[p] \in Seq(Record) /\ Len(log[p]) \in Nat
  BY DEF Start, Empty, Typed
<1>3. Typed'
  <2>1. loadPos' \in 0..Len(log'[First])
    BY <1>1, <1>2, FirstAssumption
  <2>2. \A q \in Partitions :
           from'[q] <= pos'[q] /\ pos'[q] <= Len(log'[q]) /\ committed'[q] <= Len(log'[q])
    BY <1>1, <1>2 DEF Typed
  <2>3. QED
    BY <1>1, <1>2, <2>1, <2>2 DEF Typed
<1>4. CatalogIsNewestRead'
  <2>1. SUFFICES ASSUME NEW s \in Satellites PROVE catalog'[s] = 0 /\ ReadEpochs(s)' = {}
    BY DEF CatalogIsNewestRead
  <2>2. EpochsIn(log[First], s, 0, 0) = {}
        /\ \A p \in Partitions : EpochsIn(log[p], s, Start[p], Start[p]) = {}
    BY <1>2, EpochsInNone
  <2>3. ReadEpochs(s)' = EpochsIn(log[First], s, 0, 0)
                         \cup UNION {EpochsIn(log[q], s, Start[q], Start[q]) : q \in Partitions}
    BY <1>1 DEF ReadEpochs, Epochs, EpochsIn
  <2>4. QED
    BY <1>1, <2>2, <2>3 DEF Empty
<1>5. NoGap' /\ Remembers'
  BY <1>1 DEF NoGap, Remembers, LoadedWhole
<1>6. Sourced'
  BY <1>1 DEF Sourced, Epochs
<1>7. QED
  BY <1>3, <1>4, <1>5, <1>6

LEMMA NextInv == ASSUME IInv, [Next]_vars PROVE IInv'
<1>1. CASE \E p \in Partitions, r \in Record : Publish(p, r)
  BY <1>1, PublishKeeps
<1>2. CASE LoadRecord
  BY <1>2, LoadKeeps
<1>3. CASE EndLoad
  BY <1>3, EndLoadKeeps
<1>4. CASE \E p \in Partitions : ConsumeRecord(p)
  BY <1>4, ConsumeKeeps
<1>5. CASE \E p \in Partitions : Commit(p)
  BY <1>5, CommitKeeps
<1>6. CASE Propagate
  BY <1>6, PropagateKeeps
<1>7. CASE Restart
  BY <1>7, RestartKeeps
<1>8. CASE UNCHANGED vars
  <2>1. UNCHANGED <<log, phase, loadPos, whole, from, pos, committed, catalog, published>>
    BY <1>8 DEF vars
  <2>2. Typed'
    BY <2>1 DEF IInv, Typed
  <2>3. CatalogIsNewestRead'
    BY <2>1, SameRead DEF IInv
  <2>4. NoGap' /\ Sourced' /\ Remembers'
    BY <2>1 DEF IInv, NoGap, Sourced, Remembers, LoadedWhole, Epochs
  <2>5. QED
    BY <2>2, <2>3, <2>4 DEF IInv
<1>9. QED
  BY <1>1, <1>2, <1>3, <1>4, <1>5, <1>6, <1>7, <1>8 DEF Next

LEMMA SpecInv == Spec => []IInv
<1>1. Init => IInv
  BY InitInv
<1>2. IInv /\ [Next]_vars => IInv'
  BY NextInv
<1>3. QED
  BY <1>1, <1>2, PTL DEF Spec

-----------------------------------------------------------------------------
(* Theorems.                                                               *)

\* The engine's offsets are inside the topic, and its epochs are ones that were
\* published.
THEOREM CatalogTypeCorrect == Spec => []TypeOK
<1> DEFINE Bounded == /\ records \in 0..MaxRecords /\ crashes \in 0..MaxCrashes
                      /\ \A s \in Satellites : catalog[s] <= MaxEpoch /\ published[s] <= MaxEpoch
<1>1. Init => Bounded
  BY BoundsAssumption DEF Init, Empty
<1>2. IInv /\ Bounded /\ [Next]_vars => Bounded'
  <2> SUFFICES ASSUME IInv, Bounded, [Next]_vars PROVE Bounded'
    OBVIOUS
  <2>1. ASSUME NEW r \in Record, Ingest(r) PROVE \A s \in Satellites : catalog'[s] <= MaxEpoch
    BY <2>1, BoundsAssumption DEF Ingest, Record, IInv, Typed
  <2>2. ASSUME NEW p \in Partitions, NEW r \in Record, Publish(p, r) PROVE Bounded'
    BY <2>2, BoundsAssumption DEF Publish
  <2>3. CASE LoadRecord
    <3>1. log[First][loadPos + 1] \in Record
      BY <2>3, FirstAssumption DEF LoadRecord, IInv, Typed
    <3>2. QED
      BY <2>1, <2>3, <3>1 DEF LoadRecord
  <2>4. ASSUME NEW p \in Partitions, ConsumeRecord(p) PROVE Bounded'
    <3>1. log[p][pos[p] + 1] \in Record
      BY <2>4 DEF ConsumeRecord, IInv, Typed
    <3>2. QED
      BY <2>1, <2>4, <3>1 DEF ConsumeRecord
  <2>5. CASE EndLoad
    BY <2>5 DEF EndLoad
  <2>6. ASSUME NEW p \in Partitions, Commit(p) PROVE Bounded'
    BY <2>6 DEF Commit
  <2>7. CASE Propagate
    BY <2>7 DEF Propagate
  <2>8. CASE Restart
    BY <2>8, BoundsAssumption DEF Restart, Empty
  <2>9. CASE UNCHANGED vars
    BY <2>9 DEF vars
  <2>10. QED
    BY <2>2, <2>3, <2>4, <2>5, <2>6, <2>7, <2>8, <2>9 DEF Next
<1>3. IInv /\ Bounded => TypeOK
  BY BoundsAssumption DEF IInv, Typed, TypeOK
<1>4. QED
  BY <1>1, <1>2, <1>3, SpecInv, PTL DEF Spec

\* The catalog always holds for each satellite the newest epoch that the load
\* and the consumer have read since the start (tleCache.set).
THEOREM CatalogNewest == Spec => []CatalogIsNewestRead
<1>1. IInv => CatalogIsNewestRead
  BY DEF IInv
<1>2. QED
  BY <1>1, SpecInv, PTL

LEMMA CompleteFromIInv == ASSUME IInv PROVE CatalogCompleteWhenCaughtUp
<1> SUFFICES ASSUME LoadedWhole, CaughtUp, NEW s \in Satellites, NEW p \in Partitions,
                    NEW e \in Epochs(s, p, 0, Len(log[p]))
             PROVE  e <= catalog[s]
  BY DEF CatalogCompleteWhenCaughtUp
<1>1. PICK n \in (0 + 1)..Len(log[p]) : log[p][n].sat = s /\ log[p][n].valid /\ e = log[p][n].epoch
  BY DEF Epochs
<1>2. p = First
  BY <1>1 DEF LoadedWhole
<1>3. /\ from[First] \in Nat /\ loadPos \in Nat /\ from[First] <= loadPos
      /\ pos[First] = Len(log[First])
  BY FirstAssumption DEF IInv, Typed, NoGap, LoadedWhole, CaughtUp
<1>4. CASE n <= loadPos
  <2>1. e \in EpochsIn(log[First], s, 0, loadPos)
    BY <1>1, <1>2, <1>3, <1>4 DEF EpochsIn
  <2>2. QED
    BY <2>1, ReadEpochsIs DEF IInv, CatalogIsNewestRead
<1>5. CASE n > loadPos
  <2>1. e \in EpochsIn(log[First], s, from[First], pos[First])
    BY <1>1, <1>2, <1>3, <1>5 DEF EpochsIn
  <2>2. QED
    BY <2>1, ReadEpochsIs, FirstAssumption DEF IInv, CatalogIsNewestRead
<1>6. QED
  BY <1>1, <1>3, <1>4, <1>5

\* After a whole load nothing is lost between loader and group consumer, on
\* whatever offset the group had committed.
THEOREM CatalogComplete == Spec => []CatalogCompleteWhenCaughtUp
<1>1. IInv => CatalogCompleteWhenCaughtUp
  BY CompleteFromIInv
<1>2. QED
  BY <1>1, SpecInv, PTL

LEMMA StepKeepsPositions ==
    ASSUME IInv, [Next]_vars, LoadedWhole, NEW s \in Satellites
    PROVE  published[s] <= published'[s]
<1>1. published[s] \in Nat /\ published[s] <= catalog[s]
  BY DEF IInv, Typed, Remembers
<1>2. CASE Propagate
  BY <1>1, <1>2 DEF Propagate
<1>3. CASE UNCHANGED published
  BY <1>1, <1>3
<1>4. QED
  BY <1>2, <1>3 DEF Next, vars, Publish, LoadRecord, EndLoad, ConsumeRecord, Commit, Restart

\* An engine that loaded the topic whole never moves a satellite back to the
\* positions of older elements, whatever was published before it restarted.
THEOREM PositionsFromNewerElements == Spec => PositionsNeverFromOlderElements
<1>1. IInv /\ [Next]_vars =>
          [LoadedWhole => \A s \in Satellites : published[s] <= published'[s]]_vars
  BY StepKeepsPositions
<1>2. QED
  BY <1>1, SpecInv, PTL DEF Spec, PositionsNeverFromOlderElements
=============================================================================
