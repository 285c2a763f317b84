---------------------------- MODULE ViewProofs ----------------------------
(***************************************************************************)
(* Proofs about what the dashboard shows of its data: the readouts         *)
(* (Readouts), the Earth view (EarthCameras), the aerospace view           *)
(* (LiveTracking) and the analysis of maneuvers (ManeuverAnalysis), each   *)
(* for any values of its constants.                                        *)
(*                                                                         *)
(* The readouts.  Sorting and paging give every element of a finite set    *)
(* its own place in an order (Ranking): the list of conjunctions and the   *)
(* pages of the catalog are read off it.  That one pass over the events    *)
(* finds the nearest is an induction over them (PassExists).               *)
(*                                                                         *)
(* The views.  The cameras gathered feed by feed hold every row received,  *)
(* and those of former feeds first (Ordered), so that the first of each    *)
(* image is the feeds' first choice; a player is of the element that is    *)
(* mounted (MediaInv).  Tracks and trails stay in the order of             *)
(* observation while they are extended, trimmed and grow older, and never  *)
(* become empty, since what extends them is recent (GoodTrack).            *)
(*                                                                         *)
(* The analysis.  Each step of the integration keeps the closest approach  *)
(* of the instants it passed (NearestOver) and skips none of those at      *)
(* which the window begins and ends (NextIsAfter).  Along the grid and     *)
(* its bisection, the burn that meets the goal and the one that does not   *)
(* are one width apart (Straddles), which halves until it is a unit.  Of   *)
(* what qualifies, by burn, probability and place, one comes first         *)
(* (OneComesFirst).                                                        *)
(*                                                                         *)
(* The types.  A page is of the catalog because it had a row when it was   *)
(* turned to (PageOfCatalog).                                              *)
(***************************************************************************)
EXTENDS Readouts, EarthCameras, LiveTracking, ManeuverAnalysis,
        SequenceTheorems, WellFoundedInduction, FiniteSetTheorems, TLAPS

-----------------------------------------------------------------------------
(* Induction over the numbers, for a set of them.                           *)

LEMMA Inductively ==
  ASSUME NEW G, 0 \in G, \A n \in Nat : n \in G => n + 1 \in G
  PROVE  Nat \subseteq G
<1> DEFINE T == Nat \ G
<1> SUFFICES ASSUME T # {} PROVE FALSE
  OBVIOUS
<1>1. PICK t \in T : \A u \in T : ~ (<<u, t>> \in OpToRel(<, Nat))
  <2>1. T \subseteq Nat
    OBVIOUS
  <2> HIDE DEF T
  <2>2. QED
    BY <2>1, WFMin, NatLessThanWellFounded
<1>2. \A u \in T : ~(u < t)
  BY <1>1 DEF OpToRel
<1>3. t \in Nat /\ t # 0 /\ t - 1 \in Nat
  OBVIOUS
<1>4. t - 1 \in G
  BY <1>2, <1>3
<1>5. QED
  BY <1>3, <1>4

-----------------------------------------------------------------------------
(* Readouts: the timeline.                                                  *)

\* The pass from the left over the first n events, as NearestEvent makes it.
IsPass(f, n, date) ==
  f = [i \in 0..n |-> IF i = 0 THEN 0 ELSE IF Closer(i, f[i - 1], date) THEN i ELSE f[i - 1]]

LEMMA PassExists == ASSUME NEW date PROVE \A n \in Nat : \E f : IsPass(f, n, date)
<1> DEFINE G == {n \in Nat : \E f : IsPass(f, n, date)}
<1>1. 0 \in G
  <2>1. IsPass([i \in 0..0 |-> 0], 0, date)
    BY DEF IsPass
  <2>2. QED
    BY <2>1
<1>2. ASSUME NEW n \in Nat, n \in G PROVE n + 1 \in G
  <2>1. PICK f : IsPass(f, n, date)
    BY <1>2
  <2> DEFINE e == IF Closer(n + 1, f[n], date) THEN n + 1 ELSE f[n]
             g == [i \in 0..(n + 1) |-> IF i = n + 1 THEN e ELSE f[i]]
  <2>2. g[n + 1] = e /\ \A i \in 0..n : g[i] = f[i]
    OBVIOUS
  <2>3. \A i \in 0..n : f[i] = IF i = 0 THEN 0 ELSE IF Closer(i, f[i - 1], date) THEN i ELSE f[i - 1]
    BY <2>1, Zenon DEF IsPass
  <2>4. DOMAIN g = 0..(n + 1) /\ g = [i \in 0..(n + 1) |-> g[i]]
    OBVIOUS
  <2> HIDE DEF g
  <2>5. \A i \in 0..(n + 1) : g[i] = IF i = 0 THEN 0 ELSE IF Closer(i, g[i - 1], date) THEN i ELSE g[i - 1]
    <3> TAKE i \in 0..(n + 1)
    <3>1. CASE i = n + 1
      BY <2>2, <3>1
    <3>2. CASE i \in 0..n
      <4>1. i # 0 => i - 1 \in 0..n
        BY <3>2
      <4>2. QED
        BY <2>2, <2>3, <3>2, <4>1
    <3>3. QED
      BY <3>1, <3>2
  <2>6. IsPass(g, n + 1, date)
    BY <2>4, <2>5, Zenon DEF IsPass
  <2>7. QED
    BY <2>6
<1>3. Nat \subseteq G
  <2> HIDE DEF G
  <2>1. QED
    BY <1>1, <1>2, Inductively
<1>4. QED
  BY <1>3

\* The first of the nearest among the first m events; 0 if none is near.
NearestOf(b, m, date) ==
  /\ b = 0 => \A j \in 1..m : Gap(j, date) >= SnapWithin
  /\ b # 0 => /\ b \in 1..m /\ Gap(b, date) < SnapWithin
              /\ \A j \in 1..m : Gap(b, date) < Gap(j, date) \/ (Gap(b, date) = Gap(j, date) /\ b <= j)

LEMMA TimelineNumbers ==
  TrackEnd \in Nat /\ MaxClock \in Nat /\ TrackEnd <= MaxClock /\ Len(HistoryOf) \in Nat
<1>1. HistoryOf \in Seq([at : Int, kp : Int])
  BY ReadoutsAssumption
<1>2. QED
  BY <1>1, LenProperties, ReadoutsAssumption

LEMMA GapIsNumber == ASSUME NEW date \in Int, NEW i \in 1..Len(HistoryOf) PROVE Gap(i, date) \in Int
<1>1. HistoryOf \in Seq([at : Int, kp : Int])
  BY ReadoutsAssumption
<1>2. HistoryOf[i] \in [at : Int, kp : Int]
  BY <1>1, ElementOfSeq
<1>3. QED
  BY <1>2 DEF Gap

LEMMA PassFindsNearest ==
  ASSUME NEW date \in Int, NEW f, IsPass(f, Len(HistoryOf), date)
  PROVE  NearestOf(f[Len(HistoryOf)], Len(HistoryOf), date)
<1> DEFINE N == Len(HistoryOf)
           G == {n \in Nat : n <= N => NearestOf(f[n], n, date)}
<1>0. N \in Nat /\ SnapWithin \in Nat
  BY ReadoutsAssumption
<1>1. \A i \in 0..N : f[i] = IF i = 0 THEN 0 ELSE IF Closer(i, f[i - 1], date) THEN i ELSE f[i - 1]
  BY Zenon DEF IsPass
<1>2. \A j \in 1..N : Gap(j, date) \in Int
  BY GapIsNumber
<1> HIDE DEF N
<1>3. 0 \in G
  BY <1>0, <1>1 DEF NearestOf
<1>4. ASSUME NEW n \in Nat, n \in G PROVE n + 1 \in G
  <2> SUFFICES ASSUME n + 1 <= N PROVE NearestOf(f[n + 1], n + 1, date)
    OBVIOUS
  <2>1. NearestOf(f[n], n, date) /\ n + 1 \in 1..N
    BY <1>0, <1>4
  <2>2. f[n + 1] = IF Closer(n + 1, f[n], date) THEN n + 1 ELSE f[n]
    <3>1. n + 1 \in 0..N /\ n + 1 # 0 /\ (n + 1) - 1 = n
      BY <1>0
    <3>2. QED
      BY <1>1, <3>1
  <2>3. CASE Closer(n + 1, f[n], date)
    BY <1>0, <1>2, <2>1, <2>2, <2>3 DEF Closer, NearestOf
  <2>4. CASE ~Closer(n + 1, f[n], date)
    BY <1>0, <1>2, <2>1, <2>2, <2>4 DEF Closer, NearestOf
  <2>5. QED
    BY <2>3, <2>4
<1>5. Nat \subseteq G
  <2> HIDE DEF G
  <2>1. QED
    BY <1>3, <1>4, Inductively
<1>6. QED
  BY <1>0, <1>5 DEF N

LEMMA Nearest ==
  ASSUME NEW date \in Int
  PROVE  NearestOf(NearestEvent(date), Len(HistoryOf), date)
<1> DEFINE N == Len(HistoryOf)
           pass == CHOOSE f : IsPass(f, N, date)
<1>1. N \in Nat
  BY ReadoutsAssumption
<1>2. IsPass(pass, N, date)
  BY <1>1, PassExists
<1>3. NearestEvent(date) = pass[N]
  BY DEF NearestEvent, IsPass
<1>4. QED
  BY <1>2, <1>3, PassFindsNearest

TimelineInv ==
  /\ TimelineTypeOK
  /\ pinned # 0 \/ position < TrackEnd => position \in 0..TrackEnd /\ pinned = NearestEvent(position)
  /\ pinned # 0 => ~saysLive

LEMMA TimelineStart == TimelineInit => TimelineInv
<1>0. TrackEnd \in Nat /\ MaxClock \in Nat /\ TrackEnd <= MaxClock /\ Len(HistoryOf) \in Nat
  BY TimelineNumbers
<1> SUFFICES ASSUME TimelineInit PROVE TimelineInv
  OBVIOUS
<1>1. clock = TrackEnd /\ position = TrackEnd /\ pinned = 0
  BY DEF TimelineInit
<1>2. timelineOpen \in BOOLEAN /\ dragging \in BOOLEAN /\ saysLive \in BOOLEAN /\ viewMode = "OPS" /\ feedKp \in FeedKps
  BY Zenon DEF TimelineInit
<1>3. QED
  BY <1>0, <1>1, <1>2 DEF TimelineInv, TimelineTypeOK

LEMMA TimelineStep == TimelineInv /\ [TimelineNext]_timelineVars => TimelineInv'
<1> SUFFICES ASSUME TimelineInv, [TimelineNext]_timelineVars PROVE TimelineInv'
  OBVIOUS
<1>0. TrackEnd \in Nat /\ MaxClock \in Nat /\ TrackEnd <= MaxClock /\ Len(HistoryOf) \in Nat
  BY ReadoutsAssumption
<1>1. ASSUME NEW d \in 0..TrackEnd, PressTrack(d) \/ DragTo(d) PROVE TimelineInv'
  <2>1. PointsAt(d) /\ dragging' \in BOOLEAN
    BY <1>1 DEF PressTrack, DragTo, TimelineInv, TimelineTypeOK
  <2>2. d \in Int /\ NearestEvent(d) \in 0..Len(HistoryOf)
    BY <1>0, Nearest DEF NearestOf
  <2>3. ModeFor(NearestEvent(d)) \in {"OPS", "STORM", "INTEL"}
    BY DEF ModeFor
  <2>4. saysLive' \in BOOLEAN /\ (NearestEvent(d) # 0 => ~saysLive')
    BY <2>1, Zenon DEF PointsAt
  <2>5. QED
    BY <1>0, <2>1, <2>2, <2>3, <2>4 DEF PointsAt, TimelineInv, TimelineTypeOK
<1>2. LiveNow \in BOOLEAN /\ (pinned # 0 => ~LiveNow)
  BY Zenon DEF LiveNow, AtLiveEdge
<1>3. CASE ReleaseTrack
  BY <1>2, <1>3 DEF ReleaseTrack, TimelineInv, TimelineTypeOK
<1>4. CASE GoLive
  BY <1>0, <1>4 DEF GoLive, TimelineInv, TimelineTypeOK
<1>5. CASE ToggleTimeline
  BY <1>2, <1>5 DEF ToggleTimeline, TimelineInv, TimelineTypeOK
<1>6. CASE DrawTimeline
  BY <1>2, <1>6 DEF DrawTimeline, TimelineInv, TimelineTypeOK
<1>7. CASE MinutePassesHere
  BY <1>0, <1>7 DEF MinutePassesHere, TimelineInv, TimelineTypeOK
<1>8. CASE \E m \in {"OPS", "STORM", "INTEL"} : ChooseMode(m)
  BY <1>8 DEF ChooseMode, TimelineInv, TimelineTypeOK
<1>9. CASE \E kp \in FeedKps : KpArrives(kp)
  BY <1>9 DEF KpArrives, TimelineInv, TimelineTypeOK
<1>10. CASE UNCHANGED timelineVars
  BY <1>10 DEF timelineVars, TimelineInv, TimelineTypeOK
<1>11. QED
  BY <1>1, <1>3, <1>4, <1>5, <1>6, <1>7, <1>8, <1>9, <1>10 DEF TimelineNext

LEMMA TimelineIsTruthful == TimelineInv => TimelineTruthful
<1> SUFFICES ASSUME TimelineInv PROVE TimelineTruthful
  OBVIOUS
<1>0. TrackEnd \in Nat /\ SnapWithin \in Nat /\ position \in Int
  BY ReadoutsAssumption DEF TimelineInv, TimelineTypeOK
<1>1. NearestOf(NearestEvent(position), Len(HistoryOf), position)
  BY <1>0, Nearest
<1>2. \A j \in 1..Len(HistoryOf) : Gap(j, position) \in Int
  BY <1>0, GapIsNumber
<1>3. pinned # 0 => FirstNearest(pinned, position)
  BY <1>1 DEF TimelineInv, NearestOf, FirstNearest, Within
<1>4. pinned = 0 /\ position < TrackEnd => Within(position) = {}
  BY <1>0, <1>1, <1>2 DEF TimelineInv, NearestOf, Within
<1>5. timelineOpen => \A kp \in WeatherSummary : kp = feedKp \/ PlaybackBanner
  BY DEF TimelineInv, WeatherSummary, DisplayedKp, PlaybackBanner
<1>6. QED
  BY <1>3, <1>4, <1>5 DEF TimelineTruthful

-----------------------------------------------------------------------------
(* Readouts: the feed status.                                               *)

LayerStates(l) ==
  [on : BOOLEAN, failing : BOOLEAN, age : LayerAges[l] \cup {Never}, answered : BOOLEAN]

\* Data that is dropped with its feed is an answer to the feed there is now.
Owned(l, r) == l \in Refetched /\ r.age # Never => r.answered

LayersOwned == \A l \in OptionalLayers : layer[l] \in LayerStates(l) /\ Owned(l, layer[l])

StatusInv ==
  /\ linked \in BOOLEAN
  /\ feedAge \in [CoreFeeds -> Int] /\ \A f \in CoreFeeds : feedAge[f] \in FeedAges[f] \cup {Never}
  /\ DOMAIN layer = OptionalLayers /\ LayersOwned

LEMMA StatusTyped == StatusInv => StatusTypeOK
  BY DEF StatusInv, StatusTypeOK, LayersOwned, LayerStates

LEMMA AgesAreNumbers == ASSUME NEW f \in CoreFeeds PROVE FeedAges[f] \subseteq Int /\ Never \in Int
  BY ReadoutsAssumption DEF CoreFeeds, Never

LEMMA SetUpOwned ==
  ASSUME LayersOwned, NEW l \in OptionalLayers, NEW on \in BOOLEAN
  PROVE  SetUp(l, on) \in LayerStates(l) /\ Owned(l, SetUp(l, on))
<1>1. layer[l] \in LayerStates(l)
  BY DEF LayersOwned
<1>2. Unasked(on) \in LayerStates(l) /\ Unasked(on).age = Never
  BY DEF Unasked, LayerStates
<1>3. CASE l \in Refetched
  BY <1>2, <1>3 DEF SetUp, Owned
<1>4. CASE l \notin Refetched
  <2> DEFINE r == [layer[l] EXCEPT !.on = on, !.answered = FALSE]
  <2>1. r \in LayerStates(l)
    BY <1>1 DEF LayerStates
  <2>2. QED
    BY <1>4, <2>1 DEF SetUp, Owned
<1>5. QED
  BY <1>3, <1>4

LEMMA StatusStart == StatusInit => StatusInv
<1> SUFFICES ASSUME StatusInit PROVE StatusInv
  OBVIOUS
<1>1. linked \in BOOLEAN
  BY Zenon DEF StatusInit
<1>2. feedAge \in [CoreFeeds -> Int] /\ \A f \in CoreFeeds : feedAge[f] = Never
  BY DEF StatusInit, Never
<1>3. DOMAIN layer = OptionalLayers /\ \A l \in OptionalLayers : layer[l] = Unasked(l # "rocket")
  BY DEF StatusInit
<1>4. LayersOwned
  <2> SUFFICES ASSUME NEW l \in OptionalLayers, NEW on \in BOOLEAN, layer[l] = Unasked(on)
               PROVE  layer[l] \in LayerStates(l) /\ layer[l].age = Never
    BY <1>3 DEF LayersOwned, Owned
  <2>1. QED
    BY DEF Unasked, LayerStates
<1>5. QED
  BY <1>1, <1>2, <1>3, <1>4 DEF StatusInv

LEMMA StatusStep == StatusInv /\ [StatusNext]_statusVars => StatusInv'
<1> SUFFICES ASSUME StatusInv, [StatusNext]_statusVars PROVE StatusInv'
  OBVIOUS
<1>1. ASSUME NEW f \in CoreFeeds, FeedStamped(f) \/ FeedAgesOn(f) PROVE StatusInv'
  <2>1. PICK a \in FeedAges[f] \cup {Never} : feedAge' = [feedAge EXCEPT ![f] = a]
    BY <1>1 DEF FeedStamped, FeedAgesOn
  <2>2. UNCHANGED <<linked, layer>>
    BY <1>1 DEF FeedStamped, FeedAgesOn
  <2>3. a \in Int
    BY AgesAreNumbers
  <2>4. LayersOwned'
    BY <2>2 DEF StatusInv, LayersOwned
  <2>5. QED
    BY <2>1, <2>2, <2>3, <2>4 DEF StatusInv
<1>2. CASE LinkChanges
  BY <1>2, Zenon DEF LinkChanges, StatusInv, LayersOwned
<1>3. ASSUME NEW l \in OptionalLayers, NEW r \in LayerStates(l), Owned(l, r),
             layer' = [layer EXCEPT ![l] = r], UNCHANGED <<linked, feedAge>>
      PROVE  StatusInv'
  BY <1>3 DEF StatusInv, LayersOwned
<1>4. ASSUME NEW l \in OptionalLayers
      PROVE  /\ layer[l] \in LayerStates(l) /\ Owned(l, layer[l])
             /\ layer[l].on \in BOOLEAN /\ layer[l].age \in LayerAges[l] \cup {Never}
  BY DEF StatusInv, LayersOwned, LayerStates
<1>5. ASSUME NEW l \in OptionalLayers, LayerSwitched(l) \/ LayerChanged(l) PROVE StatusInv'
  <2>1. PICK on \in BOOLEAN : layer' = [layer EXCEPT ![l] = SetUp(l, on)]
    BY <1>5, <1>4 DEF LayerSwitched, LayerChanged
  <2>2. UNCHANGED <<linked, feedAge>>
    BY <1>5 DEF LayerSwitched, LayerChanged
  <2>3. SetUp(l, on) \in LayerStates(l) /\ Owned(l, SetUp(l, on))
    BY SetUpOwned DEF StatusInv
  <2>4. QED
    BY <2>1, <2>2, <2>3, <1>3
<1>6. ASSUME NEW l \in OptionalLayers, NEW age \in LayerAges[l], NEW fails \in BOOLEAN, LayerAnswered(l, age, fails)
      PROVE  StatusInv'
  <2> DEFINE r == [on |-> TRUE, failing |-> fails, age |-> age, answered |-> TRUE]
  <2>1. layer' = [layer EXCEPT ![l] = r] /\ UNCHANGED <<linked, feedAge>>
    BY <1>6 DEF LayerAnswered
  <2>2. r \in LayerStates(l) /\ Owned(l, r)
    BY DEF LayerStates, Owned
  <2>3. QED
    BY <2>1, <2>2, <1>3
<1>7. ASSUME NEW l \in OptionalLayers, LayerFails(l) PROVE StatusInv'
  <2> DEFINE a == IF layer[l].answered THEN layer[l].age ELSE Never
             r == [layer[l] EXCEPT !.failing = TRUE, !.age = a]
  <2>1. layer' = [layer EXCEPT ![l] = r] /\ UNCHANGED <<linked, feedAge>>
    BY <1>4, <1>7 DEF LayerFails, StatusInv
  <2>2. r \in LayerStates(l) /\ Owned(l, r)
    BY <1>4 DEF LayerStates, Owned
  <2>3. QED
    BY <2>1, <2>2, <1>3
<1>8. ASSUME NEW b \in BOOLEAN, "rocket" \in OptionalLayers, UNCHANGED <<linked, feedAge>>,
             layer' = [layer EXCEPT !["rocket"].failing = b]
      PROVE  StatusInv'
  <2> DEFINE r == [layer["rocket"] EXCEPT !.failing = b]
  <2>1. layer' = [layer EXCEPT !["rocket"] = r]
    BY <1>8 DEF StatusInv
  <2>2. r \in LayerStates("rocket") /\ Owned("rocket", r)
    BY <1>4, <1>8 DEF LayerStates, Owned
  <2>3. QED
    BY <2>1, <2>2, <1>3, <1>8
<1>9. CASE RocketWaits \/ RocketGrowsStale
  BY <1>8, <1>9 DEF RocketWaits, RocketGrowsStale
<1>10. ASSUME NEW l \in OptionalLayers, LayerAgesOn(l) PROVE StatusInv'
  <2>1. PICK a \in LayerAges[l] : layer' = [layer EXCEPT ![l].age = a]
    BY <1>10 DEF LayerAgesOn
  <2>2. layer[l].age # Never /\ UNCHANGED <<linked, feedAge>>
    BY <1>10 DEF LayerAgesOn
  <2> DEFINE r == [layer[l] EXCEPT !.age = a]
  <2>3. layer' = [layer EXCEPT ![l] = r]
    BY <2>1 DEF StatusInv
  <2>4. r \in LayerStates(l) /\ Owned(l, r)
    BY <1>4, <2>2 DEF LayerStates, Owned
  <2>5. QED
    BY <2>2, <2>3, <2>4, <1>3
<1>11. CASE UNCHANGED statusVars
  BY <1>11 DEF statusVars, StatusInv, LayersOwned
<1>12. QED
  BY <1>1, <1>2, <1>5, <1>6, <1>7, <1>9, <1>10, <1>11 DEF StatusNext

\* The button's limit for a feed and the one of its row are the same.
LEMMA LimitsAgree ==
  ASSUME NEW f \in CoreFeeds, NEW age \in Int
  PROVE  /\ Freshness(age, StatusLive(f), StatusError(f)) = "live" <=> age # Never /\ age <= StatusLive(f)
         /\ Freshness(age, RowMinutes[f], 3 * RowMinutes[f]) = "live" <=> age # Never /\ age <= StatusLive(f)
<1>1. StatusLive(f) \in Nat /\ StatusError(f) \in Nat /\ StatusLive(f) <= StatusError(f) /\ RowMinutes[f] = StatusLive(f)
  BY DEF CoreFeeds, StatusLive, StatusError, RowMinutes
<1>2. ASSUME NEW a \in Nat, NEW b \in Nat, a <= b
      PROVE  Freshness(age, a, b) = "live" <=> age # Never /\ age <= a
  BY <1>2 DEF Freshness
<1>3. QED
  BY <1>1, <1>2

LEMMA StatusIsTruthful == StatusInv => StatusTruthful
<1> SUFFICES ASSUME StatusInv PROVE StatusTruthful
  OBVIOUS
<1>1. \A f \in CoreFeeds : CoreLight(f) <=> feedAge[f] # Never /\ feedAge[f] <= StatusLive(f)
  BY LimitsAgree DEF CoreLight, StatusInv
<1>2. \A f \in CoreFeeds : Freshness(feedAge[f], StatusLive(f), StatusError(f)) = "live" <=> CoreLight(f)
  BY <1>1, LimitsAgree DEF StatusInv
<1>3. DataStatus = "live" <=>
        /\ ReceivedFeeds # {} /\ linked /\ ReceivedFeeds = CoreFeeds
        /\ \A f \in CoreFeeds : CoreLight(f)
  BY <1>2 DEF DataStatus
<1>4. StatusButton = "live" <=> DataStatus = "live" /\ OutageLayers = {}
  BY DEF StatusButton
<1>5. \A l \in Refetched : LayerLight(l) => layer[l].answered
  BY DEF Refetched, LayerLight, Freshness, StatusInv, LayersOwned, Owned
<1>6. StatusButton \in {"stale", "offline", "mixed"} => ReceivedFeeds # {}
  <2>1. ReceivedFeeds = {} => DataStatus = "demo"
    BY DEF DataStatus
  <2>2. DataStatus = "demo" => StatusButton = "demo"
    BY DEF StatusButton
  <2>3. QED
    BY <2>1, <2>2
<1>7. (\A f \in CoreFeeds : CoreLight(f)) => ReceivedFeeds = CoreFeeds /\ ReceivedFeeds # {}
  BY <1>1 DEF ReceivedFeeds, CoreFeeds
<1>8. QED
  BY <1>3, <1>4, <1>5, <1>6, <1>7, Zenon DEF StatusTruthful

-----------------------------------------------------------------------------
(* Readouts: the NOAA scales and the session's trend.                       *)

LEMMA LevelsReached ==
  ASSUME NEW value, NEW limits, DOMAIN limits = 1..5
  PROVE  /\ Reached(value, limits) \in 0..5
         /\ \A i \in 1..5 : value >= limits[i] => Reached(value, limits) >= 1
<1> DEFINE S == {i \in DOMAIN limits : value >= limits[i]}
<1>1. IsFiniteSet(1..5) /\ Cardinality(1..5) = 5
  <2>1. \A b \in Nat : IsFiniteSet(1..b) /\ Cardinality(1..b) = b
    BY FS_Interval
  <2>2. QED
    BY <2>1
<1>2. IsFiniteSet(S) /\ Cardinality(S) \in Nat /\ Cardinality(S) <= 5
  BY <1>1, FS_Subset, FS_CardinalityType
<1>3. S # {} => Cardinality(S) # 0
  BY <1>2, FS_EmptySet
<1>4. QED
  BY <1>2, <1>3 DEF Reached

LEMMA ScalesAreLevels == ASSUME NEW w PROVE \A i \in 1..3 : ScaleCodes(w)[i] \in 0..5
<1>1. GScale(w.kp) \in 0..5
  BY LevelsReached DEF GScale
<1>2. SScale(w.proton) \in 0..5
  BY LevelsReached DEF SScale
<1>3. RScale(w.xray) \in 0..5
  BY LevelsReached DEF RScale
<1>4. QED
  BY <1>1, <1>2, <1>3 DEF ScaleCodes

\* The scale the panel leads with: the pass over the three, written out.
LEMMA PeakIsFirstHighest ==
  ASSUME NEW w
  PROVE  /\ PeakScale(w) \in 1..3
         /\ \A i \in 1..3 : /\ ScaleCodes(w)[PeakScale(w)] >= ScaleCodes(w)[i]
                            /\ i < PeakScale(w) => ScaleCodes(w)[i] < ScaleCodes(w)[PeakScale(w)]
<1> DEFINE c == ScaleCodes(w)
           IsWorst(f) == f = [i \in 1..3 |-> IF i = 1 THEN 1 ELSE IF c[i] > c[f[i - 1]] THEN i ELSE f[i - 1]]
           two == IF c[2] > c[1] THEN 2 ELSE 1
           three == IF c[3] > c[two] THEN 3 ELSE two
           g == [i \in 1..3 |-> IF i = 1 THEN 1 ELSE IF i = 2 THEN two ELSE three]
           worst == CHOOSE f : IsWorst(f)
<1>1. PeakScale(w) = worst[3]
  BY DEF PeakScale
<1>2. \A i \in 1..3 : c[i] \in Int
  BY ScalesAreLevels
<1> HIDE DEF c
<1>3. IsWorst(g)
  <2>1. g[1] = 1 /\ g[2] = two /\ g[3] = three
    OBVIOUS
  <2>2. \A i \in 1..3 : g[i] = IF i = 1 THEN 1 ELSE IF c[i] > c[g[i - 1]] THEN i ELSE g[i - 1]
    BY <2>1
  <2>3. g = [i \in 1..3 |-> g[i]]
    OBVIOUS
  <2> HIDE DEF g
  <2>4. QED
    BY <2>2, <2>3, Zenon
<1>4. IsWorst(worst)
  BY <1>3, Zenon
<1>5. \A i \in 1..3 : worst[i] = IF i = 1 THEN 1 ELSE IF c[i] > c[worst[i - 1]] THEN i ELSE worst[i - 1]
  <2> HIDE DEF worst
  <2>1. QED
    BY <1>4, Zenon
<1> HIDE DEF worst
<1>6. worst[1] = 1
  BY <1>5
<1>7. worst[2] = IF c[2] > c[1] THEN 2 ELSE 1
  BY <1>5, <1>6
<1>8. worst[3] = IF c[3] > c[worst[2]] THEN 3 ELSE worst[2]
  BY <1>5
<1>9. QED
  BY <1>1, <1>2, <1>7, <1>8 DEF c

\* The samples of the session: no two neighbours are of the same time.
TrendKept(list) ==
  /\ list \in Seq(0..MaxStamp) /\ Len(list) <= TrendLength
  /\ \A i \in 2..Len(list) : list[i - 1] # list[i]

LEMMA ReadingKept ==
  ASSUME NEW list, TrendKept(list), NEW time \in 0..MaxStamp
  PROVE  LET kept == WithReading(list, time)
         IN TrendKept(kept) /\ kept # <<>> /\ kept[Len(kept)] = time
<1> DEFINE longer == Append(list, time)
           S == 0..MaxStamp
<1>0. TrendLength \in Nat /\ TrendLength > 0
  BY ReadoutsAssumption
<1>1. list \in Seq(S) /\ Len(list) \in Nat /\ Len(list) <= TrendLength /\ \A i \in 2..Len(list) : list[i - 1] # list[i]
  BY LenProperties DEF TrendKept
<1>2. CASE list # <<>> /\ list[Len(list)] = time
  BY <1>2 DEF WithReading
<1>3. CASE ~(list # <<>> /\ list[Len(list)] = time)
  <2> HIDE DEF S
  <2>0. time \in S
    BY DEF S
  <2>1. /\ longer \in Seq(S) /\ Len(longer) = Len(list) + 1 /\ longer[Len(list) + 1] = time
        /\ \A i \in 1..Len(list) : longer[i] = list[i]
    BY <1>1, <2>0, AppendProperties
  <2>2. Len(list) # 0 => list[Len(list)] # time
    BY <1>1, <1>3, EmptySeq
  <2> HIDE DEF longer
  <2>3. \A i \in 2..Len(longer) : longer[i - 1] # longer[i]
    BY <1>1, <2>1, <2>2
  <2>4. longer # <<>>
    BY <2>1, <1>1
  <2>5. CASE Len(longer) > TrendLength
    <3> DEFINE rest == Tail(longer)
    <3>1. rest \in Seq(S) /\ Len(rest) = Len(longer) - 1 /\ \A i \in 1..Len(rest) : rest[i] = longer[i + 1]
      BY <2>1, <2>4, HeadTailProperties
    <3> HIDE DEF rest
    <3>2. Len(rest) = TrendLength
      BY <1>0, <1>1, <2>1, <2>5, <3>1
    <3>3. ASSUME NEW i \in 2..Len(rest) PROVE rest[i - 1] # rest[i]
      <4>1. Len(rest) \in Nat /\ Len(longer) = Len(rest) + 1
        BY <1>0, <1>1, <2>1, <3>1, <3>2
      <4>2. i - 1 \in 1..Len(rest) /\ i \in 1..Len(rest) /\ i + 1 \in 2..Len(longer)
            /\ (i - 1) + 1 = i /\ (i + 1) - 1 = i
        BY <4>1
      <4>3. rest[i - 1] = longer[i] /\ rest[i] = longer[i + 1]
        BY <3>1, <4>2
      <4>4. longer[(i + 1) - 1] # longer[i + 1]
        BY <2>3, <4>2
      <4>5. QED
        BY <4>2, <4>3, <4>4
    <3>4. rest # <<>> /\ rest[Len(rest)] = time
      BY <1>0, <1>1, <2>1, <3>1, <3>2
    <3>5. WithReading(list, time) = rest
      BY <1>3, <2>5 DEF WithReading, rest, longer
    <3>6. QED
      BY <1>0, <3>1, <3>2, <3>3, <3>4, <3>5 DEF TrendKept, S
  <2>6. CASE ~(Len(longer) > TrendLength)
    <3>1. WithReading(list, time) = longer
      BY <1>3, <2>6 DEF WithReading, longer
    <3>2. Len(longer) <= TrendLength
      BY <1>0, <1>1, <2>1, <2>6
    <3>3. longer[Len(longer)] = time
      BY <2>1
    <3>4. QED
      BY <2>1, <2>3, <2>4, <3>1, <3>2, <3>3 DEF TrendKept, S
  <2>7. QED
    BY <2>5, <2>6
<1>4. QED
  BY <1>2, <1>3

WeatherInv ==
  /\ weather \in WeatherSamples /\ stamp \in 0..MaxStamp /\ TrendKept(trend)
  /\ trend # <<>> => trend[Len(trend)] = stamp

LEMMA WeatherStart == WeatherInit => WeatherInv
<1> SUFFICES ASSUME WeatherInit PROVE WeatherInv
  OBVIOUS
<1>1. MaxStamp \in Nat /\ TrendLength \in Nat
  BY ReadoutsAssumption
<1>2. <<>> \in Seq(0..MaxStamp) /\ Len(<<>>) = 0
  OBVIOUS
<1>3. TrendKept(<<>>)
  BY <1>1, <1>2 DEF TrendKept
<1>4. QED
  BY <1>1, <1>3 DEF WeatherInit, WeatherInv

LEMMA WeatherStep == WeatherInv /\ [WeatherNext]_weatherVars => WeatherInv'
<1> SUFFICES ASSUME WeatherInv, [WeatherNext]_weatherVars PROVE WeatherInv'
  OBVIOUS
<1>1. CASE WeatherNext
  <2>1. PICK w \in WeatherSamples, time \in 0..MaxStamp : WeatherArrives(w, time)
    BY <1>1 DEF WeatherNext
  <2>2. weather' = w /\ stamp' = time /\ trend' = WithReading(trend, time)
    BY <2>1 DEF WeatherArrives
  <2>3. TrendKept(trend)
    BY DEF WeatherInv
  <2>4. TrendKept(WithReading(trend, time)) /\ WithReading(trend, time)[Len(WithReading(trend, time))] = time
    BY <2>3, ReadingKept
  <2>5. TrendKept(trend') /\ trend'[Len(trend')] = time
    BY <2>2, <2>4
  <2>6. QED
    BY <2>2, <2>5 DEF WeatherInv
<1>2. CASE UNCHANGED weatherVars
  BY <1>2 DEF weatherVars, WeatherInv
<1>3. QED
  BY <1>1, <1>2

LEMMA WeatherIsTruthful == WeatherInv => WeatherTruthful
<1> SUFFICES ASSUME WeatherInv PROVE WeatherTruthful
  OBVIOUS
<1> DEFINE p == PeakScale(weather)
           c == ScaleCodes(weather)
<1>1. /\ p \in 1..3
      /\ \A i \in 1..3 : c[p] >= c[i] /\ (i < p => c[i] < c[p])
  BY PeakIsFirstHighest
<1>2. \A i \in 1..3 : c[i] \in 0..5
  BY ScalesAreLevels
<1>3. \A i \in 1..3 : MarkedRows(weather)[i] = {r \in 1..5 : r = c[i]}
  BY DEF MarkedRows
<1>4. MarkedRows(weather)[p] = {} => \A i \in 1..3 : MarkedRows(weather)[i] = {}
  <2> HIDE DEF p, c
  <2> SUFFICES ASSUME MarkedRows(weather)[p] = {}, NEW i \in 1..3 PROVE MarkedRows(weather)[i] = {}
    OBVIOUS
  <2>1. c[p] \notin 1..5
    BY <1>1, <1>3
  <2>2. c[p] = 0
    BY <1>1, <1>2, <2>1
  <2>3. c[i] = 0
    BY <1>1, <1>2, <2>2
  <2>4. QED
    BY <1>3, <2>3
<1>5. StormLevel(weather.kp) => GScale(weather.kp) >= 1
  <2>1. weather.kp \in Int
    BY ReadoutsAssumption DEF WeatherInv
  <2>2. StormLevel(weather.kp) => weather.kp >= <<5, 6, 7, 8, 9>>[1]
    BY <2>1 DEF StormLevel
  <2>3. QED
    BY <2>2, LevelsReached DEF GScale
<1>6. \A i \in 2..Len(trend) : trend[i - 1] # trend[i]
  BY DEF WeatherInv, TrendKept
<1>7. trend # <<>> => trend[Len(trend)] = stamp /\ Len(trend) <= TrendLength
  BY DEF WeatherInv, TrendKept
<1>8. QED
  BY <1>1, <1>4, <1>5, <1>6, <1>7 DEF WeatherTruthful

-----------------------------------------------------------------------------
(* Readouts: places in an order.                                            *)

\* R orders S strictly and totally.
Orders(R, S) ==
  /\ \A x \in S : <<x, x>> \notin R
  /\ \A x, y \in S : x # y => <<x, y>> \in R \/ <<y, x>> \in R
  /\ \A x, y, z \in S : <<x, y>> \in R /\ <<y, z>> \in R => <<x, z>> \in R

PlaceIn(R, S) == [x \in S |-> Cardinality({y \in S : <<y, x>> \in R})]

\* How many are before an element tells it from the others, and each number from
\* none to all others belongs to one.
Ranks(rank, R, S) ==
  /\ Cardinality(S) \in Nat
  /\ \A x \in S : rank[x] \in 0..(Cardinality(S) - 1)
  /\ \A k \in 0..(Cardinality(S) - 1) : \E x \in S : rank[x] = k
  /\ \A x, y \in S : <<x, y>> \in R <=> rank[x] < rank[y]
  /\ \A x, y \in S : rank[x] = rank[y] => x = y

LEMMA Ranking ==
  ASSUME NEW S, IsFiniteSet(S), NEW R, Orders(R, S)
  PROVE  Ranks(PlaceIn(R, S), R, S)
<1> DEFINE n == Cardinality(S)
           rank == PlaceIn(R, S)
           before(x) == {y \in S : <<y, x>> \in R}
<1>1. n \in Nat
  BY FS_CardinalityType
<1>2. \A x \in S : rank[x] = Cardinality(before(x))
  BY DEF PlaceIn
<1>3. ASSUME NEW x \in S PROVE IsFiniteSet(before(x)) /\ rank[x] \in 0..(n - 1)
  <2>1. before(x) \in SUBSET (S \ {x})
    BY DEF Orders
  <2>2. IsFiniteSet(S \ {x}) /\ Cardinality(S \ {x}) = n - 1
    BY FS_RemoveElement
  <2> HIDE DEF before, rank, n
  <2>3. IsFiniteSet(before(x)) /\ Cardinality(before(x)) <= n - 1
    BY <2>1, <2>2, FS_Subset
  <2>4. Cardinality(before(x)) \in Nat
    BY <2>3, FS_CardinalityType
  <2>5. QED
    BY <1>1, <1>2, <2>3, <2>4
<1> HIDE DEF rank
<1>a. \A x \in S : rank[x] \in Nat
  <2> HIDE DEF n, before
  <2>1. QED
    BY <1>1, <1>3
<1>4. ASSUME NEW x \in S, NEW y \in S, <<x, y>> \in R PROVE rank[x] < rank[y]
  <2>1. before(x) \in SUBSET (before(y) \ {x}) /\ x \in before(y)
    BY <1>4 DEF Orders
  <2>2. IsFiniteSet(before(y)) /\ rank[y] \in Nat /\ rank[x] \in Nat
    BY <1>3, <1>a
  <2> HIDE DEF before, n
  <2>3. IsFiniteSet(before(y) \ {x}) /\ Cardinality(before(y) \ {x}) = Cardinality(before(y)) - 1
    BY <2>1, <2>2, FS_RemoveElement
  <2>4. Cardinality(before(x)) <= Cardinality(before(y) \ {x})
    BY <2>1, <2>3, FS_Subset
  <2>5. QED
    BY <1>2, <2>2, <2>3, <2>4
<1> HIDE DEF before
<1>b. ASSUME NEW x \in S, NEW y \in S
      PROVE  (rank[x] = rank[y] => x = y) /\ (<<x, y>> \in R <=> rank[x] < rank[y])
  <2>1. rank[x] \in Nat /\ rank[y] \in Nat
    BY <1>a
  <2>2. (<<x, y>> \in R => rank[x] < rank[y]) /\ (<<y, x>> \in R => rank[y] < rank[x])
    BY <1>4
  <2>3. (x = y /\ <<x, y>> \notin R) \/ <<x, y>> \in R \/ <<y, x>> \in R
    BY DEF Orders
  <2>4. QED
    BY <2>1, <2>2, <2>3
<1>5. \A x, y \in S : rank[x] = rank[y] => x = y
  BY <1>b
<1>6. \A x, y \in S : <<x, y>> \in R <=> rank[x] < rank[y]
  BY <1>b
<1>7. \A k \in 0..(n - 1) : \E x \in S : rank[x] = k
  <2> DEFINE T == 0..(n - 1)
  <2>1. IsFiniteSet(T) /\ Cardinality(T) = n
    <3>1. n - 1 \in Int /\ 0 \in Int
      BY <1>1
    <3>2. IsFiniteSet(T) /\ Cardinality(T) = IF 0 > n - 1 THEN 0 ELSE (n - 1) - 0 + 1
      BY <3>1, FS_Interval
    <3> HIDE DEF n, T
    <3>3. QED
      BY <1>1, <3>2
  <2>2. rank \in [S -> T]
    BY <1>3 DEF PlaceIn, rank
  <2> HIDE DEF n
  <2>3. rank \in Injection(S, T)
    BY <1>5, <2>2 DEF Injection, IsInjective
  <2>4. rank \in Surjection(S, T)
    BY <2>1, <2>3, FS_Injection DEF n
  <2>5. QED
    BY <2>4 DEF Surjection
<1>8. QED
  BY <1>1, <1>3, <1>5, <1>6, <1>7, Zenon DEF Ranks, rank

-----------------------------------------------------------------------------
(* Readouts: the conjunction badge and its list.                            *)

Goes(list, i, j) == list[i].pc > list[j].pc \/ (list[i].pc = list[j].pc /\ i <= j)
Place(list, i) == Cardinality({j \in DOMAIN list : Goes(list, j, i)})
At(list, p) == CHOOSE i \in DOMAIN list : Place(list, i) = p

LEMMA PlacesGiven ==
  ASSUME NEW n \in Nat, NEW list \in [1..n -> WarningSamples]
  PROVE  /\ \A i \in 1..n : Place(list, i) \in 1..n
         /\ \A p \in 1..n : At(list, p) \in 1..n /\ Place(list, At(list, p)) = p
         /\ \A i, j \in 1..n : Place(list, i) = Place(list, j) => i = j
         /\ \A i, j \in 1..n : Place(list, i) < Place(list, j) => list[i].pc >= list[j].pc
<1> DEFINE D == 1..n
           R == {q \in D \X D : q[1] # q[2] /\ Goes(list, q[1], q[2])}
<1>1. DOMAIN list = D /\ D \subseteq Nat
  OBVIOUS
<1>2. \A i \in D : list[i].pc \in Nat
  BY ReadoutsAssumption
<1>3. \A x, y \in D : <<x, y>> \in R <=> x # y /\ Goes(list, x, y)
  OBVIOUS
<1> DEFINE S == D
<1>4. IsFiniteSet(S) /\ Cardinality(S) = n
  <2>1. \A b \in Nat : IsFiniteSet(1..b) /\ Cardinality(1..b) = b
    BY FS_Interval
  <2>2. QED
    BY <2>1
<1> HIDE DEF R, D
<1>5. Orders(R, S)
  <2>1. \A x \in S : <<x, x>> \notin R
    BY <1>3
  <2>2. \A x, y \in S : x # y => <<x, y>> \in R \/ <<y, x>> \in R
    BY <1>1, <1>2, <1>3 DEF Goes
  <2>3. \A x, y, z \in S : <<x, y>> \in R /\ <<y, z>> \in R => <<x, z>> \in R
    BY <1>1, <1>2, <1>3 DEF Goes
  <2>4. QED
    BY <2>1, <2>2, <2>3 DEF Orders
<1> DEFINE rank == PlaceIn(R, S)
<1>6. /\ \A x \in S : rank[x] \in 0..(n - 1)
      /\ \A k \in 0..(n - 1) : \E x \in S : rank[x] = k
      /\ \A x, y \in S : <<x, y>> \in R <=> rank[x] < rank[y]
      /\ \A x, y \in S : rank[x] = rank[y] => x = y
  <2> HIDE DEF S
  <2>1. Ranks(rank, R, S)
    BY <1>4, <1>5, Ranking
  <2> HIDE DEF rank
  <2>2. QED
    BY <1>4, <2>1 DEF Ranks
<1>7. ASSUME NEW i \in S PROVE Place(list, i) = rank[i] + 1
  <2> DEFINE B == {y \in S : <<y, i>> \in R}
  <2>1. {j \in D : Goes(list, j, i)} = B \cup {i} /\ i \notin B
    BY <1>1, <1>2, <1>3 DEF Goes
  <2>2. B \in SUBSET S
    OBVIOUS
  <2>3. rank[i] = Cardinality(B)
    BY DEF PlaceIn
  <2> HIDE DEF B, S
  <2>4. IsFiniteSet(B)
    BY <1>4, <2>2, FS_Subset
  <2>5. Cardinality(B \cup {i}) = Cardinality(B) + 1
    BY <2>1, <2>4, FS_AddElement
  <2>6. QED
    BY <1>1, <2>1, <2>3, <2>5 DEF Place
<1> HIDE DEF rank, S
<1>8. \A i \in S : Place(list, i) \in 1..n
  BY <1>6, <1>7
<1>9. ASSUME NEW p \in 1..n PROVE At(list, p) \in S /\ Place(list, At(list, p)) = p
  <2>1. p - 1 \in 0..(n - 1)
    OBVIOUS
  <2>2. PICK x \in S : rank[x] = p - 1
    BY <1>6, <2>1
  <2>3. Place(list, x) = p
    BY <1>7, <2>2
  <2>4. QED
    BY <1>1, <2>3 DEF At, S
<1>10. \A i, j \in S : Place(list, i) = Place(list, j) => i = j
  BY <1>6, <1>7
<1>11. ASSUME NEW i \in S, NEW j \in S, Place(list, i) < Place(list, j) PROVE list[i].pc >= list[j].pc
  <2>1. rank[i] < rank[j]
    BY <1>6, <1>7, <1>11
  <2>2. Goes(list, i, j)
    BY <1>3, <1>6, <2>1 DEF S
  <2>3. QED
    BY <1>2, <2>2 DEF Goes, S
<1>12. QED
  BY <1>8, <1>9, <1>10, <1>11 DEF S, D

\* The list of the panel is the list of the feed in another order.
InOrder(shown, list) ==
  /\ \A i, j \in DOMAIN shown : i <= j => shown[i].pc >= shown[j].pc
  /\ \A w \in WarningSamples : Cardinality({i \in DOMAIN shown : shown[i] = w}) = Cardinality({i \in DOMAIN list : list[i] = w})

LEMMA ListInOrder ==
  ASSUME NEW n \in Nat, NEW list \in [1..n -> WarningSamples]
  PROVE  InOrder(MostProbableFirst(list), list)
<1> DEFINE shown == MostProbableFirst(list)
<1>1. DOMAIN list = 1..n /\ \A i \in 1..n : list[i].pc \in Nat
  BY ReadoutsAssumption
<1>2. shown = [p \in DOMAIN list |-> list[At(list, p)]]
  BY DEF MostProbableFirst, At, Place, Goes
<1>3. DOMAIN shown = 1..n /\ \A p \in 1..n : shown[p] = list[At(list, p)]
  BY <1>1, <1>2
<1> HIDE DEF shown
<1>4. ASSUME NEW p \in 1..n, NEW q \in 1..n, p <= q PROVE shown[p].pc >= shown[q].pc
  <2>1. At(list, p) \in 1..n /\ At(list, q) \in 1..n /\ Place(list, At(list, p)) = p /\ Place(list, At(list, q)) = q
    BY PlacesGiven
  <2>2. CASE p = q
    BY <1>1, <1>3, <2>1, <2>2
  <2>3. CASE p < q
    <3> DEFINE i == At(list, p)
               j == At(list, q)
    <3>1. i \in 1..n /\ j \in 1..n /\ Place(list, i) < Place(list, j)
      BY <2>1, <2>3
    <3> HIDE DEF i, j
    <3>2. list[i].pc >= list[j].pc
      BY <3>1, PlacesGiven
    <3>3. QED
      BY <1>3, <3>2 DEF i, j
  <2>4. QED
    BY <1>4, <2>2, <2>3
<1>5. ASSUME NEW w PROVE Cardinality({i \in 1..n : shown[i] = w}) = Cardinality({i \in 1..n : list[i] = w})
  <2> DEFINE A == {i \in 1..n : shown[i] = w}
             B == {i \in 1..n : list[i] = w}
             f == [p \in A |-> At(list, p)]
  <2>1. \A p \in A : f[p] = At(list, p) /\ f[p] \in B /\ Place(list, f[p]) = p
    BY <1>3, PlacesGiven
  <2>2. f \in [A -> B]
    BY <2>1
  <2>3. \A p, q \in A : f[p] = f[q] => p = q
    <3> HIDE DEF f, A, B
    <3>1. QED
      BY <2>1
  <2>4. ASSUME NEW i \in B PROVE \E p \in A : f[p] = i
    <3> DEFINE p == Place(list, i)
    <3>1. i \in 1..n /\ p \in 1..n
      BY PlacesGiven
    <3>2. At(list, p) \in 1..n /\ Place(list, At(list, p)) = p
      BY <3>1, PlacesGiven
    <3>3. At(list, p) = i
      BY <3>1, <3>2, PlacesGiven
    <3>4. p \in A
      BY <1>3, <3>1, <3>3
    <3>5. QED
      BY <3>3, <3>4
  <2>5. IsFiniteSet(A)
    <3>1. \A b \in Nat : IsFiniteSet(1..b)
      BY FS_Interval
    <3>2. IsFiniteSet(1..n) /\ A \in SUBSET (1..n)
      BY <3>1
    <3> HIDE DEF A
    <3>3. QED
      BY <3>2, FS_Subset
  <2> HIDE DEF f, A, B
  <2>6. f \in Bijection(A, B)
    BY <2>2, <2>3, <2>4 DEF Bijection, Injection, Surjection, IsInjective
  <2>7. Cardinality(B) = Cardinality(A)
    BY <2>5, <2>6, FS_Bijection DEF ExistsBijection
  <2>8. QED
    BY <2>7 DEF A, B
<1>6. QED
  BY <1>1, <1>3, <1>4, <1>5 DEF shown, InOrder

BadgeInv == (\E n \in Nat : n <= MaxWarnings /\ warnings \in [1..n -> WarningSamples]) /\ fetched \in BOOLEAN

LEMMA BadgeStart == BadgeInit => BadgeInv
<1> SUFFICES ASSUME BadgeInit PROVE BadgeInv
  OBVIOUS
<1>1. 0 \in Nat /\ 1 \in Nat /\ 0 <= MaxWarnings /\ 1 <= MaxWarnings
  BY ReadoutsAssumption
<1>2. warnings \in [1..0 -> WarningSamples] \/ warnings \in [1..1 -> WarningSamples]
  <2>1. <<>> \in [1..0 -> WarningSamples]
    OBVIOUS
  <2>2. \A w \in WarningSamples : <<w>> \in [1..1 -> WarningSamples]
    OBVIOUS
  <2>3. QED
    BY <2>1, <2>2 DEF BadgeInit
<1>3. fetched \in BOOLEAN
  BY Zenon DEF BadgeInit
<1>4. QED
  BY <1>1, <1>2, <1>3, Zenon DEF BadgeInv

LEMMA BadgeStep == BadgeInv /\ [BadgeNext]_badgeVars => BadgeInv'
<1> SUFFICES ASSUME BadgeInv, [BadgeNext]_badgeVars PROVE BadgeInv'
  OBVIOUS
<1>1. CASE BadgeNext
  <2>1. PICK n \in 0..MaxWarnings : \E list \in [1..n -> WarningSamples] : ConjunctionsArrive(list)
    BY <1>1 DEF BadgeNext
  <2>2. warnings' \in [1..n -> WarningSamples] /\ fetched' = TRUE
    BY <2>1 DEF ConjunctionsArrive
  <2>3. n \in Nat /\ n <= MaxWarnings
    BY ReadoutsAssumption
  <2>4. fetched' \in BOOLEAN
    BY <2>2, Zenon
  <2>5. QED
    BY <2>2, <2>3, <2>4, Zenon DEF BadgeInv
<1>2. CASE UNCHANGED badgeVars
  BY <1>2 DEF badgeVars, BadgeInv
<1>3. QED
  BY <1>1, <1>2

LEMMA BadgeIsTruthful == BadgeInv => BadgeTruthful
<1> SUFFICES ASSUME BadgeInv PROVE BadgeTruthful
  OBVIOUS
<1>1. PICK n \in Nat : warnings \in [1..n -> WarningSamples]
  BY DEF BadgeInv
<1>2. DOMAIN warnings = 1..n /\ \A i \in 1..n : warnings[i].pc \in Nat /\ warnings[i].miss \in Int
  BY <1>1, ReadoutsAssumption
<1>3. ASSUME NEW i \in DOMAIN warnings, Urgency(DetailShows(warnings[i]).probability) > 0
      PROVE  BadgeSays \in {"warning", "critical"}
  <2>1. DetailShows(warnings[i]).probability = RiskTier(warnings[i].pc)
    BY DEF DetailShows
  <2>2. RiskTier(warnings[i].pc) \in {"critical", "warning"}
    BY <1>3, <2>1 DEF Urgency
  <2>3. warnings[i].pc > 100
    BY <1>2, <2>2 DEF RiskTier
  <2>4. warnings # <<>>
    BY <1>1
  <2>5. QED
    BY <2>3, <2>4 DEF BadgeSays, FleetSeverity
<1>4. ASSUME BadgeSays = "critical"
      PROVE  \E i \in DOMAIN warnings : \/ DetailShows(warnings[i]).miss = "critical"
                                        \/ DetailShows(warnings[i]).action = "priority review"
  <2>1. warnings # <<>> /\ FleetSeverity(warnings) = "critical"
    BY <1>4 DEF BadgeSays
  <2>2. PICK i \in DOMAIN warnings : IsCritical(warnings[i])
    BY <2>1 DEF FleetSeverity
  <2>3. warnings[i].miss < 500 \/ warnings[i].pc > 1000
    BY <1>2, <2>2 DEF IsCritical
  <2>4. CASE warnings[i].miss < 500
    BY <2>4 DEF DetailShows, MissTier
  <2>5. CASE warnings[i].pc > 1000
    BY <2>5 DEF DetailShows, ActionFor, RiskTier
  <2>6. QED
    BY <2>3, <2>4, <2>5
<1>5. InOrder(MostProbableFirst(warnings), warnings)
  BY <1>1, ListInOrder
<1>6. QED
  BY <1>3, <1>4, <1>5, Zenon DEF BadgeTruthful, InOrder

-----------------------------------------------------------------------------
(* Readouts: the catalog, page by page.                                     *)

LEMMA RowsRanked ==
  ASSUME NEW S, IsFiniteSet(S), S \subseteq Nat
  PROVE  /\ Cardinality(S) \in Nat
         /\ \A x \in S : RowsBefore(x, S) \in 0..(Cardinality(S) - 1)
         /\ \A k \in 0..(Cardinality(S) - 1) : \E x \in S : RowsBefore(x, S) = k
         /\ \A x, y \in S : x < y <=> RowsBefore(x, S) < RowsBefore(y, S)
<1> DEFINE R == {q \in S \X S : q[1] < q[2]}
<1>1. \A x, y \in S : <<x, y>> \in R <=> x < y
  OBVIOUS
<1> HIDE DEF R
<1>2. Orders(R, S)
  BY <1>1 DEF Orders
<1>3. \A x \in S : PlaceIn(R, S)[x] = RowsBefore(x, S)
  <2> TAKE x \in S
  <2>1. {y \in S : <<y, x>> \in R} = {y \in S : y < x}
    BY <1>1
  <2>2. QED
    BY <2>1 DEF PlaceIn, RowsBefore
<1> DEFINE rank == PlaceIn(R, S)
<1>4. Ranks(rank, R, S)
  BY <1>2, Ranking
<1>5. \A x \in S : rank[x] = RowsBefore(x, S)
  BY <1>3
<1> HIDE DEF rank
<1>6. \A x \in S : RowsBefore(x, S) \in 0..(Cardinality(S) - 1)
  BY <1>4, <1>5 DEF Ranks
<1>7. \A k \in 0..(Cardinality(S) - 1) : \E x \in S : RowsBefore(x, S) = k
  BY <1>4, <1>5 DEF Ranks
<1>8. ASSUME NEW x \in S, NEW y \in S PROVE x < y <=> RowsBefore(x, S) < RowsBefore(y, S)
  <2>1. <<x, y>> \in R <=> rank[x] < rank[y]
    BY <1>4, Zenon DEF Ranks
  <2>2. rank[x] = RowsBefore(x, S) /\ rank[y] = RowsBefore(y, S)
    BY <1>5
  <2>3. QED
    BY <1>1, <2>1, <2>2
<1>9. QED
  BY <1>4, <1>6, <1>7, <1>8, Zenon DEF Ranks

\* The last page of n rows is the one that the last row is on.
LEMMA LastPage ==
  ASSUME NEW n \in Nat, NEW R \in Nat, R > 0
  PROVE  LET P == (n + R - 1) \div R
         IN P \in Nat /\ (n > 0 => P > 0 /\ (P - 1) * R < n)
<1> DEFINE P == (n + R - 1) \div R
<1>1. \A a, b \in Nat : b > 0 => a \div b \in Nat /\ (a \div b) * b <= a /\ a < (a \div b) * b + b
  OBVIOUS
<1>2. n + R - 1 \in Nat
  OBVIOUS
<1>3. P \in Nat /\ P * R <= n + R - 1 /\ n + R - 1 < P * R + R
  BY <1>1, <1>2
<1> HIDE DEF P
<1>4. (P - 1) * R = P * R - R /\ P * R \in Nat
  BY <1>3
<1>5. (P - 1) * R < n
  BY <1>3, <1>4
<1>6. n > 0 => P # 0
  <2>1. P = 0 => P * R = 0
    BY <1>3
  <2>2. QED
    BY <1>3, <2>1
<1>7. QED
  BY <1>3, <1>5, <1>6 DEF P

LEMMA PagesGrow == \A a, b, R \in Nat : a <= b => a * R <= b * R
  OBVIOUS

LEMMA OnPage ==
  \A r, R, c \in Nat : R > 0 => (r \div R = c <=> c * R <= r /\ r < c * R + R)
  OBVIOUS

\* The page asked for is a page of the catalog or the one after its last.
BenchInv ==
  /\ rows \subseteq CatalogObjects /\ filter \in Filters /\ query \in Filters
  /\ page \in Nat

LEMMA BenchStart == BenchInit => BenchInv
  BY ReadoutsAssumption DEF BenchInit, BenchInv

\* The page shown is a number of a page, and the rows of a catalog are finite.
LEMMA PageShown ==
  ASSUME BenchInv
  PROVE  /\ IsFiniteSet(Shortlist) /\ Shortlist \subseteq Nat /\ Cardinality(Shortlist) \in Nat
         /\ CurrentPage \in Nat
         /\ Cardinality(Shortlist) > 0 => CurrentPage * RowsPerPage < Cardinality(Shortlist)
<1> DEFINE n == Cardinality(Shortlist)
           last == IF PageCount = 0 THEN 0 ELSE PageCount - 1
<1>1. Shortlist \in SUBSET CatalogObjects /\ Shortlist \subseteq Nat
  BY ReadoutsAssumption DEF Shortlist, BenchInv
<1>2. IsFiniteSet(Shortlist)
  BY <1>1, FS_Subset, ReadoutsAssumption
<1>3. n \in Nat
  BY <1>2, FS_CardinalityType
<1>4. PageCount = (n + RowsPerPage - 1) \div RowsPerPage
  BY DEF PageCount
<1> HIDE DEF n
<1>5. RowsPerPage \in Nat /\ RowsPerPage > 0
  BY ReadoutsAssumption
<1>6. PageCount \in Nat /\ (n > 0 => PageCount > 0 /\ (PageCount - 1) * RowsPerPage < n)
  BY <1>3, <1>4, <1>5, LastPage
<1>7. last \in Nat /\ (n > 0 => last * RowsPerPage < n)
  BY <1>6
<1> HIDE DEF last
<1>8. CurrentPage = IF page < last THEN page ELSE last
  BY DEF CurrentPage, last
<1>9. CurrentPage \in Nat /\ CurrentPage <= last
  BY <1>7, <1>8 DEF BenchInv
<1>10. CurrentPage * RowsPerPage <= last * RowsPerPage
  BY <1>5, <1>7, <1>9, PagesGrow
<1>11. CurrentPage * RowsPerPage \in Nat /\ last * RowsPerPage \in Nat
  BY <1>5, <1>7, <1>9
<1>12. n > 0 => CurrentPage * RowsPerPage < n
  BY <1>3, <1>7, <1>10, <1>11
<1>13. QED
  BY <1>1, <1>2, <1>3, <1>9, <1>12 DEF n

LEMMA BenchStep == BenchInv /\ [BenchNext]_benchVars => BenchInv'
<1> SUFFICES ASSUME BenchInv, [BenchNext]_benchVars PROVE BenchInv'
  OBVIOUS
<1>1. CurrentPage \in Nat
  BY PageShown
<1>2. CASE \E set \in SUBSET CatalogObjects : RowsArrive(set)
  BY <1>2 DEF RowsArrive, BenchInv
<1>3. CASE \E f \in Filters : SetFilter(f) \/ TypeQuery(f)
  BY <1>3 DEF SetFilter, TypeQuery, BenchInv
<1>4. CASE \E o \in CatalogObjects : TogglePin(o) \/ PickRow(o) \/ PickFound(o)
  BY <1>4, ReadoutsAssumption DEF TogglePin, PickRow, PickFound, BenchInv
<1>5. CASE SetPinnedOnly
  BY <1>5 DEF SetPinnedOnly, BenchInv
<1>6. CASE PreviousPage
  BY <1>1, <1>6 DEF PreviousPage, BenchInv
<1>7. CASE NextPage
  BY <1>1, <1>7 DEF NextPage, BenchInv
<1>8. CASE ToggleBench \/ OpenSearch \/ CloseSearch
  BY <1>8, ReadoutsAssumption DEF ToggleBench, OpenSearch, CloseSearch, BenchInv
<1>9. CASE UNCHANGED benchVars
  BY <1>9 DEF benchVars, BenchInv
<1>10. QED
  BY <1>2, <1>3, <1>4, <1>5, <1>6, <1>7, <1>8, <1>9 DEF BenchNext

LEMMA BenchIsTruthful == BenchInv => BenchTruthful
<1> SUFFICES ASSUME BenchInv PROVE BenchTruthful
  OBVIOUS
<1> DEFINE S == Shortlist
           n == Cardinality(S)
           c == CurrentPage
           R == RowsPerPage
           before(o) == RowsBefore(o, S)
           first == c * R
<1>1. /\ IsFiniteSet(S) /\ S \subseteq Nat /\ n \in Nat /\ c \in Nat
      /\ n > 0 => first < n
  BY PageShown
<1>2. R \in Nat /\ R > 0 /\ FoundAtMost \in Nat /\ FoundAtMost > 0
  BY ReadoutsAssumption
<1>3. PageRows = {o \in S : before(o) \div R = c}
  BY DEF PageRows
<1> HIDE DEF S
<1>4. /\ \A x \in S : before(x) \in 0..(n - 1)
      /\ \A k \in 0..(n - 1) : \E x \in S : before(x) = k
      /\ \A x, y \in S : x < y <=> before(x) < before(y)
  BY <1>1, RowsRanked
<1>5. S # {} => n > 0
  <2>1. n = 0 <=> S = {}
    BY <1>1, FS_EmptySet
  <2>2. n \in Nat
    BY <1>1
  <2> HIDE DEF n, R
  <2>3. QED
    BY <2>1, <2>2
<1>6. CanGoOn <=> (c + 1) * R < n
  BY DEF CanGoOn, S
<1> HIDE DEF c, R, n, before
<1>7. first \in Nat /\ (c + 1) * R = first + R
  BY <1>1, <1>2
<1>8. \A o \in S : o \in PageRows <=> first <= before(o) /\ before(o) < first + R
  <2> TAKE o \in S
  <2>1. before(o) \in Nat
    BY <1>1, <1>4
  <2>2. before(o) \div R = c <=> c * R <= before(o) /\ before(o) < c * R + R
    BY <1>1, <1>2, <2>1, OnPage
  <2>3. QED
    BY <1>3, <2>2
<1> HIDE DEF first
<1>9. ASSUME S # {} PROVE PageRows # {}
  <2>1. first \in 0..(n - 1)
    BY <1>1, <1>5, <1>7, <1>9
  <2>2. PICK x \in S : before(x) = first
    BY <1>4, <2>1
  <2>3. QED
    BY <1>2, <1>7, <1>8, <2>2
<1>10. Cardinality(PageRows) <= R
  <2> DEFINE T == 0..(R - 1)
             place == [o \in PageRows |-> before(o) - first]
  <2>1. IsFiniteSet(T) /\ Cardinality(T) = R
    <3>1. R - 1 \in Int /\ 0 \in Int
      BY <1>2
    <3>2. IsFiniteSet(T) /\ Cardinality(T) = IF 0 > R - 1 THEN 0 ELSE (R - 1) - 0 + 1
      BY <3>1, FS_Interval
    <3> HIDE DEF T
    <3>3. QED
      BY <1>2, <3>2
  <2>2. \A o \in PageRows : o \in S /\ before(o) \in Nat /\ before(o) - first \in T
    BY <1>1, <1>2, <1>3, <1>4, <1>7, <1>8
  <2>3. place \in [PageRows -> T]
    BY <2>2
  <2>4. \A o, p \in PageRows : place[o] = place[p] => o = p
    <3> TAKE o, p \in PageRows
    <3>1. place[o] = place[p] => before(o) = before(p)
      BY <1>7, <2>2
    <3>2. o \in Nat /\ p \in Nat /\ (o < p => before(o) < before(p)) /\ (p < o => before(p) < before(o))
      BY <1>1, <1>4, <2>2
    <3>3. QED
      BY <2>2, <3>1, <3>2
  <2> HIDE DEF place, T
  <2>5. place \in Injection(PageRows, T)
    BY <2>3, <2>4 DEF Injection, IsInjective
  <2>6. Cardinality(PageRows) <= Cardinality(T)
    BY <2>1, <2>5, FS_Injection
  <2>7. QED
    BY <2>1, <2>6
<1>11. ASSUME CanGoOn PROVE \E o \in S : \A x \in PageRows : x < o
  <2>1. first + R \in 0..(n - 1)
    BY <1>1, <1>2, <1>6, <1>7, <1>11
  <2>2. PICK o \in S : before(o) = first + R
    BY <1>4, <2>1
  <2>3. ASSUME NEW x \in PageRows PROVE x < o
    BY <1>3, <1>4, <1>8, <2>2
  <2>4. QED
    BY <2>3
<1>12. ASSUME NEW o \in S, \A x \in PageRows : x < o PROVE CanGoOn
  <2>1. before(o) \in 0..(n - 1)
    BY <1>4
  <2>2. first \in 0..(n - 1)
    BY <1>1, <1>5, <1>7
  <2>3. before(o) < first \/ before(o) >= first + R
    <3>1. o \notin PageRows
      BY <1>1, <1>12
    <3>2. QED
      BY <1>1, <1>2, <1>7, <1>8, <2>1, <3>1
  <2>4. PICK x \in S : before(x) = first
    BY <1>4, <2>2
  <2>5. x \in PageRows
    BY <1>2, <1>7, <1>8, <2>4
  <2>6. first < before(o)
    BY <1>4, <1>12, <2>4, <2>5
  <2>7. QED
    BY <1>1, <1>2, <1>6, <1>7, <2>1, <2>3, <2>6
<1>13. ASSUME rows \cap query # {} PROVE Found # {}
  <2> DEFINE Q == rows \cap query
  <2>1. Q \in SUBSET CatalogObjects /\ Q \subseteq Nat
    BY ReadoutsAssumption DEF BenchInv
  <2>2. IsFiniteSet(Q)
    BY <2>1, FS_Subset, ReadoutsAssumption
  <2>3. Found = {o \in Q : RowsBefore(o, Q) < FoundAtMost}
    BY DEF Found
  <2>4. Q # {}
    BY <1>13
  <2> HIDE DEF Q
  <2>5. Cardinality(Q) \in Nat /\ Cardinality(Q) # 0
    BY <2>2, <2>4, FS_CardinalityType, FS_EmptySet
  <2>6. \A k \in 0..(Cardinality(Q) - 1) : \E x \in Q : RowsBefore(x, Q) = k
    BY <2>1, <2>2, RowsRanked
  <2>7. PICK x \in Q : RowsBefore(x, Q) = 0
    BY <2>5, <2>6
  <2>8. QED
    BY <1>2, <2>3, <2>7
<1>14. QED
  BY <1>9, <1>10, <1>11, <1>12, <1>13 DEF BenchTruthful, S, R

-----------------------------------------------------------------------------
(* The Earth view: the list of cameras.                                     *)

\* p is the entries of seq at the positions of S: one for each, in the order of
\* the positions.
Picks(p, seq, S) ==
  /\ Cardinality(S) \in Nat /\ DOMAIN p = 1..Cardinality(S)
  /\ \A k \in DOMAIN p : \E i \in S : p[k] = seq[i]
  /\ \A i \in S : \E k \in DOMAIN p : p[k] = seq[i]
  /\ \A k, l \in DOMAIN p : k < l => \E i, j \in S : i < j /\ p[k] = seq[i] /\ p[l] = seq[j]

LEMMA PickedPicks ==
  ASSUME NEW seq, NEW n \in Nat, NEW S, S \subseteq 1..n
  PROVE  Picks(Picked(seq, S), seq, S)
<1> DEFINE c == Cardinality(S)
           p == Picked(seq, S)
           at(k) == CHOOSE i \in S : RowsBefore(i, S) = k - 1
<1>1. IsFiniteSet(S)
  <2>1. IsFiniteSet(1..n)
    BY FS_Interval
  <2>2. QED
    BY <2>1, FS_Subset
<1>2. S \subseteq Nat
  OBVIOUS
<1>3. /\ c \in Nat
      /\ \A x \in S : RowsBefore(x, S) \in 0..(c - 1)
      /\ \A k \in 0..(c - 1) : \E x \in S : RowsBefore(x, S) = k
      /\ \A x, y \in S : x < y <=> RowsBefore(x, S) < RowsBefore(y, S)
  BY <1>1, <1>2, RowsRanked
<1>4. p = [k \in 1..c |-> seq[at(k)]]
  BY DEF Picked, RowsBefore
<1>5. \A k \in 1..c : at(k) \in S /\ RowsBefore(at(k), S) = k - 1
  <2> TAKE k \in 1..c
  <2>1. k - 1 \in 0..(c - 1)
    BY <1>3
  <2>2. \E x \in S : RowsBefore(x, S) = k - 1
    BY <1>3, <2>1
  <2>3. QED
    BY <2>2
<1> HIDE DEF c, at, p
<1>6. DOMAIN p = 1..c /\ \A k \in 1..c : p[k] = seq[at(k)]
  BY <1>4
<1>7. \A i \in S : \E k \in 1..c : at(k) = i
  <2> TAKE i \in S
  <2> DEFINE k == RowsBefore(i, S) + 1
  <2>1. RowsBefore(i, S) \in 0..(c - 1)
    BY <1>3
  <2>2. k \in 1..c /\ k - 1 = RowsBefore(i, S)
    BY <1>3, <2>1
  <2>3. PICK j \in S : j = at(k) /\ RowsBefore(j, S) = RowsBefore(i, S)
    BY <1>5, <2>2
  <2>4. i \in Nat /\ j \in Nat /\ RowsBefore(i, S) \in Int
    BY <1>2, <2>1
  <2>5. (i < j <=> RowsBefore(i, S) < RowsBefore(j, S)) /\ (j < i <=> RowsBefore(j, S) < RowsBefore(i, S))
    BY <1>3, Zenon
  <2>6. i = j
    BY <2>3, <2>4, <2>5
  <2>7. QED
    BY <2>2, <2>3, <2>6
<1>8. \A k, l \in 1..c : k < l => at(k) < at(l)
  <2> TAKE k, l \in 1..c
  <2>1. PICK i \in S : i = at(k) /\ RowsBefore(i, S) = k - 1
    BY <1>5
  <2>2. PICK j \in S : j = at(l) /\ RowsBefore(j, S) = l - 1
    BY <1>5
  <2>3. i < j <=> RowsBefore(i, S) < RowsBefore(j, S)
    BY <1>3, Zenon
  <2>4. QED
    BY <1>3, <2>1, <2>2, <2>3
<1>9. \A k, l \in 1..c : k < l => \E i, j \in S : i < j /\ p[k] = seq[i] /\ p[l] = seq[j]
  BY <1>5, <1>6, <1>8
<1>10. \A i \in S : \E k \in 1..c : p[k] = seq[i]
  BY <1>6, <1>7
<1>11. \A k \in 1..c : \E i \in S : p[k] = seq[i]
  BY <1>5, <1>6
<1>12. Picks(p, seq, S)
  <2>1. c = Cardinality(S)
    BY DEF c
  <2>2. DOMAIN p = 1..c
    BY <1>6
  <2>3. Cardinality(S) \in Nat /\ DOMAIN p = 1..Cardinality(S)
    BY <1>3, <2>1, <2>2
  <2>4. \A k, l \in DOMAIN p : k < l => \E i, j \in S : i < j /\ p[k] = seq[i] /\ p[l] = seq[j]
    BY <1>9, <2>2
  <2>5. \A i \in S : \E k \in DOMAIN p : p[k] = seq[i]
    BY <1>10, <2>2, Zenon
  <2>6. \A k \in DOMAIN p : \E i \in S : p[k] = seq[i]
    BY <1>11, <2>2, Zenon
  <2>7. QED
    BY <2>3, <2>4, <2>5, <2>6, Zenon DEF Picks
<1>13. QED
  BY <1>12 DEF p

LEMMA PickedInSeq ==
  ASSUME NEW T, NEW seq \in Seq(T), NEW S, S \subseteq DOMAIN seq
  PROVE  Picked(seq, S) \in Seq(T) /\ Picks(Picked(seq, S), seq, S)
<1> DEFINE p == Picked(seq, S)
           c == Cardinality(S)
<1>1. DOMAIN seq = 1..Len(seq) /\ Len(seq) \in Nat /\ \A i \in DOMAIN seq : seq[i] \in T
  BY LenProperties
<1>2. Picks(p, seq, S)
  BY <1>1, PickedPicks
<1>3. p = [k \in 1..c |-> p[k]]
  BY DEF Picked
<1> HIDE DEF p
<1>4. c \in Nat /\ DOMAIN p = 1..c /\ \A k \in DOMAIN p : \E i \in S : p[k] = seq[i]
  BY <1>2 DEF Picks
<1>5. \A k \in 1..c : p[k] \in T
  BY <1>1, <1>4
<1>6. p = [k \in 1..c |-> p[k]]
  BY <1>3
<1> HIDE DEF c
<1>7. p \in Seq(T)
  <2>1. [k \in 1..c |-> p[k]] \in Seq(T)
    BY <1>4, <1>5
  <2>2. QED
    BY <1>6, <2>1
<1>8. QED
  BY <1>2, <1>7 DEF p

\* The rows of a feed that pass the parser are of the feed and in service.
FromFeed(published, f) == \A i \in DOMAIN published : published[i].feed = f /\ published[i].valid

LEMMA ParsedRows ==
  ASSUME NEW f \in CameraFeeds, NEW published \in Published[f]
  PROVE  ParsePublicCameras(published) \in Seq(Camera) /\ FromFeed(ParsePublicCameras(published), f)
<1> DEFINE S == {i \in DOMAIN published : published[i].valid}
           p == ParsePublicCameras(published)
<1>1. published \in Seq(Camera) /\ \A i \in DOMAIN published : published[i].feed = f
  BY CamerasAssumption
<1>2. p = Picked(published, S)
  BY DEF ParsePublicCameras
<1>3. S \subseteq DOMAIN published
  OBVIOUS
<1>4. p \in Seq(Camera) /\ Picks(p, published, S)
  <2> HIDE DEF S, p
  <2>1. QED
    BY <1>1, <1>2, <1>3, PickedInSeq
<1> HIDE DEF p
<1>5. \A k \in DOMAIN p : \E i \in S : p[k] = published[i]
  BY <1>4 DEF Picks
<1>6. FromFeed(p, f)
  BY <1>1, <1>5 DEF FromFeed
<1>7. QED
  BY <1>4, <1>6 DEF p

\* What was received: of each feed, rows of its own.
Cache(c) ==
  DOMAIN c \subseteq CameraFeeds /\ \A f \in DOMAIN c : c[f] \in Seq(Camera) /\ FromFeed(c[f], f)

\* The list as Gathered makes it, feed by feed.
WithFeed(list, c, m) == list \o Received(c, FeedOrder[m])
IsGathering(up, n, c) ==
  up = [m \in 0..n |-> IF m = 0 THEN BuiltIn ELSE WithFeed(up[m - 1], c, m)]

LEMMA GatheringExists == ASSUME NEW c PROVE \A n \in Nat : \E up : IsGathering(up, n, c)
<1> DEFINE G == {n \in Nat : \E up : IsGathering(up, n, c)}
<1>1. 0 \in G
  <2>1. IsGathering([m \in 0..0 |-> BuiltIn], 0, c)
    BY DEF IsGathering
  <2>2. QED
    BY <2>1
<1>2. ASSUME NEW n \in Nat, n \in G PROVE n + 1 \in G
  <2>1. PICK up : IsGathering(up, n, c)
    BY <1>2
  <2> DEFINE e == WithFeed(up[n], c, n + 1)
             g == [m \in 0..(n + 1) |-> IF m = n + 1 THEN e ELSE up[m]]
  <2>2. g[n + 1] = e /\ \A m \in 0..n : g[m] = up[m]
    OBVIOUS
  <2>3. \A m \in 0..n : up[m] = IF m = 0 THEN BuiltIn ELSE WithFeed(up[m - 1], c, m)
    BY <2>1, Zenon DEF IsGathering
  <2>4. DOMAIN g = 0..(n + 1) /\ g = [m \in 0..(n + 1) |-> g[m]]
    OBVIOUS
  <2> HIDE DEF g
  <2>5. \A m \in 0..(n + 1) : g[m] = IF m = 0 THEN BuiltIn ELSE WithFeed(g[m - 1], c, m)
    <3> TAKE m \in 0..(n + 1)
    <3>1. CASE m = n + 1
      BY <2>2, <3>1
    <3>2. CASE m \in 0..n
      <4>1. m # 0 => m - 1 \in 0..n
        BY <3>2
      <4>2. QED
        BY <2>2, <2>3, <3>2, <4>1
    <3>3. QED
      BY <3>1, <3>2
  <2>6. IsGathering(g, n + 1, c)
    BY <2>4, <2>5, Zenon DEF IsGathering
  <2>7. QED
    BY <2>6
<1>3. Nat \subseteq G
  <2> HIDE DEF G
  <2>1. QED
    BY <1>1, <1>2, Inductively
<1>4. QED
  BY <1>3

\* Up to the n-th feed: what was gathered before stays where it is, and each entry
\* is built in or the i-th of some feed, after all that was gathered before that.
Laid(up, n, c) ==
  /\ up[n] \in Seq(Camera)
  /\ \A m \in 0..n : up[m] \in Seq(Camera) /\ Len(up[m]) <= Len(up[n])
                       /\ \A k \in 1..Len(up[m]) : up[n][k] = up[m][k]
  /\ \A k \in 1..Len(up[n]) :
       \/ k \in 1..Len(BuiltIn) /\ up[n][k] = BuiltIn[k]
       \/ \E m \in 1..n : \E i \in DOMAIN Received(c, FeedOrder[m]) :
            k = Len(up[m - 1]) + i /\ up[n][k] = Received(c, FeedOrder[m])[i]

LEMMA ReceivedRows ==
  ASSUME NEW c, Cache(c), NEW m \in 1..Len(FeedOrder)
  PROVE  /\ FeedOrder[m] \in CameraFeeds
         /\ Received(c, FeedOrder[m]) \in Seq(Camera)
         /\ \A i \in DOMAIN Received(c, FeedOrder[m]) :
              FeedOrder[m] \in DOMAIN c /\ Received(c, FeedOrder[m]) = c[FeedOrder[m]]
<1>1. FeedOrder[m] \in CameraFeeds
  BY CamerasAssumption, ElementOfSeq
<1>2. CASE FeedOrder[m] \in DOMAIN c
  BY <1>1, <1>2 DEF Received, Cache
<1>3. CASE FeedOrder[m] \notin DOMAIN c
  <2>1. Received(c, FeedOrder[m]) = <<>>
    BY <1>3 DEF Received
  <2>2. QED
    BY <1>1, <2>1
<1>4. QED
  BY <1>2, <1>3

LEMMA GatheringLaid ==
  ASSUME NEW c, Cache(c), NEW up, IsGathering(up, Len(FeedOrder), c)
  PROVE  \A n \in 0..Len(FeedOrder) : Laid(up, n, c)
<1> DEFINE N == Len(FeedOrder)
           G == {n \in Nat : n <= N => Laid(up, n, c)}
<1>1. N \in Nat
  BY CamerasAssumption, LenProperties
<1>2. \A n \in 0..N : up[n] = IF n = 0 THEN BuiltIn ELSE WithFeed(up[n - 1], c, n)
  BY Zenon DEF IsGathering
<1> HIDE DEF N
<1>3. 0 \in G
  <2>1. up[0] = BuiltIn /\ BuiltIn \in Seq(Camera) /\ Len(BuiltIn) \in Nat
    BY <1>1, <1>2, CamerasAssumption, LenProperties
  <2>2. QED
    BY <2>1 DEF Laid
<1>4. ASSUME NEW n \in Nat, n \in G PROVE n + 1 \in G
  <2> SUFFICES ASSUME n + 1 <= N PROVE Laid(up, n + 1, c)
    OBVIOUS
  <2> DEFINE s == up[n]
             r == Received(c, FeedOrder[n + 1])
             t == up[n + 1]
  <2>1. Laid(up, n, c)
    BY <1>1, <1>4
  <2>2. n + 1 \in 1..N /\ t = s \o r
    <3>1. n + 1 \in 0..N /\ n + 1 \in 1..N /\ n + 1 # 0 /\ (n + 1) - 1 = n
      BY <1>1
    <3>2. up[n + 1] = WithFeed(up[n], c, n + 1)
      BY <1>2, <3>1
    <3>3. QED
      BY <3>1, <3>2 DEF WithFeed
  <2>3. s \in Seq(Camera) /\ r \in Seq(Camera)
    BY <2>1, <2>2, ReceivedRows DEF Laid, N
  <2>4. /\ Len(s) \in Nat /\ Len(r) \in Nat /\ DOMAIN r = 1..Len(r)
        /\ t \in Seq(Camera) /\ Len(t) = Len(s) + Len(r)
        /\ \A k \in 1..Len(s) : t[k] = s[k]
        /\ \A k \in (Len(s) + 1)..Len(t) : k - Len(s) \in 1..Len(r) /\ t[k] = r[k - Len(s)]
    <3> HIDE DEF s, r, t
    <3>1. t = s \o r
      BY <2>2
    <3>2. /\ s \o r \in Seq(Camera) /\ Len(s \o r) = Len(s) + Len(r)
          /\ \A k \in 1..(Len(s) + Len(r)) : (s \o r)[k] = IF k <= Len(s) THEN s[k] ELSE r[k - Len(s)]
      BY <2>3, ConcatProperties
    <3>3. Len(s) \in Nat /\ Len(r) \in Nat /\ DOMAIN r = 1..Len(r)
      BY <2>3, LenProperties
    <3>4. QED
      BY <3>1, <3>2, <3>3
  <2>5. ASSUME NEW m \in 0..(n + 1)
        PROVE  up[m] \in Seq(Camera) /\ Len(up[m]) <= Len(t) /\ \A k \in 1..Len(up[m]) : t[k] = up[m][k]
    <3>1. CASE m = n + 1
      <4>1. up[m] = t
        BY <3>1
      <4> HIDE DEF s, t, r
      <4>2. Len(t) <= Len(t)
        BY <2>4
      <4>3. QED
        BY <2>4, <4>1, <4>2
    <3>2. CASE m \in 0..n
      <4>1. up[m] \in Seq(Camera) /\ Len(up[m]) <= Len(s) /\ \A k \in 1..Len(up[m]) : s[k] = up[m][k]
        BY <2>1, <3>2 DEF Laid
      <4>2. Len(up[m]) \in Nat
        BY <4>1, LenProperties
      <4> HIDE DEF s, t, r
      <4>3. \A k \in 1..Len(up[m]) : t[k] = up[m][k]
        <5> TAKE k \in 1..Len(up[m])
        <5>1. k \in 1..Len(s)
          BY <2>4, <4>1, <4>2
        <5>2. t[k] = s[k] /\ s[k] = up[m][k]
          BY <2>4, <4>1, <5>1
        <5>3. QED
          BY <5>2
      <4>4. QED
        BY <2>4, <4>1, <4>2, <4>3
    <3>3. QED
      BY <3>1, <3>2
  <2>6. ASSUME NEW k \in 1..Len(t)
        PROVE  \/ k \in 1..Len(BuiltIn) /\ t[k] = BuiltIn[k]
               \/ \E m \in 1..(n + 1) : \E i \in DOMAIN Received(c, FeedOrder[m]) :
                    k = Len(up[m - 1]) + i /\ t[k] = Received(c, FeedOrder[m])[i]
    <3>1. CASE k <= Len(s)
      <4>1. k \in 1..Len(s) /\ t[k] = s[k]
        BY <2>4, <3>1
      <4>2. \/ k \in 1..Len(BuiltIn) /\ s[k] = BuiltIn[k]
            \/ \E m \in 1..n : \E i \in DOMAIN Received(c, FeedOrder[m]) :
                 k = Len(up[m - 1]) + i /\ s[k] = Received(c, FeedOrder[m])[i]
        BY <2>1, <4>1 DEF Laid
      <4>3. 1..n \subseteq 1..(n + 1)
        OBVIOUS
      <4> HIDE DEF s, t, r
      <4>4. QED
        BY <4>1, <4>2, <4>3
    <3>2. CASE ~(k <= Len(s))
      <4>1. k - Len(s) \in 1..Len(r) /\ t[k] = r[k - Len(s)]
        <5>1. k \in (Len(s) + 1)..Len(t)
          <6> HIDE DEF s, t, r
          <6>1. QED
            BY <2>4, <3>2
        <5>2. QED
          BY <2>4, <5>1
      <4>2. n + 1 \in 1..(n + 1) /\ (n + 1) - 1 = n /\ k = Len(s) + (k - Len(s))
        BY <2>4
      <4>3. QED
        BY <2>4, <4>1, <4>2
    <3>3. QED
      BY <3>1, <3>2
  <2>7. QED
    BY <2>4, <2>5, <2>6 DEF Laid
<1>5. Nat \subseteq G
  <2> HIDE DEF G
  <2>1. QED
    BY <1>3, <1>4, Inductively
<1>6. QED
  BY <1>1, <1>5 DEF N

\* What the list says of the rows that were received: they are all there, and the
\* rows of former feeds before those of a feed.
Ordered(seq, c) ==
  /\ \A q \in DOMAIN seq : seq[q] \in ToSet(BuiltIn) \/ \E f \in DOMAIN c : \E i \in DOMAIN c[f] : seq[q] = c[f][i]
  /\ \A f \in DOMAIN c : \A i \in DOMAIN c[f] : \E m \in DOMAIN seq : seq[m] = c[f][i]
  /\ \A q \in DOMAIN seq :
       \/ seq[q] \in ToSet(BuiltIn)
       \/ \A g \in DOMAIN c : Rank(g) < Rank(seq[q].feed) =>
            \A k \in DOMAIN c[g] : \E m \in 1..(q - 1) : seq[m] = c[g][k]

LEMMA RankOf == \A m \in 1..Len(FeedOrder) : Rank(FeedOrder[m]) = m
<1>1. DOMAIN FeedOrder = 1..Len(FeedOrder)
  BY CamerasAssumption, LenProperties
<1> TAKE m \in 1..Len(FeedOrder)
<1>2. \A i \in DOMAIN FeedOrder : FeedOrder[i] = FeedOrder[m] => i = m
  BY <1>1, CamerasAssumption
<1>3. QED
  BY <1>1, <1>2 DEF Rank

LEMMA FeedOfRank == ASSUME NEW f \in CameraFeeds PROVE Rank(f) \in 1..Len(FeedOrder) /\ FeedOrder[Rank(f)] = f
<1>1. DOMAIN FeedOrder = 1..Len(FeedOrder)
  BY CamerasAssumption, LenProperties
<1>2. \E i \in DOMAIN FeedOrder : FeedOrder[i] = f
  BY DEF CameraFeeds, ToSet
<1>3. QED
  BY <1>1, <1>2 DEF Rank

LEMMA GatheredOrdered ==
  ASSUME NEW c, Cache(c)
  PROVE  Gathered(c) \in Seq(Camera) /\ Ordered(Gathered(c), c)
<1> DEFINE N == Len(FeedOrder)
           up == CHOOSE u : IsGathering(u, N, c)
           seq == up[N]
           row(m) == Received(c, FeedOrder[m])
<1>1. N \in Nat /\ Len(BuiltIn) \in Nat /\ DOMAIN BuiltIn = 1..Len(BuiltIn)
  BY CamerasAssumption, LenProperties
<1>2. IsGathering(up, N, c)
  BY <1>1, GatheringExists
<1>3. Gathered(c) = seq
  BY DEF Gathered, IsGathering, WithFeed
<1> HIDE DEF up
<1>4. \A n \in 0..N : Laid(up, n, c)
  BY <1>2, GatheringLaid
<1>5. seq \in Seq(Camera) /\ DOMAIN seq = 1..Len(seq) /\ Len(seq) \in Nat
  <2>1. seq \in Seq(Camera)
    BY <1>1, <1>4 DEF Laid
  <2> HIDE DEF seq
  <2>2. QED
    BY <2>1, LenProperties
<1>6. ASSUME NEW q \in DOMAIN seq
      PROVE  \/ seq[q] \in ToSet(BuiltIn)
             \/ \E m \in 1..N : \E i \in DOMAIN row(m) : q = Len(up[m - 1]) + i /\ seq[q] = row(m)[i]
  <2>1. Laid(up, N, c) /\ q \in 1..Len(up[N])
    BY <1>1, <1>4, <1>5
  <2>2. \/ q \in 1..Len(BuiltIn) /\ up[N][q] = BuiltIn[q]
        \/ \E m \in 1..N : \E i \in DOMAIN row(m) : q = Len(up[m - 1]) + i /\ up[N][q] = row(m)[i]
    BY <2>1 DEF Laid
  <2>3. QED
    BY <1>1, <2>2 DEF ToSet
<1>7. ASSUME NEW m \in 1..N, NEW i \in DOMAIN row(m)
      PROVE  /\ Len(up[m - 1]) \in Nat /\ Len(up[m]) \in Nat /\ Len(up[m]) <= Len(seq)
             /\ i \in Nat /\ i > 0 /\ Len(up[m - 1]) + i <= Len(up[m])
             /\ seq[Len(up[m - 1]) + i] = row(m)[i]
  <2>1. m - 1 \in 0..N /\ m \in 0..N /\ m - 1 \in 0..m /\ N \in 0..N
    BY <1>1
  <2>2. up[m - 1] \in Seq(Camera) /\ up[m] \in Seq(Camera) /\ row(m) \in Seq(Camera)
    BY <1>4, <2>1, ReceivedRows DEF Laid
  <2>3. Len(up[m - 1]) \in Nat /\ Len(up[m]) \in Nat /\ DOMAIN row(m) = 1..Len(row(m)) /\ Len(row(m)) \in Nat
    BY <2>2, LenProperties
  <2>4. up[m] = up[m - 1] \o row(m)
    <3>1. \A n \in 0..N : up[n] = IF n = 0 THEN BuiltIn ELSE WithFeed(up[n - 1], c, n)
      BY <1>2, Zenon DEF IsGathering
    <3>2. m # 0
      BY <1>1
    <3>3. up[m] = WithFeed(up[m - 1], c, m)
      BY <2>1, <3>1, <3>2
    <3>4. QED
      BY <3>3 DEF WithFeed
  <2>5. Len(up[m]) <= Len(seq) /\ \A k \in 1..Len(up[m]) : seq[k] = up[m][k]
    <3>1. Laid(up, N, c)
      BY <1>4, <2>1
    <3>2. QED
      BY <2>1, <3>1 DEF Laid
  <2> DEFINE a == up[m - 1]
             b == row(m)
             d == up[m]
  <2>6. a \in Seq(Camera) /\ b \in Seq(Camera) /\ d = a \o b /\ Len(a) \in Nat /\ Len(d) \in Nat
        /\ i \in 1..Len(b) /\ Len(b) \in Nat
        /\ Len(d) <= Len(seq) /\ \A k \in 1..Len(d) : seq[k] = d[k]
    BY <2>2, <2>3, <2>4, <2>5
  <2> HIDE DEF a, b, d, seq
  <2>7. Len(a \o b) = Len(a) + Len(b)
        /\ \A k \in 1..(Len(a) + Len(b)) : (a \o b)[k] = IF k <= Len(a) THEN a[k] ELSE b[k - Len(a)]
    BY <2>6, ConcatProperties
  <2>8. Len(a) + i \in 1..(Len(a) + Len(b)) /\ ~(Len(a) + i <= Len(a)) /\ (Len(a) + i) - Len(a) = i
    BY <2>6
  <2>9. d[Len(a) + i] = b[i] /\ Len(a) + i \in 1..Len(d)
    BY <2>6, <2>7, <2>8
  <2>10. i > 0 /\ i \in Nat /\ Len(a) + i <= Len(d) /\ seq[Len(a) + i] = b[i]
    BY <2>6, <2>9
  <2>11. QED
    BY <2>6, <2>10 DEF a, b, d
<1>8. ASSUME NEW m \in 1..N, NEW n \in 1..N, m < n
      PROVE  Len(up[m]) <= Len(up[n - 1])
  <2>1. n - 1 \in 0..N /\ m \in 0..(n - 1)
    BY <1>1, <1>8
  <2>2. Laid(up, n - 1, c)
    BY <1>4, <2>1
  <2>3. QED
    BY <2>1, <2>2 DEF Laid
<1> HIDE DEF seq, row, N
<1>9. ASSUME NEW m \in 1..N, NEW i \in DOMAIN row(m)
      PROVE  FeedOrder[m] \in DOMAIN c /\ row(m) = c[FeedOrder[m]] /\ row(m)[i].feed = FeedOrder[m]
  <2>1. FeedOrder[m] \in DOMAIN c /\ row(m) = c[FeedOrder[m]]
    BY <1>9, ReceivedRows DEF N, row
  <2>2. FromFeed(row(m), FeedOrder[m])
    BY <2>1 DEF Cache
  <2>3. QED
    BY <2>1, <2>2 DEF FromFeed
<1>10. ASSUME NEW f \in DOMAIN c
       PROVE  Rank(f) \in 1..N /\ FeedOrder[Rank(f)] = f /\ row(Rank(f)) = c[f]
  <2>1. f \in CameraFeeds
    BY DEF Cache
  <2>2. Rank(f) \in 1..N /\ FeedOrder[Rank(f)] = f
    BY <2>1, FeedOfRank DEF N
  <2>3. QED
    BY <2>2 DEF row, Received
<1>11. ASSUME NEW f \in DOMAIN c, NEW i \in DOMAIN c[f] PROVE \E m \in DOMAIN seq : seq[m] = c[f][i]
  <2> DEFINE r == Rank(f)
  <2>1. r \in 1..N /\ row(r) = c[f]
    BY <1>10
  <2> HIDE DEF r
  <2>2. i \in DOMAIN row(r)
    BY <2>1
  <2>3. Len(up[r - 1]) + i \in DOMAIN seq /\ seq[Len(up[r - 1]) + i] = row(r)[i]
    BY <1>5, <1>7, <2>1, <2>2
  <2>4. QED
    BY <2>1, <2>3
<1>12. ASSUME NEW q \in DOMAIN seq, seq[q] \notin ToSet(BuiltIn),
              NEW g \in DOMAIN c, Rank(g) < Rank(seq[q].feed), NEW k \in DOMAIN c[g]
       PROVE  \E m \in 1..(q - 1) : seq[m] = c[g][k]
  <2>1. PICK n \in 1..N : \E i \in DOMAIN row(n) : q = Len(up[n - 1]) + i /\ seq[q] = row(n)[i]
    BY <1>6, <1>12
  <2>2. PICK i \in DOMAIN row(n) : q = Len(up[n - 1]) + i /\ seq[q] = row(n)[i]
    BY <2>1
  <2>3. seq[q].feed = FeedOrder[n]
    BY <1>9, <2>2
  <2>4. Rank(seq[q].feed) = n
    BY <2>3, RankOf DEF N
  <2> DEFINE r == Rank(g)
  <2>5. r \in 1..N /\ row(r) = c[g] /\ r < n
    BY <1>10, <1>12, <2>4
  <2> HIDE DEF r
  <2>6. k \in DOMAIN row(r)
    BY <2>5
  <2> DEFINE a == Len(up[r - 1])
             b == Len(up[r])
             d == Len(up[n - 1])
  <2>7. a \in Nat /\ b \in Nat /\ k \in Nat /\ k > 0 /\ a + k <= b /\ seq[a + k] = row(r)[k]
    BY <1>7, <2>5, <2>6
  <2>8. d \in Nat /\ i \in Nat /\ i > 0 /\ q = d + i
    BY <1>7, <2>2
  <2>9. b <= d
    BY <1>8, <2>5
  <2> HIDE DEF a, b, d
  <2>10. a + k \in 1..(q - 1)
    BY <2>7, <2>8, <2>9
  <2>11. QED
    BY <2>5, <2>7, <2>10
<1>13. ASSUME NEW q \in DOMAIN seq, seq[q] \notin ToSet(BuiltIn)
       PROVE  \E f \in DOMAIN c : \E i \in DOMAIN c[f] : seq[q] = c[f][i]
  <2>1. PICK n \in 1..N : \E i \in DOMAIN row(n) : q = Len(up[n - 1]) + i /\ seq[q] = row(n)[i]
    BY <1>6, <1>13
  <2>2. QED
    BY <1>9, <2>1
<1>14. Ordered(seq, c)
  BY <1>11, <1>12, <1>13 DEF Ordered
<1>15. QED
  BY <1>3, <1>5, <1>14

LEMMA HasLeast == ASSUME NEW S, S \subseteq Nat, S # {} PROVE \E m \in S : \A x \in S : m <= x
<1>1. PICK t \in S : \A u \in S : ~ (<<u, t>> \in OpToRel(<, Nat))
  BY WFMin, NatLessThanWellFounded
<1>2. \A u \in S : ~(u < t)
  BY <1>1 DEF OpToRel
<1>3. QED
  BY <1>2

\* The first of each image, and so in the order of the feeds.
LEMMA MergedInOrder ==
  ASSUME NEW c, Cache(c), NEW list, list = MergeCameraFeeds(Gathered(c))
  PROVE  /\ \A i \in DOMAIN list : list[i].valid
         /\ \A f \in DOMAIN c : \A i \in DOMAIN c[f] :
              \E j \in DOMAIN list :
                /\ list[j].image = c[f][i].image
                /\ \/ list[j] \in ToSet(BuiltIn)
                   \/ \A g \in DOMAIN c :
                        Rank(g) < Rank(list[j].feed) => \A k \in DOMAIN c[g] : c[g][k].image # list[j].image
         /\ \A i, j \in DOMAIN list : list[i].image = list[j].image => i = j
<1> DEFINE seq == Gathered(c)
           S == {i \in DOMAIN seq : \A j \in 1..(i - 1) : seq[j].image # seq[i].image}
<1>1. seq \in Seq(Camera) /\ Ordered(seq, c)
  BY GatheredOrdered
<1>2. list = Picked(seq, S)
  BY DEF MergeCameraFeeds
<1>3. S \subseteq DOMAIN seq /\ \A i \in S : \A j \in 1..(i - 1) : seq[j].image # seq[i].image
  OBVIOUS
<1>4. \A i \in DOMAIN seq : (\A j \in 1..(i - 1) : seq[j].image # seq[i].image) => i \in S
  OBVIOUS
<1> HIDE DEF seq, S
<1>5. Picks(list, seq, S)
  BY <1>1, <1>2, <1>3, PickedInSeq
<1>6. DOMAIN seq = 1..Len(seq) /\ Len(seq) \in Nat
  BY <1>1, LenProperties
<1>7. ASSUME NEW i \in DOMAIN list PROVE list[i].valid
  <2>1. PICK q \in S : list[i] = seq[q]
    BY <1>5 DEF Picks
  <2>2. q \in DOMAIN seq
    BY <1>3
  <2>3. seq[q] \in ToSet(BuiltIn) \/ \E f \in DOMAIN c : \E k \in DOMAIN c[f] : seq[q] = c[f][k]
    BY <1>1, <2>2 DEF Ordered
  <2>4. CASE seq[q] \in ToSet(BuiltIn)
    BY <2>1, <2>4, CamerasAssumption DEF ToSet
  <2>5. CASE \E f \in DOMAIN c : \E k \in DOMAIN c[f] : seq[q] = c[f][k]
    BY <2>1, <2>5 DEF Cache, FromFeed
  <2>6. QED
    BY <2>3, <2>4, <2>5
<1>8. ASSUME NEW f \in DOMAIN c, NEW i \in DOMAIN c[f]
      PROVE  \E j \in DOMAIN list :
                /\ list[j].image = c[f][i].image
                /\ \/ list[j] \in ToSet(BuiltIn)
                   \/ \A g \in DOMAIN c :
                        Rank(g) < Rank(list[j].feed) => \A k \in DOMAIN c[g] : c[g][k].image # list[j].image
  <2> DEFINE T == {q \in DOMAIN seq : seq[q].image = c[f][i].image}
  <2>1. T \subseteq Nat /\ T # {}
    <3>1. PICK m \in DOMAIN seq : seq[m] = c[f][i]
      BY <1>1 DEF Ordered
    <3>2. m \in T
      BY <3>1
    <3>3. QED
      BY <1>6, <3>2
  <2>2. PICK q \in T : \A x \in T : q <= x
    <3> HIDE DEF T
    <3>1. QED
      BY <2>1, HasLeast
  <2>3. \A j \in 1..(q - 1) : seq[j].image # seq[q].image
    <3> TAKE j \in 1..(q - 1)
    <3>1. j \in DOMAIN seq /\ ~(q <= j)
      BY <1>6
    <3>2. QED
      BY <2>2, <3>1
  <2>4. q \in S
    BY <1>4, <2>3
  <2>5. PICK k \in DOMAIN list : list[k] = seq[q]
    BY <1>5, <2>4 DEF Picks
  <2>6. list[k].image = c[f][i].image
    BY <2>5
  <2>7. ASSUME list[k] \notin ToSet(BuiltIn), NEW g \in DOMAIN c, Rank(g) < Rank(list[k].feed), NEW l \in DOMAIN c[g]
        PROVE  c[g][l].image # list[k].image
    <3>1. q \in DOMAIN seq /\ seq[q] \notin ToSet(BuiltIn) /\ Rank(g) < Rank(seq[q].feed)
      BY <2>5, <2>7
    <3>2. \E m \in 1..(q - 1) : seq[m] = c[g][l]
      BY <1>1, <2>7, <3>1 DEF Ordered
    <3>3. QED
      BY <2>3, <2>5, <3>2
  <2>8. QED
    BY <2>6, <2>7
<1>9. ASSUME NEW i \in DOMAIN list, NEW j \in DOMAIN list, list[i].image = list[j].image, i < j PROVE FALSE
  <2>1. PICK p, q \in S : p < q /\ list[i] = seq[p] /\ list[j] = seq[q]
    BY <1>5, <1>9 DEF Picks
  <2>2. p \in 1..(q - 1)
    BY <1>3, <1>6, <2>1
  <2>3. seq[p].image # seq[q].image
    BY <1>3, <2>2
  <2>4. QED
    BY <1>9, <2>1, <2>3
<1>10. \A i, j \in DOMAIN list : list[i].image = list[j].image => i = j
  <2> TAKE i, j \in DOMAIN list
  <2>1. i \in Int /\ j \in Int
    BY <1>5 DEF Picks
  <2>2. list[i].image = list[j].image => ~(i < j) /\ ~(j < i)
    BY <1>9
  <2>3. QED
    BY <2>1, <2>2
<1>11. QED
  BY <1>7, <1>8, <1>10

-----------------------------------------------------------------------------
(* The Earth view: the invariant.                                           *)

CameraInv ==
  /\ Cache(cached) /\ (awaited # {} => cameraPoll = "asking") /\ awaited \subseteq CameraFeeds
  /\ cameraPoll = "waiting" => cameras = MergeCameraFeeds(Gathered(cached))

\* A player, or the import it waits for, is of the element that is mounted.
MediaInv ==
  /\ DOMAIN media = {"of", "snapshot", "videoError", "imageError"}
  /\ PlayersBelong
  /\ hlsImporting # NoCamera => hlsImporting = media.of /\ PlaysStream(media) /\ players = {}

MapInv ==
  /\ layers \in Seq(Layers \cup {"base", "streets"})
  /\ StreetsOnTop

EarthInv == CameraInv /\ MediaInv /\ MapInv

LEMMA CamerasOrdered == CameraInv => CamerasInOrder
<1> SUFFICES ASSUME CameraInv, cameraPoll = "waiting" PROVE CamerasInOrder
  BY DEF CamerasInOrder
<1>1. Cache(cached) /\ cameras = MergeCameraFeeds(Gathered(cached))
  BY DEF CameraInv
<1>2. QED
  BY <1>1, MergedInOrder DEF CamerasInOrder

LEMMA EarthStart == EarthInit => EarthInv
<1> SUFFICES ASSUME EarthInit PROVE EarthInv
  OBVIOUS
<1>1. CameraInv
  BY DEF EarthInit, CameraInv, Cache, Nothing
<1>2. MediaInv
  BY DEF EarthInit, MediaInv, PlayersBelong, Idle
<1>3. MapInv
  BY DEF EarthInit, MapInv, StreetsOnTop
<1>4. QED
  BY <1>1, <1>2, <1>3 DEF EarthInv

LEMMA NetworksKeep == CameraInv /\ NetworksNext => CameraInv'
<1> SUFFICES ASSUME CameraInv, NetworksNext PROVE CameraInv'
  OBVIOUS
<1>1. CASE CamerasEffect
  BY <1>1 DEF CamerasEffect, CameraInv, Cache, Nothing
<1>2. CASE PollEnds
  BY <1>2 DEF PollEnds, CameraInv
<1>3. CASE CamerasPoll
  BY <1>3 DEF CamerasPoll, CameraInv
<1>4. CASE LatePollEnds
  BY <1>4 DEF LatePollEnds, CameraInv
<1>5. CASE ToggleCameras
  BY <1>5 DEF ToggleCameras, CameraInv
<1>6. ASSUME NEW f \in CameraFeeds, NetworkFails(f) PROVE CameraInv'
  BY <1>6 DEF NetworkFails, CameraInv
<1>7. ASSUME NEW f \in CameraFeeds, NEW published \in Published[f], NetworkAnswers(f, published) PROVE CameraInv'
  <2>1. cameraPoll' = cameraPoll /\ cameraPoll = "asking" /\ awaited' \subseteq awaited
    BY <1>7 DEF NetworkAnswers, CameraInv
  <2>2. Cache(cached)'
    <3> DEFINE p == ParsePublicCameras(published)
    <3>1. p \in Seq(Camera) /\ FromFeed(p, f)
      BY ParsedRows
    <3> HIDE DEF p
    <3>2. cached' = [g \in DOMAIN cached \cup {f} |-> IF g = f THEN p ELSE cached[g]]
      BY <1>7 DEF NetworkAnswers, p
    <3>3. Cache(cached)
      BY DEF CameraInv
    <3>4. QED
      BY <3>1, <3>2, <3>3 DEF Cache
  <2>3. QED
    BY <2>1, <2>2 DEF CameraInv
<1>8. QED
  BY <1>1, <1>2, <1>3, <1>4, <1>5, <1>6, <1>7 DEF NetworksNext

LEMMA MediaKeeps == MediaInv /\ MediaNext => MediaInv'
<1> SUFFICES ASSUME MediaInv, MediaNext PROVE MediaInv'
  OBVIOUS
<1>1. ASSUME NEW m, NEW remounted \in BOOLEAN, MediaBecomes(m, remounted),
             DOMAIN m = {"of", "snapshot", "videoError", "imageError"}, remounted \/ m.of = media.of
      PROVE  MediaInv'
  <2>1. players \ {media.of} = {}
    BY DEF MediaInv, PlayersBelong
  <2>2. CASE PlaysStream(media) /\ PlaysStream(m) /\ ~remounted
    BY <1>1, <2>2 DEF MediaBecomes, MediaInv, PlayersBelong, PlaysStream, ShowsVideo
  <2>3. CASE ~(PlaysStream(media) /\ PlaysStream(m) /\ ~remounted)
    <3>1. media' = m /\ players' = {} /\ hlsImporting' = IF PlaysStream(m) THEN m.of ELSE NoCamera
      BY <1>1, <2>1, <2>3 DEF MediaBecomes
    <3>2. PlaysStream(media)' = PlaysStream(m)
      BY <3>1 DEF PlaysStream, ShowsVideo
    <3>3. QED
      BY <1>1, <3>1, <3>2 DEF MediaInv, PlayersBelong
  <2>4. QED
    BY <2>2, <2>3
<1>2. CASE MediaMounts
  BY <1>1, <1>2 DEF MediaMounts, Idle
<1>3. CASE LateImportResolves
  BY <1>3 DEF LateImportResolves, AfterLateImport, MediaInv, PlayersBelong, PlaysStream, ShowsVideo
<1>4. CASE FatalStreamError
  BY <1>1, <1>4 DEF FatalStreamError, MediaInv
<1>5. CASE ImageError
  BY <1>5 DEF ImageError, MediaInv, PlayersBelong, PlaysStream, ShowsVideo
<1>6. CASE MediaMinute
  BY <1>6 DEF MediaMinute, MediaInv, PlayersBelong, PlaysStream, ShowsVideo
<1>7. CASE RetryMedia
  BY <1>1, <1>7 DEF RetryMedia, MediaInv
<1>8. ASSUME NEW b \in BOOLEAN, ImportResolves(b) PROVE MediaInv'
  BY <1>8 DEF ImportResolves, MediaInv, PlayersBelong, PlaysStream, ShowsVideo
<1>9. ASSUME NEW b \in BOOLEAN, ChooseSnapshot(b) PROVE MediaInv'
  BY <1>1, <1>9 DEF ChooseSnapshot, MediaInv
<1>10. QED
  BY <1>2, <1>3, <1>4, <1>5, <1>6, <1>7, <1>8, <1>9 DEF MediaNext

LEMMA RaisedOnTop ==
  ASSUME NEW T, NEW seq \in Seq(T), NEW l \in T
  PROVE  RaiseToTop(seq, l) \in Seq(T) /\ Last(RaiseToTop(seq, l)) = l
<1> DEFINE S == {i \in DOMAIN seq : seq[i] # l}
           p == Picked(seq, S)
<1>1. p \in Seq(T)
  <2>1. S \subseteq DOMAIN seq
    OBVIOUS
  <2> HIDE DEF S
  <2>2. QED
    BY <2>1, PickedInSeq
<1>2. RaiseToTop(seq, l) = Append(p, l)
  BY DEF RaiseToTop
<1> HIDE DEF p
<1>3. /\ Append(p, l) \in Seq(T) /\ Len(Append(p, l)) = Len(p) + 1
      /\ Append(p, l)[Len(p) + 1] = l
  BY <1>1, AppendProperties
<1>4. QED
  BY <1>2, <1>3 DEF Last

LEMMA MapKeeps == MapInv /\ MapNext => MapInv'
<1> DEFINE T == Layers \cup {"base", "streets"}
<1> SUFFICES ASSUME MapInv, MapNext PROVE MapInv'
  OBVIOUS
<1>1. layers \in Seq(T) /\ "streets" \in T /\ StreetsOnTop
  BY DEF MapInv
<1>2. ASSUME NEW style \in {"imagery", "streets"}, ChooseMap(style) PROVE MapInv'
  <2>1. streets' = IF style = "streets" THEN "shown" ELSE IF streets = "none" THEN "none" ELSE "hidden"
    BY <1>2 DEF ChooseMap, UpdateMap
  <2>2. layers' = IF style = "streets" THEN RaiseToTop(layers, "streets") ELSE layers
    BY <1>2 DEF ChooseMap, UpdateMap, Raised
  <2> HIDE DEF T
  <2>3. CASE style = "streets"
    <3>1. layers' \in Seq(T) /\ Last(layers') = "streets"
      BY <1>1, <2>2, <2>3, RaisedOnTop
    <3>2. QED
      BY <3>1 DEF MapInv, StreetsOnTop, T
  <2>4. CASE style # "streets"
    BY <1>1, <2>1, <2>2, <2>4 DEF MapInv, StreetsOnTop, T
  <2>5. QED
    BY <2>3, <2>4
<1>3. ASSUME NEW l \in Layers, LayerAdded(l) PROVE MapInv'
  <2> DEFINE a == Append(layers, l)
  <2>1. a \in Seq(T)
    <3>1. l \in T
      OBVIOUS
    <3> HIDE DEF T
    <3>2. QED
      BY <1>1, <3>1, AppendProperties
  <2>2. layers' = (IF streets = "shown" THEN RaiseToTop(a, "streets") ELSE a) /\ streets' = streets
    BY <1>3 DEF LayerAdded, Raised
  <2> HIDE DEF a, T
  <2>3. CASE streets = "shown"
    <3>1. layers' \in Seq(T) /\ Last(layers') = "streets"
      BY <1>1, <2>1, <2>2, <2>3, RaisedOnTop
    <3>2. QED
      BY <3>1 DEF MapInv, StreetsOnTop, T
  <2>4. CASE streets # "shown"
    BY <2>1, <2>2, <2>4 DEF MapInv, StreetsOnTop, T
  <2>5. QED
    BY <2>3, <2>4
<1>4. ASSUME UNCHANGED mapVars PROVE MapInv'
  BY <1>4 DEF MapInv, StreetsOnTop, mapVars
<1>5. QED
  BY <1>2, <1>3, <1>4 DEF MapNext, SubmitSearch, SearchAnswers

LEMMA EarthStep == EarthInv /\ [EarthNext]_earthVars => EarthInv'
<1> SUFFICES ASSUME EarthInv, [EarthNext]_earthVars PROVE EarthInv'
  OBVIOUS
<1>1. ASSUME UNCHANGED <<cached, awaited, cameraPoll, cameras>> PROVE CameraInv'
  BY <1>1 DEF EarthInv, CameraInv
<1>2. ASSUME UNCHANGED mediaVars PROVE MediaInv'
  BY <1>2 DEF EarthInv, mediaVars, MediaInv, PlayersBelong, PlaysStream, ShowsVideo
<1>3. ASSUME UNCHANGED mapVars PROVE MapInv'
  BY <1>3 DEF EarthInv, mapVars, MapInv, StreetsOnTop
<1>4. CASE NetworksNext
  <2>1. UNCHANGED <<mediaVars, mapVars>>
    BY <1>4 DEF NetworksNext, CamerasEffect, PollEnds, CamerasPoll, LatePollEnds, ToggleCameras, NetworkFails, NetworkAnswers
  <2>2. QED
    BY <1>2, <1>3, <1>4, <2>1, NetworksKeep DEF EarthInv
<1>5. CASE ChoicesNext
  <2>1. UNCHANGED <<pollVars, mediaVars, mapVars>>
    BY <1>5 DEF ChoicesNext, SelectionEffect, ChooseNetwork, ChooseCamera
  <2>2. QED
    BY <1>1, <1>2, <1>3, <2>1 DEF EarthInv, pollVars
<1>6. CASE MediaNext
  <2>1. UNCHANGED <<pollVars, mapVars>>
    BY <1>6 DEF MediaNext, MediaMounts, LateImportResolves, FatalStreamError, ImageError, MediaMinute, RetryMedia,
                ImportResolves, ChooseSnapshot
  <2>2. QED
    BY <1>1, <1>3, <1>6, <2>1, MediaKeeps DEF EarthInv, pollVars
<1>7. CASE MapNext
  <2>1. UNCHANGED <<pollVars, mediaVars>>
    BY <1>7 DEF MapNext, ChooseMap, LayerAdded, SubmitSearch, SearchAnswers
  <2>2. QED
    BY <1>1, <1>2, <1>7, <2>1, MapKeeps DEF EarthInv, pollVars
<1>8. CASE UNCHANGED earthVars
  BY <1>1, <1>2, <1>3, <1>8 DEF EarthInv, earthVars, pollVars
<1>9. QED
  BY <1>4, <1>5, <1>6, <1>7, <1>8 DEF EarthNext

-----------------------------------------------------------------------------
(* The aerospace view: sequences of observations.                           *)

LEMMA TrackingNumbers ==
  /\ FreshFor \in Nat /\ HiddenAfter \in Nat /\ KeptFor \in Nat /\ KeptSamples \in Nat /\ KeptSamples > 0
  /\ HiddenAfter < KeptFor /\ Old = KeptFor + 1 /\ Old \in Nat
  BY TrackingAssumption DEF Old

\* What is observed has an age, and growing older changes nothing else.
Dated(E) == \A e \in E : e.age \in 0..Old /\ AgedObs(e) \in E /\ AgedObs(e).age = Older(e.age)

Sightings(r) == [id : Planes \cup {"p1"}, age : 0..Old, region : {r}]
Positions(m) == [vehicle : Vehicles, age : 0..Old, mission : {m}]

LEMMA OlderIsAge == \A a \in 0..Old : Older(a) \in 0..Old
  BY TrackingNumbers DEF Older

LEMMA SightingsAge == \A r : Dated(Sightings(r))
<1> SUFFICES ASSUME NEW r, NEW e \in Sightings(r)
             PROVE  e.age \in 0..Old /\ AgedObs(e) \in Sightings(r) /\ AgedObs(e).age = Older(e.age)
  BY DEF Dated
<1>1. /\ e = [id |-> e.id, age |-> e.age, region |-> e.region]
      /\ e.id \in Planes \cup {"p1"} /\ e.age \in 0..Old /\ e.region = r
  BY DEF Sightings
<1>2. AgedObs(e) = [id |-> e.id, age |-> Older(e.age), region |-> e.region]
  BY <1>1 DEF AgedObs
<1>3. QED
  BY <1>1, <1>2, OlderIsAge DEF Sightings

LEMMA PositionsAge == \A m : Dated(Positions(m))
<1> SUFFICES ASSUME NEW m, NEW e \in Positions(m)
             PROVE  e.age \in 0..Old /\ AgedObs(e) \in Positions(m) /\ AgedObs(e).age = Older(e.age)
  BY DEF Dated
<1>1. /\ e = [vehicle |-> e.vehicle, age |-> e.age, mission |-> e.mission]
      /\ e.vehicle \in Vehicles /\ e.age \in 0..Old /\ e.mission = m
  BY DEF Positions
<1>2. AgedObs(e) = [vehicle |-> e.vehicle, age |-> Older(e.age), mission |-> e.mission]
  BY <1>1 DEF AgedObs
<1>3. QED
  BY <1>1, <1>2, OlderIsAge DEF Positions

\* A track or a trail: not empty, in the order of observation.
GoodTrack(t, E) == t \in Seq(E) /\ t # <<>> /\ Forward(t)
Gapless(t)   == \A i \in 1..(Len(t) - 1) : t[i].age - t[i + 1].age <= HiddenAfter

LEMMA EmptyTrack == ASSUME NEW E PROVE <<>> \in Seq(E) /\ Forward(<<>>) /\ Gapless(<<>>)
<1>1. <<>> \in Seq(E) /\ Len(<<>>) = 0
  BY EmptySeq
<1> DEFINE t == <<>>
<1>2. t \in Seq(E) /\ Len(t) = 0
  BY <1>1
<1> HIDE DEF t
<1>3. DOMAIN t = 1..0
  BY <1>2, LenProperties
<1>4. Forward(t) /\ Gapless(t)
  BY <1>2, <1>3 DEF Forward, Gapless
<1>5. QED
  BY <1>1, <1>4 DEF t

\* u is the end of t.
EndOf(u, t) == \E d \in Nat : Len(t) = Len(u) + d /\ \A i \in 1..Len(u) : u[i] = t[i + d]

LEMMA EndKept ==
  ASSUME NEW E, NEW t \in Seq(E), NEW u \in Seq(E), EndOf(u, t)
  PROVE  (Forward(t) => Forward(u)) /\ (Gapless(t) => Gapless(u))
<1>1. Len(t) \in Nat /\ Len(u) \in Nat /\ DOMAIN t = 1..Len(t) /\ DOMAIN u = 1..Len(u)
  BY LenProperties
<1>2. PICK d \in Nat : Len(t) = Len(u) + d /\ \A i \in 1..Len(u) : u[i] = t[i + d]
  BY DEF EndOf
<1>3. ASSUME Forward(t) PROVE Forward(u)
  <2> SUFFICES ASSUME NEW i \in DOMAIN u, NEW j \in DOMAIN u, i < j PROVE u[i].age > u[j].age \/ u[i].age = Old
    BY DEF Forward
  <2>1. i + d \in DOMAIN t /\ j + d \in DOMAIN t /\ i + d < j + d
    BY <1>1, <1>2
  <2>2. t[i + d].age > t[j + d].age \/ t[i + d].age = Old
    BY <1>3, <2>1 DEF Forward
  <2>3. QED
    BY <1>1, <1>2, <2>2
<1>4. ASSUME Gapless(t) PROVE Gapless(u)
  <2> SUFFICES ASSUME NEW i \in 1..(Len(u) - 1) PROVE u[i].age - u[i + 1].age <= HiddenAfter
    BY DEF Gapless
  <2> DEFINE a == Len(t)
             b == Len(u)
  <2>0. a \in Nat /\ b \in Nat /\ a = b + d /\ i \in 1..(b - 1)
    BY <1>1, <1>2
  <2> HIDE DEF a, b
  <2>9. i + d \in 1..(a - 1) /\ i \in 1..b /\ i + 1 \in 1..b /\ (i + 1) + d = (i + d) + 1
    BY <2>0
  <2>1. i + d \in 1..(Len(t) - 1) /\ i \in 1..Len(u) /\ i + 1 \in 1..Len(u) /\ (i + 1) + d = (i + d) + 1
    BY <2>9 DEF a, b
  <2>2. t[i + d].age - t[(i + d) + 1].age <= HiddenAfter
    BY <1>4, <2>1 DEF Gapless
  <2>3. QED
    BY <1>2, <2>1, <2>2
<1>5. QED
  BY <1>3, <1>4

LEMMA LastOf ==
  ASSUME NEW E, NEW t \in Seq(E), t # <<>>
  PROVE  Len(t) \in Nat /\ Len(t) > 0 /\ Len(t) \in DOMAIN t /\ DOMAIN t = 1..Len(t) /\ Last(t) = t[Len(t)] /\ Last(t) \in E
<1>1. Len(t) \in Nat /\ DOMAIN t = 1..Len(t)
  BY LenProperties
<1>2. Len(t) # 0
  BY EmptySeq
<1>3. t[Len(t)] \in E
  BY <1>1, <1>2, ElementOfSeq
<1>4. QED
  BY <1>1, <1>2, <1>3 DEF Last

\* Trimming leaves the end of a sequence that has a recent observation.
LEMMA TrimmedEnd ==
  ASSUME NEW E, Dated(E), NEW t \in Seq(E), t # <<>>, Last(t).age <= KeptFor
  PROVE  Trimmed(t) \in Seq(E) /\ Trimmed(t) # <<>> /\ EndOf(Trimmed(t), t)
<1> DEFINE n == Len(t)
           kept == {i \in 1..(n + 1) : n < i + KeptSamples /\ (i <= n => t[i].age <= KeptFor)}
           m == Min(kept)
           u == SubSeq(t, m, n)
<1>1. n \in Nat /\ n > 0 /\ DOMAIN t = 1..n /\ Last(t) = t[n]
  BY LastOf
<1>2. Trimmed(t) = u
  BY DEF Trimmed
<1>3. n \in kept
  BY <1>1, TrackingNumbers
<1>4. kept \subseteq Nat /\ \A x \in kept : x >= 1
  BY <1>1
<1>5. m \in kept /\ \A x \in kept : m <= x
  <2> HIDE DEF kept
  <2>1. \E x \in kept : \A y \in kept : x <= y
    BY <1>3, <1>4, HasLeast
  <2>2. QED
    BY <2>1 DEF Min
<1>6. m \in Nat /\ 1 <= m /\ m <= n
  BY <1>3, <1>4, <1>5
<1> HIDE DEF m, n, kept
<1>7. \A i \in m..n : t[i] \in E
  BY <1>1, <1>6, ElementOfSeq DEF n
<1>8. /\ u \in Seq(E) /\ Len(u) = n - m + 1
      /\ \A i \in 1..(n - m + 1) : u[i] = t[m + i - 1]
  BY <1>1, <1>6, <1>7, SubSeqProperties
<1> HIDE DEF u
<1>9. u # <<>>
  <2>1. Len(u) # 0
    BY <1>1, <1>6, <1>8
  <2>2. QED
    BY <2>1, EmptySeq
<1>10. EndOf(u, t)
  <2>1. m - 1 \in Nat /\ n = Len(u) + (m - 1)
    BY <1>1, <1>6, <1>8
  <2>2. \A i \in 1..Len(u) : u[i] = t[i + (m - 1)]
    <3> TAKE i \in 1..Len(u)
    <3>1. m + i - 1 = i + (m - 1) /\ i \in 1..(n - m + 1)
      BY <1>1, <1>6, <1>8
    <3>2. QED
      BY <1>8, <3>1
  <2>3. QED
    BY <2>1, <2>2 DEF EndOf, n
<1>11. QED
  BY <1>2, <1>8, <1>9, <1>10

\* A later observation at the end.
LEMMA AppendedForward ==
  ASSUME NEW E, Dated(E), NEW t \in Seq(E), Forward(t), NEW e \in E, t = <<>> \/ e.age < Last(t).age
  PROVE  GoodTrack(Append(t, e), E) /\ Last(Append(t, e)) = e
<1> DEFINE u == Append(t, e)
           n == Len(t)
<1>1. n \in Nat /\ DOMAIN t = 1..n
  BY LenProperties
<1>2. u \in Seq(E) /\ u # <<>> /\ Len(u) = n + 1 /\ (\A i \in 1..n : u[i] = t[i]) /\ u[n + 1] = e
  BY AppendProperties
<1>3. DOMAIN u = 1..(n + 1)
  BY <1>2, LenProperties
<1> HIDE DEF u
<1>4. ASSUME NEW i \in DOMAIN u, NEW j \in DOMAIN u, i < j PROVE u[i].age > u[j].age \/ u[i].age = Old
  <2>1. i \in 1..n /\ u[i] = t[i]
    BY <1>1, <1>2, <1>3, <1>4
  <2>2. CASE j \in 1..n
    <3>1. u[j] = t[j] /\ (t[i].age > t[j].age \/ t[i].age = Old)
      BY <1>1, <1>2, <1>4, <2>1, <2>2 DEF Forward
    <3>2. QED
      BY <2>1, <3>1
  <2>3. CASE j = n + 1
    <3>1. t # <<>>
      BY <2>1, EmptySeq
    <3>2. Last(t) = t[n] /\ n \in DOMAIN t /\ e.age < t[n].age
      BY <3>1, LastOf
    <3>3. t[i] \in E /\ t[n] \in E
      BY <1>1, <2>1, <3>2, ElementOfSeq
    <3>4. t[i].age \in 0..Old /\ t[n].age \in 0..Old /\ e.age \in 0..Old
      BY <3>3 DEF Dated
    <3>5. i = n \/ t[i].age > t[n].age \/ t[i].age = Old
      BY <1>1, <2>1, <3>2 DEF Forward
    <3>6. QED
      BY <1>2, <2>1, <2>3, <3>2, <3>4, <3>5, TrackingNumbers
  <2>4. QED
    BY <1>3, <2>2, <2>3
<1>5. Last(u) = e
  BY <1>2 DEF Last
<1>6. QED
  BY <1>2, <1>4, <1>5 DEF GoodTrack, Forward, u

LEMMA AgedUsable ==
  ASSUME NEW E, Dated(E), NEW t, GoodTrack(t, E)
  PROVE  GoodTrack(AgedSeq(t), E) /\ (Gapless(t) => Gapless(AgedSeq(t)))
<1> DEFINE u == AgedSeq(t)
           n == Len(t)
<1>1. t \in Seq(E) /\ t # <<>> /\ Forward(t)
  BY DEF GoodTrack
<1>2. n \in Nat /\ n > 0 /\ DOMAIN t = 1..n
  BY <1>1, LastOf
<1>3. u = [i \in 1..n |-> AgedObs(t[i])]
  BY <1>2 DEF AgedSeq
<1> HIDE DEF u, n
<1>4. \A i \in 1..n : u[i] = AgedObs(t[i]) /\ u[i] \in E /\ u[i].age = Older(t[i].age) /\ t[i].age \in 0..Old
  <2> TAKE i \in 1..n
  <2>1. t[i] \in E
    BY <1>1, ElementOfSeq DEF n
  <2>2. u[i] = AgedObs(t[i])
    BY <1>3
  <2>3. QED
    BY <2>1, <2>2 DEF Dated
<1>5. u \in Seq(E) /\ Len(u) = n /\ DOMAIN u = 1..n
  <2>1. u = [i \in 1..n |-> u[i]]
    BY <1>3
  <2>2. [i \in 1..n |-> u[i]] \in Seq(E)
    BY <1>2, <1>4
  <2>3. u \in Seq(E) /\ DOMAIN u = 1..n
    BY <2>1, <2>2
  <2>4. DOMAIN u = 1..Len(u) /\ Len(u) \in Nat
    BY <2>3, LenProperties
  <2>5. QED
    BY <1>2, <2>3, <2>4
<1>6. \A a, b \in 0..Old : /\ (a > b \/ a = Old) => (Older(a) > Older(b) \/ Older(a) = Old)
                           /\ (a > b \/ a = Old) => Older(a) - Older(b) <= a - b
  BY TrackingNumbers DEF Older
<1>7. Forward(u)
  <2> SUFFICES ASSUME NEW i \in DOMAIN u, NEW j \in DOMAIN u, i < j PROVE u[i].age > u[j].age \/ u[i].age = Old
    BY DEF Forward
  <2>1. t[i].age > t[j].age \/ t[i].age = Old
    BY <1>1, <1>2, <1>5 DEF Forward
  <2>2. QED
    BY <1>4, <1>5, <1>6, <2>1
<1>8. ASSUME Gapless(t) PROVE Gapless(u)
  <2> SUFFICES ASSUME NEW i \in 1..(n - 1) PROVE u[i].age - u[i + 1].age <= HiddenAfter
    BY <1>5 DEF Gapless
  <2>1. i \in 1..n /\ i + 1 \in 1..n /\ i < i + 1
    BY <1>2
  <2>2. t[i].age > t[i + 1].age \/ t[i].age = Old
    BY <1>1, <1>2, <2>1 DEF Forward
  <2>3. t[i].age - t[i + 1].age <= HiddenAfter
    BY <1>8 DEF Gapless, n
  <2>4. t[i].age \in 0..Old /\ t[i + 1].age \in 0..Old /\ u[i].age = Older(t[i].age) /\ u[i + 1].age = Older(t[i + 1].age)
    BY <1>4, <2>1
  <2>5. Older(t[i].age) \in 0..Old /\ Older(t[i + 1].age) \in 0..Old
    BY <2>4, OlderIsAge
  <2>6. u[i].age - u[i + 1].age <= t[i].age - t[i + 1].age
    BY <1>6, <2>2, <2>4
  <2>7. QED
    BY <2>3, <2>4, <2>5, <2>6, TrackingNumbers
<1>9. u # <<>>
  <2>1. Len(u) # 0
    BY <1>2, <1>5
  <2>2. QED
    BY <2>1, EmptySeq
<1>10. QED
  BY <1>5, <1>7, <1>8, <1>9 DEF GoodTrack, u

\* A trail that a shown observation was joined to ends with a recent one.
LEMMA JoinedUsable ==
  ASSUME NEW E, Dated(E), NEW t \in Seq(E), Forward(t), Gapless(t), NEW o \in E, o.age <= HiddenAfter
  PROVE  GoodTrack(Trimmed(Joined(t, o)), E) /\ Gapless(Trimmed(Joined(t, o)))
<1> DEFINE cut == CutAtGap(t, o)
           u == Joined(t, o)
<1>1. Len(t) \in Nat /\ DOMAIN t = 1..Len(t) /\ o.age \in 0..Old
  BY LenProperties DEF Dated
<1>2. GoodTrack(u, E) /\ Gapless(u) /\ Last(u).age <= HiddenAfter /\ Last(u).age \in 0..Old
  <2>1. CASE t = <<>> \/ o.age < Last(t).age
    <3>1. u = Append(cut, o)
      BY <2>1 DEF Joined
    <3>2. cut \in {t, <<>>} /\ (cut = t /\ t # <<>> => Last(t).age - o.age <= HiddenAfter)
      <4>1. t # <<>> => Last(t).age \in 0..Old
        BY LastOf DEF Dated
      <4>2. CASE t # <<>> /\ Last(t).age - o.age > HiddenAfter
        BY <4>2 DEF CutAtGap
      <4>3. CASE ~(t # <<>> /\ Last(t).age - o.age > HiddenAfter)
        <5>1. cut = t
          BY <4>3 DEF CutAtGap
        <5>2. QED
          BY <1>1, <4>1, <4>3, <5>1, TrackingNumbers
      <4>4. QED
        BY <4>2, <4>3
    <3>3. cut \in Seq(E) /\ Forward(cut) /\ (cut = <<>> \/ o.age < Last(cut).age)
      <4> HIDE DEF cut
      <4>1. QED
        BY <2>1, <3>2, EmptyTrack
    <3> HIDE DEF cut
    <3>4. GoodTrack(u, E) /\ Last(u) = o
      BY <3>1, <3>3, AppendedForward
    <3>5. Gapless(u)
      <4>1. /\ Len(u) = Len(cut) + 1 /\ (\A i \in 1..Len(cut) : u[i] = cut[i]) /\ u[Len(cut) + 1] = o
            /\ Len(cut) \in Nat
        BY <3>1, <3>3, AppendProperties, LenProperties
      <4> SUFFICES ASSUME NEW i \in 1..(Len(u) - 1) PROVE u[i].age - u[i + 1].age <= HiddenAfter
        BY DEF Gapless
      <4>2. cut # <<>>
        BY <4>1, EmptySeq
      <4>3. cut = t
        BY <3>2, <4>2
      <4>4. CASE i = Len(cut)
        <5>1. u[i] = Last(t) /\ u[i + 1] = o
          BY <4>1, <4>3, <4>4 DEF Last
        <5>2. QED
          BY <3>2, <4>2, <4>3, <5>1
      <4>5. CASE i \in 1..(Len(t) - 1)
        <5>1. u[i] = t[i] /\ u[i + 1] = t[i + 1]
          BY <4>1, <4>3, <4>5
        <5>2. QED
          BY <4>5, <5>1 DEF Gapless
      <4>6. QED
        BY <4>1, <4>3, <4>4, <4>5
    <3>6. QED
      BY <1>1, <3>4, <3>5
  <2>2. CASE ~(t = <<>> \/ o.age < Last(t).age)
    <3>1. u = t /\ t # <<>>
      BY <2>2 DEF Joined
    <3>2. Last(t).age \in 0..Old
      BY <3>1, LastOf DEF Dated
    <3>3. Last(t).age <= HiddenAfter
      BY <1>1, <2>2, <3>2, TrackingNumbers
    <3>4. QED
      BY <3>1, <3>2, <3>3 DEF GoodTrack
  <2>3. QED
    BY <2>1, <2>2
<1> HIDE DEF u
<1>3. u \in Seq(E) /\ u # <<>> /\ Forward(u)
  BY <1>2 DEF GoodTrack
<1>4. Last(u).age <= KeptFor
  BY <1>2, TrackingNumbers
<1>5. Trimmed(u) \in Seq(E) /\ Trimmed(u) # <<>> /\ EndOf(Trimmed(u), u)
  BY <1>3, <1>4, TrimmedEnd
<1>6. Forward(Trimmed(u)) /\ Gapless(Trimmed(u))
  BY <1>2, <1>3, <1>5, EndKept
<1>7. QED
  BY <1>5, <1>6 DEF GoodTrack, u

TrailsOn(ts, r) == \A p \in DOMAIN ts : GoodTrack(ts[p], Sightings(r)) /\ Gapless(ts[p])

LEMMA DrawnTrails ==
  ASSUME NEW r, NEW list, list \subseteq Sightings(r), NEW former, TrailsOn(former, r), NEW on, DrawsAircraft(list, on, former)
  PROVE  TrailsOn(trails', r)
<1> DEFINE E == Sightings(r)
           was(p) == IF p \in DOMAIN former THEN former[p] ELSE <<>>
<1>1. PICK seen \in SUBSET CurrentAircraft(list, on) : trails' = TrailsOf(seen, former)
  BY DEF DrawsAircraft
<1> DEFINE obs(p) == CHOOSE o \in seen : o.id = p
<1>2. trails' = [p \in {o.id : o \in seen} |-> Trimmed(Joined(was(p), obs(p)))]
  BY <1>1 DEF TrailsOf
<1>3. \A o \in seen : o \in E /\ o.age <= HiddenAfter
  BY <1>1 DEF CurrentAircraft
<1>4. Dated(E)
  BY SightingsAge
<1> HIDE DEF E
<1>5. ASSUME NEW p \in {o.id : o \in seen}
      PROVE  GoodTrack(Trimmed(Joined(was(p), obs(p))), E) /\ Gapless(Trimmed(Joined(was(p), obs(p))))
  <2>1. obs(p) \in seen
    OBVIOUS
  <2>2. was(p) \in Seq(E) /\ Forward(was(p)) /\ Gapless(was(p))
    <3>1. CASE p \in DOMAIN former
      BY <3>1 DEF TrailsOn, GoodTrack, E
    <3>2. CASE p \notin DOMAIN former
      <4>1. was(p) = <<>>
        BY <3>2
      <4>2. QED
        BY <4>1, EmptyTrack
    <3>3. QED
      BY <3>1, <3>2
  <2> HIDE DEF was, obs
  <2>3. obs(p) \in E /\ obs(p).age <= HiddenAfter
    BY <1>3, <2>1
  <2>4. QED
    BY <1>4, <2>2, <2>3, JoinedUsable
<1> HIDE DEF was, obs
<1>6. DOMAIN trails' = {o.id : o \in seen} /\ \A p \in DOMAIN trails' : trails'[p] = Trimmed(Joined(was(p), obs(p)))
  BY <1>2
<1>7. QED
  BY <1>5, <1>6 DEF TrailsOn, E

\* Samples of one vehicle, put in the order of their observation, are those samples.
LEMMA OrderedSamples ==
  ASSUME NEW m, NEW v, NEW samples, samples \subseteq {s \in Positions(m) : s.vehicle = v}
  PROVE  /\ Cardinality(samples) \in Nat /\ (samples # {} => Cardinality(samples) > 0)
         /\ \A k \in 1..Cardinality(samples) : InOrderOfTime(samples)[k] \in samples
<1> DEFINE c == Cardinality(samples)
           f == [a \in 0..Old |-> [vehicle |-> v, age |-> a, mission |-> m]]
           T == {f[a] : a \in 0..Old}
           R == {q \in samples \X samples : q[1].age > q[2].age}
<1>1. IsFiniteSet(samples)
  <2>1. f \in Surjection(0..Old, T)
    BY DEF Surjection
  <2>2. IsFiniteSet(0..Old)
    BY FS_Interval, TrackingNumbers
  <2>3. IsFiniteSet(T)
    <3> HIDE DEF f, T
    <3>1. QED
      BY <2>1, <2>2, FS_Surjection
  <2>4. ASSUME NEW s \in samples PROVE s \in T
    <3>1. s.age \in 0..Old /\ s = [vehicle |-> v, age |-> s.age, mission |-> m]
      BY DEF Positions
    <3>2. f[s.age] = s
      BY <3>1
    <3>3. QED
      BY <3>1, <3>2
  <2> HIDE DEF T
  <2>5. QED
    BY <2>3, <2>4, FS_Subset
<1>2. c \in Nat /\ (samples # {} => c > 0)
  BY <1>1, FS_CardinalityType, FS_EmptySet
<1>3. \A x, y \in samples : <<x, y>> \in R <=> x.age > y.age
  OBVIOUS
<1>4. \A x \in samples : x = [vehicle |-> v, age |-> x.age, mission |-> m] /\ x.age \in 0..Old
  BY DEF Positions
<1> HIDE DEF R
<1>5. Orders(R, samples)
  <2>1. ASSUME NEW x \in samples PROVE <<x, x>> \notin R
    BY <1>3, <1>4
  <2>2. ASSUME NEW x \in samples, NEW y \in samples, x # y PROVE <<x, y>> \in R \/ <<y, x>> \in R
    <3>1. x.age # y.age
      BY <1>4, <2>2
    <3>2. QED
      BY <1>3, <1>4, <3>1
  <2>3. ASSUME NEW x \in samples, NEW y \in samples, NEW z \in samples, <<x, y>> \in R, <<y, z>> \in R PROVE <<x, z>> \in R
    BY <1>3, <1>4, <2>3
  <2>4. QED
    BY <2>1, <2>2, <2>3 DEF Orders
<1> DEFINE rank == PlaceIn(R, samples)
<1>6. Ranks(rank, R, samples)
  BY <1>1, <1>5, Ranking
<1>7. \A s \in samples : rank[s] = Cardinality({r \in samples : r.age > s.age})
  <2> TAKE s \in samples
  <2>1. {r \in samples : <<r, s>> \in R} = {r \in samples : r.age > s.age}
    BY <1>3
  <2>2. QED
    BY <2>1 DEF PlaceIn
<1> HIDE DEF rank
<1>8. ASSUME NEW k \in 1..c PROVE InOrderOfTime(samples)[k] \in samples
  <2>1. k - 1 \in 0..(c - 1)
    BY <1>2
  <2>2. PICK s \in samples : rank[s] = k - 1
    BY <1>6, <2>1 DEF Ranks
  <2>3. \E x \in samples : Cardinality({r \in samples : r.age > x.age}) = k - 1
    BY <1>7, <2>2
  <2>4. InOrderOfTime(samples)[k] = CHOOSE x \in samples : Cardinality({r \in samples : r.age > x.age}) = k - 1
    BY DEF InOrderOfTime
  <2>5. QED
    BY <2>3, <2>4
<1>9. QED
  BY <1>2, <1>8

\* A track with the first n samples of an answer, as TrackWith extends it.
IsExtending(after, n, track, mine) ==
  after = [k \in 0..n |-> IF k = 0 THEN track ELSE Extended(after[k - 1], mine[k])]

LEMMA ExtendingExists == ASSUME NEW track, NEW mine PROVE \A n \in Nat : \E after : IsExtending(after, n, track, mine)
<1> DEFINE G == {n \in Nat : \E after : IsExtending(after, n, track, mine)}
<1>1. 0 \in G
  <2>1. IsExtending([k \in 0..0 |-> track], 0, track, mine)
    BY DEF IsExtending
  <2>2. QED
    BY <2>1
<1>2. ASSUME NEW n \in Nat, n \in G PROVE n + 1 \in G
  <2>1. PICK after : IsExtending(after, n, track, mine)
    BY <1>2
  <2> DEFINE e == Extended(after[n], mine[n + 1])
             g == [k \in 0..(n + 1) |-> IF k = n + 1 THEN e ELSE after[k]]
  <2>2. g[n + 1] = e /\ \A k \in 0..n : g[k] = after[k]
    OBVIOUS
  <2>3. \A k \in 0..n : after[k] = IF k = 0 THEN track ELSE Extended(after[k - 1], mine[k])
    BY <2>1, Zenon DEF IsExtending
  <2>4. DOMAIN g = 0..(n + 1) /\ g = [k \in 0..(n + 1) |-> g[k]]
    OBVIOUS
  <2> HIDE DEF g
  <2>5. \A k \in 0..(n + 1) : g[k] = IF k = 0 THEN track ELSE Extended(g[k - 1], mine[k])
    <3> TAKE k \in 0..(n + 1)
    <3>1. CASE k = n + 1
      BY <2>2, <3>1
    <3>2. CASE k \in 0..n
      <4>1. k # 0 => k - 1 \in 0..n
        BY <3>2
      <4>2. QED
        BY <2>2, <2>3, <3>2, <4>1
    <3>3. QED
      BY <3>1, <3>2
  <2>6. IsExtending(g, n + 1, track, mine)
    BY <2>4, <2>5, Zenon DEF IsExtending
  <2>7. QED
    BY <2>6
<1>3. Nat \subseteq G
  <2> HIDE DEF G
  <2>1. QED
    BY <1>1, <1>2, Inductively
<1>4. QED
  BY <1>3

\* The end of a track that a sample was offered to is recent, if the sample is.
LEMMA ExtendedUsable ==
  ASSUME NEW E, Dated(E), NEW t \in Seq(E), Forward(t), NEW s \in E, s.age <= HiddenAfter
  PROVE  GoodTrack(Extended(t, s), E) /\ Last(Extended(t, s)).age <= HiddenAfter
<1>1. s.age \in 0..Old
  BY DEF Dated
<1>2. CASE t = <<>> \/ s.age < Last(t).age
  <2>1. Extended(t, s) = Append(t, s)
    BY <1>2 DEF Extended
  <2>2. QED
    BY <1>2, <2>1, AppendedForward
<1>3. CASE ~(t = <<>> \/ s.age < Last(t).age)
  <2>1. Extended(t, s) = t /\ t # <<>>
    BY <1>3 DEF Extended
  <2>2. Last(t).age \in 0..Old
    BY <2>1, LastOf DEF Dated
  <2>3. QED
    BY <1>1, <1>3, <2>1, <2>2, TrackingNumbers DEF GoodTrack
<1>4. QED
  BY <1>2, <1>3

LEMMA TrackUsable ==
  ASSUME NEW m, NEW v, NEW samples, samples \subseteq {s \in Positions(m) : s.vehicle = v},
         \A s \in samples : s.age <= HiddenAfter,
         NEW track \in Seq(Positions(m)), Forward(track), track # <<>> \/ samples # {}
  PROVE  GoodTrack(TrackWith(track, samples), Positions(m))
<1> DEFINE E == Positions(m)
           c == Cardinality(samples)
           mine == InOrderOfTime(samples)
           after == CHOOSE f : IsExtending(f, c, track, mine)
<1>1. c \in Nat /\ (samples # {} => c > 0) /\ \A k \in 1..c : mine[k] \in samples
  BY OrderedSamples
<1>2. CASE samples = {}
  BY <1>2 DEF TrackWith, GoodTrack
<1>3. CASE samples # {}
  <2>1. IsExtending(after, c, track, mine)
    <3> HIDE DEF c, mine
    <3>1. QED
      BY <1>1, ExtendingExists
  <2>2. TrackWith(track, samples) = Trimmed(after[c])
    BY <1>3 DEF TrackWith, IsExtending
  <2>3. Dated(E)
    BY PositionsAge
  <2>4. \A s \in samples : s \in E /\ s.age <= HiddenAfter
    OBVIOUS
  <2> HIDE DEF after, mine, c, E
  <2>5. \A k \in 0..c : after[k] = IF k = 0 THEN track ELSE Extended(after[k - 1], mine[k])
    BY <2>1, Zenon DEF IsExtending
  <2> DEFINE good(t) == t \in Seq(E) /\ Forward(t)
             recent(t) == t # <<>> /\ Last(t).age <= HiddenAfter
             G == {k \in Nat : k <= c => good(after[k]) /\ (k > 0 => recent(after[k]))}
  <2>6. 0 \in G
    <3>1. after[0] = track
      BY <1>1, <2>5
    <3>2. QED
      BY <3>1 DEF E
  <2>7. ASSUME NEW k \in Nat, k \in G PROVE k + 1 \in G
    <3> SUFFICES ASSUME k + 1 <= c PROVE good(after[k + 1]) /\ recent(after[k + 1])
      OBVIOUS
    <3>1. k + 1 \in 0..c /\ k + 1 \in 1..c /\ k + 1 # 0 /\ (k + 1) - 1 = k /\ k <= c
      BY <1>1
    <3>2. after[k + 1] = Extended(after[k], mine[k + 1])
      BY <2>5, <3>1
    <3>3. good(after[k])
      BY <2>7, <3>1
    <3>4. mine[k + 1] \in E /\ mine[k + 1].age <= HiddenAfter
      BY <1>1, <2>4, <3>1
    <3>5. GoodTrack(after[k + 1], E) /\ Last(after[k + 1]).age <= HiddenAfter
      BY <2>3, <3>2, <3>3, <3>4, ExtendedUsable
    <3>6. QED
      BY <3>5 DEF GoodTrack
  <2>8. Nat \subseteq G
    <3> HIDE DEF G
    <3>1. QED
      BY <2>6, <2>7, Inductively
  <2> DEFINE t == after[c]
  <2>9. good(t) /\ recent(t)
    BY <1>1, <1>3, <2>8
  <2> HIDE DEF t
  <2>10. Last(t) \in E
    BY <2>9, LastOf
  <2>11. Last(t).age <= KeptFor
    <3>1. Last(t).age \in 0..Old
      BY <2>3, <2>10 DEF Dated
    <3>2. QED
      BY <2>9, <3>1, TrackingNumbers
  <2>12. Trimmed(t) \in Seq(E) /\ Trimmed(t) # <<>> /\ EndOf(Trimmed(t), t)
    BY <2>3, <2>9, <2>11, TrimmedEnd
  <2>13. Forward(Trimmed(t))
    BY <2>9, <2>12, EndKept
  <2>14. QED
    BY <2>2, <2>12, <2>13 DEF GoodTrack, E, t
<1>4. QED
  BY <1>2, <1>3

\* A rocket is drawn at a sample or between two successive ones.
LEMMA SidesAround ==
  ASSUME NEW E, Dated(E), NEW t, GoodTrack(t, E), NEW moment \in 0..KeptFor
  PROVE  LET s == Sides(t, moment) IN
         s[1] # s[2] => s[2] = s[1] + 1 /\ t[s[1]].age > moment /\ moment >= t[s[2]].age
<1> DEFINE after == {i \in DOMAIN t : t[i].age <= moment}
           right == IF after = {} THEN Len(t) ELSE Min(after)
           left == IF after = {} \/ right = 1 THEN right ELSE right - 1
<1>1. Sides(t, moment) = <<left, right>>
  BY DEF Sides
<1>2. Len(t) \in Nat /\ DOMAIN t = 1..Len(t) /\ \A i \in 1..Len(t) : t[i].age \in 0..Old
  <2>1. t \in Seq(E)
    BY DEF GoodTrack
  <2>2. QED
    BY <2>1, LenProperties, ElementOfSeq DEF Dated
<1> SUFFICES ASSUME left # right PROVE right = left + 1 /\ t[left].age > moment /\ moment >= t[right].age
  BY <1>1
<1>3. after # {} /\ right = Min(after) /\ right # 1 /\ left = right - 1
  OBVIOUS
<1>4. right \in after /\ \A x \in after : right <= x
  <2>1. after \subseteq Nat
    BY <1>2
  <2>2. \A i \in after : i \in DOMAIN t /\ t[i].age <= moment
    OBVIOUS
  <2>3. \E x \in after : \A y \in after : x <= y
    <3> HIDE DEF after
    <3>1. QED
      BY <1>3, <2>1, HasLeast
  <2>4. QED
    BY <1>3, <2>3 DEF Min
<1>5. \A i : i \in after <=> i \in DOMAIN t /\ t[i].age <= moment
  OBVIOUS
<1> HIDE DEF left, right, after
<1>6. right \in 1..Len(t) /\ t[right].age <= moment /\ left \in 1..Len(t) /\ right = left + 1 /\ ~(right <= left)
  BY <1>2, <1>3, <1>4, <1>5
<1>7. ~(t[left].age <= moment)
  BY <1>2, <1>4, <1>5, <1>6
<1>8. t[left].age \in 0..Old /\ t[right].age \in 0..Old /\ moment \in Int
  BY <1>2, <1>6, TrackingNumbers
<1>9. QED
  BY <1>6, <1>7, <1>8, TrackingNumbers

-----------------------------------------------------------------------------
(* The aerospace view: the invariant.                                       *)

AirInv    == aircraft \subseteq Sightings(polled) /\ TrailsOn(trails, polled)
RouteInv  == route \in {Nobody, routeFor}
RocketInv ==
  /\ telemetry = [mission |-> followed, status |-> telemetry.status]
  /\ vehicle # Nobody => vehicle \in DOMAIN tracks
  /\ \A v \in DOMAIN tracks : GoodTrack(tracks[v], Positions(followed))
TrackingInv == AirInv /\ RouteInv /\ RocketInv

\* Whatever aircraft a part of the dashboard is about.
SomeFeed  == \E planes \in SUBSET (Planes \cup {"p1"}) : FeedNext(planes)
SomeAnswer == \E planes \in SUBSET (Planes \cup {"p1"}) : \E obs \in Observations(planes, polled) : FeedAnswers(obs, FALSE)
SomeChoice == \E p \in Planes \cup {"p1", Nobody} : ChooseAircraft(p)
AnyTracking == SomeFeed \/ SomeAnswer \/ SomeChoice \/ ChoiceNext \/ RocketNext \/ TrackingTime

LEMMA NoTrails == \A r : TrailsOn(NoTrail, r)
  BY DEF TrailsOn, NoTrail

LEMMA TrackingStart == AirInit /\ RocketInit => TrackingInv
  BY NoTrails DEF AirInit, RocketInit, TrackingInv, AirInv, RouteInv, RocketInv, NoTelemetry, NoTrail

LEMMA RedrawnTrails ==
  ASSUME AirInv, NEW on, DrawsAircraft(aircraft, on, trails) \/ DrawsAircraft(aircraft, on, NoTrail) \/ trails' = NoTrail
  PROVE  TrailsOn(trails', polled)
<1>1. aircraft \subseteq Sightings(polled) /\ TrailsOn(trails, polled) /\ TrailsOn(NoTrail, polled)
  BY NoTrails DEF AirInv
<1>2. QED
  BY <1>1, DrawnTrails

LEMMA AnswersKeep ==
  ASSUME AirInv, NEW planes \in SUBSET (Planes \cup {"p1"}), NEW obs \in Observations(planes, polled),
         NEW stale, FeedAnswers(obs, stale)
  PROVE  AirInv'
<1>1. aircraft' = obs /\ polled' = polled /\ DrawsAircraft(obs, airOn, trails)
  BY DEF FeedAnswers
<1>2. obs \subseteq Sightings(polled)
  <2> SUFFICES ASSUME NEW o \in obs PROVE o \in Sightings(polled)
    OBVIOUS
  <2>1. o \in [id : planes, age : 0..(HiddenAfter + 1), region : {polled}]
    BY DEF Observations
  <2>2. 0..(HiddenAfter + 1) \subseteq 0..Old
    BY TrackingNumbers
  <2>3. QED
    BY <2>1, <2>2 DEF Sightings
<1>3. TrailsOn(trails, polled)
  BY DEF AirInv
<1>4. TrailsOn(trails', polled)
  BY <1>1, <1>2, <1>3, DrawnTrails
<1>5. QED
  BY <1>1, <1>2, <1>4 DEF AirInv

LEMMA FeedKeeps == ASSUME AirInv, NEW planes \in SUBSET (Planes \cup {"p1"}), FeedNext(planes) PROVE AirInv'
<1>1. CASE FeedEffect
  BY <1>1, NoTrails DEF FeedEffect, AirInv
<1>2. CASE FeedFails
  BY <1>2 DEF FeedFails, AirInv
<1>3. CASE FeedPolls
  BY <1>3 DEF FeedPolls, AirInv
<1>4. CASE LateFeedAnswer
  BY <1>4 DEF LateFeedAnswer, AfterLateFeed, AirInv
<1>5. CASE Redraw
  BY <1>5, RedrawnTrails DEF Redraw, AirInv
<1>6. CASE ToggleAircraft
  BY <1>6, RedrawnTrails DEF ToggleAircraft, AirInv
<1>7. ASSUME NEW obs \in Observations(planes, polled), NEW stale \in BOOLEAN, FeedAnswers(obs, stale) PROVE AirInv'
  BY <1>7, AnswersKeep
<1>8. ASSUME NEW r \in Regions, ChooseRegion(r) PROVE AirInv'
  BY <1>8, RedrawnTrails DEF ChooseRegion, SceneCleared, AirInv
<1>9. QED
  BY <1>1, <1>2, <1>3, <1>4, <1>5, <1>6, <1>7, <1>8 DEF FeedNext

LEMMA FeedRests ==
  ASSUME SomeFeed \/ SomeAnswer \/ SomeChoice PROVE UNCHANGED <<routeVars, rocketVars>>
<1>1. ASSUME NEW planes, FeedNext(planes) PROVE UNCHANGED <<routeVars, rocketVars>>
  BY <1>1 DEF FeedNext, FeedEffect, FeedFails, FeedPolls, LateFeedAnswer, Redraw, ToggleAircraft, FeedAnswers, ChooseRegion
<1>2. QED
  BY <1>1 DEF SomeFeed, SomeAnswer, SomeChoice, FeedAnswers, ChooseAircraft

LEMMA TelemetryKeeps ==
  ASSUME RocketInv, NEW samples \in SUBSET Samples, NEW stale, TelemetryAnswers(samples, stale) PROVE RocketInv'
<1> DEFINE kept == Accepted(samples)
           ts == TracksWith(kept)
           m == followed
<1>1. /\ tracks' = ts /\ telemetry' = [mission |-> m, status |-> StatusOf(ts, stale)] /\ followed' = m
      /\ vehicle' = IF vehicle = Nobody /\ DOMAIN ts # {} THEN CHOOSE v \in DOMAIN ts : TRUE ELSE vehicle
  BY DEF TelemetryAnswers
<1>2. \A s \in kept : s \in Positions(m) /\ s.age <= HiddenAfter
  <2> TAKE s \in kept
  <2>1. s \in Samples /\ s.age <= HiddenAfter
    BY DEF Accepted
  <2>2. 0..HiddenAfter \cup {Old} \subseteq 0..Old
    BY TrackingNumbers
  <2>3. QED
    BY <2>1, <2>2 DEF Samples, Positions
<1> HIDE DEF kept
<1>3. /\ DOMAIN ts = DOMAIN tracks \cup {s.vehicle : s \in kept}
      /\ \A v \in DOMAIN ts : ts[v] = TrackWith(TrackOf(v), {s \in kept : s.vehicle = v})
  BY DEF TracksWith
<1> HIDE DEF ts
<1>4. ASSUME NEW v \in DOMAIN ts PROVE GoodTrack(ts[v], Positions(m))
  <2> DEFINE own == {s \in kept : s.vehicle = v}
             t == TrackOf(v)
  <2>1. own \subseteq {s \in Positions(m) : s.vehicle = v} /\ \A s \in own : s.age <= HiddenAfter
    BY <1>2
  <2>2. t \in Seq(Positions(m)) /\ Forward(t) /\ (t # <<>> \/ own # {})
    <3>1. CASE v \in DOMAIN tracks
      <4>1. t = tracks[v] /\ GoodTrack(tracks[v], Positions(m))
        BY <3>1 DEF TrackOf, RocketInv
      <4>2. QED
        BY <4>1 DEF GoodTrack
    <3>2. CASE v \notin DOMAIN tracks
      <4>1. t = <<>>
        BY <3>2 DEF TrackOf
      <4>2. own # {}
        BY <1>3, <3>2
      <4>3. QED
        BY <4>1, <4>2, EmptyTrack
    <3>3. QED
      BY <3>1, <3>2
  <2> HIDE DEF own, t, m
  <2>3. GoodTrack(TrackWith(t, own), Positions(m))
    BY <2>1, <2>2, TrackUsable
  <2>4. QED
    BY <1>3, <2>3 DEF own, t
<1>5. telemetry'.status = StatusOf(ts, stale)
  BY <1>1
<1>6. vehicle' # Nobody => vehicle' \in DOMAIN ts
  <2>1. vehicle # Nobody => vehicle \in DOMAIN ts
    BY <1>3 DEF RocketInv
  <2>2. QED
    BY <1>1, <2>1
<1>7. telemetry' = [mission |-> followed', status |-> telemetry'.status]
  BY <1>1, <1>5
<1>8. QED
  BY <1>1, <1>4, <1>6, <1>7 DEF RocketInv

LEMMA RocketKeeps == ASSUME RocketInv, RocketNext PROVE RocketInv'
<1>1. ASSUME NEW m \in Followable \cup {Nobody}, Follow(m) PROVE RocketInv'
  BY <1>1 DEF Follow, NoTelemetry, NoTrail, RocketInv
<1>2. CASE SomeTelemetry
  BY <1>2, TelemetryKeeps DEF SomeTelemetry
<1>3. CASE TelemetryFails
  BY <1>3 DEF TelemetryFails, RocketInv
<1>4. CASE TelemetryPolls
  BY <1>4 DEF TelemetryPolls, RocketInv
<1>5. CASE LateTelemetry
  BY <1>5 DEF LateTelemetry, AfterLateTelemetry, RocketInv
<1>6. CASE RocketFrame
  <2>1. telemetry' = [telemetry EXCEPT !.status = "stale"] /\ UNCHANGED <<followed, vehicle, tracks>>
    BY <1>6 DEF RocketFrame
  <2>2. telemetry = [mission |-> followed, status |-> telemetry.status]
    BY DEF RocketInv
  <2>3. telemetry' = [mission |-> followed, status |-> "stale"]
    BY <2>1, <2>2
  <2>4. telemetry' = [mission |-> followed', status |-> telemetry'.status]
    BY <2>1, <2>3
  <2>5. QED
    BY <2>1, <2>4 DEF RocketInv
<1>7. ASSUME NEW v \in Vehicles, ChooseVehicle(v) PROVE RocketInv'
  BY <1>7 DEF ChooseVehicle, RocketInv
<1>8. QED
  BY <1>1, <1>2, <1>3, <1>4, <1>5, <1>6, <1>7 DEF RocketNext

LEMMA TimeKeeps == ASSUME TrackingInv, TrackingTime PROVE TrackingInv'
<1>1. /\ aircraft' = {AgedObs(o) : o \in aircraft}
      /\ trails' = [p \in DOMAIN trails |-> AgedSeq(trails[p])]
      /\ tracks' = [v \in DOMAIN tracks |-> AgedSeq(tracks[v])]
      /\ UNCHANGED <<polled, routeVars, followed, telemetry, vehicle>>
  BY DEF TrackingTime
<1>2. AirInv /\ RouteInv /\ RocketInv
  BY DEF TrackingInv
<1>3. AirInv'
  <2>1. Dated(Sightings(polled))
    BY SightingsAge
  <2>2. aircraft' \subseteq Sightings(polled)
    BY <1>1, <1>2, <2>1 DEF AirInv, Dated
  <2>3. TrailsOn(trails', polled)
    <3>1. \A p \in DOMAIN trails : GoodTrack(AgedSeq(trails[p]), Sightings(polled)) /\ Gapless(AgedSeq(trails[p]))
      BY <1>2, <2>1, AgedUsable DEF AirInv, TrailsOn
    <3>2. QED
      BY <1>1, <3>1 DEF TrailsOn
  <2>4. QED
    BY <1>1, <2>2, <2>3 DEF AirInv
<1>4. RouteInv'
  BY <1>1, <1>2 DEF RouteInv, routeVars
<1>5. RocketInv'
  <2>1. \A v \in DOMAIN tracks : GoodTrack(AgedSeq(tracks[v]), Positions(followed))
    BY <1>2, PositionsAge, AgedUsable DEF RocketInv
  <2>2. QED
    BY <1>1, <1>2, <2>1 DEF RocketInv
<1>6. QED
  BY <1>3, <1>4, <1>5 DEF TrackingInv

LEMMA ChoicesKeep == ASSUME TrackingInv, ChoiceNext \/ SomeChoice PROVE TrackingInv'
<1>1. AirInv /\ RouteInv /\ RocketInv
  BY DEF TrackingInv
<1>2. ASSUME UNCHANGED airVars PROVE AirInv'
  BY <1>1, <1>2 DEF AirInv, airVars
<1>3. ASSUME UNCHANGED rocketVars PROVE RocketInv'
  BY <1>1, <1>3 DEF RocketInv, rocketVars
<1>4. ASSUME NEW p, ChooseAircraft(p) PROVE TrackingInv'
  <2>1. AirInv'
    BY <1>1, <1>4, RedrawnTrails DEF ChooseAircraft, AirInv
  <2>2. UNCHANGED <<routeVars, rocketVars>>
    BY <1>4 DEF ChooseAircraft
  <2>3. RouteInv'
    BY <1>1, <2>2 DEF RouteInv, routeVars
  <2>4. QED
    BY <1>3, <2>1, <2>2, <2>3 DEF TrackingInv
<1>5. CASE RouteEffect
  <2>1. RouteInv'
    BY <1>5 DEF RouteEffect, RouteInv
  <2>2. QED
    BY <1>2, <1>3, <1>5, <2>1 DEF RouteEffect, TrackingInv
<1>6. CASE LateRouteAnswer
  <2>1. RouteInv'
    BY <1>1, <1>6 DEF LateRouteAnswer, AfterLateRoute, RouteInv
  <2>2. QED
    BY <1>2, <1>3, <1>6, <2>1 DEF LateRouteAnswer, TrackingInv
<1>7. ASSUME NEW found \in BOOLEAN, RouteAnswers(found) PROVE TrackingInv'
  <2>1. RouteInv'
    BY <1>1, <1>7 DEF RouteAnswers, RouteInv
  <2>2. QED
    BY <1>2, <1>3, <1>7, <2>1 DEF RouteAnswers, TrackingInv
<1>8. QED
  BY <1>4, <1>5, <1>6, <1>7 DEF ChoiceNext, SomeChoice

LEMMA TrackingStep == TrackingInv /\ [AnyTracking]_trackingVars => TrackingInv'
<1> SUFFICES ASSUME TrackingInv, [AnyTracking]_trackingVars PROVE TrackingInv'
  OBVIOUS
<1>1. AirInv /\ RouteInv /\ RocketInv
  BY DEF TrackingInv
<1>2. ASSUME UNCHANGED routeVars PROVE RouteInv'
  BY <1>1, <1>2 DEF RouteInv, routeVars
<1>3. ASSUME UNCHANGED airVars PROVE AirInv'
  BY <1>1, <1>3 DEF AirInv, airVars
<1>4. ASSUME UNCHANGED rocketVars PROVE RocketInv'
  BY <1>1, <1>4 DEF RocketInv, rocketVars
<1>5. CASE SomeFeed \/ SomeAnswer
  <2>1. AirInv'
    BY <1>1, <1>5, FeedKeeps, AnswersKeep DEF SomeFeed, SomeAnswer
  <2>2. QED
    BY <1>2, <1>4, <1>5, <2>1, FeedRests DEF TrackingInv
<1>6. CASE RocketNext
  <2>1. UNCHANGED <<airVars, routeVars>>
    BY <1>6 DEF RocketNext, Follow, SomeTelemetry, TelemetryAnswers, TelemetryFails, TelemetryPolls, LateTelemetry,
                RocketFrame, ChooseVehicle
  <2>2. QED
    BY <1>1, <1>2, <1>3, <1>6, <2>1, RocketKeeps DEF TrackingInv
<1>7. CASE UNCHANGED trackingVars
  BY <1>2, <1>3, <1>4, <1>7 DEF trackingVars, TrackingInv
<1>8. QED
  BY <1>5, <1>6, <1>7, ChoicesKeep, TimeKeeps DEF AnyTracking

LEMMA TracksInOrder == TrackingInv => AnswersBelong /\ TracksUsable
<1> SUFFICES ASSUME TrackingInv PROVE AnswersBelong /\ TracksUsable
  OBVIOUS
<1>1. AirInv /\ RouteInv /\ RocketInv
  BY DEF TrackingInv
<1>2. \A v \in DOMAIN tracks :
        GoodTrack(tracks[v], Positions(followed)) /\ \A i \in DOMAIN tracks[v] : tracks[v][i].mission = followed
  <2> TAKE v \in DOMAIN tracks
  <2>1. GoodTrack(tracks[v], Positions(followed))
    BY <1>1 DEF RocketInv
  <2> DEFINE t == tracks[v]
  <2>2. t \in Seq(Positions(followed))
    BY <2>1 DEF GoodTrack
  <2> HIDE DEF t
  <2>3. \A i \in DOMAIN t : t[i] \in Positions(followed)
    BY <2>2, LenProperties, ElementOfSeq
  <2>4. QED
    BY <2>1, <2>3 DEF Positions, t
<1>3. ASSUME NEW p \in DOMAIN trails
      PROVE  /\ trails[p] # <<>> /\ Forward(trails[p])
             /\ \A i \in 1..(Len(trails[p]) - 1) : trails[p][i].age - trails[p][i + 1].age <= HiddenAfter
             /\ \A i \in DOMAIN trails[p] : trails[p][i].region = polled
  <2>1. GoodTrack(trails[p], Sightings(polled)) /\ Gapless(trails[p])
    BY <1>1 DEF AirInv, TrailsOn
  <2> DEFINE t == trails[p]
  <2>2. t \in Seq(Sightings(polled))
    BY <2>1 DEF GoodTrack
  <2> HIDE DEF t
  <2>3. \A i \in DOMAIN t : t[i] \in Sightings(polled)
    BY <2>2, LenProperties, ElementOfSeq
  <2>4. \A i \in DOMAIN t : t[i].region = polled
    BY <2>3 DEF Sightings
  <2>5. QED
    BY <2>1, <2>4 DEF GoodTrack, Gapless, t
<1>4. AnswersBelong
  <2>1. \A o \in aircraft : o.region = polled
    BY <1>1 DEF AirInv, Sightings
  <2>2. RouteShown = "listed" => route = routeFor
    BY <1>1 DEF RouteShown, RouteInv
  <2>3. telemetry.mission = followed
    BY <1>1 DEF RocketInv
  <2>4. vehicle # Nobody => vehicle \in DOMAIN tracks
    BY <1>1 DEF RocketInv
  <2>5. QED
    BY <1>2, <2>1, <2>2, <2>3, <2>4 DEF AnswersBelong
<1>5. ASSUME NEW v \in DOMAIN tracks, NEW moment \in 0..KeptFor
      PROVE  LET s == Sides(tracks[v], moment) IN
             s[1] # s[2] => s[2] = s[1] + 1 /\ tracks[v][s[1]].age > moment /\ moment >= tracks[v][s[2]].age
  <2>1. GoodTrack(tracks[v], Positions(followed)) /\ Dated(Positions(followed))
    BY <1>2, PositionsAge
  <2>2. QED
    BY <2>1, SidesAround
<1>6. \A v \in DOMAIN tracks : tracks[v] # <<>> /\ Forward(tracks[v])
  BY <1>2 DEF GoodTrack
<1>7. TracksUsable
  BY <1>3, <1>5, <1>6, Zenon DEF TracksUsable
<1>8. QED
  BY <1>4, <1>7

-----------------------------------------------------------------------------
(* ManeuverAnalysis.                                                         *)

\* An approach that is the closest of a path between two instants.
Approaches == [at : Int, d : Int]
NearestOver(b, p, from, to) ==
  b.at \in from..to /\ b.d = Sep(p, b.at) /\ \A t \in from..to : b.d <= Sep(p, t)

\* Samples in order, between two instants.
Trail(s, from, to) ==
  /\ s \in Seq(Int) /\ \A j \in DOMAIN s : s[j] \in from..to
  /\ \A j, k \in DOMAIN s : j < k => s[j] < s[k]

\* A candidate that is being integrated: what it has of the window and of the
\* screening objects is the closest so far.
Trajectories(S) ==
  [of : Nat, t : Int, steps : Nat, samples : Seq(Int), best : Approaches, screening : [S -> Approaches]]
UnderWay(m, w, S) ==
  LET from == -Maneuvers[m.of].lead
      o == w.orbits[Maneuvers[m.of].id]
      none == [at |-> from, d |-> Infinity]
  IN /\ m \in Trajectories(S) /\ m.of \in DOMAIN Maneuvers /\ m.t \in from..EncounterWindow
     /\ IF m.t > -EncounterWindow THEN NearestOver(m.best, o.pair, -EncounterWindow, m.t) ELSE m.best = none
     /\ \A p \in S : IF m.t > from THEN NearestOver(m.screening[p], o.peers[p], from, m.t) ELSE m.screening[p] = none
     /\ Trail(m.samples, from, m.t - 1)
     /\ IF m.t > from THEN m.samples # <<>> /\ m.samples[1] = from ELSE m.samples = <<>> /\ m.steps = 0

\* A candidate that was integrated to the end of the window.
Results ==
  [id : STRING, dv : Nat, at : Int, miss : Int, pc : Levels, samples : Seq(Int),
   boundaryMinimum : BOOLEAN, clear : BOOLEAN]
Evaluated(r, i, w, S) ==
  LET from == -Maneuvers[i].lead
      o == w.orbits[Maneuvers[i].id]
  IN /\ r.id = Maneuvers[i].id /\ r.dv = Maneuvers[i].dv
     /\ NearestOver([at |-> r.at, d |-> r.miss], o.pair, -EncounterWindow, EncounterWindow)
     /\ r.boundaryMinimum = (Abs(r.at) = EncounterWindow)
     /\ r.clear = \A p \in S : \A t \in from..EncounterWindow : Sep(o.peers[p], t) >= ScreeningDistance
     /\ Trail(r.samples, from, EncounterWindow) /\ r.samples # <<>>
     /\ r.samples[1] = from /\ r.samples[Len(r.samples)] = EncounterWindow

\* A row of the trade space, of the burns that meet the goal at its lead.
LeastAt(dv, k, sign, meets) ==
  /\ sign \in {1, -1} /\ k \in 1..Half /\ sign * dv \in ((k - 1) * Grid + 1)..(k * Grid)
  /\ dv \in meets /\ (dv - sign) \notin meets
  /\ sign * k * Grid \in meets /\ sign * (k - 1) * Grid \notin meets
  /\ \A j \in 1..(k - 1) : j * Grid \notin meets /\ -(j * Grid) \notin meets
SoundRow(dv, meets, sigma) ==
  /\ dv \in Int
  /\ dv = 0 <=> 0 \in meets
  /\ dv = NoBurn <=> 0 \notin meets /\ (~sigma \/ \A k \in 1..Half : k * Grid \notin meets /\ -(k * Grid) \notin meets)
  /\ dv \notin {0, NoBurn} => sigma /\ \E k \in 1..Half, sign \in {1, -1} : LeastAt(dv, k, sign, meets)

Integrated == {"pricing", "trading", "deciding", "done"}
OpenedInv ==
  /\ world \in Worlds /\ opened \in [sigma : BOOLEAN, covariances : BOOLEAN, screening : SUBSET Screened]
  /\ phase \in {"opening", "flying", "failed", "refused"} \cup Integrated
FlightInv ==
  /\ results \in Seq(Results) /\ Len(results) <= Len(Maneuvers)
  /\ \A i \in DOMAIN results : Evaluated(results[i], i, world, opened.screening)
  /\ trajectory # NothingYet => UnderWay(trajectory, world, opened.screening) /\ trajectory.of = Len(results) + 1
  /\ phase \in {"opening"} \cup Integrated => trajectory = NothingYet
  /\ phase = "opening" => results = <<>>
  /\ phase \in Integrated => Len(results) = Len(Maneuvers)
PriceInv ==
  phase \in {"trading", "deciding", "done"} =>
    world.pc # Unpriced /\ \A i \in DOMAIN results : results[i].pc = Probability(results[i])
TradeInv ==
  \/ tradeSpace = NoTradeSpace
  \/ /\ phase \in {"deciding", "done"} /\ tradeSpace.leads = Leads
     /\ \A l \in Leads : SoundRow(tradeSpace.least[l], world.meets[l], opened.sigma)
LatestIsLast ==
  phase = "done" /\ decision.estimate # <<>> =>
    \A l \in tradeSpace.leads : tradeSpace.least[l] # NoBurn => l >= decision.estimate[2]
DecisionInv ==
  /\ decision.status \in {"none", "monitor", "maneuver", "insufficient-data", "no-feasible"}
  /\ phase = "done" => RecommendationSound /\ LatestIsLast
AnalysisInv == OpenedInv /\ FlightInv /\ PriceInv /\ TradeInv /\ DecisionInv

-----------------------------------------------------------------------------
(* The analysis (ManeuverAnalysis): what the integration finds. *)

\* The separation from a path grows on either side of its closest instant, so the
\* turning point or the nearer endpoint of a step is the closest instant of it.
LEMMA ClosestOfStep ==
  ASSUME NEW p \in Paths, NEW t \in Int, NEW u \in Int, t <= u
  PROVE  /\ ClosestInStep(p, t, u) \in t..u
         /\ \A x \in t..u : Sep(p, ClosestInStep(p, t, u)) <= Sep(p, x)
<1>1. p.closest \in Int /\ p.least \in Nat
  BY DEF Paths
<1>2. CASE t <= p.closest /\ p.closest <= u
  BY <1>1, <1>2 DEF ClosestInStep, Sep, Abs
<1>3. CASE ~(t <= p.closest /\ p.closest <= u)
  BY <1>1, <1>3 DEF ClosestInStep, NearerEndpoint, Sep, Abs
<1>4. QED
  BY <1>2, <1>3

LEMMA SepIsInt == ASSUME NEW p \in Paths, NEW t \in Int PROVE Sep(p, t) \in Nat
BY DEF Paths, Sep, Abs

\* A step extends the interval of which an approach is the closest; the first one
\* begins it, since Infinity is above every separation.
LEMMA NearestGrows ==
  ASSUME NEW p \in Paths, NEW a \in Int, NEW t \in Int, NEW u \in Int, a <= t, t <= u,
         NEW b \in Approaches, NearestOver(b, p, a, t)
  PROVE  Nearer(b, p, t, u) \in Approaches /\ NearestOver(Nearer(b, p, t, u), p, a, u)
<1> DEFINE x == ClosestInStep(p, t, u)
<1>1. x \in t..u /\ \A y \in t..u : Sep(p, x) <= Sep(p, y)
  BY ClosestOfStep
<1>2. b.at \in a..t /\ b.d = Sep(p, b.at) /\ b.d \in Int /\ \A y \in a..t : b.d <= Sep(p, y)
  BY DEF NearestOver, Approaches
<1>3. \A y \in Int : Sep(p, y) \in Int
  BY SepIsInt
<1> HIDE DEF x
<1>4. CASE Sep(p, x) < b.d
  <2>1. Nearer(b, p, t, u) = [at |-> x, d |-> Sep(p, x)]
    BY <1>4 DEF Nearer, x
  <2>2. x \in a..u /\ \A y \in a..u : Sep(p, x) <= Sep(p, y)
    BY <1>1, <1>2, <1>3, <1>4
  <2>3. QED
    BY <1>3, <2>1, <2>2 DEF NearestOver, Approaches
<1>5. CASE ~(Sep(p, x) < b.d)
  <2>1. Nearer(b, p, t, u) = b
    BY <1>5 DEF Nearer, x
  <2>2. b.at \in a..u /\ \A y \in a..u : b.d <= Sep(p, y)
    BY <1>1, <1>2, <1>3, <1>5
  <2>3. QED
    BY <1>2, <2>1, <2>2 DEF NearestOver
<1>6. QED
  BY <1>4, <1>5

LEMMA NearestStarts ==
  ASSUME NEW p \in Paths, NEW t \in Int, NEW u \in Int, t <= u, NEW b \in Approaches,
         \A x \in t..u : Sep(p, x) < b.d
  PROVE  Nearer(b, p, t, u) \in Approaches /\ NearestOver(Nearer(b, p, t, u), p, t, u)
<1> DEFINE x == ClosestInStep(p, t, u)
<1>1. x \in t..u /\ \A y \in t..u : Sep(p, x) <= Sep(p, y)
  BY ClosestOfStep
<1>2. Sep(p, x) \in Int
  BY <1>1, SepIsInt
<1> HIDE DEF x
<1>3. Nearer(b, p, t, u) = [at |-> x, d |-> Sep(p, x)]
  BY <1>1 DEF Nearer, x
<1>4. QED
  BY <1>1, <1>2, <1>3 DEF NearestOver, Approaches

\* A closest instant of a window is strictly inside exactly if one is that no other
\* instant of the window is closer than.
LEMMA InsideIsTurning ==
  ASSUME NEW p \in Paths, NEW b \in Approaches, NearestOver(b, p, -EncounterWindow, EncounterWindow)
  PROVE  Abs(b.at) # EncounterWindow <=> \E t \in Interior : \A u \in Whole : Sep(p, t) <= Sep(p, u)
<1>1. EncounterWindow \in Nat \ {0} /\ p.closest \in Int /\ p.least \in Nat
  BY ManeuverAssumption DEF Paths
<1>2. b.at \in Whole /\ \A u \in Whole : Sep(p, b.at) <= Sep(p, u)
  BY DEF NearestOver, Whole
<1>3. ASSUME Abs(b.at) # EncounterWindow
      PROVE  \E t \in Interior : \A u \in Whole : Sep(p, t) <= Sep(p, u)
  <2>1. b.at \in Interior
    BY <1>1, <1>2, <1>3 DEF Interior, Whole, Abs
  <2>2. QED
    BY <1>2, <2>1
<1>4. ASSUME NEW t \in Interior, \A u \in Whole : Sep(p, t) <= Sep(p, u)
      PROVE  Abs(b.at) # EncounterWindow
  <2>1. t \in Whole /\ t + 1 \in Whole /\ t - 1 \in Whole
    BY <1>1 DEF Interior, Whole
  <2>2. Sep(p, t) <= Sep(p, t + 1) /\ Sep(p, t) <= Sep(p, t - 1) /\ Sep(p, b.at) <= Sep(p, t)
    BY <1>2, <1>4, <2>1
  <2>3. t = p.closest /\ b.at = t
    BY <1>1, <1>2, <2>1, <2>2 DEF Sep, Abs, Whole
  <2>4. QED
    BY <1>1, <2>3 DEF Interior, Abs
<1>5. QED
  BY <1>3, <1>4

\* The least element of a set of integers that are bounded below.
LEMMA LeastAbove ==
  ASSUME NEW S, S \subseteq Int, S # {}, NEW c \in Int, \A x \in S : x >= c
  PROVE  LeastOf(S) \in S /\ \A x \in S : LeastOf(S) <= x
<1> DEFINE T == {x - c : x \in S}
<1>1. T \subseteq Nat
  OBVIOUS
<1>2. T # {} /\ \A x \in S : x - c \in T
  OBVIOUS
<1>3. PICK m \in T : \A y \in T : m <= y
  <2> HIDE DEF T
  <2>1. QED
    BY <1>1, <1>2, HasLeast
<1>4. PICK z \in S : m = z - c
  BY <1>3
<1>5. \A x \in S : z <= x
  <2> TAKE x \in S
  <2>1. m <= x - c
    BY <1>2, <1>3
  <2>2. QED
    BY <1>4, <2>1
<1>6. QED
  BY <1>5 DEF LeastOf

\* A step goes on, and neither past the end of the window nor past its start.
LEMMA NextIsAfter ==
  ASSUME NEW t \in Int, t < EncounterWindow
  PROVE  /\ NextInstant(t) \in Int /\ t < NextInstant(t) /\ NextInstant(t) <= EncounterWindow
         /\ t < -EncounterWindow => NextInstant(t) <= -EncounterWindow
<1> DEFINE S == {t + StepSeconds} \cup {b \in {EncounterWindow, 0, -EncounterWindow} : b > t}
<1>1. EncounterWindow \in Nat \ {0} /\ StepSeconds \in Nat \ {0}
  BY ManeuverAssumption
<1>2. S \subseteq Int /\ S # {} /\ \A x \in S : x >= t + 1
  BY <1>1
<1>3. EncounterWindow \in S /\ (t < -EncounterWindow => -EncounterWindow \in S)
  BY <1>1
<1> HIDE DEF S
<1>4. LeastOf(S) \in S /\ \A x \in S : LeastOf(S) <= x
  <2>1. t + 1 \in Int
    OBVIOUS
  <2>2. QED
    BY <1>2, <2>1, LeastAbove
<1>5. NextInstant(t) = LeastOf(S)
  BY DEF NextInstant, S
<1>6. NextInstant(t) \in Int /\ NextInstant(t) >= t + 1
  BY <1>2, <1>4, <1>5
<1>7. NextInstant(t) <= EncounterWindow
  BY <1>3, <1>4, <1>5
<1>8. t < -EncounterWindow => NextInstant(t) <= -EncounterWindow
  BY <1>3, <1>4, <1>5
<1>9. QED
  BY <1>6, <1>7, <1>8

LEMMA CandidateNumbers ==
  ASSUME NEW i \in DOMAIN Maneuvers
  PROVE  /\ Maneuvers[i] \in [id : STRING, dv : Nat, lead : Nat] /\ Maneuvers[i].lead > EncounterWindow
         /\ EncounterWindow \in Nat \ {0} /\ StepSeconds \in Nat \ {0} /\ MaxSamples \in Nat \ {0}
<1>1. Maneuvers \in Seq([id : STRING, dv : Nat, lead : Nat])
  BY ManeuverAssumption
<1>2. i \in 1..Len(Maneuvers)
  BY <1>1, LenProperties
<1>3. Maneuvers[i] \in [id : STRING, dv : Nat, lead : Nat]
  BY <1>1, <1>2, ElementOfSeq
<1>4. QED
  BY <1>3, ManeuverAssumption

LEMMA StrideIsPositive == ASSUME NEW i \in DOMAIN Maneuvers PROVE Stride(Maneuvers[i]) \in Nat \ {0}
<1>1. Maneuvers[i].lead \in Nat /\ EncounterWindow \in Nat /\ StepSeconds \in Nat \ {0} /\ MaxSamples \in Nat \ {0}
  BY CandidateNumbers
<1>2. \A n \in Nat, d \in Nat \ {0} : CeilDiv(n, d) \in Nat
  BY DEF CeilDiv
<1>3. QED
  BY <1>1, <1>2 DEF Stride

\* Samples are taken in order; the first is the burn.
LEMMA TrailGrows ==
  ASSUME NEW s, NEW a \in Int, NEW t \in Int, a <= t, Trail(s, a, t - 1)
  PROVE  Trail(Append(s, t), a, t)
<1>1. s \in Seq(Int) /\ Len(s) \in Nat /\ DOMAIN s = 1..Len(s)
  BY LenProperties DEF Trail
<1>2. /\ Append(s, t) \in Seq(Int) /\ Len(Append(s, t)) = Len(s) + 1
      /\ DOMAIN Append(s, t) = 1..(Len(s) + 1)
      /\ \A j \in 1..Len(s) : Append(s, t)[j] = s[j]
      /\ Append(s, t)[Len(s) + 1] = t
  BY <1>1, AppendProperties
<1>3. \A j \in 1..Len(s) : s[j] \in a..(t - 1)
  BY <1>1 DEF Trail
<1>4. \A j, k \in 1..Len(s) : j < k => s[j] < s[k]
  BY <1>1 DEF Trail
<1>5. \A j \in 1..(Len(s) + 1) : j = Len(s) + 1 \/ j \in 1..Len(s)
  BY <1>1
<1>6. \A j \in 1..(Len(s) + 1) : Append(s, t)[j] \in a..t
  BY <1>2, <1>3, <1>5
<1>7. ASSUME NEW j \in 1..(Len(s) + 1), NEW k \in 1..(Len(s) + 1), j < k
      PROVE  Append(s, t)[j] < Append(s, t)[k]
  <2>1. j \in 1..Len(s)
    BY <1>1, <1>7
  <2>2. CASE k = Len(s) + 1
    BY <1>2, <1>3, <2>1, <2>2
  <2>3. CASE k \in 1..Len(s)
    BY <1>2, <1>4, <1>7, <2>1, <2>3
  <2>4. QED
    BY <1>5, <2>2, <2>3
<1>8. QED
  BY <1>2, <1>6, <1>7 DEF Trail

LEMMA TrailWidens ==
  ASSUME NEW s, NEW a \in Int, NEW b \in Int, NEW c \in Int, b <= c, Trail(s, a, b)
  PROVE  Trail(s, a, c)
<1>1. \A j \in DOMAIN s : s[j] \in a..c
  BY DEF Trail
<1>2. QED
  BY <1>1 DEF Trail

\* The bisection.  A grid interval is as long as Bisections doublings of one.
IsDoubling(f, n) == f = [m \in 0..n |-> IF m = 0 THEN 1 ELSE 2 * f[m - 1]]

LEMMA DoublingExists == \A n \in Nat : \E f : IsDoubling(f, n)
<1> DEFINE G == {n \in Nat : \E f : IsDoubling(f, n)}
<1>1. 0 \in G
  <2>1. IsDoubling([m \in 0..0 |-> 1], 0)
    BY DEF IsDoubling
  <2>2. QED
    BY <2>1
<1>2. ASSUME NEW n \in Nat, n \in G PROVE n + 1 \in G
  <2>1. PICK f : IsDoubling(f, n)
    BY <1>2
  <2> DEFINE e == 2 * f[n]
             g == [m \in 0..(n + 1) |-> IF m = n + 1 THEN e ELSE f[m]]
  <2>2. g[n + 1] = e /\ \A m \in 0..n : g[m] = f[m]
    OBVIOUS
  <2>3. \A m \in 0..n : f[m] = IF m = 0 THEN 1 ELSE 2 * f[m - 1]
    BY <2>1, Zenon DEF IsDoubling
  <2>4. DOMAIN g = 0..(n + 1) /\ g = [m \in 0..(n + 1) |-> g[m]]
    OBVIOUS
  <2> HIDE DEF g
  <2>5. \A m \in 0..(n + 1) : g[m] = IF m = 0 THEN 1 ELSE 2 * g[m - 1]
    <3> TAKE m \in 0..(n + 1)
    <3>1. CASE m = n + 1
      BY <2>2, <3>1
    <3>2. CASE m \in 0..n
      <4>1. m # 0 => m - 1 \in 0..n
        BY <3>2
      <4>2. QED
        BY <2>2, <2>3, <3>2, <4>1
    <3>3. QED
      BY <3>1, <3>2
  <2>6. IsDoubling(g, n + 1)
    BY <2>4, <2>5, Zenon DEF IsDoubling
  <2>7. QED
    BY <2>6
<1>3. Nat \subseteq G
  <2> HIDE DEF G
  <2>1. QED
    BY <1>1, <1>2, Inductively
<1>4. QED
  BY <1>3

LEMMA GridIsDoubled ==
  \E d : /\ \A n \in 0..Bisections : d[n] \in Nat \ {0}
         /\ \A n \in 1..Bisections : d[n] = 2 * d[n - 1]
         /\ d[0] = 1 /\ d[Bisections] = Grid
<1> DEFINE d == CHOOSE f : IsDoubling(f, Bisections)
           G == {n \in Nat : n <= Bisections => d[n] \in Nat \ {0}}
<1>1. Bisections \in Nat
  BY ManeuverAssumption
<1>2. IsDoubling(d, Bisections)
  BY <1>1, DoublingExists
<1>3. Grid = d[Bisections]
  BY DEF Grid, IsDoubling
<1> HIDE DEF d
<1>4. \A n \in 0..Bisections : d[n] = IF n = 0 THEN 1 ELSE 2 * d[n - 1]
  BY <1>2, Zenon DEF IsDoubling
<1>5. d[0] = 1
  BY <1>1, <1>4
<1>6. \A n \in 1..Bisections : d[n] = 2 * d[n - 1]
  BY <1>1, <1>4
<1>7. Nat \subseteq G
  <2>1. 0 \in G
    BY <1>5
  <2>2. ASSUME NEW n \in Nat, n \in G PROVE n + 1 \in G
    <3> SUFFICES ASSUME n + 1 <= Bisections PROVE d[n + 1] \in Nat \ {0}
      OBVIOUS
    <3>1. d[n] \in Nat \ {0}
      BY <1>1, <2>2
    <3>2. n + 1 \in 1..Bisections /\ (n + 1) - 1 = n
      BY <1>1
    <3>3. d[n + 1] = 2 * d[n]
      BY <1>6, <3>2
    <3>4. QED
      BY <3>1, <3>3
  <2> HIDE DEF G
  <2>3. QED
    BY <2>1, <2>2, Inductively
<1>8. \A n \in 0..Bisections : d[n] \in Nat \ {0}
  BY <1>1, <1>7
<1>9. QED
  BY <1>3, <1>5, <1>6, <1>8

LEMMA GridIsPositive == Grid \in Nat \ {0}
<1>1. Bisections \in 0..Bisections
  BY ManeuverAssumption
<1>2. QED
  BY <1>1, GridIsDoubled

\* Magnitudes of the grid lie Grid apart.
LEMMA GridCells ==
  /\ \A k \in Int : k * Grid \in Int /\ (k - 1) * Grid = k * Grid - Grid /\ (-k) * Grid = -(k * Grid)
  /\ \A j, k \in Int : (j < k => j * Grid <= k * Grid - Grid)
  /\ 0 * Grid = 0
<1>1. Grid \in Nat \ {0}
  BY GridIsPositive
<1> HIDE DEF Grid
<1>2. \A k \in Int : k * Grid \in Int /\ (k - 1) * Grid = k * Grid - Grid /\ (-k) * Grid = -(k * Grid)
  BY <1>1
<1>3. ASSUME NEW j \in Int, NEW k \in Int, j < k PROVE j * Grid <= k * Grid - Grid
  <2>1. (k - 1 - j) * Grid >= 0
    BY <1>1, <1>3
  <2>2. (k - 1 - j) * Grid = k * Grid - Grid - j * Grid
    BY <1>1
  <2>3. k * Grid \in Int /\ j * Grid \in Int
    BY <1>1
  <2>4. QED
    BY <1>1, <2>1, <2>2, <2>3
<1>4. QED
  BY <1>1, <1>2, <1>3

\* The halvings of an interval.
Start(k) == [lo |-> (k - 1) * Grid, hi |-> k * Grid]
IsBracket(f, n, l, sign, k) ==
  f = [m \in 0..n |-> IF m = 0 THEN Start(k) ELSE Halved(l, sign, f[m - 1])]

LEMMA BracketExists == ASSUME NEW l, NEW sign, NEW k PROVE \A n \in Nat : \E f : IsBracket(f, n, l, sign, k)
<1> DEFINE G == {n \in Nat : \E f : IsBracket(f, n, l, sign, k)}
<1>1. 0 \in G
  <2>1. IsBracket([m \in 0..0 |-> Start(k)], 0, l, sign, k)
    BY DEF IsBracket
  <2>2. QED
    BY <2>1
<1>2. ASSUME NEW n \in Nat, n \in G PROVE n + 1 \in G
  <2>1. PICK f : IsBracket(f, n, l, sign, k)
    BY <1>2
  <2> DEFINE e == Halved(l, sign, f[n])
             g == [m \in 0..(n + 1) |-> IF m = n + 1 THEN e ELSE f[m]]
  <2>2. g[n + 1] = e /\ \A m \in 0..n : g[m] = f[m]
    OBVIOUS
  <2>3. \A m \in 0..n : f[m] = IF m = 0 THEN Start(k) ELSE Halved(l, sign, f[m - 1])
    BY <2>1, Zenon DEF IsBracket
  <2>4. DOMAIN g = 0..(n + 1) /\ g = [m \in 0..(n + 1) |-> g[m]]
    OBVIOUS
  <2> HIDE DEF g
  <2>5. \A m \in 0..(n + 1) : g[m] = IF m = 0 THEN Start(k) ELSE Halved(l, sign, g[m - 1])
    <3> TAKE m \in 0..(n + 1)
    <3>1. CASE m = n + 1
      BY <2>2, <3>1
    <3>2. CASE m \in 0..n
      <4>1. m # 0 => m - 1 \in 0..n
        BY <3>2
      <4>2. QED
        BY <2>2, <2>3, <3>2, <4>1
    <3>3. QED
      BY <3>1, <3>2
  <2>6. IsBracket(g, n + 1, l, sign, k)
    BY <2>4, <2>5, Zenon DEF IsBracket
  <2>7. QED
    BY <2>6
<1>3. Nat \subseteq G
  <2> HIDE DEF G
  <2>1. QED
    BY <1>1, <1>2, Inductively
<1>4. QED
  BY <1>3

\* An interval whose upper end meets the goal and whose lower end does not, of twice
\* a width: so is its half.
Straddles(b, width, l, sign) ==
  /\ b.lo \in Int /\ b.hi = b.lo + width
  /\ Meets(l, sign * b.hi) /\ ~Meets(l, sign * b.lo)

LEMMA HalfStraddles ==
  ASSUME NEW b, NEW w \in Nat \ {0}, NEW l, NEW sign, Straddles(b, 2 * w, l, sign)
  PROVE  /\ Straddles(Halved(l, sign, b), w, l, sign)
         /\ b.lo <= Halved(l, sign, b).lo /\ Halved(l, sign, b).hi <= b.hi
<1> DEFINE mid == (b.lo + b.hi) \div 2
<1>1. b.lo \in Int /\ b.hi = b.lo + 2 * w /\ Meets(l, sign * b.hi) /\ ~Meets(l, sign * b.lo)
  BY DEF Straddles
<1>2. mid = b.lo + w
  BY <1>1
<1>3. Halved(l, sign, b) = IF Meets(l, sign * mid) THEN [lo |-> b.lo, hi |-> mid] ELSE [lo |-> mid, hi |-> b.hi]
  BY DEF Halved
<1> HIDE DEF mid
<1>4. CASE Meets(l, sign * mid)
  <2>1. Halved(l, sign, b).lo = b.lo /\ Halved(l, sign, b).hi = mid
    BY <1>3, <1>4
  <2>2. QED
    BY <1>1, <1>2, <1>4, <2>1 DEF Straddles
<1>5. CASE ~Meets(l, sign * mid)
  <2>1. Halved(l, sign, b).lo = mid /\ Halved(l, sign, b).hi = b.hi
    BY <1>3, <1>5
  <2>2. QED
    BY <1>1, <1>2, <1>5, <2>1 DEF Straddles
<1>6. QED
  BY <1>4, <1>5

LEMMA BisectionStraddles ==
  ASSUME NEW l, NEW sign, NEW k \in 1..Half,
         Meets(l, sign * (k * Grid)), ~Meets(l, sign * ((k - 1) * Grid))
  PROVE  /\ Bisected(l, sign, k) \in ((k - 1) * Grid + 1)..(k * Grid)
         /\ Meets(l, sign * Bisected(l, sign, k)) /\ ~Meets(l, sign * (Bisected(l, sign, k) - 1))
<1> DEFINE f == CHOOSE g : IsBracket(g, Bisections, l, sign, k)
           N == Bisections
<1>1. N \in Nat /\ k \in Int /\ k * Grid \in Int /\ (k - 1) * Grid = k * Grid - Grid
  BY ManeuverAssumption, GridCells
<1>2. IsBracket(f, N, l, sign, k)
  BY <1>1, BracketExists
<1>3. Bisected(l, sign, k) = f[N].hi
  BY DEF Bisected, IsBracket, Start
<1> HIDE DEF f
<1>4. \A n \in 0..N : f[n] = IF n = 0 THEN Start(k) ELSE Halved(l, sign, f[n - 1])
  BY <1>2, Zenon DEF IsBracket
<1>5. PICK d : /\ \A n \in 0..N : d[n] \in Nat \ {0}
               /\ \A n \in 1..N : d[n] = 2 * d[n - 1]
               /\ d[0] = 1 /\ d[N] = Grid
  BY GridIsDoubled
<1> HIDE DEF N
<1> DEFINE Nested(n) == /\ Straddles(f[n], d[N - n], l, sign)
                        /\ f[n].lo >= (k - 1) * Grid /\ f[n].hi <= k * Grid
           G == {n \in Nat : n <= N => Nested(n)}
<1>6. 0 \in G
  <2>1. f[0] = Start(k) /\ d[N - 0] = Grid
    BY <1>1, <1>4, <1>5
  <2>2. f[0].lo = (k - 1) * Grid /\ f[0].hi = k * Grid
    BY <2>1 DEF Start
  <2>3. Grid \in Int /\ (k - 1) * Grid \in Int /\ k * Grid = (k - 1) * Grid + Grid
    BY <1>1, GridIsPositive
  <2>4. Straddles(f[0], d[N - 0], l, sign)
    BY <2>1, <2>2, <2>3 DEF Straddles
  <2>5. QED
    BY <2>2, <2>3, <2>4
<1>7. ASSUME NEW n \in Nat, n \in G PROVE n + 1 \in G
  <2> SUFFICES ASSUME n + 1 <= N PROVE Nested(n + 1)
    OBVIOUS
  <2>1. Straddles(f[n], d[N - n], l, sign) /\ f[n].lo >= (k - 1) * Grid /\ f[n].hi <= k * Grid
    BY <1>1, <1>7
  <2>2. /\ n + 1 \in 0..N /\ n + 1 # 0 /\ (n + 1) - 1 = n
        /\ N - n \in 1..N /\ N - (n + 1) \in 0..N /\ (N - n) - 1 = N - (n + 1)
    BY <1>1
  <2>3. f[n + 1] = Halved(l, sign, f[n])
    BY <1>4, <2>2
  <2>4. d[N - (n + 1)] \in Nat \ {0} /\ d[N - n] = 2 * d[N - (n + 1)]
    BY <1>5, <2>2
  <2>5. /\ Straddles(f[n + 1], d[N - (n + 1)], l, sign)
        /\ f[n].lo <= f[n + 1].lo /\ f[n + 1].hi <= f[n].hi
    BY <2>1, <2>3, <2>4, HalfStraddles
  <2>6. f[n].lo \in Int /\ f[n].hi \in Int /\ f[n + 1].lo \in Int /\ f[n + 1].hi \in Int
    BY <2>1, <2>4, <2>5 DEF Straddles
  <2>7. k * Grid \in Int /\ (k - 1) * Grid \in Int
    BY <1>1, GridIsPositive
  <2>8. f[n + 1].lo >= (k - 1) * Grid /\ f[n + 1].hi <= k * Grid
    BY <2>1, <2>5, <2>6, <2>7
  <2>9. QED
    BY <2>5, <2>8
<1>8. Nested(N)
  <2>1. Nat \subseteq G
    <3> HIDE DEF G
    <3>1. QED
      BY <1>6, <1>7, Inductively
  <2>2. N \in G
    BY <1>1, <2>1
  <2>3. QED
    BY <1>1, <2>2
<1>9. d[N - N] = 1 /\ (k - 1) * Grid \in Int
  BY <1>1, <1>5, GridIsPositive
<1>10. f[N].lo \in Int /\ f[N].hi = f[N].lo + 1 /\ f[N].lo = f[N].hi - 1
  BY <1>8, <1>9 DEF Straddles
<1>11. Meets(l, sign * f[N].hi) /\ ~Meets(l, sign * (f[N].hi - 1))
  BY <1>8, <1>10 DEF Straddles
<1>12. QED
  BY <1>1, <1>3, <1>8, <1>9, <1>10, <1>11

LEMMA SignedGrid ==
  ASSUME NEW sign \in {1, -1}, NEW k \in Int
  PROVE  sign * k * Grid = sign * (k * Grid) /\ k * Grid \in Int
<1>1. Grid \in Nat
  BY GridIsPositive
<1> HIDE DEF Grid
<1>2. QED
  BY <1>1

\* What the first magnitude of a sign and the bisection before it are.
OfSign(k, hi, l, sign) ==
  /\ k \in 1..Half /\ hi \in ((k - 1) * Grid + 1)..(k * Grid)
  /\ Meets(l, sign * hi) /\ ~Meets(l, sign * (hi - 1))
  /\ Meets(l, sign * (k * Grid)) /\ ~Meets(l, sign * ((k - 1) * Grid))
  /\ \A j \in 1..(k - 1) : ~Meets(l, sign * (j * Grid))

LEMMA FirstOfSign ==
  ASSUME NEW l, NEW sign \in {1, -1}, ~Meets(l, 0), NEW k \in FirstMagnitude(l, sign)
  PROVE  OfSign(k, Bisected(l, sign, k), l, sign)
<1>1. k \in 1..Half /\ k \in Int /\ Half \in Nat
  BY ManeuverAssumption DEF FirstMagnitude
<1>2. Meets(l, sign * (k * Grid))
  <2>1. Meets(l, sign * k * Grid)
    BY DEF FirstMagnitude
  <2>2. QED
    BY <1>1, <2>1, SignedGrid
<1>3. ASSUME NEW j \in 1..(k - 1) PROVE ~Meets(l, sign * (j * Grid))
  <2>1. ~Meets(l, sign * j * Grid)
    BY DEF FirstMagnitude
  <2>2. j \in Int
    BY <1>1
  <2>3. QED
    BY <2>1, <2>2, SignedGrid
<1>4. ~Meets(l, sign * ((k - 1) * Grid))
  <2>1. CASE k = 1
    <3>1. (k - 1) * Grid = 0
      BY <2>1, GridCells
    <3>2. QED
      BY <3>1
  <2>2. CASE k # 1
    <3>1. k - 1 \in 1..(k - 1)
      BY <1>1, <2>2
    <3>2. QED
      BY <1>3, <3>1
  <2>3. QED
    BY <2>1, <2>2
<1>5. QED
  BY <1>1, <1>2, <1>3, <1>4, BisectionStraddles DEF OfSign

LEMMA SomeOfSign ==
  ASSUME NEW l, NEW sign \in {1, -1}, NEW j \in 1..Half, Meets(l, sign * (j * Grid))
  PROVE  \E k \in FirstMagnitude(l, sign) : k <= j
<1> DEFINE S == {i \in 1..Half : Meets(l, sign * i * Grid)}
<1>1. j \in S /\ S \subseteq Nat
  <2>1. j \in Int /\ Half \in Nat
    BY ManeuverAssumption
  <2>2. Meets(l, sign * j * Grid)
    BY <2>1, SignedGrid
  <2>3. QED
    BY <2>1, <2>2
<1>2. PICK k \in S : \A i \in S : k <= i
  <2> HIDE DEF S
  <2>1. QED
    BY <1>1, HasLeast
<1>3. \A i \in 1..(k - 1) : ~Meets(l, sign * i * Grid)
  <2> TAKE i \in 1..(k - 1)
  <2>1. i \in 1..Half /\ i < k
    BY <1>1, ManeuverAssumption
  <2>2. i \notin S
    BY <1>1, <1>2, <2>1
  <2>3. QED
    BY <2>1, <2>2
<1>4. k \in FirstMagnitude(l, sign)
  BY <1>2, <1>3 DEF FirstMagnitude
<1>5. QED
  BY <1>1, <1>2, <1>4

\* Of some burns the least is chosen, of two as small the positive one.
LEMMA LeastChosen ==
  ASSUME NEW S, S \subseteq Int, S # {}
  PROVE  \E dv \in S : \A e \in S : Abs(dv) < Abs(e) \/ (Abs(dv) = Abs(e) /\ dv >= e)
<1> DEFINE T == {Abs(e) : e \in S}
<1>1. T \subseteq Nat
  BY DEF Abs
<1>2. T # {} /\ \A e \in S : Abs(e) \in T
  OBVIOUS
<1>3. PICK m \in T : \A n \in T : m <= n
  <2> HIDE DEF T
  <2>1. QED
    BY <1>1, <1>2, HasLeast
<1>4. PICK x \in S : Abs(x) = m
  OBVIOUS
<1>5. \A e \in S : Abs(x) <= Abs(e)
  BY <1>2, <1>3, <1>4
<1> HIDE DEF T
<1>6. CASE -x \in S /\ x < 0
  BY <1>5, <1>6 DEF Abs
<1>7. CASE ~(-x \in S /\ x < 0)
  <2>1. \A e \in S : Abs(x) < Abs(e) \/ (Abs(x) = Abs(e) /\ x >= e)
    BY <1>5, <1>7 DEF Abs
  <2>2. QED
    BY <2>1
<1>8. QED
  BY <1>6, <1>7

LEMMA LeastBurnIsSound ==
  ASSUME NEW l, ~Meets(l, 0)
  PROVE  \/ LeastBurn(l) = NoBurn /\ \A k \in 1..Half : ~Meets(l, k * Grid) /\ ~Meets(l, -(k * Grid))
         \/ \E k \in 1..Half, sign \in {1, -1} : LeastAt(LeastBurn(l), k, sign, world.meets[l])
<1> DEFINE of(sign) == {sign * Bisected(l, sign, k) : k \in FirstMagnitude(l, sign)}
           found == of(1) \cup of(-1)
           least == CHOOSE dv \in found : \A e \in found : Abs(dv) < Abs(e) \/ (Abs(dv) = Abs(e) /\ dv >= e)
<1>0. Half \in Nat /\ Grid \in Nat \ {0} /\ \A k \in Int : k * Grid \in Int
  BY ManeuverAssumption, GridIsPositive, GridCells
<1>1. LeastBurn(l) = IF found = {} THEN NoBurn ELSE least
  BY DEF LeastBurn
<1>2. \A sign \in {1, -1} : \A k \in FirstMagnitude(l, sign) : OfSign(k, Bisected(l, sign, k), l, sign)
  BY FirstOfSign
<1>3. CASE found = {}
  <2>1. FirstMagnitude(l, 1) = {} /\ FirstMagnitude(l, -1) = {}
    BY <1>3
  <2>2. ASSUME NEW k \in 1..Half PROVE ~Meets(l, k * Grid) /\ ~Meets(l, -(k * Grid))
    <3>1. ~Meets(l, 1 * (k * Grid)) /\ ~Meets(l, (-1) * (k * Grid))
      BY <2>1, SomeOfSign
    <3>2. k * Grid \in Int
      BY <1>0
    <3> HIDE DEF Grid
    <3>3. 1 * (k * Grid) = k * Grid /\ (-1) * (k * Grid) = -(k * Grid)
      BY <1>0, <3>2
    <3>4. QED
      BY <3>1, <3>3
  <2>3. QED
    BY <1>1, <1>3, <2>2
<1>4. CASE found # {}
  <2>1. ASSUME NEW sign \in {1, -1}, NEW k \in FirstMagnitude(l, sign)
        PROVE  /\ k \in 1..Half /\ Bisected(l, sign, k) \in Nat \ {0} /\ Bisected(l, sign, k) <= k * Grid
               /\ Bisected(l, sign, k) > (k - 1) * Grid /\ (k - 1) * Grid \in Nat
               /\ sign * Bisected(l, sign, k) \in found /\ sign * Bisected(l, sign, k) \in Int
               /\ Abs(sign * Bisected(l, sign, k)) = Bisected(l, sign, k)
    <3>1. k \in 1..Half /\ Bisected(l, sign, k) \in ((k - 1) * Grid + 1)..(k * Grid)
      BY <1>2 DEF OfSign
    <3>2. (k - 1) * Grid \in Nat /\ k * Grid \in Int
      <4> HIDE DEF Grid
      <4>1. QED
        BY <1>0, <3>1
    <3>3. Bisected(l, sign, k) \in Nat \ {0} /\ Bisected(l, sign, k) <= k * Grid /\ Bisected(l, sign, k) > (k - 1) * Grid
      BY <3>1, <3>2
    <3>4. sign * Bisected(l, sign, k) \in Int /\ Abs(sign * Bisected(l, sign, k)) = Bisected(l, sign, k)
      BY <3>3 DEF Abs
    <3>5. QED
      BY <3>1, <3>2, <3>3, <3>4
  <2>2. found \subseteq Int
    BY <2>1
  <2>3. least \in found /\ \A e \in found : Abs(least) < Abs(e) \/ (Abs(least) = Abs(e) /\ least >= e)
    <3> HIDE DEF found
    <3>1. QED
      BY <1>4, <2>2, LeastChosen
  <2>4. PICK sign \in {1, -1} : least \in of(sign)
    BY <2>3
  <2>5. PICK k \in FirstMagnitude(l, sign) : least = sign * Bisected(l, sign, k)
    BY <2>4
  <2> DEFINE hi == Bisected(l, sign, k)
  <2> HIDE DEF found, of, least
  <2>6. OfSign(k, hi, l, sign)
    BY <1>2
  <2>7. hi \in Int /\ k \in Int /\ Abs(least) = hi /\ hi > (k - 1) * Grid /\ (k - 1) * Grid \in Nat
    BY <2>1, <2>5
  <2> HIDE DEF hi
  <2>8. ASSUME NEW j \in 1..(k - 1) PROVE ~Meets(l, (-sign) * (j * Grid))
    <3> SUFFICES ASSUME Meets(l, (-sign) * (j * Grid)) PROVE FALSE
      OBVIOUS
    <3>1. -sign \in {1, -1} /\ j \in 1..Half
      BY <1>0, <2>6 DEF OfSign
    <3>2. PICK i \in FirstMagnitude(l, -sign) : i <= j
      BY <3>1, SomeOfSign
    <3> DEFINE other == Bisected(l, -sign, i)
    <3>3. /\ i \in 1..Half /\ other \in Nat /\ other <= i * Grid /\ (-sign) * other \in found
          /\ Abs((-sign) * other) = other
      BY <2>1, <3>1
    <3> HIDE DEF other
    <3>4. i * Grid <= (k - 1) * Grid
      <4>1. i <= k - 1 /\ i \in Int /\ k \in Int
        BY <2>7, <3>2, <3>3
      <4>2. i < k /\ i * Grid <= k * Grid - Grid /\ k * Grid - Grid = (k - 1) * Grid
        BY <4>1, GridCells
      <4>3. QED
        BY <4>2
    <3>5. i * Grid \in Int
      BY <1>0, <3>3
    <3>6. other < hi
      BY <2>7, <3>3, <3>4, <3>5
    <3>7. hi <= other
      BY <2>3, <2>7, <3>3
    <3>8. QED
      BY <2>7, <3>3, <3>6, <3>7
  <2>9. LeastAt(least, k, sign, world.meets[l])
    <3>1. /\ k \in 1..Half /\ hi \in ((k - 1) * Grid + 1)..(k * Grid)
          /\ sign * hi \in world.meets[l] /\ sign * (hi - 1) \notin world.meets[l]
          /\ sign * (k * Grid) \in world.meets[l] /\ sign * ((k - 1) * Grid) \notin world.meets[l]
          /\ \A j \in 1..(k - 1) : sign * (j * Grid) \notin world.meets[l]
      BY <2>6 DEF OfSign, Meets
    <3>2. \A j \in 1..(k - 1) : (-sign) * (j * Grid) \notin world.meets[l]
      BY <2>8 DEF Meets
    <3>3. sign * least = hi /\ least = sign * hi /\ least - sign = sign * (hi - 1)
      BY <2>5, <2>7 DEF hi
    <3>4. sign * k * Grid = sign * (k * Grid) /\ sign * (k - 1) * Grid = sign * ((k - 1) * Grid)
      BY <2>7, SignedGrid
    <3>5. ASSUME NEW j \in 1..(k - 1) PROVE j * Grid \notin world.meets[l] /\ -(j * Grid) \notin world.meets[l]
      <4>1. j * Grid \in Int
        BY <1>0
      <4> DEFINE x == j * Grid
      <4>2. sign * x \notin world.meets[l] /\ (-sign) * x \notin world.meets[l]
        BY <3>1, <3>2
      <4> HIDE DEF x
      <4>3. x \in Int
        BY <4>1 DEF x
      <4>4. x \notin world.meets[l] /\ -x \notin world.meets[l]
        BY <4>2, <4>3
      <4>5. QED
        BY <4>4 DEF x
    <3>6. QED
      BY <3>1, <3>3, <3>4, <3>5 DEF LeastAt
  <2>10. QED
    BY <1>1, <1>4, <2>6, <2>9 DEF OfSign
<1>5. QED
  BY <1>3, <1>4

\* A burn of the grid is neither the coast nor no burn.
LEMMA BurnIsBurn ==
  ASSUME NEW dv, NEW k, NEW sign, NEW meets, LeastAt(dv, k, sign, meets), meets \subseteq Int
  PROVE  dv \in Int /\ dv # 0 /\ dv # NoBurn /\ Abs(dv) \in ((k - 1) * Grid + 1)..(k * Grid) /\ (dv > 0 <=> sign = 1)
<1>1. sign \in {1, -1} /\ k \in 1..Half /\ sign * dv \in ((k - 1) * Grid + 1)..(k * Grid) /\ dv \in Int
  BY DEF LeastAt
<1>2. Half \in Nat /\ Grid \in Nat \ {0}
  BY ManeuverAssumption, GridIsPositive
<1>3. k * Grid <= (Half + 1) * Grid - Grid /\ (Half + 1) * Grid \in Int /\ k * Grid \in Int
  BY <1>1, <1>2, GridCells
<1>4. (k - 1) * Grid \in Nat
  <2> HIDE DEF Grid
  <2>1. QED
    BY <1>1, <1>2
<1>5. NoBurn > k * Grid /\ NoBurn \in Int
  BY <1>2, <1>3 DEF NoBurn
<1> HIDE DEF Grid, NoBurn
<1>6. CASE sign = 1
  BY <1>1, <1>3, <1>4, <1>5, <1>6 DEF Abs
<1>7. CASE sign = -1
  BY <1>1, <1>3, <1>4, <1>5, <1>7 DEF Abs
<1>8. QED
  BY <1>1, <1>6, <1>7

LEMMA NoBurnIsNone == NoBurn \in Int /\ NoBurn > 0
<1>1. Half \in Nat /\ Grid \in Nat \ {0}
  BY ManeuverAssumption, GridIsPositive
<1> HIDE DEF Grid
<1>2. QED
  BY <1>1 DEF NoBurn

\* The trade space's row of a lead.
LEMMA RowIsSound ==
  ASSUME NEW l, world.meets[l] \subseteq Int, opened.sigma \in BOOLEAN
  PROVE  SoundRow(MinimumDeltaV(l), world.meets[l], opened.sigma)
<1> DEFINE dv == MinimumDeltaV(l)
           meets == world.meets[l]
<1>1. CASE Meets(l, 0)
  <2>1. dv = 0 /\ 0 \in meets
    BY <1>1 DEF MinimumDeltaV, Meets
  <2>2. QED
    BY <2>1, NoBurnIsNone DEF SoundRow
<1>2. CASE ~Meets(l, 0) /\ ~opened.sigma
  <2>1. dv = NoBurn /\ 0 \notin meets
    BY <1>2 DEF MinimumDeltaV, Meets
  <2>2. QED
    BY <1>2, <2>1, NoBurnIsNone DEF SoundRow
<1>3. CASE ~Meets(l, 0) /\ opened.sigma
  <2>1. dv = LeastBurn(l) /\ 0 \notin meets
    BY <1>3 DEF MinimumDeltaV, Meets
  <2>2. CASE LeastBurn(l) = NoBurn /\ \A k \in 1..Half : ~Meets(l, k * Grid) /\ ~Meets(l, -(k * Grid))
    BY <2>1, <2>2, NoBurnIsNone DEF SoundRow, Meets
  <2>3. CASE \E k \in 1..Half, sign \in {1, -1} : LeastAt(LeastBurn(l), k, sign, meets)
    <3>1. PICK k \in 1..Half, sign \in {1, -1} : LeastAt(dv, k, sign, meets)
      BY <2>1, <2>3
    <3> HIDE DEF dv
    <3>2. dv \in Int /\ dv # 0 /\ dv # NoBurn
      BY <3>1, BurnIsBurn
    <3>3. k * Grid \in meets \/ -(k * Grid) \in meets
      <4>1. sign * k * Grid \in meets /\ sign * k * Grid = sign * (k * Grid) /\ k * Grid \in Int
        BY <3>1, SignedGrid DEF LeastAt
      <4>2. QED
        BY <4>1
    <3>4. SoundRow(dv, meets, opened.sigma)
      BY <1>3, <2>1, <3>1, <3>2, <3>3 DEF SoundRow
    <3>5. QED
      BY <3>4 DEF dv
  <2>4. QED
    BY <1>3, <2>2, <2>3, LeastBurnIsSound
<1>4. QED
  BY <1>1, <1>2, <1>3

-----------------------------------------------------------------------------
(* The analysis: what its steps keep. *)

LEMMA WorldOfPaths ==
  ASSUME NEW w \in Worlds, NEW i \in DOMAIN Maneuvers
  PROVE  LET o == w.orbits[Maneuvers[i].id]
             flown == -Maneuvers[i].lead..EncounterWindow
         IN /\ o.pc \in Levels /\ o.pair \in Paths /\ \A t \in flown : Sep(o.pair, t) < Infinity
            /\ \A p \in Screened : o.peers[p] \in Paths /\ \A t \in flown : Sep(o.peers[p], t) < Infinity
BY WorldsAssumption

LEMMA NoFlight == ASSUME NEW w, NEW S PROVE ~UnderWay(NothingYet, w, S)
<1>1. 0 \notin DOMAIN Maneuvers
  <2>1. DOMAIN Maneuvers = 1..Len(Maneuvers) /\ Len(Maneuvers) \in Nat
    BY ManeuverAssumption, LenProperties
  <2>2. QED
    BY <2>1
<1>2. QED
  BY <1>1 DEF NothingYet, UnderWay

\* A burn begins a trajectory.
LEMMA BurnedIsUnderWay ==
  ASSUME OpenedInv, NEW i \in DOMAIN Maneuvers
  PROVE  UnderWay(Burned(i), world, opened.screening) /\ Burned(i).of = i /\ Burned(i) # NothingYet
<1> DEFINE m == Burned(i)
           from == -Maneuvers[i].lead
           none == [at |-> from, d |-> Infinity]
<1>1. Maneuvers[i].lead \in Nat /\ EncounterWindow \in Nat \ {0} /\ Maneuvers[i].lead > EncounterWindow /\ Infinity \in Nat
  BY CandidateNumbers, ManeuverAssumption
<1>2. i \in Nat
  BY ManeuverAssumption, LenProperties
<1>3. from \in Int /\ from < -EncounterWindow /\ none \in Approaches
  BY <1>1 DEF Approaches
<1>4. m = [of |-> i, t |-> from, steps |-> 0, samples |-> <<>>, best |-> none, screening |-> [o \in opened.screening |-> none]]
  BY DEF Burned
<1> HIDE DEF from, none
<1>5. m \in Trajectories(opened.screening)
  BY <1>2, <1>3, <1>4 DEF Trajectories
<1>6. m.of = i /\ m.t = from /\ m.steps = 0 /\ m.samples = <<>> /\ m.best = none
      /\ \A o \in opened.screening : m.screening[o] = none
  BY <1>4
<1> HIDE DEF m
<1>7. Trail(<<>>, from, from - 1)
  BY DEF Trail
<1>8. m.t \in from..EncounterWindow /\ ~(m.t > -EncounterWindow) /\ ~(m.t > from)
  BY <1>1, <1>3, <1>6
<1>9. UnderWay(m, world, opened.screening)
  BY <1>5, <1>6, <1>7, <1>8 DEF UnderWay, from, none
<1>10. m # NothingYet
  BY <1>9, NoFlight
<1>11. QED
  BY <1>6, <1>9, <1>10 DEF m

\* A step of the integration keeps what is the closest so far.
LEMMA IntegrateKeepsFlight ==
  ASSUME OpenedInv, trajectory # NothingYet, UnderWay(trajectory, world, opened.screening), Integrate
  PROVE  UnderWay(trajectory', world, opened.screening) /\ trajectory'.of = trajectory.of
<1> DEFINE m == trajectory
           n == trajectory'
           i == trajectory.of
           S == opened.screening
           o == world.orbits[Maneuvers[i].id]
           from == -Maneuvers[i].lead
           none == [at |-> from, d |-> Infinity]
           t == trajectory.t
           u == NextInstant(t)
<1>1. /\ m \in Trajectories(S) /\ i \in DOMAIN Maneuvers /\ t \in from..EncounterWindow
      /\ IF t > -EncounterWindow THEN NearestOver(m.best, o.pair, -EncounterWindow, t) ELSE m.best = none
      /\ \A p \in S : IF t > from THEN NearestOver(m.screening[p], o.peers[p], from, t) ELSE m.screening[p] = none
      /\ Trail(m.samples, from, t - 1)
      /\ IF t > from THEN m.samples # <<>> /\ m.samples[1] = from ELSE m.samples = <<>> /\ m.steps = 0
  BY DEF UnderWay
<1>2. /\ Maneuvers[i].lead \in Nat /\ EncounterWindow \in Nat \ {0} /\ Maneuvers[i].lead > EncounterWindow /\ Infinity \in Nat
  BY <1>1, CandidateNumbers, ManeuverAssumption
<1>3. from \in Int /\ t \in Int /\ from < -EncounterWindow /\ none \in Approaches /\ t < EncounterWindow
  BY <1>1, <1>2 DEF Integrate, Approaches
<1>4. u \in Int /\ t < u /\ u <= EncounterWindow /\ (t < -EncounterWindow => u <= -EncounterWindow)
  BY <1>3, NextIsAfter
<1>5. world \in Worlds /\ S \subseteq Screened
  BY DEF OpenedInv
<1>6. /\ o.pair \in Paths /\ \A x \in from..EncounterWindow : Sep(o.pair, x) < Infinity
      /\ \A p \in S : o.peers[p] \in Paths /\ \A x \in from..EncounterWindow : Sep(o.peers[p], x) < Infinity
  BY <1>1, <1>5, WorldOfPaths
<1>7. n = [m EXCEPT
             !.t = u, !.steps = @ + 1, !.samples = WithSample(m),
             !.best = IF t >= -EncounterWindow THEN Nearer(@, o.pair, t, u) ELSE @,
             !.screening = [p \in DOMAIN @ |-> Nearer(@[p], o.peers[p], t, u)]]
  BY DEF Integrate, Orbit
<1>8. /\ n = [of |-> i, t |-> u, steps |-> m.steps + 1, samples |-> WithSample(m),
              best |-> IF t >= -EncounterWindow THEN Nearer(m.best, o.pair, t, u) ELSE m.best,
              screening |-> [p \in S |-> Nearer(m.screening[p], o.peers[p], t, u)]]
      /\ m.steps \in Nat /\ i \in Nat /\ m.best \in Approaches /\ \A p \in S : m.screening[p] \in Approaches
  <2>1. /\ m = [of |-> i, t |-> t, steps |-> m.steps, samples |-> m.samples, best |-> m.best, screening |-> m.screening]
        /\ DOMAIN m.screening = S
        /\ m.steps \in Nat /\ i \in Nat /\ m.best \in Approaches /\ \A p \in S : m.screening[p] \in Approaches
    BY <1>1 DEF Trajectories
  <2> HIDE DEF u, o, t, S
  <2>2. QED
    BY <1>7, <2>1
<1> HIDE DEF from, none, u, o
<1>9. n.of = i /\ n.t = u /\ n.samples = WithSample(m)
      /\ n.best = (IF t >= -EncounterWindow THEN Nearer(m.best, o.pair, t, u) ELSE m.best)
      /\ \A p \in S : n.screening[p] = Nearer(m.screening[p], o.peers[p], t, u)
  BY <1>8
\* The closest approach: from the start of the window on.
<1>10. /\ n.best \in Approaches
       /\ IF u > -EncounterWindow THEN NearestOver(n.best, o.pair, -EncounterWindow, u) ELSE n.best = none
  <2>1. CASE t < -EncounterWindow
    <3>1. n.best = none /\ ~(u > -EncounterWindow)
      BY <1>1, <1>2, <1>3, <1>4, <1>9, <2>1
    <3>2. QED
      BY <1>3, <3>1
  <2>2. CASE t = -EncounterWindow
    <3>1. m.best = none /\ u > -EncounterWindow /\ n.best = Nearer(m.best, o.pair, t, u)
      BY <1>1, <1>2, <1>3, <1>4, <1>9, <2>2
    <3>2. \A x \in t..u : Sep(o.pair, x) < m.best.d
      <4>1. none.d = Infinity
        BY DEF none
      <4>2. \A x \in t..u : x \in from..EncounterWindow
        BY <1>1, <1>2, <1>3, <1>4
      <4>3. QED
        BY <1>6, <3>1, <4>1, <4>2
    <3>3. t <= u
      BY <1>3, <1>4
    <3>4. n.best \in Approaches /\ NearestOver(n.best, o.pair, t, u)
      BY <1>3, <1>4, <1>6, <1>8, <3>1, <3>2, <3>3, NearestStarts
    <3>5. QED
      BY <2>2, <3>1, <3>4
  <2>3. CASE t > -EncounterWindow
    <3>1. NearestOver(m.best, o.pair, -EncounterWindow, t) /\ n.best = Nearer(m.best, o.pair, t, u)
          /\ u > -EncounterWindow /\ -EncounterWindow \in Int /\ -EncounterWindow <= t /\ t <= u
      BY <1>1, <1>2, <1>3, <1>4, <1>9, <2>3
    <3>2. n.best \in Approaches /\ NearestOver(n.best, o.pair, -EncounterWindow, u)
      BY <1>3, <1>4, <1>6, <1>8, <3>1, NearestGrows
    <3>3. QED
      BY <3>1, <3>2
  <2>4. QED
    BY <1>2, <1>3, <2>1, <2>2, <2>3
\* The screening: from the burn on.
<1>11. ASSUME NEW p \in S
       PROVE  n.screening[p] \in Approaches /\ NearestOver(n.screening[p], o.peers[p], from, u)
  <2>1. n.screening[p] = Nearer(m.screening[p], o.peers[p], t, u) /\ m.screening[p] \in Approaches /\ o.peers[p] \in Paths
    BY <1>6, <1>8, <1>9
  <2>2. t <= u /\ from <= t
    BY <1>1, <1>3, <1>4
  <2>3. CASE t > from
    <3>1. NearestOver(m.screening[p], o.peers[p], from, t)
      BY <1>1, <2>3
    <3>2. QED
      BY <1>3, <1>4, <2>1, <2>2, <3>1, NearestGrows
  <2>4. CASE ~(t > from)
    <3>1. m.screening[p] = none /\ t = from
      BY <1>1, <1>3, <2>2, <2>4
    <3>2. \A x \in t..u : Sep(o.peers[p], x) < m.screening[p].d
      <4>1. none.d = Infinity
        BY DEF none
      <4>2. \A x \in t..u : x \in from..EncounterWindow
        BY <1>1, <1>2, <1>3, <1>4
      <4>3. QED
        BY <1>6, <3>1, <4>1, <4>2
    <3>3. QED
      BY <1>3, <1>4, <2>1, <2>2, <3>1, <3>2, NearestStarts
  <2>5. QED
    BY <2>3, <2>4
\* The samples: the burn is one of them.
<1>12. Trail(n.samples, from, u - 1) /\ n.samples # <<>> /\ n.samples[1] = from
  <2>1. n.samples = Append(m.samples, t) \/ n.samples = m.samples
    BY <1>9 DEF WithSample
  <2>2. m.samples \in Seq(Int)
    BY <1>1 DEF Trail
  <2>3. CASE t > from
    <3>1. Trail(m.samples, from, t - 1) /\ m.samples # <<>> /\ m.samples[1] = from
      BY <1>1, <2>3
    <3>2. Trail(Append(m.samples, t), from, t)
      BY <1>3, <2>3, <3>1, TrailGrows
    <3>3. Append(m.samples, t) # <<>> /\ Append(m.samples, t)[1] = from
      <4>1. Len(m.samples) \in Nat \ {0}
        BY <2>2, <3>1, EmptySeq, LenProperties
      <4>2. Append(m.samples, t)[1] = m.samples[1] /\ Len(Append(m.samples, t)) = Len(m.samples) + 1
        BY <1>3, <2>2, <4>1, AppendProperties
      <4>3. QED
        BY <3>1, <4>1, <4>2
    <3>4. t - 1 <= u - 1 /\ t <= u - 1 /\ {t, t - 1, u - 1} \subseteq Int
      BY <1>3, <1>4
    <3>5. CASE n.samples = m.samples
      BY <1>3, <3>1, <3>4, <3>5, TrailWidens
    <3>6. CASE n.samples = Append(m.samples, t)
      BY <1>3, <3>2, <3>3, <3>4, <3>6, TrailWidens
    <3>7. QED
      BY <2>1, <3>5, <3>6
  <2>4. CASE ~(t > from)
    <3>1. t = from /\ m.samples = <<>> /\ m.steps = 0
      BY <1>1, <1>3, <2>4
    <3>2. m.steps % Stride(Maneuvers[i]) = 0
      <4>1. Stride(Maneuvers[i]) \in Nat \ {0}
        BY <1>1, StrideIsPositive
      <4> HIDE DEF i
      <4>2. 0 % Stride(Maneuvers[i]) = 0
        BY <4>1
      <4>3. QED
        BY <3>1, <4>2
    <3>3. n.samples = Append(<<>>, t)
      BY <1>9, <3>1, <3>2 DEF WithSample
    <3>4. Trail(<<>>, from, t - 1) /\ from <= t
      BY <1>1, <1>3, <3>1
    <3>5. Trail(n.samples, from, t)
      BY <1>3, <3>3, <3>4, TrailGrows
    <3>6. n.samples # <<>> /\ n.samples[1] = from
      BY <3>1, <3>3
    <3>7. t <= u - 1 /\ {t, u - 1} \subseteq Int
      BY <1>3, <1>4
    <3>8. QED
      BY <1>3, <3>5, <3>6, <3>7, TrailWidens
  <2>5. QED
    BY <2>3, <2>4
<1>13. n \in Trajectories(S)
  <2>1. n.samples \in Seq(Int) /\ u \in Int /\ m.steps + 1 \in Nat
    BY <1>4, <1>8, <1>12 DEF Trail
  <2>2. [p \in S |-> Nearer(m.screening[p], o.peers[p], t, u)] \in [S -> Approaches]
    BY <1>9, <1>11
  <2>3. n.samples = WithSample(m)
    BY <1>9
  <2>4. n.best \in Approaches
    BY <1>10
  <2> DEFINE best == IF t >= -EncounterWindow THEN Nearer(m.best, o.pair, t, u) ELSE m.best
             screening == [p \in S |-> Nearer(m.screening[p], o.peers[p], t, u)]
  <2>5. n.best = best /\ n = [of |-> i, t |-> u, steps |-> m.steps + 1, samples |-> WithSample(m),
                              best |-> best, screening |-> screening]
    BY <1>8, <1>9
  <2>6. best \in Approaches /\ screening \in [S -> Approaches] /\ WithSample(m) \in Seq(Int) /\ i \in Nat
    BY <1>8, <2>1, <2>2, <2>3, <2>4, <2>5
  <2> HIDE DEF best, screening
  <2>7. QED
    BY <2>1, <2>5, <2>6 DEF Trajectories
<1>14. n.t \in from..EncounterWindow /\ n.t > from
  BY <1>1, <1>3, <1>4, <1>9
<1>15. \A p \in S : IF n.t > from THEN NearestOver(n.screening[p], o.peers[p], from, n.t) ELSE n.screening[p] = none
  BY <1>9, <1>11, <1>14
<1>16. /\ IF n.t > -EncounterWindow THEN NearestOver(n.best, o.pair, -EncounterWindow, n.t) ELSE n.best = none
       /\ Trail(n.samples, from, n.t - 1)
       /\ IF n.t > from THEN n.samples # <<>> /\ n.samples[1] = from ELSE n.samples = <<>> /\ n.steps = 0
  BY <1>9, <1>10, <1>12, <1>14
<1>17. UnderWay(n, world, S)
  <2>1. n.of = i
    BY <1>9
  <2>2. QED
    BY <1>1, <1>13, <1>14, <1>15, <1>16, <2>1 DEF UnderWay, from, none, o
<1>18. QED
  BY <1>9, <1>17

\* A trajectory that reached the window's end gives the candidate's result.
Measured(m, S) ==
  [id |-> Maneuvers[m.of].id, dv |-> Maneuvers[m.of].dv, at |-> m.best.at, miss |-> m.best.d, pc |-> Unpriced,
   samples |-> Append(m.samples, EncounterWindow),
   boundaryMinimum |-> Abs(m.best.at) = EncounterWindow,
   clear |-> \A p \in DOMAIN m.screening : m.screening[p].d >= ScreeningDistance]

LEMMA MeasuredIsEvaluated ==
  ASSUME OpenedInv, NEW m, UnderWay(m, world, opened.screening), m.t = EncounterWindow
  PROVE  /\ Measured(m, opened.screening) \in Results
         /\ Evaluated(Measured(m, opened.screening), m.of, world, opened.screening)
<1> DEFINE i == m.of
           S == opened.screening
           o == world.orbits[Maneuvers[i].id]
           from == -Maneuvers[i].lead
           r == Measured(m, S)
           clear == \A p \in DOMAIN m.screening : m.screening[p].d >= ScreeningDistance
           atEdge == Abs(m.best.at) = EncounterWindow
<1>1. /\ m \in Trajectories(S) /\ i \in DOMAIN Maneuvers
      /\ m.t > -EncounterWindow => NearestOver(m.best, o.pair, -EncounterWindow, m.t)
      /\ \A p \in S : m.t > from => NearestOver(m.screening[p], o.peers[p], from, m.t)
      /\ Trail(m.samples, from, m.t - 1)
      /\ m.t > from => m.samples # <<>> /\ m.samples[1] = from
  BY DEF UnderWay
<1>2. /\ Maneuvers[i].lead \in Nat /\ EncounterWindow \in Nat \ {0} /\ Maneuvers[i].lead > EncounterWindow
      /\ Maneuvers[i].id \in STRING /\ Maneuvers[i].dv \in Nat /\ ScreeningDistance \in Nat
  BY <1>1, CandidateNumbers, ManeuverAssumption
<1>3. from \in Int /\ from < EncounterWindow /\ -EncounterWindow < EncounterWindow
  BY <1>2
<1>4. NearestOver(m.best, o.pair, -EncounterWindow, EncounterWindow)
  BY <1>1, <1>3
<1>5. \A p \in S : NearestOver(m.screening[p], o.peers[p], from, EncounterWindow)
  BY <1>1, <1>3
<1>6. /\ Trail(m.samples, from, EncounterWindow - 1) /\ m.samples # <<>> /\ m.samples[1] = from /\ m.samples \in Seq(Int)
  BY <1>1, <1>3 DEF Trail
<1>7. m.best \in Approaches /\ m.screening \in [S -> Approaches] /\ DOMAIN m.screening = S
  BY <1>1 DEF Trajectories
<1> HIDE DEF from, o
<1>8. r = [id |-> Maneuvers[i].id, dv |-> Maneuvers[i].dv, at |-> m.best.at, miss |-> m.best.d, pc |-> Unpriced,
           samples |-> Append(m.samples, EncounterWindow), boundaryMinimum |-> atEdge, clear |-> clear]
  BY DEF Measured
<1>9. atEdge \in BOOLEAN /\ clear \in BOOLEAN
  OBVIOUS
<1> HIDE DEF r, atEdge, clear
<1>10. m.best.at \in Int /\ m.best.d \in Int /\ [at |-> m.best.at, d |-> m.best.d] = m.best
  BY <1>7 DEF Approaches
<1>11. Trail(Append(m.samples, EncounterWindow), from, EncounterWindow)
  BY <1>2, <1>3, <1>6, TrailGrows
<1>12. r \in Results
  <2>1. Append(m.samples, EncounterWindow) \in Seq(Int) /\ Unpriced \in Levels
    BY <1>11 DEF Trail, Levels
  <2>2. QED
    BY <1>2, <1>8, <1>9, <1>10, <2>1 DEF Results
<1>13. /\ Append(m.samples, EncounterWindow) # <<>> /\ Append(m.samples, EncounterWindow)[1] = from
       /\ Append(m.samples, EncounterWindow)[Len(Append(m.samples, EncounterWindow))] = EncounterWindow
  <2>1. Len(m.samples) \in Nat \ {0} /\ EncounterWindow \in Int
    BY <1>2, <1>6, EmptySeq, LenProperties
  <2>2. /\ Append(m.samples, EncounterWindow)[1] = m.samples[1]
        /\ Len(Append(m.samples, EncounterWindow)) = Len(m.samples) + 1
        /\ Append(m.samples, EncounterWindow)[Len(m.samples) + 1] = EncounterWindow
    BY <1>6, <2>1, AppendProperties
  <2>3. QED
    BY <1>6, <2>1, <2>2
<1>14. clear = \A p \in S : \A t \in from..EncounterWindow : Sep(o.peers[p], t) >= ScreeningDistance
  <2>1. ASSUME NEW p \in S
        PROVE  m.screening[p].d >= ScreeningDistance <=> \A t \in from..EncounterWindow : Sep(o.peers[p], t) >= ScreeningDistance
    <3>1. /\ m.screening[p].at \in from..EncounterWindow /\ m.screening[p].d = Sep(o.peers[p], m.screening[p].at)
          /\ \A t \in from..EncounterWindow : m.screening[p].d <= Sep(o.peers[p], t)
          /\ m.screening[p].d \in Int
      BY <1>5, <1>7 DEF NearestOver, Approaches
    <3>2. \A t \in from..EncounterWindow : Sep(o.peers[p], t) \in Int
      <4>1. world \in Worlds /\ S \subseteq Screened
        BY DEF OpenedInv
      <4>2. o.peers[p] \in Paths
        BY <1>1, <4>1, WorldOfPaths DEF o
      <4>3. QED
        BY <1>3, <4>2, SepIsInt
    <3>3. QED
      BY <1>2, <3>1, <3>2
  <2>2. QED
    BY <1>7, <2>1 DEF clear
<1>15. /\ r.id = Maneuvers[i].id /\ r.dv = Maneuvers[i].dv /\ r.at = m.best.at /\ r.miss = m.best.d
       /\ r.samples = Append(m.samples, EncounterWindow) /\ r.boundaryMinimum = atEdge /\ r.clear = clear
  BY <1>8
<1>16. Evaluated(r, i, world, S)
  <2>1. NearestOver([at |-> r.at, d |-> r.miss], o.pair, -EncounterWindow, EncounterWindow)
    BY <1>4, <1>10, <1>15
  <2>2. r.boundaryMinimum = (Abs(r.at) = EncounterWindow)
    BY <1>15 DEF atEdge
  <2>3. r.clear = \A p \in S : \A t \in from..EncounterWindow : Sep(o.peers[p], t) >= ScreeningDistance
    BY <1>14, <1>15
  <2>4. Trail(r.samples, from, EncounterWindow) /\ r.samples # <<>>
        /\ r.samples[1] = from /\ r.samples[Len(r.samples)] = EncounterWindow
    BY <1>11, <1>13, <1>15
  <2>5. QED
    BY <1>15, <2>1, <2>2, <2>3, <2>4, Zenon DEF Evaluated, from, o
<1>17. QED
  BY <1>12, <1>16 DEF r

LEMMA ArriveKeepsResults == ASSUME OpenedInv, FlightInv, Arrive PROVE FlightInv'
<1> DEFINE r == Measured(trajectory, opened.screening)
           N == Len(results)
<1>1. /\ trajectory # NothingYet /\ trajectory.t = EncounterWindow /\ phase = "flying"
      /\ UnderWay(trajectory, world, opened.screening) /\ trajectory.of = N + 1
  BY DEF Arrive, FlightInv
<1>2. r \in Results /\ Evaluated(r, N + 1, world, opened.screening)
  <2>1. r \in Results /\ Evaluated(r, trajectory.of, world, opened.screening)
    BY <1>1, MeasuredIsEvaluated
  <2>2. QED
    BY <1>1, <2>1
<1>3. /\ results' = Append(results, r) /\ trajectory' = NothingYet /\ world' = world /\ opened' = opened
      /\ phase' = IF trajectory.of = Len(Maneuvers) THEN "pricing" ELSE phase
  BY DEF Arrive, Measured
<1>4. results \in Seq(Results) /\ N \in Nat /\ DOMAIN results = 1..N
      /\ \A i \in DOMAIN results : Evaluated(results[i], i, world, opened.screening)
  BY LenProperties DEF FlightInv
<1>5. N + 1 <= Len(Maneuvers)
  <2>1. trajectory.of \in DOMAIN Maneuvers /\ DOMAIN Maneuvers = 1..Len(Maneuvers)
    BY <1>1, ManeuverAssumption, LenProperties DEF UnderWay
  <2>2. QED
    BY <1>1, <2>1
<1> HIDE DEF r, N
<1>6. /\ results' \in Seq(Results) /\ Len(results') = N + 1 /\ DOMAIN results' = 1..(N + 1)
      /\ \A i \in 1..N : results'[i] = results[i]
      /\ results'[N + 1] = r
  BY <1>2, <1>3, <1>4, AppendProperties, LenProperties DEF N
<1>7. \A i \in DOMAIN results' : Evaluated(results'[i], i, world, opened.screening)
  <2> TAKE i \in DOMAIN results'
  <2>1. CASE i = N + 1
    BY <1>2, <1>6, <2>1
  <2>2. CASE i \in 1..N
    BY <1>4, <1>6, <2>2
  <2>3. QED
    BY <1>4, <1>6, <2>1, <2>2
<1>8. phase' = "flying" \/ (phase' = "pricing" /\ N + 1 = Len(Maneuvers))
  BY <1>1, <1>3
<1>9. QED
  BY <1>3, <1>5, <1>6, <1>7, <1>8 DEF FlightInv, Integrated

\* A result qualifies exactly if the maneuver is what it must be.
LEMMA QualifiesIsSound ==
  ASSUME OpenedInv, NEW i \in DOMAIN Maneuvers, NEW r \in Results,
         Evaluated(r, i, world, opened.screening), r.pc = Probability(r)
  PROVE  Qualifies(r) <=> Sound(Maneuvers[i])
<1> DEFINE o == world.orbits[Maneuvers[i].id]
           b == [at |-> r.at, d |-> r.miss]
<1>1. /\ r.id = Maneuvers[i].id /\ r.dv = Maneuvers[i].dv
      /\ NearestOver(b, o.pair, -EncounterWindow, EncounterWindow)
      /\ r.boundaryMinimum = (Abs(r.at) = EncounterWindow)
      /\ r.clear = \A p \in opened.screening : \A t \in -Maneuvers[i].lead..EncounterWindow : Sep(o.peers[p], t) >= ScreeningDistance
  BY DEF Evaluated
<1>2. o.pair \in Paths /\ o.pc \in Levels /\ opened.sigma \in BOOLEAN /\ opened.covariances \in BOOLEAN
  BY WorldOfPaths DEF OpenedInv
<1>3. b \in Approaches /\ b.at = r.at
  BY DEF Results, Approaches
<1>4. ~r.boundaryMinimum <=> \E t \in Interior : \A u \in Whole : Sep(o.pair, t) <= Sep(o.pair, u)
  <2> HIDE DEF o, b
  <2>1. Abs(b.at) # EncounterWindow <=> \E t \in Interior : \A u \in Whole : Sep(o.pair, t) <= Sep(o.pair, u)
    BY <1>1, <1>2, <1>3, InsideIsTurning
  <2>2. QED
    BY <1>1, <1>3, <2>1
<1>5. r.dv > 0 /\ r.pc # Unpriced /\ r.pc <= Goal
        <=> Maneuvers[i].dv > 0 /\ opened.sigma /\ opened.covariances /\ o.pc # Unpriced /\ o.pc <= Goal
  <2>1. r.pc = IF opened.covariances /\ (r.dv = 0 \/ opened.sigma) THEN o.pc ELSE Unpriced
    BY <1>1 DEF Probability
  <2>2. r.dv \in Nat
    BY DEF Results
  <2> HIDE DEF o
  <2>3. QED
    BY <1>1, <1>2, <2>1, <2>2
<1> HIDE DEF o, b
<1>6. Sound(Maneuvers[i]) <=>
        /\ Maneuvers[i].dv > 0 /\ opened.sigma /\ opened.covariances /\ o.pc # Unpriced /\ o.pc <= Goal
        /\ \E t \in Interior : \A u \in Whole : Sep(o.pair, t) <= Sep(o.pair, u)
        /\ \A p \in opened.screening : \A t \in -Maneuvers[i].lead..EncounterWindow : Sep(o.peers[p], t) >= ScreeningDistance
  BY DEF Sound, Orbit, o
<1>7. Qualifies(r) <=> (r.dv > 0 /\ r.pc # Unpriced /\ r.pc <= Goal) /\ ~r.boundaryMinimum /\ r.clear
  BY DEF Qualifies
<1>8. QED
  BY <1>1, <1>4, <1>5, <1>6, <1>7

\* Of some results one comes before all others: the cheapest, of those the least
\* probable, of those the first.
LEMMA OneComesFirst ==
  ASSUME NEW Q, Q \subseteq Nat, Q # {}, \A i \in Q : results[i].dv \in Nat /\ results[i].pc \in Nat
  PROVE  \E i \in Q : \A j \in Q : Before(i, j)
<1> DEFINE D == {results[i].dv : i \in Q}
<1>1. PICK i1 \in Q : \A j \in Q : results[i1].dv <= results[j].dv
  <2>1. D \subseteq Nat /\ D # {}
    OBVIOUS
  <2>2. PICK d \in D : \A e \in D : d <= e
    <3> HIDE DEF D
    <3>1. QED
      BY <2>1, HasLeast
  <2>3. QED
    BY <2>2
<1> DEFINE Q2 == {i \in Q : results[i].dv = results[i1].dv}
           P == {results[i].pc : i \in Q2}
<1>2. PICK i2 \in Q2 : \A j \in Q2 : results[i2].pc <= results[j].pc
  <2>1. P \subseteq Nat /\ P # {}
    OBVIOUS
  <2>2. PICK d \in P : \A e \in P : d <= e
    <3> HIDE DEF P
    <3>1. QED
      BY <2>1, HasLeast
  <2>3. QED
    BY <2>2
<1> DEFINE Q3 == {i \in Q2 : results[i].pc = results[i2].pc}
<1>3. PICK i3 \in Q3 : \A j \in Q3 : i3 <= j
  <2>1. Q3 \subseteq Nat /\ Q3 # {}
    BY <1>2
  <2> HIDE DEF Q3
  <2>2. QED
    BY <2>1, HasLeast
<1>4. i3 \in Q /\ results[i3].dv = results[i1].dv /\ results[i3].pc = results[i2].pc
  BY <1>3
<1>5. ASSUME NEW j \in Q PROVE Before(i3, j)
  <2>1. results[i3].dv <= results[j].dv /\ results[j].dv \in Nat /\ results[i3].dv \in Nat
        /\ results[j].pc \in Nat /\ results[i3].pc \in Nat
    BY <1>1, <1>4
  <2>2. CASE results[j].dv # results[i1].dv
    BY <1>4, <2>1, <2>2 DEF Before
  <2>3. CASE results[j].dv = results[i1].dv /\ results[j].pc # results[i2].pc
    <3>1. j \in Q2
      BY <2>3
    <3>2. results[i2].pc <= results[j].pc
      BY <1>2, <3>1
    <3>3. QED
      BY <1>4, <2>1, <2>3, <3>2 DEF Before
  <2>4. CASE results[j].dv = results[i1].dv /\ results[j].pc = results[i2].pc
    <3>1. j \in Q3
      BY <2>4
    <3>2. i3 <= j
      BY <1>3, <3>1
    <3>3. QED
      BY <1>4, <2>1, <2>4, <3>2 DEF Before
  <2>5. QED
    BY <2>2, <2>3, <2>4
<1>6. QED
  BY <1>4, <1>5

\* The recommendation, of an analysis that is integrated and priced.
LEMMA DecideIsSound ==
  ASSUME OpenedInv, FlightInv, PriceInv, TradeInv, Decide
  PROVE  RecommendationSound' /\ decision'.status \in {"monitor", "maneuver", "insufficient-data", "no-feasible"}
<1> DEFINE dear == {i \in DOMAIN results : results[i].dv > 0}
           qualifying == {i \in dear : Qualifies(results[i])}
           status == IF world.pc <= Action THEN "monitor" ELSE IF qualifying # {} THEN "maneuver"
                     ELSE IF \E i \in dear : results[i].pc = Unpriced THEN "insufficient-data" ELSE "no-feasible"
           first == CHOOSE i \in qualifying : \A j \in qualifying : Before(i, j)
           sound == {i \in DOMAIN Maneuvers : Sound(Maneuvers[i])}
<1>1. phase = "deciding" /\ decision' = Recommendation /\ UNCHANGED <<world, opened, trajectory, results, tradeSpace>>
  BY DEF Decide
<1>2. /\ results \in Seq(Results) /\ DOMAIN results = DOMAIN Maneuvers /\ DOMAIN results \subseteq Nat
      /\ \A i \in DOMAIN results : results[i] \in Results /\ Evaluated(results[i], i, world, opened.screening)
                                     /\ results[i].pc = Probability(results[i])
  <2>1. results \in Seq(Results) /\ Len(results) = Len(Maneuvers)
        /\ \A i \in DOMAIN results : Evaluated(results[i], i, world, opened.screening)
    BY <1>1 DEF FlightInv, Integrated
  <2>2. DOMAIN results = 1..Len(results) /\ DOMAIN Maneuvers = 1..Len(Maneuvers) /\ Len(results) \in Nat
    BY <2>1, ManeuverAssumption, LenProperties
  <2>3. \A i \in DOMAIN results : results[i] \in Results
    BY <2>1, <2>2, ElementOfSeq
  <2>4. \A i \in DOMAIN results : results[i].pc = Probability(results[i])
    BY <1>1 DEF PriceInv
  <2>5. QED
    BY <2>1, <2>2, <2>3, <2>4
<1>3. \A i \in DOMAIN Maneuvers : Qualifies(results[i]) <=> Sound(Maneuvers[i])
  BY <1>2, QualifiesIsSound
<1>4. qualifying = sound /\ qualifying \subseteq DOMAIN results
  <2>1. \A i \in DOMAIN results : Qualifies(results[i]) => results[i].dv > 0
    BY DEF Qualifies
  <2>2. QED
    BY <1>2, <1>3, <2>1
<1>5. /\ decision'.status = status
      /\ decision'.recommended = IF status = "maneuver" THEN results[first].id ELSE "none"
  BY <1>1 DEF Recommendation
<1>6. world.pc \in Nat
  <2>1. world.pc # Unpriced /\ world \in Worlds
    BY <1>1 DEF PriceInv, OpenedInv
  <2>2. QED
    BY <2>1, WorldsAssumption DEF Levels
<1>7. Action \in Nat /\ Goal \in Nat
  BY ManeuverAssumption
<1>8. qualifying # {} => first \in qualifying /\ \A j \in qualifying : Before(first, j)
  <2> SUFFICES ASSUME qualifying # {} PROVE first \in qualifying /\ \A j \in qualifying : Before(first, j)
    OBVIOUS
  <2>1. qualifying \subseteq Nat
    BY <1>2, <1>4
  <2>2. \A i \in qualifying : results[i].dv \in Nat /\ results[i].pc \in Nat
    <3> TAKE i \in qualifying
    <3>1. results[i] \in Results /\ results[i].pc # Unpriced
      BY <1>2, <1>4 DEF Qualifies
    <3>2. QED
      BY <3>1 DEF Results, Levels
  <2>3. \E i \in qualifying : \A j \in qualifying : Before(i, j)
    <3> HIDE DEF qualifying
    <3>1. QED
      BY <2>1, <2>2, OneComesFirst
  <2> HIDE DEF qualifying
  <2>4. QED
    BY <2>3
<1>9. status = "monitor" <=> world.pc <= Action
  OBVIOUS
<1>10. world.pc > Action => (status = "maneuver" <=> qualifying # {})
  <2> HIDE DEF qualifying, dear
  <2>1. QED
    BY <1>6, <1>7
<1>11. status = "maneuver" =>
         \E i \in sound : Maneuvers[i].id = decision'.recommended /\ \A j \in sound : Maneuvers[i].dv <= Maneuvers[j].dv
  <2> SUFFICES ASSUME status = "maneuver"
               PROVE  \E i \in sound : Maneuvers[i].id = decision'.recommended /\ \A j \in sound : Maneuvers[i].dv <= Maneuvers[j].dv
    OBVIOUS
  <2>1. qualifying # {}
    <3> HIDE DEF qualifying, dear
    <3>1. QED
      OBVIOUS
  <2>2. first \in sound /\ \A j \in sound : Before(first, j)
    <3> HIDE DEF qualifying, sound, first
    <3>1. QED
      BY <1>4, <1>8, <2>1
  <2> HIDE DEF first, status, qualifying, dear
  <2>3. decision'.recommended = results[first].id
    BY <1>5
  <2>4. \A j \in sound : j \in DOMAIN results /\ results[j].id = Maneuvers[j].id /\ results[j].dv = Maneuvers[j].dv /\ results[j].dv \in Nat
    <3> TAKE j \in sound
    <3>1. j \in DOMAIN results
      BY <1>4
    <3>2. results[j] \in Results /\ Evaluated(results[j], j, world, opened.screening)
      BY <1>2, <3>1
    <3>3. QED
      BY <3>1, <3>2 DEF Results, Evaluated
  <2> HIDE DEF sound
  <2>5. \A j \in sound : Maneuvers[first].dv <= Maneuvers[j].dv
    <3> TAKE j \in sound
    <3>1. results[first].dv <= results[j].dv
      <4>1. Before(first, j) /\ results[first].dv \in Nat /\ results[j].dv \in Nat
        BY <2>2, <2>4
      <4>2. QED
        BY <4>1 DEF Before
    <3>2. QED
      BY <2>2, <2>4, <3>1
  <2>6. QED
    BY <2>2, <2>3, <2>4, <2>5
<1>12. sound' = sound
  <2>1. UNCHANGED <<world, opened>>
    BY <1>1
  <2>2. QED
    BY <2>1 DEF Sound, Orbit
<1>13. RecommendationSound'
  <2>1. world' = world
    BY <1>1
  <2> HIDE DEF status, qualifying, dear, first
  <2>2. /\ (decision'.status = "monitor" <=> world.pc <= Action)
        /\ (world.pc > Action => (decision'.status = "maneuver" <=> sound # {}))
        /\ (decision'.status = "maneuver" =>
              \E i \in sound : Maneuvers[i].id = decision'.recommended /\ \A j \in sound : Maneuvers[i].dv <= Maneuvers[j].dv)
    BY <1>4, <1>5, <1>9, <1>10, <1>11
  <2>3. RecommendationSound' =
          (phase' = "done" =>
             /\ (decision'.status = "monitor" <=> world'.pc <= Action)
             /\ (world'.pc > Action => (decision'.status = "maneuver" <=> sound' # {}))
             /\ (decision'.status = "maneuver" =>
                   \E i \in sound' : Maneuvers[i].id = decision'.recommended /\ \A j \in sound' : Maneuvers[i].dv <= Maneuvers[j].dv))
    BY DEF RecommendationSound
  <2> HIDE DEF sound
  <2>4. QED
    BY <1>12, <2>1, <2>2, <2>3
<1>14. status \in {"monitor", "maneuver", "insufficient-data", "no-feasible"}
  <2> HIDE DEF qualifying, dear
  <2>1. QED
    OBVIOUS
<1>15. QED
  BY <1>5, <1>13, <1>14

LEMMA TradedLeads == TradeInv => tradeSpace.leads \subseteq Leads /\ Leads \subseteq Nat
<1>1. Leads \subseteq Nat
  BY ManeuverAssumption DEF Leads
<1>2. NoTradeSpace.leads = {}
  BY DEF NoTradeSpace
<1>3. QED
  BY <1>1, <1>2, Zenon DEF TradeInv

LEMMA DecideIsLatest == ASSUME TradeInv, Decide PROVE LatestIsLast'
<1> DEFINE answered == {l \in tradeSpace.leads : tradeSpace.least[l] # NoBurn}
<1>1. decision'.estimate = Estimate /\ UNCHANGED tradeSpace
  BY DEF Decide, Recommendation
<1>2. SUFFICES ASSUME Estimate # <<>>, NEW l \in answered PROVE l >= Estimate[2]
  BY <1>1 DEF LatestIsLast
<1>3. answered \subseteq Nat /\ answered # {}
  BY TradedLeads
<1>4. Estimate[2] = LeastOf(answered)
  BY <1>2 DEF Estimate
<1> HIDE DEF answered
<1>5. LeastOf(answered) \in answered /\ \A x \in answered : LeastOf(answered) <= x
  <2>1. answered \subseteq Int /\ 0 \in Int /\ \A x \in answered : x >= 0
    BY <1>3
  <2>2. QED
    BY <1>3, <2>1, LeastAbove
<1>6. QED
  BY <1>2, <1>3, <1>4, <1>5

LEMMA AnalysisStart == ManeuverInit => AnalysisInv
<1> SUFFICES ASSUME ManeuverInit PROVE AnalysisInv
  OBVIOUS
<1>1. OpenedInv
  BY DEF ManeuverInit, OpenedInv
<1>2. FlightInv
  <2>1. results = <<>> /\ results \in Seq(Results) /\ Len(results) = 0 /\ DOMAIN results = {}
    BY DEF ManeuverInit
  <2>2. Len(Maneuvers) \in Nat
    BY ManeuverAssumption, LenProperties
  <2>3. QED
    BY <2>1, <2>2 DEF ManeuverInit, FlightInv, Integrated
<1>3. PriceInv /\ TradeInv /\ DecisionInv
  BY DEF ManeuverInit, PriceInv, TradeInv, DecisionInv, Undecided, RecommendationSound, LatestIsLast
<1>4. QED
  BY <1>1, <1>2, <1>3 DEF AnalysisInv

\* Until the decision nothing is said of it.
LEMMA UndecidedYet ==
  ASSUME DecisionInv, UNCHANGED decision, phase' # "done"
  PROVE  DecisionInv'
BY DEF DecisionInv

LEMMA OpeningKeeps ==
  ASSUME AnalysisInv, OpenScenario \/ OpenCdm
  PROVE  AnalysisInv'
<1>1. /\ phase = "opening" /\ phase' \in {"flying", "refused"}
      /\ UNCHANGED <<world, trajectory, results, tradeSpace, decision>>
  BY DEF OpenScenario, OpenCdm
<1>2. opened' \in [sigma : BOOLEAN, covariances : BOOLEAN, screening : SUBSET Screened]
  <2>1. CASE OpenScenario
    <3>1. world.file.kind # "cdm" /\ world \in Worlds
      BY <2>1 DEF OpenScenario, AnalysisInv, OpenedInv
    <3>2. world.file.sigma \in BOOLEAN /\ world.file.covariances \in BOOLEAN /\ world.file.screening \subseteq Screened
      BY <3>1, WorldsAssumption
    <3>3. opened' = [sigma |-> world.file.sigma, covariances |-> world.file.covariances, screening |-> world.file.screening]
      BY <2>1 DEF OpenScenario
    <3>4. QED
      BY <3>2, <3>3
  <2>2. CASE OpenCdm
    <3>1. ScenarioFromCdm(world.file) \in [sigma : BOOLEAN, covariances : BOOLEAN, screening : SUBSET Screened]
      BY DEF ScenarioFromCdm
    <3>2. QED
      BY <2>2, <3>1 DEF OpenCdm, AnalysisInv, OpenedInv
  <2>3. QED
    BY <2>1, <2>2
<1>3. OpenedInv'
  BY <1>1, <1>2 DEF AnalysisInv, OpenedInv
<1>4. FlightInv'
  <2>1. results = <<>> /\ trajectory = NothingYet /\ FlightInv
    BY <1>1 DEF AnalysisInv, FlightInv
  <2>2. DOMAIN results = {}
    BY <2>1
  <2>3. QED
    BY <1>1, <2>1, <2>2 DEF FlightInv, Integrated
<1>5. PriceInv' /\ TradeInv'
  BY <1>1 DEF AnalysisInv, PriceInv, TradeInv, NoTradeSpace
<1>6. DecisionInv'
  BY <1>1, UndecidedYet DEF AnalysisInv
<1>7. QED
  BY <1>3, <1>4, <1>5, <1>6 DEF AnalysisInv

LEMMA FlyingKeeps ==
  ASSUME AnalysisInv, Burn \/ MeetsEarth \/ Integrate \/ Arrive
  PROVE  AnalysisInv'
<1>1. /\ phase = "flying" /\ phase' \in {"flying", "failed", "pricing"}
      /\ UNCHANGED <<world, opened, tradeSpace, decision>>
      /\ Burn \/ MeetsEarth \/ Integrate => phase' \in {"flying", "failed"} /\ UNCHANGED results
  BY DEF Burn, MeetsEarth, Integrate, Arrive
<1>2. OpenedInv'
  BY <1>1 DEF AnalysisInv, OpenedInv, Integrated
<1>3. FlightInv'
  <2>1. OpenedInv /\ FlightInv
    BY DEF AnalysisInv
  <2>2. CASE Burn \/ MeetsEarth \/ Integrate
    <3>1. trajectory' # NothingYet =>
            UnderWay(trajectory', world, opened.screening) /\ trajectory'.of = Len(results) + 1
      <4>1. CASE Burn
        <5>1. trajectory = NothingYet /\ (trajectory' = trajectory \/ trajectory' = Burned(Len(results) + 1))
              /\ Len(results) < Len(Maneuvers)
          BY <4>1 DEF Burn
        <5>2. Len(results) + 1 \in DOMAIN Maneuvers
          <6>1. DOMAIN Maneuvers = 1..Len(Maneuvers) /\ Len(Maneuvers) \in Nat /\ Len(results) \in Nat
            BY <2>1, ManeuverAssumption, LenProperties DEF FlightInv
          <6>2. QED
            BY <5>1, <6>1
        <5>3. QED
          BY <2>1, <5>1, <5>2, BurnedIsUnderWay
      <4>2. CASE MeetsEarth
        BY <2>1, <4>2 DEF MeetsEarth, FlightInv
      <4>3. CASE Integrate
        <5>1. trajectory # NothingYet /\ UnderWay(trajectory, world, opened.screening) /\ trajectory.of = Len(results) + 1
          BY <2>1, <4>3 DEF Integrate, FlightInv
        <5>2. QED
          BY <2>1, <4>3, <5>1, IntegrateKeepsFlight
      <4>4. QED
        BY <2>2, <4>1, <4>2, <4>3
    <3>2. QED
      BY <1>1, <2>1, <2>2, <3>1 DEF FlightInv, Integrated
  <2>3. CASE Arrive
    BY <2>1, <2>3, ArriveKeepsResults
  <2>4. QED
    BY <2>2, <2>3
<1>4. PriceInv' /\ TradeInv'
  BY <1>1 DEF AnalysisInv, PriceInv, TradeInv, NoTradeSpace
<1>5. DecisionInv'
  BY <1>1, UndecidedYet DEF AnalysisInv
<1>6. QED
  BY <1>2, <1>3, <1>4, <1>5 DEF AnalysisInv

LEMMA PriceKeeps == ASSUME AnalysisInv, Price PROVE AnalysisInv'
<1>1. /\ phase = "pricing" /\ UNCHANGED <<world, opened, trajectory, tradeSpace, decision>>
      /\ phase' = IF world.pc = Unpriced THEN "failed" ELSE "trading"
      /\ results' = [i \in DOMAIN results |-> [results[i] EXCEPT !.pc = Probability(results[i])]]
  BY DEF Price
<1>2. /\ results \in Seq(Results) /\ Len(results) = Len(Maneuvers) /\ trajectory = NothingYet
      /\ \A i \in DOMAIN results : Evaluated(results[i], i, world, opened.screening)
      /\ DOMAIN results = 1..Len(results) /\ Len(results) \in Nat
  BY <1>1, LenProperties DEF AnalysisInv, FlightInv, Integrated
<1>3. ASSUME NEW i \in DOMAIN results
      PROVE  /\ results'[i] \in Results /\ Evaluated(results'[i], i, world, opened.screening)
             /\ results'[i].pc = Probability(results[i]) /\ results'[i].id = results[i].id /\ results'[i].dv = results[i].dv
  <2>1. results[i] \in Results /\ Evaluated(results[i], i, world, opened.screening)
    BY <1>2, ElementOfSeq
  <2>2. Probability(results[i]) \in Levels
    <3>1. i \in DOMAIN Maneuvers /\ results[i].id = Maneuvers[i].id /\ world \in Worlds
      BY <1>2, <2>1, ManeuverAssumption, LenProperties DEF Evaluated, AnalysisInv, OpenedInv
    <3>2. world.orbits[results[i].id].pc \in Levels
      BY <3>1, WorldOfPaths
    <3>3. Unpriced \in Levels
      BY Zenon DEF Levels
    <3>4. Probability(results[i]) \in {world.orbits[results[i].id].pc, Unpriced}
      BY Zenon DEF Probability
    <3>5. QED
      BY <3>2, <3>3, <3>4, Zenon
  <2>3. results'[i] = [results[i] EXCEPT !.pc = Probability(results[i])]
    BY <1>1
  <2> DEFINE q == Probability(results[i])
             r == results[i]
  <2>4. /\ results'[i] \in Results /\ results'[i].pc = q /\ results'[i].id = r.id /\ results'[i].dv = r.dv
        /\ results'[i].at = r.at /\ results'[i].miss = r.miss /\ results'[i].samples = r.samples
        /\ results'[i].boundaryMinimum = r.boundaryMinimum /\ results'[i].clear = r.clear
    <3> HIDE DEF q, r
    <3>1. results'[i] = [r EXCEPT !.pc = q]
      BY <2>3, Zenon DEF q, r
    <3>2. r \in Results /\ q \in Levels
      BY <2>1, <2>2, Zenon DEF q, r
    <3>3. QED
      BY <3>1, <3>2 DEF Results
  <2>5. Evaluated(results'[i], i, world, opened.screening)
    BY <2>1, <2>4 DEF Evaluated
  <2>6. QED
    BY <2>4, <2>5
<1>4. DOMAIN results' = DOMAIN results
  BY <1>1
<1>5. results' \in Seq(Results) /\ Len(results') = Len(results)
  <2>1. results' \in [1..Len(results) -> Results]
    <3>1. results' = [i \in 1..Len(results) |-> results'[i]]
      BY <1>1, <1>2
    <3>2. \A i \in 1..Len(results) : results'[i] \in Results
      BY <1>2, <1>3
    <3> HIDE DEF Results
    <3>3. QED
      BY <3>1, <3>2
  <2>2. QED
    BY <1>2, <2>1, IsASeq
<1>6. OpenedInv'
  BY <1>1 DEF AnalysisInv, OpenedInv, Integrated
<1>7. FlightInv'
  <2>1. Len(results') <= Len(Maneuvers) /\ Len(results') = Len(Maneuvers) /\ trajectory' = NothingYet /\ phase' # "opening"
    BY <1>1, <1>2, <1>5
  <2>2. \A i \in DOMAIN results' : Evaluated(results'[i], i, world', opened'.screening)
    BY <1>1, <1>3, <1>4
  <2>3. QED
    BY <1>5, <2>1, <2>2 DEF FlightInv
<1>8. PriceInv'
  <2>1. ASSUME NEW i \in DOMAIN results'
        PROVE  results'[i].pc = IF opened'.covariances /\ (results'[i].dv = 0 \/ opened'.sigma)
                                THEN world'.orbits[results'[i].id].pc ELSE Unpriced
    <3>1. results'[i].pc = Probability(results[i]) /\ results'[i].id = results[i].id /\ results'[i].dv = results[i].dv
      BY <1>3, <1>4
    <3>2. QED
      BY <1>1, <3>1 DEF Probability
  <2>2. phase' \in {"trading", "deciding", "done"} => world'.pc # Unpriced
    BY <1>1
  <2>3. QED
    BY <2>1, <2>2 DEF PriceInv, Probability
<1>9. TradeInv'
  BY <1>1 DEF AnalysisInv, TradeInv, NoTradeSpace
<1>10. DecisionInv'
  BY <1>1, UndecidedYet DEF AnalysisInv
<1>11. QED
  BY <1>6, <1>7, <1>8, <1>9, <1>10 DEF AnalysisInv

\* Steps that leave what was computed of the candidates.
LEMMA ResultsStay ==
  ASSUME AnalysisInv, UNCHANGED <<world, opened, trajectory, results>>,
         phase \in {"trading", "deciding"} /\ phase' \in {"deciding", "done"}
  PROVE  OpenedInv' /\ FlightInv' /\ PriceInv'
<1>1. OpenedInv'
  BY DEF AnalysisInv, OpenedInv, Integrated
<1>2. FlightInv'
  BY DEF AnalysisInv, FlightInv, Integrated
<1>3. PriceInv'
  <2>1. world.pc # Unpriced /\ \A i \in DOMAIN results : results[i].pc = Probability(results[i])
    BY DEF AnalysisInv, PriceInv
  <2>2. \A i \in DOMAIN results : Probability(results[i])' = Probability(results[i])
    BY DEF Probability
  <2>3. QED
    BY <2>1, <2>2 DEF PriceInv
<1>4. QED
  BY <1>1, <1>2, <1>3

LEMMA TradingKeeps == ASSUME AnalysisInv, ComputeTradeSpace \/ TradeSpaceFails PROVE AnalysisInv'
<1>1. /\ phase = "trading" /\ phase' = "deciding"
      /\ UNCHANGED <<world, opened, trajectory, results, decision>>
  BY DEF ComputeTradeSpace, TradeSpaceFails
<1>2. OpenedInv' /\ FlightInv' /\ PriceInv'
  BY <1>1, ResultsStay
<1>3. TradeInv'
  <2>1. CASE TradeSpaceFails
    BY <1>1, <2>1 DEF TradeSpaceFails, AnalysisInv, TradeInv, NoTradeSpace
  <2>2. CASE ComputeTradeSpace
    <3>1. tradeSpace' = [leads |-> Leads, least |-> [l \in Leads |-> MinimumDeltaV(l)]]
      BY <2>2 DEF ComputeTradeSpace
    <3>2. tradeSpace'.leads = Leads /\ \A l \in Leads : tradeSpace'.least[l] = MinimumDeltaV(l)
      BY <3>1
    <3>3. \A l \in Leads : SoundRow(MinimumDeltaV(l), world.meets[l], opened.sigma)
      <4> TAKE l \in Leads
      <4>1. world.meets[l] \subseteq Int /\ opened.sigma \in BOOLEAN
        BY WorldsAssumption DEF AnalysisInv, OpenedInv, Leads
      <4>2. QED
        BY <4>1, RowIsSound
    <3>4. \A l \in Leads : SoundRow(tradeSpace'.least[l], world'.meets[l], opened'.sigma)
      BY <1>1, <3>2, <3>3
    <3>5. QED
      BY <1>1, <3>2, <3>4 DEF TradeInv
  <2>3. QED
    BY <2>1, <2>2
<1>4. DecisionInv'
  BY <1>1, UndecidedYet DEF AnalysisInv
<1>5. QED
  BY <1>2, <1>3, <1>4 DEF AnalysisInv

LEMMA DecideKeeps == ASSUME AnalysisInv, Decide PROVE AnalysisInv'
<1>1. /\ phase = "deciding" /\ phase' = "done" /\ UNCHANGED <<world, opened, trajectory, results, tradeSpace>>
  BY DEF Decide
<1>2. OpenedInv' /\ FlightInv' /\ PriceInv'
  BY <1>1, ResultsStay
<1>3. TradeInv'
  BY <1>1 DEF AnalysisInv, TradeInv
<1>4. DecisionInv'
  BY DecideIsSound, DecideIsLatest DEF AnalysisInv, DecisionInv
<1>5. QED
  BY <1>2, <1>3, <1>4 DEF AnalysisInv

LEMMA AnalysisRested == ASSUME AnalysisInv, UNCHANGED analysisVars PROVE AnalysisInv'
<1>1. UNCHANGED <<phase, world, opened, trajectory, results, tradeSpace, decision>>
  BY DEF analysisVars
<1>2. OpenedInv' /\ FlightInv' /\ TradeInv'
  BY <1>1 DEF AnalysisInv, OpenedInv, FlightInv, TradeInv
<1>3. PriceInv'
  BY <1>1 DEF AnalysisInv, PriceInv, Probability
<1>4. DecisionInv'
  <2>1. \A i \in DOMAIN Maneuvers : Sound(Maneuvers[i])' = Sound(Maneuvers[i])
    BY <1>1 DEF Sound, Orbit
  <2>2. RecommendationSound => RecommendationSound'
    BY <1>1, <2>1 DEF RecommendationSound
  <2>3. LatestIsLast => LatestIsLast'
    BY <1>1 DEF LatestIsLast
  <2>4. QED
    BY <1>1, <2>2, <2>3 DEF AnalysisInv, DecisionInv
<1>5. QED
  BY <1>2, <1>3, <1>4 DEF AnalysisInv

LEMMA AnalysisStep == AnalysisInv /\ [ManeuverNext]_analysisVars => AnalysisInv'
<1> SUFFICES ASSUME AnalysisInv, [ManeuverNext]_analysisVars PROVE AnalysisInv'
  OBVIOUS
<1>1. CASE OpenScenario \/ OpenCdm
  BY <1>1, OpeningKeeps
<1>2. CASE Burn \/ MeetsEarth \/ Integrate \/ Arrive
  BY <1>2, FlyingKeeps
<1>3. CASE Price
  BY <1>3, PriceKeeps
<1>4. CASE ComputeTradeSpace \/ TradeSpaceFails
  BY <1>4, TradingKeeps
<1>5. CASE Decide
  BY <1>5, DecideKeeps
<1>6. CASE UNCHANGED analysisVars
  BY <1>6, AnalysisRested
<1>7. QED
  BY <1>1, <1>2, <1>3, <1>4, <1>5, <1>6 DEF ManeuverNext

-----------------------------------------------------------------------------
(* The analysis: what its figures and plots show. *)

LEMMA RowsAreSound ==
  ASSUME OpenedInv, TradeInv, NEW l \in tradeSpace.leads
  PROVE  /\ l \in Leads /\ world.meets[l] \subseteq Int /\ opened.sigma \in BOOLEAN
         /\ SoundRow(tradeSpace.least[l], world.meets[l], opened.sigma)
<1>1. NoTradeSpace.leads = {}
  BY DEF NoTradeSpace
<1>2. tradeSpace.leads = Leads /\ SoundRow(tradeSpace.least[l], world.meets[l], opened.sigma)
  BY <1>1 DEF TradeInv
<1>3. l \in GridLeads /\ world \in Worlds /\ opened.sigma \in BOOLEAN
  BY <1>2 DEF Leads, OpenedInv
<1>4. QED
  BY <1>2, <1>3, WorldsAssumption

LEMMA NegatedCell == \A k \in Int : k * Grid \in Int /\ -k * Grid = -(k * Grid) /\ (-k) * Grid = -(k * Grid)
<1>1. Grid \in Nat
  BY GridIsPositive
<1> HIDE DEF Grid
<1>2. QED
  BY <1>1

LEMMA LeastIsSound ==
  ASSUME OpenedInv, TradeInv, NEW l \in tradeSpace.leads
  PROVE  LET dv == tradeSpace.least[l]
             magnitudes == {k * Grid : k \in {k \in 1..Half : Meets(l, k * Grid) \/ Meets(l, -k * Grid)}}
         IN /\ dv = 0 <=> Meets(l, 0)
            /\ dv = NoBurn <=> ~Meets(l, 0) /\ (~opened.sigma \/ magnitudes = {})
            /\ dv \notin {0, NoBurn} =>
                 /\ Meets(l, dv) /\ ~Meets(l, IF dv > 0 THEN dv - 1 ELSE dv + 1)
                 /\ \A m \in magnitudes : Abs(dv) <= m
<1> DEFINE dv == tradeSpace.least[l]
           meets == world.meets[l]
           ks == {k \in 1..Half : Meets(l, k * Grid) \/ Meets(l, -k * Grid)}
           magnitudes == {k * Grid : k \in ks}
<1>1. SoundRow(dv, meets, opened.sigma) /\ meets \subseteq Int /\ opened.sigma \in BOOLEAN
  BY RowsAreSound
<1>2. Half \in Nat
  BY ManeuverAssumption
<1>3. ks = {k \in 1..Half : k * Grid \in meets \/ -(k * Grid) \in meets}
  <2>1. \A k \in 1..Half : -k * Grid = -(k * Grid)
    BY <1>2, NegatedCell
  <2>2. QED
    BY <2>1 DEF Meets
<1>4. magnitudes = {} <=> \A k \in 1..Half : k * Grid \notin meets /\ -(k * Grid) \notin meets
  BY <1>3
<1> HIDE DEF dv, meets, ks
<1>5. dv = 0 <=> Meets(l, 0)
  BY <1>1 DEF SoundRow, Meets, meets
<1>6. dv = NoBurn <=> ~Meets(l, 0) /\ (~opened.sigma \/ magnitudes = {})
  <2>1. dv = NoBurn <=> 0 \notin meets /\ (~opened.sigma \/ \A k \in 1..Half : k * Grid \notin meets /\ -(k * Grid) \notin meets)
    BY <1>1 DEF SoundRow
  <2> HIDE DEF magnitudes
  <2>2. QED
    BY <1>4, <2>1 DEF Meets, meets
<1>7. ASSUME dv \notin {0, NoBurn}
      PROVE  /\ Meets(l, dv) /\ ~Meets(l, IF dv > 0 THEN dv - 1 ELSE dv + 1)
             /\ \A m \in magnitudes : Abs(dv) <= m
  <2>1. PICK k \in 1..Half, sign \in {1, -1} : LeastAt(dv, k, sign, meets)
    BY <1>1, <1>7 DEF SoundRow
  <2>2. dv \in Int /\ dv # 0 /\ Abs(dv) \in ((k - 1) * Grid + 1)..(k * Grid) /\ (dv > 0 <=> sign = 1)
    BY <1>1, <2>1, BurnIsBurn
  <2>3. dv \in meets /\ (dv - sign) \notin meets /\ \A j \in 1..(k - 1) : j * Grid \notin meets /\ -(j * Grid) \notin meets
    BY <2>1 DEF LeastAt
  <2>4. dv - sign = IF dv > 0 THEN dv - 1 ELSE dv + 1
    BY <2>2
  <2>5. ASSUME NEW j \in ks PROVE Abs(dv) <= j * Grid
    <3>1. j \in 1..Half /\ (j * Grid \in meets \/ -(j * Grid) \in meets)
      BY <1>3
    <3>2. j >= k
      BY <1>2, <2>1, <2>3, <3>1
    <3>3. j \in Int /\ k \in Int /\ j * Grid \in Int /\ k * Grid \in Int /\ Grid \in Nat
      BY <1>2, <2>1, <3>1, GridCells, GridIsPositive
    <3>4. j = k \/ k * Grid <= j * Grid - Grid
      BY <3>2, <3>3, GridCells
    <3>5. k * Grid <= j * Grid
      <4> HIDE DEF Grid
      <4>1. QED
        BY <3>3, <3>4
    <3>6. Abs(dv) \in Int /\ Abs(dv) <= k * Grid
      BY <2>2 DEF Abs
    <3>7. QED
      BY <3>3, <3>5, <3>6
  <2>6. Meets(l, dv) /\ ~Meets(l, dv - sign)
    BY <2>3 DEF Meets, meets
  <2>7. QED
    BY <2>4, <2>5, <2>6
<1>8. QED
  BY <1>5, <1>6, <1>7 DEF dv, ks

LEMMA MinimumHolds == AnalysisInv => MinimumIsSound
<1> SUFFICES ASSUME AnalysisInv PROVE MinimumIsSound
  OBVIOUS
<1>1. OpenedInv /\ TradeInv /\ LatestIsLast
  BY DEF AnalysisInv, DecisionInv, LatestIsLast
<1>2. QED
  BY <1>1, LeastIsSound DEF MinimumIsSound, LatestIsLast

\* Rounding up to the grid.
LEMMA CeilOfBurn ==
  ASSUME NEW k \in Int, NEW x \in ((k - 1) * Grid + 1)..(k * Grid)
  PROVE  CeilDiv(x, Grid) = k
<1>1. Grid \in Nat \ {0} /\ k * Grid \in Int /\ (k - 1) * Grid = k * Grid - Grid
  BY GridIsPositive, GridCells
<1> DEFINE n == x + Grid - 1
           q == n \div Grid
<1>2. x \in Int /\ n \in Int /\ k * Grid <= n /\ n < k * Grid + Grid
  <2> HIDE DEF Grid
  <2>1. QED
    BY <1>1
<1>3. q \in Int /\ q * Grid <= n /\ n < q * Grid + Grid
  <2> HIDE DEF Grid, n
  <2>1. QED
    BY <1>1, <1>2
<1> HIDE DEF q, n
<1>4. q * Grid \in Int
  BY <1>3, GridCells
<1>5. ~(q < k)
  <2> SUFFICES ASSUME q < k PROVE FALSE
    OBVIOUS
  <2>1. q * Grid <= k * Grid - Grid
    BY <1>3, GridCells
  <2> HIDE DEF Grid
  <2>2. QED
    BY <1>1, <1>2, <1>3, <1>4, <2>1
<1>6. ~(k < q)
  <2> SUFFICES ASSUME k < q PROVE FALSE
    OBVIOUS
  <2>1. k * Grid <= q * Grid - Grid
    BY <1>3, GridCells
  <2> HIDE DEF Grid
  <2>2. QED
    BY <1>1, <1>2, <1>3, <1>4, <2>1
<1>7. q = k
  BY <1>3, <1>5, <1>6
<1>8. QED
  BY <1>7 DEF CeilDiv, q, n

\* A least burn lies between two cells that the goal's boundary separates.
LEMMA BoundaryAtLeast ==
  ASSUME OpenedInv, TradeInv, NEW l \in tradeSpace.leads, tradeSpace.least[l] \notin {0, NoBurn}
  PROVE  LET dv == tradeSpace.least[l]
             k == CeilDiv(Abs(dv), Grid)
         IN (IF dv > 0 THEN <<<<l, k - 1>>, <<l, k>>>> ELSE <<<<l, -k>>, <<l, 1 - k>>>>) \in Boundary
<1> DEFINE dv == tradeSpace.least[l]
           meets == world.meets[l]
<1>1. SoundRow(dv, meets, opened.sigma) /\ meets \subseteq Int /\ opened.sigma \in BOOLEAN
  BY RowsAreSound
<1>2. Half \in Nat
  BY ManeuverAssumption
<1>3. opened.sigma /\ \E k \in 1..Half, sign \in {1, -1} : LeastAt(dv, k, sign, meets)
  BY <1>1 DEF SoundRow
<1>4. PICK k \in 1..Half, sign \in {1, -1} : LeastAt(dv, k, sign, meets)
  BY <1>3
<1> HIDE DEF dv, meets
<1>5. dv \in Int /\ dv # 0 /\ Abs(dv) \in ((k - 1) * Grid + 1)..(k * Grid) /\ (dv > 0 <=> sign = 1)
  BY <1>1, <1>4, BurnIsBurn
<1>6. CeilDiv(Abs(dv), Grid) = k
  BY <1>2, <1>5, CeilOfBurn
<1>7. sign * k * Grid \in meets /\ sign * (k - 1) * Grid \notin meets
  BY <1>4 DEF LeastAt
<1>8. \A c \in -Half..Half : <<l, c>> \in Cells /\ (Passes(<<l, c>>) <=> c * Grid \in meets)
  BY <1>3 DEF Cells, Passes, Meets, meets
<1>9. CASE sign = 1
  <2>1. k \in -Half..Half /\ k - 1 \in -Half..Half /\ k = (k - 1) + 1
    BY <1>2
  <2>2. 1 * k * Grid = k * Grid /\ 1 * (k - 1) * Grid = (k - 1) * Grid
    <3>1. 1 * k = k /\ 1 * (k - 1) = k - 1
      BY <2>1
    <3>2. QED
      BY <3>1
  <2>3. Passes(<<l, k>>) /\ ~Passes(<<l, k - 1>>)
    BY <1>7, <1>8, <1>9, <2>1, <2>2
  <2>4. Beside(<<l, k - 1>>, <<l, k>>)
    BY <2>1 DEF Beside
  <2>5. <<<<l, k - 1>>, <<l, k>>>> \in Boundary
    BY <1>8, <2>1, <2>3, <2>4 DEF Boundary
  <2>6. dv > 0
    BY <1>5, <1>9
  <2>7. QED
    BY <1>6, <2>5, <2>6 DEF dv
<1>10. CASE sign = -1
  <2>1. -k \in -Half..Half /\ 1 - k \in -Half..Half /\ 1 - k = (-k) + 1
    BY <1>2
  <2>2. (-1) * k * Grid = (-k) * Grid /\ (-1) * (k - 1) * Grid = (1 - k) * Grid
    <3>1. (-1) * k = -k /\ (-1) * (k - 1) = 1 - k
      BY <2>1
    <3>2. QED
      BY <3>1
  <2>3. Passes(<<l, -k>>) /\ ~Passes(<<l, 1 - k>>)
    BY <1>7, <1>8, <1>10, <2>1, <2>2
  <2>4. Beside(<<l, -k>>, <<l, 1 - k>>)
    BY <2>1 DEF Beside
  <2>5. <<<<l, -k>>, <<l, 1 - k>>>> \in Boundary
    BY <1>8, <2>1, <2>3, <2>4 DEF Boundary
  <2>6. ~(dv > 0)
    BY <1>5, <1>10
  <2>7. QED
    BY <1>6, <2>5, <2>6 DEF dv
<1>11. QED
  BY <1>9, <1>10

LEMMA CellsAreDesigns ==
  ASSUME TradeInv, NEW cell \in Cells, cell[2] # 0
  PROVE  CanSimulate(DesignOf(cell))
<1>1. cell[1] \in tradeSpace.leads /\ cell[2] \in -Half..Half
  BY DEF Cells
<1>2. cell[1] \in GridLeads /\ cell[1] > EncounterWindow
  BY <1>1, TradedLeads DEF Leads
<1>3. cell[1] <= LastLead
  BY <1>2, ManeuverAssumption
<1>4. Abs(cell[2]) \in 1..Half
  BY <1>1, ManeuverAssumption DEF Abs
<1>5. DesignOf(cell) = [magnitude |-> Abs(cell[2]), lead |-> cell[1]]
  BY DEF DesignOf
<1>6. QED
  BY <1>2, <1>3, <1>4, <1>5 DEF CanSimulate

LEMMA CurvesAreBridged ==
  ASSUME MinimumChart # {"coast meets the goal"}, NEW curve \in MinimumChart, NEW l \in tradeSpace.leads,
         l \in curve[1]..curve[2]
  PROVE  tradeSpace.least[l] # NoBurn
BY DEF MinimumChart, Bridged

LEMMA PlottedAbove ==
  ASSUME OpenedInv, NEW i \in DOMAIN Maneuvers, NEW r \in Results, Evaluated(r, i, world, opened.screening),
         NEW j \in DOMAIN SeparationPlot(r), Abs(r.samples[j]) <= EncounterWindow
  PROVE  r.miss <= SeparationPlot(r)[j]
<1>1. j \in DOMAIN r.samples /\ SeparationPlot(r)[j] = Sep(world.orbits[r.id].pair, r.samples[j])
  BY DEF SeparationPlot
<1>2. /\ r.id = Maneuvers[i].id /\ Trail(r.samples, -Maneuvers[i].lead, EncounterWindow)
      /\ \A t \in -EncounterWindow..EncounterWindow : r.miss <= Sep(world.orbits[Maneuvers[i].id].pair, t)
  BY DEF Evaluated, NearestOver
<1>3. r.samples[j] \in Int /\ EncounterWindow \in Nat
  <2>1. Maneuvers[i].lead \in Nat /\ EncounterWindow \in Nat
    BY CandidateNumbers
  <2>2. r.samples[j] \in -Maneuvers[i].lead..EncounterWindow
    BY <1>1, <1>2 DEF Trail
  <2>3. QED
    BY <2>1, <2>2
<1>4. r.samples[j] \in -EncounterWindow..EncounterWindow
  BY <1>3 DEF Abs
<1>5. QED
  BY <1>1, <1>2, <1>4

LEMMA ReplayBetween ==
  ASSUME NEW i \in DOMAIN Maneuvers, NEW r, Evaluated(r, i, world, opened.screening),
         NEW t \in -Maneuvers[i].lead..EncounterWindow
  PROVE  LET around == OrbitReplay(r, t) IN
         around[1] <= t /\ t <= around[2] /\ \A j \in DOMAIN r.samples : ~(around[1] < r.samples[j] /\ r.samples[j] < around[2])
<1> DEFINE s == r.samples
           from == -Maneuvers[i].lead
           reached == {j \in DOMAIN s : s[j] >= t}
           b == LeastOf(reached)
           a == IF b > 1 THEN b - 1 ELSE 1
<1>1. /\ Trail(s, from, EncounterWindow) /\ s # <<>> /\ s[1] = from /\ s[Len(s)] = EncounterWindow
  BY DEF Evaluated
<1>2. Maneuvers[i].lead \in Nat /\ EncounterWindow \in Nat
  BY CandidateNumbers
<1>3. /\ s \in Seq(Int) /\ Len(s) \in Nat \ {0} /\ DOMAIN s = 1..Len(s)
      /\ \A j \in DOMAIN s : s[j] \in Int
      /\ \A j, k \in DOMAIN s : j < k => s[j] < s[k]
  <2>1. s \in Seq(Int) /\ (\A j \in DOMAIN s : s[j] \in from..EncounterWindow) /\ \A j, k \in DOMAIN s : j < k => s[j] < s[k]
    BY <1>1 DEF Trail
  <2>2. Len(s) \in Nat \ {0} /\ DOMAIN s = 1..Len(s)
    BY <1>1, <2>1, EmptySeq, LenProperties
  <2>3. QED
    BY <1>2, <2>1, <2>2
<1> HIDE DEF s, from
<1>4. from \in Int /\ t \in Int /\ from <= t /\ t <= EncounterWindow
  BY <1>2 DEF from
<1>5. reached \subseteq Int /\ Len(s) \in reached /\ \A x \in reached : x >= 1
  BY <1>1, <1>3, <1>4
<1>6. b \in reached /\ \A x \in reached : b <= x
  <2>1. reached # {} /\ 1 \in Int
    BY <1>5
  <2> HIDE DEF reached
  <2>2. QED
    BY <1>5, <2>1, LeastAbove
<1>7. OrbitReplay(r, t) = <<s[a], s[b]>>
  <2>1. reached # {}
    BY <1>5
  <2>2. QED
    BY <2>1 DEF OrbitReplay, s
<1> HIDE DEF b
<1>8. b \in 1..Len(s) /\ s[b] >= t
  BY <1>3, <1>6
<1>9. a \in 1..Len(s) /\ s[a] <= t
  <2>1. CASE b > 1
    <3>1. b - 1 \in DOMAIN s /\ b - 1 < b /\ a = b - 1
      BY <1>3, <1>8, <2>1
    <3>2. b - 1 \notin reached
      BY <1>3, <1>6, <1>8, <3>1
    <3>3. QED
      BY <1>3, <1>4, <3>1, <3>2
  <2>2. CASE ~(b > 1)
    BY <1>1, <1>3, <1>4, <1>8, <2>2
  <2>3. QED
    BY <2>1, <2>2
<1>10. ASSUME NEW j \in DOMAIN s, s[a] < s[j], s[j] < s[b] PROVE FALSE
  <2>1. a = b - 1 \/ a = b
    BY <1>3, <1>8
  <2>2. a \in DOMAIN s /\ b \in DOMAIN s /\ s[a] \in Int /\ s[b] \in Int /\ s[j] \in Int
    BY <1>3, <1>8, <1>9
  <2> HIDE DEF a
  <2>3. a < j
    BY <1>3, <1>10, <2>2
  <2>4. j < b
    <3>1. j \in Int /\ b \in Int
      BY <1>3, <1>8, <1>10, <2>2
    <3>2. b < j => s[b] < s[j]
      BY <1>3, <1>10, <2>2
    <3>3. b # j /\ ~(b < j)
      BY <1>10, <2>2, <3>2
    <3>4. QED
      BY <3>1, <3>3
  <2>5. QED
    BY <1>3, <1>8, <2>1, <2>3, <2>4
<1>11. QED
  BY <1>7, <1>8, <1>9, <1>10 DEF s

LEMMA PlotsHold == AnalysisInv => PlotsAgree
<1> SUFFICES ASSUME AnalysisInv PROVE PlotsAgree
  OBVIOUS
<1>1. OpenedInv /\ TradeInv
  BY DEF AnalysisInv
<1>2. /\ \A i \in DOMAIN results : i \in DOMAIN Maneuvers /\ results[i] \in Results
                                     /\ Evaluated(results[i], i, world, opened.screening)
  <2>1. results \in Seq(Results) /\ Len(results) <= Len(Maneuvers)
        /\ \A i \in DOMAIN results : Evaluated(results[i], i, world, opened.screening)
    BY DEF AnalysisInv, FlightInv
  <2>2. DOMAIN results = 1..Len(results) /\ DOMAIN Maneuvers = 1..Len(Maneuvers)
        /\ Len(results) \in Nat /\ Len(Maneuvers) \in Nat
    BY <2>1, ManeuverAssumption, LenProperties
  <2>3. \A i \in DOMAIN results : results[i] \in Results
    BY <2>1, <2>2, ElementOfSeq
  <2>4. QED
    BY <2>1, <2>2, <2>3
<1>3. \A l \in tradeSpace.leads :
        LET dv == tradeSpace.least[l]
            k == CeilDiv(Abs(dv), Grid)
        IN dv \notin {0, NoBurn} => (IF dv > 0 THEN <<<<l, k - 1>>, <<l, k>>>> ELSE <<<<l, -k>>, <<l, 1 - k>>>>) \in Boundary
  BY <1>1, BoundaryAtLeast
<1>4. \A cell \in Cells : cell[2] # 0 => CanSimulate(DesignOf(cell))
  BY <1>1, CellsAreDesigns
<1>5. MinimumChart # {"coast meets the goal"} =>
        \A curve \in MinimumChart, l \in tradeSpace.leads : l \in curve[1]..curve[2] => tradeSpace.least[l] # NoBurn
  BY CurvesAreBridged
<1>6. ASSUME NEW i \in DOMAIN results
      PROVE  LET r == results[i]
                 plot == SeparationPlot(r)
             IN /\ \A j \in DOMAIN plot : Abs(r.samples[j]) <= EncounterWindow => r.miss <= plot[j]
                /\ \A t \in -Maneuvers[i].lead..EncounterWindow :
                     LET around == OrbitReplay(r, t) IN
                     around[1] <= t /\ t <= around[2] /\ \A j \in DOMAIN r.samples : ~(around[1] < r.samples[j] /\ r.samples[j] < around[2])
  <2>1. i \in DOMAIN Maneuvers /\ results[i] \in Results /\ Evaluated(results[i], i, world, opened.screening)
    BY <1>2
  <2>2. \A j \in DOMAIN SeparationPlot(results[i]) :
          Abs(results[i].samples[j]) <= EncounterWindow => results[i].miss <= SeparationPlot(results[i])[j]
    BY <1>1, <2>1, PlottedAbove
  <2>3. \A t \in -Maneuvers[i].lead..EncounterWindow :
          LET around == OrbitReplay(results[i], t) IN
          around[1] <= t /\ t <= around[2]
            /\ \A j \in DOMAIN results[i].samples : ~(around[1] < results[i].samples[j] /\ results[i].samples[j] < around[2])
    BY <2>1, ReplayBetween
  <2>4. QED
    BY <2>2, <2>3
<1>7. QED
  BY <1>3, <1>4, <1>5, <1>6 DEF PlotsAgree

LEMMA RecommendationHolds == AnalysisInv => RecommendationSound
BY DEF AnalysisInv, DecisionInv, RecommendationSound

-----------------------------------------------------------------------------
(* The types.                                                               *)

\* The poll runs for the layer as the effect last saw it.
PollTypes ==
  /\ camerasOn \in BOOLEAN /\ camerasPolled \in BOOLEAN /\ cameraPoll \in {"off", "asking", "waiting"}
  /\ (cameraPoll = "off" <=> camerasPolled = FALSE) /\ failing \subseteq CameraFeeds /\ DOMAIN cached \subseteq CameraFeeds
ChoiceTypes == network \in {"all"} \cup CameraFeeds
MapTypes == streets \in {"none", "hidden", "shown"} /\ mapStyle \in {"imagery", "streets"}
EarthTypes == PollTypes /\ ChoiceTypes /\ MapTypes

LEMMA EarthTypesStart == EarthInit => EarthTypes
  BY DEF EarthInit, EarthTypes, PollTypes, ChoiceTypes, MapTypes, Nothing

LEMMA EarthTypesStep == EarthInv /\ EarthTypes /\ [EarthNext]_earthVars => EarthTypes'
<1> SUFFICES ASSUME CameraInv, PollTypes, ChoiceTypes, MapTypes, [EarthNext]_earthVars PROVE EarthTypes'
  BY DEF EarthInv, EarthTypes
<1>1. ASSUME UNCHANGED pollVars PROVE PollTypes'
  <2>1. UNCHANGED <<camerasOn, camerasPolled, cameraPoll, failing, cached>>
    BY <1>1 DEF pollVars
  <2>2. QED
    BY <2>1 DEF PollTypes
<1>2. ASSUME UNCHANGED choiceVars PROVE ChoiceTypes'
  BY <1>2 DEF choiceVars, ChoiceTypes
<1>3. ASSUME UNCHANGED mapVars PROVE MapTypes'
  BY <1>3 DEF mapVars, MapTypes
<1>4. CASE NetworksNext
  <2>1. UNCHANGED network /\ UNCHANGED mapVars
    BY <1>4 DEF NetworksNext, CamerasEffect, PollEnds, CamerasPoll, LatePollEnds, ToggleCameras, NetworkFails, NetworkAnswers, choiceVars
  <2>2. ASSUME CamerasEffect PROVE PollTypes'
    BY <2>2 DEF CamerasEffect, PollTypes, Nothing
  <2>3. ASSUME PollEnds \/ CamerasPoll \/ LatePollEnds PROVE PollTypes'
    BY <2>3 DEF PollEnds, CamerasPoll, LatePollEnds, PollTypes
  <2>4. ASSUME ToggleCameras PROVE PollTypes'
    <3>1. camerasOn' \in BOOLEAN /\ UNCHANGED <<camerasPolled, cameraPoll, failing, cached>>
      BY <2>4 DEF ToggleCameras
    <3>2. QED
      BY <3>1 DEF PollTypes
  <2>5. ASSUME \E f \in CameraFeeds : NetworkFails(f) \/ \E published \in Published[f] : NetworkAnswers(f, published) PROVE PollTypes'
    BY <2>5 DEF NetworkFails, NetworkAnswers, PollTypes
  <2>6. PollTypes'
    BY <1>4, <2>2, <2>3, <2>4, <2>5 DEF NetworksNext
  <2>7. QED
    BY <1>3, <2>1, <2>6 DEF EarthTypes, ChoiceTypes
<1>5. CASE ChoicesNext
  <2>1. UNCHANGED <<pollVars, mapVars>> /\ network' \in {network, "all"} \cup CameraFeeds
    BY <1>5 DEF ChoicesNext, SelectionEffect, ChooseNetwork, ChooseCamera
  <2>2. QED
    BY <1>1, <1>3, <2>1 DEF EarthTypes, ChoiceTypes
<1>6. CASE MediaNext \/ UNCHANGED earthVars
  <2>1. UNCHANGED pollVars /\ UNCHANGED choiceVars /\ UNCHANGED mapVars
    BY <1>6 DEF MediaNext, MediaMounts, LateImportResolves, FatalStreamError, ImageError, MediaMinute, RetryMedia,
                ImportResolves, ChooseSnapshot, earthVars
  <2>2. QED
    BY <1>1, <1>2, <1>3, <2>1 DEF EarthTypes
<1>7. CASE MapNext
  <2>1. UNCHANGED pollVars /\ UNCHANGED choiceVars
    BY <1>7 DEF MapNext, ChooseMap, LayerAdded, SubmitSearch, SearchAnswers
  <2>2. MapTypes'
    BY <1>7 DEF MapNext, ChooseMap, UpdateMap, LayerAdded, SubmitSearch, SearchAnswers, MapTypes, mapVars
  <2>3. QED
    BY <1>1, <1>2, <2>1, <2>2 DEF EarthTypes
<1>8. QED
  BY <1>4, <1>5, <1>6, <1>7 DEF EarthNext

LEMMA EarthTyped == EarthInv /\ EarthTypes => EarthTypeOK
<1> SUFFICES ASSUME EarthInv, EarthTypes PROVE EarthTypeOK
  OBVIOUS
<1>1. (cameraPoll = "off") = ~camerasPolled
  <2>1. camerasPolled \in BOOLEAN /\ (cameraPoll = "off" <=> camerasPolled = FALSE)
    BY DEF EarthTypes, PollTypes
  <2>2. QED
    BY <2>1, Zenon
<1>2. QED
  BY <1>1, Zenon DEF EarthInv, CameraInv, EarthTypes, PollTypes, ChoiceTypes, MapTypes, EarthTypeOK

\* What the analysis has is what its invariant says of each of its phases.
LEMMA AnalysisTyped == AnalysisInv => ManeuverTypeOK
<1> SUFFICES ASSUME AnalysisInv PROVE ManeuverTypeOK
  OBVIOUS
<1>1. phase \in {"opening", "flying", "pricing", "trading", "deciding", "done", "failed", "refused"}
  BY DEF AnalysisInv, OpenedInv, Integrated
<1>2. opened.sigma \in BOOLEAN /\ opened.covariances \in BOOLEAN /\ opened.screening \subseteq Screened
  BY DEF AnalysisInv, OpenedInv
<1>3. Len(results) <= Len(Maneuvers) /\ (trajectory # NothingYet => trajectory.t <= EncounterWindow)
  BY DEF AnalysisInv, FlightInv, UnderWay
<1>4. decision.status \in {"none", "monitor", "maneuver", "insufficient-data", "no-feasible"}
  BY DEF AnalysisInv, DecisionInv
<1>5. QED
  BY <1>1, <1>2, <1>3, <1>4, Zenon DEF ManeuverTypeOK

LEMMA ReadoutsTyped == BadgeInv /\ WeatherInv => BadgeTypeOK /\ WeatherTypeOK
<1> SUFFICES ASSUME BadgeInv, WeatherInv PROVE BadgeTypeOK /\ WeatherTypeOK
  OBVIOUS
<1>1. BadgeTypeOK
  <2>1. PICK n \in Nat : n <= MaxWarnings /\ warnings \in [1..n -> WarningSamples]
    BY DEF BadgeInv
  <2>2. warnings \in Seq(WarningSamples) /\ DOMAIN warnings = 1..n
    BY <2>1, SeqDef
  <2>3. Len(warnings) = n
    BY <2>1, <2>2, LenProperties
  <2>4. \A i \in DOMAIN warnings : warnings[i] \in WarningSamples
    BY <2>1
  <2>5. fetched \in BOOLEAN
    BY DEF BadgeInv
  <2>6. QED
    BY <2>1, <2>3, <2>4, <2>5 DEF BadgeTypeOK
<1>2. \A i \in DOMAIN trend : trend[i] \in 0..MaxStamp
  BY LenProperties DEF WeatherInv, TrendKept
<1>3. QED
  BY <1>1, <1>2 DEF WeatherInv, WeatherTypeOK

LEMMA CatalogIsFinite ==
  /\ IsFiniteSet(CatalogObjects) /\ Cardinality(CatalogObjects) \in Nat /\ CatalogObjects \in Filters
  /\ RowsPerPage \in Nat /\ RowsPerPage > 0
  BY ReadoutsAssumption, FS_CardinalityType

LEMMA BenchTypesStart == BenchInit => BenchTypeOK
<1> SUFFICES ASSUME BenchInit PROVE BenchTypeOK
  OBVIOUS
<1>1. rows = CatalogObjects /\ filter = CatalogObjects /\ query = CatalogObjects /\ pins = {}
  BY DEF BenchInit
<1>2. page = 0 /\ picked = 0
  BY DEF BenchInit
<1>3. pinnedOnly \in BOOLEAN /\ benchOpen \in BOOLEAN /\ searchOpen \in BOOLEAN
  BY DEF BenchInit
<1>4. page \in 0..Cardinality(CatalogObjects)
  BY <1>2, CatalogIsFinite
<1>5. QED
  BY <1>1, <1>2, <1>3, <1>4, CatalogIsFinite DEF BenchTypeOK

\* A page turned to is of the catalog: each has at least one row.
LEMMA PageOfCatalog ==
  ASSUME BenchInv, page \in 0..Cardinality(CatalogObjects)
  PROVE  /\ CurrentPage \in 0..page
         /\ CanGoOn => CurrentPage + 1 \in 0..Cardinality(CatalogObjects)
<1> DEFINE last == IF PageCount = 0 THEN 0 ELSE PageCount - 1
           n == Cardinality(Shortlist)
           c == Cardinality(CatalogObjects)
<1>1. n \in Nat /\ n <= c /\ c \in Nat
  <2>1. Shortlist \subseteq CatalogObjects
    BY DEF Shortlist, BenchInv
  <2>2. QED
    BY <2>1, CatalogIsFinite, FS_Subset, FS_CardinalityType
<1>2. PageCount = (n + RowsPerPage - 1) \div RowsPerPage
  BY DEF PageCount
<1> HIDE DEF n
<1>3. PageCount \in Nat
  BY <1>1, <1>2, CatalogIsFinite, LastPage
<1>4. CurrentPage \in 0..page
  BY <1>3 DEF CurrentPage
<1> HIDE DEF c
<1>5. ASSUME CanGoOn PROVE CurrentPage + 1 <= c
  <2>1. (CurrentPage + 1) * RowsPerPage < n
    BY <1>5 DEF CanGoOn, n
  <2>2. CurrentPage + 1 \in Nat
    BY <1>4
  <2>3. \A k, R \in Nat : R > 0 => k <= k * R /\ k * R \in Nat
    OBVIOUS
  <2>4. QED
    BY <1>1, <2>1, <2>2, <2>3, CatalogIsFinite
<1>6. QED
  BY <1>1, <1>4, <1>5 DEF c

LEMMA BenchTypesStep == BenchInv /\ BenchTypeOK /\ [BenchNext]_benchVars => BenchTypeOK'
<1> SUFFICES ASSUME BenchInv, BenchTypeOK, [BenchNext]_benchVars PROVE BenchTypeOK'
  OBVIOUS
<1>1. /\ CurrentPage \in 0..page /\ (CanGoOn => CurrentPage + 1 \in 0..Cardinality(CatalogObjects))
      /\ page \in 0..Cardinality(CatalogObjects) /\ Cardinality(CatalogObjects) \in Nat
  BY PageOfCatalog, CatalogIsFinite DEF BenchTypeOK
<1>2. CASE \E set \in SUBSET CatalogObjects : RowsArrive(set)
  BY <1>2 DEF RowsArrive, BenchTypeOK
<1>3. CASE \E f \in Filters : SetFilter(f) \/ TypeQuery(f)
  BY <1>1, <1>3 DEF SetFilter, TypeQuery, BenchTypeOK
<1>4. CASE \E o \in CatalogObjects : TogglePin(o) \/ PickRow(o) \/ PickFound(o)
  BY <1>4, CatalogIsFinite DEF TogglePin, PickRow, PickFound, BenchTypeOK
<1>5. CASE SetPinnedOnly
  BY <1>1, <1>5 DEF SetPinnedOnly, BenchTypeOK
<1>6. CASE PreviousPage
  <2>1. page' \in 0..Cardinality(CatalogObjects)
    BY <1>1, <1>6 DEF PreviousPage
  <2>2. QED
    BY <1>6, <2>1 DEF PreviousPage, BenchTypeOK
<1>7. CASE NextPage
  BY <1>1, <1>7 DEF NextPage, BenchTypeOK
<1>8. CASE ToggleBench
  <2>1. benchOpen' \in BOOLEAN /\ picked' \in CatalogObjects \cup {0}
    BY <1>8 DEF ToggleBench, BenchTypeOK
  <2>2. QED
    BY <1>8, <2>1 DEF ToggleBench, BenchTypeOK
<1>9. CASE OpenSearch \/ CloseSearch
  BY <1>9, CatalogIsFinite DEF OpenSearch, CloseSearch, BenchTypeOK
<1>10. CASE UNCHANGED benchVars
  BY <1>10 DEF benchVars, BenchTypeOK
<1>11. QED
  BY <1>2, <1>3, <1>4, <1>5, <1>6, <1>7, <1>8, <1>9, <1>10 DEF BenchNext
============================================================================
