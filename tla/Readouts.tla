------------------------------ MODULE Readouts ------------------------------
(***************************************************************************)
(* What the dashboard tells its viewer about the data on screen: the        *)
(* timeline and its LIVE label, the feed status button with its rows of     *)
(* lights, the conjunction badge and the NOAA scales, and the paged         *)
(* satellite catalog with its search.  Each part is a few variables and     *)
(* the handlers that change them; what is drawn is an operator of them.     *)
(***************************************************************************)
EXTENDS Integers, Sequences, FiniteSets

CONSTANTS
  TrackEnd,        \* the date the page was loaded: the track's right end
  MaxClock,        \* bound on the clock
  HistoryOf,       \* the timeline's events, a sequence of [at, kp]
  SnapWithin,      \* the snap tolerance, in dates of the track
  FeedKps,         \* the Kp values the feed may report
  FeedAges,        \* per core feed, the ages (minutes) at which it is looked at
  OptionalLayers,  \* the optional layers, each with a feed of its own
  LayerAges,       \* per layer, the ages (seconds) at which its data is looked at
  WarningSamples,  \* conjunctions [pc, miss]: probability in millionths, metres
  MaxWarnings,     \* bound on the length of a report's list of conjunctions
  WeatherSamples,  \* readings [kp, xray, proton], see GScale to SScale
  MaxStamp,        \* bound on the readings' update times
  TrendLength,     \* samples the storm panel keeps (120 in the code)
  CatalogObjects,  \* objects, numbered in the order of their names
  Filters,         \* what the query, regime, age and kind filters let through
  RowsPerPage,     \* rows of a page of the catalog (10 in the code)
  FoundAtMost      \* results a search lists (12 in the code)

ASSUME ReadoutsAssumption ==
  /\ TrackEnd \in Nat /\ MaxClock \in Nat /\ TrackEnd <= MaxClock
  /\ HistoryOf \in Seq([at : Int, kp : Int]) /\ SnapWithin \in Nat
  /\ FeedAges \in [{"satellites", "conjunctions", "spaceWeather"} -> SUBSET Nat]
  /\ OptionalLayers \subseteq {"aircraft", "launches", "rocket", "cameras"}
  /\ LayerAges \in [OptionalLayers -> SUBSET Nat]
  /\ WarningSamples \subseteq [pc : Nat, miss : Int] /\ MaxWarnings \in Nat /\ MaxWarnings > 0
  /\ \A w \in WeatherSamples : w.kp \in Int
  /\ MaxStamp \in Nat /\ TrendLength \in Nat /\ TrendLength > 0
  /\ CatalogObjects \subseteq Nat /\ IsFiniteSet(CatalogObjects) /\ 0 \notin CatalogObjects
  /\ Filters \subseteq SUBSET CatalogObjects /\ CatalogObjects \in Filters
  /\ RowsPerPage \in Nat /\ RowsPerPage > 0 /\ FoundAtMost \in Nat /\ FoundAtMost > 0

NoKp == -1         \* an event without a Kp reading
Never == -1        \* a feed that has not been received

VARIABLES
  clock, position, pinned, timelineOpen, dragging, saysLive, viewMode, feedKp,
  linked, feedAge, layer,
  warnings, fetched, weather, stamp, trend,
  rows, filter, pins, pinnedOnly, page, benchOpen, picked, searchOpen, query

timelineVars == <<clock, position, pinned, timelineOpen, dragging, saysLive,
                  viewMode, feedKp>>
statusVars == <<linked, feedAge, layer>>
badgeVars == <<warnings, fetched>>
weatherVars == <<weather, stamp, trend>>
benchVars == <<rows, filter, pins, pinnedOnly, page, benchOpen, picked,
               searchOpen, query>>

(***************************************************************************)
(* The timeline.  Dates are numbers and the track shows 0..TrackEnd.        *)
(***************************************************************************)
Gap(i, date) == LET d == HistoryOf[i].at - date IN IF d < 0 THEN -d ELSE d

Closer(i, best, date) ==
  Gap(i, date) < SnapWithin /\ (best = 0 \/ Gap(i, date) < Gap(best, date))

\* The number of the event a date snaps to, in one pass from the left; 0: none.
NearestEvent(date) ==
  LET best[i \in 0..Len(HistoryOf)] ==
        IF i = 0 THEN 0
        ELSE IF Closer(i, best[i - 1], date) THEN i ELSE best[i - 1]
  IN best[Len(HistoryOf)]

StormLevel(kp) == kp > 5

ModeFor(event) ==
  IF event # 0 /\ HistoryOf[event].kp # NoKp /\ StormLevel(HistoryOf[event].kp)
  THEN "STORM" ELSE "OPS"

AtLiveEdge(date, now) == date = now

LiveNow == pinned = 0 /\ AtLiveEdge(position, clock)

TimelineInit ==
  /\ clock = TrackEnd /\ position = TrackEnd /\ pinned = 0
  /\ timelineOpen = FALSE /\ dragging = FALSE /\ saysLive = TRUE
  /\ viewMode = "OPS" /\ feedKp \in FeedKps

\* The pointer is at `date` of the track, pressed or dragged there.
PointsAt(date) ==
  /\ position' = date
  /\ pinned' = NearestEvent(date)
  /\ viewMode' = ModeFor(NearestEvent(date))
  /\ saysLive' = (NearestEvent(date) = 0 /\ AtLiveEdge(date, clock))
  /\ UNCHANGED <<clock, timelineOpen, feedKp>>

PressTrack(date) == timelineOpen /\ dragging' = TRUE /\ PointsAt(date)

DragTo(date) == dragging /\ timelineOpen /\ PointsAt(date) /\ UNCHANGED dragging

ReleaseTrack ==
  /\ dragging /\ dragging' = FALSE /\ saysLive' = LiveNow
  /\ UNCHANGED <<clock, position, pinned, timelineOpen, viewMode, feedKp>>

GoLive ==
  /\ timelineOpen
  /\ position' = clock /\ pinned' = 0 /\ viewMode' = "OPS" /\ saysLive' = TRUE
  /\ UNCHANGED <<clock, timelineOpen, dragging, feedKp>>

\* The T key.
ToggleTimeline ==
  /\ timelineOpen' = ~timelineOpen /\ saysLive' = LiveNow
  /\ UNCHANGED <<clock, position, pinned, dragging, viewMode, feedKp>>

\* The mode buttons and keys; the timeline may not be drawn again at once.
ChooseMode(m) ==
  /\ viewMode' = m
  /\ UNCHANGED <<clock, position, pinned, timelineOpen, dragging, saysLive, feedKp>>

\* The timeline is drawn again: a marker is hovered, or the page is drawn.
DrawTimeline ==
  /\ saysLive' = LiveNow
  /\ UNCHANGED <<clock, position, pinned, timelineOpen, dragging, viewMode, feedKp>>

KpArrives(kp) ==
  /\ feedKp' = kp
  /\ UNCHANGED <<clock, position, pinned, timelineOpen, dragging, saysLive, viewMode>>

MinutePassesHere ==
  /\ clock < MaxClock /\ clock' = clock + 1
  /\ UNCHANGED <<position, pinned, timelineOpen, dragging, saysLive, viewMode, feedKp>>

TimelineNext ==
  \/ \E d \in 0..TrackEnd : PressTrack(d) \/ DragTo(d)
  \/ ReleaseTrack \/ GoLive \/ ToggleTimeline \/ DrawTimeline \/ MinutePassesHere
  \/ \E m \in {"OPS", "STORM", "INTEL"} : ChooseMode(m)
  \/ \E kp \in FeedKps : KpArrives(kp)

\* The Kp of the weather summary: the event's reading before the feed's.
DisplayedKp ==
  IF pinned # 0 /\ HistoryOf[pinned].kp # NoKp THEN HistoryOf[pinned].kp ELSE feedKp

\* What the summary button shows; it is there in OPS mode only.
WeatherSummary == IF viewMode = "OPS" THEN {DisplayedKp} ELSE {}

PlaybackBanner == timelineOpen /\ ~saysLive

TimelineTypeOK ==
  /\ clock \in TrackEnd..MaxClock /\ position \in 0..MaxClock
  /\ pinned \in 0..Len(HistoryOf)
  /\ timelineOpen \in BOOLEAN /\ dragging \in BOOLEAN /\ saysLive \in BOOLEAN
  /\ viewMode \in {"OPS", "STORM", "INTEL"} /\ feedKp \in FeedKps

Within(date) == {i \in 1..Len(HistoryOf) : Gap(i, date) < SnapWithin}

FirstNearest(i, date) ==
  /\ i \in Within(date)
  /\ \A j \in Within(date) : Gap(i, date) < Gap(j, date)
                             \/ (Gap(i, date) = Gap(j, date) /\ i <= j)

\* An event is pinned exactly where one is near enough, and it is the nearest,
\* the first of equals; values of an event are shown under the playback banner
\* whenever the timeline is open.
TimelineTruthful ==
  /\ pinned # 0 => FirstNearest(pinned, position)
  /\ (pinned = 0 /\ position < TrackEnd) => Within(position) = {}
  /\ timelineOpen => \A kp \in WeatherSummary : kp = feedKp \/ PlaybackBanner

(***************************************************************************)
(* The feed status button and the lights of its rows.                       *)
(***************************************************************************)
CoreFeeds == {"satellites", "conjunctions", "spaceWeather"}

\* The age and the limits are in one unit.
Freshness(age, liveLimit, errorLimit) ==
  IF age = Never \/ age > errorLimit THEN "error"
  ELSE IF age > liveLimit THEN "stale" ELSE "live"

\* The button's limits, and the rows' own.
StatusLive(f) == IF f = "conjunctions" THEN 490 ELSE IF f = "satellites" THEN 2 ELSE 5
StatusError(f) == IF f = "conjunctions" THEN 1440 ELSE 15
RowMinutes == [satellites |-> 2, conjunctions |-> 490, spaceWeather |-> 5]
RowSeconds == [aircraft |-> 60, launches |-> 600, rocket |-> 15, cameras |-> 360]

ReceivedFeeds == {f \in CoreFeeds : feedAge[f] # Never}

DataStatus ==
  IF ReceivedFeeds = {} THEN "demo"
  ELSE IF ~linked THEN "offline"
  ELSE IF ReceivedFeeds # CoreFeeds THEN "mixed"
  ELSE IF \E f \in CoreFeeds : Freshness(feedAge[f], StatusLive(f), StatusError(f)) # "live"
       THEN "stale" ELSE "live"

\* Layers that are on and whose feed failed or is stale.
OutageLayers == {l \in OptionalLayers : layer[l].on /\ layer[l].failing}

StatusButton ==
  IF DataStatus = "live" /\ OutageLayers # {} THEN "stale" ELSE DataStatus

CoreLight(f) == Freshness(feedAge[f], RowMinutes[f], 3 * RowMinutes[f]) = "live"

LayerLight(l) ==
  /\ layer[l].on /\ ~layer[l].failing
  /\ Freshness(layer[l].age, RowSeconds[l], 3 * RowSeconds[l]) = "live"

\* What is known of a layer before its feed has answered.
Unasked(on) == [on |-> on, failing |-> FALSE, age |-> Never, answered |-> FALSE]

StatusInit ==
  /\ linked = FALSE /\ feedAge = [f \in CoreFeeds |-> Never]
  /\ layer = [l \in OptionalLayers |-> Unasked(l # "rocket")]

LinkChanges == linked' = ~linked /\ UNCHANGED <<feedAge, layer>>

\* A message of the feed is taken, from the socket or from the HTTP snapshot; it
\* carries the source's time, which conjunctions may lack.
FeedStamped(f) ==
  /\ \E a \in FeedAges[f] \cup (IF f = "conjunctions" THEN {Never} ELSE {}) :
        feedAge' = [feedAge EXCEPT ![f] = a]
  /\ UNCHANGED <<linked, layer>>

\* The feed stays silent until the next age at which it is looked at.
FeedAgesOn(f) ==
  /\ feedAge[f] # Never
  /\ \E a \in FeedAges[f] :
        /\ a > feedAge[f] /\ \A b \in FeedAges[f] : b > feedAge[f] => a <= b
        /\ feedAge' = [feedAge EXCEPT ![f] = a]
  /\ UNCHANGED <<linked, layer>>

\* The layers whose data is dropped when their feed is set up anew; the cameras
\* keep their list, its time and its errors, and only the effect's cache is new.
Refetched == OptionalLayers \cap {"aircraft", "launches", "rocket"}

\* SetUpKeeps is the variant that keeps it for all of them.
SetUpKeeps(l, on) == [layer[l] EXCEPT !.on = on, !.answered = FALSE]
SetUp(l, on) ==
  IF l \in Refetched THEN Unasked(on) ELSE [layer[l] EXCEPT !.on = on, !.answered = FALSE]

\* A layer is switched, or a launch is followed or not, and the effects have run.
LayerSwitched(l) ==
  layer' = [layer EXCEPT ![l] = SetUp(l, ~layer[l].on)] /\ UNCHANGED <<linked, feedAge>>

\* Another region is chosen, or another launch is followed.
LayerChanged(l) ==
  /\ l \in {"aircraft", "rocket"} /\ layer[l].on
  /\ layer' = [layer EXCEPT ![l] = SetUp(l, TRUE)]
  /\ UNCHANGED <<linked, feedAge>>

\* The feed answers with data of some age, perhaps stale or with the errors of
\* some of its networks; a rocket's positions are stale by their own age too.
LayerAnswered(l, age, fails) ==
  /\ layer[l].on
  /\ l = "rocket" /\ age > RowSeconds[l] => fails
  /\ layer' = [layer EXCEPT ![l] = [on |-> TRUE, failing |-> fails, age |-> age, answered |-> TRUE]]
  /\ UNCHANGED <<linked, feedAge>>

\* It does not answer, or with an error; cameras no network gave are of no time.
LayerFails(l) ==
  /\ layer[l].on
  /\ layer' = [layer EXCEPT ![l].failing = TRUE,
                            ![l].age = IF layer[l].answered THEN @ ELSE Never]
  /\ UNCHANGED <<linked, feedAge>>

\* A followed launch has no positions yet.
RocketWaits ==
  /\ "rocket" \in OptionalLayers /\ layer["rocket"].on /\ ~layer["rocket"].answered
  /\ layer' = [layer EXCEPT !["rocket"].failing = FALSE]
  /\ UNCHANGED <<linked, feedAge>>

\* A frame finds that no position of the rocket is recent any more.
RocketGrowsStale ==
  /\ "rocket" \in OptionalLayers /\ layer["rocket"].on /\ layer["rocket"].answered
  /\ layer["rocket"].age > RowSeconds["rocket"] /\ ~layer["rocket"].failing
  /\ layer' = [layer EXCEPT !["rocket"].failing = TRUE]
  /\ UNCHANGED <<linked, feedAge>>

LayerAgesOn(l) ==
  /\ layer[l].age # Never
  /\ \E a \in LayerAges[l] :
        /\ a > layer[l].age /\ \A b \in LayerAges[l] : b > layer[l].age => a <= b
        /\ layer' = [layer EXCEPT ![l].age = a]
  /\ UNCHANGED <<linked, feedAge>>

StatusNext ==
  \/ LinkChanges \/ RocketWaits \/ RocketGrowsStale
  \/ \E f \in CoreFeeds : FeedStamped(f) \/ FeedAgesOn(f)
  \/ \E l \in OptionalLayers :
        \/ LayerSwitched(l) \/ LayerChanged(l) \/ LayerFails(l) \/ LayerAgesOn(l)
        \/ \E age \in LayerAges[l], fails \in BOOLEAN : LayerAnswered(l, age, fails)

StatusTypeOK ==
  /\ linked \in BOOLEAN
  /\ \A f \in CoreFeeds : feedAge[f] \in FeedAges[f] \cup {Never}
  /\ DOMAIN layer = OptionalLayers
  /\ \A l \in OptionalLayers :
        layer[l] \in [on : BOOLEAN, failing : BOOLEAN, age : LayerAges[l] \cup {Never}, answered : BOOLEAN]

\* The button says FEEDS CONNECTED exactly over a live connection whose core rows
\* are all lit and while no layer that is on has failed: the button and these rows
\* spell their limits apart and must agree.  No row is lit by an answer to a former
\* region, launch or time of being on.  (The rows of the layers have limits that
\* the button does not know, so one may be dark under FEEDS CONNECTED.)
StatusTruthful ==
  /\ StatusButton = "live"
        <=> linked /\ (\A f \in CoreFeeds : CoreLight(f)) /\ OutageLayers = {}
  /\ StatusButton \in {"stale", "offline", "mixed"} => ReceivedFeeds # {}
  /\ \A l \in Refetched : LayerLight(l) => layer[l].answered

(***************************************************************************)
(* The conjunction badge and list, and the NOAA scales.  A probability is   *)
(* in millionths; `warnings` is the feed in its own order.                  *)
(***************************************************************************)
RiskTier(pc) ==
  IF pc > 1000 THEN "critical" ELSE IF pc > 100 THEN "warning" ELSE IF pc > 1 THEN "watch" ELSE "nominal"

ActionFor(pc) ==
  CASE RiskTier(pc) = "critical" -> "priority review"
    [] RiskTier(pc) = "warning" -> "review"
    [] OTHER -> "lower"

MissTier(miss) ==
  IF miss < 500 THEN "critical" ELSE IF miss < 1000 THEN "warning" ELSE "nominal"

IsCritical(w) == w.pc >= 5000 \/ w.miss <= 250

FleetSeverity(list) ==
  IF list = <<>> THEN "clear"
  ELSE IF \E i \in DOMAIN list : IsCritical(list[i]) THEN "critical"
  ELSE IF \E i \in DOMAIN list : list[i].pc > 100 THEN "warning" ELSE "elevated"

\* The list of the panel: most probable first, equals in the feed's order.
MostProbableFirst(list) ==
  LET Goes(i, j) == list[i].pc > list[j].pc \/ (list[i].pc = list[j].pc /\ i <= j)
      place(i) == Cardinality({j \in DOMAIN list : Goes(j, i)})
  IN [p \in DOMAIN list |-> list[CHOOSE i \in DOMAIN list : place(i) = p]]

\* How many of the ascending limits the value has reached.
Reached(value, limits) == Cardinality({i \in DOMAIN limits : value >= limits[i]})

GScale(kp) == Reached(kp, <<5, 6, 7, 8, 9>>)

\* An X-ray class is a letter and tenths; its flux is in 1e-9 W/m2.
FluxOf(xray) ==
  xray.tenths * [A |-> 1, B |-> 10, C |-> 100, M |-> 1000, X |-> 10000][xray.class]

RScale(xray) ==
  IF xray.class = "unreadable" THEN 0
  ELSE Reached(FluxOf(xray), <<10000, 50000, 100000, 1000000, 2000000>>)

SScale(proton) == Reached(proton, <<10, 100, 1000, 10000, 100000>>)

\* The three scales in the order they are listed, and the one the panel leads
\* with: the first of the highest.
ScaleCodes(w) == <<GScale(w.kp), SScale(w.proton), RScale(w.xray)>>

PeakScale(w) ==
  LET worst[i \in 1..3] ==
        IF i = 1 THEN 1
        ELSE IF ScaleCodes(w)[i] > ScaleCodes(w)[worst[i - 1]] THEN i ELSE worst[i - 1]
  IN worst[3]

\* The rows marked CURRENT in the panel's three tables, which begin at level 1.
MarkedRows(w) == [i \in 1..3 |-> {r \in 1..5 : r = ScaleCodes(w)[i]}]

\* Before the first report the list is empty or a demonstration.
BadgeInit ==
  warnings \in {<<>>} \cup {<<w>> : w \in WarningSamples} /\ fetched = FALSE

ConjunctionsArrive(list) == warnings' = list /\ fetched' = TRUE

BadgeNext ==
  \E n \in 0..MaxWarnings : \E list \in [1..n -> WarningSamples] : ConjunctionsArrive(list)

\* What the badge over the globe says.
BadgeSays ==
  IF warnings # <<>> THEN FleetSeverity(warnings)
  ELSE IF fetched THEN "none upcoming" ELSE "feed unavailable"

\* The detail of one report: the colours of its two figures and its action.
DetailShows(w) ==
  [miss |-> MissTier(w.miss), probability |-> RiskTier(w.pc), action |-> ActionFor(w.pc)]

WeatherInit == weather \in WeatherSamples /\ stamp = 0 /\ trend = <<>>

\* The samples of the session, kept when the update time differs from the last.
WithReading(list, time) ==
  IF list # <<>> /\ list[Len(list)] = time THEN list
  ELSE LET longer == Append(list, time)
       IN IF Len(longer) > TrendLength THEN Tail(longer) ELSE longer

\* A reading arrives, perhaps one that was sent before.
WeatherArrives(w, time) ==
  /\ weather' = w /\ stamp' = time
  /\ trend' = WithReading(trend, time)

WeatherNext ==
  \E w \in WeatherSamples, time \in 0..MaxStamp : WeatherArrives(w, time)

BadgeTypeOK ==
  /\ Len(warnings) <= MaxWarnings /\ \A i \in DOMAIN warnings : warnings[i] \in WarningSamples
  /\ fetched \in BOOLEAN

Urgency(tier) == CASE tier = "critical" -> 2 [] tier = "warning" -> 1 [] OTHER -> 0

\* The badge is never calmer than the most urgent row of the list behind it,
\* short of the step from warning to critical (the badge asks more of that
\* word), and a critical badge is borne out by the detail of some report; the
\* list loses no report.
BadgeTruthful ==
  /\ \A i \in DOMAIN warnings :
        Urgency(DetailShows(warnings[i]).probability) > 0
          => BadgeSays \in {"warning", "critical"}
  /\ BadgeSays = "critical" =>
        \E i \in DOMAIN warnings : \/ DetailShows(warnings[i]).miss = "critical"
                                   \/ DetailShows(warnings[i]).action = "priority review"
  /\ LET list == MostProbableFirst(warnings) IN
        /\ \A i, j \in DOMAIN list : i <= j => list[i].pc >= list[j].pc
        /\ \A w \in WarningSamples : Cardinality({i \in DOMAIN list : list[i] = w})
                                   = Cardinality({i \in DOMAIN warnings : warnings[i] = w})

WeatherTypeOK ==
  /\ weather \in WeatherSamples /\ stamp \in 0..MaxStamp
  /\ \A i \in DOMAIN trend : trend[i] \in 0..MaxStamp

\* The scale the panel leads with is the first of the highest and its row is
\* marked unless all is quiet; storm mode begins no lower than the G scale; the
\* session's trend has one sample per change of the reading, up to the newest.
WeatherTruthful ==
  /\ \A i \in 1..3 : /\ ScaleCodes(weather)[PeakScale(weather)] >= ScaleCodes(weather)[i]
                     /\ i < PeakScale(weather)
                          => ScaleCodes(weather)[i] < ScaleCodes(weather)[PeakScale(weather)]
  /\ MarkedRows(weather)[PeakScale(weather)] = {} => \A i \in 1..3 : MarkedRows(weather)[i] = {}
  /\ StormLevel(weather.kp) => GScale(weather.kp) >= 1
  /\ \A i \in 2..Len(trend) : trend[i - 1] # trend[i]
  /\ trend # <<>> => trend[Len(trend)] = stamp /\ Len(trend) <= TrendLength

(***************************************************************************)
(* The satellite catalog, page by page, and the search box.  A filter is    *)
(* the set of objects it lets through.                                      *)
(***************************************************************************)
Shortlist == {o \in rows \cap filter : pinnedOnly => o \in pins}

PageCount == (Cardinality(Shortlist) + RowsPerPage - 1) \div RowsPerPage

\* The page asked for, or the last one when the results have shrunk.
CurrentPage ==
  LET last == IF PageCount = 0 THEN 0 ELSE PageCount - 1
  IN IF page < last THEN page ELSE last

RowsBefore(o, set) == Cardinality({x \in set : x < o})

PageRows == {o \in Shortlist : RowsBefore(o, Shortlist) \div RowsPerPage = CurrentPage}

BenchShown == benchOpen /\ picked = 0

BenchInit ==
  /\ rows = CatalogObjects /\ filter = CatalogObjects /\ pins = {}
  /\ pinnedOnly = FALSE /\ page = 0 /\ benchOpen = TRUE /\ picked = 0
  /\ searchOpen = FALSE /\ query = CatalogObjects

RowsArrive(set) ==
  /\ rows' = set
  /\ UNCHANGED <<filter, pins, pinnedOnly, page, benchOpen, picked, searchOpen, query>>

SetFilter(f) ==
  /\ BenchShown /\ filter' = f /\ page' = 0
  /\ UNCHANGED <<rows, pins, pinnedOnly, benchOpen, picked, searchOpen, query>>

SetPinnedOnly ==
  /\ BenchShown /\ pinnedOnly' = ~pinnedOnly /\ page' = 0
  /\ UNCHANGED <<rows, filter, pins, benchOpen, picked, searchOpen, query>>

\* The star of a row; the page asked for stays.
TogglePin(o) ==
  /\ BenchShown /\ o \in PageRows
  /\ pins' = IF o \in pins THEN pins \ {o} ELSE pins \cup {o}
  /\ UNCHANGED <<rows, filter, pinnedOnly, page, benchOpen, picked, searchOpen, query>>

PreviousPage ==
  /\ BenchShown /\ CurrentPage # 0 /\ page' = CurrentPage - 1
  /\ UNCHANGED <<rows, filter, pins, pinnedOnly, benchOpen, picked, searchOpen, query>>

CanGoOn == (CurrentPage + 1) * RowsPerPage < Cardinality(Shortlist)

NextPage ==
  /\ BenchShown /\ CanGoOn /\ page' = CurrentPage + 1
  /\ UNCHANGED <<rows, filter, pins, pinnedOnly, benchOpen, picked, searchOpen, query>>

PickRow(o) ==
  /\ BenchShown /\ o \in PageRows /\ picked' = o
  /\ UNCHANGED <<rows, filter, pins, pinnedOnly, page, benchOpen, searchOpen, query>>

\* The catalog is opened or closed, or the object's inspector is closed.
ToggleBench ==
  /\ \/ picked # 0 /\ picked' = 0 /\ UNCHANGED benchOpen
     \/ picked = 0 /\ benchOpen' = ~benchOpen /\ UNCHANGED picked
  /\ UNCHANGED <<rows, filter, pins, pinnedOnly, page, searchOpen, query>>

Found == {o \in rows \cap query : RowsBefore(o, rows \cap query) < FoundAtMost}

\* "/" or the button; Escape, the backdrop and the ESC button close it again,
\* and closing clears the query.
OpenSearch ==
  /\ ~searchOpen /\ searchOpen' = TRUE
  /\ UNCHANGED <<rows, filter, pins, pinnedOnly, page, benchOpen, picked, query>>

CloseSearch ==
  /\ searchOpen /\ searchOpen' = FALSE /\ query' = CatalogObjects
  /\ UNCHANGED <<rows, filter, pins, pinnedOnly, page, benchOpen, picked>>

TypeQuery(f) ==
  /\ searchOpen /\ query' = f
  /\ UNCHANGED <<rows, filter, pins, pinnedOnly, page, benchOpen, picked, searchOpen>>

\* A result is clicked, or Enter takes the first.
PickFound(o) ==
  /\ searchOpen /\ o \in Found
  /\ picked' = o /\ searchOpen' = FALSE /\ query' = CatalogObjects
  /\ UNCHANGED <<rows, filter, pins, pinnedOnly, page, benchOpen>>

BenchNext ==
  \/ \E set \in SUBSET CatalogObjects : RowsArrive(set)
  \/ \E f \in Filters : SetFilter(f) \/ TypeQuery(f)
  \/ \E o \in CatalogObjects : TogglePin(o) \/ PickRow(o) \/ PickFound(o)
  \/ SetPinnedOnly \/ PreviousPage \/ NextPage \/ ToggleBench
  \/ OpenSearch \/ CloseSearch

BenchTypeOK ==
  /\ rows \subseteq CatalogObjects /\ filter \in Filters /\ pins \subseteq CatalogObjects
  /\ pinnedOnly \in BOOLEAN /\ page \in 0..Cardinality(CatalogObjects)
  /\ benchOpen \in BOOLEAN /\ picked \in CatalogObjects \cup {0}
  /\ searchOpen \in BOOLEAN /\ query \in Filters

\* The catalog never shows an empty page while there are results, however they
\* shrank since the page was asked for; going on is offered exactly when there
\* are results behind this page; a search that has matches lists some.
BenchTruthful ==
  /\ Shortlist # {} => PageRows # {} /\ Cardinality(PageRows) <= RowsPerPage
  /\ CanGoOn <=> \E o \in Shortlist : \A x \in PageRows : x < o
  /\ rows \cap query # {} => Found # {}
=============================================================================
