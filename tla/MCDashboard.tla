---------------------------- MODULE MCDashboard ----------------------------
(***************************************************************************)
(* One instance of every part of the dashboard.  The parts share nothing    *)
(* that these modules model (what they share is module Workspace), so a     *)
(* behaviour exercises one part and leaves the others at rest: the run is   *)
(* the sum of the parts' state spaces and not their product.                *)
(***************************************************************************)
EXTENDS GlobeCatalog, LiveTracking, MissionLab, EarthCameras, ManeuverAnalysis,
        Encounters, Readouts

VARIABLE part

CONSTANTS s1, s2

MCParts == {"catalog", "census", "feed", "route", "rocket", "lab", "replay", "capture", "cameras", "media",
            "map", "maneuver", "pairs", "review", "timeline", "status", "badge", "weather", "bench"}
LabParts == {"lab", "replay", "capture"}

(* The catalog: lists that share positions and differ in order and length; the  *)
(* elements of one object are current and expire, those of the other are old.   *)
MCSats  == {s1, s2}
MCLists == {<<s1>>, <<s2, s1>>}
MCLives == {[s \in MCSats |-> IF s = s1 THEN Long ELSE 0]}
MCDemo  == <<s1>>

(* The mission lab: an archive of the example with a designed maneuver, and one *)
(* of another mission.                                                          *)
MCDesignLead == [d1 |-> 2]
MCArchives ==
  {[scenario |-> [id |-> "demo", lead |-> 1, designs |-> <<"d1">>], selected |-> "d1",
    seconds |-> -2, notes |-> "x", events |-> "captured"],
   [scenario |-> [id |-> "other", lead |-> 2, designs |-> <<>>], selected |-> "burn",
    seconds |-> -1, notes |-> "", events |-> "none"]}

(* The cameras: one feed changes its mind about what it publishes, the other    *)
(* repeats an image of the first.                                               *)
CameraRow(id, image, feed, video, ok) ==
  [id |-> id, image |-> image, feed |-> feed, valid |-> ok, video |-> video]
MCPublished == [f \in {"idot", "passage"} |->
  IF f = "idot" THEN {<<CameraRow("c1", "i1", f, "hls", TRUE)>>, <<CameraRow("c2", "i2", f, "none", FALSE)>>}
  ELSE {<<CameraRow("c3", "i1", f, "none", TRUE)>>}]
MCBuiltIn   == <<CameraRow("c0", "i0", "idot", "embed", TRUE)>>
MCFeedOrder == <<"idot", "passage">>

(* The analysis: two maneuvers beside the coast.  The first worlds vary how     *)
(* close and how probable each candidate's encounter is, the second the         *)
(* magnitudes of either sign that meet the goal, with gaps between them.        *)
MCManeuvers == <<[id |-> "coast", dv |-> 0, lead |-> 4], [id |-> "low", dv |-> 1, lead |-> 6],
                 [id |-> "high", dv |-> 2, lead |-> 4]>>
MCUnpriced  == -1
PathOf(c, l) == [closest |-> c, least |-> l]
Flown(c, near, pc) ==
  [pair |-> PathOf(c, 1), pc |-> pc,
   peers |-> [o \in {"companion"} |-> IF near = 99 THEN PathOf(0, 9) ELSE PathOf(near, 0)]]
MissionFile(s, c) ==
  [kind |-> "archive", sigma |-> s, covariances |-> c, screening |-> {"companion"}]
CdmFile(frames, epoch, velocity) ==
  [kind |-> "cdm", frames |-> frames, earth |-> TRUE, utc |-> TRUE, rtn |-> TRUE,
   definite |-> TRUE, epochAtTca |-> epoch, velocity |-> velocity]
MCFilesRead ==
  {MissionFile(s, c) : s \in BOOLEAN, c \in BOOLEAN}
    \cup {CdmFile(<<"GCRF", "GCRF">>, TRUE, <<"all", v>>) : v \in {"all", "none", "partial"}}
    \cup {CdmFile(<<"GCRF", "EME2000">>, TRUE, <<"all", "all">>),
          CdmFile(<<"GCRF", "GCRF">>, FALSE, <<"all", "all">>)}
WorldOf(f, pc, low, high, meets) ==
  [file |-> f, pc |-> pc, meets |-> meets,
   orbits |-> [id \in {"coast", "low", "high"} |->
     CASE id = "coast" -> Flown(0, 99, pc) [] id = "low" -> low [] id = "high" -> high]]
CandidateWorlds ==
  {WorldOf(f, pc, low, high, [l \in 2..5 |-> {}]) :
     f \in MCFilesRead, pc \in {1, 2, Unpriced},
     low \in {Flown(c, n, p) : c \in {-4, -2, -1}, n \in {99, -5, 1}, p \in {0, 1, Unpriced}},
     high \in {Flown(1, n, p) : n \in {99, -1}, p \in {0, 1}}}
Meeting(a, b, gap) == (a..8 \cup {-x : x \in b..8}) \ gap
TradeWorlds ==
  {WorldOf(MissionFile(s, TRUE), pc, Flown(-1, 99, 0), Flown(1, 99, 0),
           [l \in 2..5 |-> IF l = 3 THEN row ELSE IF l = 4 THEN {} ELSE {7, 8}]) :
     s \in BOOLEAN, pc \in {0, 2},
     row \in {Meeting(a, b, gap) : a \in {0, 1, 4, 5, 8, 9}, b \in {1, 4, 5, 8, 9}, gap \in {{}, {3}, {-4, -5}}}}
RestWorld == WorldOf(MissionFile(TRUE, TRUE), 2, Flown(-1, 99, 0), Flown(1, 99, 0), [l \in 2..5 |-> {7, 8}])
MCWorlds == CandidateWorlds \cup TradeWorlds \cup {RestWorld}

(* The encounters: two reports of the same two objects in either order, and the *)
(* review files: one unreadable, two that share a key.                          *)
MCObjectsOf == [a |-> <<1, 2>>, b |-> <<2, 1>>]
MCCatalogs  == {<<0, 0>>, <<1, 0>>}
MCFiles ==
  {[ok |-> FALSE, reports |-> <<>>, notes |-> <<>>],
   [ok |-> TRUE, reports |-> ("k1" :> "x"), notes |-> ("k1" :> "n")],
   [ok |-> TRUE, reports |-> ("k1" :> "y" @@ "k2" :> "x"), notes |-> <<>>]}

(* The readouts: two events that can tie and one without a Kp; every age,       *)
(* probability, distance and flux on either side of a limit of the code.        *)
MCHistory == <<[at |-> 1, kp |-> 7], [at |-> 3, kp |-> 4], [at |-> 7, kp |-> NoKp]>>
\* Two aircraft report one callsign, the third none.
MCCallsignOf == [p1 |-> "c1", p2 |-> "", p3 |-> "c1"]
MCFeedAges ==
  [satellites |-> {2, 3}, conjunctions |-> {490, 491}, spaceWeather |-> {5, 6}]
MCLayerAges == [aircraft |-> {60, 61}, rocket |-> {15, 16}, cameras |-> {360, 361}]
MCWarnings ==
  [pc : {1, 100, 101, 1000, 1001, 5000}, miss : {251}] \cup {[pc |-> 1, miss |-> 250]}
Class(letter, tenths) == [class |-> letter, tenths |-> tenths]
MCWeather ==
  [kp : {4, 5, 6, 9}, proton : {0, 10, 100000},
   xray : {Class("unreadable", 10), Class("C", 99), Class("M", 10), Class("M", 50),
           Class("X", 10), Class("X", 200)}]
MCFilters == {CatalogObjects, {2, 3}, {3}}

(* One aircraft and one report are enough for the feed and the review.          *)
ASSUME OnesAssumption == "p1" \in Planes /\ "k1" \in Keys

readoutVars == <<timelineVars, statusVars, badgeVars, weatherVars, benchVars>>
encounterVars == <<pairVars, reviewVars>>
dashboardVars ==
  <<part, catalogVars, trackingVars, labVars, earthVars, analysisVars, encounterVars, readoutVars>>

\* Parts at rest begin in one state.
RestWeather == [kp |-> 4, proton |-> 0, xray |-> Class("C", 99)]
PartsAtRest ==
  /\ part \in {"catalog", "census"} \/ hasFeed = TRUE
  /\ part \in {"feed", "route"} \/ region = "world"
  /\ part = "maneuver" \/ world = RestWorld
  /\ part = "pairs" \/ elements = <<0, 0>>
  /\ part = "timeline" \/ feedKp = 2
  /\ part = "badge" \/ warnings = <<>>
  /\ part = "weather" \/ weather = RestWeather

DashboardInit ==
  /\ part \in MCParts /\ PartsAtRest
  /\ CatalogInit /\ AirInit /\ RocketInit /\ LabInit /\ EarthInit /\ ManeuverInit
  /\ PairsInit /\ ReviewInit
  /\ TimelineInit /\ StatusInit /\ BadgeInit /\ WeatherInit /\ BenchInit

CensusPart ==
  \/ WorkerStep \/ WorkerThrows \/ WindowArrives \/ SyncSatellites \/ CatalogTick \/ SomeCatalogFrame
  \/ \E list \in Lists \ {Demo}, lives \in Lives : CatalogArrives(list, lives)
FreshAnswers == {obs \in Observations(Planes, polled) : \A o \in obs : o.age = 0}

FeedPart ==
  FeedNext({"p1"}) \/ TrackingTime \/ \E p \in {"p1", Nobody} : ChooseAircraft(p)
RoutePart ==
  FeedEffect \/ ChoiceNext \/ \E obs \in FreshAnswers : FeedAnswers(obs, FALSE)

NetworksAnswer ==
  CamerasEffect \/ PollEnds \/ CamerasPoll \/ ToggleCameras
    \/ \E f \in CameraFeeds : \E published \in Published[f] : NetworkAnswers(f, published)

CatalogRests   == UNCHANGED <<part, trackingVars, labVars, earthVars, analysisVars, encounterVars, readoutVars>>
TrackingRests  == UNCHANGED <<part, catalogVars, labVars, earthVars, analysisVars, encounterVars, readoutVars>>
LabRests       == UNCHANGED <<part, catalogVars, trackingVars, earthVars, analysisVars, encounterVars, readoutVars>>
EarthRests     == UNCHANGED <<part, catalogVars, trackingVars, labVars, analysisVars, encounterVars, readoutVars>>
AnalysisRests  == UNCHANGED <<part, catalogVars, trackingVars, labVars, earthVars, encounterVars, readoutVars>>
EncounterRests == UNCHANGED <<part, catalogVars, trackingVars, labVars, earthVars, analysisVars, readoutVars>>
ReadoutRests   == UNCHANGED <<part, catalogVars, trackingVars, labVars, earthVars, analysisVars, encounterVars>>

DashboardNext ==
  \/ part = "catalog" /\ CatalogNext /\ CatalogRests
  \/ part = "census" /\ CensusPart /\ CatalogRests
  \/ part = "feed" /\ FeedPart /\ TrackingRests
  \/ part = "route" /\ RoutePart /\ TrackingRests
  \/ part = "rocket" /\ (RocketNext \/ TrackingTime) /\ TrackingRests
  \/ part = "lab" /\ (Investigate \/ Redesign \/ Worked) /\ LabRests
  \/ part = "replay" /\ (OpenLab \/ CloseLab \/ ExampleMission \/ Redesign \/ Replay \/ Worked) /\ LabRests
  \/ part = "capture" /\ (Investigate \/ Capture \/ Worked) /\ LabRests
  \/ part = "cameras" /\ (NetworksNext \/ ChoicesNext) /\ EarthRests
  \/ part = "media" /\ (NetworksAnswer \/ ChoicesNext \/ MediaNext) /\ EarthRests
  \/ part = "map" /\ MapNext /\ EarthRests
  \/ part = "maneuver" /\ ManeuverNext /\ AnalysisRests
  \/ part = "pairs" /\ PairsNext /\ EncounterRests /\ UNCHANGED reviewVars
  \/ part = "review" /\ (ReviewSteps \/ WriteNote("k1")) /\ EncounterRests /\ UNCHANGED pairVars
  \/ part = "timeline" /\ TimelineNext /\ ReadoutRests
       /\ UNCHANGED <<statusVars, badgeVars, weatherVars, benchVars>>
  \/ part = "status" /\ StatusNext /\ ReadoutRests
       /\ UNCHANGED <<timelineVars, badgeVars, weatherVars, benchVars>>
  \/ part = "badge" /\ BadgeNext /\ ReadoutRests
       /\ UNCHANGED <<timelineVars, statusVars, weatherVars, benchVars>>
  \/ part = "weather" /\ WeatherNext /\ ReadoutRests
       /\ UNCHANGED <<timelineVars, statusVars, badgeVars, benchVars>>
  \/ part = "bench" /\ BenchNext /\ ReadoutRests
       /\ UNCHANGED <<timelineVars, statusVars, badgeVars, weatherVars>>

(* The schedules that the parts' fairness asks for: requests are answered or     *)
(* time out, computations end, timers, effects and frames run.  A behaviour has  *)
(* one part, so the parts share each condition.                                 *)
Answered ==
  \/ part = "census" /\ WorkerStep /\ CatalogRests
  \/ part = "feed" /\ TrackingRests
       /\ (FeedFails \/ \E obs \in Observations({"p1"}, polled), stale \in BOOLEAN : FeedAnswers(obs, stale))
  \/ part = "rocket" /\ TelemetryEnds /\ TrackingRests
  \/ part \in LabParts /\ (\E ok \in BOOLEAN : WorkerAnswers(ok)) /\ LabRests
Polled ==
  \/ part = "census" /\ WindowArrives /\ CatalogRests
  \/ part = "feed" /\ FeedPolls /\ TrackingRests
  \/ part = "rocket" /\ TelemetryPolls /\ TrackingRests
Rendered ==
  \/ part = "census" /\ SyncSatellites /\ CatalogRests
  \/ part = "feed" /\ FeedEffect /\ TrackingRests
DashboardFairness ==
  /\ WF_dashboardVars(Answered) /\ WF_dashboardVars(Polled) /\ WF_dashboardVars(Rendered)
  /\ WF_dashboardVars(part = "census" /\ SomeCatalogFrame /\ CatalogRests)

DashboardSpec == DashboardInit /\ [][DashboardNext]_dashboardVars /\ DashboardFairness

----
\* (A part at rest stays in an initial state, which its own behaviours check.)
DashboardTypeOK ==
  /\ part \in MCParts
  /\ part \in {"catalog", "census"} => CatalogTypeOK
  /\ part \in {"feed", "route", "rocket"} => TrackingTypeOK
  /\ part \in LabParts => LabTypeOK
  /\ part \in {"cameras", "media", "map"} => EarthTypeOK
  /\ part = "maneuver" => ManeuverTypeOK
  /\ part = "pairs" => PairsTypeOK
  /\ part = "review" => ReviewTypeOK
  /\ part = "timeline" => TimelineTypeOK
  /\ part = "status" => StatusTypeOK
  /\ part = "badge" => BadgeTypeOK
  /\ part = "weather" => WeatherTypeOK
  /\ part = "bench" => BenchTypeOK

\* The lab's results are those of the scenario it shows, and its replay stays
\* within the trajectory: see the two parts in MissionLab.
LabCoherent == part \in LabParts => ResultsMatchInputs /\ ReplayWithinTrajectory

\* What the analyst wrote survives the lab that is closed and the file it was
\* written to: see the two parts in MissionLab.
SessionSurvives == part \in LabParts => ArchiveRestoresSession /\ SessionKept

\* What the aerospace and Earth views show belongs to what is chosen there, and
\* tracks, camera list, players and layers are in order: see the parts in
\* LiveTracking and EarthCameras.
ViewsCoherent ==
  /\ AnswersBelong /\ TracksUsable
  /\ part \in {"cameras", "media", "map"} => CamerasInOrder /\ PlayersBelong /\ StreetsOnTop

\* What the analysis recommends, the figures of its trade space and the plots
\* drawn of them: see the parts in ManeuverAnalysis.
AnalysisSound == part = "maneuver" => RecommendationSound /\ MinimumIsSound /\ PlotsAgree

\* The globe draws nothing from data that is outdated: see the parts in
\* GlobeCatalog and Encounters.
GlobeShowsNow == OutdatedHidden /\ PathsAreOfNow

\* Every readout says what the data says: see the parts in Readouts.
ReadoutsTruthful ==
  /\ part = "timeline" => TimelineTruthful
  /\ part = "status" => StatusTruthful
  /\ part = "badge" => BadgeTruthful
  /\ part = "weather" => WeatherTruthful
  /\ part = "bench" => BenchTruthful

\* No part of the dashboard waits for ever: the globe's census leaves
\* "Calculating" (a window for the last list arrives, or the worker is reported to
\* have failed), the mission lab leaves it too, and the aircraft feed and the
\* telemetry of a followed launch are asked again and again.
NothingWaitsForever ==
  []<>(/\ part = "census" => census # "loading"
       /\ part \in LabParts /\ labOpen => analysis # Busy
       /\ part = "feed" /\ airOn => airPoll = "asking"
       /\ part = "rocket" /\ followed # Nobody => rocketPoll = "asking")
====
