---- MODULE LiveTracking ----
(***************************************************************************)
(* What the dashboard shows of aircraft and rockets: the aircraft feed of  *)
(* the region and layer that are chosen, the markers, motion and trails    *)
(* drawn from it, the route of the aircraft that is selected, and the      *)
(* observed positions of the launch that is followed.  Each is asked over  *)
(* HTTP again and again, and an answer can come after the choice it was    *)
(* asked for has been replaced.                                            *)
(*                                                                         *)
(* Instants are ages: an observation grows older with every step of time   *)
(* and stops at Old, past every limit of the code.  A limit is a constant: *)
(* the model keeps their order, not their length.                          *)
(***************************************************************************)
EXTENDS Integers, Sequences, SequencesExt, FiniteSets

CONSTANTS
  Planes,        \* aircraft
  Callsigns,     \* names a route is listed under
  CallsignOf,    \* the name an aircraft reports: several may share one, or have none
  Regions,       \* coverage regions
  Vehicles,      \* vehicles of a mission
  Followable,    \* launches that can be followed
  FreshFor,      \* 15 s: a rocket position is live
  HiddenAfter,   \* 90 s: observations are hidden, telemetry refused, trails cut
  KeptFor,       \* 600 s of a trail, 900 s of a track
  KeptSamples    \* 60 points of a trail, 900 samples of a track

ASSUME TrackingAssumption ==
  /\ FreshFor \in Nat /\ HiddenAfter \in Nat /\ KeptFor \in Nat /\ KeptSamples \in Nat \ {0}
  /\ FreshFor < HiddenAfter /\ HiddenAfter < KeptFor

Old    == KeptFor + 1
Nobody == "nobody"
ASSUME NobodyAssumption == Nobody \notin Planes \cup Callsigns

VARIABLES
  region, airOn,     \* the choices in the store
  chosenAir,         \* the aircraft that is selected, or Nobody
  polled,            \* the region useFeed's effect ran for, or Nobody when the layer is off
  aircraft,          \* observations in the store: [id, age, region]
  airInfo,           \* feedInfo: fetched, stale, failed
  airPoll,           \* "off", "asking" or "waiting"
  airLate,           \* the region of a request whose effect was cleaned up, or Nobody
  trails,            \* per aircraft in the scene, the observations its trail joins
  routeFor,          \* the callsign AircraftRoute's effect ran for; Nobody: not mounted
  route,             \* the callsign whose listed route is shown, or Nobody
  routeLoading, routeAsking,
  routeLate,         \* the callsign of an aborted lookup, or Nobody
  followed,          \* followedLaunchId, or Nobody
  telemetry,         \* rocketTelemetry: mission and status
  vehicle,           \* telemetryVehicle
  tracks,            \* per vehicle seen, its samples: [age, mission]
  rocketPoll, rocketLate

airVars    == <<region, airOn, chosenAir, polled, aircraft, airInfo, airPoll, airLate, trails>>
routeVars  == <<routeFor, route, routeLoading, routeAsking, routeLate>>
rocketVars == <<followed, telemetry, vehicle, tracks, rocketPoll, rocketLate>>
trackingVars == <<airVars, routeVars, rocketVars>>

NoInfo  == [fetched |-> FALSE, stale |-> FALSE, failed |-> FALSE]
NoTrail == [p \in {} |-> <<>>]
Older(n) == IF n < Old THEN n + 1 ELSE n

\* Samples are kept while there are few and they are recent.
Trimmed(seq) ==
  LET kept == {i \in 1..(Len(seq) + 1) : Len(seq) < i + KeptSamples /\ (i <= Len(seq) => seq[i].age <= KeptFor)}
  IN SubSeq(seq, Min(kept), Len(seq))

----
(* The scene: render, whenever the list, the selection or the layer changes and *)
(* twice a second.                                                             *)

\* Eligible observations; of these some are out of view, or civilian while only
\* military aircraft are shown.
CurrentAircraft(list, on) == {o \in list : on /\ o.age <= HiddenAfter}

\* An observation later than the last one of the trail is joined to it, unless
\* too long has passed between the two.
CutAtGap(seq, o) == IF seq # <<>> /\ Last(seq).age - o.age > HiddenAfter THEN <<>> ELSE seq
Joined(seq, o) ==
  IF seq = <<>> \/ o.age < Last(seq).age THEN Append(CutAtGap(seq, o), o) ELSE seq

\* What is not drawn loses its marker, its motion and its trail.
TrailsOf(seen, former) ==
  [p \in {o.id : o \in seen} |->
     Trimmed(Joined(IF p \in DOMAIN former THEN former[p] ELSE <<>>, CHOOSE o \in seen : o.id = p))]
DrawsAircraft(list, on, former) == \E seen \in SUBSET CurrentAircraft(list, on) : trails' = TrailsOf(seen, former)

Redraw ==
  /\ DrawsAircraft(aircraft, airOn, trails)
  /\ UNCHANGED <<region, airOn, chosenAir, polled, aircraft, airInfo, airPoll, airLate, routeVars, rocketVars>>

\* The trail that is shown: the selected aircraft's, from two points on.
TrailShown == chosenAir \in DOMAIN trails /\ Len(trails[chosenAir]) > 1

\* The subscriber of the store clears what belongs to the former region, and
\* draws again if an aircraft was selected; the list is emptied by the effect.
SceneCleared == IF chosenAir = Nobody THEN trails' = NoTrail ELSE DrawsAircraft(aircraft, airOn, NoTrail)
ChooseRegion(r) ==
  /\ r # region /\ region' = r /\ chosenAir' = Nobody /\ SceneCleared
  /\ UNCHANGED <<airOn, polled, aircraft, airInfo, airPoll, airLate, routeVars, rocketVars>>
ToggleAircraft ==
  /\ airOn' = ~airOn /\ DrawsAircraft(aircraft, airOn', trails)
  /\ UNCHANGED <<region, chosenAir, polled, aircraft, airInfo, airPoll, airLate, routeVars, rocketVars>>
\* Recent observations, of which a search leaves some.
Listed == {o \in aircraft : o.age <= HiddenAfter}
ChooseAircraft(p) ==
  /\ p # chosenAir /\ p \in {o.id : o \in Listed} \cup {Nobody} /\ chosenAir' = p
  /\ DrawsAircraft(aircraft, airOn, trails)
  /\ UNCHANGED <<region, airOn, polled, aircraft, airInfo, airPoll, airLate, routeVars, rocketVars>>

----
(* useFeed("aircraft", region, aircraftOn). *)

Wanted == IF airOn THEN region ELSE Nobody

\* The effect for another region or layer: the list is emptied, the former
\* request aborted, a new one sent.
FeedEffect ==
  /\ polled # Wanted
  /\ polled' = Wanted /\ aircraft' = {} /\ airInfo' = NoInfo
  /\ airPoll' = IF airOn THEN "asking" ELSE "off"
  /\ airLate' = IF airPoll = "asking" THEN polled ELSE airLate
  /\ trails' = NoTrail
  /\ UNCHANGED <<region, airOn, chosenAir, routeVars, rocketVars>>

\* Observations an answer may hold: the gateway may serve a cached one, so that
\* they may be of any age, and older than those of the answer before.
Observations(planes, r) ==
  {obs \in SUBSET [id : planes, age : 0..(HiddenAfter + 1), region : {r}] :
     \A o, p \in obs : o.id = p.id => o = p}

\* Until the effect has run, an answer is still that of the former choice.
FeedAnswers(obs, stale) ==
  /\ airPoll = "asking"
  /\ aircraft' = obs /\ airInfo' = [fetched |-> TRUE, stale |-> stale, failed |-> FALSE]
  /\ airPoll' = "waiting" /\ DrawsAircraft(obs, airOn, trails)
  /\ UNCHANGED <<region, airOn, chosenAir, polled, airLate, routeVars, rocketVars>>

FeedFails ==
  /\ airPoll = "asking"
  /\ airInfo' = [airInfo EXCEPT !.stale = TRUE, !.failed = TRUE] /\ airPoll' = "waiting"
  /\ UNCHANGED <<region, airOn, chosenAir, polled, aircraft, airLate, trails, routeVars, rocketVars>>

FeedPolls ==
  /\ airPoll = "waiting" /\ airPoll' = "asking"
  /\ UNCHANGED <<region, airOn, chosenAir, polled, aircraft, airInfo, airLate, trails, routeVars, rocketVars>>

\* The answer to a request that was stopped while its body was read.
TakesLateFeed(list, obs) == obs
AfterLateFeed(list, obs) == list
LateFeedAnswer ==
  /\ airLate # Nobody /\ airLate' = Nobody
  /\ \E obs \in {o \in Observations(Planes, airLate) : Cardinality(o) = 1} : aircraft' = AfterLateFeed(aircraft, obs)
  /\ UNCHANGED <<region, airOn, chosenAir, polled, airInfo, airPoll, trails, routeVars, rocketVars>>

----
(* AircraftRoute, mounted while the selected aircraft is in the list. *)

RouteMounted == IF chosenAir \in {o.id : o \in aircraft} THEN CallsignOf[chosenAir] ELSE Nobody

\* The effect depends on the callsign alone.  The lookup of the former one is
\* aborted; an aircraft without one has no lookup, and whatever was loading stays
\* so until the component is unmounted.
RouteEffect ==
  /\ routeFor # RouteMounted
  /\ routeFor' = RouteMounted /\ route' = Nobody
  /\ routeAsking' = (RouteMounted \in Callsigns)
  /\ routeLoading' = (RouteMounted # Nobody /\ (RouteMounted \in Callsigns \/ routeLoading))
  /\ routeLate' = IF routeAsking THEN routeFor ELSE routeLate
  /\ UNCHANGED <<airVars, rocketVars>>

RouteAnswers(found) ==
  /\ routeAsking /\ routeAsking' = FALSE /\ routeLoading' = FALSE
  /\ route' = IF found THEN routeFor ELSE route
  /\ UNCHANGED <<routeFor, routeLate, airVars, rocketVars>>

\* What the panel says of departure and destination.
RouteShown == IF route # Nobody THEN "listed" ELSE IF routeLoading THEN "looking up" ELSE "unknown"

AfterLateRoute(shown, late) == shown
LateRouteAnswer ==
  /\ routeLate # Nobody /\ routeLate' = Nobody
  /\ route' = AfterLateRoute(route, routeLate)
  /\ UNCHANGED <<routeFor, routeLoading, routeAsking, airVars, rocketVars>>

----
(* installLiveRocket. *)

NoTelemetry(m) == [mission |-> m, status |-> IF m = Nobody THEN "idle" ELSE "connecting"]

\* sync, in the store's subscriber: everything of the former mission is dropped.
Follow(m) ==
  /\ m # followed /\ followed' = m
  /\ telemetry' = NoTelemetry(m) /\ vehicle' = Nobody /\ tracks' = NoTrail
  /\ rocketPoll' = IF m = Nobody THEN "off" ELSE "asking"
  /\ rocketLate' = IF rocketPoll = "asking" THEN followed ELSE rocketLate
  /\ UNCHANGED <<airVars, routeVars>>

\* parseRocketTelemetry: only recent samples of the mission are accepted.
AcceptedOfAnyAge(samples) == samples
Accepted(samples) == {s \in samples : s.age <= HiddenAfter}

\* Samples of an answer, in the order of their observation, extend the tracks.
Extended(track, s) == IF track = <<>> \/ s.age < Last(track).age THEN Append(track, s) ELSE track
TrackOf(v) == IF v \in DOMAIN tracks THEN tracks[v] ELSE <<>>
InOrderOfTime(samples) ==
  [k \in 1..Cardinality(samples) |-> CHOOSE s \in samples : Cardinality({r \in samples : r.age > s.age}) = k - 1]
TrackWith(track, samples) ==
  LET mine == InOrderOfTime(samples)
      after[n \in 0..Cardinality(samples)] == IF n = 0 THEN track ELSE Extended(after[n - 1], mine[n])
  IN IF samples = {} THEN track ELSE Trimmed(after[Cardinality(samples)])
TracksWith(samples) ==
  [v \in DOMAIN tracks \cup {s.vehicle : s \in samples} |->
     TrackWith(TrackOf(v), {s \in samples : s.vehicle = v})]

Newest(track) == IF track = <<>> THEN Old ELSE Last(track).age
Recent(ts) == \E v \in DOMAIN ts : Newest(ts[v]) <= FreshFor
StatusOf(ts, stale) == IF DOMAIN ts = {} THEN "waiting" ELSE IF Recent(ts) /\ ~stale THEN "live" ELSE "stale"

TelemetryAnswers(samples, stale) ==
  LET ts == TracksWith(Accepted(samples)) IN
  /\ rocketPoll = "asking" /\ rocketPoll' = "waiting"
  /\ tracks' = ts /\ telemetry' = [mission |-> followed, status |-> StatusOf(ts, stale)]
  /\ vehicle' = IF vehicle = Nobody /\ DOMAIN ts # {} THEN CHOOSE v \in DOMAIN ts : TRUE ELSE vehicle
  /\ UNCHANGED <<followed, rocketLate, airVars, routeVars>>

\* A refusal, or an answer about another mission or of unverified positions.
TelemetryFails ==
  /\ rocketPoll = "asking" /\ rocketPoll' = "waiting"
  /\ telemetry' = [mission |-> followed, status |-> IF DOMAIN tracks # {} THEN "stale" ELSE "unavailable"]
  /\ UNCHANGED <<followed, vehicle, tracks, rocketLate, airVars, routeVars>>

TelemetryPolls ==
  /\ rocketPoll = "waiting" /\ rocketPoll' = "asking"
  /\ UNCHANGED <<followed, telemetry, vehicle, tracks, rocketLate, airVars, routeVars>>

AfterLateTelemetry(ts, mission) == ts
LateTelemetry ==
  /\ rocketLate # Nobody /\ rocketLate' = Nobody
  /\ tracks' = AfterLateTelemetry(tracks, rocketLate)
  /\ UNCHANGED <<followed, telemetry, vehicle, rocketPoll, airVars, routeVars>>

ChooseVehicle(v) ==
  /\ v \in DOMAIN tracks /\ vehicle' = v
  /\ UNCHANGED <<followed, telemetry, tracks, rocketPoll, rocketLate, airVars, routeVars>>

\* tick, before every frame: a live status without recent samples becomes stale.
RocketFrame ==
  /\ telemetry.status = "live" /\ ~Recent(tracks)
  /\ telemetry' = [telemetry EXCEPT !.status = "stale"]
  /\ UNCHANGED <<followed, vehicle, tracks, rocketPoll, rocketLate, airVars, routeVars>>

\* rocketPositionAt, for a moment a second ago: the samples on either side of it.
Sides(track, moment) ==
  LET after == {i \in DOMAIN track : track[i].age <= moment}
      right == IF after = {} THEN Len(track) ELSE Min(after)
  IN <<IF after = {} \/ right = 1 THEN right ELSE right - 1, right>>

\* The rocket the camera follows.
RocketTarget ==
  /\ telemetry.status = "live" /\ telemetry.mission = followed /\ vehicle \in DOMAIN tracks
  /\ Newest(tracks[vehicle]) <= FreshFor
RocketShown(v) == v \in DOMAIN tracks /\ Newest(tracks[v]) <= HiddenAfter
SiteShown(m)   == ~(telemetry.mission = m /\ DOMAIN tracks # {})

----
AgedObs(o) == [o EXCEPT !.age = Older(@)]
AgedSeq(seq) == [i \in DOMAIN seq |-> AgedObs(seq[i])]
TrackingTime ==
  /\ aircraft' = {AgedObs(o) : o \in aircraft}
  /\ trails' = [p \in DOMAIN trails |-> AgedSeq(trails[p])]
  /\ tracks' = [v \in DOMAIN tracks |-> AgedSeq(tracks[v])]
  /\ UNCHANGED <<region, airOn, chosenAir, polled, airInfo, airPoll, airLate, routeVars,
                 followed, telemetry, vehicle, rocketPoll, rocketLate>>

AirInit ==
  /\ region \in Regions /\ airOn = TRUE /\ chosenAir = Nobody /\ polled = Nobody
  /\ aircraft = {} /\ airInfo = NoInfo /\ airPoll = "off" /\ airLate = Nobody /\ trails = NoTrail
  /\ routeFor = Nobody /\ route = Nobody /\ routeLoading = FALSE /\ routeAsking = FALSE /\ routeLate = Nobody
RocketInit ==
  /\ followed = Nobody /\ telemetry = NoTelemetry(Nobody) /\ vehicle = Nobody
  /\ tracks = NoTrail /\ rocketPoll = "off" /\ rocketLate = Nobody

FeedNext(planes) ==
  \/ FeedEffect \/ FeedFails \/ FeedPolls \/ LateFeedAnswer \/ Redraw \/ ToggleAircraft
  \/ \E obs \in Observations(planes, polled), stale \in BOOLEAN : FeedAnswers(obs, stale)
  \/ \E r \in Regions : ChooseRegion(r)
ChoiceNext ==
  \/ \E p \in Planes \cup {Nobody} : ChooseAircraft(p)
  \/ RouteEffect \/ LateRouteAnswer \/ \E found \in BOOLEAN : RouteAnswers(found)

\* One age stands for all that are refused.
Samples == [vehicle : Vehicles, age : 0..HiddenAfter \cup {Old}, mission : {followed}]
SomeTelemetry ==
  \E samples \in {ss \in SUBSET Samples : Cardinality(ss) <= 2}, stale \in BOOLEAN : TelemetryAnswers(samples, stale)
RocketNext ==
  \/ \E m \in Followable \cup {Nobody} : Follow(m)
  \/ SomeTelemetry \/ TelemetryFails \/ TelemetryPolls \/ LateTelemetry \/ RocketFrame
  \/ \E v \in Vehicles : ChooseVehicle(v)

TrackingNext == FeedNext(Planes) \/ ChoiceNext \/ RocketNext \/ TrackingTime

\* A request is answered, refused or timed out (15 s, 6 s); effects and timers run.
FeedEnds == FeedFails \/ \E obs \in Observations(Planes, polled), stale \in BOOLEAN : FeedAnswers(obs, stale)
TelemetryEnds == TelemetryFails \/ SomeTelemetry
TrackingFairness ==
  /\ WF_trackingVars(FeedEffect) /\ WF_trackingVars(FeedEnds) /\ WF_trackingVars(FeedPolls)
  /\ WF_trackingVars(TelemetryEnds) /\ WF_trackingVars(TelemetryPolls)
TrackingSpec == AirInit /\ RocketInit /\ [][TrackingNext]_trackingVars /\ TrackingFairness

----
TrackingTypeOK ==
  /\ region \in Regions /\ airOn \in BOOLEAN /\ chosenAir \in Planes \cup {Nobody}
  /\ polled \in Regions \cup {Nobody} /\ airLate \in Regions \cup {Nobody}
  /\ airPoll \in {"off", "asking", "waiting"} /\ rocketPoll \in {"off", "asking", "waiting"}
  /\ followed \in Followable \cup {Nobody} /\ vehicle \in Vehicles \cup {Nobody}
  /\ DOMAIN trails \subseteq Planes /\ DOMAIN tracks \subseteq Vehicles
  /\ telemetry.status \in {"idle", "connecting", "waiting", "live", "stale", "unavailable"}
  /\ routeAsking => routeLoading

\* What is shown belongs to what is chosen, whatever is answered late: the
\* aircraft to the region the feed was set up for, the route to the callsign it
\* was looked up for, the positions to the launch that is followed.
AnswersBelong ==
  /\ \A o \in aircraft : o.region = polled
  /\ RouteShown = "listed" => route = routeFor
  /\ telemetry.mission = followed
  /\ vehicle # Nobody => vehicle \in DOMAIN tracks
  /\ \A v \in DOMAIN tracks : \A i \in DOMAIN tracks[v] : tracks[v][i].mission = followed

Forward(seq) == \A i, j \in DOMAIN seq : i < j => seq[i].age > seq[j].age \/ seq[i].age = Old

\* Every frame reads the last sample of every track (tick, liveRocket.ts), so none
\* may be empty, whatever was trimmed; samples of a track are in the order of
\* their observation.  "Selected trails join observations recorded during this
\* session": a trail joins no two that are further apart than an aircraft stays
\* shown, nor those of two regions.  "Interpolates observed samples without
\* extrapolation": a rocket is drawn at a sample or between two successive ones
\* that lie on either side of the moment.
TracksUsable ==
  /\ \A v \in DOMAIN tracks : tracks[v] # <<>> /\ Forward(tracks[v])
  /\ \A v \in DOMAIN tracks, moment \in 0..KeptFor :
       LET s == Sides(tracks[v], moment) IN
       s[1] # s[2] => s[2] = s[1] + 1 /\ tracks[v][s[1]].age > moment /\ moment >= tracks[v][s[2]].age
  /\ \A p \in DOMAIN trails :
       /\ trails[p] # <<>> /\ Forward(trails[p])
       /\ \A i \in 1..(Len(trails[p]) - 1) : trails[p][i].age - trails[p][i + 1].age <= HiddenAfter
       /\ \A i \in DOMAIN trails[p] : trails[p][i].region = polled
====
