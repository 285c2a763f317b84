---- MODULE Workspace ----
(***************************************************************************)
(* The dashboard's workspace: the stores that every panel, the globe and   *)
(* the cameras share.  A store notifies its subscribers synchronously, and *)
(* they write to other stores in turn: selecting a satellite ends a rocket *)
(* preview, opening the aerospace panel clears the selection, a panel that *)
(* opens closes the aerospace panel.  The camera has three masters: the    *)
(* globe's flights, the satellite it tracks, and the aerospace follower.   *)
(*                                                                         *)
(* A handler is an operator on a record of the stores, composed of what    *)
(* the writes it makes set off; an action is what the user can do in the   *)
(* panels that are shown, a frame of the globe, or a change of the feeds.  *)
(***************************************************************************)
EXTENDS Naturals, FiniteSets

CONSTANTS
  Sats,      \* satellites of the catalog
  High,      \* those above 20 000 km, whose orbit is fitted when they are shown
  Conjs,     \* conjunction reports
  Launch,    \* the launch of the feed
  Aircraft,  \* the aircraft of the feed
  Modes,     \* "OPS", "STORM", "INTEL"
  Panels,    \* panels other than the two of the selection
  Layers,    \* the layers the user shows: satellites, aircraft, launches
  Passing,   \* the objects that leave the scene and return
  Linked     \* the page is opened with a launch in its address

None == "none"
DetailPanels == {"satellite-detail", "conjunction-detail"}

ASSUME WorkspaceAssumption ==
  /\ High \subseteq Sats /\ Layers \subseteq [1..3 -> BOOLEAN]
  /\ Passing \subseteq Sats \cup {Launch, Aircraft} /\ None \notin Sats \cup Conjs \cup {Launch, Aircraft} /\ Launch # Aircraft
  /\ Linked \subseteq BOOLEAN /\ "OPS" \in Modes /\ "active-conjunctions" \in Panels /\ Panels \cap DetailPanels = {}

VARIABLES
  app,       \* auroraStore: selection, panels, mode
  scene,     \* sceneStore: the satellite layer and the satellite follower
  explorer,  \* explorer/store: catalog and Earth panels
  air,       \* aerospace/store: panel, layers, selection, follows and preview
  cam,       \* the viewer's camera, the preview's state, the satellite shown
  mission,   \* the mission lab covers the page and the globe is unmounted
  listed     \* what the scene has a position for

workspaceVars == <<app, scene, explorer, air, cam, mission, listed>>

Stores == [app |-> app, scene |-> scene, explorer |-> explorer, air |-> air, cam |-> cam]

Becomes(s) ==
  /\ app' = s.app /\ scene' = s.scene /\ explorer' = s.explorer /\ air' = s.air /\ cam' = s.cam
  /\ UNCHANGED <<mission, listed>>

----
(* The camera. *)

\* A flight is taken to last until another starts or something cancels it: its
\* end only leaves less to conflict with.
Release(s)    == [s EXCEPT !.cam.active = None]
Fly(s, kind)  == [s EXCEPT !.cam.flight = kind]

\* The scene subscriber of enhanceScene: the entity is released as soon as
\* following ends.
SetFollowing(s, on) ==
  [s EXCEPT !.scene.following = on, !.cam.tracked = @ /\ (on \/ ~s.scene.following)]

\* What the aerospace follower is asked to show, and whether it has a position.
Wanted(s) ==
  CASE s.air.sim = "follow" /\ s.air.launchesOn -> "sim"
    [] ~(s.air.sim = "follow" /\ s.air.launchesOn)
         /\ s.air.followed /\ s.air.launchFollow /\ s.air.launchesOn -> "launch"
    [] ~(s.air.sim = "follow" /\ s.air.launchesOn)
         /\ ~(s.air.followed /\ s.air.launchFollow /\ s.air.launchesOn)
         /\ s.air.selected = Aircraft /\ s.air.aircraftFollow /\ s.air.aircraftOn -> "air"
    [] OTHER -> None
HasPosition(s, id) ==
  CASE id = "sim" -> s.cam.lift = "ready" [] id = "launch" -> Launch \in listed
    [] id = "air" -> Aircraft \in listed [] OTHER -> FALSE

\* tracking.ts, tick: a new owner ends the satellite follow and any flight.
Track(s) ==
  LET id == Wanted(s) IN
    IF ~HasPosition(s, id) THEN Release(s)
    ELSE IF s.cam.active = id THEN s
    ELSE [SetFollowing(s, FALSE) EXCEPT !.cam.active = id, !.cam.flight = None, !.cam.tracked = FALSE]

----
(* The stores and what their subscribers do. *)

Ownership(a) == <<a.aircraftFollow, a.launchFollow, a.followed, a.sim = "follow">>
SimOff(sim)  == IF sim = None THEN None ELSE "free"

Own(s, next) ==
  LET t == [s EXCEPT !.air = next]
  IN IF Ownership(next) # Ownership(s.air) THEN Track(t) ELSE t

\* detachAerospaceCamera.
Detached(a) == [a EXCEPT !.aircraftFollow = FALSE, !.launchFollow = FALSE, !.sim = SimOff(@)]
Detach(s)   == Own(s, Detached(s.air))

\* sceneStore.requestCamera with enhanceScene's and tracking's subscribers.
RequestCamera(s, command) ==
  IF command \in {"zoom-in", "zoom-out"} THEN s
  ELSE LET free == Release(Detach(SetFollowing(s, FALSE)))
           view == [free EXCEPT !.cam.tracked = FALSE]
       IN IF command = "orbit" /\ s.app.sat = None THEN view ELSE Fly(view, "scene")

FlyToSatellite(s) == Fly(Detach(s), "scene")

\* GlobeView's subscriber: mode, immersion and selection move the camera.
GlobeReacts(s, old) ==
  LET immersion == IF s.app.earthOnly # old.earthOnly THEN Fly(s, "immersive") ELSE s
      mode == IF s.app.mode = old.mode \/ s.app.earthOnly THEN immersion
              ELSE IF s.app.mode = "STORM" THEN RequestCamera(Detach(immersion), "polar")
              ELSE Detach(immersion)
      satellite == IF s.app.sat \notin {None, old.sat} /\ ~mode.scene.following /\ ~s.app.earthOnly
                   THEN FlyToSatellite(mode) ELSE mode
  IN IF s.app.conj \notin {None, old.conj} /\ "conjunction-detail" \in s.app.panels /\ ~s.app.earthOnly
     THEN FlyToSatellite(satellite) ELSE satellite

SelectionLeavesFollower(s, old) == s
SelectionLeavesPreview(s, old) ==
  IF s.app.sat \in {None, old.sat} THEN s
  ELSE Release(Own(s, [s.air EXCEPT !.aircraftFollow = FALSE, !.launchFollow = FALSE]))
\* tracking.ts: a satellite that is selected takes the camera from the follower.
\* What the user selects again is the same object; a catalog that arrives puts
\* another in its place (CatalogMessage).
TakesCamera(s) ==
  Release(Own(s, [s.air EXCEPT !.aircraftFollow = FALSE, !.launchFollow = FALSE, !.sim = None]))
SelectionTakesCamera(s, old) == IF s.app.sat \in {None, old.sat} THEN s ELSE TakesCamera(s)

\* Explorer: a panel that opens closes the aerospace panel and the explorer's.
PanelsReplace(s, assigned) ==
  IF assigned /\ s.app.panels # {}
  THEN [Own(s, [s.air EXCEPT !.open = FALSE]) EXCEPT !.explorer = [catalogOpen |-> FALSE, earthOpen |-> FALSE]]
  ELSE s

SetApp(s, next, assigned) ==
  PanelsReplace(SelectionTakesCamera(GlobeReacts([s EXCEPT !.app = next], s.app), s.app), assigned)

SetSelectedSatellite(s, sat) ==
  SetApp(s, [s.app EXCEPT !.sat = sat,
    !.panels = IF sat # None THEN @ \cup {"satellite-detail"} ELSE @ \ {"satellite-detail"}], TRUE)

SetSelectedConjunction(s, c, details) ==
  LET bare == c # None /\ ~details
  IN SetApp(s, [s.app EXCEPT !.conj = c, !.sat = IF bare THEN None ELSE @,
       !.panels = IF c # None /\ details THEN @ \cup {"conjunction-detail"}
                  ELSE @ \ ({"conjunction-detail"} \cup IF bare THEN {"satellite-detail"} ELSE {})], TRUE)

OpenPanel(s, p)  == SetApp(s, [s.app EXCEPT !.panels = @ \cup {p}], TRUE)
ClosePanel(s, p) ==
  SetApp(s, [s.app EXCEPT !.panels = @ \ {p}, !.sat = IF p = "satellite-detail" THEN None ELSE @,
                          !.conj = IF p = "conjunction-detail" THEN None ELSE @], TRUE)
CloseAllPanels(s) == SetApp(s, [s.app EXCEPT !.panels = {}, !.sat = None, !.conj = None], TRUE)
SetMode(s, m)      == SetApp(s, [s.app EXCEPT !.mode = m], FALSE)
SetEarthOnly(s, b) == SetApp(s, [s.app EXCEPT !.earthOnly = b], FALSE)

\* The aerospace store; Explorer closes everything else when its panel opens.
SetAir(s, next) ==
  LET t == Own(s, next)
  IN IF next.open /\ ~s.air.open
     THEN CloseAllPanels([t EXCEPT !.explorer = [catalogOpen |-> FALSE, earthOpen |-> FALSE]])
     ELSE t

SetExplorer(s, catalog, earth) == [s EXCEPT !.explorer = [catalogOpen |-> catalog, earthOpen |-> earth]]
SetSatellitesOn(s, on) ==
  [SetFollowing(s, on /\ s.scene.following) EXCEPT !.scene.satellitesOn = on]

----
(* A frame: the presentation, the rocket preview, then the follower. *)

Presented(s) == s.app.sat # None /\ ~s.app.earthOnly /\ s.scene.satellitesOn /\ s.app.sat \in listed

PresentationUpdate(s) ==
  LET sat == s.app.sat
      fitted == IF s.cam.presented = sat THEN s
                ELSE LET t == [s EXCEPT !.cam.presented = sat]
                     IN IF ~s.scene.following /\ sat \in High
                        THEN Fly([Detach(t) EXCEPT !.cam.tracked = FALSE], "scene") ELSE t
  IN IF Presented(s)
     THEN IF s.scene.following /\ ~s.cam.tracked
          THEN [fitted EXCEPT !.cam.tracked = TRUE, !.cam.flight = None] ELSE fitted
     ELSE SetFollowing(s, FALSE)

\* liftoff.ts, tick: a preview ends with its selection, and takes the camera
\* from the satellites when it starts.
LiftoffTick(s) ==
  IF s.air.sim = None THEN [s EXCEPT !.cam.lift = "idle"]
  ELSE IF s.air.selected # Launch \/ Launch \notin listed
  THEN [SetAir(s, [s.air EXCEPT !.sim = None]) EXCEPT !.cam.lift = "idle"]
  ELSE IF s.cam.lift # "idle" THEN s
  ELSE SetFollowing(SetSelectedSatellite([s EXCEPT !.cam.lift = "preparing", !.cam.flight = None,
                                                   !.cam.tracked = FALSE], None), FALSE)

GlobeFrame == ~mission /\ Becomes(Track(LiftoffTick(PresentationUpdate(Stores))))

\* sampleTerrainMostDetailed answers: the preview may fly.
TerrainReady == ~mission /\ cam.lift = "preparing" /\ air.sim # None /\ Becomes([Stores EXCEPT !.cam.lift = "ready"])

\* Feeds and layers: objects enter and leave the scene.
Listing(id) ==
  /\ listed' = IF id \in listed THEN listed \ {id} ELSE listed \cup {id}
  /\ UNCHANGED <<app, scene, explorer, air, cam, mission>>

\* A catalog message puts the new list's object in place of the selected one.
CatalogMessage == ~mission /\ app.sat # None /\ Becomes(TakesCamera(Stores))
\* Reports that arrive, or that expire, drop the selected one; its panel's key stays.
ConjunctionMessage ==
  /\ app' = [app EXCEPT !.conj = None]
  /\ UNCHANGED <<scene, explorer, air, cam, mission, listed>>

----
(* What the page shows. *)

Ops           == ~mission /\ app.mode = "OPS"
OverlaysShown == ~mission /\ ~app.earthOnly
HeaderShown   == OverlaysShown /\ Ops
ListShown     == OverlaysShown /\ "active-conjunctions" \in app.panels
PanelShown(p) == OverlaysShown /\ Ops /\ p \in app.panels
InspectorShown   == PanelShown("satellite-detail") /\ app.sat # None
ReportShown      == PanelShown("conjunction-detail") /\ app.conj # None
WorkbenchShown   == OverlaysShown /\ Ops /\ explorer.catalogOpen /\ app.sat = None /\ app.panels = {}
ReviewShown      == OverlaysShown /\ app.mode = "INTEL"
EarthShown       == ~mission /\ explorer.earthOpen
AerospaceShown   == ~mission /\ air.open
AircraftShown    == AerospaceShown /\ air.tab = "aircraft" /\ air.selected = Aircraft
LaunchShown      == AerospaceShown /\ air.tab = "launches" /\ air.selected = Launch
WatchShown       == ~mission /\ air.followed
PreviewShown     == ~mission /\ air.sim # None
FollowToolShown  == ~mission /\ app.sat # None /\ scene.satellitesOn

----
(* What the user can do. *)

ChangeMode(m) == OverlaysShown /\ m # app.mode /\ Becomes(SetMode(Stores, m))
\* A historical event, or the live edge, decides the mode: STORM or OPS.
TimelineSelect(m) == OverlaysShown /\ m \in {"OPS", "STORM"} /\ Becomes(SetMode(Stores, m))
Immerse       == ~mission /\ Becomes(SetEarthOnly(Stores, ~app.earthOnly))

\* Escape reaches every listener of the window: the mode selector's is mounted
\* with the overlays, the explorer's always.
Escape ==
  /\ ~mission
  /\ LET s == IF OverlaysShown THEN CloseAllPanels(Stores) ELSE Stores
     IN Becomes(SetAir(SetExplorer(s, FALSE, FALSE), [s.air EXCEPT !.open = FALSE]))

CameraCommand(c) ==
  /\ ~mission
  /\ c = "orbit" => InspectorShown
  /\ Becomes(RequestCamera(Stores, c))

FollowSatellite ==
  /\ FollowToolShown \/ (OverlaysShown /\ app.sat # None)
  /\ Becomes(SetFollowing(Stores, ~scene.following))
InspectorFollow ==
  /\ InspectorShown
  /\ Becomes(SetFollowing(SetSatellitesOn(Stores, TRUE), ~scene.following))

SearchSelect(sat) == OverlaysShown /\ Becomes(SetSelectedSatellite(SetMode(Stores, "OPS"), sat))
ReviewSelect(sat) == ReviewShown /\ Becomes(SetMode(SetSelectedSatellite(Stores, sat), "OPS"))
WorkbenchSelect(sat) == WorkbenchShown /\ Becomes(SetSelectedSatellite(Stores, sat))

\* pickChoices: what a click on the globe selects.
PickSatellite(sat) ==
  /\ ~mission /\ sat \in listed
  /\ LET s == SetAir(Stores, [air EXCEPT !.selected = None, !.sim = None, !.followed = FALSE])
     IN Becomes(SetSelectedSatellite(CloseAllPanels(s), sat))
PickConjunction(c) ==
  /\ ~mission
  /\ LET s == SetSelectedConjunction(Stores, c, FALSE)
     IN Becomes(SetExplorer(s, TRUE, s.explorer.earthOpen))
PickCamera ==
  /\ ~mission
  /\ LET s == CloseAllPanels(Stores)
     IN Becomes(SetExplorer(SetAir(s, [s.air EXCEPT !.open = FALSE]), FALSE, TRUE))
PickObject(id) ==
  /\ ~mission /\ id \in listed \cap {Launch, Aircraft}
  /\ LET s == CloseAllPanels(Stores)
     IN Becomes(SetAir(s, [s.air EXCEPT !.selected = id, !.open = TRUE, !.sim = None,
                                        !.tab = IF id = Aircraft THEN "aircraft" ELSE "launches"]))

\* Explorer's buttons, each of which opens its panel or closes it again.
ExplorerOpen(tab) ==
  /\ Ops
  /\ LET s == CloseAllPanels(SetFollowing(Detach(Stores), FALSE))
         t == SetExplorer(s, tab = "catalog" /\ ~explorer.catalogOpen, tab = "earth" /\ ~explorer.earthOpen)
         flying == tab \in {"aircraft", "launches"}
     IN Becomes(SetAir(t, [t.air EXCEPT !.open = flying /\ ~(air.open /\ air.tab = tab),
                                        !.tab = IF flying THEN tab ELSE @]))
SetLayers(on) ==
  /\ Ops /\ on # <<scene.satellitesOn, air.aircraftOn, air.launchesOn>>
  /\ Becomes(SetAir(SetSatellitesOn(Stores, on[1]), [air EXCEPT !.aircraftOn = on[2], !.launchesOn = on[3]]))

ToggleList ==
  /\ HeaderShown
  /\ Becomes(IF "active-conjunctions" \in app.panels THEN ClosePanel(Stores, "active-conjunctions")
             ELSE OpenPanel(Stores, "active-conjunctions"))
ListSelect(c) ==
  /\ ListShown
  /\ Becomes(ClosePanel(SetSelectedConjunction(Stores, c, TRUE), "active-conjunctions"))
OpenReadout(p) == HeaderShown /\ Becomes(OpenPanel(CloseAllPanels(Stores), p))
CloseCard(p) ==
  /\ \/ p = "active-conjunctions" /\ ListShown
     \/ p \in Panels \ {"active-conjunctions"} /\ PanelShown(p)
     \/ p = "satellite-detail" /\ InspectorShown
     \/ p = "conjunction-detail" /\ ReportShown
  /\ Becomes(ClosePanel(Stores, p))

\* The pair workbench: a row, its full report, and "All paths".
PairSelect(c, details) == WorkbenchShown /\ Becomes(SetSelectedConjunction(Stores, c, details))
CloseExplorer ==
  /\ WorkbenchShown \/ EarthShown
  /\ Becomes(SetExplorer(Stores, explorer.catalogOpen /\ ~WorkbenchShown, explorer.earthOpen /\ WorkbenchShown))
OpenPairs ==
  /\ OverlaysShown /\ Becomes(SetExplorer(Stores, TRUE, explorer.earthOpen))

EarthLocate ==
  /\ EarthShown
  /\ Becomes(Fly(SetFollowing(SetAir(Stores, Detached(air)), FALSE), "scene"))

\* The aerospace panel.
SelectRow(id) ==
  /\ AerospaceShown /\ id = (IF air.tab = "aircraft" THEN Aircraft ELSE Launch) /\ id \in listed
  /\ Becomes(SetAir(Stores, [air EXCEPT !.selected = id, !.sim = IF id = Launch THEN None ELSE @]))
Locate(id) ==
  /\ (id = Aircraft /\ AircraftShown) \/ (id = Launch /\ LaunchShown)
  /\ LET s == SetAir(Stores, [Detached(air) EXCEPT !.aircraftOn = @ \/ id = Aircraft,
                                                   !.launchesOn = @ \/ id = Launch])
     IN Becomes(IF id \in listed THEN Fly(s, "scene") ELSE s)
FollowAircraft ==
  /\ AircraftShown
  /\ Becomes(SetAir(Stores, [air EXCEPT !.aircraftFollow = ~@, !.launchFollow = FALSE]))
ClearAircraft ==
  /\ AircraftShown
  /\ Becomes(SetAir(Stores, [air EXCEPT !.selected = None, !.aircraftFollow = FALSE]))
ChangeRegion ==
  /\ AerospaceShown /\ air.tab = "aircraft" /\ Becomes(SetAir(Stores, [air EXCEPT !.selected = None]))
ScanArea ==
  /\ AerospaceShown /\ air.tab = "aircraft"
  /\ Becomes(SetAir(Stores, [air EXCEPT !.selected = None, !.aircraftFollow = FALSE]))
FollowLaunch ==
  /\ LaunchShown
  /\ Becomes(SetAir(Stores, [air EXCEPT !.followed = ~@, !.launchFollow = ~air.followed, !.sim = None,
                                        !.aircraftFollow = FALSE, !.launchesOn = TRUE]))
Preview ==
  /\ LaunchShown
  /\ Becomes(SetAir(Stores, [air EXCEPT !.sim = "follow", !.followed = FALSE, !.launchesOn = TRUE]))
PreviewFollow ==
  /\ LaunchShown /\ air.sim # None
  /\ Becomes(SetAir(Stores, [air EXCEPT !.sim = IF @ = "follow" THEN "free" ELSE "follow"]))
ExitPreview == PreviewShown /\ Becomes(SetAir(Stores, [air EXCEPT !.sim = None]))
ShowWatched ==
  /\ WatchShown
  /\ Becomes(SetAir(Stores, [air EXCEPT !.selected = Launch, !.open = TRUE, !.tab = "launches", !.launchFollow = TRUE]))
StopWatching ==
  WatchShown /\ Becomes(SetAir(Stores, [air EXCEPT !.followed = FALSE, !.launchFollow = FALSE]))
CloseAerospace == AerospaceShown /\ Becomes(SetAir(Stores, [air EXCEPT !.open = FALSE]))

\* The mission lab unmounts the globe, which ends a preview and forgets the
\* camera; the globe that is mounted afterwards flies home.
NoCamera == [tracked |-> FALSE, active |-> None, flight |-> None, lift |-> "idle", presented |-> None]
OpenMission ==
  /\ ~mission /\ mission' = TRUE
  /\ air' = [air EXCEPT !.sim = None] /\ cam' = NoCamera
  /\ UNCHANGED <<app, scene, explorer, listed>>
CloseMission ==
  /\ mission /\ mission' = FALSE
  /\ air' = Detached(air) /\ cam' = [NoCamera EXCEPT !.flight = "scene"]
  /\ UNCHANGED <<app, scene, explorer, listed>>

----
\* The page opens with the first mode and nothing selected; the address can
\* carry a launch to follow, after the globe was mounted.
WorkspaceInit ==
  /\ app = [sat |-> None, conj |-> None, panels |-> {}, mode |-> "OPS", earthOnly |-> FALSE]
  /\ scene = [satellitesOn |-> TRUE, following |-> FALSE]
  /\ explorer = [catalogOpen |-> FALSE, earthOpen |-> FALSE]
  /\ \E linked \in Linked :
       air = [open |-> linked, tab |-> "launches", aircraftOn |-> TRUE, launchesOn |-> TRUE,
              selected |-> IF linked THEN Launch ELSE None, followed |-> linked, launchFollow |-> linked,
              aircraftFollow |-> FALSE, sim |-> None]
  /\ mission \in BOOLEAN
  /\ cam = IF mission THEN NoCamera ELSE [NoCamera EXCEPT !.flight = "scene"]
  /\ listed = (Sats \cup {Launch, Aircraft}) \ Passing

Select ==
  \/ \E sat \in Sats : SearchSelect(sat) \/ PickSatellite(sat)
  \/ \E id \in {Launch, Aircraft} : PickObject(id) \/ SelectRow(id) \/ Locate(id)
  \/ PickCamera \/ ClearAircraft \/ ChangeRegion \/ ScanArea

SelectEncounter ==
  \/ \E sat \in Sats : ReviewSelect(sat) \/ WorkbenchSelect(sat)
  \/ \E c \in Conjs : PickConjunction(c) \/ ListSelect(c)
  \/ \E c \in Conjs \cup {None}, details \in BOOLEAN : (c = None => ~details) /\ PairSelect(c, details)
  \/ CloseExplorer \/ OpenPairs

Arrange ==
  \/ \E m \in Modes : ChangeMode(m) \/ TimelineSelect(m)
  \/ Immerse \/ Escape \/ ToggleList \/ CloseAerospace
  \/ \E tab \in {"catalog", "aircraft", "launches", "earth"} : ExplorerOpen(tab)
  \/ \E p \in Panels \cup DetailPanels : CloseCard(p)

Decorate ==
  \/ \E p \in Panels \ {"active-conjunctions"} : OpenReadout(p)
  \/ \E l \in Layers : SetLayers(l)

Steer ==
  \/ \E c \in {"home", "zoom-in", "orbit"} : CameraCommand(c)
  \/ FollowSatellite \/ InspectorFollow \/ EarthLocate \/ FollowAircraft \/ FollowLaunch
  \/ ShowWatched \/ StopWatching

Rehearse == Preview \/ PreviewFollow \/ ExitPreview \/ TerrainReady

Globe == GlobeFrame \/ (\E id \in Passing : Listing(id)) \/ CatalogMessage \/ ConjunctionMessage

WorkspaceNext ==
  Select \/ SelectEncounter \/ Arrange \/ Decorate \/ Steer \/ Rehearse \/ Globe \/ OpenMission \/ CloseMission

WorkspaceSpec == WorkspaceInit /\ [][WorkspaceNext]_workspaceVars

----
\* The stores are well formed.
WorkspaceTypeOK ==
  /\ app \in [sat : Sats \cup {None}, conj : Conjs \cup {None}, panels : SUBSET (Panels \cup DetailPanels),
              mode : Modes, earthOnly : BOOLEAN]
  /\ scene \in [satellitesOn : BOOLEAN, following : BOOLEAN]
  /\ explorer \in [catalogOpen : BOOLEAN, earthOpen : BOOLEAN]
  /\ air \in [open : BOOLEAN, tab : {"aircraft", "launches"}, aircraftOn : BOOLEAN, launchesOn : BOOLEAN,
              selected : {None, Launch, Aircraft}, followed : BOOLEAN, launchFollow : BOOLEAN,
              aircraftFollow : BOOLEAN, sim : {None, "follow", "free"}]
  /\ cam \in [tracked : BOOLEAN, active : {None, "sim", "launch", "air"}, flight : {None, "scene", "immersive"},
              lift : {"idle", "preparing", "ready"}, presented : Sats \cup {None}]
  /\ mission \in BOOLEAN /\ listed \subseteq Sats \cup {Launch, Aircraft}

\* The aerospace panel never shares the page with another panel, and the
\* satellite's panel stands for the selection: whatever closes or replaces a
\* panel, a satellite is selected exactly while its panel is open.
PanelsCoherent ==
  /\ air.open => app.panels = {}
  /\ "satellite-detail" \in app.panels <=> app.sat # None

\* The satellite tracker and the aerospace follower never both hold the camera,
\* and no flight runs against the follower, except the one into or out of the
\* immersive view, which does not detach it first.
OneCameraOwner ==
  /\ ~(cam.tracked /\ cam.active # None)
  /\ cam.flight = "scene" => cam.active = None

\* A rocket preview that runs never coexists with a selected satellite.
PreviewOwnsSelection == air.sim # None /\ cam.lift # "idle" => app.sat = None
====
