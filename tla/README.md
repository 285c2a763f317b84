# AURORA Space: TLA+ models

AURORA Space ingests orbital data and space weather, propagates every satellite
each 30 seconds, and shows the result on a dashboard in the browser: a globe with
satellites, close approaches, aircraft, rockets and public cameras, and a lab that
analyses collision-avoidance maneuvers. This directory models the parts whose
correctness depends on ordering, concurrency, failure, time or state that several
handlers share, checks them with TLC and proves the core properties with TLAPS.
`src/` below is the repository.

- [The system](#the-system)
- [What is modelled where](#what-is-modelled-where)
- [The runs](#the-runs)
- [What is proved](#what-is-proved)
- [Disagreements between the code and its documents](#disagreements-between-the-code-and-its-documents)
- [Known defects and limits](#known-defects-and-limits)
- [Not modelled](#not-modelled)

## The system

```
CelesTrak  -> ingestion/celestrak  -\
Space-Track-> ingestion/spacetrack --> tle topic --> engine --> positions topic -\
           \--------------------------> alerts topic ------------------------------> gateway --> dashboards
NOAA SWPC  -> ingestion/noaa -------> space weather topic ------------------------/      |  ^ WebSocket, /snapshot
aircraft, launches, telemetry, cameras, places <--- proxied with shared caches -------/  |
start.mjs starts, supervises and stops all of the above                                dashboard polls
```

The backend services are Go processes that share nothing but Kafka topics and
files. The dashboard is a React program with two workers.

### Components

| Component | State | Operations | What makes it correct | Where it is hard |
|---|---|---|---|---|
| Gateway hub (`backend/gateway/main.go`) | cached feeds, registered clients, a queue and a write pump per client | consume a feed record, store, broadcast, register, send cached state, write, ping, unregister | a viewer never goes back to an older version and never misses one silently; a channel is closed once | three consumers, handlers and pumps interleave; queues overflow; viewers vanish |
| Position batches (`engine/main.go`, `shared/kafka.go`, `gateway/main.go`) | parts on a topic, consumer offsets, batches waiting for parts | publish parts, retry, read, assemble, prune after a minute, commit | what is shown is one whole propagation cycle | duplicates, lost parts, several partitions, restarts, group rejoins |
| Engine catalog (`engine/main.go`) | element set per satellite, offsets | bulk load from offset 0, follow the group's offsets, ingest, publish positions | the newest epoch wins; the catalog is complete after a restart | elements come in any order; the load is cut off by timeouts; commits outlive memory |
| Catalog metadata (`engine/catalog_metadata.go`) | satellite table in memory and in a file | look every hour, download daily, save through a temporary file | whole tables only; one download a day | a failing save, a crash between the two writes |
| Provider feeds (`gateway/aerospace.go`, `rocket_telemetry.go`, `earth.go`) | bounded map of feeds, each with body, retry time, mutex | look up, evict, fetch under the mutex, reply | one request at a time, not before TTL and Retry-After | eviction while a fetch runs; the fetching viewer leaves |
| Place search (`gateway/earth.go`) | cached answers, time of the last request, one mutex | search, answer from the cache, refuse within a second, ask, evict | a second between requests; a bounded cache | viewers queue on the mutex while another's request runs |
| NOAA ingestion (`ingestion/noaa`) | one record of four sources, dirty flag | poll a source, merge, publish when changed and fresh | readings are published only while every source is current | sources age at different rates; publications are refused |
| CelesTrak ingestion (`ingestion/celestrak`) | list of groups, attempts | fetch groups in turn, retry, publish in batches | every group is refreshed in every round; a rejection is not repeated | failure in the middle of a group, restarts |
| Space-Track ingestion (`ingestion/spacetrack`) | login session, two cache files, next fetch time | poll, login, fetch, parse, save, publish alerts, look up elements | no request too early, none lost, no older alerts after newer ones | crashes between any two steps; session expiry; failing writes |
| Launcher (`scripts/start.mjs`) | lock directory, state file, services, containers | take or take over the lock, start, supervise, shut down | one session, nothing left behind, the lock is freed | startup and shutdown run at once; killed launchers; stale locks |
| Dashboard feed client (`hooks/useWebSocket.ts`, `utils/satelliteChunks.ts`) | current effect run, socket reference, chunk assembler, recovery request | connect, close, reconnect timer, receive a chunk, `/snapshot` recovery, disconnect | one socket, no partial catalog, it always recovers | callbacks of disposed effect runs; late replies |
| Globe and catalog worker (`GlobeView.tsx`, `catalog.worker.ts`) | markers by index, newest window of positions, worker's list and generation | replace the list, propagate, post a window, place markers on each frame, count | a marker shows its own satellite's position, and only while elements and window are current | the list changes while a computation runs; the worker is late or fails |
| Workspace (`store/`, `explorer/`, `App.tsx`, `HUD.tsx`, parts of `GlobeView.tsx`) | selections, mode, panels, preview, camera's owner | clicks, keys, layers, flights, followers | selection and panels agree; one owner of the camera | stores write to one another synchronously; flights end late |
| Aircraft and rockets (`aerospace/`) | feed of a region, markers, trails, route, telemetry | poll, choose, answer, age, draw | an answer belongs to what is chosen; a track is in order | answers outlive choices; two polls overlap |
| Earth view (`earth/`, `explorer/`) | camera networks, selection, player, map layers | poll networks, filter, play, add layers | the list is merged and ordered, the player is of the selected camera, streets stay on top | networks answer separately, players load late |
| Mission lab (`mission/`) | scenario, analysis, clock, notes, capture, saved session | open, select, redesign, replay, record, import, export | results belong to the inputs shown; nothing written is lost | a worker's late reply; an import that is read while the lab closes |
| Maneuver analysis (`mission/analysis.ts`, `decision.ts`, `tradeSpace.ts`) | none: a computation | integrate, screen, price, recommend, plot | the recommendation reaches the goal and is the least; a screened minimum is the minimum | refinement between samples, missing figures |
| Encounters (`conjunctionFeed.ts`, `conjunctionPairs.ts`, `IntelAnalysisPanel.tsx`) | reports, arcs, selection, review | arrive, expire, draw, isolate, import reviews, note | drawn paths are of now; an import loses no note | reports, catalog and cached arcs age independently |
| Readouts (`Timeline.tsx`, `DataStatusIndicator.tsx`, panels) | timeline, lights, badges, scales, pages | scrub, go live, filter, page | what is said of the data is so | each reads state that others change |
| Shared Kafka client, types and validation, diagnostics, SGP4, Rust engine, tooling | see [Not modelled](#not-modelled) | | | |

`PROJECT.json` lists every component with its sources, and every hazard with
its line.

### Interactions

- Services interact through Kafka: the producer retries and may write a record
  twice, consumers commit offsets in the background once a second, so a record
  may be read again after a crash or a rejoin.
- Inside the gateway, goroutines share the state cache (a read/write lock), the
  hub (another) and one bounded channel per client.
- Gateway and dashboard interact through WebSocket frames in order, and through
  `/snapshot` over HTTP, which may overtake them.
- In the dashboard, JavaScript callbacks run one at a time; they interact through
  stores whose subscribers run inside the write that notifies them, through React
  effects that run after a change, and through messages to workers.
- Launchers interact through a lock directory, a state file, ports and signals.

## What is modelled where

| Module | Models | Reading it beside the code |
|---|---|---|
| `GatewayHub` | hub, state cache, handlers, pumps | `cpc`, `hpc`, `ppc` are the program counters of the consumer, handler and pump goroutines. A critical section of `hub.mu` is one action (`Register`, `BroadcastEvicting`, `Unregister`). `sendAll` holds the cache's read lock over several actions, so `CacheSet` waits for `CacheReaders`. A payload is the version number of its feed; a slow client is evicted with its channel closed, then its socket (`CloseSlow`). |
| `FeedSubscription` | the promise the hub implements | every feed has a version; what a viewer shows starts somewhere and then skips no version. `GatewayHub!ImplementsSubscription` maps `published` to the cache and `view` to what was written to the viewer. |
| `BatchAssembly` | engine's publication, positions topic, group offsets, assembler | `pending` is `assembler.batches`; `order` and `expired` stand for `received` times: a batch older than a minute is one of the first `expired` in order of receipt. A part's rows are the pair of its cycle and index, so that a mixture of cycles is visible. |
| `TleCatalog` | bulk loader, group consumer, epoch guard, propagation | an element set is a satellite, an epoch and whether `isTLEValid` accepts it; a published position is the epoch it came from. `EndLoad` may happen anywhere in the topic (the code's 2 s read timeout, 10 s deadline or an error). |
| `SharedFeed` | `aerospaceFeed.ServeHTTP` and its bounded map | a feed object is a number; the map may forget it while viewers still hold it. `holder` is the mutex, `vpc` a viewer's request. |
| `SpaceWeather` | NOAA ingestion | a reading is the time of its observation. A poll of a source with the publication that follows is one step, since the four pollers run in one goroutine's `select`. |
| `ElementGroups` | CelesTrak ingestion | a round walks the groups; a group's records are a number of batches, each of which Kafka takes or refuses. |
| `CatalogMetadata` | the engine's satellite table | a table is the hour it was downloaded in; saving writes a temporary file, whose time of writing the renamed file keeps, with a crash possible between. The hourly ticker holds back one tick that comes due while a refresh runs (`hourTicker`). |
| `PlaceSearch` | place search | `Handle` runs under the mutex, on the time read there; `arrived` (history) is when a request reached the mutex. An answer is the second until which it is kept. |
| `SpaceTrack` | one ingestion process, its files and topics | `pc` runs through `fetchAndPublish`, `step` through `session.fetch`. A conjunction message is its time of closest approach. |
| `Launcher` | several launchers, their services and containers | `pc` is the startup flow, `down` the shutdown flow of one process; each `await` is a point where they interleave. Every step of the startup may throw, also because a foreign program has a port. |
| `FeedClient` | effect runs, sockets, chunks, recovery | one JavaScript callback is one action. `owner` is the effect run whose closure a callback uses, `live` the run that is not disposed. |
| `GlobeCatalog` | catalog globe and worker | a satellite list is a sequence, a window carries the generation it was computed for; ages of windows and markers stop at `Late`. |
| `Workspace` | the stores every panel shares, flights, followers, clicks and keys | a handler is an operator on a record of the stores, composed of what its writes set off in subscribers; an action is what a user can do in the panels that are shown, a frame, or a message of the feeds. What the user selects again is the same object; `CatalogMessage` is the one that puts another object of the same satellite in its place. |
| `LiveTracking` | aircraft feed, trails, route, rocket telemetry | an observation is the object and its age; a request remembers what it was made for, the route's its callsign, which several aircraft may have. |
| `EarthCameras` | camera networks, filters, players, map layers, place form | a network answers on its own; the list is merged after each. |
| `MissionLab` | the lab, its session, worker, replay clock, capture, archives | a scenario is its identity, burn lead and designs. Every handler ends in `Renders`, which stands for the effects that run after a change: forget the analysis of another scenario and ask for a new one, keep the clock in the trajectory, save the session. Several files may be read at a time (`reading` says by which labs); an export ends when its digest arrives, whatever the lab then shows. |
| `ManeuverAnalysis` | what the worker computes | separations over integer instants, probabilities as levels and which burns meet the goal are chosen with the world; the algorithm over them is the module. |
| `Encounters` | reports and their paths; the review | a pair's arcs are the minute they were computed in and the elements they were computed from; a file is a set of reports, read in one step and merged in another. |
| `Readouts` | timeline, status, badge, scales, catalog pages | what is drawn is an operator of the state; a feed's age is in minutes, a layer's in seconds, of which those around the limits are told apart; the truthfulness properties define anew, from the data, what it should say. |

`MC*` modules give values to constants that a `.cfg` cannot express. Two of them
compose the modules of a side: `MCDashboard` has nineteen parts and `MCProviders` five,
of which a behaviour picks one (`part`) and leaves the others in their initial
state. The parts share no state that these modules model, so the sum of the parts'
behaviours says as much as the product at a fraction of its states. What the
dashboard's parts do share, the stores, is `Workspace`. `MCWorkspace` divides its
behaviours in the same way by `focus`: layers, readouts, rocket preview and lab, or
encounters, each with all of selection, panels and camera. `Spec`, `CatalogSpec`,
`TrackingSpec`, `LabSpec`, `WeatherSpec` and so on state each module alone.

Definitions that are introduced as variants (`CacheSetOnce`, `IngestLatest`, ...) are
not part of any next-state relation: each is a plausible bug, and `PROJECT.json`
"mutants" tells which property finds it when it replaces the real definition.
Variables named as history in a module's comments (`received`, `whole`, `forgotten`,
`lastStart`, `askedUntil`, `lost`, ...) record what happened and guard nothing.

## The runs

| Run | Question | Bounds, and why they suffice |
|---|---|---|
| `hub_fanout` | closing, eviction and the refinement with overflowing queues | 2 clients, queues of 1 (64 in the code), 3 satellite updates: the third shows a gap after an overflow. Queue length matters only as full or not. |
| `hub_delivery` | coherence, order and liveness without overflow | 1 client, room for 8 messages, all three feeds, two satellite versions: `sendAll` queues up to 3 cached feeds beside 4 broadcasts. |
| `tle_catalog` | loader against consumer | 2 satellites, 2 epochs, 2 partitions, 3 records, 1 restart: old, equal and new epochs meet in both readers, also a partition that the loader does not read. |
| `batches` | assembly under duplication, loss, reordering | 3 cycles of 2, 1 and 2 parts, 2 interchangeable partitions, 1 duplicate, 1 restart, 1 rejoin. A batch of one part takes its own path in the code. |
| `client` | one socket, whole catalogs, recovery | 2 chunks, 2 snapshots, 2 toggles, 1 lost socket or request: three effect runs may overlap. |
| `track` | restarts, caches, sessions, spacing | 2 encounters, one of which passes and one that outlasts the clock, reuse of 2, pause of 1, clock to 3, 2 faults of any kind. |
| `launch` | lock, startup against shutdown, services | 2 launchers, 2 services, 1 killed launcher, signals at any point. |
| `providers` | pace and truth of everything that asks a provider | feeds: 2 viewers, 2 keys, a map of one, TTL 2, Retry-After below and above it (0, 3), timeout 3, clock to 5. Space weather: 2 sources (4 in the code) that keep for 2 and 1, 2 starts, clock to 3. Elements: 3 groups, 2 attempts, 2 batches, 2 launches. Metadata: a day of 2 hours, 4 hours, 3 engine runs. Places: 2 queries, 2 searchers, a cache of one, kept for 2 of 4 seconds. |
| `workspace` | selection, panels, preview and camera in every order of clicks, keys, frames | 1 satellite, 1 report, 1 launch that comes and goes, 1 aircraft, all three modes, 2 panels: the conflicts are between kinds of object. |
| `dashboard` | the nineteen parts | 2 satellites in lists of either order and length, one whose elements expire and one whose elements are old; 2 loads, 2 computations; 3 aircraft, two of one callsign and one of none, 2 regions, 2 vehicles, trails of 2; 2 missions, burn leads of 0 to 3 of which a validated archive has 1 and 2, 1 design, captures of 3 events; 2 pairs over 2 objects; 2 files of 2 reports; lists of up to 2 conjunctions; 3 rows on pages of 1. |
| `hub_snapshot_drop`, `batch_reread` | the two disagreements below | each just large enough for its counterexample |

What they show:

- **Hub.** `ImplementsSubscription`: from the first version a viewer sees of a feed it
  sees every later one in order until it is disconnected; an overflow ends the
  connection instead of leaving a gap. `NeverShowsOlder`: the cached copy queued at
  registration never undoes a broadcast, because `cache.set` precedes `broadcast` in
  one goroutine per feed and registration precedes `sendAll`. `GonePeersAreRemoved`
  includes the handler whose send on a closed channel panics, and rests on the ping,
  since the read pump only returns. `UpdatesReachViewers` is the liveness of
  delivery, `ChannelClosedOnce` the absence of a double close.
- **Batches and catalog.** `PayloadWhole`: only whole cycles. `OlderCycleOnlyIfReordered`
  and `CompleteCycleShown` hold as long as records are read once and in order
  (`ReadInOrder`). `CatalogIsNewestRead`, `CatalogCompleteWhenCaughtUp`,
  `PositionsNeverFromOlderElements`: the last two under `LoadedWhole`.
- **Providers.** `RequestsSpaced` and `RetryAfterHonored` for feeds that the map has held
  on to (`Kept`). `ProvidersSpared` is `SatcatSpaced` (a saved or remembered table is not
  downloaded again within a day), `SearchesSpaced` (a second between searches) and
  `RejectedIsLeftAlone` (CelesTrak's 4xx is not retried in its round).
  `ProvidersSound` is `PublishedIsCurrent` and `TopicFollowsSources` (space weather is
  published only with a current observation of each source, and no news is withheld),
  `MetadataWhole` and `CacheWithinSize`. `EverythingIsServed` is `ViewerAnswered` and
  `EveryGroupHasItsTurn`.
- **Space-Track.** `AlertsNeverOlder`, `CDMRequestsSpaced`, and `FetchedGetsPublished`,
  which leaves out feeds that Kafka refused (`lost`).
- **Launcher.** `NothingLeftBehind`, `OneSession`, `SessionsEndCleanly`. The run has
  two launchers; the same properties were checked with three.
- **Feed client.** `ShownWhole`, `SocketsCoherent`, `DisconnectedIsQuiet`,
  `ComesToShowCurrent`.
- **Workspace.** `PanelsCoherent`: the selected satellite and the panel that shows it
  agree, and the aerospace panel stands alone. `OneCameraOwner`: the globe's flights, the tracked
  satellite and the aerospace follower never contend. `PreviewOwnsSelection`: a rocket
  preview excludes other selections.
- **Dashboard.** Properties of one kind are gathered in one name, so that each
  conjunct is a property of its own module:
  - `MarkersAreTheirOwn`: a marker stands where its own satellite is, although the
    worker's window addresses it by index.
  - `LabCoherent` = `ResultsMatchInputs` ∧ `ReplayWithinTrajectory`;
    `SessionSurvives` = `ArchiveRestoresSession` ∧ `SessionKept`.
  - `ViewsCoherent` = `AnswersBelong` ∧ `TracksUsable` ∧ `CamerasInOrder` ∧
    `PlayersBelong` ∧ `StreetsOnTop`.
  - `AnalysisSound` = `RecommendationSound` ∧ `MinimumIsSound` ∧ `PlotsAgree`.
  - `GlobeShowsNow` = `OutdatedHidden` ∧ `PathsAreOfNow`. A frame leaves no marker shown
    whose window or elements have run out: one that was shown vanishes and does not
    freeze.
  - `ReadoutsTruthful` = `TimelineTruthful` ∧ `StatusTruthful` ∧ `BadgeTruthful` ∧
    `WeatherTruthful` ∧ `BenchTruthful`. `StatusTruthful`: the button says FEEDS CONNECTED
    exactly over a live connection, with the lights of the three core feeds on and no
    layer that is on failing, although button and rows spell out the limits apart; and no
    layer's row is lit by what a former region, launch or time of being on brought. The
    layers' rows have age limits of their own, of which the button knows nothing: see
    [Known defects](#known-defects-and-limits).
  - `ReviewLosesNothing`: an import keeps what was noted before its files were read.
  - `NothingWaitsForever`: the census leaves "Calculating", the lab leaves "Busy", and
    aircraft and telemetry are asked again and again.

Deadlock checking is off in every run but `workspace`: the others may stop, be it
that the bound on records, versions, time or faults is reached, that everyone is
served, or that the session has ended.

### Fairness

Liveness is checked under the fairness that the code's scheduling justifies, and no
more: goroutines and callbacks that can run do run (weak fairness per action); the
gateway's writes and pings end within their deadlines; HTTP requests end within
their timeouts (`SharedFeed!FetchEnds`, `FeedClient!ServeSnapshot`, the dashboard's
`Answered`); timers fire and effects and frames run (`Polled`, `Rendered`); a
worker's computation ends (`WorkerAnswers`, `WorkerStep`); Go's mutex hands over to a
waiter that has waited long, hence strong fairness of a `SharedFeed` viewer's turn;
a round of CelesTrak goes on (`GroupsRun`); a killed Space-Track service is started
again. In the two sums a condition is stated once for all parts, since a behaviour
has one of them. Nothing assumes that a viewer leaves or stays, that a provider
answers well, that time passes by itself, or that new data arrives. Commits need
no fairness.

## What is proved

Every invariant, safety and action property that a passing run checks is the conclusion
of a theorem below. A backend component has a proof module of its own
(`GatewayHubProofs`, `BatchAssemblyProofs`, `TleCatalogProofs`, `SpaceTrackProofs`), and
the providers one for all of them (`ProvidersProofs`). `SessionProofs` is about the
launcher, the feed client and the workspace; `ViewProofs` about readouts, views and
analysis, each alone; `DashboardProofs` about the globe, the lab and the encounters, and
about the whole dashboard.

The theorems hold for every value of the constants that satisfies the assumptions named
in the modelled modules: positive capacities and natural bounds, a nonempty set of keys,
`First` a partition, limits of tracks in their order, samples, events and cameras of the
right shape, a row carrying the feed that published it, and no feed listed twice. Four
say what the types range over: `CatalogLongAssumption` that lives are at most the longest
told apart, `NobodyAssumption` that no aircraft is called like none, `ReviewAssumption`
that a file's reports carry keys of the model, and `OnesAssumption` that the one aircraft
and the one report of the composition are of the model. Two say more than a shape:

- `ArchivesAssumption`: an archive that is offered for import was written while its
  analysis was shown, as the property about archives says; `ExportsAreRestorable` proves
  that such an export is one.
- `WorldsAssumption` with `ManeuverAssumption`: paths have a closest approach, before and
  after which they part; while a candidate is integrated nothing is as far away as
  `Infinity`; a maneuver burns before the encounter window, candidates have names of
  their own, the first is the coast; the goal is not above the action threshold; and no
  lead of the grid exceeds the longest lead of a design. Which burns meet the goal is
  left open: the set need not be an interval, nor symmetric.

| Theorem | States |
|---|---|
| `HubTypeCorrect` | `GatewayHub!TypeOK` |
| `HubClosesOnce` | `ChannelClosedOnce`: whoever removes a client closes its channel, and nobody closes it again |
| `HubQueuesOrdered` | `QueuesOrdered`: what a connection still has to show of a feed is in order, not older than what it shows and not newer than the cache |
| `HubNeverShowsOlder` | `NeverShowsOlder` |
| `HubImplementsSubscription` | `ImplementsSubscription`: the hub refines `FeedSubscription`, whatever overflows, is evicted or fails |
| `HubCaughtUp`, `HubCoherentAtRest` | a connection with nothing left to write shows the newest version of every feed (`CoherentAtRest`), if no snapshot of a live connection is dropped; in particular with queues that hold every message there can be |
| `BatchTypeCorrect` | `BatchAssembly!TypeOK`, with the batches stored listed once each |
| `AssemblyShowsWholeCycles` | `PayloadWhole`, under every loss, repetition and order of records |
| `CompleteCyclesAreShown`, `AssemblyNeverGoesBack` | `CompleteCycleShown`, `OlderCycleOnlyIfReordered`: with records read once and in order, no complete cycle is passed over and none replaces a newer one, through retries, abandoned cycles, expiry and restarts |
| `CatalogTypeCorrect` | `TleCatalog!TypeOK` |
| `CatalogNewest`, `CatalogComplete` | `CatalogIsNewestRead`, `CatalogCompleteWhenCaughtUp` |
| `PositionsFromNewerElements` | `PositionsNeverFromOlderElements`, also across restarts |
| `FeedTypeCorrect` | `SharedFeed!TypeOK` |
| `FeedOneRequest`, `FeedRequestsSpaced`, `FeedRetryAfter` | `OneRequestInFlight`, `RequestsSpaced`, `RetryAfterHonored` for a feed that the map keeps, with any viewers and capacity |
| `MetadataDownloadsSpaced`, `PlaceSearchesSpaced`, `RejectedNotRepeated` | `SatcatSpaced`, `SearchesSpaced`, `RejectedIsLeftAlone`, each of its module's own specification |
| `MetadataIsWhole`, `PlaceCacheBounded`, `WeatherIsCurrent`, `WeatherTopicFollows` | `MetadataWhole`, `CacheWithinSize`, `PublishedIsCurrent`, `TopicFollowsSources`, likewise |
| `ProvidersAreSpared`, `ProvidersAreSound` | `ProvidersSpared`, `ProvidersSound` of the composition `MCProviders` for every value of its constants |
| `TrackTypeCorrect` | `SpaceTrack!TypeOK` |
| `AlertsNeverGoBack`, `RequestsForCDMsSpaced` | `AlertsNeverOlder`, `CDMRequestsSpaced`, through crashes between any two steps and writes that fail |
| `LauncherTypeCorrect` | `LauncherTypeOK` |
| `LauncherOneSession`, `LauncherNothingLeftBehind` | `OneSession`, `NothingLeftBehind` for any number of launchers, services and containers |
| `ClientTypeCorrect` | `FeedClient!TypeOK` |
| `ClientSocketsCoherent`, `ClientDisconnectedIsQuiet`, `ClientShownWhole` | `SocketsCoherent`, `DisconnectedIsQuiet`, `ShownWhole` |
| `WorkspaceTypeCorrect` | `WorkspaceTypeOK` |
| `WorkspacePanelsCoherent`, `WorkspaceOneCameraOwner`, `WorkspacePreviewOwnsSelection` | `PanelsCoherent`, `OneCameraOwner`, `PreviewOwnsSelection` in every order of clicks, keys, flights and feeds |
| `MarkersAlwaysTheirOwn`, `GlobeAlwaysShowsNow` | `MarkersAreTheirOwn`, `GlobeShowsNow` of the whole dashboard, for any lists, lives, reports and limits; `GlobeMarkersAreTheirOwn` and `GlobeOutdatedHidden` say it of the globe alone |
| `LabAlwaysCoherent`, `LabSessionSurvives` | `LabCoherent`, `SessionSurvives` of the whole dashboard, for any missions, designs, leads and limits; `LabResultsMatchInputs` and `LabSessionKept` say the half of each of the lab alone |
| `ReviewAlwaysLosesNothing` | `ReviewLosesNothing` of the whole dashboard, for any files and keys |
| `ReadoutsAlwaysTruthful` | `ReadoutsTruthful` of the whole dashboard, for any events, ages, samples, filters and page sizes |
| `ViewsAlwaysCoherent` | `ViewsCoherent` of the whole dashboard, for any feeds, cameras, vehicles, samples and limits |
| `AnalysisAlwaysSound` | `AnalysisSound` of the whole dashboard, for any orbits, candidates, steps, windows, grids and numbers of halvings |
| `DashboardTypeCorrect` | `DashboardTypeOK` |

The arguments:

- **Hub.** `ChannelClosedOnce` is inductive once it is known that a connection whose
  handler has not started is neither registered nor closed (`RegistryInv`): then
  registering opens a fresh channel, and both ways of removing a client look it up
  first. `QueuesOrdered` needs that a consumer never holds a version older than the
  cache and holds exactly the cached one while it broadcasts (`HeldInv`; together
  they are `OrderInv`): what is appended to a queue, by a consumer or by `sendAll`,
  is then the newest version there is. A write takes its message from the front of
  an ordered queue, so `NeverShowsOlder` follows. The refinement needs more: that no
  version is missing in between (`Gapless`). Consumer and cache differ by at most one
  version (`Numbered`); before every queued message, unless it is the first of its
  feed, something at most one version older is shown, being written or queued
  (`Chained`); and the version to be broadcast next (`Coming`) fits behind what a
  registered connection has (`Followed`). A pump that gave up shows nothing more
  (`Pumping`). Storing in the cache is then `Publish`, a write is `Show` or a stutter,
  and every other step is a stutter. `CoherentAtRest` needs that what a registered
  connection was sent, is being written, or shows reaches the newest version of every
  feed whose snapshot it was given (`Caught`): a broadcast appends to every registered
  queue or evicts, and a snapshot is appended unless the queue is full. The premise that
  none is dropped (`NothingDropped`) is needed, as `hub_snapshot_drop` shows; it follows
  from a capacity of four more than all updates, since a connection is sent the
  greeting, three snapshots and each update at most once (`Roomy`).
- **Batches.** A stored part holds the rows of its own batch and index, since
  records on the topic do (`AssemblyInv`). A batch that is handed out has all its
  indices, so it is `WholeCycle` of its ID. Nothing about offsets matters: the
  theorem covers every loss, repetition and order. Read in order and from one
  partition, records come cycle by cycle (`LogInv`); what is still to be read is not
  older than what is shown (`Ahead`), of a cycle newer than the one shown every part
  that was received and has not expired is stored (`Collected`), and a batch that is
  complete does not stay stored (`Incomplete`). So the part that completes a cycle finds
  the others, and a late one of an older cycle replaces nothing.
- **Catalog.** A record adds at most its own epoch to what was read, and ingesting
  keeps the catalog at the maximum of the enlarged set. A whole load leaves no gap
  before the consumer's first offset (`NoGap`), because committed offsets never
  pass the end of the topic. Every published position came from a record of the
  topic (`Sourced`), which a whole load after a restart reads again
  (`Remembers`); hence no step publishes an older one.
- **Shared feed.** All viewers of a kept feed hold the object in the map
  (`Agree`), who fetches holds that object's mutex alone (`Mutex`), an object
  belongs to one key (`Owned`), unused objects are blank (`Fresh`), and the times
  in the object are those of the feed's history (`Times`). Then a request starts
  only when `Due` holds for the history itself.
- **The other providers.** The place search remembers the time of every request it
  makes (`SearchInv`), and a full cache gives up an answer for the one it takes
  (`OneInOneOut`, on cardinalities). A file is replaced by a whole table only, its time is
  not earlier than that of its download, and what the running engine knows is not older
  than its file (`MetadataInv`). A record of
  readings holds for each source what that source last said, or is marked dirty
  (`WeatherInv`). A step of the sum is a step of its part or leaves it alone
  (`StepOfParts`), so each part behaves as specified (`SumOfParts`) and the run's two
  composite properties follow from the parts' theorems.
- **Space-Track.** A failed write leaves a file behind that is older than the alerts
  on the topic, but a fetch begins only when the file is outdated, and time does not make
  it fresh again (`Outdated`); hence what is read from the file is as new as the alerts
  (`Newer`). The pause after a request is in the next fetch time as soon as the round is
  past its parsing (`Paused`); a restart forgets it and goes by the file alone, as the
  property says.
- **Launcher.** Unless a launcher was misled by a stale lock, who has taken the lock
  owns it (`LockOwned`) and is the only one (`Exclusive`); `OneSession` follows. Services
  are gone before the shutdown goes on, and none is launched after it began
  (`Emptied`), which is `NothingLeftBehind`.
- **Feed client.** At most one effect run is live, and sockets, timers and requests
  that can still act are its own (`Runs`, `Counted`). What is on a wire is a prefix of
  snapshots chunk by chunk (`Whole`), so a complete assembly is one snapshot.
- **Globe.** The message or computation under way, the window and the markers carry
  the generation of the list they are for (`Underway`), and generations name lists
  (`Pool`): a window whose generation is current is of the current list, index by index.
  An arc is drawn from the elements that were read when it was computed, and a frame that
  finds others, or another minute, computes it again before it draws (`Arcs`,
  `FrameDrawsNow`).
- **Mission lab.** `LabInv` says that a shown analysis is of the scenario shown
  (`Matched`), that a pending import belongs to an open lab (`Reader`), and that the
  saved session is the one on screen (`Kept`). It is inductive because every handler
  ends in `Renders`, which forgets an analysis when the scenario changes and saves
  what changed. The clock starts within the trajectory of every scenario that is
  launched, because no lead exceeds `MaxLead`, and a replay that passes an end stops at
  it (`Clocked`). What an archive holds are settings that pass the checks of an import
  (`Restored`), so it restores the session.
- **Review.** An import publishes what it started from and more; whoever else publishes
  meanwhile marks it as disturbed (`Keeps`).
- **Workspace.** A handler is a composition of operators on the record of the stores, so
  there is one lemma per operator instead of one per action. Who follows was asked to:
  the follower has the camera only while a follow or a preview is set (`Owned`), none is
  set while a satellite is selected, and all are set in the aerospace panel, which stands
  alone (`Good`). What a subscriber does on the way takes follows back and opens nothing
  (`Turns`).
- **Readouts.** How many elements of a finite set come before an element tells it from
  the others, and every number up to the size of the set is taken (`Ranking`: an
  injection between finite sets of one size is onto). So a sorted list holds each
  conjunction as often as the feed does, and the rows of a page are those whose number
  divided by the page's length is the page's: never none, never too many, and a further
  page exists exactly if rows are left (`LastPage`, `OnPage`). The event nearest to a
  date is found by one pass over the events, an induction on the number of events seen.
- **Views.** Cameras are gathered feed by feed: each row that was received lies behind
  those of the feeds before its own (`Ordered`, an induction on the feeds), so the first
  entry with an image is the one the order of the feeds prefers, and the merge keeps
  exactly that one. A player is of the element that is mounted (`MediaInv`); raising a
  layer keeps the others in their order. What extends a track or a trail is younger than
  its last sample and recent, so trimming to the last samples, dropping the old ones or
  growing older leaves it in order and never empty (`GoodTrack`); a trail that would
  join samples too far apart starts anew.
- **Analysis.** While a candidate is integrated, what it has of the window and of each
  screening object is the closest of all instants it passed, not only of those it
  stopped at (`NearestOver`): within a step a path that turns does so at the point the
  refinement finds, and otherwise its ends are closest. The instants do not skip the
  window's start (`NextIsAfter`), so what counts for the miss distance begins exactly
  there. A closest approach is inside the window if and only if it is a turning point
  (`InsideIsTurning`); with that, what qualifies is what the orbits allow
  (`QualifiesIsSound`), and of finitely many one comes first (`OneComesFirst`). Of a
  grid interval whose upper end meets the goal and whose lower end does not, a halving
  keeps a part with the same ends (`Straddles`), so after all of them the burn meets the
  goal and its neighbour does not, though what meets it be no interval. The lesser of
  both signs lies in the first grid interval of either (`LeastBurnIsSound`). Samples are
  in order, from the burn to the window's end (`Trail`), whatever the stride, so a
  replay finds two successive ones around every instant (`ReplayBetween`).
- **Types.** Most are one step each. Those that are not: the worker computes only for an
  open lab that shows no analysis (`Jobs`), because what closes a lab or launches a
  scenario withdraws the job; an import holds no more than its limit since it is
  trimmed after each file (`Holds`); and a page is of the catalog because it had a row
  when it was turned to (`PageOfCatalog`, from the numbering of the rows). The
  assembler's list: less one entry, it lists the others once each (`WithoutOne`).

Induction over the natural numbers is available for a property that is written as a set
of numbers (the least counterexample, from the well-founded order of the library), and a
recursive function can be unfolded from the `CHOOSE` that defines it. Both are used for
the readouts, the cameras, the tracks, and the grid and the bisection of the analysis,
whose models therefore pick the entries of a sequence by position (`Picked`) and gather
feeds and samples, double and halve with recursive functions.
What remains out of reach is induction inside the library's own operators on sequences
and sets (`FoldLeft`, `FlattenSeq`, `SelectSeq`, `SetToSortSeq`), of which no facts are
given.

Only model-checked is liveness, since ENABLED and fairness are out of the prover's reach:
`GonePeersAreRemoved` and `UpdatesReachViewers` of the hub, `EverythingIsServed`,
`FetchedGetsPublished`, `SessionsEndCleanly`, `ComesToShowCurrent` and
`NothingWaitsForever`. The two documented statements that the code does not meet are
refuted by runs, below. No run lists `BatchAssembly!TypeOK`: it is proved, and holds in
all states of `batches`.

## Disagreements between the code and its documents

Each is a run in which TLC finds the documented statement violated.

1. `hub_snapshot_drop`: `sendAll` drops a cached feed silently when the queue is
   full, and the client stays. `src/backend/gateway/main.go:98` says that lagging
   clients must reconnect because dropped updates leave their state inconsistent.
   In the code 61 broadcasts would have to arrive between registration and `sendAll`.
2. `batch_reread`: after a rejoin the satellite consumer reads uncommitted records
   again, and an older cycle replaces a newer one, although
   `src/backend/shared/kafka.go:64` asks consumers to be idempotent by ID or epoch.

## Known defects and limits

Met while modelling. Most contradict no text of the repository; the properties
exclude each by a named condition, or state what holds in spite of it.

Backend and launcher:

- An engine whose bulk load is cut short starts with a gap between what it loaded
  and the committed offsets (`LoadedWhole`), and the plain reader reads
  partition 0 only.
- A full map of provider feeds forgets a feed together with its Retry-After
  (`Kept`).
- A conjunction feed that Kafka refuses is not published until the next fetch, eight
  hours later (`lost`). A NOAA reading that Kafka refuses is not sent again until some
  source reports anew (`refusedW`), and the rest of a CelesTrak group whose batch is
  refused waits for the next round, two hours later.
- A stop signal during CelesTrak's round waits for its end
  (`ingestion/celestrak/main.go:326-332`).
- A metadata table that could not be saved is downloaded again after a restart.
- The cache of looked-up elements is keyed by the exact list of objects, so an
  encounter that passes makes it useless.
- The gauge of connections is set outside the lock that its value was read under.
- A signal in the first moments of a start leaves a control server open, and the
  process alive (`EarlyStop`); `SessionsEndCleanly` is about stops after that.
- A launcher that finds a stale lock removes it without looking again
  (`start.mjs:83`), so of two that start after a third was killed the slower may remove
  the lock of the faster (`misled`); `src/README.md:650` says that a second launcher
  reports the existing session. A launcher stopped before its state file is
  written frees the lock and may then write its name into another's.

Dashboard:

- An import of an archive outlives its lab: if the lab is closed while the file is
  read, the lab reopens, or the scenario is replaced under another's notes
  (`MissionControl.tsx:161-195`, `mission/store.ts:25-31`).
- Exporting while the analysis is computed writes the candidate "coast" though
  another is selected (`MissionControl.tsx:201`, `docs/mission-lab.md:148-149`).
- A capture of 20 MB, pretty-printed, may exceed the 30 MB that an import accepts.
- Imports of reviews use the state from before the files were read
  (`IntelAnalysisPanel.tsx:47-55`): two that overlap, or notes typed meanwhile, are
  overwritten. `ReviewLosesNothing` is about what was there when the import began.
  Reviews are lost when their overlay is unmounted. An imported export that contains
  reports of the feed shows them twice under one key.
- FEEDS CONNECTED, "Source update times are current" (`dataStatus.ts:27`) looks at the
  core feeds' ages and at the layers' errors. Worldwide aircraft are polled once a minute
  (`AerospacePanel.tsx:90`) from a gateway that keeps a reply for a minute
  (`aerospace.go:100`), and their row is lit for one minute (`FeedSummary.tsx:47`), so it
  is dark much of the time under that button.
- Reports that arrive, or that expire, set the selected conjunction to null
  (`useWebSocket.ts:116,166`) but leave its panel among the open ones: the panel shows
  nothing and has no button to close it, and keeps the satellite catalog hidden until
  all panels are closed or a pair is selected on the globe or in the list of pairs.
- Selecting an aircraft with a blank callsign while a lookup runs leaves
  "Looking up..." (`AircraftRoute.tsx:17-20`).
- A followed launch whose telemetry is older than 90 s hides the rocket, and the
  symbol of the launch site stays hidden too (`scene.ts:228-233`, `liveRocket.ts:197`).
- The timeline's LIVE label turns into HISTORICAL PLAYBACK after a minute at the live
  end, which is fixed when the page loads (`Timeline.tsx:19,39,99`). Hiding the timeline
  by key keeps its event, so the weather summary shows the event's values without a
  banner (`Timeline.tsx:45`, `HUD.tsx:23-25`); the panels of storm mode show live weather
  under the banner.
- The fleet badge calls a pair critical from 0.005 or 250 m (`format.ts:240`),
  `conjunctionRisk.ts:5-9` from 0.001, its "canonical" cut-off. The gauge in
  `PanelManager.tsx:181` draws the mark "Pc > 1/1000" at 88.8 %, where
  `probability.ts:16-23` puts 0.001 at 100 %.
- Isolating a selected pair neither object of which is in the catalog hides every path
  (`GlobeView.tsx:1635,1743`).
- An immersive flight does not detach the aerospace follower (`GlobeView.tsx:1833`);
  `OneCameraOwner` is about the globe's other flights.

## Not modelled

The rest is out of reach of these methods, has no state of its own, or is not part
of the running program:

- **Numerics**: SGP4 (`internal/sgp4`, `satellite.js`), orbit integration, collision
  probability, fuel, illumination, passes. They are floating-point and have tests
  and reference vectors of their own; models take what they return as chosen inputs.
- **The Rust engine**: an alternative to the Go engine over the same topics. Its load
  reads every partition to the end; the catalog rules are those of `TleCatalog`, which
  was not checked against the Rust source.
- **Shared Kafka client, types, validation of fields** (`kafka.go`, `omm.go`, parsers): the
  client's effects are part of each model that uses it; whether a record is valid is a
  free choice.
- **Diagnostics, metrics, logs**: computed on request from state modelled elsewhere;
  they change none.
- **Rendering**: Cesium's scene, shaders, aurora, imagery, panel layout and texts.
- **Modules that no application code imports** (tests only): `HelioOverlay`,
  `CmeLibraryPanel`, and of `utils/` `auroraCap`, `auroraMoonlight`,
  `auroraViewingDirection`, `bezierArc`, `catalogOwners`, `cmeStats`, `conjunctionLeadTime`,
  `conjunctionStats`, `conjunctionVisual`, `eclipse`, `historicalEventStats`,
  `hudDataLayers`, `hudTheme`, `kpForecast`, `moonlight`, `orbitSummary`, `orbitalEnergy`,
  `satelliteImpact`, `satellitePasses`, `solarWindMerging`, `sparkline`, `stormExposure`,
  `stormOverlayStyle`, `stormSystemImpacts`. The mode HELIO cannot be reached: the
  modes are OPS, STORM and INTEL.
- **Infrastructure and tooling**: build files, containers, asset generation.

Left out of modelled components:

- `GatewayHub`: chunk frames (`writeSnapshot` is one write; `FeedClient` has the frames).
- `SharedFeed`: the shape of replies, the endpoint of rocket telemetry.
- `CatalogMetadata`: the enrichment of satellites. `SpaceWeather`: the parsing of a
  reading.
- `MissionLab`: tabs, texts, the playback rate, settings beyond the lead, the
  capture's limit in bytes.
- `LiveTracking`: smoothing of motion, the launch list and its countdown.
- `EarthCameras`: the filters for area, video and text are folded into one of
  network; drawing of markers.
- `ManeuverAnalysis`: displacement, fuel and validation errors, axes other than the
  chosen one, the encounter plane.
- `Encounters`: passes and ages of elements are outside inputs.
- `Readouts`: a layer's row is drawn from the state after the effects have run, not in the
  render between a change and its effects; details of `DataStatusIndicator.tsx:49-77` and
  `PanelManager.tsx:352-440`.
- `Workspace`: a flight lasts until it is cancelled or replaced or lands; map layers only toggle
  satellites; the mode is set through buttons and keys.
