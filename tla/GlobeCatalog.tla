---- MODULE GlobeCatalog ----
(***************************************************************************)
(* The orbital catalog on the globe: GlobeView keeps one marker per entry  *)
(* of the list the store holds, a web worker propagates the list to a      *)
(* two-second window of positions, and every rendered frame places the     *)
(* markers by index from the newest window.  The list can be replaced      *)
(* while a computation for the former one is under way, elements expire,   *)
(* the worker can be slow or fail.                                         *)
(*                                                                         *)
(* One tick is the second of the worker's timer.  Instants are ages: a     *)
(* window, a drawn marker and a pending timer grow older with every tick   *)
(* and stop at Late, past which nothing depends on them.                   *)
(***************************************************************************)
EXTENDS Naturals, Sequences, FiniteSets

CONSTANTS
  Sats,        \* the objects of the catalog
  Lists,       \* the catalogs the feed publishes, sequences of objects
  Lives,       \* and for how long the elements in them are current
  Demo,        \* the catalog of a dashboard without a feed
  MaxLoads,    \* bound: catalogs received
  MaxCompute   \* bound: seconds a propagation takes

ASSUME CatalogListsAssumption == Demo \in Seq(Sats) /\ Lists \subseteq Seq(Sats)
ASSUME CatalogLivesAssumption == Lives \subseteq [Sats -> Nat]
ASSUME CatalogBoundsAssumption == MaxLoads \in Nat /\ MaxCompute \in Nat

VARIABLES
  hasFeed,        \* VITE_WS_URL is set
  fed,            \* feedLastUpdated.satellites is not null
  satellites,     \* the list of the store: its version and each entry's elements
  marked,         \* the list the markers stand for (activeSatAnimStates)
  life,           \* seconds until the elements of an object of it are outdated
  markers,        \* the pool of billboards, one record per index
  generation,     \* catalogGeneration
  catalogWindow,  \* catalogWindow, or NoWindow
  catalogFailed,  \* catalogWorkerFailed
  census,         \* the state of catalogStats, "none" before the first
  workerInbox,    \* messages posted to the worker
  worker,         \* the worker's catalog, generation and timer or computation
  workerOutbox    \* windows posted by the worker

globeState == <<hasFeed, fed, satellites, marked, markers, generation, catalogWindow, catalogFailed, census>>
catalogVars == <<globeState, life, workerInbox, worker, workerOutbox>>

WindowSpan  == 2     \* a window covers two seconds
WindowGrace == 1     \* and is used for one more
Late == WindowSpan + WindowGrace + 1
Long == Late + 1     \* elements that stay current for now
ASSUME CatalogLongAssumption == Lives \subseteq [Sats -> 0..Long]
NoWindow == [generation |-> 0, list |-> <<>>, valid |-> {}, age |-> Late]

Hidden(s)   == [of |-> s, shown |-> FALSE, from |-> s]
Reported(s) == [of |-> s, shown |-> TRUE, from |-> s]
OlderBy1(n)    == IF n < Late THEN n + 1 ELSE n

----
(* The worker: one propagation at a time, the next a second after it ends. *)

\* An object has a position when its elements are current at both samples:
\* hasCurrentElements at the start and WindowSpan seconds later.
CurrentThroughout(list) == {i \in DOMAIN list : life[list[i]] >= Late}

\* propagateCatalogWindow starts: positions are those of the list and the
\* instant at which it starts.
Sampling(list, g) ==
  [state |-> "computing", timer |-> 0, spent |-> 0, list |-> list, generation |-> g,
   result |-> [generation |-> g, list |-> list, valid |-> CurrentThroughout(list), age |-> 0]]

\* A list replaces the former one and its timer, and is sampled at once.
WorkerReceives ==
  /\ workerInbox # <<>> /\ worker.state # "computing"
  /\ workerInbox' = Tail(workerInbox)
  /\ worker' = Sampling(Head(workerInbox).list, Head(workerInbox).generation)
  /\ UNCHANGED <<globeState, life, workerOutbox>>

WorkerTimer ==
  /\ worker.state = "waiting" /\ worker.timer = 0
  /\ worker' = Sampling(worker.list, worker.generation)
  /\ UNCHANGED <<globeState, life, workerInbox, workerOutbox>>

WorkerPosts ==
  /\ worker.state = "computing" /\ workerOutbox = <<>>
  /\ workerOutbox' = Append(workerOutbox, worker.result)
  /\ worker' = [worker EXCEPT !.state = "waiting", !.timer = 1]
  /\ UNCHANGED <<globeState, life, workerInbox>>

\* An exception leaves sample() before it schedules the next one.
WorkerThrows ==
  /\ worker.state = "computing"
  /\ worker' = [worker EXCEPT !.state = "stopped"]
  /\ catalogFailed' = TRUE
  /\ UNCHANGED <<hasFeed, fed, satellites, markers, marked, generation, catalogWindow, census,
                 life, workerInbox, workerOutbox>>

----
(* The globe. *)

SameGeneration(g) == g
NextGeneration(g) == g + 1

\* A catalog message: the store's list, and the feed is fed from now on.
CatalogArrives(list, lives) ==
  /\ hasFeed /\ satellites.version < MaxLoads
  /\ satellites' = [list |-> list, lives |-> lives, version |-> satellites.version + 1]
  /\ fed' = TRUE
  /\ UNCHANGED <<hasFeed, marked, life, markers, generation, catalogWindow, catalogFailed, census, workerInbox, worker, workerOutbox>>

\* syncSatellitePoints: pooled billboards are handed to the entries of the new
\* list and shown where the feed reports them, new ones wait for a frame, the
\* surplus is hidden.
Pooled(list) ==
  [i \in 1..(IF Len(list) > Len(markers) THEN Len(list) ELSE Len(markers)) |->
     IF i > Len(list) THEN [markers[i] EXCEPT !.shown = FALSE]
     ELSE IF i <= Len(markers) THEN Reported(list[i]) ELSE Hidden(list[i])]

SyncSatellites ==
  /\ marked # satellites
  /\ generation' = NextGeneration(generation)
  /\ catalogWindow' = NoWindow
  /\ workerInbox' = Append(workerInbox, [list |-> satellites.list, generation |-> generation'])
  /\ marked' = satellites /\ life' = satellites.lives
  /\ markers' = Pooled(satellites.list)
  /\ UNCHANGED <<hasFeed, fed, satellites, catalogFailed, census, worker, workerOutbox>>

AcceptsWindow(w) == w.generation = generation

WindowArrives ==
  /\ workerOutbox # <<>>
  /\ workerOutbox' = Tail(workerOutbox)
  /\ IF AcceptsWindow(Head(workerOutbox))
     THEN catalogWindow' = Head(workerOutbox) /\ catalogFailed' = FALSE
     ELSE UNCHANGED <<catalogWindow, catalogFailed>>
  /\ UNCHANGED <<hasFeed, fed, satellites, markers, marked, generation, census, life, workerInbox, worker>>

Usable == catalogWindow # NoWindow /\ catalogWindow.generation = generation /\ catalogWindow.age <= WindowSpan + WindowGrace
Eligible(i) == ~fed \/ (Usable /\ i \in catalogWindow.valid)

Census == IF ~fed THEN "demo" ELSE IF catalogFailed THEN "error"
          ELSE IF catalogWindow = NoWindow THEN "loading" ELSE IF Usable THEN "ready" ELSE "late"

\* One frame.  (CatalogFrameFreezes is the same without its hiding.)  Which eligible markers are above the horizon, near the camera or
\* kept by the density limit is the camera's choice; a layer that is switched off
\* shows none.
Placed(i) ==
  [of |-> markers[i].of, shown |-> TRUE,
   from |-> IF fed THEN catalogWindow.list[i] ELSE marked.list[i]]

CatalogFrameFreezes(drawn) ==
  /\ drawn \subseteq {i \in DOMAIN marked.list : Eligible(i)}
  /\ markers' = [i \in DOMAIN markers |-> IF i \in drawn THEN Placed(i) ELSE markers[i]]
  /\ census' = Census
  /\ UNCHANGED <<hasFeed, fed, satellites, marked, generation, catalogWindow, catalogFailed, life, workerInbox, worker, workerOutbox>>

CatalogFrame(drawn) ==
  /\ drawn \subseteq {i \in DOMAIN marked.list : Eligible(i)}
  /\ markers' = [i \in DOMAIN markers |->
       IF i \in drawn THEN Placed(i)
       ELSE IF i \in DOMAIN marked.list THEN Hidden(markers[i].of) ELSE markers[i]]
  /\ census' = Census
  /\ UNCHANGED <<hasFeed, fed, satellites, marked, generation, catalogWindow, catalogFailed, life, workerInbox, worker, workerOutbox>>

----
\* A second passes: bounded by the length of a propagation, and by messages that
\* are delivered within it.
CatalogTick ==
  /\ workerOutbox = <<>>
  /\ worker.state = "computing" => worker.spent < MaxCompute
  /\ worker.state # "computing" => workerInbox = <<>>
  /\ worker.state = "waiting" => worker.timer > 0
  /\ catalogWindow' = [catalogWindow EXCEPT !.age = OlderBy1(@)]
  /\ worker' = [worker EXCEPT !.spent = IF worker.state = "computing" THEN @ + 1 ELSE @,
                              !.timer = IF worker.state = "waiting" THEN @ - 1 ELSE @,
                              !.result.age = OlderBy1(@)]
  /\ life' = [s \in Sats |-> IF life[s] \in 1..(Long - 1) THEN life[s] - 1 ELSE life[s]]
  /\ UNCHANGED <<hasFeed, fed, satellites, markers, marked, generation, catalogFailed, census, workerInbox, workerOutbox>>

\* Elements that were current for long come within a window of their end.
Ageing(s) ==
  /\ life[s] = Long
  /\ life' = [life EXCEPT ![s] = Long - 1]
  /\ UNCHANGED <<globeState, workerInbox, worker, workerOutbox>>

CatalogInit ==
  /\ hasFeed \in BOOLEAN /\ fed = FALSE
  /\ life = [s \in Sats |-> Long]
  /\ satellites = [list |-> IF hasFeed THEN <<>> ELSE Demo, lives |-> life, version |-> 0]
  /\ marked = satellites /\ generation = 1
  /\ markers = [i \in DOMAIN marked.list |-> Hidden(marked.list[i])]
  /\ catalogWindow = NoWindow /\ catalogFailed = FALSE /\ census = "none"
  /\ workerInbox = <<[list |-> marked.list, generation |-> 1]>>
  /\ worker = [state |-> "stopped", timer |-> 0, spent |-> 0, list |-> <<>>, generation |-> 0, result |-> NoWindow]
  /\ workerOutbox = <<>>

WorkerStep == WorkerReceives \/ WorkerTimer \/ WorkerPosts
SomeCatalogFrame == \E drawn \in SUBSET DOMAIN marked.list : CatalogFrame(drawn)

CatalogNext ==
  \/ WorkerStep \/ WorkerThrows \/ WindowArrives \/ SyncSatellites \/ CatalogTick \/ SomeCatalogFrame
  \/ \E list \in Lists, lives \in Lives : CatalogArrives(list, lives)
  \/ \E s \in Sats : Ageing(s)

\* The browser runs the effects of a render, the messages and the frames, and
\* the worker thread its own: each is scheduled again and again.
CatalogFairness ==
  /\ WF_catalogVars(SyncSatellites) /\ WF_catalogVars(WorkerReceives) /\ WF_catalogVars(WorkerTimer)
  /\ WF_catalogVars(WorkerPosts) /\ WF_catalogVars(WindowArrives) /\ WF_catalogVars(SomeCatalogFrame)

CatalogSpec == CatalogInit /\ [][CatalogNext]_catalogVars /\ CatalogFairness

----
CatalogTypeOK ==
  /\ hasFeed \in BOOLEAN /\ fed \in BOOLEAN /\ catalogFailed \in BOOLEAN
  /\ life \in [Sats -> 0..Long] /\ generation \in 1..(MaxLoads + 1)
  /\ catalogWindow.age \in 0..Late /\ census \in {"none", "demo", "error", "loading", "ready", "late"}
  /\ worker.state \in {"stopped", "waiting", "computing"} /\ worker.timer \in 0..1
  /\ Len(marked.list) <= Len(markers) /\ Len(workerOutbox) <= 1

\* A marker that is shown stands where the object it identifies is: a click on
\* it selects the object whose position it has, whatever lists and windows
\* crossed (positions are taken from the window by index).
MarkersAreTheirOwn ==
  \A i \in DOMAIN markers : markers[i].shown => markers[i].from = markers[i].of

\* What is shown is of the present list, from a window that ended at most
\* WindowGrace ago, and of elements that were current then.
OnlyCurrentShown ==
  \A i \in DOMAIN markers : markers[i].shown =>
    i \in DOMAIN marked.list /\ catalogWindow.age <= WindowSpan + WindowGrace /\ life[marked.list[i]] > 0

\* "Outdated objects hidden": every frame of the fed catalog leaves on the globe
\* what is current only; a marker that was shown vanishes and does not freeze, and
\* none is left over from a longer list.
OutdatedHidden == [][fed /\ SomeCatalogFrame => OnlyCurrentShown']_catalogVars
====
