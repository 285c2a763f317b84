---- MODULE Encounters ----
(***************************************************************************)
(* Close approaches on the dashboard.  Pairs: the reports of the store,    *)
(* the arcs the globe draws for the two objects of each from the catalog's *)
(* elements, one pair selected and possibly isolated; reports and catalog  *)
(* are replaced, expire and age independently of one another, and every    *)
(* arc is cached for a minute.  Review: reports read from files are merged *)
(* with those an analyst already loaded and annotated, file after file,    *)
(* while the analyst goes on working.                                      *)
(***************************************************************************)
EXTENDS Naturals, Sequences, FiniteSets, Functions

CONSTANTS
  Pairs,        \* conjunction reports
  Objects,      \* catalogued objects
  ObjectsOf,    \* the two objects of a report
  NoPair,       \* no report selected
  Catalogs,     \* catalogs: the version of each object's elements, 0 if it has none
  MaxMinutes,   \* bound: minutes that pass
  Keys,         \* source and identifier of a reviewed report
  Files,        \* files an analyst has: [ok, reports, notes]
  MaxReports    \* mergeReviewReports: 1,000

ASSUME PairsAssumption ==
  /\ ObjectsOf \in [Pairs -> Objects \X Objects] /\ NoPair \notin Pairs
  /\ Catalogs \subseteq [Objects -> Nat] /\ MaxMinutes \in Nat \ {0} /\ MaxReports \in Nat
ASSUME ReviewAssumption == \A f \in Files : f.ok => DOMAIN f.reports \subseteq Keys

VARIABLES
  reported,   \* conjunctions and selectedConjunction of the store
  elements,   \* the catalog of the store: the version of each object's elements
  lasting,    \* of each object's elements: "orbit", "now" or "over"
  onGlobe,    \* the catalog and the reports the globe was last synchronised with
  arcs,       \* conjunctionVisualState: per report the cache and what is shown
  paths,      \* conjunctionPaths and conjunctionFocus
  live,       \* a catalog was received
  minute
pairVars == <<reported, elements, lasting, onGlobe, arcs, paths, live, minute>>

VARIABLES
  imports,    \* the reports read from files, by key
  notes,      \* annotations by key: notes and the reviewed mark alike
  importing,  \* imports under way: the files left and what was merged so far
  disturbed   \* history: imports under way whose snapshot is no longer current
reviewVars == <<imports, notes, importing, disturbed>>

----
(* Pairs: the store. *)

NoArc == [minute |-> 0, of |-> <<0, 0>>, path |-> <<FALSE, FALSE>>, shown |-> <<FALSE, FALSE>>, anchored |-> <<FALSE, FALSE>>]

\* A message replaces the reports and forgets the selection.
ReportsArrive(rs) ==
  /\ reported' = [all |-> rs, selected |-> NoPair]
  /\ UNCHANGED <<elements, lasting, onGlobe, arcs, paths, live, minute>>

\* Every thirty seconds: reports whose encounter has passed are dropped, and the
\* selection with them.
ReportsExpire(rs) ==
  /\ rs \subseteq reported.all /\ rs # reported.all
  /\ reported' = [all |-> rs, selected |-> IF reported.selected \in rs THEN reported.selected ELSE NoPair]
  /\ UNCHANGED <<elements, lasting, onGlobe, arcs, paths, live, minute>>

CatalogPublished(versions) ==
  /\ versions # elements /\ elements' = versions /\ live' = TRUE
  /\ lasting' = [o \in Objects |-> IF versions[o] = elements[o] THEN lasting[o] ELSE "orbit"]
  /\ UNCHANGED <<reported, onGlobe, arcs, paths, minute>>

----
(* Pairs: the workbench.  A row shows the paths and selects its pair without its report. *)

Selects(r) == reported' = [reported EXCEPT !.selected = r]

SelectPair(r) ==
  /\ r \in reported.all /\ Selects(r)
  /\ paths' = [paths EXCEPT !.on = TRUE]
  /\ UNCHANGED <<elements, lasting, onGlobe, arcs, live, minute>>
ShowAllPaths ==
  /\ Selects(NoPair) /\ paths' = [paths EXCEPT !.focus = FALSE]
  /\ UNCHANGED <<elements, lasting, onGlobe, arcs, live, minute>>
IsolatePair ==
  /\ reported.selected \in reported.all /\ paths' = [paths EXCEPT !.focus = TRUE]
  /\ UNCHANGED <<reported, elements, lasting, onGlobe, arcs, live, minute>>
TogglePaths ==
  /\ paths' = [paths EXCEPT !.on = ~@]
  /\ UNCHANGED <<reported, elements, lasting, onGlobe, arcs, live, minute>>

----
(* Pairs: the globe. *)

\* The effects of a render: visuals are rebuilt, hidden and without a path, when
\* either list was replaced.
SyncPairs ==
  /\ onGlobe # [elements |-> elements, reports |-> reported.all]
  /\ onGlobe' = [elements |-> elements, reports |-> reported.all]
  /\ arcs' = [r \in reported.all |-> NoArc]
  /\ UNCHANGED <<reported, elements, lasting, paths, live, minute>>

Tracks(o)  == onGlobe.elements[o] # 0
CurrentNow(o) == Tracks(o) /\ lasting[o] # "over"
Both(P(_), r) == <<P(ObjectsOf[r][1]), P(ObjectsOf[r][2])>>

\* The pair that is picked out, if the globe has it.
ActivePair == IF reported.selected \in DOMAIN arcs THEN reported.selected ELSE NoPair
Isolated(r) == paths.focus /\ ActivePair # NoPair /\ ActivePair # r

\* A path is sampled over a revolution when the minute or the elements of either
\* object changed, and is empty unless the elements are current all along.
Lasts(o) == Tracks(o) /\ lasting[o] = "orbit"
Stale(r) == arcs[r].minute # minute \/ arcs[r].of # Both(LAMBDA o : onGlobe.elements[o], r)
SampledArc(r) ==
  IF ~Stale(r) THEN arcs[r]
  ELSE [arcs[r] EXCEPT !.minute = minute, !.of = Both(LAMBDA o : onGlobe.elements[o], r), !.path = Both(Lasts, r)]

DrawnLive(r) ==
  LET v == SampledArc(r)
      current == Both(CurrentNow, r)
  IN [v EXCEPT !.shown = [i \in {1, 2} |-> current[i] /\ v.path[i]],
               !.anchored = [i \in {1, 2} |-> reported.selected = r /\ current[i]]]
\* Without a feed the arcs are illustrative; a marker needs both objects.
DrawnDemo(r) ==
  LET tracked == Both(Tracks, r)
  IN [arcs[r] EXCEPT !.shown = tracked,
                     !.anchored = [i \in {1, 2} |-> i = 1 /\ tracked[1] /\ tracked[2] /\ reported.selected = r]]
NotDrawn(v) == [v EXCEPT !.shown = <<FALSE, FALSE>>, !.anchored = <<FALSE, FALSE>>]

Drawn(r) ==
  IF ~\E i \in {1, 2} : Both(Tracks, r)[i] THEN NotDrawn(arcs[r]) ELSE IF live THEN DrawnLive(r) ELSE DrawnDemo(r)

\* A frame while the paths are switched on.  How many it could draw is only shown.
PairsFrame ==
  /\ paths.on
  /\ arcs' = [r \in DOMAIN arcs |-> IF Isolated(r) THEN NotDrawn(Drawn(r)) ELSE Drawn(r)]
  /\ UNCHANGED <<reported, elements, lasting, onGlobe, paths, live, minute>>

MinutePasses ==
  /\ minute < MaxMinutes /\ minute' = minute + 1
  /\ UNCHANGED <<reported, elements, lasting, onGlobe, arcs, paths, live>>
\* Elements come within a revolution of the end of their life, then reach it.
ElementsAge(o) ==
  /\ elements[o] # 0 /\ lasting[o] # "over"
  /\ lasting' = [lasting EXCEPT ![o] = IF @ = "orbit" THEN "now" ELSE "over"]
  /\ UNCHANGED <<reported, elements, onGlobe, arcs, paths, live, minute>>

PairsInit ==
  /\ reported = [all |-> {}, selected |-> NoPair] /\ live = FALSE /\ minute = 1
  /\ elements \in Catalogs /\ lasting = [o \in Objects |-> "orbit"]
  /\ onGlobe = [elements |-> elements, reports |-> {}] /\ arcs = <<>>
  /\ paths = [on |-> FALSE, focus |-> FALSE]

PairsNext ==
  \/ \E rs \in SUBSET Pairs : ReportsArrive(rs) \/ ReportsExpire(rs)
  \/ \E versions \in Catalogs : CatalogPublished(versions)
  \/ \E r \in Pairs : SelectPair(r)
  \/ ShowAllPaths \/ IsolatePair \/ TogglePaths \/ SyncPairs \/ PairsFrame \/ MinutePasses
  \/ \E o \in Objects : ElementsAge(o)

----
(* Review: files are read one after another; an import sees the reports and notes *)
(* of the render it started in, and publishes all of its files or none.            *)

\* What f says, and what g says where f says nothing.
Overlaid(f, g) == [k \in (DOMAIN f) \cup (DOMAIN g) |-> IF k \in DOMAIN f THEN f[k] ELSE g[k]]

\* mergeReviewReports and reviewAnnotations: the same report may come again, not
\* another one under its key; annotations of other reports are not restored.
FileParses(file) == file.ok
Conflicts(current, file) == \E k \in (DOMAIN current) \cap (DOMAIN file.reports) : current[k] # file.reports[k]
MergesAnything(current, file) == FileParses(file)
Merges(current, file) ==
  FileParses(file) /\ ~Conflicts(current, file) /\ Cardinality(DOMAIN Overlaid(file.reports, current)) <= MaxReports
Annotated(old, file) == Overlaid(Restrict(file.notes, (DOMAIN file.notes) \cap (DOMAIN file.reports)), old)

ImportStarts(files) ==
  /\ importing = <<>> \/ Len(importing) = 1
  /\ importing' = Append(importing, [files |-> files, imports |-> imports, notes |-> notes])
  /\ disturbed' = Append(disturbed, FALSE)
  /\ UNCHANGED <<imports, notes>>

\* The import at this place ends; those still under way lag behind a change.
Ends(i, changed) ==
  /\ importing' = [j \in 1..(Len(importing) - 1) |-> importing[IF j < i THEN j ELSE j + 1]]
  /\ disturbed' = [j \in 1..(Len(importing) - 1) |-> changed \/ disturbed[IF j < i THEN j ELSE j + 1]]
Disturbs == disturbed' = [j \in DOMAIN disturbed |-> TRUE] /\ UNCHANGED importing

FileRead(i) ==
  /\ i \in DOMAIN importing /\ importing[i].files # <<>>
  /\ LET job == importing[i]
         file == Head(job.files)
     IN IF Merges(job.imports, file)
        THEN /\ importing' = [importing EXCEPT ![i] = [files |-> Tail(job.files), imports |-> Overlaid(file.reports, job.imports),
                                                        notes |-> Annotated(job.notes, file)]]
             /\ UNCHANGED disturbed
        ELSE Ends(i, FALSE)
  /\ UNCHANGED <<imports, notes>>

ImportEnds(i) ==
  /\ i \in DOMAIN importing /\ importing[i].files = <<>>
  /\ imports' = importing[i].imports /\ notes' = importing[i].notes
  /\ Ends(i, TRUE)

WriteNote(k) ==
  /\ notes' = Overlaid([j \in {k} |-> "written"], notes) /\ Disturbs /\ UNCHANGED imports
ClearReview ==
  /\ imports # <<>> /\ imports' = <<>> /\ notes' = <<>> /\ Disturbs
\* The dashboard's overlays are unmounted: the review begins anew, and an import
\* under way has nothing left to publish to.
LeaveReview ==
  /\ imports' = <<>> /\ notes' = <<>> /\ importing' = <<>> /\ disturbed' = <<>>

ReviewInit == imports = <<>> /\ notes = <<>> /\ importing = <<>> /\ disturbed = <<>>
ReviewSteps ==
  \/ \E f \in Files : ImportStarts(<<f>>) \/ \E g \in Files : ImportStarts(<<f, g>>)
  \/ \E i \in {1, 2} : FileRead(i) \/ ImportEnds(i)
  \/ ClearReview \/ LeaveReview
ReviewNext == ReviewSteps \/ \E k \in Keys : WriteNote(k)

----
PairsTypeOK ==
  /\ reported.all \subseteq Pairs /\ reported.selected \in Pairs \cup {NoPair}
  /\ elements \in Catalogs /\ lasting \in [Objects -> {"orbit", "now", "over"}]
  /\ DOMAIN arcs = onGlobe.reports /\ minute \in 1..MaxMinutes /\ live \in BOOLEAN
ReviewTypeOK ==
  /\ DOMAIN imports \subseteq Keys /\ DOMAIN notes \subseteq Keys /\ Len(importing) <= 2
  /\ Len(disturbed) = Len(importing) /\ Cardinality(DOMAIN imports) <= MaxReports

\* A frame draws the arc of a live object only from the elements the globe now has
\* of it, sampled in this minute, while they are current; and while the selected
\* pair is isolated, no arc or label of another is left on the globe.  Reports,
\* catalog, age and clock change in any order between frames.
PathsAreOfNow ==
  [][PairsFrame =>
       /\ live => \A r \in DOMAIN arcs', i \in {1, 2} : arcs'[r].shown[i] =>
            /\ CurrentNow(ObjectsOf[r][i]) /\ arcs'[r].of[i] = onGlobe.elements[ObjectsOf[r][i]]
            /\ arcs'[r].minute = minute
       /\ paths.focus /\ reported.selected \in DOMAIN arcs' =>
            \A r \in (DOMAIN arcs') \ {reported.selected}, i \in {1, 2} : ~arcs'[r].shown[i] /\ ~arcs'[r].anchored[i]]_pairVars

\* An import that nothing disturbed keeps every report and every annotation there
\* was, except the annotations its files bring for their own reports; a refused
\* one changes nothing.  Only clearing and leaving the review lose a report,
\* unless two imports, or an import and the analyst, overlap.
ReviewLosesNothing ==
  [][\/ ClearReview \/ LeaveReview
     \/ \E i \in DOMAIN importing : ImportEnds(i) /\ disturbed[i]
     \/ /\ \A k \in DOMAIN imports : k \in DOMAIN imports' /\ imports'[k] = imports[k]
        /\ \A k \in DOMAIN notes : k \in DOMAIN notes' /\ (k \notin DOMAIN imports' => notes'[k] \in {notes[k], "written"})
    ]_reviewVars
====
