---- MODULE MissionLab ----
(***************************************************************************)
(* The mission lab: an encounter scenario, an analysis of it computed in a *)
(* worker, designed maneuvers that change the scenario, a replay clock,    *)
(* notes and a feed capture, imported and exported as one archive.  The    *)
(* scenario and the saved session are in a store that outlives the lab;    *)
(* the rest is the state of the component, and its effects run after every *)
(* change: the analysis restarts when the scenario is replaced, the clock  *)
(* is kept inside the selected candidate's trajectory.                     *)
(*                                                                         *)
(* A scenario is what the properties tell apart: its identity, its burn    *)
(* lead and its designed maneuvers.  Instants are counted from the epoch,  *)
(* in units of a lead; an analysis is "ready" or "failed".                  *)
(***************************************************************************)
EXTENDS Integers, Sequences, SequencesExt

CONSTANTS
  Missions,    \* identities of scenarios: the example's and others
  Example,     \* the example mission
  BurnLeads,   \* leads of the standard candidates that settings and archives hold
  ExampleLead, \* the lead of the example's, and of the scenario made from a report
  Designs,     \* maneuvers the analyst designs
  DesignLead,  \* and the lead of each
  Window,      \* the encounter window after the epoch
  MaxLead,     \* validateScenario: 7,200 seconds
  MaxDesigns,  \* customManeuvers.slice(-20)
  MaxEvents,   \* events a capture holds
  Notes,       \* what the analyst writes; "" is nothing
  Archives     \* archives written by a lab whose analysis was shown

ASSUME MissionAssumption ==
  /\ Example \in Missions /\ "" \in Notes /\ BurnLeads \subseteq Nat
  /\ DesignLead \in [Designs -> Nat] /\ {"coast", "burn"} \cap Designs = {}
  /\ \A f \in Archives :
        f.scenario \in [id : Missions, lead : BurnLeads, designs : Seq(Designs)] /\ f.notes \in Notes
  /\ Window \in Nat /\ MaxLead \in Nat /\ ExampleLead \in BurnLeads /\ ExampleLead \in (Window + 1)..MaxLead
  /\ MaxDesigns \in Nat /\ MaxEvents \in Nat /\ MaxEvents >= 3

VARIABLES
  labOpen,    \* the lab is mounted
  scenario,   \* the store's scenario
  session,    \* the store's session, or NoSession
  view,       \* selected, seconds, playing, notes, hashed, events: its state
  analysis,   \* the job that belongs to the scenario, or "busy"
  working,    \* a worker computes for the scenario
  late,       \* a worker that was disposed of may still answer
  reading,    \* whose files are being read: of the lab that is open, of former ones
  capture,    \* useFeedCapture: recording, and the number of events
  loaded,     \* history: the archive last imported, until the analyst acts
  overtaken   \* history: an import outlived its lab and replaced the scenario

store == <<labOpen, scenario, session>>
labVars == <<store, view, analysis, working, late, reading, capture, loaded, overtaken>>

\* The instants of the clock under the longest lead.
Instants == -MaxLead..Window
NoSession == [saved |-> FALSE]
\* The lab that is open, and those that were closed.
Readers == {"here", "gone"}
NotLoaded == [archive |-> FALSE]
Busy == [state |-> "busy"]

Greater(a, b) == IF a > b THEN a ELSE b
Smaller(a, b) == IF a < b THEN a ELSE b

----
(* What a scenario implies. *)

Candidates(s) == {"coast", "burn"} \cup ToSet(s.designs)
LeadOf(s, c)  == IF c \in ToSet(s.designs) THEN DesignLead[c] ELSE s.lead

\* timelineLeadSeconds: the earliest burn of the scenario.
TimelineLead(s) ==
  LET leads == {s.lead} \cup {DesignLead[d] : d \in ToSet(s.designs)}
  IN CHOOSE l \in leads : \A m \in leads : m <= l

\* The candidates of the analysis are those of the scenario it was given.
Ready     == analysis.state = "ready"
StatusShown == IF analysis = Busy THEN "computing" ELSE analysis.state
Chosen(a, selected) == IF selected \in a.candidates THEN selected ELSE "coast"
ClockLead(s, a, selected) ==
  IF a.state = "ready" THEN LeadOf(a.of, Chosen(a, selected)) ELSE TimelineLead(s)
Candidate == Chosen(analysis, view.selected)
Lead      == ClockLead(scenario, analysis, view.selected)

Analyzed(s) == [state |-> "ready", of |-> s, candidates |-> Candidates(s)]

\* The scenarios the validation accepts: every burn precedes the encounter window
\* by no more than the limit, and the designed maneuvers are few and distinct.
ValidLead(lead) == lead > Window /\ lead <= MaxLead
ValidScenario(s) ==
  /\ ValidLead(s.lead) /\ \A d \in ToSet(s.designs) : ValidLead(DesignLead[d])
  /\ Len(s.designs) <= MaxDesigns /\ IsInjective(s.designs)

\* scenarioFromCdm: the example with the objects of a report.
FromReport(id) == [id |-> id, lead |-> ExampleLead, designs |-> <<>>]

\* readArchive: the replay position is inside the scenario's timeline.
ValidArchive(f) == ValidScenario(f.scenario) /\ f.seconds \in -TimelineLead(f.scenario)..Window

\* What exportArchive writes of the lab as it is.
CapturedEvents == IF view.events # "none" THEN view.events ELSE IF capture.events > 0 THEN "captured" ELSE "none"
Archived ==
  [scenario |-> scenario, notes |-> view.notes, selected |-> IF Ready THEN Candidate ELSE "coast",
   seconds |-> view.seconds, events |-> CapturedEvents]

\* And what it is when an analysis is shown: the clock is in the burn of a candidate.
Restorable(f) == f.selected \in Candidates(f.scenario) /\ f.seconds \in -LeadOf(f.scenario, f.selected)..Window
ASSUME ArchivesAssumption == \A f \in Archives : Restorable(f)

----
(* The component's effects. *)

Saved(v) == [saved |-> TRUE, selected |-> v.selected, seconds |-> v.seconds, notes |-> v.notes, hashed |-> v.hashed, events |-> v.events]

\* useMissionAnalysis: a result belongs to the object it was computed from, so
\* it is kept until any scenario is launched.
KeptById(a, old, new, launched) == IF launched /\ old.id # new.id THEN Busy ELSE a
KeptResult(a, old, new, launched) == IF launched THEN Busy ELSE a

\* [scenario]: the clock is brought into the new scenario's timeline.
IntoLead(v, s, launched) ==
  IF launched THEN [v EXCEPT !.playing = FALSE, !.seconds = Smaller(Window, Greater(-s.lead, @))] ELSE v
IntoTimeline(v, s, launched) ==
  IF launched
  THEN [v EXCEPT !.playing = FALSE, !.seconds = Smaller(Window, Greater(-TimelineLead(s), @))]
  ELSE v
\* [timelineLead]: the clock follows the selected candidate's burn.
IgnoreBurn(v, before, after) == v
FollowBurn(v, before, after) ==
  IF before = after THEN v ELSE [v EXCEPT !.playing = FALSE, !.seconds = Greater(-after, @)]

\* A render of the mounted lab with its effects, to their fixed point: `s' is the
\* scenario of the store, `v' the state the handler set, `a' the analysis;
\* `rehashed' when the digest of an archive was replaced by another.
Renders(s, v, a, launched, forgotten, rehashed) ==
  LET b == KeptResult(a, scenario, s, launched)
      w == FollowBurn(IntoTimeline(v, s, launched), Lead, ClockLead(s, b, v.selected))
  IN /\ scenario' = s /\ view' = w /\ analysis' = b
     /\ session' = IF rehashed \/ Saved(w) # Saved(view) THEN Saved(w) ELSE IF forgotten THEN NoSession ELSE session
     /\ working' = (launched \/ (working /\ b.state = "busy"))
     /\ late' = (late \/ (launched /\ working))

\* launch: another mission forgets the session.
Launched(s, v) == Renders(s, v, analysis, TRUE, s.id # scenario.id, FALSE)
Changed(v)     == Renders(scenario, v, analysis, FALSE, FALSE, FALSE)

\* The lab is mounted with the session of the store, or afresh.
Mounted(s, saved) ==
  LET v == [selected |-> IF saved.saved THEN saved.selected ELSE "coast",
            seconds |-> IF saved.saved THEN saved.seconds ELSE -TimelineLead(s), playing |-> FALSE,
            notes |-> IF saved.saved THEN saved.notes ELSE "", hashed |-> saved.saved /\ saved.hashed,
            events |-> IF saved.saved THEN saved.events ELSE "none"]
      w == IntoTimeline(v, s, TRUE)
  IN /\ scenario' = s /\ view' = w /\ session' = Saved(w)
     /\ analysis' = Busy /\ working' = TRUE /\ late' = late /\ labOpen' = TRUE

Acts == loaded' = NotLoaded /\ overtaken' = (overtaken /\ session' = NoSession)
Quiet == UNCHANGED <<reading, capture>>

----
(* The analysis. *)

\* worker.onmessage and onerror: the answer, or what was thrown.
AnswersOrDies(ok) ==
  /\ labOpen /\ working
  /\ IF ok THEN Renders(scenario, view, Analyzed(scenario), FALSE, FALSE, FALSE)
     ELSE working' = FALSE /\ UNCHANGED <<scenario, session, view, analysis, late>>
  /\ UNCHANGED <<labOpen, reading, capture, loaded, overtaken>>
WorkerAnswers(ok) ==
  /\ labOpen /\ working
  /\ Renders(scenario, view, IF ok THEN Analyzed(scenario) ELSE [state |-> "failed"], FALSE, FALSE, FALSE)
  /\ UNCHANGED <<labOpen, reading, capture, loaded, overtaken>>

\* An answer of a worker that was terminated meets `disposed'.
AfterLateAnswer(a) == a
LateAnswer ==
  /\ late /\ late' = FALSE /\ analysis' = AfterLateAnswer(analysis)
  /\ UNCHANGED <<store, view, working, reading, capture, loaded, overtaken>>

Retry ==
  /\ labOpen /\ analysis.state = "failed"
  /\ analysis' = Busy /\ working' = TRUE
  /\ UNCHANGED <<store, view, late, reading, capture, loaded, overtaken>>

----
(* The analyst. *)

OpenLab ==
  /\ ~labOpen /\ Mounted(scenario, session) /\ Acts /\ Quiet

\* The review workbench opens a report as a mission.
OpenReport(id) ==
  /\ ~labOpen /\ id # Example
  /\ Mounted(FromReport(id), IF id # scenario.id THEN NoSession ELSE session)
  /\ Acts /\ Quiet

CloseLab ==
  /\ labOpen /\ labOpen' = FALSE
  /\ analysis' = Busy /\ working' = FALSE /\ late' = (late \/ working)
  /\ view' = [view EXCEPT !.playing = FALSE]
  /\ reading' = IF "here" \in reading THEN {"gone"} ELSE reading
  /\ loaded' = NotLoaded /\ overtaken' = FALSE
  /\ UNCHANGED <<scenario, session, capture>>

ExampleMission ==
  /\ labOpen
  /\ Launched(FromReport(Example),
              [view EXCEPT !.selected = "coast", !.seconds = -ExampleLead, !.notes = "", !.hashed = FALSE, !.events = "none"])
  /\ UNCHANGED labOpen /\ Acts /\ Quiet

\* Settings and radii are validated, then launched as a new scenario; only the
\* tab of the maneuvers has the former, and only while the analysis is shown.
WithSettings(lead) == [scenario EXCEPT !.lead = lead]
ApplySettings(lead) ==
  /\ labOpen /\ Ready /\ ValidScenario(WithSettings(lead))
  /\ Launched(WithSettings(lead), [view EXCEPT !.hashed = FALSE])
  /\ UNCHANGED labOpen /\ Acts /\ Quiet
ApplyRadii == labOpen /\ Ready /\ Launched(scenario, view) /\ UNCHANGED labOpen /\ Acts /\ Quiet

LastDesigns(seq) == SubSeq(seq, Greater(1, Len(seq) - MaxDesigns + 1), Len(seq))
WithDesign(d) == [scenario EXCEPT !.designs = LastDesigns(Append(@, d))]
SimulateDesign(d) ==
  /\ labOpen /\ Ready /\ ~Contains(scenario.designs, d) /\ ValidScenario(WithDesign(d))
  /\ Launched(WithDesign(d), [view EXCEPT !.selected = d, !.hashed = FALSE])
  /\ UNCHANGED labOpen /\ Acts /\ Quiet
Without(designs, d) == RemoveAt(designs, CHOOSE i \in DOMAIN designs : designs[i] = d)
RemoveDesign(d) ==
  /\ labOpen /\ Ready /\ Contains(scenario.designs, d)
  /\ Launched([scenario EXCEPT !.designs = Without(@, d)],
              [view EXCEPT !.selected = IF @ = d THEN "coast" ELSE @, !.hashed = FALSE])
  /\ UNCHANGED labOpen /\ Acts /\ Quiet

\* The table, the markers and the coast cells of the map, the recommendation.
SelectCandidate(c) ==
  /\ labOpen /\ Ready /\ c \in analysis.candidates
  /\ Changed([view EXCEPT !.selected = c]) /\ UNCHANGED labOpen /\ Acts /\ Quiet
WriteNotes(n) == labOpen /\ Ready /\ Changed([view EXCEPT !.notes = n]) /\ UNCHANGED labOpen /\ Acts /\ Quiet

----
(* The replay clock. *)

PlayButton ==
  /\ labOpen /\ Ready
  /\ Changed([view EXCEPT !.playing = ~@, !.seconds = IF @ >= Window THEN -Lead ELSE @])
  /\ UNCHANGED labOpen /\ Acts /\ Quiet
PlayKey == labOpen /\ Changed([view EXCEPT !.playing = ~@]) /\ UNCHANGED labOpen /\ Acts /\ Quiet
ResetClock == labOpen /\ Changed([view EXCEPT !.playing = FALSE, !.seconds = -Lead]) /\ UNCHANGED labOpen /\ Acts /\ Quiet
DragClock(t) ==
  /\ labOpen /\ t \in -Lead..Window
  /\ Changed([view EXCEPT !.playing = FALSE, !.seconds = t]) /\ UNCHANGED labOpen /\ Acts /\ Quiet

PlayTick ==
  /\ labOpen /\ view.playing
  /\ LET next == Smaller(view.seconds + 1, Window)
     IN Changed([view EXCEPT !.seconds = next, !.playing = next # Window])
  /\ UNCHANGED labOpen /\ Acts /\ Quiet

----
(* Archives and captures. *)

\* Another may be chosen before the former is read.
ImportFile == labOpen /\ reading' = reading \cup {"here"} /\ UNCHANGED <<store, view, analysis, working, late, capture, loaded, overtaken>>

\* The continuation of importFile after its awaits: everything is validated, then
\* the scenario is launched and the component's state set.  A lab that was closed
\* meanwhile has no state: only the store is written.  Others may still be read.
Imported(by, s, v, archive) ==
  /\ by \in reading /\ reading' \in {reading, reading \ {by}}
  /\ IF by = "here"
     THEN /\ Renders(s, v, analysis, TRUE, s.id # scenario.id, archive # NotLoaded) /\ UNCHANGED labOpen
          /\ loaded' = archive /\ overtaken' = FALSE
     ELSE /\ IF labOpen THEN Launched(s, view) /\ UNCHANGED labOpen
             ELSE Mounted(s, IF s.id # scenario.id THEN NoSession ELSE session)
          /\ loaded' = NotLoaded /\ overtaken' = (session' = NoSession)
  /\ UNCHANGED capture

ImportArchive(by, f) ==
  /\ ValidArchive(f)
  /\ Imported(by, f.scenario, [view EXCEPT !.selected = f.selected, !.seconds = f.seconds, !.notes = f.notes, !.hashed = TRUE,
                                      !.events = f.events],
              [archive |-> TRUE, selected |-> f.selected, seconds |-> f.seconds, notes |-> f.notes, events |-> f.events])
ImportCdm(by, id) ==
  /\ id # Example
  /\ Imported(by, FromReport(id), [view EXCEPT !.selected = "coast", !.seconds = -TimelineLead(FromReport(id)), !.notes = "",
                                             !.hashed = FALSE, !.events = "none"], NotLoaded)

\* What is written is `Archived' as it was at the click.  This is the rest of the
\* handler, when the digest has been computed, whatever the lab has come to hold:
\* the digest becomes the lab's, and may be another than before.
ExportArchive ==
  /\ labOpen
  /\ \E rehashed \in BOOLEAN :
       Renders(scenario, [view EXCEPT !.hashed = TRUE], analysis, FALSE, FALSE, rehashed)
  /\ overtaken' = (overtaken /\ session' = NoSession)
  /\ UNCHANGED <<labOpen, loaded>> /\ Quiet
ImportRefused ==
  /\ \E by \in reading : reading' = reading \ {by}
  /\ UNCHANGED <<store, view, analysis, working, late, capture, loaded, overtaken>>

\* record: the capture starts with a snapshot of the three feeds.
Record ==
  /\ labOpen /\ Ready /\ ~capture.recording
  /\ capture' = [recording |-> TRUE, events |-> 3]
  /\ Changed([view EXCEPT !.events = "none"]) /\ UNCHANGED <<labOpen, reading>> /\ Acts
StopRecording ==
  /\ labOpen /\ Ready /\ capture.recording /\ capture' = [capture EXCEPT !.recording = FALSE]
  /\ UNCHANGED <<store, view, analysis, working, late, reading, loaded, overtaken>>

\* A message of the feed, wherever the lab is: at the limit recording stops and
\* what was captured stays.
AppendEvent ==
  /\ capture.recording
  /\ capture' = IF capture.events >= MaxEvents THEN [capture EXCEPT !.recording = FALSE]
                ELSE [capture EXCEPT !.events = @ + 1]
  /\ UNCHANGED <<store, view, analysis, working, late, reading, loaded, overtaken>>

----
LabInit ==
  /\ labOpen = FALSE /\ session = NoSession
  /\ scenario = FromReport(Example)
  /\ view = [selected |-> "coast", seconds |-> -TimelineLead(scenario), playing |-> FALSE, notes |-> "", hashed |-> FALSE, events |-> "none"]
  /\ analysis = Busy /\ working = FALSE /\ late = FALSE /\ reading = {}
  /\ capture = [recording |-> FALSE, events |-> 0]
  /\ loaded = NotLoaded /\ overtaken = FALSE

Investigate ==
  \/ OpenLab \/ CloseLab \/ ExampleMission \/ Retry \/ ImportFile \/ ImportRefused \/ ExportArchive
  \/ \E id \in Missions : OpenReport(id)
  \/ \E by \in Readers, id \in Missions : ImportCdm(by, id)
  \/ \E by \in Readers, f \in Archives : ImportArchive(by, f)
  \/ \E n \in Notes : WriteNotes(n)
Redesign ==
  \/ ApplyRadii \/ \E lead \in BurnLeads : ApplySettings(lead)
  \/ \E d \in Designs : SimulateDesign(d) \/ RemoveDesign(d)
  \/ \E c \in {"coast", "burn"} \cup Designs : SelectCandidate(c)
Replay ==
  \/ PlayButton \/ PlayKey \/ PlayTick \/ ResetClock
  \/ \E t \in Instants : DragClock(t)
Capture == Record \/ StopRecording \/ AppendEvent
Worked == LateAnswer \/ \E ok \in BOOLEAN : WorkerAnswers(ok)

LabNext == Investigate \/ Redesign \/ Replay \/ Capture \/ Worked

\* The worker's computation is finite, and it answers or is reported to fail.
LabFairness == WF_labVars(\E ok \in BOOLEAN : WorkerAnswers(ok))
LabSpec == LabInit /\ [][LabNext]_labVars /\ LabFairness

----
LabTypeOK ==
  /\ labOpen \in BOOLEAN /\ working \in BOOLEAN /\ late \in BOOLEAN /\ overtaken \in BOOLEAN
  /\ scenario.id \in Missions /\ scenario.lead \in BurnLeads /\ Len(scenario.designs) <= MaxDesigns
  /\ analysis.state \in {"busy", "ready", "failed"} /\ reading \subseteq Readers
  /\ view.notes \in Notes /\ capture.events \in 0..MaxEvents
  /\ working => labOpen /\ analysis = Busy

\* The results that are shown were computed from the scenario that is shown, down
\* to its designed maneuvers: useMissionAnalysis, "never just its ID".
ResultsMatchInputs ==
  labOpen /\ Ready => analysis.of = scenario /\ analysis.candidates = Candidates(scenario)

\* "The replay clock follows the selected candidate's burn time, so its displayed
\* trajectory always covers the active clock range."
ReplayWithinTrajectory == labOpen => view.seconds \in -Lead..Window

\* An archive written while its analysis was shown restores, once it is analysed
\* again, the candidate, the instant, the notes and the capture; and whatever the
\* lab holds, the archive it would write is one that the import accepts.
ArchiveRestoresSession ==
  labOpen =>
    /\ ValidArchive(Archived)
    /\ loaded.archive /\ Ready =>
         /\ Candidate = loaded.selected /\ view.seconds = loaded.seconds
         /\ view.notes = loaded.notes /\ view.events = loaded.events

\* Closing the lab loses nothing the analyst wrote or loaded: the session of the
\* store is the lab's, or there is nothing to keep.  An import that outlives the
\* lab it was started in is the exception: the scenario is replaced under the
\* notes of another.
SessionKept ==
  labOpen /\ ~overtaken =>
    IF session.saved THEN session = Saved(view) ELSE view.notes = "" /\ view.events = "none"
====
