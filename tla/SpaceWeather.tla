---------------------------- MODULE SpaceWeather ----------------------------
(***************************************************************************)
(* The space weather ingestion: four sources of NOAA SWPC are polled by     *)
(* one goroutine, each on its own ticker, into one record; after each poll  *)
(* the record is published if it changed and no source is outdated.         *)
(*                                                                         *)
(* A reading is the time of its observation.  A handler runs to its end     *)
(* before the next one starts, so a poll with its publication is one step;  *)
(* time passes between steps, in units of a quarter of an hour.             *)
(***************************************************************************)
EXTENDS Integers, Sequences, SequencesExt

CONSTANTS
  Sources,    \* the sources in the order of the initial fetches
  MaxAge,     \* how old an observation of each may be
  Ahead,      \* and how far in the future
  MaxClockW,  \* end of the clock (a bound)
  MaxStarts   \* starts of the service (a bound)

ASSUME WeatherAssumption ==
  /\ Len(Sources) \in Nat /\ Len(Sources) > 0 /\ DOMAIN Sources = 1..Len(Sources)
  /\ MaxAge \in [ToSet(Sources) -> Nat]
  /\ Ahead \in Nat /\ MaxClockW \in Nat /\ MaxStarts \in Nat

VARIABLES
  clockW,     \* time
  phase,      \* 0 if down, the index of the next initial fetch, or Running
  starts,
  observed,   \* weatherState: the observation of each source, or Unobserved
  dirty,      \* and whether it changed since it was last taken
  topicW,     \* the readings last written to the topic, or NoWeather
  refusedW    \* history: Kafka reported an error for the readings last taken

weatherIngestVars == <<clockW, phase, starts, observed, dirty, topicW, refusedW>>

Running    == Len(Sources) + 1
Feeds      == ToSet(Sources)
Unobserved == -1
NoWeather  == [s \in Feeds |-> Unobserved]

\* An observation that is neither too old nor in the future.
Current(s, at) == at # Unobserved /\ clockW - at <= MaxAge[s] /\ at <= clockW + Ahead
\* Variant: one current source is enough.
ReadyAnyhow(readings) == \E s \in Feeds : Current(s, readings[s])
\* ready: so is the observation of every source.
Ready(readings) == \A s \in Feeds : Current(s, readings[s])

\* Variant: readings that are not ready are not looked at again.
PublishOrForget(readings, changed) ==
  /\ dirty' = FALSE
  /\ IF changed /\ Ready(readings) THEN topicW' = readings /\ refusedW' \in BOOLEAN
     ELSE UNCHANGED <<topicW, refusedW>>

\* publishIfDirty: the flag is cleared when the readings are taken.  Those that
\* Kafka reports as refused may be on the topic all the same.
PublishIfDirty(readings, changed) ==
  IF changed /\ Ready(readings)
  THEN /\ dirty' = FALSE
       /\ \/ topicW' = readings /\ refusedW' \in BOOLEAN
          \/ topicW' = topicW /\ refusedW' = TRUE
  ELSE dirty' = changed /\ UNCHANGED <<topicW, refusedW>>

----
StartWeather ==
  /\ phase = 0 /\ starts < MaxStarts
  /\ phase' = 1 /\ starts' = starts + 1
  /\ observed' = NoWeather /\ dirty' = FALSE /\ refusedW' = FALSE
  /\ UNCHANGED <<clockW, topicW>>

\* A reply replaces the reading by its newest usable observation, which may be
\* older than the reading; a failed fetch or a reply without one changes nothing.
Fetched(s, usable) ==
  IF usable THEN \E at \in 0..(clockW + Ahead + 1) : observed' = [observed EXCEPT ![s] = at]
  ELSE UNCHANGED observed

\* The initial fetches of main; the readings are published after the last.
FetchInitially ==
  /\ phase \in DOMAIN Sources /\ phase' = phase + 1
  /\ \E usable \in BOOLEAN :
       /\ Fetched(Sources[phase], usable)
       /\ IF phase' = Running THEN PublishIfDirty(observed', dirty \/ usable)
          ELSE dirty' = (dirty \/ usable) /\ UNCHANGED <<topicW, refusedW>>
  /\ UNCHANGED <<clockW, starts>>

\* A tick of main's loop: its source is fetched, then the readings are published.
FetchOnTick(s) ==
  /\ phase = Running
  /\ \E usable \in BOOLEAN : Fetched(s, usable) /\ PublishIfDirty(observed', dirty \/ usable)
  /\ UNCHANGED <<clockW, phase, starts>>

StopWeather == phase # 0 /\ phase' = 0 /\ UNCHANGED <<clockW, starts, observed, dirty, topicW, refusedW>>
WeatherAges ==
  /\ clockW < MaxClockW /\ clockW' = clockW + 1
  /\ UNCHANGED <<phase, starts, observed, dirty, topicW, refusedW>>

WeatherInit ==
  /\ clockW = 0 /\ phase = 0 /\ starts = 0
  /\ observed = NoWeather /\ dirty = FALSE /\ topicW = NoWeather /\ refusedW = FALSE
WeatherNext ==
  StartWeather \/ FetchInitially \/ StopWeather \/ WeatherAges \/ \E s \in Feeds : FetchOnTick(s)
WeatherSpec == WeatherInit /\ [][WeatherNext]_weatherIngestVars

----
\* No reading is withheld: unless a source is outdated or Kafka reported an error,
\* the topic has what the service last read, also after an outdated source held
\* back the others' news for any number of polls.
TopicFollowsSources ==
  phase = Running /\ ~dirty /\ observed # NoWeather => topicW = observed \/ refusedW

\* "Never advertise uninitialized zeros as live weather, or keep old wind readings
\* fresh just because X-ray data still arrives": whichever source wakes the loop,
\* what is published has an observation of every source within its own age.
PublishedIsCurrent ==
  [][topicW' # topicW =>
       \A s \in Feeds :
         topicW'[s] # Unobserved /\ topicW'[s] \in (clockW - MaxAge[s])..(clockW + Ahead)]_weatherIngestVars
=============================================================================
