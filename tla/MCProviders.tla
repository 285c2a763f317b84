---------------------------- MODULE MCProviders ----------------------------
(***************************************************************************)
(* One instance of every part that asks a provider at a pace of its own:     *)
(* the gateway's shared feeds and place search, two ingestion services and   *)
(* the engine's catalog metadata.  They share nothing, so a behaviour        *)
(* exercises one part and leaves the others at rest: the run is the sum of    *)
(* their state spaces.                                                      *)
(***************************************************************************)
EXTENDS SharedFeed, SpaceWeather, ElementGroups, CatalogMetadata, PlaceSearch

VARIABLE part

MCProviderParts == {"feed", "weather", "elements", "metadata", "places"}

(* One source may go longer without an observation than the other. *)
MCSources == <<"kp", "wind">>
MCMaxAge  == [s \in {"kp", "wind"} |-> IF s = "kp" THEN 2 ELSE 1]

providerVars == <<part, vars, weatherIngestVars, groupVars, metadataVars, searchVars>>

FeedRests     == UNCHANGED <<part, weatherIngestVars, groupVars, metadataVars, searchVars>>
WeatherRests  == UNCHANGED <<part, vars, groupVars, metadataVars, searchVars>>
GroupsRest    == UNCHANGED <<part, vars, weatherIngestVars, metadataVars, searchVars>>
MetadataRests == UNCHANGED <<part, vars, weatherIngestVars, groupVars, searchVars>>
SearchRests   == UNCHANGED <<part, vars, weatherIngestVars, groupVars, metadataVars>>

ProvidersInit ==
  /\ part \in MCProviderParts
  /\ Init /\ WeatherInit /\ GroupsInit /\ MetadataInit /\ SearchInit
ProvidersNext ==
  \/ part = "feed" /\ Next /\ FeedRests
  \/ part = "weather" /\ WeatherNext /\ WeatherRests
  \/ part = "elements" /\ GroupsNext /\ GroupsRest
  \/ part = "metadata" /\ MetadataNext /\ MetadataRests
  \/ part = "places" /\ SearchNext /\ SearchRests

(* The fairness of SharedFeed and of ElementGroups: a behaviour has one part, so  *)
(* the two share a condition.                                                   *)
TurnComes(v) == part = "feed" /\ (ReplyCached(v) \/ StartFetch(v)) /\ FeedRests
WorkGoesOn(v) ==
  \/ part = "feed" /\ FetchEnds(v) /\ FeedRests
  \/ part = "elements" /\ GroupsRun /\ GroupsRest
ProvidersFairness ==
  \A v \in Viewers : SF_providerVars(TurnComes(v)) /\ WF_providerVars(WorkGoesOn(v))
ProvidersSpec == ProvidersInit /\ [][ProvidersNext]_providerVars /\ ProvidersFairness

----
\* No provider is asked before its time, over restarts, failed writes, rejections
\* and viewers that wait for one another: see the parts in CatalogMetadata,
\* PlaceSearch and ElementGroups.
ProvidersSpared == SatcatSpaced /\ SearchesSpaced /\ []RejectedIsLeftAlone

\* What is passed on is current, whole, not withheld and bounded: see the parts in
\* SpaceWeather, CatalogMetadata and PlaceSearch.
ProvidersSound ==
  PublishedIsCurrent /\ [](TopicFollowsSources /\ MetadataWhole /\ CacheWithinSize)

\* Every viewer gets its answer and every group of satellites its turn: see the
\* parts in SharedFeed and ElementGroups.
EverythingIsServed == ViewerAnswered /\ EveryGroupHasItsTurn
=============================================================================
