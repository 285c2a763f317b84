-------------------------- MODULE SpaceTrackProofs --------------------------
(***************************************************************************)
(* Proofs about SpaceTrack, for any encounters, lives of the caches, times *)
(* and numbers of failures and crashes: the alerts never go back, and      *)
(* Space-Track is not asked for CDMs before its time.                      *)
(*                                                                         *)
(* A failed write leaves a cache file behind that is older than the alerts,*)
(* but a fetch began only when that file was outdated (Outdated), and time *)
(* does not make it fresh again: what is read from the file is as new as   *)
(* the alerts (Newer). The pause after a request is in nextFetch as soon   *)
(* as the round is past its parsing (Paused).                              *)
(***************************************************************************)
EXTENDS SpaceTrack, TLAPS

Stamps == {Never} \cup 0..now

\* The part of the typing that the argument needs.
Timed ==
    /\ now \in Nat /\ nextFetch \in Nat
    /\ got.at \in Stamps /\ cache.at \in Stamps /\ alerts.at \in Stamps
    /\ attempted \in Stamps

OutdatedFile == now - cache.at >= Reuse

\* CDMs are fetched, and carried on, only while the cache file is outdated; what
\* was read from the file, or saved to it, is in it.
Outdated ==
    /\ pc = "cdm" => OutdatedFile
    /\ pc \in {"parse", "save", "alert"} => got.at = cache.at \/ OutdatedFile

\* What a round is about to publish is as new as the alerts, and so is the file
\* unless it is outdated.
Newer ==
    /\ pc \in {"parse", "save", "alert"} => alerts.at <= got.at
    /\ alerts.at <= cache.at \/ OutdatedFile

\* The next request is put off before the round ends.
Paused ==
    attempted # Never =>
        /\ pc = "parse" => got.at + Reuse >= attempted + Backoff
        /\ pc \notin {"off", "cdm", "parse"} => nextFetch >= attempted + Backoff

TrackInv == Timed /\ Outdated /\ Newer /\ Paused

USE DEF Timed, Stamps, Outdated, OutdatedFile, Newer, Paused, Never

LEMMA InitInv == Init => TrackInv
  BY TimesAssumption DEF Init, TrackInv, NoFeed

LEMMA PollKeeps == ASSUME TrackInv, Poll PROVE TrackInv'
<1>1. CASE Fresh
  BY <1>1, TimesAssumption DEF TrackInv, Poll, Fresh, files, topics
<1>2. CASE ~Fresh
  BY <1>2, TimesAssumption DEF TrackInv, Poll, Fresh, BeginFetch, files, topics
<1>3. QED
  BY <1>1, <1>2

\* session.fetch and what is done with its replies.
LEMMA FetchKeeps ==
    ASSUME TrackInv,
           \/ LoginSucceeds \/ Unauthorized \/ FetchFails
           \/ \E body \in SUBSET Events : FetchCDMs(body)
           \/ \E batch \in SUBSET left \ {{}} : \E found \in SUBSET batch : FetchElements(batch, found)
    PROVE  TrackInv'
<1>1. CASE LoginSucceeds \/ Unauthorized
  BY <1>1, TimesAssumption DEF TrackInv, LoginSucceeds, Unauthorized, round, files, topics
<1>2. CASE FetchFails
  BY <1>2, TimesAssumption DEF TrackInv, FetchFails, Fetching, session, round, files, topics
<1>3. ASSUME NEW body, FetchCDMs(body) PROVE TrackInv'
  BY <1>3, TimesAssumption DEF TrackInv, FetchCDMs, session, files, topics
<1>4. ASSUME NEW batch, NEW found, FetchElements(batch, found) PROVE TrackInv'
  BY <1>4, TimesAssumption DEF TrackInv, FetchElements, BeginFetch, files, topics
<1>5. QED
  BY <1>1, <1>2, <1>3, <1>4

\* From the CDMs to the elements of their objects.
LEMMA RoundKeeps ==
    ASSUME TrackInv,
           \/ Parse \/ ParseFails \/ Save \/ SaveFails \/ Alert \/ AlertFails
           \/ Lookup \/ Keep \/ PublishElements
    PROVE  TrackInv'
<1>1. CASE Parse
  BY <1>1, TimesAssumption DEF TrackInv, Parse, session, files, topics
<1>2. CASE ParseFails
  BY <1>2, TimesAssumption DEF TrackInv, ParseFails, session, round, files, topics
<1>3. CASE Save \/ SaveFails
  BY <1>3, TimesAssumption DEF TrackInv, Save, SaveFails, session, round, files, topics
<1>4. CASE Alert \/ AlertFails
  BY <1>4, TimesAssumption DEF TrackInv, Alert, AlertFails, session, round, files
<1>5. CASE Lookup
  BY <1>5, TimesAssumption DEF TrackInv, Lookup, BeginFetch, files, topics
<1>6. CASE Keep \/ PublishElements
  BY <1>6, TimesAssumption DEF TrackInv, Keep, PublishElements, session, round, files, topics
<1>7. QED
  BY <1>1, <1>2, <1>3, <1>4, <1>5, <1>6

LEMMA NextInv == TrackInv /\ [Next]_vars => TrackInv'
<1> SUFFICES ASSUME TrackInv, [Next]_vars PROVE TrackInv'
  OBVIOUS
<1>1. CASE Start \/ Crash \/ Tick \/ Expire
  BY <1>1, TimesAssumption DEF TrackInv, Start, Crash, Tick, Expire, session, round, files, topics
<1>2. CASE Work
  BY <1>2, PollKeeps, FetchKeeps, RoundKeeps DEF Work
<1>3. CASE UNCHANGED vars
  BY <1>3 DEF TrackInv, vars
<1>4. QED
  BY <1>1, <1>2, <1>3 DEF Next

LEMMA Invariance == Spec => []TrackInv
  BY InitInv, NextInv, PTL DEF Spec

-----------------------------------------------------------------------------
(* Theorems.                                                               *)

\* Every variable of the ingestion stays in its range: in particular no time stamp
\* lies in the future, and the next request is never put off beyond the life of
\* the caches.
THEOREM TrackTypeCorrect == Spec => []TypeOK
<1>1. Init => TypeOK
  <2>1. Init => {loggedIn, valid, fromCache} \subseteq BOOLEAN
    BY Zenon DEF Init
  <2>2. QED
    BY <2>1, TimesAssumption, BoundsAssumption DEF Init, TypeOK, NoFeed, NoOrbits
<1>2. TypeOK /\ [Next]_vars => TypeOK'
  <2> SUFFICES ASSUME TypeOK, [Next]_vars PROVE TypeOK'
    OBVIOUS
  <2> USE TimesAssumption, BoundsAssumption
      DEF TypeOK, Fault, BeginFetch, session, round, files, topics
  <2>1. CASE Start
    <3>1. {loggedIn', valid', fromCache'} \subseteq BOOLEAN
      BY <2>1, Zenon DEF Start
    <3>2. QED
      BY <2>1, <3>1 DEF Start
  <2>2. CASE Crash
    BY <2>2 DEF Crash
  <2>3. CASE Tick
    BY <2>3 DEF Tick
  <2>4. CASE Expire
    BY <2>4 DEF Expire
  <2>5. CASE Poll
    <3>1. Fresh \in BOOLEAN
      BY Zenon DEF Fresh
    <3>2. {loggedIn', valid', fromCache'} \subseteq BOOLEAN
      BY <2>5, <3>1, Zenon DEF Poll
    <3>3. nextFetch' = nextFetch /\ pc' \in {"parse", "cdm"} /\ step' \in {step, "get", "login"}
          /\ (got' = cache \/ got' = got) /\ attempted' \in {now, attempted}
      BY <2>5, Zenon DEF Poll
    <3>4. QED
      BY <2>5, <3>2, <3>3 DEF Poll
  <2>6. CASE LoginSucceeds
    <3>1. {loggedIn', valid', fromCache'} \subseteq BOOLEAN
      BY <2>6, Zenon DEF LoginSucceeds
    <3>2. QED
      BY <2>6, <3>1 DEF LoginSucceeds
  <2>7. CASE Unauthorized
    BY <2>7 DEF Unauthorized
  <2>8. CASE FetchFails
    BY <2>8 DEF FetchFails
  <2>9. ASSUME NEW body \in SUBSET Events, FetchCDMs(body) PROVE TypeOK'
    BY <2>9 DEF FetchCDMs
  <2>10. CASE Parse
    BY <2>10 DEF Parse
  <2>11. CASE ParseFails
    BY <2>11 DEF ParseFails
  <2>12. CASE Save \/ SaveFails
    BY <2>12 DEF Save, SaveFails
  <2>13. CASE Alert \/ AlertFails
    BY <2>13 DEF Alert, AlertFails
  <2>14. CASE Lookup
    BY <2>14 DEF Lookup
  <2>15. ASSUME NEW batch \in SUBSET left \ {{}}, NEW found \in SUBSET batch, FetchElements(batch, found)
         PROVE  TypeOK'
    BY <2>15 DEF FetchElements
  <2>16. CASE Keep
    BY <2>16 DEF Keep
  <2>17. CASE PublishElements
    BY <2>17 DEF PublishElements
  <2>18. CASE UNCHANGED vars
    BY <2>18 DEF vars
  <2>19. QED
    BY <2>1, <2>2, <2>3, <2>4, <2>5, <2>6, <2>7, <2>8, <2>9, <2>10, <2>11, <2>12, <2>13, <2>14,
       <2>15, <2>16, <2>17, <2>18 DEF Next, Work
<1>3. QED
  BY <1>1, <1>2, PTL DEF Spec

\* No crash, failed write or failed publication of fetchAndPublish takes the
\* alerts back to CDMs that were fetched earlier.
THEOREM AlertsNeverGoBack == Spec => AlertsNeverOlder
<1>1. TrackInv /\ [Next]_vars => [alerts'.at >= alerts.at]_vars
  <2> SUFFICES ASSUME TrackInv, Next PROVE alerts'.at >= alerts.at
    BY DEF vars
  <2>1. CASE Alert
    BY <2>1, TimesAssumption DEF TrackInv, Alert
  <2>2. CASE alerts' = alerts
    BY <2>2, TimesAssumption DEF TrackInv
  <2>3. QED
    BY <2>1, <2>2 DEF Next, Work, Start, Crash, Tick, Expire, Poll, LoginSucceeds, Unauthorized,
          FetchFails, FetchCDMs, Parse, ParseFails, Save, SaveFails, AlertFails, Lookup, Keep,
          PublishElements, FetchElements, topics
<1>2. QED
  BY <1>1, Invariance, PTL DEF Spec, AlertsNeverOlder

\* Space-Track is asked for CDMs only when the cache file is outdated, also after a
\* restart, and not twice within the pause after a failure.
THEOREM RequestsForCDMsSpaced == Spec => CDMRequestsSpaced
<1>1. TrackInv /\ [Next]_vars
        => [pc = "idle" /\ pc' = "cdm" =>
              /\ now - cache.at >= Reuse
              /\ attempted = Never \/ now - attempted >= Backoff]_vars
  <2> SUFFICES ASSUME TrackInv, Next, pc = "idle", pc' = "cdm"
               PROVE  /\ now - cache.at >= Reuse
                      /\ attempted = Never \/ now - attempted >= Backoff
    BY DEF vars
  <2>1. Poll
    BY DEF Next, Work, Start, Crash, Tick, Expire, LoginSucceeds, Unauthorized, FetchFails, Fetching,
           FetchCDMs, Parse, ParseFails, Save, SaveFails, Alert, AlertFails, Lookup, Keep,
           PublishElements, FetchElements
  <2>2. now >= nextFetch /\ ~Fresh
    BY <2>1 DEF Poll
  <2>3. QED
    BY <2>2, TimesAssumption DEF TrackInv, Fresh
<1>2. QED
  BY <1>1, Invariance, PTL DEF Spec, CDMRequestsSpaced
=============================================================================
