----------------------------- MODULE SpaceTrack -----------------------------
(***************************************************************************)
(* The conjunction ingestion (src/backend/ingestion/spacetrack/main.go,    *)
(* conjunction_orbits.go): once a minute it decides whether to ask         *)
(* Space-Track for the current conjunction messages (CDMs) or to use those *)
(* in its cache file, publishes them as alerts, and publishes the orbital  *)
(* elements of their objects, which it looks up and caches in a second     *)
(* file. A login session is shared by both kinds of request.               *)
(*                                                                         *)
(* A CDM is the time of closest approach of its encounter, and stands for  *)
(* the encounter's objects too. Every step may be the last one before a    *)
(* crash. Time is a counter; requests and publications take some of it.    *)
(***************************************************************************)
EXTENDS Integers, FiniteSets

CONSTANTS
    Events,     \* times of closest approach
    Reuse,      \* life of both caches (8 h in the code)
    Backoff,    \* pause after a failed fetch (15 min in the code)
    MaxTime,    \* end of the clock (a bound)
    MaxFaults   \* failures and crashes (a bound)

ASSUME EventsAssumption == Events \subseteq Nat
ASSUME TimesAssumption == Reuse \in Nat /\ Backoff \in 1..Reuse
ASSUME BoundsAssumption == {MaxTime, MaxFaults} \subseteq Nat

VARIABLES
    now,
    pc,        \* where fetchAndPublish is; "idle" between polls, "off" if down
    step,      \* inside session.fetch: "login", "get", "relogin" or "reget"
    nextFetch,
    loggedIn,  \* session.loggedIn
    valid,     \* Space-Track accepts the session cookie
    got,       \* body and fetchedAt of this round
    fromCache,
    warnings,  \* parsed CDMs of this round
    left,      \* encounters whose objects are still to be looked up
    records,   \* encounters whose elements were found
    began,     \* when their lookup began
    cache,     \* cache file of CDMs
    orbits,    \* cache file of elements: encounters asked for, time, found
    alerts,    \* last feed on aurora.conjunctions.alerts
    elements,  \* encounters whose elements are on aurora.satellites.tle
    attempted, \* history: when this process last asked for CDMs, or Never
    lost,      \* history: fetch time of the last feed that Kafka refused, or Never
    faults

vars == <<now, pc, step, nextFetch, loggedIn, valid, got, fromCache, warnings, left,
          records, began, cache, orbits, alerts, elements, attempted, lost, faults>>
files == <<cache, orbits>>
topics == <<alerts, elements, lost>>
session == <<step, loggedIn, valid>>
round == <<got, fromCache, warnings, left, records, began>>

Never == -Reuse
NoFeed == [at |-> Never, body |-> {}]
NoOrbits == [key |-> {}, at |-> Never, found |-> {}]

Init ==
    /\ now = 0 /\ pc = "off" /\ step = "login"
    /\ nextFetch = 0 /\ loggedIn = FALSE /\ valid = FALSE
    /\ got = NoFeed /\ fromCache = FALSE
    /\ warnings = {} /\ left = {} /\ records = {} /\ began = 0
    /\ cache = NoFeed /\ orbits = NoOrbits
    /\ alerts = NoFeed /\ elements = {}
    /\ attempted = Never /\ lost = Never /\ faults = 0

Fault == faults < MaxFaults /\ faults' = faults + 1

Start ==
    /\ pc = "off"
    /\ pc' = "idle" /\ step' = "login"
    /\ nextFetch' = 0 /\ loggedIn' = FALSE /\ attempted' = Never
    /\ UNCHANGED <<now, valid, round, files, topics, faults>>

\* A crash, or the end of the session; only the files and topics remain.
Crash ==
    /\ pc # "off" /\ Fault
    /\ pc' = "off"
    /\ UNCHANGED <<now, nextFetch, session, round, files, topics, attempted>>

Tick ==
    /\ now < MaxTime
    /\ now' = now + 1
    /\ UNCHANGED <<pc, nextFetch, session, round, files, topics, attempted, faults>>

\* Space-Track ends the session.
Expire ==
    /\ valid
    /\ valid' = FALSE
    /\ UNCHANGED <<now, pc, step, nextFetch, loggedIn, round, files, topics, attempted, faults>>

Fresh == cache.at # Never /\ now - cache.at < Reuse

BeginFetch(where) ==
    /\ pc' = where
    /\ step' = IF loggedIn THEN "get" ELSE "login"

\* The minute's call of fetchAndPublish, up to its decision.
PollQuiet ==
    /\ pc = "idle" /\ now >= nextFetch
    /\ fromCache' = FALSE
    /\ IF Fresh
       THEN nextFetch' = cache.at + Reuse /\ UNCHANGED <<pc, step, attempted>>
       ELSE BeginFetch("cdm") /\ attempted' = now /\ UNCHANGED nextFetch
    /\ UNCHANGED <<now, loggedIn, valid, got, warnings, left, records, began, files, topics, faults>>

Poll ==
    /\ pc = "idle" /\ now >= nextFetch
    /\ fromCache' = Fresh
    /\ IF Fresh
       THEN pc' = "parse" /\ got' = cache /\ UNCHANGED <<step, attempted>>
       ELSE BeginFetch("cdm") /\ attempted' = now /\ UNCHANGED got
    /\ UNCHANGED <<now, nextFetch, loggedIn, valid, warnings, left, records, began, files,
                   topics, faults>>

-----------------------------------------------------------------------------
(* session.fetch, for the CDMs (pc = "cdm") and for elements (pc = "gp").  *)

Fetching == pc \in {"cdm", "gp"}

LoginSucceeds ==
    /\ Fetching /\ step \in {"login", "relogin"}
    /\ loggedIn' = TRUE /\ valid' = TRUE
    /\ step' = IF step = "login" THEN "get" ELSE "reget"
    /\ UNCHANGED <<now, pc, nextFetch, round, files, topics, attempted, faults>>

\* Variant: any 401 leads to a login and a retry.
\* HTTP 401 to the first request: log in again and retry once.
Unauthorized ==
    /\ Fetching /\ step = "get" /\ ~valid
    /\ loggedIn' = FALSE
    /\ step' = "relogin"
    /\ UNCHANGED <<now, pc, nextFetch, valid, round, files, topics, attempted, faults>>

\* Variants: no pause after a failure; the cache serves as a fallback.
FetchFailsHasty ==
    /\ Fetching /\ Fault
    /\ pc' = IF pc = "cdm" THEN "idle" ELSE "orbits"
    /\ UNCHANGED <<now, nextFetch, session, round, files, topics, attempted>>
FetchFailsToCache ==
    /\ Fetching /\ Fault
    /\ pc' = IF pc = "cdm" THEN "parse" ELSE "orbits"
    /\ fromCache' = TRUE
    /\ got' = IF pc = "cdm" THEN cache ELSE got
    /\ nextFetch' = IF pc = "cdm" THEN now + Backoff ELSE nextFetch
    /\ UNCHANGED <<now, session, warnings, left, records, began, files, topics, attempted>>

\* A failed login, a network error, a rate limit, any other status, or a second
\* 401: the round ends, or goes on with the elements found so far.
FetchFails ==
    /\ Fetching
    /\ \/ step = "reget" /\ ~valid /\ UNCHANGED faults
       \/ Fault
    /\ pc' = IF pc = "cdm" THEN "idle" ELSE "orbits"
    /\ nextFetch' = IF pc = "cdm" THEN now + Backoff ELSE nextFetch
    /\ UNCHANGED <<now, session, round, files, topics, attempted>>

FetchCDMs(body) ==
    /\ pc = "cdm" /\ step \in {"get", "reget"} /\ valid
    /\ got' = [at |-> now, body |-> body]
    /\ pc' = "parse"
    /\ UNCHANGED <<now, nextFetch, session, fromCache, warnings, left, records, began, files,
                   topics, attempted, faults>>

-----------------------------------------------------------------------------
(* The alerts.                                                             *)

\* Encounters that are over are dropped, also those of a cached body.
Parse ==
    /\ pc = "parse"
    /\ warnings' = {e \in got.body : e > now}
    /\ nextFetch' = got.at + Reuse
    /\ pc' = IF fromCache THEN "alert" ELSE "save"
    /\ UNCHANGED <<now, session, got, fromCache, left, records, began, files, topics,
                   attempted, faults>>

\* The reply was no list of CDMs.
ParseFails ==
    /\ pc = "parse" /\ ~fromCache /\ Fault
    /\ pc' = "idle"
    /\ nextFetch' = now + Backoff
    /\ UNCHANGED <<now, session, round, files, topics, attempted>>

\* A temporary file is written and renamed, so the cache is replaced whole.
Save ==
    /\ pc = "save"
    /\ cache' = got
    /\ pc' = "alert"
    /\ UNCHANGED <<now, nextFetch, session, round, orbits, topics, attempted, faults>>

\* No error of writing the file is reported.
SaveFails ==
    /\ pc = "save" /\ Fault
    /\ pc' = "alert"
    /\ UNCHANGED <<now, nextFetch, session, round, files, topics, attempted>>

Alert ==
    /\ pc = "alert"
    /\ alerts' = [at |-> got.at, body |-> warnings]
    /\ pc' = "lookup"
    /\ UNCHANGED <<now, nextFetch, session, round, files, elements, lost, attempted, faults>>

\* A failed publication is logged.
AlertFails ==
    /\ pc = "alert" /\ Fault
    /\ lost' = got.at
    /\ pc' = "lookup"
    /\ UNCHANGED <<now, nextFetch, session, round, files, alerts, elements, attempted>>

-----------------------------------------------------------------------------
(* The elements of the objects in the alerts.                              *)

OrbitsFresh == orbits.key = warnings /\ orbits.at <= now /\ now - orbits.at < Reuse

Lookup ==
    /\ pc = "lookup"
    /\ left' = warnings /\ began' = now
    /\ IF warnings = {} THEN pc' = "orbits" /\ records' = {} /\ UNCHANGED step
       ELSE IF OrbitsFresh THEN pc' = "orbits" /\ records' = orbits.found /\ UNCHANGED step
       ELSE BeginFetch("gp") /\ records' = {}
    /\ UNCHANGED <<now, nextFetch, loggedIn, valid, got, fromCache, warnings, files,
                   topics, attempted, faults>>

\* One request asks for a batch of objects; some have no public elements.
FetchElements(batch, found) ==
    /\ pc = "gp" /\ step \in {"get", "reget"} /\ valid
    /\ records' = records \cup found
    /\ left' = left \ batch
    /\ UNCHANGED began
    /\ IF left = batch THEN pc' = "keep" /\ UNCHANGED step ELSE BeginFetch("gp")
    /\ UNCHANGED <<now, nextFetch, loggedIn, valid, got, fromCache, warnings, files,
                   topics, attempted, faults>>

Keep ==
    /\ pc = "keep"
    /\ pc' = "orbits"
    /\ \/ orbits' = [key |-> warnings, at |-> began, found |-> records] /\ UNCHANGED faults
       \/ Fault /\ UNCHANGED orbits
    /\ UNCHANGED <<now, nextFetch, session, round, cache, topics, attempted>>

PublishElements ==
    /\ pc = "orbits"
    /\ pc' = "idle"
    /\ \/ elements' = elements \cup records /\ UNCHANGED faults
       \/ Fault /\ UNCHANGED elements
    /\ UNCHANGED <<now, nextFetch, session, round, files, alerts, lost, attempted>>

Work ==
    \/ Poll \/ LoginSucceeds \/ Unauthorized \/ FetchFails
    \/ \E body \in SUBSET Events : FetchCDMs(body)
    \/ Parse \/ ParseFails \/ Save \/ SaveFails \/ Alert \/ AlertFails
    \/ Lookup \/ Keep \/ PublishElements
    \/ \E batch \in SUBSET left \ {{}} : \E found \in SUBSET batch : FetchElements(batch, found)

Next ==
    \/ Start \/ Crash \/ Tick \/ Expire
    \/ Work

Spec == Init /\ [][Next]_vars

\* The service is started again and works on.
FairSpec == Spec /\ WF_vars(Start) /\ WF_vars(Work)

-----------------------------------------------------------------------------
(* Properties.                                                             *)

\* The variables are typed; no time stamp lies in the future.
TypeOK ==
    /\ now \in 0..MaxTime /\ faults \in 0..MaxFaults
    /\ pc \in {"off", "idle", "cdm", "parse", "save", "alert", "lookup", "gp", "keep", "orbits"}
    /\ step \in {"login", "get", "relogin", "reget"}
    /\ nextFetch \in 0..(now + Reuse)
    /\ {loggedIn, valid, fromCache} \subseteq BOOLEAN
    /\ {got, cache, alerts} \subseteq [at : {Never} \cup 0..now, body : SUBSET Events]
    /\ orbits \in [key : SUBSET Events, at : {Never} \cup 0..now, found : SUBSET Events]
    /\ warnings \subseteq Events /\ left \subseteq Events
    /\ records \subseteq Events /\ began \in 0..now /\ elements \subseteq Events
    /\ {attempted, lost} \subseteq {Never} \cup 0..now

\* The alerts never go back to CDMs fetched earlier than those that viewers
\* already have, through crashes between any two steps and although a failed
\* write may leave an older cache file behind.
AlertsNeverOlder == [][alerts'.at >= alerts.at]_vars

\* Space-Track is asked for CDMs only when the cache file is 8 hours old, also
\* right after a restart, and by one process not twice within 15 minutes.
CDMRequestsSpaced ==
    [][pc = "idle" /\ pc' = "cdm" =>
          /\ now - cache.at >= Reuse
          /\ attempted = Never \/ now - attempted >= Backoff]_vars

\* What was fetched gets on: a request that the session's expiry keeps refusing
\* still ends (session.fetch logs in and retries once, then gives up), and CDMs
\* that were cached before a crash are published after it unless they are
\* outdated by then or Kafka refuses them, not withheld until the next fetch.
FetchedGetsPublished ==
    /\ Fetching ~> ~Fetching
    /\ cache.at > alerts.at ~> cache.at \in {alerts.at, lost} \/ now - cache.at >= Reuse
=============================================================================
