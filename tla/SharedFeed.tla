----------------------------- MODULE SharedFeed -----------------------------
(***************************************************************************)
(* The gateway's proxied provider feeds (src/backend/gateway/aerospace.go, *)
(* rocket_telemetry.go): a bounded map from region, route or mission to a  *)
(* feed object, each with a cached body, a retry time and a mutex that is  *)
(* held across the upstream request, so that viewers share one request.    *)
(*                                                                         *)
(* Time is a counter. A feed object is a number; the map forgets objects,  *)
(* viewers that hold or wait for one do not.                               *)
(***************************************************************************)
EXTENDS Integers, FiniteSets

CONSTANTS
    Viewers,    \* concurrent HTTP requests
    Keys,       \* regions, callsigns or missions
    Capacity,   \* size of the map (64, 256 or 32 in the code)
    TTL,        \* time to live of a feed
    Timeout,    \* time after which the HTTP client gives a request up
    Delays,     \* values of Retry-After, 0 for none
    MaxObjects, \* feed objects ever created (a bound)
    MaxTime     \* end of the clock (a bound)

ASSUME KeysAssumption == Keys # {}
ASSUME CapacityAssumption == Capacity \in Nat \ {0}
ASSUME TimesAssumption ==
    /\ {TTL, Timeout} \subseteq Nat \ {0} /\ Delays \subseteq Nat
    /\ {MaxObjects, MaxTime} \subseteq Nat /\ TTL <= MaxTime

VARIABLES
    now,
    feeds,     \* the map: object of each key, 0 for none
    objects,   \* number of objects created
    attempted, \* per object: time of the last upstream request, 0 for never
    retryAt,   \* per object: time before which the provider asked not to retry
    holder,    \* per object: the viewers that hold its mutex
    vpc,       \* per viewer: "idle", "wait" or "fetch"
    vkey,      \* per viewer: key asked for
    vfeed,     \* per viewer: feed object found
    lastStart, \* history: per key, when the last upstream request began
    askedUntil,\* history: per key, until when its provider asked us to wait
    forgotten  \* history: keys whose feed the full map has deleted

vars == <<now, feeds, objects, attempted, retryAt, holder, vpc, vkey, vfeed,
          lastStart, askedUntil, forgotten>>

Objects == 1..MaxObjects

\* The clock starts a TTL after the time 0 of a feed that was never fetched.
Init ==
    /\ now = TTL
    /\ feeds = [k \in Keys |-> 0] /\ objects = 0
    /\ attempted = [o \in Objects |-> 0]
    /\ retryAt = [o \in Objects |-> 0]
    /\ holder = [o \in Objects |-> {}]
    /\ vpc = [v \in Viewers |-> "idle"]
    /\ vkey \in [Viewers -> {CHOOSE k \in Keys : TRUE}]
    /\ vfeed = [v \in Viewers |-> 0]
    /\ lastStart = [k \in Keys |-> 0] /\ askedUntil = [k \in Keys |-> 0]
    /\ forgotten = {}

Cached == {k \in Keys : feeds[k] # 0}

Enter(v, k, o) ==
    /\ vpc' = [vpc EXCEPT ![v] = "wait"]
    /\ vkey' = [vkey EXCEPT ![v] = k]
    /\ vfeed' = [vfeed EXCEPT ![v] = o]
    /\ UNCHANGED <<now, attempted, retryAt, holder, lastStart, askedUntil>>

FindFeed(v, k) ==
    /\ vpc[v] = "idle"
    /\ feeds[k] # 0
    /\ Enter(v, k, feeds[k])
    /\ UNCHANGED <<feeds, objects, forgotten>>

\* A full map forgets any of its keys for the new one.
CreateFeed(v, k) ==
    /\ vpc[v] = "idle"
    /\ feeds[k] = 0
    /\ objects < MaxObjects
    /\ objects' = objects + 1
    /\ \/ /\ Cardinality(Cached) < Capacity
          /\ feeds' = [feeds EXCEPT ![k] = objects + 1]
          /\ UNCHANGED forgotten
       \/ /\ Cardinality(Cached) >= Capacity
          /\ \E old \in Cached :
                /\ feeds' = [feeds EXCEPT ![old] = 0, ![k] = objects + 1]
                /\ forgotten' = forgotten \cup {old}
    /\ Enter(v, k, objects + 1)

\* Variants: the retry time is forgotten; a failure is retried at once.
DueIgnoringRetryAt(o) == now - attempted[o] >= TTL
DueIgnoringTTL(o) == now >= retryAt[o]

Due(o) == now - attempted[o] >= TTL /\ now >= retryAt[o]

Leave(v) ==
    /\ vpc' = [vpc EXCEPT ![v] = "idle"]
    /\ UNCHANGED <<now, feeds, objects, vkey, vfeed, lastStart, forgotten>>

\* The mutex is free and the feed is not due: reply from the cache.
ReplyCached(v) ==
    LET o == vfeed[v]
    IN  /\ vpc[v] = "wait" /\ holder[o] = {} /\ ~Due(o)
        /\ Leave(v)
        /\ UNCHANGED <<attempted, retryAt, holder, askedUntil>>

StartFetch(v) ==
    LET o == vfeed[v]
    IN  /\ vpc[v] = "wait" /\ holder[o] = {} /\ Due(o)
        /\ holder' = [holder EXCEPT ![o] = {v}]
        /\ attempted' = [attempted EXCEPT ![o] = now]
        /\ vpc' = [vpc EXCEPT ![v] = "fetch"]
        /\ lastStart' = [lastStart EXCEPT ![vkey[v]] = now]
        /\ UNCHANGED <<now, feeds, objects, retryAt, vkey, vfeed, askedUntil, forgotten>>

\* A valid response; the retry time is cleared.
Succeed(v) ==
    LET o == vfeed[v]
    IN  /\ vpc[v] = "fetch"
        /\ retryAt' = [retryAt EXCEPT ![o] = 0]
        /\ holder' = [holder EXCEPT ![o] = @ \ {v}]
        /\ Leave(v)
        /\ UNCHANGED <<attempted, askedUntil>>

\* Any other response; a Retry-After of 0 or none sets the zero time.
Refuse(v, delay) ==
    LET o == vfeed[v]
        until == IF delay > 0 THEN now + delay ELSE 0
    IN  /\ vpc[v] = "fetch"
        /\ retryAt' = [retryAt EXCEPT ![o] = until]
        /\ askedUntil' = [askedUntil EXCEPT ![vkey[v]] = until]
        /\ holder' = [holder EXCEPT ![o] = @ \ {v}]
        /\ Leave(v)
        /\ UNCHANGED attempted

\* Variant: the error path leaves the mutex locked.
FetchFailsLocked(v) ==
    /\ vpc[v] = "fetch"
    /\ Leave(v)
    /\ UNCHANGED <<attempted, retryAt, holder, askedUntil>>

\* A network error, the client's timeout, or the fetching viewer's disconnect,
\* whose context the request carries.
FetchFails(v) ==
    LET o == vfeed[v]
    IN  /\ vpc[v] = "fetch"
        /\ holder' = [holder EXCEPT ![o] = @ \ {v}]
        /\ Leave(v)
        /\ UNCHANGED <<attempted, retryAt, askedUntil>>

Tick ==
    /\ now < MaxTime
    /\ \A v \in Viewers : vpc[v] = "fetch" => now - attempted[vfeed[v]] < Timeout
    /\ now' = now + 1
    /\ UNCHANGED <<feeds, objects, attempted, retryAt, holder, vpc, vkey, vfeed,
                   lastStart, askedUntil, forgotten>>

FetchEnds(v) == Succeed(v) \/ FetchFails(v) \/ \E d \in Delays : Refuse(v, d)

Next ==
    \/ \E v \in Viewers :
          \/ \E k \in Keys : FindFeed(v, k) \/ CreateFeed(v, k)
          \/ ReplyCached(v) \/ StartFetch(v) \/ FetchEnds(v)
    \/ Tick

Spec == Init /\ [][Next]_vars

\* Every request ends within the client's timeout, and Go's mutex is handed to
\* a waiter that has waited long, so a waiter gets it in spite of newcomers.
Fairness ==
    \A v \in Viewers :
        /\ SF_vars(ReplyCached(v) \/ StartFetch(v))
        /\ WF_vars(FetchEnds(v))

FairSpec == Spec /\ Fairness

-----------------------------------------------------------------------------
(* Properties.                                                             *)

\* The variables are typed and the map stays within its capacity.
TypeOK ==
    /\ now \in TTL..MaxTime
    /\ feeds \in [Keys -> 0..objects] /\ objects \in 0..MaxObjects
    /\ Cardinality(Cached) <= Capacity
    /\ attempted \in [Objects -> 0..now]
    /\ retryAt \in [Objects -> Nat]
    /\ holder \in [Objects -> SUBSET Viewers]
    /\ vpc \in [Viewers -> {"idle", "wait", "fetch"}]
    /\ vkey \in [Viewers -> Keys]
    /\ \A v \in Viewers : vfeed[v] \in 0..objects /\ (vpc[v] # "idle" => vfeed[v] > 0)

\* Feeds that the map has held since they were first asked for.
Kept == Keys \ forgotten

Fetching(k) == {v \in Viewers : vpc[v] = "fetch" /\ vkey[v] = k}

\* Viewers that ask for the same feed at the same time share one request, as
\* long as the full map has not deleted it under them.
OneRequestInFlight == \A k \in Kept : Cardinality(Fetching(k)) <= 1

\* However many viewers ask, and however the requests end, the requests for a
\* feed the map keeps begin at least a TTL apart.
RequestsSpaced ==
    [][\A k \in Kept : lastStart'[k] # lastStart[k] =>
          lastStart[k] = 0 \/ lastStart'[k] - lastStart[k] >= TTL]_vars

\* No request for a feed the map keeps is made before the time its provider
\* last asked to wait until, also when other viewers' requests failed or were
\* answered in between.
RetryAfterHonored ==
    [][\A k \in Kept : lastStart'[k] # lastStart[k] => lastStart'[k] >= askedUntil[k]]_vars

\* A viewer never waits forever behind others, although the mutex is held
\* across requests that may time out and the map may forget the feed.
ViewerAnswered ==
    \A v \in Viewers : vpc[v] = "wait" ~> vpc[v] = "idle"
=============================================================================
