-------------------------- MODULE ProvidersProofs --------------------------
(***************************************************************************)
(* Proofs about the parts that ask providers, for any viewers, sources,    *)
(* groups, capacities and times.                                           *)
(*                                                                         *)
(* SharedFeed: as long as the map keeps a feed, its requests are made one  *)
(* at a time, a TTL apart, and not before the provider's Retry-After. All  *)
(* viewers of a kept feed hold the same object (Agree), a fetching viewer  *)
(* holds that object's mutex alone (Mutex), and the object's times are     *)
(* those of the feed's own history (Times).                                *)
(*                                                                         *)
(* The others follow, at the end of the module, from invariants that tie   *)
(* what a process remembers to what happened.                              *)
(***************************************************************************)
EXTENDS MCProviders, FiniteSetTheorems, TLAPS

\* The part of the typing that the argument needs.
Typed ==
    /\ now \in Nat
    /\ objects \in 0..MaxObjects
    /\ feeds \in [Keys -> 0..objects]
    /\ attempted \in [Objects -> Nat]
    /\ retryAt \in [Objects -> Nat]
    /\ holder \in [Objects -> SUBSET Viewers]
    /\ vpc \in [Viewers -> {"idle", "wait", "fetch"}]
    /\ vkey \in [Viewers -> Keys]
    /\ vfeed \in [Viewers -> 0..objects]
    /\ lastStart \in [Keys -> Nat]
    /\ askedUntil \in [Keys -> Nat]
    /\ forgotten \subseteq Keys
    /\ \A v \in Viewers : vpc[v] # "idle" => vfeed[v] \in Objects

\* Who waits for a kept feed or fetches it has the object in the map.
Agree ==
    \A v \in Viewers :
        vpc[v] # "idle" /\ vkey[v] \in Kept => vfeed[v] = feeds[vkey[v]]

\* A request is made by the only holder of its object's mutex, and nobody else
\* holds a mutex.
Mutex ==
    /\ \A v \in Viewers : vpc[v] = "fetch" => holder[vfeed[v]] = {v}
    /\ \A o \in Objects, v \in Viewers :
          v \in holder[o] => vpc[v] = "fetch" /\ vfeed[v] = o

\* The object of a kept feed has seen every request and every refusal of it.
Times ==
    \A k \in Kept :
        /\ feeds[k] = 0 => lastStart[k] = 0 /\ askedUntil[k] = 0
        /\ feeds[k] # 0 =>
              /\ lastStart[k] = attempted[feeds[k]]
              /\ askedUntil[k] <= now \/ askedUntil[k] = retryAt[feeds[k]]
        /\ \A v \in Viewers :
              vpc[v] = "fetch" /\ vkey[v] = k => askedUntil[k] <= now

\* An object is of one key, for the map and for the viewers.
Owned ==
    /\ \A j, k \in Keys : feeds[j] # 0 /\ feeds[j] = feeds[k] => j = k
    /\ \A v \in Viewers, k \in Keys :
          vpc[v] # "idle" /\ feeds[k] # 0 /\ vfeed[v] = feeds[k] => vkey[v] = k

\* Objects to come were never used.
Fresh == \A o \in Objects : o > objects => attempted[o] = 0

IInv == Typed /\ Agree /\ Mutex /\ Owned /\ Fresh /\ Times

LEMMA InitInv == Init => IInv
<1> SUFFICES ASSUME Init PROVE IInv
  OBVIOUS
<1>1. (CHOOSE k \in Keys : TRUE) \in Keys
  BY KeysAssumption
<1>2. Typed
  BY <1>1, TimesAssumption DEF Init, Typed, Objects
<1>3. Times
  BY DEF Init, Times, Kept
<1>4. QED
  BY <1>2, <1>3 DEF Init, IInv, Agree, Mutex, Owned, Fresh, Kept

\* Asking for a feed the map has.
LEMMA FindFeedInv ==
    ASSUME IInv, NEW v \in Viewers, NEW k \in Keys, FindFeed(v, k) PROVE IInv'
<1>0. feeds[k] \in Objects
  BY TimesAssumption DEF IInv, Typed, FindFeed, Objects
<1>1. Typed'
  BY <1>0 DEF IInv, Typed, FindFeed, Enter
<1>2. Agree' /\ Owned'
  BY DEF IInv, Typed, Agree, Owned, FindFeed, Enter, Kept
<1>3. Mutex'
  BY DEF IInv, Typed, Mutex, FindFeed, Enter
<1>4. Fresh' /\ Times'
  BY DEF IInv, Typed, Fresh, Times, FindFeed, Enter, Kept
<1>5. QED
  BY <1>1, <1>2, <1>3, <1>4 DEF IInv

\* Asking for one it has not; the full map forgets another.
LEMMA CreateFeedInv ==
    ASSUME IInv, NEW v \in Viewers, NEW k \in Keys, CreateFeed(v, k) PROVE IInv'
<1> DEFINE o == objects + 1
<1>1. /\ o \in Objects /\ objects' = o
      /\ vpc[v] = "idle" /\ feeds[k] = 0
      /\ Enter(v, k, o)
  BY TimesAssumption DEF IInv, Typed, CreateFeed, Objects
<1>2. /\ feeds' \in [Keys -> 0..o]
      /\ feeds'[k] = o
      /\ \A j \in Keys \ {k} : feeds'[j] = feeds[j] \/ (feeds'[j] = 0 /\ j \in forgotten')
      /\ forgotten \subseteq forgotten' /\ forgotten' \subseteq Keys
      /\ k \in forgotten' => k \in forgotten
  <2>1. CASE feeds' = [feeds EXCEPT ![k] = o] /\ UNCHANGED forgotten
    BY <2>1 DEF IInv, Typed
  <2>2. ASSUME NEW old \in Cached,
               feeds' = [feeds EXCEPT ![old] = 0, ![k] = o],
               forgotten' = forgotten \cup {old}
        PROVE  /\ feeds' \in [Keys -> 0..o]
               /\ feeds'[k] = o
               /\ \A j \in Keys \ {k} : feeds'[j] = feeds[j] \/ (feeds'[j] = 0 /\ j \in forgotten')
               /\ forgotten \subseteq forgotten' /\ forgotten' \subseteq Keys
               /\ k \in forgotten' => k \in forgotten
    BY <1>1, <2>2 DEF IInv, Typed, Cached
  <2>3. QED
    BY <2>1, <2>2 DEF CreateFeed
<1>3. Typed'
  BY <1>1, <1>2 DEF IInv, Typed, Enter, Objects
<1>4. \A w \in Viewers : vpc[w] # "idle" => vfeed[w] \in 0..objects
  BY DEF IInv, Typed
<1>5. Agree'
  BY <1>1, <1>2, <1>4 DEF IInv, Typed, Agree, Enter, Kept, Objects
<1>6. Owned'
  BY <1>1, <1>2, <1>4 DEF IInv, Typed, Owned, Enter
<1>7. Mutex'
  BY <1>1 DEF IInv, Typed, Mutex, Enter
<1>8. Fresh'
  BY <1>1, TimesAssumption DEF IInv, Typed, Fresh, Enter, Objects
<1>9. Times'
  BY <1>1, <1>2 DEF IInv, Typed, Times, Fresh, Enter, Kept
<1>10. QED
  BY <1>3, <1>5, <1>6, <1>7, <1>8, <1>9 DEF IInv

\* The end of a request frees the mutex it held, and no other.
LEMMA ReleaseMutex ==
    ASSUME Typed, Mutex, NEW v \in Viewers, vpc[v] = "fetch", Leave(v),
           holder' = [holder EXCEPT ![vfeed[v]] = @ \ {v}]
    PROVE  Mutex'
<1> DEFINE o == vfeed[v]
<1>1. o \in Objects /\ holder[o] = {v}
  BY DEF Typed, Mutex
<1>2. holder'[o] = {} /\ \A p \in Objects \ {o} : holder'[p] = holder[p]
  BY <1>1 DEF Typed
<1>3. ASSUME NEW w \in Viewers \ {v}, vpc[w] = "fetch"
      PROVE  vfeed[w] \in Objects /\ vfeed[w] # o
  <2>1. vfeed[w] \in Objects /\ holder[vfeed[w]] = {w}
    BY <1>3 DEF Typed, Mutex
  <2>2. QED
    BY <1>1, <2>1
<1>4. /\ vfeed' = vfeed /\ vpc'[v] = "idle"
      /\ \A w \in Viewers \ {v} : vpc'[w] = vpc[w]
  BY DEF Typed, Leave
<1>5. \A w \in Viewers : vpc'[w] = "fetch" => holder'[vfeed'[w]] = {w}
  BY <1>2, <1>3, <1>4 DEF Mutex
<1>6. ASSUME NEW p \in Objects, NEW w \in Viewers, w \in holder'[p]
      PROVE  vpc'[w] = "fetch" /\ vfeed'[w] = p
  <2>1. p # o /\ w \in holder[p]
    BY <1>2, <1>6
  <2>2. vpc[w] = "fetch" /\ vfeed[w] = p
    BY <2>1 DEF Mutex
  <2>3. QED
    BY <1>4, <2>1, <2>2
<1>7. QED
  BY <1>5, <1>6 DEF Mutex

\* Replying from the cache, and ends of requests that leave no trace.
LEMMA LeaveInv ==
    ASSUME IInv, NEW v \in Viewers, ReplyCached(v) \/ FetchFails(v) PROVE IInv'
<1> DEFINE o == vfeed[v]
<1>1. /\ o \in Objects /\ vpc[v] # "idle" /\ Leave(v)
      /\ UNCHANGED <<attempted, retryAt, askedUntil>>
      /\ \/ vpc[v] = "wait" /\ holder[o] = {} /\ holder' = holder
         \/ vpc[v] = "fetch" /\ holder' = [holder EXCEPT ![o] = @ \ {v}]
  BY DEF IInv, Typed, ReplyCached, FetchFails, Leave
<1>2. Typed'
  BY <1>1 DEF IInv, Typed, Leave, Objects
<1>3. Agree' /\ Owned'
  BY <1>1 DEF IInv, Typed, Agree, Owned, Leave, Kept
<1>4. Mutex'
  <2>1. CASE vpc[v] = "wait" /\ holder' = holder
    BY <1>1, <2>1 DEF IInv, Typed, Mutex, Leave
  <2>2. CASE vpc[v] = "fetch" /\ holder' = [holder EXCEPT ![o] = @ \ {v}]
    BY <1>1, <2>2, ReleaseMutex DEF IInv
  <2>3. QED
    BY <1>1, <2>1, <2>2
<1>5. Fresh' /\ Times'
  BY <1>1 DEF IInv, Typed, Fresh, Times, Leave, Kept
<1>6. QED
  BY <1>2, <1>3, <1>4, <1>5 DEF IInv

\* The viewer that gets the mutex of a feed that is due begins its request.
LEMMA StartFetchInv ==
    ASSUME IInv, NEW v \in Viewers, StartFetch(v) PROVE IInv'
<1> DEFINE o == vfeed[v]
           k == vkey[v]
<1>1. /\ o \in Objects /\ k \in Keys /\ o <= objects
      /\ vpc[v] = "wait" /\ holder[o] = {} /\ now >= retryAt[o]
  BY DEF IInv, Typed, StartFetch, Due, Objects
<1>2. Typed'
  BY <1>1 DEF IInv, Typed, StartFetch, Objects
<1>3. Agree' /\ Owned'
  BY DEF IInv, Typed, Agree, Owned, StartFetch, Kept
<1>4. Mutex'
  BY <1>1 DEF IInv, Typed, Mutex, StartFetch, Objects
<1>5. Fresh'
  BY <1>1, TimesAssumption DEF IInv, Typed, Fresh, StartFetch, Objects
<1>6. ASSUME NEW j \in Kept' PROVE
        /\ feeds'[j] = 0 => lastStart'[j] = 0 /\ askedUntil'[j] = 0
        /\ feeds'[j] # 0 =>
              /\ lastStart'[j] = attempted'[feeds'[j]]
              /\ askedUntil'[j] <= now' \/ askedUntil'[j] = retryAt'[feeds'[j]]
        /\ \A w \in Viewers : vpc'[w] = "fetch" /\ vkey'[w] = j => askedUntil'[j] <= now'
  <2>1. j \in Kept /\ j \in Keys
    BY DEF StartFetch, Kept
  <2>2. CASE j = k
    <3>1. feeds[j] = o /\ feeds[j] # 0
      BY <1>1, <2>1, <2>2 DEF IInv, Agree, Objects
    <3>2. askedUntil[j] <= now
      BY <1>1, <2>1, <3>1 DEF IInv, Times
    <3>3. lastStart'[j] = now /\ attempted'[o] = now
      BY <1>1, <2>2 DEF IInv, Typed, StartFetch
    <3>4. QED
      BY <3>1, <3>2, <3>3 DEF StartFetch
  <2>3. CASE j # k
    <3>1. feeds[j] # 0 => feeds[j] # o
      BY <1>1, <2>1, <2>3 DEF IInv, Owned
    <3>2. lastStart'[j] = lastStart[j] /\ (feeds[j] # 0 => attempted'[feeds[j]] = attempted[feeds[j]])
      BY <1>1, <2>1, <2>3, <3>1, TimesAssumption DEF IInv, Typed, StartFetch, Objects
    <3>3. \A w \in Viewers : vpc'[w] = "fetch" /\ vkey'[w] = j => vpc[w] = "fetch" /\ vkey[w] = j
      BY <2>3 DEF IInv, Typed, StartFetch
    <3>4. QED
      BY <2>1, <3>2, <3>3 DEF IInv, Times, StartFetch
  <2>4. QED
    BY <2>2, <2>3
<1>7. Times'
  BY <1>6 DEF Times
<1>8. QED
  BY <1>2, <1>3, <1>4, <1>5, <1>7 DEF IInv

\* An answer clears the retry time, a refusal sets it; the request began after
\* the last one.
LEMMA AnswerInv ==
    ASSUME IInv, NEW v \in Viewers, NEW until \in Nat,
           vpc[v] = "fetch", Leave(v), UNCHANGED attempted,
           retryAt' = [retryAt EXCEPT ![vfeed[v]] = until],
           holder' = [holder EXCEPT ![vfeed[v]] = @ \ {v}],
           askedUntil' \in {askedUntil, [askedUntil EXCEPT ![vkey[v]] = until]}
    PROVE  IInv'
<1> DEFINE o == vfeed[v]
           k == vkey[v]
<1>1. o \in Objects /\ k \in Keys
  BY DEF IInv, Typed
<1>2. Typed'
  BY <1>1 DEF IInv, Typed, Leave
<1>3. Agree' /\ Owned'
  BY DEF IInv, Typed, Agree, Owned, Leave, Kept
<1>4. Mutex'
  BY ReleaseMutex DEF IInv
<1>5. Fresh'
  BY DEF IInv, Fresh, Leave
<1>6. ASSUME NEW j \in Kept' PROVE
        /\ feeds'[j] = 0 => lastStart'[j] = 0 /\ askedUntil'[j] = 0
        /\ feeds'[j] # 0 =>
              /\ lastStart'[j] = attempted'[feeds'[j]]
              /\ askedUntil'[j] <= now' \/ askedUntil'[j] = retryAt'[feeds'[j]]
        /\ \A w \in Viewers : vpc'[w] = "fetch" /\ vkey'[w] = j => askedUntil'[j] <= now'
  <2>1. j \in Kept /\ j \in Keys /\ feeds' = feeds /\ now' = now /\ vkey' = vkey
    BY DEF Leave, Kept
  <2>2. CASE j = k
    <3>1. feeds[j] = o /\ feeds[j] # 0
      BY <1>1, <2>1, <2>2 DEF IInv, Agree, Objects
    <3>2. askedUntil[j] <= now
      BY <2>1, <2>2 DEF IInv, Times
    <3>3. askedUntil'[j] \in {askedUntil[j], until} /\ retryAt'[o] = until
      BY <1>1, <2>2 DEF IInv, Typed
    <3>4. \A w \in Viewers : vkey'[w] = j => vpc'[w] # "fetch"
      <4>1. SUFFICES ASSUME NEW w \in Viewers \ {v}, vkey[w] = j, vpc[w] = "fetch" PROVE FALSE
        BY <2>1 DEF IInv, Typed, Leave
      <4>2. vfeed[w] = o
        BY <2>1, <3>1, <4>1 DEF IInv, Agree
      <4>3. QED
        BY <4>1, <4>2 DEF IInv, Mutex
    <3>5. QED
      BY <2>1, <3>1, <3>2, <3>3, <3>4 DEF IInv, Times, Leave
  <2>3. CASE j # k
    <3>1. feeds[j] # 0 => feeds[j] # o
      BY <2>1, <2>3 DEF IInv, Owned
    <3>2. /\ askedUntil'[j] = askedUntil[j]
          /\ feeds[j] # 0 => retryAt'[feeds[j]] = retryAt[feeds[j]]
      BY <1>1, <2>1, <2>3, <3>1, TimesAssumption DEF IInv, Typed, Objects
    <3>3. \A w \in Viewers : vpc'[w] = "fetch" => vpc[w] = "fetch"
      BY DEF IInv, Typed, Leave
    <3>4. QED
      BY <2>1, <3>2, <3>3 DEF IInv, Times, Leave
  <2>4. QED
    BY <2>2, <2>3
<1>7. Times'
  BY <1>6 DEF Times
<1>8. QED
  BY <1>2, <1>3, <1>4, <1>5, <1>7 DEF IInv

LEMMA NextInv == IInv /\ [Next]_vars => IInv'
<1> SUFFICES ASSUME IInv, [Next]_vars PROVE IInv'
  OBVIOUS
<1>1. ASSUME NEW v \in Viewers, NEW k \in Keys, FindFeed(v, k) \/ CreateFeed(v, k) PROVE IInv'
  BY <1>1, FindFeedInv, CreateFeedInv
<1>2. ASSUME NEW v \in Viewers, ReplyCached(v) \/ FetchFails(v) PROVE IInv'
  BY <1>2, LeaveInv
<1>3. ASSUME NEW v \in Viewers, StartFetch(v) PROVE IInv'
  BY <1>3, StartFetchInv
<1>4. ASSUME NEW v \in Viewers, Succeed(v) PROVE IInv'
  BY <1>4, AnswerInv DEF Succeed
<1>5. ASSUME NEW v \in Viewers, NEW d \in Delays, Refuse(v, d) PROVE IInv'
  <2>1. (IF d > 0 THEN now + d ELSE 0) \in Nat
    BY TimesAssumption DEF IInv, Typed
  <2>2. QED
    BY <1>5, <2>1, AnswerInv DEF Refuse
<1>6. CASE Tick
  <2>1. now' \in Nat /\ now <= now'
    BY <1>6 DEF IInv, Typed, Tick
  <2>2. Typed' /\ Agree' /\ Mutex' /\ Owned' /\ Fresh'
    BY <1>6, <2>1 DEF IInv, Typed, Agree, Mutex, Owned, Fresh, Tick, Kept
  <2>3. Times'
    BY <1>6, <2>1 DEF IInv, Typed, Times, Tick, Kept
  <2>4. QED
    BY <2>2, <2>3 DEF IInv
<1>7. CASE UNCHANGED vars
  BY <1>7 DEF IInv, Typed, Agree, Mutex, Owned, Fresh, Times, Kept, vars
<1>8. QED
  BY <1>1, <1>2, <1>3, <1>4, <1>5, <1>6, <1>7 DEF Next, FetchEnds

LEMMA Invariance == Spec => []IInv
  BY InitInv, NextInv, PTL DEF Spec

\* A bounded set that gives up an element for the one it takes keeps its bound.
LEMMA OneInOneOut ==
    ASSUME NEW S, NEW T, NEW g, NEW q, NEW n \in Nat, n > 0,
           IsFiniteSet(S), Cardinality(S) <= n,
           g \in S \/ Cardinality(S) < n,
           T \subseteq (S \ {g}) \cup {q}
    PROVE  IsFiniteSet(T) /\ Cardinality(T) <= n
<1>1. Cardinality(S) \in Nat
  BY FS_CardinalityType
<1>2. PICK R : R = S \ {g}
  OBVIOUS
<1>3. IsFiniteSet(R) /\ Cardinality(R) = IF g \in S THEN Cardinality(S) - 1 ELSE Cardinality(S)
  BY <1>2, FS_RemoveElement
<1>4. Cardinality(R) \in Nat
  BY <1>3, FS_CardinalityType
<1>5. Cardinality(R) < n
  BY <1>1, <1>3, <1>4
<1>6. PICK U : U = R \cup {q}
  OBVIOUS
<1>7. IsFiniteSet(U) /\ Cardinality(U) = IF q \in R THEN Cardinality(R) ELSE Cardinality(R) + 1
  BY <1>3, <1>6, FS_AddElement
<1>8. Cardinality(U) <= n
  BY <1>4, <1>5, <1>7
<1>9. T \in SUBSET U
  BY <1>2, <1>6
<1>10. IsFiniteSet(T) /\ Cardinality(T) <= Cardinality(U)
  BY <1>7, <1>9, FS_Subset
<1>11. Cardinality(T) \in Nat /\ Cardinality(U) \in Nat
  BY <1>7, <1>10, FS_CardinalityType
<1>12. QED
  BY <1>8, <1>10, <1>11

\* The feeds of aerospace.go are typed, and the map never holds more of them than
\* its capacity: a full one forgets a feed for the one it takes.
THEOREM FeedTypeCorrect == Spec => []TypeOK
<1> DEFINE Bounded == /\ now \in TTL..MaxTime /\ \A o \in Objects : attempted[o] <= now
                      /\ IsFiniteSet(Cached) /\ Cardinality(Cached) <= Capacity
<1>1. Init => Bounded
  <2> SUFFICES ASSUME Init PROVE Bounded
    OBVIOUS
  <2>1. Cached = {}
    BY DEF Init, Cached
  <2>2. QED
    BY <2>1, FS_EmptySet, TimesAssumption, CapacityAssumption DEF Init
<1>2. IInv /\ Bounded /\ [Next]_vars => Bounded'
  <2> SUFFICES ASSUME IInv, Bounded, [Next]_vars PROVE Bounded'
    OBVIOUS
  <2>1. now' \in TTL..MaxTime /\ \A o \in Objects : attempted'[o] <= now'
    <3>1. CASE Tick
      BY <3>1, TimesAssumption DEF Tick, IInv, Typed
    <3>2. ASSUME NEW v \in Viewers, StartFetch(v)
          PROVE  now' \in TTL..MaxTime /\ \A o \in Objects : attempted'[o] <= now'
      BY <3>2, TimesAssumption DEF StartFetch, IInv, Typed
    <3>3. CASE UNCHANGED <<now, attempted>>
      BY <3>3
    <3>4. QED
      BY <3>1, <3>2, <3>3 DEF Next, FindFeed, CreateFeed, Enter, ReplyCached, Leave, FetchEnds,
                              Succeed, Refuse, FetchFails, vars
  <2>2. IsFiniteSet(Cached') /\ Cardinality(Cached') <= Capacity
    <3>1. CASE UNCHANGED feeds
      BY <3>1 DEF Cached
    <3>2. ASSUME NEW v \in Viewers, NEW k \in Keys, CreateFeed(v, k)
          PROVE  IsFiniteSet(Cached') /\ Cardinality(Cached') <= Capacity
      <4>1. Cardinality(Cached) \in Nat /\ Capacity \in Nat /\ Capacity > 0
        BY FS_CardinalityType, CapacityAssumption
      <4>2. feeds \in [Keys -> 0..objects]
        BY DEF IInv, Typed
      <4>3. CASE Cardinality(Cached) < Capacity /\ feeds' = [feeds EXCEPT ![k] = objects + 1]
        <5>1. Cached' \subseteq (Cached \ {k}) \cup {k}
          BY <4>2, <4>3 DEF Cached
        <5>2. QED
          BY <4>1, <4>3, <5>1, OneInOneOut
      <4>4. ASSUME NEW old \in Cached, feeds' = [feeds EXCEPT ![old] = 0, ![k] = objects + 1]
            PROVE  IsFiniteSet(Cached') /\ Cardinality(Cached') <= Capacity
        <5>1. Cached' \subseteq (Cached \ {old}) \cup {k}
          BY <4>2, <4>4 DEF Cached
        <5>2. QED
          BY <4>1, <5>1, OneInOneOut
      <4>5. QED
        BY <3>2, <4>3, <4>4 DEF CreateFeed
    <3>3. QED
      BY <3>1, <3>2 DEF Next, FindFeed, ReplyCached, StartFetch, Leave, FetchEnds, Succeed, Refuse,
                        FetchFails, Tick, vars
  <2>3. QED
    BY <2>1, <2>2
<1>3. IInv /\ Bounded => TypeOK
  BY TimesAssumption DEF IInv, Typed, TypeOK, Objects
<1>4. QED
  BY <1>1, <1>2, <1>3, Invariance, PTL DEF Spec

\* Of the viewers of a feed in aerospace.go at most one asks the provider, as
\* long as the map keeps the feed.
THEOREM FeedOneRequest == Spec => []OneRequestInFlight
<1>1. IInv => OneRequestInFlight
  <2>1. SUFFICES ASSUME IInv, NEW k \in Kept PROVE Cardinality(Fetching(k)) <= 1
    BY DEF OneRequestInFlight
  <2>2. ASSUME NEW v \in Fetching(k), NEW w \in Fetching(k) PROVE v = w
    <3>1. vfeed[v] = feeds[k] /\ vfeed[w] = feeds[k]
      BY <2>1, <2>2 DEF IInv, Fetching, Agree
    <3>2. holder[vfeed[v]] = {v} /\ holder[vfeed[w]] = {w}
      BY <2>1, <2>2 DEF IInv, Fetching, Mutex
    <3>3. QED
      BY <3>1, <3>2
  <2>3. CASE Fetching(k) = {}
    BY <2>3, FS_EmptySet
  <2>4. ASSUME NEW v \in Fetching(k) PROVE Cardinality(Fetching(k)) <= 1
    <3>1. Fetching(k) = {v}
      BY <2>2, <2>4
    <3>2. QED
      BY <3>1, FS_Singleton
  <2>5. QED
    BY <2>3, <2>4
<1>2. QED
  BY <1>1, Invariance, PTL

\* A request of a kept feed finds the feed due.
LEMMA StartIsDue ==
    ASSUME IInv, [Next]_vars, NEW k \in Kept, lastStart'[k] # lastStart[k]
    PROVE  /\ lastStart'[k] = now
           /\ lastStart[k] = 0 \/ now - lastStart[k] >= TTL
           /\ now >= askedUntil[k]
<1>1. PICK v \in Viewers : StartFetch(v) /\ vkey[v] = k
  BY DEF IInv, Typed, Next, FindFeed, CreateFeed, Enter, ReplyCached, StartFetch, FetchEnds,
         Succeed, Refuse, FetchFails, Leave, Tick, vars, Kept
<1>2. vfeed[v] = feeds[k] /\ feeds[k] # 0
  BY <1>1, TimesAssumption DEF IInv, Typed, Agree, StartFetch, Objects
<1>3. lastStart'[k] = now /\ Due(feeds[k])
  BY <1>1, <1>2 DEF IInv, Typed, StartFetch
<1>4. QED
  BY <1>2, <1>3 DEF IInv, Times, Due

\* The requests of a kept feed begin at least its TTL apart.
THEOREM FeedRequestsSpaced == Spec => RequestsSpaced
<1>1. IInv /\ [Next]_vars =>
        [\A k \in Kept : lastStart'[k] # lastStart[k] =>
            lastStart[k] = 0 \/ lastStart'[k] - lastStart[k] >= TTL]_vars
  BY StartIsDue
<1>2. QED
  BY <1>1, Invariance, PTL DEF Spec, RequestsSpaced

\* A kept feed is not requested before its provider's Retry-After.
THEOREM FeedRetryAfter == Spec => RetryAfterHonored
<1>1. IInv /\ [Next]_vars =>
        [\A k \in Kept : lastStart'[k] # lastStart[k] => lastStart'[k] >= askedUntil[k]]_vars
  BY StartIsDue
<1>2. QED
  BY <1>1, Invariance, PTL DEF Spec, RetryAfterHonored

-----------------------------------------------------------------------------
(* PlaceSearch.                                                            *)

\* The handler remembers when the provider was last asked.
SearchInv ==
    /\ second \in Nat /\ asked \in {NotYet} \cup 0..second
    /\ lastAttempt = asked

\* Two requests for places are a second apart, however long viewers waited for
\* the mutex.
THEOREM PlaceSearchesSpaced == SearchSpec => SearchesSpaced
<1>1. SearchInit => SearchInv
  BY DEF SearchInit, SearchInv
<1>2. SearchInv /\ [SearchNext]_searchVars => SearchInv'
  <2> SUFFICES ASSUME SearchInv, [SearchNext]_searchVars PROVE SearchInv'
    OBVIOUS
  <2>1. CASE UNCHANGED searchVars
    BY <2>1 DEF SearchInv, searchVars
  <2>2. CASE SecondPasses
    BY <2>2 DEF SearchInv, SecondPasses, NotYet
  <2>3. ASSUME NEW s \in Searchers, SearchStep(s) PROVE SearchInv'
    <3>1. CASE HandleSearch(s)
      BY <3>1 DEF SearchInv, HandleSearch, Handle, Answer, NotYet
    <3>2. CASE ProviderFinds(s) \/ ProviderFails(s)
      BY <3>2 DEF SearchInv, ProviderFinds, ProviderFails
    <3>3. QED
      BY <2>3, <3>1, <3>2 DEF SearchStep
  <2>4. ASSUME NEW s \in Searchers, NEW q \in Queries, Search(s, q) PROVE SearchInv'
    BY <2>4 DEF SearchInv, Search
  <2>5. QED
    BY <2>1, <2>2, <2>3, <2>4 DEF SearchNext
<1>3. SearchInv /\ [SearchNext]_searchVars
        => [asking = NoSearcher /\ asking' # NoSearcher
              => asked = NotYet \/ second - asked >= 1]_searchVars
  <2> SUFFICES ASSUME SearchInv, SearchNext, asking = NoSearcher, asking' # NoSearcher
               PROVE  asked = NotYet \/ second - asked >= 1
    BY DEF searchVars
  <2>1. PICK s \in Searchers : HandleSearch(s)
    BY DEF SearchNext, SecondPasses, Search, SearchStep, ProviderFinds, ProviderFails
  <2>2. QED
    BY <2>1 DEF SearchInv, HandleSearch, Handle, Answer, NotYet
<1>4. QED
  BY <1>1, <1>2, <1>3, PTL DEF SearchSpec, SearchesSpaced

\* The cache of places keeps to its size.
THEOREM PlaceCacheBounded == SearchSpec => []CacheWithinSize
<1> DEFINE Bounded == IsFiniteSet(KeptAnswers) /\ CacheWithinSize
<1>1. SearchInit => Bounded
  <2> SUFFICES ASSUME SearchInit PROVE Bounded
    OBVIOUS
  <2>1. KeptAnswers = {}
    BY DEF SearchInit, KeptAnswers
  <2>2. QED
    BY <2>1, FS_EmptySet, SearchAssumption DEF CacheWithinSize
<1>2. Bounded /\ [SearchNext]_searchVars => Bounded'
  <2> SUFFICES ASSUME Bounded, [SearchNext]_searchVars PROVE Bounded'
    OBVIOUS
  <2>1. CASE UNCHANGED places
    BY <2>1 DEF KeptAnswers, CacheWithinSize
  <2>2. ASSUME NEW s \in Searchers, ProviderFinds(s) PROVE Bounded'
    <3>1. PICK given \in IF Cardinality(KeptAnswers) >= CacheSize THEN KeptAnswers ELSE {NoQuery} :
            places' = [q \in Queries |->
              IF q = query[s] THEN lastAttempt + CacheLife ELSE IF q = given THEN 0 ELSE places[q]]
      BY <2>2 DEF ProviderFinds
    <3>2. KeptAnswers' \subseteq (KeptAnswers \ {given}) \cup {query[s]}
      BY <3>1 DEF KeptAnswers
    <3>3. given \in KeptAnswers \/ Cardinality(KeptAnswers) < CacheSize
      BY <3>1, FS_CardinalityType, SearchAssumption
    <3>4. IsFiniteSet(KeptAnswers') /\ Cardinality(KeptAnswers') <= CacheSize
      BY <3>2, <3>3, OneInOneOut, SearchAssumption DEF CacheWithinSize
    <3>5. QED
      BY <3>4 DEF CacheWithinSize
  <2>3. QED
    BY <2>1, <2>2 DEF SearchNext, SearchStep, SecondPasses, Search, HandleSearch, Handle, Answer,
                      ProviderFails, searchVars
<1>3. QED
  BY <1>1, <1>2, PTL DEF SearchSpec

-----------------------------------------------------------------------------
(* CatalogMetadata.                                                        *)

\* What is in memory and in the file are whole tables, no newer than the time of
\* their download that goes with them; what is being written is the table in memory.
MetadataInv ==
    /\ hour \in 0..MaxHours
    /\ accepted \in Nat \cup {NoTable}
    /\ table \in Nat \cup {NoTable} /\ file.table \in Nat \cup {NoTable}
    /\ fetchedAt \in 0..hour \cup {NoTable} /\ file.at \in 0..hour \cup {NoTable}
    /\ table <= fetchedAt /\ file.table <= file.at
    /\ table = NoTable <=> fetchedAt = NoTable
    /\ file = [table |-> file.table, at |-> file.at] /\ (file.table = NoTable <=> file.at = NoTable)
    /\ metadata = "written" =>
          temporary = [table |-> table, at |-> temporary.at] /\ temporary.at \in fetchedAt..hour
    /\ metadata \in {"saving", "writing", "written"} => table # NoTable
    /\ metadata # "down" => file.table <= fetchedAt

LEMMA MetadataInductive ==
    ASSUME MetadataInv, [MetadataNext]_metadataVars PROVE MetadataInv'
<1>1. CASE UNCHANGED metadataVars
  BY <1>1 DEF MetadataInv, metadataVars
<1>2. CASE StartEngine
  BY <1>2 DEF MetadataInv, StartEngine, NoTable, Torn
<1>3. CASE StopEngine \/ TickTaken \/ Refresh \/ DownloadFails \/ SaveTableFails
  BY <1>3 DEF MetadataInv, StopEngine, TickTaken, Refresh, DownloadFails, SaveTableFails, RefreshEnds, tableVars, NoTable
<1>4. CASE HourPasses
  BY <1>4, MetadataAssumption DEF MetadataInv, HourPasses, tableVars, NoTable
<1>5. CASE Download
  BY <1>5 DEF MetadataInv, Download, NoTable
<1>6. CASE BeginSave \/ EndSave
  BY <1>6 DEF MetadataInv, BeginSave, EndSave, Written, tableVars, NoTable
<1>7. CASE RenameFile
  BY <1>7 DEF MetadataInv, RenameFile, RefreshEnds, NoFile, tableVars, NoTable
<1>8. QED
  BY <1>1, <1>2, <1>3, <1>4, <1>5, <1>6, <1>7 DEF MetadataNext

LEMMA MetadataBegins == MetadataInit => MetadataInv
  BY MetadataAssumption DEF MetadataInit, MetadataInv, NoFile, NoTable

\* Objects are enriched with whole tables only.
THEOREM MetadataIsWhole == MetadataSpec => []MetadataWhole
<1>1. MetadataInv => MetadataWhole
  BY MetadataAssumption DEF MetadataInv, MetadataWhole, Tables, NoTable
<1>2. QED
  BY <1>1, MetadataBegins, MetadataInductive, PTL DEF MetadataSpec

\* A table that was saved or is in memory is not downloaded again within a day.
THEOREM MetadataDownloadsSpaced == MetadataSpec => SatcatSpaced
<1>1. MetadataInv /\ [MetadataNext]_metadataVars
        => [metadata = "due" /\ metadata' = "asking" =>
              accepted \notin {table, file.table} \/ Outdated(accepted)]_metadataVars
  <2> SUFFICES ASSUME MetadataInv, MetadataNext, metadata = "due", metadata' = "asking",
                      accepted \in {table, file.table}
               PROVE  Outdated(accepted)
    OBVIOUS
  <2>1. Refresh /\ Outdated(fetchedAt)
    BY DEF MetadataNext, StartEngine, StopEngine, HourPasses, TickTaken, Refresh, RefreshEnds, DownloadFails,
           Download, SaveTableFails, BeginSave, EndSave, RenameFile
  <2>2. accepted <= fetchedAt
    BY DEF MetadataInv
  <2>3. QED
    BY <2>1, <2>2, MetadataAssumption DEF MetadataInv, Outdated, NoTable
<1>2. QED
  BY <1>1, MetadataBegins, MetadataInductive, PTL DEF MetadataSpec, SatcatSpaced

-----------------------------------------------------------------------------
(* SpaceWeather.                                                           *)

\* Before the first publication, what was observed is news; after it, what is no
\* news was published or refused.
WeatherInv ==
    /\ clockW \in Nat /\ phase \in 0..Running /\ dirty \in BOOLEAN
    /\ observed \in [Feeds -> Int]
    /\ phase \in DOMAIN Sources /\ ~dirty => observed = NoWeather
    /\ TopicFollowsSources

LEMMA FetchedTyped ==
    ASSUME WeatherInv, NEW s \in Feeds, NEW usable \in BOOLEAN, Fetched(s, usable)
    PROVE  observed' \in [Feeds -> Int] /\ (~usable => observed' = observed)
  BY WeatherAssumption DEF WeatherInv, Fetched

LEMMA WeatherUnobserved ==
    /\ NoWeather \in [Feeds -> Int]
    /\ Running \in Nat /\ 0 \in 0..Running /\ 1 \in 0..Running
    /\ \A n \in DOMAIN Sources : n \in 1..Running /\ n # Running
  BY WeatherAssumption DEF NoWeather, Unobserved, Running

LEMMA WeatherBegins == WeatherInit => WeatherInv
<1>1. Running # 0
  BY WeatherAssumption DEF Running
<1> SUFFICES ASSUME WeatherInit PROVE WeatherInv
  OBVIOUS
<1>3. /\ clockW \in Nat /\ phase \in 0..Running /\ phase # Running
      /\ observed = NoWeather /\ observed \in [Feeds -> Int]
  <2>1. clockW = 0 /\ phase = 0 /\ observed = NoWeather
    BY DEF WeatherInit
  <2>2. QED
    BY <2>1, <1>1, WeatherUnobserved
<1>4. dirty \in BOOLEAN
  BY DEF WeatherInit
<1>5. TopicFollowsSources
  BY <1>3 DEF TopicFollowsSources
<1>6. QED
  BY <1>3, <1>4, <1>5 DEF WeatherInv

LEMMA WeatherInductive ==
    ASSUME WeatherInv, [WeatherNext]_weatherIngestVars PROVE WeatherInv'
<1>1. CASE UNCHANGED weatherIngestVars
  BY <1>1 DEF WeatherInv, weatherIngestVars, TopicFollowsSources
<1>2. CASE StartWeather
  BY <1>2, WeatherUnobserved DEF WeatherInv, StartWeather, TopicFollowsSources
<1>3. CASE StopWeather \/ WeatherAges
  BY <1>3, WeatherAssumption DEF WeatherInv, StopWeather, WeatherAges, Running, TopicFollowsSources
<1>4. CASE FetchInitially
  <2>1. PICK usable \in BOOLEAN :
          /\ Fetched(Sources[phase], usable)
          /\ IF phase' = Running THEN PublishIfDirty(observed', dirty \/ usable)
             ELSE dirty' = (dirty \/ usable) /\ UNCHANGED <<topicW, refusedW>>
    BY <1>4 DEF FetchInitially
  <2>2. Sources[phase] \in Feeds /\ phase' \in 1..Running /\ phase' # 0
    BY <1>4, WeatherAssumption DEF FetchInitially, Feeds, Running, ToSet
  <2>3. observed' \in [Feeds -> Int] /\ (~usable => observed' = observed)
    BY <2>1, <2>2, FetchedTyped
  <2>4. clockW' \in Nat /\ (~dirty => observed = NoWeather)
    BY <1>4 DEF FetchInitially, WeatherInv
  <2>5. dirty' \in BOOLEAN
    BY <2>1 DEF PublishIfDirty, WeatherInv
  <2>6. phase' # Running /\ ~dirty' => observed' = NoWeather
    BY <2>1, <2>3, <2>4
  <2>7. TopicFollowsSources'
    BY <2>1, <2>3, <2>4 DEF TopicFollowsSources, PublishIfDirty, NoWeather, Running
  <2>8. phase' \in DOMAIN Sources => phase' # Running
    BY WeatherAssumption DEF Running
  <2>9. QED
    BY <2>2, <2>3, <2>4, <2>5, <2>6, <2>7, <2>8, WeatherAssumption DEF WeatherInv, NoWeather, Running
<1>5. ASSUME NEW s \in Feeds, FetchOnTick(s) PROVE WeatherInv'
  <2>1. PICK usable \in BOOLEAN :
          Fetched(s, usable) /\ PublishIfDirty(observed', dirty \/ usable)
    BY <1>5 DEF FetchOnTick
  <2>2. observed' \in [Feeds -> Int] /\ (~usable => observed' = observed)
    BY <2>1, FetchedTyped
  <2>3. dirty' \in BOOLEAN
    BY <2>1 DEF PublishIfDirty, WeatherInv
  <2>4. phase' = phase /\ phase = Running /\ clockW' = clockW
    BY <1>5 DEF FetchOnTick
  <2>5. TopicFollowsSources'
    BY <2>1, <2>2, <2>4 DEF WeatherInv, TopicFollowsSources, PublishIfDirty, NoWeather, Running
  <2>6. phase' \notin DOMAIN Sources
    BY <2>4, WeatherAssumption DEF Running
  <2>7. QED
    BY <2>2, <2>3, <2>4, <2>5, <2>6 DEF WeatherInv, Running
<1>6. QED
  BY <1>1, <1>2, <1>3, <1>4, <1>5 DEF WeatherNext

\* No news is withheld from the topic.
THEOREM WeatherTopicFollows == WeatherSpec => []TopicFollowsSources
<1>1. WeatherInv => TopicFollowsSources
  BY DEF WeatherInv
<1>2. QED
  BY <1>1, WeatherBegins, WeatherInductive, PTL DEF WeatherSpec

\* Readings are ready only if each source's observation is within its age.
LEMMA ReadyIsCurrent ==
    ASSUME clockW \in Nat, NEW readings \in [Feeds -> Int], Ready(readings), NEW s \in Feeds
    PROVE  readings[s] # Unobserved /\ readings[s] \in (clockW - MaxAge[s])..(clockW + Ahead)
<1>1. MaxAge[s] \in Nat /\ Ahead \in Nat
  BY WeatherAssumption DEF Feeds
<1>2. QED
  BY <1>1 DEF Ready, Current

\* What is published has a current observation of every source.
THEOREM WeatherIsCurrent == WeatherSpec => PublishedIsCurrent
<1>1. WeatherInv /\ [WeatherNext]_weatherIngestVars
        => [topicW' # topicW =>
              \A s \in Feeds :
                topicW'[s] # Unobserved
                  /\ topicW'[s] \in (clockW - MaxAge[s])..(clockW + Ahead)]_weatherIngestVars
  <2> SUFFICES ASSUME WeatherInv, WeatherNext, topicW' # topicW, NEW s \in Feeds
               PROVE  topicW'[s] # Unobserved
                        /\ topicW'[s] \in (clockW - MaxAge[s])..(clockW + Ahead)
    OBVIOUS
  <2>1. PICK t \in Feeds, usable \in BOOLEAN :
          Fetched(t, usable) /\ PublishIfDirty(observed', dirty \/ usable)
    <3>1. CASE FetchInitially
      <4>1. Sources[phase] \in Feeds
        BY <3>1, WeatherAssumption DEF FetchInitially, Feeds, ToSet
      <4>2. QED
        BY <3>1, <4>1 DEF FetchInitially
    <3>2. CASE \E t \in Feeds : FetchOnTick(t)
      BY <3>2 DEF FetchOnTick
    <3>3. QED
      BY <3>1, <3>2 DEF WeatherNext, StartWeather, StopWeather, WeatherAges
  <2>2. observed' \in [Feeds -> Int]
    BY <2>1, FetchedTyped
  <2>3. topicW' = observed' /\ Ready(observed')
    BY <2>1 DEF PublishIfDirty
  <2>4. QED
    BY <2>2, <2>3, ReadyIsCurrent DEF WeatherInv
<1>2. QED
  BY <1>1, WeatherBegins, WeatherInductive, PTL DEF WeatherSpec, PublishedIsCurrent

-----------------------------------------------------------------------------
(* ElementGroups.                                                          *)

\* The groups that were rejected in a round are behind it; only a round has batches
\* to write.
GroupsInv ==
    /\ group \in 0..Groups
    /\ refusing \subseteq Nat
    /\ group # Between => \A g \in refusing : g < group
    /\ batches \in Nat /\ (batches > 0 => group # Between)

\* A rejected request is not repeated in its round.
THEOREM RejectedNotRepeated ==
    GroupsInit /\ [][GroupsNext]_groupVars => []RejectedIsLeftAlone
<1>1. GroupsInit => GroupsInv
  BY GroupsAssumption DEF GroupsInit, GroupsInv, Between
<1>2. GroupsInv /\ [GroupsNext]_groupVars => GroupsInv'
  <2> SUFFICES ASSUME GroupsInv, [GroupsNext]_groupVars PROVE GroupsInv'
    OBVIOUS
  <2>1. CASE UNCHANGED groupVars \/ TwoHoursPass
    BY <2>1 DEF GroupsInv, groupVars, TwoHoursPass
  <2>2. CASE LaunchIngestion \/ RoundOnTick
    BY <2>2, GroupsAssumption DEF GroupsInv, LaunchIngestion, RoundOnTick, BeginRound
  <2>3. ASSUME group # Between, NextGroup, UNCHANGED refusing PROVE GroupsInv'
    BY <2>3, GroupsAssumption DEF GroupsInv, NextGroup, Between
  <2>4. ASSUME group # Between, batches' \in Nat, UNCHANGED <<group, refusing>> PROVE GroupsInv'
    BY <2>4 DEF GroupsInv
  <2>5. CASE RequestFails
    BY <2>3, <2>4, <2>5 DEF GroupsInv, RequestFails, Requesting
  <2>6. CASE RequestAnswered
    BY <2>3, <2>4, <2>6, GroupsAssumption DEF RequestAnswered, Requesting
  <2>7. CASE BatchWritten \/ BatchRefused
    BY <2>3, <2>4, <2>7 DEF GroupsInv, BatchWritten, BatchRefused
  <2>8. CASE RequestRejected
    BY <2>8, GroupsAssumption DEF GroupsInv, RequestRejected, Requesting, NextGroup, Between
  <2>9. QED
    BY <2>1, <2>2, <2>5, <2>6, <2>7, <2>8 DEF GroupsNext, GroupWork
<1>3. GroupsInv => RejectedIsLeftAlone
  BY DEF GroupsInv, RejectedIsLeftAlone, Requesting
<1>4. QED
  BY <1>1, <1>2, <1>3, PTL

-----------------------------------------------------------------------------
(* The sum of the parts.                                                   *)

\* A step of the sum is a step of each part, or leaves it alone.
LEMMA StepOfParts ==
    ASSUME [ProvidersNext]_providerVars
    PROVE  /\ [SearchNext]_searchVars /\ [MetadataNext]_metadataVars
           /\ [WeatherNext]_weatherIngestVars /\ [GroupsNext]_groupVars
  BY DEF ProvidersNext, providerVars, FeedRests, WeatherRests, GroupsRest, MetadataRests, SearchRests

\* So every part of the sum behaves as specified.
LEMMA SumOfParts ==
    ProvidersSpec => /\ SearchSpec /\ MetadataSpec /\ WeatherSpec
                     /\ GroupsInit /\ [][GroupsNext]_groupVars
<1>1. ProvidersInit => SearchInit /\ MetadataInit /\ WeatherInit /\ GroupsInit
  BY DEF ProvidersInit
<1>2. QED
  BY <1>1, StepOfParts, PTL DEF ProvidersSpec, SearchSpec, MetadataSpec, WeatherSpec

\* No provider is asked before its time.
THEOREM ProvidersAreSpared == ProvidersSpec => ProvidersSpared
  BY SumOfParts, MetadataDownloadsSpaced, PlaceSearchesSpaced, RejectedNotRepeated DEF ProvidersSpared

\* What is passed on is current, whole, not withheld and bounded.
THEOREM ProvidersAreSound == ProvidersSpec => ProvidersSound
<1>1. ProvidersSpec =>
        PublishedIsCurrent /\ []TopicFollowsSources /\ []MetadataWhole /\ []CacheWithinSize
  BY SumOfParts, WeatherIsCurrent, WeatherTopicFollows, MetadataIsWhole, PlaceCacheBounded
<1>2. QED
  BY <1>1, PTL DEF ProvidersSound
=============================================================================
