---------------------------- MODULE PlaceSearch ----------------------------
(***************************************************************************)
(* The gateway's place search: viewers share one provider, which allows one  *)
(* request a second.  The handler holds a mutex from its look at the cache    *)
(* to the provider's reply.                                                  *)
(***************************************************************************)
EXTENDS Integers, FiniteSets

CONSTANTS
  Queries,
  Searchers,   \* viewers that search
  CacheLife,   \* life of an answer in seconds (24 hours in the code)
  CacheSize,   \* answers that are kept (256 in the code)
  MaxSeconds   \* end of the clock (a bound)

ASSUME SearchAssumption ==
  CacheLife \in Nat /\ CacheSize \in Nat /\ CacheSize > 0 /\ MaxSeconds \in Nat

VARIABLES
  second,       \* time
  query,        \* what each viewer waits for, or NoQuery
  arrived,      \* history: when its request reached the handler
  asking,       \* the viewer whose handler waits for the provider, or NoSearcher
  lastAttempt,  \* lastAttempt, or NotYet
  places,       \* cache: when the answer to each query expires; 0 if there is none
  asked         \* history: when the provider was last asked, or NotYet

searchVars == <<second, query, arrived, asking, lastAttempt, places, asked>>

NoQuery    == "none"
NoSearcher == "nobody"
NotYet     == -1

KeptAnswers == {q \in Queries : places[q] > 0}

Search(s, q) ==
  /\ query[s] = NoQuery
  /\ query' = [query EXCEPT ![s] = q] /\ arrived' = [arrived EXCEPT ![s] = second]
  /\ UNCHANGED <<second, asking, lastAttempt, places, asked>>

\* The handler, up to the request: an answer from the cache, "Search is busy", or
\* the request, on the time that is read under the mutex.
Answer(s) == query' = [query EXCEPT ![s] = NoQuery] /\ UNCHANGED <<asking, lastAttempt, asked>>
Handle(s, time) ==
  /\ query[s] # NoQuery /\ asking = NoSearcher
  /\ IF time < places[query[s]] THEN Answer(s)
     ELSE IF lastAttempt # NotYet /\ time - lastAttempt < 1 THEN Answer(s)
     ELSE asking' = s /\ lastAttempt' = time /\ asked' = second /\ UNCHANGED query
  /\ UNCHANGED <<second, arrived, places>>

\* Variant: the time is read before the mutex.
HandleByArrival(s) == Handle(s, arrived[s])

HandleSearch(s) == Handle(s, second)

\* The provider's reply is kept from the time of its request; a full cache gives
\* up an arbitrary answer, even if it holds an outdated one to this query.
ProviderFinds(s) ==
  /\ asking = s /\ asking' = NoSearcher
  /\ \E given \in IF Cardinality(KeptAnswers) >= CacheSize THEN KeptAnswers ELSE {NoQuery} :
       places' = [q \in Queries |->
         IF q = query[s] THEN lastAttempt + CacheLife ELSE IF q = given THEN 0 ELSE places[q]]
  /\ query' = [query EXCEPT ![s] = NoQuery]
  /\ UNCHANGED <<second, arrived, lastAttempt, asked>>
\* An error, a timeout of ten seconds, or the viewer leaves.
ProviderFails(s) ==
  /\ asking = s /\ asking' = NoSearcher
  /\ query' = [query EXCEPT ![s] = NoQuery]
  /\ UNCHANGED <<second, arrived, lastAttempt, places, asked>>

SecondPasses ==
  /\ second < MaxSeconds /\ second' = second + 1
  /\ UNCHANGED <<query, arrived, asking, lastAttempt, places, asked>>

SearchInit ==
  /\ second = 0 /\ query = [s \in Searchers |-> NoQuery] /\ arrived = [s \in Searchers |-> 0]
  /\ asking = NoSearcher /\ lastAttempt = NotYet
  /\ places = [q \in Queries |-> 0] /\ asked = NotYet
SearchStep(s) == HandleSearch(s) \/ ProviderFinds(s) \/ ProviderFails(s)
SearchNext ==
  \/ SecondPasses
  \/ \E s \in Searchers : SearchStep(s) \/ \E q \in Queries : Search(s, q)
SearchSpec == SearchInit /\ [][SearchNext]_searchVars

----
\* "One request per second maximum across all users": however long each viewer
\* waited for the mutex while others' requests were under way.
SearchesSpaced ==
  [][asking = NoSearcher /\ asking' # NoSearcher => asked = NotYet \/ second - asked >= 1]_searchVars

\* The cache stays within its size, also when answers in it are renewed.
CacheWithinSize == Cardinality(KeptAnswers) <= CacheSize
=============================================================================
