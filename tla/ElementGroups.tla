--------------------------- MODULE ElementGroups ---------------------------
(***************************************************************************)
(* The CelesTrak ingestion: at its start and then every two hours each      *)
(* group of satellites is fetched, with retries, and its element sets are   *)
(* written to the topic in batches.  One goroutine does all of it.  What    *)
(* the engine makes of the sets is module TleCatalog.                       *)
(***************************************************************************)
EXTENDS Integers, FiniteSets

CONSTANTS
  Groups,       \* number of groups
  MaxAttempts,  \* requests for a group in a round (4 in the code)
  MaxBatches,   \* batches of a group (a bound)
  MaxLaunches   \* starts of the service (a bound)

ASSUME GroupsAssumption ==
  /\ {Groups, MaxAttempts, MaxBatches, MaxLaunches} \subseteq Nat
  /\ Groups > 0 /\ MaxAttempts > 0 /\ MaxBatches > 0

VARIABLES
  launches,  \* starts of the service so far
  group,     \* the group of the round, or Between
  attempt,   \* the request that comes next
  batches,   \* batches of its reply still to be written; 0 while it is fetched
  ticker,    \* "unset" in the first round, then "waiting" or "due"
  refusing   \* history: the groups of this round whose request was rejected

groupVars == <<launches, group, attempt, batches, ticker, refusing>>

Between == 0

\* The next group of the round, whatever came of this one; the ticker is made
\* after the first round.
NextGroup ==
  /\ group' = IF group = Groups THEN Between ELSE group + 1
  /\ attempt' = 1 /\ batches' = 0
  /\ ticker' = IF group = Groups /\ ticker = "unset" THEN "waiting" ELSE ticker
AbandonRound == group' = Between /\ attempt' = 1 /\ batches' = 0 /\ ticker' = "waiting"

BeginRound == group' = 1 /\ attempt' = 1 /\ batches' = 0 /\ refusing' = {}

\* A service that ran before was killed, or stopped between two rounds: a signal
\* during a round waits for its end.
LaunchIngestion ==
  /\ launches < MaxLaunches /\ launches' = launches + 1
  /\ ticker' = "unset" /\ BeginRound

TwoHoursPass == ticker = "waiting" /\ ticker' = "due" /\ UNCHANGED <<launches, group, attempt, batches, refusing>>
RoundOnTick ==
  /\ group = Between /\ ticker = "due" /\ ticker' = "waiting"
  /\ BeginRound /\ UNCHANGED launches

----
(* fetchWithRetry. *)

Requesting == group # Between /\ batches = 0

\* No reply, a status of 5xx, or a body that breaks off: after a pause the request
\* is repeated.
RequestFails ==
  /\ Requesting /\ UNCHANGED <<launches, refusing>>
  /\ IF attempt < MaxAttempts THEN attempt' = attempt + 1 /\ UNCHANGED <<group, batches, ticker>>
     ELSE NextGroup

\* Variant: a rejected request is repeated like a lost one.
RejectedAndRepeated ==
  /\ Requesting /\ refusing' = refusing \cup {group} /\ UNCHANGED launches
  /\ IF attempt < MaxAttempts THEN attempt' = attempt + 1 /\ UNCHANGED <<group, batches, ticker>>
     ELSE NextGroup

\* A status of 4xx, or a body of more than 32 MB.
RequestRejected ==
  /\ Requesting /\ refusing' = refusing \cup {group} /\ NextGroup
  /\ UNCHANGED launches

\* The reply's valid records make up some batches, or none.
RequestAnswered ==
  /\ Requesting /\ UNCHANGED <<launches, refusing>>
  /\ \/ batches' \in 1..MaxBatches /\ UNCHANGED <<group, attempt, ticker>>
     \/ NextGroup

----
(* flush. *)

BatchWritten ==
  /\ batches > 0 /\ UNCHANGED <<launches, refusing>>
  /\ IF batches > 1 THEN batches' = batches - 1 /\ UNCHANGED <<group, attempt, ticker>>
     ELSE NextGroup

\* Variant: a refused batch ends the round.
BatchEndsTheRound == batches > 0 /\ AbandonRound /\ UNCHANGED <<launches, refusing>>

\* The group's other batches are left to the next round.
BatchRefused == batches > 0 /\ NextGroup /\ UNCHANGED <<launches, refusing>>

GroupWork == RequestFails \/ RequestRejected \/ RequestAnswered \/ BatchWritten \/ BatchRefused

GroupsInit ==
  /\ launches = 0 /\ group = Between /\ attempt = 1 /\ batches = 0
  /\ ticker = "unset" /\ refusing = {}
GroupsNext == LaunchIngestion \/ TwoHoursPass \/ RoundOnTick \/ GroupWork

\* A started service works on, and time passes.
GroupsRun == GroupWork \/ TwoHoursPass \/ RoundOnTick
GroupsSpec == GroupsInit /\ [][GroupsNext]_groupVars /\ WF_groupVars(GroupsRun)

----
\* "Provider rejected request; no immediate retry": a group that the provider
\* rejected is not asked for again before the next round.
RejectedIsLeftAlone == Requesting => group \notin refusing

\* Every group has its turn again and again, whatever befalls the ones before it,
\* the last group too: lost and rejected requests, unusable replies, and batches
\* that Kafka refuses.
EveryGroupHasItsTurn == launches > 0 ~> group = Groups
=============================================================================
