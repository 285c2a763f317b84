-------------------------- MODULE DashboardProofs --------------------------
(***************************************************************************)
(* Proofs about the dashboard: the globe of the catalog (GlobeCatalog),    *)
(* the mission lab (MissionLab) and the encounters (Encounters), for any   *)
(* values of their constants, and what follows from these and from         *)
(* ViewProofs for every behaviour of DashboardSpec (MCDashboard), where    *)
(* one part runs and the others rest.                                      *)
(*                                                                         *)
(* The globe.  Whatever is posted, computed or kept carries the            *)
(* generation of the list it was made from.  A generation is only used     *)
(* while it is the markers' own, and then its list is theirs (Current);    *)
(* so an index means the same object on both sides.                        *)
(*                                                                         *)
(* The lab.  Every handler goes through Renders or Mounted, which forget   *)
(* the analysis whenever a scenario is launched (Matched) and save the     *)
(* session whenever what it holds was changed (Kept).  The clock starts    *)
(* within the trajectory of every scenario that is launched, and a step    *)
(* of the replay pauses when it passes an end (Clocked).  An archive of a  *)
(* session passes the checks of an import, since the leads it holds are    *)
(* settings (Restored).                                                    *)
(*                                                                         *)
(* The encounters.  A pair's path is drawn from the elements that were     *)
(* read when it was computed, and a frame that finds others computes it    *)
(* again before it draws (FrameDrawsNow).  An import publishes what it     *)
(* started from and more, unless something was published meanwhile         *)
(* (Keeps).                                                                *)
(*                                                                         *)
(* The types.  What a part holds is typed once its history is: an import   *)
(* is within the limit because each of its files was (Holds), a worker's   *)
(* lab is open and shows no analysis (Jobs).                               *)
(***************************************************************************)
EXTENDS MCDashboard, ViewProofs, SequenceTheorems, FiniteSetTheorems, TLAPS

-----------------------------------------------------------------------------
(* GlobeCatalog.                                                             *)

Messages == [list : Seq(Sats), generation : Nat]
Windows  == [generation : Nat, list : Seq(Sats), valid : SUBSET Nat, age : 0..Late]
Workers  == [state : {"stopped", "waiting", "computing"}, timer : Nat, spent : Nat,
             list : Seq(Sats), generation : Nat, result : Windows]
Markers  == [of : Sats, shown : BOOLEAN, from : Sats]
Elements == [list : Seq(Sats), lives : [Sats -> Nat], version : Nat]

\* Made from list l in generation g, or in a former generation.
Current(m, g, l) == m.generation <= g /\ (m.generation = g => m.list = l)

\* And sampled when its objects had current elements until its age is Late.
Sampled(w, g, f) ==
  w.generation = g => \A i \in w.valid : i \in DOMAIN w.list /\ f[w.list[i]] + w.age >= Late

CurrentMessages(g, l)   == {m \in Messages : Current(m, g, l)}
CurrentWindows(g, l, f) == {w \in Windows : Current(w, g, l) /\ Sampled(w, g, f)}

Typed ==
  /\ fed \in BOOLEAN
  /\ satellites \in Elements /\ marked \in Elements
  /\ generation \in Nat /\ generation > 0
  /\ life \in [Sats -> Nat]

\* Everything underway is of the markers' list or of a former generation.
Underway ==
  /\ workerInbox \in Seq(CurrentMessages(generation, marked.list))
  /\ worker \in Workers /\ Current(worker, generation, marked.list)
  /\ worker.result \in CurrentWindows(generation, marked.list, life)
  /\ workerOutbox \in Seq(CurrentWindows(generation, marked.list, life))
  /\ catalogWindow \in CurrentWindows(generation, marked.list, life)

\* The pool has a marker for every entry of the list, each stands for its own, and
\* the surplus is hidden.
Pool ==
  /\ markers \in Seq(Markers)
  /\ Len(marked.list) <= Len(markers)
  /\ \A i \in DOMAIN marked.list : markers[i].of = marked.list[i]
  /\ \A i \in DOMAIN markers : markers[i].shown => i \in DOMAIN marked.list
  /\ MarkersAreTheirOwn

GlobeInv == Typed /\ Underway /\ Pool

-----------------------------------------------------------------------------

LEMMA Ages == Late = 4 /\ Long = 5 /\ WindowSpan + WindowGrace = 3
  BY DEF Late, Long, WindowSpan, WindowGrace

\* A list that replaces another leaves what is underway in a former generation.
LEMMA NewGeneration ==
  ASSUME NEW g \in Nat, NEW l, NEW k, NEW f, NEW h
  PROVE  /\ CurrentMessages(g, l) \subseteq CurrentMessages(g + 1, k)
         /\ CurrentWindows(g, l, f) \subseteq CurrentWindows(g + 1, k, h)
<1>1. \A n \in Nat : n <= g => n <= g + 1 /\ n # g + 1
  OBVIOUS
<1>2. \A m \in Messages : m.generation \in Nat
  BY DEF Messages
<1>3. \A w \in Windows : w.generation \in Nat
  BY DEF Windows
<1>4. QED
  BY <1>1, <1>2, <1>3 DEF CurrentMessages, CurrentWindows, Current, Sampled

\* NoWindow is of no generation.
LEMMA NoWindowCurrent ==
  ASSUME NEW g \in Nat, g > 0, NEW l, NEW f
  PROVE  NoWindow \in CurrentWindows(g, l, f)
<1>1. <<>> \in Seq(Sats)
  BY EmptySeq
<1>2. NoWindow \in Windows /\ NoWindow.generation = 0
  BY <1>1, Ages DEF NoWindow, Windows
<1>3. QED
  BY <1>2 DEF CurrentWindows, Current, Sampled

\* A propagation that starts samples the list it is given.
LEMMA SamplingCurrent ==
  ASSUME GlobeInv, NEW list \in Seq(Sats), NEW g \in Nat,
         g <= generation, g = generation => list = marked.list,
         worker' = Sampling(list, g), UNCHANGED <<generation, marked, life>>
  PROVE  worker' \in Workers /\ Current(worker, generation, marked.list)'
         /\ worker'.result \in CurrentWindows(generation, marked.list, life)
<1> DEFINE w == [generation |-> g, list |-> list, valid |-> CurrentThroughout(list), age |-> 0]
<1>1. worker' = [state |-> "computing", timer |-> 0, spent |-> 0, list |-> list, generation |-> g, result |-> w]
  BY DEF Sampling
<1>2. DOMAIN list = 1..Len(list) /\ Len(list) \in Nat
  BY LenProperties
<1>3. CurrentThroughout(list) \in SUBSET Nat
  BY <1>2 DEF CurrentThroughout
<1>4. w \in Windows
  BY <1>3, Ages DEF Windows
<1>5. \A i \in CurrentThroughout(list) : i \in DOMAIN list /\ life[list[i]] + 0 >= Late
  <2> TAKE i \in CurrentThroughout(list)
  <2>1. i \in DOMAIN list /\ life[list[i]] >= Late
    BY DEF CurrentThroughout
  <2>2. life[list[i]] \in Nat
    BY <1>2, <2>1, ElementOfSeq DEF GlobeInv, Typed
  <2>3. QED
    BY <2>1, <2>2
<1>6. w \in CurrentWindows(generation, marked.list, life)
  BY <1>4, <1>5 DEF CurrentWindows, Current, Sampled
<1>7. QED
  BY <1>1, <1>4, <1>6 DEF Workers, Current

\* A second makes windows and elements older alike.
LEMMA OlderCurrent ==
  ASSUME GlobeInv, NEW w \in CurrentWindows(generation, marked.list, life),
         life' = [s \in Sats |-> IF life[s] \in 1..(Long - 1) THEN life[s] - 1 ELSE life[s]]
  PROVE  [w EXCEPT !.age = OlderBy1(w.age)] \in CurrentWindows(generation, marked.list, life')
<1> DEFINE v == [w EXCEPT !.age = OlderBy1(w.age)]
<1>1. w \in Windows /\ Current(w, generation, marked.list) /\ Sampled(w, generation, life)
  BY DEF CurrentWindows
<1>2. OlderBy1(w.age) \in 0..Late /\ w.age \in 0..4
  BY <1>1, Ages DEF OlderBy1, Windows
<1>3. v = [generation |-> w.generation, list |-> w.list, valid |-> w.valid, age |-> OlderBy1(w.age)]
  BY <1>1 DEF Windows
<1>4. v \in Windows /\ Current(v, generation, marked.list)
  BY <1>1, <1>2, <1>3 DEF Windows, Current
<1>5. ASSUME w.generation = generation, NEW i \in w.valid
      PROVE  i \in DOMAIN w.list /\ life'[w.list[i]] + OlderBy1(w.age) >= Late
  <2>1. i \in DOMAIN w.list /\ life[w.list[i]] + w.age >= Late
    BY <1>1, <1>5 DEF Sampled
  <2>2. w.list[i] \in Sats
    BY <1>1, <2>1, LenProperties DEF Windows
  <2>3. life[w.list[i]] \in Nat
    BY <2>2 DEF GlobeInv, Typed
  <2>4. life'[w.list[i]] \in Nat /\ life'[w.list[i]] >= life[w.list[i]] - 1
    BY <2>2, <2>3, Ages
  <2>5. OlderBy1(w.age) = IF w.age < 4 THEN w.age + 1 ELSE w.age
    BY Ages DEF OlderBy1
  <2>6. QED
    BY <1>2, <2>1, <2>3, <2>4, <2>5, Ages
<1>6. Sampled(v, generation, life')
  BY <1>3, <1>5 DEF Sampled
<1>7. QED
  BY <1>4, <1>6 DEF CurrentWindows

-----------------------------------------------------------------------------
(* The steps.                                                              *)

LEMMA TypedStep == GlobeInv /\ [CatalogNext]_catalogVars => Typed'
<1> SUFFICES ASSUME GlobeInv, [CatalogNext]_catalogVars PROVE Typed'
  OBVIOUS
<1> USE DEF GlobeInv, Typed
<1>1. CASE \/ UNCHANGED catalogVars \/ WorkerReceives \/ WorkerTimer \/ WorkerPosts
           \/ WorkerThrows \/ WindowArrives \/ SomeCatalogFrame
  BY <1>1 DEF catalogVars, globeState, WorkerReceives, WorkerTimer, WorkerPosts, WorkerThrows,
              WindowArrives, SomeCatalogFrame, CatalogFrame
<1>2. CASE SyncSatellites
  <2>1. satellites.lives \in [Sats -> Nat]
    BY DEF Elements
  <2>2. QED
    BY <1>2, <2>1 DEF SyncSatellites, NextGeneration
<1>3. CASE \E list \in Lists, lives \in Lives : CatalogArrives(list, lives)
  <2> PICK list \in Lists, lives \in Lives : CatalogArrives(list, lives)
    BY <1>3
  <2>1. satellites' = [list |-> list, lives |-> lives, version |-> satellites.version + 1]
        /\ satellites.version + 1 \in Nat /\ list \in Seq(Sats) /\ lives \in [Sats -> Nat]
    BY CatalogListsAssumption, CatalogLivesAssumption DEF CatalogArrives, Elements
  <2>2. satellites' \in Elements
    BY <2>1 DEF Elements
  <2>3. fed' \in BOOLEAN
    BY Zenon DEF CatalogArrives
  <2>4. UNCHANGED <<marked, generation, life>>
    BY DEF CatalogArrives
  <2>5. QED
    BY <2>2, <2>3, <2>4
<1>4. CASE CatalogTick
  <2>1. life' \in [Sats -> Nat]
    BY <1>4 DEF CatalogTick
  <2>2. QED
    BY <1>4, <2>1 DEF CatalogTick
<1>5. CASE \E s \in Sats : Ageing(s)
  <2>1. life' \in [Sats -> Nat]
    BY <1>5, Ages DEF Ageing
  <2>2. QED
    BY <1>5, <2>1 DEF Ageing, globeState
<1>6. QED
  BY <1>1, <1>2, <1>3, <1>4, <1>5 DEF CatalogNext, WorkerStep

LEMMA UnderwayStep == GlobeInv /\ [CatalogNext]_catalogVars => Underway'
<1> SUFFICES ASSUME GlobeInv, [CatalogNext]_catalogVars PROVE Underway'
  OBVIOUS
<1> DEFINE M == CurrentMessages(generation, marked.list)
           W == CurrentWindows(generation, marked.list, life)
<1>0. /\ workerInbox \in Seq(M) /\ worker \in Workers /\ Current(worker, generation, marked.list)
      /\ worker.result \in W /\ workerOutbox \in Seq(W) /\ catalogWindow \in W
  BY DEF GlobeInv, Underway
<1>1. CASE \/ UNCHANGED catalogVars \/ SomeCatalogFrame
           \/ \E list \in Lists, lives \in Lives : CatalogArrives(list, lives)
  BY <1>1 DEF GlobeInv, Underway, catalogVars, globeState, SomeCatalogFrame, CatalogFrame, CatalogArrives, Current
<1>2. ASSUME UNCHANGED <<generation, marked, life>>,
             workerInbox' \in Seq(M), worker' \in Workers, Current(worker, generation, marked.list)',
             worker'.result \in W, workerOutbox' \in Seq(W), catalogWindow' \in W
      PROVE  Underway'
  BY <1>2 DEF Underway
<1>3. CASE WorkerReceives
  <2>1. Head(workerInbox) \in M /\ workerInbox' \in Seq(M)
    BY <1>0, <1>3, HeadTailProperties DEF WorkerReceives
  <2>2. /\ Head(workerInbox).list \in Seq(Sats) /\ Head(workerInbox).generation \in Nat
        /\ Current(Head(workerInbox), generation, marked.list)
    BY <2>1 DEF CurrentMessages, Messages
  <2>3. /\ UNCHANGED <<generation, marked, life, workerOutbox, catalogWindow>>
        /\ worker' = Sampling(Head(workerInbox).list, Head(workerInbox).generation)
    BY <1>3 DEF WorkerReceives, globeState
  <2>4. worker' \in Workers /\ Current(worker, generation, marked.list)' /\ worker'.result \in W
    BY <2>2, <2>3, SamplingCurrent DEF Current
  <2> HIDE DEF M, W
  <2>5. QED
    BY <1>0, <1>2, <2>1, <2>3, <2>4
<1>4. CASE WorkerTimer
  <2>1. worker.list \in Seq(Sats) /\ worker.generation \in Nat
    BY <1>0 DEF Workers
  <2>2. /\ UNCHANGED <<generation, marked, life, workerInbox, workerOutbox, catalogWindow>>
        /\ worker' = Sampling(worker.list, worker.generation)
    BY <1>4 DEF WorkerTimer, globeState
  <2>3. worker' \in Workers /\ Current(worker, generation, marked.list)' /\ worker'.result \in W
    BY <1>0, <2>1, <2>2, SamplingCurrent DEF Current
  <2> HIDE DEF M, W
  <2>4. QED
    BY <1>0, <1>2, <2>2, <2>3
<1>5. CASE WorkerPosts
  <2>1. /\ UNCHANGED <<generation, marked, life, workerInbox, catalogWindow>>
        /\ workerOutbox' = Append(workerOutbox, worker.result)
        /\ worker' = [worker EXCEPT !.state = "waiting", !.timer = 1]
    BY <1>5 DEF WorkerPosts, globeState
  <2>2. workerOutbox' \in Seq(W)
    BY <1>0, <2>1, AppendProperties
  <2>3. worker' \in Workers /\ worker'.result = worker.result /\ worker'.list = worker.list
        /\ worker'.generation = worker.generation
    BY <1>0, <2>1 DEF Workers
  <2>4. Current(worker, generation, marked.list)'
    BY <1>0, <2>1, <2>3 DEF Current
  <2> HIDE DEF M, W
  <2>5. QED
    BY <1>0, <1>2, <2>1, <2>2, <2>3, <2>4
<1>6. CASE WorkerThrows
  <2>1. /\ UNCHANGED <<generation, marked, life, workerInbox, workerOutbox, catalogWindow>>
        /\ worker' = [worker EXCEPT !.state = "stopped"]
    BY <1>6 DEF WorkerThrows
  <2>2. worker' \in Workers /\ worker'.result = worker.result /\ worker'.list = worker.list
        /\ worker'.generation = worker.generation
    BY <1>0, <2>1 DEF Workers
  <2>3. Current(worker, generation, marked.list)'
    BY <1>0, <2>1, <2>2 DEF Current
  <2> HIDE DEF M, W
  <2>4. QED
    BY <1>0, <1>2, <2>1, <2>2, <2>3
<1>7. CASE WindowArrives
  <2>1. Head(workerOutbox) \in W /\ workerOutbox' \in Seq(W)
    BY <1>0, <1>7, HeadTailProperties DEF WindowArrives
  <2>2. UNCHANGED <<generation, marked, life, workerInbox, worker>>
    BY <1>7 DEF WindowArrives
  <2>3. catalogWindow' = Head(workerOutbox) \/ catalogWindow' = catalogWindow
    BY <1>7 DEF WindowArrives
  <2>4. Current(worker, generation, marked.list)'
    BY <1>0, <2>2 DEF Current
  <2> HIDE DEF M, W
  <2>5. QED
    BY <1>0, <1>2, <2>1, <2>2, <2>3, <2>4
<1>8. CASE SyncSatellites
  <2>1. /\ generation' = generation + 1 /\ marked' = satellites /\ generation \in Nat /\ generation' > 0
        /\ UNCHANGED <<worker, workerOutbox>> /\ catalogWindow' = NoWindow
        /\ workerInbox' = Append(workerInbox, [list |-> satellites.list, generation |-> generation + 1])
    BY <1>8 DEF SyncSatellites, NextGeneration, GlobeInv, Typed
  <2> DEFINE m == [list |-> satellites.list, generation |-> generation + 1]
             N == CurrentMessages(generation + 1, satellites.list)
             V == CurrentWindows(generation + 1, satellites.list, life')
  <2>2. M \subseteq N /\ W \subseteq V
    BY <2>1, NewGeneration
  <2>3. m \in N
    <3>1. satellites.list \in Seq(Sats) /\ generation + 1 \in Nat
      BY <2>1 DEF GlobeInv, Typed, Elements
    <3>2. QED
      BY <3>1 DEF CurrentMessages, Messages, Current
  <2>4. NoWindow \in V
    BY <2>1, NoWindowCurrent
  <2>5. worker.generation <= generation + 1 /\ worker.generation # generation + 1
    BY <1>0, <2>1 DEF Workers, Current
  <2> HIDE DEF M, N, W, V
  <2>6. workerInbox' \in Seq(N) /\ workerOutbox' \in Seq(V)
    <3>1. workerInbox \in Seq(N) /\ workerOutbox \in Seq(V)
      BY <1>0, <2>2, SeqMonotonic
    <3>2. QED
      BY <2>1, <2>3, <3>1, AppendProperties
  <2>7. QED
    BY <1>0, <2>1, <2>2, <2>4, <2>5, <2>6 DEF Underway, Current, N, V
<1>9. CASE CatalogTick
  <2> DEFINE V == CurrentWindows(generation, marked.list, life')
  <2>1. /\ UNCHANGED <<generation, marked, workerInbox, workerOutbox>> /\ workerOutbox = <<>>
        /\ life' = [s \in Sats |-> IF life[s] \in 1..(Long - 1) THEN life[s] - 1 ELSE life[s]]
        /\ catalogWindow' = [catalogWindow EXCEPT !.age = OlderBy1(catalogWindow.age)]
    BY <1>9 DEF CatalogTick
  <2>2. catalogWindow' \in V
    BY <1>0, <2>1, OlderCurrent
  <2>3. workerOutbox' \in Seq(V)
    BY <2>1, EmptySeq
  <2> DEFINE r == [worker.result EXCEPT !.age = OlderBy1(worker.result.age)]
  <2>4. r \in V
    BY <1>0, <2>1, OlderCurrent
  <2>5. PICK t, p : worker' = [worker EXCEPT !.spent = p, !.timer = t, !.result.age = OlderBy1(worker.result.age)]
                    /\ t \in Nat /\ p \in Nat
    <3>1. worker.spent \in Nat /\ worker.timer \in Nat
      BY <1>0 DEF Workers
    <3> DEFINE p == IF worker.state = "computing" THEN worker.spent + 1 ELSE worker.spent
               t == IF worker.state = "waiting" THEN worker.timer - 1 ELSE worker.timer
    <3>2. p \in Nat
      BY <3>1
    <3>3. t \in Nat
      BY <1>9, <3>1 DEF CatalogTick
    <3>4. worker' = [worker EXCEPT !.spent = p, !.timer = t, !.result.age = OlderBy1(worker.result.age)]
      BY <1>9 DEF CatalogTick
    <3>5. QED
      BY <3>2, <3>3, <3>4
  <2>6. worker' = [state |-> worker.state, timer |-> t, spent |-> p, list |-> worker.list,
                   generation |-> worker.generation, result |-> r]
    BY <1>0, <2>5 DEF Workers
  <2>7. r \in Windows
    BY <2>4 DEF CurrentWindows
  <2> HIDE DEF r
  <2>8. worker' \in Workers /\ worker'.result = r /\ worker'.list = worker.list
        /\ worker'.generation = worker.generation
    <3>1. /\ worker.state \in {"stopped", "waiting", "computing"}
          /\ worker.list \in Seq(Sats) /\ worker.generation \in Nat
      BY <1>0 DEF Workers
    <3>2. t \in Nat /\ p \in Nat
      BY <2>5
    <3>3. QED
      BY <2>6, <2>7, <3>1, <3>2 DEF Workers
  <2>9. Current(worker, generation, marked.list)'
    BY <1>0, <2>1, <2>8 DEF Current
  <2> HIDE DEF M, W
  <2>10. workerInbox' \in Seq(CurrentMessages(generation', marked'.list))
    BY <1>0, <2>1 DEF M
  <2> HIDE DEF V
  <2>11. QED
    BY <2>1, <2>2, <2>3, <2>4, <2>8, <2>9, <2>10 DEF Underway, V
<1>10. CASE \E s \in Sats : Ageing(s)
  <2> PICK s \in Sats : Ageing(s)
    BY <1>10
  <2> DEFINE V == CurrentWindows(generation, marked.list, life')
  <2>1. /\ UNCHANGED <<generation, marked, workerInbox, worker, workerOutbox, catalogWindow>>
        /\ life' = [life EXCEPT ![s] = Long - 1] /\ life[s] = Long
    BY DEF Ageing, globeState
  <2>2. W \subseteq V
    <3> SUFFICES ASSUME NEW w \in W, w.generation = generation, NEW i \in w.valid
                 PROVE  life'[w.list[i]] + w.age >= Late
      BY DEF CurrentWindows, Sampled
    <3>1. i \in DOMAIN w.list /\ life[w.list[i]] + w.age >= Late /\ w.age \in 0..Late /\ w.list \in Seq(Sats)
      BY DEF CurrentWindows, Sampled, Windows
    <3>2. w.list[i] \in Sats
      BY <3>1, LenProperties
    <3>3. QED
      BY <2>1, <3>1, <3>2, Ages DEF GlobeInv, Typed
  <2>3. Current(worker, generation, marked.list)'
    BY <1>0, <2>1 DEF Current
  <2> HIDE DEF M, W, V
  <2>4. workerOutbox' \in Seq(V)
    BY <1>0, <2>1, <2>2, SeqMonotonic
  <2>5. QED
    BY <1>0, <2>1, <2>2, <2>3, <2>4 DEF Underway, M, V
<1>11. QED
  BY <1>1, <1>3, <1>4, <1>5, <1>6, <1>7, <1>8, <1>9, <1>10 DEF CatalogNext, WorkerStep

\* The frame that draws a marker of the fed catalog has a window of its list.
LEMMA DrawnFromOwn ==
  ASSUME GlobeInv, NEW i \in DOMAIN marked.list, Eligible(i)
  PROVE  Placed(i) \in Markers /\ Placed(i).from = markers[i].of /\ Placed(i).of = markers[i].of
<1>1. i \in 1..Len(marked.list) /\ marked.list[i] \in Sats /\ markers[i].of = marked.list[i]
  <2>1. marked.list \in Seq(Sats) /\ markers[i].of = marked.list[i]
    BY DEF GlobeInv, Typed, Elements, Pool
  <2>2. QED
    BY <2>1, LenProperties, ElementOfSeq
<1>2. fed => catalogWindow.list = marked.list
  BY DEF GlobeInv, Underway, CurrentWindows, Current, Eligible, Usable
<1>3. Placed(i) = [of |-> marked.list[i], shown |-> TRUE, from |-> marked.list[i]]
  BY <1>1, <1>2 DEF Placed
<1>4. QED
  BY <1>1, <1>3 DEF Markers

LEMMA OwnMarker ==
  ASSUME NEW s \in Sats
  PROVE  /\ Hidden(s) \in Markers /\ Hidden(s).of = s /\ Hidden(s).from = s
         /\ Reported(s) \in Markers /\ Reported(s).of = s /\ Reported(s).from = s
  BY DEF Hidden, Reported, Markers

LEMMA PoolStep == GlobeInv /\ [CatalogNext]_catalogVars => Pool'
<1> SUFFICES ASSUME GlobeInv, [CatalogNext]_catalogVars PROVE Pool'
  OBVIOUS
<1>0. /\ markers \in Seq(Markers) /\ DOMAIN markers = 1..Len(markers) /\ Len(markers) \in Nat
      /\ \A i \in DOMAIN markers : markers[i] \in Markers
      /\ \A i \in DOMAIN markers : markers[i].shown => markers[i].from = markers[i].of
      /\ \A i \in DOMAIN marked.list : markers[i].of = marked.list[i]
      /\ \A i \in DOMAIN markers : markers[i].shown => i \in DOMAIN marked.list
      /\ Len(marked.list) <= Len(markers)
  BY LenProperties, ElementOfSeq DEF GlobeInv, Pool, MarkersAreTheirOwn
<1>1. CASE UNCHANGED <<markers, marked>>
  BY <1>1 DEF GlobeInv, Pool, MarkersAreTheirOwn
<1>2. CASE SyncSatellites
  <2> DEFINE list == satellites.list
             n == IF Len(list) > Len(markers) THEN Len(list) ELSE Len(markers)
  <2>1. list \in Seq(Sats) /\ Len(list) \in Nat /\ DOMAIN list = 1..Len(list) /\ \A i \in DOMAIN list : list[i] \in Sats
    <3>1. list \in Seq(Sats)
      BY DEF GlobeInv, Typed, Elements
    <3>2. QED
      BY <3>1, LenProperties, ElementOfSeq
  <2>2. n \in Nat /\ n >= Len(list) /\ n >= Len(markers)
    BY <1>0, <2>1
  <2>3. markers' = Pooled(list) /\ marked'.list = list
    BY <1>2 DEF SyncSatellites
  <2> DEFINE at(i) == IF i > Len(list) THEN [markers[i] EXCEPT !.shown = FALSE]
                      ELSE IF i <= Len(markers) THEN Reported(list[i]) ELSE Hidden(list[i])
  <2>4. markers' = [i \in 1..n |-> at(i)]
    BY <2>3 DEF Pooled
  <2>5. \A i \in 1..n : /\ at(i) \in Markers /\ (at(i).shown => at(i).from = at(i).of)
                        /\ i <= Len(list) => at(i).of = list[i]
                        /\ at(i).shown => i <= Len(list)
    <3> TAKE i \in 1..n
    <3>1. CASE i > Len(list)
      <4>1. markers[i] \in Markers
        BY <1>0, <2>1, <2>2, <3>1
      <4>2. at(i) = [of |-> markers[i].of, shown |-> FALSE, from |-> markers[i].from]
        BY <3>1, <4>1 DEF Markers
      <4>3. markers[i].of \in Sats /\ markers[i].from \in Sats
        BY <4>1 DEF Markers
      <4> HIDE DEF at
      <4>4. at(i) \in Markers /\ ~at(i).shown
        BY <4>2, <4>3 DEF Markers
      <4>5. QED
        BY <2>1, <3>1, <4>4
    <3>2. CASE i <= Len(list)
      <4>1. list[i] \in Sats
        BY <2>1, <3>2
      <4>2. at(i) = Reported(list[i]) \/ at(i) = Hidden(list[i])
        BY <2>1, <3>2
      <4> HIDE DEF at
      <4>3. QED
        BY <3>2, <4>1, <4>2, OwnMarker
    <3>3. QED
      BY <2>1, <2>2, <3>1, <3>2
  <2> HIDE DEF at, n
  <2>6. markers' \in Seq(Markers) /\ DOMAIN markers' = 1..n /\ Len(markers') = n
    BY <2>2, <2>4, <2>5
  <2>7. \A i \in 1..n : markers'[i] = at(i)
    BY <2>4
  <2>8. MarkersAreTheirOwn'
    BY <2>5, <2>6, <2>7 DEF MarkersAreTheirOwn
  <2>9. \A i \in DOMAIN marked'.list : markers'[i].of = marked'.list[i]
    BY <2>1, <2>2, <2>3, <2>5, <2>7
  <2>10. \A i \in DOMAIN markers' : markers'[i].shown => i \in DOMAIN marked'.list
    BY <2>1, <2>3, <2>5, <2>6, <2>7
  <2>11. QED
    BY <2>2, <2>3, <2>6, <2>8, <2>9, <2>10 DEF Pool
<1>3. CASE SomeCatalogFrame
  <2> PICK drawn \in SUBSET DOMAIN marked.list : CatalogFrame(drawn)
    BY <1>3 DEF SomeCatalogFrame
  <2> DEFINE at(i) == IF i \in drawn THEN Placed(i)
                      ELSE IF i \in DOMAIN marked.list THEN Hidden(markers[i].of) ELSE markers[i]
  <2>1. markers' = [i \in 1..Len(markers) |-> at(i)] /\ marked' = marked
    BY <1>0 DEF CatalogFrame
  <2>2. \A i \in 1..Len(markers) : at(i) \in Markers /\ (at(i).shown => at(i).from = at(i).of)
                                   /\ at(i).of = markers[i].of
    <3> TAKE i \in 1..Len(markers)
    <3>1. CASE i \in drawn
      <4>1. Eligible(i) /\ i \in DOMAIN marked.list
        BY <3>1 DEF CatalogFrame
      <4>2. at(i) = Placed(i)
        BY <3>1
      <4>3. QED
        BY <4>1, <4>2, DrawnFromOwn
    <3>2. CASE i \notin drawn /\ i \in DOMAIN marked.list
      <4>1. at(i) = [of |-> markers[i].of, shown |-> FALSE, from |-> markers[i].of] /\ markers[i].of \in Sats
        BY <1>0, <3>2 DEF Hidden, Markers
      <4> HIDE DEF at
      <4>2. QED
        BY <4>1 DEF Markers
    <3>3. CASE i \notin drawn /\ i \notin DOMAIN marked.list
      BY <1>0, <3>3
    <3>4. QED
      BY <3>1, <3>2, <3>3
  <2> HIDE DEF at
  <2>3. markers' \in Seq(Markers) /\ DOMAIN markers' = 1..Len(markers) /\ Len(markers') = Len(markers)
    BY <1>0, <2>1, <2>2
  <2>4. \A i \in 1..Len(markers) : markers'[i] = at(i)
    BY <2>1
  <2>5. MarkersAreTheirOwn'
    BY <2>2, <2>3, <2>4 DEF MarkersAreTheirOwn
  <2>6. DOMAIN marked.list = 1..Len(marked.list) /\ Len(marked.list) \in Nat
    BY LenProperties DEF GlobeInv, Typed, Elements
  <2>7. \A i \in DOMAIN marked.list : markers'[i].of = marked.list[i]
    BY <1>0, <2>2, <2>4, <2>6
  <2>8. \A i \in DOMAIN markers' : markers'[i].shown => i \in DOMAIN marked'.list
    <3> SUFFICES ASSUME NEW i \in 1..Len(markers), i \notin DOMAIN marked.list PROVE ~markers'[i].shown
      BY <2>1, <2>3
    <3>1. markers'[i] = markers[i]
      BY <2>4 DEF at
    <3>2. QED
      BY <1>0, <3>1
  <2>9. QED
    BY <1>0, <2>1, <2>3, <2>5, <2>7, <2>8 DEF Pool
<1>4. QED
  BY <1>1, <1>2, <1>3
     DEF CatalogNext, WorkerStep, catalogVars, globeState, WorkerReceives, WorkerTimer, WorkerPosts, WorkerThrows,
         WindowArrives, CatalogTick, CatalogArrives, Ageing

LEMMA GlobeInit == CatalogInit => GlobeInv
<1> SUFFICES ASSUME CatalogInit PROVE GlobeInv
  OBVIOUS
<1>1. <<>> \in Seq(Sats) /\ Demo \in Seq(Sats)
  BY EmptySeq, CatalogListsAssumption
<1>2. /\ life \in [Sats -> Nat] /\ generation = 1
      /\ satellites = [list |-> satellites.list, lives |-> life, version |-> 0] /\ satellites.list \in Seq(Sats)
      /\ marked = satellites
  BY <1>1, Ages DEF CatalogInit
<1>3. satellites \in Elements
  BY <1>2 DEF Elements
<1>4. Typed
  <2>1. fed \in BOOLEAN
    BY Zenon DEF CatalogInit
  <2>2. QED
    BY <1>2, <1>3, <2>1 DEF Typed
<1>5. NoWindow \in CurrentWindows(generation, marked.list, life) /\ NoWindow \in Windows
  <2>1. generation \in Nat /\ generation > 0
    BY <1>2
  <2>2. NoWindow \in CurrentWindows(generation, marked.list, life)
    BY <2>1, NoWindowCurrent
  <2>3. QED
    BY <2>2 DEF CurrentWindows
<1>6. worker \in Workers /\ worker.result = NoWindow /\ worker.generation = 0
  BY <1>1, <1>5 DEF CatalogInit, Workers
<1>7. workerInbox \in Seq(CurrentMessages(generation, marked.list))
  <2> DEFINE m == [list |-> marked.list, generation |-> 1]
  <2>1. m \in CurrentMessages(generation, marked.list)
    BY <1>2 DEF CurrentMessages, Messages, Current
  <2>2. workerInbox = <<m>>
    BY DEF CatalogInit
  <2> HIDE DEF m
  <2>3. QED
    BY <2>1, <2>2
<1>8. workerOutbox \in Seq(CurrentWindows(generation, marked.list, life))
  BY EmptySeq DEF CatalogInit
<1>9. Underway
  BY <1>2, <1>5, <1>6, <1>7, <1>8 DEF CatalogInit, Underway, Current
<1>10. Pool
  <2>1. DOMAIN marked.list = 1..Len(marked.list) /\ Len(marked.list) \in Nat
        /\ \A i \in DOMAIN marked.list : marked.list[i] \in Sats
    BY <1>2, LenProperties, ElementOfSeq
  <2>2. markers = [i \in 1..Len(marked.list) |-> Hidden(marked.list[i])]
    BY <2>1 DEF CatalogInit
  <2>3. \A i \in 1..Len(marked.list) : Hidden(marked.list[i]) \in Markers
    BY <2>1 DEF Hidden, Markers
  <2>4. markers \in Seq(Markers) /\ Len(markers) = Len(marked.list) /\ DOMAIN markers = 1..Len(marked.list)
    BY <2>1, <2>2, <2>3
  <2>5. \A i \in 1..Len(marked.list) : markers[i] = Hidden(marked.list[i])
    BY <2>2
  <2>6. \A i \in 1..Len(marked.list) : markers[i].of = marked.list[i] /\ markers[i].from = markers[i].of
    BY <2>1, <2>5, OwnMarker
  <2>7. QED
    BY <2>1, <2>4, <2>6 DEF Pool, MarkersAreTheirOwn
<1>11. QED
  BY <1>4, <1>9, <1>10 DEF GlobeInv

LEMMA GlobeStep == GlobeInv /\ [CatalogNext]_catalogVars => GlobeInv'
  BY TypedStep, UnderwayStep, PoolStep DEF GlobeInv

\* Whatever catalogs, windows and frames cross, a marker that is shown stands where
\* the object that a click on it selects is.
THEOREM GlobeMarkersAreTheirOwn == CatalogSpec => []MarkersAreTheirOwn
<1>1. GlobeInv => MarkersAreTheirOwn
  BY DEF GlobeInv, Pool
<1>2. QED
  BY GlobeInit, GlobeStep, <1>1, PTL DEF CatalogSpec

\* What a frame draws of a fed catalog is of a usable window.
LEMMA DrawnIsCurrent ==
  ASSUME GlobeInv, NEW i \in DOMAIN marked.list, fed, Eligible(i)
  PROVE  catalogWindow.age <= WindowSpan + WindowGrace /\ life[marked.list[i]] > 0
<1>1. Usable /\ i \in catalogWindow.valid
  BY DEF Eligible
<1>2. catalogWindow.age <= WindowSpan + WindowGrace /\ catalogWindow.age \in 0..3
  BY <1>1, Ages DEF Usable, GlobeInv, Underway, CurrentWindows, Windows
<1>3. life[marked.list[i]] + catalogWindow.age >= Late
  BY <1>1 DEF Usable, GlobeInv, Underway, CurrentWindows, Current, Sampled
<1>4. life[marked.list[i]] \in Nat
  BY LenProperties, ElementOfSeq DEF GlobeInv, Typed, Elements
<1>5. QED
  BY <1>2, <1>3, <1>4, Ages

\* And a frame hides the rest; what is beyond the list was hidden when it came.
LEMMA FrameShowsCurrent == GlobeInv => [fed /\ SomeCatalogFrame => OnlyCurrentShown']_catalogVars
<1> SUFFICES ASSUME GlobeInv, fed, SomeCatalogFrame PROVE OnlyCurrentShown'
  OBVIOUS
<1> PICK drawn \in SUBSET DOMAIN marked.list : CatalogFrame(drawn)
  BY DEF SomeCatalogFrame
<1>1. DOMAIN markers' = DOMAIN markers /\ UNCHANGED <<marked, catalogWindow, life>>
  BY DEF CatalogFrame
<1>2. ASSUME NEW i \in DOMAIN markers, markers'[i].shown PROVE i \in drawn
  <2>1. CASE i \in DOMAIN marked.list /\ i \notin drawn
    <3>1. markers'[i] = Hidden(markers[i].of)
      BY <2>1 DEF CatalogFrame
    <3>2. QED
      BY <1>2, <3>1 DEF Hidden
  <2>2. CASE i \notin DOMAIN marked.list
    <3>1. markers'[i] = markers[i]
      BY <2>2 DEF CatalogFrame
    <3>2. QED
      BY <1>2, <2>2, <3>1 DEF GlobeInv, Pool
  <2>3. QED
    BY <2>1, <2>2
<1>3. \A i \in drawn : i \in DOMAIN marked.list /\ Eligible(i)
  BY DEF CatalogFrame
<1>4. QED
  BY <1>1, <1>2, <1>3, DrawnIsCurrent DEF OnlyCurrentShown

\* Every frame of the fed catalog leaves only markers of the present list on the
\* globe, from a window that is usable and of elements that are current.
THEOREM GlobeOutdatedHidden == CatalogSpec => OutdatedHidden
<1>1. QED
  BY GlobeInit, GlobeStep, FrameShowsCurrent, PTL DEF CatalogSpec, OutdatedHidden

-----------------------------------------------------------------------------
(* MissionLab. *)

Failed == [state |-> "failed"]

\* The analysis is of the scenario, or there is none.
Matched == analysis \in {Busy, Failed, Analyzed(scenario)}

\* The session is the view's, or none was saved and there was nothing to save.
Kept ==
  labOpen =>
    \/ session = Saved(view)
    \/ session = NoSession /\ (overtaken \/ (view.notes = "" /\ view.events = "none"))

\* The fields of the scenario and of the component's state.
Shaped ==
  /\ scenario = [id |-> scenario.id, lead |-> scenario.lead, designs |-> scenario.designs]
  /\ view = [selected |-> view.selected, seconds |-> view.seconds, playing |-> view.playing,
             notes |-> view.notes, hashed |-> view.hashed, events |-> view.events]

LabInv == Matched /\ Shaped /\ Kept

\* A lab that waits for a file is open; a former lab may wait as well.
Reader == reading \subseteq Readers /\ ("here" \in reading => labOpen)

IsScenario(s) == s = [id |-> s.id, lead |-> s.lead, designs |-> s.designs]
IsView(v) ==
  v = [selected |-> v.selected, seconds |-> v.seconds, playing |-> v.playing,
       notes |-> v.notes, hashed |-> v.hashed, events |-> v.events]

\* One field of the component's state is set.
LEMMA Edited ==
  ASSUME NEW u, IsView(u), NEW a
  PROVE  /\ IsView([u EXCEPT !.selected = a]) /\ IsView([u EXCEPT !.seconds = a])
         /\ IsView([u EXCEPT !.playing = a]) /\ IsView([u EXCEPT !.hashed = a])
         /\ IsView([u EXCEPT !.notes = a]) /\ IsView([u EXCEPT !.events = a])
         /\ [u EXCEPT !.notes = a].notes = a /\ [u EXCEPT !.events = a].events = a
         /\ [u EXCEPT !.hashed = a].notes = u.notes /\ [u EXCEPT !.events = a].notes = u.notes
         /\ [u EXCEPT !.seconds = a].notes = u.notes /\ [u EXCEPT !.seconds = a].events = u.events
         /\ [u EXCEPT !.hashed = a].events = u.events
<1>0. ASSUME NEW f1, NEW f2, NEW f3, NEW f4, NEW f5, NEW f6
      PROVE  IsView([selected |-> f1, seconds |-> f2, playing |-> f3, notes |-> f4, hashed |-> f5, events |-> f6])
  BY DEF IsView
<1>1. [u EXCEPT !.selected = a]
      = [selected |-> a, seconds |-> u.seconds, playing |-> u.playing,
         notes |-> u.notes, hashed |-> u.hashed, events |-> u.events]
  BY DEF IsView
<1>2. [u EXCEPT !.seconds = a]
      = [selected |-> u.selected, seconds |-> a, playing |-> u.playing,
         notes |-> u.notes, hashed |-> u.hashed, events |-> u.events]
  BY DEF IsView
<1>3. [u EXCEPT !.playing = a]
      = [selected |-> u.selected, seconds |-> u.seconds, playing |-> a,
         notes |-> u.notes, hashed |-> u.hashed, events |-> u.events]
  BY DEF IsView
<1>4. [u EXCEPT !.notes = a]
      = [selected |-> u.selected, seconds |-> u.seconds, playing |-> u.playing,
         notes |-> a, hashed |-> u.hashed, events |-> u.events]
  BY DEF IsView
<1>5. [u EXCEPT !.hashed = a]
      = [selected |-> u.selected, seconds |-> u.seconds, playing |-> u.playing,
         notes |-> u.notes, hashed |-> a, events |-> u.events]
  BY DEF IsView
<1>6. [u EXCEPT !.events = a]
      = [selected |-> u.selected, seconds |-> u.seconds, playing |-> u.playing,
         notes |-> u.notes, hashed |-> u.hashed, events |-> a]
  BY DEF IsView
<1>7. QED
  BY <1>0, <1>1, <1>2, <1>3, <1>4, <1>5, <1>6

\* A maneuver is selected; the clock moves or stops.
LEMMA EditedTwice ==
  ASSUME NEW u, IsView(u), NEW a, NEW b
  PROVE  /\ IsView([u EXCEPT !.selected = a, !.hashed = b]) /\ IsView([u EXCEPT !.playing = a, !.seconds = b])
         /\ IsView([u EXCEPT !.seconds = b, !.playing = a])
<1> DEFINE w1 == [u EXCEPT !.selected = a]
           w2 == [u EXCEPT !.playing = a]
           w3 == [u EXCEPT !.seconds = b]
           v1 == [w1 EXCEPT !.hashed = b]
           v2 == [w2 EXCEPT !.seconds = b]
           v3 == [w3 EXCEPT !.playing = a]
<1>1. /\ [u EXCEPT !.selected = a, !.hashed = b] = v1 /\ [u EXCEPT !.playing = a, !.seconds = b] = v2
      /\ [u EXCEPT !.seconds = b, !.playing = a] = v3
  BY Zenon
<1>2. IsView(w1) /\ IsView(w2) /\ IsView(w3)
  BY Edited
<1> HIDE DEF w1, w2, w3
<1>3. IsView(v1) /\ IsView(v2) /\ IsView(v3)
  BY <1>2, Edited
<1> HIDE DEF v1, v2, v3
<1>4. QED
  BY <1>1, <1>3, Zenon

\* What an import or a new mission sets.
IsReset(w, u, a, b, c, d, e) ==
  w = [u EXCEPT !.selected = a, !.seconds = b, !.notes = c, !.hashed = d, !.events = e]
LEMMA Reset ==
  ASSUME NEW u, IsView(u), NEW a, NEW b, NEW c, NEW d, NEW e,
         NEW w, IsReset(w, u, a, b, c, d, e)
  PROVE  IsView(w) /\ w.notes = c /\ w.events = e
<1> DEFINE w1 == [u EXCEPT !.selected = a]
           w2 == [w1 EXCEPT !.seconds = b]
           w3 == [w2 EXCEPT !.notes = c]
           w4 == [w3 EXCEPT !.hashed = d]
           w5 == [w4 EXCEPT !.events = e]
<1>0. w = w5
  BY Zenon DEF IsReset
<1>1. IsView(w1)
  BY Edited
<1> HIDE DEF w1
<1>2. IsView(w2)
  BY <1>1, Edited
<1> HIDE DEF w2
<1>3. IsView(w3) /\ w3.notes = c
  BY <1>2, Edited
<1> HIDE DEF w3
<1>4. IsView(w4) /\ w4.notes = c
  BY <1>3, Edited
<1> HIDE DEF w4
<1>5. IsView(w5) /\ w5.notes = c /\ w5.events = e
  BY <1>4, Edited
<1> HIDE DEF w5
<1>6. QED
  BY <1>0, <1>5

\* And what it sets when there is no archive.
IsEmptied(w, u, b) == IsReset(w, u, "coast", b, "", FALSE, "none")
LEMMA Emptied ==
  ASSUME NEW u, IsView(u), NEW b, NEW w, IsEmptied(w, u, b)
  PROVE  IsView(w) /\ w.notes = "" /\ w.events = "none"
<1>1. ASSUME NEW a, NEW c, NEW d, NEW e, IsReset(w, u, a, b, c, d, e), c = "", e = "none"
      PROVE  IsView(w) /\ w.notes = "" /\ w.events = "none"
  <2>1. IsReset(w, u, a, b, c, d, e)
    BY <1>1
  <2>2. IsView(w) /\ w.notes = c /\ w.events = e
    BY <2>1, Reset, SMT
  <2>3. QED
    BY <1>1, <2>2
<1>2. QED
  BY <1>1, Zenon DEF IsEmptied

----
(* Renders and Mounted.                                                    *)

\* The effects change the clock only.
LEMMA EffectsKeepNotes ==
  ASSUME NEW v, IsView(v), NEW s, NEW launched, NEW before, NEW after
  PROVE  LET w == FollowBurn(IntoTimeline(v, s, launched), before, after)
         IN  IsView(w) /\ w.notes = v.notes /\ w.events = v.events
<1> DEFINE u == IntoTimeline(v, s, launched)
           w == FollowBurn(u, before, after)
<1>1. IsView(u) /\ u.notes = v.notes /\ u.events = v.events
  BY DEF IntoTimeline, IsView
<1> HIDE DEF u
<1>2. IsView(w) /\ w.notes = u.notes /\ w.events = u.events
  BY <1>1 DEF FollowBurn, IsView
<1>3. QED
  BY <1>1, <1>2 DEF u

\* What a render leaves: the analysis it was given, or none of a scenario that is
\* launched; and the session of the view, unless nothing in it changed.
LEMMA AfterRenders ==
  ASSUME NEW s, IsScenario(s), NEW v, IsView(v), NEW a, NEW launched, NEW forgotten, NEW rehashed,
         Renders(s, v, a, launched, forgotten, rehashed)
  PROVE  /\ scenario' = s /\ analysis' = IF launched THEN Busy ELSE a
         /\ Shaped' /\ view'.notes = v.notes /\ view'.events = v.events
         /\ \/ session' = Saved(view')
            \/ ~rehashed /\ Saved(view') = Saved(view) /\ session' = IF forgotten THEN NoSession ELSE session
<1>1. /\ scenario' = s /\ analysis' = KeptResult(a, scenario, s, launched)
      /\ view' = FollowBurn(IntoTimeline(v, s, launched), Lead, ClockLead(s, analysis', v.selected))
      /\ session' = IF rehashed \/ Saved(view') # Saved(view) THEN Saved(view')
                    ELSE IF forgotten THEN NoSession ELSE session
  BY DEF Renders
<1>2. IsView(view') /\ view'.notes = v.notes /\ view'.events = v.events
  BY <1>1, EffectsKeepNotes
<1>3. Shaped'
  BY <1>1, <1>2 DEF Shaped, IsScenario, IsView
<1>4. QED
  BY <1>1, <1>2, <1>3 DEF KeptResult

LEMMA SavedNotes == ASSUME NEW v, NEW w, Saved(v) = Saved(w) PROVE v.notes = w.notes /\ v.events = w.events
<1>1. Saved(v).notes = v.notes /\ Saved(v).events = v.events /\ Saved(w).notes = w.notes /\ Saved(w).events = w.events
  BY DEF Saved
<1>2. QED
  BY <1>1

\* A handler of the mounted lab that launches no other scenario.
LEMMA ChangesKeep ==
  ASSUME LabInv, labOpen, labOpen' = labOpen, NEW v, IsView(v), NEW a, a \in {Busy, Failed, Analyzed(scenario)},
         overtaken' = overtaken \/ overtaken' = (overtaken /\ session' = NoSession),
         NEW rehashed, Renders(scenario, v, a, FALSE, FALSE, rehashed)
  PROVE  LabInv'
<1>1. /\ scenario' = scenario /\ analysis' = a /\ Shaped'
      /\ session' = Saved(view') \/ (Saved(view') = Saved(view) /\ session' = session)
  BY AfterRenders DEF LabInv, Shaped, IsScenario
<1>2. Matched'
  BY <1>1 DEF Matched, Failed, Busy, Analyzed, Candidates
<1>3. Kept'
  BY <1>1, SavedNotes DEF LabInv, Kept
<1>4. QED
  BY <1>1, <1>2, <1>3 DEF LabInv

\* A handler that launches a scenario: the notes are kept, or were taken back.
LEMMA LaunchesKeep ==
  ASSUME LabInv, labOpen, labOpen' = labOpen, NEW s, IsScenario(s), NEW v, IsView(v), NEW forgotten, NEW rehashed,
         forgotten => v.notes = "" /\ v.events = "none",
         overtaken' = (overtaken /\ session' = NoSession),
         Renders(s, v, analysis, TRUE, forgotten, rehashed)
  PROVE  LabInv'
<1>1. /\ scenario' = s /\ analysis' = Busy /\ Shaped' /\ view'.notes = v.notes /\ view'.events = v.events
      /\ \/ session' = Saved(view')
         \/ Saved(view') = Saved(view) /\ session' = IF forgotten THEN NoSession ELSE session
  <2>1. /\ scenario' = s /\ analysis' = IF TRUE THEN Busy ELSE analysis
        /\ Shaped' /\ view'.notes = v.notes /\ view'.events = v.events
        /\ \/ session' = Saved(view')
           \/ ~rehashed /\ Saved(view') = Saved(view) /\ session' = IF forgotten THEN NoSession ELSE session
    BY AfterRenders, Zenon
  <2>2. QED
    BY <2>1
<1>2. Matched'
  BY <1>1 DEF Matched
<1>3. Kept'
  <2>1. CASE forgotten
    BY <1>1, <2>1 DEF Kept
  <2>2. CASE ~forgotten
    BY <1>1, <2>2, SavedNotes DEF LabInv, Kept
  <2>3. QED
    BY <2>1, <2>2
<1>4. QED
  BY <1>1, <1>2, <1>3 DEF LabInv

\* The lab that is mounted saves its session.
LEMMA MountedKeeps == ASSUME NEW s, IsScenario(s), NEW saved, Mounted(s, saved) PROVE LabInv'
<1> DEFINE v == [selected |-> IF saved.saved THEN saved.selected ELSE "coast",
                 seconds |-> IF saved.saved THEN saved.seconds ELSE -TimelineLead(s), playing |-> FALSE,
                 notes |-> IF saved.saved THEN saved.notes ELSE "", hashed |-> saved.saved /\ saved.hashed,
                 events |-> IF saved.saved THEN saved.events ELSE "none"]
<1>1. scenario' = s /\ view' = IntoTimeline(v, s, TRUE) /\ session' = Saved(view') /\ analysis' = Busy
  BY DEF Mounted
<1>2. IsView(v)
  BY DEF IsView
<1> HIDE DEF v
<1>3. IsView(view')
  BY <1>1, <1>2 DEF IntoTimeline, IsView
<1>4. QED
  BY <1>1, <1>3 DEF LabInv, Matched, Shaped, Kept, IsScenario, IsView

----
(* The handlers.                                                           *)

\* A step that changes none of it, or closes the lab and forgets the analysis.
LEMMA Leaves ==
  ASSUME LabInv, UNCHANGED <<scenario, session, overtaken>>, analysis' \in {analysis, Busy},
         \/ UNCHANGED <<labOpen, view>>
         \/ ~labOpen' /\ IsView(view')
  PROVE  LabInv'
<1>1. Matched'
  BY DEF LabInv, Matched, Busy, Analyzed, Candidates
<1>2. Shaped'
  BY DEF LabInv, Shaped, IsView
<1>3. CASE UNCHANGED <<labOpen, view>>
  <2>1. Kept'
    BY <1>3 DEF LabInv, Kept
  <2>2. QED
    BY <1>1, <1>2, <2>1 DEF LabInv
<1>4. CASE ~labOpen'
  BY <1>1, <1>2, <1>4 DEF LabInv, Kept
<1>5. QED
  BY <1>3, <1>4

LEMMA InvestigateKeeps == ASSUME LabInv, Reader, Investigate PROVE LabInv'
<1> USE DEF LabInv, Acts
<1>0. IsView(view) /\ IsScenario(scenario)
  BY DEF Shaped, IsView, IsScenario
<1>1. CASE OpenLab
  BY <1>0, <1>1, MountedKeeps DEF OpenLab
<1>2. CASE \E id \in Missions : OpenReport(id)
  <2> PICK id \in Missions : OpenReport(id)
    BY <1>2
  <2>1. Mounted(FromReport(id), IF id # scenario.id THEN NoSession ELSE session)
    BY DEF OpenReport
  <2>2. IsScenario(FromReport(id))
    BY DEF IsScenario, FromReport
  <2>3. QED
    BY <2>1, <2>2, MountedKeeps
<1>3. CASE CloseLab
  <2>1. IsView(view') /\ ~labOpen' /\ analysis' = Busy
    BY <1>0, <1>3 DEF CloseLab, IsView
  <2>2. overtaken' = FALSE /\ UNCHANGED <<scenario, session>>
    BY <1>3 DEF CloseLab
  <2>3. QED
    BY <2>1, <2>2 DEF Matched, Shaped, Kept, IsView
<1>4. CASE ExampleMission
  <2> DEFINE s == FromReport(Example)
  <2>1. Launched(s, [view EXCEPT !.selected = "coast", !.seconds = -ExampleLead, !.notes = "", !.hashed = FALSE, !.events = "none"])
    BY <1>4 DEF ExampleMission
  <2>2. PICK v : IsEmptied(v, view, -ExampleLead)
    <3>1. IsEmptied([view EXCEPT !.selected = "coast", !.seconds = -ExampleLead, !.notes = "", !.hashed = FALSE, !.events = "none"],
                    view, -ExampleLead)
      BY Zenon DEF IsEmptied, IsReset
    <3>2. QED
      BY <3>1, Zenon
  <2>3. IsView(v) /\ v.notes = "" /\ v.events = "none"
    BY <1>0, <2>2, Emptied
  <2>4. Launched(s, v)
    BY <2>1, <2>2, Zenon DEF IsEmptied, IsReset
  <2>5. IsScenario(s)
    BY DEF IsScenario, FromReport
  <2> HIDE DEF s
  <2>6. Renders(s, v, analysis, TRUE, s.id # scenario.id, FALSE)
    BY <2>4 DEF Launched
  <2>7. labOpen /\ labOpen' = labOpen /\ overtaken' = (overtaken /\ session' = NoSession)
    BY <1>4 DEF ExampleMission
  <2>8. QED
    BY <2>3, <2>5, <2>6, <2>7, LaunchesKeep
<1>5. CASE Retry \/ ImportFile \/ ImportRefused
  BY <1>5, Leaves DEF Retry, ImportFile, ImportRefused, store
<1>6. CASE ExportArchive
  <2>1. IsView([view EXCEPT !.hashed = TRUE])
    BY <1>0, Edited, Zenon
  <2>2. PICK rehashed \in BOOLEAN : Renders(scenario, [view EXCEPT !.hashed = TRUE], analysis, FALSE, FALSE, rehashed)
    BY <1>6 DEF ExportArchive
  <2>3. QED
    BY <1>6, <2>1, <2>2, ChangesKeep DEF ExportArchive, Matched
<1>7. CASE \E n \in Notes : WriteNotes(n)
  <2> PICK n \in Notes : WriteNotes(n)
    BY <1>7
  <2>1. IsView([view EXCEPT !.notes = n])
    BY <1>0, Edited
  <2>2. QED
    BY <2>1, ChangesKeep DEF WriteNotes, Changed, Matched
<1>8. ASSUME NEW s, IsScenario(s), NEW v, IsView(v), NEW archive, NEW by \in Readers,
             Imported(by, s, v, archive), by = "here" => labOpen,
             \/ archive # NotLoaded
             \/ v.notes = "" /\ v.events = "none"
      PROVE  LabInv'
  <2>1. CASE by = "here"
    <3>1. Renders(s, v, analysis, TRUE, s.id # scenario.id, archive # NotLoaded) /\ overtaken' = FALSE
      BY <1>8, <2>1 DEF Imported
    <3>2. /\ scenario' = s /\ analysis' = IF TRUE THEN Busy ELSE analysis
          /\ Shaped' /\ view'.notes = v.notes /\ view'.events = v.events
          /\ \/ session' = Saved(view')
             \/ /\ ~(archive # NotLoaded) /\ Saved(view') = Saved(view)
                /\ session' = IF s.id # scenario.id THEN NoSession ELSE session
      BY <1>8, <3>1, AfterRenders, Zenon
    <3>3. Matched'
      BY <3>2 DEF Matched
    <3>4. ASSUME session' # Saved(view') PROVE session' = NoSession /\ v.notes = "" /\ v.events = "none"
      BY <1>8, <2>1, <3>2, <3>4 DEF Kept
    <3>5. Kept'
      BY <3>2, <3>4 DEF Kept
    <3>6. Shaped'
      BY <3>2, Zenon
    <3>7. QED
      BY <3>3, <3>5, <3>6
  <2>2. CASE by = "gone" /\ labOpen
    <3>1. Renders(s, view, analysis, TRUE, s.id # scenario.id, FALSE) /\ overtaken' = (session' = NoSession)
      BY <1>8, <2>2 DEF Imported, Launched
    <3>2. /\ scenario' = s
          /\ analysis' = IF TRUE THEN Busy ELSE analysis
          /\ Shaped'
          /\ \/ session' = Saved(view')
             \/ Saved(view') = Saved(view) /\ session' = IF s.id # scenario.id THEN NoSession ELSE session
      BY <1>0, <1>8, <3>1, AfterRenders, Zenon
    <3>3. Matched'
      BY <3>2 DEF Matched
    <3>4. session' = Saved(view') \/ session' = NoSession
      BY <2>2, <3>2 DEF Kept
    <3>5. Kept'
      BY <3>1, <3>4 DEF Kept
    <3>6. Shaped'
      BY <3>2, Zenon
    <3>7. QED
      BY <3>3, <3>5, <3>6
  <2>3. CASE by = "gone" /\ ~labOpen
    BY <1>8, <2>3, MountedKeeps DEF Imported
  <2>4. QED
    BY <1>8, <2>1, <2>2, <2>3 DEF Readers
<1>9. CASE \E by \in Readers, f \in Archives : ImportArchive(by, f)
  <2> PICK by \in Readers, f \in Archives : ImportArchive(by, f)
    BY <1>9
  <2> DEFINE v == [view EXCEPT !.selected = f.selected, !.seconds = f.seconds, !.notes = f.notes, !.hashed = TRUE,
                               !.events = f.events]
             archive == [archive |-> TRUE, selected |-> f.selected, seconds |-> f.seconds, notes |-> f.notes,
                         events |-> f.events]
  <2>1. IsScenario(f.scenario)
    BY MissionAssumption DEF IsScenario
  <2>2. IsView(v)
    <3>1. \E a, b, c, d, e : IsReset(v, view, a, b, c, d, e)
      BY Zenon DEF IsReset
    <3> HIDE DEF v
    <3>2. QED
      BY <1>0, <3>1, Reset
  <2>3. archive # NotLoaded
    <3>1. archive.archive = TRUE /\ NotLoaded.archive = FALSE
      BY DEF NotLoaded
    <3>2. QED
      BY <3>1, Zenon
  <2>4. Imported(by, f.scenario, v, archive)
    BY DEF ImportArchive
  <2> HIDE DEF v, archive
  <2>5. by = "here" => labOpen
    BY <2>4 DEF Imported, Reader
  <2>6. QED
    BY <1>8, <2>1, <2>2, <2>3, <2>4, <2>5
<1>10. CASE \E by \in Readers, id \in Missions : ImportCdm(by, id)
  <2> PICK by \in Readers, id \in Missions : ImportCdm(by, id)
    BY <1>10
  <2> DEFINE s == FromReport(id)
  <2>1. PICK v : IsEmptied(v, view, -TimelineLead(s))
    <3>1. IsEmptied([view EXCEPT !.selected = "coast", !.seconds = -TimelineLead(s), !.notes = "", !.hashed = FALSE, !.events = "none"],
                    view, -TimelineLead(s))
      BY Zenon DEF IsEmptied, IsReset
    <3>2. QED
      BY <3>1, Zenon
  <2>2. IsView(v) /\ v.notes = "" /\ v.events = "none"
    BY <1>0, <2>1, Emptied
  <2>3. Imported(by, s, v, NotLoaded)
    BY <2>1, Zenon DEF ImportCdm, IsEmptied, IsReset
  <2>4. by = "here" => labOpen
    BY <2>3 DEF Imported, Reader
  <2>5. IsScenario(s)
    BY DEF IsScenario, FromReport
  <2> HIDE DEF s
  <2>6. QED
    BY <1>8, <2>2, <2>3, <2>4, <2>5
<1>11. QED
  BY <1>1, <1>2, <1>3, <1>4, <1>5, <1>6, <1>7, <1>9, <1>10 DEF Investigate

LEMMA RedesignKeeps == ASSUME LabInv, Redesign PROVE LabInv'
<1> USE DEF LabInv, Acts
<1>0. IsView(view) /\ IsScenario(scenario)
  BY DEF Shaped, IsView, IsScenario
\* A scenario of the same mission is launched.
<1>1. ASSUME NEW s, IsScenario(s), s.id = scenario.id, NEW v, IsView(v), Launched(s, v),
             labOpen, labOpen' = labOpen, overtaken' = (overtaken /\ session' = NoSession)
      PROVE  LabInv'
  <2>1. Renders(s, v, analysis, TRUE, s.id # scenario.id, FALSE)
    BY <1>1 DEF Launched
  <2>2. QED
    BY <1>1, <2>1, LaunchesKeep
<1>2. CASE ApplyRadii
  BY <1>0, <1>1, <1>2 DEF ApplyRadii
<1>3. CASE \E lead \in BurnLeads : ApplySettings(lead)
  <2> PICK lead \in BurnLeads : ApplySettings(lead)
    BY <1>3
  <2>1. IsScenario(WithSettings(lead)) /\ WithSettings(lead).id = scenario.id
    BY <1>0 DEF WithSettings, IsScenario
  <2>2. IsView([view EXCEPT !.hashed = FALSE])
    BY <1>0, Edited, Zenon
  <2>3. QED
    BY <1>1, <2>1, <2>2 DEF ApplySettings
<1>4. CASE \E d \in Designs : SimulateDesign(d)
  <2> PICK d \in Designs : SimulateDesign(d)
    BY <1>4
  <2>1. IsScenario(WithDesign(d)) /\ WithDesign(d).id = scenario.id
    BY <1>0 DEF WithDesign, IsScenario
  <2>2. IsView([view EXCEPT !.selected = d, !.hashed = FALSE])
    BY <1>0, EditedTwice, Zenon
  <2>3. QED
    BY <1>1, <2>1, <2>2 DEF SimulateDesign
<1>5. CASE \E d \in Designs : RemoveDesign(d)
  <2> PICK d \in Designs : RemoveDesign(d)
    BY <1>5
  <2> DEFINE s == [scenario EXCEPT !.designs = Without(@, d)]
             v == [view EXCEPT !.selected = IF @ = d THEN "coast" ELSE @, !.hashed = FALSE]
  <2>1. IsScenario(s) /\ s.id = scenario.id
    BY <1>0 DEF IsScenario
  <2>2. IsView(v)
    BY <1>0, EditedTwice, Zenon
  <2>3. Launched(s, v) /\ labOpen /\ labOpen' = labOpen /\ overtaken' = (overtaken /\ session' = NoSession)
    BY DEF RemoveDesign
  <2> HIDE DEF s, v
  <2>4. QED
    BY <1>1, <2>1, <2>2, <2>3
<1>6. CASE \E c \in {"coast", "burn"} \cup Designs : SelectCandidate(c)
  <2> PICK c : SelectCandidate(c)
    BY <1>6
  <2>1. IsView([view EXCEPT !.selected = c])
    BY <1>0, Edited
  <2>2. QED
    BY <2>1, ChangesKeep DEF SelectCandidate, Changed, Matched
<1>7. QED
  BY <1>2, <1>3, <1>4, <1>5, <1>6 DEF Redesign

LEMMA ReplayKeeps == ASSUME LabInv, Replay PROVE LabInv'
<1> USE DEF LabInv, Acts
<1>1. ASSUME NEW v, IsView(v), Changed(v), labOpen, labOpen' = labOpen,
             overtaken' = (overtaken /\ session' = NoSession)
      PROVE  LabInv'
  BY <1>1, ChangesKeep DEF Changed, Matched
<1>2. \A p, t : IsView([view EXCEPT !.playing = p, !.seconds = t]) /\ IsView([view EXCEPT !.seconds = t, !.playing = p])
                /\ IsView([view EXCEPT !.playing = p])
  <2>1. IsView(view)
    BY DEF Shaped, IsView
  <2>2. QED
    BY <2>1, Edited, EditedTwice, Zenon
<1>3. CASE PlayButton
  BY <1>1, <1>2, <1>3, Zenon DEF PlayButton
<1>4. CASE PlayKey
  BY <1>1, <1>2, <1>4, Zenon DEF PlayKey
<1>5. CASE PlayTick
  BY <1>1, <1>2, <1>5, Zenon DEF PlayTick
<1>6. CASE ResetClock
  BY <1>1, <1>2, <1>6, Zenon DEF ResetClock
<1>7. CASE \E t \in Instants : DragClock(t)
  <2> PICK t : DragClock(t)
    BY <1>7
  <2>1. QED
    BY <1>1, <1>2, Zenon DEF DragClock
<1>8. QED
  BY <1>3, <1>4, <1>5, <1>6, <1>7 DEF Replay

LEMMA CaptureKeeps == ASSUME LabInv, Capture PROVE LabInv'
<1> USE DEF LabInv, Acts
<1>1. CASE Record
  <2>0. IsView(view)
    BY DEF Shaped, IsView
  <2>1. IsView([view EXCEPT !.events = "none"])
    BY <2>0, Edited
  <2>2. QED
    BY <1>1, <2>1, ChangesKeep DEF Record, Changed, Matched
<1>2. CASE StopRecording \/ AppendEvent
  BY <1>2, Leaves DEF StopRecording, AppendEvent, store
<1>3. QED
  BY <1>1, <1>2 DEF Capture

LEMMA WorkedKeeps == ASSUME LabInv, Worked PROVE LabInv'
<1>1. CASE LateAnswer
  BY <1>1, Leaves DEF LateAnswer, AfterLateAnswer, store
<1>2. CASE \E ok \in BOOLEAN : WorkerAnswers(ok)
  <2> PICK ok \in BOOLEAN : WorkerAnswers(ok)
    BY <1>2
  <2> DEFINE a == IF ok THEN Analyzed(scenario) ELSE [state |-> "failed"]
  <2>1. a \in {Busy, Failed, Analyzed(scenario)}
    BY DEF Failed
  <2>2. IsView(view)
    BY DEF LabInv, Shaped, IsView
  <2>3. labOpen /\ labOpen' = labOpen /\ overtaken' = overtaken /\ Renders(scenario, view, a, FALSE, FALSE, FALSE)
    BY DEF WorkerAnswers
  <2> HIDE DEF a
  <2>4. QED
    BY <2>1, <2>2, <2>3, ChangesKeep
<1>3. QED
  BY <1>1, <1>2 DEF Worked

LEMMA ReaderStep == LabInv /\ Reader /\ [LabNext]_labVars => Reader'
<1> SUFFICES ASSUME LabInv, Reader, [LabNext]_labVars PROVE Reader'
  OBVIOUS
<1> USE DEF Reader, Readers, Quiet, store
<1>1. CASE UNCHANGED labVars
  BY <1>1 DEF labVars
<1>2. CASE Investigate
  <2>1. CASE OpenLab \/ \E id \in Missions : OpenReport(id)
    BY <2>1 DEF OpenLab, OpenReport, Mounted
  <2>2. CASE CloseLab \/ ImportFile \/ ImportRefused \/ Retry
    BY <2>2 DEF CloseLab, ImportFile, ImportRefused, Retry
  <2>3. CASE ExampleMission \/ ExportArchive \/ \E n \in Notes : WriteNotes(n)
    BY <2>3 DEF ExampleMission, ExportArchive, WriteNotes
  <2>4. CASE \E by \in Readers : (\E f \in Archives : ImportArchive(by, f)) \/ \E id \in Missions : ImportCdm(by, id)
    <3>1. \E by \in Readers : \E s, v, archive : Imported(by, s, v, archive)
      BY <2>4, Zenon DEF ImportArchive, ImportCdm
    <3>2. PICK by \in Readers : \E s, v, archive : Imported(by, s, v, archive)
      BY <3>1
    <3>3. PICK s, v, archive : Imported(by, s, v, archive)
      BY <3>2
    <3>4. QED
      BY <3>3 DEF Imported, Mounted
  <2>5. QED
    BY <1>2, <2>1, <2>2, <2>3, <2>4 DEF Investigate
<1>3. CASE Redesign
  BY <1>3, Zenon DEF Redesign, ApplyRadii, ApplySettings, SimulateDesign, RemoveDesign, SelectCandidate
<1>4. CASE Replay
  BY <1>4 DEF Replay, PlayButton, PlayKey, PlayTick, ResetClock, DragClock
<1>5. CASE Capture
  BY <1>5 DEF Capture, Record, StopRecording, AppendEvent
<1>6. CASE Worked
  BY <1>6 DEF Worked, LateAnswer, WorkerAnswers
<1>7. QED
  BY <1>1, <1>2, <1>3, <1>4, <1>5, <1>6 DEF LabNext

LEMMA LabStep == LabInv /\ Reader /\ [LabNext]_labVars => (LabInv /\ Reader)'
<1>1. LabInv /\ UNCHANGED labVars => LabInv'
  BY Leaves DEF labVars, store
<1>2. QED
  BY <1>1, ReaderStep, InvestigateKeeps, RedesignKeeps, ReplayKeeps, CaptureKeeps, WorkedKeeps DEF LabNext

LEMMA LabStart == LabInit => LabInv /\ Reader
<1> SUFFICES ASSUME LabInit PROVE LabInv /\ Reader
  OBVIOUS
<1>1. Matched /\ Kept /\ Reader
  BY DEF LabInit, Matched, Kept, Reader
<1>2. Shaped
  BY DEF LabInit, Shaped, FromReport
<1>3. QED
  BY <1>1, <1>2 DEF LabInv

----
(* MissionLab: the replay clock.                                           *)

Scenarios == {s \in [id : Missions, lead : BurnLeads, designs : Seq(Designs)] : ValidScenario(s)}

\* The clock is an instant of the scenario shown, and so is the one saved.
Clocked ==
  /\ scenario \in Scenarios
  /\ view.seconds \in Int /\ (session.saved => session.seconds \in Int)
  /\ ReplayWithinTrajectory

\* A set of numbers with an upper bound has a greatest.
LEMMA Greatest ==
  ASSUME NEW S, NEW b \in Nat, S \subseteq 0..b, S # {}
  PROVE  \E m \in S : \A x \in S : x <= m
<1> DEFINE T == {b - x : x \in S}
<1>1. T \subseteq Nat /\ T # {}
  <2>1. PICK e : e \in S
    OBVIOUS
  <2>2. b - e \in T
    BY <2>1
  <2>3. \A x \in S : b - x \in Nat
    OBVIOUS
  <2>4. QED
    BY <2>2, <2>3
<1>2. PICK t \in T : \A u \in T : ~ (<<u, t>> \in OpToRel(<, Nat))
  <2> HIDE DEF T
  <2>1. QED
    BY <1>1, WFMin, NatLessThanWellFounded
<1>3. \A u \in T : ~(u < t)
  BY <1>1, <1>2 DEF OpToRel
<1>4. PICK m \in S : t = b - m
  OBVIOUS
<1>5. \A x \in S : x <= m
  BY <1>3, <1>4
<1>6. QED
  BY <1>5

LEMMA LeadLimits == Window \in Nat /\ MaxLead \in Nat /\ MaxDesigns \in Nat
  BY MissionAssumption, Zenon

LEMMA LeadOfExample == ExampleLead \in BurnLeads /\ ExampleLead \in Nat /\ ValidLead(ExampleLead)
<1>1. ExampleLead \in BurnLeads /\ BurnLeads \subseteq Nat /\ ExampleLead \in (Window + 1)..MaxLead
  BY MissionAssumption, Zenon
<1>2. QED
  BY <1>1, LeadLimits DEF ValidLead

LEMMA LeadsOf ==
  ASSUME NEW s \in Scenarios
  PROVE  /\ TimelineLead(s) \in Nat /\ s.lead \in Nat /\ s.lead <= TimelineLead(s)
         /\ \A c : LeadOf(s, c) \in Nat /\ Window < LeadOf(s, c) /\ LeadOf(s, c) <= TimelineLead(s)
<1> DEFINE leads == {s.lead} \cup {DesignLead[d] : d \in ToSet(s.designs)}
<1>1. /\ s.lead \in Nat /\ ValidLead(s.lead)
      /\ \A d \in ToSet(s.designs) : d \in Designs /\ DesignLead[d] \in Nat /\ ValidLead(DesignLead[d])
  <2>1. s.designs \in Seq(Designs) /\ s.lead \in BurnLeads /\ ValidScenario(s)
    BY DEF Scenarios
  <2>2. \A d \in ToSet(s.designs) : d \in Designs
    BY <2>1 DEF ToSet
  <2>3. QED
    BY <2>1, <2>2, MissionAssumption DEF ValidScenario
<1>2. leads \subseteq 0..MaxLead /\ leads # {} /\ MaxLead \in Nat /\ Window \in Nat
  <2>1. s.lead \in 0..MaxLead /\ \A d \in ToSet(s.designs) : DesignLead[d] \in 0..MaxLead
    BY <1>1, LeadLimits DEF ValidLead
  <2>2. QED
    BY <2>1, LeadLimits
<1>3. \E l \in leads : \A m \in leads : m <= l
  <2> HIDE DEF leads
  <2>1. QED
    BY <1>2, Greatest
<1>4. TimelineLead(s) \in leads /\ \A m \in leads : m <= TimelineLead(s)
  BY <1>3 DEF TimelineLead
<1>5. \A c : LeadOf(s, c) \in leads /\ Window < LeadOf(s, c)
  BY <1>1 DEF LeadOf, ValidLead
<1>6. QED
  BY <1>1, <1>2, <1>4, <1>5

LEMMA ClockLeads ==
  ASSUME NEW s \in Scenarios, NEW a \in {Busy, Failed, Analyzed(s)}, NEW c
  PROVE  ClockLead(s, a, c) \in Nat /\ Window < ClockLead(s, a, c) /\ ClockLead(s, a, c) <= TimelineLead(s)
<1>1. CASE a = Analyzed(s)
  <2>1. a.state = "ready" /\ a.of = s
    BY <1>1 DEF Analyzed
  <2>2. QED
    BY <2>1, LeadsOf DEF ClockLead
<1>2. CASE a \in {Busy, Failed}
  <2>1. a.state # "ready"
    BY <1>2 DEF Busy, Failed
  <2>2. Window < TimelineLead(s)
    <3>1. /\ TimelineLead(s) \in Nat /\ LeadOf(s, "coast") \in Nat
          /\ Window < LeadOf(s, "coast") /\ LeadOf(s, "coast") <= TimelineLead(s)
      BY LeadsOf
    <3>2. QED
      BY <3>1, LeadLimits
  <2>3. QED
    BY <2>1, <2>2, LeadsOf DEF ClockLead
<1>3. QED
  BY <1>1, <1>2

\* A render brings the clock into the trajectory, and leaves it alone if it is there.
LEMMA ClockAfterRenders ==
  ASSUME NEW s \in Scenarios, NEW v, IsView(v), v.seconds \in Int, NEW a, NEW launched \in BOOLEAN,
         NEW forgotten, NEW rehashed, Renders(s, v, a, launched, forgotten, rehashed),
         launched \/ (a \in {Busy, Failed, Analyzed(s)} /\ v.seconds \in -Lead..Window),
         session.saved => session.seconds \in Int
  PROVE  /\ scenario' = s /\ view'.selected = v.selected
         /\ view'.seconds \in Int /\ view'.seconds \in -Lead'..Window
         /\ v.seconds \in -Lead'..Window => view'.seconds = v.seconds
         /\ session'.saved => session'.seconds \in Int
<1> DEFINE u == IntoTimeline(v, s, launched)
           b == IF launched THEN Busy ELSE a
           after == ClockLead(s, b, v.selected)
<1>1. /\ scenario' = s /\ analysis' = b /\ view' = FollowBurn(u, Lead, after)
      /\ session' = IF rehashed \/ Saved(view') # Saved(view) THEN Saved(view')
                    ELSE IF forgotten THEN NoSession ELSE session
  BY DEF Renders, KeptResult
<1>2. /\ TimelineLead(s) \in Nat /\ Window \in Nat /\ after \in Nat
      /\ launched => after = TimelineLead(s)
  <2>1. b \in {Busy, Failed, Analyzed(s)}
    OBVIOUS
  <2>2. launched => ClockLead(s, Busy, v.selected) = TimelineLead(s)
    BY DEF ClockLead, Busy
  <2>3. QED
    BY <2>1, <2>2, ClockLeads, LeadsOf, LeadLimits
<1>3. /\ IsView(u) /\ u.selected = v.selected
      /\ u.seconds = IF launched THEN Smaller(Window, Greater(-TimelineLead(s), v.seconds)) ELSE v.seconds
  BY DEF IntoTimeline, IsView
<1>4. view'.selected = u.selected /\ view'.seconds = IF Lead = after THEN u.seconds ELSE Greater(-after, u.seconds)
  <2> HIDE DEF u, after
  <2>1. QED
    BY <1>1, <1>3 DEF FollowBurn, IsView
<1>5. Lead' = after
  BY <1>1, <1>3, <1>4 DEF Lead
<1>6. /\ view'.seconds \in Int /\ view'.seconds \in -after..Window
      /\ v.seconds \in -after..Window => view'.seconds = v.seconds
  <2> HIDE DEF after, u
  <2>1. CASE launched
    BY <1>2, <1>3, <1>4, <2>1 DEF Smaller, Greater
  <2>2. CASE ~launched
    BY <1>2, <1>3, <1>4, <2>2 DEF Greater
  <2>3. QED
    BY <2>1, <2>2
<1>7. session'.saved => session'.seconds \in Int
  <2>1. Saved(view').seconds = view'.seconds
    BY DEF Saved
  <2>2. ~NoSession.saved
    BY DEF NoSession
  <2>3. QED
    BY <1>1, <1>6, <2>1, <2>2
<1>8. QED
  BY <1>1, <1>3, <1>4, <1>5, <1>6, <1>7

\* The archive imported last is what the lab shows.
Restored ==
  loaded = NotLoaded \/
    /\ labOpen /\ loaded.selected \in Candidates(scenario)
    /\ loaded.seconds \in -LeadOf(scenario, loaded.selected)..Window
    /\ view.selected = loaded.selected /\ view.seconds = loaded.seconds
    /\ view.notes = loaded.notes /\ view.events = loaded.events

LEMMA EditedSeconds ==
  ASSUME NEW u, IsView(u), NEW a, NEW b
  PROVE  /\ [u EXCEPT !.hashed = a].seconds = u.seconds /\ [u EXCEPT !.selected = a].seconds = u.seconds
         /\ [u EXCEPT !.notes = a].seconds = u.seconds /\ [u EXCEPT !.playing = a].seconds = u.seconds
         /\ [u EXCEPT !.events = a].seconds = u.seconds /\ [u EXCEPT !.hashed = a].selected = u.selected
         /\ [u EXCEPT !.selected = a, !.hashed = b].seconds = u.seconds
         /\ [u EXCEPT !.playing = a, !.seconds = b].seconds = b
         /\ [u EXCEPT !.seconds = b, !.playing = a].seconds = b
  BY DEF IsView

\* What an import or a new mission sets.
LEMMA ResetSeconds ==
  ASSUME NEW u, IsView(u), NEW a, NEW b, NEW c, NEW d, NEW e, NEW w, IsReset(w, u, a, b, c, d, e)
  PROVE  w.selected = a /\ w.seconds = b
  BY DEF IsReset, IsView

LEMMA LeadNow == LabInv /\ Clocked => Lead \in Nat /\ Window < Lead /\ Window \in Nat
  BY ClockLeads, LeadLimits DEF LabInv, Matched, Clocked, Lead

\* A handler that launches no scenario and moves the clock within the trajectory.
LEMMA ChangesClock ==
  ASSUME LabInv, Clocked, NEW v, IsView(v), v.seconds \in Int, v.seconds \in -Lead..Window,
         NEW a \in {Busy, Failed, Analyzed(scenario)}, NEW rehashed,
         Renders(scenario, v, a, FALSE, FALSE, rehashed)
  PROVE  /\ Clocked' /\ scenario' = scenario /\ view'.selected = v.selected
         /\ v.seconds \in -Lead'..Window => view'.seconds = v.seconds
<1>1. /\ scenario' = scenario /\ view'.selected = v.selected
      /\ view'.seconds \in Int /\ view'.seconds \in -Lead'..Window
      /\ v.seconds \in -Lead'..Window => view'.seconds = v.seconds
      /\ session'.saved => session'.seconds \in Int
  BY ClockAfterRenders DEF Clocked
<1>2. Clocked'
  BY <1>1 DEF Clocked, ReplayWithinTrajectory
<1>3. QED
  BY <1>1, <1>2

LEMMA LaunchesClock ==
  ASSUME Clocked, NEW s \in Scenarios, NEW v, IsView(v), v.seconds \in Int, NEW forgotten, NEW rehashed,
         Renders(s, v, analysis, TRUE, forgotten, rehashed)
  PROVE  /\ Clocked' /\ scenario' = s /\ view'.selected = v.selected
         /\ v.seconds \in -Lead'..Window => view'.seconds = v.seconds
<1>1. /\ scenario' = s /\ view'.selected = v.selected
      /\ view'.seconds \in Int /\ view'.seconds \in -Lead'..Window
      /\ v.seconds \in -Lead'..Window => view'.seconds = v.seconds
      /\ session'.saved => session'.seconds \in Int
  BY ClockAfterRenders DEF Clocked
<1>2. Clocked'
  BY <1>1 DEF Clocked, ReplayWithinTrajectory
<1>3. QED
  BY <1>1, <1>2

LEMMA MountedClock ==
  ASSUME NEW s \in Scenarios, NEW saved, saved.saved => saved.seconds \in Int, Mounted(s, saved)
  PROVE  Clocked'
<1> DEFINE v == [selected |-> IF saved.saved THEN saved.selected ELSE "coast",
                 seconds |-> IF saved.saved THEN saved.seconds ELSE -TimelineLead(s), playing |-> FALSE,
                 notes |-> IF saved.saved THEN saved.notes ELSE "", hashed |-> saved.saved /\ saved.hashed,
                 events |-> IF saved.saved THEN saved.events ELSE "none"]
<1>1. scenario' = s /\ view' = IntoTimeline(v, s, TRUE) /\ session' = Saved(view') /\ analysis' = Busy
  BY DEF Mounted
<1>2. TimelineLead(s) \in Nat /\ Window \in Nat
  BY LeadsOf, LeadLimits
<1>3. IsView(v) /\ v.seconds \in Int
  BY <1>2 DEF IsView
<1> HIDE DEF v
<1>4. view'.seconds = Smaller(Window, Greater(-TimelineLead(s), v.seconds))
  BY <1>1, <1>3 DEF IntoTimeline, IsView
<1>5. view'.seconds \in Int /\ view'.seconds \in -TimelineLead(s)..Window
  BY <1>2, <1>3, <1>4 DEF Smaller, Greater
<1>6. Lead' = TimelineLead(s)
  BY <1>1 DEF Lead, ClockLead, Busy
<1>7. Saved(view').seconds = view'.seconds
  BY DEF Saved
<1>8. QED
  BY <1>1, <1>5, <1>6, <1>7 DEF Clocked, ReplayWithinTrajectory

\* The scenarios that are launched.
LEMMA ExampleScenario == \A id \in Missions : FromReport(id) \in Scenarios
<1> SUFFICES ASSUME NEW id \in Missions PROVE FromReport(id) \in Scenarios
  OBVIOUS
<1>1. /\ FromReport(id) \in [id : Missions, lead : BurnLeads, designs : Seq(Designs)]
      /\ FromReport(id).lead = ExampleLead /\ FromReport(id).designs = <<>>
  BY LeadOfExample DEF FromReport
<1>2. ValidLead(ExampleLead) /\ MaxDesigns \in Nat
  BY LeadOfExample, LeadLimits
<1>3. Len(<<>>) = 0 /\ ToSet(<<>>) = {} /\ IsInjective(<<>>)
  BY DEF ToSet, IsInjective
<1>4. QED
  BY <1>1, <1>2, <1>3 DEF Scenarios, ValidScenario

LEMMA RemovedAt ==
  ASSUME NEW S, NEW q \in Seq(S), NEW i \in DOMAIN q
  PROVE  /\ RemoveAt(q, i) \in Seq(S) /\ Len(RemoveAt(q, i)) = Len(q) - 1
         /\ \A k \in DOMAIN RemoveAt(q, i) :
              (k < i => k \in DOMAIN q /\ RemoveAt(q, i)[k] = q[k])
                /\ (k >= i => k + 1 \in DOMAIN q /\ RemoveAt(q, i)[k] = q[k + 1])
<1> DEFINE l == SubSeq(q, 1, i - 1)
           m == SubSeq(q, i + 1, Len(q))
           c == l \o m
<1>1. i \in 1..Len(q) /\ Len(q) \in Nat
  OBVIOUS
<1>2. l \in Seq(S) /\ Len(l) = i - 1 /\ \A k \in 1..(i - 1) : l[k] = q[k]
  BY <1>1
<1>3. m \in Seq(S) /\ Len(m) = Len(q) - i /\ \A k \in 1..(Len(q) - i) : m[k] = q[i + k]
  BY <1>1
<1>4. RemoveAt(q, i) = c
  BY DEF RemoveAt
<1> HIDE DEF l, m
<1>5. c \in Seq(S) /\ Len(c) = Len(q) - 1 /\ \A k \in 1..(Len(q) - 1) : c[k] = IF k < i THEN q[k] ELSE q[k + 1]
  BY <1>1, <1>2, <1>3
<1> HIDE DEF c
<1>6. \A k \in DOMAIN c : (k < i => k \in DOMAIN q /\ c[k] = q[k]) /\ (k >= i => k + 1 \in DOMAIN q /\ c[k] = q[k + 1])
  BY <1>1, <1>5
<1>7. QED
  BY <1>4, <1>5, <1>6

LEMMA WithoutDesign ==
  ASSUME Clocked, NEW d, Contains(scenario.designs, d)
  PROVE  [scenario EXCEPT !.designs = Without(@, d)] \in Scenarios
<1> DEFINE q == scenario.designs
           i == CHOOSE j \in DOMAIN q : q[j] = d
<1>1. q \in Seq(Designs) /\ i \in DOMAIN q /\ Without(q, d) = RemoveAt(q, i)
  BY DEF Clocked, Scenarios, Contains, Without
<1>2. ValidScenario(scenario) /\ scenario \in [id : Missions, lead : BurnLeads, designs : Seq(Designs)]
  BY DEF Clocked, Scenarios
<1> DEFINE r == RemoveAt(q, i)
           s == [scenario EXCEPT !.designs = r]
<1>3. /\ r \in Seq(Designs) /\ Len(r) <= Len(q)
      /\ \A k \in DOMAIN r : k \in Nat
           /\ (k < i => k \in DOMAIN q /\ r[k] = q[k]) /\ (k >= i => k + 1 \in DOMAIN q /\ r[k] = q[k + 1])
  <2> HIDE DEF q, i
  <2>1. /\ r \in Seq(Designs) /\ Len(r) = Len(q) - 1
        /\ \A k \in DOMAIN r :
             /\ k < i => k \in DOMAIN q /\ r[k] = q[k]
             /\ k >= i => k + 1 \in DOMAIN q /\ r[k] = q[k + 1]
    BY <1>1, RemovedAt, Zenon
  <2> HIDE DEF r
  <2>2. Len(q) \in Nat /\ \A k \in DOMAIN r : k \in Nat
    BY <1>1, <2>1
  <2>3. Len(r) <= Len(q)
    BY <2>1, <2>2
  <2>4. QED
    BY <2>1, <2>2, <2>3, Zenon
<1>4. i \in Nat
  BY <1>1
<1> HIDE DEF i, r
<1>5. ToSet(r) \subseteq ToSet(q) /\ (IsInjective(q) => IsInjective(r))
  <2> HIDE DEF q
  <2>1. ASSUME NEW k \in DOMAIN r
        PROVE  \E n \in DOMAIN q : r[k] = q[n] /\ n = IF k < i THEN k ELSE k + 1
    <3>1. k \in Nat /\ (k < i \/ k >= i)
      BY <1>3, <1>4
    <3>2. QED
      BY <1>3, <1>4, <3>1
  <2>2. ToSet(r) \subseteq ToSet(q)
    BY <2>1 DEF ToSet
  <2>3. ASSUME IsInjective(q), NEW k \in DOMAIN r, NEW l \in DOMAIN r, r[k] = r[l] PROVE k = l
    <3>1. (IF k < i THEN k ELSE k + 1) = (IF l < i THEN l ELSE l + 1)
      BY <2>1, <2>3, Zenon DEF IsInjective
    <3>2. k \in Nat /\ l \in Nat
      BY <1>3
    <3>3. QED
      BY <1>4, <3>1, <3>2
  <2>4. QED
    BY <2>2, <2>3 DEF IsInjective
<1>6. s \in [id : Missions, lead : BurnLeads, designs : Seq(Designs)] /\ s.lead = scenario.lead /\ s.designs = r
  BY <1>2, <1>3
<1>7. Len(r) <= MaxDesigns
  <2>0. Len(q) <= MaxDesigns
    BY <1>2 DEF ValidScenario
  <2>1. Len(r) \in Nat /\ Len(q) \in Nat /\ Len(q) <= MaxDesigns
    BY <1>1, <1>3, <2>0
  <2>2. QED
    BY <2>1, <1>3, LeadLimits
<1>8. s \in Scenarios
  BY <1>2, <1>5, <1>6, <1>7 DEF Scenarios, ValidScenario
<1>9. QED
  BY <1>1, <1>8 DEF r

LEMMA WithNewDesign ==
  ASSUME Clocked, NEW d \in Designs, ValidScenario(WithDesign(d))
  PROVE  WithDesign(d) \in Scenarios
<1>1. scenario \in [id : Missions, lead : BurnLeads, designs : Seq(Designs)]
  BY DEF Clocked, Scenarios
<1> DEFINE q == Append(scenario.designs, d)
<1>2. q \in Seq(Designs)
  BY <1>1
<1> HIDE DEF q
<1>3. LastDesigns(q) \in Seq(Designs)
  <2>1. Len(q) \in Nat
    BY <1>2
  <2>2. LastDesigns(q) = SubSeq(q, IF 1 > Len(q) - MaxDesigns + 1 THEN 1 ELSE Len(q) - MaxDesigns + 1, Len(q))
    BY DEF LastDesigns, Greater
  <2>3. QED
    BY <1>2, <2>1, <2>2, LeadLimits
<1>4. WithDesign(d) = [scenario EXCEPT !.designs = LastDesigns(q)]
  BY DEF WithDesign, q
<1>5. WithDesign(d) \in [id : Missions, lead : BurnLeads, designs : Seq(Designs)]
  BY <1>1, <1>3, <1>4
<1>6. QED
  BY <1>5 DEF Scenarios

SessionInv == Clocked /\ Restored

\* Whatever the analyst does ends the comparison with the archive.
LEMMA ActsRestored == ASSUME Acts PROVE Restored'
  BY DEF Acts, Restored

\* A step that changes none of it.
LEMMA ClockRests ==
  ASSUME SessionInv, LabInv, UNCHANGED <<labOpen, scenario, session, view>>,
         loaded' \in {loaded, NotLoaded}, analysis' = analysis \/ (analysis = Failed /\ analysis' = Busy)
  PROVE  SessionInv'
<1>1. Lead' = Lead
  BY DEF Lead, ClockLead, Failed, Busy
<1>2. QED
  BY <1>1 DEF SessionInv, Clocked, Restored, ReplayWithinTrajectory

LEMMA ImportedClock ==
  ASSUME LabInv, Reader, Clocked, NEW s \in Scenarios, NEW v, IsView(v), v.seconds \in Int,
         NEW archive, NEW by \in Readers, Imported(by, s, v, archive),
         \/ archive = NotLoaded
         \/ /\ archive.selected \in Candidates(s) /\ archive.seconds \in -LeadOf(s, archive.selected)..Window
            /\ v.selected = archive.selected /\ v.seconds = archive.seconds
            /\ v.notes = archive.notes /\ v.events = archive.events
  PROVE  SessionInv'
<1>0. /\ IsView(view) /\ view.seconds \in Int /\ (session.saved => session.seconds \in Int)
      /\ TimelineLead(s) \in Nat /\ LeadOf(s, archive.selected) \in Nat
      /\ LeadOf(s, archive.selected) <= TimelineLead(s) /\ Window \in Nat
  BY LeadsOf, LeadLimits DEF Clocked, LabInv, Shaped, IsView
<1>1. CASE by = "here"
  <2>1. Renders(s, v, analysis, TRUE, s.id # scenario.id, archive # NotLoaded) /\ labOpen' /\ loaded' = archive
    BY <1>1 DEF Imported, Reader
  <2>2. /\ Clocked' /\ scenario' = s /\ view'.selected = v.selected
        /\ v.seconds \in -Lead'..Window => view'.seconds = v.seconds
    BY <2>1, LaunchesClock
  <2>3. analysis' = Busy /\ view'.notes = v.notes /\ view'.events = v.events
    <3>1. IsScenario(s)
      BY DEF Scenarios, IsScenario
    <3>2. /\ scenario' = s /\ analysis' = IF TRUE THEN Busy ELSE analysis
          /\ Shaped' /\ view'.notes = v.notes /\ view'.events = v.events
      BY <2>1, <3>1, AfterRenders, Zenon
    <3>3. QED
      BY <3>2
  <2>4. Lead' = TimelineLead(s)
    BY <2>2, <2>3 DEF Lead, ClockLead, Busy
  <2>5. CASE archive = NotLoaded
    BY <2>1, <2>2, <2>5 DEF SessionInv, Restored
  <2>6. CASE archive # NotLoaded
    <3>1. v.seconds \in -Lead'..Window
      BY <1>0, <2>4, <2>6
    <3>2. QED
      BY <2>1, <2>2, <2>3, <2>6, <3>1 DEF SessionInv, Restored
  <2>7. QED
    BY <2>5, <2>6
<1>2. CASE by = "gone" /\ labOpen
  <2>1. Renders(s, view, analysis, TRUE, s.id # scenario.id, FALSE) /\ loaded' = NotLoaded
    BY <1>2 DEF Imported, Launched
  <2>2. Clocked'
    BY <1>0, <2>1, LaunchesClock
  <2>3. QED
    BY <2>1, <2>2 DEF SessionInv, Restored
<1>3. CASE by = "gone" /\ ~labOpen
  <2>1. Mounted(s, IF s.id # scenario.id THEN NoSession ELSE session) /\ loaded' = NotLoaded
    BY <1>3 DEF Imported
  <2>2. NoSession.saved = FALSE
    BY DEF NoSession
  <2>3. Clocked'
    BY <1>0, <2>1, <2>2, MountedClock
  <2>4. QED
    BY <2>1, <2>3 DEF SessionInv, Restored
<1>4. QED
  BY <1>1, <1>2, <1>3 DEF Readers

LEMMA InvestigateClock == ASSUME LabInv, Reader, SessionInv, Investigate PROVE SessionInv'
<1>0. /\ IsView(view) /\ view.seconds \in Int /\ (session.saved => session.seconds \in Int)
      /\ scenario \in Scenarios /\ Clocked
      /\ labOpen => view.seconds \in -Lead..Window
  BY DEF LabInv, Shaped, IsView, SessionInv, Clocked, ReplayWithinTrajectory
<1>1. CASE OpenLab
  BY <1>0, <1>1, MountedClock, ActsRestored DEF OpenLab, SessionInv
<1>2. CASE \E id \in Missions : OpenReport(id)
  <2> PICK id \in Missions : OpenReport(id)
    BY <1>2
  <2>1. Mounted(FromReport(id), IF id # scenario.id THEN NoSession ELSE session) /\ Acts
    BY DEF OpenReport
  <2>2. NoSession.saved = FALSE
    BY DEF NoSession
  <2>3. FromReport(id) \in Scenarios
    BY ExampleScenario
  <2>4. Clocked'
    BY <1>0, <2>1, <2>2, <2>3, MountedClock
  <2>5. QED
    BY <2>1, <2>4, ActsRestored DEF SessionInv
<1>3. CASE CloseLab
  <2>1. view' = [view EXCEPT !.playing = FALSE] /\ ~labOpen' /\ loaded' = NotLoaded /\ UNCHANGED <<scenario, session>>
    BY <1>3 DEF CloseLab
  <2>2. view'.seconds = view.seconds
    BY <1>0, <2>1, EditedSeconds
  <2>3. QED
    BY <1>0, <2>1, <2>2 DEF SessionInv, Clocked, Restored, ReplayWithinTrajectory
<1>4. CASE ExampleMission
  <2>1. PICK v : IsEmptied(v, view, -ExampleLead) /\ Launched(FromReport(Example), v)
    <3>1. Launched(FromReport(Example), [view EXCEPT !.selected = "coast", !.seconds = -ExampleLead, !.notes = "",
                                                     !.hashed = FALSE, !.events = "none"])
      BY <1>4 DEF ExampleMission
    <3>2. IsEmptied([view EXCEPT !.selected = "coast", !.seconds = -ExampleLead, !.notes = "", !.hashed = FALSE,
                                 !.events = "none"], view, -ExampleLead)
      BY Zenon DEF IsEmptied, IsReset
    <3>3. QED
      BY <3>1, <3>2, Zenon
  <2>2. IsView(v)
    BY <1>0, <2>1, Emptied
  <2>3. v.seconds = -ExampleLead
    <3>1. IsReset(v, view, "coast", -ExampleLead, "", FALSE, "none")
      BY <2>1 DEF IsEmptied
    <3>2. QED
      BY <1>0, <3>1 DEF IsReset, IsView
  <2>4. v.seconds \in Int
    BY <2>3, LeadOfExample
  <2>5. FromReport(Example) \in Scenarios
    <3>1. Example \in Missions
      BY MissionAssumption, Zenon
    <3>2. QED
      BY <3>1, ExampleScenario
  <2>6. Clocked'
    <3>1. \E forgotten : Renders(FromReport(Example), v, analysis, TRUE, forgotten, FALSE)
      BY <2>1 DEF Launched
    <3>2. QED
      BY <1>0, <2>2, <2>4, <2>5, <3>1, LaunchesClock
  <2>7. Acts
    BY <1>4 DEF ExampleMission
  <2>8. QED
    BY <2>6, <2>7, ActsRestored DEF SessionInv
<1>5. CASE Retry \/ ImportFile \/ ImportRefused
  <2>1. /\ UNCHANGED <<labOpen, scenario, session, view, loaded>>
        /\ analysis' = analysis \/ (analysis.state = "failed" /\ analysis' = Busy)
    BY <1>5 DEF Retry, ImportFile, ImportRefused, store
  <2>2. analysis.state = "failed" => analysis = Failed
    BY DEF LabInv, Matched, Busy, Failed, Analyzed
  <2>3. QED
    BY <2>1, <2>2, ClockRests
<1>6. CASE ExportArchive
  <2> DEFINE v == [view EXCEPT !.hashed = TRUE]
  <2>1. /\ IsView(v) /\ v.seconds = view.seconds /\ v.notes = view.notes /\ v.events = view.events
        /\ v.selected = view.selected
    <3>1. IsView(v) /\ v.notes = view.notes /\ v.events = view.events
      BY <1>0, Edited
    <3>2. v.seconds = view.seconds /\ v.selected = view.selected
      BY <1>0, EditedSeconds
    <3>3. QED
      BY <3>1, <3>2
  <2>2. PICK rehashed \in BOOLEAN :
          labOpen /\ labOpen' /\ loaded' = loaded /\ Renders(scenario, v, analysis, FALSE, FALSE, rehashed)
    BY <1>6 DEF ExportArchive
  <2> HIDE DEF v
  <2>3. /\ Clocked' /\ scenario' = scenario /\ view'.selected = v.selected
        /\ v.seconds \in -Lead'..Window => view'.seconds = v.seconds
    BY <1>0, <2>1, <2>2, ChangesClock DEF LabInv, Matched
  <2>4. analysis' = analysis /\ view'.notes = v.notes /\ view'.events = v.events
    BY <1>0, <2>1, <2>2, AfterRenders DEF LabInv, Shaped, IsScenario
  <2>5. Lead' = Lead
    BY <2>1, <2>3, <2>4 DEF Lead
  <2>6. Restored'
    BY <1>0, <2>1, <2>2, <2>3, <2>4, <2>5 DEF SessionInv, Restored
  <2>7. QED
    BY <2>3, <2>6 DEF SessionInv
<1>7. CASE \E n \in Notes : WriteNotes(n)
  <2> PICK n \in Notes : WriteNotes(n)
    BY <1>7
  <2>1. IsView([view EXCEPT !.notes = n]) /\ [view EXCEPT !.notes = n].seconds = view.seconds
    BY <1>0, Edited, EditedSeconds, Zenon
  <2>2. labOpen /\ Acts /\ Renders(scenario, [view EXCEPT !.notes = n], analysis, FALSE, FALSE, FALSE)
    BY DEF WriteNotes, Changed
  <2>3. Clocked'
    BY <1>0, <2>1, <2>2, ChangesClock DEF LabInv, Matched
  <2>4. QED
    BY <2>2, <2>3, ActsRestored DEF SessionInv
<1>8. CASE \E by \in Readers, f \in Archives : ImportArchive(by, f)
  <2> PICK by \in Readers, f \in Archives : ImportArchive(by, f)
    BY <1>8
  <2> DEFINE v == [view EXCEPT !.selected = f.selected, !.seconds = f.seconds, !.notes = f.notes, !.hashed = TRUE,
                               !.events = f.events]
             archive == [archive |-> TRUE, selected |-> f.selected, seconds |-> f.seconds, notes |-> f.notes,
                         events |-> f.events]
  <2>1. f.scenario \in Scenarios
    BY MissionAssumption DEF ImportArchive, ValidArchive, Scenarios
  <2>2. Imported(by, f.scenario, v, archive)
    BY DEF ImportArchive
  <2>3. f.selected \in Candidates(f.scenario) /\ f.seconds \in -LeadOf(f.scenario, f.selected)..Window
    BY ArchivesAssumption DEF Restorable
  <2>4. f.seconds \in Int
    BY <2>3
  <2>5. /\ archive.selected = f.selected /\ archive.seconds = f.seconds
        /\ archive.notes = f.notes /\ archive.events = f.events
    OBVIOUS
  <2>6. \E d : IsReset(v, view, f.selected, f.seconds, f.notes, d, f.events)
    BY Zenon DEF IsReset
  <2> HIDE DEF v, archive
  <2>7. IsView(v) /\ v.selected = f.selected /\ v.seconds = f.seconds /\ v.notes = f.notes /\ v.events = f.events
    BY <1>0, <2>6, Reset, ResetSeconds
  <2>8. QED
    BY <1>0, <2>1, <2>2, <2>3, <2>4, <2>5, <2>7, ImportedClock
<1>9. CASE \E by \in Readers, id \in Missions : ImportCdm(by, id)
  <2> PICK by \in Readers, id \in Missions : ImportCdm(by, id)
    BY <1>9
  <2>1. PICK v : IsEmptied(v, view, -TimelineLead(FromReport(id))) /\ Imported(by, FromReport(id), v, NotLoaded)
    <3>1. IsEmptied([view EXCEPT !.selected = "coast", !.seconds = -TimelineLead(FromReport(id)), !.notes = "",
                                 !.hashed = FALSE, !.events = "none"], view, -TimelineLead(FromReport(id)))
      BY Zenon DEF IsEmptied, IsReset
    <3>2. Imported(by, FromReport(id), [view EXCEPT !.selected = "coast", !.seconds = -TimelineLead(FromReport(id)), !.notes = "",
                                                    !.hashed = FALSE, !.events = "none"], NotLoaded)
      BY DEF ImportCdm
    <3>3. QED
      BY <3>1, <3>2, Zenon
  <2>2. IsView(v) /\ v.seconds = -TimelineLead(FromReport(id))
    <3>1. IsReset(v, view, "coast", -TimelineLead(FromReport(id)), "", FALSE, "none")
      BY <2>1 DEF IsEmptied
    <3>2. QED
      <4>1. IsView(v)
        BY <1>0, <2>1, Emptied
      <4>2. v.seconds = -TimelineLead(FromReport(id))
        BY <1>0, <3>1 DEF IsReset, IsView
      <4>3. QED
        BY <4>1, <4>2
  <2>3. FromReport(id) \in Scenarios /\ v.seconds \in Int
    BY <2>2, ExampleScenario, LeadsOf
  <2>4. QED
    BY <1>0, <2>1, <2>2, <2>3, ImportedClock
<1>10. QED
  BY <1>1, <1>2, <1>3, <1>4, <1>5, <1>6, <1>7, <1>8, <1>9 DEF Investigate

LEMMA RedesignClock == ASSUME LabInv, SessionInv, Redesign PROVE SessionInv'
<1>0. IsView(view) /\ view.seconds \in Int /\ scenario \in Scenarios /\ Clocked
  BY DEF LabInv, Shaped, IsView, SessionInv, Clocked
<1>1. ASSUME NEW s \in Scenarios, NEW v, IsView(v), v.seconds \in Int, Launched(s, v), Acts PROVE SessionInv'
  <2>1. \E forgotten : Renders(s, v, analysis, TRUE, forgotten, FALSE)
    BY <1>1 DEF Launched
  <2>2. Clocked'
    BY <1>0, <1>1, <2>1, LaunchesClock
  <2>3. QED
    BY <1>1, <2>2, ActsRestored DEF SessionInv
<1>2. CASE ApplyRadii
  BY <1>0, <1>1, <1>2 DEF ApplyRadii
<1>3. CASE \E lead \in BurnLeads : ApplySettings(lead)
  <2> PICK lead \in BurnLeads : ApplySettings(lead)
    BY <1>3
  <2>1. WithSettings(lead) \in Scenarios
    <3>1. scenario \in [id : Missions, lead : BurnLeads, designs : Seq(Designs)]
      BY <1>0 DEF Scenarios
    <3>2. WithSettings(lead) \in [id : Missions, lead : BurnLeads, designs : Seq(Designs)]
      BY <3>1 DEF WithSettings
    <3>3. QED
      BY <3>2 DEF Scenarios, ApplySettings
  <2>2. IsView([view EXCEPT !.hashed = FALSE]) /\ [view EXCEPT !.hashed = FALSE].seconds = view.seconds
    BY <1>0, Edited, EditedSeconds, Zenon
  <2>3. QED
    BY <1>0, <1>1, <2>1, <2>2 DEF ApplySettings
<1>4. CASE \E d \in Designs : SimulateDesign(d)
  <2> PICK d \in Designs : SimulateDesign(d)
    BY <1>4
  <2>1. WithDesign(d) \in Scenarios
    BY <1>0, WithNewDesign DEF SimulateDesign
  <2>2. IsView([view EXCEPT !.selected = d, !.hashed = FALSE])
    BY <1>0, EditedTwice, Zenon
  <2>3. [view EXCEPT !.selected = d, !.hashed = FALSE].seconds = view.seconds
    BY <1>0 DEF IsView
  <2>4. QED
    BY <1>0, <1>1, <2>1, <2>2, <2>3 DEF SimulateDesign
<1>5. CASE \E d \in Designs : RemoveDesign(d)
  <2> PICK d \in Designs : RemoveDesign(d)
    BY <1>5
  <2> DEFINE s == [scenario EXCEPT !.designs = Without(@, d)]
             v == [view EXCEPT !.selected = IF @ = d THEN "coast" ELSE @, !.hashed = FALSE]
  <2>1. s \in Scenarios
    BY <1>0, WithoutDesign DEF RemoveDesign
  <2>2. IsView(v)
    BY <1>0, EditedTwice, Zenon
  <2>3. v.seconds = view.seconds
    BY <1>0 DEF IsView
  <2>4. Launched(s, v) /\ Acts
    BY DEF RemoveDesign
  <2> HIDE DEF s, v
  <2>5. QED
    BY <1>0, <1>1, <2>1, <2>2, <2>3, <2>4
<1>6. CASE \E c \in {"coast", "burn"} \cup Designs : SelectCandidate(c)
  <2> PICK c : SelectCandidate(c)
    BY <1>6
  <2>1. IsView([view EXCEPT !.selected = c]) /\ [view EXCEPT !.selected = c].seconds = view.seconds
    BY <1>0, Edited, EditedSeconds, Zenon
  <2>2. Acts /\ view.seconds \in -Lead..Window /\ Renders(scenario, [view EXCEPT !.selected = c], analysis, FALSE, FALSE, FALSE)
    BY <1>0 DEF SelectCandidate, Changed, Clocked, ReplayWithinTrajectory
  <2>3. Clocked'
    BY <1>0, <2>1, <2>2, ChangesClock DEF LabInv, Matched
  <2>4. QED
    BY <2>2, <2>3, ActsRestored DEF SessionInv
<1>7. QED
  BY <1>2, <1>3, <1>4, <1>5, <1>6 DEF Redesign

LEMMA ReplayClock == ASSUME LabInv, SessionInv, Replay PROVE SessionInv'
<1>0. /\ IsView(view) /\ view.seconds \in Int /\ Clocked
      /\ labOpen => view.seconds \in -Lead..Window
      /\ Lead \in Nat /\ Window \in Nat
  BY LeadNow DEF LabInv, Shaped, IsView, SessionInv, Clocked, ReplayWithinTrajectory
<1>1. ASSUME NEW v, IsView(v), v.seconds \in Int, v.seconds \in -Lead..Window, Changed(v), Acts PROVE SessionInv'
  <2>1. Clocked'
    BY <1>0, <1>1, ChangesClock DEF Changed, LabInv, Matched
  <2>2. QED
    BY <1>1, <2>1, ActsRestored DEF SessionInv
<1>2. ASSUME NEW p, NEW t
      PROVE  /\ IsView([view EXCEPT !.playing = p, !.seconds = t]) /\ [view EXCEPT !.playing = p, !.seconds = t].seconds = t
             /\ IsView([view EXCEPT !.seconds = t, !.playing = p]) /\ [view EXCEPT !.seconds = t, !.playing = p].seconds = t
             /\ IsView([view EXCEPT !.playing = p]) /\ [view EXCEPT !.playing = p].seconds = view.seconds
  <2>1. IsView([view EXCEPT !.playing = p, !.seconds = t]) /\ IsView([view EXCEPT !.seconds = t, !.playing = p])
    BY <1>0, EditedTwice, Zenon
  <2>2. IsView([view EXCEPT !.playing = p])
    BY <1>0, Edited
  <2>3. /\ [view EXCEPT !.playing = p, !.seconds = t].seconds = t /\ [view EXCEPT !.seconds = t, !.playing = p].seconds = t
        /\ [view EXCEPT !.playing = p].seconds = view.seconds
    BY <1>0, EditedSeconds
  <2>4. QED
    BY <2>1, <2>2, <2>3
<1>3. CASE PlayButton
  <2>1. PICK p, t : Changed([view EXCEPT !.playing = p, !.seconds = t]) /\ t \in {view.seconds, -Lead}
    BY <1>3 DEF PlayButton
  <2>2. labOpen /\ Acts
    BY <1>3 DEF PlayButton
  <2>3. t \in Int /\ t \in -Lead..Window
    BY <1>0, <2>1, <2>2
  <2> DEFINE v == [view EXCEPT !.playing = p, !.seconds = t]
  <2>4. IsView(v) /\ v.seconds = t
    BY <1>2, Zenon
  <2>5. Changed(v)
    BY <2>1
  <2> HIDE DEF v
  <2>6. QED
    BY <1>1, <2>2, <2>3, <2>4, <2>5
<1>4. CASE PlayKey
  BY <1>0, <1>1, <1>2, <1>4, Zenon DEF PlayKey
<1>5. CASE PlayTick
  <2>1. labOpen /\ Acts
    BY <1>5 DEF PlayTick
  <2>2. PICK p, t : Changed([view EXCEPT !.seconds = t, !.playing = p]) /\ t = Smaller(view.seconds + 1, Window)
    BY <1>5 DEF PlayTick
  <2>3. t \in Int /\ t \in -Lead..Window
    BY <1>0, <2>1, <2>2 DEF Smaller
  <2> DEFINE v == [view EXCEPT !.seconds = t, !.playing = p]
  <2>4. IsView(v) /\ v.seconds = t
    BY <1>2, Zenon
  <2>5. Changed(v)
    BY <2>2
  <2> HIDE DEF v
  <2>6. QED
    BY <1>1, <2>1, <2>3, <2>4, <2>5
<1>6. CASE ResetClock
  <2>1. labOpen /\ Acts /\ Changed([view EXCEPT !.playing = FALSE, !.seconds = -Lead])
    BY <1>6 DEF ResetClock
  <2>2. -Lead \in Int /\ -Lead \in -Lead..Window
    BY <1>0
  <2> DEFINE v == [view EXCEPT !.playing = FALSE, !.seconds = -Lead]
  <2>3. IsView(v) /\ v.seconds = -Lead
    BY <1>2, Zenon
  <2>4. Changed(v)
    BY <2>1
  <2> HIDE DEF v
  <2>5. QED
    BY <1>1, <2>1, <2>2, <2>3, <2>4
<1>7. CASE \E t \in Instants : DragClock(t)
  <2> PICK t : DragClock(t)
    BY <1>7
  <2>1. labOpen /\ Acts /\ Changed([view EXCEPT !.playing = FALSE, !.seconds = t]) /\ t \in -Lead..Window
    BY DEF DragClock
  <2>2. t \in Int
    BY <1>0, <2>1
  <2> DEFINE v == [view EXCEPT !.playing = FALSE, !.seconds = t]
  <2>3. IsView(v) /\ v.seconds = t
    BY <1>2, Zenon
  <2>4. Changed(v)
    BY <2>1
  <2> HIDE DEF v
  <2>5. QED
    BY <1>1, <2>1, <2>2, <2>3, <2>4
<1>8. QED
  BY <1>3, <1>4, <1>5, <1>6, <1>7 DEF Replay

LEMMA CaptureClock == ASSUME LabInv, SessionInv, Capture PROVE SessionInv'
<1>1. CASE Record
  <2>1. IsView(view) /\ view.seconds \in Int /\ Clocked
    BY DEF LabInv, Shaped, IsView, SessionInv, Clocked
  <2>2. IsView([view EXCEPT !.events = "none"]) /\ [view EXCEPT !.events = "none"].seconds = view.seconds
    BY <2>1, Edited, EditedSeconds, Zenon
  <2>3. Acts /\ view.seconds \in -Lead..Window /\ Renders(scenario, [view EXCEPT !.events = "none"], analysis, FALSE, FALSE, FALSE)
    BY <1>1, <2>1 DEF Record, Changed, Clocked, ReplayWithinTrajectory
  <2>4. Clocked'
    BY <2>1, <2>2, <2>3, ChangesClock DEF LabInv, Matched
  <2>5. QED
    BY <2>3, <2>4, ActsRestored DEF SessionInv
<1>2. CASE StopRecording \/ AppendEvent
  BY <1>2, ClockRests DEF StopRecording, AppendEvent, store
<1>3. QED
  BY <1>1, <1>2 DEF Capture

LEMMA WorkedClock == ASSUME LabInv, SessionInv, Worked PROVE SessionInv'
<1>1. CASE LateAnswer
  BY <1>1, ClockRests DEF LateAnswer, AfterLateAnswer, store
<1>2. CASE \E ok \in BOOLEAN : WorkerAnswers(ok)
  <2> PICK ok \in BOOLEAN : WorkerAnswers(ok)
    BY <1>2
  <2> DEFINE a == IF ok THEN Analyzed(scenario) ELSE [state |-> "failed"]
  <2>1. a \in {Busy, Failed, Analyzed(scenario)}
    BY DEF Failed
  <2>2. IsView(view) /\ view.seconds \in Int /\ Clocked /\ scenario \in Scenarios
    BY DEF LabInv, Shaped, IsView, SessionInv, Clocked
  <2>3. labOpen /\ labOpen' /\ loaded' = loaded /\ Renders(scenario, view, a, FALSE, FALSE, FALSE)
    BY DEF WorkerAnswers
  <2>4. view.seconds \in -Lead..Window
    BY <2>2, <2>3 DEF Clocked, ReplayWithinTrajectory
  <2>5. analysis' = a
    BY <2>3 DEF Renders, KeptResult
  <2> HIDE DEF a
  <2>6. /\ Clocked' /\ scenario' = scenario /\ view'.selected = view.selected
        /\ view.seconds \in -Lead'..Window => view'.seconds = view.seconds
    BY <2>1, <2>2, <2>3, <2>4, ChangesClock
  <2>7. view'.notes = view.notes /\ view'.events = view.events
    <3>1. IsScenario(scenario)
      BY DEF LabInv, Shaped, IsScenario
    <3>2. QED
      BY <2>2, <2>3, <3>1, AfterRenders, Zenon
  <2>8. CASE loaded = NotLoaded
    BY <2>3, <2>6, <2>8 DEF SessionInv, Restored
  <2>9. CASE loaded # NotLoaded
    <3>1. /\ loaded.selected \in Candidates(scenario) /\ view.selected = loaded.selected /\ view.seconds = loaded.seconds
          /\ loaded.seconds \in -LeadOf(scenario, loaded.selected)..Window
          /\ view.notes = loaded.notes /\ view.events = loaded.events
      BY <2>9 DEF SessionInv, Restored
    <3>2. /\ TimelineLead(scenario) \in Nat /\ LeadOf(scenario, loaded.selected) \in Nat
          /\ LeadOf(scenario, loaded.selected) <= TimelineLead(scenario)
      BY <2>2, LeadsOf
    <3>3. Lead' \in {LeadOf(scenario, loaded.selected), TimelineLead(scenario)}
      <4>1. CASE a = Analyzed(scenario)
        <5>1. a.state = "ready" /\ a.of = scenario /\ a.candidates = Candidates(scenario)
          BY <4>1 DEF Analyzed
        <5>2. QED
          BY <2>5, <2>6, <3>1, <5>1 DEF Lead, ClockLead, Chosen
      <4>2. CASE a \in {Busy, Failed}
        <5>1. a.state # "ready"
          BY <4>2 DEF Busy, Failed
        <5>2. QED
          BY <2>5, <2>6, <5>1 DEF Lead, ClockLead
      <4>3. QED
        BY <2>1, <4>1, <4>2
    <3>4. view.seconds \in -Lead'..Window
      BY <2>2, <3>1, <3>2, <3>3, LeadLimits
    <3>5. QED
      BY <2>3, <2>6, <2>7, <3>1, <3>4 DEF SessionInv, Restored
  <2>10. QED
    BY <2>8, <2>9
<1>3. QED
  BY <1>1, <1>2 DEF Worked

LEMMA SessionStep == LabInv /\ Reader /\ SessionInv /\ [LabNext]_labVars => SessionInv'
<1>1. LabInv /\ SessionInv /\ UNCHANGED labVars => SessionInv'
  BY ClockRests DEF labVars, store
<1>2. QED
  BY <1>1, InvestigateClock, RedesignClock, ReplayClock, CaptureClock, WorkedClock DEF LabNext

LEMMA SessionStart == LabInit => SessionInv
<1> SUFFICES ASSUME LabInit PROVE SessionInv
  OBVIOUS
<1>1. scenario \in Scenarios
  <2>1. Example \in Missions
    BY MissionAssumption, Zenon
  <2>2. QED
    BY <2>1, ExampleScenario DEF LabInit
<1>2. view.seconds \in Int
  <2>1. TimelineLead(scenario) \in Nat
    BY <1>1, LeadsOf
  <2>2. view.seconds = -TimelineLead(scenario)
    BY DEF LabInit
  <2>3. QED
    BY <2>1, <2>2
<1>3. NoSession.saved = FALSE
  BY DEF NoSession
<1>4. QED
  BY <1>1, <1>2, <1>3 DEF LabInit, SessionInv, Clocked, Restored, ReplayWithinTrajectory

LEMMA LabSafe ==
  LabInv /\ SessionInv => ResultsMatchInputs /\ ReplayWithinTrajectory /\ ArchiveRestoresSession /\ SessionKept
<1> SUFFICES ASSUME LabInv, SessionInv
             PROVE  ResultsMatchInputs /\ ReplayWithinTrajectory /\ ArchiveRestoresSession /\ SessionKept
  OBVIOUS
<1>1. ResultsMatchInputs
  BY DEF LabInv, Matched, Ready, Busy, Failed, Analyzed, ResultsMatchInputs
<1>2. SessionKept
  <2> SUFFICES ASSUME labOpen, ~overtaken
               PROVE  IF session.saved THEN session = Saved(view) ELSE view.notes = "" /\ view.events = "none"
    BY DEF SessionKept
  <2>1. Saved(view).saved /\ ~NoSession.saved
    BY DEF Saved, NoSession
  <2>2. CASE session = Saved(view)
    BY <2>1, <2>2, Zenon
  <2>3. CASE session = NoSession /\ view.notes = "" /\ view.events = "none"
    BY <2>1, <2>3, Zenon
  <2>4. QED
    BY <2>2, <2>3 DEF LabInv, Kept
<1>3. ReplayWithinTrajectory
  BY DEF SessionInv, Clocked
<1>4. ASSUME labOpen PROVE ValidArchive(Archived)
  <2>1. scenario \in Scenarios /\ view.seconds \in Int /\ view.seconds \in -Lead..Window
    BY <1>3, <1>4 DEF SessionInv, Clocked, ReplayWithinTrajectory
  <2>2. Lead \in Nat /\ Lead <= TimelineLead(scenario) /\ TimelineLead(scenario) \in Nat
    BY <2>1, ClockLeads, LeadsOf DEF LabInv, Matched, Lead
  <2>3. view.seconds \in -TimelineLead(scenario)..Window
    BY <2>1, <2>2, LeadLimits
  <2>4. Archived.scenario = scenario /\ Archived.seconds = view.seconds
    BY DEF Archived
  <2>5. QED
    BY <2>1, <2>3, <2>4 DEF ValidArchive, Scenarios
<1>5. ASSUME labOpen, loaded.archive, Ready
      PROVE  /\ Candidate = loaded.selected /\ view.seconds = loaded.seconds
             /\ view.notes = loaded.notes /\ view.events = loaded.events
  <2>1. loaded # NotLoaded
    BY <1>5 DEF NotLoaded
  <2>2. /\ loaded.selected \in Candidates(scenario) /\ view.selected = loaded.selected /\ view.seconds = loaded.seconds
        /\ view.notes = loaded.notes /\ view.events = loaded.events
    BY <2>1 DEF SessionInv, Restored
  <2>3. analysis.candidates = Candidates(scenario)
    BY <1>1, <1>5 DEF ResultsMatchInputs
  <2>4. QED
    BY <2>2, <2>3 DEF Candidate, Chosen
<1>6. QED
  BY <1>1, <1>2, <1>3, <1>4, <1>5 DEF ArchiveRestoresSession

\* An archive that is exported while its analysis is shown is one of those that
\* ArchivesAssumption speaks of, so the round trip closes.
LEMMA ExportsAreRestorable == LabInv /\ SessionInv /\ labOpen /\ Ready => Restorable(Archived)
<1> SUFFICES ASSUME LabInv, SessionInv, labOpen, Ready PROVE Restorable(Archived)
  OBVIOUS
<1>1. analysis.of = scenario /\ analysis.candidates = Candidates(scenario)
  BY LabSafe DEF ResultsMatchInputs
<1>2. Archived.scenario = scenario /\ Archived.selected = Candidate /\ Archived.seconds = view.seconds
  BY DEF Archived
<1>3. Candidate \in Candidates(scenario) /\ Lead = LeadOf(scenario, Candidate)
  BY <1>1 DEF Candidate, Chosen, Candidates, Lead, ClockLead, Ready
<1>4. QED
  BY <1>2, <1>3 DEF Restorable, SessionInv, Clocked, ReplayWithinTrajectory

\* A step of another part leaves the lab at rest.
LEMMA LabPart == [DashboardNext]_dashboardVars => [LabNext]_labVars
<1>1. CatalogRests \/ TrackingRests \/ EarthRests \/ AnalysisRests \/ EncounterRests \/ ReadoutRests => UNCHANGED labVars
  BY DEF CatalogRests, TrackingRests, EarthRests, AnalysisRests, EncounterRests, ReadoutRests
<1>2. Investigate \/ Redesign \/ Replay \/ Capture \/ Worked => LabNext
  BY DEF LabNext
<1>3. OpenLab \/ CloseLab \/ ExampleMission => Investigate
  BY DEF Investigate
<1>4. DashboardNext => LabNext \/ UNCHANGED labVars
  BY <1>1, <1>2, <1>3, Zenon DEF DashboardNext
<1>5. UNCHANGED dashboardVars => UNCHANGED labVars
  BY DEF dashboardVars
<1>6. QED
  BY <1>4, <1>5

LEMMA LabInvariant == LabInit /\ [][LabNext]_labVars => [](LabInv /\ Reader /\ SessionInv)
<1>1. LabInit => LabInv /\ Reader /\ SessionInv
  BY LabStart, SessionStart
<1>2. LabInv /\ Reader /\ SessionInv /\ [LabNext]_labVars => (LabInv /\ Reader /\ SessionInv)'
  BY LabStep, SessionStep
<1>3. QED
  BY <1>1, <1>2, PTL

\* However scenarios are replaced while analyses run and files are read, the results
\* shown are those of the scenario shown, down to its maneuvers.
THEOREM LabResultsMatchInputs == LabSpec => []ResultsMatchInputs
<1>1. LabInv /\ SessionInv => ResultsMatchInputs
  BY LabSafe
<1>2. QED
  BY LabInvariant, <1>1, PTL DEF LabSpec

\* Whatever the analyst does, imports and closes, the notes and the capture of an
\* open lab are in the session of the store, but for the overtaking import.
THEOREM LabSessionKept == LabSpec => []SessionKept
<1>1. LabInv /\ SessionInv => SessionKept
  BY LabSafe
<1>2. QED
  BY LabInvariant, <1>1, PTL DEF LabSpec

\* Whatever is replaced, imported or computed late, the results shown are those of
\* the scenario shown, and the replay stays within the trajectory that it shows.
THEOREM LabAlwaysCoherent == DashboardSpec => []LabCoherent
<1>1. DashboardInit => LabInit
  BY DEF DashboardInit
<1>2. LabInv /\ SessionInv => LabCoherent
  BY LabSafe DEF LabCoherent
<1>3. QED
  BY <1>1, <1>2, LabPart, LabInvariant, PTL DEF DashboardSpec

\* What the analyst wrote survives the lab that is closed, and the file it was
\* written to: an archive is accepted again and shows what it showed.
THEOREM LabSessionSurvives == DashboardSpec => []SessionSurvives
<1>1. DashboardInit => LabInit
  BY DEF DashboardInit
<1>2. LabInv /\ SessionInv => SessionSurvives
  BY LabSafe DEF SessionSurvives
<1>3. QED
  BY <1>1, <1>2, LabPart, LabInvariant, PTL DEF DashboardSpec

-----------------------------------------------------------------------------
(* Encounters: the arcs of the globe.                                      *)

IsArc(v) == v = [minute |-> v.minute, of |-> v.of, path |-> v.path, shown |-> v.shown, anchored |-> v.anchored]

\* The arcs are visuals of reports.
Arcs ==
  /\ reported.all \subseteq Pairs /\ reported = [all |-> reported.all, selected |-> reported.selected]
  /\ DOMAIN arcs \subseteq Pairs /\ arcs = [r \in DOMAIN arcs |-> arcs[r]]
  /\ \A r \in DOMAIN arcs : IsArc(arcs[r])

\* Fields of an arc are set.
LEMMA ArcEdited ==
  ASSUME NEW v, IsArc(v), NEW a
  PROVE  /\ [v EXCEPT !.minute = a] = [minute |-> a, of |-> v.of, path |-> v.path, shown |-> v.shown, anchored |-> v.anchored]
         /\ [v EXCEPT !.of = a] = [minute |-> v.minute, of |-> a, path |-> v.path, shown |-> v.shown, anchored |-> v.anchored]
         /\ [v EXCEPT !.path = a] = [minute |-> v.minute, of |-> v.of, path |-> a, shown |-> v.shown, anchored |-> v.anchored]
         /\ [v EXCEPT !.shown = a] = [minute |-> v.minute, of |-> v.of, path |-> v.path, shown |-> a, anchored |-> v.anchored]
         /\ [v EXCEPT !.anchored = a] = [minute |-> v.minute, of |-> v.of, path |-> v.path, shown |-> v.shown, anchored |-> a]
  BY DEF IsArc

IsDrawn(w, v, a, b) == w = [v EXCEPT !.shown = a, !.anchored = b]
LEMMA ArcShown ==
  ASSUME NEW v, IsArc(v), NEW a, NEW b, NEW w, IsDrawn(w, v, a, b)
  PROVE  /\ IsArc(w) /\ w.shown = a /\ w.anchored = b
         /\ w.minute = v.minute /\ w.of = v.of /\ w.path = v.path
<1> DEFINE u == [v EXCEPT !.shown = a]
<1>1. w = [u EXCEPT !.anchored = b]
  BY Zenon DEF IsDrawn
<1>2. IsArc(u) /\ u.shown = a /\ u.minute = v.minute /\ u.of = v.of /\ u.path = v.path
  BY ArcEdited DEF IsArc
<1> HIDE DEF u
<1>3. IsArc(w) /\ w.shown = u.shown /\ w.anchored = b /\ w.minute = u.minute /\ w.of = u.of /\ w.path = u.path
  BY <1>1, <1>2, ArcEdited DEF IsArc
<1>4. QED
  BY <1>2, <1>3

IsResampled(w, v, a, b, c) == w = [v EXCEPT !.minute = a, !.of = b, !.path = c]
LEMMA ArcResampled ==
  ASSUME NEW v, IsArc(v), NEW a, NEW b, NEW c, NEW w, IsResampled(w, v, a, b, c)
  PROVE  IsArc(w) /\ w.minute = a /\ w.of = b /\ w.path = c
<1> DEFINE u == [v EXCEPT !.minute = a]
           t == [u EXCEPT !.of = b]
<1>1. w = [t EXCEPT !.path = c]
  BY Zenon DEF IsResampled
<1>2. IsArc(u) /\ u.minute = a
  BY ArcEdited DEF IsArc
<1> HIDE DEF u
<1>3. IsArc(t) /\ t.minute = a /\ t.of = b
  BY <1>2, ArcEdited DEF IsArc
<1> HIDE DEF t
<1>4. QED
  BY <1>1, <1>3, ArcEdited DEF IsArc

\* What a frame makes of an arc: nothing is shown of it, or what is current is.
LEMMA ArcNotDrawn ==
  ASSUME NEW v, IsArc(v)
  PROVE  IsArc(NotDrawn(v)) /\ \A i \in {1, 2} : ~NotDrawn(v).shown[i] /\ ~NotDrawn(v).anchored[i]
<1> DEFINE no == <<FALSE, FALSE>>
<1>1. IsDrawn(NotDrawn(v), v, no, no)
  BY Zenon DEF NotDrawn, IsDrawn
<1>2. ~no[1] /\ ~no[2]
  BY Zenon
<1> HIDE DEF no
<1>3. IsArc(NotDrawn(v)) /\ NotDrawn(v).shown = no /\ NotDrawn(v).anchored = no
  BY <1>1, ArcShown
<1>4. QED
  BY <1>2, <1>3, Zenon

LEMMA ArcSampled ==
  ASSUME Arcs, NEW r \in DOMAIN arcs
  PROVE  /\ IsArc(SampledArc(r)) /\ SampledArc(r).minute = minute
         /\ SampledArc(r).of = <<onGlobe.elements[ObjectsOf[r][1]], onGlobe.elements[ObjectsOf[r][2]]>>
<1> DEFINE e == <<onGlobe.elements[ObjectsOf[r][1]], onGlobe.elements[ObjectsOf[r][2]]>>
<1>1. Both(LAMBDA o : onGlobe.elements[o], r) = e
  BY DEF Both
<1>2. IsArc(arcs[r])
  BY DEF Arcs
<1>3. CASE Stale(r)
  <2>1. IsResampled(SampledArc(r), arcs[r], minute, e, Both(Lasts, r))
    BY <1>1, <1>3, Zenon DEF SampledArc, IsResampled
  <2> HIDE DEF e
  <2>2. IsArc(SampledArc(r)) /\ SampledArc(r).minute = minute /\ SampledArc(r).of = e
    BY <1>2, <2>1, ArcResampled
  <2>3. QED
    BY <2>2 DEF e
<1>4. CASE ~Stale(r)
  BY <1>1, <1>2, <1>4 DEF SampledArc, Stale
<1>5. QED
  BY <1>3, <1>4

LEMMA ArcDrawn ==
  ASSUME Arcs, NEW r \in DOMAIN arcs
  PROVE  /\ IsArc(Drawn(r))
         /\ live => \A i \in {1, 2} : Drawn(r).shown[i] =>
              /\ CurrentNow(ObjectsOf[r][i]) /\ Drawn(r).of[i] = onGlobe.elements[ObjectsOf[r][i]]
              /\ Drawn(r).minute = minute
<1>1. IsArc(arcs[r])
  BY DEF Arcs
<1>2. CASE ~\E i \in {1, 2} : Both(Tracks, r)[i]
  <2>1. Drawn(r) = NotDrawn(arcs[r])
    BY <1>2, Zenon DEF Drawn
  <2>2. QED
    BY <1>1, <2>1, ArcNotDrawn, Zenon
<1>3. CASE (\E i \in {1, 2} : Both(Tracks, r)[i]) /\ ~live
  <2>1. Drawn(r) = DrawnDemo(r)
    BY <1>3, Zenon DEF Drawn
  <2>2. IsDrawn(DrawnDemo(r), arcs[r], Both(Tracks, r), [i \in {1, 2} |-> i = 1 /\ Both(Tracks, r)[1] /\ Both(Tracks, r)[2]
                                                                           /\ reported.selected = r])
    BY Zenon DEF DrawnDemo, IsDrawn
  <2>3. IsArc(DrawnDemo(r))
    BY <1>1, <2>2, ArcShown
  <2>4. QED
    BY <1>3, <2>1, <2>3, Zenon
<1>4. CASE (\E i \in {1, 2} : Both(Tracks, r)[i]) /\ live
  <2> DEFINE v == SampledArc(r)
             shown == [i \in {1, 2} |-> Both(CurrentNow, r)[i] /\ v.path[i]]
             anchored == [i \in {1, 2} |-> reported.selected = r /\ Both(CurrentNow, r)[i]]
  <2>1. IsDrawn(Drawn(r), v, shown, anchored)
    BY <1>4, Zenon DEF Drawn, DrawnLive, IsDrawn
  <2>2. \A i \in {1, 2} : shown[i] => CurrentNow(ObjectsOf[r][i])
    <3>1. /\ Both(CurrentNow, r)[1] => CurrentNow(ObjectsOf[r][1])
          /\ Both(CurrentNow, r)[2] => CurrentNow(ObjectsOf[r][2])
      BY Zenon DEF Both
    <3>2. \A i \in {1, 2} : shown[i] => Both(CurrentNow, r)[i]
      BY Zenon
    <3> HIDE DEF shown
    <3>3. QED
      BY <3>1, <3>2, Zenon
  <2>3. /\ IsArc(v) /\ v.minute = minute
        /\ v.of = <<onGlobe.elements[ObjectsOf[r][1]], onGlobe.elements[ObjectsOf[r][2]]>>
    BY ArcSampled, Zenon
  <2> HIDE DEF v, shown, anchored
  <2>4. IsArc(Drawn(r)) /\ Drawn(r).shown = shown /\ Drawn(r).minute = minute /\ Drawn(r).of = v.of
    BY <2>1, <2>3, ArcShown
  <2>5. \A i \in {1, 2} : v.of[i] = onGlobe.elements[ObjectsOf[r][i]]
    BY <2>3
  <2>6. QED
    BY <2>2, <2>4, <2>5, Zenon
<1>5. QED
  BY <1>2, <1>3, <1>4, Zenon

LEMMA ArcsStart == PairsInit => Arcs
  BY DEF PairsInit, Arcs

LEMMA ArcsStep == Arcs /\ [PairsNext]_pairVars => Arcs'
<1> SUFFICES ASSUME Arcs, [PairsNext]_pairVars PROVE Arcs'
  OBVIOUS
<1>1. CASE \E rs \in SUBSET Pairs : ReportsArrive(rs) \/ ReportsExpire(rs)
  BY <1>1 DEF Arcs, ReportsArrive, ReportsExpire
<1>2. CASE (\E r \in Pairs : SelectPair(r)) \/ ShowAllPaths
  BY <1>2 DEF Arcs, SelectPair, ShowAllPaths, Selects
<1>3. CASE SyncPairs
  BY <1>3 DEF Arcs, SyncPairs, NoArc, IsArc
<1>4. CASE PairsFrame
  <2>1. arcs' = [r \in DOMAIN arcs |-> IF Isolated(r) THEN NotDrawn(Drawn(r)) ELSE Drawn(r)] /\ reported' = reported
    BY <1>4 DEF PairsFrame
  <2>2. \A r \in DOMAIN arcs : IsArc(Drawn(r)) /\ IsArc(NotDrawn(Drawn(r)))
    BY ArcDrawn, ArcNotDrawn
  <2>3. QED
    BY <2>1, <2>2 DEF Arcs
<1>5. CASE UNCHANGED <<reported, arcs>>
  BY <1>5 DEF Arcs
<1>6. QED
  BY <1>1, <1>2, <1>3, <1>4, <1>5
     DEF PairsNext, CatalogPublished, IsolatePair, TogglePaths, MinutePasses, ElementsAge, pairVars

LEMMA FrameDrawsNow ==
  ASSUME Arcs, PairsFrame
  PROVE  /\ live => \A r \in DOMAIN arcs', i \in {1, 2} : arcs'[r].shown[i] =>
              /\ CurrentNow(ObjectsOf[r][i]) /\ arcs'[r].of[i] = onGlobe.elements[ObjectsOf[r][i]]
              /\ arcs'[r].minute = minute
         /\ paths.focus /\ reported.selected \in DOMAIN arcs' =>
              \A r \in (DOMAIN arcs') \ {reported.selected}, i \in {1, 2} : ~arcs'[r].shown[i] /\ ~arcs'[r].anchored[i]
<1>1. arcs' = [r \in DOMAIN arcs |-> IF Isolated(r) THEN NotDrawn(Drawn(r)) ELSE Drawn(r)]
  BY DEF PairsFrame
<1>2. ASSUME NEW r \in DOMAIN arcs, NEW i \in {1, 2}, live, arcs'[r].shown[i]
      PROVE  /\ CurrentNow(ObjectsOf[r][i]) /\ arcs'[r].of[i] = onGlobe.elements[ObjectsOf[r][i]]
             /\ arcs'[r].minute = minute
  <2>1. ~Isolated(r)
    BY <1>1, <1>2, ArcDrawn, ArcNotDrawn
  <2>2. arcs'[r] = Drawn(r)
    BY <1>1, <2>1
  <2>3. QED
    BY <1>2, <2>2, ArcDrawn
<1>3. ASSUME NEW r \in DOMAIN arcs, NEW i \in {1, 2}, paths.focus, reported.selected \in DOMAIN arcs, r # reported.selected
      PROVE  ~arcs'[r].shown[i] /\ ~arcs'[r].anchored[i]
  <2>1. ActivePair = reported.selected /\ ActivePair # NoPair
    BY <1>3, PairsAssumption DEF ActivePair, Arcs
  <2>2. arcs'[r] = NotDrawn(Drawn(r))
    BY <1>1, <1>3, <2>1 DEF Isolated
  <2>3. QED
    BY <2>2, ArcDrawn, ArcNotDrawn
<1>4. DOMAIN arcs' = DOMAIN arcs
  BY <1>1
<1>5. QED
  BY <1>2, <1>3, <1>4

-----------------------------------------------------------------------------
(* The globe of the dashboard.                                             *)

LEMMA CatalogPart == [DashboardNext]_dashboardVars => [CatalogNext]_catalogVars
<1>1. TrackingRests \/ LabRests \/ EarthRests \/ AnalysisRests \/ EncounterRests \/ ReadoutRests => UNCHANGED catalogVars
  BY DEF LabRests, TrackingRests, EarthRests, AnalysisRests, EncounterRests, ReadoutRests
<1>2. CensusPart => CatalogNext
  BY Zenon DEF CensusPart, CatalogNext
<1>3. DashboardNext => CatalogNext \/ UNCHANGED catalogVars
  BY <1>1, <1>2, Zenon DEF DashboardNext
<1>4. UNCHANGED dashboardVars => UNCHANGED catalogVars
  BY DEF dashboardVars
<1>5. QED
  BY <1>3, <1>4

LEMMA PairsPart == [DashboardNext]_dashboardVars => [PairsNext]_pairVars
<1>1. CatalogRests \/ TrackingRests \/ LabRests \/ EarthRests \/ AnalysisRests \/ ReadoutRests => UNCHANGED pairVars
  BY DEF CatalogRests, LabRests, TrackingRests, EarthRests, AnalysisRests, ReadoutRests, encounterVars
<1>2. DashboardNext => PairsNext \/ UNCHANGED pairVars
  BY <1>1, Zenon DEF DashboardNext
<1>3. UNCHANGED dashboardVars => UNCHANGED pairVars
  BY DEF dashboardVars, encounterVars
<1>4. QED
  BY <1>2, <1>3

\* After a frame the globe shows no object from an outdated window or outdated
\* elements; it draws no arc from elements, reports or a minute that are no longer the present
\* ones, and nothing beside an isolated pair.
THEOREM GlobeAlwaysShowsNow == DashboardSpec => GlobeShowsNow
<1>1. DashboardInit => CatalogInit /\ PairsInit
  BY DEF DashboardInit
<1>2. GlobeInv => [fed /\ SomeCatalogFrame => OnlyCurrentShown']_catalogVars
  BY FrameShowsCurrent
<1>3. Arcs => [PairsFrame =>
       /\ live => \A r \in DOMAIN arcs', i \in {1, 2} : arcs'[r].shown[i] =>
            /\ CurrentNow(ObjectsOf[r][i]) /\ arcs'[r].of[i] = onGlobe.elements[ObjectsOf[r][i]]
            /\ arcs'[r].minute = minute
       /\ paths.focus /\ reported.selected \in DOMAIN arcs' =>
            \A r \in (DOMAIN arcs') \ {reported.selected}, i \in {1, 2} : ~arcs'[r].shown[i] /\ ~arcs'[r].anchored[i]]_pairVars
  BY FrameDrawsNow, Zenon
<1>4. QED
  BY <1>1, <1>2, <1>3, CatalogPart, PairsPart, GlobeInit, GlobeStep, ArcsStart, ArcsStep, PTL
     DEF DashboardSpec, GlobeShowsNow, OutdatedHidden, PathsAreOfNow

\* A marker of the dashboard's globe that is shown stands where its own object is.
THEOREM MarkersAlwaysTheirOwn == DashboardSpec => []MarkersAreTheirOwn
<1>1. DashboardInit => CatalogInit
  BY DEF DashboardInit
<1>2. GlobeInv => MarkersAreTheirOwn
  BY DEF GlobeInv, Pool
<1>3. QED
  BY <1>1, <1>2, CatalogPart, GlobeInit, GlobeStep, PTL DEF DashboardSpec

-----------------------------------------------------------------------------
(* The review: as long as nothing disturbs an import it has every report and *)
(* every annotation there is, but for annotations of the reports it read.    *)

Keeps(job) ==
  /\ \A k \in DOMAIN imports : k \in DOMAIN job.imports /\ job.imports[k] = imports[k]
  /\ \A k \in DOMAIN notes : k \in DOMAIN job.notes /\ (k \notin DOMAIN job.imports => job.notes[k] = notes[k])

OfLength(f, n) == n \in Nat /\ f = [j \in 1..n |-> f[j]] /\ Len(f) = n

ReviewInv ==
  \E n \in Nat :
    /\ OfLength(importing, n) /\ OfLength(disturbed, n)
    /\ \A i \in 1..n : ~disturbed[i] => Keeps(importing[i])

LEMMA LengthHere ==
  ASSUME NEW n \in Nat, NEW f, f = [j \in 1..n |-> f[j]]
  PROVE  OfLength(f, n)
<1> DEFINE S == {f[j] : j \in 1..n}
<1>1. f \in [1..n -> S] /\ DOMAIN f = 1..n
  OBVIOUS
<1>2. f \in Seq(S)
  BY <1>1, SeqDef
<1>3. Len(f) = n
  BY <1>1, <1>2, LenProperties
<1>4. QED
  BY <1>3 DEF OfLength

Longer(g, f, n, e) == OfLength(g, n + 1) /\ (\A j \in 1..n : g[j] = f[j]) /\ g[n + 1] = e

LEMMA LengthMore ==
  ASSUME NEW f, NEW n, OfLength(f, n), NEW e, NEW g, g = Append(f, e)
  PROVE  Longer(g, f, n, e)
<1> DEFINE S == {f[j] : j \in 1..n} \cup {e}
<1>1. f \in [1..n -> S] /\ n \in Nat /\ Len(f) = n
  BY DEF OfLength
<1>2. f \in Seq(S) /\ e \in S
  BY <1>1, SeqDef
<1>3. g \in Seq(S) /\ Len(g) = n + 1 /\ (\A j \in 1..n : g[j] = f[j]) /\ g[n + 1] = e
  BY <1>1, <1>2, AppendProperties
<1>4. g \in [1..(n + 1) -> S]
  BY <1>3, LenProperties
<1>5. g = [j \in 1..(n + 1) |-> g[j]]
  BY <1>4
<1>6. QED
  BY <1>1, <1>3, <1>5 DEF OfLength, Longer

\* Reading a file that merges keeps what the import had.
LEMMA MergeKeeps ==
  ASSUME NEW job, Keeps(job), NEW file, Merges(job.imports, file), NEW rest
  PROVE  Keeps([files |-> rest, imports |-> Overlaid(file.reports, job.imports), notes |-> Annotated(job.notes, file)])
<1> DEFINE own == (DOMAIN file.notes) \cap (DOMAIN file.reports)
           merged == Overlaid(file.reports, job.imports)
           noted == Annotated(job.notes, file)
<1>1. DOMAIN Restrict(file.notes, own) = own
  BY DEF Restrict
<1>2. noted = Overlaid(Restrict(file.notes, own), job.notes)
  BY DEF Annotated
<1>3. \A k \in DOMAIN job.notes : k \in DOMAIN noted /\ (k \notin own => noted[k] = job.notes[k])
  BY <1>1, <1>2 DEF Overlaid
<1>4. \A k \in DOMAIN file.reports : k \in DOMAIN merged
  BY DEF Overlaid
<1>5. \A k \in DOMAIN job.imports : k \in DOMAIN merged /\ merged[k] = job.imports[k]
  BY DEF Overlaid, Merges, Conflicts
<1> HIDE DEF merged, noted
<1>6. \A k \in DOMAIN imports : k \in DOMAIN merged /\ merged[k] = imports[k]
  BY <1>5 DEF Keeps
<1>7. \A k \in DOMAIN notes : k \in DOMAIN noted /\ (k \notin DOMAIN merged => noted[k] = notes[k])
  <2> TAKE k \in DOMAIN notes
  <2>1. k \in DOMAIN job.notes /\ (k \notin DOMAIN job.imports => job.notes[k] = notes[k])
    BY DEF Keeps
  <2>2. k \in DOMAIN noted /\ (k \notin own => noted[k] = job.notes[k])
    BY <2>1, <1>3
  <2>3. ASSUME k \notin DOMAIN merged PROVE k \notin DOMAIN job.imports /\ k \notin own
    BY <2>3, <1>4, <1>5
  <2>4. QED
    BY <2>1, <2>2, <2>3
<1>8. QED
  BY <1>6, <1>7 DEF Keeps, merged, noted

\* Once something disturbed them, nothing is claimed of the imports under way.
LEMMA DisturbedAll == ASSUME ReviewInv, Disturbs PROVE ReviewInv'
<1>1. PICK n \in Nat : OfLength(importing, n) /\ OfLength(disturbed, n)
  BY DEF ReviewInv
<1>2. disturbed' = [j \in 1..n |-> TRUE] /\ importing' = importing
  BY <1>1 DEF Disturbs, OfLength
<1>3. disturbed' = [j \in 1..n |-> disturbed'[j]] /\ \A j \in 1..n : disturbed'[j]
  BY <1>2
<1>4. OfLength(disturbed', n)
  BY <1>3, LengthHere
<1>5. OfLength(importing', n)
  BY <1>1, <1>2
<1>6. QED
  BY <1>3, <1>4, <1>5 DEF ReviewInv

LEMMA EndKeeps ==
  ASSUME ReviewInv, NEW i, i \in DOMAIN importing, NEW changed \in BOOLEAN, Ends(i, changed),
         ~changed => UNCHANGED <<imports, notes>>
  PROVE  ReviewInv'
<1>1. PICK n \in Nat : /\ OfLength(importing, n) /\ OfLength(disturbed, n)
                       /\ \A j \in 1..n : ~disturbed[j] => Keeps(importing[j])
  BY DEF ReviewInv
<1>2. DOMAIN importing = 1..n /\ Len(importing) = n
  BY <1>1 DEF OfLength
<1>3. i \in 1..n /\ n - 1 \in Nat
  BY <1>2
<1>4. /\ importing' = [j \in 1..(n - 1) |-> importing[IF j < i THEN j ELSE j + 1]]
      /\ disturbed' = [j \in 1..(n - 1) |-> changed \/ disturbed[IF j < i THEN j ELSE j + 1]]
  BY <1>2 DEF Ends
<1>5. OfLength(importing', n - 1)
  <2>1. importing' = [j \in 1..(n - 1) |-> importing'[j]]
    BY <1>4
  <2>2. QED
    BY <1>3, <2>1, LengthHere
<1>6. OfLength(disturbed', n - 1)
  <2>1. disturbed' = [j \in 1..(n - 1) |-> disturbed'[j]]
    BY <1>4, Zenon
  <2>2. QED
    BY <1>3, <2>1, LengthHere
<1>7. ASSUME NEW j \in 1..(n - 1), ~disturbed'[j] PROVE Keeps(importing[IF j < i THEN j ELSE j + 1]) /\ ~changed
  <2> DEFINE m == IF j < i THEN j ELSE j + 1
  <2>1. m \in 1..n
    BY <1>3
  <2>2. disturbed'[j] = (changed \/ disturbed[m])
    BY <1>4, Zenon
  <2> HIDE DEF m
  <2>3. ~disturbed[m] /\ ~changed
    BY <1>7, <2>2, Zenon
  <2>4. Keeps(importing[m])
    BY <1>1, <2>1, <2>3
  <2>5. QED
    BY <2>3, <2>4 DEF m
<1>8. ASSUME NEW j \in 1..(n - 1), ~disturbed'[j] PROVE Keeps(importing[j])'
  <2>1. importing'[j] = importing[IF j < i THEN j ELSE j + 1]
    BY <1>4
  <2>2. UNCHANGED <<imports, notes>>
    BY <1>7, <1>8
  <2>3. Keeps(importing'[j])
    BY <1>7, <1>8, <2>1, Zenon
  <2>4. QED
    BY <2>2, <2>3 DEF Keeps
<1>9. QED
  BY <1>3, <1>5, <1>6, <1>8 DEF ReviewInv

LEMMA StartKeeps == ASSUME ReviewInv, NEW files, ImportStarts(files) PROVE ReviewInv'
<1> DEFINE job == [files |-> files, imports |-> imports, notes |-> notes]
<1>1. PICK n \in Nat : /\ OfLength(importing, n) /\ OfLength(disturbed, n)
                       /\ \A j \in 1..n : ~disturbed[j] => Keeps(importing[j])
  BY DEF ReviewInv
<1>2. importing' = Append(importing, job) /\ disturbed' = Append(disturbed, FALSE) /\ UNCHANGED <<imports, notes>>
  BY DEF ImportStarts
<1>3. Keeps(job)
  BY DEF Keeps
<1> HIDE DEF job
<1>4. OfLength(importing', n + 1) /\ (\A j \in 1..n : importing'[j] = importing[j]) /\ importing'[n + 1] = job
  <2>1. OfLength(importing, n)
    BY <1>1
  <2>2. importing' = Append(importing, job)
    BY <1>2
  <2>3. Longer(importing', importing, n, job)
    BY <2>1, <2>2, LengthMore
  <2>4. QED
    BY <2>3 DEF Longer
<1>5. OfLength(disturbed', n + 1) /\ \A j \in 1..n : disturbed'[j] = disturbed[j]
  <2>1. OfLength(disturbed, n)
    BY <1>1
  <2>2. disturbed' = Append(disturbed, FALSE)
    BY <1>2
  <2>3. Longer(disturbed', disturbed, n, FALSE)
    BY <2>1, <2>2, LengthMore
  <2>4. QED
    BY <2>3 DEF Longer
<1>6. ASSUME NEW j \in 1..(n + 1), ~disturbed'[j] PROVE Keeps(importing'[j])
  <2>1. CASE j = n + 1
    BY <2>1, <1>3, <1>4
  <2>2. CASE j \in 1..n
    BY <2>2, <1>1, <1>4, <1>5, <1>6
  <2>3. QED
    BY <2>1, <2>2
<1>7. \A j \in 1..(n + 1) : ~disturbed'[j] => Keeps(importing[j])'
  BY <1>2, <1>6 DEF Keeps
<1>8. QED
  BY <1>4, <1>5, <1>7 DEF ReviewInv

LEMMA ReadKeeps == ASSUME ReviewInv, NEW i, FileRead(i) PROVE ReviewInv'
<1> DEFINE job == importing[i]
           file == Head(job.files)
           read == [files |-> Tail(job.files), imports |-> Overlaid(file.reports, job.imports), notes |-> Annotated(job.notes, file)]
<1>1. PICK n \in Nat : /\ OfLength(importing, n) /\ OfLength(disturbed, n)
                       /\ \A j \in 1..n : ~disturbed[j] => Keeps(importing[j])
  BY DEF ReviewInv
<1>2. i \in DOMAIN importing /\ DOMAIN importing = 1..n /\ UNCHANGED <<imports, notes>>
  BY <1>1 DEF FileRead, OfLength
<1>3. CASE ~Merges(job.imports, file)
  <2>1. Ends(i, FALSE)
    BY <1>3 DEF FileRead
  <2>2. QED
    BY <1>2, <2>1, EndKeeps
<1>4. CASE Merges(job.imports, file)
  <2>1. importing' = [importing EXCEPT ![i] = read] /\ disturbed' = disturbed
    BY <1>4 DEF FileRead
  <2>2. ~disturbed[i] => Keeps(read)
    BY <1>1, <1>2, <1>4, MergeKeeps
  <2> HIDE DEF read
  <2>3. DOMAIN importing' = 1..n /\ importing'[i] = read /\ \A j \in 1..n : j # i => importing'[j] = importing[j]
    BY <1>2, <2>1
  <2>4. importing' = [j \in 1..n |-> importing'[j]]
    BY <1>2, <2>1
  <2>5. OfLength(importing', n)
    BY <2>4, LengthHere
  <2>6. \A j \in 1..n : ~disturbed'[j] => Keeps(importing'[j])
    BY <1>1, <2>1, <2>2, <2>3
  <2>7. \A j \in 1..n : ~disturbed'[j] => Keeps(importing[j])'
    BY <1>2, <2>6 DEF Keeps
  <2>8. OfLength(disturbed', n)
    BY <1>1, <2>1
  <2>9. QED
    BY <2>5, <2>7, <2>8 DEF ReviewInv
<1>5. QED
  BY <1>3, <1>4

LEMMA ReviewStart == ReviewInit => ReviewInv
<1> SUFFICES ASSUME ReviewInit PROVE ReviewInv
  OBVIOUS
<1>1. OfLength(<<>>, 0)
  BY DEF OfLength
<1>2. QED
  BY <1>1 DEF ReviewInit, ReviewInv

AnyReview == ReviewSteps \/ \E k : WriteNote(k)

LEMMA ReviewStep == ReviewInv /\ [AnyReview]_reviewVars => ReviewInv'
<1> SUFFICES ASSUME ReviewInv, [AnyReview]_reviewVars PROVE ReviewInv'
  OBVIOUS
<1>1. CASE \E files : ImportStarts(files)
  BY <1>1, StartKeeps
<1>2. CASE \E i \in {1, 2} : FileRead(i)
  BY <1>2, ReadKeeps
<1>3. CASE \E i \in {1, 2} : ImportEnds(i)
  BY <1>3, EndKeeps DEF ImportEnds
<1>4. CASE ClearReview \/ \E k : WriteNote(k)
  BY <1>4, DisturbedAll DEF ClearReview, WriteNote
<1>5. CASE LeaveReview
  <2>1. OfLength(<<>>, 0)
    BY DEF OfLength
  <2>2. QED
    BY <1>5, <2>1 DEF LeaveReview, ReviewInv
<1>6. CASE UNCHANGED reviewVars
  BY <1>6 DEF reviewVars, ReviewInv, Keeps
<1>7. QED
  BY <1>1, <1>2, <1>3, <1>4, <1>5, <1>6, Zenon DEF AnyReview, ReviewSteps

LEMMA NothingLost ==
  ASSUME ReviewInv, AnyReview
  PROVE  \/ ClearReview \/ LeaveReview
         \/ \E i \in DOMAIN importing : ImportEnds(i) /\ disturbed[i]
         \/ /\ \A k \in DOMAIN imports : k \in DOMAIN imports' /\ imports'[k] = imports[k]
            /\ \A k \in DOMAIN notes : k \in DOMAIN notes' /\ (k \notin DOMAIN imports' => notes'[k] \in {notes[k], "written"})
<1>1. CASE UNCHANGED <<imports, notes>>
  BY <1>1
<1>2. CASE \E i \in {1, 2} : ImportEnds(i)
  <2>1. PICK i \in {1, 2} : ImportEnds(i)
    BY <1>2
  <2>2. i \in DOMAIN importing /\ imports' = importing[i].imports /\ notes' = importing[i].notes
    BY <2>1 DEF ImportEnds
  <2>3. CASE disturbed[i]
    BY <2>1, <2>2, <2>3
  <2>4. CASE ~disturbed[i]
    <3>1. Keeps(importing[i])
      BY <2>2, <2>4 DEF ReviewInv, OfLength
    <3>2. QED
      BY <2>2, <3>1 DEF Keeps
  <2>5. QED
    BY <2>3, <2>4
<1>3. CASE \E k : WriteNote(k)
  <2>1. PICK k : WriteNote(k)
    BY <1>3
  <2> DEFINE own == [j \in {k} |-> "written"]
  <2>2. notes' = Overlaid(own, notes) /\ imports' = imports
    BY <2>1 DEF WriteNote
  <2>3. \A j \in DOMAIN notes : j \in DOMAIN notes' /\ notes'[j] = IF j \in DOMAIN own THEN own[j] ELSE notes[j]
    BY <2>2 DEF Overlaid
  <2>4. \A j \in DOMAIN own : own[j] = "written"
    OBVIOUS
  <2> HIDE DEF own
  <2>5. QED
    BY <2>2, <2>3, <2>4
<1>4. QED
  BY <1>1, <1>2, <1>3 DEF AnyReview, ReviewSteps, ImportStarts, FileRead

LEMMA ReviewPart == [DashboardNext]_dashboardVars => [AnyReview]_reviewVars
<1>1. CatalogRests \/ TrackingRests \/ LabRests \/ EarthRests \/ AnalysisRests \/ ReadoutRests => UNCHANGED reviewVars
  BY DEF CatalogRests, LabRests, TrackingRests, EarthRests, AnalysisRests, ReadoutRests, encounterVars
<1>2. ReviewSteps \/ WriteNote("k1") => AnyReview
  BY Zenon DEF AnyReview
<1>3. DashboardNext => AnyReview \/ UNCHANGED reviewVars
  BY <1>1, <1>2, Zenon DEF DashboardNext
<1>4. UNCHANGED dashboardVars => UNCHANGED reviewVars
  BY DEF dashboardVars, encounterVars
<1>5. QED
  BY <1>3, <1>4

\* Reports and annotations of the review are lost only by clearing or leaving it,
\* or where two imports, or an import and the analyst, overlap: an import that
\* nothing disturbed publishes every report and annotation there was.
THEOREM ReviewAlwaysLosesNothing == DashboardSpec => ReviewLosesNothing
<1>1. DashboardInit => ReviewInit
  BY DEF DashboardInit
<1>2. ReviewInv /\ [AnyReview]_reviewVars =>
        [\/ ClearReview \/ LeaveReview
         \/ \E i \in DOMAIN importing : ImportEnds(i) /\ disturbed[i]
         \/ /\ \A k \in DOMAIN imports : k \in DOMAIN imports' /\ imports'[k] = imports[k]
            /\ \A k \in DOMAIN notes : k \in DOMAIN notes' /\ (k \notin DOMAIN imports' => notes'[k] \in {notes[k], "written"})
        ]_reviewVars
  BY NothingLost, Zenon
<1>3. QED
  BY <1>1, <1>2, ReviewPart, ReviewStart, ReviewStep, PTL DEF DashboardSpec, ReviewLosesNothing

-----------------------------------------------------------------------------
(* Readouts: their parts of the dashboard.                                  *)

LEMMA ReadoutParts ==
  [DashboardNext]_dashboardVars =>
    /\ [TimelineNext]_timelineVars /\ [StatusNext]_statusVars /\ [BadgeNext]_badgeVars
    /\ [WeatherNext]_weatherVars /\ [BenchNext]_benchVars
<1>1. CatalogRests \/ TrackingRests \/ LabRests \/ EarthRests \/ AnalysisRests \/ EncounterRests => UNCHANGED readoutVars
  BY DEF CatalogRests, TrackingRests, LabRests, EarthRests, AnalysisRests, EncounterRests
<1>2. UNCHANGED dashboardVars => UNCHANGED readoutVars
  BY DEF dashboardVars
<1>3. UNCHANGED readoutVars =>
        /\ UNCHANGED timelineVars /\ UNCHANGED statusVars /\ UNCHANGED badgeVars
        /\ UNCHANGED weatherVars /\ UNCHANGED benchVars
  BY DEF readoutVars
<1>4. /\ UNCHANGED <<statusVars, badgeVars, weatherVars, benchVars>> =>
           UNCHANGED statusVars /\ UNCHANGED badgeVars /\ UNCHANGED weatherVars /\ UNCHANGED benchVars
      /\ UNCHANGED <<timelineVars, badgeVars, weatherVars, benchVars>> =>
           UNCHANGED timelineVars /\ UNCHANGED badgeVars /\ UNCHANGED weatherVars /\ UNCHANGED benchVars
      /\ UNCHANGED <<timelineVars, statusVars, weatherVars, benchVars>> =>
           UNCHANGED timelineVars /\ UNCHANGED statusVars /\ UNCHANGED weatherVars /\ UNCHANGED benchVars
      /\ UNCHANGED <<timelineVars, statusVars, badgeVars, benchVars>> =>
           UNCHANGED timelineVars /\ UNCHANGED statusVars /\ UNCHANGED badgeVars /\ UNCHANGED benchVars
      /\ UNCHANGED <<timelineVars, statusVars, badgeVars, weatherVars>> =>
           UNCHANGED timelineVars /\ UNCHANGED statusVars /\ UNCHANGED badgeVars /\ UNCHANGED weatherVars
  OBVIOUS
<1>5. ASSUME DashboardNext
      PROVE  /\ TimelineNext \/ UNCHANGED timelineVars
             /\ StatusNext \/ UNCHANGED statusVars
             /\ BadgeNext \/ UNCHANGED badgeVars
             /\ WeatherNext \/ UNCHANGED weatherVars
             /\ BenchNext \/ UNCHANGED benchVars
  BY <1>1, <1>3, <1>4, <1>5, Zenon DEF DashboardNext
<1>6. QED
  BY <1>2, <1>3, <1>5, Zenon

\* Each readout of the dashboard says what the data says: the date that is shown
\* and the LIVE label, the status of a feed and the lights of its row, the badge
\* of the worst conjunction, the scales of the worst reading, the page of rows.
THEOREM ReadoutsAlwaysTruthful == DashboardSpec => []ReadoutsTruthful
<1> DEFINE Inv == TimelineInv /\ StatusInv /\ BadgeInv /\ WeatherInv /\ BenchInv
<1>1. DashboardInit => Inv
  BY TimelineStart, StatusStart, BadgeStart, WeatherStart, BenchStart, Zenon DEF DashboardInit
<1>2. Inv /\ [DashboardNext]_dashboardVars => Inv'
  BY ReadoutParts, TimelineStep, StatusStep, BadgeStep, WeatherStep, BenchStep, Zenon
<1>3. Inv => ReadoutsTruthful
  BY TimelineIsTruthful, StatusIsTruthful, BadgeIsTruthful, WeatherIsTruthful, BenchIsTruthful, Zenon
     DEF ReadoutsTruthful
<1> HIDE DEF Inv
<1>4. QED
  BY <1>1, <1>2, <1>3, PTL DEF DashboardSpec

-----------------------------------------------------------------------------
(* The views, as parts of the dashboard.                                    *)

LEMMA TrackingPart == [DashboardNext]_dashboardVars => [AnyTracking]_trackingVars
<1>1. CatalogRests \/ LabRests \/ EarthRests \/ AnalysisRests \/ EncounterRests \/ ReadoutRests => UNCHANGED trackingVars
  BY DEF CatalogRests, LabRests, EarthRests, AnalysisRests, EncounterRests, ReadoutRests
<1>2. ASSUME FeedPart PROVE AnyTracking
  <2>1. FeedNext({"p1"}) => SomeFeed
    BY DEF SomeFeed
  <2>2. (\E p \in {"p1", Nobody} : ChooseAircraft(p)) => SomeChoice
    BY DEF SomeChoice
  <2>3. QED
    BY <1>2, <2>1, <2>2 DEF FeedPart, AnyTracking
<1>3. ASSUME RoutePart PROVE AnyTracking
  <2>1. FeedEffect => SomeFeed
    <3>1. FeedEffect => FeedNext({"p1"})
      BY DEF FeedNext
    <3>2. QED
      BY <3>1 DEF SomeFeed
  <2>2. (\E obs \in FreshAnswers : FeedAnswers(obs, FALSE)) => SomeAnswer
    <3> SUFFICES ASSUME NEW obs \in FreshAnswers, FeedAnswers(obs, FALSE) PROVE SomeAnswer
      OBVIOUS
    <3>1. obs \in Observations(Planes, polled) /\ Planes \in SUBSET (Planes \cup {"p1"})
      BY DEF FreshAnswers
    <3>2. QED
      BY <3>1 DEF SomeAnswer
  <2>3. QED
    BY <1>3, <2>1, <2>2 DEF RoutePart, AnyTracking
<1>4. DashboardNext => AnyTracking \/ UNCHANGED trackingVars
  BY <1>1, <1>2, <1>3, Zenon DEF DashboardNext, AnyTracking
<1>5. UNCHANGED dashboardVars => UNCHANGED trackingVars
  BY DEF dashboardVars
<1>6. QED
  BY <1>4, <1>5

LEMMA EarthPart == [DashboardNext]_dashboardVars => [EarthNext]_earthVars
<1>1. CatalogRests \/ TrackingRests \/ LabRests \/ AnalysisRests \/ EncounterRests \/ ReadoutRests => UNCHANGED earthVars
  BY DEF CatalogRests, TrackingRests, LabRests, AnalysisRests, EncounterRests, ReadoutRests
<1>2. NetworksAnswer => NetworksNext
  BY Zenon DEF NetworksAnswer, NetworksNext
<1>3. NetworksNext \/ ChoicesNext \/ MediaNext \/ MapNext => EarthNext
  BY DEF EarthNext
<1>4. DashboardNext => EarthNext \/ UNCHANGED earthVars
  BY <1>1, <1>2, <1>3, Zenon DEF DashboardNext
<1>5. UNCHANGED dashboardVars => UNCHANGED earthVars
  BY DEF dashboardVars
<1>6. QED
  BY <1>4, <1>5

\* What the aerospace and Earth views show belongs to what is chosen, whatever is
\* answered late, refused or of any age; no track or trail is empty or out of
\* order; the cameras are the first of their images in the order of the feeds; no
\* player is left behind; and the streets that are shown lie on top.
THEOREM ViewsAlwaysCoherent == DashboardSpec => []ViewsCoherent
<1>1. DashboardInit => TrackingInv /\ EarthInv
  BY TrackingStart, EarthStart DEF DashboardInit
<1>2. TrackingInv /\ EarthInv /\ [DashboardNext]_dashboardVars => (TrackingInv /\ EarthInv)'
  BY TrackingPart, EarthPart, TrackingStep, EarthStep
<1>3. TrackingInv /\ EarthInv => ViewsCoherent
  BY TracksInOrder, CamerasOrdered DEF ViewsCoherent, EarthInv, MediaInv, MapInv
<1>4. QED
  BY <1>1, <1>2, <1>3, PTL DEF DashboardSpec

LEMMA AnalysisPart == [DashboardNext]_dashboardVars => [ManeuverNext]_analysisVars
<1>1. CatalogRests \/ TrackingRests \/ LabRests \/ EarthRests \/ EncounterRests \/ ReadoutRests => UNCHANGED analysisVars
  BY DEF CatalogRests, TrackingRests, LabRests, EarthRests, EncounterRests, ReadoutRests
<1>2. DashboardNext => ManeuverNext \/ UNCHANGED analysisVars
  BY <1>1, Zenon DEF DashboardNext
<1>3. UNCHANGED dashboardVars => UNCHANGED analysisVars
  BY DEF dashboardVars
<1>4. QED
  BY <1>2, <1>3

\* What the worker reports of a scenario is true of its orbits: a recommended
\* maneuver meets the goal, turns inside the window and clears the screening objects,
\* and is the least that does; none is withheld; a least burn meets the goal while its
\* neighbour does not, and no smaller grid burn of either sign does; and the map, the
\* charts and the replay show what was computed.
THEOREM AnalysisAlwaysSound == DashboardSpec => []AnalysisSound
<1>1. DashboardInit => AnalysisInv
  BY AnalysisStart DEF DashboardInit
<1>2. AnalysisInv /\ [DashboardNext]_dashboardVars => AnalysisInv'
  BY AnalysisPart, AnalysisStep
<1>3. AnalysisInv => AnalysisSound
  BY RecommendationHolds, MinimumHolds, PlotsHold DEF AnalysisSound
<1>4. QED
  BY <1>1, <1>2, <1>3, PTL DEF DashboardSpec
-----------------------------------------------------------------------------
(* The types of the parts.                                                  *)

\* Each list that is published is synchronised once: a generation of the markers
\* for every one, and the first.
CatalogTypes ==
  /\ CatalogTypeOK
  /\ satellites.version \in 0..MaxLoads /\ satellites.lives \in [Sats -> 0..Long]
  /\ marked.version \in Nat /\ generation <= marked.version + 1
  /\ marked # satellites => marked.version < satellites.version

LEMMA CatalogTypesStart == CatalogInit => CatalogTypes
<1> SUFFICES ASSUME CatalogInit PROVE CatalogTypes
  OBVIOUS
<1>1. MaxLoads \in Nat /\ Long \in Nat /\ Long >= 0 /\ Late \in Nat
  BY CatalogBoundsAssumption, Ages
<1>2. hasFeed \in BOOLEAN /\ fed \in BOOLEAN /\ catalogFailed \in BOOLEAN
  BY Zenon DEF CatalogInit
<1>3. life \in [Sats -> 0..Long] /\ satellites.version = 0 /\ satellites.lives = life /\ marked = satellites /\ generation = 1
  BY <1>1 DEF CatalogInit
<1>4. catalogWindow.age = Late /\ census = "none" /\ worker.state = "stopped" /\ worker.timer = 0 /\ workerOutbox = <<>>
  BY DEF CatalogInit, NoWindow
<1>5. Len(marked.list) <= Len(markers)
  BY GlobeInit DEF GlobeInv, Pool
<1>6. QED
  BY <1>1, <1>2, <1>3, <1>4, <1>5 DEF CatalogTypes, CatalogTypeOK

LEMMA CatalogTypesStep == CatalogTypes /\ GlobeInv /\ GlobeInv' /\ [CatalogNext]_catalogVars => CatalogTypes'
<1> SUFFICES ASSUME CatalogTypes, GlobeInv, GlobeInv', [CatalogNext]_catalogVars PROVE CatalogTypes'
  OBVIOUS
<1>0. /\ satellites.version \in Nat /\ satellites.version <= MaxLoads /\ marked.version \in Nat /\ generation \in Nat
      /\ generation <= marked.version + 1 /\ satellites.lives \in [Sats -> 0..Long]
      /\ marked # satellites => marked.version < satellites.version
      /\ MaxLoads \in Nat /\ generation > 0 /\ life \in [Sats -> 0..Long]
  BY CatalogBoundsAssumption DEF CatalogTypes, CatalogTypeOK
<1>1. (Len(marked.list) <= Len(markers))' /\ (generation \in Nat /\ generation > 0)' /\ (catalogWindow.age \in 0..Late)' /\ (fed \in BOOLEAN)'
  BY DEF GlobeInv, Pool, Typed, Underway, CurrentWindows, Windows
<1>2. worker.timer \in 0..1 /\ worker.state \in {"stopped", "waiting", "computing"} /\ worker \in Workers /\ Len(workerOutbox) <= 1
  BY DEF CatalogTypes, CatalogTypeOK, GlobeInv, Underway
<1>3. (worker.state \in {"stopped", "waiting", "computing"})'
  BY DEF GlobeInv, Underway, Workers
\* The lists, their versions and the ages of their elements.
<1>4. /\ (satellites.version \in 0..MaxLoads /\ satellites.lives \in [Sats -> 0..Long])'
      /\ (marked.version \in Nat /\ generation <= marked.version + 1)'
      /\ (marked # satellites => marked.version < satellites.version)'
      /\ (life \in [Sats -> 0..Long])'
  <2>1. CASE SyncSatellites
    BY <1>0, <2>1 DEF SyncSatellites, NextGeneration
  <2>2. CASE \E list \in Lists, lives \in Lives : CatalogArrives(list, lives)
    <3> PICK list \in Lists, lives \in Lives : CatalogArrives(list, lives)
      BY <2>2
    <3>1. satellites'.version = satellites.version + 1 /\ satellites'.lives = lives /\ satellites.version < MaxLoads
          /\ UNCHANGED <<marked, life, generation>>
      BY DEF CatalogArrives
    <3>2. lives \in [Sats -> 0..Long]
      BY CatalogLongAssumption
    <3>3. marked.version < satellites.version + 1
      BY <1>0
    <3>4. QED
      BY <1>0, <3>1, <3>2, <3>3
  <2>3. CASE CatalogTick \/ \E s \in Sats : Ageing(s)
    <3>1. life' \in [Sats -> 0..Long]
      BY <1>0, <2>3, Ages DEF CatalogTick, Ageing
    <3>2. UNCHANGED <<satellites, marked, generation>>
      BY <2>3 DEF CatalogTick, Ageing, globeState
    <3>3. QED
      BY <1>0, <3>1, <3>2
  <2>4. CASE UNCHANGED <<satellites, marked, generation, life>>
    BY <1>0, <2>4
  <2>5. WorkerReceives \/ WorkerTimer \/ WorkerPosts \/ WorkerThrows \/ WindowArrives \/ SomeCatalogFrame \/ UNCHANGED catalogVars
          => UNCHANGED <<satellites, marked, generation, life>>
    BY DEF WorkerReceives, WorkerTimer, WorkerPosts, WorkerThrows, WindowArrives, SomeCatalogFrame, CatalogFrame, globeState, catalogVars
  <2>6. QED
    BY <2>1, <2>2, <2>3, <2>4, <2>5 DEF CatalogNext, WorkerStep
<1>5. (generation \in 1..(MaxLoads + 1))'
  <2>1. marked'.version <= satellites'.version
    BY <1>4
  <2>2. QED
    BY <1>0, <1>1, <1>4, <2>1
\* The worker's timer and what it posted.
<1>6. (worker.timer \in 0..1)'
  <2>1. CASE WorkerReceives \/ WorkerTimer
    BY <2>1 DEF WorkerReceives, WorkerTimer, Sampling
  <2>2. CASE WorkerPosts \/ WorkerThrows
    <3>1. worker' \in {[worker EXCEPT !.state = "waiting", !.timer = 1], [worker EXCEPT !.state = "stopped"]}
      BY <2>2 DEF WorkerPosts, WorkerThrows
    <3>2. worker'.timer \in {worker.timer, 1}
      BY <1>2, <3>1 DEF Workers
    <3>3. QED
      BY <1>2, <3>2
  <2>3. CASE CatalogTick
    BY <1>2, <2>3 DEF CatalogTick, Workers
  <2>4. CASE UNCHANGED worker
    BY <1>2, <2>4
  <2>5. WindowArrives \/ SyncSatellites \/ SomeCatalogFrame \/ (\E list \in Lists, lives \in Lives : CatalogArrives(list, lives))
          \/ (\E s \in Sats : Ageing(s)) \/ UNCHANGED catalogVars => UNCHANGED worker
    BY DEF WindowArrives, SyncSatellites, SomeCatalogFrame, CatalogFrame, CatalogArrives, Ageing, catalogVars
  <2>6. QED
    BY <2>1, <2>2, <2>3, <2>4, <2>5 DEF CatalogNext, WorkerStep
<1>7. (Len(workerOutbox) <= 1)'
  <2>1. CASE WorkerPosts
    BY <2>1 DEF WorkerPosts
  <2>2. CASE WindowArrives
    <3>1. workerOutbox \in Seq(CurrentWindows(generation, marked.list, life)) /\ workerOutbox # <<>> /\ workerOutbox' = Tail(workerOutbox)
      BY <2>2 DEF WindowArrives, GlobeInv, Underway
    <3>2. QED
      BY <1>2, <3>1
  <2>3. CASE UNCHANGED workerOutbox
    BY <1>2, <2>3
  <2>4. WorkerReceives \/ WorkerTimer \/ WorkerThrows \/ CatalogTick \/ SyncSatellites \/ SomeCatalogFrame
          \/ (\E list \in Lists, lives \in Lives : CatalogArrives(list, lives))
          \/ (\E s \in Sats : Ageing(s)) \/ UNCHANGED catalogVars => UNCHANGED workerOutbox
    BY DEF WorkerReceives, WorkerTimer, WorkerThrows, CatalogTick, SyncSatellites, SomeCatalogFrame, CatalogFrame, CatalogArrives,
           Ageing, catalogVars
  <2>5. QED
    BY <2>1, <2>2, <2>3, <2>4 DEF CatalogNext, WorkerStep
\* What the dashboard says of the feed and its worker.
<1>8. (hasFeed \in BOOLEAN /\ catalogFailed \in BOOLEAN /\ census \in {"none", "demo", "error", "loading", "ready", "late"})'
  <2>1. hasFeed \in BOOLEAN /\ catalogFailed \in BOOLEAN /\ census \in {"none", "demo", "error", "loading", "ready", "late"}
    BY DEF CatalogTypes, CatalogTypeOK
  <2>2. hasFeed' = hasFeed /\ catalogFailed' \in {catalogFailed, TRUE, FALSE} /\ census' \in {census, Census}
    <3>1. CASE WindowArrives \/ WorkerThrows
      BY <3>1, Zenon DEF WindowArrives, WorkerThrows
    <3>2. CASE SomeCatalogFrame
      BY <3>2, Zenon DEF SomeCatalogFrame, CatalogFrame
    <3>3. CASE UNCHANGED <<hasFeed, catalogFailed, census>>
      BY <3>3
    <3>4. WorkerReceives \/ WorkerTimer \/ WorkerPosts \/ CatalogTick \/ SyncSatellites
            \/ (\E list \in Lists, lives \in Lives : CatalogArrives(list, lives))
            \/ (\E s \in Sats : Ageing(s)) \/ UNCHANGED catalogVars => UNCHANGED <<hasFeed, catalogFailed, census>>
      BY DEF WorkerReceives, WorkerTimer, WorkerPosts, CatalogTick, SyncSatellites, CatalogArrives, Ageing, globeState, catalogVars
    <3>5. QED
      BY <3>1, <3>2, <3>3, <3>4, Zenon DEF CatalogNext, WorkerStep
  <2>3. Census \in {"demo", "error", "loading", "ready", "late"}
    BY DEF Census
  <2>4. catalogFailed' \in BOOLEAN /\ hasFeed' \in BOOLEAN
    BY <2>1, <2>2, Zenon
  <2>5. QED
    BY <2>1, <2>2, <2>3, <2>4
<1>9. QED
  BY <1>1, <1>3, <1>4, <1>5, <1>6, <1>7, <1>8 DEF CatalogTypes, CatalogTypeOK

\* A launch of its own is followed, and an aircraft of its own chosen: the lists of
\* the parts name no others.
Sighted == \A o \in aircraft : o.id \in Planes

LEMMA TrackingTypesStart == AirInit /\ RocketInit => TrackingTypeOK /\ Sighted
  BY DEF AirInit, RocketInit, TrackingTypeOK, Sighted, NoTelemetry, NoTrail

\* The types of the aircraft and of the launch, apart: a step of one leaves the other.
AirTypes ==
  /\ region \in Regions /\ airOn \in BOOLEAN /\ chosenAir \in Planes \cup {Nobody}
  /\ polled \in Regions \cup {Nobody} /\ airLate \in Regions \cup {Nobody}
  /\ airPoll \in {"off", "asking", "waiting"} /\ DOMAIN trails \subseteq Planes
LaunchTypes ==
  /\ rocketPoll \in {"off", "asking", "waiting"} /\ followed \in Followable \cup {Nobody}
  /\ vehicle \in Vehicles \cup {Nobody} /\ DOMAIN tracks \subseteq Vehicles
  /\ telemetry.status \in {"idle", "connecting", "waiting", "live", "stale", "unavailable"}

LEMMA TypesApart == TrackingTypeOK <=> AirTypes /\ LaunchTypes /\ (routeAsking => routeLoading)
  BY Zenon DEF TrackingTypeOK, AirTypes, LaunchTypes

LEMMA AirTypesStay ==
  AirTypes /\ UNCHANGED <<region, airOn, chosenAir, polled, airLate, airPoll, trails>> => AirTypes'
<1> SUFFICES ASSUME AirTypes, UNCHANGED <<region, airOn, chosenAir, polled, airLate, airPoll, trails>> PROVE AirTypes'
  OBVIOUS
<1>1. region' \in Regions /\ airOn' \in BOOLEAN /\ chosenAir' \in Planes \cup {Nobody}
  BY Zenon DEF AirTypes
<1>2. polled' \in Regions \cup {Nobody} /\ airLate' \in Regions \cup {Nobody}
  BY Zenon DEF AirTypes
<1>3. airPoll' \in {"off", "asking", "waiting"} /\ DOMAIN trails' \subseteq Planes
  BY Zenon DEF AirTypes
<1>4. QED
  BY <1>1, <1>2, <1>3, Zenon DEF AirTypes

LEMMA LaunchTypesStay ==
  LaunchTypes /\ UNCHANGED <<rocketPoll, followed, vehicle, tracks, telemetry>> => LaunchTypes'
<1> SUFFICES ASSUME LaunchTypes, UNCHANGED <<rocketPoll, followed, vehicle, tracks, telemetry>> PROVE LaunchTypes'
  OBVIOUS
<1>1. rocketPoll' \in {"off", "asking", "waiting"} /\ followed' \in Followable \cup {Nobody}
  BY Zenon DEF LaunchTypes
<1>2. vehicle' \in Vehicles \cup {Nobody} /\ DOMAIN tracks' \subseteq Vehicles
  BY Zenon DEF LaunchTypes
<1>3. telemetry'.status \in {"idle", "connecting", "waiting", "live", "stale", "unavailable"}
  BY Zenon DEF LaunchTypes
<1>4. QED
  BY <1>1, <1>2, <1>3, Zenon DEF LaunchTypes

LEMMA AircraftTypes ==
  ASSUME TrackingTypeOK, Sighted, SomeFeed \/ SomeAnswer \/ SomeChoice
  PROVE  TrackingTypeOK' /\ Sighted'
<1>1. Planes \cup {"p1"} = Planes
  BY OnesAssumption
<1>2. \A planes \in SUBSET (Planes \cup {"p1"}) : \A obs \in Observations(planes, polled) : \A o \in obs : o.id \in Planes
  BY <1>1 DEF Observations
\* What is drawn is of the list.
<1>3. ASSUME NEW list, NEW on, NEW former, \A o \in list : o.id \in Planes, DrawsAircraft(list, on, former)
      PROVE  DOMAIN trails' \subseteq Planes
  BY <1>3 DEF DrawsAircraft, TrailsOf, CurrentAircraft
<1>4. DOMAIN NoTrail \subseteq Planes
  BY DEF NoTrail
<1>5. UNCHANGED <<routeVars, rocketVars>> /\ airOn' \in BOOLEAN
  <2>1. airOn' \in {airOn, ~airOn} /\ UNCHANGED <<routeVars, rocketVars>>
    BY Zenon DEF SomeFeed, SomeAnswer, SomeChoice, FeedNext, FeedEffect, FeedFails, FeedPolls, LateFeedAnswer, Redraw, ToggleAircraft,
           FeedAnswers, ChooseRegion, ChooseAircraft
  <2>2. airOn \in BOOLEAN
    BY DEF TrackingTypeOK
  <2>3. QED
    BY <2>1, <2>2, Zenon
<1>6. ASSUME DOMAIN trails' \subseteq Planes, Sighted', region' \in Regions, chosenAir' \in Planes \cup {Nobody},
             polled' \in Regions \cup {Nobody}, airLate' \in Regions \cup {Nobody}, airPoll' \in {"off", "asking", "waiting"}
      PROVE  TrackingTypeOK' /\ Sighted'
  <2>1. UNCHANGED <<rocketPoll, followed, vehicle, tracks, telemetry>> /\ UNCHANGED <<routeAsking, routeLoading>>
    BY <1>5 DEF routeVars, rocketVars
  <2>2. LaunchTypes' /\ (routeAsking' => routeLoading')
    BY <2>1, LaunchTypesStay, TypesApart, Zenon
  <2>3. AirTypes'
    BY <1>5, <1>6, Zenon DEF AirTypes
  <2>4. QED
    BY <1>6, <2>2, <2>3, TypesApart, PTL
<1>7. /\ region \in Regions /\ chosenAir \in Planes \cup {Nobody} /\ polled \in Regions \cup {Nobody}
      /\ airLate \in Regions \cup {Nobody} /\ airPoll \in {"off", "asking", "waiting"} /\ DOMAIN trails \subseteq Planes
  BY DEF TrackingTypeOK
<1>8. CASE FeedEffect
  <2>1. Wanted \in Regions \cup {Nobody}
    BY <1>7 DEF Wanted
  <2>2. Sighted' /\ trails' = NoTrail
    BY <1>8 DEF FeedEffect, Sighted
  <2>3. QED
    BY <1>4, <1>6, <1>7, <1>8, <2>1, <2>2 DEF FeedEffect
<1>9. CASE FeedFails \/ FeedPolls \/ LateFeedAnswer
  <2>1. Sighted'
    BY <1>9 DEF FeedFails, FeedPolls, LateFeedAnswer, AfterLateFeed, Sighted
  <2>2. QED
    BY <1>6, <1>7, <1>9, <2>1 DEF FeedFails, FeedPolls, LateFeedAnswer
<1>10. ASSUME NEW planes \in SUBSET (Planes \cup {"p1"}), NEW obs \in Observations(planes, polled), NEW stale, FeedAnswers(obs, stale)
       PROVE  TrackingTypeOK' /\ Sighted'
  <2>1. DOMAIN trails' \subseteq Planes /\ Sighted'
    BY <1>2, <1>3, <1>10 DEF FeedAnswers, Sighted
  <2>2. QED
    BY <1>6, <1>7, <1>10, <2>1 DEF FeedAnswers
<1>11. CASE Redraw \/ ToggleAircraft \/ \E r \in Regions : ChooseRegion(r)
  <2>1. Sighted'
    BY <1>11 DEF Redraw, ToggleAircraft, ChooseRegion, Sighted
  <2>2. DOMAIN trails' \subseteq Planes
    BY <1>3, <1>4, <1>11 DEF Redraw, ToggleAircraft, ChooseRegion, SceneCleared, Sighted
  <2>3. QED
    BY <1>6, <1>7, <1>11, <2>1, <2>2 DEF Redraw, ToggleAircraft, ChooseRegion
<1>12. ASSUME NEW p, ChooseAircraft(p) PROVE TrackingTypeOK' /\ Sighted'
  <2>1. Sighted' /\ DOMAIN trails' \subseteq Planes
    BY <1>3, <1>12 DEF ChooseAircraft, Sighted
  <2>2. p \in Planes \cup {Nobody}
    BY <1>12 DEF ChooseAircraft, Listed, Sighted
  <2>3. QED
    BY <1>6, <1>7, <1>12, <2>1, <2>2 DEF ChooseAircraft
<1>13. QED
  BY <1>8, <1>9, <1>10, <1>11, <1>12 DEF SomeFeed, SomeAnswer, SomeChoice, FeedNext

LEMMA RocketTypes ==
  ASSUME TrackingTypeOK, TrackingInv, Sighted, RocketNext
  PROVE  TrackingTypeOK' /\ Sighted'
<1>1. UNCHANGED <<airVars, routeVars>>
  BY DEF RocketNext, Follow, SomeTelemetry, TelemetryAnswers, TelemetryFails, TelemetryPolls, LateTelemetry, RocketFrame, ChooseVehicle
<1>2. Sighted'
  BY <1>1 DEF airVars, Sighted
<1>3. ASSUME rocketPoll' \in {"off", "asking", "waiting"}, followed' \in Followable \cup {Nobody}, vehicle' \in Vehicles \cup {Nobody},
             DOMAIN tracks' \subseteq Vehicles,
             telemetry'.status \in {"idle", "connecting", "waiting", "live", "stale", "unavailable"}
      PROVE  TrackingTypeOK'
  <2>1. UNCHANGED <<region, airOn, chosenAir, polled, airLate, airPoll, trails>> /\ UNCHANGED <<routeAsking, routeLoading>>
    BY <1>1 DEF airVars, routeVars
  <2>2. AirTypes' /\ (routeAsking' => routeLoading')
    BY <2>1, AirTypesStay, TypesApart, Zenon
  <2>3. LaunchTypes'
    BY <1>3, Zenon DEF LaunchTypes
  <2>4. QED
    BY <2>2, <2>3, TypesApart, PTL
<1>4. /\ rocketPoll \in {"off", "asking", "waiting"} /\ followed \in Followable \cup {Nobody} /\ vehicle \in Vehicles \cup {Nobody}
      /\ DOMAIN tracks \subseteq Vehicles
      /\ telemetry.status \in {"idle", "connecting", "waiting", "live", "stale", "unavailable"}
      /\ telemetry = [mission |-> followed, status |-> telemetry.status]
  BY DEF TrackingTypeOK, TrackingInv, RocketInv
<1>5. CASE \E m \in Followable \cup {Nobody} : Follow(m)
  BY <1>2, <1>3, <1>4, <1>5 DEF Follow, NoTelemetry, NoTrail
<1>6. CASE SomeTelemetry
  <2>1. PICK samples \in SUBSET Samples, stale \in BOOLEAN : TelemetryAnswers(samples, stale)
    BY <1>6 DEF SomeTelemetry
  <2> DEFINE ts == TracksWith(Accepted(samples))
  <2>2. DOMAIN ts \subseteq Vehicles
    BY <1>4 DEF TracksWith, Accepted, Samples
  <2> HIDE DEF ts
  <2>3. StatusOf(ts, stale) \in {"waiting", "live", "stale"}
    BY DEF StatusOf
  <2>4. /\ rocketPoll' = "waiting" /\ tracks' = ts /\ telemetry' = [mission |-> followed, status |-> StatusOf(ts, stale)]
        /\ vehicle' = IF vehicle = Nobody /\ DOMAIN ts # {} THEN CHOOSE v \in DOMAIN ts : TRUE ELSE vehicle
        /\ followed' = followed
    BY <2>1 DEF TelemetryAnswers, ts
  <2>5. vehicle' \in Vehicles \cup {Nobody}
    BY <1>4, <2>2, <2>4
  <2>6. telemetry'.status \in {"waiting", "live", "stale"}
    BY <2>3, <2>4
  <2>7. QED
    BY <1>2, <1>3, <1>4, <2>2, <2>4, <2>5, <2>6
<1>7. CASE TelemetryFails \/ TelemetryPolls \/ LateTelemetry
  BY <1>2, <1>3, <1>4, <1>7 DEF TelemetryFails, TelemetryPolls, LateTelemetry, AfterLateTelemetry
<1>8. CASE RocketFrame
  <2>1. telemetry'.status = "stale"
    BY <1>4, <1>8 DEF RocketFrame
  <2>2. QED
    BY <1>2, <1>3, <1>4, <1>8, <2>1 DEF RocketFrame
<1>9. CASE \E v \in Vehicles : ChooseVehicle(v)
  BY <1>2, <1>3, <1>4, <1>9 DEF ChooseVehicle
<1>10. QED
  BY <1>2, <1>5, <1>6, <1>7, <1>8, <1>9 DEF RocketNext

LEMMA TrackingTypesStep ==
  TrackingTypeOK /\ Sighted /\ TrackingInv /\ [AnyTracking]_trackingVars => TrackingTypeOK' /\ Sighted'
<1> SUFFICES ASSUME TrackingTypeOK, Sighted, TrackingInv, [AnyTracking]_trackingVars PROVE TrackingTypeOK' /\ Sighted'
  OBVIOUS
<1>1. CASE UNCHANGED trackingVars
  <2>1. /\ UNCHANGED <<region, airOn, chosenAir, polled, airPoll, airLate, trails, aircraft>>
        /\ UNCHANGED <<rocketPoll, followed, vehicle, telemetry, tracks>> /\ UNCHANGED <<routeAsking, routeLoading>>
    BY <1>1 DEF trackingVars, airVars, routeVars, rocketVars
  <2>2. AirTypes' /\ LaunchTypes' /\ (routeAsking' => routeLoading')
    BY <2>1, AirTypesStay, LaunchTypesStay, TypesApart, Zenon
  <2>3. Sighted'
    BY <2>1, Zenon DEF Sighted
  <2>4. QED
    BY <2>2, <2>3, TypesApart, PTL
<1>2. CASE ChoiceNext /\ ~(SomeChoice)
  <2>1. RouteEffect \/ LateRouteAnswer \/ \E found \in BOOLEAN : RouteAnswers(found)
    BY <1>2 DEF ChoiceNext, SomeChoice
  <2>2. UNCHANGED <<airVars, rocketVars>> /\ (routeAsking => routeLoading)
    BY <2>1 DEF RouteEffect, LateRouteAnswer, RouteAnswers, TrackingTypeOK
  <2>3. routeAsking' => routeLoading'
    <3>1. CASE RouteEffect
      <4>1. Nobody \notin Callsigns
        BY NobodyAssumption
      <4>2. QED
        BY <3>1, <4>1 DEF RouteEffect
    <3>2. CASE LateRouteAnswer \/ \E found \in BOOLEAN : RouteAnswers(found)
      BY <2>2, <3>2, Zenon DEF LateRouteAnswer, RouteAnswers
    <3>3. QED
      BY <2>1, <3>1, <3>2
  <2>4. Sighted'
    BY <2>2 DEF airVars, Sighted
  <2>5. /\ UNCHANGED <<region, airOn, chosenAir, polled, airLate, airPoll, trails>>
        /\ UNCHANGED <<rocketPoll, followed, vehicle, tracks, telemetry>>
    BY <2>2 DEF airVars, rocketVars
  <2>6. AirTypes' /\ LaunchTypes'
    BY <2>5, AirTypesStay, LaunchTypesStay, TypesApart, Zenon
  <2>7. QED
    BY <2>3, <2>4, <2>6, TypesApart, PTL
<1>3. CASE TrackingTime
  <2>1. Sighted' /\ DOMAIN trails' = DOMAIN trails /\ DOMAIN tracks' = DOMAIN tracks
    <3>1. \A o \in aircraft : AgedObs(o).id = o.id
      BY DEF AgedObs, TrackingInv, AirInv, Sightings
    <3>2. QED
      BY <1>3, <3>1 DEF TrackingTime, Sighted
  <2>2. /\ UNCHANGED <<region, airOn, chosenAir, polled, airPoll, airLate, rocketPoll, followed, vehicle, telemetry>>
        /\ UNCHANGED <<routeAsking, routeLoading>>
    BY <1>3 DEF TrackingTime, routeVars
  <2>3. LaunchTypes' /\ (routeAsking' => routeLoading')
    <3>1. /\ rocketPoll' \in {"off", "asking", "waiting"} /\ followed' \in Followable \cup {Nobody}
          /\ vehicle' \in Vehicles \cup {Nobody}
      BY <2>2, TypesApart, Zenon DEF LaunchTypes
    <3>2. telemetry'.status \in {"idle", "connecting", "waiting", "live", "stale", "unavailable"}
      BY <2>2, TypesApart, Zenon DEF LaunchTypes
    <3>3. DOMAIN tracks' \subseteq Vehicles /\ (routeAsking' => routeLoading')
      BY <2>1, <2>2, TypesApart, Zenon DEF LaunchTypes
    <3>4. QED
      BY <3>1, <3>2, <3>3, Zenon DEF LaunchTypes
  <2>4. AirTypes'
    <3>1. region' \in Regions /\ airOn' \in BOOLEAN /\ chosenAir' \in Planes \cup {Nobody}
      BY <2>2, TypesApart, Zenon DEF AirTypes
    <3>2. polled' \in Regions \cup {Nobody} /\ airLate' \in Regions \cup {Nobody} /\ airPoll' \in {"off", "asking", "waiting"}
      BY <2>2, TypesApart, Zenon DEF AirTypes
    <3>3. DOMAIN trails' \subseteq Planes
      BY <2>1, TypesApart, Zenon DEF AirTypes
    <3>4. QED
      BY <3>1, <3>2, <3>3, Zenon DEF AirTypes
  <2>5. QED
    BY <2>1, <2>3, <2>4, TypesApart, PTL
<1>4. QED
  BY <1>1, <1>2, <1>3, AircraftTypes, RocketTypes DEF AnyTracking

\* A worker computes only for a lab that is open and shows no analysis; the notes
\* are of the analyst; the capture is within its limit.
Jobs == labOpen \in BOOLEAN /\ working \in BOOLEAN /\ late \in BOOLEAN /\ (working => labOpen /\ analysis = Busy)
Written == view.notes \in Notes /\ (session.saved => session.notes \in Notes)
Captured ==
  /\ overtaken \in BOOLEAN
  /\ capture = [recording |-> capture.recording, events |-> capture.events] /\ capture.events \in 0..MaxEvents
LabTypes == Jobs /\ Written /\ Captured

LEMMA EventLimit == MaxEvents \in Nat /\ 3 <= MaxEvents
  BY MissionAssumption

SameNotes(w, u) == w.notes = u.notes
LEMMA NotesStay ==
  ASSUME NEW u, IsView(u), NEW a, NEW b
  PROVE  /\ SameNotes([u EXCEPT !.selected = a], u) /\ SameNotes([u EXCEPT !.playing = a], u)
         /\ SameNotes([u EXCEPT !.selected = a, !.hashed = b], u)
         /\ SameNotes([u EXCEPT !.playing = a, !.seconds = b], u)
         /\ SameNotes([u EXCEPT !.seconds = b, !.playing = a], u)
<1> DEFINE fields == {"selected", "seconds", "playing", "notes", "hashed", "events"}
<1>1. u = [k \in fields |-> u[k]]
  BY DEF IsView
<1>2. /\ \A k \in fields \ {"selected"} : [u EXCEPT !.selected = a][k] = u[k]
      /\ \A k \in fields \ {"playing"} : [u EXCEPT !.playing = a][k] = u[k]
  BY <1>1
<1>3. /\ \A k \in fields \ {"selected", "hashed"} : [u EXCEPT !.selected = a, !.hashed = b][k] = u[k]
      /\ \A k \in fields \ {"playing", "seconds"} : [u EXCEPT !.playing = a, !.seconds = b][k] = u[k]
      /\ \A k \in fields \ {"playing", "seconds"} : [u EXCEPT !.seconds = b, !.playing = a][k] = u[k]
  BY <1>1
<1>4. QED
  BY <1>2, <1>3 DEF SameNotes

\* A render starts a worker when a scenario is launched, and ends the one it had.
LEMMA RenderTypes ==
  ASSUME Jobs, Written, labOpen, NEW s, IsScenario(s), NEW v, IsView(v), v.notes \in Notes,
         NEW a \in {Busy, Failed, Analyzed(scenario)}, NEW launched \in BOOLEAN, NEW forgotten, NEW rehashed,
         labOpen' = labOpen, Renders(s, v, a, launched, forgotten, rehashed)
  PROVE  Jobs' /\ Written'
<1>1. /\ analysis' = (IF launched THEN Busy ELSE a) /\ view'.notes = v.notes
      /\ session' = Saved(view') \/ session' = session \/ session' = NoSession
  BY AfterRenders
<1>2. Written'
  <2>1. Saved(view').notes = view'.notes /\ ~NoSession.saved
    BY DEF Saved, NoSession
  <2>2. QED
    BY <1>1, <2>1 DEF Written
<1>3. working' = (launched \/ (working /\ KeptResult(a, scenario, s, launched).state = "busy"))
      /\ late' = (late \/ (launched /\ working))
  BY Zenon DEF Renders
<1>4. working' \in BOOLEAN /\ late' \in BOOLEAN
  BY <1>3, Zenon
<1>5. ASSUME working', ~launched PROVE analysis' = Busy
  <2>1. a.state = "busy"
    BY <1>3, <1>5, Zenon DEF KeptResult
  <2>2. a = Busy
    BY <2>1 DEF Failed, Analyzed
  <2>3. QED
    BY <1>1, <1>5, <2>2
<1>6. labOpen' \in BOOLEAN /\ labOpen'
  BY Zenon DEF Jobs
<1>7. QED
  BY <1>1, <1>2, <1>4, <1>5, <1>6 DEF Jobs

\* A lab that is mounted starts the first.
LEMMA MountTypes ==
  ASSUME Jobs, NEW s, IsScenario(s), NEW saved, saved.saved => saved.notes \in Notes, Mounted(s, saved)
  PROVE  Jobs' /\ Written'
<1> DEFINE v == [selected |-> IF saved.saved THEN saved.selected ELSE "coast",
                 seconds |-> IF saved.saved THEN saved.seconds ELSE -TimelineLead(s), playing |-> FALSE,
                 notes |-> IF saved.saved THEN saved.notes ELSE "", hashed |-> saved.saved /\ saved.hashed,
                 events |-> IF saved.saved THEN saved.events ELSE "none"]
<1>1. /\ view' = IntoTimeline(v, s, TRUE) /\ session' = Saved(view')
      /\ analysis' = Busy /\ working' = TRUE /\ late' = late /\ labOpen' = TRUE
  BY DEF Mounted
<1>2. IsView(v) /\ v.notes \in Notes
  BY MissionAssumption DEF IsView
<1> HIDE DEF v
<1>3. view'.notes = v.notes
  BY <1>1, <1>2 DEF IntoTimeline, IsView
<1>4. Written'
  BY <1>1, <1>2, <1>3 DEF Written, Saved
<1>5. Jobs'
  BY <1>1, Zenon DEF Jobs
<1>6. QED
  BY <1>4, <1>5

LEMMA CapturedStep == Captured /\ [LabNext]_labVars => Captured'
<1> SUFFICES ASSUME Captured, [LabNext]_labVars PROVE Captured'
  OBVIOUS
<1>1. ASSUME UNCHANGED capture, overtaken' \in BOOLEAN PROVE Captured'
  BY <1>1 DEF Captured
<1>2. ASSUME Quiet, Acts PROVE Captured'
  <2>1. overtaken' \in BOOLEAN
    BY <1>2, Zenon DEF Acts
  <2>2. QED
    BY <1>1, <1>2, <2>1 DEF Quiet
<1>3. ASSUME UNCHANGED <<capture, overtaken>> PROVE Captured'
  BY <1>3 DEF Captured
<1>4. CASE UNCHANGED labVars
  BY <1>3, <1>4 DEF labVars
<1>5. CASE Investigate
  <2>1. CASE OpenLab \/ ExampleMission \/ (\E id \in Missions : OpenReport(id)) \/ \E n \in Notes : WriteNotes(n)
    BY <1>2, <2>1, Zenon DEF OpenLab, ExampleMission, OpenReport, WriteNotes
  <2>2. CASE CloseLab
    BY <1>1, <2>2 DEF CloseLab
  <2>3. CASE Retry \/ ImportFile \/ ImportRefused
    BY <1>3, <2>3 DEF Retry, ImportFile, ImportRefused
  <2>4. CASE ExportArchive
    <3>1. overtaken' \in BOOLEAN /\ Quiet
      BY <2>4, Zenon DEF ExportArchive
    <3>2. QED
      BY <1>1, <3>1 DEF Quiet
  <2>5. CASE \E by \in Readers : (\E f \in Archives : ImportArchive(by, f)) \/ \E id \in Missions : ImportCdm(by, id)
    <3>1. \E by, s, v, archive : Imported(by, s, v, archive)
      BY <2>5, Zenon DEF ImportArchive, ImportCdm
    <3>2. UNCHANGED capture /\ overtaken' \in BOOLEAN
      BY <3>1, Zenon DEF Imported
    <3>3. QED
      BY <1>1, <3>2
  <2>6. QED
    BY <1>5, <2>1, <2>2, <2>3, <2>4, <2>5 DEF Investigate
<1>6. CASE Redesign
  BY <1>2, <1>6, Zenon DEF Redesign, ApplyRadii, ApplySettings, SimulateDesign, RemoveDesign, SelectCandidate
<1>7. CASE Replay
  BY <1>2, <1>7, Zenon DEF Replay, PlayButton, PlayKey, PlayTick, ResetClock, DragClock
<1>8. CASE Record
  <2>1. overtaken' \in BOOLEAN
    BY <1>8, Zenon DEF Record, Acts
  <2>2. QED
    BY <1>8, <2>1, EventLimit DEF Record, Captured
<1>9. CASE StopRecording \/ AppendEvent
  <2>1. capture.events \in Nat /\ MaxEvents \in Nat
    BY EventLimit DEF Captured
  <2>2. overtaken' = overtaken
    BY <1>9 DEF StopRecording, AppendEvent
  <2>3. capture' \in {[capture EXCEPT !.recording = FALSE]}
        \/ (capture.events < MaxEvents /\ capture' = [capture EXCEPT !.events = @ + 1])
    BY <1>9, <2>1 DEF StopRecording, AppendEvent
  <2>4. QED
    BY <2>1, <2>2, <2>3 DEF Captured
<1>10. CASE Worked
  BY <1>3, <1>10 DEF Worked, LateAnswer, WorkerAnswers
<1>11. QED
  BY <1>4, <1>5, <1>6, <1>7, <1>8, <1>9, <1>10 DEF LabNext, Capture

LEMMA LabTypesStep == LabInv /\ Reader /\ LabTypes /\ [LabNext]_labVars => LabTypes'
<1> SUFFICES ASSUME LabInv, Reader, Jobs, Written, LabNext PROVE Jobs' /\ Written'
  <2>1. ASSUME Jobs, Written, UNCHANGED labVars PROVE Jobs' /\ Written'
    <3>1. UNCHANGED <<labOpen, working, late, analysis, view, session>>
      BY <2>1 DEF labVars, store
    <3>2. QED
      BY <2>1, <3>1, Zenon DEF Jobs, Written
  <2>2. QED
    BY <2>1, CapturedStep DEF LabTypes
<1>0. IsView(view) /\ IsScenario(scenario) /\ view.notes \in Notes /\ analysis \in {Busy, Failed, Analyzed(scenario)}
  BY DEF LabInv, Matched, Shaped, IsView, IsScenario, Written
<1>1. ASSUME NEW v, IsView(v), v.notes \in Notes, Changed(v), labOpen, UNCHANGED labOpen PROVE Jobs' /\ Written'
  <2>1. Renders(scenario, v, analysis, FALSE, FALSE, FALSE)
    BY <1>1 DEF Changed
  <2>2. QED
    BY <1>0, <1>1, <2>1, RenderTypes
<1>2. ASSUME NEW s, IsScenario(s), NEW v, IsView(v), v.notes \in Notes, Launched(s, v), labOpen, UNCHANGED labOpen
      PROVE  Jobs' /\ Written'
  <2>1. Renders(s, v, analysis, TRUE, s.id # scenario.id, FALSE)
    BY <1>2 DEF Launched
  <2>2. QED
    BY <1>0, <1>2, <2>1, RenderTypes
<1>3. ~NoSession.saved /\ (session.saved => session.notes \in Notes)
  BY DEF NoSession, Written
<1>4. ASSUME NEW s, IsScenario(s), NEW saved \in {session, NoSession}, Mounted(s, saved) PROVE Jobs' /\ Written'
  BY <1>3, <1>4, MountTypes
<1>5. "" \in Notes /\ IsScenario(FromReport(Example)) /\ \A id \in Missions : IsScenario(FromReport(id))
  BY MissionAssumption DEF IsScenario, FromReport
<1>6. ASSUME UNCHANGED <<labOpen, working, late, analysis, view, session>> PROVE Jobs' /\ Written'
  BY <1>6, Zenon DEF Jobs, Written
<1>7. CASE OpenLab
  BY <1>0, <1>4, <1>7 DEF OpenLab
<1>8. CASE \E id \in Missions : OpenReport(id)
  <2> PICK id \in Missions : OpenReport(id)
    BY <1>8
  <2>1. Mounted(FromReport(id), IF id # scenario.id THEN NoSession ELSE session)
    BY DEF OpenReport
  <2>2. (IF id # scenario.id THEN NoSession ELSE session) \in {session, NoSession}
    OBVIOUS
  <2>3. QED
    BY <1>4, <1>5, <2>1, <2>2
<1>9. CASE CloseLab
  <2>1. view'.notes = view.notes
    BY <1>0, <1>9, NotesStay DEF CloseLab, SameNotes
  <2>2. labOpen' = FALSE /\ working' = FALSE /\ late' = (late \/ working) /\ UNCHANGED session
    BY <1>9 DEF CloseLab
  <2>3. Jobs'
    BY <2>2, Zenon DEF Jobs
  <2>4. QED
    BY <2>1, <2>2, <2>3 DEF Written
<1>10. CASE ExampleMission
  <2>1. PICK v : IsEmptied(v, view, -ExampleLead)
    <3>1. IsEmptied([view EXCEPT !.selected = "coast", !.seconds = -ExampleLead, !.notes = "", !.hashed = FALSE, !.events = "none"],
                    view, -ExampleLead)
      BY Zenon DEF IsEmptied, IsReset
    <3>2. QED
      BY <3>1, Zenon
  <2>2. IsView(v) /\ v.notes = ""
    BY <1>0, <2>1, Emptied
  <2>3. Launched(FromReport(Example), v)
    BY <1>10, <2>1, Zenon DEF ExampleMission, IsEmptied, IsReset
  <2>4. QED
    BY <1>2, <1>5, <1>10, <2>2, <2>3 DEF ExampleMission
<1>11. CASE Retry
  <2>1. labOpen /\ analysis.state = "failed"
    BY <1>11 DEF Retry
  <2>2. analysis' = Busy /\ working' = TRUE /\ UNCHANGED <<labOpen, late, view, session>>
    BY <1>11 DEF Retry, store
  <2>3. QED
    BY <2>1, <2>2, Zenon DEF Jobs, Written
<1>12. CASE ImportFile \/ ImportRefused \/ StopRecording \/ AppendEvent
  BY <1>6, <1>12 DEF ImportFile, ImportRefused, StopRecording, AppendEvent, store
<1>13. CASE ExportArchive
  <2>1. IsView([view EXCEPT !.hashed = TRUE]) /\ [view EXCEPT !.hashed = TRUE].notes = view.notes
    BY <1>0, Edited, Zenon
  <2>2. PICK rehashed \in BOOLEAN : Renders(scenario, [view EXCEPT !.hashed = TRUE], analysis, FALSE, FALSE, rehashed)
    BY <1>13 DEF ExportArchive
  <2>3. labOpen /\ labOpen' = labOpen
    BY <1>13 DEF ExportArchive
  <2>4. QED
    BY <1>0, <2>1, <2>2, <2>3, RenderTypes
<1>14. CASE \E n \in Notes : WriteNotes(n)
  <2> PICK n \in Notes : WriteNotes(n)
    BY <1>14
  <2>1. IsView([view EXCEPT !.notes = n]) /\ [view EXCEPT !.notes = n].notes = n
    BY <1>0, Edited
  <2>2. QED
    BY <1>1, <2>1 DEF WriteNotes
<1>15. ASSUME NEW s, IsScenario(s), NEW v, IsView(v), v.notes \in Notes, NEW archive, NEW by, Imported(by, s, v, archive)
       PROVE  Jobs' /\ Written'
  <2>1. CASE by = "here"
    <3>1. Renders(s, v, analysis, TRUE, s.id # scenario.id, archive # NotLoaded) /\ labOpen /\ UNCHANGED labOpen
      BY <1>15, <2>1 DEF Imported, Reader
    <3>2. QED
      BY <1>0, <1>15, <3>1, RenderTypes
  <2>2. CASE by # "here" /\ labOpen
    BY <1>0, <1>2, <1>15, <2>2 DEF Imported
  <2>3. CASE by # "here" /\ ~labOpen
    <3>1. Mounted(s, IF s.id # scenario.id THEN NoSession ELSE session)
      BY <1>15, <2>3 DEF Imported
    <3>2. (IF s.id # scenario.id THEN NoSession ELSE session) \in {session, NoSession}
      OBVIOUS
    <3>3. QED
      BY <1>4, <1>15, <3>1, <3>2
  <2>4. QED
    BY <2>1, <2>2, <2>3
<1>16. CASE \E by \in Readers, f \in Archives : ImportArchive(by, f)
  <2> PICK by \in Readers, f \in Archives : ImportArchive(by, f)
    BY <1>16
  <2>1. IsScenario(f.scenario) /\ f.notes \in Notes
    BY MissionAssumption DEF IsScenario
  <2>2. PICK v : IsReset(v, view, f.selected, f.seconds, f.notes, TRUE, f.events)
    <3>1. IsReset([view EXCEPT !.selected = f.selected, !.seconds = f.seconds, !.notes = f.notes, !.hashed = TRUE, !.events = f.events],
                  view, f.selected, f.seconds, f.notes, TRUE, f.events)
      BY Zenon DEF IsReset
    <3>2. QED
      BY <3>1, Zenon
  <2>3. IsView(v) /\ v.notes = f.notes
    <3>1. \A w, a, b, c, d, e : IsReset(w, view, a, b, c, d, e) => IsView(w) /\ w.notes = c
      <4> SUFFICES ASSUME NEW w, NEW a, NEW b, NEW c, NEW d, NEW e, IsReset(w, view, a, b, c, d, e) PROVE IsView(w) /\ w.notes = c
        OBVIOUS
      <4>1. QED
        BY <1>0, Reset, SMT
    <3>2. QED
      BY <2>2, <3>1, Zenon
  <2>4. \E archive : Imported(by, f.scenario, v, archive)
    BY <2>2, Zenon DEF ImportArchive, IsReset
  <2>5. QED
    BY <1>15, <2>1, <2>3, <2>4
<1>17. CASE \E by \in Readers, id \in Missions : ImportCdm(by, id)
  <2> PICK by \in Readers, id \in Missions : ImportCdm(by, id)
    BY <1>17
  <2>1. PICK v : IsEmptied(v, view, -TimelineLead(FromReport(id)))
    <3>1. IsEmptied([view EXCEPT !.selected = "coast", !.seconds = -TimelineLead(FromReport(id)), !.notes = "", !.hashed = FALSE,
                                 !.events = "none"],
                    view, -TimelineLead(FromReport(id)))
      BY Zenon DEF IsEmptied, IsReset
    <3>2. QED
      BY <3>1, Zenon
  <2>2. IsView(v) /\ v.notes = ""
    BY <1>0, <2>1, Emptied
  <2>3. Imported(by, FromReport(id), v, NotLoaded)
    BY <2>1, Zenon DEF ImportCdm, IsEmptied, IsReset
  <2>4. QED
    BY <1>5, <1>15, <2>2, <2>3
<1>18. CASE Redesign
  <2>1. CASE ApplyRadii
    BY <1>0, <1>2, <2>1 DEF ApplyRadii
  <2>2. CASE \E lead \in BurnLeads : ApplySettings(lead)
    <3> PICK lead \in BurnLeads : ApplySettings(lead)
      BY <2>2
    <3>1. IsScenario(WithSettings(lead))
      BY <1>0 DEF WithSettings, IsScenario
    <3>2. IsView([view EXCEPT !.hashed = FALSE]) /\ [view EXCEPT !.hashed = FALSE].notes = view.notes
      BY <1>0, Edited, Zenon
    <3>3. QED
      BY <1>0, <1>2, <3>1, <3>2 DEF ApplySettings
  <2>3. CASE \E d \in Designs : SimulateDesign(d)
    <3> PICK d \in Designs : SimulateDesign(d)
      BY <2>3
    <3>1. IsScenario(WithDesign(d))
      BY <1>0 DEF WithDesign, IsScenario
    <3>2. IsView([view EXCEPT !.selected = d, !.hashed = FALSE]) /\ [view EXCEPT !.selected = d, !.hashed = FALSE].notes = view.notes
      <4>1. IsView([view EXCEPT !.selected = d, !.hashed = FALSE])
        BY <1>0, EditedTwice, Zenon
      <4>2. SameNotes([view EXCEPT !.selected = d, !.hashed = FALSE], view)
        BY <1>0, NotesStay, Zenon
      <4>3. QED
        BY <4>1, <4>2 DEF SameNotes
    <3>3. QED
      BY <1>0, <1>2, <3>1, <3>2 DEF SimulateDesign
  <2>4. CASE \E d \in Designs : RemoveDesign(d)
    <3> PICK d \in Designs : RemoveDesign(d)
      BY <2>4
    <3> DEFINE s == [scenario EXCEPT !.designs = Without(@, d)]
               v == [view EXCEPT !.selected = IF @ = d THEN "coast" ELSE @, !.hashed = FALSE]
    <3>1. IsScenario(s)
      BY <1>0 DEF IsScenario
    <3>2. IsView(v) /\ v.notes = view.notes
      <4>1. IsView(v)
        BY <1>0, EditedTwice, Zenon
      <4>2. SameNotes(v, view)
        BY <1>0, NotesStay, Zenon
      <4>3. QED
        BY <4>1, <4>2, Zenon DEF SameNotes
    <3>3. Launched(s, v) /\ labOpen /\ UNCHANGED labOpen
      BY DEF RemoveDesign
    <3> HIDE DEF s, v
    <3>4. QED
      BY <1>0, <1>2, <3>1, <3>2, <3>3
  <2>5. CASE \E c \in {"coast", "burn"} \cup Designs : SelectCandidate(c)
    <3> PICK c : SelectCandidate(c)
      BY <2>5
    <3>1. IsView([view EXCEPT !.selected = c]) /\ [view EXCEPT !.selected = c].notes = view.notes
      BY <1>0, Edited, NotesStay DEF SameNotes
    <3>2. QED
      BY <1>0, <1>1, <3>1 DEF SelectCandidate
  <2>6. QED
    BY <1>18, <2>1, <2>2, <2>3, <2>4, <2>5 DEF Redesign
<1>19. CASE Replay
  <2>1. \A v : /\ \E p, t : v = [view EXCEPT !.playing = p, !.seconds = t] \/ v = [view EXCEPT !.seconds = t, !.playing = p]
                           \/ v = [view EXCEPT !.playing = p]
              => IsView(v) /\ v.notes = view.notes
    <3>1. \A p, t : /\ IsView([view EXCEPT !.playing = p, !.seconds = t]) /\ IsView([view EXCEPT !.seconds = t, !.playing = p])
                    /\ IsView([view EXCEPT !.playing = p])
      BY <1>0, Edited, EditedTwice, Zenon
    <3>2. \A p, t : /\ SameNotes([view EXCEPT !.playing = p, !.seconds = t], view)
                    /\ SameNotes([view EXCEPT !.seconds = t, !.playing = p], view)
                    /\ SameNotes([view EXCEPT !.playing = p], view)
      BY <1>0, NotesStay, Zenon
    <3> SUFFICES ASSUME NEW v, NEW p, NEW t,
                        \/ v = [view EXCEPT !.playing = p, !.seconds = t] \/ v = [view EXCEPT !.seconds = t, !.playing = p]
                        \/ v = [view EXCEPT !.playing = p]
                 PROVE  IsView(v) /\ v.notes = view.notes
      BY Zenon
    <3>3. CASE v = [view EXCEPT !.playing = p, !.seconds = t]
      BY <3>1, <3>2, <3>3, Zenon DEF SameNotes
    <3>4. CASE v = [view EXCEPT !.seconds = t, !.playing = p]
      BY <3>1, <3>2, <3>4, Zenon DEF SameNotes
    <3>5. CASE v = [view EXCEPT !.playing = p]
      BY <3>1, <3>2, <3>5, Zenon DEF SameNotes
    <3>6. QED
      BY <3>3, <3>4, <3>5, Zenon
  <2>2. \E v : Changed(v) /\ labOpen /\ UNCHANGED labOpen
               /\ \E p, t : v = [view EXCEPT !.playing = p, !.seconds = t] \/ v = [view EXCEPT !.seconds = t, !.playing = p]
                           \/ v = [view EXCEPT !.playing = p]
    BY <1>19, Zenon DEF Replay, PlayButton, PlayKey, PlayTick, ResetClock, DragClock
  <2>3. QED
    BY <1>0, <1>1, <2>1, <2>2
<1>20. CASE Record
  <2>1. IsView([view EXCEPT !.events = "none"]) /\ [view EXCEPT !.events = "none"].notes = view.notes
    BY <1>0, Edited
  <2>2. QED
    BY <1>0, <1>1, <1>20, <2>1 DEF Record
<1>21. CASE LateAnswer
  BY <1>21, Zenon DEF LateAnswer, AfterLateAnswer, store, Jobs, Written
<1>22. CASE \E ok \in BOOLEAN : WorkerAnswers(ok)
  <2> PICK ok \in BOOLEAN : WorkerAnswers(ok)
    BY <1>22
  <2> DEFINE a == IF ok THEN Analyzed(scenario) ELSE [state |-> "failed"]
  <2>1. a \in {Busy, Failed, Analyzed(scenario)}
    BY DEF Failed
  <2>2. labOpen /\ labOpen' = labOpen /\ Renders(scenario, view, a, FALSE, FALSE, FALSE)
    BY DEF WorkerAnswers
  <2> HIDE DEF a
  <2>3. QED
    BY <1>0, <2>1, <2>2, RenderTypes
<1>23. QED
  BY <1>7, <1>8, <1>9, <1>10, <1>11, <1>12, <1>13, <1>14, <1>16, <1>17, <1>18, <1>19, <1>20, <1>21, <1>22
     DEF LabNext, Investigate, Capture, Worked

LEMMA LabTypesStart == LabInit => LabTypes
<1> SUFFICES ASSUME LabInit PROVE LabTypes
  OBVIOUS
<1>1. Jobs
  BY DEF LabInit, Jobs
<1>2. Written
  BY MissionAssumption DEF LabInit, Written, NoSession
<1>3. Captured
  <2>1. capture = [recording |-> FALSE, events |-> 0] /\ overtaken = FALSE
    BY DEF LabInit
  <2>2. capture = [recording |-> capture.recording, events |-> capture.events] /\ capture.events = 0
    BY <2>1
  <2>3. overtaken \in BOOLEAN
    BY <2>1
  <2>4. QED
    BY <2>2, <2>3, EventLimit DEF Captured
<1>4. QED
  BY <1>1, <1>2, <1>3 DEF LabTypes

LEMMA LabTyped == LabInv /\ Reader /\ SessionInv /\ LabTypes => LabTypeOK
<1> SUFFICES ASSUME LabInv, Reader, SessionInv, LabTypes PROVE LabTypeOK
  OBVIOUS
<1>1. scenario.id \in Missions /\ scenario.lead \in BurnLeads /\ Len(scenario.designs) <= MaxDesigns
  BY DEF SessionInv, Clocked, Scenarios, ValidScenario
<1>2. analysis.state \in {"busy", "ready", "failed"}
  BY DEF LabInv, Matched, Busy, Failed, Analyzed
<1>3. QED
  BY <1>1, <1>2, Zenon DEF LabTypes, Jobs, Written, Captured, Reader, LabTypeOK

PairTypes ==
  /\ reported = [all |-> reported.all, selected |-> reported.selected]
  /\ onGlobe = [elements |-> onGlobe.elements, reports |-> onGlobe.reports]
  /\ PairsTypeOK
LEMMA PairTypesStart == PairsInit => PairTypes
<1> SUFFICES ASSUME PairsInit PROVE PairTypes
  OBVIOUS
<1>1. DOMAIN arcs = {} /\ onGlobe.reports = {} /\ 1 \in 1..MaxMinutes
  BY PairsAssumption DEF PairsInit
<1>2. reported.all = {} /\ reported.selected = NoPair
  BY DEF PairsInit
<1>3. lasting \in [Objects -> {"orbit", "now", "over"}]
  BY DEF PairsInit
<1>4. QED
  BY <1>1, <1>2, <1>3 DEF PairsInit, PairTypes, PairsTypeOK

LEMMA PairTypesStep == PairTypes /\ [PairsNext]_pairVars => PairTypes'
<1> SUFFICES ASSUME PairTypes, [PairsNext]_pairVars PROVE PairTypes'
  OBVIOUS
<1> USE DEF PairTypes, PairsTypeOK
<1>1. CASE UNCHANGED pairVars
  BY <1>1 DEF pairVars
<1>2. CASE \E rs \in SUBSET Pairs : ReportsArrive(rs) \/ ReportsExpire(rs)
  BY <1>2 DEF ReportsArrive, ReportsExpire
<1>3. CASE \E versions \in Catalogs : CatalogPublished(versions)
  BY <1>3 DEF CatalogPublished
<1>4. CASE (\E r \in Pairs : SelectPair(r)) \/ ShowAllPaths \/ IsolatePair \/ TogglePaths
  BY <1>4 DEF SelectPair, ShowAllPaths, IsolatePair, TogglePaths, Selects
<1>5. CASE SyncPairs \/ PairsFrame
  BY <1>5 DEF SyncPairs, PairsFrame
<1>6. CASE MinutePasses
  BY <1>6, PairsAssumption DEF MinutePasses
<1>7. CASE \E o \in Objects : ElementsAge(o)
  BY <1>7 DEF ElementsAge
<1>8. QED
  BY <1>1, <1>2, <1>3, <1>4, <1>5, <1>6, <1>7 DEF PairsNext

\* What an import holds: reports and annotations of reviewed keys, within the limit.
Holds(job) ==
  /\ job.files \in Seq(Files) /\ DOMAIN job.imports \subseteq Keys /\ DOMAIN job.notes \subseteq Keys
  /\ Cardinality(DOMAIN job.imports) <= MaxReports
ReviewHeld ==
  /\ DOMAIN imports \subseteq Keys /\ DOMAIN notes \subseteq Keys /\ Cardinality(DOMAIN imports) <= MaxReports
  /\ Len(importing) <= 2 /\ \A i \in DOMAIN importing : Holds(importing[i])

LEMMA ReportLimit == MaxReports \in Nat /\ Cardinality({}) = 0
  BY PairsAssumption, FS_EmptySet

LEMMA ReviewHeldStart == ReviewInit => ReviewHeld
  BY ReportLimit DEF ReviewInit, ReviewHeld

LEMMA MergedHolds ==
  ASSUME NEW job, Holds(job), job.files # <<>>, Merges(job.imports, Head(job.files))
  PROVE  Holds([files |-> Tail(job.files), imports |-> Overlaid(Head(job.files).reports, job.imports),
                notes |-> Annotated(job.notes, Head(job.files))])
<1> DEFINE file == Head(job.files)
           merged == Overlaid(file.reports, job.imports)
           noted == Annotated(job.notes, file)
           own == (DOMAIN file.notes) \cap (DOMAIN file.reports)
<1>1. file \in Files /\ Tail(job.files) \in Seq(Files)
  BY DEF Holds
<1>2. DOMAIN file.reports \subseteq Keys
  BY <1>1, ReviewAssumption DEF Merges, FileParses
<1>3. DOMAIN merged = (DOMAIN file.reports) \cup (DOMAIN job.imports)
  BY DEF Overlaid
<1>4. Cardinality(DOMAIN merged) <= MaxReports
  BY DEF Merges
<1>5. DOMAIN noted = own \cup (DOMAIN job.notes)
  <2>1. DOMAIN Restrict(file.notes, own) = own
    BY DEF Restrict
  <2>2. QED
    BY <2>1 DEF Annotated, Overlaid
<1> HIDE DEF merged, noted
<1>6. DOMAIN merged \subseteq Keys /\ DOMAIN noted \subseteq Keys
  BY <1>2, <1>3, <1>5 DEF Holds
<1>7. Holds([files |-> Tail(job.files), imports |-> merged, notes |-> noted])
  BY <1>1, <1>4, <1>6 DEF Holds
<1>8. QED
  BY <1>7 DEF merged, noted

KeyedReview == ReviewSteps \/ WriteNote("k1")

LEMMA ReviewHeldStep == ReviewInv /\ ReviewHeld /\ [KeyedReview]_reviewVars => ReviewHeld'
<1> SUFFICES ASSUME ReviewInv, ReviewHeld, [KeyedReview]_reviewVars PROVE ReviewHeld'
  OBVIOUS
<1>1. PICK n \in Nat : OfLength(importing, n)
  BY DEF ReviewInv
<1>2. DOMAIN importing = 1..n /\ Len(importing) = n /\ n <= 2
  BY <1>1 DEF OfLength, ReviewHeld
<1>3. ASSUME UNCHANGED importing, DOMAIN imports' \subseteq Keys, DOMAIN notes' \subseteq Keys,
             Cardinality(DOMAIN imports') <= MaxReports
      PROVE  ReviewHeld'
  BY <1>3, Zenon DEF ReviewHeld
<1>4. ASSUME NEW files \in Seq(Files), ImportStarts(files) PROVE ReviewHeld'
  <2> DEFINE job == [files |-> files, imports |-> imports, notes |-> notes]
  <2>1. Holds(job)
    BY DEF Holds, ReviewHeld
  <2>2. importing' = Append(importing, job) /\ UNCHANGED <<imports, notes>>
    BY <1>4 DEF ImportStarts
  <2> HIDE DEF job
  <2>3. OfLength(importing', n + 1) /\ (\A j \in 1..n : importing'[j] = importing[j]) /\ importing'[n + 1] = job
    <3>1. Longer(importing', importing, n, job)
      BY <1>1, <2>2, LengthMore
    <3>2. QED
      BY <3>1 DEF Longer
  <2>4. n <= 1
    <3>1. CASE importing = <<>>
      BY <1>2, <3>1
    <3>2. CASE Len(importing) = 1
      BY <1>2, <3>2
    <3>3. QED
      BY <1>4, <3>1, <3>2 DEF ImportStarts
  <2>5. DOMAIN importing' = 1..(n + 1) /\ Len(importing') <= 2
    BY <2>3, <2>4 DEF OfLength
  <2>6. \A j \in 1..(n + 1) : Holds(importing'[j])
    BY <1>2, <2>1, <2>3 DEF ReviewHeld
  <2>7. QED
    BY <2>2, <2>5, <2>6 DEF ReviewHeld
<1>5. ASSUME NEW i, i \in DOMAIN importing, NEW changed, Ends(i, changed),
             DOMAIN imports' \subseteq Keys, DOMAIN notes' \subseteq Keys, Cardinality(DOMAIN imports') <= MaxReports
      PROVE  ReviewHeld'
  <2>1. i \in 1..n /\ n - 1 \in Nat
    BY <1>2, <1>5
  <2>2. importing' = [j \in 1..(n - 1) |-> importing[IF j < i THEN j ELSE j + 1]]
    BY <1>2, <1>5 DEF Ends
  <2>3. OfLength(importing', n - 1)
    <3>1. importing' = [j \in 1..(n - 1) |-> importing'[j]]
      BY <2>2
    <3>2. QED
      BY <2>1, <3>1, LengthHere
  <2>4. \A j \in 1..(n - 1) : (IF j < i THEN j ELSE j + 1) \in 1..n /\ importing'[j] = importing[IF j < i THEN j ELSE j + 1]
    BY <2>1, <2>2
  <2>5. \A j \in 1..(n - 1) : Holds(importing'[j])
    <3> TAKE j \in 1..(n - 1)
    <3>1. PICK m \in 1..n : importing'[j] = importing[m]
      BY <2>4, Zenon
    <3>2. QED
      BY <1>2, <3>1 DEF ReviewHeld
  <2>6. DOMAIN importing' = 1..(n - 1) /\ Len(importing') <= 2
    BY <1>2, <2>1, <2>3 DEF OfLength
  <2>7. QED
    BY <1>5, <2>5, <2>6 DEF ReviewHeld
<1>6. DOMAIN imports \subseteq Keys /\ DOMAIN notes \subseteq Keys /\ Cardinality(DOMAIN imports) <= MaxReports
  BY DEF ReviewHeld
<1>7. ASSUME NEW i, FileRead(i) PROVE ReviewHeld'
  <2> DEFINE job == importing[i]
             file == Head(job.files)
             read == [files |-> Tail(job.files), imports |-> Overlaid(file.reports, job.imports), notes |-> Annotated(job.notes, file)]
  <2>1. i \in DOMAIN importing /\ job.files # <<>> /\ UNCHANGED <<imports, notes>>
    BY <1>7 DEF FileRead
  <2>2. Holds(job)
    BY <2>1 DEF ReviewHeld
  <2>3. CASE ~Merges(job.imports, file)
    <3>1. Ends(i, FALSE)
      BY <1>7, <2>3 DEF FileRead
    <3>2. QED
      BY <1>5, <1>6, <2>1, <3>1
  <2>4. CASE Merges(job.imports, file)
    <3>1. importing' = [importing EXCEPT ![i] = read]
      BY <1>7, <2>4 DEF FileRead
    <3>2. Holds(read)
      <4> HIDE DEF job
      <4>1. QED
        BY <2>1, <2>2, <2>4, MergedHolds
    <3> HIDE DEF read, job
    <3>3. DOMAIN importing' = 1..n /\ importing'[i] = read /\ \A j \in 1..n : j # i => importing'[j] = importing[j]
      BY <1>2, <2>1, <3>1
    <3>4. importing' = [j \in 1..n |-> importing'[j]]
      BY <1>2, <3>1
    <3>5. Len(importing') = n
      BY <3>4, LengthHere DEF OfLength
    <3>6. \A j \in 1..n : Holds(importing'[j])
      BY <1>2, <3>2, <3>3 DEF ReviewHeld
    <3>7. QED
      BY <1>2, <1>6, <2>1, <3>3, <3>5, <3>6 DEF ReviewHeld
  <2>5. QED
    BY <2>3, <2>4
<1>8. ASSUME NEW i, ImportEnds(i) PROVE ReviewHeld'
  <2>1. i \in DOMAIN importing /\ imports' = importing[i].imports /\ notes' = importing[i].notes /\ Ends(i, TRUE)
    BY <1>8 DEF ImportEnds
  <2>2. Holds(importing[i])
    BY <2>1 DEF ReviewHeld
  <2>3. QED
    BY <1>5, <2>1, <2>2 DEF Holds
<1>9. CASE WriteNote("k1")
  <2>1. notes' = Overlaid([j \in {"k1"} |-> "written"], notes) /\ UNCHANGED <<imports, importing>>
    BY <1>9 DEF WriteNote, Disturbs
  <2>2. DOMAIN notes' = {"k1"} \cup (DOMAIN notes)
    BY <2>1 DEF Overlaid
  <2>3. DOMAIN notes' \subseteq Keys
    BY <1>6, <2>2, OnesAssumption
  <2>4. QED
    BY <1>3, <1>6, <2>1, <2>3
<1>10. CASE ClearReview
  <2>1. imports' = <<>> /\ notes' = <<>> /\ UNCHANGED importing
    BY <1>10 DEF ClearReview, Disturbs
  <2>2. QED
    BY <1>3, <2>1, ReportLimit
<1>11. CASE LeaveReview
  BY <1>11, ReportLimit DEF LeaveReview, ReviewHeld
<1>12. CASE UNCHANGED reviewVars
  BY <1>3, <1>6, <1>12 DEF reviewVars
<1>13. CASE \E f \in Files : ImportStarts(<<f>>) \/ \E g \in Files : ImportStarts(<<f, g>>)
  <2>1. \A f, g \in Files : <<f>> \in Seq(Files) /\ <<f, g>> \in Seq(Files)
    OBVIOUS
  <2>2. QED
    BY <1>4, <1>13, <2>1, Zenon
<1>14. QED
  BY <1>7, <1>8, <1>9, <1>10, <1>11, <1>12, <1>13, Zenon DEF KeyedReview, ReviewSteps

LEMMA ReviewTyped == ReviewInv /\ ReviewHeld => ReviewTypeOK
<1> SUFFICES ASSUME ReviewInv, ReviewHeld PROVE ReviewTypeOK
  OBVIOUS
<1>1. Len(disturbed) = Len(importing)
  BY DEF ReviewInv, OfLength
<1>2. QED
  BY <1>1 DEF ReviewHeld, ReviewTypeOK

LEMMA KeyedPart == [DashboardNext]_dashboardVars => [KeyedReview]_reviewVars
<1>1. CatalogRests \/ TrackingRests \/ LabRests \/ EarthRests \/ AnalysisRests \/ ReadoutRests => UNCHANGED reviewVars
  BY DEF CatalogRests, LabRests, TrackingRests, EarthRests, AnalysisRests, ReadoutRests, encounterVars
<1>2. DashboardNext => KeyedReview \/ UNCHANGED reviewVars
  BY <1>1, Zenon DEF DashboardNext, KeyedReview
<1>3. UNCHANGED dashboardVars => UNCHANGED reviewVars
  BY DEF dashboardVars, encounterVars
<1>4. QED
  BY <1>2, <1>3

----
(* The types of the parts are those of the dashboard: a behaviour has one part, *)
(* and the others rest in an initial state.                                     *)

LEMMA PartStays == [DashboardNext]_dashboardVars => part' = part
  BY Zenon DEF DashboardNext, dashboardVars, CatalogRests, TrackingRests, LabRests, EarthRests, AnalysisRests, EncounterRests,
               ReadoutRests

\* Every variable of the dashboard keeps its type, whatever the order in which the
\* feeds, the worker, the analyst and the clocks act: a poll is under way only for
\* a layer that is on, a worker computes only for a lab that is open, an import
\* holds no more reports than the limit, a page turned to is of the catalog.
THEOREM DashboardTypeCorrect == DashboardSpec => []DashboardTypeOK
<1> DEFINE Views == CatalogTypes /\ GlobeInv /\ TrackingTypeOK /\ Sighted /\ TrackingInv
           Lab == LabInv /\ Reader /\ SessionInv /\ LabTypes
           Others == EarthInv /\ EarthTypes /\ AnalysisInv /\ PairTypes /\ ReviewInv /\ ReviewHeld
           Shown == TimelineInv /\ StatusInv /\ BadgeInv /\ WeatherInv /\ BenchInv /\ BenchTypeOK
           Inv == part \in MCParts /\ Views /\ Lab /\ Others /\ Shown
<1>1. DashboardInit => Inv
  <2> SUFFICES ASSUME DashboardInit PROVE Inv
    OBVIOUS
  <2>1. Views
    BY CatalogTypesStart, GlobeInit, TrackingTypesStart, TrackingStart, Zenon DEF DashboardInit
  <2>2. Lab
    BY LabStart, SessionStart, LabTypesStart, Zenon DEF DashboardInit
  <2>3. Others
    BY EarthStart, EarthTypesStart, AnalysisStart, PairTypesStart, ReviewStart, ReviewHeldStart, Zenon DEF DashboardInit
  <2>4. Shown
    BY TimelineStart, StatusStart, BadgeStart, WeatherStart, BenchStart, BenchTypesStart, Zenon DEF DashboardInit
  <2>5. part \in MCParts
    BY Zenon DEF DashboardInit
  <2>6. QED
    BY <2>1, <2>2, <2>3, <2>4, <2>5
<1>2. Views /\ [DashboardNext]_dashboardVars => Views'
  BY CatalogPart, GlobeStep, CatalogTypesStep, TrackingPart, TrackingStep, TrackingTypesStep, Zenon
<1>3. Lab /\ [DashboardNext]_dashboardVars => Lab'
  BY LabPart, LabStep, SessionStep, LabTypesStep, Zenon
<1>4. Others /\ [DashboardNext]_dashboardVars => Others'
  <2>1. [DashboardNext]_dashboardVars => [AnyReview]_reviewVars
    BY ReviewPart, Zenon
  <2>2. QED
    BY <2>1, EarthPart, EarthStep, EarthTypesStep, AnalysisPart, AnalysisStep, PairsPart, PairTypesStep, ReviewStep,
       KeyedPart, ReviewHeldStep, Zenon
<1>5. Shown /\ [DashboardNext]_dashboardVars => Shown'
  BY ReadoutParts, TimelineStep, StatusStep, BadgeStep, WeatherStep, BenchStep, BenchTypesStep, Zenon
<1>6. part \in MCParts /\ [DashboardNext]_dashboardVars => (part \in MCParts)'
  BY PartStays
<1>7. Inv => DashboardTypeOK
  <2> SUFFICES ASSUME Inv PROVE DashboardTypeOK
    OBVIOUS
  <2>1. LabTypeOK /\ EarthTypeOK /\ ManeuverTypeOK /\ ReviewTypeOK /\ BadgeTypeOK /\ WeatherTypeOK
    BY LabTyped, EarthTyped, AnalysisTyped, ReviewTyped, ReadoutsTyped, Zenon
  <2>2. CatalogTypeOK /\ PairsTypeOK /\ TimelineTypeOK /\ StatusTypeOK
    BY StatusTyped DEF CatalogTypes, PairTypes, TimelineInv
  <2>3. QED
    BY <2>1, <2>2, Zenon DEF DashboardTypeOK
<1>8. Inv /\ [DashboardNext]_dashboardVars => Inv'
  BY <1>2, <1>3, <1>4, <1>5, <1>6, Zenon
<1> HIDE DEF Inv
<1>9. QED
  BY <1>1, <1>7, <1>8, PTL DEF DashboardSpec
=============================================================================
