---- MODULE ManeuverAnalysis ----
(***************************************************************************)
(* The analysis the mission lab's worker computes: every candidate is      *)
(* integrated from its burn to the end of the encounter window and its     *)
(* closest approach and screening distances are taken along the way; then  *)
(* the candidates are given a collision probability, the trade space a     *)
(* least burn for every lead, and the analysis a recommendation.           *)
(*                                                                         *)
(* The orbits are what the algorithm looks at: separations over integer    *)
(* instants, probabilities in levels, and for every lead the burns whose   *)
(* linear estimate meets the goal.  What the numerics return is chosen     *)
(* with the world; what the program makes of it is the module.             *)
(***************************************************************************)
EXTENDS Integers, Sequences, FiniteSets

CONSTANTS
  Maneuvers,    \* the candidates in their order: [id, dv, lead]; dv 0 is the coast
  Screened,     \* the screening objects a scenario may name
  Worlds,       \* what the numerics may return, and the file that is opened
  EncounterWindow, StepSeconds, ScreeningDistance, MaxDeltaV, ConfiguredLead,
  Action, Goal, \* levels of probability
  Half,         \* 20 grid magnitudes of either sign
  Bisections,   \* 14 halvings of a grid interval
  GridLeads,    \* 300, 600, ... 7,200 seconds
  LastLead,     \* and the longest lead of a designed maneuver, 7,200 seconds
  MaxSamples,  \* 360 samples of a trajectory, about
  Infinity,     \* above every separation
  Unpriced      \* a probability that cannot be computed

ASSUME ManeuverAssumption ==
  /\ Maneuvers \in Seq([id : STRING, dv : Nat, lead : Nat]) /\ Maneuvers[1].dv = 0
  /\ \A i, j \in DOMAIN Maneuvers : Maneuvers[i].id = Maneuvers[j].id => i = j
  /\ \A i \in DOMAIN Maneuvers : Maneuvers[i].lead > EncounterWindow
  /\ EncounterWindow \in Nat \ {0} /\ StepSeconds \in Nat \ {0} /\ ScreeningDistance \in Nat /\ MaxDeltaV \in Nat
  /\ Goal \in Nat /\ Action \in Nat /\ Goal <= Action /\ Unpriced \notin Nat
  /\ Half \in Nat \ {0} /\ Bisections \in Nat /\ MaxSamples \in Nat \ {0}
  /\ GridLeads \subseteq Nat /\ \A l \in GridLeads : l <= LastLead
  /\ {LastLead, ConfiguredLead, Infinity} \subseteq Nat

VARIABLES
  phase,      \* "opening", "flying", "pricing", "trading", "deciding", "done", "failed", "refused"
  world,      \* the orbits behind the numbers
  opened,     \* of the scenario: sigma, covariances, screening objects
  trajectory, \* the candidate being integrated: its index, instant, closest approaches, samples
  results,    \* of the candidates so far: best, screening, pc, samples
  tradeSpace, \* per lead the least burn, or none when it could not be computed
  decision

analysisVars == <<phase, world, opened, trajectory, results, tradeSpace, decision>>

Abs(n) == IF n < 0 THEN -n ELSE n
LeastOf(S) == CHOOSE x \in S : \A y \in S : x <= y
NothingYet == [of |-> 0]
NoTradeSpace == [leads |-> {}]
Undecided == [status |-> "none"]

----
(* Opening: the example, an archive of any combination, or a CDM. *)

\* scenarioFromCdm: one supported frame, an epoch at closest approach, and per
\* object no velocity covariance or all of it; no burn uncertainty, no screening.
Supported(cdm) ==
  /\ cdm.frames \in {<<"GCRF", "GCRF">>, <<"EME2000", "EME2000">>}
  /\ cdm.earth /\ cdm.utc /\ cdm.rtn /\ cdm.epochAtTca /\ cdm.definite
  /\ \A i \in 1..2 : cdm.velocity[i] \in {"all", "none"}
ScenarioFromCdm(cdm) ==
  [sigma |-> FALSE, covariances |-> cdm.velocity = <<"all", "all">>, screening |-> {}]

OpenScenario ==
  /\ phase = "opening" /\ world.file.kind # "cdm" /\ phase' = "flying"
  /\ opened' = [sigma |-> world.file.sigma, covariances |-> world.file.covariances, screening |-> world.file.screening]
  /\ UNCHANGED <<world, trajectory, results, tradeSpace, decision>>
OpenCdm ==
  /\ phase = "opening" /\ world.file.kind = "cdm"
  /\ phase' = IF Supported(world.file) THEN "flying" ELSE "refused"
  /\ opened' = IF Supported(world.file) THEN ScenarioFromCdm(world.file) ELSE opened
  /\ UNCHANGED <<world, trajectory, results, tradeSpace, decision>>

----
(* simulateManeuver *)

Orbit(m)     == world.orbits[m.id]
Sep(p, t)    == p.least + Abs(t - p.closest)

\* A world names a file to open and, for every candidate, its paths, which come
\* nowhere as far as Infinity while they are integrated, and its probability.
Paths  == [closest : Int, least : Nat]
Levels == Nat \cup {Unpriced}
ASSUME WorldsAssumption ==
  \A w \in Worlds :
    /\ w.file.kind # "cdm" =>
         w.file.sigma \in BOOLEAN /\ w.file.covariances \in BOOLEAN /\ w.file.screening \subseteq Screened
    /\ w.pc \in Levels /\ \A l \in GridLeads : w.meets[l] \subseteq Int
    /\ \A i \in DOMAIN Maneuvers :
         LET o == w.orbits[Maneuvers[i].id]
             flown == -Maneuvers[i].lead..EncounterWindow
         IN /\ o.pc \in Levels /\ o.pair \in Paths /\ \A t \in flown : Sep(o.pair, t) < Infinity
            /\ \A p \in Screened : o.peers[p] \in Paths /\ \A t \in flown : Sep(o.peers[p], t) < Infinity

\* The next instant: a step on, but exactly at the window's start, the epoch and
\* the window's end.
NextInstant(t) == LeastOf({t + StepSeconds} \cup {b \in {EncounterWindow, 0, -EncounterWindow} : b > t})

\* Within a step in which the objects close and then part the refinement finds the
\* turning point; otherwise the nearer endpoint counts.
NearerEndpoint(p, t, u) == IF Sep(p, t) < Sep(p, u) THEN t ELSE u
ClosestInStep(p, t, u) == IF t <= p.closest /\ p.closest <= u THEN p.closest ELSE NearerEndpoint(p, t, u)
Nearer(best, p, t, u) ==
  LET x == ClosestInStep(p, t, u) IN IF Sep(p, x) < best.d THEN [at |-> x, d |-> Sep(p, x)] ELSE best

Burned(i) ==
  [of |-> i, t |-> -Maneuvers[i].lead, steps |-> 0, samples |-> <<>>, best |-> [at |-> -Maneuvers[i].lead, d |-> Infinity],
   screening |-> [o \in opened.screening |-> [at |-> -Maneuvers[i].lead, d |-> Infinity]]]

\* Every so many steps the trajectory is sampled, so that its samples stay few.
CeilDiv(n, d) == (n + d - 1) \div d
Stride(m) == LET k == CeilDiv(CeilDiv(m.lead + EncounterWindow, StepSeconds), MaxSamples) IN IF k = 0 THEN 1 ELSE k
WithSample(trail) == IF trail.steps % Stride(Maneuvers[trail.of]) = 0 THEN Append(trail.samples, trail.t) ELSE trail.samples

\* A candidate beyond the budget, or a trajectory that meets the Earth: the
\* worker reports the error.
Burn ==
  /\ phase = "flying" /\ trajectory = NothingYet /\ Len(results) < Len(Maneuvers)
  /\ LET i == Len(results) + 1 IN
       IF Maneuvers[i].dv <= MaxDeltaV THEN trajectory' = Burned(i) /\ UNCHANGED phase
       ELSE phase' = "failed" /\ UNCHANGED trajectory
  /\ UNCHANGED <<world, opened, results, tradeSpace, decision>>
MeetsEarth ==
  /\ phase = "flying" /\ trajectory # NothingYet /\ phase' = "failed"
  /\ UNCHANGED <<world, opened, trajectory, results, tradeSpace, decision>>

Integrate ==
  LET o == Orbit(Maneuvers[trajectory.of])
      t == trajectory.t
      u == NextInstant(t)
  IN /\ phase = "flying" /\ trajectory # NothingYet /\ t < EncounterWindow
     /\ trajectory' =
          [trajectory EXCEPT
             !.t = u, !.steps = @ + 1, !.samples = WithSample(trajectory),
             !.best = IF t >= -EncounterWindow THEN Nearer(@, o.pair, t, u) ELSE @,
             !.screening = [p \in DOMAIN @ |-> Nearer(@[p], o.peers[p], t, u)]]
     /\ UNCHANGED <<phase, world, opened, results, tradeSpace, decision>>

Arrive ==
  /\ phase = "flying" /\ trajectory # NothingYet /\ trajectory.t = EncounterWindow
  /\ results' = Append(results,
       [id |-> Maneuvers[trajectory.of].id, dv |-> Maneuvers[trajectory.of].dv,
        at |-> trajectory.best.at, miss |-> trajectory.best.d, pc |-> Unpriced,
        samples |-> Append(trajectory.samples, EncounterWindow),
        boundaryMinimum |-> Abs(trajectory.best.at) = EncounterWindow,
        clear |-> \A p \in DOMAIN trajectory.screening : trajectory.screening[p].d >= ScreeningDistance])
  /\ trajectory' = NothingYet
  /\ phase' = IF trajectory.of = Len(Maneuvers) THEN "pricing" ELSE phase
  /\ UNCHANGED <<world, opened, tradeSpace, decision>>

----
(* candidateProbability, and the assessment of the encounter as it stands. *)

Probability(r) ==
  IF opened.covariances /\ (r.dv = 0 \/ opened.sigma) THEN world.orbits[r.id].pc ELSE Unpriced
Price ==
  /\ phase = "pricing"
  /\ results' = [i \in DOMAIN results |-> [results[i] EXCEPT !.pc = Probability(results[i])]]
  /\ phase' = IF world.pc = Unpriced THEN "failed" ELSE "trading"
  /\ UNCHANGED <<world, opened, trajectory, tradeSpace, decision>>

----
(* computeTradeSpace, along-track: the grid and the bisection within it. *)

\* A grid interval, in the resolution of as many halvings.
Grid ==
  LET doubled[n \in 0..Bisections] == IF n = 0 THEN 1 ELSE 2 * doubled[n - 1]
  IN doubled[Bisections]
NoBurn == (Half + 1) * Grid
Leads == {l \in GridLeads : l > EncounterWindow}

Meets(lead, dv) == dv \in world.meets[lead]
\* Of a sign, the first grid magnitudes that meet the goal, and their last halving.
FirstMagnitude(lead, sign) ==
  {k \in 1..Half : Meets(lead, sign * k * Grid) /\ \A j \in 1..(k - 1) : ~Meets(lead, sign * j * Grid)}
Halved(lead, sign, b) ==
  LET mid == (b.lo + b.hi) \div 2 IN
  IF Meets(lead, sign * mid) THEN [lo |-> b.lo, hi |-> mid] ELSE [lo |-> mid, hi |-> b.hi]
Bisected(lead, sign, k) ==
  LET bracket[n \in 0..Bisections] ==
        IF n = 0 THEN [lo |-> (k - 1) * Grid, hi |-> k * Grid] ELSE Halved(lead, sign, bracket[n - 1])
  IN bracket[Bisections].hi
LeastBurn(lead) ==
  LET of(sign) == {sign * Bisected(lead, sign, k) : k \in FirstMagnitude(lead, sign)}
      found == of(1) \cup of(-1)
  IN IF found = {} THEN NoBurn
     ELSE CHOOSE dv \in found : \A e \in found : Abs(dv) < Abs(e) \/ (Abs(dv) = Abs(e) /\ dv >= e)
MinimumDeltaV(lead) ==
  IF Meets(lead, 0) THEN 0 ELSE IF ~opened.sigma THEN NoBurn ELSE LeastBurn(lead)

ComputeTradeSpace ==
  /\ phase = "trading" /\ phase' = "deciding"
  /\ tradeSpace' = [leads |-> Leads, least |-> [l \in Leads |-> MinimumDeltaV(l)]]
  /\ UNCHANGED <<world, opened, trajectory, results, decision>>
\* An error in it is kept beside the analysis.
TradeSpaceFails ==
  /\ phase = "trading" /\ phase' = "deciding"
  /\ UNCHANGED <<world, opened, trajectory, results, tradeSpace, decision>>

----
(* decide *)

Qualifies(r) == r.dv > 0 /\ r.pc # Unpriced /\ r.pc <= Goal /\ ~r.boundaryMinimum /\ r.clear
Before(i, j) ==
  LET a == results[i] b == results[j]
  IN a.dv < b.dv \/ (a.dv = b.dv /\ (a.pc < b.pc \/ (a.pc = b.pc /\ i <= j)))

\* The linear estimate beside the recommendation: the row nearest to the lead of
\* the settings (of two, the later burn), and the latest that has a burn.
Estimate ==
  LET rows == {l \in tradeSpace.leads : tradeSpace.least[l] # NoBurn}
      off(l) == Abs(l - ConfiguredLead)
  IN IF world.pc <= Goal \/ rows = {} THEN <<>>
     ELSE <<CHOOSE l \in rows : \A m \in rows : off(l) < off(m) \/ (off(l) = off(m) /\ l <= m), LeastOf(rows)>>

Recommendation ==
  LET burns == {i \in DOMAIN results : results[i].dv > 0}
      qualifying == {i \in burns : Qualifies(results[i])}
      status == IF world.pc <= Action THEN "monitor" ELSE IF qualifying # {} THEN "maneuver"
                ELSE IF \E i \in burns : results[i].pc = Unpriced THEN "insufficient-data" ELSE "no-feasible"
  IN [status |-> status, estimate |-> Estimate,
      recommended |-> IF status = "maneuver" THEN results[CHOOSE i \in qualifying : \A j \in qualifying : Before(i, j)].id
                      ELSE "none"]
Decide ==
  /\ phase = "deciding" /\ phase' = "done" /\ decision' = Recommendation
  /\ UNCHANGED <<world, opened, trajectory, results, tradeSpace>>

----
(* What the lab draws of it. *)

\* The recommendation can be reviewed while another candidate is selected.
Banner(selected) ==
  [tone |-> CASE decision.status = "maneuver" -> "go" [] decision.status = "monitor" -> "calm" [] OTHER -> "hold",
   reviews |-> {decision.recommended} \ {"none", selected}]

\* The map: a cell of a lead and a magnitude, the boundary between cells that
\* pass and cells that do not, and the design a click on a cell asks for.
Cells == tradeSpace.leads \X (-Half..Half)
Passes(cell) == opened.sigma /\ Meets(cell[1], cell[2] * Grid)
Beside(c, d) ==
  \/ c[1] = d[1] /\ d[2] = c[2] + 1
  \/ c[2] = d[2] /\ c[1] < d[1] /\ ~\E l \in tradeSpace.leads : c[1] < l /\ l < d[1]
Boundary == {edge \in Cells \X Cells : Beside(edge[1], edge[2]) /\ Passes(edge[1]) # Passes(edge[2])}
DesignOf(cell) == IF cell[2] = 0 THEN "coast" ELSE [magnitude |-> Abs(cell[2]), lead |-> cell[1]]
CanSimulate(design) ==
  design.magnitude \in 1..Half /\ EncounterWindow < design.lead /\ design.lead <= LastLead

\* The chart of least burns: curves over successive leads that have one.
Bridged(l, m) == \A n \in tradeSpace.leads : n \in l..m => tradeSpace.least[n] # NoBurn
MinimumChart ==
  IF tradeSpace.leads # {} /\ \A l \in tradeSpace.leads : tradeSpace.least[l] = 0 THEN {"coast meets the goal"}
  ELSE IF ~opened.sigma THEN {}
  ELSE {arc \in tradeSpace.leads \X tradeSpace.leads : arc[1] < arc[2] /\ Bridged(arc[1], arc[2])}

\* The separation plot and the replay go through the samples; at an instant the
\* replay stands between two of them.
SeparationPlot(r) == [i \in DOMAIN r.samples |-> Sep(world.orbits[r.id].pair, r.samples[i])]
OrbitReplay(r, t) ==
  LET reached == {i \in DOMAIN r.samples : r.samples[i] >= t}
      b == IF reached = {} THEN Len(r.samples) ELSE LeastOf(reached)
  IN <<r.samples[IF b > 1 THEN b - 1 ELSE 1], r.samples[b]>>

----
ManeuverInit ==
  /\ phase = "opening" /\ world \in Worlds
  /\ opened = [sigma |-> FALSE, covariances |-> FALSE, screening |-> {}]
  /\ trajectory = NothingYet /\ results = <<>> /\ tradeSpace = NoTradeSpace /\ decision = Undecided
ManeuverNext ==
  \/ OpenScenario \/ OpenCdm \/ Burn \/ MeetsEarth \/ Integrate \/ Arrive
  \/ Price \/ ComputeTradeSpace \/ TradeSpaceFails \/ Decide
ManeuverSpec == ManeuverInit /\ [][ManeuverNext]_analysisVars

----
ManeuverTypeOK ==
  /\ phase \in {"opening", "flying", "pricing", "trading", "deciding", "done", "failed", "refused"}
  /\ opened.sigma \in BOOLEAN /\ opened.covariances \in BOOLEAN /\ opened.screening \subseteq Screened
  /\ Len(results) <= Len(Maneuvers) /\ (trajectory # NothingYet => trajectory.t <= EncounterWindow)
  /\ decision.status \in {"none", "monitor", "maneuver", "insufficient-data", "no-feasible"}

\* What a maneuver must be, of the orbits themselves: its probability meets the
\* goal, its closest approach is a turning point strictly inside the window, and
\* no screening object comes within the distance at any instant since the burn.
Interior  == (1 - EncounterWindow)..(EncounterWindow - 1)
Whole     == -EncounterWindow..EncounterWindow
Sound(m) ==
  LET o == Orbit(m) IN
  /\ m.dv > 0 /\ opened.sigma /\ opened.covariances /\ o.pc # Unpriced /\ o.pc <= Goal
  /\ \E t \in Interior : \A u \in Whole : Sep(o.pair, t) <= Sep(o.pair, u)
  /\ \A p \in opened.screening : \A t \in -m.lead..EncounterWindow : Sep(o.peers[p], t) >= ScreeningDistance

\* The recommendation is sound and the least: whatever the step is, no closest
\* approach falls between its instants, no imported CDM is given a maneuver
\* without a burn uncertainty, and none is withheld that the orbits allow.
RecommendationSound ==
  phase = "done" =>
    LET burns == {i \in DOMAIN Maneuvers : Sound(Maneuvers[i])} IN
    /\ decision.status = "monitor" <=> world.pc <= Action
    /\ world.pc > Action => (decision.status = "maneuver" <=> burns # {})
    /\ decision.status = "maneuver" =>
         \E i \in burns : Maneuvers[i].id = decision.recommended /\ \A j \in burns : Maneuvers[i].dv <= Maneuvers[j].dv

\* The least burn of a lead meets the goal and its next smaller neighbour does
\* not; no grid burn of either sign that is smaller meets it; there is none only
\* where no grid burn meets it or its probability cannot be computed; and zero is
\* the coast.  The latest time that is reported is the latest that has a burn.
MinimumIsSound ==
  /\ \A l \in tradeSpace.leads :
       LET dv == tradeSpace.least[l]
           magnitudes == {k * Grid : k \in {k \in 1..Half : Meets(l, k * Grid) \/ Meets(l, -k * Grid)}}
       IN /\ dv = 0 <=> Meets(l, 0)
          /\ dv = NoBurn <=> ~Meets(l, 0) /\ (~opened.sigma \/ magnitudes = {})
          /\ dv \notin {0, NoBurn} =>
               /\ Meets(l, dv) /\ ~Meets(l, IF dv > 0 THEN dv - 1 ELSE dv + 1)
               /\ \A m \in magnitudes : Abs(dv) <= m
  /\ phase = "done" /\ decision.estimate # <<>> =>
       \A l \in tradeSpace.leads : tradeSpace.least[l] # NoBurn => l >= decision.estimate[2]

\* What is drawn agrees with what was computed: a least burn lies between two
\* cells that the goal's boundary separates, no curve crosses a lead without one,
\* every cell off the coast can be simulated as a design; no separation plotted
\* inside the window is below the miss distance; and at every instant of its own
\* trajectory a replay stands between two successive samples around it.
PlotsAgree ==
  /\ \A l \in tradeSpace.leads :
       LET dv == tradeSpace.least[l]
           k == CeilDiv(Abs(dv), Grid)
       IN dv \notin {0, NoBurn} => (IF dv > 0 THEN <<<<l, k - 1>>, <<l, k>>>> ELSE <<<<l, -k>>, <<l, 1 - k>>>>) \in Boundary
  /\ \A cell \in Cells : cell[2] # 0 => CanSimulate(DesignOf(cell))
  /\ MinimumChart # {"coast meets the goal"} =>
       \A curve \in MinimumChart, l \in tradeSpace.leads : l \in curve[1]..curve[2] => tradeSpace.least[l] # NoBurn
  /\ \A i \in DOMAIN results :
       LET r == results[i]
           plot == SeparationPlot(r)
       IN /\ \A j \in DOMAIN plot : Abs(r.samples[j]) <= EncounterWindow => r.miss <= plot[j]
          /\ \A t \in -Maneuvers[i].lead..EncounterWindow :
               LET around == OrbitReplay(r, t) IN
               around[1] <= t /\ t <= around[2] /\ \A j \in DOMAIN r.samples : ~(around[1] < r.samples[j] /\ r.samples[j] < around[2])
====
