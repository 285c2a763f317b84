---- MODULE MCWorkspace ----
(***************************************************************************)
(* One satellite, one report, one launch and one aircraft.  A behaviour    *)
(* has one focus beside what both do: the layers, the readouts, the rocket *)
(* preview and the mission lab, or the encounters.  The run is the sum of  *)
(* the two and not their product.                                          *)
(***************************************************************************)
EXTENDS Workspace

CONSTANTS s1, c1, launch, aircraft

VARIABLE focus

MCSats == {s1}
MCConjs == {c1}
MCModes == {"OPS", "STORM", "INTEL"}
MCPanels == {"active-conjunctions", "space-weather"}
MCLayers == {<<TRUE, TRUE, TRUE>>, <<FALSE, TRUE, TRUE>>}
MCPassing == {launch}
MCLinked == BOOLEAN

MCInit == WorkspaceInit /\ focus \in {"objects", "encounters"} /\ (focus = "encounters" => ~mission)
MCNext ==
  /\ \/ Select \/ Arrange \/ Steer \/ Globe
     \/ focus = "objects" /\ (Decorate \/ Rehearse \/ OpenMission \/ CloseMission)
     \/ focus = "encounters" /\ SelectEncounter
  /\ UNCHANGED focus
MCSpec == MCInit /\ [][MCNext]_<<workspaceVars, focus>>
====
