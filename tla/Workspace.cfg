CONSTANTS
  s1 = s1
  c1 = c1
  launch = launch
  aircraft = aircraft
  Sats <- MCSats
  High <- MCSats
  Conjs <- MCConjs
  Launch = launch
  Aircraft = aircraft
  Modes <- MCModes
  Panels <- MCPanels
  Layers <- MCLayers
  Passing <- MCPassing
  Linked <- MCLinked
SPECIFICATION MCSpec
INVARIANTS PanelsCoherent OneCameraOwner PreviewOwnsSelection
