SPECIFICATION Spec
CONSTANTS
  A = A
  B = B
  C = C
  S = S
  Tasks = {A, B, C, S}
  NoTask = NoTask
  Workarounds = {C, S}
  Parent <- MCParent
  Batches <- WithCluster
  MaxDispatches = 3
  MaxFaults = 2
  MaxRaises = 1
  DeltaIsolation = TRUE
  RecheckMayReject = FALSE
INVARIANTS
  AnchorsHaveArchives
  DispatchNeverWedged
PROPERTIES
  AnchorIsResolved
CHECK_DEADLOCK FALSE
