SPECIFICATION Spec
CONSTANTS
  A = A
  B = B
  C = C
  S = S
  Tasks = {A, B, C, S}
  NoTask = NoTask
  Workarounds = {C, S}
  Parent <- MCParent
  Batches <- Singletons
  MaxDispatches = 4
  MaxFaults = 0
  MaxRaises = 0
  DeltaIsolation = FALSE
  RecheckMayReject = TRUE
INVARIANTS
  AnchorsHaveArchives
CHECK_DEADLOCK FALSE
