SPECIFICATION Spec
CONSTANTS
  A = A
  B = B
  C = C
  S = S
  Tasks = {A, B, C, S}
  NoTask = NoTask
  Workarounds = {C, S}
  Parent <- MCParent
  Batches <- WithCluster
  MaxDispatches = 4
  MaxFaults = 0
  MaxRaises = 1
  DeltaIsolation = FALSE
  RecheckMayReject = FALSE
INVARIANTS
  TypeOK
  CandidateIsolation
  AcceptedKept
  BaselinesAreKept
  QaJudgesItsCandidate
  AbortRestoresAccepted
CHECK_DEADLOCK FALSE
