SPECIFICATION Spec
CONSTANTS
  g1 = g1
  g2 = g2
  Groups = {g1, g2}
  Inputs <- MCInputs
  InputOf <- MCInput
  Modes <- RunModes
  MaxReplans = 1
  Limit = 1
  Cleanups = 2
INVARIANTS NothingLeaks CompletedIsClean LedgerIsSound
PROPERTY ReachesEnd
