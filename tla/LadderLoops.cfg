SPECIFICATION FairSpec
CONSTANTS
  Latest = 2
  MaxRetries = 3
  MaxReplans = 1
  Ladders = {"parent"}
PROPERTY LadderEnds
