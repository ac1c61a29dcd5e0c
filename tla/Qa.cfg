SPECIFICATION QaSpec
CONSTANTS
    Machines = {"pass", "canaries", "prefix", "patch"}
    Tasks = {"a", "b"}
    Findings = {}
    Files = {1}
    Locks = {"l1", "l2"}
    Home <- HomeOf
    Jobs <- MostJobs
    Voices <- Sayings
    Faults = {"sandbox"}
    Cluster = {1, 2, 3}
    Clues <- MCClues
    Budget = 2
    MaxFaults = 1
    Updates = {a, b, c}
    PrefixVersions = {1, 2}
    MaxAttempts = 5
    MaxPlans = 3
    MaxMisses = 1
    MaxReopens = 2
    Packages = {"a", "b"}
    Nested <- MCNested
    Runs <- MCRuns
CHECK_DEADLOCK FALSE
INVARIANTS PassedIsFixed ChargedForCause UnresolvedIsInconclusive CanariesAreSound PatchIsFaithful
PROPERTIES AcceptedSurvivesReplan
