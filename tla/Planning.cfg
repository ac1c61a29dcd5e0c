SPECIFICATION PortfolioSpec
CONSTANTS
    Machines = {"inputs", "batches", "certifier", "ladder"}
    N = 2
    Top = 3
    Libs <- MCLibs
    Jobs <- MCJobs
    TopK = 2
    Faults = {"sandbox", "cleanup", "deadline", "edit"}
    MaxFaults = 1
    M = 5
    MaxBatch = 2
    Budget = 2
    Graphs <- MCGraphs
    Occurrences = {1, 2, 3, 4}
    Vulnerable = {1, 4}
    Repositories <- MCRepositories
    Fixed <- MCFixed
    Scopes <- MCScopes
    Outages <- MCOutages
    MaxCandidates = 5
    MaxIterations = 2
    Latest = 3
    MaxRetries = 2
    MaxReplans = 2
    Ladders = {"direct", "parent", "override", "maven"}
CHECK_DEADLOCK FALSE
INVARIANTS RejectedIsExhausted PackingKeepsUnits UpstreamFirst FreshPlanStands
PROPERTIES CertifiedOnHost KeepsPromise CommittedIsFrozen NothingReplayed
