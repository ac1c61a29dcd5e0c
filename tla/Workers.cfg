SPECIFICATION WorkersSpec
CONSTANTS
    Machines = {"workaround", "update", "loop", "memory", "sandbox"}
    p = p q = q v = v w = w pkg = pkg
    Files = {p, q}
    Manifest = pkg
    MaxScope = 1
    MaxGates = 2
    MaxInputs = 1
    CallsPerTurn = 2
    MaxPlans = 2
    MaxFaults = 1
    Packages = {p, q}
    Versions = {v, w}
    MaxAttempts = 2
    MaxFailures = 1
    MaxUnread = 1
    Roles = {"update", "workaround", "qa"}
    MaxRounds = 4
    MaxCalls = 3
    LoopAttempts = 2
    Threshold = 2
    Facts = {p, q}
    MemoryRounds = 5
    Interval = 2
    MaxChars = 4
    SandboxFiles = {p, q}
    MaxVersion = 2
    MaxEntries = 2
    MaxBytes = 3
    TestsWrite = TRUE
SYMMETRY Symmetry
INVARIANTS HandsOverWhatPassed LeftoversReported BatchIsAtomic LossEndsTheLoop NothingVanishes CacheIsTrue
