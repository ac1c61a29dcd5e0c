SPECIFICATION Spec
CONSTANTS
    Updates = {"a", "b"}
    NoFixes = {}
    Plains = {"s"}
    Child <- ChildOf
    Severity <- SeverityOf
    TaskId <- TaskIdOf
    Versions <- SecondHasTwo
    MaxRetries = 2
    MaxReruns = 1
    MaxReplans = 2
    MaxIterations = 4
    QueueCap = 20
    ParentLeads = {"a"}
    Outcomes = {"success", "surrender"}
    Verdicts = {"pass", "conflict", "breaking", "inconclusive"}
    Faults = {"abandon", "solver", "nofix"}
INVARIANT BoundsHold
PROPERTY DoneStaysDone
