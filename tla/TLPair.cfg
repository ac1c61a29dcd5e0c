SPECIFICATION Spec
CONSTANTS
    Updates = {"a", "b"}
    NoFixes = {"n"}
    Plains = {}
    Child <- ChildOf
    Severity <- SeverityOf
    TaskId <- TaskIdOf
    Versions <- SecondHasTwo
    MaxRetries = 1
    MaxReruns = 1
    MaxReplans = 2
    MaxIterations = 4
    QueueCap = 5
    ParentLeads = {"a"}
    Outcomes = {"success", "surrender", "untried"}
    Verdicts = {"pass", "fail", "breaking", "cleared", "conflict", "inconclusive"}
    Faults = {}
INVARIANT QueueIsConsistent
PROPERTIES KeepsContract ChargesAreFair EndsAreEarned Terminates
