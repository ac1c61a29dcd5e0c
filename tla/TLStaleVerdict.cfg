SPECIFICATION Spec
CONSTANTS
    Updates = {}
    NoFixes = {"n"}
    Plains = {}
    Child <- ChildOf
    Severity <- SeverityOf
    TaskId <- TaskIdOf
    Versions <- OneVersion
    MaxRetries = 1
    MaxReruns = 1
    MaxReplans = 2
    MaxIterations = 4
    QueueCap = 20
    ParentLeads = {}
    Outcomes = {"success", "surrender", "untried"}
    Verdicts = {"pass", "fail", "breaking", "cleared", "conflict", "inconclusive"}
    Faults = {"abandon"}
PROPERTY OptimisticEnds
