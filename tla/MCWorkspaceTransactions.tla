----------------------- MODULE MCWorkspaceTransactions -----------------------
(***************************************************************************)
(* A small queue: two dependency updates that may also be dispatched as an *)
(* atomic cluster, the workaround child one of them may pivot to, and a    *)
(* workaround that has no parent (a static-analysis finding).              *)
(***************************************************************************)
EXTENDS WorkspaceTransactions

CONSTANTS A, B, C, S

MCParent == [t \in Tasks |-> IF t = C THEN A ELSE NoTask]

Singletons == {{t} : t \in Tasks}

WithCluster == Singletons \cup {{A, B}}
=============================================================================
