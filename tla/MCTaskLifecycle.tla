-------------------------- MODULE MCTaskLifecycle --------------------------
(***************************************************************************)
(* TaskLifecycle for TLC: two updates, each of which may spawn a workaround *)
(* child, a package without a fixed version and a SAST finding; a           *)
(* configuration takes the ones it is about.                                *)
(***************************************************************************)
EXTENDS TaskLifecycle

ChildOf == [u \in Updates |-> IF u = "a" THEN "ca" ELSE "cb"]
SeverityRank == [a |-> 1, ca |-> 1, b |-> 1, cb |-> 1, n |-> 2, s |-> 2]
Place == [a |-> 1, b |-> 2, n |-> 3, s |-> 4, ca |-> 5, cb |-> 6]
SeverityOf == [t \in Tasks |-> SeverityRank[t]]
TaskIdOf == [t \in Tasks |-> Place[t]]
OneVersion == [u \in Updates |-> 1]
SecondHasTwo == [u \in Updates |-> IF u = "b" THEN 2 ELSE 1]
=============================================================================
