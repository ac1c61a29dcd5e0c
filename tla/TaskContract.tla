---------------------------- MODULE TaskContract ----------------------------
(***************************************************************************)
(* What the Supervisor promises of its tasks, whatever order workers, QA    *)
(* and the planner answer in: one batch is in flight at a time; it is       *)
(* dispatched within its limits, built as a whole, and passes as a whole or *)
(* fails; a failure is paid for or ends the task; what has ended is never   *)
(* worked on again.  What is dispatched next, with which versions and by    *)
(* which rules, is left open.                                               *)
(***************************************************************************)
EXTENDS Integers

CONSTANTS
    Tasks,
    Parents,    \* the tasks that another one may replace
    Limit       \* Limit[t]: how often task t may fail

VARIABLES
    life,       \* of each task: "absent", "live", "passed" or "closed"
    charges,    \* the retries each task was charged
    flight,     \* the tasks whose attempt is open
    built,      \* those of them that wait for QA
    over        \* the run has ended

contractVars == <<life, charges, flight, built, over>>

ContractInit ==
    /\ life \in [Tasks -> {"absent", "live"}] /\ charges = [t \in Tasks |-> 0]
    /\ flight = {} /\ built = {} /\ ~over

\* Other tasks are created, given up, or replaced by a child; they pay nothing.
Beside(S) ==
    \A t \in Tasks \ S :
        /\ charges'[t] = charges[t]
        /\ \/ life'[t] = life[t]
           \/ life[t] \in {"absent", "live"} /\ life'[t] \in {"live", "closed"}
           \/ life[t] = "live" /\ life'[t] = "passed" /\ t \in Parents

\* A batch takes off if its tasks are live and have retries left.
TakesOff(S) == \A t \in S : life[t] = "live" /\ life'[t] = "live" /\ charges'[t] < Limit[t]
Stays == flight' = flight /\ \A t \in flight : life'[t] = life[t] /\ charges'[t] = charges[t]

Dispatch == flight = {} /\ TakesOff(flight') /\ built' = {}
Build == Stays /\ built = {} /\ built' = flight
Wait == Stays /\ built' = built
Pass ==
    /\ built = flight /\ flight' = {} /\ built' = {}
    /\ \A t \in flight : life'[t] = "passed" /\ charges'[t] = charges[t]

\* A task of a failed batch ends or pays for it; it goes back unpaid only if a peer
\* pays for what they built together.
Ends(t) == life'[t] = "closed" /\ charges'[t] \in {charges[t], charges[t] + 1}
Pays(t) == life'[t] = "live" /\ charges'[t] = charges[t] + 1
Excused(t) ==
    /\ life'[t] = "live" /\ charges'[t] = charges[t]
    /\ built = flight /\ \E u \in flight : Pays(u)
\* Where QA has spent its dispatches the batch ends, and the next may take off at once.
Fail ==
    /\ flight # {} /\ \A t \in flight : Ends(t) \/ Pays(t) \/ Excused(t)
    /\ flight' = {} \/ (TakesOff(flight') /\ \A t \in flight : Ends(t))
    /\ built' = {}

\* At the end of the run the parents that were replaced are closed, even if they passed.
Close ==
    /\ over' /\ UNCHANGED <<charges, flight, built>>
    /\ \A t \in Tasks : life'[t] = life[t] \/ (life[t] = "passed" /\ life'[t] = "closed" /\ t \in Parents)

ContractNext ==
    /\ ~over
    /\ \/ ~over' /\ Beside(flight) /\ (Dispatch \/ Build \/ Wait \/ Pass \/ Fail)
       \/ Close
ContractSpec == ContractInit /\ [][ContractNext]_contractVars
=============================================================================
