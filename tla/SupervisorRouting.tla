------------------------- MODULE SupervisorRouting -------------------------
(***************************************************************************)
(* The remediation tasks of a run and the Supervisor's routing of them:     *)
(* _deterministic_routing (orchestration/supervisor_routing.py) with the    *)
(* predicates on tasks it reads (supervisor_policy.py, supervisor_node.py). *)
(* Routing is a function of the task queue f, so that a pass can ask for it *)
(* at each point at which the code does; TaskLifecycle is the system.       *)
(*                                                                          *)
(* The project language is Python: the tactical layer and the package-lock  *)
(* and Maven paths abstain.  No task depends on another cluster, and every  *)
(* cluster is dispatchable.                                                 *)
(***************************************************************************)
EXTENDS Integers, FiniteSets, Sequences, SequencesExt

CONSTANTS
    Updates,        \* the SCA tasks that start as version bumps
    NoFixes,        \* the SCA tasks of packages without a fixed version
    Plains,         \* the workaround tasks outside the portfolio (SAST findings)
    Child,          \* Child[u]: the workaround task that update u may spawn
    Severity,       \* Severity[t]: the severity rank of task t, the most severe first
    TaskId,         \* TaskId[t]: the place of task t in the order of the identifiers
    Versions,       \* Versions[u]: the solver approves versions 1..Versions[u] for u
    MaxRetries      \* MAX_RETRIES

Children == {Child[u] : u \in Updates}
Sca == Updates \cup Children \cup NoFixes
Tasks == Sca \cup Plains

ASSUME TaskAssumption ==
    /\ IsFiniteSet(Updates) /\ IsFiniteSet(NoFixes) /\ IsFiniteSet(Plains)
    /\ \A u, v \in Updates : Child[u] = Child[v] => u = v
    /\ Updates \cap (Children \cup NoFixes \cup Plains) = {}
    /\ Children \cap (NoFixes \cup Plains) = {}
    /\ NoFixes \cap Plains = {}
    /\ Versions \in [Updates -> Nat \ {0}] /\ MaxRetries \in Nat \ {0}
    /\ Severity \in [Tasks -> Nat] /\ TaskId \in [Tasks -> Nat]
    /\ \A t, u \in Tasks : TaskId[t] = TaskId[u] => t = u

VARIABLES
    task,       \* task_queue, "unspawned" standing for a task not yet in it
    plan,       \* portfolio_plan, or NoPlan
    active,     \* active_target_task_ids: the targets of the last dispatch
    verdict,    \* qa_evaluations: the last evaluation of each task
    replay,     \* the version that a delta-isolation record lets a peer repeat
    qaDone      \* state["status"] is "qa_completed"

----------------------------------------------------------------------------
(* Tasks. *)

Terminal == {"qa_passed", "unfixable", "inconclusive", "pivoted"}
Workable == {"pending", "needs_retry"}
Failing == {"fail", "breaking", "cleared", "conflict"}
\* An evaluation that the tests failed; "cleared": while the scanner no longer
\* reports the finding; "breaking": a BREAKING_CHANGE.
TestsFailed == {"fail", "breaking", "cleared"}

NoPlan == [order |-> <<>>, members |-> {}]
NoAttempt == [batch |-> {}, answer |-> "none", heard |-> FALSE, verdict |-> "none",
              read |-> FALSE, runs |-> 0, reruns |-> 0]

Queue(f) == {t \in Tasks : f[t].status # "unspawned"}
Live(f) == {t \in Queue(f) : f[t].status \notin Terminal}
Ready(f) == {t \in Tasks : f[t].status = "optimistically_fixed"}
\* current_attempt_id is not None.
IsOpen(f, t) == f[t].attempt.batch # {}
Open(f) == {t \in Live(f) : IsOpen(f, t)}
Work(f) == {t \in Tasks : f[t].status \in Workable}

Parent(c) == CHOOSE u \in Updates : Child[u] = c
\* _has_existing_workaround_child.
HasChild(f, t) == t \in Updates /\ Child[t] \in Queue(f)
\* _is_exhausted_update_pivot_candidate.
MustPivot(f, t) == t \in Updates /\ f[t].status = "needs_retry" /\ f[t].exhausted
\* _validated_delta_replay_candidate.
MayReplay(f, t) ==
    /\ t \in Updates /\ f[t].status = "pending" /\ ~IsOpen(f, t)
    /\ replay[t] # 0 /\ f[t].selected = replay[t]

\* _task_sort_key, as the first of a set of tasks in its order.
StatusRank(s) == CASE s = "needs_retry" -> 0 [] s = "pending" -> 1 [] OTHER -> 2
Precedes(f, t, u) ==
    LET key(x) == <<Severity[x], IF x \in Updates THEN 0 ELSE 1, StatusRank(f[x].status),
                    f[x].retries, TaskId[x]>>
    IN  \E i \in 1..5 : key(t)[i] < key(u)[i] /\ \A j \in 1..(i - 1) : key(t)[j] = key(u)[j]
First(f, S) == CHOOSE t \in S : \A u \in S \ {t} : Precedes(f, t, u)

----------------------------------------------------------------------------
(* The committed portfolio: _portfolio_cluster_targets. *)

\* The clusters in the order in which they are tried: those of the active tasks first.
Clusters ==
    LET isActive(c) == c \cap active # {}
    IN  SelectSeq(plan.order, isActive) \o SelectSeq(plan.order, LAMBDA c : ~isActive(c))
FirstCluster(clusters) == IF clusters = <<>> THEN {} ELSE Head(clusters)
HeadCluster(f) == FirstCluster(SelectSeq(Clusters, LAMBDA c : c \cap Live(f) # {}))
\* The next action of the cluster is work, or QA; a cluster may be ready for neither.
ReadyForWork(f, cluster) ==
    /\ \A t \in cluster : t \in Work(f) /\ ~IsOpen(f, t) /\ ~HasChild(f, t)
    /\ cluster \subseteq Updates \/ Cardinality(cluster) = 1
ReadyForQa(f, cluster) == cluster \subseteq Ready(f)
WorkHead(f) == IF ReadyForWork(f, HeadCluster(f)) THEN HeadCluster(f) ELSE {}
QaHead(f) == IF ReadyForQa(f, HeadCluster(f)) THEN HeadCluster(f) ELSE {}

----------------------------------------------------------------------------
(* The rules of _deterministic_routing in their order of precedence. *)

Decision(node, targets, cluster, pivots) ==
    [node |-> node, targets |-> targets, cluster |-> cluster, pivots |-> pivots]
NoDecision == Decision("none", {}, FALSE, {})
TearDown == Decision("teardown", {}, FALSE, {})

\* A rule applies to a set of tasks if there are any.
RunAll(node, S) == IF S = {} THEN NoDecision ELSE Decision(node, S, Cardinality(S) > 1, {})
RunOne(f, node, S) == IF S = {} THEN NoDecision ELSE Decision(node, {First(f, S)}, FALSE, {})
When(p, d) == IF p THEN d ELSE NoDecision

\* A candidate of the last dispatch is judged before anything else is done.
QaFirst(f) == ~qaDone /\ active \cap Ready(f) # {}
QaOf(S) == Decision("qa", S, FALSE, {})

\* A planned task is worked on in the order of the plan: with the head cluster.
InTurn(t, head) == t \notin plan.members \/ t \in head

NoFixRule(f, head) ==
    RunOne(f, "workaround",
           {t \in NoFixes : /\ <<f[t].stage, f[t].status>> \in
                                {<<"package_removal", "pending">>, <<"code_removal", "needs_retry">>}
                            /\ InTurn(t, head)})

PivotRule(f, exhausted) ==
    When(exhausted # {}, Decision("workaround", {First(f, exhausted)}, FALSE, exhausted))

ActiveRetryRule(f) ==
    LET retried == {t \in active \cap Updates :
                        /\ f[t].status = "needs_retry" /\ ~IsOpen(f, t)
                        /\ verdict[t] \in Failing /\ ~HasChild(f, t)
                        /\ \A i \in DOMAIN plan.order : t \in plan.order[i] => plan.order[i] = {t}}
    IN  When(Cardinality(active) = 1, RunOne(f, "update", retried))

\* A planned workaround may be retried MAX_RETRIES times.
IsSpent(f, t) == t \notin Updates /\ (f[t].stage # "none" \/ f[t].retries >= MaxRetries)
HeadRule(f, head) ==
    CASE head = {} -> When(plan.members \cap Live(f) # {}, TearDown)
      [] \E t \in head : IsSpent(f, t) -> TearDown
      [] head \subseteq Updates -> RunAll("update", head)
      [] OTHER -> RunAll("workaround", head)

UpdateRule(f, status) ==
    RunOne(f, "update", {t \in Updates : f[t].status = status /\ ~HasChild(f, t)})

WorkaroundRule(f) ==
    RunOne(f, "workaround",
           {t \in Work(f) \ Updates : f[t].stage = "none" /\ f[t].retries < MaxRetries})

\* A rule gives way to the next one if it decides nothing.
d ?? e == IF d # NoDecision THEN d ELSE e

Rules(f, head) ==
    When(Live(f) = {}, TearDown)
    ?? RunAll("qa", QaHead(f))
    ?? When(QaFirst(f), QaOf(active \cap Ready(f)))
    ?? When(HeadCluster(f) = {} /\ Ready(f) # {}, QaOf(Ready(f)))
    ?? NoFixRule(f, head)
    ?? RunOne(f, "update", {t \in head : MayReplay(f, t)})
    ?? PivotRule(f, {t \in Updates : MustPivot(f, t) /\ ~HasChild(f, t) /\ InTurn(t, head)})
    ?? ActiveRetryRule(f)
    ?? HeadRule(f, head)
    ?? UpdateRule(f, "needs_retry")
    ?? UpdateRule(f, "pending")
    ?? WorkaroundRule(f)
    ?? TearDown

Route(f) == Rules(f, WorkHead(f))
=============================================================================
