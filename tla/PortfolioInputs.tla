--------------------------- MODULE PortfolioInputs ---------------------------
(***************************************************************************)
(* The inputs of the portfolio plan and its commit, over the replans of a   *)
(* run: run_portfolio_plan_tool prepares groups and tasks                   *)
(* (prepare_portfolio_inputs, materialize_synthetic_dependency_tasks), the  *)
(* candidate versions of each target are collected from a fresh registry    *)
(* snapshot (_prepare_portfolio_problem, _candidate_domains), and the       *)
(* solver's decisions are committed to the queue (apply_portfolio_plan).    *)
(*                                                                          *)
(* There is one group for each occurrence and npm is the package manager.   *)
(* The solver is abstracted to any choice among the candidates of each      *)
(* target: PortfolioProblem is about which choice it makes.  The workers    *)
(* and QA are abstracted to what they do to a task (TaskLifecycle).         *)
(***************************************************************************)
EXTENDS DependencyScope

CONSTANTS
    Repositories,   \* repository records, see DependencyScope
    Vulnerable,     \* the occurrences with a finding
    Fixed,          \* the version that fixes a finding
    Scopes,         \* target_packages: sets of names, {} for the whole repository
    Outages,        \* the sets of names whose registry document may be unavailable
    MaxCandidates,  \* solver_max_candidates_per_target
    MaxIterations   \* bound on the portfolio iterations

\* Assumed of the constants where the module is instantiated.
InputsAssumption ==
    /\ IsFiniteSet(Occurrences) /\ Occurrences = 1..Cardinality(Occurrences)
    /\ Vulnerable \subseteq Occurrences /\ Fixed \in [Vulnerable -> Nat \ {0}]
    /\ MaxCandidates \in Nat /\ MaxIterations \in Nat

VARIABLES
    repo,       \* the repository, which planning never changes
    scope,      \* target_packages
    groups,     \* valid_groups: the occurrences that have a group
    queue,      \* task_queue: the tasks by the number in their id
    plan,       \* planned_task_revisions of the committed plan
    dirty,      \* the plan must be rebuilt
    iteration,  \* portfolio_iteration
    status      \* of the last planning: "none", "ready", "deferred" or "failed"

vars == <<repo, scope, groups, queue, plan, dirty, iteration, status>>

Terminal == {"accepted", "unfixable"}
NewTask(o) == [group |-> o, status |-> "pending", attempt |-> FALSE, retried |-> FALSE,
               bump |-> TRUE, selected |-> 0, approved |-> {}, rev |-> 0]

\* The next unused task id.
FreeId(q) == CHOOSE n \in 1..(Cardinality(DOMAIN q) + 1) :
                 n \notin DOMAIN q /\ \A m \in 1..(n - 1) : m \in DOMAIN q
Added(q, o) == LET n == FreeId(q) IN [t \in DOMAIN q \cup {n} |-> IF t = n THEN NewTask(o) ELSE q[t]]
TasksOf(q, o) == {t \in DOMAIN q : q[t].group = o}
With(g, o, record) == [p \in DOMAIN g \cup {o} |-> IF p = o THEN record ELSE g[p]]

----------------------------------------------------------------------------
(* Preparation. *)

\* The occurrence a task changes: a lockfile-only package is reached by its declared
\* parent if it has one, else by an override.
Aim(o) == IF o \in repo.direct \/ repo.parent[o] = 0 THEN o ELSE repo.parent[o]

\* Every finding group has a task; groups and keys are gone through in the order of the
\* occurrences.
Represented(st) ==
    LET upto[o \in 0..Cardinality(Occurrences)] ==
            IF o = 0 THEN st.queue
            ELSE LET q == upto[o - 1]
                 IN  IF o \in DOMAIN st.groups /\ TasksOf(q, o) = {} THEN Added(q, o) ELSE q
    IN  [st EXCEPT !.queue = upto[Cardinality(Occurrences)]]

\* The update tasks of findings whose versions guide the dependencies around them.
Guides(st, o) ==
    {t \in TasksOf(st.queue, o) : /\ ~st.groups[o].synthetic /\ st.queue[t].bump
                                  /\ scope # {} => o \in repo.direct /\ repo.name[o] \in scope}
Seeds(st) == [o \in Occurrences |-> IF o \in DOMAIN st.groups
                                    THEN {st.queue[t].selected : t \in Guides(st, o)} \ {0} ELSE {}]

\* In a scope an unselected update counts with the versions it may get.
Hints(st) ==
    [o \in Occurrences |->
        IF o \notin DOMAIN st.groups THEN {}
        ELSE Seeds(st)[o] \cup UNION {st.queue[t].approved \cup {st.groups[o].target} :
                 t \in {u \in Guides(st, o) : scope # {} /\ st.queue[u].selected = 0}}]

Keys(st) == IF scope = {} THEN repo.direct ELSE Closure(repo, scope, Hints(st))

\* A scoped plan keeps the groups of its closure and the findings that were asked for,
\* by their own name or their parent's.
Kept(st) ==
    IF scope = {} THEN DOMAIN st.groups
    ELSE {o \in DOMAIN st.groups :
             \/ o \in Keys(st)
             \/ ~st.groups[o].synthetic /\ {repo.name[o], repo.name[Aim(o)]} \cap scope # {}}

\* A lockfile-only finding in scope that no declared parent carries starts with its
\* fixed version.
Provisional(st) ==
    [t \in DOMAIN st.queue |->
        LET task == st.queue[t]
            o == task.group
        IN  IF /\ scope # {} /\ ~st.groups[o].synthetic /\ task.bump /\ task.status = "pending"
               /\ ~task.attempt /\ ~task.retried /\ repo.name[o] \in scope
               /\ o \notin repo.direct /\ Aim(o) = o
            THEN [task EXCEPT !.selected = st.groups[o].target, !.approved = {st.groups[o].target}]
            ELSE task]

\* The version a dependency without a finding is asked to have.
Target(st, keys, o) ==
    LET component == Component(repo, keys, IF scope = {} THEN {"namespace", "workspace", "peer"}
                                           ELSE {"workspace", "peer"}, o)
    IN  SyntheticTarget(repo, o, Agreed(component, Seeds(st)), IF scope = {} THEN {} ELSE component)

\* A synthetic group at its target only needs a task.
Same(st, o) == IF TasksOf(st.queue, o) = {} THEN [st EXCEPT !.queue = Added(@, o)] ELSE st

\* Mutant: only an open attempt holds the target of a synthetic group.
MovableUntilDone(st, o) == \A t \in TasksOf(st.queue, o) : ~st.queue[t].attempt

\* The target of a synthetic group moves only before its task was acted on.
Movable(st, o) ==
    \A t \in TasksOf(st.queue, o) : ~st.queue[t].attempt /\ st.queue[t].status \notin Terminal

\* _refresh_synthetic_group, and the selection of its tasks starts anew.
Refreshed(st, o, target) ==
    LET q == IF TasksOf(st.queue, o) = {} THEN Added(st.queue, o) ELSE st.queue
    IN  [groups |-> With(st.groups, o, [synthetic |-> TRUE, target |-> target]),
         queue |-> [t \in DOMAIN q |->
             IF q[t].group = o /\ (~q[t].bump \/ q[t].selected # 0 \/ st.groups[o].target # target)
             THEN [q[t] EXCEPT !.bump = TRUE, !.selected = 0, !.rev = @ + 1] ELSE q[t]]]

\* A declared dependency without a task of its own gets a synthetic group and a task.
Coordinated(st, committed, o, target) ==
    LET has == o \in DOMAIN st.groups
        left == IF has THEN ~st.groups[o].synthetic ELSE o \in committed
    IN  CASE target = 0 \/ left -> st
          [] target # 0 /\ ~left /\ ~has ->
                [groups |-> With(st.groups, o, [synthetic |-> TRUE, target |-> target]),
                 queue |-> Added(st.queue, o)]
          [] OTHER -> IF st.groups[o].target = target THEN Same(st, o)
                      ELSE IF Movable(st, o) THEN Refreshed(st, o, target) ELSE st

\* prepare_portfolio_inputs with materialize_synthetic_dependency_tasks.
Prepared(known) ==
    LET all == Represented(known)
        keys == Keys(all)
        kept == Kept(all)
        narrow == [groups |-> [o \in kept |-> all.groups[o]],
                   queue |-> [t \in {u \in DOMAIN all.queue : all.queue[u].group \in kept} |-> all.queue[t]]]
        start == [narrow EXCEPT !.queue = Provisional(narrow)]
        committed == {Aim(start.queue[t].group) : t \in DOMAIN start.queue}
        upto[o \in 0..Cardinality(Occurrences)] ==
            IF o = 0 THEN start
            ELSE IF o \in keys THEN Coordinated(upto[o - 1], committed, o, Target(all, keys, o)) ELSE upto[o - 1]
    IN  upto[Cardinality(Occurrences)]

\* What the tool keeps of a preparation until a decision is committed: a task whose
\* revision moved, the others as they were.
Uncommitted(st) ==
    [t \in DOMAIN st.queue |-> IF t \in DOMAIN queue /\ queue[t].rev = st.queue[t].rev THEN queue[t]
                               ELSE st.queue[t]]

----------------------------------------------------------------------------
(* The candidate versions. *)

\* A target that may still get another version.
Eligible(task) == task.bump /\ task.status = "pending" /\ ~task.attempt

\* _required_candidate_package_names: the names whose registry documents are fetched.
Required(task) == {repo.name[Aim(task.group)]} \cup
                  (IF Aim(task.group) = task.group THEN {} ELSE repo.middle[task.group])

\* _resolve_transitive_parent_floors: the parent's versions that are known to bring
\* the fix of the child; a missing document leaves none.
Proof(task, missing) == IF Required(task) \cap missing = {} THEN repo.carries[task.group] ELSE {}

\* _candidate_domains: the installed version, and of the plan's and the task's versions
\* those that were published; every published version of a target that may move.
Domain(st, task, missing) ==
    LET o == Aim(task.group)
        own == IF o = task.group THEN {st.groups[o].target} ELSE {}
        hints == own \cup {task.selected} \cup task.approved
    IN  ({repo.resolved[o]} \cup
         (IF Eligible(task) /\ repo.name[o] \notin missing THEN repo.published[repo.name[o]] ELSE hints)) \ {0}

\* A candidate meets the security floor.
Secure(st, task, missing, v) ==
    LET o == task.group
    IN  \/ st.groups[o].synthetic
        \/ ~st.groups[o].synthetic /\ Aim(o) = o /\ v >= st.groups[o].target
        \/ Aim(o) # o /\ v \in Proof(task, missing)

\* candidate_catalog_complete: the release catalogs of the targets that may move.
Complete(st, missing) ==
    \A t \in DOMAIN st.queue :
        Eligible(st.queue[t]) => /\ repo.name[Aim(st.queue[t].group)] \notin missing
                                 /\ Cardinality(Domain(st, st.queue[t], missing)) <= MaxCandidates

----------------------------------------------------------------------------
(* The transaction. *)

Now == [groups |-> groups, queue |-> queue]

\* A plan over an incomplete catalog ends the run, and so does one that names a task
\* without a group.
PlanFails(st, kept) ==
    /\ \/ \E missing \in Outages : ~Complete(st, missing)
       \/ \E t \in DOMAIN kept : kept[t].group \notin DOMAIN st.groups
    /\ queue' = kept /\ UNCHANGED plan
    /\ status' = "failed" /\ dirty' = FALSE

\* A planned task has an open attempt: its answer is awaited before a plan is applied.
PlanDefers(st, kept) ==
    /\ \E missing \in Outages : Complete(st, missing)
    /\ \E t \in DOMAIN kept : kept[t].attempt
    /\ queue' = kept /\ UNCHANGED <<plan, dirty>>
    /\ status' = "deferred"

\* _project_prepared_portfolio_plan: the revisions the tasks have once the decisions stand.
Planned(st) == [t \in DOMAIN st.queue |-> st.queue[t].rev + 1]

\* Mutant: a terminal task is left as it is.
CommittedIfLive(task, approved, v) ==
    IF task.status \in Terminal THEN task
    ELSE IF v \in approved THEN [task EXCEPT !.selected = v, !.approved = approved, !.rev = @ + 1]
    ELSE [task EXCEPT !.status = "unfixable", !.bump = FALSE, !.selected = 0, !.approved = approved,
                      !.rev = @ + 1]

\* apply_portfolio_plan: a terminal task is only counted on; a target that gets a
\* secure version is told it with the alternatives; any other is given up.
Committed(task, approved, v) ==
    IF task.status \in Terminal THEN [task EXCEPT !.rev = @ + 1]
    ELSE IF v \in approved THEN [task EXCEPT !.selected = v, !.approved = approved, !.rev = @ + 1]
    ELSE [task EXCEPT !.status = "unfixable", !.bump = FALSE, !.selected = 0, !.approved = approved,
                      !.rev = @ + 1]

\* The decisions are any candidates of the targets; the installed version is always one.
PlanCommits(st, kept) ==
    /\ \A t \in DOMAIN kept : kept[t].group \in DOMAIN st.groups /\ ~kept[t].attempt
    /\ \E missing \in Outages :
         LET live == {t \in DOMAIN kept : kept[t].status \notin Terminal}
             domain == [t \in live |-> Domain(st, st.queue[t], missing)]
             approved == [t \in live |-> {v \in domain[t] : Secure(st, st.queue[t], missing, v)}]
         IN  /\ Complete(st, missing)
             /\ \E choice \in [live -> UNION {domain[t] : t \in live}] :
                   /\ \A t \in live : choice[t] \in domain[t]
                   /\ queue' = [t \in DOMAIN kept |-> IF t \in live THEN Committed(kept[t], approved[t], choice[t])
                                                      ELSE Committed(kept[t], {}, 0)]
    /\ plan' = Planned(st)
    /\ status' = "ready" /\ dirty' = FALSE

\* run_portfolio_plan_tool
Plan ==
    /\ dirty /\ iteration < MaxIterations /\ iteration' = iteration + 1
    /\ LET st == Prepared(Now)
           kept == Uncommitted(st)
       IN  /\ groups' = st.groups
           /\ PlanFails(st, kept) \/ PlanDefers(st, kept) \/ PlanCommits(st, kept)
    /\ UNCHANGED <<repo, scope>>

----------------------------------------------------------------------------
(* What happens to the tasks between two plans. *)

Task(t, task, again) ==
    /\ queue' = [queue EXCEPT ![t] = [task EXCEPT !.rev = @ + 1]]
    /\ dirty' = (dirty \/ again)
    /\ UNCHANGED <<repo, scope, groups, plan, iteration, status>>

\* One batch is out at a time; here it is one task.
Dispatch(t) == /\ status = "ready" /\ ~dirty /\ Eligible(queue[t]) /\ \A u \in DOMAIN queue : ~queue[u].attempt
               /\ Task(t, [queue[t] EXCEPT !.attempt = TRUE], FALSE)
Accept(t) == queue[t].attempt /\ Task(t, [queue[t] EXCEPT !.attempt = FALSE, !.status = "accepted"], FALSE)
Reject(t) == queue[t].attempt /\ Task(t, [queue[t] EXCEPT !.attempt = FALSE, !.retried = TRUE], TRUE)
GiveUp(t) == queue[t].attempt /\ Task(t, [queue[t] EXCEPT !.attempt = FALSE, !.status = "unfixable"], TRUE)

\* QA asks for another plan while attempts are open.
Escalate == /\ status = "ready" /\ ~dirty /\ \E t \in DOMAIN queue : queue[t].attempt
            /\ dirty' = TRUE /\ UNCHANGED <<repo, scope, groups, queue, plan, iteration, status>>

Init ==
    /\ repo \in {Linked(r) : r \in Repositories} /\ scope \in Scopes
    /\ groups = [o \in {f \in Vulnerable : scope = {} \/ repo.name[f] \in scope} |->
                    [synthetic |-> FALSE, target |-> Fixed[o]]]
    /\ DOMAIN groups # {}
    /\ queue = <<>> /\ plan = <<>> /\ dirty = TRUE /\ iteration = 0 /\ status = "none"

Work == Escalate \/ \E t \in DOMAIN queue : Dispatch(t) \/ Accept(t) \/ Reject(t) \/ GiveUp(t)
Next == Plan \/ Work
Spec == Init /\ [][Next]_vars

----------------------------------------------------------------------------
(* What preparing and committing promise. *)

\* A synthetic package whose task was dispatched or ended keeps the target it had then,
\* however the versions around it move, as long as it stays in scope.
CommittedIsFrozen ==
    [][\A o \in DOMAIN groups \cap DOMAIN groups' :
           (\E t \in TasksOf(queue, o) : queue[t].attempt \/ queue[t].status \in Terminal)
               => groups'[o] = groups[o]]_vars

\* A plan that was just committed is not at once older than its tasks: the revisions
\* that the projection plans are the ones that the commit gives.
FreshPlanStands == status = "ready" => \A t \in DOMAIN plan : t \in DOMAIN queue /\ queue[t].rev >= plan[t]

\* Does not hold (README, Known deviations): an accepted change stays on the books.
AcceptedIsRemembered ==
    [][\A t \in DOMAIN queue : queue[t].status = "accepted" =>
           t \in DOMAIN queue' /\ queue'[t].group = queue[t].group]_vars

\* Does not hold (README, Known deviations): while the catalog counts as
\* complete, a document that could not be fetched does not make a version of a target
\* insecure ("Missing third-party evidence may relax constraints", portfolio_solver.py:3198).
OutageBlamesNobody ==
    \A missing \in Outages :
        Complete(Now, missing) =>
            \A t \in {u \in DOMAIN queue : Eligible(queue[u])} : \A v \in Domain(Now, queue[t], missing) :
                Secure(Now, queue[t], {}, v) => Secure(Now, queue[t], missing, v)
=============================================================================
