--------------------------- MODULE TaskLifecycle ---------------------------
(***************************************************************************)
(* The life of the remediation tasks of one run: the Supervisor's pass      *)
(* (_run_supervisor_decision_node in orchestration/supervisor_node.py), the *)
(* portfolio tool that plans the update tasks, and the workers and QA as    *)
(* they answer the Supervisor.                                              *)
(*                                                                          *)
(* The graph is sequential: one node runs at a time and returns a patch of  *)
(* the shared state.  What can go wrong is the order of things across the   *)
(* passes: a result that outlives its attempt, a batch settled by halves, a *)
(* retry charged twice or never, a route without a target.                  *)
(*                                                                          *)
(* A pass of the Supervisor is cut into stages, each an action, at the      *)
(* points at which it recomputes its decision; pc names the next node of    *)
(* the graph, or the next stage of the pass.  Instructions, digests and     *)
(* revisions are left out: the envelopes of a worker and of QA carry those  *)
(* of the attempt they were given.                                          *)
(***************************************************************************)
EXTENDS SupervisorRouting

CONSTANTS
    MaxReruns,      \* MAX_QA_EVIDENCE_RERUNS
    MaxReplans,     \* MAX_PORTFOLIO_REPLAN_ATTEMPTS
    MaxIterations,  \* MAX_PORTFOLIO_ITERATIONS
    QueueCap,       \* MAX_TASK_QUEUE_SIZE
    ParentLeads,    \* the updates whose record has a higher revision than their child's
    Outcomes,       \* the answers a worker may give
    Verdicts,       \* the verdicts QA may return
    Faults          \* what may go wrong: "abandon" a dispatch, the "solver", a "nofix" decision

ASSUME BoundAssumption ==
    /\ MaxReruns \in Nat /\ MaxReplans \in Nat /\ MaxIterations \in Nat /\ QueueCap \in Nat
    /\ ParentLeads \subseteq Updates /\ Faults \subseteq {"abandon", "solver", "nofix"}
    /\ Outcomes \subseteq {"success", "surrender", "untried"}
    /\ Verdicts \subseteq {"pass", "inconclusive"} \cup Failing

VARIABLES
    pc,         \* the node of the graph, or the stage of the pass, that runs next
    escalation, \* portfolio_escalation: its reason and the tasks it forces apart
    request,    \* portfolio_replan_request: likewise
    history,    \* portfolio_replan_history: how often each reason was served
    iteration,  \* portfolio_iteration
    entry,      \* what the pass remembers of the state it began with
    decision    \* the SupervisorDecision of the pass

portfolio == <<plan, escalation, request, history, iteration>>
vars == <<pc, task, active, verdict, replay, qaDone, entry, decision, portfolio>>

Statuses == Terminal \cup Workable \cup {"optimistically_fixed", "unspawned"}
Stages == {"none", "package_removal", "code_removal", "unfixable"}
Reasons == {"missing", "membership", "stage", "reconcile", "cluster",
            "UNFIXABLE_REPLAN", "CONFLICT", "DELTA"}
Nobody == [reason |-> "none", forced |-> {}]

----------------------------------------------------------------------------
(* Transitions of a task: _commit_task_transition and what is built on it. *)

\* VALID_TRANSITIONS.
Permitted ==
    {<<"pending", s>> : s \in {"optimistically_fixed", "pivoted", "needs_retry", "unfixable", "inconclusive"}}
    \cup {<<"optimistically_fixed", s>> : s \in {"qa_passed", "needs_retry", "inconclusive", "pending", "unfixable"}}
    \cup {<<"needs_retry", s>> : s \in {"optimistically_fixed", "pivoted", "unfixable", "inconclusive"}}

Close(r) == [r EXCEPT !.attempt = NoAttempt]
\* Mutant: the version of a failed attempt is dropped, but the attempt stays open.
DropVersionOnly(r) == [r EXCEPT !.selected = 0]
Drop(r) == [r EXCEPT !.attempt = NoAttempt, !.selected = 0]

\* An illegal status rejects the whole update, a terminal one ends the attempt.
Commit(old, new) ==
    IF old.status # new.status /\ <<old.status, new.status>> \notin Permitted THEN old
    ELSE IF new.status \in Terminal THEN Drop(new) ELSE new
\* The queue in which each task t of S is committed as New(t).
Committed(f, S, New(_)) == [t \in Tasks |-> IF t \in S THEN Commit(f[t], New(t)) ELSE f[t]]
SetStatus(f, S, s) == Committed(f, S, LAMBDA t : [f[t] EXCEPT !.status = s])

\* Mutant: a retry is not counted.
RetryUncharged(r) == [r EXCEPT !.status = "needs_retry"]
Charged(r) == [r EXCEPT !.status = "needs_retry", !.retries = @ + 1]
\* _no_fix_failure_transition.
NextStage(r) ==
    IF r.stage = "package_removal"
    THEN Drop([Charged(r) EXCEPT !.stage = "code_removal"])
    ELSE Drop([r EXCEPT !.status = "unfixable", !.stage = "unfixable", !.retries = @ + 1])

\* _run_deterministic_retry_planner for one update: its next approved version.
Replanned(t, r) ==
    LET untried == (1..Versions[t]) \ r.tried
        next == CASE r.selected \in untried -> r.selected
                  [] untried = {} -> 0
                  [] OTHER -> CHOOSE v \in untried : \A w \in untried : v <= w
    IN  [r EXCEPT !.selected = next, !.exhausted = next = 0]
\* The plan of the retry planner for the tasks of S that need one.
Planned(f, S) ==
    Committed(f, {t \in S \cap Updates : f[t].status = "needs_retry" /\ ~MustPivot(f, t)},
              LAMBDA t : Replanned(t, f[t]))

----------------------------------------------------------------------------
(* The committed plan against the tasks: _portfolio_plan_violations. *)

\* _is_committed_workaround_child.
ContinuesPlan(f, c) == c \in Children /\ Parent(c) \in plan.members /\ f[Parent(c)].exhausted
\* _nonterminal_sca_task_ids.
LiveSca(f) == {t \in Live(f) \cap Sca : ~ContinuesPlan(f, t)}

\* The task that stands for update u in a portfolio: u, or the child it spawned.
Leaf(f, u) ==
    IF /\ HasChild(f, u)
       /\ Child[u] \in Live(f) \/ (u \notin Live(f) /\ u \notin ParentLeads)
    THEN Child[u] ELSE u
Leaves(f) == {Leaf(f, u) : u \in Updates} \cup NoFixes
ActiveLeaves(f) == {IF HasChild(f, u) /\ ContinuesPlan(f, Child[u]) THEN u ELSE Leaf(f, u) : u \in Updates}
                       \cup NoFixes

\* The first violation, as the reason of a replan; "none" if the plan stands.
Violation(f) ==
    CASE plan = NoPlan -> "missing"
      [] ActiveLeaves(f) # plan.members -> "membership"
      [] \E t \in plan.members \cap Live(f) : f[t].latest -> "stage"
      [] OTHER -> "none"
IsStale(f) == plan # NoPlan /\ Violation(f) # "none"

----------------------------------------------------------------------------
(* The tasks and the shared state when the portfolio tool first runs. *)

NewTask(status, stage) ==
    [status |-> status, retries |-> 0, selected |-> 0, tried |-> {}, exhausted |-> FALSE,
     latest |-> FALSE, stage |-> stage, attempt |-> NoAttempt]

Init ==
    /\ pc = "portfolio"
    /\ task = [t \in Tasks |-> CASE t \in Children -> NewTask("unspawned", "none")
                                 [] t \in NoFixes -> NewTask("pending", "package_removal")
                                 [] OTHER -> NewTask("pending", "none")]
    /\ plan = NoPlan /\ active = {} /\ qaDone = FALSE
    /\ verdict = [t \in Tasks |-> "none"]
    /\ replay = [t \in Tasks |-> 0]
    /\ escalation = Nobody /\ request = Nobody
    /\ history = [r \in Reasons |-> 0] /\ iteration = 0
    /\ entry = [unfixable |-> {}, cleared |-> FALSE]
    /\ decision = NoDecision

----------------------------------------------------------------------------
(* The portfolio tool: run_portfolio_plan_tool (supervisor_portfolio.py).   *)

Looping == request # Nobody /\ (history[request.reason] >= MaxReplans \/ iteration >= MaxIterations)

\* _replan_guard: the run gives up on a reason that comes back.
PortfolioGivesUp ==
    /\ pc = "portfolio" /\ Looping
    /\ pc' = "teardown" /\ active' = {}
    /\ request' = Nobody /\ escalation' = Nobody /\ iteration' = iteration + 1
    /\ UNCHANGED <<task, verdict, replay, qaDone, entry, decision, plan, history>>

PortfolioCounts ==
    /\ pc = "portfolio" /\ ~Looping
    /\ iteration' = iteration + 1
    /\ history' = IF request = Nobody THEN history ELSE [history EXCEPT ![request.reason] = @ + 1]

SolverFails ==
    /\ PortfolioCounts /\ "solver" \in Faults
    /\ pc' = "teardown" /\ active' = {}
    /\ UNCHANGED <<task, verdict, replay, qaDone, entry, decision, plan, escalation, request>>

\* An open attempt of a planned task is reconciled before the plan is rebuilt.
PortfolioDefers ==
    /\ PortfolioCounts /\ Leaves(task) \cap Open(task) # {}
    /\ pc' = "supervisor" /\ active' = Open(task)
    /\ request' = IF request = Nobody THEN [reason |-> "reconcile", forced |-> {}] ELSE request
    /\ UNCHANGED <<task, verdict, replay, qaDone, entry, decision, plan, escalation>>

\* apply_portfolio_plan: the live tasks in some order, the updates in clusters,
\* each with an approved version; a task without any fix is given up.
PortfolioCommits ==
    /\ PortfolioCounts /\ Leaves(task) \cap Open(task) = {}
    /\ LET members == Leaves(task)
           live == members \cap Live(task)
           bumps == live \cap Updates
       IN  \E rank \in [live -> 1..Cardinality(live)], version \in [bumps -> UNION {1..Versions[u] : u \in Updates}],
              lost \in SUBSET (live \ NoFixes) :
             /\ \A t \in bumps : version[t] <= Versions[t]
             /\ lost = {} \/ "nofix" \in Faults
             /\ \E n \in 0..Cardinality(live) : {rank[t] : t \in live} = 1..n
             /\ \A t, u \in live : t # u /\ rank[t] = rank[u] => {t, u} \subseteq bumps \ request.forced
             /\ plan' = [members |-> members,
                         order |-> [i \in {rank[t] : t \in live} |-> {t \in live : rank[t] = i}]]
             /\ task' = Committed(task, bumps \cup lost, LAMBDA t :
                          IF t \in lost THEN [task[t] EXCEPT !.status = "unfixable"]
                          ELSE [task[t] EXCEPT !.selected = version[t], !.latest = FALSE])
    /\ pc' = "supervisor" /\ active' = {}
    /\ request' = Nobody /\ escalation' = Nobody
    /\ UNCHANGED <<verdict, replay, qaDone, entry, decision>>

----------------------------------------------------------------------------
(* The Supervisor's pass, first stage: reconcile what the workers and QA    *)
(* returned with the tasks.                                                 *)

\* _recover_active_target_task_ids.
Recovered ==
    active \cup {t \in Tasks : LET a == task[t].attempt IN
                     \/ a.answer # "none" /\ ~a.heard
                     \/ a.verdict # "none" /\ ~a.read}
Replans ==
    Violation(task) # "none" /\ Open(task) = {}
ClearsRequest(f) == request.reason = "UNFIXABLE_REPLAN" /\ LiveSca(f) = {}

\* The outer plan is rebuilt before anything else if no attempt is open.
PlansFirst ==
    /\ pc = "supervisor" /\ Replans /\ ~ClearsRequest(task)
    /\ pc' = "portfolio" /\ active' = {} /\ qaDone' = FALSE
    /\ request' = IF request = Nobody THEN [reason |-> Violation(task), forced |-> {}] ELSE request
    /\ UNCHANGED <<task, verdict, replay, entry, decision, plan, escalation, history, iteration>>

\* The answer of a worker, once for each attempt.
Answered(t) ==
    LET a == task[t].attempt
        told == [task[t] EXCEPT
                    !.attempt.heard = TRUE,
                    !.tried = IF t \in Updates /\ a.answer # "untried"
                              THEN @ \cup {task[t].selected} ELSE @]
    IN  CASE a.answer = "success" -> [told EXCEPT !.status = "optimistically_fixed"]
          [] a.answer # "success" /\ t \in NoFixes -> NextStage(told)
          [] a.answer # "success" /\ t \in Updates -> Drop(Charged(told))
          [] OTHER -> [told EXCEPT !.status = "unfixable"]
HearWorkers ==
    Committed(task, {t \in Open(task) : task[t].attempt.answer # "none" /\ ~task[t].attempt.heard}, Answered)

\* The members of the cluster that the pass is about; the whole of it fails if
\* one of them did, or if the dispatch came to nothing.
Batch ==
    LET members == {t \in Recovered \cap Open(task) : Cardinality(task[t].attempt.batch) > 1}
    IN  IF Cardinality(members) > 1 THEN members ELSE {}
BatchAnswered(f) ==
    IF \A t \in Batch : IsOpen(f, t) /\ f[t].attempt.answer = "success"
    THEN SetStatus(f, Batch, "optimistically_fixed")
    ELSE Committed(f, Batch, LAMBDA t :
           Close([f[t] EXCEPT !.status = "needs_retry",
                              !.retries = IF @ > task[t].retries THEN @ ELSE task[t].retries + 1]))

\* The QA envelopes of the open attempts: what they make of the evaluations,
\* and which of them end the attempt.
Judged(f) == {t \in Recovered \cap Open(f) : f[t].attempt.verdict # "none" /\ ~f[t].attempt.read}
Evaluations(f) == [t \in Tasks |-> IF t \in Judged(f) THEN f[t].attempt.verdict ELSE verdict[t]]
Inconclusive(f) == {t \in Judged(f) : f[t].attempt.verdict = "inconclusive"}
Spent(f) == {t \in Inconclusive(f) : f[t].attempt.reruns >= MaxReruns}
\* Mutant: an inconclusive verdict ends the attempt at once.
ReadQaClosingAll(f) == Committed(f, Judged(f), LAMBDA t : Drop(f[t]))
ReadQa(f) ==
    Committed(f, Judged(f), LAMBDA t :
        CASE t \in Inconclusive(f) \ Spent(f) -> [f[t] EXCEPT !.attempt.reruns = @ + 1]
          [] t \notin Inconclusive(f) \ Spent(f) /\ Batch = {} -> Drop(f[t])
          [] OTHER -> [f[t] EXCEPT !.attempt.read = TRUE])

\* An atomic batch passes, waits, is given up or is retried as a whole.  A blame
\* found by delta isolation sends only the blamed task back; its peers may
\* repeat the version they were judged with.
Blamed == IF escalation.reason = "DELTA" THEN escalation.forced \cap Batch ELSE {}
\* Mutant: every member of a failed batch is settled by its own evaluation.
SettledOneByOne(f, e, esc, spent) ==
    Committed(f, Batch, LAMBDA t :
        IF e[t] = "pass" THEN [f[t] EXCEPT !.status = "qa_passed"] ELSE Close(Charged(f[t])))
SettledBatch(f, e, esc, spent) ==
    LET failed == \E t \in Batch : e[t] \in Failing \cup {"none"}
        pending == \E t \in Batch : e[t] = "inconclusive"
        retried == IF esc.reason = "DELTA" /\ Blamed # {} THEN Blamed ELSE Batch
    IN  CASE ~failed /\ spent \cap Batch # {} -> SetStatus(f, Batch, "inconclusive")
          [] ~failed /\ spent \cap Batch = {} /\ pending -> SetStatus(f, Batch, "optimistically_fixed")
          [] ~failed /\ ~pending -> SetStatus(f, Batch, "qa_passed")
          [] OTHER -> Committed(f, Batch, LAMBDA t :
                        Close(IF t \in retried THEN Charged(f[t]) ELSE [f[t] EXCEPT !.status = "pending"]))

\* Without a batch, each evaluated task is settled by itself.
SettledAlone(f, e, heard, spent) ==
    Committed(f, {t \in Tasks : /\ e[t] # "none" /\ (IsOpen(f, t) => t \in heard)
                                /\ f[t].status \notin {"unfixable", "qa_passed"}},
              LAMBDA t :
                CASE t \in spent -> [f[t] EXCEPT !.status = "inconclusive"]
                  [] t \notin spent /\ e[t] = "inconclusive" -> [f[t] EXCEPT !.status = "optimistically_fixed"]
                  [] e[t] = "pass" -> [f[t] EXCEPT !.status = "qa_passed"]
                  [] e[t] = "conflict" -> Close(Charged(f[t]))
                  [] e[t] \in TestsFailed /\ t \in NoFixes -> NextStage(f[t])
                  [] OTHER -> Drop(Charged(f[t])))

\* A peer conflict escalates to the portfolio, and replaces an attribution; an
\* attribution that was not validated forces nobody apart.
Escalated(e) ==
    LET judged == IF Batch # {} THEN Batch ELSE Tasks
        conflict == qaDone /\ \E t \in judged : e[t] = "conflict"
    IN  IF conflict THEN [reason |-> "CONFLICT", forced |-> {}]
        ELSE IF escalation.reason = "DELTA" /\ (~qaDone \/ Blamed = {})
        THEN [reason |-> "DELTA", forced |-> {}] ELSE escalation
Requested(esc) == IF esc.reason = "DELTA" \/ request = Nobody THEN esc ELSE request

\* Mutant: a breaking change counts as passed, a cleared finding as superseded.
PivotStatusSwapped(e, u) ==
    CASE e[u] = "cleared" -> "pivoted" [] e[u] = "breaking" -> "qa_passed" [] OTHER -> "unfixable"
\* _reconcile_terminal_pivot_parents: the status of a parent whose workaround
\* takes over depends on its last evaluation.
PivotStatus(e, u) ==
    CASE e[u] = "cleared" -> "qa_passed" [] e[u] = "breaking" -> "pivoted" [] OTHER -> "unfixable"
\* A pass by pivot is the one transition outside VALID_TRANSITIONS.
Pivoted(f, e, S) ==
    [t \in Tasks |-> IF t \in S
        THEN Drop([f[t] EXCEPT !.status = PivotStatus(e, t), !.exhausted = TRUE, !.latest = TRUE])
        ELSE f[t]]

\* The parents that are still live after their workaround has ended.
Overtaken(f) == {u \in Updates \cap Live(f) : HasChild(f, u) /\ Child[u] \notin Live(f)}
HandedOver(f, e) == Pivoted(f, e, Overtaken(f))
GivenUp(f) == SetStatus(f, {t \in Live(f) : f[t].stage = "unfixable"}, "unfixable")

Settled(heard, e, esc) ==
    CASE ~qaDone -> ReadQa(heard)
      [] qaDone /\ Batch # {} -> SettledBatch(ReadQa(heard), e, esc, Spent(heard))
      [] OTHER -> SettledAlone(ReadQa(heard), e, Judged(heard), Spent(heard))

Reconciled(heard, e, esc) ==
    /\ verdict' = e /\ escalation' = esc /\ request' = Requested(esc)
    /\ task' = HandedOver(GivenUp(Settled(heard, e, esc)), e)
    /\ replay' = [t \in Tasks |-> IF /\ qaDone /\ esc.reason = "DELTA"
                                      /\ Blamed # {} /\ t \in Batch \ Blamed
                                   THEN heard[t].selected ELSE replay[t]]

Reconcile ==
    /\ pc = "supervisor" /\ (~Replans \/ ClearsRequest(task))
    /\ LET heard == BatchAnswered(HearWorkers)
       IN  Reconciled(heard, Evaluations(heard), Escalated(Evaluations(heard)))
    /\ entry' = [unfixable |-> {t \in Sca : task[t].status = "unfixable"}, cleared |-> ClearsRequest(task)]
    /\ active' = Recovered
    /\ decision' = NoDecision
    /\ pc' = "plan"
    /\ UNCHANGED <<qaDone, plan, history, iteration>>

----------------------------------------------------------------------------
(* Second stage: a first decision, the retry planner and the retry cap.     *)

ToPortfolio == Decision("portfolio", {}, FALSE, {})

\* A first decision for a single worker has the retry planner plan its target, ...
Single(d) == d.node \in {"update", "workaround"} /\ Cardinality(d.targets \ NoFixes) = 1
RetryPlanned(d) ==
    IF QaFirst(task) \/ Live(task) = {} \/ Ready(task) # {} \/ ~Single(d) THEN task
    ELSE Planned(task, d.targets \ NoFixes)
Exhausted(f) == {t \in Updates : f[t].exhausted /\ ~task[t].exhausted}
AtLastStage(f) == [t \in Tasks |-> IF t \in Exhausted(f) THEN [f[t] EXCEPT !.latest = TRUE] ELSE f[t]]
\* ... and stands only if the plan has no more versions to offer.
Proposed(f, d) ==
    CASE QaFirst(f) -> QaOf(active \cap Ready(f))
      [] ~QaFirst(f) /\ Live(f) = {} -> TearDown
      [] ~QaFirst(f) /\ Ready(f) # {} -> QaOf(Ready(f))
      [] OTHER -> IF ~Single(d) THEN d ELSE IF Exhausted(f) # {} THEN Route(f) ELSE NoDecision
\* MAX_RETRIES: the failed tasks that nothing else is planned for.
Capped(f, d) ==
    {t \in Tasks : /\ f[t].status = "needs_retry" /\ f[t].retries >= MaxRetries
                   /\ f[t].stage = "none" /\ ~MustPivot(f, t) /\ t \notin d.pivots}

Decided(f, d) ==
    /\ task' = SetStatus(f, Capped(f, d), "unfixable")
    /\ decision' = IF QaFirst(task') THEN QaOf(active \cap Ready(task'))
                   ELSE IF Capped(f, d) # {} THEN NoDecision ELSE d

Plan ==
    /\ pc = "plan"
    /\ LET f == AtLastStage(RetryPlanned(Route(task)))
       IN  Decided(f, Proposed(f, Route(task)))
    /\ pc' = "route"
    /\ UNCHANGED <<active, verdict, replay, qaDone, entry, portfolio>>

----------------------------------------------------------------------------
(* Third stage: the authority boundary and the guardrails.                  *)

Dispatchable(f) == {t \in Work(f) : ~IsOpen(f, t)}
\* _normalize_target_task_ids_for_node.
Allowed(f, node) ==
    CASE node = "qa" -> Ready(f)
      [] node = "update" -> {t \in Dispatchable(f) \cap Updates : ~MustPivot(f, t)}
      [] node = "workaround" -> Dispatchable(f) \ Updates
      [] OTHER -> {}
Normalised(f, d) == [d EXCEPT !.targets = @ \cap Allowed(f, d.node)]

\* The targets of a decision that the guardrails let stand.
Valid(f, d) == d.targets \cap (Allowed(f, d.node) \cup (Dispatchable(f) \cap d.pivots))

\* An update is retried only with the instruction of a retry plan: the targets
\* that have to be retried are planned again, and the decision is taken again.
ToReplan(d, valid) == {t \in valid : d.node = "update" /\ task[t].status = "needs_retry"}
Guarded(d, valid) ==
    /\ task' = Planned(task, ToReplan(d, valid))
    /\ decision' = CASE d.node = "teardown" -> d
                     [] d.node # "teardown" /\ (valid = {} \/ ToReplan(d, valid) # {}) -> Route(task')
                     [] OTHER -> [d EXCEPT !.targets = valid]

Guard ==
    /\ pc = "route"
    /\ LET d == IF decision = NoDecision THEN Route(task) ELSE decision
       IN  IF \/ Open(task) = {} /\ ~entry.cleared /\ IsStale(task)
              \/ escalation # Nobody
           THEN decision' = ToPortfolio /\ task' = task
           ELSE Guarded(d, Valid(task, d))
    /\ pc' = "apply"
    /\ UNCHANGED <<active, verdict, replay, qaDone, entry, portfolio>>

----------------------------------------------------------------------------
(* Fourth stage: spawn and terminalise what pivots, authorise what is to be *)
(* dispatched, and find another route if nothing is left of it.             *)

\* _materialize_spawn_requests: a child is reused if it exists, and not created
\* when the queue is full.
Spawned(f, S) ==
    LET new == {u \in S : ~HasChild(f, u)}
        before(u) == {w \in new : Precedes(f, w, u)}
        room == {u \in new : Cardinality(Queue(f)) + Cardinality(before(u)) < QueueCap}
    IN  [t \in Tasks |-> IF t \in {Child[u] : u \in room} THEN NewTask("pending", "none") ELSE f[t]]

\* Mutant: a version that was attempted before is authorised again.
AuthorisedAgain(f, t) == t \notin Updates \/ f[t].selected # 0
\* _authorize_update_dispatch: the selected version was not yet attempted, or
\* the task may repeat it.
Authorised(f, t) ==
    t \notin Updates \/ (f[t].selected # 0 /\ (f[t].selected \notin f[t].tried \/ MayReplay(f, t)))
\* An update without authorisation is planned again; an exhausted plan below
\* the last stage is not valid, and the update is given up as inconclusive.
Reauthorised(f, S) ==
    LET plans == Planned(f, {t \in S : ~Authorised(f, t)})
        better == [t \in Tasks |-> IF plans[t].exhausted /\ ~plans[t].latest THEN f[t] ELSE plans[t]]
    IN  SetStatus(better, {t \in S : ~Authorised(better, t) /\ ~better[t].exhausted}, "inconclusive")

Workers == {"update", "workaround"}

\* The decision with the children for the parents that pivot.
Remapped(f, d) ==
    Normalised(f, [d EXCEPT !.targets = {IF t \in d.pivots THEN Child[t] ELSE t : t \in @}])
Kept(f, d) == [d EXCEPT !.targets = {t \in @ : d.node = "update" => Authorised(f, t)}]
Rerouted(f, d) ==
    IF d.node \in Workers \cup {"qa"} /\ d.targets = {} THEN Normalised(f, Route(f)) ELSE d
\* A worker without a target stops the run: all that is left is given up.
FailClosed(f, d) ==
    IF d.node \in Workers /\ d.targets = {}
    THEN task' = SetStatus(f, Live(f), "unfixable") /\ decision' = TearDown
    ELSE task' = f /\ decision' = d

AuthorisedDispatch(f, d) == FailClosed(f, Rerouted(f, Kept(f, d)))
Applied(f, d) == AuthorisedDispatch(IF d.node = "update" THEN Reauthorised(f, d.targets) ELSE f, d)

Apply ==
    /\ pc = "apply"
    /\ LET spawned == Pivoted(Spawned(task, decision.pivots), verdict, decision.pivots)
       IN  Applied(spawned, Remapped(spawned, decision))
    /\ pc' = "commit"
    /\ UNCHANGED <<active, verdict, replay, qaDone, entry, portfolio>>

----------------------------------------------------------------------------
(* Last stage: replans, the recheck barrier and the QA limit override the   *)
(* decision, and its targets get their attempts.                            *)

Lost(f) == {t \in Sca : f[t].status = "unfixable"} \ entry.unfixable
Pending == request.reason = "UNFIXABLE_REPLAN"
Required(f) == Lost(f) # {} /\ LiveSca(f) # {}
Cleared(f) == entry.cleared \/ (Pending /\ LiveSca(f) = {})
Suppressed(f) == LiveSca(f) = {} /\ (Cleared(f) \/ Lost(f) # {})
RequestAfter(f) ==
    IF Pending /\ LiveSca(f) = {} THEN Nobody
    ELSE IF Required(f) /\ request = Nobody THEN [reason |-> "UNFIXABLE_REPLAN", forced |-> {}] ELSE request

\* The fallback for a suppressed replan calls _deterministic_routing with
\* arguments it does not have, and raises.
Raises ==
    /\ Suppressed(task) /\ decision.node = "portfolio"
    /\ escalation = Nobody /\ RequestAfter(task) = Nobody
Crash ==
    /\ pc = "commit" /\ Raises
    /\ pc' = "crashed"
    /\ UNCHANGED <<task, active, verdict, replay, qaDone, entry, decision, portfolio>>

\* A replan waits for the open attempts.
AfterReplan(f, d) ==
    IF LiveSca(f) # {} /\ (Required(f) \/ Pending)
    THEN IF Open(f) = {} THEN ToPortfolio
         ELSE IF d.node = "qa" THEN d ELSE Decision("qa", Open(f), Cardinality(Open(f)) > 1, {})
    ELSE d

\* A candidate that QA has begun to judge is judged to the end.
AfterBarrier(f, d) ==
    LET rechecked == {t \in Ready(f) \cap Open(f) : f[t].attempt.runs > 0}
        first == CHOOSE t \in rechecked : TRUE
        targets == {t \in Ready(f) \cap Open(f) : f[t].attempt.batch = f[first].attempt.batch}
    IN  IF rechecked = {} THEN d ELSE Decision("qa", targets, Cardinality(targets) > 1, {})

\* Mutant: one QA dispatch more than the limit.
QaSpentLate(f, d) ==
    {t \in d.targets : d.node = "qa" /\ IsOpen(f, t) /\ f[t].attempt.runs > MaxReruns + 1}
\* The tasks that have used up their QA dispatches, with the rest of their batch.
QaSpent(f, d) ==
    LET spent == {t \in d.targets : d.node = "qa" /\ IsOpen(f, t) /\ f[t].attempt.runs >= MaxReruns + 1}
    IN  CASE spent = {} -> {}
          [] spent # {} /\ d.cluster -> d.targets
          [] OTHER -> {t \in d.targets : \E u \in spent : f[t].attempt.batch = f[u].attempt.batch}

\* Every target of a worker gets a new attempt, every target of QA is counted.
Attempted(f, d) ==
    [t \in Tasks |->
        CASE t \in d.targets /\ d.node \in Workers /\ Authorised(f, t) ->
                 [f[t] EXCEPT !.attempt = [NoAttempt EXCEPT !.batch = d.targets]]
          [] t \in d.targets /\ d.node = "qa" /\ IsOpen(f, t) -> [f[t] EXCEPT !.attempt.runs = @ + 1]
          [] OTHER -> f[t]]

Sent(f, d, after, g) ==
    /\ task' = g
    /\ replay' = [t \in Tasks |-> IF d.node = "update" /\ t \in d.targets /\ MayReplay(f, t)
                                   THEN 0 ELSE replay[t]]
    /\ request' = IF after = Nobody /\ IsStale(g) /\ ~Suppressed(task) /\ (Cleared(task) => escalation # Nobody)
                  THEN [reason |-> Violation(g), forced |-> {}] ELSE after
    /\ active' = d.targets
    /\ pc' = IF d.node \in Workers /\ d.targets = {} THEN "teardown" ELSE d.node

\* A cluster of one, or one with a member that has no version, cannot be sent as one
\* action: the portfolio has to plan again.
NoAction(f, d) ==
    d.node = "update" /\ d.cluster /\ (Cardinality(d.targets) < 2 \/ \E t \in d.targets : f[t].selected = 0)
Sending(f, d) ==
    IF NoAction(f, d)
    THEN Sent(f, ToPortfolio, [reason |-> "cluster", forced |-> {}], f)
    ELSE Sent(f, d, RequestAfter(task), Attempted(f, d))

\* What is left of the decision d without the targets that QA has judged too often.
Limiting(d, spent) ==
    LET f == SetStatus(task, spent, "inconclusive")
    IN  IF spent # {} /\ d.targets \subseteq spent THEN Sending(f, Normalised(f, Route(f)))
        ELSE Sending(f, [d EXCEPT !.targets = @ \ spent])

CommitDispatch ==
    /\ pc = "commit" /\ ~Raises
    /\ LET d == AfterBarrier(task, AfterReplan(task, decision)) IN Limiting(d, QaSpent(task, d))
    /\ qaDone' = FALSE /\ decision' = NoDecision
    /\ entry' = [unfixable |-> {}, cleared |-> FALSE]
    /\ UNCHANGED <<verdict, plan, escalation, history, iteration>>

----------------------------------------------------------------------------
(* The other nodes of the graph. *)

\* The dispatch boundary, and whatever ends a dispatch before it has a result,
\* return no envelope: _dispatch_boundary_rejection, prepare failures.
Rejected == \E t \in active : ~IsOpen(task, t)
Abandoned == Rejected \/ "abandon" \in Faults

WorkerAbandons ==
    /\ pc \in Workers /\ Abandoned
    /\ pc' = "supervisor"
    /\ active' = IF Rejected THEN {} ELSE active
    /\ UNCHANGED <<task, verdict, replay, qaDone, entry, decision, portfolio>>

WorkerAnswers ==
    /\ pc \in Workers /\ ~Rejected
    /\ \E answer \in [active -> Outcomes] :
         task' = [t \in Tasks |-> IF t \in active THEN [task[t] EXCEPT !.attempt.answer = answer[t]] ELSE task[t]]
    /\ pc' = "supervisor"
    /\ UNCHANGED <<active, verdict, replay, qaDone, entry, decision, portfolio>>

\* QA leaves no evaluation behind when its dispatch is abandoned.
QaAbandons ==
    /\ pc = "qa" /\ (Abandoned \/ active = {})
    /\ pc' = "supervisor" /\ active' = {}
    /\ verdict' = [t \in Tasks |-> "none"]
    /\ UNCHANGED <<task, replay, qaDone, entry, decision, portfolio>>

\* Only an update can be in conflict with a peer, or be judged by its scan.
Possible(t) == IF t \in Updates THEN Verdicts ELSE Verdicts \cap {"pass", "fail", "inconclusive"}

\* QA evaluates the targets of one dispatch together; for a failed batch, the
\* delta isolation may find the one to blame.
QaAnswers ==
    /\ pc = "qa" /\ ~Rejected /\ active # {}
    /\ \E v \in [active -> Verdicts], blamed \in SUBSET active :
         /\ \A t \in active : v[t] \in Possible(t)
         /\ Cardinality(blamed) <= 1
         /\ blamed # {} => /\ Cardinality(active) > 1
                           /\ \E t \in active : v[t] \in TestsFailed
                           /\ \A t \in active : v[t] # "conflict"
         /\ verdict' = [t \in Tasks |-> IF t \in active THEN v[t] ELSE "none"]
         /\ task' = [t \in Tasks |-> IF t \in active THEN [task[t] EXCEPT !.attempt.verdict = v[t]] ELSE task[t]]
         /\ escalation' = IF blamed = {} THEN escalation ELSE [reason |-> "DELTA", forced |-> blamed]
         /\ plan' = IF blamed = {} THEN plan ELSE NoPlan
    /\ qaDone' = TRUE /\ pc' = "supervisor"
    /\ UNCHANGED <<active, replay, entry, decision, request, history, iteration>>

\* reconcile_phase5_state_before_teardown: the parents that handed over to a
\* workaround are closed as pivoted.
Teardown ==
    /\ pc = "teardown"
    /\ pc' = "done" /\ active' = {}
    /\ task' = [t \in Tasks |-> IF HasChild(task, t) THEN Drop([task[t] EXCEPT !.status = "pivoted"]) ELSE task[t]]
    /\ UNCHANGED <<verdict, replay, qaDone, entry, decision, portfolio>>

Ended == pc \in {"done", "crashed"} /\ UNCHANGED vars

Supervisor == PlansFirst \/ Reconcile \/ Plan \/ Guard \/ Apply \/ Crash \/ CommitDispatch
PortfolioTool == PortfolioGivesUp \/ SolverFails \/ PortfolioDefers \/ PortfolioCommits
Next ==
    \/ Supervisor \/ PortfolioTool \/ Teardown \/ Ended
    \/ WorkerAbandons \/ WorkerAnswers \/ QaAbandons \/ QaAnswers

\* The graph runs on until it ends: every step goes to another stage or node, so
\* this is WF_vars(Next), in a form whose ENABLED costs nothing to evaluate.
Stops == {"supervisor", "plan", "route", "apply", "commit", "qa", "portfolio", "teardown", "done", "crashed"}
             \cup Workers
Moves == pc \notin {"done", "crashed"} /\ \E p \in Stops \ {pc} : pc' = p
Spec == Init /\ [][Next]_vars /\ WF_pc(Moves)

----------------------------------------------------------------------------
(* The types. *)

Nodes == {"none", "qa", "update", "workaround", "portfolio", "teardown"}

\* Every part of the state has the shape that the code's schemas give it.
TypeOK ==
    /\ pc \in Stops
    /\ \A t \in Tasks : \* (TLC enumerates no set of records)
        /\ DOMAIN task[t] = DOMAIN NewTask("pending", "none")
        /\ task[t].status \in Statuses /\ task[t].stage \in Stages
        /\ task[t].retries \in Nat /\ task[t].selected \in Nat /\ task[t].tried \subseteq Nat
        /\ task[t].attempt \in [batch : {task[t].attempt.batch}, answer : {"none"} \cup Outcomes,
                                heard : BOOLEAN, verdict : {"none"} \cup Verdicts, read : BOOLEAN,
                                runs : {task[t].attempt.runs}, reruns : {task[t].attempt.reruns}]
    /\ active \subseteq Tasks /\ plan.members \subseteq Tasks
    /\ decision.node \in Nodes /\ decision.targets \subseteq Tasks
    /\ escalation.reason \in Reasons \cup {"none"} /\ request.reason \in Reasons \cup {"none"}

----------------------------------------------------------------------------
(* What the Supervisor's passes promise. *)

\* A worker is sent a whole batch and only work that can still be done: no target is
\* terminal, waits for QA or has handed over to a child, and the ones that the
\* boundary lets through share one fresh attempt (the last stage of a pass).
WorkerTargets ==
    pc \in Workers =>
        /\ active # {} /\ active \subseteq Work(task)
        /\ \A t \in active : ~HasChild(task, t) /\ (IsOpen(task, t) => task[t].attempt.batch = active)

\* A dispatch opens the attempts of all its targets or of none: the boundary lets a batch
\* through or turns it away, and never leaves half of it with an attempt that nobody answers.
WholeDispatch == pc \in Workers => \A t, u \in active : IsOpen(task, t) => IsOpen(task, u)

\* QA judges a batch as a whole, and only candidates that a worker built: no half
\* of a cluster, and no task whose attempt was closed.
QaTargets ==
    pc = "qa" => active # {} /\ \A t \in active : active = task[t].attempt.batch /\ t \in Ready(task)

\* An attempt costs at most one retry, and a retry is only ever charged for an open
\* attempt, which it ends: no answer is counted twice, by the worker's loop, the
\* batch's and QA's.
RetryChargedOnce ==
    [][\A t \in Tasks : task'[t].retries # task[t].retries =>
          task'[t].retries = task[t].retries + 1 /\ IsOpen(task, t) /\ ~IsOpen(task', t)]_vars

\* Retries end: MAX_RETRIES for an update or a workaround, the two stages of a
\* package without a fix.
RetriesBounded == \A t \in Tasks : task[t].retries <= IF t \in NoFixes THEN 2 ELSE MaxRetries

\* No attempt is judged more often than MAX_QA_EVIDENCE_RERUNS + 1 times, however
\* often its evidence is inconclusive and its dispatch is abandoned.
QaBounded == \A t \in Tasks : task[t].attempt.runs <= MaxReruns + 1

\* A task passes only by the last verdict on a candidate that its worker built, or
\* as the parent of a workaround, if the scanner no longer reports its finding.
PassEarned ==
    [][\A t \in Tasks : task[t].status # "qa_passed" /\ task'[t].status = "qa_passed" =>
         \/ verdict'[t] = "pass" /\ IsOpen(task, t) /\ task[t].attempt.answer = "success"
         \/ verdict'[t] = "cleared" /\ t \in Updates]_vars

\* The packages of an atomic cluster pass together or not at all.
AllOrNothing ==
    [][\A t \in Tasks : task[t].attempt.batch # {} /\ task'[t].status = "qa_passed" =>
         \A u \in task[t].attempt.batch : task'[u].status = "qa_passed"]_vars

\* A peer that delta isolation does not blame pays nothing: it keeps its retries
\* and waits, with the version it was judged with, for another dispatch.
PeersNotCharged ==
    [][\A t \in Tasks : replay'[t] \notin {0, replay[t]} =>
         /\ task'[t].status = "pending" /\ ~IsOpen(task', t)
         /\ task'[t].retries = task[t].retries /\ task'[t].selected = replay'[t]]_vars

\* A late answer, a late verdict and a new plan leave a finished task alone; only
\* the teardown relabels the parents of workarounds.
TerminalStays ==
    [][\A t \in Tasks : task[t].status \in Terminal /\ pc # "teardown" => task'[t].status = task[t].status]_vars

\* An update is not repeated with a version that failed before, unless it was a
\* peer of the blamed one (retry planner, _authorize_update_dispatch).
NoVersionTwice ==
    [][\A t \in Updates : ~IsOpen(task, t) /\ IsOpen(task', t) =>
         task[t].selected \notin task[t].tried \/ task[t].selected = replay[t]]_vars

\* A task that waits for QA has the attempt that QA is to judge: whatever ends an
\* attempt (the worker's loop, QA's, a batch, a pivot) also settles the task.
OptimisticHasAttempt == Ready(task) \subseteq Open(task)

\* Nothing is given up that was never tried, as long as no dispatch is lost.
UnfixableWasTried ==
    [][\A t \in Tasks : task[t].status # "unfixable" /\ task'[t].status = "unfixable" =>
         IsOpen(task, t) \/ task[t].retries > 0]_vars

\* "Parent attempt was superseded by a spawned child task" (TaskStatus.PIVOTED).
PivotedHasChild == \A u \in Updates : task[u].status = "pivoted" => HasChild(task, u)

\* The queue is in order after every step: its parts are typed, workers get only work that
\* can still be done, QA only batches that wait for it as a whole, a candidate that waits
\* has its attempt, and a superseded update its child.
QueueIsOrderly == TypeOK /\ WorkerTargets /\ QaTargets /\ OptimisticHasAttempt /\ PivotedHasChild

\* The queue is consistent: it is in order, and every dispatch opens whole.
QueueIsConsistent == QueueIsOrderly /\ WholeDispatch

\* The life of a task, and how often it may fail, in the terms of the contract.
Life(t) ==
    CASE task[t].status = "unspawned" -> "absent"
      [] task[t].status = "qa_passed" -> "passed"
      [] task[t].status \in Terminal \ {"qa_passed"} -> "closed"
      [] OTHER -> "live"
RetryLimit(t) == IF t \in NoFixes THEN 2 ELSE MaxRetries

\* The Supervisor keeps its contract with the tasks (TaskContract): whatever a pass does is
\* a dispatch, a build, a pass or a failure of the batch in flight, or leaves it alone.
Contract == INSTANCE TaskContract WITH
    Parents <- Updates, Limit <- [t \in Tasks |-> RetryLimit(t)],
    life <- [t \in Tasks |-> Life(t)], charges <- [t \in Tasks |-> task[t].retries],
    flight <- Open(task), built <- Ready(task), over <- pc = "done"
KeepsContract == Contract!ContractSpec

\* A failure is charged once, and only to the task it was blamed on.
ChargesAreFair == RetryChargedOnce /\ PeersNotCharged

\* Ends are earned: a task passes by evidence, and with its whole batch, and is given up
\* only after it was tried.
EndsAreEarned == PassEarned /\ AllOrNothing /\ UnfixableWasTried

\* Dispatches that come to nothing, solver failures and late answers do not stretch the
\* bounds of retries and QA runs.
BoundsHold == RetriesBounded /\ QaBounded

\* Nor do they reopen what has ended or repeat a version that failed.
DoneStaysDone == TerminalStays /\ NoVersionTwice

\* Does not hold (README, Known deviations): a replan without a task to replan for is
\* dropped for another route.
NoCrash == pc # "crashed"

\* Does not hold (run TLStaleVerdict): QA must not leave "an optimistic task eligible for QA forever".
OptimisticEnds == \A t \in Tasks : t \in Ready(task) ~> t \notin Ready(task)

\* Every run ends: retries, QA runs, versions and replans are all bounded.
Terminates == <>(pc \in {"done", "crashed"})
=============================================================================
