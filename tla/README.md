# Formal verification of the remediation engine

TLA+ models of `src/src/remediation_engine`, the program that triages
vulnerability reports, lets language-model agents update or patch a project in
a Docker workspace, judges each candidate with tests and scans, and decides
what to do next. Paths below are relative to `src/src/remediation_engine`
unless they start with `src/`.

## 1. Inventory

The program is a LangGraph graph over one dictionary-like state
(`orchestration/state.py`). Nodes run one at a time:

    triage -> workspace_builder -> workspace_setup_scan -> supervisor
    supervisor <-> update_subagent | workaround_subagent | qa_critic
    supervisor <-> triage (after QA) | final_full_scan -> supervisor
    supervisor -> teardown -> report

All workers and QA edit or read ONE Docker volume, the workspace. What makes
the system hard is therefore not parallelism (there is little) but long
sequences of dispatches whose results come back as data: retries, reruns,
clusters of tasks that must move together, children spawned for parents,
candidates that remain in the workspace while they are retried, plans that are
replaced while work they protect stands, and failures of Docker or of an agent
at any of these steps.

| component | state it keeps | operations | interacts with | what makes it correct |
|---|---|---|---|---|
| Workspace transactions (`graph_wrappers.py`) | rollback anchor per task, archives in a volume, the live workspace | prepare a dispatch, snapshot, settle after worker, QA or exception | Supervisor (targets, attempts), sandbox (archives), workers and QA (edits) | a candidate that was not accepted never leaks into another task; accepted edits survive; every anchor has its archive |
| QA-passed checkpoints (`graph_wrappers.py`, `portfolio_orchestrator.py`) | one archive per accepted batch, the prefix a plan inherits | retain, extend, inherit, restore, drop | portfolio planning, QA | a replan starts from exactly the accepted work, and keeps it |
| Supervisor decision (`supervisor_node.py`, `_supervisor_execution.py`, `supervisor_policy.py`, `supervisor_routing.py`, `supervisor_spawn.py`) | the task queue, attempt snapshots, retry counts, rerun and dispatch counters, the scan ledger | ingest worker and QA results, settle clusters, pivot, spawn, plan, route, dispatch | every node | terminal tasks stay terminal, a failed attempt costs exactly one retry, results of old attempts change nothing, a cluster moves as one, bounds are kept |
| Retry planner, tactical Supervisor (`supervisor_planner.py`, `supervisor_fix_plans.py`, `tactical_supervisor.py`) | approved versions tried so far | next version, exhaustion, pivot | Supervisor, registries | a version is never tried twice; exhaustion leads to a pivot |
| Run lifecycle (`graph.py`, `state.py`, `teardown_node.py`, `workspace_builder.py`, `final_full_scan.py`) | status, owned volumes, recorder | build, run, teardown, emergency cleanup, patch, report | Docker, every node | each volume of the run is removed or reported; the patch holds what was accepted and only that; the report is always written |
| QA critic (`qa_critic.py`, `_qa_runtime.py`, `qa_odc.py`, `qa_policy_engine.py`, `qa_evaluator.py`) | baselines, evidence of the pass, its staged inputs | install, resolve targets, scan, test, gates, verdicts | sandbox, Supervisor | evidence that is missing never counts as a pass; only candidate-attributable failures reject |
| Delta canaries (`portfolio_orchestrator.py`, `graph_wrappers.py`) | checkpoint of the candidate, probe results | search for a minimal failing subset | sandbox archives, QA | blame only after the candidate was verified restored |
| Portfolio planning (`supervisor_portfolio.py`, `portfolio_solver.py`, `portfolio_certifier.py`, `solver/`) | plan, plan iterations, cuts, reasons | build the problem, solve, cluster, certify, commit, defer | Supervisor, registries, sandbox | a certificate is a portfolio a package manager accepted; a stale plan overwrites nothing; the scratch volumes go |
| Worker subagents (`subagent_runtime.py`, `update_subagent.py`, `workaround_subagent.py`, `context_manager.py`) | turn counters, observation window, scratchpad | tool loop, forced submission, compaction | model, tools | the loop ends with one result within its budgets; a success is a change that passed its gate |
| Worker tools (`tools_*.py`, `remedy_tools.py`) | undo data of an edit | edit manifests and sources, validate, roll back | sandbox | an edit is applied whole or not at all, and what is left over is reported |
| Docker sandbox (`runtime/`) | container, alive flag, read cache and its revision, archives | start, teardown, restart, run, read, write, snapshot | Docker | a cached read is what the workspace held; a failed start leaves nothing behind |
| Triage (`triage/`) | groups, reachability | normalise, group, enrich, retriage | model, scanners | every finding is in exactly one group |
| Reports, trajectories (`report_*.py`, `trajectory_exporter.py`) | span table, report files | record, export, write atomically | file system | a file is old or new, never half |
| Registries and graphs (`tools/registry_cache.py`, `npm_graph.py`, `lockfile_closure.py`, ...) | packument cache | load or fetch, closure | network | a cached entry is valid for its package |
| Parsers, locators (`tools/*_parser.py`, `tools/*_locator.py`) | none | parse text | none | - |
| Evaluation harness (`evals/`), entry points (`cli.py`, `api.py`) | files, databases | score, configure | - | - |

`PROJECT.json` lists the hazards of the code at the line where they bite, with
the properties that would catch them.

### Modules and how they compose

| part | modules | proofs | run by |
|---|---|---|---|
| workspace | `WorkspaceTransactions` | `WorkspaceTransactions_proofs` | `MCWorkspaceTransactions` |
| tasks | `TaskContract`, `SupervisorRouting`, `TaskLifecycle` | `TaskLifecycle_proofs`, `TaskBatches_proofs` | `MCTaskLifecycle` |
| run | `RunLifecycle` | `RunLifecycle_proofs` | `MCRunLifecycle` |
| QA | `QaPolicy`, `QaEvidence`, `QaScan`, `QaCritic` (each extends the last); `DeltaIsolation`; `QaPrefix`; `FinalPatch` | `MCQa_proofs` (the critic, the canaries, the checkpoints, the patch) | `MCQa` |
| planning | `PortfolioProblem`, `Certification`, `PortfolioCertifier`; `PortfolioBatches`; `DependencyScope`, `PortfolioInputs`; `RetryLadder` | `PortfolioCertifier_proofs` (and of `PortfolioProblem`), `MCPortfolio_proofs` (the batches, the ladder, the inputs) | `MCPortfolio` over `MCPortfolioCertifier` |
| workers | `WorkaroundWorker`, `UpdateWorker`, `SubagentLoop`, `ContextMemory`, `DockerSandbox` | `MCWorkers_proofs` | `MCWorkers` |

`MCQa`, `MCPortfolio` and `MCWorkers` hold several machines each. A behaviour
picks one of them (the variable `machine`), runs it from any of its initial
states, and leaves the others in an initial state. The state space of such a
run is the sum of those of its machines and not their product, and an invariant
of one machine is not weakened by the others. What the code really composes is
composed in one module: QA's phases over the scan, the scan over its evidence;
the certifier over the problem it solves; the plan inputs over the scope of the
dependency graph; the Supervisor's pass over its routing rules.

## 2. Plan

Done: all modules of the table, and the theorems of section 9, which state every
safety property of the runs. What is left, in this order:

1. The tasks with dispatches that come to nothing (`"abandon"`): section 9 has
   types, ends, versions and children for them, and TLC the bounds; the rest is
   stated for runs in which every dispatch has a result.
2. A composition of `TaskLifecycle` with `WorkspaceTransactions`: the Supervisor
   as modelled in place of the permissive one.

## 3. The workspace

`WorkspaceTransactions.tla` models the wrappers that surround each dispatch.
The workspace, and the content of an archive, is the SET of worker dispatches
whose edits it holds; an archive is named by the number of the dispatch it was
taken for. `anchors`, `archives`, `status`, `attempts`, `rechecked` and
`blocked` are state of the code; `accepted` is a history variable, the live
workspace at the last acceptance by QA; `phase` says which node holds control.

| actions | code |
|---|---|
| `DispatchWorker`, `DispatchQa`, `Pivot`, `GiveUp`, `Teardown` | what the Supervisor may dispatch next (`supervisor_node.py`), reduced to the workspace's point of view |
| `RunRestore`, `RunDiscard` | one archive operation of `runtime/sandbox_mgr.py`, with its failures |
| `AbandonDispatch`, `SnapshotWorkspace`, `EnterQa` | the end of `_prepare_workspace_for_dispatch` and `_create_workspace_attempt_snapshot` |
| `WorkerSucceeds`, `WorkerFails` | `_finalize_worker_workspace_snapshot` |
| `QaEvaluates`, `DeltaInconclusive` | `_finalize_qa_workspace_snapshot`, `_maybe_run_delta_isolation`, `_qa_workspace_rollback_anchor_updates` |
| `WorkerRaises`, `QaRaises`, `RunAborts` | the `except` blocks of the wrappers |

A cluster is only dispatched when no unaccepted candidate of a member is in the
workspace (`JoinsClusterCleanly`). No function asks this at the dispatch. It
follows from the certification of the plan that names the cluster: the certifier
refuses a workspace whose manifests are neither the repository's nor the verified
prefix's (`_assert_workspace_matches_host`), and a replan restores that prefix
first, so that no candidate of a member is left when the plan is committed (section 11).

What a wrapper does to the archives is a `script` of operations, run one at a
time in the order of the code, so that each of them may fail on its own.

| run | instance | what it shows |
|---|---|---|
| `WTProtocol` | two updates, one with a workaround child, that are dispatched alone or as a cluster, and a workaround without a parent; four dispatches, one raise | isolation (`CandidateIsolation`), accepted edits survive (`AcceptedKept`), an anchor is the baseline of its task and whatever is not accepted has one (`BaselinesAreKept`), QA judges the candidate it was sent for (`QaJudgesItsCandidate`), an abort restores what was accepted (`AbortRestoresAccepted`) |
| `WTFaults` | the same tasks; three dispatches, two failing archive operations, delta canaries that end inconclusive | no anchor dangles (`AnchorsHaveArchives`), no dispatch wedges without a fault (`DispatchNeverWedged`), no baseline is forgotten (`AnchorIsResolved`) |
| `WTDanglingAnchor` (violation) | a QA rerun may reject what was inconclusive | a rerun that rejects deletes an archive an anchor still names: the comment at `orchestration/graph_wrappers.py:1422` says it must not |

`AnchorIsResolved` says that an anchor goes only when its baseline was restored,
superseded by an accepted workspace, kept by another anchor of equal contents,
or at the teardown; once an archive operation has failed the equal contents are
no longer asked for (a restore that cleared the workspace and stopped leaves
less than the baseline, and a cluster judged in part afterwards drops the only
anchor whose archive still holds what was accepted).

The properties of `WTProtocol` need an instance without faults and canaries: a
failed restore while a worker or QA settles leaves an unaccepted candidate
without an anchor, which the code accepts as a fault it reports, and canaries
that end inconclusive do the same (section 10).

Bounds: four dispatches are two attempts of one task, a dispatch of another and
a workaround, the longest chain in which one anchor outlives another; `MaxFaults`
is two, since the handlers treat each failure alone; `MaxRaises` is one
because a raise ends the run. No fairness is assumed: every property is safety.
All of them are proved for every set of tasks and batches and every bound
(section 9). The search inside delta isolation and the checkpoint archives of
accepted batches are modules of their own (section 6). Teardown drops the
anchors without restoring from them.

## 4. Tasks

`SupervisorRouting.tla` holds the task queue and `_deterministic_routing` as a
pure operator `Route(f)` of a queue `f`: the rules are a sequence, and the first
that applies decides. `TaskLifecycle.tla` is the system: `pc` is the next node
of the graph, and a pass of the Supervisor is five stages, cut where
`_run_supervisor_decision_node` recomputes its decision.

| actions | code |
|---|---|
| `PortfolioGivesUp`, `SolverFails`, `PortfolioDefers`, `PortfolioCommits` | `run_portfolio_plan_tool` and its replan guard, `apply_portfolio_plan` |
| `PlansFirst` | the early return of a pass whose plan no longer stands |
| `Reconcile` | the loops over worker and QA results, the settlement of a batch or of single tasks, escalations, `_reconcile_terminal_pivot_parents` |
| `Plan` | QA short-circuits, the first routing, the retry planner, the retry cap |
| `Guard` | the authority boundary and the guardrails |
| `Apply` | spawned children and closed parents, normalisation, authorisation, the second routing, the fail-closed route |
| `CommitDispatch`, `Crash` | unfixable replan, recheck barrier, QA limit, cluster action, attempts, the returned patch |
| `WorkerAnswers`, `WorkerAbandons`, `QaAnswers`, `QaAbandons` | the wrappers: results tagged with the attempt, or none when the boundary rejects or the preparation fails |
| `Teardown` | `reconcile_phase5_state_before_teardown` |

A task is a record: status, retries, the selected version and those tried,
whether its plan is exhausted, and its open attempt. The attempt carries the
envelopes made for it (`answer`, `verdict`), whether they were read, and how
often QA was dispatched (`runs`) and repeated (`reruns`); an attempt that is
closed takes its envelopes with it, which is what the identity checks on
attempt, revision and digest amount to.

`Rules` is the list of the routing rules, each giving way to the next (`??`).
Where a rule takes the first of several tasks it takes the first of
`_task_sort_key`: `Precedes` compares severity, strategy, status, retries and at
last the task id, whose order (`TaskId`) is a constant, like `Severity`.

What is abstracted: instructions, digests, revisions and the audit; a version is
a number below `Versions[u]`, and the retry planner picks the least untried
one. The solver may return any order, any clustering of updates and any
approved version, since Python requirements do not keep it from a version that
was tried; `ParentLeads` says for which updates the parent's revision is higher
than its child's, which decides who stands for the finding in the next plan.
Reasons of a replan are kept only as far as the guard counts them apart. The
project language is Python, where the tactical agent abstains and no package is
verified absent from a lockfile; npm and Maven have `RetryLadder` (section 7),
and the scan ledger with the triage it may ask for is `RunLifecycle`'s.

### Properties

Over single passes, in `QueueIsConsistent`: a worker gets a whole batch of live
work under one fresh attempt (`WorkerTargets`, and `WholeDispatch`: what is left of
an authorised cluster does not go out alone), QA a whole batch that a worker
built (`QaTargets`), an optimistic task has the attempt that is judged
(`OptimisticHasAttempt`), and a parent that hands over has a workaround to
hand over to (`PivotedHasChild`). All of these but `WholeDispatch` are
`QueueIsOrderly`, the part that is proved. Over many: a cluster passes together or not at
all (`AllOrNothing`, in `EndsAreEarned`); a retry is charged once, for an attempt it ends, and never
to the peer of a blamed task (`ChargesAreFair`); retries and dispatches of QA
are bounded (`BoundsHold`); a finished task stays finished and a version is not
repeated (`DoneStaysDone`); a pass is earned and a failure was tried
(`EndsAreEarned`). Every run ends (`Terminates`). All but the last, `WholeDispatch` and
the tries of `EndsAreEarned` on the fail-closed route are proved (section 9).

`TaskContract` states what all of this comes to for somebody who sees only the
tasks: which of them are in flight, what they were charged, and whether they are
live, passed or closed. A batch takes off when nothing else is in flight and every
member has a retry left; it is built as a whole (`Build`), waits (`Wait`), passes as
a whole (`Pass`) or fails (`Fail`), and then each member ends or pays, unless a
member of a batch that was judged pays for all. Tasks beside the batch may only be
created, given up, or, if they are parents, replaced or found to be rid of their finding. `KeepsContract` says that `TaskLifecycle`
implements it, with `Life`, the retries, the open attempts (`flight`), the tasks that
wait for QA (`built`) and the end of the run (`over`) as the mapping; which task goes
next, with which version and by which of the rules is what the contract leaves open.
The move of a pass is made where it settles the batch or commits a dispatch: the
stages between are moves beside the batch.

| run | instance | what it shows |
|---|---|---|
| `TLPair` | two updates, one with a second version, a package without a fix, every answer and verdict, a queue with room for just the two children | the contract (a refinement), clusters, blame, pivots, how a task may end, and that every run ends |
| `TLFaults` | the two updates and a SAST finding, two retries; dispatches that come to nothing, a failing solver, unfixable decisions | bounds hold, ends are final and no version is repeated, under faults |
| `TLStaleVerdict` (violation) | one package without a fix, dispatches that come to nothing | the old envelope of an inconclusive QA run closes the attempt and settles nothing; QA is routed to the task for ever |

Bounds. Two updates are one cluster or two; three planned packages add no rule,
since every rule speaks of a task and its cluster, or of the head cluster and
the others. `MaxRetries` is one or two (three in the code), so that retries can
be left while versions are not, and the reverse; `MaxReplans` 2 and
`MaxIterations` 4 (3 and 12) let a replan be served and refused. The safety
properties of `TLPair` were also seen to hold with two versions and two retries
for both updates (1.57 million states).

Fairness. The graph runs the next node whenever there is one, and every node
returns: a step of `Next` moves `pc` on, so `WF_pc(Moves)` is weak fairness of
the whole next-state relation. `Terminates` is checked only where dispatches do
not come to nothing; `TLStaleVerdict` shows what happens otherwise.

What the model taught besides. The recheck barrier (`AfterBarrier`) can be
removed without any change to what is reachable, except after the half of a
batch has been closed as in `TLStaleVerdict`: each earlier stage already prefers
QA for an optimistic task. With dispatches that come to nothing, the fail-closed
route marks tasks unfixable that were never tried, which is why
`UnfixableWasTried` is checked without them, in `TLPair`, where the route is never
taken, and proved with that route as a named exception (`GivenUpWasTried`); and a lost attempt stays open while others are dispatched; the replan
barrier may then send QA to an attempt without a candidate
(`supervisor_node.py:6322-6371`). At the teardown a parent that had passed, because the
scanner no longer reports its finding, is relabelled as pivoted.

## 5. The run

`RunLifecycle.tla` is the graph around the tasks: a group is a finding of one
dependency input or two, and how it is worked on is one choice (`BatchPasses`,
`BatchFails`). The state is the node that runs next, the queue, the volumes with
whether the run owns them, and the scan ledger: the setup evidence, a snapshot
per input with the evidence of the batch that passed, the cumulative result, the
final scan, and which identifiers triage was asked about.

| actions | code |
|---|---|
| `InitialTriage`, `BuildRefused`, `CreateVolumes`, `Install` | the entry nodes and `workspace_builder.py` |
| `SetupScan`, `FinalFullScan` | the scans of the setup node and `final_full_scan.py`, each of which may be skipped, unreadable or complete |
| `ReplanGuarded`, `PlanningFails`, `PlanningCommits` | `run_portfolio_plan_tool` with its replan guard |
| `BatchPasses`, `BatchFails` | a batch through worker and QA: the snapshot of its inputs, what the scan says of the others |
| `NoGroups`, `Decide`, `RetriageLimited`, `TriageFails`, `Retriage` | the end of `_run_supervisor_decision_node` after the last task, the cumulative ledger, the post-QA triage and the work it reopens |
| `CleanUp`, `Teardown`, `Report`, `Raise`, `EmergencyEnds` | `teardown_node.py`, the removal of volumes with its conflicts and retries, the report, the `finally` of `graph.py` |

`NothingLeaks`: a volume the run created is removed or named in the issues of
the run, also when a node raises. `CompletedIsClean`: a run that calls itself
completed has no failed task and no finding the ledger knows to stand.
`LedgerIsSound`: a complete QA record is that of its task's current pass, and
every task behind an input's snapshot is still passed. `ReachesEnd`: the run
ends. All but the last are proved (section 9).

The run `RunLife` has two groups in two inputs, with and without given groups,
inventory, final scan, triage and a limit of it, and every node may raise;
volumes need two rounds of cleanup. `WF(Advance)` is the graph's own
scheduling: the next node runs. Retries happen inside a batch; the interruption
between `volumes.create` and the registration of the volume leaks it by design
of Docker's interface and is not modelled.

## 6. Judging a candidate

### One pass of QA

`QaCritic.tla` is `run_qa_critic_node`. The variables are the node's own: `job`
(the tasks, their policies, the workspace and what the sandbox can show of it),
`found` (what the phases have established), `evals`, `accused`.

| actions | code |
|---|---|
| `RefuseScope`, `Unavailable`, `SandboxLost` | the early returns, and a container that goes at any phase |
| `Install`, `ResolveTargets`, `ResolveUnknown`, `Stage` | install and the resolution of scan targets: lockfile closures of npm and Python, the POM of Maven, mixed projects, an unknown manager |
| `RunOdc`, `OdcFails`, `Clean`, `RunTests` | the targeted scan, removing its inputs, the tests |
| `JudgeInconclusive`, `Judge`, `Finish` | the evaluator and the policy, task by task |

Below it, three modules of operators: `QaEvidence` (what the collectors say of
the installed version), `QaScan` (what a scan must cover and what its report
proves), `QaPolicy` (the matrix of `qa_policy_engine.py`). Package names are the
tasks they belong to; the texts of tests and reports are read by kind.

`PassedIsFixed`: a version bump that passed left no other version installed and a
removal none at all. One exception is named, `CalledGone`: a Python target that QA
calls gone while another version of it is installed passes all the same (F1).
`ChargedForCause`: a retry is consumed only for something that speaks against the
candidate: a failed install, whatever made it fail (the code does not tell), a
wrong version, a finding left, a suite it is not exonerated of, an answer of the
evaluator; not because a target could not be resolved or staged, the scan failed,
or the evaluator gave no answer. Here too one exception is named,
`ChargedUnscanned`: tests an update is exonerated of, charged to it because its
target could not be scanned (F3). `UnresolvedIsInconclusive`: a target that
cannot be resolved is neither passed nor charged.

### Canaries, checkpoints and the patch

* `DeltaIsolation`: the canaries of a package cluster whose tests failed with
  nobody to blame. Each step on the volume (archive, restore, install, test, put
  back) may fail, and a command that times out takes the container with it.
  `CanariesAreSound`: whoever is blamed failed alone on the workspace of before,
  all suspected more were tried first, and the candidate is back; a record that
  says so is true; the canaries keep their budget. Also the exhaustive search of
  the same function is modelled, which the orchestrator does not select.
* `QaPrefix`: the snapshots of accepted work and what a replan trusts of them.
  `AcceptedSurvivesReplan`: a replan leaves accepted changes as they are, while
  every snapshot could be taken and no task was reopened twice. Both conditions
  are needed (section 10, F21).
* `FinalPatch`: which changes of the workspace are in the diff of the run, by
  document (manifest, lockfile, member) and section. `PatchIsFaithful`: an
  accepted declaration stays, a rejected one goes, and the lockfile of the patch
  belongs to its manifest. `Sound` marks the files that could be read and were not refused:
  of others nothing is claimed (F33).

### The run `Qa`

Two tasks that share an input, with every policy and manager, every outcome of
every phase; a cluster of three, budget 2, one fault; three updates with two
versions over five attempts and three plans, one snapshot missed, two
reopenings; two groups over two packages with every lineage of tasks, in three
languages. Two tasks are what a batch needs for one to be judged by evidence of
the other; three suspects with a budget of two leave one untried, in either
order. pip jobs have every target installed, absent, or installed in
another version, like those of npm and Maven. All properties are safety. The machines end, so deadlock is not
checked.

## 7. Planning

| module | code | what it is |
|---|---|---|
| `PortfolioProblem` | `solver/cpsat.py` | the constraint model: domains, pairs, tables, candidate relations, coverage, the weighted objective; the solver itself is external and returns an optimum, or when it runs out of time any feasible answer |
| `PortfolioCertifier` | `portfolio_certifier.py` | ask the solver, install its answer batch by batch in a scratch copy, learn cuts from refusals, ask again; actions follow `build_certified_portfolio_plan` (Python: `_build_certified_python_portfolio_plan`, Maven alike), its deadline, fallbacks and cleanup |
| `Certification` | - | the abstract promise: offers are ruled out, one that is good and unbeaten is certified, a rejection leaves none |
| `PortfolioBatches` | `solver/graph.py` | clustering (hard relations first, soft ones while they fit), the graph between batches, phases under a budget; a step is one turn of one of the loops (a unit packed, a phase filled) |
| `PortfolioInputs` over `DependencyScope` | `portfolio_orchestrator.py`, `portfolio_solver.py`, `supervisor_portfolio.py` | which dependencies take part, synthetic tasks, candidate versions, the commit of a plan and its replans (npm) |
| `RetryLadder` | `supervisor_node.py`, `tactical_supervisor.py`, `supervisor_planner.py` | which version each dispatch of one task selects: the model's choice or its fallback, repairs, the parent of a transitive package, exhaustion, pivot |

`KeepsPromise` is a refinement: `PortfolioCertifier` implements `Certification`
under a mapping of its solution space to offers. `CertifiedOnHost`: a
certificate is about the repository as it is then, in a volume that is the
host's or the verified prefix. `RejectedIsExhausted`: no learned cut excludes an
assignment the package manager would have taken. `PackingKeepsUnits` and
`UpstreamFirst` are about batches and phases, `FreshPlanStands` and
`CommittedIsFrozen` about the commit of plans, `NothingReplayed` about versions
of the ladder.

The run `Planning` runs four machines: two occurrences with three versions and
every problem of a catalogue (a peer, a dependency, a second copy, a severe
finding, a package manager that refuses a version, a pair or a batch), one
failure among sandbox, cleanup, deadline and edit; every graph over seven
relations of five tasks, batches of two, phases of two; four repositories with
two iterations and five candidates; four kinds of ladder with three versions and
two retries. Two occurrences are what a pair cut speaks of; five tasks hold a
unit of three beside a cycle. `MCPortfolioCertifier` also assumes
`TableIsDefinition`: the table encoding of a pair equals its definition
(proved as `TableIsExact`). Fairness is stated where a part owes progress: the
certifier's own work (`WF(Work)`; the deadline and the editor of the repository
owe nothing), the batching loops, and for `LadderLoops` the passes of the
Supervisor, its workers and replans, all of which are nodes the graph runs.

`LadderLoops` (violation): a transitive npm update whose allowlist is used up is
sent out without a snapshot and bounced, pass after pass, where the comments
call the empty route fail-closed.

## 8. Workers

| module | code | what it is |
|---|---|---|
| `WorkaroundWorker` | `workaround_subagent.py`, `tools_edit.py`, `tools_workspace.py`, `tools_validation.py` | one attempt: replay of earlier edits, plan revisions, edit sets, reverts, removals, the validation gate, the success contract and the rollback of a failure |
| `UpdateWorker` | `update_subagent.py`, `tools_manifest*.py` | one dispatch: preflight, manifest transactions with their rollback for npm, pip and Maven, alone or as a committed action, the typed results |
| `SubagentLoop` | `subagent_runtime.py` | the tool loop: turns with several calls, barriers, budgets, signatures that are repeated |
| `ContextMemory` | `context_manager.py` | what compaction cuts and what the scratchpad keeps |
| `DockerSandbox` | `runtime/sandbox_mgr.py`, `runtime/docker_client.py` | container, cache, archives, commands that are given up and act late |

The language model is nondeterminism: it may call any tool it is offered, in any
order, with any argument of the model; a refused call changes nothing but the
counters. A file is the set of patches applied to it (`WorkaroundWorker`) or the
choices written to it (`UpdateWorker`).

In `UpdateWorker` a checkpoint may fail to read a file, which the code takes for its
absence, so that a rollback deletes the file (`Capture`, `AsRead`; `unread` is the
history of such reads); and the loop may end with the errors the runtime
records, or raise (`broken`), after which the worker reports no files whatever its
transactions did.

`HandsOverWhatPassed`: a successful attempt hands over exactly what its last
passing gate saw. `LeftoversReported`: every file that differs is reported,
whatever failed; exempt, since the code does not report them, are a dispatch whose
loop raised (F44), a file a checkpoint failed to read (F43), and Maven and committed
actions once a rollback has failed (F15, F16). `BatchIsAtomic`: a committed action is
applied whole or not at all, or the failed rollback is reported, also when the
loop raised; only an unread file may be deleted without a word (F43).
`LossEndsTheLoop`: nothing is asked of
the model after the sandbox is gone. `NothingVanishes`: what a cut result said is
in the scratchpad, unless there is no room. `CacheIsTrue`: the read cache holds
what the file holds, except for files changed behind the sandbox's back.

The run `Workers` has two source files and a manifest, two plan revisions, two
calls in a turn, two failed gates, one fault; two packages with two versions and
two attempts, one rollback that fails and one file that checkpoints fail to read; four rounds of up to three calls; five rounds of memory; a sandbox
with two files, two cached entries and three bytes of cache. Two calls in a turn
are needed for every order of edit, revert and gate; one fault, since each
handler treats its failure alone; one unread file, since each file is restored on
its own. The two files (packages, facts) are interchangeable, hence the symmetry; the properties are invariants.
`WorkerErasesAccepted` (violation): a successful attempt that used
`revert_workspace_file` has removed an edit of another group that QA accepted.

## 9. What is proved

Each theorem holds for every value of the constants that satisfies the named
assumptions, where a run shows a small instance. Every inductive invariant was
checked with TLC first.

| theorem | says | assumes |
|---|---|---|
| `TypeCorrect` | `TypeOK` of the workspace protocol | - |
| `AnchorsNeverDangle`, `PreparationNeverWedges` | `AnchorsHaveArchives`, `DispatchNeverWedged` | `~RecheckMayReject` |
| `NoCandidateLeaks`, `AcceptedEditsStay`, `BaselinesStay`, `QaJudgesTheWorkersWork`, `AbortsAreClean` | `CandidateIsolation`, `AcceptedKept`, `BaselinesAreKept`, `QaJudgesItsCandidate`, `AbortRestoresAccepted`, each while `faults = 0` | `~RecheckMayReject`, `~DeltaIsolation` |
| `AnchorsAreResolved` | `AnchorIsResolved`, whatever fails; it exempts a cluster whose canaries end inconclusive | `~RecheckMayReject` |
| `DoneWorkStaysDone` | `DoneStaysDone`, under every fault | - |
| `WorkersGetOpenWork`, `QueueTypes` | `WorkerTargets`, `TypeOK` of the tasks, under every fault | - |
| `SupersededHasChild` | `PivotedHasChild`, under every fault | the queue has room for all tasks |
| `BatchInFlight` | where the one batch in flight is in its life, at every node | `"abandon" \notin Faults`, `[]WholeDispatch` |
| `BoundsAlwaysHold`, `ChargesStayFair` | `BoundsHold`, `ChargesAreFair` | the same |
| `ContractIsKept` | `KeepsContract`: `TaskLifecycle` refines `TaskContract` | the same |
| `QueueStaysOrderly` | `QueueIsOrderly`, which is `QueueIsConsistent` without `WholeDispatch` | the same, and the queue has room |
| `PassesAreEarned`, `ClustersPassWhole`, `GivenUpWasTried` | `PassEarned`, `AllOrNothing` and `UnfixableWasTried`, the parts of `EndsAreEarned`, the last except on the fail-closed route | `"abandon" \notin Faults`, `[]WholeDispatch`, the last also `"nofix" \notin Faults` |
| `VolumesAreNamed`, `LedgerStaysSound`, `CompletedRunsAreClean` | `NothingLeaks`, `LedgerIsSound`, `CompletedIsClean` | - |
| `PassesAreFixed` | `PassedIsFixed`, which exempts F1 by name | - |
| `ChargesHaveCause`, `UnresolvedTargetsWait` | `ChargedForCause`, which exempts F3 by name, and `UnresolvedIsInconclusive` | - |
| `CanariesStaySound` | `CanariesAreSound`, under every fault | - |
| `ReplanKeepsAccepted`, `TrustedIsLive` | `AcceptedSurvivesReplan` of `QaPrefix`, and `TrustIsLive` | `PrefixAssumption` (and that there is a task) |
| `PatchStaysFaithful` | `PatchIsFaithful` | `NoneReplaced` |
| `ObjectiveIsLexicographic`, `TableIsExact` | the weighted sum orders assignments as its terms do one after the other; the table encoding is the definition | - |
| `RejectionsAreExhaustive`, `CertificatesAreCurrent`, `CertifierKeepsPromise` | `RejectedIsExhausted`, `CertifiedOnHost`, the refinement `KeepsPromise` | - |
| `PackingNeverDivides`, `UpstreamGoesFirst` | `PackingKeepsUnits`, `UpstreamFirst` | - |
| `FreshPlansStand`, `CommittedStaysFrozen` | `FreshPlanStands`, `CommittedIsFrozen` | - |
| `NothingIsReplayed` | `NothingReplayed` | - |
| `HandoverPassed` | `HandsOverWhatPassed` | - |
| `LeftoversReportedHolds`, `BatchIsAtomicHolds` | `LeftoversReported`, `BatchIsAtomic`, under every fault, with the exemptions they name (F43, F44, and F15, F16 once a rollback failed) | - |
| `LossEndsTheLoopHolds` | `LossEndsTheLoop` | - |
| `CacheIsTrueHolds` | `CacheIsTrue`, under every fault | - |
| `NothingVanishesHolds` | `NothingVanishes` | - |

`RecheckMayReject` and `DeltaIsolation` name behaviour of the code that breaks the
property: a QA rerun that rejects what was inconclusive (the finding of
`WTDanglingAnchor`) and canaries that end inconclusive (section 10); a
theorem that assumes them away says nothing of runs in which that happens. That the queue has room is
what `SupersededHasChild` needs of `QueueCap`: a child that is refused still
closes its parent (section 10). `[]WholeDispatch` is an assumption on the behaviour,
not on the constants: an authorisation that grants half of a cluster, after the
route was computed a second time, would dispatch a cluster of which one member has
an attempt. TLC finds it to hold in `TLPair` (it is part of `QueueIsConsistent`), and
no theorem concludes it. `NoneReplaced` (no
group substitutes a package that another one updates in the same manifest) is met
by the runs of `Qa`, which `RunsAreSuch` proves.

**Anchors.** `AnchorsHaveArchives` is not inductive: whether an archive may be
deleted depends on what the rest of the script will do and on whose anchors it
serves. `AnchorInv` adds that the script never settles the archive of an anchor
it leaves in the map (`RemovalsUnanchored`, `SettlesAnchors`), that the tasks of
a batch move together (`BatchStatus`), that an anchor is never newer than the
current dispatch (`AnchorAge`), that an open attempt still has its own archive
(`OpenHasArchive`) and that tasks that share an anchor shared a dispatch
(`SharedAnchors`).

**Isolation.** The contents of archives enter: the baseline of an anchored task is
the accepted workspace, or for a workaround that workspace with the edits of its
anchored parent (`BasesAreClean`); everything unaccepted in the workspace is
covered, that is, made by a dispatch one of whose tasks is anchored
(`LiveIsCovered`); at most one retry is anchored, alone or with the workaround it
spawned (`LoneRetry`, `PivotAlone`). From these the script of a preparation
restores exactly the foreign candidates, and what a wrapper settles ends with a
covered workspace (`SettleIsSafe`, `RaiseIsSafe`). All of this is conditional on
`faults = 0`; with a failed restore the properties are false, and the code
reports the fault.

**Tasks.** What a pass decides is acted on several stages later, on a queue that
planning, spawning and authorisation have changed in between, so the invariant
speaks of the pending decision. From the second stage on it is `Sound`: it hands
over only updates whose versions are exhausted, which is why the child that is
spawned for them is not running yet; a worker is decided on only with open work
(`DecisionIsReady`), and whoever has a child has ended (`HandedOverEnded`).
Every rule of `Rules` yields a sound decision (`RouteSound`), whatever the plan
and the active tasks are. What a stage does to the queue is a chain of commits, each
of which leaves what has ended alone, creates no task and opens no attempt
(`QueueFollows`); attempts are opened in one place, `Attempted`, which asks for
the authorisation that `NoVersionTwice` is about. There is one lemma per action,
and it proves with the invariant what the action may not do (`Orderly`).

**One batch in flight.** What the passes promise of batches, charges and bounds is
no invariant of a single pass: QA may be sent whatever is open (`AfterReplan`) and
may be routed again after its limit, so everything hangs on there being
no second batch. `InFlight` says where the one batch is: at its worker, answered, at
QA, judged, or being settled by the pass, with a clause for each node and stage
(`AtWorkers`, `AtAnswers`, `AtQa`, `AtVerdicts`, `InPass`). `Tidy` is the queue
meanwhile: the open attempts share one batch, which is all of them, and only updates
share one; the retries agree with the status (`Counted`), so that a task to be retried
was charged. After the first stage a pass leaves the batch alone (`QueueCalm`). A lost
dispatch makes it false: the attempt stays open while another is dispatched, and the
replan barrier (`supervisor_node.py:6322-6371`) may send both to QA.

**The contract.** That `TaskLifecycle` refines `TaskContract` is one more thing each
action promises of the batch (`BatchMoves`, proved in the lemma of the action beside
charges and bounds): nothing that is in flight changes, or the batch is built, or it
is over, passed or failed (`Over`). A dispatch opens attempts where none is open,
which `InFlight` says, and within the limits, which `Counted` says of a task to be
retried; what may become of the tasks beside the batch is `Enters`, with the other
promises in `Orderly`.

**Runs.** The recorder holds the volumes that exist, and the state names them
except while they are being created and after a node raised (`VolumesInv`). The
ledger's evidence carries the revision of the task it was collected for
(`LedgerInv`); a result that counts holds what the ledger knows
(`ResultIsCurrent`), and only the Supervisor commits a first plan (`FirstPlan`).

**QA.** A verdict is given once, after the phases; what has to be invariant is
what is known by then. `ScanIsSound`: at the judgement the scan proves something,
what it holds against a task was reported, and a removal with nothing against it
is gone, since a scan that proves nothing covers no task and leads to the
inconclusive branch. `DepIsSound`: evidence "verified" means every installed
version is the expected one (`VerifiedIsInstalled`, for each collector). Each
resolution leaves a target gone, failed or staged (`BatchResolves`); gone is what no
scan needs to cover, which for Python is weaker than absent (`CalledGone`), and the
exemption of F1 enters there and nowhere else.

**Canaries.** `DeltaInv` says of the probes made so far what the final blame needs.
In the bounded mode the i-th probe tried the i-th suspect alone and only the last
one may have failed (`Bounded`); in the exhaustive mode the subset that is halved
is the whole cluster or has failed alone (`Exhaustive`), so that a single task
left over has failed alone itself. No subset is tried twice (`Distinct`), hence
"its outcome" is well defined. Probes are made only while these attempts have no
record (`Accounted`), which bounds them over both passes of QA, and the candidate
is in the volume whenever no probe is under way (`InPlace`). That the suspects
can be put in order at all (`OrderExists`) is an induction over the size of the
cluster, done by a least counterexample.

**Checkpoints.** What a replan trusts depends on three memories that may disagree:
QA's checkpoint, the prefix the certificate inherited, and the attempts the tasks
stand on. While every snapshot could be taken and no task was reopened twice, a
plan is in one of three states, whatever else happened to it. `Tracked`: QA's
checkpoint is the workspace and has every accepted task with its attempt.
`Untouched`: nothing was accepted. `Lost`: the checkpoint was dropped because an
inherited task was accepted anew or given up, and that task keeps the inherited
prefix from ever standing again, so that the next replan trusts nothing and goes
to the teardown instead of restoring an old snapshot. A second reopening would
take the mark away; there the property is false (F21).

**The patch.** Until the end of the run `Worked` relates the workspace, and the tree a
failed attempt would restore, to the results so far: manifest and lockfile declare the
same (`Agree`), what differs from the start was reported by an update of that
package (`Recorded`, `Owned`), and what was accepted is there (`Kept`). While
the diff is made, `Reads` says that each file is refused, unreadable, still to be
read, or right: what is reverted is what only failed groups own. Where one
group substitutes what another updates, nothing can be both; hence `NoneReplaced`.

**The objective.** `ObjectiveIsLexicographic` needs that the weight of each term
exceeds anything the lower terms can sum to, which is an induction over the
occurrences; it is done in first-order form, from the well-foundedness of `<`
(`Ascend`). It is about the weights as computed; where they exceed 64 bits the
code solves term by term instead, which is the order itself.

**The certifier.** The candidate stays an answer of the solver until it is judged
(`CandidateIsAnswer`), `Progress` records that every batch so far was accepted,
so that the last one proves the whole. `Lessons`: a cut or a forbidden
assignment excludes only what the package manager refuses, because what becomes
of an occurrence depends only on its own version as long as no lockfile holds a
second copy (`VersionDecides`); hence `RejectionIsFounded`. The refinement goes
action by action: learning rules out, the certified answer is unbeaten by the
lexicographic order, everything else stutters.

**Batches.** Components are stated as what no closed set of tasks separates, so that
they are disjoint and nest without an induction (`ComponentsApart`,
`ComponentsNest`). While a component is packed, its units, the batch that is
being filled and the closed batches are disjoint, and each unit that is not
oversized is still to come, in the batch being filled, or whole in a closed one
(`PackInv`); tasks that share a batch may share one, so the final pass that takes
strays out changes nothing. A phase holds whole cycles whose upstream has been
dealt out (`PhaseInv`). That the loop does not end before everything is dealt out
(`NothingIsLeft`) needs that batches modulo cycles are acyclic: of the batches
left, take one with the fewest batches above it; were nothing ready, it would
have another one left above it, with fewer.

**The ladder and the plan inputs.** `LadderInv`: until the task is done, what a worker
installed for a target is among the versions noted as tried, so that whatever is
dispatched was not installed before. The note is taken for a parent or a pivot
as well. A preparation of the plan goes over the occurrences recursively;
`Follows` says what one turn may change for the next (tasks are only added, a group that
was acted on keeps its target), and is carried over all turns by counting up
(`Upwards`). That a fresh plan stands (`Fresh`) needs that committing it
raises no revision beyond the one it recorded.

**Handing over.** `HandsOverWhatPassed` follows from `PassStands`: as long as a
pass counts (the plan still says so and the loop has seen no edit since), the
workspace is the one it saw, and a removal has nothing left to remove. That
last conjunct is what keeps a `remove_no_fix_dependency` after the gate from
writing: an edit tool clears one of the two flags, the removal clears neither.

**The other workers.** In the update worker the ledger of written files answers for
every file that differs from the start as long as the report can (`Owned`), and
so does the ledger each checkpoint brings back (`Checkpoints`), in whatever order
transactions and rollbacks come. A committed action has one checkpoint, of
before anything was written (`OneCheckpoint`), and while its action counts as
applied every manifest line is what was asked for (`AllApplied`). A file that was never
unread and is not in the ledger is as it was at the start, in the workspace as in
every checkpoint, which is why a failed read excuses only the file it was of; after
a loop that raised a batch still has its checkpoint to roll back, in a
sandbox that is closed, so the failure is among the errors. `Told`: once a
tool has said that the sandbox is gone, the turn is marked as stopped or the
loop has ended. `CacheInv`: every entry of the read cache is what its file holds
or nothing, or its file was changed behind the sandbox; stated as the type
of the cache it survives every reordering and eviction. `MemoryInv`: whatever may
be cut is written down, and what was cut is shown or has no room. The second half
rests on what the selection by priority yields, which is stated without its loop:
an entry is in when it fits beside those that precede it. That such a selection
exists (`RenderingExists`) is once more a least counterexample, and that what it
leaves out has no room in the whole (`RenderingIsFull`) is arithmetic of
cardinalities.

Only model-checked: the liveness properties (`Terminates`, `ReachesEnd`), since the
prover does no fairness; the tasks with dispatches that come to nothing, of which
types, ends, versions and children are proved and `BoundsHold` is left to `TLFaults`
(`OptimisticHasAttempt` is false there, see `TLStaleVerdict`); and that
every dispatch of `TLPair` opens whole. What a fold or a recursive definition computes
for every input is out of the prover's reach except where the induction can be
put in first-order form, as for the canaries, the objective and the plan inputs.

## 10. Known deviations

The code departs from a comment, a document or its own intention in these
places. Four are runs that TLC finds violated (`WTDanglingAnchor`,
`TLStaleVerdict`, `LadderLoops`, `WorkerErasesAccepted`, with quotations in
`PROJECT.json`). Those with a property's name were reproduced with TLC on an
instance that is not kept as a run; the others were read in the code. The models
keep the behaviour.

**Workspace**

* A cluster whose canaries end inconclusive keeps its candidate without an anchor
  (`graph_wrappers.py:1988` against `:1347`), and it leaks into the next dispatch:
  `CandidateIsolation` with `DeltaIsolation = TRUE`.
* F20: a failed put-back leaves the canary in the volume, and after a contract
  error QA judges that (`graph_wrappers.py:1247-1250, 1961-1989`):
  `RerunJudgesCandidate` with two faults.
* F21: a failed capture of a later batch clears the checkpoint, and the fallback
  restores an older snapshot over a later accepted change; after a reopening the
  inherited checkpoint is dropped, after a second one it stands again with its
  older content (`AcceptedAlwaysSurvives`).

**Supervisor**

* A suppressed replan calls the router with arguments it does not take
  (`supervisor_node.py:6301`; `NoCrash`).
* A worker dispatch that comes to nothing leaves its attempt open, and no bound
  like QA's closes it. Its cluster is then never ready, a blocked head cluster
  routes to the teardown, and the run ends with a live task, although the
  teardown "must receive a terminal task projection"
  (`_supervisor_execution.py:631`). A cluster with a member that pivoted blocks
  the plan in the same way without any fault.
* `_materialize_spawn_requests` refuses a child when the queue is full, but the
  parents to close are taken from the requests: with a `QueueCap` without room
  `PivotedHasChild` fails. `TLPair` takes the smallest queue that has room.
* When no target of an update survives authorisation, the route is computed again
  and may name another update that was neither planned nor authorised: a worker is
  dispatched without the attempt that "update/workaround dispatches always
  receive" (`supervisor_node.py:6569`), and the boundary rejects it. Of a cluster
  named in this way one member may have been authorised and the other not
  (`WholeDispatch`).
* F13: `graph_wrappers.py:1113` documents that partial success is kept, but
  `_worker_result_map` marks SUCCESS only if the whole batch succeeded
  (`PartialSuccessKept`).

**Run**

* F17: without a limit of triage the final scan's `triage_required` stays in the
  retained result, cleared only when work is reopened (`ReachesEnd`).
* F18: a finding of the baseline that an update brings back is neither new nor a
  remaining target, so the run may be "completed" (docs/architecture.md:320-322).
* F19: incomplete setup evidence that names no input is dropped by the first
  accepted snapshot (`CoverageIsEarned`).

**QA and the patch**

* F1: the Python closure answers "no matching target" also for an installed
  version other than the committed one (`_qa_runtime.py:3798-3818`, against
  docs/architecture.md:309-312), and such a target passes. `PassedIsFixed` exempts it
  by name (`CalledGone`) and fails without the exemption.
* F2: an unknown manager makes `_resolve_targeted_packages` return a tuple
  (`_qa_runtime.py:4236`), and its caller raises. F3: exonerated failed tests
  with a target that cannot be resolved consume a retry (`qa_critic.py:1486-1541`,
  against docs/architecture.md:310-313). `ChargedForCause` exempts it by name
  (`ChargedUnscanned`) and fails without the exemption.
* F33: a failed read of a file is taken for its deletion
  (`sandbox_mgr.py:823`, `teardown_node.py:797-801`; `CompletedDelivers`).
* F34, F35: packages a substitution removed come back in the lockfile's root
  section but not in the manifest; sections of workspace members are not
  restored. F36: reverting is by package name, so an accepted fix of the same
  package elsewhere is dropped; nested entries of an accepted parent go when
  their own group failed; changes of a POM are never reverted.

**Planning**

* F4: `_validate_candidate_relations` uses `literal_ids` before it is bound, which
  ends as UNKNOWN. F6: a pair cut is learned by name without comparing resolved
  versions. F8: evidence constraints also disqualify the installed baseline.
* F5: "hard relationships are never split" (`solver/graph.py:518`), but an
  oversized unit is emitted as dispatchable singletons (`HardNeverSplit`).
* F22: an accepted tactical choice is dropped when the previous attempt left a
  retry plan (`supervisor_node.py:5574`). F23: an error text of the parent query
  is read as "no parent" (`tactical_supervisor.py:1667`). F24: a choice outside
  the allowlist makes a first try inconclusive. F26: an outage of the Maven
  registry is read as exhaustion. F27: the npm repair knows only the last
  allowlisted version. F28: an outage before a certified dispatch makes the task
  inconclusive where the text says "preserve retry budget". F29: the Maven pivot
  at the latest stage computes a plan and discards it. F30: an override of a child
  is authorised by a version in its parent's allowlist.
* F31: a scoped replan drops tasks that left the closure, accepted ones included,
  and their ids are reused (`AcceptedIsRemembered`). F32: a missing packument of
  an intermediate package leaves the catalog complete and makes the finding
  unfixable (`portfolio_solver.py:3198`; `OutageBlamesNobody`).

**Workers**

* F9: an invalid runtime smoke gate falls through to a pass
  (`tools_validation.py:725`). F11: with two calls in a turn, a failing gate, a
  revert and a passing gate give a success without a change. F12:
  `observed_changed_files` keeps files a failed gate reverted.
* F14, F15: checkpoints after a failed rollback are dropped (Python), reset
  (Maven) or kept from before another success (npm). F16: a failed batch reports
  no changed files, so that what was not restored is never reported.
* F39: a rejected terminal call of an evaluator leaves the other calls of its turn
  unanswered (`EvaluatorIsAnswered`). F40: of two signatures that reach the
  threshold in one turn only the last is told, both are suppressed
  (`SuppressedWasTold`). F42: a deferred call without an id raises out of the loop.
* F43: a checkpoint takes a failed read for an absent file (`tools_manifest.py:120`,
  `tools_manifest_java.py:613`), and its rollback then deletes the file and
  reports success (`tools_manifest.py:135-142`); an npm success whose reads of the lockfile
  failed does not report it. The capture before a workaround removes a dependency
  reads in the same way. `LeftoversReported` and `BatchIsAtomic` fail without their
  clause for `unread`.
* F44: when the tool loop raises after a successful transaction, the worker
  returns no changed files while the edits stay (`update_subagent.py:2164-2171`;
  F42 is one way, `subagent_runtime.py:785-793`), and a committed batch is
  rolled back in a sandbox that is already closed. `LeftoversReported` fails
  without its clause for `broken`.
* F37: `run_readonly` runs tests that write. F38: writes ignore the result of
  `put_archive`; a failed read is cached as absence (`ReadsAreCurrent`).

## 11. Limits

Not modelled as components: triage beyond its place in the graph, reports and
trajectories (one atomic replace), registries and parsers (their answers are
inputs), the evaluation harness, entry points. `PROJECT.json` has the reasons.

* `TaskLifecycle` is a Python project; npm and Maven have `RetryLadder`.
  `RunLifecycle` has groups of dependency findings only, with retries inside a
  dispatch, and branches no state reaches are left out.
* `WorkspaceTransactions` has a Supervisor more permissive than the code's but in
  one place, `JoinsClusterCleanly`: a cluster with a member whose candidate
  is retained alone is not dispatched. That is a consequence of certification
  (section 3), and assumes that a candidate changes a manifest: the certifier
  compares manifests, so a candidate in the lockfile alone would not be seen.
  Without the guard `BaselinesAreKept` fails: B's candidate is retained, {A, B}
  runs on top of it, QA passes B and cannot judge A, and what A's archive then holds
  is B's first candidate. Restoring the prefix at a replan is an action of
  `QaPrefix`, not of this module.
* `QaCritic`: one group per task; the full-scan branch of
  `_run_global_execution` and the policy skip without targets are not reached by
  any state and left out.
* `QaPrefix`: batches that are not dispatchable and digest checks that always
  succeed are left out; Maven asks for the exact fingerprint of the prefix where
  npm takes the host's too.
* `PortfolioInputs`: npm only; the solver is any choice, one batch of one task is
  out at a time. `PortfolioProblem` leaves CP-SAT out; a solver that runs out of
  time may return any feasible answer.
* `RetryLadder` has one task, in no failed cluster, so the replay of a version by the
  unblamed peers of a blamed task (`supervisor_node.py:1003-1008`) does not arise in
  it; `TaskLifecycle` has it (`MayReplay`). Every dispatch is under a certified plan; the stages
  WORKAROUND (Maven) and SAME_MAJOR (npm) are not reached; two retries in the run,
  three in the code.
* `UpdateWorker`, `WorkaroundWorker`: a transaction is one step, since a loop
  runs one tool at a time; how patches and manifests are edited as text is left
  out.
* `DockerSandbox`: `restart` has no caller in the repository and is modelled as
  written; checks of paths and metrics are left out; a `BaseException` during the
  start leaves the container to the volume cleanup.
* `ContextMemory`: one fact per result, the length of an entry by its tool.
* `FinalPatch`: two groups and two packages; path normalisation and the diff
  algorithm are left out.

The properties below "Does not hold" in a module are stated for the reader; no
run checks them unless its name is given there.
