---------------------------- MODULE RunLifecycle ----------------------------
(***************************************************************************)
(* One run of the orchestrator from run_orchestrator to its return         *)
(* (graph.py): the nodes of the graph and the edges between them, the      *)
(* volumes the run owns (workspace_builder.py, teardown_node.py), the      *)
(* portfolio planning at the entries of the Supervisor with its replan     *)
(* guard (supervisor_portfolio.py), the ledger of accepted scans, the      *)
(* post-QA re-triage that reopens work, the optional final scan, and what  *)
(* is done when a node raises.                                             *)
(*                                                                         *)
(* A group is a dependency's vulnerability group, its task and the one     *)
(* finding it stands for, which sits in one dependency input.  How a task  *)
(* is worked on, its retries included, is TaskLifecycle's: here a batch    *)
(* passes QA as a whole in the end, or its tasks are unfixable.            *)
(***************************************************************************)
EXTENDS Naturals, FiniteSets, FiniteSetsExt

CONSTANTS Groups,      \* the groups triage may find
          Inputs,      \* the dependency inputs: lockfiles, manifests
          InputOf(_),  \* the input the finding of a group is in
          Modes,       \* the settings and inputs of a run, a set of records
          MaxReplans,  \* MAX_PORTFOLIO_REPLAN_ATTEMPTS
          Limit,       \* remedy_retriage_limit
          Cleanups     \* _WORKSPACE_VOLUME_CLEANUP_ATTEMPTS

\* given: groups triaged before the run; issues: the findings of the scan before
\* it; scanned: that scan was supplied; java; inventory: every source lockfile
\* could be read; final, limited, triage: final scan, re-triage limit, re-triage.
ASSUME RunAssumption ==
  /\ IsFiniteSet(Groups) /\ \A g \in Groups : InputOf(g) \in Inputs
  /\ Modes \subseteq [given : SUBSET Groups, issues : SUBSET Groups, scanned : BOOLEAN,
                      java : BOOLEAN, inventory : BOOLEAN, final : BOOLEAN,
                      limited : BOOLEAN, triage : BOOLEAN]
  /\ {MaxReplans, Limit, Cleanups} \subseteq Nat \ {0}

Volumes == {"workspace", "cache"}
Graph == {"initial_triage", "workspace_builder", "install", "workspace_setup_scan", "supervisor",
          "qa_critic", "triage", "final_full_scan", "teardown", "report"}

VARIABLES
  node,     \* the graph node to run next, then the steps of run_orchestrator
  mode,     \* the settings and inputs
  status,   \* status of the state
  errors,   \* the state has errors
  docker,   \* the volumes of the run that exist
  known,    \* workspace_volume and maven_cache_volume of the state
  noted,    \* the volumes the recorder of the run holds
  todo,     \* the volumes the cleanup under way has still to remove
  tries,    \* removals of the current one that met a conflict
  groups,   \* valid_groups
  task,     \* task_queue: status and revision of each group's task
  active,   \* active_target_task_ids
  verdict,  \* what QA or the worker of the batch answered, before it is read
  cohort,   \* qa_passed_workspace_prefix: the batch a task passed QA in
  touched,  \* tasks whose accepted attempt changed files or covered the package
  record,   \* latest_successful_scan_by_task
  input,    \* latest_incremental_scan_by_input
  evid,     \* whether the latest QA evidence of a task is complete
  setup,    \* setup_scan_evidence
  unseen,   \* history: inputs the installation changed and no accepted scan covered
  seen,     \* post_remediation_scan_issues
  plan,     \* a portfolio plan was committed
  request,  \* portfolio_replan_request is POST_QA_TRIAGE
  replans,  \* portfolio_replan_history of that reason
  final,    \* final_full_scan_result
  wanted,   \* triage_required
  rounds    \* post_qa_retriage_count, counted up to Limit
volumes == <<docker, known, noted, todo, tries>>
work == <<task, active, verdict, cohort, touched>>
ledger == <<record, input, evid, setup, unseen, seen>>
outer == <<plan, request, replans, final, wanted, rounds>>
vars == <<node, mode, status, errors, volumes, groups, work, ledger, outer>>

NoTask == [status |-> "none", rev |-> 0]
Fresh == [status |-> "PENDING", rev |-> 0]
NoRecord == [complete |-> FALSE, found |-> {}, left |-> {}, rev |-> 0]
NoInput == [complete |-> FALSE, found |-> {}, tasks |-> {}]
NoSetup == [state |-> "none", paths |-> {}, found |-> {}]
NoFinal == [scope |-> "none", done |-> FALSE, new |-> {}, left |-> {}, triage |-> FALSE]
NoVerdict == [kind |-> "none", evidence |-> "none", paths |-> {}, found |-> {}, left |-> {}]

Terminal == {"QA_PASSED", "UNFIXABLE"}
Tasks(t) == {g \in Groups : t[g].status # "none"}
Passed(t) == {g \in Groups : t[g].status = "QA_PASSED"}
Rested(t) == \A g \in Tasks(t) : t[g].status \in Terminal
In(paths) == {g \in Groups : InputOf(g) \in paths}
Baseline == IF mode.scanned THEN mode.issues ELSE mode.given

Blank(value) == [g \in Groups |-> value]
Init ==
  /\ mode \in Modes
  /\ node = "initial_triage" /\ status = "pending" /\ errors = FALSE
  /\ docker = {} /\ known = {} /\ noted = {} /\ todo = {} /\ tries = 0
  /\ groups = mode.given
  /\ task = Blank(NoTask) /\ active = {} /\ verdict = NoVerdict
  /\ cohort = Blank({}) /\ touched = {}
  /\ record = Blank(NoRecord) /\ input = [i \in Inputs |-> NoInput]
  /\ evid = Blank(TRUE) /\ setup = NoSetup /\ unseen = {} /\ seen = {}
  /\ plan = FALSE /\ request = FALSE /\ replans = 0
  /\ final = NoFinal /\ wanted = FALSE /\ rounds = 0

-----------------------------------------------------------------------------
(* Triage and the workspace *)

Goto(to, said) == node' = to /\ status' = said

\* Groups that were given are kept, a run without findings skips triage, the
\* pipeline finds some valid groups or none, or raises.
InitialTriage ==
  /\ node = "initial_triage"
  /\ \/ /\ mode.given # {} \/ mode.issues = {}
        /\ Goto("workspace_builder", "triage_skipped") /\ UNCHANGED <<groups, errors>>
     \/ /\ mode.given = {} /\ mode.issues # {}
        /\ \/ \E gs \in SUBSET mode.issues :
                /\ groups' = gs /\ UNCHANGED errors
                /\ IF gs = {} THEN Goto("teardown", "triage_completed_no_work")
                   ELSE Goto("workspace_builder", "triage_completed")
           \/ Goto("teardown", "failed") /\ errors' = TRUE /\ UNCHANGED groups
  /\ todo' = {}
  /\ UNCHANGED <<mode, docker, known, noted, tries, work, ledger, outer>>

\* Nothing was created: no repository, an unknown language, an unsupported manager.
BuildRefused ==
  /\ node = "workspace_builder"
  /\ Goto("teardown", "workspace_build_failed") /\ errors' = TRUE
  /\ UNCHANGED <<mode, volumes, groups, work, ledger, outer>>

\* A volume is noted by the recorder as soon as Docker has created it; the second
\* one fails alone.
CreateVolumes ==
  /\ node = "workspace_builder"
  /\ LET all == IF mode.java THEN Volumes ELSE {"workspace"} IN
     \E made \in {{}, {"workspace"}, all} :
       /\ docker' = made /\ noted' = made
       /\ IF made = all
            THEN node' = "install" /\ UNCHANGED <<status, known, errors, todo>>
            ELSE /\ Goto("teardown", "workspace_build_failed") /\ errors' = TRUE
                 /\ known' = made /\ todo' = made
  /\ UNCHANGED <<mode, tries, groups, work, ledger, outer>>

\* Copying the repository and installing its dependencies works or not.
Install ==
  /\ node = "install" /\ known' = docker
  /\ \/ /\ Goto("workspace_setup_scan", "workspace_ready")
        /\ errors' = (errors \/ ~mode.inventory) /\ UNCHANGED todo
     \/ Goto("teardown", "workspace_build_failed") /\ errors' = TRUE /\ todo' = known'
  /\ UNCHANGED <<mode, docker, noted, tries, groups, work, ledger, outer>>

\* Without a complete source inventory a run that is not Java skips the scan of what
\* the installation changed and leaves no evidence.
SetupSkipped(changed) ==
  /\ ~mode.java /\ ~mode.inventory
  /\ unseen' = changed /\ UNCHANGED <<setup, errors>>

\* The inputs cannot be listed or read: evidence that covers nothing.
SetupUnreadable(changed) ==
  /\ mode.java \/ mode.inventory
  /\ setup' = [NoSetup EXCEPT !.state = "incomplete"]
  /\ unseen' = changed /\ errors' = TRUE

\* The scan of `paths` is complete, or its report is no proof of them: what it found
\* is kept all the same.
SetupScanned(changed, paths) ==
  \E found \in SUBSET In(paths), state \in {"complete", "incomplete"} :
    /\ setup' = [state |-> state, paths |-> paths, found |-> found]
    /\ unseen' = IF state = "complete" THEN {} ELSE changed
    /\ errors' = (errors \/ state = "incomplete")

\* npm scans the closures that changed, Maven the whole reactor.
SetupScanNpm(changed) == ~mode.java /\ mode.inventory /\ SetupScanned(changed, changed)
SetupScanMaven(changed) == mode.java /\ SetupScanned(changed, Inputs)

SetupScan ==
  /\ node = "workspace_setup_scan" /\ node' = "supervisor"
  /\ \E changed \in SUBSET Inputs :
       \/ SetupSkipped(changed)
       \/ SetupUnreadable(changed)
       \/ SetupScanNpm(changed)
       \/ SetupScanMaven(changed)
  /\ UNCHANGED <<mode, status, volumes, groups, work, record, input, evid, seen, outer>>

-----------------------------------------------------------------------------
(* The Supervisor's entries: portfolio planning *)

PlanningDue ==
  /\ node = "supervisor"
  /\ (status = "workspace_ready" /\ ~plan) \/ status = "triage_completed"

Exhausted == request /\ replans >= MaxReplans
Leave(said) == Goto("teardown", said) /\ errors' = TRUE /\ todo' = known

\* Another replan for the same reason would exceed the limit.
ReplanGuarded ==
  /\ PlanningDue /\ Exhausted
  /\ Leave("portfolio_replan_guarded") /\ request' = FALSE
  /\ UNCHANGED <<mode, docker, known, noted, tries, groups, work, ledger, plan, replans,
                 final, wanted, rounds>>

\* The solver, the certificate or the application of the plan fails.
PlanningFails ==
  /\ PlanningDue /\ ~Exhausted
  /\ Leave("portfolio_failed") /\ replans' = IF request THEN replans + 1 ELSE replans
  /\ UNCHANGED <<mode, docker, known, noted, tries, groups, work, ledger, plan, request,
                 final, wanted, rounds>>

\* The plan is committed and each group without a task gets one; diagnostics of
\* a good plan are errors of the state too, and the QA-passed prefix is kept only
\* when the certificate vouches for it.
PlanningCommits ==
  /\ PlanningDue /\ ~Exhausted
  /\ Goto("supervisor", "portfolio_ready") /\ errors' \in {errors, TRUE}
  /\ task' = [g \in Groups |-> IF g \in groups /\ task[g] = NoTask THEN Fresh ELSE task[g]]
  /\ cohort' \in {cohort, [g \in Groups |-> {}]}
  /\ plan' = TRUE /\ request' = FALSE /\ replans' = (IF request THEN replans + 1 ELSE replans)
  /\ active' = {}
  /\ UNCHANGED <<mode, volumes, groups, verdict, touched, ledger, final, wanted, rounds>>

-----------------------------------------------------------------------------
(* A dispatched batch *)

\* Every task of the batch passes: a complete scan of the inputs it changed, the
\* skip of a target that is gone, or a verdict that needed no scan.
BatchPasses ==
  /\ node = "qa_critic"
  /\ \E changed \in {{}, active}, evidence \in {"complete", "skipped", "incomplete", "none"} :
       /\ \E paths \in SUBSET Inputs :
            /\ {InputOf(g) : g \in active} \subseteq paths
            /\ \E found \in SUBSET In(paths), left \in SUBSET active :
                 /\ left \subseteq found
                 /\ IF evidence = "complete"
                      THEN verdict' = [kind |-> "passed", evidence |-> evidence, paths |-> paths,
                                       found |-> found, left |-> left]
                      ELSE /\ found = {} /\ paths = {InputOf(g) : g \in active}
                           /\ verdict' = [NoVerdict EXCEPT !.kind = "passed",
                                                           !.evidence = evidence]
       /\ touched' = (touched \ active) \cup changed
  /\ Goto("supervisor", "qa_completed")
  /\ UNCHANGED <<mode, errors, volumes, groups, task, active, cohort, ledger, outer>>

\* The batch fails with the worker or with QA, whose evidence may be incomplete;
\* the errors it leaves change nothing, as its tasks end unfixable.
BatchFails ==
  /\ node = "qa_critic"
  /\ \E evidence \in {"complete", "incomplete", "none"} :
       verdict' = [NoVerdict EXCEPT !.kind = "failed", !.evidence = evidence]
  /\ \E said \in {"qa_completed", "update_failed"} :
       /\ said = "update_failed" => verdict'.evidence = "none"
       /\ Goto("supervisor", said)
  /\ UNCHANGED <<mode, errors, volumes, groups, task, active, cohort, touched, ledger, outer>>

-----------------------------------------------------------------------------
(* The Supervisor reads a verdict into the ledger *)

Accepts == verdict.kind = "passed"
Scans == Accepts /\ verdict.evidence = "complete"

\* The tasks of the batch passed, or are unfixable.
Settled ==
  [g \in Groups |->
    IF verdict.kind = "none" \/ g \notin active THEN task[g]
    ELSE [task[g] EXCEPT !.status = IF Accepts THEN "QA_PASSED" ELSE "UNFIXABLE"]]

Recorded(t) ==
  [g \in Groups |->
    IF Accepts /\ g \in active /\ verdict.evidence \in {"complete", "skipped"}
      THEN [complete |-> TRUE, found |-> {f \in verdict.found : InputOf(f) = InputOf(g)},
            left |-> verdict.left \cap {g}, rev |-> t[g].rev]
      ELSE record[g]]
Snapshots ==
  [i \in Inputs |->
    IF Scans /\ i \in verdict.paths
      THEN [complete |-> TRUE, found |-> {f \in verdict.found : InputOf(f) = i}, tasks |-> active]
      ELSE input[i]]

\* What an accepted scan supersedes leaves the evidence of the installation, and
\* evidence that names no input any more is dropped.
Pruned ==
  LET rest == setup.paths \ verdict.paths IN
  IF setup.state = "none" \/ ~Scans THEN setup
  ELSE IF rest = {} THEN NoSetup
  ELSE [setup EXCEPT !.paths = rest, !.found = @ \cap In(rest)]
Judged == [g \in Groups |-> IF g \in active /\ status = "qa_completed"
                            THEN verdict.evidence # "incomplete" ELSE evid[g]]

\* The cumulative metrics: the snapshot of an input replaces what the records of
\* the tasks say of it, their remaining targets count in any case.
Counted(t, r, i) == {g \in Passed(t) : r[g].complete /\ ~i[InputOf(g)].complete}
Cumulative(t, r, i, s) ==
  (UNION {r[g].found : g \in Counted(t, r, i)})
    \cup (UNION {i[p].found : p \in Inputs}) \cup s.found
Leftover(t, r) == UNION {r[g].left : g \in {p \in Passed(t) : r[p].complete}}

\* Mutant: only the evidence of the installation is asked.
SetupCovered(s, e) == mode.scanned /\ mode.inventory /\ s.state # "incomplete"
Covered(s, e) ==
  /\ mode.scanned /\ mode.inventory /\ s.state # "incomplete"
  /\ \A g \in Groups : e[g]

-----------------------------------------------------------------------------
(* The Supervisor's decision *)

\* Mutant: nothing tells that the findings went through triage.
NeverDone == FALSE
TriageDone == status = "portfolio_ready" /\ rounds > 0 /\ ~wanted
FinalScanDue(t) ==
  mode.final /\ known # {} /\ Tasks(t) # {} /\ Rested(t) /\ final.scope # "full"

\* The scan of the whole workspace, once there, is the one that counts.
Result(t, r, i, s, e) ==
  IF final.scope = "full" THEN final
  ELSE LET new == Cumulative(t, r, i, s) \ Baseline left == Leftover(t, r) IN
       [scope |-> "incremental", done |-> Covered(s, e), new |-> new, left |-> left,
        triage |-> mode.triage /\ ~TriageDone /\ new \cup left # {}]

\* Nothing to remediate.
NoGroups ==
  /\ node = "supervisor" /\ ~PlanningDue /\ groups = {}
  /\ Goto("teardown", "supervisor_routed") /\ todo' = known
  /\ UNCHANGED <<mode, errors, docker, known, noted, tries, groups, work, ledger, outer>>

\* Work that is open is dispatched; at rest the final scan comes first, then the
\* findings that ask for triage, then the end.
Decide ==
  /\ node = "supervisor" /\ ~PlanningDue /\ groups # {}
  /\ LET t == Settled r == Recorded(t) i == Snapshots s == Pruned e == Judged
           f == Result(t, r, i, s, e) IN
       /\ task' = t /\ record' = r /\ input' = i /\ setup' = s /\ evid' = e
       /\ wanted' = f.triage
       /\ seen' = IF final.scope = "full" THEN seen ELSE Cumulative(t, r, i, s)
       /\ final' = IF f.scope = "full" \/ Rested(t) THEN f ELSE NoFinal
       /\ cohort' = IF Accepts THEN [g \in Groups |-> IF g \in active THEN active ELSE cohort[g]]
                    ELSE cohort
       /\ unseen' = IF Scans THEN unseen \ verdict.paths ELSE unseen
       /\ IF ~Rested(t)
            THEN /\ active' \in (SUBSET {g \in Tasks(t) : t[g].status \notin Terminal}) \ {{}}
                 /\ node' = "qa_critic" /\ UNCHANGED todo
            ELSE /\ active' = {}
                 /\ IF FinalScanDue(t) THEN node' = "final_full_scan" /\ UNCHANGED todo
                    ELSE IF f.triage THEN node' = "triage" /\ UNCHANGED todo
                    ELSE node' = "teardown" /\ todo' = known
       /\ verdict' = NoVerdict /\ status' = "supervisor_routed"
  /\ UNCHANGED <<mode, errors, docker, known, noted, tries, groups, touched, plan, request,
                 replans, rounds>>

\* The scan of the whole workspace completes, or keeps what was known and fails.
FinalFullScan ==
  /\ node = "final_full_scan"
  /\ \/ \E found \in SUBSET Groups :
          LET new == found \ Baseline left == found \cap Baseline triage == mode.triage /\ found # {} IN
          /\ final' = [scope |-> "full", done |-> TRUE, new |-> new, left |-> left, triage |-> triage]
          /\ seen' = found /\ wanted' = triage /\ UNCHANGED errors
          /\ Goto("supervisor", "final_scan_completed")
     \/ /\ final' = [final EXCEPT !.scope = "full", !.done = FALSE, !.triage = FALSE]
        /\ wanted' = FALSE /\ errors' = TRUE /\ UNCHANGED seen
        /\ Goto("supervisor", "final_scan_failed")
  /\ UNCHANGED <<mode, volumes, groups, work, record, input, evid, setup, unseen, plan, request,
                 replans, rounds>>

-----------------------------------------------------------------------------
(* Post-QA triage *)

\* The configured limit ends the run.
RetriageLimited ==
  /\ node = "triage" /\ mode.limited /\ rounds >= Limit
  /\ Leave("retriage_limit_reached") /\ wanted' = FALSE
  /\ UNCHANGED <<mode, docker, known, noted, tries, groups, work, ledger, plan, request, replans,
                 final, rounds>>

Round == rounds' = Min({rounds + 1, Limit})

TriageFails ==
  /\ node = "triage" /\ ~(mode.limited /\ rounds >= Limit)
  /\ Leave("triage_failed") /\ wanted' = FALSE /\ Round
  /\ UNCHANGED <<mode, docker, known, noted, tries, groups, work, ledger, plan, request, replans,
                 final>>

Peers(reopened) ==
  {g \in Passed(task) : \E r \in reopened : r \in cohort[r] /\ cohort[g] = cohort[r]} \ reopened
\* The tasks whose latest attempt changed something and was accepted.
AcceptedWork == Passed(task) \cap touched
Reopened(asked) ==
  LET first == asked \cap AcceptedWork IN first \cup Peers(first)

\* Mutant: the records of a reopened task stay in the ledger.
KeptRecord(g, reopened) == record[g]
LiveRecord(g, reopened) ==
  IF g \in reopened \/ task[g].status # "QA_PASSED" THEN NoRecord ELSE record[g]

\* The groups of the findings are reconciled with the known ones, which stay; a
\* passed task whose group changed, or whose target is still there, is reopened
\* with its batch if its attempt was accepted work, and its evidence is dropped.
Retriage ==
  /\ node = "triage" /\ ~(mode.limited /\ rounds >= Limit)
  /\ \E candidates \in SUBSET seen : \E changed \in SUBSET (candidates \cap groups) :
       LET new == candidates \ groups
           reopened == Reopened(changed \cup Leftover(task, record))
           again == reopened \cup new # {} IN
       /\ groups' = groups \cup new
       /\ task' = [g \in Groups |-> IF g \in reopened
                     THEN [status |-> "PENDING", rev |-> task[g].rev + 1]
                     ELSE task[g]]
       /\ record' = [g \in Groups |-> LiveRecord(g, reopened)]
       /\ input' = [i \in Inputs |-> IF input[i].tasks \cap reopened # {} THEN NoInput ELSE input[i]]
       /\ request' = (again /\ plan)
       /\ final' = IF again THEN NoFinal ELSE final
  /\ Goto("supervisor", "triage_completed") /\ wanted' = FALSE /\ Round /\ active' = {}
  /\ UNCHANGED <<mode, errors, volumes, verdict, cohort, touched, evid, setup, unseen, seen, plan,
                 replans>>

-----------------------------------------------------------------------------
(* Teardown, the report, and a node that raises *)

\* A volume is gone, or Docker answers a conflict and is asked again, or it fails.
Removed(v) == docker' = docker \ {v} /\ noted' = noted \ {v} /\ todo' = todo \ {v} /\ tries' = 0 /\ UNCHANGED errors
GivesUp == tries + 1 = Cleanups
Conflict(v) ==
  /\ UNCHANGED <<docker, noted>>
  /\ IF GivesUp THEN todo' = todo \ {v} /\ tries' = 0 /\ errors' = TRUE
     ELSE tries' = tries + 1 /\ UNCHANGED <<todo, errors>>
Refused(v) == todo' = todo \ {v} /\ tries' = 0 /\ errors' = TRUE /\ UNCHANGED <<docker, noted>>

CleanUp ==
  /\ node \in {"teardown", "emergency"}
  /\ \E v \in todo :
       /\ v = "cache" => "workspace" \notin todo
       /\ Removed(v) \/ Conflict(v) \/ Refused(v)
  /\ UNCHANGED <<node, mode, status, known, groups, work, ledger, outer>>

\* terminal_outcome_issues: why the run cannot be called successful.
OutcomeIssues ==
  \/ \E g \in Tasks(task) : task[g].status # "QA_PASSED"
  \/ final.scope # "none" /\ (~final.done \/ final.left \cup final.new # {})

StillThere == known \cap docker
Teardown ==
  /\ node = "teardown" /\ todo = {}
  /\ known' = StillThere
  /\ Goto("report", IF errors \/ OutcomeIssues THEN "completed_with_errors" ELSE "completed")
  /\ errors' = (errors \/ OutcomeIssues)
  /\ UNCHANGED <<mode, docker, noted, todo, tries, groups, work, ledger, outer>>

\* The report is rendered and the trajectory written, or that fails: the status stays.
Report ==
  /\ node = "report" /\ node' = "done"
  /\ UNCHANGED <<mode, status, errors, volumes, groups, work, ledger, outer>>

\* Any node may raise or be interrupted: the state of the graph is lost, and what
\* the recorder holds is removed.
Raise ==
  /\ node \in Graph /\ node' = "emergency"
  /\ todo' = noted /\ tries' = 0 /\ status' = "pending" /\ errors' = FALSE /\ known' = {}
  /\ groups' = mode.given
  /\ task' = Blank(NoTask) /\ active' = {} /\ verdict' = NoVerdict /\ cohort' = Blank({})
  /\ touched' = {} /\ record' = Blank(NoRecord) /\ input' = [i \in Inputs |-> NoInput]
  /\ evid' = Blank(TRUE) /\ setup' = NoSetup /\ unseen' = {} /\ seen' = {}
  /\ plan' = FALSE /\ request' = FALSE /\ replans' = 0 /\ final' = NoFinal
  /\ wanted' = FALSE /\ rounds' = 0 /\ UNCHANGED <<mode, docker, noted>>

\* Mutant: the state of a run that raised names what the last node had named.
LastKnown == known
Emergency == noted
EmergencyEnds ==
  /\ node = "emergency" /\ todo = {}
  /\ known' = Emergency /\ errors' = TRUE /\ Goto("done", "completed_with_errors")
  /\ UNCHANGED <<mode, docker, noted, todo, tries, groups, work, ledger, outer>>

Done == node = "done" /\ UNCHANGED vars

Advance ==
  \/ InitialTriage \/ BuildRefused \/ CreateVolumes \/ Install \/ SetupScan
  \/ ReplanGuarded \/ PlanningFails \/ PlanningCommits \/ BatchPasses \/ BatchFails
  \/ NoGroups \/ Decide \/ FinalFullScan \/ RetriageLimited \/ TriageFails \/ Retriage
  \/ CleanUp \/ Teardown \/ Report \/ EmergencyEnds
Next == Advance \/ Raise \/ Done

\* A node that can run does run: LangGraph and run_orchestrator are one thread.
Spec == Init /\ [][Next]_vars /\ WF_vars(Advance)

-----------------------------------------------------------------------------
\* Every variable has its type; the state's volumes, ledger and queue are those of state.py.
TypeOK ==
  /\ node \in Graph \cup {"emergency", "done"} /\ mode \in Modes
  /\ known \subseteq Volumes /\ docker \subseteq Volumes /\ noted \subseteq docker
  /\ todo \subseteq noted /\ tries \in 0 .. Cleanups - 1
  /\ groups \subseteq Groups /\ active \subseteq Tasks(task)
  /\ \A g \in Groups : task[g].status \in {"none", "PENDING", "QA_PASSED", "UNFIXABLE"}
  /\ replans \in 0 .. MaxReplans /\ rounds \in 0 .. Limit

\* A volume the run created and could not remove is named in the state the run
\* ends with, so that its owner can be told (graph.py:1135-1166, teardown_node.py:908).
NothingLeaks == node = "done" => docker \subseteq known

\* A run that is called completed has left nothing open: every task passed, no
\* accepted scan holds a finding the baseline did not have or a target that is
\* still there, no QA evidence is incomplete, no volume is left
\* (task_utils.py:302-368, teardown_node.py:892-907).
CompletedIsClean ==
  status = "completed" /\ groups # {} =>
    /\ Passed(task) = groups /\ docker = {}
    /\ \A i \in Inputs : final.scope = "incremental" => input[i].found \subseteq Baseline
    /\ Leftover(task, record) # {} => final.scope = "full"
    /\ final.scope = "incremental" => \A g \in Groups : evid[g]

\* The ledger never counts evidence of an older revision: the record of a task is
\* that of its current pass, and every task behind the snapshot of an input is
\* still passed (graph.py:810-830).
EvidenceIsCurrent ==
  /\ \A g \in Groups : record[g].complete => task[g].status = "QA_PASSED" /\ record[g].rev = task[g].rev
  /\ \A i \in Inputs : input[i].complete => input[i].tasks \subseteq Passed(task)

\* The state a run passes on is well-formed, its ledger included.
LedgerIsSound == TypeOK /\ EvidenceIsCurrent

\* Does not hold (README, Known deviations): coverage that is called complete was earned: every input the installation
\* changed has been scanned (supervisor_node.py:752-760).
CoverageIsEarned == node = "report" /\ final.scope = "incremental" /\ final.done => unseen = {}

\* Every run comes to its end (graph.py:1005-1312); not with a final scan and no limit
\* on triage (README, Known deviations).
ReachesEnd == <>(node = "done")
=============================================================================
