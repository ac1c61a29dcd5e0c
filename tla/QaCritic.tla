------------------------------ MODULE QaCritic ------------------------------
(***************************************************************************)
(* One pass of QA: run_qa_critic_node of orchestration/qa_critic.py with    *)
(* the deterministic pipeline it runs in a sandbox (install, package state, *)
(* targeted scan, tests), the evaluator that judges each task, and the      *)
(* policy that turns both into a verdict.                                   *)
(*                                                                          *)
(* The phases are sequential; what is hard is what each of them may fail to *)
(* find out, and what a later phase makes of it: evidence that is missing   *)
(* must not pass a task, and must not be held against it either.            *)
(***************************************************************************)
EXTENDS QaScan, QaEvidence

CONSTANTS
    Jobs,           \* the batches QA may be given, with the workspace the workers left
    Voices,         \* the answers the evaluator may give
    Faults          \* what may fail besides the candidate: the "sandbox"

ASSUME JobAssumption ==
    /\ \A j \in Jobs : /\ j.active \in (SUBSET Tasks) \ {{}}
                       /\ j.policy \in [Tasks -> Policies] /\ j.world \in Worlds
    /\ Voices \subseteq Answers /\ Faults \subseteq {"sandbox"}

VARIABLES
    pc,         \* the phase that runs next
    job,        \* the batch: its tasks, their policies and the workspace
    batch,      \* what the scan has to cover
    found,      \* _QAExecutionResults: what the phases found
    evals,      \* the verdicts
    accused,    \* history: the tasks that the evaluator, or a suite that failed, spoke against
    status      \* the status the node returns

vars == <<pc, job, batch, found, evals, accused, status>>

Undecided == [Passed EXCEPT !.category = "undecided"]
Installs == {"ok", "peer", "engine", "failed"}
NothingFound ==
    [install |-> "failed", dep |-> [t \in Tasks |-> "none"], scan |-> "none", evidence |-> "none",
     known |-> {}, by |-> [t \in Tasks |-> NoEvidence], covered |-> {}, remaining |-> {},
     scanSkipped |-> FALSE, skipped |-> {}, failed |-> {}, tests |-> "not_run"]

active == job.active
Singleton == Cardinality(active) = 1
OnlyRemovals == \A t \in active : job.policy[t] = "package_removal"

\* The manifests of a version agree with what is installed.
Shows(w, entry) ==
    CASE entry = "expected" -> AllInstalled(w) = {"expected"}
      [] entry = "absent" -> AllInstalled(w) = {}
      [] OTHER -> "other" \in AllInstalled(w)
\* The evidence the collectors may come to; npm and pip ask for no graph after a failed install.
Collected(m, e, installed) ==
    {Evidence(m, w, v) : w \in {x \in Workspaces : Shows(x, e)},
                         v \in {x \in Views : installed \/ m = "maven" \/ x.graphs = {}}}
DepOutcomes ==
    [m \in {"npm", "pip", "maven"} |-> [e \in Entries |-> [installed \in BOOLEAN |-> Collected(m, e, installed)]]]
DepFor(t, installed) ==
    IF job.policy[t] # "version_bump" \/ t \notin active THEN {"none"}
    ELSE IF job.world.manager[t] \notin {"npm", "pip", "maven"} THEN {"inconclusive"}
    ELSE DepOutcomes[job.world.manager[t]][job.world.entry[t]][installed]

Init ==
    /\ pc = "start" /\ job \in Jobs
    /\ batch = NoBatch /\ found = NothingFound
    /\ evals = [t \in Tasks |-> Undecided] /\ accused = {} /\ status = "none"

----------------------------------------------------------------------------
(* The ways out before the end. *)

\* No active task, a task QA does not know, or no group at all: nothing is judged.
RefuseScope ==
    /\ pc = "start" /\ "sandbox" \in Faults
    /\ pc' = "done" /\ status' = "qa_failed"
    /\ UNCHANGED <<job, batch, found, evals, accused>>
\* An error of QA, not of the tasks.
QaEnds ==
    /\ pc' = "done" /\ status' = "qa_failed" /\ accused' = {}
    /\ evals' = [t \in Tasks |-> IF t \in active THEN ContractError ELSE Undecided]
    /\ UNCHANGED <<job, batch, found>>
\* No volume, or a language QA does not support.
Unavailable == pc = "start" /\ "sandbox" \in Faults /\ QaEnds
\* The sandbox does not start, or is lost under a phase that does not expect it.
SandboxLost == pc \in {"resolve", "tests", "judge"} /\ "sandbox" \in Faults /\ QaEnds

----------------------------------------------------------------------------
(* _run_global_execution. *)

Install ==
    /\ pc = "start"
    /\ \E outcome \in Installs :
       \E dep \in {d \in [Tasks -> {"none", "verified", "mismatch", "inconclusive"}] :
                     \A t \in Tasks : d[t] \in DepFor(t, outcome = "ok")} :
          found' = [found EXCEPT !.install = outcome, !.dep = dep]
    /\ pc' = "resolve"
    /\ UNCHANGED <<job, batch, evals, accused, status>>

\* The results of a scan that proves something, or that cannot.
Scanned(b, performed, remaining) ==
    LET evidence == EvidenceOf(b)
    IN  [found EXCEPT !.scan = "ok", !.evidence = evidence, !.known = active, !.covered = b.covered,
             !.by = [t \in Tasks |-> TaskEvidence(t, b, job.world, evidence, performed, remaining)],
             !.remaining = remaining, !.skipped = b.skipped, !.failed = b.failed]
Unscanned(b, remaining) ==
    [found EXCEPT !.scan = "bad", !.evidence = "incomplete", !.known = active,
        !.by = [t \in Tasks |-> TaskEvidence(t, b, job.world, "incomplete", TRUE, remaining)],
        !.remaining = remaining, !.skipped = b.skipped, !.failed = b.failed]

\* _resolve_targeted_packages, and the scan that is spared when nothing is left to look at.
ResolveTargets ==
    /\ pc = "resolve" /\ ~IsUnknownManager(job.world, active)
    /\ LET b == Resolve(job.world, active)
       IN  /\ batch' = b
           /\ \/ /\ OnlyRemovals /\ DeletionOnly(b, active)
                 /\ pc' = "tests"
                 /\ found' = [Scanned([b EXCEPT !.covered = active, !.skipped = {}], FALSE, {})
                                 EXCEPT !.scanSkipped = TRUE]
              \/ b.inputs /\ pc' = "stage" /\ UNCHANGED found
              \/ /\ ~b.inputs /\ ~(OnlyRemovals /\ DeletionOnly(b, active))
                 /\ pc' = "tests"
                 /\ found' = IF b.skipped # {} /\ b.failed = {}
                             THEN [Scanned(b, FALSE, {}) EXCEPT !.scanSkipped = TRUE]
                             ELSE Unscanned(b, {})
    /\ UNCHANGED <<job, evals, accused, status>>
\* The batch of a manager the npm path does not know is not a batch: the node raises.
ResolveUnknown ==
    /\ pc = "resolve" /\ IsUnknownManager(job.world, active)
    /\ pc' = "crashed" /\ status' = "raised"
    /\ UNCHANGED <<job, batch, found, evals, accused>>

\* _write_targeted_artifacts, whole or in part.
Stage ==
    /\ pc = "stage"
    /\ \/ pc' = "scan" /\ UNCHANGED found
       \/ pc' = "clean" /\ found' = Unscanned(batch, {})
    /\ UNCHANGED <<job, batch, evals, accused, status>>

\* Dependency-Check reports what is known of the packages it was given: one without a fix is found.
Reported(s) ==
    {r \in SUBSET s :
        \A t \in s : job.policy[t] \in {"package_removal", "code_removal"} /\ job.world.entry[t] # "absent"
                         => t \in r}
\* Docker is not there, the scan times out, or it leaves no report that can be read.
OdcFails ==
    /\ pc = "scan" /\ pc' = "clean" /\ found' = Unscanned(batch, {})
    /\ UNCHANGED <<job, batch, evals, accused, status>>
RunOdc ==
    /\ pc = "scan" /\ pc' = "clean"
    /\ \E remaining \in Reported(batch.staged \cap active), report \in Reports :
          found' = IF report = "faithful" THEN Scanned(batch, TRUE, remaining)
                   ELSE Unscanned(batch, remaining)
    /\ UNCHANGED <<job, batch, evals, accused, status>>
\* _cleanup_targeted_artifacts; a failure is only logged.
Clean ==
    /\ pc = "clean" /\ pc' = "tests"
    /\ UNCHANGED <<job, batch, found, evals, accused, status>>

\* Mutant: a scan that proved nothing goes to the evaluator like any other.
NeverInconclusive(f) == FALSE
\* Evidence that covers no task at all.
ProvesNothing(f) == f.evidence = "incomplete" /\ f.covered = {}
RunTests ==
    /\ pc = "tests"
    /\ \E outcome \in {"passed", "failed"} : found' = [found EXCEPT !.tests = outcome]
    /\ pc' = IF ProvesNothing(found) THEN "inconclusive" ELSE "judge"
    /\ UNCHANGED <<job, batch, evals, accused, status>>

----------------------------------------------------------------------------
(* The verdicts. *)

\* Without coverage only the tests of a single task are held against it.
JudgeInconclusive ==
    /\ pc = "inconclusive" /\ pc' = "done" /\ status' = "qa_completed"
    /\ evals' = [t \in Tasks |->
                    IF t \notin active THEN Undecided
                    ELSE IF Singleton /\ found.tests = "failed" THEN Failed("BREAKING_CHANGE")
                    ELSE Inconclusive]
    /\ accused' = IF Singleton /\ found.tests = "failed" THEN active ELSE accused
    /\ UNCHANGED <<job, batch, found>>

\* Mutant: the verdict stands although the target could not be scanned.
UnscannableStands(t, e) == e
\* The verdict of a task whose target could not be scanned: what else speaks against it stands, and
\* a suite that failed does, whoever is to blame (evidence of a failure there is only of failed tests).
Unscannable(t, e) ==
    IF /\ ~e.passed
       /\ \/ e.category \in {"BREAKING_CHANGE", "PEER_CONFLICT"}
          \/ found.tests = "failed" \/ found.install # "ok"
          \/ Gates(t, job.policy[t], found).remaining
    THEN [e EXCEPT !.inconclusive = FALSE]
    ELSE Inconclusive
Verdict(t, a) ==
    LET p == job.policy[t]
        e == Decide(t, p, a, Gates(t, p, found), active)
    IN  IF t \in found.failed THEN Unscannable(t, e) ELSE e

\* Whether a failed suite speaks against task t: an update's may be put down to the other tasks.
TestsAgainst(t, a) ==
    /\ found.tests = "failed"
    /\ job.policy[t] # "version_bump"
       \/ ~Exonerated(t, SingletonBlame(t, a, Gates(t, job.policy[t], found), active), active)
\* Whether an answer speaks against task t.  That a test broke says nothing of an update whose
\* suite did not fail through it, nor does what could not be seen of a package that other gates judge.
Against(t, a) ==
    \/ a.kind \in {"security", "peer"}
    \/ a.kind = "uninformed" /\ job.policy[t] \notin {"version_bump", "package_removal", "code_removal"}
    \/ a.kind \in {"breaking", "outage"} /\ job.policy[t] # "version_bump"
    \/ job.policy[t] \in Semantic /\ ~a.backed
Judge(t) ==
    /\ pc = "judge" /\ t \in active /\ evals[t] = Undecided
    /\ \E a \in Voices :
          /\ evals' = [evals EXCEPT ![t] = Verdict(t, a)]
          /\ accused' = IF Against(t, a) \/ TestsAgainst(t, a) THEN accused \cup {t} ELSE accused
    /\ UNCHANGED <<pc, job, batch, found, status>>
Finish ==
    /\ pc = "judge" /\ \A t \in active : evals[t] # Undecided
    /\ pc' = "done" /\ status' = "qa_completed"
    /\ UNCHANGED <<job, batch, found, evals, accused>>

Ended == pc \in {"done", "crashed"} /\ UNCHANGED vars

Next ==
    \/ RefuseScope \/ Unavailable \/ SandboxLost \/ Install \/ ResolveTargets \/ ResolveUnknown \/ Stage
    \/ OdcFails \/ RunOdc \/ Clean
    \/ RunTests \/ JudgeInconclusive \/ (\E t \in Tasks : Judge(t)) \/ Finish \/ Ended

Spec == Init /\ [][Next]_vars

----------------------------------------------------------------------------
(* What QA must not get wrong. *)

\* A target of a Python batch that QA calls gone although it is installed, in another version than
\* the committed one (_qa_runtime.py:3798-3818).
CalledGone(t, skipped) ==
    /\ t \in skipped /\ "pip" \in Managers(job.world, active)
    /\ t \in job.world.versioned /\ job.world.entry[t] = "other"

\* A version bump that passed left no other version of its target installed, and a removal that
\* passed left none at all: the gates of qa_policy_engine.py against everything that may be unreadable.
\* One exception is the code's (README, Known deviations, F1), against docs/architecture.md:309-312:
\* a Python target that QA calls gone although another version of it is installed.
PassedIsFixed ==
    \A t \in active : evals[t].passed /\ evals[t] # Undecided /\ ~CalledGone(t, found.skipped) =>
        /\ job.policy[t] = "version_bump" /\ t \in job.world.versioned => job.world.entry[t] # "other"
        /\ job.policy[t] = "package_removal" => job.world.entry[t] = "absent"

\* An update that QA charges for tests it exonerated it of, as its target could not be scanned.
ChargedUnscanned(t) ==
    t \in found.failed /\ found.tests = "failed" /\ job.policy[t] = "version_bump"

\* A retry is only charged for something that speaks against the candidate: its install failed
\* (for whatever reason), its version is wrong or its finding still there, a suite failed that it is not
\* exonerated of, or the evaluator's answer is against it or, on source code, without the evidence its
\* policy requires.  Never because QA could not resolve, stage or scan, or its evaluator gave no
\* answer (docs/architecture.md:307-313).  One exception is the code's (README, Known deviations,
\* F3), against docs/architecture.md:310-313: an update of several whose target could not be scanned
\* is charged for failed tests it is exonerated of (qa_critic.py:1486-1541).
ChargedForCause ==
    \A t \in active : Charges(evals[t]) /\ evals[t] # Undecided =>
        \/ found.install # "ok" \/ t \in accused \/ t \in found.remaining \/ found.dep[t] = "mismatch"
        \/ ChargedUnscanned(t)

\* A target that cannot be resolved is inconclusive, unless something else speaks against the task
\* (docs/architecture.md:310-313; "this result does not consume a remediation retry").
UnresolvedIsInconclusive ==
    \A t \in active :
        /\ t \in found.failed /\ found.install = "ok" /\ found.dep[t] # "mismatch"
        /\ t \notin accused /\ t \notin found.remaining /\ found.tests = "passed"
        /\ evals[t] # Undecided
        => ~evals[t].passed /\ ~Charges(evals[t])
=============================================================================
