------------------------------ MODULE QaPolicy ------------------------------
(***************************************************************************)
(* The Supervisor's policy matrix, orchestration/qa_policy_engine.py: how   *)
(* QA turns what the deterministic checks found and what the evaluator said *)
(* about a task into a verdict.  Everything here is a function of its       *)
(* arguments; QaCritic supplies them.                                       *)
(*                                                                          *)
(* A task stands for its vulnerability group as well: the tasks of a batch  *)
(* belong to different groups.  An evaluation text is what the policy reads *)
(* out of it: its category, and whether it only says that evidence about a  *)
(* dependency could not be seen ("uninformed").                             *)
(***************************************************************************)
EXTENDS Naturals, FiniteSets

CONSTANTS
    Tasks,      \* the tasks QA may be asked about
    Findings    \* the tasks whose finding is in the source (SAST); the others' is in a package

ASSUME TasksAssumption == IsFiniteSet(Tasks) /\ Findings \subseteq Tasks

Strict == {"version_bump", "migration_code", "package_removal"}
HardTests == {"initial_code", "migration_code", "mitigation_code", "package_removal", "code_removal"}
Semantic == {"initial_code", "mitigation_code", "code_removal"}
Policies == Strict \cup HardTests

----------------------------------------------------------------------------
(* What the evaluator answers. *)

Attributions == [verdict : {"none", "responsible", "exonerated", "inconclusive"}, blames : SUBSET Tasks]
Kinds == {"pass", "security", "uninformed", "breaking", "outage", "peer", "contract", "omitted"}
Answers == [kind : Kinds, attr : Attributions, backed : BOOLEAN]

\* The category of an answer that does not pass.
CategoryOf(a) ==
    CASE a.kind \in {"breaking", "outage"} -> "BREAKING_CHANGE"
      [] a.kind = "peer" -> "PEER_CONFLICT"
      [] a.kind = "pass" -> "none"
      [] OTHER -> "SECURITY_FLAG"

\* A test attribution the policy may use: it names tasks of the batch, and the right side of t.
ValidAttribution(t, attr, active) ==
    /\ attr.verdict # "none" /\ attr.blames \subseteq active
    /\ \/ attr.verdict = "inconclusive"
       \/ attr.verdict = "responsible" /\ t \in attr.blames
       \/ attr.verdict = "exonerated" /\ attr.blames # {} /\ t \notin attr.blames
Exonerated(t, a, active) ==
    \/ a.kind = "outage"
    \/ a.attr.verdict = "exonerated" /\ ValidAttribution(t, a.attr, active)

\* A suite that failed after the only task's attempt is that task's failure, whatever was answered.
SingletonBlame(t, a, g, active) ==
    IF active = {t} /\ g.tests = "failed" /\ a.kind # "contract"
    THEN [a EXCEPT !.attr = [verdict |-> "responsible", blames |-> {t}]]
    ELSE a

----------------------------------------------------------------------------
(* The deterministic gates of a task. *)

NoEvidence == [complete |-> FALSE, covered |-> FALSE, skipped |-> FALSE, remaining |-> FALSE]

\* r: what the execution of the checks left behind for QA to judge.
HasEvidence(t, r) == t \in r.known
Complete(t, r) ==
    IF HasEvidence(t, r) THEN (IF r.by[t].complete THEN "yes" ELSE "no")
    ELSE IF r.evidence # "none" THEN "no" ELSE "none"
\* Complete evidence that a task's target is not in the workspace at all.
Absent(t, r) ==
    /\ t \notin Findings /\ t \in r.skipped /\ t \notin r.failed
    /\ HasEvidence(t, r) /\ r.by[t].complete /\ r.by[t].covered /\ r.by[t].skipped
\* A scan that was not run is judged by its result, if it has one.
ScannerStatus(t, p, r) ==
    IF Absent(t, r) \/ (r.scanSkipped /\ p = "package_removal") THEN "success"
    ELSE CASE r.scan = "none" -> "not_run" [] r.scan = "ok" -> "success" [] OTHER -> "unusable"
Remaining(t, r) ==
    IF HasEvidence(t, r) /\ ~Absent(t, r) THEN r.by[t].remaining
    ELSE (Absent(t, r) \/ r.evidence = "none") /\ t \in r.remaining
Cleared(t, p, r) ==
    IF ~HasEvidence(t, r) /\ r.evidence = "complete" THEN "no"
    ELSE IF Complete(t, r) = "no" THEN "unknown"
    ELSE IF ScannerStatus(t, p, r) = "success" /\ ~Remaining(t, r) THEN "yes" ELSE "no"

Gates(t, p, r) ==
    [install |-> r.install, scanner |-> ScannerStatus(t, p, r), remaining |-> Remaining(t, r),
     cleared |-> Cleared(t, p, r), complete |-> Complete(t, r), absent |-> Absent(t, r),
     tests |-> r.tests, dep |-> r.dep[t]]

----------------------------------------------------------------------------
(* The verdict: _apply_policy_decision. *)

Passed == [passed |-> TRUE, category |-> "none", inconclusive |-> FALSE, contract |-> FALSE]
Failed(category) == [Passed EXCEPT !.passed = FALSE, !.category = category]
Inconclusive == [Failed("SECURITY_FLAG") EXCEPT !.inconclusive = TRUE]
ContractError == [Failed("SECURITY_FLAG") EXCEPT !.contract = TRUE]
Categories == {"SECURITY_FLAG", "PEER_CONFLICT", "BREAKING_CHANGE"}
Evaluations == [passed : BOOLEAN, category : Categories \cup {"none"},
                inconclusive : BOOLEAN, contract : BOOLEAN]
\* A verdict that costs the task a remediation retry.
Charges(e) == ~e.passed /\ ~e.inconclusive /\ ~e.contract

\* A target that is gone passes without its scan, unless its tests are against it.
AbsentPass(t, p, a, g, active) ==
    /\ g.absent /\ g.install = "ok" /\ g.scanner = "success" /\ g.cleared = "yes" /\ ~g.remaining
    /\ \/ g.tests = "passed"
       \/ p = "version_bump" /\ g.tests = "failed" /\ Exonerated(t, a, active)
       \/ p \notin HardTests \cup {"version_bump"}

\* An answer that fails the task and is not set aside as irrelevant to its policy.
Relevant(t, p, a, g, active) ==
    /\ a.kind # "pass"
    /\ IF p = "version_bump"
       THEN CASE CategoryOf(a) = "BREAKING_CHANGE" ->
                     /\ g.tests = "failed"
                     /\ a.kind # "outage" /\ ~ValidAttribution(t, a.attr, active)
              [] OTHER -> a.kind # "uninformed"
       ELSE ~(p \in {"package_removal", "code_removal"} /\ a.kind = "uninformed")

\* Mutant: the scanner's word on the target is not asked for.
FailuresUnscanned(t, p, a, g, active) ==
    {c \in Categories :
        \/ Relevant(t, p, a, g, active) /\ c = CategoryOf(a)
        \/ g.install = "peer" /\ c = "PEER_CONFLICT"
        \/ g.install \in {"engine", "failed"} /\ c = "SECURITY_FLAG"
        \/ p \in HardTests /\ g.tests # "passed" /\ c = "BREAKING_CHANGE"
        \/ p \in Semantic /\ ~g.absent /\ ~a.backed /\ c = "SECURITY_FLAG"}
\* The categories of everything that speaks against the task.
Failures(t, p, a, g, active) ==
    {c \in Categories :
        \/ Relevant(t, p, a, g, active) /\ c = CategoryOf(a)
        \/ g.install = "peer" /\ c = "PEER_CONFLICT"
        \/ g.install \in {"engine", "failed"} /\ c = "SECURITY_FLAG"
        \/ p \in Strict /\ (g.scanner # "success" \/ g.remaining) /\ c = "SECURITY_FLAG"
        \/ p = "version_bump" /\ ~g.absent /\ g.dep = "mismatch" /\ c = "SECURITY_FLAG"
        \/ p \in HardTests /\ g.tests # "passed" /\ c = "BREAKING_CHANGE"
        \/ /\ p = "version_bump" /\ g.tests # "passed" /\ c = "BREAKING_CHANGE"
           /\ ~(a.kind = "outage" \/ (g.tests = "failed" /\ Exonerated(t, a, active)))
        \/ p \in Semantic /\ ~g.absent /\ ~a.backed /\ c = "SECURITY_FLAG"}

\* Evidence the policy needs and QA could not get.
Unproven(p, g) ==
    \/ p = "version_bump" /\ ~g.absent /\ g.dep \in {"none", "inconclusive"}
    \/ p \in Strict /\ g.complete = "no"

Decide(t, p, answer, g, active) ==
    LET a == SingletonBlame(t, answer, g, active)
        bad == Failures(t, p, a, g, active)
    IN  CASE a.kind \in {"contract", "omitted"} -> ContractError
          [] a.kind \notin {"contract", "omitted"} /\ AbsentPass(t, p, a, g, active) -> Passed
          [] OTHER ->
             CASE g.install \in {"peer", "engine"} -> Failed("PEER_CONFLICT")
               [] g.install \notin {"peer", "engine"} /\ bad = {} ->
                      IF Unproven(p, g) THEN Inconclusive ELSE Passed
               [] OTHER ->
                      Failed(IF "SECURITY_FLAG" \in bad THEN "SECURITY_FLAG"
                             ELSE IF "PEER_CONFLICT" \in bad THEN "PEER_CONFLICT"
                             ELSE "BREAKING_CHANGE")
=============================================================================
