------------------------------ MODULE QaPrefix ------------------------------
(***************************************************************************)
(* The workspace checkpoints of accepted work: what QA retains when a      *)
(* whole batch passes (graph_wrappers.py), and what a replan trusts of it  *)
(* (_last_qa_passed_prefix_provenance in portfolio_certifier.py) before it *)
(* restores the shared workspace and certifies the next plan on it.        *)
(*                                                                         *)
(* A workspace is the version each task's package has in it, 0 the         *)
(* repository's; the graph digest of a workspace and the snapshot taken    *)
(* with it are the workspace itself.  How a batch is worked on and rolled  *)
(* back is WorkspaceTransactions'; here it passes with all its changes in  *)
(* the workspace, or leaves none.                                          *)
(***************************************************************************)
EXTENDS Naturals, Sequences, FiniteSets

CONSTANTS Tasks,        \* the update tasks of the run
          Versions,     \* what a worker may install; 1 is what every plan assigns
          MaxAttempts,  \* bound: attempts of the run
          MaxPlans,     \* bound: portfolio plans of the run
          MaxMisses,    \* bound: snapshots that cannot be taken
          MaxReopens    \* bound: reopenings of one task

\* Assumed of the constants where the module is instantiated.
PrefixAssumption ==
  /\ IsFiniteSet(Tasks) /\ 1 \in Versions /\ Versions \subseteq Nat \ {0}
  /\ {MaxAttempts, MaxPlans, MaxMisses, MaxReopens} \subseteq Nat

VARIABLES
  phase,     \* "run", "replan" when work was reopened, "stopped" uncertified
  plan,      \* portfolio_plan: its id, its batches in order, what it was certified
             \* on, and the prefix its certificate inherits
  status,    \* status of each task
  attempt,   \* current_attempt_id: the open or accepted attempt, 0 without one
  results,   \* qa_results_by_attempt with the snapshot of each attempt
  prefix,    \* qa_passed_workspace_prefix
  live,      \* the shared workspace
  misses,    \* snapshots that could not be taken
  reopened   \* history: how often each task was reopened

vars == <<phase, plan, status, attempt, results, prefix, live, misses, reopened>>

Base == [t \in Tasks |-> 0]
None == [plan |-> 0, tasks |-> {}, attempts |-> <<>>, graph |-> Base, kept |-> FALSE]
Unknown == Base  \* workspace_graph_digest of a result without a snapshot

\* The batches of a plan: the tasks it still has to work on, in one batch or two.
Plans(open) ==
  {<<open>>} \cup {<<b, open \ b>> : b \in (SUBSET open) \ {{}, open}}

Init ==
  /\ phase = "run"
  /\ \E bs \in Plans(Tasks) : plan = [id |-> 1, batches |-> bs, base |-> Base, inherited |-> None]
  /\ status = [t \in Tasks |-> "PENDING"] /\ attempt = [t \in Tasks |-> 0]
  /\ results = <<>> /\ prefix = None /\ live = Base /\ misses = 0
  /\ reopened = [t \in Tasks |-> 0]

Settled(b) == \A t \in b : status[t] # "PENDING"
IsHead(i) ==
  /\ i \in DOMAIN plan.batches /\ ~ Settled(plan.batches[i])
  /\ \A j \in 1 .. i - 1 : Settled(plan.batches[j])

Passed == {t \in Tasks : status[t] = "QA_PASSED"}

\* _qa_prefix_evidence_errors: every task of the prefix still stands on the attempt
\* it was accepted with, or was reopened and has no newer one.
EvidenceStands(p, sts, atts) ==
  /\ p.kept /\ DOMAIN p.attempts = p.tasks
  /\ \A t \in p.tasks :
       /\ sts[t] \in {"PENDING", "QA_PASSED"}
       /\ sts[t] = "PENDING" => atts[t] = 0
       /\ atts[t] \in {0, p.attempts[t]}

-----------------------------------------------------------------------------
(* QA results                                                              *)

\* The attempts of a batch, numbered by task.
Numbered(b) ==
  CHOOSE f \in [b -> Len(results) + 1 .. Len(results) + Cardinality(b)] :
    \A s, t \in b : f[s] = f[t] => s = t

\* The checkpoint after a batch passed: the plan's last one with the batch added,
\* if that still stands and no accepted task is outside it.  The tasks of the batch
\* are optimistically fixed when QA looks.
Extended(b, f, w) ==
  LET ours == prefix # None /\ prefix.plan = plan.id
      asked == [t \in Tasks |-> IF t \in b THEN "OPTIMISTICALLY_FIXED" ELSE status[t]]
      stands == ours /\ EvidenceStands(prefix, asked, [t \in Tasks |-> IF t \in b THEN f[t] ELSE attempt[t]])
      old == IF stands THEN prefix ELSE None
      untracked == Passed \ (old.tasks \cup b)
  IN IF untracked # {} \/ (ours /\ ~ stands) THEN None
     ELSE [plan |-> plan.id, tasks |-> old.tasks \cup b,
           attempts |-> [t \in old.tasks \cup b |-> IF t \in b THEN f[t] ELSE old.attempts[t]],
           graph |-> w, kept |-> TRUE]

\* The results of the tasks of a batch, with the workspace they were judged in.
ResultsOf(i, passed, version, graph) ==
  LET b == plan.batches[i]
      f == Numbered(b)
  IN [k \in 1 .. Cardinality(b) |->
        [task |-> CHOOSE t \in b : f[t] = Len(results) + k, plan |-> plan.id, batch |-> i,
         passed |-> passed, version |-> version, graph |-> graph]]

\* QA passes a batch: its snapshot is retained, or cannot be, and then an older
\* checkpoint goes too, because it would omit the batch.
QaPasses(i) ==
  LET b == plan.batches[i]
      f == Numbered(b)
  IN /\ phase = "run" /\ IsHead(i) /\ b \cap Passed = {}
     /\ Len(results) + Cardinality(b) <= MaxAttempts
     /\ \E v \in Versions, kept \in BOOLEAN :
          LET w == [t \in Tasks |-> IF t \in b THEN v ELSE live[t]]
          IN /\ ~ kept => misses < MaxMisses
             /\ misses' = IF kept THEN misses ELSE misses + 1
             /\ live' = w
             /\ results' = results \o ResultsOf(i, TRUE, v, IF kept THEN w ELSE Unknown)
             /\ prefix' = IF kept THEN Extended(b, f, w) ELSE None
     /\ status' = [t \in Tasks |-> IF t \in b THEN "QA_PASSED" ELSE status[t]]
     /\ attempt' = [t \in Tasks |-> IF t \in b THEN f[t] ELSE attempt[t]]
     /\ UNCHANGED <<phase, plan, reopened>>

\* QA rejects a batch: it is rolled back, and retried or given up.
QaRejects(i) ==
  LET b == plan.batches[i]
  IN /\ phase = "run" /\ IsHead(i) /\ b \cap Passed = {}
     /\ Len(results) + Cardinality(b) <= MaxAttempts
     /\ results' = results \o ResultsOf(i, FALSE, 0, Unknown)
     /\ \/ UNCHANGED status
        \/ status' = [t \in Tasks |-> IF t \in b THEN "UNFIXABLE" ELSE status[t]]
     /\ UNCHANGED <<phase, plan, attempt, prefix, live, misses, reopened>>

\* Re-triage reopens an accepted task with the tasks its batch was accepted with;
\* their changes stay in the workspace.
Reopen(t) ==
  LET a == prefix.attempts[t]
      peers == IF t \notin DOMAIN prefix.attempts THEN {t}
               ELSE {s \in DOMAIN prefix.attempts :
                       /\ results[prefix.attempts[s]].batch = results[a].batch
                       /\ results[prefix.attempts[s]].plan = results[a].plan} \cap Passed
      open == peers \cup {t}
  IN /\ phase = "run" /\ t \in Passed /\ reopened[t] < MaxReopens
     /\ status' = [s \in Tasks |-> IF s \in open THEN "PENDING" ELSE status[s]]
     /\ attempt' = [s \in Tasks |-> IF s \in open THEN 0 ELSE attempt[s]]
     /\ reopened' = [s \in Tasks |-> IF s \in open THEN reopened[s] + 1 ELSE reopened[s]]
     /\ phase' = "replan"
     /\ UNCHANGED <<plan, results, prefix, live, misses>>

-----------------------------------------------------------------------------
(* Replanning                                                              *)

\* The one passed attempt of each task of a batch under this plan, when all of them
\* carry the same snapshot.
Accepted(t) == {k \in DOMAIN results :
                  /\ results[k].task = t /\ results[k].plan = plan.id
                  /\ results[k].passed /\ results[k].graph # Unknown}
HasCheckpoint(b) ==
  /\ \A t \in b : Cardinality(Accepted(t)) = 1
  /\ Cardinality({results[k].graph : k \in UNION {Accepted(t) : t \in b}}) = 1
AcceptedBy(b) == [t \in b |-> CHOOSE k \in Accepted(t) : TRUE]

\* What the resolver predicted of the workspace after the first k batches.
Predicted(k) ==
  [t \in Tasks |-> IF \E j \in 1 .. k : t \in plan.batches[j] THEN 1 ELSE plan.base[t]]

\* Mutant: what a certificate inherits is not looked at again.
InheritedTrusted == TRUE

\* The inherited prefix stands: with its evidence, or, without a snapshot, as long
\* as its tasks are accepted.
InheritedStands ==
  \/ plan.inherited = None
  \/ IF plan.inherited.attempts # <<>>
     THEN EvidenceStands(plan.inherited, status, attempt)
     ELSE plan.inherited.tasks \subseteq Passed /\ ~ plan.inherited.kept

\* The batches in order up to the first that is not accepted.
AcceptedBatches ==
  {k \in DOMAIN plan.batches : \A j \in 1 .. k : plan.batches[j] \subseteq Passed}

\* Without QA's own checkpoint the prefix is rebuilt from the batches of the plan.
Rebuilt ==
  LET n == Cardinality(AcceptedBatches)
      last == plan.batches[n]
      tasks == plan.inherited.tasks \cup UNION {plan.batches[j] : j \in 1 .. n}
      tracked == {t \in UNION {plan.batches[j] : j \in {k \in 1 .. n : HasCheckpoint(plan.batches[k])}} : TRUE}
  IN IF ~ InheritedStands THEN None
     ELSE IF n = 0 THEN plan.inherited
     ELSE IF HasCheckpoint(last)
     THEN [plan |-> plan.id, tasks |-> tasks,
           attempts |-> [t \in tracked \cup (DOMAIN plan.inherited.attempts) |->
                           IF t \in tracked THEN CHOOSE k \in Accepted(t) : TRUE
                           ELSE plan.inherited.attempts[t]],
           graph |-> results[AcceptedBy(last)[CHOOSE t \in last : TRUE]].graph, kept |-> TRUE]
     ELSE [plan |-> plan.id, tasks |-> tasks, attempts |-> <<>>, graph |-> Predicted(n),
           kept |-> FALSE]

\* _last_qa_passed_prefix_provenance: QA's latest checkpoint first.
Provenance ==
  IF prefix = None THEN Rebuilt
  ELSE IF prefix.plan = plan.id /\ EvidenceStands(prefix, status, attempt) THEN prefix
  ELSE None

\* What planning starts from: the snapshot of the prefix, put back.
Restored(p) == IF p.kept THEN p.graph ELSE live

\* The trusted prefix, bound to the next plan by its certificate.
Rebound(p, id) == IF p = None THEN None ELSE [p EXCEPT !.plan = id]

\* The next plan is certified on a workspace that is the repository's or exactly
\* the trusted prefix; otherwise the run goes to teardown.
Replan ==
  LET p == Provenance
      w == Restored(p)
      open == {t \in Tasks : status[t] = "PENDING"}
  IN /\ phase \in {"run", "replan"} /\ open # {}
     /\ plan.id < MaxPlans
     /\ live' = w
     /\ \/ /\ w = Base \/ (p # None /\ w = p.graph)
           /\ phase' = "run"
           /\ \E bs \in Plans(open) :
                plan' = [id |-> plan.id + 1, batches |-> bs, base |-> w,
                         inherited |-> Rebound(p, plan.id + 1)]
           /\ prefix' = plan'.inherited
        \/ /\ w # Base /\ (p = None \/ w # p.graph)
           /\ phase' = "stopped"
           /\ UNCHANGED <<plan, prefix>>
     /\ UNCHANGED <<status, attempt, results, misses, reopened>>

Next ==
  \/ \E i \in 1 .. 2 : QaPasses(i) \/ QaRejects(i)
  \/ \E t \in Tasks : Reopen(t)
  \/ Replan

Spec == Init /\ [][Next]_vars

-----------------------------------------------------------------------------
(* Properties                                                              *)

\* While every snapshot could be taken and no task was reopened twice, a replan
\* leaves the accepted changes in the workspace as they are.
AcceptedSurvivesReplan ==
  [][ plan'.id # plan.id /\ misses = 0 /\ (\A t \in Tasks : reopened[t] < 2) =>
        \A t \in Passed : live'[t] = live[t] ]_vars

\* Does not hold (README, Known deviations): the same as AcceptedSurvivesReplan, whatever was retained and reopened.
AcceptedAlwaysSurvives ==
  [][ plan'.id # plan.id => \A t \in Passed : live'[t] = live[t] ]_vars
=============================================================================
