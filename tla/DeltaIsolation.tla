--------------------------- MODULE DeltaIsolation ---------------------------
(***************************************************************************)
(* The delta canaries of a package cluster whose candidate failed its      *)
(* tests with no task to blame (graph_wrappers.py, portfolio_              *)
(* orchestrator.py): the QA wrapper archives the candidate workspace,      *)
(* installs one suspect's update at a time on the workspace of before the  *)
(* dispatch, runs the tests, puts the candidate back each time, and only   *)
(* then lets QA finalization keep or roll back the candidate.              *)
(*                                                                         *)
(* The steps that touch the volume are steps of the model, because each    *)
(* may fail or time out, and a command that times out takes the container  *)
(* of the sandbox with it.  A suspect's update is its task.                *)
(***************************************************************************)
EXTENDS Naturals, FiniteSets, Sequences, SequencesExt

CONSTANTS Cluster,    \* the tasks of the cluster, numbered in the order of their ids
          Clues,      \* what the logs and versions may say of an update
          Budget,     \* max_delta_canary_probes
          MaxFaults   \* bound: steps on the volume that fail

\* named: the package is named in the errors; change: what the version does.
\* Assumed of the constants where the module is instantiated.
DeltaAssumption ==
  /\ IsFiniteSet(Cluster) /\ Cluster \subseteq Nat /\ Cardinality(Cluster) > 1
  /\ Clues \subseteq [named : BOOLEAN, change : {"major", "minor", "patch", "unknown"}]
  /\ Budget \in Nat \ {0} /\ MaxFaults \in Nat

VARIABLES
  pc,        \* the step of the QA wrapper to run next
  mode,      \* "bounded" as QA asks, or "exhaustive", the default of the function
  round,     \* how often QA has judged these attempts
  evals,     \* qa_evaluations of the tasks
  live,      \* what the workspace volume holds: candidate, base, canary or empty
  alive,     \* the sandbox still has its container
  archive,   \* the archive of the candidate exists
  suspects,  \* ranked_suspect_task_ids, of the bounded mode
  segment,   \* exhaustive: the subset being halved
  subset,    \* the subset under test
  outcome,   \* what its probe has found so far
  probes,    \* tested_subsets with their outcomes
  restored,  \* candidate_restored
  broken,    \* the removal of the archive or the runner itself failed
  record,    \* delta_isolation_by_cluster: the result for these attempts
  spent,     \* history: probes of all runs for these attempts
  retained,  \* candidate_workspace_retained
  judged,    \* history: what the volume held when QA judged it last
  faults     \* faults so far

vars == <<pc, mode, round, evals, live, alive, archive, suspects, segment, subset,
          outcome, probes, restored, broken, record, spent, retained, judged, faults>>

Verdicts == {"pass", "rejected", "contract", "inconclusive", "peer"}
NoRecord == [status |-> "NONE", blamed |-> {}, restored |-> TRUE]
\* The tasks in some order.
Orders == {s \in [1 .. Cardinality(Cluster) -> Cluster] : \A i, j \in DOMAIN s : s[i] = s[j] => i = j}
Ordered == CHOOSE s \in Orders : \A i, j \in DOMAIN s : i < j => s[i] < s[j]

-----------------------------------------------------------------------------
(* When canaries run, and in which order                                   *)

\* Suspicion of an update: its name in the errors outweighs what its version does.
Score(c) ==
  (IF c.named THEN 10 ELSE 0)
    + (CASE c.change = "major" -> 3 [] c.change = "minor" -> 1 [] OTHER -> 0)

Before(clue, s, t) ==
  \/ Score(clue[s]) > Score(clue[t])
  \/ Score(clue[s]) = Score(clue[t]) /\ s < t
Ranked(clue) == CHOOSE s \in Orders : \A i, j \in DOMAIN s : i < j => Before(clue, s[i], s[j])

\* The tests failed and no attribution says of which task.  "peer" stands for the
\* failures that leave nothing to isolate (a peer conflict, an install or a scanner
\* that failed), "inconclusive" for tests that are explained.
Ambiguous ==
  /\ \A t \in Cluster : evals[t] # "peer"
  /\ \E t \in Cluster : evals[t] \in {"rejected", "contract"}

\* An atomic cluster: QA asks again when no failure is a real one.
Rejects == \E t \in Cluster : evals[t] \in {"rejected", "peer"}
Reruns == ~ Rejects /\ \E t \in Cluster : evals[t] \in {"contract", "inconclusive"}

Init ==
  /\ pc = "judge" /\ mode \in {"bounded", "exhaustive"} /\ round = 0
  /\ evals = [t \in Cluster |-> "pass"]
  /\ live = "candidate" /\ alive = TRUE /\ archive = FALSE
  /\ suspects = <<>> /\ segment = Ordered /\ subset = <<>> /\ outcome = "NONE" /\ probes = <<>>
  /\ restored = TRUE /\ broken = FALSE /\ record = NoRecord
  /\ spent = 0 /\ retained = TRUE /\ judged = "candidate" /\ faults = 0

\* QA judges the volume as it stands.  A task that is not rejected while the tests
\* fail was exonerated, or its evidence could not be had.
Judge ==
  /\ pc = "judge"
  /\ \E e \in [Cluster -> Verdicts] : evals' = e
  /\ round' = round + 1
  /\ judged' = live
  /\ pc' = "isolate"
  /\ UNCHANGED <<mode, live, alive, archive, suspects, segment, subset, outcome, probes,
                 restored, broken, record, spent, retained, faults>>

\* What the errors and the versions may say of each update.
Hints == [Cluster -> Clues]

\* Canaries run for an ambiguous failure that has no record of these attempts.
Isolate ==
  /\ pc = "isolate"
  /\ IF Ambiguous /\ record = NoRecord
     THEN /\ pc' = "archive"
          /\ \E clue \in Hints :
               suspects' = IF mode = "bounded" THEN Ranked(clue) ELSE <<>>
          /\ probes' = <<>>
     ELSE pc' = "finalize" /\ UNCHANGED <<suspects, probes>>
  /\ alive' = TRUE
  /\ UNCHANGED <<mode, round, evals, live, archive, segment, subset, outcome, restored,
                 broken, record, retained, spent, judged, faults>>

-----------------------------------------------------------------------------
(* The canaries                                                            *)

MayFail == faults < MaxFaults

\* A restore that fails before it clears the volume changes nothing; one that
\* fails while it unpacks leaves nothing.
RestoreFails ==
  IF alive THEN MayFail /\ faults' = faults + 1 /\ live' \in {live, "empty"}
           ELSE UNCHANGED <<live, faults>>

\* The candidate is archived before anything else is touched.
ArchiveCandidate ==
  /\ pc = "archive"
  /\ \/ /\ archive' = TRUE /\ pc' = "choose" /\ UNCHANGED <<record, faults>>
     \/ /\ MayFail /\ faults' = faults + 1
        /\ record' = [NoRecord EXCEPT !.status = "INCONCLUSIVE"]
        /\ pc' = "finalize" /\ UNCHANGED archive
  /\ UNCHANGED <<mode, round, evals, live, alive, suspects, segment, subset, outcome, probes,
                 restored, broken, retained, spent, judged>>

Outcome(s) == LET i == CHOOSE j \in DOMAIN probes : probes[j].subset = s IN probes[i].outcome
Probed(s) == \E j \in DOMAIN probes : probes[j].subset = s
Failed == {j \in DOMAIN probes : probes[j].outcome = "FAIL"}
Left(s) == SubSeq(s, 1, Len(s) \div 2)
Right(s) == SubSeq(s, (Len(s) \div 2) + 1, Len(s))

Probe(s) ==
  /\ subset' = s /\ outcome' = "INCONCLUSIVE" /\ restored' = FALSE /\ pc' = "base"
  /\ UNCHANGED <<record, segment>>

Conclude(status, blamed) ==
  /\ record' = [status |-> status, blamed |-> blamed, restored |-> TRUE]
  /\ pc' = "final"
  /\ UNCHANGED <<subset, outcome, restored, segment>>

\* Bounded: singletons in the order of suspicion until one fails or the budget ends.
ChooseSuspect ==
  LET budget == IF Budget < Len(suspects) THEN Budget ELSE Len(suspects)
  IN IF Failed # {} THEN Conclude("IDENTIFIED", ToSet(probes[Len(probes)].subset))
     ELSE IF Len(probes) = budget THEN Conclude("INCONCLUSIVE", {})
     ELSE Probe(<<suspects[Len(probes) + 1]>>)

\* Exhaustive: the whole cluster, then halves of the half that failed alone.
ChooseHalf ==
  LET l == Left(segment)
      r == Right(segment)
  IN IF ~ Probed(Ordered) THEN Probe(Ordered)
     ELSE IF Outcome(Ordered) # "FAIL" THEN Conclude("INCONCLUSIVE", {})
     ELSE IF Len(segment) = 1 THEN Conclude("IDENTIFIED", ToSet(segment))
     ELSE IF ~ Probed(l) THEN Probe(l)
     ELSE IF ~ Probed(r) THEN Probe(r)
     ELSE IF "INCONCLUSIVE" \in {Outcome(l), Outcome(r)} THEN Conclude("INCONCLUSIVE", {})
     ELSE IF Outcome(l) = Outcome(r)
          THEN Conclude(IF Outcome(l) = "PASS" THEN "INTERACTION_FAILURE" ELSE "AMBIGUOUS", {})
     ELSE /\ segment' = IF Outcome(l) = "FAIL" THEN l ELSE r
          /\ UNCHANGED <<pc, record, subset, outcome, restored>>

Choose ==
  /\ pc = "choose"
  /\ IF mode = "bounded" THEN ChooseSuspect ELSE ChooseHalf
  /\ UNCHANGED <<mode, round, evals, live, alive, archive, suspects, probes, broken, retained,
                 spent, judged, faults>>

\* A probe starts from the workspace of before the dispatch.
RestoreBase ==
  /\ pc = "base"
  /\ \/ alive /\ live' = "base" /\ pc' = "apply" /\ UNCHANGED faults
     \/ RestoreFails /\ pc' = "candidate"
  /\ UNCHANGED <<mode, round, evals, alive, archive, suspects, segment, subset, outcome, probes,
                 restored, broken, record, retained, spent, judged>>

\* The updates of the subset, and only they; an action that fails undoes itself.
ApplySubset ==
  /\ pc = "apply"
  /\ \/ live' = "canary" /\ pc' = "test"
     \/ pc' = "candidate" /\ UNCHANGED live
  /\ UNCHANGED <<mode, round, evals, alive, archive, suspects, segment, subset, outcome, probes,
                 restored, broken, record, retained, spent, judged, faults>>

\* Install, then the tests; tests that time out count as failed, and their
\* container is gone.
TestSubset ==
  /\ pc = "test"
  /\ \/ outcome' \in {"PASS", "FAIL", "INCONCLUSIVE"} /\ UNCHANGED <<alive, faults>>
     \/ MayFail /\ faults' = faults + 1 /\ alive' = FALSE /\ outcome' \in {"FAIL", "INCONCLUSIVE"}
  /\ pc' = "candidate"
  /\ UNCHANGED <<mode, round, evals, live, archive, suspects, segment, subset, probes, restored,
                 broken, record, retained, spent, judged>>

\* finally: the candidate comes back, or the probe has shown nothing.
PutBack ==
  /\ pc = "candidate"
  /\ \/ /\ alive /\ live' = "candidate" /\ restored' = TRUE /\ UNCHANGED faults
        /\ probes' = Append(probes, [subset |-> subset, outcome |-> outcome])
     \/ /\ RestoreFails /\ restored' = FALSE
        /\ probes' = Append(probes, [subset |-> subset, outcome |-> "INCONCLUSIVE"])
  /\ spent' = spent + 1
  /\ pc' = "choose"
  /\ UNCHANGED <<mode, round, evals, alive, archive, suspects, segment, subset, outcome, broken,
                 record, retained, judged>>

\* Once more at the end, then the archive goes; a runner that fails ends here too.
FinalRestore ==
  /\ pc = "final"
  /\ \/ /\ alive /\ live' = "candidate" /\ restored' = TRUE
        /\ \/ archive' = FALSE /\ UNCHANGED <<broken, faults>>
           \/ MayFail /\ faults' = faults + 1 /\ broken' = TRUE /\ UNCHANGED archive
     \/ RestoreFails /\ restored' = FALSE /\ UNCHANGED <<archive, broken>>
  /\ pc' = "report"
  /\ UNCHANGED <<mode, round, evals, alive, suspects, segment, subset, outcome, probes, record,
                 retained, spent, judged>>

\* Mutant: a blame is reported whatever became of the candidate.
ReportsRaw ==
  /\ pc = "report"
  /\ record' = [record EXCEPT !.restored = restored]
  /\ pc' = "finalize"
  /\ UNCHANGED <<mode, round, evals, live, alive, archive, suspects, segment, subset, outcome,
                 probes, restored, broken, retained, spent, judged, faults>>

\* A lost candidate or a failed cleanup leaves the isolation inconclusive.
ReportIsolation ==
  /\ pc = "report"
  /\ record' = IF restored /\ ~ broken THEN record
               ELSE [status |-> "INCONCLUSIVE", blamed |-> {}, restored |-> restored]
  /\ pc' = "finalize"
  /\ UNCHANGED <<mode, round, evals, live, alive, archive, suspects, segment, subset, outcome,
                 probes, restored, broken, retained, spent, judged, faults>>

-----------------------------------------------------------------------------
(* QA finalization                                                         *)

\* An inconclusive isolation with its candidate restored asks for QA again.
Marked ==
  IF record.status = "INCONCLUSIVE" /\ record.restored /\ Ambiguous
  THEN [t \in Cluster |-> IF evals[t] = "pass" THEN "pass" ELSE "inconclusive"]
  ELSE evals

\* A rejected cluster is rolled back to the workspace of before the dispatch; a
\* cluster QA will judge again, or that passed, keeps its candidate.  A record that
\* restored the candidate takes the mark of a retained candidate away.
Finalize ==
  /\ pc = "finalize"
  /\ evals' = Marked
  /\ LET rejects == \E t \in Cluster : Marked[t] \in {"rejected", "peer"}
     IN IF rejects
        THEN /\ \/ live' = "base" /\ UNCHANGED faults
                \/ MayFail /\ faults' = faults + 1 /\ live' \in {live, "empty"}
             /\ retained' = FALSE
        ELSE /\ retained' = ~ (Ambiguous /\ record.restored)
             /\ UNCHANGED <<live, faults>>
  /\ pc' = "decide"
  /\ UNCHANGED <<mode, round, alive, archive, suspects, segment, subset, outcome, probes, restored,
                 broken, record, spent, judged>>

\* The Supervisor sends the same attempts to QA once more while nothing is rejected.
RequeueQa ==
  /\ pc = "decide"
  /\ IF Reruns /\ round = 1 THEN pc' = "judge" ELSE pc' = "done"
  /\ UNCHANGED <<mode, round, evals, live, alive, archive, suspects, segment, subset, outcome,
                 probes, restored, broken, record, retained, spent, judged, faults>>

Next ==
  \/ Judge \/ Isolate
  \/ ArchiveCandidate \/ Choose \/ RestoreBase \/ ApplySubset \/ TestSubset \/ PutBack
  \/ FinalRestore \/ ReportIsolation
  \/ Finalize \/ RequeueQa

Spec == Init /\ [][Next]_vars

-----------------------------------------------------------------------------
(* Properties                                                              *)

\* A task is blamed only if its update alone, on the workspace of before the
\* dispatch, failed the tests, every update suspected more was tried first without
\* failing, and the candidate is back in the volume.
BlameIsReproduced ==
  (record.status = "IDENTIFIED" /\ pc = "finalize" /\ round = 1) =>
    /\ live = "candidate"
    /\ \E t \in Cluster :
         /\ record.blamed = {t} /\ Probed(<<t>>) /\ Outcome(<<t>>) = "FAIL"
         /\ mode = "bounded" =>
              LET n == Len(probes)
              IN /\ suspects[n] = t
                 /\ \A i \in 1 .. n - 1 :
                      probes[i] # [subset |-> <<suspects[i]>>, outcome |-> "FAIL"]

\* What a record says of the candidate is true: a record that calls it restored
\* leaves the candidate in the volume for finalization.
RestoredIsTrue == (pc = "finalize" /\ round = 1 /\ record.restored) => live = "candidate"

\* The canaries of one set of attempts stay within their budget, however often QA
\* judges them: one run per suspect, and no more than Budget of them.
WithinBudget ==
  /\ mode = "bounded" => spent <= Budget
  /\ \A i, j \in DOMAIN probes : probes[i].subset = probes[j].subset => i = j

\* Does not hold (README, Known deviations): a rerun of QA judges the worker's candidate, not what a canary left.
RerunJudgesCandidate == round > 1 => judged = "candidate"
=============================================================================
