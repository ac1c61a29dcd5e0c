------------------------ MODULE WorkspaceTransactions ------------------------
(***************************************************************************)
(* The transaction protocol by which the dispatch wrappers of              *)
(* remediation_engine.orchestration.graph_wrappers keep one shared Docker  *)
(* workspace consistent while the Supervisor sends tasks to the workers    *)
(* and to QA.                                                              *)
(*                                                                         *)
(* The workspace is cumulative: every worker edits the same volume, and a  *)
(* candidate that QA has neither accepted nor rolled back is live in it.   *)
(* The wrappers archive the volume before a worker runs, and a "rollback   *)
(* anchor" maps a task to the archive of the workspace that precedes the   *)
(* task's first candidate still unaccepted.                                *)
(*                                                                         *)
(* Abstractions.  A workspace (and the content of an archive) is the set   *)
(* of worker dispatches whose edits it contains.  An archive is named by   *)
(* the number of the worker dispatch it was taken for, which stands for    *)
(* "attempt-<id>" and for the batch id of an atomic cluster alike: the     *)
(* Supervisor gives every worker dispatch fresh attempt ids and an         *)
(* increasing state_revision.  The Supervisor is reduced to what it may    *)
(* dispatch next; its own bookkeeping belongs to TaskLifecycle.  A QA run  *)
(* that ends with status "qa_failed" evaluates every task as a contract    *)
(* error, which the wrappers treat as they treat inconclusive evidence.    *)
(***************************************************************************)
EXTENDS Naturals, Sequences

CONSTANTS
  Tasks,             \* every task the queue will ever hold
  NoTask,            \* the absent parent of a task
  Workarounds,       \* the tasks of strategy CODE_WORKAROUND
  Parent,            \* parent_task_id: the update a workaround was spawned from
  Batches,           \* the target sets the Supervisor dispatches together
  MaxDispatches,     \* bound on the number of worker dispatches
  MaxFaults,         \* bound on the number of failing archive operations
  MaxRaises,         \* bound (0 or 1) on workers and QA raising an exception
  DeltaIsolation,    \* whether delta canaries may end INCONCLUSIVE
  RecheckMayReject   \* whether a QA rerun may reject what was inconclusive

ASSUME ParentAssumption ==
  /\ NoTask \notin Tasks
  /\ Workarounds \subseteq Tasks
  /\ Parent \in [Tasks -> Tasks \cup {NoTask}]
  /\ \A t \in Tasks : Parent[t] # NoTask => /\ t \in Workarounds
                                            /\ Parent[t] \notin Workarounds

\* A workaround is dispatched alone; only updates form atomic clusters.
ASSUME BatchAssumption ==
  /\ Batches \subseteq SUBSET Tasks
  /\ \A T \in Batches : /\ T # {}
                        /\ T \cap Workarounds # {} => \E t \in Workarounds : T = {t}

ASSUME BoundAssumption ==
  /\ MaxDispatches \in Nat
  /\ MaxFaults \in Nat
  /\ MaxRaises \in Nat
  /\ DeltaIsolation \in BOOLEAN
  /\ RecheckMayReject \in BOOLEAN

VARIABLES
  status,    \* task_queue[t].status; "closed" is UNFIXABLE, INCONCLUSIVE or PIVOTED
  attempts,  \* attempt_snapshots_by_id: the batch of each worker dispatch
  rechecked, \* qa_rechecks_by_attempt of the last dispatch
  phase,     \* the node that holds control, and where in its wrapper it is
  script,    \* the archive operations the wrapper still has to perform
  blocked,   \* workspace_cleanup_errors of the dispatch being prepared
  anchors,   \* workspace_rollback_anchors_by_task
  archives,  \* the archives in the volume, with the workspace each holds
  live,      \* the live workspace
  accepted,  \* history: the live workspace at the last QA acceptance
  faults,    \* archive operations that have failed
  raises     \* nodes that have raised

vars == <<status, attempts, rechecked, phase, script, blocked, anchors, archives,
          live, accepted, faults, raises>>

Dispatches == 1 .. MaxDispatches

Statuses == {"unspawned", "workable", "fixed", "passed", "closed"}

Phases == {"supervisor", "prepare_worker", "worker", "prepare_qa", "qa", "settle",
           "raising", "raised", "teardown"}

\* "restore" keeps the archive, "discard" deletes it, and "settle" deletes it
\* once the workspace is restored from it.  Operations run by turn.
Ops == [op : {"restore", "settle", "discard"}, id : Dispatches, turn : Nat]

-----------------------------------------------------------------------------
(* Helpers of the wrappers. *)

Current == Len(attempts)

Targets == attempts[Current]

IsWorkaround(T) == T \subseteq Workarounds

IsCluster(T) == \E t, u \in T : t # u

Parents(T) == {Parent[t] : t \in T} \ {NoTask}

\* The ancestry is one level deep here: a workaround's parent is an update.
Scope(T) == T \cup Parents(T)

Without(f, S) == [x \in DOMAIN f \ S |-> f[x]]

AnchorIds(T) == {anchors[t] : t \in T \cap DOMAIN anchors}

Owners(id) == {t \in DOMAIN anchors : anchors[t] = id}

UnrelatedAnchorIds(T) ==
  {id \in AnchorIds(Tasks) : Owners(id) \cap Scope(T) = {}}

\* A workaround validates the candidate its parent has left in the workspace.
PreservesCandidate(T) ==
  /\ IsWorkaround(T)
  /\ \A t \in T : Parent[t] \in DOMAIN anchors

Apply(op, turn, ids) == {[op |-> op, id |-> id, turn |-> turn] : id \in ids}

\* Mutant: no wrapper isolates the dispatch from other tasks' candidates.
PrepareNothing(T) == {}

\* Unrelated baselines are restored newest first, so that the oldest one is
\* what the workspace ends up with.
PrepareScript(T) ==
  IF PreservesCandidate(T) THEN {}
  ELSE {[op |-> "settle", id |-> id, turn |-> MaxDispatches - id] :
          id \in UnrelatedAnchorIds(T)}

RestoreRetained(T) ==
  Apply("restore", 1, AnchorIds(T)) \cup Apply("restore", 2, AnchorIds(Parents(T)))

\* A failed update, or a failed worker: back to the immutable baseline if the
\* task (or its parent) has one, else to the attempt's own archive.
RestoreFailedUpdate(T) ==
  IF AnchorIds(Scope(T)) # {}
  THEN RestoreRetained(T) \cup Apply("discard", 3, {Current})
  ELSE Apply("settle", 1, {Current})

\* An intermediate workaround failure rolls back the child's edit only.
RestoreFailedWorkaround == Apply("settle", 1, {Current})

-----------------------------------------------------------------------------
Init ==
  /\ status = [t \in Tasks |-> IF Parent[t] = NoTask THEN "workable" ELSE "unspawned"]
  /\ attempts = <<>>
  /\ rechecked = FALSE
  /\ phase = "supervisor"
  /\ script = {}
  /\ blocked = FALSE
  /\ anchors = [t \in {} |-> 0]
  /\ archives = [id \in {} |-> {}]
  /\ live = {}
  /\ accepted = {}
  /\ faults = 0
  /\ raises = 0

-----------------------------------------------------------------------------
(* The Supervisor, as far as the workspace can tell. *)

Attempted(t) == \E n \in 1 .. Len(attempts) : t \in attempts[n]

\* A cluster comes from a committed plan, which is certified only on a workspace with
\* the manifests of the repository or of the QA-passed prefix (a replan puts that back
\* first): no retained candidate of a member is live then, and members of a cluster are
\* dispatched together.  A candidate is assumed to change a manifest; the Supervisor
\* itself (_peer_conflict_escalation) makes no such check (README, Limits).
JoinsClusterCleanly(T) ==
  IsCluster(T) =>
    \A n \in live \ accepted : attempts[n] \cap T = {}

\* Mutant: the worker wrappers do not prepare the workspace, the QA wrapper does.
DispatchUnprepared(T) ==
  /\ phase = "supervisor"
  /\ Current < MaxDispatches
  /\ \A t \in T : status[t] = "workable"
  /\ \A t \in Tasks : status[t] # "fixed"
  /\ attempts' = Append(attempts, T)
  /\ rechecked' = FALSE
  /\ phase' = "prepare_worker"
  /\ UNCHANGED <<status, script, blocked, anchors, archives, live, accepted, faults,
                 raises>>

\* Commit attempt snapshots for a batch and route it to its worker.  Every
\* optimistically fixed task is routed to QA before new work is dispatched.
DispatchWorker(T) ==
  /\ phase = "supervisor"
  /\ Current < MaxDispatches
  /\ \A t \in T : status[t] = "workable"
  /\ \A t \in Tasks : status[t] # "fixed"
  /\ JoinsClusterCleanly(T)
  /\ attempts' = Append(attempts, T)
  /\ rechecked' = FALSE
  /\ phase' = "prepare_worker"
  /\ script' = PrepareScript(T)
  /\ UNCHANGED <<status, blocked, anchors, archives, live, accepted, faults, raises>>

\* Mutant: QA gets an attempt of its own.
DispatchQaAsAttempt ==
  /\ phase = "supervisor"
  /\ Current > 0
  /\ \A t \in Targets : status[t] = "fixed"
  /\ attempts' = Append(attempts, Targets)
  /\ phase' = "prepare_qa"
  /\ script' = PrepareScript(Targets)
  /\ UNCHANGED <<status, rechecked, blocked, anchors, archives, live, accepted, faults,
                 raises>>

\* QA creates no attempt: it evaluates the last worker dispatch.
DispatchQa ==
  /\ phase = "supervisor"
  /\ Current > 0
  /\ \A t \in Targets : status[t] = "fixed"
  /\ phase' = "prepare_qa"
  /\ script' = PrepareScript(Targets)
  /\ UNCHANGED <<status, attempts, rechecked, blocked, anchors, archives, live,
                 accepted, faults, raises>>

\* An exhausted update spawns its workaround child and becomes terminal.
Pivot(t) ==
  /\ phase = "supervisor"
  /\ status[t] = "unspawned"
  /\ status[Parent[t]] = "workable"
  /\ Attempted(Parent[t])
  /\ status' = [status EXCEPT ![Parent[t]] = "closed", ![t] = "workable"]
  /\ UNCHANGED <<attempts, rechecked, phase, script, blocked, anchors, archives,
                 live, accepted, faults, raises>>

\* A task whose retry budget is spent is terminalized as UNFIXABLE.
GiveUp(t) ==
  /\ phase = "supervisor"
  /\ status[t] = "workable"
  /\ Attempted(t)
  /\ status' = [status EXCEPT ![t] = "closed"]
  /\ UNCHANGED <<attempts, rechecked, phase, script, blocked, anchors, archives,
                 live, accepted, faults, raises>>

\* Reconciliation drops the anchors, without restoring from them, and teardown
\* deletes every archive.
Teardown ==
  /\ phase = "supervisor"
  /\ \A t \in Tasks : status[t] # "fixed"
  /\ phase' = "teardown"
  /\ anchors' = [t \in {} |-> 0]
  /\ archives' = [id \in {} |-> {}]
  /\ UNCHANGED <<status, attempts, rechecked, script, blocked, live, accepted,
                 faults, raises>>

-----------------------------------------------------------------------------
(* Archive operations, one sandbox call each. *)

Preparing == phase \in {"prepare_worker", "prepare_qa"}

IsNext(o) == o \in script /\ \A p \in script : o.turn <= p.turn

\* The anchor of a baseline that was restored for an unrelated dispatch is
\* dropped; a wrapper that finishes its own attempt leaves the map to QA.
Restored(o) ==
  /\ live' = archives[o.id]
  /\ IF o.op = "settle"
     THEN /\ archives' = Without(archives, {o.id})
          /\ anchors' = IF Preparing THEN Without(anchors, Owners(o.id)) ELSE anchors
     ELSE UNCHANGED <<archives, anchors>>
  /\ UNCHANGED <<blocked, faults>>

\* Mutant: a baseline whose restore failed is forgotten.
RestoreFailsAndForgets(o) ==
  /\ \/ o.id \notin DOMAIN archives /\ UNCHANGED <<live, faults>>
     \/ /\ o.id \in DOMAIN archives
        /\ faults < MaxFaults
        /\ faults' = faults + 1
        /\ live' \in {live, {}}
  /\ archives' = Without(archives, {o.id})
  /\ anchors' = IF Preparing THEN Without(anchors, Owners(o.id)) ELSE anchors
  /\ UNCHANGED blocked

\* Mutant: the archive is deleted although the restore failed.
RestoreFailsAndDeletes(o) ==
  /\ \/ o.id \notin DOMAIN archives /\ UNCHANGED <<live, faults>>
     \/ /\ o.id \in DOMAIN archives
        /\ faults < MaxFaults
        /\ faults' = faults + 1
        /\ live' \in {live, {}}
  /\ archives' = Without(archives, {o.id})
  /\ blocked' = (blocked \/ Preparing)
  /\ UNCHANGED anchors

\* An archive that is gone, or unreadable, is refused before the workspace is
\* touched; once the workspace is cleared the extraction may still fail.  The
\* archive survives a failed restore, and an error is reported.
RestoreFails(o) ==
  /\ \/ o.id \notin DOMAIN archives /\ UNCHANGED <<live, faults>>
     \/ /\ o.id \in DOMAIN archives
        /\ faults < MaxFaults
        /\ faults' = faults + 1
        /\ live' \in {live, {}}
  /\ blocked' = (blocked \/ Preparing)
  /\ UNCHANGED <<archives, anchors>>

\* The workspace is restored and then the archive cannot be removed.
RemoveFails(o) ==
  /\ o.op = "settle"
  /\ faults < MaxFaults
  /\ faults' = faults + 1
  /\ live' = archives[o.id]
  /\ blocked' = (blocked \/ Preparing)
  /\ UNCHANGED <<archives, anchors>>

RunRestore(o) ==
  /\ IsNext(o)
  /\ o.op # "discard"
  /\ script' = script \ {o}
  /\ \/ o.id \in DOMAIN archives /\ Restored(o)
     \/ RestoreFails(o)
     \/ o.id \in DOMAIN archives /\ RemoveFails(o)
  /\ UNCHANGED <<status, attempts, rechecked, phase, accepted, raises>>

\* Removing an archive that is already gone succeeds.
RunDiscard(o) ==
  /\ IsNext(o)
  /\ o.op = "discard"
  /\ script' = script \ {o}
  /\ \/ archives' = Without(archives, {o.id}) /\ UNCHANGED faults
     \/ faults < MaxFaults /\ faults' = faults + 1 /\ UNCHANGED archives
  /\ UNCHANGED <<status, attempts, rechecked, phase, blocked, anchors, live,
                 accepted, raises>>

-----------------------------------------------------------------------------
(* The end of a wrapper's preparation. *)

\* An unrelated baseline could not be settled: the dispatch is abandoned, with
\* the anchors that were settled removed from the map.
AbandonDispatch ==
  /\ Preparing
  /\ script = {}
  /\ blocked
  /\ blocked' = FALSE
  /\ phase' = "supervisor"
  /\ UNCHANGED <<status, attempts, rechecked, script, anchors, archives, live,
                 accepted, faults, raises>>

\* Mutant: the archive holds the original checkout, not the cumulative workspace.
SnapshotOriginal ==
  /\ phase = "prepare_worker"
  /\ script = {}
  /\ ~blocked
  /\ archives' = [id \in DOMAIN archives \cup {Current} |->
                     IF id = Current THEN {} ELSE archives[id]]
  /\ phase' = "worker"
  /\ UNCHANGED <<status, attempts, rechecked, script, blocked, anchors, live,
                 accepted, faults, raises>>

\* The archive is taken before the worker may edit the workspace; without one
\* the worker does not run.
SnapshotWorkspace ==
  /\ phase = "prepare_worker"
  /\ script = {}
  /\ ~blocked
  /\ \/ /\ archives' = [id \in DOMAIN archives \cup {Current} |->
                          IF id = Current THEN live ELSE archives[id]]
        /\ phase' = "worker"
        /\ UNCHANGED faults
     \/ /\ faults < MaxFaults
        /\ faults' = faults + 1
        /\ phase' = "supervisor"
        /\ UNCHANGED archives
  /\ UNCHANGED <<status, attempts, rechecked, script, blocked, anchors, live,
                 accepted, raises>>

EnterQa ==
  /\ phase = "prepare_qa"
  /\ script = {}
  /\ ~blocked
  /\ phase' = "qa"
  /\ UNCHANGED <<status, attempts, rechecked, script, blocked, anchors, archives,
                 live, accepted, faults, raises>>

-----------------------------------------------------------------------------
(* The worker. *)

WorkerSucceeds ==
  /\ phase = "worker"
  /\ live' = live \cup {Current}
  /\ status' = [t \in Tasks |-> IF t \in Targets THEN "fixed" ELSE status[t]]
  /\ phase' = "supervisor"
  /\ UNCHANGED <<attempts, rechecked, script, blocked, anchors, archives, accepted,
                 faults, raises>>

\* The Supervisor retries a failed update, and retries or ends a workaround
\* that surrendered.
WorkerFails ==
  /\ phase = "worker"
  /\ live' = live \cup {Current}
  /\ script' = RestoreFailedUpdate(Targets)
  /\ \/ UNCHANGED status
     \/ /\ IsWorkaround(Targets)
        /\ status' = [t \in Tasks |-> IF t \in Targets THEN "closed" ELSE status[t]]
  /\ phase' = "settle"
  /\ UNCHANGED <<attempts, rechecked, blocked, anchors, archives, accepted, faults,
                 raises>>

-----------------------------------------------------------------------------
(* QA: evals gives each target "pass", "regression" (a breaking change, or     *)
(* failed tests), "reject" (any other failure of the candidate), or            *)
(* "inconclusive".                                                             *)

Verdicts == {"pass", "regression", "reject", "inconclusive"}

Rejects(evals) == \E t \in DOMAIN evals : evals[t] \in {"regression", "reject"}

Passes(evals) == \A t \in DOMAIN evals : evals[t] = "pass"

\* candidate_workspace_retained
Retained(evals) ==
  \/ ~Rejects(evals)
  \/ /\ ~IsCluster(Targets) /\ ~IsWorkaround(Targets)
     /\ \A t \in DOMAIN evals : evals[t] # "reject"

QaScript(evals) ==
  IF ~Retained(evals)
  THEN IF IsWorkaround(Targets) THEN RestoreFailedWorkaround
       ELSE RestoreFailedUpdate(Targets)
  ELSE IF ~Passes(evals) THEN {}
  ELSE Apply("discard", 1,
             {Current} \cup (IF IsCluster(Targets) THEN {}
                             ELSE IF IsWorkaround(Targets) THEN AnchorIds(Tasks)
                             ELSE AnchorIds(Scope(Targets))))

\* Mutant: each retained candidate replaces the task's baseline.
AnchorUpdatesOverwrite(evals, retained) ==
  LET passed == {t \in Targets : evals[t] = "pass"}
      added == IF retained THEN Targets \ passed ELSE {}
  IN IF IsWorkaround(Targets) /\ Passes(evals) THEN [t \in {} |-> 0]
     ELSE [t \in (DOMAIN anchors \ passed) \cup added |->
             IF t \in added THEN Current ELSE anchors[t]]

\* Mutant: a passing task keeps its anchor.
AnchorUpdatesNeverPop(evals, retained) ==
  LET added == IF retained THEN {t \in Targets : evals[t] # "pass"} ELSE {}
  IN [t \in DOMAIN anchors \cup added |-> IF t \in DOMAIN anchors THEN anchors[t] ELSE Current]

\* setdefault: the first candidate still unaccepted keeps the baseline.
AnchorUpdates(evals, retained) ==
  LET passed == {t \in Targets : evals[t] = "pass"}
      kept == DOMAIN anchors \ passed
      added == IF retained THEN Targets \ passed ELSE {}
  IN IF IsWorkaround(Targets) /\ Passes(evals) THEN [t \in {} |-> 0]
     ELSE [t \in kept \cup added |-> IF t \in kept THEN anchors[t] ELSE Current]

\* Inconclusive evidence is rerun once on the same attempt and then closes it;
\* a rejection returns every target to the retry pool.
Ingest(evals) ==
  IF Rejects(evals)
  THEN status' = [t \in Tasks |-> IF t \in Targets THEN "workable" ELSE status[t]]
  ELSE IF Passes(evals)
  THEN status' = [t \in Tasks |-> IF t \in Targets THEN "passed" ELSE status[t]]
  ELSE IF rechecked
  THEN status' = [t \in Tasks |-> IF t \in Targets THEN "closed" ELSE status[t]]
  ELSE UNCHANGED status

\* The anchor projection depends on the evaluations alone, not on how the
\* archive operations end, so one step takes both it and the script.
QaEvaluates(evals) ==
  /\ phase = "qa"
  /\ (rechecked /\ Rejects(evals)) => RecheckMayReject
  /\ script' = QaScript(evals)
  /\ anchors' = AnchorUpdates(evals, Retained(evals))
  /\ Ingest(evals)
  /\ rechecked' = (rechecked \/ (~Rejects(evals) /\ ~Passes(evals)))
  /\ accepted' = IF Passes(evals) THEN live ELSE accepted
  /\ phase' = "settle"
  /\ UNCHANGED <<attempts, blocked, archives, live, faults, raises>>

\* A failing cluster whose delta canaries were INCONCLUSIVE, with the candidate
\* verified restored: its failures count as inconclusive evidence, but the
\* wrapper reports the candidate as not retained before it projects anchors.
DeltaInconclusive(evals) ==
  LET marked == [t \in Targets |-> IF evals[t] = "pass" THEN "pass" ELSE "inconclusive"]
  IN /\ DeltaIsolation
     /\ phase = "qa"
     /\ IsCluster(Targets)
     /\ Rejects(evals)
     /\ script' = QaScript(marked)
     /\ anchors' = AnchorUpdates(marked, FALSE)
     /\ Ingest(marked)
     /\ rechecked' = TRUE
     /\ phase' = "settle"
     /\ UNCHANGED <<attempts, blocked, archives, live, accepted, faults, raises>>

WrapperReturns ==
  /\ phase = "settle"
  /\ script = {}
  /\ phase' = "supervisor"
  /\ UNCHANGED <<status, attempts, rechecked, script, blocked, anchors, archives,
                 live, accepted, faults, raises>>

-----------------------------------------------------------------------------
(* A node that raises: its wrapper cleans up and re-raises, which ends the     *)
(* run before any of its state updates is published.                           *)

WorkerRaises ==
  /\ phase = "worker"
  /\ raises < MaxRaises
  /\ raises' = raises + 1
  /\ live' = live \cup {Current}
  /\ script' = IF IsWorkaround(Targets)
               THEN Apply("settle", 1, {Current})
                      \cup Apply("settle", 2, AnchorIds(Parents(Targets)))
               ELSE RestoreFailedUpdate(Targets)
  /\ phase' = "raising"
  /\ UNCHANGED <<status, attempts, rechecked, blocked, anchors, archives, accepted,
                 faults>>

\* Mutant: QA's exception handler forgets the anchors.
QaRaisesOwnOnly ==
  /\ phase = "qa"
  /\ raises < MaxRaises
  /\ raises' = raises + 1
  /\ script' = Apply("settle", 1, {Current})
  /\ phase' = "raising"
  /\ UNCHANGED <<status, attempts, rechecked, blocked, anchors, archives, live,
                 accepted, faults>>

QaRaises ==
  /\ phase = "qa"
  /\ raises < MaxRaises
  /\ raises' = raises + 1
  /\ script' = IF IsWorkaround(Targets)
               THEN Apply("settle", 1, {Current})
                      \cup Apply("settle", 2, AnchorIds(Targets))
                      \cup Apply("settle", 3, AnchorIds(Parents(Targets)))
               ELSE RestoreFailedUpdate(Targets)
  /\ phase' = "raising"
  /\ UNCHANGED <<status, attempts, rechecked, blocked, anchors, archives, live,
                 accepted, faults>>

RunAborts ==
  /\ phase = "raising"
  /\ script = {}
  /\ phase' = "raised"
  /\ UNCHANGED <<status, attempts, rechecked, script, blocked, anchors, archives,
                 live, accepted, faults, raises>>

-----------------------------------------------------------------------------
Next ==
  \/ \E T \in Batches : DispatchWorker(T)
  \/ DispatchQa
  \/ \E t \in Workarounds : Pivot(t)
  \/ \E t \in Tasks : GiveUp(t)
  \/ Teardown
  \/ \E o \in script : RunRestore(o) \/ RunDiscard(o)
  \/ AbandonDispatch
  \/ SnapshotWorkspace
  \/ EnterQa
  \/ WorkerSucceeds
  \/ WorkerFails
  \/ phase = "qa" /\ \E evals \in [Targets -> Verdicts] :
                       QaEvaluates(evals) \/ DeltaInconclusive(evals)
  \/ WrapperReturns
  \/ WorkerRaises
  \/ QaRaises
  \/ RunAborts

Spec == Init /\ [][Next]_vars

-----------------------------------------------------------------------------
(* Properties. *)

\* Anchors, archives and statuses of the wrappers are well typed.
TypeOK ==
  /\ status \in [Tasks -> Statuses]
  /\ attempts \in Seq(Batches)
  /\ Len(attempts) <= MaxDispatches
  /\ rechecked \in BOOLEAN
  /\ phase \in Phases
  /\ script \subseteq Ops
  /\ blocked \in BOOLEAN
  /\ DOMAIN anchors \subseteq Tasks
  /\ anchors \in [DOMAIN anchors -> Dispatches]
  /\ DOMAIN archives \subseteq Dispatches
  /\ archives \in [DOMAIN archives -> SUBSET Dispatches]
  /\ live \subseteq Dispatches
  /\ accepted \subseteq Dispatches
  /\ faults \in 0 .. MaxFaults
  /\ raises \in 0 .. MaxRaises

\* The dispatches that belong to a task's transaction: its own and those of
\* the tasks whose candidates it builds on.
EditsOf(T) == {n \in 1 .. Current : attempts[n] \cap Scope(T) # {}}

\* When a worker starts, the workspace holds the accepted edits and the
\* unaccepted candidates of its own task and parent, nothing else
\* (_restore_unrelated_workspace_anchors: "a rejected candidate cannot leak
\* into an unrelated task").  Clusters with inconclusive canaries are not in the run
\* that checks it (README, Known deviations).
CandidateIsolation ==
  phase = "worker" => live \ accepted \subseteq EditsOf(Targets)

\* No rollback ever undoes an edit QA accepted, and each candidate QA judges
\* is judged on top of all of them.
AcceptedKept ==
  phase \in {"supervisor", "worker", "qa", "teardown", "raised"} => accepted \subseteq live

\* Between nodes every anchor names an archive that exists
\* (_qa_workspace_rollback_anchor_updates: "A persistent rollback anchor must
\* still have a live archive").
AnchorsHaveArchives ==
  phase = "supervisor" => \A t \in DOMAIN anchors : anchors[t] \in DOMAIN archives

\* A task's anchor is its baseline: restoring it removes every unaccepted
\* edit of the task, whichever retry made it.
AnchorIsBaseline ==
  \A t \in DOMAIN anchors : anchors[t] \in DOMAIN archives =>
    \A n \in archives[anchors[t]] \ accepted : t \notin attempts[n]

\* Every unaccepted edit that stays in the workspace between nodes can still
\* be rolled back: its dispatch awaits QA with its archive at hand, or an
\* anchored task's archive is free of it.
UnacceptedIsCovered ==
  phase = "supervisor" =>
    \A n \in live \ accepted :
      \/ /\ n = Current /\ \A t \in Targets : status[t] = "fixed"
         /\ n \in DOMAIN archives /\ n \notin archives[n]
      \/ \E t \in DOMAIN anchors : /\ anchors[t] \in DOMAIN archives
                                   /\ n \notin archives[anchors[t]]

\* What an anchor keeps is its task's baseline, and between nodes nothing that QA has not
\* accepted is without one.
BaselinesAreKept == AnchorIsBaseline /\ UnacceptedIsCovered

\* Preparing a dispatch fails only when an archive operation has failed: the
\* protocol never wedges itself on an archive it deleted.
DispatchNeverWedged == blocked => faults > 0

\* The workspace that QA is handed is the one its worker left.
QaJudgesItsCandidate == phase = "prepare_qa" => script = {}

\* A run that ends because a node raised leaves the accepted workspace.
AbortRestoresAccepted == phase = "raised" => live = accepted

\* The anchors lose a baseline only when the workspace is restored from it (by
\* this step or by one the wrapper still has to take), when QA promoted the
\* workspace in its place, when another anchor keeps the same workspace (as long
\* as no archive operation has failed: a restore that clears the workspace may
\* lose accepted edits), or when the run is torn down.  A cluster with inconclusive
\* canaries is exempt: it leaves its candidate without an anchor (README, Known
\* deviations).
AnchorIsResolved ==
  [][ \A id \in AnchorIds(Tasks) \ AnchorIds(Tasks)' :
        \/ phase' = "teardown"
        \/ live' = archives[id]
        \/ accepted' = live
        \/ \E o \in script' : o.op # "discard" /\ o.id = id
        \/ \E other \in AnchorIds(Tasks)' : faults > 0 \/ archives[other] = archives[id]
        \/ DeltaIsolation /\ phase = "qa" /\ IsCluster(Targets) ]_vars
=============================================================================
