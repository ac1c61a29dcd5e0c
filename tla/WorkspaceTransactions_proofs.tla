-------------------- MODULE WorkspaceTransactions_proofs --------------------
(***************************************************************************)
(* The workspace transaction protocol, for every set of tasks and batches  *)
(* and every bound: every variable keeps its type, every rollback anchor   *)
(* names an archive that exists, and preparing a dispatch fails only after *)
(* an archive operation did, with any number of failing operations and     *)
(* with delta canaries or without, provided that a QA rerun never rejects  *)
(* what was inconclusive (run WTDanglingAnchor shows what happens when it  *)
(* does).                                                                  *)
(***************************************************************************)
EXTENDS WorkspaceTransactions, TLAPS

\* Control leaves the Supervisor only with a dispatch.
Dispatched ==
  phase \in {"prepare_worker", "worker", "prepare_qa", "qa", "settle", "raising"}
    => Len(attempts) > 0

TypeInv == TypeOK /\ Dispatched

\* The batch of the last dispatch, once there is one.
LEMMA CurrentType ==
  ASSUME TypeOK, Len(attempts) > 0
  PROVE  /\ Current \in Dispatches
         /\ Targets \in Batches
         /\ Targets \subseteq Tasks
  BY BatchAssumption, BoundAssumption DEF TypeOK, Current, Targets, Dispatches

LEMMA AnchorIdsType ==
  ASSUME TypeOK, NEW T
  PROVE  AnchorIds(T) \subseteq Dispatches
  BY DEF TypeOK, AnchorIds

\* What the wrappers schedule are archive operations on existing ids.
LEMMA ApplyType ==
  ASSUME NEW ids \in SUBSET Dispatches, NEW turn \in Nat,
         NEW op \in {"restore", "settle", "discard"}
  PROVE  Apply(op, turn, ids) \subseteq Ops
  BY DEF Apply, Ops

LEMMA PrepareScriptType ==
  ASSUME TypeOK, NEW T
  PROVE  PrepareScript(T) \subseteq Ops
<1>1. \A id \in UnrelatedAnchorIds(T) : id \in Dispatches
  BY AnchorIdsType DEF UnrelatedAnchorIds
<1>2. \A id \in Dispatches : MaxDispatches - id \in Nat
  BY BoundAssumption DEF Dispatches
<1> QED
  BY <1>1, <1>2 DEF PrepareScript, Ops

LEMMA RestoreFailedUpdateType ==
  ASSUME TypeOK, Len(attempts) > 0, NEW T
  PROVE  RestoreFailedUpdate(T) \subseteq Ops
<1>1. Current \in Dispatches
  BY CurrentType
<1>2. /\ Apply("restore", 1, AnchorIds(T)) \subseteq Ops
      /\ Apply("restore", 2, AnchorIds(Parents(T))) \subseteq Ops
  BY AnchorIdsType, ApplyType
<1>3. /\ Apply("discard", 3, {Current}) \subseteq Ops
      /\ Apply("settle", 1, {Current}) \subseteq Ops
  BY <1>1, ApplyType
<1> QED
  BY <1>2, <1>3 DEF RestoreFailedUpdate, RestoreRetained

LEMMA QaScriptType ==
  ASSUME TypeOK, Len(attempts) > 0, NEW evals
  PROVE  QaScript(evals) \subseteq Ops
<1>1. Current \in Dispatches
  BY CurrentType
<1>2. RestoreFailedWorkaround \subseteq Ops
  BY <1>1, ApplyType DEF RestoreFailedWorkaround
<1>3. RestoreFailedUpdate(Targets) \subseteq Ops
  BY RestoreFailedUpdateType
<1> DEFINE ids == {Current} \cup (IF IsCluster(Targets) THEN {}
                                  ELSE IF IsWorkaround(Targets) THEN AnchorIds(Tasks)
                                  ELSE AnchorIds(Scope(Targets)))
<1>4. ids \in SUBSET Dispatches
  BY <1>1, AnchorIdsType
<1>5. Apply("discard", 1, ids) \subseteq Ops
  BY <1>4, ApplyType
<1> HIDE DEF ids
<1>6. QaScript(evals) = IF ~Retained(evals)
                        THEN IF IsWorkaround(Targets) THEN RestoreFailedWorkaround
                             ELSE RestoreFailedUpdate(Targets)
                        ELSE IF ~Passes(evals) THEN {} ELSE Apply("discard", 1, ids)
  BY DEF QaScript, ids
<1> QED
  BY <1>2, <1>3, <1>5, <1>6

LEMMA AnchorUpdatesType ==
  ASSUME TypeOK, Len(attempts) > 0, NEW evals, NEW retained \in BOOLEAN
  PROVE  /\ DOMAIN AnchorUpdates(evals, retained) \subseteq Tasks
         /\ AnchorUpdates(evals, retained)
              \in [DOMAIN AnchorUpdates(evals, retained) -> Dispatches]
<1>1. Current \in Dispatches /\ Targets \subseteq Tasks
  BY CurrentType
<1> QED
  BY <1>1 DEF TypeOK, AnchorUpdates

LEMMA WithoutAnchorsType ==
  ASSUME TypeOK, NEW S
  PROVE  /\ DOMAIN Without(anchors, S) \subseteq Tasks
         /\ Without(anchors, S) \in [DOMAIN Without(anchors, S) -> Dispatches]
  BY DEF TypeOK, Without

LEMMA WithoutArchivesType ==
  ASSUME TypeOK, NEW S
  PROVE  /\ DOMAIN Without(archives, S) \subseteq Dispatches
         /\ Without(archives, S) \in [DOMAIN Without(archives, S) -> SUBSET Dispatches]
  BY DEF TypeOK, Without

LEMMA InitTypeInv == Init => TypeInv
<1> SUFFICES ASSUME Init PROVE TypeInv
  OBVIOUS
<1>1. status \in [Tasks -> Statuses] /\ phase \in Phases
  BY DEF Init, Statuses, Phases
<1>2. attempts \in Seq(Batches) /\ Len(attempts) = 0 /\ Len(attempts) <= MaxDispatches
  BY BoundAssumption DEF Init
<1>3. rechecked \in BOOLEAN /\ blocked \in BOOLEAN
  BY DEF Init
<1>4. script \subseteq Ops /\ live \subseteq Dispatches /\ accepted \subseteq Dispatches
  BY DEF Init
<1>5. DOMAIN anchors \subseteq Tasks /\ anchors \in [DOMAIN anchors -> Dispatches]
  BY DEF Init
<1>6. /\ DOMAIN archives \subseteq Dispatches
      /\ archives \in [DOMAIN archives -> SUBSET Dispatches]
  BY DEF Init
<1>7. faults \in 0 .. MaxFaults /\ raises \in 0 .. MaxRaises
  BY BoundAssumption DEF Init
<1>8. Dispatched
  BY DEF Init, Dispatched
<1> QED
  BY <1>1, <1>2, <1>3, <1>4, <1>5, <1>6, <1>7, <1>8 DEF TypeInv, TypeOK

LEMMA NextTypeInv == TypeInv /\ [Next]_vars => TypeInv'
<1> SUFFICES ASSUME TypeInv, [Next]_vars PROVE TypeInv'
  OBVIOUS
<1> USE DEF TypeInv
<1>1. ASSUME NEW T \in Batches, DispatchWorker(T) PROVE TypeInv'
  <2>1. PrepareScript(T) \subseteq Ops
    BY PrepareScriptType
  <2>2. /\ attempts' \in Seq(Batches) /\ Len(attempts') = Len(attempts) + 1
        /\ Len(attempts') <= MaxDispatches
    BY <1>1, BoundAssumption DEF DispatchWorker, TypeOK, Current
  <2>3. Len(attempts') > 0
    BY <2>2 DEF TypeOK
  <2> QED
    BY <1>1, <2>1, <2>2, <2>3 DEF DispatchWorker, TypeOK, Dispatched, Phases
<1>2. CASE DispatchQa
  <2>1. PrepareScript(Targets) \subseteq Ops
    BY PrepareScriptType
  <2> QED
    BY <1>2, <2>1 DEF DispatchQa, TypeOK, Dispatched, Phases, Current
<1>3. ASSUME NEW t \in Workarounds, Pivot(t) PROVE TypeInv'
  BY <1>3 DEF Pivot, TypeOK, Dispatched, Statuses
<1>4. ASSUME NEW t \in Tasks, GiveUp(t) PROVE TypeInv'
  BY <1>4 DEF GiveUp, TypeOK, Dispatched, Statuses
<1>5. CASE Teardown
  BY <1>5 DEF Teardown, TypeOK, Dispatched, Phases
<1>6. ASSUME NEW o \in script, RunRestore(o) PROVE TypeInv'
  <2>1. o.id \in DOMAIN archives => archives[o.id] \subseteq Dispatches
    BY DEF TypeOK
  <2>2. /\ DOMAIN archives' \subseteq Dispatches
        /\ archives' \in [DOMAIN archives' -> SUBSET Dispatches]
    BY <1>6, WithoutArchivesType DEF RunRestore, Restored, RestoreFails, RemoveFails, TypeOK
  <2>3. /\ DOMAIN anchors' \subseteq Tasks
        /\ anchors' \in [DOMAIN anchors' -> Dispatches]
    BY <1>6, WithoutAnchorsType DEF RunRestore, Restored, RestoreFails, RemoveFails, TypeOK
  <2>4. live' \subseteq Dispatches
    BY <1>6, <2>1 DEF RunRestore, Restored, RestoreFails, RemoveFails, TypeOK
  <2>5. faults' \in 0 .. MaxFaults
    <3>1. faults' = faults \/ (faults < MaxFaults /\ faults' = faults + 1)
      BY <1>6 DEF RunRestore, Restored, RestoreFails, RemoveFails
    <3> QED
      BY <3>1, BoundAssumption DEF TypeOK
  <2>6. blocked' \in BOOLEAN
    <3>1. (blocked \/ Preparing) \in BOOLEAN
      OBVIOUS
    <3>2. blocked' = blocked \/ blocked' = (blocked \/ Preparing)
      BY <1>6 DEF RunRestore, Restored, RestoreFails, RemoveFails
    <3> QED
      BY <3>1, <3>2 DEF TypeOK
  <2> QED
    BY <1>6, <2>2, <2>3, <2>4, <2>5, <2>6 DEF RunRestore, TypeOK, Dispatched
<1>7. ASSUME NEW o \in script, RunDiscard(o) PROVE TypeInv'
  <2>1. /\ DOMAIN archives' \subseteq Dispatches
        /\ archives' \in [DOMAIN archives' -> SUBSET Dispatches]
    BY <1>7, WithoutArchivesType DEF RunDiscard, TypeOK
  <2>2. faults' \in 0 .. MaxFaults
    BY <1>7, BoundAssumption DEF RunDiscard, TypeOK
  <2> QED
    BY <1>7, <2>1, <2>2 DEF RunDiscard, TypeOK, Dispatched
<1>8. CASE AbandonDispatch
  BY <1>8 DEF AbandonDispatch, TypeOK, Dispatched, Phases
<1>9. CASE SnapshotWorkspace
  <2>1. Current \in Dispatches
    BY <1>9, CurrentType DEF SnapshotWorkspace, Dispatched
  <2>2. /\ DOMAIN archives' \subseteq Dispatches
        /\ archives' \in [DOMAIN archives' -> SUBSET Dispatches]
    BY <1>9, <2>1 DEF SnapshotWorkspace, TypeOK
  <2>3. faults' \in 0 .. MaxFaults
    BY <1>9, BoundAssumption DEF SnapshotWorkspace, TypeOK
  <2> QED
    BY <1>9, <2>2, <2>3 DEF SnapshotWorkspace, TypeOK, Dispatched, Phases
<1>10. CASE EnterQa
  BY <1>10 DEF EnterQa, TypeOK, Dispatched, Phases
<1>11. CASE WorkerSucceeds
  <2>1. Current \in Dispatches
    BY <1>11, CurrentType DEF WorkerSucceeds, Dispatched
  <2> QED
    BY <1>11, <2>1 DEF WorkerSucceeds, TypeOK, Dispatched, Phases, Statuses
<1>12. CASE WorkerFails
  <2>1. Len(attempts) > 0
    BY <1>12 DEF WorkerFails, Dispatched
  <2>2. Current \in Dispatches /\ RestoreFailedUpdate(Targets) \subseteq Ops
    BY <2>1, CurrentType, RestoreFailedUpdateType
  <2>3. status' \in [Tasks -> Statuses]
    BY <1>12 DEF WorkerFails, TypeOK, Statuses
  <2> QED
    BY <1>12, <2>1, <2>2, <2>3 DEF WorkerFails, TypeOK, Dispatched, Phases
<1>13. ASSUME NEW evals \in [Targets -> Verdicts], QaEvaluates(evals) PROVE TypeInv'
  <2>1. Len(attempts) > 0
    BY <1>13 DEF QaEvaluates, Dispatched
  <2>2. QaScript(evals) \subseteq Ops
    BY <2>1, QaScriptType
  <2>3. Retained(evals) \in BOOLEAN
    BY DEF Retained
  <2>4. /\ DOMAIN anchors' \subseteq Tasks
        /\ anchors' \in [DOMAIN anchors' -> Dispatches]
    BY <1>13, <2>1, <2>3, AnchorUpdatesType DEF QaEvaluates
  <2>5. status' \in [Tasks -> Statuses]
    BY <1>13 DEF QaEvaluates, Ingest, TypeOK, Statuses
  <2>6. rechecked' \in BOOLEAN /\ accepted' \subseteq Dispatches
    BY <1>13 DEF QaEvaluates, TypeOK, Rejects, Passes
  <2> QED
    BY <1>13, <2>1, <2>2, <2>4, <2>5, <2>6 DEF QaEvaluates, TypeOK, Dispatched, Phases
<1>14. ASSUME NEW evals \in [Targets -> Verdicts], DeltaInconclusive(evals) PROVE TypeInv'
  <2> DEFINE marked ==
        [t \in Targets |-> IF evals[t] = "pass" THEN "pass" ELSE "inconclusive"]
  <2>1. Len(attempts) > 0
    BY <1>14 DEF DeltaInconclusive, Dispatched
  <2>2. QaScript(marked) \subseteq Ops
    BY <2>1, QaScriptType
  <2>3. /\ DOMAIN AnchorUpdates(marked, FALSE) \subseteq Tasks
        /\ AnchorUpdates(marked, FALSE)
             \in [DOMAIN AnchorUpdates(marked, FALSE) -> Dispatches]
    BY <2>1, AnchorUpdatesType
  <2>4. status' \in [Tasks -> Statuses]
    BY <1>14 DEF DeltaInconclusive, Ingest, TypeOK, Statuses
  <2>5. /\ script' = QaScript(marked)
        /\ anchors' = AnchorUpdates(marked, FALSE)
        /\ rechecked' = TRUE
        /\ phase' = "settle"
        /\ UNCHANGED <<attempts, blocked, archives, live, accepted, faults, raises>>
    BY <1>14 DEF DeltaInconclusive
  <2> HIDE DEF marked
  <2> QED
    BY <2>1, <2>2, <2>3, <2>4, <2>5 DEF TypeOK, Dispatched, Phases
<1>15. CASE WrapperReturns
  BY <1>15 DEF WrapperReturns, TypeOK, Dispatched, Phases
<1>16. CASE WorkerRaises
  <2>1. Len(attempts) > 0
    BY <1>16 DEF WorkerRaises, Dispatched
  <2>2. Current \in Dispatches /\ RestoreFailedUpdate(Targets) \subseteq Ops
    BY <2>1, CurrentType, RestoreFailedUpdateType
  <2>3. /\ Apply("settle", 1, {Current}) \subseteq Ops
        /\ Apply("settle", 2, AnchorIds(Parents(Targets))) \subseteq Ops
    BY <2>2, ApplyType, AnchorIdsType
  <2>4. raises' \in 0 .. MaxRaises
    BY <1>16, BoundAssumption DEF WorkerRaises, TypeOK
  <2> QED
    BY <1>16, <2>1, <2>2, <2>3, <2>4 DEF WorkerRaises, TypeOK, Dispatched, Phases
<1>17. CASE QaRaises
  <2>1. Len(attempts) > 0
    BY <1>17 DEF QaRaises, Dispatched
  <2>2. Current \in Dispatches /\ RestoreFailedUpdate(Targets) \subseteq Ops
    BY <2>1, CurrentType, RestoreFailedUpdateType
  <2>3. /\ Apply("settle", 1, {Current}) \subseteq Ops
        /\ Apply("settle", 2, AnchorIds(Targets)) \subseteq Ops
        /\ Apply("settle", 3, AnchorIds(Parents(Targets))) \subseteq Ops
    BY <2>2, ApplyType, AnchorIdsType
  <2>4. raises' \in 0 .. MaxRaises
    BY <1>17, BoundAssumption DEF QaRaises, TypeOK
  <2> QED
    BY <1>17, <2>1, <2>2, <2>3, <2>4 DEF QaRaises, TypeOK, Dispatched, Phases
<1>18. CASE RunAborts
  BY <1>18 DEF RunAborts, TypeOK, Dispatched, Phases
<1>19. CASE UNCHANGED vars
  BY <1>19 DEF vars, TypeOK, Dispatched
<1> QED
  BY <1>1, <1>2, <1>3, <1>4, <1>5, <1>6, <1>7, <1>8, <1>9, <1>10, <1>11, <1>12,
     <1>13, <1>14, <1>15, <1>16, <1>17, <1>18, <1>19 DEF Next

\* Every variable keeps its type, for every queue.
THEOREM TypeCorrect == Spec => []TypeOK
<1>1. Spec => []TypeInv
  BY InitTypeInv, NextTypeInv, PTL DEF Spec
<1>2. TypeInv => TypeOK
  BY DEF TypeInv
<1> QED
  BY <1>1, <1>2, PTL

-----------------------------------------------------------------------------
(* Every anchor has its archive.  AnchorsHaveArchives is not inductive: that a *)
(* wrapper may delete an archive depends on who owns it, on how far the        *)
(* attempt being judged has come, and on what the pending script deletes.      *)

TargetsAre(s) == \A t \in Targets : status[t] = s

\* The strengthening over all phases in which a run can still dispatch.
AnchorsLive ==
  phase \notin {"raising", "raised"} => \A t \in DOMAIN anchors : anchors[t] \in DOMAIN archives

\* What a finishing wrapper has yet to delete is nobody's baseline.
RemovalsUnanchored ==
  phase = "settle" =>
    \A o \in script : o.op # "restore" => \A t \in DOMAIN anchors : anchors[t] # o.id

\* What a preparing wrapper has yet to settle is the baseline of tasks that are
\* not its targets, each listed once.
SettlesAnchors ==
  Preparing =>
    /\ \A o \in script : /\ o.op = "settle"
                         /\ \E t \in DOMAIN anchors : anchors[t] = o.id
                         /\ \A t \in DOMAIN anchors : anchors[t] = o.id => t \notin Targets
    /\ \A o, p \in script : o.id = p.id => o = p

\* No archive operation is pending outside a wrapper.
ScriptEmpty == phase \in {"supervisor", "worker", "qa", "teardown", "raised"} => script = {}

\* The statuses of the batch agree with the node that holds it.
BatchStatus ==
  /\ phase \in {"prepare_worker", "worker"} => TargetsAre("workable") /\ ~rechecked
  /\ phase \in {"prepare_qa", "qa"} => TargetsAre("fixed")
  /\ phase = "settle" /\ TargetsAre("fixed") => rechecked /\ script = {}

\* The batch still has a judgement to come.
Open ==
  \/ phase \in {"prepare_worker", "worker"}
  \/ /\ phase \in {"supervisor", "prepare_qa", "qa", "settle"}
     /\ Len(attempts) > 0
     /\ TargetsAre("fixed")

\* Until it is first judged, no task is anchored at the archive of the batch.
FirstJudgement == Open /\ ~rechecked => \A t \in DOMAIN anchors : anchors[t] # Current

\* The archive of a batch stays as long as a judgement is to come.
OpenHasArchive == Open /\ phase # "prepare_worker" => Current \in DOMAIN archives

\* Anchors are archives of dispatches made, and only the targets of the last
\* one may be anchored at it.
AnchorAge ==
  \A t \in DOMAIN anchors : /\ anchors[t] <= Current
                            /\ anchors[t] = Current => t \in Targets

\* Two tasks share a baseline only once they are closed, or while the atomic
\* cluster that gave it to them awaits its second judgement.
SharedAnchors ==
  \A t, u \in DOMAIN anchors :
    t # u /\ anchors[t] = anchors[u] =>
      \/ status[t] = "closed" /\ status[u] = "closed"
      \/ anchors[t] = Current /\ status[t] = "fixed" /\ status[u] = "fixed"

AnchorInv ==
  /\ AnchorsLive
  /\ RemovalsUnanchored
  /\ SettlesAnchors
  /\ ScriptEmpty
  /\ BatchStatus
  /\ FirstJudgement
  /\ OpenHasArchive
  /\ AnchorAge
  /\ SharedAnchors


LEMMA InitAnchorInv == Init => AnchorInv
  BY DEF Init, AnchorInv, AnchorsLive, RemovalsUnanchored, SettlesAnchors, Preparing,
         ScriptEmpty, BatchStatus, Open, FirstJudgement, OpenHasArchive, AnchorAge,
         SharedAnchors

\* What QA finds when it judges the last batch: fixed targets, whose archive
\* is still there, and at the first judgement nobody anchored at it.
LEMMA QaStart ==
  ASSUME TypeInv, AnchorInv, phase = "qa"
  PROVE  /\ Len(attempts) > 0 /\ Targets \in Batches /\ Targets \subseteq Tasks /\ Targets # {}
         /\ TargetsAre("fixed")
         /\ Current \in DOMAIN archives
         /\ ~rechecked => \A t \in DOMAIN anchors : anchors[t] # Current
         /\ \A t, u \in DOMAIN anchors :
              t # u /\ anchors[t] = anchors[u] /\ t \in Targets =>
                /\ anchors[t] = Current
                /\ u \in Targets
<1>1. Len(attempts) > 0
  BY DEF TypeInv, Dispatched
<1>2. Targets \in Batches /\ Targets \subseteq Tasks /\ Targets # {}
  BY <1>1, CurrentType, BatchAssumption DEF TypeInv
<1>3. TargetsAre("fixed") /\ Open
  BY <1>1 DEF AnchorInv, BatchStatus, Open
<1>4. Current \in DOMAIN archives
  BY <1>3 DEF AnchorInv, OpenHasArchive
<1>5. ~rechecked => \A t \in DOMAIN anchors : anchors[t] # Current
  BY <1>3 DEF AnchorInv, FirstJudgement
<1>6. ASSUME NEW t \in DOMAIN anchors, NEW u \in DOMAIN anchors,
             t # u, anchors[t] = anchors[u], t \in Targets
      PROVE  anchors[t] = Current /\ u \in Targets
  BY <1>3, <1>6 DEF AnchorInv, SharedAnchors, AnchorAge, TargetsAre
<1> QED
  BY <1>1, <1>2, <1>3, <1>4, <1>5, <1>6

\* A batch QA is done with, or returns to the retry pool, is no longer open;
\* what then remains is about the anchors and the pending deletions.
LEMMA SettleAnchorInv ==
  ASSUME TypeInv, AnchorInv, phase = "qa", phase' = "settle",
         attempts' = attempts, archives' = archives,
         Open' => rechecked' /\ script' = {},
         \A t \in DOMAIN anchors' :
           \/ t \in DOMAIN anchors /\ anchors'[t] = anchors[t]
           \/ t \in Targets /\ anchors'[t] = Current,
         RemovalsUnanchored', SharedAnchors'
  PROVE  AnchorInv'
<1>1. Targets' = Targets /\ Current' = Current
  BY DEF Targets, Current
<1>2. AnchorsLive'
  BY QaStart DEF AnchorInv, AnchorsLive
<1>3. SettlesAnchors' /\ ScriptEmpty'
  BY DEF SettlesAnchors, Preparing, ScriptEmpty
<1>4. Len(attempts) > 0 /\ Current \in Nat
  BY QaStart DEF TypeInv, TypeOK, Current
<1>5. BatchStatus' /\ FirstJudgement' /\ OpenHasArchive'
  BY <1>1, <1>4, QaStart DEF BatchStatus, FirstJudgement, OpenHasArchive, Open
<1>6. AnchorAge'
  BY <1>1, <1>4 DEF AnchorInv, AnchorAge
<1> QED
  BY <1>2, <1>3, <1>5, <1>6 DEF AnchorInv

\* QA leaves the anchors of every task that did not pass, and adds one for
\* each task whose candidate stays without being accepted.
LEMMA QaEvaluatesAnchorInv ==
  ASSUME ~RecheckMayReject, TypeInv, AnchorInv,
         NEW evals \in [Targets -> Verdicts], QaEvaluates(evals)
  PROVE  AnchorInv'
<1>1. /\ phase = "qa" /\ phase' = "settle" /\ attempts' = attempts /\ archives' = archives
      /\ script' = QaScript(evals)
      /\ anchors' = AnchorUpdates(evals, Retained(evals))
      /\ rechecked' = (rechecked \/ (~Rejects(evals) /\ ~Passes(evals)))
      /\ Rejects(evals) => ~rechecked
      /\ Ingest(evals)
  BY DEF QaEvaluates
<1>2. Targets' = Targets /\ Current' = Current
  BY <1>1 DEF Targets, Current
<1>3. /\ \A u \in Tasks \ Targets : status'[u] = status[u]
      /\ Rejects(evals) => \A u \in Targets : status'[u] = "workable"
      /\ Passes(evals) /\ ~Rejects(evals) => \A u \in Targets : status'[u] = "passed"
      /\ ~Rejects(evals) /\ ~Passes(evals) /\ rechecked =>
           \A u \in Targets : status'[u] = "closed"
      /\ ~Rejects(evals) /\ ~Passes(evals) /\ ~rechecked => status' = status
  BY <1>1, QaStart DEF Ingest
<1>4. Passes(evals) => ~Rejects(evals)
  BY DEF Passes, Rejects
<1>5. Open' => rechecked' /\ ~Rejects(evals) /\ ~Passes(evals)
  BY <1>1, <1>2, <1>3, <1>4, QaStart DEF Open, TargetsAre
<1>6. ASSUME NEW t \in DOMAIN anchors'
      PROVE  \/ t \in DOMAIN anchors /\ anchors'[t] = anchors[t]
             \/ /\ t \in Targets /\ anchors'[t] = Current
                /\ Retained(evals) /\ ~Passes(evals)
  BY <1>1, <1>6 DEF AnchorUpdates, Passes
<1>7. Open' => rechecked' /\ script' = {}
  BY <1>1, <1>4, <1>5 DEF QaScript, Retained
<1>8. RemovalsUnanchored'
  <2>1. CASE ~Retained(evals)
    <3>1. Rejects(evals)
      BY <2>1 DEF Retained
    <3>2. \A o \in script' : o.op # "restore" => o.id = Current
      BY <1>1, <2>1 DEF QaScript, RestoreFailedWorkaround, RestoreFailedUpdate,
         RestoreRetained, Apply
    <3> QED
      BY <1>1, <1>6, <2>1, <3>1, <3>2, QaStart DEF RemovalsUnanchored
  <2>2. CASE Retained(evals) /\ ~Passes(evals)
    BY <1>1, <2>2 DEF QaScript, RemovalsUnanchored
  <2>3. CASE Retained(evals) /\ Passes(evals) /\ IsWorkaround(Targets)
    BY <1>1, <2>3 DEF AnchorUpdates, RemovalsUnanchored
  <2>4. CASE Retained(evals) /\ Passes(evals) /\ ~IsWorkaround(Targets)
    <3>1. \A t \in DOMAIN anchors' :
            t \in DOMAIN anchors /\ anchors'[t] = anchors[t] /\ t \notin Targets
      BY <1>1, <2>4 DEF AnchorUpdates, Passes
    <3>2. \A t \in DOMAIN anchors' : anchors'[t] # Current
      BY <3>1 DEF AnchorInv, AnchorAge
    <3>3. CASE IsCluster(Targets)
      <4>1. \A o \in script' : o.id = Current
        BY <1>1, <2>4, <3>3 DEF QaScript, Apply
      <4> QED
        BY <3>2, <4>1 DEF RemovalsUnanchored
    <3>4. CASE ~IsCluster(Targets)
      <4>1. Scope(Targets) = Targets
        <5>1. Targets \cap Workarounds = {}
          BY <1>1, <2>4, QaStart, BatchAssumption DEF IsWorkaround
        <5>2. \A t \in Targets : Parent[t] = NoTask
          BY <1>1, <5>1, QaStart, ParentAssumption
        <5> QED
          BY <5>2 DEF Scope, Parents
      <4>2. \A o \in script' : o.id = Current \/ o.id \in AnchorIds(Targets)
        BY <1>1, <2>4, <3>4, <4>1 DEF QaScript, Apply
      <4>3. ASSUME NEW u \in Targets \cap DOMAIN anchors, NEW t \in DOMAIN anchors'
            PROVE  anchors'[t] # anchors[u]
        BY <1>1, <3>1, QaStart
      <4> QED
        BY <3>2, <4>2, <4>3 DEF RemovalsUnanchored, AnchorIds
    <3> QED
      BY <3>3, <3>4
  <2> QED
    BY <2>1, <2>2, <2>3, <2>4
<1>9. SharedAnchors'
  <2> SUFFICES ASSUME NEW t \in DOMAIN anchors', NEW u \in DOMAIN anchors',
                      t # u, anchors'[t] = anchors'[u]
               PROVE  \/ status'[t] = "closed" /\ status'[u] = "closed"
                      \/ /\ anchors'[t] = Current
                         /\ status'[t] = "fixed" /\ status'[u] = "fixed"
    BY <1>2 DEF SharedAnchors
  <2>1. CASE t \notin Targets /\ u \notin Targets
    <3>1. /\ t \in DOMAIN anchors /\ u \in DOMAIN anchors /\ t \in Tasks /\ u \in Tasks
          /\ anchors[t] = anchors[u] /\ anchors[t] # Current
      BY <1>6, <2>1 DEF AnchorInv, AnchorAge, TypeInv, TypeOK
    <3> QED
      BY <1>3, <2>1, <3>1 DEF AnchorInv, SharedAnchors
  <2>2. CASE t \in Targets \/ u \in Targets
    <3>1. t \in Targets /\ u \in Targets /\ anchors'[t] = Current
      BY <1>1, <1>6, <2>2, QaStart DEF AnchorInv, AnchorAge
    <3>2. ~Rejects(evals)
      <4> SUFFICES ASSUME Rejects(evals) PROVE FALSE
        OBVIOUS
      <4>1. Retained(evals)
        BY <1>1, <1>6, <3>1, QaStart
      <4> QED
        BY <3>1, <4>1 DEF Retained, IsCluster
    <3>3. ~Passes(evals)
      BY <1>1, <1>6, <3>1, <3>2 DEF AnchorUpdates, Passes
    <3> QED
      BY <1>1, <1>3, <3>1, <3>2, <3>3, QaStart DEF TargetsAre
  <2> QED
    BY <2>1, <2>2
<1> QED
  BY <1>1, <1>6, <1>7, <1>8, <1>9, SettleAnchorInv

\* Inconclusive canaries add no anchor and keep every archive.
LEMMA DeltaInconclusiveAnchorInv ==
  ASSUME TypeInv, AnchorInv,
         NEW evals \in [Targets -> Verdicts], DeltaInconclusive(evals)
  PROVE  AnchorInv'
<1> DEFINE marked ==
      [t \in Targets |-> IF evals[t] = "pass" THEN "pass" ELSE "inconclusive"]
<1>1. /\ phase = "qa" /\ phase' = "settle" /\ attempts' = attempts /\ archives' = archives
      /\ script' = QaScript(marked) /\ rechecked' = TRUE
      /\ anchors' = AnchorUpdates(marked, FALSE)
      /\ Ingest(marked) /\ Rejects(evals)
  BY DEF DeltaInconclusive
<1>2. ~Rejects(marked) /\ ~Passes(marked)
  BY <1>1 DEF Rejects, Passes
<1> HIDE DEF marked
<1>3. script' = {}
  BY <1>1, <1>2 DEF QaScript, Retained
<1>4. \A t \in DOMAIN anchors' : t \in DOMAIN anchors /\ anchors'[t] = anchors[t]
  BY <1>1, <1>2 DEF AnchorUpdates
<1>5. RemovalsUnanchored'
  BY <1>3 DEF RemovalsUnanchored
<1>6. /\ \A u \in Tasks \ Targets : status'[u] = status[u]
      /\ \/ status' = status
         \/ \A u \in Targets : status'[u] = "closed"
  BY <1>1, <1>2, QaStart DEF Ingest
<1>7. ASSUME NEW t \in DOMAIN anchors', NEW u \in DOMAIN anchors',
             t # u, anchors'[t] = anchors'[u]
      PROVE  \/ status'[t] = "closed" /\ status'[u] = "closed"
             \/ /\ anchors'[t] = Current
                /\ status'[t] = "fixed" /\ status'[u] = "fixed"
  BY <1>1, <1>4, <1>6, <1>7, QaStart
  DEF AnchorInv, SharedAnchors, AnchorAge, TypeInv, TypeOK
<1>8. SharedAnchors'
  BY <1>1, <1>7 DEF SharedAnchors, Current
<1> QED
  BY <1>1, <1>3, <1>4, <1>5, <1>8, SettleAnchorInv

LEMMA NextAnchorInv ==
  ASSUME ~RecheckMayReject, TypeInv, TypeInv', AnchorInv, [Next]_vars
  PROVE  AnchorInv'
<1>1. ASSUME NEW T \in Batches, DispatchWorker(T) PROVE AnchorInv'
  <2>1. Current' = Current + 1 /\ Targets' = T /\ Current \in Nat
    BY <1>1 DEF DispatchWorker, TypeInv, TypeOK, Current, Targets
  <2>2. \A o \in script' : /\ o.op = "settle"
                           /\ \E t \in DOMAIN anchors : anchors[t] = o.id
                           /\ \A t \in DOMAIN anchors : anchors[t] = o.id => t \notin T
    BY <1>1 DEF DispatchWorker, PrepareScript, UnrelatedAnchorIds, AnchorIds, Owners, Scope
  <2>3. \A o, p \in script' : o.id = p.id => o = p
    BY <1>1 DEF DispatchWorker, PrepareScript
  <2>4. \A t \in DOMAIN anchors : anchors[t] <= Current
    BY DEF AnchorInv, AnchorAge
  <2>5. AnchorsLive' /\ RemovalsUnanchored' /\ SettlesAnchors' /\ ScriptEmpty'
    BY <1>1, <2>1, <2>2, <2>3 DEF DispatchWorker, AnchorInv, AnchorsLive,
       RemovalsUnanchored, SettlesAnchors, ScriptEmpty
  <2>6. BatchStatus' /\ OpenHasArchive'
    BY <1>1, <2>1 DEF DispatchWorker, BatchStatus, OpenHasArchive, TargetsAre
  <2>7. \A t \in DOMAIN anchors : anchors[t] # Current'
    BY <2>1, <2>4 DEF TypeInv, TypeOK, Dispatches
  <2>8. FirstJudgement' /\ AnchorAge'
    BY <1>1, <2>1, <2>4, <2>7 DEF DispatchWorker, FirstJudgement, AnchorAge, TypeInv, TypeOK, Dispatches
  <2>9. SharedAnchors'
    BY <1>1 DEF DispatchWorker, AnchorInv, SharedAnchors, TypeInv, TypeOK
  <2> QED
    BY <2>5, <2>6, <2>8, <2>9 DEF AnchorInv
<1>2. CASE DispatchQa
  <2>1. Targets' = Targets /\ Current' = Current
    BY <1>2 DEF DispatchQa, Current, Targets
  <2>2. \A o \in script' : /\ o.op = "settle"
                           /\ \E t \in DOMAIN anchors : anchors[t] = o.id
                           /\ \A t \in DOMAIN anchors : anchors[t] = o.id => t \notin Targets
    BY <1>2 DEF DispatchQa, PrepareScript, UnrelatedAnchorIds, AnchorIds, Owners, Scope
  <2>3. \A o, p \in script' : o.id = p.id => o = p
    BY <1>2 DEF DispatchQa, PrepareScript
  <2>4. AnchorsLive' /\ RemovalsUnanchored' /\ SettlesAnchors' /\ ScriptEmpty'
    BY <1>2, <2>1, <2>2, <2>3 DEF DispatchQa, AnchorInv, AnchorsLive,
       RemovalsUnanchored, SettlesAnchors, ScriptEmpty
  <2>5. Open /\ TargetsAre("fixed")
    BY <1>2 DEF DispatchQa, Open, TargetsAre, Current
  <2>6. BatchStatus' /\ OpenHasArchive' /\ FirstJudgement'
    BY <1>2, <2>1, <2>5
    DEF DispatchQa, BatchStatus, OpenHasArchive, FirstJudgement, TargetsAre, AnchorInv
  <2>7. AnchorAge' /\ SharedAnchors'
    BY <1>2, <2>1 DEF DispatchQa, AnchorAge, SharedAnchors, AnchorInv
  <2> QED
    BY <2>4, <2>6, <2>7 DEF AnchorInv
<1>3. ASSUME NEW t \in Workarounds, Pivot(t) PROVE AnchorInv'
  <2>1. Targets' = Targets /\ Current' = Current
    BY <1>3 DEF Pivot, Current, Targets
  <2>0. phase' = phase /\ attempts' = attempts
    BY <1>3 DEF Pivot
  <2>2. \A u \in Tasks : /\ status'[u] = "fixed" => status[u] = "fixed"
                         /\ status[u] = "fixed" => status'[u] = "fixed"
                         /\ status[u] = "closed" => status'[u] = "closed"
    BY <1>3, ParentAssumption DEF Pivot, TypeInv, TypeOK
  <2>3. Targets \subseteq Tasks \/ Len(attempts) = 0
    BY CurrentType DEF TypeInv, TypeOK
  <2>4. Open' => Open
    BY <2>0, <2>1, <2>2, <2>3 DEF Open, TargetsAre
  <2>5. AnchorsLive' /\ RemovalsUnanchored' /\ SettlesAnchors' /\ ScriptEmpty' /\ BatchStatus'
    BY <1>3 DEF Pivot, AnchorInv, AnchorsLive, RemovalsUnanchored, SettlesAnchors,
       ScriptEmpty, BatchStatus, Preparing
  <2>6. OpenHasArchive' /\ FirstJudgement'
    BY <1>3, <2>1, <2>4 DEF Pivot, AnchorInv, OpenHasArchive, FirstJudgement
  <2>7. AnchorAge' /\ SharedAnchors'
    BY <1>3, <2>1, <2>2 DEF Pivot, AnchorInv, AnchorAge, SharedAnchors, TypeInv, TypeOK
  <2> QED
    BY <2>5, <2>6, <2>7 DEF AnchorInv
<1>4. ASSUME NEW t \in Tasks, GiveUp(t) PROVE AnchorInv'
  <2>1. Targets' = Targets /\ Current' = Current
    BY <1>4 DEF GiveUp, Current, Targets
  <2>0. phase' = phase /\ attempts' = attempts
    BY <1>4 DEF GiveUp
  <2>2. \A u \in Tasks : /\ status'[u] = "fixed" => status[u] = "fixed"
                         /\ status[u] = "fixed" => status'[u] = "fixed"
                         /\ status[u] = "closed" => status'[u] = "closed"
    BY <1>4 DEF GiveUp, TypeInv, TypeOK
  <2>3. Targets \subseteq Tasks \/ Len(attempts) = 0
    BY CurrentType DEF TypeInv, TypeOK
  <2>4. Open' => Open
    BY <2>0, <2>1, <2>2, <2>3 DEF Open, TargetsAre
  <2>5. AnchorsLive' /\ RemovalsUnanchored' /\ SettlesAnchors' /\ ScriptEmpty' /\ BatchStatus'
    BY <1>4 DEF GiveUp, AnchorInv, AnchorsLive, RemovalsUnanchored, SettlesAnchors,
       ScriptEmpty, BatchStatus, Preparing
  <2>6. OpenHasArchive' /\ FirstJudgement'
    BY <1>4, <2>1, <2>4 DEF GiveUp, AnchorInv, OpenHasArchive, FirstJudgement
  <2>7. AnchorAge' /\ SharedAnchors'
    BY <1>4, <2>1, <2>2 DEF GiveUp, AnchorInv, AnchorAge, SharedAnchors, TypeInv, TypeOK
  <2> QED
    BY <2>5, <2>6, <2>7 DEF AnchorInv
<1>5. CASE Teardown
  BY <1>5 DEF Teardown, AnchorInv, AnchorsLive, RemovalsUnanchored, SettlesAnchors,
     Preparing, ScriptEmpty, BatchStatus, Open, FirstJudgement, OpenHasArchive, AnchorAge,
     SharedAnchors
<1>6. ASSUME NEW o \in script, RunRestore(o) PROVE AnchorInv'
  <2>1. /\ Targets' = Targets /\ Current' = Current /\ phase' = phase
        /\ script' \subseteq script /\ status' = status /\ rechecked' = rechecked
        /\ attempts' = attempts /\ Preparing' = Preparing
    BY <1>6 DEF RunRestore, Current, Targets, Preparing
  <2>2. script # {} /\ (Open' <=> Open)
    BY <2>1 DEF Open, TargetsAre
  <2>3. ScriptEmpty' /\ BatchStatus'
    BY <2>1, <2>2 DEF AnchorInv, ScriptEmpty, BatchStatus, TargetsAre
  <2>4. CASE anchors' = anchors /\ archives' = archives
    BY <2>1, <2>2, <2>3, <2>4 DEF AnchorInv, AnchorsLive, RemovalsUnanchored,
       SettlesAnchors, FirstJudgement, OpenHasArchive, AnchorAge, SharedAnchors
  <2>5. CASE Restored(o) /\ o.op = "settle"
    <3>1. archives' = Without(archives, {o.id})
      BY <2>5 DEF Restored
    <3>2. anchors' = IF Preparing THEN Without(anchors, Owners(o.id)) ELSE anchors
      BY <2>5 DEF Restored
    <3>3. /\ DOMAIN anchors' \subseteq DOMAIN anchors
          /\ \A t \in DOMAIN anchors' : anchors'[t] = anchors[t]
          /\ Preparing => DOMAIN anchors' = {t \in DOMAIN anchors : anchors[t] # o.id}
          /\ ~Preparing => DOMAIN anchors' = DOMAIN anchors
      BY <3>2 DEF Without, Owners
    <3>4. DOMAIN archives' = DOMAIN archives \ {o.id}
      BY <3>1 DEF Without
    <3>5. AnchorsLive'
      <4>1. phase \in {"raising", "raised"} \/ Preparing \/ phase = "settle"
        BY <2>2 DEF AnchorInv, ScriptEmpty, Preparing, TypeInv, TypeOK, Phases
      <4>2. CASE phase \in {"raising", "raised"}
        BY <2>1, <4>2 DEF AnchorsLive
      <4>3. CASE Preparing
        BY <2>1, <3>3, <3>4, <4>3 DEF AnchorInv, AnchorsLive
      <4>4. CASE phase = "settle"
        BY <2>1, <2>5, <3>3, <3>4, <4>4 DEF AnchorInv, AnchorsLive, RemovalsUnanchored
      <4> QED
        BY <4>1, <4>2, <4>3, <4>4
    <3>6. RemovalsUnanchored'
      BY <2>1, <3>3 DEF AnchorInv, RemovalsUnanchored
    <3>7. SettlesAnchors'
      <4> SUFFICES ASSUME Preparing PROVE SettlesAnchors'
        BY <2>1 DEF SettlesAnchors
      <4>1. \A p \in script' : p.id # o.id
        BY <1>6 DEF RunRestore, AnchorInv, SettlesAnchors
      <4> QED
        BY <2>1, <3>3, <4>1 DEF AnchorInv, SettlesAnchors
    <3>8. OpenHasArchive'
      <4> SUFFICES ASSUME Open, phase # "prepare_worker" PROVE o.id # Current
        BY <2>1, <2>2, <3>4 DEF AnchorInv, OpenHasArchive
      <4>1. phase = "prepare_qa"
        BY <2>2 DEF Open, AnchorInv, ScriptEmpty, BatchStatus
      <4> QED
        BY <4>1 DEF AnchorInv, SettlesAnchors, Preparing, AnchorAge
    <3>9. FirstJudgement' /\ AnchorAge' /\ SharedAnchors'
      BY <2>1, <2>2, <3>3 DEF AnchorInv, FirstJudgement, AnchorAge, SharedAnchors
    <3> QED
      BY <2>3, <3>5, <3>6, <3>7, <3>8, <3>9 DEF AnchorInv
  <2> QED
    BY <1>6, <2>4, <2>5 DEF RunRestore, Restored, RestoreFails, RemoveFails
<1>7. ASSUME NEW o \in script, RunDiscard(o) PROVE AnchorInv'
  <2>1. /\ Targets' = Targets /\ Current' = Current /\ phase' = phase /\ anchors' = anchors
        /\ script' \subseteq script /\ status' = status /\ rechecked' = rechecked
        /\ attempts' = attempts /\ Preparing' = Preparing
    BY <1>7 DEF RunDiscard, Current, Targets, Preparing
  <2>2. script # {} /\ (Open' <=> Open) /\ o.op = "discard"
    BY <1>7, <2>1 DEF Open, TargetsAre, RunDiscard
  <2>3. phase \in {"raising", "raised", "settle"}
    BY <2>2 DEF AnchorInv, ScriptEmpty, SettlesAnchors, Preparing, TypeInv, TypeOK, Phases
  <2>4. DOMAIN archives \ {o.id} \subseteq DOMAIN archives'
    BY <1>7 DEF RunDiscard, Without
  <2>5. AnchorsLive'
    BY <2>1, <2>2, <2>3, <2>4 DEF AnchorInv, AnchorsLive, RemovalsUnanchored
  <2>6. OpenHasArchive'
    BY <2>1, <2>2, <2>3 DEF AnchorInv, OpenHasArchive, Open, BatchStatus
  <2>7. /\ ScriptEmpty' /\ BatchStatus' /\ RemovalsUnanchored' /\ SettlesAnchors'
        /\ FirstJudgement' /\ AnchorAge' /\ SharedAnchors'
    BY <2>1, <2>2, <2>3 DEF AnchorInv, ScriptEmpty, BatchStatus, TargetsAre,
       RemovalsUnanchored, SettlesAnchors, Preparing, FirstJudgement, AnchorAge,
       SharedAnchors
  <2> QED
    BY <2>5, <2>6, <2>7 DEF AnchorInv
<1>8. CASE AbandonDispatch
  <2>1. Targets' = Targets /\ Current' = Current
    BY <1>8 DEF AbandonDispatch, Current, Targets
  <2>2. AnchorsLive' /\ RemovalsUnanchored' /\ SettlesAnchors' /\ ScriptEmpty'
    BY <1>8, <2>1 DEF AbandonDispatch, AnchorInv, AnchorsLive, RemovalsUnanchored,
       SettlesAnchors, Preparing, ScriptEmpty
  <2>3. phase # "prepare_worker" => (Open' => Open)
    BY <1>8, <2>1 DEF AbandonDispatch, Preparing, Open, TargetsAre
  <2>4. TargetsAre("workable") => ~TargetsAre("fixed")
    BY <1>8, CurrentType, BatchAssumption
    DEF TargetsAre, AbandonDispatch, Preparing, TypeInv, Dispatched
  <2>5. Open' => Open /\ phase # "prepare_worker"
    BY <1>8, <2>1, <2>3, <2>4 DEF AbandonDispatch, AnchorInv, BatchStatus, Open, TargetsAre
  <2>6. BatchStatus' /\ FirstJudgement' /\ OpenHasArchive'
    BY <1>8, <2>1, <2>5 DEF AbandonDispatch, AnchorInv, BatchStatus, TargetsAre,
       FirstJudgement, OpenHasArchive
  <2>7. AnchorAge' /\ SharedAnchors'
    BY <1>8, <2>1 DEF AbandonDispatch, AnchorInv, AnchorAge, SharedAnchors
  <2> QED
    BY <2>2, <2>6, <2>7 DEF AnchorInv
<1>9. CASE SnapshotWorkspace
  <2>1. Targets' = Targets /\ Current' = Current
    BY <1>9 DEF SnapshotWorkspace, Current, Targets
  <2>2. DOMAIN archives \subseteq DOMAIN archives'
    BY <1>9 DEF SnapshotWorkspace
  <2>3. phase' = "worker" => Current \in DOMAIN archives'
    BY <1>9 DEF SnapshotWorkspace
  <2>4. TargetsAre("workable") /\ Len(attempts) > 0
    BY <1>9 DEF SnapshotWorkspace, AnchorInv, BatchStatus, TypeInv, Dispatched
  <2>5. ~TargetsAre("fixed")
    BY <2>4, CurrentType, BatchAssumption DEF TargetsAre, TypeInv
  <2>6. /\ anchors' = anchors /\ status' = status /\ rechecked' = rechecked
        /\ attempts' = attempts /\ script' = {} /\ phase = "prepare_worker"
        /\ phase' \in {"worker", "supervisor"}
    BY <1>9 DEF SnapshotWorkspace
  <2>7. AnchorsLive' /\ OpenHasArchive'
    BY <2>1, <2>2, <2>3, <2>5, <2>6
    DEF AnchorInv, AnchorsLive, OpenHasArchive, Open, TargetsAre
  <2>8. FirstJudgement' /\ BatchStatus'
    BY <2>1, <2>4, <2>5, <2>6
    DEF AnchorInv, FirstJudgement, Open, BatchStatus, TargetsAre
  <2>9. /\ RemovalsUnanchored' /\ SettlesAnchors' /\ ScriptEmpty'
        /\ AnchorAge' /\ SharedAnchors'
    BY <2>1, <2>6 DEF AnchorInv, RemovalsUnanchored, SettlesAnchors, Preparing,
       ScriptEmpty, AnchorAge, SharedAnchors
  <2> QED
    BY <2>7, <2>8, <2>9 DEF AnchorInv
<1>10. CASE EnterQa
  <2>1. Targets' = Targets /\ Current' = Current
    BY <1>10 DEF EnterQa, Current, Targets
  <2> QED
    BY <1>10, <2>1 DEF EnterQa, AnchorInv, AnchorsLive, RemovalsUnanchored, SettlesAnchors,
       Preparing, ScriptEmpty, BatchStatus, TargetsAre, Open, FirstJudgement,
       OpenHasArchive, AnchorAge, SharedAnchors
<1>11. CASE WorkerSucceeds
  <2>1. Targets' = Targets /\ Current' = Current
    BY <1>11 DEF WorkerSucceeds, Current, Targets
  <2>2. Open /\ ~rechecked /\ TargetsAre("workable")
    BY <1>11 DEF WorkerSucceeds, Open, AnchorInv, BatchStatus
  <2>3. /\ AnchorsLive' /\ RemovalsUnanchored' /\ SettlesAnchors' /\ ScriptEmpty'
        /\ BatchStatus' /\ FirstJudgement' /\ OpenHasArchive' /\ AnchorAge'
    BY <1>11, <2>1, <2>2 DEF WorkerSucceeds, AnchorInv, AnchorsLive, RemovalsUnanchored,
       SettlesAnchors, Preparing, ScriptEmpty, BatchStatus, FirstJudgement,
       OpenHasArchive, AnchorAge
  <2>4. \A u \in Tasks \ Targets : status'[u] = status[u]
    BY <1>11 DEF WorkerSucceeds
  <2>5. \A u \in DOMAIN anchors : anchors[u] # Current
    BY <2>2 DEF AnchorInv, FirstJudgement
  <2>6. \A t, u \in DOMAIN anchors : t # u /\ anchors[t] = anchors[u] =>
          status'[t] = "closed" /\ status'[u] = "closed"
    BY <2>2, <2>4, <2>5 DEF AnchorInv, SharedAnchors, TargetsAre, TypeInv, TypeOK
  <2>7. SharedAnchors'
    BY <1>11, <2>6 DEF WorkerSucceeds, SharedAnchors
  <2> QED
    BY <2>3, <2>7 DEF AnchorInv
<1>12. CASE WorkerFails
  <2>1. Targets' = Targets /\ Current' = Current
    BY <1>12 DEF WorkerFails, Current, Targets
  <2>2. Open /\ ~rechecked /\ TargetsAre("workable") /\ Len(attempts) > 0
    BY <1>12 DEF WorkerFails, Open, AnchorInv, BatchStatus, TypeInv, Dispatched
  <2>3. \A u \in DOMAIN anchors : anchors[u] # Current
    BY <2>2 DEF AnchorInv, FirstJudgement
  <2>4. \A o \in script' : o.op # "restore" => o.id = Current
    BY <1>12 DEF WorkerFails, RestoreFailedUpdate, RestoreRetained, Apply
  <2>5. /\ \A u \in Targets : status'[u] # "fixed"
        /\ \A u \in Tasks : status[u] = "closed" => status'[u] = "closed"
    BY <1>12, <2>2, CurrentType DEF WorkerFails, TargetsAre, TypeInv, TypeOK
  <2>6. ~TargetsAre("fixed")'
    BY <2>1, <2>2, <2>5, CurrentType, BatchAssumption DEF TargetsAre, TypeInv
  <2>7. RemovalsUnanchored'
    BY <1>12, <2>3, <2>4 DEF WorkerFails, RemovalsUnanchored
  <2>8. BatchStatus' /\ FirstJudgement' /\ OpenHasArchive'
    BY <1>12, <2>6 DEF WorkerFails, BatchStatus, FirstJudgement, OpenHasArchive, Open
  <2>9. AnchorsLive' /\ SettlesAnchors' /\ ScriptEmpty' /\ AnchorAge'
    BY <1>12, <2>1 DEF WorkerFails, AnchorInv, AnchorsLive, SettlesAnchors, Preparing,
       ScriptEmpty, AnchorAge
  <2>10. SharedAnchors'
    BY <1>12, <2>3, <2>5 DEF WorkerFails, AnchorInv, SharedAnchors, TypeInv, TypeOK
  <2> QED
    BY <2>7, <2>8, <2>9, <2>10 DEF AnchorInv
<1>13. ASSUME NEW evals \in [Targets -> Verdicts], QaEvaluates(evals) PROVE AnchorInv'
  BY <1>13, QaEvaluatesAnchorInv
<1>14. ASSUME NEW evals \in [Targets -> Verdicts], DeltaInconclusive(evals) PROVE AnchorInv'
  BY <1>14, DeltaInconclusiveAnchorInv
<1>15. CASE WrapperReturns
  <2>1. Targets' = Targets /\ Current' = Current
    BY <1>15 DEF WrapperReturns, Current, Targets
  <2> QED
    BY <1>15, <2>1 DEF WrapperReturns, AnchorInv, AnchorsLive, RemovalsUnanchored, SettlesAnchors,
       Preparing, ScriptEmpty, BatchStatus, TargetsAre, Open, FirstJudgement,
       OpenHasArchive, AnchorAge, SharedAnchors
<1>16. CASE WorkerRaises
  <2>1. Targets' = Targets /\ Current' = Current
    BY <1>16 DEF WorkerRaises, Current, Targets
  <2>2. phase' = "raising" /\ anchors' = anchors /\ status' = status
    BY <1>16 DEF WorkerRaises
  <2> QED
    BY <2>1, <2>2 DEF AnchorInv, AnchorsLive, RemovalsUnanchored, SettlesAnchors,
       Preparing, ScriptEmpty, BatchStatus, Open, FirstJudgement, OpenHasArchive,
       AnchorAge, SharedAnchors
<1>17. CASE QaRaises
  <2>1. Targets' = Targets /\ Current' = Current
    BY <1>17 DEF QaRaises, Current, Targets
  <2>2. phase' = "raising" /\ anchors' = anchors /\ status' = status
    BY <1>17 DEF QaRaises
  <2> QED
    BY <2>1, <2>2 DEF AnchorInv, AnchorsLive, RemovalsUnanchored, SettlesAnchors,
       Preparing, ScriptEmpty, BatchStatus, Open, FirstJudgement, OpenHasArchive,
       AnchorAge, SharedAnchors
<1>18. CASE RunAborts
  <2>1. Targets' = Targets /\ Current' = Current
    BY <1>18 DEF RunAborts, Current, Targets
  <2>2. phase' = "raised" /\ script' = {} /\ anchors' = anchors /\ status' = status
    BY <1>18 DEF RunAborts
  <2> QED
    BY <2>1, <2>2 DEF AnchorInv, AnchorsLive, RemovalsUnanchored, SettlesAnchors,
       Preparing, ScriptEmpty, BatchStatus, Open, FirstJudgement, OpenHasArchive,
       AnchorAge, SharedAnchors
<1>19. CASE UNCHANGED vars
  BY <1>19 DEF vars, AnchorInv, AnchorsLive, RemovalsUnanchored, SettlesAnchors,
     Preparing, ScriptEmpty, BatchStatus, TargetsAre, Targets, Current, Open,
     FirstJudgement, OpenHasArchive, AnchorAge, SharedAnchors
<1> QED
  BY <1>1, <1>2, <1>3, <1>4, <1>5, <1>6, <1>7, <1>8, <1>9, <1>10, <1>11, <1>12,
     <1>13, <1>14, <1>15, <1>16, <1>17, <1>18, <1>19 DEF Next

\* Every anchor names an archive that exists whenever the Supervisor has
\* control: AnchorsHaveArchives of run WTFaults, for every queue, when a QA rerun
\* never rejects.
THEOREM AnchorsNeverDangle ==
  ASSUME ~RecheckMayReject
  PROVE  Spec => []AnchorsHaveArchives
<1>1. Init => TypeInv /\ AnchorInv
  BY InitTypeInv, InitAnchorInv
<1>2. TypeInv /\ AnchorInv /\ [Next]_vars => TypeInv' /\ AnchorInv'
  BY NextTypeInv, NextAnchorInv
<1>3. AnchorInv => AnchorsHaveArchives
  BY DEF AnchorInv, AnchorsLive, AnchorsHaveArchives
<1> QED
  BY <1>1, <1>2, <1>3, PTL DEF Spec

\* Only a failing archive operation blocks a preparation: the archives a
\* wrapper has to settle are there, because they are anchored.
LEMMA NextNeverWedged ==
  ASSUME TypeInv, AnchorInv, DispatchNeverWedged, [Next]_vars
  PROVE  DispatchNeverWedged'
<1>1. ASSUME NEW o \in script, RunRestore(o) PROVE DispatchNeverWedged'
  <2>1. CASE Restored(o)
    BY <1>1, <2>1 DEF Restored, DispatchNeverWedged
  <2>2. CASE RestoreFails(o)
    <3>1. Preparing => o.id \in DOMAIN archives
      BY <1>1 DEF AnchorInv, SettlesAnchors, AnchorsLive, Preparing
    <3>2. faults' = faults \/ faults' = faults + 1
      BY <2>2 DEF RestoreFails
    <3>3. blocked' => blocked \/ faults' = faults + 1
      BY <2>2, <3>1 DEF RestoreFails
    <3> QED
      BY <3>2, <3>3, BoundAssumption DEF DispatchNeverWedged, TypeInv, TypeOK
  <2>3. CASE RemoveFails(o)
    <3>1. faults' = faults + 1
      BY <2>3 DEF RemoveFails
    <3> QED
      BY <3>1, BoundAssumption DEF DispatchNeverWedged, TypeInv, TypeOK
  <2> QED
    BY <1>1, <2>1, <2>2, <2>3 DEF RunRestore
<1>2. ASSUME NEW o \in script, RunDiscard(o) PROVE DispatchNeverWedged'
  BY <1>2, BoundAssumption DEF RunDiscard, DispatchNeverWedged, TypeInv, TypeOK
<1>3. CASE SnapshotWorkspace
  BY <1>3, BoundAssumption DEF SnapshotWorkspace, DispatchNeverWedged, TypeInv, TypeOK
<1>4. CASE AbandonDispatch
  BY <1>4 DEF AbandonDispatch, DispatchNeverWedged
<1>5. CASE blocked' = blocked /\ faults' = faults
  BY <1>5 DEF DispatchNeverWedged
<1>6. \/ \E o \in script : RunRestore(o) \/ RunDiscard(o)
      \/ SnapshotWorkspace
      \/ AbandonDispatch
      \/ blocked' = blocked /\ faults' = faults
  BY DEF Next, vars, DispatchWorker, DispatchQa, Pivot, GiveUp, Teardown, EnterQa,
     WorkerSucceeds, WorkerFails, QaEvaluates, DeltaInconclusive, WrapperReturns,
     WorkerRaises, QaRaises, RunAborts
<1> QED
  BY <1>1, <1>2, <1>3, <1>4, <1>5, <1>6

\* A preparation is blocked only if an archive operation has failed:
\* DispatchNeverWedged of run WTFaults, for every queue.
THEOREM PreparationNeverWedges ==
  ASSUME ~RecheckMayReject
  PROVE  Spec => []DispatchNeverWedged
<1>1. Init => TypeInv /\ AnchorInv /\ DispatchNeverWedged
  BY InitTypeInv, InitAnchorInv DEF Init, DispatchNeverWedged
<1>2. TypeInv /\ AnchorInv /\ DispatchNeverWedged /\ [Next]_vars
        => TypeInv' /\ AnchorInv' /\ DispatchNeverWedged'
  BY NextTypeInv, NextAnchorInv, NextNeverWedged
<1> QED
  BY <1>1, <1>2, PTL DEF Spec

-----------------------------------------------------------------------------
(* As long as no archive operation has failed: no candidate leaks into       *)
(* another task's dispatch, no rollback undoes an accepted edit, every       *)
(* unaccepted edit can be rolled back, QA judges the workspace its worker    *)
(* left, and a run that is aborted leaves the accepted workspace.  This      *)
(* part assumes that delta canaries are conclusive (README, Known            *)
(* deviations).                                                              *)
(*                                                                           *)
(* What the properties rest on is a relation between the anchors, what their *)
(* archives hold and who made the edits that are live.                       *)

Anchored == DOMAIN anchors
Unaccepted == live \ accepted
Spawned(t) == status[t] # "unspawned"
Pivoted(t) == \E c \in Tasks : Parent[c] = t /\ Spawned(c)
Ended == phase \in {"raising", "raised", "teardown"}

\* An edit is covered when a task of its dispatch is anchored.
Covered(edits) == \A n \in edits : attempts[n] \cap Anchored # {}

\* What a preparing wrapper has yet to do is what it would plan to do now.
ScriptIsPlan == Preparing => script = PrepareScript(Targets)

\* As long as a batch may be judged, nothing is anchored that its preparation
\* would have to restore.
StaysPrepared == Open /\ phase # "prepare_worker" => PrepareScript(Targets) = {}

\* An anchored task that may be dispatched again, or awaits its first judgement,
\* is an update and the only one anchored.
LoneRetry ==
  ~Ended => \A t \in Anchored : status[t] = "workable" \/ (Open /\ ~rechecked /\ t \in Targets)
                                  => Anchored = {t} /\ t \notin Workarounds

\* An anchored update that has spawned its workaround shares the anchors with it alone.
PivotAlone == ~Ended => \A t \in Anchored : Pivoted(t) => \A u \in Anchored : u = t \/ Parent[u] = t

\* A parent has one spawned child, and has ended; anchored tasks have been dispatched.
OneChild ==
  /\ \A t \in Tasks : Pivoted(t) => status[t] = "closed"
  /\ \A c, d \in Tasks : Spawned(c) /\ Spawned(d) /\ Parent[c] = Parent[d] /\ Parent[c] # NoTask => c = d
  /\ \A t \in Anchored : Spawned(t)

\* The baseline of an anchored task is the accepted workspace, or for a workaround
\* that workspace with the edits of its anchored parent, taken later than the parent's.
BasesAreClean ==
  ~Ended => \A t \in Anchored :
    /\ accepted \subseteq archives[anchors[t]]
    /\ \/ archives[anchors[t]] \subseteq accepted
       \/ /\ Parent[t] \in Anchored
          /\ \A n \in archives[anchors[t]] \ accepted : Parent[t] \in attempts[n]
    /\ Parent[t] \in Anchored => anchors[Parent[t]] < anchors[t]

\* The archive of a batch that may be judged holds the workspace its worker found:
\* nothing unaccepted for a cluster, else edits that are covered.
BatchArchive ==
  Open /\ phase # "prepare_worker" =>
    /\ accepted \subseteq archives[Current]
    /\ Covered(archives[Current] \ accepted)
    /\ IsCluster(Targets) => archives[Current] \subseteq accepted
    /\ live = IF phase = "worker" THEN archives[Current] ELSE archives[Current] \cup {Current}

\* Archives are of dispatches made; none holds an edit of its own or a later one.
ArchivesPrecede ==
  /\ \A id \in DOMAIN archives : id <= Current /\ \A n \in archives[id] : n < id
  /\ \A n \in live : n <= Current /\ (phase = "prepare_worker" => n < Current)

\* Outside a judgement everything unaccepted in the workspace is covered, and a
\* cluster that keeps an anchor found no edit of its tasks.
LiveIsCovered ==
  /\ (phase = "supervisor" /\ ~Open) \/ phase = "prepare_worker" => Covered(Unaccepted)
  /\ phase = "prepare_worker" /\ IsCluster(Targets) /\ Anchored \cap Targets # {} =>
       \A n \in Unaccepted : attempts[n] \cap Targets = {}

\* A finishing wrapper restores what is covered, and ends with such a workspace.
Restores(o) == o.op # "discard"
SettleIsSafe ==
  phase = "settle" =>
    /\ \A o \in script : Restores(o) =>
         /\ o.id \in DOMAIN archives
         /\ accepted \subseteq archives[o.id] /\ Covered(archives[o.id] \ accepted)
         /\ o.op = "restore" => \A p \in script : p.op # "restore" => p.id # o.id
         /\ o.op = "settle" => script = {o}
    /\ Open \/ Covered(Unaccepted) \/ \E o \in script : Restores(o)

\* The cleanup after an exception ends with the accepted workspace.
Harmless(o) == Restores(o) /\ o.id \in DOMAIN archives => archives[o.id] = accepted
RaiseIsSafe ==
  /\ phase = "raising" =>
       /\ \A o \in script : Restores(o) /\ o.id \in DOMAIN archives => accepted \subseteq archives[o.id]
       /\ \/ live = accepted /\ \A o \in script : Harmless(o)
          \/ \E o \in script :
               /\ Restores(o) /\ o.id \in DOMAIN archives /\ archives[o.id] = accepted
               /\ \A p \in script :
                    /\ p.turn <= o.turn => p = o \/ p.id # o.id
                    /\ p.turn >= o.turn => Harmless(p)
  /\ phase = "raised" => live = accepted

AcceptedIsLive == accepted \subseteq live

IsolationInv ==
  /\ ScriptIsPlan /\ StaysPrepared
  /\ LoneRetry /\ PivotAlone /\ OneChild
  /\ BasesAreClean /\ BatchArchive /\ ArchivesPrecede
  /\ LiveIsCovered /\ SettleIsSafe /\ RaiseIsSafe /\ AcceptedIsLive

\* What the steps start from: no operation has failed, so nothing is blocked.
Good == TypeInv /\ AnchorInv /\ IsolationInv /\ ~blocked

-----------------------------------------------------------------------------
(* The shape of batches, plans and anchors. *)

\* A batch is a lone workaround, or made of updates, which have no parents.
LEMMA BatchShape ==
  ASSUME NEW T \in Batches
  PROVE  /\ T # {} /\ T \subseteq Tasks
         /\ \/ \E c \in Workarounds : T = {c} /\ IsWorkaround(T) /\ Scope(T) = {c} \cup ({Parent[c]} \ {NoTask})
            \/ T \cap Workarounds = {} /\ ~IsWorkaround(T) /\ Scope(T) = T /\ Parents(T) = {}
PROOF
  <1>1. T # {} /\ T \subseteq Tasks
    BY BatchAssumption
  <1>2. CASE T \cap Workarounds # {}
    <2>1. PICK c \in Workarounds : T = {c}
      BY <1>2, BatchAssumption
    <2> QED BY <1>1, <2>1 DEF IsWorkaround, Scope, Parents
  <1>3. CASE T \cap Workarounds = {}
    <2>1. \A t \in T : Parent[t] = NoTask
      BY <1>1, <1>3, ParentAssumption
    <2>2. Parents(T) = {}
      BY <2>1 DEF Parents
    <2> QED BY <1>1, <1>3, <2>2 DEF IsWorkaround, Scope
  <1> QED BY <1>2, <1>3

\* Nothing is left to settle when the candidate is kept, or when every baseline
\* belongs to a task in scope.
LEMMA EmptyPlan ==
  ASSUME NEW T, PrepareScript(T) = {}, ~PreservesCandidate(T), TypeInv, NEW t \in Anchored
  PROVE  \E u \in Anchored : anchors[u] = anchors[t] /\ u \in Scope(T)
PROOF
  <1>1. t \in Tasks /\ anchors[t] \in AnchorIds(Tasks)
    BY DEF TypeInv, TypeOK, Anchored, AnchorIds
  <1>2. UnrelatedAnchorIds(T) = {}
    BY DEF PrepareScript
  <1>3. Owners(anchors[t]) \cap Scope(T) # {}
    BY <1>1, <1>2 DEF UnrelatedAnchorIds
  <1> QED BY <1>3 DEF Owners, Anchored

\* The batch that holds the workspace is of a kind BatchShape knows.
LEMMA TargetsShape ==
  ASSUME TypeInv, Open PROVE Len(attempts) > 0 /\ Current \in Dispatches /\ Targets \in Batches
  BY CurrentType DEF Open, TypeInv, Dispatched

\* Once prepared, only tasks in scope are anchored.
LEMMA AnchoredInScope ==
  ASSUME TypeInv, AnchorInv, LoneRetry, PivotAlone, OneChild, Open, PrepareScript(Targets) = {}
  PROVE  Anchored \subseteq Scope(Targets)
PROOF
  <1>1. Targets \in Batches /\ Targets # {} /\ Targets \subseteq Tasks
    BY TargetsShape, BatchShape
  <1>2. ~Ended /\ ((TargetsAre("workable") /\ ~rechecked) \/ TargetsAre("fixed"))
    BY DEF Open, Ended, AnchorInv, BatchStatus
  <1> SUFFICES ASSUME NEW t \in Anchored PROVE t \in Scope(Targets)
    OBVIOUS
  <1>3. CASE PreservesCandidate(Targets)
    <2>1. PICK c \in Workarounds : Targets = {c} /\ Scope(Targets) = {c} \cup ({Parent[c]} \ {NoTask})
      BY <1>1, <1>3, BatchShape DEF PreservesCandidate
    <2>2. Parent[c] \in Anchored /\ c \in Tasks /\ Spawned(c)
      BY <1>1, <1>2, <1>3, <2>1 DEF PreservesCandidate, Anchored, TargetsAre, Spawned
    <2>3. t = Parent[c] \/ Parent[t] = Parent[c]
      BY <1>2, <2>2 DEF PivotAlone, Pivoted
    <2>4. Parent[c] \in Tasks /\ t \in Tasks /\ Spawned(t)
      BY <2>2 DEF TypeInv, TypeOK, Anchored, OneChild
    <2>5. Parent[c] # NoTask
      BY <2>4, ParentAssumption
    <2> QED BY <2>1, <2>2, <2>3, <2>4, <2>5 DEF OneChild
  <1>4. CASE ~PreservesCandidate(Targets)
    <2>1. PICK u \in Anchored : anchors[u] = anchors[t] /\ u \in Scope(Targets)
      BY <1>4, EmptyPlan
    <2>2. CASE u = t
      BY <2>1, <2>2
    <2>3. CASE u # t /\ u \in Targets
      BY <1>1, <1>2, <2>1, <2>3
         DEF AnchorInv, SharedAnchors, AnchorAge, LoneRetry, TargetsAre, Anchored, Scope
    <2>4. CASE u \notin Targets
      <3>1. PICK c \in Workarounds : Targets = {c} /\ u = Parent[c]
        BY <1>1, <2>1, <2>4, BatchShape
      <3> QED BY <1>1, <1>4, <2>1, <3>1, BatchShape DEF PreservesCandidate, Anchored
    <2> QED BY <2>2, <2>3, <2>4
  <1> QED BY <1>3, <1>4

\* A batch that awaits its first judgement has at most one anchored task.
LEMMA FirstAlone ==
  ASSUME TypeInv, AnchorInv, LoneRetry, Open, ~rechecked, NEW t \in Anchored, t \in Targets
  PROVE  Anchored = {t} /\ t \notin Workarounds
  BY DEF LoneRetry, Open, Ended

\* An edit is made by a dispatch that exists.
LEMMA EditsExist ==
  ASSUME Good
  PROVE  /\ Current \in Nat
         /\ \A n \in live : n \in Dispatches /\ n <= Current
         /\ \A t \in Anchored :
              /\ t \in Tasks /\ anchors[t] \in Dispatches /\ anchors[t] <= Current
              /\ ~Ended => /\ anchors[t] \in DOMAIN archives
                           /\ archives[anchors[t]] \subseteq Dispatches
                           /\ \A n \in archives[anchors[t]] : n < Current
PROOF
  <1>1. Current \in Nat /\ live \subseteq Dispatches /\ \A n \in live : n <= Current
    BY DEF Good, TypeInv, TypeOK, IsolationInv, ArchivesPrecede, Current
  <1>2. ASSUME NEW t \in Anchored
        PROVE  t \in Tasks /\ anchors[t] \in Dispatches /\ anchors[t] <= Current
    BY DEF Good, TypeInv, TypeOK, AnchorInv, AnchorAge, Anchored
  <1>3. ASSUME NEW t \in Anchored, ~Ended
        PROVE  /\ anchors[t] \in DOMAIN archives /\ archives[anchors[t]] \subseteq Dispatches
               /\ \A n \in archives[anchors[t]] : n < Current
    <2>1. anchors[t] \in DOMAIN archives
      BY <1>3 DEF Good, AnchorInv, AnchorsLive, Anchored, Ended
    <2>2. archives[anchors[t]] \subseteq Dispatches /\ \A n \in archives[anchors[t]] : n < anchors[t]
      BY <2>1 DEF Good, TypeInv, TypeOK, IsolationInv, ArchivesPrecede
    <2> QED BY <1>1, <1>2, <2>1, <2>2 DEF Dispatches
  <1> QED BY <1>1, <1>2, <1>3

-----------------------------------------------------------------------------
(* The Supervisor's steps. *)

LEMMA DispatchWorkerIsolated ==
  ASSUME Good, NEW T \in Batches, DispatchWorker(T) PROVE IsolationInv'
PROOF
  <1>1. /\ phase = "supervisor" /\ phase' = "prepare_worker" /\ attempts' = Append(attempts, T)
        /\ rechecked' = FALSE /\ script' = PrepareScript(T)
        /\ \A t \in T : status[t] = "workable"
        /\ \A t \in Tasks : status[t] # "fixed"
        /\ JoinsClusterCleanly(T)
        /\ UNCHANGED <<status, blocked, anchors, archives, live, accepted>>
    BY DEF DispatchWorker
  <1>2. /\ Current \in Nat /\ Current' = Current + 1 /\ Targets' = T
        /\ \A n \in Dispatches : n <= Current => attempts'[n] = attempts[n]
    BY <1>1 DEF Good, TypeInv, TypeOK, Current, Targets, Dispatches
  <1>3. T # {} /\ T \subseteq Tasks
    BY BatchShape
  <1>4. ~Open
    BY <1>1, TargetsShape, BatchShape DEF Open, TargetsAre, Good
  <1>5. Anchored' = Anchored /\ ~Ended /\ ~Ended' /\ Unaccepted' = Unaccepted
    BY <1>1 DEF Anchored, Ended, Unaccepted
  <1> USE DEF IsolationInv
  <1>6. ScriptIsPlan'
    BY <1>1, <1>2 DEF ScriptIsPlan, PrepareScript, PreservesCandidate, UnrelatedAnchorIds, AnchorIds, Owners
  <1>7. StaysPrepared' /\ BatchArchive' /\ SettleIsSafe' /\ RaiseIsSafe'
    BY <1>1 DEF StaysPrepared, BatchArchive, SettleIsSafe, RaiseIsSafe
  <1>8. LoneRetry'
    BY <1>1, <1>2, <1>5 DEF LoneRetry, Good
  <1>9. PivotAlone' /\ OneChild' /\ AcceptedIsLive'
    BY <1>1, <1>5 DEF PivotAlone, OneChild, AcceptedIsLive, Pivoted, Spawned, Good
  <1>10. BasesAreClean'
    <2>1. ASSUME NEW t \in Anchored, NEW n \in archives[anchors[t]] PROVE attempts'[n] = attempts[n]
      <3>1. archives[anchors[t]] \subseteq Dispatches /\ \A m \in archives[anchors[t]] : m < Current
        BY <1>5, EditsExist
      <3>2. n \in Dispatches /\ n < Current
        BY <2>1, <3>1
      <3> QED BY <1>2, <3>2 DEF Dispatches
    <2>2. BasesAreClean
      BY DEF Good
    <2> QED BY <1>1, <1>5, <2>1, <2>2 DEF BasesAreClean
  <1>11. ArchivesPrecede'
    BY <1>1, <1>2, EditsExist DEF ArchivesPrecede, Good, Dispatches
  <1>12. LiveIsCovered'
    <2>1. \A n \in Unaccepted : attempts'[n] = attempts[n]
      BY <1>2, EditsExist DEF Unaccepted
    <2>2. Covered(Unaccepted)
      BY <1>1, <1>4 DEF LiveIsCovered, Good
    <2>3. IsCluster(T) => \A n \in Unaccepted : attempts[n] \cap T = {}
      BY <1>1 DEF JoinsClusterCleanly, Unaccepted
    <2> QED BY <1>1, <1>2, <1>5, <2>1, <2>2, <2>3 DEF LiveIsCovered, Covered
  <1> QED BY <1>6, <1>7, <1>8, <1>9, <1>10, <1>11, <1>12

\* QA finds nothing to restore: the workspace it is handed is its worker's.
LEMMA DispatchQaIsolated ==
  ASSUME Good, DispatchQa PROVE IsolationInv'
PROOF
  <1>1. /\ phase = "supervisor" /\ phase' = "prepare_qa" /\ script' = PrepareScript(Targets)
        /\ Current > 0 /\ TargetsAre("fixed")
        /\ UNCHANGED <<status, attempts, rechecked, blocked, anchors, archives, live, accepted>>
    BY DEF DispatchQa, TargetsAre
  <1>2. /\ Current' = Current /\ Targets' = Targets /\ Anchored' = Anchored /\ ~Ended /\ ~Ended'
        /\ Unaccepted' = Unaccepted /\ PrepareScript(Targets)' = PrepareScript(Targets)
    BY <1>1 DEF Current, Targets, Anchored, Ended, Unaccepted, PrepareScript, PreservesCandidate,
                UnrelatedAnchorIds, AnchorIds, Owners
  <1>3. Open /\ Open'
    BY <1>1 DEF Open, Current, TargetsAre, Targets
  <1> USE DEF IsolationInv
  <1>4. ScriptIsPlan' /\ StaysPrepared'
    BY <1>1, <1>2, <1>3 DEF ScriptIsPlan, StaysPrepared, Good
  <1>5. LoneRetry' /\ PivotAlone' /\ OneChild' /\ AcceptedIsLive' /\ BasesAreClean'
    BY <1>1, <1>2, <1>3 DEF LoneRetry, PivotAlone, OneChild, AcceptedIsLive, BasesAreClean, Pivoted, Spawned, Good
  <1>6. BatchArchive' /\ ArchivesPrecede'
    BY <1>1, <1>2, <1>3 DEF BatchArchive, ArchivesPrecede, Covered, Good
  <1>7. LiveIsCovered' /\ SettleIsSafe' /\ RaiseIsSafe'
    BY <1>1 DEF LiveIsCovered, SettleIsSafe, RaiseIsSafe
  <1> QED BY <1>4, <1>5, <1>6, <1>7

\* The update that pivots is the only one anchored, if it is.
LEMMA PivotIsolated ==
  ASSUME Good, NEW c \in Workarounds, Pivot(c) PROVE IsolationInv'
PROOF
  <1>1. /\ phase = "supervisor" /\ status[c] = "unspawned" /\ status[Parent[c]] = "workable"
        /\ status' = [status EXCEPT ![Parent[c]] = "closed", ![c] = "workable"]
        /\ UNCHANGED <<attempts, rechecked, phase, script, blocked, anchors, archives, live, accepted>>
    BY DEF Pivot
  <1>2. /\ Current' = Current /\ Targets' = Targets /\ Anchored' = Anchored /\ ~Ended /\ ~Ended'
        /\ Unaccepted' = Unaccepted /\ PrepareScript(Targets)' = PrepareScript(Targets)
    BY <1>1 DEF Current, Targets, Anchored, Ended, Unaccepted, PrepareScript, PreservesCandidate,
                UnrelatedAnchorIds, AnchorIds, Owners
  <1> USE DEF IsolationInv, Good
  <1>3. c \in Tasks /\ status \in [Tasks -> Statuses] /\ Anchored \subseteq Tasks
    BY ParentAssumption DEF TypeInv, TypeOK, Anchored
  <1>4. \A t \in Tasks : t # c => status'[t] = status[t] \/ (t = Parent[c] /\ status'[t] = "closed")
    BY <1>1, <1>3
  <1>5. c \notin Anchored /\ status'[c] = "workable"
    BY <1>1, <1>3 DEF OneChild, Spawned
  <1>6. Open' <=> Open
    <2>1. Open => Targets \subseteq Tasks /\ Targets # {}
      BY TargetsShape, BatchShape
    <2>2. Open' => Targets \subseteq Tasks /\ Targets # {}
      <3>1. Open' => Len(attempts) > 0
        BY <1>1, <1>2 DEF Open
      <3> QED BY <3>1, CurrentType, BatchShape DEF TypeInv
    <2>3. \A t \in Tasks : status'[t] = "fixed" <=> status[t] = "fixed"
      BY <1>1, <1>3, <1>4, <1>5
    <2> QED BY <1>1, <1>2, <2>1, <2>2, <2>3 DEF Open, TargetsAre
  <1>7. ScriptIsPlan' /\ StaysPrepared'
    BY <1>1, <1>2, <1>6 DEF ScriptIsPlan, StaysPrepared, Preparing
  <1>8. LoneRetry'
    BY <1>1, <1>2, <1>3, <1>4, <1>5, <1>6 DEF LoneRetry
  <1>9. \A t \in Tasks : Spawned(t)' <=> Spawned(t) \/ t = c
    BY <1>1, <1>3, <1>4, <1>5 DEF Spawned
  <1>10. PivotAlone'
    <2> SUFFICES ASSUME NEW t \in Anchored, NEW d \in Tasks, Parent[d] = t, Spawned(d)',
                        NEW u \in Anchored
                 PROVE  u = t \/ Parent[u] = t
      BY <1>1, <1>2 DEF PivotAlone, Pivoted
    <2>1. CASE Spawned(d)
      BY <1>2, <2>1 DEF PivotAlone, Pivoted
    <2>2. CASE d = c
      BY <1>1, <1>2, <2>2 DEF LoneRetry
    <2> QED BY <1>9, <2>1, <2>2
  <1>11. OneChild'
    <2>1. ~Pivoted(Parent[c]) \/ Parent[c] \notin Tasks
      BY <1>1 DEF OneChild
    <2>2. \A t \in Tasks : Pivoted(t)' => status'[t] = "closed"
      <3>1. ASSUME NEW t \in Tasks, NEW d \in Tasks, Parent[d] = t, Spawned(d)'
            PROVE  status'[t] = "closed"
        <4>1. CASE d = c
          BY <1>1, <1>3, <1>4, <3>1, <4>1, ParentAssumption
        <4>2. CASE d # c
          <5>1. status[t] = "closed"
            BY <1>9, <3>1, <4>2 DEF OneChild, Pivoted
          <5> QED BY <1>1, <1>4, <5>1
        <4> QED BY <4>1, <4>2
      <3> QED BY <3>1 DEF Pivoted
    <2>3. \A d \in Tasks : Spawned(d) /\ Parent[d] = Parent[c] => Parent[c] = NoTask
      BY <1>3, <2>1, ParentAssumption DEF Pivoted
    <2>4. ASSUME NEW d \in Tasks, NEW e \in Tasks, Spawned(d)', Spawned(e)', Parent[d] = Parent[e],
                 Parent[d] # NoTask
          PROVE  d = e
      BY <1>9, <2>3, <2>4 DEF OneChild
    <2>5. \A t \in Anchored' : Spawned(t)'
      BY <1>2, <1>3, <1>9 DEF OneChild
    <2> QED BY <2>2, <2>4, <2>5 DEF OneChild
  <1>12. AcceptedIsLive' /\ BasesAreClean' /\ ArchivesPrecede'
    BY <1>1, <1>2 DEF AcceptedIsLive, BasesAreClean, ArchivesPrecede
  <1>13. BatchArchive' /\ LiveIsCovered' /\ SettleIsSafe' /\ RaiseIsSafe'
    BY <1>1, <1>2, <1>6 DEF BatchArchive, LiveIsCovered, SettleIsSafe, RaiseIsSafe, Covered
  <1> QED BY <1>7, <1>8, <1>10, <1>11, <1>12, <1>13

\* A task that is given up was not awaiting QA.
LEMMA GiveUpIsolated ==
  ASSUME Good, NEW g \in Tasks, GiveUp(g) PROVE IsolationInv'
PROOF
  <1>1. /\ phase = "supervisor" /\ status[g] = "workable"
        /\ status' = [status EXCEPT ![g] = "closed"]
        /\ UNCHANGED <<attempts, rechecked, phase, script, blocked, anchors, archives, live, accepted>>
    BY DEF GiveUp
  <1>2. /\ Current' = Current /\ Targets' = Targets /\ Anchored' = Anchored /\ ~Ended /\ ~Ended'
        /\ Unaccepted' = Unaccepted /\ PrepareScript(Targets)' = PrepareScript(Targets)
    BY <1>1 DEF Current, Targets, Anchored, Ended, Unaccepted, PrepareScript, PreservesCandidate,
                UnrelatedAnchorIds, AnchorIds, Owners
  <1> USE DEF IsolationInv, Good
  <1>3. status \in [Tasks -> Statuses] /\ Anchored \subseteq Tasks
    BY DEF TypeInv, TypeOK, Anchored
  <1>4. \A t \in Tasks : status'[t] = IF t = g THEN "closed" ELSE status[t]
    BY <1>1, <1>3
  <1>5. Open' <=> Open
    <2>1. Len(attempts) > 0 => Targets \subseteq Tasks /\ Targets # {}
      BY CurrentType, BatchShape DEF TypeInv
    <2> QED BY <1>1, <1>2, <1>4, <2>1 DEF Open, TargetsAre
  <1>6. \A t \in Tasks : Spawned(t)' <=> Spawned(t)
    BY <1>1, <1>4 DEF Spawned
  <1>7. ScriptIsPlan' /\ StaysPrepared'
    BY <1>1, <1>2, <1>5 DEF ScriptIsPlan, StaysPrepared, Preparing
  <1>8. LoneRetry'
    BY <1>1, <1>2, <1>3, <1>4, <1>5 DEF LoneRetry
  <1>9. PivotAlone' /\ OneChild'
    BY <1>2, <1>3, <1>4, <1>6 DEF PivotAlone, OneChild, Pivoted
  <1>10. AcceptedIsLive' /\ BasesAreClean' /\ ArchivesPrecede'
    BY <1>1, <1>2 DEF AcceptedIsLive, BasesAreClean, ArchivesPrecede
  <1>11. BatchArchive' /\ LiveIsCovered' /\ SettleIsSafe' /\ RaiseIsSafe'
    BY <1>1, <1>2, <1>5 DEF BatchArchive, LiveIsCovered, SettleIsSafe, RaiseIsSafe, Covered
  <1> QED BY <1>7, <1>8, <1>9, <1>10, <1>11

\* Nothing is left to relate once the anchors and the archives are gone.
LEMMA TeardownIsolated ==
  ASSUME Good, Teardown PROVE IsolationInv'
PROOF
  <1>1. /\ phase = "supervisor" /\ phase' = "teardown"
        /\ DOMAIN anchors' = {} /\ DOMAIN archives' = {}
        /\ UNCHANGED <<status, attempts, live, accepted>>
    BY DEF Teardown
  <1> USE DEF IsolationInv, Good
  <1>2. /\ ScriptIsPlan' /\ StaysPrepared' /\ LoneRetry' /\ PivotAlone' /\ BasesAreClean' /\ BatchArchive'
        /\ LiveIsCovered' /\ SettleIsSafe' /\ RaiseIsSafe'
    BY <1>1 DEF ScriptIsPlan, Preparing, StaysPrepared, Open, LoneRetry, Ended, PivotAlone, BasesAreClean,
                BatchArchive, LiveIsCovered, SettleIsSafe, RaiseIsSafe
  <1>3. OneChild' /\ AcceptedIsLive'
    BY <1>1 DEF OneChild, AcceptedIsLive, Pivoted, Spawned, Anchored
  <1>4. ArchivesPrecede'
    BY <1>1 DEF ArchivesPrecede, Current
  <1> QED BY <1>2, <1>3, <1>4

-----------------------------------------------------------------------------
(* The archive operations. *)

\* The anchors a preparing wrapper drops are those of tasks out of scope.
LEMMA PlanShape ==
  ASSUME Good, Preparing, NEW o \in script
  PROVE  /\ o.op = "settle" /\ o.id \in DOMAIN archives /\ o.turn = MaxDispatches - o.id
         /\ Owners(o.id) \cap Scope(Targets) = {}
         /\ \E t \in Anchored : anchors[t] = o.id
         /\ ~PreservesCandidate(Targets)
         /\ phase = "prepare_worker"
PROOF
  <1>1. script = PrepareScript(Targets)
    BY DEF Good, IsolationInv, ScriptIsPlan
  <1>2. /\ ~PreservesCandidate(Targets) /\ o.op = "settle" /\ o.turn = MaxDispatches - o.id
        /\ o.id \in UnrelatedAnchorIds(Targets)
    BY <1>1 DEF PrepareScript
  <1>3. PICK t \in Anchored : anchors[t] = o.id
    BY <1>2 DEF UnrelatedAnchorIds, AnchorIds, Anchored
  <1>4. o.id \in DOMAIN archives
    BY <1>3 DEF Good, AnchorInv, AnchorsLive, Preparing, Anchored
  <1>5. phase = "prepare_worker"
    <2>1. phase = "prepare_qa" => Open
      BY DEF Good, TypeInv, Dispatched, Open, AnchorInv, BatchStatus
    <2> QED BY <1>1, <2>1 DEF Good, IsolationInv, StaysPrepared, Preparing
  <1> QED BY <1>2, <1>3, <1>4, <1>5 DEF UnrelatedAnchorIds

\* A preparing wrapper restores the newest baseline that is out of scope: what
\* that baseline holds beyond the accepted workspace is its parent's, and covered.
LEMMA PrepareRestores ==
  ASSUME Good, Preparing, NEW o \in script, RunRestore(o), Restored(o) PROVE IsolationInv'
PROOF
  <1> USE DEF IsolationInv, Good
  <1>1. /\ o.op = "settle" /\ o.id \in DOMAIN archives /\ Owners(o.id) \cap Scope(Targets) = {}
        /\ ~PreservesCandidate(Targets) /\ phase = "prepare_worker"
    BY PlanShape
  <1>2. PICK s \in Anchored : anchors[s] = o.id
    BY PlanShape
  <1>3. /\ script' = script \ {o} /\ live' = archives[o.id]
        /\ archives' = Without(archives, {o.id}) /\ anchors' = Without(anchors, Owners(o.id))
        /\ UNCHANGED <<status, attempts, rechecked, phase, accepted, blocked>>
    BY <1>1 DEF RunRestore, Restored
  <1>4. /\ Anchored' = Anchored \ Owners(o.id)
        /\ \A t \in Anchored' : /\ t \in Anchored /\ t \in Tasks
                                /\ anchors'[t] = anchors[t] /\ anchors[t] # o.id
    BY <1>3 DEF Anchored, Without, Owners, TypeInv, TypeOK
  <1>5. \A id \in DOMAIN archives' : id \in DOMAIN archives /\ archives'[id] = archives[id]
    BY <1>3 DEF Without
  <1>6. \A t \in Anchored' : anchors'[t] \in DOMAIN archives' /\ archives'[anchors'[t]] = archives[anchors[t]]
    BY <1>1, <1>3, <1>4 DEF Without, AnchorInv, AnchorsLive, Anchored
  <1>7. /\ Current' = Current /\ Targets' = Targets /\ ~Ended /\ ~Ended' /\ Open /\ Open'
        /\ ~rechecked
    BY <1>1, <1>3 DEF Current, Targets, Ended, Open, AnchorInv, BatchStatus
  <1>8. Targets \in Batches /\ TargetsAre("workable")
    BY <1>1, <1>7, TargetsShape DEF AnchorInv, BatchStatus
  <1>9. \A t \in Anchored : anchors[t] > o.id => \E u \in Anchored : anchors[u] = anchors[t] /\ u \in Scope(Targets)
    <2> SUFFICES ASSUME NEW t \in Anchored, anchors[t] > o.id PROVE Owners(anchors[t]) \cap Scope(Targets) # {}
      BY DEF Owners, Anchored
    <2>1. t \in Tasks /\ anchors[t] \in AnchorIds(Tasks) /\ anchors[t] \in Dispatches /\ o.id \in Dispatches
      BY <1>2, EditsExist DEF AnchorIds, Anchored
    <2> DEFINE p == [op |-> "settle", id |-> anchors[t], turn |-> MaxDispatches - anchors[t]]
    <2>2. SUFFICES ASSUME Owners(anchors[t]) \cap Scope(Targets) = {} PROVE FALSE
      OBVIOUS
    <2>3. p \in PrepareScript(Targets)
      BY <1>1, <2>1, <2>2 DEF PrepareScript, UnrelatedAnchorIds
    <2>4. p \in script
      BY <2>3 DEF ScriptIsPlan
    <2>5. o.turn <= MaxDispatches - anchors[t]
      BY <2>4 DEF RunRestore, IsNext
    <2>6. o.turn = MaxDispatches - o.id
      BY PlanShape
    <2> QED BY <2>1, <2>2, <2>5, <2>6, BoundAssumption DEF Dispatches
  <1>10. \A t \in Anchored' : Parent[t] \in Anchored => Parent[t] \in Anchored'
    <2> SUFFICES ASSUME NEW t \in Anchored, t \in Tasks, Parent[t] \in Anchored, anchors[Parent[t]] = o.id
                 PROVE  FALSE
      BY <1>4 DEF Owners, Anchored
    <2>1. Parent[t] \in Tasks /\ t \in Workarounds /\ Parent[t] \notin Workarounds /\ Parent[t] # NoTask
      BY EditsExist, ParentAssumption
    <2>2. anchors[t] > o.id
      BY <1>7, EditsExist DEF BasesAreClean, Dispatches
    <2>3. PICK u \in Anchored : anchors[u] = anchors[t] /\ u \in Scope(Targets)
      BY <1>9, <2>2
    <2>4. u \in Tasks /\ Spawned(t) /\ Spawned(u)
      BY EditsExist DEF OneChild
    <2>5. u = Parent[t] \/ Parent[u] = Parent[t]
      BY <1>7, <2>4 DEF PivotAlone, Pivoted
    <2>6. u = t
      BY <2>1, <2>2, <2>3, <2>4, <2>5, EditsExist DEF OneChild, Dispatches
    <2>7. Parent[t] \notin Scope(Targets)
      BY <1>1 DEF Owners, Anchored
    <2>8. t \in Targets
      <3>1. t \in Scope(Targets)
        BY <2>3, <2>6
      <3>2. CASE Scope(Targets) = Targets
        BY <3>1, <3>2
      <3>3. ASSUME NEW c \in Workarounds, Targets = {c}, Scope(Targets) = {c} \cup ({Parent[c]} \ {NoTask})
            PROVE  t \in Targets
        BY <2>1, <3>1, <3>3, ParentAssumption
      <3> QED BY <1>8, <3>2, <3>3, BatchShape
    <2> QED BY <1>8, <2>1, <2>7, <2>8 DEF Scope, Parents
  <1>11. ScriptIsPlan'
    <2>1. ~PreservesCandidate(Targets)'
      BY <1>1, <1>4, <1>7 DEF PreservesCandidate, Anchored
    <2>2. \A id : id # o.id => Owners(id)' = Owners(id)
      BY <1>4 DEF Owners, Anchored
    <2>3. Owners(o.id)' = {}
      BY <1>4 DEF Owners, Anchored
    <2>4. AnchorIds(Tasks)' = AnchorIds(Tasks) \ {o.id}
      BY <1>2, <1>4 DEF AnchorIds, Owners, Anchored
    <2>5. UnrelatedAnchorIds(Targets)' = UnrelatedAnchorIds(Targets) \ {o.id}
      BY <1>7, <2>2, <2>4 DEF UnrelatedAnchorIds
    <2>6. script = PrepareScript(Targets)
      BY DEF ScriptIsPlan
    <2> QED BY <1>1, <1>3, <1>7, <2>1, <2>5, <2>6, PlanShape DEF ScriptIsPlan, PrepareScript
  <1>12. LoneRetry' /\ PivotAlone' /\ OneChild'
    BY <1>3, <1>4, <1>7 DEF LoneRetry, PivotAlone, OneChild, Pivoted, Spawned
  <1>13. BasesAreClean'
    BY <1>3, <1>4, <1>6, <1>7, <1>10 DEF BasesAreClean
  <1>14. ArchivesPrecede' /\ AcceptedIsLive'
    <2>1. accepted \subseteq archives[o.id]
      BY <1>2, <1>7 DEF BasesAreClean
    <2>2. o.id <= Current /\ \A n \in archives[o.id] : n < Current
      BY <1>2, <1>7, EditsExist
    <2>3. \A n \in archives[o.id] : n \in Dispatches
      BY <1>1 DEF TypeInv, TypeOK
    <2>4. \A id \in DOMAIN archives' : id <= Current' /\ \A n \in archives'[id] : n < id
      BY <1>5, <1>7 DEF ArchivesPrecede
    <2>5. Current \in Nat /\ \A n \in Dispatches : n < Current => n <= Current
      BY EditsExist DEF Dispatches
    <2> QED BY <1>3, <1>7, <2>1, <2>2, <2>3, <2>4, <2>5 DEF ArchivesPrecede, AcceptedIsLive
  <1>15. LiveIsCovered'
    <2>1. \/ archives[o.id] \subseteq accepted
          \/ /\ Parent[s] \in Anchored /\ anchors[Parent[s]] < o.id
             /\ \A n \in archives[o.id] \ accepted : Parent[s] \in attempts[n]
      BY <1>2, <1>7 DEF BasesAreClean
    <2>2. Parent[s] \in Anchored /\ anchors[Parent[s]] < o.id => Parent[s] \in Anchored'
      BY <1>2, <1>4, EditsExist DEF Owners, Dispatches
    <2>3. Covered(Unaccepted)'
      BY <1>3, <2>1, <2>2 DEF Covered, Unaccepted
    <2>4. Anchored' \cap Targets = {}
      <3> SUFFICES ASSUME NEW u \in Anchored', u \in Targets PROVE FALSE
        OBVIOUS
      <3>1. Anchored = {u}
        BY <1>4, <1>7, <1>8 DEF LoneRetry, TargetsAre
      <3> QED BY <1>2, <1>4, <3>1
    <2> QED BY <1>7, <2>3, <2>4 DEF LiveIsCovered
  <1>16. StaysPrepared' /\ BatchArchive' /\ SettleIsSafe' /\ RaiseIsSafe'
    BY <1>1, <1>3 DEF StaysPrepared, BatchArchive, SettleIsSafe, RaiseIsSafe
  <1> QED BY <1>11, <1>12, <1>13, <1>14, <1>15, <1>16

\* A finishing wrapper restores a workspace whose unaccepted edits are covered.
LEMMA SettleRestores ==
  ASSUME Good, phase = "settle", NEW o \in script, RunRestore(o), Restored(o), o.id \in DOMAIN archives
  PROVE  IsolationInv'
PROOF
  <1> USE DEF IsolationInv, Good
  <1>1. /\ script' = script \ {o} /\ live' = archives[o.id] /\ Restores(o)
        /\ archives' = IF o.op = "settle" THEN Without(archives, {o.id}) ELSE archives
        /\ UNCHANGED <<status, attempts, rechecked, phase, accepted, blocked, anchors>>
    BY DEF RunRestore, Restored, Preparing, Restores
  <1>2. /\ accepted \subseteq archives[o.id] /\ Covered(archives[o.id] \ accepted)
        /\ o.op = "restore" => \A p \in script : p.op # "restore" => p.id # o.id
        /\ o.op = "settle" => script = {o}
    BY <1>1 DEF SettleIsSafe
  <1>3. /\ Current' = Current /\ Targets' = Targets /\ Anchored' = Anchored /\ ~Ended /\ ~Ended'
        /\ ~Open /\ ~Open'
    BY <1>1 DEF Current, Targets, Anchored, Ended, Open, TargetsAre, AnchorInv, BatchStatus
  <1>4. /\ DOMAIN archives' \subseteq DOMAIN archives
        /\ \A id \in DOMAIN archives' : archives'[id] = archives[id]
        /\ \A id \in DOMAIN archives : o.op # "settle" \/ id # o.id => id \in DOMAIN archives'
    BY <1>1 DEF Without
  <1>5. \A t \in Anchored : anchors[t] \in DOMAIN archives' /\ archives'[anchors[t]] = archives[anchors[t]]
    BY <1>4 DEF AnchorInv, AnchorsLive, RemovalsUnanchored, Anchored
  <1>6. ScriptIsPlan' /\ StaysPrepared' /\ BatchArchive' /\ LiveIsCovered' /\ RaiseIsSafe'
    BY <1>1, <1>3 DEF ScriptIsPlan, Preparing, StaysPrepared, BatchArchive, LiveIsCovered, RaiseIsSafe
  <1>7. LoneRetry' /\ PivotAlone' /\ OneChild'
    BY <1>1, <1>3 DEF LoneRetry, PivotAlone, OneChild, Pivoted, Spawned
  <1>8. BasesAreClean'
    BY <1>1, <1>3, <1>5 DEF BasesAreClean
  <1>9. ArchivesPrecede' /\ AcceptedIsLive'
    <2>1. \A id \in DOMAIN archives' : id <= Current' /\ \A n \in archives'[id] : n < id
      BY <1>3, <1>4 DEF ArchivesPrecede
    <2>2. o.id \in Dispatches /\ archives[o.id] \subseteq Dispatches /\ Current \in Nat
      BY EditsExist DEF TypeInv, TypeOK
    <2>3. \A n \in archives[o.id] : n <= Current
      BY <2>2 DEF ArchivesPrecede, Dispatches
    <2> QED BY <1>1, <1>2, <1>3, <2>1, <2>3 DEF ArchivesPrecede, AcceptedIsLive
  <1>10. SettleIsSafe'
    <2>1. Covered(Unaccepted)'
      BY <1>1, <1>2, <1>3 DEF Covered, Unaccepted
    <2>2. ASSUME NEW p \in script', Restores(p)
          PROVE  /\ p.id \in DOMAIN archives'
                 /\ accepted' \subseteq archives'[p.id] /\ Covered(archives[p.id] \ accepted)'
                 /\ p.op = "restore" => \A q \in script' : q.op # "restore" => q.id # p.id
                 /\ p.op = "settle" => script' = {p}
      <3>1. o.op = "restore" /\ archives' = archives /\ p \in script
        BY <1>1, <1>2, <2>2 DEF Restores, RunRestore, TypeInv, TypeOK, Ops
      <3>2. p.op # "settle"
        BY <1>1, <2>2, <3>1 DEF SettleIsSafe
      <3> QED BY <1>1, <1>3, <2>2, <3>1, <3>2 DEF SettleIsSafe, Covered
    <2> QED BY <1>1, <2>1, <2>2 DEF SettleIsSafe, Restores
  <1> QED BY <1>6, <1>7, <1>8, <1>9, <1>10

\* The cleanup after an exception: whatever an operation does, the last restore
\* still to come, or the last one done, leaves the accepted workspace.
LEMMA CleanupIsolated ==
  ASSUME Good, phase = "raising", NEW o \in script, IsNext(o), script' = script \ {o},
         UNCHANGED <<status, attempts, rechecked, phase, accepted, anchors>>,
         DOMAIN archives' \subseteq DOMAIN archives,
         \A id \in DOMAIN archives' : archives'[id] = archives[id],
         \A id \in DOMAIN archives : id # o.id => id \in DOMAIN archives',
         IF Restores(o) /\ o.id \in DOMAIN archives THEN live' = archives[o.id] ELSE live' = live
  PROVE  IsolationInv'
PROOF
  <1> USE DEF IsolationInv, Good
  <1>1. Current' = Current /\ Targets' = Targets /\ Anchored' = Anchored /\ Ended /\ Ended' /\ ~Open /\ ~Open'
    BY DEF Current, Targets, Anchored, Ended, Open
  <1>2. /\ ScriptIsPlan' /\ StaysPrepared' /\ LoneRetry' /\ PivotAlone' /\ BasesAreClean' /\ BatchArchive'
        /\ LiveIsCovered' /\ SettleIsSafe'
    BY <1>1 DEF ScriptIsPlan, Preparing, StaysPrepared, LoneRetry, PivotAlone, BasesAreClean, BatchArchive,
                LiveIsCovered, SettleIsSafe
  <1>3. OneChild'
    BY <1>1 DEF OneChild, Pivoted, Spawned
  <1>4. ArchivesPrecede' /\ AcceptedIsLive'
    <2>1. \A id \in DOMAIN archives' : id <= Current' /\ \A n \in archives'[id] : n < id
      BY <1>1 DEF ArchivesPrecede
    <2>2. o.id \in DOMAIN archives =>
            /\ o.id \in Dispatches /\ archives[o.id] \subseteq Dispatches /\ o.id <= Current
            /\ \A n \in archives[o.id] : n < o.id
      BY DEF TypeInv, TypeOK, ArchivesPrecede
    <2>3. o.id \in DOMAIN archives => \A n \in archives[o.id] : n <= Current
      BY <2>2, EditsExist DEF Dispatches
    <2>4. Restores(o) /\ o.id \in DOMAIN archives => accepted \subseteq archives[o.id]
      BY DEF RaiseIsSafe
    <2> QED BY <1>1, <2>1, <2>3, <2>4 DEF ArchivesPrecede, AcceptedIsLive
  <1>5. RaiseIsSafe'
    <2>1. \A p \in script' : Harmless(p) => Harmless(p)'
      BY DEF Harmless, Restores
    <2>2. \A p \in script' : Restores(p)' /\ p.id \in DOMAIN archives' => accepted' \subseteq archives'[p.id]
      BY DEF RaiseIsSafe, Restores
    <2>3. CASE live = accepted /\ \A p \in script : Harmless(p)
      <3>1. live' = accepted' /\ \A p \in script' : Harmless(p)'
        BY <2>1, <2>3 DEF Harmless
      <3> QED BY <2>2, <3>1 DEF RaiseIsSafe
    <2>4. ASSUME NEW q \in script, Restores(q), q.id \in DOMAIN archives, archives[q.id] = accepted,
                 \A p \in script :
                   /\ p.turn <= q.turn => p = q \/ p.id # q.id
                   /\ p.turn >= q.turn => Harmless(p)
          PROVE  RaiseIsSafe'
      <3>1. CASE q = o
        <4>1. live' = accepted' /\ \A p \in script' : Harmless(p)'
          BY <2>1, <2>4, <3>1 DEF IsNext
        <4> QED BY <2>2, <4>1 DEF RaiseIsSafe
      <3>2. CASE q # o
        <4>1. q \in script' /\ o.id # q.id
          BY <2>4, <3>2 DEF IsNext
        <4>2. Restores(q)' /\ q.id \in DOMAIN archives' /\ archives'[q.id] = accepted'
          BY <2>4, <4>1 DEF Restores
        <4>3. \A p \in script' : /\ p.turn <= q.turn => p = q \/ p.id # q.id
                                 /\ p.turn >= q.turn => Harmless(p)'
          BY <2>1, <2>4
        <4> QED BY <2>2, <4>1, <4>2, <4>3 DEF RaiseIsSafe
      <3> QED BY <3>1, <3>2
    <2> QED BY <2>3, <2>4 DEF RaiseIsSafe
  <1> QED BY <1>2, <1>3, <1>4, <1>5

\* A restore succeeds wherever its archive exists, which it does unless a node raised.
LEMMA RunRestoreIsolated ==
  ASSUME Good, NEW o \in script, RunRestore(o), faults' = faults PROVE IsolationInv'
PROOF
  <1> USE DEF Good
  <1>1. o.op # "discard" /\ IsNext(o) /\ script' = script \ {o} /\ faults \in Nat
    BY BoundAssumption DEF RunRestore, TypeInv, TypeOK
  <1>2. Preparing \/ phase = "settle" \/ phase = "raising"
    BY DEF AnchorInv, ScriptEmpty, TypeInv, TypeOK, Phases, Preparing
  <1>3. \/ o.id \in DOMAIN archives /\ Restored(o)
        \/ o.id \notin DOMAIN archives /\ RestoreFails(o) /\ live' = live
    BY <1>1 DEF RunRestore, RestoreFails, RemoveFails
  <1>4. CASE Preparing
    BY <1>3, <1>4, PlanShape, PrepareRestores
  <1>5. CASE phase = "settle"
    <2>1. o.id \in DOMAIN archives
      BY <1>1, <1>5 DEF IsolationInv, SettleIsSafe, Restores
    <2> QED BY <1>3, <1>5, <2>1, SettleRestores
  <1>6. CASE phase = "raising"
    <2>1. UNCHANGED <<status, attempts, rechecked, phase, accepted, anchors>>
      BY <1>3, <1>6 DEF RunRestore, Restored, RestoreFails, Preparing
    <2>2. /\ DOMAIN archives' \subseteq DOMAIN archives
          /\ \A id \in DOMAIN archives' : archives'[id] = archives[id]
          /\ \A id \in DOMAIN archives : id # o.id => id \in DOMAIN archives'
      BY <1>3 DEF Restored, RestoreFails, Without
    <2>3. IF Restores(o) /\ o.id \in DOMAIN archives THEN live' = archives[o.id] ELSE live' = live
      BY <1>1, <1>3 DEF Restored, Restores
    <2> QED BY <1>1, <1>6, <2>1, <2>2, <2>3, CleanupIsolated
  <1> QED BY <1>2, <1>4, <1>5, <1>6

\* What a finishing wrapper deletes is neither an anchored baseline nor to be restored.
LEMMA RunDiscardIsolated ==
  ASSUME Good, NEW o \in script, RunDiscard(o), faults' = faults PROVE IsolationInv'
PROOF
  <1> USE DEF IsolationInv, Good
  <1>1. /\ o.op = "discard" /\ IsNext(o) /\ script' = script \ {o} /\ archives' = Without(archives, {o.id})
        /\ UNCHANGED <<status, attempts, rechecked, phase, blocked, anchors, live, accepted>>
    BY BoundAssumption DEF RunDiscard, TypeInv, TypeOK
  <1>2. phase = "settle" \/ phase = "raising"
    BY <1>1, PlanShape DEF AnchorInv, ScriptEmpty, TypeInv, TypeOK, Phases, Preparing
  <1>3. /\ DOMAIN archives' = DOMAIN archives \ {o.id}
        /\ \A id \in DOMAIN archives' : archives'[id] = archives[id]
    BY <1>1 DEF Without
  <1>4. CASE phase = "raising"
    BY <1>1, <1>3, <1>4, CleanupIsolated DEF Restores
  <1>5. CASE phase = "settle"
    <2>1. /\ Current' = Current /\ Targets' = Targets /\ Anchored' = Anchored /\ ~Ended /\ ~Ended'
          /\ ~Open /\ ~Open' /\ Unaccepted' = Unaccepted
      BY <1>1, <1>5 DEF Current, Targets, Anchored, Ended, Open, TargetsAre, AnchorInv, BatchStatus, Unaccepted
    <2>2. \A t \in Anchored : anchors[t] \in DOMAIN archives' /\ archives'[anchors[t]] = archives[anchors[t]]
      BY <1>1, <1>3, <1>5 DEF AnchorInv, AnchorsLive, RemovalsUnanchored, Anchored
    <2>3. ScriptIsPlan' /\ StaysPrepared' /\ BatchArchive' /\ LiveIsCovered' /\ RaiseIsSafe'
      BY <1>1, <1>5, <2>1 DEF ScriptIsPlan, Preparing, StaysPrepared, BatchArchive, LiveIsCovered, RaiseIsSafe
    <2>4. LoneRetry' /\ PivotAlone' /\ OneChild'
      BY <1>1, <2>1 DEF LoneRetry, PivotAlone, OneChild, Pivoted, Spawned
    <2>5. BasesAreClean'
      BY <1>1, <2>1, <2>2 DEF BasesAreClean
    <2>6. ArchivesPrecede' /\ AcceptedIsLive'
      BY <1>1, <1>3, <1>5, <2>1 DEF ArchivesPrecede, AcceptedIsLive
    <2>7. SettleIsSafe'
      <3>1. ASSUME NEW p \in script', Restores(p)
            PROVE  /\ p \in script /\ p.id \in DOMAIN archives' /\ archives'[p.id] = archives[p.id]
                   /\ p.op = "restore" /\ \A q \in script' : q.op # "restore" => q.id # p.id
        <4>1. p \in script /\ p.op \in {"restore", "settle", "discard"}
          BY <1>1, <3>1 DEF TypeInv, TypeOK, Ops
        <4>2. p.op # "settle"
          BY <1>1, <1>5, <3>1, <4>1 DEF SettleIsSafe
        <4> QED BY <1>1, <1>3, <1>5, <3>1, <4>1, <4>2 DEF SettleIsSafe, Restores
      <3> QED BY <1>1, <1>5, <2>1, <3>1 DEF SettleIsSafe, Restores, Covered
    <2> QED BY <2>3, <2>4, <2>5, <2>6, <2>7
  <1> QED BY <1>2, <1>4, <1>5

-----------------------------------------------------------------------------
(* What a worker or QA finds. *)

\* A baseline holds nothing unaccepted that is not covered; an update's, or that
\* of a workaround whose parent is not anchored, is the accepted workspace.
LEMMA AnchoredBase ==
  ASSUME Good, ~Ended, NEW t \in Anchored
  PROVE  /\ t \in Tasks /\ anchors[t] \in DOMAIN archives
         /\ accepted \subseteq archives[anchors[t]] /\ Covered(archives[anchors[t]] \ accepted)
         /\ t \notin Workarounds \/ Parent[t] \notin Anchored => archives[anchors[t]] = accepted
PROOF
  <1>1. t \in Tasks /\ anchors[t] \in DOMAIN archives
    BY EditsExist
  <1>2. /\ accepted \subseteq archives[anchors[t]]
        /\ \/ archives[anchors[t]] \subseteq accepted
           \/ /\ Parent[t] \in Anchored
              /\ \A n \in archives[anchors[t]] \ accepted : Parent[t] \in attempts[n]
    BY DEF Good, IsolationInv, BasesAreClean
  <1>3. t \notin Workarounds => Parent[t] \notin Anchored
    BY <1>1, EditsExist, ParentAssumption
  <1> QED BY <1>1, <1>2, <1>3 DEF Covered

\* What surrounds a batch that may be judged.
LEMMA BatchFacts ==
  ASSUME Good, Open, phase # "prepare_worker"
  PROVE  /\ Targets \in Batches /\ Targets \subseteq Tasks /\ Targets # {}
         /\ Current \in DOMAIN archives /\ attempts[Current] = Targets
         /\ Anchored \subseteq Scope(Targets)
         /\ accepted \subseteq archives[Current] /\ Covered(archives[Current] \ accepted)
         /\ Anchored = {} => archives[Current] = accepted
         /\ \A t \in Anchored : anchors[t] = Current => t \in Targets
PROOF
  <1> USE DEF Good, IsolationInv
  <1>1. Targets \in Batches /\ Targets \subseteq Tasks /\ Targets # {}
    BY TargetsShape, BatchShape
  <1>2. Current \in DOMAIN archives
    BY DEF AnchorInv, OpenHasArchive
  <1>3. Anchored \subseteq Scope(Targets)
    BY AnchoredInScope DEF StaysPrepared
  <1>4. accepted \subseteq archives[Current] /\ Covered(archives[Current] \ accepted)
    BY DEF BatchArchive
  <1>5. Anchored = {} => archives[Current] = accepted
    BY <1>4 DEF Covered
  <1>6. \A t \in Anchored : anchors[t] = Current => t \in Targets
    BY DEF AnchorInv, AnchorAge, Anchored
  <1> QED BY <1>1, <1>2, <1>3, <1>4, <1>5, <1>6 DEF Targets, Current

-----------------------------------------------------------------------------
(* The worker's steps. *)

\* A cluster finds only the accepted workspace: whatever else is live is covered,
\* by one of its tasks, whose edits would have kept it from joining.
LEMMA SnapshotIsolated ==
  ASSUME Good, SnapshotWorkspace, faults' = faults PROVE IsolationInv'
PROOF
  <1> USE DEF IsolationInv, Good
  <1>1. /\ phase = "prepare_worker" /\ phase' = "worker" /\ script = {}
        /\ archives' = [id \in DOMAIN archives \cup {Current} |-> IF id = Current THEN live ELSE archives[id]]
        /\ UNCHANGED <<status, attempts, rechecked, script, anchors, live, accepted>>
    BY BoundAssumption DEF SnapshotWorkspace, TypeInv, TypeOK
  <1>2. /\ Current' = Current /\ Targets' = Targets /\ Anchored' = Anchored /\ ~Ended /\ ~Ended'
        /\ Unaccepted' = Unaccepted /\ PrepareScript(Targets)' = PrepareScript(Targets) /\ Open /\ Open' /\ ~rechecked
    BY <1>1 DEF Current, Targets, Anchored, Ended, Unaccepted, PrepareScript, PreservesCandidate,
                UnrelatedAnchorIds, AnchorIds, Owners, Open, AnchorInv, BatchStatus
  <1>3. PrepareScript(Targets) = {}
    BY <1>1 DEF ScriptIsPlan, Preparing
  <1>4. \A t \in Anchored : anchors[t] # Current /\ anchors[t] \in DOMAIN archives
    BY <1>2, EditsExist DEF AnchorInv, FirstJudgement, Anchored
  <1>5. \A t \in Anchored : anchors[t] \in DOMAIN archives' /\ archives'[anchors[t]] = archives[anchors[t]]
    BY <1>1, <1>4
  <1>6. Anchored \subseteq Scope(Targets)
    BY <1>2, <1>3, AnchoredInScope
  <1>7. Covered(Unaccepted) /\ archives'[Current] = live
    BY <1>1 DEF LiveIsCovered
  <1>8. ASSUME IsCluster(Targets) PROVE live \subseteq accepted
    <2>1. Scope(Targets) = Targets
      BY <1>2, <1>8, TargetsShape, BatchShape DEF IsCluster
    <2>2. Anchored \cap Targets # {} => \A n \in Unaccepted : attempts[n] \cap Targets = {}
      BY <1>1, <1>8 DEF LiveIsCovered
    <2> QED BY <1>6, <1>7, <2>1, <2>2 DEF Covered, Unaccepted
  <1>9. ScriptIsPlan' /\ StaysPrepared' /\ LiveIsCovered' /\ SettleIsSafe' /\ RaiseIsSafe'
    BY <1>1, <1>2, <1>3 DEF ScriptIsPlan, Preparing, StaysPrepared, LiveIsCovered, SettleIsSafe, RaiseIsSafe
  <1>10. LoneRetry' /\ PivotAlone' /\ OneChild' /\ AcceptedIsLive'
    BY <1>1, <1>2 DEF LoneRetry, PivotAlone, OneChild, AcceptedIsLive, Pivoted, Spawned
  <1>11. BasesAreClean'
    BY <1>1, <1>2, <1>5 DEF BasesAreClean
  <1>12. BatchArchive'
    BY <1>1, <1>2, <1>7, <1>8 DEF BatchArchive, AcceptedIsLive, Covered, Unaccepted
  <1>13. ArchivesPrecede'
    <2>1. Current \in Nat /\ Current <= Current
      BY EditsExist
    <2>2. \A n \in live : n < Current
      BY <1>1 DEF ArchivesPrecede
    <2>3. \A id \in DOMAIN archives' : id <= Current /\ \A n \in archives'[id] : n < id
      BY <1>1, <2>1, <2>2 DEF ArchivesPrecede
    <2> QED BY <1>1, <1>2, <2>3 DEF ArchivesPrecede
  <1> QED BY <1>9, <1>10, <1>11, <1>12, <1>13

LEMMA EnterQaIsolated ==
  ASSUME Good, EnterQa PROVE IsolationInv'
PROOF
  <1> USE DEF IsolationInv, Good
  <1>1. /\ phase = "prepare_qa" /\ phase' = "qa"
        /\ UNCHANGED <<status, attempts, rechecked, script, anchors, archives, live, accepted>>
    BY DEF EnterQa
  <1>2. /\ Current' = Current /\ Targets' = Targets /\ Anchored' = Anchored /\ ~Ended /\ ~Ended'
        /\ Unaccepted' = Unaccepted /\ PrepareScript(Targets)' = PrepareScript(Targets) /\ (Open' <=> Open)
    BY <1>1 DEF Current, Targets, Anchored, Ended, Unaccepted, PrepareScript, PreservesCandidate,
                UnrelatedAnchorIds, AnchorIds, Owners, Open, TargetsAre
  <1>3. ScriptIsPlan' /\ StaysPrepared' /\ LiveIsCovered' /\ SettleIsSafe' /\ RaiseIsSafe'
    BY <1>1, <1>2 DEF ScriptIsPlan, Preparing, StaysPrepared, LiveIsCovered, SettleIsSafe, RaiseIsSafe
  <1>4. LoneRetry' /\ PivotAlone' /\ OneChild' /\ AcceptedIsLive' /\ BasesAreClean'
    BY <1>1, <1>2 DEF LoneRetry, PivotAlone, OneChild, AcceptedIsLive, Pivoted, Spawned, BasesAreClean
  <1>5. BatchArchive' /\ ArchivesPrecede'
    BY <1>1, <1>2 DEF BatchArchive, ArchivesPrecede, Covered
  <1> QED BY <1>3, <1>4, <1>5

LEMMA WorkerSucceedsIsolated ==
  ASSUME Good, WorkerSucceeds PROVE IsolationInv'
PROOF
  <1> USE DEF IsolationInv, Good
  <1>1. /\ phase = "worker" /\ phase' = "supervisor" /\ live' = live \cup {Current}
        /\ status' = [t \in Tasks |-> IF t \in Targets THEN "fixed" ELSE status[t]]
        /\ UNCHANGED <<attempts, rechecked, script, anchors, archives, accepted>>
    BY DEF WorkerSucceeds
  <1>2. /\ Current' = Current /\ Targets' = Targets /\ Anchored' = Anchored /\ ~Ended /\ ~Ended'
        /\ PrepareScript(Targets)' = PrepareScript(Targets) /\ Open /\ ~rechecked /\ TargetsAre("workable")
    BY <1>1 DEF Current, Targets, Anchored, Ended, PrepareScript, PreservesCandidate,
                UnrelatedAnchorIds, AnchorIds, Owners, Open, AnchorInv, BatchStatus
  <1>3. Targets \subseteq Tasks /\ Targets # {} /\ Current \in Nat /\ Anchored \subseteq Tasks
    BY <1>1, <1>2, BatchFacts, EditsExist
  <1>4. Open'
    BY <1>1, <1>2, <1>3, TargetsShape DEF Open, TargetsAre
  <1>5. \A t \in Tasks :
          /\ Spawned(t)' <=> Spawned(t)
          /\ status[t] = "closed" => status'[t] = "closed"
          /\ status'[t] = "workable" => status[t] = "workable"
    BY <1>1, <1>2 DEF Spawned, TargetsAre
  <1>6. ScriptIsPlan' /\ StaysPrepared' /\ LiveIsCovered' /\ SettleIsSafe' /\ RaiseIsSafe'
    BY <1>1, <1>2, <1>4 DEF ScriptIsPlan, Preparing, StaysPrepared, LiveIsCovered, SettleIsSafe, RaiseIsSafe
  <1>7. LoneRetry'
    BY <1>1, <1>2, <1>3, <1>5 DEF LoneRetry
  <1>8. PivotAlone' /\ OneChild'
    <2>1. \A t : Pivoted(t)' <=> Pivoted(t)
      BY <1>5 DEF Pivoted
    <2> QED BY <1>2, <1>3, <1>5, <2>1 DEF PivotAlone, OneChild
  <1>9. BasesAreClean' /\ AcceptedIsLive'
    BY <1>1, <1>2 DEF BasesAreClean, AcceptedIsLive
  <1>10. BatchArchive'
    BY <1>1, <1>2 DEF BatchArchive, Covered
  <1>11. ArchivesPrecede'
    BY <1>1, <1>2, <1>3 DEF ArchivesPrecede
  <1> QED BY <1>6, <1>7, <1>8, <1>9, <1>10, <1>11

\* What a failed batch restores is clean or covered.
LEMMA FailedUpdateRestores ==
  ASSUME Good, Open, phase # "prepare_worker", NEW o \in RestoreFailedUpdate(Targets),
         ~rechecked
  PROVE  /\ o.op = "restore" => /\ \E t \in Anchored : o.id = anchors[t]
                                /\ o.id # Current
                                /\ o.id \in DOMAIN archives
                                /\ accepted \subseteq archives[o.id] /\ Covered(archives[o.id] \ accepted)
         /\ o.op = "settle" => /\ o.id = Current /\ RestoreFailedUpdate(Targets) = {o}
                               /\ AnchorIds(Scope(Targets)) = {}
         /\ o.op = "discard" => /\ o.id = Current
                                /\ \E p \in RestoreFailedUpdate(Targets) : p.op = "restore"
PROOF
  <1>1. ~Ended
    BY DEF Open, Ended
  <1>2. \A t \in Anchored : anchors[t] # Current
    BY DEF Good, AnchorInv, FirstJudgement, Anchored
  <1>3. CASE AnchorIds(Scope(Targets)) = {}
    BY <1>3 DEF RestoreFailedUpdate, Apply
  <1>4. CASE AnchorIds(Scope(Targets)) # {}
    <2>1. RestoreFailedUpdate(Targets) = RestoreRetained(Targets) \cup Apply("discard", 3, {Current})
      BY <1>4 DEF RestoreFailedUpdate
    <2>2. \A p \in RestoreRetained(Targets) : p.op = "restore" /\ \E t \in Anchored : p.id = anchors[t]
      BY DEF RestoreRetained, Apply, AnchorIds, Anchored
    <2>3. RestoreRetained(Targets) # {}
      BY <1>4 DEF RestoreRetained, Apply, AnchorIds, Scope
    <2>4. \A p \in Apply("discard", 3, {Current}) : p.op = "discard" /\ p.id = Current
      BY DEF Apply
    <2>5. CASE o \in RestoreRetained(Targets)
      <3>1. PICK t \in Anchored : o.id = anchors[t]
        BY <2>2, <2>5
      <3> QED BY <1>1, <1>2, <2>2, <2>5, <3>1, AnchoredBase
    <2>6. CASE o \in Apply("discard", 3, {Current})
      BY <2>1, <2>2, <2>3, <2>4, <2>6
    <2> QED BY <2>1, <2>5, <2>6
  <1> QED BY <1>3, <1>4

LEMMA WorkerFailsIsolated ==
  ASSUME Good, WorkerFails PROVE IsolationInv'
PROOF
  <1> USE DEF IsolationInv, Good
  <1>1. /\ phase = "worker" /\ phase' = "settle" /\ live' = live \cup {Current}
        /\ script' = RestoreFailedUpdate(Targets)
        /\ \/ status' = status
           \/ status' = [t \in Tasks |-> IF t \in Targets THEN "closed" ELSE status[t]]
        /\ UNCHANGED <<attempts, rechecked, anchors, archives, accepted>>
    BY DEF WorkerFails
  <1>2. /\ Current' = Current /\ Targets' = Targets /\ Anchored' = Anchored /\ ~Ended /\ ~Ended'
        /\ Open /\ ~rechecked /\ TargetsAre("workable")
    BY <1>1 DEF Current, Targets, Anchored, Ended, Open, AnchorInv, BatchStatus
  <1>3. Targets \subseteq Tasks /\ Targets # {} /\ Current \in Nat /\ Anchored \subseteq Tasks
    BY <1>1, <1>2, BatchFacts, EditsExist
  <1>4. \A t \in Tasks :
          /\ Spawned(t)' <=> Spawned(t)
          /\ status[t] = "closed" => status'[t] = "closed"
          /\ status'[t] = "workable" => status[t] = "workable"
    BY <1>1, <1>2 DEF Spawned, TargetsAre
  <1>5. ~Open'
    BY <1>1, <1>2, <1>3 DEF Open, TargetsAre
  <1>6. ScriptIsPlan' /\ StaysPrepared' /\ LiveIsCovered' /\ BatchArchive' /\ RaiseIsSafe'
    BY <1>1, <1>2, <1>5 DEF ScriptIsPlan, Preparing, StaysPrepared, LiveIsCovered, BatchArchive, RaiseIsSafe
  <1>7. LoneRetry'
    BY <1>1, <1>2, <1>3, <1>4, <1>5 DEF LoneRetry
  <1>8. PivotAlone' /\ OneChild'
    <2>1. \A t : Pivoted(t)' <=> Pivoted(t)
      BY <1>4 DEF Pivoted
    <2> QED BY <1>2, <1>3, <1>4, <2>1 DEF PivotAlone, OneChild
  <1>9. BasesAreClean' /\ AcceptedIsLive'
    BY <1>1, <1>2 DEF BasesAreClean, AcceptedIsLive
  <1>10. ArchivesPrecede'
    BY <1>1, <1>2, <1>3 DEF ArchivesPrecede
  <1>11. SettleIsSafe'
    <2>1. ASSUME NEW o \in script', o.op # "discard"
          PROVE  /\ o.id \in DOMAIN archives
                 /\ accepted \subseteq archives[o.id] /\ Covered(archives[o.id] \ accepted)
                 /\ o.op = "restore" => \A p \in script' : p.op # "restore" => p.id # o.id
                 /\ o.op = "settle" => script' = {o}
      <3>1. \A p \in script' : p.op \in {"restore", "settle", "discard"}
        BY <1>1, RestoreFailedUpdateType, TargetsShape, <1>2 DEF TypeInv, Ops
      <3>2. CASE o.op = "restore"
        BY <1>1, <1>2, <3>1, <3>2, FailedUpdateRestores
      <3>3. CASE o.op = "settle"
        BY <1>1, <1>2, <3>3, FailedUpdateRestores, BatchFacts
      <3> QED BY <2>1, <3>1, <3>2, <3>3
    <2>2. \E o \in script' : o.op # "discard"
      <3>1. PICK o \in script' : TRUE
        BY <1>1 DEF RestoreFailedUpdate, Apply
      <3> QED BY <1>1, <1>2, <3>1, FailedUpdateRestores
    <2> QED BY <1>1, <1>2, <2>1, <2>2 DEF SettleIsSafe, Restores, Covered
  <1> QED BY <1>6, <1>7, <1>8, <1>9, <1>10, <1>11

-----------------------------------------------------------------------------
(* QA's judgement. *)

\* What a judgement leaves alone, and what then remains to be shown.
LEMMA JudgementFrame ==
  ASSUME Good, phase = "qa", phase' = "settle",
         UNCHANGED <<attempts, archives, live>>,
         accepted' \subseteq live,
         \A u \in Tasks \ Targets : status'[u] = status[u],
         \A u \in Targets : status'[u] # "unspawned",
         Anchored' \subseteq Anchored \cup Targets,
         Open' => StaysPrepared' /\ BatchArchive',
         LoneRetry', PivotAlone', BasesAreClean', SettleIsSafe'
  PROVE  IsolationInv'
PROOF
  <1> USE DEF IsolationInv, Good
  <1>1. Current' = Current /\ Targets' = Targets
    BY DEF Current, Targets
  <1>2. Open /\ TargetsAre("fixed") /\ Targets \subseteq Tasks
    BY QaStart DEF Open
  <1>3. \A t \in Tasks : Spawned(t)' <=> Spawned(t)
    BY <1>2 DEF Spawned, TargetsAre
  <1>4. \A t \in Tasks : Pivoted(t) => t \notin Targets
    BY <1>2 DEF OneChild, TargetsAre
  <1>5. \A t \in Tasks : Pivoted(t)' <=> Pivoted(t)
    BY <1>3 DEF Pivoted
  <1>6. OneChild'
    <2>1. \A t \in Tasks : Pivoted(t)' => status'[t] = "closed"
      BY <1>4, <1>5 DEF OneChild
    <2>2. \A t \in Anchored' : Spawned(t)'
      BY <1>2, <1>3, EditsExist DEF OneChild, Spawned
    <2> QED BY <1>3, <2>1, <2>2 DEF OneChild
  <1>7. ScriptIsPlan' /\ LiveIsCovered' /\ RaiseIsSafe' /\ AcceptedIsLive'
    BY DEF ScriptIsPlan, Preparing, LiveIsCovered, RaiseIsSafe, AcceptedIsLive, Open
  <1>8. ArchivesPrecede'
    BY <1>1 DEF ArchivesPrecede
  <1>9. StaysPrepared' /\ BatchArchive'
    BY DEF StaysPrepared, BatchArchive
  <1> QED BY <1>6, <1>7, <1>8, <1>9

\* QA accepts the workspace: nobody stays anchored.
LEMMA PassIsolated ==
  ASSUME Good, NEW evals \in [Targets -> Verdicts], QaEvaluates(evals), Passes(evals)
  PROVE  IsolationInv'
PROOF
  <1>1. ~Rejects(evals)
    BY DEF Passes, Rejects
  <1>2. /\ phase = "qa" /\ phase' = "settle" /\ accepted' = live
        /\ script' = QaScript(evals) /\ anchors' = AnchorUpdates(evals, Retained(evals))
        /\ status' = [t \in Tasks |-> IF t \in Targets THEN "passed" ELSE status[t]]
        /\ UNCHANGED <<attempts, archives, live>>
    BY <1>1 DEF QaEvaluates, Ingest
  <1>3. Open /\ Targets \subseteq Tasks /\ Targets # {} /\ Targets \in Batches /\ Targets' = Targets
    BY <1>2, QaStart DEF Open, Good, Targets, Current
  <1>4. Anchored \subseteq Scope(Targets)
    BY <1>2, <1>3, BatchFacts
  <1>5. Anchored' = {}
    <2>1. CASE IsWorkaround(Targets)
      BY <1>2, <2>1 DEF AnchorUpdates, Anchored
    <2>2. CASE ~IsWorkaround(Targets)
      <3>1. Anchored \subseteq Targets
        BY <1>3, <1>4, <2>2, BatchShape
      <3>2. Anchored' \subseteq Anchored \ Targets
        BY <1>2, <2>2 DEF AnchorUpdates, Anchored, Passes
      <3> QED BY <3>1, <3>2
    <2> QED BY <2>1, <2>2
  <1>6. \A o \in script' : ~Restores(o)
    BY <1>1, <1>2 DEF QaScript, Retained, Restores, Apply
  <1>7. ~Open'
    BY <1>2, <1>3 DEF Open, TargetsAre
  <1>8. LoneRetry' /\ PivotAlone' /\ BasesAreClean'
    BY <1>5 DEF LoneRetry, PivotAlone, BasesAreClean
  <1>9. SettleIsSafe'
    <2>1. Covered(Unaccepted)'
      BY <1>2 DEF Covered, Unaccepted
    <2> QED BY <1>6, <2>1 DEF SettleIsSafe, Restores
  <1> QED BY <1>2, <1>3, <1>5, <1>7, <1>8, <1>9, JudgementFrame

\* A judgement that keeps the candidate without accepting it anchors the targets
\* that did not pass: at the workspace the batch found, unless they were already.
LEMMA KeptIsolated ==
  ASSUME Good, phase = "qa", phase' = "settle", script' = {},
         UNCHANGED <<attempts, archives, live, accepted>>,
         NEW kept \in SUBSET Anchored, NEW added \in SUBSET Targets,
         Anchored \ kept \subseteq Targets, added # {}, added \cap Anchored \subseteq kept,
         Targets \subseteq kept \cup added \/ IsCluster(Targets),
         anchors' = [t \in kept \cup added |-> IF t \in kept THEN anchors[t] ELSE Current],
         \A u \in Tasks \ Targets : status'[u] = status[u],
         \A u \in Targets : status'[u] # "unspawned",
         Open' => rechecked',
         \/ \A u \in Targets : status'[u] # "workable"
         \/ ~IsWorkaround(Targets) /\ \A t, u \in Targets : t = u
  PROVE  IsolationInv'
PROOF
  <1> USE DEF IsolationInv, Good
  <1>1. Current' = Current /\ Targets' = Targets /\ ~Ended' /\ ~Ended
    BY DEF Current, Targets, Ended
  <1>2. Open /\ Targets \in Batches /\ Targets # {} /\ Targets \subseteq Tasks /\ TargetsAre("fixed")
    BY QaStart DEF Open
  <1>3. /\ Current \in DOMAIN archives /\ attempts[Current] = Targets /\ Anchored \subseteq Scope(Targets)
        /\ accepted \subseteq archives[Current] /\ Covered(archives[Current] \ accepted)
        /\ \A t \in Anchored : anchors[t] = Current => t \in Targets
        /\ IsCluster(Targets) => archives[Current] \subseteq accepted
        /\ live = archives[Current] \cup {Current}
    BY <1>2, BatchFacts DEF BatchArchive
  <1>4. /\ Anchored' = kept \cup added
        /\ \A t \in Anchored' : anchors'[t] = IF t \in kept THEN anchors[t] ELSE Current
    BY DEF Anchored
  <1>5. \A t \in Anchored : anchors[t] \in DOMAIN archives /\ anchors[t] <= Current /\ t \in Tasks
    BY <1>1, EditsExist
  <1>6. Anchored' \subseteq Scope(Targets)
    BY <1>3, <1>4 DEF Scope
  <1>7. IsCluster(Targets) => Targets \cap Workarounds = {} /\ Scope(Targets) = Targets
    BY <1>2, BatchShape DEF IsCluster
  <1>8. ~IsCluster(Targets) => Anchored \subseteq Anchored'
    BY <1>4 DEF IsCluster
  <1>9. ASSUME NEW n \in archives[Current] \ accepted PROVE attempts[n] \cap Anchored' # {}
    BY <1>3, <1>8, <1>9 DEF Covered
  <1>10. ASSUME NEW t \in Anchored', t \notin Targets
         PROVE  /\ t \in Anchored /\ t \in Tasks /\ status[t] = "closed" /\ status'[t] = "closed"
                /\ \E c \in Workarounds : Targets = {c} /\ t = Parent[c]
    <2>1. PICK c \in Workarounds : Targets = {c} /\ t = Parent[c]
      BY <1>2, <1>6, <1>10, BatchShape
    <2>2. t \in Anchored /\ t \in Tasks
      BY <1>4, <1>5, <1>10
    <2>3. Pivoted(t)
      BY <1>2, <2>1 DEF Pivoted, Spawned, TargetsAre
    <2> QED BY <1>10, <2>1, <2>2, <2>3 DEF OneChild
  <1>11. LoneRetry'
    <2> SUFFICES ASSUME NEW t \in Anchored', status'[t] = "workable"
                 PROVE  Anchored' = {t} /\ t \notin Workarounds
      BY <1>1, <1>10 DEF LoneRetry
    <2>1. t \in Targets
      BY <1>10
    <2>2. ~IsWorkaround(Targets) /\ \A u, v \in Targets : u = v
      BY <2>1
    <2>3. Targets = {t} /\ Targets \cap Workarounds = {} /\ Scope(Targets) = Targets
      BY <1>2, <2>1, <2>2, BatchShape
    <2> QED BY <1>6, <2>3
  <1>12. PivotAlone'
    <2> SUFFICES ASSUME NEW t \in Anchored', Pivoted(t)', NEW u \in Anchored' PROVE u = t \/ Parent[u] = t
      BY DEF PivotAlone
    <2>1. t \in Tasks /\ Pivoted(t)
      BY <1>2, <1>4, <1>5 DEF Pivoted, Spawned, TargetsAre
    <2>2. t \notin Targets
      BY <1>2, <2>1 DEF OneChild, TargetsAre
    <2>3. PICK c \in Workarounds : Targets = {c} /\ t = Parent[c]
      BY <1>10, <2>2
    <2> QED BY <1>10, <2>3
  <1>13. BasesAreClean'
    <2> SUFFICES ASSUME NEW t \in Anchored'
                 PROVE  /\ accepted \subseteq archives[anchors'[t]]
                        /\ \/ archives[anchors'[t]] \subseteq accepted
                           \/ /\ Parent[t] \in Anchored'
                              /\ \A n \in archives[anchors'[t]] \ accepted : Parent[t] \in attempts[n]
                        /\ Parent[t] \in Anchored' => anchors'[Parent[t]] < anchors'[t]
      BY DEF BasesAreClean
    <2>1. t \in Tasks /\ NoTask \notin Tasks /\ Anchored' \subseteq Tasks /\ Current \in Nat
      BY <1>2, <1>4, <1>5, EditsExist, ParentAssumption
    <2>2. Parent[t] \notin Targets
      <3>1. CASE ~IsWorkaround(Targets)
        BY <1>2, <1>6, <2>1, <3>1, BatchShape, ParentAssumption
      <3>2. CASE IsWorkaround(Targets)
        BY <1>2, <2>1, <3>2, ParentAssumption DEF IsWorkaround
      <3> QED BY <3>1, <3>2
    <2>3. Parent[t] \in Anchored' <=> Parent[t] \in Anchored
      BY <1>4, <2>2
    <2>4. Parent[t] \in Anchored => anchors'[Parent[t]] = anchors[Parent[t]]
      BY <1>4, <2>2, <2>3
    <2>5. CASE t \in kept
      <3>1. t \in Anchored /\ anchors'[t] = anchors[t]
        BY <1>4, <2>5
      <3> QED BY <1>1, <2>3, <2>4, <3>1 DEF BasesAreClean
    <2>6. CASE t \notin kept
      <3>1. t \in Targets /\ t \notin Anchored /\ anchors'[t] = Current
        BY <1>4, <2>6
      <3>2. Parent[t] \in Anchored => anchors[Parent[t]] < Current
        BY <1>3, <1>5, <2>1, <2>2, EditsExist DEF Dispatches
      <3>3. \/ archives[Current] \subseteq accepted
            \/ /\ Parent[t] \in Anchored
               /\ \A n \in archives[Current] \ accepted : Parent[t] \in attempts[n]
        <4>1. CASE IsCluster(Targets)
          BY <1>3, <4>1
        <4>2. CASE ~IsCluster(Targets)
          <5>1. Targets = {t}
            BY <3>1, <4>2 DEF IsCluster
          <5>2. Anchored \subseteq {Parent[t]}
            BY <1>3, <3>1, <5>1 DEF Scope, Parents
          <5> QED BY <1>3, <5>2 DEF Covered
        <4> QED BY <4>1, <4>2
      <3> QED BY <1>3, <2>3, <2>4, <3>1, <3>2, <3>3
    <2> QED BY <2>5, <2>6
  <1>14. SettleIsSafe'
    <2>1. Covered(Unaccepted)'
      BY <1>1, <1>3, <1>4, <1>9 DEF Covered, Unaccepted
    <2> QED BY <2>1 DEF SettleIsSafe
  <1>15. ASSUME Open' PROVE StaysPrepared' /\ BatchArchive'
    <2>1. UnrelatedAnchorIds(Targets)' = {}
      BY <1>1, <1>6 DEF UnrelatedAnchorIds, AnchorIds, Owners, Anchored
    <2>2. PrepareScript(Targets)' = {}
      BY <1>1, <2>1 DEF PrepareScript
    <2>3. BatchArchive'
      BY <1>1, <1>3, <1>9 DEF BatchArchive, Covered
    <2> QED BY <1>1, <2>2, <2>3 DEF StaysPrepared
  <1> QED BY <1>4, <1>11, <1>12, <1>13, <1>14, <1>15, JudgementFrame DEF AcceptedIsLive

\* A rejection rolls the batch back: to the baseline of the one update that has
\* one, or to the archive of the batch.
LEMMA RejectIsolated ==
  ASSUME Good, NEW evals \in [Targets -> Verdicts], QaEvaluates(evals), Rejects(evals), ~Retained(evals),
         ~rechecked
  PROVE  IsolationInv'
PROOF
  <1> USE DEF IsolationInv, Good
  <1> DEFINE passed == {t \in Targets : evals[t] = "pass"}
  <1>1. /\ phase = "qa" /\ phase' = "settle" /\ ~Passes(evals)
        /\ script' = IF IsWorkaround(Targets) THEN RestoreFailedWorkaround ELSE RestoreFailedUpdate(Targets)
        /\ anchors' = [t \in DOMAIN anchors \ passed |-> anchors[t]]
        /\ status' = [t \in Tasks |-> IF t \in Targets THEN "workable" ELSE status[t]]
        /\ UNCHANGED <<attempts, archives, live, accepted>>
    <2>1. ~Passes(evals)
      BY DEF Passes, Rejects
    <2> QED BY <2>1 DEF QaEvaluates, QaScript, AnchorUpdates, Ingest
  <1>2. /\ Current' = Current /\ Targets' = Targets /\ ~Ended /\ ~Ended'
        /\ Open /\ Targets \in Batches /\ Targets # {} /\ Targets \subseteq Tasks /\ TargetsAre("fixed")
    BY <1>1, QaStart DEF Current, Targets, Ended, Open
  <1>3. /\ Current \in DOMAIN archives /\ Anchored \subseteq Scope(Targets)
        /\ accepted \subseteq archives[Current] /\ Covered(archives[Current] \ accepted)
        /\ Anchored = {} => archives[Current] = accepted
    BY <1>1, <1>2, BatchFacts
  <1>4. Anchored' = Anchored \ passed /\ \A t \in Anchored' : anchors'[t] = anchors[t]
    BY <1>1 DEF Anchored
  <1>5. \A t \in Anchored \cap Targets : Anchored = {t} /\ t \notin Workarounds
    BY <1>2, FirstAlone
  <1>6. ~Open'
    BY <1>1, <1>2 DEF Open, TargetsAre
  <1>7. \A t \in Anchored' : t \in Anchored /\ (Parent[t] \in Anchored => Parent[t] \in Anchored')
    BY <1>4, <1>5, EditsExist, ParentAssumption
  <1>8. LoneRetry'
    <2> SUFFICES ASSUME NEW t \in Anchored', status'[t] = "workable"
                 PROVE  Anchored' = {t} /\ t \notin Workarounds
      BY <1>6 DEF LoneRetry
    <2>1. CASE t \in Targets
      BY <1>4, <1>5, <2>1
    <2>2. CASE t \notin Targets
      BY <1>1, <1>2, <1>4, <2>2, EditsExist DEF LoneRetry
    <2> QED BY <2>1, <2>2
  <1>9. PivotAlone'
    <2> SUFFICES ASSUME NEW t \in Anchored', Pivoted(t)', NEW u \in Anchored' PROVE u = t \/ Parent[u] = t
      BY DEF PivotAlone
    <2>1. Pivoted(t)
      BY <1>1, <1>2 DEF Pivoted, Spawned, TargetsAre
    <2> QED BY <1>2, <1>4, <2>1 DEF PivotAlone
  <1>10. BasesAreClean'
    BY <1>1, <1>2, <1>4, <1>7 DEF BasesAreClean
  <1>11. SettleIsSafe'
    <2>1. ASSUME NEW o \in script', o.op # "discard"
          PROVE  /\ o.id \in DOMAIN archives
                 /\ accepted \subseteq archives[o.id] /\ Covered(archives[o.id] \ accepted)'
                 /\ o.op = "restore" => \A p \in script' : p.op # "restore" => p.id # o.id
                 /\ o.op = "settle" => script' = {o}
      <3>1. CASE IsWorkaround(Targets)
        <4>1. script' = {o} /\ o.op = "settle" /\ o.id = Current
          BY <1>1, <2>1, <3>1 DEF RestoreFailedWorkaround, Apply
        <4>2. passed = {}
          BY <1>2, <3>1, BatchShape DEF Rejects
        <4> QED BY <1>1, <1>3, <1>4, <4>1, <4>2 DEF Covered
      <3>2. CASE ~IsWorkaround(Targets)
        <4>1. script' = RestoreFailedUpdate(Targets) /\ Anchored \subseteq Targets /\ Scope(Targets) = Targets
          BY <1>1, <1>2, <1>3, <3>2, BatchShape
        <4>2. \A p \in script' : p.op \in {"restore", "settle", "discard"}
          BY <4>1, RestoreFailedUpdateType, TargetsShape, <1>2 DEF TypeInv, Ops
        <4>3. CASE o.op = "restore"
          <5>1. PICK t \in Anchored : o.id = anchors[t]
            BY <1>1, <1>2, <4>1, <4>3, FailedUpdateRestores
          <5>2. archives[o.id] = accepted /\ o.id \in DOMAIN archives
            BY <1>2, <1>5, <4>1, <5>1, AnchoredBase
          <5>3. \A q \in script' : q.op # "restore" => q.id # o.id
            BY <1>1, <1>2, <4>1, <4>2, <4>3, FailedUpdateRestores
          <5> QED BY <1>1, <4>3, <5>2, <5>3 DEF Covered
        <4>4. CASE o.op = "settle"
          <5>1. o.id = Current /\ script' = {o} /\ AnchorIds(Targets) = {}
            BY <1>1, <1>2, <4>1, <4>4, FailedUpdateRestores
          <5>2. Anchored = {}
            BY <4>1, <5>1 DEF AnchorIds, Anchored
          <5> QED BY <1>1, <1>3, <4>4, <5>1, <5>2 DEF Covered
        <4> QED BY <2>1, <4>2, <4>3, <4>4
      <3> QED BY <3>1, <3>2
    <2>2. \E o \in script' : o.op # "discard"
      <3>1. CASE IsWorkaround(Targets)
        <4>1. [op |-> "settle", id |-> Current, turn |-> 1] \in script'
          BY <1>1, <3>1 DEF RestoreFailedWorkaround, Apply
        <4> QED BY <4>1
      <3>2. CASE ~IsWorkaround(Targets)
        <4>1. PICK o \in script' : TRUE
          BY <1>1, <3>2 DEF RestoreFailedUpdate, Apply
        <4> QED BY <1>1, <1>2, <3>2, <4>1, FailedUpdateRestores
      <3> QED BY <3>1, <3>2
    <2> QED BY <1>1, <2>1, <2>2 DEF SettleIsSafe, Restores, Covered
  <1>12. \A u \in Tasks \ Targets : status'[u] = status[u]
    BY <1>1
  <1>13. \A u \in Targets : status'[u] # "unspawned"
    BY <1>1, <1>2
  <1> QED BY <1>1, <1>4, <1>6, <1>8, <1>9, <1>10, <1>11, <1>12, <1>13, JudgementFrame DEF AcceptedIsLive

LEMMA QaEvaluatesIsolated ==
  ASSUME Good, ~RecheckMayReject, NEW evals \in [Targets -> Verdicts], QaEvaluates(evals)
  PROVE  IsolationInv'
PROOF
  <1> USE DEF Good
  <1>1. /\ phase = "qa" /\ phase' = "settle" /\ (Rejects(evals) => ~rechecked)
        /\ script' = QaScript(evals) /\ anchors' = AnchorUpdates(evals, Retained(evals)) /\ Ingest(evals)
        /\ rechecked' = (rechecked \/ (~Rejects(evals) /\ ~Passes(evals)))
        /\ accepted' = (IF Passes(evals) THEN live ELSE accepted)
        /\ UNCHANGED <<attempts, archives, live>>
    BY DEF QaEvaluates
  <1>2. Open /\ Targets \in Batches /\ Targets # {} /\ Targets \subseteq Tasks /\ TargetsAre("fixed")
    BY <1>1, QaStart DEF Open
  <1>3. CASE Passes(evals)
    BY <1>3, PassIsolated
  <1>4. CASE Rejects(evals) /\ ~Retained(evals)
    BY <1>1, <1>4, RejectIsolated
  <1>5. CASE ~Passes(evals) /\ Retained(evals)
    <2> DEFINE passed == {t \in Targets : evals[t] = "pass"}
               kept == Anchored \ passed
               added == Targets \ passed
    <2>1. script' = {} /\ anchors' = [t \in kept \cup added |-> IF t \in kept THEN anchors[t] ELSE Current]
      BY <1>1, <1>5 DEF QaScript, AnchorUpdates, Anchored
    <2>2. added # {}
      BY <1>5 DEF Passes
    <2>3. /\ \A u \in Tasks \ Targets : status'[u] = status[u]
          /\ \A u \in Targets : status'[u] # "unspawned"
      BY <1>1, <1>2, <1>5 DEF Ingest, TargetsAre
    <2>4. IsCluster(Targets) \/ Targets \subseteq kept \cup added
      <3> SUFFICES ASSUME ~IsCluster(Targets) PROVE passed = {}
        OBVIOUS
      <3>1. \A t, u \in Targets : t = u
        BY DEF IsCluster
      <3> QED BY <2>2, <3>1
    <2>5. /\ kept \in SUBSET Anchored /\ added \in SUBSET Targets
          /\ Anchored \ kept \subseteq Targets /\ added \cap Anchored \subseteq kept
      OBVIOUS
    <2>6. CASE Rejects(evals)
      <3>1. ~IsCluster(Targets) /\ ~IsWorkaround(Targets)
        BY <1>5, <2>6 DEF Retained
      <3>2. status' = [t \in Tasks |-> IF t \in Targets THEN "workable" ELSE status[t]]
        BY <1>1, <2>6 DEF Ingest
      <3>3. ~Open'
        BY <1>1, <1>2, <3>2 DEF Open, TargetsAre, Targets, Current
      <3>4. \A t, u \in Targets : t = u
        BY <3>1 DEF IsCluster
      <3> HIDE DEF kept, added
      <3> QED BY <1>1, <1>5, <2>1, <2>2, <2>3, <2>4, <2>5, <3>1, <3>3, <3>4, KeptIsolated
    <2>7. CASE ~Rejects(evals)
      <3>1. \A u \in Targets : status'[u] # "workable"
        BY <1>1, <1>2, <1>5, <2>7 DEF Ingest, TargetsAre
      <3>2. rechecked'
        BY <1>1, <1>5, <2>7
      <3> HIDE DEF kept, added
      <3> QED BY <1>1, <1>5, <2>1, <2>2, <2>3, <2>4, <2>5, <3>1, <3>2, KeptIsolated
    <2> QED BY <2>6, <2>7
  <1> QED BY <1>3, <1>4, <1>5 DEF Retained

\* The Supervisor gets back a workspace whose unaccepted edits are covered.
LEMMA WrapperReturnsIsolated ==
  ASSUME Good, WrapperReturns PROVE IsolationInv'
PROOF
  <1> USE DEF IsolationInv, Good
  <1>1. /\ phase = "settle" /\ script = {} /\ phase' = "supervisor"
        /\ UNCHANGED <<status, attempts, rechecked, script, anchors, archives, live, accepted>>
    BY DEF WrapperReturns
  <1>2. /\ Current' = Current /\ Targets' = Targets /\ Anchored' = Anchored /\ ~Ended /\ ~Ended'
        /\ Unaccepted' = Unaccepted /\ PrepareScript(Targets)' = PrepareScript(Targets) /\ (Open' <=> Open)
    BY <1>1 DEF Current, Targets, Anchored, Ended, Unaccepted, PrepareScript, PreservesCandidate,
                UnrelatedAnchorIds, AnchorIds, Owners, Open, TargetsAre
  <1>3. ScriptIsPlan' /\ StaysPrepared' /\ SettleIsSafe' /\ RaiseIsSafe'
    BY <1>1, <1>2 DEF ScriptIsPlan, Preparing, StaysPrepared, SettleIsSafe, RaiseIsSafe
  <1>4. LoneRetry' /\ PivotAlone' /\ OneChild' /\ AcceptedIsLive' /\ BasesAreClean'
    BY <1>1, <1>2 DEF LoneRetry, PivotAlone, OneChild, AcceptedIsLive, Pivoted, Spawned, BasesAreClean
  <1>5. BatchArchive' /\ ArchivesPrecede'
    BY <1>1, <1>2 DEF BatchArchive, ArchivesPrecede, Covered
  <1>6. LiveIsCovered'
    BY <1>1, <1>2 DEF LiveIsCovered, SettleIsSafe, Covered
  <1> QED BY <1>3, <1>4, <1>5, <1>6

-----------------------------------------------------------------------------
(* A node that raises. *)

\* What a raising node leaves: a last restore that ends in the accepted workspace.
LEMMA RaiseFrame ==
  ASSUME Good, ~Ended, phase' = "raising",
         UNCHANGED <<status, attempts, anchors, archives, accepted>>,
         live' = live \/ live' = live \cup {Current},
         \A p \in script' : Restores(p) => p.id \in DOMAIN archives /\ accepted \subseteq archives[p.id],
         NEW o \in script', Restores(o), archives[o.id] = accepted,
         \A p \in script' : (p.turn <= o.turn => p = o \/ p.id # o.id) /\ (p.turn >= o.turn => Harmless(p))
  PROVE  IsolationInv'
PROOF
  <1> USE DEF IsolationInv, Good
  <1>1. Current' = Current /\ Targets' = Targets /\ Anchored' = Anchored /\ Ended' /\ ~Open'
    BY DEF Current, Targets, Anchored, Ended, Open
  <1>2. /\ ScriptIsPlan' /\ StaysPrepared' /\ LoneRetry' /\ PivotAlone' /\ BasesAreClean' /\ BatchArchive'
        /\ LiveIsCovered' /\ SettleIsSafe'
    BY <1>1 DEF ScriptIsPlan, Preparing, StaysPrepared, LoneRetry, PivotAlone, BasesAreClean, BatchArchive,
                LiveIsCovered, SettleIsSafe
  <1>3. OneChild' /\ AcceptedIsLive'
    BY <1>1 DEF OneChild, Pivoted, Spawned, AcceptedIsLive
  <1>4. ArchivesPrecede'
    <2>1. \A n \in live' : n <= Current
      BY EditsExist
    <2> QED BY <1>1, <2>1 DEF ArchivesPrecede
  <1>5. RaiseIsSafe'
    BY DEF RaiseIsSafe, Restores, Harmless
  <1> QED BY <1>2, <1>3, <1>4, <1>5

\* A failing batch of updates is restored from the baselines its tasks have, which
\* are all the accepted workspace, or from its own archive.
LEMMA UpdateRaises ==
  ASSUME Good, Open, phase \in {"worker", "qa"}, ~IsWorkaround(Targets), phase' = "raising",
         script' = RestoreFailedUpdate(Targets),
         UNCHANGED <<status, attempts, anchors, archives, accepted>>,
         live' = live \/ live' = live \cup {Current}
  PROVE  IsolationInv'
PROOF
  <1>1. /\ Targets \in Batches /\ Current \in DOMAIN archives /\ Anchored \subseteq Scope(Targets)
        /\ Anchored = {} => archives[Current] = accepted
    BY BatchFacts
  <1>2. ~Ended /\ Scope(Targets) = Targets /\ Parents(Targets) = {} /\ Targets \cap Workarounds = {}
    BY <1>1, BatchShape DEF Ended
  <1>3. \A t \in Anchored : anchors[t] \in DOMAIN archives /\ archives[anchors[t]] = accepted /\ t \in Targets
    BY <1>1, <1>2, AnchoredBase
  <1>4. CASE Anchored = {}
    <2> DEFINE o == [op |-> "settle", id |-> Current, turn |-> 1]
    <2>1. AnchorIds(Targets) = {}
      BY <1>4 DEF AnchorIds, Anchored
    <2>2. script' = {o}
      BY <1>2, <2>1 DEF RestoreFailedUpdate, Apply
    <2>3. Restores(o) /\ o.id \in DOMAIN archives /\ archives[o.id] = accepted /\ Harmless(o)
      BY <1>1, <1>4 DEF Restores, Harmless
    <2> HIDE DEF o
    <2> QED BY <1>1, <1>2, <1>4, <2>2, <2>3, RaiseFrame
  <1>5. ASSUME NEW t \in Anchored PROVE IsolationInv'
    <2> DEFINE o == [op |-> "restore", id |-> anchors[t], turn |-> 1]
               d == [op |-> "discard", id |-> Current, turn |-> 3]
    <2>1. anchors[t] \in AnchorIds(Targets)
      BY <1>3 DEF AnchorIds, Anchored
    <2>2. AnchorIds({}) = {}
      BY DEF AnchorIds
    <2>3. script' = Apply("restore", 1, AnchorIds(Targets)) \cup {d}
      BY <1>2, <2>1, <2>2 DEF RestoreFailedUpdate, RestoreRetained, Apply
    <2>4. \A p \in Apply("restore", 1, AnchorIds(Targets)) :
            /\ p.turn = 1 /\ Restores(p) /\ p.id \in DOMAIN archives /\ archives[p.id] = accepted /\ Harmless(p)
            /\ p.id = o.id => p = o
      BY <1>3 DEF Apply, AnchorIds, Anchored, Restores, Harmless
    <2>5. o \in Apply("restore", 1, AnchorIds(Targets))
      BY <2>1 DEF Apply
    <2>6. ~Restores(d) /\ d.turn = 3 /\ o.turn = 1 /\ Harmless(d)
      BY DEF Restores, Harmless
    <2> HIDE DEF o, d
    <2>7. \A p \in script' : (p.turn <= o.turn => p = o \/ p.id # o.id) /\ (p.turn >= o.turn => Harmless(p))
      BY <2>3, <2>4, <2>6
    <2>8. \A p \in script' : Restores(p) => p.id \in DOMAIN archives /\ accepted \subseteq archives[p.id]
      BY <2>3, <2>4, <2>6
    <2>9. o \in script' /\ Restores(o) /\ archives[o.id] = accepted
      BY <2>3, <2>4, <2>5
    <2> QED BY <1>2, <2>7, <2>8, <2>9, RaiseFrame
  <1> QED BY <1>4, <1>5

\* A workaround is undone before its parent, or its own baseline, is restored.
LEMMA WorkaroundRaises ==
  ASSUME Good, Open, phase \in {"worker", "qa"}, IsWorkaround(Targets), phase' = "raising",
         NEW own \in SUBSET AnchorIds(Targets), phase = "qa" => own = AnchorIds(Targets),
         phase = "worker" => own = {},
         NEW last \in Nat, last > 2 \/ (last = 2 /\ own = {}),
         script' = Apply("settle", 1, {Current}) \cup Apply("settle", 2, own)
                     \cup Apply("settle", last, AnchorIds(Parents(Targets))),
         UNCHANGED <<status, attempts, anchors, archives, accepted>>,
         live' = live \/ live' = live \cup {Current}
  PROVE  IsolationInv'
PROOF
  <1>1. /\ Targets \in Batches /\ Targets \subseteq Tasks /\ Current \in DOMAIN archives
        /\ Anchored \subseteq Scope(Targets) /\ accepted \subseteq archives[Current]
        /\ Covered(archives[Current] \ accepted)
        /\ Anchored = {} => archives[Current] = accepted
        /\ \A t \in Anchored : anchors[t] = Current => t \in Targets
    BY BatchFacts
  <1>2. PICK c \in Workarounds : Targets = {c} /\ Scope(Targets) = {c} \cup ({Parent[c]} \ {NoTask})
    BY <1>1, BatchShape
  <1>3. ~Ended /\ c \in Tasks /\ Parent[c] # c /\ (Parent[c] \in Anchored => Parent[c] \notin Workarounds)
    BY <1>1, <1>2, EditsExist, ParentAssumption DEF Ended
  <1>4. \A t \in Anchored : anchors[t] \in DOMAIN archives /\ accepted \subseteq archives[anchors[t]]
    BY <1>3, AnchoredBase
  <1>5. \A p \in script' :
          /\ p.op = "settle" /\ Restores(p)
          /\ p.id \in DOMAIN archives /\ accepted \subseteq archives[p.id]
    BY <1>1, <1>4 DEF Apply, AnchorIds, Anchored, Restores
  <1>6. ASSUME Parent[c] \in Anchored PROVE IsolationInv'
    <2> DEFINE o == [op |-> "settle", id |-> anchors[Parent[c]], turn |-> last]
    <2>1. AnchorIds(Parents(Targets)) = {anchors[Parent[c]]}
      BY <1>1, <1>2, <1>3, <1>6, EditsExist, ParentAssumption DEF AnchorIds, Parents, Anchored
    <2>2. archives[o.id] = accepted
      BY <1>3, <1>6, AnchoredBase
    <2>3. o \in script'
      BY <2>1 DEF Apply
    <2>4. o.id # Current
      BY <1>1, <1>2, <1>3, <1>6
    <2>5. \A i \in own : i # o.id
      BY <1>2, <1>3, <1>6, EditsExist DEF AnchorIds, Anchored, Good, IsolationInv, BasesAreClean, Dispatches
    <2>6. \A p \in script' : p = o \/ (p.turn \in Nat /\ p.turn < o.turn /\ p.id # o.id)
      BY <2>1, <2>4, <2>5 DEF Apply
    <2> HIDE DEF o
    <2>7. \A p \in script' : (p.turn <= o.turn => p = o \/ p.id # o.id) /\ (p.turn >= o.turn => Harmless(p))
      <3>1. Harmless(o) /\ o.turn \in Nat
        BY <2>2 DEF Harmless, o
      <3> QED BY <2>6, <3>1
    <2> QED BY <1>3, <1>5, <2>2, <2>3, <2>7, RaiseFrame
  <1>7. ASSUME Parent[c] \notin Anchored PROVE IsolationInv'
    <2>1. AnchorIds(Parents(Targets)) = {}
      BY <1>2, <1>7 DEF AnchorIds, Parents, Anchored
    <2>2. Anchored \subseteq {c}
      BY <1>1, <1>2, <1>7
    <2>3. CASE own = {}
      <3> DEFINE o == [op |-> "settle", id |-> Current, turn |-> 1]
      <3>1. Anchored = {}
        <4>1. phase = "qa" => c \notin Anchored
          BY <1>2, <2>3 DEF AnchorIds, Anchored
        <4>2. phase = "worker" => c \notin Anchored
          BY <1>2, FirstAlone DEF Good, IsolationInv, AnchorInv, BatchStatus
        <4> QED BY <2>2, <4>1, <4>2
      <3>2. script' = {o}
        BY <2>1, <2>3 DEF Apply
      <3>3. archives[o.id] = accepted /\ Harmless(o)
        BY <1>1, <3>1 DEF Harmless
      <3> HIDE DEF o
      <3>4. \A p \in script' : (p.turn <= o.turn => p = o \/ p.id # o.id) /\ (p.turn >= o.turn => Harmless(p))
        BY <3>2, <3>3
      <3>5. o \in script' /\ Restores(o)
        BY <1>5, <3>2
      <3> QED BY <1>3, <1>5, <3>3, <3>4, <3>5, RaiseFrame
    <2>4. CASE own # {}
      <3>1. c \in Anchored /\ own = {anchors[c]}
        BY <1>2, <2>4 DEF AnchorIds, Anchored
      <3>2. archives[anchors[c]] = accepted
        BY <1>3, <1>7, <3>1, AnchoredBase
      <3> DEFINE q == [op |-> "settle", id |-> Current, turn |-> 1]
                 r == [op |-> "settle", id |-> anchors[c], turn |-> 2]
      <3>3. script' = {q, r}
        BY <2>1, <3>1 DEF Apply
      <3>4. CASE anchors[c] = Current
        <4>1. archives[q.id] = accepted /\ Harmless(q) /\ Harmless(r) /\ q.turn = 1 /\ r.turn = 2
          BY <3>2, <3>4 DEF Harmless
        <4> HIDE DEF q, r
        <4>2. \A p \in script' : (p.turn <= q.turn => p = q \/ p.id # q.id) /\ (p.turn >= q.turn => Harmless(p))
          BY <3>3, <4>1
        <4>3. q \in script' /\ Restores(q)
          BY <1>5, <3>3
        <4> QED BY <1>3, <1>5, <4>1, <4>2, <4>3, RaiseFrame
      <3>5. CASE anchors[c] # Current
        <4>1. archives[r.id] = accepted /\ Harmless(r) /\ q.turn = 1 /\ r.turn = 2 /\ q.id # r.id
          BY <3>2, <3>5 DEF Harmless
        <4> HIDE DEF q, r
        <4>2. \A p \in script' : (p.turn <= r.turn => p = r \/ p.id # r.id) /\ (p.turn >= r.turn => Harmless(p))
          BY <3>3, <4>1
        <4>3. r \in script' /\ Restores(r)
          BY <1>5, <3>3
        <4> QED BY <1>3, <1>5, <4>1, <4>2, <4>3, RaiseFrame
      <3> QED BY <3>4, <3>5
    <2> QED BY <2>3, <2>4
  <1> QED BY <1>6, <1>7

LEMMA WorkerRaisesIsolated ==
  ASSUME Good, WorkerRaises PROVE IsolationInv'
PROOF
  <1>1. /\ phase = "worker" /\ phase' = "raising" /\ live' = live \cup {Current} /\ Open
        /\ UNCHANGED <<status, attempts, anchors, archives, accepted>>
    BY DEF WorkerRaises, Open
  <1>2. CASE ~IsWorkaround(Targets)
    BY <1>1, <1>2, UpdateRaises DEF WorkerRaises
  <1>3. CASE IsWorkaround(Targets)
    <2>1. Apply("settle", 2, {}) = {}
      BY DEF Apply
    <2>2. script' = Apply("settle", 1, {Current}) \cup Apply("settle", 2, {})
                      \cup Apply("settle", 2, AnchorIds(Parents(Targets)))
      BY <1>3, <2>1 DEF WorkerRaises
    <2> QED BY <1>1, <1>3, <2>2, WorkaroundRaises
  <1> QED BY <1>2, <1>3

LEMMA QaRaisesIsolated ==
  ASSUME Good, QaRaises PROVE IsolationInv'
PROOF
  <1>1. /\ phase = "qa" /\ phase' = "raising" /\ live' = live /\ Open
        /\ UNCHANGED <<status, attempts, anchors, archives, accepted>>
    BY QaStart DEF QaRaises, Open, Good
  <1>2. CASE ~IsWorkaround(Targets)
    BY <1>1, <1>2, UpdateRaises DEF QaRaises
  <1>3. CASE IsWorkaround(Targets)
    <2>1. script' = Apply("settle", 1, {Current}) \cup Apply("settle", 2, AnchorIds(Targets))
                      \cup Apply("settle", 3, AnchorIds(Parents(Targets)))
      BY <1>3 DEF QaRaises
    <2> QED BY <1>1, <1>3, <2>1, WorkaroundRaises
  <1> QED BY <1>2, <1>3

\* Nothing is left to restore: what is live is the accepted workspace.
LEMMA RunAbortsIsolated ==
  ASSUME Good, RunAborts PROVE IsolationInv'
PROOF
  <1> USE DEF IsolationInv, Good
  <1>1. /\ phase = "raising" /\ script = {} /\ phase' = "raised"
        /\ UNCHANGED <<status, attempts, script, anchors, archives, live, accepted>>
    BY DEF RunAborts
  <1>2. /\ Current' = Current /\ Targets' = Targets /\ Anchored' = Anchored /\ Ended' /\ ~Open'
    BY <1>1 DEF Current, Targets, Anchored, Ended, Open
  <1>3. /\ ScriptIsPlan' /\ StaysPrepared' /\ LoneRetry' /\ PivotAlone' /\ BasesAreClean' /\ BatchArchive'
        /\ LiveIsCovered' /\ SettleIsSafe'
    BY <1>1, <1>2 DEF ScriptIsPlan, Preparing, StaysPrepared, LoneRetry, PivotAlone, BasesAreClean, BatchArchive,
                LiveIsCovered, SettleIsSafe
  <1>4. OneChild' /\ AcceptedIsLive' /\ ArchivesPrecede' /\ RaiseIsSafe'
    BY <1>1, <1>2 DEF OneChild, Pivoted, Spawned, AcceptedIsLive, ArchivesPrecede, RaiseIsSafe
  <1> QED BY <1>3, <1>4

-----------------------------------------------------------------------------
(* The theorems. *)

LEMMA NextIsolated ==
  ASSUME Good, ~RecheckMayReject, ~DeltaIsolation, [Next]_vars, faults' = faults
  PROVE  IsolationInv'
PROOF
  <1>1. CASE \E T \in Batches : DispatchWorker(T)
    BY <1>1, DispatchWorkerIsolated
  <1>2. CASE DispatchQa
    BY <1>2, DispatchQaIsolated
  <1>3. CASE \E t \in Workarounds : Pivot(t)
    BY <1>3, PivotIsolated
  <1>4. CASE \E t \in Tasks : GiveUp(t)
    BY <1>4, GiveUpIsolated
  <1>5. CASE Teardown
    BY <1>5, TeardownIsolated
  <1>6. CASE \E o \in script : RunRestore(o) \/ RunDiscard(o)
    BY <1>6, RunRestoreIsolated, RunDiscardIsolated
  <1>7. ~AbandonDispatch
    BY DEF AbandonDispatch, Good
  <1>8. CASE SnapshotWorkspace
    BY <1>8, SnapshotIsolated
  <1>9. CASE EnterQa
    BY <1>9, EnterQaIsolated
  <1>10. CASE WorkerSucceeds
    BY <1>10, WorkerSucceedsIsolated
  <1>11. CASE WorkerFails
    BY <1>11, WorkerFailsIsolated
  <1>12. CASE \E evals \in [Targets -> Verdicts] : QaEvaluates(evals)
    BY <1>12, QaEvaluatesIsolated
  <1>13. \A evals : ~DeltaInconclusive(evals)
    BY DEF DeltaInconclusive
  <1>14. CASE WrapperReturns
    BY <1>14, WrapperReturnsIsolated
  <1>15. CASE WorkerRaises
    BY <1>15, WorkerRaisesIsolated
  <1>16. CASE QaRaises
    BY <1>16, QaRaisesIsolated
  <1>17. CASE RunAborts
    BY <1>17, RunAbortsIsolated
  <1>18. CASE UNCHANGED vars
    <2> USE DEF IsolationInv, Good
    <2>1. UNCHANGED <<status, attempts, rechecked, phase, script, blocked, anchors, archives, live, accepted>>
      BY <1>18 DEF vars
    <2>2. /\ Current' = Current /\ Targets' = Targets /\ Anchored' = Anchored /\ (Ended' <=> Ended)
          /\ Unaccepted' = Unaccepted /\ PrepareScript(Targets)' = PrepareScript(Targets) /\ (Open' <=> Open)
      BY <2>1 DEF Current, Targets, Anchored, Ended, Unaccepted, PrepareScript, PreservesCandidate,
                  UnrelatedAnchorIds, AnchorIds, Owners, Open, TargetsAre
    <2>3. ScriptIsPlan' /\ StaysPrepared' /\ LiveIsCovered' /\ AcceptedIsLive'
      BY <2>1, <2>2 DEF ScriptIsPlan, Preparing, StaysPrepared, LiveIsCovered, AcceptedIsLive, Covered
    <2>4. LoneRetry' /\ PivotAlone' /\ OneChild' /\ BasesAreClean'
      BY <2>1, <2>2 DEF LoneRetry, PivotAlone, OneChild, BasesAreClean, Pivoted, Spawned
    <2>5. BatchArchive' /\ ArchivesPrecede'
      BY <2>1, <2>2 DEF BatchArchive, ArchivesPrecede, Covered
    <2>6. SettleIsSafe' /\ RaiseIsSafe'
      BY <2>1, <2>2 DEF SettleIsSafe, RaiseIsSafe, Restores, Harmless, Covered
    <2> QED BY <2>3, <2>4, <2>5, <2>6
  <1> QED
    BY <1>1, <1>2, <1>3, <1>4, <1>5, <1>6, <1>7, <1>8, <1>9, <1>10, <1>11, <1>12, <1>13, <1>14, <1>15,
       <1>16, <1>17, <1>18 DEF Next

LEMMA InitIsolated == Init => IsolationInv
PROOF
  <1> SUFFICES ASSUME Init PROVE IsolationInv
    OBVIOUS
  <1>1. /\ phase = "supervisor" /\ Anchored = {} /\ DOMAIN archives = {} /\ live = {} /\ accepted = {} /\ Len(attempts) = 0
        /\ status = [t \in Tasks |-> IF Parent[t] = NoTask THEN "workable" ELSE "unspawned"]
    BY DEF Init, Anchored
  <1>2. ~Open
    BY <1>1 DEF Open
  <1>3. OneChild
    <2>1. \A t \in Tasks : Spawned(t) => Parent[t] = NoTask
      BY <1>1 DEF Spawned
    <2> QED BY <1>1, <2>1, ParentAssumption DEF OneChild, Pivoted
  <1>4. ScriptIsPlan /\ StaysPrepared /\ LoneRetry /\ PivotAlone /\ BasesAreClean /\ BatchArchive /\ ArchivesPrecede
    BY <1>1, <1>2 DEF ScriptIsPlan, Preparing, StaysPrepared, LoneRetry, PivotAlone, BasesAreClean, BatchArchive,
                      ArchivesPrecede
  <1>5. LiveIsCovered /\ SettleIsSafe /\ RaiseIsSafe /\ AcceptedIsLive
    BY <1>1 DEF LiveIsCovered, SettleIsSafe, RaiseIsSafe, AcceptedIsLive, Covered, Unaccepted
  <1> QED BY <1>3, <1>4, <1>5 DEF IsolationInv

\* Failures are counted, never forgotten.
LEMMA FaultsGrow ==
  ASSUME TypeInv, [Next]_vars
  PROVE  faults \in Nat /\ (faults' = faults \/ faults' = faults + 1)
PROOF
  <1>1. \A o \in script : RunRestore(o) \/ RunDiscard(o) => faults' = faults \/ faults' = faults + 1
    BY DEF RunRestore, Restored, RestoreFails, RemoveFails, RunDiscard
  <1>2. SnapshotWorkspace => faults' = faults \/ faults' = faults + 1
    BY DEF SnapshotWorkspace
  <1>3. faults \in Nat
    BY BoundAssumption DEF TypeInv, TypeOK
  <1> QED
    BY <1>1, <1>2, <1>3 DEF Next, vars, DispatchWorker, DispatchQa, Pivot, GiveUp, Teardown, AbandonDispatch, EnterQa,
       WorkerSucceeds, WorkerFails, QaEvaluates, DeltaInconclusive, WrapperReturns, WorkerRaises, QaRaises, RunAborts

\* A baseline holds no edit of its task: what it holds beyond the accepted
\* workspace was made by its parent, in batches that hold no workaround.
LEMMA BasesBeforeEdits ==
  ASSUME Good, ~Ended PROVE AnchorIsBaseline
PROOF
  <1> SUFFICES ASSUME NEW t \in Anchored, NEW n \in archives[anchors[t]] \ accepted, t \in attempts[n]
               PROVE  FALSE
    BY DEF AnchorIsBaseline, Anchored
  <1>1. Parent[t] \in Anchored /\ Parent[t] \in attempts[n]
    BY DEF Good, IsolationInv, BasesAreClean
  <1>2. t \in Workarounds /\ Parent[t] \notin Workarounds /\ Parent[t] # t
    BY <1>1, EditsExist, ParentAssumption
  <1>3. attempts[n] \in Batches
    <2>1. n \in Dispatches /\ n < Current
      BY EditsExist
    <2>2. n \in 1 .. Len(attempts) /\ attempts \in Seq(Batches)
      BY <2>1, EditsExist DEF Good, TypeInv, TypeOK, Dispatches, Current
    <2> QED BY <2>2
  <1> QED BY <1>1, <1>2, <1>3, BatchAssumption

\* A raising node's cleanup only deletes archives.
LEMMA NextBaseline ==
  ASSUME Good, AnchorIsBaseline, [Next]_vars, faults' = faults, phase' \in {"raising", "raised"}
  PROVE  AnchorIsBaseline'
PROOF
  <1>1. \/ phase \in {"raising", "raised"}
        \/ WorkerRaises \/ QaRaises
    <2>1. \A o \in script : RunRestore(o) \/ RunDiscard(o) => phase' = phase
      BY DEF RunRestore, RunDiscard
    <2>2. \A evals : QaEvaluates(evals) \/ DeltaInconclusive(evals) => phase' = "settle"
      BY DEF QaEvaluates, DeltaInconclusive
    <2>3. UNCHANGED vars \/ (\E t \in Workarounds : Pivot(t)) \/ (\E t \in Tasks : GiveUp(t)) => phase' = phase
      BY DEF vars, Pivot, GiveUp
    <2>4. (\E T \in Batches : DispatchWorker(T)) \/ DispatchQa => phase' \in {"prepare_worker", "prepare_qa"}
      BY DEF DispatchWorker, DispatchQa
    <2>5. Teardown \/ AbandonDispatch \/ EnterQa \/ WorkerSucceeds \/ WorkerFails \/ WrapperReturns \/ SnapshotWorkspace
            => phase' \notin {"raising", "raised"}
      BY DEF Teardown, AbandonDispatch, EnterQa, WorkerSucceeds, WorkerFails, WrapperReturns, SnapshotWorkspace
    <2>6. RunAborts => phase = "raising"
      BY DEF RunAborts
    <2> QED BY <2>1, <2>2, <2>3, <2>4, <2>5, <2>6 DEF Next
  <1>2. /\ anchors' = anchors /\ attempts' = attempts /\ accepted' = accepted
        /\ DOMAIN archives' \subseteq DOMAIN archives /\ \A id \in DOMAIN archives' : archives'[id] = archives[id]
    <2>1. CASE WorkerRaises \/ QaRaises
      BY <2>1 DEF WorkerRaises, QaRaises
    <2>2. CASE UNCHANGED vars \/ RunAborts
      BY <2>2 DEF vars, RunAborts
    <2>3. ASSUME NEW o \in script, RunRestore(o) \/ RunDiscard(o), phase \in {"raising", "raised"}
          PROVE  /\ anchors' = anchors /\ attempts' = attempts /\ accepted' = accepted
                 /\ DOMAIN archives' \subseteq DOMAIN archives /\ \A id \in DOMAIN archives' : archives'[id] = archives[id]
      BY <2>3 DEF RunRestore, RunDiscard, Restored, RestoreFails, RemoveFails, Preparing, Without
    <2>4. phase \in {"raising", "raised"} =>
            UNCHANGED vars \/ RunAborts \/ \E o \in script : RunRestore(o) \/ RunDiscard(o)
      BY DEF Next, vars, DispatchWorker, DispatchQa, Pivot, GiveUp, Teardown, AbandonDispatch, Preparing,
             SnapshotWorkspace, EnterQa, WorkerSucceeds, WorkerFails, QaEvaluates, DeltaInconclusive, WrapperReturns,
             WorkerRaises, QaRaises
    <2> QED BY <1>1, <2>1, <2>2, <2>3, <2>4
  <1> QED BY <1>2 DEF AnchorIsBaseline

\* As long as nothing failed.
FaultlessInv == faults = 0 => IsolationInv /\ AnchorIsBaseline

ProtocolInv == TypeInv /\ AnchorInv /\ DispatchNeverWedged /\ FaultlessInv

LEMMA InitProtocol == Init => ProtocolInv
PROOF
  <1>1. Init => DispatchNeverWedged /\ AnchorIsBaseline
    BY DEF Init, DispatchNeverWedged, AnchorIsBaseline
  <1> QED BY <1>1, InitTypeInv, InitAnchorInv, InitIsolated DEF ProtocolInv, FaultlessInv

LEMMA ProtocolIsGood == ProtocolInv /\ faults = 0 => Good /\ AnchorIsBaseline
  BY DEF ProtocolInv, FaultlessInv, DispatchNeverWedged, Good

LEMMA NextProtocol ==
  ASSUME ~RecheckMayReject, ~DeltaIsolation, ProtocolInv, [Next]_vars
  PROVE  ProtocolInv'
PROOF
  <1>1. TypeInv' /\ AnchorInv' /\ DispatchNeverWedged'
    BY NextTypeInv, NextAnchorInv, NextNeverWedged DEF ProtocolInv
  <1>2. FaultlessInv'
    <2> SUFFICES ASSUME faults' = 0 PROVE IsolationInv' /\ AnchorIsBaseline'
      BY DEF FaultlessInv
    <2>1. faults = 0 /\ faults' = faults
      BY FaultsGrow DEF ProtocolInv
    <2>2. Good /\ AnchorIsBaseline
      BY <2>1, ProtocolIsGood
    <2>3. IsolationInv'
      BY <2>1, <2>2, NextIsolated
    <2>4. Good'
      BY <1>1, <2>1, <2>3 DEF Good, DispatchNeverWedged
    <2>5. CASE phase' \in {"raising", "raised"}
      BY <2>1, <2>2, <2>3, <2>5, NextBaseline
    <2>6. CASE phase' = "teardown"
      <3>1. CASE Teardown
        BY <2>3, <3>1 DEF Teardown, AnchorIsBaseline
      <3>2. CASE phase = "teardown"
        <4>1. script = {}
          BY <3>2 DEF ProtocolInv, AnchorInv, ScriptEmpty
        <4>2. UNCHANGED vars
          BY <3>2, <4>1 DEF Next, DispatchWorker, DispatchQa, Pivot, GiveUp, Teardown, AbandonDispatch, Preparing,
             SnapshotWorkspace, EnterQa, WorkerSucceeds, WorkerFails, WrapperReturns, WorkerRaises, QaRaises, RunAborts
        <4> QED BY <2>2, <2>3, <4>2 DEF AnchorIsBaseline, vars
      <3>3. \A evals : QaEvaluates(evals) => phase' = "settle"
        BY DEF QaEvaluates
      <3>4. \A o \in script : RunRestore(o) \/ RunDiscard(o) => phase' = phase
        BY DEF RunRestore, RunDiscard
      <3>5. \A evals : DeltaInconclusive(evals) => phase' = "settle"
        BY DEF DeltaInconclusive
      <3>6. Teardown \/ phase = "teardown"
        BY <2>6, <3>3, <3>4, <3>5 DEF Next, vars, DispatchWorker, DispatchQa, Pivot, GiveUp, AbandonDispatch,
           SnapshotWorkspace, EnterQa, WorkerSucceeds, WorkerFails, WrapperReturns, WorkerRaises, QaRaises, RunAborts
      <3> QED BY <3>1, <3>2, <3>6
    <2>7. CASE ~Ended'
      <3>1. (Good /\ ~Ended => AnchorIsBaseline)'
        BY BasesBeforeEdits, PTL
      <3> QED BY <2>3, <2>4, <2>7, <3>1
    <2> QED BY <2>3, <2>5, <2>6, <2>7 DEF Ended
  <1> QED BY <1>1, <1>2 DEF ProtocolInv

\* What a faultless state is like: each property of run WTProtocol.
LEMMA FaultlessStates ==
  ASSUME ProtocolInv, faults = 0
  PROVE  CandidateIsolation /\ AcceptedKept /\ BaselinesAreKept /\ QaJudgesItsCandidate /\ AbortRestoresAccepted
PROOF
  <1> USE DEF IsolationInv, Good
  <1>1. Good /\ AnchorIsBaseline
    BY ProtocolIsGood
  <1>2. CandidateIsolation
    <2> SUFFICES ASSUME phase = "worker", NEW n \in live \ accepted PROVE n \in EditsOf(Targets)
      BY DEF CandidateIsolation
    <2>1. Open
      BY DEF Open
    <2>2. n \in archives[Current] \ accepted
      BY <1>1, <2>1 DEF BatchArchive
    <2>3. attempts[n] \cap Scope(Targets) # {}
      BY <1>1, <2>1, <2>2, BatchFacts DEF Covered
    <2>4. n \in 1 .. Current
      BY <1>1, EditsExist DEF Dispatches
    <2> QED BY <2>3, <2>4 DEF EditsOf
  <1>3. AcceptedKept
    BY <1>1 DEF AcceptedKept, AcceptedIsLive
  <1>4. UnacceptedIsCovered
    <2> SUFFICES ASSUME phase = "supervisor", NEW n \in live \ accepted
                 PROVE  \/ /\ n = Current /\ \A t \in Targets : status[t] = "fixed"
                           /\ n \in DOMAIN archives /\ n \notin archives[n]
                        \/ \E t \in DOMAIN anchors : /\ anchors[t] \in DOMAIN archives
                                                     /\ n \notin archives[anchors[t]]
      BY DEF UnacceptedIsCovered
    <2>1. ASSUME NEW t \in Anchored, t \in attempts[n]
          PROVE  anchors[t] \in DOMAIN archives /\ n \notin archives[anchors[t]]
      BY <1>1, <2>1, EditsExist DEF AnchorIsBaseline, Anchored, Ended
    <2>2. CASE ~Open
      <3>1. attempts[n] \cap Anchored # {}
        BY <1>1, <2>2 DEF LiveIsCovered, Covered, Unaccepted
      <3> QED BY <2>1, <3>1 DEF Anchored
    <2>3. CASE Open /\ n # Current
      <3>1. n \in archives[Current] \ accepted
        BY <1>1, <2>3 DEF BatchArchive
      <3>2. attempts[n] \cap Anchored # {}
        BY <1>1, <2>3, <3>1, BatchFacts DEF Covered
      <3> QED BY <2>1, <3>2 DEF Anchored
    <2>4. CASE Open /\ n = Current
      <3>1. Current \in DOMAIN archives /\ Current \in Nat
        BY <1>1, <2>4, BatchFacts, EditsExist
      <3>2. Current \notin archives[Current]
        BY <1>1, <3>1 DEF ArchivesPrecede
      <3> QED BY <2>4, <3>1, <3>2 DEF Open, TargetsAre
    <2> QED BY <2>2, <2>3, <2>4
  <1>5. QaJudgesItsCandidate
    <2> SUFFICES ASSUME phase = "prepare_qa" PROVE script = {}
      BY DEF QaJudgesItsCandidate
    <2>1. Open
      BY <1>1 DEF Open, TypeInv, Dispatched, AnchorInv, BatchStatus
    <2> QED BY <1>1, <2>1 DEF ScriptIsPlan, StaysPrepared, Preparing
  <1>6. AbortRestoresAccepted
    BY <1>1 DEF AbortRestoresAccepted, RaiseIsSafe
  <1> QED BY <1>1, <1>2, <1>3, <1>4, <1>5, <1>6 DEF BaselinesAreKept

LEMMA ProtocolInvariant == ASSUME ~RecheckMayReject, ~DeltaIsolation PROVE Spec => []ProtocolInv
  BY InitProtocol, NextProtocol, PTL DEF Spec

\* A worker finds the accepted edits and the unaccepted candidates of its own
\* tasks and their parents, nothing else.
THEOREM NoCandidateLeaks ==
  ASSUME ~RecheckMayReject, ~DeltaIsolation PROVE Spec => [](faults = 0 => CandidateIsolation)
  BY ProtocolInvariant, FaultlessStates, PTL

\* No rollback undoes an edit that QA accepted.
THEOREM AcceptedEditsStay ==
  ASSUME ~RecheckMayReject, ~DeltaIsolation PROVE Spec => [](faults = 0 => AcceptedKept)
  BY ProtocolInvariant, FaultlessStates, PTL

\* An anchor is its task's baseline, free of its edits, and between nodes every
\* unaccepted edit can be rolled back.
THEOREM BaselinesStay ==
  ASSUME ~RecheckMayReject, ~DeltaIsolation PROVE Spec => [](faults = 0 => BaselinesAreKept)
  BY ProtocolInvariant, FaultlessStates, PTL

\* QA judges the workspace its worker left: its wrapper has nothing to restore.
THEOREM QaJudgesTheWorkersWork ==
  ASSUME ~RecheckMayReject, ~DeltaIsolation PROVE Spec => [](faults = 0 => QaJudgesItsCandidate)
  BY ProtocolInvariant, FaultlessStates, PTL

\* A run that ends because a node raised leaves the accepted workspace.
THEOREM AbortsAreClean ==
  ASSUME ~RecheckMayReject, ~DeltaIsolation PROVE Spec => [](faults = 0 => AbortRestoresAccepted)
  BY ProtocolInvariant, FaultlessStates, PTL

\* How a baseline may leave the anchors: what AnchorIsResolved says of a step.
Resolved(id) ==
  \/ phase' = "teardown"
  \/ live' = archives[id]
  \/ accepted' = live
  \/ \E o \in script' : o.op # "discard" /\ o.id = id
  \/ \E other \in AnchorIds(Tasks)' : faults > 0 \/ archives[other] = archives[id]
  \/ DeltaIsolation /\ phase = "qa" /\ IsCluster(Targets)

\* A rejection that pops an anchor, because the task itself passed, restores the
\* whole batch from it; when nothing is rejected, the tasks that did not pass keep
\* a baseline equal to the one that is popped.
LEMMA QaResolves ==
  ASSUME TypeInv, AnchorInv, DeltaIsolation \/ ProtocolInv,
         NEW evals \in [Targets -> Verdicts], QaEvaluates(evals),
         NEW id \in AnchorIds(Tasks) \ AnchorIds(Tasks)'
  PROVE  Resolved(id)
PROOF
  <1>1. /\ phase = "qa" /\ script' = QaScript(evals) /\ anchors' = AnchorUpdates(evals, Retained(evals))
        /\ accepted' = (IF Passes(evals) THEN live ELSE accepted)
    BY DEF QaEvaluates
  <1>2. /\ Open /\ Targets \in Batches /\ Targets # {} /\ Targets \subseteq Tasks /\ ~Ended
    BY <1>1, QaStart DEF Open, Ended
  <1>3. PICK t \in Anchored : anchors[t] = id
    BY DEF AnchorIds, Anchored
  <1>4. SUFFICES ASSUME ~Passes(evals) PROVE Resolved(id)
    BY <1>1 DEF Resolved
  <1> DEFINE passed == {u \in Targets : evals[u] = "pass"}
  <1>5. /\ Anchored \ passed \subseteq Anchored'
        /\ \A u \in Anchored \ passed : anchors'[u] = anchors[u]
        /\ Retained(evals) => Targets \ passed \subseteq Anchored'
        /\ Retained(evals) => \A u \in Targets \ passed : u \notin Anchored => anchors'[u] = Current
    BY <1>1, <1>4 DEF AnchorUpdates, Anchored
  <1>6. \A u \in Anchored' : u \in Tasks => anchors'[u] \in AnchorIds(Tasks)'
    BY DEF AnchorIds, Anchored
  <1>7. t \in passed /\ t \in Targets /\ t \in Tasks
    BY <1>2, <1>3, <1>5, <1>6 DEF TypeInv, TypeOK, Anchored
  <1>8. PICK u \in Targets : evals[u] # "pass"
    BY <1>4 DEF Passes
  <1>9. IsCluster(Targets) /\ ~IsWorkaround(Targets) /\ Scope(Targets) = Targets /\ Targets \cap Workarounds = {}
    <2>1. t # u
      BY <1>7, <1>8
    <2> QED BY <1>2, <1>7, <2>1, BatchShape DEF IsCluster
  <1>10. CASE ~Retained(evals)
    <2>1. script' = RestoreFailedUpdate(Targets)
      BY <1>1, <1>9, <1>10 DEF QaScript
    <2>2. id \in AnchorIds(Targets)
      BY <1>3, <1>7 DEF AnchorIds, Anchored
    <2>3. [op |-> "restore", id |-> id, turn |-> 1] \in script'
      BY <1>9, <2>1, <2>2 DEF RestoreFailedUpdate, RestoreRetained, Apply
    <2> QED BY <2>3 DEF Resolved
  <1>11. CASE Retained(evals)
    <2>1. u \in Anchored' /\ u \in Tasks
      BY <1>2, <1>5, <1>8, <1>11
    <2>2. anchors'[u] \in AnchorIds(Tasks)'
      BY <1>6, <2>1
    <2>3. CASE faults # 0
      <3>1. faults > 0
        BY <1>2, <2>3, BoundAssumption DEF TypeInv, TypeOK
      <3> QED BY <2>2, <3>1 DEF Resolved
    <2>4. CASE DeltaIsolation
      BY <1>1, <1>9, <2>4 DEF Resolved
    <2>5. CASE ~DeltaIsolation /\ faults = 0
      <3>1. Good
        BY <2>5, ProtocolIsGood
      <3>2. archives[id] = accepted
        BY <1>2, <1>3, <1>7, <1>9, <3>1, AnchoredBase
      <3>3. archives[Current] = accepted
        BY <1>1, <1>2, <1>9, <3>1, BatchFacts DEF Good, IsolationInv, BatchArchive
      <3>4. u \in Anchored => archives[anchors[u]] = accepted
        BY <1>2, <1>8, <1>9, <3>1, AnchoredBase
      <3>5. archives[anchors'[u]] = accepted
        BY <1>5, <1>8, <1>11, <3>3, <3>4
      <3> QED BY <2>2, <3>2, <3>5 DEF Resolved
    <2> QED BY <2>3, <2>4, <2>5
  <1> QED BY <1>10, <1>11

LEMMA StepResolves ==
  ASSUME TypeInv, AnchorInv, DeltaIsolation \/ ProtocolInv, [Next]_vars,
         NEW id \in AnchorIds(Tasks) \ AnchorIds(Tasks)'
  PROVE  Resolved(id)
PROOF
  <1>1. anchors' # anchors
    BY DEF AnchorIds
  <1>2. CASE Teardown
    BY <1>2 DEF Teardown, Resolved
  <1>3. ASSUME NEW evals \in [Targets -> Verdicts], QaEvaluates(evals) PROVE Resolved(id)
    BY <1>3, QaResolves
  <1>4. ASSUME NEW o \in script, RunRestore(o) PROVE Resolved(id)
    <2>1. Restored(o) /\ o.op = "settle" /\ anchors' = Without(anchors, Owners(o.id))
      BY <1>1, <1>4 DEF RunRestore, Restored, RestoreFails, RemoveFails
    <2>2. PICK t \in Anchored : anchors[t] = id
      BY DEF AnchorIds, Anchored
    <2>3. t \in Tasks
      BY <2>2 DEF TypeInv, TypeOK, Anchored
    <2>4. id = o.id
      <3> SUFFICES ASSUME id # o.id PROVE FALSE
        OBVIOUS
      <3>1. t \in DOMAIN anchors' /\ anchors'[t] = id
        BY <2>1, <2>2 DEF Without, Owners, Anchored
      <3> QED BY <2>3, <3>1 DEF AnchorIds
    <2> QED BY <2>1, <2>4 DEF Restored, Resolved
  <1>5. \/ Teardown
        \/ \E evals \in [Targets -> Verdicts] : QaEvaluates(evals)
        \/ \E evals \in [Targets -> Verdicts] : DeltaInconclusive(evals)
        \/ \E o \in script : RunRestore(o)
    <2> QED
      BY <1>1 DEF Next, vars, DispatchWorker, DispatchQa, Pivot, GiveUp, RunDiscard, AbandonDispatch,
         SnapshotWorkspace, EnterQa, WorkerSucceeds, WorkerFails, WrapperReturns, WorkerRaises, QaRaises, RunAborts
  <1>6. ASSUME NEW evals \in [Targets -> Verdicts], DeltaInconclusive(evals) PROVE Resolved(id)
    BY <1>6 DEF DeltaInconclusive, Resolved
  <1> QED BY <1>2, <1>3, <1>4, <1>5, <1>6

\* The anchors lose a baseline only when it is restored, superseded by what QA accepted,
\* kept by another anchor, or at teardown, whatever archive operations fail, with the
\* exemption that AnchorIsResolved itself makes for clusters under delta isolation.
\* Assumed: a QA rerun rejects nothing (run WTDanglingAnchor shows what happens when it does).
THEOREM AnchorsAreResolved ==
  ASSUME ~RecheckMayReject PROVE Spec => AnchorIsResolved
PROOF
  <1> DEFINE Resolving == \A id \in AnchorIds(Tasks) \ AnchorIds(Tasks)' : Resolved(id)
  <1>1. TypeInv /\ AnchorInv /\ (DeltaIsolation \/ ProtocolInv) /\ [Next]_vars => [Resolving]_vars
    BY StepResolves
  <1>2. Spec => []TypeInv
    BY InitTypeInv, NextTypeInv, PTL DEF Spec
  <1>3. TypeInv /\ TypeInv' /\ AnchorInv /\ [Next]_vars => AnchorInv'
    BY NextAnchorInv
  <1>4. Spec => []AnchorInv
    BY <1>2, <1>3, InitAnchorInv, PTL DEF Spec
  <1>5. Spec => [](DeltaIsolation \/ ProtocolInv)
    <2>1. CASE DeltaIsolation
      BY <2>1, PTL
    <2>2. CASE ~DeltaIsolation
      <3>1. Spec => []ProtocolInv
        BY <2>2, ProtocolInvariant
      <3> QED BY <3>1, PTL
    <2> QED BY <2>1, <2>2
  <1>6. Spec => [][Resolving]_vars
    BY <1>1, <1>2, <1>4, <1>5, PTL DEF Spec
  <1> QED BY <1>6 DEF AnchorIsResolved, Resolved
=============================================================================
