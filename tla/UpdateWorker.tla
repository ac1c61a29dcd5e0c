---------------------------- MODULE UpdateWorker ----------------------------
(***************************************************************************)
(* One dispatch of the update worker (update_subagent.py): the checks      *)
(* before anything runs, the manifest transactions of tools_manifest.py    *)
(* (npm), tools_manifest_python.py and tools_manifest_java.py, the bounded *)
(* tool loop around them, the rollback that ends the dispatch and the      *)
(* typed results it reports.                                               *)
(*                                                                         *)
(* Every task updates a package of its own; all of them are declared in    *)
(* one manifest, with one lockfile next to it unless the manager is Maven. *)
(* A choice is the version and the declaration kind of a call; a file is,  *)
(* for every package, the choices written to it since the dispatch began.  *)
(* A transaction is one step, as the loop runs one tool at a time; whether *)
(* its commands, its reads and its rollback work is the environment's.  A  *)
(* read that fails is taken for the absence of the file, so a rollback     *)
(* deletes what it could not read.  Calls outside the authorised set       *)
(* change nothing but the loop's own counter.                              *)
(***************************************************************************)
EXTENDS Naturals, Sequences, FiniteSets, SequencesExt

CONSTANTS Packages,      \* the packages of the dispatched tasks
          Versions,      \* the authorised versions
          MaxAttempts,   \* MAX_UPDATE_MANIFEST_ATTEMPTS
          MaxFaults,     \* bound of the model: rollbacks that fail
          MaxUnread      \* bound of the model: files that checkpoints fail to read

\* Assumed of the constants where the module is instantiated.
UpdateAssumption ==
  /\ IsFiniteSet(Packages) /\ Packages # {} /\ Versions # {}
  /\ MaxAttempts \in Nat \ {0} /\ MaxFaults \in Nat /\ MaxUnread \in Nat

Managers == {"npm", "pypi", "maven"}
\* The kind the task commits to, and another one the snapshot authorises.
Kinds == {"committed", "other"}
Targets == Versions \X Kinds
Checkpointed(manager) == IF manager = "maven" THEN {"manifest"} ELSE {"manifest", "lock"}
Untouched == [p \in Packages |-> {}]
\* A file that is gone, or that a read took to be.
Absent == [p \in Packages |-> {<<>>}]
Batch == "__multi_package_action__"

VARIABLES
  pc,        \* "preflight", "loop", "cleanup", "done"
  job,       \* what was dispatched
  ws,        \* the files of the workspace
  alive,     \* the sandbox has a running container
  touched,   \* touched_files
  store,     \* package_checkpoints, in the order they were added
  tried,     \* manifest_transaction_signatures_by_package
  ran,       \* manifest_attempts_by_package of the loop
  last,      \* package -> its last credited success, as a set
  seen,      \* observed_changed_files of the loop
  ran1,      \* the committed batch: "no", "failed", "applied"
  broken,    \* how the loop ended: "no", "errors" (runtime.errors), "raised"
  unrolled,  \* the final rollback reported errors
  unread,    \* history: the files some checkpoint failed to read
  report,    \* the result of the dispatch
  faults     \* rollbacks that failed
vars == <<pc, job, ws, alive, touched, store, tried, ran, last, seen, ran1,
          broken, unrolled, unread, report, faults>>

NoReport == [status |-> [p \in {} |-> ""], said |-> {}, changed |-> {}, errors |-> FALSE]
Surrender(ps, said) ==
  [status |-> [p \in ps |-> "SURRENDER"], said |-> said, changed |-> {}, errors |-> TRUE]

\* resolved: the tasks whose group, snapshot and manifests were found;
\* complaint: a resolution error, of a task left out or of a path.
Jobs == [manager : Managers, batch : BOOLEAN, resolved : SUBSET Packages,
         complaint : BOOLEAN, foreign : BOOLEAN, mixed : BOOLEAN,
         valid : BOOLEAN, model : BOOLEAN]

Init ==
  /\ job \in {j \in Jobs : /\ j.resolved # Packages => j.complaint
                           /\ (j.foreign \/ j.mixed) => Cardinality(j.resolved) > 1
                           /\ ~j.valid => j.batch}
  /\ pc = "preflight"
  /\ ws = [f \in Checkpointed(job.manager) |-> Untouched]
  /\ alive = TRUE /\ touched = {} /\ store = <<>>
  /\ tried = [p \in Packages |-> {}] /\ ran = [p \in Packages |-> 0]
  /\ last = [p \in Packages |-> {}] /\ seen = {} /\ ran1 = "no"
  /\ broken = "no" /\ unrolled = FALSE /\ unread = {} /\ report = NoReport /\ faults = 0

-----------------------------------------------------------------------------
(* Before execution.                                                        *)

Unrun == UNCHANGED <<job, ws, alive, touched, store, tried, ran, last, seen, ran1,
                     broken, unrolled, unread, faults>>
Reject(result) == pc = "preflight" /\ report' = result /\ pc' = "done" /\ Unrun

\* The order of the checks is the order of the disjuncts below.
Refusal ==
  CASE job.resolved = {} -> "unresolved"
    [] job.foreign -> "foreign"
    [] ~job.batch /\ job.mixed -> "mixed"
    [] job.batch /\ (~job.valid \/ job.resolved # Packages \/ Cardinality(Packages) < 2) -> "action"
    [] ~job.model -> "model"
    [] OTHER -> "none"

\* Typed results only for a dispatch of several tasks.
Unresolved ==
  /\ Refusal = "unresolved"
  /\ Reject(Surrender(IF Cardinality(Packages) > 1 THEN Packages ELSE {}, Packages))
MixesEcosystems == Refusal = "foreign" /\ Reject(Surrender({}, Packages))
MixesRetries == Refusal = "mixed" /\ Reject(Surrender(Packages, Packages))
\* The committed action does not bind, or not exactly the resolved tasks.
ActionRefused == Refusal = "action" /\ Reject(Surrender(Packages, Packages))
ModelMissing ==
  /\ Refusal = "model"
  /\ Reject(IF job.batch THEN Surrender(Packages, Packages) ELSE Surrender(job.resolved, job.resolved))
\* The sandbox does not start.
SandboxFails == Refusal = "none" /\ Reject(Surrender(job.resolved, job.resolved))

Start ==
  /\ pc = "preflight" /\ Refusal = "none"
  /\ pc' = "loop"
  /\ report' = report /\ Unrun

-----------------------------------------------------------------------------
(* Checkpoints.                                                             *)

\* A key has one checkpoint at most.
Held(key) == \E i \in DOMAIN store : store[i].key = key
Spot(key) == CHOOSE i \in DOMAIN store : store[i].key = key
Without(key) == IF Held(key) THEN RemoveAt(store, Spot(key)) ELSE store
\* The files as they are read when the reads of those in blind fail.
AsRead(w, blind) == [f \in DOMAIN w |-> IF f \in blind THEN Absent ELSE w[f]]
Capture(key, blind) == [key |-> key, files |-> AsRead(ws, blind), before |-> touched]
\* npm reuses the checkpoint a failed rollback left behind.
Checkpoint(key, blind) == IF Held(key) THEN store[Spot(key)] ELSE Capture(key, blind)
\* The reads of a capture that may fail.
Blind(key) == IF Held(key) THEN {{}}
              ELSE {b \in SUBSET DOMAIN ws : Cardinality(unread \cup b) <= MaxUnread}
\* Nothing to edit: pip and Maven edit the text of the checkpoint, npm the file.
Uneditable(cp) ==
  ws["manifest"] = Absent \/ (job.manager # "npm" /\ cp.files["manifest"] = Absent)
\* The reads that may fail, before (cp) and after, in a transaction that succeeds.
Tolerated(cp, after) ==
  /\ ~Uneditable(cp)
  /\ CASE job.manager = "npm" /\ ~job.batch -> TRUE
       [] job.manager = "npm" /\ job.batch ->
            "manifest" \notin after /\ ("lock" \in after => cp.files["lock"] = Absent)
       [] job.manager = "pypi" /\ ~job.batch -> "lock" \notin after
       [] OTHER -> after = {} /\ \A f \in DOMAIN ws : cp.files[f] # Absent

\* The checkpoint's text is written back, or the file removed that it took for
\* absent, but for the files in lost.
Restored(w, cp, lost) == [f \in DOMAIN w |-> IF f \in lost THEN w[f] ELSE cp.files[f]]
\* Mutant: the ledger forgets what it could not restore.
LedgerResets(t, cp, lost) == cp.before
\* A file that was not restored stays in the ledger; Maven resets the ledger.
Ledger(t, cp, lost) ==
  IF job.manager = "maven" /\ cp.key # Batch THEN cp.before
  ELSE (t \ (DOMAIN cp.files \ lost)) \cup cp.before \cup lost
\* What of a rollback may fail, and what that says of the container.
Losses == {{}} \cup IF faults < MaxFaults THEN SUBSET DOMAIN ws ELSE {}
Lost(lost) ==
  /\ faults' = faults + (IF lost = {} THEN 0 ELSE 1)
  /\ alive' = (alive /\ lost # DOMAIN ws)

\* A choice replaces the one of its kind.
Chosen(old, choice) == {c \in old : c[2] # choice[2]} \cup {choice}
Written(content, p, choice) == [content EXCEPT ![p] = Chosen(@, choice)]
Synced(w) == [f \in DOMAIN w |-> w["manifest"]]
\* A command that fails may have written the lockfile, or neither file.
Midway(edited) == {ws, [ws EXCEPT !["manifest"] = edited["manifest"]], edited}

-----------------------------------------------------------------------------
(* The loop without a committed action: one transaction per turn.           *)

Calling(p) == pc = "loop" /\ ~job.batch /\ p \in job.resolved /\ ran[p] < MaxAttempts
Counted(p) == ran' = [ran EXCEPT ![p] = @ + 1]
Signed(p, choice) == tried' = [tried EXCEPT ![p] = @ \cup {choice}]

\* Outside the authorised set, or the parameters of an earlier attempt.
Refused(p) ==
  /\ Calling(p) /\ Counted(p)
  /\ UNCHANGED <<pc, job, ws, alive, touched, store, tried, last, seen, ran1, broken,
                 unrolled, unread, report, faults>>

\* The event is credited to the task if the kind is the committed one.
Credited(p, choice) == IF choice[2] = "committed" THEN {choice} ELSE last[p]
\* After a success the checkpoint of the package is dropped.
Accepted(p) == Without(p)

\* What differs from the checkpoint when the reads of those in after fail.
Differing(cp, w, after) == {f \in DOMAIN w : AsRead(w, after)[f] # cp.files[f]}

\* Edit, synchronise, compare with the checkpoint, drop it.
Succeeds(p, choice) ==
  /\ Calling(p) /\ alive /\ choice \notin tried[p]
  /\ job.manager = "maven" => choice \notin ws["manifest"][p]
  /\ \E blind \in Blind(p), after \in SUBSET DOMAIN ws :
       LET cp == Checkpoint(p, blind)
       IN /\ Tolerated(cp, after)
          /\ ws' = Synced([ws EXCEPT !["manifest"] = Written(@, p, choice)])
          /\ touched' = touched \cup Differing(cp, ws', after)
                                \cup (IF job.manager = "npm" THEN {"manifest"} ELSE {})
          /\ unread' = unread \cup blind
  /\ store' = Accepted(p)
  /\ Counted(p) /\ Signed(p, choice)
  /\ last' = [last EXCEPT ![p] = Credited(p, choice)]
  /\ seen' = seen \cup {"manifest"}
  /\ UNCHANGED <<pc, job, alive, ran1, broken, unrolled, report, faults>>

\* The checkpoint a failed rollback leaves for the end of the dispatch.
Kept(p, cp, lost) == IF job.manager = "npm" /\ lost # {}
                     THEN IF Held(p) THEN store ELSE Append(store, cp)
                     ELSE Without(p)

\* The edit, the preflight or the synchronisation fails: roll back.
Fails(p, choice) ==
  /\ Calling(p) /\ alive /\ choice \notin tried[p]
  /\ \E blind \in Blind(p), lost \in Losses :
       LET cp == Checkpoint(p, blind)
           edited == Synced([ws EXCEPT !["manifest"] = Written(@, p, choice)])
       IN /\ \E w \in IF Uneditable(cp) THEN {ws} ELSE Midway(edited) : ws' = Restored(w, cp, lost)
          /\ touched' = Ledger(touched \cup {"manifest"}, cp, lost)
          /\ store' = Kept(p, cp, lost)
          /\ unread' = unread \cup blind
          /\ Lost(lost)
  /\ Counted(p) /\ Signed(p, choice)
  /\ UNCHANGED <<pc, job, last, seen, ran1, broken, unrolled, report>>

\* No container: nothing is read, edited or restored.
FailsDead(p, choice) ==
  /\ Calling(p) /\ ~alive /\ choice \notin tried[p]
  /\ LET cp == Checkpoint(p, DOMAIN ws)
     IN touched' = Ledger(touched, cp, DOMAIN ws) /\ store' = Kept(p, cp, DOMAIN ws)
  /\ Counted(p) /\ Signed(p, choice)
  /\ UNCHANGED <<pc, job, ws, alive, last, seen, ran1, broken, unrolled, unread, report, faults>>

-----------------------------------------------------------------------------
(* The loop with a committed action: it is executed once, as a whole.       *)

CallingBatch == pc = "loop" /\ job.batch /\ ran1 = "no"
AllWritten(ps, target) ==
  [p \in Packages |-> IF p \in ps THEN Chosen(ws["manifest"][p], target[p]) ELSE ws["manifest"][p]]
Committed == [Packages -> {c \in Targets : c[2] = "committed"}]
Unbatched == UNCHANGED <<pc, job, tried, ran, seen, broken, unrolled, report>>

\* The union checkpoint stays until the attempt is accepted.
BatchApplies ==
  /\ CallingBatch
  /\ \E target \in Committed, blind \in Blind(Batch), after \in SUBSET DOMAIN ws :
       LET cp == Capture(Batch, blind)
       IN /\ Tolerated(cp, after)
          /\ ws' = Synced([ws EXCEPT !["manifest"] = AllWritten(Packages, target)])
          /\ last' = [p \in Packages |-> {target[p]}]
          /\ touched' = touched \cup {"manifest"} \cup Differing(cp, ws', after)
          /\ store' = Append(store, cp)
          /\ unread' = unread \cup blind
  /\ ran1' = "applied"
  /\ UNCHANGED <<alive, faults>> /\ Unbatched

\* An edit, a synchronisation or a verification fails.
BatchFails ==
  /\ CallingBatch
  /\ \E target \in Committed, ps \in SUBSET Packages, blind \in Blind(Batch), lost \in Losses :
       LET cp == Capture(Batch, blind)
           edited == [ws EXCEPT !["manifest"] = AllWritten(ps, target)]
       IN /\ Uneditable(cp) => ps = {}
          /\ \E w \in {edited, Synced(edited)} : ws' = Restored(w, cp, lost)
          /\ touched' = Ledger(touched \cup {"manifest"}, cp, lost)
          /\ store' = IF lost = {} THEN store ELSE Append(store, cp)
          /\ unread' = unread \cup blind
          /\ Lost(lost)
  /\ ran1' = "failed"
  /\ UNCHANGED last /\ Unbatched

-----------------------------------------------------------------------------
(* The end of the dispatch.                                                 *)

\* When the loop raises, the container is removed before a batch is rolled back.
Closing(how) ==
  /\ pc = "loop"
  /\ broken' = how /\ pc' = "cleanup"
  /\ alive' = (alive /\ ~(job.batch /\ how = "raised"))
  /\ UNCHANGED <<job, ws, touched, store, tried, ran, last, seen, ran1,
                 unrolled, unread, report, faults>>
\* The model answers without a call.
Answer == Closing("no")
\* The rounds are used up, or the call to the model raises.
Exhausted == Closing("errors")
\* The loop itself raises, such as on a deferred call that has no id.
Raises == Closing("raised")

BatchSucceeded == ran1 = "applied" /\ ~job.complaint /\ broken = "no"
\* Mutant: a batch whose tool succeeded is accepted, whatever the loop says.
PendingTool == IF job.batch /\ ran1 = "applied" THEN <<>> ELSE store
\* What is rolled back at the end: an accepted batch is not.
Pending == IF job.batch /\ BatchSucceeded THEN <<>> ELSE store

\* rollback_pending_package_updates, one checkpoint.
Rollback ==
  /\ pc = "cleanup" /\ Pending # <<>>
  /\ \E lost \in IF alive THEN Losses ELSE {DOMAIN ws} :
       /\ ws' = Restored(ws, Head(store), lost)
       /\ touched' = (touched \ (DOMAIN ws \ lost)) \cup Head(store).before \cup lost
       /\ unrolled' = (unrolled \/ lost # {})
       /\ IF alive THEN Lost(lost) ELSE UNCHANGED <<alive, faults>>
  /\ store' = Tail(store)
  /\ UNCHANGED <<pc, job, tried, ran, last, seen, ran1, broken, unread, report>>

Finishing(result) ==
  /\ pc = "cleanup" /\ Pending = <<>>
  /\ report' = result /\ pc' = "done"
  /\ Unrun

\* A task succeeds with its batch, without errors, and with its own event.
Statuses(ps, succeeded, errors, done) ==
  [p \in ps |-> IF succeeded /\ ~errors /\ p \in done THEN "SUCCESS" ELSE "SURRENDER"]

ReportBatch ==
  /\ job.batch
  /\ LET ok == BatchSucceeded /\ ~unrolled
     IN Finishing([status |-> Statuses(Packages, ok, ~ok, Packages), said |-> Packages,
                   changed |-> IF ok THEN touched ELSE {}, errors |-> ~ok])

Done == {p \in job.resolved : last[p] # {}}
\* Without a touched file, what the loop saw, less the unvalidated manifests.
CommittedFiles ==
  IF touched # {} THEN touched
  ELSE seen \ (IF Done # job.resolved THEN {"manifest"} ELSE {})

\* After a loop that raised nothing is reported but the error.
ReportTasks ==
  /\ ~job.batch
  /\ LET errors == broken = "errors" \/ unrolled
     IN Finishing(IF broken = "raised" THEN Surrender(job.resolved, job.resolved)
                  ELSE [status |-> Statuses(Packages, Done = job.resolved, errors, Done),
                        said |-> job.resolved, changed |-> CommittedFiles,
                        errors |-> errors \/ job.complaint])

Stopped == pc = "done" /\ UNCHANGED vars

Preflight == Unresolved \/ MixesEcosystems \/ MixesRetries \/ ActionRefused
             \/ ModelMissing \/ SandboxFails \/ Start
Call == \E p \in Packages : \/ Refused(p)
                            \/ \E c \in Targets : Succeeds(p, c) \/ Fails(p, c) \/ FailsDead(p, c)
Close == Answer \/ Exhausted \/ Raises \/ Rollback \/ ReportBatch \/ ReportTasks
Next == Preflight \/ Call \/ BatchApplies \/ BatchFails \/ Close \/ Stopped
Spec == Init /\ [][Next]_vars

-----------------------------------------------------------------------------
(* The outer wrapper's view of the result (graph_wrappers.py).              *)

Succeeded(p) == p \in DOMAIN report.status /\ report.status[p] = "SUCCESS"
\* A direct batch with mixed outcomes keeps its successful transactions.
PartialSuccess ==
  /\ ~report.errors /\ ~job.batch /\ Cardinality(Packages) > 1
  /\ DOMAIN report.status = Packages
  /\ \E p \in Packages : Succeeded(p)
  /\ \E p \in Packages : ~Succeeded(p)

-----------------------------------------------------------------------------
(* Properties.                                                              *)

\* Every file that differs from the start is in the changed files the worker
\* reports, whatever commands and rollbacks failed and in whatever order: the
\* outer wrapper can only answer for what it knows.  Not so, by the code (README,
\* Known deviations): after a loop that raised, which reports no file at all; for
\* a file that a checkpoint failed to read and took for absent; and, once a
\* rollback has failed, for Maven and the committed actions.
LeftoversReported ==
  (pc = "done" /\ broken # "raised" /\ (faults = 0 \/ (~job.batch /\ job.manager # "maven"))) =>
    {f \in DOMAIN ws : ws[f] # Untouched} \ unread \subseteq report.changed

\* A committed action is applied for every package; or it is reported for none
\* and every file is as it was, or a failed rollback is among the reported errors,
\* also when the loop raised.  One exception is the code's (README, Known
\* deviations): a file the checkpoint failed to read, and took for absent, may
\* have been deleted by a rollback that reports no failure.
BatchIsAtomic ==
  (pc = "done" /\ job.batch) =>
    \/ \A p \in Packages : Succeeded(p) /\ ws["manifest"][p] = last[p]
    \/ /\ \A p \in Packages : ~Succeeded(p)
       /\ \/ \A f \in DOMAIN ws : ws[f] = Untouched \/ (f \in unread /\ ws[f] = Absent)
          \/ unrolled /\ report.errors

\* Does not hold (README, Known deviations): a direct batch keeps the packages
\* that succeeded when another one used up its attempts (graph_wrappers.py:1116).
PartialSuccessKept ==
  (pc = "done" /\ ~job.batch /\ ~report.errors /\ Done # {} /\ Done # job.resolved)
    => PartialSuccess
=============================================================================
