-------------------------- MODULE WorkaroundWorker --------------------------
(***************************************************************************)
(* One attempt of the workaround worker: the bounded tool loop of          *)
(* subagent_runtime.py, the phases of context_manager.py, the tools that   *)
(* change the workspace (record_plan, deterministic_apply_edit_set,        *)
(* revert_workspace_file, remove_no_fix_dependency, validate_workaround)   *)
(* and the contract by which workaround_subagent.py calls the attempt a    *)
(* success.                                                                *)
(*                                                                         *)
(* A file is the set of patches applied to it on top of the host's text.   *)
(* Other is an edit of another vulnerability group that QA has already     *)
(* accepted, Prior one this task carries over from an earlier attempt,     *)
(* Removed the removal of the dependency from a manifest, and Edit(n) the  *)
(* edit set of plan revision n.  The model is what a language model may *)
(* call, in any order; a call that is refused changes nothing.             *)
(***************************************************************************)
EXTENDS Naturals, FiniteSets, TLC

CONSTANTS Files,          \* source files the task may plan to edit
          Manifest,       \* the manifest a removal rewrites (not in Files)
          MaxScope,       \* refused calls that end the loop
          MaxGates,       \* MAX_VALIDATION_GATE_ATTEMPTS
          MaxInputs,      \* MAX_VALIDATION_INPUT_ERRORS
          CallsPerTurn,   \* bound of the model: tool calls in one assistant turn
          MaxPlans,       \* bound of the model: plan revisions
          MaxFaults       \* bound of the model: timeouts and failed writes

ASSUME WorkerAssumption ==
  /\ Manifest \notin Files
  /\ {MaxScope, MaxGates, MaxInputs, CallsPerTurn, MaxPlans} \subseteq Nat \ {0}
  /\ MaxFaults \in Nat

Edit(rev) == <<"edit", rev>>
Other == <<"other", 0>>
Prior == <<"prior", 0>>
Removed == <<"removed", 0>>
NoEdit == [patch |-> <<"none", 0>>, files |-> {}]
Paths == Files \cup {Manifest}
Phases == {"INVESTIGATE", "PLAN", "EXECUTE", "VALIDATE"}

VARIABLES
  pc,        \* "replay", "turn", "settle", "done"
  ws,        \* the workspace: the patches in every file
  prior,     \* files of the edit sets to replay
  touched,   \* touched_files, shared by the tools
  alive,     \* the sandbox has a running container
  plan,      \* plan_state (execution_state of the loop)
  loop,      \* the loop's own counters and observations
  out,       \* "none", "success", "failure"
  faults,    \* timeouts and failed writes so far
  judged     \* history: the workspace the last passing gate saw
vars == <<pc, ws, prior, touched, alive, plan, loop, out, faults, judged>>

\* The plan a worker starts with, at the removal stage or another.
FirstPlan(removal) ==
  [stage |-> removal, phase |-> "INVESTIGATE", rev |-> 0, files |-> {}, removal |-> FALSE,
   read |-> {}, looked |-> FALSE, edited |-> FALSE, pending |-> NoEdit, current |-> NoEdit,
   before |-> <<>>, first |-> <<>>, validated |-> {}, result |-> "none", passed |-> FALSE,
   stuck |-> {}, sets |-> {}]

Init ==
  /\ prior \in SUBSET Files
  /\ \E there \in SUBSET prior :
       ws = [f \in Paths |-> {Other} \cup (IF f \in there THEN {Prior} ELSE {})]
  /\ touched = {} /\ alive = TRUE
  /\ \E removal \in BOOLEAN : plan = FirstPlan(removal)
  /\ loop = [calls |-> 0, phase |-> "INVESTIGATE", changed |-> {},
             gates |-> 0, inputs |-> 0, scope |-> 0, edits |-> FALSE, fresh |-> FALSE,
             terminal |-> FALSE, stop |-> "no"]
  /\ pc = "replay" /\ out = "none" /\ faults = 0 /\ judged = <<>>

-----------------------------------------------------------------------------
(* Before the loop: earlier edit sets are replayed on the live workspace.   *)

\* Each replacement is applied, or found already there.
Replay ==
  /\ pc = "replay"
  /\ ws' = [f \in Paths |-> ws[f] \cup (IF f \in prior THEN {Prior} ELSE {})]
  /\ touched' = prior
  /\ loop' = [loop EXCEPT !.changed = prior]
  /\ pc' = "turn"
  /\ UNCHANGED <<prior, alive, plan, out, faults, judged>>

\* An anchor is missing: the attempt surrenders before the loop.
ReplayMismatch ==
  /\ pc = "replay" /\ prior # {}
  /\ \E fs \in SUBSET prior :
       ws' = [f \in Paths |-> ws[f] \cup (IF f \in fs THEN {Prior} ELSE {})]
  /\ out' = "failure" /\ pc' = "done"
  /\ UNCHANGED <<prior, touched, alive, plan, loop, faults, judged>>

-----------------------------------------------------------------------------
(* The loop: a turn binds the tools of its phase and holds some calls.      *)

\* The model answers without a call.
Answer ==
  /\ pc = "turn" /\ loop.calls = 0
  /\ pc' = "settle"
  /\ UNCHANGED <<ws, prior, touched, alive, plan, loop, out, faults, judged>>

\* The rounds are used up, or the call to the model raises.
Exhausted ==
  /\ pc = "turn" /\ loop.calls = 0
  /\ loop' = [loop EXCEPT !.stop = "limit"]
  /\ pc' = "settle"
  /\ UNCHANGED <<ws, prior, touched, alive, plan, out, faults, judged>>

Calling(phases) == pc = "turn" /\ loop.calls < CallsPerTurn /\ loop.phase \in phases
\* What the loop records of a call; a blocker outranks the limits it enforces.
After(observed) ==
  /\ loop' = [observed EXCEPT !.calls = @ + 1]
Stopping(l, why) == [l EXCEPT !.stop = IF @ = "blocked" THEN @ ELSE why]
Limited(l, reached) == IF reached THEN Stopping(l, "limit") ELSE l
Kept == UNCHANGED <<pc, prior, out>>

Turns == Phases
\* read_workspace_file notes the file before it reads it.
Read ==
  /\ Calling(Turns)
  /\ \E f \in Files : plan' = [plan EXCEPT !.read = @ \cup {f}, !.looked = TRUE]
  /\ After(loop)
  /\ Kept /\ UNCHANGED <<ws, touched, alive, faults, judged>>

\* A call the plan or the scope refuses; the last one allowed ends the loop.
Refused ==
  /\ Calling(Turns)
  /\ After(Limited([loop EXCEPT !.scope = @ + 1], loop.scope + 1 >= MaxScope))
  /\ Kept /\ UNCHANGED <<ws, touched, alive, plan, faults, judged>>

\* record_plan: the phase is the one the calls before it have left.
RecordPlan ==
  /\ Calling({"INVESTIGATE", "PLAN"})
  /\ plan.stuck = {} /\ (plan.looked \/ plan.read # {})
  /\ plan.phase # "VALIDATE" /\ plan.pending = NoEdit /\ plan.rev < MaxPlans
  /\ \E fs \in SUBSET plan.read, removal \in BOOLEAN :
       /\ removal => plan.stage
       /\ fs # {} \/ removal
       /\ plan' = [plan EXCEPT !.rev = @ + 1, !.phase = "EXECUTE", !.edited = FALSE,
                               !.files = fs, !.removal = @ \/ removal, !.looked = TRUE]
  /\ After(loop)
  /\ Kept /\ UNCHANGED <<ws, touched, alive, faults, judged>>

-----------------------------------------------------------------------------
(* deterministic_apply_edit_set                                             *)

MayEdit ==
  /\ Calling({"EXECUTE"})
  /\ plan.stuck = {} /\ plan.rev > 0 /\ plan.phase = "EXECUTE" /\ ~plan.edited
  /\ plan.files # {} /\ alive

Applied == [f \in Paths |-> ws[f] \cup (IF f \in plan.files THEN {Edit(plan.rev)} ELSE {})]

\* The contents the attempt met first, kept for its rollback.
Remembered(fs) ==
  [f \in DOMAIN plan.first \cup fs |-> IF f \in DOMAIN plan.first THEN plan.first[f] ELSE ws[f]]

EditApplied ==
  /\ MayEdit
  /\ ws' = Applied
  /\ touched' = touched \cup plan.files
  /\ LET edit == [patch |-> Edit(plan.rev), files |-> plan.files] IN
       plan' = [plan EXCEPT !.first = Remembered(plan.files),
                            !.before = [f \in plan.files |-> ws[f]],
                            !.pending = edit, !.current = edit,
                            !.edited = TRUE, !.phase = "VALIDATE"]
  /\ After([loop EXCEPT !.changed = @ \cup plan.files, !.edits = TRUE, !.fresh = FALSE])
  /\ Kept /\ UNCHANGED <<alive, faults, judged>>

\* The new text does not parse: the files are put back and a plan is due.
EditUnparsable ==
  /\ MayEdit
  /\ plan' = [plan EXCEPT !.first = Remembered(plan.files), !.phase = "INVESTIGATE",
                          !.looked = FALSE, !.passed = FALSE]
  /\ After(loop)
  /\ Kept /\ UNCHANGED <<ws, touched, alive, faults, judged>>

\* A write fails, and so may the restoration of some files.
EditUnwritable ==
  /\ MayEdit /\ faults < MaxFaults
  /\ \E left \in SUBSET plan.files :
       /\ ws' = [f \in Paths |-> IF f \in left THEN Applied[f] ELSE ws[f]]
       /\ touched' = touched \cup left
       /\ plan' = [plan EXCEPT !.first = Remembered(plan.files), !.stuck = @ \cup left,
                               !.passed = @ /\ left = {}]
  /\ After(loop)
  /\ faults' = faults + 1
  /\ Kept /\ UNCHANGED <<alive, judged>>

\* revert_workspace_file writes the host's text, whatever the workspace held.
RevertFile ==
  /\ Calling({"EXECUTE"}) /\ alive
  /\ \E f \in Files :
       /\ ws' = [ws EXCEPT ![f] = {}]
       /\ touched' = touched \ {f}
       /\ After([loop EXCEPT !.changed = @ \ {f}, !.edits = TRUE, !.fresh = FALSE])
  /\ Kept /\ UNCHANGED <<alive, plan, faults, judged>>

\* remove_no_fix_dependency: the declaration goes and the lockfile follows.
Removal ==
  /\ Calling({"EXECUTE", "VALIDATE"}) /\ alive
  /\ plan.stuck = {} /\ plan.stage /\ plan.removal /\ Removed \notin ws[Manifest]
  /\ ws' = [ws EXCEPT ![Manifest] = @ \cup {Removed}]
  /\ touched' = touched \cup {Manifest}
  /\ plan' = [plan EXCEPT !.first = Remembered({Manifest}),
                          !.phase = IF plan.files = {} \/ plan.pending # NoEdit
                                    THEN "VALIDATE" ELSE "EXECUTE"]
  /\ After(loop)
  /\ Kept /\ UNCHANGED <<alive, faults, judged>>

\* The package manager refuses and the checkpoint is restored.
RemovalFails ==
  /\ Calling({"EXECUTE", "VALIDATE"}) /\ alive
  /\ plan.stuck = {} /\ plan.stage /\ plan.removal /\ Removed \notin ws[Manifest]
  /\ plan' = [plan EXCEPT !.first = Remembered({Manifest})]
  /\ After(loop)
  /\ Kept /\ UNCHANGED <<ws, touched, alive, faults, judged>>

-----------------------------------------------------------------------------
(* validate_workaround                                                      *)

Gone == Removed \in ws[Manifest]
\* Operations a removal plan still lacks make the request invalid.
Lacking == plan.stage /\ (~plan.removal \/ ~Gone \/ (plan.files # {} /\ plan.pending = NoEdit))
Listed(named) == named \cup touched
\* A failed gate counts; the last one allowed ends the loop.
Failed(l) == Limited([l EXCEPT !.gates = @ + 1], l.gates + 1 >= MaxGates)

\* Preflight refuses the request: no gate runs.
Invalid ==
  /\ Calling({"VALIDATE"}) /\ plan.stuck = {}
  /\ \E again \in BOOLEAN :
       /\ again => loop.inputs > 0
       /\ After(Limited([loop EXCEPT !.inputs = @ + 1],
                        again \/ loop.inputs + 1 >= MaxInputs))
  /\ Kept /\ UNCHANGED <<ws, touched, alive, plan, faults, judged>>

\* After a rollback that failed, every request fails.
Incomplete ==
  /\ Calling({"VALIDATE"}) /\ plan.stuck # {}
  /\ After(Failed(loop))
  /\ Kept /\ UNCHANGED <<ws, touched, alive, plan, faults, judged>>

Judging(named) ==
  /\ Calling({"VALIDATE"}) /\ plan.stuck = {} /\ alive /\ ~Lacking
  /\ named \subseteq Files /\ Listed(named) # {}

Pass ==
  \E named \in SUBSET Files :
    /\ Judging(named)
    /\ plan' = [plan EXCEPT !.validated = Listed(named), !.passed = TRUE, !.result = "PASS",
                            !.phase = "VALIDATE", !.pending = NoEdit, !.before = <<>>,
                            !.sets = @ \cup ({plan.pending} \ {NoEdit})]
    /\ judged' = ws
    /\ After([loop EXCEPT !.gates = @ + 1, !.fresh = TRUE, !.terminal = TRUE])
    /\ Kept /\ UNCHANGED <<ws, touched, alive, faults>>

\* What the current iteration wrote: the pending set, or the first edit of it.
Unjudged ==
  IF plan.pending # NoEdit THEN plan.before
  ELSE [f \in {g \in plan.current.files : plan.current.patch \in ws[g]}
          |-> ws[f] \ {plan.current.patch}]
Restored(w, old) == [f \in Paths |-> IF f \in DOMAIN old THEN old[f] ELSE w[f]]
\* Mutant: a verdict after a pass is not recorded.
Unrecorded(status) == plan
Judgement(status) == [plan EXCEPT !.validated = {}, !.result = status, !.passed = FALSE]

Reopened ==
  [Judgement("CODE_FAILURE") EXCEPT !.phase = "INVESTIGATE", !.looked = FALSE,
                                    !.edited = FALSE, !.pending = NoEdit, !.before = <<>>,
                                    !.current = NoEdit]

\* A gate fails on the code: the pending set is taken back.
CodeFailure ==
  \E named \in SUBSET Files :
    /\ Judging(named)
    /\ ws' = Restored(ws, Unjudged)
    /\ touched' = touched \ DOMAIN Unjudged
    /\ plan' = Reopened
    /\ After(Failed(loop))
    /\ Kept /\ UNCHANGED <<alive, faults, judged>>

\* As before, but some files cannot be restored; a gate that timed out has
\* killed the container, and then none can.
RevertFails ==
  \E named \in SUBSET Files, dead \in BOOLEAN, left \in SUBSET DOMAIN Unjudged :
    /\ Judging(named) /\ faults < MaxFaults
    /\ left # {} /\ (dead => left = DOMAIN Unjudged)
    /\ ws' = [f \in Paths |-> IF f \in left THEN ws[f] ELSE Restored(ws, Unjudged)[f]]
    /\ touched' = (touched \ DOMAIN Unjudged) \cup left
    /\ plan' = [Judgement("CODE_FAILURE") EXCEPT !.stuck = left]
    /\ After(Limited(Failed(loop), dead))
    /\ alive' = ~dead /\ faults' = faults + 1
    /\ Kept /\ UNCHANGED judged

\* The targeted test meets an infrastructure failure: the set stays pending.
InfraFailure ==
  \E named \in SUBSET Files, dead \in BOOLEAN :
    /\ Judging(named) /\ (dead => faults < MaxFaults)
    /\ plan' = Judgement("INFRA_FAILURE")
    /\ After(Failed(loop))
    /\ alive' = ~dead /\ faults' = faults + (IF dead THEN 1 ELSE 0)
    /\ Kept /\ UNCHANGED <<ws, touched, judged>>

\* A gate cannot run; the loop ends.
Blocked ==
  \E named \in SUBSET Files, dead \in BOOLEAN :
    /\ Judging(named) /\ (dead => faults < MaxFaults)
    /\ plan' = Judgement("BLOCKED")
    /\ After(Stopping([loop EXCEPT !.gates = @ + 1], "blocked"))
    /\ alive' = ~dead /\ faults' = faults + (IF dead THEN 1 ELSE 0)
    /\ Kept /\ UNCHANGED <<ws, touched, judged>>

-----------------------------------------------------------------------------
(* The end of a turn                                                        *)

Ended == pc = "turn" /\ loop.calls > 0

\* The next turn binds the tools of the phase this one has left.
NextTurn ==
  /\ Ended /\ ~loop.terminal /\ loop.stop = "no"
  /\ plan' = [plan EXCEPT !.phase = IF @ = "INVESTIGATE" /\ plan.looked THEN "PLAN" ELSE @]
  /\ loop' = [loop EXCEPT !.calls = 0, !.phase = plan'.phase]
  /\ UNCHANGED <<pc, ws, prior, touched, alive, out, faults, judged>>

\* A passing gate outranks every other reason to stop.
Terminal ==
  /\ Ended /\ loop.terminal
  /\ loop' = [loop EXCEPT !.stop = "no"]
  /\ pc' = "settle"
  /\ UNCHANGED <<ws, prior, touched, alive, plan, out, faults, judged>>

\* A blocker reverts, to the host's text, what was observed but is not touched.
StopBlocked ==
  /\ Ended /\ ~loop.terminal /\ loop.stop = "blocked"
  /\ ws' = [f \in Paths |-> IF alive /\ f \in loop.changed \ touched THEN {} ELSE ws[f]]
  /\ loop' = [loop EXCEPT !.changed = {}]
  /\ pc' = "settle"
  /\ UNCHANGED <<prior, touched, alive, plan, out, faults, judged>>

Stop ==
  /\ Ended /\ ~loop.terminal /\ loop.stop = "limit"
  /\ pc' = "settle"
  /\ UNCHANGED <<ws, prior, touched, alive, plan, loop, out, faults, judged>>

-----------------------------------------------------------------------------
(* After the loop: the success contract, and the rollback of a failure.     *)

Reported == IF loop.stop = "blocked" THEN {} ELSE loop.changed \cup touched
\* has_successful_validation_gate: a pass after the last edit of the trace.
GatePassed == loop.fresh /\ (loop.edits \/ prior # {} \/ Gone)

SameFiles ==
  LET missing == plan.validated \ Reported IN
    \/ plan.validated = Reported
    \/ Gone /\ missing # {} /\ missing \subseteq {Manifest}

Succeeded ==
  /\ plan.stuck = {} /\ plan.rev > 0 /\ loop.stop = "no" /\ Reported # {}
  /\ GatePassed /\ SameFiles /\ plan.result = "PASS" /\ plan.passed

Success ==
  /\ pc = "settle" /\ Succeeded
  /\ out' = "success" /\ pc' = "done"
  /\ loop' = [loop EXCEPT !.changed = Reported]
  /\ UNCHANGED <<ws, prior, touched, alive, plan, faults, judged>>

\* Files this attempt changed and did not replay go back to what it met first.
Own == (Reported \ prior) \cup plan.stuck
Failure ==
  /\ pc = "settle" /\ ~Succeeded
  /\ LET back == IF alive THEN Own \cap DOMAIN plan.first ELSE {} IN
       /\ ws' = [f \in Paths |-> IF f \in back THEN plan.first[f] ELSE ws[f]]
       /\ touched' = (touched \ back) \cup (Own \ back)
       /\ loop' = [loop EXCEPT !.changed = (prior \cap touched) \cup (Own \ back)]
  /\ out' = "failure" /\ pc' = "done"
  /\ UNCHANGED <<prior, alive, plan, faults, judged>>

Finished == pc = "done" /\ UNCHANGED vars

Next ==
  \/ Replay \/ ReplayMismatch \/ Answer \/ Exhausted
  \/ Read \/ Refused \/ RecordPlan
  \/ EditApplied \/ EditUnparsable \/ EditUnwritable \/ RevertFile \/ Removal \/ RemovalFails
  \/ Invalid \/ Incomplete \/ Pass \/ CodeFailure \/ RevertFails \/ InfraFailure \/ Blocked
  \/ NextTurn \/ Terminal \/ StopBlocked \/ Stop
  \/ Success \/ Failure \/ Finished

Spec == Init /\ [][Next]_vars

-----------------------------------------------------------------------------
(* Properties                                                               *)

\* A successful attempt hands over exactly the workspace its last passing gate
\* saw: no call of the same or a later turn, no stop and no rollback changed it.
HandsOverWhatPassed == out = "success" => judged = ws

\* Does not hold (run WorkerErasesAccepted): what QA accepted of other groups is still there after a successful attempt.
AcceptedSurvives == out = "success" => \A f \in Paths : Other \in ws[f]
=============================================================================
