------------------------------- MODULE QaScan -------------------------------
(***************************************************************************)
(* What a targeted Dependency-Check run of QA has to cover, and what its    *)
(* report proves: the resolution of the tasks' targets, the package-lock    *)
(* changes, the staged inputs and the evidence of orchestration/            *)
(* _qa_runtime.py.  Functions of a workspace; QaCritic runs them.           *)
(*                                                                          *)
(* A lockfile is what can be made of it; its packages are those that matter *)
(* to a task, the target of each, and whether anything else changed.        *)
(***************************************************************************)
EXTENDS QaPolicy

CONSTANTS
    Locks,      \* the inputs: package-lock.json files, or POMs
    Home        \* the inputs that belong to each task's target

ASSUME ScanAssumption ==
    /\ Home \in [Tasks -> SUBSET Locks]
    /\ \A t \in Findings : Home[t] = {}

\* "partial": changed, with a closure that cannot be followed; "pruned": packages only went away;
\* "old": an unsupported version of the format.
LockStates == {"same", "changed", "partial", "pruned", "old", "missing", "invalid"}
Entries == {"expected", "other", "absent"}
Strays == {"none", "mapped", "unmapped"}
PackageManagers == {"npm", "maven", "pip", "yarn", "none"}

\* A workspace after an attempt: its inputs, which of them each worker reports (with those of a
\* pivoted parent), the package manager and the version of each target, which targets have a version
\* to be held to and an unambiguous place, and the other inputs a worker changed.
Worlds == [lock : [Locks -> LockStates], edits : [Tasks -> SUBSET Locks], entry : [Tasks -> Entries],
           manager : [Tasks -> PackageManagers], versioned : SUBSET Tasks, rooted : SUBSET Tasks, stray : [Tasks -> Strays], inspect : BOOLEAN]

Batch == [failed : SUBSET Tasks, skipped : SUBSET Tasks, covered : SUBSET Tasks, staged : SUBSET Tasks,
          inputs : BOOLEAN, updates : BOOLEAN, removals : BOOLEAN, removed : SUBSET Tasks]
NoBatch == [failed |-> {}, skipped |-> {}, covered |-> {}, staged |-> {},
            inputs |-> FALSE, updates |-> FALSE, removals |-> FALSE, removed |-> {}]

----------------------------------------------------------------------------
(* Inputs other than package-lock.json: _collect_non_npm_input_projects. *)

StrayFailed(w, active) == {t \in active : w.stray[t] = "unmapped"}
Projects(w, active) == {t \in active : w.stray[t] = "mapped"}

----------------------------------------------------------------------------
(* npm: what changed against the accepted inventory. *)

Unreadable == {"missing", "invalid"}
Editors(l, w, active) == {t \in active : l \in w.edits[t]}
Residents(l, active) == {t \in active : l \in Home[t]}
\* owners_for_path: those who changed it, else those it belongs to, else everyone.
Owners(l, w, active) ==
    IF Editors(l, w, active) # {} THEN Editors(l, w, active)
    ELSE IF Residents(l, active) # {} THEN Residents(l, active) ELSE active

\* A lockfile a worker removed, and that no target of the batch lives in.
Vanished(l, w, active) == w.lock[l] = "missing" /\ Editors(l, w, active) # {} /\ Residents(l, active) = {}
Broken(l, w, active) ==
    /\ w.lock[l] \in Unreadable \cup {"old", "partial"}
    /\ ~Vanished(l, w, active)
Rewritten == {"changed", "partial"}
ChangeFailed(w, active) == UNION {Owners(l, w, active) : l \in {k \in Locks : Broken(k, w, active)}}
ChangeClosures(w, active) == UNION {Owners(l, w, active) : l \in {k \in Locks : w.lock[k] \in Rewritten}}

----------------------------------------------------------------------------
(* npm: where the targets are. *)

TargetAt(t, l, w) ==
    CASE w.lock[l] \in Unreadable \cup {"old"} -> "unread"
      [] w.entry[t] = "absent" /\ w.lock[l] \notin Unreadable \cup {"old"} -> "gone"
      [] OTHER ->
         IF w.entry[t] = "other" /\ t \in w.versioned THEN "other"
         ELSE IF t \notin w.rooted THEN "ambiguous"
         ELSE IF w.lock[l] = "partial" THEN "incomplete" ELSE "found"

TargetFailed(t, w) == Home[t] = {} \/ \E l \in Home[t] : TargetAt(t, l, w) \notin {"gone", "found"}
IsGone(t, w) == Home[t] # {} /\ \A l \in Home[t] : TargetAt(t, l, w) = "gone"

ResolveNpm(w, active) ==
    LET bad == ChangeFailed(w, active) \cup StrayFailed(w, active)
        failed == bad \cup {t \in active : TargetFailed(t, w) \/ (IsGone(t, w) /\ t \in ChangeFailed(w, active))}
        gone == {t \in active : IsGone(t, w) /\ t \notin ChangeFailed(w, active)}
        found == {t \in active : ~TargetFailed(t, w) /\ ~IsGone(t, w)}
        closures == ChangeClosures(w, active) \cup found
    IN  [failed |-> failed,
         skipped |-> gone,
         covered |-> closures \cup gone \cup Projects(w, active),
         staged |-> closures \cup Projects(w, active),
         inputs |-> closures \cup Projects(w, active) # {},
         updates |-> \E l \in Locks : w.lock[l] \in Rewritten \cup {"old"},
         removals |-> \E l \in Locks : w.lock[l] = "pruned" \/ Vanished(l, w, active),
         removed |-> {t \in gone : \E l \in Home[t] : w.lock[l] = "pruned"}]

\* A package-removal batch in which packages only went away, the targets among them.
DeletionOnly(b, active) ==
    /\ b.removals /\ ~b.updates /\ ~b.inputs /\ b.failed = {} /\ b.removed = active

----------------------------------------------------------------------------
(* Maven and Python. *)

PomFailed(t, w) ==
    \/ Home[t] = {}
    \/ \E l \in Home[t] : w.lock[l] \in Unreadable \cup {"partial"}
    \/ t \in w.versioned /\ w.entry[t] # "expected"
ResolveMaven(w, active) ==
    LET failed == {t \in active : PomFailed(t, w)} \cup StrayFailed(w, active)
        staged == {t \in active : \E l \in Home[t] : w.lock[l] \notin Unreadable \cup {"partial"}}
                      \cup Projects(w, active)
    IN  [NoBatch EXCEPT !.failed = failed, !.covered = staged \ failed, !.staged = staged, !.inputs = staged # {}]

\* _python_targeted_closure_from_inspect: no distribution of the committed version is no match.
SkippedByPython(t, w) == w.entry[t] = "absent" \/ (t \in w.versioned /\ w.entry[t] = "other")
ResolvePython(w, active) ==
    LET gone == IF w.inspect THEN {t \in active : SkippedByPython(t, w)} ELSE {}
        failed == {t \in active \ gone : ~w.inspect \/ t \notin w.rooted} \cup StrayFailed(w, active)
        staged == (active \ (gone \cup {t \in active : ~w.inspect \/ t \notin w.rooted})) \cup Projects(w, active)
    IN  [NoBatch EXCEPT !.failed = failed, !.skipped = gone, !.covered = staged \cup gone,
                        !.staged = staged, !.inputs = staged # {}]

Managers(w, active) == {w.manager[t] : t \in active} \ {"none"}
\* _resolve_targeted_packages; the npm path has no batch for a manager it does not know.
IsUnknownManager(w, active) == "yarn" \in Managers(w, active) /\ Managers(w, active) \cap {"maven", "pip"} = {}
Resolve(w, active) ==
    CASE "maven" \in Managers(w, active) ->
             IF \A t \in active : w.manager[t] = "maven" THEN ResolveMaven(w, active)
             ELSE [NoBatch EXCEPT !.failed = active]
      [] Managers(w, active) \cap {"maven", "pip"} = {"pip"} -> ResolvePython(w, active)
      [] OTHER -> ResolveNpm(w, active)

----------------------------------------------------------------------------
(* The report, and the evidence each task takes from it. *)

\* What reading a report finds: it accounts for the staged closure, or one of the ways it does not.
Reports == {"faithful", "nopaths", "mismatch", "uncovered", "unmapped"}

EvidenceOf(b) == IF b.failed = {} THEN "complete" ELSE "incomplete"

\* What the report holds of a task's own target, and of no other closure of the batch.
OwnRemaining(t, b, w, performed, remaining) ==
    /\ performed /\ t \in remaining /\ t \in b.staged
    /\ t \notin b.skipped \/ w.manager[t] = "pip"
\* _scan_evidence_by_task: the completeness of the batch is copied to each of its tasks.
TaskEvidence(t, b, w, evidence, performed, remaining) ==
    [complete |-> evidence = "complete",
     covered |-> TRUE,
     skipped |-> /\ t \in b.skipped /\ evidence = "complete" /\ t \notin b.failed
                 /\ t \in b.covered,
     remaining |-> OwnRemaining(t, b, w, performed, remaining)]
=============================================================================
