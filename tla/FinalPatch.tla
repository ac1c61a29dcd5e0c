----------------------------- MODULE FinalPatch -----------------------------
(***************************************************************************)
(* The patch a run ends with (teardown_node.py): which changes of the       *)
(* workspace reach the unified diff after tasks were accepted, rejected,    *)
(* replaced by another task or left open.  The node decides by file, and    *)
(* in a file shared by groups of both outcomes by the name of the package   *)
(* (_revert_unfixable_packages_in_json, restore_python_package_changes).    *)
(*                                                                          *)
(* A document has two sections of declarations and, if it is a lockfile,    *)
(* physical entries and the hash of its manifest:                           *)
(*   file      npm                          Python                          *)
(*   root      dependencies, overrides      Pipfile packages, dev-packages  *)
(*   lock      root section, member section Pipfile.lock default, develop   *)
(*   member    dependencies, overrides      requirements.txt                *)
(* Versions are 0 (absent), 1 (the host's) and 2 (the fix).  A source file  *)
(* has a text only: the number of the task that wrote it last.  The volumes *)
(* are removed in RunLifecycle; paths are normalised and text is compared   *)
(* as in difflib, which is left out.                                        *)
(***************************************************************************)
EXTENDS Naturals, Sequences, FiniteSets, SequencesExt

CONSTANTS
    Packages,    \* names of packages
    Nested,      \* pairs <<p, q>>: the fixed p brings its own fixed q
    Runs         \* the runs: [shape, language, twice], see the variables

Kinds == {"direct", "override", "replace", "source"}
\* What a group is about: how its worker fixes it, the package it changes, the
\* vulnerable package, and the manifest of the finding.
Shape == [kind : Kinds, target : Packages, component : Packages, manifest : {"root", "member"}]
\* Assumed of the constants where the module is instantiated.
PatchAssumption ==
    /\ Nested \subseteq Packages \X Packages
    /\ \A r \in Runs : /\ r.shape \in Seq(Shape) /\ r.language \in {"npm", "python", "java"}
                       /\ r.twice \subseteq Packages

VARIABLES
    shape,      \* the groups of this run: a sequence of records, see Shape
    language,   \* project_language
    twice,      \* the packages that requirements.txt declares twice
    tree,       \* the workspace: a document for each file
    tasks,      \* task_queue: [group, parent, status, kind]
    open,       \* the attempt that is out: its task and the tree before it, or none
    results,    \* worker_results_by_attempt: [task, files]
    pc,         \* "run", "barrier", "read", or the status of the run
    todo,       \* files the node has still to compare
    patch,      \* the files in the diff with their text after it
    errors,     \* an error was recorded before
    refused,    \* the files the node recorded an error about
    lost        \* history: files whose text could not be read
vars == <<shape, language, twice, tree, tasks, open, results, pc, todo, patch, errors, refused, lost>>

Documents == {"root", "member", "lock", "source"}
Sections == {"main", "side"}
Keys == {<<p>> : p \in Packages} \cup Nested
Absent == [s \in Sections |-> [p \in Packages |-> 0]]
Declared == [Absent EXCEPT !["main"] = [p \in Packages |-> 1]]
Empty == [decl |-> Absent, at |-> [k \in Keys |-> 0], hash |-> Absent, text |-> 0]
Gone == [Empty EXCEPT !.text = 99]      \* a file that is not there

\* The repository: both manifests declare every package.
Host ==
    [f \in Documents |->
        CASE f = "source" -> Empty
          [] f \in {"root", "member"} -> [Empty EXCEPT !.decl = Declared]
          [] OTHER -> [Empty EXCEPT !.at = [k \in Keys |-> IF Len(k) = 1 THEN 1 ELSE 0],
                                    !.hash = Declared,
                                    !.decl = [s \in Sections |-> [p \in Packages |->
                                        IF language = "npm" \/ s = "main" THEN 1 ELSE 0]]]]

----------------------------------------------------------------------------
(* What workers do to the workspace: an installed dependency changes its     *)
(* manifest and the lockfile, as the package manager writes it.              *)

Set(doc, s, p, v) == [doc EXCEPT !.decl[s][p] = v]

\* The lockfile after p was installed for a manifest.
Locked(doc, manifest, p, v) ==
    LET section == IF language = "npm" /\ manifest = "member" THEN "side" ELSE "main"
    IN  [Set(doc, section, p, v) EXCEPT
            !.at = [k \in Keys |-> CASE k = <<p>> -> v
                                     [] Len(k) = 2 /\ k[1] = p -> IF v = 2 THEN 2 ELSE 0
                                     [] OTHER -> doc.at[k]]]
Hashed(t) == IF language = "python" THEN [t EXCEPT !["lock"].hash = t["root"].decl] ELSE t

\* A dependency gets a version in its manifest and the lockfile.
Install(t, manifest, section, p, v) ==
    LET declared == [t EXCEPT ![manifest] = Set(@, section, p, v)]
    IN  CASE language = "java" \/ (language = "python" /\ manifest = "member") -> declared
          [] language = "python" /\ manifest = "root" -> Hashed([declared EXCEPT !["lock"] = Set(@, section, p, v)])
          [] OTHER -> [declared EXCEPT !["lock"] = IF section = "main" THEN Locked(@, manifest, p, v)
                                                   ELSE [@ EXCEPT !.at[<<p>>] = v]]

\* The change a task makes: a new version, a forced version of a transitive package, a
\* substitute for the package, or an edit of the source.
Change(n, t) ==
    LET g == shape[tasks[n].group]
    IN  CASE tasks[n].kind = "direct" -> Install(t, g.manifest, "main", g.target, 2)
          [] tasks[n].kind = "override" -> Install(t, g.manifest, "side", g.component, 2)
          [] tasks[n].kind = "replace" -> Install(t, g.manifest, "main", g.target, 0)
          [] OTHER -> [t EXCEPT !["source"].text = n]

Open(n) ==
    /\ pc = "run" /\ open.task = 0 /\ tasks[n].status = "pending"
    /\ tree' = Change(n, tree)
    /\ open' = [task |-> n, before |-> tree]
    /\ results' = results \cup {[task |-> n, files |-> {f \in Documents : tree'[f] # tree[f]}]}
    /\ UNCHANGED <<shape, language, twice, tasks, pc, todo, patch, errors, refused, lost>>

Close(n, status, t) ==
    /\ pc = "run" /\ open.task = n
    /\ tasks' = [tasks EXCEPT ![n].status = status]
    /\ tree' = t
    /\ open' = [task |-> 0, before |-> Host]
    /\ UNCHANGED <<shape, language, twice, results, pc, todo, patch, refused, lost>>

\* QA accepts the change, rejects it and the workspace is restored, or it is rejected
\* and the restoration fails.
Accept(n) == Close(n, "accepted", tree) /\ UNCHANGED errors
Reject(n) == \E status \in {"unfixable", "pending"} :
                 Close(n, status, open.before) /\ UNCHANGED errors
Stranded(n) == Close(n, "inconclusive", tree) /\ errors' = TRUE

\* A workaround takes over from an update that cannot be made; an update that was given
\* up before keeps its status.
Pivot(n) ==
    /\ pc = "run" /\ open.task = 0 /\ tasks[n].status \in {"pending", "unfixable"} /\ tasks[n].kind = "direct"
    /\ Len(tasks) = Len(shape)
    /\ tasks' = Append([tasks EXCEPT ![n].status = IF @ = "pending" THEN "pivoted" ELSE @],
                       [group |-> tasks[n].group, parent |-> n, status |-> "pending", kind |-> "source"])
    /\ UNCHANGED <<shape, language, twice, tree, open, results, pc, todo, patch, errors, refused, lost>>

----------------------------------------------------------------------------
(* The outcome of a group. *)

\* task_group_lineage: the tasks of a group in a queue and what took over from them.
Lineage(queue, g) ==
    LET roots == {n \in DOMAIN queue : queue[n].group = g}
    IN  FoldLeftDomain(LAMBDA line, n : IF queue[n].parent \in line THEN line \cup {n} ELSE line, roots, queue)

\* effective_group_status: the worst of the tasks that were not replaced.
GroupStatus(queue, g) ==
    LET active == {queue[n].status : n \in Lineage(queue, g)} \ {"pivoted"}
        order == <<"unfixable", "inconclusive", "pending", "accepted">>
    IN  IF active = {} THEN "pivoted"
        ELSE order[CHOOSE i \in DOMAIN order : order[i] \in active /\ \A j \in 1..(i - 1) : order[j] \notin active]

Passed == {g \in DOMAIN shape : GroupStatus(tasks, g) = "accepted"}
Failed == DOMAIN shape \ Passed

\* The files of the groups and of the attempts of their tasks.
FilesOf(groups) ==
    {shape[g].manifest : g \in groups} \cup UNION {r.files : r \in {x \in results : tasks[x.task].group \in groups}}

\* files_to_exclude: files that only failed groups have.
Excluded == FilesOf(Failed) \ FilesOf(Passed)

\* unfixable_packages: what the failed groups are about.
Unfixable == UNION {{shape[g].target, shape[g].component} : g \in Failed}

----------------------------------------------------------------------------
(* Taking failed packages out of a document. *)

\* A declaration goes back to the host's, if the workspace still has one.
KeptDecl(before, after) ==
    [s \in Sections |-> [p \in Packages |->
        IF p \in Unfixable /\ after.decl[s][p] # 0 THEN before.decl[s][p] ELSE after.decl[s][p]]]

\* Mutant: the root section of the lockfile stays as it is.
LockEntriesOnly(before, after) ==
    [after EXCEPT !.at = [k \in Keys |-> IF \E i \in DOMAIN k : k[i] \in Unfixable THEN before.at[k] ELSE after.at[k]]]

\* _restore_npm_lockfile_packages and _restore_npm_lockfile_dependencies: the entries
\* with the name of a failed package and what is nested in them; the root section, but
\* not the section of a workspace member.
LockReverted(before, after) ==
    [after EXCEPT
        !.at = [k \in Keys |-> IF \E i \in DOMAIN k : k[i] \in Unfixable THEN before.at[k] ELSE after.at[k]],
        !.decl["main"] = [p \in Packages |->
            IF p \in Unfixable THEN before.decl["main"][p] ELSE after.decl["main"][p]]]

\* _revert_unfixable_packages_in_json
JsonReverted(f, before, after) ==
    IF f = "lock" THEN LockReverted(before, after) ELSE [after EXCEPT !.decl = KeptDecl(before, after)]

\* _restore_pipfile_declarations, _restore_pipfile_lock_entries: both sections, and
\* the lockfile's hash is that of the restored Pipfile.
SectionsReverted(before, after) ==
    [after EXCEPT !.decl = [s \in Sections |-> [p \in Packages |->
        IF p \in Unfixable THEN before.decl[s][p] ELSE after.decl[s][p]]]]
PipfileLockReverted(before, after) ==
    [SectionsReverted(before, after) EXCEPT !.hash = SectionsReverted(Host["root"], tree["root"]).decl]

\* _restore_python_line_declarations refuses a package that is declared twice.
Ambiguous(f) == language = "python" /\ f = "member" /\ Unfixable \cap twice # {}
                /\ tree["member"] # Host["member"]

\* restore_python_package_changes: what cannot be restored stays as on the host.
PythonReverted(f, before, after) ==
    CASE before = after -> after
      [] before # after /\ f = "lock" -> PipfileLockReverted(before, after)
      [] OTHER -> IF Ambiguous(f) THEN before ELSE SectionsReverted(before, after)

\* The text a file has after the patch.  Only JSON and Python files are edited.
Reverted(f, after) ==
    CASE Unfixable = {} \/ after = Gone \/ f = "source" \/ language = "java" -> after
      [] OTHER -> IF language = "npm" THEN JsonReverted(f, Host[f], after) ELSE PythonReverted(f, Host[f], after)

----------------------------------------------------------------------------
(* _run_teardown_node_impl *)

\* The files that anything reported as changed.
Candidates == UNION {r.files : r \in results}

\* reconcile_phase5_state_before_teardown: a task that another took over from counts as
\* pivoted.
Barrier ==
    /\ pc = "run" /\ open.task = 0 /\ pc' = "barrier"
    /\ tasks' = [n \in DOMAIN tasks |-> IF \E m \in DOMAIN tasks : tasks[m].parent = n
                                        THEN [tasks[n] EXCEPT !.status = "pivoted"] ELSE tasks[n]]
    /\ UNCHANGED <<shape, language, twice, tree, open, results, todo, patch, errors, refused, lost>>

\* The node opens a container or cannot.
Begin ==
    /\ pc = "barrier" /\ pc' = "read"
    /\ \/ todo' = Candidates \ Excluded /\ UNCHANGED refused
       \/ Candidates # {} /\ todo' = {} /\ refused' = Candidates
    /\ UNCHANGED <<shape, language, twice, tree, tasks, open, results, patch, errors, lost>>

\* One file after the other; each is compared on its own, so any order will do.
Order == <<"root", "member", "lock", "source">>
IsNext(f) == pc = "read" /\ todo # {} /\ f = SelectSeq(Order, LAMBDA g : g \in todo)[1]

Compared(f, after) ==
    /\ IsNext(f) /\ todo' = todo \ {f}
    /\ LET final == Reverted(f, after)
       IN  patch' = IF final = Host[f] THEN patch ELSE [g \in DOMAIN patch \cup {f} |-> IF g = f THEN final ELSE patch[g]]
    /\ UNCHANGED <<shape, language, twice, tree, tasks, open, results, pc, errors>>

\* A file is read and compared with the host's.
Read(f) ==
    /\ Compared(f, tree[f]) /\ UNCHANGED lost
    /\ refused' = IF Ambiguous(f) THEN refused \cup {f} ELSE refused

\* The container does not give the file: read_file returns nothing, as for a file
\* that was deleted.
Unread(f) == Compared(f, Gone) /\ lost' = lost \cup {f} /\ UNCHANGED refused

\* The path check fails for one file, or an exception ends the comparison.
Blocked(f) ==
    /\ IsNext(f)
    /\ \E all \in BOOLEAN : LET stopped == IF all THEN todo ELSE {f}
                           IN  todo' = todo \ stopped /\ refused' = refused \cup stopped
    /\ UNCHANGED <<shape, language, twice, tree, tasks, open, results, pc, patch, errors, lost>>

\* terminal_outcome_issues: tasks that did not end well.
Issues == \E n \in DOMAIN tasks :
    \/ tasks[n].status \in {"unfixable", "inconclusive", "pending"}
    \/ tasks[n].status = "pivoted" /\ \A m \in DOMAIN tasks : tasks[m].parent # n

Finish ==
    /\ pc = "read" /\ todo = {}
    /\ pc' = IF errors \/ refused # {} \/ Issues THEN "completed_with_errors" ELSE "completed"
    /\ UNCHANGED <<shape, language, twice, tree, tasks, open, results, todo, patch, errors, refused, lost>>

Init ==
    /\ \E r \in Runs : shape = r.shape /\ language = r.language /\ twice = r.twice
    /\ tree = Host
    /\ tasks = [g \in DOMAIN shape |-> [group |-> g, parent |-> 0, status |-> "pending", kind |-> shape[g].kind]]
    /\ open = [task |-> 0, before |-> Host] /\ results = {} /\ pc = "run" /\ todo = {}
    /\ patch = <<>> /\ errors = FALSE /\ refused = {} /\ lost = {}

Work == \E n \in DOMAIN tasks : Open(n) \/ Accept(n) \/ Reject(n) \/ Stranded(n) \/ Pivot(n)
Teardown == Barrier \/ Begin \/ Finish \/ \E f \in todo : Read(f) \/ Unread(f) \/ Blocked(f)
Next == Work \/ Teardown
Spec == Init /\ [][Next]_vars

----------------------------------------------------------------------------
(* What the patch promises. *)

\* The repository with the patch applied, and the files that are what they should be
\* unless the node said otherwise.
Result(f) == IF f \in DOMAIN patch THEN patch[f] ELSE Host[f]
Ended == pc \in {"completed", "completed_with_errors"}
Sound(f) == Ended /\ f \notin refused \cup lost

\* The declaration a version update is about.
Section(kind) == IF kind = "direct" THEN "main" ELSE "side"
Subject(g, kind) == IF kind = "direct" THEN g.target ELSE g.component
Update(n) == tasks[n].kind \in {"direct", "override"}
Outcome(n) == LET g == shape[tasks[n].group]
              IN  Result(g.manifest).decl[Section(tasks[n].kind)][Subject(g, tasks[n].kind)]

\* An accepted declaration is in the patch, whatever happened to the other groups of
\* its files, unless a failed group is about a package of the same name.
AcceptedStays ==
    \A n \in DOMAIN tasks :
        LET g == shape[tasks[n].group]
        IN  Sound(g.manifest) /\ Update(n) /\ tasks[n].status = "accepted"
              /\ Subject(g, tasks[n].kind) \notin Unfixable => Outcome(n) = 2

\* A version that was rejected is not in the patch, even if the workspace could not be
\* restored and the file also holds accepted changes (npm and Python).
RejectedGone ==
    language # "java" =>
        \A n \in DOMAIN tasks :
            LET g == shape[tasks[n].group]
            IN  Sound(g.manifest) /\ Update(n) /\ GroupStatus(tasks, tasks[n].group) # "accepted" => Outcome(n) # 2

\* The lockfile of the patch belongs to its manifest: the root section of
\* package-lock.json lists what package.json does, and the hash of Pipfile.lock is that
\* of the Pipfile.  A package that a substitution removed is set aside: the manifest
\* does not get it back, the lockfile does.
LockMatchesManifest ==
    Sound("root") /\ Sound("lock") =>
        IF language = "python" THEN Result("lock").hash = Result("root").decl
        ELSE language = "npm" =>
            \A p \in Packages \ {g.target : g \in {h \in ToSet(shape) : h.kind = "replace"}} :
                Result("lock").decl["main"][p] = Result("root").decl["main"][p]

\* Does not hold (README, Known deviations): a completed run delivers what the workspace holds ("restores or removes only
\* task-scoped workspace changes", docs/architecture.md:347).
CompletedDelivers == pc = "completed" => \A f \in Documents : Result(f) = tree[f]
=============================================================================
