-------------------------------- MODULE MCQa --------------------------------
(***************************************************************************)
(* QA for TLC: a pass of QA, the canaries that follow an unexplained        *)
(* failure, the checkpoints of accepted work, and the patch the run ends    *)
(* with.  A behaviour runs one of the machines; the others stay in an       *)
(* initial state.                                                          *)
(***************************************************************************)
EXTENDS QaCritic

CONSTANTS Machines,                                                    \* those to run
          Cluster, Clues, Budget, MaxFaults,                            \* of DeltaIsolation
          Updates, PrefixVersions, MaxAttempts, MaxPlans, MaxMisses, MaxReopens,  \* of QaPrefix
          Packages, Nested, Runs                                        \* of FinalPatch

VARIABLES machine,                                                     \* the machine that runs
          dpc, mode, round, devals, live, alive, archive, suspects, segment, subset, outcome,
          probes, restored, broken, record, spent, retained, judged, faults,
          phase, plan, standing, attempt, presults, prefix, shared, misses, reopened,
          shape, language, twice, tree, queue, open, results, tpc, todo, patch, errors, refused, lost

D == INSTANCE DeltaIsolation WITH pc <- dpc, evals <- devals
P == INSTANCE QaPrefix WITH Tasks <- Updates, Versions <- PrefixVersions, status <- standing,
                            results <- presults, live <- shared
T == INSTANCE FinalPatch WITH pc <- tpc, tasks <- queue

deltaVars == <<dpc, mode, round, devals, live, alive, archive, suspects, segment, subset, outcome,
               probes, restored, broken, record, spent, retained, judged, faults>>
prefixVars == <<phase, plan, standing, attempt, presults, prefix, shared, misses, reopened>>
patchVars == <<shape, language, twice, tree, queue, open, results, tpc, todo, patch, errors, refused, lost>>

ASSUME QaAssumption ==
    /\ D!DeltaAssumption /\ P!PrefixAssumption /\ T!PatchAssumption
    /\ Machines \subseteq {"pass", "canaries", "prefix", "patch"}

-----------------------------------------------------------------------------
(* A pass: two tasks that share one input, one of which has a second one;   *)
(* alone, or judged together.                                              *)

HomeOf == [t \in Tasks |-> IF t = "a" THEN {"l1"} ELSE {"l1", "l2"}]
Everywhere(x) == [t \in Tasks |-> x]
TwoLocks(x, y) == [l \in Locks |-> IF l = "l1" THEN x ELSE y]
\* Each worker edits the inputs of its own target.
World(manager, locks, entry, versioned, rooted, stray) ==
    [lock |-> locks, edits |-> HomeOf, entry |-> entry, manager |-> Everywhere(manager),
     versioned |-> versioned, rooted |-> rooted, stray |-> Everywhere(stray), inspect |-> TRUE]
Job(tasks, policy, world) == [active |-> tasks, policy |-> Everywhere(policy), world |-> world]

\* One npm update, whatever became of its inputs.
Alone == {Job({"a"}, "version_bump", World("npm", TwoLocks(x, y), Everywhere(e), Tasks, Tasks, "none")) :
            x \in LockStates, y \in {"same", "missing"}, e \in Entries}
         \cup {Job({"a"}, "version_bump", World("npm", TwoLocks("changed", "same"), Everywhere(e), v, {}, s)) :
                 e \in Entries, v \in {{}, Tasks}, s \in {"none", "unmapped"}}
\* One npm task under each of the other policies.
Policed == {Job({"b"}, p, World("npm", TwoLocks(x, y), Everywhere(e), {}, Tasks, "none")) :
              p \in Policies \ {"version_bump"}, x \in {"changed", "pruned"},
              y \in {"changed", "pruned", "invalid"}, e \in {"expected", "absent"}}
\* Two npm updates in one batch.
Together == {Job(Tasks, "version_bump",
                 World("npm", TwoLocks(x, y), [t \in Tasks |-> IF t = "a" THEN e ELSE "expected"], Tasks, Tasks, "none")) :
               x \in {"changed", "pruned"}, y \in {"same", "partial"}, e \in Entries}
\* An update of another package manager.
Other(m, entries) ==
    {Job({"a"}, "version_bump", World(m, TwoLocks(x, "same"), Everywhere(e), Tasks, r, s)) :
        e \in entries, x \in {"same", "missing"}, r \in {{}, Tasks}, s \in {"none", "mapped"}}

\* A Python package that is to be removed.
Removals ==
    {Job({"a"}, "package_removal", World("pip", TwoLocks("changed", "same"), Everywhere(e), v, Tasks, "none")) :
        e \in Entries, v \in {{}, Tasks}}
\* Two Python updates in one batch, of which one may not be found.
Distributions ==
    {Job(Tasks, "version_bump", World("pip", TwoLocks("changed", "same"), [t \in Tasks |-> IF t = "a" THEN e ELSE "expected"],
                                      Tasks, r, "none")) :
        e \in Entries, r \in {{"b"}, Tasks}}

MostJobs == Alone \cup Policed \cup Together \cup Removals \cup Distributions
                \cup Other("maven", Entries) \cup Other("pip", Entries) \cup Other("yarn", {"expected"})

Said(kind, verdict, blames, backed) ==
    [kind |-> kind, attr |-> [verdict |-> verdict, blames |-> blames], backed |-> backed]
Sayings ==
    {Said(k, "none", {}, k = "pass") : k \in Kinds \ {"outage"}} \cup {Said("pass", "none", {}, FALSE)}
        \cup {Said("breaking", v, {t}, FALSE) : v \in {"responsible", "exonerated"}, t \in Tasks}
        \cup {Said("pass", "exonerated", {t}, TRUE) : t \in Tasks}
        \cup {Said("breaking", "inconclusive", {}, FALSE)}

-----------------------------------------------------------------------------
(* The canaries: what is known of the three updates ranks them in any place.*)

MCClues == {[named |-> TRUE, change |-> "unknown"], [named |-> FALSE, change |-> "major"],
            [named |-> FALSE, change |-> "minor"]}

-----------------------------------------------------------------------------
(* The patch: two groups of a run with two packages, "a" bringing "b".       *)

MCNested == {<<"a", "b">>}
Names == {"a", "b"}
One == {s \in [kind : {"direct", "override", "replace", "source"}, target : Names, component : Names,
              manifest : {"root", "member"}] : s.kind = "direct" \/ s.target = s.component}
\* Groups differ in their package or its manifest.
MCShapes == {<<g, h>> : g \in One, h \in One}
MCPairs == {s \in MCShapes : /\ s[1].manifest = "root" \/ s[2].manifest = "member"
                            /\ <<s[1].component, s[1].manifest>> # <<s[2].component, s[2].manifest>>
                            /\ \A i \in 1..2 : s[i].kind = "replace" => s[3 - i].target # s[i].target}
Of(lang, s, t) == [language |-> lang, shape |-> s, twice |-> t]
\* Outside npm the packages are alike; a package declared twice concerns the member, whose
\* manifest is the requirements file.
MCRuns == {Of("npm", s, {}) : s \in MCPairs}
          \cup {Of(l, s, {}) : l \in {"python", "java"}, s \in {x \in MCPairs : x[1].component = "a"}}
          \cup {Of("python", s, {"a"}) : s \in {x \in MCPairs : "root" # x[2].manifest}}

-----------------------------------------------------------------------------

QaInit ==
    /\ machine \in Machines
    /\ (machine # "pass" => job = Job({"a"}, "version_bump",
            World("npm", TwoLocks("same", "same"), Everywhere("expected"), Tasks, Tasks, "none"))) /\ Init
    /\ (machine # "canaries" => mode = "bounded") /\ D!Init
    /\ (machine # "prefix" => plan = [id |-> 1, batches |-> <<Updates>>, base |-> P!Base, inherited |-> P!None])
    /\ P!Init
    /\ (machine # "patch" => LET r == CHOOSE x \in Runs : TRUE
                          IN  shape = r.shape /\ language = r.language /\ twice = r.twice) /\ T!Init

Passes == machine = "pass" /\ Next /\ UNCHANGED <<machine, deltaVars, prefixVars, patchVars>>
Isolates == machine = "canaries" /\ D!Next /\ UNCHANGED <<machine, vars, prefixVars, patchVars>>
Replans == machine = "prefix" /\ P!Next /\ UNCHANGED <<machine, vars, deltaVars, patchVars>>
Patches == machine = "patch" /\ T!Next /\ UNCHANGED <<machine, vars, deltaVars, prefixVars>>
QaNext == Passes \/ Isolates \/ Replans \/ Patches
QaSpec == QaInit /\ [][QaNext]_<<machine, vars, deltaVars, prefixVars, patchVars>>

-----------------------------------------------------------------------------

\* What the canaries say is true: a task is blamed only if its update alone failed the tests
\* and every update suspected more was tried before; a record that calls the candidate
\* restored leaves it in the volume; and they stay within their budget over all passes of QA
\* (run_delta_isolation_canaries and isolate_delta_failure).
CanariesAreSound == machine = "canaries" => D!BlameIsReproduced /\ D!RestoredIsTrue /\ D!WithinBudget
\* While every snapshot could be taken and no task was reopened twice, a replan leaves the
\* accepted changes in the shared workspace as they are (_last_qa_passed_prefix_provenance
\* and the restoration before a plan is certified).
AcceptedSurvivesReplan == P!AcceptedSurvivesReplan
\* The patch has every accepted change and none of a group that was not accepted, and its
\* lockfile belongs to its manifest, as far as its files could be read and the workspace be
\* restored (_run_teardown_node_impl, by file and, in shared files, by package name).
PatchIsFaithful == machine = "patch" => T!AcceptedStays /\ T!RejectedGone /\ T!LockMatchesManifest
=============================================================================
