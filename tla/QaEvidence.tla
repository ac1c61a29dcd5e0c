----------------------------- MODULE QaEvidence -----------------------------
(***************************************************************************)
(* Dependency evidence: what the collectors of orchestration/_qa_runtime.py *)
(* conclude about the version a worker was told to install, from the files  *)
(* they could read and the package manager's own view of what is installed. *)
(*                                                                          *)
(* A workspace w holds, for each manifest of the task, whether it declares  *)
(* the target and accepts the version, what the lockfile next to it pins    *)
(* and what is installed for it.  A view v says what could be read: manifests, *)
(* lockfiles, installed graphs, and whether the attempt proves a version.   *)
(***************************************************************************)
EXTENDS Naturals, FiniteSets

CONSTANT Files  \* the manifests of a task; each has a lockfile of its own

ASSUME FilesAssumption == IsFiniteSet(Files)

Versions == {"expected", "other"}
Accepts == {"yes", "no", "opaque"}
Workspaces == [declared : SUBSET Files, accepts : [Files -> Accepts],
               lock : [Files -> SUBSET Versions], installed : [Files -> SUBSET Versions]]
Views == [version : BOOLEAN, manifests : SUBSET Files, locks : SUBSET Files, graphs : SUBSET Files]

Over(f, S) == UNION {f[x] : x \in S}
Undeclared(w, v) == v.manifests \ w.declared # {}
AllInstalled(w) == Over(w.installed, Files)

----------------------------------------------------------------------------
(* The three ladders.  The first rule that applies decides. *)

\* npm: v.graphs are the manifests for which npm ls answered; none does after a failed install.
NpmEvidence(w, v) ==
    CASE Undeclared(w, v) -> "mismatch"
      [] /\ ~Undeclared(w, v) /\ v.version
         /\ \/ v.locks = Files /\ Files # {} /\ Over(w.lock, Files) # {"expected"}
            \/ v.manifests = Files /\ v.graphs = Files /\ Over(w.installed, Files) # {"expected"}
         -> "mismatch"
      [] OTHER ->
         IF v.version /\ Files # {} /\ v.manifests = Files /\ v.locks = Files /\ v.graphs = Files
         THEN "verified" ELSE "inconclusive"

\* Python: one environment; lockfiles count where the manifest is a Pipfile.
PythonEvidence(w, v, pipfiles) ==
    LET locks == IF pipfiles THEN Files ELSE {}
        read == v.manifests \cap w.declared
        known == v.graphs # {}
    IN  CASE \/ Undeclared(w, v)
             \/ v.version /\ \E f \in read : w.accepts[f] = "no"
             \/ v.version /\ known /\ AllInstalled(w) # {"expected"}
             \/ v.version /\ locks # {} /\ v.locks = Files /\ Over(w.lock, Files) # {"expected"}
             -> "mismatch"
          [] OTHER ->
             IF /\ v.version /\ Files # {} /\ v.manifests = Files /\ known
                /\ \A f \in read : w.accepts[f] # "opaque"
                /\ locks = {} \/ v.locks = Files
             THEN "verified" ELSE "inconclusive"

\* Maven: the tree is asked for every POM, the declaration only where the POM could be read.
MavenEvidence(w, v) ==
    IF v.manifests = {} \/ v.graphs # Files \/ ~v.version THEN "inconclusive"
    ELSE IF \/ Undeclared(w, v)
            \/ \E f \in v.manifests : w.accepts[f] = "no"
            \/ AllInstalled(w) # {"expected"}
    THEN "mismatch" ELSE "verified"

\* _collect_group_package_state for a version bump, by the package managers of the group.
Evidence(manager, w, v) ==
    CASE manager = "maven" -> MavenEvidence(w, v)
      [] manager = "npm" -> NpmEvidence(w, v)
      [] manager = "pip" -> PythonEvidence(w, v, FALSE)
      [] manager = "pipenv" -> PythonEvidence(w, v, TRUE)
      [] OTHER -> "inconclusive"

=============================================================================
