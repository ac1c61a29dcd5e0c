------------------------- MODULE PortfolioCertifier -------------------------
(***************************************************************************)
(* The certification of a portfolio: orchestration/portfolio_certifier.py   *)
(* asks the solver for the best assignment, installs it batch by batch with *)
(* the real package manager in a scratch copy of the workspace, learns from *)
(* what the package manager refuses, and asks again.  npm learns cuts of    *)
(* one or two versions, Maven whole assignments, Python nothing: it tries   *)
(* the candidates of a single answer.                                       *)
(*                                                                          *)
(* The package manager is external: job.world says what it accepts.  What   *)
(* is hard is that it judges the batches one after the other, each on top   *)
(* of the versions the earlier ones left, while the solver reasons about    *)
(* the whole assignment; that everything the certifier learns excludes more *)
(* than it has seen; and that the repository, the deadline and the sandbox  *)
(* may each give way in between.                                            *)
(***************************************************************************)
EXTENDS PortfolioProblem, Sequences

CONSTANTS
    Jobs,       \* what is to be certified: kind, problem, batches in phase order, world, volume
    TopK,       \* solver_top_k
    Faults,     \* what may fail: "sandbox", "cleanup", "deadline", "edit"
    MaxFaults   \* how often

ASSUME CertifierAssumption ==
    /\ TopK \in Nat \ {0} /\ MaxFaults \in Nat
    /\ Faults \subseteq {"sandbox", "cleanup", "deadline", "edit"}
    /\ \A j \in Jobs : /\ j.kind \in {"npm", "maven", "python"} /\ IsProblem(j.problem)
                       /\ j.batches \in Seq([occs : SUBSET Occs, go : BOOLEAN]) /\ Len(j.batches) > 0

VARIABLES
    pc,         \* the step that runs next
    job,        \* what is certified
    space,      \* every assignment the constraints admit: [plan, score, better: the plans worth
                \* more, sound: the package manager would accept it (of the world, for the properties)]
    host,       \* the repository on the host: "same", or "edited" since the certifier read it
    volume,     \* the shared workspace: "host", "prefix" (a QA-passed one) or "other"
    late,       \* the deadline has passed
    faults,     \* failures so far
    forbidden,  \* rejected_assignments
    cuts,       \* generalized_conflicts: sets of literals <<occurrence, version>>
    tried,      \* the assignments the package manager has been given (a history)
    offered,    \* candidates of the solver's last answer that are still to be tried
    cand,       \* the assignment under certification, a set of at most one
    step,       \* the batch it has come to
    applied,    \* applied_occurrence_ids
    result,     \* of the candidate: "none", "CERTIFIED", "EXACT", "CUT", "BUILD" or "UNKNOWN"
    learned,    \* the cut of a candidate
    scratch,    \* the candidate's scratch tree is in the workspace
    archive,    \* so is the archive
    outcome     \* the status of the certificate, "none" until it is made

vars == <<pc, job, space, host, volume, late, faults, forbidden, cuts, tried, offered, cand, step, applied,
          result, learned, scratch, archive, outcome>>
task == <<job, space>>
search == <<forbidden, cuts, tried, offered>>
attempt == <<cand, step, applied, result, learned>>
world == <<host, volume, late>>

p == job.problem
a == CHOOSE x \in cand : TRUE
May(fault) == fault \in Faults /\ faults < MaxFaults
Return(status) == outcome' = status /\ pc' = "clean"

----------------------------------------------------------------------------
(* The rest of the world. *)

Deadline ==
    /\ pc # "done" /\ May("deadline") /\ ~late
    /\ late' = TRUE /\ faults' = faults + 1
    /\ UNCHANGED <<pc, task, host, volume, search, attempt, scratch, archive, outcome>>
EditHost ==
    /\ pc # "done" /\ May("edit") /\ host = "same"
    /\ host' = "edited" /\ faults' = faults + 1
    /\ UNCHANGED <<pc, task, volume, late, search, attempt, scratch, archive, outcome>>

----------------------------------------------------------------------------
(* Preparation, inside the artifact scope. *)

NoVolume ==
    /\ pc = "start" /\ job.volume = "none"
    /\ outcome' = "UNKNOWN" /\ pc' = "done"
    /\ UNCHANGED <<task, world, faults, search, attempt, scratch, archive>>
\* A replan starts from the snapshot of its last QA-passed prefix, when the provenance of that is known.
Restore ==
    /\ pc = "start" /\ job.volume # "none"
    /\ volume' = IF job.replan # "none" /\ job.prefix /\ job.kind # "python" THEN job.replan ELSE volume
    /\ pc' = "prepare"
    /\ UNCHANGED <<task, host, late, faults, search, attempt, scratch, archive, outcome>>
\* The volume is the host's, or the verified prefix of this plan, which Maven insists on when there is one.
Matches ==
    CASE job.kind = "npm" -> volume = "host" \/ (volume = "prefix" /\ job.prefix)
      [] job.kind = "maven" -> volume = IF job.prefix THEN "prefix" ELSE "host"
      [] job.kind = "python" -> volume = "host"
Prepare ==
    /\ pc = "prepare"
    /\ IF Matches /\ job.complete /\ ~late
       THEN pc' = "solve" /\ archive' = TRUE /\ UNCHANGED outcome
       ELSE Return("UNKNOWN") /\ UNCHANGED archive
    /\ UNCHANGED <<task, world, faults, search, attempt, scratch>>
\* Any command of the certifier itself may fail; everything it had learned is reported as unknown.
Broken ==
    /\ pc \in {"prepare", "solve"} /\ May("sandbox")
    /\ Return("UNKNOWN") /\ faults' = faults + 1
    /\ UNCHANGED <<task, world, search, attempt, scratch, archive>>

----------------------------------------------------------------------------
(* The solver. *)

Open == {x \in space : ~Excluded(x.plan, forbidden, cuts)}
\* The best of what is open; a solver that runs out of time may answer with something worse.
Answers == {x.plan : x \in IF job.slow THEN Open ELSE Best(Open)}
StillOpen == \E x \in space : ~Excluded(x.plan, forbidden', cuts)
\* Without anything the package manager rejected, an empty answer is unknown.
Settled(status) == IF forbidden \cap tried = {} /\ cuts = {} THEN "UNKNOWN" ELSE status

Expire ==
    /\ pc = "solve" /\ late
    /\ Return("UNKNOWN")
    /\ UNCHANGED <<task, world, faults, search, attempt, scratch, archive>>
Exhausted ==
    /\ pc = "solve" /\ ~late /\ Open = {}
    /\ Return(IF job.kind = "python" THEN "UNKNOWN" ELSE Settled("REJECTED"))
    /\ UNCHANGED <<task, world, faults, search, attempt, scratch, archive>>
\* No answer in time: npm and Python call it unknown; Maven reports what it has rejected so far.
Unanswered ==
    /\ pc = "solve" /\ ~late /\ job.slow
    /\ Return(IF job.kind = "maven" THEN Settled("REJECTED") ELSE "UNKNOWN")
    /\ UNCHANGED <<task, world, faults, search, attempt, scratch, archive>>

\* Maven takes one candidate of an answer, the others up to TopK; within an answer every candidate is new.
Offer == IF job.kind = "maven" THEN 1 ELSE TopK
NothingToDo(x) == job.kind = "maven" /\ \E o \in Occs : Action(p, o, x) = "code_workaround"
\* A Maven plan with a batch that changes nothing is excluded without being tried.
Skip ==
    /\ pc = "solve" /\ ~late
    /\ \E x \in Answers : NothingToDo(x) /\ forbidden' = forbidden \cup {x}
    /\ UNCHANGED <<pc, task, world, faults, cuts, tried, offered, attempt, scratch, archive, outcome>>
Take ==
    /\ pc \in {"solve", "next"} /\ (pc = "solve" => ~late)
    /\ \E x \in Answers : ~NothingToDo(x) /\ cand' = {x}
    /\ offered' = IF pc = "solve" THEN Offer - 1 ELSE offered - 1
    /\ step' = 1 /\ applied' = {} /\ result' = "none" /\ learned' = {}
    /\ pc' = "stage"
    /\ UNCHANGED <<task, world, faults, forbidden, cuts, tried, scratch, archive, outcome>>

----------------------------------------------------------------------------
(* One candidate: _certify_assignment and its counterparts. *)

Changes(x) == IF job.kind = "python" THEN Occs ELSE Bumped(p, x)
Mixed(x, done) == [o \in Occs |-> IF o \in done THEN x[o] ELSE p.installed[o]]
Literals(x, os) == {<<o, x[o]>> : o \in os}
Engine(x) == {o \in Bumped(p, x) : <<o, x[o]>> \in job.world.engine}
Settle(kind, cut) == result' = kind /\ learned' = cut

Scratched == scratch' = TRUE
Held == late \/ \E k \in 1..Len(job.batches) : ~job.batches[k].go
EngineRefuses == job.kind = "npm" /\ Engine(a) # {}
Stage ==
    /\ pc = "stage"
    /\ \/ /\ Held /\ Settle("UNKNOWN", {})
          /\ pc' = "scratch" /\ UNCHANGED <<tried, scratch>>
       \/ /\ ~Held /\ EngineRefuses /\ \E o \in Engine(a) : Settle("CUT", Literals(a, {o}))
          /\ pc' = "scratch" /\ UNCHANGED <<tried, scratch>>
       \/ /\ ~Held /\ ~EngineRefuses /\ tried' = tried \cup cand /\ Scratched
          /\ pc' = "install" /\ UNCHANGED <<result, learned>>
    /\ UNCHANGED <<task, world, faults, forbidden, cuts, offered, cand, step, applied, archive, outcome>>

\* Peer requirements npm would enforce, and how each is reported: a pair when both ends are as assigned.
BrokenPeers(x) == {r \in p.needs : r.kind = "peer" /\ x[r.src] = r.ver /\ x[r.dst] \notin r.range}
PeerPairs(x) == {Literals(a, {r.src, r.dst}) : r \in {q \in BrokenPeers(x) : a[q.src] = q.ver /\ a[q.dst] = x[q.dst]}}
PeerCut(x) == IF Cardinality(PeerPairs(x)) = 1 THEN CHOOSE cut \in PeerPairs(x) : TRUE ELSE {}
\* Mutant: the lockfile is not read.
UnreadLock(x, done) == {}
\* What the lockfile resolves a requirement of an applied candidate to.
BrokenNeeds(x, done) ==
    {r \in p.needs : /\ r.src \in done /\ a[r.src] = r.ver
                     /\ job.world.resolve[r] # "target" \/ x[r.dst] \notin r.range}

\* What a broken requirement is evidence of.
NeedVerdict(r) ==
    CASE job.world.resolve[r] \in {"target", "copy"} -> <<"CUT", Literals(a, {r.src, r.dst})>>
      [] job.world.resolve[r] = "missing" -> <<"EXACT", {}>>
      [] OTHER -> <<"UNKNOWN", {}>>
\* The package manager on the batches applied so far: accepted, or the verdict and what is learned.
PeersBroken(x) == job.kind = "npm" /\ job.world.strict /\ BrokenPeers(x) # {}
NoFixChanged == \E k \in 1..step : \E o \in job.batches[k].occs : Action(p, o, a) = "no_fix" /\ a[o] # p.installed[o]
InstallVerdicts(x, done) ==
    IF PeersBroken(x) THEN {<<IF PeerCut(x) = {} THEN "EXACT" ELSE "CUT", PeerCut(x)>>}
    ELSE IF x \in job.world.refuses THEN {<<IF job.kind = "python" THEN "BUILD" ELSE "EXACT", {}>>}
    ELSE IF job.kind = "npm" /\ BrokenNeeds(x, done) # {} THEN {NeedVerdict(r) : r \in BrokenNeeds(x, done)}
    ELSE IF job.kind = "maven" /\ NoFixChanged THEN {<<"EXACT", {}>>}
    ELSE {<<"ok", {}>>}

\* Only the batch's own updates are added to what earlier batches left.
Added(k) == IF job.kind = "python" THEN Occs ELSE job.batches[k].occs \cap Bumped(p, a)
Install ==
    /\ pc = "install" /\ step <= Len(job.batches) /\ ~late
    /\ LET done == applied \cup Added(step)
       IN  /\ applied' = done
           /\ \E v \in InstallVerdicts(Mixed(a, done), done) :
                IF v[1] = "ok"
                THEN step' = (IF job.kind = "python" THEN Len(job.batches) ELSE step) + 1
                     /\ UNCHANGED <<pc, result, learned>>
                ELSE Settle(v[1], v[2]) /\ pc' = "scratch" /\ UNCHANGED step
    /\ UNCHANGED <<task, world, faults, search, cand, scratch, archive, outcome>>
\* A command that fails for another reason, or is cut off by the deadline, proves nothing.
Fail ==
    /\ pc = "install" /\ (late \/ May("sandbox"))
    /\ Settle("UNKNOWN", {}) /\ pc' = "scratch"
    /\ faults' = IF late THEN faults ELSE faults + 1
    /\ UNCHANGED <<task, world, search, cand, step, applied, scratch, archive, outcome>>

\* What is vulnerable in the end: a finding that was to be fixed, or a new copy below the floor.
Reached(x) == Mixed(x, Changes(x))
Unresolved(x) ==
    {o \in Findings(p) : Reached(x)[o] < p.floor[o] /\ (IF job.kind = "python" THEN FloorRequired(p, o)
                                                         ELSE Action(p, o, x) # "no_fix")}
Covers(x) == Unresolved(x) = {} /\ Reached(x) \notin job.world.breaks
Cover ==
    /\ pc = "install" /\ step > Len(job.batches) /\ ~late
    /\ Settle(CASE Covers(a) /\ (job.kind = "python" => host = "same") -> "CERTIFIED"
                [] ~Covers(a) /\ job.kind = "npm" -> "EXACT"
                [] OTHER -> "UNKNOWN", {})
    /\ pc' = "scratch"
    /\ UNCHANGED <<task, world, faults, search, cand, step, applied, scratch, archive, outcome>>

\* The candidate's scratch tree goes; a failure makes its result unknown, even if the second try works.
LoseResult == Settle("UNKNOWN", {})
CleanScratch ==
    /\ pc = "scratch"
    /\ \/ scratch' = (scratch /\ job.kind = "python") /\ UNCHANGED <<faults, result, learned>>
       \/ /\ May("cleanup") /\ job.kind # "python" /\ faults' = faults + 1
          /\ LoseResult /\ scratch' \in {scratch} \cup (IF job.kind = "npm" THEN {FALSE} ELSE {})
    /\ pc' = "judge"
    /\ UNCHANGED <<task, world, search, cand, step, applied, archive, outcome>>

----------------------------------------------------------------------------
(* What the certifier makes of it.  An answer that repeats an excluded       *)
(* assignment or a known cut is reported as unknown; the solver gives none. *)

Forbid == forbidden' = forbidden \cup cand
Rejected ==
    /\ pc = "judge" /\ result = "EXACT"
    /\ Forbid
    /\ pc' = IF offered > 0 /\ StillOpen THEN "next" ELSE "solve"
    /\ UNCHANGED <<task, world, faults, cuts, tried, offered, attempt, scratch, archive, outcome>>
\* Mutant: the cut keeps only the literal of the required package.
LearnHalf == cuts' = cuts \cup {{CHOOSE l \in learned : \A m \in learned : m[1] <= l[1]}}
LearnCut == cuts' = cuts \cup {learned}
Learn ==
    /\ pc = "judge" /\ result = "CUT"
    /\ LearnCut /\ pc' = "solve"
    /\ UNCHANGED <<task, world, faults, forbidden, tried, offered, attempt, scratch, archive, outcome>>
\* Python goes through one answer; a build that fails is no reason to ask again.
BuildFailed ==
    /\ pc = "judge" /\ result = "BUILD"
    /\ forbidden' = forbidden \cup cand
    /\ IF offered > 0 /\ StillOpen
       THEN pc' = "next" /\ UNCHANGED outcome ELSE Return("UNKNOWN")
    /\ UNCHANGED <<task, world, faults, cuts, tried, offered, attempt, scratch, archive>>
GiveUp ==
    /\ pc = "judge" /\ result = "UNKNOWN"
    /\ Return("UNKNOWN")
    /\ UNCHANGED <<task, world, faults, search, attempt, scratch, archive>>
\* The repository is read again before anything is certified; Python has done so already.
\* Mutant: the plan is trusted to be about the repository as it was.
Unread == TRUE
HostUnchanged == job.kind = "python" \/ (host = "same" /\ (job.kind = "npm" => ~late))
Certified ==
    /\ pc = "judge" /\ result = "CERTIFIED"
    /\ Return(IF HostUnchanged THEN "CERTIFIED" ELSE "UNKNOWN")
    /\ UNCHANGED <<task, world, faults, search, attempt, scratch, archive>>

\* The artifact scope closes on every way out: a failed removal overrides the answer.
AnswerLost == outcome' = "UNKNOWN"
Clean ==
    /\ pc = "clean" /\ pc' = "done"
    /\ \/ scratch' = FALSE /\ archive' = FALSE /\ UNCHANGED <<faults, outcome>>
       \/ May("cleanup") /\ faults' = faults + 1 /\ AnswerLost /\ UNCHANGED <<scratch, archive>>
    /\ UNCHANGED <<task, world, search, attempt>>

----------------------------------------------------------------------------
(* What the package manager would say of a whole plan, and where it starts. *)

Upto(x, k) == Changes(x) \cap UNION {job.batches[j].occs : j \in 1..k}
Accepted(x, k) ==
    LET y == Mixed(x, Upto(x, k))
    IN  /\ y \notin job.world.refuses
        /\ job.kind = "npm" =>
             /\ job.world.strict => BrokenPeers(y) = {}
             /\ \A r \in p.needs : r.src \in Upto(x, k) /\ x[r.src] = r.ver =>
                    job.world.resolve[r] = "target" /\ y[r.dst] \in r.range
Proven(x) ==
    /\ Covers(x)
    /\ job.kind = "npm" => \A o \in Bumped(p, x) : <<o, x[o]>> \notin job.world.engine
    /\ IF job.kind = "python" THEN x \notin job.world.refuses ELSE \A k \in 1..Len(job.batches) : Accepted(x, k)

Init ==
    /\ pc = "start" /\ job \in Jobs
    /\ space = {[plan |-> x, score |-> Score(p, x), sound |-> Proven(x),
                 better |-> {y \in Solutions(p, {}, {}) : Better(Value(p, y), Value(p, x))}] :
                    x \in Solutions(p, {}, {})}
    /\ host = "same" /\ volume = job.volume /\ late = FALSE /\ faults = 0
    /\ forbidden = {} /\ cuts = {} /\ tried = {} /\ offered = 0
    /\ cand = {} /\ step = 0 /\ applied = {} /\ result = "none" /\ learned = {}
    /\ scratch = FALSE /\ archive = FALSE /\ outcome = "none"

Next ==
    \/ Deadline \/ EditHost
    \/ NoVolume \/ Restore \/ Prepare \/ Broken
    \/ Expire \/ Exhausted \/ Unanswered \/ Skip \/ Take
    \/ Stage \/ Install \/ Fail \/ Cover \/ CleanScratch
    \/ Rejected \/ Learn \/ BuildFailed \/ GiveUp \/ Certified \/ Clean

\* The certifier is one call that runs to its end; the deadline and the editor owe it nothing.
Work == NoVolume \/ Restore \/ Prepare \/ Broken \/ Expire \/ Exhausted \/ Unanswered \/ Skip \/ Take
        \/ Stage \/ Install \/ Fail \/ Cover \/ CleanScratch \/ Rejected \/ Learn \/ BuildFailed
        \/ GiveUp \/ Certified \/ Clean
Spec == Init /\ [][Next]_vars /\ WF_vars(Work)

----------------------------------------------------------------------------
(* Properties. *)

\* A plan is certified only for the repository as it is when the certificate is made, in a volume that is the
\* host's or the verified prefix of that plan, and with no batch the plan itself holds back.
CertifiedOnHost ==
    [][outcome' = "CERTIFIED" /\ outcome # "CERTIFIED" =>
         /\ job.kind # "python" => host = "same"
         /\ Matches /\ \A k \in 1..Len(job.batches) : job.batches[k].go]_vars

\* npm rejects a portfolio only when every assignment the constraints admit has been refused, or contains
\* versions the package manager refuses wherever they occur: unless a lockfile holds a second copy of a
\* package, no cut excludes an assignment that would have been accepted.
RejectedIsExhausted ==
    (job.kind = "npm" /\ \A r \in p.needs : job.world.resolve[r] = "target") =>
        /\ \A x \in space : Excluded(x.plan, forbidden, cuts) => ~x.sound
        /\ outcome = "REJECTED" => Open = {}

\* It keeps the promise of Certification: what is certified is accepted by the package manager and nothing
\* still open covers more, or the same at a lower price, whatever the weights of the single objective; a
\* rejection means that nothing is left.  Of a solver that runs out of time only the first is promised.
Answer ==
    IF pc # "done" THEN "open"
    ELSE IF outcome = "CERTIFIED" THEN "certified"
    ELSE IF outcome = "REJECTED" /\ ~(job.kind = "maven" /\ job.slow) THEN "rejected" ELSE "unknown"
Promise == INSTANCE Certification WITH
    offers <- {[plan |-> x.plan, better |-> IF job.slow THEN {} ELSE x.better] : x \in space},
    good <- {x.plan : x \in {y \in space : y.sound}},
    out <- {x.plan : x \in space \ Open}, answer <- Answer,
    chosen <- IF Answer = "certified" THEN cand ELSE {}
KeepsPromise == Promise!CertSpec
=============================================================================
