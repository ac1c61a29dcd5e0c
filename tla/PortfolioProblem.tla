-------------------------- MODULE PortfolioProblem --------------------------
(***************************************************************************)
(* What the portfolio solver decides: one version for every eligible        *)
(* occurrence.  This module is the constraint model of solver/cpsat.py      *)
(* (_solve_portfolio_subgraph) without the solver: which versions an        *)
(* occurrence may take, which pairs of them fit, what a candidate requires  *)
(* of its dependencies, what an assignment covers, and how two assignments  *)
(* compare.  The solver is an external program that returns the best        *)
(* assignment of this model; PortfolioCertifier asks it and installs what   *)
(* it answers.                                                              *)
(*                                                                          *)
(* A problem is a record:                                                   *)
(*   installed, floor   the version of each occurrence, and the first       *)
(*                      secure one (0: no finding, Top + 1: none known)     *)
(*   strategy           of each occurrence; authorised those with validated *)
(*                      workaround plans; severe those whose finding counts *)
(*   needs              modelled candidate relations src@ver -> dst in range*)
(*                      ("peer" or "dependency")                          *)
(*   links              peer constraints and edges with a range             *)
(*   tied               what peers outside the portfolio leave an occurrence*)
(*   wants, releases    evidence relations src@ver -> lib in range, and the *)
(*                      releases of each library that is only evidence      *)
(*   unmet              <<occurrence, version>> with an unsatisfied         *)
(*                      physical peer                                       *)
(***************************************************************************)
EXTENDS Integers, FiniteSetsExt

CONSTANTS
    N,      \* eligible occurrences are numbered in the order of their ids
    Top,    \* versions are numbered in release order
    Libs    \* the packages known only as evidence

ASSUME ProblemAssumption == N \in Nat \ {0} /\ Top \in Nat \ {0}

Occs == 1..N
Versions == 1..Top
Assignments == [Occs -> Versions]

\* What every problem has, whatever else it says.
IsProblem(p) ==
    /\ p.installed \in Assignments /\ p.floor \in [Occs -> Nat]
    /\ \A r \in p.needs : r.src \in Occs /\ r.dst \in Occs

\* A finding without a secure release has a floor no version reaches.
HasFinding(p, o) == p.floor[o] > 0
FloorRequired(p, o) == p.strategy[o] = "version_bump"

----------------------------------------------------------------------------
(* The domain of one occurrence. *)

\* Candidates that reach the floor, when one is required.
Secure(p, o) ==
    {v \in Versions : HasFinding(p, o) /\ FloorRequired(p, o) => v >= p.floor[o]}
\* The status quo stays available; a validated workaround opens the whole domain.
Allowed(p, o) ==
    IF Secure(p, o) = {} /\ FloorRequired(p, o) /\ HasFinding(p, o) /\ o \in p.authorised
    THEN Versions
    ELSE Secure(p, o) \cup {p.installed[o]}

----------------------------------------------------------------------------
(* Pairs of candidates: _pair_allowed is the definition, _constraint_pairs  *)
(* the table the model is built from.                                       *)

Requires(p, s, v, t) == {r \in p.needs : r.src = s /\ r.ver = v /\ r.dst = t}
PairAllowed(p, link, v, w) ==
    LET forward == Requires(p, link.src, v, link.dst)
        backward == Requires(p, link.dst, w, link.src)
    IN  /\ \A r \in forward : w \in r.range
        /\ \A r \in backward : v \in r.range
        /\ forward \cup backward = {} => w \in link.range

\* The row of a source candidate: the targets its own relations admit, or those of the targets'.
SourceTargets(p, link, v) == {w \in Versions : \A r \in Requires(p, link.src, v, link.dst) : w \in r.range}
TargetsWithRelation(p, link) == {w \in Versions : Requires(p, link.dst, w, link.src) # {}}
ReverseTargets(p, link, v) ==
    {w \in Versions : \A r \in Requires(p, link.dst, w, link.src) : v \in r.range}
MaskRow(p, link, v) ==
    IF Requires(p, link.src, v, link.dst) # {}
    THEN SourceTargets(p, link, v) \cap ReverseTargets(p, link, v)
    ELSE (ReverseTargets(p, link, v) \cap TargetsWithRelation(p, link))
         \cup ((Versions \ TargetsWithRelation(p, link)) \cap link.range)

\* add_resilient_pair_constraint: the installed pair always fits, and a relation nobody can meet keeps it.
Fits(p, link, v, w) ==
    w \in MaskRow(p, link, v) \/ (v = p.installed[link.src] /\ w = p.installed[link.dst])

----------------------------------------------------------------------------
(* The constraints on a whole assignment. *)

\* A relation of the installed candidate tolerates the installed target.
NeedMet(p, r, a) ==
    a[r.src] = r.ver =>
        a[r.dst] \in r.range \/ (r.ver = p.installed[r.src] /\ a[r.dst] = p.installed[r.dst])
\* One release of a library must do for everybody who is chosen; the installed candidate is not spared.
Wanted(p, lib, a) == {w \in p.wants : w.lib = lib /\ a[w.src] = w.ver}
Witnessed(p, lib, a) ==
    Wanted(p, lib, a) # {} => \E x \in p.releases[lib] : \A w \in Wanted(p, lib, a) : x \in w.range
\* Peers that are not in the portfolio, and peers of candidates that are.
Tolerated(p, o, v) == v = p.installed[o] \/ (v \in p.tied[o] /\ <<o, v>> \notin p.unmet)

Feasible(p, a) ==
    /\ \A o \in Occs : a[o] \in Allowed(p, o) /\ Tolerated(p, o, a[o])
    /\ \A link \in p.links : Fits(p, link, a[link.src], a[link.dst])
    /\ \A r \in p.needs : NeedMet(p, r, a)
    /\ \A lib \in Libs : Witnessed(p, lib, a)

\* Learned: whole assignments, and cuts of one or two literals <<occurrence, version>>.
Hits(a, cut) == \A literal \in cut : a[literal[1]] = literal[2]
Excluded(a, forbidden, cuts) == a \in forbidden \/ \E cut \in cuts : Hits(a, cut)
Solutions(p, forbidden, cuts) == {a \in Assignments : Feasible(p, a) /\ ~Excluded(a, forbidden, cuts)}

----------------------------------------------------------------------------
(* What an assignment is worth: findings covered, then severity left open,  *)
(* workarounds, changes, distance above the floor, and the position of the  *)
(* candidate, all but the first to be small.                                *)

\* An update with validated workaround plans may be covered by those; a no-fix task by nothing.
MayWorkAround(p, o) == FloorRequired(p, o) /\ o \in p.authorised
ByVersion(p, o, a) == FloorRequired(p, o) /\ a[o] >= p.floor[o]
Covered(p, o, a) == ByVersion(p, o, a) \/ MayWorkAround(p, o)
Findings(p) == {o \in Occs : HasFinding(p, o)}
Over(v, floor) == IF v > floor THEN v - floor ELSE 0
\* Summed over the eligible occurrences, one after the other.
Total(f) == LET upto[k \in 0..N] == IF k = 0 THEN 0 ELSE upto[k - 1] + f[k] IN upto[N]

Value(p, a) ==
    << - Quantify(Findings(p), LAMBDA o : Covered(p, o, a)),
       Quantify(Findings(p) \cap p.severe, LAMBDA o : ~Covered(p, o, a)),
       Quantify(Findings(p), LAMBDA o : MayWorkAround(p, o) /\ ~ByVersion(p, o, a)),
       Quantify(Occs, LAMBDA o : a[o] # p.installed[o]),
       Total([o \in Occs |-> Over(a[o], p.floor[o])]),
       Total(a) >>
Terms == 1..6
Better(x, y) == \E k \in Terms : x[k] < y[k] /\ \A j \in 1..(k - 1) : x[j] = y[j]

\* _objective_weights: one number per assignment, from bounds on each term.
Bounds(p) ==
    << Cardinality(Findings(p)), Cardinality(Findings(p) \cap p.severe) + 1, Cardinality(Findings(p)) + 1,
       N + 1, Total([o \in Occs |-> Over(Top, p.floor[o])]) + 1,
       N * Top + 1 >>
Weights(p) ==
    LET b == Bounds(p)
        distance == b[6]
        changed == b[5] * distance + b[6]
        workaround == b[4] * changed + b[5] * distance + b[6]
        unresolved == b[3] * workaround + b[4] * changed + b[5] * distance + b[6]
        coverage == b[2] * unresolved + b[3] * workaround + b[4] * changed + b[5] * distance + b[6]
    IN  <<coverage, unresolved, workaround, changed, distance, 1>>
Score(p, a) == LET w == Weights(p) x == Value(p, a)
               IN  w[1] * x[1] + w[2] * x[2] + w[3] * x[3] + w[4] * x[4] + w[5] * x[5] + w[6] * x[6]
\* The solver is external: it returns an assignment with the least score, any of them.
Best(S) == {x \in S : \A y \in S : x.score <= y.score}

----------------------------------------------------------------------------
(* What the plan says of the assignment: _build_decision.                   *)

Action(p, o, a) ==
    CASE FloorRequired(p, o) /\ (HasFinding(p, o) => ByVersion(p, o, a)) -> "version_bump"
      [] FloorRequired(p, o) /\ HasFinding(p, o) /\ ~ByVersion(p, o, a) /\ o \in p.authorised -> "code_workaround"
      [] OTHER -> "no_fix"
Bumped(p, a) == {o \in Occs : Action(p, o, a) = "version_bump"}
=============================================================================
