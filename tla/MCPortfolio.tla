----------------------------- MODULE MCPortfolio -----------------------------
(***************************************************************************)
(* The portfolio for TLC: what a plan is made from, how its updates are    *)
(* batched, how a plan is certified, and the ladder of retries below a      *)
(* plan.  A behaviour runs one of the machines; the others stay in an       *)
(* initial state.                                                          *)
(***************************************************************************)
EXTENDS MCPortfolioCertifier

CONSTANTS Machines,                                                      \* those to run
          M, MaxBatch, Budget, Graphs,                                    \* of PortfolioBatches
          Occurrences, Repositories, Vulnerable, Fixed, Scopes, Outages,  \* of PortfolioInputs
          MaxCandidates, MaxIterations,
          Latest, Ladders, MaxRetries, MaxReplans                          \* of RetryLadder

VARIABLES machine,                                              \* the machine that runs
          bpc, graph, hard, todo, units, filling, batches, assigned, dag, phases,
          repo, scope, groups, queue, plan, dirty, iteration, status,
          kind, model, parents, lpc, standing, retries, stage, sel, target, exhausted, allowed,
          planned, rplan, diag, pool, cause, choice, replans, ran, dispatches

B == INSTANCE PortfolioBatches WITH pc <- bpc, groups <- batches
I == INSTANCE PortfolioInputs
R == INSTANCE RetryLadder WITH pc <- lpc, status <- standing

batchesVars == <<bpc, graph, hard, todo, units, filling, batches, assigned, dag, phases>>
inputsVars == <<repo, scope, groups, queue, plan, dirty, iteration, status>>
ladderVars == <<kind, model, parents, lpc, standing, retries, stage, sel, target, exhausted, allowed,
                planned, rplan, diag, pool, cause, choice, replans, ran, dispatches>>

ASSUME PlanningAssumption ==
    /\ B!GraphAssumption /\ I!InputsAssumption /\ R!LadderAssumption
    /\ Machines \subseteq {"inputs", "batches", "certifier", "ladder"}

-----------------------------------------------------------------------------
(* Five tasks, batches of at most two and phases of at most two batches;    *)
(* every choice among relations that hold a unit of three, a chain, a cycle *)
(* and scope neighbours.                                                    *)

Edge(s, d, k) == [src |-> s, dst |-> d, kind |-> k]
Catalogue == {Edge(1, 2, "peer"), Edge(2, 3, "peer"), Edge(3, 4, "scope"), Edge(4, 5, "ancestry"),
              Edge(1, 5, "runtime"), Edge(2, 4, "scope"), Edge(5, 3, "runtime")}
Graph(edges, state, forced, backed, rank, valid) ==
    [edges |-> edges, state |-> state, forced |-> forced, backed |-> backed, rank |-> rank, valid |-> valid]
AllUpdates == [t \in 1..M |-> "update"]
Ranks == [t \in 1..M |-> (t * 2) % 5]
MCGraphs ==
    {Graph(es, AllUpdates, {}, b, Ranks, TRUE) : es \in SUBSET Catalogue, b \in {{4, 5}, {1, 4}}}
    \cup {Graph(es, [AllUpdates EXCEPT ![2] = s], f, {4, 5}, Ranks, TRUE) :
            es \in {x \in SUBSET Catalogue : Edge(1, 2, "peer") \in x}, s \in {"other", "held"}, f \in {{}, {4}}}
    \cup {Graph(Catalogue, AllUpdates, {}, {4, 5}, Ranks, FALSE)}

-----------------------------------------------------------------------------
(* Small repositories: "a" has a finding, "b" asks for "a" as a peer, "c"   *)
(* for "b"; 4 is the same package as 1 in another manifest of the           *)
(* workspace, or a lockfile-only package with a finding that "b" or nobody  *)
(* brings in.                                                               *)

NoPeer == [n \in {} |-> {}]
PeerOn(n, range) == [m \in {n} |-> range]
Repository ==
    [name |-> <<"a", "b", "c", "d">>, manifest |-> <<1, 1, 1, 1>>, direct |-> {1, 2, 3},
     resolved |-> <<1, 1, 1, 1>>, peers |-> <<NoPeer, PeerOn("a", {1, 2}), NoPeer, NoPeer>>,
     optional |-> <<{}, {}, {}, {}>>, runtime |-> <<{}, {}, {"b"}, {}>>,
     workspaces |-> {{1, 2}}, namespaced |-> {}, parent |-> <<0, 0, 0, 2>>,
     published |-> [n \in {"a", "b", "c", "d"} |-> CASE n = "a" -> {1, 2, 3} [] n = "c" -> {1} [] OTHER -> {1, 3}],
     carries |-> <<{}, {}, {}, {3}>>, middle |-> <<{}, {}, {}, {"c"}>>]
MCRepositories ==
    {Repository, [Repository EXCEPT !.parent = <<0, 0, 0, 0>>],
     [Repository EXCEPT !.peers = <<NoPeer, PeerOn("a", {1, 2}), PeerOn("b", {1}), NoPeer>>],
     [Repository EXCEPT !.name = <<"a", "b", "c", "a">>, !.manifest = <<1, 1, 1, 2>>,
                        !.direct = {1, 2, 4}, !.parent = <<0, 0, 0, 0>>, !.namespaced = {2, 3}]}
MCFixed == [f \in Vulnerable |-> 2]
MCScopes == {{}, {"a", "d"}}
MCOutages == {{}, {"b"}, {"c"}}

-----------------------------------------------------------------------------

PortfolioInit ==
    /\ machine \in Machines
    /\ (machine # "certifier" => job = Job("npm", Plain, Apart, Easy)) /\ Init
    /\ (machine # "batches" => graph = Graph({}, AllUpdates, {}, {4, 5}, Ranks, TRUE)) /\ B!Init
    /\ (machine # "inputs" => repo = I!Linked(Repository) /\ scope = {}) /\ I!Init
    /\ (machine # "ladder" => kind = "direct" /\ model = TRUE /\ allowed = <<1>>) /\ R!Init

Certifies == machine = "certifier" /\ Next /\ UNCHANGED <<machine, batchesVars, inputsVars, ladderVars>>
Batches == machine = "batches" /\ B!Next /\ UNCHANGED <<machine, vars, inputsVars, ladderVars>>
Prepares == machine = "inputs" /\ I!Next /\ UNCHANGED <<machine, vars, batchesVars, ladderVars>>
Retries == machine = "ladder" /\ R!Next /\ UNCHANGED <<machine, vars, batchesVars, inputsVars>>
PortfolioNext == Certifies \/ Batches \/ Prepares \/ Retries
PortfolioSpec == PortfolioInit /\ [][PortfolioNext]_<<machine, vars, batchesVars, inputsVars, ladderVars>>

-----------------------------------------------------------------------------

\* Packing a soft component into batches never divides tasks that must be edited
\* together, unless a unit of that component is larger than a batch may be
\* (cluster_packages).
PackingKeepsUnits == machine = "batches" => B!PackingKeepsUnits
\* A batch is in a later phase than everything it depends on, except around a cycle,
\* which shares a phase; the phases leave no batch out and name none twice, whatever the
\* budget cuts off (schedule_batches).
UpstreamFirst == machine = "batches" => B!UpstreamFirst
\* A synthetic package whose task was dispatched or ended keeps the target it had then,
\* however the versions around it move, as long as it stays in scope
\* (materialize_synthetic_dependency_tasks).
CommittedIsFrozen == I!CommittedIsFrozen
\* A plan that was just committed is not at once older than its tasks: the revisions
\* _project_prepared_portfolio_plan plans are those apply_portfolio_plan gives, for live
\* and terminal tasks alike.
FreshPlanStands == machine = "inputs" => I!FreshPlanStands
\* No dispatch selects a version that a worker already installed for the same target: not
\* after a replan, a repair of the stage or a choice of the model
\* (_ordered_update_candidates and the bookkeeping of worker results).
NothingReplayed == R!NothingReplayed
=============================================================================
