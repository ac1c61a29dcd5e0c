-------------------------- MODULE PortfolioBatches --------------------------
(***************************************************************************)
(* From one assignment to what may be dispatched: solver/graph.py groups    *)
(* the tasks of a portfolio into batches (cluster_packages), orders the     *)
(* batches by the relations between them (build_dependency_dag) and deals   *)
(* them out in bounded phases (schedule_batches).  All three are loops over *)
(* sorted collections; a step here is one turn of one of the loops.         *)
(*                                                                          *)
(* Two relations group tasks.  Hard ones (strict peers, workspaces, pins,   *)
(* ancestry between findings, peer conflicts) must be edited together; soft *)
(* ones (a common package scope) are edited together while they fit.        *)
(***************************************************************************)
EXTENDS Integers, FiniteSets, FiniteSetsExt, Sequences, Functions

CONSTANTS
    M,          \* tasks are numbered in the order of their occurrence ids
    MaxBatch,        \* MAX_MULTI_PACKAGE_ACTION_SIZE
    Budget,     \* solver_phase_budget
    Graphs      \* the graphs to plan

Tasks == 1..M
EdgeKinds == {"peer", "ancestry", "runtime", "scope"}
States == {"update", "other", "held"}
\* Assumed of the constants where the module is instantiated.
GraphAssumption ==
    /\ M \in Nat \ {0} /\ MaxBatch \in Nat \ {0} /\ Budget \in Nat
    /\ \A g \in Graphs :
         /\ g.state \in [Tasks -> States] /\ g.forced \subseteq Tasks /\ g.backed \subseteq Tasks
         /\ g.rank \in [Tasks -> Nat] /\ g.valid \in BOOLEAN
         /\ \A e \in g.edges : e.src \in Tasks /\ e.dst \in Tasks \ {e.src} /\ e.kind \in EdgeKinds

VARIABLES
    pc,         \* "cluster", "schedule" or "done"
    graph,      \* the occurrences, their relations and what is known of each task
    hard,       \* the hard relations that apply and the units they form
    todo,       \* soft components that are not grouped yet
    units,      \* units of the component at hand that are not packed yet
    filling,    \* the tasks of the batch that is being filled
    groups,     \* the batches: their tasks and whether they may be dispatched
    assigned,   \* tasks a component has put into a group
    dag,        \* the order of the batches and its strongly connected parts
    phases      \* the phases emitted, each a set of batches

vars == <<pc, graph, hard, todo, units, filling, groups, assigned, dag, phases>>

----------------------------------------------------------------------------
(* Components: the sets DisjointSetUnion keeps. *)

\* What the edges R lead to from x: what no set that is closed under R separates from it.
Reached(nodes, R, x) ==
    {y \in nodes : \A S \in SUBSET nodes : x \in S /\ (\A r \in R : r[1] \in S => r[2] \in S) => y \in S}
Both(R) == R \cup {<<r[2], r[1]>> : r \in R}
Linked(R, t) == Reached(Tasks, Both(R), t)
Components(R) == {Linked(R, t) : t \in Tasks}

\* Only a supported update that nobody forced apart may share a batch.
Joinable(t) == graph.state[t] = "update" /\ t \notin graph.forced
Related(kinds) ==
    {<<e.src, e.dst>> : e \in {x \in graph.edges : x.kind \in kinds /\ Joinable(x.src) /\ Joinable(x.dst)}}
\* Ancestry couples two findings; other ancestry and runtime edges only order.
Hard == Related({"peer"}) \cup {r \in Related({"ancestry"}) : r[1] \in graph.backed /\ r[2] \in graph.backed}
Soft == Hard \cup Related({"scope"})

Least(S) == Min(S)
Backed(S) == S \cap graph.backed # {}
\* Units with a finding first, then by their first member.
Before(u, v) == IF Backed(u) # Backed(v) THEN Backed(u) ELSE Least(u) < Least(v)
UnitsIn(component) == {u \in hard.units : u \subseteq component}
Oversized(component) == {u \in UnitsIn(component) : Cardinality(u) > MaxBatch}

Group(tasks, go) == [tasks |-> tasks, go |-> go]
DispatchableTask(t) == graph.state[t] # "held"
NoDag == [edges |-> {}, cycles |-> {}]

Init ==
    /\ pc = "cluster" /\ graph \in Graphs
    /\ hard = [rel |-> Hard, units |-> Components(Hard)]
    /\ todo = Components(Soft)
    /\ units = {} /\ filling = {}
    /\ groups = {} /\ assigned = {} /\ dag = NoDag /\ phases = <<>>

----------------------------------------------------------------------------
(* cluster_packages. *)

\* Nothing is being packed.
Between == pc = "cluster" /\ units = {} /\ filling = {}
FirstOf(components) == {c \in components : \A d \in components : Least(c) <= Least(d)}

\* A component with an oversized unit: its members are refused, the rest is left for later.
Overflow ==
    /\ Between
    /\ \E component \in FirstOf(todo) :
         /\ Oversized(component) # {}
         /\ groups' = groups \cup {Group({t}, FALSE) : t \in UNION Oversized(component)}
         /\ assigned' = assigned \cup UNION Oversized(component)
         /\ todo' = todo \ {component}
    /\ UNCHANGED <<pc, graph, hard, units, filling, dag, phases>>
Partition ==
    /\ Between
    /\ \E component \in FirstOf(todo) :
         /\ Oversized(component) = {}
         /\ units' = UnitsIn(component)
         /\ assigned' = assigned \cup component
         /\ todo' = todo \ {component}
    /\ UNCHANGED <<pc, graph, hard, filling, groups, dag, phases>>

\* Units are packed greedily, in order, and never divided.
Fits(unit) == filling = {} \/ Cardinality(filling) + Cardinality(unit) <= MaxBatch
\* Mutant: a unit that does not fit is cut to what does.
PackCut(unit) ==
    IF Fits(unit) THEN filling' = filling \cup unit /\ UNCHANGED groups
    ELSE filling' = unit \ {Least(unit)} /\ groups' = groups \cup {Group(filling \cup {Least(unit)}, TRUE)}
Pack(unit) ==
    IF Fits(unit) THEN filling' = filling \cup unit /\ UNCHANGED groups
    ELSE filling' = unit /\ groups' = groups \cup {Group(filling, TRUE)}
Take ==
    /\ pc = "cluster"
    /\ \E unit \in {u \in units : \A v \in units \ {u} : Before(u, v)} :
         Pack(unit) /\ units' = units \ {unit}
    /\ UNCHANGED <<pc, graph, hard, todo, assigned, dag, phases>>
Close ==
    /\ pc = "cluster" /\ units = {} /\ filling # {}
    /\ groups' = groups \cup {Group(filling, \A t \in filling : DispatchableTask(t))}
    /\ filling' = {}
    /\ UNCHANGED <<pc, graph, hard, todo, units, assigned, dag, phases>>

\* What no component claimed becomes a batch of its own; so would a task that may not share one.
Stray(g) == {t \in g.tasks : Cardinality(g.tasks) > 1 /\ ~Joinable(t)}
Rest == {Group({t}, DispatchableTask(t)) : t \in Tasks \ assigned}
Batches ==
    LET all == groups \cup Rest
    IN  {Group(g.tasks \ Stray(g), g.go) : g \in {x \in all : x.tasks \ Stray(x) # {}}}
        \cup {Group({t}, DispatchableTask(t)) : t \in UNION {Stray(g) : g \in all}}

\* Upstream first: what an edge depends on, or the source of any other edge; hard edges run both ways.
TaskOrder ==
    {IF e.kind \in {"ancestry", "runtime"} THEN <<e.dst, e.src>> ELSE <<e.src, e.dst>> : e \in graph.edges}
    \cup hard.rel \cup {<<r[2], r[1]>> : r \in hard.rel}
OrderOf(batches) ==
    {e \in batches \X batches : e[1] # e[2] /\ \E r \in TaskOrder : r[1] \in e[1].tasks /\ r[2] \in e[2].tasks}
\* Strongly connected batches are scheduled as one.
CyclesOf(batches, edges) ==
    {{h \in Reached(batches, edges, g) : g \in Reached(batches, edges, h)} : g \in batches}

Singletons ==
    /\ Between /\ todo = {}
    /\ groups' = Batches
    /\ \E edges \in {OrderOf(groups')} : dag' = [edges |-> edges, cycles |-> CyclesOf(groups', edges)]
    /\ pc' = "schedule"
    /\ UNCHANGED <<graph, hard, todo, units, filling, assigned, phases>>

----------------------------------------------------------------------------
(* build_dependency_dag has ordered the batches; schedule_batches. *)

BatchOf(t) == CHOOSE g \in groups : t \in g.tasks
CycleOf(g) == CHOOSE c \in dag.cycles : g \in c
Emitted == UNION Range(phases)
Pending == {c \in dag.cycles : c \cap Emitted = {}}
Upstream(c) == {g \in groups \ c : \E h \in c : <<g, h>> \in dag.edges}

\* Mutant: one scheduled predecessor is enough.
ReadyEarly == {c \in Pending : Upstream(c) = {} \/ Upstream(c) \cap Emitted # {}}
Ready == {c \in Pending : Upstream(c) \subseteq Emitted}

TasksIn(c) == UNION {g.tasks : g \in c}
RankOf(c) == IF Backed(TasksIn(c)) THEN Min({graph.rank[t] : t \in TasksIn(c) \cap graph.backed}) ELSE 5
Sooner(c, d) == RankOf(c) < RankOf(d) \/ (RankOf(c) = RankOf(d) /\ Backed(TasksIn(c)) /\ ~Backed(TasksIn(d)))
Single(c) == Cardinality(c) = 1

\* A phase takes the most urgent components, until the single ones among them use up the budget.
PhaseOf(sel) ==
    /\ sel # {} /\ \A c \in sel, d \in Ready \ sel : ~Sooner(d, c)
    /\ Cardinality({c \in sel : Single(c)}) <= Budget
    /\ sel = Ready \/ Cardinality({c \in sel : Single(c)}) = Budget
NextPhase ==
    /\ pc = "schedule" /\ graph.valid /\ Budget > 0
    /\ \E sel \in SUBSET Ready : PhaseOf(sel) /\ phases' = Append(phases, UNION sel)
    /\ UNCHANGED <<pc, graph, hard, todo, units, filling, groups, assigned, dag>>
Finish ==
    /\ pc = "schedule" /\ (~graph.valid \/ Budget = 0 \/ Ready = {})
    /\ pc' = "done"
    /\ UNCHANGED <<graph, hard, todo, units, filling, groups, assigned, dag, phases>>

Next == Overflow \/ Partition \/ Take \/ Close \/ Singletons \/ NextPhase \/ Finish
Spec == Init /\ [][Next]_vars /\ WF_vars(Next)

----------------------------------------------------------------------------
(* Properties. *)

\* Where nothing overflows, packing soft components never divides tasks that must be edited together.
PackingKeepsUnits ==
    pc # "cluster" =>
        \A r \in hard.rel : BatchOf(r[1]) = BatchOf(r[2]) \/ Oversized(Linked(Soft, r[1])) # {}

\* A batch is in a later phase than everything it depends on, except around a cycle, which shares a phase;
\* the scheduler leaves nothing out, whatever the budget cuts off.
UpstreamFirst ==
    /\ \A k \in 1..Len(phases), g \in groups :
         g \in phases[k] => Upstream(CycleOf(g)) \subseteq UNION {phases[j] : j \in 1..(k - 1)}
    /\ \A j, k \in 1..Len(phases) : phases[j] \cap phases[k] # {} => j = k
    /\ pc = "done" /\ graph.valid /\ Budget > 0 => Emitted = groups

\* Does not hold (README, Known deviations): "Hard relationships are never split", two tasks
\* that must be edited together are in one batch, or neither of them is dispatched.
HardNeverSplit ==
    pc # "cluster" =>
        \A r \in hard.rel : BatchOf(r[1]) = BatchOf(r[2]) \/ ~(BatchOf(r[1]).go \/ BatchOf(r[2]).go)
=============================================================================
