-------------------------- MODULE MCPortfolio_proofs --------------------------
(***************************************************************************)
(* What the run of planning shows of the batches: how the tasks of a plan   *)
(* are grouped and in which order the groups are dispatched, for any graph, *)
(* any limit of a batch and any budget of a phase; of the ladder of         *)
(* retries; and of the inputs of a plan over the replans of a run.          *)
(***************************************************************************)
EXTENDS MCPortfolio, FiniteSetTheorems, SequenceTheorems, WellFoundedInduction, TLAPS

\* Everything the run looks at.
Everything == <<machine, vars, batchesVars, inputsVars, ladderVars>>

\* A nonempty set of numbers has a least one.
LEMMA LeastNat == ASSUME NEW T, T \subseteq Nat, T # {}
                  PROVE  \E k \in T : \A m \in T : k <= m
  <1>1. IsWellFoundedOn({ss \in Nat \X Nat : ss[1] < ss[2]}, Nat)
    BY NatLessThanWellFounded DEF OpToRel
  <1>2. PICK n \in T : \A m \in T : ~(<<m, n>> \in {ss \in Nat \X Nat : ss[1] < ss[2]})
    BY <1>1, WFMin
  <1>3. ASSUME NEW m \in T PROVE n <= m
    <2>1. m \in Nat /\ n \in Nat
      OBVIOUS
    <2>2. ~(m < n)
      BY <1>2, <2>1
    <2>. QED  BY <2>1, <2>2
  <1>. QED  BY <1>3

-----------------------------------------------------------------------------
(* What edges lead to. *)

LEMMA ReachedFacts ==
    ASSUME NEW V, NEW E, NEW x \in V
    PROVE  /\ B!Reached(V, E, x) \subseteq V /\ x \in B!Reached(V, E, x)
           /\ \A r \in E : r[1] \in B!Reached(V, E, x) /\ r[2] \in V => r[2] \in B!Reached(V, E, x)
           /\ \A S \in SUBSET V : x \in S /\ (\A r \in E : r[1] \in S => r[2] \in S) => B!Reached(V, E, x) \subseteq S
  BY DEF B!Reached

LEMMA ReachedOnwards ==
    ASSUME NEW V, NEW E, \A r \in E : r[2] \in V, NEW x \in V, NEW y \in B!Reached(V, E, x)
    PROVE  B!Reached(V, E, y) \subseteq B!Reached(V, E, x)
  <1>1. y \in V
    BY ReachedFacts
  <1>2. \A r \in E : r[1] \in B!Reached(V, E, x) => r[2] \in B!Reached(V, E, x)
    BY ReachedFacts
  <1>3. B!Reached(V, E, x) \in SUBSET V
    BY ReachedFacts
  <1>. QED  BY <1>1, <1>2, <1>3, ReachedFacts

LEMMA LinkedBack ==
    ASSUME NEW E \in SUBSET (B!Tasks \X B!Tasks), NEW x \in B!Tasks, NEW y \in B!Linked(E, x)
    PROVE  y \in B!Tasks /\ x \in B!Linked(E, y) /\ B!Linked(E, x) = B!Linked(E, y)
  <1>. DEFINE F == B!Both(E)
              T == B!Tasks
  <1>1. \A r \in F : r[1] \in T /\ r[2] \in T /\ <<r[2], r[1]>> \in F
    BY DEF B!Both
  <1>2. B!Linked(E, x) = B!Reached(T, F, x) /\ B!Linked(E, y) = B!Reached(T, F, y)
    BY DEF B!Linked
  <1>. HIDE DEF F, T
  <1>3. x \in T
    BY DEF T
  <1>4. y \in T
    BY <1>2, <1>3, ReachedFacts
  <1>5. x \in B!Reached(T, F, y)
    <2>1. SUFFICES ASSUME x \notin B!Reached(T, F, y) PROVE FALSE
      OBVIOUS
    <2>. DEFINE S == T \ B!Reached(T, F, y)
    <2>2. S \in SUBSET T /\ x \in S
      BY <1>3, <2>1
    <2>3. ASSUME NEW r \in F, r[1] \in S PROVE r[2] \in S
      <3>1. <<r[2], r[1]>> \in F /\ r[1] \in T /\ r[2] \in T
        BY <1>1
      <3>2. r[2] \in B!Reached(T, F, y) => r[1] \in B!Reached(T, F, y)
        <4>. DEFINE b == <<r[2], r[1]>>
        <4>1. b \in F /\ b[1] = r[2] /\ b[2] = r[1]
          BY <3>1
        <4>. HIDE DEF b
        <4>. QED  BY <1>4, <3>1, <4>1, ReachedFacts
      <3>. QED  BY <2>3, <3>1, <3>2
    <2>4. B!Reached(T, F, x) \subseteq S
      <3>. HIDE DEF S
      <3>. QED  BY <1>3, <2>2, <2>3, ReachedFacts
    <2>5. y \in S /\ y \in B!Reached(T, F, y)
      BY <1>2, <1>4, <2>4, ReachedFacts
    <2>. QED  BY <2>5
  <1>6. \A r \in F : r[2] \in T
    BY <1>1
  <1>7. B!Reached(T, F, y) \subseteq B!Reached(T, F, x)
    BY <1>2, <1>3, <1>6, ReachedOnwards
  <1>8. B!Reached(T, F, x) \subseteq B!Reached(T, F, y)
    BY <1>4, <1>5, <1>6, ReachedOnwards
  <1>. QED  BY <1>2, <1>4, <1>5, <1>7, <1>8 DEF T

\* Components are disjoint, and related tasks are in the same one.
LEMMA ComponentsApart ==
    ASSUME NEW E \in SUBSET (B!Tasks \X B!Tasks)
    PROVE  /\ \A c \in B!Components(E) : c \subseteq B!Tasks /\ c # {}
           /\ \A c, d \in B!Components(E) : c \cap d # {} => c = d
           /\ \A c \in B!Components(E), r \in E : r[1] \in c <=> r[2] \in c
           /\ \A t \in B!Tasks : B!Linked(E, t) \in B!Components(E) /\ t \in B!Linked(E, t)
           /\ \A c \in B!Components(E) : \A t \in c : c = B!Linked(E, t)
  <1>1. \A t \in B!Tasks : B!Linked(E, t) \in B!Components(E) /\ t \in B!Linked(E, t)
    BY ReachedFacts DEF B!Linked, B!Components
  <1>2. ASSUME NEW c \in B!Components(E) PROVE c \subseteq B!Tasks /\ c # {}
    BY <1>1, ReachedFacts DEF B!Linked, B!Components
  <1>3. ASSUME NEW c \in B!Components(E), NEW t \in c PROVE c = B!Linked(E, t)
    <2>1. PICK x \in B!Tasks : c = B!Linked(E, x)
      BY DEF B!Components
    <2>. QED  BY <2>1, LinkedBack
  <1>4. ASSUME NEW c \in B!Components(E), NEW r \in E PROVE r[1] \in c <=> r[2] \in c
    <2>1. PICK x \in B!Tasks : c = B!Reached(B!Tasks, B!Both(E), x)
      BY DEF B!Components, B!Linked
    <2>2. r[1] \in B!Tasks /\ r[2] \in B!Tasks
      OBVIOUS
    <2>. DEFINE b == <<r[2], r[1]>>
    <2>3. r \in B!Both(E) /\ b \in B!Both(E) /\ b[1] = r[2] /\ b[2] = r[1]
      BY DEF B!Both
    <2>. HIDE DEF b
    <2>. QED  BY <2>1, <2>2, <2>3, ReachedFacts
  <1>5. ASSUME NEW c \in B!Components(E), NEW d \in B!Components(E), c \cap d # {} PROVE c = d
    BY <1>3, <1>5
  <1>. QED  BY <1>1, <1>2, <1>3, <1>4, <1>5

\* A component of more relations contains those of fewer.
LEMMA ComponentsNest ==
    ASSUME NEW E \in SUBSET (B!Tasks \X B!Tasks), NEW F \in SUBSET E,
           NEW u \in B!Components(F), NEW t \in u
    PROVE  u \subseteq B!Linked(E, t)
  <1>1. F \in SUBSET (B!Tasks \X B!Tasks)
    OBVIOUS
  <1>2. t \in B!Tasks /\ u = B!Linked(F, t)
    BY <1>1, ComponentsApart
  <1>3. \A r \in B!Both(F) : r[1] \in B!Linked(E, t) => r[2] \in B!Linked(E, t)
    <2>1. \A r \in E : r[1] \in B!Linked(E, t) <=> r[2] \in B!Linked(E, t)
      BY <1>2, ComponentsApart
    <2>. QED  BY <2>1 DEF B!Both
  <1>4. B!Linked(E, t) \in SUBSET B!Tasks /\ t \in B!Linked(E, t)
    BY <1>2, ComponentsApart
  <1>5. B!Reached(B!Tasks, B!Both(F), t) \subseteq B!Linked(E, t)
    BY <1>2, <1>3, <1>4, ReachedFacts
  <1>. QED  BY <1>2, <1>5 DEF B!Linked

-----------------------------------------------------------------------------
(* The relations of a graph. *)

LEMMA RelationsAreTasks ==
    ASSUME graph \in Graphs
    PROVE  /\ B!Soft \in SUBSET (B!Tasks \X B!Tasks) /\ B!Hard \in SUBSET B!Soft
           /\ \A r \in B!Soft : B!Joinable(r[1]) /\ B!Joinable(r[2])
  <1>1. \A e \in graph.edges : e.src \in B!Tasks /\ e.dst \in B!Tasks
    BY PlanningAssumption DEF B!GraphAssumption
  <1>2. ASSUME NEW kinds, NEW r \in B!Related(kinds)
        PROVE  r \in B!Tasks \X B!Tasks /\ B!Joinable(r[1]) /\ B!Joinable(r[2])
    BY <1>1 DEF B!Related
  <1>3. B!Hard \subseteq B!Related({"peer"}) \cup B!Related({"ancestry"})
    BY DEF B!Hard
  <1>. QED  BY <1>2, <1>3 DEF B!Soft

\* Of several tasks, each may share a batch.
Alike(S) == \A t1, t2 \in S : t1 # t2 => B!Joinable(t1)

LEMMA SoftAreAlike == ASSUME graph \in Graphs, NEW c \in B!Components(B!Soft) PROVE Alike(c)
  <1>1. B!Soft \in SUBSET (B!Tasks \X B!Tasks)
    BY RelationsAreTasks
  <1>2. SUFFICES ASSUME NEW t1 \in c, NEW t2 \in c, t1 # t2, ~B!Joinable(t1) PROVE FALSE
    BY DEF Alike
  <1>3. t1 \in B!Tasks /\ t2 \in B!Tasks /\ c = B!Linked(B!Soft, t1)
    BY <1>1, ComponentsApart
  <1>4. \A r \in B!Both(B!Soft) : r[1] # t1
    BY <1>2, RelationsAreTasks DEF B!Both
  <1>5. B!Reached(B!Tasks, B!Both(B!Soft), t1) \subseteq {t1}
    <2>1. {t1} \in SUBSET B!Tasks /\ t1 \in {t1}
      BY <1>3
    <2>2. \A r \in B!Both(B!Soft) : r[1] \in {t1} => r[2] \in {t1}
      BY <1>4
    <2>. QED  BY <1>3, <2>1, <2>2, ReachedFacts
  <1>. QED  BY <1>2, <1>3, <1>5 DEF B!Linked

-----------------------------------------------------------------------------
(* Batches are packed. *)

\* The units of a component without an oversized one stay together.
KeptIn(u, bs) == \E g \in bs : u \subseteq g.tasks
Separate(bs) ==
  /\ \A g \in bs : g.tasks \subseteq B!Tasks /\ g.tasks # {}
  /\ \A g, h \in bs : g.tasks \cap h.tasks # {} => g = h
Packable(u) == \A c \in B!Components(B!Soft) : u \subseteq c => B!Oversized(c) = {}

GraphInv ==
  /\ bpc \in {"cluster", "schedule", "done"} /\ graph \in Graphs
  /\ hard = [rel |-> B!Hard, units |-> B!Components(B!Hard)]
PackInv ==
  /\ todo \subseteq B!Components(B!Soft) /\ units \subseteq hard.units
  /\ filling \subseteq assigned /\ UNION units \subseteq assigned /\ assigned \subseteq B!Tasks
  /\ \A g \in batches : g.tasks \subseteq assigned /\ Alike(g.tasks)
  /\ \A c \in todo : c \cap assigned = {}
  /\ Separate(batches)
  /\ \A g \in batches : g.tasks \cap (filling \cup UNION units) = {}
  /\ \A u \in units : u \cap filling = {}
  /\ Alike(filling \cup UNION units)
  /\ \A u \in hard.units : Packable(u) => (\E c \in todo : u \subseteq c) \/ u \in units \/ u \subseteq filling \/ KeptIn(u, batches)
PackedInv ==
  /\ Separate(batches)
  /\ \A u \in hard.units : Packable(u) => KeptIn(u, batches)
BatchInv == GraphInv /\ IF bpc = "cluster" THEN PackInv ELSE PackedInv

LEMMA HardUnits ==
    ASSUME GraphInv
    PROVE  /\ \A u \in hard.units : u \subseteq B!Tasks /\ u # {} /\ \E c \in B!Components(B!Soft) : u \subseteq c
           /\ \A u, v \in hard.units : u \cap v # {} => u = v
  <1>1. hard.units = B!Components(B!Hard) /\ graph \in Graphs
    BY DEF GraphInv
  <1>2. B!Soft \in SUBSET (B!Tasks \X B!Tasks) /\ B!Hard \in SUBSET B!Soft
    BY <1>1, RelationsAreTasks
  <1>3. /\ \A u \in hard.units : u \subseteq B!Tasks /\ u # {}
        /\ \A u, v \in hard.units : u \cap v # {} => u = v
    <2>1. B!Hard \in SUBSET (B!Tasks \X B!Tasks)
      BY <1>2
    <2>. QED  BY <1>1, <2>1, ComponentsApart
  <1>4. ASSUME NEW u \in hard.units PROVE \E c \in B!Components(B!Soft) : u \subseteq c
    <2>1. PICK t \in u : t \in B!Tasks
      BY <1>3
    <2>2. u \subseteq B!Linked(B!Soft, t)
      BY <1>1, <1>2, ComponentsNest
    <2>. QED  BY <1>2, <2>1, <2>2, ComponentsApart
  <1>. QED  BY <1>3, <1>4

LEMMA BatchAtInit == ASSUME PortfolioInit PROVE BatchInv
  <1>1. B!Init
    BY DEF PortfolioInit
  <1>2. GraphInv /\ bpc = "cluster"
    BY <1>1 DEF B!Init, GraphInv
  <1>3. PackInv
    <2>1. todo = B!Components(B!Soft) /\ units = {} /\ filling = {} /\ batches = {} /\ assigned = {}
      BY <1>1 DEF B!Init
    <2>2. \A u \in hard.units : \E c \in todo : u \subseteq c
      BY <1>2, <2>1, HardUnits
    <2>. QED  BY <2>1, <2>2 DEF PackInv, Separate, Alike
  <1>. QED  BY <1>2, <1>3 DEF BatchInv

LEMMA TodoApart ==
    ASSUME GraphInv, PackInv, NEW c \in todo, NEW d \in todo, c # d
    PROVE  c \cap d = {} /\ c \subseteq B!Tasks
  BY RelationsAreTasks, ComponentsApart DEF GraphInv, PackInv

LEMMA GraphStays ==
    ASSUME GraphInv, UNCHANGED <<graph, hard>>, bpc' \in {"cluster", "schedule", "done"}
    PROVE  /\ GraphInv' /\ B!Soft' = B!Soft /\ B!Hard' = B!Hard
           /\ B!Components(B!Soft)' = B!Components(B!Soft) /\ B!Tasks' = B!Tasks
           /\ \A S : Alike(S)' <=> Alike(S)
           /\ \A u : Packable(u)' <=> Packable(u)
  <1>1. B!Hard' = B!Hard /\ B!Soft' = B!Soft /\ B!Tasks' = B!Tasks /\ \A S : Alike(S)' <=> Alike(S)
    BY DEF B!Soft, B!Hard, B!Related, B!Joinable, Alike, B!Tasks
  <1>2. B!Components(B!Soft)' = B!Components(B!Soft) /\ B!Components(B!Hard)' = B!Components(B!Hard)
    BY <1>1 DEF B!Components, B!Linked, B!Tasks
  <1>3. \A u : Packable(u)' <=> Packable(u)
    BY <1>2 DEF Packable, B!Oversized, B!UnitsIn
  <1>. QED  BY <1>1, <1>2, <1>3 DEF GraphInv

LEMMA OverflowKeeps == ASSUME GraphInv, PackInv, B!Overflow PROVE GraphInv' /\ PackInv'
  <1>1. PICK c \in todo :
          /\ B!Oversized(c) # {}
          /\ batches' = batches \cup {B!Group({t}, FALSE) : t \in UNION B!Oversized(c)}
          /\ assigned' = assigned \cup UNION B!Oversized(c)
          /\ todo' = todo \ {c}
    BY DEF B!Overflow, B!FirstOf
  <1>2. UNCHANGED <<bpc, graph, hard, units, filling>> /\ units = {} /\ filling = {}
    BY DEF B!Overflow, B!Between
  <1>3. UNION B!Oversized(c) \subseteq c /\ c \subseteq B!Tasks /\ c \cap assigned = {} /\ c \in B!Components(B!Soft)
    <2>1. c \in B!Components(B!Soft) /\ c \cap assigned = {}
      BY DEF PackInv
    <2>2. c \subseteq B!Tasks
      BY <2>1, RelationsAreTasks, ComponentsApart DEF GraphInv
    <2>. QED  BY <2>1, <2>2 DEF B!Oversized, B!UnitsIn
  <1>4. /\ GraphInv' /\ B!Components(B!Soft)' = B!Components(B!Soft) /\ B!Tasks' = B!Tasks
        /\ \A S : Alike(S)' <=> Alike(S)
        /\ \A u : Packable(u)' <=> Packable(u)
    BY <1>2, GraphStays DEF GraphInv
  <1>. DEFINE X == UNION B!Oversized(c)
              Y == {B!Group({t}, FALSE) : t \in X}
  <1>7. \A g \in Y : \E t \in X : g.tasks = {t} /\ g = B!Group({t}, FALSE)
    BY DEF B!Group
  <1>8. X \subseteq c /\ batches' = batches \cup Y /\ assigned' = assigned \cup X
    BY <1>1, <1>3
  <1>9. Separate(batches)'
    <2>. HIDE DEF X, Y
    <2>1. \A g \in batches : g.tasks \cap X = {}
      BY <1>3, <1>8 DEF PackInv
    <2>2. ASSUME NEW g \in Y
          PROVE  g.tasks \subseteq X /\ g.tasks # {} /\ \A h \in Y : g.tasks \cap h.tasks # {} => g = h
      <3>1. PICK t1 \in X : g.tasks = {t1} /\ g = B!Group({t1}, FALSE)
        BY <1>7
      <3>2. ASSUME NEW h \in Y, g.tasks \cap h.tasks # {} PROVE g = h
        <4>1. PICK t2 \in X : h.tasks = {t2} /\ h = B!Group({t2}, FALSE)
          BY <1>7
        <4>2. t1 = t2
          BY <3>1, <3>2, <4>1
        <4>. QED  BY <3>1, <4>1, <4>2
      <3>. QED  BY <3>1, <3>2
    <2>3. Separate(batches)
      BY DEF PackInv
    <2>. QED  BY <1>3, <1>8, <2>1, <2>2, <2>3 DEF Separate
  <1>10. ASSUME NEW u \in hard.units, Packable(u)
         PROVE  (\E d \in todo' : u \subseteq d) \/ KeptIn(u, batches')
    <2>1. (\E d \in todo : u \subseteq d) \/ u \subseteq {} \/ KeptIn(u, batches)
      BY <1>2, <1>10 DEF PackInv
    <2>2. ~(u \subseteq c) /\ u # {}
      BY <1>1, <1>3, <1>10, HardUnits DEF Packable
    <2>. QED  BY <1>1, <1>8, <2>1, <2>2 DEF KeptIn
  <1>11. \A g \in batches' : g.tasks \subseteq assigned' /\ Alike(g.tasks)
    <2>. HIDE DEF X, Y
    <2>1. \A g \in Y : g.tasks \subseteq X /\ Alike(g.tasks)
      BY <1>7 DEF Alike
    <2>. QED  BY <1>8, <2>1 DEF PackInv
  <1>12. \A d \in todo' : d \cap assigned' = {}
    <2>1. \A d \in todo' : d \in todo /\ d # c /\ d \cap assigned = {}
      BY <1>1 DEF PackInv
    <2>2. \A d \in todo' : d \cap c = {}
      BY <2>1, TodoApart
    <2>. QED  BY <1>8, <2>1, <2>2
  <1>13. todo' \subseteq B!Components(B!Soft) /\ assigned' \subseteq B!Tasks
    BY <1>1, <1>3, <1>8 DEF PackInv
  <1>14. PackInv'
    <2>. HIDE DEF X, Y
    <2>1. Alike(filling \cup UNION units)' /\ filling' = {} /\ units' = {} /\ hard' = hard
      BY <1>2, <1>4 DEF PackInv
    <2>. QED  BY <1>4, <1>9, <1>10, <1>11, <1>12, <1>13, <2>1 DEF PackInv
  <1>. QED  BY <1>4, <1>14

LEMMA PartitionKeeps == ASSUME GraphInv, PackInv, B!Partition PROVE GraphInv' /\ PackInv'
  <1>1. PICK c \in todo : /\ units' = B!UnitsIn(c)
                          /\ assigned' = assigned \cup c
                          /\ todo' = todo \ {c}
    BY DEF B!Partition, B!FirstOf
  <1>2. UNCHANGED <<bpc, graph, hard, filling, batches>> /\ units = {} /\ filling = {}
    BY DEF B!Partition, B!Between
  <1>3. c \subseteq B!Tasks /\ c \cap assigned = {} /\ c \in B!Components(B!Soft) /\ Alike(c)
    <2>1. c \in B!Components(B!Soft) /\ c \cap assigned = {}
      BY DEF PackInv
    <2>2. c \subseteq B!Tasks
      BY <2>1, RelationsAreTasks, ComponentsApart DEF GraphInv
    <2>. QED  BY <2>1, <2>2, SoftAreAlike DEF GraphInv
  <1>4. /\ GraphInv' /\ B!Components(B!Soft)' = B!Components(B!Soft) /\ B!Tasks' = B!Tasks
        /\ \A S : Alike(S)' <=> Alike(S)
        /\ \A u : Packable(u)' <=> Packable(u)
    BY <1>2, GraphStays DEF GraphInv
  <1>5. units' \subseteq hard.units /\ UNION units' \subseteq c /\ \A u \in hard.units : u \subseteq c => u \in units'
    BY <1>1 DEF B!UnitsIn
  <1>6. ASSUME NEW u \in hard.units, Packable(u)
        PROVE  (\E d \in todo' : u \subseteq d) \/ u \in units' \/ KeptIn(u, batches')
    <2>1. (\E d \in todo : u \subseteq d) \/ u \subseteq {} \/ KeptIn(u, batches)
      BY <1>2, <1>6 DEF PackInv
    <2>2. u # {}
      BY HardUnits
    <2>. QED  BY <1>1, <1>2, <1>5, <2>1, <2>2
  <1>7. \A d \in todo' : d \cap assigned' = {}
    <2>1. \A d \in todo' : d \in todo /\ d # c /\ d \cap assigned = {}
      BY <1>1 DEF PackInv
    <2>2. \A d \in todo' : d \cap c = {}
      BY <2>1, TodoApart
    <2>. QED  BY <1>1, <2>1, <2>2
  <1>8. Alike(filling' \cup UNION units')
    BY <1>2, <1>3, <1>5 DEF Alike
  <1>9. \A g \in batches' : g.tasks \cap (filling' \cup UNION units') = {}
    <2>1. \A g \in batches : g.tasks \subseteq assigned
      BY DEF PackInv
    <2>. QED  BY <1>2, <1>3, <1>5, <2>1
  <1>10. Separate(batches)'
    BY <1>2, <1>4 DEF PackInv, Separate
  <1>11. /\ todo' \subseteq B!Components(B!Soft) /\ filling' \subseteq assigned' /\ UNION units' \subseteq assigned'
         /\ assigned' \subseteq B!Tasks /\ \A g \in batches' : g.tasks \subseteq assigned' /\ Alike(g.tasks)
    BY <1>1, <1>2, <1>3, <1>5 DEF PackInv
  <1>12. PackInv'
    BY <1>2, <1>4, <1>5, <1>6, <1>7, <1>8, <1>9, <1>10, <1>11 DEF PackInv
  <1>. QED  BY <1>4, <1>12

\* A batch that is closed holds what was filled in.
LEMMA BatchClosed ==
    ASSUME GraphInv, PackInv, filling # {}, NEW go
    PROVE  /\ Separate(batches \cup {B!Group(filling, go)})
           /\ \A u : u \subseteq filling => KeptIn(u, batches \cup {B!Group(filling, go)})
           /\ B!Group(filling, go).tasks = filling
  <1>. DEFINE b == B!Group(filling, go)
  <1>1. b.tasks = filling
    BY DEF B!Group
  <1>. HIDE DEF b
  <1>2. \A g \in batches : g.tasks \cap b.tasks = {}
    BY <1>1 DEF PackInv
  <1>3. Separate(batches) /\ filling \subseteq B!Tasks
    BY DEF PackInv
  <1>4. Separate(batches \cup {b})
    BY <1>1, <1>2, <1>3 DEF Separate
  <1>5. \A u : u \subseteq filling => KeptIn(u, batches \cup {b})
    BY <1>1 DEF KeptIn
  <1>. QED  BY <1>1, <1>4, <1>5 DEF b

LEMMA TakeKeeps == ASSUME GraphInv, PackInv, B!Take PROVE GraphInv' /\ PackInv'
  <1>1. PICK u \in units : B!Pack(u) /\ units' = units \ {u}
    BY DEF B!Take
  <1>2. UNCHANGED <<bpc, graph, hard, todo, assigned>>
    BY DEF B!Take
  <1>3. /\ GraphInv' /\ B!Components(B!Soft)' = B!Components(B!Soft) /\ B!Tasks' = B!Tasks
        /\ \A S : Alike(S)' <=> Alike(S)
        /\ \A v1 : Packable(v1)' <=> Packable(v1)
    BY <1>2, GraphStays DEF GraphInv
  <1>4. /\ \A v1 \in units' : v1 \cap u = {} /\ v1 \in units /\ v1 \in hard.units
        /\ u \in hard.units /\ u \subseteq assigned /\ u \cap filling = {}
        /\ UNION units' \subseteq UNION units /\ u \subseteq UNION units
    BY <1>1, HardUnits DEF PackInv
  <1>5. CASE filling' = filling \cup u /\ UNCHANGED batches
    <2>1. filling' \cup UNION units' = filling \cup UNION units
      BY <1>1, <1>5
    <2>2. ASSUME NEW v1 \in hard.units, Packable(v1)
          PROVE  (\E c \in todo : v1 \subseteq c) \/ v1 \in units' \/ v1 \subseteq filling' \/ KeptIn(v1, batches)
      BY <1>1, <1>5, <2>2 DEF PackInv
    <2>3. Separate(batches)'
      BY <1>3, <1>5 DEF PackInv, Separate
    <2>4. /\ filling' \subseteq assigned /\ UNION units' \subseteq assigned /\ units' \subseteq hard.units
          /\ \A v1 \in units' : v1 \cap filling' = {}
      BY <1>4, <1>5 DEF PackInv
    <2>5. /\ \A g \in batches' : g.tasks \cap (filling' \cup UNION units') = {}
          /\ Alike(filling' \cup UNION units')
      BY <1>5, <2>1 DEF PackInv
    <2>6. PackInv'
      BY <1>2, <1>3, <1>5, <2>2, <2>3, <2>4, <2>5 DEF PackInv
    <2>. QED  BY <1>3, <2>6
  <1>6. CASE filling # {} /\ filling' = u /\ batches' = batches \cup {B!Group(filling, TRUE)}
    <2>1. /\ Separate(batches') /\ \A v1 : v1 \subseteq filling => KeptIn(v1, batches')
          /\ B!Group(filling, TRUE).tasks = filling
      BY <1>6, BatchClosed
    <2>2. ASSUME NEW v1 \in hard.units, Packable(v1)
          PROVE  (\E c \in todo : v1 \subseteq c) \/ v1 \in units' \/ v1 \subseteq filling' \/ KeptIn(v1, batches')
      <3>1. KeptIn(v1, batches) => KeptIn(v1, batches')
        BY <1>6 DEF KeptIn
      <3>. QED  BY <1>1, <1>6, <2>1, <2>2, <3>1 DEF PackInv
    <2>3. Separate(batches)'
      BY <1>3, <2>1 DEF Separate
    <2>4. /\ filling' \subseteq assigned /\ UNION units' \subseteq assigned /\ units' \subseteq hard.units
          /\ \A v1 \in units' : v1 \cap filling' = {}
      BY <1>4, <1>6 DEF PackInv
    <2>5. filling' \cup UNION units' \subseteq UNION units
      BY <1>4, <1>6
    <2>6. filling \cap UNION units = {}
      BY DEF PackInv
    <2>7. /\ \A g \in batches' : g.tasks \cap (filling' \cup UNION units') = {}
          /\ Alike(filling' \cup UNION units')
      BY <1>6, <2>1, <2>5, <2>6 DEF PackInv, Alike
    <2>8. \A g \in batches' : g.tasks \subseteq assigned /\ Alike(g.tasks)
      <3>1. filling \subseteq assigned /\ Alike(filling)
        BY DEF PackInv, Alike
      <3>. QED  BY <1>6, <2>1, <3>1 DEF PackInv
    <2>9. PackInv'
      BY <1>2, <1>3, <2>2, <2>3, <2>4, <2>7, <2>8 DEF PackInv
    <2>. QED  BY <1>3, <2>9
  <1>7. \/ filling' = filling \cup u /\ UNCHANGED batches
        \/ filling # {} /\ filling' = u /\ batches' = batches \cup {B!Group(filling, TRUE)}
    BY <1>1 DEF B!Pack, B!Fits
  <1>. QED  BY <1>5, <1>6, <1>7

LEMMA CloseKeeps == ASSUME GraphInv, PackInv, B!Close PROVE GraphInv' /\ PackInv'
  <1>1. PICK go : batches' = batches \cup {B!Group(filling, go)}
    BY DEF B!Close
  <1>2. UNCHANGED <<bpc, graph, hard, todo, units, assigned>> /\ units = {} /\ filling # {} /\ filling' = {}
    BY DEF B!Close
  <1>3. /\ GraphInv' /\ B!Components(B!Soft)' = B!Components(B!Soft) /\ B!Tasks' = B!Tasks
        /\ \A S : Alike(S)' <=> Alike(S)
        /\ \A u : Packable(u)' <=> Packable(u)
    BY <1>2, GraphStays DEF GraphInv
  <1>4. /\ Separate(batches') /\ \A u : u \subseteq filling => KeptIn(u, batches')
        /\ B!Group(filling, go).tasks = filling
    BY <1>1, <1>2, BatchClosed
  <1>5. ASSUME NEW u \in hard.units, Packable(u)
        PROVE  (\E c \in todo : u \subseteq c) \/ KeptIn(u, batches')
    <2>1. KeptIn(u, batches) => KeptIn(u, batches')
      BY <1>1 DEF KeptIn
    <2>. QED  BY <1>2, <1>4, <1>5, <2>1 DEF PackInv
  <1>6. \A g \in batches' : g.tasks \subseteq assigned /\ Alike(g.tasks)
    <2>1. filling \subseteq assigned /\ Alike(filling)
      BY DEF PackInv, Alike
    <2>. QED  BY <1>1, <1>4, <2>1 DEF PackInv
  <1>7. Separate(batches)'
    BY <1>3, <1>4 DEF Separate
  <1>8. PackInv'
    BY <1>2, <1>3, <1>5, <1>6, <1>7 DEF PackInv, Alike
  <1>. QED  BY <1>3, <1>8

\* When everything is packed, what no component claimed gets a batch of its own, and no
\* batch holds a task that may not share one.
LEMMA SingletonsKeep == ASSUME GraphInv, PackInv, B!Singletons PROVE GraphInv' /\ PackedInv'
  <1>1. UNCHANGED <<graph, hard>> /\ bpc' = "schedule" /\ batches' = B!Batches
    BY DEF B!Singletons
  <1>2. todo = {} /\ units = {} /\ filling = {}
    BY DEF B!Singletons, B!Between
  <1>3. /\ GraphInv' /\ B!Components(B!Soft)' = B!Components(B!Soft) /\ B!Tasks' = B!Tasks
        /\ \A S : Alike(S)' <=> Alike(S)
        /\ \A u : Packable(u)' <=> Packable(u)
    BY <1>1, GraphStays DEF GraphInv
  <1>. DEFINE all == batches \cup B!Rest
  <1>4. \A g \in B!Rest : \E t \in B!Tasks \ assigned : g = B!Group({t}, B!DispatchableTask(t)) /\ g.tasks = {t}
    BY DEF B!Rest, B!Group
  <1>5. Separate(all) /\ \A g \in all : Alike(g.tasks)
    <2>1. ASSUME NEW g \in B!Rest, NEW h \in B!Rest, g.tasks \cap h.tasks # {} PROVE g = h
      <3>1. PICK t1 \in B!Tasks \ assigned : g = B!Group({t1}, B!DispatchableTask(t1)) /\ g.tasks = {t1}
        BY <1>4
      <3>2. PICK t2 \in B!Tasks \ assigned : h = B!Group({t2}, B!DispatchableTask(t2)) /\ h.tasks = {t2}
        BY <1>4
      <3>3. t1 = t2
        BY <2>1, <3>1, <3>2
      <3>. QED  BY <3>1, <3>2, <3>3
    <2>2. \A g \in B!Rest : g.tasks \subseteq B!Tasks \ assigned /\ g.tasks # {} /\ Alike(g.tasks)
      BY <1>4 DEF Alike
    <2>3. Separate(batches) /\ \A g \in batches : g.tasks \subseteq assigned /\ Alike(g.tasks)
      BY DEF PackInv
    <2>. QED  BY <2>1, <2>2, <2>3 DEF Separate
  <1>6. ASSUME NEW g \in all PROVE B!Stray(g) = {}
    <2>1. SUFFICES ASSUME NEW t \in g.tasks, B!Cardinality(g.tasks) > 1, ~B!Joinable(t) PROVE FALSE
      BY DEF B!Stray
    <2>2. CASE g.tasks = {t}
      <3>1. B!Cardinality({t}) = Cardinality({t})
        BY DEF B!Cardinality, Cardinality
      <3>. QED  BY <2>1, <2>2, <3>1, FS_Singleton
    <2>3. CASE g.tasks # {t}
      BY <1>5, <2>1, <2>3 DEF Alike
    <2>. QED  BY <2>2, <2>3
  <1>7. batches' = {B!Group(g.tasks, g.go) : g \in all}
    <2>1. \A g \in all : g.tasks \ B!Stray(g) = g.tasks /\ g.tasks # {}
      BY <1>5, <1>6 DEF Separate
    <2>2. UNION {B!Stray(g) : g \in all} = {}
      BY <1>6
    <2>3. {x \in all : x.tasks \ B!Stray(x) # {}} = all
      BY <2>1
    <2>4. {B!Group(g.tasks \ B!Stray(g), g.go) : g \in all} = {B!Group(g.tasks, g.go) : g \in all}
      BY <2>1
    <2>5. batches' = {B!Group(g.tasks \ B!Stray(g), g.go) : g \in {x \in all : x.tasks \ B!Stray(x) # {}}}
                     \cup {B!Group({t}, B!DispatchableTask(t)) : t \in UNION {B!Stray(g) : g \in all}}
      BY <1>1 DEF B!Batches
    <2>. HIDE DEF all
    <2>. QED  BY <2>2, <2>3, <2>4, <2>5
  <1>. HIDE DEF all
  <1>8. \A h \in batches' : \E g \in all : h = B!Group(g.tasks, g.go) /\ h.tasks = g.tasks
    BY <1>7 DEF B!Group
  <1>9. Separate(batches')
    <2>1. ASSUME NEW h1 \in batches', NEW h2 \in batches', h1.tasks \cap h2.tasks # {} PROVE h1 = h2
      <3>1. PICK g1 \in all : h1 = B!Group(g1.tasks, g1.go) /\ h1.tasks = g1.tasks
        BY <1>8
      <3>2. PICK g2 \in all : h2 = B!Group(g2.tasks, g2.go) /\ h2.tasks = g2.tasks
        BY <1>8
      <3>3. g1 = g2
        BY <1>5, <2>1, <3>1, <3>2 DEF Separate
      <3>. QED  BY <3>1, <3>2, <3>3
    <2>. QED  BY <1>5, <1>8, <2>1 DEF Separate
  <1>10. ASSUME NEW u \in hard.units, Packable(u) PROVE KeptIn(u, batches')
    <2>1. PICK g \in batches : u \subseteq g.tasks
      <3>1. u # {}
        BY HardUnits
      <3>2. u \subseteq {} \/ KeptIn(u, batches)
        BY <1>2, <1>10 DEF PackInv
      <3>. QED  BY <3>1, <3>2 DEF KeptIn
    <2>2. B!Group(g.tasks, g.go) \in batches' /\ B!Group(g.tasks, g.go).tasks = g.tasks
      BY <1>7 DEF all, B!Group
    <2>. QED  BY <2>1, <2>2 DEF KeptIn
  <1>11. PackedInv'
    BY <1>1, <1>3, <1>9, <1>10 DEF PackedInv, Separate
  <1>. QED  BY <1>3, <1>11

-----------------------------------------------------------------------------
(* Phases are dealt out. *)

CycleAt(V, E, x) == {y \in B!Reached(V, E, x) : x \in B!Reached(V, E, y)}

\* Strongly connected parts are disjoint, and each is what is connected with any of its members.
LEMMA CyclesApart ==
    ASSUME NEW V, NEW E \in SUBSET (V \X V), NEW c \in B!CyclesOf(V, E), NEW x \in c
    PROVE  c \subseteq V /\ c = CycleAt(V, E, x)
  <1>1. PICK w1 \in V : c = {y \in B!Reached(V, E, w1) : w1 \in B!Reached(V, E, y)}
    BY DEF B!CyclesOf
  <1>2. \A r \in E : r[2] \in V
    OBVIOUS
  <1>3. c \subseteq V
    BY <1>1, ReachedFacts
  <1>4. x \in V /\ x \in B!Reached(V, E, w1) /\ w1 \in B!Reached(V, E, x)
    BY <1>1, <1>3
  <1>5. B!Reached(V, E, x) = B!Reached(V, E, w1)
    <2>1. B!Reached(V, E, x) \subseteq B!Reached(V, E, w1)
      BY <1>2, <1>4, ReachedOnwards
    <2>2. B!Reached(V, E, w1) \subseteq B!Reached(V, E, x)
      BY <1>2, <1>4, ReachedOnwards
    <2>. QED  BY <2>1, <2>2
  <1>6. ASSUME NEW y \in B!Reached(V, E, x) PROVE w1 \in B!Reached(V, E, y) <=> x \in B!Reached(V, E, y)
    <2>1. y \in V
      BY <1>4, ReachedFacts
    <2>2. w1 \in B!Reached(V, E, y) => B!Reached(V, E, w1) \subseteq B!Reached(V, E, y)
      BY <1>2, <2>1, ReachedOnwards
    <2>3. x \in B!Reached(V, E, y) => B!Reached(V, E, x) \subseteq B!Reached(V, E, y)
      BY <1>2, <2>1, ReachedOnwards
    <2>. QED  BY <1>4, <2>2, <2>3
  <1>. QED  BY <1>1, <1>3, <1>5, <1>6 DEF CycleAt

\* A phase holds whole cycles, later ones hold what the earlier ones left, and the upstream
\* of each has been dealt out before it.
Earlier(k) == UNION {phases[j] : j \in 1..(k - 1)}
PhaseInv ==
  /\ dag.edges \subseteq batches \X batches /\ dag.cycles = B!CyclesOf(batches, dag.edges)
  /\ phases \in Seq(SUBSET batches)
  /\ \A k \in 1..Len(phases), c \in dag.cycles : c \cap phases[k] # {} => c \subseteq phases[k] /\ B!Upstream(c) \subseteq Earlier(k)
  /\ \A j, k \in 1..Len(phases) : phases[j] \cap phases[k] # {} => j = k
  /\ bpc = "done" /\ graph.valid /\ Budget > 0 => B!Emitted = batches
PlanInv == IF bpc = "cluster" THEN phases = <<>> ELSE PhaseInv

LEMMA PhasesSoFar ==
    ASSUME NEW n \in Nat, Len(phases) = n, phases \in Seq(SUBSET batches)
    PROVE  B!Emitted = UNION {phases[j] : j \in 1..n} /\ B!Emitted \subseteq batches
  BY DEF B!Emitted, B!Range

LEMMA CycleIs ==
    ASSUME PhaseInv, NEW g \in batches
    PROVE  /\ B!CycleOf(g) \in dag.cycles /\ g \in B!CycleOf(g)
           /\ B!CycleOf(g) = CycleAt(batches, dag.edges, g) /\ B!CycleOf(g) \subseteq batches
           /\ \A c \in dag.cycles : g \in c => c = B!CycleOf(g)
  <1>1. CycleAt(batches, dag.edges, g) \in dag.cycles /\ g \in CycleAt(batches, dag.edges, g)
    BY ReachedFacts DEF PhaseInv, CycleAt, B!CyclesOf
  <1>2. \A c \in dag.cycles : g \in c => c \subseteq batches /\ c = CycleAt(batches, dag.edges, g)
    BY CyclesApart DEF PhaseInv
  <1>. QED  BY <1>1, <1>2 DEF B!CycleOf

LEMMA UpstreamIsFirst == ASSUME PlanInv, bpc \in {"cluster", "schedule", "done"} PROVE B!UpstreamFirst
  <1>1. CASE bpc = "cluster"
    BY <1>1 DEF PlanInv, B!UpstreamFirst
  <1>2. CASE bpc # "cluster"
    <2>1. PhaseInv
      BY <1>2 DEF PlanInv
    <2>2. ASSUME NEW k \in 1..Len(phases), NEW g \in batches, g \in phases[k]
          PROVE  B!Upstream(B!CycleOf(g)) \subseteq UNION {phases[j] : j \in 1..(k - 1)}
      <3>1. B!CycleOf(g) \in dag.cycles /\ g \in B!CycleOf(g)
        BY <2>1, CycleIs
      <3>. QED  BY <2>1, <2>2, <3>1 DEF PhaseInv, Earlier
    <2>. QED  BY <2>1, <2>2 DEF B!UpstreamFirst, PhaseInv
  <1>. QED  BY <1>1, <1>2

LEMMA BatchesFinite == ASSUME Separate(batches) PROVE IsFiniteSet(batches)
  <1>. DEFINE D == {t \in B!Tasks : \E g \in batches : t \in g.tasks}
              f == [t \in D |-> CHOOSE g \in batches : t \in g.tasks]
  <1>1. M \in Int /\ 1 \in Int /\ B!Tasks = 1..M
    BY PlanningAssumption DEF B!GraphAssumption, B!Tasks
  <1>2. IsFiniteSet(D)
    BY <1>1, FS_Interval, FS_Subset
  <1>3. \A t \in D : f[t] \in batches /\ t \in f[t].tasks
    OBVIOUS
  <1>4. ASSUME NEW g \in batches PROVE \E t \in D : f[t] = g
    <2>1. PICK t \in g.tasks : t \in D
      BY DEF Separate
    <2>2. f[t] = g
      BY <1>3, <2>1 DEF Separate
    <2>. QED  BY <2>1, <2>2
  <1>5. f \in Surjection(D, batches)
    <2>1. f \in [D -> batches]
      BY <1>3
    <2>. HIDE DEF f, D
    <2>. QED  BY <1>4, <2>1 DEF Surjection
  <1>. HIDE DEF f, D
  <1>. QED  BY <1>2, <1>5, FS_Surjection

\* When nothing is ready, nothing is left: of the batches left one with the fewest batches
\* before it would have another one left upstream of its cycle, with fewer before it.
LEMMA NothingIsLeft ==
    ASSUME PhaseInv, Separate(batches), B!Ready = {}
    PROVE  B!Emitted = batches
  <1>. DEFINE E == dag.edges
              Above(g) == {h \in batches : g \in B!Reached(batches, E, h)}
              X == batches \ B!Emitted
              Y == {n \in Nat : \E g \in X : Cardinality(Above(g)) = n}
  <1>1. Len(phases) \in Nat /\ phases \in Seq(SUBSET batches) /\ E \subseteq batches \X batches
    BY DEF PhaseInv
  <1>2. B!Emitted \subseteq batches
    <2>1. PICK n \in Nat : Len(phases) = n
      BY <1>1
    <2>. QED  BY <1>1, <2>1, PhasesSoFar
  <1>3. SUFFICES ASSUME X # {} PROVE FALSE
    BY <1>2
  <1>4. \A g : IsFiniteSet(Above(g)) /\ Cardinality(Above(g)) \in Nat
    BY BatchesFinite, FS_Subset, FS_CardinalityType
  <1>5. PICK n \in Y : \A m \in Y : n <= m
    <2>1. Y \subseteq Nat /\ Y # {}
      <3>. HIDE DEF Above, X
      <3>. QED  BY <1>3, <1>4
    <2>. HIDE DEF Y
    <2>. QED  BY <2>1, LeastNat
  <1>6. PICK g \in X : Cardinality(Above(g)) = n
    BY <1>5
  <1>7. \A h \in X : n <= Cardinality(Above(h))
    <2>. HIDE DEF Above, X
    <2>. QED  BY <1>4, <1>5
  <1>. HIDE DEF Y
  <1>8. /\ B!CycleOf(g) \in dag.cycles /\ g \in B!CycleOf(g) /\ B!CycleOf(g) \subseteq batches
        /\ B!CycleOf(g) = CycleAt(batches, E, g)
    BY CycleIs
  <1>9. B!CycleOf(g) \in B!Pending
    <2>1. SUFFICES ASSUME NEW h \in B!CycleOf(g), h \in B!Emitted PROVE FALSE
      BY <1>8 DEF B!Pending
    <2>2. PICK k \in 1..Len(phases) : h \in phases[k]
      BY <1>1, <2>1 DEF B!Emitted, B!Range
    <2>3. g \in phases[k]
      BY <1>8, <2>1, <2>2 DEF PhaseInv
    <2>4. g \in B!Emitted
      BY <1>1, <2>3 DEF B!Emitted, B!Range
    <2>. QED  BY <2>4
  <1>10. PICK up \in B!Upstream(B!CycleOf(g)) : up \notin B!Emitted
    BY <1>9 DEF B!Ready
  <1>11. PICK h \in B!CycleOf(g) : <<up, h>> \in E
    BY <1>10 DEF B!Upstream
  <1>12. up \in X /\ up \notin B!CycleOf(g) /\ h \in batches
    BY <1>8, <1>10, <1>11 DEF B!Upstream
  <1>13. \A r \in E : r[2] \in batches
    BY <1>1
  <1>14. g \in B!Reached(batches, E, up)
    <2>. DEFINE b == <<up, h>>
    <2>1. b \in E /\ b[1] = up /\ b[2] = h
      BY <1>11
    <2>. HIDE DEF b, E
    <2>2. h \in B!Reached(batches, E, up)
      BY <1>12, <2>1, ReachedFacts
    <2>3. g \in B!Reached(batches, E, h)
      BY <1>8 DEF CycleAt
    <2>. QED  BY <1>12, <1>13, <2>2, <2>3, ReachedOnwards
  <1>15. Above(up) \subseteq Above(g)
    <2>1. ASSUME NEW d \in batches, up \in B!Reached(batches, E, d) PROVE g \in B!Reached(batches, E, d)
      <3>. HIDE DEF E
      <3>. QED  BY <1>13, <1>14, <2>1, ReachedOnwards
    <2>. QED  BY <2>1
  <1>16. g \in Above(g)
    BY ReachedFacts
  <1>17. g \notin Above(up)
    <2>1. up \in B!Reached(batches, E, g) => up \in CycleAt(batches, E, g)
      BY <1>14 DEF CycleAt
    <2>. QED  BY <1>8, <1>12, <2>1
  <1>18. Cardinality(Above(up)) <= Cardinality(Above(g)) /\ Cardinality(Above(up)) # Cardinality(Above(g))
    <2>1. IsFiniteSet(Above(g)) /\ Above(up) \in SUBSET Above(g) /\ Above(up) # Above(g)
      BY <1>4, <1>15, <1>16, <1>17
    <2>. HIDE DEF Above
    <2>. QED  BY <2>1, FS_Subset
  <1>. HIDE DEF Above, X
  <1>. QED  BY <1>4, <1>6, <1>7, <1>12, <1>18

LEMMA NextPhaseKeeps == ASSUME PhaseInv, B!NextPhase PROVE PhaseInv'
  <1>1. PICK picked \in SUBSET B!Ready : phases' = Append(phases, UNION picked)
    BY DEF B!NextPhase
  <1>2. UNCHANGED <<bpc, graph, batches, dag>> /\ bpc = "schedule"
    BY DEF B!NextPhase
  <1>3. PICK n \in Nat : Len(phases) = n
    BY DEF PhaseInv
  <1>4. B!Emitted = UNION {phases[j] : j \in 1..n}
    BY <1>3, PhasesSoFar DEF PhaseInv
  <1>5. \A c \in picked : c \in dag.cycles /\ c \cap B!Emitted = {} /\ B!Upstream(c) \subseteq B!Emitted
    BY DEF B!Ready, B!Pending
  <1>6. \A c \in dag.cycles : c \subseteq batches
    <2>1. \A c \in dag.cycles : \A x \in c : c \subseteq batches
      BY CyclesApart DEF PhaseInv
    <2>. QED  BY <2>1
  <1>. DEFINE new == UNION picked
  <1>7. new \subseteq batches
    BY <1>5, <1>6
  <1>8. /\ phases' \in Seq(SUBSET batches) /\ Len(phases') = n + 1
        /\ \A j \in 1..n : phases'[j] = phases[j]
        /\ phases'[n + 1] = new
    <2>1. phases \in Seq(SUBSET batches)
      BY DEF PhaseInv
    <2>. HIDE DEF new
    <2>. QED  BY <1>1, <1>3, <1>7, <2>1 DEF new
  <1>9. \A k \in 1..n : UNION {phases'[j] : j \in 1..(k - 1)} = Earlier(k)
    <2>1. \A k \in 1..n : \A j \in 1..(k - 1) : j \in 1..n
      OBVIOUS
    <2>. QED  BY <1>8, <2>1 DEF Earlier
  <1>10. UNION {phases'[j] : j \in 1..((n + 1) - 1)} = B!Emitted
    <2>1. (n + 1) - 1 = n
      OBVIOUS
    <2>. QED  BY <1>4, <1>8, <2>1
  <1>11. ASSUME NEW k \in 1..(n + 1), NEW c \in dag.cycles, c \cap phases'[k] # {}
         PROVE  c \subseteq phases'[k] /\ B!Upstream(c) \subseteq UNION {phases'[j] : j \in 1..(k - 1)}
    <2>1. CASE k \in 1..n
      <3>. HIDE DEF new
      <3>. QED  BY <1>3, <1>8, <1>9, <1>11, <2>1 DEF PhaseInv
    <2>2. CASE k = n + 1
      <3>1. PICK d \in picked : d \cap c # {}
        BY <1>8, <1>11, <2>2
      <3>2. c = d
        <4>1. PICK g \in d : g \in c /\ g \in batches
          BY <1>6, <3>1
        <4>. QED  BY <1>5, <4>1, CycleIs
      <3>3. c \subseteq phases'[k]
        BY <1>8, <2>2, <3>2
      <3>. QED  BY <1>5, <1>10, <2>2, <3>2, <3>3
    <2>. QED  BY <2>1, <2>2
  <1>12. ASSUME NEW j \in 1..(n + 1), NEW k \in 1..(n + 1), phases'[j] \cap phases'[k] # {} PROVE j = k
    <2>1. \A i \in 1..n : phases[i] \cap new = {}
      BY <1>4, <1>5
    <2>. HIDE DEF new
    <2>. QED  BY <1>3, <1>8, <1>12, <2>1 DEF PhaseInv
  <1>13. \A c : B!Upstream(c)' = B!Upstream(c)
    BY <1>2 DEF B!Upstream
  <1>14. dag'.edges \subseteq batches' \X batches' /\ dag'.cycles = B!CyclesOf(batches', dag'.edges)
    BY <1>2 DEF PhaseInv
  <1>. HIDE DEF new
  <1>. QED  BY <1>2, <1>8, <1>11, <1>12, <1>13, <1>14 DEF PhaseInv, Earlier

LEMMA FinishKeeps == ASSUME PhaseInv, Separate(batches), B!Finish PROVE PhaseInv'
  <1>1. UNCHANGED <<graph, batches, dag, phases>>
    BY DEF B!Finish
  <1>2. graph.valid /\ Budget > 0 => B!Ready = {}
    BY DEF B!Finish
  <1>3. graph.valid /\ Budget > 0 => B!Emitted = batches
    BY <1>2, NothingIsLeft
  <1>4. B!Emitted' = B!Emitted /\ \A c : B!Upstream(c)' = B!Upstream(c)
    BY <1>1 DEF B!Emitted, B!Range, B!Upstream
  <1>. QED  BY <1>1, <1>3, <1>4 DEF PhaseInv, Earlier

LEMMA SingletonsPlan == ASSUME B!Singletons, phases = <<>> PROVE PhaseInv'
  <1>1. /\ dag' = [edges |-> B!OrderOf(batches'), cycles |-> B!CyclesOf(batches', B!OrderOf(batches'))]
        /\ bpc' = "schedule" /\ phases' = <<>>
    BY DEF B!Singletons
  <1>2. B!OrderOf(batches') \subseteq batches' \X batches'
    BY DEF B!OrderOf
  <1>3. /\ dag'.edges \subseteq batches' \X batches' /\ dag'.cycles = B!CyclesOf(batches', dag'.edges)
        /\ phases' \in Seq(SUBSET batches') /\ 1..Len(phases') = {} /\ bpc' # "done"
    BY <1>1, <1>2
  <1>. QED  BY <1>3 DEF PhaseInv

-----------------------------------------------------------------------------

BatchesInv == BatchInv /\ PlanInv

LEMMA BatchesAtInit == ASSUME PortfolioInit PROVE BatchesInv
  <1>1. bpc = "cluster" /\ phases = <<>>
    BY DEF PortfolioInit, B!Init
  <1>. QED  BY <1>1, BatchAtInit DEF BatchesInv, PlanInv

\* After the packing a step leaves the batches alone.
LEMMA PackedStays ==
    ASSUME GraphInv, PackedInv, UNCHANGED <<graph, hard, batches>>, bpc' \in {"schedule", "done"}
    PROVE  GraphInv' /\ PackedInv'
  <1>1. GraphInv' /\ B!Tasks' = B!Tasks /\ \A u : Packable(u)' <=> Packable(u)
    BY GraphStays
  <1>. QED  BY <1>1 DEF PackedInv, Separate, KeptIn

LEMMA BatchesKeep == ASSUME BatchesInv, B!Next PROVE BatchesInv'
  <1>1. CASE bpc = "cluster"
    <2>1. GraphInv /\ PackInv /\ phases = <<>>
      BY <1>1 DEF BatchesInv, BatchInv, PlanInv
    <2>2. CASE B!Overflow \/ B!Partition \/ B!Take \/ B!Close
      <3>1. GraphInv' /\ PackInv'
        BY <2>1, <2>2, OverflowKeeps, PartitionKeeps, TakeKeeps, CloseKeeps
      <3>2. bpc' = "cluster" /\ phases' = <<>>
        BY <1>1, <2>1, <2>2 DEF B!Overflow, B!Partition, B!Take, B!Close
      <3>. QED  BY <3>1, <3>2 DEF BatchesInv, BatchInv, PlanInv
    <2>3. CASE B!Singletons
      <3>1. bpc' = "schedule"
        BY <2>3 DEF B!Singletons
      <3>. QED  BY <2>1, <2>3, <3>1, SingletonsKeep, SingletonsPlan DEF BatchesInv, BatchInv, PlanInv
    <2>. QED  BY <1>1, <2>2, <2>3 DEF B!Next, B!NextPhase, B!Finish
  <1>2. CASE bpc # "cluster"
    <2>1. GraphInv /\ PackedInv /\ PhaseInv
      BY <1>2 DEF BatchesInv, BatchInv, PlanInv
    <2>2. CASE B!NextPhase
      <3>1. UNCHANGED <<graph, hard, batches>> /\ bpc' = "schedule"
        BY <2>2 DEF B!NextPhase
      <3>. QED  BY <2>1, <2>2, <3>1, PackedStays, NextPhaseKeeps DEF BatchesInv, BatchInv, PlanInv
    <2>3. CASE B!Finish
      <3>1. UNCHANGED <<graph, hard, batches>> /\ bpc' = "done"
        BY <2>3 DEF B!Finish
      <3>2. Separate(batches)
        BY <2>1 DEF PackedInv
      <3>. QED  BY <2>1, <2>3, <3>1, <3>2, PackedStays, FinishKeeps DEF BatchesInv, BatchInv, PlanInv
    <2>. QED
      BY <1>2, <2>2, <2>3
      DEF B!Next, B!Overflow, B!Partition, B!Take, B!Close, B!Singletons, B!Between
  <1>. QED  BY <1>1, <1>2

LEMMA BatchesRest == ASSUME BatchesInv, UNCHANGED batchesVars PROVE BatchesInv'
  <1>1. UNCHANGED <<bpc, graph, hard, todo, units, filling, batches, assigned, dag, phases>>
    BY DEF batchesVars
  <1>2. GraphInv
    BY DEF BatchesInv, BatchInv
  <1>3. /\ GraphInv' /\ B!Components(B!Soft)' = B!Components(B!Soft) /\ B!Tasks' = B!Tasks
        /\ \A S : Alike(S)' <=> Alike(S)
        /\ \A u : Packable(u)' <=> Packable(u)
    BY <1>1, <1>2, GraphStays DEF GraphInv
  <1>4. CASE bpc = "cluster"
    <2>1. PackInv /\ phases = <<>>
      BY <1>4 DEF BatchesInv, BatchInv, PlanInv
    <2>2. PackInv'
      BY <1>1, <1>3, <2>1 DEF PackInv, Separate, KeptIn
    <2>. QED  BY <1>1, <1>3, <1>4, <2>1, <2>2 DEF BatchesInv, BatchInv, PlanInv
  <1>5. CASE bpc # "cluster"
    <2>1. PackedInv /\ PhaseInv
      BY <1>5 DEF BatchesInv, BatchInv, PlanInv
    <2>2. PackedInv'
      BY <1>1, <1>3, <2>1 DEF PackedInv, Separate, KeptIn
    <2>3. B!Emitted' = B!Emitted /\ \A c : B!Upstream(c)' = B!Upstream(c)
      BY <1>1 DEF B!Emitted, B!Range, B!Upstream
    <2>4. PhaseInv'
      BY <1>1, <2>1, <2>3 DEF PhaseInv, Earlier
    <2>. QED  BY <1>1, <1>3, <1>5, <2>2, <2>4 DEF BatchesInv, BatchInv, PlanInv
  <1>. QED  BY <1>4, <1>5

LEMMA BatchesInvariant == PortfolioSpec => []BatchesInv
  <1>1. ASSUME BatchesInv, [PortfolioNext]_Everything PROVE BatchesInv'
    <2>1. B!Next \/ UNCHANGED batchesVars
      BY <1>1 DEF PortfolioNext, Certifies, Batches, Prepares, Retries, Everything
    <2>. QED  BY <1>1, <2>1, BatchesKeep, BatchesRest
  <1>. QED  BY <1>1, BatchesAtInit, PTL DEF PortfolioSpec, Everything

\* Packing a soft component into batches never divides tasks that must be edited together,
\* unless a unit of that component is larger than a batch may be (cluster_packages), for any
\* graph over any number of tasks and any size of a batch.
THEOREM PackingNeverDivides == PortfolioSpec => []PackingKeepsUnits
  <1>1. ASSUME BatchesInv PROVE B!PackingKeepsUnits
    <2>1. SUFFICES ASSUME bpc # "cluster", NEW r \in hard.rel, B!Oversized(B!Linked(B!Soft, r[1])) = {}
                   PROVE  B!BatchOf(r[1]) = B!BatchOf(r[2])
      BY DEF B!PackingKeepsUnits
    <2>2. GraphInv /\ PackedInv
      BY <1>1, <2>1 DEF BatchesInv, BatchInv
    <2>3. r \in B!Hard /\ hard.units = B!Components(B!Hard) /\ graph \in Graphs
      BY <2>2 DEF GraphInv
    <2>4. B!Soft \in SUBSET (B!Tasks \X B!Tasks) /\ B!Hard \in SUBSET (B!Tasks \X B!Tasks)
      BY <2>3, RelationsAreTasks
    <2>. DEFINE u == B!Linked(B!Hard, r[1])
    <2>5. u \in hard.units /\ r[1] \in u /\ r[2] \in u
      <3>1. r[1] \in B!Tasks
        BY <2>3, <2>4
      <3>. QED  BY <2>3, <2>4, <3>1, ComponentsApart
    <2>. HIDE DEF u
    <2>6. Packable(u)
      BY <2>1, <2>4, <2>5, ComponentsApart DEF Packable
    <2>7. PICK g \in batches : r[1] \in g.tasks /\ r[2] \in g.tasks
      BY <2>2, <2>5, <2>6 DEF PackedInv, KeptIn
    <2>8. \A h \in batches : r[1] \in h.tasks \/ r[2] \in h.tasks => h = g
      BY <2>2, <2>7 DEF PackedInv, Separate
    <2>. QED  BY <2>7, <2>8 DEF B!BatchOf
  <1>2. BatchesInv => PackingKeepsUnits
    BY <1>1 DEF PackingKeepsUnits
  <1>. QED  BY <1>2, BatchesInvariant, PTL

\* A batch is in a later phase than everything it depends on, except around a cycle, which
\* shares a phase; no batch is in two phases, and none is left out, whatever the budget cuts
\* off (schedule_batches), for any graph of batches and any budget.
THEOREM UpstreamGoesFirst == PortfolioSpec => []UpstreamFirst
  <1>1. BatchesInv => UpstreamFirst
    BY UpstreamIsFirst DEF BatchesInv, BatchInv, GraphInv, UpstreamFirst
  <1>. QED  BY <1>1, BatchesInvariant, PTL

-----------------------------------------------------------------------------
(* The ladder of retries.  What a worker installed was noted as attempted,  *)
(* from the moment its answer is in; what is dispatched was not.            *)

Noting == {"tried", "considered", "target", "exhausted"}
LadderInv ==
  /\ target \in R!Targets /\ choice.target \in R!Targets
  /\ DOMAIN ran = R!Targets /\ DOMAIN diag = Noting
  /\ lpc # "done" => \A t \in R!Targets : ran[t] \subseteq diag.tried

LEMMA LadderAtInit == ASSUME PortfolioInit PROVE LadderInv
  <1>1. R!Init
    BY DEF PortfolioInit
  <1>2. R!Home \in R!Targets
    BY DEF R!Home, R!Targets
  <1>. QED  BY <1>1, <1>2 DEF R!Init, R!NoChoice, R!Targets, LadderInv, Noting

\* The diagnostics keep what was attempted, and a plan is for one of the targets.
LEMMA PlanIsForTarget ==
  ASSUME LadderInv, NEW down \in BOOLEAN
  PROVE  R!Build(down).target \in R!Targets /\ R!Repaired(R!Build(down)).target \in R!Targets
  <1>. DEFINE built == R!Build(down)
  <1>1. built.target \in R!Targets /\ DOMAIN built = {"action", "stage", "sel", "target", "considered", "latest", "exhausted", "current"}
    BY DEF LadderInv, R!Build, R!MavenPlan, R!NpmPlan, R!Targets
  <1>. HIDE DEF built
  <1>2. R!Repaired(built).target = built.target
    BY <1>1 DEF R!Repaired
  <1>. QED  BY <1>1, <1>2 DEF built

LEMMA CommitKeeps ==
  ASSUME LadderInv, NEW built, built.target \in R!Targets, R!Commit(built), UNCHANGED <<choice, ran>>, lpc # "done"
  PROVE  LadderInv'
  <1>1. target' \in R!Targets /\ DOMAIN diag' = Noting /\ diag'.tried = diag.tried
    BY DEF R!Commit, LadderInv, Noting
  <1>. QED  BY <1>1 DEF LadderInv

LEMMA TacticalKeeps == ASSUME LadderInv, R!Tactical PROVE LadderInv'
  <1>1. PICK c : R!Decided(c) /\ c.target \in R!Targets
    <2>1. R!NoChoice.target \in R!Targets /\ \A act : R!Act(act).target \in R!Targets
      BY DEF R!NoChoice, R!Act, R!Targets
    <2>2. \A t \in R!Targets : \A v, set : R!Bump(t, v, set).target \in R!Targets
      BY DEF R!Bump
    <2>3. R!BumpTarget \in R!Targets /\ "override" \in R!Targets
      BY DEF R!BumpTarget, R!Targets
    <2>4. \A down : R!Fallback(down).target \in R!Targets
      BY <2>1, <2>2, <2>3 DEF R!Fallback
    <2>5. \A down, compatible, hinted : \A c \in R!Accepted(down, compatible, hinted) : c.target \in R!Targets
      BY <2>1, <2>2, <2>3 DEF R!Accepted
    <2>. HIDE DEF R!Targets
    <2>. QED  BY <2>1, <2>4, <2>5 DEF R!Tactical, R!RegistryDown, R!Proposes, R!ProposesBadly, R!ProposesNothing
  <1>2. UNCHANGED <<target, diag, ran>> /\ choice' = c /\ lpc = "decide"
    BY <1>1 DEF R!Tactical, R!Decided, R!history
  <1>. QED  BY <1>1, <1>2 DEF LadderInv

LEMMA PlanKeeps == ASSUME LadderInv, R!Plan PROVE LadderInv'
  <1>1. UNCHANGED <<choice, ran>> /\ lpc = "plan"
    BY DEF R!Plan, R!history
  <1>2. CASE UNCHANGED <<target, diag>>
    BY <1>1, <1>2 DEF LadderInv
  <1>3. CASE ~UNCHANGED <<target, diag>>
    <2>1. PICK down \in BOOLEAN : \/ R!Commit(R!Build(down))
                                  \/ R!Commit(R!Repaired(R!Build(down)))
      BY <1>3 DEF R!Plan
    <2>. QED  BY <1>1, <2>1, PlanIsForTarget, CommitKeeps
  <1>. QED  BY <1>2, <1>3

LEMMA RouteKeeps == ASSUME LadderInv, R!Route PROVE LadderInv'
  <1>1. UNCHANGED ran /\ lpc = "route" /\ choice' \in {choice, R!NoChoice}
    BY DEF R!Route, R!history, R!Goto, R!End, R!Dispatchable
  <1>2. choice'.target \in R!Targets
    BY <1>1 DEF LadderInv, R!NoChoice, R!Targets
  <1>3. CASE UNCHANGED <<target, diag>>
    BY <1>1, <1>2, <1>3 DEF LadderInv
  <1>4. CASE R!CommitChoice
    <2>1. target' = choice.target /\ DOMAIN diag' = Noting /\ diag'.tried = diag.tried
      BY <1>4 DEF R!CommitChoice, LadderInv, Noting
    <2>. QED  BY <1>1, <1>2, <2>1 DEF LadderInv
  <1>. QED  BY <1>3, <1>4 DEF R!Route, R!Goto, R!End

LEMMA AuthoriseKeeps == ASSUME LadderInv, R!Authorise PROVE LadderInv'
  <1>1. UNCHANGED <<choice, ran>> /\ lpc = "authorise"
    BY DEF R!Authorise
  <1>2. CASE UNCHANGED <<target, diag>>
    BY <1>1, <1>2 DEF LadderInv
  <1>3. CASE ~UNCHANGED <<target, diag>>
    <2>1. PICK down \in BOOLEAN : R!Commit(R!Build(down))
      BY <1>3 DEF R!Authorise
    <2>. QED  BY <1>1, <2>1, PlanIsForTarget, CommitKeeps
  <1>. QED  BY <1>2, <1>3

LEMMA WorkKeeps == ASSUME LadderInv, R!Work PROVE LadderInv'
  <1>1. PICK installed \in SUBSET R!Open(rplan) :
          /\ ran' = [ran EXCEPT ![target] = @ \cup installed]
          /\ \/ lpc' = "done" /\ UNCHANGED diag
             \/ diag' = [diag EXCEPT !.tried = @ \cup installed, !.considered = @ \cup R!Open(rplan)]
    BY DEF R!Work, R!Fails
  <1>2. UNCHANGED <<target, choice>> /\ lpc = "work"
    BY DEF R!Work
  <1>3. DOMAIN ran' = R!Targets /\ \A t \in R!Targets : ran'[t] \subseteq ran[t] \cup installed
    BY <1>1 DEF LadderInv
  <1>4. CASE lpc' = "done" /\ UNCHANGED diag
    BY <1>2, <1>3, <1>4 DEF LadderInv
  <1>5. CASE diag' = [diag EXCEPT !.tried = @ \cup installed, !.considered = @ \cup R!Open(rplan)]
    <2>1. DOMAIN diag' = Noting /\ diag'.tried = diag.tried \cup installed
      BY <1>5 DEF LadderInv, Noting
    <2>. QED  BY <1>2, <1>3, <2>1 DEF LadderInv
  <1>. QED  BY <1>1, <1>4, <1>5

LEMMA LadderKeeps == ASSUME LadderInv, R!Next PROVE LadderInv'
  <1>1. CASE R!Cap \/ R!Enter \/ R!Reroute
    <2>1. UNCHANGED <<target, choice, diag, ran>> /\ lpc # "done"
      BY <1>1 DEF R!Cap, R!Enter, R!Reroute, R!Goto, R!End, R!history
    <2>. QED  BY <2>1 DEF LadderInv
  <1>2. CASE R!Replan
    <2>1. UNCHANGED <<target, diag, ran>> /\ choice' = R!NoChoice /\ lpc = "portfolio"
      BY <1>2 DEF R!Replan, R!history
    <2>2. R!NoChoice.target \in R!Targets
      BY DEF R!NoChoice, R!Targets
    <2>. QED  BY <2>1, <2>2 DEF LadderInv
  <1>3. CASE R!Finished
    BY <1>3 DEF R!Finished, R!vars, LadderInv
  <1>. QED  BY <1>1, <1>2, <1>3, TacticalKeeps, PlanKeeps, RouteKeeps, AuthoriseKeeps, WorkKeeps DEF R!Next, R!Pass

LEMMA LadderStep == ASSUME LadderInv, [PortfolioNext]_Everything PROVE LadderInv'
  <1>1. ASSUME UNCHANGED ladderVars PROVE LadderInv'
    BY <1>1 DEF ladderVars, LadderInv
  <1>. QED  BY <1>1, LadderKeeps DEF PortfolioNext, Certifies, Batches, Prepares, Retries, Everything

\* A version that is sent is open, and what is open was not attempted.
LEMMA SentIsNew == ASSUME LadderInv, R!Next, dispatches' # dispatches PROVE sel' \notin ran[target']
  <1>1. R!Authorise
    BY DEF R!Next, R!Pass, R!Tactical, R!Plan, R!Cap, R!Enter, R!Route, R!Reroute, R!Work, R!Replan, R!Finished, R!history, R!vars
  <1>2. lpc = "authorise"
    BY <1>1 DEF R!Authorise
  <1>3. LadderInv'
    BY LadderKeeps
  <1>4. UNCHANGED ran
    BY <1>1 DEF R!Authorise
  <1>5. sel' \notin diag.tried
    <2>1. \A pl, v, t : R!Authorised(pl, v, t) => v \notin diag.tried
      BY DEF R!Authorised, R!Open
    <2>2. CASE R!Authorised(rplan, sel, target) /\ UNCHANGED sel
      BY <2>1, <2>2
    <2>3. CASE \E down \in BOOLEAN : R!Commit(R!Build(down)) /\ R!Authorised(R!Build(down), R!Build(down).sel, R!Build(down).target)
      BY <2>1, <2>3 DEF R!Commit
    <2>. QED  BY <1>1, <2>2, <2>3 DEF R!Authorise
  <1>. QED  BY <1>2, <1>3, <1>4, <1>5 DEF LadderInv

\* For every ladder, pool of releases, answer of the model and of the registry: what a worker
\* installed for a target is never sent again for it.
THEOREM NothingIsReplayed == PortfolioSpec => NothingReplayed
<1>1. PortfolioInit => LadderInv
  BY LadderAtInit
<1>2. LadderInv /\ [PortfolioNext]_Everything => LadderInv'
  BY LadderStep
<1>3. LadderInv /\ [PortfolioNext]_Everything
        => [dispatches' # dispatches => sel' \notin ran[target']]_(R!vars)
  BY SentIsNew DEF PortfolioNext, Certifies, Batches, Prepares, Retries, ladderVars, R!vars, Everything
<1>. QED  BY <1>1, <1>2, <1>3, PTL DEF PortfolioSpec, NothingReplayed, R!NothingReplayed, Everything

-----------------------------------------------------------------------------
(* The inputs of a plan.  A plan is made of what the one before left: tasks *)
(* are added and never renumbered, and a group whose task was acted on is   *)
(* not touched, however far the preparation has come.                       *)

Many == I!Cardinality(Occurrences)
Fields == {"group", "status", "attempt", "retried", "bump", "selected", "approved", "rev"}

\* Tasks with a revision, and the queues that come of them.
Revised(q) == IsFiniteSet(DOMAIN q) /\ \A t \in DOMAIN q : DOMAIN q[t] = Fields /\ q[t].rev \in Nat
Continues(new, old) ==
  /\ DOMAIN old \subseteq DOMAIN new
  /\ \A t \in DOMAIN old : /\ new[t].group = old[t].group /\ new[t].attempt = old[t].attempt
                           /\ new[t].status = old[t].status
Acted(q, o) == \E t \in DOMAIN q : q[t].group = o /\ (q[t].attempt \/ q[t].status \in I!Terminal)
Preparation(st) == DOMAIN st = {"groups", "queue"} /\ Revised(st.queue)

\* What of a preparation stays in the next one, which may add the group of an occurrence.
Follows(new, old, keys) ==
  /\ Preparation(new) /\ Continues(new.queue, old.queue)
  /\ DOMAIN old.groups \subseteq DOMAIN new.groups /\ DOMAIN new.groups \subseteq DOMAIN old.groups \cup keys
  /\ \A o \in DOMAIN old.groups : Acted(old.queue, o) => new.groups[o] = old.groups[o]

\* Counting up.
LEMMA Upwards == ASSUME NEW X, 0 \in X, \A k \in Nat : k \in X => k + 1 \in X PROVE Nat \subseteq X
  <1>1. SUFFICES ASSUME Nat \ X # {} PROVE FALSE
    OBVIOUS
  <1>2. PICK k \in Nat \ X : \A m \in Nat \ X : k <= m
    BY <1>1, LeastNat
  <1>3. k # 0 /\ k - 1 \in Nat /\ (k - 1) + 1 = k
    BY <1>2
  <1>4. k - 1 \in X
    BY <1>2, <1>3
  <1>. QED  BY <1>2, <1>3, <1>4

LEMMA ManyIsNat == Many \in Nat
  <1>1. I!IsFiniteSet(Occurrences)
    BY PlanningAssumption DEF PlanningAssumption, I!InputsAssumption
  <1>2. IsFiniteSet(Occurrences)
    BY <1>1 DEF I!IsFiniteSet, IsFiniteSet
  <1>3. I!Cardinality(Occurrences) = Cardinality(Occurrences)
    BY DEF I!Cardinality, Cardinality
  <1>. QED  BY <1>2, <1>3, FS_CardinalityType DEF Many

\* A new task gets a number of its own.
LEMMA FreeIdIs ==
  ASSUME NEW q, IsFiniteSet(DOMAIN q)
  PROVE  I!FreeId(q) \notin DOMAIN q
  <1>. DEFINE c == Cardinality(DOMAIN q)
              T == {n \in 1..(c + 1) : n \notin DOMAIN q}
  <1>1. I!Cardinality(DOMAIN q) = c
    BY DEF I!Cardinality, Cardinality
  <1>2. c \in Nat
    BY FS_CardinalityType
  <1>3. T # {}
    <2>1. SUFFICES ASSUME 1..(c + 1) \subseteq DOMAIN q PROVE FALSE
      OBVIOUS
    <2>2. Cardinality(1..(c + 1)) <= c
      BY <2>1, FS_Subset
    <2>3. Cardinality(1..(c + 1)) = c + 1
      BY <1>2, FS_Interval
    <2>. QED  BY <1>2, <2>2, <2>3
  <1>4. PICK n \in T : \A m \in T : n <= m
    <2>1. T \subseteq Nat
      BY <1>2
    <2>. HIDE DEF T
    <2>. QED  BY <1>3, <2>1, LeastNat
  <1>5. n \in 1..(c + 1) /\ n \notin DOMAIN q /\ \A m \in 1..(n - 1) : m \in DOMAIN q
    BY <1>2, <1>4
  <1>. HIDE DEF c, T
  <1>. QED  BY <1>1, <1>5 DEF I!FreeId

LEMMA AddedIs ==
  ASSUME NEW q, NEW o, Revised(q)
  PROVE  Revised(I!Added(q, o)) /\ Continues(I!Added(q, o), q)
  <1>. DEFINE n == I!FreeId(q)
              r == I!Added(q, o)
  <1>1. n \notin DOMAIN q
    BY FreeIdIs DEF Revised
  <1>2. r = [t \in DOMAIN q \cup {n} |-> IF t = n THEN I!NewTask(o) ELSE q[t]]
    BY DEF I!Added
  <1>3. DOMAIN I!NewTask(o) = Fields /\ I!NewTask(o).rev = 0
    BY DEF I!NewTask, Fields
  <1>4. IsFiniteSet(DOMAIN q \cup {n})
    BY FS_AddElement DEF Revised
  <1>. HIDE DEF n, r
  <1>5. DOMAIN r = DOMAIN q \cup {n} /\ r[n] = I!NewTask(o) /\ \A t \in DOMAIN q : r[t] = q[t]
    BY <1>1, <1>2
  <1>6. Continues(r, q)
    BY <1>5 DEF Continues
  <1>7. Revised(r)
    BY <1>3, <1>4, <1>5 DEF Revised
  <1>. QED  BY <1>6, <1>7 DEF r

LEMMA ContinuesOn ==
  ASSUME NEW q1, NEW q2, NEW q3, Continues(q2, q1), Continues(q3, q2)
  PROVE  Continues(q3, q1)
  BY DEF Continues

LEMMA ActedOn == ASSUME NEW new, NEW old, Continues(new, old), NEW o, Acted(old, o) PROVE Acted(new, o)
  BY DEF Continues, Acted

\* Every group gets a task, one group after the other.
Grown(st, q, o) == IF o \in DOMAIN st.groups /\ I!TasksOf(q, o) = {} THEN I!Added(q, o) ELSE q
GrowsAlong(f, st, m) == f = [o \in 0..m |-> IF o = 0 THEN st.queue ELSE Grown(st, f[o - 1], o)]

LEMMA GrowthExists == ASSUME NEW st, NEW m \in Nat PROVE \E f : GrowsAlong(f, st, m)
  <1>. DEFINE X == {k \in Nat : \E f : GrowsAlong(f, st, k)}
  <1>1. 0 \in X
    <2>1. GrowsAlong([o \in 0..0 |-> st.queue], st, 0)
      BY DEF GrowsAlong
    <2>. QED  BY <2>1
  <1>2. ASSUME NEW k \in Nat, k \in X PROVE k + 1 \in X
    <2>1. PICK f : GrowsAlong(f, st, k)
      BY <1>2
    <2>. DEFINE g == [o \in 0..(k + 1) |-> IF o = 0 THEN st.queue ELSE Grown(st, f[o - 1], o)]
    <2>2. \A o \in 0..k : g[o] = f[o]
      BY <2>1 DEF GrowsAlong
    <2>3. \A o \in 0..(k + 1) : o # 0 => o - 1 \in 0..k
      OBVIOUS
    <2>4. GrowsAlong(g, st, k + 1)
      BY <2>2, <2>3 DEF GrowsAlong
    <2>. QED  BY <2>4
  <1>. HIDE DEF X
  <1>3. Nat \subseteq X
    BY <1>1, <1>2, Upwards
  <1>. QED  BY <1>3 DEF X

LEMMA RepresentedIs ==
  ASSUME NEW st, Preparation(st)
  PROVE  LET r == I!Represented(st)
         IN  Preparation(r) /\ r.groups = st.groups /\ Continues(r.queue, st.queue)
  <1>. DEFINE up == CHOOSE f : f = [o \in 0..Many |-> IF o = 0 THEN st.queue
                                     ELSE LET q == f[o - 1]
                                          IN  IF o \in DOMAIN st.groups /\ I!TasksOf(q, o) = {} THEN I!Added(q, o) ELSE q]
              r == I!Represented(st)
  <1>1. \E f : GrowsAlong(f, st, Many)
    BY GrowthExists, ManyIsNat
  <1>2. GrowsAlong(up, st, Many)
    BY <1>1 DEF GrowsAlong, Grown
  <1>3. r = [st EXCEPT !.queue = up[Many]]
    BY DEF I!Represented, Many
  <1>. HIDE DEF up, r
  <1>. DEFINE X == {k \in Nat : k <= Many => Revised(up[k]) /\ Continues(up[k], st.queue)}
  <1>4. 0 \in X
    <2>1. up[0] = st.queue
      BY <1>2, ManyIsNat DEF GrowsAlong
    <2>. QED  BY <2>1 DEF Preparation, Continues
  <1>5. ASSUME NEW k \in Nat, k \in X PROVE k + 1 \in X
    <2>1. SUFFICES ASSUME k + 1 <= Many PROVE Revised(up[k + 1]) /\ Continues(up[k + 1], st.queue)
      OBVIOUS
    <2>2. Revised(up[k]) /\ Continues(up[k], st.queue)
      BY <1>5, <2>1, ManyIsNat
    <2>3. up[k + 1] = Grown(st, up[k], k + 1)
      BY <1>2, <2>1, ManyIsNat DEF GrowsAlong
    <2>. QED  BY <2>2, <2>3, AddedIs, ContinuesOn DEF Grown
  <1>6. Many \in X
    <2>. HIDE DEF X
    <2>. QED  BY <1>4, <1>5, Upwards, ManyIsNat
  <1>7. r.groups = st.groups /\ r.queue = up[Many] /\ DOMAIN r = DOMAIN st
    BY <1>3 DEF Preparation
  <1>. QED  BY <1>6, <1>7, ManyIsNat DEF Preparation, r

\* A provisional selection changes nothing else.
LEMMA ProvisionalIs ==
  ASSUME NEW st, Preparation(st)
  PROVE  LET q == I!Provisional(st)
         IN  Revised(q) /\ Continues(q, st.queue) /\ DOMAIN q = DOMAIN st.queue
  <1>. DEFINE q == I!Provisional(st)
  <1>1. DOMAIN q = DOMAIN st.queue
    BY DEF I!Provisional
  <1>2. \A t \in DOMAIN st.queue : \/ q[t] = st.queue[t]
                                   \/ \E x, y : q[t] = [st.queue[t] EXCEPT !.selected = x, !.approved = y]
    BY DEF I!Provisional
  <1>. HIDE DEF q
  <1>3. ASSUME NEW t \in DOMAIN st.queue
        PROVE  /\ DOMAIN q[t] = Fields /\ q[t].rev \in Nat /\ q[t].group = st.queue[t].group
               /\ q[t].attempt = st.queue[t].attempt /\ q[t].status = st.queue[t].status
    <2>1. DOMAIN st.queue[t] = Fields /\ st.queue[t].rev \in Nat
      BY DEF Preparation, Revised
    <2>2. CASE q[t] = st.queue[t]
      BY <2>1, <2>2
    <2>3. CASE \E x, y : q[t] = [st.queue[t] EXCEPT !.selected = x, !.approved = y]
      BY <2>1, <2>3 DEF Fields
    <2>. QED  BY <1>2, <2>2, <2>3
  <1>. QED  BY <1>1, <1>3 DEF Preparation, Revised, Continues, q

LEMMA RefreshedIs ==
  ASSUME NEW st, Preparation(st), NEW o, NEW version, o \in DOMAIN st.groups, I!Movable(st, o), NEW keys, o \in keys
  PROVE  Follows(I!Refreshed(st, o, version), st, keys)
  <1>. DEFINE r == I!Refreshed(st, o, version)
              q == IF I!TasksOf(st.queue, o) = {} THEN I!Added(st.queue, o) ELSE st.queue
  <1>1. Revised(q) /\ Continues(q, st.queue)
    BY AddedIs DEF Preparation, Continues
  <1>2. /\ r.groups = I!With(st.groups, o, [synthetic |-> TRUE, target |-> version])
        /\ r.queue = [t \in DOMAIN q |->
             IF q[t].group = o /\ (~q[t].bump \/ q[t].selected # 0 \/ st.groups[o].target # version)
             THEN [q[t] EXCEPT !.bump = TRUE, !.selected = 0, !.rev = @ + 1] ELSE q[t]]
        /\ DOMAIN r = {"groups", "queue"}
    BY DEF I!Refreshed
  <1>. HIDE DEF q, r
  <1>3. /\ DOMAIN r.groups = DOMAIN st.groups
        /\ \A x \in DOMAIN st.groups : x # o => r.groups[x] = st.groups[x]
    BY <1>2 DEF I!With
  <1>4. ~Acted(st.queue, o)
    BY DEF I!Movable, I!TasksOf, Acted
  <1>5. ASSUME NEW t \in DOMAIN q
        PROVE  /\ DOMAIN r.queue[t] = Fields /\ r.queue[t].rev \in Nat /\ r.queue[t].group = q[t].group
               /\ r.queue[t].attempt = q[t].attempt /\ r.queue[t].status = q[t].status
    <2>1. DOMAIN q[t] = Fields /\ q[t].rev \in Nat
      BY <1>1 DEF Revised
    <2>. DEFINE y == [q[t] EXCEPT !.bump = TRUE, !.selected = 0, !.rev = @ + 1]
    <2>2. r.queue[t] = q[t] \/ r.queue[t] = y
      BY <1>2
    <2>3. /\ DOMAIN y = Fields /\ y.rev = q[t].rev + 1 /\ y.group = q[t].group
          /\ y.attempt = q[t].attempt /\ y.status = q[t].status
      BY <2>1 DEF Fields
    <2>. HIDE DEF y
    <2>. QED  BY <2>1, <2>2, <2>3
  <1>6. Revised(r.queue) /\ Continues(r.queue, q)
    BY <1>1, <1>2, <1>5 DEF Revised, Continues
  <1>. QED  BY <1>1, <1>2, <1>3, <1>4, <1>6, ContinuesOn DEF Follows, Preparation, r

LEMMA CoordinatedIs ==
  ASSUME NEW st, Preparation(st), NEW committed, NEW o, NEW version, NEW keys, o \in keys
  PROVE  Follows(I!Coordinated(st, committed, o, version), st, keys)
  <1>. DEFINE r == I!Coordinated(st, committed, o, version)
  <1>1. Follows(st, st, keys)
    BY DEF Follows, Continues, Preparation
  <1>2. Revised(I!Added(st.queue, o)) /\ Continues(I!Added(st.queue, o), st.queue)
    BY AddedIs DEF Preparation
  <1>3. CASE r = st
    BY <1>1, <1>3
  <1>4. CASE /\ o \notin DOMAIN st.groups
             /\ r = [groups |-> I!With(st.groups, o, [synthetic |-> TRUE, target |-> version]),
                     queue |-> I!Added(st.queue, o)]
    <2>1. /\ DOMAIN r.groups = DOMAIN st.groups \cup {o} /\ r.queue = I!Added(st.queue, o)
          /\ DOMAIN r = {"groups", "queue"} /\ \A x \in DOMAIN st.groups : r.groups[x] = st.groups[x]
      BY <1>4 DEF I!With
    <2>. HIDE DEF r
    <2>. QED  BY <1>2, <2>1 DEF Follows, Preparation, r
  <1>5. CASE r = I!Same(st, o)
    <2>1. CASE I!TasksOf(st.queue, o) = {}
      <3>1. r = [st EXCEPT !.queue = I!Added(st.queue, o)]
        BY <1>5, <2>1 DEF I!Same
      <3>. HIDE DEF r
      <3>2. r.groups = st.groups /\ r.queue = I!Added(st.queue, o) /\ DOMAIN r = DOMAIN st
        BY <3>1 DEF Preparation
      <3>. QED  BY <1>2, <3>2 DEF Follows, Preparation, r
    <2>2. CASE I!TasksOf(st.queue, o) # {}
      BY <1>1, <1>5, <2>2 DEF I!Same
    <2>. QED  BY <2>1, <2>2
  <1>6. CASE o \in DOMAIN st.groups /\ I!Movable(st, o) /\ r = I!Refreshed(st, o, version)
    BY <1>6, RefreshedIs
  <1>. QED  BY <1>3, <1>4, <1>5, <1>6 DEF I!Coordinated

LEMMA FollowsOn ==
  ASSUME NEW s1, NEW s2, NEW s3, NEW keys, Follows(s2, s1, keys), Follows(s3, s2, keys)
  PROVE  Follows(s3, s1, keys)
  <1>1. Continues(s3.queue, s1.queue)
    BY ContinuesOn DEF Follows
  <1>2. \A o \in DOMAIN s1.groups : Acted(s1.queue, o) => s3.groups[o] = s1.groups[o]
    BY ActedOn DEF Follows
  <1>. QED  BY <1>1, <1>2 DEF Follows

\* The declared dependencies are gone through one after the other.
Turn(s, keys, committed, all, o) ==
  IF o \in keys THEN I!Coordinated(s, committed, o, I!Target(all, keys, o)) ELSE s
TurnsAlong(f, start, keys, committed, all, m) ==
  f = [o \in 0..m |-> IF o = 0 THEN start ELSE Turn(f[o - 1], keys, committed, all, o)]

LEMMA TurnsExist ==
  ASSUME NEW start, NEW keys, NEW committed, NEW all, NEW m \in Nat
  PROVE  \E f : TurnsAlong(f, start, keys, committed, all, m)
  <1>. DEFINE X == {k \in Nat : \E f : TurnsAlong(f, start, keys, committed, all, k)}
  <1>1. 0 \in X
    <2>1. TurnsAlong([o \in 0..0 |-> start], start, keys, committed, all, 0)
      BY DEF TurnsAlong
    <2>. QED  BY <2>1
  <1>2. ASSUME NEW k \in Nat, k \in X PROVE k + 1 \in X
    <2>1. PICK f : TurnsAlong(f, start, keys, committed, all, k)
      BY <1>2
    <2>. DEFINE g == [o \in 0..(k + 1) |-> IF o = 0 THEN start ELSE Turn(f[o - 1], keys, committed, all, o)]
    <2>2. \A o \in 0..k : g[o] = f[o]
      BY <2>1 DEF TurnsAlong
    <2>3. \A o \in 0..(k + 1) : o # 0 => o - 1 \in 0..k
      OBVIOUS
    <2>4. TurnsAlong(g, start, keys, committed, all, k + 1)
      BY <2>2, <2>3 DEF TurnsAlong
    <2>. QED  BY <2>4
  <1>. HIDE DEF X
  <1>3. Nat \subseteq X
    BY <1>1, <1>2, Upwards
  <1>. QED  BY <1>3 DEF X

LEMMA TurnsFollow ==
  ASSUME NEW f, NEW start, NEW keys, NEW committed, NEW all, TurnsAlong(f, start, keys, committed, all, Many), Preparation(start)
  PROVE  Follows(f[Many], start, keys)
  <1>. DEFINE X == {k \in Nat : k <= Many => Follows(f[k], start, keys)}
  <1>1. 0 \in X
    <2>1. f[0] = start
      BY ManyIsNat DEF TurnsAlong
    <2>. QED  BY <2>1 DEF Follows, Continues, Preparation
  <1>2. ASSUME NEW k \in Nat, k \in X PROVE k + 1 \in X
    <2>1. SUFFICES ASSUME k + 1 <= Many PROVE Follows(f[k + 1], start, keys)
      OBVIOUS
    <2>2. Follows(f[k], start, keys)
      BY <1>2, <2>1, ManyIsNat
    <2>3. f[k + 1] = Turn(f[k], keys, committed, all, k + 1)
      BY <2>1, ManyIsNat DEF TurnsAlong
    <2>4. Preparation(f[k])
      BY <2>2 DEF Follows
    <2>5. CASE k + 1 \in keys
      <3>1. f[k + 1] = I!Coordinated(f[k], committed, k + 1, I!Target(all, keys, k + 1))
        BY <2>3, <2>5 DEF Turn
      <3>. QED  BY <2>2, <2>4, <2>5, <3>1, CoordinatedIs, FollowsOn
    <2>6. CASE k + 1 \notin keys
      BY <2>2, <2>3, <2>6 DEF Turn
    <2>. QED  BY <2>5, <2>6
  <1>3. Many \in X
    <2>. HIDE DEF X
    <2>. QED  BY <1>1, <1>2, Upwards, ManyIsNat
  <1>. QED  BY <1>3, ManyIsNat

LEMMA PreparedIs ==
  ASSUME Revised(queue)
  PROVE  LET r == I!Prepared(I!Now)
         IN  /\ Preparation(r)
             /\ \A o \in DOMAIN groups \cap DOMAIN r.groups : Acted(queue, o) => r.groups[o] = groups[o]
  <1>. DEFINE all == I!Represented(I!Now)
              keys == I!Keys(all)
              kept == I!Kept(all)
              narrow == [groups |-> [o \in kept |-> all.groups[o]],
                         queue |-> [t \in {u \in DOMAIN all.queue : all.queue[u].group \in kept} |-> all.queue[t]]]
              start == [narrow EXCEPT !.queue = I!Provisional(narrow)]
              committed == {I!Aim(start.queue[t].group) : t \in DOMAIN start.queue}
              up == CHOOSE f : f = [o \in 0..Many |->
                      IF o = 0 THEN start
                      ELSE IF o \in keys THEN I!Coordinated(f[o - 1], committed, o, I!Target(all, keys, o)) ELSE f[o - 1]]
              r == I!Prepared(I!Now)
  <1>1. r = up[Many]
    BY DEF I!Prepared, Many
  <1>2. Preparation(all) /\ all.groups = groups /\ Continues(all.queue, queue)
    <2>1. Preparation(I!Now) /\ I!Now.groups = groups /\ I!Now.queue = queue
      BY DEF I!Now, Preparation
    <2>. QED  BY <2>1, RepresentedIs
  <1>3. kept \subseteq DOMAIN groups /\ keys \cap DOMAIN groups \subseteq kept
    BY <1>2 DEF I!Kept
  <1>. HIDE DEF all, keys, kept
  <1>4. /\ Preparation(narrow) /\ narrow.groups = [o \in kept |-> groups[o]]
        /\ \A o \in kept : Acted(all.queue, o) => Acted(narrow.queue, o)
    <2>. DEFINE rest == {u \in DOMAIN all.queue : all.queue[u].group \in kept}
    <2>1. IsFiniteSet(rest)
      BY <1>2, FS_Subset DEF Preparation, Revised
    <2>2. DOMAIN narrow.queue = rest /\ \A t \in rest : narrow.queue[t] = all.queue[t]
      OBVIOUS
    <2>3. Preparation(narrow)
      BY <1>2, <2>1, <2>2 DEF Preparation, Revised
    <2>4. \A o \in kept : Acted(all.queue, o) => Acted(narrow.queue, o)
      BY <2>2 DEF Acted
    <2>. QED  BY <1>2, <2>3, <2>4
  <1>5. /\ Preparation(start) /\ start.groups = narrow.groups /\ Continues(start.queue, narrow.queue)
    <2>. HIDE DEF narrow
    <2>1. start.groups = narrow.groups /\ start.queue = I!Provisional(narrow) /\ DOMAIN start = DOMAIN narrow
      BY <1>4 DEF Preparation
    <2>. HIDE DEF start
    <2>. QED  BY <1>4, <2>1, ProvisionalIs DEF Preparation
  <1>. HIDE DEF narrow, start
  <1>6. TurnsAlong(up, start, keys, committed, all, Many)
    <2>. HIDE DEF committed
    <2>1. \E f : TurnsAlong(f, start, keys, committed, all, Many)
      BY TurnsExist, ManyIsNat
    <2>. QED  BY <2>1 DEF TurnsAlong, Turn
  <1>. HIDE DEF committed, up
  <1>7. Follows(r, start, keys)
    BY <1>1, <1>5, <1>6, TurnsFollow
  <1>. HIDE DEF r
  <1>8. ASSUME NEW o \in DOMAIN groups \cap DOMAIN r.groups, Acted(queue, o) PROVE r.groups[o] = groups[o]
    <2>1. DOMAIN start.groups = kept /\ \A x \in kept : start.groups[x] = groups[x]
      BY <1>4, <1>5
    <2>2. o \in kept
      BY <1>3, <1>7, <2>1 DEF Follows
    <2>3. Acted(start.queue, o)
      BY <1>2, <1>4, <1>5, <1>8, <2>2, ActedOn
    <2>. QED  BY <1>7, <2>1, <2>2, <2>3 DEF Follows
  <1>. QED  BY <1>7, <1>8 DEF Follows, r

\* A plan that was just committed is not older than its tasks.
Fresh == \A t \in DOMAIN plan : t \in DOMAIN queue /\ plan[t] \in Nat /\ queue[t].rev >= plan[t]
InputsInv == Revised(queue) /\ (status = "ready" => Fresh)

LEMMA UncommittedIs ==
  ASSUME Revised(queue), NEW st, Preparation(st)
  PROVE  LET q == I!Uncommitted(st)
         IN  Revised(q) /\ DOMAIN q = DOMAIN st.queue /\ \A t \in DOMAIN q : q[t].rev = st.queue[t].rev
  <1>. DEFINE q == I!Uncommitted(st)
  <1>1. /\ DOMAIN q = DOMAIN st.queue
        /\ \A t \in DOMAIN q : q[t] = IF t \in DOMAIN queue /\ queue[t].rev = st.queue[t].rev THEN queue[t] ELSE st.queue[t]
    BY DEF I!Uncommitted
  <1>. HIDE DEF q
  <1>. QED  BY <1>1 DEF Preparation, Revised, q

LEMMA CommittedIs ==
  ASSUME NEW one, DOMAIN one = Fields, one.rev \in Nat, NEW approved, NEW v
  PROVE  DOMAIN I!Committed(one, approved, v) = Fields /\ I!Committed(one, approved, v).rev = one.rev + 1
  <1>. DEFINE done == [one EXCEPT !.rev = @ + 1]
              told == [one EXCEPT !.selected = v, !.approved = approved, !.rev = @ + 1]
              gone == [one EXCEPT !.status = "unfixable", !.bump = FALSE, !.selected = 0, !.approved = approved, !.rev = @ + 1]
  <1>1. DOMAIN done = Fields /\ done.rev = one.rev + 1
    BY DEF Fields
  <1>2. DOMAIN told = Fields /\ told.rev = one.rev + 1
    BY DEF Fields
  <1>3. DOMAIN gone = Fields /\ gone.rev = one.rev + 1
    BY DEF Fields
  <1>4. I!Committed(one, approved, v) = done \/ I!Committed(one, approved, v) = told \/ I!Committed(one, approved, v) = gone
    BY DEF I!Committed
  <1>. HIDE DEF done, told, gone
  <1>. QED  BY <1>1, <1>2, <1>3, <1>4

LEMMA PlanFresh == ASSUME InputsInv, I!Plan PROVE InputsInv'
  <1>. DEFINE st == I!Prepared(I!Now)
              kept == I!Uncommitted(st)
  <1>1. Revised(queue)
    BY DEF InputsInv
  <1>2. Preparation(st)
    BY <1>1, PreparedIs
  <1>. HIDE DEF st
  <1>3. Revised(kept) /\ DOMAIN kept = DOMAIN st.queue /\ \A t \in DOMAIN kept : kept[t].rev = st.queue[t].rev
    BY <1>1, <1>2, UncommittedIs
  <1>. HIDE DEF kept
  <1>4. I!PlanFails(st, kept) \/ I!PlanDefers(st, kept) \/ I!PlanCommits(st, kept)
    BY DEF I!Plan, st, kept
  <1>5. CASE I!PlanFails(st, kept) \/ I!PlanDefers(st, kept)
    <2>1. queue' = kept /\ status' # "ready"
      BY <1>5 DEF I!PlanFails, I!PlanDefers
    <2>. QED  BY <1>3, <2>1 DEF InputsInv
  <1>6. CASE I!PlanCommits(st, kept)
    <2>1. /\ DOMAIN queue' = DOMAIN kept
          /\ \A t \in DOMAIN kept : \E approved, v : queue'[t] = I!Committed(kept[t], approved, v)
      BY <1>6 DEF I!PlanCommits
    <2>2. plan' = [t \in DOMAIN st.queue |-> st.queue[t].rev + 1]
      BY <1>6 DEF I!PlanCommits, I!Planned
    <2>3. \A t \in DOMAIN kept : DOMAIN kept[t] = Fields /\ kept[t].rev \in Nat
      BY <1>3 DEF Revised
    <2>4. \A t \in DOMAIN kept : DOMAIN queue'[t] = Fields /\ queue'[t].rev = kept[t].rev + 1
      BY <2>1, <2>3, CommittedIs
    <2>5. Revised(queue')
      BY <1>3, <2>1, <2>3, <2>4 DEF Revised
    <2>6. Fresh'
      BY <1>3, <2>1, <2>2, <2>3, <2>4 DEF Fresh
    <2>. QED  BY <2>5, <2>6 DEF InputsInv
  <1>. QED  BY <1>4, <1>5, <1>6

LEMMA TaskFresh ==
  ASSUME InputsInv, NEW t \in DOMAIN queue, NEW one, NEW again, DOMAIN one = Fields, one.rev = queue[t].rev,
         I!Task(t, one, again)
  PROVE  InputsInv'
  <1>. DEFINE moved == [one EXCEPT !.rev = @ + 1]
  <1>1. queue' = [queue EXCEPT ![t] = moved] /\ UNCHANGED <<plan, status>>
    BY DEF I!Task
  <1>2. one.rev \in Nat
    BY DEF InputsInv, Revised
  <1>3. DOMAIN moved = Fields /\ moved.rev = one.rev + 1
    BY <1>2 DEF Fields
  <1>. HIDE DEF moved
  <1>4. DOMAIN queue' = DOMAIN queue /\ queue'[t] = moved /\ \A u \in DOMAIN queue : u # t => queue'[u] = queue[u]
    BY <1>1
  <1>5. Revised(queue')
    BY <1>2, <1>3, <1>4 DEF InputsInv, Revised
  <1>6. ASSUME Fresh PROVE Fresh'
    BY <1>1, <1>2, <1>3, <1>4, <1>6 DEF Fresh
  <1>. QED  BY <1>1, <1>5, <1>6 DEF InputsInv

LEMMA WorkFresh == ASSUME InputsInv, I!Work PROVE InputsInv'
  <1>1. ASSUME NEW t \in DOMAIN queue, I!Dispatch(t) \/ I!Accept(t) \/ I!Reject(t) \/ I!GiveUp(t) PROVE InputsInv'
    <2>1. DOMAIN queue[t] = Fields
      BY DEF InputsInv, Revised
    <2>. DEFINE out == [queue[t] EXCEPT !.attempt = TRUE]
                good == [queue[t] EXCEPT !.attempt = FALSE, !.status = "accepted"]
                again == [queue[t] EXCEPT !.attempt = FALSE, !.retried = TRUE]
                end == [queue[t] EXCEPT !.attempt = FALSE, !.status = "unfixable"]
    <2>2. \A x \in {out, good, again, end} : DOMAIN x = Fields /\ x.rev = queue[t].rev
      BY <2>1 DEF Fields
    <2>3. PICK x \in {out, good, again, end}, b \in BOOLEAN : I!Task(t, x, b)
      BY <1>1 DEF I!Dispatch, I!Accept, I!Reject, I!GiveUp
    <2>. HIDE DEF out, good, again, end
    <2>. QED  BY <2>2, <2>3, TaskFresh
  <1>2. CASE I!Escalate
    BY <1>2 DEF I!Escalate, InputsInv, Fresh
  <1>. QED  BY <1>1, <1>2 DEF I!Work

LEMMA InputsAtInit == ASSUME PortfolioInit PROVE InputsInv
  <1>1. queue = <<>> /\ status = "none"
    BY DEF PortfolioInit, I!Init
  <1>2. DOMAIN queue = {}
    BY <1>1
  <1>. QED  BY <1>1, <1>2, FS_EmptySet DEF InputsInv, Revised

LEMMA InputsStep == ASSUME InputsInv, [PortfolioNext]_Everything PROVE InputsInv'
  <1>1. ASSUME UNCHANGED inputsVars PROVE InputsInv'
    BY <1>1 DEF inputsVars, InputsInv, Fresh
  <1>. QED  BY <1>1, PlanFresh, WorkFresh DEF PortfolioNext, Certifies, Batches, Prepares, Retries, I!Next, Everything

LEMMA InputsInvariant == PortfolioSpec => []InputsInv
  BY InputsAtInit, InputsStep, PTL DEF PortfolioSpec, Everything

\* The revisions that the projection plans are those that the commit gives, for any repository,
\* scope, candidates and outage of the registry, and whatever the tasks met before.
THEOREM FreshPlansStand == PortfolioSpec => []FreshPlanStands
<1>1. InputsInv => FreshPlanStands
  BY DEF InputsInv, Fresh, FreshPlanStands, I!FreshPlanStands
<1>. QED  BY <1>1, InputsInvariant, PTL

\* Of any repository and scope: the target of a synthetic package stays what it was when its
\* task was dispatched or ended, in whatever order the dependencies around it are prepared.
THEOREM CommittedStaysFrozen == PortfolioSpec => CommittedIsFrozen
<1>. DEFINE Frozen == \A o \in DOMAIN groups \cap DOMAIN groups' :
                        (\E t \in I!TasksOf(queue, o) : queue[t].attempt \/ queue[t].status \in I!Terminal)
                          => groups'[o] = groups[o]
<1>1. InputsInv /\ I!Plan => Frozen
  <2>1. SUFFICES ASSUME Revised(queue), I!Plan, NEW o \in DOMAIN groups \cap DOMAIN groups', Acted(queue, o)
                 PROVE  groups'[o] = groups[o]
    BY DEF InputsInv, I!TasksOf, Acted
  <2>2. groups' = I!Prepared(I!Now).groups
    BY <2>1 DEF I!Plan
  <2>. QED  BY <2>1, <2>2, PreparedIs
<1>2. I!Work => UNCHANGED groups
  BY DEF I!Work, I!Dispatch, I!Accept, I!Reject, I!GiveUp, I!Escalate, I!Task
<1>3. InputsInv /\ [PortfolioNext]_Everything => [Frozen]_(I!vars)
  BY <1>1, <1>2 DEF PortfolioNext, Certifies, Batches, Prepares, Retries, inputsVars, I!vars, I!Next, Everything
<1>4. CommittedIsFrozen <=> [][Frozen]_(I!vars)
  BY DEF CommittedIsFrozen, I!CommittedIsFrozen
<1>. QED  BY <1>3, <1>4, InputsInvariant, PTL DEF PortfolioSpec, Everything

=============================================================================
