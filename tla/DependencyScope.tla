--------------------------- MODULE DependencyScope ---------------------------
(***************************************************************************)
(* Which direct dependencies take part in a portfolio, and at which         *)
(* version a dependency without a finding is asked to stay                  *)
(* (portfolio_orchestrator.py).                                             *)
(*                                                                          *)
(* An occurrence is a package of one manifest; occurrences are numbered in  *)
(* the order in which the code sorts their (manifest, name) keys.  A        *)
(* version is a positive number, 0 stands for none, and an npm range is the *)
(* set of the versions it contains.  A repository is a record:              *)
(*   name, manifest   of each occurrence                                    *)
(*   direct           the occurrences that a manifest declares              *)
(*   resolved         the installed version of each occurrence, or 0        *)
(*   peers            for each occurrence the ranges it asks of peer names   *)
(*   optional         the peer names that are marked optional               *)
(*   runtime          the names an occurrence depends on                    *)
(*   workspaces       sets of manifests under one workspace root            *)
(*   namespaced       the occurrences with a prefix of a coupled framework  *)
(*   parent           the declared parent of a lockfile-only occurrence     *)
(*   published        the versions of each name in the registry             *)
(*   carries          the versions of a parent that bring the child's fix   *)
(*   middle           the names between the parent and the child            *)
(***************************************************************************)
EXTENDS Naturals, Sequences, FiniteSets, SequencesExt

CONSTANT Occurrences    \* 1..n

\* _same_workspace_occurrence
Together(r, o, p) ==
    \/ r.manifest[o] = r.manifest[p]
    \/ \E w \in r.workspaces : {r.manifest[o], r.manifest[p]} \subseteq w

\* The lockfile metadata of o names the package of p.
Names(r, o, p, kind) ==
    /\ {o, p} \subseteq r.direct /\ o # p /\ Together(r, o, p)
    /\ CASE kind = "runtime" -> r.name[p] \in r.runtime[o]
         [] kind = "peer" -> r.name[p] \in DOMAIN r.peers[o] \ r.optional[o]
         [] kind = "optional_peer" -> r.name[p] \in DOMAIN r.peers[o] \cap r.optional[o]

\* _dependency_relationships: the kinds of the undirected edge between two
\* occurrences.
Kinds(r, o, p) ==
    {k \in {"runtime", "peer", "optional_peer"} : Names(r, o, p, k) \/ Names(r, p, o, k)}
    \cup {k \in {"namespace"} : o # p /\ {o, p} \subseteq r.namespaced}
    \cup {k \in {"workspace"} : /\ {o, p} \subseteq r.direct /\ r.name[o] = r.name[p]
                                /\ r.manifest[o] # r.manifest[p] /\ Together(r, o, p)}

\* A repository with its graph, which the files determine.
Linked(r) ==
    [f \in DOMAIN r \cup {"kinds"} |->
        IF f = "kinds" THEN [o \in Occurrences |-> [p \in Occurrences |-> Kinds(r, o, p)]] ELSE r[f]]
Neighbours(r, o) == {p \in Occurrences : r.kinds[o][p] # {}}

\* What an occurrence demands of a peer, if the peer is not optional.
Demands(r, o, p) == r.name[p] \in DOMAIN r.peers[o] \ r.optional[o]

\* _peer_requires_synchronized_target: a version that the peer may get lies outside
\* the range it is asked for.
MustFollow(r, o, p, known) ==
    \E e \in {<<o, p>>, <<p, o>>} :
        Demands(r, e[1], e[2]) /\ ~ known[e[2]] \subseteq r.peers[e[1]][r.name[e[2]]]

\* One neighbour in the walk of _scoped_dependency_keys.
Visit(r, walk, o, p) ==
    LET kinds == r.kinds[o][p]
        include == \/ "workspace" \in kinds
                   \/ "peer" \in kinds /\ MustFollow(r, o, p, walk.known)
    IN  IF p \in walk.allowed \/ ~include THEN walk
        ELSE [todo |-> Append(walk.todo, p), allowed |-> walk.allowed \cup {p},
              known |-> IF walk.known[p] = {} THEN [walk.known EXCEPT ![p] = walk.known[o]] ELSE walk.known]

Sorted(S) == SetToSortSeq(S, LAMBDA i, j : i < j)
Pop(r, walk) ==
    IF walk.todo = <<>> THEN walk
    ELSE LET o == Head(walk.todo)
         IN  FoldLeft(LAMBDA w, p : Visit(r, w, o, p), [walk EXCEPT !.todo = Tail(@)],
                      Sorted(Neighbours(r, o)))

\* _scoped_dependency_keys: the requested packages, what shares a workspace with them
\* and the peers that cannot stay where they are; a package that is pulled in is
\* expected at the versions of the one that pulled it.
Closure(r, requested, hints) ==
    LET seeds == {o \in r.direct : r.name[o] \in requested}
        start == [todo |-> Sorted(seeds), allowed |-> seeds,
                  known |-> [o \in Occurrences |-> IF o \in seeds THEN hints[o] ELSE {}]]
        walk[n \in 0..Cardinality(Occurrences)] == IF n = 0 THEN start ELSE Pop(r, walk[n - 1])
    IN  walk[Cardinality(Occurrences)].allowed

\* The component of an occurrence in the graph of the aligning relations.
Component(r, keys, aligning, o) ==
    LET reach[n \in 0..Cardinality(keys)] ==
            IF n = 0 THEN {o}
            ELSE {p \in keys : \E q \in reach[n - 1] : p = q \/ r.kinds[q][p] \cap aligning # {}}
    IN  reach[Cardinality(keys)]

\* The version all the seeds of a component agree on, or none.
Agreed(component, seeds) ==
    LET versions == UNION {seeds[p] : p \in component}
    IN  IF Cardinality(versions) = 1 THEN CHOOSE v \in versions : TRUE ELSE 0

\* _synthetic_target_version: the inherited version if the peers outside the
\* coordinated component accept it, else the installed one if they accept that.
SyntheticTarget(r, o, inherited, coordinated) ==
    LET aligned == \E p \in Occurrences : r.kinds[o][p] \cap {"namespace", "workspace", "peer"} # {}
        ranges == {r.peers[p][r.name[o]] : p \in {q \in Neighbours(r, o) \ coordinated : Demands(r, q, o)}}
    IN  CASE inherited = 0 \/ ~aligned -> r.resolved[o]
          [] inherited # 0 /\ aligned /\ \A range \in ranges : inherited \in range -> inherited
          [] OTHER -> IF \A range \in ranges : r.resolved[o] \in range THEN r.resolved[o] ELSE 0
=============================================================================
