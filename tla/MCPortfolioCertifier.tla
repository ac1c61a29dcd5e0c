------------------------ MODULE MCPortfolioCertifier ------------------------
(***************************************************************************)
(* Portfolios of two occurrences with three versions each for               *)
(* PortfolioCertifier.                                                      *)
(***************************************************************************)
EXTENDS PortfolioCertifier

MCLibs == {"lib"}

\* Occurrence 1 needs version 2 or 3, occurrence 2 version 2; nothing relates them.
Plain ==
    [installed |-> <<1, 1>>, floor |-> <<2, 2>>, strategy |-> <<"version_bump", "version_bump">>,
     authorised |-> {}, severe |-> {1}, needs |-> {}, links |-> {}, tied |-> <<Versions, Versions>>,
     wants |-> {}, releases |-> [l \in Libs |-> {1, 2}], unmet |-> {}]
Peer(ver, range) == [src |-> 1, ver |-> ver, dst |-> 2, range |-> range, kind |-> "peer"]
Dep(ver, range) == [Peer(ver, range) EXCEPT !.kind = "dependency"]
Want(o, ver, range) == [src |-> o, ver |-> ver, lib |-> "lib", range |-> range]

\* 1@2 is a peer of 2@2 only, 1@3 depends on 2@3; the installed pair is a peer of a later version.
Linked == [Plain EXCEPT !.needs = {Peer(2, {2}), Dep(3, {3}), Peer(1, {1})}, !.links = {[src |-> 1, dst |-> 2, range |-> {1, 2, 3}]}]
\* Only 1@3 is secure, and it depends on 2@3, which a later batch brings.
Early == [Plain EXCEPT !.floor = <<3, 2>>, !.needs = {Dep(3, {3})}]
\* The newest releases want releases of a library that do not exist together; one pair stays physically unmet.
Evident == [Plain EXCEPT !.wants = {Want(1, 2, {1}), Want(2, 2, {2}), Want(2, 3, {1, 2})}, !.unmet = {<<1, 3>>}]
\* Nothing reaches the floor of 1, and a workaround is authorised; 2 has no finding and is tied.
Around == [Plain EXCEPT !.floor = <<4, 0>>, !.authorised = {1}, !.strategy = <<"version_bump", "no_fix">>,
                        !.tied = <<Versions, {1, 2}>>]

\* The table of a pair constraint agrees with its definition, for every set of relations
\* between the first two versions of both occurrences.
Relations == {[src |-> s, ver |-> v, dst |-> 3 - s, range |-> r, kind |-> "peer"] :
                s \in 1..2, v \in 1..2, r \in {{}, {1}, {2, 3}}}
Pair(range) == [src |-> 1, dst |-> 2, range |-> range]
ASSUME TableIsDefinition ==
    \A needs \in SUBSET Relations, range \in {{1}, {1, 2, 3}}, v, w \in Versions :
        LET q == [Plain EXCEPT !.needs = needs]
        IN  w \in MaskRow(q, Pair(range), v) <=> PairAllowed(q, Pair(range), v, w)

Easy == [engine |-> {}, refuses |-> {}, resolve |-> [r \in {} |-> "target"], breaks |-> {}, strict |-> FALSE]
Resolving(problem, how) == [Easy EXCEPT !.resolve = [r \in problem.needs |-> how]]

Both == << [occs |-> {1, 2}, go |-> TRUE] >>
Apart == << [occs |-> {1}, go |-> TRUE], [occs |-> {2}, go |-> TRUE] >>
Blocked == << [occs |-> {1}, go |-> TRUE], [occs |-> {2}, go |-> FALSE] >>

Job(kind, problem, batches, w) ==
    [kind |-> kind, problem |-> problem, batches |-> batches, world |-> w,
     slow |-> FALSE, volume |-> "host", replan |-> "none", prefix |-> FALSE, complete |-> TRUE]

Npm ==
    {Job("npm", Linked, b, Resolving(Linked, how)) : b \in {Both, Apart}, how \in {"target", "copy", "missing", "stray"}}
    \cup {Job("npm", Linked, Apart, [Resolving(Linked, "target") EXCEPT !.strict = TRUE, !.engine = e]) :
              e \in {{}, {<<1, 3>>}, {<<2, 2>>, <<1, 2>>}}}
    \cup {Job("npm", Plain, b, [Easy EXCEPT !.refuses = w, !.breaks = {<<2, 2>>}]) :
              b \in {Both, Apart, Blocked}, w \in {{}, {<<2, 1>>}, {<<3, 3>>, <<2, 3>>}, [1..2 -> {2, 3}]}}
    \cup {Job("npm", Early, b, Resolving(Early, "target")) : b \in {Both, Apart}}
    \cup {Job("npm", q, Apart, Easy) : q \in {Evident, Around}}
Others ==
    {Job(k, q, b, [Easy EXCEPT !.refuses = w]) :
        k \in {"maven", "python"}, q \in {Plain, Evident, Around}, b \in {Both, Apart},
        w \in {{}, {<<2, 2>>}, [1..2 -> {2, 3}]}}
Odd ==
    {[Job(k, Plain, Apart, Easy) EXCEPT !.volume = v, !.prefix = pre, !.replan = r, !.complete = c] :
        k \in {"npm", "maven", "python"}, v \in {"none", "host", "prefix", "other"}, r \in {"none", "prefix"}, pre \in BOOLEAN, c \in BOOLEAN}

Slow == {[Job(k, q, Apart, Easy) EXCEPT !.slow = TRUE, !.world.refuses = {<<2, 2>>, <<3, 3>>}] :
             k \in {"npm", "maven", "python"}, q \in {Plain, Around}}

MCJobs == Npm \cup Others \cup Odd \cup Slow
=============================================================================
