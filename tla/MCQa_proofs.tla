----------------------------- MODULE MCQa_proofs -----------------------------
(***************************************************************************)
(* What the run of QA shows of the delta canaries, for any cluster, clues,  *)
(* budget and number of steps that fail; of the checkpoints, for any tasks, *)
(* versions and bounds; of the patch, for any packages and runs; and what a *)
(* pass of QA promises, for every batch of tasks, policy, workspace, answer *)
(* of the evaluator and failure of the sandbox.                             *)
(***************************************************************************)
EXTENDS MCQa, FunctionTheorems, SequenceTheorems, FiniteSetTheorems, WellFoundedInduction, TLAPS

-----------------------------------------------------------------------------
(* A finite set can be put in order. *)

\* A nonempty set of numbers has a least one.
LEMMA LeastNat == ASSUME NEW X, X \subseteq Nat, X # {}
                  PROVE  \E k \in X : \A m \in X : k <= m
  <1>1. IsWellFoundedOn({ss \in Nat \X Nat : ss[1] < ss[2]}, Nat)
    BY NatLessThanWellFounded DEF OpToRel
  <1>2. PICK n \in X : \A m \in X : ~(<<m, n>> \in {ss \in Nat \X Nat : ss[1] < ss[2]})
    BY <1>1, WFMin
  <1>3. ASSUME NEW m \in X PROVE n <= m
    <2>1. m \in Nat /\ n \in Nat
      OBVIOUS
    <2>2. ~(m < n)
      BY <1>2, <2>1
    <2>. QED  BY <2>1, <2>2
  <1>. QED  BY <1>3

\* R orders the members of a set.
Total(R, S) ==
  /\ \A x, y \in S : x # y => <<x, y>> \in R \/ <<y, x>> \in R
  /\ \A x, y, z \in S : <<x, y>> \in R /\ <<y, z>> \in R => <<x, z>> \in R
  /\ \A x \in S : <<x, x>> \notin R
InOrder(R, s) == \A i, j \in DOMAIN s : i < j => <<s[i], s[j]>> \in R

LEMMA LastExists == ASSUME NEW S, IsFiniteSet(S), S # {}, NEW R, Total(R, S)
                    PROVE  \E m \in S : \A x \in S \ {m} : <<x, m>> \in R
  <1>. DEFINE Later(x) == {y \in S : <<x, y>> \in R}
              X == {Cardinality(Later(x)) : x \in S}
  <1>1. \A x \in S : IsFiniteSet(Later(x)) /\ Cardinality(Later(x)) \in Nat
    BY FS_Subset, FS_CardinalityType
  <1>2. X \subseteq Nat /\ X # {}
    BY <1>1
  <1>3. PICK k \in X : \A n \in X : k <= n
    <2>. HIDE DEF X
    <2>. QED  BY <1>2, LeastNat
  <1>4. PICK m \in S : Cardinality(Later(m)) = k
    BY <1>3
  <1>5. ASSUME NEW y \in S, <<m, y>> \in R PROVE FALSE
    <2>1. Later(y) \subseteq Later(m) /\ y \in Later(m) /\ y \notin Later(y)
      BY <1>5 DEF Total
    <2>2. Cardinality(Later(y)) < Cardinality(Later(m))
      <3>. HIDE DEF Later
      <3>1. IsFiniteSet(Later(m)) /\ Later(y) # Later(m)
        BY <1>1, <2>1
      <3>2. Cardinality(Later(y)) <= Cardinality(Later(m)) /\ Cardinality(Later(y)) # Cardinality(Later(m))
        BY <2>1, <3>1, FS_Subset
      <3>. QED  BY <1>1, <3>2
    <2>3. k <= Cardinality(Later(y))
      <3>1. Cardinality(Later(y)) \in X
        OBVIOUS
      <3>. QED  BY <1>3, <3>1
    <2>. HIDE DEF Later
    <2>. QED  BY <1>1, <1>4, <2>2, <2>3
  <1>. QED  BY <1>5 DEF Total

LEMMA OrderExists ==
    ASSUME NEW S, IsFiniteSet(S), NEW R, Total(R, S)
    PROVE  \E s \in [1..Cardinality(S) -> S] : InOrder(R, s)
  <1>. DEFINE Ordering(V) == \E s \in [1..Cardinality(V) -> V] : InOrder(R, s)
              X == {n \in Nat : \E V \in SUBSET S : Cardinality(V) = n /\ ~Ordering(V)}
  <1>1. SUFFICES ASSUME X # {} PROVE FALSE
    BY FS_CardinalityType
  <1>2. PICK n \in X : \A m \in X : n <= m
    <2>1. X \subseteq Nat
      OBVIOUS
    <2>. HIDE DEF X
    <2>. QED  BY <1>1, <2>1, LeastNat
  <1>3. PICK V \in SUBSET S : Cardinality(V) = n /\ ~Ordering(V)
    BY <1>2
  <1>4. IsFiniteSet(V) /\ n \in Nat /\ Total(R, V)
    BY <1>2, FS_Subset DEF Total
  <1>5. V # {}
    <2>1. SUFFICES ASSUME V = {} PROVE Ordering(V)
      BY <1>3
    <2>2. Cardinality(V) = 0
      BY <2>1, FS_EmptySet
    <2>3. <<>> \in [1..0 -> V]
      OBVIOUS
    <2>4. InOrder(R, <<>>)
      BY DEF InOrder
    <2>. QED  BY <2>2, <2>3, <2>4
  <1>6. PICK m \in V : \A x \in V \ {m} : <<x, m>> \in R
    BY <1>4, <1>5, LastExists
  <1>7. IsFiniteSet(V \ {m}) /\ Cardinality(V \ {m}) = n - 1 /\ n - 1 \in Nat
    <2>. HIDE DEF X, Ordering
    <2>1. IsFiniteSet(V \ {m}) /\ Cardinality(V \ {m}) = Cardinality(V) - 1
      BY <1>4, <1>6, FS_RemoveElement
    <2>2. Cardinality(V \ {m}) \in Nat
      BY <2>1, FS_CardinalityType
    <2>. QED  BY <1>3, <2>1, <2>2
  <1>8. n - 1 \notin X
    <2>. HIDE DEF X
    <2>. QED  BY <1>2, <1>4, <1>7
  <1>9. PICK s \in [1..n - 1 -> V \ {m}] : InOrder(R, s)
    BY <1>7, <1>8
  <1>. DEFINE t == [i \in 1..n |-> IF i = n THEN m ELSE s[i]]
  <1>10. t \in [1..n -> V]
    BY <1>4, <1>6
  <1>11. InOrder(R, t)
    <2>1. SUFFICES ASSUME NEW i \in 1..n, NEW j \in 1..n, i < j PROVE <<t[i], t[j]>> \in R
      BY DEF InOrder
    <2>2. i \in 1..n - 1 /\ s[i] \in V \ {m} /\ t[i] = s[i]
      BY <1>4, <2>1
    <2>3. CASE j = n
      BY <1>6, <2>2, <2>3
    <2>4. CASE j # n
      <3>1. j \in 1..n - 1 /\ t[j] = s[j]
        BY <1>4, <2>4
      <3>. QED  BY <1>9, <2>1, <2>2, <3>1 DEF InOrder
    <2>. QED  BY <2>3, <2>4
  <1>12. Ordering(V)
    <2>. HIDE DEF t
    <2>. QED  BY <1>3, <1>10, <1>11
  <1>. QED  BY <1>3, <1>12

-----------------------------------------------------------------------------
(* The orders the canaries follow. *)

\* The instance has operators of its own for them.
LEMMA SameFinite == \A S : D!IsFiniteSet(S) <=> IsFiniteSet(S)
  BY DEF D!IsFiniteSet, IsFiniteSet

LEMMA SameSize == \A S : D!Cardinality(S) = Cardinality(S)
  BY DEF D!Cardinality, Cardinality

LEMMA ClusterSize == /\ IsFiniteSet(Cluster) /\ Cluster \subseteq Nat
                     /\ Cardinality(Cluster) \in Nat /\ Cardinality(Cluster) > 1
  BY QaAssumption, SameFinite, SameSize, FS_CardinalityType DEF QaAssumption, D!DeltaAssumption

LEMMA OrdersAreSequences ==
    ASSUME NEW s \in D!Orders
    PROVE  /\ s \in Seq(Cluster) /\ Len(s) = Cardinality(Cluster) /\ DOMAIN s = 1..Len(s)
           /\ \A i, j \in 1..Len(s) : s[i] = s[j] => i = j
  <1>1. s \in [1..Cardinality(Cluster) -> Cluster] /\ \A i, j \in DOMAIN s : s[i] = s[j] => i = j
    BY SameSize DEF D!Orders
  <1>2. s \in Seq(Cluster) /\ Len(s) = Cardinality(Cluster)
    BY <1>1, ClusterSize
  <1>. QED  BY <1>1, <1>2

LEMMA InOrderIsOrder ==
    ASSUME NEW R, Total(R, Cluster), NEW s \in [1..Cardinality(Cluster) -> Cluster], InOrder(R, s)
    PROVE  s \in D!Orders
  <1>1. SUFFICES ASSUME NEW i \in 1..Cardinality(Cluster), NEW j \in 1..Cardinality(Cluster), s[i] = s[j], i # j
                 PROVE  FALSE
    BY SameSize DEF D!Orders
  <1>2. i < j \/ j < i
    BY <1>1, ClusterSize
  <1>. QED  BY <1>1, <1>2 DEF InOrder, Total

LEMMA OrderedIsOrder == D!Ordered \in D!Orders
  <1>. DEFINE R == {r \in Cluster \X Cluster : r[1] < r[2]}
  <1>1. Total(R, Cluster)
    BY ClusterSize DEF Total
  <1>2. PICK s \in [1..Cardinality(Cluster) -> Cluster] : InOrder(R, s)
    <2>. HIDE DEF R
    <2>. QED  BY <1>1, ClusterSize, OrderExists
  <1>3. s \in D!Orders
    <2>. HIDE DEF R
    <2>. QED  BY <1>1, <1>2, InOrderIsOrder
  <1>4. \A i, j \in DOMAIN s : i < j => s[i] < s[j]
    BY <1>2 DEF InOrder
  <1>. QED  BY <1>3, <1>4 DEF D!Ordered

LEMMA RankedIsOrder == ASSUME NEW clue \in D!Hints PROVE D!Ranked(clue) \in D!Orders
  <1>. DEFINE R == {r \in Cluster \X Cluster : D!Before(clue, r[1], r[2])}
  <1>1. \A t \in Cluster : D!Score(clue[t]) \in Nat
    BY DEF D!Score
  <1>2. Total(R, Cluster)
    <2>. HIDE DEF D!Score
    <2>. QED  BY <1>1, ClusterSize DEF Total, D!Before
  <1>3. PICK s \in [1..Cardinality(Cluster) -> Cluster] : InOrder(R, s)
    <2>. HIDE DEF R
    <2>. QED  BY <1>2, ClusterSize, OrderExists
  <1>4. s \in D!Orders
    <2>. HIDE DEF R
    <2>. QED  BY <1>2, <1>3, InOrderIsOrder
  <1>5. \A i, j \in DOMAIN s : i < j => D!Before(clue, s[i], s[j])
    BY <1>3 DEF InOrder
  <1>. QED  BY <1>4, <1>5 DEF D!Ranked

-----------------------------------------------------------------------------
(* The invariant of the canaries. *)

Results == {"PASS", "FAIL", "INCONCLUSIVE"}
Trials == [subset : Seq(Cluster), outcome : Results]
\* The steps of the runner, and those of one probe.
Probing == {"base", "apply", "test", "candidate"}
Running == {"archive", "choose"} \cup Probing

DeltaTypes ==
  /\ dpc \in Running \cup {"judge", "isolate", "final", "report", "finalize", "decide", "done"}
  /\ mode \in {"bounded", "exhaustive"} /\ round \in Nat /\ restored \in BOOLEAN
  /\ probes \in Seq(Trials) /\ segment \in Seq(Cluster) /\ subset \in Seq(Cluster)
  /\ dpc \in Probing => outcome \in Results

\* The probes of these attempts are counted once: they run only while there is no record,
\* and from then on there is one.
Accounted ==
  /\ spent = Len(probes)
  /\ dpc \in Running => record = D!NoRecord
  /\ dpc \in {"final", "report"} => record.status # "NONE"
  /\ dpc \notin Running \ {"archive"} /\ record = D!NoRecord => probes = <<>>

\* Until QA has judged it again the candidate is in the volume, but for the probes.
InPlace ==
  /\ dpc = "judge" /\ round = 0 => live = "candidate"
  /\ dpc \in {"isolate", "archive"} /\ round = 1 => live = "candidate"
  /\ dpc = "report" /\ restored => live = "candidate"

\* No subset is tried twice.
Distinct ==
  /\ \A i, j \in DOMAIN probes : probes[i].subset = probes[j].subset => i = j
  /\ dpc \in Probing => ~D!Probed(subset)

\* Bounded: the suspects are tried alone and in their order, and a failure ends it.
Bounded ==
  mode = "bounded" =>
    /\ suspects \in D!Orders \/ (probes = <<>> /\ dpc \notin Running)
    /\ Len(probes) <= Budget
    /\ \A j \in DOMAIN probes :
         /\ j \in DOMAIN suspects /\ probes[j].subset = <<suspects[j]>>
         /\ probes[j].outcome = "FAIL" => j = Len(probes)
    /\ dpc \in Probing =>
         /\ Len(probes) < Budget /\ Len(probes) < Len(suspects)
         /\ subset = <<suspects[Len(probes) + 1]>>
         /\ \A j \in DOMAIN probes : probes[j].outcome # "FAIL"

FailedAlone(s) == \E j \in DOMAIN probes : probes[j].subset = s /\ probes[j].outcome = "FAIL"

\* Exhaustive: what is halved is the whole cluster or has failed alone.
Exhaustive == mode = "exhaustive" => Len(segment) > 0 /\ (segment = D!Ordered \/ FailedAlone(segment))

\* Who is blamed has failed alone, and in the bounded mode last.
Blamed ==
  record.status = "IDENTIFIED" =>
    /\ record.restored
    /\ \E t \in Cluster :
         /\ record.blamed = {t} /\ FailedAlone(<<t>>)
         /\ mode = "bounded" => suspects[Len(probes)] = t

DeltaInv ==
  /\ DeltaTypes /\ Accounted /\ InPlace /\ Distinct /\ Bounded /\ Exhaustive /\ Blamed
  /\ D!RestoredIsTrue

LEMMA OutcomeFound == ASSUME DeltaTypes, Distinct, NEW i \in DOMAIN probes
                      PROVE  D!Outcome(probes[i].subset) = probes[i].outcome
  BY DEF Distinct, D!Outcome

LEMMA DeltaAtInit == ASSUME D!Init PROVE DeltaInv
  <1>1. D!Ordered \in Seq(Cluster) /\ Len(D!Ordered) > 0
    BY OrderedIsOrder, OrdersAreSequences, ClusterSize
  <1>2. probes = <<>> /\ probes \in Seq(Trials) /\ subset = <<>> /\ subset \in Seq(Cluster)
    BY DEF D!Init
  <1>3. DOMAIN probes = {} /\ Len(probes) = 0
    BY <1>2
  <1>4. DeltaTypes /\ Accounted /\ InPlace
    BY <1>1, <1>2, <1>3 DEF D!Init, DeltaTypes, Accounted, InPlace, Running, Probing, D!NoRecord
  <1>5. Distinct /\ Bounded
    BY <1>2, <1>3, QaAssumption DEF QaAssumption, D!Init, Distinct, Bounded, Running, Probing, D!DeltaAssumption
  <1>6. Exhaustive /\ Blamed /\ D!RestoredIsTrue
    BY <1>1 DEF D!Init, Exhaustive, Blamed, D!NoRecord, D!RestoredIsTrue
  <1>. QED  BY <1>4, <1>5, <1>6 DEF DeltaInv

-----------------------------------------------------------------------------
(* One lemma per step of the QA wrapper. *)

LEMMA JudgeKeeps == ASSUME DeltaInv, D!Judge PROVE DeltaInv'
  <1>1. DeltaTypes' /\ Accounted'
    BY DEF DeltaInv, D!Judge, DeltaTypes, Accounted, Running, Probing
  <1>2. InPlace' /\ D!RestoredIsTrue'
    BY DEF DeltaInv, D!Judge, DeltaTypes, InPlace, D!RestoredIsTrue
  <1>3. Distinct' /\ Bounded' /\ Exhaustive' /\ Blamed'
    BY DEF DeltaInv, D!Judge, Distinct, Bounded, Exhaustive, Blamed, FailedAlone, Running, Probing
  <1>. QED  BY <1>1, <1>2, <1>3 DEF DeltaInv

LEMMA IsolateKeeps == ASSUME DeltaInv, D!Isolate PROVE DeltaInv'
  <1>1. CASE D!Ambiguous /\ record = D!NoRecord
    <2>1. probes = <<>> /\ probes' = <<>> /\ dpc' = "archive"
      BY <1>1 DEF DeltaInv, D!Isolate, Accounted, Running, Probing
    <2>2. mode = "bounded" => suspects' \in D!Orders
      BY <1>1, RankedIsOrder DEF D!Isolate
    <2>3. probes' = probes
      BY <2>1
    <2>4. DeltaTypes' /\ Accounted' /\ InPlace' /\ D!RestoredIsTrue'
      BY <1>1, <2>1, <2>3 DEF DeltaInv, D!Isolate, DeltaTypes, Accounted, InPlace, Running, Probing, D!RestoredIsTrue
    <2>5. Distinct' /\ Exhaustive'
      BY <2>1, <2>3 DEF DeltaInv, D!Isolate, Distinct, Exhaustive, FailedAlone, Probing
    <2>6. Bounded'
      BY <2>1, <2>2, <2>3 DEF DeltaInv, D!Isolate, Bounded, Running, Probing
    <2>7. Blamed'
      BY <1>1 DEF DeltaInv, D!Isolate, Blamed, D!NoRecord
    <2>. QED  BY <2>4, <2>5, <2>6, <2>7 DEF DeltaInv
  <1>2. CASE ~(D!Ambiguous /\ record = D!NoRecord)
    <2>1. dpc' = "finalize" /\ UNCHANGED <<suspects, probes>>
      BY <1>2 DEF D!Isolate
    <2>2. DeltaTypes' /\ Accounted' /\ InPlace' /\ D!RestoredIsTrue'
      BY <2>1 DEF DeltaInv, D!Isolate, DeltaTypes, Accounted, InPlace, Running, Probing, D!RestoredIsTrue
    <2>3. Distinct' /\ Bounded' /\ Exhaustive' /\ Blamed'
      BY <2>1 DEF DeltaInv, D!Isolate, Distinct, Bounded, Exhaustive, Blamed, FailedAlone, Running, Probing
    <2>. QED  BY <2>2, <2>3 DEF DeltaInv
  <1>. QED  BY <1>1, <1>2

LEMMA ArchiveKeeps == ASSUME DeltaInv, D!ArchiveCandidate PROVE DeltaInv'
  <1>1. DeltaTypes' /\ Accounted'
    BY DEF DeltaInv, D!ArchiveCandidate, DeltaTypes, Accounted, Running, Probing, D!NoRecord
  <1>2. InPlace' /\ D!RestoredIsTrue'
    BY DEF DeltaInv, D!ArchiveCandidate, InPlace, D!RestoredIsTrue
  <1>3. Distinct' /\ Bounded' /\ Exhaustive'
    BY DEF DeltaInv, D!ArchiveCandidate, Distinct, Bounded, Exhaustive, FailedAlone, Running, Probing
  <1>4. Blamed'
    BY DEF DeltaInv, D!ArchiveCandidate, Blamed, FailedAlone, D!NoRecord
  <1>. QED  BY <1>1, <1>2, <1>3, <1>4 DEF DeltaInv

LEMMA BaseKeeps == ASSUME DeltaInv, D!RestoreBase PROVE DeltaInv'
  <1>1. DeltaTypes' /\ Accounted' /\ InPlace' /\ D!RestoredIsTrue'
    BY DEF DeltaInv, D!RestoreBase, DeltaTypes, Accounted, InPlace, Running, Probing, D!RestoredIsTrue
  <1>2. Distinct' /\ Bounded' /\ Exhaustive' /\ Blamed'
    BY DEF DeltaInv, D!RestoreBase, Distinct, Bounded, Exhaustive, Blamed, FailedAlone, D!Probed, Running, Probing
  <1>. QED  BY <1>1, <1>2 DEF DeltaInv

LEMMA ApplyKeeps == ASSUME DeltaInv, D!ApplySubset PROVE DeltaInv'
  <1>1. DeltaTypes' /\ Accounted' /\ InPlace' /\ D!RestoredIsTrue'
    BY DEF DeltaInv, D!ApplySubset, DeltaTypes, Accounted, InPlace, Running, Probing, D!RestoredIsTrue
  <1>2. Distinct' /\ Bounded' /\ Exhaustive' /\ Blamed'
    BY DEF DeltaInv, D!ApplySubset, Distinct, Bounded, Exhaustive, Blamed, FailedAlone, D!Probed, Running, Probing
  <1>. QED  BY <1>1, <1>2 DEF DeltaInv

LEMMA TestKeeps == ASSUME DeltaInv, D!TestSubset PROVE DeltaInv'
  <1>1. DeltaTypes' /\ Accounted' /\ InPlace' /\ D!RestoredIsTrue'
    BY DEF DeltaInv, D!TestSubset, DeltaTypes, Accounted, InPlace, Running, Probing, Results, D!RestoredIsTrue
  <1>2. Distinct' /\ Bounded' /\ Exhaustive' /\ Blamed'
    BY DEF DeltaInv, D!TestSubset, Distinct, Bounded, Exhaustive, Blamed, FailedAlone, D!Probed, Running, Probing
  <1>. QED  BY <1>1, <1>2 DEF DeltaInv

LEMMA FinalKeeps == ASSUME DeltaInv, D!FinalRestore PROVE DeltaInv'
  <1>1. DeltaTypes' /\ Accounted' /\ InPlace' /\ D!RestoredIsTrue'
    BY DEF DeltaInv, D!FinalRestore, DeltaTypes, Accounted, InPlace, Running, Probing, D!NoRecord, D!RestoredIsTrue
  <1>2. Distinct' /\ Bounded' /\ Exhaustive' /\ Blamed'
    BY DEF DeltaInv, D!FinalRestore, Distinct, Bounded, Exhaustive, Blamed, FailedAlone, Running, Probing
  <1>. QED  BY <1>1, <1>2 DEF DeltaInv

LEMMA ReportKeeps == ASSUME DeltaInv, D!ReportIsolation PROVE DeltaInv'
  <1>1. DeltaTypes' /\ InPlace'
    BY DEF DeltaInv, D!ReportIsolation, DeltaTypes, InPlace, Running, Probing
  <1>2. Accounted'
    BY DEF DeltaInv, D!ReportIsolation, Accounted, Running, Probing, D!NoRecord
  <1>3. D!RestoredIsTrue'
    BY DEF DeltaInv, D!ReportIsolation, InPlace, D!RestoredIsTrue
  <1>4. Distinct' /\ Bounded' /\ Exhaustive'
    BY DEF DeltaInv, D!ReportIsolation, Distinct, Bounded, Exhaustive, FailedAlone, Running, Probing
  <1>5. Blamed'
    BY DEF DeltaInv, D!ReportIsolation, Blamed, FailedAlone
  <1>. QED  BY <1>1, <1>2, <1>3, <1>4, <1>5 DEF DeltaInv

LEMMA FinalizeKeeps == ASSUME DeltaInv, D!Finalize PROVE DeltaInv'
  <1>1. dpc = "finalize" /\ dpc' = "decide" /\ UNCHANGED <<mode, round, suspects, segment, subset,
            outcome, probes, restored, record, spent>>
    BY DEF D!Finalize
  <1>2. DeltaTypes' /\ Accounted' /\ InPlace' /\ D!RestoredIsTrue'
    BY <1>1 DEF DeltaInv, DeltaTypes, Accounted, InPlace, Running, Probing, D!RestoredIsTrue
  <1>3. Distinct' /\ Bounded' /\ Exhaustive' /\ Blamed'
    BY <1>1 DEF DeltaInv, Distinct, Bounded, Exhaustive, Blamed, FailedAlone, Running, Probing
  <1>. QED  BY <1>2, <1>3 DEF DeltaInv

LEMMA RequeueKeeps == ASSUME DeltaInv, D!RequeueQa PROVE DeltaInv'
  <1>1. DeltaTypes' /\ Accounted' /\ InPlace' /\ D!RestoredIsTrue'
    BY DEF DeltaInv, D!RequeueQa, DeltaTypes, Accounted, InPlace, Running, Probing, D!RestoredIsTrue
  <1>2. Distinct' /\ Bounded' /\ Exhaustive' /\ Blamed'
    BY DEF DeltaInv, D!RequeueQa, Distinct, Bounded, Exhaustive, Blamed, FailedAlone, Running, Probing
  <1>. QED  BY <1>1, <1>2 DEF DeltaInv

LEMMA IdleKeeps == ASSUME DeltaInv, UNCHANGED deltaVars PROVE DeltaInv'
  <1>1. DeltaTypes' /\ Accounted' /\ InPlace' /\ D!RestoredIsTrue'
    BY DEF DeltaInv, deltaVars, DeltaTypes, Accounted, InPlace, D!RestoredIsTrue
  <1>2. Distinct' /\ Bounded' /\ Exhaustive' /\ Blamed'
    BY DEF DeltaInv, deltaVars, Distinct, Bounded, Exhaustive, Blamed, FailedAlone, D!Probed
  <1>. QED  BY <1>1, <1>2 DEF DeltaInv

-----------------------------------------------------------------------------
(* The runner's choice of the next subset, and the end of a probe. *)

\* Once the next subset is chosen, the rest of what the runner keeps is as it was.
Chosen(next) == dpc' = next /\ UNCHANGED <<mode, round, live, suspects, probes, spent>>

LEMMA ProbeKeeps ==
    ASSUME DeltaInv, NEW s \in Seq(Cluster), D!Probe(s), dpc = "choose", Chosen("base"),
           ~D!Probed(s),
           mode = "bounded" => /\ Len(probes) < Budget /\ Len(probes) < Len(suspects)
                               /\ s = <<suspects[Len(probes) + 1]>>
                               /\ \A j \in DOMAIN probes : probes[j].outcome # "FAIL"
    PROVE  DeltaInv'
  <1>1. DeltaTypes' /\ Accounted' /\ InPlace' /\ D!RestoredIsTrue'
    BY DEF DeltaInv, D!Probe, Chosen, DeltaTypes, Accounted, InPlace, Running, Probing, Results, D!RestoredIsTrue
  <1>2. Distinct' /\ Exhaustive'
    BY DEF DeltaInv, D!Probe, Chosen, Distinct, Exhaustive, FailedAlone, D!Probed
  <1>3. Bounded'
    BY DEF DeltaInv, D!Probe, Chosen, Bounded, Running, Probing
  <1>4. Blamed'
    BY DEF DeltaInv, D!Probe, Chosen, Accounted, Running, Blamed, D!NoRecord
  <1>. QED  BY <1>1, <1>2, <1>3, <1>4 DEF DeltaInv

LEMMA ConcludeKeeps ==
    ASSUME DeltaInv, NEW answer \in {"IDENTIFIED", "INCONCLUSIVE", "INTERACTION_FAILURE", "AMBIGUOUS"}, NEW blamed,
           D!Conclude(answer, blamed), dpc = "choose", Chosen("final"),
           answer = "IDENTIFIED" =>
             \E t \in Cluster : /\ blamed = {t} /\ FailedAlone(<<t>>)
                                /\ mode = "bounded" => suspects[Len(probes)] = t
    PROVE  DeltaInv'
  <1>1. DeltaTypes' /\ InPlace' /\ D!RestoredIsTrue'
    BY DEF DeltaInv, D!Conclude, Chosen, DeltaTypes, InPlace, Running, Probing, D!RestoredIsTrue
  <1>2. Accounted'
    BY DEF DeltaInv, D!Conclude, Chosen, Accounted, Running, Probing, D!NoRecord
  <1>3. Distinct' /\ Bounded' /\ Exhaustive'
    BY DEF DeltaInv, D!Conclude, Chosen, Distinct, Bounded, Exhaustive, FailedAlone, Running, Probing
  <1>4. Blamed'
    BY DEF D!Conclude, Chosen, Blamed, FailedAlone
  <1>. QED  BY <1>1, <1>2, <1>3, <1>4 DEF DeltaInv

LEMMA SuspectKeeps == ASSUME DeltaInv, D!Choose, mode = "bounded" PROVE DeltaInv'
  <1>1. /\ dpc = "choose" /\ UNCHANGED <<mode, round, live, suspects, probes, spent>>
        /\ D!ChooseSuspect /\ DeltaTypes /\ Distinct /\ Bounded
    BY DEF D!Choose, DeltaInv
  <1>2. suspects \in D!Orders
    BY <1>1 DEF Bounded, Running
  <1>3. /\ suspects \in Seq(Cluster) /\ DOMAIN suspects = 1..Len(suspects) /\ Len(suspects) \in Nat
        /\ \A i, j \in 1..Len(suspects) : suspects[i] = suspects[j] => i = j
    BY <1>2, OrdersAreSequences
  <1>4. /\ probes \in Seq(Trials) /\ DOMAIN probes = 1..Len(probes) /\ Len(probes) \in Nat
        /\ Len(probes) <= Budget
        /\ \A j \in 1..Len(probes) : j \in 1..Len(suspects) /\ probes[j].subset = <<suspects[j]>>
        /\ \A j \in 1..Len(probes) : probes[j].outcome = "FAIL" => j = Len(probes)
    BY <1>1, <1>3 DEF DeltaTypes, Bounded
  <1>5. CASE D!Failed # {}
    <2>1. PICK j \in 1..Len(probes) : probes[j].outcome = "FAIL"
      BY <1>4, <1>5 DEF D!Failed
    <2>2. j = Len(probes) /\ j \in 1..Len(suspects) /\ probes[j].subset = <<suspects[j]>>
      BY <1>4, <2>1
    <2>3. D!Conclude("IDENTIFIED", D!ToSet(probes[j].subset))
      BY <1>1, <1>5, <2>2 DEF D!ChooseSuspect
    <2>4. D!ToSet(probes[j].subset) = {suspects[j]}
      BY <2>2 DEF D!ToSet
    <2>5. FailedAlone(<<suspects[j]>>) /\ suspects[j] \in Cluster
      BY <1>3, <1>4, <2>1, <2>2 DEF FailedAlone
    <2>6. Chosen("final")
      BY <1>1, <2>3 DEF D!Conclude, Chosen
    <2>. QED  BY <1>1, <2>2, <2>3, <2>4, <2>5, <2>6, ConcludeKeeps
  <1>6. CASE D!Failed = {} /\ Len(probes) = (IF Budget < Len(suspects) THEN Budget ELSE Len(suspects))
    <2>1. D!Conclude("INCONCLUSIVE", {})
      BY <1>1, <1>6 DEF D!ChooseSuspect
    <2>2. Chosen("final")
      BY <1>1, <2>1 DEF D!Conclude, Chosen
    <2>. QED  BY <1>1, <2>1, <2>2, ConcludeKeeps
  <1>7. CASE D!Failed = {} /\ Len(probes) # (IF Budget < Len(suspects) THEN Budget ELSE Len(suspects))
    <2>1. D!Probe(<<suspects[Len(probes) + 1]>>)
      BY <1>1, <1>7 DEF D!ChooseSuspect
    <2>2. Len(probes) <= Len(suspects)
      BY <1>3, <1>4
    <2>3. Budget \in Nat
      BY QaAssumption DEF QaAssumption, D!DeltaAssumption
    <2>4. /\ Len(probes) < Budget /\ Len(probes) < Len(suspects)
          /\ Len(probes) + 1 \in 1..Len(suspects) /\ Len(probes) + 1 \notin 1..Len(probes)
      <3>. DEFINE n == Len(probes)
                  k == Len(suspects)
      <3>1. n \in Nat /\ k \in Nat /\ n <= Budget /\ n <= k /\ n # (IF Budget < k THEN Budget ELSE k)
        BY <1>3, <1>4, <1>7, <2>2
      <3>. HIDE DEF n, k
      <3>2. n < Budget /\ n < k /\ n + 1 \in 1..k /\ n + 1 \notin 1..n
        BY <2>3, <3>1
      <3>. QED  BY <3>2 DEF n, k
    <2>5. suspects[Len(probes) + 1] \in Cluster
      BY <1>3, <2>4, ElementOfSeq
    <2>6. ~D!Probed(<<suspects[Len(probes) + 1]>>)
      <3>1. SUFFICES ASSUME NEW j \in 1..Len(probes), probes[j].subset = <<suspects[Len(probes) + 1]>> PROVE FALSE
        BY <1>4 DEF D!Probed
      <3>2. j \in 1..Len(suspects) /\ probes[j].subset = <<suspects[j]>>
        BY <1>4
      <3>3. suspects[j] = suspects[Len(probes) + 1]
        BY <3>1, <3>2
      <3>4. j = Len(probes) + 1
        BY <1>3, <2>4, <3>2, <3>3
      <3>. QED  BY <2>4, <3>4
    <2>7. \A j \in DOMAIN probes : probes[j].outcome # "FAIL"
      BY <1>7 DEF D!Failed
    <2>8. Chosen("base")
      BY <1>1, <2>1 DEF D!Probe, Chosen
    <2>9. <<suspects[Len(probes) + 1]>> \in Seq(Cluster)
      BY <2>5
    <2>. QED  BY <1>1, <2>1, <2>4, <2>6, <2>7, <2>8, <2>9, ProbeKeeps
  <1>. QED  BY <1>5, <1>6, <1>7

LEMMA Halves == ASSUME NEW s \in Seq(Cluster), Len(s) > 1
                PROVE  /\ D!Left(s) \in Seq(Cluster) /\ Len(D!Left(s)) > 0
                       /\ D!Right(s) \in Seq(Cluster) /\ Len(D!Right(s)) > 0
  <1>. DEFINE h == Len(s) \div 2
  <1>1. Len(s) \in Nat /\ h \in 1..Len(s) - 1
    OBVIOUS
  <1>. HIDE DEF h
  <1>2. SubSeq(s, 1, h) \in Seq(Cluster) /\ Len(SubSeq(s, 1, h)) = h
    BY <1>1, SubSeqProperties
  <1>3. SubSeq(s, h + 1, Len(s)) \in Seq(Cluster) /\ Len(SubSeq(s, h + 1, Len(s))) = Len(s) - h
    BY <1>1, SubSeqProperties
  <1>. QED  BY <1>1, <1>2, <1>3 DEF D!Left, D!Right, h

\* The outcome of a subset that was tried is that of its one probe.
LEMMA TriedOutcome ==
    ASSUME DeltaTypes, Distinct, NEW s, D!Probed(s)
    PROVE  D!Outcome(s) \in Results /\ (D!Outcome(s) = "FAIL" <=> FailedAlone(s))
  <1>1. PICK i \in DOMAIN probes : probes[i].subset = s
    BY DEF D!Probed
  <1>2. D!Outcome(s) = probes[i].outcome /\ probes[i] \in Trials
    BY <1>1, OutcomeFound DEF DeltaTypes
  <1>3. FailedAlone(s) <=> probes[i].outcome = "FAIL"
    BY <1>1 DEF Distinct, FailedAlone
  <1>. QED  BY <1>2, <1>3 DEF Trials

LEMMA HalfKeeps == ASSUME DeltaInv, D!Choose, mode = "exhaustive" PROVE DeltaInv'
  <1>. DEFINE l == D!Left(segment)
              r == D!Right(segment)
  <1>1. /\ dpc = "choose" /\ UNCHANGED <<mode, round, live, suspects, probes, spent>>
        /\ D!ChooseHalf /\ DeltaTypes /\ Distinct /\ Exhaustive
    BY DEF D!Choose, DeltaInv
  <1>2. /\ segment \in Seq(Cluster) /\ Len(segment) > 0 /\ Len(segment) \in Nat
        /\ segment = D!Ordered \/ FailedAlone(segment)
    BY <1>1 DEF DeltaTypes, Exhaustive
  <1>3. D!Ordered \in Seq(Cluster) /\ Len(D!Ordered) > 1
    BY OrderedIsOrder, OrdersAreSequences, ClusterSize
  <1>4. \A s \in Seq(Cluster) : D!Probe(s) /\ ~D!Probed(s) => DeltaInv'
    <2>1. SUFFICES ASSUME NEW s \in Seq(Cluster), D!Probe(s), ~D!Probed(s) PROVE DeltaInv'
      OBVIOUS
    <2>2. Chosen("base")
      BY <1>1, <2>1 DEF D!Probe, Chosen
    <2>. QED  BY <1>1, <2>1, <2>2, ProbeKeeps
  <1>5. \A answer \in {"INCONCLUSIVE", "INTERACTION_FAILURE", "AMBIGUOUS"} : D!Conclude(answer, {}) => DeltaInv'
    <2>1. SUFFICES ASSUME NEW answer \in {"INCONCLUSIVE", "INTERACTION_FAILURE", "AMBIGUOUS"}, D!Conclude(answer, {})
                   PROVE  DeltaInv'
      OBVIOUS
    <2>2. Chosen("final")
      BY <1>1, <2>1 DEF D!Conclude, Chosen
    <2>. QED  BY <1>1, <2>1, <2>2, ConcludeKeeps
  <1>6. CASE ~D!Probed(D!Ordered)
    BY <1>1, <1>3, <1>4, <1>6 DEF D!ChooseHalf
  <1>7. CASE D!Probed(D!Ordered) /\ D!Outcome(D!Ordered) # "FAIL"
    BY <1>1, <1>5, <1>7 DEF D!ChooseHalf
  <1>8. CASE D!Probed(D!Ordered) /\ D!Outcome(D!Ordered) = "FAIL" /\ Len(segment) = 1
    <2>1. D!Conclude("IDENTIFIED", D!ToSet(segment))
      BY <1>1, <1>8 DEF D!ChooseHalf
    <2>2. FailedAlone(segment)
      <3>1. ASSUME segment = D!Ordered PROVE FALSE
        <4>1. Len(D!Ordered) = 1
          BY <1>8, <3>1
        <4>2. ~(Len(D!Ordered) > 1)
          BY <4>1
        <4>. QED  BY <1>3, <4>2
      <3>. QED  BY <1>2, <3>1
    <2>3. segment = <<segment[1]>> /\ segment[1] \in Cluster
      <3>1. segment \in Seq(Cluster) /\ Len(segment) = 1
        BY <1>2, <1>8
      <3>. QED  BY <3>1
    <2>4. D!ToSet(segment) = {segment[1]}
      BY <1>2, <1>8 DEF D!ToSet
    <2>5. Chosen("final")
      BY <1>1, <2>1 DEF D!Conclude, Chosen
    <2>6. FailedAlone(<<segment[1]>>)
      BY <2>2, <2>3
    <2>. QED  BY <1>1, <2>1, <2>3, <2>4, <2>5, <2>6, ConcludeKeeps
  <1>9. CASE D!Probed(D!Ordered) /\ D!Outcome(D!Ordered) = "FAIL" /\ Len(segment) # 1
    <2>1. /\ l \in Seq(Cluster) /\ Len(l) > 0
          /\ r \in Seq(Cluster) /\ Len(r) > 0
      <3>1. Len(segment) > 1
        BY <1>2, <1>9
      <3>. QED  BY <1>2, <3>1, Halves
    <2>2. CASE ~D!Probed(l)
      <3>1. D!Probe(l)
        BY <1>1, <1>9, <2>2 DEF D!ChooseHalf
      <3>. QED  BY <1>4, <2>1, <2>2, <3>1
    <2>3. CASE D!Probed(l) /\ ~D!Probed(r)
      <3>1. D!Probe(r)
        BY <1>1, <1>9, <2>3 DEF D!ChooseHalf
      <3>. QED  BY <1>4, <2>1, <2>3, <3>1
    <2>4. CASE D!Probed(l) /\ D!Probed(r)
      <3>1. CASE "INCONCLUSIVE" \in {D!Outcome(l), D!Outcome(r)} \/ D!Outcome(l) = D!Outcome(r)
        <4>1. \E answer \in {"INCONCLUSIVE", "INTERACTION_FAILURE", "AMBIGUOUS"} : D!Conclude(answer, {})
          BY <1>1, <1>9, <2>4, <3>1 DEF D!ChooseHalf
        <4>. QED  BY <1>5, <4>1
      <3>2. CASE ~("INCONCLUSIVE" \in {D!Outcome(l), D!Outcome(r)} \/ D!Outcome(l) = D!Outcome(r))
        <4>1. /\ segment' = IF D!Outcome(l) = "FAIL" THEN l ELSE r
              /\ UNCHANGED <<dpc, record, subset, outcome, restored>>
          BY <1>1, <1>9, <2>4, <3>2 DEF D!ChooseHalf
        <4>2. FailedAlone(segment') /\ segment' \in Seq(Cluster) /\ Len(segment') > 0
          <5>1. D!Outcome(l) = "FAIL" \/ D!Outcome(r) = "FAIL"
            BY <1>1, <2>4, <3>2, TriedOutcome DEF Results
          <5>2. CASE D!Outcome(l) = "FAIL"
            BY <1>1, <2>1, <2>4, <4>1, <5>2, TriedOutcome
          <5>3. CASE D!Outcome(l) # "FAIL"
            BY <1>1, <2>1, <2>4, <4>1, <5>1, <5>3, TriedOutcome
          <5>. QED  BY <5>2, <5>3
        <4>3. Exhaustive'
          BY <1>1, <4>2 DEF Exhaustive, FailedAlone
        <4>4. DeltaTypes' /\ Accounted' /\ InPlace' /\ D!RestoredIsTrue'
          BY <1>1, <4>1, <4>2 DEF DeltaInv, DeltaTypes, Accounted, InPlace, Running, Probing, D!RestoredIsTrue
        <4>5. Distinct' /\ Bounded' /\ Blamed'
          BY <1>1, <4>1 DEF DeltaInv, Distinct, Bounded, Blamed, FailedAlone, Probing
        <4>. QED  BY <4>3, <4>4, <4>5 DEF DeltaInv
      <3>. QED  BY <3>1, <3>2
    <2>. QED  BY <2>2, <2>3, <2>4
  <1>. QED  BY <1>6, <1>7, <1>8, <1>9

LEMMA PutBackKeeps == ASSUME DeltaInv, D!PutBack PROVE DeltaInv'
  <1>1. PICK o \in Results :
          /\ probes' = Append(probes, [subset |-> subset, outcome |-> o])
          /\ (live' = "candidate" /\ restored' = TRUE) \/ restored' = FALSE
    BY DEF D!PutBack, DeltaInv, DeltaTypes, Probing, Results
  <1>2. /\ dpc = "candidate" /\ dpc' = "choose" /\ spent' = spent + 1
        /\ UNCHANGED <<mode, round, suspects, segment, subset, record>>
    BY DEF D!PutBack
  <1>3. /\ probes \in Seq(Trials) /\ subset \in Seq(Cluster) /\ ~D!Probed(subset)
        /\ Len(probes) \in Nat /\ DOMAIN probes = 1..Len(probes)
    BY <1>2 DEF DeltaInv, DeltaTypes, Distinct, Probing
  <1>. DEFINE trial == [subset |-> subset, outcome |-> o]
              n == Len(probes)
  <1>4. trial \in Trials
    BY <1>3 DEF Trials
  <1>5. /\ probes' \in Seq(Trials) /\ Len(probes') = n + 1 /\ DOMAIN probes' = 1..n + 1
        /\ probes'[n + 1] = trial /\ \A j \in 1..n : probes'[j] = probes[j]
    BY <1>1, <1>3, <1>4
  <1>6. trial.subset = subset /\ trial.outcome = o
    OBVIOUS
  <1>. HIDE DEF trial
  <1>7. DeltaTypes' /\ Accounted' /\ InPlace' /\ D!RestoredIsTrue'
    BY <1>1, <1>2, <1>5 DEF DeltaInv, D!PutBack, DeltaTypes, Accounted, InPlace, Running, Probing, D!RestoredIsTrue
  <1>8. Distinct'
    <2>1. \A i, j \in 1..n : probes[i].subset = probes[j].subset => i = j
      BY <1>3 DEF DeltaInv, Distinct
    <2>2. \A i \in 1..n : probes[i].subset # subset
      BY <1>3 DEF D!Probed
    <2>3. \A i, j \in 1..n + 1 : probes'[i].subset = probes'[j].subset => i = j
      <3>1. SUFFICES ASSUME NEW i \in 1..n + 1, NEW j \in 1..n + 1, probes'[i].subset = probes'[j].subset PROVE i = j
        OBVIOUS
      <3>2. (i \in 1..n \/ i = n + 1) /\ (j \in 1..n \/ j = n + 1)
        BY <1>3
      <3>. QED  BY <1>5, <1>6, <2>1, <2>2, <3>1, <3>2
    <2>. QED  BY <1>2, <1>5, <2>3 DEF Distinct, Probing
  <1>9. Bounded'
    <2>1. SUFFICES ASSUME mode = "bounded" PROVE Bounded'
      BY <1>2 DEF Bounded
    <2>2. /\ suspects \in D!Orders /\ n < Budget /\ n < Len(suspects)
          /\ subset = <<suspects[n + 1]>>
          /\ \A j \in 1..n : j \in DOMAIN suspects /\ probes[j].subset = <<suspects[j]>>
                              /\ probes[j].outcome # "FAIL"
      BY <1>2, <1>3, <2>1 DEF DeltaInv, Bounded, Running, Probing
    <2>3. n + 1 \in DOMAIN suspects
      BY <1>3, <2>2, OrdersAreSequences
    <2>4. n + 1 <= Budget
      BY <1>3, <2>2, QaAssumption DEF QaAssumption, D!DeltaAssumption
    <2>5. \A j \in 1..n + 1 : /\ j \in DOMAIN suspects /\ probes'[j].subset = <<suspects[j]>>
                              /\ probes'[j].outcome = "FAIL" => j = n + 1
      <3>1. SUFFICES ASSUME NEW j \in 1..n + 1
                     PROVE  /\ j \in DOMAIN suspects /\ probes'[j].subset = <<suspects[j]>>
                            /\ probes'[j].outcome = "FAIL" => j = n + 1
        OBVIOUS
      <3>2. j \in 1..n \/ j = n + 1
        BY <1>3
      <3>. QED  BY <1>5, <1>6, <2>2, <2>3, <3>2
    <2>. QED  BY <1>2, <1>5, <2>2, <2>4, <2>5 DEF Bounded, Probing
  <1>10. Exhaustive'
    BY <1>2, <1>3, <1>5 DEF DeltaInv, Exhaustive, FailedAlone
  <1>11. Blamed'
    BY <1>2 DEF DeltaInv, Accounted, Running, Probing, Blamed, D!NoRecord
  <1>. QED  BY <1>7, <1>8, <1>9, <1>10, <1>11 DEF DeltaInv

LEMMA DeltaInvIsKept == ASSUME DeltaInv, [QaNext]_<<machine, vars, deltaVars, prefixVars, patchVars>> PROVE DeltaInv'
  <1>1. CASE Isolates
    <2>1. ASSUME D!Choose PROVE DeltaInv'
      BY <2>1, SuspectKeeps, HalfKeeps DEF DeltaInv, DeltaTypes
    <2>. QED  BY <1>1, <2>1, JudgeKeeps, IsolateKeeps, ArchiveKeeps, BaseKeeps, ApplyKeeps, TestKeeps, PutBackKeeps,
                 FinalKeeps, ReportKeeps, FinalizeKeeps, RequeueKeeps DEF Isolates, D!Next
  <1>2. CASE UNCHANGED deltaVars
    BY <1>2, IdleKeeps
  <1>. QED  BY <1>1, <1>2 DEF QaNext, Passes, Replans, Patches

LEMMA SoundCanaries == ASSUME DeltaInv PROVE CanariesAreSound
  <1>1. D!WithinBudget
    BY DEF DeltaInv, Accounted, Bounded, Distinct, D!WithinBudget
  <1>2. D!BlameIsReproduced
    <2>1. SUFFICES ASSUME record.status = "IDENTIFIED", dpc = "finalize", round = 1 PROVE D!BlameIsReproduced
      BY DEF D!BlameIsReproduced
    <2>2. live = "candidate"
      BY <2>1 DEF DeltaInv, Blamed, D!RestoredIsTrue
    <2>3. PICK t \in Cluster : /\ record.blamed = {t} /\ FailedAlone(<<t>>)
                               /\ mode = "bounded" => suspects[Len(probes)] = t
      BY <2>1 DEF DeltaInv, Blamed
    <2>4. D!Probed(<<t>>) /\ D!Outcome(<<t>>) = "FAIL"
      <3>1. D!Probed(<<t>>)
        BY <2>3 DEF FailedAlone, D!Probed
      <3>. QED  BY <2>3, <3>1, TriedOutcome DEF DeltaInv
    <2>5. ASSUME mode = "bounded", NEW i \in 1..Len(probes) - 1
          PROVE  probes[i] # [subset |-> <<suspects[i]>>, outcome |-> "FAIL"]
      <3>1. i \in DOMAIN probes /\ i # Len(probes)
        BY DEF DeltaInv, DeltaTypes
      <3>2. probes[i].outcome # "FAIL"
        BY <2>5, <3>1 DEF DeltaInv, Bounded
      <3>. QED  BY <3>2
    <2>. QED  BY <2>2, <2>3, <2>4, <2>5 DEF D!BlameIsReproduced
  <1>. QED  BY <1>1, <1>2 DEF DeltaInv, CanariesAreSound

\* Whatever the cluster, the clues, the budget and the steps that fail: a task is blamed only
\* if its update alone failed the tests on the workspace of before the dispatch, with every
\* update suspected more tried before; a record that calls the candidate restored is right;
\* and the probes stay within their budget over all passes of QA.
THEOREM CanariesStaySound == QaSpec => []CanariesAreSound
  <1>1. QaInit => DeltaInv
    BY DeltaAtInit DEF QaInit
  <1>2. DeltaInv /\ [QaNext]_<<machine, vars, deltaVars, prefixVars, patchVars>> => DeltaInv'
    BY DeltaInvIsKept
  <1>3. DeltaInv => CanariesAreSound
    BY SoundCanaries
  <1>. QED  BY <1>1, <1>2, <1>3, PTL DEF QaSpec

-----------------------------------------------------------------------------
(* The checkpoints: a replan leaves the accepted work in the workspace as   *)
(* it is, for any number of tasks, versions, plans and rejections, as long  *)
(* as QA could take its snapshots and no task was reopened twice.           *)

\* What the property asks for; once lost, it does not come back.
Undisturbed == misses = 0 /\ \A t \in Updates : reopened[t] < 2

Inherited == plan.inherited
IsSequence(s) == s \in Seq({s[k] : k \in DOMAIN s})
Prefixes ==
  [plan : Nat, tasks : SUBSET Updates, attempts : UNION {[S -> Nat] : S \in SUBSET Updates},
   graph : [Updates -> Nat], kept : BOOLEAN]

PrefixTypes ==
  /\ phase \in {"run", "replan", "stopped"}
  /\ plan.id \in Nat \ {0} /\ plan.batches \in Seq(SUBSET Updates)
  /\ plan.inherited \in Prefixes /\ prefix \in Prefixes
  /\ standing \in [Updates -> {"PENDING", "QA_PASSED", "UNFIXABLE"}]
  /\ attempt \in [Updates -> Nat] /\ shared \in [Updates -> Nat]
  /\ IsSequence(presults)

-----------------------------------------------------------------------------
(* Whatever happened, a plan that is not lost is in one of three states: QA  *)
(* has a checkpoint of everything accepted, nothing was accepted, or what    *)
(* was inherited has been outgrown and nothing will be trusted any more.     *)

\* The tasks of a batch are worked on together, and in one batch of the plan.
PrefixBatched ==
  /\ \A i \in DOMAIN plan.batches : Updates # {} => plan.batches[i] # {}
  /\ \A i, j \in DOMAIN plan.batches : i # j => plan.batches[i] \cap plan.batches[j] = {}
  /\ phase = "run" =>
       \A i \in DOMAIN plan.batches :
         \/ \A t \in plan.batches[i] : standing[t] = "PENDING"
         \/ \A t \in plan.batches[i] : standing[t] # "PENDING"

\* Attempts are numbered as they are made.
PrefixNumbers ==
  /\ \A t \in Updates : attempt[t] <= Len(presults)
  /\ \A t \in DOMAIN prefix.attempts : prefix.attempts[t] <= Len(presults)
  /\ \A t \in DOMAIN Inherited.attempts : Inherited.attempts[t] <= Len(presults)

\* QA's checkpoint is this plan's, holds the workspace, and has every accepted task with
\* the attempt it was accepted in; the others of its tasks were inherited and reopened.
PrefixTracked ==
  /\ prefix # P!None /\ prefix.plan = plan.id /\ prefix.kept /\ prefix.graph = shared
  /\ DOMAIN prefix.attempts = prefix.tasks /\ Inherited.tasks \subseteq prefix.tasks
  /\ \A t \in P!Passed : t \in prefix.tasks /\ attempt[t] = prefix.attempts[t]
  /\ \A t \in prefix.tasks : standing[t] = "PENDING" => attempt[t] = 0 /\ reopened[t] > 0
  /\ phase = "run" => \A t \in prefix.tasks \ Inherited.tasks : standing[t] = "QA_PASSED"

Untouched == prefix = P!None /\ Inherited = P!None /\ P!Passed = {}

\* An inherited task that will never again stand as it was inherited.
Outgrown(t) ==
  /\ t \in Inherited.tasks
  /\ \/ standing[t] = "UNFIXABLE"
     \/ standing[t] = "QA_PASSED" /\ attempt[t] \notin {0, Inherited.attempts[t]} /\ reopened[t] > 0
Lost ==
  /\ prefix = P!None /\ shared # P!Base
  /\ phase = "run" => P!Passed # {}
  /\ \E t \in Updates : Outgrown(t)

PrefixKnown ==
  /\ DOMAIN Inherited.attempts = Inherited.tasks
  /\ \A t \in P!Passed : shared[t] # 0
  /\ PrefixTracked \/ Untouched \/ Lost

PrefixGoing == PrefixTypes /\ PrefixBatched /\ PrefixNumbers /\ PrefixKnown
PrefixInv ==
  /\ misses \in Nat /\ reopened \in [Updates -> Nat]
  /\ Undisturbed /\ phase # "stopped" => PrefixGoing

\* What a plan trusts is what the workspace holds.
TrustIsLive ==
  Undisturbed /\ phase # "stopped" => P!Provenance = P!None \/ (P!Provenance.kept /\ P!Provenance.graph = shared)

LEMMA SamePrefixSize == \A S : P!Cardinality(S) = Cardinality(S)
  BY DEF P!Cardinality, Cardinality

LEMMA SamePrefixFinite == \A S : P!IsFiniteSet(S) <=> IsFiniteSet(S)
  BY DEF P!IsFiniteSet, IsFiniteSet

-----------------------------------------------------------------------------
(* Sequences, numbers and prefixes. *)

LEMMA NumberedType ==
  ASSUME NEW b, P!IsFiniteSet(b), Len(presults) \in Nat
  PROVE  /\ P!Cardinality(b) \in Nat
         /\ P!Numbered(b) \in [b -> Len(presults) + 1 .. Len(presults) + P!Cardinality(b)]
<1> DEFINE n == Len(presults)
           c == P!Cardinality(b)
<1>1. c \in Nat /\ ExistsBijection(1 .. c, b)
  BY FS_CardinalityType, SamePrefixFinite, SamePrefixSize
<1>2. ExistsBijection(b, 1 .. c)
  BY <1>1, Fun_ExistsBijSymmetric
<1>3. PICK g : g \in Bijection(b, 1 .. c)
  BY <1>2, Fun_ExistsBij
<1> HIDE DEF n, c
<1>4. g \in [b -> 1 .. c] /\ \A s, t \in b : g[s] = g[t] => s = t
  BY <1>3, Fun_BijectionProperties, Zenon
<1> DEFINE h == [t \in b |-> n + g[t]]
<1>5. n \in Nat
  BY DEF n
<1>6. h \in [b -> n + 1 .. n + c]
  BY <1>1, <1>4, <1>5
<1>7. \A s, t \in b : h[s] = h[t] => s = t
  BY <1>4, <1>5
<1>8. \E f \in [b -> n + 1 .. n + c] : \A s, t \in b : f[s] = f[t] => s = t
  BY <1>6, <1>7
<1> QED
  BY <1>1, <1>8 DEF P!Numbered, n, c

LEMMA SequenceLength ==
  ASSUME NEW s, IsSequence(s)
  PROVE  Len(s) \in Nat
  BY LenProperties DEF IsSequence

LEMMA SequenceGrows ==
  ASSUME NEW s, IsSequence(s), NEW c \in Nat, NEW r, DOMAIN r = 1 .. c, r = [k \in 1 .. c |-> r[k]]
  PROVE  IsSequence(s \o r) /\ Len(s \o r) = Len(s) + c
<1> DEFINE Z == {s[k] : k \in DOMAIN s} \cup {r[k] : k \in DOMAIN r}
           q == s \o r
<1>1. s \in Seq(Z)
  BY SeqDef DEF IsSequence
<1>2. r \in Seq(Z) /\ Len(r) = c
  <2>1. r \in [1 .. c -> Z]
    OBVIOUS
  <2> QED
    BY <2>1, SeqDef, LenProperties
<1>3. q \in Seq(Z) /\ Len(q) = Len(s) + c
  BY <1>1, <1>2, ConcatProperties
<1>4. q \in Seq({q[k] : k \in DOMAIN q})
  <2>1. q \in [1 .. Len(q) -> Z] /\ Len(q) \in Nat
    BY <1>3, LenProperties
  <2>2. q \in [1 .. Len(q) -> {q[k] : k \in DOMAIN q}]
    BY <2>1
  <2> QED
    BY <2>1, <2>2, SeqDef
<1> QED
  BY <1>3, <1>4 DEF IsSequence

LEMMA BaseType == P!Base \in [Updates -> Nat]
  BY DEF P!Base

LEMMA NoneType ==
  /\ P!None \in Prefixes
  /\ P!None.plan = 0 /\ P!None.tasks = {} /\ ~P!None.kept /\ DOMAIN P!None.attempts = {}
<1>1. <<>> \in [{} -> Nat] /\ DOMAIN <<>> = {}
  OBVIOUS
<1>2. [{} -> Nat] \subseteq UNION {[S -> Nat] : S \in SUBSET Updates}
  OBVIOUS
<1> QED
  BY <1>1, <1>2, BaseType DEF P!None, Prefixes

LEMMA ReboundType ==
  ASSUME NEW p \in Prefixes, NEW n \in Nat
  PROVE  /\ P!Rebound(p, n) \in Prefixes
         /\ P!Rebound(p, n).tasks = p.tasks /\ P!Rebound(p, n).attempts = p.attempts
         /\ P!Rebound(p, n).graph = p.graph /\ P!Rebound(p, n).kept = p.kept
         /\ p = P!None => P!Rebound(p, n) = P!None
         /\ p # P!None => P!Rebound(p, n).plan = n
  BY NoneType DEF P!Rebound, Prefixes

\* The batches of a plan are disjoint parts of what is open.
LEMMA PlansParts ==
  ASSUME NEW opened \in SUBSET Updates, NEW bs \in P!Plans(opened)
  PROVE  /\ bs \in Seq(SUBSET Updates)
         /\ \A i \in DOMAIN bs : bs[i] \subseteq opened /\ (opened # {} => bs[i] # {})
         /\ \A i, j \in DOMAIN bs : i # j => bs[i] \cap bs[j] = {}
<1>1. CASE bs = <<opened>>
  BY <1>1
<1>2. CASE \E b \in (SUBSET opened) \ {{}, opened} : bs = <<b, opened \ b>>
  <2>1. PICK b \in (SUBSET opened) \ {{}, opened} : bs = <<b, opened \ b>>
    BY <1>2
  <2>2. bs \in Seq(SUBSET Updates) /\ DOMAIN bs = 1 .. 2 /\ bs[1] = b /\ bs[2] = opened \ b
    BY <2>1
  <2>3. \A i \in DOMAIN bs : i = 1 \/ i = 2
    BY <2>2
  <2> QED
    BY <2>2, <2>3
<1> QED
  BY <1>1, <1>2 DEF P!Plans

LEMMA PrefixAtInit ==
  ASSUME P!PrefixAssumption, P!Init
  PROVE  PrefixInv
<1>1. PICK bs \in P!Plans(Updates) :
        plan = [id |-> 1, batches |-> bs, base |-> P!Base, inherited |-> P!None]
  BY DEF P!Init
<1>2. plan.id = 1 /\ plan.batches = bs /\ plan.inherited = P!None
  BY <1>1
<1>3. PrefixTypes
  <2>1. IsSequence(presults)
    BY DEF P!Init, IsSequence
  <2> QED
    BY <1>2, <2>1, PlansParts, BaseType, NoneType DEF PrefixTypes, P!Init
<1>4. PrefixBatched
  BY <1>2, PlansParts DEF PrefixBatched, P!Init
<1>5. PrefixNumbers
  BY <1>2, NoneType DEF PrefixNumbers, Inherited, P!Init
<1>6. PrefixKnown
  BY <1>2, NoneType DEF PrefixKnown, Untouched, Inherited, P!Passed, P!Init
<1> QED
  BY <1>3, <1>4, <1>5, <1>6 DEF PrefixInv, PrefixGoing, P!Init, P!PrefixAssumption

-----------------------------------------------------------------------------
(* QA passes a batch. *)

\* The checkpoint old with a batch added.
Checkpoint(old, b, f, w) ==
  [plan |-> plan.id, tasks |-> old.tasks \cup b,
   attempts |-> [t \in old.tasks \cup b |-> IF t \in b THEN f[t] ELSE old.attempts[t]],
   graph |-> w, kept |-> TRUE]

HoldsBatch(c, old, b, f, w) ==
  /\ c \in Prefixes
  /\ c.plan = plan.id /\ c.tasks = old.tasks \cup b /\ c.graph = w /\ c.kept
  /\ DOMAIN c.attempts = old.tasks \cup b
  /\ \A t \in old.tasks \cup b : c.attempts[t] = IF t \in b THEN f[t] ELSE old.attempts[t]

LEMMA CheckpointFields ==
  ASSUME plan.id \in Nat, NEW old \in Prefixes, DOMAIN old.attempts = old.tasks,
         NEW b \in SUBSET Updates, NEW f \in [b -> Nat], NEW w \in [Updates -> Nat]
  PROVE  HoldsBatch(Checkpoint(old, b, f, w), old, b, f, w)
<1> DEFINE S == old.tasks \cup b
           a == [t \in S |-> IF t \in b THEN f[t] ELSE old.attempts[t]]
           c == Checkpoint(old, b, f, w)
<1>1. old.tasks \subseteq Updates /\ old.attempts \in UNION {[Z -> Nat] : Z \in SUBSET Updates}
  BY DEF Prefixes
<1>2. old.attempts \in [old.tasks -> Nat]
  BY <1>1
<1>3. a \in [S -> Nat] /\ S \in SUBSET Updates
  BY <1>1, <1>2
<1>4. a \in UNION {[Z -> Nat] : Z \in SUBSET Updates}
  BY <1>3
<1> HIDE DEF a
<1>5. c = [plan |-> plan.id, tasks |-> S, attempts |-> a, graph |-> w, kept |-> TRUE]
  BY DEF Checkpoint, a
<1> HIDE DEF c, S
<1>6. c \in Prefixes
  <2>1. [plan |-> plan.id, tasks |-> S, attempts |-> a, graph |-> w, kept |-> TRUE] \in Prefixes
    BY <1>3, <1>4, Zenon DEF Prefixes
  <2> QED
    BY <1>5, <2>1, Zenon
<1>7. c.plan = plan.id /\ c.tasks = S /\ c.graph = w /\ c.kept = TRUE /\ c.attempts = a
  BY <1>5, SMT
<1>8. DOMAIN c.attempts = S /\ \A t \in S : c.attempts[t] = IF t \in b THEN f[t] ELSE old.attempts[t]
  BY <1>7 DEF a
<1>9. HoldsBatch(c, old, b, f, w)
  BY <1>6, <1>7, <1>8 DEF HoldsBatch, S
<1> QED
  BY <1>9 DEF c

LEMMA EveryBatch ==
  ASSUME P!PrefixAssumption, PrefixTypes, NEW i \in DOMAIN plan.batches
  PROVE  /\ plan.batches[i] \in SUBSET Updates /\ P!IsFiniteSet(plan.batches[i])
         /\ Len(presults) \in Nat /\ P!Cardinality(plan.batches[i]) \in Nat
         /\ P!Numbered(plan.batches[i]) \in
              [plan.batches[i] -> Len(presults) + 1 .. Len(presults) + P!Cardinality(plan.batches[i])]
<1>1. plan.batches[i] \in SUBSET Updates
  BY DEF PrefixTypes
<1>2. P!IsFiniteSet(plan.batches[i])
  BY <1>1, FS_Subset, SamePrefixFinite DEF P!PrefixAssumption
<1>3. Len(presults) \in Nat
  BY SequenceLength DEF PrefixTypes
<1> QED
  BY <1>1, <1>2, <1>3, NumberedType

LEMMA ResultsGrow ==
  ASSUME P!PrefixAssumption, PrefixTypes, NEW i \in DOMAIN plan.batches, NEW p, NEW v, NEW g,
         presults' = presults \o P!ResultsOf(i, p, v, g)
  PROVE  IsSequence(presults') /\ Len(presults') = Len(presults) + P!Cardinality(plan.batches[i])
<1> DEFINE r == P!ResultsOf(i, p, v, g)
           c == P!Cardinality(plan.batches[i])
<1>1. c \in Nat
  BY EveryBatch
<1>2. DOMAIN r = 1 .. c /\ r = [k \in 1 .. c |-> r[k]]
  BY DEF P!ResultsOf
<1>3. IsSequence(presults)
  BY DEF PrefixTypes
<1> HIDE DEF r, c
<1>4. IsSequence(presults \o r) /\ Len(presults \o r) = Len(presults) + c
  BY <1>1, <1>2, <1>3, SequenceGrows
<1> QED
  BY <1>4 DEF r, c

\* The head batch is untouched as a whole.
LEMMA HeadIsPending ==
  ASSUME PrefixTypes, PrefixBatched, phase = "run", NEW i, P!IsHead(i)
  PROVE  /\ i \in DOMAIN plan.batches /\ plan.batches[i] # {}
         /\ \A t \in plan.batches[i] : standing[t] = "PENDING"
  BY DEF PrefixTypes, PrefixBatched, P!IsHead, P!Settled

LEMMA QaPassesKeeps ==
  ASSUME P!PrefixAssumption, PrefixInv, NEW i \in 1 .. 2, P!QaPasses(i)
  PROVE  PrefixInv'
<1> DEFINE b == plan.batches[i]
           f == P!Numbered(b)
<1>1. PICK v \in PrefixVersions, kept \in BOOLEAN :
        LET w == [t \in Updates |-> IF t \in b THEN v ELSE shared[t]]
        IN /\ misses' = IF kept THEN misses ELSE misses + 1
           /\ shared' = w
           /\ presults' = presults \o P!ResultsOf(i, TRUE, v, IF kept THEN w ELSE P!Unknown)
           /\ prefix' = IF kept THEN P!Extended(b, f, w) ELSE P!None
  BY DEF P!QaPasses
<1>2. phase = "run" /\ P!IsHead(i) /\ b \cap P!Passed = {} /\ UNCHANGED <<phase, plan, reopened>>
  BY DEF P!QaPasses
<1>3. misses' \in Nat /\ reopened' \in [Updates -> Nat]
  BY <1>1, <1>2 DEF PrefixInv
<1> SUFFICES ASSUME Undisturbed' PROVE PrefixGoing'
  BY <1>3 DEF PrefixInv
<1>4. kept /\ PrefixGoing /\ Undisturbed
  BY <1>1, <1>2 DEF PrefixInv, Undisturbed
<1> DEFINE w == shared'
           n == Len(presults)
           c == P!Cardinality(b)
<1>5. PrefixTypes /\ PrefixBatched /\ PrefixNumbers /\ PrefixKnown
  BY <1>4 DEF PrefixGoing
<1>6. /\ i \in DOMAIN plan.batches /\ b # {} /\ b \in SUBSET Updates
      /\ \A t \in b : standing[t] = "PENDING"
      /\ n \in Nat /\ c \in Nat /\ f \in [b -> n + 1 .. n + c]
  BY <1>2, <1>5, HeadIsPending, EveryBatch
<1>7. IsSequence(presults') /\ Len(presults') = n + c
  BY <1>1, <1>5, <1>6, ResultsGrow
<1>8. prefix' = P!Extended(b, f, w) /\ w = [t \in Updates |-> IF t \in b THEN v ELSE shared[t]]
  BY <1>1, <1>4
<1>9. /\ standing' = [t \in Updates |-> IF t \in b THEN "QA_PASSED" ELSE standing[t]]
      /\ attempt' = [t \in Updates |-> IF t \in b THEN f[t] ELSE attempt[t]]
  BY DEF P!QaPasses
<1> HIDE DEF b, f, w, n, c
<1>10. w \in [Updates -> Nat] /\ v \in Nat \ {0}
  BY <1>5, <1>8 DEF PrefixTypes, P!PrefixAssumption
<1>11. /\ standing' \in [Updates -> {"PENDING", "QA_PASSED", "UNFIXABLE"}] /\ attempt' \in [Updates -> Nat]
       /\ f \in [b -> Nat]
  <2>1. \A t \in b : f[t] \in Nat
    BY <1>6
  <2>2. f \in [b -> Nat]
    BY <1>6, <2>1
  <2> QED
    BY <1>5, <1>9, <2>2 DEF PrefixTypes
<1>12. P!Passed' = P!Passed \cup b
  BY <1>6, <1>9 DEF P!Passed
<1>13. PrefixBatched'
  <2>1. \A j \in DOMAIN plan.batches : j # i => plan.batches[j] \cap b = {}
    BY <1>5, <1>6 DEF PrefixBatched, b
  <2>2. \A j \in DOMAIN plan.batches : plan.batches[j] \subseteq Updates
    BY <1>5 DEF PrefixTypes
  <2>3. ASSUME NEW j \in DOMAIN plan.batches
        PROVE  \/ \A t \in plan.batches[j] : standing'[t] = "PENDING"
               \/ \A t \in plan.batches[j] : standing'[t] # "PENDING"
    BY <1>2, <1>5, <1>6, <1>9, <2>1, <2>2 DEF PrefixBatched, b
  <2> QED
    BY <1>2, <1>5, <2>3 DEF PrefixBatched
<1>14. /\ \A t \in Updates : attempt'[t] <= Len(presults')
       /\ \A t \in DOMAIN Inherited.attempts : Inherited.attempts[t] <= Len(presults')
  <2>1. \A t \in b : f[t] \in Nat /\ f[t] > n /\ f[t] <= n + c
    BY <1>6
  <2>2. \A t \in Updates : attempt[t] \in Nat /\ attempt[t] <= n
    BY <1>5 DEF PrefixNumbers, PrefixTypes, n
  <2>3. \A t \in Updates : attempt'[t] <= n + c
    BY <1>6, <1>9, <2>1, <2>2
  <2>4. Inherited \in Prefixes
    BY <1>5 DEF PrefixTypes, Inherited
  <2>5. \A t \in DOMAIN Inherited.attempts : Inherited.attempts[t] \in Nat
    BY <2>4 DEF Prefixes
  <2> QED
    BY <1>5, <1>6, <1>7, <2>3, <2>5 DEF PrefixNumbers, n
<1>15. \A t \in P!Passed' : shared'[t] # 0
  BY <1>5, <1>6, <1>8, <1>10, <1>12 DEF PrefixKnown, P!Passed, w
<1> DEFINE asked == [t \in Updates |-> IF t \in b THEN "OPTIMISTICALLY_FIXED" ELSE standing[t]]
           atts == [t \in Updates |-> IF t \in b THEN f[t] ELSE attempt[t]]
           stands == P!EvidenceStands(prefix, asked, atts)
           Added(old) == old \in Prefixes /\ DOMAIN old.attempts = old.tasks
                         /\ (\A t \in old.tasks : old.attempts[t] <= n)
                         /\ prefix' = Checkpoint(old, b, f, w)
           Dropped == prefix' = P!None
<1>16. ASSUME NEW old, Added(old)
       PROVE  /\ prefix' \in Prefixes /\ prefix' # P!None /\ prefix'.plan = plan.id
              /\ prefix'.tasks = old.tasks \cup b /\ prefix'.graph = shared' /\ prefix'.kept
              /\ DOMAIN prefix'.attempts = prefix'.tasks
              /\ \A t \in old.tasks \cup b :
                   prefix'.attempts[t] = IF t \in b THEN f[t] ELSE old.attempts[t]
              /\ \A t \in DOMAIN prefix'.attempts : prefix'.attempts[t] <= Len(presults')
  <2>1. plan.id \in Nat \ {0}
    BY <1>5 DEF PrefixTypes
  <2>2. /\ prefix' \in Prefixes /\ prefix'.plan = plan.id
        /\ prefix'.tasks = old.tasks \cup b /\ prefix'.graph = w /\ prefix'.kept
        /\ DOMAIN prefix'.attempts = old.tasks \cup b
        /\ \A t \in old.tasks \cup b :
             prefix'.attempts[t] = IF t \in b THEN f[t] ELSE old.attempts[t]
    <3>1. /\ old \in Prefixes /\ DOMAIN old.attempts = old.tasks /\ prefix' = Checkpoint(old, b, f, w)
          /\ plan.id \in Nat /\ b \in SUBSET Updates /\ f \in [b -> Nat] /\ w \in [Updates -> Nat]
      BY <1>6, <1>10, <1>11, <1>16, <2>1
    <3>2. HoldsBatch(Checkpoint(old, b, f, w), old, b, f, w)
      BY <3>1, CheckpointFields
    <3> QED
      BY <3>1, <3>2 DEF HoldsBatch
  <2>3. prefix' # P!None /\ prefix'.graph = shared'
    BY <2>1, <2>2, NoneType DEF w
  <2>4. old.attempts \in [old.tasks -> Nat]
    BY <1>16 DEF Prefixes
  <2>5. \A t \in old.tasks \cup b : prefix'.attempts[t] <= n + c
    <3>1. \A t \in b : f[t] <= n + c
      BY <1>6
    <3>2. \A t \in old.tasks : old.attempts[t] <= n + c
      BY <1>6, <1>16, <2>4
    <3> QED
      BY <2>2, <3>1, <3>2
  <2> QED
    BY <1>7, <2>2, <2>3, <2>5
<1>17. ASSUME prefix' \in Prefixes, PrefixTracked' \/ Lost',
              \A t \in DOMAIN prefix'.attempts : prefix'.attempts[t] <= Len(presults')
       PROVE  PrefixGoing'
  BY <1>2, <1>5, <1>7, <1>10, <1>11, <1>13, <1>14, <1>15, <1>17
  DEF PrefixGoing, PrefixTypes, PrefixNumbers, PrefixKnown, Inherited, w
<1>18. ASSUME Dropped, \E t \in Updates : Outgrown(t)'
       PROVE  PrefixGoing'
  <2>1. PICK t \in b : TRUE
    BY <1>6
  <2>2. shared'[t] # 0 /\ t \in P!Passed'
    BY <1>6, <1>12, <1>15, <2>1
  <2>3. shared' # P!Base
    BY <1>6, <2>1, <2>2 DEF P!Base
  <2>4. Lost'
    BY <1>18, <2>2, <2>3 DEF Lost
  <2> QED
    BY <1>17, <1>18, <2>4, NoneType
<1>19. CASE PrefixTracked
  <2>1. /\ prefix # P!None /\ prefix.plan = plan.id /\ prefix.kept
        /\ DOMAIN prefix.attempts = prefix.tasks /\ P!Passed \subseteq prefix.tasks
    BY <1>19 DEF PrefixTracked
  <2>2. prefix \in Prefixes /\ prefix.tasks \subseteq Updates
    BY <1>5 DEF PrefixTypes, Prefixes
  <2>3. P!Extended(b, f, w) = IF stands THEN Checkpoint(prefix, b, f, w) ELSE P!None
    BY <2>1 DEF P!Extended, Checkpoint
  <2>4. CASE stands
    <3>1. Added(prefix)
      BY <1>5, <1>8, <2>1, <2>2, <2>3, <2>4 DEF PrefixNumbers, n
    <3>2. PrefixTracked'
      <4>1. \A t \in P!Passed' : t \in prefix'.tasks /\ attempt'[t] = prefix'.attempts[t]
        BY <1>6, <1>9, <1>12, <1>16, <1>19, <3>1 DEF PrefixTracked, P!Passed
      <4>2. \A t \in prefix'.tasks : standing'[t] = "PENDING" => attempt'[t] = 0 /\ reopened'[t] > 0
        BY <1>2, <1>6, <1>9, <1>16, <1>19, <2>2, <3>1 DEF PrefixTracked
      <4>3. \A t \in prefix'.tasks \ Inherited.tasks : standing'[t] = "QA_PASSED"
        BY <1>2, <1>6, <1>9, <1>16, <1>19, <2>2, <3>1 DEF PrefixTracked
      <4>4. Inherited.tasks \subseteq prefix'.tasks
        BY <1>16, <1>19, <3>1 DEF PrefixTracked
      <4> QED
        BY <1>2, <1>16, <3>1, <4>1, <4>2, <4>3, <4>4 DEF PrefixTracked, Inherited
    <3> QED
      BY <1>16, <1>17, <3>1, <3>2
  <2>5. CASE ~stands
    <3>1. prefix' = P!None
      BY <1>8, <2>3, <2>5
    <3>2. PICK t \in prefix.tasks :
            ~ /\ asked[t] \in {"PENDING", "QA_PASSED"}
              /\ asked[t] = "PENDING" => atts[t] = 0
              /\ atts[t] \in {0, prefix.attempts[t]}
      BY <2>1, <2>5 DEF P!EvidenceStands
    <3>3. Inherited \in Prefixes /\ DOMAIN Inherited.attempts = Inherited.tasks
      BY <1>5 DEF PrefixTypes, Inherited, PrefixKnown
    <3>4. ASSUME t \in b PROVE Outgrown(t)'
      <4>1. t \in Inherited.tasks /\ reopened[t] > 0
        BY <1>2, <1>6, <1>19, <3>4 DEF PrefixTracked
      <4>2. Inherited.attempts[t] \in Nat /\ Inherited.attempts[t] <= n
        BY <1>5, <3>3, <4>1 DEF PrefixNumbers, Prefixes, n
      <4>3. f[t] \in Nat /\ f[t] > n
        BY <1>6, <3>4
      <4>4. standing'[t] = "QA_PASSED" /\ attempt'[t] = f[t]
        BY <1>6, <1>9, <3>4
      <4>5. attempt'[t] \notin {0, Inherited.attempts[t]}
        BY <1>6, <4>2, <4>3, <4>4
      <4> QED
        BY <1>2, <4>1, <4>4, <4>5 DEF Outgrown, Inherited
    <3>5. ASSUME t \notin b PROVE Outgrown(t)'
      <4>1. asked[t] = standing[t] /\ atts[t] = attempt[t]
        BY <2>2, <3>5
      <4>2. standing[t] = "UNFIXABLE"
        BY <1>5, <1>19, <2>2, <3>2, <4>1 DEF PrefixTracked, PrefixTypes, P!Passed
      <4>3. t \in Inherited.tasks
        BY <1>2, <1>19, <4>2 DEF PrefixTracked
      <4> QED
        BY <1>2, <1>9, <2>2, <3>5, <4>2, <4>3 DEF Outgrown, Inherited
    <3> QED
      BY <1>18, <2>2, <3>1, <3>4, <3>5
  <2> QED
    BY <2>4, <2>5
<1>20. CASE Untouched
  <2>1. prefix = P!None /\ Inherited.tasks = {} /\ P!Passed = {}
    BY <1>20, NoneType DEF Untouched
  <2>2. P!Extended(b, f, w) = Checkpoint(P!None, b, f, w)
    BY <2>1, NoneType DEF P!Extended, Checkpoint
  <2>3. Added(P!None)
    BY <1>8, <2>2, NoneType
  <2>4. prefix'.tasks = b
    BY <1>16, <2>3, NoneType
  <2>5. PrefixTracked'
    BY <1>2, <1>6, <1>9, <1>12, <1>16, <2>1, <2>3, <2>4, NoneType DEF PrefixTracked, Inherited
  <2> QED
    BY <1>16, <1>17, <2>3, <2>5
<1>21. CASE Lost
  <2>1. prefix = P!None /\ P!Passed # {}
    BY <1>2, <1>21 DEF Lost
  <2>2. PICK t \in Updates : Outgrown(t)
    BY <1>21 DEF Lost
  <2>3. P!Extended(b, f, w) = P!None
    BY <1>2, <2>1, NoneType DEF P!Extended, b
  <2>4. t \notin b
    BY <1>6, <2>2 DEF Outgrown
  <2>5. Outgrown(t)'
    BY <1>2, <1>9, <2>2, <2>4 DEF Outgrown, Inherited
  <2> QED
    BY <1>8, <1>18, <2>3, <2>5
<1> QED
  BY <1>5, <1>19, <1>20, <1>21 DEF PrefixKnown

-----------------------------------------------------------------------------
(* QA rejects a batch, or re-triage reopens one. *)

LEMMA QaRejectsKeeps ==
  ASSUME P!PrefixAssumption, PrefixInv, NEW i \in 1 .. 2, P!QaRejects(i)
  PROVE  PrefixInv'
<1> DEFINE b == plan.batches[i]
           n == Len(presults)
           c == P!Cardinality(b)
<1>1. /\ phase = "run" /\ P!IsHead(i) /\ b \cap P!Passed = {}
      /\ UNCHANGED <<phase, plan, attempt, prefix, shared, misses, reopened>>
      /\ presults' = presults \o P!ResultsOf(i, FALSE, 0, P!Unknown)
      /\ \/ standing' = standing
         \/ standing' = [t \in Updates |-> IF t \in b THEN "UNFIXABLE" ELSE standing[t]]
  BY DEF P!QaRejects
<1>2. misses' \in Nat /\ reopened' \in [Updates -> Nat] /\ (Undisturbed' <=> Undisturbed)
  BY <1>1 DEF PrefixInv, Undisturbed
<1> SUFFICES ASSUME Undisturbed' PROVE PrefixGoing'
  BY <1>2 DEF PrefixInv
<1>3. PrefixTypes /\ PrefixBatched /\ PrefixNumbers /\ PrefixKnown
  BY <1>1, <1>2 DEF PrefixInv, PrefixGoing
<1>4. /\ i \in DOMAIN plan.batches /\ b # {} /\ b \in SUBSET Updates
      /\ \A t \in b : standing[t] = "PENDING"
      /\ n \in Nat /\ c \in Nat
  BY <1>1, <1>3, HeadIsPending, EveryBatch
<1>5. IsSequence(presults') /\ Len(presults') = n + c
  BY <1>1, <1>3, <1>4, ResultsGrow
<1> HIDE DEF b, n, c
<1>6. /\ standing' \in [Updates -> {"PENDING", "QA_PASSED", "UNFIXABLE"}]
      /\ \A t \in Updates \ b : standing'[t] = standing[t]
      /\ \A t \in b : standing'[t] # "QA_PASSED"
      /\ \/ \A t \in b : standing'[t] = "PENDING"
         \/ \A t \in b : standing'[t] = "UNFIXABLE"
  BY <1>1, <1>3, <1>4 DEF PrefixTypes
<1>7. P!Passed' = P!Passed
  BY <1>4, <1>6 DEF P!Passed
<1>8. PrefixTypes'
  BY <1>1, <1>3, <1>5, <1>6 DEF PrefixTypes
<1>9. PrefixBatched'
  <2>1. \A j \in DOMAIN plan.batches : j # i => plan.batches[j] \cap b = {}
    BY <1>3, <1>4 DEF PrefixBatched, b
  <2>2. \A j \in DOMAIN plan.batches : plan.batches[j] \subseteq Updates
    BY <1>3 DEF PrefixTypes
  <2>3. ASSUME NEW j \in DOMAIN plan.batches
        PROVE  \/ \A t \in plan.batches[j] : standing'[t] = "PENDING"
               \/ \A t \in plan.batches[j] : standing'[t] # "PENDING"
    <3>1. CASE j = i
      BY <1>6, <3>1 DEF b
    <3>2. CASE j # i
      BY <1>1, <1>3, <1>6, <2>1, <2>2, <3>2 DEF PrefixBatched
    <3> QED
      BY <3>1, <3>2
  <2> QED
    BY <1>1, <1>3, <2>3 DEF PrefixBatched
<1>10. PrefixNumbers'
  <2>1. /\ \A t \in Updates : attempt[t] \in Nat /\ attempt[t] <= n
        /\ \A t \in DOMAIN prefix.attempts : prefix.attempts[t] \in Nat /\ prefix.attempts[t] <= n
        /\ \A t \in DOMAIN Inherited.attempts : Inherited.attempts[t] \in Nat /\ Inherited.attempts[t] <= n
    BY <1>3 DEF PrefixNumbers, PrefixTypes, Prefixes, Inherited, n
  <2>2. \A m \in Nat : m <= n => m <= Len(presults')
    BY <1>4, <1>5
  <2> QED
    BY <1>1, <2>1, <2>2 DEF PrefixNumbers, Inherited
<1>11. PrefixKnown'
  <2>1. CASE PrefixTracked
    <3>1. prefix.tasks \subseteq Updates
      BY <1>3 DEF PrefixTypes, Prefixes
    <3>2. \A t \in prefix.tasks : standing'[t] = "PENDING" => standing[t] = "PENDING"
      BY <1>4, <1>6, <3>1
    <3>3. \A t \in prefix.tasks \ Inherited.tasks : standing'[t] = "QA_PASSED"
      BY <1>1, <1>7, <2>1, <3>1 DEF PrefixTracked, P!Passed
    <3>4. PrefixTracked'
      BY <1>1, <1>7, <2>1, <3>2, <3>3 DEF PrefixTracked, Inherited
    <3> QED
      BY <1>1, <1>3, <1>7, <3>4 DEF PrefixKnown, Inherited
  <2>2. CASE Untouched
    BY <1>1, <1>3, <1>7, <2>2 DEF PrefixKnown, Untouched, Inherited
  <2>3. CASE Lost
    <3>1. PICK t \in Updates : Outgrown(t)
      BY <2>3 DEF Lost
    <3>2. t \notin b
      BY <1>4, <3>1 DEF Outgrown
    <3>3. Outgrown(t)'
      BY <1>1, <1>6, <3>1, <3>2 DEF Outgrown, Inherited
    <3>4. Lost'
      BY <1>1, <1>7, <2>3, <3>3 DEF Lost
    <3> QED
      BY <1>1, <1>3, <1>7, <3>4 DEF PrefixKnown, Inherited
  <2> QED
    BY <1>3, <2>1, <2>2, <2>3 DEF PrefixKnown
<1> QED
  BY <1>8, <1>9, <1>10, <1>11 DEF PrefixGoing

LEMMA ReopenKeeps ==
  ASSUME PrefixInv, NEW t \in Updates, P!Reopen(t)
  PROVE  PrefixInv'
<1>1. PICK opened \in SUBSET P!Passed :
        /\ standing' = [s \in Updates |-> IF s \in opened THEN "PENDING" ELSE standing[s]]
        /\ attempt' = [s \in Updates |-> IF s \in opened THEN 0 ELSE attempt[s]]
        /\ reopened' = [s \in Updates |-> IF s \in opened THEN reopened[s] + 1 ELSE reopened[s]]
  BY DEF P!Reopen
<1>2. /\ phase = "run" /\ phase' = "replan" /\ t \in P!Passed
      /\ UNCHANGED <<plan, presults, prefix, shared, misses>>
  BY DEF P!Reopen
<1>3. misses' \in Nat /\ reopened' \in [Updates -> Nat]
  BY <1>1, <1>2 DEF PrefixInv
<1> SUFFICES ASSUME Undisturbed' PROVE PrefixGoing'
  BY <1>3 DEF PrefixInv
<1>4. \A s \in Updates : reopened[s] \in Nat /\ reopened[s] <= reopened'[s] /\ reopened'[s] < 2
  BY <1>1 DEF PrefixInv, Undisturbed
<1>5. Undisturbed
  <2>1. \A s \in Updates : reopened[s] < 2
    BY <1>3, <1>4
  <2> QED
    BY <1>2, <2>1 DEF Undisturbed
<1>6. PrefixTypes /\ PrefixBatched /\ PrefixNumbers /\ PrefixKnown
  BY <1>2, <1>5 DEF PrefixInv, PrefixGoing
<1>7. /\ standing' \in [Updates -> {"PENDING", "QA_PASSED", "UNFIXABLE"}]
      /\ attempt' \in [Updates -> Nat] /\ \A s \in Updates : attempt'[s] <= Len(presults)
  <2>1. Len(presults) \in Nat
    BY <1>6, SequenceLength DEF PrefixTypes
  <2> QED
    BY <1>1, <1>6, <2>1 DEF PrefixTypes, PrefixNumbers
<1>8. P!Passed' = P!Passed \ opened
  BY <1>1 DEF P!Passed
<1>9. PrefixTypes'
  BY <1>2, <1>6, <1>7 DEF PrefixTypes
<1>10. PrefixBatched'
  BY <1>2, <1>6 DEF PrefixBatched
<1>11. PrefixNumbers'
  BY <1>2, <1>6, <1>7 DEF PrefixNumbers, Inherited
<1>12. PrefixKnown'
  <2>1. CASE PrefixTracked
    <3>1. prefix.tasks \subseteq Updates /\ P!Passed \subseteq Updates
      BY <1>6 DEF PrefixTypes, Prefixes, P!Passed
    <3>2. \A s \in P!Passed' : s \in prefix.tasks /\ attempt'[s] = prefix.attempts[s]
      BY <1>1, <1>8, <2>1, <3>1 DEF PrefixTracked
    <3>3. \A s \in prefix.tasks : standing'[s] = "PENDING" => attempt'[s] = 0 /\ reopened'[s] > 0
      BY <1>1, <1>4, <2>1, <3>1 DEF PrefixTracked
    <3>4. PrefixTracked'
      BY <1>2, <2>1, <3>2, <3>3 DEF PrefixTracked, Inherited
    <3> QED
      BY <1>2, <1>6, <1>8, <3>4 DEF PrefixKnown, Inherited
  <2>2. CASE Untouched
    BY <1>2, <2>2 DEF Untouched
  <2>3. CASE Lost
    <3>1. PICK s \in Updates : Outgrown(s)
      BY <2>3 DEF Lost
    <3>2. s \notin opened
      <4>1. SUFFICES ASSUME s \in opened PROVE FALSE
        OBVIOUS
      <4>2. reopened[s] > 0
        BY <3>1, <4>1 DEF Outgrown, P!Passed
      <4> QED
        BY <1>1, <1>4, <4>1, <4>2
    <3>3. standing'[s] = standing[s] /\ attempt'[s] = attempt[s] /\ reopened'[s] = reopened[s]
      BY <1>1, <3>2
    <3>4. Outgrown(s)'
      BY <1>2, <3>1, <3>3 DEF Outgrown, Inherited
    <3>5. Lost'
      BY <1>2, <2>3, <3>4 DEF Lost
    <3> QED
      BY <1>2, <1>6, <1>8, <3>5 DEF PrefixKnown, Inherited
  <2> QED
    BY <1>6, <2>1, <2>2, <2>3 DEF PrefixKnown
<1> QED
  BY <1>9, <1>10, <1>11, <1>12 DEF PrefixGoing

-----------------------------------------------------------------------------
(* A replan. *)

\* What is trusted is QA's checkpoint while it stands, and otherwise nothing.
LEMMA Trusted ==
  ASSUME PrefixTypes, PrefixBatched, PrefixKnown
  PROVE  /\ PrefixTracked => P!Provenance = IF P!EvidenceStands(prefix, standing, attempt) THEN prefix ELSE P!None
         /\ Untouched /\ Updates # {} => P!Provenance = P!None
         /\ Lost => P!Provenance = P!None
<1>1. ASSUME PrefixTracked
      PROVE  P!Provenance = IF P!EvidenceStands(prefix, standing, attempt) THEN prefix ELSE P!None
  BY <1>1 DEF PrefixTracked, P!Provenance
<1>2. ASSUME Untouched, Updates # {}
      PROVE  P!Provenance = P!None
  <2>1. prefix = P!None /\ plan.inherited = P!None /\ P!Passed = {}
    BY <1>2 DEF Untouched, Inherited
  <2>2. P!AcceptedBatches = {}
    <3>1. SUFFICES ASSUME NEW k \in P!AcceptedBatches PROVE FALSE
      OBVIOUS
    <3>2. k \in DOMAIN plan.batches /\ \A j \in 1 .. k : plan.batches[j] \subseteq P!Passed
      BY <3>1 DEF P!AcceptedBatches
    <3>3. k \in 1 .. k
      BY <3>2 DEF PrefixTypes
    <3> QED
      BY <1>2, <2>1, <3>2, <3>3 DEF PrefixBatched
  <2>3. P!Cardinality(P!AcceptedBatches) = 0
    BY <2>2, FS_EmptySet, SamePrefixSize
  <2>4. P!Rebuilt = P!None
    BY <2>1, <2>3 DEF P!Rebuilt
  <2> QED
    BY <2>1, <2>4 DEF P!Provenance
<1>3. ASSUME Lost
      PROVE  P!Provenance = P!None
  <2>1. PICK t \in Updates : Outgrown(t)
    BY <1>3 DEF Lost
  <2>2. t \in plan.inherited.tasks /\ DOMAIN plan.inherited.attempts = plan.inherited.tasks
    BY <2>1 DEF Outgrown, PrefixKnown, Inherited
  <2>3. plan.inherited # P!None /\ plan.inherited.attempts # <<>>
    BY <2>2, NoneType
  <2>4. ~P!EvidenceStands(plan.inherited, standing, attempt)
    BY <2>1, <2>2 DEF Outgrown, P!EvidenceStands, Inherited
  <2>5. P!Rebuilt = P!None
    BY <2>3, <2>4 DEF P!Rebuilt, P!InheritedStands
  <2> QED
    BY <1>3, <2>5 DEF P!Provenance, Lost
<1> QED
  BY <1>1, <1>2, <1>3

\* A replan that goes on starts from the workspace as it is.
LEMMA ReplanIsFaithful ==
  ASSUME P!PrefixAssumption, PrefixInv, P!Replan, Undisturbed, phase' = "run"
  PROVE  PrefixGoing' /\ shared' = shared
<1>1. PrefixTypes /\ PrefixBatched /\ PrefixNumbers /\ PrefixKnown
  BY DEF PrefixInv, PrefixGoing, P!Replan
<1> DEFINE p == P!Provenance
           opened == {t \in Updates : standing[t] = "PENDING"}
<1>2. /\ opened # {} /\ shared' = P!Restored(p)
      /\ P!Restored(p) = P!Base \/ (p # P!None /\ P!Restored(p) = p.graph)
      /\ \E bs \in P!Plans(opened) :
           plan' = [id |-> plan.id + 1, batches |-> bs, base |-> P!Restored(p),
                    inherited |-> P!Rebound(p, plan.id + 1)]
      /\ prefix' = plan'.inherited
      /\ UNCHANGED <<standing, attempt, presults, misses, reopened>>
  BY DEF P!Replan
<1>3. PICK bs \in P!Plans(opened) :
        plan' = [id |-> plan.id + 1, batches |-> bs, base |-> P!Restored(p),
                 inherited |-> P!Rebound(p, plan.id + 1)]
  BY <1>2
<1>4. /\ plan'.id = plan.id + 1 /\ plan'.batches = bs
      /\ plan'.inherited = P!Rebound(p, plan.id + 1) /\ prefix' = P!Rebound(p, plan.id + 1)
  BY <1>2, <1>3
<1>5. opened \in SUBSET Updates /\ opened # {} /\ Updates # {}
  BY <1>2
<1>6. /\ p = P!None \/ (PrefixTracked /\ p = prefix /\ P!EvidenceStands(prefix, standing, attempt))
      /\ PrefixTracked \/ p = P!None
  BY <1>1, <1>5, Trusted DEF PrefixKnown
<1>7. shared' = shared
  <2>1. CASE p = P!None
    BY <1>2, <2>1, NoneType DEF P!Restored
  <2>2. CASE PrefixTracked /\ p = prefix
    BY <1>2, <2>2 DEF P!Restored, PrefixTracked
  <2> QED
    BY <1>6, <2>1, <2>2
<1>8. p \in Prefixes
  BY <1>1, <1>6, NoneType DEF PrefixTypes
<1>9. plan.id \in Nat \ {0} /\ plan.id + 1 \in Nat \ {0}
  BY <1>1 DEF PrefixTypes
<1> HIDE DEF p
<1>10. /\ prefix' \in Prefixes /\ plan'.inherited = prefix'
       /\ prefix'.tasks = p.tasks /\ prefix'.attempts = p.attempts
       /\ prefix'.graph = p.graph /\ prefix'.kept = p.kept
       /\ p = P!None => prefix' = P!None
       /\ p # P!None => prefix'.plan = plan.id + 1
  BY <1>4, <1>8, <1>9, ReboundType
<1>11. PrefixTypes'
  <2>1. bs \in Seq(SUBSET Updates)
    BY <1>3, <1>5, PlansParts
  <2> QED
    BY <1>1, <1>2, <1>4, <1>7, <1>9, <1>10, <2>1 DEF PrefixTypes
<1>12. PrefixBatched'
  <2>1. /\ \A i \in DOMAIN bs : bs[i] \subseteq opened /\ bs[i] # {}
        /\ \A i, j \in DOMAIN bs : i # j => bs[i] \cap bs[j] = {}
    BY <1>3, <1>5, PlansParts
  <2> HIDE DEF opened
  <2>2. \A t \in opened : standing'[t] = "PENDING"
    BY <1>2 DEF opened
  <2> QED
    BY <1>4, <2>1, <2>2 DEF PrefixBatched
<1>13. \A t \in DOMAIN p.attempts : p.attempts[t] <= Len(presults)
  BY <1>1, <1>6, NoneType DEF PrefixNumbers
<1>14. PrefixNumbers'
  BY <1>1, <1>2, <1>10, <1>13 DEF PrefixNumbers, Inherited
<1>15. DOMAIN p.attempts = p.tasks
  BY <1>6, NoneType DEF PrefixTracked
<1>16. P!Passed' = P!Passed
  BY <1>2 DEF P!Passed
<1>17. PrefixTracked' \/ Untouched'
  <2>1. CASE p # P!None
    <3>1. p = prefix /\ PrefixTracked
      BY <1>6, <2>1
    <3>2. prefix' # P!None /\ prefix'.plan = plan'.id
      BY <1>4, <1>9, <1>10, <2>1, NoneType
    <3>3. PrefixTracked'
      BY <1>2, <1>7, <1>10, <1>16, <3>1, <3>2 DEF PrefixTracked, Inherited
    <3> QED
      BY <3>3
  <2>2. CASE p = P!None
    <3>1. shared = P!Base
      BY <1>2, <1>7, <2>2 DEF p
    <3>2. P!Passed = {}
      BY <1>1, <3>1 DEF PrefixKnown, P!Base, P!Passed
    <3>3. Untouched'
      BY <1>10, <1>16, <2>2, <3>2 DEF Untouched, Inherited
    <3> QED
      BY <3>3
  <2> QED
    BY <2>1, <2>2
<1>18. PrefixKnown'
  BY <1>1, <1>7, <1>10, <1>15, <1>16, <1>17 DEF PrefixKnown, Inherited
<1> QED
  BY <1>7, <1>11, <1>12, <1>14, <1>18 DEF PrefixGoing

LEMMA ReplanKeepsInv ==
  ASSUME P!PrefixAssumption, PrefixInv, P!Replan
  PROVE  PrefixInv'
<1>1. UNCHANGED <<misses, reopened>> /\ phase' \in {"run", "stopped"}
  BY DEF P!Replan
<1>2. Undisturbed' <=> Undisturbed
  BY <1>1 DEF Undisturbed
<1>3. Undisturbed /\ phase' = "run" => PrefixGoing'
  BY ReplanIsFaithful
<1> QED
  BY <1>1, <1>2, <1>3 DEF PrefixInv

-----------------------------------------------------------------------------
(* The theorems. *)

LEMMA PrefixInvIsKept ==
  ASSUME PrefixInv, [QaNext]_<<machine, vars, deltaVars, prefixVars, patchVars>>
  PROVE  PrefixInv'
<1>1. P!PrefixAssumption
  BY QaAssumption DEF QaAssumption
<1>2. CASE Replans
  <2>1. CASE \E i \in 1 .. 2 : P!QaPasses(i) \/ P!QaRejects(i)
    BY <1>1, <2>1, QaPassesKeeps, QaRejectsKeeps
  <2>2. CASE \E t \in Updates : P!Reopen(t)
    BY <2>2, ReopenKeeps
  <2>3. CASE P!Replan
    BY <1>1, <2>3, ReplanKeepsInv
  <2> QED
    BY <1>2, <2>1, <2>2, <2>3 DEF Replans, P!Next
<1>3. CASE UNCHANGED prefixVars
  BY <1>3 DEF PrefixInv, PrefixGoing, Undisturbed, PrefixTypes, PrefixBatched, PrefixNumbers, PrefixKnown,
       PrefixTracked, Untouched, Lost, Outgrown, Inherited, P!Passed, prefixVars
<1> QED
  BY <1>2, <1>3 DEF QaNext, Passes, Isolates, Patches

LEMMA PrefixInvariant == QaSpec => []PrefixInv
<1>1. QaInit => PrefixInv
  BY PrefixAtInit, QaAssumption DEF QaInit, QaAssumption
<1>2. PrefixInv /\ [QaNext]_<<machine, vars, deltaVars, prefixVars, patchVars>> => PrefixInv'
  BY PrefixInvIsKept
<1> QED
  BY <1>1, <1>2, PTL DEF QaSpec

\* Whatever the certificate of the next plan would trust, the shared workspace holds: the
\* snapshot that _last_qa_passed_prefix_provenance returns is the workspace itself, at any
\* moment of a run whose snapshots could be taken and in which no task was reopened twice.
THEOREM TrustedIsLive ==
  ASSUME Updates # {}
  PROVE  QaSpec => []TrustIsLive
<1>1. PrefixInv => TrustIsLive
  <2>1. SUFFICES ASSUME PrefixInv, Undisturbed, phase # "stopped"
                 PROVE  P!Provenance = P!None \/ (P!Provenance.kept /\ P!Provenance.graph = shared)
    BY DEF TrustIsLive
  <2>2. PrefixTypes /\ PrefixBatched /\ PrefixKnown
    BY <2>1 DEF PrefixInv, PrefixGoing
  <2> QED
    BY <2>2, Trusted DEF PrefixKnown, PrefixTracked
<1> QED
  BY <1>1, PrefixInvariant, PTL

\* A replan keeps the accepted work: while every snapshot could be taken and no task was
\* reopened twice, the workspace that a plan is certified on has every accepted change of
\* the plan before it, whatever was rejected, given up or reopened in between
\* (_last_qa_passed_prefix_provenance and the restoration before a plan is certified).
THEOREM ReplanKeepsAccepted == QaSpec => AcceptedSurvivesReplan
<1> DEFINE Kept == plan'.id # plan.id /\ misses = 0 /\ (\A t \in Updates : reopened[t] < 2) =>
                     \A t \in P!Passed : shared'[t] = shared[t]
<1>1. PrefixInv /\ [QaNext]_<<machine, vars, deltaVars, prefixVars, patchVars>> => [Kept]_(P!vars)
  <2>1. CASE UNCHANGED prefixVars
    BY <2>1 DEF prefixVars, P!vars
  <2>2. ASSUME PrefixInv, P!Next, plan'.id # plan.id, Undisturbed
        PROVE  shared' = shared
    <3>1. P!Replan
      BY <2>2 DEF P!Next, P!QaPasses, P!QaRejects, P!Reopen
    <3>2. phase' = "run" /\ P!PrefixAssumption
      BY <2>2, <3>1, QaAssumption DEF P!Replan, QaAssumption
    <3> QED
      BY <2>2, <3>1, <3>2, ReplanIsFaithful
  <2> QED
    BY <2>1, <2>2 DEF QaNext, Passes, Isolates, Replans, Patches, Undisturbed
<1>2. AcceptedSurvivesReplan <=> [][Kept]_(P!vars)
  BY DEF AcceptedSurvivesReplan, P!AcceptedSurvivesReplan
<1> QED
  BY <1>1, <1>2, PrefixInvariant, PTL DEF QaSpec

-----------------------------------------------------------------------------
(* The patch.  The workspace is the repository's but for what tasks did to   *)
(* it, and each such change was reported by a task that it is about; the     *)
(* node then decides by file and by name, and both ways lead to the same     *)
(* declaration in a manifest and its lockfile.                               *)

Decls == [T!Sections -> [Packages -> Nat]]
Docs == [decl : Decls, at : [T!Keys -> Nat], hash : Decls, text : Nat]
Trees == [T!Documents -> Docs]
Manifests == {"root", "member"}

\* A declaration of s, p that is v and leaves the others.
Sets(new, old, s, p, v) ==
  \A x \in T!Sections, y \in Packages : new[x][y] = IF x = s /\ y = p THEN v ELSE old[x][y]

LEMMA DeclaredIs ==
  /\ T!Declared \in Decls /\ T!Absent \in Decls
  /\ \A p \in Packages : T!Declared["main"][p] = 1 /\ T!Declared["side"][p] = 0
  <1>1. T!Absent \in Decls
    BY DEF T!Absent, Decls
  <1>2. T!Declared = [s \in T!Sections |-> IF s = "main" THEN [p \in Packages |-> 1] ELSE T!Absent[s]]
    BY <1>1 DEF T!Declared, Decls, T!Sections
  <1>3. T!Declared \in Decls
    BY <1>1, <1>2 DEF Decls
  <1>4. \A p \in Packages : T!Declared["main"][p] = 1 /\ T!Declared["side"][p] = 0
    BY <1>2 DEF T!Sections, T!Absent
  <1>. QED  BY <1>1, <1>3, <1>4

LEMMA HostIs ==
  /\ T!Host \in Trees
  /\ \A f \in Manifests : T!Host[f].decl = T!Declared /\ T!Host[f].text = 0
  /\ T!Host["lock"].hash = T!Declared /\ T!Host["lock"].text = 0
  /\ language = "npm" => \A p \in Packages : T!Host["lock"].decl["main"][p] = 1
  <1>. DEFINE empty == T!Empty
              manifest == [empty EXCEPT !.decl = T!Declared]
              at == [k \in T!Keys |-> IF Len(k) = 1 THEN 1 ELSE 0]
              decl == [s \in T!Sections |-> [p \in Packages |-> IF language = "npm" \/ s = "main" THEN 1 ELSE 0]]
              lock == [empty EXCEPT !.at = at, !.hash = T!Declared, !.decl = decl]
  <1>1. empty \in Docs /\ empty.text = 0
    BY DeclaredIs DEF T!Empty, Docs
  <1>2. at \in [T!Keys -> Nat] /\ decl \in Decls
    BY DEF Decls
  <1>3. T!Host = [f \in T!Documents |-> IF f = "source" THEN empty ELSE IF f \in Manifests THEN manifest ELSE lock]
    <2>1. \A f \in T!Documents : (f = "source" \/ f \in Manifests \/ f = "lock") /\ "source" \notin Manifests
      BY DEF T!Documents, Manifests
    <2>. QED  BY <2>1 DEF T!Host, Manifests
  <1>4. language = "npm" => \A p \in Packages : decl["main"][p] = 1
    BY DEF T!Sections
  <1>. HIDE DEF empty, at, decl
  <1>5. manifest \in Docs /\ manifest.decl = T!Declared /\ manifest.text = 0
    BY <1>1, DeclaredIs DEF Docs
  <1>6. lock \in Docs /\ lock.decl = decl /\ lock.hash = T!Declared /\ lock.text = 0
    BY <1>1, <1>2, DeclaredIs DEF Docs
  <1>. HIDE DEF manifest, lock
  <1>. QED  BY <1>1, <1>3, <1>4, <1>5, <1>6 DEF Trees, T!Documents, Manifests

LEMMA SetIs ==
  ASSUME NEW doc \in Docs, NEW s \in T!Sections, NEW p \in Packages, NEW v \in Nat
  PROVE  /\ T!Set(doc, s, p, v) \in Docs
         /\ Sets(T!Set(doc, s, p, v).decl, doc.decl, s, p, v)
         /\ T!Set(doc, s, p, v).hash = doc.hash /\ T!Set(doc, s, p, v).text = doc.text
  <1>. DEFINE d == [doc.decl EXCEPT ![s][p] = v]
  <1>1. doc.decl \in Decls
    BY DEF Docs
  <1>2. d \in Decls /\ Sets(d, doc.decl, s, p, v)
    BY <1>1 DEF Decls, Sets
  <1>3. T!Set(doc, s, p, v) = [doc EXCEPT !.decl = d]
    BY DEF T!Set
  <1>. HIDE DEF d
  <1>4. [doc EXCEPT !.decl = d] \in Docs
    BY <1>2 DEF Docs
  <1>5. /\ [doc EXCEPT !.decl = d].decl = d /\ [doc EXCEPT !.decl = d].hash = doc.hash
        /\ [doc EXCEPT !.decl = d].text = doc.text
    BY DEF Docs
  <1>. QED  BY <1>2, <1>3, <1>4, <1>5

LEMMA LockedIs ==
  ASSUME NEW doc \in Docs, NEW manifest \in Manifests, NEW p \in Packages, NEW v \in Nat
  PROVE  LET r == T!Locked(doc, manifest, p, v)
         IN  /\ r \in Docs /\ r.text = doc.text
             /\ language = "npm" /\ manifest = "root" => Sets(r.decl, doc.decl, "main", p, v)
             /\ language = "npm" /\ manifest = "member" => Sets(r.decl, doc.decl, "side", p, v)
  <1>. DEFINE section == IF language = "npm" /\ manifest = "member" THEN "side" ELSE "main"
              at == [k \in T!Keys |-> CASE k = <<p>> -> v
                                        [] Len(k) = 2 /\ k[1] = p -> IF v = 2 THEN 2 ELSE 0
                                        [] OTHER -> doc.at[k]]
              inner == T!Set(doc, section, p, v)
  <1>1. section \in T!Sections
    BY DEF T!Sections
  <1>2. inner \in Docs /\ Sets(inner.decl, doc.decl, section, p, v) /\ inner.text = doc.text
    BY <1>1, SetIs
  <1>3. at \in [T!Keys -> Nat]
    <2>1. \A k \in T!Keys : doc.at[k] \in Nat
      BY DEF Docs
    <2>2. \A k \in T!Keys : at[k] \in Nat
      <3>1. SUFFICES ASSUME NEW k \in T!Keys PROVE at[k] \in Nat
        OBVIOUS
      <3>2. CASE k = <<p>>
        BY <3>2
      <3>3. CASE k # <<p>>
        BY <2>1, <3>3
      <3>. QED  BY <3>2, <3>3
    <2>. QED  BY <2>2
  <1>4. T!Locked(doc, manifest, p, v) = [inner EXCEPT !.at = at]
    BY DEF T!Locked
  <1>. HIDE DEF inner, at
  <1>5. [inner EXCEPT !.at = at] \in Docs
    BY <1>2, <1>3 DEF Docs
  <1>6. [inner EXCEPT !.at = at].decl = inner.decl /\ [inner EXCEPT !.at = at].text = inner.text
    BY <1>2 DEF Docs
  <1>. QED  BY <1>2, <1>4, <1>5, <1>6 DEF Manifests

\* What a version of a package in a section of a manifest leaves in the workspace.
Installed(r, t, manifest, s, p, v) ==
  /\ r \in Trees
  /\ \A f \in T!Documents : r[f].text = t[f].text
  /\ Sets(r[manifest].decl, t[manifest].decl, s, p, v)
  /\ \A f \in Manifests \ {manifest} : r[f].decl = t[f].decl
  /\ language = "python" /\ manifest = "root" => r["lock"].hash = r["root"].decl
  /\ language = "python" /\ manifest = "member" => r["lock"] = t["lock"]
  /\ language = "npm" /\ manifest = "root" /\ s = "main" => Sets(r["lock"].decl, t["lock"].decl, s, p, v)
  /\ language = "npm" /\ ~(manifest = "root" /\ s = "main") => r["lock"].decl["main"] = t["lock"].decl["main"]

LEMMA InstallIs ==
  ASSUME NEW t \in Trees, NEW manifest \in Manifests, NEW s \in T!Sections, NEW p \in Packages, NEW v \in Nat,
         language \in {"npm", "python", "java"}
  PROVE  Installed(T!Install(t, manifest, s, p, v), t, manifest, s, p, v)
  <1>. DEFINE doc == T!Set(t[manifest], s, p, v)
              declared == [t EXCEPT ![manifest] = doc]
              result == T!Install(t, manifest, s, p, v)
  <1>1. /\ \A f \in T!Documents : t[f] \in Docs
        /\ manifest \in T!Documents /\ "lock" \in T!Documents /\ "root" \in T!Documents /\ "lock" \notin Manifests
    BY DEF Trees, T!Documents, Manifests
  <1>2. doc \in Docs /\ Sets(doc.decl, t[manifest].decl, s, p, v) /\ doc.text = t[manifest].text
    BY <1>1, SetIs
  <1>. HIDE DEF doc
  <1>3. /\ declared \in Trees /\ declared[manifest] = doc
        /\ \A f \in T!Documents \ {manifest} : declared[f] = t[f]
    BY <1>1, <1>2 DEF Trees
  <1>4. CASE language = "java" \/ (language = "python" /\ manifest = "member")
    <2>1. result = declared
      BY <1>4 DEF T!Install, doc
    <2>. HIDE DEF declared, result
    <2>2. \A f \in Manifests \ {manifest} : declared[f] = t[f]
      BY <1>3 DEF Manifests, T!Documents
    <2>3. declared["lock"] = t["lock"]
      BY <1>1, <1>3
    <2>. QED  BY <1>1, <1>2, <1>3, <1>4, <2>1, <2>2, <2>3 DEF Installed, result
  <1>5. CASE language = "python" /\ manifest = "root"
    <2>. DEFINE lock == T!Set(t["lock"], s, p, v)
                both == [declared EXCEPT !["lock"] = lock]
                hashed == [both["lock"] EXCEPT !.hash = both["root"].decl]
    <2>1. lock \in Docs /\ lock.text = t["lock"].text
      BY <1>1, SetIs
    <2>. HIDE DEF lock
    <2>2. declared["lock"] = t["lock"]
      BY <1>1, <1>3
    <2>3. result = T!Hashed(both)
      BY <1>5, <2>2 DEF T!Install, doc, lock
    <2>. HIDE DEF declared
    <2>4. both \in Trees /\ both["lock"] = lock /\ \A f \in T!Documents \ {"lock"} : both[f] = declared[f]
      BY <1>1, <1>3, <2>1 DEF Trees
    <2>5. T!Hashed(both) = [both EXCEPT !["lock"] = hashed]
      BY <1>5 DEF T!Hashed
    <2>. HIDE DEF both
    <2>6. both["lock"] \in Docs /\ both["root"].decl \in Decls
      BY <1>1, <2>4 DEF Trees, Docs
    <2>7. hashed \in Docs /\ hashed.hash = both["root"].decl /\ hashed.text = both["lock"].text
      BY <2>6 DEF Docs
    <2>. HIDE DEF hashed
    <2>8. /\ result \in Trees /\ result["lock"] = hashed
          /\ \A f \in T!Documents \ {"lock"} : result[f] = both[f]
      <3>1. [both EXCEPT !["lock"] = hashed] \in Trees
        BY <2>4, <2>7 DEF Trees
      <3>2. /\ [both EXCEPT !["lock"] = hashed]["lock"] = hashed
            /\ \A f \in T!Documents \ {"lock"} : [both EXCEPT !["lock"] = hashed][f] = both[f]
        BY <1>1, <2>4 DEF Trees
      <3>. QED  BY <2>3, <2>5, <3>1, <3>2
    <2>. HIDE DEF result
    <2>9. \A f \in T!Documents \ {"lock"} : result[f] = declared[f]
      BY <2>4, <2>8
    <2>10. \A f \in Manifests \ {manifest} : result[f] = t[f]
      BY <1>1, <1>3, <2>9 DEF Manifests, T!Documents
    <2>11. result[manifest] = doc
      BY <1>1, <1>3, <2>9
    <2>12. \A f \in T!Documents : result[f].text = t[f].text
      BY <1>2, <1>3, <2>1, <2>4, <2>7, <2>8, <2>9
    <2>13. result["lock"].hash = result["root"].decl
      BY <1>1, <2>4, <2>7, <2>8
    <2>. QED  BY <1>2, <1>5, <2>8, <2>10, <2>11, <2>12, <2>13 DEF Installed, result
  <1>6. CASE language = "npm"
    <2>. DEFINE old == t["lock"]
                at == [old.at EXCEPT ![<<p>>] = v]
                lock == IF s = "main" THEN T!Locked(old, manifest, p, v) ELSE [old EXCEPT !.at = at]
    <2>1. old \in Docs /\ declared["lock"] = old
      BY <1>1, <1>3
    <2>2. /\ lock \in Docs /\ lock.text = old.text
          /\ manifest = "root" /\ s = "main" => Sets(lock.decl, old.decl, "main", p, v)
          /\ ~(manifest = "root" /\ s = "main") => lock.decl["main"] = old.decl["main"]
      <3>. HIDE DEF old
      <3>1. CASE s = "main"
        <4>. DEFINE r == T!Locked(old, manifest, p, v)
        <4>1. /\ r \in Docs /\ r.text = old.text
              /\ manifest = "root" => Sets(r.decl, old.decl, "main", p, v)
              /\ manifest = "member" => Sets(r.decl, old.decl, "side", p, v)
          BY <1>6, <2>1, LockedIs
        <4>. HIDE DEF r
        <4>2. r.decl \in Decls /\ old.decl \in Decls
          BY <2>1, <4>1 DEF Docs
        <4>3. ASSUME manifest = "member" PROVE r.decl["main"] = old.decl["main"]
          <5>1. \A y \in Packages : r.decl["main"][y] = old.decl["main"][y]
            BY <4>1, <4>3 DEF Sets, T!Sections
          <5>. QED  BY <4>2, <5>1 DEF Decls, T!Sections
        <4>4. lock = r
          BY <3>1 DEF r
        <4>. HIDE DEF lock
        <4>. QED  BY <3>1, <4>1, <4>3, <4>4 DEF Manifests
      <3>2. CASE s # "main"
        <4>1. old.at \in [T!Keys -> Nat]
          BY <2>1 DEF Docs
        <4>2. at \in [T!Keys -> Nat]
          BY <4>1
        <4>. HIDE DEF at
        <4>3. lock = [old EXCEPT !.at = at]
          BY <3>2
        <4>. HIDE DEF lock
        <4>4. lock \in Docs /\ lock.text = old.text /\ lock.decl = old.decl
          BY <2>1, <4>2, <4>3 DEF Docs
        <4>. QED  BY <3>2, <4>4
      <3>. QED  BY <3>1, <3>2
    <2>3. result = [declared EXCEPT !["lock"] = lock]
      BY <1>6, <2>1 DEF T!Install, doc
    <2>. HIDE DEF lock, declared
    <2>4. /\ [declared EXCEPT !["lock"] = lock] \in Trees
          /\ [declared EXCEPT !["lock"] = lock]["lock"] = lock
          /\ \A f \in T!Documents \ {"lock"} : [declared EXCEPT !["lock"] = lock][f] = declared[f]
      BY <1>1, <1>3, <2>2 DEF Trees
    <2>5. result \in Trees /\ result["lock"] = lock /\ \A f \in T!Documents \ {"lock"} : result[f] = declared[f]
      BY <2>3, <2>4
    <2>. HIDE DEF result
    <2>6. \A f \in Manifests \ {manifest} : result[f] = t[f]
      BY <1>1, <1>3, <2>5 DEF Manifests, T!Documents
    <2>7. result[manifest] = doc
      BY <1>1, <1>3, <2>5
    <2>8. \A f \in T!Documents : result[f].text = t[f].text
      BY <1>2, <1>3, <2>2, <2>5
    <2>. QED  BY <1>2, <1>6, <2>2, <2>5, <2>6, <2>7, <2>8 DEF Installed, result
  <1>. QED  BY <1>4, <1>5, <1>6 DEF Manifests

-----------------------------------------------------------------------------
(* What is true of the workspace, and of the tree that a rejection restores. *)

Replaced(groups) == {g.target : g \in {h \in T!ToSet(groups) : h.kind = "replace"}}
GroupOf(n) == shape[queue[n].group]
Subjects(g) == {g.target, g.component}
Updating(kind) == kind \in {"direct", "override"}

PatchTasks ==
  [group : DOMAIN shape, parent : Nat, kind : T!Kinds,
   status : {"pending", "accepted", "unfixable", "inconclusive", "pivoted"}]

\* Tasks are about the groups, in the way of the group or, once a workaround took over,
\* by an edit of the source.
TasksFit ==
  /\ \E r \in Runs : shape = r.shape /\ language = r.language
  /\ \A n \in DOMAIN queue :
       /\ queue[n].group \in DOMAIN shape
       /\ queue[n].kind \in {GroupOf(n).kind, "source"}
  /\ queue \in Seq(PatchTasks)
  /\ \A r \in results : r.task \in DOMAIN queue /\ r.files \subseteq T!Documents

\* Only the source has a text; a manifest and its lockfile say the same.
Agree(t, lang) ==
  /\ t["root"].text = 0 /\ t["lock"].text = 0 /\ t["member"].text = 0
  /\ lang = "python" => t["lock"].hash = t["root"].decl
  /\ lang = "npm" => t["lock"].decl["main"] = t["root"].decl["main"]

\* What differs from the repository was reported,
Recorded(t, res) == \A f \in Manifests : t[f].decl # T!Declared => \E r \in res : f \in r.files
\* in manifest and lockfile at once, by a task that is about the package;
Owned(t, q, res, groups, lang) ==
  \A s \in T!Sections, p \in Packages :
    /\ lang = "python" \/ (lang = "npm" /\ s = "main")
    /\ t["root"].decl[s][p] # T!Declared[s][p]
    => \E r \in res : {"root", "lock"} \subseteq r.files /\ p \in Subjects(groups[q[r.task].group])
\* what is not declared any more was replaced;
Removed(t, groups) == \A p \in Packages : t["root"].decl["main"][p] = 0 => p \in Replaced(groups)
\* and what was accepted is still there.
Delivers(t, g, kind) == t[g.manifest].decl[T!Section(kind)][T!Subject(g, kind)] = 2
Kept(t, q, groups) ==
  \A n \in DOMAIN q : Updating(q[n].kind) /\ q[n].status = "accepted" => Delivers(t, groups[q[n].group], q[n].kind)

Sane(t, q, res, groups, lang) ==
  /\ t \in Trees /\ Agree(t, lang) /\ Recorded(t, res) /\ Owned(t, q, res, groups, lang)
  /\ Removed(t, groups) /\ Kept(t, q, groups)
Worked ==
  /\ TasksFit
  /\ Sane(tree, queue, results, shape, language)
  /\ open.task # 0 => /\ open.task \in DOMAIN queue /\ Sane(open.before, queue, results, shape, language)
                      /\ Updating(queue[open.task].kind) => Delivers(tree, GroupOf(open.task), queue[open.task].kind)

\* No task replaces a package that another one updates in the same manifest.
NoneReplaced ==
  \A r \in Runs : \A g, h \in T!ToSet(r.shape) :
    g.kind = "replace" /\ h.kind = "direct" /\ g.manifest = h.manifest => g.target # h.target

LEMMA GroupIs ==
  ASSUME TasksFit, NEW n \in DOMAIN queue
  PROVE  /\ GroupOf(n) \in T!Shape /\ GroupOf(n) \in T!ToSet(shape) /\ queue[n].kind \in T!Kinds
         /\ GroupOf(n).manifest \in Manifests /\ GroupOf(n).target \in Packages /\ GroupOf(n).component \in Packages
         /\ language \in {"npm", "python", "java"}
         /\ queue[n].kind # "source" => queue[n].kind = GroupOf(n).kind
  <1>1. PICK r \in Runs : shape = r.shape /\ language = r.language
    BY DEF TasksFit
  <1>2. shape \in Seq(T!Shape) /\ language \in {"npm", "python", "java"}
    BY <1>1, QaAssumption DEF QaAssumption, T!PatchAssumption
  <1>3. queue[n].group \in DOMAIN shape /\ queue[n].kind \in {GroupOf(n).kind, "source"}
    BY DEF TasksFit
  <1>4. GroupOf(n) \in T!Shape
    BY <1>2, <1>3 DEF GroupOf
  <1>5. GroupOf(n) \in T!ToSet(shape)
    BY <1>3 DEF GroupOf, T!ToSet
  <1>. HIDE DEF GroupOf
  <1>. QED  BY <1>2, <1>3, <1>4, <1>5 DEF T!Shape, T!Kinds, Manifests

\* The one declaration a task changes, and to what.
Changes(r, t, n) ==
  /\ r \in Trees
  /\ \A f \in T!Documents \ {"source"} : r[f].text = t[f].text
  /\ \A f \in Manifests, s \in T!Sections, p \in Packages :
       r[f].decl[s][p] # t[f].decl[s][p] =>
         /\ f = GroupOf(n).manifest /\ queue[n].kind # "source"
         /\ s = IF queue[n].kind = "override" THEN "side" ELSE "main"
         /\ p = IF queue[n].kind = "override" THEN GroupOf(n).component ELSE GroupOf(n).target
         /\ r[f].decl[s][p] = IF queue[n].kind = "replace" THEN 0 ELSE 2
  /\ Updating(queue[n].kind) => Delivers(r, GroupOf(n), queue[n].kind)
  /\ language = "python" /\ t["lock"].hash = t["root"].decl => r["lock"].hash = r["root"].decl
  /\ language = "npm" /\ t["lock"].decl["main"] = t["root"].decl["main"] => r["lock"].decl["main"] = r["root"].decl["main"]

LEMMA InstallChanges ==
  ASSUME TasksFit, NEW t \in Trees, NEW r, NEW n \in DOMAIN queue, queue[n].kind # "source",
         LET k == queue[n].kind
         IN  Installed(r, t, GroupOf(n).manifest, IF k = "override" THEN "side" ELSE "main",
                       IF k = "override" THEN GroupOf(n).component ELSE GroupOf(n).target,
                       IF k = "replace" THEN 0 ELSE 2)
  PROVE  Changes(r, t, n)
  <1>. DEFINE m == GroupOf(n).manifest
              s == IF queue[n].kind = "override" THEN "side" ELSE "main"
              p == IF queue[n].kind = "override" THEN GroupOf(n).component ELSE GroupOf(n).target
              v == IF queue[n].kind = "replace" THEN 0 ELSE 2
  <1>1. Installed(r, t, m, s, p, v)
    OBVIOUS
  <1>2. m \in Manifests /\ s \in T!Sections /\ p \in Packages /\ v \in Nat
    BY GroupIs DEF T!Sections
  <1>3. Updating(queue[n].kind) => s = T!Section(queue[n].kind) /\ p = T!Subject(GroupOf(n), queue[n].kind) /\ v = 2
    BY DEF Updating, T!Section, T!Subject
  <1>4. \A f \in Manifests, x \in T!Sections, y \in Packages :
           r[f].decl[x][y] # t[f].decl[x][y] => f = m /\ x = s /\ y = p /\ r[f].decl[x][y] = v
    BY <1>1, <1>2 DEF Installed, Sets
  <1>5. r[m].decl[s][p] = v
    BY <1>1, <1>2 DEF Installed, Sets
  <1>6. Updating(queue[n].kind) => Delivers(r, GroupOf(n), queue[n].kind)
    BY <1>3, <1>5 DEF Delivers
  <1>7. /\ "root" \in T!Documents /\ "lock" \in T!Documents /\ "root" \in Manifests /\ "main" \in T!Sections
        /\ \A f \in T!Documents \ {"source"} : f \in T!Documents
        /\ \A d \in Docs : d.decl \in Decls
    BY DEF T!Documents, Manifests, T!Sections, Docs
  <1>. HIDE DEF m, s, p, v
  <1>8. ASSUME language = "python", t["lock"].hash = t["root"].decl PROVE r["lock"].hash = r["root"].decl
    <2>1. CASE m = "root"
      BY <1>1, <1>8, <2>1 DEF Installed
    <2>2. CASE m # "root"
      <3>1. m = "member" /\ "root" \in Manifests \ {m}
        BY <1>2, <2>2 DEF Manifests
      <3>. QED  BY <1>1, <1>8, <3>1 DEF Installed
    <2>. QED  BY <2>1, <2>2
  <1>9. ASSUME language = "npm", t["lock"].decl["main"] = t["root"].decl["main"]
        PROVE  r["lock"].decl["main"] = r["root"].decl["main"]
    <2>1. /\ r["lock"].decl \in Decls /\ r["root"].decl \in Decls
          /\ t["lock"].decl \in Decls /\ t["root"].decl \in Decls
      BY <1>1, <1>7 DEF Installed, Trees
    <2>2. \A y \in Packages : r["lock"].decl["main"][y] = r["root"].decl["main"][y]
      <3>1. SUFFICES ASSUME NEW y \in Packages PROVE r["lock"].decl["main"][y] = r["root"].decl["main"][y]
        OBVIOUS
      <3>2. CASE m = "root" /\ s = "main"
        <4>1. Sets(r["root"].decl, t["root"].decl, "main", p, v) /\ Sets(r["lock"].decl, t["lock"].decl, "main", p, v)
          BY <1>1, <1>9, <3>2 DEF Installed
        <4>. QED  BY <1>7, <1>9, <4>1 DEF Sets
      <3>3. CASE ~(m = "root" /\ s = "main")
        <4>1. r["lock"].decl["main"] = t["lock"].decl["main"]
          BY <1>1, <1>9, <3>3 DEF Installed
        <4>2. r["root"].decl["main"][y] = t["root"].decl["main"][y]
          BY <1>4, <1>7, <3>3
        <4>. QED  BY <1>9, <4>1, <4>2
      <3>. QED  BY <3>2, <3>3
    <2>. QED  BY <1>7, <2>1, <2>2 DEF Decls
  <1>10. r \in Trees /\ \A f \in T!Documents \ {"source"} : r[f].text = t[f].text
    BY <1>1 DEF Installed
  <1>. QED  BY <1>4, <1>6, <1>8, <1>9, <1>10 DEF Changes, m, s, p, v

LEMMA ChangeIs ==
  ASSUME TasksFit, NEW t \in Trees, NEW n \in DOMAIN queue
  PROVE  Changes(T!Change(n, t), t, n)
  <1>. DEFINE g == GroupOf(n)
              r == T!Change(n, t)
  <1>1. g \in T!Shape /\ g.manifest \in Manifests /\ g.target \in Packages /\ g.component \in Packages
        /\ language \in {"npm", "python", "java"} /\ queue[n].kind \in T!Kinds
    BY GroupIs
  <1>2. "main" \in T!Sections /\ "side" \in T!Sections /\ 0 \in Nat /\ 2 \in Nat
    BY DEF T!Sections
  <1>3. CASE queue[n].kind = "direct"
    <2>1. r = T!Install(t, g.manifest, "main", g.target, 2)
      BY <1>3 DEF T!Change, GroupOf
    <2>2. Installed(r, t, g.manifest, "main", g.target, 2)
      BY <1>1, <1>2, <2>1, InstallIs
    <2>. QED  BY <1>3, <2>2, InstallChanges
  <1>4. CASE queue[n].kind = "override"
    <2>1. r = T!Install(t, g.manifest, "side", g.component, 2)
      BY <1>4 DEF T!Change, GroupOf
    <2>2. Installed(r, t, g.manifest, "side", g.component, 2)
      BY <1>1, <1>2, <2>1, InstallIs
    <2>. QED  BY <1>4, <2>2, InstallChanges
  <1>5. CASE queue[n].kind = "replace"
    <2>1. r = T!Install(t, g.manifest, "main", g.target, 0)
      BY <1>5 DEF T!Change, GroupOf
    <2>2. Installed(r, t, g.manifest, "main", g.target, 0)
      BY <1>1, <1>2, <2>1, InstallIs
    <2>. QED  BY <1>5, <2>2, InstallChanges
  <1>6. CASE queue[n].kind = "source"
    <2>. DEFINE doc == [t["source"] EXCEPT !.text = n]
    <2>1. r = [t EXCEPT !["source"] = doc]
      BY <1>6 DEF T!Change
    <2>2. "source" \in T!Documents /\ t["source"] \in Docs /\ n \in Nat
      BY DEF T!Documents, Trees, TasksFit
    <2>3. doc \in Docs
      BY <2>2 DEF Docs
    <2>. HIDE DEF doc
    <2>4. r \in Trees /\ \A f \in T!Documents \ {"source"} : r[f] = t[f]
      <3>1. [t EXCEPT !["source"] = doc] \in Trees
        BY <2>3 DEF Trees
      <3>2. \A f \in T!Documents \ {"source"} : [t EXCEPT !["source"] = doc][f] = t[f]
        BY DEF Trees
      <3>. QED  BY <2>1, <3>1, <3>2
    <2>. HIDE DEF r
    <2>5. /\ \A f \in Manifests : f \in T!Documents \ {"source"}
          /\ "lock" \in T!Documents \ {"source"} /\ "root" \in T!Documents \ {"source"}
      BY DEF Manifests, T!Documents
    <2>6. ~Updating(queue[n].kind)
      BY <1>6 DEF Updating
    <2>. QED  BY <2>4, <2>5, <2>6 DEF Changes, r
  <1>. QED  BY <1>1, <1>3, <1>4, <1>5, <1>6 DEF T!Kinds

-----------------------------------------------------------------------------
(* Every step of the run keeps it. *)

LEMMA SaneStays ==
  ASSUME NEW t, NEW q, NEW q2, NEW res, NEW res2, NEW groups, NEW lang,
         Sane(t, q, res, groups, lang), res \subseteq res2, DOMAIN q \subseteq DOMAIN q2,
         \A n \in DOMAIN q : q2[n].group = q[n].group /\ q2[n].kind = q[n].kind,
         \A r \in res : r.task \in DOMAIN q,
         \A n \in DOMAIN q2 : Updating(q2[n].kind) /\ q2[n].status = "accepted" =>
           (n \in DOMAIN q /\ q[n].status = "accepted") \/ Delivers(t, groups[q2[n].group], q2[n].kind)
  PROVE  Sane(t, q2, res2, groups, lang)
  <1>1. Recorded(t, res2)
    BY DEF Sane, Recorded
  <1>2. Owned(t, q2, res2, groups, lang)
    BY DEF Sane, Owned
  <1>3. Kept(t, q2, groups)
    BY DEF Sane, Kept
  <1>. QED  BY <1>1, <1>2, <1>3 DEF Sane

LEMMA SaneHost ==
  ASSUME NEW q, NEW res, NEW groups,
         \A n \in DOMAIN q : Updating(q[n].kind) => q[n].status # "accepted"
  PROVE  Sane(T!Host, q, res, groups, language)
  <1>1. T!Host["lock"] \in Docs /\ T!Host["root"].decl = T!Declared
    BY HostIs DEF Trees, T!Documents, Manifests
  <1>2. language = "npm" => T!Host["lock"].decl["main"] = T!Declared["main"]
    <2>1. T!Host["lock"].decl \in Decls /\ T!Declared \in Decls /\ "main" \in T!Sections
      BY <1>1, DeclaredIs DEF Docs, T!Sections
    <2>2. T!Host["lock"].decl["main"] \in [Packages -> Nat] /\ T!Declared["main"] \in [Packages -> Nat]
      BY <2>1 DEF Decls
    <2>3. language = "npm" => \A p \in Packages : T!Host["lock"].decl["main"][p] = T!Declared["main"][p]
      BY HostIs, DeclaredIs
    <2>. QED  BY <2>2, <2>3
  <1>3. Agree(T!Host, language)
    BY <1>1, <1>2, HostIs DEF Agree, Manifests
  <1>4. Recorded(T!Host, res) /\ Owned(T!Host, q, res, groups, language) /\ Kept(T!Host, q, groups)
    BY <1>1, HostIs DEF Recorded, Owned, Kept
  <1>5. Removed(T!Host, groups)
    BY <1>1, DeclaredIs DEF Removed
  <1>. QED  BY <1>3, <1>4, <1>5, HostIs DEF Sane

LEMMA WorkedAtInit == ASSUME T!Init PROVE Worked
  <1>1. PICK r \in Runs : shape = r.shape /\ language = r.language
    BY DEF T!Init
  <1>2. /\ shape \in Seq(T!Shape) /\ results = {} /\ tree = T!Host /\ open.task = 0 /\ open.before = T!Host
        /\ queue = [g \in DOMAIN shape |-> [group |-> g, parent |-> 0, status |-> "pending", kind |-> shape[g].kind]]
    BY <1>1, QaAssumption DEF QaAssumption, T!PatchAssumption, T!Init
  <1>3. \A g \in DOMAIN shape : shape[g] \in T!Shape /\ shape[g].kind \in T!Kinds
    <2>1. \A g \in DOMAIN shape : shape[g] \in T!Shape
      BY <1>2
    <2>2. \A g \in T!Shape : g.kind \in T!Kinds
      BY DEF T!Shape
    <2>. QED  BY <2>1, <2>2
  <1>4. queue \in Seq(PatchTasks)
    <2>1. DOMAIN shape = 1..Len(shape) /\ Len(shape) \in Nat
      BY <1>2
    <2>2. \A g \in DOMAIN shape : [group |-> g, parent |-> 0, status |-> "pending", kind |-> shape[g].kind] \in PatchTasks
      BY <1>3 DEF PatchTasks
    <2>3. queue \in [1..Len(shape) -> PatchTasks]
      BY <1>2, <2>1, <2>2
    <2>. QED  BY <2>1, <2>3, SeqDef
  <1>5. TasksFit
    BY <1>1, <1>2, <1>3, <1>4 DEF TasksFit, GroupOf
  <1>6. Sane(T!Host, queue, results, shape, language)
    <2>1. \A n \in DOMAIN queue : queue[n].status # "accepted"
      BY <1>2
    <2>. QED  BY <2>1, SaneHost
  <1>. QED  BY <1>2, <1>5, <1>6 DEF Worked

LEMMA OpenWorks == ASSUME NoneReplaced, Worked, NEW n \in DOMAIN queue, T!Open(n) PROVE Worked'
  <1>. DEFINE files == {f \in T!Documents : tree'[f] # tree[f]}
              made == [task |-> n, files |-> files]
              g == GroupOf(n)
              k == queue[n].kind
  <1>1. /\ tree' = T!Change(n, tree) /\ open' = [task |-> n, before |-> tree]
        /\ results' = results \cup {made} /\ UNCHANGED <<shape, language, queue>>
    BY DEF T!Open
  <1>2. TasksFit /\ Sane(tree, queue, results, shape, language) /\ tree \in Trees
    BY DEF Worked, Sane
  <1>3. Changes(tree', tree, n)
    BY <1>1, <1>2, ChangeIs
  <1>4. g \in T!ToSet(shape) /\ g.manifest \in Manifests /\ (k # "source" => k = g.kind)
    BY <1>2, GroupIs
  <1>5. /\ made \in results' /\ made.task = n /\ made.files = files
        /\ open'.task = n /\ open'.before = tree
    BY <1>1
  <1>6. TasksFit'
    <2>1. \A r \in results' : r.task \in DOMAIN queue' /\ r.files \subseteq T!Documents
      BY <1>1, <1>2 DEF TasksFit
    <2>2. GroupOf(n)' = GroupOf(n) /\ \A m : GroupOf(m)' = GroupOf(m)
      BY <1>1 DEF GroupOf
    <2>. QED  BY <1>1, <1>2, <2>1, <2>2 DEF TasksFit, PatchTasks
  <1>7. Sane(tree, queue, results', shape, language)
    <2>1. \A r \in results : r.task \in DOMAIN queue
      BY <1>2 DEF TasksFit
    <2>. QED  BY <1>1, <1>2, <2>1, SaneStays
  <1>. HIDE DEF files, made, g, k
  <1>8. Agree(tree', language)
    BY <1>2, <1>3 DEF Sane, Agree, Changes, T!Documents
  <1>9. Recorded(tree', results')
    <2>1. SUFFICES ASSUME NEW f \in Manifests, tree'[f].decl # T!Declared PROVE \E r \in results' : f \in r.files
      BY DEF Recorded
    <2>2. CASE tree'[f] = tree[f]
      BY <1>1, <1>2, <2>1, <2>2 DEF Sane, Recorded
    <2>3. CASE tree'[f] # tree[f]
      BY <1>5, <2>1, <2>3 DEF files, Manifests, T!Documents
    <2>. QED  BY <2>2, <2>3
  <1>10. Owned(tree', queue, results', shape, language)
    <2>1. SUFFICES ASSUME NEW s \in T!Sections, NEW p \in Packages,
                          language = "python" \/ (language = "npm" /\ s = "main"),
                          tree'["root"].decl[s][p] # T!Declared[s][p]
                   PROVE  \E r \in results' : {"root", "lock"} \subseteq r.files /\ p \in Subjects(shape[queue[r.task].group])
      BY DEF Owned
    <2>2. CASE tree'["root"].decl[s][p] = tree["root"].decl[s][p]
      BY <1>1, <1>2, <2>1, <2>2 DEF Sane, Owned
    <2>3. CASE tree'["root"].decl[s][p] # tree["root"].decl[s][p]
      <3>1. p \in Subjects(shape[queue[n].group])
        BY <1>3, <2>3 DEF Changes, Manifests, Subjects, GroupOf
      <3>2. "root" \in files
        BY <2>3 DEF files, T!Documents
      <3>3. tree'["lock"] # tree["lock"]
        <4>1. CASE language = "python"
          BY <1>2, <1>3, <2>3, <4>1 DEF Sane, Agree, Changes
        <4>2. CASE language = "npm" /\ s = "main"
          BY <1>2, <1>3, <2>3, <4>2 DEF Sane, Agree, Changes
        <4>. QED  BY <2>1, <4>1, <4>2
      <3>4. "lock" \in files
        BY <3>3 DEF files, T!Documents
      <3>. QED  BY <1>5, <3>1, <3>2, <3>4
    <2>. QED  BY <2>2, <2>3
  <1>11. Removed(tree', shape)
    <2>1. SUFFICES ASSUME NEW p \in Packages, tree'["root"].decl["main"][p] = 0 PROVE p \in Replaced(shape)
      BY DEF Removed
    <2>2. CASE tree'["root"].decl["main"][p] = tree["root"].decl["main"][p]
      BY <1>2, <2>1, <2>2 DEF Sane, Removed
    <2>3. CASE tree'["root"].decl["main"][p] # tree["root"].decl["main"][p]
      <3>1. k = "replace" /\ p = g.target
        BY <1>3, <2>1, <2>3 DEF Changes, Manifests, T!Sections, k, g
      <3>. QED  BY <1>4, <3>1 DEF Replaced
    <2>. QED  BY <2>2, <2>3
  <1>12. Kept(tree', queue, shape)
    <2>1. SUFFICES ASSUME NEW m \in DOMAIN queue, Updating(queue[m].kind), queue[m].status = "accepted"
                   PROVE  Delivers(tree', shape[queue[m].group], queue[m].kind)
      BY DEF Kept
    <2>. DEFINE h == GroupOf(m)
                s == T!Section(queue[m].kind)
                p == T!Subject(h, queue[m].kind)
    <2>2. /\ h \in T!ToSet(shape) /\ h.manifest \in Manifests /\ queue[m].kind = h.kind
          /\ s \in T!Sections /\ p \in Packages
      BY <1>2, <2>1, GroupIs DEF Updating, T!Section, T!Subject, T!Sections
    <2>3. tree[h.manifest].decl[s][p] = 2
      BY <1>2, <2>1 DEF Sane, Kept, Delivers, GroupOf
    <2>4. tree'[h.manifest].decl[s][p] = 2
      <3>1. SUFFICES ASSUME tree'[h.manifest].decl[s][p] # tree[h.manifest].decl[s][p], k = "replace" PROVE FALSE
        BY <1>3, <2>2, <2>3 DEF Changes, k
      <3>2. h.manifest = g.manifest /\ s = "main" /\ p = g.target /\ g.kind = "replace"
        BY <1>3, <1>4, <2>2, <3>1 DEF Changes, k, g
      <3>3. h.kind = "direct" /\ p = h.target
        BY <2>1, <2>2, <3>2 DEF T!Section, T!Subject, Updating
      <3>4. PICK r \in Runs : shape = r.shape
        BY <1>2 DEF TasksFit
      <3>. QED  BY <1>4, <2>2, <3>2, <3>3, <3>4 DEF NoneReplaced
    <2>. QED  BY <2>4 DEF Delivers, GroupOf
  <1>13. Sane(tree', queue, results', shape, language)
    BY <1>3, <1>8, <1>9, <1>10, <1>11, <1>12 DEF Sane, Changes
  <1>14. Updating(queue[n].kind) => Delivers(tree', GroupOf(n), queue[n].kind)
    BY <1>3 DEF Changes
  <1>15. GroupOf(n)' = GroupOf(n)
    BY <1>1 DEF GroupOf
  <1>. QED  BY <1>1, <1>5, <1>6, <1>7, <1>13, <1>14, <1>15 DEF Worked

LEMMA TasksStayFit ==
  ASSUME TasksFit, UNCHANGED <<shape, language, results>>, DOMAIN queue' = DOMAIN queue,
         \A m \in DOMAIN queue : \E end \in {queue[m].status, "pending", "accepted", "unfixable", "inconclusive", "pivoted"} :
           queue'[m] = [queue[m] EXCEPT !.status = end],
         queue' = [m \in DOMAIN queue |-> queue'[m]]
  PROVE  TasksFit' /\ \A m \in DOMAIN queue : queue'[m].group = queue[m].group /\ queue'[m].kind = queue[m].kind
  <1>1. queue \in Seq(PatchTasks)
    BY DEF TasksFit
  <1>2. \A m \in DOMAIN queue : queue[m] \in PatchTasks
    BY <1>1
  <1>3. ASSUME NEW m \in DOMAIN queue
        PROVE  queue'[m] \in PatchTasks /\ queue'[m].group = queue[m].group /\ queue'[m].kind = queue[m].kind
    <2>1. PICK end : /\ end \in {queue[m].status, "pending", "accepted", "unfixable", "inconclusive", "pivoted"}
                     /\ queue'[m] = [queue[m] EXCEPT !.status = end]
      OBVIOUS
    <2>. QED  BY <1>2, <2>1 DEF PatchTasks
  <1>4. queue' \in Seq(PatchTasks)
    <2>1. DOMAIN queue = 1..Len(queue) /\ Len(queue) \in Nat
      BY <1>1
    <2>2. queue' \in [1..Len(queue) -> PatchTasks]
      BY <1>3, <2>1
    <2>. QED  BY <2>1, <2>2, SeqDef
  <1>5. \A m \in DOMAIN queue : GroupOf(m)' = GroupOf(m)
    BY <1>3 DEF GroupOf
  <1>6. PatchTasks' = PatchTasks
    BY DEF PatchTasks
  <1>. QED  BY <1>3, <1>4, <1>5, <1>6 DEF TasksFit

LEMMA CloseWorks ==
  ASSUME Worked, NEW n \in DOMAIN queue, NEW t, t \in {tree, open.before},
         NEW end \in {"accepted", "unfixable", "pending", "inconclusive"},
         end = "accepted" => t = tree, T!Close(n, end, t)
  PROVE  Worked'
  <1>. DEFINE task == [queue[n] EXCEPT !.status = end]
  <1>1. /\ open.task = n /\ tree' = t /\ queue' = [queue EXCEPT ![n] = task]
        /\ open' = [task |-> 0, before |-> T!Host] /\ UNCHANGED <<shape, language, results>>
    BY DEF T!Close
  <1>2. TasksFit /\ n # 0
    BY DEF Worked, TasksFit
  <1>3. Sane(t, queue, results, shape, language)
    BY <1>1, <1>2 DEF Worked
  <1>4. /\ DOMAIN queue' = DOMAIN queue /\ queue'[n] = task
        /\ \A m \in DOMAIN queue \ {n} : queue'[m] = queue[m]
    BY <1>1
  <1>5. queue[n] = [queue[n] EXCEPT !.status = queue[n].status] /\ task.status = end /\ queue[n].kind = task.kind
        /\ \A m \in DOMAIN queue : queue[m] = [queue[m] EXCEPT !.status = queue[m].status]
    <2>1. queue \in Seq(PatchTasks)
      BY <1>2 DEF TasksFit
    <2>2. \A m \in DOMAIN queue : queue[m] \in PatchTasks
      BY <2>1
    <2>. QED  BY <2>2 DEF PatchTasks
  <1>6. TasksFit' /\ \A m \in DOMAIN queue : queue'[m].group = queue[m].group /\ queue'[m].kind = queue[m].kind
    <2>1. \A m \in DOMAIN queue : \E x \in {queue[m].status, "pending", "accepted", "unfixable", "inconclusive", "pivoted"} :
             queue'[m] = [queue[m] EXCEPT !.status = x]
      BY <1>4, <1>5
    <2>2. queue' = [m \in DOMAIN queue |-> queue'[m]]
      BY <1>1
    <2>. HIDE DEF task
    <2>. QED  BY <1>1, <1>2, <1>4, <2>1, <2>2, TasksStayFit
  <1>. HIDE DEF task
  <1>7. Sane(t, queue', results, shape, language)
    <2>1. \A r \in results : r.task \in DOMAIN queue
      BY <1>2 DEF TasksFit
    <2>2. ASSUME NEW m \in DOMAIN queue', Updating(queue'[m].kind), queue'[m].status = "accepted"
          PROVE  (m \in DOMAIN queue /\ queue[m].status = "accepted") \/ Delivers(t, shape[queue'[m].group], queue'[m].kind)
      <3>1. CASE m # n
        BY <1>4, <2>2, <3>1
      <3>2. CASE m = n
        <4>1. t = tree
          BY <1>4, <1>5, <2>2, <3>2
        <4>. QED  BY <1>1, <1>2, <1>4, <1>6, <2>2, <3>2, <4>1 DEF Worked, GroupOf
      <3>. QED  BY <3>1, <3>2
    <2>. QED  BY <1>3, <1>4, <1>6, <2>1, <2>2, SaneStays
  <1>. QED  BY <1>1, <1>6, <1>7 DEF Worked

LEMMA PivotWorks == ASSUME Worked, NEW n \in DOMAIN queue, T!Pivot(n) PROVE Worked'
  <1>. DEFINE end == IF queue[n].status = "pending" THEN "pivoted" ELSE queue[n].status
              task == [queue[n] EXCEPT !.status = end]
              child == [group |-> queue[n].group, parent |-> n, status |-> "pending", kind |-> "source"]
              old == [queue EXCEPT ![n] = task]
  <1>1. /\ queue' = Append(old, child) /\ open.task = 0
        /\ UNCHANGED <<shape, language, tree, open, results>>
    BY DEF T!Pivot
  <1>2. TasksFit /\ Sane(tree, queue, results, shape, language) /\ queue \in Seq(PatchTasks)
    BY DEF Worked, TasksFit
  <1>3. /\ queue[n] \in PatchTasks /\ n \in Nat /\ Len(queue) \in Nat /\ DOMAIN queue = 1..Len(queue)
        /\ \A m \in DOMAIN queue : queue[m] \in PatchTasks
    BY <1>2
  <1>4. task \in PatchTasks /\ task.group = queue[n].group /\ task.kind = queue[n].kind /\ task.status = end
    BY <1>3 DEF PatchTasks
  <1>5. child \in PatchTasks /\ child.kind = "source" /\ child.group = queue[n].group
    BY <1>3 DEF T!Kinds, PatchTasks
  <1>6. task.status = "accepted" => queue[n].status = "accepted"
    BY <1>4
  <1>. HIDE DEF task, child
  <1>7. old \in Seq(PatchTasks) /\ Len(old) = Len(queue) /\ old[n] = task /\ \A m \in DOMAIN queue \ {n} : old[m] = queue[m]
    BY <1>2, <1>4
  <1>. HIDE DEF old
  <1>8. /\ queue' \in Seq(PatchTasks) /\ DOMAIN queue' = 1..Len(queue) + 1 /\ queue'[Len(queue) + 1] = child
        /\ \A m \in DOMAIN queue : queue'[m] = old[m]
    BY <1>1, <1>3, <1>5, <1>7
  <1>9. \A m \in DOMAIN queue' : m \in DOMAIN queue \/ (m = Len(queue) + 1 /\ queue'[m] = child)
    BY <1>3, <1>8
  <1>10. DOMAIN queue \subseteq DOMAIN queue'
    BY <1>3, <1>8
  <1>11. \A m \in DOMAIN queue : queue'[m].group = queue[m].group /\ queue'[m].kind = queue[m].kind
    BY <1>4, <1>7, <1>8
  <1>12. TasksFit'
    <2>1. \A m \in DOMAIN queue' : queue'[m].group \in DOMAIN shape /\ queue'[m].kind \in {shape[queue'[m].group].kind, "source"}
      BY <1>2, <1>5, <1>9, <1>11 DEF TasksFit, GroupOf
    <2>2. \A r \in results : r.task \in DOMAIN queue' /\ r.files \subseteq T!Documents
      BY <1>2, <1>10 DEF TasksFit
    <2>3. \E r \in Runs : shape = r.shape /\ language = r.language
      BY <1>2 DEF TasksFit
    <2>4. PatchTasks' = PatchTasks
      BY <1>1 DEF PatchTasks
    <2>. QED  BY <1>1, <1>8, <2>1, <2>2, <2>3, <2>4 DEF TasksFit, GroupOf
  <1>13. Sane(tree, queue', results, shape, language)
    <2>1. \A r \in results : r.task \in DOMAIN queue
      BY <1>2 DEF TasksFit
    <2>2. \A m \in DOMAIN queue' : Updating(queue'[m].kind) /\ queue'[m].status = "accepted" =>
             m \in DOMAIN queue /\ queue[m].status = "accepted"
      BY <1>5, <1>6, <1>7, <1>8, <1>9 DEF Updating
    <2>. QED  BY <1>2, <1>10, <1>11, <2>1, <2>2, SaneStays
  <1>. QED  BY <1>1, <1>12, <1>13 DEF Worked

LEMMA BarrierWorks == ASSUME Worked, T!Barrier PROVE Worked'
  <1>1. /\ open.task = 0 /\ UNCHANGED <<shape, language, tree, open, results>>
        /\ queue' = [m \in DOMAIN queue |-> IF \E c \in DOMAIN queue : queue[c].parent = m
                                            THEN [queue[m] EXCEPT !.status = "pivoted"] ELSE queue[m]]
    BY DEF T!Barrier
  <1>2. TasksFit /\ Sane(tree, queue, results, shape, language)
    BY DEF Worked
  <1>3. \A m \in DOMAIN queue : queue[m] = [queue[m] EXCEPT !.status = queue[m].status]
                                /\ [queue[m] EXCEPT !.status = "pivoted"].status = "pivoted"
    <2>1. queue \in Seq(PatchTasks)
      BY <1>2 DEF TasksFit
    <2>2. \A m \in DOMAIN queue : queue[m] \in PatchTasks
      BY <2>1
    <2>. QED  BY <2>2 DEF PatchTasks
  <1>4. TasksFit' /\ \A m \in DOMAIN queue : queue'[m].group = queue[m].group /\ queue'[m].kind = queue[m].kind
    <2>1. \A m \in DOMAIN queue : \E x \in {queue[m].status, "pending", "accepted", "unfixable", "inconclusive", "pivoted"} :
             queue'[m] = [queue[m] EXCEPT !.status = x]
      BY <1>1, <1>3
    <2>2. DOMAIN queue' = DOMAIN queue /\ queue' = [m \in DOMAIN queue |-> queue'[m]]
      BY <1>1
    <2>. QED  BY <1>1, <1>2, <2>1, <2>2, TasksStayFit
  <1>5. Sane(tree, queue', results, shape, language)
    <2>1. \A r \in results : r.task \in DOMAIN queue
      BY <1>2 DEF TasksFit
    <2>2. /\ DOMAIN queue' = DOMAIN queue
          /\ \A m \in DOMAIN queue : queue'[m].status = "accepted" => queue[m].status = "accepted"
      BY <1>1, <1>3
    <2>. QED  BY <1>2, <1>4, <2>1, <2>2, SaneStays
  <1>. QED  BY <1>1, <1>4, <1>5 DEF Worked

LEMMA WorkIsKept == ASSUME NoneReplaced, Worked, T!Next PROVE Worked'
  <1>1. ASSUME NEW n \in DOMAIN queue, T!Open(n) \/ T!Accept(n) \/ T!Reject(n) \/ T!Stranded(n) \/ T!Pivot(n)
        PROVE  Worked'
    <2>1. CASE T!Accept(n)
      BY <2>1, CloseWorks DEF T!Accept
    <2>2. CASE T!Reject(n)
      <3>1. PICK end \in {"unfixable", "pending"} : T!Close(n, end, open.before)
        BY <2>2 DEF T!Reject
      <3>. QED  BY <3>1, CloseWorks
    <2>3. CASE T!Stranded(n)
      BY <2>3, CloseWorks DEF T!Stranded
    <2>. QED  BY <1>1, <2>1, <2>2, <2>3, OpenWorks, PivotWorks
  <1>2. ASSUME UNCHANGED <<shape, language, tree, queue, open, results>> PROVE Worked'
    BY <1>2 DEF Worked, TasksFit, GroupOf, PatchTasks
  <1>3. ASSUME T!Begin \/ T!Finish \/ (\E f \in todo : T!Read(f) \/ T!Unread(f) \/ T!Blocked(f))
        PROVE  UNCHANGED <<shape, language, tree, queue, open, results>>
    BY <1>3 DEF T!Begin, T!Finish, T!Read, T!Unread, T!Blocked, T!Compared
  <1>. QED  BY <1>1, <1>2, <1>3, BarrierWorks DEF T!Next, T!Work, T!Teardown

-----------------------------------------------------------------------------
(* What the node makes of each file, declaration by declaration. *)

Compares == T!Candidates \ T!Excluded
PatchFiles == {"root", "member", "lock"}
Wanted(f, s, p) ==
  IF language = "java" \/ p \notin T!Unfixable THEN tree[f].decl[s][p]
  ELSE IF language = "npm" /\ tree[f].decl[s][p] = 0 THEN 0 ELSE T!Declared[s][p]

\* x is what the patch is to leave of f, if the node compares it or not.
Fits(x, f, compared) ==
  /\ x \in Docs
  /\ f \in Manifests => \A s \in T!Sections, p \in Packages :
       x.decl[s][p] = IF compared THEN Wanted(f, s, p) ELSE T!Declared[s][p]
  /\ f = "lock" /\ language = "npm" => \A p \in Packages :
       x.decl["main"][p] = IF compared /\ p \notin T!Unfixable THEN tree["lock"].decl["main"][p] ELSE 1
  /\ f = "lock" /\ language = "python" => \A s \in T!Sections, p \in Packages :
       x.hash[s][p] = IF compared THEN Wanted("root", s, p) ELSE T!Declared[s][p]
Right(f) == Fits(T!Result(f), f, f \in Compares)

LEMMA HostFits == ASSUME NEW f \in PatchFiles PROVE Fits(T!Host[f], f, FALSE)
  <1>1. T!Host[f] \in Docs
    BY HostIs DEF Trees, T!Documents, PatchFiles
  <1>. QED  BY <1>1, HostIs DEF Fits, Manifests

LEMMA TreeFits ==
  ASSUME Worked, NEW f \in PatchFiles, language = "java" \/ T!Unfixable = {} \/ (language = "python" /\ tree[f] = T!Host[f])
  PROVE  Fits(tree[f], f, TRUE)
  <1>1. tree[f] \in Docs /\ Agree(tree, language)
    BY DEF Worked, Sane, Trees, T!Documents, PatchFiles
  <1>2. CASE language = "java" \/ T!Unfixable = {}
    BY <1>1, <1>2 DEF Fits, Wanted, Agree
  <1>3. CASE language = "python" /\ tree[f] = T!Host[f]
    <2>1. f \in Manifests => tree[f].decl = T!Declared
      BY <1>3, HostIs
    <2>2. f = "lock" => tree["root"].decl = T!Declared /\ tree[f].hash = T!Declared
      BY <1>1, <1>3, HostIs DEF Agree
    <2>. QED  BY <1>1, <1>3, <2>1, <2>2 DEF Fits, Wanted, Manifests
  <1>. QED  BY <1>2, <1>3

LEMMA SectionsRevertedIs ==
  ASSUME NEW before \in Docs, NEW after \in Docs
  PROVE  LET r == T!SectionsReverted(before, after)
         IN  /\ r \in Docs
             /\ \A s \in T!Sections, p \in Packages :
                  r.decl[s][p] = IF p \in T!Unfixable THEN before.decl[s][p] ELSE after.decl[s][p]
  <1>. DEFINE d == [s \in T!Sections |-> [p \in Packages |->
                      IF p \in T!Unfixable THEN before.decl[s][p] ELSE after.decl[s][p]]]
  <1>1. before.decl \in Decls /\ after.decl \in Decls
    BY DEF Docs
  <1>2. d \in Decls /\ \A s \in T!Sections, p \in Packages :
                         d[s][p] = IF p \in T!Unfixable THEN before.decl[s][p] ELSE after.decl[s][p]
    BY <1>1 DEF Decls
  <1>3. T!SectionsReverted(before, after) = [after EXCEPT !.decl = d]
    BY DEF T!SectionsReverted
  <1>. HIDE DEF d
  <1>4. [after EXCEPT !.decl = d] \in Docs /\ [after EXCEPT !.decl = d].decl = d
    BY <1>2 DEF Docs
  <1>. QED  BY <1>2, <1>3, <1>4

LEMMA PythonFits ==
  ASSUME Worked, language = "python", NEW f \in PatchFiles, ~T!Ambiguous(f)
  PROVE  Fits(T!PythonReverted(f, T!Host[f], tree[f]), f, TRUE)
  <1>. DEFINE r == T!PythonReverted(f, T!Host[f], tree[f])
              root == T!SectionsReverted(T!Host["root"], tree["root"])
              mine == T!SectionsReverted(T!Host[f], tree[f])
  <1>1. /\ tree[f] \in Docs /\ T!Host[f] \in Docs /\ tree["root"] \in Docs /\ T!Host["root"] \in Docs
        /\ T!Host["root"].decl = T!Declared /\ "root" \in Manifests
    BY HostIs DEF Worked, Sane, Trees, T!Documents, PatchFiles, Manifests
  <1>2. CASE tree[f] = T!Host[f]
    <2>1. r = tree[f]
      BY <1>2 DEF T!PythonReverted
    <2>. QED  BY <1>2, <2>1, TreeFits
  <1>3. CASE tree[f] # T!Host[f] /\ f = "lock"
    <2>1. r = [mine EXCEPT !.hash = root.decl]
      BY <1>3 DEF T!PythonReverted, T!PipfileLockReverted
    <2>2. mine \in Docs /\ root \in Docs
      BY <1>1, SectionsRevertedIs
    <2>3. \A s \in T!Sections, p \in Packages : root.decl[s][p] = Wanted("root", s, p)
      BY <1>1, SectionsRevertedIs DEF Wanted
    <2>. HIDE DEF mine, root, r
    <2>4. r \in Docs /\ r.hash = root.decl
      BY <2>1, <2>2 DEF Docs
    <2>. QED  BY <1>3, <2>3, <2>4 DEF Fits, Manifests, r
  <1>4. CASE tree[f] # T!Host[f] /\ f # "lock"
    <2>1. r = mine
      BY <1>4 DEF T!PythonReverted
    <2>2. f \in Manifests /\ T!Host[f].decl = T!Declared
      BY <1>4, HostIs DEF PatchFiles, Manifests
    <2>3. mine \in Docs /\ \A s \in T!Sections, p \in Packages : mine.decl[s][p] = Wanted(f, s, p)
      BY <1>1, <2>2, SectionsRevertedIs DEF Wanted
    <2>. HIDE DEF mine, r
    <2>. QED  BY <1>4, <2>1, <2>3 DEF Fits, r
  <1>. QED  BY <1>2, <1>3, <1>4

LEMMA JsonFits ==
  ASSUME Worked, language = "npm", NEW f \in PatchFiles
  PROVE  Fits(T!JsonReverted(f, T!Host[f], tree[f]), f, TRUE)
  <1>. DEFINE r == T!JsonReverted(f, T!Host[f], tree[f])
  <1>1. tree[f] \in Docs /\ T!Host[f] \in Docs /\ tree[f].decl \in Decls /\ T!Host[f].decl \in Decls
    BY HostIs DEF Worked, Sane, Trees, T!Documents, PatchFiles, Docs
  <1>2. CASE f \in Manifests
    <2>. DEFINE d == T!KeptDecl(T!Host[f], tree[f])
    <2>1. d \in Decls /\ \A s \in T!Sections, p \in Packages : d[s][p] = Wanted(f, s, p)
      BY <1>1, <1>2, HostIs DEF T!KeptDecl, Wanted, Decls
    <2>2. r = [tree[f] EXCEPT !.decl = d]
      BY <1>2 DEF T!JsonReverted, Manifests
    <2>. HIDE DEF d, r
    <2>3. r \in Docs /\ r.decl = d
      BY <1>1, <2>1, <2>2 DEF Docs
    <2>. QED  BY <1>2, <2>1, <2>3 DEF Fits, r, Manifests
  <1>3. CASE f = "lock"
    <2>. DEFINE old == tree[f]
                host == T!Host[f]
                at == [k \in T!Keys |-> IF \E i \in DOMAIN k : k[i] \in T!Unfixable THEN host.at[k] ELSE old.at[k]]
                main == [p \in Packages |-> IF p \in T!Unfixable THEN host.decl["main"][p] ELSE old.decl["main"][p]]
                d == [old.decl EXCEPT !["main"] = main]
    <2>1. "main" \in T!Sections /\ old.at \in [T!Keys -> Nat] /\ host.at \in [T!Keys -> Nat]
      BY <1>1 DEF Docs, T!Sections
    <2>2. at \in [T!Keys -> Nat]
      BY <2>1
    <2>3. \A p \in Packages : host.decl["main"][p] = 1
      BY <1>3, HostIs
    <2>4. main \in [Packages -> Nat] /\ \A p \in Packages : main[p] = IF p \in T!Unfixable THEN 1 ELSE old.decl["main"][p]
      BY <1>1, <2>1, <2>3 DEF Decls
    <2>5. r = [old EXCEPT !.at = at, !.decl["main"] = main]
      BY <1>3 DEF T!JsonReverted, T!LockReverted
    <2>6. [old EXCEPT !.at = at, !.decl["main"] = main] = [old EXCEPT !.at = at, !.decl = d]
      BY <1>1 DEF Docs
    <2>7. d \in Decls /\ d["main"] = main
      <3>. HIDE DEF main
      <3>. QED  BY <1>1, <2>1, <2>4 DEF Decls
    <2>. HIDE DEF at, main, d, r
    <2>8. r \in Docs /\ r.decl = d
      BY <1>1, <2>2, <2>5, <2>6, <2>7 DEF Docs
    <2>. QED  BY <1>3, <2>4, <2>7, <2>8 DEF Fits, Manifests, r
  <1>. QED  BY <1>2, <1>3 DEF PatchFiles, Manifests

LEMMA RevertedFits ==
  ASSUME Worked, NEW f \in PatchFiles, ~T!Ambiguous(f)
  PROVE  Fits(T!Reverted(f, tree[f]), f, TRUE)
  <1>1. tree[f] # T!Gone /\ f # "source"
    <2>1. T!Gone.text = 99
      BY DEF T!Gone, T!Empty
    <2>2. tree[f].text = 0
      BY DEF Worked, Sane, Agree, PatchFiles
    <2>. QED  BY <2>1, <2>2 DEF PatchFiles
  <1>2. CASE T!Unfixable = {} \/ language = "java"
    <2>1. T!Reverted(f, tree[f]) = tree[f]
      BY <1>2 DEF T!Reverted
    <2>. QED  BY <1>2, <2>1, TreeFits
  <1>3. CASE T!Unfixable # {} /\ language = "npm"
    <2>1. T!Reverted(f, tree[f]) = T!JsonReverted(f, T!Host[f], tree[f])
      BY <1>1, <1>3 DEF T!Reverted
    <2>. QED  BY <1>3, <2>1, JsonFits
  <1>4. CASE T!Unfixable # {} /\ language = "python"
    <2>1. T!Reverted(f, tree[f]) = T!PythonReverted(f, T!Host[f], tree[f])
      BY <1>1, <1>4 DEF T!Reverted
    <2>. QED  BY <1>4, <2>1, PythonFits
  <1>5. language \in {"npm", "python", "java"}
    BY QaAssumption DEF QaAssumption, T!PatchAssumption, Worked, TasksFit
  <1>. QED  BY <1>2, <1>3, <1>4, <1>5

-----------------------------------------------------------------------------
(* A file that the node is done with has what it is to have, if nothing was  *)
(* said about it.                                                           *)

Working == tpc \in {"run", "barrier"}
Settled(f) == \/ f \in refused \cup lost
              \/ f \in todo /\ f \notin DOMAIN patch /\ f \in Compares
              \/ f \notin todo /\ Right(f)
Reads ==
  /\ tpc \in {"run", "barrier", "read", "completed", "completed_with_errors"}
  /\ Working => patch = <<>>
  /\ T!Ended => todo = {}
  /\ ~Working => \A f \in PatchFiles : Settled(f)

LEMMA DecidedStays ==
  ASSUME UNCHANGED <<shape, language, twice, tree, queue, results>>
  PROVE  /\ T!Host' = T!Host /\ Compares' = Compares /\ T!Unfixable' = T!Unfixable
         /\ \A f \in PatchFiles : Fits(T!Result(f)', f, f \in Compares) => Right(f)'
  <1>1. T!Passed' = T!Passed
    BY DEF T!Passed
  <1>2. T!Failed' = T!Failed
    BY <1>1 DEF T!Failed
  <1>3. T!Unfixable' = T!Unfixable
    BY <1>2 DEF T!Unfixable
  <1>4. T!Excluded' = T!Excluded
    BY <1>1, <1>2 DEF T!Excluded, T!FilesOf
  <1>5. T!Candidates' = T!Candidates
    BY DEF T!Candidates
  <1>6. Compares' = Compares
    BY <1>4, <1>5 DEF Compares
  <1>7. T!Host' = T!Host
    BY DEF T!Host
  <1>8. \A f \in PatchFiles : Fits(T!Result(f)', f, f \in Compares) => Right(f)'
    BY <1>3, <1>6 DEF Right, Fits, Wanted
  <1>. QED  BY <1>3, <1>6, <1>7, <1>8

\* A file keeps its place as long as the node does not turn to it.
LEMMA OthersStaySettled ==
  ASSUME UNCHANGED <<shape, language, twice, tree, queue, results>>, refused \cup lost \subseteq refused' \cup lost',
         NEW f \in PatchFiles, Settled(f),
         f \in todo' <=> f \in todo, f \in DOMAIN patch' <=> f \in DOMAIN patch,
         f \in DOMAIN patch => patch'[f] = patch[f]
  PROVE  Settled(f)'
  <1>1. T!Result(f)' = T!Result(f)
    BY DecidedStays DEF T!Result
  <1>2. Right(f) => Right(f)'
    BY <1>1, DecidedStays DEF Right
  <1>. QED  BY <1>2, DecidedStays DEF Settled

LEMMA ReadsAtInit == ASSUME T!Init PROVE Reads
  BY DEF T!Init, Reads, Working, T!Ended

LEMMA BeginReads == ASSUME Worked, Reads, T!Begin PROVE Reads'
  <1>1. /\ UNCHANGED <<shape, language, twice, tree, queue, results, patch, lost>>
        /\ tpc = "barrier" /\ tpc' = "read" /\ patch = <<>>
        /\ \/ todo' = Compares
           \/ todo' = {} /\ refused' = T!Candidates
    BY DEF T!Begin, Reads, Working, Compares
  <1>2. ASSUME NEW f \in PatchFiles PROVE Settled(f)'
    <2>1. f \notin DOMAIN patch' /\ T!Result(f)' = T!Host[f]
      BY <1>1, DecidedStays DEF T!Result
    <2>2. CASE f \in Compares
      BY <1>1, <2>1, <2>2, DecidedStays DEF Settled, Compares
    <2>3. CASE f \notin Compares
      <3>1. (f \in Compares) = FALSE
        BY <2>3
      <3>2. Fits(T!Host[f], f, f \in Compares)
        BY <3>1, HostFits
      <3>3. Right(f)'
        BY <1>1, <2>1, <3>2, DecidedStays
      <3>. QED  BY <1>1, <2>3, <3>3 DEF Settled
    <2>. QED  BY <2>2, <2>3
  <1>. QED  BY <1>1, <1>2 DEF Reads, Working, T!Ended

LEMMA ComparedReads ==
  ASSUME Worked, Reads, NEW f \in todo, NEW after, T!Compared(f, after), refused \cup lost \subseteq refused' \cup lost',
         f \in PatchFiles => f \in refused' \cup lost' \/ Fits(T!Reverted(f, after), f, TRUE)
  PROVE  Reads'
  <1>. DEFINE final == T!Reverted(f, after)
  <1>1. /\ UNCHANGED <<shape, language, twice, tree, queue, results, tpc>>
        /\ tpc = "read" /\ todo' = todo \ {f}
        /\ patch' = IF final = T!Host[f] THEN patch
                    ELSE [g \in DOMAIN patch \cup {f} |-> IF g = f THEN final ELSE patch[g]]
    BY DEF T!Compared, T!IsNext
  <1>. HIDE DEF final
  <1>2. ASSUME NEW g \in PatchFiles PROVE Settled(g)'
    <2>1. Settled(g)
      BY <1>1 DEF Reads, Working
    <2>2. CASE g # f
      <3>1. g \in DOMAIN patch' <=> g \in DOMAIN patch
        BY <1>1, <2>2
      <3>2. g \in DOMAIN patch => patch'[g] = patch[g]
        BY <1>1, <2>2
      <3>. QED  BY <1>1, <2>1, <2>2, <3>1, <3>2, OthersStaySettled
    <2>3. CASE g = f /\ f \in refused' \cup lost'
      BY <2>3 DEF Settled
    <2>4. CASE g = f /\ f \notin refused' \cup lost'
      <3>1. f \notin DOMAIN patch /\ f \in Compares
        BY <2>1, <2>4 DEF Settled
      <3>2. T!Result(f)' = final
        BY <1>1, <3>1, DecidedStays DEF T!Result
      <3>3. Fits(final, f, TRUE)
        BY <2>4 DEF final
      <3>4. Right(f)'
        BY <1>1, <2>4, <3>1, <3>2, <3>3, DecidedStays
      <3>. QED  BY <1>1, <2>4, <3>4 DEF Settled
    <2>. QED  BY <2>2, <2>3, <2>4
  <1>. QED  BY <1>1, <1>2 DEF Reads, Working, T!Ended

LEMMA BlockedReads == ASSUME Reads, NEW f \in todo, T!Blocked(f) PROVE Reads'
  <1>1. PICK all \in BOOLEAN : LET stopped == IF all THEN todo ELSE {f}
                               IN  todo' = todo \ stopped /\ refused' = refused \cup stopped
    BY DEF T!Blocked
  <1>2. UNCHANGED <<shape, language, twice, tree, queue, results, tpc, patch, lost>> /\ tpc = "read"
    BY DEF T!Blocked, T!IsNext
  <1>3. ASSUME NEW g \in PatchFiles PROVE Settled(g)'
    <2>1. Settled(g)
      BY <1>2 DEF Reads, Working
    <2>2. CASE g \in refused'
      BY <2>2 DEF Settled
    <2>3. CASE g \notin refused'
      <3>1. g \in todo' <=> g \in todo
        BY <1>1, <2>3
      <3>. QED  BY <1>1, <1>2, <2>1, <3>1, OthersStaySettled
    <2>. QED  BY <2>2, <2>3
  <1>. QED  BY <1>2, <1>3 DEF Reads, Working, T!Ended

LEMMA ReadsAreKept == ASSUME Worked, Reads, T!Next PROVE Reads'
  <1>1. ASSUME NEW n \in DOMAIN queue, T!Open(n) \/ T!Accept(n) \/ T!Reject(n) \/ T!Stranded(n) \/ T!Pivot(n)
        PROVE  tpc = "run" /\ UNCHANGED <<tpc, patch>>
    BY <1>1 DEF T!Open, T!Accept, T!Reject, T!Stranded, T!Close, T!Pivot
  <1>2. CASE \/ T!Work
             \/ T!Barrier
    <2>1. tpc = "run" /\ tpc' \in {"run", "barrier"} /\ UNCHANGED patch
      BY <1>1, <1>2 DEF T!Work, T!Barrier
    <2>. QED  BY <2>1 DEF Reads, Working, T!Ended
  <1>3. CASE T!Finish
    <2>1. /\ UNCHANGED <<shape, language, twice, tree, queue, results, todo, patch, refused, lost>>
          /\ tpc = "read" /\ todo = {} /\ tpc' \in {"completed", "completed_with_errors"}
      BY <1>3 DEF T!Finish
    <2>2. \A f \in PatchFiles : Settled(f)'
      BY <2>1, OthersStaySettled DEF Reads, Working
    <2>. QED  BY <2>1, <2>2 DEF Reads, Working
  <1>4. ASSUME NEW f \in todo, T!Read(f) PROVE Reads'
    <2>1. f \in PatchFiles => f \in refused' \/ Fits(T!Reverted(f, tree[f]), f, TRUE)
      BY <1>4, RevertedFits DEF T!Read
    <2>2. T!Compared(f, tree[f]) /\ refused \cup lost \subseteq refused' \cup lost'
      BY <1>4 DEF T!Read
    <2>. QED  BY <2>1, <2>2, ComparedReads
  <1>5. ASSUME NEW f \in todo, T!Unread(f) PROVE Reads'
    <2>1. T!Compared(f, T!Gone) /\ f \in lost' /\ refused \cup lost \subseteq refused' \cup lost'
      BY <1>5 DEF T!Unread
    <2>. QED  BY <2>1, ComparedReads
  <1>. QED  BY <1>2, <1>3, <1>4, <1>5, BeginReads, BlockedReads DEF T!Next, T!Teardown

-----------------------------------------------------------------------------
(* The patch. *)

\* What is declared other than in the repository and not taken back was made by a group
\* that was accepted, and the node compares both files.
LEMMA PassedIsCompared ==
  ASSUME Worked, NEW s \in T!Sections, NEW p \in Packages \ T!Unfixable,
         language = "python" \/ (language = "npm" /\ s = "main"),
         tree["root"].decl[s][p] # T!Declared[s][p]
  PROVE  "root" \in Compares /\ "lock" \in Compares
  <1>1. PICK r \in results : {"root", "lock"} \subseteq r.files /\ p \in Subjects(shape[queue[r.task].group])
    BY DEF Worked, Sane, Owned
  <1>2. queue[r.task].group \in DOMAIN shape
    BY DEF Worked, TasksFit
  <1>3. queue[r.task].group \in T!Passed
    BY <1>1, <1>2 DEF T!Unfixable, T!Failed, Subjects
  <1>4. r.files \subseteq T!FilesOf(T!Passed)
    BY <1>3 DEF T!FilesOf
  <1>. QED  BY <1>1, <1>4 DEF Compares, T!Candidates, T!Excluded

LEMMA SoundIsRight == ASSUME Reads, NEW f \in PatchFiles, T!Sound(f) PROVE Right(f)
  BY DEF Reads, T!Sound, Settled, Working, T!Ended

\* An update is about what its group is about, in a manifest.
LEMMA UpdateIs ==
  ASSUME Worked, NEW n \in DOMAIN queue, T!Update(n)
  PROVE  LET g == shape[queue[n].group]
             p == T!Subject(g, queue[n].kind)
         IN  /\ g.manifest \in Manifests /\ g.manifest \in PatchFiles /\ p \in Packages /\ T!Section(queue[n].kind) \in T!Sections
             /\ queue[n].group \in DOMAIN shape
             /\ queue[n].group \notin T!Passed => p \in T!Unfixable
  <1>1. /\ GroupOf(n).manifest \in Manifests /\ GroupOf(n).target \in Packages /\ GroupOf(n).component \in Packages
        /\ queue[n].group \in DOMAIN shape
    BY GroupIs DEF Worked, TasksFit
  <1>2. T!Subject(GroupOf(n), queue[n].kind) \in {GroupOf(n).target, GroupOf(n).component}
    BY DEF T!Subject
  <1>3. queue[n].group \notin T!Passed => {GroupOf(n).target, GroupOf(n).component} \subseteq T!Unfixable
    BY <1>1 DEF T!Unfixable, T!Failed, GroupOf
  <1>. QED  BY <1>1, <1>2, <1>3 DEF GroupOf, T!Section, T!Sections, Manifests, PatchFiles

LEMMA AcceptedIsThere == ASSUME Worked, Reads PROVE T!AcceptedStays
  <1>1. SUFFICES ASSUME NEW n \in DOMAIN queue, T!Sound(GroupOf(n).manifest), T!Update(n), queue[n].status = "accepted",
                        T!Subject(GroupOf(n), queue[n].kind) \notin T!Unfixable
                 PROVE  T!Outcome(n) = 2
    BY DEF T!AcceptedStays, GroupOf
  <1>. DEFINE f == GroupOf(n).manifest
              s == T!Section(queue[n].kind)
              p == T!Subject(GroupOf(n), queue[n].kind)
  <1>2. /\ f \in Manifests /\ f \in PatchFiles /\ p \in Packages /\ s \in T!Sections
        /\ queue[n].group \in T!Passed
    BY <1>1, UpdateIs DEF GroupOf
  <1>3. tree[f].decl[s][p] = 2
    BY <1>1 DEF Worked, Sane, Kept, Updating, T!Update, Delivers, GroupOf
  <1>4. Right(f)
    BY <1>1, <1>2, SoundIsRight
  <1>5. T!Outcome(n) = T!Result(f).decl[s][p]
    BY DEF T!Outcome, GroupOf
  <1>6. f \in T!FilesOf(T!Passed)
    BY <1>2 DEF T!FilesOf, GroupOf
  <1>7. p \notin T!Unfixable
    BY <1>1
  <1>. HIDE DEF f, s, p
  <1>8. T!Declared[s][p] \in {0, 1}
    BY <1>2, DeclaredIs DEF T!Sections
  <1>9. f \in Compares
    <2>1. tree[f].decl # T!Declared
      BY <1>3, <1>8
    <2>2. PICK r \in results : f \in r.files
      BY <1>2, <2>1 DEF Worked, Sane, Recorded
    <2>. QED  BY <1>6, <2>2 DEF Compares, T!Candidates, T!Excluded
  <1>10. T!Result(f).decl[s][p] = Wanted(f, s, p)
    BY <1>2, <1>4, <1>9 DEF Right, Fits
  <1>. QED  BY <1>3, <1>5, <1>7, <1>10 DEF Wanted

LEMMA RejectedIsOut == ASSUME Worked, Reads PROVE T!RejectedGone
  <1>1. SUFFICES ASSUME language # "java", NEW n \in DOMAIN queue, T!Sound(GroupOf(n).manifest), T!Update(n),
                        T!GroupStatus(queue, queue[n].group) # "accepted"
                 PROVE  T!Outcome(n) # 2
    BY DEF T!RejectedGone, GroupOf
  <1>. DEFINE f == GroupOf(n).manifest
              s == T!Section(queue[n].kind)
              p == T!Subject(GroupOf(n), queue[n].kind)
  <1>2. queue[n].group \notin T!Passed
    BY <1>1 DEF T!Passed
  <1>3. f \in Manifests /\ f \in PatchFiles /\ p \in Packages /\ s \in T!Sections /\ p \in T!Unfixable
    BY <1>1, <1>2, UpdateIs DEF GroupOf
  <1>4. Right(f)
    BY <1>1, <1>3, SoundIsRight
  <1>5. T!Outcome(n) = T!Result(f).decl[s][p]
    BY DEF T!Outcome, GroupOf
  <1>. HIDE DEF f, s, p
  <1>6. T!Declared[s][p] \in {0, 1}
    BY <1>3, DeclaredIs DEF T!Sections
  <1>7. T!Result(f).decl[s][p] \in {Wanted(f, s, p), T!Declared[s][p]}
    BY <1>3, <1>4 DEF Right, Fits
  <1>. QED  BY <1>1, <1>3, <1>5, <1>6, <1>7 DEF Wanted

LEMMA LockIsOfManifest == ASSUME Worked, Reads PROVE T!LockMatchesManifest
  <1>1. SUFFICES ASSUME T!Sound("root"), T!Sound("lock")
                 PROVE  IF language = "python" THEN T!Result("lock").hash = T!Result("root").decl
                        ELSE language = "npm" => \A p \in Packages \ Replaced(shape) :
                               T!Result("lock").decl["main"][p] = T!Result("root").decl["main"][p]
    BY DEF T!LockMatchesManifest, Replaced
  <1>2. Right("root") /\ Right("lock") /\ "root" \in Manifests
    BY <1>1, SoundIsRight DEF PatchFiles, Manifests
  <1>3. ASSUME language = "python" PROVE T!Result("lock").hash = T!Result("root").decl
    <2>1. ASSUME NEW s \in T!Sections, NEW p \in Packages
          PROVE  T!Result("lock").hash[s][p] = T!Result("root").decl[s][p]
      <3>1. /\ T!Result("root").decl[s][p] = IF "root" \in Compares THEN Wanted("root", s, p) ELSE T!Declared[s][p]
            /\ T!Result("lock").hash[s][p] = IF "lock" \in Compares THEN Wanted("root", s, p) ELSE T!Declared[s][p]
        BY <1>2, <1>3 DEF Right, Fits
      <3>2. Wanted("root", s, p) # T!Declared[s][p] => "root" \in Compares /\ "lock" \in Compares
        BY <1>3, PassedIsCompared DEF Wanted
      <3>. QED  BY <3>1, <3>2
    <2>2. T!Result("lock").hash \in Decls /\ T!Result("root").decl \in Decls
      BY <1>2 DEF Right, Fits, Docs
    <2>3. \A s \in T!Sections : T!Result("lock").hash[s] = T!Result("root").decl[s]
      <3>1. SUFFICES ASSUME NEW s \in T!Sections PROVE T!Result("lock").hash[s] = T!Result("root").decl[s]
        OBVIOUS
      <3>2. T!Result("lock").hash[s] \in [Packages -> Nat] /\ T!Result("root").decl[s] \in [Packages -> Nat]
        BY <2>2 DEF Decls
      <3>. QED  BY <2>1, <3>2
    <2>. QED  BY <2>2, <2>3 DEF Decls
  <1>4. ASSUME language = "npm", NEW p \in Packages \ Replaced(shape)
        PROVE  T!Result("lock").decl["main"][p] = T!Result("root").decl["main"][p]
    <2>1. "main" \in T!Sections /\ T!Declared["main"][p] = 1
      BY DeclaredIs DEF T!Sections
    <2>2. /\ T!Result("root").decl["main"][p] = IF "root" \in Compares THEN Wanted("root", "main", p) ELSE 1
          /\ T!Result("lock").decl["main"][p] = IF "lock" \in Compares /\ p \notin T!Unfixable
                                                THEN tree["lock"].decl["main"][p] ELSE 1
      BY <1>2, <1>4, <2>1 DEF Right, Fits
    <2>3. /\ tree["lock"].decl["main"] = tree["root"].decl["main"]
          /\ tree["root"].decl["main"][p] # 0
      BY <1>4 DEF Worked, Sane, Agree, Removed
    <2>4. CASE p \in T!Unfixable
      BY <1>4, <2>1, <2>2, <2>3, <2>4 DEF Wanted
    <2>5. CASE p \notin T!Unfixable
      <3>1. tree["root"].decl["main"][p] # 1 => "root" \in Compares /\ "lock" \in Compares
        BY <1>4, <2>1, <2>5, PassedIsCompared
      <3>. QED  BY <2>2, <2>3, <2>5, <3>1 DEF Wanted
    <2>. QED  BY <2>4, <2>5
  <1>. QED  BY <1>3, <1>4

LEMMA PatchIsKept == ASSUME NoneReplaced, Worked /\ Reads, [QaNext]_<<machine, vars, deltaVars, prefixVars, patchVars>>
                     PROVE  (Worked /\ Reads)'
  <1>1. ASSUME UNCHANGED patchVars PROVE (Worked /\ Reads)'
    <2>1. UNCHANGED <<shape, language, twice, tree, queue, open, results, tpc, todo, patch, refused, lost>>
      BY <1>1 DEF patchVars
    <2>2. Worked'
      BY <2>1 DEF Worked, TasksFit, GroupOf, PatchTasks
    <2>3. ~Working => \A f \in PatchFiles : Settled(f)'
      BY <2>1, OthersStaySettled DEF Reads
    <2>. QED  BY <2>1, <2>2, <2>3 DEF Reads, Working, T!Ended
  <1>2. ASSUME T!Next PROVE (Worked /\ Reads)'
    BY <1>2, WorkIsKept, ReadsAreKept
  <1>. QED  BY <1>1, <1>2 DEF QaNext, Passes, Isolates, Replans, Patches

\* The runs that TLC checks are such.
LEMMA RunsAreSuch == ASSUME Runs = MCRuns PROVE NoneReplaced
  <1>1. SUFFICES ASSUME NEW s \in MCPairs, NEW g \in T!ToSet(s), NEW h \in T!ToSet(s), g.kind = "replace", h.kind = "direct"
                 PROVE  g.target # h.target
    BY DEF NoneReplaced, MCRuns, Of
  <1>2. s \in MCShapes /\ \A i \in 1..2 : s[i].kind = "replace" => s[3 - i].target # s[i].target
    BY DEF MCPairs
  <1>3. PICK a \in One, b \in One : s = <<a, b>>
    BY <1>2 DEF MCShapes
  <1>4. s[1] = a /\ s[2] = b /\ T!ToSet(s) = {a, b}
    BY <1>3 DEF T!ToSet
  <1>5. a.kind = "replace" => b.target # a.target
    BY <1>2, <1>4
  <1>6. b.kind = "replace" => a.target # b.target
    BY <1>2, <1>4
  <1>. QED  BY <1>1, <1>4, <1>5, <1>6

\* Of runs in which no task replaces a package that another one updates in the same
\* manifest, the patch is faithful, whatever the workspace could not be restored to and
\* whichever files are shared by groups of both outcomes.
THEOREM PatchStaysFaithful == ASSUME NoneReplaced PROVE QaSpec => []PatchIsFaithful
<1>1. QaInit => Worked /\ Reads
  BY WorkedAtInit, ReadsAtInit DEF QaInit
<1>2. Worked /\ Reads /\ [QaNext]_<<machine, vars, deltaVars, prefixVars, patchVars>> => (Worked /\ Reads)'
  BY PatchIsKept
<1>3. Worked /\ Reads => PatchIsFaithful
  BY AcceptedIsThere, RejectedIsOut, LockIsOfManifest DEF PatchIsFaithful
<1>. QED  BY <1>1, <1>2, <1>3, PTL DEF QaSpec

-----------------------------------------------------------------------------
(* A pass of QA.  The properties speak of the verdicts and of what the      *)
(* phases found; a verdict is given once, when the phases are over, so that *)
(* they follow from what is known of the findings when a task is judged     *)
(* (ScanIsSound, DepIsSound).                                               *)


(* The types. *)

Phases == {"start", "resolve", "stage", "scan", "clean", "tests", "inconclusive", "judge", "done", "crashed"}
Deps == {"none", "verified", "mismatch", "inconclusive"}
TaskEvidences == [complete : BOOLEAN, covered : BOOLEAN, skipped : BOOLEAN, remaining : BOOLEAN]
Findable ==
    [install : Installs, dep : [Tasks -> Deps], scan : {"none", "ok", "bad"},
     evidence : {"none", "complete", "incomplete"}, known : SUBSET Tasks, by : [Tasks -> TaskEvidences],
     covered : SUBSET Tasks, remaining : SUBSET Tasks, scanSkipped : BOOLEAN, skipped : SUBSET Tasks,
     failed : SUBSET Tasks, tests : {"not_run", "passed", "failed"}]

\* Every part of the state has its type.
TypeInv ==
    /\ pc \in Phases /\ job \in Jobs /\ batch \in Batch /\ found \in Findable
    /\ evals \in [Tasks -> Evaluations \cup {Undecided}] /\ accused \subseteq Tasks

----------------------------------------------------------------------------
(* The invariant. *)

\* What a batch says of the targets: one that is skipped is gone or called so, and one that is
\* neither nor failed is staged for the scan.
Covers(b) ==
    /\ \A t \in b.skipped : job.world.entry[t] = "absent" \/ CalledGone(t, b.skipped)
    /\ \A t \in active \ b.failed : t \in b.staged \/ job.world.entry[t] = "absent" \/ CalledGone(t, b.skipped)

\* Until the scan is over, nothing is known from it.
Unseen == found.covered = {} /\ (pc \in {"stage", "scan"} => Covers(batch))
\* A scan that could not prove anything covers no task.
Unproving == found.scan = "bad" /\ found.evidence = "incomplete" /\ found.covered = {}
\* A scan that proves something: what it holds against a task was reported, and a removal it holds
\* nothing against is gone.
Proving ==
    /\ found.scan = "ok" /\ found.known = active
    /\ \A t \in active :
          /\ found.by[t].remaining => t \in found.remaining
          /\ t \in found.skipped => job.world.entry[t] = "absent" \/ CalledGone(t, found.skipped)
          /\ /\ job.policy[t] = "package_removal"
             /\ t \notin found.failed /\ ~found.by[t].remaining
             => job.world.entry[t] = "absent" \/ CalledGone(t, found.skipped)
ScanIsSound ==
    /\ pc \in {"start", "resolve", "stage", "scan"} => Unseen
    /\ pc \in {"clean", "tests"} => Unproving \/ Proving
    /\ pc = "judge" => Proving
    /\ pc \in {"inconclusive", "judge"} => found.tests # "not_run"

\* Dependency evidence that verified a version did not see another one.
DepIsSound ==
    \A t \in active : job.policy[t] = "version_bump" /\ found.dep[t] = "verified"
                          => job.world.entry[t] # "other"

\* No task is judged before the phases are over.
JudgedLast == pc \notin {"judge", "done"} => \A t \in Tasks : evals[t] = Undecided

QaInv == TypeInv /\ ScanIsSound /\ DepIsSound /\ JudgedLast

----------------------------------------------------------------------------
(* The resolution of the targets. *)

\* What a resolved batch is: typed, sound about its targets, and without inputs exactly if there is
\* nothing to stage; only targets that are gone count as removed, and only npm finds removals.
Resolved(b) ==
    /\ b \in Batch /\ Covers(b)
    /\ b.inputs <=> b.staged # {}
    /\ b.removed \subseteq b.skipped
    /\ b.removals => \A t \in b.skipped : job.world.entry[t] = "absent"

LEMMA JobTypes == ASSUME job \in Jobs
                  PROVE  active \in (SUBSET Tasks) \ {{}} /\ job.policy \in [Tasks -> Policies] /\ job.world \in Worlds
  BY JobAssumption DEF active

\* A target that is in none of its lockfiles is absent from the workspace.
LEMMA GoneIsAbsent == ASSUME NEW w, NEW t, IsGone(t, w)
                      PROVE  w.entry[t] = "absent"
  <1>1. PICK l \in Home[t] : TargetAt(t, l, w) = "gone"
    BY DEF IsGone
  <1>. QED  BY <1>1 DEF TargetAt

LEMMA NpmResolves == ASSUME job \in Jobs
                     PROVE  Resolved(ResolveNpm(job.world, active))
  <1>. DEFINE w == job.world
              b == ResolveNpm(w, active)
              changed == ChangeFailed(w, active)
  <1>1. active \subseteq Tasks
    BY JobTypes
  <1>2. changed \subseteq active /\ ChangeClosures(w, active) \subseteq active
    BY DEF ChangeFailed, ChangeClosures, Owners, Editors, Residents
  <1>3. StrayFailed(w, active) \subseteq active /\ Projects(w, active) \subseteq active
    BY DEF StrayFailed, Projects
  <1>4. b \in Batch
    BY <1>1, <1>2, <1>3 DEF ResolveNpm, Batch
  <1>5. \A t \in b.skipped : w.entry[t] = "absent"
    BY GoneIsAbsent DEF ResolveNpm
  <1>6. \A t \in active \ b.failed : t \in b.staged \/ w.entry[t] = "absent"
    <2>. SUFFICES ASSUME NEW t \in active, t \notin b.failed, w.entry[t] # "absent"
                  PROVE  t \in b.staged
      OBVIOUS
    <2>1. ~TargetFailed(t, w)
      BY DEF ResolveNpm
    <2>2. ~IsGone(t, w)
      BY GoneIsAbsent
    <2>. QED  BY <2>1, <2>2 DEF ResolveNpm
  <1>7. (b.inputs <=> b.staged # {}) /\ b.removed \subseteq b.skipped
    BY DEF ResolveNpm
  <1>. QED  BY <1>4, <1>5, <1>6, <1>7 DEF Resolved, Covers

LEMMA MavenResolves == ASSUME job \in Jobs
                       PROVE  Resolved(ResolveMaven(job.world, active))
  <1>. DEFINE w == job.world
              b == ResolveMaven(w, active)
  <1>1. active \subseteq Tasks
    BY JobTypes
  <1>2. StrayFailed(w, active) \subseteq active /\ Projects(w, active) \subseteq active
    BY DEF StrayFailed, Projects
  <1>3. b \in Batch
    BY <1>1, <1>2 DEF ResolveMaven, Batch, NoBatch
  <1>4. \A t \in active \ b.failed : t \in b.staged
    <2>. SUFFICES ASSUME NEW t \in active, t \notin b.failed
                  PROVE  t \in b.staged
      OBVIOUS
    <2>1. ~PomFailed(t, w)
      BY DEF ResolveMaven, NoBatch
    <2>2. \E l \in Home[t] : w.lock[l] \notin Unreadable \cup {"partial"}
      BY <2>1 DEF PomFailed
    <2>. QED  BY <2>2 DEF ResolveMaven, NoBatch
  <1>5. b.skipped = {} /\ b.removed = {} /\ ~b.removals /\ (b.inputs <=> b.staged # {})
    BY DEF ResolveMaven, NoBatch
  <1>. QED  BY <1>3, <1>4, <1>5 DEF Resolved, Covers

LEMMA PythonResolves == ASSUME job \in Jobs, "pip" \in Managers(job.world, active)
                        PROVE  Resolved(ResolvePython(job.world, active))
  <1>. DEFINE w == job.world
              b == ResolvePython(w, active)
  <1>1. active \subseteq Tasks
    BY JobTypes
  <1>2. StrayFailed(w, active) \subseteq active /\ Projects(w, active) \subseteq active
    BY DEF StrayFailed, Projects
  <1>3. b \in Batch
    BY <1>1, <1>2 DEF ResolvePython, Batch, NoBatch
  <1>4. b.skipped \subseteq active /\ \A t \in b.skipped : SkippedByPython(t, w)
    BY DEF ResolvePython, NoBatch
  <1>5. \A t \in b.skipped : w.entry[t] = "absent" \/ CalledGone(t, b.skipped)
    <2>1. SUFFICES ASSUME NEW t \in b.skipped, w.entry[t] # "absent"  PROVE CalledGone(t, b.skipped)
      OBVIOUS
    <2>2. t \in w.versioned /\ w.entry[t] = "other"
      BY <1>4, <2>1 DEF SkippedByPython
    <2>. QED  BY <2>1, <2>2 DEF CalledGone
  <1>6. \A t \in active \ b.failed : t \in b.staged \/ t \in b.skipped
    BY DEF ResolvePython, NoBatch
  <1>7. (b.inputs <=> b.staged # {}) /\ b.removed = {} /\ ~b.removals
    BY DEF ResolvePython, NoBatch
  <1>. QED  BY <1>3, <1>5, <1>6, <1>7 DEF Resolved, Covers

\* Whichever package managers the tasks of a batch have.
LEMMA BatchResolves == ASSUME job \in Jobs
                       PROVE  Resolved(Resolve(job.world, active))
  <1>. DEFINE w == job.world
  <1>1. CASE "maven" \in Managers(w, active) /\ \A t \in active : w.manager[t] = "maven"
    <2>1. Resolve(w, active) = ResolveMaven(w, active)
      BY <1>1 DEF Resolve
    <2>. QED  BY <2>1, MavenResolves
  <1>2. CASE "maven" \in Managers(w, active) /\ ~\A t \in active : w.manager[t] = "maven"
    <2>1. Resolve(w, active) = [NoBatch EXCEPT !.failed = active]
      BY <1>2 DEF Resolve
    <2>. QED  BY <2>1, JobTypes DEF Resolved, Covers, NoBatch, Batch
  <1>3. CASE Managers(w, active) \cap {"maven", "pip"} = {"pip"}
    <2>1. Resolve(w, active) = ResolvePython(w, active)
      BY <1>3 DEF Resolve
    <2>2. "pip" \in Managers(w, active)
      BY <1>3
    <2>. QED  BY <2>1, <2>2, PythonResolves
  <1>4. CASE "maven" \notin Managers(w, active) /\ Managers(w, active) \cap {"maven", "pip"} # {"pip"}
    <2>1. Resolve(w, active) = ResolveNpm(w, active)
      BY <1>4 DEF Resolve
    <2>. QED  BY <2>1, NpmResolves
  <1>. QED  BY <1>1, <1>2, <1>3, <1>4

----------------------------------------------------------------------------
(* What the phases find. *)

\* A collector that verifies a version has seen what is installed, and nothing but that version.
LEMMA VerifiedIsInstalled == ASSUME NEW m, NEW w, NEW v, Evidence(m, w, v) = "verified"
                             PROVE  AllInstalled(w) = {"expected"}
  <1>1. CASE m = "maven"
    BY <1>1 DEF Evidence, MavenEvidence
  <1>2. CASE m = "npm"
    <2>1. NpmEvidence(w, v) = "verified"
      BY <1>2 DEF Evidence
    <2>. QED  BY <2>1 DEF NpmEvidence, AllInstalled
  <1>3. CASE m \in {"pip", "pipenv"}
    <2>1. \E pipfiles \in BOOLEAN : PythonEvidence(w, v, pipfiles) = "verified"
      BY <1>3 DEF Evidence
    <2>. QED  BY <2>1 DEF PythonEvidence
  <1>. QED  BY <1>1, <1>2, <1>3 DEF Evidence

LEMMA EvidenceTypes == ASSUME NEW m, NEW w, NEW v
                       PROVE  Evidence(m, w, v) \in Deps
  BY DEF Evidence, MavenEvidence, NpmEvidence, PythonEvidence, Deps

\* So no dependency evidence verifies a target that is installed in another version.
LEMMA DepForIsSound == ASSUME job \in Jobs, NEW t \in active, NEW installed \in BOOLEAN
                       PROVE  /\ DepFor(t, installed) \subseteq Deps
                              /\ job.policy[t] = "version_bump" /\ "verified" \in DepFor(t, installed)
                                     => job.world.entry[t] # "other"
  <1>. DEFINE m == job.world.manager[t]
              e == job.world.entry[t]
  <1>1. CASE job.policy[t] # "version_bump" \/ m \notin {"npm", "pip", "maven"}
    BY <1>1 DEF DepFor, Deps
  <1>2. CASE job.policy[t] = "version_bump" /\ m \in {"npm", "pip", "maven"}
    <2>1. e \in Entries
      BY JobTypes DEF Worlds
    <2>2. DepFor(t, installed) = Collected(m, e, installed)
      BY <1>2, <2>1 DEF DepFor, DepOutcomes
    <2>3. DepFor(t, installed) \subseteq Deps
      BY <2>2, EvidenceTypes DEF Collected
    <2>4. ASSUME "verified" \in DepFor(t, installed)  PROVE e # "other"
      <3>1. PICK w \in Workspaces, v \in Views : Shows(w, e) /\ Evidence(m, w, v) = "verified"
        BY <2>2, <2>4 DEF Collected
      <3>2. AllInstalled(w) = {"expected"}
        BY <3>1, VerifiedIsInstalled
      <3>. QED  BY <3>1, <3>2 DEF Shows
    <2>. QED  BY <2>3, <2>4
  <1>. QED  BY <1>1, <1>2

\* The results of a scan are typed.
LEMMA ScanTypes == ASSUME TypeInv, NEW b \in Batch, NEW performed \in BOOLEAN, NEW remaining \in SUBSET Tasks
                   PROVE  /\ Scanned(b, performed, remaining) \in Findable /\ Unscanned(b, remaining) \in Findable
                          /\ Scanned(b, performed, remaining).dep = found.dep /\ Unscanned(b, remaining).dep = found.dep
  <1>1. active \subseteq Tasks
    BY JobTypes DEF TypeInv
  <1>2. \A e \in {"complete", "incomplete"}, p \in BOOLEAN, t \in Tasks :
           TaskEvidence(t, b, job.world, e, p, remaining) \in TaskEvidences
    BY DEF TaskEvidence, TaskEvidences, OwnRemaining
  <1>3. EvidenceOf(b) \in {"complete", "incomplete"}
    BY DEF EvidenceOf
  <1>. QED  BY <1>1, <1>2, <1>3 DEF Scanned, Unscanned, TypeInv, Findable, Batch

\* The gates have something to judge by once a scan proves something.
LEMMA VerdictTypes == ASSUME TypeInv, NEW t \in active, NEW a \in Answers
                      PROVE  Verdict(t, a) \in Evaluations
  <1>. DEFINE p == job.policy[t]
              g == Gates(t, p, found)
              e == Decide(t, p, a, g, active)
  <1>1. /\ Passed \in Evaluations /\ Inconclusive \in Evaluations /\ ContractError \in Evaluations
        /\ \A c \in Categories : Failed(c) \in Evaluations
    BY DEF Passed, Inconclusive, ContractError, Failed, Evaluations, Categories
  <1>2. e \in {Passed, Inconclusive, ContractError} \/ \E c \in Categories : e = Failed(c)
    BY DEF Decide, Categories
  <1>3. e \in Evaluations /\ [e EXCEPT !.inconclusive = FALSE] \in Evaluations
    BY <1>1, <1>2 DEF Evaluations
  <1>. QED  BY <1>1, <1>3 DEF Verdict, Unscannable

----------------------------------------------------------------------------
(* The invariant is inductive. *)

LEMMA CriticAtInit == ASSUME Init PROVE QaInv
  <1>. USE DEF Init
  <1>1. TypeInv
    BY JobAssumption DEF TypeInv, Phases, Batch, NoBatch, NothingFound, Findable, Installs, Deps, NoEvidence, TaskEvidences
  <1>2. ScanIsSound
    BY DEF ScanIsSound, Unseen, NothingFound
  <1>3. DepIsSound
    BY JobTypes DEF DepIsSound, NothingFound
  <1>4. JudgedLast
    BY DEF JudgedLast
  <1>. QED  BY <1>1, <1>2, <1>3, <1>4 DEF QaInv

\* The ways out leave no task judged but by an error of QA itself.
LEMMA EndsKeep == ASSUME QaInv, RefuseScope \/ Unavailable \/ SandboxLost \/ ResolveUnknown \/ Finish \/ UNCHANGED vars
                  PROVE  QaInv'
  <1>. USE DEF QaInv
  <1>1. TypeInv'
    BY DEF RefuseScope, Unavailable, SandboxLost, ResolveUnknown, Finish, QaEnds, vars, TypeInv, Phases,
           ContractError, Failed, Passed, Evaluations, Categories
  <1>2. ScanIsSound'
    BY DEF RefuseScope, Unavailable, SandboxLost, ResolveUnknown, Finish, QaEnds, vars, ScanIsSound,
           Unseen, Unproving, Proving, Covers, CalledGone, active
  <1>3. DepIsSound' /\ JudgedLast'
    BY DEF RefuseScope, Unavailable, SandboxLost, ResolveUnknown, Finish, QaEnds, vars, DepIsSound, JudgedLast, active
  <1>. QED  BY <1>1, <1>2, <1>3

LEMMA InstallKeeps == ASSUME QaInv, Install PROVE QaInv'
  <1>. USE DEF QaInv, Install
  <1>1. PICK how \in Installs, dep \in [Tasks -> Deps] :
           /\ \A t \in Tasks : dep[t] \in DepFor(t, how = "ok")
           /\ found' = [found EXCEPT !.install = how, !.dep = dep]
    BY DEF Deps
  <1>2. active' = active /\ active \subseteq Tasks
    BY JobTypes DEF active, TypeInv
  <1>3. TypeInv'
    BY <1>1 DEF TypeInv, Phases, Findable
  <1>4. ScanIsSound'
    BY <1>1 DEF ScanIsSound, Unseen, TypeInv, Findable
  <1>5. \A t \in active : job.policy[t] = "version_bump" /\ dep[t] = "verified" => job.world.entry[t] # "other"
    <2>1. SUFFICES ASSUME NEW t \in active, job.policy[t] = "version_bump", dep[t] = "verified"
                   PROVE  job.world.entry[t] # "other"
      OBVIOUS
    <2>2. job \in Jobs /\ (how = "ok") \in BOOLEAN /\ dep[t] \in DepFor(t, how = "ok")
      BY <1>1, <1>2 DEF TypeInv
    <2>. HIDE DEF QaInv, Install
    <2>. QED  BY <2>1, <2>2, DepForIsSound
  <1>6. DepIsSound'
    BY <1>1, <1>2, <1>5 DEF DepIsSound, TypeInv, Findable
  <1>7. JudgedLast'
    BY DEF JudgedLast
  <1>. QED  BY <1>3, <1>4, <1>6, <1>7

\* A scan proves something about the batch it was staged for, whatever it reports.
LEMMA ScanProves == ASSUME TypeInv, NEW b \in Batch, Covers(b),
                           NEW remaining \in Reported(b.staged \cap active),
                           found' = Scanned(b, TRUE, remaining), UNCHANGED job
                    PROVE  Proving'
  <1>. USE DEF TypeInv
  <1>1. active' = active /\ active \subseteq Tasks
    BY JobTypes DEF active
  <1>2. /\ found'.scan = "ok" /\ found'.known = active /\ found'.failed = b.failed
        /\ found'.skipped = b.skipped /\ found'.remaining = remaining
        /\ \A t \in Tasks : found'.by[t].remaining = OwnRemaining(t, b, job.world, TRUE, remaining)
    BY DEF Scanned, Findable, TaskEvidence
  <1>3. ASSUME NEW t \in active  PROVE found'.by[t].remaining => t \in found'.remaining
    BY <1>1, <1>2 DEF OwnRemaining
  <1>. \A t : CalledGone(t, found.skipped)' <=> CalledGone(t, b.skipped)
    BY <1>1, <1>2 DEF CalledGone
  <1>4. ASSUME NEW t \in active, t \in found'.skipped
        PROVE  job.world.entry[t] = "absent" \/ CalledGone(t, b.skipped)
    BY <1>2, <1>4 DEF Covers
  <1>5. ASSUME NEW t \in active, job.policy[t] = "package_removal", t \notin b.failed,
               job.world.entry[t] # "absent", ~CalledGone(t, b.skipped)
        PROVE  found'.by[t].remaining
    <2>1. t \in b.staged /\ t \notin b.skipped
      BY <1>5 DEF Covers
    <2>2. t \in remaining
      BY <1>5, <2>1 DEF Reported
    <2>. QED  BY <1>1, <1>2, <2>1, <2>2 DEF OwnRemaining
  <1>. QED  BY <1>1, <1>2, <1>3, <1>4, <1>5 DEF Proving

\* A scan is spared only when no target is left to look at.
LEMMA SparedProves == ASSUME TypeInv, NEW b \in Batch,
                             \A t \in active : job.world.entry[t] = "absent" \/ CalledGone(t, b.skipped),
                             found' = [Scanned(b, FALSE, {}) EXCEPT !.scanSkipped = TRUE], UNCHANGED job
                      PROVE  Proving'
  <1>. USE DEF TypeInv
  <1>1. active' = active /\ active \subseteq Tasks
    BY JobTypes DEF active
  <1>2. /\ found'.scan = "ok" /\ found'.known = active /\ found'.skipped = b.skipped
        /\ \A t \in Tasks : found'.by[t].remaining = FALSE
    BY DEF Scanned, Findable, TaskEvidence, OwnRemaining
  <1>. \A t : CalledGone(t, found.skipped)' <=> CalledGone(t, b.skipped)
    BY <1>1, <1>2 DEF CalledGone
  <1>. QED  BY <1>1, <1>2 DEF Proving

LEMMA UnscannedProvesNothing == ASSUME TypeInv, Unseen, NEW b, NEW remaining, found' = Unscanned(b, remaining)
                                PROVE  Unproving'
  BY DEF TypeInv, Unseen, Unscanned, Findable, Unproving

LEMMA ResolveKeeps == ASSUME QaInv, ResolveTargets PROVE QaInv'
  <1>. USE DEF QaInv, ResolveTargets
  <1>. DEFINE b == Resolve(job.world, active)
              spared == [b EXCEPT !.covered = active, !.skipped = {}]
  <1>1. active' = active /\ active \subseteq Tasks /\ active # {}
    BY JobTypes DEF active, TypeInv
  <1>2. Resolved(b)
    BY BatchResolves DEF TypeInv
  <1>3. b \in Batch /\ spared \in Batch
    BY <1>1, <1>2 DEF Resolved, Batch
  <1>4. Unseen
    BY DEF ScanIsSound
  <1>5. CASE OnlyRemovals /\ DeletionOnly(b, active)
    <2>1. pc' = "tests" /\ found' = [Scanned(spared, FALSE, {}) EXCEPT !.scanSkipped = TRUE]
      BY <1>5 DEF DeletionOnly
    <2>2. \A t \in active : job.world.entry[t] = "absent"
      BY <1>2, <1>5 DEF Resolved, DeletionOnly
    <2>3. Proving'
      BY <1>3, <2>1, <2>2, SparedProves DEF TypeInv
    <2>4. Scanned(spared, FALSE, {}) \in Findable /\ Scanned(spared, FALSE, {}).dep = found.dep
      BY <1>3, ScanTypes
    <2>5. found' \in Findable /\ found'.dep = found.dep /\ batch' \in Batch
      BY <1>3, <2>1, <2>4 DEF Findable
    <2>. QED  BY <1>1, <2>1, <2>3, <2>5 DEF TypeInv, Phases, ScanIsSound, DepIsSound, JudgedLast
  <1>6. CASE ~(OnlyRemovals /\ DeletionOnly(b, active)) /\ b.inputs
    <2>1. pc' = "stage" /\ found' = found /\ batch' = b
      BY <1>6
    <2>. QED  BY <1>1, <1>2, <1>3, <1>4, <2>1 DEF TypeInv, Phases, ScanIsSound, Unseen, Covers, CalledGone, Resolved, DepIsSound, JudgedLast
  <1>7. CASE ~(OnlyRemovals /\ DeletionOnly(b, active)) /\ ~b.inputs /\ b.skipped # {} /\ b.failed = {}
    <2>1. pc' = "tests" /\ found' = [Scanned(b, FALSE, {}) EXCEPT !.scanSkipped = TRUE]
      BY <1>7
    <2>2. \A t \in active : job.world.entry[t] = "absent" \/ CalledGone(t, b.skipped)
      BY <1>2, <1>7 DEF Resolved, Covers
    <2>3. Proving'
      BY <1>3, <2>1, <2>2, SparedProves DEF TypeInv
    <2>4. Scanned(b, FALSE, {}) \in Findable /\ Scanned(b, FALSE, {}).dep = found.dep
      BY <1>3, ScanTypes
    <2>5. found' \in Findable /\ found'.dep = found.dep /\ batch' \in Batch
      BY <1>3, <2>1, <2>4 DEF Findable
    <2>. QED  BY <1>1, <2>1, <2>3, <2>5 DEF TypeInv, Phases, ScanIsSound, DepIsSound, JudgedLast
  <1>8. CASE ~(OnlyRemovals /\ DeletionOnly(b, active)) /\ ~b.inputs /\ ~(b.skipped # {} /\ b.failed = {})
    <2>1. pc' = "tests" /\ found' = Unscanned(b, {})
      BY <1>8
    <2>2. Unproving'
      BY <1>4, <2>1, UnscannedProvesNothing
    <2>3. found' \in Findable /\ found'.dep = found.dep /\ batch' \in Batch
      BY <1>3, <2>1, ScanTypes
    <2>. QED  BY <1>1, <2>1, <2>2, <2>3 DEF TypeInv, Phases, ScanIsSound, DepIsSound, JudgedLast
  <1>. QED  BY <1>5, <1>6, <1>7, <1>8

LEMMA StagingKeeps == ASSUME QaInv, Stage \/ OdcFails \/ RunOdc \/ Clean PROVE QaInv'
  <1>. USE DEF QaInv
  <1>1. active' = active /\ active \subseteq Tasks
    BY JobTypes DEF active, TypeInv, Stage, OdcFails, RunOdc, Clean
  <1>2. CASE UNCHANGED found /\ ((Stage /\ pc' = "scan") \/ Clean)
    <2>1. TypeInv'
      BY <1>2 DEF TypeInv, Phases, Stage, Clean
    <2>2. ASSUME Stage, pc' = "scan"  PROVE ScanIsSound'
      BY <1>1, <1>2, <2>2 DEF ScanIsSound, Unseen, Covers, CalledGone, Stage
    <2>3. ASSUME Clean  PROVE ScanIsSound'
      <3>1. UNCHANGED <<found, job>> /\ pc = "clean" /\ pc' = "tests"
        BY <2>3 DEF Clean
      <3>2. (Unproving => Unproving') /\ (Proving => Proving')
        BY <1>1, <3>1 DEF Unproving, Proving, CalledGone
      <3>. QED  BY <3>1, <3>2 DEF ScanIsSound
    <2>. QED  BY <1>1, <1>2, <2>1, <2>2, <2>3 DEF DepIsSound, JudgedLast, Stage, Clean
  <1>3. ASSUME NEW remaining \in SUBSET Tasks, found' = Unscanned(batch, remaining), pc' = "clean", Stage \/ OdcFails \/ RunOdc
        PROVE  QaInv'
    <2>1. Unproving'
      BY <1>3, UnscannedProvesNothing DEF ScanIsSound, Stage, OdcFails, RunOdc
    <2>2. found' \in Findable /\ found'.dep = found.dep
      BY <1>3, ScanTypes DEF TypeInv
    <2>3. TypeInv' /\ ScanIsSound'
      BY <1>3, <2>1, <2>2 DEF TypeInv, Phases, ScanIsSound, Stage, OdcFails, RunOdc
    <2>. QED  BY <1>1, <1>3, <2>2, <2>3 DEF DepIsSound, JudgedLast, Stage, OdcFails, RunOdc
  <1>4. ASSUME NEW remaining \in Reported(batch.staged \cap active), found' = Scanned(batch, TRUE, remaining), RunOdc
        PROVE  QaInv'
    <2>1. remaining \in SUBSET Tasks
      BY <1>1 DEF Reported
    <2>2. Covers(batch) /\ batch \in Batch
      BY <1>4 DEF RunOdc, ScanIsSound, Unseen, TypeInv
    <2>3. Proving'
      BY <1>4, <2>2, ScanProves DEF RunOdc
    <2>4. found' \in Findable /\ found'.dep = found.dep
      BY <1>4, <2>1, <2>2, ScanTypes
    <2>5. TypeInv' /\ ScanIsSound'
      BY <1>4, <2>3, <2>4 DEF TypeInv, Phases, ScanIsSound, RunOdc
    <2>. QED  BY <1>1, <1>4, <2>4, <2>5 DEF DepIsSound, JudgedLast, RunOdc
  <1>5. CASE Stage
    BY <1>2, <1>3, <1>5 DEF Stage
  <1>6. CASE OdcFails
    BY <1>3, <1>6 DEF OdcFails
  <1>7. CASE RunOdc
    <2>1. PICK remaining \in Reported(batch.staged \cap active), report \in Reports :
             found' = IF report = "faithful" THEN Scanned(batch, TRUE, remaining)
                      ELSE Unscanned(batch, remaining)
      BY <1>7 DEF RunOdc
    <2>2. remaining \in SUBSET Tasks
      BY <1>1 DEF Reported
    <2>. QED  BY <1>3, <1>4, <1>7, <2>1, <2>2 DEF RunOdc
  <1>8. CASE Clean
    BY <1>2, <1>8 DEF Clean
  <1>. QED  BY <1>5, <1>6, <1>7, <1>8

LEMMA TestsKeep == ASSUME QaInv, RunTests PROVE QaInv'
  <1>. USE DEF QaInv, RunTests
  <1>1. PICK how \in {"passed", "failed"} : found' = [found EXCEPT !.tests = how]
    OBVIOUS
  <1>2. active' = active
    BY DEF active
  <1>3. TypeInv'
    BY <1>1 DEF TypeInv, Phases, Findable
  <1>4. found'.tests # "not_run" /\ (Proving => Proving') /\ (Unproving => ProvesNothing(found))
    BY <1>1, <1>2 DEF TypeInv, Findable, Proving, CalledGone, Unproving, ProvesNothing
  <1>5. ScanIsSound'
    BY <1>4 DEF ScanIsSound
  <1>6. DepIsSound' /\ JudgedLast'
    BY <1>1, <1>2 DEF DepIsSound, JudgedLast, TypeInv, Findable
  <1>. QED  BY <1>3, <1>5, <1>6

LEMMA VerdictsKeep == ASSUME QaInv, JudgeInconclusive \/ (\E t \in Tasks : Judge(t)) PROVE QaInv'
  <1>. USE DEF QaInv
  <1>1. CASE JudgeInconclusive
    <2>1. TypeInv'
      BY <1>1, JobTypes DEF JudgeInconclusive, TypeInv, Phases, Evaluations, Failed, Passed, Inconclusive, Categories
    <2>. QED  BY <1>1, <2>1 DEF JudgeInconclusive, ScanIsSound, DepIsSound, JudgedLast, active
  <1>2. ASSUME NEW t \in Tasks, Judge(t)  PROVE QaInv'
    <2>1. PICK a \in Voices : evals' = [evals EXCEPT ![t] = Verdict(t, a)]
      BY <1>2 DEF Judge
    <2>2. Verdict(t, a) \in Evaluations
      BY <1>2, VerdictTypes, JobAssumption DEF Judge
    <2>3. TypeInv'
      BY <1>2, <2>1, <2>2 DEF Judge, TypeInv, active
    <2>. QED  BY <1>2, <2>3 DEF Judge, ScanIsSound, Proving, CalledGone, DepIsSound, JudgedLast, active
  <1>. QED  BY <1>1, <1>2

LEMMA QaStep == ASSUME QaInv, [Next]_vars PROVE QaInv'
  BY EndsKeep, InstallKeeps, ResolveKeeps, StagingKeeps, TestsKeep, VerdictsKeep DEF Next, Ended

----------------------------------------------------------------------------
(* What a verdict rests on. *)

\* What speaks against task t: what the phases found, or the evaluator.
Cause(t) ==
    \/ found.install # "ok" \/ t \in accused
    \/ t \in found.remaining \/ found.dep[t] = "mismatch"

\* The scanner is satisfied once its scan proves something, and what it holds against a task is what
\* it reported.
LEMMA GatesOfProof == ASSUME TypeInv, Proving, NEW t \in active, NEW p
                      PROVE  /\ Gates(t, p, found).scanner = "success"
                             /\ Gates(t, p, found).remaining => t \in found.remaining
                             /\ Gates(t, p, found).install = found.install /\ Gates(t, p, found).tests = found.tests
                             /\ Gates(t, p, found).dep = found.dep[t]
                             /\ Gates(t, p, found).absent = Absent(t, found)
  <1>1. ScannerStatus(t, p, found) = "success"
    BY DEF ScannerStatus, Proving
  <1>2. Remaining(t, found) => t \in found.remaining
    BY DEF Remaining, Proving, HasEvidence
  <1>. QED  BY <1>1, <1>2 DEF Gates

\* An answer keeps its kind when the tests are held against the only task.
LEMMA BlameKeepsKind == ASSUME NEW t, NEW a \in Answers, NEW g, NEW S
                        PROVE  /\ SingletonBlame(t, a, g, S).kind = a.kind
                               /\ SingletonBlame(t, a, g, S).backed = a.backed
  BY DEF SingletonBlame, Answers

\* A verdict against a task has a cause: the policy alone never charges one.
LEMMA FailureHasCause ==
    ASSUME QaInv, pc = "judge", NEW t \in active, NEW a \in Answers
    PROVE  LET p == job.policy[t]
               e == Decide(t, p, a, Gates(t, p, found), active)
           IN  \/ e \in {Passed, Inconclusive, ContractError} \/ Against(t, a) \/ TestsAgainst(t, a)
               \/ found.install # "ok"
               \/ t \in found.remaining \/ found.dep[t] = "mismatch"
  <1>. DEFINE p == job.policy[t]
              g == Gates(t, p, found)
              b == SingletonBlame(t, a, g, active)
              e == Decide(t, p, a, g, active)
  <1>. SUFFICES ASSUME e \notin {Passed, Inconclusive, ContractError}, ~Against(t, a), ~TestsAgainst(t, a),
                       found.install = "ok",
                       t \notin found.remaining, found.dep[t] # "mismatch"
                PROVE  FALSE
    OBVIOUS
  <1>1. Proving /\ TypeInv /\ found.tests \in {"passed", "failed"}
    BY DEF QaInv, ScanIsSound, TypeInv, Findable
  <1>2. /\ g.scanner = "success" /\ ~g.remaining /\ g.install = "ok" /\ g.tests = found.tests
        /\ g.dep # "mismatch"
    BY <1>1, GatesOfProof
  <1>3. b.kind = a.kind /\ b.backed = a.backed
    BY BlameKeepsKind
  <1>4. Failures(t, p, b, g, active) # {} /\ a.kind \notin {"contract", "omitted"}
    BY <1>2, <1>3 DEF Decide
  <1>5. a.kind \in Kinds /\ (p \in Semantic => a.backed)
    BY DEF Against, Answers
  \* The tests are not held against the task.
  <1>6. g.tests = "passed" \/ (p = "version_bump" /\ Exonerated(t, b, active))
    BY <1>1, <1>2 DEF TestsAgainst
  <1>7. p \in Policies
    BY <1>1, JobTypes DEF TypeInv
  <1>8. ~Relevant(t, p, b, g, active)
    <2>1. CASE p = "version_bump"
      <3>1. a.kind \in {"pass", "uninformed", "breaking", "outage"}
        BY <1>4, <1>5 DEF Against, Kinds
      <3>. QED  BY <1>3, <1>6, <2>1, <3>1 DEF Relevant, CategoryOf, Exonerated
    <2>2. CASE p # "version_bump"
      <3>1. a.kind = "pass" \/ (a.kind = "uninformed" /\ p \in {"package_removal", "code_removal"})
        BY <1>4, <1>5, <2>2 DEF Against, Kinds
      <3>. QED  BY <1>3, <2>2, <3>1 DEF Relevant
    <2>. QED  BY <2>1, <2>2
  <1>9. p \in HardTests => g.tests = "passed"
    BY <1>6 DEF HardTests
  <1>10. ~(p = "version_bump" /\ g.tests # "passed" /\ ~(b.kind = "outage" \/ (g.tests = "failed" /\ Exonerated(t, b, active))))
    BY <1>1, <1>2, <1>6
  <1>. QED  BY <1>2, <1>3, <1>4, <1>5, <1>8, <1>9, <1>10 DEF Failures

\* A version bump that passes was seen in its version, or is gone; a removal that passes is gone; but
\* for a target that is only called gone.
LEMMA PassIsFixed ==
    ASSUME QaInv, pc = "judge", NEW t \in active, NEW a \in Answers, Verdict(t, a).passed,
           ~CalledGone(t, found.skipped)
    PROVE  /\ job.policy[t] = "version_bump" => job.world.entry[t] # "other"
           /\ job.policy[t] = "package_removal" => job.world.entry[t] = "absent"
  <1>. DEFINE p == job.policy[t]
              g == Gates(t, p, found)
              b == SingletonBlame(t, a, g, active)
              e == Decide(t, p, a, g, active)
  <1>1. Proving /\ TypeInv /\ DepIsSound
    BY DEF QaInv, ScanIsSound
  <1>2. e.passed /\ t \notin found.failed
    BY DEF Verdict, Unscannable, Inconclusive, Failed, Passed
  <1>3. CASE Absent(t, found)
    BY <1>1, <1>3 DEF Absent, Proving
  <1>4. CASE ~Absent(t, found)
    <2>1. ~g.absent /\ g.scanner = "success" /\ g.dep = found.dep[t]
      BY <1>1, <1>4, GatesOfProof
    <2>2. e = Passed
      BY <1>2 DEF Decide, Passed, Failed, Inconclusive, ContractError
    <2>3. Failures(t, p, b, g, active) = {} /\ ~Unproven(p, g)
      <3>1. ~AbsentPass(t, p, b, g, active)
        BY <2>1 DEF AbsentPass
      <3>. QED  BY <2>2, <3>1 DEF Decide, Passed, Failed, Inconclusive, ContractError
    <2>4. ASSUME p = "version_bump"  PROVE job.world.entry[t] # "other"
      <3>1. g.dep \notin {"none", "inconclusive", "mismatch"}
        BY <2>1, <2>3, <2>4 DEF Unproven, Failures, Categories
      <3>2. found.dep[t] = "verified"
        BY <1>1, <2>1, <3>1, JobTypes DEF TypeInv, Findable, Deps
      <3>. QED  BY <1>1, <2>4, <3>2 DEF DepIsSound
    <2>5. ASSUME p = "package_removal"  PROVE job.world.entry[t] = "absent"
      <3>1. ~g.remaining
        BY <2>3, <2>5 DEF Failures, Strict, Categories
      <3>2. ~found.by[t].remaining
        BY <1>1, <1>4, <3>1 DEF Gates, Remaining, HasEvidence, Proving
      <3>. QED  BY <1>1, <1>2, <2>5, <3>2 DEF Proving
    <2>. QED  BY <2>4, <2>5
  <1>. QED  BY <1>3, <1>4

----------------------------------------------------------------------------
(* The theorems. *)

LEMMA QaInvariant == Spec => []QaInv
  <1>1. Init => QaInv
    BY CriticAtInit
  <1>2. QaInv /\ [Next]_vars => QaInv'
    BY QaStep
  <1>. QED  BY <1>1, <1>2, PTL DEF Spec

\* A verdict is given in one of two ways, or taken back with all the others by an error of QA.
LEMMA VerdictSteps == ASSUME QaInv, QaInv', [Next]_vars
                      PROVE  \/ \A t \in active' : evals'[t] \in {Undecided, ContractError}
                             \/ UNCHANGED <<evals, job, found, accused>>
                             \/ JudgeInconclusive
                             \/ \E t \in active : Judge(t)
  <1>1. active' \subseteq Tasks
    BY JobAssumption DEF QaInv, TypeInv, active
  <1>2. CASE pc' \notin {"judge", "done"}
    BY <1>1, <1>2 DEF QaInv, JudgedLast
  <1>3. CASE RefuseScope \/ RunTests
    BY <1>1, <1>3 DEF QaInv, JudgedLast, RefuseScope, RunTests
  <1>4. CASE Unavailable \/ SandboxLost
    BY <1>1, <1>4 DEF QaEnds, Unavailable, SandboxLost
  <1>5. CASE Finish \/ UNCHANGED vars \/ Ended
    BY <1>5 DEF Finish, vars, Ended
  <1>. QED  BY <1>2, <1>3, <1>4, <1>5 DEF Next, Install, ResolveTargets, ResolveUnknown, Stage, OdcFails,
                                          RunOdc, Clean, Judge

LEMMA PassStep == ASSUME QaInv, QaInv', PassedIsFixed, [Next]_vars PROVE PassedIsFixed'
  <1>1. CASE \A t \in active' : evals'[t] \in {Undecided, ContractError}
    BY <1>1 DEF PassedIsFixed, ContractError, Failed, Passed
  <1>2. CASE UNCHANGED <<evals, job, found, accused>>
    BY <1>2 DEF PassedIsFixed, CalledGone, active
  <1>3. CASE JudgeInconclusive
    <2>1. \A t \in active : ~evals'[t].passed
      BY <1>3, JobTypes DEF JudgeInconclusive, QaInv, TypeInv, Failed, Passed, Inconclusive
    <2>. QED  BY <1>3, <2>1 DEF JudgeInconclusive, PassedIsFixed, CalledGone, active
  <1>4. ASSUME NEW t \in active, Judge(t)  PROVE PassedIsFixed'
    <2>1. PICK a \in Voices : evals' = [evals EXCEPT ![t] = Verdict(t, a)]
      BY <1>4 DEF Judge
    <2>2. a \in Answers /\ pc = "judge" /\ job' = job /\ found' = found /\ active' = active
      BY <1>4, JobAssumption DEF Judge, active
    <2>3. evals'[t] = Verdict(t, a) /\ \A u \in active \ {t} : evals'[u] = evals[u]
      BY <1>4, <2>1, JobTypes DEF QaInv, TypeInv
    <2>4. \A u : CalledGone(u, found.skipped)' <=> CalledGone(u, found.skipped)
      BY <2>2 DEF CalledGone
    <2>. QED  BY <2>2, <2>3, <2>4, PassIsFixed DEF PassedIsFixed
  <1>. QED  BY <1>1, <1>2, <1>3, <1>4, VerdictSteps

\* A verdict that costs a retry has a cause, also when the target could not be scanned, but for an
\* update that is then charged for the tests.
LEMMA JudgedForCause ==
    ASSUME QaInv, pc = "judge", NEW t \in active, NEW a \in Answers, UNCHANGED <<job, found>>,
           accused' = IF Against(t, a) \/ TestsAgainst(t, a) THEN accused \cup {t} ELSE accused
    PROVE  Charges(Verdict(t, a)) => Cause(t)' \/ ChargedUnscanned(t)'
  <1>. DEFINE p == job.policy[t]
              g == Gates(t, p, found)
              e == Decide(t, p, a, g, active)
  <1>. SUFFICES ASSUME Charges(Verdict(t, a)), ~Cause(t)', ~ChargedUnscanned(t)'
                PROVE  FALSE
    OBVIOUS
  <1>1. ~Against(t, a) /\ ~TestsAgainst(t, a) /\ found.install = "ok"
        /\ t \notin found.remaining /\ found.dep[t] # "mismatch"
    BY DEF Cause
  <1>2. e \in {Passed, Inconclusive, ContractError}
    BY <1>1, FailureHasCause
  <1>3. ~Charges(e)
    <2>1. ~Charges(Passed) /\ ~Charges(Inconclusive) /\ ~Charges(ContractError)
      BY DEF Charges, Passed, Failed, Inconclusive, ContractError
    <2>. QED  BY <1>2, <2>1
  <1>4. t \in found.failed /\ Charges(Unscannable(t, e))
    BY <1>3 DEF Verdict
  <1>5. found.tests # "failed"
    BY <1>1, <1>4 DEF TestsAgainst, ChargedUnscanned
  <1>6. e = Inconclusive
    <2>1. ~Charges(Inconclusive) /\ ~Charges([ContractError EXCEPT !.inconclusive = FALSE])
      BY DEF Charges, Passed, Failed, Inconclusive, ContractError
    <2>2. e # ContractError
      BY <1>4, <2>1 DEF Unscannable
    <2>3. e # Passed
      BY <1>4, <2>1 DEF Unscannable, Passed
    <2>. QED  BY <1>2, <2>2, <2>3
  <1>7. ~g.remaining
    BY <1>1, GatesOfProof DEF QaInv, ScanIsSound
  <1>8. Unscannable(t, e) = Inconclusive
    BY <1>1, <1>5, <1>6, <1>7 DEF Unscannable, Inconclusive, Failed, Passed
  <1>. QED  BY <1>3, <1>4, <1>6, <1>8

LEMMA ChargeStep == ASSUME QaInv, QaInv', ChargedForCause, [Next]_vars PROVE ChargedForCause'
  <1>1. CASE \A t \in active' : evals'[t] \in {Undecided, ContractError}
    BY <1>1 DEF ChargedForCause, Charges, ContractError, Failed, Passed
  <1>2. CASE UNCHANGED <<evals, job, found, accused>>
    BY <1>2 DEF ChargedForCause, ChargedUnscanned, active
  <1>3. CASE JudgeInconclusive
    <2>1. \A t \in active : Charges(evals'[t]) => t \in accused'
      BY <1>3, JobTypes DEF JudgeInconclusive, QaInv, TypeInv, Failed, Passed, Inconclusive, Charges
    <2>. QED  BY <1>3, <2>1 DEF JudgeInconclusive, ChargedForCause, active
  <1>4. ASSUME NEW t \in active, Judge(t)  PROVE ChargedForCause'
    <2>1. PICK a \in Voices :
             /\ evals' = [evals EXCEPT ![t] = Verdict(t, a)]
             /\ accused' = IF Against(t, a) \/ TestsAgainst(t, a) THEN accused \cup {t} ELSE accused
      BY <1>4 DEF Judge
    <2>2. a \in Answers /\ pc = "judge" /\ UNCHANGED <<job, found>> /\ active' = active
      BY <1>4, JobAssumption DEF Judge, active
    <2>3. evals'[t] = Verdict(t, a) /\ \A u \in active \ {t} : evals'[u] = evals[u]
      BY <1>4, <2>1, JobTypes DEF QaInv, TypeInv
    <2>4. Charges(Verdict(t, a)) => Cause(t)' \/ ChargedUnscanned(t)'
      BY <2>1, <2>2, JudgedForCause
    <2>5. \A u \in active : (Cause(u) => Cause(u)') /\ (ChargedUnscanned(u) => ChargedUnscanned(u)')
      BY <2>1, <2>2 DEF Cause, ChargedUnscanned
    <2>. QED  BY <2>2, <2>3, <2>4, <2>5 DEF ChargedForCause, Cause
  <1>. QED  BY <1>1, <1>2, <1>3, <1>4, VerdictSteps

LEMMA UnresolvedStep == ASSUME QaInv, QaInv', UnresolvedIsInconclusive, [Next]_vars
                        PROVE  UnresolvedIsInconclusive'
  <1>1. CASE \A t \in active' : evals'[t] \in {Undecided, ContractError}
    BY <1>1 DEF UnresolvedIsInconclusive, Charges, ContractError, Failed, Passed
  <1>2. CASE UNCHANGED <<evals, job, found, accused>>
    BY <1>2 DEF UnresolvedIsInconclusive, active
  <1>3. CASE JudgeInconclusive
    <2>1. \A t \in active : ~evals'[t].passed /\ (Charges(evals'[t]) => t \in accused')
      BY <1>3, JobTypes DEF JudgeInconclusive, QaInv, TypeInv, Failed, Passed, Inconclusive, Charges
    <2>. QED  BY <1>3, <2>1 DEF JudgeInconclusive, UnresolvedIsInconclusive, active
  <1>4. ASSUME NEW t \in active, Judge(t)  PROVE UnresolvedIsInconclusive'
    <2>1. PICK a \in Voices :
             /\ evals' = [evals EXCEPT ![t] = Verdict(t, a)]
             /\ accused' = IF Against(t, a) \/ TestsAgainst(t, a) THEN accused \cup {t} ELSE accused
      BY <1>4 DEF Judge
    <2>2. a \in Answers /\ pc = "judge" /\ UNCHANGED <<job, found>> /\ active' = active
      BY <1>4, JobAssumption DEF Judge, active
    <2>3. evals'[t] = Verdict(t, a) /\ \A u \in active \ {t} : evals'[u] = evals[u]
      BY <1>4, <2>1, JobTypes DEF QaInv, TypeInv
    <2>4. t \in found.failed => ~Verdict(t, a).passed
      BY DEF Verdict, Unscannable, Inconclusive, Failed, Passed
    <2>5. Charges(Verdict(t, a)) => Cause(t)' \/ ChargedUnscanned(t)'
      BY <2>1, <2>2, JudgedForCause
    <2>. QED  BY <2>1, <2>2, <2>3, <2>4, <2>5 DEF UnresolvedIsInconclusive, Cause, ChargedUnscanned
  <1>. QED  BY <1>1, <1>2, <1>3, <1>4, VerdictSteps

\* A version bump that passed left no other version of its target installed, and a removal that
\* passed left none at all, whatever could not be read (_run_global_execution and
\* qa_policy_engine.py); but for a Python target that is called gone while another version than the
\* committed one is installed.
THEOREM PassesAreFixed == Spec => []PassedIsFixed
  <1>1. Init => PassedIsFixed
    BY JobTypes DEF Init, PassedIsFixed
  <1>2. QaInv /\ QaInv' /\ PassedIsFixed /\ [Next]_vars => PassedIsFixed'
    BY PassStep
  <1>. QED  BY <1>1, <1>2, QaInvariant, PTL DEF Spec

\* A retry is only charged for something that speaks against the candidate: its installation, the
\* tests it is not exonerated of, the scan of its target, the version that is installed, or the
\* evaluator (docs/architecture.md:307-313 and qa_policy_engine.py); but for an update of several
\* whose target could not be scanned, which is charged for any failed tests.
THEOREM ChargesHaveCause == Spec => []ChargedForCause
  <1>1. Init => ChargedForCause
    BY JobTypes DEF Init, ChargedForCause
  <1>2. QaInv /\ QaInv' /\ ChargedForCause /\ [Next]_vars => ChargedForCause'
    BY ChargeStep
  <1>. QED  BY <1>1, <1>2, QaInvariant, PTL DEF Spec

\* A target that cannot be resolved passes nothing and charges nothing, unless something else speaks
\* against its task (the rule for unscannable targets in qa_critic.py).
THEOREM UnresolvedTargetsWait == Spec => []UnresolvedIsInconclusive
  <1>1. Init => UnresolvedIsInconclusive
    BY JobTypes DEF Init, UnresolvedIsInconclusive
  <1>2. QaInv /\ QaInv' /\ UnresolvedIsInconclusive /\ [Next]_vars => UnresolvedIsInconclusive'
    BY UnresolvedStep
  <1>. QED  BY <1>1, <1>2, QaInvariant, PTL DEF Spec

=============================================================================
