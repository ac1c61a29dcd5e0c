--------------------------- MODULE MCWorkers_proofs ---------------------------
(***************************************************************************)
(* What the run of the workers shows, for any packages, versions, files and *)
(* bounds: of the tool loop, the sandbox, the memory, the update worker and *)
(* the workaround worker.                                                   *)
(***************************************************************************)
EXTENDS MCWorkers, SequencesExt, SequenceTheorems, FiniteSetTheorems, WellFoundedInduction, TLAPS

\* Everything the run looks at.
Seen == <<machine, vars, updateVars, loopVars, memoryVars, sandboxVars>>

-----------------------------------------------------------------------------
(* The tool loop. *)

\* A loop that has met the loss of its sandbox is in the turn that met it, with the flag
\* that ends it, or has ended.
Told == gone => (lpc = "calls" /\ "stopped" \in flags) \/ lpc = "ended"

LEMMA ToldAtInit == ASSUME WorkersInit PROVE Told
  BY DEF WorkersInit, L!Init, Told

LEMMA LoopTold == ASSUME Told, L!Next PROVE Told'
  <1>1. CASE L!ModelFails
    BY <1>1 DEF L!ModelFails, L!End, L!Unturned, Told
  <1>2. CASE L!Speaks
    BY <1>2 DEF L!Speaks, L!End, L!Unturned, Told
  <1>3. CASE L!Asks
    <2>1. ~gone /\ ~gone'
      BY <1>3 DEF L!Asks, Told
    <2>. QED  BY <2>1 DEF Told
  <1>4. CASE L!Exhausted
    BY <1>4 DEF L!Exhausted, L!End, L!Unturned, Told
  <1>5. CASE L!Call
    <2>. DEFINE call == Head(turn)
    <2>. lpc = "calls" /\ lpc' = "calls"
      BY <1>5 DEF L!Call
    <2>1. CASE L!PutsOff(call)
      BY <2>1 DEF L!PutsOff, Told
    <2>2. CASE L!Refuses(call)
      BY <2>2 DEF L!Refuses, Told
    <2>3. CASE L!Runs(call)
      BY <2>3 DEF L!Runs, L!Stopped, Told
    <2>. QED  BY <1>5, <2>1, <2>2, <2>3 DEF L!Call
  <1>6. CASE L!Raises
    BY <1>6 DEF L!Raises, L!End, Told
  <1>7. CASE L!TurnEnds
    BY <1>7 DEF L!TurnEnds, L!End, Told
  <1>8. CASE L!Ended
    BY <1>8 DEF L!Ended, L!vars, Told
  <1>. QED  BY <1>1, <1>2, <1>3, <1>4, <1>5, <1>6, <1>7, <1>8 DEF L!Next

LEMMA ToldIsKept == ASSUME Told, [WorkersNext]_Seen PROVE Told'
  <1>1. CASE Loops
    BY <1>1, LoopTold DEF Loops
  <1>2. CASE UNCHANGED loopVars
    BY <1>2 DEF loopVars, Told
  <1>. QED  BY <1>1, <1>2 DEF WorkersNext, WorkAround, Updates, Remembers, Sandboxes, Seen

\* The tool loop asks the model nothing once a tool has said that the sandbox is gone
\* (run_bounded_subagent_loop), for any tools, budgets and numbers of calls in a turn.
THEOREM LossEndsTheLoopHolds == WorkersSpec => []LossEndsTheLoop
  <1>1. WorkersInit => Told
    BY ToldAtInit
  <1>2. Told /\ [WorkersNext]_Seen => Told'
    BY ToldIsKept
  <1>3. Told => LossEndsTheLoop
    BY DEF Told, LossEndsTheLoop, L!LossEndsTheLoop
  <1>. QED  BY <1>1, <1>2, <1>3, PTL DEF WorkersSpec, Seen

-----------------------------------------------------------------------------
(* The sandbox. *)

\* What may be said of a file: it was changed behind the sandbox's back, or the entry has
\* what it holds or nothing.
TrueEntries ==
  {e \in [file : SandboxFiles, value : 0..MaxVersion] :
     e.file \in behind \/ e.value \in {0, volume[e.file]}}
CacheInv == volume \in D!Trees /\ cache \in Seq(TrueEntries)

LEMMA RemovedSeq == ASSUME NEW S, NEW s \in Seq(S), NEW i \in DOMAIN s
                    PROVE  RemoveAt(s, i) \in Seq(S)
  <1>1. Len(s) \in Nat /\ i \in 1..Len(s) /\ \A k \in 1..Len(s) : s[k] \in S
    BY LenProperties, ElementOfSeq
  <1>2. SubSeq(s, 1, i - 1) \in Seq(S)
    BY <1>1, SubSeqProperties
  <1>3. SubSeq(s, i + 1, Len(s)) \in Seq(S)
    BY <1>1, SubSeqProperties
  <1>. QED  BY <1>2, <1>3, ConcatProperties DEF RemoveAt

\* A nonempty set of numbers has a least one.
LEMMA LeastNat == ASSUME NEW T, T \subseteq Nat, T # {}
                  PROVE  \E k \in T : \A m \in T : k <= m
  <1>1. IsWellFoundedOn({ss \in Nat \X Nat : ss[1] < ss[2]}, Nat)
    BY NatLessThanWellFounded DEF OpToRel
  <1>2. PICK n \in T : \A m \in T : ~(<<m, n>> \in {ss \in Nat \X Nat : ss[1] < ss[2]})
    BY <1>1, WFMin
  <1>3. ASSUME NEW m \in T PROVE n <= m
    <2>1. m \in Nat /\ n \in Nat
      OBVIOUS
    <2>2. ~(m < n)
      BY <1>2, <2>1
    <2>. QED  BY <2>1, <2>2
  <1>. QED  BY <1>3

\* Entries go until there is room, at the latest when all have gone.
LEMMA RoomExists == ASSUME NEW S, cache \in Seq(S), NEW size
                    PROVE  D!Room(size) \in 0..Len(cache)
  <1>. DEFINE T == {n \in 0..Len(cache) : ~D!Crowded(n, size)}
  <1>1. Len(cache) \in Nat
    BY LenProperties
  <1>2. ~D!Crowded(Len(cache), size)
    BY <1>1 DEF D!Crowded
  <1>3. PICK n \in T : \A m \in T : n <= m
    <2>1. T \subseteq Nat /\ T # {}
      BY <1>1, <1>2
    <2>. HIDE DEF T
    <2>. QED  BY <2>1, LeastNat
  <1>4. \A m \in 0..n - 1 : D!Crowded(m, size)
    BY <1>1, <1>3
  <1>5. n \in 0..Len(cache) /\ ~D!Crowded(n, size)
    BY <1>3
  <1>6. \E k \in 0..Len(cache) : ~D!Crowded(k, size) /\ \A m \in 0..k - 1 : D!Crowded(m, size)
    BY <1>4, <1>5
  <1>. QED  BY <1>6 DEF D!Room

LEMMA CacheAtInit == ASSUME WorkersInit PROVE CacheInv
  <1>1. volume \in D!Trees
    BY WorkersAssumption DEF WorkersInit, D!Init, D!Trees, D!SandboxAssumption
  <1>2. cache \in Seq(TrueEntries)
    BY EmptySeq DEF WorkersInit, D!Init
  <1>. QED  BY <1>1, <1>2 DEF CacheInv

LEMMA EditsAreTrees == ASSUME CacheInv PROVE volume \in D!Trees /\ D!Edits \subseteq D!Trees
  BY DEF CacheInv, D!Edits, D!Trees

\* Who empties the cache need not look at it.
LEMMA EmptiedCache == ASSUME volume' \in D!Trees, D!Invalidated PROVE CacheInv'
  BY EmptySeq DEF D!Invalidated, CacheInv

\* Who does not must say which files changed.
LEMMA CacheBehind ==
    ASSUME CacheInv, volume' \in D!Trees, cache' = cache,
           behind' = behind \cup {f \in SandboxFiles : volume'[f] # volume[f]}
    PROVE  CacheInv'
  <1>1. TrueEntries \subseteq TrueEntries'
    BY DEF TrueEntries
  <1>2. cache' \in Seq(TrueEntries')
    BY <1>1, SeqMonotonic DEF CacheInv
  <1>. QED  BY <1>2 DEF CacheInv

LEMMA ReadKeepsCache == ASSUME CacheInv, NEW f \in SandboxFiles, D!Read(f) PROVE CacheInv'
  <1>1. volume' = volume /\ behind' = behind /\ TrueEntries' = TrueEntries
    BY DEF D!Read, TrueEntries
  <1>2. cache \in Seq(TrueEntries) /\ volume \in D!Trees
    BY DEF CacheInv
  <1>3. CASE D!Cached(f)
    <2>. DEFINE i == CHOOSE i \in DOMAIN cache : cache[i].file = f
    <2>1. i \in DOMAIN cache
      BY <1>3 DEF D!Cached
    <2>2. RemoveAt(cache, i) \in Seq(TrueEntries)
      BY <1>2, <2>1, RemovedSeq
    <2>3. cache[i] \in TrueEntries
      BY <1>2, <2>1, ElementOfSeq, LenProperties
    <2>4. Append(RemoveAt(cache, i), cache[i]) \in Seq(TrueEntries)
      BY <2>2, <2>3, AppendProperties
    <2>5. cache' = Append(RemoveAt(cache, i), cache[i])
      BY <1>3 DEF D!Read, D!Hit, D!RemoveAt, RemoveAt
    <2>. QED  BY <1>1, <1>2, <2>4, <2>5 DEF CacheInv
  <1>4. CASE ~D!Cached(f)
    <2>1. PICK value \in {volume[f], 0} : D!Miss(f, value)
      BY <1>4 DEF D!Read
    <2>. DEFINE n == D!Room(value)
    <2>2. n \in 0..Len(cache) /\ Len(cache) \in Nat /\ \A k \in 1..Len(cache) : cache[k] \in TrueEntries
      BY <1>2, RoomExists, LenProperties, ElementOfSeq
    <2>3. D!Evicted(n) \in Seq(TrueEntries)
      <3>. HIDE DEF n
      <3>. QED  BY <2>2, SubSeqProperties DEF D!Evicted
    <2>4. [file |-> f, value |-> value] \in TrueEntries
      BY <1>2, WorkersAssumption DEF TrueEntries, D!Trees, D!SandboxAssumption
    <2>5. Append(D!Evicted(n), [file |-> f, value |-> value]) \in Seq(TrueEntries)
      BY <2>3, <2>4, AppendProperties
    <2>6. cache' = cache \/ cache' = Append(D!Evicted(n), [file |-> f, value |-> value])
      BY <2>1 DEF D!Miss
    <2>. QED  BY <1>1, <1>2, <2>5, <2>6 DEF CacheInv
  <1>. QED  BY <1>3, <1>4

LEMMA SandboxKeepsCache == ASSUME CacheInv, D!Next PROVE CacheInv'
  <1>. volume \in D!Trees /\ D!Edits \subseteq D!Trees
    BY EditsAreTrees
  <1>1. CASE D!Start
    BY <1>1, EmptiedCache DEF D!Start, D!StartFails
  <1>2. CASE D!Teardown
    BY <1>2, EmptiedCache DEF D!Teardown, D!Down
  <1>3. CASE D!Reopen
    BY <1>3, EmptiedCache DEF D!Reopen
  <1>4. CASE D!Restart
    BY <1>4, EmptiedCache DEF D!Restart, D!Down
  <1>5. ASSUME NEW trees, trees \subseteq D!Trees, D!Run(trees) PROVE CacheInv'
    <2>1. volume' \in D!Trees /\ D!Invalidated
      BY <1>5 DEF D!Run, D!GivenUp
    <2>. QED  BY <2>1, EmptiedCache
  <1>6. CASE D!Command
    BY <1>5, <1>6 DEF D!Command
  <1>7. CASE D!Readonly
    <2>1. volume' \in D!Trees
      BY <1>7 DEF D!Readonly
    <2>2. CASE D!GivenUp
      BY <2>1, <2>2, EmptiedCache DEF D!GivenUp
    <2>3. CASE ~D!GivenUp
      BY <1>7, <2>1, <2>3, CacheBehind DEF D!Readonly
    <2>. QED  BY <2>2, <2>3
  <1>8. ASSUME NEW tree \in D!Trees, D!Write(tree) PROVE CacheInv'
    BY <1>8, EmptiedCache DEF D!Write
  <1>9. CASE D!WriteFile \/ D!WriteFiles
    BY <1>8, <1>9 DEF D!WriteFile, D!WriteFiles
  <1>10. CASE D!Late
    BY <1>10, CacheBehind DEF D!Late
  <1>11. CASE D!Snapshot
    BY <1>11, EmptiedCache DEF D!Snapshot, D!GivenUp
  <1>12. CASE D!Restore
    BY <1>5, <1>12 DEF D!Restore
  <1>13. CASE D!Forget
    BY <1>13, EmptiedCache DEF D!Forget, D!GivenUp
  <1>. QED  BY <1>1, <1>2, <1>3, <1>4, <1>6, <1>7, <1>9, <1>10, <1>11, <1>12, <1>13, ReadKeepsCache DEF D!Next

LEMMA CacheInvIsKept == ASSUME CacheInv, [WorkersNext]_Seen PROVE CacheInv'
  <1>1. CASE Sandboxes
    BY <1>1, SandboxKeepsCache DEF Sandboxes
  <1>2. CASE UNCHANGED sandboxVars
    BY <1>2 DEF sandboxVars, CacheInv, TrueEntries
  <1>. QED  BY <1>1, <1>2 DEF WorkersNext, WorkAround, Updates, Loops, Remembers, Seen

\* What the read cache of a sandbox holds is what the file holds or nothing, unless the file
\* was changed behind the sandbox's back (WorkspaceReadCache), for any files and any size of
\* the cache.
THEOREM CacheIsTrueHolds == WorkersSpec => []CacheIsTrue
  <1>1. WorkersInit => CacheInv
    BY CacheAtInit
  <1>2. CacheInv /\ [WorkersNext]_Seen => CacheInv'
    BY CacheInvIsKept
  <1>3. ASSUME CacheInv PROVE CacheIsTrue
    <2>1. \A i \in DOMAIN cache : cache[i] \in TrueEntries
      BY <1>3, ElementOfSeq, LenProperties DEF CacheInv
    <2>. QED  BY <2>1 DEF TrueEntries, CacheIsTrue, D!CacheIsTrue
  <1>. QED  BY <1>1, <1>2, <1>3, PTL DEF WorkersSpec, Seen

-----------------------------------------------------------------------------
(* The memory of the loop. *)

Events == [tool : C!Tools \cup {"none"}, fact : Facts \cup {"none"}]
ToldResults == [event : Events, whole : BOOLEAN]

\* What may be cut is in the scratchpad; what the scratchpad message leaves out has no room
\* in it.
Roomless(j) == C!Length(entries, shown) + C!Chars(entries[j]) > MaxChars
MemoryInv ==
  /\ results \in Seq(ToldResults) /\ entries \in Seq(Events) /\ shown \subseteq DOMAIN entries
  /\ \A i \in DOMAIN results :
       results[i].event.tool \in C!Reads => \E j \in DOMAIN entries : entries[j] = results[i].event
  /\ \A i \in DOMAIN results : ~results[i].whole =>
       /\ results[i].event.tool \in C!Reads
       /\ \A j \in DOMAIN entries : entries[j] = results[i].event => j \in shown \/ Roomless(j)

LEMMA MemorySize == \A S : C!Cardinality(S) = Cardinality(S)
  BY DEF C!Cardinality, Cardinality

\* The entries taken in order of priority.
LEMMA RenderingExists ==
    ASSUME NEW es \in Seq(Events)
    PROVE  \E s \in SUBSET DOMAIN es : \A i \in DOMAIN es : i \in s <=> C!Fits(es, s, i)
  <1>. DEFINE Full(V) == \E s \in SUBSET V : \A i \in V : i \in s <=> C!Fits(es, s, i)
              X == {n \in Nat : \E V \in SUBSET DOMAIN es : Cardinality(V) = n /\ ~Full(V)}
  <1>1. IsFiniteSet(DOMAIN es) /\ DOMAIN es \subseteq Nat
    BY FS_Interval
  <1>2. SUFFICES ASSUME X # {} PROVE FALSE
    <2>1. Cardinality(DOMAIN es) \in Nat
      BY <1>1, FS_CardinalityType
    <2>2. Full(DOMAIN es) \/ Cardinality(DOMAIN es) \in X
      <3>. HIDE DEF Full
      <3>. QED  BY <2>1
    <2>3. Full(DOMAIN es) => \E s \in SUBSET DOMAIN es : \A i \in DOMAIN es : i \in s <=> C!Fits(es, s, i)
      OBVIOUS
    <2>. HIDE DEF Full, X
    <2>. QED  BY <2>2, <2>3
  <1>3. PICK n \in X : \A m \in X : n <= m
    <2>1. X \subseteq Nat
      OBVIOUS
    <2>. HIDE DEF X
    <2>. QED  BY <1>2, <2>1, LeastNat
  <1>4. PICK V \in SUBSET DOMAIN es : Cardinality(V) = n /\ ~Full(V)
    BY <1>3
  <1>5. IsFiniteSet(V) /\ n \in Nat /\ V \subseteq Nat
    BY <1>1, <1>3, FS_Subset
  <1>6. V # {}
    BY <1>4
  <1>7. PICK m \in V : \A i \in V : ~C!Precedes(es, m, i)
    <2>. DEFINE D1 == {i \in V : C!Decided(es, i)}
                F1 == V \ D1
    <2>1. \A S \in SUBSET V : S # {} => \E k \in S : \A i \in S : k <= i
      BY <1>5, LeastNat
    <2>2. CASE F1 # {}
      <3>1. PICK k \in F1 : \A i \in F1 : k <= i
        BY <2>1, <2>2
      <3>2. \A i \in V : ~C!Precedes(es, k, i)
        BY <1>5, <3>1 DEF C!Precedes, C!Decided
      <3>. QED  BY <3>1, <3>2
    <2>3. CASE F1 = {}
      <3>1. PICK k \in V : \A i \in V : k <= i
        BY <1>6, <2>1
      <3>2. \A i \in V : ~C!Precedes(es, k, i)
        BY <1>5, <2>3, <3>1 DEF C!Precedes, C!Decided
      <3>. QED  BY <3>1, <3>2
    <2>. QED  BY <2>2, <2>3
  <1>8. Cardinality(V \ {m}) = n - 1 /\ n - 1 \in Nat
    <2>. HIDE DEF X, Full
    <2>1. IsFiniteSet(V \ {m}) /\ Cardinality(V \ {m}) = Cardinality(V) - 1
      BY <1>5, <1>7, FS_RemoveElement
    <2>2. Cardinality(V \ {m}) \in Nat
      BY <2>1, FS_CardinalityType
    <2>. QED  BY <1>4, <2>1, <2>2
  <1>9. Full(V \ {m})
    <2>1. n - 1 \notin X
      <3>. HIDE DEF X
      <3>. QED  BY <1>3, <1>5, <1>8
    <2>. HIDE DEF Full
    <2>. QED  BY <1>8, <2>1
  <1>10. PICK s \in SUBSET (V \ {m}) : \A i \in V \ {m} : i \in s <=> C!Fits(es, s, i)
    BY <1>9
  <1>. DEFINE r == IF C!Fits(es, s, m) THEN s \cup {m} ELSE s
  <1>11. \A i \in V : C!Fits(es, r, i) <=> C!Fits(es, s, i)
    <2>1. \A i \in V : {j \in r : C!Precedes(es, j, i)} = {j \in s : C!Precedes(es, j, i)}
      BY <1>7
    <2>. HIDE DEF r
    <2>. QED  BY <2>1 DEF C!Fits
  <1>12. \A i \in V : i \in r <=> C!Fits(es, r, i)
    <2>1. \A i \in V : i \in r <=> C!Fits(es, s, i)
      BY <1>10
    <2>. HIDE DEF r
    <2>. QED  BY <1>11, <2>1
  <1>13. Full(V)
    <2>1. r \in SUBSET V
      BY <1>10
    <2>. HIDE DEF r
    <2>. QED  BY <1>12, <2>1
  <1>. QED  BY <1>4, <1>13

\* What the scratchpad leaves out has no room in it.
LEMMA RenderingIsFull ==
    ASSUME NEW es \in Seq(Events), NEW j \in DOMAIN es \ C!Rendered(es)
    PROVE  C!Length(es, C!Rendered(es)) + C!Chars(es[j]) > MaxChars
  <1>. DEFINE s == C!Rendered(es)
              b == {k \in s : C!Precedes(es, k, j)}
              Dec(V) == {i \in V : C!Decided(es, i)}
  <1>1. s \in SUBSET DOMAIN es /\ \A i \in DOMAIN es : i \in s <=> C!Fits(es, s, i)
    BY RenderingExists DEF C!Rendered
  <1>2. ~(C!Length(es, b \cup {j}) <= MaxChars)
    <2>1. j \notin s /\ j \in DOMAIN es
      OBVIOUS
    <2>. HIDE DEF s
    <2>2. ~C!Fits(es, s, j)
      BY <1>1, <2>1
    <2>. QED  BY <2>2 DEF C!Fits
  <1>0. j \notin s
    OBVIOUS
  <1>. HIDE DEF s
  <1>3. IsFiniteSet(s) /\ IsFiniteSet(Dec(s))
    <2>1. IsFiniteSet(DOMAIN es)
      BY FS_Interval
    <2>. QED  BY <1>1, <2>1, FS_Subset
  <1>4. IsFiniteSet(b) /\ Cardinality(b) <= Cardinality(s) /\ j \notin b
    <2>1. b \subseteq s /\ j \notin b
      BY <1>0
    <2>. HIDE DEF b
    <2>. QED  BY <1>3, <2>1, FS_Subset
  <1>5. IsFiniteSet(Dec(b)) /\ Cardinality(Dec(b)) <= Cardinality(Dec(s)) /\ j \notin Dec(b)
    <2>1. Dec(b) \subseteq Dec(s)
      OBVIOUS
    <2>. HIDE DEF Dec, b
    <2>. QED  BY <1>3, <1>4, <2>1, FS_Subset DEF Dec
  <1>6. Cardinality(b \cup {j}) = Cardinality(b) + 1
    BY <1>4, FS_AddElement
  <1>7. Cardinality(Dec(b \cup {j})) = Cardinality(Dec(b)) + (IF C!Decided(es, j) THEN 1 ELSE 0)
    <2>1. CASE C!Decided(es, j)
      <3>1. Dec(b \cup {j}) = Dec(b) \cup {j}
        BY <2>1
      <3>. HIDE DEF Dec, b
      <3>. QED  BY <1>5, <2>1, <3>1, FS_AddElement
    <2>2. CASE ~C!Decided(es, j)
      <3>1. Dec(b \cup {j}) = Dec(b)
        BY <2>2
      <3>2. Cardinality(Dec(b)) \in Nat
        BY <1>5, FS_CardinalityType
      <3>. HIDE DEF Dec, b
      <3>. QED  BY <2>2, <3>1, <3>2
    <2>. QED  BY <2>1, <2>2
  <1>8. /\ Cardinality(b) \in Nat /\ Cardinality(s) \in Nat
        /\ Cardinality(Dec(b)) \in Nat /\ Cardinality(Dec(s)) \in Nat
    BY <1>3, <1>4, <1>5, FS_CardinalityType
  <1>9. MaxChars \in Nat
    BY WorkersAssumption DEF C!MemoryAssumption
  <1>10. C!Length(es, b \cup {j}) = Cardinality(b \cup {j}) + Cardinality(Dec(b \cup {j}))
    BY MemorySize DEF C!Length
  <1>11. C!Length(es, s) = Cardinality(s) + Cardinality(Dec(s))
    BY MemorySize DEF C!Length
  <1>12. C!Chars(es[j]) = IF C!Decided(es, j) THEN 2 ELSE 1
    BY DEF C!Chars, C!Decided
  <1>. HIDE DEF Dec, b
  <1>13. C!Length(es, s) + C!Chars(es[j]) > MaxChars
    BY <1>2, <1>4, <1>5, <1>6, <1>7, <1>8, <1>9, <1>10, <1>11, <1>12
  <1>. QED  BY <1>13 DEF s

\* What is written down is an entry of the scratchpad from then on, and the earlier ones stay.
LEMMA EntriesGrow ==
    ASSUME MemoryInv, NEW event \in Events, entries' = C!Remembered(entries, event)
    PROVE  /\ entries' \in Seq(Events) /\ DOMAIN entries \subseteq DOMAIN entries'
           /\ \A j \in DOMAIN entries : entries'[j] = entries[j]
           /\ \A j \in DOMAIN entries' \ DOMAIN entries :
                entries'[j] = event /\ \A k \in DOMAIN entries : entries[k] # event
           /\ \E j \in DOMAIN entries' : entries'[j] = event
  <1>1. entries \in Seq(Events)
    BY DEF MemoryInv
  <1>2. CASE event \in C!ToSet(entries)
    BY <1>1, <1>2 DEF C!Remembered, C!ToSet
  <1>3. CASE event \notin C!ToSet(entries)
    <2>1. entries' = Append(entries, event) /\ \A k \in DOMAIN entries : entries[k] # event
      BY <1>3 DEF C!Remembered, C!ToSet
    <2>2. DOMAIN entries = 1 .. Len(entries) /\ Len(entries) \in Nat
      BY <1>1
    <2>3. DOMAIN entries' = 1 .. Len(entries) + 1 /\ entries' \in Seq(Events)
      BY <1>1, <2>1
    <2>4. /\ \A j \in DOMAIN entries : entries'[j] = entries[j]
          /\ entries'[Len(entries) + 1] = event
      BY <1>1, <2>1, <2>2
    <2>. QED  BY <2>1, <2>2, <2>3, <2>4
  <1>. QED  BY <1>2, <1>3

\* The room that is taken does not depend on later entries.
LEMMA RoomStays ==
    ASSUME NEW es, NEW fs, NEW s \in SUBSET DOMAIN es, \A j \in DOMAIN es : fs[j] = es[j]
    PROVE  C!Length(fs, s) = C!Length(es, s)
  <1>1. {i \in s : C!Decided(fs, i)} = {i \in s : C!Decided(es, i)}
    BY DEF C!Decided
  <1>. QED  BY <1>1 DEF C!Length

LEMMA MemoryAtInit == ASSUME WorkersInit PROVE MemoryInv
  BY DEF WorkersInit, C!Init, MemoryInv

\* A round with a tool call keeps the invariant, whether it ends with a compaction or not.
LEMMA TurnKeepsMemory == ASSUME MemoryInv, C!Turn PROVE MemoryInv'
  <1>1. PICK tool \in C!Tools, fact \in Facts :
          LET event == C!Stated(tool, fact)
              rs == Append(results, [event |-> event, whole |-> TRUE])
              es == C!Remembered(entries, event)
              due == Len(rs) % Interval = 0
          IN  /\ entries' = es
              /\ results' = IF due THEN C!Compacted(rs) ELSE rs
              /\ shown' = IF due THEN C!Rendered(es) ELSE shown
    BY DEF C!Turn
  <1>. DEFINE event == C!Stated(tool, fact)
              told == [event |-> event, whole |-> TRUE]
              rs == Append(results, told)
  <1>2. event \in Events
    BY DEF C!Stated, Events
  <1>3. entries' = C!Remembered(entries, event)
    BY <1>1
  <1>4. /\ entries' \in Seq(Events) /\ DOMAIN entries \subseteq DOMAIN entries'
        /\ \A j \in DOMAIN entries : entries'[j] = entries[j]
        /\ \A j \in DOMAIN entries' \ DOMAIN entries :
             entries'[j] = event /\ \A k \in DOMAIN entries : entries[k] # event
        /\ \E j \in DOMAIN entries' : entries'[j] = event
    <2>. HIDE DEF event
    <2>. QED  BY <1>2, <1>3, EntriesGrow
  <1>5. \/ results' = rs /\ shown' = shown
        \/ results' = C!Compacted(rs) /\ shown' = C!Rendered(entries')
    BY <1>1
  <1>6. /\ results \in Seq(ToldResults) /\ entries \in Seq(Events) /\ shown \subseteq DOMAIN entries
        /\ \A i \in DOMAIN results :
             results[i].event.tool \in C!Reads => \E j \in DOMAIN entries : entries[j] = results[i].event
        /\ \A i \in DOMAIN results : ~results[i].whole =>
             /\ results[i].event.tool \in C!Reads
             /\ \A j \in DOMAIN entries : entries[j] = results[i].event => j \in shown \/ Roomless(j)
    BY DEF MemoryInv
  <1>. HIDE DEF event
  <1>7. rs \in Seq(ToldResults) /\ DOMAIN results \subseteq DOMAIN rs
    <2>1. told \in ToldResults
      BY <1>2 DEF ToldResults
    <2>. HIDE DEF told
    <2>. QED  BY <1>6, <2>1
  <1>8. /\ \A i \in DOMAIN results : rs[i] = results[i]
        /\ \A i \in DOMAIN rs \ DOMAIN results : rs[i] = told
    <2>. HIDE DEF told
    <2>. QED  BY <1>6
  <1>9. told.event = event /\ told.whole = TRUE
    OBVIOUS
  <1>10. \A i \in DOMAIN rs :
           rs[i].event.tool \in C!Reads => \E j \in DOMAIN entries' : entries'[j] = rs[i].event
    <2>. HIDE DEF rs, told
    <2>. QED  BY <1>4, <1>6, <1>7, <1>8, <1>9
  <1>11. CASE results' = rs /\ shown' = shown
    <2>1. C!Length(entries', shown) = C!Length(entries, shown)
      BY <1>4, <1>6, RoomStays
    <2>2. \A j \in DOMAIN entries : C!Chars(entries'[j]) = C!Chars(entries[j])
      BY <1>4
    <2>3. ASSUME NEW i \in DOMAIN rs, ~rs[i].whole
          PROVE  /\ rs[i].event.tool \in C!Reads
                 /\ \A j \in DOMAIN entries' :
                      entries'[j] = rs[i].event => j \in shown \/ C!Length(entries', shown) + C!Chars(entries'[j]) > MaxChars
      <3>1. i \in DOMAIN results /\ rs[i] = results[i]
        <4>. HIDE DEF rs, told
        <4>. QED  BY <1>8, <1>9, <2>3
      <3>2. results[i].event.tool \in C!Reads /\ ~results[i].whole
        <4>. HIDE DEF rs, told
        <4>. QED  BY <1>6, <2>3, <3>1
      <3>3. PICK k \in DOMAIN entries : entries[k] = results[i].event
        BY <1>6, <3>1, <3>2
      <3>4. ASSUME NEW j \in DOMAIN entries', entries'[j] = results[i].event
            PROVE  j \in shown \/ C!Length(entries', shown) + C!Chars(entries'[j]) > MaxChars
        <4>1. j \in DOMAIN entries
          BY <1>4, <3>3, <3>4
        <4>2. entries[j] = results[i].event
          BY <1>4, <3>4, <4>1
        <4>3. j \in shown \/ Roomless(j)
          BY <1>6, <3>1, <3>2, <4>1, <4>2
        <4>. QED  BY <2>1, <2>2, <4>1, <4>3 DEF Roomless
      <3>. HIDE DEF rs
      <3>. QED  BY <3>1, <3>2, <3>4
    <2>4. shown' \subseteq DOMAIN entries'
      BY <1>4, <1>6, <1>11
    <2>. HIDE DEF rs, told
    <2>. QED  BY <1>4, <1>7, <1>10, <1>11, <2>3, <2>4 DEF MemoryInv, Roomless
  <1>12. CASE results' = C!Compacted(rs) /\ shown' = C!Rendered(entries')
    <2>. HIDE DEF rs, told
    <2>1. results' \in Seq(ToldResults) /\ DOMAIN results' = DOMAIN rs
      <3>. DEFINE cut(i) == IF i < Len(rs) - 1 /\ rs[i].event.tool \in C!Reads
                            THEN [event |-> rs[i].event, whole |-> FALSE] ELSE rs[i]
      <3>1. results' = [i \in DOMAIN rs |-> cut(i)]
        BY <1>12 DEF C!Compacted
      <3>2. ASSUME NEW i \in DOMAIN rs PROVE cut(i) \in ToldResults
        <4>1. rs[i] \in ToldResults
          BY <1>7
        <4>2. rs[i].event \in Events
          BY <4>1 DEF ToldResults
        <4>3. [event |-> rs[i].event, whole |-> FALSE] \in ToldResults
          BY <4>2 DEF ToldResults
        <4>. QED  BY <4>1, <4>3
      <3>3. DOMAIN rs = 1 .. Len(rs) /\ Len(rs) \in Nat
        BY <1>7
      <3>. HIDE DEF cut
      <3>. QED  BY <3>1, <3>2, <3>3
    <2>2. ASSUME NEW i \in DOMAIN rs
          PROVE  /\ results'[i].event = rs[i].event
                 /\ ~results'[i].whole => ~rs[i].whole \/ rs[i].event.tool \in C!Reads
      BY <1>7, <1>12 DEF C!Compacted, ToldResults
    <2>3. shown' \subseteq DOMAIN entries'
      <3>1. \E s \in SUBSET DOMAIN entries' : \A i \in DOMAIN entries' : i \in s <=> C!Fits(entries', s, i)
        BY <1>4, RenderingExists
      <3>. QED  BY <1>12, <3>1 DEF C!Rendered
    <2>4. ASSUME NEW j \in DOMAIN entries', j \notin shown'
          PROVE  C!Length(entries', shown') + C!Chars(entries'[j]) > MaxChars
      BY <1>4, <1>12, <2>4, RenderingIsFull
    <2>5. \A i \in DOMAIN rs : ~rs[i].whole => rs[i].event.tool \in C!Reads
      BY <1>6, <1>8, <1>9
    <2>6. \A i \in DOMAIN results' :
            results'[i].event.tool \in C!Reads => \E j \in DOMAIN entries' : entries'[j] = results'[i].event
      BY <1>10, <2>1, <2>2
    <2>7. \A i \in DOMAIN results' : ~results'[i].whole => results'[i].event.tool \in C!Reads
      BY <2>1, <2>2, <2>5
    <2>. QED  BY <1>4, <2>1, <2>3, <2>4, <2>6, <2>7 DEF MemoryInv, Roomless
  <1>. QED  BY <1>5, <1>11, <1>12

\* A round without a call is not compacted and is not written down.
LEMMA SilentKeepsMemory == ASSUME MemoryInv, C!Silent PROVE MemoryInv'
  <1>. DEFINE told == [event |-> C!None, whole |-> TRUE]
  <1>1. told \in ToldResults /\ told.event.tool \notin C!Reads /\ told.whole = TRUE
    BY DEF ToldResults, Events, C!None, C!Reads
  <1>2. results \in Seq(ToldResults) /\ results' = Append(results, told) /\ UNCHANGED <<entries, shown>>
    BY DEF MemoryInv, C!Silent
  <1>. HIDE DEF told
  <1>3. /\ results' \in Seq(ToldResults) /\ DOMAIN results \subseteq DOMAIN results'
        /\ \A i \in DOMAIN results : results'[i] = results[i]
        /\ \A i \in DOMAIN results' \ DOMAIN results : results'[i] = told
    BY <1>1, <1>2
  <1>4. \A i \in DOMAIN results' :
          results'[i].event.tool \in C!Reads => \E j \in DOMAIN entries : entries[j] = results'[i].event
    BY <1>1, <1>3 DEF MemoryInv
  <1>5. \A i \in DOMAIN results' : ~results'[i].whole =>
          /\ results'[i].event.tool \in C!Reads
          /\ \A j \in DOMAIN entries : entries[j] = results'[i].event => j \in shown \/ Roomless(j)
    BY <1>1, <1>3 DEF MemoryInv
  <1>. QED  BY <1>2, <1>3, <1>4, <1>5 DEF MemoryInv, Roomless

LEMMA MemoryInvIsKept == ASSUME MemoryInv, [WorkersNext]_Seen PROVE MemoryInv'
  <1>1. CASE UNCHANGED memoryVars
    BY <1>1 DEF memoryVars, MemoryInv, Roomless
  <1>2. CASE C!Turn
    BY <1>2, TurnKeepsMemory
  <1>3. CASE C!Silent
    BY <1>3, SilentKeepsMemory
  <1>. QED
    BY <1>1, <1>2, <1>3
    DEF WorkersNext, WorkAround, Updates, Loops, Remembers, RoundsEnd, Sandboxes, C!Next, Seen

\* What a result said that was cut from the conversation is in the scratchpad the model sees,
\* unless there is no room for it (compact_conversation and the scratchpad's render).
THEOREM NothingVanishesHolds == WorkersSpec => []NothingVanishes
  <1>1. MemoryInv => NothingVanishes
    BY DEF MemoryInv, NothingVanishes, C!NothingVanishes, Roomless
  <1>. QED  BY <1>1, MemoryAtInit, MemoryInvIsKept, PTL DEF WorkersSpec, Seen

-----------------------------------------------------------------------------
(* The update worker. *)

Guarded == U!Checkpointed(job.manager)
Contents == [Packages -> SUBSET U!Targets]
\* A file has a content or is absent.
Trees == [Guarded -> Contents \cup {U!Absent}]
Blank == [f \in Guarded |-> U!Untouched]

\* Dispatches whose report answers for the files of a rollback that failed; for the others
\* no rollback has failed.  None does whose loop raised.
Accountable == broken # "raised" /\ (failed = 0 \/ (~job.batch /\ job.manager # "maven"))
\* A file is absent only if some checkpoint failed to read it: the files in blank.
Explained(files, blank) == \A f \in Guarded : files[f] = U!Absent => f \in blank
\* A ledger has every file that differs from the start, but for those.
Known(files, ledger, blank) == \A f \in Guarded \ blank : files[f] # U!Untouched => f \in ledger
\* Every file is as it was, but for those, which may be absent.
Intact(files, blank) ==
  \A f \in Guarded : files[f] = U!Untouched \/ (f \in blank /\ files[f] = U!Absent)
\* What a worker without a committed action wrote it has tried.
Tried(files) ==
  \A f \in Guarded : files[f] # U!Absent => \A k \in Packages : files[f][k] \subseteq tried[k]

\* The checkpoints the worker can have when those in blank were not read: the ledger they bring
\* back answers for their files as long as there is a container to restore them in, and that of
\* a committed action was taken before anything was written.
CheckpointsFor(blank) ==
  {cp \in [key : Packages \cup {U!Batch}, files : Trees, before : SUBSET Guarded] :
     /\ ualive => Explained(cp.files, blank)
     /\ ualive /\ Accountable => Known(cp.files, cp.before, blank)
     /\ ~job.batch => Tried(cp.files)
     /\ job.batch => Intact(cp.files, blank)}
Checkpoints == CheckpointsFor(unread)

UpdateTypes ==
  /\ upc \in {"preflight", "loop", "cleanup", "done"} /\ job \in U!Jobs
  /\ uws \in Trees /\ utouched \subseteq Guarded /\ store \in Seq(Checkpoints)
  /\ tried \in [Packages -> SUBSET U!Targets] /\ last \in [Packages -> SUBSET U!Targets]
  /\ ran1 \in {"no", "failed", "applied"} /\ failed \in Nat /\ unread \subseteq Guarded
  /\ ualive \in BOOLEAN /\ broken \in {"no", "errors", "raised"} /\ unrolled \in BOOLEAN

\* Nothing is written before the loop, nor before the committed action runs.
Fresh ==
  /\ upc = "preflight" => ran1 = "no" /\ store = <<>> /\ ~unrolled /\ uws = Blank
  /\ upc \in {"preflight", "loop"} => broken = "no"
  /\ job.batch /\ ran1 = "no" => store = <<>> /\ uws = Blank
\* As long as no rollback has failed and the loop did not raise the container is there.
Healthy == failed = 0 /\ broken # "raised" => ualive /\ ~unrolled
Owned == Accountable => Known(uws, utouched, unread)
Signed == ~job.batch => Tried(uws)
Traced == Explained(uws, unread)
\* A committed action has the one checkpoint, and once that is gone its files are as they were,
\* unless the rollback said that it failed or could not read them.
OneCheckpoint ==
  job.batch => Len(store) <= 1 /\ (store = <<>> /\ ~unrolled => Intact(uws, unread))
AllApplied ==
  job.batch /\ ran1 = "applied" /\ (upc = "loop" \/ U!BatchSucceeded) =>
    \A k \in Packages : uws["manifest"][k] = last[k]

\* What holds of the files, the ledger and the checkpoints at every point of a dispatch, and of
\* the report once it is written.
WorkInv ==
  UpdateTypes /\ Fresh /\ Healthy /\ Owned /\ Signed /\ Traced /\ OneCheckpoint /\ AllApplied
UpdateInv == WorkInv /\ U!LeftoversReported /\ U!BatchIsAtomic

LEMMA GuardedFiles == ASSUME WorkInv
                      PROVE  DOMAIN uws = Guarded /\ "manifest" \in Guarded /\ Guarded # {}
  BY DEF WorkInv, UpdateTypes, Trees, Guarded, U!Checkpointed

\* The absent file is no content: no choice is empty.
LEMMA AbsentIsNoContent == U!Absent \notin Contents /\ U!Absent # U!Untouched
  <1>1. PICK k \in Packages : TRUE
    BY WorkersAssumption DEF U!UpdateAssumption
  <1>2. U!Absent[k] = {<<>>} /\ U!Untouched[k] = {}
    BY DEF U!Absent, U!Untouched
  <1>3. <<>> \notin U!Targets
    BY DEF U!Targets
  <1>4. U!Absent \notin Contents
    BY <1>2, <1>3 DEF Contents
  <1>. QED  BY <1>2, <1>4

LEMMA UpdateAtInit == ASSUME WorkersInit PROVE UpdateInv
  <1>1. U!Init /\ job \in U!Jobs
    BY DEF WorkersInit, U!Init
  <1>2. uws = Blank /\ Blank \in [Guarded -> Contents]
    BY <1>1 DEF U!Init, Blank, Guarded, U!Untouched, Contents
  <1>3. UpdateTypes
    <2>1. store \in Seq(Checkpoints)
      BY <1>1, EmptySeq DEF U!Init
    <2>2. tried \in [Packages -> SUBSET U!Targets] /\ last \in [Packages -> SUBSET U!Targets]
      BY <1>1 DEF U!Init
    <2>3. uws \in Trees
      BY <1>2 DEF Trees
    <2>. QED  BY <1>1, <2>1, <2>2, <2>3 DEF UpdateTypes, U!Init
  <1>4. Owned
    BY <1>2 DEF Owned, Known, Blank
  <1>5. Signed /\ Traced
    BY <1>2, AbsentIsNoContent DEF Signed, Tried, Traced, Explained, Blank, U!Untouched
  <1>6. OneCheckpoint
    <2>1. Intact(uws, unread)
      BY <1>2 DEF Intact, Blank
    <2>. QED  BY <1>1, <2>1 DEF U!Init, OneCheckpoint
  <1>7. Fresh /\ Healthy /\ AllApplied
    BY <1>1, <1>2 DEF U!Init, Fresh, Healthy, AllApplied
  <1>8. U!LeftoversReported /\ U!BatchIsAtomic
    BY <1>1 DEF U!Init, U!LeftoversReported, U!BatchIsAtomic
  <1>. QED  BY <1>3, <1>4, <1>5, <1>6, <1>7, <1>8 DEF UpdateInv, WorkInv

\* What a checkpoint answers for it still answers for later: more has been tried or not read,
\* a container is not started again and rollbacks that failed do not become undone.
LEMMA CheckpointsStay ==
    ASSUME job' = job, \A k \in Packages : tried[k] \subseteq tried'[k],
           ualive' => ualive, Accountable' => Accountable, NEW blank, blank \subseteq unread'
    PROVE  CheckpointsFor(blank) \subseteq Checkpoints' /\ Seq(CheckpointsFor(blank)) \subseteq Seq(Checkpoints')
  <1>. Guarded' = Guarded /\ Trees' = Trees
    BY DEF Guarded, Trees
  <1>2. ASSUME NEW cp \in CheckpointsFor(blank) PROVE cp \in Checkpoints'
    <2>1. ualive' => \A f \in Guarded : cp.files[f] = U!Absent => f \in unread'
      BY DEF CheckpointsFor, Explained
    <2>2. ualive' /\ Accountable' =>
            \A f \in Guarded \ unread' : cp.files[f] # U!Untouched => f \in cp.before
      BY DEF CheckpointsFor, Known
    <2>3. ~job.batch => \A f \in Guarded : cp.files[f] # U!Absent =>
                          \A k \in Packages : cp.files[f][k] \subseteq tried'[k]
      BY DEF CheckpointsFor, Tried
    <2>4. job.batch => \A f \in Guarded :
                          cp.files[f] = U!Untouched \/ (f \in unread' /\ cp.files[f] = U!Absent)
      BY DEF CheckpointsFor, Intact
    <2>5. cp \in [key : Packages \cup {U!Batch}, files : Trees, before : SUBSET Guarded]
      BY DEF CheckpointsFor
    <2>. QED  BY <2>1, <2>2, <2>3, <2>4, <2>5 DEF Checkpoints, CheckpointsFor, Explained, Known, Tried, Intact
  <1>. QED  BY <1>2, SeqMonotonic

\* The checkpoint of a package is a checkpoint, also the one that is taken now.
LEMMA CheckpointTaken ==
    ASSUME WorkInv, NEW key \in Packages \cup {U!Batch}, job.batch => uws = Blank,
           NEW blind \in SUBSET Guarded
    PROVE  /\ U!Checkpoint(key, blind) \in CheckpointsFor(unread \cup blind)
           /\ U!Capture(key, blind) \in CheckpointsFor(unread \cup blind)
  <1>. DEFINE cp == U!Capture(key, blind)
              blank == unread \cup blind
  <1>1. cp \in CheckpointsFor(blank)
    <2>1. /\ cp.key = key /\ cp.before = utouched /\ DOMAIN cp.files = Guarded
          /\ \A f \in Guarded : cp.files[f] = IF f \in blind THEN U!Absent ELSE uws[f]
          /\ cp = [key |-> key, files |-> cp.files, before |-> utouched]
          /\ cp.files = [f \in Guarded |-> IF f \in blind THEN U!Absent ELSE uws[f]]
      BY GuardedFiles DEF U!Capture, U!AsRead
    <2>2. uws \in Trees /\ utouched \subseteq Guarded
      BY DEF WorkInv, UpdateTypes
    <2>. HIDE DEF cp
    <2>3. cp.files \in Trees
      BY <2>1, <2>2 DEF Trees
    <2>4. Explained(cp.files, blank)
      BY <2>1 DEF WorkInv, Traced, Explained
    <2>5. Accountable => Known(cp.files, cp.before, blank)
      BY <2>1 DEF WorkInv, Owned, Known
    <2>6. ~job.batch => Tried(cp.files)
      BY <2>1 DEF WorkInv, Signed, Tried
    <2>7. job.batch => Intact(cp.files, blank)
      BY <2>1 DEF Intact, Blank
    <2>8. cp \in [key : Packages \cup {U!Batch}, files : Trees, before : SUBSET Guarded]
      BY <2>1, <2>2, <2>3
    <2>. QED  BY <2>4, <2>5, <2>6, <2>7, <2>8 DEF CheckpointsFor
  <1>2. ASSUME U!Held(key) PROVE store[U!Spot(key)] \in CheckpointsFor(blank)
    <2>1. U!Spot(key) \in DOMAIN store
      BY <1>2 DEF U!Held, U!Spot
    <2>2. store[U!Spot(key)] \in Checkpoints
      BY <2>1, ElementOfSeq, LenProperties DEF WorkInv, UpdateTypes
    <2>3. \A old \in Checkpoints : old \in CheckpointsFor(blank)
      BY DEF Checkpoints, CheckpointsFor, Explained, Known, Intact
    <2>. QED  BY <2>2, <2>3
  <1>. QED  BY <1>1, <1>2 DEF U!Checkpoint

LEMMA DroppedCheckpoint == ASSUME WorkInv, NEW key PROVE U!Without(key) \in Seq(Checkpoints)
  <1>1. CASE U!Held(key)
    <2>1. U!Spot(key) \in DOMAIN store
      BY <1>1 DEF U!Held, U!Spot
    <2>. QED  BY <1>1, <2>1, RemovedSeq DEF U!Without, U!RemoveAt, RemoveAt, WorkInv, UpdateTypes
  <1>2. CASE ~U!Held(key)
    BY <1>2 DEF U!Without, WorkInv, UpdateTypes
  <1>. QED  BY <1>1, <1>2

-----------------------------------------------------------------------------
(* What the helpers of a transaction do. *)

LEMMA ChoiceWritten ==
    ASSUME NEW content \in Contents, NEW k \in Packages, NEW choice \in U!Targets
    PROVE  /\ U!Written(content, k, choice) \in Contents
           /\ choice \in U!Written(content, k, choice)[k]
           /\ \A j \in Packages :
                U!Written(content, k, choice)[j] \subseteq content[j] \cup (IF j = k THEN {choice} ELSE {})
  <1>1. \A old \in SUBSET U!Targets :
          /\ U!Chosen(old, choice) \subseteq U!Targets /\ choice \in U!Chosen(old, choice)
          /\ U!Chosen(old, choice) \subseteq old \cup {choice}
    BY DEF U!Chosen
  <1>. QED  BY <1>1 DEF U!Written, Contents

\* The workspace after an edit that is synchronised.
Edited(k, choice) == U!Synced([uws EXCEPT !["manifest"] = U!Written(@, k, choice)])

LEMMA EditedFiles ==
    ASSUME WorkInv, NEW k \in Packages, NEW choice \in U!Targets, uws["manifest"] # U!Absent
    PROVE  /\ uws["manifest"] \in Contents
           /\ Edited(k, choice) \in [Guarded -> Contents]
           /\ \A f \in Guarded : Edited(k, choice)[f] = U!Written(uws["manifest"], k, choice)
  <1>1. uws \in Trees /\ "manifest" \in Guarded /\ uws["manifest"] \in Contents
    BY GuardedFiles DEF WorkInv, UpdateTypes, Trees
  <1>2. U!Written(uws["manifest"], k, choice) \in Contents
    BY <1>1, ChoiceWritten
  <1>. QED  BY <1>1, <1>2 DEF Edited, U!Synced, Trees

LEMMA RestoredFiles ==
    ASSUME NEW files \in Trees, NEW blank, NEW cp \in CheckpointsFor(blank), NEW lost
    PROVE  /\ U!Restored(files, cp, lost) \in Trees
           /\ \A f \in Guarded :
                U!Restored(files, cp, lost)[f] = IF f \in lost THEN files[f] ELSE cp.files[f]
  BY DEF U!Restored, CheckpointsFor, Trees

\* A ledger that has what the checkpoint brings back and what was lost answers for the files.
LEMMA LedgerKnows ==
    ASSUME NEW files \in Trees, NEW blank, NEW cp \in CheckpointsFor(blank), NEW lost, NEW ledger,
           ualive, Accountable, cp.before \cup lost \subseteq ledger
    PROVE  Known(U!Restored(files, cp, lost), ledger, blank)
  <1>1. Known(cp.files, cp.before, blank)
    BY DEF CheckpointsFor
  <1>. QED  BY <1>1, RestoredFiles DEF Known

LEMMA LostFiles ==
    ASSUME WorkInv, NEW lost \in U!Losses, U!Lost(lost)
    PROVE  /\ lost \subseteq Guarded
           /\ failed' \in Nat /\ failed <= failed' /\ ualive' \in BOOLEAN
           /\ ualive' => ualive
           /\ failed' = 0 => failed = 0 /\ lost = {} /\ ualive' = ualive
  <1>1. lost \subseteq Guarded /\ Guarded # {}
    BY GuardedFiles DEF U!Losses
  <1>2. failed \in Nat /\ ualive \in BOOLEAN /\ DOMAIN uws = Guarded
    BY GuardedFiles DEF WorkInv, UpdateTypes
  <1>3. failed' = failed + (IF lost = {} THEN 0 ELSE 1) /\ ualive' = (ualive /\ lost # Guarded)
    BY <1>2 DEF U!Lost
  <1>4. failed' = 0 => lost = {} /\ failed = 0
    BY <1>2, <1>3
  <1>. QED  BY <1>1, <1>2, <1>3, <1>4

-----------------------------------------------------------------------------
(* Each step keeps what holds of the work. *)

\* Where the files, the checkpoints and what is read of them stay, what is said of them stays.
LEMMA WorkStays ==
    ASSUME WorkInv, UNCHANGED <<job, uws, utouched, store, tried, unread>>,
           ualive' => ualive, Accountable' => Accountable
    PROVE  /\ Guarded' = Guarded /\ Trees' = Trees /\ Blank' = Blank
           /\ store' \in Seq(Checkpoints') /\ uws' \in Trees'
           /\ Owned' /\ Signed' /\ Traced'
  <1>. Guarded' = Guarded /\ Blank' = Blank /\ Trees' = Trees
    BY DEF Guarded, Blank, Trees
  <1>1. store \in Seq(CheckpointsFor(unread))
    BY DEF WorkInv, UpdateTypes, Checkpoints
  <1>2. store' \in Seq(Checkpoints')
    BY <1>1, CheckpointsStay
  <1>3. Owned' /\ Signed' /\ Traced'
    BY DEF WorkInv, Owned, Signed, Traced, Known, Tried, Explained
  <1>. QED  BY <1>2, <1>3 DEF WorkInv, UpdateTypes

LEMMA PreflightKeeps == ASSUME UpdateInv, U!Preflight PROVE UpdateInv'
  <1>1. /\ upc = "preflight" /\ upc' \in {"loop", "done"}
        /\ upc' = "done" => \E ps, said : report' = U!Surrender(ps, said)
    BY DEF U!Preflight, U!Unresolved, U!MixesEcosystems, U!MixesRetries, U!ActionRefused,
           U!ModelMissing, U!SandboxFails, U!Start, U!Reject
  <1>2. UNCHANGED <<job, uws, ualive, utouched, store, tried, uran, last, seen, ran1, broken,
                    unrolled, unread, failed>>
    BY DEF U!Preflight, U!Unresolved, U!MixesEcosystems, U!MixesRetries, U!ActionRefused,
           U!ModelMissing, U!SandboxFails, U!Start, U!Reject, U!Unrun
  <1>. WorkInv
    BY DEF UpdateInv
  <1>3. /\ Guarded' = Guarded /\ Trees' = Trees /\ Blank' = Blank
        /\ store' \in Seq(Checkpoints') /\ uws' \in Trees' /\ Owned' /\ Signed' /\ Traced'
    BY <1>2, WorkStays DEF Accountable
  <1>4. uws = Blank /\ uws' = Blank /\ ran1 = "no" /\ broken = "no"
    BY <1>1, <1>2 DEF WorkInv, Fresh
  <1>5. WorkInv'
    <2>1. UpdateTypes'
      BY <1>1, <1>2, <1>3 DEF WorkInv, UpdateTypes
    <2>2. Fresh' /\ Healthy' /\ AllApplied'
      BY <1>1, <1>2, <1>3, <1>4 DEF WorkInv, Fresh, Healthy, AllApplied
    <2>3. OneCheckpoint'
      BY <1>2, <1>3 DEF WorkInv, OneCheckpoint, Intact
    <2>. QED  BY <1>3, <2>1, <2>2, <2>3 DEF WorkInv
  <1>6. \A f \in DOMAIN uws' : uws'[f] = U!Untouched
    BY <1>4 DEF Blank
  <1>7. U!LeftoversReported'
    BY <1>6 DEF U!LeftoversReported
  <1>8. U!BatchIsAtomic'
    <2>1. SUFFICES ASSUME upc' = "done" PROVE \A k \in Packages : ~U!Succeeded(k)'
      BY <1>6 DEF U!BatchIsAtomic
    <2>. QED  BY <1>1, <2>1 DEF U!Succeeded, U!Surrender
  <1>. QED  BY <1>5, <1>7, <1>8 DEF UpdateInv

\* What every step inside the loop leaves alone.
LEMMA CallStays ==
    ASSUME UpdateInv, NEW k \in Packages, NEW choice \in U!Targets,
           U!Succeeds(k, choice) \/ U!Fails(k, choice) \/ U!FailsDead(k, choice)
    PROVE  /\ ~job.batch /\ upc = "loop" /\ upc' = "loop" /\ choice \notin tried[k]
           /\ UNCHANGED <<job, ran1, broken, unrolled>> /\ broken = "no"
           /\ tried' = [tried EXCEPT ![k] = @ \cup {choice}]
           /\ tried' \in [Packages -> SUBSET U!Targets]
           /\ \A j \in Packages : tried[j] \subseteq tried'[j]
           /\ choice \in tried'[k]
           /\ Guarded' = Guarded /\ Blank' = Blank /\ Trees' = Trees
  <1>1. /\ ~job.batch /\ upc = "loop" /\ upc' = "loop" /\ choice \notin tried[k]
        /\ UNCHANGED <<job, ran1, broken, unrolled>>
        /\ tried' = [tried EXCEPT ![k] = @ \cup {choice}]
    BY DEF U!Succeeds, U!Fails, U!FailsDead, U!Calling, U!Signed
  <1>2. tried \in [Packages -> SUBSET U!Targets] /\ broken = "no"
    BY <1>1 DEF UpdateInv, WorkInv, UpdateTypes, Fresh
  <1>. QED  BY <1>1, <1>2 DEF Guarded, Blank, Trees

\* The parts that remain to be shown of such a step.
LEMMA CallKeeps ==
    ASSUME UpdateInv, NEW k \in Packages, NEW choice \in U!Targets,
           U!Succeeds(k, choice) \/ U!Fails(k, choice) \/ U!FailsDead(k, choice),
           uws' \in Trees, utouched' \subseteq Guarded, store' \in Seq(Checkpoints'),
           last' \in [Packages -> SUBSET U!Targets], unread' \subseteq Guarded,
           failed' \in Nat, ualive' \in BOOLEAN, failed' = 0 => failed = 0 /\ ualive' = ualive,
           Owned', Tried(uws)', Traced'
    PROVE  UpdateInv'
  <1>1. /\ ~job.batch /\ upc = "loop" /\ upc' = "loop"
        /\ UNCHANGED <<job, ran1, broken, unrolled>>
        /\ tried' \in [Packages -> SUBSET U!Targets] /\ Guarded' = Guarded /\ Trees' = Trees
    BY CallStays
  <1>2. UpdateTypes'
    BY <1>1 DEF UpdateInv, WorkInv, UpdateTypes
  <1>3. Fresh' /\ Healthy' /\ OneCheckpoint' /\ AllApplied' /\ Signed'
    BY <1>1 DEF UpdateInv, WorkInv, Fresh, Healthy, OneCheckpoint, AllApplied, Signed
  <1>4. U!LeftoversReported' /\ U!BatchIsAtomic'
    BY <1>1 DEF U!LeftoversReported, U!BatchIsAtomic
  <1>. QED  BY <1>2, <1>3, <1>4 DEF UpdateInv, WorkInv

\* A transaction that succeeds: what it wrote was not tried before, so no checkpoint has it,
\* and every file is in the ledger but for those some checkpoint failed to read.
LEMMA SucceedsKeeps ==
    ASSUME UpdateInv, NEW k \in Packages, NEW choice \in U!Targets, U!Succeeds(k, choice)
    PROVE  UpdateInv'
  <1>. WorkInv
    BY DEF UpdateInv
  <1>1. /\ ~job.batch /\ choice \notin tried[k] /\ choice \in tried'[k] /\ job' = job
        /\ tried' = [tried EXCEPT ![k] = @ \cup {choice}]
        /\ \A j \in Packages : tried[j] \subseteq tried'[j]
        /\ Guarded' = Guarded /\ Trees' = Trees /\ broken' = broken
    BY CallStays
  <1>2. PICK blind \in U!Blind(k), after \in SUBSET DOMAIN uws :
          /\ U!Tolerated(U!Checkpoint(k, blind), after)
          /\ uws' = Edited(k, choice)
          /\ utouched' = utouched \cup U!Differing(U!Checkpoint(k, blind), uws', after)
                                  \cup (IF job.manager = "npm" THEN {"manifest"} ELSE {})
          /\ unread' = unread \cup blind
    BY DEF U!Succeeds, Edited
  <1>. DEFINE cp == U!Checkpoint(k, blind)
  <1>3. /\ ualive /\ ualive' = ualive /\ failed' = failed /\ failed \in Nat
        /\ store' = U!Without(k) /\ uws["manifest"] # U!Absent
        /\ unread \subseteq Guarded /\ utouched \subseteq Guarded
    BY <1>2 DEF U!Succeeds, U!Accepted, U!Tolerated, U!Uneditable, WorkInv, UpdateTypes
  <1>4. uws \in Trees /\ "manifest" \in Guarded /\ DOMAIN uws = Guarded
    BY GuardedFiles DEF WorkInv, UpdateTypes
  <1>5. /\ uws["manifest"] \in Contents /\ uws' \in [Guarded -> Contents]
        /\ \A f \in Guarded : uws'[f] = U!Written(uws["manifest"], k, choice)
    BY <1>2, <1>3, EditedFiles
  <1>6. blind \subseteq Guarded
    BY <1>2, <1>4 DEF U!Blind
  <1>7. cp \in CheckpointsFor(unread')
    BY <1>1, <1>2, <1>6, CheckpointTaken
  <1>8. \A f \in Guarded \ unread' : f \in utouched'
    <2>1. \A f \in Guarded \ unread' : cp.files[f] # U!Absent
      BY <1>3, <1>7 DEF CheckpointsFor, Explained
    <2>2. \A f \in Guarded \ unread' : choice \notin cp.files[f][k]
      BY <1>1, <1>7, <2>1 DEF CheckpointsFor, Tried
    <2>3. \A f \in Guarded : choice \in uws'[f][k]
      BY <1>5, ChoiceWritten
    <2>4. \A f \in Guarded \ unread' : U!AsRead(uws', after)[f] # cp.files[f]
      BY <1>5, <2>1, <2>2, <2>3 DEF U!AsRead
    <2>5. DOMAIN uws' = Guarded
      BY <1>5
    <2>. HIDE DEF cp
    <2>. QED  BY <1>2, <2>4, <2>5 DEF U!Differing, cp
  <1>9. utouched' \subseteq Guarded
    <2>1. DOMAIN uws' = Guarded
      BY <1>5
    <2>. QED  BY <1>2, <1>3, <1>4, <2>1 DEF U!Differing
  <1>10. Owned'
    BY <1>1, <1>8 DEF Owned, Known
  <1>11. Tried(uws)'
    <2>1. \A f \in Guarded, j \in Packages :
            uws'[f][j] \subseteq uws["manifest"][j] \cup (IF j = k THEN {choice} ELSE {})
      BY <1>5, ChoiceWritten
    <2>2. \A j \in Packages : uws["manifest"][j] \subseteq tried[j]
      BY <1>1, <1>3, <1>4 DEF WorkInv, Signed, Tried
    <2>. QED  BY <1>1, <2>1, <2>2 DEF Tried
  <1>12. Traced'
    BY <1>1, <1>5, AbsentIsNoContent DEF Traced, Explained
  <1>13. store' \in Seq(Checkpoints')
    <2>1. Seq(CheckpointsFor(unread)) \subseteq Seq(Checkpoints')
      BY <1>1, <1>2, <1>3, CheckpointsStay DEF Accountable
    <2>. QED  BY <1>3, <2>1, DroppedCheckpoint DEF Checkpoints
  <1>14. last' \in [Packages -> SUBSET U!Targets]
    BY DEF U!Succeeds, U!Credited, WorkInv, UpdateTypes
  <1>15. uws' \in Trees /\ unread' \subseteq Guarded /\ ualive \in BOOLEAN
    BY <1>2, <1>3, <1>5, <1>6 DEF Trees, WorkInv, UpdateTypes
  <1>. QED  BY <1>3, <1>9, <1>10, <1>11, <1>12, <1>13, <1>14, <1>15, CallKeeps

\* A transaction that fails: what its checkpoint brings back and what was lost is in the ledger,
\* unless nothing was lost or the dispatch does not answer for it.
LEMMA FailsKeeps ==
    ASSUME UpdateInv, NEW k \in Packages, NEW choice \in U!Targets, U!Fails(k, choice)
    PROVE  UpdateInv'
  <1>. WorkInv
    BY DEF UpdateInv
  <1>1. /\ ~job.batch /\ job' = job /\ Guarded' = Guarded /\ Trees' = Trees /\ broken' = broken
        /\ tried' = [tried EXCEPT ![k] = @ \cup {choice}]
        /\ \A j \in Packages : tried[j] \subseteq tried'[j]
        /\ choice \in tried'[k]
    BY CallStays
  <1>2. PICK blind \in U!Blind(k), lost \in U!Losses :
          /\ \E x \in IF U!Uneditable(U!Checkpoint(k, blind)) THEN {uws} ELSE U!Midway(Edited(k, choice)) :
               uws' = U!Restored(x, U!Checkpoint(k, blind), lost)
          /\ utouched' = U!Ledger(utouched \cup {"manifest"}, U!Checkpoint(k, blind), lost)
          /\ store' = U!Kept(k, U!Checkpoint(k, blind), lost)
          /\ unread' = unread \cup blind
          /\ U!Lost(lost)
    BY DEF U!Fails, Edited
  <1>. DEFINE cp == U!Checkpoint(k, blind)
  <1>3. /\ lost \subseteq Guarded /\ failed' \in Nat /\ failed <= failed' /\ ualive' \in BOOLEAN
        /\ ualive' => ualive
        /\ failed' = 0 => failed = 0 /\ lost = {} /\ ualive' = ualive
    BY <1>2, LostFiles
  <1>4. uws \in Trees /\ "manifest" \in Guarded /\ DOMAIN uws = Guarded
        /\ failed \in Nat /\ unread \subseteq Guarded /\ utouched \subseteq Guarded
    BY GuardedFiles DEF WorkInv, UpdateTypes
  <1>5. blind \subseteq Guarded /\ unread' \subseteq Guarded
    BY <1>2, <1>4 DEF U!Blind
  <1>6. cp \in CheckpointsFor(unread')
    BY <1>1, <1>2, <1>5, CheckpointTaken
  <1>7. ualive
    BY DEF U!Fails
  <1>8. PICK x \in IF U!Uneditable(cp) THEN {uws} ELSE U!Midway(Edited(k, choice)) :
          uws' = U!Restored(x, cp, lost)
    BY <1>2
  <1>9. \A f \in Guarded : \/ x[f] = uws[f]
                           \/ /\ uws["manifest"] # U!Absent
                              /\ x[f] = U!Written(uws["manifest"], k, choice)
                              /\ x[f] \in Contents
    <2>1. CASE U!Uneditable(cp)
      BY <1>8, <2>1
    <2>2. CASE ~U!Uneditable(cp)
      <3>1. uws["manifest"] # U!Absent
        BY <2>2 DEF U!Uneditable
      <3>2. /\ Edited(k, choice) \in [Guarded -> Contents]
            /\ \A f \in Guarded : Edited(k, choice)[f] = U!Written(uws["manifest"], k, choice)
        BY <3>1, EditedFiles
      <3>. QED  BY <1>4, <1>8, <2>2, <3>1, <3>2 DEF U!Midway, Trees
    <2>. QED  BY <2>1, <2>2
  <1>10. x \in Trees
    <2>1. DOMAIN x = Guarded /\ x = [f \in Guarded |-> x[f]]
      <3>1. CASE U!Uneditable(cp)
        BY <1>4, <1>8, <3>1 DEF Trees
      <3>2. CASE ~U!Uneditable(cp)
        <4>1. Edited(k, choice) \in [Guarded -> Contents]
          BY <3>2, EditedFiles DEF U!Uneditable
        <4>. QED  BY <1>4, <1>8, <3>2, <4>1 DEF U!Midway, Trees
      <3>. QED  BY <3>1, <3>2
    <2>. QED  BY <1>4, <1>9, <2>1 DEF Trees
  <1>11. /\ uws' \in Trees
         /\ \A f \in Guarded : uws'[f] = IF f \in lost THEN x[f] ELSE cp.files[f]
    BY <1>6, <1>8, <1>10, RestoredFiles
  <1>12. Tried(uws)'
    <2>1. \A f \in Guarded : uws[f] # U!Absent => \A j \in Packages : uws[f][j] \subseteq tried'[j]
      BY <1>1 DEF WorkInv, Signed, Tried
    <2>2. \A f \in Guarded : cp.files[f] # U!Absent => \A j \in Packages : cp.files[f][j] \subseteq tried'[j]
      BY <1>1, <1>6 DEF CheckpointsFor, Tried
    <2>3. ASSUME uws["manifest"] # U!Absent, NEW j \in Packages
          PROVE  U!Written(uws["manifest"], k, choice)[j] \subseteq tried'[j]
      <3>1. U!Written(uws["manifest"], k, choice)[j]
              \subseteq uws["manifest"][j] \cup (IF j = k THEN {choice} ELSE {})
        BY <2>3, EditedFiles, ChoiceWritten
      <3>. QED  BY <1>1, <1>4, <2>1, <2>3, <3>1
    <2>4. \A f \in Guarded : x[f] # U!Absent => \A j \in Packages : x[f][j] \subseteq tried'[j]
      BY <1>9, <2>1, <2>3
    <2>. QED  BY <1>1, <1>11, <2>2, <2>4 DEF Tried
  <1>13. Traced'
    <2>1. \A f \in Guarded : x[f] = U!Absent => f \in unread'
      BY <1>2, <1>9, AbsentIsNoContent DEF WorkInv, Traced, Explained
    <2>2. \A f \in Guarded : cp.files[f] = U!Absent => f \in unread'
      BY <1>6, <1>7 DEF CheckpointsFor, Explained
    <2>. QED  BY <1>1, <1>11, <2>1, <2>2 DEF Traced, Explained
  <1>14. utouched' \subseteq Guarded
    <2>1. cp.before \subseteq Guarded
      BY <1>6 DEF CheckpointsFor
    <2>. QED  BY <1>2, <1>3, <1>4, <2>1 DEF U!Ledger
  <1>15. Accountable' => Accountable
    BY <1>1, <1>3, <1>4 DEF Accountable
  <1>16. Owned'
    <2>1. SUFFICES ASSUME Accountable' PROVE Known(uws', utouched', unread')
      BY <1>1 DEF Owned, Known
    <2>2. cp.before \cup lost \subseteq utouched'
      BY <1>1, <1>2, <1>3, <2>1 DEF U!Ledger, Accountable
    <2>. QED  BY <1>6, <1>7, <1>8, <1>10, <1>15, <2>1, <2>2, LedgerKnows
  <1>17. store' \in Seq(Checkpoints')
    <2>1. store \in Seq(CheckpointsFor(unread)) /\ U!Without(k) \in Seq(CheckpointsFor(unread))
      BY DroppedCheckpoint DEF WorkInv, UpdateTypes, Checkpoints
    <2>2. /\ Seq(CheckpointsFor(unread)) \subseteq Seq(Checkpoints')
          /\ CheckpointsFor(unread') \subseteq Checkpoints'
      BY <1>1, <1>2, <1>3, <1>15, CheckpointsStay
    <2>3. store \in Seq(Checkpoints') /\ U!Without(k) \in Seq(Checkpoints') /\ cp \in Checkpoints'
      BY <1>6, <2>1, <2>2
    <2>4. Append(store, cp) \in Seq(Checkpoints')
      BY <2>3, AppendProperties
    <2>. QED  BY <1>2, <2>3, <2>4 DEF U!Kept
  <1>18. last' \in [Packages -> SUBSET U!Targets]
    BY DEF U!Fails, WorkInv, UpdateTypes
  <1>. QED  BY <1>3, <1>5, <1>11, <1>12, <1>13, <1>14, <1>16, <1>17, <1>18, CallKeeps

\* A transaction without a container: something has failed before, so only a dispatch that
\* answers for it matters, and its ledger has everything.
LEMMA FailsDeadKeeps ==
    ASSUME UpdateInv, NEW k \in Packages, NEW choice \in U!Targets, U!FailsDead(k, choice)
    PROVE  UpdateInv'
  <1>. DEFINE cp == U!Checkpoint(k, DOMAIN uws)
  <1>. WorkInv
    BY DEF UpdateInv
  <1>1. /\ ~job.batch /\ job' = job /\ Guarded' = Guarded /\ Trees' = Trees /\ broken' = broken
        /\ \A j \in Packages : tried[j] \subseteq tried'[j]
    BY CallStays
  <1>2. /\ ~ualive /\ UNCHANGED <<uws, ualive, last, failed, unread>>
        /\ utouched' = U!Ledger(utouched, cp, DOMAIN uws) /\ store' = U!Kept(k, cp, DOMAIN uws)
    BY DEF U!FailsDead
  <1>3. /\ uws \in Trees /\ DOMAIN uws = Guarded /\ failed \in Nat /\ ualive \in BOOLEAN
        /\ utouched \subseteq Guarded /\ last \in [Packages -> SUBSET U!Targets]
        /\ unread \subseteq Guarded
    BY GuardedFiles DEF WorkInv, UpdateTypes
  <1>4. cp \in CheckpointsFor(unread \cup Guarded)
    BY <1>1, <1>3, CheckpointTaken
  <1>5. cp \in CheckpointsFor(unread)
    BY <1>1, <1>2, <1>4 DEF CheckpointsFor
  <1>6. utouched' \subseteq Guarded
    <2>1. cp.before \subseteq Guarded
      BY <1>5 DEF CheckpointsFor
    <2>. QED  BY <1>2, <1>3, <2>1 DEF U!Ledger
  <1>7. Owned'
    <2>1. SUFFICES ASSUME Accountable' PROVE Known(uws', utouched', unread')
      BY <1>1 DEF Owned, Known
    <2>2. failed # 0 /\ job.manager # "maven"
      BY <1>1, <1>2, <1>3, <2>1 DEF WorkInv, Healthy, Accountable
    <2>3. Guarded \subseteq utouched'
      BY <1>2, <1>3, <2>2 DEF U!Ledger
    <2>. QED  BY <2>3 DEF Known
  <1>8. Tried(uws)' /\ Traced'
    BY <1>1, <1>2 DEF WorkInv, Signed, Tried, Traced, Explained
  <1>9. store' \in Seq(Checkpoints')
    <2>1. store \in Seq(Checkpoints) /\ U!Without(k) \in Seq(Checkpoints)
      BY DroppedCheckpoint DEF WorkInv, UpdateTypes
    <2>2. Append(store, cp) \in Seq(Checkpoints)
      BY <1>5, <2>1, AppendProperties DEF Checkpoints
    <2>3. store' \in Seq(CheckpointsFor(unread))
      BY <1>2, <2>1, <2>2 DEF U!Kept, Checkpoints
    <2>4. Accountable' => Accountable
      BY <1>1, <1>2 DEF Accountable
    <2>. QED  BY <1>1, <1>2, <2>3, <2>4, CheckpointsStay
  <1>. QED  BY <1>2, <1>3, <1>6, <1>7, <1>8, <1>9, CallKeeps

-----------------------------------------------------------------------------
(* The committed action. *)

\* It starts with everything as it was, and its checkpoint has that but for what is not read.
LEMMA BatchStarts ==
    ASSUME UpdateInv, U!CallingBatch, NEW blind \in U!Blind(U!Batch),
           job' = job, tried' = tried, broken' = broken, unread' = unread \cup blind,
           ualive' => ualive, failed \in Nat, failed' \in Nat, failed <= failed'
    PROVE  /\ uws = Blank /\ store = <<>> /\ unread' \subseteq Guarded /\ broken = "no"
           /\ U!Capture(U!Batch, blind) \in CheckpointsFor(unread')
           /\ Append(store, U!Capture(U!Batch, blind)) \in Seq(Checkpoints')
           /\ Len(Append(store, U!Capture(U!Batch, blind))) = 1
           /\ store \in Seq(Checkpoints')
  <1>. DEFINE cp == U!Capture(U!Batch, blind)
  <1>. WorkInv
    BY DEF UpdateInv
  <1>1. uws = Blank /\ store = <<>> /\ broken = "no"
    BY DEF WorkInv, Fresh, U!CallingBatch
  <1>2. blind \subseteq Guarded /\ unread \subseteq Guarded
    BY GuardedFiles DEF U!Blind, WorkInv, UpdateTypes
  <1>3. cp \in CheckpointsFor(unread')
    BY <1>1, <1>2, CheckpointTaken
  <1>4. Accountable' => Accountable
    BY DEF Accountable
  <1>5. CheckpointsFor(unread') \subseteq Checkpoints'
    BY <1>4, CheckpointsStay
  <1>6. store \in Seq(Checkpoints') /\ Len(store) = 0
    BY <1>1, EmptySeq
  <1>7. cp \in Checkpoints'
    BY <1>3, <1>5
  <1>. QED  BY <1>1, <1>2, <1>3, <1>6, <1>7, AppendProperties

\* What its edits make of the manifest.
LEMMA TargetsWritten ==
    ASSUME uws = Blank, "manifest" \in Guarded, NEW target \in U!Committed, NEW ps \in SUBSET Packages
    PROVE  /\ U!AllWritten(ps, target) \in Contents
           /\ \A k \in ps : U!AllWritten(ps, target)[k] = {target[k]}
  <1>1. \A k \in Packages : target[k] \in U!Targets
    BY DEF U!Committed
  <1>2. \A k \in Packages : uws["manifest"][k] = {}
    BY DEF Blank, U!Untouched
  <1>3. \A choice : U!Chosen({}, choice) = {choice}
    BY DEF U!Chosen
  <1>4. \A k \in Packages :
          U!AllWritten(ps, target)[k] = IF k \in ps THEN {target[k]} ELSE {}
    BY <1>2, <1>3 DEF U!AllWritten
  <1>5. U!AllWritten(ps, target) = [k \in Packages |-> U!AllWritten(ps, target)[k]]
    BY DEF U!AllWritten
  <1>6. \A k \in Packages : U!AllWritten(ps, target)[k] \in SUBSET U!Targets
    BY <1>1, <1>4
  <1>7. U!AllWritten(ps, target) \in Contents
    <2>. HIDE DEF Contents
    <2>1. [k \in Packages |-> U!AllWritten(ps, target)[k]] \in [Packages -> SUBSET U!Targets]
      BY <1>6
    <2>. QED  BY <1>5, <2>1 DEF Contents
  <1>. QED  BY <1>4, <1>7

LEMMA BatchAppliesKeeps == ASSUME UpdateInv, U!BatchApplies PROVE UpdateInv'
  <1>. WorkInv
    BY DEF UpdateInv
  <1>1. /\ U!CallingBatch /\ job.batch /\ upc = "loop" /\ upc' = "loop" /\ ran1' = "applied"
        /\ UNCHANGED <<job, tried, broken, unrolled, ualive, failed>>
    BY DEF U!BatchApplies, U!CallingBatch, U!Unbatched
  <1>. Guarded' = Guarded /\ Blank' = Blank /\ Trees' = Trees
    BY <1>1 DEF Guarded, Blank, Trees
  <1>2. uws \in Trees /\ "manifest" \in Guarded /\ DOMAIN uws = Guarded
        /\ failed \in Nat /\ utouched \subseteq Guarded
    BY GuardedFiles DEF WorkInv, UpdateTypes
  <1>3. PICK target \in U!Committed, blind \in U!Blind(U!Batch), after \in SUBSET DOMAIN uws :
          /\ U!Tolerated(U!Capture(U!Batch, blind), after)
          /\ uws' = U!Synced([uws EXCEPT !["manifest"] = U!AllWritten(Packages, target)])
          /\ last' = [k \in Packages |-> {target[k]}]
          /\ utouched' = utouched \cup {"manifest"}
                            \cup U!Differing(U!Capture(U!Batch, blind), uws', after)
          /\ store' = Append(store, U!Capture(U!Batch, blind))
          /\ unread' = unread \cup blind
    BY DEF U!BatchApplies
  <1>. DEFINE cp == U!Capture(U!Batch, blind)
  <1>4. /\ uws = Blank /\ broken = "no" /\ unread' \subseteq Guarded
        /\ cp \in CheckpointsFor(unread') /\ store' \in Seq(Checkpoints') /\ Len(store') = 1
    <2>1. failed <= failed' /\ failed' \in Nat
      BY <1>1, <1>2
    <2>2. job' = job /\ tried' = tried /\ broken' = broken /\ unread' = unread \cup blind
      BY <1>1, <1>3
    <2>3. ualive' => ualive
      BY <1>1
    <2>4. /\ uws = Blank /\ broken = "no" /\ unread' \subseteq Guarded
          /\ cp \in CheckpointsFor(unread') /\ Append(store, cp) \in Seq(Checkpoints')
          /\ Len(Append(store, cp)) = 1
      <3>1. blind \in U!Blind(U!Batch)
        BY <1>3
      <3>. HIDE DEF cp
      <3>. QED  BY <1>1, <1>2, <2>1, <2>2, <2>3, <3>1, BatchStarts DEF cp
    <2>6. store' = Append(store, cp)
      BY <1>3
    <2>. HIDE DEF cp
    <2>. QED  BY <2>4, <2>6
  <1>5. /\ U!AllWritten(Packages, target) \in Contents
        /\ \A k \in Packages : U!AllWritten(Packages, target)[k] = {target[k]}
    BY <1>2, <1>4, TargetsWritten
  <1>6. /\ uws' \in [Guarded -> Contents] /\ uws' \in Trees /\ DOMAIN uws' = Guarded
        /\ \A f \in Guarded : uws'[f] = U!AllWritten(Packages, target)
    BY <1>2, <1>3, <1>5 DEF U!Synced, Trees
  <1>7. last' \in [Packages -> SUBSET U!Targets]
    BY <1>3 DEF U!Committed
  <1>8. utouched' \subseteq Guarded
    <2>. HIDE DEF cp
    <2>. QED  BY <1>2, <1>3, <1>6 DEF U!Differing
  <1>9. UpdateTypes'
    BY <1>1, <1>2, <1>4, <1>6, <1>7, <1>8 DEF WorkInv, UpdateTypes
  <1>10. Fresh' /\ Healthy' /\ Signed'
    BY <1>1 DEF WorkInv, Fresh, Healthy, Signed
  <1>11. Owned'
    <2>1. SUFFICES ASSUME Accountable' PROVE \A f \in Guarded \ unread' : f \in utouched'
      BY DEF Owned, Known
    <2>2. \A f \in Guarded \ unread' : cp.files[f] = U!Untouched
      BY <1>1, <1>4 DEF CheckpointsFor, Intact
    <2>3. \A f \in Guarded : uws'[f] # U!Untouched
      <3>1. PICK k \in Packages : TRUE
        BY WorkersAssumption DEF U!UpdateAssumption
      <3>2. U!Untouched[k] = {}
        BY DEF U!Untouched
      <3>. QED  BY <1>5, <1>6, <3>2
    <2>4. \A f \in Guarded \ unread' : U!AsRead(uws', after)[f] # cp.files[f]
      BY <1>6, <2>2, <2>3, AbsentIsNoContent DEF U!AsRead
    <2>. HIDE DEF cp
    <2>. QED  BY <1>3, <1>6, <2>4 DEF U!Differing, cp
  <1>12. OneCheckpoint'
    <2>1. Len(store') = 1 /\ Len(<<>>) = 0
      BY <1>4, EmptySeq
    <2>2. store' # <<>>
      BY <2>1
    <2>. QED  BY <2>1, <2>2 DEF OneCheckpoint
  <1>13. AllApplied'
    BY <1>2, <1>3, <1>5, <1>6 DEF AllApplied
  <1>14. Traced'
    BY <1>6, AbsentIsNoContent DEF Traced, Explained
  <1>15. U!LeftoversReported' /\ U!BatchIsAtomic'
    BY <1>1 DEF U!LeftoversReported, U!BatchIsAtomic
  <1>. QED  BY <1>9, <1>10, <1>11, <1>12, <1>13, <1>14, <1>15 DEF UpdateInv, WorkInv

\* A committed action that fails: nothing is left of it, or its checkpoint stays.
LEMMA BatchFailsKeeps == ASSUME UpdateInv, U!BatchFails PROVE UpdateInv'
  <1>. WorkInv
    BY DEF UpdateInv
  <1>1. /\ U!CallingBatch /\ job.batch /\ upc = "loop" /\ upc' = "loop" /\ ran1' = "failed"
        /\ UNCHANGED <<job, tried, broken, unrolled, last>>
    BY DEF U!BatchFails, U!CallingBatch, U!Unbatched
  <1>. Guarded' = Guarded /\ Blank' = Blank /\ Trees' = Trees
    BY <1>1 DEF Guarded, Blank, Trees
  <1>2. uws \in Trees /\ "manifest" \in Guarded /\ DOMAIN uws = Guarded
        /\ failed \in Nat /\ utouched \subseteq Guarded
    BY GuardedFiles DEF WorkInv, UpdateTypes
  <1>3. PICK target \in U!Committed, ps \in SUBSET Packages, blind \in U!Blind(U!Batch), lost \in U!Losses :
          LET edited == [uws EXCEPT !["manifest"] = U!AllWritten(ps, target)]
          IN /\ \E x \in {edited, U!Synced(edited)} : uws' = U!Restored(x, U!Capture(U!Batch, blind), lost)
             /\ utouched' = U!Ledger(utouched \cup {"manifest"}, U!Capture(U!Batch, blind), lost)
             /\ store' = IF lost = {} THEN store ELSE Append(store, U!Capture(U!Batch, blind))
             /\ unread' = unread \cup blind
             /\ U!Lost(lost)
    BY DEF U!BatchFails
  <1>. DEFINE cp == U!Capture(U!Batch, blind)
  <1>4. /\ lost \subseteq Guarded /\ failed' \in Nat /\ failed <= failed' /\ ualive' \in BOOLEAN
        /\ ualive' => ualive
        /\ failed' = 0 => failed = 0 /\ lost = {} /\ ualive' = ualive
    BY <1>3, LostFiles
  <1>5. /\ uws = Blank /\ broken = "no" /\ unread' \subseteq Guarded /\ store = <<>>
        /\ cp \in CheckpointsFor(unread') /\ store \in Seq(Checkpoints')
        /\ Append(store, cp) \in Seq(Checkpoints') /\ Len(Append(store, cp)) = 1
    BY <1>1, <1>2, <1>3, <1>4, BatchStarts
  <1>6. PICK x \in [Guarded -> Contents] : uws' = U!Restored(x, cp, lost)
    <2>1. U!AllWritten(ps, target) \in Contents
      BY <1>2, <1>5, TargetsWritten
    <2>2. Blank \in [Guarded -> Contents]
      BY DEF Blank, Contents, U!Untouched
    <2>. QED  BY <1>2, <1>3, <1>5, <2>1, <2>2 DEF U!Synced
  <1>7. x \in Trees
    BY DEF Trees
  <1>8. /\ uws' \in Trees
        /\ \A f \in Guarded : uws'[f] = IF f \in lost THEN x[f] ELSE cp.files[f]
    BY <1>5, <1>6, <1>7, RestoredFiles
  <1>9. Intact(cp.files, unread')
    BY <1>1, <1>5 DEF CheckpointsFor
  <1>10. lost = {} => Intact(uws, unread)'
    BY <1>8, <1>9 DEF Intact
  <1>11. utouched' \subseteq Guarded
    <2>1. cp.before \subseteq Guarded
      BY <1>5 DEF CheckpointsFor
    <2>. QED  BY <1>2, <1>3, <1>4, <2>1 DEF U!Ledger
  <1>12. UpdateTypes'
    BY <1>1, <1>3, <1>4, <1>5, <1>8, <1>11 DEF WorkInv, UpdateTypes
  <1>13. Fresh' /\ Healthy' /\ Signed' /\ AllApplied'
    BY <1>1, <1>4 DEF WorkInv, Fresh, Healthy, Signed, AllApplied
  <1>14. Owned'
    BY <1>1, <1>4, <1>10 DEF Owned, Known, Accountable, Intact
  <1>15. Traced'
    BY <1>8, <1>9, AbsentIsNoContent DEF Traced, Explained, Intact
  <1>16. OneCheckpoint'
    BY <1>3, <1>5, <1>10, EmptySeq DEF OneCheckpoint
  <1>17. U!LeftoversReported' /\ U!BatchIsAtomic'
    BY <1>1 DEF U!LeftoversReported, U!BatchIsAtomic
  <1>. QED  BY <1>12, <1>13, <1>14, <1>15, <1>16, <1>17 DEF UpdateInv, WorkInv

-----------------------------------------------------------------------------
(* The end of a dispatch. *)

LEMMA ClosingKeeps == ASSUME UpdateInv, NEW how \in {"no", "errors", "raised"}, U!Closing(how) PROVE UpdateInv'
  <1>1. /\ upc = "loop" /\ upc' = "cleanup" /\ broken' = how
        /\ ualive' = (ualive /\ ~(job.batch /\ how = "raised"))
        /\ UNCHANGED <<job, uws, utouched, store, tried, last, ran1, unrolled, unread, failed>>
    BY DEF U!Closing
  <1>. WorkInv
    BY DEF UpdateInv
  <1>2. broken = "no" /\ ualive \in BOOLEAN /\ ualive' \in BOOLEAN
    BY <1>1 DEF WorkInv, UpdateTypes, Fresh
  <1>3. /\ Guarded' = Guarded /\ Trees' = Trees /\ Blank' = Blank
        /\ store' \in Seq(Checkpoints') /\ uws' \in Trees' /\ Owned' /\ Signed' /\ Traced'
    BY <1>1, <1>2, WorkStays DEF Accountable
  <1>4. UpdateTypes'
    BY <1>1, <1>2, <1>3 DEF WorkInv, UpdateTypes
  <1>5. Fresh' /\ Healthy' /\ AllApplied'
    BY <1>1, <1>2, <1>3 DEF WorkInv, Fresh, Healthy, AllApplied
  <1>6. OneCheckpoint'
    BY <1>1, <1>3 DEF WorkInv, OneCheckpoint, Intact
  <1>7. U!LeftoversReported' /\ U!BatchIsAtomic'
    BY <1>1 DEF U!LeftoversReported, U!BatchIsAtomic
  <1>. QED  BY <1>3, <1>4, <1>5, <1>6, <1>7 DEF UpdateInv, WorkInv

LEMMA RollbackKeeps == ASSUME UpdateInv, U!Rollback PROVE UpdateInv'
  <1>. WorkInv
    BY DEF UpdateInv
  <1>. DEFINE cp == Head(store)
  <1>1. /\ upc = "cleanup" /\ upc' = "cleanup" /\ store # <<>> /\ store' = Tail(store)
        /\ ~(job.batch /\ U!BatchSucceeded)
        /\ UNCHANGED <<job, tried, last, ran1, broken, unread>>
    BY DEF U!Rollback, U!Pending
  <1>. Guarded' = Guarded /\ Blank' = Blank /\ Trees' = Trees
    BY <1>1 DEF Guarded, Blank, Trees
  <1>2. PICK lost \in IF ualive THEN U!Losses ELSE {DOMAIN uws} :
          /\ uws' = U!Restored(uws, cp, lost)
          /\ utouched' = (utouched \ (DOMAIN uws \ lost)) \cup cp.before \cup lost
          /\ unrolled' = (unrolled \/ lost # {})
          /\ IF ualive THEN U!Lost(lost) ELSE UNCHANGED <<ualive, failed>>
    BY <1>1 DEF U!Rollback, U!Pending
  <1>3. /\ uws \in Trees /\ DOMAIN uws = Guarded /\ Guarded # {}
        /\ failed \in Nat /\ ualive \in BOOLEAN /\ unrolled \in BOOLEAN /\ utouched \subseteq Guarded
        /\ store \in Seq(Checkpoints)
    BY GuardedFiles DEF WorkInv, UpdateTypes
  <1>4. /\ cp \in CheckpointsFor(unread) /\ store' \in Seq(CheckpointsFor(unread))
        /\ Len(store') = Len(store) - 1
    BY <1>1, <1>3, HeadTailProperties DEF Checkpoints
  <1>5. /\ lost \subseteq Guarded /\ failed' \in Nat /\ failed <= failed' /\ ualive' \in BOOLEAN
        /\ ualive' => ualive
        /\ failed' = 0 /\ broken # "raised" => failed = 0 /\ lost = {} /\ ualive' = ualive
        /\ ~ualive => lost = Guarded
    <2>1. CASE ualive
      BY <1>2, <2>1, LostFiles
    <2>2. CASE ~ualive
      BY <1>2, <1>3, <2>2 DEF WorkInv, Healthy
    <2>. QED  BY <2>1, <2>2
  <1>6. /\ uws' \in Trees
        /\ \A f \in Guarded : uws'[f] = IF f \in lost THEN uws[f] ELSE cp.files[f]
    BY <1>2, <1>3, <1>4, RestoredFiles
  <1>7. Accountable' => Accountable
    BY <1>1, <1>3, <1>5 DEF Accountable
  <1>8. UpdateTypes'
    <2>1. store' \in Seq(Checkpoints')
      BY <1>1, <1>4, <1>5, <1>7, CheckpointsStay
    <2>2. utouched' \subseteq Guarded
      BY <1>2, <1>3, <1>4, <1>5 DEF CheckpointsFor
    <2>3. unrolled' \in BOOLEAN
      BY <1>2, <1>3
    <2>. QED  BY <1>1, <1>5, <1>6, <2>1, <2>2, <2>3 DEF WorkInv, UpdateTypes
  <1>9. Owned'
    <2>1. SUFFICES ASSUME Accountable' PROVE Known(uws', utouched', unread)
      BY <1>1 DEF Owned, Known
    <2>2. cp.before \cup lost \subseteq utouched'
      BY <1>2
    <2>3. CASE ualive
      BY <1>2, <1>3, <1>4, <1>7, <2>1, <2>2, <2>3, LedgerKnows
    <2>4. CASE ~ualive
      BY <1>5, <2>2, <2>4 DEF Known
    <2>. QED  BY <2>3, <2>4
  <1>10. Signed'
    <2>1. SUFFICES ASSUME ~job.batch
                   PROVE  \A f \in Guarded : uws'[f] # U!Absent =>
                            \A k \in Packages : uws'[f][k] \subseteq tried[k]
      BY <1>1 DEF Signed, Tried
    <2>2. \A f \in Guarded :
            /\ uws[f] # U!Absent => \A k \in Packages : uws[f][k] \subseteq tried[k]
            /\ cp.files[f] # U!Absent => \A k \in Packages : cp.files[f][k] \subseteq tried[k]
      BY <1>4, <2>1 DEF WorkInv, Signed, CheckpointsFor, Tried
    <2>. QED  BY <1>6, <2>2
  <1>11. Traced'
    <2>1. \A f \in Guarded \ lost : cp.files[f] = U!Absent => f \in unread
      BY <1>4, <1>5 DEF CheckpointsFor, Explained
    <2>. QED  BY <1>1, <1>6, <2>1 DEF WorkInv, Traced, Explained
  <1>12. OneCheckpoint'
    <2>1. SUFFICES ASSUME job.batch PROVE Len(store') <= 1 /\ (~unrolled' => Intact(uws', unread))
      BY <1>1 DEF OneCheckpoint, Intact
    <2>2. Len(store) <= 1 /\ Len(store) \in Nat
      BY <1>3, <2>1, LenProperties DEF WorkInv, OneCheckpoint
    <2>3. ASSUME ~unrolled' PROVE Intact(uws', unread)
      <3>1. lost = {} /\ Intact(cp.files, unread)
        BY <1>2, <1>4, <2>1, <2>3 DEF CheckpointsFor
      <3>. QED  BY <1>6, <3>1 DEF Intact
    <2>. QED  BY <1>4, <2>2, <2>3
  <1>13. Healthy'
    BY <1>1, <1>2, <1>3, <1>5 DEF WorkInv, Healthy
  <1>14. Fresh'
    <2>1. ~(job.batch /\ ran1 = "no")
      BY <1>1 DEF WorkInv, Fresh
    <2>. QED  BY <1>1, <2>1 DEF Fresh
  <1>15. AllApplied'
    BY <1>1 DEF AllApplied, U!BatchSucceeded
  <1>16. U!LeftoversReported' /\ U!BatchIsAtomic'
    BY <1>1 DEF U!LeftoversReported, U!BatchIsAtomic
  <1>. QED  BY <1>8, <1>9, <1>10, <1>11, <1>12, <1>13, <1>14, <1>15, <1>16 DEF UpdateInv, WorkInv

\* A report changes nothing of the work.
LEMMA ReportStays ==
    ASSUME UpdateInv, NEW said, U!Finishing(said)
    PROVE  /\ WorkInv' /\ upc' = "done" /\ upc = "cleanup" /\ report' = said
           /\ UNCHANGED <<job, uws, utouched, store, tried, last, ran1, broken, unrolled, unread, failed>>
           /\ U!Pending = <<>> /\ Guarded' = Guarded /\ Blank' = Blank
  <1>1. /\ upc' = "done" /\ upc = "cleanup" /\ report' = said /\ U!Pending = <<>>
        /\ UNCHANGED <<job, uws, ualive, utouched, store, tried, last, ran1, broken, unrolled, unread,
                       failed>>
    BY DEF U!Finishing, U!Unrun
  <1>. WorkInv
    BY DEF UpdateInv
  <1>2. /\ Guarded' = Guarded /\ Trees' = Trees /\ Blank' = Blank
        /\ store' \in Seq(Checkpoints') /\ uws' \in Trees' /\ Owned' /\ Signed' /\ Traced'
    BY <1>1, WorkStays DEF Accountable
  <1>3. UpdateTypes'
    BY <1>1, <1>2 DEF WorkInv, UpdateTypes
  <1>4. Fresh' /\ Healthy'
    BY <1>1, <1>2 DEF WorkInv, Fresh, Healthy
  <1>5. OneCheckpoint'
    BY <1>1, <1>2 DEF WorkInv, OneCheckpoint, Intact
  <1>6. AllApplied'
    BY <1>1 DEF WorkInv, AllApplied, U!BatchSucceeded
  <1>. QED  BY <1>1, <1>2, <1>3, <1>4, <1>5, <1>6 DEF WorkInv

LEMMA ReportTasksKeeps == ASSUME UpdateInv, U!ReportTasks PROVE UpdateInv'
  <1>1. PICK said : U!Finishing(said) /\ (broken # "raised" => said.changed = U!CommittedFiles)
    <2>1. CASE broken = "raised"
      BY <2>1 DEF U!ReportTasks
    <2>2. CASE broken # "raised"
      BY <2>2 DEF U!ReportTasks
    <2>. QED  BY <2>1, <2>2
  <1>2. /\ WorkInv' /\ ~job.batch /\ job' = job /\ (broken # "raised" => report'.changed = U!CommittedFiles)
        /\ UNCHANGED <<uws, utouched, failed, broken, unread>>
    BY <1>1, ReportStays DEF U!ReportTasks
  <1>3. U!LeftoversReported'
    <2>1. SUFFICES ASSUME Accountable
                   PROVE  {f \in DOMAIN uws : uws[f] # U!Untouched} \ unread \subseteq U!CommittedFiles
      BY <1>2 DEF U!LeftoversReported, Accountable
    <2>2. {f \in DOMAIN uws : uws[f] # U!Untouched} \ unread \subseteq utouched
      BY <2>1, GuardedFiles DEF UpdateInv, WorkInv, Owned, Known
    <2>. QED  BY <2>2 DEF U!CommittedFiles
  <1>4. U!BatchIsAtomic'
    BY <1>2 DEF U!BatchIsAtomic
  <1>. QED  BY <1>2, <1>3, <1>4 DEF UpdateInv

LEMMA ReportBatchKeeps == ASSUME UpdateInv, U!ReportBatch PROVE UpdateInv'
  <1>. DEFINE ok == U!BatchSucceeded /\ ~unrolled
              said == [status |-> U!Statuses(Packages, ok, ~ok, Packages), said |-> Packages,
                       changed |-> IF ok THEN utouched ELSE {}, errors |-> ~ok]
  <1>1. job.batch /\ U!Finishing(said)
    BY DEF U!ReportBatch
  <1>2. /\ WorkInv' /\ job' = job /\ report' = said /\ U!Pending = <<>> /\ upc = "cleanup"
        /\ UNCHANGED <<uws, utouched, store, last, unrolled, unread, broken, failed>>
    <2>. HIDE DEF said
    <2>. QED  BY <1>1, ReportStays
  <1>3. DOMAIN uws = Guarded /\ unrolled \in BOOLEAN /\ ok \in BOOLEAN
    BY GuardedFiles DEF UpdateInv, WorkInv, UpdateTypes, U!BatchSucceeded
  <1>4. ~ok => unrolled \/ Intact(uws, unread)
    BY <1>1, <1>2 DEF UpdateInv, WorkInv, OneCheckpoint, U!Pending
  <1>5. ok => \A k \in Packages : uws["manifest"][k] = last[k]
    BY <1>1 DEF UpdateInv, WorkInv, AllApplied, U!BatchSucceeded
  <1>6. /\ report'.changed = IF ok THEN utouched ELSE {}
        /\ report'.errors = ~ok
        /\ DOMAIN report'.status = Packages
        /\ \A k \in Packages : report'.status[k] = IF ok THEN "SUCCESS" ELSE "SURRENDER"
    <2>1. /\ report'.changed = (IF ok THEN utouched ELSE {}) /\ report'.errors = ~ok
          /\ report'.status = U!Statuses(Packages, ok, ~ok, Packages)
      BY <1>2
    <2>. HIDE DEF ok, said
    <2>2. U!Statuses(Packages, ok, ~ok, Packages) = [k \in Packages |-> IF ok THEN "SUCCESS" ELSE "SURRENDER"]
      BY <1>3 DEF U!Statuses
    <2>. QED  BY <2>1, <2>2
  <1>. HIDE DEF said
  <1>7. U!LeftoversReported'
    <2>1. SUFFICES ASSUME failed = 0, broken # "raised"
                   PROVE  {f \in DOMAIN uws : uws[f] # U!Untouched} \ unread \subseteq report'.changed
      BY <1>1, <1>2 DEF U!LeftoversReported
    <2>2. Known(uws, utouched, unread) /\ ~unrolled
      BY <2>1 DEF UpdateInv, WorkInv, Owned, Accountable, Healthy
    <2>3. CASE ok
      BY <1>3, <1>6, <2>2, <2>3 DEF Known
    <2>4. CASE ~ok
      BY <1>3, <1>4, <2>2, <2>4 DEF Intact
    <2>. QED  BY <2>3, <2>4
  <1>8. U!BatchIsAtomic'
    <2>1. CASE ok
      BY <1>2, <1>5, <1>6, <2>1 DEF U!BatchIsAtomic, U!Succeeded
    <2>2. CASE ~ok
      <3>1. \A k \in Packages : ~U!Succeeded(k)'
        BY <1>6, <2>2 DEF U!Succeeded
      <3>2. \/ unrolled' /\ report'.errors
            \/ \A f \in DOMAIN uws' : uws'[f] = U!Untouched \/ (f \in unread' /\ uws'[f] = U!Absent)
        BY <1>2, <1>3, <1>4, <1>6, <2>2 DEF Intact
      <3>. QED  BY <3>1, <3>2 DEF U!BatchIsAtomic
    <2>. QED  BY <2>1, <2>2
  <1>. QED  BY <1>2, <1>7, <1>8 DEF UpdateInv

\* What the calls of a loop count is no part of it.
LEMMA UpdateExceptRuns ==
    ASSUME UpdateInv,
           UNCHANGED <<upc, job, uws, ualive, utouched, store, tried, last, ran1, broken, unrolled,
                       unread, report, failed>>
    PROVE  UpdateInv'
  <1>. WorkInv
    BY DEF UpdateInv
  <1>1. /\ Guarded' = Guarded /\ Trees' = Trees /\ Blank' = Blank
        /\ store' \in Seq(Checkpoints') /\ uws' \in Trees' /\ Owned' /\ Signed' /\ Traced'
    BY WorkStays DEF Accountable
  <1>2. UpdateTypes'
    BY <1>1 DEF WorkInv, UpdateTypes
  <1>3. Fresh' /\ Healthy' /\ OneCheckpoint'
    BY <1>1 DEF WorkInv, Fresh, Healthy, OneCheckpoint, Intact
  <1>4. AllApplied' /\ U!LeftoversReported' /\ U!BatchIsAtomic'
    BY DEF UpdateInv, WorkInv, AllApplied, U!BatchSucceeded, U!LeftoversReported,
           U!BatchIsAtomic, U!Succeeded
  <1>. QED  BY <1>1, <1>2, <1>3, <1>4 DEF WorkInv, UpdateInv

LEMMA UpdateInvIsKept == ASSUME UpdateInv, [WorkersNext]_Seen PROVE UpdateInv'
  <1>1. CASE Updates
    <2>1. CASE U!Preflight
      BY <2>1, PreflightKeeps
    <2>2. CASE U!Call
      <3>1. ASSUME NEW k \in Packages, U!Refused(k) PROVE UpdateInv'
        <4>1. UNCHANGED <<upc, job, uws, ualive, utouched, store, tried, last, ran1, broken,
                          unrolled, unread, report, failed>>
          BY <3>1 DEF U!Refused
        <4>. QED  BY <4>1, UpdateExceptRuns
      <3>. QED  BY <2>2, <3>1, SucceedsKeeps, FailsKeeps, FailsDeadKeeps DEF U!Call
    <2>3. CASE U!Close
      BY <2>3, ClosingKeeps, RollbackKeeps, ReportBatchKeeps, ReportTasksKeeps
         DEF U!Close, U!Answer, U!Exhausted, U!Raises
    <2>4. CASE U!Stopped
      BY <2>4, UpdateExceptRuns DEF U!Stopped, U!vars
    <2>. QED  BY <1>1, <2>1, <2>2, <2>3, <2>4, BatchAppliesKeeps, BatchFailsKeeps DEF Updates, U!Next
  <1>2. CASE UNCHANGED updateVars
    BY <1>2, UpdateExceptRuns DEF updateVars
  <1>. QED  BY <1>1, <1>2 DEF WorkersNext, WorkAround, Loops, Remembers, Sandboxes, Seen

\* Every file that differs from the start is among the changed files an update worker reports,
\* whatever failed and in whatever order (update_subagent.py), for any packages, versions and
\* bounds.  Exempt, by the code, are a dispatch whose loop raised, a file that a checkpoint
\* failed to read, and, once a rollback has failed, Maven and the committed actions.
THEOREM LeftoversReportedHolds == WorkersSpec => []LeftoversReported
  <1>1. WorkersInit => UpdateInv
    BY UpdateAtInit
  <1>2. UpdateInv /\ [WorkersNext]_Seen => UpdateInv'
    BY UpdateInvIsKept
  <1>3. UpdateInv => LeftoversReported
    BY DEF UpdateInv, LeftoversReported
  <1>. QED  BY <1>1, <1>2, <1>3, PTL DEF WorkersSpec, Seen

\* A committed action is applied for every package, or reported for none with every file as it
\* was or the failure of its rollback among the reported errors (apply_multi_package_action and
\* its end), also when the loop raised, for any number of packages; a file its checkpoint failed
\* to read may have been deleted.
THEOREM BatchIsAtomicHolds == WorkersSpec => []BatchIsAtomic
  <1>1. WorkersInit => UpdateInv
    BY UpdateAtInit
  <1>2. UpdateInv /\ [WorkersNext]_Seen => UpdateInv'
    BY UpdateInvIsKept
  <1>3. UpdateInv => BatchIsAtomic
    BY DEF UpdateInv, BatchIsAtomic
  <1>. QED  BY <1>1, <1>2, <1>3, PTL DEF WorkersSpec, Seen

-----------------------------------------------------------------------------
(* The workaround worker.  What an attempt hands over, for any files, any    *)
(* bounds of the loop and any calls of the model: the workspace of a         *)
(* successful attempt is the one its last passing gate saw.                  *)

(* The types. *)

Patches == {Other, Prior, Removed} \cup {Edit(n) : n \in Nat}
Texts == SUBSET Patches
\* The contents of some files.
Saved == UNION {[S -> Texts] : S \in SUBSET Paths}
Edits == {NoEdit} \cup [patch : {Edit(n) : n \in Nat}, files : SUBSET Files]
Verdicts == {"none", "PASS", "CODE_FAILURE", "INFRA_FAILURE", "BLOCKED"}
Plans ==
  [stage : BOOLEAN, phase : Phases, rev : Nat, files : SUBSET Files, removal : BOOLEAN,
   read : SUBSET Files, looked : BOOLEAN, edited : BOOLEAN, pending : Edits, current : Edits,
   before : Saved, first : Saved, validated : SUBSET Paths, result : Verdicts, passed : BOOLEAN,
   stuck : SUBSET Paths, sets : SUBSET Edits]
LoopStates ==
  [calls : Nat, phase : Phases, changed : SUBSET Paths, gates : Nat, inputs : Nat, scope : Nat,
   edits : BOOLEAN, fresh : BOOLEAN, terminal : BOOLEAN, stop : {"no", "limit", "blocked"}]

TypeInv ==
  /\ pc \in {"replay", "turn", "settle", "done"}
  /\ ws \in [Paths -> Texts] /\ prior \subseteq Files /\ touched \subseteq Paths
  /\ alive \in BOOLEAN /\ plan \in Plans /\ loop \in LoopStates
  /\ out \in {"none", "success", "failure"} /\ faults \in Nat

-----------------------------------------------------------------------------
(* The invariant. *)

\* A pass that still counts: the loop has seen no edit after it, and did not end at a blocker, whose
\* cleanup writes to the workspace.
Counts == plan.passed /\ loop.fresh /\ (pc = "settle" => loop.stop # "blocked")

\* As long as a pass counts, the workspace is the one it saw, from which a removal has nothing left to
\* remove; and nothing is handed over before the attempt is settled.
PassStands ==
  /\ pc \in {"replay", "turn", "settle"} => out = "none"
  /\ pc = "replay" => ~plan.passed
  /\ pc \in {"turn", "settle"} /\ Counts => judged = ws /\ (plan.stage => Gone)

WorkerInv == TypeInv /\ PassStands /\ HandsOverWhatPassed

-----------------------------------------------------------------------------
(* The types are kept. *)

\* What an attempt remembers of files is part of what it met.
LEMMA RememberedType == ASSUME TypeInv, NEW fs \in SUBSET Paths
                        PROVE  Remembered(fs) \in Saved
  <1>1. PICK S \in SUBSET Paths : plan.first \in [S -> Texts]
    BY DEF TypeInv, Plans, Saved
  <1>2. Remembered(fs) \in [S \cup fs -> Texts]
    BY <1>1 DEF Remembered, TypeInv
  <1>. QED  BY <1>1, <1>2 DEF Saved

\* What a failed gate takes back.
LEMMA UnjudgedType == ASSUME TypeInv
                      PROVE  Unjudged \in Saved /\ DOMAIN Unjudged \subseteq Paths
  <1>1. CASE plan.pending # NoEdit
    BY <1>1 DEF Unjudged, TypeInv, Plans, Saved
  <1>2. CASE plan.pending = NoEdit
    <2>. DEFINE S == {g \in plan.current.files : plan.current.patch \in ws[g]}
    <2>1. plan.current.files \subseteq Files
      BY DEF TypeInv, Plans, Edits, NoEdit
    <2>2. S \subseteq Paths
      BY <2>1 DEF Paths
    <2>3. \A f \in S : ws[f] \ {plan.current.patch} \in Texts
      BY <2>2 DEF TypeInv, Texts
    <2>4. Unjudged = [f \in S |-> ws[f] \ {plan.current.patch}]
      BY <1>2 DEF Unjudged
    <2>5. Unjudged \in [S -> Texts]
      BY <2>3, <2>4
    <2>. QED  BY <2>2, <2>5 DEF Saved
  <1>. QED  BY <1>1, <1>2

LEMMA RestoredType == ASSUME TypeInv, NEW old \in Saved
                      PROVE  Restored(ws, old) \in [Paths -> Texts]
  BY DEF Restored, TypeInv, Saved

LEMMA TypesAtInit == ASSUME Init PROVE TypeInv
  <1>1. <<>> \in Saved
    <2>1. <<>> \in [{} -> Texts]
      OBVIOUS
    <2>. QED  BY <2>1 DEF Saved
  <1>2. \A removal \in BOOLEAN : FirstPlan(removal) \in Plans
    BY <1>1 DEF FirstPlan, Plans, Phases, Edits, NoEdit, Verdicts
  <1>3. ws \in [Paths -> Texts]
    BY DEF Init, Texts, Patches
  <1>4. loop \in LoopStates
    BY DEF Init, LoopStates, Phases
  <1>. QED  BY <1>2, <1>3, <1>4 DEF Init, TypeInv

\* What a call leaves of the loop's own record.
LEMMA LoopTypes ==
    ASSUME NEW l \in LoopStates
    PROVE  /\ [l EXCEPT !.calls = @ + 1] \in LoopStates
           /\ [l EXCEPT !.gates = @ + 1] \in LoopStates
           /\ [l EXCEPT !.gates = @ + 1, !.fresh = TRUE, !.terminal = TRUE] \in LoopStates
           /\ [l EXCEPT !.scope = @ + 1] \in LoopStates
           /\ [l EXCEPT !.inputs = @ + 1] \in LoopStates
           /\ \A why \in {"no", "limit", "blocked"} : [l EXCEPT !.stop = why] \in LoopStates
           /\ \A why \in {"limit", "blocked"} : Stopping(l, why) \in LoopStates
           /\ \A reached \in BOOLEAN : Limited(l, reached) \in LoopStates
           /\ Failed(l) \in LoopStates
           /\ \A fs \in SUBSET Paths : [l EXCEPT !.changed = fs] \in LoopStates
           /\ \A fs \in SUBSET Paths :
                [l EXCEPT !.changed = fs, !.edits = TRUE, !.fresh = FALSE] \in LoopStates
           /\ \A phase \in Phases : [l EXCEPT !.calls = 0, !.phase = phase] \in LoopStates
  <1>. l.calls + 1 \in Nat /\ l.gates + 1 \in Nat /\ l.scope + 1 \in Nat /\ l.inputs + 1 \in Nat
    BY DEF LoopStates
  <1>1. [l EXCEPT !.calls = @ + 1] \in LoopStates
    BY Zenon DEF LoopStates
  <1>2. [l EXCEPT !.gates = @ + 1] \in LoopStates
    BY Zenon DEF LoopStates
  <1>3. [l EXCEPT !.gates = @ + 1, !.fresh = TRUE, !.terminal = TRUE] \in LoopStates
    BY Zenon DEF LoopStates
  <1>4. [l EXCEPT !.scope = @ + 1] \in LoopStates
    BY Zenon DEF LoopStates
  <1>5. [l EXCEPT !.inputs = @ + 1] \in LoopStates
    BY Zenon DEF LoopStates
  <1>6. \A x \in LoopStates, why \in {"no", "limit", "blocked"} : [x EXCEPT !.stop = why] \in LoopStates
    BY DEF LoopStates
  <1>7. \A x \in LoopStates : x.stop \in {"no", "limit", "blocked"}
    BY DEF LoopStates
  <1>8. \A x \in LoopStates, why \in {"limit", "blocked"} : Stopping(x, why) \in LoopStates
    BY <1>6, <1>7 DEF Stopping
  <1>9. \A x \in LoopStates, reached \in BOOLEAN : Limited(x, reached) \in LoopStates
    BY <1>8 DEF Limited
  <1>10. (l.gates + 1 >= MaxGates) \in BOOLEAN
    OBVIOUS
  <1>11. Failed(l) \in LoopStates
    BY <1>2, <1>9, <1>10 DEF Failed
  <1>12. \A fs \in SUBSET Paths : [l EXCEPT !.changed = fs] \in LoopStates
    BY DEF LoopStates
  <1>13. \A fs \in SUBSET Paths :
           [l EXCEPT !.changed = fs, !.edits = TRUE, !.fresh = FALSE] \in LoopStates
    BY DEF LoopStates
  <1>14. \A phase \in Phases : [l EXCEPT !.calls = 0, !.phase = phase] \in LoopStates
    BY DEF LoopStates
  <1>. QED  BY <1>1, <1>2, <1>3, <1>4, <1>5, <1>6, <1>8, <1>9, <1>11, <1>12, <1>13, <1>14

\* Which files an attempt reports.
LEMMA ReportedType == ASSUME TypeInv PROVE Reported \subseteq Paths /\ Own \subseteq Paths
  <1>1. loop.changed \subseteq Paths /\ plan.stuck \subseteq Paths /\ touched \subseteq Paths
    BY DEF TypeInv, LoopStates, Plans
  <1>. QED  BY <1>1 DEF Reported, Own

LEMMA TypesAroundLoop ==
    ASSUME TypeInv, Replay \/ ReplayMismatch \/ Answer \/ Exhausted \/ NextTurn \/ Terminal
                       \/ StopBlocked \/ Stop \/ Success \/ Failure \/ UNCHANGED vars
    PROVE  TypeInv'
  <1>1. loop \in LoopStates /\ plan \in Plans
    BY DEF TypeInv
  <1>2. CASE Replay \/ ReplayMismatch
    <2>1. \A fs \in SUBSET prior :
            [f \in Paths |-> ws[f] \cup (IF f \in fs THEN {Prior} ELSE {})] \in [Paths -> Texts]
      BY DEF TypeInv, Texts, Patches
    <2>2. prior \subseteq Paths
      BY DEF TypeInv, Paths
    <2>3. loop' \in LoopStates
      BY <1>1, <1>2, <2>2, LoopTypes DEF Replay, ReplayMismatch
    <2>. QED  BY <1>2, <2>1, <2>2, <2>3 DEF Replay, ReplayMismatch, TypeInv
  <1>3. CASE Answer \/ Exhausted \/ Terminal \/ Stop \/ UNCHANGED vars
    <2>1. loop' \in LoopStates
      BY <1>1, <1>3, LoopTypes DEF Answer, Exhausted, Terminal, Stop, vars
    <2>. QED  BY <1>3, <2>1 DEF Answer, Exhausted, Terminal, Stop, vars, TypeInv
  <1>4. CASE NextTurn
    <2>1. plan' \in Plans
      BY <1>1, <1>4 DEF NextTurn, Plans, Phases
    <2>2. plan'.phase \in Phases
      BY <2>1 DEF Plans
    <2>3. loop' \in LoopStates
      BY <1>1, <1>4, <2>2, LoopTypes DEF NextTurn
    <2>. QED  BY <1>4, <2>1, <2>3 DEF NextTurn, TypeInv
  <1>5. CASE StopBlocked
    <2>1. ws' \in [Paths -> Texts]
      BY <1>5 DEF StopBlocked, TypeInv, Texts
    <2>2. loop' \in LoopStates
      BY <1>1, <1>5, LoopTypes DEF StopBlocked
    <2>. QED  BY <1>5, <2>1, <2>2 DEF StopBlocked, TypeInv
  <1>6. CASE Success
    <2>1. loop' \in LoopStates
      BY <1>1, <1>6, ReportedType, LoopTypes DEF Success
    <2>. QED  BY <1>6, <2>1 DEF Success, TypeInv
  <1>7. CASE Failure
    <2>1. \A f \in DOMAIN plan.first : plan.first[f] \in Texts
      BY <1>1 DEF Plans, Saved
    <2>2. ws' \in [Paths -> Texts]
      BY <1>7, <2>1 DEF Failure, TypeInv
    <2>3. touched' \subseteq Paths
      BY <1>7, ReportedType DEF Failure, TypeInv
    <2>4. PICK fs \in SUBSET Paths : loop' = [loop EXCEPT !.changed = fs]
      BY <1>7, ReportedType DEF Failure, TypeInv
    <2>5. loop' \in LoopStates
      BY <1>1, <2>4, LoopTypes
    <2>. QED  BY <1>7, <2>2, <2>3, <2>5 DEF Failure, TypeInv
  <1>. QED  BY <1>2, <1>3, <1>4, <1>5, <1>6, <1>7

LEMMA TypesOfEdits ==
    ASSUME TypeInv, Read \/ Refused \/ RecordPlan \/ EditApplied \/ EditUnparsable \/ EditUnwritable
                       \/ RevertFile \/ Removal \/ RemovalFails
    PROVE  TypeInv'
  <1>1. loop \in LoopStates /\ plan \in Plans
    BY DEF TypeInv
  <1>2. plan.files \subseteq Files /\ plan.files \subseteq Paths /\ {Manifest} \subseteq Paths
    BY <1>1 DEF Plans, Paths
  <1>3. Applied \in [Paths -> Texts]
    <2>1. plan.rev \in Nat
      BY <1>1 DEF Plans
    <2>. QED  BY <2>1 DEF Applied, Texts, Patches, TypeInv
  <1>4. CASE Read
    <2>1. PICK f \in Files : plan' = [plan EXCEPT !.read = @ \cup {f}, !.looked = TRUE]
      BY <1>4 DEF Read
    <2>2. plan.read \cup {f} \in SUBSET Files
      BY <1>1 DEF Plans
    <2>3. plan' \in Plans
      BY <1>1, <2>1, <2>2 DEF Plans
    <2>. QED  BY <1>1, <1>4, <2>3, LoopTypes DEF Read, Kept, After, TypeInv
  <1>5. CASE Refused
    <2>1. (loop.scope + 1 >= MaxScope) \in BOOLEAN
      OBVIOUS
    <2>2. Limited([loop EXCEPT !.scope = @ + 1], loop.scope + 1 >= MaxScope) \in LoopStates
      BY <1>1, <2>1, LoopTypes
    <2>. QED  BY <1>5, <2>2, LoopTypes DEF Refused, Kept, After, TypeInv
  <1>6. CASE RecordPlan
    <2>1. PICK fs \in SUBSET plan.read, removal \in BOOLEAN :
            plan' = [plan EXCEPT !.rev = @ + 1, !.phase = "EXECUTE", !.edited = FALSE,
                                 !.files = fs, !.removal = @ \/ removal, !.looked = TRUE]
      BY <1>6 DEF RecordPlan
    <2>2. plan.rev + 1 \in Nat /\ (plan.removal \/ removal) \in BOOLEAN /\ "EXECUTE" \in Phases
      BY <1>1 DEF Plans, Phases
    <2>3. fs \in SUBSET Files
      BY <1>1 DEF Plans
    <2>4. plan' \in Plans
      BY Zenon, <1>1, <2>1, <2>2, <2>3 DEF Plans
    <2>. QED  BY <1>1, <1>6, <2>4, LoopTypes DEF RecordPlan, Kept, After, TypeInv
  <1>7. CASE EditApplied
    <2>. DEFINE edit == [patch |-> Edit(plan.rev), files |-> plan.files]
                met == [f \in plan.files |-> ws[f]]
    <2>1. edit \in Edits /\ met \in Saved /\ Remembered(plan.files) \in Saved
      BY <1>1, <1>2, RememberedType DEF Edits, Saved, Plans, TypeInv
    <2>2. plan' = [plan EXCEPT !.first = Remembered(plan.files), !.before = met, !.pending = edit,
                               !.current = edit, !.edited = TRUE, !.phase = "VALIDATE"]
      BY <1>7 DEF EditApplied
    <2>. HIDE DEF edit, met
    <2>3. plan' \in Plans
      BY <1>1, <2>1, <2>2 DEF Plans, Phases
    <2>4. loop.changed \cup plan.files \in SUBSET Paths
      BY <1>1, <1>2 DEF LoopStates
    <2>5. loop' \in LoopStates
      BY <1>1, <1>7, <2>4, LoopTypes DEF EditApplied, After
    <2>. QED  BY <1>2, <1>3, <1>7, <2>3, <2>5 DEF EditApplied, Kept, TypeInv
  <1>8. CASE EditUnparsable
    <2>1. plan' \in Plans
      BY <1>1, <1>2, <1>8, RememberedType DEF EditUnparsable, Plans, Phases
    <2>. QED  BY <1>1, <1>8, <2>1, LoopTypes DEF EditUnparsable, Kept, After, TypeInv
  <1>9. CASE EditUnwritable
    <2>1. PICK left \in SUBSET plan.files :
            /\ ws' = [f \in Paths |-> IF f \in left THEN Applied[f] ELSE ws[f]]
            /\ touched' = touched \cup left
            /\ plan' = [plan EXCEPT !.first = Remembered(plan.files), !.stuck = @ \cup left,
                                    !.passed = @ /\ left = {}]
      BY <1>9 DEF EditUnwritable
    <2>2. plan' \in Plans
      BY <1>1, <1>2, <2>1, RememberedType DEF Plans
    <2>3. ws' \in [Paths -> Texts]
      BY <1>3, <2>1 DEF TypeInv
    <2>4. faults \in Nat /\ faults' = faults + 1
      BY <1>9 DEF EditUnwritable, TypeInv
    <2>5. loop' \in LoopStates
      BY <1>1, <1>9, LoopTypes DEF EditUnwritable, After
    <2>6. touched' \subseteq Paths
      BY <1>2, <2>1 DEF TypeInv
    <2>7. faults' \in Nat
      BY <2>4
    <2>. QED  BY <1>9, <2>2, <2>3, <2>5, <2>6, <2>7 DEF EditUnwritable, Kept, TypeInv
  <1>10. CASE RevertFile
    <2>1. ws' \in [Paths -> Texts] /\ touched' \subseteq Paths
      BY <1>10 DEF RevertFile, TypeInv, Texts
    <2>2. PICK fs \in SUBSET Paths : After([loop EXCEPT !.changed = fs, !.edits = TRUE, !.fresh = FALSE])
      BY <1>1, <1>10 DEF RevertFile, LoopStates
    <2>3. loop' \in LoopStates
      BY <1>1, <2>2, LoopTypes DEF After
    <2>. QED  BY <1>10, <2>1, <2>3 DEF RevertFile, Kept, TypeInv
  <1>11. CASE Removal
    <2>1. plan' \in Plans
      BY <1>1, <1>2, <1>11, RememberedType DEF Removal, Plans, Phases
    <2>2. ws' \in [Paths -> Texts]
      BY <1>11 DEF Removal, Texts, Patches, TypeInv
    <2>. QED  BY <1>1, <1>2, <1>11, <2>1, <2>2, LoopTypes DEF Removal, Kept, After, TypeInv
  <1>12. CASE RemovalFails
    <2>1. plan' \in Plans
      BY <1>1, <1>2, <1>12, RememberedType DEF RemovalFails, Plans
    <2>. QED  BY <1>1, <1>12, <2>1, LoopTypes DEF RemovalFails, Kept, After, TypeInv
  <1>. QED  BY <1>4, <1>5, <1>6, <1>7, <1>8, <1>9, <1>10, <1>11, <1>12

LEMMA TypesOfGates ==
    ASSUME TypeInv, Invalid \/ Incomplete \/ Pass \/ CodeFailure \/ RevertFails \/ InfraFailure \/ Blocked
    PROVE  TypeInv'
  <1>1. loop \in LoopStates /\ plan \in Plans
    BY DEF TypeInv
  <1>2. CASE Invalid
    <2>1. PICK again \in BOOLEAN : After(Limited([loop EXCEPT !.inputs = @ + 1],
                                                 again \/ loop.inputs + 1 >= MaxInputs))
      BY <1>2 DEF Invalid
    <2>2. (again \/ loop.inputs + 1 >= MaxInputs) \in BOOLEAN
      OBVIOUS
    <2>3. loop' \in LoopStates
      BY <1>1, <2>1, <2>2, LoopTypes DEF After
    <2>. QED  BY <1>2, <2>3 DEF Invalid, Kept, TypeInv
  <1>3. CASE Incomplete
    BY <1>1, <1>3, LoopTypes DEF Incomplete, Kept, After, TypeInv
  <1>4. <<>> \in Saved
    <2>1. <<>> \in [{} -> Texts]
      OBVIOUS
    <2>. QED  BY <2>1 DEF Saved
  <1>5. CASE Pass
    <2>1. PICK named \in SUBSET Files :
            plan' = [plan EXCEPT !.validated = Listed(named), !.passed = TRUE, !.result = "PASS",
                                 !.phase = "VALIDATE", !.pending = NoEdit, !.before = <<>>,
                                 !.sets = @ \cup ({plan.pending} \ {NoEdit})]
      BY <1>5 DEF Pass
    <2>2. Listed(named) \in SUBSET Paths
      BY DEF Listed, Paths, TypeInv
    <2>3. plan' \in Plans
      BY <1>1, <1>4, <2>1, <2>2 DEF Plans, Verdicts, Phases, Edits
    <2>4. After([loop EXCEPT !.gates = @ + 1, !.fresh = TRUE, !.terminal = TRUE])
      BY <1>5 DEF Pass
    <2>5. loop' \in LoopStates
      BY <1>1, <2>4, LoopTypes DEF After
    <2>. QED  BY <1>5, <2>3, <2>5 DEF Pass, Kept, TypeInv
  <1>6. \A status \in Verdicts : Judgement(status) \in Plans
    BY <1>1 DEF Judgement, Plans
  <1>7. Judgement("CODE_FAILURE") \in Plans
    BY <1>6 DEF Verdicts
  <1>8. CASE CodeFailure
    <2>1. Reopened \in Plans
      BY <1>4, <1>7 DEF Reopened, Plans, Phases, Edits
    <2>2. plan' \in Plans /\ loop' \in LoopStates
      BY <1>1, <1>8, <2>1, LoopTypes DEF CodeFailure, After
    <2>. QED  BY <1>8, <2>2, UnjudgedType, RestoredType DEF CodeFailure, Kept, TypeInv
  <1>9. CASE RevertFails
    <2>1. PICK dead \in BOOLEAN, left \in SUBSET DOMAIN Unjudged :
            /\ ws' = [f \in Paths |-> IF f \in left THEN ws[f] ELSE Restored(ws, Unjudged)[f]]
            /\ touched' = (touched \ DOMAIN Unjudged) \cup left
            /\ plan' = [Judgement("CODE_FAILURE") EXCEPT !.stuck = left]
            /\ After(Limited(Failed(loop), dead))
            /\ alive' = ~dead /\ faults' = faults + 1
            /\ Kept
      BY <1>9 DEF RevertFails
    <2>2. ws' \in [Paths -> Texts]
      BY <2>1, UnjudgedType, RestoredType DEF TypeInv
    <2>3. touched' \subseteq Paths /\ left \subseteq Paths
      BY <2>1, UnjudgedType DEF TypeInv
    <2>4. plan' \in Plans
      BY <1>7, <2>1, <2>3 DEF Plans
    <2>5. loop' \in LoopStates
      BY <1>1, <2>1, LoopTypes DEF After
    <2>6. alive' \in BOOLEAN /\ faults' \in Nat
      BY <2>1 DEF TypeInv
    <2>. QED  BY <2>1, <2>2, <2>3, <2>4, <2>5, <2>6 DEF Kept, TypeInv
  <1>10. CASE InfraFailure \/ Blocked
    <2>1. plan' \in Plans
      BY <1>6, <1>10 DEF InfraFailure, Blocked, Verdicts
    <2>2. loop' \in LoopStates
      BY <1>1, <1>10, LoopTypes DEF InfraFailure, Blocked, After
    <2>3. PICK dead \in BOOLEAN : alive' = ~dead /\ faults' = faults + (IF dead THEN 1 ELSE 0)
      BY <1>10 DEF InfraFailure, Blocked
    <2>4. alive' \in BOOLEAN
      BY <2>3
    <2>5. faults' \in Nat
      BY <2>3 DEF TypeInv
    <2>. QED  BY <1>10, <2>1, <2>2, <2>4, <2>5 DEF InfraFailure, Blocked, Kept, TypeInv
  <1>. QED  BY <1>2, <1>3, <1>5, <1>8, <1>9, <1>10

-----------------------------------------------------------------------------
(* A pass stands until it is handed over. *)

LEMMA PassStep == ASSUME WorkerInv, TypeInv', [Next]_vars PROVE PassStands' /\ HandsOverWhatPassed'
  <1>. plan \in Plans /\ loop \in LoopStates
    BY DEF WorkerInv, TypeInv
  <1>. PassStands /\ HandsOverWhatPassed
    BY DEF WorkerInv
  <1>. USE DEF PassStands, Counts, Gone, HandsOverWhatPassed
  <1>1. CASE Replay \/ ReplayMismatch
    BY <1>1 DEF Replay, ReplayMismatch
  <1>2. CASE Answer \/ Stop
    <2>1. pc = "turn" /\ pc' = "settle" /\ UNCHANGED <<ws, plan, loop, out, judged>>
      BY <1>2 DEF Answer, Stop, Ended
    <2>2. plan.passed /\ loop.fresh => judged = ws /\ (plan.stage => Gone)
      BY <2>1
    <2>. QED  BY <2>1, <2>2
  <1>3. CASE Exhausted \/ Terminal
    <2>1. pc = "turn" /\ pc' = "settle" /\ loop'.fresh = loop.fresh /\ UNCHANGED <<ws, plan, out, judged>>
      BY <1>3 DEF Exhausted, Terminal, Ended, LoopStates
    <2>2. plan.passed /\ loop.fresh => judged = ws /\ (plan.stage => Gone)
      BY <2>1
    <2>. QED  BY <2>1, <2>2
  <1>4. CASE NextTurn
    <2>1. plan'.passed = plan.passed /\ plan'.stage = plan.stage /\ loop'.fresh = loop.fresh
      BY <1>4 DEF NextTurn, Plans, LoopStates
    <2>. QED  BY <1>4, <2>1 DEF NextTurn
  <1>5. CASE StopBlocked
    <2>1. loop'.stop = "blocked" /\ pc = "turn" /\ pc' = "settle" /\ out' = out
      BY <1>5 DEF StopBlocked, Ended, LoopStates
    <2>2. ~Counts'
      BY <2>1
    <2>. QED  BY <2>1, <2>2
  <1>6. CASE Success
    BY <1>6 DEF Success, Succeeded, GatePassed
  <1>7. CASE Failure \/ Finished \/ UNCHANGED vars
    BY <1>7 DEF Failure, Finished, vars
  <1>8. CASE Read \/ RecordPlan \/ RemovalFails
    <2>1. plan'.passed = plan.passed /\ plan'.stage = plan.stage
      BY <1>8 DEF Read, RecordPlan, RemovalFails, Plans
    <2>2. loop'.fresh = loop.fresh
      BY <1>8 DEF Read, RecordPlan, RemovalFails, After, LoopStates
    <2>. QED  BY <1>8, <2>1, <2>2 DEF Read, RecordPlan, RemovalFails, Calling, Kept
  <1>9. CASE Refused \/ Invalid \/ Incomplete
    <2>1. loop'.fresh = loop.fresh
      BY <1>9 DEF Refused, Invalid, Incomplete, After, Limited, Failed, Stopping, LoopStates
    <2>. QED  BY <1>9, <2>1 DEF Refused, Invalid, Incomplete, Calling, Kept
  <1>10. CASE EditApplied \/ RevertFile
    <2>1. loop'.fresh = FALSE
      BY <1>10 DEF EditApplied, RevertFile, After, LoopStates
    <2>. QED  BY <1>10, <2>1 DEF EditApplied, RevertFile, MayEdit, Calling, Kept
  <1>11. CASE EditUnparsable
    <2>1. plan'.passed = FALSE
      BY <1>11 DEF EditUnparsable, Plans
    <2>. QED  BY <1>11, <2>1 DEF EditUnparsable, MayEdit, Calling, Kept
  <1>12. CASE EditUnwritable
    <2>1. PICK left \in SUBSET plan.files :
            /\ ws' = [f \in Paths |-> IF f \in left THEN Applied[f] ELSE ws[f]]
            /\ plan' = [plan EXCEPT !.first = Remembered(plan.files), !.stuck = @ \cup left,
                                    !.passed = @ /\ left = {}]
      BY <1>12 DEF EditUnwritable
    <2>2. plan'.passed = (plan.passed /\ left = {}) /\ plan'.stage = plan.stage
      BY <2>1 DEF Plans
    <2>3. loop'.fresh = loop.fresh
      BY <1>12 DEF EditUnwritable, After, LoopStates
    <2>4. left = {} => ws' = ws
      BY <2>1 DEF WorkerInv, TypeInv
    <2>. QED  BY <1>12, <2>2, <2>3, <2>4 DEF EditUnwritable, MayEdit, Calling, Kept
  <1>13. CASE Removal
    <2>1. plan'.passed = plan.passed /\ plan'.stage = plan.stage
      BY <1>13 DEF Removal, Plans
    <2>2. loop'.fresh = loop.fresh
      BY <1>13 DEF Removal, After, LoopStates
    <2>. QED  BY <1>13, <2>1, <2>2 DEF Removal, Calling, Kept
  <1>14. CASE Pass
    <2>1. plan'.stage = plan.stage
      BY <1>14 DEF Pass, Plans
    <2>. QED  BY <1>14, <2>1 DEF Pass, Judging, Calling, Lacking, Kept
  <1>15. CASE CodeFailure \/ RevertFails \/ InfraFailure \/ Blocked
    <2>1. plan'.passed = FALSE
      BY <1>15 DEF CodeFailure, RevertFails, InfraFailure, Blocked, Reopened, Judgement, Plans
    <2>. QED  BY <1>15, <2>1 DEF CodeFailure, RevertFails, InfraFailure, Blocked, Judging, Calling, Kept
  <1>. QED  BY <1>1, <1>2, <1>3, <1>4, <1>5, <1>6, <1>7, <1>8, <1>9, <1>10, <1>11, <1>12, <1>13, <1>14,
               <1>15 DEF Next

\* A successful attempt hands over exactly the workspace its last passing gate saw: no call of the same
\* or a later turn, no stop and no rollback changed it (the loop of subagent_runtime.py and the success
\* contract of workaround_subagent.py).
THEOREM HandoverPassed == Spec => []HandsOverWhatPassed
  <1>1. Init => WorkerInv
    <2>1. \A removal \in BOOLEAN : FirstPlan(removal).passed = FALSE
      BY DEF FirstPlan
    <2>. QED  BY <2>1, TypesAtInit DEF WorkerInv, Init, PassStands, HandsOverWhatPassed
  <1>2. WorkerInv /\ [Next]_vars => WorkerInv'
    BY TypesAroundLoop, TypesOfEdits, TypesOfGates, PassStep DEF WorkerInv, Next, Finished
  <1>3. WorkerInv => HandsOverWhatPassed
    BY DEF WorkerInv
  <1>. QED  BY <1>1, <1>2, <1>3, PTL DEF Spec
=============================================================================
