------------------------- MODULE TaskBatches_proofs -------------------------
(***************************************************************************)
(* One batch is in flight at a time: from its dispatch until it is settled  *)
(* the open attempts are those of one dispatch, and they are answered,      *)
(* judged and closed together.  The invariant holds as long as no dispatch  *)
(* is abandoned and every dispatch opens whole; what the passes promise of  *)
(* queues, charges, bounds and ends follows from it.                        *)
(***************************************************************************)
EXTENDS TaskLifecycle_proofs

-----------------------------------------------------------------------------
(* The queue with one batch in flight. *)

Opened(f) == {t \in Tasks : IsOpen(f, t)}

\* The open attempts share one batch, which is all of them, and only updates share one;
\* who has ended, or is not created, has no attempt; who waits for QA has one.
OneBatch(f) ==
  /\ \A t \in Opened(f) : f[t].status \notin Terminal \cup {"unspawned"}
  /\ \A t \in Tasks \ Opened(f) : f[t].attempt = NoAttempt
  /\ \A t \in Opened(f) : f[t].attempt.batch = Opened(f)
  /\ \A t, u \in Opened(f) : t # u => t \in Updates
  /\ Ready(f) \subseteq Opened(f)

\* The retries of a task, and of a package without a fix with its stage; who has to be
\* retried was charged.
CountedOne(f, t) ==
  /\ f[t].status = "needs_retry" => f[t].retries > 0
  /\ IF t \in NoFixes
     THEN \/ f[t].stage = "package_removal" /\ f[t].retries = 0
          \/ f[t].stage = "code_removal" /\ f[t].retries = 1
          \/ f[t].stage = "unfixable" /\ f[t].status = "unfixable" /\ f[t].retries = 2
     ELSE /\ f[t].stage = "none" /\ f[t].retries <= MaxRetries
          /\ f[t].status = "pending" \/ IsOpen(f, t) => f[t].retries < MaxRetries
          /\ f[t].status = "unspawned" => f[t].retries = 0
Counted(f) == \A t \in Tasks : CountedOne(f, t) /\ f[t].attempt.runs <= MaxReruns + 1

Tidy(f) == f \in Queues /\ OneBatch(f) /\ Counted(f)

\* The batch in flight, if any, was built by its worker and waits for QA.
Waiting(f) ==
  /\ Ready(f) = Opened(f)
  /\ \A t \in Opened(f) : f[t].attempt.answer = "success" /\ f[t].attempt.heard

\* The retry cap leaves no failed task that is neither to be retried nor to be handed over.
CapHolds(f) ==
  \A t \in Tasks \ NoFixes : f[t].status = "needs_retry" /\ f[t].retries >= MaxRetries => MustPivot(f, t)

\* What the stages of a pass after the first may do to a task: they leave the batch in
\* flight alone, and charge nothing.
Calm(r, s) ==
  /\ s.retries = r.retries /\ s.stage = r.stage /\ s.attempt = r.attempt
  /\ r.attempt.batch # {} => s = r
  /\ s.status = r.status \/ (r.status \in Workable /\ s.status \in Terminal)
  /\ s.status = "needs_retry" /\ r.exhausted => s.exhausted
QueueCalm(f, g) == g \in Queues /\ \A t \in Tasks : Calm(f[t], g[t])

LEMMA CalmRefl ==
  ASSUME NEW f \in Queues
  PROVE  QueueCalm(f, f)
  BY DEF QueueCalm, Calm

LEMMA CalmTrans ==
  ASSUME NEW f, NEW g, NEW h, QueueCalm(f, g), QueueCalm(g, h)
  PROVE  QueueCalm(f, h)
<1>1. ASSUME NEW t \in Tasks
      PROVE  Calm(f[t], h[t])
  <2>1. Calm(f[t], g[t]) /\ Calm(g[t], h[t])
    BY DEF QueueCalm
  <2> QED
    BY <2>1 DEF Calm, Workable, Terminal
<1> QED
  BY <1>1 DEF QueueCalm

LEMMA CalmKeeps ==
  ASSUME NEW f, NEW g, Tidy(f), QueueCalm(f, g)
  PROVE  /\ Tidy(g) /\ Opened(g) = Opened(f) /\ Ready(g) = Ready(f)
         /\ \A t \in Opened(f) : g[t] = f[t]
         /\ Waiting(f) => Waiting(g)
         /\ CapHolds(f) => CapHolds(g)
<1>1. ASSUME NEW t \in Tasks
      PROVE  Calm(f[t], g[t])
  BY DEF QueueCalm
<1>2. Opened(g) = Opened(f) /\ \A t \in Tasks : IsOpen(g, t) <=> IsOpen(f, t)
  BY <1>1 DEF Opened, IsOpen, Calm
<1>3. Ready(g) = Ready(f)
  BY <1>1 DEF Ready, Calm, Workable, Terminal
<1>4. \A t \in Opened(f) : g[t] = f[t]
  BY <1>1 DEF Opened, IsOpen, Calm
<1>5. OneBatch(g)
  <2>1. \A t \in Tasks : g[t].attempt = f[t].attempt
    BY <1>1 DEF Calm
  <2> QED
    BY <1>2, <1>3, <1>4, <2>1 DEF Tidy, OneBatch
<1>6. Counted(g)
  <2> SUFFICES ASSUME NEW t \in Tasks PROVE CountedOne(g, t) /\ g[t].attempt.runs <= MaxReruns + 1
    BY DEF Counted
  <2>1. Calm(f[t], g[t]) /\ CountedOne(f, t) /\ f[t].attempt.runs <= MaxReruns + 1
    BY <1>1 DEF Tidy, Counted
  <2> QED
    BY <1>2, <2>1 DEF CountedOne, Calm, Workable, Terminal
<1>7. Waiting(f) => Waiting(g)
  BY <1>2, <1>3, <1>4 DEF Waiting
<1>8. CapHolds(f) => CapHolds(g)
  <2> SUFFICES ASSUME CapHolds(f), NEW t \in Tasks \ NoFixes, g[t].status = "needs_retry", g[t].retries >= MaxRetries
               PROVE  MustPivot(g, t)
    BY DEF CapHolds
  <2>1. f[t].status = "needs_retry" /\ f[t].retries = g[t].retries
    BY <1>1 DEF Calm, Terminal
  <2>2. MustPivot(f, t)
    BY <2>1 DEF CapHolds
  <2> QED
    BY <1>1, <2>2 DEF MustPivot, Calm
<1> QED
  BY <1>2, <1>3, <1>4, <1>5, <1>6, <1>7, <1>8 DEF Tidy, QueueCalm

\* Tasks without an attempt are committed, with what a plan or an end changes of them.
LEMMA CommittedCalm ==
  ASSUME NEW f, Tidy(f), NEW S, NEW h, NEW g,
         g = [t \in Tasks |-> IF t \in S THEN Commit(f[t], h[t]) ELSE f[t]],
         \A t \in S \cap Tasks :
           /\ h[t] \in Records /\ f[t].status \in Workable /\ ~IsOpen(f, t)
           /\ h[t].retries = f[t].retries /\ h[t].stage = f[t].stage /\ h[t].attempt = f[t].attempt
           /\ h[t].status = f[t].status \/ h[t].status \in Terminal
           /\ h[t].status = "needs_retry" /\ f[t].exhausted => h[t].exhausted
  PROVE  QueueCalm(f, g)
<1>1. ASSUME NEW t \in Tasks
      PROVE  g[t] \in Records /\ Calm(f[t], g[t])
  <2>1. f[t] \in Records
    BY DEF Tidy, Queues
  <2>2. CASE t \notin S
    BY <2>1, <2>2 DEF Calm
  <2>3. CASE t \in S
    <3>1. f[t].attempt = NoAttempt /\ f[t].attempt.batch = {}
      BY <2>3 DEF Tidy, OneBatch, Opened, IsOpen
    <3>2. h[t] \in Records
      BY <2>3
    <3>3. /\ Drop(h[t]) \in Records /\ Drop(h[t]).status = h[t].status /\ Drop(h[t]).attempt = NoAttempt
          /\ Drop(h[t]).retries = h[t].retries /\ Drop(h[t]).stage = h[t].stage
          /\ Drop(h[t]).exhausted = h[t].exhausted
      BY <3>2, DropType DEF Drop, Records
    <3>4. g[t] \in {f[t], h[t], Drop(h[t])}
      BY <2>3 DEF Commit
    <3> QED
      BY <2>1, <2>3, <3>1, <3>2, <3>3, <3>4 DEF Calm
  <2> QED
    BY <2>2, <2>3
<1>2. g \in Queues
  BY <1>1 DEF Queues
<1> QED
  BY <1>1, <1>2 DEF QueueCalm

LEMMA ReplannedCalm ==
  ASSUME NEW t \in Updates, NEW r \in Records
  PROVE  /\ Replanned(t, r).retries = r.retries /\ Replanned(t, r).stage = r.stage
         /\ Replanned(t, r).exhausted <=> Replanned(t, r).selected = 0
<1> DEFINE untried == (1..Versions[t]) \ r.tried
           next == CASE r.selected \in untried -> r.selected
                     [] untried = {} -> 0
                     [] OTHER -> CHOOSE v \in untried : \A w \in untried : v <= w
<1>1. Replanned(t, r) = [r EXCEPT !.selected = next, !.exhausted = next = 0]
  BY DEF Replanned
<1> HIDE DEF next
<1> QED
  BY <1>1 DEF Records

\* A task that waits for QA is not planned again: only failed ones are.
LEMMA PlannedCalm ==
  ASSUME NEW f, Tidy(f), Ready(f) = Opened(f), NEW S
  PROVE  /\ QueueCalm(f, Planned(f, S))
         /\ \A t \in Tasks :
              \/ Planned(f, S)[t] = f[t]
              \/ Planned(f, S)[t].exhausted <=> Planned(f, S)[t].selected = 0
<1> DEFINE R == {t \in S \cap Updates : f[t].status = "needs_retry" /\ ~MustPivot(f, t)}
           h == [t \in Tasks |-> Replanned(t, f[t])]
<1>1. \A t \in Tasks : f[t] \in Records
  BY DEF Tidy, Queues
<1>2. ASSUME NEW t \in R \cap Tasks
      PROVE  /\ h[t] \in Records /\ f[t].status \in Workable /\ ~IsOpen(f, t)
             /\ h[t].retries = f[t].retries /\ h[t].stage = f[t].stage /\ h[t].attempt = f[t].attempt
             /\ h[t].status = f[t].status /\ f[t].status = "needs_retry" /\ ~f[t].exhausted
             /\ h[t].exhausted <=> h[t].selected = 0
  <2>1. ~IsOpen(f, t)
    BY DEF Ready, Opened
  <2> QED
    BY <1>1, <2>1, ReplannedType, ReplannedCalm DEF Workable, MustPivot
<1>3. Planned(f, S) = [t \in Tasks |-> IF t \in R THEN Commit(f[t], h[t]) ELSE f[t]]
  BY DEF Planned, Committed
<1>4. \A t \in R \cap Tasks : Commit(f[t], h[t]) = h[t]
  BY <1>2 DEF Commit, Terminal
<1> HIDE DEF h, R
<1>5. QueueCalm(f, Planned(f, S))
  BY <1>2, <1>3, CommittedCalm
<1> QED
  BY <1>2, <1>3, <1>4, <1>5

LEMMA AtLastStageCalm ==
  ASSUME NEW f, Tidy(task), QueueCalm(task, f)
  PROVE  QueueCalm(f, AtLastStage(f))
<1>1. ASSUME NEW t \in Tasks
      PROVE  AtLastStage(f)[t] \in Records /\ Calm(f[t], AtLastStage(f)[t])
  <2>1. f[t] \in Records /\ Calm(task[t], f[t])
    BY DEF QueueCalm, Queues
  <2>2. CASE t \in Exhausted(f)
    <3>1. f[t] # task[t] /\ AtLastStage(f)[t] = [f[t] EXCEPT !.latest = TRUE]
      BY <2>2 DEF Exhausted, AtLastStage
    <3>2. f[t].attempt.batch = {}
      BY <2>1, <3>1 DEF Calm
    <3> QED
      BY <2>1, <3>1, <3>2 DEF Calm, Records
  <2>3. CASE t \notin Exhausted(f)
    BY <2>1, <2>3 DEF AtLastStage, Calm
  <2> QED
    BY <2>2, <2>3
<1>2. AtLastStage(f) \in Queues
  BY <1>1 DEF AtLastStage, Queues
<1> QED
  BY <1>1, <1>2 DEF QueueCalm

LEMMA EndCalm ==
  ASSUME NEW f, Tidy(f), NEW S, NEW s \in Terminal \ {"pivoted"},
         \A t \in S \cap Tasks : f[t].status \in Workable /\ ~IsOpen(f, t)
  PROVE  QueueCalm(f, SetStatus(f, S, s))
<1> DEFINE h == [t \in Tasks |-> [f[t] EXCEPT !.status = s]]
<1>1. SetStatus(f, S, s) = [t \in Tasks |-> IF t \in S THEN Commit(f[t], h[t]) ELSE f[t]]
  BY DEF SetStatus, Committed
<1>2. ASSUME NEW t \in S \cap Tasks
      PROVE  /\ h[t] \in Records /\ h[t].retries = f[t].retries /\ h[t].stage = f[t].stage
             /\ h[t].attempt = f[t].attempt /\ h[t].status = s
  <2>1. f[t] \in Records /\ s \in Statuses
    BY DEF Tidy, Queues, Statuses
  <2> QED
    BY <2>1 DEF Records
<1> HIDE DEF h
<1> QED
  BY <1>1, <1>2, CommittedCalm DEF Terminal

LEMMA PivotedCalm ==
  ASSUME NEW f, Tidy(f), NEW e, NEW S \in SUBSET Updates,
         \A t \in S : f[t].status \in Workable /\ ~IsOpen(f, t)
  PROVE  QueueCalm(f, Pivoted(f, e, S))
<1>1. ASSUME NEW t \in Tasks
      PROVE  Calm(f[t], Pivoted(f, e, S)[t])
  <2>1. f[t] \in Records
    BY DEF Tidy, Queues
  <2>2. CASE t \in S
    <3>1. f[t].attempt = NoAttempt /\ f[t].attempt.batch = {}
      BY <2>2 DEF Tidy, OneBatch, Opened, IsOpen
    <3> DEFINE s == PivotStatus(e, t)
               n == [f[t] EXCEPT !.status = s, !.exhausted = TRUE, !.latest = TRUE]
    <3>2. s \in Terminal
      BY DEF PivotStatus, Terminal
    <3>3. Pivoted(f, e, S)[t] = Drop(n)
      BY <2>2 DEF Pivoted
    <3> HIDE DEF s
    <3>4. /\ Drop(n).retries = f[t].retries /\ Drop(n).stage = f[t].stage /\ Drop(n).attempt = NoAttempt
          /\ Drop(n).status = s /\ Drop(n).exhausted
      BY <2>1 DEF Drop, Records
    <3> HIDE DEF n
    <3> QED
      BY <2>2, <3>1, <3>2, <3>3, <3>4 DEF Calm
  <2>3. CASE t \notin S
    BY <2>3 DEF Pivoted, Calm
  <2> QED
    BY <2>2, <2>3
<1>2. Pivoted(f, e, S) \in Queues
  BY PivotedEnd DEF Tidy
<1> QED
  BY <1>1, <1>2 DEF QueueCalm

\* Only tasks without an attempt are authorised again; an update that passes the last
\* authorisation has a version, and is not to be handed over if it was not before.
LEMMA ReauthorisedCalm ==
  ASSUME NEW f, Tidy(f), Ready(f) = Opened(f), NEW S, S \subseteq Dispatchable(f)
  PROVE  /\ QueueCalm(f, Reauthorised(f, S))
         /\ \A t \in Updates :
              Authorised(Reauthorised(f, S), t) /\ MustPivot(Reauthorised(f, S), t) => MustPivot(f, t)
<1> DEFINE plans == Planned(f, {t \in S : ~Authorised(f, t)})
           better == [t \in Tasks |-> IF plans[t].exhausted /\ ~plans[t].latest THEN f[t] ELSE plans[t]]
           lost == {t \in S : ~Authorised(better, t) /\ ~better[t].exhausted}
           g == SetStatus(better, lost, "inconclusive")
<1>1. Reauthorised(f, S) = g
  BY DEF Reauthorised
<1>2. /\ QueueCalm(f, plans)
      /\ \A t \in Tasks : plans[t] = f[t] \/ (plans[t].exhausted <=> plans[t].selected = 0)
      /\ \A t \in Tasks : plans[t].status = f[t].status
  BY PlannedCalm, PlannedFollows DEF Tidy
<1> HIDE DEF plans
<1>3. \A t \in Tasks : better[t] \in {f[t], plans[t]} /\ better[t].status = f[t].status
  <2>1. \A t \in Tasks : better[t] \in {f[t], plans[t]}
    OBVIOUS
  <2>2. \A t \in Tasks : plans[t].status = f[t].status
    BY <1>2
  <2> HIDE DEF better
  <2>3. ASSUME NEW t \in Tasks PROVE better[t].status = f[t].status
    <3>1. better[t] = f[t] \/ better[t] = plans[t]
      BY <2>1
    <3> QED
      BY <2>2, <3>1
  <2> QED
    BY <2>1, <2>3
<1>4. QueueCalm(f, better)
  <2>1. ASSUME NEW t \in Tasks
        PROVE  better[t] \in Records /\ Calm(f[t], better[t])
    <3>1. f[t] \in Records /\ plans[t] \in Records /\ Calm(f[t], plans[t])
      BY <1>2 DEF Tidy, Queues, QueueCalm
    <3>2. Calm(f[t], f[t])
      BY DEF Calm
    <3> HIDE DEF better
    <3> QED
      BY <1>3, <3>1, <3>2
  <2>2. better \in Queues
    BY <2>1 DEF Queues
  <2> HIDE DEF better
  <2> QED
    BY <2>1, <2>2 DEF QueueCalm
<1> HIDE DEF better
<1>5. Tidy(better) /\ Opened(better) = Opened(f)
  BY <1>4, CalmKeeps
<1>6. QueueCalm(better, g)
  <2>1. \A t \in lost \cap Tasks : better[t].status \in Workable /\ ~IsOpen(better, t)
    BY <1>3, <1>5 DEF Dispatchable, Work, Opened
  <2> HIDE DEF lost
  <2> QED
    BY <1>5, <2>1, EndCalm DEF Terminal
<1>7. ASSUME NEW t \in Updates, Authorised(g, t), MustPivot(g, t)
      PROVE  MustPivot(f, t)
  <2>1. t \in Tasks /\ better[t] \in Records
    BY <1>5, UpdatesAreTasks DEF Tidy, Queues
  <2> DEFINE n == [better[t] EXCEPT !.status = "inconclusive"]
  <2>2. g[t] = IF t \in lost THEN Commit(better[t], n) ELSE better[t]
    BY <2>1 DEF SetStatus, Committed
  <2>3. g[t].selected # 0
    BY <1>7 DEF Authorised
  <2>4. g[t] = better[t]
    <3>1. n \in Records /\ n.status = "inconclusive"
      BY <2>1 DEF Records, Statuses, Terminal
    <3> HIDE DEF n
    <3> QED
      BY <2>2, <2>3, <3>1, DropType DEF Commit, Terminal
  <2> QED
    BY <1>2, <1>3, <1>7, <2>1, <2>3, <2>4 DEF MustPivot
<1> QED
  BY <1>1, <1>4, <1>6, <1>7, CalmTrans

-----------------------------------------------------------------------------
(* What is not calm: a child is created, and everything in flight is ended. *)

LEMMA SpawnedTidy ==
  ASSUME NEW f, Tidy(f), NEW S \in SUBSET Updates, NEW g, g = Spawned(f, S)
  PROVE  /\ Tidy(g) /\ Opened(g) = Opened(f) /\ Ready(g) = Ready(f)
         /\ \A t \in Opened(f) : g[t] = f[t]
         /\ Waiting(f) => Waiting(g)
         /\ CapHolds(f) => CapHolds(g)
         /\ \A t \in Tasks : /\ g[t].retries = f[t].retries
                             /\ g[t].attempt = f[t].attempt
                             /\ g[t] = f[t] \/ (g[t].status = "pending" /\ t \notin Updates)
<1>1. g \in Queues
  BY SpawnedChildren DEF Tidy
<1>2. ASSUME NEW t \in Tasks
      PROVE  \/ g[t] = f[t]
             \/ /\ t \in Children /\ f[t].status = "unspawned"
                /\ g[t].status = "pending" /\ g[t].stage = "none" /\ g[t].retries = 0
                /\ g[t].attempt = NoAttempt
  <2>1. \/ g[t] = f[t]
        \/ (\E u \in S : t = Child[u]) /\ f[t].status = "unspawned"
    BY SpawnedChildren DEF Tidy
  <2>2. g[t] \in {f[t], NewTask("pending", "none")}
    BY DEF Spawned
  <2> QED
    BY <2>1, <2>2 DEF Children, NewTask
<1>3. MaxRetries \in Nat \ {0} /\ Children \cap NoFixes = {} /\ Children \cap Updates = {}
  BY TaskAssumption
<1>4. \A t \in Tasks : f[t].status = "unspawned" => f[t].attempt = NoAttempt
  BY DEF Tidy, OneBatch
<1>5. /\ Opened(g) = Opened(f) /\ \A t \in Tasks : IsOpen(g, t) <=> IsOpen(f, t)
      /\ \A t \in Tasks : g[t].attempt = f[t].attempt
  BY <1>2, <1>4 DEF Opened, IsOpen
<1>6. Ready(g) = Ready(f) /\ \A t \in Opened(f) : g[t] = f[t]
  <2>1. \A t \in Opened(f) : g[t] = f[t]
    BY <1>2 DEF Opened, Tidy, OneBatch
  <2>2. \A t \in Tasks : g[t].status = "optimistically_fixed" <=> f[t].status = "optimistically_fixed"
    BY <1>2
  <2> QED
    BY <2>1, <2>2 DEF Ready
<1>7. \A t \in Tasks : g[t].retries = f[t].retries
  <2>1. \A t \in Children : t \in Tasks /\ f[t].status = "unspawned" => f[t].retries = 0
    BY <1>3 DEF Tidy, Counted, CountedOne, Tasks, Sca
  <2> QED
    BY <1>2, <2>1
<1>8. OneBatch(g)
  BY <1>5, <1>6 DEF Tidy, OneBatch
<1>9. Counted(g)
  <2> SUFFICES ASSUME NEW t \in Tasks PROVE CountedOne(g, t) /\ g[t].attempt.runs <= MaxReruns + 1
    BY DEF Counted
  <2>1. CountedOne(f, t) /\ f[t].attempt.runs <= MaxReruns + 1
    BY DEF Tidy, Counted
  <2>2. CASE g[t] = f[t]
    BY <2>1, <2>2 DEF CountedOne, IsOpen
  <2>3. CASE g[t] # f[t]
    <3>1. /\ t \in Children /\ f[t].status = "unspawned" /\ g[t].status = "pending"
          /\ g[t].stage = "none" /\ g[t].retries = 0 /\ g[t].attempt = f[t].attempt
      BY <1>2, <1>5, <2>3
    <3> QED
      BY <1>3, <2>1, <3>1 DEF CountedOne
  <2> QED
    BY <2>2, <2>3
<1>10. Waiting(f) => Waiting(g)
  BY <1>5, <1>6 DEF Waiting
<1>11. CapHolds(f) => CapHolds(g)
  BY <1>2 DEF CapHolds, MustPivot
<1>12. \A t \in Tasks : g[t] = f[t] \/ (g[t].status = "pending" /\ t \notin Updates)
  BY <1>2, <1>3
<1>13. Tidy(g)
  BY <1>1, <1>8, <1>9 DEF Tidy
<1> QED
  BY <1>5, <1>6, <1>7, <1>10, <1>11, <1>12, <1>13

\* The batch in flight is given up, with others or alone.
LEMMA EndAll ==
  ASSUME NEW f, Tidy(f), NEW S, Opened(f) \subseteq S, S \subseteq Live(f),
         NEW s \in {"unfixable", "inconclusive"}, NEW g, g = SetStatus(f, S, s)
  PROVE  /\ Tidy(g) /\ Opened(g) = {} /\ Ready(g) = {}
         /\ CapHolds(f) => CapHolds(g)
         /\ \A t \in Tasks : /\ g[t].retries = f[t].retries
                             /\ t \notin S => g[t] = f[t]
                             /\ g[t].status \in {f[t].status, s}
                             /\ t \in S => g[t].status = s
<1> DEFINE n(t) == [f[t] EXCEPT !.status = s]
<1>1. g \in Queues
  BY SetStatusFollows DEF QueueFollows, Tidy, Statuses, Terminal
<1>2. ASSUME NEW t \in Tasks
      PROVE  \/ t \notin S /\ g[t] = f[t]
             \/ /\ t \in S /\ g[t].status = s /\ g[t].attempt = NoAttempt
                /\ g[t].retries = f[t].retries /\ g[t].stage = f[t].stage
  <2>1. g[t] = IF t \in S THEN Commit(f[t], n(t)) ELSE f[t]
    BY DEF SetStatus, Committed
  <2>2. CASE t \in S
    <3>1. f[t] \in Records /\ f[t].status \in Workable \cup {"optimistically_fixed"}
      BY <2>2 DEF Tidy, Queues, Live, Queue, Records, Statuses
    <3>2. /\ n(t) \in Records /\ n(t).status = s /\ n(t).retries = f[t].retries /\ n(t).stage = f[t].stage
          /\ s \in Terminal
      BY <3>1 DEF Records, Statuses, Terminal
    <3>3. <<f[t].status, s>> \in Permitted
      BY <3>1 DEF Permitted, Workable
    <3> HIDE DEF n
    <3>4. g[t] = Drop(n(t))
      BY <2>1, <2>2, <3>2, <3>3 DEF Commit
    <3> QED
      BY <2>2, <3>2, <3>4 DEF Drop, Records
  <2> QED
    BY <2>1, <2>2
<1>3. Opened(g) = {} /\ \A t \in Tasks : g[t].attempt = NoAttempt
  <2>1. ASSUME NEW t \in Tasks PROVE g[t].attempt = NoAttempt
    BY <1>2 DEF Tidy, OneBatch
  <2> QED
    BY <2>1 DEF Opened, IsOpen, NoAttempt
<1>4. Ready(g) = {}
  BY <1>2 DEF Ready, Tidy, OneBatch
<1>5. OneBatch(g)
  BY <1>3, <1>4 DEF OneBatch
<1>6. Counted(g)
  <2> SUFFICES ASSUME NEW t \in Tasks PROVE CountedOne(g, t) /\ g[t].attempt.runs <= MaxReruns + 1
    BY DEF Counted
  <2>1. CountedOne(f, t) /\ f[t].attempt.runs <= MaxReruns + 1
    BY DEF Tidy, Counted
  <2>2. g[t].attempt.runs <= MaxReruns + 1
    BY <1>3, BoundAssumption DEF NoAttempt
  <2>3. ~IsOpen(g, t)
    BY <1>3 DEF Opened
  <2>4. CASE t \notin S
    BY <1>2, <2>1, <2>2, <2>3, <2>4 DEF CountedOne, IsOpen
  <2>5. CASE t \in S
    <3>1. f[t].status # "unfixable"
      BY <2>5 DEF Live, Terminal
    <3> QED
      BY <1>2, <2>1, <2>2, <2>3, <2>5, <3>1 DEF CountedOne
  <2> QED
    BY <2>4, <2>5
<1>7. CapHolds(f) => CapHolds(g)
  BY <1>2 DEF CapHolds, MustPivot
<1> QED
  BY <1>1, <1>2, <1>3, <1>4, <1>5, <1>6, <1>7 DEF Tidy

-----------------------------------------------------------------------------
(* The routing, once more: without a candidate there is nothing for QA, and a *)
(* workaround is sent alone.                                                 *)

Modest(f, d) ==
  /\ Ready(f) = {} => d.node # "qa"
  /\ d.node = "workaround" => \A x, y \in d.targets : x = y

LEMMA EmptyModest ==
  ASSUME NEW f
  PROVE  Modest(f, NoDecision) /\ Modest(f, TearDown)
  BY DEF Modest, NoDecision, TearDown, Decision

LEMMA OtherModest ==
  ASSUME NEW f, NEW S, NEW c, NEW P, NEW node \in {"update", "portfolio", "teardown"}
  PROVE  Modest(f, Decision(node, S, c, P))
  BY DEF Modest, Decision

LEMMA RunOneModest ==
  ASSUME NEW f, NEW S, NEW node \in {"update", "workaround"}
  PROVE  Modest(f, RunOne(f, node, S))
<1>1. Modest(f, Decision(node, {First(f, S)}, FALSE, {}))
  BY DEF Modest, Decision
<1> QED
  BY <1>1, EmptyModest DEF RunOne

LEMMA WhenModest ==
  ASSUME NEW f, NEW p, NEW d, p => Modest(f, d)
  PROVE  Modest(f, When(p, d))
  BY EmptyModest DEF When

LEMMA GivesWayModest ==
  ASSUME NEW f, NEW d, NEW e, Modest(f, d), Modest(f, e)
  PROVE  Modest(f, d ?? e)
  BY DEF ??

LEMMA HeadModest ==
  ASSUME NEW f
  PROVE  Modest(f, HeadRule(f, WorkHead(f)))
<1> DEFINE head == WorkHead(f)
<1>1. \/ HeadRule(f, head) \in {When(plan.members \cap Live(f) # {}, TearDown), TearDown, RunAll("update", head)}
      \/ HeadRule(f, head) = RunAll("workaround", head) /\ head # {} /\ ~(head \subseteq Updates)
  BY DEF HeadRule
<1>2. Modest(f, RunAll("update", head))
  BY EmptyModest, OtherModest DEF RunAll
<1>3. ASSUME head # {}, ~(head \subseteq Updates)
      PROVE  Modest(f, RunAll("workaround", head))
  <2>1. head \subseteq Tasks /\ Cardinality(head) = 1
    BY <1>3 DEF WorkHead, ReadyForWork, Work
  <2>2. PICK x : head = {x}
    <3> HIDE DEF head
    <3>1. IsFiniteSet(head)
      BY <2>1, TasksFinite, FS_Subset
    <3> QED
      BY <2>1, <3>1, FS_Singleton
  <2> HIDE DEF head
  <2>3. Modest(f, Decision("workaround", head, Cardinality(head) > 1, {}))
    BY <2>2 DEF Modest, Decision
  <2> QED
    BY <1>3, <2>3 DEF RunAll
<1> QED
  BY <1>1, <1>2, <1>3, EmptyModest, WhenModest

LEMMA RouteModest ==
  ASSUME NEW f
  PROVE  Modest(f, Route(f))
<1> DEFINE head == WorkHead(f)
           exhausted == {t \in Updates : MustPivot(f, t) /\ ~HasChild(f, t) /\ InTurn(t, head)}
           d1 == When(Live(f) = {}, TearDown)
           d2 == RunAll("qa", QaHead(f))
           d3 == When(QaFirst(f), QaOf(active \cap Ready(f)))
           d4 == When(HeadCluster(f) = {} /\ Ready(f) # {}, QaOf(Ready(f)))
           d5 == NoFixRule(f, head)
           d6 == RunOne(f, "update", {t \in head : MayReplay(f, t)})
           d7 == PivotRule(f, exhausted)
           d8 == ActiveRetryRule(f)
           d9 == HeadRule(f, head)
           d10 == UpdateRule(f, "needs_retry")
           d11 == UpdateRule(f, "pending")
           d12 == WorkaroundRule(f)
<1>1. Modest(f, d1)
  BY EmptyModest, WhenModest
<1>2. ASSUME NEW S, NEW c, Ready(f) # {}
      PROVE  Modest(f, Decision("qa", S, c, {}))
  BY <1>2 DEF Modest, Decision
<1>3. Modest(f, d2)
  <2>1. QaHead(f) # {} => Ready(f) # {}
    BY DEF QaHead, ReadyForQa
  <2> QED
    BY <1>2, <2>1, EmptyModest DEF RunAll
<1>4. Modest(f, d3) /\ Modest(f, d4)
  <2>1. QaFirst(f) => Ready(f) # {}
    BY DEF QaFirst
  <2> QED
    BY <1>2, <2>1, WhenModest DEF QaOf
<1>5. Modest(f, d5) /\ Modest(f, d6) /\ Modest(f, d10) /\ Modest(f, d11) /\ Modest(f, d12)
  BY RunOneModest DEF NoFixRule, UpdateRule, WorkaroundRule
<1>6. Modest(f, d7)
  <2>1. Modest(f, Decision("workaround", {First(f, exhausted)}, FALSE, exhausted))
    BY DEF Modest, Decision
  <2> HIDE DEF exhausted
  <2> QED
    BY <2>1, WhenModest DEF PivotRule
<1>7. Modest(f, d8)
  BY RunOneModest, WhenModest DEF ActiveRetryRule
<1>8. Modest(f, d9)
  BY HeadModest
<1>9. Route(f) = d1 ?? d2 ?? d3 ?? d4 ?? d5 ?? d6 ?? d7 ?? d8 ?? d9 ?? d10 ?? d11 ?? d12 ?? TearDown
  BY DEF Route, Rules
<1> HIDE DEF d1, d2, d3, d4, d5, d6, d7, d8, d9, d10, d11, d12
<1>10. Modest(f, d1 ?? d2 ?? d3 ?? d4 ?? d5 ?? d6)
  BY <1>1, <1>3, <1>4, <1>5, GivesWayModest
<1>11. Modest(f, d1 ?? d2 ?? d3 ?? d4 ?? d5 ?? d6 ?? d7 ?? d8 ?? d9 ?? d10 ?? d11 ?? d12)
  BY <1>5, <1>6, <1>7, <1>8, <1>10, GivesWayModest
<1> QED
  BY <1>9, <1>11, EmptyModest, GivesWayModest

-----------------------------------------------------------------------------
(* The inductive invariant: where in its life the batch in flight is. *)

\* A worker is given a fresh batch, and the boundary lets all of it through or nothing.
AtWorkers ==
  pc \in Workers =>
    /\ ~qaDone /\ Ready(task) = {}
    /\ \/ Opened(task) = {}
       \/ /\ Opened(task) = active
          /\ \A t \in active : task[t].attempt = [NoAttempt EXCEPT !.batch = active]
\* The pass after it finds an answer for each of its tasks, not yet heard.
AtAnswers ==
  pc = "supervisor" /\ ~qaDone =>
    /\ active = Opened(task) /\ Ready(task) = {}
    /\ \A t \in Opened(task) :
         /\ task[t].attempt.answer # "none" /\ task[t].attempt.verdict = "none"
         /\ ~task[t].attempt.heard /\ ~task[t].attempt.read /\ task[t].attempt.runs = 0
\* The pass after QA finds a verdict for each of its tasks, and for no other; the blame
\* for a failed batch is the only escalation that is on its way.
Attributed ==
  /\ escalation.reason = "DELTA" /\ Cardinality(Opened(task)) > 1
  /\ \E t \in Opened(task) : verdict[t] \in TestsFailed
  /\ \A t \in Opened(task) : verdict[t] # "conflict"
AtVerdicts ==
  pc = "supervisor" /\ qaDone =>
    /\ active = Opened(task) /\ Opened(task) # {} /\ Waiting(task)
    /\ \A t \in Tasks : verdict[t] = IF IsOpen(task, t) THEN task[t].attempt.verdict ELSE "none"
    /\ \A t \in Opened(task) : verdict[t] # "none" /\ task[t].attempt.runs > 0
    /\ \A t \in NoFixes : verdict[t] \in {"none", "pass", "fail", "inconclusive"}
    /\ escalation = Nobody \/ Attributed
\* Later in the pass the batch waits for QA, for the first time or again.
InPass ==
  pc \in {"plan", "route", "apply", "commit"} =>
    /\ Waiting(task)
    /\ \A t \in Opened(task) : qaDone <=> task[t].attempt.runs > 0
    /\ ~qaDone => active = Opened(task) \/ Opened(task) = {}
AtQa ==
  pc = "qa" =>
    /\ ~qaDone /\ active = Opened(task) /\ Opened(task) # {} /\ Waiting(task)
    /\ \A t \in Opened(task) : task[t].attempt.runs > 0
AtPortfolio == pc = "portfolio" => ~qaDone /\ Opened(task) = {}

\* An envelope that was read and left its attempt open belongs to a batch of several.
ReadInBatch == Cardinality(Opened(task)) < 2 => \A t \in Opened(task) : ~task[t].attempt.read

\* No attempt is open while the portfolio is called upon.
Escalating ==
  /\ escalation # Nobody => Opened(task) = {} \/ (pc = "supervisor" /\ qaDone)
  /\ pc \in {"apply", "commit"} /\ escalation # Nobody => decision.node = "portfolio"
\* A batch that was built goes to QA next; otherwise QA is not called.
Deciding ==
  /\ pc \in {"route", "apply", "commit"} =>
       /\ Modest(task, decision)
       /\ Opened(task) # {} /\ ~qaDone => decision = QaOf(Opened(task))
  /\ pc = "commit" =>
       /\ decision.node = "update" => \A t \in decision.targets : t \in Updates /\ ~MustPivot(task, t)
       /\ decision.node = "workaround" => decision.targets \cap Updates = {}
Capping == pc # "plan" => CapHolds(task)

Phases == AtWorkers /\ AtAnswers /\ AtVerdicts /\ InPass /\ AtQa /\ AtPortfolio
InFlight == Tidy(task) /\ Phases /\ ReadInBatch /\ Escalating /\ Deciding /\ Capping

\* Dispatches are not abandoned, and open whole.
Flying == IInv /\ InFlight /\ WholeDispatch /\ "abandon" \notin Faults

\* What a step may not do to the tasks.
ChargedOnce ==
  \A t \in Tasks : task'[t].retries # task[t].retries =>
    task'[t].retries = task[t].retries + 1 /\ IsOpen(task, t) /\ ~IsOpen(task', t)
PeersSpared ==
  \A t \in Tasks : replay'[t] \notin {0, replay[t]} =>
    /\ task'[t].status = "pending" /\ ~IsOpen(task', t)
    /\ task'[t].retries = task[t].retries /\ task'[t].selected = replay'[t]
PassWhole ==
  \A t \in Tasks : task[t].attempt.batch # {} /\ task'[t].status = "qa_passed" =>
    \A u \in task[t].attempt.batch : task'[u].status = "qa_passed"
PassByEvidence ==
  \A t \in Tasks : task[t].status # "qa_passed" /\ task'[t].status = "qa_passed" =>
    \/ verdict'[t] = "pass" /\ IsOpen(task, t) /\ task[t].attempt.answer = "success"
    \/ verdict'[t] = "cleared" /\ t \in Updates
\* The fail-closed route: what is left is given up, and the run ends.
GivesUpTheRest == pc = "apply" /\ decision' = TearDown /\ Live(task) # {} /\ Live(task') = {}
GivenUpAfterTry ==
  \A t \in Tasks : task[t].status # "unfixable" /\ task'[t].status = "unfixable" =>
    IsOpen(task, t) \/ task[t].retries > 0 \/ GivesUpTheRest \/ "nofix" \in Faults
\* A task whose attempt is over: it was charged at most once, or went to its next stage.
Closed(t, r, s) ==
  /\ s.attempt = NoAttempt /\ s.status \notin {"optimistically_fixed", "unspawned"}
  /\ \/ s.retries = r.retries /\ s.stage = r.stage /\ s.status # "needs_retry"
     \/ s.retries = r.retries + 1 /\ s.stage = r.stage /\ t \notin NoFixes /\ s.status # "pending"
     \/ /\ s.retries = r.retries + 1 /\ t \in NoFixes
        /\ r.stage = "package_removal" => s.stage = "code_removal"
        /\ r.stage # "package_removal" => s.stage = "unfixable" /\ s.status = "unfixable"
\* A task whose attempt goes on to QA, or is judged again.
GoesOn(r, s) ==
  /\ s.status = "optimistically_fixed" /\ s.retries = r.retries /\ s.stage = r.stage
  /\ s.attempt.batch = r.attempt.batch /\ s.attempt.runs = r.attempt.runs
  /\ s.attempt.answer = "success" /\ s.attempt.heard

\* The batch in flight is over: it passed, or each of its tasks ended, was charged, or goes
\* back to pending because of a peer that was charged.
Over(g) ==
  /\ Opened(g) = {} /\ \A t \in Opened(task) : Closed(t, task[t], g[t])
  /\ \A t \in Opened(task) : g[t].status = "qa_passed" =>
       Ready(task) = Opened(task) /\ g[t].retries = task[t].retries
  /\ \A t \in Opened(task) : g[t].status = "pending" =>
       /\ Ready(task) = Opened(task)
       /\ \E u \in Opened(task) : g[u].status = "needs_retry" /\ g[u].retries = task[u].retries + 1
\* A step leaves the batch in flight alone, builds it, settles it, or ends it and dispatches
\* what comes next.
BatchMoves ==
  \/ Opened(task') = Opened(task) /\ Ready(task') = Ready(task)
  \/ Opened(task') = Opened(task) /\ Ready(task) = {} /\ Ready(task') = Opened(task)
  \/ Over(task')
  \/ /\ Ready(task') = {}
     /\ \A t \in Opened(task) : /\ task'[t].status \in Terminal \ {"qa_passed"}
                                /\ task'[t].retries = task[t].retries
Fair == ChargedOnce /\ PeersSpared /\ PassWhole /\ PassByEvidence /\ GivenUpAfterTry /\ BatchMoves

LEMMA OpenIsOpened ==
  ASSUME NEW f, OneBatch(f)
  PROVE  Open(f) = Opened(f)
  BY DEF OneBatch, Open, Opened, Live, Queue

\* A step that charges nothing, lets nothing pass, and gives up only what was charged before.
LEMMA QuietFair ==
  ASSUME Tidy(task), \A t \in Tasks : replay'[t] \in {0, replay[t]},
         \A t \in Tasks : /\ task'[t].retries = task[t].retries
                          /\ task'[t].status = "qa_passed" => task[t].status = "qa_passed",
         \A t \in Tasks : task'[t].status = "unfixable" =>
           task[t].status = "unfixable" \/ task[t].retries > 0 \/ "nofix" \in Faults,
         BatchMoves
  PROVE  Fair
<1>1. PassWhole
  BY DEF PassWhole, Tidy, OneBatch, Opened, IsOpen, Terminal
<1> QED
  BY <1>1 DEF Fair, ChargedOnce, PeersSpared, PassByEvidence, GivenUpAfterTry

LEMMA StillFair ==
  ASSUME Tidy(task), task' = task, replay' = replay
  PROVE  Fair
  BY QuietFair DEF BatchMoves

LEMMA PortfolioGivesUpFlies ==
  ASSUME Flying, PortfolioGivesUp
  PROVE  InFlight' /\ Fair
<1> USE DEF PortfolioGivesUp
<1>1. Fair
  BY StillFair DEF Flying, InFlight
<1> QED
  BY <1>1 DEF Flying, InFlight, Phases, AtWorkers, AtAnswers, AtVerdicts, InPass, AtQa, AtPortfolio,
              ReadInBatch, Escalating, Deciding, Capping, Workers, Opened, Waiting, CapHolds

LEMMA SolverFailsFlies ==
  ASSUME Flying, SolverFails
  PROVE  InFlight' /\ Fair
<1> USE DEF SolverFails, PortfolioCounts
<1>1. Fair
  BY StillFair DEF Flying, InFlight
<1> QED
  BY <1>1 DEF Flying, InFlight, Phases, AtWorkers, AtAnswers, AtVerdicts, InPass, AtQa, AtPortfolio,
              ReadInBatch, Escalating, Deciding, Capping, Workers, Opened, Waiting, CapHolds

\* The portfolio tool never finds an open attempt.
LEMMA PortfolioDefersNot ==
  ASSUME Flying
  PROVE  ~PortfolioDefers
  BY OpenIsOpened DEF Flying, InFlight, Tidy, Phases, AtPortfolio, PortfolioDefers, PortfolioCounts

LEMMA PlansFirstFlies ==
  ASSUME Flying, PlansFirst
  PROVE  InFlight' /\ Fair
<1> USE DEF PlansFirst
<1>1. Fair
  BY StillFair DEF Flying, InFlight
<1>2. Opened(task) = {}
  BY OpenIsOpened DEF Replans, Flying, InFlight, Tidy
<1> QED
  BY <1>1, <1>2 DEF Flying, InFlight, Phases, AtWorkers, AtAnswers, AtVerdicts, InPass, AtQa, AtPortfolio,
              ReadInBatch, Escalating, Deciding, Capping, Workers, Opened, Waiting, CapHolds

LEMMA CrashFlies ==
  ASSUME Flying, Crash
  PROVE  InFlight' /\ Fair
<1> USE DEF Crash, portfolio
<1>1. Fair
  BY StillFair DEF Flying, InFlight
<1> QED
  BY <1>1 DEF Flying, InFlight, Phases, AtWorkers, AtAnswers, AtVerdicts, InPass, AtQa, AtPortfolio,
              ReadInBatch, Escalating, Deciding, Capping, Workers, Opened, Waiting, CapHolds

-----------------------------------------------------------------------------
(* Workers and QA. *)

\* Envelopes come for open attempts, and change nothing else of their tasks.
LEMMA EnvelopeTidy ==
  ASSUME NEW f, Tidy(f), NEW S, S \subseteq Opened(f), NEW g \in Queues,
         \A t \in Tasks \ S : g[t] = f[t],
         \A t \in S : /\ g[t].status = f[t].status /\ g[t].retries = f[t].retries
                      /\ g[t].stage = f[t].stage /\ g[t].exhausted = f[t].exhausted
                      /\ g[t].attempt.batch = f[t].attempt.batch /\ g[t].attempt.runs <= MaxReruns + 1
  PROVE  /\ Tidy(g) /\ Opened(g) = Opened(f) /\ Ready(g) = Ready(f)
         /\ CapHolds(f) => CapHolds(g)
<1>1. S \subseteq Tasks
  BY DEF Opened
<1>2. \A t \in Tasks : /\ g[t].status = f[t].status /\ g[t].retries = f[t].retries
                       /\ g[t].stage = f[t].stage /\ g[t].exhausted = f[t].exhausted
                       /\ g[t].attempt.batch = f[t].attempt.batch
  BY <1>1
<1>3. \A t \in Tasks : IsOpen(g, t) <=> IsOpen(f, t)
  BY <1>2 DEF IsOpen
<1>4. Opened(g) = Opened(f)
  BY <1>3 DEF Opened
<1>5. Ready(g) = Ready(f)
  BY <1>2 DEF Ready
<1>6. OneBatch(g)
  <2>1. \A t \in Tasks \ Opened(g) : g[t].attempt = NoAttempt
    BY <1>4 DEF Tidy, OneBatch
  <2>2. \A t \in Opened(g) : t \in Tasks
    BY DEF Opened
  <2> QED
    BY <1>2, <1>4, <1>5, <2>1, <2>2 DEF Tidy, OneBatch
<1>7. Counted(g)
  <2> SUFFICES ASSUME NEW t \in Tasks PROVE CountedOne(g, t) /\ g[t].attempt.runs <= MaxReruns + 1
    BY DEF Counted
  <2>1. CountedOne(f, t) /\ f[t].attempt.runs <= MaxReruns + 1
    BY DEF Tidy, Counted
  <2>2. CountedOne(g, t)
    BY <1>2, <1>3, <2>1 DEF CountedOne
  <2>3. g[t].attempt.runs <= MaxReruns + 1
    BY <2>1
  <2> QED
    BY <2>2, <2>3
<1>8. CapHolds(f) => CapHolds(g)
  BY <1>2 DEF CapHolds, MustPivot
<1> QED
  BY <1>4, <1>5, <1>6, <1>7, <1>8 DEF Tidy

LEMMA WorkerAbandonsFlies ==
  ASSUME Flying, WorkerAbandons
  PROVE  InFlight' /\ Fair
<1> USE DEF WorkerAbandons, portfolio
<1>1. Fair
  BY StillFair DEF Flying, InFlight
<1>2. Rejected
  BY DEF Flying, Abandoned
<1>3. Opened(task) = {}
  BY <1>2 DEF Rejected, Flying, InFlight, Phases, AtWorkers, Opened
<1> QED
  BY <1>1, <1>2, <1>3 DEF Flying, InFlight, Phases, AtWorkers, AtAnswers, AtVerdicts, InPass, AtQa, AtPortfolio,
              ReadInBatch, Escalating, Deciding, Capping, Workers, Opened, Ready, Waiting, CapHolds, Tidy, OneBatch

LEMMA WorkerAnswersFlies ==
  ASSUME Flying, WorkerAnswers
  PROVE  InFlight' /\ Fair
<1>1. /\ pc \in Workers /\ ~Rejected /\ pc' = "supervisor"
      /\ UNCHANGED <<active, verdict, replay, qaDone, entry, decision, portfolio>>
  BY DEF WorkerAnswers
<1>2. PICK answer \in [active -> Outcomes] :
        task' = [t \in Tasks |-> IF t \in active THEN [task[t] EXCEPT !.attempt.answer = answer[t]] ELSE task[t]]
  BY DEF WorkerAnswers
<1>3. Tidy(task) /\ active \subseteq Tasks /\ task' \in Queues
  BY WorkerAnswersKeeps DEF Flying, InFlight, IInv, TypeInv
<1>4. active = Opened(task) /\ ~qaDone /\ Ready(task) = {}
  <2>1. active \subseteq Opened(task)
    BY <1>1, <1>3 DEF Rejected, Opened
  <2> QED
    BY <1>1, <2>1 DEF Flying, InFlight, Phases, AtWorkers
<1>5. \A t \in active : task[t].attempt = [NoAttempt EXCEPT !.batch = active]
  BY <1>1, <1>4 DEF Flying, InFlight, Phases, AtWorkers
<1>6. ASSUME NEW t \in active
      PROVE  /\ task'[t].status = task[t].status /\ task'[t].retries = task[t].retries
             /\ task'[t].stage = task[t].stage /\ task'[t].exhausted = task[t].exhausted
             /\ task'[t].attempt = [task[t].attempt EXCEPT !.answer = answer[t]]
  <2>1. task[t] \in Records
    BY <1>3 DEF Tidy, Queues
  <2>2. task'[t] = [task[t] EXCEPT !.attempt.answer = answer[t]]
    BY <1>2, <1>3
  <2> QED
    BY <2>1, <2>2 DEF Records
<1>7. ASSUME NEW t \in active
      PROVE  /\ task'[t].attempt.batch = task[t].attempt.batch /\ task'[t].attempt.runs <= MaxReruns + 1
             /\ task'[t].attempt.answer # "none" /\ task'[t].attempt.verdict = "none"
             /\ ~task'[t].attempt.heard /\ ~task'[t].attempt.read /\ task'[t].attempt.runs = 0
  <2>1. answer[t] # "none"
    BY BoundAssumption
  <2>2. MaxReruns \in Nat
    BY BoundAssumption
  <2> DEFINE fresh == [batch |-> active, answer |-> "none", heard |-> FALSE, verdict |-> "none",
                       read |-> FALSE, runs |-> 0, reruns |-> 0]
             told == [fresh EXCEPT !.answer = answer[t]]
  <2>3. task[t].attempt = fresh
    BY <1>5 DEF NoAttempt
  <2>4. /\ fresh.batch = active /\ told.batch = active /\ told.answer = answer[t] /\ told.verdict = "none"
        /\ ~told.heard /\ ~told.read /\ told.runs = 0
    OBVIOUS
  <2> HIDE DEF fresh
  <2>5. task'[t].attempt = told
    BY <1>6, <2>3
  <2> HIDE DEF told
  <2> QED
    BY <2>1, <2>2, <2>3, <2>4, <2>5
<1>8. \A t \in Tasks \ active : task'[t] = task[t]
  BY <1>2
<1>9. /\ Tidy(task') /\ Opened(task') = Opened(task) /\ Ready(task') = Ready(task)
      /\ CapHolds(task) => CapHolds(task')
  <2>1. active \subseteq Opened(task)
    BY <1>4
  <2>2. \A t \in active :
          /\ task'[t].status = task[t].status /\ task'[t].retries = task[t].retries
          /\ task'[t].stage = task[t].stage /\ task'[t].exhausted = task[t].exhausted
          /\ task'[t].attempt.batch = task[t].attempt.batch /\ task'[t].attempt.runs <= MaxReruns + 1
    BY <1>6, <1>7
  <2> QED
    BY ONLY <1>3, <1>8, <2>1, <2>2, EnvelopeTidy, Zenon
<1>10. Fair
  <2>1. \A t \in Tasks : /\ task'[t].retries = task[t].retries
                         /\ task'[t].status = "qa_passed" => task[t].status = "qa_passed"
                         /\ task'[t].status = "unfixable" => task[t].status = "unfixable"
    BY <1>6, <1>8
  <2> QED
    BY <1>1, <1>3, <1>9, <2>1, QuietFair DEF BatchMoves
<1>11. Capping' /\ Escalating'
  BY <1>1, <1>9 DEF Flying, InFlight, Capping, Escalating, Workers, portfolio
<1>12. AtAnswers' /\ ReadInBatch'
  BY <1>1, <1>4, <1>7, <1>9 DEF AtAnswers, ReadInBatch
<1> QED
  BY <1>1, <1>4, <1>9, <1>10, <1>11, <1>12
     DEF InFlight, Phases, AtWorkers, AtVerdicts, InPass, AtQa, AtPortfolio, Deciding, Workers

\* QA is never abandoned.
LEMMA QaAbandonsNot ==
  ASSUME Flying
  PROVE  ~QaAbandons
<1> SUFFICES ASSUME QaAbandons PROVE FALSE
  OBVIOUS
<1>1. active = Opened(task) /\ active # {}
  BY DEF QaAbandons, Flying, InFlight, Phases, AtQa
<1> QED
  BY <1>1 DEF QaAbandons, Flying, Abandoned, Rejected, Opened

LEMMA QaAnswersFlies ==
  ASSUME Flying, QaAnswers
  PROVE  InFlight' /\ Fair
<1>1. /\ pc = "qa" /\ pc' = "supervisor" /\ qaDone' = TRUE
      /\ UNCHANGED <<active, replay, entry, decision, request, history, iteration>>
  BY DEF QaAnswers
<1>2. PICK v \in [active -> Verdicts], blamed \in SUBSET active :
        /\ \A t \in active : v[t] \in Possible(t)
        /\ blamed # {} => /\ Cardinality(active) > 1
                          /\ \E t \in active : v[t] \in TestsFailed
                          /\ \A t \in active : v[t] # "conflict"
        /\ verdict' = [t \in Tasks |-> IF t \in active THEN v[t] ELSE "none"]
        /\ task' = [t \in Tasks |-> IF t \in active THEN [task[t] EXCEPT !.attempt.verdict = v[t]] ELSE task[t]]
        /\ escalation' = IF blamed = {} THEN escalation ELSE [reason |-> "DELTA", forced |-> blamed]
  BY DEF QaAnswers
<1>3. Tidy(task) /\ active \subseteq Tasks /\ task' \in Queues
  BY QaAnswersKeeps DEF Flying, InFlight, IInv, TypeInv
<1>4. /\ active = Opened(task) /\ Opened(task) # {} /\ Waiting(task) /\ escalation = Nobody
      /\ \A t \in active : task[t].attempt.runs > 0
  BY <1>1 DEF Flying, InFlight, Phases, AtQa, Escalating
<1>5. ASSUME NEW t \in active
      PROVE  /\ task'[t].status = task[t].status /\ task'[t].retries = task[t].retries
             /\ task'[t].stage = task[t].stage /\ task'[t].exhausted = task[t].exhausted
             /\ task'[t].attempt = [task[t].attempt EXCEPT !.verdict = v[t]]
  <2>1. task[t] \in Records
    BY <1>3 DEF Tidy, Queues
  <2>2. task'[t] = [task[t] EXCEPT !.attempt.verdict = v[t]]
    BY <1>2, <1>3
  <2> QED
    BY <2>1, <2>2 DEF Records
<1>6. ASSUME NEW t \in active
      PROVE  /\ task'[t].attempt.batch = task[t].attempt.batch /\ task'[t].attempt.runs = task[t].attempt.runs
             /\ task'[t].attempt.answer = task[t].attempt.answer
             /\ task'[t].attempt.heard = task[t].attempt.heard /\ task'[t].attempt.read = task[t].attempt.read
             /\ task'[t].attempt.verdict = v[t] /\ task'[t].attempt.runs <= MaxReruns + 1
  <2>1. task[t].attempt \in Attempts /\ task[t].attempt.runs <= MaxReruns + 1
    BY <1>3 DEF Tidy, Queues, Records, Counted
  <2> QED
    BY <1>5, <2>1 DEF Attempts
<1>7. \A t \in Tasks \ active : task'[t] = task[t]
  BY <1>2
<1>8. /\ Tidy(task') /\ Opened(task') = Opened(task) /\ Ready(task') = Ready(task)
      /\ CapHolds(task) => CapHolds(task')
  <2>1. active \subseteq Opened(task)
    BY <1>4
  <2>2. \A t \in active :
          /\ task'[t].status = task[t].status /\ task'[t].retries = task[t].retries
          /\ task'[t].stage = task[t].stage /\ task'[t].exhausted = task[t].exhausted
          /\ task'[t].attempt.batch = task[t].attempt.batch /\ task'[t].attempt.runs <= MaxReruns + 1
    BY <1>5, <1>6
  <2> QED
    BY ONLY <1>3, <1>7, <2>1, <2>2, EnvelopeTidy, Zenon
<1>9. Fair
  <2>1. \A t \in Tasks : /\ task'[t].retries = task[t].retries
                         /\ task'[t].status = "qa_passed" => task[t].status = "qa_passed"
                         /\ task'[t].status = "unfixable" => task[t].status = "unfixable"
    BY <1>5, <1>7
  <2> QED
    BY <1>1, <1>3, <1>8, <2>1, QuietFair DEF BatchMoves
<1>10. Waiting(task')
  BY <1>4, <1>6, <1>8 DEF Waiting
<1>11. \A t \in Tasks : IsOpen(task', t) <=> t \in active
  BY <1>4, <1>8 DEF Opened
<1>12. \A t \in Tasks : verdict'[t] = IF IsOpen(task', t) THEN task'[t].attempt.verdict ELSE "none"
  BY <1>2, <1>6, <1>11
<1>13. \A t \in active : v[t] # "none" /\ verdict'[t] = v[t]
  BY <1>2, <1>3, BoundAssumption DEF Failing
<1>14. \A t \in NoFixes : verdict'[t] \in {"none", "pass", "fail", "inconclusive"}
  <2> SUFFICES ASSUME NEW t \in NoFixes PROVE verdict'[t] \in {"none", "pass", "fail", "inconclusive"}
    OBVIOUS
  <2>1. t \in Tasks /\ t \notin Updates
    BY TaskAssumption, UpdatesAreTasks
  <2> QED
    BY <1>2, <2>1 DEF Possible
<1>15. escalation' = Nobody \/ Attributed'
  <2>1. CASE blamed = {}
    BY <1>2, <1>4, <2>1
  <2>2. CASE blamed # {}
    <3>1. escalation'.reason = "DELTA"
      BY <1>2, <2>2
    <3>2. /\ Cardinality(active) > 1 /\ \E t \in active : v[t] \in TestsFailed
          /\ \A t \in active : v[t] # "conflict"
      BY <1>2, <2>2
    <3> QED
      BY <1>4, <1>8, <1>13, <3>1, <3>2 DEF Attributed
  <2> QED
    BY <2>1, <2>2
<1>16. AtVerdicts'
  BY <1>1, <1>4, <1>6, <1>8, <1>10, <1>12, <1>13, <1>14, <1>15 DEF AtVerdicts
<1>17. ReadInBatch' /\ Capping' /\ Escalating'
  BY <1>1, <1>4, <1>6, <1>8 DEF Flying, InFlight, ReadInBatch, Capping, Escalating
<1> QED
  BY <1>1, <1>8, <1>9, <1>16, <1>17
     DEF InFlight, Phases, AtWorkers, AtAnswers, InPass, AtQa, AtPortfolio, Deciding, Workers

LEMMA TeardownFlies ==
  ASSUME Flying, Teardown
  PROVE  InFlight' /\ Fair
<1>1. /\ pc = "teardown" /\ pc' = "done" /\ replay' = replay /\ escalation' = escalation
      /\ task' = [t \in Tasks |-> IF HasChild(task, t) THEN Drop([task[t] EXCEPT !.status = "pivoted"])
                                  ELSE task[t]]
  BY DEF Teardown, portfolio
<1>2. Tidy(task) /\ HandedOverEnded /\ task' \in Queues
  BY TeardownKeeps DEF Flying, InFlight, IInv, TypeInv
<1>3. ASSUME NEW t \in Tasks
      PROVE  \/ task'[t] = task[t]
             \/ /\ task[t].status \in Terminal /\ task'[t].status = "pivoted" /\ t \notin NoFixes
                /\ task'[t].retries = task[t].retries /\ task'[t].stage = task[t].stage
                /\ task'[t].attempt = NoAttempt /\ task[t].attempt = NoAttempt
  <2>1. CASE HasChild(task, t)
    <3>1. task[t].status \in Terminal /\ t \notin NoFixes
      BY <1>2, <2>1, TaskAssumption DEF HandedOverEnded, HasChild
    <3>2. task[t].attempt = NoAttempt
      BY <1>2, <3>1 DEF Tidy, OneBatch
    <3>3. task[t] \in Records
      BY <1>2 DEF Tidy, Queues
    <3>4. task'[t] = Drop([task[t] EXCEPT !.status = "pivoted"])
      BY <1>1, <2>1
    <3> QED
      BY <3>1, <3>2, <3>3, <3>4 DEF Drop, Records
  <2>2. CASE ~HasChild(task, t)
    BY <1>1, <2>2
  <2> QED
    BY <2>1, <2>2
<1>4. \A t \in Tasks : task'[t].attempt = task[t].attempt /\ task'[t].retries = task[t].retries
  BY <1>3
<1>5. Opened(task') = Opened(task) /\ \A t \in Opened(task) : task'[t] = task[t]
  <2>1. \A t \in Opened(task) : task'[t] = task[t]
    BY <1>2, <1>3 DEF Opened, Tidy, OneBatch
  <2> QED
    BY <1>4, <2>1 DEF Opened, IsOpen
<1>6. Ready(task') = Ready(task)
  BY <1>3 DEF Ready, Terminal
<1>7. OneBatch(task')
  BY <1>2, <1>4, <1>5, <1>6 DEF Tidy, OneBatch
<1>8. Counted(task')
  <2> SUFFICES ASSUME NEW t \in Tasks PROVE CountedOne(task', t) /\ task'[t].attempt.runs <= MaxReruns + 1
    BY DEF Counted
  <2>1. CountedOne(task, t) /\ task[t].attempt.runs <= MaxReruns + 1
    BY <1>2 DEF Tidy, Counted
  <2>2. IsOpen(task', t) <=> IsOpen(task, t)
    BY <1>4 DEF IsOpen
  <2> QED
    BY <1>3, <1>4, <2>1, <2>2 DEF CountedOne, Terminal
<1>9. Fair
  <2>1. \A t \in Tasks : /\ task'[t].retries = task[t].retries
                         /\ task'[t].status = "qa_passed" => task[t].status = "qa_passed"
                         /\ task'[t].status = "unfixable" => task[t].status = "unfixable"
    BY <1>3
  <2> QED
    BY <1>1, <1>2, <1>5, <1>6, <2>1, QuietFair DEF BatchMoves
<1>10. CapHolds(task')
  <2>1. CapHolds(task)
    BY <1>1 DEF Flying, InFlight, Capping
  <2> QED
    BY <1>3, <2>1 DEF CapHolds, MustPivot
<1>11. ReadInBatch' /\ Escalating' /\ Capping'
  BY <1>1, <1>5, <1>10 DEF Flying, InFlight, ReadInBatch, Escalating, Capping
<1> QED
  BY <1>1, <1>2, <1>7, <1>8, <1>9, <1>11
     DEF InFlight, Tidy, Phases, AtWorkers, AtAnswers, AtVerdicts, InPass, AtQa, AtPortfolio, Deciding, Workers

-----------------------------------------------------------------------------
(* The portfolio tool replaces the plan. *)

LEMMA PortfolioCommitsFlies ==
  ASSUME Flying, PortfolioCommits
  PROVE  InFlight' /\ Fair
<1> DEFINE members == Leaves(task)
           live == members \cap Live(task)
           bumps == live \cap Updates
<1>0. /\ pc = "portfolio" /\ pc' = "supervisor" /\ active' = {}
      /\ request' = Nobody /\ escalation' = Nobody
      /\ UNCHANGED <<verdict, replay, qaDone, decision>>
  BY DEF PortfolioCommits, PortfolioCounts
<1>1. PICK rank \in [live -> 1..Cardinality(live)],
           version \in [bumps -> UNION {1..Versions[u] : u \in Updates}],
           lost \in SUBSET (live \ NoFixes) :
        /\ lost = {} \/ "nofix" \in Faults
        /\ task' = Committed(task, bumps \cup lost, LAMBDA t :
                     IF t \in lost THEN [task[t] EXCEPT !.status = "unfixable"]
                     ELSE [task[t] EXCEPT !.selected = version[t], !.latest = FALSE])
  BY DEF PortfolioCommits
<1>2. Tidy(task) /\ ~qaDone /\ Opened(task) = {} /\ Ready(task) = {} /\ CapHolds(task)
  BY <1>0 DEF Flying, InFlight, Phases, AtPortfolio, Capping, Tidy, OneBatch
<1> DEFINE S == bumps \cup lost
           n(t) == IF t \in lost THEN [task[t] EXCEPT !.status = "unfixable"]
                   ELSE [task[t] EXCEPT !.selected = version[t], !.latest = FALSE]
           h == [t \in Tasks |-> n(t)]
<1>3. \A t \in bumps : version[t] \in Nat
  <2> HIDE DEF bumps
  <2>1. \A u \in Updates : Versions[u] \in Nat
    BY TaskAssumption
  <2>2. UNION {1..Versions[u] : u \in Updates} \subseteq Nat
    BY <2>1
  <2> QED
    BY <2>2
<1>4. ASSUME NEW t \in S \cap Tasks
      PROVE  t \in Live(task)
  OBVIOUS
<1>5. ASSUME NEW t \in S \cap Tasks
      PROVE  /\ h[t] \in Records /\ task[t].status \in Workable /\ ~IsOpen(task, t)
             /\ h[t].retries = task[t].retries /\ h[t].stage = task[t].stage /\ h[t].attempt = task[t].attempt
             /\ h[t].status \in {task[t].status, "unfixable"}
             /\ h[t].status = task[t].status \/ "nofix" \in Faults
             /\ h[t].status = "needs_retry" /\ task[t].exhausted => h[t].exhausted
  <2> HIDE DEF bumps
  <2>1. task[t] \in Records
    BY <1>2 DEF Tidy, Queues
  <2>2. ~IsOpen(task, t)
    BY <1>2 DEF Opened
  <2>3. task[t].status \in Workable
    <3> HIDE DEF S
    <3>1. t \in Live(task) /\ t \notin Ready(task)
      BY <1>2, <1>4
    <3> QED
      BY <2>1, <3>1 DEF Live, Queue, Ready, Records, Statuses
  <2>4. CASE t \in lost
    <3>1. h[t] = [task[t] EXCEPT !.status = "unfixable"]
      BY <2>4
    <3> HIDE DEF h, S
    <3>2. "nofix" \in Faults
      BY <1>1, <2>4
    <3> QED
      BY <2>1, <2>2, <2>3, <3>1, <3>2 DEF Records, Statuses, Terminal
  <2>5. CASE t \notin lost
    <3>1. h[t] = [task[t] EXCEPT !.selected = version[t], !.latest = FALSE] /\ version[t] \in Nat
      BY <1>3, <2>5
    <3> HIDE DEF h, S
    <3> QED
      BY <2>1, <2>2, <2>3, <3>1 DEF Records
  <2> QED
    BY <2>4, <2>5
<1>6. task' = [t \in Tasks |-> IF t \in S THEN Commit(task[t], h[t]) ELSE task[t]]
  <2> HIDE DEF bumps
  <2>1. task' = [t \in Tasks |-> IF t \in S THEN Commit(task[t], n(t)) ELSE task[t]]
    BY <1>1 DEF Committed
  <2> HIDE DEF n, S
  <2> QED
    BY <2>1
<1> HIDE DEF h, S
<1>7. QueueCalm(task, task')
  <2>1. \A t \in S \cap Tasks :
          /\ h[t] \in Records /\ task[t].status \in Workable /\ ~IsOpen(task, t)
          /\ h[t].retries = task[t].retries /\ h[t].stage = task[t].stage /\ h[t].attempt = task[t].attempt
          /\ h[t].status = task[t].status \/ h[t].status \in Terminal
          /\ h[t].status = "needs_retry" /\ task[t].exhausted => h[t].exhausted
    BY <1>5 DEF Terminal
  <2> QED
    BY ONLY <1>2, <1>6, <2>1, CommittedCalm, Zenon
<1>8. /\ Tidy(task') /\ Opened(task') = {} /\ Ready(task') = {} /\ CapHolds(task')
  BY <1>2, <1>7, CalmKeeps
<1>9. Fair
  <2>1. \A t \in Tasks : Calm(task[t], task'[t])
    BY <1>7 DEF QueueCalm
  <2>2. \A t \in Tasks : task'[t].retries = task[t].retries
    BY <2>1 DEF Calm
  <2>3. \A t \in Tasks : /\ task'[t].status = "qa_passed" => task[t].status = "qa_passed"
                         /\ task'[t].status = "unfixable" => task[t].status = "unfixable" \/ "nofix" \in Faults
    <3> SUFFICES ASSUME NEW t \in Tasks
                 PROVE  /\ task'[t].status \in {task[t].status, "unfixable"}
                        /\ task'[t].status = task[t].status \/ "nofix" \in Faults
      OBVIOUS
    <3>1. task'[t] \in {task[t], h[t], Drop(h[t])}
      BY <1>6 DEF Commit
    <3>2. CASE t \in S
      <4>1. /\ h[t] \in Records /\ h[t].status \in {task[t].status, "unfixable"}
            /\ h[t].status = task[t].status \/ "nofix" \in Faults
        BY <1>5, <3>2
      <4> QED
        BY <3>1, <4>1, DropType
    <3> QED
      BY <1>6, <3>2
  <2> QED
    BY <1>0, <1>2, <1>8, <2>2, <2>3, QuietFair DEF BatchMoves
<1> QED
  BY <1>0, <1>2, <1>8, <1>9
     DEF InFlight, Phases, AtWorkers, AtAnswers, AtVerdicts, InPass, AtQa, AtPortfolio,
         ReadInBatch, Escalating, Deciding, Capping, Workers

-----------------------------------------------------------------------------
(* The first stage of a pass: the answers and the verdicts of the batch. *)

LEMMA DropFields ==
  ASSUME NEW r \in Records
  PROVE  /\ Drop(r) \in Records /\ Close(r) \in Records
         /\ Drop(r).status = r.status /\ Drop(r).retries = r.retries /\ Drop(r).stage = r.stage
         /\ Drop(r).attempt = NoAttempt
         /\ Close(r).status = r.status /\ Close(r).retries = r.retries /\ Close(r).stage = r.stage
         /\ Close(r).attempt = NoAttempt /\ Close(r).selected = r.selected
  BY NoAttemptType DEF Drop, Close, Records

LEMMA ChargedFields ==
  ASSUME NEW r \in Records
  PROVE  /\ Charged(r) \in Records /\ Charged(r).status = "needs_retry" /\ Charged(r).retries = r.retries + 1
         /\ Charged(r).stage = r.stage /\ Charged(r).attempt = r.attempt
<1>1. /\ Charged(r).retries = r.retries + 1 /\ Charged(r).stage = r.stage
  BY DEF Charged, Records
<1> QED
  BY <1>1, ChargedType

LEMMA StatusFields ==
  ASSUME NEW r \in Records, NEW s \in Statuses
  PROVE  LET n == [r EXCEPT !.status = s]
         IN  /\ n \in Records /\ n.status = s /\ n.retries = r.retries /\ n.stage = r.stage
             /\ n.attempt = r.attempt /\ n.selected = r.selected
  BY DEF Records

LEMMA NextStageFields ==
  ASSUME NEW r \in Records
  PROVE  /\ NextStage(r) \in Records /\ NextStage(r).attempt = NoAttempt
         /\ NextStage(r).retries = r.retries + 1
         /\ r.stage = "package_removal" => NextStage(r).status = "needs_retry" /\ NextStage(r).stage = "code_removal"
         /\ r.stage # "package_removal" => NextStage(r).status = "unfixable" /\ NextStage(r).stage = "unfixable"
<1>1. CASE r.stage = "package_removal"
  <2> DEFINE n == [Charged(r) EXCEPT !.stage = "code_removal"]
  <2>1. n \in Records /\ n.status = "needs_retry" /\ n.retries = r.retries + 1 /\ n.stage = "code_removal"
    BY ChargedFields DEF Records, Stages
  <2>2. NextStage(r) = Drop(n)
    BY <1>1 DEF NextStage
  <2> HIDE DEF n
  <2> QED
    BY <1>1, <2>1, <2>2, DropFields
<1>2. CASE r.stage # "package_removal"
  <2> DEFINE n == [r EXCEPT !.status = "unfixable", !.stage = "unfixable", !.retries = @ + 1]
  <2>1. r.retries + 1 \in Nat /\ "unfixable" \in Statuses /\ "unfixable" \in Stages
    BY DEF Records, Stages, Statuses, Terminal
  <2>2. n \in Records /\ n.status = "unfixable" /\ n.stage = "unfixable"
    BY <2>1, Zenon DEF Records
  <2>3. n.retries = r.retries + 1
    BY DEF Records
  <2>4. NextStage(r) = Drop(n)
    BY <1>2 DEF NextStage
  <2> HIDE DEF n
  <2> QED
    BY <1>2, <2>2, <2>3, <2>4, DropFields
<1> QED
  BY <1>1, <1>2

LEMMA CommitTo ==
  ASSUME NEW r, NEW n, n.status = r.status \/ <<r.status, n.status>> \in Permitted
  PROVE  Commit(r, n) = IF n.status \in Terminal THEN Drop(n) ELSE n
  BY DEF Commit

LEMMA AllClosed ==
  ASSUME NEW f, Tidy(f), NEW g \in Queues,
         \A t \in Tasks \ Opened(f) : g[t] = f[t],
         \A t \in Opened(f) : Closed(t, f[t], g[t])
  PROVE  /\ Tidy(g) /\ Opened(g) = {} /\ Waiting(g)
         /\ \A t \in Tasks : g[t].retries # f[t].retries =>
              g[t].retries = f[t].retries + 1 /\ IsOpen(f, t) /\ ~IsOpen(g, t)
<1>1. \A t \in Tasks : g[t].attempt = NoAttempt
  BY DEF Closed, Tidy, OneBatch
<1>2. Opened(g) = {} /\ \A t \in Tasks : ~IsOpen(g, t)
  BY <1>1 DEF Opened, IsOpen, NoAttempt
<1>3. Ready(g) = {}
  BY DEF Ready, Closed, Tidy, OneBatch
<1>4. OneBatch(g)
  BY <1>1, <1>2, <1>3 DEF OneBatch
<1>5. Counted(g)
  <2> SUFFICES ASSUME NEW t \in Tasks PROVE CountedOne(g, t) /\ g[t].attempt.runs <= MaxReruns + 1
    BY DEF Counted
  <2>1. CountedOne(f, t) /\ f[t] \in Records
    BY DEF Tidy, Counted, Queues
  <2>2. g[t].attempt.runs <= MaxReruns + 1
    BY <1>1, BoundAssumption DEF NoAttempt
  <2>3. ~IsOpen(g, t)
    BY <1>2
  <2>4. CASE t \notin Opened(f)
    BY <2>1, <2>2, <2>3, <2>4 DEF CountedOne, IsOpen
  <2>5. CASE t \in Opened(f)
    <3>1. /\ f[t].status \notin Terminal /\ IsOpen(f, t) /\ f[t].retries \in Nat
          /\ Closed(t, f[t], g[t]) /\ MaxRetries \in Nat
      BY <2>1, <2>5, TaskAssumption DEF Tidy, OneBatch, Opened, Records
    <3>2. CASE t \in NoFixes
      BY <2>1, <2>2, <2>3, <3>1, <3>2 DEF CountedOne, Closed, Terminal
    <3>3. CASE t \notin NoFixes
      BY <2>1, <2>2, <2>3, <3>1, <3>3 DEF CountedOne, Closed, Terminal
    <3> QED
      BY <3>2, <3>3
  <2> QED
    BY <2>4, <2>5
<1>6. \A t \in Tasks : g[t].retries # f[t].retries =>
        g[t].retries = f[t].retries + 1 /\ IsOpen(f, t) /\ ~IsOpen(g, t)
  BY <1>2 DEF Closed, Opened
<1> QED
  BY <1>2, <1>3, <1>4, <1>5, <1>6 DEF Tidy, Waiting

LEMMA AllGoOn ==
  ASSUME NEW f, Tidy(f), NEW g \in Queues,
         \A t \in Tasks \ Opened(f) : g[t] = f[t],
         \A t \in Opened(f) : GoesOn(f[t], g[t])
  PROVE  /\ Tidy(g) /\ Opened(g) = Opened(f) /\ Waiting(g)
         /\ \A t \in Tasks : g[t].retries = f[t].retries
<1>1. \A t \in Tasks : g[t].attempt.batch = f[t].attempt.batch /\ g[t].retries = f[t].retries
  BY DEF GoesOn
<1>2. Opened(g) = Opened(f) /\ \A t \in Tasks : IsOpen(g, t) <=> IsOpen(f, t)
  BY <1>1 DEF Opened, IsOpen
<1>3. Ready(g) = Opened(g)
  BY <1>2 DEF Ready, GoesOn, Tidy, OneBatch, Opened
<1>4. OneBatch(g)
  <2>1. \A t \in Opened(g) : t \in Tasks /\ g[t].status \notin Terminal \cup {"unspawned"}
    BY <1>2 DEF GoesOn, Terminal, Opened
  <2> QED
    BY <1>1, <1>2, <1>3, <2>1 DEF Tidy, OneBatch
<1>5. Counted(g)
  <2> SUFFICES ASSUME NEW t \in Tasks PROVE CountedOne(g, t) /\ g[t].attempt.runs <= MaxReruns + 1
    BY DEF Counted
  <2>1. CountedOne(f, t) /\ f[t].attempt.runs <= MaxReruns + 1
    BY DEF Tidy, Counted
  <2>2. CASE t \notin Opened(f)
    BY <2>1, <2>2 DEF CountedOne, IsOpen
  <2>3. CASE t \in Opened(f)
    <3>1. f[t].status \notin Terminal /\ IsOpen(f, t) /\ GoesOn(f[t], g[t])
      BY <2>3 DEF Tidy, OneBatch, Opened
    <3> QED
      BY <2>1, <3>1 DEF CountedOne, GoesOn, Terminal
  <2> QED
    BY <2>2, <2>3
<1>6. Waiting(g)
  BY <1>2, <1>3 DEF Waiting, GoesOn
<1> QED
  BY <1>1, <1>2, <1>4, <1>5, <1>6 DEF Tidy

\* The pass is about the open attempts, and its batch is all of them if they are several.
LEMMA PassBatch ==
  ASSUME Flying, pc = "supervisor"
  PROVE  /\ Recovered = Opened(task)
         /\ Batch = IF Cardinality(Opened(task)) > 1 THEN Opened(task) ELSE {}
<1>1. Tidy(task) /\ active = Opened(task)
  BY DEF Flying, InFlight, Phases, AtAnswers, AtVerdicts
<1>2. Recovered = Opened(task)
  <2>1. \A t \in Tasks \ Opened(task) : task[t].attempt.answer = "none" /\ task[t].attempt.verdict = "none"
    BY <1>1 DEF Tidy, OneBatch, NoAttempt
  <2>2. Opened(task) \subseteq Tasks
    BY DEF Opened
  <2> QED
    BY <1>1, <2>1, <2>2 DEF Recovered
<1> DEFINE members == {t \in Recovered \cap Open(task) : Cardinality(task[t].attempt.batch) > 1}
<1>3. Open(task) = Opened(task)
  BY <1>1, OpenIsOpened DEF Tidy
<1>4. members = IF Cardinality(Opened(task)) > 1 THEN Opened(task) ELSE {}
  <2>1. \A t \in Opened(task) : task[t].attempt.batch = Opened(task)
    BY <1>1 DEF Tidy, OneBatch
  <2> QED
    BY <1>2, <1>3, <2>1
<1>5. Batch = IF Cardinality(members) > 1 THEN members ELSE {}
  BY DEF Batch
<1> HIDE DEF members
<1>6. Batch = IF Cardinality(Opened(task)) > 1 THEN Opened(task) ELSE {}
  <2>1. CASE Cardinality(Opened(task)) > 1
    BY <1>4, <1>5, <2>1
  <2>2. CASE ~(Cardinality(Opened(task)) > 1)
    BY <1>4, <1>5, <2>2
  <2> QED
    BY <2>1, <2>2
<1> QED
  BY <1>2, <1>6

\* What an answer makes of an open task.
LEMMA AnsweredOne ==
  ASSUME Flying, pc = "supervisor", ~qaDone, NEW t \in Opened(task), NEW s, s = Commit(task[t], Answered(t))
  PROVE  /\ s \in Records
         /\ task[t].attempt.answer = "success" =>
              /\ GoesOn(task[t], s) /\ IsOpen(task, t) /\ s.attempt.batch = task[t].attempt.batch
              /\ s.attempt.verdict = "none" /\ ~s.attempt.read /\ s.attempt.runs = 0
         /\ task[t].attempt.answer # "success" =>
              /\ Closed(t, task[t], s) /\ s.status \in {"needs_retry", "unfixable"}
              /\ t \in Updates => s.status = "needs_retry" /\ s.retries = task[t].retries + 1
<1> DEFINE r == task[t]
           a == r.attempt
           told == [r EXCEPT !.attempt.heard = TRUE,
                             !.tried = IF t \in Updates /\ a.answer # "untried"
                                       THEN @ \cup {r.selected} ELSE @]
           b == [a EXCEPT !.heard = TRUE]
<1>1. /\ Tidy(task) /\ t \in Tasks /\ IsOpen(task, t) /\ r \in Records /\ r.status \in Workable
      /\ a.answer # "none" /\ a.verdict = "none" /\ ~a.heard /\ ~a.read /\ a.runs = 0
  <2>1. /\ Tidy(task) /\ Ready(task) = {} /\ t \in Tasks /\ IsOpen(task, t)
        /\ a.answer # "none" /\ a.verdict = "none" /\ ~a.heard /\ ~a.read /\ a.runs = 0
    BY DEF Flying, InFlight, Phases, AtAnswers, Opened
  <2>2. r \in Records /\ r.status \notin Terminal \cup {"unspawned"}
    BY <2>1 DEF Tidy, Queues, OneBatch
  <2>3. r.status \in Workable
    BY <2>1, <2>2 DEF Records, Statuses, Ready
  <2> QED
    BY <2>1, <2>2, <2>3
<1>2. b \in Attempts /\ b.batch = a.batch /\ b.answer = a.answer /\ b.heard /\ b.verdict = "none" /\ ~b.read /\ b.runs = 0
  BY <1>1 DEF Records, Attempts
<1>3. /\ told \in Records /\ told.status = r.status /\ told.retries = r.retries /\ told.stage = r.stage
      /\ told.attempt = b
  BY <1>1, <1>2 DEF Records
<1>4. Answered(t) = CASE a.answer = "success" -> [told EXCEPT !.status = "optimistically_fixed"]
          [] a.answer # "success" /\ t \in NoFixes -> NextStage(told)
          [] a.answer # "success" /\ t \in Updates -> Drop(Charged(told))
          [] OTHER -> [told EXCEPT !.status = "unfixable"]
  BY DEF Answered
<1> HIDE DEF told, b
<1>5. ASSUME a.answer = "success"
      PROVE  /\ s \in Records /\ GoesOn(r, s)
             /\ s.attempt.verdict = "none" /\ ~s.attempt.read /\ s.attempt.runs = 0
  <2> DEFINE n == [told EXCEPT !.status = "optimistically_fixed"]
  <2>1. /\ n \in Records /\ n.status = "optimistically_fixed" /\ n.retries = r.retries /\ n.stage = r.stage
        /\ n.attempt = b
    BY <1>3, StatusFields DEF Statuses
  <2>2. Answered(t) = n
    BY <1>4, <1>5
  <2>3. <<r.status, n.status>> \in Permitted /\ n.status \notin Terminal
    BY <1>1, <2>1 DEF Permitted, Workable, Terminal
  <2> HIDE DEF n
  <2>4. s = n
    BY <2>2, <2>3, CommitTo
  <2> QED
    BY <1>1, <1>2, <1>5, <2>1, <2>4 DEF GoesOn
<1>6. ASSUME a.answer # "success"
      PROVE  /\ s \in Records /\ Closed(t, r, s) /\ s.status \in {"needs_retry", "unfixable"}
             /\ t \in Updates => s.status = "needs_retry" /\ s.retries = r.retries + 1
  <2>1. CASE t \in NoFixes
    <3> DEFINE n == NextStage(told)
    <3>1. /\ n \in Records /\ n.attempt = NoAttempt /\ n.retries = r.retries + 1
          /\ r.stage = "package_removal" => n.status = "needs_retry" /\ n.stage = "code_removal"
          /\ r.stage # "package_removal" => n.status = "unfixable" /\ n.stage = "unfixable"
      BY <1>3, NextStageFields
    <3>2. t \notin Updates
      BY <2>1, TaskAssumption
    <3>3. Answered(t) = n
      BY <1>4, <1>6, <2>1, <3>2
    <3> HIDE DEF n
    <3>4. n.status \in {"needs_retry", "unfixable"}
      BY <3>1
    <3>5. n.status = r.status \/ <<r.status, n.status>> \in Permitted
      BY <1>1, <3>4 DEF Permitted, Workable
    <3>6. s = IF n.status \in Terminal THEN Drop(n) ELSE n
      BY <3>3, <3>5, CommitTo
    <3>7. s \in Records /\ s.status = n.status /\ s.retries = n.retries /\ s.stage = n.stage /\ s.attempt = NoAttempt
      BY <3>1, <3>6, DropFields
    <3> QED
      BY <2>1, <3>1, <3>4, <3>7, <3>2 DEF Closed
  <2>2. CASE t \notin NoFixes /\ t \in Updates
    <3> DEFINE n == Drop(Charged(told))
    <3>1. /\ n \in Records /\ n.attempt = NoAttempt /\ n.retries = r.retries + 1 /\ n.stage = r.stage
          /\ n.status = "needs_retry"
      BY <1>3, ChargedFields, DropFields
    <3>2. Answered(t) = n
      BY <1>4, <1>6, <2>2
    <3> HIDE DEF n
    <3>3. n.status = r.status \/ <<r.status, n.status>> \in Permitted
      BY <1>1, <3>1 DEF Permitted, Workable
    <3>4. s = n
      BY <3>1, <3>2, <3>3, CommitTo DEF Terminal
    <3> QED
      BY <2>2, <3>1, <3>4 DEF Closed
  <2>3. CASE t \notin NoFixes /\ t \notin Updates
    <3> DEFINE n == [told EXCEPT !.status = "unfixable"]
    <3>1. /\ n \in Records /\ n.status = "unfixable" /\ n.retries = r.retries /\ n.stage = r.stage
      BY <1>3, StatusFields DEF Statuses, Terminal
    <3>2. Answered(t) = n
      BY <1>4, <1>6, <2>3
    <3> HIDE DEF n
    <3>3. <<r.status, n.status>> \in Permitted
      BY <1>1, <3>1 DEF Permitted, Workable
    <3>4. s = Drop(n)
      BY <3>1, <3>2, <3>3, CommitTo DEF Terminal
    <3> QED
      BY <2>3, <3>1, <3>4, DropFields DEF Closed
  <2> QED
    BY <2>1, <2>2, <2>3
<1> QED
  BY <1>1, <1>5, <1>6 DEF GoesOn

\* To set the status that a task has already, or to end no task, changes nothing.
LEMMA SetStatusIdle ==
  ASSUME NEW f \in Queues, NEW S, NEW s, s \notin Terminal, \A t \in S \cap Tasks : f[t].status = s
  PROVE  SetStatus(f, S, s) = f
<1>1. ASSUME NEW t \in Tasks
      PROVE  SetStatus(f, S, s)[t] = f[t]
  <2>1. f[t] \in Records
    BY DEF Queues
  <2> DEFINE n == [f[t] EXCEPT !.status = s]
  <2>2. SetStatus(f, S, s)[t] = IF t \in S THEN Commit(f[t], n) ELSE f[t]
    BY DEF SetStatus, Committed
  <2>3. CASE t \in S
    <3>1. n = f[t] /\ n.status = s
      BY <2>1, <2>3 DEF Records
    <3> HIDE DEF n
    <3> QED
      BY <2>2, <2>3, <3>1, CommitTo
  <2> QED
    BY <2>2, <2>3
<1>2. SetStatus(f, S, s) = [t \in Tasks |-> SetStatus(f, S, s)[t]]
  BY DEF SetStatus, Committed
<1> QED
  BY <1>1, <1>2 DEF Queues

\* The stages of a package without a fix end with its status.
LEMMA GivenUpIdle ==
  ASSUME NEW f, Tidy(f)
  PROVE  GivenUp(f) = f
<1> DEFINE S == {t \in Live(f) : f[t].stage = "unfixable"}
<1>1. S = {}
  <2> SUFFICES ASSUME NEW t \in Live(f), f[t].stage = "unfixable" PROVE FALSE
    OBVIOUS
  <2>1. t \in Tasks /\ f[t].status \notin Terminal /\ CountedOne(f, t)
    BY DEF Live, Queue, Tidy, Counted
  <2> QED
    BY <2>1 DEF CountedOne, Terminal
<1>2. GivenUp(f) = SetStatus(f, S, "unfixable")
  BY DEF GivenUp
<1> HIDE DEF S
<1> QED
  BY <1>1, <1>2 DEF SetStatus, Committed, Tidy, Queues

\* Fewer than two attempts are open: there is but one.
LEMMA OpenedAlone ==
  ASSUME NEW f, Cardinality(Opened(f)) <= 1, NEW x \in Opened(f)
  PROVE  Opened(f) = {x}
<1>1. IsFiniteSet(Opened(f))
  BY TasksFinite, FS_Subset DEF Opened
<1>2. Cardinality(Opened(f)) \in Nat /\ Cardinality(Opened(f)) # 0
  BY <1>1, FS_CardinalityType, FS_EmptySet
<1> HIDE DEF Opened
<1>3. Cardinality(Opened(f)) = 1
  BY <1>2
<1> QED
  BY <1>1, <1>3, FS_Singleton

\* The pass after a worker: the batch goes on to QA as a whole, or fails as a whole.
LEMMA HeardAnswers ==
  ASSUME Flying, pc = "supervisor", ~qaDone, NEW g, g = BatchAnswered(HearWorkers)
  PROVE  /\ Tidy(g) /\ Waiting(g) /\ (Opened(g) = Opened(task) \/ Over(g))
         /\ \A t \in Opened(g) : g[t].attempt.verdict = "none" /\ ~g[t].attempt.read /\ g[t].attempt.runs = 0
         /\ \A t \in Tasks :
              /\ g[t].status = "qa_passed" => task[t].status = "qa_passed"
              /\ g[t].status = "unfixable" => task[t].status = "unfixable" \/ IsOpen(task, t)
              /\ g[t].retries # task[t].retries =>
                   g[t].retries = task[t].retries + 1 /\ IsOpen(task, t) /\ ~IsOpen(g, t)
<1> DEFINE O == Opened(task)
           H == HearWorkers
           good == \A t \in O : task[t].attempt.answer = "success"
<1>1. Tidy(task) /\ O \subseteq Tasks /\ \A t \in Tasks : task[t] \in Records
  BY DEF Flying, InFlight, Tidy, Queues, Opened
<1>2. H = [t \in Tasks |-> IF t \in O THEN Commit(task[t], Answered(t)) ELSE task[t]]
  <2>1. {t \in Open(task) : task[t].attempt.answer # "none" /\ ~task[t].attempt.heard} = O
    BY <1>1, OpenIsOpened DEF Flying, InFlight, Phases, AtAnswers, Tidy
  <2> QED
    BY <2>1 DEF HearWorkers, Committed
<1> HIDE DEF H
<1>3. ASSUME NEW t \in O
      PROVE  /\ H[t] \in Records
             /\ task[t].attempt.answer = "success" =>
                  /\ GoesOn(task[t], H[t]) /\ IsOpen(task, t) /\ H[t].attempt.batch = task[t].attempt.batch
                  /\ H[t].attempt.verdict = "none" /\ ~H[t].attempt.read /\ H[t].attempt.runs = 0
             /\ task[t].attempt.answer # "success" =>
                  /\ Closed(t, task[t], H[t]) /\ H[t].status \in {"needs_retry", "unfixable"}
                  /\ t \in Updates => H[t].status = "needs_retry" /\ H[t].retries = task[t].retries + 1
  <2>1. H[t] = Commit(task[t], Answered(t))
    BY <1>1, <1>2
  <2> QED
    BY <2>1, AnsweredOne
<1>4. H \in Queues /\ \A t \in Tasks \ O : H[t] = task[t]
  <2>1. \A t \in Tasks : H[t] \in Records
    BY <1>1, <1>2, <1>3
  <2> QED
    BY <1>2, <2>1 DEF Queues
<1>5. /\ Batch = {} \/ Batch = O
      /\ Batch = {} => Cardinality(O) <= 1
      /\ Batch \subseteq O /\ Batch \subseteq Updates
  <2>1. Batch = IF Cardinality(O) > 1 THEN O ELSE {}
    BY PassBatch
  <2>2. IsFiniteSet(O)
    BY <1>1, TasksFinite, FS_Subset
  <2>3. Cardinality(O) \in Nat
    BY <2>2, FS_CardinalityType
  <2> HIDE DEF O
  <2>4. Batch = {} => Cardinality(O) <= 1
    <3>1. O = {} => Cardinality(O) = 0
      BY FS_EmptySet
    <3> QED
      BY <2>1, <2>3, <3>1
  <2>5. ASSUME NEW t \in Batch
        PROVE  t \in Updates
    <3>1. t \in O /\ Cardinality(O) > 1
      BY <2>1
    <3>2. \E u \in O : u # t
      <4> SUFFICES ASSUME \A u \in O : u = t PROVE FALSE
        OBVIOUS
      <4>1. O = {t}
        BY <3>1
      <4> QED
        BY <3>1, <4>1, FS_Singleton
    <3> QED
      BY <1>1, <3>1, <3>2 DEF Tidy, OneBatch, O
  <2> QED
    BY <2>1, <2>4, <2>5
<1> DEFINE h == [t \in Tasks |-> Close([H[t] EXCEPT !.status = "needs_retry",
                                          !.retries = IF @ > task[t].retries THEN @ ELSE task[t].retries + 1])]
<1>6. g = IF \A t \in Batch : IsOpen(H, t) /\ H[t].attempt.answer = "success"
          THEN SetStatus(H, Batch, "optimistically_fixed")
          ELSE [t \in Tasks |-> IF t \in Batch THEN Commit(H[t], h[t]) ELSE H[t]]
  BY DEF BatchAnswered, Committed, H
<1> HIDE DEF h
<1>7. CASE good
  <2>1. \A t \in O : GoesOn(task[t], H[t])
    BY <1>3, <1>7
  <2>2. Tidy(H) /\ Opened(H) = O /\ Waiting(H) /\ \A t \in Tasks : H[t].retries = task[t].retries
    BY <1>1, <1>4, <2>1, AllGoOn
  <2>3. g = H
    <3>1. \A t \in Batch : IsOpen(H, t) /\ H[t].attempt.answer = "success"
      BY <1>5, <2>1, <2>2 DEF GoesOn, Opened
    <3>2. \A t \in Batch \cap Tasks : H[t].status = "optimistically_fixed"
      BY <1>5, <2>1 DEF GoesOn
    <3> QED
      BY <1>4, <1>6, <3>1, <3>2, SetStatusIdle DEF Terminal
  <2>4. \A t \in Tasks : /\ H[t].status = "qa_passed" => task[t].status = "qa_passed"
                         /\ H[t].status = "unfixable" => task[t].status = "unfixable"
    BY <1>4, <2>1 DEF GoesOn
  <2> QED
    BY <1>3, <1>7, <2>2, <2>3, <2>4
<1>8. CASE ~good
  <2>1. PICK x \in O : task[x].attempt.answer # "success"
    BY <1>8
  <2>2. /\ g \in Queues /\ \A t \in Tasks \ O : g[t] = task[t]
        /\ \A t \in O : Closed(t, task[t], g[t]) /\ g[t].status \in {"needs_retry", "unfixable"}
    <3>1. CASE Batch = {}
      <4>1. O = {x}
        BY <1>5, <3>1, OpenedAlone
      <4>2. g = H
        BY <1>4, <1>6, <3>1, SetStatusIdle DEF Terminal
      <4> QED
        BY <1>3, <1>4, <2>1, <4>1, <4>2
    <3>2. CASE Batch = O
      <4>1. ~(\A t \in Batch : IsOpen(H, t) /\ H[t].attempt.answer = "success")
        <5>1. ~IsOpen(H, x)
          BY <1>3, <2>1 DEF Closed, IsOpen, NoAttempt
        <5> QED
          BY <2>1, <3>2, <5>1
      <4>2. g = [t \in Tasks |-> IF t \in O THEN Commit(H[t], h[t]) ELSE H[t]]
        BY <1>6, <3>2, <4>1
      <4>3. ASSUME NEW t \in O
            PROVE  g[t] \in Records /\ Closed(t, task[t], g[t]) /\ g[t].status = "needs_retry"
        <5>1. /\ t \in Tasks /\ t \in Updates /\ t \notin NoFixes /\ H[t] \in Records /\ task[t].retries \in Nat
          BY <1>1, <1>3, <1>5, <3>2, TaskAssumption DEF Records
        <5>2. /\ H[t].status \in {"optimistically_fixed", "needs_retry"}
              /\ H[t].retries \in {task[t].retries, task[t].retries + 1} /\ H[t].stage = task[t].stage
          BY <1>3, <5>1 DEF GoesOn, Closed
        <5> DEFINE k == task[t].retries + 1
                   n == [H[t] EXCEPT !.status = "needs_retry", !.retries = k]
        <5>3. (IF H[t].retries > task[t].retries THEN H[t].retries ELSE task[t].retries + 1) = k
          BY <5>1, <5>2
        <5>4. h[t] = Close(n)
          BY <5>1, <5>3 DEF h
        <5>5. n \in Records /\ n.status = "needs_retry" /\ n.retries = k /\ n.stage = task[t].stage
          <6>1. k \in Nat /\ "needs_retry" \in Statuses
            BY <5>1 DEF Statuses, Workable
          <6> HIDE DEF k
          <6> QED
            BY <5>1, <5>2, <6>1 DEF Records
        <5> HIDE DEF n
        <5>6. /\ h[t] \in Records /\ h[t].status = "needs_retry" /\ h[t].retries = k
              /\ h[t].stage = task[t].stage /\ h[t].attempt = NoAttempt
          BY <5>4, <5>5, DropFields
        <5>7. h[t].status = H[t].status \/ <<H[t].status, h[t].status>> \in Permitted
          BY <5>2, <5>6 DEF Permitted
        <5>8. g[t] = h[t]
          BY <4>2, <5>1, <5>6, <5>7, CommitTo DEF Terminal
        <5> QED
          BY <5>1, <5>6, <5>8 DEF Closed
      <4>4. \A t \in Tasks : g[t] \in Records
        BY <1>1, <1>4, <4>2, <4>3
      <4>5. g \in Queues
        BY <4>2, <4>4 DEF Queues
      <4> QED
        BY <1>4, <4>2, <4>3, <4>5
    <3> QED
      BY <1>5, <3>1, <3>2
  <2>3. /\ Tidy(g) /\ Opened(g) = {} /\ Waiting(g)
        /\ \A t \in Tasks : g[t].retries # task[t].retries =>
             g[t].retries = task[t].retries + 1 /\ IsOpen(task, t) /\ ~IsOpen(g, t)
    BY <1>1, <2>2, AllClosed
  <2>4. \A t \in Tasks : g[t].status = "unfixable" => task[t].status = "unfixable" \/ IsOpen(task, t)
    BY <2>2 DEF Opened
  <2>5. Over(g)
    BY <2>2, <2>3 DEF Over
  <2> QED
    BY <2>2, <2>3, <2>4, <2>5
<1> QED
  BY <1>7, <1>8

\* The pass after QA: the answers were heard before, and the evaluations are the verdicts.
LEMMA HeardBefore ==
  ASSUME Flying, pc = "supervisor", qaDone
  PROVE  /\ BatchAnswered(HearWorkers) = task /\ Evaluations(task) = verdict
         /\ Judged(task) = {t \in Opened(task) : ~task[t].attempt.read}
<1>1. /\ Tidy(task) /\ Opened(task) \subseteq Tasks /\ Waiting(task)
      /\ \A t \in Tasks : verdict[t] = IF IsOpen(task, t) THEN task[t].attempt.verdict ELSE "none"
      /\ \A t \in Opened(task) : verdict[t] # "none"
  BY DEF Flying, InFlight, Phases, AtVerdicts, Opened
<1>2. Open(task) = Opened(task) /\ task \in Queues
  BY <1>1, OpenIsOpened DEF Tidy
<1>3. HearWorkers = task
  <2>1. {t \in Open(task) : task[t].attempt.answer # "none" /\ ~task[t].attempt.heard} = {}
    BY <1>1, <1>2 DEF Waiting
  <2> QED
    BY <1>2, <2>1 DEF HearWorkers, Committed, Queues
<1>4. Batch \subseteq Opened(task) /\ Recovered = Opened(task)
  <2>1. Batch = IF Cardinality(Opened(task)) > 1 THEN Opened(task) ELSE {}
    BY PassBatch
  <2> QED
    BY <2>1, PassBatch
<1>5. BatchAnswered(task) = task
  <2>1. \A t \in Batch : IsOpen(task, t) /\ task[t].attempt.answer = "success"
    BY <1>1, <1>4 DEF Waiting, Opened
  <2>2. \A t \in Batch \cap Tasks : task[t].status = "optimistically_fixed"
    <3>1. \A t \in Ready(task) : task[t].status = "optimistically_fixed"
      BY DEF Ready
    <3>2. Batch \subseteq Ready(task)
      BY <1>1, <1>4 DEF Waiting
    <3> QED
      BY <3>1, <3>2
  <2> QED
    BY <1>2, <2>1, <2>2, SetStatusIdle DEF BatchAnswered, Terminal
<1>6. Judged(task) = {t \in Opened(task) : ~task[t].attempt.read}
  BY <1>1, <1>2, <1>4 DEF Judged, Opened
<1>7. Evaluations(task) = verdict
  <2>1. verdict \in [Tasks -> {"none"} \cup Verdicts]
    BY DEF Flying, IInv, TypeInv
  <2>2. \A t \in Judged(task) : task[t].attempt.verdict = verdict[t]
    BY <1>1, <1>6 DEF Opened
  <2> QED
    BY <2>1, <2>2 DEF Evaluations
<1> QED
  BY <1>3, <1>5, <1>6, <1>7

\* What a settlement of the batch must keep to.
Verdicted(g, esc) ==
  /\ Tidy(g) /\ Waiting(g) /\ (Opened(g) = Opened(task) \/ Over(g))
  /\ \A t \in Opened(g) : g[t].attempt.runs > 0 /\ (g[t].attempt.read => Cardinality(Opened(g)) > 1)
  /\ \A t \in Tasks : g[t].retries # task[t].retries =>
       g[t].retries = task[t].retries + 1 /\ IsOpen(task, t) /\ ~IsOpen(g, t)
  /\ esc # Nobody => Opened(g) = {}
  /\ esc.reason = "DELTA" /\ Blamed # {} =>
       \A t \in Batch \ Blamed : /\ g[t].status = "pending" /\ ~IsOpen(g, t)
                                 /\ g[t].retries = task[t].retries /\ g[t].selected = task[t].selected
  /\ \A t \in Tasks : g[t].status \in {"qa_passed", "unfixable"} => g[t].status = task[t].status \/ IsOpen(task, t)
  /\ \/ \A t \in Opened(task) : g[t].status # "qa_passed"
     \/ \A t \in Opened(task) : g[t].status = "qa_passed" /\ verdict[t] = "pass"

\* Envelopes that are read, or ask for another run, leave the candidates to wait.
LEMMA ReadTogether ==
  ASSUME Flying, pc = "supervisor", qaDone, Batch # {}, NEW g, g = ReadQa(task)
  PROVE  /\ g \in Queues /\ \A t \in Tasks \ Opened(task) : g[t] = task[t]
         /\ \A t \in Opened(task) : GoesOn(task[t], g[t]) /\ g[t].selected = task[t].selected
<1> DEFINE again(t) == [task[t] EXCEPT !.attempt.reruns = @ + 1]
           seen(t) == [task[t] EXCEPT !.attempt.read = TRUE]
           n(t) == CASE t \in Inconclusive(task) \ Spent(task) -> again(t)
                     [] t \notin Inconclusive(task) \ Spent(task) /\ Batch = {} -> Drop(task[t])
                     [] OTHER -> seen(t)
<1>1. /\ task \in Queues /\ Waiting(task) /\ Judged(task) \subseteq Opened(task)
      /\ \A t \in Opened(task) : task[t].status = "optimistically_fixed"
  <2>1. Tidy(task) /\ Waiting(task)
    BY DEF Flying, InFlight, Phases, AtVerdicts
  <2>2. Judged(task) \subseteq Opened(task)
    BY HeardBefore
  <2>3. \A t \in Ready(task) : task[t].status = "optimistically_fixed"
    BY DEF Ready
  <2> QED
    BY <2>1, <2>2, <2>3 DEF Tidy, Waiting
<1>2. g \in Queues
  BY <1>1, ReadQaFollows DEF QueueFollows
<1>3. g = [t \in Tasks |-> IF t \in Judged(task) THEN Commit(task[t], n(t)) ELSE task[t]]
  BY DEF ReadQa, Committed
<1>4. ASSUME NEW t \in Opened(task)
      PROVE  GoesOn(task[t], g[t]) /\ g[t].selected = task[t].selected
  <2>1. t \in Tasks /\ task[t] \in Records /\ task[t].attempt \in Attempts /\ GoesOn(task[t], task[t])
    BY <1>1 DEF Queues, Records, Waiting, Opened, GoesOn
  <2>2. /\ GoesOn(task[t], again(t)) /\ again(t).selected = task[t].selected
    <3> DEFINE a == [task[t].attempt EXCEPT !.reruns = @ + 1]
    <3>1. /\ a.batch = task[t].attempt.batch /\ a.runs = task[t].attempt.runs
          /\ a.answer = task[t].attempt.answer /\ a.heard = task[t].attempt.heard
      BY <2>1 DEF Attempts
    <3>2. again(t) = [task[t] EXCEPT !.attempt = a]
      OBVIOUS
    <3> HIDE DEF a
    <3> QED
      BY <2>1, <3>1, <3>2 DEF GoesOn, Records
  <2>3. GoesOn(task[t], seen(t)) /\ seen(t).selected = task[t].selected
    BY <2>1 DEF GoesOn, Records, Attempts
  <2>4. n(t) \in {again(t), seen(t)}
    <3> HIDE DEF again, seen
    <3> QED OBVIOUS
  <2> HIDE DEF n
  <2>5. GoesOn(task[t], n(t)) /\ n(t).selected = task[t].selected
    BY <2>2, <2>3, <2>4
  <2>6. Commit(task[t], n(t)) = n(t)
    BY <1>1, <2>5, CommitTo DEF GoesOn, Terminal
  <2> QED
    BY <1>3, <2>1, <2>5, <2>6
<1>5. \A t \in Tasks \ Opened(task) : g[t] = task[t]
  <2> HIDE DEF n
  <2> QED
    BY <1>1, <1>3
<1> QED
  BY <1>2, <1>4, <1>5

\* A batch is settled as a whole, and not left open if the portfolio is to be called.
LEMMA SettledTogether ==
  ASSUME Flying, pc = "supervisor", qaDone, Batch # {}, NEW esc, esc = Escalated(verdict),
         NEW g, g = SettledBatch(ReadQa(task), verdict, esc, Spent(task))
  PROVE  Verdicted(g, esc)
<1> DEFINE O == Opened(task)
           R == ReadQa(task)
           failed == \E t \in Batch : verdict[t] \in Failing \cup {"none"}
           pending == \E t \in Batch : verdict[t] = "inconclusive"
           retried == IF esc.reason = "DELTA" /\ Blamed # {} THEN Blamed ELSE Batch
           n(t) == Close(IF t \in retried THEN Charged(R[t]) ELSE [R[t] EXCEPT !.status = "pending"])
           other == [t \in Tasks |-> IF t \in Batch THEN Commit(R[t], n(t)) ELSE R[t]]
<1>1. /\ Tidy(task) /\ O \subseteq Tasks /\ O # {} /\ Waiting(task)
      /\ \A t \in O : verdict[t] \in {"pass", "inconclusive"} \cup Failing
      /\ \A t \in O : verdict[t] = task[t].attempt.verdict /\ task[t].attempt.runs > 0
      /\ escalation = Nobody \/ Attributed
  <2>1. AtVerdicts /\ Tidy(task) /\ verdict \in [Tasks -> {"none"} \cup Verdicts]
    BY DEF Flying, InFlight, Phases, IInv, TypeInv
  <2> QED
    BY <2>1, BoundAssumption DEF AtVerdicts, Opened
<1>2. Batch = O /\ Cardinality(O) > 1 /\ O \cap NoFixes = {}
  <2>1. Batch = IF Cardinality(O) > 1 THEN O ELSE {}
    BY PassBatch
  <2>2. ASSUME NEW t \in O
        PROVE  t \notin NoFixes
    <3> SUFFICES t \in Updates
      BY TaskAssumption
    <3>1. \E u \in O : u # t
      <4> SUFFICES ASSUME \A u \in O : u = t PROVE FALSE
        OBVIOUS
      <4>1. O = {t}
        OBVIOUS
      <4> QED
        BY <2>1, <4>1, FS_Singleton
    <3> QED
      BY <1>1, <3>1 DEF Tidy, OneBatch
  <2> QED
    BY <2>1, <2>2
<1>3. /\ R \in Queues /\ \A t \in Tasks \ O : R[t] = task[t]
      /\ \A t \in O : GoesOn(task[t], R[t]) /\ R[t].selected = task[t].selected
  BY ReadTogether
<1> HIDE DEF R
<1>4. Tidy(R) /\ Opened(R) = O /\ Waiting(R) /\ \A t \in Tasks : R[t].retries = task[t].retries
  BY <1>1, <1>3, AllGoOn
<1>5. ASSUME esc # Nobody
      PROVE  failed
  <2>1. CASE \E t \in Batch : verdict[t] = "conflict"
    BY <2>1 DEF Failing
  <2>2. CASE ~\E t \in Batch : verdict[t] = "conflict"
    <3>1. escalation # Nobody
      BY <1>5, <2>2 DEF Escalated, Nobody
    <3>2. \E t \in O : verdict[t] \in TestsFailed
      BY <1>1, <3>1 DEF Attributed
    <3> QED
      BY <1>2, <3>2 DEF TestsFailed, Failing
  <2> QED
    BY <2>1, <2>2
<1>6. Spent(task) \cap Batch # {} => pending
  BY <1>1, <1>2 DEF Spent, Inconclusive
<1>7. g = CASE ~failed /\ Spent(task) \cap Batch # {} -> SetStatus(R, Batch, "inconclusive")
            [] ~failed /\ Spent(task) \cap Batch = {} /\ pending -> SetStatus(R, Batch, "optimistically_fixed")
            [] ~failed /\ ~pending -> SetStatus(R, Batch, "qa_passed")
            [] OTHER -> other
  BY DEF SettledBatch, Committed, R
<1> HIDE DEF failed, pending, other
<1>8. \/ failed /\ g = other
      \/ ~failed /\ pending /\ g = SetStatus(R, Batch, "inconclusive")
      \/ ~failed /\ pending /\ g = SetStatus(R, Batch, "optimistically_fixed")
      \/ ~failed /\ ~pending /\ g = SetStatus(R, Batch, "qa_passed")
  BY <1>6, <1>7
\* The end of the batch with one status.
<1>9. ASSUME NEW s \in {"inconclusive", "qa_passed"}, g = SetStatus(R, Batch, s), ~failed
      PROVE  /\ Verdicted(g, esc) \/ s = "qa_passed"
             /\ (\A t \in O : verdict[t] = "pass") => Verdicted(g, esc)
  <2>1. ASSUME NEW t \in O
        PROVE  /\ g[t] \in Records /\ Closed(t, task[t], g[t]) /\ g[t].status = s
               /\ g[t].retries = task[t].retries
    <3> DEFINE m == [R[t] EXCEPT !.status = s]
    <3>1. t \in Tasks /\ R[t] \in Records /\ GoesOn(task[t], R[t]) /\ s \in Statuses
      BY <1>1, <1>3 DEF Queues, Statuses, Terminal
    <3>2. m \in Records /\ m.status = s /\ m.retries = R[t].retries /\ m.stage = R[t].stage
      BY <3>1, StatusFields
    <3>3. g[t] = Commit(R[t], m)
      BY <1>2, <1>9, <3>1 DEF SetStatus, Committed
    <3> HIDE DEF m
    <3>4. <<R[t].status, m.status>> \in Permitted /\ m.status \in Terminal
      BY <3>1, <3>2 DEF GoesOn, Permitted, Terminal
    <3>5. g[t] = Drop(m)
      BY <3>3, <3>4, CommitTo
    <3> QED
      BY <3>1, <3>2, <3>5, DropFields DEF GoesOn, Closed
  <2>2. \A t \in Tasks \ O : g[t] = task[t]
    BY <1>2, <1>3, <1>9 DEF SetStatus, Committed
  <2>3. g \in Queues
    <3>1. \A t \in Tasks : g[t] \in Records
      BY <1>1, <2>1, <2>2 DEF Tidy, Queues
    <3> QED
      BY <1>9, <3>1 DEF SetStatus, Committed, Queues
  <2>4. /\ Tidy(g) /\ Opened(g) = {} /\ Waiting(g)
        /\ \A t \in Tasks : g[t].retries # task[t].retries =>
             g[t].retries = task[t].retries + 1 /\ IsOpen(task, t) /\ ~IsOpen(g, t)
    BY <1>1, <2>1, <2>2, <2>3, AllClosed
  <2>5. esc = Nobody
    BY <1>5, <1>9
  <2>6. esc.reason # "DELTA"
    BY <2>5 DEF Nobody
  <2>7. \A t \in Tasks : g[t].status \in {"qa_passed", "unfixable"} => g[t].status = task[t].status \/ IsOpen(task, t)
    BY <2>2 DEF Opened
  <2>8. Over(g)
    BY <1>1, <2>1, <2>4 DEF Over, Waiting
  <2> QED
    BY <2>1, <2>4, <2>5, <2>6, <2>7, <2>8 DEF Verdicted
<1>10. CASE failed /\ g = other
  <2>1. ASSUME NEW t \in O
        PROVE  /\ g[t] \in Records /\ Closed(t, task[t], g[t]) /\ g[t].status # "qa_passed"
               /\ t \notin retried => /\ g[t].status = "pending" /\ g[t].retries = task[t].retries
                                      /\ g[t].selected = task[t].selected
               /\ t \in retried => g[t].status = "needs_retry" /\ g[t].retries = task[t].retries + 1
    <3>1. t \in Tasks /\ R[t] \in Records /\ GoesOn(task[t], R[t]) /\ t \notin NoFixes
      BY <1>1, <1>2, <1>3 DEF Queues
    <3>2. g[t] = Commit(R[t], n(t))
      BY <1>2, <1>10, <3>1 DEF other
    <3>3. CASE t \in retried
      <4> DEFINE m == Close(Charged(R[t]))
      <4>1. /\ m \in Records /\ m.status = "needs_retry" /\ m.retries = R[t].retries + 1 /\ m.stage = R[t].stage
            /\ m.attempt = NoAttempt
        BY <3>1, ChargedFields, DropFields
      <4>2. n(t) = m
        BY <3>3
      <4> HIDE DEF m, n, retried
      <4>3. <<R[t].status, m.status>> \in Permitted /\ m.status \notin Terminal
        BY <3>1, <4>1 DEF GoesOn, Permitted, Terminal
      <4>4. g[t] = m
        BY <3>2, <4>2, <4>3, CommitTo
      <4> QED
        BY <3>1, <3>3, <4>1, <4>4 DEF Closed, GoesOn
    <3>4. CASE t \notin retried
      <4> DEFINE m == [R[t] EXCEPT !.status = "pending"]
                 c == Close(m)
      <4>1. /\ m \in Records /\ m.status = "pending" /\ m.retries = R[t].retries /\ m.stage = R[t].stage
            /\ m.selected = R[t].selected
        BY <3>1, StatusFields DEF Statuses, Workable
      <4>2. n(t) = c
        BY <3>4
      <4> HIDE DEF m, n, retried
      <4>3. /\ c \in Records /\ c.status = "pending" /\ c.retries = R[t].retries /\ c.stage = R[t].stage
            /\ c.attempt = NoAttempt /\ c.selected = R[t].selected
        BY <4>1, DropFields
      <4> HIDE DEF c
      <4>4. <<R[t].status, c.status>> \in Permitted /\ c.status \notin Terminal
        BY <3>1, <4>3 DEF GoesOn, Permitted, Terminal
      <4>5. g[t] = c
        BY <3>2, <4>2, <4>4, CommitTo
      <4> QED
        BY <1>3, <3>1, <3>4, <4>3, <4>5 DEF Closed, GoesOn
    <3> QED
      BY <3>3, <3>4
  <2>7. retried \cap O # {}
    BY <1>2 DEF Blamed
  <2> HIDE DEF retried, n
  <2>2. \A t \in Tasks \ O : g[t] = task[t]
    BY <1>2, <1>3, <1>10 DEF other
  <2>3. g \in Queues
    <3>1. \A t \in Tasks : g[t] \in Records
      BY <1>1, <2>1, <2>2 DEF Tidy, Queues
    <3> QED
      BY <1>10, <3>1 DEF other, Queues
  <2>4. /\ Tidy(g) /\ Opened(g) = {} /\ Waiting(g)
        /\ \A t \in Tasks : g[t].retries # task[t].retries =>
             g[t].retries = task[t].retries + 1 /\ IsOpen(task, t) /\ ~IsOpen(g, t)
    BY <1>1, <2>1, <2>2, <2>3, AllClosed
  <2>5. \A t \in Tasks : g[t].status \in {"qa_passed", "unfixable"} => g[t].status = task[t].status \/ IsOpen(task, t)
    BY <2>2 DEF Opened
  <2>6. esc.reason = "DELTA" /\ Blamed # {} =>
          \A t \in Batch \ Blamed : /\ g[t].status = "pending" /\ ~IsOpen(g, t)
                                    /\ g[t].retries = task[t].retries /\ g[t].selected = task[t].selected
    <3>1. \A t \in O : ~IsOpen(g, t)
      BY <1>1, <2>4 DEF Opened
    <3> QED
      BY <1>2, <2>1, <3>1 DEF retried
  <2>8. Over(g)
    BY <1>1, <2>1, <2>4, <2>7 DEF Over, Waiting
  <2> QED
    BY <2>1, <2>4, <2>5, <2>6, <2>8 DEF Verdicted
<1>11. CASE ~failed /\ g = SetStatus(R, Batch, "optimistically_fixed")
  <2>1. g = R
    <3>1. \A t \in Batch \cap Tasks : R[t].status = "optimistically_fixed"
      BY <1>2, <1>3 DEF GoesOn
    <3> QED
      BY <1>3, <1>11, <3>1, SetStatusIdle DEF Terminal
  <2>2. esc = Nobody
    BY <1>5, <1>11
  <2>3. esc.reason # "DELTA"
    BY <2>2 DEF Nobody
  <2>4. /\ \A t \in O : R[t].attempt.runs > 0 /\ R[t].status # "qa_passed"
        /\ \A t \in Tasks : R[t].status \in {"qa_passed", "unfixable"} => R[t].status = task[t].status
    BY <1>1, <1>3 DEF GoesOn
  <2> QED
    BY <1>2, <1>4, <2>1, <2>2, <2>3, <2>4 DEF Verdicted
<1>12. CASE ~failed /\ ~pending /\ g = SetStatus(R, Batch, "qa_passed")
  <2>1. \A t \in O : verdict[t] = "pass"
    BY <1>1, <1>2, <1>12 DEF failed, pending
  <2> QED
    BY <1>9, <1>12, <2>1
<1> QED
  BY <1>8, <1>9, <1>10, <1>11, <1>12

\* A candidate alone is settled by its evaluation, whose envelope is read for the first time.
LEMMA SettledByItself ==
  ASSUME Flying, pc = "supervisor", qaDone, Batch = {}, NEW esc, esc = Escalated(verdict),
         NEW g, g = SettledAlone(ReadQa(task), verdict, Judged(task), Spent(task))
  PROVE  Verdicted(g, esc)
<1> DEFINE O == Opened(task)
           R == ReadQa(task)
           again(t) == [task[t] EXCEPT !.attempt.reruns = @ + 1]
           seen(t) == [task[t] EXCEPT !.attempt.read = TRUE]
           n(t) == CASE t \in Inconclusive(task) \ Spent(task) -> again(t)
                     [] t \notin Inconclusive(task) \ Spent(task) /\ Batch = {} -> Drop(task[t])
                     [] OTHER -> seen(t)
           S == {t \in Tasks : /\ verdict[t] # "none" /\ (IsOpen(R, t) => t \in Judged(task))
                               /\ R[t].status \notin {"unfixable", "qa_passed"}}
           to(t, s) == [R[t] EXCEPT !.status = s]
           m(t) == CASE t \in Spent(task) -> to(t, "inconclusive")
                     [] t \notin Spent(task) /\ verdict[t] = "inconclusive" -> to(t, "optimistically_fixed")
                     [] verdict[t] = "pass" -> to(t, "qa_passed")
                     [] verdict[t] = "conflict" -> Close(Charged(R[t]))
                     [] verdict[t] \in TestsFailed /\ t \in NoFixes -> NextStage(R[t])
                     [] OTHER -> Drop(Charged(R[t]))
<1>1. PICK x \in Tasks : /\ O = {x} /\ ~task[x].attempt.read /\ IsOpen(task, x)
                         /\ task[x].status = "optimistically_fixed"
  <2>1. /\ Tidy(task) /\ O # {} /\ Waiting(task)
    BY DEF Flying, InFlight, Phases, AtVerdicts
  <2>2. Cardinality(O) <= 1
    <3>1. Batch = IF Cardinality(O) > 1 THEN O ELSE {}
      BY PassBatch
    <3>2. IsFiniteSet(O)
      BY TasksFinite, FS_Subset DEF Opened
    <3>3. Cardinality(O) \in Nat
      BY <3>2, FS_CardinalityType
    <3> QED
      BY <2>1, <3>1, <3>3
  <2>3. PICK x \in O : TRUE
    BY <2>1
  <2>4. O = {x}
    BY <2>2, OpenedAlone
  <2>5. x \in Tasks /\ IsOpen(task, x)
    BY DEF Opened
  <2>6. x \in Ready(task)
    BY <2>1 DEF Waiting
  <2>7. ~task[x].attempt.read
    <3>1. Cardinality(O) < 2
      BY <2>4, FS_Singleton
    <3> QED
      BY <3>1 DEF Flying, InFlight, ReadInBatch
  <2> QED
    BY <2>4, <2>5, <2>6, <2>7 DEF Ready
<1>2. /\ Tidy(task) /\ task \in Queues /\ task[x] \in Records /\ GoesOn(task[x], task[x])
      /\ verdict[x] \in {"pass", "inconclusive"} \cup Failing
      /\ x \in NoFixes => verdict[x] # "conflict"
      /\ verdict[x] = task[x].attempt.verdict /\ task[x].attempt.runs > 0
      /\ \A t \in Tasks \ {x} : verdict[t] = "none"
      /\ escalation = Nobody
  <2>1. AtVerdicts /\ Tidy(task) /\ verdict \in [Tasks -> {"none"} \cup Verdicts] /\ pc = "supervisor" /\ qaDone
    BY DEF Flying, InFlight, Phases, IInv, TypeInv
  <2>2. task[x] \in Records /\ GoesOn(task[x], task[x]) /\ task \in Queues
    BY <1>1, <2>1 DEF Tidy, Queues, AtVerdicts, Waiting, GoesOn
  <2>3. verdict[x] \in {"pass", "inconclusive"} \cup Failing
    BY <1>1, <2>1, BoundAssumption DEF AtVerdicts
  <2>4. \A t \in Tasks \ {x} : verdict[t] = "none"
    BY <1>1, <2>1 DEF AtVerdicts, Opened
  <2>5. escalation = Nobody
    <3>1. ~(Cardinality(O) > 1)
      <4>1. O = {x}
        BY <1>1
      <4>2. Cardinality(O) = 1
        BY <4>1, FS_Singleton
      <4> QED
        BY <4>2
    <3> QED
      BY <2>1, <3>1 DEF AtVerdicts, Attributed
  <2> QED
    BY <1>1, <2>1, <2>2, <2>3, <2>4, <2>5 DEF AtVerdicts
<1>3. Judged(task) = {x}
  BY <1>1, HeardBefore
<1>4. R = [t \in Tasks |-> IF t \in {x} THEN Commit(task[t], n(t)) ELSE task[t]]
  BY <1>3 DEF ReadQa, Committed
<1>5. g = [t \in Tasks |-> IF t \in S THEN Commit(R[t], m(t)) ELSE R[t]]
  BY DEF SettledAlone, Committed
<1> HIDE DEF R, n, m
<1>6. R \in Queues /\ R[x] = Commit(task[x], n(x)) /\ \A t \in Tasks \ {x} : R[t] = task[t]
  <2>1. R \in Queues
    BY <1>2, ReadQaFollows DEF QueueFollows, R
  <2> QED
    BY <1>4, <2>1
<1>7. \A t \in Tasks \ {x} : t \notin S
  BY <1>2
<1>8. esc # Nobody => esc = [reason |-> "CONFLICT", forced |-> {}] /\ verdict[x] = "conflict"
  BY <1>2 DEF Escalated, Nobody
<1>9. CASE x \in Inconclusive(task) \ Spent(task)
  <2>1. verdict[x] = "inconclusive"
    BY <1>2, <1>9 DEF Inconclusive
  <2>2. n(x) = again(x)
    BY <1>9 DEF n
  <2> HIDE DEF S
  <2>3. GoesOn(task[x], again(x)) /\ again(x).attempt.read = task[x].attempt.read
    <3> DEFINE a == [task[x].attempt EXCEPT !.reruns = @ + 1]
    <3>1. /\ a.batch = task[x].attempt.batch /\ a.runs = task[x].attempt.runs /\ a.read = task[x].attempt.read
          /\ a.answer = task[x].attempt.answer /\ a.heard = task[x].attempt.heard
      BY <1>2 DEF Records, Attempts
    <3>2. again(x) = [task[x] EXCEPT !.attempt = a]
      OBVIOUS
    <3> HIDE DEF a
    <3> QED
      BY <1>2, <3>1, <3>2 DEF GoesOn, Records
  <2> HIDE DEF again
  <2>4. R[x] = again(x)
    <3>1. again(x).status = task[x].status /\ again(x).status \notin Terminal
      BY <1>1, <2>3 DEF GoesOn, Terminal
    <3> QED
      BY <1>6, <2>2, <3>1, CommitTo
  <2>5. m(x) = [R[x] EXCEPT !.status = "optimistically_fixed"]
    BY <1>9, <2>1 DEF m, TestsFailed
  <2>6. m(x) = R[x]
    <3>1. R[x] \in Records /\ R[x].status = "optimistically_fixed"
      BY <1>6, <2>3, <2>4 DEF GoesOn, Queues
    <3> QED
      BY <2>5, <3>1 DEF Records
  <2>7. Commit(R[x], R[x]) = R[x]
    BY <2>3, <2>4, CommitTo DEF GoesOn, Terminal
  <2>8. g = R
    <3>1. \A t \in Tasks : g[t] = R[t]
      BY <1>5, <1>7, <2>6, <2>7
    <3> QED
      BY <1>5, <1>6, <3>1 DEF Queues
  <2>9. Tidy(g) /\ Opened(g) = O /\ Waiting(g) /\ \A t \in Tasks : g[t].retries = task[t].retries
    BY <1>1, <1>2, <1>6, <2>3, <2>4, <2>8, AllGoOn
  <2>10. esc = Nobody
    BY <1>8, <2>1
  <2>11. esc.reason # "DELTA"
    BY <2>10 DEF Nobody
  <2>12. /\ \A t \in O : g[t].attempt.runs > 0 /\ g[t].status # "qa_passed" /\ ~g[t].attempt.read
         /\ \A t \in Tasks : g[t].status \in {"qa_passed", "unfixable"} => g[t].status = task[t].status
    BY <1>1, <1>2, <1>6, <2>3, <2>4, <2>8 DEF GoesOn
  <2> QED
    BY <2>9, <2>10, <2>11, <2>12 DEF Verdicted
<1>10. CASE x \notin Inconclusive(task) \ Spent(task)
  <2>1. n(x) = Drop(task[x])
    BY <1>10 DEF n
  <2>2. /\ R[x] \in Records /\ R[x].status = "optimistically_fixed" /\ R[x].retries = task[x].retries
        /\ R[x].stage = task[x].stage /\ R[x].attempt = NoAttempt
    <3> DEFINE d == Drop(task[x])
    <3>1. /\ d \in Records /\ d.status = "optimistically_fixed" /\ d.retries = task[x].retries
          /\ d.stage = task[x].stage /\ d.attempt = NoAttempt
      BY <1>1, <1>2, DropFields
    <3> HIDE DEF d
    <3>2. Commit(task[x], d) = d
      BY <1>1, <3>1, CommitTo DEF Terminal
    <3> QED
      BY <1>6, <2>1, <3>1, <3>2 DEF d
  <2>3. x \in S
    BY <1>2, <1>3, <2>2 DEF Failing
  <2>4. g[x] = Commit(R[x], m(x))
    BY <1>5, <2>3
  <2> HIDE DEF S
  <2>5. x \in Spent(task) => verdict[x] = "inconclusive"
    BY <1>2 DEF Spent, Inconclusive
  <2>6. verdict[x] = "inconclusive" => x \in Spent(task)
    BY <1>2, <1>3, <1>10 DEF Inconclusive
  <2>7. /\ g[x] \in Records /\ Closed(x, task[x], g[x])
        /\ g[x].status = "qa_passed" => verdict[x] = "pass" /\ g[x].retries = task[x].retries
        /\ g[x].status # "pending"
    <3>1. ASSUME NEW s \in {"inconclusive", "qa_passed"}, m(x) = to(x, s)
          PROVE  /\ g[x] \in Records /\ Closed(x, task[x], g[x]) /\ g[x].status = s
                 /\ g[x].retries = task[x].retries
      <4> DEFINE k == [R[x] EXCEPT !.status = s]
      <4>1. k \in Records /\ k.status = s /\ k.retries = R[x].retries /\ k.stage = R[x].stage
        BY <2>2, StatusFields DEF Statuses, Terminal
      <4>2. m(x) = k
        BY <3>1
      <4> HIDE DEF k
      <4>3. <<R[x].status, k.status>> \in Permitted /\ k.status \in Terminal
        BY <2>2, <4>1 DEF Permitted, Terminal
      <4>4. g[x] = Drop(k)
        BY <2>4, <4>2, <4>3, CommitTo
      <4> QED
        BY <2>2, <4>1, <4>4, DropFields DEF Closed
    <3>2. ASSUME x \notin NoFixes, m(x) \in {Close(Charged(R[x])), Drop(Charged(R[x]))}
          PROVE  /\ g[x] \in Records /\ Closed(x, task[x], g[x])
                 /\ g[x].status \notin {"qa_passed", "pending"}
      <4>1. /\ m(x) \in Records /\ m(x).status = "needs_retry" /\ m(x).retries = R[x].retries + 1
            /\ m(x).stage = R[x].stage /\ m(x).attempt = NoAttempt
        BY <2>2, <3>2, ChargedFields, DropFields
      <4>2. <<R[x].status, m(x).status>> \in Permitted /\ m(x).status \notin Terminal
        BY <2>2, <4>1 DEF Permitted, Terminal
      <4>3. g[x] = m(x)
        BY <2>4, <4>2, CommitTo
      <4> QED
        BY <2>2, <3>2, <4>1, <4>3 DEF Closed
    <3>3. ASSUME x \in NoFixes, m(x) = NextStage(R[x])
          PROVE  /\ g[x] \in Records /\ Closed(x, task[x], g[x])
                 /\ g[x].status \notin {"qa_passed", "pending"}
      <4>1. /\ m(x) \in Records /\ m(x).attempt = NoAttempt /\ m(x).retries = R[x].retries + 1
            /\ R[x].stage = "package_removal" => m(x).status = "needs_retry" /\ m(x).stage = "code_removal"
            /\ R[x].stage # "package_removal" => m(x).status = "unfixable" /\ m(x).stage = "unfixable"
        BY <2>2, <3>3, NextStageFields
      <4>2. m(x).status \in {"needs_retry", "unfixable"}
        BY <4>1
      <4>3. <<R[x].status, m(x).status>> \in Permitted
        BY <2>2, <4>2 DEF Permitted
      <4>4. g[x] = IF m(x).status \in Terminal THEN Drop(m(x)) ELSE m(x)
        BY <2>4, <4>3, CommitTo
      <4>5. /\ g[x] \in Records /\ g[x].status = m(x).status /\ g[x].retries = m(x).retries
            /\ g[x].stage = m(x).stage /\ g[x].attempt = NoAttempt
        BY <4>1, <4>4, DropFields
      <4> QED
        BY <2>2, <3>3, <4>1, <4>2, <4>5 DEF Closed
    <3> HIDE DEF to
    <3>4. CASE x \in Spent(task)
      <4>1. m(x) = to(x, "inconclusive")
        BY <2>5, <3>4 DEF m, TestsFailed
      <4> QED
        BY <3>1, <4>1
    <3>5. CASE x \notin Spent(task) /\ verdict[x] = "pass"
      <4>1. m(x) = to(x, "qa_passed")
        BY <3>5 DEF m, TestsFailed
      <4> QED
        BY <3>1, <3>5, <4>1
    <3>6. CASE x \notin Spent(task) /\ verdict[x] = "conflict"
      <4>1. m(x) = Close(Charged(R[x])) /\ x \notin NoFixes
        BY <1>2, <3>6 DEF m, TestsFailed
      <4> QED
        BY <3>2, <4>1
    <3>7. CASE x \notin Spent(task) /\ verdict[x] \in TestsFailed /\ x \in NoFixes
      <4>1. m(x) = NextStage(R[x])
        BY <3>7 DEF m, TestsFailed
      <4> QED
        BY <3>3, <3>7, <4>1
    <3>8. CASE x \notin Spent(task) /\ verdict[x] \in TestsFailed /\ x \notin NoFixes
      <4>1. m(x) = Drop(Charged(R[x]))
        BY <3>8 DEF m, TestsFailed
      <4> QED
        BY <3>2, <3>8, <4>1
    <3> QED
      BY <1>2, <2>6, <3>4, <3>5, <3>6, <3>7, <3>8 DEF Failing, TestsFailed
  <2>8. \A t \in Tasks \ O : g[t] = task[t]
    BY <1>1, <1>5, <1>6, <1>7
  <2>9. g \in Queues
    <3>1. \A t \in Tasks : g[t] \in Records
      BY <1>1, <1>2, <2>7, <2>8 DEF Queues
    <3> QED
      BY <1>5, <3>1 DEF Queues
  <2>10. /\ Tidy(g) /\ Opened(g) = {} /\ Waiting(g)
         /\ \A t \in Tasks : g[t].retries # task[t].retries =>
              g[t].retries = task[t].retries + 1 /\ IsOpen(task, t) /\ ~IsOpen(g, t)
    BY <1>1, <1>2, <2>7, <2>8, <2>9, AllClosed
  <2>11. esc.reason # "DELTA"
    BY <1>8 DEF Nobody
  <2>12. \A t \in Tasks : g[t].status \in {"qa_passed", "unfixable"} => g[t].status = task[t].status \/ IsOpen(task, t)
    BY <2>8 DEF Opened
  <2>13. Over(g)
    <3>1. Ready(task) = Opened(task)
      BY DEF Flying, InFlight, Phases, AtVerdicts, Waiting
    <3> QED
      BY <1>1, <2>7, <2>10, <3>1 DEF Over
  <2> QED
    BY <1>1, <2>7, <2>10, <2>11, <2>12, <2>13 DEF Verdicted
<1> QED
  BY <1>9, <1>10

LEMMA ReconcileFlies ==
  ASSUME Flying, Reconcile
  PROVE  InFlight' /\ Fair
<1> DEFINE heard == BatchAnswered(HearWorkers)
           e == Evaluations(heard)
           esc == Escalated(e)
           settled == Settled(heard, e, esc)
<1>1. /\ pc = "supervisor" /\ pc' = "plan" /\ Reconciled(heard, e, esc)
      /\ active' = Recovered /\ decision' = NoDecision /\ qaDone' = qaDone
  BY DEF Reconcile
<1>2. Tidy(task) /\ TypeInv /\ HandedOverEnded /\ task \in Queues
  BY DEF Flying, InFlight, IInv, TypeInv
<1>3. Recovered = Opened(task)
  BY <1>1, PassBatch
<1>4. QueueFollows(task, heard) /\ heard \in Queues
  <2>1. HearWorkers \in Queues /\ QueueFollows(task, HearWorkers)
    BY <1>2, HearWorkersFollows DEF QueueFollows
  <2> QED
    BY <1>2, <2>1, BatchAnsweredFollows, QueueTrans DEF QueueFollows
<1> HIDE DEF heard, e, esc
<1>5. QueueFollows(task, GivenUp(settled))
  BY <1>2, <1>4, SettledFollows, QueueTrans
<1>6. /\ verdict' = e /\ escalation' = esc
      /\ task' = HandedOver(GivenUp(settled), e)
      /\ replay' = [t \in Tasks |-> IF /\ qaDone /\ esc.reason = "DELTA"
                                       /\ Blamed # {} /\ t \in Batch \ Blamed
                                    THEN heard[t].selected ELSE replay[t]]
  BY <1>1 DEF Reconciled
<1> HIDE DEF settled
<1>7. ASSUME Tidy(settled)
      PROVE  task' = settled
  <2>1. GivenUp(settled) = settled
    BY <1>7, GivenUpIdle
  <2>2. QueueFollows(task, settled) /\ settled \in Queues
    BY <1>5, <2>1 DEF QueueFollows
  <2> QED
    BY <1>2, <1>6, <2>1, <2>2, NoneOvertaken
<1>8. CASE ~qaDone
  <2>1. /\ Tidy(heard) /\ Waiting(heard) /\ (Opened(heard) = Opened(task) \/ Over(heard))
        /\ \A t \in Opened(heard) : heard[t].attempt.verdict = "none" /\ ~heard[t].attempt.read /\ heard[t].attempt.runs = 0
        /\ \A t \in Tasks :
             /\ heard[t].status = "qa_passed" => task[t].status = "qa_passed"
             /\ heard[t].status = "unfixable" => task[t].status = "unfixable" \/ IsOpen(task, t)
             /\ heard[t].retries # task[t].retries =>
                  heard[t].retries = task[t].retries + 1 /\ IsOpen(task, t) /\ ~IsOpen(heard, t)
    BY <1>1, <1>8, HeardAnswers DEF heard
  <2>2. settled = heard
    <3>1. Open(heard) = Opened(heard)
      BY <2>1, OpenIsOpened DEF Tidy
    <3>2. Judged(heard) = {}
      BY <2>1, <3>1 DEF Judged
    <3>3. ReadQa(heard) = heard
      BY <1>4, <3>2 DEF ReadQa, Committed, Queues
    <3> QED
      BY <1>8, <3>3 DEF Settled, settled
  <2>3. task' = heard
    BY <1>7, <2>1, <2>2
  <2>4. Fair
    <3>1. \A t \in Tasks : replay'[t] = replay[t]
      BY <1>6, <1>8
    <3>2. PassWhole
      BY <1>2, <2>1, <2>3 DEF PassWhole, Tidy, OneBatch, Opened, IsOpen, Terminal
    <3>3. BatchMoves
      <4>1. Ready(task) = {}
        BY <1>1, <1>8 DEF Flying, InFlight, Phases, AtAnswers
      <4> QED
        BY <2>1, <2>3, <4>1 DEF BatchMoves, Waiting
    <3> QED
      BY <2>1, <2>3, <3>1, <3>2, <3>3 DEF Fair, ChargedOnce, PeersSpared, PassByEvidence, GivenUpAfterTry
  <2>5. escalation' # Nobody => Opened(task') = {}
    <3>1. escalation # Nobody => Opened(task) = {}
      BY <1>8 DEF Flying, InFlight, Escalating
    <3>2. escalation' # Nobody => escalation # Nobody
      BY <1>6, <1>8 DEF Escalated, esc, Nobody
    <3> QED
      BY <2>1, <2>3, <3>1, <3>2 DEF Over
  <2>6. active' = Opened(task') \/ Opened(task') = {}
    BY <1>1, <1>3, <2>1, <2>3 DEF Over
  <2> QED
    BY <1>1, <1>3, <1>8, <2>1, <2>3, <2>4, <2>5, <2>6
       DEF InFlight, Phases, AtWorkers, AtAnswers, AtVerdicts, InPass, AtQa, AtPortfolio,
           ReadInBatch, Escalating, Deciding, Capping, Workers
<1>9. CASE qaDone
  <2>1. heard = task /\ e = verdict
    BY <1>1, <1>9, HeardBefore DEF heard, e
  <2>2. Verdicted(settled, esc)
    <3>1. CASE Batch = {}
      <4>1. settled = SettledAlone(ReadQa(task), verdict, Judged(task), Spent(task))
        BY <1>9, <2>1, <3>1 DEF settled, Settled
      <4> QED
        BY <1>1, <1>9, <2>1, <3>1, <4>1, SettledByItself DEF esc
    <3>2. CASE Batch # {}
      <4>1. settled = SettledBatch(ReadQa(task), verdict, esc, Spent(task))
        BY <1>9, <2>1, <3>2 DEF settled, Settled
      <4> QED
        BY <1>1, <1>9, <2>1, <3>2, <4>1, SettledTogether DEF esc
    <3> QED
      BY <3>1, <3>2
  <2>3. task' = settled
    BY <1>7, <2>2 DEF Verdicted
  <2>4. Verdicted(task', esc) /\ verdict' = verdict /\ escalation' = esc
    BY <1>6, <2>1, <2>2, <2>3
  <2>5. Waiting(task) /\ Opened(task) \subseteq Tasks
    BY <1>1, <1>9 DEF Flying, InFlight, Phases, AtVerdicts, Opened
  <2>6. Fair
    <3>1. ChargedOnce
      BY <2>4 DEF Verdicted, ChargedOnce
    <3>2. PeersSpared
      <4> SUFFICES ASSUME NEW t \in Tasks, replay'[t] \notin {0, replay[t]}
                   PROVE  /\ task'[t].status = "pending" /\ ~IsOpen(task', t)
                          /\ task'[t].retries = task[t].retries /\ task'[t].selected = replay'[t]
        BY DEF PeersSpared
      <4>1. esc.reason = "DELTA" /\ Blamed # {} /\ t \in Batch \ Blamed /\ replay'[t] = task[t].selected
        BY <1>6, <2>1
      <4> QED
        BY <2>4, <4>1 DEF Verdicted
    <3>3. PassWhole
      <4> SUFFICES ASSUME NEW t \in Tasks, task[t].attempt.batch # {}, task'[t].status = "qa_passed",
                          NEW u \in task[t].attempt.batch
                   PROVE  task'[u].status = "qa_passed"
        BY DEF PassWhole
      <4>1. t \in Opened(task) /\ task[t].attempt.batch = Opened(task)
        BY <1>2 DEF Opened, IsOpen, Tidy, OneBatch
      <4> QED
        BY <2>4, <4>1 DEF Verdicted
    <3>4. PassByEvidence
      <4> SUFFICES ASSUME NEW t \in Tasks, task[t].status # "qa_passed", task'[t].status = "qa_passed"
                   PROVE  verdict'[t] = "pass" /\ IsOpen(task, t) /\ task[t].attempt.answer = "success"
        BY DEF PassByEvidence
      <4>1. t \in Opened(task) /\ IsOpen(task, t)
        BY <2>4 DEF Verdicted, Opened
      <4> QED
        BY <2>4, <2>5, <4>1 DEF Verdicted, Waiting
    <3>5. GivenUpAfterTry
      BY <2>4 DEF Verdicted, GivenUpAfterTry
    <3>6. BatchMoves
      BY <2>4, <2>5 DEF Verdicted, BatchMoves, Waiting
    <3> QED
      BY <3>1, <3>2, <3>3, <3>4, <3>5, <3>6 DEF Fair
  <2>7. ReadInBatch'
    <3> SUFFICES ASSUME Cardinality(Opened(task')) < 2, NEW t \in Opened(task'), task'[t].attempt.read
                 PROVE  FALSE
      BY DEF ReadInBatch
    <3>1. Cardinality(Opened(task')) > 1
      BY <2>4 DEF Verdicted
    <3>2. IsFiniteSet(Opened(task'))
      BY TasksFinite, FS_Subset DEF Opened
    <3>3. Cardinality(Opened(task')) \in Nat
      BY <3>2, FS_CardinalityType
    <3> QED
      BY <3>1, <3>3
  <2> QED
    BY <1>1, <1>3, <1>9, <2>4, <2>6, <2>7
       DEF Verdicted, InFlight, Phases, AtWorkers, AtAnswers, AtVerdicts, InPass, AtQa, AtPortfolio,
           Escalating, Deciding, Capping, Workers
<1> QED
  BY <1>8, <1>9

-----------------------------------------------------------------------------
(* The second and the third stage: the batch in flight is left alone.         *)

LEMMA SetStatusOnly ==
  ASSUME NEW f \in Queues, NEW S, NEW s \in Statuses, NEW t \in Tasks
  PROVE  SetStatus(f, S, s)[t].status \in {f[t].status, s}
<1> DEFINE n == [f[t] EXCEPT !.status = s]
<1>1. f[t] \in Records
  BY DEF Queues
<1>2. n \in Records /\ n.status = s
  BY <1>1, StatusFields
<1>3. SetStatus(f, S, s)[t] = IF t \in S THEN Commit(f[t], n) ELSE f[t]
  BY DEF SetStatus, Committed
<1> HIDE DEF n
<1>4. Commit(f[t], n) \in {f[t], Drop(n), n}
  BY DEF Commit
<1>5. Drop(n).status = s
  BY <1>2, DropFields
<1> QED
  BY <1>2, <1>3, <1>4, <1>5

LEMMA CapEnds ==
  ASSUME NEW f \in Queues, NEW S, NEW t \in S \cap Tasks, f[t].status \in Workable
  PROVE  SetStatus(f, S, "unfixable")[t].status = "unfixable"
<1> DEFINE n == [f[t] EXCEPT !.status = "unfixable"]
<1>1. f[t] \in Records /\ "unfixable" \in Statuses
  BY DEF Queues, Statuses, Terminal
<1>2. n \in Records /\ n.status = "unfixable"
  BY <1>1, StatusFields
<1>3. SetStatus(f, S, "unfixable")[t] = Commit(f[t], n)
  BY DEF SetStatus, Committed
<1> HIDE DEF n
<1>4. <<f[t].status, n.status>> \in Permitted
  BY <1>2 DEF Permitted, Workable
<1> QED
  BY <1>2, <1>3, <1>4, CommitTo, DropFields

LEMMA QaOfModest ==
  ASSUME NEW f, NEW S, Ready(f) # {}
  PROVE  Modest(f, QaOf(S))
  BY DEF Modest, QaOf, Decision

LEMMA PlanFlies ==
  ASSUME Flying, Plan
  PROVE  InFlight' /\ Fair
<1> DEFINE f == AtLastStage(RetryPlanned(Route(task)))
           d == Proposed(f, Route(task))
<1>1. /\ pc = "plan" /\ pc' = "route"
      /\ UNCHANGED <<active, verdict, replay, qaDone, escalation>>
      /\ Decided(f, d)
  BY DEF Plan, portfolio
<1>2. /\ Tidy(task) /\ task \in Queues /\ active \in SUBSET Tasks /\ Waiting(task)
      /\ Opened(task) # {} /\ ~qaDone => active = Opened(task)
      /\ \A t \in Opened(task) : qaDone <=> task[t].attempt.runs > 0
      /\ escalation # Nobody => Opened(task) = {}
  BY <1>1 DEF Flying, IInv, TypeInv, InFlight, Phases, InPass, Escalating
<1>3. /\ f \in Queues /\ Sound(f, d) /\ \A t \in Tasks : f[t].status = task[t].status
      /\ \/ d \in {TearDown, NoDecision, Route(f)} \/ (d = Route(task) /\ f = task)
         \/ d = QaOf(active \cap Ready(f)) /\ QaFirst(f)
         \/ d = QaOf(Ready(f)) /\ Ready(f) # {}
  BY <1>2, ProposedSound
<1>4. QueueCalm(task, f)
  <2> DEFINE planned == RetryPlanned(Route(task))
  <2>1. planned \in {task, Planned(task, Route(task).targets \ NoFixes)}
    BY DEF RetryPlanned
  <2>2. f = AtLastStage(planned)
    OBVIOUS
  <2> HIDE DEF f, planned
  <2>3. QueueCalm(task, planned)
    BY <1>2, <2>1, CalmRefl, PlannedCalm DEF Waiting
  <2> QED
    BY <1>2, <2>2, <2>3, AtLastStageCalm, CalmTrans
<1> HIDE DEF f, d
<1>5. /\ task' = SetStatus(f, Capped(f, d), "unfixable")
      /\ decision' = IF QaFirst(task') THEN QaOf(active \cap Ready(task'))
                     ELSE IF Capped(f, d) # {} THEN NoDecision ELSE d
  BY <1>1 DEF Decided
<1>6. Tidy(f) /\ Opened(f) = Opened(task) /\ Waiting(f)
  BY <1>2, <1>4, CalmKeeps
<1>7. QueueCalm(f, task')
  <2>1. ASSUME NEW t \in Capped(f, d) \cap Tasks
        PROVE  f[t].status \in Workable /\ ~IsOpen(f, t)
    <3>1. f[t].status = "needs_retry"
      BY DEF Capped
    <3>2. t \notin Ready(f)
      BY <3>1 DEF Ready
    <3> QED
      BY <1>6, <3>1, <3>2 DEF Waiting, Workable, Opened
  <2> QED
    BY <1>5, <1>6, <2>1, EndCalm DEF Terminal
<1>8. /\ Tidy(task') /\ Opened(task') = Opened(task) /\ Waiting(task') /\ QueueCalm(task, task')
      /\ Ready(task') = Ready(task)
      /\ \A t \in Opened(task) : task'[t] = task[t]
  <2>1. QueueCalm(task, task')
    BY <1>4, <1>7, CalmTrans
  <2> QED
    BY <1>2, <2>1, CalmKeeps
<1>9. CapHolds(task')
  <2> SUFFICES ASSUME NEW t \in Tasks \ NoFixes, task'[t].status = "needs_retry", task'[t].retries >= MaxRetries
               PROVE  MustPivot(task', t)
    BY DEF CapHolds
  <2>1. f[t].status = "needs_retry" /\ f[t].retries = task'[t].retries /\ Calm(f[t], task'[t])
    BY <1>7 DEF QueueCalm, Calm, Terminal
  <2>2. f[t].stage = "none"
    BY <1>6 DEF Tidy, Counted, CountedOne
  <2>3. t \notin Capped(f, d)
    <3> SUFFICES ASSUME t \in Capped(f, d) PROVE FALSE
      OBVIOUS
    <3>1. task'[t].status = "unfixable"
      BY <1>3, <1>5, <2>1, CapEnds DEF Workable
    <3> QED
      BY <3>1
  <2>4. MustPivot(f, t)
    BY <1>3, <2>1, <2>2, <2>3 DEF Capped, Sound
  <2> QED
    BY <2>1, <2>4 DEF MustPivot, Calm
<1>10. Fair
  <2>1. \A t \in Tasks : task'[t].retries = task[t].retries
    BY <1>8 DEF QueueCalm, Calm
  <2>2. \A t \in Tasks : task'[t].status \in {f[t].status, "unfixable"}
    BY <1>3, <1>5, SetStatusOnly DEF Statuses, Terminal
  <2>3. \A t \in Tasks : task'[t].status = "qa_passed" => task[t].status = "qa_passed"
    BY <1>3, <2>2
  <2>4. ASSUME NEW t \in Tasks, task'[t].status = "unfixable", task[t].status # "unfixable"
        PROVE  task[t].retries > 0
    <3>1. t \in Capped(f, d)
      <4> SUFFICES ASSUME t \notin Capped(f, d) PROVE FALSE
        OBVIOUS
      <4>1. task'[t] = f[t]
        BY <1>5, <2>4 DEF SetStatus, Committed
      <4> QED
        BY <1>3, <2>4, <4>1
    <3>2. f[t].retries >= MaxRetries /\ f[t].retries = task[t].retries /\ task[t].retries \in Nat
      BY <1>2, <1>4, <3>1 DEF Capped, QueueCalm, Calm, Queues, Records
    <3>3. MaxRetries \in Nat \ {0}
      BY TaskAssumption
    <3> QED
      BY <3>2, <3>3
  <2> QED
    BY <1>1, <1>2, <1>8, <2>1, <2>3, <2>4, QuietFair DEF BatchMoves
<1>11. Modest(task', decision')
  <2>1. CASE QaFirst(task')
    <3>1. Ready(task') # {} /\ decision' = QaOf(active \cap Ready(task'))
      BY <1>5, <2>1 DEF QaFirst
    <3> QED
      BY <3>1, QaOfModest
  <2>2. CASE ~QaFirst(task') /\ Capped(f, d) # {}
    BY <1>5, <2>2, EmptyModest
  <2>3. CASE ~QaFirst(task') /\ Capped(f, d) = {}
    <3>1. task' = f /\ decision' = d
      BY <1>3, <1>5, <2>3 DEF SetStatus, Committed, Queues
    <3>2. QaFirst(f) => Ready(f) # {}
      BY DEF QaFirst
    <3>3. Modest(f, d)
      BY <1>3, <3>2, EmptyModest, RouteModest, QaOfModest
    <3> QED
      BY <3>1, <3>3
  <2> QED
    BY <2>1, <2>2, <2>3
<1>12. Opened(task') # {} /\ ~qaDone => decision' = QaOf(Opened(task'))
  <2> SUFFICES ASSUME Opened(task') # {}, ~qaDone PROVE decision' = QaOf(Opened(task'))
    OBVIOUS
  <2>1. active = Opened(task') /\ Ready(task') = Opened(task')
    BY <1>2, <1>8 DEF Waiting
  <2>2. QaFirst(task')
    BY <1>1, <2>1 DEF QaFirst
  <2> QED
    BY <1>5, <2>1, <2>2
<1>13. ReadInBatch'
  BY <1>8 DEF Flying, InFlight, ReadInBatch
<1> QED
  BY <1>1, <1>2, <1>8, <1>9, <1>10, <1>11, <1>12, <1>13
     DEF InFlight, Phases, AtWorkers, AtAnswers, AtVerdicts, InPass, AtQa, AtPortfolio,
         Escalating, Deciding, Capping, Workers

LEMMA GuardFlies ==
  ASSUME Flying, Guard
  PROVE  InFlight' /\ Fair
<1> DEFINE d == IF decision = NoDecision THEN Route(task) ELSE decision
           valid == Valid(task, d)
<1>1. /\ pc = "route" /\ pc' = "apply"
      /\ UNCHANGED <<active, verdict, replay, qaDone, escalation>>
      /\ \/ (Open(task) = {} \/ escalation # Nobody) /\ decision' = ToPortfolio /\ task' = task
         \/ escalation = Nobody /\ Guarded(d, valid)
  BY DEF Guard, portfolio
<1>2. /\ Tidy(task) /\ task \in Queues /\ Waiting(task) /\ CapHolds(task)
      /\ \A t \in Opened(task) : qaDone <=> task[t].attempt.runs > 0
      /\ Opened(task) # {} /\ ~qaDone => active = Opened(task)
      /\ escalation # Nobody => Opened(task) = {}
      /\ Modest(task, decision)
      /\ Opened(task) # {} /\ ~qaDone => decision = QaOf(Opened(task))
  BY <1>1 DEF Flying, IInv, TypeInv, InFlight, Phases, InPass, Escalating, Deciding, Capping
<1>3. Modest(task, d)
  BY <1>2, RouteModest
<1>4. Opened(task) # {} /\ ~qaDone => d = QaOf(Opened(task)) /\ valid = Opened(task)
  <2> SUFFICES ASSUME Opened(task) # {}, ~qaDone PROVE d = QaOf(Opened(task)) /\ valid = Opened(task)
    OBVIOUS
  <2>1. /\ QaOf(Opened(task)).node = "qa" /\ QaOf(Opened(task)).targets = Opened(task)
        /\ NoDecision.node = "none"
    BY DEF QaOf, Decision, NoDecision
  <2>2. d = QaOf(Opened(task))
    BY <1>2, <2>1
  <2> HIDE DEF d
  <2>3. Allowed(task, "qa") = Opened(task)
    BY <1>2 DEF Allowed, Waiting
  <2> QED
    BY <2>1, <2>2, <2>3 DEF Valid
<1> HIDE DEF d, valid
<1>5. CASE decision' = ToPortfolio /\ task' = task /\ (Open(task) = {} \/ escalation # Nobody)
  <2>1. Opened(task) = {}
    BY <1>2, <1>5, OpenIsOpened DEF Tidy
  <2>2. Modest(task', decision') /\ decision'.node = "portfolio"
    BY <1>5, OtherModest DEF ToPortfolio, Decision
  <2>3. Fair
    BY <1>1, <1>2, <1>5, StillFair
  <2> QED
    BY <1>1, <1>2, <1>5, <2>1, <2>2, <2>3
       DEF InFlight, Phases, AtWorkers, AtAnswers, AtVerdicts, InPass, AtQa, AtPortfolio, Flying,
           ReadInBatch, Escalating, Deciding, Capping, Workers
<1>6. CASE escalation = Nobody /\ Guarded(d, valid)
  <2>1. /\ task' = Planned(task, ToReplan(d, valid))
        /\ decision' = CASE d.node = "teardown" -> d
                         [] d.node # "teardown" /\ (valid = {} \/ ToReplan(d, valid) # {}) -> Route(task')
                         [] OTHER -> [d EXCEPT !.targets = valid]
    BY <1>6 DEF Guarded
  <2>2. QueueCalm(task, task') /\ \A t \in Tasks : task'[t].status = task[t].status
    BY <1>2, <2>1, PlannedCalm, PlannedFollows DEF Waiting
  <2>3. /\ Tidy(task') /\ Opened(task') = Opened(task) /\ Ready(task') = Ready(task)
        /\ \A t \in Opened(task) : task'[t] = task[t]
        /\ Waiting(task') /\ CapHolds(task')
    BY <1>2, <2>2, CalmKeeps
  <2>4. Modest(task', decision')
    <3>1. Modest(task', d)
      BY <1>3, <2>3 DEF Modest
    <3>2. Modest(task', [d EXCEPT !.targets = valid])
      <4>1. d \in Decisions /\ valid \subseteq d.targets
        <5>1. decision \in Decisions /\ Route(task) \in Decisions
          BY <1>2, RouteSound DEF Flying, IInv, TypeInv, Sound
        <5> QED
          BY <5>1 DEF d, valid, Valid
      <4>2. [d EXCEPT !.targets = valid].node = d.node /\ [d EXCEPT !.targets = valid].targets = valid
        BY <4>1 DEF Decisions
      <4> QED
        BY <3>1, <4>1, <4>2 DEF Modest
    <3> QED
      BY <2>1, <3>1, <3>2, RouteModest
  <2>5. Opened(task') # {} /\ ~qaDone => decision' = QaOf(Opened(task'))
    <3> SUFFICES ASSUME Opened(task') # {}, ~qaDone PROVE decision' = QaOf(Opened(task'))
      OBVIOUS
    <3>1. d = QaOf(Opened(task)) /\ valid = Opened(task) /\ Opened(task) # {}
      BY <1>4, <2>3
    <3>2. d.node = "qa" /\ [d EXCEPT !.targets = valid] = d
      <4>1. d.node = "qa" /\ d.targets = valid
        BY <3>1 DEF QaOf, Decision
      <4>2. d \in Decisions
        BY <3>1, QaOfSound DEF Sound, Opened
      <4> QED
        BY <4>1, <4>2 DEF Decisions
    <3>3. ToReplan(d, valid) = {}
      BY <3>2 DEF ToReplan
    <3> QED
      BY <2>1, <2>3, <3>1, <3>2, <3>3
  <2>6. Fair
    <3>1. \A t \in Tasks : task'[t].retries = task[t].retries
      BY <2>2 DEF QueueCalm, Calm
    <3> QED
      BY <1>1, <1>2, <2>2, <2>3, <3>1, QuietFair DEF BatchMoves
  <2>7. ReadInBatch'
    BY <2>3 DEF Flying, InFlight, ReadInBatch
  <2> QED
    BY <1>1, <1>2, <1>6, <2>3, <2>4, <2>5, <2>6, <2>7
       DEF InFlight, Phases, AtWorkers, AtAnswers, AtVerdicts, InPass, AtQa, AtPortfolio,
           Escalating, Deciding, Capping, Workers
<1> QED
  BY <1>1, <1>5, <1>6

-----------------------------------------------------------------------------
(* The fourth stage: who pivots and who is not authorised has no attempt.     *)

LEMMA ReauthorisedStatus ==
  ASSUME NEW f \in Queues, NEW S
  PROVE  \A t \in Tasks : Reauthorised(f, S)[t].status \in {f[t].status, "inconclusive"}
<1> DEFINE plans == Planned(f, {t \in S : ~Authorised(f, t)})
           better == [t \in Tasks |-> IF plans[t].exhausted /\ ~plans[t].latest THEN f[t] ELSE plans[t]]
           lost == {t \in S : ~Authorised(better, t) /\ ~better[t].exhausted}
<1>1. Reauthorised(f, S) = SetStatus(better, lost, "inconclusive")
  BY DEF Reauthorised
<1>2. plans \in Queues /\ \A t \in Tasks : plans[t].status = f[t].status
  BY PlannedFollows DEF QueueFollows
<1> HIDE DEF plans
<1>3. better \in Queues /\ \A t \in Tasks : better[t] \in {f[t], plans[t]}
  <2>1. \A t \in Tasks : f[t] \in Records /\ plans[t] \in Records /\ better[t] \in {f[t], plans[t]}
    BY <1>2 DEF Queues
  <2>2. \A t \in Tasks : better[t] \in Records
    <3> HIDE DEF better
    <3> QED
      BY <2>1
  <2> QED
    BY <2>1, <2>2 DEF Queues
<1>4. \A t \in Tasks : better[t].status = f[t].status
  <2> HIDE DEF better
  <2>1. ASSUME NEW t \in Tasks PROVE better[t].status = f[t].status
    <3>1. better[t] = f[t] \/ better[t] = plans[t]
      BY <1>3
    <3> QED
      BY <1>2, <3>1
  <2> QED
    BY <2>1
<1> HIDE DEF better, lost
<1> QED
  BY <1>1, <1>3, <1>4, SetStatusOnly DEF Statuses, Terminal

\* What a dispatch may be about: an update that has a version, or one workaround.
Apt(f, d) ==
  /\ Modest(f, d)
  /\ d.node = "update" => \A t \in d.targets : t \in Updates /\ ~MustPivot(f, t)
  /\ d.node = "workaround" => d.targets \cap Updates = {}

LEMMA NormalisedApt ==
  ASSUME NEW f, NEW d \in Decisions, d.node # "none", Modest(f, d)
  PROVE  Apt(f, Normalised(f, d))
<1>1. /\ Normalised(f, d).node = d.node
      /\ Normalised(f, d).targets = d.targets \cap Allowed(f, d.node)
  BY DEF Normalised, Decisions
<1>2. d.node = "update" => \A t \in Allowed(f, d.node) : t \in Updates /\ ~MustPivot(f, t)
  BY DEF Allowed
<1>3. d.node = "workaround" => Allowed(f, d.node) \cap Updates = {}
  BY DEF Allowed
<1> QED
  BY <1>1, <1>2, <1>3 DEF Apt, Modest

LEMMA ReroutedApt ==
  ASSUME NEW f \in Queues, active \in SUBSET Tasks, NEW d \in Decisions, d.node # "none", Apt(f, d)
  PROVE  Apt(f, Rerouted(f, d))
<1>1. Route(f) \in Decisions /\ Route(f).node # "none" /\ Modest(f, Route(f))
  BY RouteSound, RouteModest DEF Sound
<1>2. Apt(f, Normalised(f, Route(f)))
  BY <1>1, NormalisedApt
<1> QED
  BY <1>2 DEF Rerouted

\* The decision with the children for the parents is as apt as it was.
LEMMA RemappedApt ==
  ASSUME NEW f, NEW d \in Decisions, d.node # "none", NEW g, Modest(g, d), Ready(f) = Ready(g)
  PROVE  /\ Remapped(f, d) \in Decisions /\ Remapped(f, d).node = d.node /\ Apt(f, Remapped(f, d))
         /\ Remapped(f, d).targets \subseteq Allowed(f, d.node)
<1> DEFINE T == {IF t \in d.pivots THEN Child[t] ELSE t : t \in d.targets}
           moved == [d EXCEPT !.targets = T]
<1>1. T \in SUBSET Tasks
  BY UpdatesAreTasks DEF Decisions
<1>2. (\A x, y \in d.targets : x = y) => \A v, w \in T : v = w
  OBVIOUS
<1> HIDE DEF T
<1>4. moved \in Decisions /\ moved.node = d.node /\ moved.targets = T
  BY <1>1 DEF Decisions
<1>5. Remapped(f, d) = Normalised(f, moved)
  BY DEF Remapped, T
<1> HIDE DEF moved
<1>6. Modest(f, moved)
  BY <1>2, <1>4 DEF Modest
<1> QED
  BY <1>4, <1>5, <1>6, NormalisedApt, NormalisedType

\* What the boundary keeps of a decision is apt, and can only be lost as a whole.
LEMMA AppliedApt ==
  ASSUME NEW f, Tidy(f), Ready(f) = Opened(f), active \in SUBSET Tasks,
         NEW d \in Decisions, d.node # "none", Apt(f, d), d.targets \subseteq Allowed(f, d.node), Applied(f, d)
  PROVE  \E g \in Queues :
           /\ QueueCalm(f, g) /\ \A t \in Tasks : g[t].status \in {f[t].status, "inconclusive"}
           /\ \/ task' = g /\ Apt(g, decision')
              \/ task' = SetStatus(g, Live(g), "unfixable") /\ decision' = TearDown /\ d.node \notin {"portfolio", "teardown"}
           /\ d.node \in {"portfolio", "teardown"} => decision'.node = d.node
           /\ d.node = "qa" /\ d.targets # {} => decision' = d /\ task' = g
<1> DEFINE g == IF d.node = "update" THEN Reauthorised(f, d.targets) ELSE f
           T == {t \in d.targets : d.node = "update" => Authorised(g, t)}
           k == Kept(g, d)
           r == Rerouted(g, k)
<1>1. FailClosed(g, r)
  BY DEF Applied, AuthorisedDispatch
<1>2. f \in Queues
  BY DEF Tidy
<1>4. /\ QueueCalm(f, g) /\ g \in Queues
      /\ \A t \in Tasks : g[t].status \in {f[t].status, "inconclusive"}
      /\ d.node = "update" => \A t \in Updates : Authorised(g, t) /\ MustPivot(g, t) => MustPivot(f, t)
  <2>1. CASE d.node = "update"
    <3>1. d.targets \subseteq Dispatchable(f)
      BY <2>1 DEF Allowed
    <3>2. g = Reauthorised(f, d.targets)
      BY <2>1
    <3> QED
      BY <1>2, <3>1, <3>2, ReauthorisedCalm, ReauthorisedStatus DEF QueueCalm
  <2>2. CASE d.node # "update"
    <3>1. g = f
      BY <2>2
    <3> QED
      BY <1>2, <2>2, <3>1, CalmRefl
  <2> QED
    BY <2>1, <2>2
<1>5. Ready(g) = Ready(f)
  BY <1>4, CalmKeeps
<1> HIDE DEF g
<1>6. T \subseteq d.targets /\ k = [d EXCEPT !.targets = T]
  BY DEF Kept
<1>7. d.node = "update" => \A t \in T : t \in Updates /\ ~MustPivot(g, t)
  BY <1>4 DEF Apt
<1>8. d.node # "update" => T = d.targets
  OBVIOUS
<1> HIDE DEF T, k
<1>9. k \in Decisions /\ k.node = d.node /\ k.targets = T
  BY <1>6 DEF Decisions
<1>10. Apt(g, k)
  BY <1>5, <1>6, <1>7, <1>9 DEF Apt, Modest
<1>11. d.node # "update" => k = d
  BY <1>6, <1>8 DEF Decisions
<1>12. Apt(g, r)
  BY <1>4, <1>9, <1>10, ReroutedApt
<1>13. d.node \in {"portfolio", "teardown"} \/ (d.node = "qa" /\ d.targets # {}) => r = d
  BY <1>11 DEF Rerouted, Workers
<1> HIDE DEF r
<1>14. \/ task' = g /\ decision' = r
       \/ r.node \in Workers /\ task' = SetStatus(g, Live(g), "unfixable") /\ decision' = TearDown
  BY <1>1 DEF FailClosed
<1> QED
  BY <1>4, <1>12, <1>13, <1>14 DEF Workers

\* Nothing is left of a queue whose live tasks are given up, and nothing is added to one
\* in which nobody pivots.
LEMMA NoneLive ==
  ASSUME NEW f \in Queues
  PROVE  Live(SetStatus(f, Live(f), "unfixable")) = {}
<1> DEFINE g == SetStatus(f, Live(f), "unfixable")
           n(t) == [f[t] EXCEPT !.status = "unfixable"]
<1> SUFFICES ASSUME NEW t \in Tasks
             PROVE  g[t].status \in Terminal \cup {"unspawned"}
  BY DEF Live, Queue
<1>1. f[t] \in Records
  BY DEF Queues
<1>2. CASE t \in Live(f)
  <2>1. n(t) \in Records /\ n(t).status = "unfixable"
    BY <1>1 DEF Records, Statuses, Terminal
  <2>2. <<f[t].status, "unfixable">> \in Permitted
    BY <1>1, <1>2 DEF Live, Queue, Permitted, Records, Statuses, Workable
  <2>3. g[t] = Commit(f[t], n(t))
    BY <1>2 DEF SetStatus, Committed
  <2> HIDE DEF n, g
  <2>4. g[t] = Drop(n(t))
    BY <2>1, <2>2, <2>3 DEF Commit, Terminal
  <2> QED
    BY <2>1, <2>4, DropFields DEF Terminal
<1>3. CASE t \notin Live(f)
  <2>1. g[t] = f[t]
    BY <1>3 DEF SetStatus, Committed
  <2> HIDE DEF g
  <2> QED
    BY <1>3, <2>1 DEF Live, Queue
<1> QED
  BY <1>2, <1>3

LEMMA SpawnedNone ==
  ASSUME NEW f \in Queues
  PROVE  Spawned(f, {}) = f
<1> DEFINE new == {u \in {} : ~HasChild(f, u)}
           before(u) == {w \in new : Precedes(f, w, u)}
           room == {u \in new : Cardinality(Queue(f)) + Cardinality(before(u)) < QueueCap}
<1>1. room = {}
  OBVIOUS
<1> HIDE DEF room
<1>2. Spawned(f, {}) = [t \in Tasks |-> IF t \in {Child[u] : u \in room} THEN NewTask("pending", "none") ELSE f[t]]
  BY DEF Spawned, room
<1> QED
  BY <1>1, <1>2 DEF Queues

LEMMA ApplyFlies ==
  ASSUME Flying, Apply
  PROVE  InFlight' /\ Fair
<1> DEFINE S == decision.pivots
           created == Spawned(task, S)
           f == Pivoted(created, verdict, S)
           d == Remapped(f, decision)
<1>1. /\ pc = "apply" /\ pc' = "commit" /\ Applied(f, d)
      /\ UNCHANGED <<active, verdict, replay, qaDone, escalation>>
  BY DEF Apply, portfolio
<1>2. /\ Tidy(task) /\ task \in Queues /\ Waiting(task) /\ CapHolds(task) /\ active \in SUBSET Tasks
      /\ \A t \in Opened(task) : qaDone <=> task[t].attempt.runs > 0
      /\ Opened(task) # {} /\ ~qaDone => active = Opened(task)
      /\ escalation # Nobody => Opened(task) = {} /\ decision.node = "portfolio"
      /\ Modest(task, decision) /\ ReadInBatch
      /\ Opened(task) # {} /\ ~qaDone => decision = QaOf(Opened(task))
      /\ Sound(task, decision) /\ decision.node # "none"
  BY <1>1 DEF Flying, IInv, TypeInv, DecisionIsReady, InFlight, Phases, InPass, Escalating, Deciding, Capping
<1>3. S \in SUBSET Updates /\ (\A u \in S : MustPivot(task, u)) /\ decision \in Decisions
  BY <1>2 DEF Sound, Decisions
<1> HIDE DEF S
<1>4. /\ Tidy(created) /\ Opened(created) = Opened(task) /\ Ready(created) = Ready(task)
      /\ \A t \in Opened(task) : created[t] = task[t]
      /\ Waiting(created) /\ CapHolds(created)
      /\ \A t \in Tasks : /\ created[t].retries = task[t].retries
                          /\ created[t].attempt = task[t].attempt
                          /\ created[t] = task[t] \/ (created[t].status = "pending" /\ t \notin Updates)
  BY <1>2, <1>3, SpawnedTidy
<1> HIDE DEF created
<1>5. \A u \in S : created[u] = task[u] /\ created[u].status \in Workable /\ ~IsOpen(created, u)
  <2> SUFFICES ASSUME NEW u \in S
               PROVE  created[u] = task[u] /\ created[u].status \in Workable /\ ~IsOpen(created, u)
    OBVIOUS
  <2>1. u \in Updates /\ u \in Tasks /\ task[u].status = "needs_retry"
    BY <1>3, UpdatesAreTasks DEF MustPivot
  <2>2. created[u] = task[u]
    BY <1>4, <2>1
  <2>3. u \notin Ready(created)
    BY <2>1, <2>2 DEF Ready
  <2> QED
    BY <1>4, <2>1, <2>2, <2>3 DEF Waiting, Opened, Workable
<1>6. QueueCalm(created, f)
  BY <1>3, <1>4, <1>5, PivotedCalm
<1>7. \A t \in Tasks : \/ t \notin S /\ f[t] = created[t]
                       \/ t \in S /\ f[t].status = PivotStatus(verdict, t)
  <2> SUFFICES ASSUME NEW t \in Tasks, t \in S PROVE f[t].status = PivotStatus(verdict, t)
    BY DEF Pivoted
  <2> DEFINE s == PivotStatus(verdict, t)
             n == [created[t] EXCEPT !.status = s, !.exhausted = TRUE, !.latest = TRUE]
  <2>1. created[t] \in Records /\ s \in Statuses
    BY <1>4 DEF Tidy, Queues, PivotStatus, Statuses, Terminal
  <2>2. f[t] = Drop(n)
    BY DEF Pivoted
  <2> HIDE DEF s, f
  <2>3. n \in Records /\ n.status = s
    BY <2>1 DEF Records
  <2> HIDE DEF n
  <2> QED
    BY <2>2, <2>3, DropFields DEF s
<1>8. /\ Tidy(f) /\ Opened(f) = Opened(task) /\ Ready(f) = Ready(task)
      /\ \A t \in Opened(task) : f[t] = task[t]
      /\ Waiting(f) /\ CapHolds(f)
  BY <1>4, <1>6, CalmKeeps
<1>9. /\ d \in Decisions /\ d.node = decision.node /\ Apt(f, d) /\ d.targets \subseteq Allowed(f, d.node)
  <2> HIDE DEF f
  <2> QED
    BY <1>2, <1>3, <1>8, RemappedApt
<1>10. Opened(task) # {} /\ ~qaDone => d = decision /\ d.targets = Opened(task) /\ d.node = "qa"
  <2> SUFFICES ASSUME Opened(task) # {}, ~qaDone
               PROVE  d = decision /\ d.targets = Opened(task) /\ d.node = "qa"
    OBVIOUS
  <2> HIDE DEF f
  <2> DEFINE T == {IF t \in decision.pivots THEN Child[t] ELSE t : t \in decision.targets}
             moved == [decision EXCEPT !.targets = T]
  <2>1. decision.node = "qa" /\ decision.targets = Opened(task) /\ decision.pivots = {}
    BY <1>2 DEF QaOf, Decision
  <2>2. T = Opened(task)
    BY <2>1
  <2> HIDE DEF T
  <2>3. moved = decision
    BY <1>3, <2>1, <2>2 DEF Decisions
  <2>4. d = [decision EXCEPT !.targets = @ \cap Allowed(f, decision.node)]
    BY <2>3 DEF Remapped, Normalised, T
  <2>5. Allowed(f, "qa") = Opened(task)
    BY <1>2, <1>8 DEF Allowed, Waiting
  <2> HIDE DEF d
  <2>6. d = decision
    BY <1>3, <2>1, <2>4, <2>5 DEF Decisions
  <2> QED
    BY <2>1, <2>6
<1> HIDE DEF f, d
<1>11. PICK g \in Queues :
         /\ QueueCalm(f, g) /\ \A t \in Tasks : g[t].status \in {f[t].status, "inconclusive"}
         /\ \/ task' = g /\ Apt(g, decision')
            \/ /\ task' = SetStatus(g, Live(g), "unfixable") /\ decision' = TearDown
               /\ d.node \notin {"portfolio", "teardown"}
         /\ d.node \in {"portfolio", "teardown"} => decision'.node = d.node
         /\ d.node = "qa" /\ d.targets # {} => decision' = d /\ task' = g
  BY <1>1, <1>2, <1>8, <1>9, AppliedApt DEF Waiting
<1>12. /\ Tidy(g) /\ Opened(g) = Opened(task) /\ Ready(g) = Ready(task)
       /\ \A t \in Opened(task) : g[t] = task[t]
       /\ Waiting(g) /\ CapHolds(g)
  BY <1>8, <1>11, CalmKeeps
<1>13. \A t \in Tasks : g[t].retries = task[t].retries
  BY <1>4, <1>6, <1>11 DEF QueueCalm, Calm
<1>14. Opened(g) \subseteq Live(g)
  BY <1>12 DEF Tidy, OneBatch, Live, Queue, Opened
<1>15. /\ Tidy(task') /\ Waiting(task') /\ CapHolds(task')
       /\ \/ Opened(task') = {}
          \/ Opened(task') = Opened(task) /\ \A t \in Opened(task) : task'[t] = task[t]
       /\ \A t \in Tasks : /\ task'[t].retries = task[t].retries
                           /\ task'[t].status \in {g[t].status, "unfixable"}
       /\ BatchMoves
  <2>1. CASE task' = g
    BY <1>12, <1>13, <2>1 DEF BatchMoves
  <2>2. CASE task' = SetStatus(g, Live(g), "unfixable")
    <3>1. /\ Tidy(task') /\ Opened(task') = {} /\ Ready(task') = {} /\ CapHolds(task')
          /\ \A t \in Tasks : /\ task'[t].retries = g[t].retries
                              /\ task'[t].status \in {g[t].status, "unfixable"}
                              /\ t \in Live(g) => task'[t].status = "unfixable"
      BY <1>12, <1>14, <2>2, EndAll
    <3>2. BatchMoves
      BY <1>12, <1>13, <1>14, <3>1 DEF BatchMoves, Terminal, Opened
    <3> QED
      BY <1>13, <3>1, <3>2 DEF Waiting
  <2> QED
    BY <1>11, <2>1, <2>2
<1>16. Apt(task', decision')
  <2>1. CASE task' = g /\ Apt(g, decision')
    BY <2>1
  <2>2. CASE decision' = TearDown
    BY <2>2, EmptyModest DEF Apt, TearDown, Decision
  <2> QED
    BY <1>11, <2>1, <2>2
<1>17. Opened(task') # {} /\ ~qaDone => decision' = QaOf(Opened(task'))
  BY <1>2, <1>10, <1>11, <1>12, <1>15
<1>18. escalation # Nobody => Opened(task') = {} /\ decision'.node = "portfolio"
  BY <1>2, <1>9, <1>11, <1>15
<1>19. Fair
  <2>1. PassByEvidence
    <3> SUFFICES ASSUME NEW t \in Tasks, task[t].status # "qa_passed", task'[t].status = "qa_passed"
                 PROVE  verdict'[t] = "cleared" /\ t \in Updates
      BY DEF PassByEvidence
    <3>1. f[t].status = "qa_passed"
      BY <1>11, <1>15
    <3>2. t \in S /\ PivotStatus(verdict, t) = "qa_passed"
      BY <1>4, <1>7, <3>1
    <3> QED
      BY <1>1, <1>3, <3>2 DEF PivotStatus
  <2>2. PassWhole
    <3> SUFFICES ASSUME NEW t \in Tasks, task[t].attempt.batch # {}, task'[t].status = "qa_passed"
                 PROVE  FALSE
      BY DEF PassWhole
    <3>1. t \in Opened(task) /\ task[t].status \notin Terminal /\ f[t] = task[t]
      BY <1>2, <1>8 DEF Opened, IsOpen, Tidy, OneBatch
    <3> QED
      BY <1>11, <1>15, <3>1 DEF Terminal
  <2>3. GivenUpAfterTry
    <3> SUFFICES ASSUME NEW t \in Tasks, task[t].status # "unfixable", task'[t].status = "unfixable",
                        ~(task[t].retries > 0)
                 PROVE  GivesUpTheRest
      BY DEF GivenUpAfterTry
    <3>1. t \notin S
      <4>1. CountedOne(task, t)
        BY <1>2 DEF Tidy, Counted
      <4> QED
        BY <1>3, <4>1 DEF CountedOne, MustPivot
    <3>2. g[t].status # "unfixable"
      BY <1>4, <1>7, <1>11, <3>1
    <3>3. task' = SetStatus(g, Live(g), "unfixable") /\ decision' = TearDown
      BY <1>11, <3>2
    <3>4. Live(task') = {}
      BY <3>3, NoneLive
    <3>5. Live(task) # {}
      <4>1. CASE S = {}
        <5>1. t \in Live(g)
          <6> SUFFICES ASSUME t \notin Live(g) PROVE FALSE
            OBVIOUS
          <6>1. task'[t] = g[t]
            BY <3>3 DEF SetStatus, Committed
          <6> QED
            BY <3>2, <6>1
        <5>2. created[t] = task[t]
          BY <1>2, <4>1, SpawnedNone DEF created
        <5>3. g[t].status \in {task[t].status, "inconclusive"}
          BY <1>7, <1>11, <3>1, <5>2
        <5> QED
          BY <5>1, <5>3 DEF Live, Queue, Terminal
      <4>2. CASE S # {}
        <5>1. PICK u \in S : u \in Tasks /\ task[u].status = "needs_retry"
          BY <1>3, <4>2, UpdatesAreTasks DEF MustPivot
        <5> QED
          BY <5>1 DEF Live, Queue, Terminal
      <4> QED
        BY <4>1, <4>2
    <3> QED
      BY <1>1, <3>3, <3>4, <3>5 DEF GivesUpTheRest
  <2> QED
    BY <1>1, <1>15, <2>1, <2>2, <2>3 DEF Fair, ChargedOnce, PeersSpared
<1>20. ReadInBatch'
  <2>1. CASE Opened(task') = {}
    BY <2>1 DEF ReadInBatch
  <2>2. CASE Opened(task') = Opened(task) /\ \A t \in Opened(task) : task'[t] = task[t]
    BY <1>2, <2>2 DEF ReadInBatch
  <2> QED
    BY <1>15, <2>1, <2>2
<1>21. InPass'
  BY <1>1, <1>2, <1>15 DEF InPass
<1> QED
  BY <1>1, <1>15, <1>16, <1>17, <1>18, <1>19, <1>20, <1>21
     DEF InFlight, Phases, AtWorkers, AtAnswers, AtVerdicts, AtQa, AtPortfolio,
         Escalating, Deciding, Capping, Workers, Apt

-----------------------------------------------------------------------------
(* The last stage: the dispatch of a fresh batch, or of the one in flight.    *)

\* The attempts that the dispatch d opens for the targets that the boundary lets through.
Fresh(d) == [NoAttempt EXCEPT !.batch = d.targets]

LEMMA AttemptedFields ==
  ASSUME NEW f \in Queues, NEW d \in Decisions, d.node # "qa", NEW t \in Tasks
  PROVE  /\ ~(t \in d.targets /\ d.node \in Workers /\ Authorised(f, t)) => Attempted(f, d)[t] = f[t]
         /\ t \in d.targets /\ d.node \in Workers /\ Authorised(f, t) =>
              /\ Attempted(f, d)[t].attempt = Fresh(d)
              /\ Attempted(f, d)[t].status = f[t].status /\ Attempted(f, d)[t].retries = f[t].retries
              /\ Attempted(f, d)[t].stage = f[t].stage /\ Attempted(f, d)[t].exhausted = f[t].exhausted
<1> DEFINE sent == t \in d.targets /\ d.node \in Workers /\ Authorised(f, t)
           judged == t \in d.targets /\ d.node = "qa" /\ IsOpen(f, t)
           counted == [f[t] EXCEPT !.attempt.runs = @ + 1]
           opened == [f[t] EXCEPT !.attempt = Fresh(d)]
<1>1. Attempted(f, d)[t] = CASE sent -> opened [] judged -> counted [] OTHER -> f[t]
  BY DEF Attempted, Fresh
<1>2. ~judged
  OBVIOUS
<1>3. f[t] \in Records
  BY DEF Queues
<1>4. /\ opened.attempt = Fresh(d) /\ opened.status = f[t].status /\ opened.retries = f[t].retries
      /\ opened.stage = f[t].stage /\ opened.exhausted = f[t].exhausted
  BY <1>3 DEF Records
<1> HIDE DEF judged, counted, opened
<1> QED
  BY <1>1, <1>2, <1>4

LEMMA FreshFields ==
  ASSUME NEW d \in Decisions
  PROVE  /\ Fresh(d).batch = d.targets /\ Fresh(d).runs = 0 /\ ~Fresh(d).read
         /\ Fresh(d) = [NoAttempt EXCEPT !.batch = d.targets]
  BY DEF Fresh, NoAttempt

\* A whole batch is opened for work that may still be retried.
LEMMA BatchOpens ==
  ASSUME NEW f, Tidy(f), Opened(f) = {}, CapHolds(f), NEW d \in Decisions, d.node \in Workers,
         Apt(f, d), d.targets # {}, d.targets \subseteq Dispatchable(f), NEW g, g = Attempted(f, d),
         \A t, u \in d.targets : IsOpen(g, t) => IsOpen(g, u)
  PROVE  /\ Tidy(g) /\ CapHolds(g) /\ Ready(g) = {}
         /\ \/ g = f
            \/ Opened(g) = d.targets /\ \A t \in d.targets : g[t].attempt = Fresh(d)
         /\ \A t \in Tasks : g[t].retries = f[t].retries /\ g[t].status = f[t].status
<1>1. f \in Queues /\ g \in Queues /\ Ready(f) = {} /\ d.node # "qa" /\ d.targets \subseteq Tasks
  BY AttemptedOpens DEF Tidy, OneBatch, Workers, Decisions
<1>2. \A t \in Tasks :
        /\ ~(t \in d.targets /\ Authorised(f, t)) => g[t] = f[t]
        /\ t \in d.targets /\ Authorised(f, t) =>
             /\ g[t].attempt = Fresh(d) /\ g[t].status = f[t].status /\ g[t].retries = f[t].retries
             /\ g[t].stage = f[t].stage /\ g[t].exhausted = f[t].exhausted
  BY <1>1, AttemptedFields
<1>3. \A t \in Tasks : /\ g[t].status = f[t].status /\ g[t].retries = f[t].retries
                       /\ g[t].stage = f[t].stage /\ g[t].exhausted = f[t].exhausted
  BY <1>2
<1>4. Ready(g) = {} /\ CapHolds(g)
  BY <1>1, <1>3 DEF Ready, CapHolds, MustPivot
<1>5. \A t \in Tasks : IsOpen(g, t) <=> t \in d.targets /\ Authorised(f, t)
  BY <1>2, FreshFields DEF Opened, IsOpen
<1>6. CASE \A t \in d.targets : ~Authorised(f, t)
  <2>1. \A t \in Tasks : g[t] = f[t]
    BY <1>2, <1>6
  <2>2. g = f
    BY <1>1, <2>1 DEF Queues
  <2> QED
    BY <1>1, <2>2
<1>7. CASE \E t \in d.targets : Authorised(f, t)
  <2>1. \A t \in d.targets : Authorised(f, t)
    BY <1>1, <1>5, <1>7
  <2>2. Opened(g) = d.targets /\ \A t \in d.targets : g[t].attempt = Fresh(d)
    BY <1>1, <1>2, <1>5, <2>1 DEF Opened
  <2>3. \A t \in Tasks \ Opened(g) : g[t].attempt = NoAttempt
    BY <1>2, <2>2 DEF Tidy, OneBatch
  <2>4. \A t \in d.targets : f[t].status \in Workable
    BY DEF Dispatchable, Work
  <2>5. \A t, u \in d.targets : t # u => t \in Updates
    BY DEF Apt, Modest, Workers
  <2>6. OneBatch(g)
    BY <1>1, <1>3, <1>4, <2>2, <2>3, <2>4, <2>5, FreshFields DEF OneBatch, Workable, Terminal
  <2>7. ASSUME NEW t \in Tasks PROVE CountedOne(g, t) /\ g[t].attempt.runs <= MaxReruns + 1
    <3>1. CountedOne(f, t) /\ f[t].attempt.runs <= MaxReruns + 1 /\ ~IsOpen(f, t) /\ f[t] \in Records
      BY <1>1 DEF Tidy, Counted, Opened, Queues
    <3>2. g[t].attempt.runs <= MaxReruns + 1
      BY <1>2, <2>2, <3>1, FreshFields, BoundAssumption
    <3>3. CASE t \notin d.targets
      <4>1. g[t] = f[t]
        BY <1>2, <3>3
      <4> QED
        BY <3>1, <3>2, <4>1 DEF CountedOne, IsOpen
    <3>4. CASE t \in d.targets
      <4>1. ~MustPivot(f, t)
        BY <3>4 DEF Apt, Workers, MustPivot
      <4>2. t \notin NoFixes => f[t].retries < MaxRetries
        <5> SUFFICES ASSUME t \notin NoFixes PROVE f[t].retries < MaxRetries
          OBVIOUS
        <5>1. f[t].retries \in Nat /\ MaxRetries \in Nat
          BY <3>1, TaskAssumption DEF Records
        <5>2. f[t].status = "pending" \/ f[t].status = "needs_retry"
          BY <2>4, <3>4 DEF Workable
        <5> QED
          BY <3>1, <4>1, <5>1, <5>2 DEF CountedOne, CapHolds
      <4>3. f[t].status # "unspawned"
        BY <2>4, <3>4 DEF Workable
      <4> QED
        BY <1>3, <3>1, <3>2, <4>2, <4>3 DEF CountedOne
    <3> QED
      BY <3>3, <3>4
  <2>8. Tidy(g)
    BY <1>1, <2>6, <2>7 DEF Tidy, Counted
  <2> QED
    BY <1>3, <1>4, <2>2, <2>8
<1> QED
  BY <1>6, <1>7

LEMMA SendingFreshFlies ==
  ASSUME Flying, pc = "commit", NEW f, Tidy(f), Opened(f) = {}, CapHolds(f),
         \A t \in Tasks : /\ f[t].retries = task[t].retries
                          /\ f[t].status = "qa_passed" => task[t].status = "qa_passed"
                          /\ f[t].status = "unfixable" => task[t].status = "unfixable",
         \A t \in Opened(task) : f[t].status \in Terminal \ {"qa_passed"},
         NEW d \in Decisions, d.node # "none", Apt(f, d),
         d.node \in Workers => d.targets \subseteq Dispatchable(f),
         escalation # Nobody => d.node = "portfolio",
         Sending(f, d), qaDone' = FALSE, UNCHANGED <<verdict, escalation>>, WholeDispatch'
  PROVE  InFlight' /\ Fair
<1>1. f \in Queues /\ Ready(f) = {} /\ d.node # "qa" /\ d.node \in Nodes \ {"none"}
  BY DEF Tidy, OneBatch, Apt, Modest, Decisions
<1>2. ToPortfolio.node = "portfolio" /\ ToPortfolio.targets = {}
  BY DEF ToPortfolio, Decision
<1>3. /\ \A t \in Tasks : replay'[t] \in {0, replay[t]}
      /\ \/ task' = f /\ active' = {} /\ pc' = "portfolio"
         \/ /\ task' = Attempted(f, d) /\ active' = d.targets
            /\ pc' = IF d.node \in Workers /\ d.targets = {} THEN "teardown" ELSE d.node
  BY <1>2 DEF Sending, Sent, Workers
<1>4. ASSUME task' = f, pc' \in {"portfolio", "teardown"}
      PROVE  InFlight' /\ Fair
  <2>1. Fair
    <3>1. BatchMoves
      BY <1>1, <1>4 DEF BatchMoves, Opened
    <3> QED
      BY <1>3, <1>4, <3>1, QuietFair DEF Flying, InFlight
  <2> QED
    BY <1>1, <1>4, <2>1
       DEF InFlight, Phases, AtWorkers, AtAnswers, AtVerdicts, InPass, AtQa, AtPortfolio,
           ReadInBatch, Escalating, Deciding, Capping, Workers
<1>5. ASSUME d.node \notin Workers \/ d.targets = {}
      PROVE  Attempted(f, d) = f
  <2>1. \A t \in Tasks : Attempted(f, d)[t] = f[t]
    BY <1>1, <1>5, AttemptedFields
  <2> QED
    BY <1>1, <2>1, AttemptedOpens DEF Queues
<1>6. CASE d.node \in Workers /\ d.targets # {} /\ task' = Attempted(f, d) /\ active' = d.targets /\ pc' = d.node
  <2>1. \A t, u \in d.targets : IsOpen(task', t) => IsOpen(task', u)
    BY <1>6 DEF WholeDispatch
  <2>2. /\ Tidy(task') /\ CapHolds(task') /\ Ready(task') = {}
        /\ \/ task' = f
           \/ Opened(task') = d.targets /\ \A t \in d.targets : task'[t].attempt = Fresh(d)
        /\ \A t \in Tasks : task'[t].retries = f[t].retries /\ task'[t].status = f[t].status
    BY <1>6, <2>1, BatchOpens
  <2>3. Fair
    <3>1. BatchMoves
      BY <2>2 DEF BatchMoves, Opened
    <3> QED
      BY <1>3, <2>2, <3>1, QuietFair DEF Flying, InFlight
  <2>4. escalation' = Nobody /\ ~qaDone'
    BY <1>6 DEF Workers
  <2>5. AtWorkers'
    BY <1>6, <2>2, FreshFields DEF AtWorkers
  <2>6. ReadInBatch'
    BY <2>2, FreshFields DEF ReadInBatch
  <2>7. pc' \in {"update", "workaround"}
    BY <1>6 DEF Workers
  <2> QED
    BY <2>2, <2>3, <2>4, <2>5, <2>6, <2>7
       DEF InFlight, Phases, AtAnswers, AtVerdicts, InPass, AtQa, AtPortfolio, Escalating, Deciding, Capping
<1> QED
  BY <1>1, <1>3, <1>4, <1>5, <1>6 DEF Nodes, Workers

LEMMA CountedFields ==
  ASSUME NEW r \in Records
  PROVE  LET n == [r EXCEPT !.attempt.runs = @ + 1]
         IN  /\ n.status = r.status /\ n.retries = r.retries /\ n.stage = r.stage /\ n.exhausted = r.exhausted
             /\ n.attempt.batch = r.attempt.batch /\ n.attempt.runs = r.attempt.runs + 1
             /\ n.attempt.answer = r.attempt.answer /\ n.attempt.heard = r.attempt.heard
             /\ n.attempt.read = r.attempt.read
<1> DEFINE n == [r EXCEPT !.attempt.runs = @ + 1]
           a == [r.attempt EXCEPT !.runs = @ + 1]
<1>1. r.attempt \in Attempts
  BY DEF Records
<1>2. /\ a.batch = r.attempt.batch /\ a.runs = r.attempt.runs + 1 /\ a.answer = r.attempt.answer
      /\ a.heard = r.attempt.heard /\ a.read = r.attempt.read
  BY <1>1 DEF Attempts
<1>3. n = [r EXCEPT !.attempt = a]
  OBVIOUS
<1> HIDE DEF a
<1>4. /\ n.status = r.status /\ n.retries = r.retries /\ n.stage = r.stage /\ n.exhausted = r.exhausted
      /\ n.attempt = a
  BY <1>3 DEF Records
<1> HIDE DEF n
<1>5. /\ n.status = r.status /\ n.retries = r.retries /\ n.stage = r.stage /\ n.exhausted = r.exhausted
      /\ n.attempt.batch = r.attempt.batch /\ n.attempt.runs = r.attempt.runs + 1
      /\ n.attempt.answer = r.attempt.answer /\ n.attempt.heard = r.attempt.heard
      /\ n.attempt.read = r.attempt.read
  BY <1>2, <1>4
<1> QED
  BY <1>5 DEF n

\* The batch in flight is judged once more.
LEMMA SendingQaFlies ==
  ASSUME Flying, pc = "commit", Opened(task) # {},
         NEW d \in Decisions, d.node = "qa", d.targets = Opened(task),
         \A t \in Opened(task) : task[t].attempt.runs < MaxReruns + 1,
         Sending(task, d), qaDone' = FALSE, UNCHANGED <<verdict, escalation>>
  PROVE  InFlight' /\ Fair
<1>1. /\ Tidy(task) /\ task \in Queues /\ Waiting(task) /\ CapHolds(task) /\ escalation = Nobody /\ ReadInBatch
      /\ Opened(task) \subseteq Tasks
  BY DEF Flying, IInv, TypeInv, InFlight, Phases, InPass, Escalating, Capping, Opened
<1>2. /\ \A t \in Tasks : replay'[t] \in {0, replay[t]}
      /\ task' = Attempted(task, d) /\ active' = Opened(task) /\ pc' = "qa"
  BY DEF Sending, NoAction, Sent, Workers
<1>3. task' \in Queues
  BY <1>1, <1>2, AttemptedOpens
<1>4. ASSUME NEW t \in Tasks \ Opened(task)
      PROVE  task'[t] = task[t]
  BY <1>2, <1>4 DEF Attempted, Workers
<1>5. ASSUME NEW t \in Opened(task)
      PROVE  /\ task'[t].status = task[t].status /\ task'[t].retries = task[t].retries
             /\ task'[t].stage = task[t].stage /\ task'[t].exhausted = task[t].exhausted
             /\ task'[t].attempt.batch = task[t].attempt.batch
             /\ task'[t].attempt.runs = task[t].attempt.runs + 1
             /\ task'[t].attempt.answer = task[t].attempt.answer
             /\ task'[t].attempt.heard = task[t].attempt.heard
             /\ task'[t].attempt.read = task[t].attempt.read
  <2> DEFINE n == [task[t] EXCEPT !.attempt.runs = @ + 1]
             sent == t \in d.targets /\ d.node \in Workers /\ Authorised(task, t)
             judged == t \in d.targets /\ d.node = "qa" /\ IsOpen(task, t)
             opened == [task[t] EXCEPT !.attempt = [NoAttempt EXCEPT !.batch = d.targets]]
  <2>1. t \in Tasks /\ task[t] \in Records
    BY <1>1 DEF Queues
  <2>2. task'[t] = CASE sent -> opened [] judged -> n [] OTHER -> task[t]
    BY <1>2, <2>1 DEF Attempted
  <2>3. judged /\ ~sent
    BY DEF Opened, Workers
  <2> HIDE DEF sent, judged, opened, n
  <2>4. task'[t] = n
    BY <2>2, <2>3
  <2>5. /\ n.status = task[t].status /\ n.retries = task[t].retries
        /\ n.stage = task[t].stage /\ n.exhausted = task[t].exhausted
        /\ n.attempt.batch = task[t].attempt.batch
        /\ n.attempt.runs = task[t].attempt.runs + 1
        /\ n.attempt.answer = task[t].attempt.answer
        /\ n.attempt.heard = task[t].attempt.heard
        /\ n.attempt.read = task[t].attempt.read
    BY <2>1, CountedFields DEF n
  <2> QED
    BY <2>4, <2>5
<1>6. \A t \in Opened(task) : /\ task[t].attempt.runs \in Nat
                              /\ task'[t].attempt.runs <= MaxReruns + 1 /\ task'[t].attempt.runs > 0
  <2> SUFFICES ASSUME NEW t \in Opened(task)
               PROVE  /\ task[t].attempt.runs \in Nat
                      /\ task'[t].attempt.runs <= MaxReruns + 1 /\ task'[t].attempt.runs > 0
    OBVIOUS
  <2>1. task[t].attempt.runs \in Nat /\ MaxReruns \in Nat
    BY <1>1, BoundAssumption DEF Queues, Records, Attempts
  <2> QED
    BY <1>5, <2>1
<1>7. /\ Tidy(task') /\ Opened(task') = Opened(task) /\ Ready(task') = Ready(task)
      /\ CapHolds(task) => CapHolds(task')
  <2>1. \A t \in Opened(task) :
          /\ task'[t].status = task[t].status /\ task'[t].retries = task[t].retries
          /\ task'[t].stage = task[t].stage /\ task'[t].exhausted = task[t].exhausted
          /\ task'[t].attempt.batch = task[t].attempt.batch /\ task'[t].attempt.runs <= MaxReruns + 1
    BY <1>5, <1>6
  <2>2. Opened(task) \subseteq Opened(task)
    OBVIOUS
  <2> QED
    BY ONLY <1>1, <1>3, <1>4, <2>1, <2>2, EnvelopeTidy, Zenon
<1>8. Waiting(task') /\ ReadInBatch'
  BY <1>1, <1>5, <1>7 DEF Waiting, ReadInBatch
<1>9. Fair
  <2>1. \A t \in Tasks : task'[t].retries = task[t].retries /\ task'[t].status = task[t].status
    BY <1>4, <1>5
  <2> QED
    BY <1>1, <1>2, <1>7, <2>1, QuietFair DEF BatchMoves
<1> QED
  BY <1>1, <1>2, <1>6, <1>7, <1>8, <1>9
     DEF InFlight, Phases, AtWorkers, AtAnswers, AtVerdicts, InPass, AtQa, AtPortfolio,
         Escalating, Deciding, Capping, Workers

\* What the last stage makes of the decision: with a batch in flight, QA.
LEMMA BarrierDecides ==
  ASSUME Flying, pc = "commit", NEW d, d = AfterBarrier(task, AfterReplan(task, decision))
  PROVE  /\ Opened(task) = {} => d \in {decision, ToPortfolio}
         /\ Opened(task) # {} =>
              /\ d \in Decisions /\ d.node = "qa" /\ d.targets = Opened(task)
              /\ ~qaDone => \A t \in Opened(task) : task[t].attempt.runs = 0
<1> DEFINE r == AfterReplan(task, decision)
           rechecked == {t \in Ready(task) \cap Open(task) : task[t].attempt.runs > 0}
           first == CHOOSE t \in rechecked : TRUE
           targets == {t \in Ready(task) \cap Open(task) : task[t].attempt.batch = task[first].attempt.batch}
<1>1. /\ Tidy(task) /\ Waiting(task) /\ task \in Queues
      /\ \A t \in Opened(task) : qaDone <=> task[t].attempt.runs > 0
      /\ Opened(task) # {} /\ ~qaDone => decision = QaOf(Opened(task))
  BY DEF Flying, IInv, TypeInv, InFlight, Phases, InPass, Deciding
<1>2. Open(task) = Opened(task) /\ Ready(task) = Opened(task)
  BY <1>1, OpenIsOpened DEF Tidy, Waiting
<1>3. d = IF rechecked = {} THEN r ELSE Decision("qa", targets, Cardinality(targets) > 1, {})
  BY DEF AfterBarrier
<1>4. CASE Opened(task) = {}
  <2>1. rechecked = {}
    BY <1>2, <1>4
  <2>2. r \in {decision, ToPortfolio}
    BY <1>2, <1>4 DEF AfterReplan
  <2> QED
    BY <1>3, <1>4, <2>1, <2>2
<1>5. CASE Opened(task) # {} /\ qaDone
  <2>1. rechecked = Opened(task)
    BY <1>1, <1>2, <1>5
  <2>2. first \in Opened(task)
    BY <1>5, <2>1
  <2> HIDE DEF first
  <2>3. targets = Opened(task)
    BY <1>1, <1>2, <2>2 DEF Tidy, OneBatch
  <2> HIDE DEF rechecked, targets
  <2>4. d = Decision("qa", Opened(task), Cardinality(Opened(task)) > 1, {})
    BY <1>3, <1>5, <2>1, <2>3
  <2>5. Opened(task) \in SUBSET Tasks /\ (Cardinality(Opened(task)) > 1) \in BOOLEAN /\ "qa" \in Nodes \ {"none"}
    BY DEF Opened, Nodes
  <2>6. d \in Decisions
    BY <2>4, <2>5, DecisionSound DEF Sound
  <2> QED
    BY <1>5, <2>4, <2>6 DEF Decision
<1>6. CASE Opened(task) # {} /\ ~qaDone
  <2>1. \A t \in Opened(task) : task[t].attempt.runs = 0
    <3> SUFFICES ASSUME NEW t \in Opened(task) PROVE task[t].attempt.runs = 0
      OBVIOUS
    <3>1. task[t].attempt.runs \in Nat
      BY <1>1 DEF Opened, Queues, Records, Attempts
    <3> QED
      BY <1>1, <1>6, <3>1
  <2>2. rechecked = {}
    BY <1>2, <2>1
  <2>3. decision.node = "qa" /\ decision.targets = Opened(task)
    BY <1>1, <1>6 DEF QaOf, Decision
  <2>4. r = decision
    BY <1>2, <1>6, <2>3 DEF AfterReplan
  <2>5. decision \in Decisions
    BY DEF Flying, IInv, TypeInv
  <2> HIDE DEF rechecked
  <2> QED
    BY <1>3, <1>6, <2>1, <2>2, <2>3, <2>4, <2>5
<1> QED
  BY <1>4, <1>5, <1>6

LEMMA CommitDispatchFlies ==
  ASSUME Flying, CommitDispatch, WholeDispatch'
  PROVE  InFlight' /\ Fair
<1> DEFINE d == AfterBarrier(task, AfterReplan(task, decision))
           spent == QaSpent(task, d)
           f == SetStatus(task, spent, "inconclusive")
           r == Normalised(f, Route(f))
           left == [d EXCEPT !.targets = @ \ spent]
<1>1. /\ pc = "commit" /\ Limiting(d, spent)
      /\ qaDone' = FALSE /\ UNCHANGED <<verdict, escalation>>
  BY DEF CommitDispatch
<1>2. /\ Tidy(task) /\ Waiting(task) /\ task \in Queues /\ active \in SUBSET Tasks /\ CapHolds(task)
      /\ decision \in Decisions /\ decision.node # "none" /\ Apt(task, decision)
      /\ decision.node \in Workers => decision.targets \subseteq Dispatchable(task)
      /\ escalation # Nobody => Opened(task) = {} /\ decision.node = "portfolio"
  BY <1>1 DEF Flying, IInv, TypeInv, DecisionIsReady, InFlight, Phases, InPass, Escalating, Deciding, Capping, Apt
<1>3. /\ Opened(task) = {} => d \in {decision, ToPortfolio}
      /\ Opened(task) # {} =>
           /\ d \in Decisions /\ d.node = "qa" /\ d.targets = Opened(task)
           /\ ~qaDone => \A t \in Opened(task) : task[t].attempt.runs = 0
  BY <1>1, BarrierDecides
<1>4. Limiting(d, spent) <=>
        IF spent # {} /\ d.targets \subseteq spent THEN Sending(f, r) ELSE Sending(f, left)
  BY DEF Limiting
<1> HIDE DEF d, r
<1>5. spent = {} => f = task
  BY <1>2 DEF SetStatus, Committed, Queues
<1>6. d \in Decisions /\ spent = {} => left = d
  BY DEF left, Decisions
<1>7. CASE Opened(task) = {}
  <2>1. /\ ToPortfolio \in Decisions /\ ToPortfolio.node = "portfolio"
        /\ Apt(task, ToPortfolio)
    <3>1. ToPortfolio.node = "portfolio"
      BY DEF ToPortfolio, Decision
    <3> QED
      BY <3>1, DecisionSound, OtherModest DEF ToPortfolio, Sound, Nodes, Apt
  <2>2. /\ d \in Decisions /\ d.node # "none" /\ Apt(task, d)
        /\ d.node \in Workers => d.targets \subseteq Dispatchable(task)
        /\ escalation # Nobody => d.node = "portfolio"
    BY <1>2, <1>3, <1>7, <2>1 DEF Workers
  <2>3. spent = {}
    <3>1. \A t \in d.targets : ~IsOpen(task, t)
      BY <1>7, <2>2 DEF Decisions, Opened
    <3> QED
      BY <3>1 DEF QaSpent
  <2>4. Sending(task, d)
    BY <1>1, <1>4, <1>5, <1>6, <2>2, <2>3
  <2> QED
    BY <1>1, <1>2, <1>7, <2>2, <2>4, SendingFreshFlies
<1>8. CASE Opened(task) # {}
  <2> DEFINE over == {t \in d.targets : d.node = "qa" /\ IsOpen(task, t) /\ task[t].attempt.runs >= MaxReruns + 1}
  <2>1. d \in Decisions /\ d.node = "qa" /\ d.targets = Opened(task)
    BY <1>3, <1>8
  <2>2. over \subseteq Opened(task)
    BY <2>1
  <2>3. \/ spent = {} /\ over = {}
        \/ spent = Opened(task)
    <3>1. \A t, u \in Opened(task) : task[t].attempt.batch = task[u].attempt.batch
      BY <1>2 DEF Tidy, OneBatch
    <3>2. spent = CASE over = {} -> {}
                    [] over # {} /\ d.cluster -> d.targets
                    [] OTHER -> {t \in d.targets : \E u \in over : task[t].attempt.batch = task[u].attempt.batch}
      BY DEF QaSpent
    <3> HIDE DEF over, spent
    <3>3. CASE over = {}
      BY <3>2, <3>3
    <3>4. CASE over # {} /\ d.cluster
      BY <2>1, <3>2, <3>4
    <3>5. CASE over # {} /\ ~d.cluster
      <4>1. spent = {t \in d.targets : \E u \in over : task[t].attempt.batch = task[u].attempt.batch}
        BY <3>2, <3>5
      <4> QED
        BY <2>1, <2>2, <3>1, <3>5, <4>1
    <3> QED
      BY <3>3, <3>4, <3>5
  <2>4. CASE spent = {} /\ over = {}
    <3>1. Sending(task, d)
      BY <1>1, <1>4, <1>5, <1>6, <2>1, <2>4
    <3>2. \A t \in Opened(task) : task[t].attempt.runs < MaxReruns + 1
      <4> SUFFICES ASSUME NEW t \in Opened(task) PROVE task[t].attempt.runs < MaxReruns + 1
        OBVIOUS
      <4>1. task[t].attempt.runs \in Nat /\ MaxReruns \in Nat
        BY <1>2, BoundAssumption DEF Opened, Queues, Records, Attempts
      <4>2. ~(task[t].attempt.runs >= MaxReruns + 1)
        BY <2>1, <2>4 DEF Opened
      <4> QED
        BY <4>1, <4>2
    <3> QED
      BY <1>1, <1>8, <2>1, <3>1, <3>2, SendingQaFlies
  <2>5. CASE spent = Opened(task)
    <3> HIDE DEF spent
    <3>1. Sending(f, r)
      BY <1>1, <1>4, <1>8, <2>1, <2>5
    <3>2. Opened(task) \subseteq Live(task)
      BY <1>2 DEF Tidy, OneBatch, Live, Queue, Opened
    <3>3. /\ Tidy(f) /\ Opened(f) = {} /\ Ready(f) = {} /\ CapHolds(f)
          /\ \A t \in Tasks : /\ f[t].retries = task[t].retries
                              /\ f[t].status \in {task[t].status, "inconclusive"}
                              /\ t \in Opened(task) => f[t].status = "inconclusive"
      BY <1>2, <2>5, <3>2, EndAll
    <3> HIDE DEF f
    <3>4. Route(f) \in Decisions /\ Route(f).node # "none" /\ Modest(f, Route(f))
      BY <1>2, <3>3, RouteSound, RouteModest DEF Sound, Tidy
    <3>5. /\ r \in Decisions /\ r.node # "none" /\ Apt(f, r)
          /\ r.node \in Workers => r.targets \subseteq Dispatchable(f)
      BY <3>4, NormalisedType, NormalisedApt, AllowedType DEF r
    <3>6. escalation = Nobody
      BY <1>2, <1>8
    <3>7. \A t \in Opened(task) : f[t].status \in Terminal \ {"qa_passed"}
      BY <3>3 DEF Opened, Terminal
    <3>8. \A t \in Tasks : /\ f[t].status = "qa_passed" => task[t].status = "qa_passed"
                           /\ f[t].status = "unfixable" => task[t].status = "unfixable"
      BY <3>3
    <3> QED
      BY <1>1, <3>1, <3>3, <3>5, <3>6, <3>7, <3>8, SendingFreshFlies
  <2> QED
    BY <2>3, <2>4, <2>5
<1> QED
  BY <1>7, <1>8

-----------------------------------------------------------------------------
(* The invariant of the whole, and what follows from it. *)

LEMMA StutterFlies ==
  ASSUME Flying, UNCHANGED vars
  PROVE  InFlight' /\ Fair
<1>1. Fair
  BY StillFair DEF vars, Flying, InFlight
<1>2. /\ pc' = pc /\ task' = task /\ active' = active /\ verdict' = verdict /\ qaDone' = qaDone
      /\ decision' = decision /\ escalation' = escalation
  BY DEF vars, portfolio
<1>3. Modest(task, decision)' <=> Modest(task, decision)
  BY <1>2 DEF Modest
<1> QED
  BY <1>1, <1>2, <1>3
     DEF Flying, InFlight, Phases, AtWorkers, AtAnswers, AtVerdicts, Attributed, InPass, AtQa, AtPortfolio,
         ReadInBatch, Escalating, Deciding, Capping

LEMMA StepFlies ==
  ASSUME Flying, [Next]_vars, WholeDispatch'
  PROVE  InFlight' /\ Fair
<1>1. CASE Supervisor
  BY <1>1, PlansFirstFlies, ReconcileFlies, PlanFlies, GuardFlies, ApplyFlies, CrashFlies, CommitDispatchFlies
     DEF Supervisor
<1>2. CASE PortfolioTool
  BY <1>2, PortfolioGivesUpFlies, SolverFailsFlies, PortfolioDefersNot, PortfolioCommitsFlies DEF PortfolioTool
<1>3. CASE Ended \/ UNCHANGED vars
  BY <1>3, StutterFlies DEF Ended
<1> QED
  BY <1>1, <1>2, <1>3, TeardownFlies, WorkerAbandonsFlies, WorkerAnswersFlies, QaAbandonsNot, QaAnswersFlies
     DEF Next

LEMMA InitFlies ==
  ASSUME Init
  PROVE  InFlight
<1> USE DEF Init
<1>1. task \in Queues
  BY InitIInv DEF IInv, TypeInv
<1>2. \A t \in Tasks : /\ task[t].attempt = NoAttempt /\ task[t].retries = 0
                       /\ task[t].status = IF t \in Children THEN "unspawned" ELSE "pending"
                       /\ task[t].stage = IF t \in NoFixes THEN "package_removal" ELSE "none"
  <2> SUFFICES ASSUME NEW t \in Tasks
               PROVE  /\ task[t].attempt = NoAttempt /\ task[t].retries = 0
                      /\ task[t].status = IF t \in Children THEN "unspawned" ELSE "pending"
                      /\ task[t].stage = IF t \in NoFixes THEN "package_removal" ELSE "none"
    OBVIOUS
  <2>1. task[t] = IF t \in Children THEN NewTask("unspawned", "none")
                  ELSE IF t \in NoFixes THEN NewTask("pending", "package_removal") ELSE NewTask("pending", "none")
    BY TaskAssumption
  <2> QED
    BY <2>1, TaskAssumption DEF NewTask
<1>3. Opened(task) = {} /\ Ready(task) = {}
  BY <1>2 DEF Opened, IsOpen, NoAttempt, Ready
<1>4. OneBatch(task)
  BY <1>2, <1>3 DEF OneBatch
<1>5. Counted(task)
  <2>1. MaxRetries \in Nat \ {0} /\ MaxReruns \in Nat /\ NoAttempt.runs = 0
    BY TaskAssumption, BoundAssumption DEF NoAttempt
  <2> QED
    BY <1>2, <2>1 DEF Counted, CountedOne
<1>6. CapHolds(task)
  BY <1>2 DEF CapHolds
<1> QED
  BY <1>1, <1>3, <1>4, <1>5, <1>6
     DEF Tidy, InFlight, Phases, AtWorkers, AtAnswers, AtVerdicts, InPass, AtQa, AtPortfolio,
         ReadInBatch, Escalating, Deciding, Capping, Workers, Nobody

\* One batch is in flight at a time, and nothing else is: it is answered, judged and settled
\* as it was dispatched, and the retries and QA runs of its tasks are counted on the way.
THEOREM BatchInFlight ==
  ASSUME "abandon" \notin Faults
  PROVE  Spec /\ []WholeDispatch => []InFlight
<1>1. Init => InFlight
  BY InitFlies
<1>2. IInv /\ WholeDispatch /\ InFlight /\ [Next]_vars /\ WholeDispatch' => InFlight'
  BY StepFlies DEF Flying
<1> QED
  BY <1>1, <1>2, Invariance, PTL DEF Spec

\* The queue stays in order: workers are only sent work that is open, QA only batches that
\* wait as a whole, a candidate that waits has its attempt, and a superseded update its
\* child.  Assumed: no dispatch is lost, the queue has room for all tasks, and each dispatch
\* opens whole; the last is the other half of QueueIsConsistent, which authorisation may
\* break and which is not proved.
THEOREM QueueStaysOrderly ==
  ASSUME "abandon" \notin Faults, Cardinality(Tasks) <= QueueCap
  PROVE  Spec /\ []WholeDispatch => []QueueIsOrderly
<1>1. InFlight => QaTargets /\ OptimisticHasAttempt
  <2> SUFFICES ASSUME InFlight PROVE QaTargets /\ OptimisticHasAttempt
    OBVIOUS
  <2>1. OneBatch(task)
    BY DEF InFlight, Tidy
  <2>2. QaTargets
    BY <2>1 DEF QaTargets, InFlight, Phases, AtQa, Waiting, OneBatch
  <2>3. OptimisticHasAttempt
    BY <2>1, OpenIsOpened DEF OptimisticHasAttempt, OneBatch
  <2> QED
    BY <2>2, <2>3
<1>2. TypeOK /\ WorkerTargets /\ QaTargets /\ OptimisticHasAttempt /\ PivotedHasChild => QueueIsOrderly
  BY DEF QueueIsOrderly
<1>3. Spec => []TypeOK /\ []WorkerTargets /\ []PivotedHasChild
  BY QueueTypes, WorkersGetOpenWork, SupersededHasChild, PTL
<1> QED
  BY <1>1, <1>2, <1>3, BatchInFlight, PTL

\* Retries end at MAX_RETRIES, or after the two stages of a package without a fix, and no
\* attempt is judged more often than MAX_QA_EVIDENCE_RERUNS + 1 times: the cap of the plan
\* stage and the limit of the dispatch stage leave no way around them.
THEOREM BoundsAlwaysHold ==
  ASSUME "abandon" \notin Faults
  PROVE  Spec /\ []WholeDispatch => []BoundsHold
<1>1. InFlight => BoundsHold
  <2> SUFFICES ASSUME InFlight, NEW t \in Tasks
               PROVE  /\ task[t].retries <= IF t \in NoFixes THEN 2 ELSE MaxRetries
                      /\ task[t].attempt.runs <= MaxReruns + 1
    BY DEF BoundsHold, RetriesBounded, QaBounded
  <2> QED
    BY DEF InFlight, Tidy, Counted, CountedOne
<1> QED
  BY <1>1, BatchInFlight, PTL

\* A failure costs the task that it is blamed on one retry and its attempt; a peer that
\* delta isolation does not blame pays nothing and keeps the version it was judged with.
THEOREM ChargesStayFair ==
  ASSUME "abandon" \notin Faults
  PROVE  Spec /\ []WholeDispatch => ChargesAreFair
<1>1. IInv /\ InFlight /\ WholeDispatch /\ WholeDispatch' /\ [Next]_vars
      => [\A t \in Tasks : task'[t].retries # task[t].retries =>
            task'[t].retries = task[t].retries + 1 /\ IsOpen(task, t) /\ ~IsOpen(task', t)]_vars
  BY StepFlies DEF Flying, Fair, ChargedOnce
<1>2. IInv /\ InFlight /\ WholeDispatch /\ WholeDispatch' /\ [Next]_vars
      => [\A t \in Tasks : replay'[t] \notin {0, replay[t]} =>
            /\ task'[t].status = "pending" /\ ~IsOpen(task', t)
            /\ task'[t].retries = task[t].retries /\ task'[t].selected = replay'[t]]_vars
  BY StepFlies DEF Flying, Fair, PeersSpared
<1> QED
  BY <1>1, <1>2, Invariance, BatchInFlight, PTL DEF Spec, ChargesAreFair, RetryChargedOnce, PeersNotCharged

\* The packages of a cluster pass together or not at all.
THEOREM ClustersPassWhole ==
  ASSUME "abandon" \notin Faults
  PROVE  Spec /\ []WholeDispatch => AllOrNothing
<1>1. IInv /\ InFlight /\ WholeDispatch /\ WholeDispatch' /\ [Next]_vars
      => [\A t \in Tasks : task[t].attempt.batch # {} /\ task'[t].status = "qa_passed" =>
            \A u \in task[t].attempt.batch : task'[u].status = "qa_passed"]_vars
  BY StepFlies DEF Flying, Fair, PassWhole
<1> QED
  BY <1>1, Invariance, BatchInFlight, PTL DEF Spec, AllOrNothing

\* A task passes only by QA's verdict on what its worker built, or as the parent of a
\* workaround, if the scanner no longer reports its finding.
THEOREM PassesAreEarned ==
  ASSUME "abandon" \notin Faults
  PROVE  Spec /\ []WholeDispatch => PassEarned
<1>1. IInv /\ InFlight /\ WholeDispatch /\ WholeDispatch' /\ [Next]_vars
      => [\A t \in Tasks : task[t].status # "qa_passed" /\ task'[t].status = "qa_passed" =>
            \/ verdict'[t] = "pass" /\ IsOpen(task, t) /\ task[t].attempt.answer = "success"
            \/ verdict'[t] = "cleared" /\ t \in Updates]_vars
  BY StepFlies DEF Flying, Fair, PassByEvidence
<1> QED
  BY <1>1, Invariance, BatchInFlight, PTL DEF Spec, PassEarned

\* Nothing is given up that was never tried, except by the fail-closed route, which ends
\* the run when its dispatch has lost its last target.
THEOREM GivenUpWasTried ==
  ASSUME "abandon" \notin Faults, "nofix" \notin Faults
  PROVE  Spec /\ []WholeDispatch =>
           [][\A t \in Tasks : task[t].status # "unfixable" /\ task'[t].status = "unfixable" =>
                IsOpen(task, t) \/ task[t].retries > 0 \/ GivesUpTheRest]_vars
<1>1. IInv /\ InFlight /\ WholeDispatch /\ WholeDispatch' /\ [Next]_vars
      => [\A t \in Tasks : task[t].status # "unfixable" /\ task'[t].status = "unfixable" =>
            IsOpen(task, t) \/ task[t].retries > 0 \/ GivesUpTheRest]_vars
  BY StepFlies DEF Flying, Fair, GivenUpAfterTry
<1> QED
  BY <1>1, Invariance, BatchInFlight, PTL DEF Spec

-----------------------------------------------------------------------------
(* The contract of TaskContract: every step is one of its moves. *)

\* Only the teardown ends the run.
LEMMA RunsOn ==
  ASSUME IInv, Next, pc \notin {"teardown", "done"}
  PROVE  pc' # "done"
<1>1. Reconcile \/ Plan \/ Guard \/ Apply \/ Crash \/ PlansFirst => pc' # "done"
  BY DEF Reconcile, Plan, Guard, Apply, Crash, PlansFirst
<1>2. PortfolioTool => pc' # "done"
  BY DEF PortfolioTool, PortfolioGivesUp, SolverFails, PortfolioDefers, PortfolioCommits
<1>3. WorkerAbandons \/ WorkerAnswers \/ QaAbandons \/ QaAnswers => pc' # "done"
  BY DEF WorkerAbandons, WorkerAnswers, QaAbandons, QaAnswers
<1>4. CommitDispatch => pc' # "done"
  BY CommitDispatchKeeps
<1>5. Ended => pc' = pc
  BY DEF Ended, vars
<1>6. Teardown => pc = "teardown"
  BY DEF Teardown
<1> QED
  BY <1>1, <1>2, <1>3, <1>4, <1>5, <1>6 DEF Next, Supervisor

\* What happens to a task without an attempt.
LEMMA BesideBatch ==
  ASSUME Flying, Tidy(task'), Fair, Orderly, pc # "teardown", NEW t \in Tasks \ Opened(task)
  PROVE  /\ task'[t].retries = task[t].retries
         /\ \/ Life(t)' = Life(t)
            \/ Life(t) \in {"absent", "live"} /\ Life(t)' \in {"live", "closed"}
            \/ Life(t) = "live" /\ Life(t)' = "passed" /\ t \in Updates
<1>1. ~IsOpen(task, t)
  BY DEF Opened
<1>2. task'[t].retries = task[t].retries
  BY <1>1 DEF Fair, ChargedOnce
<1>3. task[t].status \in Terminal => task'[t].status = task[t].status
  BY DEF Orderly, EndsStay
<1>4. /\ task'[t].status = "unspawned" => task[t].status = "unspawned"
      /\ task[t].status = "unspawned" => task'[t].status = "unspawned" \/ t \notin Updates
  BY DEF Orderly, Enters
<1>5. task[t].status # "qa_passed" /\ task'[t].status = "qa_passed" => t \in Updates
  BY <1>1 DEF Fair, PassByEvidence
<1> QED
  BY <1>2, <1>3, <1>4, <1>5 DEF Life, Terminal

\* Who has an attempt can be worked on, and can pay for a failure.
LEMMA InFlightLives ==
  ASSUME Tidy(task), NEW t \in Opened(task)
  PROVE  Life(t) = "live" /\ task[t].retries < RetryLimit(t)
<1>1. t \in Tasks /\ IsOpen(task, t) /\ task[t].status \notin Terminal \cup {"unspawned"} /\ CountedOne(task, t)
  BY DEF Tidy, OneBatch, Opened, Counted
<1>2. Life(t) = "live"
  BY <1>1 DEF Life, Terminal
<1>3. task[t].retries < RetryLimit(t)
  BY <1>1 DEF CountedOne, RetryLimit, Terminal
<1> QED
  BY <1>2, <1>3

\* So can who gets one.
LEMMA BatchTakesOff ==
  ASSUME Flying, Tidy(task'), Orderly, pc # "teardown", NEW t \in Opened(task')
  PROVE  Life(t) = "live" /\ Life(t)' = "live" /\ task'[t].retries < RetryLimit(t)
<1>1. /\ t \in Tasks /\ IsOpen(task', t) /\ task'[t].status \notin Terminal \cup {"unspawned"}
      /\ CountedOne(task', t)
  BY DEF Tidy, OneBatch, Opened, Counted
<1>2. Life(t)' = "live"
  BY <1>1 DEF Life, Terminal
<1>3. task'[t].retries < RetryLimit(t)
  BY <1>1 DEF CountedOne, RetryLimit, Terminal
<1>4. task[t].status \notin Terminal \cup {"unspawned"}
  BY <1>1 DEF Orderly, EndsStay, Enters
<1>5. Life(t) = "live"
  BY <1>4 DEF Life, Terminal
<1> QED
  BY <1>2, <1>3, <1>5

\* What becomes of a task whose batch is over.
LEMMA OverEnds ==
  ASSUME Flying, Tidy(task'), Fair, Over(task'), NEW t \in Opened(task)
  PROVE  /\ Life(t)' \in {"live", "passed", "closed"}
         /\ Life(t)' = "passed" =>
              /\ task'[t].retries = task[t].retries /\ Ready(task) = Opened(task)
              /\ \A u \in Opened(task) : Life(u)' = "passed" /\ task'[u].retries = task[u].retries
         /\ Life(t)' = "closed" => task'[t].retries \in {task[t].retries, task[t].retries + 1}
         /\ Life(t)' = "live" =>
              \/ task'[t].retries = task[t].retries + 1
              \/ /\ task'[t].retries = task[t].retries /\ Ready(task) = Opened(task)
                 /\ \E u \in Opened(task) : Life(u)' = "live" /\ task'[u].retries = task[u].retries + 1
<1>1. /\ t \in Tasks /\ task'[t] \in Records /\ Closed(t, task[t], task'[t])
      /\ task[t].attempt.batch = Opened(task) /\ task[t].attempt.batch # {}
  BY DEF Over, Opened, IsOpen, Tidy, Queues, Flying, InFlight, OneBatch
<1>2. task'[t].status \in Terminal \cup {"pending", "needs_retry"}
  BY <1>1 DEF Closed, Records, Statuses, Workable
<1>3. task'[t].retries \in {task[t].retries, task[t].retries + 1}
  BY <1>1 DEF Closed
<1>4. ASSUME Life(t)' = "passed"
      PROVE  /\ task'[t].retries = task[t].retries /\ Ready(task) = Opened(task)
             /\ \A u \in Opened(task) : Life(u)' = "passed" /\ task'[u].retries = task[u].retries
  <2>1. task'[t].status = "qa_passed"
    BY <1>2, <1>4 DEF Life, Terminal
  <2>2. \A u \in Opened(task) : task'[u].status = "qa_passed"
    BY <1>1, <2>1 DEF Fair, PassWhole
  <2> QED
    BY <2>1, <2>2 DEF Over, Life, Terminal
<1>5. ASSUME Life(t)' = "live", task'[t].retries # task[t].retries + 1
      PROVE  /\ task'[t].retries = task[t].retries /\ Ready(task) = Opened(task)
             /\ \E u \in Opened(task) : Life(u)' = "live" /\ task'[u].retries = task[u].retries + 1
  <2>1. task'[t].status \in {"pending", "needs_retry"}
    BY <1>2, <1>5 DEF Life, Terminal
  <2>2. task'[t].status = "pending"
    BY <1>1, <1>5, <2>1 DEF Closed
  <2>3. PICK u \in Opened(task) : task'[u].status = "needs_retry" /\ task'[u].retries = task[u].retries + 1
    BY <2>2 DEF Over
  <2>4. Life(u)' = "live"
    BY <2>3 DEF Life, Terminal
  <2> QED
    BY <1>3, <1>5, <2>2, <2>3, <2>4 DEF Over
<1>6. Life(t)' \in {"live", "passed", "closed"}
  BY <1>2 DEF Life, Terminal
<1> QED
  BY <1>3, <1>4, <1>5, <1>6

\* The teardown closes the parents that were replaced.
LEMMA TeardownCloses ==
  ASSUME Flying, Teardown
  PROVE  Contract!Close
<1>1. Tidy(task) /\ HandedOverEnded /\ \A t \in Tasks : task[t] \in Records
  BY DEF Flying, IInv, InFlight, Tidy, Queues
<1>2. ASSUME NEW t \in Tasks
      PROVE  /\ task'[t].retries = task[t].retries
             /\ Life(t)' = Life(t) \/ (Life(t) = "passed" /\ Life(t)' = "closed" /\ t \in Updates)
             /\ task'[t] = task[t] \/ (task[t].status \in Terminal /\ task'[t].status \in Terminal)
  <2>1. task'[t] = IF HasChild(task, t) THEN Drop([task[t] EXCEPT !.status = "pivoted"]) ELSE task[t]
    BY <1>2 DEF Teardown
  <2>2. CASE HasChild(task, t)
    <3> DEFINE n == [task[t] EXCEPT !.status = "pivoted"]
    <3>1. n \in Records /\ n.status = "pivoted" /\ n.retries = task[t].retries
      BY <1>1, StatusFields DEF Statuses, Terminal
    <3>2. task'[t] = Drop(n)
      BY <2>1, <2>2
    <3> HIDE DEF n
    <3>3. task'[t].status = "pivoted" /\ task'[t].retries = task[t].retries
      BY <3>1, <3>2, DropFields
    <3>4. task[t].status \in Terminal /\ t \in Updates
      BY <1>1, <2>2 DEF HandedOverEnded, HasChild
    <3> QED
      BY <3>3, <3>4 DEF Life, Terminal
  <2>3. CASE ~HasChild(task, t)
    BY <2>1, <2>3 DEF Life
  <2> QED
    BY <2>2, <2>3
<1>3. Ready(task') = Ready(task) /\ Open(task') = Open(task)
  BY <1>2 DEF Ready, Open, Live, Queue, IsOpen, Terminal
<1>4. pc' = "done"
  BY DEF Teardown
<1> QED
  BY <1>2, <1>3, <1>4 DEF Contract!Close

\* Any other step leaves the batch in flight alone, dispatches, builds or settles it.
LEMMA BatchKeepsContract ==
  ASSUME Flying, InFlight', Fair, Orderly, pc \notin {"teardown", "done"}, pc' # "done"
  PROVE  Contract!ContractNext
<1> DEFINE O == Opened(task)
           P == Opened(task')
<1>1. Tidy(task) /\ Tidy(task')
  BY DEF Flying, InFlight
<1>2. /\ Open(task) = O /\ Open(task') = P
      /\ Ready(task) \subseteq O /\ Ready(task') \subseteq P /\ O \subseteq Tasks /\ P \subseteq Tasks
  BY <1>1, OpenIsOpened DEF Tidy, OneBatch, Opened
<1>3. Contract!Beside(Open(task))
  <2>1. Open(task) = Opened(task)
    BY <1>2
  <2> QED
    BY <1>1, <2>1, BesideBatch DEF Contract!Beside
<1>4. \A t \in O : Life(t) = "live"
  BY <1>1, InFlightLives
<1>5. Contract!TakesOff(Open(task)')
  <2>1. Open(task)' = Opened(task')
    BY <1>2
  <2> QED
    BY <1>1, <1>2, <2>1, BatchTakesOff DEF Contract!TakesOff
<1>6. ASSUME P = O
      PROVE  Contract!Stays
  <2>1. \A t \in O : Life(t)' = Life(t)
    BY <1>1, <1>4, <1>6, BatchTakesOff
  <2>2. \A t \in O : task'[t].retries = task[t].retries
    BY <1>6 DEF Fair, ChargedOnce, Opened
  <2> QED
    BY <1>2, <1>6, <2>1, <2>2 DEF Contract!Stays
<1>7. ASSUME O = {}
      PROVE  Contract!Dispatch \/ Contract!Wait \/ Contract!Build
  <2>1. Ready(task) = {}
    BY <1>2, <1>7
  <2>2. CASE Ready(task') = {}
    BY <1>2, <1>5, <1>7, <2>2 DEF Contract!Dispatch
  <2>3. CASE P = O
    BY <1>2, <1>6, <1>7, <2>1, <2>3 DEF Contract!Wait
  <2>4. Ready(task') = {} \/ P = O
    BY <1>2 DEF Fair, BatchMoves, Over
  <2> QED
    BY <2>2, <2>3, <2>4
<1>8. CASE P = O /\ Ready(task') = Ready(task)
  <2>1. Contract!Wait
    BY <1>6, <1>8 DEF Contract!Wait
  <2> QED
    BY <1>2, <1>3, <2>1 DEF Contract!ContractNext
<1>9. CASE P = O /\ Ready(task) = {} /\ Ready(task') = O
  <2>1. Contract!Build
    BY <1>2, <1>6, <1>9 DEF Contract!Build
  <2> QED
    BY <1>2, <1>3, <2>1 DEF Contract!ContractNext
<1>10. CASE O # {} /\ Over(task')
  <2>1. P = {} /\ Ready(task') = {}
    BY <1>2, <1>10 DEF Over
  <2>2. CASE \E t \in O : Life(t)' = "passed"
    <3>1. /\ Ready(task) = O
          /\ \A u \in O : Life(u)' = "passed" /\ task'[u].retries = task[u].retries
      BY <1>1, <1>10, <2>2, OverEnds
    <3>2. Contract!Pass
      BY <1>2, <2>1, <3>1 DEF Contract!Pass
    <3> QED
      BY <1>2, <1>3, <3>2 DEF Contract!ContractNext
  <2>3. CASE \A t \in O : Life(t)' # "passed"
    <3>1. ASSUME NEW t \in O
          PROVE  Contract!Ends(t) \/ Contract!Pays(t) \/ Contract!Excused(t)
      <4>1. /\ t \in Tasks
            /\ Life(t)' \in {"live", "closed"}
            /\ Life(t)' = "closed" => task'[t].retries \in {task[t].retries, task[t].retries + 1}
            /\ Life(t)' = "live" =>
                 \/ task'[t].retries = task[t].retries + 1
                 \/ /\ task'[t].retries = task[t].retries /\ Ready(task) = O
                    /\ \E u \in O : Life(u)' = "live" /\ task'[u].retries = task[u].retries + 1
        BY <1>1, <1>2, <1>10, <2>3, OverEnds
      <4>2. CASE Life(t)' = "closed"
        BY <4>1, <4>2 DEF Contract!Ends
      <4>3. CASE Life(t)' = "live" /\ task'[t].retries = task[t].retries + 1
        BY <4>1, <4>3 DEF Contract!Pays
      <4>4. CASE Life(t)' = "live" /\ task'[t].retries # task[t].retries + 1
        <5>1. /\ task'[t].retries = task[t].retries /\ Ready(task) = O
              /\ \E u \in O : Life(u)' = "live" /\ task'[u].retries = task[u].retries + 1
          BY <4>1, <4>4
        <5>2. \E u \in O : Contract!Pays(u)
          BY <1>2, <5>1 DEF Contract!Pays
        <5> QED
          BY <1>2, <4>1, <4>4, <5>1, <5>2 DEF Contract!Excused
      <4> QED
        BY <4>1, <4>2, <4>3, <4>4
    <3>2. Contract!Fail
      BY <1>2, <1>10, <2>1, <3>1 DEF Contract!Fail
    <3> QED
      BY <1>2, <1>3, <3>2 DEF Contract!ContractNext
  <2> QED
    BY <2>2, <2>3
<1>11. CASE /\ O # {} /\ Ready(task') = {}
            /\ \A t \in O : task'[t].status \in Terminal \ {"qa_passed"} /\ task'[t].retries = task[t].retries
  <2>1. ASSUME NEW t \in O
        PROVE  Contract!Ends(t)
    <3>1. Life(t)' = "closed" /\ task'[t].retries = task[t].retries /\ t \in Tasks
      BY <1>2, <1>11 DEF Life, Terminal
    <3> QED
      BY <3>1 DEF Contract!Ends
  <2>2. Contract!Fail
    BY <1>2, <1>5, <1>11, <2>1 DEF Contract!Fail
  <2> QED
    BY <1>2, <1>3, <2>2 DEF Contract!ContractNext
<1>12. CASE O = {}
  <2>1. Contract!Dispatch \/ Contract!Wait \/ Contract!Build
    BY <1>7, <1>12
  <2> QED
    BY <1>2, <1>3, <2>1 DEF Contract!ContractNext
<1> QED
  BY <1>8, <1>9, <1>10, <1>11, <1>12 DEF Fair, BatchMoves

LEMMA ContractStep ==
  ASSUME Flying, [Next]_vars, WholeDispatch'
  PROVE  [Contract!ContractNext]_(Contract!contractVars)
<1>1. InFlight' /\ Fair
  BY StepFlies
<1>2. CASE UNCHANGED vars \/ pc = "done"
  <2>1. UNCHANGED vars
    <3> SUFFICES ASSUME pc = "done", Next PROVE UNCHANGED vars
      BY <1>2
    <3>1. ~Supervisor
      BY DEF Supervisor, PlansFirst, Reconcile, Plan, Guard, Apply, Crash, CommitDispatch
    <3>2. ~PortfolioTool /\ ~Teardown
      BY DEF PortfolioTool, PortfolioGivesUp, SolverFails, PortfolioDefers, PortfolioCommits,
             PortfolioCounts, Teardown
    <3>3. ~(WorkerAbandons \/ WorkerAnswers \/ QaAbandons \/ QaAnswers)
      BY DEF WorkerAbandons, WorkerAnswers, QaAbandons, QaAnswers, Workers
    <3> QED
      BY <3>1, <3>2, <3>3 DEF Next, Ended
  <2> QED
    BY <2>1 DEF vars, Contract!contractVars, Life
<1>3. CASE Next /\ pc = "teardown"
  <2>1. CASE Teardown
    <3>1. Contract!Close /\ pc # "done"
      BY <1>3, <2>1, TeardownCloses
    <3> QED
      BY <3>1 DEF Contract!ContractNext
  <2>2. CASE ~Teardown
    <3>1. ~Supervisor /\ ~Ended
      BY <1>3 DEF Supervisor, PlansFirst, Reconcile, Plan, Guard, Apply, Crash, CommitDispatch, Ended
    <3>2. ~PortfolioTool
      BY <1>3 DEF PortfolioTool, PortfolioGivesUp, SolverFails, PortfolioDefers, PortfolioCommits,
                  PortfolioCounts
    <3>3. ~(WorkerAbandons \/ WorkerAnswers \/ QaAbandons \/ QaAnswers)
      BY <1>3 DEF WorkerAbandons, WorkerAnswers, QaAbandons, QaAnswers, Workers
    <3> QED
      BY <1>3, <2>2, <3>1, <3>2, <3>3 DEF Next
  <2> QED
    BY <2>1, <2>2
<1>4. CASE Next /\ pc \notin {"teardown", "done"}
  <2>1. Orderly /\ pc' # "done"
    BY <1>4, StepKeeps, RunsOn DEF Flying
  <2>2. Contract!ContractNext
    BY <1>1, <1>4, <2>1, BatchKeepsContract
  <2> QED
    BY <2>2
<1> QED
  BY <1>2, <1>3, <1>4

\* The Supervisor keeps its contract with the tasks: one batch at a time is dispatched within
\* its limits, built and judged as a whole, and passes or fails as a whole; a failure is paid
\* for or ends the task, and what has ended is left alone.
THEOREM ContractIsKept ==
  ASSUME "abandon" \notin Faults
  PROVE  Spec /\ []WholeDispatch => KeepsContract
<1>1. Init => Contract!ContractInit
  <2> SUFFICES ASSUME Init PROVE Contract!ContractInit
    OBVIOUS
  <2>1. \A t \in Tasks : /\ task[t].attempt = NoAttempt /\ task[t].retries = 0
                         /\ task[t].status \in {"unspawned", "pending"}
    <3> SUFFICES ASSUME NEW t \in Tasks
                 PROVE  /\ task[t].attempt = NoAttempt /\ task[t].retries = 0
                        /\ task[t].status \in {"unspawned", "pending"}
      OBVIOUS
    <3>1. task[t] = IF t \in Children THEN NewTask("unspawned", "none")
                    ELSE IF t \in NoFixes THEN NewTask("pending", "package_removal") ELSE NewTask("pending", "none")
      BY TaskAssumption DEF Init
    <3> QED
      BY <3>1 DEF NewTask
  <2>2. \A t \in Tasks : Life(t) \in {"absent", "live"}
    BY <2>1 DEF Life, Terminal
  <2>3. Open(task) = {} /\ Ready(task) = {}
    BY <2>1 DEF Open, Live, Queue, IsOpen, NoAttempt, Ready
  <2>4. pc # "done"
    BY DEF Init
  <2> QED
    BY <2>1, <2>2, <2>3, <2>4 DEF Contract!ContractInit
<1>2. IInv /\ InFlight /\ WholeDispatch /\ WholeDispatch' /\ [Next]_vars
      => [Contract!ContractNext]_(Contract!contractVars)
  BY ContractStep DEF Flying
<1>3. Spec /\ []WholeDispatch => Contract!ContractSpec
  BY <1>1, <1>2, Invariance, BatchInFlight, PTL DEF Spec, Contract!ContractSpec
<1> QED
  BY <1>3 DEF KeepsContract
=============================================================================
