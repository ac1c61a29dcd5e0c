------------------------ MODULE TaskLifecycle_proofs ------------------------
(***************************************************************************)
(* Theorems about the passes of the Supervisor, for every set of tasks and *)
(* under every fault.                                                      *)
(***************************************************************************)
EXTENDS TaskLifecycle, FiniteSetTheorems, WellFoundedInduction, TLAPS

-----------------------------------------------------------------------------
(* The types. *)

Attempts ==
  [batch : SUBSET Tasks, answer : {"none"} \cup Outcomes, heard : BOOLEAN,
   verdict : {"none"} \cup Verdicts, read : BOOLEAN, runs : Nat, reruns : Nat]
Records ==
  [status : Statuses, retries : Nat, selected : Nat, tried : SUBSET Nat, exhausted : BOOLEAN,
   latest : BOOLEAN, stage : Stages, attempt : Attempts]
Queues == [Tasks -> Records]

\* What the later stages of a pass may do to a task: nothing that has ended goes on,
\* nothing is created or handed over to a child, and no attempt is opened.
Follows(r, s) ==
  /\ s \in Records
  /\ r.status \in Terminal => s.status = r.status
  /\ s.status = "unspawned" <=> r.status = "unspawned"
  /\ s.status = "pivoted" => r.status = "pivoted"
  /\ s.attempt.batch \in {{}, r.attempt.batch}
QueueFollows(f, g) == g \in Queues /\ \A t \in Tasks : Follows(f[t], g[t])

\* An update of a task's record that _commit_task_transition may be asked for.
Proper(r, n) ==
  /\ n \in Records
  /\ n.status = r.status \/ n.status # "pivoted"
  /\ n.attempt.batch \in {{}, r.attempt.batch}

LEMMA FollowsRefl ==
  ASSUME NEW r \in Records
  PROVE  Follows(r, r)
  BY DEF Follows

LEMMA FollowsTrans ==
  ASSUME NEW r \in Records, NEW s \in Records, NEW u \in Records, Follows(r, s), Follows(s, u)
  PROVE  Follows(r, u)
  BY DEF Follows

LEMMA QueueRefl ==
  ASSUME NEW f \in Queues
  PROVE  QueueFollows(f, f)
  BY FollowsRefl DEF QueueFollows, Queues

LEMMA QueueTrans ==
  ASSUME NEW f \in Queues, NEW g, NEW h, QueueFollows(f, g), QueueFollows(g, h)
  PROVE  QueueFollows(f, h)
<1>1. \A t \in Tasks : f[t] \in Records /\ g[t] \in Records /\ h[t] \in Records
  BY DEF QueueFollows, Queues
<1> QED
  BY <1>1, FollowsTrans DEF QueueFollows

LEMMA NoAttemptType == NoAttempt \in Attempts
  BY DEF NoAttempt, Attempts

LEMMA DropType ==
  ASSUME NEW r \in Records
  PROVE  /\ Drop(r) \in Records /\ Drop(r).status = r.status /\ Drop(r).selected = 0
         /\ Drop(r).attempt.batch = {}
         /\ Close(r) \in Records /\ Close(r).status = r.status /\ Close(r).attempt.batch = {}
  BY NoAttemptType DEF Drop, Close, Records, NoAttempt

LEMMA CommitFollows ==
  ASSUME NEW r \in Records, NEW n \in Records, Proper(r, n)
  PROVE  Follows(r, Commit(r, n))
<1>1. CASE r.status # n.status /\ <<r.status, n.status>> \notin Permitted
  BY <1>1, FollowsRefl DEF Commit
<1>2. CASE ~(r.status # n.status /\ <<r.status, n.status>> \notin Permitted)
  <2>1. Commit(r, n) = IF n.status \in Terminal THEN Drop(n) ELSE n
    BY <1>2 DEF Commit
  <2>2. /\ Commit(r, n) \in Records /\ Commit(r, n).status = n.status
        /\ Commit(r, n).attempt.batch \in {{}, r.attempt.batch}
    BY <2>1, DropType DEF Proper
  <2>3. CASE n.status = r.status
    BY <2>2, <2>3 DEF Follows
  <2>4. CASE <<r.status, n.status>> \in Permitted
    <3>1. /\ r.status \notin Terminal /\ r.status # "unspawned" /\ n.status # "unspawned"
      BY <2>4 DEF Permitted, Terminal
    <3> QED
      BY <2>2, <3>1 DEF Follows, Proper
  <2> QED
    BY <1>2, <2>3, <2>4
<1> QED
  BY <1>1, <1>2

\* A queue in which some tasks are committed as h says.
LEMMA CommittedFollows ==
  ASSUME NEW f \in Queues, NEW S, NEW h, NEW g,
         g = [t \in Tasks |-> IF t \in S THEN Commit(f[t], h[t]) ELSE f[t]],
         \A t \in S \cap Tasks : Proper(f[t], h[t])
  PROVE  QueueFollows(f, g)
<1>1. ASSUME NEW t \in Tasks
      PROVE  Follows(f[t], g[t])
  <2>1. f[t] \in Records
    BY DEF Queues
  <2>2. CASE t \in S
    <3>1. Proper(f[t], h[t]) /\ h[t] \in Records
      BY <2>2 DEF Proper
    <3>2. g[t] = Commit(f[t], h[t])
      BY <2>2
    <3> QED
      BY <2>1, <3>1, <3>2, CommitFollows
  <2>3. CASE t \notin S
    BY <2>1, <2>3, FollowsRefl
  <2> QED
    BY <2>2, <2>3
<1>2. g \in Queues
  BY <1>1 DEF Queues, Follows
<1> QED
  BY <1>1, <1>2 DEF QueueFollows

LEMMA SetStatusFollows ==
  ASSUME NEW f \in Queues, NEW S,
         NEW s \in Statuses \ {"pivoted"}
  PROVE  QueueFollows(f, SetStatus(f, S, s))
<1> DEFINE h == [t \in Tasks |-> [f[t] EXCEPT !.status = s]]
<1>1. ASSUME NEW t \in Tasks
      PROVE  Proper(f[t], h[t])
  <2>1. f[t] \in Records
    BY DEF Queues
  <2> QED
    BY <2>1 DEF Proper, Records
<1>2. SetStatus(f, S, s) = [t \in Tasks |-> IF t \in S THEN Commit(f[t], h[t]) ELSE f[t]]
  BY DEF SetStatus, Committed
<1> QED
  BY <1>1, <1>2, CommittedFollows

-----------------------------------------------------------------------------
(* A nonempty set has an element that is least by any measure. *)

LEMMA LeastExists ==
  ASSUME NEW S, S # {}, NEW g, \A x \in S : g[x] \in Nat
  PROVE  \E x \in S : \A y \in S : g[x] <= g[y]
<1> DEFINE G == {g[x] : x \in S}
<1>1. G \subseteq Nat /\ G # {}
  OBVIOUS
<1>2. PICK n \in G : \A m \in G : ~(<<m, n>> \in {ss \in Nat \X Nat : ss[1] < ss[2]})
  <2>1. IsWellFoundedOn({ss \in Nat \X Nat : ss[1] < ss[2]}, Nat)
    BY NatLessThanWellFounded DEF OpToRel
  <2> QED
    BY <1>1, <2>1, WFMin
<1>3. \A m \in G : n <= m
  <2> HIDE DEF G
  <2>1. ASSUME NEW m \in G
        PROVE  n <= m
    <3>1. m \in Nat /\ n \in Nat
      BY <1>1
    <3>2. ~(m < n)
      BY <1>2, <3>1
    <3> QED
      BY <3>1, <3>2
  <2> QED
    BY <2>1
<1>4. PICK x \in S : n = g[x]
  OBVIOUS
<1> QED
  BY <1>3, <1>4

-----------------------------------------------------------------------------
(* The retry planner. *)

LEMMA ReplannedType ==
  ASSUME NEW t \in Updates, NEW r \in Records
  PROVE  /\ Replanned(t, r) \in Records
         /\ Replanned(t, r).status = r.status /\ Replanned(t, r).attempt = r.attempt
<1> DEFINE untried == (1..Versions[t]) \ r.tried
           least == CHOOSE v \in untried : \A w \in untried : v <= w
           next == CASE r.selected \in untried -> r.selected
                     [] untried = {} -> 0
                     [] OTHER -> least
<1>1. Versions[t] \in Nat
  BY TaskAssumption
<1>2. untried \subseteq Nat
  BY <1>1
<1>3. untried # {} => least \in untried
  <2> SUFFICES ASSUME untried # {} PROVE \E v \in untried : \A w \in untried : v <= w
    OBVIOUS
  <2> DEFINE g == [v \in untried |-> v]
  <2>1. \A x \in untried : g[x] \in Nat
    BY <1>2
  <2>2. \E x \in untried : \A y \in untried : g[x] <= g[y]
    <3> HIDE DEF g, untried
    <3> QED BY <2>1, LeastExists
  <2> QED
    BY <2>2
<1>4. next \in Nat
  <2> HIDE DEF least, untried
  <2> QED
    BY <1>2, <1>3
<1>5. Replanned(t, r) = [r EXCEPT !.selected = next, !.exhausted = next = 0]
  BY DEF Replanned
<1> HIDE DEF next
<1> QED
  BY <1>4, <1>5 DEF Records

LEMMA PlannedFollows ==
  ASSUME NEW f \in Queues, NEW S
  PROVE  /\ QueueFollows(f, Planned(f, S))
         /\ \A t \in Tasks : /\ Planned(f, S)[t].status = f[t].status
                             /\ Planned(f, S)[t].attempt = f[t].attempt
         /\ \A t \in Tasks : \/ Planned(f, S)[t] = f[t]
                             \/ t \in S \cap Updates /\ ~MustPivot(f, t)
<1> DEFINE R == {t \in S \cap Updates : f[t].status = "needs_retry" /\ ~MustPivot(f, t)}
           h == [t \in Tasks |-> Replanned(t, f[t])]
<1>1. \A t \in Tasks : f[t] \in Records
  BY DEF Queues
<1>2. Updates \subseteq Tasks
  BY DEF Tasks, Sca
<1>3. ASSUME NEW t \in R \cap Tasks
      PROVE  /\ h[t] \in Records /\ h[t].status = f[t].status /\ h[t].attempt = f[t].attempt
  BY <1>1, ReplannedType
<1>4. Planned(f, S) = [t \in Tasks |-> IF t \in R THEN Commit(f[t], h[t]) ELSE f[t]]
  BY DEF Planned, Committed
<1>5. \A t \in R \cap Tasks : Commit(f[t], h[t]) = h[t]
  BY <1>3 DEF Commit, Terminal
<1>6. \A t \in R \cap Tasks : Proper(f[t], h[t])
  BY <1>3 DEF Proper
<1>7. QueueFollows(f, Planned(f, S))
  <2> HIDE DEF h, R
  <2> QED BY <1>4, <1>6, CommittedFollows
<1> QED
  <2> HIDE DEF h
  <2> QED BY <1>3, <1>4, <1>5, <1>7

-----------------------------------------------------------------------------
(* What the first stage of a pass makes of the answers and the verdicts. *)

LEMMA ChargedType ==
  ASSUME NEW r \in Records
  PROVE  /\ Charged(r) \in Records /\ Charged(r).status = "needs_retry"
         /\ Charged(r).attempt = r.attempt
<1>1. r.retries + 1 \in Nat /\ "needs_retry" \in Statuses
  BY DEF Records, Statuses, Workable
<1> QED
  BY <1>1, Zenon DEF Charged, Records

LEMMA NextStageType ==
  ASSUME NEW r \in Records
  PROVE  /\ NextStage(r) \in Records /\ NextStage(r).status \in {"needs_retry", "unfixable"}
         /\ NextStage(r).attempt.batch = {}
<1>1. CASE r.stage = "package_removal"
  <2> DEFINE n == [Charged(r) EXCEPT !.stage = "code_removal"]
  <2>1. n \in Records /\ n.status = "needs_retry"
    BY ChargedType DEF Records, Stages
  <2> QED
    BY <1>1, <2>1, DropType DEF NextStage
<1>2. CASE r.stage # "package_removal"
  <2> DEFINE n == [r EXCEPT !.status = "unfixable", !.stage = "unfixable", !.retries = @ + 1]
  <2>1. r.retries + 1 \in Nat /\ "unfixable" \in Statuses /\ "unfixable" \in Stages
    BY DEF Records, Stages, Statuses, Terminal
  <2>2. n \in Records /\ n.status = "unfixable"
    BY <2>1, Zenon DEF Records
  <2> QED
    BY <1>2, <2>2, DropType DEF NextStage
<1> QED
  BY <1>1, <1>2

LEMMA AnsweredProper ==
  ASSUME task \in Queues, NEW t \in Tasks
  PROVE  Proper(task[t], Answered(t))
<1> DEFINE a == task[t].attempt
           told == [task[t] EXCEPT
                       !.attempt.heard = TRUE,
                       !.tried = IF t \in Updates /\ a.answer # "untried"
                                 THEN @ \cup {task[t].selected} ELSE @]
<1>1. task[t] \in Records
  BY DEF Queues
<1>2. told \in Records /\ told.attempt.batch = task[t].attempt.batch
  BY <1>1 DEF Records, Attempts
<1>3. Answered(t) \in {[told EXCEPT !.status = "optimistically_fixed"], NextStage(told), Drop(Charged(told)),
                       [told EXCEPT !.status = "unfixable"]}
  <2> HIDE DEF told
  <2>1. Answered(t) = CASE a.answer = "success" -> [told EXCEPT !.status = "optimistically_fixed"]
          [] a.answer # "success" /\ t \in NoFixes -> NextStage(told)
          [] a.answer # "success" /\ t \in Updates -> Drop(Charged(told))
          [] OTHER -> [told EXCEPT !.status = "unfixable"]
    BY DEF Answered, told
  <2> QED
    BY <2>1
<1> HIDE DEF told
<1>4. ASSUME NEW s \in {"optimistically_fixed", "unfixable"}
      PROVE  Proper(task[t], [told EXCEPT !.status = s])
  BY <1>2 DEF Proper, Records, Statuses, Terminal
<1>5. Proper(task[t], NextStage(told))
  BY <1>2, NextStageType DEF Proper
<1>6. Proper(task[t], Drop(Charged(told)))
  BY <1>2, ChargedType, DropType DEF Proper
<1> QED
  BY <1>3, <1>4, <1>5, <1>6

LEMMA HearWorkersFollows ==
  ASSUME task \in Queues
  PROVE  QueueFollows(task, HearWorkers)
<1> DEFINE S == {t \in Open(task) : task[t].attempt.answer # "none" /\ ~task[t].attempt.heard}
           h == [t \in Tasks |-> Answered(t)]
<1>1. \A t \in S \cap Tasks : Proper(task[t], h[t])
  BY AnsweredProper
<1>2. HearWorkers = [t \in Tasks |-> IF t \in S THEN Commit(task[t], h[t]) ELSE task[t]]
  BY DEF HearWorkers, Committed
<1> HIDE DEF h, S
<1> QED
  BY <1>1, <1>2, CommittedFollows

LEMMA BatchAnsweredFollows ==
  ASSUME task \in Queues, NEW f \in Queues
  PROVE  QueueFollows(f, BatchAnswered(f))
<1> DEFINE n(t) == [f[t] EXCEPT !.status = "needs_retry",
                                !.retries = IF @ > task[t].retries THEN @ ELSE task[t].retries + 1]
           h == [t \in Tasks |-> Close(n(t))]
<1>1. CASE \A t \in Batch : IsOpen(f, t) /\ f[t].attempt.answer = "success"
  <2>1. BatchAnswered(f) = SetStatus(f, Batch, "optimistically_fixed")
    BY <1>1 DEF BatchAnswered
  <2>2. "optimistically_fixed" \in Statuses \ {"pivoted"}
    BY DEF Statuses
  <2> QED
    BY <2>1, <2>2, SetStatusFollows
<1>2. CASE ~\A t \in Batch : IsOpen(f, t) /\ f[t].attempt.answer = "success"
  <2>1. ASSUME NEW t \in Tasks
        PROVE  Proper(f[t], h[t])
    <3>1. f[t] \in Records /\ task[t].retries \in Nat
      BY DEF Queues, Records
    <3>2. (IF f[t].retries > task[t].retries THEN f[t].retries ELSE task[t].retries + 1) \in Nat
      BY <3>1 DEF Records
    <3>3. n(t) \in Records /\ n(t).status = "needs_retry"
      BY <3>1, <3>2, Zenon DEF Records, Statuses, Workable
    <3> QED
      BY <3>3, DropType DEF Proper
  <2>2. BatchAnswered(f) = [t \in Tasks |-> IF t \in Batch THEN Commit(f[t], h[t]) ELSE f[t]]
    BY <1>2 DEF BatchAnswered, Committed
  <2> HIDE DEF h
  <2> QED
    BY <2>1, <2>2, CommittedFollows
<1> QED
  BY <1>1, <1>2

LEMMA ReadQaFollows ==
  ASSUME NEW f \in Queues
  PROVE  QueueFollows(f, ReadQa(f))
<1> DEFINE again(t) == [f[t] EXCEPT !.attempt.reruns = @ + 1]
           seen(t) == [f[t] EXCEPT !.attempt.read = TRUE]
           n(t) == CASE t \in Inconclusive(f) \ Spent(f) -> again(t)
                     [] t \notin Inconclusive(f) \ Spent(f) /\ Batch = {} -> Drop(f[t])
                     [] OTHER -> seen(t)
           h == [t \in Tasks |-> n(t)]
<1>1. ASSUME NEW t \in Tasks
      PROVE  Proper(f[t], n(t))
  <2>1. f[t] \in Records /\ f[t].attempt \in Attempts
    BY DEF Queues, Records
  <2>2. Proper(f[t], again(t))
    <3> DEFINE a == [f[t].attempt EXCEPT !.reruns = @ + 1]
    <3>1. f[t].attempt.reruns + 1 \in Nat
      BY <2>1 DEF Attempts
    <3>2. a \in Attempts /\ a.batch = f[t].attempt.batch
      BY <2>1, <3>1, Zenon DEF Attempts
    <3>3. again(t) = [f[t] EXCEPT !.attempt = a]
      OBVIOUS
    <3> HIDE DEF a
    <3> QED
      BY <2>1, <3>2, <3>3 DEF Proper, Records
  <2>3. Proper(f[t], seen(t))
    BY <2>1 DEF Proper, Records, Attempts
  <2>4. Proper(f[t], Drop(f[t]))
    BY <2>1, DropType DEF Proper
  <2>5. n(t) \in {again(t), seen(t), Drop(f[t])}
    <3> HIDE DEF again, seen
    <3> QED OBVIOUS
  <2> QED
    BY <2>2, <2>3, <2>4, <2>5
<1>2. ReadQa(f) = [t \in Tasks |-> IF t \in Judged(f) THEN Commit(f[t], h[t]) ELSE f[t]]
  <2>1. ReadQa(f) = [t \in Tasks |-> IF t \in Judged(f) THEN Commit(f[t], n(t)) ELSE f[t]]
    BY DEF ReadQa, Committed
  <2> HIDE DEF n
  <2> QED
    BY <2>1
<1>3. \A t \in Judged(f) \cap Tasks : Proper(f[t], h[t])
  BY <1>1
<1> HIDE DEF h
<1> QED
  BY <1>2, <1>3, CommittedFollows

LEMMA SettledBatchFollows ==
  ASSUME NEW f \in Queues, NEW e, NEW esc, NEW spent
  PROVE  QueueFollows(f, SettledBatch(f, e, esc, spent))
<1> DEFINE failed == \E t \in Batch : e[t] \in Failing \cup {"none"}
           pending == \E t \in Batch : e[t] = "inconclusive"
           retried == IF esc.reason = "DELTA" /\ Blamed # {} THEN Blamed ELSE Batch
           n(t) == Close(IF t \in retried THEN Charged(f[t]) ELSE [f[t] EXCEPT !.status = "pending"])
           h == [t \in Tasks |-> n(t)]
           g == [t \in Tasks |-> IF t \in Batch THEN Commit(f[t], h[t]) ELSE f[t]]
<1>1. ASSUME NEW s \in {"inconclusive", "optimistically_fixed", "qa_passed"}
      PROVE  QueueFollows(f, SetStatus(f, Batch, s))
  BY SetStatusFollows DEF Statuses, Terminal
<1>2. QueueFollows(f, g)
  <2>1. ASSUME NEW t \in Tasks
        PROVE  Proper(f[t], h[t])
    <3>1. f[t] \in Records
      BY DEF Queues
    <3>2. [f[t] EXCEPT !.status = "pending"] \in Records
      BY <3>1 DEF Records, Statuses, Workable
    <3> QED
      BY <3>1, <3>2, ChargedType, DropType DEF Proper, Records
  <2> HIDE DEF h
  <2> QED
    BY <2>1, CommittedFollows
<1>3. SettledBatch(f, e, esc, spent) \in
        {SetStatus(f, Batch, "inconclusive"), SetStatus(f, Batch, "optimistically_fixed"),
         SetStatus(f, Batch, "qa_passed"), g}
  <2>1. SettledBatch(f, e, esc, spent) =
          CASE ~failed /\ spent \cap Batch # {} -> SetStatus(f, Batch, "inconclusive")
            [] ~failed /\ spent \cap Batch = {} /\ pending -> SetStatus(f, Batch, "optimistically_fixed")
            [] ~failed /\ ~pending -> SetStatus(f, Batch, "qa_passed")
            [] OTHER -> g
    BY DEF SettledBatch, Committed
  <2> HIDE DEF failed, pending, g
  <2> QED
    BY <2>1
<1> QED
  BY <1>1, <1>2, <1>3

LEMMA SettledAloneFollows ==
  ASSUME NEW f \in Queues, NEW e, NEW heard, NEW spent
  PROVE  QueueFollows(f, SettledAlone(f, e, heard, spent))
<1> DEFINE S == {t \in Tasks : /\ e[t] # "none" /\ (IsOpen(f, t) => t \in heard)
                               /\ f[t].status \notin {"unfixable", "qa_passed"}}
           to(t, s) == [f[t] EXCEPT !.status = s]
           n(t) == CASE t \in spent -> to(t, "inconclusive")
                     [] t \notin spent /\ e[t] = "inconclusive" -> to(t, "optimistically_fixed")
                     [] e[t] = "pass" -> to(t, "qa_passed")
                     [] e[t] = "conflict" -> Close(Charged(f[t]))
                     [] e[t] \in TestsFailed /\ t \in NoFixes -> NextStage(f[t])
                     [] OTHER -> Drop(Charged(f[t]))
           h == [t \in Tasks |-> n(t)]
<1>1. ASSUME NEW t \in Tasks
      PROVE  Proper(f[t], n(t))
  <2>1. f[t] \in Records
    BY DEF Queues
  <2>2. ASSUME NEW s \in {"inconclusive", "optimistically_fixed", "qa_passed"}
        PROVE  Proper(f[t], to(t, s))
    BY <2>1 DEF Proper, Records, Statuses, Terminal
  <2>3. Proper(f[t], Close(Charged(f[t]))) /\ Proper(f[t], Drop(Charged(f[t])))
    BY <2>1, ChargedType, DropType DEF Proper
  <2>4. Proper(f[t], NextStage(f[t]))
    BY <2>1, NextStageType DEF Proper
  <2>5. n(t) \in {to(t, "inconclusive"), to(t, "optimistically_fixed"), to(t, "qa_passed"),
                  Close(Charged(f[t])), NextStage(f[t]), Drop(Charged(f[t]))}
    <3> HIDE DEF to
    <3> QED OBVIOUS
  <2> QED
    BY <2>2, <2>3, <2>4, <2>5
<1>2. SettledAlone(f, e, heard, spent) = [t \in Tasks |-> IF t \in S THEN Commit(f[t], h[t]) ELSE f[t]]
  <2>1. SettledAlone(f, e, heard, spent) = [t \in Tasks |-> IF t \in S THEN Commit(f[t], n(t)) ELSE f[t]]
    BY DEF SettledAlone, Committed
  <2> HIDE DEF n, S
  <2> QED
    BY <2>1
<1>3. \A t \in S \cap Tasks : Proper(f[t], h[t])
  BY <1>1
<1> HIDE DEF h, S
<1> QED
  BY <1>2, <1>3, CommittedFollows

LEMMA SettledFollows ==
  ASSUME NEW f \in Queues, NEW e, NEW esc
  PROVE  QueueFollows(f, GivenUp(Settled(f, e, esc)))
<1>1. Settled(f, e, esc) \in {ReadQa(f), SettledBatch(ReadQa(f), e, esc, Spent(f)),
                              SettledAlone(ReadQa(f), e, Judged(f), Spent(f))}
  BY DEF Settled
<1>2. QueueFollows(f, ReadQa(f)) /\ ReadQa(f) \in Queues
  BY ReadQaFollows DEF QueueFollows
<1>3. QueueFollows(f, Settled(f, e, esc)) /\ Settled(f, e, esc) \in Queues
  <2>1. QueueFollows(f, SettledBatch(ReadQa(f), e, esc, Spent(f)))
    BY <1>2, SettledBatchFollows, QueueTrans
  <2>2. QueueFollows(f, SettledAlone(ReadQa(f), e, Judged(f), Spent(f)))
    BY <1>2, SettledAloneFollows, QueueTrans
  <2> QED
    BY <1>1, <1>2, <2>1, <2>2 DEF QueueFollows
<1>4. ASSUME NEW g \in Queues
      PROVE  QueueFollows(g, GivenUp(g))
  BY SetStatusFollows DEF GivenUp, Statuses, Terminal
<1> QED
  BY <1>3, <1>4, QueueTrans

-----------------------------------------------------------------------------
(* The rules of the routing. *)

\* Only the empty decision names no node.
Decisions ==
  {d \in [node : Nodes, targets : SUBSET Tasks, cluster : BOOLEAN, pivots : SUBSET Updates] :
      d.node = "none" => d = NoDecision}
\* A decision hands over only updates without a version left.
Sound(f, d) == d \in Decisions /\ \A u \in d.pivots : MustPivot(f, u)

LEMMA DecisionSound ==
  ASSUME NEW f, NEW node \in Nodes \ {"none"}, NEW S \in SUBSET Tasks, NEW c \in BOOLEAN
  PROVE  Sound(f, Decision(node, S, c, {}))
  BY DEF Sound, Decisions, Decision

LEMMA NoDecisionSound ==
  ASSUME NEW f
  PROVE  Sound(f, NoDecision) /\ Sound(f, TearDown) /\ TearDown.node = "teardown"
  BY DEF Sound, Decisions, Decision, NoDecision, TearDown, Nodes

LEMMA FirstInSet ==
  ASSUME NEW f \in Queues, NEW S \in SUBSET Tasks, S # {}
  PROVE  First(f, S) \in S
<1> DEFINE strategy == [x \in Tasks |-> IF x \in Updates THEN 0 ELSE 1]
           rank == [x \in Tasks |-> StatusRank(f[x].status)]
           retries == [x \in Tasks |-> f[x].retries]
           key(x) == <<Severity[x], IF x \in Updates THEN 0 ELSE 1, StatusRank(f[x].status),
                       f[x].retries, TaskId[x]>>
<1>1. \A x \in Tasks : /\ Severity[x] \in Nat /\ strategy[x] \in Nat /\ rank[x] \in Nat
                       /\ retries[x] \in Nat /\ TaskId[x] \in Nat
  BY TaskAssumption DEF StatusRank, Queues, Records
<1>2. \A x \in Tasks : key(x) = <<Severity[x], strategy[x], rank[x], retries[x], TaskId[x]>>
  OBVIOUS
<1> HIDE DEF strategy, rank, retries
<1>3. ASSUME NEW T \in SUBSET Tasks, T # {}, NEW g, \A x \in Tasks : g[x] \in Nat
      PROVE  \E x \in T : \A y \in T : g[x] <= g[y]
  BY <1>3, LeastExists
<1>4. PICK a \in S : \A y \in S : Severity[a] <= Severity[y]
  BY <1>1, <1>3
<1> DEFINE A == {x \in S : Severity[x] = Severity[a]}
<1>5. PICK b \in A : \A y \in A : strategy[b] <= strategy[y]
  BY <1>1, <1>3
<1> DEFINE B == {x \in A : strategy[x] = strategy[b]}
<1>6. PICK c \in B : \A y \in B : rank[c] <= rank[y]
  BY <1>1, <1>3
<1> DEFINE C == {x \in B : rank[x] = rank[c]}
<1>7. PICK d \in C : \A y \in C : retries[d] <= retries[y]
  BY <1>1, <1>3
<1> DEFINE D == {x \in C : retries[x] = retries[d]}
<1>8. PICK e \in D : \A y \in D : TaskId[e] <= TaskId[y]
  BY <1>1, <1>3
<1>9. ASSUME NEW u \in S \ {e}
      PROVE  \E i \in 1..5 : key(e)[i] < key(u)[i] /\ \A j \in 1..(i - 1) : key(e)[j] = key(u)[j]
  <2> DEFINE k == key(e)
             l == key(u)
  <2>1. /\ k[1] = Severity[e] /\ k[2] = strategy[e] /\ k[3] = rank[e] /\ k[4] = retries[e] /\ k[5] = TaskId[e]
        /\ l[1] = Severity[u] /\ l[2] = strategy[u] /\ l[3] = rank[u] /\ l[4] = retries[u] /\ l[5] = TaskId[u]
    BY <1>2
  <2>2. TaskId[e] # TaskId[u]
    BY TaskAssumption
  <2>3. \/ Severity[e] < Severity[u]
        \/ Severity[e] = Severity[u] /\ strategy[e] < strategy[u]
        \/ Severity[e] = Severity[u] /\ strategy[e] = strategy[u] /\ rank[e] < rank[u]
        \/ /\ Severity[e] = Severity[u] /\ strategy[e] = strategy[u] /\ rank[e] = rank[u]
           /\ retries[e] < retries[u]
        \/ /\ Severity[e] = Severity[u] /\ strategy[e] = strategy[u] /\ rank[e] = rank[u]
           /\ retries[e] = retries[u] /\ TaskId[e] < TaskId[u]
    BY <1>1, <1>4, <1>5, <1>6, <1>7, <1>8, <2>2
  <2> HIDE DEF key, k, l
  <2>4. \/ k[1] < l[1]
        \/ k[1] = l[1] /\ k[2] < l[2]
        \/ k[1] = l[1] /\ k[2] = l[2] /\ k[3] < l[3]
        \/ k[1] = l[1] /\ k[2] = l[2] /\ k[3] = l[3] /\ k[4] < l[4]
        \/ k[1] = l[1] /\ k[2] = l[2] /\ k[3] = l[3] /\ k[4] = l[4] /\ k[5] < l[5]
    BY <2>1, <2>3
  <2>5. \E i \in 1..5 : k[i] < l[i] /\ \A j \in 1..(i - 1) : k[j] = l[j]
    BY <2>4
  <2> QED
    BY <2>5 DEF k, l
<1>10. \E t \in S : \A u \in S \ {t} : Precedes(f, t, u)
  BY <1>9 DEF Precedes
<1> QED
  BY <1>10 DEF First

LEMMA RunSound ==
  ASSUME NEW f \in Queues, NEW node \in Nodes \ {"none"}, NEW S \in SUBSET Tasks
  PROVE  Sound(f, RunAll(node, S)) /\ Sound(f, RunOne(f, node, S))
<1>1. (Cardinality(S) > 1) \in BOOLEAN
  OBVIOUS
<1>2. CASE S = {}
  BY <1>2, NoDecisionSound DEF RunAll, RunOne
<1>3. CASE S # {}
  <2>1. First(f, S) \in S
    BY <1>3, FirstInSet
  <2>2. Sound(f, RunOne(f, node, S))
    BY <1>3, <2>1, DecisionSound DEF RunOne
  <2>3. Sound(f, RunAll(node, S))
    BY <1>1, <1>3, DecisionSound DEF RunAll
  <2> QED
    BY <2>2, <2>3
<1> QED
  BY <1>2, <1>3

LEMMA GivesWay ==
  ASSUME NEW f, NEW d, NEW e, Sound(f, d), Sound(f, e)
  PROVE  /\ Sound(f, d ?? e)
         /\ e.node # "none" => (d ?? e).node # "none"
  BY DEF ??, Sound, Decisions

LEMMA WorkHeadType ==
  ASSUME NEW f
  PROVE  WorkHead(f) \in SUBSET Tasks /\ QaHead(f) \in SUBSET Tasks
  BY DEF WorkHead, QaHead, ReadyForWork, ReadyForQa, Ready, Work

\* The routing decides something, and hands over only exhausted updates.
LEMMA RouteSound ==
  ASSUME NEW f \in Queues, active \in SUBSET Tasks
  PROVE  Sound(f, Route(f)) /\ Route(f).node # "none"
<1> DEFINE head == WorkHead(f)
           exhausted == {t \in Updates : MustPivot(f, t) /\ ~HasChild(f, t) /\ InTurn(t, head)}
           d1 == When(Live(f) = {}, TearDown)
           d2 == RunAll("qa", QaHead(f))
           d3 == When(QaFirst(f), QaOf(active \cap Ready(f)))
           d4 == When(HeadCluster(f) = {} /\ Ready(f) # {}, QaOf(Ready(f)))
           d5 == NoFixRule(f, head)
           d6 == RunOne(f, "update", {t \in head : MayReplay(f, t)})
           d7 == PivotRule(f, exhausted)
           d8 == ActiveRetryRule(f)
           d9 == HeadRule(f, head)
           d10 == UpdateRule(f, "needs_retry")
           d11 == UpdateRule(f, "pending")
           d12 == WorkaroundRule(f)
<1>1. /\ head \in SUBSET Tasks /\ QaHead(f) \in SUBSET Tasks /\ Ready(f) \in SUBSET Tasks
      /\ Updates \in SUBSET Tasks /\ NoFixes \in SUBSET Tasks
      /\ {"qa", "update", "workaround", "teardown"} \subseteq Nodes \ {"none"}
  BY WorkHeadType DEF Ready, Tasks, Sca, Nodes
<1>2. ASSUME NEW p, NEW d, Sound(f, d)
      PROVE  Sound(f, When(p, d))
  BY <1>2, NoDecisionSound DEF When
<1>3. Sound(f, d1)
  BY <1>2, NoDecisionSound
<1>4. Sound(f, d2)
  BY <1>1, RunSound
<1>5. Sound(f, d3)
  <2>1. active \cap Ready(f) \in SUBSET Tasks
    OBVIOUS
  <2> QED
    BY <1>1, <1>2, <2>1, DecisionSound DEF QaOf
<1>6. Sound(f, d4)
  BY <1>1, <1>2, DecisionSound DEF QaOf
<1>7. Sound(f, d5)
  <2> DEFINE S == {t \in NoFixes : /\ <<f[t].stage, f[t].status>> \in
                                      {<<"package_removal", "pending">>, <<"code_removal", "needs_retry">>}
                                   /\ InTurn(t, head)}
  <2>1. S \in SUBSET Tasks
    BY <1>1
  <2> HIDE DEF S
  <2>2. Sound(f, RunOne(f, "workaround", S))
    BY <1>1, <2>1, RunSound
  <2> QED
    BY <2>2 DEF S, NoFixRule
<1>8. Sound(f, d6)
  <2>1. {t \in head : MayReplay(f, t)} \in SUBSET Tasks
    BY <1>1
  <2> QED
    BY <1>1, <2>1, RunSound
<1>9. Sound(f, d7)
  <2>1. /\ exhausted \in SUBSET Tasks /\ exhausted \in SUBSET Updates
        /\ \A u \in exhausted : MustPivot(f, u)
    BY <1>1
  <2> HIDE DEF exhausted
  <2>2. CASE exhausted = {}
    BY <2>2, NoDecisionSound DEF PivotRule, When
  <2>3. CASE exhausted # {}
    <3>1. First(f, exhausted) \in Tasks
      BY <2>1, <2>3, FirstInSet
    <3>2. Decision("workaround", {First(f, exhausted)}, FALSE, exhausted) \in Decisions
      BY <1>1, <2>1, <3>1 DEF Decisions, Decision
    <3> QED
      BY <2>1, <2>3, <3>2 DEF PivotRule, When, Sound, Decision
  <2> QED
    BY <2>2, <2>3
<1>10. Sound(f, d8)
  <2> DEFINE retried == {t \in active \cap Updates :
                          /\ f[t].status = "needs_retry" /\ ~IsOpen(f, t)
                          /\ verdict[t] \in Failing /\ ~HasChild(f, t)
                          /\ \A i \in DOMAIN plan.order : t \in plan.order[i] => plan.order[i] = {t}}
  <2>1. retried \in SUBSET Tasks
    BY <1>1
  <2>2. ActiveRetryRule(f) = When(Cardinality(active) = 1, RunOne(f, "update", retried))
    BY DEF ActiveRetryRule
  <2> HIDE DEF retried
  <2>3. Sound(f, RunOne(f, "update", retried))
    BY <1>1, <2>1, RunSound
  <2> QED
    BY <1>2, <2>2, <2>3
<1>11. Sound(f, d9)
  <2>1. d9 \in {When(plan.members \cap Live(f) # {}, TearDown), TearDown,
                RunAll("update", head), RunAll("workaround", head)}
    BY DEF HeadRule
  <2>2. Sound(f, When(plan.members \cap Live(f) # {}, TearDown))
    BY <1>2, NoDecisionSound
  <2>3. Sound(f, RunAll("update", head)) /\ Sound(f, RunAll("workaround", head))
    BY <1>1, RunSound
  <2> HIDE DEF d9
  <2> QED
    BY <2>1, <2>2, <2>3, NoDecisionSound
<1>12. ASSUME NEW status
       PROVE  Sound(f, UpdateRule(f, status))
  <2>1. {t \in Updates : f[t].status = status /\ ~HasChild(f, t)} \in SUBSET Tasks
    BY <1>1
  <2> QED
    BY <1>1, <2>1, RunSound DEF UpdateRule
<1>13. Sound(f, d12)
  <2>1. {t \in Work(f) \ Updates : f[t].stage = "none" /\ f[t].retries < MaxRetries} \in SUBSET Tasks
    BY DEF Work
  <2> QED
    BY <1>1, <2>1, RunSound DEF WorkaroundRule
<1>14. Route(f) = d1 ?? d2 ?? d3 ?? d4 ?? d5 ?? d6 ?? d7 ?? d8 ?? d9 ?? d10 ?? d11 ?? d12 ?? TearDown
  BY DEF Route, Rules
<1> HIDE DEF d1, d2, d3, d4, d5, d6, d7, d8, d9, d10, d11, d12
<1>15. Sound(f, d1 ?? d2 ?? d3 ?? d4 ?? d5 ?? d6 ?? d7 ?? d8)
  BY <1>3, <1>4, <1>5, <1>6, <1>7, <1>8, <1>9, <1>10, GivesWay
<1>16. Sound(f, d1 ?? d2 ?? d3 ?? d4 ?? d5 ?? d6 ?? d7 ?? d8 ?? d9 ?? d10 ?? d11 ?? d12)
  BY <1>11, <1>12, <1>13, <1>15, GivesWay DEF d10, d11
<1> QED
  BY <1>14, <1>16, NoDecisionSound, GivesWay

-----------------------------------------------------------------------------
(* The inductive invariant. *)

Escalations == [reason : Reasons \cup {"none"}, forced : SUBSET Tasks]

TypeInv ==
  /\ pc \in Stops /\ task \in Queues /\ active \in SUBSET Tasks
  /\ plan.members \in SUBSET Tasks
  /\ verdict \in [Tasks -> {"none"} \cup Verdicts]
  /\ replay \in [Tasks -> Nat]
  /\ escalation \in Escalations /\ request \in Escalations
  /\ decision \in Decisions

\* Who has handed over to a child has ended.
HandedOverEnded == \A u \in Updates : HasChild(task, u) => task[u].status \in Terminal

\* From the second stage on, a pass hands over only updates without a version left; when
\* it comes to the dispatch, something is decided, and workers are sent only open work.
DecisionIsReady ==
  /\ pc \in {"route", "apply"} => Sound(task, decision)
  /\ pc \in {"apply", "commit"} => decision.node # "none"
  /\ pc = "commit" /\ decision.node \in Workers => decision.targets \subseteq Dispatchable(task)

IInv == TypeInv /\ HandedOverEnded /\ DecisionIsReady /\ WorkerTargets

\* What a step may not do to the tasks.
EndsStay == \A t \in Tasks : task[t].status \in Terminal /\ pc # "teardown" => task'[t].status = task[t].status
OpensUntried ==
  \A t \in Updates : ~IsOpen(task, t) /\ IsOpen(task', t) =>
    task[t].selected \notin task[t].tried \/ task[t].selected = replay[t]
KeepsChildren == Cardinality(Tasks) <= QueueCap /\ PivotedHasChild => PivotedHasChild'
\* Who was created stays, and who is created is a child and gets no attempt at once.
Enters ==
  \A t \in Tasks :
    /\ task'[t].status = "unspawned" => task[t].status = "unspawned"
    /\ task[t].status = "unspawned" => task'[t].status = "unspawned" \/ (t \notin Updates /\ ~IsOpen(task', t))
Orderly == EndsStay /\ OpensUntried /\ KeepsChildren /\ Enters

LEMMA UpdatesAreTasks ==
  /\ Updates \subseteq Tasks /\ \A u \in Updates : Child[u] \in Tasks /\ Child[u] \notin Updates
  /\ NoFixes \subseteq Tasks
<1>1. \A u \in Updates : Child[u] \in Children
  BY DEF Children
<1> QED
  BY <1>1, TaskAssumption DEF Tasks, Sca

\* A stage that only follows the tasks keeps what concerns them.
LEMMA FollowingKeeps ==
  ASSUME task \in Queues, HandedOverEnded, QueueFollows(task, task')
  PROVE  task' \in Queues /\ HandedOverEnded' /\ Orderly
<1>1. ASSUME NEW t \in Tasks
      PROVE  Follows(task[t], task'[t])
  BY DEF QueueFollows
<1>2. ASSUME NEW u \in Updates
      PROVE  HasChild(task, u) <=> HasChild(task', u)
  <2>1. Follows(task[Child[u]], task'[Child[u]])
    BY <1>1, UpdatesAreTasks
  <2> QED
    BY <2>1, UpdatesAreTasks DEF HasChild, Queue, Follows
<1>3. HandedOverEnded'
  BY <1>1, <1>2, UpdatesAreTasks DEF HandedOverEnded, Follows
<1>4. EndsStay
  BY <1>1 DEF EndsStay, Follows
<1>5. OpensUntried
  BY <1>1, UpdatesAreTasks DEF OpensUntried, IsOpen, Follows
<1>6. KeepsChildren
  BY <1>1, <1>2, UpdatesAreTasks DEF KeepsChildren, PivotedHasChild, Follows
<1>7. Enters
  BY <1>1 DEF Enters, Follows
<1> QED
  BY <1>3, <1>4, <1>5, <1>6, <1>7 DEF QueueFollows, Orderly

LEMMA StayingKeeps ==
  ASSUME task \in Queues, HandedOverEnded, task' = task
  PROVE  task' \in Queues /\ HandedOverEnded' /\ Orderly
  BY QueueRefl, FollowingKeeps

LEMMA ViolationType ==
  ASSUME NEW f
  PROVE  Violation(f) \in Reasons \cup {"none"}
  BY DEF Violation, Reasons

LEMMA NobodyType == Nobody \in Escalations
  BY DEF Nobody, Escalations

LEMMA PortfolioGivesUpKeeps ==
  ASSUME IInv, PortfolioGivesUp
  PROVE  IInv' /\ Orderly
<1> USE DEF PortfolioGivesUp
<1>1. task' \in Queues /\ HandedOverEnded' /\ Orderly
  BY StayingKeeps DEF IInv, TypeInv
<1>2. TypeInv'
  BY <1>1, NobodyType DEF IInv, TypeInv, Stops
<1> QED
  BY <1>1, <1>2 DEF IInv, DecisionIsReady, WorkerTargets, Workers

LEMMA SolverFailsKeeps ==
  ASSUME IInv, SolverFails
  PROVE  IInv' /\ Orderly
<1> USE DEF SolverFails
<1>1. task' \in Queues /\ HandedOverEnded' /\ Orderly
  BY StayingKeeps DEF IInv, TypeInv
<1>2. TypeInv'
  BY <1>1 DEF IInv, TypeInv, Stops
<1> QED
  BY <1>1, <1>2 DEF IInv, DecisionIsReady, WorkerTargets, Workers

LEMMA PortfolioDefersKeeps ==
  ASSUME IInv, PortfolioDefers
  PROVE  IInv' /\ Orderly
<1> USE DEF PortfolioDefers
<1>1. task' \in Queues /\ HandedOverEnded' /\ Orderly
  BY StayingKeeps DEF IInv, TypeInv
<1>2. [reason |-> "reconcile", forced |-> {}] \in Escalations
  BY DEF Escalations, Reasons
<1>3. Open(task) \in SUBSET Tasks
  BY DEF Open, Live, Queue
<1>4. TypeInv'
  BY <1>1, <1>2, <1>3 DEF IInv, TypeInv, Stops
<1> QED
  BY <1>1, <1>4 DEF IInv, DecisionIsReady, WorkerTargets, Workers

LEMMA PlansFirstKeeps ==
  ASSUME IInv, PlansFirst
  PROVE  IInv' /\ Orderly
<1> USE DEF PlansFirst
<1>1. task' \in Queues /\ HandedOverEnded' /\ Orderly
  BY StayingKeeps DEF IInv, TypeInv
<1>2. [reason |-> Violation(task), forced |-> {}] \in Escalations
  BY ViolationType DEF Escalations
<1>3. TypeInv'
  BY <1>1, <1>2 DEF IInv, TypeInv, Stops
<1> QED
  BY <1>1, <1>3 DEF IInv, DecisionIsReady, WorkerTargets, Workers

LEMMA CrashKeeps ==
  ASSUME IInv, Crash
  PROVE  IInv' /\ Orderly
<1> USE DEF Crash, portfolio
<1>1. task' \in Queues /\ HandedOverEnded' /\ Orderly
  BY StayingKeeps DEF IInv, TypeInv
<1>2. TypeInv'
  BY <1>1 DEF IInv, TypeInv, Stops
<1> QED
  BY <1>1, <1>2 DEF IInv, DecisionIsReady, WorkerTargets, Workers

LEMMA LeavesType ==
  ASSUME NEW f
  PROVE  Leaves(f) \in SUBSET Tasks
  BY UpdatesAreTasks DEF Leaves, Leaf

LEMMA PortfolioCommitsKeeps ==
  ASSUME IInv, PortfolioCommits
  PROVE  IInv' /\ Orderly
<1> DEFINE members == Leaves(task)
           live == members \cap Live(task)
           bumps == live \cap Updates
<1>0. /\ pc = "portfolio" /\ pc' = "supervisor" /\ active' = {}
      /\ request' = Nobody /\ escalation' = Nobody
      /\ UNCHANGED <<verdict, replay, decision>>
  BY DEF PortfolioCommits, PortfolioCounts
<1>1. PICK rank \in [live -> 1..Cardinality(live)],
           version \in [bumps -> UNION {1..Versions[u] : u \in Updates}],
           lost \in SUBSET (live \ NoFixes) :
        /\ plan' = [members |-> members,
                    order |-> [i \in {rank[t] : t \in live} |-> {t \in live : rank[t] = i}]]
        /\ task' = Committed(task, bumps \cup lost, LAMBDA t :
                     IF t \in lost THEN [task[t] EXCEPT !.status = "unfixable"]
                     ELSE [task[t] EXCEPT !.selected = version[t], !.latest = FALSE])
  BY DEF PortfolioCommits
<1>2. plan'.members \in SUBSET Tasks
  BY <1>1, LeavesType
<1> DEFINE S == bumps \cup lost
           n(t) == IF t \in lost THEN [task[t] EXCEPT !.status = "unfixable"]
                   ELSE [task[t] EXCEPT !.selected = version[t], !.latest = FALSE]
           h == [t \in Tasks |-> n(t)]
<1>3. \A t \in bumps : version[t] \in Nat
  <2> HIDE DEF bumps
  <2>1. \A u \in Updates : Versions[u] \in Nat
    BY TaskAssumption
  <2>2. UNION {1..Versions[u] : u \in Updates} \subseteq Nat
    BY <2>1
  <2> QED
    BY <2>2
<1>4. ASSUME NEW t \in S \cap Tasks
      PROVE  Proper(task[t], n(t))
  <2> HIDE DEF bumps
  <2>1. task[t] \in Records
    BY DEF IInv, TypeInv, Queues
  <2>2. CASE t \in lost
    BY <2>1, <2>2 DEF Proper, Records, Statuses, Terminal
  <2>3. CASE t \notin lost
    <3>1. version[t] \in Nat
      BY <1>3, <2>3
    <3> QED
      BY <2>1, <2>3, <3>1 DEF Proper, Records
  <2> QED
    BY <2>2, <2>3
<1>5. task' = [t \in Tasks |-> IF t \in S THEN Commit(task[t], h[t]) ELSE task[t]]
  <2> HIDE DEF bumps
  <2>1. task' = [t \in Tasks |-> IF t \in S THEN Commit(task[t], n(t)) ELSE task[t]]
    BY <1>1 DEF Committed
  <2> HIDE DEF n, S
  <2> QED
    BY <2>1
<1>6. QueueFollows(task, task')
  <2>1. \A t \in S \cap Tasks : Proper(task[t], h[t])
    BY <1>4
  <2> HIDE DEF h, S
  <2> QED
    BY <1>5, <2>1, CommittedFollows DEF IInv, TypeInv
<1>7. task' \in Queues /\ HandedOverEnded' /\ Orderly
  BY <1>6, FollowingKeeps DEF IInv, TypeInv
<1>8. TypeInv'
  BY <1>0, <1>2, <1>7, NobodyType DEF IInv, TypeInv, Stops
<1> QED
  BY <1>0, <1>7, <1>8 DEF IInv, DecisionIsReady, WorkerTargets, Workers

LEMMA RecoveredType ==
  ASSUME active \in SUBSET Tasks
  PROVE  Recovered \in SUBSET Tasks
  BY DEF Recovered

LEMMA EvaluationsType ==
  ASSUME TypeInv, NEW f \in Queues
  PROVE  Evaluations(f) \in [Tasks -> {"none"} \cup Verdicts]
  BY DEF TypeInv, Evaluations, Queues, Records, Attempts

LEMMA EscalatedType ==
  ASSUME TypeInv, NEW e
  PROVE  Escalated(e) \in Escalations /\ Requested(Escalated(e)) \in Escalations
<1>1. /\ [reason |-> "CONFLICT", forced |-> {}] \in Escalations
      /\ [reason |-> "DELTA", forced |-> {}] \in Escalations
  BY DEF Escalations, Reasons
<1>2. Escalated(e) \in {[reason |-> "CONFLICT", forced |-> {}], [reason |-> "DELTA", forced |-> {}], escalation}
  BY DEF Escalated
<1> QED
  BY <1>1, <1>2 DEF Requested, TypeInv

\* No parent is left to be settled: handing over ends it (last lines of Apply).
LEMMA NoneOvertaken ==
  ASSUME HandedOverEnded, NEW g \in Queues, QueueFollows(task, g), NEW e
  PROVE  HandedOver(g, e) = g
<1>1. Overtaken(g) = {}
  <2> SUFFICES ASSUME NEW u \in Updates, u \in Live(g), HasChild(g, u)
               PROVE  FALSE
    BY DEF Overtaken
  <2>1. Follows(task[u], g[u]) /\ Follows(task[Child[u]], g[Child[u]])
    BY UpdatesAreTasks DEF QueueFollows
  <2>2. HasChild(task, u)
    BY <2>1, UpdatesAreTasks DEF HasChild, Queue, Follows
  <2>3. g[u].status \in Terminal
    BY <2>1, <2>2 DEF HandedOverEnded, Follows
  <2> QED
    BY <2>3 DEF Live
<1> QED
  BY <1>1 DEF HandedOver, Pivoted, Queues

LEMMA ReconcileKeeps ==
  ASSUME IInv, Reconcile
  PROVE  IInv' /\ Orderly
<1> DEFINE heard == BatchAnswered(HearWorkers)
           e == Evaluations(heard)
           esc == Escalated(e)
           settled == GivenUp(Settled(heard, e, esc))
<1>1. /\ Reconciled(heard, e, esc) /\ active' = Recovered
      /\ decision' = NoDecision /\ pc' = "plan" /\ plan' = plan
  BY DEF Reconcile
<1>2. TypeInv /\ HandedOverEnded /\ task \in Queues
  BY DEF IInv, TypeInv
<1>3. QueueFollows(task, heard) /\ heard \in Queues
  <2>1. HearWorkers \in Queues /\ QueueFollows(task, HearWorkers)
    BY <1>2, HearWorkersFollows DEF QueueFollows
  <2> QED
    BY <1>2, <2>1, BatchAnsweredFollows, QueueTrans DEF QueueFollows
<1>4. e \in [Tasks -> {"none"} \cup Verdicts] /\ esc \in Escalations /\ Requested(esc) \in Escalations
  BY <1>2, <1>3, EvaluationsType, EscalatedType
<1> HIDE DEF heard, e, esc
<1>5. QueueFollows(task, settled) /\ settled \in Queues
  BY <1>2, <1>3, SettledFollows, QueueTrans DEF QueueFollows
<1>6. /\ verdict' = e /\ escalation' = esc /\ request' = Requested(esc)
      /\ task' = HandedOver(settled, e)
      /\ replay' = [t \in Tasks |-> IF /\ qaDone /\ esc.reason = "DELTA"
                                       /\ Blamed # {} /\ t \in Batch \ Blamed
                                    THEN heard[t].selected ELSE replay[t]]
  BY <1>1 DEF Reconciled
<1> HIDE DEF settled
<1>7. task' = settled
  BY <1>2, <1>5, <1>6, NoneOvertaken
<1>8. task' \in Queues /\ HandedOverEnded' /\ Orderly
  BY <1>2, <1>5, <1>7, FollowingKeeps
<1>9. replay' \in [Tasks -> Nat]
  BY <1>2, <1>3, <1>6 DEF TypeInv, Queues, Records
<1>10. TypeInv'
  BY <1>1, <1>2, <1>4, <1>6, <1>8, <1>9, RecoveredType, NoDecisionSound DEF TypeInv, Stops, Sound
<1> QED
  BY <1>1, <1>8, <1>10 DEF IInv, DecisionIsReady, WorkerTargets, Workers

LEMMA QaOfSound ==
  ASSUME NEW f, NEW S \in SUBSET Tasks
  PROVE  Sound(f, QaOf(S)) /\ QaOf(S).node = "qa"
  BY DecisionSound DEF QaOf, Decision, Nodes

LEMMA AtLastStageFollows ==
  ASSUME NEW f \in Queues
  PROVE  QueueFollows(f, AtLastStage(f)) /\ AtLastStage(f) \in Queues
<1>1. ASSUME NEW t \in Tasks
      PROVE  Follows(f[t], AtLastStage(f)[t])
  <2>1. f[t] \in Records
    BY DEF Queues
  <2>2. AtLastStage(f)[t] \in {[f[t] EXCEPT !.latest = TRUE], f[t]}
    BY DEF AtLastStage
  <2>3. Follows(f[t], [f[t] EXCEPT !.latest = TRUE])
    BY <2>1 DEF Follows, Records
  <2> QED
    BY <2>1, <2>2, <2>3, FollowsRefl
<1>2. AtLastStage(f) \in Queues
  BY <1>1 DEF AtLastStage, Queues, Follows
<1> QED
  BY <1>1, <1>2 DEF QueueFollows

\* What the second stage makes of the tasks and of the first decision.
LEMMA ProposedSound ==
  ASSUME task \in Queues, active \in SUBSET Tasks,
         NEW f, f = AtLastStage(RetryPlanned(Route(task))), NEW d, d = Proposed(f, Route(task))
  PROVE  /\ QueueFollows(task, f) /\ f \in Queues /\ Sound(f, d)
         /\ \A t \in Tasks : f[t].status = task[t].status
         /\ \/ d \in {TearDown, NoDecision, Route(f)} \/ (d = Route(task) /\ f = task)
            \/ d = QaOf(active \cap Ready(f)) /\ QaFirst(f)
            \/ d = QaOf(Ready(f)) /\ Ready(f) # {}
<1> DEFINE d0 == Route(task)
           planned == RetryPlanned(d0)
<1>1. planned \in {task, Planned(task, d0.targets \ NoFixes)}
  BY DEF RetryPlanned
<1>2. ~Single(d0) => planned = task
  BY DEF RetryPlanned
<1> HIDE DEF planned
<1>3. /\ QueueFollows(task, planned) /\ planned \in Queues
      /\ \A t \in Tasks : planned[t].status = task[t].status
  BY <1>1, QueueRefl, PlannedFollows DEF QueueFollows
<1>4. QueueFollows(task, f) /\ f \in Queues
  BY <1>3, AtLastStageFollows, QueueTrans DEF planned
<1>5. \A t \in Tasks : f[t].status = task[t].status
  <2>1. ASSUME NEW t \in Tasks PROVE AtLastStage(planned)[t].status = planned[t].status
    <3>1. planned[t] \in Records
      BY <1>3 DEF Queues
    <3>2. AtLastStage(planned)[t] \in {[planned[t] EXCEPT !.latest = TRUE], planned[t]}
      BY DEF AtLastStage
    <3> QED
      BY <3>1, <3>2 DEF Records
  <2> QED
    BY <1>3, <2>1 DEF planned
<1>6. /\ ~Single(d0) => f = task
      /\ \/ d \in {TearDown, NoDecision, Route(f)} \/ (d = Route(task) /\ ~Single(d0))
         \/ d = QaOf(active \cap Ready(f)) /\ QaFirst(f)
         \/ d = QaOf(Ready(f)) /\ Ready(f) # {}
  <2>1. ~Single(d0) => f = task
    <3>1. Exhausted(task) = {}
      BY DEF Exhausted
    <3>2. AtLastStage(task) = task
      BY <3>1 DEF AtLastStage, Queues
    <3> QED
      BY <1>2, <3>2 DEF planned
  <2> HIDE DEF d0
  <2>2. d = Proposed(f, d0)
    BY DEF d0
  <2> QED
    BY <2>1, <2>2 DEF Proposed, d0
<1>7. Ready(f) \in SUBSET Tasks /\ active \cap Ready(f) \in SUBSET Tasks
  BY DEF Ready
<1>8. Sound(f, d)
  <2>1. CASE d \in {QaOf(active \cap Ready(f)), TearDown, QaOf(Ready(f)), NoDecision, Route(f)}
    BY <1>4, <1>7, <2>1, QaOfSound, NoDecisionSound, RouteSound
  <2>2. CASE d = Route(task) /\ f = task
    BY <2>2, RouteSound
  <2> QED
    BY <1>6, <2>1, <2>2
<1> QED
  BY <1>4, <1>5, <1>6, <1>8

LEMMA PlanKeeps ==
  ASSUME IInv, Plan
  PROVE  IInv' /\ Orderly
<1> DEFINE f == AtLastStage(RetryPlanned(Route(task)))
           d == Proposed(f, Route(task))
<1>1. /\ pc = "plan" /\ pc' = "route"
      /\ UNCHANGED <<active, verdict, replay, qaDone, plan, escalation, request>>
      /\ Decided(f, d)
  BY DEF Plan, portfolio
<1>2. task \in Queues /\ active \in SUBSET Tasks /\ HandedOverEnded
  BY DEF IInv, TypeInv
<1>3. QueueFollows(task, f) /\ f \in Queues /\ Sound(f, d)
  BY <1>2, ProposedSound
<1> HIDE DEF f, d
<1>4. /\ task' = SetStatus(f, Capped(f, d), "unfixable")
      /\ decision' = IF QaFirst(task') THEN QaOf(active \cap Ready(task'))
                     ELSE IF Capped(f, d) # {} THEN NoDecision ELSE d
  BY <1>1 DEF Decided
<1>5. QueueFollows(f, task') /\ QueueFollows(task, task')
  <2>1. "unfixable" \in Statuses \ {"pivoted"}
    BY DEF Statuses, Terminal
  <2>2. QueueFollows(f, task')
    BY <1>3, <1>4, <2>1, SetStatusFollows
  <2> QED
    BY <1>2, <1>3, <2>2, QueueTrans
<1>6. Sound(task', decision')
  <2>1. active \cap Ready(task') \in SUBSET Tasks
    BY <1>2
  <2>2. CASE Capped(f, d) = {}
    <3>1. task' = f
      BY <1>3, <1>4, <2>2 DEF SetStatus, Committed, Queues
    <3> QED
      BY <1>3, <1>4, <2>1, <2>2, <3>1, QaOfSound
  <2>3. CASE Capped(f, d) # {}
    BY <1>4, <2>1, <2>3, QaOfSound, NoDecisionSound
  <2> QED
    BY <2>2, <2>3
<1>7. task' \in Queues /\ HandedOverEnded' /\ Orderly
  BY <1>2, <1>5, FollowingKeeps
<1>8. TypeInv'
  BY <1>1, <1>6, <1>7 DEF IInv, TypeInv, Stops, Sound
<1> QED
  BY <1>1, <1>6, <1>7, <1>8 DEF IInv, DecisionIsReady, WorkerTargets, Workers

LEMMA GuardKeeps ==
  ASSUME IInv, Guard
  PROVE  IInv' /\ Orderly
<1> DEFINE d == IF decision = NoDecision THEN Route(task) ELSE decision
           valid == Valid(task, d)
<1>1. /\ pc = "route" /\ pc' = "apply"
      /\ UNCHANGED <<active, verdict, replay, qaDone, plan, escalation, request>>
      /\ (decision' = ToPortfolio /\ task' = task) \/ Guarded(d, valid)
  BY DEF Guard, portfolio
<1>2. task \in Queues /\ active \in SUBSET Tasks /\ HandedOverEnded /\ Sound(task, decision)
  BY <1>1 DEF IInv, TypeInv, DecisionIsReady
<1>3. Sound(task, d) /\ d.node # "none"
  BY <1>2, RouteSound DEF Sound, Decisions
<1>4. valid \subseteq d.targets
  BY DEF Valid
<1> HIDE DEF d, valid
<1>5. QueueFollows(task, task') /\ Sound(task', decision') /\ decision'.node # "none"
  <2>1. CASE decision' = ToPortfolio /\ task' = task
    <3>1. Sound(task, ToPortfolio) /\ ToPortfolio.node = "portfolio"
      BY DecisionSound DEF ToPortfolio, Decision, Nodes
    <3> QED
      BY <1>2, <2>1, <3>1, QueueRefl
  <2>2. CASE Guarded(d, valid)
    <3>1. /\ task' = Planned(task, ToReplan(d, valid))
          /\ decision' = CASE d.node = "teardown" -> d
                           [] d.node # "teardown" /\ (valid = {} \/ ToReplan(d, valid) # {}) -> Route(task')
                           [] OTHER -> [d EXCEPT !.targets = valid]
      BY <2>2 DEF Guarded
    <3>2. QueueFollows(task, task') /\ task' \in Queues
      BY <1>2, <3>1, PlannedFollows DEF QueueFollows
    <3>3. \A u \in Tasks : MustPivot(task, u) => MustPivot(task', u)
      <4>1. \A t \in Tasks : task'[t] = task[t] \/ ~MustPivot(task, t)
        BY <1>2, <3>1, PlannedFollows
      <4> QED
        BY <4>1 DEF MustPivot
    <3>4. Sound(task', d)
      BY <1>3, <3>3, UpdatesAreTasks DEF Sound, Decisions
    <3>5. Sound(task', [d EXCEPT !.targets = valid]) /\ [d EXCEPT !.targets = valid].node = d.node
      BY <1>3, <1>4, <3>4 DEF Sound, Decisions
    <3>6. Sound(task', Route(task')) /\ Route(task').node # "none"
      BY <1>2, <3>2, RouteSound
    <3> QED
      BY <1>3, <3>1, <3>2, <3>4, <3>5, <3>6
  <2> QED
    BY <1>1, <2>1, <2>2
<1>6. task' \in Queues /\ HandedOverEnded' /\ Orderly
  BY <1>2, <1>5, FollowingKeeps
<1>7. TypeInv'
  BY <1>1, <1>5, <1>6 DEF IInv, TypeInv, Stops, Sound
<1> QED
  BY <1>1, <1>5, <1>6, <1>7 DEF IInv, DecisionIsReady, WorkerTargets, Workers

-----------------------------------------------------------------------------
(* The fourth stage: children are created, parents end, dispatches are authorised. *)

LEMMA NewTaskType ==
  ASSUME NEW s \in Statuses, NEW g \in Stages
  PROVE  /\ NewTask(s, g) \in Records /\ NewTask(s, g).status = s /\ NewTask(s, g).attempt.batch = {}
  BY NoAttemptType DEF NewTask, Records, NoAttempt

LEMMA SpawnedChildren ==
  ASSUME NEW f \in Queues, NEW S \in SUBSET Updates
  PROVE  /\ Spawned(f, S) \in Queues
         /\ \A t \in Tasks :
              \/ Spawned(f, S)[t] = f[t]
              \/ /\ \E u \in S : t = Child[u]
                 /\ f[t].status = "unspawned" /\ Spawned(f, S)[t].status = "pending"
                 /\ Spawned(f, S)[t].attempt.batch = {}
<1> DEFINE new == {u \in S : ~HasChild(f, u)}
           before(u) == {w \in new : Precedes(f, w, u)}
           room == {u \in new : Cardinality(Queue(f)) + Cardinality(before(u)) < QueueCap}
           kids == {Child[u] : u \in room}
<1>1. Spawned(f, S) = [t \in Tasks |-> IF t \in kids THEN NewTask("pending", "none") ELSE f[t]]
  BY DEF Spawned
<1>2. room \subseteq new
  OBVIOUS
<1> HIDE DEF room
<1>3. \A t \in kids : \E u \in S : t = Child[u] /\ ~HasChild(f, u)
  BY <1>2
<1> HIDE DEF kids
<1>4. "pending" \in Statuses /\ "none" \in Stages
  BY DEF Statuses, Stages, Workable
<1>5. ASSUME NEW t \in Tasks, t \in kids
      PROVE  f[t].status = "unspawned"
  <2>1. PICK u \in S : t = Child[u] /\ ~HasChild(f, u)
    BY <1>3, <1>5
  <2> QED
    BY <2>1 DEF HasChild, Queue
<1>6. Spawned(f, S) \in Queues
  BY <1>1, <1>4, NewTaskType DEF Queues
<1> QED
  BY <1>1, <1>3, <1>4, <1>5, <1>6, NewTaskType

LEMMA PivotedEnd ==
  ASSUME NEW f \in Queues, NEW e, NEW S \in SUBSET Updates
  PROVE  /\ Pivoted(f, e, S) \in Queues
         /\ \A t \in Tasks \ S : Pivoted(f, e, S)[t] = f[t]
         /\ \A t \in S : /\ Pivoted(f, e, S)[t].status \in Terminal
                         /\ Pivoted(f, e, S)[t].attempt.batch = {}
<1>1. ASSUME NEW t \in S
      PROVE  /\ Pivoted(f, e, S)[t] \in Records
             /\ Pivoted(f, e, S)[t].status \in Terminal
             /\ Pivoted(f, e, S)[t].attempt.batch = {}
  <2> DEFINE s == PivotStatus(e, t)
             n == [f[t] EXCEPT !.status = s, !.exhausted = TRUE, !.latest = TRUE]
  <2>1. s \in Terminal /\ s \in Statuses
    BY DEF PivotStatus, Terminal, Statuses
  <2>2. t \in Tasks /\ f[t] \in Records
    BY UpdatesAreTasks DEF Queues
  <2> HIDE DEF s
  <2>3. n \in Records /\ n.status = s
    BY <2>1, <2>2 DEF Records
  <2>4. Pivoted(f, e, S)[t] = Drop(n)
    BY <2>2 DEF Pivoted, s
  <2> QED
    BY <2>1, <2>3, <2>4, DropType
<1>2. \A t \in Tasks \ S : Pivoted(f, e, S)[t] = f[t]
  BY DEF Pivoted
<1>3. Pivoted(f, e, S) \in Queues
  <2>1. \A t \in Tasks : Pivoted(f, e, S)[t] \in Records
    BY <1>1, <1>2 DEF Queues
  <2> QED
    BY <2>1 DEF Pivoted, Queues
<1> QED
  BY <1>1, <1>2, <1>3

\* Whom the last authorisation changes, it does not let pass.
LEMMA ReauthorisedWork ==
  ASSUME NEW f \in Queues, NEW S
  PROVE  /\ QueueFollows(f, Reauthorised(f, S))
         /\ \A t \in Tasks : \/ ~Authorised(Reauthorised(f, S), t)
                             \/ /\ Reauthorised(f, S)[t].status = f[t].status
                                /\ Reauthorised(f, S)[t].attempt = f[t].attempt
<1> DEFINE plans == Planned(f, {t \in S : ~Authorised(f, t)})
           better == [t \in Tasks |-> IF plans[t].exhausted /\ ~plans[t].latest THEN f[t] ELSE plans[t]]
           lost == {t \in S : ~Authorised(better, t) /\ ~better[t].exhausted}
           g == SetStatus(better, lost, "inconclusive")
<1>1. Reauthorised(f, S) = g
  BY DEF Reauthorised
<1>2. /\ QueueFollows(f, plans)
      /\ \A t \in Tasks : plans[t].status = f[t].status /\ plans[t].attempt = f[t].attempt
  BY PlannedFollows
<1> HIDE DEF plans
<1>3. /\ \A t \in Tasks : /\ Follows(f[t], better[t]) /\ better[t] \in Records
                          /\ better[t].status = f[t].status /\ better[t].attempt = f[t].attempt
      /\ better \in Queues
  <2>1. \A t \in Tasks : Follows(f[t], plans[t]) /\ Follows(f[t], f[t])
    BY <1>2, FollowsRefl DEF QueueFollows, Queues
  <2>2. \A t \in Tasks : better[t] \in {f[t], plans[t]}
    OBVIOUS
  <2>3. \A t \in Tasks : Follows(f[t], better[t]) /\ better[t] \in Records
    BY <2>1, <2>2 DEF Follows
  <2>4. better \in Queues
    BY <2>3 DEF Queues
  <2> HIDE DEF better
  <2> QED
    BY <1>2, <2>2, <2>3, <2>4
<1>4. QueueFollows(f, better) /\ better \in Queues
  BY <1>3 DEF QueueFollows
<1> HIDE DEF better
<1>5. "inconclusive" \in Statuses \ {"pivoted"} /\ "inconclusive" \in Terminal
  BY DEF Statuses, Terminal
<1>6. QueueFollows(f, g)
  <2> HIDE DEF lost
  <2> QED
    BY <1>4, <1>5, SetStatusFollows, QueueTrans
<1>7. ASSUME NEW t \in Tasks
      PROVE  \/ ~Authorised(g, t)
             \/ g[t].status = f[t].status /\ g[t].attempt = f[t].attempt
  <2> DEFINE n == [better[t] EXCEPT !.status = "inconclusive"]
  <2>1. g[t] = IF t \in lost THEN Commit(better[t], n) ELSE better[t]
    BY DEF SetStatus, Committed
  <2>2. CASE t \notin lost
    BY <1>3, <2>1, <2>2
  <2>3. CASE t \in lost
    <3>1. t \in Updates
      BY <2>3 DEF Authorised
    <3>2. n \in Records /\ n.status = "inconclusive"
      BY <1>3, <1>5 DEF Records
    <3> HIDE DEF n
    <3>3. g[t] = better[t] \/ g[t] = Drop(n)
      BY <1>5, <2>1, <2>3, <3>2 DEF Commit
    <3>4. CASE g[t] = better[t]
      BY <1>3, <3>4
    <3>5. CASE g[t] = Drop(n)
      BY <3>1, <3>2, <3>5, DropType DEF Authorised
    <3> QED
      BY <3>3, <3>4, <3>5
  <2> QED
    BY <2>2, <2>3
<1> QED
  BY <1>1, <1>6, <1>7

LEMMA AllowedType ==
  ASSUME NEW f, NEW node
  PROVE  /\ Allowed(f, node) \in SUBSET Tasks
         /\ node \in Workers => Allowed(f, node) \subseteq Dispatchable(f)
<1>1. Dispatchable(f) \in SUBSET Tasks /\ Ready(f) \in SUBSET Tasks
  BY DEF Dispatchable, Work, Ready
<1>2. CASE node = "qa"
  BY <1>1, <1>2 DEF Allowed, Workers
<1>3. CASE node = "update"
  BY <1>1, <1>3 DEF Allowed
<1>4. CASE node = "workaround"
  BY <1>1, <1>4 DEF Allowed
<1>5. CASE node \notin {"qa", "update", "workaround"}
  BY <1>5 DEF Allowed, Workers
<1> QED
  BY <1>2, <1>3, <1>4, <1>5

LEMMA NormalisedType ==
  ASSUME NEW f, NEW d \in Decisions, d.node # "none"
  PROVE  /\ Normalised(f, d) \in Decisions /\ Normalised(f, d).node = d.node
         /\ Normalised(f, d).targets \subseteq Allowed(f, d.node)
  BY AllowedType DEF Normalised, Decisions

LEMMA ReroutedType ==
  ASSUME NEW f \in Queues, active \in SUBSET Tasks, NEW d \in Decisions, d.node # "none",
         d.node \in Workers => d.targets \subseteq Dispatchable(f)
  PROVE  /\ Rerouted(f, d) \in Decisions /\ Rerouted(f, d).node # "none"
         /\ Rerouted(f, d).node \in Workers => Rerouted(f, d).targets \subseteq Dispatchable(f)
<1>1. Route(f) \in Decisions /\ Route(f).node # "none"
  BY RouteSound DEF Sound
<1>2. /\ Normalised(f, Route(f)) \in Decisions /\ Normalised(f, Route(f)).node # "none"
      /\ Normalised(f, Route(f)).node \in Workers => Normalised(f, Route(f)).targets \subseteq Dispatchable(f)
  BY <1>1, NormalisedType, AllowedType
<1> QED
  BY <1>2 DEF Rerouted

\* What is dispatched is open work, and what the authorisation changes only follows.
LEMMA AppliedDispatch ==
  ASSUME NEW f \in Queues, active \in SUBSET Tasks, NEW d \in Decisions, d.node # "none",
         d.node \in Workers => d.targets \subseteq Dispatchable(f), Applied(f, d)
  PROVE  /\ QueueFollows(f, task')
         /\ decision' \in Decisions /\ decision'.node # "none"
         /\ decision'.node \in Workers => decision'.targets \subseteq Dispatchable(task')
<1> DEFINE g == IF d.node = "update" THEN Reauthorised(f, d.targets) ELSE f
           k == Kept(g, d)
           r == Rerouted(g, k)
<1>1. FailClosed(g, r)
  BY DEF Applied, AuthorisedDispatch
<1>2. QueueFollows(f, g) /\ g \in Queues
  BY ReauthorisedWork, QueueRefl DEF QueueFollows
<1>3. k = [d EXCEPT !.targets = {t \in d.targets : d.node = "update" => Authorised(g, t)}]
  BY DEF Kept
<1>4. /\ k \in Decisions /\ k.node = d.node
      /\ k.targets = {t \in d.targets : d.node = "update" => Authorised(g, t)}
  <2> DEFINE T == {t \in d.targets : d.node = "update" => Authorised(g, t)}
  <2>1. T \in SUBSET d.targets /\ k = [d EXCEPT !.targets = T]
    BY <1>3
  <2> HIDE DEF T, k
  <2>2. k \in Decisions /\ k.node = d.node /\ k.targets = T
    BY <2>1 DEF Decisions
  <2> QED
    BY <2>2 DEF T
<1>5. k.node \in Workers => k.targets \subseteq Dispatchable(g)
  <2> SUFFICES ASSUME d.node \in Workers, NEW t \in k.targets
               PROVE  t \in Dispatchable(g)
    BY <1>4
  <2>1. t \in Dispatchable(f) /\ t \in Tasks
    BY <1>4 DEF Decisions
  <2>2. CASE d.node = "update"
    <3>1. g = Reauthorised(f, d.targets) /\ Authorised(g, t)
      BY <1>4, <2>2
    <3>2. g[t].status = f[t].status /\ g[t].attempt = f[t].attempt
      BY <2>1, <3>1, ReauthorisedWork
    <3> QED
      BY <2>1, <3>2 DEF Dispatchable, Work, IsOpen
  <2>3. CASE d.node # "update"
    BY <2>1, <2>3
  <2> QED
    BY <2>2, <2>3
<1> HIDE DEF g, k
<1>6. /\ r \in Decisions /\ r.node # "none"
      /\ r.node \in Workers => r.targets \subseteq Dispatchable(g)
  BY <1>2, <1>4, <1>5, ReroutedType
<1> HIDE DEF r
<1>7. CASE task' = g /\ decision' = r
  BY <1>2, <1>6, <1>7
<1>8. CASE task' = SetStatus(g, Live(g), "unfixable") /\ decision' = TearDown
  <2>1. "unfixable" \in Statuses \ {"pivoted"}
    BY DEF Statuses, Terminal
  <2>2. QueueFollows(f, task')
    BY <1>2, <1>8, <2>1, SetStatusFollows, QueueTrans
  <2>3. decision' \in Decisions /\ decision'.node = "teardown"
    BY <1>8, NoDecisionSound DEF Sound
  <2> QED
    BY <2>2, <2>3 DEF Workers
<1> QED
  BY <1>1, <1>7, <1>8 DEF FailClosed

LEMMA TasksFinite == IsFiniteSet(Tasks) /\ Cardinality(Tasks) \in Nat
<1> DEFINE child == [u \in Updates |-> Child[u]]
<1>1. child \in Surjection(Updates, Children)
  BY DEF Surjection, Children
<1>2. IsFiniteSet(Children)
  BY <1>1, TaskAssumption, FS_Surjection
<1> QED
  BY <1>2, TaskAssumption, FS_Union, FS_CardinalityType DEF Tasks, Sca

\* Every parent that hands over gets its child, if there is room for all tasks.
LEMMA RoomForAll ==
  ASSUME NEW f \in Queues, NEW S \in SUBSET Updates, NEW u \in S, Cardinality(Tasks) <= QueueCap
  PROVE  Child[u] \in Queue(Spawned(f, S))
<1> DEFINE new == {w \in S : ~HasChild(f, w)}
           before(w) == {v \in new : Precedes(f, v, w)}
           room == {w \in new : Cardinality(Queue(f)) + Cardinality(before(w)) < QueueCap}
           B == before(u)
           Q == Queue(f)
           T == Tasks \ (Q \cup {Child[u]})
           child == [w \in B |-> Child[w]]
<1>0. Spawned(f, S) = [t \in Tasks |-> IF t \in {Child[w] : w \in room} THEN NewTask("pending", "none") ELSE f[t]]
  BY DEF Spawned
<1>1. CASE HasChild(f, u)
  <2>1. Child[u] \in Queue(f)
    BY <1>1 DEF HasChild
  <2>2. Spawned(f, S)[Child[u]].status # "unspawned"
    BY <2>1, SpawnedChildren DEF Queue
  <2> QED
    BY <2>1, <2>2 DEF Queue
<1>2. CASE ~HasChild(f, u)
  <2>1. Child[u] \in Tasks \ Q
    BY <1>2, UpdatesAreTasks DEF HasChild
  <2>2. ~Precedes(f, u, u)
    <3>1. /\ Severity[u] \in Nat /\ StatusRank(f[u].status) \in Nat /\ f[u].retries \in Nat /\ TaskId[u] \in Nat
      BY TaskAssumption, UpdatesAreTasks DEF StatusRank, Queues, Records
    <3> DEFINE k == <<Severity[u], IF u \in Updates THEN 0 ELSE 1, StatusRank(f[u].status),
                      f[u].retries, TaskId[u]>>
    <3>2. \A i \in 1..5 : k[i] \in Nat
      BY <3>1
    <3>3. \A i \in 1..5 : ~(k[i] < k[i])
      <4> HIDE DEF k
      <4> QED BY <3>2
    <3> QED
      BY <3>3 DEF Precedes
  <2>3. child \in Injection(B, T)
    <3>1. \A w \in B : w \in Updates /\ w # u /\ ~HasChild(f, w)
      BY <2>2
    <3> HIDE DEF B
    <3>2. \A w \in B : Child[w] \in T
      BY <3>1, TaskAssumption, UpdatesAreTasks DEF HasChild
    <3> HIDE DEF T
    <3>3. \A w, v \in B : child[w] = child[v] => w = v
      BY <3>1, TaskAssumption
    <3> QED
      BY <3>2, <3>3 DEF Injection, IsInjective
  <2>4. IsFiniteSet(Q) /\ IsFiniteSet(T) /\ IsFiniteSet(Q \cup {Child[u]})
    <3>1. Q \subseteq Tasks /\ T \subseteq Tasks /\ Q \cup {Child[u]} \subseteq Tasks
      BY <2>1 DEF Queue
    <3> HIDE DEF Q, T
    <3> QED
      BY <3>1, TasksFinite, FS_Subset
  <2> HIDE DEF B
  <2>5. Cardinality(B) <= Cardinality(T) /\ IsFiniteSet(B)
    BY <2>3, <2>4, FS_Injection
  <2>6. Cardinality(Q \cup {Child[u]}) = Cardinality(Q) + 1
    <3> HIDE DEF Q
    <3> QED
      BY <2>1, <2>4, FS_AddElement
  <2>7. Cardinality(Tasks) = Cardinality(Q \cup {Child[u]}) + Cardinality(T)
    <3> DEFINE R == Q \cup {Child[u]}
    <3>1. R \subseteq Tasks /\ T = Tasks \ R
      BY <2>1 DEF Queue
    <3> HIDE DEF R, T
    <3>2. R \cup T = Tasks /\ R \cap T = {}
      BY <3>1
    <3>3. Cardinality(R \cup T) = Cardinality(R) + Cardinality(T) - Cardinality(R \cap T)
      BY <2>4, FS_Union DEF R
    <3>4. Cardinality(R) \in Nat /\ Cardinality(T) \in Nat /\ Cardinality(R \cap T) = 0
      BY <2>4, <3>2, FS_CardinalityType, FS_EmptySet DEF R
    <3>5. Cardinality(Tasks) = Cardinality(R \cup T)
      BY <3>2
    <3>6. Cardinality(Tasks) = Cardinality(R) + Cardinality(T)
      <4> DEFINE n == Cardinality(Tasks)
                 m == Cardinality(R \cup T)
                 i == Cardinality(R)
                 j == Cardinality(T)
                 k == Cardinality(R \cap T)
      <4>1. n = m /\ m = i + j - k /\ i \in Nat /\ j \in Nat /\ k = 0
        BY <3>3, <3>4, <3>5
      <4> HIDE DEF n, m, i, j, k
      <4>2. n = i + j
        BY <4>1
      <4> QED BY <4>2 DEF n, i, j
    <3> QED
      BY <3>6 DEF R
  <2>8. /\ Cardinality(Q) \in Nat /\ Cardinality(B) \in Nat /\ Cardinality(T) \in Nat /\ QueueCap \in Nat
        /\ Cardinality(Tasks) \in Nat
    BY <2>4, <2>5, TasksFinite, FS_CardinalityType, BoundAssumption
  <2>9. Cardinality(Q) + Cardinality(B) < QueueCap
    <3> HIDE DEF Q, T
    <3> QED
      BY <2>5, <2>6, <2>7, <2>8
  <2>10. u \in room
    BY <1>2, <2>9 DEF B
  <2>11. Spawned(f, S)[Child[u]] = NewTask("pending", "none")
    <3> HIDE DEF room
    <3> QED BY <1>0, <2>1, <2>10
  <2> QED
    BY <2>1, <2>11 DEF Queue, NewTask
<1> QED
  BY <1>1, <1>2

LEMMA ApplyKeeps ==
  ASSUME IInv, Apply
  PROVE  IInv' /\ Orderly
<1> DEFINE S == decision.pivots
           created == Spawned(task, S)
           f == Pivoted(created, verdict, S)
           d == Remapped(f, decision)
<1>1. /\ pc = "apply" /\ pc' = "commit" /\ Applied(f, d)
      /\ UNCHANGED <<active, verdict, replay, plan, escalation, request>>
  BY DEF Apply, portfolio
<1>2. /\ task \in Queues /\ active \in SUBSET Tasks /\ HandedOverEnded
      /\ Sound(task, decision) /\ decision.node # "none"
  BY <1>1 DEF IInv, TypeInv, DecisionIsReady
<1>3. S \in SUBSET Updates /\ \A u \in S : task[u].status = "needs_retry"
  BY <1>2 DEF Sound, Decisions, MustPivot
<1>4. d \in Decisions /\ d.node # "none" /\ (d.node \in Workers => d.targets \subseteq Dispatchable(f))
  <2> DEFINE T == {IF t \in S THEN Child[t] ELSE t : t \in decision.targets}
             moved == [decision EXCEPT !.targets = T]
  <2>1. T \in SUBSET Tasks
    BY <1>2, <1>3, UpdatesAreTasks DEF Sound, Decisions
  <2>2. moved \in Decisions /\ moved.node = decision.node
    <3> HIDE DEF T
    <3> QED
      BY <1>2, <2>1 DEF Sound, Decisions
  <2>3. d = Normalised(f, moved)
    BY DEF Remapped
  <2> HIDE DEF moved, d, f
  <2> QED
    BY <1>2, <2>2, <2>3, NormalisedType, AllowedType
<1> HIDE DEF S, d
<1>5. created \in Queues /\ f \in Queues
  <2>1. created \in Queues
    BY <1>2, <1>3, SpawnedChildren
  <2> HIDE DEF created
  <2> QED
    BY <1>3, <2>1, PivotedEnd
<1>6. ASSUME NEW t \in Tasks
      PROVE  \/ created[t] = task[t]
             \/ /\ \E u \in S : t = Child[u]
                /\ task[t].status = "unspawned" /\ created[t].status = "pending"
                /\ created[t].attempt.batch = {}
  BY <1>2, <1>3, SpawnedChildren
<1>7. ASSUME NEW t \in Tasks
      PROVE  /\ t \in S => f[t].status \in Terminal /\ f[t].attempt.batch = {}
             /\ t \notin S => f[t] = created[t]
  <2> HIDE DEF created
  <2> QED
    BY <1>3, <1>5, PivotedEnd
<1>8. Cardinality(Tasks) <= QueueCap => \A u \in S : Child[u] \in Queue(created)
  BY <1>2, <1>3, RoomForAll
<1> HIDE DEF created, f
<1>9. /\ QueueFollows(f, task') /\ decision' \in Decisions /\ decision'.node # "none"
      /\ decision'.node \in Workers => decision'.targets \subseteq Dispatchable(task')
  BY <1>1, <1>2, <1>4, <1>5, AppliedDispatch
<1>10. ASSUME NEW t \in Tasks
       PROVE  Follows(f[t], task'[t])
  BY <1>9 DEF QueueFollows
<1>11. EndsStay
  <2> SUFFICES ASSUME NEW t \in Tasks, task[t].status \in Terminal
               PROVE  task'[t].status = task[t].status
    BY DEF EndsStay
  <2>1. t \notin S /\ task[t].status # "unspawned"
    BY <1>3 DEF Terminal
  <2>2. f[t] = task[t]
    BY <1>6, <1>7, <2>1
  <2> QED
    BY <1>10, <2>2 DEF Follows
<1>12. OpensUntried
  <2> SUFFICES ASSUME NEW t \in Updates, ~IsOpen(task, t)
               PROVE  ~IsOpen(task', t)
    BY DEF OpensUntried
  <2>1. t \in Tasks
    BY UpdatesAreTasks
  <2>2. f[t].attempt.batch = {}
    BY <1>6, <1>7, <2>1 DEF IsOpen
  <2> QED
    BY <1>10, <2>1, <2>2 DEF Follows, IsOpen
<1>13. ASSUME NEW u \in Updates
       PROVE  HasChild(f, u) <=> HasChild(task', u)
  <2>1. Follows(f[Child[u]], task'[Child[u]])
    BY <1>10, UpdatesAreTasks
  <2> QED
    BY <2>1, UpdatesAreTasks DEF HasChild, Queue, Follows
\* A child belongs to one parent.
<1>14. HandedOverEnded'
  <2> SUFFICES ASSUME NEW u \in Updates, HasChild(f, u)
               PROVE  f[u].status \in Terminal
    BY <1>10, <1>13, UpdatesAreTasks DEF HandedOverEnded, Follows
  <2>1. u \in Tasks /\ Child[u] \in Tasks /\ Child[u] \notin S /\ u \notin Children
    BY <1>3, UpdatesAreTasks, TaskAssumption
  <2>2. CASE u \in S
    BY <1>7, <2>1, <2>2
  <2>3. CASE u \notin S
    <3>1. f[u] = task[u]
      BY <1>3, <1>6, <1>7, <2>1, <2>3 DEF Children
    <3>2. created[Child[u]] = task[Child[u]]
      BY <1>3, <1>6, <2>1, <2>3, TaskAssumption
    <3>3. HasChild(task, u)
      BY <1>7, <2>1, <3>2 DEF HasChild, Queue
    <3> QED
      BY <1>2, <3>1, <3>3 DEF HandedOverEnded
  <2> QED
    BY <2>2, <2>3
<1>15. KeepsChildren
  <2> SUFFICES ASSUME Cardinality(Tasks) <= QueueCap, PivotedHasChild,
                      NEW u \in Updates, f[u].status = "pivoted"
               PROVE  HasChild(f, u)
    BY <1>10, <1>13, UpdatesAreTasks DEF KeepsChildren, PivotedHasChild, Follows
  <2>1. u \in Tasks /\ Child[u] \in Tasks /\ Child[u] \notin S /\ u \notin Children
    BY <1>3, UpdatesAreTasks, TaskAssumption
  <2>2. f[Child[u]] = created[Child[u]]
    BY <1>7, <2>1
  <2>3. CASE u \in S
    <3>1. Child[u] \in Queue(created)
      BY <1>8, <2>3
    <3> QED
      BY <2>2, <3>1 DEF HasChild, Queue
  <2>4. CASE u \notin S
    <3>1. f[u] = task[u]
      BY <1>3, <1>6, <1>7, <2>1, <2>4 DEF Children
    <3>2. HasChild(task, u)
      BY <3>1 DEF PivotedHasChild
    <3> QED
      BY <1>6, <2>1, <2>2, <3>2 DEF HasChild, Queue
  <2> QED
    BY <2>3, <2>4
<1>16. task' \in Queues
  BY <1>9 DEF QueueFollows
<1>17. TypeInv'
  BY <1>1, <1>9, <1>16 DEF IInv, TypeInv, Stops
<1>18. Enters
  <2> SUFFICES ASSUME NEW t \in Tasks
               PROVE  /\ f[t].status = "unspawned" => task[t].status = "unspawned"
                      /\ task[t].status = "unspawned" =>
                           \/ f[t].status = "unspawned"
                           \/ t \notin Updates /\ f[t].attempt.batch = {}
    BY <1>10 DEF Enters, Follows, IsOpen
  <2>1. t \in S => f[t].status # "unspawned" /\ task[t].status = "needs_retry"
    BY <1>3, <1>7 DEF Terminal
  <2>2. \/ created[t] = task[t]
        \/ /\ t \notin Updates /\ task[t].status = "unspawned" /\ created[t].status = "pending"
           /\ created[t].attempt.batch = {}
    BY <1>3, <1>6, UpdatesAreTasks
  <2> QED
    BY <1>7, <2>1, <2>2
<1> QED
  BY <1>1, <1>9, <1>11, <1>12, <1>14, <1>15, <1>17, <1>18
     DEF IInv, DecisionIsReady, WorkerTargets, Workers, Orderly

-----------------------------------------------------------------------------
(* The last stage: the dispatch. *)

LEMMA BarrierType ==
  ASSUME TypeInv, NEW d \in Decisions, d.node # "none"
  PROVE  /\ AfterBarrier(task, AfterReplan(task, d)) \in Decisions
         /\ AfterBarrier(task, AfterReplan(task, d)).node # "none"
         /\ \/ AfterBarrier(task, AfterReplan(task, d)) = d
            \/ AfterBarrier(task, AfterReplan(task, d)).node \notin Workers
<1> DEFINE r == AfterReplan(task, d)
           rechecked == {t \in Ready(task) \cap Open(task) : task[t].attempt.runs > 0}
           first == CHOOSE t \in rechecked : TRUE
           targets == {t \in Ready(task) \cap Open(task) : task[t].attempt.batch = task[first].attempt.batch}
<1>1. ASSUME NEW T \in SUBSET Tasks
      PROVE  Decision("qa", T, Cardinality(T) > 1, {}) \in Decisions
  <2>1. (Cardinality(T) > 1) \in BOOLEAN
    OBVIOUS
  <2> QED
    BY <2>1, DecisionSound DEF Sound, Nodes
<1>2. \A T, c, P : Decision("qa", T, c, P).node = "qa"
  BY DEF Decision
<1>3. ToPortfolio \in Decisions /\ ToPortfolio.node = "portfolio"
  BY DecisionSound DEF ToPortfolio, Decision, Sound, Nodes
<1>4. Open(task) \in SUBSET Tasks /\ targets \in SUBSET Tasks
  BY DEF Open, Live, Queue
<1>5. r \in {d, ToPortfolio, Decision("qa", Open(task), Cardinality(Open(task)) > 1, {})}
  BY DEF AfterReplan
<1>6. r \in Decisions /\ r.node # "none" /\ (r = d \/ r.node \notin Workers)
  BY <1>1, <1>2, <1>3, <1>4, <1>5 DEF Workers
<1> HIDE DEF r
<1>7. AfterBarrier(task, r) \in {r, Decision("qa", targets, Cardinality(targets) > 1, {})}
  BY DEF AfterBarrier
<1> HIDE DEF targets
<1> QED
  BY <1>1, <1>2, <1>4, <1>6, <1>7 DEF r, Workers

\* An attempt is opened for the targets of a worker, and only if they are authorised.
LEMMA AttemptedOpens ==
  ASSUME NEW f \in Queues, NEW d \in Decisions
  PROVE  /\ Attempted(f, d) \in Queues
         /\ \A t \in Tasks :
              /\ Attempted(f, d)[t].status = f[t].status
              /\ \/ Attempted(f, d)[t].attempt.batch = f[t].attempt.batch
                 \/ /\ d.node \in Workers /\ t \in d.targets /\ Authorised(f, t)
                    /\ Attempted(f, d)[t].attempt.batch = d.targets
<1> DEFINE opened(t) == [f[t] EXCEPT !.attempt = [NoAttempt EXCEPT !.batch = d.targets]]
           counted(t) == [f[t] EXCEPT !.attempt.runs = @ + 1]
<1>1. ASSUME NEW t \in Tasks
      PROVE  \/ /\ Attempted(f, d)[t] = opened(t)
                /\ d.node \in Workers /\ t \in d.targets /\ Authorised(f, t)
             \/ Attempted(f, d)[t] = counted(t)
             \/ Attempted(f, d)[t] = f[t]
  <2> DEFINE sent == t \in d.targets /\ d.node \in Workers /\ Authorised(f, t)
             judged == t \in d.targets /\ d.node = "qa" /\ IsOpen(f, t)
  <2>1. Attempted(f, d)[t] = CASE sent -> opened(t) [] judged -> counted(t) [] OTHER -> f[t]
    BY DEF Attempted
  <2> HIDE DEF judged, opened, counted
  <2> QED
    BY <2>1
<1>2. ASSUME NEW t \in Tasks
      PROVE  /\ opened(t) \in Records /\ opened(t).status = f[t].status
             /\ opened(t).attempt.batch = d.targets
  <2>1. f[t] \in Records /\ d.targets \in SUBSET Tasks
    BY DEF Queues, Decisions
  <2>2. /\ [NoAttempt EXCEPT !.batch = d.targets] \in Attempts
        /\ [NoAttempt EXCEPT !.batch = d.targets].batch = d.targets
    BY <2>1, NoAttemptType DEF Attempts
  <2> QED
    BY <2>1, <2>2 DEF Records
<1>3. ASSUME NEW t \in Tasks
      PROVE  /\ counted(t) \in Records /\ counted(t).status = f[t].status
             /\ counted(t).attempt.batch = f[t].attempt.batch
  <2> DEFINE a == [f[t].attempt EXCEPT !.runs = @ + 1]
  <2>1. f[t] \in Records /\ f[t].attempt \in Attempts
    BY DEF Queues, Records
  <2>2. f[t].attempt.runs + 1 \in Nat
    BY <2>1 DEF Attempts
  <2>3. a \in Attempts /\ a.batch = f[t].attempt.batch
    BY <2>1, <2>2, Zenon DEF Attempts
  <2>4. counted(t) = [f[t] EXCEPT !.attempt = a]
    OBVIOUS
  <2> HIDE DEF a
  <2> QED
    BY <2>1, <2>3, <2>4 DEF Records
<1>4. \A t \in Tasks : f[t] \in Records
  BY DEF Queues
<1>5. Attempted(f, d) \in Queues
  <2>1. \A t \in Tasks : Attempted(f, d)[t] \in Records
    BY <1>1, <1>2, <1>3, <1>4
  <2> QED
    BY <2>1 DEF Attempted, Queues
<1> HIDE DEF opened, counted
<1> QED
  BY <1>1, <1>2, <1>3, <1>5

LEMMA SendingKeeps ==
  ASSUME IInv, pc = "commit", NEW f \in Queues, QueueFollows(task, f),
         \A t \in Tasks : f[t] = task[t] \/ f[t].selected = 0,
         NEW d \in Decisions, d.node # "none",
         d.node \in Workers => d.targets \subseteq Dispatchable(f),
         Sending(f, d), UNCHANGED <<verdict, plan, escalation>>, decision' = NoDecision
  PROVE  IInv' /\ Orderly /\ pc' # "done"
<1>1. PICK e \in Decisions, after \in Escalations, g \in {f, Attempted(f, d)} :
        /\ Sent(f, e, after, g) /\ e.node # "none"
        /\ \/ e = d /\ g = Attempted(f, d)
           \/ e.node = "portfolio" /\ g = f
  <2>1. ToPortfolio \in Decisions /\ ToPortfolio.node = "portfolio"
    BY DecisionSound DEF ToPortfolio, Decision, Sound, Nodes
  <2>2. [reason |-> "cluster", forced |-> {}] \in Escalations
    BY DEF Escalations, Reasons
  <2>3. RequestAfter(task) \in Escalations
    <3>1. [reason |-> "UNFIXABLE_REPLAN", forced |-> {}] \in Escalations
      BY DEF Escalations, Reasons
    <3> QED
      BY <3>1, NobodyType DEF RequestAfter, IInv, TypeInv
  <2>4. CASE NoAction(f, d)
    BY <2>1, <2>2, <2>4 DEF Sending
  <2>5. CASE ~NoAction(f, d)
    BY <2>3, <2>5 DEF Sending
  <2> QED
    BY <2>4, <2>5
<1>2. /\ task' = g /\ active' = e.targets
      /\ pc' = IF e.node \in Workers /\ e.targets = {} THEN "teardown" ELSE e.node
      /\ replay' = [t \in Tasks |-> IF e.node = "update" /\ t \in e.targets /\ MayReplay(f, t)
                                     THEN 0 ELSE replay[t]]
      /\ request' \in {[reason |-> Violation(g), forced |-> {}], after}
  BY <1>1 DEF Sent
<1>3. /\ task' \in Queues
      /\ \A t \in Tasks :
           /\ task'[t].status = f[t].status
           /\ \/ task'[t].attempt.batch = f[t].attempt.batch
              \/ /\ e = d /\ d.node \in Workers /\ t \in d.targets /\ Authorised(f, t)
                 /\ task'[t].attempt.batch = d.targets
  BY <1>1, <1>2, AttemptedOpens
<1>4. /\ TypeInv /\ task \in Queues /\ HandedOverEnded
      /\ \A t \in Tasks : Follows(task[t], f[t])
  BY DEF IInv, TypeInv, QueueFollows
<1>5. ASSUME NEW u \in Updates
      PROVE  HasChild(task, u) <=> HasChild(task', u)
  <2>1. Follows(task[Child[u]], f[Child[u]])
    BY <1>4, UpdatesAreTasks
  <2> QED
    BY <1>3, <2>1, UpdatesAreTasks DEF HasChild, Queue, Follows
<1>6. HandedOverEnded'
  BY <1>3, <1>4, <1>5, UpdatesAreTasks DEF HandedOverEnded, Follows
<1>7. EndsStay
  BY <1>3, <1>4 DEF EndsStay, Follows
<1>8. KeepsChildren
  BY <1>3, <1>4, <1>5, UpdatesAreTasks DEF KeepsChildren, PivotedHasChild, Follows
<1>9. OpensUntried
  <2> SUFFICES ASSUME NEW t \in Updates, ~IsOpen(task, t), IsOpen(task', t)
               PROVE  task[t].selected \notin task[t].tried \/ task[t].selected = replay[t]
    BY DEF OpensUntried
  <2>1. t \in Tasks /\ ~IsOpen(f, t)
    BY <1>4, UpdatesAreTasks DEF Follows, IsOpen
  <2>2. Authorised(f, t)
    BY <1>3, <2>1 DEF IsOpen
  <2>3. /\ f[t].selected # 0
        /\ f[t].selected \notin f[t].tried \/ f[t].selected = replay[t]
    BY <2>2 DEF Authorised, MayReplay
  <2> QED
    BY <2>1, <2>3
<1>10. e.node \in Workers => e = d
  BY <1>1 DEF Workers
<1>11. WorkerTargets'
  <2> SUFFICES ASSUME e.node \in Workers, e.targets # {}
               PROVE  /\ active' # {} /\ active' \subseteq Work(task')
                      /\ \A t \in active' : /\ ~HasChild(task', t)
                                            /\ IsOpen(task', t) => task'[t].attempt.batch = active'
    BY <1>2 DEF WorkerTargets, Workers
  <2>1. e = d /\ d.targets \subseteq Dispatchable(f) /\ active' = d.targets
    BY <1>2, <1>10
  <2>2. \A t \in d.targets : t \in Work(task') /\ ~IsOpen(f, t)
    BY <1>3, <2>1 DEF Dispatchable, Work
  <2>3. \A t \in d.targets : ~HasChild(task', t)
    BY <1>6, <2>2 DEF HandedOverEnded, HasChild, Work, Workable, Terminal
  <2>4. \A t \in d.targets : IsOpen(task', t) => task'[t].attempt.batch = d.targets
    BY <1>3, <2>2 DEF IsOpen, Work
  <2> QED
    BY <2>1, <2>2, <2>3, <2>4
<1>12. pc' \in Stops /\ pc' \notin {"route", "apply", "commit", "done"} /\ active' \in SUBSET Tasks
  BY <1>1, <1>2 DEF Decisions, Nodes, Stops, Workers
<1>13. replay' \in [Tasks -> Nat] /\ request' \in Escalations
  BY <1>1, <1>2, <1>4, ViolationType DEF TypeInv, Escalations
<1>14. TypeInv'
  BY <1>3, <1>4, <1>12, <1>13, NoDecisionSound DEF TypeInv, Sound
<1>15. Enters
  <2> SUFFICES ASSUME NEW t \in Tasks
               PROVE  task'[t].status = "unspawned" <=> task[t].status = "unspawned"
    BY DEF Enters
  <2> QED
    BY <1>3, <1>4 DEF Follows
<1> QED
  BY <1>6, <1>7, <1>8, <1>9, <1>11, <1>12, <1>14, <1>15 DEF IInv, DecisionIsReady, Orderly

LEMMA CommitDispatchKeeps ==
  ASSUME IInv, CommitDispatch
  PROVE  IInv' /\ Orderly /\ pc' # "done"
<1> DEFINE d == AfterBarrier(task, AfterReplan(task, decision))
           spent == QaSpent(task, d)
           f == SetStatus(task, spent, "inconclusive")
           r == Normalised(f, Route(f))
           left == [d EXCEPT !.targets = @ \ spent]
<1>1. /\ pc = "commit" /\ Limiting(d, spent)
      /\ decision' = NoDecision /\ UNCHANGED <<verdict, plan, escalation>>
  BY DEF CommitDispatch
<1>2. /\ TypeInv /\ task \in Queues /\ active \in SUBSET Tasks
      /\ decision \in Decisions /\ decision.node # "none"
      /\ decision.node \in Workers => decision.targets \subseteq Dispatchable(task)
  BY <1>1 DEF IInv, TypeInv, DecisionIsReady
<1>3. d \in Decisions /\ d.node # "none" /\ (d.node \in Workers => d = decision)
  BY <1>2, BarrierType
<1>4. d.node # "qa" => spent = {}
  BY DEF QaSpent
<1>5. Limiting(d, spent) => Sending(f, r) \/ Sending(f, left)
  BY DEF Limiting
<1> HIDE DEF d, spent
<1>6. QueueFollows(task, f) /\ f \in Queues
  BY <1>2, SetStatusFollows DEF Statuses, Terminal, QueueFollows
<1>7. ASSUME NEW t \in Tasks
      PROVE  f[t] = task[t] \/ f[t].selected = 0
  <2> DEFINE n == [task[t] EXCEPT !.status = "inconclusive"]
  <2>1. f[t] = IF t \in spent THEN Commit(task[t], n) ELSE task[t]
    BY DEF SetStatus, Committed
  <2>2. n \in Records /\ n.status = "inconclusive"
    BY <1>2 DEF Queues, Records, Statuses, Terminal
  <2> HIDE DEF n
  <2> QED
    BY <2>1, <2>2, DropType DEF Commit, Terminal
<1>8. CASE Sending(f, r)
  <2>1. Route(f) \in Decisions /\ Route(f).node # "none"
    BY <1>2, <1>6, RouteSound DEF Sound
  <2>2. /\ r \in Decisions /\ r.node # "none"
        /\ r.node \in Workers => r.targets \subseteq Dispatchable(f)
    BY <2>1, NormalisedType, AllowedType
  <2> HIDE DEF f, r
  <2> QED
    BY <1>1, <1>6, <1>7, <1>8, <2>2, SendingKeeps
<1>9. CASE Sending(f, left)
  <2>1. left \in Decisions /\ left.node = d.node /\ left.targets = d.targets \ spent
    BY <1>3 DEF Decisions
  <2>2. left.node \in Workers => left.targets \subseteq Dispatchable(f)
    <3> SUFFICES ASSUME d.node \in Workers
                 PROVE  left.targets \subseteq Dispatchable(f)
      BY <2>1
    <3>1. spent = {} /\ d = decision
      BY <1>3, <1>4 DEF Workers
    <3>2. f = task
      BY <1>2, <3>1 DEF SetStatus, Committed, Queues
    <3> QED
      BY <1>2, <2>1, <3>1, <3>2
  <2>3. left.node # "none"
    BY <1>3, <2>1
  <2> HIDE DEF f, left
  <2> QED
    BY <1>1, <1>6, <1>7, <1>9, <2>1, <2>2, <2>3, SendingKeeps
<1> QED
  BY <1>1, <1>5, <1>8, <1>9

-----------------------------------------------------------------------------
(* The other nodes. *)

LEMMA WorkerAbandonsKeeps ==
  ASSUME IInv, WorkerAbandons
  PROVE  IInv' /\ Orderly
<1> USE DEF WorkerAbandons, portfolio
<1>1. task' \in Queues /\ HandedOverEnded' /\ Orderly
  BY StayingKeeps DEF IInv, TypeInv
<1>2. TypeInv'
  BY <1>1 DEF IInv, TypeInv, Stops
<1> QED
  BY <1>1, <1>2 DEF IInv, DecisionIsReady, WorkerTargets, Workers

\* An envelope does not change what its task is.
LEMMA EnvelopeFollows ==
  ASSUME task \in Queues, NEW S,
         NEW h, \A t \in S \cap Tasks : /\ h[t] \in Records /\ h[t].status = task[t].status
                                        /\ h[t].attempt.batch = task[t].attempt.batch,
         task' = [t \in Tasks |-> IF t \in S THEN h[t] ELSE task[t]]
  PROVE  QueueFollows(task, task')
<1>1. ASSUME NEW t \in Tasks
      PROVE  Follows(task[t], task'[t])
  <2>1. task[t] \in Records
    BY DEF Queues
  <2> QED
    BY <2>1 DEF Follows
<1>2. task' \in Queues
  BY <1>1 DEF Queues, Follows
<1> QED
  BY <1>1, <1>2 DEF QueueFollows

LEMMA WorkerAnswersKeeps ==
  ASSUME IInv, WorkerAnswers
  PROVE  IInv' /\ Orderly
<1>1. /\ pc \in Workers /\ pc' = "supervisor"
      /\ UNCHANGED <<active, verdict, replay, qaDone, decision, plan, escalation, request>>
  BY DEF WorkerAnswers, portfolio
<1>2. PICK answer \in [active -> Outcomes] :
        task' = [t \in Tasks |-> IF t \in active THEN [task[t] EXCEPT !.attempt.answer = answer[t]] ELSE task[t]]
  BY DEF WorkerAnswers
<1> DEFINE h == [t \in Tasks |-> [task[t] EXCEPT !.attempt.answer = answer[t]]]
<1>3. ASSUME NEW t \in active \cap Tasks
      PROVE  /\ h[t] \in Records /\ h[t].status = task[t].status
             /\ h[t].attempt.batch = task[t].attempt.batch
  <2>1. task[t] \in Records /\ answer[t] \in Outcomes
    BY DEF IInv, TypeInv, Queues
  <2> QED
    BY <2>1 DEF Records, Attempts
<1>4. task' = [t \in Tasks |-> IF t \in active THEN h[t] ELSE task[t]]
  BY <1>2
<1> HIDE DEF h
<1>5. QueueFollows(task, task')
  BY <1>3, <1>4, EnvelopeFollows DEF IInv, TypeInv
<1>6. task' \in Queues /\ HandedOverEnded' /\ Orderly
  BY <1>5, FollowingKeeps DEF IInv, TypeInv
<1>7. TypeInv'
  BY <1>1, <1>6 DEF IInv, TypeInv, Stops
<1> QED
  BY <1>1, <1>6, <1>7 DEF IInv, DecisionIsReady, WorkerTargets, Workers

LEMMA QaAbandonsKeeps ==
  ASSUME IInv, QaAbandons
  PROVE  IInv' /\ Orderly
<1> USE DEF QaAbandons, portfolio
<1>1. task' \in Queues /\ HandedOverEnded' /\ Orderly
  BY StayingKeeps DEF IInv, TypeInv
<1>2. TypeInv'
  BY <1>1 DEF IInv, TypeInv, Stops
<1> QED
  BY <1>1, <1>2 DEF IInv, DecisionIsReady, WorkerTargets, Workers

LEMMA QaAnswersKeeps ==
  ASSUME IInv, QaAnswers
  PROVE  IInv' /\ Orderly
<1>1. /\ pc = "qa" /\ pc' = "supervisor"
      /\ UNCHANGED <<active, replay, decision, request>>
  BY DEF QaAnswers
<1>2. PICK v \in [active -> Verdicts], blamed \in SUBSET active :
        /\ verdict' = [t \in Tasks |-> IF t \in active THEN v[t] ELSE "none"]
        /\ task' = [t \in Tasks |-> IF t \in active THEN [task[t] EXCEPT !.attempt.verdict = v[t]] ELSE task[t]]
        /\ escalation' = IF blamed = {} THEN escalation ELSE [reason |-> "DELTA", forced |-> blamed]
        /\ plan' = IF blamed = {} THEN plan ELSE NoPlan
  BY DEF QaAnswers
<1> DEFINE h == [t \in Tasks |-> [task[t] EXCEPT !.attempt.verdict = v[t]]]
<1>3. ASSUME NEW t \in active \cap Tasks
      PROVE  /\ h[t] \in Records /\ h[t].status = task[t].status
             /\ h[t].attempt.batch = task[t].attempt.batch
  <2>1. task[t] \in Records /\ v[t] \in Verdicts
    BY DEF IInv, TypeInv, Queues
  <2> QED
    BY <2>1 DEF Records, Attempts
<1>4. task' = [t \in Tasks |-> IF t \in active THEN h[t] ELSE task[t]]
  BY <1>2
<1> HIDE DEF h
<1>5. QueueFollows(task, task')
  BY <1>3, <1>4, EnvelopeFollows DEF IInv, TypeInv
<1>6. task' \in Queues /\ HandedOverEnded' /\ Orderly
  BY <1>5, FollowingKeeps DEF IInv, TypeInv
<1>7. [reason |-> "DELTA", forced |-> blamed] \in Escalations /\ NoPlan.members \in SUBSET Tasks
  BY DEF IInv, TypeInv, Escalations, Reasons, NoPlan
<1>8. verdict' \in [Tasks -> {"none"} \cup Verdicts]
  BY <1>2
<1>9. escalation' \in Escalations /\ plan'.members \in SUBSET Tasks
  BY <1>2, <1>7 DEF IInv, TypeInv
<1>10. TypeInv'
  BY <1>1, <1>6, <1>8, <1>9 DEF IInv, TypeInv, Stops
<1> QED
  BY <1>1, <1>6, <1>10 DEF IInv, DecisionIsReady, WorkerTargets, Workers

LEMMA TeardownKeeps ==
  ASSUME IInv, Teardown
  PROVE  IInv' /\ Orderly
<1>1. /\ pc = "teardown" /\ pc' = "done" /\ active' = {}
      /\ UNCHANGED <<verdict, replay, decision, plan, escalation, request>>
      /\ task' = [t \in Tasks |-> IF HasChild(task, t) THEN Drop([task[t] EXCEPT !.status = "pivoted"])
                                  ELSE task[t]]
  BY DEF Teardown, portfolio
<1>2. TypeInv /\ HandedOverEnded /\ task \in Queues
  BY DEF IInv, TypeInv
<1>3. ASSUME NEW t \in Tasks
      PROVE  \/ /\ HasChild(task, t) /\ task'[t] \in Records
                /\ task'[t].status = "pivoted" /\ task'[t].attempt.batch = {}
             \/ ~HasChild(task, t) /\ task'[t] = task[t] /\ task'[t] \in Records
  <2> DEFINE n == [task[t] EXCEPT !.status = "pivoted"]
  <2>1. task[t] \in Records
    BY <1>2 DEF Queues
  <2>2. n \in Records /\ n.status = "pivoted"
    BY <2>1 DEF Records, Statuses, Terminal
  <2>3. task'[t] = IF HasChild(task, t) THEN Drop(n) ELSE task[t]
    BY <1>1
  <2> HIDE DEF n
  <2> QED
    BY <2>1, <2>2, <2>3, DropType
<1>4. task' \in Queues
  BY <1>1, <1>3 DEF Queues
\* A child is not a parent.
<1>5. ASSUME NEW u \in Updates
      PROVE  HasChild(task, u) <=> HasChild(task', u)
  <2>1. ~HasChild(task, Child[u])
    BY UpdatesAreTasks DEF HasChild
  <2> QED
    BY <1>3, <2>1, UpdatesAreTasks DEF HasChild, Queue
<1>6. HandedOverEnded'
  BY <1>3, <1>5, UpdatesAreTasks DEF HandedOverEnded, Terminal
<1>7. EndsStay
  BY <1>1 DEF EndsStay
<1>8. OpensUntried
  BY <1>3, UpdatesAreTasks DEF OpensUntried, IsOpen
<1>9. KeepsChildren
  BY <1>3, <1>5, UpdatesAreTasks DEF KeepsChildren, PivotedHasChild
<1>10. TypeInv'
  BY <1>1, <1>2, <1>4 DEF TypeInv, Stops
<1>11. Enters
  <2>1. \A t \in Tasks : HasChild(task, t) => task[t].status # "unspawned"
    BY <1>2 DEF HandedOverEnded, HasChild, Terminal
  <2> QED
    BY <1>3, <2>1 DEF Enters
<1> QED
  BY <1>1, <1>6, <1>7, <1>8, <1>9, <1>10, <1>11 DEF IInv, DecisionIsReady, WorkerTargets, Workers, Orderly

-----------------------------------------------------------------------------
(* The theorems. *)

LEMMA StepKeeps ==
  ASSUME IInv, Next
  PROVE  IInv' /\ Orderly
<1>1. CASE Supervisor
  BY <1>1, PlansFirstKeeps, ReconcileKeeps, PlanKeeps, GuardKeeps, ApplyKeeps, CrashKeeps, CommitDispatchKeeps
     DEF Supervisor
<1>2. CASE PortfolioTool
  BY <1>2, PortfolioGivesUpKeeps, SolverFailsKeeps, PortfolioDefersKeeps, PortfolioCommitsKeeps
     DEF PortfolioTool
<1>3. CASE Ended
  <2>1. UNCHANGED vars
    BY <1>3 DEF Ended
  <2>2. Orderly
    BY <2>1, StayingKeeps DEF vars, IInv, TypeInv
  <2> QED
    BY <2>1, <2>2 DEF vars, portfolio, IInv, TypeInv, HandedOverEnded, DecisionIsReady, WorkerTargets
<1> QED
  BY <1>1, <1>2, <1>3, TeardownKeeps, WorkerAbandonsKeeps, WorkerAnswersKeeps, QaAbandonsKeeps, QaAnswersKeeps
     DEF Next

LEMMA StutterKeeps ==
  ASSUME IInv, UNCHANGED vars
  PROVE  IInv' /\ Orderly
<1>1. Orderly
  BY StayingKeeps DEF vars, IInv, TypeInv
<1> QED
  BY <1>1 DEF vars, portfolio, IInv, TypeInv, HandedOverEnded, DecisionIsReady, WorkerTargets

LEMMA InitIInv ==
  ASSUME Init
  PROVE  IInv /\ PivotedHasChild
<1> USE DEF Init
<1>1. {"unspawned", "pending"} \subseteq Statuses /\ {"none", "package_removal"} \subseteq Stages
  BY DEF Statuses, Stages, Workable
<1>2. \A t \in Tasks : task[t] \in Records /\ task[t].status \in {"unspawned", "pending"}
  BY <1>1, NewTaskType
<1>3. task \in Queues
  BY <1>2 DEF Queues
<1>4. \A u \in Updates : ~HasChild(task, u)
  <2>1. \A u \in Updates : Child[u] \in Children /\ Child[u] \in Tasks /\ Child[u] \notin NoFixes
    BY UpdatesAreTasks, TaskAssumption DEF Children
  <2>2. ASSUME NEW u \in Updates
        PROVE  task[Child[u]].status = "unspawned"
    <3>1. task[Child[u]] = NewTask("unspawned", "none")
      BY <2>1
    <3> QED
      BY <3>1, <1>1, NewTaskType
  <2> QED
    BY <2>2 DEF HasChild, Queue
<1>5. TypeInv
  BY <1>3, NobodyType, NoDecisionSound DEF TypeInv, Stops, NoPlan, Sound
<1> QED
  BY <1>2, <1>4, <1>5, UpdatesAreTasks
     DEF IInv, HandedOverEnded, DecisionIsReady, WorkerTargets, Workers, PivotedHasChild

\* The queue is well typed, what was handed over has ended, a pending dispatch holds only
\* tasks that are ready for its node, and a worker has work that is open.
THEOREM Invariance == Spec => []IInv
<1>1. Init => IInv
  BY InitIInv
<1>2. IInv /\ [Next]_vars => IInv'
  BY StepKeeps, StutterKeeps
<1> QED
  BY <1>1, <1>2, PTL DEF Spec

\* Every task, dispatch, decision and escalation is well formed, whatever the workers and QA
\* answer and whatever goes wrong.
THEOREM QueueTypes == Spec => []TypeOK
<1>1. IInv => TypeOK
  <2> SUFFICES ASSUME IInv PROVE TypeOK
    OBVIOUS
  <2>1. TypeInv
    BY DEF IInv
  <2>2. ASSUME NEW t \in Tasks
        PROVE  /\ DOMAIN task[t] = DOMAIN NewTask("pending", "none")
               /\ task[t].status \in Statuses /\ task[t].stage \in Stages
               /\ task[t].retries \in Nat /\ task[t].selected \in Nat /\ task[t].tried \subseteq Nat
               /\ task[t].attempt \in [batch : {task[t].attempt.batch}, answer : {"none"} \cup Outcomes,
                                       heard : BOOLEAN, verdict : {"none"} \cup Verdicts, read : BOOLEAN,
                                       runs : {task[t].attempt.runs}, reruns : {task[t].attempt.reruns}]
    <3>1. task[t] \in Records
      BY <2>1 DEF TypeInv, Queues
    <3>2. task[t].attempt \in Attempts
      BY <3>1 DEF Records
    <3>3. task[t].attempt \in [batch : {task[t].attempt.batch}, answer : {"none"} \cup Outcomes,
                               heard : BOOLEAN, verdict : {"none"} \cup Verdicts, read : BOOLEAN,
                               runs : {task[t].attempt.runs}, reruns : {task[t].attempt.reruns}]
      BY <3>2 DEF Attempts
    <3>4. DOMAIN task[t] = DOMAIN NewTask("pending", "none")
      BY <3>1 DEF Records, NewTask
    <3> QED
      BY <3>1, <3>3, <3>4 DEF Records
  <2> QED
    BY <2>1, <2>2 DEF TypeInv, TypeOK, Decisions, Escalations
<1> QED
  BY <1>1, Invariance, PTL

\* A worker is only ever sent work that is still open, and as one batch.
THEOREM WorkersGetOpenWork == Spec => []WorkerTargets
<1>1. IInv => WorkerTargets
  BY DEF IInv
<1> QED
  BY <1>1, Invariance, PTL

\* Until the teardown, what has ended stays as it ended: no late answer, verdict, replan
\* or fallback reopens or relabels it. And no path to a dispatch, not the fallback and
\* fail-closed ones either, repeats a version that was tried, unless delta isolation lets a
\* peer repeat it.
THEOREM DoneWorkStaysDone == Spec => DoneStaysDone
<1>1. IInv /\ [Next]_vars =>
        [\A t \in Tasks : task[t].status \in Terminal /\ pc # "teardown" => task'[t].status = task[t].status]_vars
  BY StepKeeps DEF Orderly, EndsStay
<1>2. IInv /\ [Next]_vars =>
        [\A t \in Updates : ~IsOpen(task, t) /\ IsOpen(task', t) =>
           task[t].selected \notin task[t].tried \/ task[t].selected = replay[t]]_vars
  BY StepKeeps DEF Orderly, OpensUntried
<1> QED
  BY <1>1, <1>2, Invariance, PTL DEF Spec, DoneStaysDone, TerminalStays, NoVersionTwice

\* A superseded update has the child that superseded it, if the queue has room for all tasks.
THEOREM SupersededHasChild ==
  ASSUME Cardinality(Tasks) <= QueueCap
  PROVE  Spec => []PivotedHasChild
<1>1. Init => PivotedHasChild
  BY InitIInv
<1>2. IInv /\ [Next]_vars /\ PivotedHasChild => PivotedHasChild'
  BY StepKeeps, StutterKeeps DEF Orderly, KeepsChildren
<1> QED
  BY <1>1, <1>2, Invariance, PTL DEF Spec
=============================================================================
