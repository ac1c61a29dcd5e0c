------------------------- MODULE RunLifecycle_proofs -------------------------
(***************************************************************************)
(* For every set of groups and inputs, every setting of a run and every    *)
(* bound on replans, triage and cleanups: no volume of a run is lost, the  *)
(* ledger of accepted scans holds no stale evidence, and a run that is     *)
(* called completed has left nothing open.                                 *)
(***************************************************************************)
EXTENDS RunLifecycle, TLAPS

-----------------------------------------------------------------------------
(* The volumes. *)

Nodes == Graph \cup {"emergency", "done"}
Working == Graph \ {"teardown", "report"}

\* What the recorder holds is what exists; the state names all of it except
\* while the workspace is being built and after a node has raised.
VolumesInv ==
  /\ node \in Nodes
  /\ docker \subseteq Volumes /\ known \subseteq Volumes
  /\ noted = docker /\ todo \subseteq docker
  /\ node \notin {"install", "emergency"} => docker \subseteq known
  /\ node \in Working => known \subseteq docker
  /\ node \in {"initial_triage", "workspace_builder"} => docker = {}
  /\ tries \in 0 .. Cleanups - 1
  /\ errors \in BOOLEAN

\* A teardown that met no error has removed all it does not still have to remove.
TeardownRemoves == node = "teardown" /\ ~errors => docker \subseteq todo

-----------------------------------------------------------------------------
(* The ledger. *)

Statuses == {"none", "PENDING", "QA_PASSED", "UNFIXABLE"}
TaskRecord == [status : Statuses, rev : Nat]
ScanRecord == [complete : BOOLEAN, found : SUBSET Groups, left : SUBSET Groups, rev : Nat]
InputRecord == [complete : BOOLEAN, found : SUBSET Groups, tasks : SUBSET Groups]
SetupRecord == [state : {"none", "complete", "incomplete"}, paths : SUBSET Inputs,
                found : SUBSET Groups]
FinalRecord == [scope : {"none", "incremental", "full"}, done : BOOLEAN, new : SUBSET Groups,
                left : SUBSET Groups, triage : BOOLEAN]
VerdictRecord == [kind : {"none", "passed", "failed"},
                  evidence : {"complete", "skipped", "incomplete", "none"},
                  paths : SUBSET Inputs, found : SUBSET Groups, left : SUBSET Groups]

\* The tasks, their records and the volumes' bookkeeping aside, what a state holds.
LedgerTypes ==
  /\ mode \in Modes /\ groups \subseteq Groups /\ seen \subseteq Groups
  /\ task \in [Groups -> TaskRecord]
  /\ record \in [Groups -> ScanRecord]
  /\ input \in [Inputs -> InputRecord]
  /\ setup \in SetupRecord /\ final \in FinalRecord /\ verdict \in VerdictRecord
  /\ replans \in 0 .. MaxReplans /\ rounds \in 0 .. Limit

\* A task is planned for a known group, and a batch is made of tasks.
TasksArePlanned ==
  /\ \A g \in Groups : task[g].status = "none" => task[g] = NoTask
  /\ Tasks(task) \subseteq groups /\ active \subseteq Tasks(task)
  /\ node = "initial_triage" => Tasks(task) = {}

\* A batch that is judged, or whose verdict is yet to be read, is at work.
Judging ==
  /\ node = "qa_critic" \/ verdict.kind # "none" =>
       active # {} /\ \A g \in active : task[g].status = "PENDING"
  /\ verdict.kind # "none" => node = "supervisor" /\ status \in {"qa_completed", "update_failed"}

LedgerInv == LedgerTypes /\ TasksArePlanned /\ Judging /\ EvidenceIsCurrent

-----------------------------------------------------------------------------
(* A completed run. *)

Unplanned == {"workspace_ready", "triage_completed"}

\* The first plan is committed by the Supervisor, whose first status is the one
\* the installation left.
FirstPlan ==
  /\ node \in {"initial_triage", "workspace_builder", "install", "workspace_setup_scan"} => ~plan
  /\ status = "workspace_ready" => ~plan
  /\ node = "workspace_setup_scan" => status = "workspace_ready"

\* Once planned every known group has a task, and a run without groups or with a
\* result is all that teardown meets when no error was recorded.
TasksFollowGroups ==
  /\ \/ node \in {"qa_critic", "triage", "final_full_scan"}
     \/ node = "supervisor" /\ status \notin Unplanned
     \/ node = "teardown" /\ ~errors
     => Tasks(task) = groups
  /\ node = "teardown" /\ ~errors /\ groups # {} => final.scope # "none"
  /\ status = "completed" => node \in {"report", "done"}

\* The result that counts holds what the ledger knows.
ResultIsCurrent ==
  final.scope = "incremental" =>
    /\ \A i \in Inputs : input[i].found \ Baseline \subseteq final.new
    /\ Leftover(task, record) \subseteq final.left
    /\ final.done => \A g \in Groups : evid[g]

OutcomeInv == FirstPlan /\ TasksFollowGroups /\ ResultIsCurrent /\ CompletedIsClean
RunInv == VolumesInv /\ TeardownRemoves /\ LedgerInv /\ OutcomeInv

-----------------------------------------------------------------------------
(* The volumes: proofs. *)

LEMMA Bounds ==
  /\ MaxReplans \in Nat /\ MaxReplans > 0
  /\ Limit \in Nat /\ Limit > 0
  /\ Cleanups \in Nat /\ Cleanups > 0
  BY RunAssumption

\* Before anything runs, nothing has been created.
LEMMA VolumesStart == Init => VolumesInv /\ TeardownRemoves
PROOF
  <1> SUFFICES ASSUME Init PROVE VolumesInv /\ TeardownRemoves
    OBVIOUS
  <1>1. tries \in 0 .. Cleanups - 1
    BY Bounds DEF Init
  <1>2. errors \in BOOLEAN
    BY DEF Init
  <1>3. node = "initial_triage" /\ docker = {} /\ known = {} /\ noted = {} /\ todo = {}
    BY DEF Init
  <1> QED BY <1>1, <1>2, <1>3 DEF VolumesInv, TeardownRemoves, Nodes, Graph, Working

\* Every step keeps what the recorder and the state know of the volumes.
LEMMA VolumesStep ==
  ASSUME VolumesInv, TeardownRemoves, [Next]_vars
  PROVE  (VolumesInv /\ TeardownRemoves)'
PROOF
  <1> USE Bounds DEF VolumesInv, TeardownRemoves, Nodes, Graph, Working
  <1>1. CASE InitialTriage
    BY <1>1 DEF InitialTriage, Goto
  <1>2. CASE BuildRefused
    BY <1>2 DEF BuildRefused, Goto, volumes
  <1>3. CASE CreateVolumes
    <2>1. errors' \in BOOLEAN
      BY <1>3 DEF CreateVolumes, Goto
    <2>2. PICK made \in SUBSET Volumes :
            /\ docker' = made /\ noted' = made /\ UNCHANGED tries
            /\ \/ node' = "install" /\ UNCHANGED <<known, todo>>
               \/ node' = "teardown" /\ known' = made /\ todo' = made
      BY <1>3 DEF CreateVolumes, Goto, Volumes
    <2>3. docker = {} /\ known \subseteq docker /\ todo \subseteq docker
      BY <1>3 DEF CreateVolumes
    <2> QED BY <2>1, <2>2, <2>3
  <1>4. CASE Install
    BY <1>4 DEF Install, Goto
  <1>5. CASE SetupScan
    <2>1. errors' \in BOOLEAN
      BY <1>5 DEF SetupScan, SetupSkipped, SetupUnreadable, SetupScanNpm, SetupScanMaven, SetupScanned
    <2> QED BY <1>5, <2>1 DEF SetupScan, volumes
  <1>6. CASE ReplanGuarded
    BY <1>6 DEF ReplanGuarded, Leave, Goto, PlanningDue
  <1>7. CASE PlanningFails
    BY <1>7 DEF PlanningFails, Leave, Goto, PlanningDue
  <1>8. CASE PlanningCommits
    BY <1>8 DEF PlanningCommits, Goto, PlanningDue, volumes
  <1>9. CASE BatchPasses
    BY <1>9 DEF BatchPasses, Goto, volumes
  <1>10. CASE BatchFails
    BY <1>10 DEF BatchFails, Goto, volumes
  <1>11. CASE NoGroups
    BY <1>11 DEF NoGroups, Goto
  <1>12. CASE Decide
    <2>1. /\ node = "supervisor" /\ UNCHANGED <<errors, docker, known, noted, tries>>
          /\ \/ node' \in {"qa_critic", "final_full_scan", "triage"} /\ UNCHANGED todo
             \/ node' = "teardown" /\ todo' = known
      BY <1>12 DEF Decide
    <2> QED BY <2>1
  <1>13. CASE FinalFullScan
    BY <1>13 DEF FinalFullScan, Goto, volumes
  <1>14. CASE RetriageLimited
    BY <1>14 DEF RetriageLimited, Leave, Goto
  <1>15. CASE TriageFails
    BY <1>15 DEF TriageFails, Leave, Goto
  <1>16. CASE Retriage
    BY <1>16 DEF Retriage, Goto, volumes
  <1>17. CASE CleanUp
    <2>1. PICK v \in todo : Removed(v) \/ Conflict(v) \/ Refused(v)
      BY <1>17 DEF CleanUp
    <2>2. tries' \in 0 .. Cleanups - 1
      BY <2>1 DEF Removed, Conflict, Refused, GivesUp
    <2>3. errors' \in BOOLEAN /\ (~errors' => ~errors)
      BY <2>1 DEF Removed, Conflict, Refused
    <2>4. /\ UNCHANGED <<node, known>> /\ node \in {"teardown", "emergency"}
          /\ docker' \subseteq docker /\ noted' = docker' /\ todo' \subseteq docker'
      BY <1>17, <2>1 DEF CleanUp, Removed, Conflict, Refused
    <2>5. TeardownRemoves'
      BY <2>1, <2>4 DEF Removed, Conflict, Refused
    <2> QED BY <2>2, <2>3, <2>4, <2>5
  <1>18. CASE Teardown
    BY <1>18 DEF Teardown, Goto, StillThere
  <1>19. CASE Report
    BY <1>19 DEF Report, volumes
  <1>20. CASE EmergencyEnds
    BY <1>20 DEF EmergencyEnds, Emergency, Goto
  <1>21. CASE Raise
    <2>1. tries' = 0
      BY <1>21 DEF Raise
    <2>3. errors' \in BOOLEAN
      BY <1>21 DEF Raise
    <2>2. node' = "emergency" /\ todo' = noted /\ known' = {} /\ UNCHANGED <<docker, noted>>
      BY <1>21 DEF Raise
    <2> QED BY <2>1, <2>2, <2>3
  <1>22. CASE UNCHANGED vars
    BY <1>22 DEF vars, volumes
  <1> QED
    BY <1>1, <1>2, <1>3, <1>4, <1>5, <1>6, <1>7, <1>8, <1>9, <1>10, <1>11, <1>12, <1>13, <1>14,
       <1>15, <1>16, <1>17, <1>18, <1>19, <1>20, <1>21, <1>22 DEF Next, Advance, Done

\* However the run ends, in whichever node it raises or is interrupted, a volume it
\* created and could not remove is named in the state it ends with.
THEOREM VolumesAreNamed == Spec => []NothingLeaks
PROOF
  <1>1. VolumesInv => NothingLeaks
    BY DEF VolumesInv, NothingLeaks
  <1> QED BY VolumesStart, VolumesStep, <1>1, PTL DEF Spec

-----------------------------------------------------------------------------
(* The ledger: proofs. *)

LEMMA BlankRecords ==
  /\ NoTask \in TaskRecord /\ Fresh \in TaskRecord /\ NoRecord \in ScanRecord
  /\ NoInput \in InputRecord /\ NoSetup \in SetupRecord /\ NoFinal \in FinalRecord
  /\ NoVerdict \in VerdictRecord
  BY DEF NoTask, Fresh, NoRecord, NoInput, NoSetup, NoFinal, NoVerdict, TaskRecord, ScanRecord,
         InputRecord, SetupRecord, FinalRecord, VerdictRecord, Statuses

LEMMA BlankIsBlank ==
  ASSUME NEW value, NEW S, value \in S PROVE Blank(value) \in [Groups -> S]
  BY DEF Blank

LEMMA LedgerStart == Init => LedgerInv
PROOF
  <1> SUFFICES ASSUME Init PROVE LedgerInv
    OBVIOUS
  <1>1. task = Blank(NoTask) /\ record = Blank(NoRecord) /\ input = [i \in Inputs |-> NoInput]
    BY DEF Init
  <1>2. Tasks(task) = {}
    BY <1>1 DEF Tasks, Blank, NoTask
  <1>3. LedgerTypes
    <2>1. replans \in 0 .. MaxReplans /\ rounds \in 0 .. Limit
      BY Bounds DEF Init
    <2>2. mode \in Modes /\ groups \subseteq Groups /\ seen \subseteq Groups
      BY RunAssumption DEF Init
    <2>3. setup = NoSetup /\ final = NoFinal /\ verdict = NoVerdict
      BY DEF Init
    <2> QED BY <1>1, <2>1, <2>2, <2>3, BlankRecords, BlankIsBlank DEF LedgerTypes
  <1>4. TasksArePlanned
    BY <1>1, <1>2 DEF Init, TasksArePlanned, Blank
  <1>5. Judging
    BY DEF Init, Judging, NoVerdict
  <1>6. EvidenceIsCurrent
    BY <1>1 DEF EvidenceIsCurrent, Blank, NoRecord, NoInput
  <1> QED BY <1>3, <1>4, <1>5, <1>6 DEF LedgerInv

\* The round of triage that begins is counted up to the limit.
LEMMA RoundBounded ==
  ASSUME rounds \in 0 .. Limit, Round PROVE rounds' \in 0 .. Limit
PROOF
  <1>1. \E x \in {rounds + 1, Limit} : \A y \in {rounds + 1, Limit} : x <= y
    BY Bounds
  <1>2. rounds' \in {rounds + 1, Limit} /\ \A y \in {rounds + 1, Limit} : rounds' <= y
    BY <1>1 DEF Round, Min
  <1> QED BY <1>2, Bounds

\* The metrics count findings of known groups only.
LEMMA CountedWithin ==
  ASSUME NEW t, NEW r \in [Groups -> ScanRecord], NEW i \in [Inputs -> InputRecord],
         NEW s \in SetupRecord
  PROVE  Cumulative(t, r, i, s) \subseteq Groups /\ Leftover(t, r) \subseteq Groups
PROOF
  <1>1. \A g \in Groups : r[g].found \subseteq Groups /\ r[g].left \subseteq Groups
    BY DEF ScanRecord
  <1>2. \A p \in Inputs : i[p].found \subseteq Groups
    BY DEF InputRecord
  <1>3. s.found \subseteq Groups
    BY DEF SetupRecord
  <1>4. Counted(t, r, i) \subseteq Groups /\ Passed(t) \subseteq Groups
    BY DEF Counted, Passed
  <1>5. Leftover(t, r) \subseteq Groups
    <2> DEFINE S == {p \in Passed(t) : r[p].complete}
    <2>1. S \subseteq Groups
      BY <1>4
    <2>2. Leftover(t, r) = UNION {r[g].left : g \in S}
      BY DEF Leftover
    <2>3. ASSUME NEW f \in Leftover(t, r) PROVE f \in Groups
      <3>1. PICK g \in S : f \in r[g].left
        BY <2>2
      <3> QED BY <1>1, <2>1, <3>1
    <2> QED BY <2>2, <2>3
  <1>6. Cumulative(t, r, i, s) \subseteq Groups
    <2> SUFFICES ASSUME NEW f \in Cumulative(t, r, i, s) PROVE f \in Groups
      OBVIOUS
    <2>1. \/ \E g \in Counted(t, r, i) : f \in r[g].found
          \/ \E p \in Inputs : f \in i[p].found
          \/ f \in s.found
      BY DEF Cumulative
    <2> QED BY <1>1, <1>2, <1>3, <1>4, <2>1
  <1> QED BY <1>5, <1>6

\* What the Supervisor reads from a verdict is well-formed and plans no task.
LEMMA ReadingTypes ==
  ASSUME LedgerTypes, TasksArePlanned
  PROVE  /\ Settled \in [Groups -> TaskRecord] /\ Tasks(Settled) = Tasks(task)
         /\ \A g \in Groups : Settled[g].status = "none" => Settled[g] = NoTask
         /\ Recorded(Settled) \in [Groups -> ScanRecord]
         /\ Snapshots \in [Inputs -> InputRecord] /\ Pruned \in SetupRecord
PROOF
  <1> USE DEF LedgerTypes, TasksArePlanned
  <1>1. ASSUME NEW g \in Groups
        PROVE  /\ Settled[g] \in TaskRecord
               /\ Settled[g].status = "none" <=> task[g].status = "none"
               /\ Settled[g].status = "none" => Settled[g] = NoTask
    BY DEF Settled, TaskRecord, Statuses, Tasks
  <1>2. Settled \in [Groups -> TaskRecord]
    BY <1>1 DEF Settled
  <1>3. Tasks(Settled) = Tasks(task)
    BY <1>1 DEF Tasks
  <1>4. Recorded(Settled) \in [Groups -> ScanRecord]
    BY <1>2 DEF Recorded, ScanRecord, VerdictRecord, TaskRecord
  <1>5. Snapshots \in [Inputs -> InputRecord]
    BY DEF Snapshots, InputRecord, VerdictRecord, Tasks
  <1>6. Pruned \in SetupRecord
    <2>1. NoSetup \in SetupRecord
      BY BlankRecords
    <2> QED BY <2>1 DEF Pruned, SetupRecord
  <1> QED BY <1>1, <1>2, <1>3, <1>4, <1>5, <1>6

\* A step of a run that has no verdict to read and touches no task or record.
LEMMA QuietStep ==
  ASSUME LedgerInv, verdict.kind = "none", node' \notin {"qa_critic", "initial_triage"},
         UNCHANGED <<mode, seen, work, record, input, setup, final>>,
         groups \subseteq groups', groups' \subseteq Groups,
         replans' \in 0 .. MaxReplans, rounds' \in 0 .. Limit
  PROVE  LedgerInv'
PROOF
  <1> USE DEF LedgerInv, work
  <1>1. LedgerTypes'
    BY DEF LedgerTypes
  <1>2. TasksArePlanned'
    BY DEF TasksArePlanned, Tasks
  <1>3. Judging'
    BY DEF Judging
  <1>4. EvidenceIsCurrent'
    BY DEF EvidenceIsCurrent, Passed
  <1> QED BY <1>1, <1>2, <1>3, <1>4

\* The planning of a portfolio: its groups get tasks, no verdict is lost.
LEMMA PlanningKeepsLedger ==
  ASSUME LedgerInv, PlanningCommits PROVE LedgerInv'
PROOF
  <1> USE DEF LedgerInv
  <1>1. verdict.kind = "none" /\ node' = "supervisor" /\ active' = {}
        /\ UNCHANGED <<mode, groups, seen, record, input, setup, final, verdict, rounds>>
    BY DEF PlanningCommits, PlanningDue, Judging, Goto, ledger
  <1>2. task' = [g \in Groups |-> IF g \in groups /\ task[g] = NoTask THEN Fresh ELSE task[g]]
    BY DEF PlanningCommits
  <1>3. task' \in [Groups -> TaskRecord]
    BY <1>2, BlankRecords DEF LedgerTypes
  <1>4. replans' \in 0 .. MaxReplans
    BY Bounds DEF PlanningCommits, Exhausted, LedgerTypes
  <1>5. \A g \in Groups : task[g].status # "none" => task'[g] = task[g]
    BY <1>2 DEF NoTask
  <1>6. \A g \in Groups : task'[g].status = "none" => task'[g] = task[g] /\ g \notin groups
    BY <1>2 DEF NoTask, Fresh, LedgerTypes, TasksArePlanned
  <1>7. LedgerTypes'
    BY <1>1, <1>3, <1>4 DEF LedgerTypes
  <1>8. TasksArePlanned'
    BY <1>1, <1>2, <1>6 DEF TasksArePlanned, Tasks, Fresh, NoTask, LedgerTypes
  <1>9. Judging'
    BY <1>1 DEF Judging
  <1>10. EvidenceIsCurrent'
    BY <1>1, <1>5 DEF EvidenceIsCurrent, Passed, LedgerTypes, InputRecord
  <1> QED BY <1>7, <1>8, <1>9, <1>10

\* A verdict is read into the ledger, and open work is dispatched.
LEMMA DecidingKeepsLedger ==
  ASSUME LedgerInv, Decide PROVE LedgerInv'
PROOF
  <1> DEFINE t == Settled
             f == Result(t, Recorded(t), Snapshots, Pruned, Judged)
  <1> USE DEF LedgerInv
  <1>1. /\ task' = t /\ record' = Recorded(t) /\ input' = Snapshots /\ setup' = Pruned
        /\ seen' \in {seen, Cumulative(t, Recorded(t), Snapshots, Pruned)}
        /\ final' \in {f, NoFinal} /\ verdict' = NoVerdict
        /\ UNCHANGED <<mode, groups, replans, rounds>>
    BY DEF Decide
  <1>2. /\ \/ node' = "qa_critic" /\ active' # {}
              /\ active' \subseteq {g \in Tasks(t) : t[g].status \notin Terminal}
           \/ node' # "qa_critic" /\ active' = {}
        /\ node' # "initial_triage"
    <2>1. CASE ~Rested(t)
      <3>1. /\ active' \in (SUBSET {g \in Tasks(t) : t[g].status \notin Terminal}) \ {{}}
            /\ node' = "qa_critic"
        BY <2>1 DEF Decide
      <3>2. active' # {} /\ active' \subseteq {g \in Tasks(t) : t[g].status \notin Terminal}
        BY <3>1
      <3> QED BY <3>1, <3>2
    <2>2. CASE Rested(t)
      <3>1. active' = {} /\ node' \in {"final_full_scan", "triage", "teardown"}
        BY <2>2 DEF Decide
      <3> QED BY <3>1
    <2> QED BY <2>1, <2>2
  <1>3. t \in [Groups -> TaskRecord] /\ Recorded(t) \in [Groups -> ScanRecord]
        /\ Snapshots \in [Inputs -> InputRecord] /\ Pruned \in SetupRecord
        /\ Tasks(t) = Tasks(task)
        /\ \A g \in Groups : t[g].status = "none" => t[g] = NoTask
    BY ReadingTypes
  <1> HIDE DEF t
  <1>4. f \in FinalRecord
    <2>1. Cumulative(t, Recorded(t), Snapshots, Pruned) \ Baseline \subseteq Groups
          /\ Leftover(t, Recorded(t)) \subseteq Groups
      BY <1>3, CountedWithin
    <2> QED BY <2>1 DEF Result, FinalRecord, LedgerTypes, Covered
  <1>5. LedgerTypes'
    BY <1>1, <1>3, <1>4, BlankRecords, CountedWithin DEF LedgerTypes
  <1>6. TasksArePlanned'
    BY <1>1, <1>2, <1>3 DEF TasksArePlanned, Tasks
  <1>7. Judging'
    <2>1. \A g \in active' : g \in Groups /\ t[g].status = "PENDING"
      BY <1>2, <1>3 DEF Tasks, Terminal, TaskRecord, Statuses
    <2> QED BY <1>1, <1>2, <2>1 DEF Judging, NoVerdict
  <1>8. \A g \in Groups : t[g] = task[g] \/ (g \in active /\ task[g].status = "PENDING")
    BY DEF t, Settled, Judging
  <1>9. Accepts => \A g \in active : t[g].status = "QA_PASSED" /\ t[g].rev = task[g].rev
    BY DEF t, Settled, Accepts, LedgerTypes, TaskRecord, TasksArePlanned, Tasks
  <1>10. EvidenceIsCurrent'
    <2>1. ASSUME NEW g \in Groups, Recorded(t)[g].complete
          PROVE  t[g].status = "QA_PASSED" /\ Recorded(t)[g].rev = t[g].rev
      <3>1. CASE Accepts /\ g \in active /\ verdict.evidence \in {"complete", "skipped"}
        BY <3>1, <1>9 DEF Recorded
      <3>2. CASE ~(Accepts /\ g \in active /\ verdict.evidence \in {"complete", "skipped"})
        <4>1. record[g].complete
          BY <2>1, <3>2 DEF Recorded
        <4> QED BY <3>2, <4>1, <1>8 DEF EvidenceIsCurrent, Recorded
      <3> QED BY <3>1, <3>2
    <2>2. ASSUME NEW i \in Inputs, Snapshots[i].complete
          PROVE  Snapshots[i].tasks \subseteq Passed(t)
      <3>1. CASE Scans /\ i \in verdict.paths
        BY <3>1, <1>9 DEF Snapshots, Scans, Passed, TasksArePlanned, Tasks
      <3>2. CASE ~(Scans /\ i \in verdict.paths)
        <4>1. Snapshots[i] = input[i] /\ input[i].tasks \subseteq Passed(task)
          BY <2>2, <3>2 DEF Snapshots, EvidenceIsCurrent
        <4> QED BY <4>1, <1>8 DEF Passed
      <3> QED BY <3>1, <3>2
    <2> QED BY <1>1, <2>1, <2>2 DEF EvidenceIsCurrent
  <1> QED BY <1>5, <1>6, <1>7, <1>10

\* Triage reopens tasks: their records and the snapshots they stand behind go.
LEMMA RetriageKeepsLedger ==
  ASSUME LedgerInv, Retriage PROVE LedgerInv'
PROOF
  <1> USE DEF LedgerInv
  <1>1. /\ node = "triage" /\ node' = "supervisor" /\ Round /\ active' = {}
        /\ UNCHANGED <<mode, verdict, setup, seen, replans>>
    BY DEF Retriage, Goto
  <1>2. PICK candidates \in SUBSET seen, reopened \in SUBSET Passed(task) :
          /\ groups' = groups \cup (candidates \ groups)
          /\ task' = [g \in Groups |-> IF g \in reopened
                        THEN [status |-> "PENDING", rev |-> task[g].rev + 1]
                        ELSE task[g]]
          /\ record' = [g \in Groups |-> LiveRecord(g, reopened)]
          /\ input' = [i \in Inputs |-> IF input[i].tasks \cap reopened # {}
                                        THEN NoInput ELSE input[i]]
          /\ final' \in {NoFinal, final}
    <2>1. ASSUME NEW asked PROVE Reopened(asked) \in SUBSET Passed(task)
      BY DEF Reopened, AcceptedWork, Peers
    <2>2. PICK candidates \in SUBSET seen : \E changed \in SUBSET (candidates \cap groups) :
            LET reopened == Reopened(changed \cup Leftover(task, record)) IN
            /\ groups' = groups \cup (candidates \ groups)
            /\ task' = [g \in Groups |-> IF g \in reopened
                          THEN [status |-> "PENDING", rev |-> task[g].rev + 1]
                          ELSE task[g]]
            /\ record' = [g \in Groups |-> LiveRecord(g, reopened)]
            /\ input' = [i \in Inputs |-> IF input[i].tasks \cap reopened # {}
                                          THEN NoInput ELSE input[i]]
            /\ final' \in {NoFinal, final}
      BY DEF Retriage
    <2> QED BY <2>1, <2>2
  <1>3. \A g \in Groups : /\ g \in reopened => task[g].status = "QA_PASSED" /\ task'[g].status = "PENDING"
                          /\ g \notin reopened => task'[g] = task[g]
    BY <1>2 DEF Passed
  <1>4. Tasks(task') = Tasks(task)
    BY <1>3 DEF Tasks
  <1>5. verdict.kind = "none"
    BY <1>1 DEF Judging
  <1>6. LedgerTypes'
    <2>1. task' \in [Groups -> TaskRecord]
      BY <1>2 DEF LedgerTypes, TaskRecord, Statuses
    <2>2. record' \in [Groups -> ScanRecord]
      BY <1>2, BlankRecords DEF LedgerTypes, LiveRecord
    <2>3. input' \in [Inputs -> InputRecord]
      BY <1>2, BlankRecords DEF LedgerTypes
    <2>4. rounds' \in 0 .. Limit
      BY <1>1, RoundBounded DEF LedgerTypes
    <2> QED BY <1>1, <1>2, <2>1, <2>2, <2>3, <2>4, BlankRecords DEF LedgerTypes
  <1>7. TasksArePlanned'
    BY <1>1, <1>2, <1>3, <1>4 DEF TasksArePlanned
  <1>8. Judging'
    BY <1>1, <1>5 DEF Judging
  <1>9. EvidenceIsCurrent'
    <2>1. \A g \in Groups : record'[g].complete => g \notin reopened /\ record'[g] = record[g]
      BY <1>2 DEF LiveRecord, NoRecord
    <2>2. \A i \in Inputs : input'[i].complete => input[i].tasks \cap reopened = {} /\ input'[i] = input[i]
      BY <1>2 DEF NoInput
    <2> QED BY <1>3, <2>1, <2>2 DEF EvidenceIsCurrent, Passed
  <1> QED BY <1>6, <1>7, <1>8, <1>9

\* A node that raises leaves the state the run began with.
LEMMA RaisingKeepsLedger ==
  ASSUME LedgerInv, Raise PROVE LedgerInv'
PROOF
  <1>1. task' = Blank(NoTask) /\ record' = Blank(NoRecord) /\ input' = [i \in Inputs |-> NoInput]
        /\ setup' = NoSetup /\ final' = NoFinal /\ verdict' = NoVerdict
    BY DEF Raise
  <1>2. /\ node' = "emergency" /\ active' = {} /\ seen' = {} /\ groups' = mode.given
        /\ UNCHANGED mode
    BY DEF Raise
  <1>3. Tasks(task') = {}
    BY <1>1 DEF Tasks, Blank, NoTask
  <1>4. replans' = 0 /\ rounds' = 0
    BY DEF Raise
  <1>5. replans' \in 0 .. MaxReplans /\ rounds' \in 0 .. Limit
    BY <1>4, Bounds
  <1>6. mode' \in Modes /\ groups' \subseteq Groups
    BY <1>2, RunAssumption DEF LedgerInv, LedgerTypes
  <1>7. LedgerTypes'
    BY <1>1, <1>2, <1>5, <1>6, BlankRecords, BlankIsBlank DEF LedgerTypes
  <1>8. TasksArePlanned'
    BY <1>1, <1>2, <1>3 DEF TasksArePlanned, Blank
  <1>9. Judging'
    BY <1>1, <1>2 DEF Judging, NoVerdict
  <1>10. EvidenceIsCurrent'
    BY <1>1 DEF EvidenceIsCurrent, Blank, NoRecord, NoInput
  <1> QED BY <1>7, <1>8, <1>9, <1>10 DEF LedgerInv

\* The worker and QA answer: the verdict waits for the Supervisor.
LEMMA VerdictKeepsLedger ==
  ASSUME LedgerInv, node = "qa_critic", node' = "supervisor",
         status' \in {"qa_completed", "update_failed"}, verdict' \in VerdictRecord,
         UNCHANGED <<mode, groups, seen, task, active, record, input, setup, final, replans, rounds>>
  PROVE  LedgerInv'
  BY DEF LedgerInv, LedgerTypes, TasksArePlanned, Judging, EvidenceIsCurrent, Tasks, Passed

LEMMA VerdictTypes ==
  ASSUME LedgerInv, BatchPasses \/ BatchFails PROVE verdict' \in VerdictRecord
PROOF
  <1>1. CASE BatchPasses
    <2>1. active \subseteq Groups
      BY DEF LedgerInv, TasksArePlanned, Tasks
    <2>2. PICK evidence \in {"complete", "skipped", "incomplete", "none"}, paths \in SUBSET Inputs :
            \E found \in SUBSET In(paths), left \in SUBSET active :
              \/ verdict' = [kind |-> "passed", evidence |-> evidence, paths |-> paths,
                             found |-> found, left |-> left]
              \/ verdict' = [NoVerdict EXCEPT !.kind = "passed", !.evidence = evidence]
      BY <1>1 DEF BatchPasses
    <2>3. PICK found \in SUBSET Groups, left \in SUBSET Groups :
            \/ verdict' = [kind |-> "passed", evidence |-> evidence, paths |-> paths,
                           found |-> found, left |-> left]
            \/ verdict' = [NoVerdict EXCEPT !.kind = "passed", !.evidence = evidence]
      BY <2>1, <2>2 DEF In
    <2>4. CASE verdict' = [kind |-> "passed", evidence |-> evidence, paths |-> paths,
                           found |-> found, left |-> left]
      BY <2>4 DEF VerdictRecord
    <2>5. CASE verdict' = [NoVerdict EXCEPT !.kind = "passed", !.evidence = evidence]
      <3>1. verdict' = [kind |-> "passed", evidence |-> evidence, paths |-> {}, found |-> {}, left |-> {}]
        BY <2>5 DEF NoVerdict
      <3> QED BY <3>1 DEF VerdictRecord
    <2> QED BY <2>3, <2>4, <2>5
  <1>2. CASE BatchFails
    BY <1>2 DEF BatchFails, VerdictRecord, NoVerdict
  <1> QED BY <1>1, <1>2

\* The scan of the whole workspace replaces the result that counts.
LEMMA FullScanKeepsLedger ==
  ASSUME LedgerInv, FinalFullScan PROVE LedgerInv'
PROOF
  <1>1. /\ node = "final_full_scan" /\ node' = "supervisor"
        /\ UNCHANGED <<mode, groups, task, active, verdict, record, input, setup, replans, rounds>>
    BY DEF FinalFullScan, Goto, work
  <1>2. verdict.kind = "none"
    BY <1>1 DEF LedgerInv, Judging
  <1>3. final' \in FinalRecord /\ seen' \subseteq Groups
    <2>1. CASE UNCHANGED seen /\ final' = [final EXCEPT !.scope = "full", !.done = FALSE, !.triage = FALSE]
      BY <2>1 DEF LedgerInv, LedgerTypes, FinalRecord
    <2>2. ASSUME NEW found \in SUBSET Groups, seen' = found,
                 final' = [scope |-> "full", done |-> TRUE, new |-> found \ Baseline,
                           left |-> found \cap Baseline, triage |-> mode.triage /\ found # {}]
          PROVE  final' \in FinalRecord /\ seen' \subseteq Groups
      BY <2>2 DEF FinalRecord
    <2> QED BY <2>1, <2>2 DEF FinalFullScan
  <1> QED BY <1>1, <1>2, <1>3 DEF LedgerInv, LedgerTypes, TasksArePlanned, Judging, EvidenceIsCurrent,
                                  Tasks, Passed

LEMMA LedgerStep ==
  ASSUME LedgerInv, errors \in BOOLEAN, [Next]_vars PROVE LedgerInv'
PROOF
  <1> USE DEF Goto, work, ledger, outer
  <1>0. /\ groups \subseteq groups /\ groups \subseteq Groups
        /\ replans \in 0 .. MaxReplans /\ rounds \in 0 .. Limit /\ mode \in Modes
    BY DEF LedgerInv, LedgerTypes
  <1>j. verdict.kind # "none" =>
          node = "supervisor" /\ status \in {"qa_completed", "update_failed"} /\ groups # {}
    BY DEF LedgerInv, Judging, TasksArePlanned
  <1>1. CASE InitialTriage
    <2>1. groups = {} => \A gs \in SUBSET mode.issues : groups \subseteq gs
      OBVIOUS
    <2>2. /\ verdict.kind = "none" /\ node' \in {"workspace_builder", "teardown"}
          /\ UNCHANGED <<mode, seen, work, record, input, setup, final, replans, rounds>>
          /\ groups' \subseteq Groups /\ (UNCHANGED groups \/ mode.given = {})
      BY <1>0, <1>1, <1>j, RunAssumption DEF InitialTriage
    <2>3. Tasks(task) = {}
      BY <1>1 DEF InitialTriage, LedgerInv, TasksArePlanned
    <2> QED BY <2>2, <2>3, <1>0 DEF LedgerInv, LedgerTypes, TasksArePlanned, Judging, EvidenceIsCurrent,
                     Tasks, Passed
  <1>2. CASE BuildRefused
    BY <1>0, <1>2, <1>j, QuietStep DEF BuildRefused
  <1>3. CASE CreateVolumes
    <2>1. node' \in {"install", "teardown"}
      BY <1>3 DEF CreateVolumes
    <2> QED BY <1>0, <1>3, <1>j, <2>1, QuietStep DEF CreateVolumes
  <1>4. CASE Install
    <2>1. node' \in {"workspace_setup_scan", "teardown"}
      BY <1>4 DEF Install
    <2> QED BY <1>0, <1>4, <1>j, <2>1, QuietStep DEF Install
  <1>5. CASE SetupScan
    <2>1. verdict.kind = "none" /\ node' = "supervisor"
          /\ UNCHANGED <<mode, status, groups, seen, work, record, input, final, replans, rounds>>
      BY <1>5, <1>j DEF SetupScan
    <2>2. setup' \in SetupRecord
      <3>1. ASSUME NEW changed \in SUBSET Inputs, NEW paths \in SUBSET Inputs, SetupScanned(changed, paths)
            PROVE  setup' \in SetupRecord
        BY <3>1 DEF SetupScanned, SetupRecord, In
      <3>2. ASSUME NEW changed \in SUBSET Inputs, SetupUnreadable(changed)
            PROVE  setup' \in SetupRecord
        BY <3>2 DEF SetupUnreadable, SetupRecord, NoSetup
      <3>3. setup \in SetupRecord
        BY DEF LedgerInv, LedgerTypes
      <3> QED BY <1>5, <3>1, <3>2, <3>3 DEF SetupScan, SetupSkipped, SetupScanNpm, SetupScanMaven
    <2> QED BY <2>1, <2>2, <1>0 DEF LedgerInv, LedgerTypes, TasksArePlanned, Judging, EvidenceIsCurrent,
                     Tasks, Passed
  <1>6. CASE ReplanGuarded
    BY <1>0, <1>6, <1>j, QuietStep DEF ReplanGuarded, Leave, PlanningDue
  <1>7. CASE PlanningFails
    <2>1. replans' \in 0 .. MaxReplans
      BY <1>0, <1>7, Bounds DEF PlanningFails, Exhausted
    <2> QED BY <1>0, <1>7, <1>j, <2>1, QuietStep DEF PlanningFails, Leave, PlanningDue
  <1>8. CASE PlanningCommits
    BY <1>8, PlanningKeepsLedger
  <1>9. CASE BatchPasses
    BY <1>9, VerdictTypes, VerdictKeepsLedger DEF BatchPasses
  <1>10. CASE BatchFails
    BY <1>10, VerdictTypes, VerdictKeepsLedger DEF BatchFails
  <1>11. CASE NoGroups
    BY <1>0, <1>11, <1>j, QuietStep DEF NoGroups
  <1>12. CASE Decide
    BY <1>12, DecidingKeepsLedger
  <1>13. CASE FinalFullScan
    BY <1>13, FullScanKeepsLedger
  <1>14. CASE RetriageLimited
    BY <1>0, <1>14, <1>j, QuietStep DEF RetriageLimited, Leave
  <1>15. CASE TriageFails
    BY <1>0, <1>15, <1>j, QuietStep, RoundBounded DEF TriageFails, Leave
  <1>16. CASE Retriage
    BY <1>16, RetriageKeepsLedger
  <1>17. CASE CleanUp
    BY <1>0, <1>17, <1>j, QuietStep DEF CleanUp
  <1>18. CASE Teardown
    BY <1>0, <1>18, <1>j, QuietStep DEF Teardown
  <1>19. CASE Report
    BY <1>0, <1>19, <1>j, QuietStep DEF Report
  <1>20. CASE EmergencyEnds
    BY <1>0, <1>20, <1>j, QuietStep DEF EmergencyEnds
  <1>21. CASE Raise
    BY <1>21, RaisingKeepsLedger
  <1>22. CASE UNCHANGED vars
    BY <1>22 DEF vars, LedgerInv, LedgerTypes, TasksArePlanned, Judging, EvidenceIsCurrent, Tasks, Passed
  <1> QED
    BY <1>1, <1>2, <1>3, <1>4, <1>5, <1>6, <1>7, <1>8, <1>9, <1>10, <1>11, <1>12, <1>13, <1>14,
       <1>15, <1>16, <1>17, <1>18, <1>19, <1>20, <1>21, <1>22 DEF Next, Advance, Done

-----------------------------------------------------------------------------
(* The outcome: proofs. *)

LEMMA OutcomeStart == Init => OutcomeInv
PROOF
  <1> SUFFICES ASSUME Init PROVE OutcomeInv
    OBVIOUS
  <1>1. node = "initial_triage" /\ status = "pending" /\ final = NoFinal
    BY DEF Init
  <1>2. plan = FALSE
    BY DEF Init
  <1> QED BY <1>1, <1>2 DEF OutcomeInv, FirstPlan, TasksFollowGroups, ResultIsCurrent, CompletedIsClean,
                            NoFinal

LEMMA FirstPlanStep ==
  ASSUME FirstPlan, [Next]_vars PROVE FirstPlan'
PROOF
  <1> USE DEF FirstPlan, Goto, outer
  <1>2. CASE InitialTriage \/ CreateVolumes \/ Install \/ SetupScan
    BY <1>2 DEF InitialTriage, CreateVolumes, Install, SetupScan
  <1>3. CASE ReplanGuarded \/ PlanningFails \/ PlanningCommits
    BY <1>3 DEF ReplanGuarded, PlanningFails, PlanningCommits, Leave
  <1>4. CASE BuildRefused \/ BatchPasses \/ BatchFails \/ NoGroups \/ FinalFullScan
    BY <1>4 DEF BuildRefused, BatchPasses, BatchFails, NoGroups, FinalFullScan
  <1>5. CASE Decide
    <2>1. UNCHANGED plan /\ status' = "supervisor_routed"
      BY <1>5 DEF Decide
    <2>2. node' \in {"qa_critic", "final_full_scan", "triage", "teardown"}
      BY <1>5 DEF Decide
    <2> QED BY <2>1, <2>2
  <1>6. CASE RetriageLimited \/ TriageFails \/ Retriage
    BY <1>6 DEF RetriageLimited, TriageFails, Retriage, Leave
  <1>7. CASE CleanUp \/ Report \/ Teardown \/ EmergencyEnds
    BY <1>7 DEF CleanUp, Report, Teardown, EmergencyEnds
  <1>8. CASE Raise
    <2>1. node' = "emergency" /\ status' = "pending"
      BY <1>8 DEF Raise
    <2> QED BY <2>1
  <1>9. CASE UNCHANGED vars
    BY <1>9 DEF vars
  <1> QED
    BY <1>2, <1>3, <1>4, <1>5, <1>6, <1>7, <1>8, <1>9 DEF Next, Advance, Done

LEMMA ResultStep ==
  ASSUME LedgerInv, ResultIsCurrent, [Next]_vars PROVE ResultIsCurrent'
PROOF
  <1> USE DEF work, ledger, outer
  <1>1. CASE UNCHANGED <<mode, task, record, input, evid, final>>
    BY <1>1 DEF ResultIsCurrent, Leftover, Passed, Baseline
  <1>2. CASE InitialTriage \/ BuildRefused \/ CreateVolumes \/ Install \/ SetupScan
    BY <1>1, <1>2 DEF InitialTriage, BuildRefused, CreateVolumes, Install, SetupScan
  <1>3. CASE ReplanGuarded \/ PlanningFails
    BY <1>1, <1>3 DEF ReplanGuarded, PlanningFails
  <1>4. CASE PlanningCommits
    <2>1. /\ UNCHANGED <<mode, record, input, evid, final>>
          /\ task' = [g \in Groups |-> IF g \in groups /\ task[g] = NoTask THEN Fresh ELSE task[g]]
      BY <1>4 DEF PlanningCommits
    <2>2. Passed(task') = Passed(task)
      BY <2>1 DEF Passed, NoTask, Fresh
    <2> QED BY <2>1, <2>2 DEF ResultIsCurrent, Leftover, Baseline
  <1>5. CASE BatchPasses \/ BatchFails \/ NoGroups
    BY <1>1, <1>5 DEF BatchPasses, BatchFails, NoGroups
  <1>6. CASE Decide
    <2> DEFINE t == Settled
               f == Result(t, Recorded(t), Snapshots, Pruned, Judged)
    <2>1. task' = t /\ record' = Recorded(t) /\ input' = Snapshots /\ evid' = Judged
          /\ final' \in {f, NoFinal} /\ (f.scope = "full" => final' = f) /\ UNCHANGED mode
      BY <1>6 DEF Decide
    <2>2. CASE final.scope = "full" \/ final' = NoFinal
      BY <2>1, <2>2 DEF Result, ResultIsCurrent, NoFinal
    <2>3. CASE final.scope # "full" /\ final' = f
      <3>1. /\ final'.new = Cumulative(task', record', input', Pruned) \ Baseline
            /\ final'.left = Leftover(task', record')
            /\ final'.done = Covered(Pruned, Judged)
        BY <2>1, <2>3 DEF Result
      <3>2. \A i \in Inputs : input'[i].found \subseteq Cumulative(task', record', input', Pruned)
        BY DEF Cumulative
      <3>3. Baseline' = Baseline
        BY <2>1 DEF Baseline
      <3>4. final'.done => \A g \in Groups : evid'[g]
        BY <2>1, <3>1 DEF Covered
      <3> QED BY <3>1, <3>2, <3>3, <3>4 DEF ResultIsCurrent
    <2> QED BY <2>1, <2>2, <2>3
  <1>7. CASE FinalFullScan
    <2>1. CASE final' = [final EXCEPT !.scope = "full", !.done = FALSE, !.triage = FALSE]
      BY <2>1 DEF LedgerInv, LedgerTypes, FinalRecord, ResultIsCurrent
    <2>2. CASE \E found \in SUBSET Groups :
                 final' = [scope |-> "full", done |-> TRUE, new |-> found \ Baseline,
                           left |-> found \cap Baseline, triage |-> mode.triage /\ found # {}]
      BY <2>2 DEF ResultIsCurrent
    <2> QED BY <1>7, <2>1, <2>2 DEF FinalFullScan
  <1>8. CASE RetriageLimited \/ TriageFails
    BY <1>1, <1>8 DEF RetriageLimited, TriageFails
  <1>9. CASE Retriage
    <2>1. CASE final' = NoFinal
      BY <2>1 DEF ResultIsCurrent, NoFinal
    <2>2. CASE final' # NoFinal
      <3>1. /\ UNCHANGED <<mode, evid, final>>
            /\ task' = [g \in Groups |-> task[g]] /\ input' = [i \in Inputs |-> input[i]]
            /\ record' = [g \in Groups |-> LiveRecord(g, {})]
        BY <1>9, <2>2 DEF Retriage
      <3>2. task' = task /\ input' = input
        BY <3>1 DEF LedgerInv, LedgerTypes
      <3>3. \A g \in Passed(task) : record'[g] = record[g]
        BY <3>1 DEF LiveRecord, Passed
      <3>4. Leftover(task', record') = Leftover(task, record)
        BY <3>2, <3>3 DEF Leftover
      <3> QED BY <3>1, <3>2, <3>4 DEF ResultIsCurrent, Baseline
    <2> QED BY <2>1, <2>2
  <1>10. CASE CleanUp \/ Report \/ Teardown \/ EmergencyEnds
    BY <1>1, <1>10 DEF CleanUp, Report, Teardown, EmergencyEnds
  <1>11. CASE Raise
    <2>1. final' = NoFinal
      BY <1>11 DEF Raise
    <2> QED BY <2>1 DEF ResultIsCurrent, NoFinal
  <1>12. CASE UNCHANGED vars
    BY <1>1, <1>12 DEF vars
  <1> QED
    BY <1>2, <1>3, <1>4, <1>5, <1>6, <1>7, <1>8, <1>9, <1>10, <1>11, <1>12 DEF Next, Advance, Done

LEMMA GroupsStep ==
  ASSUME VolumesInv, LedgerInv, FirstPlan, TasksFollowGroups, [Next]_vars PROVE TasksFollowGroups'
PROOF
  <1> USE DEF Goto, work, ledger, outer, Unplanned
  <1>0. Tasks(task) \subseteq groups
    BY DEF LedgerInv, TasksArePlanned
  <1>1. CASE InitialTriage
    <2>1. /\ node' \in {"workspace_builder", "teardown"} /\ status' # "completed" /\ UNCHANGED task
          /\ node' = "teardown" => errors' = TRUE \/ groups' = {}
      BY <1>1 DEF InitialTriage
    <2>2. Tasks(task') = {}
      BY <1>1, <2>1 DEF InitialTriage, LedgerInv, TasksArePlanned
    <2> QED BY <2>1, <2>2 DEF TasksFollowGroups
  <1>2. CASE BuildRefused
    BY <1>2 DEF BuildRefused, TasksFollowGroups
  <1>3. CASE CreateVolumes
    <2>1. \/ node' = "install" /\ UNCHANGED status
          \/ node' = "teardown" /\ errors' = TRUE /\ status' = "workspace_build_failed"
      BY <1>3 DEF CreateVolumes
    <2> QED BY <1>3, <2>1 DEF CreateVolumes, TasksFollowGroups
  <1>4. CASE Install
    BY <1>4 DEF Install, TasksFollowGroups
  <1>5. CASE SetupScan
    BY <1>5 DEF SetupScan, FirstPlan, TasksFollowGroups
  <1>6. CASE ReplanGuarded
    BY <1>6 DEF ReplanGuarded, Leave, TasksFollowGroups
  <1>7. CASE PlanningFails
    BY <1>7 DEF PlanningFails, Leave, TasksFollowGroups
  <1>8. CASE PlanningCommits
    <2>1. node' = "supervisor" /\ status' = "portfolio_ready" /\ UNCHANGED groups
          /\ task' = [g \in Groups |-> IF g \in groups /\ task[g] = NoTask THEN Fresh ELSE task[g]]
      BY <1>8 DEF PlanningCommits
    <2>2. Tasks(task') = groups
      <3>1. \A g \in groups : task'[g].status # "none"
        BY <2>1 DEF LedgerInv, LedgerTypes, TasksArePlanned, Fresh
      <3>2. \A g \in Groups \ groups : task'[g] = task[g]
        BY <2>1
      <3> QED BY <1>0, <3>1, <3>2 DEF Tasks, LedgerInv, LedgerTypes
    <2> QED BY <2>1, <2>2 DEF TasksFollowGroups
  <1>9. CASE BatchPasses \/ BatchFails
    <2>1. node = "qa_critic" /\ node' = "supervisor" /\ UNCHANGED <<groups, task>>
          /\ status' \in {"qa_completed", "update_failed"}
      BY <1>9 DEF BatchPasses, BatchFails
    <2> QED BY <2>1 DEF TasksFollowGroups
  <1>10. CASE NoGroups
    <2>1. /\ node = "supervisor" /\ status \notin Unplanned /\ node' = "teardown" /\ groups = {}
          /\ UNCHANGED <<groups, task>> /\ status' = "supervisor_routed"
      BY <1>10 DEF NoGroups, PlanningDue, FirstPlan
    <2> QED BY <2>1 DEF TasksFollowGroups
  <1>11. CASE Decide
    <2> DEFINE f == Result(Settled, Recorded(Settled), Snapshots, Pruned, Judged)
    <2>1. /\ node = "supervisor" /\ status \notin Unplanned /\ status' = "supervisor_routed"
          /\ UNCHANGED groups /\ task' = Settled /\ node' \notin {"report", "done"}
      BY <1>11 DEF Decide, PlanningDue, FirstPlan
    <2>2. Tasks(task') = groups
      BY <2>1, ReadingTypes DEF TasksFollowGroups, LedgerInv
    <2>3. node' = "teardown" => final' = f
      BY <1>11 DEF Decide
    <2>4. f.scope # "none"
      <3>1. CASE final.scope = "full"
        BY <3>1 DEF Result
      <3>2. CASE final.scope # "full"
        BY <3>2 DEF Result
      <3> QED BY <3>1, <3>2
    <2> QED BY <2>1, <2>2, <2>3, <2>4 DEF TasksFollowGroups
  <1>12. CASE FinalFullScan
    <2>1. /\ node = "final_full_scan" /\ node' = "supervisor" /\ UNCHANGED <<groups, task>>
          /\ status' \in {"final_scan_completed", "final_scan_failed"}
      BY <1>12 DEF FinalFullScan
    <2> QED BY <2>1 DEF TasksFollowGroups
  <1>13. CASE RetriageLimited
    BY <1>13 DEF RetriageLimited, Leave, TasksFollowGroups
  <1>14. CASE TriageFails
    BY <1>14 DEF TriageFails, Leave, TasksFollowGroups
  <1>15. CASE Retriage
    BY <1>15 DEF Retriage, TasksFollowGroups
  <1>16. CASE CleanUp
    <2>1. UNCHANGED <<node, status, groups, task, final>> /\ node \in {"teardown", "emergency"}
      BY <1>16 DEF CleanUp
    <2>2. errors' = errors \/ errors' = TRUE
      BY <1>16 DEF CleanUp, Removed, Conflict, Refused
    <2> QED BY <2>1, <2>2 DEF TasksFollowGroups
  <1>17. CASE Teardown
    BY <1>17 DEF Teardown, TasksFollowGroups
  <1>18. CASE Report
    BY <1>18 DEF Report, TasksFollowGroups
  <1>19. CASE EmergencyEnds
    BY <1>19 DEF EmergencyEnds, TasksFollowGroups
  <1>20. CASE Raise
    <2>1. node' = "emergency" /\ status' = "pending"
      BY <1>20 DEF Raise
    <2> QED BY <2>1 DEF TasksFollowGroups
  <1>21. CASE UNCHANGED vars
    BY <1>21 DEF vars, volumes, TasksFollowGroups, Tasks
  <1> QED
    BY <1>1, <1>2, <1>3, <1>4, <1>5, <1>6, <1>7, <1>8, <1>9, <1>10, <1>11, <1>12, <1>13, <1>14,
       <1>15, <1>16, <1>17, <1>18, <1>19, <1>20, <1>21 DEF Next, Advance, Done

\* Only teardown calls a run completed; what it has seen then stays.
LEMMA CompletedStep ==
  ASSUME VolumesInv, TeardownRemoves, LedgerInv, TasksFollowGroups, ResultIsCurrent,
         CompletedIsClean, [Next]_vars
  PROVE  CompletedIsClean'
PROOF
  <1> SUFFICES ASSUME status' = "completed", groups' # {} PROVE CompletedIsClean'
    BY DEF CompletedIsClean
  <1>1. CASE Teardown
    <2>1. /\ node = "teardown" /\ todo = {} /\ ~errors /\ ~OutcomeIssues
          /\ UNCHANGED <<mode, docker, groups, task, record, input, evid, final>>
      BY <1>1 DEF Teardown, Goto, work, ledger, outer
    <2>2. docker = {}
      BY <2>1 DEF TeardownRemoves
    <2>3. Tasks(task) = groups /\ final.scope # "none"
      BY <2>1 DEF TasksFollowGroups
    <2>4. Passed(task) = groups
      BY <2>1, <2>3 DEF OutcomeIssues, Tasks, Passed
    <2>5. final.done /\ final.left = {} /\ final.new = {}
      BY <2>1, <2>3 DEF OutcomeIssues
    <2>6. final.scope \in {"incremental", "full"}
      BY <2>3 DEF LedgerInv, LedgerTypes, FinalRecord
    <2>7. final.scope = "incremental" =>
            /\ \A i \in Inputs : input[i].found \subseteq Baseline
            /\ Leftover(task, record) = {}
            /\ \A g \in Groups : evid[g]
      BY <2>5 DEF ResultIsCurrent
    <2>8. /\ Passed(task') = Passed(task) /\ Leftover(task', record') = Leftover(task, record)
          /\ Baseline' = Baseline
      BY <2>1 DEF Passed, Leftover, Baseline
    <2> QED BY <2>1, <2>2, <2>4, <2>6, <2>7, <2>8 DEF CompletedIsClean
  <1>2. CASE Report \/ UNCHANGED vars
    <2>1. UNCHANGED <<mode, status, docker, groups, task, record, input, evid, final>>
      BY <1>2 DEF Report, vars, volumes, work, ledger, outer
    <2> QED BY <2>1 DEF CompletedIsClean, Passed, Leftover, Baseline
  <1>3. CASE ~(Teardown \/ Report \/ UNCHANGED vars)
    <2>1. status' # "completed" \/ (UNCHANGED status /\ node \notin {"report", "done"})
      <3> USE DEF Goto, Leave
      <3>1. CASE InitialTriage \/ BuildRefused \/ CreateVolumes \/ Install \/ SetupScan
        BY <3>1 DEF InitialTriage, BuildRefused, CreateVolumes, Install, SetupScan
      <3>2. CASE ReplanGuarded \/ PlanningFails \/ PlanningCommits \/ BatchPasses \/ BatchFails
        BY <3>2 DEF ReplanGuarded, PlanningFails, PlanningCommits, BatchPasses, BatchFails
      <3>3. CASE NoGroups \/ Decide \/ FinalFullScan
        BY <3>3 DEF NoGroups, Decide, FinalFullScan
      <3>4. CASE RetriageLimited \/ TriageFails \/ Retriage
        BY <3>4 DEF RetriageLimited, TriageFails, Retriage
      <3>5. CASE CleanUp \/ EmergencyEnds \/ Raise
        BY <3>5 DEF CleanUp, EmergencyEnds, Raise
      <3> QED BY <1>3, <3>1, <3>2, <3>3, <3>4, <3>5 DEF Next, Advance, Done
    <2> QED BY <2>1 DEF TasksFollowGroups
  <1> QED BY <1>1, <1>2, <1>3

LEMMA RunStart == Init => RunInv
  BY VolumesStart, LedgerStart, OutcomeStart DEF RunInv

LEMMA RunStep == RunInv /\ [Next]_vars => RunInv'
PROOF
  <1> SUFFICES ASSUME RunInv, [Next]_vars PROVE RunInv'
    OBVIOUS
  <1>1. /\ VolumesInv /\ TeardownRemoves /\ LedgerInv /\ FirstPlan /\ TasksFollowGroups
        /\ ResultIsCurrent /\ CompletedIsClean /\ errors \in BOOLEAN
    BY DEF RunInv, OutcomeInv, VolumesInv
  <1>2. VolumesInv' /\ TeardownRemoves' /\ LedgerInv'
    BY <1>1, VolumesStep, LedgerStep
  <1>3. FirstPlan' /\ TasksFollowGroups' /\ ResultIsCurrent' /\ CompletedIsClean'
    BY <1>1, FirstPlanStep, GroupsStep, ResultStep, CompletedStep
  <1> QED BY <1>2, <1>3 DEF RunInv, OutcomeInv

\* In every state of a run the state it passes on is well-formed, the record of a
\* task is that of its current pass, and the tasks behind a snapshot are passed.
THEOREM LedgerStaysSound == Spec => []LedgerIsSound
PROOF
  <1>1. RunInv => LedgerIsSound
    <2> SUFFICES ASSUME RunInv PROVE LedgerIsSound
      OBVIOUS
    <2>1. VolumesInv /\ LedgerTypes /\ TasksArePlanned /\ EvidenceIsCurrent
      BY DEF RunInv, LedgerInv
    <2>2. \A g \in Groups : task[g].status \in {"none", "PENDING", "QA_PASSED", "UNFIXABLE"}
      BY <2>1 DEF LedgerTypes, TaskRecord, Statuses
    <2>3. TypeOK
      BY <2>1, <2>2 DEF TypeOK, VolumesInv, Nodes, LedgerTypes, TasksArePlanned
    <2> QED BY <2>1, <2>3 DEF LedgerIsSound
  <1> QED BY RunStart, RunStep, <1>1, PTL DEF Spec

\* Whatever reopens, replans or fails on the way, a run called completed has passed
\* every task and left no finding, no target, no volume and no gap in its evidence.
THEOREM CompletedRunsAreClean == Spec => []CompletedIsClean
PROOF
  <1>1. RunInv => CompletedIsClean
    BY DEF RunInv, OutcomeInv
  <1> QED BY RunStart, RunStep, <1>1, PTL DEF Spec
=============================================================================
