------------------------------ MODULE MCWorkers ------------------------------
(***************************************************************************)
(* The workers for TLC: the workaround worker, the update worker, the tool  *)
(* loop they share with the evaluators, its memory, and the sandbox they    *)
(* work in.  A behaviour runs one of the machines; the others stay in an    *)
(* initial state.                                                           *)
(***************************************************************************)
EXTENDS WorkaroundWorker

CONSTANTS Machines,                                               \* those to run
          p, q, v, w, pkg,                                        \* model values
          Packages, Versions, MaxAttempts, MaxFailures, MaxUnread,  \* of UpdateWorker
          Roles, MaxRounds, MaxCalls, LoopAttempts, Threshold,    \* of SubagentLoop
          Facts, MemoryRounds, Interval, MaxChars,                \* of ContextMemory
          SandboxFiles, MaxVersion, MaxEntries, MaxBytes, TestsWrite    \* of DockerSandbox

VARIABLES machine,                                                \* the machine that runs
          upc, job, uws, ualive, utouched, store, tried, uran, last, seen, ran1, broken,
          unrolled, unread, report, failed,
          role, lpc, round, turn, barrier, attempts, failures, recovery, advice,
          advised, flags, gone, orphan, result,
          results, entries, shown,
          volume, archive, container, client, dalive, late, cache, bytes, behind, current

U == INSTANCE UpdateWorker WITH
        pc <- upc, ws <- uws, alive <- ualive, touched <- utouched, ran <- uran,
        faults <- failed, MaxFaults <- MaxFailures
L == INSTANCE SubagentLoop WITH pc <- lpc, MaxAttempts <- LoopAttempts
C == INSTANCE ContextMemory WITH MaxRounds <- MemoryRounds
D == INSTANCE DockerSandbox WITH alive <- dalive, Files <- SandboxFiles

updateVars == <<upc, job, uws, ualive, utouched, store, tried, uran, last, seen, ran1, broken,
                unrolled, unread, report, failed>>
loopVars == <<role, lpc, round, turn, barrier, attempts, failures, recovery, advice,
              advised, flags, gone, orphan, result>>
memoryVars == <<results, entries, shown>>
sandboxVars == <<volume, archive, container, client, dalive, late, cache, bytes, behind, current>>

ASSUME WorkersAssumption ==
    /\ U!UpdateAssumption /\ L!LoopAssumption /\ C!MemoryAssumption /\ D!SandboxAssumption
    /\ Machines \subseteq {"workaround", "update", "loop", "memory", "sandbox"}

\* Source files, packages, cached files and facts are alike, and so are versions.
Symmetry == Permutations({p, q}) \cup Permutations({v, w})

-----------------------------------------------------------------------------

WorkersInit ==
    /\ machine \in Machines
    /\ Init /\ (machine # "workaround" => prior = {} /\ plan.stage)
    /\ U!Init /\ (machine # "update" => job = CHOOSE j \in U!Jobs : j.resolved = Packages /\ j.valid)
    /\ L!Init /\ (machine # "loop" => role = "update")
    /\ C!Init
    /\ D!Init

WorkAround == machine = "workaround" /\ Next
              /\ UNCHANGED <<machine, updateVars, loopVars, memoryVars, sandboxVars>>
Updates == machine = "update" /\ U!Next
           /\ UNCHANGED <<machine, vars, loopVars, memoryVars, sandboxVars>>
Loops == machine = "loop" /\ L!Next
         /\ UNCHANGED <<machine, vars, updateVars, memoryVars, sandboxVars>>
RoundsEnd == C!Full /\ UNCHANGED memoryVars
Remembers == machine = "memory" /\ (C!Next \/ RoundsEnd)
             /\ UNCHANGED <<machine, vars, updateVars, loopVars, sandboxVars>>
Sandboxes == machine = "sandbox" /\ D!Next
             /\ UNCHANGED <<machine, vars, updateVars, loopVars, memoryVars>>
WorkersNext == WorkAround \/ Updates \/ Loops \/ Remembers \/ Sandboxes
WorkersSpec == WorkersInit /\ [][WorkersNext]_<<machine, vars, updateVars, loopVars, memoryVars, sandboxVars>>

-----------------------------------------------------------------------------

\* Every file that differs from the start is among the changed files an update worker
\* reports, whatever commands and rollbacks failed: the outer wrapper can only answer for
\* what it knows.  Exempt are, by the code, a dispatch whose loop raised (it reports no file),
\* a file that a checkpoint failed to read and took for absent, and, after a failed rollback,
\* Maven and the committed actions.
LeftoversReported == machine = "update" => U!LeftoversReported
\* A committed action is applied for every package, or reported for none with every file as
\* it was or the failure of its rollback among the reported errors (apply_multi_package_action
\* and its end), also when the loop raised; but a file its checkpoint failed to read may have
\* been deleted by a rollback that reports no failure.
BatchIsAtomic == machine = "update" => U!BatchIsAtomic
\* Nothing is asked of the model once a tool has said that the sandbox is gone, also when
\* later calls of the same turn go well (the tool loop's stop flag).
LossEndsTheLoop == machine = "loop" => L!LossEndsTheLoop
\* What a result said that was cut from the conversation is in the scratchpad the model
\* sees, unless there is no room for it, whichever calls repeat an earlier one
\* (compact_conversation and the scratchpad's render).
NothingVanishes == machine = "memory" => C!NothingVanishes
\* What the read cache holds is what the file holds or nothing, for every file that was not
\* changed behind the sandbox's back: also a mutation that failed or whose command was
\* given up has emptied it.
CacheIsTrue == machine = "sandbox" => D!CacheIsTrue
=============================================================================
