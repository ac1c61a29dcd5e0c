---------------------------- MODULE SubagentLoop ----------------------------
(***************************************************************************)
(* The tool loop the workers and the QA evaluator share                     *)
(* (run_bounded_subagent_loop of orchestration/subagent_runtime.py): the    *)
(* turns of a model that may ask for several tools at once, the messages    *)
(* that answer them, the barrier between manifest transactions, the budget  *)
(* of a package and the calls that are repeated in vain.                    *)
(*                                                                          *)
(* What the tools do to the workspace, the phases of a workaround and its   *)
(* validation budget are in UpdateWorker and WorkaroundWorker.  A call here *)
(* is its signature: the tool and its arguments.                            *)
(***************************************************************************)
EXTENDS Naturals, Sequences, FiniteSets, SequencesExt

CONSTANTS
    Roles,        \* "update", "workaround" and "qa"
    Packages,     \* what manifest transactions are about
    Versions,     \* the versions a transaction may try
    MaxRounds,    \* MAX_SUBAGENT_TOOL_CALL_ROUNDS
    MaxCalls,     \* bound of the model: calls in one turn
    MaxAttempts,  \* MAX_UPDATE_MANIFEST_ATTEMPTS
    Threshold     \* STAGNATION_REPETITION_THRESHOLD

\* Assumed of the constants where the module is instantiated.
LoopAssumption ==
    /\ Roles \subseteq {"update", "workaround", "qa"}
    /\ MaxRounds \in Nat \ {0} /\ MaxCalls \in Nat \ {0} /\ MaxAttempts \in Nat \ {0} /\ Threshold \in Nat \ {0}

VARIABLES
    role,       \* who runs the loop
    pc,         \* "model", "calls" or "ended"
    round,      \* rounds the model was asked in
    turn,       \* the calls of this turn that are not answered yet
    barrier,    \* manifest_call_seen
    attempts,   \* manifest_attempts_by_package
    failures,   \* failed_tool_call_counts, up to the threshold
    recovery,   \* recovery_signatures
    advice,     \* recovery_instruction: the call it is about, if any
    advised,    \* the calls the model was told not to repeat
    flags,      \* what ends the loop after this turn: "malformed", "stopped"
    gone,       \* history: a result said that the sandbox is gone
    orphan,     \* a call of an earlier turn has no answer in the conversation
    result      \* how the loop ended

vars == <<role, pc, round, turn, barrier, attempts, failures, recovery, advice, advised, flags, gone, orphan, result>>

Transactions == [tool : {"manifest"}, package : Packages, version : Versions]
Other(tool) == [tool |-> tool, package |-> "none", version |-> "none"]
\* The toolbelt of a role.
Tools ==
    CASE role = "update" -> Transactions \cup {Other("read")}
      [] role = "workaround" -> {Other("read"), Other("edit"), Other("removal")}
      [] role = "qa" -> {Other("read"), Other("log"), Other("emit")}
Structured == role = "qa"
Nothing == Other("none")
Signatures == Transactions \cup {Other(t) : t \in {"read", "edit", "removal", "log", "emit"}}

Init ==
    /\ role \in Roles /\ pc = "model" /\ round = 0 /\ turn = <<>>
    /\ barrier = FALSE /\ attempts = [p \in Packages |-> 0]
    /\ failures = [c \in Signatures |-> 0] /\ recovery = {} /\ advice = Nothing /\ advised = {}
    /\ flags = {} /\ gone = FALSE /\ orphan = FALSE /\ result = "none"

----------------------------------------------------------------------------
(* The model. *)

End(r) == pc' = "ended" /\ result' = r
Unturned == UNCHANGED <<barrier, attempts, failures, recovery, advice, advised, flags, gone>>

\* A request the provider refuses or does not answer ends the loop.
ModelFails == pc = "model" /\ round < MaxRounds /\ End("model error") /\ UNCHANGED <<role, round, turn, orphan>> /\ Unturned

\* An answer without a call is the worker's last word; an evaluator is asked again.
Speaks ==
    /\ pc = "model" /\ round < MaxRounds /\ round' = round + 1
    /\ IF Structured THEN pc' = "model" /\ UNCHANGED result ELSE End("final")
    /\ UNCHANGED <<role, turn, orphan>> /\ Unturned

\* The terminal call of an evaluator: the first one of the turn is validated and nothing
\* else of the turn is run or answered.
Emits(calls, valid) ==
    /\ IF valid THEN End("structured") /\ UNCHANGED orphan
       ELSE pc' = "model" /\ orphan' = (orphan \/ Len(calls) > 1) /\ UNCHANGED result
    /\ UNCHANGED turn

\* A turn with calls.  Some of them may come without an identifier.
Asks ==
    /\ pc = "model" /\ round < MaxRounds /\ round' = round + 1
    /\ \E n \in 1..MaxCalls : \E calls \in [1..n -> Tools], malformed \in BOOLEAN, valid \in BOOLEAN :
          IF Structured /\ Other("emit") \in ToSet(calls)
          THEN Emits(calls, valid) /\ UNCHANGED flags
          ELSE /\ pc' = "calls" /\ turn' = calls
               /\ flags' = IF malformed THEN {"malformed"} ELSE {}
               /\ UNCHANGED <<orphan, result>>
    /\ barrier' = FALSE /\ advice' = Nothing
    /\ UNCHANGED <<role, attempts, failures, recovery, advised, gone>>

\* The rounds are used up.
Exhausted == pc = "model" /\ round = MaxRounds /\ End("rounds") /\ UNCHANGED <<role, round, turn, orphan>> /\ Unturned

----------------------------------------------------------------------------
(* The calls of a turn, in their order. *)

IsTransaction(call) == call.tool = "manifest"
\* Removals of a Python or Maven dependency share the barrier, not the budget.
IsSerial(call) == IsTransaction(call) \/ call.tool = "removal"
Spent(p) == attempts[p] >= MaxAttempts

\* What becomes of a call: it is put off, suppressed, out of budget, or it runs.
Fate(call) ==
    IF IsSerial(call) /\ barrier THEN "deferred"
    ELSE IF call \in recovery THEN "suppressed"
    ELSE IF IsTransaction(call) /\ Spent(call.package) THEN "limit"
    ELSE "runs"

\* A failure is counted; at the threshold the call is suppressed from then on and the
\* model is told so after the turn.
Failed(call) ==
    LET n == IF failures[call] < Threshold THEN failures[call] + 1 ELSE Threshold
    IN  /\ failures' = [failures EXCEPT ![call] = n]
        /\ IF n = Threshold /\ call \notin recovery
           THEN recovery' = recovery \cup {call} /\ advice' = call
           ELSE UNCHANGED <<recovery, advice>>
Succeeded(call) == failures' = [failures EXCEPT ![call] = 0] /\ UNCHANGED <<recovery, advice>>

\* DEFERRED: answered, not run, not a failure.
PutsOff(call) ==
    /\ Fate(call) = "deferred"
    /\ UNCHANGED <<orphan, barrier, attempts, failures, recovery, advice, flags, gone>>

\* The barrier is set by the first transaction of the turn, whatever becomes of it.
Barrier(call, ok) == barrier \/ IsSerial(call)

Refuses(call) ==
    /\ Fate(call) \in {"suppressed", "limit"}
    /\ Failed(call) /\ barrier' = Barrier(call, FALSE)
    /\ UNCHANGED <<orphan, attempts, flags, gone>>

Counted(call, ok) == IF IsTransaction(call) THEN [attempts EXCEPT ![call.package] = @ + 1] ELSE attempts

\* Mutant: only the last result of a turn is looked at for a stopped sandbox.
LastStopped(stopped) == IF stopped THEN {"stopped"} ELSE flags \ {"stopped"}
Stopped(stopped) == IF stopped THEN flags \cup {"stopped"} ELSE flags

\* The tool runs.  It may report that the sandbox is gone.
Runs(call) ==
    /\ Fate(call) = "runs"
    /\ \E ok \in BOOLEAN, stopped \in BOOLEAN :
          /\ stopped => ~ok
          /\ IF ok THEN Succeeded(call) ELSE Failed(call)
          /\ attempts' = Counted(call, ok) /\ barrier' = Barrier(call, ok)
          /\ flags' = Stopped(stopped) /\ gone' = (gone \/ stopped)
    /\ UNCHANGED orphan

\* The message that answers a call without running it needs the identifier: without one the
\* loop raises, and its worker reports that.
Raises ==
    /\ pc = "calls" /\ turn # <<>> /\ "malformed" \in flags /\ Fate(Head(turn)) # "runs"
    /\ End("raised")
    /\ UNCHANGED <<role, round, turn, barrier, attempts, failures, recovery, advice, advised, flags, gone, orphan>>

Call ==
    /\ pc = "calls" /\ turn # <<>> /\ turn' = Tail(turn)
    /\ LET call == Head(turn) IN PutsOff(call) \/ Refuses(call) \/ Runs(call)
    /\ UNCHANGED <<role, pc, round, advised, result>>

\* The turn is over: what has to be said to the model is said, and the loop goes on unless
\* something in the turn ended it.
TurnEnds ==
    /\ pc = "calls" /\ turn = <<>>
    /\ advised' = IF advice = Nothing THEN advised ELSE advised \cup {advice}
    /\ IF flags = {} THEN pc' = "model" /\ UNCHANGED result
       ELSE End(IF "malformed" \in flags THEN "malformed" ELSE "sandbox")
    /\ UNCHANGED <<role, round, turn, barrier, attempts, failures, recovery, advice, flags, gone, orphan>>

Ended == pc = "ended" /\ UNCHANGED vars

Next == ModelFails \/ Speaks \/ Asks \/ Exhausted \/ Call \/ Raises \/ TurnEnds \/ Ended
Spec == Init /\ [][Next]_vars

----------------------------------------------------------------------------
(* What the loop must keep up. *)

\* Does not hold (README, Known deviations): "Every call needs a matching ToolMessage before
\* the next LLM request" (subagent_runtime.py:1096), also of an evaluator.
EvaluatorIsAnswered == ~orphan

\* Nothing is asked of the model once a tool has said that the sandbox is gone: its other
\* calls of the turn are answered, and that is the end.
LossEndsTheLoop == gone => pc # "model"

\* Does not hold (README, Known deviations): "The exact signature has already received a
\* recovery instruction" (subagent_runtime.py:814), so a call is suppressed in a later turn only if the model was told.
SuppressedWasTold == pc = "model" => recovery \subseteq advised
=============================================================================
