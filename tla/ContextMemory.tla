---------------------------- MODULE ContextMemory ----------------------------
(***************************************************************************)
(* What a specialist still sees of its own past                             *)
(* (orchestration/context_manager.py): the tool results in the              *)
(* conversation, which are cut to a line when they are old, and the         *)
(* scratchpad, which keeps a bounded excerpt of what they said.             *)
(*                                                                          *)
(* A result states one fact; the wording of facts and their redaction are   *)
(* left out.  The length of an entry in the scratchpad is given by the kind *)
(* of its tool.                                                             *)
(***************************************************************************)
EXTENDS Naturals, Sequences, FiniteSets, SequencesExt

CONSTANTS
    Facts,       \* what a result may say
    MaxRounds,   \* bound of the model: rounds of the loop, one call each
    Interval,    \* compaction_interval
    MaxChars     \* MAX_SCRATCHPAD_CHARS, in entries of a finding

\* Assumed of the constants where the module is instantiated.
MemoryAssumption == MaxRounds \in Nat \ {0} /\ Interval \in Nat \ {0} /\ MaxChars \in Nat \ {0}

VARIABLES
    results,    \* the tool results of the conversation, in order: one for each round
    entries,    \* the entries of the scratchpad, in order
    shown       \* the entries the scratchpad message in the conversation holds

vars == <<results, entries, shown>>

\* _COMPACTION_TOOLS, one for all; plans, edits and validations are not cut.
Reads == {"read"}
\* What has a plan summary, a validation outcome or a critical outcome.
Decisions == {"plan", "validate"}
Tools == Reads \cup Decisions \cup {"edit"}
Chars(entry) == IF entry.tool \in Decisions THEN 2 ELSE 1

None == [tool |-> "none", fact |-> "none"]

Init == results = <<>> /\ entries = <<>> /\ shown = {}

----------------------------------------------------------------------------
(* The scratchpad. *)

\* What a result states.
Stated(tool, fact) == [tool |-> tool, fact |-> fact]

\* Mutant: a tool is only written down the first time it is used.
FirstUse(es, event) ==
    IF \E i \in DOMAIN es : es[i].tool = event.tool THEN es ELSE Append(es, event)
\* update_from_tool_event: what an earlier entry states is not stated again.
Remembered(es, event) == IF event \in ToSet(es) THEN es ELSE Append(es, event)

Decided(es, i) == es[i].tool \in Decisions
\* Decisions before findings, and the newest of each first.
Precedes(es, i, j) == IF Decided(es, i) = Decided(es, j) THEN i > j ELSE Decided(es, i)

\* A decision takes twice the room of a finding.
Length(es, s) == Cardinality(s) + Cardinality({i \in s : Decided(es, i)})
\* What still fits when everything in s that precedes i is taken.
Fits(es, s, i) == Length(es, {j \in s : Precedes(es, j, i)} \cup {i}) <= MaxChars
\* render: everything, or what fits when it is taken in the order of priority.
Rendered(es) == CHOOSE s \in SUBSET DOMAIN es : \A i \in DOMAIN es : i \in s <=> Fits(es, s, i)

----------------------------------------------------------------------------
(* The conversation. *)

\* No round is left.
Full == Len(results) = MaxRounds

\* compact_conversation: at the end of every Interval-th round the results of reads are cut
\* that are older than the round before, and the scratchpad message is renewed.
Compacted(rs) ==
    [i \in DOMAIN rs |->
        IF i < Len(rs) - 1 /\ rs[i].event.tool \in Reads
        THEN [event |-> rs[i].event, whole |-> FALSE] ELSE rs[i]]

\* A round with a tool call.
Turn ==
    /\ ~Full
    /\ \E tool \in Tools, fact \in Facts :
          LET event == Stated(tool, fact)
              rs == Append(results, [event |-> event, whole |-> TRUE])
              es == Remembered(entries, event)
              due == Len(rs) % Interval = 0
          IN  /\ entries' = es
              /\ results' = IF due THEN Compacted(rs) ELSE rs
              /\ shown' = IF due THEN Rendered(es) ELSE shown

\* A round of the evaluator that calls no tool, or its terminal tool with arguments that are
\* not valid: it is asked again, and nothing is compacted.
Silent ==
    /\ ~Full
    /\ results' = Append(results, [event |-> None, whole |-> TRUE])
    /\ UNCHANGED <<entries, shown>>

Next == Turn \/ Silent
Spec == Init /\ [][Next]_vars

----------------------------------------------------------------------------
(* What a specialist must not lose. *)

\* What a result said that was cut is in the scratchpad the model sees, unless there is no
\* room for it: the facts of a specialist do not vanish between the conversation and its
\* memory, whichever of its calls repeat an earlier one.
NothingVanishes ==
    \A i \in DOMAIN results : ~results[i].whole =>
        \E j \in DOMAIN entries :
            /\ entries[j] = results[i].event
            /\ j \in shown \/ Length(entries, shown) + Chars(entries[j]) > MaxChars

=============================================================================
