----------------------------- MODULE RetryLadder -----------------------------
(***************************************************************************)
(* The ladder of retries of one VERSION_BUMP task: how the Supervisor      *)
(* chooses the version of each dispatch (supervisor_node.py,               *)
(* tactical_supervisor.py, supervisor_planner.py, portfolio_solver.py).    *)
(* A certified portfolio plan gives the task an allowlist.  Each pass of   *)
(* the Supervisor asks the tactical model or its fallback, else the        *)
(* deterministic planner; guardrails, the retry cap and the check of the   *)
(* portfolio plan follow, and a dispatch needs an authorization.           *)
(*                                                                         *)
(* The rest of the queue, the workers and QA are those of TaskLifecycle:   *)
(* here an attempt succeeds or fails, with the class of its diagnostics.   *)
(* Versions are numbers, version 1 is the security floor and the only one  *)
(* of the installed major.                                                 *)
(***************************************************************************)
EXTENDS Naturals, FiniteSets, Sequences, SequencesExt, FiniteSetsExt

CONSTANTS Latest,      \* published versions of the vulnerable package: 1..Latest
          Ladders,       \* the kinds of task of the run
          MaxRetries,  \* MAX_RETRIES
          MaxReplans   \* bound: portfolio plans after the first

\* direct: npm, in the manifest; parent: npm, the declared parent of a transitive
\* package; override: a transitive package pinned by an override; maven: a GAV.
\* Assumed of the constants where the module is instantiated.
LadderAssumption ==
  /\ Latest \in Nat \ {0} /\ MaxRetries \in Nat \ {0} /\ MaxReplans \in Nat
  /\ Ladders \subseteq {"direct", "parent", "override", "maven"}

Versions == 1..Latest

\* SCARemediationStage; maven_latest stands for the npm stages above the minimum.
Minimum == 0
Newest == 2
Override == 3

VARIABLES
  kind,       \* the task's place in the dependency graph
  model,      \* an API key is configured: the tactical model answers
  parents,    \* releases of the parent that accept the fixed child
  pc,         \* the part of the Supervisor pass to run next
  status, retries, stage, sel, target, exhausted, \* fields of the task
  allowed,    \* allowed_target_versions, the selected one first
  planned,    \* strategy stage and target of the committed portfolio decision
  rplan,      \* retry_plans_by_task, or NoPlan
  diag,       \* retry diagnostics: attempted, considered (and its target), exhausted
  pool,       \* per target the allowlist of its first attempt
  cause,      \* class of the last diagnostics
  choice,     \* decision of the tactical layer, or NoChoice
  replans,    \* portfolio plans since the first
  ran,        \* history: versions a worker installed, per target
  dispatches  \* history: attempts so far

vars == <<kind, model, parents, pc, status, retries, stage, sel, target, exhausted, allowed,
          planned, rplan, diag, pool, cause, choice, replans, ran, dispatches>>
facts == <<kind, model, parents>>
history == <<ran, dispatches>>

Targets == {"own", "parent", "override"}
Unset == 0
NoChoice == [act |-> "none", stage |-> Minimum, sel |-> Unset, target |-> "own", considered |-> {}]
NoPlan == [action |-> "none", stage |-> Minimum, sel |-> Unset, target |-> "own",
           considered |-> {}, latest |-> Unset, exhausted |-> FALSE, current |-> FALSE]
Causes == {"peer", "security", "breaking", "inconclusive"}

IsMaven == kind = "maven"
Transitive == kind \in {"parent", "override"}
FirstTry == status # "NEEDS_RETRY" /\ retries = 0

\* The releases of a target that meet its floor.
Released(t) == IF t = "parent" THEN parents ELSE Versions

\* Allowlists: the certified version and what is compatible with the same plan.
Allowlists(t) ==
  {<<v>> : v \in Released(t)}
    \cup {a \in Released(t) \X Released(t) : a[1] # a[2]}

Home == CASE kind = "parent" -> "parent" [] kind = "override" -> "override" [] OTHER -> "own"

Init ==
  /\ kind \in Ladders /\ model \in BOOLEAN
  /\ parents \in (IF kind = "parent" THEN (SUBSET Versions) \ {{}} ELSE {{}})
  /\ target = Home /\ stage = IF kind = "override" THEN Override ELSE Minimum
  /\ allowed \in Allowlists(Home) /\ sel = allowed[1]
  /\ planned = [stage |-> stage, target |-> target]
  /\ pc = "enter" /\ status = "PENDING" /\ retries = 0 /\ exhausted = FALSE
  /\ rplan = NoPlan /\ cause = "unknown" /\ choice = NoChoice
  /\ diag = [tried |-> {}, considered |-> {}, target |-> Home, exhausted |-> FALSE]
  /\ pool = [t \in Targets |-> {}]
  /\ replans = 0 /\ ran = [t \in Targets |-> {}] /\ dispatches = 0

-----------------------------------------------------------------------------
(* The candidates the tactical layer may offer                             *)

\* The pool a target was first dispatched with, else what its diagnostics list.
ApprovedPool(t) ==
  IF pool[t] # {} THEN pool[t]
  ELSE IF diag.target = t THEN diag.considered ELSE {}

\* The registry answers with the lowest release, the newest of the floor's major
\* and the newest; attempted ones are left out unless a pool filters the answer.
Strategic(releases, skip) ==
  LET left == releases \ skip IN
  IF left = {} THEN {} ELSE {Min(left), Max(left)} \cup (left \cap {1})

FromRegistry(t) ==
  LET p == ApprovedPool(t) IN
  IF p = {} THEN Strategic(Released(t), diag.tried)
            ELSE (Strategic(Released(t), {}) \cap p) \ diag.tried

\* Maven: the release whose role is that of the stage.
MavenPick(s, tried) ==
  LET v == IF s = Minimum THEN 1 ELSE Latest IN IF v \in tried THEN {} ELSE {v}

MavenOffer ==
  LET p == ApprovedPool("own") IN {v \in MavenPick(stage, diag.tried) : p = {} \/ v \in p}

\* The planner tool answers a query of the parent's releases that fails with a text
\* that starts with ERROR, in which no version is found.
ParentOffer(down) == IF down THEN {} ELSE FromRegistry("parent")

BumpSet(down) ==
  CASE stage = Override -> {}
    [] IsMaven -> MavenOffer
    [] Transitive -> ParentOffer(down)
    [] OTHER -> FromRegistry("own")

\* The child is pinned at the override stage, or once the parent has no release left.
OverrideSet(down) ==
  IF Transitive /\ (stage = Override \/ BumpSet(down) = {})
  THEN FromRegistry("override") ELSE {}

BumpTarget == IF Transitive THEN "parent" ELSE "own"

-----------------------------------------------------------------------------
(* The tactical layer                                                      *)

\* An exhausted path must pivot.  A transitive npm task keeps its place on the ladder:
\* it is no pivot candidate.
PivotCandidate == ~ Transitive /\ status = "NEEDS_RETRY" /\ diag.exhausted

Decided(c) ==
  /\ choice' = c
  /\ pc' = IF c.act = "none" /\ ~ PivotCandidate THEN "plan" ELSE "cap"
  /\ UNCHANGED <<status, retries, stage, sel, target, exhausted, allowed, planned, rplan,
                 diag, pool, cause, replans>>

Act(a) == [NoChoice EXCEPT !.act = a]
Bump(t, v, set) ==
  [act |-> "bump", stage |-> IF t = "override" THEN Override ELSE stage, sel |-> v,
   target |-> t, considered |-> IF ApprovedPool(t) # {} THEN ApprovedPool(t) ELSE set]

\* Without an answer of the model, a first try keeps the selected version if it is
\* among the candidates, else takes the recommended one: the lowest.
Fallback(down) ==
  LET own == stage # Override
      set == IF own /\ BumpSet(down) # {} THEN BumpSet(down) ELSE OverrideSet(down)
      t == IF own /\ BumpSet(down) # {} THEN BumpTarget ELSE "override" IN
  IF set = {} THEN NoChoice ELSE Bump(t, IF sel \in set THEN sel ELSE Min(set), set)

\* A peer conflict that no candidate and no source hint answers must be escalated.
EscalationRequired(set, compatible, hinted) ==
  ~ IsMaven /\ cause = "peer" /\ set # {} /\ ~ compatible /\ ~ hinted

\* What the model may propose and the verification accepts.
Accepted(down, compatible, hinted) ==
  LET bump == BumpSet(down) over == OverrideSet(down)
      forced == EscalationRequired(bump \cup over, compatible, hinted) IN
  {Bump(BumpTarget, v, bump) : v \in {w \in bump : ~ forced}}
    \cup {Bump("override", v, over) : v \in {w \in over : ~ forced}}
    \cup (IF hinted /\ ~ forced THEN {Act("pivot")} ELSE {})
    \cup (IF cause = "peer" /\ (IsMaven \/ ~ compatible) THEN {Act("refer")} ELSE {})

\* A registry that does not answer leaves the verification pending.
RegistryDown == Decided(Act("pending"))

Proposes(down, compatible, hinted) ==
  model /\ \E c \in Accepted(down, compatible, hinted) : Decided(c)

\* A proposal that is rejected, and not repaired, leaves the pass to the planner.
ProposesBadly(forced) == model /\ Decided(IF forced THEN Act("refer") ELSE NoChoice)

\* No key, no answer, or nothing that can be read as an action.
ProposesNothing(down, forced) ==
  Decided(IF forced THEN Act("refer") ELSE IF FirstTry THEN Fallback(down) ELSE NoChoice)

Tactical ==
  /\ pc = "decide"
  /\ IF cause = "inconclusive" \/ PivotCandidate THEN Decided(NoChoice)
     ELSE \E down, compatible, hinted \in BOOLEAN :
       LET offered == BumpSet(down) \cup OverrideSet(down)
           forced == EscalationRequired(offered, compatible, hinted) IN
       \/ RegistryDown
       \/ Proposes(down, compatible, hinted)
       \/ ProposesBadly(forced)
       \/ ProposesNothing(down, forced)
  /\ UNCHANGED <<facts, history>>

-----------------------------------------------------------------------------
(* The deterministic planner                                               *)

\* npm: the first version of the allowlist that was not attempted.
NpmPlan ==
  LET left == SelectSeq(<<sel>> \o allowed, LAMBDA v : v \in Range(allowed) \ diag.tried) IN
  [action |-> IF left = <<>> THEN "pivot" ELSE "retry", stage |-> stage,
   sel |-> IF left = <<>> THEN Unset ELSE left[1], target |-> target,
   considered |-> Range(allowed), latest |-> Last(allowed), exhausted |-> left = <<>>,
   current |-> TRUE]

\* Maven: the release of the stage, then of the next stage, within what the
\* diagnostics list.  A registry that fails counts as one that has no release.
MavenPlan(down) ==
  LET listed == IF diag.target = "own" THEN diag.considered ELSE {}
      At(s) == {v \in MavenPick(s, diag.tried) : ~ down /\ (listed = {} \/ v \in listed)}
      s == IF stage = Minimum /\ At(Minimum) # {} THEN Minimum ELSE Newest
      found == At(s) IN
  [action |-> IF found = {} THEN "pivot" ELSE "retry", stage |-> s,
   sel |-> IF found = {} THEN Unset ELSE Max(found), target |-> "own",
   considered |-> IF listed # {} THEN listed ELSE IF down THEN {} ELSE {1, Latest},
   latest |-> IF down \/ (listed # {} /\ Latest \notin listed) THEN Unset ELSE Latest,
   exhausted |-> found = {}, current |-> TRUE]

\* _planner_plan_violations, as far as a plan built above can break a rule.
Sound(p) ==
  /\ p.sel \notin diag.tried
  /\ p.stage = Newest /\ p.sel # Unset /\ p.latest # Unset => p.sel = p.latest
  /\ p.action = "pivot" => p.stage = Newest

\* The repair at the newest stage knows one candidate, the newest; below it any
\* considered one.  With none left the path is exhausted at the newest stage.
Repaired(p) ==
  LET open == (IF p.stage = Newest THEN {p.latest} ELSE {p.latest} \cup p.considered)
                \ (diag.tried \cup {Unset})
      v == IF p.latest \in open THEN p.latest ELSE Min(open) IN
  IF open = {}
  THEN [p EXCEPT !.stage = Newest, !.sel = Unset, !.exhausted = TRUE, !.action = "pivot"]
  ELSE [p EXCEPT !.sel = v, !.exhausted = FALSE, !.action = "retry",
                 !.considered = @ \cup {v}]

\* The planner never reopens a path that must pivot.
MayPlan == status = "NEEDS_RETRY" /\ stage # Override /\ ~ PivotCandidate

Commit(p) ==
  /\ stage' = p.stage /\ sel' = p.sel /\ exhausted' = p.exhausted /\ target' = p.target
  /\ diag' = [diag EXCEPT !.considered = p.considered, !.target = p.target,
                          !.exhausted = p.exhausted]

Build(down) == IF IsMaven THEN MavenPlan(down) ELSE NpmPlan

Plan ==
  /\ pc = "plan"
  /\ pc' = "cap"
  /\ IF MayPlan
     THEN \E down \in BOOLEAN :
            LET p == Build(down) q == IF Sound(p) THEN p ELSE Repaired(p) IN
            IF Sound(q) THEN Commit(q) /\ rplan' = q
            ELSE UNCHANGED <<rplan, stage, sel, exhausted, target, diag>>
     ELSE UNCHANGED <<rplan, stage, sel, exhausted, target, diag>>
  /\ UNCHANGED <<facts, status, retries, allowed, planned, pool, cause, choice, replans, history>>

-----------------------------------------------------------------------------
(* The rest of the pass                                                    *)

End(s) ==
  /\ status' = s /\ pc' = "done" /\ sel' = Unset
  /\ UNCHANGED <<retries, stage, target, exhausted, allowed, planned, rplan, diag, pool, cause,
                 choice, replans>>

Goto(l) ==
  /\ pc' = l
  /\ UNCHANGED <<status, retries, stage, sel, target, exhausted, allowed, planned, rplan, diag,
                 pool, cause, choice, replans>>

\* A task is spent after its retries, unless it pivots or an override is pending.
Spent ==
  /\ status = "NEEDS_RETRY" /\ retries >= MaxRetries
  /\ ~ PivotCandidate /\ choice.act # "pivot"
  /\ ~ (choice.act = "bump" /\ choice.stage = Override)

Cap ==
  /\ pc = "cap"
  /\ IF Spent THEN End("UNFIXABLE") ELSE Goto("route")
  /\ UNCHANGED <<facts, history>>

\* Stage and target must be those of the committed solver decision; an exhausted npm
\* path may have moved to its newest stage.
Stale ==
  \/ target # planned.target
  \/ stage # planned.stage /\ ~ (~ IsMaven /\ exhausted /\ stage = Newest /\ sel = Unset)

Enter ==
  /\ pc = "enter"
  /\ Goto(IF Stale THEN "portfolio" ELSE "decide")
  /\ UNCHANGED <<facts, history>>

\* The guardrail puts the text of the committed plan in place of the revised
\* instructions, and a staged choice is committed only if its own text is there.
Survives == ~ (status = "NEEDS_RETRY" /\ rplan.action = "retry")

CommitChoice ==
  /\ stage' = choice.stage /\ sel' = choice.sel /\ target' = choice.target
  /\ exhausted' = FALSE
  /\ rplan' = [NoPlan EXCEPT !.action = "retry", !.stage = choice.stage, !.sel = choice.sel,
                             !.target = choice.target, !.considered = choice.considered,
                             !.current = TRUE]
  /\ diag' = [diag EXCEPT !.considered = choice.considered, !.target = choice.target]

Dispatchable ==
  /\ pc' = "authorise" /\ choice' = NoChoice
  /\ UNCHANGED <<status, retries, allowed, planned, pool, cause, replans>>

\* A stale portfolio plan replaces the decision of the pass.
Route ==
  /\ pc = "route"
  /\ \/ Stale /\ Goto("portfolio")
     \/ ~ Stale /\ (choice.act = "pivot" \/ PivotCandidate) /\ End("PIVOTED")
     \/ ~ Stale /\ choice.act = "refer" /\ End("UNFIXABLE")
     \/ ~ Stale /\ choice.act = "pending" /\ End("INCONCLUSIVE")
     \/ /\ ~ Stale /\ ~ PivotCandidate /\ choice.act \in {"bump", "none"}
        /\ IF choice.act = "bump" /\ Survives THEN CommitChoice
           ELSE UNCHANGED <<stage, sel, target, exhausted, rplan, diag>>
        /\ Dispatchable
  /\ UNCHANGED <<facts, history>>

\* The versions a dispatch may carry: the allowlist, narrowed by the current retry
\* plan, without what was attempted.
Open(p) ==
  LET listed == IF p.current /\ p.considered # {} THEN p.considered ELSE Versions IN
  (Range(allowed) \cap listed) \ diag.tried

\* The version may be one that was attempted only for a peer that delta isolation cleared
\* (allow_attempted_selected_version): the one task here is in no failed cluster, so that
\* _validated_delta_replay_candidate finds no record; TaskLifecycle has it as MayReplay.
Authorised(p, v, t) ==
  /\ v # Unset /\ v \in Open(p)
  /\ p.current => t = p.target /\ (p.sel # Unset => v = p.sel)

\* A worker may fall back to any version of the allowlist it is given.
Send(p, v, t) ==
  /\ pc' = "work"
  /\ pool' = IF pool[t] = {} THEN [pool EXCEPT ![t] = Open(p)] ELSE pool
  /\ dispatches' = dispatches + 1

\* Once more the planner, without its repair; then the task is inconclusive, except
\* that an exhausted one is left for the router, which may send it out again.
Authorise ==
  /\ pc = "authorise"
  /\ \/ /\ Authorised(rplan, sel, target) /\ Send(rplan, sel, target)
        /\ UNCHANGED <<status, retries, stage, sel, target, exhausted, allowed, planned, rplan,
                       diag, cause, choice, replans>>
     \/ /\ ~ Authorised(rplan, sel, target) /\ MayPlan
        /\ \E down \in BOOLEAN :
             LET p == Build(down) IN
             /\ Sound(p) /\ Commit(p)
             /\ IF Authorised(p, p.sel, p.target)
                THEN Send(p, p.sel, p.target) /\ rplan' = p /\ UNCHANGED status
                ELSE /\ pc' = IF p.exhausted THEN "reroute" ELSE "done"
                     /\ status' = IF p.exhausted THEN status ELSE "INCONCLUSIVE"
                     /\ rplan' = NoPlan
                     /\ UNCHANGED <<pool, dispatches>>
        /\ UNCHANGED <<retries, allowed, planned, cause, choice, replans>>
     \/ /\ ~ Authorised(rplan, sel, target)
        /\ MayPlan => \E down \in BOOLEAN : ~ Sound(Build(down))
        /\ IF exhausted THEN pc' = "reroute" /\ UNCHANGED status
                        ELSE pc' = "done" /\ status' = "INCONCLUSIVE"
        /\ rplan' = NoPlan
        /\ UNCHANGED <<retries, stage, sel, target, exhausted, allowed, planned, diag, pool, cause,
                       choice, replans, dispatches>>
  /\ UNCHANGED <<facts, ran>>

\* The second routing of the pass: a pivot, or the same dispatch without a snapshot,
\* which the worker wrapper refuses.
Reroute ==
  /\ pc = "reroute"
  /\ IF PivotCandidate THEN End("PIVOTED") ELSE Goto("enter")
  /\ UNCHANGED <<facts, history>>

\* Mutant: only the selected version counts as attempted.
FailsOfSelected(installed, c) ==
  /\ status' = "NEEDS_RETRY" /\ retries' = retries + 1 /\ sel' = Unset /\ cause' = c
  /\ rplan' = [rplan EXCEPT !.current = FALSE]
  /\ diag' = [diag EXCEPT !.tried = @ \cup {sel}, !.considered = @ \cup Open(rplan)]
  /\ pc' = "decide"

\* The retry plan is about an older revision of the task once its attempt is closed.
Fails(installed, c) ==
  /\ status' = "NEEDS_RETRY" /\ retries' = retries + 1 /\ sel' = Unset /\ cause' = c
  /\ rplan' = [rplan EXCEPT !.current = FALSE]
  /\ diag' = [diag EXCEPT !.tried = @ \cup installed, !.considered = @ \cup Open(rplan)]
  /\ pc' = "decide"

Work ==
  /\ pc = "work"
  /\ \E installed \in SUBSET Open(rplan) :
       /\ sel \in installed
       /\ ran' = [ran EXCEPT ![target] = @ \cup installed]
       /\ \/ status' = "QA_PASSED" /\ pc' = "done" /\ UNCHANGED <<retries, sel, cause, rplan, diag>>
          \/ \E c \in Causes : Fails(installed, c)
  /\ UNCHANGED <<facts, stage, target, exhausted, allowed, planned, pool, choice, replans,
                 dispatches>>

\* A new portfolio plan: for the target and the stage the task has reached.
Replan ==
  /\ pc = "portfolio"
  /\ IF replans = MaxReplans THEN pc' = "bound" /\ UNCHANGED <<allowed, sel, planned, rplan, replans>>
     ELSE /\ replans' = replans + 1 /\ pc' = "enter"
          /\ \E a \in Allowlists(target) : allowed' = a /\ sel' = a[1]
          /\ planned' = [stage |-> stage, target |-> target]
          /\ rplan' = [rplan EXCEPT !.current = FALSE]
  /\ choice' = NoChoice
  /\ UNCHANGED <<facts, status, retries, stage, target, exhausted, diag, pool, cause, history>>

Finished == pc \in {"done", "bound"} /\ UNCHANGED vars

Pass == Tactical \/ Plan \/ Cap \/ Enter \/ Route \/ Authorise \/ Reroute
Next == Pass \/ Work \/ Replan \/ Finished

Spec == Init /\ [][Next]_vars
\* The graph runs the next node as long as there is one.
FairSpec == Spec /\ WF_vars(Pass \/ Work \/ Replan)

-----------------------------------------------------------------------------
(* Properties                                                              *)

\* No dispatch selects a version that a worker already installed for the same target,
\* as its selected version or as a fallback: not after a replan, a repair or a choice
\* of the model (_ordered_update_candidates and the bookkeeping of worker results).
NothingReplayed == [][dispatches' # dispatches => sel' \notin ran[target']]_vars

\* Does not hold (run LadderLoops): every ladder comes to an end, "fail-closed an empty worker route" (supervisor_node).
LadderEnds == <>(pc \in {"done", "bound"})
=============================================================================
