--------------------------- MODULE MCRunLifecycle ---------------------------
(* Two groups in two inputs; each run takes one of a few settings. *)
EXTENDS RunLifecycle

CONSTANTS g1, g2
MCInput(g) == IF g = g1 THEN "i1" ELSE "i2"
MCInputs == {"i1", "i2"}
Base == [given |-> {g1}, issues |-> {g1}, scanned |-> TRUE, java |-> FALSE, inventory |-> TRUE,
         final |-> FALSE, limited |-> FALSE, triage |-> TRUE]
\* Two groups that were given; a run that triages itself; a final scan with a limit;
\* a final scan without triage, inventory and baseline; Java without findings.
RunModes ==
  {[Base EXCEPT !.given = {g1, g2}, !.issues = {g1, g2}],
   [Base EXCEPT !.given = {}],
   [Base EXCEPT !.limited = TRUE, !.final = TRUE],
   [Base EXCEPT !.inventory = FALSE, !.scanned = FALSE, !.triage = FALSE, !.final = TRUE],
   [Base EXCEPT !.given = {}, !.issues = {}, !.java = TRUE]}
=============================================================================
