---------------------------- MODULE Certification ---------------------------
(***************************************************************************)
(* What a portfolio certificate promises, whatever the ecosystem: the       *)
(* assignment that is certified is one the package manager accepts, and     *)
(* nothing that is worth more was passed over; a portfolio is rejected only *)
(* when nothing is left; anything else is unknown.                          *)
(***************************************************************************)
EXTENDS Integers

VARIABLES
    offers,     \* the assignments the constraints admit, each with those worth more
    good,       \* those the package manager accepts
    out,        \* those ruled out so far, tried or not
    answer,     \* "open", "certified", "rejected" or "unknown"
    chosen      \* the certified assignment, if any

certVars == <<offers, good, out, answer, chosen>>

Left == {o \in offers : o.plan \notin out}
Cheapest(o) == \A x \in Left : x.plan \notin o.better

CertInit == out = {} /\ answer = "open" /\ chosen = {}
\* Ruling out never takes back, and only happens while the question is open.
RuleOut ==
    /\ answer = "open" /\ out \subseteq out' /\ out' # out
    /\ UNCHANGED <<offers, good, answer, chosen>>
Certify ==
    /\ answer = "open"
    /\ \E o \in Left : Cheapest(o) /\ o.plan \in good /\ chosen' = {o.plan}
    /\ answer' = "certified"
    /\ UNCHANGED <<offers, good, out>>
Reject ==
    /\ answer = "open" /\ Left = {} /\ out # {}
    /\ answer' = "rejected"
    /\ UNCHANGED <<offers, good, out, chosen>>
GiveUp ==
    /\ answer = "open" /\ answer' = "unknown"
    /\ UNCHANGED <<offers, good, out, chosen>>

CertNext == RuleOut \/ Certify \/ Reject \/ GiveUp
CertSpec == CertInit /\ [][CertNext]_certVars
=============================================================================
