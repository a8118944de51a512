---------------------------- MODULE MCClientForms ---------------------------
(* A desk that opens Cases, a form that moves visits and one that completes a *)
(* Case; two Residents, the e-mail of one of whom is taken.                   *)
EXTENDS ClientForms

MCFormKind == [f \in Forms |-> CASE f = "desk" -> "fresh"
                                 [] f = "visit" -> "kept"
                                 [] f = "report" -> "perPayload"]

\* An action constraint: forms share no state, and only the desk's asks about a
\* Resident, so one form is used at a time, and the others' without Residents.
OneForm ==
    /\ \A f, g \in Forms : form'[f].drawn > 0 /\ form'[g].drawn > 0 => f = g
    /\ \A f \in Forms \ {"desk"} : form'[f].drawn > 0 => account' = {}
=============================================================================
