----------------------------- MODULE MCCaseReads ----------------------------
(* The Owner and another Resident, two Contractors and an Officer read a Case  *)
(* that is offered twice.                                                      *)
EXTENDS CaseReads, TLC

CONSTANTS c1, c2

Symmetry == Permutations({c1, c2})

\* An action constraint.  Nothing is of interest once the read is answered.  What
\* disturbs it is two writes or an atom that fails.  The properties speak of
\* one row at a time, so one beside the Attempts will do.  The calls of a phase go out
\* in one order, but for one of the two about Officer Attention.
FanOut == <<"ATTEMPTS", "ASSIGNMENT", "ASSIGNMENT_STATUS", "CASE_HISTORY",
            "APPOINTMENT", "PROOF_ITEM", "DERIVED_EFFECT", "ATTENTION_OPEN">>
Failures == {call \in DOMAIN read'.got : ~read'.got[call].ok}
Extra ==
    Len(visits') + Cardinality(proofs') + Cardinality(effects')
    + (IF attention' = "none" THEN 0 ELSE 1)
Bounded ==
    /\ read # NoRead => NextCalls # {}
    /\ Extra <= 1
    /\ read' # NoRead => 2 * Cardinality(Failures) + read'.writes <= 2
    /\ \A i \in DOMAIN FanOut :
          (read # NoRead /\ read' # read /\ FanOut[i] \in DOMAIN read'.got \ DOMAIN read.got)
          => \A j \in 1 .. i - 1 : FanOut[j] \notin NextCalls
=============================================================================
