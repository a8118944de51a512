--------------------------- MODULE MCCaseWorkflow ---------------------------
(* The Updates of each run.  An Update id is a pair <<kind, number>>.        *)
EXTENDS CaseWorkflow, TLC

MCKindOf == [u \in Updates |-> u[1]]
MCSlots == {<<1, 2>>, <<3, 4>>}

\* No Contractor is preferred: which candidate ranks first is left open.
ContractorSymmetry == Permutations(Contractors)

Offers == {<<"open", 1>>, <<"accept", 1>>, <<"accept", 2>>, <<"cancel", 1>>}
Overrides == {<<"open", 1>>, <<"manual", 1>>, <<"accept", 1>>}
Visits == {<<"open", 1>>, <<"accept", 1>>, <<"start", 1>>, <<"noAccess", 1>>, <<"replace", 1>>,
           <<"start", 2>>, <<"complete", 1>>, <<"cancel", 1>>}
Attendance == {<<"open", 1>>, <<"accept", 1>>, <<"noAccess", 1>>, <<"cancel", 1>>}
Reschedules == {<<"open", 1>>, <<"accept", 1>>, <<"replace", 1>>}
Starts == {<<"open", 1>>, <<"accept", 1>>, <<"start", 1>>}
Abandons == {<<"open", 1>>, <<"cancel", 1>>}
Recoveries == {<<"open", 1>>, <<"accept", 1>>, <<"noAccess", 1>>, <<"replace", 1>>, <<"cancel", 1>>}

\* An action constraint: a visit is either moved, or its work is reported as finished
\* and meanwhile either started a second time or called off.
MovedOrWorked ==
    LET asked(reports) == \E u \in reports : upd'[u].pc # "new"
        moves == {u \in Updates : KindOf[u] \in {"noAccess", "replace"}}
        again == {<<"start", 2>>}
        finished == {u \in Updates : KindOf[u] = "complete"}
        cancelled == {u \in Updates : KindOf[u] = "cancel"}
    IN /\ ~(asked(moves) /\ asked(again \cup finished \cup cancelled))
       /\ ~(asked(again) /\ asked(cancelled))
       /\ asked(again) => asked({<<"start", 1>>})
=============================================================================
