--------------------------- MODULE MCCommandPath ---------------------------
(* The Updates of each run, as in MCCaseWorkflow.                            *)
EXTENDS CommandPath, TLC

MCKindOf == [u \in Updates |-> u[1]]
MCSlots == {<<1, 2>>}
MCOpening == <<"open", 1>>
MCVisit == <<"accept", 1>>
Accepted == {MCOpening, MCVisit}

Commands == Accepted \cup {<<"start", 1>>, <<"complete", 1>>, <<"complete", 2>>}
Cancels == Accepted \cup {<<"cancel", 1>>}
Report == Accepted \cup {<<"start", 1>>, <<"complete", 1>>}
EarlyStarts == Accepted \cup {<<"start", 1>>}

Mixed == Report \cup Cancels
Once == [u \in Updates |-> IF u \in Accepted THEN 0 ELSE 1]
Twice == [u \in Updates |-> IF u \in Accepted THEN 0 ELSE IF u[2] = 2 THEN 1 ELSE 2]
ReportTwice == [u \in Updates |-> IF KindOf[u] = "complete" THEN 2
                                  ELSE IF u \in Accepted THEN 0 ELSE 1]

\* An action constraint: nobody reports a completion before work is in progress.
ReportsFollowWork ==
    \A d \in Calls : (KindOf[d[1]] = "complete" /\ call[d].pc = "new" /\ call'[d].pc # "new")
                     => Status \in {"in_progress", "completed"}

\* ... and the lookups of a first request get through: else it leaves only its answer.
\* Either the start is repeated or a second completion is reported.
OneRepeatOrRival ==
    /\ ReportsFollowWork /\ \A d \in Calls : d[2] = 1 => ~call'[d].missed
    /\ \A d, e \in Calls :
          (KindOf[d[1]] = "start" /\ d[2] = 2 /\ e[1] = <<"complete", 2>>)
          => call'[d].pc = "new" \/ call'[e].pc = "new"

\* ... and everybody waits for the answer.
ReportsAndWaits ==
    ReportsFollowWork /\ \A d \in Calls : call'[d].answer # "RETRY"

MCCited == [u \in Updates |-> {"before", "after"}]
NothingCited == [u \in Updates |-> {}]
MCUploads == {<<"before", "BEFORE", "x", 1>>, <<"before", "BEFORE", "y", 2>>,
              <<"after", "AFTER", "x", 1>>}
=============================================================================
