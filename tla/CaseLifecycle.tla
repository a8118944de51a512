--------------------------- MODULE CaseLifecycle ---------------------------
(***************************************************************************)
(* What becomes of a Case and of the work on it, to somebody who knows     *)
(* neither the Workflow nor the calls between it and the three atoms.  The *)
(* work is begun and finished in the order visit, Assignment, Case, and it *)
(* is called off in the order Assignment, Case; in between an observer     *)
(* sees a record ahead of the next one, but never one behind it.           *)
(***************************************************************************)
CONSTANT NONE

VARIABLES
    work,           \* the Assignment
    visit,          \* the furthest that any visit of the Case has come
    end             \* how the Case ended

lifecycleVars == <<work, visit, end>>

LifecycleTypeOK ==
    /\ work \in {NONE, "PENDING_ACCEPTANCE", "ACCEPTED", "BREACHED", "IN_PROGRESS",
                 "COMPLETED", "CANCELLED"}
    /\ visit \in {NONE, "in_progress", "completed"}
    /\ end \in {NONE, "completed", "cancelled"}

LifecycleInit == work = NONE /\ visit = NONE /\ end = NONE

\* While the Case goes on, the Assignment goes from one of `before` to `after`.
Works(before, after) ==
    /\ end = NONE /\ work \in before
    /\ work' = after
    /\ UNCHANGED <<visit, end>>

Visits(before, after) == visit \in before /\ visit' = after /\ UNCHANGED <<work, end>>

Offer == Works({NONE, "BREACHED"}, "PENDING_ACCEPTANCE")
Accept == Works({"PENDING_ACCEPTANCE"}, "ACCEPTED")
Lapse == Works({"PENDING_ACCEPTANCE"}, "BREACHED")
Attend == Visits({NONE}, "in_progress")
Begin == visit # NONE /\ Works({"ACCEPTED"}, "IN_PROGRESS")
Report == work = "IN_PROGRESS" /\ Visits({"in_progress"}, "completed")
Finish == visit = "completed" /\ Works({"IN_PROGRESS"}, "COMPLETED")
CallOff == Works({"PENDING_ACCEPTANCE", "ACCEPTED", "BREACHED"}, "CANCELLED")

\* The Case ends last: completed after the work, cancelled when there is none.
End(before, after) ==
    /\ end = NONE /\ work \in before
    /\ end' = after
    /\ UNCHANGED <<work, visit>>

Complete == End({"COMPLETED"}, "completed")
Cancel == End({NONE, "CANCELLED"}, "cancelled")

LifecycleNext ==
    \/ Offer \/ Accept \/ Lapse \/ CallOff
    \/ Attend \/ Begin \/ Report \/ Finish
    \/ Complete \/ Cancel

LifecycleSpec == LifecycleInit /\ [][LifecycleNext]_lifecycleVars

\* An ended Case and its records agree, and go on agreeing.
EndsAgree ==
    /\ end = "completed" => work = "COMPLETED" /\ visit = "completed"
    /\ end = "cancelled" => work \in {NONE, "CANCELLED"}
=============================================================================
