--------------------------- MODULE AppointmentAtom --------------------------
(***************************************************************************)
(* The Appointment atom (apps/atoms/appointment/src/service.ts): slot      *)
(* claims on a Contractor's time and the Appointments booked on them.      *)
(*                                                                         *)
(* A claim is named by the operation id that inserts it (a unique column)  *)
(* and an Appointment by its claim (appointments_slot_claim_id_idx is      *)
(* unique), so one id names both.  Slots are half-open intervals, written  *)
(* as pairs <<start, end>>.  Every operation locks the row it decides on   *)
(* and is one action.                                                      *)
(***************************************************************************)
EXTENDS Naturals, FiniteSets

CONSTANTS
    Cases, Contractors,
    AttemptIds,     \* Allocation Attempts
    ClaimIds,       \* operation ids of reservations and replacements
    OpIds,          \* operation ids of completions
    Slots,          \* the intervals that are ever requested
    NONE

VARIABLES
    claim,          \* claim id -> slot claim row, NoClaim if absent
    appointment,    \* claim id -> status of the Appointment booked on it
    visitOp         \* claim id -> completion_operation_id of that Appointment

appointmentVars == <<claim, appointment, visitOp>>

ASSUME SlotsAreIntervals ==
    /\ Slots \subseteq Nat \X Nat
    /\ \A s \in Slots : s[1] < s[2]

AppointmentStatus == {"scheduled", "in_progress", "no_access", "rescheduled",
                      "cancelled", "missed", "completed"}
ClaimStatus == {"HELD", "ACTIVE", "RELEASED"}

ASSUME NoneIsNull ==
    /\ NONE \notin Cases \cup Contractors \cup AttemptIds \cup OpIds
    /\ NONE \notin AppointmentStatus

NoClaim == [status |-> "ABSENT", case |-> NONE, attempt |-> NONE,
            contractor |-> NONE, slot |-> NONE]
ClaimRow == [status : ClaimStatus, case : Cases, attempt : AttemptIds,
             contractor : Contractors, slot : Slots]

AppointmentTypeOK ==
    /\ claim \in [ClaimIds -> ClaimRow \cup {NoClaim}]
    /\ appointment \in [ClaimIds -> AppointmentStatus \cup {NONE}]
    /\ visitOp \in [ClaimIds -> OpIds \cup {NONE}]

AppointmentInit ==
    /\ claim = [x \in ClaimIds |-> NoClaim]
    /\ appointment = [x \in ClaimIds |-> NONE]
    /\ visitOp = [x \in ClaimIds |-> NONE]

Overlap(s, t) == s[1] < t[2] /\ t[1] < s[2]

\* Defect (as all operators named ...Defect, never part of a specification): a
\* slot that is only held blocks nobody.
HeldIsFreeDefect(k) ==
    {x \in ClaimIds : claim[x].contractor = k /\ claim[x].status = "ACTIVE"}

\* The rows appointment_slot_claims_contractor_interval_excl looks at.
BlockingClaims(k) ==
    {x \in ClaimIds : claim[x].contractor = k /\ claim[x].status \in {"HELD", "ACTIVE"}}

SlotTaken(k, slot, except) ==
    \E x \in BlockingClaims(k) \ except : Overlap(claim[x].slot, slot)

Live(x) == appointment[x] \in {"scheduled", "in_progress"}

\* The rows appointments_one_live_per_attempt looks at.
LiveForAttempt(a) == {x \in ClaimIds : claim[x].attempt = a /\ Live(x)}

VisitsOf(c) == {x \in ClaimIds : claim[x].case = c /\ appointment[x] # NONE}

-----------------------------------------------------------------------------
(* Reserve, confirm, release: the slot half of an acceptance *)

\* A claim the operation already owns is answered HELD whatever became of it.
ReserveOutcome(x, k, slot, past) ==
    IF claim[x] # NoClaim THEN "HELD"
    ELSE IF past THEN "PAST"
    ELSE IF SlotTaken(k, slot, {}) THEN "CONFLICT"
    ELSE "HELD"

ReserveAppointmentSlot(x, c, a, k, slot, past, out) ==
    /\ out = ReserveOutcome(x, k, slot, past)
    /\ claim' = IF out = "HELD" /\ claim[x] = NoClaim
                THEN [claim EXCEPT ![x] = [status |-> "HELD", case |-> c,
                                           attempt |-> a, contractor |-> k,
                                           slot |-> slot]]
                ELSE claim
    /\ UNCHANGED <<appointment, visitOp>>

ConfirmOutcome(x) ==
    IF appointment[x] # NONE THEN "CONFIRMED"
    ELSE IF claim[x] = NoClaim THEN "CLAIM_NOT_FOUND"
    ELSE IF claim[x].status # "HELD" THEN "CLAIM_NOT_HELD"
    ELSE "CONFIRMED"

\* A second live Appointment of the Attempt fails the transaction instead.
ConfirmAppointmentSlot(x, out) ==
    /\ out = ConfirmOutcome(x)
    /\ IF out = "CONFIRMED" /\ appointment[x] = NONE
       THEN /\ LiveForAttempt(claim[x].attempt) = {}
            /\ appointment' = [appointment EXCEPT ![x] = "scheduled"]
            /\ claim' = [claim EXCEPT ![x].status = "ACTIVE"]
       ELSE UNCHANGED <<appointment, claim>>
    /\ UNCHANGED visitOp

\* Defect: a claim that was confirmed is released too.
ReleaseActiveDefect(x) ==
    IF claim[x].status = "ABSENT" THEN "CLAIM_NOT_FOUND" ELSE "RELEASED"

ReleaseOutcome(x) ==
    CASE claim[x].status = "ABSENT" -> "CLAIM_NOT_FOUND"
      [] claim[x].status = "ACTIVE" -> "CLAIM_ACTIVE"
      [] OTHER -> "RELEASED"

ReleaseAppointmentSlot(x, out) ==
    /\ out = ReleaseOutcome(x)
    /\ claim' = IF out = "RELEASED" THEN [claim EXCEPT ![x].status = "RELEASED"]
                ELSE claim
    /\ UNCHANGED <<appointment, visitOp>>

-----------------------------------------------------------------------------
(* The visit: started, unattended, failed, completed *)

\* Defect: the status an Appointment leaves is not asked.
AnyStatusDefect(x, k, to, done, already) ==
    IF appointment[x] = NONE THEN "APPOINTMENT_NOT_FOUND"
    ELSE IF k # NONE /\ claim[x].contractor # k THEN "WRONG_CONTRACTOR"
    ELSE IF appointment[x] = to THEN already
    ELSE done

\* One status-idempotent transition of a scheduled Appointment; the slot claim
\* stays as it is.  `already` is the outcome of a repeated call.
LeaveScheduledOutcome(x, k, to, done, already) ==
    IF appointment[x] = NONE THEN "APPOINTMENT_NOT_FOUND"
    ELSE IF k # NONE /\ claim[x].contractor # k THEN "WRONG_CONTRACTOR"
    ELSE IF appointment[x] = to THEN already
    ELSE IF appointment[x] # "scheduled" THEN "NOT_SCHEDULED"
    ELSE done

LeaveScheduled(x, to, done, out) ==
    /\ appointment' = IF out = done THEN [appointment EXCEPT ![x] = to] ELSE appointment
    /\ UNCHANGED <<claim, visitOp>>

StartVisitOutcome(x, k) ==
    LeaveScheduledOutcome(x, k, "in_progress", "STARTED", "ALREADY_STARTED")
StartWorkAppointment(x, k, out) ==
    out = StartVisitOutcome(x, k) /\ LeaveScheduled(x, "in_progress", "STARTED", out)

NoAccessOutcome(x, k) ==
    LeaveScheduledOutcome(x, k, "no_access", "NO_ACCESS", "ALREADY_NO_ACCESS")
ReportNoAccessAppointment(x, k, out) ==
    out = NoAccessOutcome(x, k) /\ LeaveScheduled(x, "no_access", "NO_ACCESS", out)

\* Workflow-owned: no Contractor is checked.
MissedOutcome(x) ==
    LeaveScheduledOutcome(x, NONE, "missed", "MISSED", "ALREADY_MISSED")
MarkAppointmentMissed(x, out) ==
    out = MissedOutcome(x) /\ LeaveScheduled(x, "missed", "MISSED", out)

\* Defect: a visit that another operation completed counts as completed by this one.
AnyCompletionDefect(x, k, op) ==
    IF appointment[x] = NONE THEN "APPOINTMENT_NOT_FOUND"
    ELSE IF claim[x].contractor # k THEN "WRONG_CONTRACTOR"
    ELSE IF appointment[x] = "completed" THEN "ALREADY_COMPLETED"
    ELSE IF appointment[x] # "in_progress" THEN "NOT_IN_PROGRESS"
    ELSE "COMPLETED"

CompleteVisitOutcome(x, k, op) ==
    IF appointment[x] = NONE THEN "APPOINTMENT_NOT_FOUND"
    ELSE IF claim[x].contractor # k THEN "WRONG_CONTRACTOR"
    ELSE IF appointment[x] = "completed"
         THEN IF visitOp[x] = op THEN "ALREADY_COMPLETED"
              ELSE "COMPLETION_OPERATION_CONFLICT"
    ELSE IF appointment[x] # "in_progress" THEN "NOT_IN_PROGRESS"
    ELSE "COMPLETED"

CompleteAppointment(x, k, op, out) ==
    /\ out = CompleteVisitOutcome(x, k, op)
    /\ IF out = "COMPLETED"
       THEN /\ appointment' = [appointment EXCEPT ![x] = "completed"]
            /\ visitOp' = [visitOp EXCEPT ![x] = op]
       ELSE UNCHANGED <<appointment, visitOp>>
    /\ UNCHANGED claim

-----------------------------------------------------------------------------
(* Cancellation and replacement *)

CancelVisitOutcome(c) ==
    CASE \E x \in VisitsOf(c) : appointment[x] = "in_progress" -> "IN_PROGRESS"
      [] \A x \in VisitsOf(c) : ~Live(x) ->
             IF \E x \in VisitsOf(c) : appointment[x] = "cancelled"
             THEN "ALREADY_CANCELLED" ELSE "NO_SCHEDULED_APPOINTMENT"
      [] OTHER -> "CANCELLED"

\* Cancels one scheduled Appointment of the Case and releases its slot; rows of
\* failed visits keep their outcome and their claim.
CancelScheduledAppointment(c, out) ==
    /\ out = CancelVisitOutcome(c)
    /\ IF out = "CANCELLED"
       THEN \E x \in VisitsOf(c) :
               /\ appointment[x] = "scheduled"
               /\ appointment' = [appointment EXCEPT ![x] = "cancelled"]
               /\ claim' = [claim EXCEPT ![x].status = "RELEASED"]
       ELSE UNCHANGED <<appointment, claim>>
    /\ UNCHANGED visitOp

Replaceable == {"scheduled", "no_access", "missed"}

\* Defect: a visit that is under way is replaced too.
ReplaceStartedDefect(x, y, c, slot) ==
    IF appointment[x] = NONE THEN "APPOINTMENT_NOT_FOUND"
    ELSE IF appointment[y] # NONE THEN "ALREADY_REPLACED"
    ELSE IF claim[x].case # c THEN "CASE_MISMATCH"
    ELSE IF appointment[x] \notin Replaceable \cup {"in_progress"} THEN "NOT_REPLACEABLE"
    ELSE IF SlotTaken(claim[x].contractor, slot, {x}) THEN "CONFLICT"
    ELSE IF \E z \in LiveForAttempt(claim[x].attempt) : z # x THEN "NOT_REPLACEABLE"
    ELSE "REPLACED"

\* `x` is replaced by a new Appointment on the new claim `y`.  The old claim is
\* released before the new one is inserted, so it does not block it; a clash
\* with another claim rolls the whole transaction back.
ReplaceOutcome(x, y, c, slot) ==
    IF appointment[x] = NONE THEN "APPOINTMENT_NOT_FOUND"
    ELSE IF appointment[y] # NONE THEN "ALREADY_REPLACED"
    ELSE IF claim[x].case # c THEN "CASE_MISMATCH"
    ELSE IF appointment[x] \notin Replaceable THEN "NOT_REPLACEABLE"
    ELSE IF SlotTaken(claim[x].contractor, slot, {x}) THEN "CONFLICT"
    ELSE IF \E z \in LiveForAttempt(claim[x].attempt) : z # x THEN "NOT_REPLACEABLE"
    ELSE "REPLACED"

ReplaceAppointmentSlot(x, y, c, slot, out) ==
    /\ out = ReplaceOutcome(x, y, c, slot)
    /\ IF out = "REPLACED"
       THEN /\ claim' = [claim EXCEPT
                   ![x].status = "RELEASED",
                   ![y] = [claim[x] EXCEPT !.status = "ACTIVE", !.slot = slot]]
            /\ appointment' = [appointment EXCEPT
                   ![x] = IF @ = "scheduled" THEN "rescheduled" ELSE @,
                   ![y] = "scheduled"]
       ELSE UNCHANGED <<claim, appointment>>
    /\ UNCHANGED visitOp

-----------------------------------------------------------------------------
(* The atom by itself: any caller may invoke any operation at any time.  A  *)
(* reservation and a replacement never share an operation id (the second    *)
(* ends in /claim), so a replacement's claim id has no claim before it.  An  *)
(* Attempt is one offer: its claims name one Case and one Contractor.       *)

BookingStep ==
    \E x \in ClaimIds :
        \/ \E c \in Cases, a \in AttemptIds, k \in Contractors, s \in Slots :
           \E past \in BOOLEAN :
              /\ \A y \in ClaimIds : claim[y].attempt = a =>
                     claim[y].case = c /\ claim[y].contractor = k
              /\ ReserveAppointmentSlot(x, c, a, k, s, past,
                                        ReserveOutcome(x, k, s, past))
        \/ ConfirmAppointmentSlot(x, ConfirmOutcome(x))
        \/ ReleaseAppointmentSlot(x, ReleaseOutcome(x))

VisitStep ==
    \E x \in ClaimIds :
        \/ \E k \in Contractors :
              \/ StartWorkAppointment(x, k, StartVisitOutcome(x, k))
              \/ ReportNoAccessAppointment(x, k, NoAccessOutcome(x, k))
              \/ \E op \in OpIds :
                    CompleteAppointment(x, k, op, CompleteVisitOutcome(x, k, op))
        \/ MarkAppointmentMissed(x, MissedOutcome(x))

RescheduleStep ==
    \E c \in Cases :
        \/ CancelScheduledAppointment(c, CancelVisitOutcome(c))
        \/ \E x, y \in ClaimIds, s \in Slots :
              /\ x # y
              /\ claim[y] = NoClaim \/ appointment[y] # NONE
              /\ ReplaceAppointmentSlot(x, y, c, s, ReplaceOutcome(x, y, c, s))

AppointmentNext == BookingStep \/ VisitStep \/ RescheduleStep

AppointmentSpec == AppointmentInit /\ [][AppointmentNext]_appointmentVars

-----------------------------------------------------------------------------
(* Properties *)

\* A live visit owns its time: while an Appointment is scheduled or in progress
\* its slot claim is ACTIVE.  Confirmation, replacement and cancellation each
\* move both rows in one transaction; a release that ignored ACTIVE would not.
LiveVisitOwnsItsSlot == \A x \in ClaimIds : Live(x) => claim[x].status = "ACTIVE"

\* A Contractor is never booked into two live visits at overlapping times,
\* whichever Cases they belong to and however often either was replaced.
NoDoubleBooking ==
    \A x, y \in ClaimIds :
        (/\ x # y /\ Live(x) /\ Live(y)
         /\ claim[x].contractor = claim[y].contractor)
        => ~Overlap(claim[x].slot, claim[y].slot)

\* A replacement that clashes leaves the original schedule standing: the old
\* slot of a live visit is given up only together with that visit.
SlotAndVisitAreGivenUpTogether ==
    [][\A x \in ClaimIds :
          (Live(x) /\ claim[x].status = "ACTIVE" /\ claim'[x].status # "ACTIVE")
          => appointment'[x] \in {"rescheduled", "cancelled"}]_appointmentVars

\* Failed and finished visits are history: no later transition, replacement or
\* cancellation rewrites what was recorded of them.
RecordedOutcomesAreFinal ==
    [][\A x \in ClaimIds :
          appointment[x] \in AppointmentStatus \ {"scheduled", "in_progress"}
          => appointment'[x] = appointment[x]]_appointmentVars
=============================================================================
