-------------------------- MODULE AppointmentProofs -------------------------
(***************************************************************************)
(* What AppointmentAtom promises for every set of Contractors, claims and  *)
(* slots: type correctness, that live visits own their time and never      *)
(* overlap, and that recorded outcomes and the claims of live visits are   *)
(* not taken back.                                                         *)
(***************************************************************************)
EXTENDS AppointmentAtom, TLAPS

-----------------------------------------------------------------------------
(* Type correctness *)

\* A claim that belongs to a Case is a row.
LEMMA ClaimOfCase ==
    ASSUME AppointmentTypeOK, NEW x \in ClaimIds, claim[x] # NoClaim \/ claim[x].case \in Cases
    PROVE  claim[x] \in ClaimRow
  BY NoneIsNull DEF AppointmentTypeOK, NoClaim

\* A claim whose status changes is still a row.
LEMMA ClaimChange ==
    ASSUME NEW r \in ClaimRow, NEW s \in ClaimStatus
    PROVE  [r EXCEPT !.status = s] \in ClaimRow
  BY DEF ClaimRow

\* Every operation keeps the types.
LEMMA TypeStep == AppointmentTypeOK /\ [AppointmentNext]_appointmentVars => AppointmentTypeOK'
<1> SUFFICES ASSUME AppointmentTypeOK, [AppointmentNext]_appointmentVars
             PROVE  AppointmentTypeOK'
  OBVIOUS
<1>1. ASSUME NEW x \in ClaimIds, NEW c \in Cases, NEW a \in AttemptIds,
             NEW k \in Contractors, NEW s \in Slots, NEW past, NEW out,
             ReserveAppointmentSlot(x, c, a, k, s, past, out)
      PROVE  AppointmentTypeOK'
  BY <1>1 DEF ReserveAppointmentSlot, AppointmentTypeOK, ClaimRow, ClaimStatus
<1>2. ASSUME NEW x \in ClaimIds, NEW out, ConfirmAppointmentSlot(x, out)
      PROVE  AppointmentTypeOK'
  <2>1. CASE out = "CONFIRMED" /\ appointment[x] = NONE
    <3>1. claim[x] \in ClaimRow
      BY <1>2, <2>1, ClaimOfCase DEF ConfirmAppointmentSlot, ConfirmOutcome
    <3>2. claim' = [claim EXCEPT ![x] = [claim[x] EXCEPT !.status = "ACTIVE"]]
      BY <1>2, <2>1 DEF ConfirmAppointmentSlot, AppointmentTypeOK
    <3>3. claim' \in [ClaimIds -> ClaimRow \cup {NoClaim}]
      BY <3>1, <3>2, ClaimChange DEF AppointmentTypeOK, ClaimStatus
    <3> QED BY <1>2, <2>1, <3>3
            DEF ConfirmAppointmentSlot, AppointmentTypeOK, AppointmentStatus
  <2>2. CASE ~(out = "CONFIRMED" /\ appointment[x] = NONE)
    BY <1>2, <2>2 DEF ConfirmAppointmentSlot, AppointmentTypeOK
  <2> QED BY <2>1, <2>2
<1>3. ASSUME NEW x \in ClaimIds, NEW out, ReleaseAppointmentSlot(x, out)
      PROVE  AppointmentTypeOK'
  <2>1. CASE out = "RELEASED"
    <3>1. claim[x] \in ClaimRow
      BY <1>3, <2>1, ClaimOfCase DEF ReleaseAppointmentSlot, ReleaseOutcome, NoClaim
    <3>2. claim' = [claim EXCEPT ![x] = [claim[x] EXCEPT !.status = "RELEASED"]]
      BY <1>3, <2>1 DEF ReleaseAppointmentSlot, AppointmentTypeOK
    <3> QED BY <1>3, <3>1, <3>2, ClaimChange
            DEF ReleaseAppointmentSlot, AppointmentTypeOK, ClaimStatus
  <2>2. CASE out # "RELEASED"
    BY <1>3, <2>2 DEF ReleaseAppointmentSlot, AppointmentTypeOK
  <2> QED BY <2>1, <2>2
<1>4. ASSUME NEW x \in ClaimIds, NEW to \in AppointmentStatus, NEW done, NEW out,
             LeaveScheduled(x, to, done, out)
      PROVE  AppointmentTypeOK'
  BY <1>4 DEF LeaveScheduled, AppointmentTypeOK
<1>5. ASSUME NEW x \in ClaimIds, NEW k \in Contractors, NEW op \in OpIds, NEW out,
             CompleteAppointment(x, k, op, out)
      PROVE  AppointmentTypeOK'
  BY <1>5 DEF CompleteAppointment, AppointmentTypeOK, AppointmentStatus
<1>6. ASSUME NEW c \in Cases, NEW out, CancelScheduledAppointment(c, out)
      PROVE  AppointmentTypeOK'
  <2>1. CASE out = "CANCELLED"
    <3>1. PICK x \in VisitsOf(c) :
             /\ appointment' = [appointment EXCEPT ![x] = "cancelled"]
             /\ claim' = [claim EXCEPT ![x].status = "RELEASED"]
      BY <1>6, <2>1 DEF CancelScheduledAppointment
    <3>2. x \in ClaimIds /\ claim[x] \in ClaimRow
      BY ClaimOfCase DEF VisitsOf
    <3>3. claim' = [claim EXCEPT ![x] = [claim[x] EXCEPT !.status = "RELEASED"]]
      BY <3>1 DEF AppointmentTypeOK
    <3> QED BY <1>6, <3>1, <3>2, <3>3, ClaimChange
            DEF CancelScheduledAppointment, AppointmentTypeOK, ClaimStatus, AppointmentStatus
  <2>2. CASE out # "CANCELLED"
    BY <1>6, <2>2 DEF CancelScheduledAppointment, AppointmentTypeOK
  <2> QED BY <2>1, <2>2
<1>7. ASSUME NEW x \in ClaimIds, NEW y \in ClaimIds, x # y, NEW c \in Cases,
             NEW s \in Slots, NEW out, ReplaceAppointmentSlot(x, y, c, s, out)
      PROVE  AppointmentTypeOK'
  <2>1. CASE out = "REPLACED"
    <3>1. claim[x].case = c
      BY <1>7, <2>1 DEF ReplaceAppointmentSlot, ReplaceOutcome
    <3>2. claim[x] \in ClaimRow
      BY <3>1, ClaimOfCase
    <3>3. /\ [claim[x] EXCEPT !.status = "RELEASED"] \in ClaimRow
          /\ [claim[x] EXCEPT !.status = "ACTIVE", !.slot = s] \in ClaimRow
      BY <3>2 DEF ClaimRow, ClaimStatus
    <3>4. claim' = [claim EXCEPT ![x] = [claim[x] EXCEPT !.status = "RELEASED"],
                       ![y] = [claim[x] EXCEPT !.status = "ACTIVE", !.slot = s]]
      BY <1>7, <2>1 DEF ReplaceAppointmentSlot, AppointmentTypeOK
    <3>5. claim' \in [ClaimIds -> ClaimRow \cup {NoClaim}]
      BY <3>3, <3>4 DEF AppointmentTypeOK
    <3> QED BY <1>7, <2>1, <3>5
            DEF ReplaceAppointmentSlot, AppointmentTypeOK, AppointmentStatus
  <2>2. CASE out # "REPLACED"
    BY <1>7, <2>2 DEF ReplaceAppointmentSlot, AppointmentTypeOK
  <2> QED BY <2>1, <2>2
<1>8. CASE UNCHANGED appointmentVars
  BY <1>8 DEF appointmentVars, AppointmentTypeOK
<1> QED
  BY <1>1, <1>2, <1>3, <1>4, <1>5, <1>6, <1>7, <1>8
     DEF AppointmentNext, BookingStep, VisitStep, RescheduleStep, StartWorkAppointment,
         ReportNoAccessAppointment, MarkAppointmentMissed, AppointmentStatus

\* The claims and Appointments keep the shape the schema gives them.
THEOREM TypeCorrect == AppointmentSpec => []AppointmentTypeOK
<1>1. AppointmentInit => AppointmentTypeOK
  BY DEF AppointmentInit, AppointmentTypeOK
<1> QED BY <1>1, TypeStep, PTL DEF AppointmentSpec

-----------------------------------------------------------------------------
(* The safety invariant.  Live visits do not overlap because the claims that *)
(* own them do not: held and active ones of one Contractor exclude each      *)
(* other, which is what the exclusion constraint of the table asks and what  *)
(* every operation that inserts a claim has to respect.                      *)

Blocking(x) == claim[x].status \in {"HELD", "ACTIVE"}

BlockingClaimsAreDisjoint ==
    \A x, y \in ClaimIds :
        (/\ x # y /\ Blocking(x) /\ Blocking(y)
         /\ claim[x].contractor = claim[y].contractor)
        => ~Overlap(claim[x].slot, claim[y].slot)

BookingInv == LiveVisitOwnsItsSlot /\ BlockingClaimsAreDisjoint

\* A step that books no time and starts no visit: no claim becomes blocking or
\* moves, no visit becomes live, and a live one keeps its claim.
LEMMA NothingBooked ==
    ASSUME BookingInv,
           \A x \in ClaimIds :
              /\ Blocking(x)' => /\ Blocking(x)
                                /\ claim'[x].contractor = claim[x].contractor
                                /\ claim'[x].slot = claim[x].slot
              /\ Live(x)' => claim'[x].status = "ACTIVE"
    PROVE  BookingInv'
<1>1. LiveVisitOwnsItsSlot'
  BY DEF LiveVisitOwnsItsSlot
<1>2. BlockingClaimsAreDisjoint'
  BY DEF BookingInv, BlockingClaimsAreDisjoint
<1> QED BY <1>1, <1>2 DEF BookingInv

\* Every operation keeps live visits on active claims and blocking claims apart.
LEMMA BookingStepIsSafe ==
    AppointmentTypeOK /\ BookingInv /\ [AppointmentNext]_appointmentVars => BookingInv'
<1> SUFFICES ASSUME AppointmentTypeOK, BookingInv, [AppointmentNext]_appointmentVars
             PROVE  BookingInv'
  OBVIOUS
<1>0. \A x \in ClaimIds : Live(x) => claim[x].status = "ACTIVE"
  BY DEF BookingInv, LiveVisitOwnsItsSlot
<1>1. ASSUME NEW x \in ClaimIds, NEW c \in Cases, NEW a \in AttemptIds,
             NEW k \in Contractors, NEW s \in Slots, NEW past,
             ReserveAppointmentSlot(x, c, a, k, s, past, ReserveOutcome(x, k, s, past))
      PROVE  BookingInv'
  <2> DEFINE out == ReserveOutcome(x, k, s, past)
  <2>1. CASE out = "HELD" /\ claim[x] = NoClaim
    <3>1. ~SlotTaken(k, s, {})
      BY <2>1 DEF ReserveOutcome
    <3>2. \A z \in ClaimIds : Blocking(z) /\ claim[z].contractor = k
                             => ~Overlap(claim[z].slot, s) /\ ~Overlap(s, claim[z].slot)
      BY <3>1 DEF SlotTaken, BlockingClaims, Blocking, Overlap
    <3>3. /\ claim'[x].contractor = k /\ claim'[x].slot = s
          /\ \A z \in ClaimIds \ {x} : claim'[z] = claim[z]
          /\ UNCHANGED appointment
      BY <1>1, <2>1 DEF ReserveAppointmentSlot, AppointmentTypeOK
    <3>4. ~Live(x)
      BY <1>0, <2>1 DEF NoClaim
    <3>5. LiveVisitOwnsItsSlot'
      BY <1>0, <3>3, <3>4 DEF LiveVisitOwnsItsSlot, Live
    <3>6. BlockingClaimsAreDisjoint'
      BY <3>2, <3>3 DEF BookingInv, BlockingClaimsAreDisjoint, Blocking
    <3> QED BY <3>5, <3>6 DEF BookingInv
  <2>2. CASE ~(out = "HELD" /\ claim[x] = NoClaim)
    BY <1>0, <1>1, <2>2, NothingBooked DEF ReserveAppointmentSlot, Blocking, Live
  <2> QED BY <2>1, <2>2
<1>2. ASSUME NEW x \in ClaimIds, NEW out, ConfirmAppointmentSlot(x, out)
      PROVE  BookingInv'
  <2>1. CASE out = "CONFIRMED" /\ appointment[x] = NONE
    <3>1. claim[x].status = "HELD" /\ claim[x] \in ClaimRow
      BY <1>2, <2>1, ClaimOfCase DEF ConfirmAppointmentSlot, ConfirmOutcome
    <3>2. /\ claim'[x].status = "ACTIVE" /\ claim'[x].contractor = claim[x].contractor
          /\ claim'[x].slot = claim[x].slot
          /\ \A z \in ClaimIds \ {x} : claim'[z] = claim[z]
                                     /\ appointment'[z] = appointment[z]
      BY <1>2, <2>1, <3>1 DEF ConfirmAppointmentSlot, AppointmentTypeOK, ClaimRow
    <3> QED BY <1>0, <3>1, <3>2, NothingBooked DEF Blocking, Live
  <2>2. CASE ~(out = "CONFIRMED" /\ appointment[x] = NONE)
    BY <1>0, <1>2, <2>2, NothingBooked DEF ConfirmAppointmentSlot, Blocking, Live
  <2> QED BY <2>1, <2>2
<1>3. ASSUME NEW x \in ClaimIds, NEW out, ReleaseAppointmentSlot(x, out)
      PROVE  BookingInv'
  <2>1. CASE out = "RELEASED"
    <3>1. claim[x].status # "ACTIVE" /\ claim[x] \in ClaimRow
      BY <1>3, <2>1, ClaimOfCase DEF ReleaseAppointmentSlot, ReleaseOutcome, NoClaim
    <3>2. /\ claim'[x].status = "RELEASED"
          /\ \A z \in ClaimIds \ {x} : claim'[z] = claim[z]
          /\ UNCHANGED appointment
      BY <1>3, <2>1, <3>1 DEF ReleaseAppointmentSlot, AppointmentTypeOK, ClaimRow
    <3> QED BY <1>0, <3>1, <3>2, NothingBooked DEF Blocking, Live
  <2>2. CASE out # "RELEASED"
    BY <1>0, <1>3, <2>2, NothingBooked DEF ReleaseAppointmentSlot, Blocking, Live
  <2> QED BY <2>1, <2>2
<1>4. ASSUME NEW x \in ClaimIds, NEW k, NEW to, NEW done, NEW already,
             done # already,
             done \notin {"APPOINTMENT_NOT_FOUND", "WRONG_CONTRACTOR", "NOT_SCHEDULED"},
             LeaveScheduled(x, to, done, LeaveScheduledOutcome(x, k, to, done, already))
      PROVE  BookingInv'
  <2>1. appointment' # appointment => appointment[x] = "scheduled"
    BY <1>4 DEF LeaveScheduled, LeaveScheduledOutcome
  <2>2. \A z \in ClaimIds : Live(z)' => Live(z)
    BY <1>4, <2>1 DEF LeaveScheduled, Live, AppointmentTypeOK
  <2> QED BY <1>0, <1>4, <2>2, NothingBooked DEF LeaveScheduled, Blocking
<1>5. ASSUME NEW x \in ClaimIds, NEW k, NEW op, NEW out, CompleteAppointment(x, k, op, out)
      PROVE  BookingInv'
  <2>1. \A z \in ClaimIds : Live(z)' => Live(z)
    BY <1>5 DEF CompleteAppointment, Live, AppointmentTypeOK
  <2> QED BY <1>0, <1>5, <2>1, NothingBooked DEF CompleteAppointment, Blocking
<1>6. ASSUME NEW c \in Cases, NEW out, CancelScheduledAppointment(c, out)
      PROVE  BookingInv'
  <2>1. CASE out = "CANCELLED"
    <3>1. PICK x \in VisitsOf(c) :
             /\ appointment' = [appointment EXCEPT ![x] = "cancelled"]
             /\ claim' = [claim EXCEPT ![x].status = "RELEASED"]
      BY <1>6, <2>1 DEF CancelScheduledAppointment
    <3>2. x \in ClaimIds /\ claim[x] \in ClaimRow
      BY ClaimOfCase DEF VisitsOf
    <3>3. /\ claim'[x].status = "RELEASED" /\ appointment'[x] = "cancelled"
          /\ \A z \in ClaimIds \ {x} : claim'[z] = claim[z]
                                     /\ appointment'[z] = appointment[z]
      BY <3>1, <3>2 DEF AppointmentTypeOK, ClaimRow
    <3> QED BY <1>0, <3>3, NothingBooked DEF Blocking, Live
  <2>2. CASE out # "CANCELLED"
    BY <1>0, <1>6, <2>2, NothingBooked DEF CancelScheduledAppointment, Blocking, Live
  <2> QED BY <2>1, <2>2
<1>7. ASSUME NEW x \in ClaimIds, NEW y \in ClaimIds, x # y, NEW c \in Cases,
             NEW s \in Slots, NEW out, ReplaceAppointmentSlot(x, y, c, s, out)
      PROVE  BookingInv'
  <2>1. CASE out = "REPLACED"
    <3>1. /\ claim[x].case = c /\ appointment[x] \in Replaceable
          /\ ~SlotTaken(claim[x].contractor, s, {x})
      BY <1>7, <2>1 DEF ReplaceAppointmentSlot, ReplaceOutcome
    <3>2. claim[x] \in ClaimRow
      BY <3>1, ClaimOfCase
    <3>3. /\ claim'[x].status = "RELEASED" /\ claim'[y].status = "ACTIVE"
          /\ claim'[y].contractor = claim[x].contractor /\ claim'[y].slot = s
          /\ \A z \in ClaimIds \ {x, y} : claim'[z] = claim[z]
                                        /\ appointment'[z] = appointment[z]
          /\ appointment'[x] = IF appointment[x] = "scheduled" THEN "rescheduled"
                               ELSE appointment[x]
      <4>1. claim' = [claim EXCEPT ![x] = [claim[x] EXCEPT !.status = "RELEASED"],
                         ![y] = [claim[x] EXCEPT !.status = "ACTIVE", !.slot = s]]
        BY <1>7, <2>1 DEF ReplaceAppointmentSlot, AppointmentTypeOK
      <4>2. /\ claim'[x] = [claim[x] EXCEPT !.status = "RELEASED"]
            /\ claim'[y] = [claim[x] EXCEPT !.status = "ACTIVE", !.slot = s]
            /\ \A z \in ClaimIds \ {x, y} : claim'[z] = claim[z]
        BY <1>7, <4>1 DEF AppointmentTypeOK
      <4>3. /\ claim'[x].status = "RELEASED" /\ claim'[y].status = "ACTIVE"
            /\ claim'[y].contractor = claim[x].contractor /\ claim'[y].slot = s
        BY <3>2, <4>2 DEF ClaimRow
      <4>4. /\ \A z \in ClaimIds \ {x, y} : appointment'[z] = appointment[z]
            /\ appointment'[x] = IF appointment[x] = "scheduled" THEN "rescheduled"
                                 ELSE appointment[x]
        BY <1>7, <2>1 DEF ReplaceAppointmentSlot, AppointmentTypeOK
      <4> QED BY <4>2, <4>3, <4>4
    <3>4. \A z \in ClaimIds \ {x} :
             Blocking(z) /\ claim[z].contractor = claim[x].contractor
             => ~Overlap(claim[z].slot, s) /\ ~Overlap(s, claim[z].slot)
      BY <3>1 DEF SlotTaken, BlockingClaims, Blocking, Overlap
    <3>5. LiveVisitOwnsItsSlot'
      BY <1>0, <3>1, <3>3 DEF LiveVisitOwnsItsSlot, Live, Replaceable
    <3>6. BlockingClaimsAreDisjoint'
      BY <3>3, <3>4 DEF BookingInv, BlockingClaimsAreDisjoint, Blocking
    <3> QED BY <3>5, <3>6 DEF BookingInv
  <2>2. CASE out # "REPLACED"
    BY <1>0, <1>7, <2>2, NothingBooked DEF ReplaceAppointmentSlot, Blocking, Live
  <2> QED BY <2>1, <2>2
<1>8. CASE UNCHANGED appointmentVars
  BY <1>0, <1>8, NothingBooked DEF appointmentVars, Blocking, Live
<1>9. CASE BookingStep
  BY <1>1, <1>2, <1>3, <1>9 DEF BookingStep
<1>10. CASE VisitStep
  BY <1>4, <1>5, <1>10
     DEF VisitStep, StartWorkAppointment, StartVisitOutcome, ReportNoAccessAppointment,
         NoAccessOutcome, MarkAppointmentMissed, MissedOutcome
<1>11. CASE RescheduleStep
  BY <1>6, <1>7, <1>11 DEF RescheduleStep
<1> QED BY <1>8, <1>9, <1>10, <1>11 DEF AppointmentNext

\* The safety invariant holds throughout.
LEMMA BookingInvariant == AppointmentSpec => []BookingInv
<1>1. AppointmentInit => BookingInv
  BY NoneIsNull
     DEF AppointmentInit, BookingInv, LiveVisitOwnsItsSlot, BlockingClaimsAreDisjoint,
         Blocking, Live, NoClaim, AppointmentStatus
<1> QED BY <1>1, TypeCorrect, BookingStepIsSafe, PTL DEF AppointmentSpec

-----------------------------------------------------------------------------
(* What follows *)

\* While a visit is live its claim holds the Contractor's time.
THEOREM LiveVisitsOwnTime == AppointmentSpec => []LiveVisitOwnsItsSlot
<1>1. BookingInv => LiveVisitOwnsItsSlot
  BY DEF BookingInv
<1> QED BY <1>1, BookingInvariant, PTL

\* No Contractor is booked into two live visits at overlapping times, however
\* acceptances, releases and replacements of all Cases interleave.
THEOREM NeverDoubleBooked == AppointmentSpec => []NoDoubleBooking
<1>1. BookingInv => NoDoubleBooking
  BY DEF BookingInv, LiveVisitOwnsItsSlot, BlockingClaimsAreDisjoint, NoDoubleBooking, Blocking
<1> QED BY <1>1, BookingInvariant, PTL

\* A step either leaves a recorded outcome alone, or there was none.
LEMMA OutcomesStand ==
    ASSUME AppointmentTypeOK, AppointmentNext, NEW x \in ClaimIds,
           appointment[x] \in AppointmentStatus \ {"scheduled", "in_progress"}
    PROVE  appointment'[x] = appointment[x]
<1>0. appointment[x] # NONE
  BY NoneIsNull
<1>1. CASE BookingStep
  BY <1>0, <1>1 DEF BookingStep, ReserveAppointmentSlot, ConfirmAppointmentSlot,
        ReleaseAppointmentSlot, AppointmentTypeOK
<1>2. CASE VisitStep
  BY <1>2 DEF VisitStep, StartWorkAppointment, StartVisitOutcome, ReportNoAccessAppointment,
        NoAccessOutcome, MarkAppointmentMissed, MissedOutcome, LeaveScheduled,
        LeaveScheduledOutcome, CompleteAppointment, CompleteVisitOutcome, AppointmentTypeOK
<1>3. CASE RescheduleStep
  <2>1. ASSUME NEW c \in Cases, NEW out, CancelScheduledAppointment(c, out)
        PROVE  appointment'[x] = appointment[x]
    BY <2>1 DEF CancelScheduledAppointment, VisitsOf, AppointmentTypeOK
  <2>2. ASSUME NEW y \in ClaimIds, NEW z \in ClaimIds, y # z, NEW c, NEW s, NEW out,
               ReplaceAppointmentSlot(y, z, c, s, out)
        PROVE  appointment'[x] = appointment[x]
    <3>1. out = "REPLACED" => appointment[z] = NONE
      BY <2>2 DEF ReplaceAppointmentSlot, ReplaceOutcome
    <3> QED BY <1>0, <2>2, <3>1 DEF ReplaceAppointmentSlot, AppointmentTypeOK
  <2> QED BY <1>3, <2>1, <2>2 DEF RescheduleStep
<1> QED BY <1>1, <1>2, <1>3 DEF AppointmentNext

\* No later transition, replacement or cancellation rewrites what was recorded of
\* a failed or finished visit.
THEOREM OutcomesAreFinal == AppointmentSpec => RecordedOutcomesAreFinal
<1> DEFINE Final ==
       \A x \in ClaimIds :
          appointment[x] \in AppointmentStatus \ {"scheduled", "in_progress"}
          => appointment'[x] = appointment[x]
<1>1. AppointmentTypeOK /\ [AppointmentNext]_appointmentVars => [Final]_appointmentVars
  BY OutcomesStand
<1> QED BY <1>1, TypeCorrect, PTL DEF AppointmentSpec, RecordedOutcomesAreFinal

\* A claim of a live visit stops being active only in a step that ends the visit.
LEMMA SlotGivenUp ==
    ASSUME AppointmentTypeOK, AppointmentNext, NEW x \in ClaimIds,
           Live(x), claim[x].status = "ACTIVE", claim'[x].status # "ACTIVE"
    PROVE  appointment'[x] \in {"rescheduled", "cancelled"}
<1>0. appointment[x] # NONE /\ claim[x] # NoClaim
  BY NoneIsNull DEF Live, AppointmentStatus, NoClaim
<1>1. ~BookingStep
  BY <1>0 DEF BookingStep, ReserveAppointmentSlot, ConfirmAppointmentSlot,
        ReleaseAppointmentSlot, ReleaseOutcome, AppointmentTypeOK
<1>2. ~VisitStep
  BY DEF VisitStep, StartWorkAppointment, ReportNoAccessAppointment,
         MarkAppointmentMissed, LeaveScheduled, CompleteAppointment
<1>3. ASSUME NEW c \in Cases, NEW out, CancelScheduledAppointment(c, out)
      PROVE  appointment'[x] \in {"rescheduled", "cancelled"}
  BY <1>3 DEF CancelScheduledAppointment, VisitsOf, AppointmentTypeOK
<1>4. ASSUME NEW y \in ClaimIds, NEW z \in ClaimIds, y # z, NEW c, NEW s, NEW out,
             ReplaceAppointmentSlot(y, z, c, s, out)
      PROVE  appointment'[x] \in {"rescheduled", "cancelled"}
  <2>1. out = "REPLACED" /\ appointment[z] = NONE /\ appointment[y] \in Replaceable
    BY <1>4 DEF ReplaceAppointmentSlot, ReplaceOutcome
  <2>2. x = y
    BY <1>0, <1>4, <2>1 DEF ReplaceAppointmentSlot, AppointmentTypeOK
  <2> QED BY <1>4, <2>1, <2>2 DEF ReplaceAppointmentSlot, Replaceable, Live, AppointmentTypeOK
<1> QED BY <1>1, <1>2, <1>3, <1>4 DEF AppointmentNext, RescheduleStep

\* The time of a live visit is given up only by the step that replaces or cancels
\* that visit: a replacement that clashes leaves the schedule as it was.
THEOREM SlotsStandWithVisits == AppointmentSpec => SlotAndVisitAreGivenUpTogether
<1> DEFINE Together ==
       \A x \in ClaimIds :
          (Live(x) /\ claim[x].status = "ACTIVE" /\ claim'[x].status # "ACTIVE")
          => appointment'[x] \in {"rescheduled", "cancelled"}
<1>1. AppointmentTypeOK /\ [AppointmentNext]_appointmentVars => [Together]_appointmentVars
  BY SlotGivenUp
<1> QED BY <1>1, TypeCorrect, PTL DEF AppointmentSpec, SlotAndVisitAreGivenUpTogether
-----------------------------------------------------------------------------
(* What callers build on: claims and visits are appended.                    *)

\* A claim and its visit are not deleted, and the claim stays with its Case, offer,
\* Contractor and time.
Stays(x) ==
    /\ claim[x] # NoClaim => /\ claim'[x] # NoClaim
                             /\ claim'[x].case = claim[x].case
                             /\ claim'[x].attempt = claim[x].attempt
                             /\ claim'[x].contractor = claim[x].contractor
                             /\ claim'[x].slot = claim[x].slot
    /\ appointment[x] # NONE => appointment'[x] # NONE

\* No operation deletes a claim or a visit, or moves a claim to another Case, offer,
\* Contractor or time.
LEMMA ClaimsStay ==
    ASSUME AppointmentTypeOK, [AppointmentNext]_appointmentVars, NEW x \in ClaimIds
    PROVE  Stays(x)
<1>0. claim[x] # NoClaim => claim[x] \in ClaimRow
  BY DEF AppointmentTypeOK
<1>1. ASSUME NEW s \in ClaimStatus, claim[x] # NoClaim,
             claim'[x] = [claim[x] EXCEPT !.status = s]
      PROVE  claim'[x] # NoClaim /\ claim'[x].case = claim[x].case
             /\ claim'[x].attempt = claim[x].attempt
             /\ claim'[x].contractor = claim[x].contractor
             /\ claim'[x].slot = claim[x].slot
  BY <1>0, <1>1 DEF ClaimRow, NoClaim, ClaimStatus
<1>2. "scheduled" # NONE /\ "in_progress" # NONE /\ "no_access" # NONE
      /\ "rescheduled" # NONE /\ "cancelled" # NONE /\ "missed" # NONE /\ "completed" # NONE
  BY NoneIsNull DEF AppointmentStatus
<1>3. CASE BookingStep
  <2>1. PICK y \in ClaimIds :
          \/ \E c, a, k, s, past : ReserveAppointmentSlot(y, c, a, k, s, past,
                                        ReserveOutcome(y, k, s, past))
          \/ ConfirmAppointmentSlot(y, ConfirmOutcome(y))
          \/ ReleaseAppointmentSlot(y, ReleaseOutcome(y))
    BY <1>3 DEF BookingStep
  <2>2. CASE \E c, a, k, s, past : ReserveAppointmentSlot(y, c, a, k, s, past,
                                        ReserveOutcome(y, k, s, past))
    BY <2>2 DEF ReserveAppointmentSlot, AppointmentTypeOK, Stays
  <2>3. CASE ConfirmAppointmentSlot(y, ConfirmOutcome(y))
    BY <1>1, <1>2, <2>3 DEF ConfirmAppointmentSlot, AppointmentTypeOK, ClaimStatus, Stays
  <2>4. CASE ReleaseAppointmentSlot(y, ReleaseOutcome(y))
    BY <1>1, <2>4 DEF ReleaseAppointmentSlot, AppointmentTypeOK, ClaimStatus, Stays
  <2> QED BY <2>1, <2>2, <2>3, <2>4
<1>4. CASE VisitStep
  BY <1>2, <1>4 DEF VisitStep, StartWorkAppointment, ReportNoAccessAppointment,
        MarkAppointmentMissed, LeaveScheduled, CompleteAppointment, AppointmentTypeOK, Stays
<1>5. CASE RescheduleStep
  <2>1. ASSUME NEW c \in Cases, NEW out, CancelScheduledAppointment(c, out)
        PROVE  Stays(x)
    BY <1>1, <1>2, <2>1 DEF CancelScheduledAppointment, AppointmentTypeOK, ClaimStatus, VisitsOf, Stays
  <2>2. ASSUME NEW y \in ClaimIds, NEW z \in ClaimIds, y # z, NEW c, NEW s, NEW out,
               claim[z] = NoClaim \/ appointment[z] # NONE,
               ReplaceAppointmentSlot(y, z, c, s, out)
        PROVE  Stays(x)
    <3>1. CASE out = "REPLACED"
      <4>1. claim[z] = NoClaim /\ appointment[z] = NONE
        BY <2>2, <3>1 DEF ReplaceAppointmentSlot, ReplaceOutcome
      <4>2. x # z => claim'[x] \in {claim[x], [claim[x] EXCEPT !.status = "RELEASED"]}
        BY <2>2, <3>1 DEF ReplaceAppointmentSlot, AppointmentTypeOK
      <4>3. appointment[x] # NONE => appointment'[x] # NONE
        BY <1>2, <2>2, <3>1 DEF ReplaceAppointmentSlot, AppointmentTypeOK
      <4>4. CASE x = z
        BY <4>1, <4>3, <4>4 DEF Stays
      <4>5. CASE x # z /\ claim'[x] = claim[x]
        BY <4>3, <4>5 DEF Stays
      <4>6. CASE x # z /\ claim'[x] = [claim[x] EXCEPT !.status = "RELEASED"]
        BY <1>1, <4>3, <4>6 DEF ClaimStatus, Stays
      <4> QED BY <4>2, <4>4, <4>5, <4>6
    <3>2. CASE out # "REPLACED"
      BY <2>2, <3>2 DEF ReplaceAppointmentSlot, Stays
    <3> QED BY <3>1, <3>2
  <2> QED BY <1>5, <2>1, <2>2 DEF RescheduleStep
<1>6. CASE UNCHANGED appointmentVars
  BY <1>6 DEF appointmentVars, Stays
<1> QED BY <1>3, <1>4, <1>5, <1>6 DEF AppointmentNext

\* A new visit is booked on a claim that is there.
LEMMA NewVisitIsClaimed ==
    ASSUME AppointmentTypeOK, [AppointmentNext]_appointmentVars, NEW x \in ClaimIds,
           appointment[x] = NONE, appointment'[x] # NONE,
           \A y \in ClaimIds : appointment[y] # NONE => claim[y] # NoClaim
    PROVE  claim'[x] # NoClaim
<1>0. /\ appointment = [y \in ClaimIds |-> appointment[y]] /\ claim = [y \in ClaimIds |-> claim[y]]
      /\ \A y \in ClaimIds : claim[y] # NoClaim => claim[y] \in ClaimRow
  BY DEF AppointmentTypeOK
<1>1. CASE BookingStep
  <2>1. PICK y \in ClaimIds : ConfirmAppointmentSlot(y, ConfirmOutcome(y))
    BY <1>1 DEF BookingStep, ReserveAppointmentSlot, ReleaseAppointmentSlot
  <2>2. x = y /\ claim[x] # NoClaim
    BY <1>0, <2>1 DEF ConfirmAppointmentSlot, ConfirmOutcome
  <2> QED BY <1>0, <1>1, <2>2, ClaimsStay DEF Stays, AppointmentNext
<1>2. ~VisitStep
  <2>1. ASSUME NEW y \in ClaimIds, NEW k,
               \/ StartWorkAppointment(y, k, StartVisitOutcome(y, k))
               \/ ReportNoAccessAppointment(y, k, NoAccessOutcome(y, k))
               \/ MarkAppointmentMissed(y, MissedOutcome(y))
        PROVE  FALSE
    BY <1>0, <2>1 DEF StartWorkAppointment, StartVisitOutcome, ReportNoAccessAppointment,
       NoAccessOutcome, MarkAppointmentMissed, MissedOutcome, LeaveScheduled, LeaveScheduledOutcome
  <2>2. ASSUME NEW y \in ClaimIds, NEW k, NEW op,
               CompleteAppointment(y, k, op, CompleteVisitOutcome(y, k, op))
        PROVE  FALSE
    BY <1>0, <2>2 DEF CompleteAppointment, CompleteVisitOutcome
  <2> QED BY <2>1, <2>2 DEF VisitStep
<1>3. ASSUME NEW c, NEW out, CancelScheduledAppointment(c, out) PROVE FALSE
  <2>1. PICK y \in ClaimIds : appointment[y] # NONE
                              /\ appointment' = [appointment EXCEPT ![y] = "cancelled"]
    BY <1>0, <1>3 DEF CancelScheduledAppointment, VisitsOf
  <2> QED BY <1>0, <2>1
<1>4. ASSUME NEW y \in ClaimIds, NEW z \in ClaimIds, y # z, NEW c, NEW s, NEW out,
             ReplaceAppointmentSlot(y, z, c, s, out)
      PROVE  claim'[x] # NoClaim
  <2>1. /\ out = "REPLACED" /\ claim[y] \in ClaimRow
        /\ claim' = [claim EXCEPT ![y].status = "RELEASED",
                                  ![z] = [claim[y] EXCEPT !.status = "ACTIVE", !.slot = s]]
        /\ appointment' = [appointment EXCEPT ![y] = IF @ = "scheduled" THEN "rescheduled" ELSE @,
                                              ![z] = "scheduled"]
    BY <1>0, <1>4 DEF ReplaceAppointmentSlot, ReplaceOutcome
  <2>2. x = z
    BY <1>0, <1>4, <2>1 DEF ReplaceAppointmentSlot, ReplaceOutcome
  <2>3. claim'[z].status = "ACTIVE"
    BY <1>0, <1>4, <2>1 DEF ClaimRow
  <2> QED BY <2>2, <2>3 DEF NoClaim
<1>5. CASE RescheduleStep
  BY <1>3, <1>4, <1>5 DEF RescheduleStep
<1> QED BY <1>1, <1>2, <1>5 DEF AppointmentNext, appointmentVars
=============================================================================
