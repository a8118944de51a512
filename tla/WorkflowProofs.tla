--------------------------- MODULE WorkflowProofs ---------------------------
(***************************************************************************)
(* What CaseWorkflow promises for every set of Contractors, Updates, slots *)
(* and replies that are lost: types, that the Workflow uses the atoms as   *)
(* their own proofs allow, and what callers are told, charged and credited.*)
(***************************************************************************)
EXTENDS CaseWorkflow, TLAPS

AsgP == INSTANCE AssignmentProofs
AptP == INSTANCE AppointmentProofs

-----------------------------------------------------------------------------
(* What the atoms' own proofs give *)

\* The assumptions of the Assignment atom hold of the Workflow's constants.
LEMMA AssignmentAssumptions == AsgP!NoneIsNull
  BY NoneIsNull DEF AsgP!NoneIsNull, AsgP!AssignmentStatus, Asg!AssignmentStatus, OpIds

\* The assumptions of the Appointment atom hold of the Workflow's constants.
LEMMA AppointmentAssumptions == AptP!NoneIsNull /\ AptP!SlotsAreIntervals
  BY NoneIsNull, SlotsAreIntervals
     DEF AptP!NoneIsNull, AptP!SlotsAreIntervals, AptP!AppointmentStatus,
         Apt!AppointmentStatus, OpIds

\* The atom that is proved about is the atom the Workflow calls.
LEMMA SameAssignment ==
    /\ Asg!AssignmentNext <=> AsgP!AssignmentNext
    /\ Asg!AssignmentTypeOK <=> AsgP!AssignmentTypeOK
    /\ Asg!assignmentVars = AsgP!assignmentVars
  BY DEF Asg!AssignmentNext, AsgP!AssignmentNext, Asg!CommitStep, AsgP!CommitStep,
    Asg!AcceptStep, AsgP!AcceptStep, Asg!BreachStep, AsgP!BreachStep,
    Asg!LifecycleStep, AsgP!LifecycleStep, Asg!CommitBegin, AsgP!CommitBegin,
    Asg!CommitBeginOutcome, AsgP!CommitBeginOutcome, Asg!OverrideReasonMissing, AsgP!OverrideReasonMissing,
    Asg!CommitReadAssignment, AsgP!CommitReadAssignment, Asg!CommitReadPending, AsgP!CommitReadPending,
    Asg!CommitPendingOutcome, AsgP!CommitPendingOutcome, Asg!CommitWrite, AsgP!CommitWrite,
    Asg!CommitRollback, AsgP!CommitRollback, Asg!AcceptOutcome, AsgP!AcceptOutcome,
    Asg!AcceptAllocationAttempt, AsgP!AcceptAllocationAttempt, Asg!BreachOutcome, AsgP!BreachOutcome,
    Asg!BreachAllocationAttempt, AsgP!BreachAllocationAttempt, Asg!StartOutcome, AsgP!StartOutcome,
    Asg!MarkAssignmentInProgress, AsgP!MarkAssignmentInProgress, Asg!CompleteOutcome, AsgP!CompleteOutcome,
    Asg!CompleteAssignment, AsgP!CompleteAssignment, Asg!CancelAssignmentOutcome, AsgP!CancelAssignmentOutcome,
    Asg!CancelAssignmentForCase, AsgP!CancelAssignmentForCase, Asg!Pending, AsgP!Pending,
    Asg!AttemptsOf, AsgP!AttemptsOf, Asg!NoAttempt, AsgP!NoAttempt, Asg!NoCommit, AsgP!NoCommit,
    Asg!assignmentVars, AsgP!assignmentVars, Asg!AssignmentTypeOK, AsgP!AssignmentTypeOK,
    Asg!AssignmentStatus, AsgP!AssignmentStatus, Asg!AttemptStatus, AsgP!AttemptStatus,
    Asg!AttemptRow, AsgP!AttemptRow, Asg!CommitTx, AsgP!CommitTx

\* The Appointment atom that is proved about is the one the Workflow calls.
LEMMA SameAppointment ==
    /\ Apt!AppointmentNext <=> AptP!AppointmentNext
    /\ Apt!AppointmentTypeOK <=> AptP!AppointmentTypeOK
    /\ Apt!AppointmentTypeOK' <=> AptP!AppointmentTypeOK'
    /\ Apt!appointmentVars = AptP!appointmentVars
    /\ Apt!NoClaim = AptP!NoClaim
  BY DEF Apt!AppointmentNext, AptP!AppointmentNext, Apt!BookingStep, AptP!BookingStep,
    Apt!VisitStep, AptP!VisitStep, Apt!RescheduleStep, AptP!RescheduleStep,
    Apt!ReserveOutcome, AptP!ReserveOutcome, Apt!SlotTaken, AptP!SlotTaken,
    Apt!BlockingClaims, AptP!BlockingClaims, Apt!Overlap, AptP!Overlap, Apt!Live, AptP!Live,
    Apt!ReserveAppointmentSlot, AptP!ReserveAppointmentSlot, Apt!ConfirmOutcome, AptP!ConfirmOutcome,
    Apt!ConfirmAppointmentSlot, AptP!ConfirmAppointmentSlot, Apt!LiveForAttempt, AptP!LiveForAttempt,
    Apt!ReleaseOutcome, AptP!ReleaseOutcome, Apt!ReleaseAppointmentSlot, AptP!ReleaseAppointmentSlot,
    Apt!LeaveScheduledOutcome, AptP!LeaveScheduledOutcome, Apt!LeaveScheduled, AptP!LeaveScheduled,
    Apt!StartVisitOutcome, AptP!StartVisitOutcome, Apt!StartWorkAppointment, AptP!StartWorkAppointment,
    Apt!NoAccessOutcome, AptP!NoAccessOutcome, Apt!ReportNoAccessAppointment, AptP!ReportNoAccessAppointment,
    Apt!MissedOutcome, AptP!MissedOutcome, Apt!MarkAppointmentMissed, AptP!MarkAppointmentMissed,
    Apt!CompleteVisitOutcome, AptP!CompleteVisitOutcome, Apt!CompleteAppointment, AptP!CompleteAppointment,
    Apt!CancelVisitOutcome, AptP!CancelVisitOutcome, Apt!VisitsOf, AptP!VisitsOf,
    Apt!CancelScheduledAppointment, AptP!CancelScheduledAppointment,
    Apt!ReplaceOutcome, AptP!ReplaceOutcome, Apt!Replaceable, AptP!Replaceable,
    Apt!ReplaceAppointmentSlot, AptP!ReplaceAppointmentSlot,
    Apt!appointmentVars, AptP!appointmentVars, Apt!NoClaim, AptP!NoClaim,
    Apt!AppointmentTypeOK, AptP!AppointmentTypeOK, Apt!ClaimRow, AptP!ClaimRow,
    Apt!ClaimStatus, AptP!ClaimStatus, Apt!AppointmentStatus, AptP!AppointmentStatus

\* What the proofs about the Assignment atom call true, in the Workflow's words.
LEMMA AssignmentFacts ==
    /\ AsgP!TypeInv => Asg!AssignmentTypeOK
    /\ AsgP!SafetyInv => /\ Asg!AtMostOnePendingAttempt /\ Asg!AtMostOneAcceptance
                         /\ Asg!CommitReadsHold /\ Asg!WorkFollowsAnAcceptance
    /\ Asg!NoAttempt = AsgP!NoAttempt /\ Asg!NoCommit = AsgP!NoCommit
<1>1. AsgP!TypeInv => Asg!AssignmentTypeOK
  BY SameAssignment DEF AsgP!TypeInv
<1>2. AsgP!SafetyInv => /\ Asg!AtMostOnePendingAttempt /\ Asg!AtMostOneAcceptance
                        /\ Asg!CommitReadsHold /\ Asg!WorkFollowsAnAcceptance
  BY DEF AsgP!SafetyInv, Asg!AtMostOnePendingAttempt, AsgP!AtMostOnePendingAttempt,
     Asg!AtMostOneAcceptance, AsgP!AtMostOneAcceptance,
     Asg!CommitReadsHold, AsgP!CommitReadsHold,
     Asg!WorkFollowsAnAcceptance, AsgP!WorkFollowsAnAcceptance,
     Asg!NeverAccepted, AsgP!NeverAccepted, Asg!Pending, AsgP!Pending,
     Asg!AttemptsOf, AsgP!AttemptsOf, Asg!NoAttempt, AsgP!NoAttempt, Asg!NoCommit, AsgP!NoCommit
<1> QED BY <1>1, <1>2 DEF Asg!NoAttempt, AsgP!NoAttempt, Asg!NoCommit, AsgP!NoCommit

\* Every operation of the Assignment atom keeps its invariant, and the Attempts.
LEMMA AssignmentKept ==
    ASSUME AsgP!TypeInv, AsgP!SafetyInv, [Asg!AssignmentNext]_assignmentVars
    PROVE  /\ AsgP!TypeInv' /\ AsgP!SafetyInv'
           /\ \A a \in AttemptIds : attempt[a] # Asg!NoAttempt =>
                 attempt'[a] # Asg!NoAttempt /\ attempt'[a].contractor = attempt[a].contractor
<1>1. [AsgP!AssignmentNext]_(AsgP!assignmentVars)
  BY SameAssignment DEF assignmentVars, AsgP!assignmentVars
<1>2. AsgP!TypeInv' /\ AsgP!SafetyInv'
  BY <1>1, AssignmentAssumptions, AsgP!TypeStep, AsgP!SafetyStep
<1>3. \A a \in AttemptIds : attempt[a] # AsgP!NoAttempt =>
          attempt'[a] # AsgP!NoAttempt /\ attempt'[a].contractor = attempt[a].contractor
  BY <1>1, AssignmentAssumptions, AsgP!AttemptsStay
<1> QED BY <1>2, <1>3, AssignmentFacts

\* Other Cases move the epoch between commits, and only that.
LEMMA EpochKept ==
    ASSUME AsgP!TypeInv, AsgP!SafetyInv, epoch' \in Nat,
           UNCHANGED <<assignment, completionOp, attempt, commit>>
    PROVE  AsgP!TypeInv' /\ AsgP!SafetyInv'
<1>1. AsgP!TypeInv'
  BY DEF AsgP!TypeInv, AsgP!AssignmentTypeOK, AsgP!ReplacedExists
<1>2. AsgP!SafetyInv'
  BY DEF AsgP!SafetyInv, AsgP!AtMostOnePendingAttempt, AsgP!AtMostOneAcceptance,
     AsgP!CommitReadsHold, AsgP!WorkFollowsAnAcceptance, AsgP!OpenIsNeverAccepted,
     AsgP!NeverAccepted, AsgP!Pending, AsgP!AttemptsOf
<1> QED BY <1>1, <1>2

\* Every operation of the Appointment atom keeps its types, the claims and the visits.
LEMMA AppointmentKept ==
    ASSUME Apt!AppointmentTypeOK, [Apt!AppointmentNext]_appointmentVars
    PROVE  /\ Apt!AppointmentTypeOK'
           /\ \A x \in ClaimIds : AptP!Stays(x)
<1>1. [AptP!AppointmentNext]_(AptP!appointmentVars)
  BY SameAppointment DEF appointmentVars, AptP!appointmentVars
<1>2. AptP!AppointmentTypeOK' 
  BY <1>1, SameAppointment, AppointmentAssumptions, AptP!TypeStep
<1>3. \A x \in ClaimIds : AptP!Stays(x)
  BY <1>1, SameAppointment, AppointmentAssumptions, AptP!ClaimsStay
<1> QED BY <1>2, <1>3, SameAppointment

-----------------------------------------------------------------------------
(* The shape of the Workflow's state: where the handlers and the main loop   *)
(* can be, and what they refer to there.                                     *)

IsUpdate(r) == r = [pc |-> r.pc, target |-> r.target, k |-> r.k, slot |-> r.slot,
                    was |-> r.was, guards |-> r.guards, result |-> r.result]
IsLoop(r) == r = [pc |-> r.pc, until |-> r.until, target |-> r.target, req |-> r.req,
                  k |-> r.k, epoch |-> r.epoch, round |-> r.round, kind |-> r.kind]

\* The awaits of each kind of handler.
PcFits(kind, pc) ==
    \/ pc \in {"new", "sent", "done"}
    \/ kind = "open" /\ pc = "case"
    \/ kind = "manual" /\ pc = "queued"
    \/ kind = "accept" /\ pc \in {"reserve", "accept", "release", "confirm", "record"}
    \/ kind = "start" /\ pc \in {"visit", "work", "case", "flag"}
    \/ kind = "noAccess" /\ pc \in {"visit", "case"}
    \/ kind = "replace" /\ pc \in {"await", "visit", "case"}
    \/ kind = "cancel" /\ pc \in {"await", "visit", "work", "case"}
    \/ kind = "complete" /\ pc \in {"validate", "visit", "work", "case", "flag"}

UpdateShape ==
    /\ upd = [u \in Updates |-> upd[u]]
    /\ \A u \in Updates : IsUpdate(upd[u]) /\ PcFits(KindOf[u], upd[u].pc)

\* What an Update names exists, and goes on existing until it is answered.
Names(u) ==
    /\ KindOf[u] = "manual" => /\ upd[u].k \in Contractors
                               /\ upd[u].target \in AttemptIds \cup {NONE}
    /\ KindOf[u] = "accept" => /\ upd[u].target \in AttemptIds /\ upd[u].slot \in Slots
                               /\ attempt[upd[u].target] # Asg!NoAttempt
    /\ KindOf[u] \in {"start", "noAccess", "replace", "complete"} =>
           upd[u].target \in Apt!VisitsOf(TheCase)
    /\ KindOf[u] = "replace" => upd[u].slot \in Slots /\ upd[u].target # u

UpdateNames == \A u \in Updates : upd[u].pc \notin {"new", "done"} => Names(u)

RunState == [queue : Seq(Updates \cup {NONE}), attempt : AttemptIds \cup {NONE},
             accepted : BOOLEAN, visit : ClaimIds \cup {NONE}, active : BOOLEAN,
             retryAt : Nat \cup {NONE}, cancelling : BOOLEAN, closing : BOOLEAN,
             attempted : SUBSET Contractors, known : BOOLEAN, rev : BOOLEAN]

LoopPcs == {"top", "idle", "closed", "waitCancel", "gateAccept", "gateVisit", "due",
            "missVisit", "missFlag", "breachCheck", "breach", "breachCase", "shift",
            "terminal", "snapshot", "commit", "assign", "flag"}

LoopShape ==
    /\ IsLoop(main) /\ main.pc \in LoopPcs /\ main.epoch \in Nat
    /\ main.pc \in {"missVisit", "missFlag"} => main.target \in ClaimIds
    /\ main.pc \in {"breach", "breachCase"} => main.target \in AttemptIds
    /\ main.pc \in {"commit", "assign"} => /\ main.k \in Contractors
                                           /\ main.epoch \in 0 .. MaxEpoch
    /\ main.pc = "flag" => main.kind \in Cas!AllocationAttentionKinds

\* An Officer's request waits in the queue once, or is what the loop works on.
Waits(r) == r # NONE => r \in Updates /\ upd[r].pc = "queued"
QueueShape ==
    /\ \A i \in 1 .. Len(wf.queue) :
          /\ Waits(wf.queue[i])
          /\ wf.queue[i] # NONE =>
                /\ wf.queue[i] # main.req
                /\ \A j \in 1 .. Len(wf.queue) : wf.queue[j] = wf.queue[i] => i = j
    /\ Waits(main.req)

Shape == UpdateShape /\ wf \in RunState /\ LoopShape /\ QueueShape

\* A commit is open only while the loop waits for its reply.
CommitIsAwaited == commit # Asg!NoCommit => main.pc = "commit"

\* Claims stand for the offer they were made for; visits are on claims.
ClaimsNameOffers ==
    \A x \in ClaimIds :
        /\ claim[x] # Apt!NoClaim =>
              /\ attempt[claim[x].attempt] # Asg!NoAttempt
              /\ claim[x].contractor = attempt[claim[x].attempt].contractor
        /\ appointment[x] # NONE => claim[x] # Apt!NoClaim
        /\ KindOf[x] = "replace" /\ claim[x] # Apt!NoClaim => appointment[x] # NONE

\* An Update books and accepts nothing before it is admitted, and accepts nothing
\* but the offer it names.
NothingBefore ==
    \A u \in Updates :
        /\ upd[u].pc \in {"new", "sent"} =>
              /\ \A a \in AttemptIds : attempt[a].acceptedBy # u
              /\ u \in ClaimIds => claim[u] = Apt!NoClaim
        /\ upd[u].pc # "done" =>
              \A a \in AttemptIds : attempt[a].acceptedBy = u => a = upd[u].target

DeadlineShape ==
    /\ deadline \in [AttemptIds -> Nat \cup {NONE}]
    /\ \A a \in AttemptIds : attempt[a] # Asg!NoAttempt => deadline[a] \in Nat

WorkflowInv ==
    /\ Shape /\ UpdateNames /\ CommitIsAwaited /\ ClaimsNameOffers /\ NothingBefore
    /\ AsgP!TypeInv /\ AsgP!SafetyInv
    /\ Apt!AppointmentTypeOK /\ Cas!CaseTypeOK
    /\ now \in 0 .. MaxTime /\ DeadlineShape

-----------------------------------------------------------------------------
(* Which atom a step calls.  The other two are then left alone.              *)

AssignmentCall ==
    \/ CommitFails
    \/ \E lost \in LostReplies : \/ Breach(lost) \/ CommitRequest(lost)
                                 \/ CommitRead(lost) \/ CommitWrites(lost)
    \/ \E u \in Updates, lost \in LostReplies :
          \/ AcceptAttempt(u, lost) \/ StartAssignment(u, lost)
          \/ CancelAssignment(u, lost) \/ CompleteAssignment(u, lost)

AppointmentCall ==
    \/ \E lost \in LostReplies : MissVisit(lost)
    \/ \E u \in Updates, lost \in LostReplies :
          \/ ReserveSlot(u, lost) \/ ReleaseSlot(u, lost) \/ ConfirmSlot(u, lost)
          \/ StartVisit(u, lost) \/ FailVisit(u, lost) \/ ReplaceVisit(u, lost)
          \/ CancelVisit(u, lost) \/ CompleteVisit(u, lost)

CaseCall ==
    \/ \E lost \in LostReplies : \/ MissFlag(lost) \/ BreachCase(lost)
                                 \/ MarkAssigned(lost) \/ FlagAllocation(lost)
    \/ \E u \in Updates, lost \in LostReplies :
          \/ OpenCase(u, lost) \/ RecordAcceptance(u, lost)
          \/ StartCase(u, lost) \/ FlagStart(u, lost) \/ ParkCase(u, lost)
          \/ RecordReplacement(u, lost) \/ CancelCase(u, lost)
          \/ CompleteCase(u, lost) \/ FlagCompletion(u, lost)

\* The loop and the handlers between their calls, the Gateway, a new run, the clock.
WorkflowStep ==
    \/ LoopStep \/ StartRun \/ Tick
    \/ \E u \in Updates : Send(u) \/ HandlerStep(u)

\* A step of the system calls one atom at most.
LEMMA StepKinds ==
    Next => \/ AssignmentCall \/ AppointmentCall \/ CaseCall
            \/ WorkflowStep \/ OtherCaseAllocates
<1>1. ASSUME NEW lost \in LostReplies, LoopActivity(lost)
      PROVE  AssignmentCall \/ AppointmentCall \/ CaseCall
  BY <1>1 DEF LoopActivity, AssignmentCall, AppointmentCall, CaseCall
<1>2. ASSUME NEW u \in Updates, NEW lost \in LostReplies, HandlerActivity(u, lost)
      PROVE  AssignmentCall \/ AppointmentCall \/ CaseCall
  <2>1. CASE OpenCase(u, lost) \/ AcceptActivity(u, lost)
    BY <2>1 DEF AcceptActivity, AssignmentCall, AppointmentCall, CaseCall
  <2>2. CASE StartActivity(u, lost) \/ VisitActivity(u, lost)
    BY <2>2 DEF StartActivity, VisitActivity, AssignmentCall, AppointmentCall, CaseCall
  <2>3. CASE CancelActivity(u, lost) \/ CompleteActivity(u, lost)
    BY <2>3 DEF CancelActivity, CompleteActivity, AssignmentCall, AppointmentCall, CaseCall
  <2> QED BY <1>2, <2>1, <2>2, <2>3 DEF HandlerActivity
<1>3. CommitFails => AssignmentCall
  BY DEF AssignmentCall
<1> QED BY <1>1, <1>2, <1>3 DEF Next, WorkflowStep

\* What a call of an atom leaves alone.
LEMMA CallFrames ==
    /\ AssignmentCall => UNCHANGED <<appointmentVars, caseVars, now>>
    /\ AppointmentCall => UNCHANGED <<assignmentVars, caseVars, deadline, now>>
    /\ CaseCall => UNCHANGED <<assignmentVars, appointmentVars, deadline, now>>
<1>1. AssignmentCall => UNCHANGED <<appointmentVars, caseVars, now>>
  BY DEF AssignmentCall, CommitFails, Breach, CommitRequest, CommitRead, CommitWrites,
         AcceptAttempt, StartAssignment, CancelAssignment, CompleteAssignment, OnlyAssignment
<1>2. AppointmentCall => UNCHANGED <<assignmentVars, caseVars, deadline, now>>
  <2>1. ASSUME NEW lost, MissVisit(lost)
        PROVE  UNCHANGED <<assignmentVars, caseVars, deadline, now>>
    BY <2>1 DEF MissVisit
  <2>2. ASSUME NEW u, NEW lost,
               \/ ReserveSlot(u, lost) \/ ReleaseSlot(u, lost) \/ ConfirmSlot(u, lost)
               \/ StartVisit(u, lost) \/ FailVisit(u, lost) \/ ReplaceVisit(u, lost)
               \/ CancelVisit(u, lost) \/ CompleteVisit(u, lost)
        PROVE  UNCHANGED <<assignmentVars, caseVars, deadline, now>>
    BY <2>2 DEF ReserveSlot, ReleaseSlot, ConfirmSlot, StartVisit,
           FailVisit, ReplaceVisit, CancelVisit, CompleteVisit, OnlyAppointment
  <2> QED BY <2>1, <2>2 DEF AppointmentCall
<1>3. CaseCall => UNCHANGED <<assignmentVars, appointmentVars, deadline, now>>
  BY DEF CaseCall, MissFlag, BreachCase, MarkAssigned, FlagAllocation, OpenCase,
         RecordAcceptance, StartCase, FlagStart, ParkCase, RecordReplacement, CancelCase,
         CompleteCase, FlagCompletion, OnlyCase
<1> QED BY <1>1, <1>2, <1>3

\* Between its calls the Workflow touches no atom.
LEMMA WorkflowFrame == WorkflowStep => UNCHANGED <<atomVars, effects>>
<1>1. LoopStep => UNCHANGED <<atomVars, effects>>
  BY DEF LoopStep, Top, Close, CancellationSettled, Wake, GateAccept, GateVisit, Due,
         BreachCheck, Shift, CheckTerminal, FetchSnapshot
<1>2. ASSUME NEW u, HandlerStep(u) PROVE UNCHANGED <<atomVars, effects>>
  BY <1>2 DEF HandlerStep, Admit, AwaitRecovery, AwaitGuards, ValidateCompletion
<1> QED BY <1>1, <1>2 DEF WorkflowStep, StartRun, Tick, Send, workflowVars

-----------------------------------------------------------------------------
(* The Workflow calls the atoms as their own proofs allow: with ids that exist, *)
(* with the Case and the Contractor of the offer, with an operation id of its   *)
(* own for each booking and each acceptance.                                    *)

\* An Attempt that was offered is a row.
LEMMA OfferIsRow ==
    ASSUME WorkflowInv, NEW a \in AttemptIds, attempt[a] # Asg!NoAttempt
    PROVE  /\ attempt[a] \in Asg!AttemptRow
           /\ attempt[a].case = TheCase /\ attempt[a].contractor \in Contractors
<1>1. Asg!AssignmentTypeOK
  BY AssignmentFacts DEF WorkflowInv
<1> QED BY <1>1 DEF Asg!AssignmentTypeOK, Asg!AttemptRow, Cases

\* A claim that was made is a row of this Case.
LEMMA ClaimIsRow ==
    ASSUME WorkflowInv, NEW x \in ClaimIds, claim[x] # Apt!NoClaim
    PROVE  /\ claim[x] \in Apt!ClaimRow /\ claim[x].case = TheCase
           /\ claim[x].contractor \in Contractors /\ claim[x].attempt \in AttemptIds
           /\ claim[x].slot \in Slots
  BY DEF WorkflowInv, Apt!AppointmentTypeOK, Apt!ClaimRow, Cases

\* A visit of the Case is booked on a claim.
LEMMA VisitIsRow ==
    ASSUME WorkflowInv, NEW x \in Apt!VisitsOf(TheCase)
    PROVE  /\ x \in ClaimIds /\ appointment[x] # NONE /\ claim[x] # Apt!NoClaim
           /\ claim[x] \in Apt!ClaimRow /\ claim[x].contractor \in Contractors
<1>1. x \in ClaimIds /\ appointment[x] # NONE
  BY DEF Apt!VisitsOf
<1>2. claim[x] # Apt!NoClaim
  BY <1>1 DEF WorkflowInv, ClaimsNameOffers
<1> QED BY <1>1, <1>2, ClaimIsRow

\* A handler reports on a visit that is booked.
LEMMA ReportedVisit ==
    ASSUME WorkflowInv, NEW u \in Updates, upd[u].pc \notin {"new", "done"},
           KindOf[u] \in {"start", "noAccess", "replace", "complete"}
    PROVE  /\ upd[u].target \in ClaimIds /\ Visitor(u) \in Contractors
           /\ upd[u].target \in Apt!VisitsOf(TheCase)
<1>1. upd[u].target \in Apt!VisitsOf(TheCase)
  BY DEF WorkflowInv, UpdateNames, Names
<1> QED BY <1>1, VisitIsRow DEF Visitor

\* Every call of the Appointment atom is an operation of it.
LEMMA AppointmentCalls ==
    ASSUME WorkflowInv, [Next]_vars
    PROVE  [Apt!AppointmentNext]_appointmentVars
<1>1. ASSUME NEW lost, MissVisit(lost) PROVE Apt!VisitStep
  <2>1. main.target \in ClaimIds
    BY <1>1 DEF MissVisit, WorkflowInv, Shape, LoopShape
  <2> QED BY <1>1, <2>1 DEF MissVisit, Apt!VisitStep, Apt!MarkAppointmentMissed
<1>2. ASSUME NEW u \in Updates, NEW lost, ReserveSlot(u, lost) PROVE Apt!BookingStep
  <2>1. KindOf[u] = "accept" /\ upd[u].pc = "reserve" /\ u \in ClaimIds
    BY <1>2 DEF ReserveSlot, At, ClaimIds
  <2>2. /\ upd[u].target \in AttemptIds /\ upd[u].slot \in Slots
        /\ attempt[upd[u].target] # Asg!NoAttempt
    BY <2>1 DEF WorkflowInv, UpdateNames, Names
  <2>3. Offered(u) \in Contractors
    BY <2>2, OfferIsRow DEF Offered
  <2>4. \A y \in ClaimIds : claim[y].attempt = upd[u].target =>
           claim[y].case = TheCase /\ claim[y].contractor = Offered(u)
    <3> SUFFICES ASSUME NEW y \in ClaimIds, claim[y].attempt = upd[u].target
                 PROVE  claim[y].case = TheCase /\ claim[y].contractor = Offered(u)
      OBVIOUS
    <3>1. claim[y] # Apt!NoClaim
      BY <2>2, NoneIsNull DEF Apt!NoClaim
    <3> QED BY <3>1, ClaimIsRow DEF WorkflowInv, ClaimsNameOffers, Offered
  <2> DEFINE past == upd[u].slot[1] <= now
  <2>5. /\ past \in BOOLEAN
        /\ Apt!ReserveAppointmentSlot(u, TheCase, upd[u].target, Offered(u), upd[u].slot, past,
                                      Apt!ReserveOutcome(u, Offered(u), upd[u].slot, past))
    BY <1>2 DEF ReserveSlot
  <2> QED BY <2>1, <2>2, <2>3, <2>4, <2>5 DEF Apt!BookingStep, Cases
<1>3. ASSUME NEW u \in Updates, NEW lost, ConfirmSlot(u, lost) \/ ReleaseSlot(u, lost)
      PROVE  Apt!BookingStep
  <2>1. u \in ClaimIds
    BY <1>3 DEF ConfirmSlot, ReleaseSlot, At, ClaimIds
  <2> QED BY <1>3, <2>1 DEF ConfirmSlot, ReleaseSlot, Apt!BookingStep
<1>4. ASSUME NEW u \in Updates, NEW lost,
             StartVisit(u, lost) \/ FailVisit(u, lost) \/ CompleteVisit(u, lost)
      PROVE  Apt!VisitStep
  <2>1. upd[u].target \in ClaimIds /\ Visitor(u) \in Contractors
    BY <1>4, ReportedVisit DEF StartVisit, FailVisit, CompleteVisit, At
  <2>2. CASE StartVisit(u, lost)
    BY <2>1, <2>2 DEF StartVisit, Apt!VisitStep
  <2>3. CASE FailVisit(u, lost)
    BY <2>1, <2>3 DEF FailVisit, Apt!VisitStep
  <2>4. CASE CompleteVisit(u, lost)
    BY <2>1, <2>4 DEF CompleteVisit, Apt!VisitStep, OpIds
  <2> QED BY <1>4, <2>2, <2>3, <2>4
<1>5. ASSUME NEW u \in Updates, NEW lost, ReplaceVisit(u, lost) PROVE Apt!RescheduleStep
  <2>1. KindOf[u] = "replace" /\ upd[u].pc = "visit" /\ u \in ClaimIds
    BY <1>5 DEF ReplaceVisit, At, ClaimIds
  <2>2. upd[u].slot \in Slots /\ upd[u].target # u
    BY <2>1 DEF WorkflowInv, UpdateNames, Names
  <2>3. claim[u] = Apt!NoClaim \/ appointment[u] # NONE
    BY <2>1 DEF WorkflowInv, ClaimsNameOffers
  <2>4. upd[u].target \in ClaimIds
    BY <2>1, ReportedVisit
  <2>5. Apt!ReplaceAppointmentSlot(upd[u].target, u, TheCase, upd[u].slot,
            Apt!ReplaceOutcome(upd[u].target, u, TheCase, upd[u].slot))
    BY <1>5 DEF ReplaceVisit
  <2> QED BY <2>1, <2>2, <2>3, <2>4, <2>5 DEF Apt!RescheduleStep, Cases
<1>6. ASSUME NEW u \in Updates, NEW lost, CancelVisit(u, lost) PROVE Apt!RescheduleStep
  BY <1>6 DEF CancelVisit, Apt!RescheduleStep, Cases
<1>7. AppointmentCall => Apt!AppointmentNext
  BY <1>1, <1>2, <1>3, <1>4, <1>5, <1>6 DEF AppointmentCall, Apt!AppointmentNext
<1>8. CASE WorkflowStep \/ OtherCaseAllocates \/ UNCHANGED vars
  BY <1>8, WorkflowFrame DEF OtherCaseAllocates, vars, atomVars
<1> QED BY <1>7, <1>8, StepKinds, CallFrames

\* The Update the loop works on is an Officer's request that waits for its answer.
LEMMA RequestWaits ==
    ASSUME WorkflowInv, main.req # NONE
    PROVE  /\ main.req \in Updates /\ KindOf[main.req] = "manual"
           /\ upd[main.req].pc = "queued"
           /\ upd[main.req].k \in Contractors /\ upd[main.req].target \in AttemptIds \cup {NONE}
<1>1. main.req \in Updates /\ upd[main.req].pc = "queued"
  BY DEF WorkflowInv, Shape, QueueShape, Waits
<1>2. KindOf[main.req] = "manual"
  BY <1>1 DEF WorkflowInv, Shape, UpdateShape, PcFits
<1> QED BY <1>1, <1>2 DEF WorkflowInv, UpdateNames, Names

\* The operation id of an allocation names an Attempt.
LEMMA AllocationNamesAttempt ==
    ASSUME WorkflowInv, main.pc \in {"commit", "assign"}
    PROVE  AllocationOp \in AttemptIds
<1>1. main.k \in Contractors /\ main.epoch \in 0 .. MaxEpoch
  BY DEF WorkflowInv, Shape, LoopShape
<1> QED BY <1>1, RequestWaits DEF AllocationOp, Automatic, AttemptIds

\* Every call of the Assignment atom is an operation of it.
LEMMA AssignmentCalls ==
    ASSUME WorkflowInv, [Next]_vars
    PROVE  [Asg!AssignmentNext]_assignmentVars \/ OtherCaseAllocates
<1>1. CommitFails => Asg!CommitStep
  BY DEF CommitFails, Asg!CommitStep
<1>2. ASSUME NEW lost, Breach(lost) PROVE Asg!BreachStep
  <2>1. main.target \in AttemptIds
    BY <1>2 DEF Breach, WorkflowInv, Shape, LoopShape
  <2> QED BY <1>2, <2>1 DEF Breach, Asg!BreachStep, Asg!BreachAllocationAttempt
<1>3. ASSUME NEW lost, CommitRequest(lost) PROVE [Asg!CommitStep]_assignmentVars
  <2> DEFINE replace == IF Automatic THEN NONE ELSE upd[main.req].target
             reason == ~Automatic /\ upd[main.req].was = "REASON"
             out == Asg!CommitBeginOutcome(AllocationOp, TheCase, main.k, ~Automatic,
                                           reason, replace, main.epoch)
  <2>1. Asg!CommitBegin(AllocationOp, TheCase, main.k, ~Automatic, reason, replace,
                        main.epoch, out)
    BY <1>3 DEF CommitRequest
  <2>2. AllocationOp \in AttemptIds /\ main.k \in Contractors
    BY <1>3, AllocationNamesAttempt DEF CommitRequest, WorkflowInv, Shape, LoopShape
  <2>3. replace \in AttemptIds \cup {NONE}
    BY RequestWaits DEF Automatic
  <2>4. CASE main.epoch = epoch
    <3>1. \E manual, r \in BOOLEAN :
             Asg!CommitBegin(AllocationOp, TheCase, main.k, manual, r, replace, epoch,
                 Asg!CommitBeginOutcome(AllocationOp, TheCase, main.k, manual, r, replace, epoch))
      <4>1. (~Automatic) \in BOOLEAN /\ reason \in BOOLEAN
        OBVIOUS
      <4> QED BY <2>1, <2>4, <4>1
    <3> QED BY <2>2, <2>3, <3>1 DEF Asg!CommitStep, Cases
  <2>5. CASE main.epoch # epoch
    BY <2>1, <2>5 DEF Asg!CommitBegin, Asg!CommitBeginOutcome, assignmentVars
  <2> QED BY <2>4, <2>5
<1>4. ASSUME NEW lost, CommitRead(lost) \/ CommitWrites(lost) PROVE Asg!CommitStep
  BY <1>4 DEF CommitRead, CommitWrites, Asg!CommitStep, Asg!CommitReadPending
<1>5. ASSUME NEW u \in Updates, NEW lost, AcceptAttempt(u, lost) PROVE Asg!AcceptStep
  <2>1. KindOf[u] = "accept" /\ upd[u].pc = "accept"
    BY <1>5 DEF AcceptAttempt, At
  <2>2. upd[u].target \in AttemptIds /\ attempt[upd[u].target] # Asg!NoAttempt
    BY <2>1 DEF WorkflowInv, UpdateNames, Names
  <2>3. Offered(u) \in Contractors
    BY <2>2, OfferIsRow DEF Offered
  <2>4. \A b \in AttemptIds \ {upd[u].target} : attempt[b].acceptedBy # u
    BY <2>1 DEF WorkflowInv, NothingBefore
  <2>5. Asg!AcceptAllocationAttempt(TheCase, upd[u].target, Offered(u), u,
            Asg!AcceptOutcome(TheCase, upd[u].target, Offered(u), u))
    BY <1>5 DEF AcceptAttempt
  <2> QED BY <2>2, <2>3, <2>4, <2>5 DEF Asg!AcceptStep, Cases, OpIds
<1>6. ASSUME NEW u \in Updates, NEW lost,
             StartAssignment(u, lost) \/ CancelAssignment(u, lost) \/ CompleteAssignment(u, lost)
      PROVE  Asg!LifecycleStep
  BY <1>6 DEF StartAssignment, CancelAssignment, CompleteAssignment, Asg!LifecycleStep,
              Cases, OpIds
<1>7. AssignmentCall => [Asg!AssignmentNext]_assignmentVars
  BY <1>1, <1>2, <1>3, <1>4, <1>5, <1>6 DEF AssignmentCall, Asg!AssignmentNext
<1>8. CASE WorkflowStep \/ UNCHANGED vars
  BY <1>8, WorkflowFrame DEF vars, atomVars
<1> QED BY <1>7, <1>8, StepKinds, CallFrames

\* What every step keeps of the Assignment atom: its invariant, and the Attempts.
LEMMA AssignmentStands ==
    ASSUME WorkflowInv, [Next]_vars
    PROVE  /\ AsgP!TypeInv' /\ AsgP!SafetyInv'
           /\ \A a \in AttemptIds : attempt[a] # Asg!NoAttempt =>
                 attempt'[a] # Asg!NoAttempt /\ attempt'[a].contractor = attempt[a].contractor
<1>1. AsgP!TypeInv /\ AsgP!SafetyInv
  BY DEF WorkflowInv
<1>2. CASE [Asg!AssignmentNext]_assignmentVars
  BY <1>1, <1>2, AssignmentKept
<1>3. CASE OtherCaseAllocates
  <2>1. epoch' \in Nat
    BY <1>1, <1>3, AssignmentFacts DEF OtherCaseAllocates, Asg!AssignmentTypeOK
  <2>2. UNCHANGED <<assignment, completionOp, attempt, commit>>
    BY <1>3 DEF OtherCaseAllocates
  <2>3. AsgP!TypeInv' /\ AsgP!SafetyInv'
    BY <1>1, <2>1, <2>2, EpochKept
  <2> QED BY <2>2, <2>3
<1> QED BY <1>2, <1>3, AssignmentCalls

\* What every step keeps of the Appointment atom: its types, claims and visits.
LEMMA AppointmentStands ==
    ASSUME WorkflowInv, [Next]_vars
    PROVE  /\ Apt!AppointmentTypeOK' /\ \A x \in ClaimIds : AptP!Stays(x)
<1>1. Apt!AppointmentTypeOK
  BY DEF WorkflowInv
<1> QED BY <1>1, AppointmentCalls, AppointmentKept

-----------------------------------------------------------------------------
(* How a step moves the Updates: one is sent, goes from one await of its     *)
(* handler to another, or is answered.                                       *)

Sends(u) == upd[u].pc = "new" /\ upd'[u].pc = "sent" /\ Names(u)'
Proceeds(u) ==
    /\ upd[u].pc \notin {"new", "done"} /\ upd'[u].pc \notin {"new", "sent", "done"}
    /\ upd'[u].target = upd[u].target /\ upd'[u].k = upd[u].k
    /\ upd'[u].slot = upd[u].slot /\ upd'[u].was = upd[u].was
Answers(u) == upd[u].pc \notin {"new", "done"} /\ upd'[u].pc = "done"

UpdatesMove ==
    /\ UpdateShape'
    /\ \A u \in Updates : upd'[u] = upd[u] \/ Sends(u) \/ Proceeds(u) \/ Answers(u)

\* What a handler does to its Update.
HandlerMoves(u) ==
    \/ UNCHANGED upd
    \/ \E pc : /\ PcFits(KindOf[u], pc) /\ pc \notin {"new", "sent", "done"}
               /\ Continue(u, pc) \/ Enter(u, pc)
    \/ \E result : Answer(u, result)

\* A handler moves its own Update, and as UpdatesMove says.
LEMMA HandlerMovesUpdate ==
    ASSUME UpdateShape, NEW u \in Updates, upd[u].pc \notin {"new", "done"}, HandlerMoves(u)
    PROVE  UpdatesMove
<1>1. CASE UNCHANGED upd
  BY <1>1 DEF UpdatesMove, UpdateShape
<1>2. ASSUME NEW pc, PcFits(KindOf[u], pc), pc \notin {"new", "sent", "done"},
             Continue(u, pc) \/ Enter(u, pc)
      PROVE  UpdatesMove
  <2>1. /\ upd' = [v \in Updates |-> upd'[v]]
        /\ \A v \in Updates \ {u} : upd'[v] = upd[v]
        /\ \E g : upd'[u] = [upd[u] EXCEPT !.pc = pc, !.guards = g]
    <3>1. CASE Continue(u, pc)
      <4>1. upd'[u] = [upd[u] EXCEPT !.pc = pc]
        BY <3>1 DEF Continue, UpdateShape
      <4>2. upd'[u] = [upd[u] EXCEPT !.pc = pc, !.guards = upd[u].guards]
        BY <4>1 DEF UpdateShape, IsUpdate
      <4> QED BY <3>1, <4>2 DEF Continue, UpdateShape
    <3>2. CASE Enter(u, pc)
      BY <3>2 DEF Enter, UpdateShape
    <3> QED BY <1>2, <3>1, <3>2
  <2>2. IsUpdate(upd'[u]) /\ upd'[u].pc = pc /\ Proceeds(u)
    BY <1>2, <2>1 DEF UpdateShape, IsUpdate, Proceeds
  <2> QED BY <1>2, <2>1, <2>2 DEF UpdatesMove, UpdateShape
<1>3. ASSUME NEW result, Answer(u, result) PROVE UpdatesMove
  <2>1. upd'[u] = Answered(result) /\ upd'[u].pc = "done" /\ IsUpdate(upd'[u])
    BY <1>3 DEF Answer, Answered, NewUpdate, IsUpdate, UpdateShape
  <2>2. upd' = [v \in Updates |-> upd'[v]] /\ \A v \in Updates \ {u} : upd'[v] = upd[v]
    BY <1>3 DEF Answer, UpdateShape
  <2> QED BY <2>1, <2>2 DEF UpdatesMove, UpdateShape, PcFits, Answers
<1> QED BY <1>1, <1>2, <1>3 DEF HandlerMoves

\* An Activity of a handler ends in another await or in an answer.
LEMMA ActivityMoves ==
    ASSUME NEW u \in Updates, NEW lost \in BOOLEAN, HandlerActivity(u, lost)
    PROVE  HandlerMoves(u) /\ upd[u].pc \notin {"new", "sent", "queued", "done"}
<1> USE DEF At, PcFits, HandlerMoves, Lost, Then, Reject, Finish, CancellationRejected
<1>1. CASE OpenCase(u, lost)
  BY <1>1 DEF OpenCase
<1>2. CASE AcceptActivity(u, lost)
  <2>1. CASE ReserveSlot(u, lost)
    BY <2>1 DEF ReserveSlot, Apt!ReserveOutcome
  <2>2. CASE AcceptAttempt(u, lost)
    BY <2>2 DEF AcceptAttempt
  <2>3. CASE ReleaseSlot(u, lost)
    BY <2>3 DEF ReleaseSlot
  <2>4. CASE ConfirmSlot(u, lost)
    BY <2>4 DEF ConfirmSlot
  <2>5. CASE RecordAcceptance(u, lost)
    BY <2>5 DEF RecordAcceptance
  <2> QED BY <1>2, <2>1, <2>2, <2>3, <2>4, <2>5 DEF AcceptActivity
<1>3. CASE StartActivity(u, lost)
  BY <1>3 DEF StartActivity, StartVisit, StartAssignment, StartCase, FlagStart
<1>4. CASE VisitActivity(u, lost)
  BY <1>4 DEF VisitActivity, FailVisit, ParkCase, ReplaceVisit, RecordReplacement
<1>5. CASE CancelActivity(u, lost)
  BY <1>5 DEF CancelActivity, CancelVisit, CancelAssignment, CancelCase
<1>6. CASE CompleteActivity(u, lost)
  BY <1>6 DEF CompleteActivity, CompleteVisit, CompleteAssignment, CompleteCase, FlagCompletion
<1> QED BY <1>1, <1>2, <1>3, <1>4, <1>5, <1>6 DEF HandlerActivity

\* A cancellation that is admitted also answers the requests it takes out of the queue.
Drains(u) == Admit(u) /\ AdmitCancel(u) /\ ~wf.cancelling

\* The other steps of a handler end in another await or in an answer too.
LEMMA HandlerStepMoves ==
    ASSUME NEW u \in Updates, HandlerStep(u)
    PROVE  /\ upd[u].pc \notin {"new", "queued", "done"}
           /\ HandlerMoves(u) \/ Drains(u)
<1> USE DEF At, PcFits, HandlerMoves, Then, Reject
<1>1. CASE Admit(u)
  BY <1>1 DEF Admit, AdmitOpen, AdmitManual, AdmitAccept, AdmitVisitReport, AdmitReplace,
              AdmitCancel, AdmitComplete, Drains
<1>2. CASE AwaitRecovery(u) \/ AwaitGuards(u) \/ ValidateCompletion(u)
  BY <1>2 DEF AwaitRecovery, AwaitGuards, ValidateCompletion
<1> QED BY <1>1, <1>2 DEF HandlerStep

\* A request with what each route fills in.
WithOverride(req, k, a, r) == [req EXCEPT !.k = k, !.target = a, !.was = r]
WithSlot(req, a, s) == [req EXCEPT !.target = a, !.slot = s]
WithMove(req, x, s) == [req EXCEPT !.target = x, !.slot = s, !.was = appointment[x]]

\* The requests of each route, in these words.
LEMMA RequestsAre ==
    ASSUME NEW req
    PROVE  /\ ManualRequests(req) =
                 {WithOverride(req, k, a, r) :
                     k \in {x \in Contractors : Status \in {"pending", "assigned"}},
                     a \in Asg!Pending(TheCase) \cup {NONE}, r \in {"REASON", NONE}}
           /\ AcceptRequests(req) = {WithSlot(req, a, s) : a \in CurrentAttempts, s \in Slots}
           /\ ReplaceRequests(req) =
                 {WithMove(req, x, s) : x \in Apt!VisitsOf(TheCase), s \in Slots}
  BY DEF ManualRequests, AcceptRequests, ReplaceRequests, WithOverride, WithSlot, WithMove

\* A request names what the Gateway read.
LEMMA RequestShape ==
    ASSUME NEW kind \in Kinds, NEW req \in Requests(kind)
    PROVE  /\ IsUpdate(req) /\ req.pc = "sent"
           /\ kind = "manual" => /\ req.k \in Contractors
                                 /\ req.target \in Asg!Pending(TheCase) \cup {NONE}
           /\ kind = "accept" => req.target \in CurrentAttempts /\ req.slot \in Slots
           /\ kind \in {"start", "noAccess", "replace", "complete"} =>
                  req.target \in Apt!VisitsOf(TheCase)
           /\ kind = "replace" => req.slot \in Slots
<1>0. PICK base : base = [NewUpdate EXCEPT !.pc = "sent"]
  OBVIOUS
<1>1. IsUpdate(base) /\ base.pc = "sent"
  BY <1>0 DEF NewUpdate, IsUpdate
<1>2. CASE kind = "open" \/ kind = "cancel"
  <2>1. req = base
    BY <1>0, <1>2 DEF Requests, OpenRequests, CancelRequests
  <2> QED BY <1>1, <1>2, <2>1 DEF IsUpdate
<1>3. CASE kind = "manual"
  <2>1. req \in ManualRequests(base)
    BY <1>0, <1>3 DEF Requests
  <2>2. PICK k \in Contractors, a \in Asg!Pending(TheCase) \cup {NONE}, r \in {"REASON", NONE} :
            req = WithOverride(base, k, a, r)
    BY <2>1, RequestsAre
  <2> QED BY <1>1, <1>3, <2>2 DEF IsUpdate, WithOverride
<1>4. CASE kind = "accept"
  <2>1. req \in AcceptRequests(base)
    BY <1>0, <1>4 DEF Requests
  <2>2. PICK a \in CurrentAttempts, s \in Slots : req = WithSlot(base, a, s)
    BY <2>1, RequestsAre
  <2> QED BY <1>1, <1>4, <2>2 DEF IsUpdate, WithSlot
<1>5. CASE kind \in {"start", "noAccess", "complete"}
  <2>1. PICK x \in Apt!VisitsOf(TheCase) : req = [base EXCEPT !.target = x]
    <3>1. CASE kind \in {"start", "noAccess"}
      BY <1>0, <3>1 DEF Requests, VisitRequests
    <3>2. CASE kind = "complete"
      BY <1>0, <3>2 DEF Requests, CompleteRequests
    <3> QED BY <1>5, <3>1, <3>2
  <2> QED BY <1>1, <1>5, <2>1 DEF IsUpdate
<1>6. CASE kind = "replace"
  <2>1. req \in ReplaceRequests(base)
    BY <1>0, <1>6 DEF Requests
  <2>2. PICK x \in Apt!VisitsOf(TheCase), s \in Slots :
            req = WithMove(base, x, s)
    BY <2>1, RequestsAre
  <2> QED BY <1>1, <1>6, <2>2 DEF IsUpdate, WithMove
<1> QED BY <1>2, <1>3, <1>4, <1>5, <1>6 DEF Kinds

\* What is sent names what exists, and is nobody's claim yet.
LEMMA SentRequest ==
    ASSUME WorkflowInv, NEW u \in Updates, Send(u)
    PROVE  UpdatesMove
<1>1. /\ upd[u].pc = "new" /\ KindOf[u] \in Kinds
      /\ UNCHANGED <<attempt, claim, appointment>>
  BY WorkflowAssumption DEF Send, atomVars, assignmentVars, appointmentVars
<1>2. PICK req \in Requests(KindOf[u]) : upd' = [upd EXCEPT ![u] = req]
  BY DEF Send
<1>3. upd'[u] = req /\ upd' = [v \in Updates |-> upd'[v]]
      /\ \A v \in Updates \ {u} : upd'[v] = upd[v]
  BY <1>2 DEF WorkflowInv, Shape, UpdateShape
<1>4. IsUpdate(req) /\ req.pc = "sent"
  BY <1>1, RequestShape
<1>6. /\ KindOf[u] = "manual" => req.k \in Contractors
                                 /\ req.target \in Asg!Pending(TheCase) \cup {NONE}
      /\ KindOf[u] = "accept" => req.target \in CurrentAttempts /\ req.slot \in Slots
      /\ KindOf[u] \in {"start", "noAccess", "replace", "complete"} =>
             req.target \in Apt!VisitsOf(TheCase)
      /\ KindOf[u] = "replace" => req.slot \in Slots
  BY <1>1, RequestShape
<1>7. /\ KindOf[u] = "manual" => req.target \in AttemptIds \cup {NONE}
      /\ KindOf[u] = "accept" => req.target \in AttemptIds /\ attempt[req.target] # Asg!NoAttempt
  BY <1>6 DEF CurrentAttempts, Asg!Pending, Asg!Accepted, Asg!AttemptsOf, Asg!NoAttempt
<1>8. KindOf[u] = "replace" => req.target # u
  <2> SUFFICES ASSUME KindOf[u] = "replace", req.target = u PROVE FALSE
    OBVIOUS
  <2>1. u \in ClaimIds /\ claim[u] = Apt!NoClaim
    BY <1>1 DEF WorkflowInv, NothingBefore, ClaimIds
  <2> QED BY <1>6, <2>1, VisitIsRow
<1>9. Names(u)'
  BY <1>1, <1>3, <1>6, <1>7, <1>8 DEF Names, Apt!VisitsOf
<1> QED BY <1>1, <1>3, <1>4, <1>9 DEF UpdatesMove, Sends, WorkflowInv, Shape, UpdateShape, PcFits

\* What the Assignment atom answers to a commit.
LEMMA CommitReplies ==
    /\ \A op, c, k, m, r, x, e :
          Asg!CommitBeginOutcome(op, c, k, m, r, x, e) \in
              {"ALREADY_COMMITTED", "STALE_EPOCH", "OVERRIDE_REASON_REQUIRED",
               "REPLACEMENT_ATTEMPT_NOT_PENDING", "CONTINUE"}
    /\ Asg!CommitPendingOutcome \in
           {"ACTIVE_ATTEMPT_EXISTS", "REPLACEMENT_ATTEMPT_NOT_PENDING", "CONTINUE"}
  BY DEF Asg!CommitBeginOutcome, Asg!CommitPendingOutcome

\* The main loop answers the request it works on, or the one it takes up, if any.
LoopAnswered ==
    \/ UNCHANGED upd
    \/ \E r \in Updates : \E result : upd[r].pc = "queued" /\ Answer(r, result)

\* It moves no other Update.
LEMMA LoopAnswers ==
    ASSUME WorkflowInv, LoopStep \/ \E lost \in BOOLEAN : LoopActivity(lost)
    PROVE  LoopAnswered
<1>1. UNCHANGED upd => LoopAnswered
  BY DEF LoopAnswered
<1>3. ASSUME NEW w, NEW result, AllocationOver(w, result) PROVE LoopAnswered
  BY <1>3, RequestWaits DEF AllocationOver, Automatic, LoopAnswered
<1>4. CASE Shift
  <2>1. CASE wf.queue = <<>>
    BY <1>1, <1>4, <2>1 DEF Shift
  <2>2. CASE wf.queue # <<>>
    <3>1. wf.queue \in Seq(Updates \cup {NONE}) /\ Head(wf.queue) = wf.queue[1]
          /\ 1 \in 1 .. Len(wf.queue)
      BY <2>2 DEF WorkflowInv, Shape, RunState
    <3>2. Waits(Head(wf.queue))
      BY <3>1 DEF WorkflowInv, Shape, QueueShape
    <3> QED BY <1>4, <2>2, <3>2 DEF Shift, Waits, LoopAnswered
  <2> QED BY <2>1, <2>2
<1>5. CASE CheckTerminal \/ FetchSnapshot
  BY <1>1, <1>3, <1>5 DEF CheckTerminal, FetchSnapshot
<1>6. CASE LoopStep /\ ~(Shift \/ CheckTerminal \/ FetchSnapshot)
  BY <1>1, <1>6 DEF LoopStep, Top, Close, CancellationSettled, Wake, GateAccept, GateVisit,
                    Due, BreachCheck
<1>7. ASSUME NEW out \in {"COMMITTED", "ALREADY_COMMITTED", "STALE_EPOCH",
                         "ACTIVE_ATTEMPT_EXISTS", "OVERRIDE_REASON_REQUIRED",
                         "REPLACEMENT_ATTEMPT_NOT_PENDING"},
             OnCommitReply(out)
      PROVE  LoopAnswered
  <2>1. CASE out \in {"COMMITTED", "ALREADY_COMMITTED", "STALE_EPOCH"}
    BY <1>1, <1>7, <2>1 DEF OnCommitReply
  <2>2. CASE out = "ACTIVE_ATTEMPT_EXISTS"
    BY <1>3, <1>7, <2>2 DEF OnCommitReply
  <2>3. CASE out \in {"OVERRIDE_REASON_REQUIRED", "REPLACEMENT_ATTEMPT_NOT_PENDING"}
    BY <1>3, <1>7, <2>3 DEF OnCommitReply
  <2> QED BY <2>1, <2>2, <2>3
<1>8. ASSUME NEW lost \in BOOLEAN, LoopActivity(lost) PROVE LoopAnswered
  <2>1. CASE MissVisit(lost) \/ MissFlag(lost) \/ Breach(lost) \/ BreachCase(lost)
    BY <1>1, <2>1 DEF MissVisit, MissFlag, Breach, BreachCase
  <2>2. CASE CommitRequest(lost)
    BY <1>1, <1>7, <2>2, CommitReplies DEF CommitRequest
  <2>3. CASE CommitRead(lost)
    BY <1>1, <1>7, <2>3, CommitReplies DEF CommitRead
  <2>4. CASE CommitWrites(lost)
    BY <1>1, <1>7, <2>4 DEF CommitWrites
  <2>5. CASE MarkAssigned(lost) \/ FlagAllocation(lost)
    BY <1>1, <1>3, <2>5 DEF MarkAssigned, FlagAllocation
  <2> QED BY <1>8, <2>1, <2>2, <2>3, <2>4, <2>5 DEF LoopActivity
<1> QED BY <1>4, <1>5, <1>6, <1>8

\* So it moves the Updates as UpdatesMove says.
LEMMA LoopMovesUpdate ==
    ASSUME WorkflowInv, LoopStep \/ \E lost \in BOOLEAN : LoopActivity(lost)
    PROVE  UpdatesMove
<1>1. UpdateShape
  BY DEF WorkflowInv, Shape
<1>2. ASSUME NEW r \in Updates, NEW result, upd[r].pc = "queued", Answer(r, result)
      PROVE  UpdatesMove
  BY <1>1, <1>2, HandlerMovesUpdate DEF HandlerMoves
<1>3. UNCHANGED upd => UpdatesMove
  BY <1>1 DEF UpdatesMove, UpdateShape
<1> QED BY <1>2, <1>3, LoopAnswers DEF LoopAnswered

\* A cancellation that is admitted moves itself, and answers who waits in the queue.
LEMMA DrainMoves ==
    ASSUME WorkflowInv, NEW u \in Updates, Drains(u)
    PROVE  UpdatesMove
<1>0. /\ UpdateShape /\ upd[u].pc = "sent" /\ KindOf[u] = "cancel"
      /\ upd' = [v \in Updates |->
            IF v = u THEN [upd[v] EXCEPT !.pc = "await"]
            ELSE IF \E i \in DOMAIN wf.queue : wf.queue[i] = v
            THEN Answered("CASE_TERMINAL") ELSE upd[v]]
  BY DEF WorkflowInv, Shape, Drains, Admit, AdmitCancel
<1>1. ASSUME NEW v \in Updates, NEW i \in DOMAIN wf.queue, wf.queue[i] = v
      PROVE  upd[v].pc = "queued"
  <2>1. i \in 1 .. Len(wf.queue)
    BY DEF WorkflowInv, Shape, RunState
  <2> QED BY <1>1, <2>1, NoneIsNull DEF WorkflowInv, Shape, QueueShape, Waits
<1>2. ASSUME NEW v \in Updates
      PROVE  /\ IsUpdate(upd'[v]) /\ PcFits(KindOf[v], upd'[v].pc)
             /\ upd'[v] = upd[v] \/ Proceeds(v) \/ Answers(v)
  <2>0. IsUpdate(upd[v]) /\ PcFits(KindOf[v], upd[v].pc)
    BY <1>0 DEF UpdateShape
  <2>1. CASE v = u
    <3>1. upd'[v] = [upd[v] EXCEPT !.pc = "await"]
      BY <1>0, <2>1
    <3> QED BY <1>0, <2>0, <2>1, <3>1 DEF IsUpdate, PcFits, Proceeds
  <2>2. CASE v # u /\ \E i \in DOMAIN wf.queue : wf.queue[i] = v
    <3>1. upd'[v] = Answered("CASE_TERMINAL")
      BY <1>0, <2>2
    <3>2. IsUpdate(upd'[v]) /\ upd'[v].pc = "done"
      BY <3>1 DEF Answered, NewUpdate, IsUpdate
    <3> QED BY <1>1, <2>2, <3>2 DEF PcFits, Answers
  <2>3. CASE v # u /\ ~\E i \in DOMAIN wf.queue : wf.queue[i] = v
    BY <1>0, <2>0, <2>3
  <2> QED BY <2>1, <2>2, <2>3
<1>3. upd' = [v \in Updates |-> upd'[v]]
  BY <1>0
<1> QED BY <1>2, <1>3 DEF UpdatesMove, UpdateShape

\* Every step moves the Updates as UpdatesMove says.
LEMMA EveryStepMoves == ASSUME WorkflowInv, [Next]_vars PROVE UpdatesMove
<1>0. UpdateShape
  BY DEF WorkflowInv, Shape
<1>1. UNCHANGED upd => UpdatesMove
  BY <1>0 DEF UpdatesMove, UpdateShape
<1>2. CASE LoopStep
  BY <1>2, LoopMovesUpdate
<1>3. ASSUME NEW lost \in LostReplies, LoopActivity(lost) PROVE UpdatesMove
  BY <1>3, LoopMovesUpdate, WorkflowAssumption
<1>4. ASSUME NEW u \in Updates, Send(u) PROVE UpdatesMove
  BY <1>4, SentRequest
<1>5. ASSUME NEW u \in Updates, HandlerStep(u) PROVE UpdatesMove
  BY <1>0, <1>5, HandlerStepMoves, HandlerMovesUpdate, DrainMoves
<1>6. ASSUME NEW u \in Updates, NEW lost \in LostReplies, HandlerActivity(u, lost)
      PROVE  UpdatesMove
  BY <1>0, <1>6, ActivityMoves, HandlerMovesUpdate, WorkflowAssumption
<1>7. CommitFails \/ StartRun \/ Tick \/ OtherCaseAllocates \/ UNCHANGED vars => UNCHANGED upd
  BY DEF CommitFails, StartRun, Tick, OtherCaseAllocates, vars, workflowVars
<1> QED BY <1>1, <1>2, <1>3, <1>4, <1>5, <1>6, <1>7 DEF Next

-----------------------------------------------------------------------------
(* Where claims and acceptances come from.                                   *)

\* A claim is made by the reservation of an acceptance, for the offer it names, or
\* by a replacement, for the offer of the visit it replaces.
Claimed(x) ==
    \/ /\ KindOf[x] = "accept" /\ upd[x].pc = "reserve"
       /\ claim'[x].attempt = upd[x].target /\ claim'[x].contractor = Offered(x)
    \/ /\ KindOf[x] = "replace" /\ upd[x].pc = "visit" /\ appointment'[x] # NONE
       /\ claim'[x].attempt = claim[upd[x].target].attempt
       /\ claim'[x].contractor = claim[upd[x].target].contractor

\* Nothing else makes a claim.
LEMMA NewClaim ==
    ASSUME WorkflowInv, [Next]_vars, NEW x \in ClaimIds,
           claim[x] = Apt!NoClaim, claim'[x] # Apt!NoClaim
    PROVE  Claimed(x)
<1>0. claim = [y \in ClaimIds |-> claim[y]] /\ appointment = [y \in ClaimIds |-> appointment[y]]
  BY DEF WorkflowInv, Apt!AppointmentTypeOK
<1>1. AppointmentCall
  BY StepKinds, CallFrames, WorkflowFrame DEF OtherCaseAllocates, vars, atomVars, appointmentVars
<1>2. ASSUME NEW u \in Updates, NEW lost, ReserveSlot(u, lost) PROVE Claimed(x)
  <2>1. KindOf[u] = "accept" /\ upd[u].pc = "reserve"
    BY <1>2 DEF ReserveSlot, At
  <2>2. x = u /\ claim'[u] = [status |-> "HELD", case |-> TheCase, attempt |-> upd[u].target,
                              contractor |-> Offered(u), slot |-> upd[u].slot]
    BY <1>0, <1>2 DEF ReserveSlot, Apt!ReserveAppointmentSlot
  <2> QED BY <2>1, <2>2 DEF Claimed
<1>3. ASSUME NEW u \in Updates, NEW lost, ReplaceVisit(u, lost) PROVE Claimed(x)
  <2>1. KindOf[u] = "replace" /\ upd[u].pc = "visit" /\ u \in ClaimIds
    BY <1>3 DEF ReplaceVisit, At, ClaimIds
  <2>2. /\ upd[u].target \in ClaimIds /\ claim[upd[u].target] # Apt!NoClaim
        /\ claim[upd[u].target] \in Apt!ClaimRow
    BY <2>1, ReportedVisit, VisitIsRow
  <2>3. /\ x = u /\ appointment'[u] = "scheduled"
        /\ claim'[u] = [claim[upd[u].target] EXCEPT !.status = "ACTIVE", !.slot = upd[u].slot]
    BY <1>0, <1>3, <2>1, <2>2 DEF ReplaceVisit, Apt!ReplaceAppointmentSlot
  <2> QED BY <2>1, <2>2, <2>3, NoneIsNull DEF Claimed, Apt!ClaimRow, Apt!AppointmentStatus
<1>4. ASSUME NEW u \in Updates, NEW lost, ReleaseSlot(u, lost) \/ ConfirmSlot(u, lost)
      PROVE  FALSE
  BY <1>0, <1>4 DEF ReleaseSlot, ConfirmSlot, Apt!ReleaseAppointmentSlot, Apt!ReleaseOutcome,
     Apt!ConfirmAppointmentSlot, Apt!ConfirmOutcome, Apt!NoClaim, At, ClaimIds
<1>5. ASSUME NEW u \in Updates, NEW lost, CancelVisit(u, lost) PROVE FALSE
  BY <1>0, <1>5, VisitIsRow DEF CancelVisit, Apt!CancelScheduledAppointment
<1>6. ASSUME NEW u, NEW lost, StartVisit(u, lost) \/ FailVisit(u, lost) \/ CompleteVisit(u, lost)
                              \/ MissVisit(lost)
      PROVE  FALSE
  BY <1>6 DEF StartVisit, FailVisit, CompleteVisit, MissVisit, Apt!StartWorkAppointment,
     Apt!ReportNoAccessAppointment, Apt!CompleteAppointment, Apt!MarkAppointmentMissed,
     Apt!LeaveScheduled
<1> QED BY <1>1, <1>2, <1>3, <1>4, <1>5, <1>6 DEF AppointmentCall

\* Only the acceptance itself puts its operation id on an Attempt, and only on the
\* offer it names.
LEMMA NewAcceptance ==
    ASSUME WorkflowInv, [Next]_vars, NEW a \in AttemptIds, NEW u \in Updates,
           attempt[a].acceptedBy # u, attempt'[a].acceptedBy = u
    PROVE  /\ KindOf[u] = "accept" /\ upd[u].pc = "accept" /\ a = upd[u].target
           /\ attempt[a].status = "PENDING_ACCEPTANCE" /\ attempt'[a].status = "ACCEPTED"
           /\ assignment[TheCase] = "PENDING_ACCEPTANCE"
           /\ \E lost \in LostReplies : AcceptAttempt(u, lost)
<1>0. /\ attempt = [b \in AttemptIds |-> attempt[b]] /\ u # NONE
      /\ \A b \in AttemptIds : attempt[b] # Asg!NoAttempt => attempt[b] \in Asg!AttemptRow
  BY AssignmentFacts, NoneIsNull DEF WorkflowInv, Asg!AssignmentTypeOK
<1>1. AssignmentCall
  BY StepKinds, CallFrames, WorkflowFrame DEF OtherCaseAllocates, vars, atomVars, assignmentVars
<1>2. ASSUME NEW v \in Updates, NEW lost \in LostReplies, AcceptAttempt(v, lost)
      PROVE  /\ v = u /\ KindOf[u] = "accept" /\ upd[u].pc = "accept" /\ a = upd[u].target
             /\ attempt[a].status = "PENDING_ACCEPTANCE" /\ attempt'[a].status = "ACCEPTED"
             /\ assignment[TheCase] = "PENDING_ACCEPTANCE"
  <2>1. /\ KindOf[v] = "accept" /\ upd[v].pc = "accept"
        /\ Asg!AcceptAllocationAttempt(TheCase, upd[v].target, Offered(v), v,
               Asg!AcceptOutcome(TheCase, upd[v].target, Offered(v), v))
    BY <1>2 DEF AcceptAttempt, At
  <2>2. upd[v].target \in AttemptIds /\ attempt[upd[v].target] \in Asg!AttemptRow
    BY <2>1, OfferIsRow DEF WorkflowInv, UpdateNames, Names
  <2>3. Asg!AcceptOutcome(TheCase, upd[v].target, Offered(v), v) = "ACCEPTED"
    BY <2>1 DEF Asg!AcceptAllocationAttempt
  <2>4. attempt' = [attempt EXCEPT ![upd[v].target].status = "ACCEPTED",
                                   ![upd[v].target].acceptedBy = v]
    BY <2>1, <2>3 DEF Asg!AcceptAllocationAttempt
  <2>5. a = upd[v].target /\ attempt'[a].acceptedBy = v /\ attempt'[a].status = "ACCEPTED"
    BY <1>0, <2>2, <2>4 DEF Asg!AttemptRow
  <2> QED BY <2>1, <2>3, <2>5 DEF Asg!AcceptOutcome
<1>3. ASSUME NEW lost, CommitWrites(lost) PROVE FALSE
  BY <1>0, <1>3 DEF CommitWrites, Asg!CommitWrite, Asg!AttemptRow, Asg!NoAttempt
<1>4. ASSUME NEW v \in Updates, NEW lost, CancelAssignment(v, lost) PROVE FALSE
  BY <1>0, <1>4 DEF CancelAssignment, Asg!CancelAssignmentForCase, Asg!AttemptRow, Asg!NoAttempt
<1>5. ASSUME NEW lost, Breach(lost) PROVE FALSE
  <2>1. main.target \in AttemptIds /\ attempt[main.target] \in Asg!AttemptRow
    BY <1>5, OfferIsRow DEF Breach, Asg!BreachAllocationAttempt, WorkflowInv, Shape, LoopShape
  <2> QED BY <1>0, <1>5, <2>1 DEF Breach, Asg!BreachAllocationAttempt, Asg!AttemptRow
<1>6. ASSUME NEW v, NEW lost,
             \/ CommitFails \/ CommitRequest(lost) \/ CommitRead(lost)
             \/ StartAssignment(v, lost) \/ CompleteAssignment(v, lost)
      PROVE  FALSE
  BY <1>6 DEF CommitFails, CommitRequest, CommitRead, StartAssignment, CompleteAssignment,
     Asg!CommitRollback, Asg!CommitBegin, Asg!CommitReadAssignment, Asg!CommitReadPending,
     Asg!MarkAssignmentInProgress, Asg!CompleteAssignment
<1> QED BY <1>1, <1>2, <1>3, <1>4, <1>5, <1>6 DEF AssignmentCall

-----------------------------------------------------------------------------
(* The invariant is kept, part by part.                                      *)

\* A visit of the Case stays one.
LEMMA VisitsStay ==
    ASSUME WorkflowInv, [Next]_vars, NEW x \in Apt!VisitsOf(TheCase)
    PROVE  x \in Apt!VisitsOf(TheCase)'
<1>1. AptP!Stays(x) /\ claim[x] # Apt!NoClaim
  BY AppointmentStands, VisitIsRow DEF Apt!VisitsOf
<1> QED BY <1>1, SameAppointment DEF AptP!Stays, Apt!VisitsOf

\* What a waiting Update names goes on existing.
LEMMA NamesStep == ASSUME WorkflowInv, [Next]_vars PROVE UpdateNames'
<1> SUFFICES ASSUME NEW u \in Updates, upd'[u].pc \notin {"new", "done"} PROVE Names(u)'
  BY DEF UpdateNames
<1>1. upd'[u] = upd[u] \/ Sends(u) \/ Proceeds(u)
  BY EveryStepMoves DEF UpdatesMove, Answers
<1>2. CASE Sends(u)
  BY <1>2 DEF Sends
<1>3. CASE upd'[u] = upd[u] \/ Proceeds(u)
  <2>1. /\ upd'[u].target = upd[u].target /\ upd'[u].k = upd[u].k
        /\ upd'[u].slot = upd[u].slot /\ Names(u)
    BY <1>3 DEF Proceeds, WorkflowInv, UpdateNames
  <2>2. upd[u].target \in AttemptIds /\ attempt[upd[u].target] # Asg!NoAttempt =>
            attempt'[upd[u].target] # Asg!NoAttempt
    BY AssignmentStands
  <2> QED BY <2>1, <2>2, VisitsStay DEF Names
<1> QED BY <1>1, <1>2, <1>3

\* An Update still books and accepts nothing before it is admitted.
LEMMA NothingBeforeStep == ASSUME WorkflowInv, [Next]_vars PROVE NothingBefore'
<1> SUFFICES ASSUME NEW u \in Updates
             PROVE  /\ upd'[u].pc \in {"new", "sent"} =>
                          /\ \A a \in AttemptIds : attempt'[a].acceptedBy # u
                          /\ u \in ClaimIds => claim'[u] = Apt!NoClaim
                    /\ upd'[u].pc # "done" =>
                          \A a \in AttemptIds : attempt'[a].acceptedBy = u => a = upd'[u].target
  BY DEF NothingBefore
<1>1. upd'[u] = upd[u] \/ Sends(u) \/ Proceeds(u) \/ Answers(u)
  BY EveryStepMoves DEF UpdatesMove
<1>2. ASSUME NEW a \in AttemptIds, attempt[a].acceptedBy # u, attempt'[a].acceptedBy = u
      PROVE  upd[u].pc = "accept" /\ a = upd[u].target
  BY <1>2, NewAcceptance
<1>3. ASSUME u \in ClaimIds, claim[u] = Apt!NoClaim, claim'[u] # Apt!NoClaim
      PROVE  upd[u].pc \in {"reserve", "visit"}
  BY <1>3, NewClaim DEF Claimed
<1>4. ASSUME upd'[u].pc \in {"new", "sent"}
      PROVE  /\ \A a \in AttemptIds : attempt'[a].acceptedBy # u
             /\ u \in ClaimIds => claim'[u] = Apt!NoClaim
  <2>1. upd[u].pc \in {"new", "sent"}
    BY <1>1, <1>4 DEF Sends, Proceeds, Answers
  <2> QED BY <1>2, <1>3, <2>1 DEF WorkflowInv, NothingBefore
<1>5. ASSUME upd'[u].pc # "done", NEW a \in AttemptIds, attempt'[a].acceptedBy = u
      PROVE  a = upd'[u].target
  <2>1. upd'[u] = upd[u] \/ Proceeds(u)
    BY <1>1, <1>4, <1>5 DEF Sends, Answers
  <2>2. upd[u].pc # "done" /\ upd'[u].target = upd[u].target
    BY <1>5, <2>1 DEF Proceeds
  <2> QED BY <1>2, <1>5, <2>2 DEF WorkflowInv, NothingBefore
<1> QED BY <1>4, <1>5

\* A visit is booked on a claim.
LEMMA VisitsAreClaimed ==
    ASSUME WorkflowInv, [Next]_vars, NEW x \in ClaimIds,
           appointment[x] = NONE, appointment'[x] # NONE
    PROVE  claim'[x] # Apt!NoClaim
<1>1. [AptP!AppointmentNext]_(AptP!appointmentVars)
  BY AppointmentCalls, SameAppointment DEF appointmentVars, AptP!appointmentVars
<1>2. /\ AptP!AppointmentTypeOK
      /\ \A y \in ClaimIds : appointment[y] # NONE => claim[y] # AptP!NoClaim
  BY SameAppointment DEF WorkflowInv, ClaimsNameOffers
<1> QED BY <1>1, <1>2, SameAppointment, AppointmentAssumptions, AptP!NewVisitIsClaimed

\* Claims go on standing for the offers they were made for.
LEMMA ClaimsStep == ASSUME WorkflowInv, [Next]_vars PROVE ClaimsNameOffers'
<1> SUFFICES ASSUME NEW x \in ClaimIds
             PROVE  /\ claim'[x] # Apt!NoClaim =>
                          /\ attempt'[claim'[x].attempt] # Asg!NoAttempt
                          /\ claim'[x].contractor = attempt'[claim'[x].attempt].contractor
                    /\ appointment'[x] # NONE => claim'[x] # Apt!NoClaim
                    /\ KindOf[x] = "replace" /\ claim'[x] # Apt!NoClaim => appointment'[x] # NONE
  BY DEF ClaimsNameOffers
<1>1. AptP!Stays(x)
  BY AppointmentStands
<1>2. CASE claim[x] # Apt!NoClaim
  <2>1. /\ claim'[x] # Apt!NoClaim /\ claim'[x].attempt = claim[x].attempt
        /\ claim'[x].contractor = claim[x].contractor
        /\ appointment[x] # NONE => appointment'[x] # NONE
    BY <1>1, <1>2, SameAppointment DEF AptP!Stays
  <2>2. /\ claim[x].attempt \in AttemptIds /\ attempt[claim[x].attempt] # Asg!NoAttempt
        /\ claim[x].contractor = attempt[claim[x].attempt].contractor
        /\ KindOf[x] = "replace" => appointment[x] # NONE
    BY <1>2, ClaimIsRow DEF WorkflowInv, ClaimsNameOffers
  <2> QED BY <2>1, <2>2, AssignmentStands
<1>3. CASE claim[x] = Apt!NoClaim /\ claim'[x] # Apt!NoClaim
  <2>1. x \in Updates
    BY DEF ClaimIds
  <2>2. CASE KindOf[x] = "accept" /\ upd[x].pc = "reserve"
    <3>1. upd[x].target \in AttemptIds /\ attempt[upd[x].target] # Asg!NoAttempt
      BY <2>1, <2>2 DEF WorkflowInv, UpdateNames, Names
    <3>2. claim'[x].attempt = upd[x].target /\ claim'[x].contractor = Offered(x)
      BY <1>3, <2>2, NewClaim DEF Claimed
    <3> QED BY <1>3, <2>2, <3>1, <3>2, AssignmentStands DEF Offered
  <2>3. CASE KindOf[x] = "replace" /\ upd[x].pc = "visit"
    <3> DEFINE y == upd[x].target
    <3>1. y \in ClaimIds /\ claim[y] # Apt!NoClaim
      BY <2>1, <2>3, ReportedVisit, VisitIsRow
    <3>2. /\ claim[y].attempt \in AttemptIds /\ attempt[claim[y].attempt] # Asg!NoAttempt
          /\ claim[y].contractor = attempt[claim[y].attempt].contractor
      BY <3>1, ClaimIsRow DEF WorkflowInv, ClaimsNameOffers
    <3>3. /\ claim'[x].attempt = claim[y].attempt /\ claim'[x].contractor = claim[y].contractor
          /\ appointment'[x] # NONE
      BY <1>3, <2>3, NewClaim DEF Claimed
    <3> QED BY <1>3, <3>2, <3>3, AssignmentStands
  <2> QED BY <1>3, <2>2, <2>3, NewClaim DEF Claimed
<1>4. CASE claim[x] = Apt!NoClaim /\ claim'[x] = Apt!NoClaim
  <2>1. appointment[x] = NONE
    BY <1>4 DEF WorkflowInv, ClaimsNameOffers
  <2> QED BY <1>4, <2>1, VisitsAreClaimed
<1> QED BY <1>2, <1>3, <1>4

\* A handler moves no Update but its own.
LEMMA HandlerMovesItsOwn ==
    ASSUME UpdateShape, NEW u \in Updates, HandlerMoves(u)
    PROVE  \A v \in Updates \ {u} : upd'[v] = upd[v]
  BY DEF UpdateShape, HandlerMoves, Continue, Enter, Answer

\* An Officer's request that waits goes on waiting until it is answered.
LEMMA QueuedStays ==
    ASSUME WorkflowInv, UpdatesMove, NEW v \in Updates, upd[v].pc = "queued"
    PROVE  upd'[v].pc = "queued" \/ Answers(v)
<1>1. KindOf[v] = "manual"
  BY DEF WorkflowInv, Shape, UpdateShape, PcFits
<1>2. upd'[v] = upd[v] \/ Sends(v) \/ Proceeds(v) \/ Answers(v)
  BY DEF UpdatesMove
<1>3. PcFits(KindOf[v], upd'[v].pc)
  BY DEF UpdatesMove, UpdateShape
<1> QED BY <1>1, <1>2, <1>3 DEF PcFits, Sends, Proceeds

\* The queue keeps its shape while nothing but the request that the loop drops is
\* answered, and nothing but an automatic allocation is put into it.
LEMMA QueueKept ==
    ASSUME WorkflowInv, UpdatesMove,
           wf'.queue = wf.queue \/ wf'.queue = Append(wf.queue, NONE),
           main'.req \in {main.req, NONE},
           \A v \in Updates : upd[v].pc = "queued" /\ Answers(v) => v = main.req /\ main'.req = NONE
    PROVE  QueueShape'
<1>1. QueueShape /\ wf.queue \in Seq(Updates \cup {NONE})
  BY DEF WorkflowInv, Shape, RunState
<1>2. Waits(main.req)'
  BY <1>1, QueuedStays DEF QueueShape, Waits
<1>3. ASSUME NEW i \in 1 .. Len(wf'.queue), wf'.queue[i] # NONE
      PROVE  i \in 1 .. Len(wf.queue) /\ wf'.queue[i] = wf.queue[i]
  BY <1>1, <1>3
<1>4. ASSUME NEW i \in 1 .. Len(wf'.queue), wf'.queue[i] # NONE
      PROVE  /\ wf'.queue[i] \in Updates /\ upd'[wf'.queue[i]].pc = "queued"
             /\ wf'.queue[i] # main'.req
             /\ \A j \in 1 .. Len(wf'.queue) : wf'.queue[j] = wf'.queue[i] => i = j
  <2>1. /\ i \in 1 .. Len(wf.queue) /\ wf'.queue[i] = wf.queue[i]
        /\ wf.queue[i] \in Updates /\ upd[wf.queue[i]].pc = "queued" /\ wf.queue[i] # main.req
    BY <1>1, <1>3, <1>4 DEF QueueShape, Waits
  <2>2. upd'[wf.queue[i]].pc = "queued"
    BY <2>1, QueuedStays
  <2>3. ASSUME NEW j \in 1 .. Len(wf'.queue), wf'.queue[j] = wf'.queue[i] PROVE i = j
    BY <1>1, <1>3, <1>4, <2>1, <2>3 DEF QueueShape
  <2> QED BY <1>4, <2>1, <2>2, <2>3
<1> QED BY <1>2, <1>4 DEF QueueShape, Waits

\* What a handler does to the run: it leaves the main loop where it is, and asks it
\* for an allocation at most.
HandlerRun(u) ==
    /\ UNCHANGED main /\ wf' \in RunState
    /\ \/ wf'.queue = wf.queue \/ wf'.queue = Append(wf.queue, NONE)
       \/ /\ wf'.queue = Append(wf.queue, u) /\ upd[u].pc = "sent" /\ upd'[u].pc = "queued"
       \/ wf'.queue = <<>> /\ Drains(u)

\* The start of a handler does no more.
LEMMA HandlerStepRun ==
    ASSUME WorkflowInv, NEW u \in Updates, HandlerStep(u)
    PROVE  HandlerRun(u)
<1>0. wf \in RunState /\ u \in DOMAIN upd /\ IsUpdate(upd[u])
  BY DEF WorkflowInv, Shape, UpdateShape
<1>1. CASE AwaitRecovery(u) \/ AwaitGuards(u) \/ ValidateCompletion(u)
  BY <1>0, <1>1 DEF AwaitRecovery, AwaitGuards, ValidateCompletion, Then, Reject, HandlerRun
<1>2. CASE Admit(u)
  <2>0. UNCHANGED main /\ upd[u].pc = "sent"
    BY <1>2 DEF Admit
  <2>1. CASE AdmitOpen(u) \/ AdmitAccept(u) \/ AdmitVisitReport(u) \/ AdmitReplace(u) \/ AdmitComplete(u)
    BY <1>0, <2>0, <2>1 DEF AdmitOpen, AdmitAccept, AdmitVisitReport, AdmitReplace,
                            AdmitComplete, HandlerRun
  <2>2. CASE AdmitManual(u)
    <3>1. [wf EXCEPT !.known = TRUE] \in RunState /\ [wf EXCEPT !.known = TRUE].queue = wf.queue
      BY <1>0 DEF RunState
    <3>2. Append(wf.queue, u) \in Seq(Updates \cup {NONE})
      BY <1>0 DEF RunState
    <3>3. /\ [wf EXCEPT !.known = TRUE, !.queue = Append(@, u)] \in RunState
          /\ [wf EXCEPT !.known = TRUE, !.queue = Append(@, u)].queue = Append(wf.queue, u)
      BY <1>0, <3>2 DEF RunState
    <3>4. CASE wf.cancelling
      BY <2>0, <2>2, <3>1, <3>4 DEF AdmitManual, HandlerRun
    <3>5. CASE ~wf.cancelling
      <4>1. upd'[u].pc = "queued"
        BY <1>0, <2>2, <3>5 DEF AdmitManual, Continue, IsUpdate
      <4> QED BY <2>0, <2>2, <3>3, <3>5, <4>1 DEF AdmitManual, HandlerRun
    <3> QED BY <3>4, <3>5
  <2>3. CASE AdmitCancel(u)
    <3>1. <<>> \in Seq(Updates \cup {NONE})
      OBVIOUS
    <3>2. /\ [wf EXCEPT !.cancelling = TRUE, !.queue = <<>>] \in RunState
          /\ [wf EXCEPT !.cancelling = TRUE, !.queue = <<>>].queue = <<>>
      BY <1>0, <3>1 DEF RunState
    <3> QED BY <1>0, <1>2, <2>0, <2>3, <3>2 DEF AdmitCancel, HandlerRun, Drains
  <2> QED BY <1>2, <2>1, <2>2, <2>3 DEF Admit
<1> QED BY <1>1, <1>2 DEF HandlerStep

\* Nor does an Activity.
LEMMA ActivityRun ==
    ASSUME WorkflowInv, NEW u \in Updates, NEW lost \in BOOLEAN, HandlerActivity(u, lost)
    PROVE  HandlerRun(u)
<1>0. wf \in RunState
  BY DEF WorkflowInv, Shape
<1>1. UNCHANGED wf /\ UNCHANGED main => HandlerRun(u)
  BY <1>0 DEF HandlerRun
<1>2. ASSUME NEW w \in RunState, w.queue = wf.queue
      PROVE  Bumped(w) \in RunState /\ Bumped(w).queue = wf.queue
  BY <1>2 DEF Bumped, RunState
<1>3. ASSUME NEW r, NEW s, Finish(u, r, s), UNCHANGED main PROVE HandlerRun(u)
  <2>1. [wf EXCEPT !.visit = NONE] \in RunState /\ [wf EXCEPT !.visit = NONE].queue = wf.queue
    BY <1>0 DEF RunState
  <2> QED BY <1>0, <1>2, <1>3, <2>1 DEF Finish, HandlerRun
<1>4. CASE OpenCase(u, lost)
  <2>1. Append(wf.queue, NONE) \in Seq(Updates \cup {NONE})
    BY <1>0 DEF RunState
  <2>2. /\ [wf EXCEPT !.known = TRUE, !.queue = Append(@, NONE)] \in RunState
        /\ [wf EXCEPT !.known = TRUE, !.queue = Append(@, NONE)].queue = Append(wf.queue, NONE)
    BY <1>0, <2>1 DEF RunState
  <2> QED BY <1>1, <1>4, <2>2 DEF OpenCase, OnlyCase, Lost, HandlerRun
<1>5. CASE AcceptActivity(u, lost)
  <2>1. CASE ~RecordAcceptance(u, lost)
    BY <1>1, <1>5, <2>1 DEF AcceptActivity, ReserveSlot, AcceptAttempt, ReleaseSlot, ConfirmSlot,
          Apt!ReserveOutcome, OnlyAppointment, OnlyAssignment, Lost, Then, Reject
  <2>2. CASE RecordAcceptance(u, lost)
    <3>1. u \in ClaimIds
      BY <2>2 DEF RecordAcceptance, At, ClaimIds
    <3>2. /\ [wf EXCEPT !.accepted = TRUE, !.attempt = NONE, !.visit = u] \in RunState
          /\ [wf EXCEPT !.accepted = TRUE, !.attempt = NONE, !.visit = u].queue = wf.queue
      BY <1>0, <3>1 DEF RunState
    <3> QED BY <1>0, <1>1, <1>2, <2>2, <3>2 DEF RecordAcceptance, OnlyCase, Then, HandlerRun
  <2> QED BY <2>1, <2>2
<1>6. CASE StartActivity(u, lost)
  BY <1>1, <1>3, <1>6 DEF StartActivity, StartVisit, StartAssignment, StartCase, FlagStart,
     OnlyAppointment, OnlyAssignment, OnlyCase, Lost, Then
<1>7. CASE VisitActivity(u, lost)
  <2>1. CASE ~RecordReplacement(u, lost)
    BY <1>1, <1>3, <1>7, <2>1 DEF VisitActivity, FailVisit, ParkCase, ReplaceVisit,
       OnlyAppointment, OnlyCase, Lost, Then
  <2>2. CASE RecordReplacement(u, lost)
    <3>1. u \in ClaimIds
      BY <2>2 DEF RecordReplacement, At, ClaimIds
    <3>2. [wf EXCEPT !.visit = u] \in RunState /\ [wf EXCEPT !.visit = u].queue = wf.queue
      BY <1>0, <3>1 DEF RunState
    <3> QED BY <1>0, <1>1, <1>2, <1>3, <2>2, <3>2 DEF RecordReplacement, OnlyCase, Lost, HandlerRun
  <2> QED BY <2>1, <2>2
<1>8. CASE CancelActivity(u, lost)
  <2>1. CancellationRejected(u) /\ UNCHANGED main => HandlerRun(u)
    BY <1>0 DEF CancellationRejected, HandlerRun, RunState
  <2>2. /\ [wf EXCEPT !.attempt = NONE, !.visit = NONE, !.active = TRUE,
                      !.retryAt = NONE, !.closing = TRUE] \in RunState
        /\ [wf EXCEPT !.attempt = NONE, !.visit = NONE, !.active = TRUE,
                      !.retryAt = NONE, !.closing = TRUE].queue = wf.queue
    BY <1>0 DEF RunState
  <2> QED BY <1>0, <1>1, <1>2, <1>8, <2>1, <2>2 DEF CancelActivity, CancelVisit, CancelAssignment,
          CancelCase, OnlyAppointment, OnlyAssignment, OnlyCase, Lost, Then, HandlerRun
<1>9. CASE CompleteActivity(u, lost)
  BY <1>0, <1>1, <1>9 DEF CompleteActivity, CompleteVisit, CompleteAssignment, CompleteCase,
     FlagCompletion, OnlyAppointment, OnlyAssignment, OnlyCase, Lost, Then, Reject, HandlerRun, RunState
<1> QED BY <1>4, <1>5, <1>6, <1>7, <1>8, <1>9 DEF HandlerActivity

\* A handler keeps the queue in shape.
LEMMA HandlerQueue ==
    ASSUME WorkflowInv, NEW u \in Updates, UpdatesMove, HandlerRun(u),
           Drains(u) \/ (HandlerMoves(u) /\ upd[u].pc # "queued")
    PROVE  QueueShape'
<1>0. /\ QueueShape /\ UpdateShape /\ wf.queue \in Seq(Updates \cup {NONE})
      /\ UNCHANGED main /\ Waits(main.req)
  BY DEF WorkflowInv, Shape, RunState, HandlerRun, QueueShape
<1>1. CASE ~Drains(u)
  <2>1. \A v \in Updates : upd[v].pc = "queued" => upd'[v] = upd[v]
    BY <1>0, <1>1, HandlerMovesItsOwn
  <2>2. CASE wf'.queue = wf.queue \/ wf'.queue = Append(wf.queue, NONE)
    BY <1>0, <2>1, <2>2, QueueKept DEF Answers
  <2>3. CASE wf'.queue = Append(wf.queue, u) /\ upd[u].pc = "sent" /\ upd'[u].pc = "queued"
    <3>1. Waits(main.req)' /\ u # main.req /\ u # NONE
      BY <1>0, <2>1, <2>3, NoneIsNull DEF Waits
    <3>2. Len(wf'.queue) = Len(wf.queue) + 1 /\ wf'.queue[Len(wf.queue) + 1] = u
      BY <1>0, <2>3
    <3>3. ASSUME NEW i \in 1 .. Len(wf.queue)
          PROVE  /\ wf'.queue[i] = wf.queue[i] /\ wf'.queue[i] # u
                 /\ Waits(wf.queue[i])'
      <4>1. wf'.queue[i] = wf.queue[i] /\ Waits(wf.queue[i])
        BY <1>0, <2>3 DEF QueueShape
      <4> QED BY <2>1, <2>3, <3>1, <4>1 DEF Waits
    <3>4. ASSUME NEW i \in 1 .. Len(wf'.queue), wf'.queue[i] # NONE
          PROVE  /\ wf'.queue[i] # main'.req
                 /\ \A j \in 1 .. Len(wf'.queue) : wf'.queue[j] = wf'.queue[i] => i = j
      <4>1. CASE i \in 1 .. Len(wf.queue)
        <5>1. ASSUME NEW j \in 1 .. Len(wf'.queue), wf'.queue[j] = wf'.queue[i] PROVE i = j
          <6>1. j \in 1 .. Len(wf.queue)
            BY <1>0, <3>2, <3>3, <4>1, <5>1
          <6> QED BY <1>0, <3>3, <3>4, <4>1, <5>1, <6>1 DEF QueueShape
        <5> QED BY <1>0, <3>3, <3>4, <4>1, <5>1 DEF QueueShape
      <4>2. CASE i = Len(wf.queue) + 1
        BY <1>0, <3>1, <3>2, <3>3, <4>2
      <4> QED BY <1>0, <3>2, <4>1, <4>2
    <3>5. ASSUME NEW i \in 1 .. Len(wf'.queue) PROVE Waits(wf.queue[i])'
      <4>1. CASE i \in 1 .. Len(wf.queue)
        BY <3>3, <4>1
      <4>2. CASE i = Len(wf.queue) + 1
        BY <2>3, <3>2, <4>2 DEF Waits
      <4> QED BY <1>0, <3>2, <4>1, <4>2
    <3> QED BY <3>1, <3>4, <3>5 DEF QueueShape
  <2> QED BY <1>1, <2>2, <2>3 DEF HandlerRun
<1>2. CASE Drains(u)
  <2>1. wf'.queue = <<>>
    BY <1>2 DEF Drains, Admit, AdmitCancel, HandlerRun, WorkflowInv, Shape, RunState
  <2>2. ASSUME main.req # NONE PROVE main.req \in Updates /\ upd'[main.req] = upd[main.req]
    <3>1. /\ main.req \in Updates /\ upd[main.req].pc = "queued" /\ upd[u].pc = "sent"
          /\ ~\E i \in DOMAIN wf.queue : wf.queue[i] = main.req
      BY <1>0, <1>2, <2>2 DEF QueueShape, Waits, Drains, Admit
    <3> QED BY <1>2, <3>1 DEF Drains, AdmitCancel
  <2>3. Waits(main.req)'
    BY <1>0, <2>2 DEF Waits
  <2> QED BY <2>1, <2>3 DEF QueueShape
<1> QED BY <1>1, <1>2

\* The delays and bounds are numbers.
LEMMA BoundsAreNumbers ==
    /\ AcceptanceSla \in Nat /\ RetryDelay \in Nat /\ MaxRounds \in Nat
    /\ MaxTime \in Nat /\ MaxEpoch \in Nat /\ OthersUntil \in Nat
  BY WorkflowAssumption

\* What the main loop keeps of its own state.
LoopKeeps == wf' \in RunState /\ LoopShape' /\ QueueShape'

\* An allocation that ends.
LEMMA AllocationEnds ==
    ASSUME WorkflowInv, UpdatesMove, NEW w \in RunState, w.queue = wf.queue, NEW r,
           AllocationOver(w, r)
    PROVE  LoopKeeps
<1>1. /\ main' = AtTop /\ wf' = w /\ upd = [v \in Updates |-> upd[v]]
      /\ \A v \in Updates : v # main.req => upd'[v] = upd[v]
  BY DEF AllocationOver, Restarted, Automatic, Answer, WorkflowInv, Shape, UpdateShape
<1>2. LoopShape' /\ main'.req = NONE
  BY <1>1 DEF LoopShape, IsLoop, LoopPcs, AtTop
<1>3. QueueShape'
  BY <1>1, <1>2, QueueKept DEF Answers
<1> QED BY <1>1, <1>2, <1>3 DEF LoopKeeps

\* The loop goes on with what it works on, and asks for an allocation at most.
LEMMA LoopGoesOn ==
    ASSUME WorkflowInv, UNCHANGED upd, wf' \in RunState,
           wf'.queue = wf.queue \/ wf'.queue = Append(wf.queue, NONE),
           LoopShape', main'.req \in {main.req, NONE}
    PROVE  LoopKeeps
<1>1. UpdatesMove
  BY DEF UpdatesMove, WorkflowInv, Shape, UpdateShape
<1> QED BY <1>1, QueueKept DEF Answers, LoopKeeps

\* The waits, the deadlines and the queue.
LEMMA LoopStepKeeps ==
    ASSUME WorkflowInv, LoopStep
    PROVE  LoopKeeps
<1>0. wf \in RunState /\ LoopShape /\ IsLoop(main) /\ IsLoop(AtTop) /\ UpdatesMove
  BY LoopMovesUpdate DEF WorkflowInv, Shape, LoopShape, IsLoop, AtTop
<1>1. CASE Top
  <2>1. main'.req = NONE /\ LoopShape'
    BY <1>1 DEF Top, LoopShape, IsLoop, LoopPcs, AtTop
  <2>2. wf' \in RunState /\ wf'.queue = wf.queue
    BY <1>0, <1>1 DEF Top, RunState
  <2> QED BY <1>1, <2>1, <2>2, LoopGoesOn DEF Top
<1>2. CASE Close \/ Wake \/ GateAccept \/ GateVisit
  <2>1. main'.req = main.req /\ LoopShape' /\ UNCHANGED <<wf, upd>>
    BY <1>0, <1>2 DEF Close, Wake, GateAccept, GateVisit, Goto, LoopShape, IsLoop, LoopPcs
  <2> QED BY <1>0, <2>1, LoopGoesOn
<1>3. CASE CancellationSettled
  <2>1. main'.req = NONE /\ LoopShape' /\ UNCHANGED <<wf, upd>>
    BY <1>0, <1>3 DEF CancellationSettled, Restarted, LoopShape, IsLoop, LoopPcs, AtTop
  <2> QED BY <1>0, <2>1, LoopGoesOn
<1>4. CASE Due
  <2>1. (\E end \in VisitEnd : now >= end) => wf.visit \in ClaimIds
    BY <1>0 DEF VisitEnd, RunState
  <2>2. main'.req \in {main.req, NONE} /\ LoopShape' /\ UNCHANGED <<wf, upd>>
    BY <1>0, <1>4, <2>1 DEF Due, LoopShape, IsLoop, LoopPcs, AtTop
  <2> QED BY <1>0, <2>2, LoopGoesOn
<1>5. CASE BreachCheck
  <2>1. main'.req = main.req /\ LoopShape'
    BY <1>0, <1>5 DEF BreachCheck, LoopShape, IsLoop, LoopPcs, RunState
  <2>2. Append(wf.queue, NONE) \in Seq(Updates \cup {NONE})
    BY <1>0 DEF RunState
  <2>3. /\ [wf EXCEPT !.queue = Append(@, NONE)] \in RunState
        /\ [wf EXCEPT !.queue = Append(@, NONE)].queue = Append(wf.queue, NONE)
    BY <1>0, <2>2 DEF RunState
  <2>4. wf' = wf \/ wf' = [wf EXCEPT !.queue = Append(@, NONE)]
    BY <1>5 DEF BreachCheck
  <2> QED BY <1>0, <1>5, <2>1, <2>3, <2>4, LoopGoesOn DEF BreachCheck
<1>6. CASE Shift
  <2>1. CASE wf.queue = <<>>
    <3>1. main'.req = NONE /\ LoopShape' /\ UNCHANGED <<wf, upd>>
      BY <1>0, <1>6, <2>1 DEF Shift, Restarted, LoopShape, IsLoop, LoopPcs, AtTop
    <3> QED BY <1>0, <3>1, LoopGoesOn
  <2>2. CASE wf.queue # <<>>
    <3> DEFINE req == wf.queue[1]
    <3>0. /\ QueueShape /\ wf.queue \in Seq(Updates \cup {NONE}) /\ Head(wf.queue) = req
          /\ 1 \in 1 .. Len(wf.queue)
      BY <1>0, <2>2 DEF RunState, WorkflowInv, Shape
    <3>1. /\ Tail(wf.queue) \in Seq(Updates \cup {NONE})
          /\ Len(Tail(wf.queue)) = Len(wf.queue) - 1
          /\ \A i \in 1 .. Len(Tail(wf.queue)) : Tail(wf.queue)[i] = wf.queue[i + 1]
      BY <2>2, <3>0
    <3>2. wf' \in RunState /\ wf'.queue = Tail(wf.queue)
      BY <1>0, <1>6, <2>2, <3>1 DEF Shift, RunState
    <3>3. /\ main' = AtTop \/ main' = [AtTop EXCEPT !.pc = "terminal", !.req = req]
          /\ UNCHANGED upd \/ (main' = AtTop /\ Answer(req, "CASE_TERMINAL"))
      BY <1>6, <2>2, <3>0 DEF Shift, Restarted
    <3>a. LoopShape' /\ main'.req \in {req, NONE} /\ (main' = AtTop => main'.req = NONE)
      <4>1. CASE main' = AtTop
        BY <4>1 DEF LoopShape, IsLoop, LoopPcs, AtTop
      <4>2. CASE main' = [AtTop EXCEPT !.pc = "terminal", !.req = req]
        BY <4>2 DEF LoopShape, IsLoop, LoopPcs, AtTop
      <4> QED BY <3>3, <4>1, <4>2
    <3>4. \A v \in Updates : v # req => upd'[v] = upd[v]
      BY <3>3 DEF Answer, WorkflowInv, Shape, UpdateShape
    <3>5. Waits(main.req)'
      BY <3>0, <3>3, <3>a DEF QueueShape, Waits
    <3>6. ASSUME NEW i \in 1 .. Len(wf'.queue)
          PROVE  /\ i + 1 \in 1 .. Len(wf.queue) /\ wf'.queue[i] = wf.queue[i + 1]
                 /\ wf'.queue[i] # NONE => wf'.queue[i] # req
      BY <3>0, <3>1, <3>2 DEF QueueShape
    <3>7. ASSUME NEW i \in 1 .. Len(wf'.queue) PROVE Waits(wf.queue[i])'
      BY <3>0, <3>4, <3>6 DEF QueueShape, Waits
    <3>8. ASSUME NEW i \in 1 .. Len(wf'.queue), wf'.queue[i] # NONE
          PROVE  /\ wf'.queue[i] # main'.req
                 /\ \A j \in 1 .. Len(wf'.queue) : wf'.queue[j] = wf'.queue[i] => i = j
      <4>1. ASSUME NEW j \in 1 .. Len(wf'.queue), wf'.queue[j] = wf'.queue[i] PROVE i = j
        <5>1. i + 1 = j + 1
          BY <3>0, <3>6, <3>8, <4>1 DEF QueueShape
        <5> QED BY <5>1
      <4> QED BY <3>a, <3>6, <3>8, <4>1
    <3> QED BY <3>2, <3>a, <3>5, <3>7, <3>8 DEF LoopKeeps, QueueShape
  <2> QED BY <2>1, <2>2
<1>7. Settled \in RunState /\ Settled.queue = wf.queue
  BY <1>0 DEF Settled, RunState
<1>8. CASE CheckTerminal
  <2>1. CASE AllocationOver(Settled, "CASE_TERMINAL")
    BY <1>0, <1>7, <2>1, AllocationEnds
  <2>2. CASE Goto("snapshot") /\ UNCHANGED <<wf, upd>>
    <3>1. main'.req = main.req /\ LoopShape'
      BY <1>0, <2>2 DEF Goto, LoopShape, IsLoop, LoopPcs
    <3> QED BY <1>0, <2>2, <3>1, LoopGoesOn
  <2> QED BY <1>8, <2>1, <2>2 DEF CheckTerminal
<1>9. CASE FetchSnapshot
  <2>1. CASE AllocationOver(wf, "CONTRACTOR_NOT_ELIGIBLE")
    BY <1>0, <2>1, AllocationEnds
  <2>2. CASE ~AllocationOver(wf, "CONTRACTOR_NOT_ELIGIBLE")
    <3>1. epoch \in 0 .. MaxEpoch /\ epoch \in Nat
      <4>1. epoch \in Nat /\ MaxEpoch \in Nat
        BY AssignmentFacts, BoundsAreNumbers DEF WorkflowInv, Asg!AssignmentTypeOK
      <4>2. epoch <= MaxEpoch
        BY <1>9 DEF FetchSnapshot
      <4> QED BY <4>1, <4>2
    <3>2. ~Automatic => upd[main.req].k \in Contractors
      BY RequestWaits DEF Automatic
    <3>3. /\ UNCHANGED <<wf, upd>>
          /\ \/ \E k \in Contractors :
                   main' = [main EXCEPT !.pc = "commit", !.k = k, !.epoch = epoch]
             \/ main' = [main EXCEPT !.pc = "flag", !.kind = "NO_ELIGIBLE_CONTRACTOR"]
      BY <1>9, <2>2, <3>2 DEF FetchSnapshot
    <3>4. main'.req = main.req /\ LoopShape'
      <4>1. ASSUME NEW k \in Contractors,
                   main' = [main EXCEPT !.pc = "commit", !.k = k, !.epoch = epoch]
            PROVE  main'.req = main.req /\ LoopShape'
        <5>1. /\ IsLoop(main') /\ main'.pc = "commit" /\ main'.k = k /\ main'.epoch = epoch
              /\ main'.req = main.req
          BY <1>0, <4>1 DEF IsLoop
        <5> QED BY <3>1, <5>1 DEF LoopShape, LoopPcs
      <4>2. CASE main' = [main EXCEPT !.pc = "flag", !.kind = "NO_ELIGIBLE_CONTRACTOR"]
        BY <1>0, <4>2 DEF LoopShape, IsLoop, LoopPcs, Cas!AllocationAttentionKinds
      <4> QED BY <3>3, <4>1, <4>2
    <3> QED BY <1>0, <3>3, <3>4, LoopGoesOn
  <2> QED BY <2>1, <2>2
<1> QED BY <1>1, <1>2, <1>3, <1>4, <1>5, <1>6, <1>8, <1>9 DEF LoopStep

\* What the loop does with the reply to a commit.
LEMMA CommitReplied ==
    ASSUME WorkflowInv, UpdatesMove, main.pc = "commit",
           NEW out \in {"COMMITTED", "ALREADY_COMMITTED", "STALE_EPOCH",
                        "ACTIVE_ATTEMPT_EXISTS", "OVERRIDE_REASON_REQUIRED",
                        "REPLACEMENT_ATTEMPT_NOT_PENDING"},
           out = "ACTIVE_ATTEMPT_EXISTS" => Asg!Pending(TheCase) # {},
           OnCommitReply(out)
    PROVE  LoopKeeps
<1>0. /\ wf \in RunState /\ LoopShape /\ IsLoop(main)
      /\ main.k \in Contractors /\ main.epoch \in 0 .. MaxEpoch
  BY DEF WorkflowInv, Shape, LoopShape
<1>1. Settled \in RunState /\ Settled.queue = wf.queue
  BY <1>0 DEF Settled, RunState
<1>2. CASE out \in {"COMMITTED", "ALREADY_COMMITTED"}
  <2>1. Goto("assign") /\ wf' = [wf EXCEPT !.attempted = @ \cup {main.k}] /\ UNCHANGED upd
    BY <1>2 DEF OnCommitReply
  <2>2. wf' \in RunState /\ wf'.queue = wf.queue
    BY <1>0, <2>1 DEF RunState
  <2>3. LoopShape' /\ main'.req = main.req
    BY <1>0, <2>1 DEF Goto, LoopShape, IsLoop, LoopPcs
  <2> QED BY <2>1, <2>2, <2>3, LoopGoesOn
<1>3. CASE out = "ACTIVE_ATTEMPT_EXISTS"
  <2>1. PICK w : AllocationOver(w, out)
                 /\ w = IF Automatic THEN Allocated(CHOOSE a \in Asg!Pending(TheCase) : TRUE)
                        ELSE Settled
    BY <1>3 DEF OnCommitReply
  <2>2. (CHOOSE a \in Asg!Pending(TheCase) : TRUE) \in AttemptIds
    BY <1>3 DEF Asg!Pending, Asg!AttemptsOf
  <2>3. ASSUME NEW a \in AttemptIds PROVE Allocated(a) \in RunState /\ Allocated(a).queue = wf.queue
    BY <1>0 DEF Allocated, Settled, RunState
  <2>4. w \in RunState /\ w.queue = wf.queue
    BY <1>1, <2>1, <2>2, <2>3
  <2> QED BY <2>1, <2>4, AllocationEnds
<1>4. CASE out = "STALE_EPOCH"
  <2>1. /\ UNCHANGED <<wf, upd>>
        /\ \/ main' = [main EXCEPT !.pc = "snapshot", !.round = @ + 1]
           \/ main' = [main EXCEPT !.pc = "flag", !.kind = "ALLOCATION_FAILED"]
    BY <1>4 DEF OnCommitReply
  <2>2. LoopShape' /\ main'.req = main.req
    <3>1. CASE main' = [main EXCEPT !.pc = "snapshot", !.round = @ + 1]
      BY <1>0, <3>1 DEF LoopShape, IsLoop, LoopPcs
    <3>2. CASE main' = [main EXCEPT !.pc = "flag", !.kind = "ALLOCATION_FAILED"]
      BY <1>0, <3>2 DEF LoopShape, IsLoop, LoopPcs, Cas!AllocationAttentionKinds
    <3> QED BY <2>1, <3>1, <3>2
  <2> QED BY <1>0, <2>1, <2>2, LoopGoesOn
<1>5. CASE out \in {"OVERRIDE_REASON_REQUIRED", "REPLACEMENT_ATTEMPT_NOT_PENDING"}
  <2>1. AllocationOver(wf, out)
    BY <1>5 DEF OnCommitReply
  <2> QED BY <1>0, <2>1, AllocationEnds
<1> QED BY <1>2, <1>3, <1>4, <1>5

\* The commit that is open is one of the Case.
LEMMA CommitOfCase ==
    ASSUME WorkflowInv, commit # Asg!NoCommit
    PROVE  /\ commit.case = TheCase /\ commit.op \in AttemptIds /\ commit.contractor \in Contractors
           /\ main.pc = "commit"
<1>1. Asg!AssignmentTypeOK
  BY AssignmentFacts DEF WorkflowInv
<1> QED BY <1>1 DEF Asg!AssignmentTypeOK, Asg!CommitTx, Cases, WorkflowInv, CommitIsAwaited

\* The Activities of the main loop.
LEMMA LoopActivityKeeps ==
    ASSUME WorkflowInv, NEW lost \in BOOLEAN, LoopActivity(lost)
    PROVE  LoopKeeps
<1>0. wf \in RunState /\ LoopShape /\ IsLoop(main) /\ UpdatesMove
  BY LoopMovesUpdate DEF WorkflowInv, Shape, LoopShape
<1>1. UNCHANGED <<main, wf, upd>> => LoopKeeps
  BY <1>0, LoopGoesOn DEF LoopShape
<1>2. ASSUME main.pc \in {"missVisit", "missFlag"}, ExpiryOver, UNCHANGED upd PROVE LoopKeeps
  <2>1. wf' \in RunState /\ wf'.queue = wf.queue
    BY <1>0, <1>2 DEF ExpiryOver, RunState
  <2>2. LoopShape' /\ main'.req = main.req
    BY <1>0, <1>2 DEF ExpiryOver, LoopShape, IsLoop, LoopPcs
  <2> QED BY <1>2, <2>1, <2>2, LoopGoesOn
<1>3. CASE MissVisit(lost)
  <2>1. main.pc = "missVisit" /\ UNCHANGED upd
        /\ \/ UNCHANGED <<main, wf>> \/ ExpiryOver
           \/ Goto("missFlag") /\ UNCHANGED wf
    BY <1>3 DEF MissVisit
  <2>2. Goto("missFlag") => LoopShape' /\ main'.req = main.req
    BY <1>0, <2>1 DEF Goto, LoopShape, IsLoop, LoopPcs
  <2> QED BY <1>0, <1>1, <1>2, <2>1, <2>2, LoopGoesOn
<1>4. CASE MissFlag(lost)
  BY <1>1, <1>2, <1>4 DEF MissFlag
<1>5. [wf EXCEPT !.attempt = NONE] \in RunState /\ [wf EXCEPT !.attempt = NONE].queue = wf.queue
  BY <1>0 DEF RunState
<1>6. Goto("shift") => LoopShape' /\ main'.req = main.req
  BY <1>0 DEF Goto, LoopShape, IsLoop, LoopPcs
<1>7. CASE Breach(lost)
  <2>1. main.pc = "breach" /\ UNCHANGED upd
        /\ \/ UNCHANGED <<main, wf>>
           \/ Goto("breachCase") /\ UNCHANGED wf
           \/ Goto("shift") /\ wf' = [wf EXCEPT !.attempt = NONE]
    <3>1. main.target \in AttemptIds /\ attempt[main.target] \in Asg!AttemptRow
      BY <1>7, OfferIsRow DEF Breach, Asg!BreachAllocationAttempt, WorkflowInv, Shape, LoopShape
    <3>2. Asg!BreachOutcome(main.target) \in {"BREACHED", "ALREADY_BREACHED", "ACCEPTED", "WITHDRAWN"}
      BY <3>1 DEF Asg!BreachOutcome, Asg!AttemptRow, Asg!AttemptStatus
    <3> QED BY <1>7, <3>2 DEF Breach
  <2>2. Goto("breachCase") => LoopShape' /\ main'.req = main.req
    BY <1>0, <2>1 DEF Goto, LoopShape, IsLoop, LoopPcs
  <2> QED BY <1>0, <1>1, <1>5, <1>6, <2>1, <2>2, LoopGoesOn
<1>8. CASE BreachCase(lost)
  <2>1. Append(wf.queue, NONE) \in Seq(Updates \cup {NONE})
    BY <1>0 DEF RunState
  <2>2. ASSUME NEW b \in BOOLEAN
        PROVE  /\ [wf EXCEPT !.attempt = NONE, !.active = b, !.retryAt = NONE,
                             !.queue = Append(@, NONE)] \in RunState
               /\ [wf EXCEPT !.attempt = NONE, !.active = b, !.retryAt = NONE,
                             !.queue = Append(@, NONE)].queue = Append(wf.queue, NONE)
               /\ [wf EXCEPT !.attempt = NONE, !.active = b, !.retryAt = NONE,
                             !.queue = @] \in RunState
               /\ [wf EXCEPT !.attempt = NONE, !.active = b, !.retryAt = NONE,
                             !.queue = @].queue = wf.queue
    BY <1>0, <2>1 DEF RunState
  <2>3. UNCHANGED upd
        /\ \/ UNCHANGED <<main, wf>>
           \/ /\ Goto("shift")
              /\ \E b \in BOOLEAN :
                    \/ wf' = [wf EXCEPT !.attempt = NONE, !.active = b, !.retryAt = NONE,
                                        !.queue = Append(@, NONE)]
                    \/ wf' = [wf EXCEPT !.attempt = NONE, !.active = b, !.retryAt = NONE,
                                        !.queue = @]
    BY <1>8 DEF BreachCase
  <2> QED BY <1>1, <1>6, <2>2, <2>3, LoopGoesOn
<1>9. CASE CommitRequest(lost)
  <2>1. /\ main.pc = "commit"
        /\ \/ UNCHANGED <<main, wf, upd>>
           \/ \E out \in {"ALREADY_COMMITTED", "STALE_EPOCH", "OVERRIDE_REASON_REQUIRED",
                          "REPLACEMENT_ATTEMPT_NOT_PENDING"} : OnCommitReply(out)
    BY <1>9, CommitReplies DEF CommitRequest
  <2> QED BY <1>0, <1>1, <2>1, CommitReplied
<1>10. CASE CommitRead(lost)
  <2>1. commit # Asg!NoCommit
    BY <1>10 DEF CommitRead, Asg!CommitReadAssignment, Asg!CommitReadPending, Asg!NoCommit
  <2>2. \/ UNCHANGED <<main, wf, upd>>
        \/ \E out \in {"ACTIVE_ATTEMPT_EXISTS", "REPLACEMENT_ATTEMPT_NOT_PENDING"} :
              out = Asg!CommitPendingOutcome /\ OnCommitReply(out)
    BY <1>10, CommitReplies DEF CommitRead
  <2>3. Asg!CommitPendingOutcome = "ACTIVE_ATTEMPT_EXISTS" => Asg!Pending(TheCase) # {}
    BY <2>1, CommitOfCase DEF Asg!CommitPendingOutcome
  <2> QED BY <1>0, <1>1, <2>1, <2>2, <2>3, CommitOfCase, CommitReplied
<1>11. CASE CommitWrites(lost)
  <2>1. commit # Asg!NoCommit
    BY <1>11 DEF CommitWrites, Asg!CommitWrite, Asg!NoCommit
  <2> QED BY <1>0, <1>1, <1>11, <2>1, CommitOfCase, CommitReplied DEF CommitWrites
<1>12. CASE MarkAssigned(lost)
  <2>1. AllocationOp \in AttemptIds
    BY <1>12, AllocationNamesAttempt DEF MarkAssigned
  <2>2. /\ Allocated(AllocationOp) \in RunState /\ Allocated(AllocationOp).queue = wf.queue
        /\ Settled \in RunState /\ Settled.queue = wf.queue
    BY <1>0, <2>1 DEF Allocated, Settled, RunState
  <2>3. \/ UNCHANGED <<main, wf, upd>>
        \/ \E r : AllocationOver(Allocated(AllocationOp), r) \/ AllocationOver(Settled, r)
    BY <1>12 DEF MarkAssigned
  <2> QED BY <1>0, <1>1, <2>2, <2>3, AllocationEnds
<1>13. CASE FlagAllocation(lost)
  <2>1. now + RetryDelay \in Nat
    BY BoundsAreNumbers DEF WorkflowInv
  <2>2. PICK t : /\ t = IF Automatic \/ wf.retryAt = NONE THEN now + RetryDelay ELSE wf.retryAt
                 /\ \/ UNCHANGED <<main, wf, upd>>
                    \/ AllocationOver([wf EXCEPT !.retryAt = t], "ALLOCATION_FAILED")
    BY <1>13 DEF FlagAllocation
  <2>3. t \in Nat \cup {NONE}
    BY <1>0, <2>1, <2>2 DEF RunState
  <2>4. [wf EXCEPT !.retryAt = t] \in RunState /\ [wf EXCEPT !.retryAt = t].queue = wf.queue
    BY <1>0, <2>3 DEF RunState
  <2> QED BY <1>0, <1>1, <2>2, <2>4, AllocationEnds
<1> QED BY <1>3, <1>4, <1>7, <1>8, <1>9, <1>10, <1>11, <1>12, <1>13 DEF LoopActivity

\* The state of the Workflow keeps its shape.
LEMMA ShapeStep == ASSUME WorkflowInv, [Next]_vars PROVE Shape'
<1>0. /\ UpdatesMove /\ UpdateShape' /\ wf \in RunState /\ LoopShape /\ QueueShape
  BY EveryStepMoves DEF UpdatesMove, WorkflowInv, Shape
<1>1. CASE LoopStep \/ \E lost \in LostReplies : LoopActivity(lost)
  BY <1>0, <1>1, LoopStepKeeps, LoopActivityKeeps, WorkflowAssumption DEF LoopKeeps, Shape
<1>2. ASSUME NEW u \in Updates,
             HandlerStep(u) \/ \E lost \in LostReplies : HandlerActivity(u, lost)
      PROVE  Shape'
  <2>1. /\ HandlerRun(u) /\ upd[u].pc # "queued"
        /\ HandlerMoves(u) \/ Drains(u)
    BY <1>2, HandlerStepRun, ActivityRun, HandlerStepMoves, ActivityMoves, WorkflowAssumption
  <2>2. QueueShape'
    BY <1>0, <2>1, HandlerQueue
  <2> QED BY <1>0, <2>1, <2>2 DEF Shape, HandlerRun, LoopShape
<1>3. ASSUME NEW u \in Updates, Send(u) PROVE Shape'
  <2>1. UNCHANGED <<wf, main>> /\ upd[u].pc = "new" /\ upd'[u].pc # "done"
        /\ \A v \in Updates \ {u} : upd'[v] = upd[v]
    <3>1. upd[u].pc = "new" /\ UNCHANGED <<wf, main>>
          /\ \E req : upd' = [upd EXCEPT ![u] = req]
      BY <1>3 DEF Send
    <3> QED BY <1>0, <3>1 DEF UpdatesMove, Sends, Proceeds, Answers, WorkflowInv, Shape, UpdateShape
  <2>2. QueueShape'
    BY <1>0, <2>1, QueueKept DEF Answers
  <2> QED BY <1>0, <2>1, <2>2 DEF Shape, LoopShape
<1>4. CASE StartRun
  <2>1. <<>> \in Seq(Updates \cup {NONE})
    OBVIOUS
  <2>2. wf' \in RunState /\ wf'.queue = <<>>
    BY <1>4, <2>1 DEF StartRun, FreshRun, RunState
  <2>3. LoopShape' /\ main'.req = NONE
    BY <1>4 DEF StartRun, Restarted, AtTop, LoopShape, IsLoop, LoopPcs
  <2> QED BY <1>0, <2>2, <2>3 DEF Shape, QueueShape, Waits
<1>5. CASE CommitFails \/ Tick \/ OtherCaseAllocates \/ UNCHANGED vars
  <2>1. UNCHANGED <<wf, main, upd>>
    BY <1>5 DEF CommitFails, Tick, OtherCaseAllocates, vars, workflowVars
  <2> QED BY <1>0, <2>1 DEF Shape, LoopShape, QueueShape, Waits
<1> QED BY <1>1, <1>2, <1>3, <1>4, <1>5 DEF Next

\* A commit is open only while the loop waits for its reply.
LEMMA AwaitedStep == ASSUME WorkflowInv, [Next]_vars PROVE CommitIsAwaited'
<1>0. CommitIsAwaited
  BY DEF WorkflowInv
<1>1. UNCHANGED <<main, commit>> => CommitIsAwaited'
  BY <1>0 DEF CommitIsAwaited, Asg!NoCommit
<1>2. main.pc # "commit" /\ UNCHANGED commit => CommitIsAwaited'
  BY <1>0 DEF CommitIsAwaited, Asg!NoCommit
<1>3. commit' = Asg!NoCommit => CommitIsAwaited'
  BY DEF CommitIsAwaited, Asg!NoCommit
<1>4. CASE LoopStep
  <2>1. UNCHANGED commit
    BY <1>4, WorkflowFrame DEF WorkflowStep, atomVars, assignmentVars
  <2>2. main.pc # "commit"
    BY <1>4 DEF LoopStep, Top, Close, CancellationSettled, Wake, GateAccept, GateVisit, Due,
       BreachCheck, Shift, CheckTerminal, FetchSnapshot
  <2> QED BY <1>2, <2>1, <2>2
<1>5. ASSUME NEW lost \in LostReplies, LoopActivity(lost) PROVE CommitIsAwaited'
  <2>1. CASE \/ MissVisit(lost) \/ MissFlag(lost) \/ Breach(lost) \/ BreachCase(lost)
             \/ MarkAssigned(lost) \/ FlagAllocation(lost)
    BY <1>2, <2>1 DEF MissVisit, MissFlag, Breach, BreachCase, MarkAssigned, FlagAllocation,
       Asg!BreachAllocationAttempt, assignmentVars
  <2>2. CASE CommitRequest(lost)
    <3>1. /\ main.pc = "commit"
          /\ \/ commit' = Asg!NoCommit \/ UNCHANGED main
      BY <2>2 DEF CommitRequest, Asg!CommitBegin
    <3> QED BY <1>3, <3>1 DEF CommitIsAwaited
  <2>3. CASE CommitRead(lost)
    <3>1. commit # Asg!NoCommit
      BY <2>3 DEF CommitRead, Asg!CommitReadAssignment, Asg!CommitReadPending, Asg!NoCommit
    <3>2. \/ commit' = Asg!NoCommit \/ UNCHANGED main
      BY <2>3 DEF CommitRead, Asg!CommitReadPending
    <3> QED BY <1>0, <1>3, <3>1, <3>2 DEF CommitIsAwaited
  <2>4. CASE CommitWrites(lost)
    BY <1>3, <2>4 DEF CommitWrites, Asg!CommitWrite
  <2> QED BY <1>5, <2>1, <2>2, <2>3, <2>4 DEF LoopActivity
<1>6. ASSUME NEW u \in Updates, HandlerStep(u) PROVE CommitIsAwaited'
  BY <1>1, <1>6, HandlerStepRun, WorkflowFrame DEF HandlerRun, WorkflowStep, atomVars, assignmentVars
<1>7. ASSUME NEW u \in Updates, NEW lost \in LostReplies, HandlerActivity(u, lost)
      PROVE  CommitIsAwaited'
  <2>1. UNCHANGED main
    BY <1>7, ActivityRun, WorkflowAssumption DEF HandlerRun
  <2>2. UNCHANGED commit
    <3>1. CASE AcceptActivity(u, lost) \/ OpenCase(u, lost)
      BY <3>1 DEF AcceptActivity, ReserveSlot, AcceptAttempt, ReleaseSlot, ConfirmSlot,
         RecordAcceptance, OpenCase, Asg!AcceptAllocationAttempt, OnlyAppointment, OnlyCase,
         assignmentVars
    <3>2. CASE StartActivity(u, lost) \/ VisitActivity(u, lost)
      BY <3>2 DEF StartActivity, StartVisit, StartAssignment, StartCase, FlagStart, VisitActivity,
         FailVisit, ParkCase, ReplaceVisit, RecordReplacement, Asg!MarkAssignmentInProgress,
         OnlyAppointment, OnlyCase, assignmentVars
    <3>3. CASE CancelActivity(u, lost) \/ CompleteActivity(u, lost)
      BY <3>3 DEF CancelActivity, CancelVisit, CancelAssignment, CancelCase, CompleteActivity,
         CompleteVisit, CompleteAssignment, CompleteCase, FlagCompletion,
         Asg!CancelAssignmentForCase, Asg!CompleteAssignment, OnlyAppointment, OnlyCase,
         assignmentVars
    <3> QED BY <1>7, <3>1, <3>2, <3>3 DEF HandlerActivity
  <2> QED BY <1>1, <2>1, <2>2
<1>8. CASE CommitFails
  BY <1>3, <1>8 DEF CommitFails, Asg!CommitRollback
<1>9. CASE StartRun
  BY <1>2, <1>9 DEF StartRun, atomVars, assignmentVars
<1>10. CASE Tick \/ OtherCaseAllocates \/ (\E u \in Updates : Send(u)) \/ UNCHANGED vars
  BY <1>1, <1>10 DEF Tick, OtherCaseAllocates, Send, vars, atomVars, assignmentVars, workflowVars
<1> QED BY <1>4, <1>5, <1>6, <1>7, <1>8, <1>9, <1>10 DEF Next

\* Only the writes of a commit make an Attempt: the one the commit is for.
LEMMA NewAttempt ==
    ASSUME WorkflowInv, [Next]_vars, NEW a \in AttemptIds,
           attempt[a] = Asg!NoAttempt, attempt'[a] # Asg!NoAttempt
    PROVE  a = commit.op /\ \E lost \in LostReplies : CommitWrites(lost)
<1>0. attempt = [b \in AttemptIds |-> attempt[b]]
  BY AssignmentFacts DEF WorkflowInv, Asg!AssignmentTypeOK
<1>1. AssignmentCall
  BY StepKinds, CallFrames, WorkflowFrame DEF OtherCaseAllocates, vars, atomVars, assignmentVars
<1>2. ASSUME NEW lost, CommitWrites(lost) PROVE a = commit.op
  <2>1. commit # Asg!NoCommit
    BY <1>2 DEF CommitWrites, Asg!CommitWrite, Asg!NoCommit
  <2>2. a # commit.replace
    BY <1>2, NoneIsNull, AssignmentFacts DEF CommitWrites, Asg!CommitWrite, WorkflowInv,
       AsgP!TypeInv, AsgP!ReplacedExists
  <2> QED BY <1>0, <1>2, <2>2 DEF CommitWrites, Asg!CommitWrite
<1>3. ASSUME NEW u \in Updates, NEW lost, AcceptAttempt(u, lost) PROVE FALSE
  <2>1. upd[u].target \in AttemptIds /\ attempt[upd[u].target] # Asg!NoAttempt
    BY <1>3 DEF AcceptAttempt, At, WorkflowInv, UpdateNames, Names
  <2> QED BY <1>0, <1>3, <2>1 DEF AcceptAttempt, Asg!AcceptAllocationAttempt
<1>4. ASSUME NEW u \in Updates, NEW lost, CancelAssignment(u, lost) PROVE FALSE
  BY <1>0, <1>4 DEF CancelAssignment, Asg!CancelAssignmentForCase, Asg!Pending, Asg!NoAttempt
<1>5. ASSUME NEW lost, Breach(lost) PROVE FALSE
  BY <1>0, <1>5 DEF Breach, Asg!BreachAllocationAttempt
<1>6. ASSUME NEW v, NEW lost,
             \/ CommitFails \/ CommitRequest(lost) \/ CommitRead(lost)
             \/ StartAssignment(v, lost) \/ CompleteAssignment(v, lost)
      PROVE  FALSE
  BY <1>6 DEF CommitFails, CommitRequest, CommitRead, StartAssignment, CompleteAssignment,
     Asg!CommitRollback, Asg!CommitBegin, Asg!CommitReadAssignment, Asg!CommitReadPending,
     Asg!MarkAssignmentInProgress, Asg!CompleteAssignment
<1> QED BY <1>1, <1>2, <1>3, <1>4, <1>5, <1>6 DEF AssignmentCall

\* An Attempt gets its deadline with its row.
LEMMA DeadlineStep == ASSUME WorkflowInv, [Next]_vars PROVE DeadlineShape'
<1>0. DeadlineShape /\ now + AcceptanceSla \in Nat
  BY BoundsAreNumbers DEF WorkflowInv
<1>1. ASSUME NEW lost, CommitWrites(lost)
      PROVE  commit.op \in AttemptIds
             /\ deadline' = [deadline EXCEPT ![commit.op] = now + AcceptanceSla]
  <2>1. commit # Asg!NoCommit
    BY <1>1 DEF CommitWrites, Asg!CommitWrite, Asg!NoCommit
  <2> QED BY <1>1, <2>1, CommitOfCase DEF CommitWrites
<1>2. (\A lost \in LostReplies : ~CommitWrites(lost)) => UNCHANGED deadline
  <2>1. AssignmentCall => UNCHANGED deadline \/ \E lost \in LostReplies : CommitWrites(lost)
    BY DEF AssignmentCall, CommitFails, Breach, CommitRequest, CommitRead, AcceptAttempt,
       StartAssignment, CancelAssignment, CompleteAssignment, OnlyAssignment
  <2> QED BY <2>1, StepKinds, CallFrames, WorkflowFrame DEF OtherCaseAllocates, vars, atomVars
<1>3. deadline' \in [AttemptIds -> Nat \cup {NONE}]
  BY <1>0, <1>1, <1>2 DEF DeadlineShape
<1>4. ASSUME NEW a \in AttemptIds, attempt'[a] # Asg!NoAttempt PROVE deadline'[a] \in Nat
  <2>1. CASE attempt[a] # Asg!NoAttempt
    BY <1>0, <1>1, <1>2, <2>1 DEF DeadlineShape
  <2>2. CASE attempt[a] = Asg!NoAttempt
    BY <1>0, <1>1, <1>4, <2>2, NewAttempt DEF DeadlineShape
  <2> QED BY <2>1, <2>2
<1> QED BY <1>3, <1>4 DEF DeadlineShape

\* A transition of the Case keeps the types of its record.
LEMMA TransitionTyped ==
    ASSUME Cas!CaseTypeOK, NEW op \in CaseOpIds, NEW to \in Cas!CaseStatus, NEW done, NEW out,
           NEW resolved, NEW raised \in SUBSET Cas!TerminalResolvedAttentionKinds,
           Cas!Transition(TheCase, op, done, to, resolved, raised, out)
    PROVE  Cas!CaseTypeOK'
<1>1. CASE UNCHANGED <<caseStatus, caseOps, attention>>
  BY <1>1 DEF Cas!Transition, Cas!CaseTypeOK
<1>2. CASE /\ caseOps' = caseOps \cup {op}
           /\ caseStatus' = [caseStatus EXCEPT ![TheCase] = to]
           /\ attention' = [attention EXCEPT ![TheCase] = (@ \ resolved) \cup raised]
  <2>1. attention' \in [Cases -> SUBSET Cas!TerminalResolvedAttentionKinds]
    BY <1>2 DEF Cas!CaseTypeOK
  <2> QED BY <1>2, <2>1 DEF Cas!Transition, Cas!CaseTypeOK
<1> QED BY <1>1, <1>2 DEF Cas!Transition

\* So does raising Officer Attention.
LEMMA RaiseTyped ==
    ASSUME Cas!CaseTypeOK, NEW kind \in Cas!TerminalResolvedAttentionKinds,
           Cas!RaiseOfficerAttention(TheCase, kind)
    PROVE  Cas!CaseTypeOK'
  BY DEF Cas!RaiseOfficerAttention, Cas!Raise, Cas!CaseTypeOK

\* The Case atom's record keeps its types.
LEMMA CaseStep == ASSUME WorkflowInv, [Next]_vars PROVE Cas!CaseTypeOK'
<1>0. Cas!CaseTypeOK /\ LoopShape /\ Updates \subseteq CaseOpIds /\ AttemptIds \subseteq CaseOpIds
  BY DEF WorkflowInv, Shape, CaseOpIds
<1>1. UNCHANGED caseVars => Cas!CaseTypeOK'
  BY <1>0 DEF caseVars, Cas!CaseTypeOK
<1>2. ASSUME NEW lost, MissFlag(lost) \/ FlagAllocation(lost) PROVE Cas!CaseTypeOK'
  BY <1>0, <1>2, RaiseTyped DEF MissFlag, FlagAllocation, Cas!TerminalResolvedAttentionKinds, LoopShape
<1>3. ASSUME NEW lost, BreachCase(lost) PROVE Cas!CaseTypeOK'
  <2>1. <<"breach", main.target>> \in CaseOpIds
    BY <1>0, <1>3 DEF BreachCase, LoopShape, CaseOpIds
  <2> QED BY <1>0, <1>3, <2>1, TransitionTyped DEF BreachCase, Cas!MarkCaseBreached,
          Cas!TerminalResolvedAttentionKinds, Cas!CaseStatus
<1>4. ASSUME NEW lost, MarkAssigned(lost) PROVE Cas!CaseTypeOK'
  <2>1. AllocationOp \in CaseOpIds
    BY <1>0, <1>4, AllocationNamesAttempt DEF MarkAssigned
  <2> QED BY <1>0, <1>4, <2>1, TransitionTyped DEF MarkAssigned, Cas!MarkCaseAssigned, Cas!CaseStatus
<1>5. ASSUME NEW u \in Updates, NEW lost, StartCase(u, lost) \/ ParkCase(u, lost)
      PROVE  Cas!CaseTypeOK'
  BY <1>0, <1>5, TransitionTyped DEF StartCase, ParkCase, Cas!MarkCaseInProgress,
     Cas!MarkCaseNoAccess, Cas!CaseStatus
<1>6. ASSUME NEW u \in Updates, NEW lost, FlagStart(u, lost) \/ FlagCompletion(u, lost)
      PROVE  Cas!CaseTypeOK'
  BY <1>0, <1>6, RaiseTyped DEF FlagStart, FlagCompletion, Cas!TerminalResolvedAttentionKinds
<1>7. ASSUME NEW u \in Updates, NEW lost, OpenCase(u, lost) \/ RecordAcceptance(u, lost)
      PROVE  Cas!CaseTypeOK'
  BY <1>0, <1>7 DEF OpenCase, RecordAcceptance, Cas!CreateCase, Cas!RecordAllocationAcceptance,
     Cas!Resolve, Cas!CaseTypeOK, Cas!CaseStatus
<1>8. ASSUME NEW u \in Updates, NEW lost, RecordReplacement(u, lost) PROVE Cas!CaseTypeOK'
  BY <1>0, <1>8 DEF RecordReplacement, Cas!MarkCaseAppointmentReplaced, Cas!Resolve,
     Cas!CaseTypeOK, Cas!CaseStatus
<1>9. ASSUME NEW u \in Updates, NEW lost, CancelCase(u, lost) PROVE Cas!CaseTypeOK'
  BY <1>0, <1>9 DEF CancelCase, Cas!CancelCase, Cas!Resolve, Cas!CaseTypeOK, Cas!CaseStatus
<1>10. ASSUME NEW u \in Updates, NEW lost, CompleteCase(u, lost) PROVE Cas!CaseTypeOK'
  BY <1>0, <1>10 DEF CompleteCase, Cas!CompleteCase, Cas!Resolve, Cas!CaseTypeOK, Cas!CaseStatus
<1>11. CaseCall => Cas!CaseTypeOK'
  BY <1>2, <1>3, <1>4, <1>5, <1>6, <1>7, <1>8, <1>9, <1>10 DEF CaseCall
<1> QED BY <1>1, <1>11, StepKinds, CallFrames, WorkflowFrame DEF OtherCaseAllocates, vars, atomVars

\* The clock stays within its bound.
LEMMA ClockStep == ASSUME WorkflowInv, [Next]_vars PROVE now' \in 0 .. MaxTime
<1>1. UNCHANGED now \/ (now < MaxTime /\ now' = now + 1)
  <2>1. WorkflowStep => UNCHANGED now \/ (now < MaxTime /\ now' = now + 1)
    <3>1. LoopStep => UNCHANGED now
      BY DEF LoopStep, Top, Close, CancellationSettled, Wake, GateAccept, GateVisit, Due,
         BreachCheck, Shift, CheckTerminal, FetchSnapshot
    <3>2. ASSUME NEW u, HandlerStep(u) PROVE UNCHANGED now
      BY <3>2 DEF HandlerStep, Admit, AwaitRecovery, AwaitGuards, ValidateCompletion
    <3> QED BY <3>1, <3>2 DEF WorkflowStep, StartRun, Tick, Send
  <2> QED BY <2>1, StepKinds, CallFrames DEF OtherCaseAllocates, vars
<1> QED BY <1>1, BoundsAreNumbers DEF WorkflowInv

\* Every step keeps the invariant.
LEMMA InvariantStep == WorkflowInv /\ [Next]_vars => WorkflowInv'
  BY ShapeStep, NamesStep, AwaitedStep, ClaimsStep, NothingBeforeStep, AssignmentStands,
     AppointmentStands, CaseStep, ClockStep, DeadlineStep DEF WorkflowInv

\* It holds when nothing has happened yet.
LEMMA InvariantInit == Init => WorkflowInv
<1> SUFFICES ASSUME Init PROVE WorkflowInv
  OBVIOUS
<1>1. UpdateShape /\ UpdateNames /\ \A u \in Updates : upd[u] = NewUpdate
  BY DEF Init, UpdateShape, UpdateNames, NewUpdate, IsUpdate, PcFits
<1>2. wf \in RunState
  <2>1. <<>> \in Seq(Updates \cup {NONE})
    OBVIOUS
  <2> QED BY <2>1 DEF Init, FreshRun, RunState
<1>3. LoopShape /\ QueueShape
  BY DEF Init, AtTop, FreshRun, LoopShape, IsLoop, LoopPcs, QueueShape, Waits
<1>4. AsgP!AssignmentInit
  BY DEF Init, Asg!AssignmentInit, AsgP!AssignmentInit, Asg!NoAttempt, AsgP!NoAttempt,
     Asg!NoCommit, AsgP!NoCommit
<1>5. AsgP!TypeInv /\ AsgP!SafetyInv
  BY <1>4, AssignmentAssumptions, AsgP!TypeInit, AsgP!SafetyInit
<1>6. /\ Apt!AppointmentTypeOK /\ ClaimsNameOffers
  BY DEF Init, Apt!AppointmentInit, Apt!AppointmentTypeOK, ClaimsNameOffers
<1>7. Cas!CaseTypeOK
  BY DEF Init, Cas!CaseInit, Cas!CaseTypeOK
<1>8. CommitIsAwaited /\ NothingBefore /\ DeadlineShape
  BY NoneIsNull DEF Init, Asg!AssignmentInit, Apt!AppointmentInit, CommitIsAwaited, NothingBefore,
     DeadlineShape, Asg!NoAttempt
<1>9. now \in 0 .. MaxTime
  BY BoundsAreNumbers DEF Init
<1> QED BY <1>1, <1>2, <1>3, <1>5, <1>6, <1>7, <1>8, <1>9 DEF WorkflowInv, Shape

\* The invariant of the Workflow.
LEMMA WorkflowInvariant == Spec => []WorkflowInv
  BY InvariantInit, InvariantStep, PTL DEF Spec

-----------------------------------------------------------------------------
(* What follows from the invariant, and from calling the atoms as they allow *)

\* The types of CaseWorkflow: the records of the three atoms, the clock, a deadline
\* for each offer, and the places a handler can be in.
THEOREM TypeCorrect == Spec => []TypeOK
<1>1. WorkflowInv => TypeOK
  <2> SUFFICES ASSUME WorkflowInv PROVE TypeOK
    OBVIOUS
  <2>1. Asg!AssignmentTypeOK /\ Apt!AppointmentTypeOK /\ Cas!CaseTypeOK
    BY AssignmentFacts DEF WorkflowInv
  <2>2. /\ wf.attempt \in AttemptIds \cup {NONE} /\ wf.visit \in ClaimIds \cup {NONE}
        /\ wf.retryAt \in Nat \cup {NONE} /\ wf.attempted \subseteq Contractors
    BY DEF WorkflowInv, Shape, RunState
  <2>3. \A u \in Updates : upd[u].pc \in UpdatePcs
    BY DEF WorkflowInv, Shape, UpdateShape, PcFits, UpdatePcs
  <2> QED BY <2>1, <2>2, <2>3 DEF TypeOK, WorkflowInv, DeadlineShape
<1> QED BY <1>1, WorkflowInvariant, PTL

\* The Workflow, with its retries and its races, uses the Appointment atom only as
\* any caller may: it implements that atom's specification.
THEOREM AppointmentRefined == Spec => Apt!AppointmentSpec
<1>1. Init => Apt!AppointmentInit
  BY DEF Init
<1>2. WorkflowInv /\ [Next]_vars => [Apt!AppointmentNext]_(Apt!appointmentVars)
  BY AppointmentCalls DEF appointmentVars, Apt!appointmentVars
<1> QED BY <1>1, <1>2, WorkflowInvariant, PTL DEF Spec, Apt!AppointmentSpec

\* So no Contractor of the Case is ever booked twice at a time, and what was recorded
\* of a visit stands, whatever is retried, replaced or cancelled.
THEOREM BookingsStand == Spec => []Apt!NoDoubleBooking /\ Apt!RecordedOutcomesAreFinal
<1>1. Init => AptP!AppointmentInit
  BY DEF Init, Apt!AppointmentInit, AptP!AppointmentInit, Apt!NoClaim, AptP!NoClaim
<1>2. WorkflowInv /\ [Next]_vars => [AptP!AppointmentNext]_(AptP!appointmentVars)
  BY AppointmentCalls, SameAppointment DEF appointmentVars, AptP!appointmentVars
<1>3. Spec => AptP!AppointmentSpec
  BY <1>1, <1>2, WorkflowInvariant, PTL DEF Spec, AptP!AppointmentSpec
<1>4. AptP!AppointmentSpec => []AptP!NoDoubleBooking
  BY AppointmentAssumptions, AptP!NeverDoubleBooked
<1>5. AptP!AppointmentSpec => AptP!RecordedOutcomesAreFinal
  BY AppointmentAssumptions, AptP!OutcomesAreFinal
<1>6. AptP!NoDoubleBooking => Apt!NoDoubleBooking
  BY DEF AptP!NoDoubleBooking, Apt!NoDoubleBooking, AptP!Live, Apt!Live, AptP!Overlap, Apt!Overlap
<1>7. AptP!RecordedOutcomesAreFinal => Apt!RecordedOutcomesAreFinal
  BY DEF AptP!RecordedOutcomesAreFinal, Apt!RecordedOutcomesAreFinal, AptP!AppointmentStatus,
     Apt!AppointmentStatus, AptP!appointmentVars, Apt!appointmentVars
<1> QED BY <1>3, <1>4, <1>5, <1>6, <1>7, PTL

\* Around the epochs of other Cases, the Workflow keeps what the Assignment atom
\* promises: one open offer, one acceptance, commits that act on the truth, work that
\* follows an acceptance.
THEOREM AllocationsStand ==
    Spec => [](/\ Asg!AtMostOnePendingAttempt /\ Asg!AtMostOneAcceptance
               /\ Asg!CommitReadsHold /\ Asg!WorkFollowsAnAcceptance)
<1>1. WorkflowInv => /\ Asg!AtMostOnePendingAttempt /\ Asg!AtMostOneAcceptance
                     /\ Asg!CommitReadsHold /\ Asg!WorkFollowsAnAcceptance
  BY AssignmentFacts DEF WorkflowInv
<1> QED BY <1>1, WorkflowInvariant, PTL

-----------------------------------------------------------------------------
(* What one step can do to what is on record, and who does it: what the      *)
(* promises below are kept by.                                               *)

\* An Update that is being handled is moved by its own handler alone.
LEMMA OwnSteps ==
    ASSUME WorkflowInv, [Next]_vars, NEW v \in Updates,
           upd'[v] # upd[v], upd[v].pc \notin {"new", "queued"}
    PROVE  HandlerStep(v) \/ \E lost \in LostReplies : HandlerActivity(v, lost)
<1>0. UpdateShape
  BY DEF WorkflowInv, Shape
<1>1. ~(LoopStep \/ \E lost \in LostReplies : LoopActivity(lost))
  BY <1>0, LoopAnswers, WorkflowAssumption DEF LoopAnswered, Answer, UpdateShape
<1>2. \A u \in Updates : ~Send(u)
  BY <1>0 DEF Send, UpdateShape
<1>3. ASSUME NEW u \in Updates, HandlerStep(u) PROVE HandlerStep(v)
  <2>1. CASE Drains(u)
    <3> SUFFICES ASSUME u # v PROVE FALSE
      BY <1>3
    <3>1. PICK i \in DOMAIN wf.queue : wf.queue[i] = v
      BY <2>1 DEF Drains, AdmitCancel
    <3>2. i \in 1 .. Len(wf.queue) /\ v # NONE
      BY NoneIsNull DEF WorkflowInv, Shape, RunState
    <3> QED BY <3>1, <3>2 DEF WorkflowInv, Shape, QueueShape, Waits
  <2> QED BY <1>0, <1>3, <2>1, HandlerStepMoves, HandlerMovesItsOwn
<1>4. ASSUME NEW u \in Updates, NEW lost \in LostReplies, HandlerActivity(u, lost)
      PROVE  HandlerActivity(v, lost)
  BY <1>0, <1>4, ActivityMoves, HandlerMovesItsOwn, WorkflowAssumption
<1>5. CommitFails \/ StartRun \/ Tick \/ OtherCaseAllocates \/ UNCHANGED vars => UNCHANGED upd
  BY DEF CommitFails, StartRun, Tick, OtherCaseAllocates, vars, workflowVars
<1> QED BY <1>1, <1>2, <1>3, <1>4, <1>5 DEF Next

\* An Activity of a handler is one of its kind.
LEMMA KindActivity ==
    ASSUME NEW u \in Updates, NEW lost, HandlerActivity(u, lost)
    PROVE  /\ KindOf[u] = "accept" => AcceptActivity(u, lost)
           /\ KindOf[u] = "start" => StartActivity(u, lost)
           /\ KindOf[u] = "replace" => ReplaceVisit(u, lost) \/ RecordReplacement(u, lost)
           /\ KindOf[u] = "cancel" => CancelActivity(u, lost)
           /\ KindOf[u] = "complete" => CompleteActivity(u, lost)
<1> USE DEF At
<1>1. OpenCase(u, lost) => KindOf[u] = "open"
  BY DEF OpenCase
<1>2. AcceptActivity(u, lost) => KindOf[u] = "accept"
  BY DEF AcceptActivity, ReserveSlot, AcceptAttempt, ReleaseSlot, ConfirmSlot, RecordAcceptance
<1>3. StartActivity(u, lost) => KindOf[u] = "start"
  BY DEF StartActivity, StartVisit, StartAssignment, StartCase, FlagStart
<1>4. VisitActivity(u, lost) =>
          KindOf[u] = "noAccess" \/ ReplaceVisit(u, lost) \/ RecordReplacement(u, lost)
  BY DEF VisitActivity, FailVisit, ParkCase
<1>5. ReplaceVisit(u, lost) \/ RecordReplacement(u, lost) => KindOf[u] = "replace"
  BY DEF ReplaceVisit, RecordReplacement
<1>6. CancelActivity(u, lost) => KindOf[u] = "cancel"
  BY DEF CancelActivity, CancelVisit, CancelAssignment, CancelCase
<1>7. CompleteActivity(u, lost) => KindOf[u] = "complete"
  BY DEF CompleteActivity, CompleteVisit, CompleteAssignment, CompleteCase, FlagCompletion
<1> QED BY <1>1, <1>2, <1>3, <1>4, <1>5, <1>6, <1>7 DEF HandlerActivity

\* What the atoms keep of offers, work and visits, every step of the system keeps.
LEMMA RecordsStand ==
    ASSUME WorkflowInv, [Next]_vars
    PROVE  /\ \A a \in AttemptIds : AsgP!AnswerStands(a)
           /\ AsgP!WorkStands
           /\ \A x \in ClaimIds : appointment[x] = "completed" =>
                 appointment'[x] = "completed"
<1>1. AsgP!TypeInv /\ AsgP!SafetyInv
  BY DEF WorkflowInv
<1>2. ASSUME [Asg!AssignmentNext]_assignmentVars
      PROVE  AsgP!WorkStands /\ \A a \in AttemptIds : AsgP!AnswerStands(a)
  <2>1. [AsgP!AssignmentNext]_(AsgP!assignmentVars)
    BY <1>2, SameAssignment DEF assignmentVars, AsgP!assignmentVars
  <2> QED BY <1>1, <2>1, AssignmentAssumptions, AsgP!AnswersStand, AsgP!WorkStep
<1>3. ASSUME OtherCaseAllocates
      PROVE  AsgP!WorkStands /\ \A a \in AttemptIds : AsgP!AnswerStands(a)
  <2>1. UNCHANGED <<assignment, completionOp, attempt, commit>>
    BY <1>3 DEF OtherCaseAllocates
  <2>2. \A a \in AttemptIds : attempt[a] \in AsgP!AttemptRow \cup {AsgP!NoAttempt}
    BY <1>1 DEF AsgP!TypeInv, AsgP!AssignmentTypeOK
  <2> QED BY <2>1, <2>2 DEF AsgP!AnswerStands, AsgP!WorkStands, AsgP!NoAttempt
<1>4. ASSUME NEW x \in ClaimIds, appointment[x] = "completed"
      PROVE  appointment'[x] = "completed"
  <2>1. [AptP!AppointmentNext]_(AptP!appointmentVars)
    BY AppointmentCalls, SameAppointment DEF appointmentVars, AptP!appointmentVars
  <2>2. AptP!AppointmentTypeOK
    BY SameAppointment DEF WorkflowInv
  <2>3. UNCHANGED AptP!appointmentVars => appointment' = appointment
    BY DEF AptP!appointmentVars
  <2> QED BY <1>4, <2>1, <2>2, <2>3, AppointmentAssumptions, AptP!OutcomesStand
          DEF AptP!AppointmentStatus
<1> QED BY <1>2, <1>3, <1>4, AssignmentCalls

\* Only the main loop, at its breach, breaches an offer.
LEMMA NewBreach ==
    ASSUME WorkflowInv, [Next]_vars, NEW a \in AttemptIds,
           attempt[a].status # "BREACHED", attempt'[a].status = "BREACHED"
    PROVE  main.pc = "breach"
<1>0. /\ attempt = [b \in AttemptIds |-> attempt[b]]
      /\ \A b \in AttemptIds : attempt[b] # Asg!NoAttempt => attempt[b] \in Asg!AttemptRow
  BY AssignmentFacts, NoneIsNull DEF WorkflowInv, Asg!AssignmentTypeOK
<1>1. AssignmentCall
  BY StepKinds, CallFrames, WorkflowFrame DEF OtherCaseAllocates, vars, atomVars, assignmentVars
<1>2. ASSUME NEW lost, Breach(lost) PROVE main.pc = "breach"
  BY <1>2 DEF Breach
<1>3. ASSUME NEW lost, CommitWrites(lost) PROVE FALSE
  BY <1>0, <1>3 DEF CommitWrites, Asg!CommitWrite, Asg!AttemptRow, Asg!NoAttempt
<1>4. ASSUME NEW v \in Updates, NEW lost, CancelAssignment(v, lost) PROVE FALSE
  BY <1>0, <1>4 DEF CancelAssignment, Asg!CancelAssignmentForCase, Asg!AttemptRow, Asg!NoAttempt
<1>5. ASSUME NEW v \in Updates, NEW lost, AcceptAttempt(v, lost) PROVE FALSE
  <2>1. upd[v].target \in AttemptIds /\ attempt[upd[v].target] \in Asg!AttemptRow
    BY <1>5, OfferIsRow DEF AcceptAttempt, At, WorkflowInv, UpdateNames, Names
  <2> QED BY <1>0, <1>5, <2>1 DEF AcceptAttempt, Asg!AcceptAllocationAttempt, Asg!AttemptRow
<1>6. ASSUME NEW v, NEW lost,
             \/ CommitFails \/ CommitRequest(lost) \/ CommitRead(lost)
             \/ StartAssignment(v, lost) \/ CompleteAssignment(v, lost)
      PROVE  FALSE
  BY <1>6 DEF CommitFails, CommitRequest, CommitRead, StartAssignment, CompleteAssignment,
     Asg!CommitRollback, Asg!CommitBegin, Asg!CommitReadAssignment, Asg!CommitReadPending,
     Asg!MarkAssignmentInProgress, Asg!CompleteAssignment
<1> QED BY <1>1, <1>2, <1>3, <1>4, <1>5, <1>6 DEF AssignmentCall

\* What is queued for the Metrics atom: a breach, once the Case atom has answered it,
\* and a completion, once the Case is completed.
LEMMA NewEffects ==
    ASSUME WorkflowInv, [Next]_vars
    PROVE  \/ effects' = effects
           \/ /\ main.pc = "breachCase"
              /\ effects' = effects \cup {<<"breach", main.target>>}
           \/ \E u \in Updates :
                 /\ KindOf[u] = "complete" /\ upd[u].pc = "case" /\ Status' = "completed"
                 /\ effects' = effects \cup {<<"completion", TheCase>>}
<1>1. CASE UNCHANGED effects
  BY <1>1
<1>2. WorkflowStep \/ OtherCaseAllocates \/ UNCHANGED vars => UNCHANGED effects
  BY WorkflowFrame DEF OtherCaseAllocates, vars, workflowVars
<1>3. AssignmentCall => UNCHANGED effects
  BY DEF AssignmentCall, CommitFails, Breach, CommitRequest, CommitRead, CommitWrites,
         AcceptAttempt, StartAssignment, CancelAssignment, CompleteAssignment, OnlyAssignment,
         workflowVars
<1>4. AppointmentCall => UNCHANGED effects
  <2>1. ASSUME NEW lost, MissVisit(lost) PROVE UNCHANGED effects
    BY <2>1 DEF MissVisit
  <2>2. ASSUME NEW u, NEW lost,
               \/ ReserveSlot(u, lost) \/ ReleaseSlot(u, lost) \/ ConfirmSlot(u, lost)
               \/ StartVisit(u, lost) \/ FailVisit(u, lost) \/ ReplaceVisit(u, lost)
               \/ CancelVisit(u, lost) \/ CompleteVisit(u, lost)
        PROVE  UNCHANGED effects
    BY <2>2 DEF ReserveSlot, ReleaseSlot, ConfirmSlot, StartVisit,
           FailVisit, ReplaceVisit, CancelVisit, CompleteVisit, OnlyAppointment
  <2> QED BY <2>1, <2>2 DEF AppointmentCall
<1>5. ASSUME NEW lost, BreachCase(lost)
      PROVE  \/ effects' = effects
             \/ /\ main.pc = "breachCase"
                /\ effects' = effects \cup {<<"breach", main.target>>}
  BY <1>5 DEF BreachCase
<1>6. ASSUME NEW u \in Updates, NEW lost, CompleteCase(u, lost)
      PROVE  \/ effects' = effects
             \/ /\ KindOf[u] = "complete" /\ upd[u].pc = "case" /\ Status' = "completed"
                /\ effects' = effects \cup {<<"completion", TheCase>>}
  <2>1. KindOf[u] = "complete" /\ upd[u].pc = "case"
    BY <1>6 DEF CompleteCase, At
  <2>2. CASE Cas!CompleteCaseOutcome(TheCase, u) = "COMPLETED"
    <3>1. caseStatus' = [caseStatus EXCEPT ![TheCase] = "completed"]
      BY <1>6, <2>2 DEF CompleteCase, Cas!CompleteCase
    <3>2. Status' = "completed"
      BY <3>1 DEF WorkflowInv, Cas!CaseTypeOK, Cases, Status
    <3> QED BY <1>6, <2>1, <3>2 DEF CompleteCase
  <2>3. CASE Cas!CompleteCaseOutcome(TheCase, u) = "ALREADY_COMPLETED"
    <3>1. Status = "completed" /\ UNCHANGED caseStatus
      BY <1>6, <2>3 DEF CompleteCase, Cas!CompleteCase, Cas!CompleteCaseOutcome, Status
    <3> QED BY <1>6, <2>1, <3>1 DEF CompleteCase, Status
  <2>4. CASE Cas!CompleteCaseOutcome(TheCase, u) \notin {"COMPLETED", "ALREADY_COMPLETED"}
    BY <1>6, <2>4 DEF CompleteCase
  <2> QED BY <2>2, <2>3, <2>4
<1>7. ASSUME NEW u, NEW lost,
             \/ MissFlag(lost) \/ MarkAssigned(lost) \/ FlagAllocation(lost)
             \/ OpenCase(u, lost) \/ RecordAcceptance(u, lost) \/ StartCase(u, lost)
             \/ FlagStart(u, lost) \/ ParkCase(u, lost) \/ RecordReplacement(u, lost)
             \/ CancelCase(u, lost) \/ FlagCompletion(u, lost)
      PROVE  UNCHANGED effects
  BY <1>7 DEF MissFlag, MarkAssigned, FlagAllocation, OpenCase, RecordAcceptance, StartCase,
     FlagStart, ParkCase, RecordReplacement, CancelCase, FlagCompletion
<1> QED BY <1>2, <1>3, <1>4, <1>5, <1>6, <1>7, StepKinds DEF CaseCall

-----------------------------------------------------------------------------
(* A Contractor is penalised for offers that really lapsed.                  *)

\* An offer that is open or has lapsed was not accepted; a commit replaces no offer
\* that has lapsed; the loop reports a breach of an offer that has.
BreachInv ==
    /\ \A a \in AttemptIds : attempt[a].status \in {"PENDING_ACCEPTANCE", "BREACHED"} =>
           attempt[a].acceptedBy = NONE
    /\ commit.pc = "write" /\ commit.replace # NONE =>
           attempt[commit.replace].status # "BREACHED"
    /\ main.pc = "breachCase" => attempt[main.target].status = "BREACHED"

\* Where the main loop goes.
LEMMA LoopGoes ==
    ASSUME WorkflowInv
    PROVE  /\ \A pc : Goto(pc) => main'.pc = pc /\ main'.target = main.target
           /\ Restarted => main'.pc = "top"
           /\ \A w, result : AllocationOver(w, result) => main'.pc = "top"
           /\ ExpiryOver => main'.pc = "breachCheck"
<1>1. IsLoop(main)
  BY DEF WorkflowInv, Shape, LoopShape
<1>2. AtTop.pc = "top"
  BY DEF AtTop
<1> QED BY <1>1, <1>2 DEF Goto, Restarted, AllocationOver, ExpiryOver, IsLoop

\* How the loop gets to the Case of a breach: from the breach of that offer.
LEMMA ReportsBreach ==
    ASSUME WorkflowInv, [Next]_vars, main'.pc = "breachCase"
    PROVE  \/ UNCHANGED main
           \/ /\ main'.target = main.target /\ main.target \in AttemptIds
              /\ attempt'[main.target].status = "BREACHED"
<1>0. IsLoop(main) /\ LoopShape
  BY DEF WorkflowInv, Shape, LoopShape
<1>1. ~LoopStep
  <2>1. ~(Close \/ CancellationSettled \/ Wake \/ GateAccept \/ GateVisit \/ CheckTerminal)
    BY LoopGoes DEF Close, CancellationSettled, Wake, GateAccept, GateVisit, CheckTerminal
  <2>2. ~(Top \/ Shift)
    BY LoopGoes DEF Top, Shift, AtTop
  <2>3. ~Due
    <3>1. Due => \/ main' = AtTop
                 \/ main' = [main EXCEPT !.pc = "missVisit", !.target = wf.visit]
                 \/ main' = [main EXCEPT !.pc = "breachCheck"]
      BY DEF Due
    <3>2. main' # AtTop
      BY DEF AtTop
    <3>3. main' # [main EXCEPT !.pc = "missVisit", !.target = wf.visit]
      BY <1>0 DEF IsLoop
    <3>4. main' # [main EXCEPT !.pc = "breachCheck"]
      BY <1>0 DEF IsLoop
    <3> QED BY <3>1, <3>2, <3>3, <3>4
  <2>4. ~BreachCheck
    <3>1. BreachCheck => \/ main' = [main EXCEPT !.pc = "breach", !.target = wf.attempt]
                         \/ main' = [main EXCEPT !.pc = "shift"]
      BY DEF BreachCheck
    <3> QED BY <1>0, <3>1 DEF IsLoop
  <2>5. ~FetchSnapshot
    BY <1>0, LoopGoes DEF FetchSnapshot, IsLoop
  <2> QED BY <2>1, <2>2, <2>3, <2>4, <2>5 DEF LoopStep
<1>2. ASSUME NEW lost, Breach(lost)
      PROVE  \/ UNCHANGED main
             \/ /\ main'.target = main.target /\ main.target \in AttemptIds
                /\ attempt'[main.target].status = "BREACHED"
  <2>1. /\ main.pc = "breach" /\ main.target \in AttemptIds
        /\ attempt[main.target] # Asg!NoAttempt
        /\ Asg!BreachAllocationAttempt(main.target, Asg!BreachOutcome(main.target))
    BY <1>0, <1>2 DEF Breach, LoopShape, Asg!BreachAllocationAttempt
  <2>2. attempt[main.target] \in Asg!AttemptRow
    BY <2>1, OfferIsRow
  <2>3. attempt[main.target].status \in {"PENDING_ACCEPTANCE", "ACCEPTED", "BREACHED", "WITHDRAWN"}
    BY <2>2 DEF Asg!AttemptRow, Asg!AttemptStatus
  <2>4. Asg!BreachOutcome(main.target) \in {"BREACHED", "ALREADY_BREACHED"} =>
            attempt'[main.target].status = "BREACHED"
    <3>1. attempt = [b \in AttemptIds |-> attempt[b]]
      BY AssignmentFacts DEF WorkflowInv, Asg!AssignmentTypeOK
    <3> QED BY <2>1, <2>2, <2>3, <3>1 DEF Asg!BreachAllocationAttempt, Asg!BreachOutcome, Asg!AttemptRow
  <2>5. ~lost /\ Asg!BreachOutcome(main.target) \notin {"BREACHED", "ALREADY_BREACHED"} =>
            main'.pc = "shift"
    BY <1>0, <1>2, <2>3 DEF Breach, Asg!BreachOutcome, Goto, IsLoop
  <2>6. UNCHANGED main \/ main'.target = main.target
    BY <1>0, <1>2, <2>3 DEF Breach, Asg!BreachOutcome, Goto, IsLoop
  <2>7. lost => UNCHANGED main
    BY <1>2 DEF Breach
  <2> QED BY <2>1, <2>4, <2>5, <2>6, <2>7
<1>3. ASSUME NEW out \in {"COMMITTED", "ALREADY_COMMITTED", "STALE_EPOCH",
                         "ACTIVE_ATTEMPT_EXISTS", "OVERRIDE_REASON_REQUIRED",
                         "REPLACEMENT_ATTEMPT_NOT_PENDING"},
             OnCommitReply(out)
      PROVE  FALSE
  <2>1. out \in {"COMMITTED", "ALREADY_COMMITTED"} => Goto("assign")
    BY <1>3 DEF OnCommitReply
  <2>2. out = "STALE_EPOCH" => main'.pc \in {"snapshot", "flag"}
    BY <1>0, <1>3 DEF OnCommitReply, IsLoop
  <2>3. out \notin {"COMMITTED", "ALREADY_COMMITTED", "STALE_EPOCH"} => main'.pc = "top"
    BY <1>3, LoopGoes DEF OnCommitReply
  <2> QED BY <2>1, <2>2, <2>3, LoopGoes
<1>4. ASSUME NEW lost,
             \/ MissVisit(lost) \/ MissFlag(lost) \/ BreachCase(lost)
             \/ MarkAssigned(lost) \/ FlagAllocation(lost)
      PROVE  UNCHANGED main
  <2>1. UNCHANGED main \/ main'.pc \in {"missFlag", "breachCheck", "shift", "top"}
    BY <1>4, LoopGoes DEF MissVisit, MissFlag, BreachCase, MarkAssigned, FlagAllocation
  <2> QED BY <2>1
<1>5. ASSUME NEW lost, CommitRequest(lost) \/ CommitRead(lost) \/ CommitWrites(lost)
      PROVE  UNCHANGED main
  BY <1>3, <1>5, CommitReplies DEF CommitRequest, CommitRead, CommitWrites
<1>6. ASSUME NEW u \in Updates,
             HandlerStep(u) \/ \E lost \in LostReplies : HandlerActivity(u, lost)
      PROVE  UNCHANGED main
  BY <1>6, HandlerStepRun, ActivityRun, WorkflowAssumption DEF HandlerRun
<1>7. ~StartRun
  BY DEF StartRun, Restarted, AtTop
<1>8. CommitFails \/ Tick \/ OtherCaseAllocates \/ (\E u \in Updates : Send(u)) \/ UNCHANGED vars
          => UNCHANGED main
  BY DEF CommitFails, Tick, OtherCaseAllocates, Send, vars, workflowVars
<1> QED BY <1>1, <1>2, <1>4, <1>5, <1>6, <1>7, <1>8 DEF Next, LoopActivity

\* How a commit gets to its writes: having found the offer it replaces open.
LEMMA CommitReadsOpen ==
    ASSUME WorkflowInv, [Next]_vars, commit'.pc = "write", commit'.replace # NONE
    PROVE  \/ UNCHANGED commit
           \/ UNCHANGED attempt /\ attempt[commit'.replace].status = "PENDING_ACCEPTANCE"
<1>0. commit \in Asg!CommitTx \cup {Asg!NoCommit}
  BY AssignmentFacts DEF WorkflowInv, Asg!AssignmentTypeOK
<1>1. CASE UNCHANGED commit
  BY <1>1
<1>2. ASSUME NEW lost, CommitRead(lost)
      PROVE  UNCHANGED attempt /\ attempt[commit'.replace].status = "PENDING_ACCEPTANCE"
  <2>1. CASE Asg!CommitReadAssignment
    <3>1. commit \in Asg!CommitTx
      BY <1>0, <2>1 DEF Asg!CommitReadAssignment, Asg!NoCommit
    <3>2. commit'.pc = "pending"
      BY <2>1, <3>1 DEF Asg!CommitReadAssignment, Asg!CommitTx
    <3> QED BY <3>2
  <2>2. CASE Asg!CommitReadPending(Asg!CommitPendingOutcome)
    <3>1. commit \in Asg!CommitTx
      BY <1>0, <2>2 DEF Asg!CommitReadPending, Asg!NoCommit
    <3>2. Asg!CommitPendingOutcome = "CONTINUE" /\ commit' = [commit EXCEPT !.pc = "write"]
      BY <2>2 DEF Asg!CommitReadPending, Asg!NoCommit
    <3>3. commit'.replace = commit.replace
      BY <3>1, <3>2 DEF Asg!CommitTx
    <3>4. commit.replace \in Asg!Pending(commit.case)
      BY <3>2, <3>3 DEF Asg!CommitPendingOutcome
    <3> QED BY <2>2, <3>3, <3>4 DEF Asg!Pending, Asg!CommitReadPending
  <2> QED BY <1>2, <2>1, <2>2 DEF CommitRead
<1>3. ASSUME NEW lost, CommitRequest(lost) PROVE FALSE
  <2>1. commit'.pc \in {"assignment", "pending", "idle"}
    BY <1>3 DEF CommitRequest, Asg!CommitBegin, Asg!NoCommit
  <2> QED BY <2>1
<1>4. ASSUME NEW lost, CommitWrites(lost) \/ CommitFails PROVE FALSE
  <2>1. commit' = Asg!NoCommit
    BY <1>4 DEF CommitWrites, CommitFails, Asg!CommitWrite, Asg!CommitRollback
  <2> QED BY <2>1 DEF Asg!NoCommit
<1>5. ASSUME NEW u, NEW lost,
             \/ Breach(lost) \/ AcceptAttempt(u, lost) \/ StartAssignment(u, lost)
             \/ CancelAssignment(u, lost) \/ CompleteAssignment(u, lost)
      PROVE  UNCHANGED commit
  BY <1>5 DEF Breach, AcceptAttempt, StartAssignment, CancelAssignment, CompleteAssignment,
     Asg!BreachAllocationAttempt, Asg!AcceptAllocationAttempt, Asg!MarkAssignmentInProgress,
     Asg!CancelAssignmentForCase, Asg!CompleteAssignment
<1>6. AppointmentCall \/ CaseCall \/ WorkflowStep \/ OtherCaseAllocates \/ UNCHANGED vars
          => UNCHANGED commit
  BY CallFrames, WorkflowFrame DEF OtherCaseAllocates, vars, atomVars, assignmentVars
<1> QED BY <1>1, <1>2, <1>3, <1>4, <1>5, <1>6, StepKinds DEF AssignmentCall

\* It is kept.
LEMMA BreachStep == ASSUME WorkflowInv, BreachInv, [Next]_vars PROVE BreachInv'
<1>0. /\ \A a \in AttemptIds : AsgP!AnswerStands(a)
      /\ AsgP!NoAttempt.acceptedBy = NONE
  BY RecordsStand DEF AsgP!NoAttempt
<1>1. ASSUME NEW a \in AttemptIds, attempt'[a].status \in {"PENDING_ACCEPTANCE", "BREACHED"}
      PROVE  attempt'[a].acceptedBy = NONE
  <2>1. attempt'[a].acceptedBy = attempt[a].acceptedBy
    BY <1>0, <1>1 DEF AsgP!AnswerStands
  <2> QED BY <1>0, <1>1, <2>1 DEF AsgP!AnswerStands, BreachInv
<1>2. ASSUME commit'.pc = "write", commit'.replace # NONE
      PROVE  attempt'[commit'.replace].status # "BREACHED"
  <2>1. CASE UNCHANGED commit
    <3>1. commit # Asg!NoCommit
      BY <1>2, <2>1 DEF Asg!NoCommit
    <3>2. main.pc = "commit" /\ commit.replace \in AttemptIds
      BY <1>2, <2>1, <3>1, AssignmentFacts DEF WorkflowInv, CommitIsAwaited,
         Asg!AssignmentTypeOK, Asg!CommitTx
    <3> QED BY <1>2, <2>1, <3>2, NewBreach DEF BreachInv
  <2>2. CASE UNCHANGED attempt /\ attempt[commit'.replace].status = "PENDING_ACCEPTANCE"
    BY <2>2
  <2> QED BY <1>2, <2>1, <2>2, CommitReadsOpen
<1>3. ASSUME main'.pc = "breachCase" PROVE attempt'[main'.target].status = "BREACHED"
  <2>1. CASE UNCHANGED main
    <3>1. main.target \in AttemptIds /\ attempt[main.target].status = "BREACHED"
      BY <1>3, <2>1 DEF BreachInv, WorkflowInv, Shape, LoopShape
    <3>2. commit = Asg!NoCommit
      BY <1>3, <2>1 DEF WorkflowInv, CommitIsAwaited
    <3>3. commit.pc # "write"
      BY <3>2 DEF Asg!NoCommit
    <3> QED BY <1>0, <2>1, <3>1, <3>3 DEF AsgP!AnswerStands
  <2> QED BY <1>3, <2>1, ReportsBreach
<1> QED BY <1>1, <1>2, <1>3 DEF BreachInv

\* A penalty is queued only for an offer that really lapsed: no acceptance of it is on
\* record, however late the acceptance was delivered and however often the breach was.
THEOREM PenaltiesAreDeserved == Spec => []PenaltyOnlyForALapsedOffer
<1>1. Init => BreachInv /\ PenaltyOnlyForALapsedOffer
  BY NoneIsNull DEF Init, BreachInv, PenaltyOnlyForALapsedOffer, Asg!AssignmentInit,
     Asg!NoAttempt, Asg!NoCommit, AtTop
<1>2. WorkflowInv /\ BreachInv /\ PenaltyOnlyForALapsedOffer /\ [Next]_vars
          => BreachInv' /\ PenaltyOnlyForALapsedOffer'
  <2> SUFFICES ASSUME WorkflowInv, BreachInv, PenaltyOnlyForALapsedOffer, [Next]_vars
               PROVE  BreachInv' /\ PenaltyOnlyForALapsedOffer'
    OBVIOUS
  <2>1. BreachInv'
    BY BreachStep
  <2>2. ASSUME NEW a \in AttemptIds, <<"breach", a>> \in effects'
        PROVE  attempt'[a].status = "BREACHED" /\ attempt'[a].acceptedBy = NONE
    <3>1. <<"breach", a>> # <<"completion", TheCase>>
      OBVIOUS
    <3>2. attempt[a].status = "BREACHED"
      <4>1. ASSUME main.pc = "breachCase", <<"breach", a>> = <<"breach", main.target>>
            PROVE  attempt[a].status = "BREACHED"
        BY <4>1 DEF BreachInv
      <4> QED BY <2>2, <3>1, <4>1, NewEffects DEF PenaltyOnlyForALapsedOffer
    <3>3. ~(commit.pc = "write" /\ a = commit.replace)
      BY <3>2, NoneIsNull DEF BreachInv
    <3>4. attempt'[a].status = "BREACHED"
      BY <3>2, <3>3, RecordsStand DEF AsgP!AnswerStands
    <3> QED BY <2>1, <3>4 DEF BreachInv
  <2> QED BY <2>1, <2>2 DEF PenaltyOnlyForALapsedOffer
<1> QED BY <1>1, <1>2, WorkflowInvariant, PTL DEF Spec

-----------------------------------------------------------------------------
(* How the handlers proceed, kind by kind.                                   *)

\* A handler goes on to its next await, or answers.
LEMMA HandlerGoes ==
    ASSUME WorkflowInv, NEW u \in Updates
    PROVE  /\ \A pc : Continue(u, pc) => upd'[u].pc = pc /\ upd'[u].target = upd[u].target
           /\ \A pc : Enter(u, pc) => upd'[u].pc = pc /\ upd'[u].target = upd[u].target
           /\ \A result : Answer(u, result) => upd'[u].pc = "done" /\ upd'[u].result = result
<1>1. upd = [v \in Updates |-> upd[v]] /\ IsUpdate(upd[u])
  BY DEF WorkflowInv, Shape, UpdateShape
<1>2. ASSUME NEW pc, Continue(u, pc)
      PROVE  upd'[u].pc = pc /\ upd'[u].target = upd[u].target
  BY <1>1, <1>2 DEF Continue, IsUpdate
<1>3. ASSUME NEW pc, Enter(u, pc)
      PROVE  upd'[u].pc = pc /\ upd'[u].target = upd[u].target
  BY <1>1, <1>3 DEF Enter, IsUpdate
<1>4. ASSUME NEW result, Answer(u, result)
      PROVE  upd'[u].pc = "done" /\ upd'[u].result = result
  BY <1>1, <1>4 DEF Answer, Answered, NewUpdate
<1> QED BY <1>2, <1>3, <1>4

\* A handler that moves is sent, or makes a step of its own.
LEMMA KindSteps ==
    ASSUME WorkflowInv, [Next]_vars, NEW u \in Updates, KindOf[u] # "manual", upd'[u] # upd[u]
    PROVE  \/ upd[u].pc = "new" /\ upd'[u].pc = "sent"
           \/ HandlerStep(u)
           \/ \E lost \in LostReplies : HandlerActivity(u, lost)
<1>1. CASE upd[u].pc = "new"
  BY <1>1, EveryStepMoves DEF UpdatesMove, Sends, Proceeds, Answers
<1>2. upd[u].pc # "queued"
  BY DEF WorkflowInv, Shape, UpdateShape, PcFits
<1> QED BY <1>1, <1>2, OwnSteps

\* A completion goes through the visit, the Assignment and the Case, each step on
\* what the record then says, or gives up.
CompletionMoves(u) ==
    /\ upd'[u].pc \notin {"new", "sent", "done"} => upd'[u].target = upd[u].target
    /\ \/ upd[u].pc = "new" /\ upd'[u].pc = "sent"
       \/ upd[u].pc \in {"sent", "validate"} /\ upd'[u].pc = "done" /\ upd'[u].result # "SUCCESS"
       \/ upd[u].pc = "sent" /\ upd'[u].pc = "validate"
       \/ /\ upd[u].pc = "validate" /\ upd'[u].pc = "visit"
          /\ CompletionReady(u) /\ UNCHANGED atomVars
       \/ /\ upd[u].pc = "visit" /\ upd'[u].pc = "done" /\ upd'[u].result # "SUCCESS"
          /\ UNCHANGED appointment
          /\ appointment[upd[u].target] = "completed" => visitOp[upd[u].target] # u
       \/ /\ upd[u].pc = "visit" /\ upd'[u].pc = "work"
          /\ appointment'[upd[u].target] = "completed" /\ visitOp'[upd[u].target] = u
       \/ /\ upd[u].pc = "work" /\ upd'[u].pc = "done" /\ upd'[u].result # "SUCCESS"
          /\ assignment[TheCase] = "COMPLETED" /\ completionOp[TheCase] # u
       \/ upd[u].pc = "work" /\ upd'[u].pc = "flag"
       \/ /\ upd[u].pc = "work" /\ upd'[u].pc = "case"
          /\ assignment'[TheCase] = "COMPLETED" /\ completionOp'[TheCase] = u
       \/ upd[u].pc = "case" /\ upd'[u].pc = "flag"
       \/ upd[u].pc = "case" /\ upd'[u].pc = "done" /\ Status' = "completed"
       \/ /\ upd[u].pc = "flag" /\ upd'[u].pc = "done" /\ upd'[u].result # "SUCCESS"
          /\ "COMPLETION_FAILED" \in attention'[TheCase]

\* The first steps of a completion.
LEMMA CompletionStarts ==
    ASSUME WorkflowInv, [Next]_vars, NEW u \in Updates, KindOf[u] = "complete",
           upd'[u] # upd[u], HandlerStep(u)
    PROVE  CompletionMoves(u)
<1>1. CASE Admit(u)
  <2>1. upd[u].pc = "sent" /\ AdmitComplete(u)
    BY <1>1 DEF Admit, AdmitOpen, AdmitManual, AdmitAccept, AdmitVisitReport, AdmitReplace,
       AdmitCancel
  <2> QED BY <2>1, HandlerGoes DEF AdmitComplete, CompletionMoves
<1>2. CASE ValidateCompletion(u)
  BY <1>2, HandlerGoes DEF ValidateCompletion, At, Then, Reject, CompletionMoves
<1>3. ~AwaitRecovery(u) /\ ~AwaitGuards(u)
  BY DEF AwaitRecovery, AwaitGuards, At
<1> QED BY <1>1, <1>2, <1>3 DEF HandlerStep

\* Its calls of the atoms.
LEMMA CompletionCalls ==
    ASSUME WorkflowInv, [Next]_vars, NEW u \in Updates, NEW lost \in BOOLEAN,
           KindOf[u] = "complete", upd'[u] # upd[u], CompleteActivity(u, lost)
    PROVE  CompletionMoves(u)
<1>0. /\ appointment = [x \in ClaimIds |-> appointment[x]]
      /\ visitOp = [x \in ClaimIds |-> visitOp[x]]
      /\ completionOp = [c \in Cases |-> completionOp[c]]
      /\ assignment = [c \in Cases |-> assignment[c]] /\ TheCase \in Cases
      /\ caseStatus = [c \in Cases |-> caseStatus[c]]
      /\ attention = [c \in Cases |-> attention[c]]
  BY AssignmentFacts DEF WorkflowInv, Apt!AppointmentTypeOK, Asg!AssignmentTypeOK,
     Cas!CaseTypeOK, Cases
<1>1. CASE CompleteVisit(u, lost)
  <2> DEFINE x == upd[u].target
             out == Apt!CompleteVisitOutcome(x, Visitor(u), u)
  <2>1. /\ upd[u].pc = "visit" /\ x \in ClaimIds /\ ~lost
        /\ Apt!CompleteAppointment(x, Visitor(u), u, out)
    BY <1>1, ReportedVisit DEF CompleteVisit, At, Lost
  <2>2. CASE out = "COMPLETED"
    <3>1. appointment'[x] = "completed" /\ visitOp'[x] = u
      BY <1>0, <2>1, <2>2 DEF Apt!CompleteAppointment
    <3>2. Continue(u, "work")
      BY <1>1, <2>1, <2>2 DEF CompleteVisit, Then
    <3> QED BY <2>1, <3>1, <3>2, HandlerGoes DEF CompletionMoves
  <2>3. CASE out = "ALREADY_COMPLETED"
    <3>1. /\ appointment[x] = "completed" /\ visitOp[x] = u
          /\ UNCHANGED <<appointment, visitOp>>
      BY <2>1, <2>3 DEF Apt!CompleteAppointment, Apt!CompleteVisitOutcome
    <3>2. Continue(u, "work")
      BY <1>1, <2>1, <2>3 DEF CompleteVisit, Then
    <3> QED BY <2>1, <3>1, <3>2, HandlerGoes DEF CompletionMoves
  <2>4. CASE out \notin {"COMPLETED", "ALREADY_COMPLETED"}
    <3>1. UNCHANGED appointment /\ (appointment[x] = "completed" => visitOp[x] # u)
      BY <2>1, <2>4, NoneIsNull DEF Apt!CompleteAppointment, Apt!CompleteVisitOutcome,
         Visitor, Apt!AppointmentStatus
    <3>2. Answer(u, "NOT_IN_PROGRESS")
      BY <1>1, <2>1, <2>4 DEF CompleteVisit, Reject
    <3> QED BY <2>1, <3>1, <3>2, HandlerGoes DEF CompletionMoves
  <2> QED BY <2>2, <2>3, <2>4
<1>2. CASE CompleteAssignment(u, lost)
  <2> DEFINE out == Asg!CompleteOutcome(TheCase, u)
  <2>1. /\ upd[u].pc = "work" /\ ~lost /\ Asg!CompleteAssignment(TheCase, u, out)
    BY <1>2 DEF CompleteAssignment, At, Lost
  <2>2. CASE out \in {"COMPLETED", "ALREADY_COMPLETED"}
    <3>1. assignment'[TheCase] = "COMPLETED" /\ completionOp'[TheCase] = u
      BY <1>0, <2>1, <2>2 DEF Asg!CompleteAssignment, Asg!CompleteOutcome
    <3>2. Continue(u, "case")
      BY <1>2, <2>1, <2>2 DEF CompleteAssignment, Then
    <3> QED BY <2>1, <3>1, <3>2, HandlerGoes DEF CompletionMoves
  <2>3. CASE out = "COMPLETION_OPERATION_CONFLICT"
    <3>1. assignment[TheCase] = "COMPLETED" /\ completionOp[TheCase] # u
      BY <2>3 DEF Asg!CompleteOutcome
    <3>2. Answer(u, "NOT_IN_PROGRESS")
      BY <1>2, <2>1, <2>3 DEF CompleteAssignment, Reject
    <3> QED BY <2>1, <3>1, <3>2, HandlerGoes DEF CompletionMoves
  <2>4. CASE out \notin {"COMPLETED", "ALREADY_COMPLETED", "COMPLETION_OPERATION_CONFLICT"}
    <3>1. Continue(u, "flag")
      BY <1>2, <2>1, <2>4 DEF CompleteAssignment, Then
    <3> QED BY <2>1, <3>1, HandlerGoes DEF CompletionMoves
  <2> QED BY <2>2, <2>3, <2>4
<1>3. CASE CompleteCase(u, lost)
  <2> DEFINE out == Cas!CompleteCaseOutcome(TheCase, u)
  <2>1. upd[u].pc = "case" /\ ~lost /\ Cas!CompleteCase(TheCase, u, out)
    BY <1>3 DEF CompleteCase, At, Lost
  <2>2. CASE out \in {"COMPLETED", "ALREADY_COMPLETED"}
    <3>1. Status' = "completed"
      BY <1>0, <2>1, <2>2 DEF Cas!CompleteCase, Cas!CompleteCaseOutcome, Status
    <3>2. Answer(u, "SUCCESS")
      BY <1>3, <2>1, <2>2 DEF CompleteCase
    <3> QED BY <2>1, <3>1, <3>2, HandlerGoes DEF CompletionMoves
  <2>3. CASE out \notin {"COMPLETED", "ALREADY_COMPLETED"}
    <3>1. Continue(u, "flag")
      BY <1>3, <2>1, <2>3 DEF CompleteCase, Then
    <3> QED BY <2>1, <3>1, HandlerGoes DEF CompletionMoves
  <2> QED BY <2>2, <2>3
<1>4. CASE FlagCompletion(u, lost)
  <2>1. /\ upd[u].pc = "flag" /\ Answer(u, "COMPLETION_FAILED")
        /\ "COMPLETION_FAILED" \in attention'[TheCase]
    BY <1>0, <1>4 DEF FlagCompletion, At, Lost, Reject, Cas!RaiseOfficerAttention, Cas!Raise
  <2> QED BY <2>1, HandlerGoes DEF CompletionMoves
<1> QED BY <1>1, <1>2, <1>3, <1>4 DEF CompleteActivity

\* So a completion moves in every step as CompletionMoves says.
LEMMA CompletionGoes ==
    ASSUME WorkflowInv, [Next]_vars, NEW u \in Updates, KindOf[u] = "complete", upd'[u] # upd[u]
    PROVE  CompletionMoves(u)
<1>1. CASE upd[u].pc = "new" /\ upd'[u].pc = "sent"
  BY <1>1 DEF CompletionMoves
<1>2. ASSUME NEW lost \in LostReplies, HandlerActivity(u, lost) PROVE CompletionMoves(u)
  BY <1>2, KindActivity, CompletionCalls, WorkflowAssumption
<1> QED BY <1>1, <1>2, KindSteps, CompletionStarts

\* A Case that is over stays as it ended: no late transition, however it was delayed or
\* repeated, opens it again.
LEMMA EndIsFinal ==
    ASSUME WorkflowInv, [Next]_vars, Status \in {"completed", "cancelled"}
    PROVE  Status' = Status
<1>0. /\ Status = caseStatus[TheCase] /\ Cas!Terminal(TheCase) /\ Status # NONE
      /\ caseStatus = [c \in Cases |-> caseStatus[c]] /\ TheCase \in Cases
  BY NoneIsNull DEF Status, Cas!Terminal, Cas!CaseStatus, WorkflowInv, Cas!CaseTypeOK, Cases
<1> SUFFICES UNCHANGED caseStatus
  BY DEF Status
<1>1. ASSUME NEW op, NEW done, done # "CASE_TERMINAL", NEW to, NEW resolved, NEW raised, NEW out,
             Cas!Transition(TheCase, op, done, to, resolved, raised, out)
      PROVE  UNCHANGED caseStatus
  BY <1>0, <1>1 DEF Cas!Transition
<1>2. ASSUME NEW lost, BreachCase(lost) \/ MarkAssigned(lost) PROVE UNCHANGED caseStatus
  BY <1>1, <1>2 DEF BreachCase, MarkAssigned, Cas!MarkCaseBreached, Cas!MarkCaseAssigned
<1>3. ASSUME NEW u, NEW lost, StartCase(u, lost) \/ ParkCase(u, lost) PROVE UNCHANGED caseStatus
  BY <1>1, <1>3 DEF StartCase, ParkCase, Cas!MarkCaseInProgress, Cas!MarkCaseNoAccess
<1>4. ASSUME NEW u, NEW lost,
             \/ MissFlag(lost) \/ FlagAllocation(lost) \/ FlagStart(u, lost)
             \/ FlagCompletion(u, lost) \/ RecordAcceptance(u, lost)
      PROVE  UNCHANGED caseStatus
  BY <1>4 DEF MissFlag, FlagAllocation, FlagStart, FlagCompletion, RecordAcceptance,
     Cas!RaiseOfficerAttention, Cas!RecordAllocationAcceptance
<1>5. ASSUME NEW u, NEW lost, OpenCase(u, lost) PROVE UNCHANGED caseStatus
  BY <1>0, <1>5 DEF OpenCase, Cas!CreateCase
<1>6. ASSUME NEW u, NEW lost, RecordReplacement(u, lost) PROVE UNCHANGED caseStatus
  BY <1>0, <1>6 DEF RecordReplacement, Cas!MarkCaseAppointmentReplaced
<1>7. ASSUME NEW u, NEW lost, CancelCase(u, lost) PROVE UNCHANGED caseStatus
  BY <1>0, <1>7 DEF CancelCase, Cas!CancelCase, Cas!CancelCaseOutcome
<1>8. ASSUME NEW u, NEW lost, CompleteCase(u, lost) PROVE UNCHANGED caseStatus
  <2>1. Cas!CompleteCaseOutcome(TheCase, u) \in {"ALREADY_COMPLETED", "CASE_TERMINAL"}
    BY <1>0 DEF Cas!CompleteCaseOutcome
  <2> QED BY <1>8, <2>1 DEF CompleteCase, Cas!CompleteCase
<1>9. CaseCall => UNCHANGED caseStatus
  BY <1>2, <1>3, <1>4, <1>5, <1>6, <1>7, <1>8 DEF CaseCall
<1> QED BY <1>9, StepKinds, CallFrames, WorkflowFrame DEF OtherCaseAllocates, vars, atomVars, caseVars

-----------------------------------------------------------------------------
(* Completion credit is queued for work that is finished.                    *)

\* A completion that is past the visit has completed it, and one that is at the Case
\* has completed the Assignment.
CompletionInv ==
    \A u \in Updates : KindOf[u] = "complete" =>
        /\ upd[u].pc \in {"work", "case", "flag"} => appointment[upd[u].target] = "completed"
        /\ upd[u].pc = "case" => assignment[TheCase] = "COMPLETED"

\* It is kept.
LEMMA CompletionStep == ASSUME WorkflowInv, CompletionInv, [Next]_vars PROVE CompletionInv'
<1> SUFFICES ASSUME NEW u \in Updates, KindOf[u] = "complete"
             PROVE  /\ upd'[u].pc \in {"work", "case", "flag"} =>
                          appointment'[upd'[u].target] = "completed"
                    /\ upd'[u].pc = "case" => assignment'[TheCase] = "COMPLETED"
  BY DEF CompletionInv
<1>1. ASSUME upd[u].pc \in {"work", "case", "flag"}
      PROVE  /\ appointment'[upd[u].target] = "completed"
             /\ upd[u].pc = "case" => assignment'[TheCase] = "COMPLETED"
  <2>1. upd[u].target \in ClaimIds /\ TheCase \in Cases
    BY <1>1, ReportedVisit DEF Cases
  <2> QED BY <1>1, <2>1, RecordsStand DEF CompletionInv, AsgP!WorkStands
<1>2. CASE upd'[u] = upd[u]
  BY <1>1, <1>2
<1>3. CASE upd'[u] # upd[u]
  BY <1>1, <1>3, CompletionGoes DEF CompletionMoves
<1> QED BY <1>2, <1>3

\* What was credited stays finished, and a completion credits what it has finished.
LEMMA CreditStep ==
    ASSUME WorkflowInv, CompletionInv, CreditOnlyForFinishedWork, [Next]_vars
    PROVE  CreditOnlyForFinishedWork'
<1> SUFFICES ASSUME NEW c \in Cases, <<"completion", c>> \in effects'
             PROVE  /\ Status' = "completed" /\ assignment'[TheCase] = "COMPLETED"
                    /\ \E x \in Apt!VisitsOf(TheCase)' : appointment'[x] = "completed"
  BY DEF CreditOnlyForFinishedWork
<1>1. c = TheCase /\ TheCase \in Cases /\ <<"completion", c>> # <<"breach", main.target>>
  BY DEF Cases
<1>2. CASE <<"completion", TheCase>> \in effects
  <2>1. /\ Status = "completed" /\ assignment[TheCase] = "COMPLETED"
        /\ \E x \in Apt!VisitsOf(TheCase) : appointment[x] = "completed"
    BY <1>1, <1>2 DEF CreditOnlyForFinishedWork
  <2>2. PICK x \in Apt!VisitsOf(TheCase) : appointment[x] = "completed"
    BY <2>1
  <2>3. x \in Apt!VisitsOf(TheCase)' /\ appointment'[x] = "completed"
    BY <2>2, VisitsStay, VisitIsRow, RecordsStand
  <2> QED BY <1>1, <2>1, <2>3, EndIsFinal, RecordsStand DEF AsgP!WorkStands
<1>3. CASE <<"completion", TheCase>> \notin effects
  <2>1. PICK u \in Updates : /\ KindOf[u] = "complete" /\ upd[u].pc = "case"
                             /\ Status' = "completed"
    BY <1>1, <1>3, NewEffects
  <2>2. appointment[upd[u].target] = "completed" /\ assignment[TheCase] = "COMPLETED"
    BY <2>1 DEF CompletionInv
  <2>3. upd[u].target \in Apt!VisitsOf(TheCase)
    BY <2>1, ReportedVisit
  <2>4. /\ upd[u].target \in Apt!VisitsOf(TheCase)'
        /\ appointment'[upd[u].target] = "completed"
    BY <2>2, <2>3, VisitsStay, VisitIsRow, RecordsStand
  <2> QED BY <1>1, <2>1, <2>2, <2>4, RecordsStand DEF AsgP!WorkStands
<1> QED BY <1>2, <1>3

\* Credit is queued only when all three records agree that the work is finished: the
\* forward-only saga never reports success half way, and nothing takes back what it
\* reported.
THEOREM CreditIsEarned == Spec => []CreditOnlyForFinishedWork
<1>1. Init => CompletionInv /\ CreditOnlyForFinishedWork
  BY DEF Init, NewUpdate, CompletionInv, CreditOnlyForFinishedWork
<1>2. WorkflowInv /\ CompletionInv /\ CreditOnlyForFinishedWork /\ [Next]_vars
          => CompletionInv' /\ CreditOnlyForFinishedWork'
  BY CompletionStep, CreditStep
<1> QED BY <1>1, <1>2, WorkflowInvariant, PTL DEF Spec

-----------------------------------------------------------------------------
(* What a caller was told is so.                                             *)

\* An acceptance holds a slot, takes the offer and confirms the slot before it is
\* recorded; one that is refused has given its slot back.
AcceptanceMoves(u) ==
    \/ upd'[u].pc \in {"sent", "reserve", "accept", "release"}
    \/ /\ upd[u].pc = "sent" /\ upd'[u].pc = "done" /\ upd'[u].result # "SUCCESS"
       /\ UNCHANGED claim
    \/ /\ upd[u].pc = "reserve" /\ upd'[u].pc = "done" /\ upd'[u].result # "SUCCESS"
       /\ claim'[u] = Apt!NoClaim
    \/ upd'[u].pc = "confirm" /\ \E a \in AttemptIds : attempt'[a].acceptedBy = u
    \/ /\ upd[u].pc = "release" /\ upd'[u].pc = "done" /\ upd'[u].result # "SUCCESS"
       /\ claim'[u].status = "RELEASED"
    \/ upd[u].pc = "confirm" /\ upd'[u].pc = "record" /\ appointment'[u] # NONE
    \/ upd[u].pc = "record" /\ upd'[u].pc = "done" /\ upd'[u].result = "SUCCESS"

\* Its calls of the atoms.
LEMMA AcceptanceCalls ==
    ASSUME WorkflowInv, NEW u \in Updates, NEW lost \in BOOLEAN,
           KindOf[u] = "accept", upd'[u] # upd[u], AcceptActivity(u, lost)
    PROVE  AcceptanceMoves(u)
<1>0. /\ claim = [x \in ClaimIds |-> claim[x]] /\ u \in ClaimIds
      /\ appointment = [x \in ClaimIds |-> appointment[x]]
      /\ attempt = [a \in AttemptIds |-> attempt[a]]
      /\ claim[u] \in Apt!ClaimRow \cup {Apt!NoClaim}
  BY AssignmentFacts DEF WorkflowInv, Apt!AppointmentTypeOK, Asg!AssignmentTypeOK, ClaimIds
<1>1. CASE ReserveSlot(u, lost)
  <2> DEFINE past == upd[u].slot[1] <= now
             out == Apt!ReserveOutcome(u, Offered(u), upd[u].slot, past)
  <2>1. out \in {"HELD", "PAST", "CONFLICT"}
    BY DEF Apt!ReserveOutcome
  <2>2. CASE lost \/ out = "HELD"
    <3>1. Continue(u, "accept")
      BY <1>1, <2>2 DEF ReserveSlot, Lost, Then
    <3> QED BY <3>1, HandlerGoes DEF AcceptanceMoves
  <2>3. CASE ~lost /\ out # "HELD"
    <3>1. claim[u] = Apt!NoClaim
      BY <2>3 DEF Apt!ReserveOutcome
    <3>2. claim'[u] = Apt!NoClaim /\ upd[u].pc = "reserve"
      BY <1>1, <2>3, <3>1 DEF ReserveSlot, At, Apt!ReserveAppointmentSlot
    <3>3. Answer(u, "APPOINTMENT_CONFLICT") \/ Answer(u, "APPOINTMENT_NOT_FUTURE")
      BY <1>1, <2>1, <2>3 DEF ReserveSlot, Reject
    <3> QED BY <3>2, <3>3, HandlerGoes DEF AcceptanceMoves
  <2> QED BY <2>2, <2>3
<1>2. CASE AcceptAttempt(u, lost)
  <2> DEFINE a == upd[u].target
             out == Asg!AcceptOutcome(TheCase, a, Offered(u), u)
  <2>1. /\ a \in AttemptIds /\ attempt[a] \in Asg!AttemptRow
        /\ Asg!AcceptAllocationAttempt(TheCase, a, Offered(u), u, out)
    BY <1>2, OfferIsRow DEF AcceptAttempt, At, WorkflowInv, UpdateNames, Names
  <2>2. CASE ~lost /\ out \in {"ACCEPTED", "ALREADY_ACCEPTED"}
    <3>1. attempt'[a].acceptedBy = u
      <4>1. CASE out = "ACCEPTED"
        BY <1>0, <2>1, <4>1 DEF Asg!AcceptAllocationAttempt, Asg!AttemptRow
      <4>2. CASE out = "ALREADY_ACCEPTED"
        BY <2>1, <4>2 DEF Asg!AcceptAllocationAttempt, Asg!AcceptOutcome
      <4> QED BY <2>2, <4>1, <4>2
    <3>2. Continue(u, "confirm")
      BY <1>2, <2>2 DEF AcceptAttempt, Then
    <3> QED BY <2>1, <3>1, <3>2, HandlerGoes DEF AcceptanceMoves
  <2>3. CASE lost \/ out \notin {"ACCEPTED", "ALREADY_ACCEPTED"}
    <3>1. Continue(u, "reserve") \/ Continue(u, "release")
      BY <1>2, <2>3 DEF AcceptAttempt, Then
    <3> QED BY <3>1, HandlerGoes DEF AcceptanceMoves
  <2> QED BY <2>2, <2>3
<1>3. CASE ReleaseSlot(u, lost)
  <2>1. CASE lost \/ Apt!ReleaseOutcome(u) # "RELEASED"
    <3>1. Continue(u, "reserve")
      BY <1>3, <2>1 DEF ReleaseSlot, Then
    <3> QED BY <3>1, HandlerGoes DEF AcceptanceMoves
  <2>2. CASE ~lost /\ Apt!ReleaseOutcome(u) = "RELEASED"
    <3>1. claim[u] \in Apt!ClaimRow
      BY <1>0, <2>2 DEF Apt!ReleaseOutcome, Apt!NoClaim
    <3>2. claim'[u].status = "RELEASED" /\ upd[u].pc = "release"
      BY <1>0, <1>3, <2>2, <3>1 DEF ReleaseSlot, At, Apt!ReleaseAppointmentSlot, Apt!ClaimRow
    <3>3. Answer(u, "ATTEMPT_NOT_PENDING")
      BY <1>3, <2>2 DEF ReleaseSlot, Reject
    <3> QED BY <3>2, <3>3, HandlerGoes DEF AcceptanceMoves
  <2> QED BY <2>1, <2>2
<1>4. CASE ConfirmSlot(u, lost)
  <2>1. CASE lost \/ Apt!ConfirmOutcome(u) # "CONFIRMED"
    <3>1. Continue(u, "reserve")
      BY <1>4, <2>1 DEF ConfirmSlot, Then
    <3> QED BY <3>1, HandlerGoes DEF AcceptanceMoves
  <2>2. CASE ~lost /\ Apt!ConfirmOutcome(u) = "CONFIRMED"
    <3>1. appointment'[u] # NONE /\ upd[u].pc = "confirm"
      BY <1>0, <1>4, <2>2, NoneIsNull
         DEF ConfirmSlot, At, Apt!ConfirmAppointmentSlot, Apt!AppointmentStatus
    <3>2. Continue(u, "record")
      BY <1>4, <2>2 DEF ConfirmSlot, Then
    <3> QED BY <3>1, <3>2, HandlerGoes DEF AcceptanceMoves
  <2> QED BY <2>1, <2>2
<1>5. CASE RecordAcceptance(u, lost)
  <2>1. upd[u].pc = "record" /\ (Continue(u, "reserve") \/ Answer(u, "SUCCESS"))
    BY <1>5 DEF RecordAcceptance, At, Then
  <2> QED BY <2>1, HandlerGoes DEF AcceptanceMoves
<1> QED BY <1>1, <1>2, <1>3, <1>4, <1>5 DEF AcceptActivity

\* So an acceptance moves in every step as AcceptanceMoves says.
LEMMA AcceptanceGoes ==
    ASSUME WorkflowInv, [Next]_vars, NEW u \in Updates, KindOf[u] = "accept", upd'[u] # upd[u]
    PROVE  AcceptanceMoves(u)
<1>1. CASE HandlerStep(u)
  <2>1. Admit(u)
    BY <1>1 DEF HandlerStep, AwaitRecovery, AwaitGuards, ValidateCompletion, At
  <2>2. upd[u].pc = "sent" /\ UNCHANGED claim /\ AdmitAccept(u)
    BY <2>1 DEF Admit, AdmitOpen, AdmitManual, AdmitVisitReport, AdmitReplace,
       AdmitCancel, AdmitComplete, atomVars, appointmentVars
  <2> QED BY <2>2, HandlerGoes DEF AdmitAccept, AcceptanceMoves
<1>2. ASSUME NEW lost \in LostReplies, HandlerActivity(u, lost) PROVE AcceptanceMoves(u)
  BY <1>2, KindActivity, AcceptanceCalls, WorkflowAssumption
<1>3. CASE upd'[u].pc = "sent"
  BY <1>3 DEF AcceptanceMoves
<1> QED BY <1>1, <1>2, <1>3, KindSteps

\* A replacement has booked the new visit when it comes to the Case.
ReplacementMoves(u) ==
    \/ upd'[u].pc \in {"sent", "await", "visit"}
    \/ upd'[u].pc = "done" /\ upd'[u].result # "SUCCESS"
    \/ upd[u].pc = "visit" /\ upd'[u].pc = "case" /\ appointment'[u] # NONE
    \/ upd[u].pc = "case" /\ upd'[u].pc = "done"

\* It moves in every step as that says.
LEMMA ReplacementGoes ==
    ASSUME WorkflowInv, [Next]_vars, NEW u \in Updates, KindOf[u] = "replace", upd'[u] # upd[u]
    PROVE  ReplacementMoves(u)
<1>0. appointment = [x \in ClaimIds |-> appointment[x]] /\ u \in ClaimIds
  BY DEF WorkflowInv, Apt!AppointmentTypeOK, ClaimIds
<1>1. CASE HandlerStep(u)
  <2>1. AdmitReplace(u) \/ AwaitRecovery(u)
    BY <1>1 DEF HandlerStep, AwaitGuards, ValidateCompletion, At, Admit, AdmitOpen, AdmitManual,
       AdmitAccept, AdmitVisitReport, AdmitCancel, AdmitComplete
  <2>2. \/ Answer(u, "CASE_TERMINAL") \/ Answer(u, "NOT_FUTURE")
        \/ Continue(u, "await") \/ Enter(u, "visit")
    BY <2>1 DEF AdmitReplace, AwaitRecovery
  <2> QED BY <2>2, HandlerGoes DEF ReplacementMoves
<1>2. ASSUME NEW lost \in LostReplies, ReplaceVisit(u, lost) PROVE ReplacementMoves(u)
  <2> DEFINE out == Apt!ReplaceOutcome(upd[u].target, u, TheCase, upd[u].slot)
  <2>1. /\ upd[u].pc = "visit" /\ ~lost
        /\ Apt!ReplaceAppointmentSlot(upd[u].target, u, TheCase, upd[u].slot, out)
    BY <1>2, WorkflowAssumption DEF ReplaceVisit, At, Lost
  <2>2. CASE out \in {"REPLACED", "ALREADY_REPLACED"}
    <3>1. appointment'[u] # NONE
      <4>1. CASE out = "REPLACED"
        BY <1>0, <2>1, <4>1, NoneIsNull DEF Apt!ReplaceAppointmentSlot, Apt!AppointmentStatus
      <4>2. CASE out = "ALREADY_REPLACED"
        BY <2>1, <4>2 DEF Apt!ReplaceAppointmentSlot, Apt!ReplaceOutcome
      <4> QED BY <2>2, <4>1, <4>2
    <3>2. Continue(u, "case")
      BY <1>2, <2>1, <2>2 DEF ReplaceVisit, Then
    <3> QED BY <2>1, <3>1, <3>2, HandlerGoes DEF ReplacementMoves
  <2>3. CASE out \notin {"REPLACED", "ALREADY_REPLACED"}
    <3>1. Answer(u, out) /\ out # "SUCCESS"
      BY <1>2, <2>1, <2>3 DEF ReplaceVisit, Finish, Apt!ReplaceOutcome
    <3> QED BY <3>1, HandlerGoes DEF ReplacementMoves
  <2> QED BY <2>2, <2>3
<1>3. ASSUME NEW lost \in LostReplies, RecordReplacement(u, lost) PROVE ReplacementMoves(u)
  <2>1. upd[u].pc = "case" /\ \E result : Answer(u, result)
    BY <1>3, WorkflowAssumption DEF RecordReplacement, At, Lost, Finish
  <2> QED BY <2>1, HandlerGoes DEF ReplacementMoves
<1>4. ASSUME NEW lost \in LostReplies, HandlerActivity(u, lost) PROVE ReplacementMoves(u)
  BY <1>2, <1>3, <1>4, KindActivity
<1>5. CASE upd'[u].pc = "sent"
  BY <1>5 DEF ReplacementMoves
<1> QED BY <1>1, <1>4, <1>5, KindSteps

\* A cancellation waits for what is under way, and gives up or cancels the visit, the
\* Assignment and the Case, in this order.
CancellationMoves(u) ==
    \/ upd'[u].pc = "sent"
    \/ upd[u].pc = "sent" /\ upd'[u].pc = "done" /\ upd'[u].result # "SUCCESS"
    \/ upd[u].pc = "sent" /\ upd'[u].pc = "await" /\ Drains(u)
    \/ upd[u].pc = "await" /\ upd'[u].pc = "visit" /\ AwaitGuards(u)
    \/ upd[u].pc = "visit" /\ upd'[u].pc = "work" /\ CancelVisit(u, FALSE)
    \/ upd[u].pc = "work" /\ upd'[u].pc = "case" /\ assignment'[TheCase] \in {NONE, "CANCELLED"}
    \/ upd[u].pc = "visit" /\ upd'[u].pc = "done" /\ upd'[u].result # "SUCCESS"
    \/ /\ upd[u].pc = "work" /\ upd'[u].pc = "done" /\ upd'[u].result # "SUCCESS"
       /\ assignment[TheCase] \in {"IN_PROGRESS", "COMPLETED"}
    \/ /\ upd[u].pc = "case" /\ upd'[u].pc = "done" /\ upd'[u].result # "SUCCESS"
       /\ Status \in {"in_progress", "completed"}
    \/ upd[u].pc = "case" /\ upd'[u].pc = "done" /\ Status' = "cancelled"

\* It moves in every step as that says.
LEMMA CancellationGoes ==
    ASSUME WorkflowInv, [Next]_vars, NEW u \in Updates, KindOf[u] = "cancel", upd'[u] # upd[u]
    PROVE  CancellationMoves(u)
<1>0. /\ assignment = [c \in Cases |-> assignment[c]] /\ TheCase \in Cases
      /\ caseStatus = [c \in Cases |-> caseStatus[c]]
  BY AssignmentFacts DEF WorkflowInv, Asg!AssignmentTypeOK, Cas!CaseTypeOK, Cases
<1>1. CASE Admit(u)
  <2>1. upd[u].pc = "sent" /\ AdmitCancel(u)
    BY <1>1 DEF Admit, AdmitOpen, AdmitManual, AdmitAccept, AdmitVisitReport, AdmitReplace,
       AdmitComplete
  <2>2. CASE wf.cancelling
    BY <2>1, <2>2, HandlerGoes DEF AdmitCancel, CancellationMoves
  <2>3. CASE ~wf.cancelling
    <3>1. Drains(u) /\ upd'[u] = [upd[u] EXCEPT !.pc = "await"]
      BY <1>1, <2>1, <2>3 DEF Drains, AdmitCancel
    <3>2. upd'[u].pc = "await"
      BY <3>1 DEF WorkflowInv, Shape, UpdateShape, IsUpdate
    <3> QED BY <2>1, <3>1, <3>2 DEF CancellationMoves
  <2> QED BY <2>2, <2>3
<1>2. CASE HandlerStep(u) /\ ~Admit(u)
  <2>1. AwaitGuards(u) /\ upd[u].pc = "await" /\ Continue(u, "visit")
    BY <1>2 DEF HandlerStep, AwaitGuards, AwaitRecovery, ValidateCompletion, At
  <2> QED BY <2>1, HandlerGoes DEF CancellationMoves
<1>3. ASSUME NEW lost \in LostReplies, CancelVisit(u, lost) PROVE CancellationMoves(u)
  <2>1. /\ upd[u].pc = "visit"
        /\ \/ Answer(u, "NOT_CANCELLABLE")
           \/ Continue(u, "work") /\ CancelVisit(u, FALSE)
    <3>1. lost = FALSE
      BY <1>3, WorkflowAssumption DEF CancelVisit, Lost
    <3>2. CancelVisit(u, FALSE)
      BY <1>3, <3>1
    <3>3. \/ Answer(u, "NOT_CANCELLABLE")
          \/ Continue(u, "work")
      BY <3>2 DEF CancelVisit, Then, CancellationRejected
    <3> QED BY <3>2, <3>3 DEF CancelVisit, At
  <2>2. CASE Answer(u, "NOT_CANCELLABLE")
    <3>1. upd'[u].pc = "done" /\ upd'[u].result = "NOT_CANCELLABLE"
      BY <2>2, HandlerGoes
    <3> QED BY <2>1, <3>1 DEF CancellationMoves
  <2>3. CASE Continue(u, "work") /\ CancelVisit(u, FALSE)
    <3>1. upd'[u].pc = "work"
      BY <2>3, HandlerGoes
    <3> QED BY <2>1, <2>3, <3>1 DEF CancellationMoves
  <2> QED BY <2>1, <2>2, <2>3
<1>4. ASSUME NEW lost \in LostReplies, CancelAssignment(u, lost) PROVE CancellationMoves(u)
  <2> DEFINE out == Asg!CancelAssignmentOutcome(TheCase)
  <2>1. /\ upd[u].pc = "work" /\ ~lost /\ Asg!CancelAssignmentForCase(TheCase, out)
    BY <1>4, WorkflowAssumption DEF CancelAssignment, At, Lost
  <2>2. CASE out \in {"IN_PROGRESS", "NOT_CANCELLABLE"}
    <3>1. Answer(u, "NOT_CANCELLABLE")
      BY <1>4, <2>1, <2>2 DEF CancelAssignment, CancellationRejected
    <3>2. assignment[TheCase] \in {"IN_PROGRESS", "COMPLETED"}
      BY <2>2 DEF Asg!CancelAssignmentOutcome
    <3> QED BY <2>1, <3>1, <3>2, HandlerGoes DEF CancellationMoves
  <2>3. CASE out \notin {"IN_PROGRESS", "NOT_CANCELLABLE"}
    <3>1. Continue(u, "case")
      BY <1>4, <2>1, <2>3 DEF CancelAssignment, Then
    <3>2. assignment'[TheCase] \in {NONE, "CANCELLED"}
      BY <1>0, <2>1, <2>3 DEF Asg!CancelAssignmentForCase, Asg!CancelAssignmentOutcome
    <3> QED BY <2>1, <3>1, <3>2, HandlerGoes DEF CancellationMoves
  <2> QED BY <2>2, <2>3
<1>5. ASSUME NEW lost \in LostReplies, CancelCase(u, lost) PROVE CancellationMoves(u)
  <2> DEFINE out == Cas!CancelCaseOutcome(TheCase)
  <2>1. upd[u].pc = "case" /\ ~lost /\ Cas!CancelCase(TheCase, u, out)
    BY <1>5, WorkflowAssumption DEF CancelCase, At, Lost
  <2>2. CASE out = "NOT_CANCELLABLE"
    <3>1. Answer(u, "NOT_CANCELLABLE")
      BY <1>5, <2>1, <2>2 DEF CancelCase, CancellationRejected
    <3>2. Status \in {"in_progress", "completed"}
      BY <2>2 DEF Cas!CancelCaseOutcome, Status
    <3> QED BY <2>1, <3>1, <3>2, HandlerGoes DEF CancellationMoves
  <2>3. CASE out # "NOT_CANCELLABLE"
    <3>1. Answer(u, "SUCCESS")
      BY <1>5, <2>1, <2>3 DEF CancelCase
    <3>2. Status' = "cancelled"
      BY <1>0, <2>1, <2>3 DEF Cas!CancelCase, Cas!CancelCaseOutcome, Status
    <3> QED BY <2>1, <3>1, <3>2, HandlerGoes DEF CancellationMoves
  <2> QED BY <2>2, <2>3
<1>6. ASSUME NEW lost \in LostReplies, HandlerActivity(u, lost) PROVE CancellationMoves(u)
  BY <1>3, <1>4, <1>5, <1>6, KindActivity DEF CancelActivity
<1>7. CASE upd'[u].pc = "sent"
  BY <1>7 DEF CancellationMoves
<1> QED BY <1>1, <1>2, <1>6, <1>7, KindSteps

\* An acceptance past its offer is on record there, and past its slot has a visit; a
\* replacement past the visit has booked the new one.
BookedInv ==
    \A u \in Updates :
        /\ KindOf[u] = "accept" =>
              /\ upd[u].pc \in {"confirm", "record"} =>
                    \E a \in AttemptIds : attempt[a].acceptedBy = u
              /\ upd[u].pc = "record" => appointment[u] # NONE
        /\ KindOf[u] = "replace" => (upd[u].pc = "case" => appointment[u] # NONE)

\* No step takes an acceptance or a visit off the record.
LEMMA BookingsStay ==
    ASSUME WorkflowInv, [Next]_vars, NEW u \in Updates
    PROVE  /\ (\E a \in AttemptIds : attempt[a].acceptedBy = u)
                  => \E a \in AttemptIds : attempt'[a].acceptedBy = u
           /\ u \in ClaimIds /\ appointment[u] # NONE => appointment'[u] # NONE
<1>1. u # NONE
  BY NoneIsNull
<1>2. ASSUME NEW a \in AttemptIds, attempt[a].acceptedBy = u
      PROVE  attempt'[a].acceptedBy = u
  BY <1>1, <1>2, RecordsStand DEF AsgP!AnswerStands
<1> QED BY <1>2, AppointmentStands DEF AptP!Stays

\* BookedInv is kept.
LEMMA BookedStep == ASSUME WorkflowInv, BookedInv, [Next]_vars PROVE BookedInv'
<1>1. ASSUME NEW u \in Updates, KindOf[u] = "accept"
      PROVE  /\ upd'[u].pc \in {"confirm", "record"} =>
                    \E a \in AttemptIds : attempt'[a].acceptedBy = u
             /\ upd'[u].pc = "record" => appointment'[u] # NONE
  <2>1. u \in ClaimIds
    BY <1>1 DEF ClaimIds
  <2>2. CASE upd'[u] = upd[u]
    BY <1>1, <2>1, <2>2, BookingsStay DEF BookedInv
  <2>3. CASE upd'[u] # upd[u]
    BY <1>1, <2>1, <2>3, AcceptanceGoes, BookingsStay DEF BookedInv, AcceptanceMoves
  <2> QED BY <2>2, <2>3
<1>2. ASSUME NEW u \in Updates, KindOf[u] = "replace"
      PROVE  upd'[u].pc = "case" => appointment'[u] # NONE
  <2>1. u \in ClaimIds
    BY <1>2 DEF ClaimIds
  <2>2. CASE upd'[u] = upd[u]
    BY <1>2, <2>1, <2>2, BookingsStay DEF BookedInv
  <2>3. CASE upd'[u] # upd[u]
    BY <1>2, <2>1, <2>3, ReplacementGoes, BookingsStay DEF BookedInv, ReplacementMoves
  <2> QED BY <2>2, <2>3
<1> QED BY <1>1, <1>2 DEF BookedInv

\* Whose acceptance is over and holds no time gets none later: a claim becomes HELD or
\* ACTIVE only by the operation that made it, while that operation is under way.
LEMMA TimeIsGivenUp ==
    ASSUME WorkflowInv, [Next]_vars, NEW u \in Updates, KindOf[u] = "accept",
           upd[u].pc = "done", claim[u].status \notin {"HELD", "ACTIVE"}
    PROVE  claim'[u].status \notin {"HELD", "ACTIVE"}
<1>0. /\ claim = [x \in ClaimIds |-> claim[x]] /\ u \in ClaimIds
      /\ \A x \in ClaimIds : claim[x] \in Apt!ClaimRow \cup {Apt!NoClaim}
  BY DEF WorkflowInv, Apt!AppointmentTypeOK, ClaimIds
<1>1. ASSUME NEW v \in Updates, NEW lost, ReserveSlot(v, lost) \/ ConfirmSlot(v, lost)
      PROVE  claim'[u] = claim[u]
  <2>1. v # u
    BY <1>1 DEF ReserveSlot, ConfirmSlot, At
  <2>2. ReserveSlot(v, lost) => claim'[u] = claim[u]
    BY <1>0, <2>1 DEF ReserveSlot, Apt!ReserveAppointmentSlot
  <2>3. ConfirmSlot(v, lost) => claim'[u] = claim[u]
    BY <1>0, <2>1 DEF ConfirmSlot, Apt!ConfirmAppointmentSlot
  <2> QED BY <1>1, <2>2, <2>3
<1>2. ASSUME NEW x \in ClaimIds, claim' = [claim EXCEPT ![x].status = "RELEASED"]
      PROVE  claim'[u].status \notin {"HELD", "ACTIVE"}
  <2>1. CASE x = u
    <3>1. claim'[u] = [claim[u] EXCEPT !.status = "RELEASED"]
      BY <1>0, <1>2, <2>1
    <3>2. claim'[u].status = "RELEASED"
      BY <1>0, <3>1 DEF Apt!ClaimRow, Apt!NoClaim
    <3> QED BY <3>2
  <2>2. CASE x # u
    BY <1>0, <1>2, <2>2
  <2> QED BY <2>1, <2>2
<1>3. ASSUME NEW v \in Updates, NEW lost, ReleaseSlot(v, lost) \/ CancelVisit(v, lost)
      PROVE  claim'[u].status \notin {"HELD", "ACTIVE"}
  <2>1. ReleaseSlot(v, lost) => v \in ClaimIds
    BY DEF ReleaseSlot, At, ClaimIds
  <2>2. \/ claim' = claim
        \/ \E x \in ClaimIds : claim' = [claim EXCEPT ![x].status = "RELEASED"]
    BY <1>3, <2>1 DEF ReleaseSlot, CancelVisit, Apt!ReleaseAppointmentSlot,
       Apt!CancelScheduledAppointment, Apt!VisitsOf
  <2> QED BY <1>2, <2>2
<1>4. ASSUME NEW v \in Updates, NEW lost, ReplaceVisit(v, lost)
      PROVE  claim'[u].status \notin {"HELD", "ACTIVE"}
  <2> DEFINE x == upd[v].target
             out == Apt!ReplaceOutcome(x, v, TheCase, upd[v].slot)
  <2>1. KindOf[v] = "replace" /\ upd[v].pc = "visit" /\ v # u /\ v \in ClaimIds
    BY <1>4 DEF ReplaceVisit, At, ClaimIds
  <2>2. x \in ClaimIds
    BY <2>1, ReportedVisit
  <2>3. Apt!ReplaceAppointmentSlot(x, v, TheCase, upd[v].slot, out)
    BY <1>4 DEF ReplaceVisit
  <2>4. CASE out # "REPLACED"
    BY <2>3, <2>4 DEF Apt!ReplaceAppointmentSlot
  <2>5. CASE out = "REPLACED"
    <3>1. claim'[u] = IF u = x THEN [claim[u] EXCEPT !.status = "RELEASED"] ELSE claim[u]
      BY <1>0, <2>1, <2>2, <2>3, <2>5 DEF Apt!ReplaceAppointmentSlot
    <3>2. u = x => claim'[u].status = "RELEASED"
      BY <1>0, <3>1 DEF Apt!ClaimRow, Apt!NoClaim
    <3> QED BY <3>1, <3>2
  <2> QED BY <2>4, <2>5
<1>5. ASSUME NEW v, NEW lost, \/ StartVisit(v, lost) \/ FailVisit(v, lost)
                              \/ CompleteVisit(v, lost) \/ MissVisit(lost)
      PROVE  UNCHANGED claim
  BY <1>5 DEF StartVisit, FailVisit, CompleteVisit, MissVisit, Apt!StartWorkAppointment,
     Apt!ReportNoAccessAppointment, Apt!CompleteAppointment, Apt!MarkAppointmentMissed,
     Apt!LeaveScheduled
<1>6. CASE AppointmentCall
  BY <1>1, <1>3, <1>4, <1>5, <1>6 DEF AppointmentCall
<1>7. CASE ~AppointmentCall
  <2>1. UNCHANGED claim
    BY <1>7, StepKinds, CallFrames, WorkflowFrame
       DEF OtherCaseAllocates, vars, atomVars, appointmentVars
  <2> QED BY <2>1
<1> QED BY <1>6, <1>7

\* The answer to an Update of each kind, as AnswersAreTrue reads it.
AcceptanceTrue(u) ==
    (KindOf[u] = "accept" /\ upd[u].pc = "done") =>
        IF upd[u].result = "SUCCESS"
        THEN appointment[u] # NONE /\ \E a \in AttemptIds : attempt[a].acceptedBy = u
        ELSE claim[u].status \notin {"HELD", "ACTIVE"}
ReplacementTrue(u) ==
    (KindOf[u] = "replace" /\ upd[u].pc = "done" /\ upd[u].result = "SUCCESS") =>
        appointment[u] # NONE
EndTrue(u) ==
    (upd[u].pc = "done" /\ upd[u].result = "SUCCESS") =>
        /\ KindOf[u] = "cancel" => Status = "cancelled"
        /\ KindOf[u] = "complete" => Status = "completed"

AnswersInv == \A u \in Updates : AcceptanceTrue(u) /\ ReplacementTrue(u) /\ EndTrue(u)

\* An Update that is answered moves no more.
LEMMA DoneStays ==
    ASSUME WorkflowInv, [Next]_vars, NEW u \in Updates, upd[u].pc = "done"
    PROVE  upd'[u] = upd[u]
BY EveryStepMoves DEF UpdatesMove, Sends, Proceeds, Answers

\* AnswersInv is kept.
LEMMA AnswersStep ==
    ASSUME WorkflowInv, BookedInv, AnswersInv, [Next]_vars
    PROVE  AnswersInv'
<1>1. ASSUME NEW u \in Updates PROVE AcceptanceTrue(u)'
  <2> SUFFICES ASSUME KindOf[u] = "accept", upd'[u].pc = "done"
               PROVE  IF upd'[u].result = "SUCCESS"
                      THEN /\ appointment'[u] # NONE
                           /\ \E a \in AttemptIds : attempt'[a].acceptedBy = u
                      ELSE claim'[u].status \notin {"HELD", "ACTIVE"}
    BY DEF AcceptanceTrue
  <2>1. u \in ClaimIds
    BY DEF ClaimIds
  <2>2. CASE upd'[u] = upd[u]
    BY <2>1, <2>2, BookingsStay, TimeIsGivenUp DEF AnswersInv, AcceptanceTrue
  <2>3. CASE upd'[u] # upd[u]
    <3>1. AcceptanceMoves(u)
      BY <2>3, AcceptanceGoes
    <3>2. CASE upd[u].pc = "record"
      BY <2>1, <3>1, <3>2, BookingsStay DEF BookedInv, AcceptanceMoves
    <3>3. CASE upd[u].pc = "sent"
      <4>1. claim'[u] = Apt!NoClaim /\ upd'[u].result # "SUCCESS"
        BY <2>1, <3>1, <3>3 DEF AcceptanceMoves, WorkflowInv, NothingBefore
      <4> QED BY <4>1 DEF Apt!NoClaim
    <3>4. CASE upd[u].pc \notin {"record", "sent"}
      <4>1. /\ upd'[u].result # "SUCCESS"
            /\ claim'[u] = Apt!NoClaim \/ claim'[u].status = "RELEASED"
        BY <3>1, <3>4 DEF AcceptanceMoves
      <4> QED BY <4>1 DEF Apt!NoClaim
    <3> QED BY <3>2, <3>3, <3>4
  <2> QED BY <2>2, <2>3
<1>2. ASSUME NEW u \in Updates PROVE ReplacementTrue(u)'
  <2> SUFFICES ASSUME KindOf[u] = "replace", upd'[u].pc = "done", upd'[u].result = "SUCCESS"
               PROVE  appointment'[u] # NONE
    BY DEF ReplacementTrue
  <2>1. u \in ClaimIds
    BY DEF ClaimIds
  <2>2. CASE upd'[u] = upd[u]
    BY <2>1, <2>2, BookingsStay DEF AnswersInv, ReplacementTrue
  <2>3. CASE upd'[u] # upd[u]
    BY <2>1, <2>3, ReplacementGoes, BookingsStay DEF BookedInv, ReplacementMoves
  <2> QED BY <2>2, <2>3
<1>3. ASSUME NEW u \in Updates PROVE EndTrue(u)'
  <2> SUFFICES ASSUME upd'[u].pc = "done", upd'[u].result = "SUCCESS"
               PROVE  /\ KindOf[u] = "cancel" => Status' = "cancelled"
                      /\ KindOf[u] = "complete" => Status' = "completed"
    BY DEF EndTrue
  <2>1. CASE upd'[u] = upd[u]
    BY <2>1, EndIsFinal DEF AnswersInv, EndTrue
  <2>2. CASE upd'[u] # upd[u]
    BY <2>2, CancellationGoes, CompletionGoes DEF CancellationMoves, CompletionMoves
  <2> QED BY <2>1, <2>2
<1> QED BY <1>1, <1>2, <1>3 DEF AnswersInv

\* What the caller was told is so: SUCCESS is answered for what is on record, and an
\* acceptance that was refused holds no time of the Contractor, then and for ever.
THEOREM AnswersAreKept == Spec => []AnswersAreTrue
<1>1. Init => BookedInv /\ AnswersInv
  BY DEF Init, NewUpdate, BookedInv, AnswersInv, AcceptanceTrue, ReplacementTrue, EndTrue
<1>2. WorkflowInv /\ BookedInv /\ AnswersInv /\ [Next]_vars => BookedInv' /\ AnswersInv'
  BY BookedStep, AnswersStep
<1>3. AnswersInv => AnswersAreTrue
  BY DEF AnswersInv, AcceptanceTrue, ReplacementTrue, EndTrue, AnswersAreTrue
<1> QED BY <1>1, <1>2, <1>3, WorkflowInvariant, PTL DEF Spec

-----------------------------------------------------------------------------
(* A completion that stops half way is noticed.                              *)

\* The main loop neither starts nor ends a cancellation, and takes up no visit.
LEMMA LoopSpares ==
    ASSUME WorkflowInv, LoopStep \/ \E lost \in BOOLEAN : LoopActivity(lost)
    PROVE  wf'.cancelling = wf.cancelling /\ wf'.visit \in {wf.visit, NONE}
<1> DEFINE Spares(w) == w.cancelling = wf.cancelling /\ w.visit \in {wf.visit, NONE}
<1>0. wf \in RunState
  BY DEF WorkflowInv, Shape
<1>1. /\ Spares(Settled)
      /\ \A a : Spares(Allocated(a))
      /\ \A t : Spares([wf EXCEPT !.retryAt = t])
  BY <1>0 DEF Settled, Allocated, RunState
<1>2. ASSUME NEW w, NEW r, AllocationOver(w, r), Spares(w)
      PROVE  Spares(wf')
  BY <1>2 DEF AllocationOver
<1>3. CASE Top \/ Close \/ CancellationSettled \/ Wake \/ GateAccept \/ GateVisit \/ Due
  BY <1>0, <1>3 DEF Top, Close, CancellationSettled, Wake, GateAccept, GateVisit, Due, RunState
<1>4. CASE BreachCheck
  <2>1. wf' = wf \/ wf' = [wf EXCEPT !.queue = Append(@, NONE)]
    BY <1>4 DEF BreachCheck
  <2> QED BY <1>0, <2>1 DEF RunState
<1>5. CASE Shift
  <2>1. wf' = wf \/ wf' = [wf EXCEPT !.queue = Tail(@)]
    BY <1>5 DEF Shift
  <2> QED BY <1>0, <2>1 DEF RunState
<1>6. CASE CheckTerminal \/ FetchSnapshot
  BY <1>1, <1>2, <1>6 DEF CheckTerminal, FetchSnapshot
<1>7. ExpiryOver => Spares(wf')
  BY <1>0 DEF ExpiryOver, RunState
<1>8. ASSUME NEW lost, MissVisit(lost) \/ MissFlag(lost)
      PROVE  Spares(wf')
  BY <1>7, <1>8 DEF MissVisit, MissFlag
<1>9. ASSUME NEW lost, Breach(lost) PROVE Spares(wf')
  <2>1. main.target \in AttemptIds /\ attempt[main.target] \in Asg!AttemptRow
    BY <1>9, OfferIsRow DEF Breach, Asg!BreachAllocationAttempt, WorkflowInv, Shape, LoopShape
  <2>2. Asg!BreachOutcome(main.target) \in {"BREACHED", "ALREADY_BREACHED", "ACCEPTED", "WITHDRAWN"}
    BY <2>1 DEF Asg!BreachOutcome, Asg!AttemptRow, Asg!AttemptStatus
  <2>3. wf' = wf \/ wf' = [wf EXCEPT !.attempt = NONE]
    BY <1>9, <2>2 DEF Breach
  <2> QED BY <1>0, <2>3 DEF RunState
<1>10. ASSUME NEW lost, BreachCase(lost) PROVE Spares(wf')
  <2>1. \/ wf' = wf
        \/ \E b \in BOOLEAN :
              \/ wf' = [wf EXCEPT !.attempt = NONE, !.active = b, !.retryAt = NONE,
                                  !.queue = Append(@, NONE)]
              \/ wf' = [wf EXCEPT !.attempt = NONE, !.active = b, !.retryAt = NONE, !.queue = @]
    BY <1>10 DEF BreachCase
  <2> QED BY <1>0, <2>1 DEF RunState
<1>11. ASSUME NEW out \in {"COMMITTED", "ALREADY_COMMITTED", "STALE_EPOCH",
                          "ACTIVE_ATTEMPT_EXISTS", "OVERRIDE_REASON_REQUIRED",
                          "REPLACEMENT_ATTEMPT_NOT_PENDING"},
              OnCommitReply(out)
       PROVE  Spares(wf')
  <2>1. CASE out \in {"COMMITTED", "ALREADY_COMMITTED"}
    <3>1. wf' = [wf EXCEPT !.attempted = @ \cup {main.k}]
      BY <1>11, <2>1 DEF OnCommitReply
    <3> QED BY <1>0, <3>1 DEF RunState
  <2>2. CASE out = "STALE_EPOCH"
    BY <1>11, <2>2 DEF OnCommitReply
  <2>3. CASE out = "ACTIVE_ATTEMPT_EXISTS"
    <3>1. \/ AllocationOver(Settled, out)
          \/ AllocationOver(Allocated(CHOOSE a \in Asg!Pending(TheCase) : TRUE), out)
      BY <1>11, <2>3 DEF OnCommitReply
    <3> QED BY <1>1, <1>2, <3>1
  <2>4. CASE out \in {"OVERRIDE_REASON_REQUIRED", "REPLACEMENT_ATTEMPT_NOT_PENDING"}
    <3>1. AllocationOver(wf, out)
      BY <1>11, <2>4 DEF OnCommitReply
    <3> QED BY <1>2, <3>1
  <2> QED BY <2>1, <2>2, <2>3, <2>4
<1>12. ASSUME NEW lost, CommitRequest(lost) \/ CommitRead(lost) \/ CommitWrites(lost)
       PROVE  Spares(wf')
  BY <1>11, <1>12, CommitReplies DEF CommitRequest, CommitRead, CommitWrites
<1>13. ASSUME NEW lost, MarkAssigned(lost) PROVE Spares(wf')
  <2>1. \/ wf' = wf
        \/ \E r : AllocationOver(Allocated(AllocationOp), r) \/ AllocationOver(Settled, r)
    BY <1>13 DEF MarkAssigned
  <2> QED BY <1>1, <1>2, <2>1
<1>14. ASSUME NEW lost, FlagAllocation(lost) PROVE Spares(wf')
  <2>1. \/ wf' = wf
        \/ \E t : AllocationOver([wf EXCEPT !.retryAt = t], "ALLOCATION_FAILED")
    BY <1>14 DEF FlagAllocation
  <2> QED BY <1>1, <1>2, <2>1
<1> QED BY <1>3, <1>4, <1>5, <1>6, <1>8, <1>9, <1>10, <1>12, <1>13, <1>14
        DEF LoopStep, LoopActivity

\* Only the cancellation itself ends it, by being rejected.
LEMMA HandlerSparesCancelling ==
    ASSUME WorkflowInv, NEW u \in Updates, NEW lost \in BOOLEAN,
           HandlerStep(u) \/ HandlerActivity(u, lost), wf.cancelling, ~wf'.cancelling
    PROVE  /\ KindOf[u] = "cancel" /\ upd[u].pc \in {"visit", "work", "case"}
           /\ upd'[u].pc = "done"
<1>0. wf \in RunState
  BY DEF WorkflowInv, Shape
<1>1. \A w \in RunState : Bumped(w).cancelling = w.cancelling
  BY DEF Bumped, RunState
<1>2. ASSUME NEW r, NEW s, Finish(u, r, s) PROVE FALSE
  <2>1. [wf EXCEPT !.visit = NONE] \in RunState
    BY <1>0 DEF RunState
  <2>2. [wf EXCEPT !.visit = NONE].cancelling = wf.cancelling
    BY <1>0 DEF RunState
  <2>3. wf' = wf \/ wf' = Bumped([wf EXCEPT !.visit = NONE])
    BY <1>2 DEF Finish
  <2> QED BY <1>1, <2>1, <2>2, <2>3
<1>3. ~HandlerStep(u)
  <2>1. ~(AwaitRecovery(u) \/ AwaitGuards(u) \/ ValidateCompletion(u))
    BY DEF AwaitRecovery, AwaitGuards, ValidateCompletion, Then, Reject
  <2>2. ~AdmitManual(u)
    <3>1. AdmitManual(u) => \/ wf' = [wf EXCEPT !.known = TRUE]
                            \/ wf' = [wf EXCEPT !.known = TRUE, !.queue = Append(@, u)]
      BY DEF AdmitManual
    <3> QED BY <1>0, <3>1 DEF RunState
  <2>3. ~(\/ AdmitOpen(u) \/ AdmitAccept(u) \/ AdmitVisitReport(u) \/ AdmitReplace(u)
          \/ AdmitComplete(u) \/ AdmitCancel(u))
    BY DEF AdmitOpen, AdmitAccept, AdmitVisitReport, AdmitReplace, AdmitComplete, AdmitCancel
  <2> QED BY <2>1, <2>2, <2>3 DEF HandlerStep, Admit
<1>4. ~OpenCase(u, lost)
  <2>1. OpenCase(u, lost) => \/ wf' = wf
                             \/ wf' = [wf EXCEPT !.known = TRUE, !.queue = Append(@, NONE)]
    BY DEF OpenCase, Lost
  <2> QED BY <1>0, <2>1 DEF RunState
<1>5. ~AcceptActivity(u, lost)
  <2>1. ~(ReserveSlot(u, lost) \/ AcceptAttempt(u, lost) \/ ReleaseSlot(u, lost)
          \/ ConfirmSlot(u, lost))
    BY DEF ReserveSlot, AcceptAttempt, ReleaseSlot, ConfirmSlot, Apt!ReserveOutcome, Lost, Then, Reject
  <2>2. ~RecordAcceptance(u, lost)
    <3>1. RecordAcceptance(u, lost) =>
            wf' = wf \/ wf' = Bumped([wf EXCEPT !.accepted = TRUE, !.attempt = NONE, !.visit = u])
      BY DEF RecordAcceptance, Then
    <3>2. RecordAcceptance(u, lost) =>
             [wf EXCEPT !.accepted = TRUE, !.attempt = NONE, !.visit = u] \in RunState
      BY <1>0 DEF RecordAcceptance, At, ClaimIds, RunState
    <3>3. [wf EXCEPT !.accepted = TRUE, !.attempt = NONE, !.visit = u].cancelling = wf.cancelling
      BY <1>0 DEF RunState
    <3> QED BY <1>1, <3>1, <3>2, <3>3
  <2> QED BY <2>1, <2>2 DEF AcceptActivity
<1>6. ~(StartActivity(u, lost) \/ FailVisit(u, lost) \/ ParkCase(u, lost) \/ ReplaceVisit(u, lost))
  BY <1>2 DEF StartActivity, StartVisit, StartAssignment, StartCase, FlagStart,
     FailVisit, ParkCase, ReplaceVisit, Lost, Then
<1>7. ~RecordReplacement(u, lost)
  <2>1. RecordReplacement(u, lost) => \/ wf' = wf \/ wf' = Bumped([wf EXCEPT !.visit = u])
                                      \/ \E r, s : Finish(u, r, s)
    BY DEF RecordReplacement, Lost
  <2>2. RecordReplacement(u, lost) => [wf EXCEPT !.visit = u] \in RunState
    BY <1>0 DEF RecordReplacement, At, ClaimIds, RunState
  <2>3. [wf EXCEPT !.visit = u].cancelling = wf.cancelling
    BY <1>0 DEF RunState
  <2> QED BY <1>1, <1>2, <2>1, <2>2, <2>3
<1>8. ~CompleteActivity(u, lost)
  <2>1. CompleteActivity(u, lost) => wf' = wf \/ wf' = [wf EXCEPT !.closing = TRUE]
    BY DEF CompleteActivity, CompleteVisit, CompleteAssignment, CompleteCase, FlagCompletion,
       Lost, Then, Reject
  <2> QED BY <1>0, <2>1 DEF RunState
<1>9. CASE CancelActivity(u, lost)
  <2>1. KindOf[u] = "cancel" /\ upd[u].pc \in {"visit", "work", "case"}
    BY <1>9 DEF CancelActivity, CancelVisit, CancelAssignment, CancelCase, At
  <2>2. \/ wf' = wf \/ CancellationRejected(u)
        \/ wf' = Bumped([wf EXCEPT !.attempt = NONE, !.visit = NONE, !.active = TRUE,
                                   !.retryAt = NONE, !.closing = TRUE])
    BY <1>9 DEF CancelActivity, CancelVisit, CancelAssignment, CancelCase, Lost, Then
  <2>3. /\ [wf EXCEPT !.attempt = NONE, !.visit = NONE, !.active = TRUE,
                      !.retryAt = NONE, !.closing = TRUE] \in RunState
        /\ [wf EXCEPT !.attempt = NONE, !.visit = NONE, !.active = TRUE,
                      !.retryAt = NONE, !.closing = TRUE].cancelling = wf.cancelling
    BY <1>0 DEF RunState
  <2>4. Answer(u, "NOT_CANCELLABLE")
    BY <1>1, <2>2, <2>3 DEF CancellationRejected
  <2> QED BY <2>1, <2>4, HandlerGoes
<1> QED BY <1>3, <1>4, <1>5, <1>6, <1>7, <1>8, <1>9 DEF HandlerActivity, VisitActivity

\* So a cancellation under way ends only when it is rejected or the run restarts.
LEMMA CancellingStays ==
    ASSUME WorkflowInv, [Next]_vars, wf.cancelling, ~wf'.cancelling
    PROVE  \/ main.pc = "closed"
           \/ \E u \in Updates : /\ KindOf[u] = "cancel"
                                 /\ upd[u].pc \in {"visit", "work", "case"}
                                 /\ upd'[u].pc = "done"
<1>1. ~LoopStep /\ ~ \E lost \in LostReplies : LoopActivity(lost)
  BY LoopSpares, WorkflowAssumption
<1>2. ~(CommitFails \/ Tick \/ OtherCaseAllocates \/ (\E u \in Updates : Send(u)) \/ UNCHANGED vars)
  BY DEF CommitFails, Tick, OtherCaseAllocates, Send, vars, workflowVars
<1>3. StartRun => main.pc = "closed"
  BY DEF StartRun
<1>4. ASSUME NEW u \in Updates, HandlerStep(u) \/ \E lost \in LostReplies : HandlerActivity(u, lost)
      PROVE  /\ KindOf[u] = "cancel" /\ upd[u].pc \in {"visit", "work", "case"}
             /\ upd'[u].pc = "done"
  BY <1>4, HandlerSparesCancelling, WorkflowAssumption
<1> QED BY <1>1, <1>2, <1>3, <1>4 DEF Next

\* Where the loop is when it neither allocates nor records a missed visit.
QuietPcs == {"top", "idle", "waitCancel", "gateAccept", "gateVisit", "due", "shift", "flag"}

\* The loop leaves those only by closing the run, and, unless a cancellation is under
\* way, from the queue and from a deadline.
LEMMA QuietStays ==
    ASSUME WorkflowInv, [Next]_vars, main.pc \in QuietPcs, main'.pc \notin QuietPcs
    PROVE  Close \/ (main.pc \in {"shift", "due"} /\ ~wf.cancelling)
<1>0. IsLoop(main) /\ UNCHANGED main => FALSE
  BY DEF QuietPcs
<1>1. IsLoop(main) /\ AtTop.pc = "top"
  BY DEF WorkflowInv, Shape, LoopShape, AtTop
<1>2. ~(Restarted \/ Goto("gateVisit") \/ Goto("due") \/ Goto("gateAccept") \/ Goto("shift"))
  BY LoopGoes DEF QuietPcs
<1>3. ASSUME Top PROVE FALSE
  <2>1. main'.pc \in {"waitCancel", "shift", "idle"}
    BY <1>3 DEF Top, AtTop
  <2> QED BY <2>1 DEF QuietPcs
<1>4. ~(CancellationSettled \/ Wake \/ GateAccept \/ GateVisit)
  BY <1>2 DEF CancellationSettled, Wake, GateAccept, GateVisit
<1>5. Due => main.pc = "due" /\ ~wf.cancelling
  BY <1>2 DEF Due, Restarted
<1>6. Shift => main.pc = "shift" /\ ~wf.cancelling
  BY <1>2 DEF Shift
<1>7. ~(BreachCheck \/ CheckTerminal \/ FetchSnapshot)
  BY DEF BreachCheck, CheckTerminal, FetchSnapshot, QuietPcs
<1>8. LoopStep => Close \/ (main.pc \in {"shift", "due"} /\ ~wf.cancelling)
  BY <1>3, <1>4, <1>5, <1>6, <1>7 DEF LoopStep
<1>9. ASSUME NEW lost, LoopActivity(lost) PROVE FALSE
  <2>1. commit # Asg!NoCommit => main.pc = "commit"
    BY DEF WorkflowInv, CommitIsAwaited
  <2>2. ~(CommitRead(lost) \/ CommitWrites(lost))
    BY <2>1 DEF CommitRead, CommitWrites, Asg!CommitReadAssignment, Asg!CommitReadPending,
       Asg!CommitWrite, Asg!NoCommit, QuietPcs
  <2>3. FlagAllocation(lost) => UNCHANGED main \/ main'.pc = "top"
    BY LoopGoes DEF FlagAllocation
  <2>4. ~(\/ MissVisit(lost) \/ MissFlag(lost) \/ Breach(lost) \/ BreachCase(lost)
          \/ CommitRequest(lost) \/ MarkAssigned(lost))
    BY DEF MissVisit, MissFlag, Breach, BreachCase, CommitRequest, MarkAssigned, QuietPcs
  <2> QED BY <1>0, <1>1, <1>9, <2>2, <2>3, <2>4 DEF LoopActivity, QuietPcs
<1>10. ASSUME NEW u \in Updates,
              HandlerStep(u) \/ \E lost \in LostReplies : HandlerActivity(u, lost)
       PROVE  FALSE
  BY <1>0, <1>1, <1>10, HandlerStepRun, ActivityRun, WorkflowAssumption DEF HandlerRun
<1>11. ~StartRun
  BY <1>2 DEF StartRun
<1>12. ~(CommitFails \/ Tick \/ OtherCaseAllocates \/ (\E u \in Updates : Send(u)) \/ UNCHANGED vars)
  BY <1>0, <1>1 DEF CommitFails, Tick, OtherCaseAllocates, Send, vars, workflowVars
<1> QED BY <1>8, <1>9, <1>10, <1>11, <1>12 DEF Next

\* No other step closes a run.
LEMMA OnlyCloseCloses ==
    ASSUME WorkflowInv, [Next]_vars, main.pc # "closed", main'.pc = "closed"
    PROVE  Close
<1>0. IsLoop(main) /\ ~UNCHANGED main
  BY DEF WorkflowInv, Shape, LoopShape
<1>1. ~(\/ Restarted \/ ExpiryOver \/ (\E w, r : AllocationOver(w, r))
        \/ \E pc : pc # "closed" /\ Goto(pc))
  BY LoopGoes
<1>2. ~(Top \/ Due \/ BreachCheck \/ Shift \/ FetchSnapshot)
  <2>1. ~Top
    BY DEF Top, AtTop
  <2>2. ~Due
    <3>1. Due => \/ main' = AtTop
                 \/ main' = [main EXCEPT !.pc = "missVisit", !.target = wf.visit]
                 \/ main' = [main EXCEPT !.pc = "breachCheck"]
      BY DEF Due
    <3>2. main' # AtTop
      BY DEF AtTop
    <3>3. main' # [main EXCEPT !.pc = "missVisit", !.target = wf.visit]
      BY <1>0 DEF IsLoop
    <3>4. main' # [main EXCEPT !.pc = "breachCheck"]
      BY <1>0 DEF IsLoop
    <3> QED BY <3>1, <3>2, <3>3, <3>4
  <2>3. ~BreachCheck
    <3>1. BreachCheck => \/ main' = [main EXCEPT !.pc = "breach", !.target = wf.attempt]
                         \/ main' = [main EXCEPT !.pc = "shift"]
      BY DEF BreachCheck
    <3> QED BY <1>0, <3>1 DEF IsLoop
  <2>4. ~Shift
    BY <1>1 DEF Shift, AtTop
  <2>5. ~FetchSnapshot
    BY <1>0, <1>1 DEF FetchSnapshot, IsLoop
  <2> QED BY <2>1, <2>2, <2>3, <2>4, <2>5
<1>3. LoopStep => Close
  BY <1>1, <1>2 DEF LoopStep, CancellationSettled, Wake, GateAccept, GateVisit, CheckTerminal
<1>4. ASSUME NEW out \in {"COMMITTED", "ALREADY_COMMITTED", "STALE_EPOCH",
                         "ACTIVE_ATTEMPT_EXISTS", "OVERRIDE_REASON_REQUIRED",
                         "REPLACEMENT_ATTEMPT_NOT_PENDING"},
             OnCommitReply(out)
      PROVE  FALSE
  <2>1. out = "STALE_EPOCH" => main'.pc \in {"snapshot", "flag"}
    BY <1>0, <1>4 DEF OnCommitReply, IsLoop
  <2>2. out # "STALE_EPOCH" => Goto("assign") \/ \E w, r : AllocationOver(w, r)
    BY <1>4 DEF OnCommitReply
  <2> QED BY <1>1, <2>1, <2>2
<1>5. ASSUME NEW lost, Breach(lost) PROVE FALSE
  <2>1. main.target \in AttemptIds /\ attempt[main.target] \in Asg!AttemptRow
    BY <1>5, OfferIsRow DEF Breach, Asg!BreachAllocationAttempt, WorkflowInv, Shape, LoopShape
  <2>2. Asg!BreachOutcome(main.target) \in {"BREACHED", "ALREADY_BREACHED", "ACCEPTED", "WITHDRAWN"}
    BY <2>1 DEF Asg!BreachOutcome, Asg!AttemptRow, Asg!AttemptStatus
  <2> QED BY <1>0, <1>1, <1>5, <2>2 DEF Breach
<1>6. ASSUME NEW lost, CommitRequest(lost) \/ CommitRead(lost) \/ CommitWrites(lost) PROVE FALSE
  BY <1>0, <1>4, <1>6, CommitReplies DEF CommitRequest, CommitRead, CommitWrites
<1>7. ASSUME NEW lost, \/ MissVisit(lost) \/ MissFlag(lost) \/ BreachCase(lost)
                       \/ MarkAssigned(lost) \/ FlagAllocation(lost)
      PROVE  FALSE
  BY <1>0, <1>1, <1>7 DEF MissVisit, MissFlag, BreachCase, MarkAssigned, FlagAllocation
<1>8. ASSUME NEW u \in Updates,
              HandlerStep(u) \/ \E lost \in LostReplies : HandlerActivity(u, lost)
      PROVE  FALSE
  BY <1>0, <1>8, HandlerStepRun, ActivityRun, WorkflowAssumption DEF HandlerRun
<1>9. ~(CommitFails \/ Tick \/ OtherCaseAllocates \/ (\E u \in Updates : Send(u)) \/ UNCHANGED vars)
  BY <1>0 DEF CommitFails, Tick, OtherCaseAllocates, Send, vars, workflowVars
<1>10. ~StartRun
  BY <1>1 DEF StartRun
<1> QED BY <1>3, <1>5, <1>6, <1>7, <1>8, <1>9, <1>10 DEF Next, LoopActivity

\* A cancellation that is under way.
Cancelling(u) == KindOf[u] = "cancel" /\ upd[u].pc \in {"await", "visit", "work", "case"}

\* A closed run has no handler left; a cancellation is the only one, is known to the
\* loop, has it quiet once it touches a record, and has no work left when it comes to
\* the Case.
CancelInv ==
    /\ main.pc = "closed" => HandlersFinished
    /\ \A u \in Updates : Cancelling(u) =>
          /\ wf.cancelling
          /\ \A v \in Updates : Cancelling(v) => v = u
          /\ upd[u].pc # "await" => main.pc \in QuietPcs
          /\ upd[u].pc = "case" => assignment[TheCase] \in {NONE, "CANCELLED"}

\* Without a commit an Assignment that is missing or cancelled stays so.
LEMMA NoWorkStays ==
    ASSUME WorkflowInv, [Next]_vars, main.pc # "commit",
           assignment[TheCase] \in {NONE, "CANCELLED"}
    PROVE  assignment'[TheCase] \in {NONE, "CANCELLED"}
<1>0. /\ assignment = [c \in Cases |-> assignment[c]] /\ TheCase \in Cases
      /\ assignment[TheCase] \notin {"PENDING_ACCEPTANCE", "ACCEPTED", "IN_PROGRESS", "COMPLETED"}
  BY AssignmentFacts, NoneIsNull DEF WorkflowInv, Asg!AssignmentTypeOK, Cases, Asg!AssignmentStatus
<1>1. commit = Asg!NoCommit
  BY DEF WorkflowInv, CommitIsAwaited
<1>2. ASSUME NEW lost, CommitWrites(lost) PROVE FALSE
  BY <1>1, <1>2 DEF CommitWrites, Asg!CommitWrite, Asg!NoCommit
<1>3. ASSUME NEW lost, Breach(lost) PROVE assignment'[TheCase] \in {NONE, "CANCELLED"}
  <2>1. \/ assignment' = assignment
        \/ assignment' = [assignment EXCEPT ![attempt[main.target].case] =
                             IF @ = "PENDING_ACCEPTANCE" THEN "BREACHED" ELSE @]
    BY <1>3 DEF Breach, Asg!BreachAllocationAttempt
  <2> QED BY <1>0, <2>1
<1>4. ASSUME NEW u, NEW lost, AcceptAttempt(u, lost)
      PROVE  assignment'[TheCase] \in {NONE, "CANCELLED"}
  BY <1>0, <1>4 DEF AcceptAttempt, Asg!AcceptAllocationAttempt, Asg!AcceptOutcome
<1>5. ASSUME NEW u, NEW lost, StartAssignment(u, lost)
      PROVE  assignment'[TheCase] \in {NONE, "CANCELLED"}
  <2>1. Asg!StartOutcome(TheCase) # "IN_PROGRESS"
    BY <1>0 DEF Asg!StartOutcome
  <2> QED BY <1>5, <2>1 DEF StartAssignment, Asg!MarkAssignmentInProgress
<1>6. ASSUME NEW u, NEW lost, CancelAssignment(u, lost)
      PROVE  assignment'[TheCase] \in {NONE, "CANCELLED"}
  BY <1>0, <1>6 DEF CancelAssignment, Asg!CancelAssignmentForCase
<1>7. ASSUME NEW u, NEW lost, CompleteAssignment(u, lost)
      PROVE  assignment'[TheCase] \in {NONE, "CANCELLED"}
  <2>1. Asg!CompleteOutcome(TheCase, u) # "COMPLETED"
    BY <1>0 DEF Asg!CompleteOutcome
  <2> QED BY <1>7, <2>1 DEF CompleteAssignment, Asg!CompleteAssignment
<1>8. ASSUME NEW lost, CommitFails \/ CommitRequest(lost) \/ CommitRead(lost)
      PROVE  UNCHANGED assignment
  BY <1>8 DEF CommitFails, CommitRequest, CommitRead, Asg!CommitRollback, Asg!CommitBegin,
     Asg!CommitReadAssignment, Asg!CommitReadPending
<1>9. CASE AssignmentCall
  BY <1>2, <1>3, <1>4, <1>5, <1>6, <1>7, <1>8, <1>9 DEF AssignmentCall
<1>10. CASE ~AssignmentCall
  <2>1. UNCHANGED assignment
    BY <1>10, StepKinds, CallFrames, WorkflowFrame
       DEF OtherCaseAllocates, vars, atomVars, assignmentVars
  <2> QED BY <2>1
<1> QED BY <1>9, <1>10

\* A run that is closed starts no handler.
LEMMA ClosedStep ==
    ASSUME WorkflowInv, CancelInv, [Next]_vars, main'.pc = "closed"
    PROVE  HandlersFinished'
<1>1. CASE main.pc # "closed"
  <2>1. Close
    BY <1>1, OnlyCloseCloses
  <2> QED BY <2>1 DEF Close, HandlersFinished
<1>2. CASE main.pc = "closed"
  <2> SUFFICES ASSUME NEW u \in Updates, upd'[u] # upd[u]
               PROVE  upd'[u].pc \in {"new", "sent", "done"}
    BY <1>2 DEF CancelInv, HandlersFinished
  <2>1. upd[u].pc \in {"new", "sent", "done"}
    BY <1>2 DEF CancelInv, HandlersFinished
  <2>2. CASE upd[u].pc = "new"
    BY <2>2, EveryStepMoves DEF UpdatesMove, Sends, Proceeds, Answers
  <2>3. CASE upd[u].pc = "sent"
    <3>1. HandlerStep(u) \/ \E lost \in LostReplies : HandlerActivity(u, lost)
      BY <2>3, OwnSteps
    <3>2. HandlerStep(u)
      BY <2>3, <3>1, ActivityMoves, WorkflowAssumption
    <3> QED BY <1>2, <2>3, <3>2 DEF HandlerStep, Admit, AwaitRecovery, AwaitGuards,
            ValidateCompletion, At
  <2>4. CASE upd[u].pc = "done"
    BY <2>4, DoneStays
  <2> QED BY <2>1, <2>2, <2>3, <2>4
<1> QED BY <1>1, <1>2

\* CancelInv is kept.
LEMMA CancelStep == ASSUME WorkflowInv, CancelInv, [Next]_vars PROVE CancelInv'
<1>1. ASSUME NEW u \in Updates, Cancelling(u)', ~Cancelling(u)
      PROVE  Drains(u) /\ upd'[u] # upd[u] /\ upd'[u].pc = "await"
  <2>1. KindOf[u] = "cancel" /\ upd'[u] # upd[u]
        /\ upd'[u].pc \in {"await", "visit", "work", "case"}
        /\ upd[u].pc \notin {"await", "visit", "work", "case"}
    BY <1>1 DEF Cancelling
  <2> QED BY <2>1, CancellationGoes DEF CancellationMoves
<1>2. ASSUME NEW u \in Updates, Drains(u)
      PROVE  /\ wf'.cancelling /\ ~wf.cancelling
             /\ \A v \in Updates \ {u} : upd'[v] = upd[v] \/ upd'[v].pc = "done"
  <2>1. wf'.cancelling
    BY <1>2 DEF Drains, AdmitCancel, WorkflowInv, Shape, RunState
  <2>2. \A r : Answered(r).pc = "done"
    BY DEF Answered, NewUpdate
  <2> QED BY <1>2, <2>1, <2>2 DEF Drains, AdmitCancel
<1>3. ASSUME NEW u \in Updates, Cancelling(u)'
      PROVE  wf'.cancelling
  <2>1. CASE Cancelling(u)
    <3>1. wf.cancelling /\ upd[u].pc \notin {"new", "sent", "done"}
      BY <2>1 DEF CancelInv, Cancelling
    <3>2. main.pc # "closed"
      BY <3>1 DEF CancelInv, HandlersFinished
    <3>3. ASSUME NEW v \in Updates, KindOf[v] = "cancel",
                 upd[v].pc \in {"visit", "work", "case"}, upd'[v].pc = "done"
          PROVE  FALSE
      <4>1. Cancelling(v)
        BY <3>3 DEF Cancelling
      <4>2. v = u
        BY <2>1, <4>1 DEF CancelInv
      <4> QED BY <1>3, <3>3, <4>2 DEF Cancelling
    <3> QED BY <3>1, <3>2, <3>3, CancellingStays
  <2>2. CASE ~Cancelling(u)
    BY <1>1, <1>2, <1>3, <2>2
  <2> QED BY <2>1, <2>2
<1>4. ASSUME NEW u \in Updates, NEW v \in Updates, Cancelling(u)', Cancelling(v)'
      PROVE  v = u
  <2>1. CASE Cancelling(u) /\ Cancelling(v)
    BY <2>1 DEF CancelInv
  <2>2. ASSUME NEW x \in Updates, NEW y \in Updates, Cancelling(x)', ~Cancelling(x), Cancelling(y)'
        PROVE  x = y
    <3>1. Drains(x) /\ ~wf.cancelling
      BY <1>1, <1>2, <2>2
    <3>2. ~Cancelling(y)
      BY <3>1 DEF CancelInv
    <3>3. upd'[y] # upd[y] /\ upd'[y].pc = "await"
      BY <1>1, <2>2, <3>2
    <3> QED BY <1>2, <3>1, <3>3
  <2> QED BY <1>4, <2>1, <2>2
<1>5. ASSUME NEW u \in Updates, Cancelling(u)', upd'[u].pc # "await"
      PROVE  main'.pc \in QuietPcs
  <2>1. KindOf[u] = "cancel" /\ upd'[u].pc \in {"visit", "work", "case"}
    BY <1>5 DEF Cancelling
  <2>2. CASE upd[u].pc \in {"visit", "work", "case"}
    <3>1. wf.cancelling /\ main.pc \in QuietPcs
      BY <2>1, <2>2 DEF CancelInv, Cancelling
    <3>2. ~Close
      BY <2>2 DEF Close, HandlersFinished
    <3> QED BY <3>1, <3>2, QuietStays
  <2>3. CASE upd[u].pc \notin {"visit", "work", "case"}
    <3>1. upd[u].pc = "await" /\ AwaitGuards(u)
      BY <2>1, <2>3, CancellationGoes DEF CancellationMoves
    <3>2. ~Synchronous /\ NothingUnderWay /\ UNCHANGED main
      BY <3>1 DEF AwaitGuards, At
    <3>3. main.pc # "closed"
      BY <3>1 DEF CancelInv, HandlersFinished
    <3>4. main.pc \in LoopPcs
      BY DEF WorkflowInv, Shape, LoopShape
    <3> QED BY <3>2, <3>3, <3>4
            DEF Synchronous, NothingUnderWay, Allocating, Expiring, QuietPcs, LoopPcs
  <2> QED BY <2>2, <2>3
<1>6. ASSUME NEW u \in Updates, Cancelling(u)', upd'[u].pc = "case"
      PROVE  assignment'[TheCase] \in {NONE, "CANCELLED"}
  <2>1. KindOf[u] = "cancel"
    BY <1>6 DEF Cancelling
  <2>2. CASE upd[u].pc = "case"
    <3>1. assignment[TheCase] \in {NONE, "CANCELLED"} /\ main.pc \in QuietPcs
      BY <2>1, <2>2 DEF CancelInv, Cancelling
    <3>2. main.pc # "commit"
      BY <3>1 DEF QuietPcs
    <3> QED BY <3>1, <3>2, NoWorkStays
  <2>3. CASE upd[u].pc # "case"
    BY <1>6, <2>1, <2>3, CancellationGoes DEF CancellationMoves
  <2> QED BY <2>2, <2>3
<1> QED BY <1>3, <1>4, <1>5, <1>6, ClosedStep DEF CancelInv

\* A visit becomes completed by the completion that reports it, which leaves its id.
LEMMA NewCompletedVisit ==
    ASSUME WorkflowInv, [Next]_vars, NEW x \in ClaimIds,
           appointment[x] # "completed", appointment'[x] = "completed"
    PROVE  \E u \in Updates : /\ KindOf[u] = "complete" /\ upd[u].pc = "visit"
                              /\ upd[u].target = x /\ visitOp'[x] = u
                              /\ appointment[x] = "in_progress"
<1>0. /\ appointment = [y \in ClaimIds |-> appointment[y]] /\ NONE # "completed"
      /\ visitOp = [y \in ClaimIds |-> visitOp[y]]
  BY NoneIsNull DEF WorkflowInv, Apt!AppointmentTypeOK, Apt!AppointmentStatus
<1>1. AppointmentCall
  BY StepKinds, CallFrames, WorkflowFrame DEF OtherCaseAllocates, vars, atomVars, appointmentVars
<1>2. ASSUME NEW u \in Updates, NEW lost, CompleteVisit(u, lost)
      PROVE  /\ KindOf[u] = "complete" /\ upd[u].pc = "visit"
             /\ upd[u].target = x /\ visitOp'[x] = u
             /\ appointment[x] = "in_progress"
  <2>1. KindOf[u] = "complete" /\ upd[u].pc = "visit"
    BY <1>2 DEF CompleteVisit, At
  <2>2. upd[u].target \in ClaimIds
    BY <2>1, ReportedVisit
  <2>3. /\ appointment' = [appointment EXCEPT ![upd[u].target] = "completed"]
        /\ visitOp' = [visitOp EXCEPT ![upd[u].target] = u]
        /\ Apt!CompleteVisitOutcome(upd[u].target, Visitor(u), u) = "COMPLETED"
    BY <1>2 DEF CompleteVisit, Apt!CompleteAppointment
  <2>4. appointment[upd[u].target] = "in_progress"
    BY <2>3 DEF Apt!CompleteVisitOutcome
  <2> QED BY <1>0, <2>1, <2>2, <2>3, <2>4
<1>3. ASSUME NEW y, NEW to, to # "completed", NEW done, NEW out,
             Apt!LeaveScheduled(y, to, done, out)
      PROVE  FALSE
  BY <1>0, <1>3 DEF Apt!LeaveScheduled
<1>4. ASSUME NEW u, NEW lost, StartVisit(u, lost) \/ FailVisit(u, lost) \/ MissVisit(lost)
      PROVE  FALSE
  BY <1>3, <1>4 DEF StartVisit, FailVisit, MissVisit, Apt!StartWorkAppointment,
     Apt!ReportNoAccessAppointment, Apt!MarkAppointmentMissed
<1>5. ASSUME NEW u, NEW lost,
             ReserveSlot(u, lost) \/ ReleaseSlot(u, lost) \/ ConfirmSlot(u, lost)
      PROVE  FALSE
  BY <1>0, <1>5 DEF ReserveSlot, ReleaseSlot, ConfirmSlot, Apt!ReserveAppointmentSlot,
     Apt!ReleaseAppointmentSlot, Apt!ConfirmAppointmentSlot
<1>6. ASSUME NEW u, NEW lost, CancelVisit(u, lost) PROVE FALSE
  BY <1>0, <1>6 DEF CancelVisit, Apt!CancelScheduledAppointment
<1>7. ASSUME NEW u \in Updates, NEW lost, ReplaceVisit(u, lost) PROVE FALSE
  <2>1. u \in ClaimIds /\ upd[u].target # u /\ upd[u].target \in ClaimIds
    BY <1>7, ReportedVisit DEF ReplaceVisit, At, ClaimIds, WorkflowInv, UpdateNames, Names
  <2>2. appointment' = appointment
        \/ appointment' = [appointment EXCEPT
              ![upd[u].target] = IF @ = "scheduled" THEN "rescheduled" ELSE @,
              ![u] = "scheduled"]
    BY <1>7 DEF ReplaceVisit, Apt!ReplaceAppointmentSlot
  <2> QED BY <1>0, <2>1, <2>2
<1> QED BY <1>1, <1>2, <1>4, <1>5, <1>6, <1>7 DEF AppointmentCall

\* The completion on record of a completed visit is never replaced.
LEMMA VisitOpStays ==
    ASSUME WorkflowInv, [Next]_vars, NEW x \in ClaimIds, appointment[x] = "completed"
    PROVE  visitOp'[x] = visitOp[x]
<1>0. visitOp = [y \in ClaimIds |-> visitOp[y]]
  BY DEF WorkflowInv, Apt!AppointmentTypeOK
<1>1. ASSUME NEW u, NEW lost, CompleteVisit(u, lost) PROVE visitOp'[x] = visitOp[x]
  BY <1>0, <1>1 DEF CompleteVisit, Apt!CompleteAppointment, Apt!CompleteVisitOutcome
<1>2. ASSUME NEW u, NEW lost,
             \/ ReserveSlot(u, lost) \/ ReleaseSlot(u, lost) \/ ConfirmSlot(u, lost)
             \/ StartVisit(u, lost) \/ FailVisit(u, lost) \/ ReplaceVisit(u, lost)
             \/ CancelVisit(u, lost) \/ MissVisit(lost)
      PROVE  UNCHANGED visitOp
  BY <1>2 DEF ReserveSlot, ReleaseSlot, ConfirmSlot, StartVisit, FailVisit, ReplaceVisit,
     CancelVisit, MissVisit, Apt!ReserveAppointmentSlot, Apt!ReleaseAppointmentSlot,
     Apt!ConfirmAppointmentSlot, Apt!StartWorkAppointment, Apt!ReportNoAccessAppointment,
     Apt!MarkAppointmentMissed, Apt!LeaveScheduled, Apt!ReplaceAppointmentSlot,
     Apt!CancelScheduledAppointment
<1>3. CASE AppointmentCall
  BY <1>1, <1>2, <1>3 DEF AppointmentCall
<1>4. CASE ~AppointmentCall
  <2>1. UNCHANGED visitOp
    BY <1>4, StepKinds, CallFrames, WorkflowFrame
       DEF OtherCaseAllocates, vars, atomVars, appointmentVars
  <2> QED BY <2>1
<1> QED BY <1>3, <1>4

\* An Assignment becomes completed by a completion, which leaves its id.
LEMMA NewCompletedWork ==
    ASSUME WorkflowInv, [Next]_vars,
           assignment[TheCase] # "COMPLETED", assignment'[TheCase] = "COMPLETED"
    PROVE  \E u \in Updates : /\ KindOf[u] = "complete" /\ upd[u].pc = "work"
                              /\ completionOp'[TheCase] = u
<1>0. /\ assignment = [c \in Cases |-> assignment[c]] /\ TheCase \in Cases
      /\ completionOp = [c \in Cases |-> completionOp[c]]
  BY AssignmentFacts DEF WorkflowInv, Asg!AssignmentTypeOK, Cases
<1>1. AssignmentCall
  BY StepKinds, CallFrames, WorkflowFrame DEF OtherCaseAllocates, vars, atomVars, assignmentVars
<1>2. ASSUME NEW u \in Updates, NEW lost, CompleteAssignment(u, lost)
      PROVE  /\ KindOf[u] = "complete" /\ upd[u].pc = "work"
             /\ completionOp'[TheCase] = u
  BY <1>0, <1>2 DEF CompleteAssignment, At, Asg!CompleteAssignment
<1>3. ASSUME NEW lost, CommitWrites(lost) PROVE FALSE
  <2>1. commit # Asg!NoCommit
    BY <1>3 DEF CommitWrites, Asg!CommitWrite, Asg!NoCommit
  <2> QED BY <1>0, <1>3, <2>1, CommitOfCase DEF CommitWrites, Asg!CommitWrite
<1>4. ASSUME NEW lost, Breach(lost) PROVE FALSE
  <2>1. \/ assignment' = assignment
        \/ assignment' = [assignment EXCEPT ![attempt[main.target].case] =
                             IF @ = "PENDING_ACCEPTANCE" THEN "BREACHED" ELSE @]
    BY <1>4 DEF Breach, Asg!BreachAllocationAttempt
  <2> QED BY <1>0, <2>1
<1>5. ASSUME NEW u, NEW lost, AcceptAttempt(u, lost) \/ StartAssignment(u, lost)
                              \/ CancelAssignment(u, lost)
      PROVE  FALSE
  BY <1>0, <1>5 DEF AcceptAttempt, StartAssignment, CancelAssignment, Asg!AcceptAllocationAttempt,
     Asg!MarkAssignmentInProgress, Asg!CancelAssignmentForCase
<1>6. ASSUME NEW lost, CommitFails \/ CommitRequest(lost) \/ CommitRead(lost)
      PROVE  FALSE
  BY <1>6 DEF CommitFails, CommitRequest, CommitRead, Asg!CommitRollback, Asg!CommitBegin,
     Asg!CommitReadAssignment, Asg!CommitReadPending
<1> QED BY <1>1, <1>2, <1>3, <1>4, <1>5, <1>6 DEF AssignmentCall

\* Officer Attention for a failed completion is resolved by the end of the Case alone.
LEMMA FlagStays ==
    ASSUME WorkflowInv, [Next]_vars, "COMPLETION_FAILED" \in attention[TheCase],
           "COMPLETION_FAILED" \notin attention'[TheCase]
    PROVE  Status' = "completed" \/ \E u \in Updates : KindOf[u] = "cancel" /\ upd[u].pc = "case"
<1>0. /\ attention = [c \in Cases |-> attention[c]] /\ TheCase \in Cases
      /\ caseStatus = [c \in Cases |-> caseStatus[c]]
      /\ "COMPLETION_FAILED" \notin Cas!AllocationAttentionKinds
  BY DEF WorkflowInv, Cas!CaseTypeOK, Cases, Cas!AllocationAttentionKinds
<1>1. CaseCall
  BY StepKinds, CallFrames, WorkflowFrame DEF OtherCaseAllocates, vars, atomVars, caseVars
<1>2. ASSUME NEW op, NEW done, NEW to, NEW resolved, "COMPLETION_FAILED" \notin resolved,
             NEW raised, NEW out, Cas!Transition(TheCase, op, done, to, resolved, raised, out)
      PROVE  FALSE
  BY <1>0, <1>2 DEF Cas!Transition
<1>3. ASSUME NEW lost, BreachCase(lost) \/ MarkAssigned(lost) PROVE FALSE
  BY <1>0, <1>2, <1>3 DEF BreachCase, MarkAssigned, Cas!MarkCaseBreached, Cas!MarkCaseAssigned
<1>4. ASSUME NEW u, NEW lost, StartCase(u, lost) \/ ParkCase(u, lost) PROVE FALSE
  BY <1>2, <1>4 DEF StartCase, ParkCase, Cas!MarkCaseInProgress, Cas!MarkCaseNoAccess
<1>5. ASSUME NEW u, NEW lost,
             \/ MissFlag(lost) \/ FlagAllocation(lost) \/ FlagStart(u, lost)
             \/ FlagCompletion(u, lost)
      PROVE  FALSE
  BY <1>0, <1>5 DEF MissFlag, FlagAllocation, FlagStart, FlagCompletion,
     Cas!RaiseOfficerAttention, Cas!Raise
<1>6. ASSUME NEW u, NEW lost, OpenCase(u, lost) \/ RecordAcceptance(u, lost) PROVE FALSE
  BY <1>0, <1>6 DEF OpenCase, RecordAcceptance, Cas!CreateCase, Cas!RecordAllocationAcceptance,
     Cas!Resolve
<1>7. ASSUME NEW u, NEW lost, RecordReplacement(u, lost) PROVE FALSE
  BY <1>0, <1>7 DEF RecordReplacement, Cas!MarkCaseAppointmentReplaced, Cas!Resolve
<1>8. ASSUME NEW u, NEW lost, CancelCase(u, lost) PROVE KindOf[u] = "cancel" /\ upd[u].pc = "case"
  BY <1>8 DEF CancelCase, At
<1>9. ASSUME NEW u, NEW lost, CompleteCase(u, lost) PROVE Status' = "completed"
  <2> DEFINE out == Cas!CompleteCaseOutcome(TheCase, u)
  <2>1. Cas!CompleteCase(TheCase, u, out)
    BY <1>9 DEF CompleteCase
  <2>2. CASE out = "COMPLETED"
    BY <1>0, <2>1, <2>2 DEF Cas!CompleteCase, Status
  <2>3. CASE out = "ALREADY_COMPLETED"
    <3>1. Status = "completed"
      BY <2>3 DEF Cas!CompleteCaseOutcome, Status
    <3> QED BY <3>1, EndIsFinal
  <2>4. CASE out \notin {"COMPLETED", "ALREADY_COMPLETED"}
    BY <2>1, <2>4 DEF Cas!CompleteCase
  <2> QED BY <2>2, <2>3, <2>4
<1> QED BY <1>1, <1>3, <1>4, <1>5, <1>6, <1>7, <1>8, <1>9 DEF CaseCall

\* Work that a completion has begun to record has started.
BegunInv ==
    /\ \A u \in Updates : KindOf[u] = "complete" /\ upd[u].pc \in {"visit", "work", "case", "flag"}
           => assignment[TheCase] \in {"IN_PROGRESS", "COMPLETED"}
    /\ \A x \in ClaimIds : appointment[x] = "completed"
           => assignment[TheCase] \in {"IN_PROGRESS", "COMPLETED"}

\* It is kept.
LEMMA BegunStep == ASSUME WorkflowInv, BegunInv, [Next]_vars PROVE BegunInv'
<1>0. assignment[TheCase] \in {"IN_PROGRESS", "COMPLETED"} =>
          assignment'[TheCase] \in {"IN_PROGRESS", "COMPLETED"}
  BY RecordsStand DEF AsgP!WorkStands, Cases
<1>1. ASSUME NEW u \in Updates, KindOf[u] = "complete",
             upd'[u].pc \in {"visit", "work", "case", "flag"}
      PROVE  assignment'[TheCase] \in {"IN_PROGRESS", "COMPLETED"}
  <2>1. CASE upd[u].pc \in {"visit", "work", "case", "flag"}
    BY <1>0, <1>1, <2>1 DEF BegunInv
  <2>2. CASE upd[u].pc \notin {"visit", "work", "case", "flag"}
    <3>1. CompletionReady(u)
      BY <1>1, <2>2, CompletionGoes DEF CompletionMoves
    <3> QED BY <1>0, <3>1 DEF CompletionReady
  <2> QED BY <2>1, <2>2
<1>2. ASSUME NEW x \in ClaimIds, appointment'[x] = "completed"
      PROVE  assignment'[TheCase] \in {"IN_PROGRESS", "COMPLETED"}
  BY <1>0, <1>2, NewCompletedVisit DEF BegunInv
<1> QED BY <1>1, <1>2 DEF BegunInv

\* A failed completion of a Case that is not completed has been flagged.
Flagged == "COMPLETION_FAILED" \in attention[TheCase]

\* A completion that carries a completed Assignment, or a completed visit, on to the Case.
CarriesWork(u) ==
    /\ KindOf[u] = "complete"
    /\ upd[u].pc \in {"case", "flag"} \/ (upd[u].pc = "work" /\ completionOp[TheCase] = u)
CarriesVisit(u, x) ==
    /\ KindOf[u] = "complete"
    /\ \/ upd[u].pc \in {"work", "case", "flag"}
       \/ upd[u].pc = "visit" /\ upd[u].target = x /\ visitOp[x] = u

\* A record that is completed before the Case is has such a completion, or was flagged.
CarriedInv ==
    (Status # "completed" /\ ~Flagged) =>
        /\ assignment[TheCase] = "COMPLETED" => \E u \in Updates : CarriesWork(u)
        /\ \A x \in ClaimIds : appointment[x] = "completed" =>
               \E u \in Updates : CarriesVisit(u, x)

\* It is kept: a completion gives up only when another one has the Assignment, when the
\* Case is completed, or with a flag.
LEMMA CarriedStep ==
    ASSUME WorkflowInv, CancelInv, BegunInv, CarriedInv, [Next]_vars,
           Status' # "completed", ~Flagged'
    PROVE  /\ assignment'[TheCase] = "COMPLETED" => \E u \in Updates : CarriesWork(u)'
           /\ \A x \in ClaimIds : appointment'[x] = "completed" =>
                  \E u \in Updates : CarriesVisit(u, x)'
<1>1. Status # "completed"
  BY EndIsFinal
<1>2. ASSUME assignment[TheCase] \in {"IN_PROGRESS", "COMPLETED"} PROVE ~Flagged
  <2>1. ASSUME NEW u \in Updates, KindOf[u] = "cancel", upd[u].pc = "case" PROVE FALSE
    BY <1>2, <2>1, NoneIsNull DEF CancelInv, Cancelling, Asg!AssignmentStatus
  <2> QED BY <2>1, FlagStays DEF Flagged
<1>3. ASSUME NEW u \in Updates, assignment[TheCase] = "COMPLETED", CarriesWork(u)
      PROVE  CarriesWork(u)'
  <2>1. completionOp'[TheCase] = completionOp[TheCase]
    BY <1>3, RecordsStand DEF AsgP!WorkStands, Cases
  <2>2. CASE upd'[u] = upd[u]
    BY <1>3, <2>1, <2>2 DEF CarriesWork
  <2>3. CASE upd'[u] # upd[u]
    BY <1>3, <2>1, <2>3, CompletionGoes DEF CarriesWork, CompletionMoves, Flagged
  <2> QED BY <2>2, <2>3
<1>4. ASSUME assignment[TheCase] = "COMPLETED" PROVE \E u \in Updates : CarriesWork(u)'
  BY <1>1, <1>2, <1>3, <1>4 DEF CarriedInv
<1>5. ASSUME assignment[TheCase] # "COMPLETED", assignment'[TheCase] = "COMPLETED"
      PROVE  \E u \in Updates : CarriesWork(u)'
  <2>1. PICK u \in Updates : /\ KindOf[u] = "complete" /\ upd[u].pc = "work"
                             /\ completionOp'[TheCase] = u
    BY <1>5, NewCompletedWork
  <2>2. CASE upd'[u] = upd[u]
    BY <2>1, <2>2 DEF CarriesWork
  <2>3. CASE upd'[u] # upd[u]
    BY <1>5, <2>1, <2>3, CompletionGoes DEF CarriesWork, CompletionMoves
  <2> QED BY <2>2, <2>3
<1>6. ASSUME NEW x \in ClaimIds, appointment[x] = "completed"
      PROVE  \E u \in Updates : CarriesVisit(u, x)'
  <2>1. ~Flagged
    BY <1>2, <1>6 DEF BegunInv
  <2>2. PICK u \in Updates : CarriesVisit(u, x)
    BY <1>1, <1>6, <2>1 DEF CarriedInv
  <2>3. visitOp'[x] = visitOp[x]
    BY <1>6, VisitOpStays
  <2>4. CASE upd'[u] = upd[u]
    BY <2>2, <2>3, <2>4 DEF CarriesVisit
  <2>5. CASE upd'[u] # upd[u]
    <3>1. CASE upd[u].pc = "work" /\ upd'[u].pc = "done"
      <4>1. assignment[TheCase] = "COMPLETED"
        BY <2>2, <2>5, <3>1, CompletionGoes DEF CarriesVisit, CompletionMoves
      <4>2. PICK v \in Updates : CarriesWork(v)'
        BY <1>4, <4>1
      <4> QED BY <4>2 DEF CarriesWork, CarriesVisit
    <3>2. CASE ~(upd[u].pc = "work" /\ upd'[u].pc = "done")
      BY <1>6, <2>2, <2>5, <3>2, CompletionGoes DEF CarriesVisit, CompletionMoves, Flagged
    <3> QED BY <3>1, <3>2
  <2> QED BY <2>4, <2>5
<1>7. ASSUME NEW x \in ClaimIds, appointment[x] # "completed", appointment'[x] = "completed"
      PROVE  \E u \in Updates : CarriesVisit(u, x)'
  <2>1. PICK u \in Updates : /\ KindOf[u] = "complete" /\ upd[u].pc = "visit"
                             /\ upd[u].target = x /\ visitOp'[x] = u
    BY <1>7, NewCompletedVisit
  <2>2. CASE upd'[u] = upd[u]
    BY <2>1, <2>2 DEF CarriesVisit
  <2>3. CASE upd'[u] # upd[u]
    BY <1>7, <2>1, <2>3, CompletionGoes DEF CarriesVisit, CompletionMoves
  <2> QED BY <2>2, <2>3
<1> QED BY <1>4, <1>5, <1>6, <1>7

\* A completion that got past the visit completes the Case, is still under way or leaves
\* Officer Attention behind, whatever else happens to the Case meanwhile: no cancellation
\* sweeps the attention away, because it finds work and is rejected.
THEOREM HalfFinishedWorkIsNoticed == Spec => []HalfFinishedWorkIsFlagged
<1>1. Init => CancelInv /\ BegunInv /\ CarriedInv
  BY NoneIsNull DEF Init, NewUpdate, AtTop, Asg!AssignmentInit, Apt!AppointmentInit,
     CancelInv, HandlersFinished, Cancelling, BegunInv, CarriedInv, Asg!AssignmentStatus,
     Apt!AppointmentStatus, Cases
<1>2. WorkflowInv /\ CancelInv /\ BegunInv /\ CarriedInv /\ [Next]_vars
          => CancelInv' /\ BegunInv' /\ CarriedInv'
  BY CancelStep, BegunStep, CarriedStep DEF CarriedInv
<1>3. CarriedInv => HalfFinishedWorkIsFlagged
  BY DEF CarriedInv, CarriesVisit, Flagged, HalfFinishedWorkIsFlagged, Completing, Running,
     Apt!VisitsOf
<1> QED BY <1>1, <1>2, <1>3, WorkflowInvariant, PTL DEF Spec

-----------------------------------------------------------------------------
(* An accepted offer is withdrawn by an Officer's replacement, or never.      *)

\* A commit is opened on a request, and only an Officer's names an offer to replace;
\* while it is open it learns what the Assignment is.
LEMMA CommitMoves ==
    ASSUME WorkflowInv, [Next]_vars
    PROVE  \/ UNCHANGED commit
           \/ commit' = Asg!NoCommit
           \/ /\ UNCHANGED assignment /\ commit'.saw = NONE
              /\ commit'.replace # NONE => /\ assignment[TheCase] # NONE
                                           /\ \E u \in Updates : KindOf[u] = "manual"
           \/ /\ UNCHANGED assignment /\ commit # Asg!NoCommit
              /\ commit'.replace = commit.replace
              /\ commit'.saw = commit.saw \/ commit'.saw = assignment[TheCase]
<1>0. commit \in Asg!CommitTx \cup {Asg!NoCommit}
  BY AssignmentFacts DEF WorkflowInv, Asg!AssignmentTypeOK
<1>1. ASSUME NEW lost, CommitRequest(lost)
      PROVE  \/ commit' = Asg!NoCommit
             \/ /\ UNCHANGED assignment /\ commit'.saw = NONE
                /\ commit'.replace # NONE => /\ assignment[TheCase] # NONE
                                             /\ \E u \in Updates : KindOf[u] = "manual"
  <2> DEFINE replace == IF Automatic THEN NONE ELSE upd[main.req].target
             reason == ~Automatic /\ upd[main.req].was = "REASON"
             out == Asg!CommitBeginOutcome(AllocationOp, TheCase, main.k, ~Automatic,
                                           reason, replace, main.epoch)
  <2>1. Asg!CommitBegin(AllocationOp, TheCase, main.k, ~Automatic, reason, replace,
                        main.epoch, out)
    BY <1>1 DEF CommitRequest
  <2>2. CASE out # "CONTINUE"
    BY <2>1, <2>2 DEF Asg!CommitBegin
  <2>3. CASE out = "CONTINUE"
    <3>1. commit'.saw = NONE /\ commit'.replace = replace /\ UNCHANGED assignment
      BY <2>1, <2>3 DEF Asg!CommitBegin
    <3>2. replace # NONE => assignment[TheCase] # NONE
      BY <2>3 DEF Asg!CommitBeginOutcome
    <3>3. replace # NONE => \E u \in Updates : KindOf[u] = "manual"
      BY RequestWaits DEF Automatic
    <3> QED BY <3>1, <3>2, <3>3
  <2> QED BY <2>2, <2>3
<1>2. ASSUME NEW lost, CommitRead(lost)
      PROVE  \/ commit' = Asg!NoCommit
             \/ /\ UNCHANGED assignment /\ commit # Asg!NoCommit
                /\ commit'.replace = commit.replace
                /\ commit'.saw = commit.saw \/ commit'.saw = assignment[TheCase]
  <2>1. commit # Asg!NoCommit
    BY <1>2 DEF CommitRead, Asg!CommitReadAssignment, Asg!CommitReadPending, Asg!NoCommit
  <2>2. commit.case = TheCase /\ commit \in Asg!CommitTx
    BY <1>0, <2>1, CommitOfCase
  <2>3. CASE Asg!CommitReadAssignment
    BY <2>1, <2>2, <2>3 DEF Asg!CommitReadAssignment, Asg!CommitTx
  <2>4. CASE Asg!CommitReadPending(Asg!CommitPendingOutcome)
    BY <2>1, <2>2, <2>4 DEF Asg!CommitReadPending, Asg!CommitTx
  <2> QED BY <1>2, <2>3, <2>4 DEF CommitRead
<1>3. ASSUME NEW lost, CommitWrites(lost) \/ CommitFails PROVE commit' = Asg!NoCommit
  BY <1>3 DEF CommitWrites, CommitFails, Asg!CommitWrite, Asg!CommitRollback
<1>4. ASSUME NEW u, NEW lost,
             \/ Breach(lost) \/ AcceptAttempt(u, lost) \/ StartAssignment(u, lost)
             \/ CancelAssignment(u, lost) \/ CompleteAssignment(u, lost)
      PROVE  UNCHANGED commit
  BY <1>4 DEF Breach, AcceptAttempt, StartAssignment, CancelAssignment, CompleteAssignment,
     Asg!BreachAllocationAttempt, Asg!AcceptAllocationAttempt, Asg!MarkAssignmentInProgress,
     Asg!CancelAssignmentForCase, Asg!CompleteAssignment
<1>5. AppointmentCall \/ CaseCall \/ WorkflowStep \/ OtherCaseAllocates \/ UNCHANGED vars
          => UNCHANGED commit
  BY CallFrames, WorkflowFrame DEF OtherCaseAllocates, vars, atomVars, assignmentVars
<1> QED BY <1>1, <1>2, <1>3, <1>4, <1>5, StepKinds DEF AssignmentCall

\* Only the commit that replaces it turns an offer that is accepted.
LEMMA AcceptedStays ==
    ASSUME WorkflowInv, [Next]_vars, NEW a \in AttemptIds, attempt[a].status = "ACCEPTED",
           commit.replace # a
    PROVE  attempt'[a].status = "ACCEPTED"
<1>0. /\ attempt = [b \in AttemptIds |-> attempt[b]] /\ attempt[a] # Asg!NoAttempt
      /\ attempt[a] \in Asg!AttemptRow
  BY OfferIsRow, AssignmentFacts DEF WorkflowInv, Asg!AssignmentTypeOK, Asg!NoAttempt
<1>1. ASSUME NEW lost, CommitWrites(lost) PROVE attempt'[a].status = "ACCEPTED"
  <2>1. commit # Asg!NoCommit
    BY <1>1 DEF CommitWrites, Asg!CommitWrite, Asg!NoCommit
  <2>2. attempt[commit.op] = Asg!NoAttempt
    BY <2>1, AssignmentFacts DEF WorkflowInv, Asg!CommitReadsHold
  <2> QED BY <1>0, <1>1, <2>2 DEF CommitWrites, Asg!CommitWrite
<1>2. ASSUME NEW lost, Breach(lost) PROVE attempt'[a].status = "ACCEPTED"
  <2>1. main.target \in AttemptIds
    BY <1>2 DEF Breach, WorkflowInv, Shape, LoopShape
  <2> QED BY <1>0, <1>2, <2>1 DEF Breach, Asg!BreachAllocationAttempt, Asg!BreachOutcome
<1>3. ASSUME NEW u \in Updates, NEW lost, AcceptAttempt(u, lost)
      PROVE  attempt'[a].status = "ACCEPTED"
  <2>1. upd[u].target \in AttemptIds
    BY <1>3 DEF AcceptAttempt, At, WorkflowInv, UpdateNames, Names
  <2> QED BY <1>0, <1>3, <2>1 DEF AcceptAttempt, Asg!AcceptAllocationAttempt, Asg!AcceptOutcome
<1>4. ASSUME NEW u, NEW lost, CancelAssignment(u, lost) PROVE attempt'[a].status = "ACCEPTED"
  BY <1>0, <1>4 DEF CancelAssignment, Asg!CancelAssignmentForCase, Asg!Pending
<1>5. ASSUME NEW v, NEW lost,
             \/ CommitFails \/ CommitRequest(lost) \/ CommitRead(lost)
             \/ StartAssignment(v, lost) \/ CompleteAssignment(v, lost)
      PROVE  UNCHANGED attempt
  BY <1>5 DEF CommitFails, CommitRequest, CommitRead, StartAssignment, CompleteAssignment,
     Asg!CommitRollback, Asg!CommitBegin, Asg!CommitReadAssignment, Asg!CommitReadPending,
     Asg!MarkAssignmentInProgress, Asg!CompleteAssignment
<1>6. ~AssignmentCall => UNCHANGED attempt
  BY StepKinds, CallFrames, WorkflowFrame DEF OtherCaseAllocates, vars, atomVars, assignmentVars
<1> QED BY <1>1, <1>2, <1>3, <1>4, <1>5, <1>6 DEF AssignmentCall

\* An offer to replace is named where Officers allocate.
ReplaceInv == commit.replace # NONE => \E u \in Updates : KindOf[u] = "manual"

\* Where no Officer allocates by hand, an offer that was accepted is not taken from the
\* Contractor again, by whatever interleaving of allocations, breaches and cancellations
\* with lost replies: only the unlocked read of a manual replacement can overwrite it.
THEOREM AcceptancesStand ==
    ASSUME \A u \in Updates : KindOf[u] # "manual"
    PROVE  Spec => AcceptedOfferIsNeverWithdrawn
<1>1. Init => ReplaceInv
  BY DEF Init, ReplaceInv, Asg!AssignmentInit, Asg!NoCommit
<1>2. WorkflowInv /\ ReplaceInv /\ [Next]_vars => ReplaceInv'
  <2>1. Asg!NoCommit.replace = NONE
    BY DEF Asg!NoCommit
  <2> QED BY <2>1, CommitMoves DEF ReplaceInv
<1>3. WorkflowInv /\ ReplaceInv /\ [Next]_vars =>
          [\A a \in AttemptIds : attempt[a].status = "ACCEPTED" =>
               attempt'[a].status = "ACCEPTED"]_vars
  BY AcceptedStays, NoneIsNull DEF ReplaceInv
<1> QED BY <1>1, <1>2, <1>3, WorkflowInvariant, PTL DEF Spec, AcceptedOfferIsNeverWithdrawn
-----------------------------------------------------------------------------
(* A cancelled Case has no work and no offer.                                *)

\* Work of the Case has started.
Begun == assignment[TheCase] \in {"IN_PROGRESS", "COMPLETED"}

\* A handler that starts work comes to the Case once the Assignment has started.
LEMMA StartReachesCase ==
    ASSUME WorkflowInv, [Next]_vars, NEW u \in Updates, KindOf[u] = "start",
           upd'[u] # upd[u], upd'[u].pc = "case"
    PROVE  Begun'
<1>0. assignment = [c \in Cases |-> assignment[c]] /\ TheCase \in Cases
  BY AssignmentFacts DEF WorkflowInv, Asg!AssignmentTypeOK, Cases
<1>1. CASE HandlerStep(u)
  <2>1. Admit(u)
    BY <1>1 DEF HandlerStep, AwaitRecovery, AwaitGuards, ValidateCompletion, At
  <2>2. AdmitVisitReport(u)
    BY <2>1 DEF Admit, AdmitOpen, AdmitManual, AdmitAccept, AdmitReplace, AdmitCancel,
       AdmitComplete
  <2>3. Answer(u, "CASE_TERMINAL") \/ Answer(u, "NOT_IN_WINDOW") \/ Enter(u, "visit")
    BY <2>2 DEF AdmitVisitReport
  <2> QED BY <2>3, HandlerGoes
<1>2. ASSUME NEW lost \in LostReplies, HandlerActivity(u, lost) PROVE Begun'
  <2>1. StartActivity(u, lost)
    BY <1>2, KindActivity
  <2>2. ~StartVisit(u, lost)
    <3>1. StartVisit(u, lost) => Continue(u, "work") \/ \E result : Answer(u, result)
      BY DEF StartVisit, Lost, Then, Finish
    <3> QED BY <3>1, HandlerGoes
  <2>3. ~StartCase(u, lost)
    <3>1. StartCase(u, lost) => Continue(u, "flag") \/ \E result : Answer(u, result)
      BY DEF StartCase, Lost, Then, Finish
    <3> QED BY <3>1, HandlerGoes
  <2>4. ~FlagStart(u, lost)
    <3>1. FlagStart(u, lost) => \E result : Answer(u, result)
      BY DEF FlagStart, Lost, Finish
    <3> QED BY <3>1, HandlerGoes
  <2>5. StartAssignment(u, lost)
    BY <2>1, <2>2, <2>3, <2>4 DEF StartActivity
  <2> DEFINE out == Asg!StartOutcome(TheCase)
  <2>6. CASE out \in {"IN_PROGRESS", "ALREADY_IN_PROGRESS"}
    <3>1. CASE out = "IN_PROGRESS"
      BY <1>0, <2>5, <3>1 DEF StartAssignment, Asg!MarkAssignmentInProgress, Begun
    <3>2. CASE out = "ALREADY_IN_PROGRESS"
      <4>1. assignment[TheCase] = "IN_PROGRESS"
        BY <3>2 DEF Asg!StartOutcome
      <4> QED BY <2>5, <3>2, <4>1 DEF StartAssignment, Asg!MarkAssignmentInProgress, Begun
    <3> QED BY <2>6, <3>1, <3>2
  <2>7. CASE out \notin {"IN_PROGRESS", "ALREADY_IN_PROGRESS"}
    <3>1. Continue(u, "flag")
      BY <2>5, <2>7 DEF StartAssignment, Lost, Then
    <3> QED BY <3>1, HandlerGoes
  <2> QED BY <2>6, <2>7
<1>3. upd'[u].pc # "sent"
  OBVIOUS
<1> QED BY <1>1, <1>2, <1>3, KindSteps

\* The status of the Case says that work is under way, is finished or is called off only
\* by the handlers that say so.
LEMMA StatusMoves ==
    ASSUME WorkflowInv, [Next]_vars, Status' # Status
    PROVE  /\ Status' = "in_progress" =>
                 \E u \in Updates : KindOf[u] = "start" /\ upd[u].pc = "case"
           /\ Status' = "completed" =>
                 /\ Status = "in_progress"
                 /\ \E u \in Updates : KindOf[u] = "complete" /\ upd[u].pc = "case"
           /\ Status' = "cancelled" =>
                 /\ UNCHANGED main
                 /\ \E u \in Updates : KindOf[u] = "cancel" /\ upd[u].pc = "case"
<1> DEFINE Goal == /\ Status' = "in_progress" =>
                          \E u \in Updates : KindOf[u] = "start" /\ upd[u].pc = "case"
                   /\ Status' = "completed" =>
                          /\ Status = "in_progress"
                          /\ \E u \in Updates : KindOf[u] = "complete" /\ upd[u].pc = "case"
                   /\ Status' = "cancelled" =>
                          /\ UNCHANGED main
                          /\ \E u \in Updates : KindOf[u] = "cancel" /\ upd[u].pc = "case"
<1>0. caseStatus = [c \in Cases |-> caseStatus[c]] /\ TheCase \in Cases
  BY DEF WorkflowInv, Cas!CaseTypeOK, Cases
<1>1. CaseCall
  BY StepKinds, CallFrames, WorkflowFrame DEF OtherCaseAllocates, vars, atomVars, caseVars, Status
<1>2. ASSUME NEW op, NEW done, NEW to, NEW resolved, NEW raised, NEW out,
             Cas!Transition(TheCase, op, done, to, resolved, raised, out)
      PROVE  Status' = to
  BY <1>0, <1>2 DEF Cas!Transition, Status
<1>3. ASSUME NEW lost, BreachCase(lost) \/ MarkAssigned(lost) PROVE Status' \in {"pending", "assigned"}
  BY <1>2, <1>3 DEF BreachCase, MarkAssigned, Cas!MarkCaseBreached, Cas!MarkCaseAssigned
<1>4. ASSUME NEW u \in Updates, NEW lost, StartCase(u, lost)
      PROVE  Status' = "in_progress" /\ KindOf[u] = "start" /\ upd[u].pc = "case"
  BY <1>2, <1>4 DEF StartCase, At, Cas!MarkCaseInProgress
<1>5. ASSUME NEW u, NEW lost, ParkCase(u, lost) PROVE Status' = "pending_resident_input"
  BY <1>2, <1>5 DEF ParkCase, Cas!MarkCaseNoAccess
<1>6. ASSUME NEW u, NEW lost,
             \/ MissFlag(lost) \/ FlagAllocation(lost) \/ FlagStart(u, lost)
             \/ FlagCompletion(u, lost) \/ RecordAcceptance(u, lost)
      PROVE  FALSE
  BY <1>6 DEF MissFlag, FlagAllocation, FlagStart, FlagCompletion, RecordAcceptance,
     Cas!RaiseOfficerAttention, Cas!RecordAllocationAcceptance, Status
<1>7. ASSUME NEW u, NEW lost, OpenCase(u, lost) PROVE Status' = "pending"
  BY <1>0, <1>7 DEF OpenCase, Cas!CreateCase, Status
<1>8. ASSUME NEW u, NEW lost, RecordReplacement(u, lost) PROVE Status' = "assigned"
  BY <1>0, <1>8 DEF RecordReplacement, Cas!MarkCaseAppointmentReplaced, Status
<1>9. ASSUME NEW u \in Updates, NEW lost, CancelCase(u, lost)
      PROVE  Status' = "cancelled" /\ UNCHANGED main /\ KindOf[u] = "cancel" /\ upd[u].pc = "case"
  BY <1>0, <1>9 DEF CancelCase, At, OnlyCase, Cas!CancelCase, Status
<1>10. ASSUME NEW u \in Updates, NEW lost, CompleteCase(u, lost)
       PROVE  Status' = "completed" /\ Status = "in_progress"
              /\ KindOf[u] = "complete" /\ upd[u].pc = "case"
  <2>1. /\ Cas!CompleteCase(TheCase, u, Cas!CompleteCaseOutcome(TheCase, u))
        /\ KindOf[u] = "complete" /\ upd[u].pc = "case"
    BY <1>10 DEF CompleteCase, At
  <2>2. Cas!CompleteCaseOutcome(TheCase, u) = "COMPLETED"
    BY <2>1 DEF Cas!CompleteCase, Status
  <2>3. Status = "in_progress"
    BY <2>2 DEF Cas!CompleteCaseOutcome, Status
  <2> QED BY <1>0, <2>1, <2>2, <2>3 DEF Cas!CompleteCase, Status
<1>11. Goal
  BY <1>1, <1>3, <1>4, <1>5, <1>6, <1>7, <1>8, <1>9, <1>10 DEF CaseCall
<1> QED BY <1>11

\* An Assignment is never deleted.
LEMMA AssignmentStays ==
    ASSUME WorkflowInv, [Next]_vars, assignment[TheCase] # NONE
    PROVE  assignment'[TheCase] # NONE
<1>0. /\ assignment = [c \in Cases |-> assignment[c]] /\ TheCase \in Cases
      /\ NONE \notin {"PENDING_ACCEPTANCE", "ACCEPTED", "BREACHED", "IN_PROGRESS",
                      "COMPLETED", "CANCELLED"}
  BY AssignmentFacts, NoneIsNull DEF WorkflowInv, Asg!AssignmentTypeOK, Cases, Asg!AssignmentStatus
<1>1. ASSUME NEW lost, CommitWrites(lost) PROVE assignment'[TheCase] # NONE
  <2>1. \/ assignment' = assignment
        \/ assignment' = [assignment EXCEPT ![commit.case] = "PENDING_ACCEPTANCE"]
    BY <1>1 DEF CommitWrites, Asg!CommitWrite
  <2> QED BY <1>0, <2>1
<1>2. ASSUME NEW lost, Breach(lost) PROVE assignment'[TheCase] # NONE
  <2>1. \/ assignment' = assignment
        \/ assignment' = [assignment EXCEPT ![attempt[main.target].case] =
                             IF @ = "PENDING_ACCEPTANCE" THEN "BREACHED" ELSE @]
    BY <1>2 DEF Breach, Asg!BreachAllocationAttempt
  <2> QED BY <1>0, <2>1
<1>3. ASSUME NEW u, NEW lost, AcceptAttempt(u, lost) \/ StartAssignment(u, lost)
                              \/ CancelAssignment(u, lost) \/ CompleteAssignment(u, lost)
      PROVE  assignment'[TheCase] # NONE
  BY <1>0, <1>3 DEF AcceptAttempt, StartAssignment, CancelAssignment, CompleteAssignment,
     Asg!AcceptAllocationAttempt, Asg!MarkAssignmentInProgress, Asg!CancelAssignmentForCase,
     Asg!CompleteAssignment
<1>4. ASSUME NEW lost, CommitFails \/ CommitRequest(lost) \/ CommitRead(lost)
      PROVE  UNCHANGED assignment
  BY <1>4 DEF CommitFails, CommitRequest, CommitRead, Asg!CommitRollback, Asg!CommitBegin,
     Asg!CommitReadAssignment, Asg!CommitReadPending
<1>5. ~AssignmentCall => UNCHANGED assignment
  BY StepKinds, CallFrames, WorkflowFrame DEF OtherCaseAllocates, vars, atomVars, assignmentVars
<1> QED BY <1>1, <1>2, <1>3, <1>4, <1>5 DEF AssignmentCall

\* It is cancelled by a cancellation, which withdraws what is still offered.
LEMMA NewCancelled ==
    ASSUME WorkflowInv, [Next]_vars, assignment[TheCase] # "CANCELLED",
           assignment'[TheCase] = "CANCELLED"
    PROVE  /\ Asg!Pending(TheCase)' = {} /\ ~Begun
           /\ \E u \in Updates : KindOf[u] = "cancel" /\ upd[u].pc = "work"
<1>0. /\ assignment = [c \in Cases |-> assignment[c]] /\ TheCase \in Cases
      /\ attempt = [a \in AttemptIds |-> attempt[a]]
      /\ \A a \in AttemptIds : attempt[a] \in Asg!AttemptRow \cup {Asg!NoAttempt}
  BY AssignmentFacts DEF WorkflowInv, Asg!AssignmentTypeOK, Cases
<1>1. AssignmentCall
  BY StepKinds, CallFrames, WorkflowFrame DEF OtherCaseAllocates, vars, atomVars, assignmentVars
<1>2. ASSUME NEW u, NEW lost, CancelAssignment(u, lost)
      PROVE  /\ Asg!Pending(TheCase)' = {} /\ ~Begun
             /\ KindOf[u] = "cancel" /\ upd[u].pc = "work"
  <2> DEFINE out == Asg!CancelAssignmentOutcome(TheCase)
  <2>1. Asg!CancelAssignmentForCase(TheCase, out) /\ KindOf[u] = "cancel" /\ upd[u].pc = "work"
    BY <1>2 DEF CancelAssignment, At
  <2>2. out = "CANCELLED"
    BY <2>1 DEF Asg!CancelAssignmentForCase
  <2>3. attempt' = [a \in AttemptIds |->
            IF a \in Asg!Pending(TheCase) THEN [attempt[a] EXCEPT !.status = "WITHDRAWN"]
            ELSE attempt[a]]
    BY <2>1, <2>2 DEF Asg!CancelAssignmentForCase
  <2>4. ASSUME NEW a \in AttemptIds, attempt'[a].case = TheCase,
               attempt'[a].status = "PENDING_ACCEPTANCE"
        PROVE  FALSE
    BY <1>0, <2>3, <2>4 DEF Asg!Pending, Asg!AttemptsOf, Asg!AttemptRow, Asg!NoAttempt
  <2>5. Asg!Pending(TheCase)' = {}
    BY <2>4 DEF Asg!Pending, Asg!AttemptsOf
  <2>6. ~Begun
    BY <2>2 DEF Asg!CancelAssignmentOutcome, Begun
  <2> QED BY <2>1, <2>5, <2>6
<1>3. ASSUME NEW lost, CommitWrites(lost) PROVE FALSE
  <2>1. \/ assignment' = assignment
        \/ assignment' = [assignment EXCEPT ![commit.case] = "PENDING_ACCEPTANCE"]
    BY <1>3 DEF CommitWrites, Asg!CommitWrite
  <2> QED BY <1>0, <2>1
<1>4. ASSUME NEW lost, Breach(lost) PROVE FALSE
  <2>1. \/ assignment' = assignment
        \/ assignment' = [assignment EXCEPT ![attempt[main.target].case] =
                             IF @ = "PENDING_ACCEPTANCE" THEN "BREACHED" ELSE @]
    BY <1>4 DEF Breach, Asg!BreachAllocationAttempt
  <2> QED BY <1>0, <2>1
<1>5. ASSUME NEW u, NEW lost, AcceptAttempt(u, lost) \/ StartAssignment(u, lost)
                              \/ CompleteAssignment(u, lost)
      PROVE  FALSE
  BY <1>0, <1>5 DEF AcceptAttempt, StartAssignment, CompleteAssignment,
     Asg!AcceptAllocationAttempt, Asg!MarkAssignmentInProgress, Asg!CompleteAssignment
<1>6. ASSUME NEW lost, CommitFails \/ CommitRequest(lost) \/ CommitRead(lost)
      PROVE  FALSE
  BY <1>6 DEF CommitFails, CommitRequest, CommitRead, Asg!CommitRollback, Asg!CommitBegin,
     Asg!CommitReadAssignment, Asg!CommitReadPending
<1> QED BY <1>1, <1>2, <1>3, <1>4, <1>5, <1>6 DEF AssignmentCall

\* An offer is opened by the commit that makes it.
LEMMA NewOffer ==
    ASSUME WorkflowInv, [Next]_vars, NEW a \in AttemptIds,
           a \notin Asg!Pending(TheCase), a \in Asg!Pending(TheCase)'
    PROVE  \E lost \in LostReplies : CommitWrites(lost)
<1>0. /\ attempt = [b \in AttemptIds |-> attempt[b]]
      /\ \A b \in AttemptIds : attempt[b] # Asg!NoAttempt => attempt[b] \in Asg!AttemptRow
      /\ attempt'[a].case = TheCase /\ attempt'[a].status = "PENDING_ACCEPTANCE"
      /\ attempt'[a] # Asg!NoAttempt
  BY AssignmentFacts DEF WorkflowInv, Asg!AssignmentTypeOK, Asg!Pending, Asg!AttemptsOf, Asg!NoAttempt
<1>1. CASE attempt[a] = Asg!NoAttempt
  BY <1>0, <1>1, NewAttempt
<1>2. CASE attempt[a] # Asg!NoAttempt
  <2>0. attempt[a].case = TheCase /\ attempt[a].status # "PENDING_ACCEPTANCE"
        /\ attempt[a] \in Asg!AttemptRow
    BY <1>2, OfferIsRow DEF Asg!Pending, Asg!AttemptsOf
  <2>1. AssignmentCall
    BY <1>0, <2>0, StepKinds, CallFrames, WorkflowFrame
       DEF OtherCaseAllocates, vars, atomVars, assignmentVars
  <2>2. ASSUME NEW lost, Breach(lost) PROVE FALSE
    <3>1. main.target \in AttemptIds
      BY <2>2 DEF Breach, WorkflowInv, Shape, LoopShape
    <3> QED BY <1>0, <2>0, <2>2, <3>1 DEF Breach, Asg!BreachAllocationAttempt, Asg!AttemptRow
  <2>3. ASSUME NEW u \in Updates, NEW lost, AcceptAttempt(u, lost) PROVE FALSE
    <3>1. upd[u].target \in AttemptIds
      BY <2>3 DEF AcceptAttempt, At, WorkflowInv, UpdateNames, Names
    <3> QED BY <1>0, <2>0, <2>3, <3>1 DEF AcceptAttempt, Asg!AcceptAllocationAttempt, Asg!AttemptRow
  <2>4. ASSUME NEW u, NEW lost, CancelAssignment(u, lost) PROVE FALSE
    BY <1>0, <2>0, <2>4 DEF CancelAssignment, Asg!CancelAssignmentForCase, Asg!AttemptRow
  <2>5. ASSUME NEW v, NEW lost,
               \/ CommitFails \/ CommitRequest(lost) \/ CommitRead(lost)
               \/ StartAssignment(v, lost) \/ CompleteAssignment(v, lost)
        PROVE  FALSE
    BY <1>0, <2>0, <2>5 DEF CommitFails, CommitRequest, CommitRead, StartAssignment,
       CompleteAssignment, Asg!CommitRollback, Asg!CommitBegin, Asg!CommitReadAssignment,
       Asg!CommitReadPending, Asg!MarkAssignmentInProgress, Asg!CompleteAssignment
  <2> QED BY <2>1, <2>2, <2>3, <2>4, <2>5 DEF AssignmentCall
<1> QED BY <1>1, <1>2

\* The loop begins an allocation only for a Case that has not ended.
LEMMA AllocationStarts ==
    ASSUME WorkflowInv, [Next]_vars, main.pc \notin {"snapshot", "commit"},
           main'.pc \in {"snapshot", "commit"}
    PROVE  main.pc = "terminal" /\ ~Ended
<1>0. IsLoop(main) /\ ~UNCHANGED main
  BY DEF WorkflowInv, Shape, LoopShape
<1>1. ~(\/ Restarted \/ ExpiryOver \/ (\E w, r : AllocationOver(w, r))
        \/ \E pc : pc \notin {"snapshot", "commit"} /\ Goto(pc))
  BY LoopGoes
<1>2. ~(Top \/ Due \/ BreachCheck \/ Shift \/ FetchSnapshot)
  <2>1. ~Top
    <3>1. Top => main'.pc \in {"waitCancel", "shift", "idle"}
      BY DEF Top, AtTop
    <3> QED BY <3>1
  <2>2. ~Due
    <3>1. Due => \/ main' = AtTop
                 \/ main' = [main EXCEPT !.pc = "missVisit", !.target = wf.visit]
                 \/ main' = [main EXCEPT !.pc = "breachCheck"]
      BY DEF Due
    <3>2. main' # AtTop
      BY DEF AtTop
    <3>3. main' # [main EXCEPT !.pc = "missVisit", !.target = wf.visit]
      BY <1>0 DEF IsLoop
    <3>4. main' # [main EXCEPT !.pc = "breachCheck"]
      BY <1>0 DEF IsLoop
    <3> QED BY <3>1, <3>2, <3>3, <3>4
  <2>3. ~BreachCheck
    <3>1. BreachCheck => \/ main' = [main EXCEPT !.pc = "breach", !.target = wf.attempt]
                         \/ main' = [main EXCEPT !.pc = "shift"]
      BY DEF BreachCheck
    <3> QED BY <1>0, <3>1 DEF IsLoop
  <2>4. ~Shift
    BY <1>1 DEF Shift, AtTop
  <2>5. ~FetchSnapshot
    BY DEF FetchSnapshot
  <2> QED BY <2>1, <2>2, <2>3, <2>4, <2>5
<1>3. LoopStep => main.pc = "terminal" /\ ~Ended
  BY <1>1, <1>2 DEF LoopStep, CancellationSettled, Wake, GateAccept, GateVisit, Close, CheckTerminal
<1>4. ASSUME NEW lost, Breach(lost) PROVE FALSE
  <2>1. main.target \in AttemptIds /\ attempt[main.target] \in Asg!AttemptRow
    BY <1>4, OfferIsRow DEF Breach, Asg!BreachAllocationAttempt, WorkflowInv, Shape, LoopShape
  <2>2. Asg!BreachOutcome(main.target) \in {"BREACHED", "ALREADY_BREACHED", "ACCEPTED", "WITHDRAWN"}
    BY <2>1 DEF Asg!BreachOutcome, Asg!AttemptRow, Asg!AttemptStatus
  <2> QED BY <1>0, <1>1, <1>4, <2>2 DEF Breach
<1>5. commit = Asg!NoCommit
  BY DEF WorkflowInv, CommitIsAwaited
<1>6. ASSUME NEW lost, CommitRequest(lost) \/ CommitRead(lost) \/ CommitWrites(lost) PROVE FALSE
  BY <1>5, <1>6 DEF CommitRequest, CommitRead, CommitWrites, Asg!CommitReadAssignment,
     Asg!CommitReadPending, Asg!CommitWrite, Asg!NoCommit
<1>7. ASSUME NEW lost, \/ MissVisit(lost) \/ MissFlag(lost) \/ BreachCase(lost)
                       \/ MarkAssigned(lost) \/ FlagAllocation(lost)
      PROVE  FALSE
  BY <1>0, <1>1, <1>7 DEF MissVisit, MissFlag, BreachCase, MarkAssigned, FlagAllocation
<1>8. ASSUME NEW u \in Updates,
              HandlerStep(u) \/ \E lost \in LostReplies : HandlerActivity(u, lost)
      PROVE  FALSE
  BY <1>0, <1>8, HandlerStepRun, ActivityRun, WorkflowAssumption DEF HandlerRun
<1>9. ~(CommitFails \/ Tick \/ OtherCaseAllocates \/ (\E u \in Updates : Send(u)) \/ UNCHANGED vars)
  BY <1>0 DEF CommitFails, Tick, OtherCaseAllocates, Send, vars, workflowVars
<1>10. ~StartRun
  BY <1>1 DEF StartRun
<1> QED BY <1>3, <1>4, <1>6, <1>7, <1>8, <1>9, <1>10 DEF Next, LoopActivity

\* A cancellation that has come to the Assignment or the Case.
AtRecords(u) == KindOf[u] = "cancel" /\ upd[u].pc \in {"work", "case"}

\* The Case says work has started only if it has; its Assignment is cancelled by a
\* cancellation that goes on to the Case or has ended it; a commit that found an
\* Assignment still finds it; an offer is open only on an Assignment that is not
\* cancelled; and no allocation is under way for a cancelled Case.
OfferInv ==
    /\ \A u \in Updates : KindOf[u] = "start" /\ upd[u].pc = "case" => Begun
    /\ Status \in {"in_progress", "completed"} => Begun
    /\ assignment[TheCase] = "CANCELLED" =>
           Status = "cancelled" \/ \E u \in Updates : AtRecords(u)
    /\ commit.replace # NONE \/ commit.saw # NONE => assignment[TheCase] # NONE
    /\ Asg!Pending(TheCase) # {} => assignment[TheCase] \notin {NONE, "CANCELLED"}
    /\ Status = "cancelled" => /\ main.pc \notin {"snapshot", "commit"}
                               /\ assignment[TheCase] \in {NONE, "CANCELLED"}

\* It is kept.
LEMMA OfferStep ==
    ASSUME WorkflowInv, CancelInv, OfferInv, [Next]_vars
    PROVE  OfferInv'
<1>0. Begun => Begun'
  BY RecordsStand DEF AsgP!WorkStands, Cases, Begun
<1>1. ASSUME NEW u \in Updates, KindOf[u] = "start", upd'[u].pc = "case" PROVE Begun'
  <2>1. CASE upd'[u] = upd[u]
    BY <1>0, <1>1, <2>1 DEF OfferInv
  <2>2. CASE upd'[u] # upd[u]
    BY <1>1, <2>2, StartReachesCase
  <2> QED BY <2>1, <2>2
<1>2. ASSUME Status' \in {"in_progress", "completed"} PROVE Begun'
  BY <1>0, <1>2, StatusMoves DEF OfferInv
<1>3. ASSUME assignment'[TheCase] = "CANCELLED"
      PROVE  Status' = "cancelled" \/ \E u \in Updates : AtRecords(u)'
  <2>1. ~Begun
    BY <1>0, <1>3 DEF Begun
  <2>2. ASSUME NEW u \in Updates, AtRecords(u)
        PROVE  Status' = "cancelled" \/ AtRecords(u)'
    <3>1. CASE upd'[u] = upd[u]
      BY <2>2, <3>1 DEF AtRecords
    <3>2. CASE upd'[u] # upd[u]
      <4>1. upd'[u].pc # "sent"
        BY <2>2, <3>2, EveryStepMoves DEF UpdatesMove, Sends, Proceeds, Answers, AtRecords
      <4>2. CancellationMoves(u)
        BY <2>2, <3>2, CancellationGoes DEF AtRecords
      <4>3. Status \notin {"in_progress", "completed"}
        BY <2>1 DEF OfferInv
      <4> QED BY <2>1, <2>2, <4>1, <4>2, <4>3 DEF AtRecords, CancellationMoves, Begun
    <3> QED BY <3>1, <3>2
  <2>3. CASE assignment[TheCase] = "CANCELLED"
    BY <2>2, <2>3, EndIsFinal DEF OfferInv
  <2>4. CASE assignment[TheCase] # "CANCELLED"
    <3>1. \E u \in Updates : AtRecords(u)
      BY <1>3, <2>4, NewCancelled DEF AtRecords
    <3> QED BY <2>2, <3>1
  <2> QED BY <2>3, <2>4
<1>4. ASSUME commit'.replace # NONE \/ commit'.saw # NONE PROVE assignment'[TheCase] # NONE
  <2>1. commit' # Asg!NoCommit
    BY <1>4 DEF Asg!NoCommit
  <2>2. CASE assignment[TheCase] # NONE
    BY <2>2, AssignmentStays
  <2>3. CASE assignment[TheCase] = NONE
    BY <1>4, <2>1, <2>3, CommitMoves DEF OfferInv
  <2> QED BY <2>2, <2>3
<1>5. ASSUME NEW lost, CommitWrites(lost) PROVE assignment'[TheCase] \notin {NONE, "CANCELLED"}
  <2>1. commit # Asg!NoCommit
    BY <1>5 DEF CommitWrites, Asg!CommitWrite, Asg!NoCommit
  <2>2. commit.case = TheCase /\ main.pc = "commit"
    BY <2>1, CommitOfCase
  <2>3. assignment[TheCase] # "CANCELLED"
    BY <2>2 DEF OfferInv, CancelInv, Cancelling, AtRecords, QuietPcs
  <2>4. CASE commit.replace = NONE /\ commit.saw \in {NONE, "BREACHED"}
    <3>1. assignment = [c \in Cases |-> assignment[c]] /\ TheCase \in Cases
      BY AssignmentFacts DEF WorkflowInv, Asg!AssignmentTypeOK, Cases
    <3>2. assignment'[TheCase] = "PENDING_ACCEPTANCE"
      BY <1>5, <2>2, <2>4, <3>1 DEF CommitWrites, Asg!CommitWrite
    <3> QED BY <3>2, NoneIsNull DEF Asg!AssignmentStatus
  <2>5. CASE ~(commit.replace = NONE /\ commit.saw \in {NONE, "BREACHED"})
    <3>1. assignment' = assignment
      BY <1>5, <2>5 DEF CommitWrites, Asg!CommitWrite
    <3>2. assignment[TheCase] # NONE
      BY <2>5 DEF OfferInv
    <3> QED BY <2>3, <3>1, <3>2
  <2> QED BY <2>4, <2>5
<1>6. ASSUME NEW a \in Asg!Pending(TheCase)' PROVE assignment'[TheCase] \notin {NONE, "CANCELLED"}
  <2>1. CASE a \in Asg!Pending(TheCase)
    <3>1. assignment[TheCase] \notin {NONE, "CANCELLED"}
      BY <2>1 DEF OfferInv
    <3> QED BY <1>6, <3>1, AssignmentStays, NewCancelled
  <2>2. CASE a \notin Asg!Pending(TheCase)
    <3>1. a \in AttemptIds
      BY <1>6 DEF Asg!Pending, Asg!AttemptsOf
    <3>2. \E lost \in LostReplies : CommitWrites(lost)
      BY <1>6, <2>2, <3>1, NewOffer
    <3> QED BY <1>5, <3>2
  <2> QED BY <2>1, <2>2
<1>7. ASSUME Status' = "cancelled"
      PROVE  main'.pc \notin {"snapshot", "commit"} /\ assignment'[TheCase] \in {NONE, "CANCELLED"}
  <2>1. CASE Status = "cancelled"
    <3>1. main.pc \notin {"snapshot", "commit"} /\ assignment[TheCase] \in {NONE, "CANCELLED"}
      BY <2>1 DEF OfferInv
    <3>2. Ended
      BY <2>1 DEF Ended, Cas!Terminal, Status
    <3> QED BY <3>1, <3>2, AllocationStarts, NoWorkStays
  <2>2. CASE Status # "cancelled"
    <3>1. PICK u \in Updates : KindOf[u] = "cancel" /\ upd[u].pc = "case" /\ UNCHANGED main
      BY <1>7, <2>2, StatusMoves
    <3>2. main.pc \in QuietPcs /\ assignment[TheCase] \in {NONE, "CANCELLED"}
      BY <3>1 DEF CancelInv, Cancelling
    <3> QED BY <3>1, <3>2, NoWorkStays DEF QuietPcs
  <2> QED BY <2>1, <2>2
<1> QED BY <1>1, <1>2, <1>3, <1>4, <1>6, <1>7 DEF OfferInv

\* It holds at first.
LEMMA OfferStart == Init => CancelInv /\ OfferInv
  BY NoneIsNull DEF Init, NewUpdate, AtTop, Asg!AssignmentInit, Cas!CaseInit, Asg!NoCommit,
     Asg!NoAttempt, CancelInv, HandlersFinished, Cancelling, OfferInv, AtRecords, Asg!Pending,
     Asg!AttemptsOf, Status, Cases, Cas!CaseStatus, Asg!AssignmentStatus

\* A Case that was cancelled has no offer a Contractor could still accept and no work: an
\* allocation, an acceptance, a breach or a start of work that was under way when it was
\* cancelled has ended before, or finds it cancelled, however its replies were lost.
THEOREM CancelledCasesOfferNothing ==
    Spec => [](Status = "cancelled" => /\ assignment[TheCase] \in {NONE, "CANCELLED"}
                                       /\ Asg!Pending(TheCase) = {})
<1>1. WorkflowInv /\ CancelInv /\ OfferInv /\ [Next]_vars => CancelInv' /\ OfferInv'
  BY CancelStep, OfferStep
<1>2. OfferInv => (Status = "cancelled" => /\ assignment[TheCase] \in {NONE, "CANCELLED"}
                                           /\ Asg!Pending(TheCase) = {})
  BY DEF OfferInv
<1> QED BY <1>1, <1>2, OfferStart, WorkflowInvariant, PTL DEF Spec

-----------------------------------------------------------------------------
(* Where no visit is recovered, a cancelled Case has no visit either.        *)

\* An acceptance is admitted while no cancellation is under way.
LEMMA Admitted ==
    ASSUME WorkflowInv, [Next]_vars, NEW u \in Updates, u \notin Accepting, u \in Accepting'
    PROVE  upd[u].pc = "sent" /\ ~wf.cancelling
<1>1. KindOf[u] = "accept" /\ upd'[u] # upd[u] /\ upd'[u].pc \notin {"new", "sent", "queued", "await", "done"}
  BY DEF Accepting, Running
<1>2. upd[u].pc \in {"new", "sent", "done"}
  BY <1>1 DEF Accepting, Running, WorkflowInv, Shape, UpdateShape, PcFits
<1>3. upd[u].pc = "sent"
  <2>1. upd[u].pc # "done"
    BY <1>1, DoneStays
  <2>2. upd[u].pc # "new"
    BY <1>1, EveryStepMoves DEF UpdatesMove, Sends, Proceeds, Answers
  <2> QED BY <1>2, <2>1, <2>2
<1>4. HandlerStep(u)
  <2>1. HandlerStep(u) \/ \E lost \in LostReplies : HandlerActivity(u, lost)
    BY <1>1, <1>3, OwnSteps
  <2> QED BY <1>3, <2>1, ActivityMoves, WorkflowAssumption
<1>5. AdmitAccept(u)
  BY <1>1, <1>3, <1>4 DEF HandlerStep, AwaitRecovery, AwaitGuards, ValidateCompletion, At,
     Admit, AdmitOpen, AdmitManual, AdmitVisitReport, AdmitReplace, AdmitCancel, AdmitComplete
<1>6. ~wf.cancelling
  BY <1>1, <1>5, HandlerGoes DEF AdmitAccept
<1> QED BY <1>3, <1>6

\* A visit is booked by the confirmation of an acceptance, or by a replacement.
LEMMA NewVisit ==
    ASSUME WorkflowInv, [Next]_vars, NEW x \in ClaimIds,
           appointment[x] = NONE, appointment'[x] # NONE
    PROVE  \/ KindOf[x] = "accept" /\ upd[x].pc = "confirm"
           \/ KindOf[x] = "replace"
<1>0. /\ appointment = [y \in ClaimIds |-> appointment[y]]
      /\ KindOf[x] \in {"accept", "replace"}
  BY DEF WorkflowInv, Apt!AppointmentTypeOK, ClaimIds
<1>1. AppointmentCall
  BY StepKinds, CallFrames, WorkflowFrame DEF OtherCaseAllocates, vars, atomVars, appointmentVars
<1>2. ASSUME NEW u \in Updates, NEW lost, ConfirmSlot(u, lost)
      PROVE  KindOf[x] = "accept" /\ upd[x].pc = "confirm"
  <2>1. KindOf[u] = "accept" /\ upd[u].pc = "confirm"
    BY <1>2 DEF ConfirmSlot, At
  <2>2. x = u
    BY <1>0, <1>2 DEF ConfirmSlot, Apt!ConfirmAppointmentSlot
  <2> QED BY <2>1, <2>2
<1>3. ASSUME NEW u \in Updates, NEW lost, ReplaceVisit(u, lost) PROVE KindOf[x] = "replace"
  <2>1. /\ KindOf[u] = "replace" /\ u \in ClaimIds
        /\ upd[u].target \in ClaimIds /\ appointment[upd[u].target] # NONE
    BY <1>3, ReportedVisit, VisitIsRow DEF ReplaceVisit, At, ClaimIds
  <2>2. x = u
    BY <1>0, <1>3, <2>1 DEF ReplaceVisit, Apt!ReplaceAppointmentSlot
  <2> QED BY <2>1, <2>2
<1>4. ASSUME NEW y, NEW to, NEW done, NEW out, appointment[y] # NONE \/ out # done,
             Apt!LeaveScheduled(y, to, done, out)
      PROVE  FALSE
  BY <1>0, <1>4 DEF Apt!LeaveScheduled
<1>5. ASSUME NEW u, NEW lost, StartVisit(u, lost) \/ FailVisit(u, lost) \/ MissVisit(lost)
      PROVE  FALSE
  BY <1>4, <1>5 DEF StartVisit, FailVisit, MissVisit, Apt!StartWorkAppointment,
     Apt!ReportNoAccessAppointment, Apt!MarkAppointmentMissed, Apt!StartVisitOutcome,
     Apt!NoAccessOutcome, Apt!MissedOutcome, Apt!LeaveScheduledOutcome
<1>6. ASSUME NEW u, NEW lost, CompleteVisit(u, lost) PROVE FALSE
  BY <1>0, <1>6 DEF CompleteVisit, Apt!CompleteAppointment, Apt!CompleteVisitOutcome
<1>7. ASSUME NEW u, NEW lost, CancelVisit(u, lost) PROVE FALSE
  BY <1>0, <1>7, NoneIsNull DEF CancelVisit, Apt!CancelScheduledAppointment, Apt!AppointmentStatus
<1>8. ASSUME NEW u, NEW lost, ReserveSlot(u, lost) \/ ReleaseSlot(u, lost) PROVE FALSE
  BY <1>8 DEF ReserveSlot, ReleaseSlot, Apt!ReserveAppointmentSlot, Apt!ReleaseAppointmentSlot
<1> QED BY <1>1, <1>2, <1>3, <1>5, <1>6, <1>7, <1>8 DEF AppointmentCall

\* A visit that is over is never live again.
LEMMA OverStays ==
    ASSUME WorkflowInv, [Next]_vars, NEW x \in ClaimIds, appointment[x] # NONE, ~Apt!Live(x)
    PROVE  ~Apt!Live(x)'
<1>1. appointment[x] \in AptP!AppointmentStatus \ {"scheduled", "in_progress"}
  BY DEF WorkflowInv, Apt!AppointmentTypeOK, Apt!Live, Apt!AppointmentStatus, AptP!AppointmentStatus
<1>2. [AptP!AppointmentNext]_(AptP!appointmentVars)
  BY AppointmentCalls, SameAppointment DEF appointmentVars, AptP!appointmentVars
<1>3. AptP!AppointmentTypeOK
  BY SameAppointment DEF WorkflowInv
<1>4. UNCHANGED AptP!appointmentVars => appointment' = appointment
  BY DEF AptP!appointmentVars
<1>5. appointment'[x] = appointment[x]
  BY <1>1, <1>2, <1>3, <1>4, AppointmentAssumptions, AptP!OutcomesStand
<1> QED BY <1>5 DEF Apt!Live

\* An acceptance is on record, on one offer of the Case at most.
OnRecord(u) == \E a \in AttemptIds : attempt[a].acceptedBy = u

\* No acceptance is under way once a cancellation touches the records; every visit is an
\* acceptance's, none of them live from the Assignment's turn on; and an acceptance that
\* is still under way after the end has not got its offer.
VisitInv ==
    /\ \A u \in Updates : KindOf[u] = "cancel" /\ upd[u].pc \in {"visit", "work", "case"}
           => Accepting = {}
    /\ \A x \in ClaimIds : appointment[x] # NONE => OnRecord(x)
    /\ Status = "cancelled" \/ (\E u \in Updates : AtRecords(u))
           => \A x \in Apt!VisitsOf(TheCase) : ~Apt!Live(x)
    /\ Status = "cancelled" => \A u \in Accepting : ~OnRecord(u)

\* A cancellation finds one live visit at most, and leaves none.
LEMMA CancelledVisit ==
    ASSUME WorkflowInv, VisitInv, NEW u \in Updates, CancelVisit(u, FALSE), upd'[u].pc = "work",
           NEW x \in ClaimIds, appointment[x] # NONE, claim[x].case = TheCase
    PROVE  ~Apt!Live(x)'
<1> DEFINE out == Apt!CancelVisitOutcome(TheCase)
<1>0. /\ appointment = [y \in ClaimIds |-> appointment[y]] /\ x \in Apt!VisitsOf(TheCase)
  BY DEF WorkflowInv, Apt!AppointmentTypeOK, Apt!VisitsOf
<1>1. Apt!CancelScheduledAppointment(TheCase, out)
  BY DEF CancelVisit
<1>2. CASE out = "CANCELLED"
  <2>1. PICK y \in Apt!VisitsOf(TheCase) :
            appointment' = [appointment EXCEPT ![y] = "cancelled"] /\ appointment[y] = "scheduled"
    BY <1>1, <1>2 DEF Apt!CancelScheduledAppointment
  <2>2. y \in ClaimIds /\ appointment[y] # NONE
    BY <2>1 DEF Apt!VisitsOf
  <2>3. x = y
    <3>1. PICK a \in AttemptIds : attempt[a].acceptedBy = x
      BY DEF VisitInv, OnRecord
    <3>2. PICK b \in AttemptIds : attempt[b].acceptedBy = y
      BY <2>2 DEF VisitInv, OnRecord
    <3>3. x # NONE /\ y # NONE
      BY <2>2, NoneIsNull DEF ClaimIds
    <3>4. attempt[a].case = TheCase /\ attempt[b].case = TheCase
      BY <3>1, <3>2, <3>3, OfferIsRow DEF Asg!NoAttempt
    <3>5. a = b
      BY <3>1, <3>2, <3>3, <3>4, AssignmentFacts DEF WorkflowInv, Asg!AtMostOneAcceptance
    <3> QED BY <3>1, <3>2, <3>5
  <2> QED BY <1>0, <2>1, <2>3 DEF Apt!Live
<1>3. CASE out = "IN_PROGRESS"
  <2>1. Answer(u, "NOT_CANCELLABLE")
    BY <1>3 DEF CancelVisit, CancellationRejected
  <2> QED BY <2>1, HandlerGoes
<1>4. CASE out \notin {"CANCELLED", "IN_PROGRESS"}
  <2>1. ~Apt!Live(x)
    BY <1>0, <1>4 DEF Apt!CancelVisitOutcome
  <2>2. UNCHANGED appointment
    BY <1>1, <1>4 DEF Apt!CancelScheduledAppointment
  <2> QED BY <2>1, <2>2 DEF Apt!Live
<1> QED BY <1>2, <1>3, <1>4

\* VisitInv is kept where nobody replaces a visit.
LEMMA VisitStepKept ==
    ASSUME WorkflowInv, CancelInv, OfferInv, BookedInv, VisitInv, [Next]_vars,
           \A u \in Updates : KindOf[u] # "replace"
    PROVE  VisitInv'
<1>1. ASSUME NEW u \in Updates, Cancelling(u), NEW v \in Accepting' PROVE v \in Accepting
  <2>1. wf.cancelling /\ v \in Updates
    BY <1>1 DEF CancelInv, Accepting
  <2> QED BY <1>1, <2>1, Admitted
<1>2. ASSUME NEW u \in Updates, KindOf[u] = "cancel", upd'[u].pc \in {"visit", "work", "case"}
      PROVE  Accepting' = {}
  <2>1. CASE upd[u].pc \in {"visit", "work", "case"}
    <3>1. Cancelling(u) /\ Accepting = {}
      BY <1>2, <2>1 DEF VisitInv, Cancelling
    <3> QED BY <1>1, <3>1
  <2>2. CASE upd[u].pc \notin {"visit", "work", "case"}
    <3>1. upd[u].pc = "await" /\ AwaitGuards(u)
      BY <1>2, <2>2, CancellationGoes DEF CancellationMoves
    <3>2. Cancelling(u) /\ Accepting = {}
      BY <1>2, <3>1 DEF AwaitGuards, NothingUnderWay, Cancelling
    <3> QED BY <1>1, <3>2
  <2> QED BY <2>1, <2>2
<1>3. ASSUME NEW x \in ClaimIds, appointment[x] = NONE, appointment'[x] # NONE
      PROVE  x \in Accepting /\ OnRecord(x)
  <2>1. x \in Updates /\ KindOf[x] = "accept" /\ upd[x].pc = "confirm"
    BY <1>3, NewVisit DEF ClaimIds
  <2> QED BY <2>1 DEF Accepting, Running, BookedInv, OnRecord
<1>4. ASSUME NEW x \in ClaimIds, appointment'[x] # NONE PROVE OnRecord(x)'
  <2>1. x \in Updates
    BY DEF ClaimIds
  <2>2. OnRecord(x)
    BY <1>3, <1>4 DEF VisitInv
  <2> QED BY <2>1, <2>2, BookingsStay DEF OnRecord
<1>5. ASSUME Status = "cancelled" \/ \E u \in Updates : AtRecords(u),
             NEW x \in Apt!VisitsOf(TheCase)'
      PROVE  ~Apt!Live(x)'
  <2>1. x \in ClaimIds /\ appointment'[x] # NONE /\ claim'[x].case = TheCase
    BY <1>5 DEF Apt!VisitsOf
  <2>2. appointment[x] # NONE
    <3>1. Status = "cancelled" => \A u \in Accepting : ~OnRecord(u)
      BY DEF VisitInv
    <3>2. (\E u \in Updates : AtRecords(u)) => Accepting = {}
      BY DEF VisitInv, AtRecords
    <3> QED BY <1>3, <1>5, <2>1, <3>1, <3>2
  <2>3. claim[x] # Apt!NoClaim
    BY <2>1, <2>2 DEF WorkflowInv, ClaimsNameOffers
  <2>4. x \in Apt!VisitsOf(TheCase)
    BY <2>1, <2>2, <2>3, ClaimIsRow DEF Apt!VisitsOf
  <2>5. ~Apt!Live(x)
    BY <1>5, <2>4 DEF VisitInv
  <2> QED BY <2>1, <2>2, <2>5, OverStays
<1>6. ASSUME NEW u \in Updates, AtRecords(u)', ~AtRecords(u), NEW x \in Apt!VisitsOf(TheCase)'
      PROVE  ~Apt!Live(x)'
  <2>1. KindOf[u] = "cancel" /\ upd'[u].pc \in {"work", "case"} /\ upd[u].pc \notin {"work", "case"}
    BY <1>6 DEF AtRecords
  <2>2. upd[u].pc = "visit" /\ upd'[u].pc = "work" /\ CancelVisit(u, FALSE)
    BY <2>1, CancellationGoes DEF CancellationMoves
  <2>3. x \in ClaimIds /\ appointment'[x] # NONE
    BY <1>6 DEF Apt!VisitsOf
  <2>4. appointment[x] # NONE
    <3>1. Accepting = {}
      BY <2>1, <2>2 DEF VisitInv
    <3> QED BY <1>3, <2>3, <3>1
  <2>5. claim[x].case = TheCase
    BY <2>3, <2>4, ClaimIsRow DEF WorkflowInv, ClaimsNameOffers
  <2> QED BY <2>2, <2>3, <2>4, <2>5, CancelledVisit
<1>7. ASSUME Status' = "cancelled", Status # "cancelled" PROVE \E u \in Updates : AtRecords(u)
  BY <1>7, StatusMoves DEF AtRecords
<1>8. ASSUME Status' = "cancelled", NEW u \in Accepting' PROVE ~OnRecord(u)'
  <2>0. u \in Updates /\ KindOf[u] = "accept"
    BY <1>8 DEF Accepting
  <2>1. CASE Status # "cancelled"
    <3>1. PICK v \in Updates : AtRecords(v)
      BY <1>7, <1>8, <2>1
    <3>2. Cancelling(v) /\ Accepting = {}
      BY <3>1 DEF AtRecords, Cancelling, VisitInv
    <3> QED BY <1>1, <1>8, <3>2
  <2>2. CASE Status = "cancelled"
    <3>1. ~OnRecord(u)
      <4>1. CASE u \in Accepting
        BY <2>2, <4>1 DEF VisitInv
      <4>2. CASE u \notin Accepting
        <5>1. upd[u].pc = "sent"
          BY <1>8, <2>0, <4>2, Admitted
        <5> QED BY <2>0, <5>1 DEF WorkflowInv, NothingBefore, OnRecord
      <4> QED BY <4>1, <4>2
    <3>2. assignment[TheCase] # "PENDING_ACCEPTANCE"
      BY <2>2, NoneIsNull DEF OfferInv, Asg!AssignmentStatus
    <3> QED BY <2>0, <3>1, <3>2, NewAcceptance DEF OnRecord
  <2> QED BY <2>1, <2>2
<1>9. \A x \in Apt!VisitsOf(TheCase)' :
          Status' = "cancelled" \/ (\E u \in Updates : AtRecords(u)') => ~Apt!Live(x)'
  BY <1>5, <1>6, <1>7
<1> QED BY <1>2, <1>4, <1>8, <1>9 DEF VisitInv

\* It holds at first.
LEMMA VisitStart == Init => BookedInv /\ VisitInv
  BY NoneIsNull DEF Init, NewUpdate, Apt!AppointmentInit, Cas!CaseInit, BookedInv, VisitInv,
     AtRecords, Accepting, Running, Apt!VisitsOf, Status, Cases, Cas!CaseStatus

\* Where nobody replaces a visit, a Case that was cancelled keeps nothing alive: no offer,
\* no work and no visit on a Contractor's calendar.  A cancellation waits for acceptances
\* under way, those admitted later find the Assignment cancelled, and it finds one live
\* visit at most, because one offer of a Case is ever accepted.  Only a replacement that
\* recovers a failed visit, which it does not wait for, can book one after it.
THEOREM CancelledCasesAreQuiet ==
    ASSUME \A u \in Updates : KindOf[u] # "replace"
    PROVE  Spec => []CancelledCaseIsQuiet
<1>1. WorkflowInv /\ CancelInv /\ OfferInv /\ BookedInv /\ VisitInv /\ [Next]_vars
          => CancelInv' /\ OfferInv' /\ BookedInv' /\ VisitInv'
  BY CancelStep, OfferStep, BookedStep, VisitStepKept
<1>2. OfferInv /\ VisitInv => CancelledCaseIsQuiet
  BY DEF OfferInv, VisitInv, CancelledCaseIsQuiet
<1> QED BY <1>1, <1>2, OfferStart, VisitStart, WorkflowInvariant, PTL DEF Spec

-----------------------------------------------------------------------------
(* How visits and the time they hold move.                                   *)

\* A claim whose time nobody else may book.
Holds(x) == claim[x].status = "ACTIVE"

\* Each visit, in one step, stays as it is, is booked, is replaced, is cancelled, is
\* missed or is attended; only the first four move the time it holds.
VisitBooked(x) ==
    /\ appointment[x] = NONE /\ appointment'[x] = "scheduled" /\ Holds(x)'
    /\ \/ KindOf[x] = "accept" /\ upd[x].pc = "confirm"
       \/ /\ KindOf[x] = "replace" /\ upd[x].pc = "visit"
          /\ appointment[upd[x].target] \in Apt!Replaceable
          /\ claim'[upd[x].target].status # "ACTIVE"
VisitReplaced(x, r) ==
    /\ KindOf[r] = "replace" /\ upd[r].pc = "visit" /\ upd[r].target = x
    /\ appointment[r] = NONE /\ appointment'[r] # NONE /\ upd'[r].pc \in {"visit", "case"}
    /\ ~Holds(x)'
    /\ appointment'[x] = IF appointment[x] = "scheduled" THEN "rescheduled" ELSE appointment[x]
VisitCancelled(x) ==
    appointment[x] = "scheduled" /\ appointment'[x] = "cancelled" /\ ~Holds(x)'
VisitMissed(x) ==
    /\ main.pc = "missVisit" /\ main.target = x
    /\ appointment[x] = "scheduled" /\ appointment'[x] = "missed"
VisitAttended(x) ==
    /\ appointment[x] \in {"scheduled", "in_progress"}
    /\ appointment'[x] \in {"in_progress", "no_access", "completed"}

VisitMoves(x) ==
    \/ VisitBooked(x) \/ (\E r \in Updates : VisitReplaced(x, r)) \/ VisitCancelled(x)
    \/ /\ Holds(x)' <=> Holds(x)
       /\ appointment'[x] = appointment[x] \/ VisitMissed(x) \/ VisitAttended(x)

\* A replacement books its visit and gives the old one's time up in one transaction.
LEMMA ReplaceMoves ==
    ASSUME WorkflowInv, NEW x \in ClaimIds, NEW r \in Updates, NEW lost \in BOOLEAN,
           ReplaceVisit(r, lost)
    PROVE  VisitMoves(x)
<1> DEFINE y == upd[r].target
           out == Apt!ReplaceOutcome(y, r, TheCase, upd[r].slot)
<1>0. /\ claim = [z \in ClaimIds |-> claim[z]]
      /\ appointment = [z \in ClaimIds |-> appointment[z]]
  BY DEF WorkflowInv, Apt!AppointmentTypeOK
<1>1. KindOf[r] = "replace" /\ upd[r].pc = "visit" /\ r \in ClaimIds
  BY DEF ReplaceVisit, At, ClaimIds
<1>2. /\ y \in ClaimIds /\ y # r /\ appointment[y] # NONE
      /\ claim[y] \in Apt!ClaimRow
  BY <1>1, ReportedVisit, VisitIsRow DEF WorkflowInv, UpdateNames, Names
<1>3. Apt!ReplaceAppointmentSlot(y, r, TheCase, upd[r].slot, out)
  BY DEF ReplaceVisit
<1>4. CASE out # "REPLACED"
  <2>1. UNCHANGED <<claim, appointment>>
    BY <1>3, <1>4 DEF Apt!ReplaceAppointmentSlot
  <2> QED BY <2>1 DEF VisitMoves, Holds
<1>5. CASE out = "REPLACED"
  <2>1. /\ appointment[r] = NONE /\ appointment[y] \in Apt!Replaceable
    BY <1>2, <1>5 DEF Apt!ReplaceOutcome
  <2>2. /\ appointment'[r] = "scheduled"
        /\ appointment'[y] = IF appointment[y] = "scheduled" THEN "rescheduled" ELSE appointment[y]
        /\ \A z \in ClaimIds \ {y, r} : appointment'[z] = appointment[z]
    BY <1>0, <1>1, <1>2, <1>3, <1>5 DEF Apt!ReplaceAppointmentSlot
  <2>3. claim' = [claim EXCEPT ![y].status = "RELEASED",
                  ![r] = [claim[y] EXCEPT !.status = "ACTIVE", !.slot = upd[r].slot]]
    BY <1>3, <1>5 DEF Apt!ReplaceAppointmentSlot
  <2>4. /\ claim'[r] = [claim[y] EXCEPT !.status = "ACTIVE", !.slot = upd[r].slot]
        /\ claim'[y] = [claim[y] EXCEPT !.status = "RELEASED"]
        /\ \A z \in ClaimIds \ {y, r} : claim'[z] = claim[z]
    BY <1>0, <1>1, <1>2, <2>3
  <2>5. claim'[r].status = "ACTIVE" /\ claim'[y].status # "ACTIVE"
    BY <1>2, <2>4 DEF Apt!ClaimRow
  <2>6. upd'[r].pc \in {"visit", "case"}
    <3>1. UNCHANGED upd \/ Continue(r, "case")
      BY <1>5 DEF ReplaceVisit, Lost, Then
    <3> QED BY <1>1, <3>1, HandlerGoes
  <2>7. CASE x = r
    BY <1>1, <2>1, <2>2, <2>5, <2>7 DEF VisitMoves, VisitBooked, Holds
  <2>8. CASE x = y
    <3>1. appointment'[r] # NONE
      BY <2>2, NoneIsNull DEF Apt!AppointmentStatus
    <3>2. VisitReplaced(x, r)
      BY <1>1, <2>1, <2>2, <2>5, <2>6, <2>8, <3>1 DEF VisitReplaced, Holds
    <3> QED BY <3>2 DEF VisitMoves
  <2>9. CASE x \notin {r, y}
    BY <2>2, <2>4, <2>9 DEF VisitMoves, Holds
  <2> QED BY <2>7, <2>8, <2>9
<1> QED BY <1>4, <1>5

\* Every step moves every visit as VisitMoves says.
LEMMA VisitGoes ==
    ASSUME WorkflowInv, [Next]_vars, NEW x \in ClaimIds
    PROVE  VisitMoves(x)
<1>0. /\ claim = [z \in ClaimIds |-> claim[z]]
      /\ appointment = [z \in ClaimIds |-> appointment[z]]
      /\ \A z \in ClaimIds : claim[z] \in Apt!ClaimRow \cup {Apt!NoClaim}
  BY DEF WorkflowInv, Apt!AppointmentTypeOK
<1>1. UNCHANGED <<claim, appointment>> => VisitMoves(x)
  BY DEF VisitMoves, Holds
<1>2. ASSUME NEW u \in Updates, NEW lost \in LostReplies, ReserveSlot(u, lost)
      PROVE  VisitMoves(x)
  <2>1. u \in ClaimIds
    BY <1>2 DEF ReserveSlot, At, ClaimIds
  <2>2. \/ claim' = claim
        \/ claim[u] = Apt!NoClaim /\ \E row : row.status = "HELD" /\ claim' = [claim EXCEPT ![u] = row]
    BY <1>2 DEF ReserveSlot, Apt!ReserveAppointmentSlot
  <2>3. Holds(x)' <=> Holds(x)
    BY <1>0, <2>1, <2>2 DEF Holds, Apt!NoClaim
  <2>4. UNCHANGED appointment
    BY <1>2 DEF ReserveSlot, Apt!ReserveAppointmentSlot
  <2> QED BY <2>3, <2>4 DEF VisitMoves
<1>3. ASSUME NEW u \in Updates, NEW lost \in LostReplies, ReleaseSlot(u, lost)
      PROVE  VisitMoves(x)
  <2>1. u \in ClaimIds
    BY <1>3 DEF ReleaseSlot, At, ClaimIds
  <2>2. /\ UNCHANGED appointment
        /\ \/ claim' = claim
           \/ /\ claim[u].status # "ACTIVE"
              /\ claim' = [claim EXCEPT ![u].status = "RELEASED"]
    BY <1>3 DEF ReleaseSlot, Apt!ReleaseAppointmentSlot, Apt!ReleaseOutcome
  <2>3. claim' = [claim EXCEPT ![u].status = "RELEASED"] => claim'[u].status = "RELEASED"
    <3>1. claim' = [claim EXCEPT ![u].status = "RELEASED"] =>
              claim'[u] = [claim[u] EXCEPT !.status = "RELEASED"]
      BY <1>0, <2>1
    <3>2. [claim[u] EXCEPT !.status = "RELEASED"].status = "RELEASED"
      BY <1>0, <2>1 DEF Apt!ClaimRow, Apt!NoClaim
    <3> QED BY <3>1, <3>2
  <2>4. Holds(x)' <=> Holds(x)
    BY <1>0, <2>1, <2>2, <2>3 DEF Holds
  <2> QED BY <2>2, <2>4 DEF VisitMoves
<1>4. ASSUME NEW u \in Updates, NEW lost \in LostReplies, ConfirmSlot(u, lost)
      PROVE  VisitMoves(x)
  <2>1. u \in ClaimIds /\ KindOf[u] = "accept" /\ upd[u].pc = "confirm"
    BY <1>4 DEF ConfirmSlot, At, ClaimIds
  <2>2. \/ UNCHANGED <<claim, appointment>>
        \/ /\ appointment[u] = NONE /\ claim[u] # Apt!NoClaim
           /\ appointment' = [appointment EXCEPT ![u] = "scheduled"]
           /\ claim' = [claim EXCEPT ![u].status = "ACTIVE"]
    BY <1>4 DEF ConfirmSlot, Apt!ConfirmAppointmentSlot, Apt!ConfirmOutcome
  <2>3. CASE UNCHANGED <<claim, appointment>>
    BY <1>1, <2>3
  <2>4. CASE ~UNCHANGED <<claim, appointment>>
    <3>1. claim'[u] = [claim[u] EXCEPT !.status = "ACTIVE"] /\ appointment'[u] = "scheduled"
      BY <1>0, <2>1, <2>2, <2>4
    <3>2. claim'[u].status = "ACTIVE"
      BY <1>0, <2>1, <2>2, <2>4, <3>1 DEF Apt!ClaimRow
    <3>3. x # u => claim'[x] = claim[x] /\ appointment'[x] = appointment[x]
      BY <1>0, <2>1, <2>2, <2>4
    <3> QED BY <2>1, <2>2, <2>4, <3>1, <3>2, <3>3 DEF VisitMoves, VisitBooked, Holds
  <2> QED BY <2>3, <2>4
<1>5. ASSUME NEW u \in Updates, NEW lost \in LostReplies, CancelVisit(u, lost)
      PROVE  VisitMoves(x)
  <2>1. \/ UNCHANGED <<claim, appointment>>
        \/ \E y \in Apt!VisitsOf(TheCase) :
              /\ appointment[y] = "scheduled"
              /\ appointment' = [appointment EXCEPT ![y] = "cancelled"]
              /\ claim' = [claim EXCEPT ![y].status = "RELEASED"]
    BY <1>5 DEF CancelVisit, Apt!CancelScheduledAppointment
  <2>2. ASSUME NEW y \in Apt!VisitsOf(TheCase), appointment[y] = "scheduled",
               appointment' = [appointment EXCEPT ![y] = "cancelled"],
               claim' = [claim EXCEPT ![y].status = "RELEASED"]
        PROVE  VisitMoves(x)
    <3>1. y \in ClaimIds /\ claim[y] \in Apt!ClaimRow
      BY VisitIsRow
    <3>2. claim'[y] = [claim[y] EXCEPT !.status = "RELEASED"] /\ appointment'[y] = "cancelled"
      BY <1>0, <2>2, <3>1
    <3>3. claim'[y].status = "RELEASED"
      BY <3>1, <3>2 DEF Apt!ClaimRow
    <3>4. x # y => claim'[x] = claim[x] /\ appointment'[x] = appointment[x]
      BY <1>0, <2>2, <3>1
    <3> QED BY <2>2, <3>2, <3>3, <3>4 DEF VisitMoves, VisitCancelled, Holds
  <2> QED BY <1>1, <2>1, <2>2
<1>6. ASSUME NEW y, NEW to, NEW done, NEW out, appointment[y] = "scheduled" \/ out # done,
             Apt!LeaveScheduled(y, to, done, out)
      PROVE  /\ UNCHANGED claim
             /\ \/ appointment'[x] = appointment[x]
                \/ x = y /\ appointment[x] = "scheduled" /\ appointment'[x] = to
  BY <1>0, <1>6 DEF Apt!LeaveScheduled
<1>7. ASSUME NEW u \in Updates, NEW lost \in LostReplies, StartVisit(u, lost) \/ FailVisit(u, lost)
      PROVE  VisitMoves(x)
  BY <1>6, <1>7 DEF StartVisit, FailVisit, Apt!StartWorkAppointment,
     Apt!ReportNoAccessAppointment, Apt!StartVisitOutcome,
     Apt!NoAccessOutcome, Apt!LeaveScheduledOutcome, VisitMoves, VisitAttended, Holds
<1>8. ASSUME NEW lost \in LostReplies, MissVisit(lost) PROVE VisitMoves(x)
  BY <1>6, <1>8 DEF MissVisit, Apt!MarkAppointmentMissed, Apt!MissedOutcome,
     Apt!LeaveScheduledOutcome, VisitMoves, VisitMissed, Holds
<1>9. ASSUME NEW u \in Updates, NEW lost \in LostReplies, CompleteVisit(u, lost)
      PROVE  VisitMoves(x)
  BY <1>0, <1>9 DEF CompleteVisit, Apt!CompleteAppointment, Apt!CompleteVisitOutcome,
     VisitMoves, VisitAttended, Holds
<1>10. CASE AppointmentCall
  BY <1>2, <1>3, <1>4, <1>5, <1>7, <1>8, <1>9, <1>10, ReplaceMoves, WorkflowAssumption
     DEF AppointmentCall
<1>11. CASE ~AppointmentCall
  BY <1>1, <1>11, StepKinds, CallFrames, WorkflowFrame
     DEF OtherCaseAllocates, vars, atomVars, appointmentVars
<1> QED BY <1>10, <1>11

-----------------------------------------------------------------------------
(* Replacements in turn: at most one visit stands at a time.                 *)

\* A visit stands while it holds its time; a replacement is at its visit from the
\* Update's sending to its answer.
Stands(x) == appointment[x] # NONE /\ Holds(x)
Replacing(r, x) ==
    KindOf[r] = "replace" /\ upd[r].pc \notin {"new", "done"} /\ upd[r].target = x
Awaited(x) == appointment[x] \in {"scheduled", "missed"}

\* A replacement is alone at a visit whose own booking was answered; until its own
\* is booked the old visit stands unless it was cancelled, and afterwards no other
\* does.  What the Gateway read of the visit was not older than its recorded outcome.
InTurn(r, x) ==
    /\ upd[x].pc = "done"
    /\ \A v \in Updates : Replacing(v, x) => v = r
    /\ appointment[r] = NONE => Stands(x) \/ appointment[x] = "cancelled"
    /\ appointment[r] # NONE => \A y \in ClaimIds : Stands(y) => y = r
    /\ Awaited(x) => upd[r].was \in {"scheduled", "missed"}

\* Every booking goes back to the acceptance, so the acceptance books first.
TurnInv ==
    /\ \A r \in Updates, x \in ClaimIds : Replacing(r, x) => InTurn(r, x)
    /\ \A x, y \in ClaimIds : Stands(x) /\ Stands(y) => x = y
    /\ \A x \in ClaimIds : appointment[x] # NONE =>
           \E u \in ClaimIds : KindOf[u] = "accept" /\ appointment[u] # NONE
    /\ \A x \in ClaimIds : KindOf[x] = "accept" /\ appointment[x] # NONE => OnRecord(x)

\* The statuses a visit goes through are all different from its absence.
LEMMA StatusIsThere ==
    /\ "scheduled" # NONE /\ "in_progress" # NONE /\ "no_access" # NONE /\ "missed" # NONE
    /\ "rescheduled" # NONE /\ "cancelled" # NONE /\ "completed" # NONE
  BY NoneIsNull DEF Apt!AppointmentStatus

\* An Update leaves the client only by Send, which moves no record and no other
\* Update; a replacement carries the status the Gateway read.
LEMMA SendOnly ==
    ASSUME WorkflowInv, [Next]_vars, NEW r \in Updates, Sends(r)
    PROVE  /\ UNCHANGED <<atomVars, now, wf, main>>
           /\ \A v \in Updates \ {r} : upd'[v] = upd[v]
           /\ KindOf[r] = "replace" => upd'[r].was = appointment[upd'[r].target]
<1>0. UpdateShape /\ upd'[r] # upd[r] /\ upd[r].pc = "new"
  BY DEF WorkflowInv, Shape, Sends
<1>1. ~(LoopStep \/ \E lost \in LostReplies : LoopActivity(lost))
  BY <1>0, LoopAnswers, WorkflowAssumption DEF LoopAnswered, Answer, UpdateShape
<1>2. ASSUME NEW u \in Updates, HandlerStep(u) PROVE FALSE
  <2>1. CASE Drains(u)
    <3>1. PICK i \in DOMAIN wf.queue : wf.queue[i] = r
      BY <1>0, <2>1 DEF Drains, AdmitCancel, Admit
    <3>2. i \in 1 .. Len(wf.queue) /\ r # NONE
      BY NoneIsNull DEF WorkflowInv, Shape, RunState
    <3> QED BY <1>0, <3>1, <3>2 DEF WorkflowInv, Shape, QueueShape, Waits
  <2> QED BY <1>0, <1>2, <2>1, HandlerStepMoves, HandlerMovesItsOwn
<1>3. ASSUME NEW u \in Updates, NEW lost \in LostReplies, HandlerActivity(u, lost)
      PROVE  FALSE
  BY <1>0, <1>3, ActivityMoves, HandlerMovesItsOwn, WorkflowAssumption
<1>4. CommitFails \/ StartRun \/ Tick \/ OtherCaseAllocates \/ UNCHANGED vars => UNCHANGED upd
  BY DEF CommitFails, StartRun, Tick, OtherCaseAllocates, vars, workflowVars
<1>5. PICK u \in Updates : Send(u)
  BY <1>0, <1>1, <1>2, <1>3, <1>4 DEF Next
<1>6. u = r
  BY <1>0, <1>5 DEF Send, UpdateShape
<1>7. PICK req \in Requests(KindOf[r]) : upd' = [upd EXCEPT ![r] = req]
  BY <1>5, <1>6 DEF Send
<1>8. upd'[r] = req /\ \A v \in Updates \ {r} : upd'[v] = upd[v]
  BY <1>0, <1>7 DEF UpdateShape
<1>9. ASSUME KindOf[r] = "replace" PROVE req.was = appointment[req.target]
  <2> DEFINE new == [NewUpdate EXCEPT !.pc = "sent"]
  <2>1. req \in ReplaceRequests(new)
    BY <1>7, <1>9 DEF Requests
  <2>2. PICK x \in Apt!VisitsOf(TheCase), s \in Slots : req = WithMove(new, x, s)
    BY <2>1, RequestsAre
  <2>3. req.target = x /\ req.was = appointment[x]
    BY <2>2 DEF WithMove, NewUpdate
  <2> QED BY <2>3
<1> QED BY <1>5, <1>8, <1>9 DEF Send

\* A visit that is there moves on: it is not booked again, and it keeps its time
\* unless it is replaced or cancelled.
LEMMA VisitGoesOn ==
    ASSUME WorkflowInv, [Next]_vars, NEW x \in ClaimIds, appointment[x] # NONE
    PROVE  /\ appointment'[x] # NONE
           /\ appointment[x] = "cancelled" => appointment'[x] = "cancelled"
           /\ ~Awaited(x) => ~Awaited(x)'
           /\ Stands(x)' => Stands(x)
           /\ \/ Stands(x) => Stands(x)'
              \/ \E r \in Updates : VisitReplaced(x, r)
              \/ appointment'[x] = "cancelled"
<1>1. appointment'[x] # NONE
  BY BookingsStay DEF ClaimIds
<1>2. VisitMoves(x)
  BY VisitGoes
<1>3. ~VisitBooked(x)
  BY DEF VisitBooked
<1> QED BY <1>1, <1>2, <1>3 DEF VisitMoves, VisitReplaced, VisitCancelled, VisitMissed, VisitAttended,
        Stands, Holds, Awaited

\* A visit that comes to stand is being booked.
LEMMA NewStand ==
    ASSUME WorkflowInv, [Next]_vars, NEW x \in ClaimIds, Stands(x)', ~Stands(x)
    PROVE  VisitBooked(x)
<1>1. appointment[x] = NONE
  BY VisitGoesOn
<1>2. VisitMoves(x)
  BY VisitGoes
<1> QED BY <1>1, <1>2, StatusIsThere DEF VisitMoves, VisitReplaced, VisitCancelled, VisitMissed,
        VisitAttended, Stands

\* At most one acceptance is on record.
LEMMA OneOnRecord ==
    ASSUME WorkflowInv, NEW u \in Updates, NEW v \in Updates, OnRecord(u), OnRecord(v)
    PROVE  u = v
<1>1. PICK a \in AttemptIds, b \in AttemptIds : attempt[a].acceptedBy = u /\ attempt[b].acceptedBy = v
  BY DEF OnRecord
<1>2. u # NONE /\ v # NONE
  BY NoneIsNull
<1>3. attempt[a] # Asg!NoAttempt /\ attempt[b] # Asg!NoAttempt
  BY <1>1, <1>2 DEF Asg!NoAttempt
<1>4. attempt[a].case = TheCase /\ attempt[b].case = TheCase
  BY <1>3, OfferIsRow
<1> QED BY <1>1, <1>2, <1>4, AssignmentFacts DEF WorkflowInv, Asg!AtMostOneAcceptance

\* The acceptance books the first visit of the Case.
LEMMA AcceptanceBooksFirst ==
    ASSUME WorkflowInv, BookedInv, TurnInv, NEW y \in ClaimIds, KindOf[y] = "accept",
           upd[y].pc = "confirm", appointment[y] = NONE
    PROVE  \A z \in ClaimIds : appointment[z] = NONE
<1> SUFFICES ASSUME NEW z \in ClaimIds, appointment[z] # NONE PROVE FALSE
  OBVIOUS
<1>1. PICK u \in ClaimIds : KindOf[u] = "accept" /\ appointment[u] # NONE
  BY DEF TurnInv
<1>2. OnRecord(u) /\ OnRecord(y)
  BY <1>1 DEF TurnInv, BookedInv, ClaimIds, OnRecord
<1>3. u = y
  BY <1>2, OneOnRecord DEF ClaimIds
<1> QED BY <1>1, <1>3

\* A replacement books while the visit it moves stands.
LEMMA ReplacementBooksNext ==
    ASSUME WorkflowInv, TurnInv, NEW y \in ClaimIds, VisitBooked(y), KindOf[y] = "replace"
    PROVE  LET t == upd[y].target IN
           t \in ClaimIds /\ Replacing(y, t) /\ Stands(t) /\ claim'[t].status # "ACTIVE"
<1> DEFINE t == upd[y].target
<1>1. /\ upd[y].pc = "visit" /\ appointment[y] = NONE /\ y \in Updates
      /\ appointment[t] \in Apt!Replaceable /\ claim'[t].status # "ACTIVE"
  BY DEF VisitBooked, ClaimIds
<1>2. t \in ClaimIds
  BY <1>1, ReportedVisit
<1>3. Replacing(y, t)
  BY <1>1 DEF Replacing
<1>4. appointment[t] # "cancelled"
  BY <1>1 DEF Apt!Replaceable
<1> QED BY <1>1, <1>2, <1>3, <1>4 DEF TurnInv, InTurn

\* A visit that comes to be is being booked.
LEMMA NewVisitIsBooked ==
    ASSUME WorkflowInv, [Next]_vars, NEW x \in ClaimIds,
           appointment[x] = NONE, appointment'[x] # NONE
    PROVE  VisitBooked(x)
<1>1. VisitMoves(x)
  BY VisitGoes
<1> QED BY <1>1, StatusIsThere DEF VisitMoves, VisitReplaced, VisitCancelled, VisitMissed, VisitAttended

\* Replacements in turn keep one visit standing.
LEMMA TurnStep ==
    ASSUME WorkflowInv, BookedInv, TurnInv, [Next]_vars, ReplacementsInTurn
    PROVE  TurnInv'
<1>1. ASSUME NEW x \in ClaimIds, VisitBooked(x), NEW y \in ClaimIds, appointment[y] # NONE
      PROVE  KindOf[x] = "replace"
  BY <1>1, AcceptanceBooksFirst DEF VisitBooked
<1>2. ASSUME NEW b \in ClaimIds, NEW c \in ClaimIds, VisitBooked(b), Stands(c), Stands(c)'
      PROVE  FALSE
  <2> DEFINE t == upd[b].target
  <2>1. KindOf[b] = "replace"
    BY <1>1, <1>2 DEF Stands
  <2>2. t \in ClaimIds /\ Stands(t) /\ claim'[t].status # "ACTIVE"
    BY <1>2, <2>1, ReplacementBooksNext
  <2>3. t = c
    BY <1>2, <2>2 DEF TurnInv
  <2> QED BY <1>2, <2>2, <2>3 DEF Stands, Holds
<1>3. ASSUME NEW x \in ClaimIds, NEW y \in ClaimIds, VisitBooked(x), VisitBooked(y)
      PROVE  x = y
  <2>1. CASE KindOf[x] = "accept"
    <3>1. \A z \in ClaimIds : appointment[z] = NONE
      BY <1>3, <2>1, AcceptanceBooksFirst DEF VisitBooked
    <3>2. KindOf[y] = "accept"
      BY <1>3, <3>1, ReplacementBooksNext DEF VisitBooked, Stands
    <3>3. OnRecord(x) /\ OnRecord(y)
      BY <1>3, <2>1, <3>2 DEF BookedInv, VisitBooked, ClaimIds, OnRecord
    <3> QED BY <3>3, OneOnRecord DEF ClaimIds
  <2>2. CASE KindOf[x] = "replace"
    <3> DEFINE t == upd[x].target
               s == upd[y].target
    <3>1. t \in ClaimIds /\ Replacing(x, t) /\ Stands(t)
      BY <1>3, <2>2, ReplacementBooksNext
    <3>2. KindOf[y] = "replace"
      BY <1>1, <1>3, <3>1 DEF Stands
    <3>3. s \in ClaimIds /\ Replacing(y, s) /\ Stands(s)
      BY <1>3, <3>2, ReplacementBooksNext
    <3>4. s = t
      BY <3>1, <3>3 DEF TurnInv
    <3> QED BY <3>1, <3>3, <3>4 DEF TurnInv, InTurn, ClaimIds
  <2> QED BY <1>3, <2>1, <2>2 DEF VisitBooked
<1>4. ASSUME NEW x \in ClaimIds, NEW y \in ClaimIds, Stands(x)', Stands(y)'
      PROVE  x = y
  <2>1. CASE Stands(x) /\ Stands(y)
    BY <2>1 DEF TurnInv
  <2> QED BY <1>2, <1>3, <1>4, <2>1, NewStand
<1>5. ASSUME NEW r \in Updates, NEW x \in ClaimIds, Replacing(r, x)', Sends(r)
      PROVE  InTurn(r, x)'
  <2>1. UNCHANGED <<claim, appointment>> /\ \A v \in Updates \ {r} : upd'[v] = upd[v]
    BY <1>5, SendOnly DEF atomVars, appointmentVars
  <2>2. /\ upd[x].pc = "done" /\ claim[x].status = "ACTIVE"
        /\ \A v \in Updates : ~(KindOf[v] = "replace" /\ upd[v].target = x)
    BY <1>5 DEF ReplacementsInTurn, Replacing, Sends
  <2>3. x \in Updates /\ x # r
    BY <1>5, <2>2 DEF ClaimIds, Sends
  <2>4. appointment[x] # NONE
    BY <1>5, <2>1 DEF Sends, Names, Replacing, Apt!VisitsOf
  <2>5. appointment[r] = NONE
    BY <1>5 DEF Sends, Replacing, ClaimIds, WorkflowInv, NothingBefore, ClaimsNameOffers
  <2>6. upd'[r].was = appointment[x]
    BY <1>5, SendOnly DEF Replacing
  <2> QED BY <2>1, <2>2, <2>3, <2>4, <2>5, <2>6
          DEF InTurn, Replacing, Stands, Holds, Awaited
<1>6. ASSUME NEW r \in Updates, NEW x \in ClaimIds, Replacing(r, x)', ~Sends(r)
      PROVE  InTurn(r, x)'
  <2>1. Replacing(r, x) /\ upd'[r].was = upd[r].was
    BY <1>6, EveryStepMoves DEF UpdatesMove, Sends, Proceeds, Answers, Replacing
  <2>2. InTurn(r, x) /\ r \in ClaimIds
    BY <2>1 DEF TurnInv, Replacing, ClaimIds
  <2>3. upd'[x].pc = "done"
    BY <2>2, DoneStays DEF InTurn, ClaimIds
  <2>4. ASSUME NEW v \in Updates, Replacing(v, x)' PROVE v = r
    <3>1. CASE Sends(v)
      BY <2>1, <2>4, <3>1 DEF ReplacementsInTurn, Replacing, Sends
    <3>2. CASE ~Sends(v)
      <4>1. Replacing(v, x)
        BY <2>4, <3>2, EveryStepMoves DEF UpdatesMove, Sends, Proceeds, Answers, Replacing
      <4> QED BY <2>2, <4>1 DEF InTurn
    <3> QED BY <3>1, <3>2
  <2>5. appointment[x] # NONE
    BY <2>1, ReportedVisit, VisitIsRow DEF Replacing
  <2>6. ASSUME appointment'[r] = NONE PROVE Stands(x)' \/ appointment'[x] = "cancelled"
    <3>1. appointment[r] = NONE
      BY <2>2, <2>6, BookingsStay
    <3>2. ASSUME NEW s \in Updates, VisitReplaced(x, s) PROVE FALSE
      <4>1. s = r
        BY <2>2, <3>2 DEF VisitReplaced, InTurn, Replacing
      <4> QED BY <2>6, <3>2, <4>1 DEF VisitReplaced
    <3> QED BY <2>2, <2>5, <3>1, <3>2, VisitGoesOn DEF InTurn
  <2>7. ASSUME appointment[r] # NONE, NEW y \in ClaimIds, Stands(y)' PROVE y = r
    <3>1. CASE Stands(y)
      BY <2>2, <2>7, <3>1 DEF InTurn
    <3>2. CASE ~Stands(y)
      <4> DEFINE t == upd[y].target
      <4>1. VisitBooked(y) /\ KindOf[y] = "replace"
        BY <1>1, <2>2, <2>7, <3>2, NewStand
      <4>2. t \in ClaimIds /\ Replacing(y, t) /\ Stands(t) /\ y \in Updates
        BY <4>1, ReplacementBooksNext DEF ClaimIds
      <4>3. t = r
        BY <2>2, <2>7, <4>2 DEF InTurn
      <4>4. upd[r].pc = "done"
        BY <4>2, <4>3 DEF TurnInv, InTurn
      <4> QED BY <2>1, <4>4 DEF Replacing
    <3> QED BY <3>1, <3>2
  <2>8. ASSUME appointment[r] = NONE, appointment'[r] # NONE, NEW y \in ClaimIds, Stands(y)'
        PROVE  y = r
    <3>1. VisitBooked(r)
      BY <2>2, <2>8, NewVisitIsBooked
    <3>2. Stands(r)'
      BY <2>8, <3>1 DEF VisitBooked, Stands
    <3> QED BY <1>4, <2>2, <2>8, <3>2
  <2>9. Awaited(x)' => upd'[r].was \in {"scheduled", "missed"}
    BY <2>1, <2>2, <2>5, VisitGoesOn DEF InTurn
  <2> QED BY <2>3, <2>4, <2>6, <2>7, <2>8, <2>9 DEF InTurn
<1>7. ASSUME NEW x \in ClaimIds, appointment'[x] # NONE
      PROVE  \E u \in ClaimIds : KindOf[u] = "accept" /\ appointment'[u] # NONE
  <2>1. CASE \E z \in ClaimIds : appointment[z] # NONE
    <3>1. PICK u \in ClaimIds : KindOf[u] = "accept" /\ appointment[u] # NONE
      BY <2>1 DEF TurnInv
    <3> QED BY <3>1, BookingsStay DEF ClaimIds
  <2>2. CASE \A z \in ClaimIds : appointment[z] = NONE
    <3>1. KindOf[x] = "accept"
      BY <1>7, <2>2, NewVisitIsBooked, ReplacementBooksNext DEF VisitBooked, Stands
    <3> QED BY <1>7, <3>1
  <2> QED BY <2>1, <2>2
<1>8. ASSUME NEW x \in ClaimIds, KindOf[x] = "accept", appointment'[x] # NONE
      PROVE  OnRecord(x)'
  <2>1. OnRecord(x)
    <3>1. CASE appointment[x] # NONE
      BY <1>8, <3>1 DEF TurnInv
    <3>2. CASE appointment[x] = NONE
      BY <1>8, <3>2, NewVisit DEF BookedInv, ClaimIds, OnRecord
    <3> QED BY <3>1, <3>2
  <2> QED BY <2>1, BookingsStay DEF ClaimIds, OnRecord
<1> QED BY <1>4, <1>5, <1>6, <1>7, <1>8 DEF TurnInv

-----------------------------------------------------------------------------
(* The expiry of the current visit.                                          *)

\* While the main loop runs, no handler does.
LEMMA HandlersWait ==
    ASSUME WorkflowInv, [Next]_vars, Synchronous, NEW u \in Updates, Running(u)'
    PROVE  upd'[u] = upd[u]
<1> SUFFICES ASSUME upd'[u] # upd[u] PROVE FALSE
  OBVIOUS
<1>1. upd[u].pc \notin {"new", "queued"}
  BY EveryStepMoves, QueuedStays DEF UpdatesMove, Sends, Proceeds, Answers, Running
<1>2. HandlerStep(u) \/ \E lost \in LostReplies : HandlerActivity(u, lost)
  BY <1>1, OwnSteps
<1>3. ~HandlerStep(u)
  BY DEF HandlerStep, Admit, AwaitRecovery, AwaitGuards, ValidateCompletion, At
<1>4. ASSUME NEW lost, HandlerActivity(u, lost) PROVE FALSE
  BY <1>4 DEF HandlerActivity, OpenCase, AcceptActivity, ReserveSlot, AcceptAttempt, ReleaseSlot,
     ConfirmSlot, RecordAcceptance, StartActivity, StartVisit, StartAssignment, StartCase,
     FlagStart, VisitActivity, FailVisit, ParkCase, ReplaceVisit, RecordReplacement,
     CancelActivity, CancelVisit, CancelAssignment, CancelCase, CompleteActivity,
     CompleteVisit, CompleteAssignment, CompleteCase, FlagCompletion, At
<1> QED BY <1>2, <1>3, <1>4

\* The expiry starts in Due, when the current visit is over, and is recorded before
\* it is flagged.
ExpiryStarts ==
    /\ Due /\ main.pc = "due" /\ wf.visit # NONE /\ now >= claim[wf.visit].slot[2]
    /\ main'.pc = "missVisit" /\ main'.target = wf.visit
ExpiryRecorded ==
    /\ main.pc = "missVisit" /\ main'.pc = "missFlag" /\ main'.target = main.target
    /\ appointment'[main.target] = "missed"

\* Each call that records a missed visit is repeated, succeeds, or finds it attended,
\* replaced or cancelled.
LEMMA MissVisitGoes ==
    ASSUME WorkflowInv, NEW lost \in BOOLEAN, MissVisit(lost), appointment[main.target] # NONE
    PROVE  \/ UNCHANGED <<main, wf>>
           \/ ExpiryRecorded /\ UNCHANGED wf
           \/ ExpiryOver /\ ~Awaited(main.target)
<1> DEFINE x == main.target
           out == Apt!MissedOutcome(x)
<1>1. /\ main.pc = "missVisit" /\ x \in ClaimIds
      /\ appointment = [z \in ClaimIds |-> appointment[z]]
  BY DEF MissVisit, WorkflowInv, Shape, LoopShape, Apt!AppointmentTypeOK
<1>2. Apt!MarkAppointmentMissed(x, out)
  BY DEF MissVisit
<1>3. \/ appointment[x] = NONE /\ out = "APPOINTMENT_NOT_FOUND"
      \/ appointment[x] = "missed" /\ out = "ALREADY_MISSED"
      \/ appointment[x] \notin {NONE, "missed", "scheduled"} /\ out = "NOT_SCHEDULED"
      \/ appointment[x] = "scheduled" /\ out = "MISSED"
  BY DEF Apt!MissedOutcome, Apt!LeaveScheduledOutcome
<1>4. CASE lost
  BY <1>4 DEF MissVisit
<1>5. CASE ~lost /\ out = "NOT_SCHEDULED"
  BY <1>3, <1>5, StatusIsThere DEF MissVisit, Awaited
<1>6. CASE ~lost /\ out # "NOT_SCHEDULED"
  <2>1. Goto("missFlag") /\ UNCHANGED wf
    BY <1>6 DEF MissVisit
  <2>2. main'.pc = "missFlag" /\ main'.target = x
    BY <2>1, LoopGoes
  <2>3. appointment'[x] = "missed"
    BY <1>1, <1>2, <1>3, <1>6 DEF Apt!MarkAppointmentMissed, Apt!LeaveScheduled
  <2> QED BY <1>1, <2>1, <2>2, <2>3 DEF ExpiryRecorded
<1> QED BY <1>4, <1>5, <1>6

\* How the main loop gets to the expiry.
LEMMA LoopReachesExpiry ==
    ASSUME WorkflowInv, [Next]_vars, main'.pc \in {"due", "missVisit", "missFlag"}, ~UNCHANGED main,
           main.pc = "missVisit" => appointment[main.target] # NONE
    PROVE  GateVisit \/ ExpiryStarts \/ ExpiryRecorded
<1>0. IsLoop(main) /\ LoopShape
  BY DEF WorkflowInv, Shape, LoopShape
<1>1. ASSUME LoopStep PROVE GateVisit \/ ExpiryStarts
  <2>1. ~(Close \/ CancellationSettled \/ Wake \/ GateAccept \/ CheckTerminal)
    BY LoopGoes DEF Close, CancellationSettled, Wake, GateAccept, CheckTerminal
  <2>2. ~(Top \/ Shift)
    BY LoopGoes DEF Top, Shift, AtTop
  <2>3. Due => ExpiryStarts
    <3> SUFFICES ASSUME Due PROVE ExpiryStarts
      OBVIOUS
    <3>1. \/ main' = AtTop
          \/ /\ \E end \in VisitEnd : now >= end
             /\ main' = [main EXCEPT !.pc = "missVisit", !.target = wf.visit]
          \/ main' = [main EXCEPT !.pc = "breachCheck"]
      BY DEF Due
    <3>2. main' # AtTop
      BY DEF AtTop
    <3>3. main' # [main EXCEPT !.pc = "breachCheck"]
      BY <1>0 DEF IsLoop
    <3>4. main' = [main EXCEPT !.pc = "missVisit", !.target = wf.visit] =>
              main'.pc = "missVisit" /\ main'.target = wf.visit
      BY <1>0 DEF IsLoop
    <3> QED BY <3>1, <3>2, <3>3, <3>4 DEF Due, ExpiryStarts, VisitEnd
  <2>4. ~BreachCheck
    <3>1. BreachCheck => \/ main' = [main EXCEPT !.pc = "breach", !.target = wf.attempt]
                         \/ main' = [main EXCEPT !.pc = "shift"]
      BY DEF BreachCheck
    <3> QED BY <1>0, <3>1 DEF IsLoop
  <2>5. ~FetchSnapshot
    BY <1>0, LoopGoes DEF FetchSnapshot, IsLoop
  <2> QED BY <1>1, <2>1, <2>2, <2>3, <2>4, <2>5 DEF LoopStep
<1>2. ASSUME NEW lost, Breach(lost) PROVE FALSE
  <2>1. main.target \in AttemptIds /\ attempt[main.target] \in Asg!AttemptRow
    BY <1>2, OfferIsRow DEF Breach, Asg!BreachAllocationAttempt, WorkflowInv, Shape, LoopShape
  <2>2. Asg!BreachOutcome(main.target) \in {"BREACHED", "ALREADY_BREACHED", "ACCEPTED", "WITHDRAWN"}
    BY <2>1 DEF Asg!BreachOutcome, Asg!AttemptRow, Asg!AttemptStatus
  <2>3. UNCHANGED main \/ Goto("breachCase") \/ Goto("shift")
    BY <1>2, <2>2 DEF Breach
  <2> QED BY <2>3, LoopGoes
<1>3. ASSUME NEW out \in {"COMMITTED", "ALREADY_COMMITTED", "STALE_EPOCH",
                         "ACTIVE_ATTEMPT_EXISTS", "OVERRIDE_REASON_REQUIRED",
                         "REPLACEMENT_ATTEMPT_NOT_PENDING"},
             OnCommitReply(out)
      PROVE  FALSE
  <2>1. out \in {"COMMITTED", "ALREADY_COMMITTED"} => Goto("assign")
    BY <1>3 DEF OnCommitReply
  <2>2. out = "STALE_EPOCH" => main'.pc \in {"snapshot", "flag"}
    BY <1>0, <1>3 DEF OnCommitReply, IsLoop
  <2>3. out \notin {"COMMITTED", "ALREADY_COMMITTED", "STALE_EPOCH"} => main'.pc = "top"
    BY <1>3, LoopGoes DEF OnCommitReply
  <2> QED BY <2>1, <2>2, <2>3, LoopGoes
<1>4. ASSUME NEW lost, \/ BreachCase(lost) \/ MarkAssigned(lost) \/ FlagAllocation(lost)
                       \/ MissFlag(lost)
      PROVE  FALSE
  <2>1. UNCHANGED main \/ main'.pc \in {"breachCheck", "shift", "top"}
    BY <1>4, LoopGoes DEF MissFlag, BreachCase, MarkAssigned, FlagAllocation
  <2> QED BY <2>1
<1>5. ASSUME NEW lost, CommitRequest(lost) \/ CommitRead(lost) \/ CommitWrites(lost)
      PROVE  FALSE
  BY <1>3, <1>5, CommitReplies DEF CommitRequest, CommitRead, CommitWrites
<1>6. ASSUME NEW lost \in LostReplies, MissVisit(lost) PROVE ExpiryRecorded
  <2>1. main.pc = "missVisit" /\ lost \in BOOLEAN
    BY <1>6, WorkflowAssumption DEF MissVisit
  <2> QED BY <1>6, <2>1, MissVisitGoes, LoopGoes
<1>7. ~\E u \in Updates : HandlerStep(u) \/ \E lost \in LostReplies : HandlerActivity(u, lost)
  BY HandlerStepRun, ActivityRun, WorkflowAssumption DEF HandlerRun
<1>8. ~StartRun
  BY DEF StartRun, Restarted, AtTop
<1>9. ~(CommitFails \/ Tick \/ OtherCaseAllocates \/ (\E u \in Updates : Send(u)) \/ UNCHANGED vars)
  BY DEF CommitFails, Tick, OtherCaseAllocates, Send, vars, workflowVars
<1> QED BY <1>1, <1>2, <1>4, <1>5, <1>6, <1>7, <1>8, <1>9 DEF Next, LoopActivity

\* How the main loop leaves the expiry: when the missed visit was flagged, or nothing
\* was missed; either way the visit is not watched any longer.
LEMMA LoopLeavesExpiry ==
    ASSUME WorkflowInv, [Next]_vars, Expiring, ~UNCHANGED main, appointment[main.target] # NONE
    PROVE  \/ ExpiryRecorded
           \/ /\ wf'.visit # main.target /\ main'.pc = "breachCheck"
              /\ \/ MissFlag(FALSE)
                 \/ main.pc = "missVisit" /\ ~Awaited(main.target) /\ UNCHANGED caseVars
<1>0. /\ main.pc \in {"missVisit", "missFlag"} /\ wf \in RunState
      /\ main.target \in ClaimIds /\ main.target # NONE
  BY NoneIsNull DEF Expiring, WorkflowInv, Shape, LoopShape, ClaimIds
<1>1. ~LoopStep
  BY <1>0 DEF LoopStep, Top, Close, CancellationSettled, Wake, GateAccept, GateVisit, Due,
     BreachCheck, Shift, CheckTerminal, FetchSnapshot
<1>2. ASSUME NEW lost, \/ Breach(lost) \/ BreachCase(lost) \/ CommitRequest(lost)
                       \/ CommitRead(lost) \/ CommitWrites(lost)
                       \/ MarkAssigned(lost) \/ FlagAllocation(lost)
      PROVE  FALSE
  <2>1. commit = Asg!NoCommit
    BY <1>0 DEF WorkflowInv, CommitIsAwaited
  <2>2. ~(CommitRead(lost) \/ CommitWrites(lost))
    BY <2>1 DEF CommitRead, CommitWrites, Asg!CommitReadAssignment, Asg!CommitReadPending,
       Asg!CommitWrite, Asg!NoCommit
  <2> QED BY <1>0, <1>2, <2>2 DEF Breach, BreachCase, CommitRequest, MarkAssigned, FlagAllocation
<1>3. ExpiryOver => wf'.visit # main.target
  BY <1>0 DEF ExpiryOver, RunState
<1>4. ASSUME NEW lost \in LostReplies, MissVisit(lost)
      PROVE  \/ ExpiryRecorded
             \/ /\ wf'.visit # main.target /\ main'.pc = "breachCheck"
                /\ main.pc = "missVisit" /\ ~Awaited(main.target) /\ UNCHANGED caseVars
  BY <1>3, <1>4, MissVisitGoes, LoopGoes, WorkflowAssumption DEF MissVisit
<1>5. ASSUME NEW lost \in LostReplies, MissFlag(lost)
      PROVE  wf'.visit # main.target /\ MissFlag(FALSE) /\ main'.pc = "breachCheck"
  BY <1>3, <1>5, LoopGoes, WorkflowAssumption DEF MissFlag
<1>6. ~\E u \in Updates : HandlerStep(u) \/ \E lost \in LostReplies : HandlerActivity(u, lost)
  BY HandlerStepRun, ActivityRun, WorkflowAssumption DEF HandlerRun
<1>7. ~StartRun
  BY <1>0 DEF StartRun
<1>8. ~(CommitFails \/ Tick \/ OtherCaseAllocates \/ (\E u \in Updates : Send(u)) \/ UNCHANGED vars)
  BY DEF CommitFails, Tick, OtherCaseAllocates, Send, vars, workflowVars
<1> QED BY <1>1, <1>2, <1>4, <1>5, <1>6, <1>7, <1>8 DEF Next, LoopActivity

\* A visit becomes the current one when the Update that booked it is answered.
Watched(u) ==
    /\ wf'.visit = u /\ upd'[u].pc = "done"
    /\ \/ KindOf[u] = "accept" /\ upd[u].pc = "record"
       \/ KindOf[u] = "replace" /\ upd[u].pc = "case"

\* A handler keeps the current visit, gives it up, or makes its own booking current.
LEMMA HandlerWatches ==
    ASSUME WorkflowInv, NEW u \in Updates, NEW lost \in BOOLEAN,
           HandlerStep(u) \/ HandlerActivity(u, lost)
    PROVE  wf'.visit \in {wf.visit, NONE} \/ Watched(u)
<1> DEFINE Spares(w) == w.visit \in {wf.visit, NONE}
<1>0. wf \in RunState
  BY DEF WorkflowInv, Shape
<1>1. \A w \in RunState : Bumped(w).visit = w.visit
  BY DEF Bumped, RunState
<1>2. ASSUME NEW r, NEW s, Finish(u, r, s) PROVE Spares(wf')
  <2>1. [wf EXCEPT !.visit = NONE] \in RunState
    BY <1>0 DEF RunState
  <2>2. [wf EXCEPT !.visit = NONE].visit = NONE
    BY <1>0 DEF RunState
  <2>3. wf' = wf \/ wf' = Bumped([wf EXCEPT !.visit = NONE])
    BY <1>2 DEF Finish
  <2> QED BY <1>1, <2>1, <2>2, <2>3
<1>3. HandlerStep(u) => Spares(wf')
  <2>1. AwaitRecovery(u) \/ AwaitGuards(u) \/ ValidateCompletion(u) => Spares(wf')
    BY DEF AwaitRecovery, AwaitGuards, ValidateCompletion, Then, Reject
  <2>2. AdmitManual(u) => Spares(wf')
    <3>1. AdmitManual(u) => \/ wf' = [wf EXCEPT !.known = TRUE]
                            \/ wf' = [wf EXCEPT !.known = TRUE, !.queue = Append(@, u)]
      BY DEF AdmitManual
    <3> QED BY <1>0, <3>1 DEF RunState
  <2>3. AdmitCancel(u) => Spares(wf')
    <3>1. AdmitCancel(u) => wf' = wf \/ wf' = [wf EXCEPT !.cancelling = TRUE, !.queue = <<>>]
      BY DEF AdmitCancel
    <3> QED BY <1>0, <3>1 DEF RunState
  <2>4. \/ AdmitOpen(u) \/ AdmitAccept(u) \/ AdmitVisitReport(u) \/ AdmitReplace(u)
        \/ AdmitComplete(u)
        => Spares(wf')
    BY DEF AdmitOpen, AdmitAccept, AdmitVisitReport, AdmitReplace, AdmitComplete
  <2> QED BY <2>1, <2>2, <2>3, <2>4 DEF HandlerStep, Admit
<1>4. OpenCase(u, lost) => Spares(wf')
  <2>1. OpenCase(u, lost) => \/ wf' = wf
                             \/ wf' = [wf EXCEPT !.known = TRUE, !.queue = Append(@, NONE)]
    BY DEF OpenCase, Lost
  <2> QED BY <1>0, <2>1 DEF RunState
<1>5. ASSUME AcceptActivity(u, lost) PROVE Spares(wf') \/ Watched(u)
  <2>1. \/ ReserveSlot(u, lost) \/ AcceptAttempt(u, lost) \/ ReleaseSlot(u, lost)
        \/ ConfirmSlot(u, lost)
        => Spares(wf')
    BY DEF ReserveSlot, AcceptAttempt, ReleaseSlot, ConfirmSlot, Apt!ReserveOutcome, Lost, Then, Reject
  <2>2. ASSUME RecordAcceptance(u, lost) PROVE Spares(wf') \/ Watched(u)
    <3> DEFINE w == [wf EXCEPT !.accepted = TRUE, !.attempt = NONE, !.visit = u]
    <3>1. wf' = wf \/ (wf' = Bumped(w) /\ Answer(u, "SUCCESS"))
      BY <2>2 DEF RecordAcceptance, Then
    <3>2. KindOf[u] = "accept" /\ upd[u].pc = "record" /\ w \in RunState
      BY <1>0, <2>2 DEF RecordAcceptance, At, ClaimIds, RunState
    <3>3. w.visit = u
      BY <1>0 DEF RunState
    <3> QED BY <1>1, <3>1, <3>2, <3>3, HandlerGoes DEF Watched
  <2> QED BY <1>5, <2>1, <2>2 DEF AcceptActivity
<1>6. StartActivity(u, lost) \/ FailVisit(u, lost) \/ ParkCase(u, lost) \/ ReplaceVisit(u, lost)
      => Spares(wf')
  BY <1>2 DEF StartActivity, StartVisit, StartAssignment, StartCase, FlagStart,
     FailVisit, ParkCase, ReplaceVisit, Lost, Then
<1>7. ASSUME RecordReplacement(u, lost) PROVE Spares(wf') \/ Watched(u)
  <2> DEFINE w == [wf EXCEPT !.visit = u]
  <2>1. \/ wf' = wf \/ (\E r, s : Finish(u, r, s))
        \/ wf' = Bumped(w) /\ Answer(u, "SUCCESS")
    BY <1>7 DEF RecordReplacement, Lost
  <2>2. KindOf[u] = "replace" /\ upd[u].pc = "case" /\ w \in RunState
    BY <1>0, <1>7 DEF RecordReplacement, At, ClaimIds, RunState
  <2>3. w.visit = u
    BY <1>0 DEF RunState
  <2> QED BY <1>1, <1>2, <2>1, <2>2, <2>3, HandlerGoes DEF Watched
<1>8. CompleteActivity(u, lost) => Spares(wf')
  <2>1. CompleteActivity(u, lost) => wf' = wf \/ wf' = [wf EXCEPT !.closing = TRUE]
    BY DEF CompleteActivity, CompleteVisit, CompleteAssignment, CompleteCase, FlagCompletion,
       Lost, Then, Reject
  <2> QED BY <1>0, <2>1 DEF RunState
<1>9. CancelActivity(u, lost) => Spares(wf')
  <2> DEFINE w == [wf EXCEPT !.attempt = NONE, !.visit = NONE, !.active = TRUE,
                             !.retryAt = NONE, !.closing = TRUE]
  <2>1. CancelActivity(u, lost) =>
            wf' = wf \/ wf' = [wf EXCEPT !.cancelling = FALSE] \/ wf' = Bumped(w)
    BY DEF CancelActivity, CancelVisit, CancelAssignment, CancelCase, CancellationRejected, Lost, Then
  <2>2. w \in RunState /\ w.visit = NONE
    BY <1>0 DEF RunState
  <2>3. [wf EXCEPT !.cancelling = FALSE].visit = wf.visit
    BY <1>0 DEF RunState
  <2> QED BY <1>1, <2>1, <2>2, <2>3
<1> QED BY <1>3, <1>4, <1>5, <1>6, <1>7, <1>8, <1>9 DEF HandlerActivity, VisitActivity

\* So does every step.
LEMMA WatchMoves ==
    ASSUME WorkflowInv, [Next]_vars
    PROVE  wf'.visit \in {wf.visit, NONE} \/ \E u \in Updates : Watched(u)
<1>1. ASSUME LoopStep \/ \E lost \in LostReplies : LoopActivity(lost)
      PROVE  wf'.visit \in {wf.visit, NONE}
  BY <1>1, LoopSpares, WorkflowAssumption
<1>2. ASSUME NEW u \in Updates,
             HandlerStep(u) \/ \E lost \in LostReplies : HandlerActivity(u, lost)
      PROVE  wf'.visit \in {wf.visit, NONE} \/ Watched(u)
  BY <1>2, HandlerWatches, WorkflowAssumption
<1>3. StartRun => wf'.visit = NONE
  BY DEF StartRun, FreshRun
<1>4. CommitFails \/ Tick \/ OtherCaseAllocates \/ (\E u \in Updates : Send(u)) \/ UNCHANGED vars
      => UNCHANGED wf
  BY DEF CommitFails, Tick, OtherCaseAllocates, Send, vars, workflowVars
<1> QED BY <1>1, <1>2, <1>3, <1>4 DEF Next

\* A replacement takes the guard of the visit it moves as it enters, past any expiry
\* that could still record it missed, and keeps the guard while it runs.
ReplacementEnters(r) ==
    /\ upd'[r].guards = (wf.visit = upd[r].target)
    /\ UNCHANGED <<atomVars, now, wf, main>>
    /\ \/ Recovering # upd[r].target
       \/ upd[r].was # "missed" /\ (upd[r].was = "scheduled" => ~(VisitSlot(r)[1] <= now))

\* A replacement that runs kept its guard, or took it as it entered.
LEMMA ReplacementGuards ==
    ASSUME WorkflowInv, [Next]_vars, NEW r \in Updates, KindOf[r] = "replace",
           upd'[r] # upd[r], Running(r)'
    PROVE  \/ Running(r) /\ upd'[r].guards = upd[r].guards
           \/ ReplacementEnters(r)
<1>0. UpdateShape /\ UpdateShape'
  BY EveryStepMoves DEF WorkflowInv, Shape, UpdatesMove
<1>1. upd'[r].pc \notin {"sent", "done", "await"}
  BY DEF Running
<1>2. ASSUME HandlerStep(r) PROVE ReplacementEnters(r)
  <2>1. (AdmitReplace(r) /\ Admit(r)) \/ AwaitRecovery(r)
    BY <1>2 DEF HandlerStep, AwaitGuards, ValidateCompletion, At, Admit, AdmitOpen, AdmitManual,
       AdmitAccept, AdmitVisitReport, AdmitCancel, AdmitComplete
  <2>2. Enter(r, "visit")
    BY <1>1, <2>1, HandlerGoes DEF AdmitReplace, AwaitRecovery
  <2>3. upd'[r].guards = (wf.visit = upd[r].target)
    <3>1. ASSUME NEW g, upd' = [upd EXCEPT ![r].pc = "visit", ![r].guards = g]
          PROVE  upd'[r].guards = g
      <4>1. upd'[r] = [upd[r] EXCEPT !.pc = "visit", !.guards = g]
        BY <1>0, <3>1 DEF UpdateShape
      <4>2. "guards" \in DOMAIN upd[r]
        BY <1>0 DEF UpdateShape, IsUpdate
      <4> QED BY <4>1, <4>2
    <3> QED BY <2>2, <3>1 DEF Enter
  <2>4. UNCHANGED <<atomVars, now, wf, main>>
    BY <2>1 DEF Admit, AdmitReplace, AwaitRecovery
  <2>5. CASE AwaitRecovery(r)
    BY <2>3, <2>4, <2>5 DEF AwaitRecovery, ReplacementEnters
  <2>6. CASE AdmitReplace(r)
    <3>1. ~(upd[r].was = "scheduled" /\ VisitSlot(r)[1] <= now)
      BY <1>1, <2>6, HandlerGoes DEF AdmitReplace
    <3>2. ~(upd[r].was = "missed" /\ Recovering = upd[r].target)
      BY <1>1, <2>6, <3>1, HandlerGoes DEF AdmitReplace
    <3> QED BY <2>3, <2>4, <3>1, <3>2 DEF ReplacementEnters
  <2> QED BY <2>1, <2>5, <2>6
<1>3. ASSUME NEW lost \in LostReplies, HandlerActivity(r, lost)
      PROVE  Running(r) /\ upd'[r].guards = upd[r].guards
  <2>1. ReplaceVisit(r, lost) \/ RecordReplacement(r, lost)
    BY <1>3, KindActivity
  <2>2. Running(r)
    BY <2>1 DEF ReplaceVisit, RecordReplacement, At, Running
  <2>3. Continue(r, "case") \/ \E result : Answer(r, result)
    BY <2>1 DEF ReplaceVisit, RecordReplacement, Lost, Then, Finish
  <2>4. Continue(r, "case")
    BY <1>1, <2>3, HandlerGoes
  <2> QED BY <1>0, <2>2, <2>4 DEF Continue, UpdateShape, IsUpdate
<1> QED BY <1>1, <1>2, <1>3, KindSteps

-----------------------------------------------------------------------------
(* The Officer Attention a missed visit leaves.                              *)

MissFlagged == "MISSED_APPOINTMENT" \in attention[TheCase]

\* Only a replacement being recorded, or the end of the Case, resolves it.
LEMMA MissedFlagResolved ==
    ASSUME WorkflowInv, [Next]_vars, MissFlagged, ~MissFlagged'
    PROVE  Ended' \/ \E r \in Updates : KindOf[r] = "replace" /\ upd[r].pc = "case"
<1>0. /\ attention = [c \in Cases |-> attention[c]] /\ TheCase \in Cases
      /\ caseStatus = [c \in Cases |-> caseStatus[c]]
      /\ "MISSED_APPOINTMENT" \in attention[TheCase]
      /\ "MISSED_APPOINTMENT" \notin attention'[TheCase]
      /\ "MISSED_APPOINTMENT" \notin Cas!AllocationAttentionKinds
  BY DEF WorkflowInv, Cas!CaseTypeOK, Cases, Cas!AllocationAttentionKinds, MissFlagged
<1>1. CaseCall
  BY <1>0, StepKinds, CallFrames, WorkflowFrame DEF OtherCaseAllocates, vars, atomVars, caseVars
<1>2. ASSUME NEW op, NEW done, NEW to, NEW resolved, "MISSED_APPOINTMENT" \notin resolved,
             NEW raised, NEW out, Cas!Transition(TheCase, op, done, to, resolved, raised, out)
      PROVE  FALSE
  BY <1>0, <1>2 DEF Cas!Transition
<1>3. ASSUME NEW lost, BreachCase(lost) \/ MarkAssigned(lost) PROVE FALSE
  BY <1>0, <1>2, <1>3 DEF BreachCase, MarkAssigned, Cas!MarkCaseBreached, Cas!MarkCaseAssigned
<1>4. ASSUME NEW u, NEW lost, StartCase(u, lost) \/ ParkCase(u, lost) PROVE FALSE
  BY <1>2, <1>4 DEF StartCase, ParkCase, Cas!MarkCaseInProgress, Cas!MarkCaseNoAccess
<1>5. ASSUME NEW u, NEW lost,
             \/ MissFlag(lost) \/ FlagAllocation(lost) \/ FlagStart(u, lost)
             \/ FlagCompletion(u, lost)
      PROVE  FALSE
  BY <1>0, <1>5 DEF MissFlag, FlagAllocation, FlagStart, FlagCompletion,
     Cas!RaiseOfficerAttention, Cas!Raise
<1>6. ASSUME NEW u, NEW lost, OpenCase(u, lost) \/ RecordAcceptance(u, lost) PROVE FALSE
  BY <1>0, <1>6 DEF OpenCase, RecordAcceptance, Cas!CreateCase, Cas!RecordAllocationAcceptance,
     Cas!Resolve
<1>7. ASSUME NEW u, NEW lost, RecordReplacement(u, lost) PROVE KindOf[u] = "replace" /\ upd[u].pc = "case"
  BY <1>7 DEF RecordReplacement, At
<1>8. ASSUME NEW u, NEW lost, CancelCase(u, lost) PROVE Ended'
  <2>1. Cas!CancelCase(TheCase, u, Cas!CancelCaseOutcome(TheCase))
    BY <1>8 DEF CancelCase
  <2> QED BY <1>0, <2>1 DEF Cas!CancelCase, Ended, Cas!Terminal
<1>9. ASSUME NEW u, NEW lost, CompleteCase(u, lost) PROVE Ended'
  <2> DEFINE out == Cas!CompleteCaseOutcome(TheCase, u)
  <2>1. Cas!CompleteCase(TheCase, u, out)
    BY <1>9 DEF CompleteCase
  <2>2. out = "COMPLETED"
    BY <1>0, <2>1 DEF Cas!CompleteCase, Cas!Resolve
  <2> QED BY <1>0, <2>1, <2>2 DEF Cas!CompleteCase, Ended, Cas!Terminal
<1> QED BY <1>1, <1>3, <1>4, <1>5, <1>6, <1>7, <1>8, <1>9 DEF CaseCall

\* Only the expiry raises it.
LEMMA MissedFlagRaised ==
    ASSUME WorkflowInv, [Next]_vars, ~MissFlagged, MissFlagged'
    PROVE  main.pc = "missFlag" /\ UNCHANGED <<claim, appointment>>
<1>0. /\ attention = [c \in Cases |-> attention[c]] /\ TheCase \in Cases
      /\ "MISSED_APPOINTMENT" \notin attention[TheCase]
      /\ "MISSED_APPOINTMENT" \in attention'[TheCase]
      /\ "MISSED_APPOINTMENT" \notin Cas!AllocationAttentionKinds
  BY DEF WorkflowInv, Cas!CaseTypeOK, Cases, Cas!AllocationAttentionKinds, MissFlagged
<1>1. CaseCall
  BY <1>0, StepKinds, CallFrames, WorkflowFrame DEF OtherCaseAllocates, vars, atomVars, caseVars
<1>2. UNCHANGED <<claim, appointment>>
  BY <1>1, CallFrames DEF appointmentVars
<1>3. ASSUME NEW op, NEW done, NEW to, NEW resolved, NEW raised,
             "MISSED_APPOINTMENT" \notin raised, NEW out,
             Cas!Transition(TheCase, op, done, to, resolved, raised, out)
      PROVE  FALSE
  BY <1>0, <1>3 DEF Cas!Transition
<1>4. ASSUME NEW lost, BreachCase(lost) \/ MarkAssigned(lost) PROVE FALSE
  BY <1>3, <1>4 DEF BreachCase, MarkAssigned, Cas!MarkCaseBreached, Cas!MarkCaseAssigned
<1>5. ASSUME NEW u, NEW lost, StartCase(u, lost) \/ ParkCase(u, lost) PROVE FALSE
  BY <1>3, <1>5 DEF StartCase, ParkCase, Cas!MarkCaseInProgress, Cas!MarkCaseNoAccess
<1>6. ASSUME NEW kind, Cas!RaiseOfficerAttention(TheCase, kind) PROVE kind = "MISSED_APPOINTMENT"
  BY <1>0, <1>6 DEF Cas!RaiseOfficerAttention, Cas!Raise
<1>7. ASSUME NEW lost, FlagAllocation(lost) PROVE FALSE
  BY <1>0, <1>6, <1>7 DEF FlagAllocation, WorkflowInv, Shape, LoopShape
<1>8. ASSUME NEW u, NEW lost, FlagStart(u, lost) \/ FlagCompletion(u, lost) PROVE FALSE
  BY <1>6, <1>8 DEF FlagStart, FlagCompletion
<1>9. ASSUME NEW u, NEW lost, OpenCase(u, lost) \/ RecordAcceptance(u, lost) PROVE FALSE
  BY <1>0, <1>9 DEF OpenCase, RecordAcceptance, Cas!CreateCase, Cas!RecordAllocationAcceptance,
     Cas!Resolve
<1>10. ASSUME NEW u, NEW lost, RecordReplacement(u, lost) PROVE FALSE
  BY <1>0, <1>10 DEF RecordReplacement, Cas!MarkCaseAppointmentReplaced, Cas!Resolve
<1>11. ASSUME NEW u, NEW lost, CancelCase(u, lost) PROVE FALSE
  BY <1>0, <1>11 DEF CancelCase, Cas!CancelCase, Cas!Resolve
<1>12. ASSUME NEW u, NEW lost, CompleteCase(u, lost) PROVE FALSE
  <2>1. Cas!CompleteCase(TheCase, u, Cas!CompleteCaseOutcome(TheCase, u))
    BY <1>12 DEF CompleteCase
  <2> QED BY <1>0, <2>1 DEF Cas!CompleteCase, Cas!Resolve
<1>13. ASSUME NEW lost, MissFlag(lost) PROVE main.pc = "missFlag"
  BY <1>13 DEF MissFlag
<1> QED BY <1>1, <1>2, <1>4, <1>5, <1>7, <1>8, <1>9, <1>10, <1>11, <1>12, <1>13 DEF CaseCall

\* A replacement whose visit is booked is answered once the Case has ended or the
\* attention is resolved.
LEMMA ReplacementEnds ==
    ASSUME WorkflowInv, [Next]_vars, NEW r \in Updates, KindOf[r] = "replace",
           appointment[r] # NONE, upd[r].pc # "done", upd'[r].pc = "done"
    PROVE  Ended \/ ~MissFlagged'
<1>0. /\ attention = [c \in Cases |-> attention[c]] /\ TheCase \in Cases
      /\ r \in ClaimIds
  BY DEF WorkflowInv, Cas!CaseTypeOK, Cases, ClaimIds
<1>1. upd[r].pc \notin {"new", "sent"}
  BY <1>0 DEF WorkflowInv, NothingBefore, ClaimsNameOffers
<1>2. ASSUME HandlerStep(r) PROVE FALSE
  <2>1. AwaitRecovery(r)
    BY <1>1, <1>2 DEF HandlerStep, AwaitGuards, ValidateCompletion, At, Admit
  <2> QED BY <2>1, HandlerGoes DEF AwaitRecovery
<1>3. ASSUME NEW lost \in LostReplies, ReplaceVisit(r, lost) PROVE FALSE
  <2> DEFINE out == Apt!ReplaceOutcome(upd[r].target, r, TheCase, upd[r].slot)
  <2>1. appointment[upd[r].target] # NONE
    BY <1>1, ReportedVisit, VisitIsRow
  <2>2. out = "ALREADY_REPLACED"
    BY <2>1 DEF Apt!ReplaceOutcome
  <2>3. UNCHANGED upd \/ Continue(r, "case")
    BY <1>3, <2>2 DEF ReplaceVisit, Lost, Then
  <2> QED BY <2>3, HandlerGoes
<1>4. ASSUME NEW lost \in LostReplies, RecordReplacement(r, lost) PROVE Ended \/ ~MissFlagged'
  <2>1. PICK out \in {"REPLACED", "CASE_TERMINAL"} : Cas!MarkCaseAppointmentReplaced(TheCase, r, out)
    BY <1>4 DEF RecordReplacement
  <2> QED BY <1>0, <2>1 DEF Cas!MarkCaseAppointmentReplaced, Cas!Resolve, Ended, MissFlagged
<1> QED BY <1>1, <1>2, <1>3, <1>4, KindSteps, KindActivity

-----------------------------------------------------------------------------
(* The expiry and the replacements do not overtake each other.               *)

Expires(x) == Expiring /\ main.target = x

\* A visit is missed only while it is the current one, so its own booking was
\* answered; until it is flagged the expiry is not over.
WatchInv ==
    /\ \A x \in ClaimIds : wf.visit = x => upd[x].pc = "done" /\ appointment[x] # NONE
    /\ \A x \in ClaimIds : appointment[x] = "missed" =>
           upd[x].pc = "done" /\ (wf.visit = x => Expires(x))
    /\ \A r \in Updates, x \in ClaimIds : Replacing(r, x) /\ Running(r) =>
           upd[r].guards \/ wf.visit # x
    /\ main.pc = "due" => HoldingVisit = {}
    /\ \A x \in ClaimIds : Expires(x) =>
           /\ upd[x].pc = "done" /\ appointment[x] # NONE /\ claim[x].slot[2] <= now
           /\ main.pc = "missFlag" => appointment[x] = "missed"
           /\ Awaited(x) => Stands(x) /\ \A r \in Updates : Replacing(r, x) => ~Running(r)

\* Only the expiry marks a visit missed.
LEMMA NewMissed ==
    ASSUME WorkflowInv, [Next]_vars, NEW x \in ClaimIds,
           appointment[x] # "missed", appointment'[x] = "missed"
    PROVE  VisitMissed(x)
<1>1. VisitMoves(x)
  BY VisitGoes
<1> QED BY <1>1 DEF VisitMoves, VisitBooked, VisitReplaced, VisitCancelled, VisitAttended

\* Time passes, and a claim keeps its interval.
LEMMA TimePasses ==
    ASSUME WorkflowInv, [Next]_vars, NEW x \in ClaimIds, appointment[x] # NONE,
           claim[x].slot[2] <= now
    PROVE  claim'[x].slot[2] <= now'
<1>1. now \in Nat /\ now' \in Nat /\ now <= now'
  <2>1. UNCHANGED now \/ now' = now + 1
    BY StepKinds, CallFrames
       DEF WorkflowStep, LoopStep, Top, Close, CancellationSettled, Wake, GateAccept, GateVisit, Due,
           BreachCheck, Shift, CheckTerminal, FetchSnapshot, StartRun, Tick, Send, HandlerStep, Admit,
           AwaitRecovery, AwaitGuards, ValidateCompletion, OtherCaseAllocates, vars
  <2>2. now \in 0 .. MaxTime
    BY DEF WorkflowInv
  <2> QED BY <2>1, <2>2, BoundsAreNumbers
<1>2. claim[x] # Apt!NoClaim
  BY DEF WorkflowInv, ClaimsNameOffers
<1>3. claim'[x].slot = claim[x].slot
  BY <1>2, AppointmentStands, SameAppointment DEF AptP!Stays
<1>4. claim[x].slot[2] \in Nat
  BY <1>2, ClaimIsRow, SlotsAreIntervals
<1> QED BY <1>1, <1>3, <1>4

\* The expiry lasts until the visit is flagged or was not missed.
LEMMA ExpiryLasts ==
    ASSUME WorkflowInv, WatchInv, [Next]_vars, NEW x \in ClaimIds, Expires(x), ~Expires(x)'
    PROVE  /\ wf'.visit # x
           /\ \/ MissFlag(FALSE)
              \/ main.pc = "missVisit" /\ ~Awaited(x) /\ UNCHANGED caseVars
<1>1. Expiring /\ main.target = x /\ appointment[main.target] # NONE
  BY DEF Expires, WatchInv
<1>2. ~UNCHANGED main /\ ~ExpiryRecorded
  BY <1>1 DEF Expires, Expiring, ExpiryRecorded
<1> QED BY <1>1, <1>2, LoopLeavesExpiry

\* A missed visit that is current is being flagged, and it is when it is marked.
LEMMA MissedIsExpiring ==
    ASSUME WorkflowInv, WatchInv, [Next]_vars, NEW x \in ClaimIds,
           VisitMissed(x)
    PROVE  Expires(x) /\ Expires(x)'
<1>1. Expires(x) /\ main.pc = "missVisit" /\ Awaited(x)
  BY DEF VisitMissed, Expires, Expiring, Awaited
<1>2. ~MissFlag(FALSE)
  BY <1>1 DEF MissFlag
<1> QED BY <1>1, <1>2, ExpiryLasts

\* The expiry begins at a visit that is over: no replacement is under way that could
\* still move it.
LEMMA ExpiryBegins ==
    ASSUME WorkflowInv, TurnInv, WatchInv, Apt!LiveVisitOwnsItsSlot, [Next]_vars,
           NEW x \in ClaimIds, Expires(x)', ~Expires(x)
    PROVE  /\ wf.visit = x /\ claim[x].slot[2] <= now /\ main'.pc = "missVisit"
           /\ UNCHANGED <<upd, claim, appointment, now>>
           /\ Awaited(x) => Stands(x)
           /\ \A r \in Updates : Replacing(r, x) => ~Running(r)
<1>0. ~UNCHANGED main /\ main'.pc \in {"missVisit", "missFlag"} /\ main'.target = x
  BY DEF Expires, Expiring
<1>1. main.pc = "missVisit" => appointment[main.target] # NONE
  BY DEF WatchInv, Expires, Expiring, WorkflowInv, Shape, LoopShape
<1>2. ~ExpiryRecorded
  BY <1>0 DEF ExpiryRecorded, Expires, Expiring
<1>3. ~GateVisit
  BY <1>0, LoopGoes DEF GateVisit
<1>4. ExpiryStarts
  BY <1>0, <1>1, <1>2, <1>3, LoopReachesExpiry
<1>5. wf.visit = x /\ now >= claim[x].slot[2] /\ main'.pc = "missVisit" /\ main.pc = "due"
  BY <1>0, <1>4 DEF ExpiryStarts
<1>6. upd[x].pc = "done" /\ appointment[x] # NONE
  BY <1>5 DEF WatchInv
<1>7. UNCHANGED <<upd, claim, appointment, now>>
  BY <1>4 DEF ExpiryStarts, Due, atomVars, appointmentVars
<1>8. appointment[x] # "missed"
  BY <1>5 DEF WatchInv, Expires, Expiring
<1>9. Awaited(x) => Stands(x)
  BY <1>6, <1>8 DEF Awaited, Apt!LiveVisitOwnsItsSlot, Apt!Live, Stands, Holds
<1>10. ASSUME NEW r \in Updates, Replacing(r, x), Running(r) PROVE FALSE
  <2>1. upd[r].guards
    BY <1>5, <1>10 DEF WatchInv
  <2> QED BY <1>5, <1>10, <2>1 DEF WatchInv, HoldingVisit
<1>11. claim[x].slot[2] \in Nat /\ now \in Nat
  BY <1>6, ClaimIsRow, SlotsAreIntervals, BoundsAreNumbers DEF WorkflowInv, ClaimsNameOffers
<1> QED BY <1>5, <1>7, <1>9, <1>10, <1>11

\* A replacement that is under way after a step was sent before it.
LEMMA ReplacingBefore ==
    ASSUME WorkflowInv, [Next]_vars, NEW r \in Updates, NEW x, Replacing(r, x)', Running(r)'
    PROVE  Replacing(r, x)
<1> QED BY EveryStepMoves DEF UpdatesMove, Sends, Proceeds, Answers, Replacing, Running

\* A visit that was recorded missed stays so.
LEMMA MissedStays ==
    ASSUME WorkflowInv, [Next]_vars, NEW x \in ClaimIds, appointment[x] = "missed"
    PROVE  appointment'[x] = "missed"
<1>1. VisitMoves(x)
  BY VisitGoes
<1> QED BY <1>1, StatusIsThere
        DEF VisitMoves, VisitBooked, VisitReplaced, VisitCancelled, VisitMissed, VisitAttended

\* No step lets a replacement and the expiry of the visit it moves overtake each other.
LEMMA WatchStep ==
    ASSUME WorkflowInv, BookedInv, TurnInv, WatchInv, Apt!LiveVisitOwnsItsSlot, [Next]_vars
    PROVE  WatchInv'
<1>1. ASSUME NEW x \in ClaimIds, wf'.visit = x, wf.visit # x PROVE Watched(x)
  BY <1>1, WatchMoves, NoneIsNull DEF Watched, ClaimIds
<1>2. ASSUME NEW x \in ClaimIds, wf'.visit = x
      PROVE  upd'[x].pc = "done" /\ appointment'[x] # NONE
  <2>1. CASE wf.visit = x
    BY <2>1, DoneStays, BookingsStay DEF WatchInv, ClaimIds
  <2>2. CASE wf.visit # x
    BY <1>1, <1>2, <2>2, BookingsStay DEF Watched, BookedInv, ClaimIds
  <2> QED BY <2>1, <2>2
<1>3. ASSUME NEW x \in ClaimIds, appointment'[x] = "missed"
      PROVE  upd'[x].pc = "done" /\ (wf'.visit = x => Expires(x)')
  <2>1. CASE appointment[x] = "missed"
    <3>1. upd[x].pc = "done" /\ upd'[x].pc = "done"
      BY <2>1, DoneStays DEF WatchInv, ClaimIds
    <3>2. wf'.visit = x => wf.visit = x
      BY <1>1, <3>1 DEF Watched
    <3> QED BY <2>1, <3>1, <3>2, ExpiryLasts DEF WatchInv
  <2>2. CASE appointment[x] # "missed"
    <3>1. Expires(x) /\ Expires(x)'
      BY <1>3, <2>2, NewMissed, MissedIsExpiring
    <3>2. upd[x].pc = "done"
      BY <3>1 DEF WatchInv
    <3> QED BY <3>1, <3>2, DoneStays DEF ClaimIds
  <2> QED BY <2>1, <2>2
<1>4. ASSUME NEW r \in Updates, NEW x \in ClaimIds, Replacing(r, x)', Running(r)'
      PROVE  upd'[r].guards \/ wf'.visit # x
  <2>1. Replacing(r, x) /\ upd[x].pc = "done"
    BY <1>4, ReplacingBefore DEF TurnInv, InTurn
  <2>2. wf'.visit = x => wf.visit = x
    BY <1>1, <2>1 DEF Watched
  <2>3. CASE upd'[r] = upd[r]
    BY <1>4, <2>1, <2>2, <2>3 DEF WatchInv, Running
  <2>4. CASE upd'[r] # upd[r]
    <3>1. (Running(r) /\ upd'[r].guards = upd[r].guards) \/ upd'[r].guards = (wf.visit = x)
      BY <1>4, <2>1, <2>4, ReplacementGuards DEF Replacing, ReplacementEnters
    <3> QED BY <2>1, <2>2, <3>1 DEF WatchInv
  <2> QED BY <2>3, <2>4
<1>5. main.pc = "missVisit" => appointment[main.target] # NONE
  BY DEF WatchInv, Expires, Expiring, WorkflowInv, Shape, LoopShape
<1>6. ASSUME main'.pc = "due", NEW u \in HoldingVisit' PROVE FALSE
  <2>1. u \in Updates /\ Running(u)' /\ upd'[u].guards
    BY <1>6 DEF HoldingVisit
  <2>2. CASE UNCHANGED main
    <3>1. Synchronous /\ HoldingVisit = {}
      BY <1>6, <2>2 DEF Synchronous, WatchInv
    <3>2. upd'[u] = upd[u]
      BY <2>1, <3>1, HandlersWait
    <3> QED BY <2>1, <3>1, <3>2 DEF HoldingVisit, Running
  <2>3. CASE ~UNCHANGED main
    <3>1. GateVisit
      BY <1>5, <1>6, <2>3, LoopReachesExpiry DEF ExpiryStarts, ExpiryRecorded
    <3> QED BY <2>1, <3>1 DEF GateVisit, HoldingVisit, Running
  <2> QED BY <2>2, <2>3
<1>7. ASSUME NEW x \in ClaimIds, Expires(x)', Expires(x)
      PROVE  /\ upd'[x].pc = "done" /\ appointment'[x] # NONE /\ claim'[x].slot[2] <= now'
             /\ main'.pc = "missFlag" => appointment'[x] = "missed"
             /\ Awaited(x)' => Stands(x)' /\ \A r \in Updates : Replacing(r, x)' => ~Running(r)'
  <2>1. upd[x].pc = "done" /\ appointment[x] # NONE /\ claim[x].slot[2] <= now
    BY <1>7 DEF WatchInv
  <2>2. upd'[x].pc = "done" /\ appointment'[x] # NONE /\ claim'[x].slot[2] <= now'
    BY <2>1, DoneStays, BookingsStay, TimePasses DEF ClaimIds
  <2>3. ASSUME main'.pc = "missFlag" PROVE appointment'[x] = "missed"
    <3>1. CASE UNCHANGED main
      BY <1>7, <2>3, <3>1, MissedStays DEF WatchInv
    <3>2. CASE ~UNCHANGED main
      <4>1. ExpiryRecorded
        BY <1>5, <2>3, <3>2, LoopReachesExpiry, LoopGoes DEF GateVisit, ExpiryStarts
      <4> QED BY <1>7, <4>1 DEF ExpiryRecorded, Expires
    <3> QED BY <3>1, <3>2
  <2>4. ASSUME Awaited(x)' PROVE Awaited(x) /\ Stands(x) /\ \A r \in Updates : Replacing(r, x) => ~Running(r)
    BY <1>7, <2>1, <2>4, VisitGoesOn DEF WatchInv
  <2>5. ASSUME Awaited(x)' PROVE Stands(x)'
    <3>1. ASSUME NEW r \in Updates, VisitReplaced(x, r) PROVE FALSE
      BY <2>4, <2>5, <3>1 DEF VisitReplaced, Replacing, Running
    <3>2. appointment'[x] # "cancelled"
      BY <2>5 DEF Awaited
    <3> QED BY <2>1, <2>4, <2>5, <3>1, <3>2, VisitGoesOn
  <2>6. ASSUME Awaited(x)', NEW r \in Updates, Replacing(r, x)', Running(r)' PROVE FALSE
    <3>1. Replacing(r, x) /\ ~Running(r) /\ upd[r].was \in {"scheduled", "missed"}
      BY <2>4, <2>6, ReplacingBefore DEF TurnInv, InTurn
    <3>2. ReplacementEnters(r)
      BY <2>6, <3>1, ReplacementGuards DEF Replacing, Running
    <3>3. Recovering = upd[r].target
      BY <1>7, <3>1 DEF Recovering, Expires, Replacing
    <3>4. ~(claim[x].slot[1] <= now)
      BY <3>1, <3>2, <3>3 DEF ReplacementEnters, VisitSlot, Replacing
    <3>5. claim[x].slot \in Slots
      BY <2>1, ClaimIsRow DEF WorkflowInv, ClaimsNameOffers
    <3> QED BY <2>1, <3>4, <3>5, SlotsAreIntervals, BoundsAreNumbers DEF WorkflowInv
  <2> QED BY <2>2, <2>3, <2>5, <2>6
<1>8. ASSUME NEW x \in ClaimIds, Expires(x)', ~Expires(x)
      PROVE  /\ upd'[x].pc = "done" /\ appointment'[x] # NONE /\ claim'[x].slot[2] <= now'
             /\ main'.pc = "missFlag" => appointment'[x] = "missed"
             /\ Awaited(x)' => Stands(x)' /\ \A r \in Updates : Replacing(r, x)' => ~Running(r)'
  <2>1. /\ wf.visit = x /\ claim[x].slot[2] <= now /\ main'.pc = "missVisit"
        /\ UNCHANGED <<upd, claim, appointment, now>>
        /\ Awaited(x) => Stands(x)
        /\ \A r \in Updates : Replacing(r, x) => ~Running(r)
    BY <1>8, ExpiryBegins
  <2> QED BY <2>1 DEF WatchInv, Awaited, Stands, Holds, Replacing, Running
<1> QED BY <1>2, <1>3, <1>4, <1>6, <1>7, <1>8 DEF WatchInv

\* A missed visit that was not recovered holds its time.
Unrecovered(x) == Stands(x) /\ appointment[x] = "missed"

\* The attention is there for a visit that was missed, or about to be; it stays only
\* for that visit or for a replacement that has booked and is about to resolve it.
FlagInv ==
    ~Ended =>
        /\ \A x \in ClaimIds : Unrecovered(x) => MissFlagged \/ Expires(x)
        /\ MissFlagged => \/ \E x \in ClaimIds : Unrecovered(x)
                          \/ \E r \in Updates, x \in ClaimIds :
                                Replacing(r, x) /\ appointment[r] # NONE

\* The expiry raises the attention, and a replacement that is recorded has left no
\* other missed visit behind.
LEMMA FlagStep ==
    ASSUME WorkflowInv, BookedInv, TurnInv, WatchInv, FlagInv, [Next]_vars
    PROVE  FlagInv'
<1> SUFFICES ASSUME ~Ended'
             PROVE  /\ \A x \in ClaimIds : Unrecovered(x)' => MissFlagged' \/ Expires(x)'
                    /\ MissFlagged' => \/ \E x \in ClaimIds : Unrecovered(x)'
                                       \/ \E r \in Updates, x \in ClaimIds :
                                             Replacing(r, x)' /\ appointment'[r] # NONE
  BY DEF FlagInv
<1>0. ~Ended
  BY EndIsFinal DEF Ended, Cas!Terminal, Status
<1>1. ASSUME NEW x \in ClaimIds, Unrecovered(x)' PROVE MissFlagged' \/ Expires(x)'
  <2>1. CASE appointment[x] # "missed"
    BY <1>1, <2>1, NewMissed, MissedIsExpiring DEF Unrecovered
  <2>2. CASE appointment[x] = "missed"
    <3>1. Unrecovered(x)
      BY <1>1, <2>2, VisitGoesOn, StatusIsThere DEF Unrecovered
    <3>2. CASE MissFlagged
      <4>1. ASSUME ~MissFlagged' PROVE FALSE
        <5>1. PICK r \in Updates : KindOf[r] = "replace" /\ upd[r].pc = "case"
          BY <3>2, <4>1, MissedFlagResolved
        <5>2. appointment[r] # NONE /\ upd[r].target \in ClaimIds /\ Replacing(r, upd[r].target)
          BY <5>1, ReportedVisit DEF BookedInv, Replacing
        <5>3. x = r
          BY <3>1, <5>2 DEF TurnInv, InTurn, Unrecovered
        <5> QED BY <2>2, <5>1, <5>3 DEF WatchInv
      <4> QED BY <4>1
    <3>3. CASE Expires(x) /\ ~Expires(x)'
      <4>1. MissFlag(FALSE)
        BY <2>2, <3>3, ExpiryLasts DEF Awaited
      <4>2. attention = [c \in Cases |-> attention[c]] /\ TheCase \in Cases
        BY DEF WorkflowInv, Cas!CaseTypeOK, Cases
      <4> QED BY <4>1, <4>2 DEF MissFlag, Cas!RaiseOfficerAttention, Cas!Raise, MissFlagged
    <3> QED BY <1>0, <3>1, <3>2, <3>3 DEF FlagInv
  <2> QED BY <2>1, <2>2
<1>2. ASSUME MissFlagged'
      PROVE  \/ \E x \in ClaimIds : Unrecovered(x)'
             \/ \E r \in Updates, x \in ClaimIds : Replacing(r, x)' /\ appointment'[r] # NONE
  <2>1. ASSUME ~MissFlagged PROVE \E x \in ClaimIds : Unrecovered(x)'
    <3>1. main.pc = "missFlag" /\ UNCHANGED <<claim, appointment>>
      BY <1>2, <2>1, MissedFlagRaised
    <3>2. main.target \in ClaimIds /\ Expires(main.target)
      BY <3>1 DEF Expires, Expiring, WorkflowInv, Shape, LoopShape
    <3>3. PICK x \in ClaimIds : x = main.target
      BY <3>2
    <3>4. appointment[x] = "missed" /\ Stands(x)
      BY <3>1, <3>2, <3>3 DEF WatchInv, Awaited
    <3> QED BY <3>1, <3>4 DEF Unrecovered, Stands, Holds
  <2>2. ASSUME NEW x \in ClaimIds, Unrecovered(x), ~Unrecovered(x)'
        PROVE  \E r \in Updates : Replacing(r, x)' /\ appointment'[r] # NONE
    <3>1. appointment'[x] = "missed" /\ ~Stands(x)' /\ Stands(x)
      BY <2>2, MissedStays DEF Unrecovered
    <3>2. PICK r \in Updates : VisitReplaced(x, r)
      BY <3>1, VisitGoesOn DEF Stands
    <3>3. upd'[r].target = x
      BY <3>2, EveryStepMoves DEF UpdatesMove, Sends, Proceeds, Answers, VisitReplaced
    <3> QED BY <3>2, <3>3 DEF VisitReplaced, Replacing
  <2>3. ASSUME NEW r \in Updates, NEW x \in ClaimIds, Replacing(r, x), appointment[r] # NONE
        PROVE  Replacing(r, x)' /\ appointment'[r] # NONE
    <3>1. r \in ClaimIds
      BY <2>3 DEF Replacing, ClaimIds
    <3>2. upd'[r].pc # "done"
      BY <1>0, <1>2, <2>3, ReplacementEnds DEF Replacing
    <3> QED BY <2>3, <3>1, <3>2, EveryStepMoves, BookingsStay
            DEF UpdatesMove, Sends, Proceeds, Answers, Replacing
  <2> QED BY <1>0, <2>1, <2>2, <2>3 DEF FlagInv
<1> QED BY <1>1, <1>2

\* A live visit owns its time in the whole system too.
LEMMA LiveVisitsStand == Spec => []Apt!LiveVisitOwnsItsSlot
<1>1. Init => AptP!AppointmentInit
  BY DEF Init, Apt!AppointmentInit, AptP!AppointmentInit, Apt!NoClaim, AptP!NoClaim
<1>2. WorkflowInv /\ [Next]_vars => [AptP!AppointmentNext]_(AptP!appointmentVars)
  BY AppointmentCalls, SameAppointment DEF appointmentVars, AptP!appointmentVars
<1>3. Spec => AptP!AppointmentSpec
  BY <1>1, <1>2, WorkflowInvariant, PTL DEF Spec, AptP!AppointmentSpec
<1>4. AptP!AppointmentSpec => []AptP!LiveVisitOwnsItsSlot
  BY AppointmentAssumptions, AptP!LiveVisitsOwnTime
<1>5. AptP!LiveVisitOwnsItsSlot => Apt!LiveVisitOwnsItsSlot
  BY DEF AptP!LiveVisitOwnsItsSlot, Apt!LiveVisitOwnsItsSlot, AptP!Live, Apt!Live
<1> QED BY <1>3, <1>4, <1>5, PTL

\* A missed visit is flagged until it is recovered, and no longer (runMissedAppointment,
\* runReplaceAppointment), as long as replacements are in turn.
THEOREM MissedVisitsAreFlagged == SpecInTurn => []MissedVisitIsFlagged
<1> DEFINE Inv == BookedInv /\ TurnInv /\ WatchInv /\ FlagInv
<1>1. Init => Inv
  <2> SUFFICES ASSUME Init PROVE Inv
    OBVIOUS
  <2>1. /\ \A u \in Updates : upd[u] = NewUpdate
        /\ \A x \in ClaimIds : appointment[x] = NONE
        /\ wf.visit = NONE /\ main.pc = "top" /\ attention[TheCase] = {}
    BY DEF Init, Apt!AppointmentInit, Cas!CaseInit, Cases, FreshRun, AtTop
  <2>2. \A u \in Updates : upd[u].pc = "new"
    BY <2>1 DEF NewUpdate
  <2>3. BookedInv
    BY <2>2 DEF BookedInv
  <2>4. TurnInv
    BY <2>1, <2>2 DEF TurnInv, Replacing, Stands
  <2>5. WatchInv
    BY <2>1, <2>2, NoneIsNull, StatusIsThere DEF WatchInv, Replacing, Expires, Expiring, ClaimIds
  <2>6. FlagInv
    BY <2>1 DEF FlagInv, Unrecovered, Stands, MissFlagged
  <2> QED BY <2>3, <2>4, <2>5, <2>6
<1>2. ASSUME WorkflowInv, Inv, Apt!LiveVisitOwnsItsSlot, [Next /\ ReplacementsInTurn]_vars
      PROVE  Inv'
  <2>1. [Next]_vars
    BY <1>2
  <2>2. ReplacementsInTurn
    BY <1>2 DEF ReplacementsInTurn, vars, workflowVars
  <2> QED BY <1>2, <2>1, <2>2, BookedStep, TurnStep, WatchStep, FlagStep
<1>3. WorkflowInv /\ Inv => MissedVisitIsFlagged
  <2> SUFFICES ASSUME WorkflowInv, Inv, HandlersFinished, main.pc = "idle", ~Ended
               PROVE  MissFlagged <=> \E x \in Apt!VisitsOf(TheCase) :
                          appointment[x] = "missed" /\ claim[x].status = "ACTIVE"
    BY DEF MissedVisitIsFlagged, MissFlagged
  <2>1. ASSUME NEW x \in Apt!VisitsOf(TheCase), appointment[x] = "missed", claim[x].status = "ACTIVE"
        PROVE  MissFlagged
    <3>1. x \in ClaimIds /\ Unrecovered(x)
      BY <2>1, VisitIsRow DEF Unrecovered, Stands, Holds
    <3> QED BY <3>1 DEF FlagInv, Expires, Expiring
  <2>2. ASSUME NEW r \in Updates, NEW x \in ClaimIds, Replacing(r, x), appointment[r] # NONE
        PROVE  FALSE
    BY <2>2 DEF Replacing, HandlersFinished, WorkflowInv, NothingBefore, ClaimsNameOffers, ClaimIds
  <2>3. ASSUME MissFlagged
        PROVE  \E x \in Apt!VisitsOf(TheCase) : appointment[x] = "missed" /\ claim[x].status = "ACTIVE"
    <3>1. PICK x \in ClaimIds : Unrecovered(x)
      BY <2>2, <2>3 DEF FlagInv
    <3>2. claim[x].case = TheCase
      BY <3>1, ClaimIsRow DEF Unrecovered, Stands, WorkflowInv, ClaimsNameOffers
    <3> QED BY <3>1, <3>2 DEF Unrecovered, Stands, Holds, Apt!VisitsOf
  <2> QED BY <2>1, <2>3
<1>4. SpecInTurn => Spec
  <2>1. [Next /\ ReplacementsInTurn]_vars => [Next]_vars
    OBVIOUS
  <2> QED BY <2>1, PTL DEF SpecInTurn, Spec
<1> QED BY <1>1, <1>2, <1>3, <1>4, WorkflowInvariant, LiveVisitsStand, PTL DEF SpecInTurn
-----------------------------------------------------------------------------
(* What becomes of a Case: the Workflow implements CaseLifecycle.            *)

\* A handler that starts work calls the Assignment on a visit that has begun; finished
\* work has a finished visit, and a completed Case has finished work.
OrderInv ==
    /\ \A u \in Updates : KindOf[u] = "start" /\ upd[u].pc = "work" =>
           appointment[upd[u].target] \in {"in_progress", "completed"}
    /\ assignment[TheCase] = "COMPLETED" => \E x \in ClaimIds : appointment[x] = "completed"
    /\ Status = "completed" => assignment[TheCase] = "COMPLETED"

\* Every visit is one of the Case.
LEMMA ReachedBy ==
    ASSUME WorkflowInv, NEW status \in {"in_progress", "completed"}
    PROVE  Reached(status) <=> \E x \in ClaimIds : appointment[x] = status
<1>1. ASSUME NEW x \in ClaimIds, appointment[x] = status PROVE x \in Apt!VisitsOf(TheCase)
  <2>1. appointment[x] # NONE
    BY <1>1, StatusIsThere
  <2>2. claim[x].case = TheCase
    BY <2>1, ClaimIsRow DEF WorkflowInv, ClaimsNameOffers
  <2> QED BY <2>1, <2>2 DEF Apt!VisitsOf
<1> QED BY <1>1 DEF Reached, Apt!VisitsOf

\* A visit that has begun is not called off any more.
LEMMA BegunVisitStays ==
    ASSUME WorkflowInv, [Next]_vars, NEW x \in ClaimIds,
           appointment[x] \in {"in_progress", "completed"}
    PROVE  appointment'[x] \in {"in_progress", "completed"}
<1>1. CASE appointment[x] = "completed"
  BY <1>1, RecordsStand
<1>2. CASE appointment[x] = "in_progress" /\ appointment'[x] # "in_progress"
  <2>1. AppointmentCall
    BY <1>2, StepKinds, CallFrames, WorkflowFrame
       DEF OtherCaseAllocates, vars, atomVars, appointmentVars
  <2>0. appointment = [y \in ClaimIds |-> appointment[y]] /\ "in_progress" # NONE
    BY StatusIsThere DEF WorkflowInv, Apt!AppointmentTypeOK
  <2>2. ASSUME NEW y, NEW k, NEW to, NEW done, NEW already, done \notin {already, "NOT_SCHEDULED",
                   "WRONG_CONTRACTOR", "APPOINTMENT_NOT_FOUND"},
               Apt!LeaveScheduled(y, to, done, Apt!LeaveScheduledOutcome(y, k, to, done, already))
        PROVE  FALSE
    <3>1. /\ appointment' = [appointment EXCEPT ![y] = to]
          /\ Apt!LeaveScheduledOutcome(y, k, to, done, already) = done
      BY <1>2, <2>2 DEF Apt!LeaveScheduled
    <3>2. y = x
      BY <1>2, <2>0, <3>1
    <3> QED BY <1>2, <2>0, <2>2, <3>1, <3>2 DEF Apt!LeaveScheduledOutcome
  <2>3. ASSUME NEW u, NEW lost, StartVisit(u, lost) \/ FailVisit(u, lost) \/ MissVisit(lost)
        PROVE  FALSE
    <3> DEFINE x0 == upd[u].target
    <3>1. CASE StartVisit(u, lost)
      <4>1. Apt!LeaveScheduled(x0, "in_progress", "STARTED",
               Apt!LeaveScheduledOutcome(x0, Visitor(u), "in_progress", "STARTED", "ALREADY_STARTED"))
        BY <3>1 DEF StartVisit, Apt!StartWorkAppointment, Apt!StartVisitOutcome
      <4> QED BY <2>2, <4>1
    <3>2. CASE FailVisit(u, lost)
      <4>1. Apt!LeaveScheduled(x0, "no_access", "NO_ACCESS",
               Apt!LeaveScheduledOutcome(x0, Visitor(u), "no_access", "NO_ACCESS", "ALREADY_NO_ACCESS"))
        BY <3>2 DEF FailVisit, Apt!ReportNoAccessAppointment, Apt!NoAccessOutcome
      <4> QED BY <2>2, <4>1
    <3>3. CASE MissVisit(lost)
      <4>1. Apt!LeaveScheduled(main.target, "missed", "MISSED",
               Apt!LeaveScheduledOutcome(main.target, NONE, "missed", "MISSED", "ALREADY_MISSED"))
        BY <3>3 DEF MissVisit, Apt!MarkAppointmentMissed, Apt!MissedOutcome
      <4> QED BY <2>2, <4>1
    <3> QED BY <2>3, <3>1, <3>2, <3>3
  <2>4. ASSUME NEW u, NEW lost,
               ReserveSlot(u, lost) \/ ReleaseSlot(u, lost) \/ ConfirmSlot(u, lost)
        PROVE  FALSE
    BY <1>2, <2>0, <2>4 DEF ReserveSlot, ReleaseSlot, ConfirmSlot, Apt!ReserveAppointmentSlot,
       Apt!ReleaseAppointmentSlot, Apt!ConfirmAppointmentSlot, Apt!ConfirmOutcome
  <2>5. ASSUME NEW u, NEW lost, CancelVisit(u, lost) PROVE FALSE
    BY <1>2, <2>0, <2>5 DEF CancelVisit, Apt!CancelScheduledAppointment
  <2>6. ASSUME NEW u \in Updates, NEW lost \in LostReplies, ReplaceVisit(u, lost) PROVE FALSE
    <3>1. VisitMoves(x)
      BY VisitGoes
    <3>2. UNCHANGED appointment \/ Apt!ReplaceOutcome(upd[u].target, u, TheCase, upd[u].slot) = "REPLACED"
      BY <2>6 DEF ReplaceVisit, Apt!ReplaceAppointmentSlot
    <3>3. appointment[upd[u].target] \in Apt!Replaceable /\ appointment[u] = NONE
      BY <1>2, <3>2 DEF Apt!ReplaceOutcome
    <3>4. appointment' = [appointment EXCEPT
              ![upd[u].target] = IF @ = "scheduled" THEN "rescheduled" ELSE @,
              ![u] = "scheduled"]
      BY <1>2, <2>6 DEF ReplaceVisit, Apt!ReplaceAppointmentSlot
    <3> QED BY <1>2, <2>0, <3>3, <3>4
  <2>7. ASSUME NEW u, NEW lost, CompleteVisit(u, lost) PROVE appointment'[x] = "completed"
    BY <1>2, <2>0, <2>7 DEF CompleteVisit, Apt!CompleteAppointment
  <2> QED BY <2>1, <2>3, <2>4, <2>5, <2>6, <2>7 DEF AppointmentCall
<1> QED BY <1>1, <1>2

\* What is reached after a step, likewise.
LEMMA ReachedAfter ==
    ASSUME WorkflowInv, [Next]_vars, NEW status \in {"in_progress", "completed"}
    PROVE  Reached(status)' <=> \E x \in ClaimIds : appointment'[x] = status
<1>1. ASSUME NEW x \in ClaimIds, appointment'[x] = status PROVE x \in Apt!VisitsOf(TheCase)'
  <2>1. appointment'[x] # NONE
    BY <1>1, StatusIsThere
  <2>2. claim'[x] # Apt!NoClaim
    BY <2>1, ClaimsStep DEF ClaimsNameOffers
  <2>3. claim'[x].case = TheCase
    BY <2>2, AppointmentStands DEF Apt!AppointmentTypeOK, Apt!ClaimRow, Cases
  <2> QED BY <2>1, <2>3 DEF Apt!VisitsOf
<1> QED BY <1>1 DEF Reached, Apt!VisitsOf

\* The furthest visit moves on by one status at a time, and it is completed while the
\* Assignment is in progress.
LEMMA VisitLife ==
    ASSUME WorkflowInv, BegunInv, OrderInv, [Next]_vars
    PROVE  \/ FurthestVisit' = FurthestVisit
           \/ FurthestVisit = NONE /\ FurthestVisit' = "in_progress"
           \/ /\ FurthestVisit = "in_progress" /\ FurthestVisit' = "completed"
              /\ assignment[TheCase] = "IN_PROGRESS"
<1>1. Reached("completed") => Reached("completed")'
  BY ReachedBy, ReachedAfter, RecordsStand
<1>2. Reached("in_progress") => Reached("in_progress")' \/ Reached("completed")'
  BY ReachedBy, ReachedAfter, BegunVisitStays
<1>3. ASSUME ~Reached("completed"), Reached("completed")'
      PROVE  Reached("in_progress") /\ assignment[TheCase] = "IN_PROGRESS"
  <2>1. PICK x \in ClaimIds : appointment'[x] = "completed"
    BY <1>3, ReachedAfter
  <2>2. \A y \in ClaimIds : appointment[y] # "completed"
    BY <1>3, ReachedBy
  <2>3. PICK u \in Updates : /\ KindOf[u] = "complete" /\ upd[u].pc = "visit"
                             /\ appointment[x] = "in_progress"
    BY <2>1, <2>2, NewCompletedVisit
  <2>4. assignment[TheCase] = "IN_PROGRESS"
    BY <2>2, <2>3 DEF BegunInv, OrderInv
  <2> QED BY <2>3, <2>4, ReachedBy
<1>4. /\ FurthestVisit = IF Reached("completed") THEN "completed"
                         ELSE IF Reached("in_progress") THEN "in_progress" ELSE NONE
      /\ FurthestVisit' = IF Reached("completed")' THEN "completed"
                          ELSE IF Reached("in_progress")' THEN "in_progress" ELSE NONE
  BY DEF FurthestVisit
<1> QED BY <1>1, <1>2, <1>3, <1>4

\* An ended Case has no work that is offered, accepted or under way.
LEMMA EndedWork ==
    ASSUME OfferInv, OrderInv, Ended
    PROVE  assignment[TheCase] \in {NONE, "CANCELLED", "COMPLETED"}
  BY DEF OfferInv, OrderInv, Ended, Cas!Terminal, Status

WorkMoves == \/ Life!Offer \/ Life!Accept \/ Life!Lapse \/ Life!CallOff
             \/ Life!Begin \/ Life!Finish

\* Each call of the Assignment atom leaves the Assignment as it is or moves it as the
\* lifecycle allows.
LEMMA WorkLife ==
    ASSUME WorkflowInv, CancelInv, OfferInv, CompletionInv, OrderInv, [Next]_vars, AssignmentCall
    PROVE  assignment'[TheCase] = assignment[TheCase] \/ WorkMoves
<1>0. /\ assignment = [c \in Cases |-> assignment[c]] /\ TheCase \in Cases
      /\ NONE \notin {"PENDING_ACCEPTANCE", "ACCEPTED", "BREACHED", "IN_PROGRESS",
                      "COMPLETED", "CANCELLED"}
      /\ assignment[TheCase] \in Asg!AssignmentStatus \cup {NONE}
  BY AssignmentFacts, NoneIsNull DEF WorkflowInv, Asg!AssignmentTypeOK, Cases, Asg!AssignmentStatus
<1>1. UNCHANGED <<FurthestVisit, IF Ended THEN Status ELSE NONE>>
  BY CallFrames DEF FurthestVisit, Reached, Apt!VisitsOf, Ended, Cas!Terminal, Status,
     appointmentVars, caseVars
<1>2. ASSUME NEW before, NEW after, assignment[TheCase] \in before, ~Ended,
             assignment'[TheCase] = after
      PROVE  Life!Works(before, after)
  BY <1>1, <1>2 DEF Life!Works
<1>3. assignment[TheCase] \notin {NONE, "CANCELLED", "COMPLETED"} => ~Ended
  BY EndedWork
<1>4. ASSUME NEW lost, CommitWrites(lost) PROVE assignment'[TheCase] = assignment[TheCase] \/ Life!Offer
  <2>1. commit # Asg!NoCommit /\ commit.pc = "write"
    BY <1>4 DEF CommitWrites, Asg!CommitWrite, Asg!NoCommit
  <2>2. commit.case = TheCase /\ main.pc = "commit"
    BY <2>1, CommitOfCase
  <2>3. assignment[TheCase] # "CANCELLED"
    BY <2>2 DEF OfferInv, CancelInv, Cancelling, AtRecords, QuietPcs
  <2>4. CASE commit.replace = NONE /\ commit.saw \in {NONE, "BREACHED"}
    <3>1. assignment'[TheCase] = "PENDING_ACCEPTANCE"
      BY <1>0, <1>4, <2>2, <2>4 DEF CommitWrites, Asg!CommitWrite
    <3>2. assignment[TheCase] \in {NONE, "BREACHED"}
      <4>1. Asg!CommitReadsHold
        BY AssignmentFacts DEF WorkflowInv
      <4> QED BY <2>1, <2>2, <2>3, <2>4, <4>1 DEF Asg!CommitReadsHold
    <3>3. ~Ended
      <4>1. Status # "completed"
        BY <1>0, <3>2 DEF OrderInv
      <4>2. Status # "cancelled"
        BY <2>2 DEF OfferInv
      <4> QED BY <4>1, <4>2 DEF Ended, Cas!Terminal, Status
    <3> QED BY <1>2, <3>1, <3>2, <3>3 DEF Life!Offer
  <2>5. CASE ~(commit.replace = NONE /\ commit.saw \in {NONE, "BREACHED"})
    BY <1>4, <2>5 DEF CommitWrites, Asg!CommitWrite
  <2> QED BY <2>4, <2>5
<1>5. ASSUME NEW u, NEW lost, AcceptAttempt(u, lost)
      PROVE  assignment'[TheCase] = assignment[TheCase] \/ Life!Accept
  <2> DEFINE out == Asg!AcceptOutcome(TheCase, upd[u].target, Offered(u), u)
  <2>1. Asg!AcceptAllocationAttempt(TheCase, upd[u].target, Offered(u), u, out)
    BY <1>5 DEF AcceptAttempt
  <2>2. CASE out = "ACCEPTED"
    <3>1. assignment[TheCase] = "PENDING_ACCEPTANCE"
      BY <2>2 DEF Asg!AcceptOutcome
    <3>2. assignment'[TheCase] = "ACCEPTED"
      BY <1>0, <2>1, <2>2 DEF Asg!AcceptAllocationAttempt
    <3> QED BY <1>0, <1>2, <1>3, <3>1, <3>2 DEF Life!Accept
  <2>3. CASE out # "ACCEPTED"
    BY <2>1, <2>3 DEF Asg!AcceptAllocationAttempt
  <2> QED BY <2>2, <2>3
<1>6. ASSUME NEW lost, Breach(lost)
      PROVE  assignment'[TheCase] = assignment[TheCase] \/ Life!Lapse
  <2>1. \/ assignment' = assignment
        \/ assignment' = [assignment EXCEPT ![attempt[main.target].case] =
                             IF @ = "PENDING_ACCEPTANCE" THEN "BREACHED" ELSE @]
    BY <1>6 DEF Breach, Asg!BreachAllocationAttempt
  <2>2. \/ assignment'[TheCase] = assignment[TheCase]
        \/ assignment[TheCase] = "PENDING_ACCEPTANCE" /\ assignment'[TheCase] = "BREACHED"
    BY <1>0, <2>1
  <2> QED BY <1>0, <1>2, <1>3, <2>2 DEF Life!Lapse
<1>7. ASSUME NEW u \in Updates, NEW lost, StartAssignment(u, lost)
      PROVE  assignment'[TheCase] = assignment[TheCase] \/ Life!Begin
  <2>1. /\ Asg!MarkAssignmentInProgress(TheCase, Asg!StartOutcome(TheCase))
        /\ KindOf[u] = "start" /\ upd[u].pc = "work"
    BY <1>7 DEF StartAssignment, At
  <2>2. CASE Asg!StartOutcome(TheCase) = "IN_PROGRESS"
    <3>1. assignment[TheCase] = "ACCEPTED" /\ assignment'[TheCase] = "IN_PROGRESS"
      BY <1>0, <2>1, <2>2 DEF Asg!MarkAssignmentInProgress, Asg!StartOutcome
    <3>2. /\ upd[u].target \in ClaimIds
          /\ appointment[upd[u].target] \in {"in_progress", "completed"}
      BY <2>1, ReportedVisit DEF OrderInv
    <3>3. Reached("in_progress") \/ Reached("completed")
      BY <3>2, ReachedBy
    <3>4. FurthestVisit # NONE
      BY <3>3, StatusIsThere DEF FurthestVisit
    <3> QED BY <1>0, <1>2, <1>3, <3>1, <3>4 DEF Life!Begin
  <2>3. CASE Asg!StartOutcome(TheCase) # "IN_PROGRESS"
    BY <2>1, <2>3 DEF Asg!MarkAssignmentInProgress
  <2> QED BY <2>2, <2>3
<1>8. ASSUME NEW u \in Updates, NEW lost, CompleteAssignment(u, lost)
      PROVE  assignment'[TheCase] = assignment[TheCase] \/ Life!Finish
  <2>1. /\ Asg!CompleteAssignment(TheCase, u, Asg!CompleteOutcome(TheCase, u))
        /\ KindOf[u] = "complete" /\ upd[u].pc = "work"
    BY <1>8 DEF CompleteAssignment, At
  <2>2. CASE Asg!CompleteOutcome(TheCase, u) = "COMPLETED"
    <3>1. assignment[TheCase] = "IN_PROGRESS" /\ assignment'[TheCase] = "COMPLETED"
      BY <1>0, <2>1, <2>2 DEF Asg!CompleteAssignment, Asg!CompleteOutcome
    <3>2. upd[u].target \in ClaimIds /\ appointment[upd[u].target] = "completed"
      BY <2>1, ReportedVisit DEF CompletionInv
    <3>3. FurthestVisit = "completed"
      BY <3>2, ReachedBy DEF FurthestVisit
    <3> QED BY <1>0, <1>2, <1>3, <3>1, <3>3 DEF Life!Finish
  <2>3. CASE Asg!CompleteOutcome(TheCase, u) # "COMPLETED"
    BY <2>1, <2>3 DEF Asg!CompleteAssignment
  <2> QED BY <2>2, <2>3
<1>9. ASSUME NEW u, NEW lost, CancelAssignment(u, lost)
      PROVE  assignment'[TheCase] = assignment[TheCase] \/ Life!CallOff
  <2> DEFINE out == Asg!CancelAssignmentOutcome(TheCase)
  <2>1. Asg!CancelAssignmentForCase(TheCase, out)
    BY <1>9 DEF CancelAssignment
  <2>2. CASE out = "CANCELLED"
    <3>1. assignment[TheCase] \in {"PENDING_ACCEPTANCE", "ACCEPTED", "BREACHED"}
      BY <1>0, <2>2 DEF Asg!CancelAssignmentOutcome, Asg!AssignmentStatus
    <3>2. assignment'[TheCase] = "CANCELLED"
      BY <1>0, <2>1, <2>2 DEF Asg!CancelAssignmentForCase
    <3> QED BY <1>0, <1>2, <1>3, <3>1, <3>2 DEF Life!CallOff
  <2>3. CASE out # "CANCELLED"
    BY <2>1, <2>3 DEF Asg!CancelAssignmentForCase
  <2> QED BY <2>2, <2>3
<1>10. ASSUME NEW lost, CommitFails \/ CommitRequest(lost) \/ CommitRead(lost)
       PROVE  UNCHANGED assignment
  BY <1>10 DEF CommitFails, CommitRequest, CommitRead, Asg!CommitRollback, Asg!CommitBegin,
     Asg!CommitReadAssignment, Asg!CommitReadPending
<1> QED BY <1>4, <1>5, <1>6, <1>7, <1>8, <1>9, <1>10 DEF AssignmentCall, WorkMoves

\* The Case ends as the lifecycle allows, and once.
LEMMA EndLife ==
    ASSUME WorkflowInv, CancelInv, CompletionInv, [Next]_vars, CaseCall
    PROVE  UNCHANGED (IF Ended THEN Status ELSE NONE) \/ Life!Complete \/ Life!Cancel
<1>0. UNCHANGED <<assignment[TheCase], FurthestVisit>>
  BY CallFrames DEF FurthestVisit, Reached, Apt!VisitsOf, appointmentVars, assignmentVars
<1>1. /\ Ended <=> Status \in {"completed", "cancelled"}
      /\ Ended' <=> Status' \in {"completed", "cancelled"}
  BY DEF Ended, Cas!Terminal, Status
<1>2. CASE Ended
  BY <1>1, <1>2, EndIsFinal
<1>3. CASE ~Ended /\ Status' = "completed"
  <2>1. assignment[TheCase] = "COMPLETED"
    BY <1>1, <1>3, StatusMoves DEF CompletionInv
  <2> QED BY <1>0, <1>1, <1>3, <2>1 DEF Life!Complete, Life!End
<1>4. CASE ~Ended /\ Status' = "cancelled"
  <2>1. assignment[TheCase] \in {NONE, "CANCELLED"}
    BY <1>1, <1>4, StatusMoves DEF CancelInv, Cancelling
  <2> QED BY <1>0, <1>1, <1>4, <2>1 DEF Life!Cancel, Life!End
<1>5. CASE ~Ended /\ Status' \notin {"completed", "cancelled"}
  BY <1>1, <1>5
<1> QED BY <1>2, <1>3, <1>4, <1>5

\* A handler that starts work comes to the Assignment once its visit has begun.
LEMMA StartReachesWork ==
    ASSUME WorkflowInv, [Next]_vars, NEW u \in Updates, KindOf[u] = "start",
           upd'[u] # upd[u], upd'[u].pc = "work"
    PROVE  upd'[u].target \in ClaimIds /\ appointment'[upd'[u].target] \in {"in_progress", "completed"}
<1>0. appointment = [x \in ClaimIds |-> appointment[x]]
  BY DEF WorkflowInv, Apt!AppointmentTypeOK
<1>1. CASE HandlerStep(u)
  <2>1. Admit(u)
    BY <1>1 DEF HandlerStep, AwaitRecovery, AwaitGuards, ValidateCompletion, At
  <2>2. AdmitVisitReport(u)
    BY <2>1 DEF Admit, AdmitOpen, AdmitManual, AdmitAccept, AdmitReplace, AdmitCancel,
       AdmitComplete
  <2>3. Answer(u, "CASE_TERMINAL") \/ Answer(u, "NOT_IN_WINDOW") \/ Enter(u, "visit")
    BY <2>2 DEF AdmitVisitReport
  <2> QED BY <2>3, HandlerGoes
<1>2. ASSUME NEW lost \in LostReplies, HandlerActivity(u, lost)
      PROVE  /\ upd'[u].target \in ClaimIds
             /\ appointment'[upd'[u].target] \in {"in_progress", "completed"}
  <2>1. StartActivity(u, lost)
    BY <1>2, KindActivity
  <2>2. ~StartAssignment(u, lost)
    <3>1. StartAssignment(u, lost) => Continue(u, "case") \/ Continue(u, "flag") \/ UNCHANGED upd
      BY DEF StartAssignment, Lost, Then
    <3> QED BY <3>1, HandlerGoes
  <2>3. ~StartCase(u, lost)
    <3>1. StartCase(u, lost) => Continue(u, "flag") \/ (\E result : Answer(u, result)) \/ UNCHANGED upd
      BY DEF StartCase, Lost, Then, Finish
    <3> QED BY <3>1, HandlerGoes
  <2>4. ~FlagStart(u, lost)
    <3>1. FlagStart(u, lost) => (\E result : Answer(u, result)) \/ UNCHANGED upd
      BY DEF FlagStart, Lost, Finish
    <3> QED BY <3>1, HandlerGoes
  <2>5. StartVisit(u, lost) /\ upd[u].pc = "visit"
    BY <2>1, <2>2, <2>3, <2>4 DEF StartActivity, StartVisit, At
  <2> DEFINE x == upd[u].target
             out == Apt!StartVisitOutcome(x, Visitor(u))
  <2>6. x \in ClaimIds /\ Apt!StartWorkAppointment(x, Visitor(u), out)
    BY <2>5, ReportedVisit DEF StartVisit
  <2>7. CASE out = "STARTED"
    <3>1. appointment'[x] = "in_progress"
      BY <1>0, <2>6, <2>7 DEF Apt!StartWorkAppointment, Apt!LeaveScheduled
    <3>2. Continue(u, "work")
      BY <2>5, <2>7 DEF StartVisit, Lost, Then
    <3> QED BY <2>6, <3>1, <3>2, HandlerGoes
  <2>8. CASE out = "ALREADY_STARTED"
    <3>1. appointment[x] = "in_progress"
      BY <2>8 DEF Apt!StartVisitOutcome, Apt!LeaveScheduledOutcome
    <3>2. appointment'[x] = "in_progress"
      BY <2>6, <2>8, <3>1 DEF Apt!StartWorkAppointment, Apt!LeaveScheduled
    <3>3. Continue(u, "work")
      BY <2>5, <2>8 DEF StartVisit, Lost, Then
    <3> QED BY <2>6, <3>2, <3>3, HandlerGoes
  <2>9. CASE out \notin {"STARTED", "ALREADY_STARTED"}
    <3>1. Answer(u, out)
      BY <2>5, <2>9 DEF StartVisit, Lost, Finish
    <3> QED BY <3>1, HandlerGoes
  <2> QED BY <2>7, <2>8, <2>9
<1>3. upd'[u].pc # "sent"
  OBVIOUS
<1> QED BY <1>1, <1>2, <1>3, KindSteps

\* OrderInv is kept.
LEMMA OrderStep ==
    ASSUME WorkflowInv, CompletionInv, OrderInv, [Next]_vars
    PROVE  OrderInv'
<1>1. ASSUME NEW u \in Updates, KindOf[u] = "start", upd'[u].pc = "work"
      PROVE  appointment'[upd'[u].target] \in {"in_progress", "completed"}
  <2>1. CASE upd'[u] = upd[u]
    <3>1. upd[u].target \in ClaimIds
      BY <1>1, <2>1, ReportedVisit
    <3> QED BY <1>1, <2>1, <3>1, BegunVisitStays DEF OrderInv
  <2>2. CASE upd'[u] # upd[u]
    BY <1>1, <2>2, StartReachesWork
  <2> QED BY <2>1, <2>2
<1>2. ASSUME assignment'[TheCase] = "COMPLETED"
      PROVE  \E x \in ClaimIds : appointment'[x] = "completed"
  <2>1. CASE assignment[TheCase] = "COMPLETED"
    BY <2>1, RecordsStand DEF OrderInv
  <2>2. CASE assignment[TheCase] # "COMPLETED"
    <3>1. PICK u \in Updates : KindOf[u] = "complete" /\ upd[u].pc = "work"
      BY <1>2, <2>2, NewCompletedWork
    <3>2. upd[u].target \in ClaimIds /\ appointment[upd[u].target] = "completed"
      BY <3>1, ReportedVisit DEF CompletionInv
    <3> QED BY <3>2, RecordsStand
  <2> QED BY <2>1, <2>2
<1>3. ASSUME Status' = "completed" PROVE assignment'[TheCase] = "COMPLETED"
  <2>1. assignment[TheCase] = "COMPLETED"
    BY <1>3, StatusMoves DEF OrderInv, CompletionInv
  <2> QED BY <2>1, RecordsStand DEF AsgP!WorkStands, Cases
<1> QED BY <1>1, <1>2, <1>3 DEF OrderInv

\* A step of the system is a step of the lifecycle, or none.
LEMMA LifeStep ==
    ASSUME WorkflowInv, CancelInv, OfferInv, CompletionInv, BegunInv, OrderInv, [Next]_vars
    PROVE  [Life!LifecycleNext]_(Life!lifecycleVars)
<1>1. CASE AssignmentCall
  <2>1. UNCHANGED <<FurthestVisit, IF Ended THEN Status ELSE NONE>>
    BY <1>1, CallFrames DEF FurthestVisit, Reached, Apt!VisitsOf, Ended, Cas!Terminal, Status,
       appointmentVars, caseVars
  <2> QED BY <1>1, <2>1, WorkLife DEF WorkMoves, Life!LifecycleNext, Life!lifecycleVars
<1>2. CASE AppointmentCall
  <2>1. UNCHANGED <<assignment[TheCase], IF Ended THEN Status ELSE NONE>>
    BY <1>2, CallFrames DEF Ended, Cas!Terminal, Status, assignmentVars, caseVars
  <2> QED BY <2>1, VisitLife
          DEF Life!Attend, Life!Report, Life!Visits, Life!LifecycleNext, Life!lifecycleVars
<1>3. CASE CaseCall
  <2>1. UNCHANGED <<assignment[TheCase], FurthestVisit>>
    BY <1>3, CallFrames DEF FurthestVisit, Reached, Apt!VisitsOf, appointmentVars, assignmentVars
  <2> QED BY <1>3, <2>1, EndLife DEF Life!LifecycleNext, Life!lifecycleVars
<1>4. CASE WorkflowStep \/ OtherCaseAllocates \/ UNCHANGED vars
  <2>1. UNCHANGED <<assignment, appointmentVars, caseVars>>
    BY <1>4, WorkflowFrame DEF OtherCaseAllocates, vars, atomVars, assignmentVars
  <2> QED BY <2>1 DEF FurthestVisit, Reached, Apt!VisitsOf, Ended, Cas!Terminal, Status,
          appointmentVars, caseVars, Life!lifecycleVars
<1> QED BY <1>1, <1>2, <1>3, <1>4, StepKinds

\* What becomes of a Case and of the work on it is what CaseLifecycle says: seen from
\* outside, every saga over three atoms, with its lost replies, refusals and rollbacks,
\* is a few single steps in order, and records that are ahead of each other are never
\* behind.
THEOREM LifecycleRefined == Spec => FollowsTheLifecycle
<1>1. Init => Life!LifecycleInit /\ CompletionInv /\ BegunInv /\ OrderInv
  <2>1. Init => Life!LifecycleInit
    BY NoneIsNull DEF Init, Asg!AssignmentInit, Apt!AppointmentInit, Cas!CaseInit, Life!LifecycleInit,
       FurthestVisit, Reached, Apt!VisitsOf, Ended, Cas!Terminal, Status, Cases, Cas!CaseStatus
  <2>2. Init => CompletionInv /\ BegunInv /\ OrderInv
    BY NoneIsNull DEF Init, NewUpdate, CompletionInv, BegunInv, OrderInv, Asg!AssignmentInit,
       Apt!AppointmentInit, Cas!CaseInit, Status, Cases, Cas!CaseStatus, Asg!AssignmentStatus,
       Apt!AppointmentStatus
  <2> QED BY <2>1, <2>2
<1>2. /\ WorkflowInv /\ CancelInv /\ OfferInv /\ CompletionInv /\ BegunInv /\ OrderInv
      /\ [Next]_vars
      => /\ CancelInv' /\ OfferInv' /\ CompletionInv' /\ BegunInv' /\ OrderInv'
         /\ [Life!LifecycleNext]_(Life!lifecycleVars)
  BY CancelStep, OfferStep, CompletionStep, BegunStep, OrderStep, LifeStep
<1> QED BY <1>1, <1>2, OfferStart, WorkflowInvariant, PTL
        DEF Spec, FollowsTheLifecycle, Life!LifecycleSpec

\* Whatever follows the lifecycle has finished work behind a Case that is completed, a
\* finished visit behind that, and no work behind a Case that is cancelled.
LifeInv ==
    /\ Life!LifecycleTypeOK /\ Life!EndsAgree
    /\ assignment[TheCase] = "COMPLETED" => FurthestVisit = "completed"

\* So an ended Case and its records agree, and go on agreeing.
THEOREM EndedRecordsAgree == Spec => [](Life!LifecycleTypeOK /\ Life!EndsAgree)
<1>0. NONE \notin {"PENDING_ACCEPTANCE", "ACCEPTED", "BREACHED", "IN_PROGRESS", "COMPLETED",
                   "CANCELLED", "in_progress", "completed", "cancelled"}
  BY NoneIsNull, StatusIsThere DEF Asg!AssignmentStatus
<1>1. Life!LifecycleInit => LifeInv
  BY <1>0 DEF Life!LifecycleInit, LifeInv, Life!LifecycleTypeOK, Life!EndsAgree
<1>2. LifeInv /\ [Life!LifecycleNext]_(Life!lifecycleVars) => LifeInv'
  <2> SUFFICES ASSUME LifeInv, [Life!LifecycleNext]_(Life!lifecycleVars) PROVE LifeInv'
    OBVIOUS
  <2> USE <1>0 DEF LifeInv, Life!LifecycleTypeOK, Life!EndsAgree
  <2>1. CASE Life!Offer \/ Life!Accept \/ Life!Lapse \/ Life!CallOff
    BY <2>1 DEF Life!Offer, Life!Accept, Life!Lapse, Life!CallOff, Life!Works
  <2>2. CASE Life!Begin \/ Life!Finish
    BY <2>2 DEF Life!Begin, Life!Finish, Life!Works
  <2>3. CASE Life!Attend \/ Life!Report
    BY <2>3 DEF Life!Attend, Life!Report, Life!Visits
  <2>4. CASE Life!Complete \/ Life!Cancel
    BY <2>4 DEF Life!Complete, Life!Cancel, Life!End
  <2>5. CASE UNCHANGED Life!lifecycleVars
    BY <2>5 DEF Life!lifecycleVars
  <2> QED BY <2>1, <2>2, <2>3, <2>4, <2>5 DEF Life!LifecycleNext
<1>3. LifeInv => Life!LifecycleTypeOK /\ Life!EndsAgree
  BY DEF LifeInv
<1> QED BY <1>1, <1>2, <1>3, LifecycleRefined, PTL DEF FollowsTheLifecycle, Life!LifecycleSpec
=============================================================================
