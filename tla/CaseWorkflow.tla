---------------------------- MODULE CaseWorkflow ----------------------------
(***************************************************************************)
(* The whole life of one Case: the Workflow's main loop (CaseLoop), its    *)
(* Update handlers, the Gateway that sends Updates, the clock and the      *)
(* other Cases.                                                            *)
(***************************************************************************)
EXTENDS CaseLoop

-----------------------------------------------------------------------------
(* The Gateway: what an Update asks for, read from the atoms *)

CurrentAttempts == IF Asg!Pending(TheCase) # {} THEN Asg!Pending(TheCase)
                   ELSE Asg!Accepted(TheCase)

\* Which requests the Gateway lets through, and what it sends along: `req` with
\* what each route reads filled in.
OpenRequests(req) == {r \in {req} : Status = NONE}

CancelRequests(req) ==
    {r \in {req} : Status \in {"pending", "assigned", "pending_resident_input"}}

ManualRequests(req) ==
    {[req EXCEPT !.k = k, !.target = a, !.was = r] :
        k \in {x \in Contractors : Status \in {"pending", "assigned"}},
        a \in Asg!Pending(TheCase) \cup {NONE}, r \in {"REASON", NONE}}

AcceptRequests(req) ==
    {[req EXCEPT !.target = a, !.slot = s] : a \in CurrentAttempts, s \in Slots}

VisitRequests(req) == {[req EXCEPT !.target = x] : x \in Apt!VisitsOf(TheCase)}

ReplaceRequests(req) ==
    {[req EXCEPT !.target = x, !.slot = s, !.was = appointment[x]] :
        x \in Apt!VisitsOf(TheCase), s \in Slots}

CompleteRequests(req) ==
    {[req EXCEPT !.target = x] :
        x \in {y \in Apt!VisitsOf(TheCase) :
                  /\ claim[y].attempt \in CurrentAttempts
                  /\ appointment[y] \in {"in_progress", "completed"}
                  /\ Status \in {"in_progress", "completed"}}}

Requests(kind) ==
    LET req == [NewUpdate EXCEPT !.pc = "sent"]
    IN CASE kind = "open" -> OpenRequests(req)
         [] kind = "cancel" -> CancelRequests(req)
         [] kind = "manual" -> ManualRequests(req)
         [] kind = "accept" -> AcceptRequests(req)
         [] kind \in {"start", "noAccess"} -> VisitRequests(req)
         [] kind = "replace" -> ReplaceRequests(req)
         [] kind = "complete" -> CompleteRequests(req)

Send(u) ==
    /\ ~Synchronous /\ upd[u].pc = "new"
    /\ \E req \in Requests(KindOf[u]) : upd' = [upd EXCEPT ![u] = req]
    /\ UNCHANGED <<atomVars, now, wf, main, effects>>

\* executeUpdateWithStart: an Update for a Case whose run has ended starts a
\* run that knows nothing of the one before.
StartRun ==
    /\ main.pc = "closed"
    /\ \E u \in Updates : upd[u].pc = "sent"
    /\ Restarted /\ wf' = FreshRun
    /\ UNCHANGED <<atomVars, now, upd, effects>>

-----------------------------------------------------------------------------
(* Update handlers, up to their first await.  At: where a handler is.        *)

At(u, kind, pc) == ~Synchronous /\ KindOf[u] = kind /\ upd[u].pc = pc

\* A handler of the current Appointment keeps its expiry waiting.
Enter(u, pc) ==
    upd' = [upd EXCEPT ![u].pc = pc, ![u].guards = (wf.visit = upd[u].target)]

InWindow(slot) == slot[1] <= now /\ now < slot[2]
VisitSlot(u) == claim[upd[u].target].slot

AdmitOpen(u) ==
    KindOf[u] = "open" /\ Continue(u, "case") /\ UNCHANGED wf

AdmitManual(u) ==
    /\ KindOf[u] = "manual"
    /\ IF wf.cancelling
       THEN Answer(u, "CASE_TERMINAL") /\ wf' = [wf EXCEPT !.known = TRUE]
       ELSE /\ Continue(u, "queued")
            /\ wf' = [wf EXCEPT !.known = TRUE, !.queue = Append(@, u)]

AdmitAccept(u) ==
    /\ KindOf[u] = "accept"
    /\ IF wf.cancelling \/ (wf.attempt = upd[u].target /\ now >= deadline[wf.attempt])
       THEN Answer(u, "ATTEMPT_NOT_PENDING") ELSE Continue(u, "reserve")
    /\ UNCHANGED wf

AdmitVisitReport(u) ==
    /\ KindOf[u] \in {"start", "noAccess"}
    /\ IF wf.cancelling THEN Answer(u, "CASE_TERMINAL")
       ELSE IF ~InWindow(VisitSlot(u)) THEN Answer(u, "NOT_IN_WINDOW")
       ELSE Enter(u, "visit")
    /\ UNCHANGED wf

\* Defect (as all operators named ...Defect, never part of a specification): a
\* missed visit is replaced while its expiry is still being recorded.
OvertakeExpiryDefect(u) ==
    /\ KindOf[u] = "replace"
    /\ IF wf.cancelling THEN Answer(u, "CASE_TERMINAL")
       ELSE IF \/ upd[u].slot[1] <= now
               \/ upd[u].was = "scheduled" /\ VisitSlot(u)[1] <= now
       THEN Answer(u, "NOT_FUTURE")
       ELSE Enter(u, "visit")
    /\ UNCHANGED wf

AdmitReplace(u) ==
    /\ KindOf[u] = "replace"
    /\ IF wf.cancelling THEN Answer(u, "CASE_TERMINAL")
       ELSE IF \/ upd[u].slot[1] <= now
               \/ upd[u].was = "scheduled" /\ VisitSlot(u)[1] <= now
       THEN Answer(u, "NOT_FUTURE")
       ELSE IF upd[u].was = "missed" /\ Recovering = upd[u].target
       THEN Continue(u, "await")
       ELSE Enter(u, "visit")
    /\ UNCHANGED wf

\* Drains the queue: Officers that wait in it are answered.
AdmitCancel(u) ==
    /\ KindOf[u] = "cancel"
    /\ IF wf.cancelling THEN Answer(u, "NOT_CANCELLABLE") /\ UNCHANGED wf
       ELSE /\ wf' = [wf EXCEPT !.cancelling = TRUE, !.queue = <<>>]
            /\ upd' = [v \in Updates |->
                  IF v = u THEN [upd[v] EXCEPT !.pc = "await"]
                  ELSE IF \E i \in DOMAIN wf.queue : wf.queue[i] = v
                  THEN Answered("CASE_TERMINAL")
                  ELSE upd[v]]

AdmitComplete(u) ==
    /\ KindOf[u] = "complete"
    /\ IF wf.cancelling THEN Answer(u, "NOT_IN_PROGRESS") ELSE Continue(u, "validate")
    /\ UNCHANGED wf

Admit(u) ==
    /\ ~Synchronous /\ upd[u].pc = "sent" /\ main.pc # "closed"
    /\ \/ AdmitOpen(u) \/ AdmitManual(u) \/ AdmitAccept(u) \/ AdmitVisitReport(u)
       \/ AdmitReplace(u) \/ AdmitCancel(u) \/ AdmitComplete(u)
    /\ UNCHANGED <<atomVars, now, main, effects>>

\* A replacement that waited for the expiry of the visit it recovers, and a
\* cancellation that waited for what was under way.
AwaitRecovery(u) ==
    /\ At(u, "replace", "await")
    /\ Recovering # upd[u].target
    /\ Enter(u, "visit")
    /\ UNCHANGED <<atomVars, now, wf, main, effects>>

\* Defects: acceptances are not waited for; an allocation is not; the main loop is
\* waited for although it waits for the cancellation.
CancelAnytimeDefect ==
    ~Allocating /\ HoldingVisit = {} /\ ~Expiring /\ Completing = {}
CancelAllocationDefect ==
    Accepting = {} /\ HoldingVisit = {} /\ ~Expiring /\ Completing = {}
WaitForLoopDefect ==
    /\ main.pc = "idle"
    /\ Accepting = {} /\ HoldingVisit = {} /\ Completing = {}

NothingUnderWay ==
    ~Allocating /\ Accepting = {} /\ HoldingVisit = {} /\ ~Expiring /\ Completing = {}

AwaitGuards(u) ==
    /\ At(u, "cancel", "await")
    /\ NothingUnderWay
    /\ Continue(u, "visit")
    /\ UNCHANGED <<atomVars, now, wf, main, effects>>

-----------------------------------------------------------------------------
(* Update handlers: their Activities.  Lost leaves the handler where it is,  *)
(* to make the same call again.                                              *)

Lost == UNCHANGED <<wf, upd>>
Then(u, pc) == Continue(u, pc) /\ UNCHANGED wf
Reject(u, result) == Answer(u, result) /\ UNCHANGED wf

\* A handler of the current Appointment stops watching it on these results.
Finish(u, result, clearing) ==
    /\ Answer(u, result)
    /\ wf' = IF wf.visit = upd[u].target /\ result \in clearing
             THEN Bumped([wf EXCEPT !.visit = NONE]) ELSE wf

OnlyAssignment == UNCHANGED <<appointmentVars, caseVars, deadline, now, main, effects>>
OnlyAppointment == UNCHANGED <<assignmentVars, caseVars, deadline, now, main, effects>>
OnlyCase == UNCHANGED <<assignmentVars, appointmentVars, deadline, now, main>>

OpenCase(u, lost) ==
    /\ At(u, "open", "case")
    /\ Cas!CreateCase(TheCase, u)
    /\ IF lost THEN Lost
       ELSE /\ Answer(u, "SUCCESS")
            /\ wf' = [wf EXCEPT !.known = TRUE, !.queue = Append(@, NONE)]
    /\ OnlyCase /\ UNCHANGED effects

(* acceptAllocation is one Activity of several calls: when one of them fails *)
(* it is retried from the first.                                             *)

Offered(u) == attempt[upd[u].target].contractor

ReserveSlot(u, lost) ==
    /\ At(u, "accept", "reserve")
    /\ LET past == upd[u].slot[1] <= now
           out == Apt!ReserveOutcome(u, Offered(u), upd[u].slot, past)
       IN /\ Apt!ReserveAppointmentSlot(u, TheCase, upd[u].target, Offered(u),
                                        upd[u].slot, past, out)
          /\ CASE lost -> Lost
               [] ~lost /\ out = "HELD" -> Then(u, "accept")
               [] ~lost /\ out = "CONFLICT" -> Reject(u, "APPOINTMENT_CONFLICT")
               [] ~lost /\ out = "PAST" -> Reject(u, "APPOINTMENT_NOT_FUTURE")
    /\ OnlyAppointment

\* Defect: a refused acceptance keeps the slot it held.
KeepSlotDefect(u, lost) ==
    /\ At(u, "accept", "accept")
    /\ LET out == Asg!AcceptOutcome(TheCase, upd[u].target, Offered(u), u) IN
       /\ Asg!AcceptAllocationAttempt(TheCase, upd[u].target, Offered(u), u, out)
       /\ CASE lost -> Then(u, "reserve")
            [] ~lost /\ out \in {"ACCEPTED", "ALREADY_ACCEPTED"} -> Then(u, "confirm")
            [] OTHER -> Reject(u, "ATTEMPT_NOT_PENDING")
    /\ OnlyAssignment

AcceptAttempt(u, lost) ==
    /\ At(u, "accept", "accept")
    /\ LET out == Asg!AcceptOutcome(TheCase, upd[u].target, Offered(u), u) IN
       /\ Asg!AcceptAllocationAttempt(TheCase, upd[u].target, Offered(u), u, out)
       /\ Then(u, CASE lost -> "reserve"
                    [] ~lost /\ out \in {"ACCEPTED", "ALREADY_ACCEPTED"} -> "confirm"
                    [] OTHER -> "release")
    /\ OnlyAssignment

ReleaseSlot(u, lost) ==
    /\ At(u, "accept", "release")
    /\ LET out == Apt!ReleaseOutcome(u) IN
       /\ Apt!ReleaseAppointmentSlot(u, out)
       /\ IF lost \/ out # "RELEASED" THEN Then(u, "reserve")
          ELSE Reject(u, "ATTEMPT_NOT_PENDING")
    /\ OnlyAppointment

ConfirmSlot(u, lost) ==
    /\ At(u, "accept", "confirm")
    /\ LET out == Apt!ConfirmOutcome(u) IN
       /\ Apt!ConfirmAppointmentSlot(u, out)
       /\ Then(u, IF lost \/ out # "CONFIRMED" THEN "reserve" ELSE "record")
    /\ OnlyAppointment

RecordAcceptance(u, lost) ==
    /\ At(u, "accept", "record")
    /\ Cas!RecordAllocationAcceptance(TheCase, u)
    /\ IF lost THEN Then(u, "reserve")
       ELSE /\ Answer(u, "SUCCESS")
            /\ wf' = Bumped([wf EXCEPT !.accepted = TRUE, !.attempt = NONE, !.visit = u])
    /\ OnlyCase /\ UNCHANGED effects

AcceptActivity(u, lost) ==
    \/ ReserveSlot(u, lost) \/ AcceptAttempt(u, lost) \/ ReleaseSlot(u, lost)
    \/ ConfirmSlot(u, lost) \/ RecordAcceptance(u, lost)

(* runStartWork *)

Visitor(u) == claim[upd[u].target].contractor

StartVisit(u, lost) ==
    /\ At(u, "start", "visit")
    /\ LET out == Apt!StartVisitOutcome(upd[u].target, Visitor(u)) IN
       /\ Apt!StartWorkAppointment(upd[u].target, Visitor(u), out)
       /\ IF lost THEN Lost
          ELSE IF out \in {"STARTED", "ALREADY_STARTED"} THEN Then(u, "work")
          ELSE Finish(u, out, {"NOT_SCHEDULED"})
    /\ OnlyAppointment

StartAssignment(u, lost) ==
    /\ At(u, "start", "work")
    /\ LET out == Asg!StartOutcome(TheCase) IN
       /\ Asg!MarkAssignmentInProgress(TheCase, out)
       /\ IF lost THEN Lost
          ELSE Then(u, IF out \in {"IN_PROGRESS", "ALREADY_IN_PROGRESS"} THEN "case"
                       ELSE "flag")
    /\ OnlyAssignment

StartCase(u, lost) ==
    /\ At(u, "start", "case")
    /\ \E out \in {"IN_PROGRESS", "CASE_TERMINAL"} :
       /\ Cas!MarkCaseInProgress(TheCase, u, out)
       /\ IF lost THEN Lost
          ELSE IF out = "IN_PROGRESS" THEN Finish(u, "SUCCESS", {"SUCCESS"})
          ELSE Then(u, "flag")
    /\ OnlyCase /\ UNCHANGED effects

FlagStart(u, lost) ==
    /\ At(u, "start", "flag")
    /\ Cas!RaiseOfficerAttention(TheCase, "WORK_START_FAILED")
    /\ IF lost THEN Lost ELSE Finish(u, "WORK_START_FAILED", {"WORK_START_FAILED"})
    /\ OnlyCase /\ UNCHANGED effects

StartActivity(u, lost) ==
    \/ StartVisit(u, lost) \/ StartAssignment(u, lost)
    \/ StartCase(u, lost) \/ FlagStart(u, lost)

(* runNoAccess *)

FailVisit(u, lost) ==
    /\ At(u, "noAccess", "visit")
    /\ LET out == Apt!NoAccessOutcome(upd[u].target, Visitor(u)) IN
       /\ Apt!ReportNoAccessAppointment(upd[u].target, Visitor(u), out)
       /\ IF lost THEN Lost
          ELSE IF out \in {"NO_ACCESS", "ALREADY_NO_ACCESS"} THEN Then(u, "case")
          ELSE Finish(u, out, {"NOT_SCHEDULED"})
    /\ OnlyAppointment

ParkCase(u, lost) ==
    /\ At(u, "noAccess", "case")
    /\ \E out \in {"PENDING_RESIDENT_INPUT", "CASE_TERMINAL"} :
       /\ Cas!MarkCaseNoAccess(TheCase, u, out)
       /\ IF lost THEN Lost
          ELSE LET result == IF out = "CASE_TERMINAL" THEN out ELSE "SUCCESS"
               IN Finish(u, result, {"SUCCESS", "CASE_TERMINAL"})
    /\ OnlyCase /\ UNCHANGED effects

(* runReplaceAppointment *)

ReplaceVisit(u, lost) ==
    /\ At(u, "replace", "visit")
    /\ LET out == Apt!ReplaceOutcome(upd[u].target, u, TheCase, upd[u].slot) IN
       /\ Apt!ReplaceAppointmentSlot(upd[u].target, u, TheCase, upd[u].slot, out)
       /\ IF lost THEN Lost
          ELSE IF out \in {"REPLACED", "ALREADY_REPLACED"} THEN Then(u, "case")
          ELSE Finish(u, out, {"NOT_REPLACEABLE"})
    /\ OnlyAppointment

RecordReplacement(u, lost) ==
    /\ At(u, "replace", "case")
    /\ \E out \in {"REPLACED", "CASE_TERMINAL"} :
       /\ Cas!MarkCaseAppointmentReplaced(TheCase, u, out)
       /\ IF lost THEN Lost
          ELSE IF out = "CASE_TERMINAL" THEN Finish(u, out, {"CASE_TERMINAL"})
          ELSE Answer(u, "SUCCESS") /\ wf' = Bumped([wf EXCEPT !.visit = u])
    /\ OnlyCase /\ UNCHANGED effects

VisitActivity(u, lost) ==
    \/ FailVisit(u, lost) \/ ParkCase(u, lost)
    \/ ReplaceVisit(u, lost) \/ RecordReplacement(u, lost)

(* runCancellation *)

CancellationRejected(u) ==
    Answer(u, "NOT_CANCELLABLE") /\ wf' = [wf EXCEPT !.cancelling = FALSE]

CancelVisit(u, lost) ==
    /\ At(u, "cancel", "visit")
    /\ LET out == Apt!CancelVisitOutcome(TheCase) IN
       /\ Apt!CancelScheduledAppointment(TheCase, out)
       /\ IF lost THEN Lost
          ELSE IF out = "IN_PROGRESS" THEN CancellationRejected(u) ELSE Then(u, "work")
    /\ OnlyAppointment

CancelAssignment(u, lost) ==
    /\ At(u, "cancel", "work")
    /\ LET out == Asg!CancelAssignmentOutcome(TheCase) IN
       /\ Asg!CancelAssignmentForCase(TheCase, out)
       /\ IF lost THEN Lost
          ELSE IF out \in {"IN_PROGRESS", "NOT_CANCELLABLE"} THEN CancellationRejected(u)
          ELSE Then(u, "case")
    /\ OnlyAssignment

CancelCase(u, lost) ==
    /\ At(u, "cancel", "case")
    /\ LET out == Cas!CancelCaseOutcome(TheCase) IN
       /\ Cas!CancelCase(TheCase, u, out)
       /\ IF lost THEN Lost
          ELSE IF out = "NOT_CANCELLABLE" THEN CancellationRejected(u)
          ELSE /\ Answer(u, "SUCCESS")
               /\ wf' = Bumped([wf EXCEPT !.attempt = NONE, !.visit = NONE, !.active = TRUE,
                                          !.retryAt = NONE, !.closing = TRUE])
    /\ OnlyCase /\ UNCHANGED effects

CancelActivity(u, lost) ==
    CancelVisit(u, lost) \/ CancelAssignment(u, lost) \/ CancelCase(u, lost)

(* runCompletion *)

\* validateCompletion reads the Case, then both other rows; the Proof Items it
\* resolves last may be missing.
CompletionReady(u) ==
    /\ Status = "in_progress" \/ (Status = "completed" /\ caseCompletion[TheCase] = u)
    /\ appointment[upd[u].target] \in {"in_progress", "completed"}
    /\ assignment[TheCase] \in {"IN_PROGRESS", "COMPLETED"}
    /\ appointment[upd[u].target] = "completed" => visitOp[upd[u].target] = u
    /\ assignment[TheCase] = "COMPLETED" => completionOp[TheCase] = u

ValidateCompletion(u) ==
    /\ At(u, "complete", "validate")
    /\ \/ CompletionReady(u) /\ Then(u, "visit")
       \/ ~CompletionReady(u) /\ Reject(u, "NOT_IN_PROGRESS")
       \/ CompletionReady(u) /\ Status # "completed" /\ Reject(u, "COMPLETION_INVALID")
    /\ UNCHANGED <<atomVars, now, main, effects>>

CompleteVisit(u, lost) ==
    /\ At(u, "complete", "visit")
    /\ LET out == Apt!CompleteVisitOutcome(upd[u].target, Visitor(u), u) IN
       /\ Apt!CompleteAppointment(upd[u].target, Visitor(u), u, out)
       /\ IF lost THEN Lost
          ELSE IF out \in {"COMPLETED", "ALREADY_COMPLETED"} THEN Then(u, "work")
          ELSE Reject(u, "NOT_IN_PROGRESS")
    /\ OnlyAppointment

CompleteAssignment(u, lost) ==
    /\ At(u, "complete", "work")
    /\ LET out == Asg!CompleteOutcome(TheCase, u) IN
       /\ Asg!CompleteAssignment(TheCase, u, out)
       /\ IF lost THEN Lost
          ELSE IF out = "COMPLETION_OPERATION_CONFLICT" THEN Reject(u, "NOT_IN_PROGRESS")
          ELSE Then(u, IF out \in {"COMPLETED", "ALREADY_COMPLETED"} THEN "case" ELSE "flag")
    /\ OnlyAssignment

\* Defects: credit is queued whatever the Case atom answered; a completion that
\* stopped half way is not flagged.
EarlyCreditDefect(u, lost) ==
    /\ At(u, "complete", "case")
    /\ LET out == Cas!CompleteCaseOutcome(TheCase, u) IN
       /\ Cas!CompleteCase(TheCase, u, out)
       /\ effects' = effects \cup {<<"completion", TheCase>>}
       /\ IF lost THEN Lost
          ELSE IF out \in {"COMPLETED", "ALREADY_COMPLETED"}
          THEN Answer(u, "SUCCESS") /\ wf' = [wf EXCEPT !.closing = TRUE]
          ELSE Then(u, "flag")
    /\ OnlyCase

UnflaggedCompletionDefect(u, lost) ==
    /\ At(u, "complete", "case")
    /\ LET out == Cas!CompleteCaseOutcome(TheCase, u) IN
       /\ Cas!CompleteCase(TheCase, u, out)
       /\ IF lost THEN Lost /\ UNCHANGED effects
          ELSE IF out \in {"COMPLETED", "ALREADY_COMPLETED"}
          THEN /\ Answer(u, "SUCCESS")
               /\ wf' = [wf EXCEPT !.closing = TRUE]
               /\ effects' = effects \cup {<<"completion", TheCase>>}
          ELSE Reject(u, "COMPLETION_FAILED") /\ UNCHANGED effects
    /\ OnlyCase

CompleteCase(u, lost) ==
    /\ At(u, "complete", "case")
    /\ LET out == Cas!CompleteCaseOutcome(TheCase, u) IN
       /\ Cas!CompleteCase(TheCase, u, out)
       /\ IF lost THEN Lost /\ UNCHANGED effects
          ELSE IF out \in {"COMPLETED", "ALREADY_COMPLETED"}
          THEN /\ Answer(u, "SUCCESS")
               /\ wf' = [wf EXCEPT !.closing = TRUE]
               /\ effects' = effects \cup {<<"completion", TheCase>>}
          ELSE Then(u, "flag") /\ UNCHANGED effects
    /\ OnlyCase

FlagCompletion(u, lost) ==
    /\ At(u, "complete", "flag")
    /\ Cas!RaiseOfficerAttention(TheCase, "COMPLETION_FAILED")
    /\ IF lost THEN Lost ELSE Reject(u, "COMPLETION_FAILED")
    /\ OnlyCase /\ UNCHANGED effects

CompleteActivity(u, lost) ==
    \/ CompleteVisit(u, lost) \/ CompleteAssignment(u, lost)
    \/ CompleteCase(u, lost) \/ FlagCompletion(u, lost)

HandlerStep(u) == Admit(u) \/ AwaitRecovery(u) \/ AwaitGuards(u) \/ ValidateCompletion(u)
HandlerActivity(u, lost) ==
    \/ OpenCase(u, lost) \/ AcceptActivity(u, lost) \/ StartActivity(u, lost)
    \/ VisitActivity(u, lost) \/ CancelActivity(u, lost) \/ CompleteActivity(u, lost)

-----------------------------------------------------------------------------
(* The clock, and the other Cases *)

Tick ==
    /\ ~Synchronous /\ now < MaxTime
    /\ now' = now + 1
    /\ UNCHANGED <<atomVars, workflowVars>>

OtherCaseAllocates ==
    /\ ~Synchronous /\ commit = Asg!NoCommit /\ epoch < OthersUntil
    /\ epoch' = epoch + 1
    /\ UNCHANGED <<assignment, completionOp, attempt, commit, appointmentVars,
                   caseVars, deadline, now, workflowVars>>

Next ==
    \/ LoopStep
    \/ \E lost \in LostReplies : LoopActivity(lost)
    \/ CommitFails
    \/ \E u \in Updates : Send(u) \/ HandlerStep(u)
    \/ \E u \in Updates, lost \in LostReplies : HandlerActivity(u, lost)
    \/ StartRun
    \/ Tick
    \/ OtherCaseAllocates

\* The server redelivers Activities until they are answered, runs timers and
\* delivers the Updates it was sent; nobody has to send one.
Fairness ==
    /\ WF_vars(LoopStep) /\ WF_vars(LoopActivity(FALSE))
    /\ WF_vars(StartRun) /\ WF_vars(Tick)
    /\ \A u \in Updates :
          WF_vars(HandlerStep(u)) /\ WF_vars(HandlerActivity(u, FALSE))

Spec == Init /\ [][Next]_vars
FairSpec == Spec /\ Fairness

\* Replacements in turn: a visit is moved only once its booking was answered, while
\* it holds its time, and by one Update at a time.  The code lets a client do
\* otherwise; SpecInTurn is what it keeps when none does.
ReplacementsInTurn ==
    \A u \in Updates :
        (KindOf[u] = "replace" /\ upd[u].pc = "new" /\ upd'[u].pc # "new") =>
            LET x == upd'[u].target IN
            /\ upd[x].pc = "done" /\ claim[x].status = "ACTIVE"
            /\ \A v \in Updates : ~(KindOf[v] = "replace" /\ upd[v].target = x)

SpecInTurn == Init /\ [][Next /\ ReplacementsInTurn]_vars

-----------------------------------------------------------------------------
(* Properties *)

UpdatePcs == {"new", "sent", "queued", "await", "done", "case", "visit", "work",
              "flag", "reserve", "accept", "release", "confirm", "record", "validate"}

TypeOK ==
    /\ Asg!AssignmentTypeOK /\ Apt!AppointmentTypeOK /\ Cas!CaseTypeOK
    /\ now \in 0 .. MaxTime
    /\ \A a \in AttemptIds : attempt[a] # Asg!NoAttempt => deadline[a] \in Nat
    /\ wf.attempt \in AttemptIds \cup {NONE} /\ wf.visit \in ClaimIds \cup {NONE}
    /\ wf.retryAt \in Nat \cup {NONE} /\ wf.attempted \subseteq Contractors
    /\ \A u \in Updates : upd[u].pc \in UpdatePcs

\* A Contractor is penalised for a breach only if the offer really lapsed: no
\* acceptance of it is on record, however late the acceptance was delivered and
\* however often the breach was.
PenaltyOnlyForALapsedOffer ==
    \A a \in AttemptIds : <<"breach", a>> \in effects =>
        attempt[a].status = "BREACHED" /\ attempt[a].acceptedBy = NONE

\* Completion credit is queued only when all three records agree the work is
\* finished: the forward-only saga never reports success half way.
CreditOnlyForFinishedWork ==
    effects \cap ({"completion"} \X Cases) # {} =>
        /\ Status = "completed" /\ assignment[TheCase] = "COMPLETED"
        /\ \E x \in Apt!VisitsOf(TheCase) : appointment[x] = "completed"

\* A Case that was cancelled keeps nothing alive: no offer a Contractor could
\* still accept, no visit on a Contractor's calendar, no work.
CancelledCaseIsQuiet ==
    Status = "cancelled" =>
        /\ assignment[TheCase] \in {NONE, "CANCELLED"}
        /\ Asg!Pending(TheCase) = {}
        /\ \A x \in Apt!VisitsOf(TheCase) : ~Apt!Live(x)

\* A completion that got past the visit either completes the Case or is under
\* way or leaves Officer Attention behind.
HalfFinishedWorkIsFlagged ==
    (/\ Completing = {} /\ Status # "completed"
     /\ \E x \in Apt!VisitsOf(TheCase) : appointment[x] = "completed")
    => "COMPLETION_FAILED" \in attention[TheCase]

\* What the caller was told is so: SUCCESS is answered for what is on record, and
\* an acceptance that was refused holds no time of the Contractor.
AnswersAreTrue ==
    \A u \in Updates : upd[u].pc = "done" =>
        LET success == upd[u].result = "SUCCESS" IN
        CASE KindOf[u] = "accept" ->
                IF success THEN appointment[u] # NONE
                                /\ \E a \in AttemptIds : attempt[a].acceptedBy = u
                ELSE claim[u].status \notin {"HELD", "ACTIVE"}
          [] KindOf[u] = "replace" -> success => appointment[u] # NONE
          [] KindOf[u] = "cancel" -> success => Status = "cancelled"
          [] KindOf[u] = "complete" -> success => Status = "completed"
          [] OTHER -> TRUE

\* A missed visit is flagged until it is recovered, and no longer: the expiry and
\* the replacement that recovers from it do not overtake each other.
MissedVisitIsFlagged ==
    (HandlersFinished /\ main.pc = "idle" /\ ~Ended) =>
        (("MISSED_APPOINTMENT" \in attention[TheCase]) <=>
         \E x \in Apt!VisitsOf(TheCase) :
             appointment[x] = "missed" /\ claim[x].status = "ACTIVE")

\* An ended Case leaves no operational Officer Attention open.
EndedCaseNeedsNoOfficer == Ended => attention[TheCase] = {}

\* Work that is under way stays visible as such until it is completed: the only
\* way out of IN_PROGRESS in docs/case-lifecycle.md.
StartedWorkStaysVisible ==
    [][Status = "in_progress" => Status' \in {"in_progress", "completed"}]_vars

\* Once accepted, an offer is not taken from the Contractor: a replacement
\* withdraws only a pending one.
AcceptedOfferIsNeverWithdrawn ==
    [][\A a \in AttemptIds : attempt[a].status = "ACCEPTED" =>
           attempt'[a].status = "ACCEPTED"]_vars

\* How far the visits of the Case have come.
Reached(status) == \E x \in Apt!VisitsOf(TheCase) : appointment[x] = status
FurthestVisit == IF Reached("completed") THEN "completed"
                 ELSE IF Reached("in_progress") THEN "in_progress" ELSE NONE

Life == INSTANCE CaseLifecycle
        WITH work <- assignment[TheCase], visit <- FurthestVisit,
             end <- IF Ended THEN Status ELSE NONE

\* The sagas over three atoms look like single steps, in order: work begins on a visit
\* that has begun, a Case is completed after its work and its work after the visit,
\* nothing is offered, accepted or begun once the Case has ended.
FollowsTheLifecycle == Life!LifecycleSpec

\* Every Update that was sent is answered: the guards on which handlers and the
\* main loop wait for each other never wait in a circle.
EveryUpdateIsAnswered ==
    \A u \in Updates : upd[u].pc = "sent" ~> upd[u].pc = "done"

\* A Case without a Contractor is not forgotten: it is allocated, flagged or over.
UnallocatedCaseIsNoticed ==
    Status = "pending" ~>
        \/ Status # "pending"
        \/ attention[TheCase] \cap Cas!AllocationAttentionKinds # {}

\* An offer nobody answers lapses: the deadline is not lost in the loop.
UnansweredOfferLapses ==
    \A a \in AttemptIds :
        (attempt[a].status = "PENDING_ACCEPTANCE" /\ deadline[a] <= now)
        ~> attempt[a].status # "PENDING_ACCEPTANCE"

\* A visit nobody attended does not stay scheduled after its end.
UnattendedVisitIsMissed ==
    \A x \in ClaimIds :
        (appointment[x] = "scheduled" /\ now >= claim[x].slot[2])
        ~> appointment[x] # "scheduled"

=============================================================================
