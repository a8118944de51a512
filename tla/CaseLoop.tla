------------------------------ MODULE CaseLoop ------------------------------
(***************************************************************************)
(* The Temporal Workflow that owns one Case                                *)
(* (apps/worker/src/workflows/case-workflow.ts) over the three atoms: its  *)
(* state and its main loop.  CaseWorkflow adds the Update handlers.        *)
(*                                                                         *)
(* Its main loop and its Update handlers share one thread: they interleave *)
(* only where one of them awaits, and everything between two awaits is one *)
(* action here (or a chain of actions no other actor can come between, see *)
(* Synchronous).  A control state names what is awaited.                   *)
(*                                                                         *)
(* An Activity calls the atoms over HTTP and is retried until a reply gets *)
(* back (at least once): every step that awaits one has a variant in which *)
(* the atom commits and the reply is lost.                                 *)
(*                                                                         *)
(* Other Cases show as an epoch that moves.  What an Update asks for is    *)
(* read by the Gateway (apps/gateway/src/app.ts) in a step before the      *)
(* Workflow sees it, and may be stale by then.                             *)
(***************************************************************************)
EXTENDS Naturals, FiniteSets, Sequences, FiniteSetsExt

CONSTANTS
    TheCase,
    Contractors,
    Updates,        \* the Updates ever sent, by operation id
    KindOf,         \* Update -> Kinds
    Slots,          \* the intervals that are ever requested, as <<start, end>>
    AcceptanceSla,  \* DEFAULT_ACCEPTANCE_SLA_MS
    RetryDelay,     \* the automatic allocation's retry delay
    MaxRounds,      \* MAX_ALLOCATION_ROUNDS
    MaxTime,        \* bound: the last instant the clock reaches
    MaxEpoch,       \* bound: the last epoch an allocation is fenced on
    OthersUntil,    \* bound: other Cases move the epoch up to this one
    LostReplies,    \* {FALSE}, or {FALSE, TRUE} if replies may be lost
    NONE

Kinds == {"open", "manual", "accept", "start", "noAccess", "replace",
          "cancel", "complete"}

ASSUME WorkflowAssumption ==
    /\ KindOf \in [Updates -> Kinds]
    /\ {AcceptanceSla, RetryDelay, MaxRounds, MaxTime, MaxEpoch, OthersUntil} \subseteq Nat
    /\ FALSE \in LostReplies /\ LostReplies \subseteq BOOLEAN

Cases == {TheCase}
OpIds == Updates
ClaimIds == {u \in Updates : KindOf[u] \in {"accept", "replace"}}

\* operationId of an allocation: `${caseId}/allocate/${contractorId}/${epoch}`,
\* or the one the Officer's Update carries.
AttemptIds == (Contractors \X (0 .. MaxEpoch))
              \cup {u \in Updates : KindOf[u] = "manual"}
CaseOpIds == Updates \cup AttemptIds \cup ({"breach"} \X AttemptIds)

VARIABLES
    assignment, completionOp, attempt, epoch, commit,       \* AssignmentAtom
    claim, appointment, visitOp,                            \* AppointmentAtom
    caseStatus, caseOps, caseCompletion, attention,         \* CaseAtom
    now,            \* the clock
    deadline,       \* Attempt -> allocation_attempts.deadline_at
    wf,             \* the Workflow's variables that outlive an await
    main,           \* where the main loop is, and its local variables
    upd,            \* Update -> where it is, and its local variables
    effects         \* performance effects that were queued

assignmentVars == <<assignment, completionOp, attempt, epoch, commit>>
appointmentVars == <<claim, appointment, visitOp>>
caseVars == <<caseStatus, caseOps, caseCompletion, attention>>
atomVars == <<assignmentVars, appointmentVars, caseVars, deadline>>
workflowVars == <<wf, main, upd, effects>>
vars == <<atomVars, now, workflowVars>>

Asg == INSTANCE AssignmentAtom
Apt == INSTANCE AppointmentAtom
Cas == INSTANCE CaseAtom

\* SQL NULL is no id and no status; an interval that is requested ends after it
\* starts (the orchestration contract's schemas refuse others).
ASSUME NoneIsNull ==
    NONE \notin Cases \cup Contractors \cup Updates \cup AttemptIds \cup Asg!AssignmentStatus
               \cup Apt!AppointmentStatus \cup Cas!CaseStatus
ASSUME SlotsAreIntervals ==
    Slots \subseteq Nat \X Nat /\ \A s \in Slots : s[1] < s[2]

Status == caseStatus[TheCase]
Ended == Cas!Terminal(TheCase)

\* What a run starts from when nothing is carried over.
FreshRun == [queue |-> <<>>, attempt |-> NONE, accepted |-> FALSE, visit |-> NONE,
             active |-> FALSE, retryAt |-> NONE, cancelling |-> FALSE,
             closing |-> FALSE, attempted |-> {}, known |-> FALSE, rev |-> FALSE]

AtTop == [pc |-> "top", until |-> NONE, target |-> NONE, req |-> NONE,
          k |-> NONE, epoch |-> 0, round |-> 0, kind |-> NONE]

NewUpdate == [pc |-> "new", target |-> NONE, k |-> NONE, slot |-> NONE,
              was |-> NONE, guards |-> FALSE, result |-> NONE]

Init ==
    /\ Asg!AssignmentInit /\ Apt!AppointmentInit /\ Cas!CaseInit
    /\ now = 0
    /\ deadline = [a \in AttemptIds |-> NONE]
    /\ wf = FreshRun
    /\ main = AtTop
    /\ upd = [u \in Updates |-> NewUpdate]
    /\ effects = {}

-----------------------------------------------------------------------------
(* The guards, as the handlers and the loop hold them *)

Running(u) == upd[u].pc \notin {"new", "sent", "queued", "await", "done"}
Accepting == {u \in Updates : KindOf[u] = "accept" /\ Running(u)}
Completing == {u \in Updates : KindOf[u] = "complete" /\ Running(u)}
HoldingVisit == {u \in Updates : Running(u) /\ upd[u].guards}
Expiring == main.pc \in {"missVisit", "missFlag"}
Allocating == main.pc \in {"terminal", "snapshot", "commit", "assign",
                           "breach", "breachCase"}

\* missedAppointmentRecovery
Recovering == IF Expiring THEN main.target ELSE NONE

HandlersFinished == \A u \in Updates : upd[u].pc \in {"new", "sent", "done"}

\* The main loop is running, not waiting: nothing else of this Workflow runs
\* and Date.now() stands still until it awaits again.
Synchronous ==
    \/ main.pc \in {"top", "due", "breachCheck", "shift"}
    \/ main.pc = "idle" /\ (wf.queue # <<>> \/ wf.rev)
    \/ main.pc = "gateAccept" /\ Accepting = {}
    \/ main.pc = "gateVisit" /\ HoldingVisit = {}

Goto(pc) == main' = [main EXCEPT !.pc = pc]
Restarted == main' = AtTop
Answered(result) == [NewUpdate EXCEPT !.pc = "done", !.result = result]
Answer(u, result) == upd' = [upd EXCEPT ![u] = Answered(result)]
Continue(u, pc) == upd' = [upd EXCEPT ![u].pc = pc]

\* A handler that bumps appointmentStateRevision wakes a loop that waits.
Bumped(w) == [w EXCEPT !.rev = (main.pc = "idle")]

-----------------------------------------------------------------------------
(* The main loop: waits, deadlines and the queue *)

\* Defect (as all operators named ...Defect, never part of a specification): the
\* end of the current visit is not a deadline.
NoVisitEndDefect == {}

VisitEnd == IF wf.visit = NONE THEN {} ELSE {claim[wf.visit].slot[2]}
\* Defect: the deadline of the current offer is not waited for.
NoOfferDeadlineDefect ==
    VisitEnd \cup (IF wf.active \/ wf.retryAt = NONE THEN {} ELSE {wf.retryAt})

Deadlines ==
    (IF wf.attempt = NONE THEN {} ELSE {deadline[wf.attempt]})
    \cup VisitEnd
    \cup (IF wf.active \/ wf.retryAt = NONE THEN {} ELSE {wf.retryAt})

Top ==
    /\ main.pc = "top"
    /\ main' = IF wf.cancelling /\ ~wf.closing THEN [AtTop EXCEPT !.pc = "waitCancel"]
               ELSE IF wf.queue # <<>> THEN [AtTop EXCEPT !.pc = "shift"]
               ELSE [AtTop EXCEPT !.pc = "idle",
                       !.until = IF Deadlines = {} THEN NONE ELSE Min(Deadlines)]
    /\ wf' = [wf EXCEPT !.rev = FALSE]
    /\ UNCHANGED <<atomVars, now, upd, effects>>

\* A terminal Case's run ends once its derived effects are settled, at a moment
\* this module leaves open, and no handler is running.
Close ==
    /\ main.pc \in {"top", "idle"}
    /\ wf.closing /\ HandlersFinished
    /\ Goto("closed")
    /\ UNCHANGED <<atomVars, now, wf, upd, effects>>

CancellationSettled ==
    /\ main.pc = "waitCancel"
    /\ ~wf.cancelling \/ wf.closing
    /\ Restarted
    /\ UNCHANGED <<atomVars, now, wf, upd, effects>>

TimerElapsed == main.until # NONE /\ main.until <= now

Wake ==
    /\ main.pc = "idle"
    /\ wf.queue # <<>> \/ wf.rev \/ TimerElapsed
    /\ Goto(IF TimerElapsed THEN "gateAccept" ELSE "shift")
    /\ UNCHANGED <<atomVars, now, wf, upd, effects>>

\* Handlers admitted before the deadline finish first: acceptances, then those
\* that hold the current Appointment.
GateAccept ==
    /\ main.pc = "gateAccept" /\ Accepting = {}
    /\ Goto("gateVisit")
    /\ UNCHANGED <<atomVars, now, wf, upd, effects>>

GateVisit ==
    /\ main.pc = "gateVisit" /\ HoldingVisit = {}
    /\ Goto("due")
    /\ UNCHANGED <<atomVars, now, wf, upd, effects>>

Due ==
    /\ main.pc = "due"
    /\ main' = IF wf.cancelling THEN AtTop
               ELSE IF \E end \in VisitEnd : now >= end
               THEN [main EXCEPT !.pc = "missVisit", !.target = wf.visit]
               ELSE [main EXCEPT !.pc = "breachCheck"]
    /\ UNCHANGED <<atomVars, now, wf, upd, effects>>

\* The end of the expiry's `finally`.
ExpiryOver ==
    /\ main' = [main EXCEPT !.pc = "breachCheck", !.target = NONE]
    /\ wf' = [wf EXCEPT !.visit = IF @ = main.target THEN NONE ELSE @]

MissVisit(lost) ==
    /\ main.pc = "missVisit"
    /\ LET out == Apt!MissedOutcome(main.target) IN
       /\ Apt!MarkAppointmentMissed(main.target, out)
       /\ CASE lost -> UNCHANGED <<main, wf>>
            [] ~lost /\ out # "NOT_SCHEDULED" -> Goto("missFlag") /\ UNCHANGED wf
            [] ~lost /\ out = "NOT_SCHEDULED" -> ExpiryOver
    /\ UNCHANGED <<assignmentVars, caseVars, deadline, now, upd, effects>>

MissFlag(lost) ==
    /\ main.pc = "missFlag"
    /\ Cas!RaiseOfficerAttention(TheCase, "MISSED_APPOINTMENT")
    /\ IF lost THEN UNCHANGED <<main, wf>> ELSE ExpiryOver
    /\ UNCHANGED <<assignmentVars, appointmentVars, deadline, now, upd, effects>>

BreachCheck ==
    /\ main.pc = "breachCheck"
    /\ LET breachDue == wf.attempt # NONE /\ ~wf.accepted /\ now >= deadline[wf.attempt]
           pollDue == /\ wf.attempt = NONE /\ ~wf.active
                      /\ wf.retryAt # NONE /\ wf.retryAt <= now /\ wf.known
       IN /\ main' = IF breachDue
                     THEN [main EXCEPT !.pc = "breach", !.target = wf.attempt]
                     ELSE [main EXCEPT !.pc = "shift"]
          /\ wf' = IF ~breachDue /\ pollDue
                   THEN [wf EXCEPT !.queue = Append(@, NONE)] ELSE wf
    /\ UNCHANGED <<atomVars, now, upd, effects>>

Breach(lost) ==
    /\ main.pc = "breach"
    /\ LET out == Asg!BreachOutcome(main.target) IN
       /\ Asg!BreachAllocationAttempt(main.target, out)
       /\ CASE lost -> UNCHANGED <<main, wf>>
            [] ~lost /\ out \in {"BREACHED", "ALREADY_BREACHED"} ->
                   Goto("breachCase") /\ UNCHANGED wf
            [] ~lost /\ out \in {"ACCEPTED", "WITHDRAWN"} ->
                   Goto("shift") /\ wf' = [wf EXCEPT !.attempt = NONE]
    /\ UNCHANGED <<appointmentVars, caseVars, deadline, now, upd, effects>>

\* Defect: no new allocation is queued after a breach.
NoReallocationDefect(lost) ==
    /\ main.pc = "breachCase"
    /\ \E out \in {"PENDING", "CASE_TERMINAL"} :
       /\ Cas!MarkCaseBreached(TheCase, <<"breach", main.target>>, out)
       /\ IF lost THEN UNCHANGED <<main, wf, effects>>
          ELSE /\ effects' = effects \cup {<<"breach", main.target>>}
               /\ Goto("shift")
               /\ wf' = [wf EXCEPT !.attempt = NONE, !.active = (out = "CASE_TERMINAL"),
                                   !.retryAt = NONE]
    /\ UNCHANGED <<assignmentVars, appointmentVars, deadline, now, upd>>

BreachCase(lost) ==
    /\ main.pc = "breachCase"
    /\ \E out \in {"PENDING", "CASE_TERMINAL"} :
       /\ Cas!MarkCaseBreached(TheCase, <<"breach", main.target>>, out)
       /\ IF lost THEN UNCHANGED <<main, wf, effects>>
          ELSE /\ effects' = effects \cup {<<"breach", main.target>>}
               /\ Goto("shift")
               /\ wf' = [wf EXCEPT
                      !.attempt = NONE, !.active = (out = "CASE_TERMINAL"),
                      !.retryAt = NONE,
                      !.queue = IF out = "PENDING" /\ wf.known THEN Append(@, NONE)
                                ELSE @]
    /\ UNCHANGED <<assignmentVars, appointmentVars, deadline, now, upd>>

Shift ==
    /\ main.pc = "shift"
    /\ IF wf.queue = <<>> THEN Restarted /\ UNCHANGED <<wf, upd>>
       ELSE LET req == Head(wf.queue) IN
            /\ wf' = [wf EXCEPT !.queue = Tail(@)]
            /\ IF wf.cancelling \/ (req = NONE /\ wf.active)
               THEN /\ Restarted
                    /\ IF req = NONE THEN UNCHANGED upd ELSE Answer(req, "CASE_TERMINAL")
               ELSE /\ main' = [AtTop EXCEPT !.pc = "terminal", !.req = req]
                    /\ UNCHANGED upd
    /\ UNCHANGED <<atomVars, now, effects>>

-----------------------------------------------------------------------------
(* The main loop: one allocation, automatic (main.req = NONE) or manual *)

Automatic == main.req = NONE
AllocationOp == IF Automatic THEN <<main.k, main.epoch>> ELSE main.req

\* How an allocation ends; the Officer's Update, if any, is answered.
AllocationOver(w, result) ==
    /\ wf' = w
    /\ Restarted
    /\ IF Automatic THEN UNCHANGED upd ELSE Answer(main.req, result)

Settled == [wf EXCEPT !.active = TRUE, !.retryAt = NONE]

Allocated(a) == [Settled EXCEPT !.attempt = a, !.accepted = FALSE]

CheckTerminal ==
    /\ main.pc = "terminal"
    /\ IF Ended THEN AllocationOver(Settled, "CASE_TERMINAL")
       ELSE Goto("snapshot") /\ UNCHANGED <<wf, upd>>
    /\ UNCHANGED <<atomVars, now, effects>>

\* Which candidate ranks first is the load of all Cases, and whether the one an
\* Officer names is a candidate is its profile: both are left open here.
FetchSnapshot ==
    /\ main.pc = "snapshot" /\ epoch <= MaxEpoch
    /\ LET candidates == IF Automatic THEN Contractors \ wf.attempted
                         ELSE {upd[main.req].k}
       IN \/ /\ \E k \in candidates :
                   main' = [main EXCEPT !.pc = "commit", !.k = k, !.epoch = epoch]
             /\ UNCHANGED <<wf, upd>>
          \/ /\ Automatic /\ candidates = {}
             /\ main' = [main EXCEPT !.pc = "flag", !.kind = "NO_ELIGIBLE_CONTRACTOR"]
             /\ UNCHANGED <<wf, upd>>
          \/ ~Automatic /\ AllocationOver(wf, "CONTRACTOR_NOT_ELIGIBLE")
    /\ UNCHANGED <<atomVars, now, effects>>

\* What the loop does with the reply of commitAllocationAttempt.
OnCommitReply(out) ==
    CASE out \in {"COMMITTED", "ALREADY_COMMITTED"} ->
            /\ Goto("assign")
            /\ wf' = [wf EXCEPT !.attempted = @ \cup {main.k}]
            /\ UNCHANGED upd
      [] out = "ACTIVE_ATTEMPT_EXISTS" ->
            AllocationOver(IF Automatic
                           THEN Allocated(CHOOSE a \in Asg!Pending(TheCase) : TRUE)
                           ELSE Settled, out)
      [] out = "STALE_EPOCH" ->
            /\ main' = IF main.round + 1 < MaxRounds
                       THEN [main EXCEPT !.pc = "snapshot", !.round = @ + 1]
                       ELSE [main EXCEPT !.pc = "flag", !.kind = "ALLOCATION_FAILED"]
            /\ UNCHANGED <<wf, upd>>
      [] out \in {"OVERRIDE_REASON_REQUIRED", "REPLACEMENT_ATTEMPT_NOT_PENDING"} ->
            AllocationOver(wf, out)

CommitRequest(lost) ==
    /\ main.pc = "commit" /\ commit = Asg!NoCommit
    /\ LET replace == IF Automatic THEN NONE ELSE upd[main.req].target
           reason == ~Automatic /\ upd[main.req].was = "REASON"
           out == Asg!CommitBeginOutcome(AllocationOp, TheCase, main.k, ~Automatic,
                                         reason, replace, main.epoch)
       IN /\ Asg!CommitBegin(AllocationOp, TheCase, main.k, ~Automatic, reason,
                             replace, main.epoch, out)
          /\ IF lost \/ out = "CONTINUE" THEN UNCHANGED <<main, wf, upd>>
             ELSE OnCommitReply(out)
    /\ UNCHANGED <<appointmentVars, caseVars, deadline, now, effects>>

CommitRead(lost) ==
    /\ \/ Asg!CommitReadAssignment /\ UNCHANGED <<main, wf, upd>>
       \/ LET out == Asg!CommitPendingOutcome IN
          /\ Asg!CommitReadPending(out)
          /\ IF lost \/ out = "CONTINUE" THEN UNCHANGED <<main, wf, upd>>
             ELSE OnCommitReply(out)
    /\ UNCHANGED <<appointmentVars, caseVars, deadline, now, effects>>

\* Defect: the Attempt is inserted without its deadline.
NoDeadlineDefect(lost) ==
    /\ Asg!CommitWrite
    /\ IF lost THEN UNCHANGED <<main, wf, upd>> ELSE OnCommitReply("COMMITTED")
    /\ UNCHANGED <<appointmentVars, caseVars, deadline, now, effects>>

CommitWrites(lost) ==
    /\ Asg!CommitWrite
    /\ deadline' = [deadline EXCEPT ![commit.op] = now + AcceptanceSla]
    /\ IF lost THEN UNCHANGED <<main, wf, upd>> ELSE OnCommitReply("COMMITTED")
    /\ UNCHANGED <<appointmentVars, caseVars, now, effects>>

CommitFails ==
    /\ TRUE \in LostReplies
    /\ Asg!CommitRollback
    /\ UNCHANGED <<appointmentVars, caseVars, deadline, now, workflowVars>>

MarkAssigned(lost) ==
    /\ main.pc = "assign"
    /\ \E out \in {"ASSIGNED", "CASE_TERMINAL"} :
       /\ Cas!MarkCaseAssigned(TheCase, AllocationOp, out)
       /\ IF lost THEN UNCHANGED <<main, wf, upd>>
          ELSE AllocationOver(IF out = "ASSIGNED" THEN Allocated(AllocationOp)
                              ELSE Settled,
                              IF out = "ASSIGNED" THEN "SUCCESS" ELSE out)
    /\ UNCHANGED <<assignmentVars, appointmentVars, deadline, now, effects>>

\* raiseAllocationAttention: allocationMutationGuard is no longer held.
FlagAllocation(lost) ==
    /\ main.pc = "flag"
    /\ Cas!RaiseOfficerAttention(TheCase, main.kind)
    /\ IF lost THEN UNCHANGED <<main, wf, upd>>
       ELSE AllocationOver([wf EXCEPT !.retryAt =
                               IF Automatic \/ @ = NONE THEN now + RetryDelay ELSE @],
                           "ALLOCATION_FAILED")
    /\ UNCHANGED <<assignmentVars, appointmentVars, deadline, now, effects>>

LoopStep == Top \/ Close \/ CancellationSettled \/ Wake \/ GateAccept \/ GateVisit
            \/ Due \/ BreachCheck \/ Shift \/ CheckTerminal \/ FetchSnapshot
LoopActivity(lost) ==
    \/ MissVisit(lost) \/ MissFlag(lost) \/ Breach(lost) \/ BreachCase(lost)
    \/ CommitRequest(lost) \/ CommitRead(lost) \/ CommitWrites(lost)
    \/ MarkAssigned(lost) \/ FlagAllocation(lost)
=============================================================================
