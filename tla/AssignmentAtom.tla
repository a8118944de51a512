--------------------------- MODULE AssignmentAtom ---------------------------
(***************************************************************************)
(* The Assignment atom (apps/atoms/assignment/src/service.ts): one stable  *)
(* Assignment row per Case, an append-only log of Allocation Attempts and  *)
(* one global epoch row that fences allocations of all Cases.              *)
(*                                                                         *)
(* Every operation is one database transaction at READ COMMITTED.  Those   *)
(* that lock the rows they decide on (SELECT ... FOR UPDATE) are one       *)
(* action.  commitAllocationAttempt locks only the epoch row: it reads the *)
(* Assignment and the pending Attempt without a lock and acts on what it   *)
(* read, so it is one action per statement that another transaction can    *)
(* come between.  What it writes becomes visible when it commits.          *)
(*                                                                         *)
(* An Attempt is named by the operation id that inserts it: the column has *)
(* a unique index and the operation is deduplicated on it.                 *)
(***************************************************************************)
EXTENDS Naturals, FiniteSets

CONSTANTS
    Cases,          \* Case ids
    Contractors,    \* Contractor ids
    AttemptIds,     \* operation ids of allocation commits, one per Attempt
    OpIds,          \* operation ids of acceptances and completions
    NONE            \* SQL NULL, and a row that does not exist

VARIABLES
    assignment,     \* Case -> status of its Assignment row, NONE if absent
    completionOp,   \* Case -> completion_operation_id of its Assignment
    attempt,        \* Attempt id -> its row, NoAttempt if absent
    epoch,          \* allocation_epoch.epoch
    commit          \* the transaction that holds the epoch row, or NoCommit

assignmentVars == <<assignment, completionOp, attempt, epoch, commit>>

AssignmentStatus == {"PENDING_ACCEPTANCE", "ACCEPTED", "IN_PROGRESS",
                     "BREACHED", "CANCELLED", "COMPLETED"}
AttemptStatus == {"PENDING_ACCEPTANCE", "ACCEPTED", "BREACHED", "WITHDRAWN"}

ASSUME NoneIsNull ==
    /\ NONE \notin Cases \cup Contractors \cup AttemptIds \cup OpIds
    /\ NONE \notin AssignmentStatus

NoAttempt == [status |-> "ABSENT", case |-> NONE, contractor |-> NONE,
              acceptedBy |-> NONE]
AttemptRow == [status : AttemptStatus, case : Cases, contractor : Contractors,
               acceptedBy : OpIds \cup {NONE}]

NoCommit == [pc |-> "idle", op |-> NONE, case |-> NONE, contractor |-> NONE,
             replace |-> NONE, saw |-> NONE]
CommitTx == [pc : {"assignment", "pending", "write"}, op : AttemptIds,
             case : Cases, contractor : Contractors,
             replace : AttemptIds \cup {NONE},
             saw : AssignmentStatus \cup {NONE}]

AssignmentTypeOK ==
    /\ assignment \in [Cases -> AssignmentStatus \cup {NONE}]
    /\ completionOp \in [Cases -> OpIds \cup {NONE}]
    /\ attempt \in [AttemptIds -> AttemptRow \cup {NoAttempt}]
    /\ epoch \in Nat
    /\ commit \in CommitTx \cup {NoCommit}

AttemptsOf(c) == {a \in AttemptIds : attempt[a].case = c}
Pending(c) == {a \in AttemptsOf(c) : attempt[a].status = "PENDING_ACCEPTANCE"}
Accepted(c) == {a \in AttemptsOf(c) : attempt[a].status = "ACCEPTED"}

NeverAccepted(c) == \A a \in AttemptsOf(c) : attempt[a].acceptedBy = NONE

AssignmentInit ==
    /\ assignment = [c \in Cases |-> NONE]
    /\ completionOp = [c \in Cases |-> NONE]
    /\ attempt = [a \in AttemptIds |-> NoAttempt]
    /\ epoch = 0
    /\ commit = NoCommit

-----------------------------------------------------------------------------
(* commitAllocationAttempt, statement by statement *)

\* A Contractor who breached on this Case may be offered it again only by a
\* manual allocation that says why.
OverrideReasonMissing(c, k, manual, reason) ==
    /\ manual /\ ~reason /\ assignment[c] # NONE
    /\ \E a \in AttemptsOf(c) : attempt[a].contractor = k
                                /\ attempt[a].status = "BREACHED"

CommitBeginOutcome(op, c, k, manual, reason, replace, expectedEpoch) ==
    IF attempt[op] # NoAttempt THEN "ALREADY_COMMITTED"
    ELSE IF epoch # expectedEpoch THEN "STALE_EPOCH"
    ELSE IF OverrideReasonMissing(c, k, manual, reason)
         THEN "OVERRIDE_REASON_REQUIRED"
    ELSE IF replace # NONE /\ assignment[c] = NONE
         THEN "REPLACEMENT_ATTEMPT_NOT_PENDING"
    ELSE "CONTINUE"

\* Takes the epoch row FOR UPDATE, then the operation claim, the fence and the
\* override rule are decided.  With "CONTINUE" the transaction stays open.
CommitBegin(op, c, k, manual, reason, replace, expectedEpoch, out) ==
    /\ commit = NoCommit
    /\ out = CommitBeginOutcome(op, c, k, manual, reason, replace, expectedEpoch)
    /\ commit' = IF out = "CONTINUE"
                 THEN [pc |-> IF replace = NONE THEN "assignment" ELSE "pending",
                       op |-> op, case |-> c, contractor |-> k,
                       replace |-> replace, saw |-> NONE]
                 ELSE NoCommit
    /\ UNCHANGED <<assignment, completionOp, attempt, epoch>>

\* Upserts the stable Assignment and reads its status, without a row lock.
CommitReadAssignment ==
    /\ commit.pc = "assignment"
    /\ commit' = [commit EXCEPT !.pc = "pending", !.saw = assignment[commit.case]]
    /\ UNCHANGED <<assignment, completionOp, attempt, epoch>>

\* Defects (as all operators named ...Defect, never part of a specification): the
\* replaced Attempt is not looked up; an open offer is not looked for.
UncheckedReplacementDefect ==
    IF commit.replace = NONE /\ Pending(commit.case) # {} THEN "ACTIVE_ATTEMPT_EXISTS"
    ELSE "CONTINUE"

SecondOfferDefect ==
    IF commit.replace = NONE \/ commit.replace \in Pending(commit.case) THEN "CONTINUE"
    ELSE "REPLACEMENT_ATTEMPT_NOT_PENDING"

CommitPendingOutcome ==
    IF commit.replace = NONE
    THEN IF Pending(commit.case) = {} THEN "CONTINUE" ELSE "ACTIVE_ATTEMPT_EXISTS"
    ELSE IF commit.replace \in Pending(commit.case) THEN "CONTINUE"
         ELSE "REPLACEMENT_ATTEMPT_NOT_PENDING"

\* Reads the pending Attempt (the one to replace, or any), without a row lock.
CommitReadPending(out) ==
    /\ commit.pc = "pending"
    /\ out = CommitPendingOutcome
    /\ commit' = IF out = "CONTINUE" THEN [commit EXCEPT !.pc = "write"] ELSE NoCommit
    /\ UNCHANGED <<assignment, completionOp, attempt, epoch>>

\* Defect: whatever the Assignment was read as, it is offered again.
ReopenAnyDefect ==
    LET c == commit.case IN
    /\ commit.pc = "write"
    /\ attempt' = [attempt EXCEPT ![commit.op] =
           [status |-> "PENDING_ACCEPTANCE", case |-> c,
            contractor |-> commit.contractor, acceptedBy |-> NONE]]
    /\ assignment' = [assignment EXCEPT ![c] = "PENDING_ACCEPTANCE"]
    /\ epoch' = epoch + 1
    /\ commit' = NoCommit
    /\ UNCHANGED completionOp

\* The writes, made on what the earlier statements read: withdraw the replaced
\* Attempt by id alone, reopen an Assignment that was read BREACHED, insert the
\* Attempt, advance the epoch, commit.
CommitWrite ==
    LET c == commit.case IN
    /\ commit.pc = "write"
    /\ attempt' = [a \in AttemptIds |->
           CASE a = commit.op -> [status |-> "PENDING_ACCEPTANCE", case |-> c,
                                  contractor |-> commit.contractor,
                                  acceptedBy |-> NONE]
             [] a # commit.op /\ a = commit.replace ->
                    [attempt[a] EXCEPT !.status = "WITHDRAWN"]
             [] OTHER -> attempt[a]]
    /\ assignment' = IF commit.replace = NONE /\ commit.saw \in {NONE, "BREACHED"}
                     THEN [assignment EXCEPT ![c] = "PENDING_ACCEPTANCE"]
                     ELSE assignment
    /\ epoch' = epoch + 1
    /\ commit' = NoCommit
    /\ UNCHANGED completionOp

\* The transaction fails before it commits: the epoch row is released and
\* nothing was written.
CommitRollback ==
    /\ commit # NoCommit
    /\ commit' = NoCommit
    /\ UNCHANGED <<assignment, completionOp, attempt, epoch>>

-----------------------------------------------------------------------------
(* The operations that lock the rows they decide on *)

\* Defect: the Assignment's own status is not asked.
AssignmentNotAskedDefect(c, a, k, op) ==
    IF attempt[a].case # c THEN "CASE_MISMATCH"
    ELSE IF attempt[a].status = "ACCEPTED" /\ attempt[a].acceptedBy = op
         THEN "ALREADY_ACCEPTED"
    ELSE IF attempt[a].status # "PENDING_ACCEPTANCE" THEN "ATTEMPT_NOT_PENDING"
    ELSE IF attempt[a].contractor # k THEN "ATTEMPT_NOT_OWNED"
    ELSE "ACCEPTED"

AcceptOutcome(c, a, k, op) ==
    IF attempt[a].case # c THEN "CASE_MISMATCH"
    ELSE IF attempt[a].status = "ACCEPTED" /\ attempt[a].acceptedBy = op
         THEN "ALREADY_ACCEPTED"
    ELSE IF assignment[c] # "PENDING_ACCEPTANCE" THEN "ASSIGNMENT_NOT_PENDING"
    ELSE IF attempt[a].status # "PENDING_ACCEPTANCE" THEN "ATTEMPT_NOT_PENDING"
    ELSE IF attempt[a].contractor # k THEN "ATTEMPT_NOT_OWNED"
    ELSE "ACCEPTED"

AcceptAllocationAttempt(c, a, k, op, out) ==
    /\ out = AcceptOutcome(c, a, k, op)
    /\ IF out = "ACCEPTED"
       THEN /\ attempt' = [attempt EXCEPT ![a].status = "ACCEPTED",
                                          ![a].acceptedBy = op]
            /\ assignment' = [assignment EXCEPT ![c] = "ACCEPTED"]
       ELSE UNCHANGED <<attempt, assignment>>
    /\ UNCHANGED <<completionOp, epoch, commit>>

\* Defect: an offer that was answered is breached all the same.
AnsweredOfferDefect(a) ==
    IF attempt[a].status = "BREACHED" THEN "ALREADY_BREACHED" ELSE "BREACHED"

\* The Attempt's own status is the idempotency key: a repeated breach is
\* answered ALREADY_BREACHED, an answered offer is left alone.
BreachOutcome(a) ==
    CASE attempt[a].status = "PENDING_ACCEPTANCE" -> "BREACHED"
      [] attempt[a].status = "BREACHED" -> "ALREADY_BREACHED"
      [] OTHER -> attempt[a].status

BreachAllocationAttempt(a, out) ==
    /\ attempt[a] # NoAttempt
    /\ out = BreachOutcome(a)
    /\ IF out = "BREACHED"
       THEN /\ attempt' = [attempt EXCEPT ![a].status = "BREACHED"]
            /\ assignment' = [assignment EXCEPT ![attempt[a].case] =
                   IF @ = "PENDING_ACCEPTANCE" THEN "BREACHED" ELSE @]
       ELSE UNCHANGED <<attempt, assignment>>
    /\ UNCHANGED <<completionOp, epoch, commit>>

\* Defect: work starts on any open Assignment.
StartUnacceptedDefect(c) ==
    CASE assignment[c] = NONE -> "ASSIGNMENT_NOT_FOUND"
      [] assignment[c] = "IN_PROGRESS" -> "ALREADY_IN_PROGRESS"
      [] assignment[c] \in {"PENDING_ACCEPTANCE", "ACCEPTED"} -> "IN_PROGRESS"
      [] OTHER -> "NOT_ACCEPTED"

StartOutcome(c) ==
    CASE assignment[c] = NONE -> "ASSIGNMENT_NOT_FOUND"
      [] assignment[c] = "IN_PROGRESS" -> "ALREADY_IN_PROGRESS"
      [] assignment[c] = "ACCEPTED" -> "IN_PROGRESS"
      [] OTHER -> "NOT_ACCEPTED"

MarkAssignmentInProgress(c, out) ==
    /\ out = StartOutcome(c)
    /\ assignment' = IF out = "IN_PROGRESS"
                     THEN [assignment EXCEPT ![c] = "IN_PROGRESS"] ELSE assignment
    /\ UNCHANGED <<completionOp, attempt, epoch, commit>>

CompleteOutcome(c, op) ==
    CASE assignment[c] = NONE -> "ASSIGNMENT_NOT_FOUND"
      [] assignment[c] = "COMPLETED" ->
             IF completionOp[c] = op THEN "ALREADY_COMPLETED"
             ELSE "COMPLETION_OPERATION_CONFLICT"
      [] assignment[c] = "IN_PROGRESS" -> "COMPLETED"
      [] OTHER -> "NOT_IN_PROGRESS"

CompleteAssignment(c, op, out) ==
    /\ out = CompleteOutcome(c, op)
    /\ IF out = "COMPLETED"
       THEN /\ assignment' = [assignment EXCEPT ![c] = "COMPLETED"]
            /\ completionOp' = [completionOp EXCEPT ![c] = op]
       ELSE UNCHANGED <<assignment, completionOp>>
    /\ UNCHANGED <<attempt, epoch, commit>>

\* Defect: work under way is not spared.
CancelWorkDefect(c) ==
    CASE assignment[c] = NONE -> "NO_ASSIGNMENT"
      [] assignment[c] = "CANCELLED" -> "ALREADY_CANCELLED"
      [] assignment[c] = "COMPLETED" -> "NOT_CANCELLABLE"
      [] OTHER -> "CANCELLED"

CancelAssignmentOutcome(c) ==
    CASE assignment[c] = NONE -> "NO_ASSIGNMENT"
      [] assignment[c] = "CANCELLED" -> "ALREADY_CANCELLED"
      [] assignment[c] = "IN_PROGRESS" -> "IN_PROGRESS"
      [] assignment[c] = "COMPLETED" -> "NOT_CANCELLABLE"
      [] OTHER -> "CANCELLED"

\* Defect: every Attempt of the Case is withdrawn.
WithdrawAllDefect(c, out) ==
    /\ out = CancelAssignmentOutcome(c)
    /\ IF out = "CANCELLED"
       THEN /\ attempt' = [a \in AttemptIds |->
                   IF a \in AttemptsOf(c) THEN [attempt[a] EXCEPT !.status = "WITHDRAWN"]
                   ELSE attempt[a]]
            /\ assignment' = [assignment EXCEPT ![c] = "CANCELLED"]
       ELSE UNCHANGED <<attempt, assignment>>
    /\ UNCHANGED <<completionOp, epoch, commit>>

\* Withdraws the pending offers and cancels the pre-work Assignment.
CancelAssignmentForCase(c, out) ==
    /\ out = CancelAssignmentOutcome(c)
    /\ IF out = "CANCELLED"
       THEN /\ attempt' = [a \in AttemptIds |->
                   IF a \in Pending(c) THEN [attempt[a] EXCEPT !.status = "WITHDRAWN"]
                   ELSE attempt[a]]
            /\ assignment' = [assignment EXCEPT ![c] = "CANCELLED"]
       ELSE UNCHANGED <<attempt, assignment>>
    /\ UNCHANGED <<completionOp, epoch, commit>>

-----------------------------------------------------------------------------
(* The atom by itself: any caller may invoke any operation at any time *)

CommitStep ==
    \/ \E op \in AttemptIds, c \in Cases, k \in Contractors :
       \E manual, reason \in BOOLEAN, replace \in AttemptIds \cup {NONE} :
       \E e \in {epoch, epoch + 1} :
           CommitBegin(op, c, k, manual, reason, replace, e,
                       CommitBeginOutcome(op, c, k, manual, reason, replace, e))
    \/ CommitReadAssignment
    \/ CommitReadPending(CommitPendingOutcome)
    \/ CommitWrite
    \/ CommitRollback

AcceptStep ==
    \E c \in Cases, a \in AttemptIds, k \in Contractors, op \in OpIds :
        \* allocation_attempts_acceptance_operation_id_idx
        /\ \A b \in AttemptIds \ {a} : attempt[b].acceptedBy # op
        /\ AcceptAllocationAttempt(c, a, k, op, AcceptOutcome(c, a, k, op))

BreachStep == \E a \in AttemptIds : BreachAllocationAttempt(a, BreachOutcome(a))

LifecycleStep ==
    \E c \in Cases :
        \/ MarkAssignmentInProgress(c, StartOutcome(c))
        \/ \E op \in OpIds : CompleteAssignment(c, op, CompleteOutcome(c, op))
        \/ CancelAssignmentForCase(c, CancelAssignmentOutcome(c))

AssignmentNext == CommitStep \/ AcceptStep \/ BreachStep \/ LifecycleStep

AssignmentSpec == AssignmentInit /\ [][AssignmentNext]_assignmentVars

-----------------------------------------------------------------------------
(* Properties *)

\* A Case has at most one open offer: automatic allocation, a manual override
\* and a breach replacement all pass through the same guard, although the guard
\* reads the Attempts without locking them.
AtMostOnePendingAttempt == \A c \in Cases : \A a, b \in Pending(c) : a = b

\* Over the whole life of a Case at most one Attempt is ever accepted, even
\* across breaches, replacements and a cancellation.
AtMostOneAcceptance ==
    \A a, b \in AttemptIds :
        (/\ attempt[a].case = attempt[b].case
         /\ attempt[a].acceptedBy # NONE /\ attempt[b].acceptedBy # NONE) => a = b

\* What an open commit read without a lock, as far as it is still so when it writes: the
\* operation is new, no offer is open but the one it replaces, and an Assignment it is
\* about to reopen was never accepted.  One that was read BREACHED may have been
\* cancelled since.  AtMostOnePendingAttempt and AtMostOneAcceptance rest on it.
CommitReadsHold ==
    commit # NoCommit =>
        LET c == commit.case IN
        /\ attempt[commit.op] = NoAttempt
        /\ commit.pc = "write" => Pending(c) \subseteq {commit.replace}
        /\ (commit.pc # "assignment" /\ commit.replace = NONE) =>
              /\ commit.saw = NONE => assignment[c] = NONE
              /\ commit.saw = "BREACHED" => assignment[c] \in {"BREACHED", "CANCELLED"}
              /\ commit.saw \in {NONE, "BREACHED"} => NeverAccepted(c)

\* "Guarded to BREACHED only - never clobber ACCEPTED/COMPLETED/CANCELLED"
\* (service.ts:729).  The guard is on what was read, the update that follows on the id
\* alone, and nothing keeps a cancellation from coming between: FALSE.
OnlyABreachIsReopened ==
    [][\A c \in Cases : assignment[c] \in {"ACCEPTED", "COMPLETED", "CANCELLED"}
                         => assignment'[c] # "PENDING_ACCEPTANCE"]_assignmentVars

\* Of that, what holding the epoch row secures: an Assignment that was accepted is not
\* offered again, although the commit that reopens a breached one has no lock on it, and
\* acceptances go on between what it reads and what it writes.
AcceptedIsNotReopened ==
    [][\A c \in Cases : assignment[c] \in {"ACCEPTED", "IN_PROGRESS", "COMPLETED"}
                         => assignment'[c] # "PENDING_ACCEPTANCE"]_assignmentVars

\* Work is never under way, nor finished, on an offer nobody accepted.
WorkFollowsAnAcceptance ==
    \A c \in Cases :
        assignment[c] \in {"ACCEPTED", "IN_PROGRESS", "COMPLETED"}
        => \E a \in AttemptsOf(c) : attempt[a].acceptedBy # NONE

\* Once work has started no allocation, breach or cancellation moves the
\* Assignment anywhere but to COMPLETED, and the completion that was recorded
\* stays recorded.
WorkIsNeverUndone ==
    [][\A c \in Cases :
          /\ assignment[c] = "IN_PROGRESS" => assignment'[c] \in {"IN_PROGRESS", "COMPLETED"}
          /\ assignment[c] = "COMPLETED" => assignment'[c] = "COMPLETED"
                                           /\ completionOp'[c] = completionOp[c]
      ]_assignmentVars
=============================================================================
