------------------------------ MODULE CaseAtom ------------------------------
(***************************************************************************)
(* The Case atom (apps/atoms/case/src/service.ts): the status of each Case,*)
(* the operations it has already applied (case_operations) and the Officer *)
(* Attention that is open for it.  Every transition locks the Case row and *)
(* is one action; a repeated operation id is claimed once and answered     *)
(* again without being applied again.                                      *)
(***************************************************************************)
EXTENDS Naturals, FiniteSets

CONSTANTS
    Cases,
    CaseOpIds,      \* operation ids of transitions of a Case
    NONE

VARIABLES
    caseStatus,     \* Case -> status, NONE before it is opened
    caseOps,        \* operation ids that were claimed
    caseCompletion, \* Case -> completion_operation_id
    attention       \* Case -> kinds of Officer Attention that are unresolved

caseVars == <<caseStatus, caseOps, caseCompletion, attention>>

CaseStatus == {"pending", "assigned", "in_progress", "pending_resident_input",
               "completed", "cancelled"}

AllocationAttentionKinds == {"NO_ELIGIBLE_CONTRACTOR", "ALLOCATION_FAILED"}
TerminalResolvedAttentionKinds ==
    AllocationAttentionKinds \cup {"ACCEPTANCE_SLA_BREACH", "WORK_START_FAILED",
                                   "MISSED_APPOINTMENT", "COMPLETION_FAILED"}

CaseTypeOK ==
    /\ caseStatus \in [Cases -> CaseStatus \cup {NONE}]
    /\ caseOps \subseteq CaseOpIds
    /\ caseCompletion \in [Cases -> CaseOpIds \cup {NONE}]
    /\ attention \in [Cases -> SUBSET TerminalResolvedAttentionKinds]

CaseInit ==
    /\ caseStatus = [c \in Cases |-> NONE]
    /\ caseOps = {}
    /\ caseCompletion = [c \in Cases |-> NONE]
    /\ attention = [c \in Cases |-> {}]

Terminal(c) == caseStatus[c] \in {"completed", "cancelled"}

Resolve(c, kinds) == attention' = [attention EXCEPT ![c] = @ \ kinds]
Raise(c, kinds) == attention' = [attention EXCEPT ![c] = @ \cup kinds]

\* The id of a Case is its primary key: a second opening fails the transaction.
CreateCase(c, op) ==
    /\ IF op \in caseOps THEN UNCHANGED <<caseStatus, caseOps>>
       ELSE /\ caseStatus[c] = NONE
            /\ caseOps' = caseOps \cup {op}
            /\ caseStatus' = [caseStatus EXCEPT ![c] = "pending"]
    /\ UNCHANGED <<caseCompletion, attention>>

\* One open record per Case and kind: a repeated call finds the first.  Whether
\* the Case has ended is not asked.
RaiseOfficerAttention(c, kind) ==
    /\ Raise(c, {kind})
    /\ UNCHANGED <<caseStatus, caseOps, caseCompletion>>

\* The transitions a running Case goes through: refused once the Case is
\* terminal, applied once per operation id, from any other status.
Transition(c, op, done, to, resolved, raised, out) ==
    /\ out = IF Terminal(c) THEN "CASE_TERMINAL" ELSE done
    /\ IF out = done /\ op \notin caseOps
       THEN /\ caseOps' = caseOps \cup {op}
            /\ caseStatus' = [caseStatus EXCEPT ![c] = to]
            /\ attention' = [attention EXCEPT ![c] = (@ \ resolved) \cup raised]
       ELSE UNCHANGED <<caseStatus, caseOps, attention>>
    /\ UNCHANGED caseCompletion

MarkCaseAssigned(c, op, out) ==
    Transition(c, op, "ASSIGNED", "assigned", AllocationAttentionKinds, {}, out)

MarkCaseInProgress(c, op, out) ==
    Transition(c, op, "IN_PROGRESS", "in_progress", {}, {}, out)

MarkCaseBreached(c, op, out) ==
    Transition(c, op, "PENDING", "pending", {}, {"ACCEPTANCE_SLA_BREACH"}, out)

MarkCaseNoAccess(c, op, out) ==
    Transition(c, op, "PENDING_RESIDENT_INPUT", "pending_resident_input", {}, {}, out)

\* Resolves the missed visit on every call, a repeated one included.
MarkCaseAppointmentReplaced(c, op, out) ==
    /\ out = IF Terminal(c) THEN "CASE_TERMINAL" ELSE "REPLACED"
    /\ IF out = "REPLACED"
       THEN /\ caseOps' = caseOps \cup {op}
            /\ caseStatus' = [caseStatus EXCEPT ![c] =
                   IF op \notin caseOps /\ @ = "pending_resident_input"
                   THEN "assigned" ELSE @]
            /\ Resolve(c, {"MISSED_APPOINTMENT"})
       ELSE UNCHANGED <<caseStatus, caseOps, attention>>
    /\ UNCHANGED caseCompletion

\* Appends the acceptance to the history, once per operation id, and closes
\* the breach it answers.  The status of the Case is neither read nor changed.
RecordAllocationAcceptance(c, op) ==
    /\ caseOps' = caseOps \cup {op}
    /\ IF op \in caseOps THEN UNCHANGED attention
       ELSE Resolve(c, {"ACCEPTANCE_SLA_BREACH"})
    /\ UNCHANGED <<caseStatus, caseCompletion>>

CompleteCaseOutcome(c, op) ==
    CASE caseStatus[c] = "completed" /\ caseCompletion[c] = op -> "ALREADY_COMPLETED"
      [] caseStatus[c] = "completed" /\ caseCompletion[c] # op -> "CASE_TERMINAL"
      [] caseStatus[c] = "cancelled" -> "CASE_TERMINAL"
      [] caseStatus[c] = "in_progress" -> "COMPLETED"
      [] OTHER -> "NOT_IN_PROGRESS"

CompleteCase(c, op, out) ==
    /\ out = CompleteCaseOutcome(c, op)
    /\ CASE out = "COMPLETED" ->
              /\ caseStatus' = [caseStatus EXCEPT ![c] = "completed"]
              /\ caseCompletion' = [caseCompletion EXCEPT ![c] = op]
              /\ Resolve(c, TerminalResolvedAttentionKinds)
         [] out = "ALREADY_COMPLETED" ->
              /\ Resolve(c, {"COMPLETION_FAILED"})
              /\ UNCHANGED <<caseStatus, caseCompletion>>
         [] OTHER -> UNCHANGED <<caseStatus, caseCompletion, attention>>
    /\ UNCHANGED caseOps

CancelCaseOutcome(c) ==
    CASE caseStatus[c] = "cancelled" -> "ALREADY_CANCELLED"
      [] caseStatus[c] \in {"completed", "in_progress"} -> "NOT_CANCELLABLE"
      [] OTHER -> "CANCELLED"

CancelCase(c, op, out) ==
    /\ out = CancelCaseOutcome(c)
    /\ IF out = "CANCELLED"
       THEN /\ op \notin caseOps
            /\ caseOps' = caseOps \cup {op}
            /\ caseStatus' = [caseStatus EXCEPT ![c] = "cancelled"]
            /\ Resolve(c, TerminalResolvedAttentionKinds)
       ELSE UNCHANGED <<caseStatus, caseOps, attention>>
    /\ UNCHANGED caseCompletion
=============================================================================
