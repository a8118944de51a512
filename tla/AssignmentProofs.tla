-------------------------- MODULE AssignmentProofs --------------------------
(***************************************************************************)
(* What AssignmentAtom promises for every set of Cases, Contractors,       *)
(* Attempts and operation ids: type correctness, that a Case has one open  *)
(* offer and one acceptance at most, that what a commit read without a     *)
(* lock is still so when it writes, and that started work is never undone. *)
(***************************************************************************)
EXTENDS AssignmentAtom, TLAPS

-----------------------------------------------------------------------------
(* Type correctness.  CommitWrite withdraws a row by id alone: that the row  *)
(* is there is what CommitReadPending saw, and nothing deletes Attempts.     *)

ReplacedExists ==
    (commit.pc = "write" /\ commit.replace # NONE)
    => attempt[commit.replace] # NoAttempt

TypeInv == AssignmentTypeOK /\ ReplacedExists

\* An Assignment that exists has a status, which NULL is not.
LEMMA StatusIsKnown ==
    /\ "PENDING_ACCEPTANCE" # NONE /\ "ACCEPTED" # NONE /\ "IN_PROGRESS" # NONE
    /\ "BREACHED" # NONE /\ "CANCELLED" # NONE /\ "COMPLETED" # NONE
  BY NoneIsNull DEF AssignmentStatus

\* A row whose status changes is still a row.
LEMMA StatusChange ==
    ASSUME NEW r \in AttemptRow, NEW s \in AttemptStatus
    PROVE  /\ [r EXCEPT !.status = s] \in AttemptRow
           /\ [r EXCEPT !.status = s] # NoAttempt
  BY DEF AttemptRow, NoAttempt, AttemptStatus

\* An Attempt row is not the missing row.
LEMMA RowIsPresent == ASSUME NEW r \in AttemptRow PROVE r # NoAttempt
  BY DEF AttemptRow, NoAttempt, AttemptStatus

\* A pending Attempt is a row.
LEMMA PendingIsRow ==
    ASSUME AssignmentTypeOK, NEW c, NEW a \in Pending(c)
    PROVE  /\ a \in AttemptIds /\ attempt[a] \in AttemptRow
           /\ attempt[a].case = c /\ attempt[a].status = "PENDING_ACCEPTANCE"
<1>1. a \in AttemptIds /\ attempt[a].case = c /\ attempt[a].status = "PENDING_ACCEPTANCE"
  BY DEF Pending, AttemptsOf
<1>2. attempt[a] \in AttemptRow \cup {NoAttempt}
  BY <1>1 DEF AssignmentTypeOK
<1> QED BY <1>1, <1>2 DEF NoAttempt

\* The open transaction's fields.
LEMMA OpenCommit ==
    ASSUME AssignmentTypeOK, commit # NoCommit
    PROVE  /\ commit \in CommitTx
           /\ commit.op \in AttemptIds /\ commit.case \in Cases
           /\ commit.contractor \in Contractors
           /\ commit.replace \in AttemptIds \cup {NONE}
           /\ commit.saw \in AssignmentStatus \cup {NONE}
           /\ commit.pc \in {"assignment", "pending", "write"}
           /\ assignment[commit.case] \in AssignmentStatus \cup {NONE}
           /\ attempt[commit.op] \in AttemptRow \cup {NoAttempt}
<1>1. commit \in CommitTx
  BY DEF AssignmentTypeOK
<1>2. commit.op \in AttemptIds /\ commit.case \in Cases
  BY <1>1 DEF CommitTx
<1> QED BY <1>1, <1>2 DEF CommitTx, AssignmentTypeOK

\* Every operation, and every statement of a commit, keeps the types.
LEMMA TypeStep == TypeInv /\ [AssignmentNext]_assignmentVars => TypeInv'
<1> SUFFICES ASSUME TypeInv, [AssignmentNext]_assignmentVars
             PROVE  AssignmentTypeOK' /\ ReplacedExists'
  BY DEF TypeInv
<1>0. AssignmentTypeOK /\ ReplacedExists
  BY DEF TypeInv
<1>1. CASE CommitStep
  <2>1. ASSUME NEW op \in AttemptIds, NEW c \in Cases, NEW k \in Contractors,
               NEW manual, NEW reason, NEW replace \in AttemptIds \cup {NONE},
               NEW e, NEW out, CommitBegin(op, c, k, manual, reason, replace, e, out)
        PROVE  AssignmentTypeOK' /\ ReplacedExists'
    <3>1. commit' \in CommitTx \cup {NoCommit} /\ commit'.pc # "write"
      BY <2>1 DEF CommitBegin, CommitTx, NoCommit
    <3> QED BY <1>0, <2>1, <3>1 DEF CommitBegin, AssignmentTypeOK, ReplacedExists
  <2>2. CASE CommitReadAssignment
    <3>1. commit # NoCommit
      BY <2>2 DEF CommitReadAssignment, NoCommit
    <3>2. commit' \in CommitTx /\ commit'.pc = "pending"
      BY <1>0, <2>2, <3>1, OpenCommit DEF CommitReadAssignment, CommitTx
    <3> QED BY <1>0, <2>2, <3>2 DEF CommitReadAssignment, AssignmentTypeOK, ReplacedExists
  <2>3. ASSUME NEW out, CommitReadPending(out)
        PROVE  AssignmentTypeOK' /\ ReplacedExists'
    <3>1. commit # NoCommit
      BY <2>3 DEF CommitReadPending, NoCommit
    <3>2. commit' \in CommitTx \cup {NoCommit}
      BY <1>0, <2>3, <3>1, OpenCommit DEF CommitReadPending, CommitTx
    <3>3. ReplacedExists'
      <4> SUFFICES ASSUME commit'.pc = "write", commit'.replace # NONE
                   PROVE  attempt'[commit'.replace] # NoAttempt
        BY DEF ReplacedExists
      <4>1. out = "CONTINUE" /\ commit' = [commit EXCEPT !.pc = "write"]
        BY <2>3 DEF CommitReadPending, NoCommit
      <4>2. commit'.replace = commit.replace
        BY <1>0, <3>1, <4>1, OpenCommit DEF CommitTx
      <4>3. commit.replace \in Pending(commit.case)
        BY <2>3, <4>1, <4>2 DEF CommitReadPending, CommitPendingOutcome
      <4>4. attempt[commit.replace] # NoAttempt
        BY <1>0, <4>3, PendingIsRow, RowIsPresent
      <4> QED BY <2>3, <4>2, <4>4 DEF CommitReadPending
    <3> QED BY <1>0, <2>3, <3>2, <3>3 DEF CommitReadPending, AssignmentTypeOK
  <2>4. CASE CommitWrite
    <3>1. commit # NoCommit /\ commit.pc = "write"
      BY <2>4 DEF CommitWrite, NoCommit
    <3>2. attempt' \in [AttemptIds -> AttemptRow \cup {NoAttempt}]
      <4> SUFFICES ASSUME NEW a \in AttemptIds
                   PROVE  attempt'[a] \in AttemptRow \cup {NoAttempt}
        BY <2>4 DEF CommitWrite
      <4>1. CASE a = commit.op
        BY <1>0, <2>4, <3>1, <4>1, OpenCommit DEF CommitWrite, AttemptRow, AttemptStatus
      <4>2. CASE a # commit.op /\ a = commit.replace
        <5>1. commit.replace # NONE
          BY <4>2, NoneIsNull
        <5>2. attempt[a] \in AttemptRow
          BY <1>0, <3>1, <4>2, <5>1 DEF ReplacedExists, AssignmentTypeOK
        <5>3. attempt'[a] = [attempt[a] EXCEPT !.status = "WITHDRAWN"]
          BY <2>4, <4>2 DEF CommitWrite
        <5> QED BY <5>2, <5>3, StatusChange DEF AttemptStatus
      <4>3. CASE a # commit.op /\ a # commit.replace
        BY <1>0, <2>4, <4>3 DEF CommitWrite, AssignmentTypeOK
      <4> QED BY <4>1, <4>2, <4>3
    <3>3. assignment' \in [Cases -> AssignmentStatus \cup {NONE}]
      BY <1>0, <2>4 DEF CommitWrite, AssignmentTypeOK, AssignmentStatus
    <3> QED BY <1>0, <2>4, <3>2, <3>3
            DEF CommitWrite, AssignmentTypeOK, ReplacedExists, NoCommit
  <2>5. CASE CommitRollback
    BY <1>0, <2>5 DEF CommitRollback, AssignmentTypeOK, ReplacedExists, NoCommit
  <2> QED BY <1>1, <2>1, <2>2, <2>3, <2>4, <2>5 DEF CommitStep
<1>2. ASSUME NEW c \in Cases, NEW a \in AttemptIds, NEW k \in Contractors,
             NEW op \in OpIds, NEW out, AcceptAllocationAttempt(c, a, k, op, out)
      PROVE  AssignmentTypeOK' /\ ReplacedExists'
  <2>1. CASE out = "ACCEPTED"
    <3>1. attempt[a].status = "PENDING_ACCEPTANCE"
      BY <1>2, <2>1 DEF AcceptAllocationAttempt, AcceptOutcome
    <3>2. attempt[a] \in AttemptRow
      BY <1>0, <3>1 DEF AssignmentTypeOK, NoAttempt
    <3>3. [attempt[a] EXCEPT !.status = "ACCEPTED", !.acceptedBy = op] \in AttemptRow
      BY <3>2 DEF AttemptRow, AttemptStatus
    <3>4. attempt' = [attempt EXCEPT ![a] =
                         [attempt[a] EXCEPT !.status = "ACCEPTED", !.acceptedBy = op]]
      BY <1>0, <1>2, <2>1 DEF AcceptAllocationAttempt, AssignmentTypeOK
    <3>5. /\ attempt' \in [AttemptIds -> AttemptRow \cup {NoAttempt}]
          /\ \A b \in AttemptIds : attempt[b] # NoAttempt => attempt'[b] # NoAttempt
      BY <1>0, <3>3, <3>4, RowIsPresent DEF AssignmentTypeOK
    <3>6. assignment' \in [Cases -> AssignmentStatus \cup {NONE}]
      BY <1>0, <1>2, <2>1 DEF AcceptAllocationAttempt, AssignmentTypeOK, AssignmentStatus
    <3>7. ReplacedExists'
      BY <1>0, <1>2, <3>5, OpenCommit
         DEF AcceptAllocationAttempt, ReplacedExists, NoCommit
    <3> QED BY <1>0, <1>2, <3>5, <3>6, <3>7 DEF AcceptAllocationAttempt, AssignmentTypeOK
  <2>2. CASE out # "ACCEPTED"
    BY <1>0, <1>2, <2>2 DEF AcceptAllocationAttempt, AssignmentTypeOK, ReplacedExists
  <2> QED BY <2>1, <2>2
<1>3. ASSUME NEW a \in AttemptIds, NEW out, BreachAllocationAttempt(a, out)
      PROVE  AssignmentTypeOK' /\ ReplacedExists'
  <2>1. CASE out = "BREACHED"
    <3>1. attempt[a] \in AttemptRow
      BY <1>0, <1>3 DEF BreachAllocationAttempt, AssignmentTypeOK
    <3>2. attempt' = [attempt EXCEPT ![a] = [attempt[a] EXCEPT !.status = "BREACHED"]]
      BY <1>0, <1>3, <2>1 DEF BreachAllocationAttempt, AssignmentTypeOK
    <3>3. /\ attempt' \in [AttemptIds -> AttemptRow \cup {NoAttempt}]
          /\ \A b \in AttemptIds : attempt[b] # NoAttempt => attempt'[b] # NoAttempt
      BY <1>0, <3>1, <3>2, StatusChange DEF AssignmentTypeOK, AttemptStatus
    <3>4. assignment' \in [Cases -> AssignmentStatus \cup {NONE}]
      BY <1>0, <1>3, <2>1 DEF BreachAllocationAttempt, AssignmentTypeOK, AssignmentStatus
    <3>5. ReplacedExists'
      BY <1>0, <1>3, <3>3, OpenCommit
         DEF BreachAllocationAttempt, ReplacedExists, NoCommit
    <3> QED BY <1>0, <1>3, <3>3, <3>4, <3>5 DEF BreachAllocationAttempt, AssignmentTypeOK
  <2>2. CASE out # "BREACHED"
    BY <1>0, <1>3, <2>2 DEF BreachAllocationAttempt, AssignmentTypeOK, ReplacedExists
  <2> QED BY <2>1, <2>2
<1>4. ASSUME NEW c \in Cases, NEW out, MarkAssignmentInProgress(c, out)
      PROVE  AssignmentTypeOK' /\ ReplacedExists'
  BY <1>0, <1>4 DEF MarkAssignmentInProgress, AssignmentTypeOK, AssignmentStatus, ReplacedExists
<1>5. ASSUME NEW c \in Cases, NEW op \in OpIds, NEW out, CompleteAssignment(c, op, out)
      PROVE  AssignmentTypeOK' /\ ReplacedExists'
  BY <1>0, <1>5 DEF CompleteAssignment, AssignmentTypeOK, AssignmentStatus, ReplacedExists
<1>6. ASSUME NEW c \in Cases, NEW out, CancelAssignmentForCase(c, out)
      PROVE  AssignmentTypeOK' /\ ReplacedExists'
  <2>1. CASE out = "CANCELLED"
    <3>1. ASSUME NEW a \in AttemptIds
          PROVE  /\ attempt'[a] \in AttemptRow \cup {NoAttempt}
                 /\ attempt[a] # NoAttempt => attempt'[a] # NoAttempt
      <4>1. CASE a \in Pending(c)
        <5>1. attempt[a] \in AttemptRow
          BY <1>0, <4>1, PendingIsRow
        <5>2. attempt'[a] = [attempt[a] EXCEPT !.status = "WITHDRAWN"]
          BY <1>6, <2>1, <4>1 DEF CancelAssignmentForCase
        <5> QED BY <5>1, <5>2, StatusChange DEF AttemptStatus
      <4>2. CASE a \notin Pending(c)
        BY <1>0, <1>6, <2>1, <4>2 DEF CancelAssignmentForCase, AssignmentTypeOK
      <4> QED BY <4>1, <4>2
    <3>2. attempt' \in [AttemptIds -> AttemptRow \cup {NoAttempt}]
      BY <1>6, <2>1, <3>1 DEF CancelAssignmentForCase
    <3>3. assignment' \in [Cases -> AssignmentStatus \cup {NONE}]
      BY <1>0, <1>6, <2>1 DEF CancelAssignmentForCase, AssignmentTypeOK, AssignmentStatus
    <3>4. ReplacedExists'
      BY <1>0, <1>6, <3>1, OpenCommit DEF CancelAssignmentForCase, ReplacedExists, NoCommit
    <3> QED BY <1>0, <1>6, <3>2, <3>3, <3>4 DEF CancelAssignmentForCase, AssignmentTypeOK
  <2>2. CASE out # "CANCELLED"
    BY <1>0, <1>6, <2>2 DEF CancelAssignmentForCase, AssignmentTypeOK, ReplacedExists
  <2> QED BY <2>1, <2>2
<1>7. CASE UNCHANGED assignmentVars
  BY <1>0, <1>7 DEF assignmentVars, AssignmentTypeOK, ReplacedExists
<1> QED BY <1>1, <1>2, <1>3, <1>4, <1>5, <1>6, <1>7
        DEF AssignmentNext, AcceptStep, BreachStep, LifecycleStep

\* It holds of an empty atom.
LEMMA TypeInit == AssignmentInit => TypeInv
  BY DEF AssignmentInit, TypeInv, AssignmentTypeOK, ReplacedExists, NoCommit

\* The typing invariant holds throughout.
LEMMA TypeInvariant == AssignmentSpec => []TypeInv
  BY TypeInit, TypeStep, PTL DEF AssignmentSpec

\* The rows, the epoch and the open transaction keep the shape the schema gives
\* them, whatever operations interleave with a commit.
THEOREM TypeCorrect == AssignmentSpec => []AssignmentTypeOK
<1>1. TypeInv => AssignmentTypeOK
  BY DEF TypeInv
<1> QED BY <1>1, TypeInvariant, PTL

-----------------------------------------------------------------------------
(* The safety invariant.  What is to be shown is not inductive alone: that   *)
(* an acceptance can only be the first rests on an Assignment that is still  *)
(* open never having been accepted, and that a commit reopens no other rests *)
(* on what it read of the Assignment being still true when it writes.        *)

OpenIsNeverAccepted ==
    \A c \in Cases : assignment[c] \in {NONE, "PENDING_ACCEPTANCE", "BREACHED"}
                     => NeverAccepted(c)

SafetyInv ==
    /\ AtMostOnePendingAttempt
    /\ AtMostOneAcceptance
    /\ OpenIsNeverAccepted
    /\ CommitReadsHold
    /\ WorkFollowsAnAcceptance

\* A step that offers nothing and accepts nothing: statuses may change, but no
\* Attempt appears, becomes pending or is accepted.
Quiet ==
    \A a \in AttemptIds :
        /\ attempt'[a].case = attempt[a].case
        /\ attempt'[a].acceptedBy = attempt[a].acceptedBy
        /\ attempt'[a].status = "PENDING_ACCEPTANCE" => attempt[a].status = "PENDING_ACCEPTANCE"
        /\ attempt[a] = NoAttempt => attempt'[a] = NoAttempt

\* What a quiet step leaves as it was.
LEMMA QuietStep ==
    ASSUME Quiet
    PROVE  /\ \A c : Pending(c)' \subseteq Pending(c)
           /\ \A c : NeverAccepted(c)' <=> NeverAccepted(c)
           /\ \A c : (\E a \in AttemptsOf(c) : attempt[a].acceptedBy # NONE)
                    => (\E a \in AttemptsOf(c) : attempt[a].acceptedBy # NONE)'
           /\ AtMostOnePendingAttempt => AtMostOnePendingAttempt'
           /\ AtMostOneAcceptance => AtMostOneAcceptance'
<1>1. \A c : AttemptsOf(c)' = AttemptsOf(c)
  BY DEF Quiet, AttemptsOf
<1>2. \A c : Pending(c)' \subseteq Pending(c)
  BY <1>1 DEF Quiet, Pending, AttemptsOf
<1>3. \A c : NeverAccepted(c)' <=> NeverAccepted(c)
  BY <1>1 DEF Quiet, NeverAccepted, AttemptsOf
<1>4. \A c : (\E a \in AttemptsOf(c) : attempt[a].acceptedBy # NONE)
            => (\E a \in AttemptsOf(c) : attempt[a].acceptedBy # NONE)'
  BY <1>1 DEF Quiet, AttemptsOf
<1>5. AtMostOnePendingAttempt => AtMostOnePendingAttempt'
  BY <1>2 DEF AtMostOnePendingAttempt
<1>6. AtMostOneAcceptance => AtMostOneAcceptance'
  BY DEF Quiet, AtMostOneAcceptance
<1> QED BY <1>2, <1>3, <1>4, <1>5, <1>6

\* A quiet step that leaves the open commit alone preserves the invariant if it
\* moves Assignments only forward: none is created or reopened, one that was
\* read BREACHED can only be cancelled, and work begins only on an accepted one.
LEMMA QuietForward ==
    ASSUME TypeInv, SafetyInv, Quiet, UNCHANGED commit,
           \A c \in Cases :
              /\ assignment'[c] = NONE <=> assignment[c] = NONE
              /\ assignment'[c] = "PENDING_ACCEPTANCE" => assignment[c] = "PENDING_ACCEPTANCE"
              /\ assignment'[c] = "BREACHED" => assignment[c] \in {"PENDING_ACCEPTANCE", "BREACHED"}
              /\ assignment[c] \in {"BREACHED", "CANCELLED"}
                    => assignment'[c] \in {"BREACHED", "CANCELLED"}
              /\ assignment'[c] \in {"ACCEPTED", "IN_PROGRESS", "COMPLETED"}
                    => assignment[c] \in {"ACCEPTED", "IN_PROGRESS", "COMPLETED"}
    PROVE  SafetyInv'
<1>1. AtMostOnePendingAttempt' /\ AtMostOneAcceptance'
  BY QuietStep DEF SafetyInv
<1>2. OpenIsNeverAccepted'
  BY QuietStep DEF SafetyInv, OpenIsNeverAccepted
<1>3. WorkFollowsAnAcceptance'
  BY QuietStep DEF SafetyInv, WorkFollowsAnAcceptance
<1>4. CommitReadsHold'
  <2> SUFFICES ASSUME commit # NoCommit
               PROVE  CommitReadsHold'
    BY DEF CommitReadsHold
  <2>1. commit.case \in Cases /\ commit.op \in AttemptIds
    BY OpenCommit DEF TypeInv
  <2>2. attempt'[commit.op] = NoAttempt
    BY <2>1 DEF SafetyInv, CommitReadsHold, Quiet
  <2>3. Pending(commit.case)' \subseteq Pending(commit.case)
    BY QuietStep
  <2>4. NeverAccepted(commit.case)' <=> NeverAccepted(commit.case)
    BY QuietStep
  <2> QED BY <2>1, <2>2, <2>3, <2>4 DEF SafetyInv, CommitReadsHold
<1> QED BY <1>1, <1>2, <1>3, <1>4 DEF SafetyInv

\* The writes of a commit: the offer it inserts is the only open one, and the
\* Assignment it reopens was never accepted.
LEMMA WriteIsSafe == ASSUME TypeInv, SafetyInv, CommitWrite PROVE SafetyInv'
<1> DEFINE c == commit.case
<1>1. AssignmentTypeOK /\ commit # NoCommit /\ commit.pc = "write"
  BY DEF TypeInv, CommitWrite, NoCommit
<1>2. /\ commit.op \in AttemptIds /\ c \in Cases
      /\ attempt[commit.op] = NoAttempt /\ Pending(c) \subseteq {commit.replace}
  BY <1>1, OpenCommit DEF SafetyInv, CommitReadsHold
<1>3. ASSUME NEW a \in AttemptIds, a # commit.op
      PROVE  /\ attempt'[a].case = attempt[a].case
             /\ attempt'[a].acceptedBy = attempt[a].acceptedBy
             /\ attempt'[a].status = "PENDING_ACCEPTANCE"
                   => attempt[a].status = "PENDING_ACCEPTANCE" /\ a # commit.replace
  BY <1>1, <1>3 DEF CommitWrite, AssignmentTypeOK, AttemptRow, NoAttempt
<1>4. attempt'[commit.op].case = c /\ attempt'[commit.op].acceptedBy = NONE
  BY <1>2 DEF CommitWrite
<1>5. attempt[commit.op].acceptedBy = NONE /\ attempt[commit.op].case = NONE
  BY <1>2 DEF NoAttempt
<1>6. AtMostOnePendingAttempt'
  <2> SUFFICES ASSUME NEW d \in Cases, NEW a \in Pending(d)', NEW b \in Pending(d)'
               PROVE  a = b
    BY DEF AtMostOnePendingAttempt
  <2>1. /\ a \in AttemptIds /\ attempt'[a].case = d
        /\ attempt'[a].status = "PENDING_ACCEPTANCE"
        /\ b \in AttemptIds /\ attempt'[b].case = d
        /\ attempt'[b].status = "PENDING_ACCEPTANCE"
    BY DEF Pending, AttemptsOf
  <2>2. \A x \in {a, b} : x # commit.op => x \in Pending(d) /\ x # commit.replace
    BY <1>3, <2>1 DEF Pending, AttemptsOf
  <2>3. CASE d = c
    BY <1>2, <2>2, <2>3
  <2>4. CASE d # c
    BY <1>4, <2>1, <2>2, <2>4 DEF SafetyInv, AtMostOnePendingAttempt
  <2> QED BY <2>3, <2>4
<1>7. AtMostOneAcceptance'
  BY <1>3, <1>4 DEF SafetyInv, AtMostOneAcceptance
<1>8. \A d \in Cases : NeverAccepted(d) => NeverAccepted(d)'
  BY <1>3, <1>4 DEF NeverAccepted, AttemptsOf
<1>9. ASSUME NEW d \in Cases PROVE assignment'[d] = assignment[d] \/ 
             (d = c /\ assignment'[d] = "PENDING_ACCEPTANCE" /\ NeverAccepted(d))
  BY <1>1, <1>2 DEF CommitWrite, SafetyInv, CommitReadsHold, AssignmentTypeOK
<1>10. OpenIsNeverAccepted'
  BY <1>8, <1>9 DEF SafetyInv, OpenIsNeverAccepted
<1>11. WorkFollowsAnAcceptance'
  <2> SUFFICES ASSUME NEW d \in Cases,
                      assignment'[d] \in {"ACCEPTED", "IN_PROGRESS", "COMPLETED"}
               PROVE  \E a \in AttemptsOf(d)' : attempt'[a].acceptedBy # NONE
    BY DEF WorkFollowsAnAcceptance
  <2>1. assignment'[d] = assignment[d]
    BY <1>9
  <2>2. PICK a \in AttemptsOf(d) : attempt[a].acceptedBy # NONE
    BY <2>1 DEF SafetyInv, WorkFollowsAnAcceptance
  <2> QED BY <1>3, <1>5, <2>2 DEF AttemptsOf
<1>12. CommitReadsHold'
  BY DEF CommitWrite, CommitReadsHold
<1> QED BY <1>6, <1>7, <1>10, <1>11, <1>12 DEF SafetyInv

\* An acceptance finds an Assignment that is open, so it is the first; it cannot
\* concern a commit that is about to create or reopen that Assignment.
LEMMA AcceptIsSafe ==
    ASSUME TypeInv, SafetyInv, NEW c \in Cases, NEW a \in AttemptIds, NEW k,
           NEW op \in OpIds, NEW out, AcceptAllocationAttempt(c, a, k, op, out)
    PROVE  SafetyInv'
<1>1. AssignmentTypeOK
  BY DEF TypeInv
<1>2. CASE out = "ACCEPTED"
  <2>1. /\ attempt[a].case = c /\ attempt[a].status = "PENDING_ACCEPTANCE"
        /\ assignment[c] = "PENDING_ACCEPTANCE"
        /\ assignment' = [assignment EXCEPT ![c] = "ACCEPTED"]
        /\ UNCHANGED commit
    BY <1>2 DEF AcceptAllocationAttempt, AcceptOutcome
  <2>2. NeverAccepted(c)
    BY <2>1 DEF SafetyInv, OpenIsNeverAccepted
  <2>3. \A b \in AttemptIds :
           /\ attempt'[b].case = attempt[b].case
           /\ b # a => attempt'[b] = attempt[b]
    BY <1>1, <1>2, <2>1 DEF AcceptAllocationAttempt, AssignmentTypeOK, AttemptRow, NoAttempt
  <2>4. attempt'[a].status = "ACCEPTED" /\ attempt'[a].acceptedBy = op
    BY <1>1, <1>2, <2>1 DEF AcceptAllocationAttempt, AssignmentTypeOK, AttemptRow, NoAttempt
  <2>5. \A d : Pending(d)' \subseteq Pending(d)
    BY <2>3, <2>4 DEF Pending, AttemptsOf
  <2>6. AtMostOnePendingAttempt'
    BY <2>5 DEF SafetyInv, AtMostOnePendingAttempt
  <2>7. AtMostOneAcceptance'
    BY <2>1, <2>2, <2>3 DEF SafetyInv, AtMostOneAcceptance, NeverAccepted, AttemptsOf
  <2>8. \A d : d # c => (NeverAccepted(d)' <=> NeverAccepted(d))
    BY <2>1, <2>3 DEF NeverAccepted, AttemptsOf
  <2>9. OpenIsNeverAccepted'
    BY <1>1, <2>1, <2>8, NoneIsNull, StatusIsKnown DEF SafetyInv, OpenIsNeverAccepted, AssignmentTypeOK
  <2>10. WorkFollowsAnAcceptance'
    <3> SUFFICES ASSUME NEW d \in Cases,
                        assignment'[d] \in {"ACCEPTED", "IN_PROGRESS", "COMPLETED"}
                 PROVE  \E b \in AttemptsOf(d)' : attempt'[b].acceptedBy # NONE
      BY DEF WorkFollowsAnAcceptance
    <3>1. CASE d = c
      BY <2>1, <2>3, <2>4, <3>1, NoneIsNull DEF AttemptsOf
    <3>2. CASE d # c
      <4>1. assignment[d] \in {"ACCEPTED", "IN_PROGRESS", "COMPLETED"}
        BY <1>1, <2>1, <3>2 DEF AssignmentTypeOK
      <4>2. PICK b \in AttemptsOf(d) : attempt[b].acceptedBy # NONE
        BY <4>1 DEF SafetyInv, WorkFollowsAnAcceptance
      <4> QED BY <2>1, <2>3, <3>2, <4>2 DEF AttemptsOf
    <3> QED BY <3>1, <3>2
  <2>11. CommitReadsHold'
    <3> SUFFICES ASSUME commit # NoCommit
                 PROVE  CommitReadsHold'
      BY <2>1 DEF CommitReadsHold
    <3>1. /\ commit.op \in AttemptIds /\ commit.op # a
          /\ attempt'[commit.op] = NoAttempt
      BY <1>1, <2>1, <2>3, OpenCommit DEF SafetyInv, CommitReadsHold, NoAttempt
    <3>2. CASE commit.case = c
      BY <2>1, <2>5, <3>1, <3>2, NoneIsNull, StatusIsKnown DEF SafetyInv, CommitReadsHold
    <3>3. CASE commit.case # c
      BY <1>1, <2>1, <2>5, <2>8, <3>1, <3>3, OpenCommit
         DEF SafetyInv, CommitReadsHold, AssignmentTypeOK
    <3> QED BY <3>2, <3>3
  <2> QED BY <2>6, <2>7, <2>9, <2>10, <2>11 DEF SafetyInv
<1>3. CASE out # "ACCEPTED"
  <2>1. Quiet /\ UNCHANGED <<assignment, commit>>
    BY <1>3 DEF AcceptAllocationAttempt, Quiet
  <2> QED BY <2>1, QuietForward
<1> QED BY <1>2, <1>3

\* Every operation, and every statement of a commit, preserves the invariant.
LEMMA SafetyStep == TypeInv /\ SafetyInv /\ [AssignmentNext]_assignmentVars => SafetyInv'
<1> SUFFICES ASSUME TypeInv, SafetyInv, [AssignmentNext]_assignmentVars
             PROVE  SafetyInv'
  OBVIOUS
<1>0. AssignmentTypeOK
  BY DEF TypeInv
\* Steps of the open commit before it writes: no row changes.
<1>1. ASSUME UNCHANGED <<assignment, attempt>>, CommitReadsHold'
      PROVE  SafetyInv'
  <2>1. Quiet
    BY <1>1 DEF Quiet
  <2>2. AtMostOnePendingAttempt' /\ AtMostOneAcceptance'
    BY <2>1, QuietStep DEF SafetyInv
  <2>3. OpenIsNeverAccepted' /\ WorkFollowsAnAcceptance'
    BY <1>1, <2>1, QuietStep DEF SafetyInv, OpenIsNeverAccepted, WorkFollowsAnAcceptance
  <2> QED BY <1>1, <2>2, <2>3 DEF SafetyInv
<1>2. CASE CommitStep
  <2>1. ASSUME NEW op \in AttemptIds, NEW c \in Cases, NEW k \in Contractors,
               NEW manual, NEW reason, NEW replace \in AttemptIds \cup {NONE},
               NEW e, NEW out, CommitBegin(op, c, k, manual, reason, replace, e, out)
        PROVE  SafetyInv'
    <3>1. out = "CONTINUE" => attempt[op] = NoAttempt
      BY <2>1 DEF CommitBegin, CommitBeginOutcome
    <3>2. /\ out = "CONTINUE" => /\ commit'.op = op /\ commit'.replace = replace
                                 /\ commit'.pc = IF replace = NONE THEN "assignment"
                                                 ELSE "pending"
          /\ out # "CONTINUE" => commit' = NoCommit
      BY <2>1 DEF CommitBegin
    <3>3. UNCHANGED <<assignment, attempt>>
      BY <2>1 DEF CommitBegin
    <3>4. CommitReadsHold'
      BY <3>1, <3>2, <3>3 DEF CommitReadsHold, NoAttempt, NoCommit
    <3> QED BY <1>1, <3>3, <3>4
  <2>2. CASE CommitReadAssignment
    <3>1. commit # NoCommit /\ UNCHANGED <<assignment, attempt>>
      BY <2>2 DEF CommitReadAssignment, NoCommit
    <3>2. /\ commit.op \in AttemptIds /\ commit.case \in Cases
          /\ commit'.op = commit.op /\ commit'.case = commit.case
          /\ commit'.pc = "pending" /\ commit'.saw = assignment[commit.case]
      BY <1>0, <2>2, <3>1, OpenCommit DEF CommitReadAssignment, CommitTx
    <3>3. assignment[commit.case] \in {NONE, "BREACHED"} => NeverAccepted(commit.case)
      BY <3>2 DEF SafetyInv, OpenIsNeverAccepted
    <3>4. CommitReadsHold'
      BY <3>1, <3>2, <3>3 DEF SafetyInv, CommitReadsHold, NeverAccepted, AttemptsOf
    <3> QED BY <1>1, <3>1, <3>4
  <2>3. ASSUME NEW out, CommitReadPending(out) PROVE SafetyInv'
    <3>1. /\ commit # NoCommit /\ commit.pc = "pending"
          /\ UNCHANGED <<assignment, attempt>>
      BY <2>3 DEF CommitReadPending, NoCommit
    <3>2. CASE out = "CONTINUE"
      <4>1. /\ commit'.op = commit.op /\ commit'.case = commit.case
            /\ commit'.pc = "write" /\ commit'.replace = commit.replace
            /\ commit'.saw = commit.saw /\ commit.case \in Cases
        BY <1>0, <2>3, <3>1, <3>2, OpenCommit DEF CommitReadPending, CommitTx
      <4>2. Pending(commit.case) \subseteq {commit.replace}
        BY <2>3, <3>2, <4>1 DEF CommitReadPending, CommitPendingOutcome, SafetyInv,
                              AtMostOnePendingAttempt
      <4>3. CommitReadsHold'
        BY <3>1, <4>1, <4>2 DEF SafetyInv, CommitReadsHold, NeverAccepted,
                                Pending, AttemptsOf
      <4> QED BY <1>1, <3>1, <4>3
    <3>3. CASE out # "CONTINUE"
      <4>1. CommitReadsHold'
        BY <2>3, <3>3 DEF CommitReadPending, CommitReadsHold
      <4> QED BY <1>1, <3>1, <4>1
    <3> QED BY <3>2, <3>3
  <2>4. CASE CommitWrite
    BY <1>0, <2>4, WriteIsSafe
  <2>5. CASE CommitRollback
    <3>1. CommitReadsHold' /\ UNCHANGED <<assignment, attempt>>
      BY <2>5 DEF CommitRollback, CommitReadsHold
    <3> QED BY <1>1, <3>1
  <2> QED BY <1>2, <2>1, <2>2, <2>3, <2>4, <2>5 DEF CommitStep
<1>3. ASSUME NEW c \in Cases, NEW a \in AttemptIds, NEW k \in Contractors,
             NEW op \in OpIds, NEW out, AcceptAllocationAttempt(c, a, k, op, out)
      PROVE  SafetyInv'
  BY <1>3, AcceptIsSafe
<1>4. ASSUME NEW a \in AttemptIds, NEW out, BreachAllocationAttempt(a, out)
      PROVE  SafetyInv'
  <2>1. Quiet
    BY <1>0, <1>4 DEF BreachAllocationAttempt, Quiet, AssignmentTypeOK, AttemptRow,
                      NoAttempt, AttemptStatus
  <2>2. attempt[a].case \in Cases
    BY <1>0, <1>4 DEF BreachAllocationAttempt, AssignmentTypeOK, AttemptRow
  <2> QED BY <1>0, <1>4, <2>1, <2>2, QuietForward, NoneIsNull, StatusIsKnown
          DEF BreachAllocationAttempt, AssignmentTypeOK
<1>5. ASSUME NEW c \in Cases, NEW out, MarkAssignmentInProgress(c, out)
      PROVE  SafetyInv'
  <2>1. Quiet
    BY <1>5 DEF MarkAssignmentInProgress, Quiet
  <2>2. out = "IN_PROGRESS" => assignment[c] = "ACCEPTED"
    BY <1>5 DEF MarkAssignmentInProgress, StartOutcome
  <2> QED BY <1>0, <1>5, <2>1, <2>2, QuietForward, NoneIsNull, StatusIsKnown
          DEF MarkAssignmentInProgress, AssignmentTypeOK
<1>6. ASSUME NEW c \in Cases, NEW op \in OpIds, NEW out, CompleteAssignment(c, op, out)
      PROVE  SafetyInv'
  <2>1. Quiet
    BY <1>6 DEF CompleteAssignment, Quiet
  <2>2. out = "COMPLETED" => assignment[c] = "IN_PROGRESS"
    BY <1>6 DEF CompleteAssignment, CompleteOutcome
  <2> QED BY <1>0, <1>6, <2>1, <2>2, QuietForward, NoneIsNull, StatusIsKnown
          DEF CompleteAssignment, AssignmentTypeOK
<1>7. ASSUME NEW c \in Cases, NEW out, CancelAssignmentForCase(c, out)
      PROVE  SafetyInv'
  <2>1. Quiet
    BY <1>0, <1>7 DEF CancelAssignmentForCase, Quiet, Pending, AttemptsOf,
                      AssignmentTypeOK, AttemptRow, NoAttempt
  <2>2. out = "CANCELLED" => assignment[c] \notin {NONE, "IN_PROGRESS", "COMPLETED"}
    BY <1>7 DEF CancelAssignmentForCase, CancelAssignmentOutcome
  <2> QED BY <1>0, <1>7, <2>1, <2>2, QuietForward, NoneIsNull, StatusIsKnown
          DEF CancelAssignmentForCase, AssignmentTypeOK
<1>8. CASE UNCHANGED assignmentVars
  <2>1. Quiet
    BY <1>8 DEF assignmentVars, Quiet
  <2> QED BY <1>0, <1>8, <2>1, QuietForward DEF assignmentVars
<1> QED BY <1>2, <1>3, <1>4, <1>5, <1>6, <1>7, <1>8
        DEF AssignmentNext, AcceptStep, BreachStep, LifecycleStep

\* It holds of an empty atom.
LEMMA SafetyInit == AssignmentInit => SafetyInv
  BY NoneIsNull, StatusIsKnown
     DEF AssignmentInit, SafetyInv, AtMostOnePendingAttempt, AtMostOneAcceptance,
         OpenIsNeverAccepted, CommitReadsHold, WorkFollowsAnAcceptance,
         NeverAccepted, Pending, AttemptsOf, NoAttempt

\* The safety invariant holds throughout.
LEMMA SafetyInvariant == AssignmentSpec => []SafetyInv
  BY SafetyInit, TypeInvariant, SafetyStep, PTL DEF AssignmentSpec

-----------------------------------------------------------------------------
(* What follows *)

\* However automatic allocation, overrides and breach replacements of all Cases
\* interleave, a Case has one open offer at most: the fence on the epoch row is
\* enough, although the Attempts themselves are read without a lock.
THEOREM OnePendingAttempt == AssignmentSpec => []AtMostOnePendingAttempt
<1>1. SafetyInv => AtMostOnePendingAttempt
  BY DEF SafetyInv
<1> QED BY <1>1, SafetyInvariant, PTL

\* At most one Attempt of a Case is ever accepted.
THEOREM OneAcceptance == AssignmentSpec => []AtMostOneAcceptance
<1>1. SafetyInv => AtMostOneAcceptance
  BY DEF SafetyInv
<1> QED BY <1>1, SafetyInvariant, PTL

\* Work is under way, or finished, only on an offer that was accepted.
THEOREM AcceptedBeforeWork == AssignmentSpec => []WorkFollowsAnAcceptance
<1>1. SafetyInv => WorkFollowsAnAcceptance
  BY DEF SafetyInv
<1> QED BY <1>1, SafetyInvariant, PTL

\* Work of a Case that has started goes on or is completed, by the operation on record.
WorkStands ==
    \A c \in Cases :
        /\ assignment[c] = "IN_PROGRESS" => assignment'[c] \in {"IN_PROGRESS", "COMPLETED"}
        /\ assignment[c] = "COMPLETED" => assignment'[c] = "COMPLETED"
                                         /\ completionOp'[c] = completionOp[c]

\* No allocation, acceptance, breach or cancellation takes started work back: in
\* particular a commit that reopens an Assignment never reopens that one.
LEMMA WorkStep ==
    ASSUME TypeInv, SafetyInv, [AssignmentNext]_assignmentVars
    PROVE  WorkStands
<1> USE DEF WorkStands
<1>0. AssignmentTypeOK
  BY DEF TypeInv
<1>1. CASE CommitStep
  <2>1. CASE CommitWrite
    <3>1. commit # NoCommit /\ commit.pc = "write"
      BY <2>1 DEF CommitWrite, NoCommit
    <3>2. assignment' # assignment => assignment[commit.case] \in {NONE, "BREACHED", "CANCELLED"}
      BY <2>1, <3>1 DEF CommitWrite, SafetyInv, CommitReadsHold
    <3> QED BY <1>0, <2>1, <3>1, <3>2, OpenCommit, StatusIsKnown
            DEF CommitWrite, AssignmentTypeOK
  <2>2. CASE UNCHANGED <<assignment, completionOp>>
    BY <2>2
  <2> QED BY <1>1, <2>1, <2>2
          DEF CommitStep, CommitBegin, CommitReadAssignment, CommitReadPending,
              CommitRollback
<1>2. CASE AcceptStep
  BY <1>0, <1>2 DEF AcceptStep, AcceptAllocationAttempt, AcceptOutcome, AssignmentTypeOK
<1>3. CASE BreachStep
  BY <1>0, <1>3 DEF BreachStep, BreachAllocationAttempt, AssignmentTypeOK
<1>4. CASE LifecycleStep
  BY <1>0, <1>4 DEF LifecycleStep, MarkAssignmentInProgress, StartOutcome,
        CompleteAssignment, CompleteOutcome, CancelAssignmentForCase,
        CancelAssignmentOutcome, AssignmentTypeOK
<1>5. CASE UNCHANGED assignmentVars
  BY <1>5 DEF assignmentVars
<1> QED BY <1>1, <1>2, <1>3, <1>4, <1>5 DEF AssignmentNext

\* Work that has started is never undone.
THEOREM StartedWorkStands == AssignmentSpec => WorkIsNeverUndone
<1>1. TypeInv /\ SafetyInv /\ [AssignmentNext]_assignmentVars => [WorkStands]_assignmentVars
  BY WorkStep
<1> QED BY <1>1, TypeInvariant, SafetyInvariant, PTL DEF AssignmentSpec, WorkIsNeverUndone, WorkStands

\* A step makes no open offer of an Assignment that was accepted.
NotReopened ==
    \A c \in Cases : assignment[c] \in {"ACCEPTED", "IN_PROGRESS", "COMPLETED"}
                     => assignment'[c] # "PENDING_ACCEPTANCE"

\* Only a commit offers, and it reopens what it read BREACHED: cancelled since, at worst.
LEMMA ReopenStep ==
    ASSUME TypeInv, SafetyInv, [AssignmentNext]_assignmentVars
    PROVE  NotReopened
<1>0. AssignmentTypeOK
  BY DEF TypeInv
<1>1. CASE CommitWrite
  <2>1. commit # NoCommit /\ commit.pc = "write"
    BY <1>1 DEF CommitWrite, NoCommit
  <2>2. assignment' # assignment => assignment[commit.case] \in {NONE, "BREACHED", "CANCELLED"}
    BY <1>1, <2>1 DEF CommitWrite, SafetyInv, CommitReadsHold
  <2> QED BY <1>0, <1>1, <2>1, <2>2, OpenCommit, StatusIsKnown
          DEF CommitWrite, AssignmentTypeOK, NotReopened
<1>2. CASE CommitStep /\ ~CommitWrite
  BY <1>2 DEF CommitStep, CommitBegin, CommitReadAssignment, CommitReadPending,
              CommitRollback, NotReopened
<1>3. CASE AcceptStep \/ BreachStep
  BY <1>0, <1>3 DEF AcceptStep, AcceptAllocationAttempt, BreachStep, BreachAllocationAttempt,
                    AssignmentTypeOK, NotReopened
<1>4. CASE LifecycleStep
  BY <1>0, <1>4 DEF LifecycleStep, MarkAssignmentInProgress, CompleteAssignment,
                    CancelAssignmentForCase, AssignmentTypeOK, NotReopened
<1>5. CASE UNCHANGED assignmentVars
  BY <1>5 DEF assignmentVars, NotReopened
<1> QED BY <1>1, <1>2, <1>3, <1>4, <1>5 DEF AssignmentNext

\* An Assignment that was accepted is never offered again: the part of "never clobber
\* ACCEPTED/COMPLETED/CANCELLED" that holds.
THEOREM AcceptedIsNotOfferedAgain == AssignmentSpec => AcceptedIsNotReopened
<1>1. TypeInv /\ SafetyInv /\ [AssignmentNext]_assignmentVars => [NotReopened]_assignmentVars
  BY ReopenStep
<1> QED BY <1>1, TypeInvariant, SafetyInvariant, PTL
        DEF AssignmentSpec, AcceptedIsNotReopened, NotReopened
-----------------------------------------------------------------------------
(* What callers build on: Attempts are appended, and keep what they offer.   *)

\* No operation deletes an Attempt, or offers it to another Contractor.
LEMMA AttemptsStay ==
    ASSUME TypeInv, SafetyInv, [AssignmentNext]_assignmentVars,
           NEW a \in AttemptIds, attempt[a] # NoAttempt
    PROVE  /\ attempt'[a] # NoAttempt
           /\ attempt'[a].contractor = attempt[a].contractor
<1>0. AssignmentTypeOK /\ attempt[a] \in AttemptRow
  BY DEF TypeInv, AssignmentTypeOK
<1>2. CASE CommitWrite
  <2>1. a # commit.op
    BY <1>2 DEF SafetyInv, CommitReadsHold, CommitWrite, NoCommit
  <2> QED BY <1>0, <1>2, <2>1 DEF CommitWrite, AttemptRow, NoAttempt, AttemptStatus
<1>3. CASE CommitStep /\ ~CommitWrite
  BY <1>0, <1>3 DEF CommitStep, CommitBegin, CommitReadAssignment, CommitReadPending, CommitRollback
<1>4. CASE AcceptStep
  BY <1>0, <1>4 DEF AcceptStep, AcceptAllocationAttempt, AssignmentTypeOK, AttemptRow,
                    NoAttempt, AttemptStatus
<1>5. CASE BreachStep
  BY <1>0, <1>5 DEF BreachStep, BreachAllocationAttempt, AssignmentTypeOK, AttemptRow,
                    NoAttempt, AttemptStatus
<1>6. CASE LifecycleStep
  BY <1>0, <1>6 DEF LifecycleStep, MarkAssignmentInProgress, CompleteAssignment,
                    CancelAssignmentForCase, AttemptRow, NoAttempt, AttemptStatus
<1>7. CASE UNCHANGED assignmentVars
  BY <1>7 DEF assignmentVars
<1> QED BY <1>2, <1>3, <1>4, <1>5, <1>6, <1>7 DEF AssignmentNext

\* How an Attempt is answered: an acceptance stays on record, an offer that is open or
\* has lapsed was one before and was accepted by nobody since, and what lapsed is only
\* overwritten by a commit that replaces it.
AnswerStands(a) ==
    /\ attempt[a].acceptedBy # NONE => attempt'[a].acceptedBy = attempt[a].acceptedBy
    /\ attempt'[a].status \in {"PENDING_ACCEPTANCE", "BREACHED"} =>
          /\ attempt'[a].acceptedBy = attempt[a].acceptedBy
          /\ \/ attempt[a] = NoAttempt
             \/ attempt[a].status \in {"PENDING_ACCEPTANCE", "BREACHED"}
    /\ attempt[a].status = "BREACHED" =>
          attempt'[a].status = "BREACHED" \/ (commit.pc = "write" /\ a = commit.replace)

\* Every operation answers an Attempt at most once.
LEMMA AnswersStand ==
    ASSUME TypeInv, SafetyInv, [AssignmentNext]_assignmentVars, NEW a \in AttemptIds
    PROVE  AnswerStands(a)
<1>0. /\ AssignmentTypeOK /\ attempt[a] \in AttemptRow \cup {NoAttempt}
      /\ \A b \in AttemptIds : attempt[b] \in AttemptRow \cup {NoAttempt}
  BY DEF TypeInv, AssignmentTypeOK
<1>1. ASSUME NEW s \in AttemptStatus, s \notin {"PENDING_ACCEPTANCE", "BREACHED"},
             attempt'[a] = [attempt[a] EXCEPT !.status = s],
             attempt[a].status # "BREACHED"
      PROVE  AnswerStands(a)
  BY <1>0, <1>1 DEF AttemptRow, NoAttempt, AnswerStands
<1>2. CASE CommitWrite
  <2>1. attempt[commit.op] = NoAttempt /\ commit.pc = "write" /\ commit.op \in AttemptIds
    <3>1. commit # NoCommit /\ commit.pc = "write"
      BY <1>2 DEF CommitWrite, NoCommit
    <3> QED BY <1>0, <3>1, OpenCommit DEF SafetyInv, CommitReadsHold
  <2>2. CASE a = commit.op
    BY <1>2, <2>1, <2>2 DEF CommitWrite, NoAttempt, AnswerStands
  <2>3. CASE a # commit.op /\ a = commit.replace
    BY <1>0, <1>2, <2>1, <2>3 DEF CommitWrite, AttemptRow, NoAttempt, AnswerStands
  <2>4. CASE a # commit.op /\ a # commit.replace
    BY <1>2, <2>4 DEF CommitWrite, AnswerStands
  <2> QED BY <2>2, <2>3, <2>4
<1>3. UNCHANGED attempt => AnswerStands(a)
  BY <1>0 DEF AnswerStands, NoAttempt
<1>4. CASE CommitStep /\ ~CommitWrite
  BY <1>3, <1>4 DEF CommitStep, CommitBegin, CommitReadAssignment, CommitReadPending, CommitRollback
<1>5. CASE AcceptStep
  <2>1. PICK c \in Cases, b \in AttemptIds, k \in Contractors, op \in OpIds :
            AcceptAllocationAttempt(c, b, k, op, AcceptOutcome(c, b, k, op))
    BY <1>5 DEF AcceptStep
  <2>2. CASE a = b /\ AcceptOutcome(c, b, k, op) = "ACCEPTED"
    <3>1. /\ attempt[a].case = c /\ assignment[c] = "PENDING_ACCEPTANCE"
          /\ attempt[a].status = "PENDING_ACCEPTANCE"
      BY <2>2 DEF AcceptOutcome
    <3>2. attempt[a].acceptedBy = NONE
      BY <3>1 DEF SafetyInv, OpenIsNeverAccepted, NeverAccepted, AttemptsOf
    <3>3. attempt'[a] = [attempt[a] EXCEPT !.status = "ACCEPTED", !.acceptedBy = op]
      BY <1>0, <2>1, <2>2 DEF AcceptAllocationAttempt, AssignmentTypeOK
    <3> QED BY <1>0, <3>1, <3>2, <3>3 DEF AnswerStands, AttemptRow, NoAttempt
  <2>3. CASE ~(a = b /\ AcceptOutcome(c, b, k, op) = "ACCEPTED")
    <3>1. attempt'[a] = attempt[a]
      BY <1>0, <2>1, <2>3 DEF AcceptAllocationAttempt, AssignmentTypeOK
    <3> QED BY <3>1 DEF AnswerStands
  <2> QED BY <2>2, <2>3
<1>6. CASE BreachStep
  BY <1>0, <1>6 DEF BreachStep, BreachAllocationAttempt, BreachOutcome, AssignmentTypeOK, AttemptRow,
                    NoAttempt, AttemptStatus, AnswerStands
<1>7. CASE LifecycleStep
  <2>1. ASSUME NEW c \in Cases, CancelAssignmentForCase(c, CancelAssignmentOutcome(c))
        PROVE  AnswerStands(a)
    BY <1>0, <1>1, <1>3, <2>1 DEF CancelAssignmentForCase, Pending, AttemptStatus, AnswerStands
  <2> QED BY <1>3, <1>7, <2>1 DEF LifecycleStep, MarkAssignmentInProgress, CompleteAssignment
<1>8. CASE UNCHANGED assignmentVars
  BY <1>3, <1>8 DEF assignmentVars
<1> QED BY <1>2, <1>4, <1>5, <1>6, <1>7, <1>8 DEF AssignmentNext
=============================================================================
