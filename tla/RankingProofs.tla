--------------------------- MODULE RankingProofs ---------------------------
(***************************************************************************)
(* What the epoch fence promises for every number of Cases, Contractors    *)
(* and Attempts: an automatic allocation is committed on counts that miss  *)
(* no open offer.  The log of Attempts grows without bound; that it is     *)
(* finite at any time, so that loads are numbers, is part of the           *)
(* invariant.                                                              *)
(***************************************************************************)
EXTENDS AllocationRanking, AssignmentProofs, FiniteSetTheorems

-----------------------------------------------------------------------------
(* The inductive invariant *)

Rows == {a \in AttemptIds : attempt[a] # NoAttempt}
Active(k) == {a \in AttemptIds : attempt[a].contractor = k
                                 /\ attempt[a].status \in {"PENDING_ACCEPTANCE", "ACCEPTED"}}

\* The counts of the snapshot miss no open offer.
Counted == \A k \in Contractors : Load(k) <= rank.load[k]

\* While the epoch is the one that was read, the counts read after it still hold;
\* once the commit holds the epoch row, nobody else adds an offer.
Fenced ==
    /\ rank.op # NONE => rank.pc = "commit"
    /\ (rank.pc # "epoch" /\ rank.op = NONE) => rank.epoch <= epoch
    /\ (rank.pc = "commit" /\ rank.op = NONE /\ rank.epoch = epoch) => Counted
    /\ (rank.op # NONE /\ Committing) => Counted

RankInv == TypeInv /\ IsFiniteSet(Rows) /\ RankingTypeOK /\ Fenced

-----------------------------------------------------------------------------
\* A load is a number, and no number grows when no offer becomes active.
LEMMA LoadIsNumber ==
    ASSUME IsFiniteSet(Rows), NEW k
    PROVE  IsFiniteSet(Active(k)) /\ Load(k) = Cardinality(Active(k)) /\ Load(k) \in Nat
<1>1. Active(k) \in SUBSET Rows
  BY DEF Active, Rows, NoAttempt
<1>2. IsFiniteSet(Active(k))
  BY <1>1, FS_Subset
<1>3. Load(k) = Cardinality(Active(k))
  BY DEF Load, Active
<1> QED
  BY <1>2, <1>3, FS_CardinalityType

LEMMA LoadShrinks ==
    ASSUME IsFiniteSet(Rows), NEW k, Active(k)' \subseteq Active(k)
    PROVE  Load(k)' <= Load(k)
<1>1. IsFiniteSet(Active(k)) /\ Load(k) = Cardinality(Active(k))
  BY LoadIsNumber
<1>2. Cardinality(Active(k)') <= Cardinality(Active(k))
  BY <1>1, FS_Subset
<1>3. Load(k)' = Cardinality(Active(k)')
  BY DEF Load, Active
<1> QED
  BY <1>1, <1>2, <1>3

\* A step that adds no active offer and leaves the counts alone leaves them right.
LEMMA CountedStays ==
    ASSUME IsFiniteSet(Rows), IsFiniteSet(Rows'), RankingTypeOK, Counted,
           rank'.load = rank.load, \A k \in Contractors : Active(k)' \subseteq Active(k)
    PROVE  Counted'
<1> SUFFICES ASSUME NEW k \in Contractors PROVE Load(k)' <= rank'.load[k]
  BY DEF Counted
<1>1. Load(k)' <= Load(k)
  BY LoadShrinks
<1>2. Load(k) \in Nat /\ rank.load[k] \in Nat
  BY LoadIsNumber DEF RankingTypeOK
<1>3. Load(k)' \in Nat
  <2>1. Active(k)' \in SUBSET (Rows')
    BY DEF Active, Rows, NoAttempt
  <2>2. Load(k)' = Cardinality(Active(k)')
    BY DEF Load, Active
  <2> QED
    BY <2>1, <2>2, FS_Subset, FS_CardinalityType
<1>4. Load(k) <= rank.load[k]
  BY DEF Counted
<1> QED
  BY <1>1, <1>2, <1>3, <1>4

-----------------------------------------------------------------------------
\* Only the write of a commit adds an Attempt, or makes one active, and it advances
\* the epoch; every other operation leaves the epoch and can only take offers away.
LEMMA OnlyWritesAddLoad ==
    ASSUME TypeInv, AssignmentNext
    PROVE  /\ \/ CommitWrite
              \/ epoch' = epoch /\ \A k \in Contractors : Active(k)' \subseteq Active(k)
           /\ (Rows' \subseteq Rows) \/ (CommitWrite /\ Rows' \subseteq Rows \cup {commit.op})
           /\ (commit # NoCommit /\ commit' # NoCommit) => commit'.op = commit.op
<1>0. AssignmentTypeOK /\ attempt \in [AttemptIds -> AttemptRow \cup {NoAttempt}]
  BY DEF TypeInv, AssignmentTypeOK
<1> DEFINE Goal == /\ epoch' = epoch /\ \A k \in Contractors : Active(k)' \subseteq Active(k)
                   /\ Rows' \subseteq Rows
                   /\ (commit # NoCommit /\ commit' # NoCommit) => commit'.op = commit.op
<1>1. ASSUME UNCHANGED <<attempt, epoch>>,
             (commit # NoCommit /\ commit' # NoCommit) => commit'.op = commit.op
      PROVE  Goal
  BY <1>1 DEF Active, Rows
<1>2. CASE CommitStep
  <2>1. ASSUME NEW op, NEW c, NEW k, NEW manual, NEW reason, NEW replace, NEW e, NEW out,
               CommitBegin(op, c, k, manual, reason, replace, e, out)
        PROVE  Goal
    <3>1. UNCHANGED <<attempt, epoch>> /\ commit = NoCommit
      BY <2>1 DEF CommitBegin
    <3> QED
      BY <3>1, <1>1
  <2>2. ASSUME CommitReadAssignment PROVE Goal
    <3>1. UNCHANGED <<attempt, epoch>> /\ commit # NoCommit
      BY <2>2 DEF CommitReadAssignment, NoCommit
    <3>2. commit'.op = commit.op
      BY <1>0, <2>2, <3>1, OpenCommit DEF CommitReadAssignment, CommitTx
    <3> QED
      BY <3>1, <3>2, <1>1
  <2>3. ASSUME CommitReadPending(CommitPendingOutcome) PROVE Goal
    <3>1. UNCHANGED <<attempt, epoch>> /\ commit # NoCommit
      BY <2>3 DEF CommitReadPending, NoCommit
    <3>2. commit' # NoCommit => commit'.op = commit.op
      BY <1>0, <2>3, <3>1, OpenCommit DEF CommitReadPending, CommitTx
    <3> QED
      BY <3>1, <3>2, <1>1
  <2>4. ASSUME CommitRollback PROVE Goal
    BY <2>4, <1>1 DEF CommitRollback
  <2>5. CASE CommitWrite
    <3>1. Rows' \subseteq Rows \cup {commit.op}
      <4> SUFFICES ASSUME NEW a \in AttemptIds, attempt'[a] # NoAttempt, a # commit.op
                   PROVE  attempt[a] # NoAttempt
        BY DEF Rows
      <4>1. CASE a = commit.replace
        <5>1. commit.pc = "write" /\ commit.replace # NONE
          BY <2>5, <4>1, NoneIsNull DEF CommitWrite
        <5> QED
          BY <4>1, <5>1 DEF TypeInv, ReplacedExists
      <4>2. CASE a # commit.replace
        BY <2>5, <4>2 DEF CommitWrite
      <4> QED
        BY <4>1, <4>2
    <3>2. commit' = NoCommit
      BY <2>5 DEF CommitWrite
    <3> QED
      BY <2>5, <3>1, <3>2
  <2> QED
    BY <1>2, <2>1, <2>2, <2>3, <2>4, <2>5 DEF CommitStep
<1>3. ASSUME NEW c, NEW a \in AttemptIds, NEW k, NEW op, NEW out,
             AcceptAllocationAttempt(c, a, k, op, out)
      PROVE  Goal
  <2>1. CASE out = "ACCEPTED"
    <3>1. attempt[a].status = "PENDING_ACCEPTANCE"
      BY <1>3, <2>1 DEF AcceptAllocationAttempt, AcceptOutcome
    <3>2. attempt[a] \in AttemptRow /\ attempt[a] # NoAttempt
      BY <1>0, <3>1 DEF NoAttempt
    <3>3. attempt' = [attempt EXCEPT ![a] =
                         [attempt[a] EXCEPT !.status = "ACCEPTED", !.acceptedBy = op]]
      BY <1>0, <1>3, <2>1 DEF AcceptAllocationAttempt
    <3>4. attempt'[a].contractor = attempt[a].contractor
      BY <1>0, <3>2, <3>3 DEF AttemptRow
    <3>5. \A j \in Contractors : Active(j)' \subseteq Active(j)
      BY <1>0, <3>1, <3>3, <3>4 DEF Active
    <3>6. Rows' \subseteq Rows
      BY <1>0, <3>2, <3>3 DEF Rows
    <3>7. epoch' = epoch /\ commit' = commit
      BY <1>3 DEF AcceptAllocationAttempt
    <3> QED
      BY <3>5, <3>6, <3>7
  <2>2. CASE out # "ACCEPTED"
    BY <1>1, <1>3, <2>2 DEF AcceptAllocationAttempt
  <2> QED
    BY <2>1, <2>2
<1>4. ASSUME NEW a \in AttemptIds, NEW out, BreachAllocationAttempt(a, out) PROVE Goal
  <2>1. CASE out = "BREACHED"
    <3>1. attempt[a] \in AttemptRow /\ attempt[a] # NoAttempt
      BY <1>0, <1>4 DEF BreachAllocationAttempt
    <3>2. attempt' = [attempt EXCEPT ![a] = [attempt[a] EXCEPT !.status = "BREACHED"]]
      BY <1>0, <1>4, <2>1 DEF BreachAllocationAttempt
    <3>3. attempt'[a].status = "BREACHED"
      BY <1>0, <3>1, <3>2 DEF AttemptRow
    <3>4. \A j \in Contractors : Active(j)' \subseteq Active(j)
      BY <1>0, <3>2, <3>3 DEF Active
    <3>5. Rows' \subseteq Rows
      BY <1>0, <3>1, <3>2 DEF Rows
    <3>6. epoch' = epoch /\ commit' = commit
      BY <1>4 DEF BreachAllocationAttempt
    <3> QED
      BY <3>4, <3>5, <3>6
  <2>2. CASE out # "BREACHED"
    BY <1>1, <1>4, <2>2 DEF BreachAllocationAttempt
  <2> QED
    BY <2>1, <2>2
<1>5. ASSUME NEW c, NEW out, CancelAssignmentForCase(c, out) PROVE Goal
  <2>1. CASE out = "CANCELLED"
    <3>1. ASSUME NEW a \in AttemptIds
          PROVE  \/ attempt'[a] = attempt[a]
                 \/ attempt[a] # NoAttempt /\ attempt'[a].status = "WITHDRAWN"
      <4>1. CASE a \in Pending(c)
        <5>1. attempt[a] \in AttemptRow
          BY <1>0, <4>1, PendingIsRow
        <5>2. attempt'[a] = [attempt[a] EXCEPT !.status = "WITHDRAWN"]
          BY <1>5, <2>1, <4>1 DEF CancelAssignmentForCase
        <5> QED
          BY <5>1, <5>2, RowIsPresent DEF AttemptRow
      <4>2. CASE a \notin Pending(c)
        BY <1>5, <2>1, <4>2 DEF CancelAssignmentForCase
      <4> QED
        BY <4>1, <4>2
    <3>2. \A j \in Contractors : Active(j)' \subseteq Active(j)
      BY <3>1 DEF Active
    <3>3. Rows' \subseteq Rows
      BY <3>1 DEF Rows
    <3>4. epoch' = epoch /\ commit' = commit
      BY <1>5 DEF CancelAssignmentForCase
    <3> QED
      BY <3>2, <3>3, <3>4
  <2>2. CASE out # "CANCELLED"
    BY <1>1, <1>5, <2>2 DEF CancelAssignmentForCase
  <2> QED
    BY <2>1, <2>2
<1>6. ASSUME NEW c, NEW out, MarkAssignmentInProgress(c, out) PROVE Goal
  BY <1>1, <1>6 DEF MarkAssignmentInProgress
<1>7. ASSUME NEW c, NEW op, NEW out, CompleteAssignment(c, op, out) PROVE Goal
  BY <1>1, <1>7 DEF CompleteAssignment
<1> QED
  BY <1>2, <1>3, <1>4, <1>5, <1>6, <1>7
     DEF AssignmentNext, AcceptStep, BreachStep, LifecycleStep

-----------------------------------------------------------------------------
\* The ranking calls the atom as any caller may.
LEMMA RankingStepOfAtom ==
    ASSUME RankInv, [RankingNext]_rankingVars
    PROVE  [AssignmentNext]_assignmentVars
<1>1. ASSUME NEW op \in AttemptIds, CommitBest(op) PROVE [AssignmentNext]_assignmentVars
  <2>1. PICK k \in Best :
            CommitBegin(op, RankedCase, k, FALSE, FALSE, NONE, rank.epoch,
                CommitBeginOutcome(op, RankedCase, k, FALSE, FALSE, NONE, rank.epoch))
    BY <1>1 DEF CommitBest
  <2> DEFINE out == CommitBeginOutcome(op, RankedCase, k, FALSE, FALSE, NONE, rank.epoch)
  <2>2. CASE out = "CONTINUE"
    <3>1. rank.epoch = epoch
      BY <2>2 DEF CommitBeginOutcome
    <3>2. k \in Contractors /\ RankedCase \in Cases
      BY RankingAssumption DEF Best, Candidates
    <3> QED
      BY <2>1, <3>1, <3>2 DEF AssignmentNext, CommitStep
  <2>3. CASE out # "CONTINUE"
    BY <2>1, <2>3 DEF CommitBegin, assignmentVars
  <2> QED
    BY <2>2, <2>3
<1>2. CASE FetchSnapshot \/ NobodyLeft
  BY <1>2 DEF FetchSnapshot, NobodyLeft, Quietly
<1>3. CASE Others
  BY <1>3 DEF Others
<1>4. CASE UNCHANGED rankingVars
  BY <1>4 DEF rankingVars, assignmentVars
<1> QED
  BY <1>1, <1>2, <1>3, <1>4 DEF RankingNext

LEMMA InitEstablishesRankInv == RankingInit => RankInv
<1> SUFFICES ASSUME RankingInit PROVE RankInv
  OBVIOUS
<1>1. TypeInv
  BY DEF RankingInit, AssignmentInit, TypeInv, AssignmentTypeOK, ReplacedExists, NoCommit
<1>2. IsFiniteSet(Rows)
  <2>1. Rows = {}
    BY DEF RankingInit, AssignmentInit, Rows
  <2> QED
    BY <2>1, FS_EmptySet
<1>3. RankingTypeOK
  BY <1>1 DEF RankingInit, Idle, RankingTypeOK, TypeInv
<1>4. Fenced
  BY DEF RankingInit, Idle, Fenced
<1> QED
  BY <1>1, <1>2, <1>3, <1>4 DEF RankInv

\* A snapshot that starts over owes nothing.
LEMMA IdleIsFenced ==
    ASSUME rank' = Idle, AssignmentTypeOK'
    PROVE  RankingTypeOK' /\ Fenced'
  BY DEF Idle, RankingTypeOK, Fenced

LEMMA RankStep == RankInv /\ [RankingNext]_rankingVars => RankInv'
<1> SUFFICES ASSUME RankInv, [RankingNext]_rankingVars PROVE RankInv'
  OBVIOUS
<1>0. TypeInv /\ IsFiniteSet(Rows) /\ RankingTypeOK /\ Fenced /\ AssignmentTypeOK
  BY DEF RankInv, TypeInv
<1>1. [AssignmentNext]_assignmentVars
  BY RankingStepOfAtom
<1>2. TypeInv' /\ AssignmentTypeOK'
  BY <1>0, <1>1, TypeStep DEF TypeInv
<1>3. IsFiniteSet(Rows')
  <2>1. CASE AssignmentNext
    <3>1. Rows' \in SUBSET (Rows \cup {commit.op})
      BY <1>0, <2>1, OnlyWritesAddLoad
    <3> QED
      BY <1>0, <3>1, FS_AddElement, FS_Subset
  <2>2. CASE UNCHANGED assignmentVars
    BY <1>0, <2>2 DEF Rows, assignmentVars
  <2> QED
    BY <1>1, <2>1, <2>2
<1>4. /\ rank \in [pc : {"epoch", "counts", "commit"}, epoch : Nat,
                   load : [Contractors -> Nat], op : AttemptIds \cup {NONE},
                   k : Contractors \cup {NONE}]
      /\ epoch \in Nat
  BY <1>0 DEF RankingTypeOK, AssignmentTypeOK
<1>5. ASSUME FetchSnapshot PROVE RankingTypeOK' /\ Fenced'
  <2>1. UNCHANGED assignmentVars
    BY <1>5 DEF FetchSnapshot, Quietly
  <2>2. epoch' = epoch /\ \A k : Load(k)' = Load(k)
    BY <2>1 DEF assignmentVars, Load
  <2>3. \A k : Load(k) \in Nat
    BY <1>0, LoadIsNumber
  <2>4. CASE rank.pc = "epoch" /\ rank' = [rank EXCEPT !.pc = "counts", !.epoch = epoch]
    <3>1. /\ rank'.pc = "counts" /\ rank'.epoch = epoch /\ rank'.op = rank.op
          /\ rank' \in [pc : {"epoch", "counts", "commit"}, epoch : Nat,
                        load : [Contractors -> Nat], op : AttemptIds \cup {NONE},
                        k : Contractors \cup {NONE}]
      BY <1>4, <2>4
    <3>2. rank.op = NONE
      BY <1>0, <2>4 DEF Fenced
    <3>3. Fenced'
      BY <1>4, <2>2, <3>1, <3>2 DEF Fenced
    <3> QED
      BY <1>2, <3>1, <3>3 DEF RankingTypeOK
  <2>5. CASE /\ rank.pc = "counts"
             /\ rank' = [rank EXCEPT !.pc = "commit", !.load = [k \in Contractors |-> Load(k)]]
    <3>1. /\ rank'.pc = "commit" /\ rank'.epoch = rank.epoch /\ rank'.op = rank.op
          /\ rank'.load = [k \in Contractors |-> Load(k)]
          /\ rank' \in [pc : {"epoch", "counts", "commit"}, epoch : Nat,
                        load : [Contractors -> Nat], op : AttemptIds \cup {NONE},
                        k : Contractors \cup {NONE}]
      BY <1>4, <2>3, <2>5
    <3>2. rank.op = NONE /\ rank.epoch <= epoch
      BY <1>0, <2>5 DEF Fenced
    <3>3. Counted'
      BY <2>2, <2>3, <3>1 DEF Counted
    <3>4. Fenced'
      BY <2>2, <3>1, <3>2, <3>3 DEF Fenced
    <3> QED
      BY <1>2, <3>1, <3>4 DEF RankingTypeOK
  <2> QED
    BY <1>5, <2>4, <2>5 DEF FetchSnapshot, Snapshot
<1>6. ASSUME NobodyLeft PROVE RankingTypeOK' /\ Fenced'
  BY <1>2, <1>6, IdleIsFenced DEF NobodyLeft
<1>7. ASSUME NEW op \in AttemptIds, CommitBest(op) PROVE RankingTypeOK' /\ Fenced'
  <2>1. PICK k \in Best :
            LET out == CommitBeginOutcome(op, RankedCase, k, FALSE, FALSE, NONE, rank.epoch)
            IN /\ CommitBegin(op, RankedCase, k, FALSE, FALSE, NONE, rank.epoch, out)
               /\ rank' = IF out = "STALE_EPOCH" THEN Idle
                          ELSE [rank EXCEPT !.op = op, !.k = k, !.epoch = 0]
    BY <1>7 DEF CommitBest
  <2> DEFINE out == CommitBeginOutcome(op, RankedCase, k, FALSE, FALSE, NONE, rank.epoch)
  <2>2. CASE out = "STALE_EPOCH"
    BY <1>2, <2>1, <2>2, IdleIsFenced
  <2>3. CASE out # "STALE_EPOCH"
    <3>1. rank.pc = "commit" /\ rank.op = NONE /\ attempt[op] = NoAttempt
      BY <1>7 DEF CommitBest
    <3>2. rank.epoch = epoch
      BY <2>3, <3>1 DEF CommitBeginOutcome
    <3>3. Counted
      BY <1>0, <3>1, <3>2 DEF Fenced
    <3>4. rank' = [rank EXCEPT !.op = op, !.k = k, !.epoch = 0]
      BY <2>1, <2>3
    <3>5. k \in Contractors
      BY DEF Best, Candidates
    <3>6. /\ rank'.pc = "commit" /\ rank'.op = op /\ rank'.load = rank.load
          /\ rank' \in [pc : {"epoch", "counts", "commit"}, epoch : Nat,
                        load : [Contractors -> Nat], op : AttemptIds \cup {NONE},
                        k : Contractors \cup {NONE}]
      BY <1>4, <3>1, <3>4, <3>5
    <3>7. op # NONE
      BY NoneIsNull
    <3>8. Counted'
      <4>1. \A j \in Contractors : Active(j)' \subseteq Active(j)
        BY <2>1 DEF CommitBegin, Active
      <4> QED
        BY <1>0, <1>3, <3>3, <3>6, <4>1, CountedStays
    <3>9. Fenced'
      BY <3>6, <3>7, <3>8 DEF Fenced
    <3> QED
      BY <1>2, <3>6, <3>9 DEF RankingTypeOK
  <2> QED
    BY <2>2, <2>3
<1>8. ASSUME Others PROVE RankingTypeOK' /\ Fenced'
  <2>1. CASE rank' = Idle
    BY <1>2, <2>1, IdleIsFenced
  <2>2. CASE rank' = rank /\ ~(Committing /\ commit' = NoCommit)
    <3>1. RankingTypeOK'
      BY <1>0, <1>2, <2>2 DEF RankingTypeOK
    <3>2. AssignmentNext /\ ((commit' # NoCommit /\ commit = NoCommit) => commit'.op # rank.op)
      BY <1>8 DEF Others
    <3>3. /\ CommitWrite => epoch' = epoch + 1 /\ commit' = NoCommit
          /\ ~CommitWrite => /\ epoch' = epoch
                             /\ \A k \in Contractors : Active(k)' \subseteq Active(k)
          /\ (commit # NoCommit /\ commit' # NoCommit) => commit'.op = commit.op
      BY <1>0, <3>2, OnlyWritesAddLoad DEF CommitWrite
    <3>4. (Counted /\ ~CommitWrite) => Counted'
      BY <1>0, <1>3, <2>2, <3>3, CountedStays
    <3>5. epoch' \in Nat /\ epoch <= epoch' /\ (epoch' = epoch => ~CommitWrite)
      BY <1>4, <3>3
    <3>6. (rank.op # NONE => rank.pc = "commit")'
      BY <1>0, <2>2 DEF Fenced
    <3>7. ((rank.pc # "epoch" /\ rank.op = NONE) => rank.epoch <= epoch)'
      BY <1>0, <1>4, <2>2, <3>5 DEF Fenced
    <3>8. ((rank.pc = "commit" /\ rank.op = NONE /\ rank.epoch = epoch) => Counted)'
      <4> SUFFICES ASSUME rank.pc = "commit", rank.op = NONE, rank.epoch = epoch'
                   PROVE  Counted'
        BY <2>2
      <4>1. epoch' = epoch
        BY <1>0, <1>4, <3>5 DEF Fenced
      <4> QED
        BY <1>0, <3>4, <3>5, <4>1 DEF Fenced
    <3>9. ((rank.op # NONE /\ Committing) => Counted)'
      <4> SUFFICES ASSUME rank.op # NONE, commit' # NoCommit, commit'.op = rank.op
                   PROVE  Counted'
        BY <2>2 DEF Committing
      <4>1. commit # NoCommit /\ commit.op = rank.op /\ ~CommitWrite
        BY <3>2, <3>3
      <4> QED
        BY <1>0, <3>4, <4>1 DEF Fenced, Committing
    <3> QED
      BY <3>1, <3>6, <3>7, <3>8, <3>9 DEF Fenced
  <2> QED
    BY <1>8, <2>1, <2>2 DEF Others
<1>9. ASSUME UNCHANGED rankingVars PROVE RankingTypeOK' /\ Fenced'
  BY <1>0, <1>9 DEF rankingVars, RankingTypeOK, AssignmentTypeOK, Fenced, Counted, Load,
                    Committing
<1> QED
  BY <1>2, <1>3, <1>5, <1>6, <1>7, <1>8, <1>9 DEF RankInv, RankingNext

LEMMA RankInvariant == RankingSpec => []RankInv
  BY InitEstablishesRankInv, RankStep, PTL DEF RankingSpec

-----------------------------------------------------------------------------
\* Seen by the atom, a Workflow that ranks and commits, among others that call it, is
\* one of the callers AssignmentSpec allows: what is proved of the atom holds here.
THEOREM RankingIsACaller == RankingSpec => AssignmentSpec
<1>1. RankingInit => AssignmentInit
  BY DEF RankingInit
<1>2. RankInv /\ [RankingNext]_rankingVars => [AssignmentNext]_assignmentVars
  BY RankingStepOfAtom
<1> QED
  BY <1>1, <1>2, RankInvariant, PTL DEF RankingSpec, AssignmentSpec

\* The fence of getAllocationSnapshot and commitAllocationAttempt: whatever other
\* Cases allocate meanwhile, the offer goes to a Contractor ranked on counts that
\* include every open offer.
THEOREM FenceHolds == RankingSpec => []RankingMissesNoOffer
<1>1. RankInv => RankingMissesNoOffer
  BY DEF RankInv, Fenced, Counted, RankingMissesNoOffer
<1> QED
  BY <1>1, RankInvariant, PTL
=============================================================================
