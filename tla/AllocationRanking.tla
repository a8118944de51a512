-------------------------- MODULE AllocationRanking -------------------------
(***************************************************************************)
(* The fence around automatic allocation.  One Case Workflow ranks the     *)
(* Contractors by their load, which it reads from the Assignment atom      *)
(* while other Cases allocate, and commits the best one under the epoch    *)
(* that came with the counts.  The snapshot is two statements, not a       *)
(* transaction; the commit is AssignmentAtom's.                            *)
(***************************************************************************)
EXTENDS AssignmentAtom, Integers

CONSTANTS
    RankedCase,     \* the Case this Workflow allocates
    Score,          \* Contractor -> total of its performance entries
    Position        \* Contractor -> place of its id in their order

ASSUME RankingAssumption ==
    /\ RankedCase \in Cases
    /\ Score \in [Contractors -> Int] /\ Position \in [Contractors -> Nat]

VARIABLE rank       \* runAllocation: its step, the snapshot and the choice

rankingVars == <<assignment, completionOp, attempt, epoch, commit, rank>>

Load(k) ==
    Cardinality({a \in AttemptIds : attempt[a].contractor = k
                                    /\ attempt[a].status \in {"PENDING_ACCEPTANCE", "ACCEPTED"}})

Idle == [pc |-> "epoch", epoch |-> 0, load |-> [k \in Contractors |-> 0],
         op |-> NONE, k |-> NONE]

RankingTypeOK ==
    /\ AssignmentTypeOK
    /\ rank \in [pc : {"epoch", "counts", "commit"}, epoch : Nat,
                 load : [Contractors -> Nat], op : AttemptIds \cup {NONE},
                 k : Contractors \cup {NONE}]

RankingInit == AssignmentInit /\ rank = Idle

Quietly == UNCHANGED assignmentVars

\* Defect: the counts are read before the epoch.
CountsFirstDefect ==
    \/ /\ rank.pc = "epoch"
       /\ rank' = [rank EXCEPT !.pc = "counts", !.load = [k \in Contractors |-> Load(k)]]
    \/ /\ rank.pc = "counts"
       /\ rank' = [rank EXCEPT !.pc = "commit", !.epoch = epoch]

\* getAllocationSnapshot: the epoch, then the active Attempts of every Contractor.
Snapshot ==
    \/ /\ rank.pc = "epoch"
       /\ rank' = [rank EXCEPT !.pc = "counts", !.epoch = epoch]
    \/ /\ rank.pc = "counts"
       /\ rank' = [rank EXCEPT !.pc = "commit", !.load = [k \in Contractors |-> Load(k)]]

FetchSnapshot == Snapshot /\ Quietly

\* rankCandidates: the lightest load, then the highest score, then the first id,
\* among those this Case was not offered to.
Precedes(j, k) ==
    \/ rank.load[j] < rank.load[k]
    \/ /\ rank.load[j] = rank.load[k]
       /\ \/ Score[j] > Score[k]
          \/ Score[j] = Score[k] /\ Position[j] < Position[k]

Candidates == Contractors \ {attempt[a].contractor : a \in AttemptsOf(RankedCase)}
Best == {k \in Candidates : \A j \in Candidates \ {k} : Precedes(k, j)}

\* STALE_EPOCH asks for another snapshot.
CommitBest(op) ==
    /\ rank.pc = "commit" /\ rank.op = NONE /\ attempt[op] = NoAttempt
    /\ \E k \in Best :
          LET out == CommitBeginOutcome(op, RankedCase, k, FALSE, FALSE, NONE, rank.epoch)
          IN /\ CommitBegin(op, RankedCase, k, FALSE, FALSE, NONE, rank.epoch, out)
             /\ rank' = IF out = "STALE_EPOCH" THEN Idle
                        ELSE [rank EXCEPT !.op = op, !.k = k, !.epoch = 0]

NobodyLeft ==
    /\ rank.pc = "commit" /\ rank.op = NONE /\ Best = {}
    /\ rank' = Idle /\ Quietly

\* The transaction of this allocation ends: its offer is out, or another one was, or
\* it failed.  The loop allocates again when it has reason to.
Committing == commit # NoCommit /\ commit.op = rank.op
Others ==
    /\ AssignmentNext
    /\ rank' = IF Committing /\ commit' = NoCommit THEN Idle ELSE rank
    \* nobody else commits under this allocation's operation id
    /\ (commit' # NoCommit /\ commit = NoCommit) => commit'.op # rank.op

RankingNext ==
    \/ FetchSnapshot \/ NobodyLeft
    \/ \E op \in AttemptIds : CommitBest(op)
    \/ Others

RankingSpec == RankingInit /\ [][RankingNext]_rankingVars

\* The offer goes to a Contractor who was ranked on everything there was to know:
\* whatever other Cases allocated between the two reads and the commit, no offer is
\* open at the commit that the counts did not include.
RankingMissesNoOffer ==
    (rank.op # NONE /\ Committing) => \A k \in Contractors : Load(k) <= rank.load[k]
=============================================================================
