--------------------------- MODULE MCAssignmentAtom -------------------------
(* Three Attempts on two Cases: a breach and its replacement, or a manual     *)
(* override, can happen on one Case while the other is allocated by its rank. *)
EXTENDS AllocationRanking, TLC

CONSTANTS k1, k2, c1

MCScore == (k1 :> 0) @@ (k2 :> 0)
MCPosition == (k1 :> 1) @@ (k2 :> 2)

\* An action constraint: work and cancellations add no load, so the ranking is of
\* interest before them; at most one offer was accepted by then.
RanksBeforeWork ==
    rank'.pc # "epoch" =>
        /\ \A c \in Cases : assignment'[c] \notin {"IN_PROGRESS", "COMPLETED", "CANCELLED"}
        /\ Cardinality({c \in Cases : assignment'[c] = "ACCEPTED"}) <= 1

MCSymmetry == Permutations(AttemptIds) \cup Permutations(OpIds)
=============================================================================
