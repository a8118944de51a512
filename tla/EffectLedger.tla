---------------------------- MODULE EffectLedger ----------------------------
(***************************************************************************)
(* The Effect Ledger (apps/atoms/alert): one row per Derived Effect, which *)
(* each operation locks (SELECT ... FOR UPDATE) before it decides.  An     *)
(* operation is a function of the row: what it leaves and what it answers. *)
(*                                                                         *)
(* Of the attempts column the protocol asks only whether it is zero, of    *)
(* createdAt only whether it lies 24 hours back: the deduplication window  *)
(* of the e-mail provider.                                                 *)
(***************************************************************************)
EXTENDS FiniteSets

CONSTANTS
    Effects,        \* Derived Effect ids of one Case
    Emails          \* those that are e-mails; the others are scores

ASSUME LedgerAssumption == Emails \subseteq Effects

EffectStatus == {"PENDING", "SENT", "FAILED", "UNKNOWN", "WAIVED"}
Settled == {"SENT", "WAIVED"}
NoRow == [status |-> "ABSENT", tried |-> FALSE]
Row == [status : EffectStatus, tried : BOOLEAN]

\* reserveEffect: the row is inserted once, with a payload that never changes.
Reserved(row) == IF row = NoRow THEN [status |-> "PENDING", tried |-> FALSE] ELSE row

\* beginEffect counts an attempt; like succeedEffect and failEffect it moves a
\* PENDING row only, and answers with the row whatever it is.
Begun(row) == IF row.status = "PENDING" THEN [row EXCEPT !.tried = TRUE] ELSE row

\* Defect: an answer that comes late is recorded over a waiver.
SucceededDefect(row) == [row EXCEPT !.status = "SENT"]

Succeeded(row) == IF row.status = "PENDING" THEN [row EXCEPT !.status = "SENT"] ELSE row
Failed(row) == IF row.status = "PENDING" THEN [row EXCEPT !.status = "FAILED"] ELSE row

\* markEffectUnknown: an e-mail that was tried and is out of the window.
UnknownEligible(e, row, old) ==
    /\ e \in Emails /\ row.tried /\ old
    /\ row.status \in {"PENDING", "FAILED"}

\* retryEffect: only what failed or is in doubt, the latter with an
\* acknowledgement of the risk to deliver twice.
RetryOutcome(row, ack) ==
    CASE row = NoRow -> "NOT_FOUND"
      [] row.status = "UNKNOWN" /\ ~ack -> "ACK_REQUIRED"
      [] row.status \in {"PENDING"} \cup Settled -> "NOT_REPAIRABLE"
      [] OTHER -> "SUCCESS"

\* waiveEffect: what is sent stays sent.
Waived(row) ==
    IF row = NoRow \/ row.status \in Settled THEN row ELSE [row EXCEPT !.status = "WAIVED"]
=============================================================================
