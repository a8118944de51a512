---------------------------- MODULE EffectProofs ----------------------------
(***************************************************************************)
(* What EffectDelivery promises for every set of effects and of repairs:   *)
(* type correctness, and that the ledger and the Workflow's copy of it,    *)
(* with the calls between them and their failures, implement the promise.  *)
(***************************************************************************)
EXTENDS EffectDelivery, TLAPS

-----------------------------------------------------------------------------
(* The inductive invariant *)

\* Nothing is done for an effect that was not queued.
OnlyQueuedIsDone ==
    \A e \in Effects :
        /\ eff[e].status = "NONE" => eff[e] = Unqueued
        /\ run[e] # NoRun => eff[e] # Unqueued
        /\ ledger[e] # NoRow => eff[e] # Unqueued
        /\ \A w \in Waiters : route[<<e, w>>] # "idle" => ledger[e] # NoRow

\* A success on its way to the ledger is the answer of the recipient.
SuccessWasAnswered ==
    \A e \in Effects, w \in Waiters : route[<<e, w>>] = "succeed" => e \in answered

\* The Workflow takes an effect for settled, or is about to, only if the ledger does.
SettledInLedger ==
    \A e \in Effects :
        (eff[e].status \in Settled \/ run[e].reply \in Settled) => ledger[e].status \in Settled

\* A repair that succeeded found a row, and a waiver settled it.
RepairHasRow ==
    \A r \in Repairs :
        (repair[r].pc = "called" /\ repair[r].reply = "SUCCESS") =>
            LET row == ledger[RepairOf[r].effect] IN
            row # NoRow /\ (RepairOf[r].kind = "waive" => row.status \in Settled)

ClosedIsClosing == closed => closing

IInv ==
    /\ TypeOK
    /\ OnlyQueuedIsDone /\ SuccessWasAnswered
    /\ SettledInLedger /\ RepairHasRow /\ ClosedIsClosing

-----------------------------------------------------------------------------
(* Lemmas about the operations of the ledger and of runEffect *)

\* Every operation of the ledger leaves a row, and a settled one settled.
LEMMA LedgerOperations ==
    ASSUME NEW row \in Row \cup {NoRow}
    PROVE  /\ \A new \in {Begun(row), Succeeded(row), Failed(row), Waived(row)} :
                 /\ new \in Row \cup {NoRow}
                 /\ (new = NoRow) <=> (row = NoRow)
           /\ Reserved(row) \in Row /\ (row # NoRow => Reserved(row) = row)
           /\ row.status \in EffectStatus \cup {"ABSENT"} /\ row.tried \in BOOLEAN
           /\ (row.status = "ABSENT") <=> (row = NoRow)
<1>1. NoRow.status = "ABSENT" /\ NoRow.tried = FALSE
  BY DEF NoRow
<1>2. \A r \in Row : r # NoRow /\ r.status \in EffectStatus /\ r.tried \in BOOLEAN
                      /\ r.status # "ABSENT"
  BY <1>1 DEF Row, EffectStatus
<1>3. CASE row \in Row
  <2>1. {Begun(row), Succeeded(row), Failed(row), Waived(row)} \subseteq Row
    BY <1>3 DEF Begun, Succeeded, Failed, Waived, Row, EffectStatus
  <2>2. Reserved(row) = row
    BY <1>2, <1>3 DEF Reserved
  <2> QED BY <1>2, <1>3, <2>1, <2>2
<1>4. CASE row = NoRow
  <2>1. /\ Begun(row) = row /\ Succeeded(row) = row /\ Failed(row) = row /\ Waived(row) = row
        /\ Reserved(row) \in Row
    BY <1>1, <1>4 DEF Begun, Succeeded, Failed, Waived, Reserved, Row, EffectStatus
  <2> QED BY <1>1, <1>4, <2>1
<1> QED BY <1>3, <1>4

\* An attempt leaves the status, a late answer moves what is pending, and a waiver
\* settles what is not.
LEMMA LedgerStatus ==
    ASSUME NEW row \in Row \cup {NoRow}
    PROVE  /\ Begun(row).status = row.status
           /\ Succeeded(row).status = IF row.status = "PENDING" THEN "SENT" ELSE row.status
           /\ Failed(row).status = IF row.status = "PENDING" THEN "FAILED" ELSE row.status
           /\ Reserved(row).status = IF row = NoRow THEN "PENDING" ELSE row.status
           /\ Waived(row).status = IF row = NoRow \/ row.status \in Settled
                                   THEN row.status ELSE "WAIVED"
  BY DEF Begun, Succeeded, Failed, Waived, Reserved, Row, NoRow, EffectStatus, Settled

\* The ledger answers a retry with a success only for what failed or is in doubt.
LEMMA RetryOutcomes ==
    ASSUME NEW row \in Row \cup {NoRow}, NEW ack \in BOOLEAN
    PROVE  /\ RetryOutcome(row, ack) \in
                  {"SUCCESS", "NOT_FOUND", "ACK_REQUIRED", "NOT_REPAIRABLE"}
           /\ RetryOutcome(row, ack) = "SUCCESS" =>
                  row \in Row /\ row.status \in {"UNKNOWN", "FAILED"}
           /\ (RetryOutcome(row, ack) = "SUCCESS" /\ ~ack) => row.status = "FAILED"
<1>1. CASE row = NoRow
  BY <1>1 DEF RetryOutcome
<1>2. CASE row \in Row
  <2>1. row # NoRow /\ row.status \in EffectStatus
    BY <1>2, LedgerOperations DEF Row, EffectStatus
  <2> QED BY <1>2, <2>1 DEF RetryOutcome, EffectStatus, Settled
<1> QED BY <1>1, <1>2

LEMMA NoRowIsNone == NoRow \notin Row
  BY DEF NoRow, Row, EffectStatus

LEMMA StatusChange ==
    ASSUME NEW row \in Row, NEW status \in EffectStatus
    PROVE  /\ [row EXCEPT !.status = status] \in Row
           /\ [row EXCEPT !.status = status].status = status
  BY DEF Row

\* runEffect between two Activities never invents a status: it keeps its copy, takes
\* the ledger's, or records that the call failed.
LEMMA AfterFinishIs ==
    ASSUME NEW e, NEW stage, NEW local \in EffectRuntime, NEW tried \in BOOLEAN
    PROVE  /\ AfterFinish(e, stage, local, tried).eff \in EffectRuntime
           /\ AfterFinish(e, stage, local, tried).eff.status = local.status
           /\ AfterFinish(e, stage, local, tried).run \in EffectRun
           /\ AfterFinish(e, stage, local, tried).run.reply = "none"
  BY DEF AfterFinish, DispatchOrDoubt, Calling, NoRun, EffectRuntime, EffectRun, Calls, Replies

LEMMA HandledIs ==
    ASSUME TypeOK, NEW e \in Effects
    PROVE  /\ Handled(e).eff \in EffectRuntime
           /\ \/ Handled(e).eff.status \in {"FAILED", eff[e].status}
              \/ Handled(e).eff.status = run[e].reply /\ run[e].reply \in EffectStatus
           /\ Handled(e).run \in EffectRun
           /\ Handled(e).run.reply = "none"
<1> DEFINE status == run[e].reply
           local == [eff[e] EXCEPT !.status = status, !.due = status # "FAILED"]
           failed == [eff[e] EXCEPT !.status = "FAILED", !.due = FALSE]
<1>1. eff[e] \in EffectRuntime /\ run[e] \in EffectRun
  BY DEF TypeOK
<1>2. failed \in EffectRuntime /\ failed.status = "FAILED"
      /\ NoRun \in EffectRun /\ NoRun.reply = "none"
  BY <1>1 DEF EffectRuntime, EffectRun, NoRun, EffectStatus, Replies
<1>3. run[e].tried \in BOOLEAN /\ run[e].call \in Calls \cup {"none"}
  BY <1>1 DEF EffectRun
<1>4. CASE run[e].reply = "error" /\ run[e].call # "resolve"
  <2>1. Handled(e) = [eff |-> failed, run |-> NoRun]
    BY <1>4 DEF Handled, FailedRun
  <2>2. Handled(e).eff = failed /\ Handled(e).run = NoRun
    BY <2>1
  <2> QED BY <1>2, <2>2
<1>5. CASE /\ ~(run[e].reply = "error" /\ run[e].call # "resolve")
           /\ run[e].call \in {"raise", "resolve"}
  <2>1. Handled(e) = AfterFinish(e, run[e].stage, eff[e], run[e].tried)
    BY <1>5 DEF Handled
  <2> QED BY <2>1, <1>1, <1>3, AfterFinishIs
<1>6. CASE /\ ~(run[e].reply = "error" /\ run[e].call # "resolve")
           /\ run[e].call \notin {"raise", "resolve"} /\ status \in EffectStatus
  <2>1. Handled(e) = FinishEffect(e)
    BY <1>6 DEF Handled
  <2>2. local \in EffectRuntime /\ local.status = status
    BY <1>1, <1>6 DEF EffectRuntime
  <2>3. \A call \in Calls :
           LET during == [Calling(call, run[e].tried) EXCEPT !.stage = run[e].call]
           IN during \in EffectRun /\ during.reply = "none"
    BY <1>3 DEF Calling, EffectRun, Replies
  <2>4. CASE status \in {"UNKNOWN", "SENT", "WAIVED"}
    <3> DEFINE call == IF status = "UNKNOWN" THEN "raise" ELSE "resolve"
               during == [Calling(call, run[e].tried) EXCEPT !.stage = run[e].call]
    <3>1. Handled(e) = [eff |-> local, run |-> during]
      BY <2>1, <2>4 DEF FinishEffect, Settled
    <3>2. Handled(e).eff = local /\ Handled(e).run = during
      BY <3>1
    <3>3. during \in EffectRun /\ during.reply = "none"
      BY <2>3 DEF Calls
    <3> QED BY <2>2, <3>2, <3>3, <1>6
  <2>5. CASE status \notin {"UNKNOWN", "SENT", "WAIVED"}
    <3>1. FinishEffect(e) = AfterFinish(e, run[e].call, local, run[e].tried)
      BY <2>5 DEF FinishEffect, Settled
    <3> DEFINE next == AfterFinish(e, run[e].call, local, run[e].tried)
    <3>2. Handled(e) = next
      BY <3>1, <2>1
    <3> HIDE DEF local
    <3>3. /\ next.eff \in EffectRuntime /\ next.eff.status = local.status
          /\ next.run \in EffectRun /\ next.run.reply = "none"
      BY <2>2, <1>3, AfterFinishIs
    <3> HIDE DEF next
    <3> QED BY <3>2, <3>3, <2>2, <1>6
  <2> QED BY <2>4, <2>5
<1>7. CASE /\ ~(run[e].reply = "error" /\ run[e].call # "resolve")
           /\ run[e].call \notin {"raise", "resolve"} /\ status \notin EffectStatus
  BY <1>1, <1>2, <1>7 DEF Handled
<1> QED BY <1>4, <1>5, <1>6, <1>7

-----------------------------------------------------------------------------
(* Type correctness *)

\* A reply leaves everything but the run it is for.
LEMMA ReplyType ==
    ASSUME TypeOK, NEW e \in Effects, NEW reply \in Replies, NEW lost \in BOOLEAN,
           Reply(e, reply, lost)
    PROVE  run' \in [Effects -> EffectRun]
<1>1. ledger[e].tried \in BOOLEAN
  BY LedgerOperations DEF TypeOK
<1>2. \A x \in Replies : [[run[e] EXCEPT !.tried = ledger[e].tried] EXCEPT !.reply = x]
                         \in EffectRun
  BY <1>1 DEF TypeOK, EffectRun
<1> QED BY <1>2 DEF Reply, TypeOK, Replies

LEMMA StatusIsReply ==
    ASSUME TypeOK, NEW e \in Effects
    PROVE  ledger[e].status \in Replies /\ EffectStatus \subseteq Replies
  BY LedgerOperations DEF TypeOK, Replies

\* Every step keeps the types.
LEMMA TypeStep == TypeOK /\ [Next]_vars => TypeOK'
<1> SUFFICES ASSUME TypeOK, [Next]_vars
             PROVE  TypeOK'
  OBVIOUS
<1>1. ASSUME NEW e \in Effects, QueueEffect(e)
      PROVE  TypeOK'
  BY <1>1 DEF QueueEffect, TypeOK, EffectRuntime, EffectStatus
<1>2. ASSUME NEW e \in Effects, StartReadyEffect(e)
      PROVE  TypeOK'
  <2>1. Calling("reserve", FALSE) \in EffectRun
    BY DEF Calling, EffectRun, Calls, Replies
  <2> QED BY <1>2, <2>1 DEF StartReadyEffect, TypeOK
<1>3. ASSUME NEW e \in Effects, BackoffEnds(e)
      PROVE  TypeOK'
  <2>1. [eff[e] EXCEPT !.due = TRUE] \in EffectRuntime
    BY DEF TypeOK, EffectRuntime
  <2> QED BY <1>3, <2>1 DEF BackoffEnds, TypeOK
<1>a. \A e \in Effects : [run[e] EXCEPT !.reply = "error"] \in EffectRun
  BY DEF TypeOK, EffectRun, Replies
<1>4. ASSUME NEW e \in Effects, CallFails(e)
      PROVE  TypeOK'
  BY <1>4, <1>a DEF CallFails, TypeOK
<1>5. ASSUME NEW e \in Effects, Return(e)
      PROVE  TypeOK'
  BY <1>5, HandledIs DEF Return, TypeOK
<1>6. ASSUME NEW e \in Effects, GiveUp(e)
      PROVE  TypeOK'
  BY <1>6, <1>a DEF GiveUp, TypeOK, Waiters
<1>7. ASSUME NEW e \in Effects, WindowCloses(e)
      PROVE  TypeOK'
  BY <1>7 DEF WindowCloses, workflow, TypeOK
<1>8. ASSUME NEW e \in Effects, NEW lost \in BOOLEAN, Reserve(e, lost)
      PROVE  TypeOK'
  <2>1. ledger' \in [Effects -> Row \cup {NoRow}] /\ ledger'[e].status \in Replies
    BY <1>8, LedgerOperations DEF Reserve, TypeOK, Row, Replies
  <2>2. run' \in [Effects -> EffectRun]
    BY <1>8, <2>1, ReplyType DEF Reserve
  <2> QED BY <1>8, <2>1, <2>2 DEF Reserve, TypeOK
<1>9. ASSUME NEW e \in Effects, NEW lost \in BOOLEAN, RetryFailed(e, lost)
      PROVE  TypeOK'
  <2> DEFINE out == RetryOutcome(ledger[e], FALSE)
  <2>1. out \in {"SUCCESS", "NOT_FOUND", "ACK_REQUIRED", "NOT_REPAIRABLE"}
        /\ (out = "SUCCESS" => ledger[e] \in Row)
    BY RetryOutcomes DEF TypeOK
  <2>2. ledger' \in [Effects -> Row \cup {NoRow}]
    BY <1>9, <2>1, StatusChange DEF RetryFailed, TypeOK, EffectStatus
  <2>3. (IF out = "SUCCESS" THEN "PENDING" ELSE out) \in Replies
    BY <2>1 DEF Replies, EffectStatus
  <2>4. run' \in [Effects -> EffectRun]
    BY <1>9, <2>3, ReplyType DEF RetryFailed
  <2> QED BY <1>9, <2>2, <2>4 DEF RetryFailed, TypeOK
<1>10. ASSUME NEW e \in Effects, NEW lost \in BOOLEAN, MarkUnknown(e, lost)
       PROVE  TypeOK'
  <2>1. UnknownEligible(e, ledger[e], e \in old) => ledger[e] \in Row
    BY DEF UnknownEligible, TypeOK, NoRow
  <2>2. ledger' \in [Effects -> Row \cup {NoRow}]
    BY <1>10, <2>1, StatusChange DEF MarkUnknown, TypeOK, EffectStatus
  <2>3. run' \in [Effects -> EffectRun]
    BY <1>10, ReplyType DEF MarkUnknown, Replies, EffectStatus
  <2> QED BY <1>10, <2>2, <2>3 DEF MarkUnknown, TypeOK
<1>11. ASSUME NEW e \in Effects, NEW lost \in BOOLEAN, Raise(e, lost) \/ Resolve(e, lost)
       PROVE  TypeOK'
  <2>1. run' \in [Effects -> EffectRun]
    BY <1>11, ReplyType DEF Raise, Resolve, Replies
  <2> QED BY <1>11, <2>1 DEF Raise, Resolve, TypeOK
<1>12. ASSUME NEW e \in Effects, NEW lost \in BOOLEAN, Begin(e, lost)
       PROVE  TypeOK'
  <2>1. ledger' \in [Effects -> Row \cup {NoRow}] /\ ledger'[e].status \in Replies
    BY <1>12, LedgerOperations DEF Begin, TypeOK, Replies
  <2>2. run' \in [Effects -> EffectRun]
    BY <1>12, <2>1, ReplyType DEF Begin, TypeOK
  <2> QED BY <1>12, <2>1, <2>2 DEF Begin, TypeOK, Waiters
<1>13. ASSUME NEW e \in Effects, NEW w \in Waiters, Send(e, w)
       PROVE  TypeOK'
  BY <1>13 DEF Send, TypeOK
<1>14. ASSUME NEW e \in Effects, NEW w \in Waiters, RecordFails(e, w)
       PROVE  TypeOK'
  BY <1>14 DEF RecordFails, workflow, TypeOK
<1>15. ASSUME NEW e \in Effects, NEW w \in Waiters, DispatchDies(e, w)
       PROVE  TypeOK'
  BY <1>15, <1>a DEF DispatchDies, TypeOK
<1>16. ASSUME NEW e \in Effects, NEW w \in Waiters, NEW lost \in BOOLEAN, Record(e, w, lost)
       PROVE  TypeOK'
  <2>1. ledger' \in [Effects -> Row \cup {NoRow}] /\ ledger'[e].status \in Replies
    BY <1>16, LedgerOperations DEF Record, TypeOK, Replies
  <2>2. run' \in [Effects -> EffectRun]
    BY <1>16, <2>1, ReplyType DEF Record, TypeOK
  <2> QED BY <1>16, <2>1, <2>2 DEF Record, TypeOK
<1>17. ASSUME NEW r \in Repairs, RequestRepair(r)
       PROVE  TypeOK'
  BY <1>17 DEF RequestRepair, TypeOK, RepairRun
<1>18. ASSUME NEW r \in Repairs, RepairReturn(r)
       PROVE  TypeOK'
  <2> DEFINE e == RepairOf[r].effect
  <2>1. RepairOf[r].ack \in BOOLEAN /\ e \in Effects
    BY RepairAssumption
  <2>2. [status |-> "PENDING", due |-> TRUE, manual |-> RepairOf[r].ack] \in EffectRuntime
    BY <2>1 DEF EffectRuntime, EffectStatus
  <2>3. eff' \in [Effects -> EffectRuntime]
    <3>1. eff[e] \in EffectRuntime
      BY <2>1 DEF TypeOK
    <3>2. [[eff[e] EXCEPT !.status = "WAIVED"] EXCEPT !.due = TRUE] \in EffectRuntime
      BY <3>1 DEF EffectRuntime, EffectStatus
    <3> QED BY <1>18, <2>1, <2>2, <3>2 DEF RepairReturn, TypeOK
  <2>4. repair' \in [Repairs -> RepairRun]
    <3>1. \A pc \in {"new", "resolve", "done"}, reply \in {"none", repair[r].reply} :
             [[repair[r] EXCEPT !.pc = pc] EXCEPT !.reply = reply] \in RepairRun
      BY DEF TypeOK, RepairRun
    <3> QED BY <1>18, <3>1 DEF RepairReturn, TypeOK
  <2> QED BY <1>18, <2>3, <2>4 DEF RepairReturn, TypeOK
<1>19. ASSUME NEW r \in Repairs, RepairResolve(r)
       PROVE  TypeOK'
  <2>1. [repair[r] EXCEPT !.pc = "done"] \in RepairRun
    BY DEF TypeOK, RepairRun
  <2> QED BY <1>19, <2>1 DEF RepairResolve, TypeOK
<1>20. ASSUME NEW r \in Repairs, NEW lost \in BOOLEAN, RepairCommit(r, lost)
       PROVE  TypeOK'
  <2> DEFINE e == RepairOf[r].effect
             retried == RetryOutcome(ledger[e], RepairOf[r].ack)
  <2>1. RepairOf[r].ack \in BOOLEAN /\ e \in Effects
    BY RepairAssumption
  <2>2. /\ retried \in {"SUCCESS", "NOT_FOUND", "ACK_REQUIRED", "NOT_REPAIRABLE"}
        /\ (retried = "SUCCESS" => ledger[e] \in Row)
    BY <2>1, RetryOutcomes DEF TypeOK
  <2>3. ledger' \in [Effects -> Row \cup {NoRow}]
    BY <1>20, <2>1, <2>2, StatusChange, LedgerOperations DEF RepairCommit, TypeOK, EffectStatus
  <2>4. repair' \in [Repairs -> RepairRun]
    BY <1>20, <2>2 DEF RepairCommit, TypeOK, RepairRun
  <2>5. licence' \subseteq Repairs
    BY <1>20, <2>1 DEF RepairCommit, TypeOK
  <2> QED BY <1>20, <2>3, <2>4, <2>5 DEF RepairCommit, TypeOK
<1>21. CASE EndCase \/ Close \/ UNCHANGED vars
  BY <1>21 DEF EndCase, Close, vars, TypeOK
<1> QED BY <1>1, <1>2, <1>3, <1>4, <1>5, <1>6, <1>7, <1>8, <1>9, <1>10, <1>11, <1>12,
           <1>13, <1>14, <1>15, <1>16, <1>17, <1>18, <1>19, <1>20, <1>21
        DEF Next, RunCommit

LEMMA InitType == Init => TypeOK
<1>1. Unqueued \in EffectRuntime /\ NoRun \in EffectRun
  BY DEF Unqueued, NoRun, EffectRuntime, EffectRun, Replies
<1>2. [pc |-> "new", reply |-> "none"] \in RepairRun
  BY DEF RepairRun
<1> QED BY <1>1, <1>2 DEF Init, TypeOK

\* Every run of EffectDelivery is well typed: what runEffect and the repair handlers
\* pass on as a status is one the ledger knows.
THEOREM EffectTypes == Spec => []TypeOK
  BY InitType, TypeStep, PTL DEF Spec

-----------------------------------------------------------------------------
(* The inductive invariant is kept *)

\* Every step: no row is removed, and what is settled stays as it is.
LedgerKeeps ==
    \A e \in Effects :
        /\ ledger[e] # NoRow => ledger'[e] # NoRow
        /\ ledger[e].status \in Settled => ledger'[e].status = ledger[e].status

LEMMA LedgerStep == TypeOK /\ [Next]_vars => LedgerKeeps
<1> SUFFICES ASSUME TypeOK, [Next]_vars
             PROVE  LedgerKeeps
  OBVIOUS
<1> USE DEF LedgerKeeps
<1>a. \A e \in Effects : ledger[e] \in Row \cup {NoRow}
  BY DEF TypeOK
<1>1. ASSUME NEW e \in Effects, NEW lost \in BOOLEAN, Reserve(e, lost)
      PROVE  LedgerKeeps
  <2>1. ledger' = [ledger EXCEPT ![e] = Reserved(ledger[e])]
    BY <1>1 DEF Reserve
  <2>2. Reserved(ledger[e]) # NoRow
    BY <1>a, LedgerOperations, NoRowIsNone
  <2>3. ledger[e].status \in Settled => Reserved(ledger[e]) = ledger[e]
    BY <1>a, LedgerOperations DEF Settled
  <2> QED BY <2>1, <2>2, <2>3 DEF TypeOK
<1>2. ASSUME NEW e \in Effects, NEW lost \in BOOLEAN, RetryFailed(e, lost)
      PROVE  LedgerKeeps
  <2>1. RetryOutcome(ledger[e], FALSE) = "SUCCESS" =>
            ledger[e] \in Row /\ ledger[e].status = "FAILED"
    BY <1>a, RetryOutcomes
  <2> QED BY <1>2, <2>1, LedgerOperations, StatusChange
          DEF RetryFailed, TypeOK, Settled, EffectStatus
<1>3. ASSUME NEW e \in Effects, NEW lost \in BOOLEAN, MarkUnknown(e, lost)
      PROVE  LedgerKeeps
  <2>1. UnknownEligible(e, ledger[e], e \in old) =>
            ledger[e] \in Row /\ ledger[e].status \in {"PENDING", "FAILED"}
    BY <1>a, LedgerOperations DEF UnknownEligible
  <2>2. UnknownEligible(e, ledger[e], e \in old) =>
            [ledger[e] EXCEPT !.status = "UNKNOWN"] # NoRow /\ ledger[e].status \notin Settled
    BY <2>1, LedgerOperations, StatusChange DEF Settled, EffectStatus
  <2>3. \/ /\ UnknownEligible(e, ledger[e], e \in old)
           /\ ledger' = [ledger EXCEPT ![e] = [ledger[e] EXCEPT !.status = "UNKNOWN"]]
        \/ ledger' = ledger
    BY <1>3 DEF MarkUnknown
  <2> QED BY <2>2, <2>3 DEF TypeOK
<1>4. ASSUME NEW e \in Effects, NEW lost \in BOOLEAN, Begin(e, lost)
      PROVE  LedgerKeeps
  BY <1>4, <1>a, LedgerOperations, LedgerStatus DEF Begin, TypeOK
<1>5. ASSUME NEW e \in Effects, NEW w \in Waiters, NEW lost \in BOOLEAN, Record(e, w, lost)
      PROVE  LedgerKeeps
  <2>1. PICK new \in {Succeeded(ledger[e]), Failed(ledger[e])} :
            ledger' = [ledger EXCEPT ![e] = new]
    BY <1>5 DEF Record
  <2>2. new = NoRow <=> ledger[e] = NoRow
    BY <1>a, LedgerOperations
  <2>3. ledger[e].status \in Settled => new.status = ledger[e].status
    BY <1>a, LedgerStatus DEF Settled
  <2> QED BY <2>1, <2>2, <2>3 DEF TypeOK
<1>6. ASSUME NEW r \in Repairs, NEW lost \in BOOLEAN, RepairCommit(r, lost)
      PROVE  LedgerKeeps
  <2> DEFINE e == RepairOf[r].effect
             retried == RetryOutcome(ledger[e], RepairOf[r].ack)
  <2>1. RepairOf[r].ack \in BOOLEAN /\ e \in Effects
    BY RepairAssumption
  <2>2. retried = "SUCCESS" => ledger[e] \in Row /\ ledger[e].status \in {"UNKNOWN", "FAILED"}
    BY <1>a, <2>1, RetryOutcomes
  <2>3. Waived(ledger[e]) = NoRow <=> ledger[e] = NoRow
    BY <1>a, <2>1, LedgerOperations
  <2>4. ledger[e].status \in Settled => Waived(ledger[e]).status = ledger[e].status
    BY <1>a, <2>1, LedgerStatus
  <2>5. retried = "SUCCESS" =>
            [ledger[e] EXCEPT !.status = "PENDING"] # NoRow /\ ledger[e].status \notin Settled
    BY <2>2, StatusChange, LedgerOperations DEF EffectStatus, Settled
  <2>6. \/ ledger' = [ledger EXCEPT ![e] = Waived(ledger[e])]
        \/ retried = "SUCCESS"
           /\ ledger' = [ledger EXCEPT ![e] = [ledger[e] EXCEPT !.status = "PENDING"]]
        \/ ledger' = ledger
    BY <1>6 DEF RepairCommit
  <2> QED BY <2>1, <2>3, <2>4, <2>5, <2>6 DEF TypeOK
<1>7. CASE UNCHANGED ledger
  BY <1>7
<1>8. Next => \/ UNCHANGED ledger
              \/ \E e \in Effects, lost \in BOOLEAN :
                    Reserve(e, lost) \/ RetryFailed(e, lost) \/ MarkUnknown(e, lost)
                    \/ Begin(e, lost)
              \/ \E e \in Effects, w \in Waiters, lost \in BOOLEAN : Record(e, w, lost)
              \/ \E r \in Repairs, lost \in BOOLEAN : RepairCommit(r, lost)
  BY DEF Next, QueueEffect, StartReadyEffect, BackoffEnds, CallFails, Return, GiveUp,
         WindowCloses, RunCommit, Raise, Resolve, Send, RecordFails, DispatchDies,
         RequestRepair, RepairReturn, RepairResolve, EndCase, Close, workflow
<1> QED BY <1>1, <1>2, <1>3, <1>4, <1>5, <1>6, <1>7, <1>8 DEF vars

\* What a step does to the Workflow's copy of an effect: what was queued stays
\* queued, and it is settled only on the word of the ledger.
LEMMA CopyStep == IInv /\ [Next]_vars =>
    \A e \in Effects :
        /\ eff'[e].status = "NONE" => eff'[e] = Unqueued
        /\ eff[e] # Unqueued => eff'[e] # Unqueued
        /\ eff'[e].status \in Settled => ledger[e].status \in Settled
<1> DEFINE Good(e) ==
        /\ eff'[e].status = "NONE" => eff'[e] = Unqueued
        /\ eff[e] # Unqueued => eff'[e] # Unqueued
        /\ eff'[e].status \in Settled => ledger[e].status \in Settled
<1> SUFFICES ASSUME IInv, [Next]_vars
             PROVE  \A e \in Effects : Good(e)
  OBVIOUS
<1>a. /\ eff \in [Effects -> EffectRuntime] /\ Unqueued.status = "NONE"
      /\ \A e \in Effects : eff[e].status = "NONE" => eff[e] = Unqueued
      /\ \A e \in Effects : eff[e].status \in Settled => ledger[e].status \in Settled
      /\ "NONE" \notin EffectStatus \cup Settled
  BY DEF IInv, TypeOK, OnlyQueuedIsDone, SettledInLedger, Unqueued, EffectStatus, Settled
<1>1. ASSUME NEW x \in Effects, QueueEffect(x)
      PROVE  \A e \in Effects : Good(e)
  BY <1>1, <1>a DEF QueueEffect, Settled
<1>2. ASSUME NEW x \in Effects, BackoffEnds(x)
      PROVE  \A e \in Effects : Good(e)
  <2>1. eff' = [eff EXCEPT ![x] = [eff[x] EXCEPT !.due = TRUE]]
        /\ eff[x].status = "FAILED"
    BY <1>2 DEF BackoffEnds
  <2>2. [eff[x] EXCEPT !.due = TRUE].status = "FAILED"
    BY <1>a, <2>1 DEF EffectRuntime
  <2> QED BY <1>a, <2>1, <2>2 DEF Settled
<1>3. ASSUME NEW x \in Effects, Return(x)
      PROVE  \A e \in Effects : Good(e)
  <2>1. eff' = [eff EXCEPT ![x] = Handled(x).eff] /\ run[x].reply # "none"
    BY <1>3 DEF Return
  <2>2. run[x] # NoRun /\ eff[x] # Unqueued /\ eff[x].status # "NONE"
    BY <2>1, <1>a DEF NoRun, IInv, OnlyQueuedIsDone
  <2>3. Handled(x).eff.status # "NONE"
    BY <2>2, <1>a, HandledIs DEF IInv, EffectStatus
  <2>4. Handled(x).eff.status \in Settled => ledger[x].status \in Settled
    BY <1>a, HandledIs DEF IInv, SettledInLedger, Settled
  <2> QED BY <1>a, <2>1, <2>3, <2>4
<1>4. ASSUME NEW r \in Repairs, RepairReturn(r)
      PROVE  \A e \in Effects : Good(e)
  <2> DEFINE x == RepairOf[r].effect
             retry == [status |-> "PENDING", due |-> TRUE, manual |-> RepairOf[r].ack]
             waive == [[eff[x] EXCEPT !.status = "WAIVED"] EXCEPT !.due = TRUE]
  <2>1. x \in Effects
    BY RepairAssumption
  <2>2. \/ eff' = [eff EXCEPT ![x] = retry]
        \/ /\ eff' = [eff EXCEPT ![x] = waive]
           /\ RepairOf[r].kind = "waive"
           /\ repair[r].pc = "called" /\ repair[r].reply = "SUCCESS"
        \/ eff' = eff
    BY <1>4, <2>1, <1>a DEF RepairReturn
  <2>3. retry.status = "PENDING" /\ waive.status = "WAIVED"
    BY <1>a, <2>1 DEF EffectRuntime
  <2>4. (/\ RepairOf[r].kind = "waive"
         /\ repair[r].pc = "called" /\ repair[r].reply = "SUCCESS")
        => ledger[x].status \in Settled
    BY DEF IInv, RepairHasRow
  <2> HIDE DEF retry, waive, x
  <2> QED BY <1>a, <2>1, <2>2, <2>3, <2>4 DEF Settled
<1>5. CASE UNCHANGED eff
  BY <1>5, <1>a
<1>6. Next => \/ UNCHANGED eff
              \/ \E e \in Effects : QueueEffect(e) \/ BackoffEnds(e) \/ Return(e)
              \/ \E r \in Repairs : RepairReturn(r)
  BY DEF Next, StartReadyEffect, CallFails, GiveUp, WindowCloses, RunCommit, Reserve,
         RetryFailed, MarkUnknown, Raise, Resolve, Begin, Send, Record, RecordFails,
         DispatchDies, RequestRepair, RepairResolve, RepairCommit, EndCase, Close, workflow
<1> HIDE DEF Good
<1>7. \A e \in Effects : Good(e)
  BY <1>1, <1>2, <1>3, <1>4, <1>5, <1>6 DEF vars
<1> QED BY <1>7 DEF Good

\* What a step does to a runEffect: it runs for a queued effect, and is told that
\* the effect is settled only on the word of the ledger.
LEMMA RunStep == IInv /\ [Next]_vars =>
    \A e \in Effects :
        /\ run'[e] # NoRun => eff[e] # Unqueued
        /\ run'[e].reply \in Settled => ledger'[e].status \in Settled
<1> DEFINE Good(e) ==
        /\ run'[e] # NoRun => eff[e] # Unqueued
        /\ run'[e].reply \in Settled => ledger'[e].status \in Settled
<1> SUFFICES ASSUME IInv, [Next]_vars
             PROVE  \A e \in Effects : Good(e)
  OBVIOUS
<1>a. /\ run \in [Effects -> EffectRun] /\ NoRun.reply = "none" /\ NoRun.call = "none"
      /\ \A e \in Effects : run[e] # NoRun => eff[e] # Unqueued
      /\ \A e \in Effects, w \in Waiters : route[<<e, w>>] # "idle" => eff[e] # Unqueued
      /\ \A e \in Effects : run[e].reply \in Settled => ledger'[e].status \in Settled
      /\ "none" \notin Settled /\ "error" \notin Settled /\ "PENDING" \notin Settled
  BY LedgerStep DEF IInv, TypeOK, OnlyQueuedIsDone, SettledInLedger, LedgerKeeps, NoRun, Settled
<1>1. ASSUME NEW x \in Effects, StartReadyEffect(x)
      PROVE  \A e \in Effects : Good(e)
  <2>1. Calling("reserve", FALSE).reply = "none" /\ eff[x] # Unqueued
    BY <1>1 DEF Calling, StartReadyEffect, Unqueued
  <2> QED BY <1>1, <1>a, <2>1 DEF StartReadyEffect
<1>2. ASSUME NEW x \in Effects, NEW reply, NEW lost \in BOOLEAN, Reply(x, reply, lost),
             eff[x] # Unqueued, reply \in Settled => ledger'[x].status \in Settled
      PROVE  \A e \in Effects : Good(e)
  <2>1. /\ \A e \in Effects \ {x} : run'[e] = run[e]
        /\ run'[x].reply \in {"error", reply}
    BY <1>2, <1>a DEF Reply, EffectRun
  <2> QED BY <1>2, <1>a, <2>1
<1>3. ASSUME NEW x \in Effects, run' = [run EXCEPT ![x].reply = "error"], eff[x] # Unqueued
      PROVE  \A e \in Effects : Good(e)
  <2>1. /\ \A e \in Effects \ {x} : run'[e] = run[e]
        /\ run'[x].reply = "error"
    BY <1>3, <1>a DEF EffectRun
  <2> QED BY <1>3, <1>a, <2>1
<1>4. ASSUME NEW x \in Effects, Return(x)
      PROVE  \A e \in Effects : Good(e)
  <2>1. /\ \A e \in Effects \ {x} : run'[e] = run[e]
        /\ run'[x].reply = "none" /\ eff[x] # Unqueued
    BY <1>4, <1>a, HandledIs DEF Return, IInv
  <2> QED BY <1>a, <2>1
<1>5. CASE UNCHANGED run
  BY <1>5, <1>a
<1>6. ASSUME NEW e \in Effects, NEW lost \in BOOLEAN, RunCommit(e, lost)
      PROVE  \A x \in Effects : Good(x)
  <2>1. eff[e] # Unqueued
    BY <1>6, <1>a DEF RunCommit, Reserve, RetryFailed, MarkUnknown, Raise, Resolve, Begin,
                      Awaiting
  <2>2. CASE Reserve(e, lost)
    BY <2>1, <2>2, <1>2 DEF Reserve
  <2>3. CASE RetryFailed(e, lost)
    <3>1. RetryOutcome(ledger[e], FALSE) \notin Settled
      BY RetryOutcomes DEF IInv, TypeOK, Settled
    <3> QED BY <2>1, <2>3, <3>1, <1>2, <1>a DEF RetryFailed
  <2>4. CASE MarkUnknown(e, lost)
    <3>1. "UNKNOWN" \notin Settled
      BY DEF Settled
    <3> QED BY <2>1, <2>4, <3>1, <1>2, <1>a DEF MarkUnknown
  <2>5. CASE Raise(e, lost) \/ Resolve(e, lost)
    <3>1. "ok" \notin Settled
      BY DEF Settled
    <3> QED BY <2>1, <2>5, <3>1, <1>2 DEF Raise, Resolve
  <2>6. CASE Begin(e, lost)
    BY <2>1, <2>6, <1>2, <1>5 DEF Begin
  <2> QED BY <1>6, <2>2, <2>3, <2>4, <2>5, <2>6 DEF RunCommit
<1>7. ASSUME NEW e \in Effects, CallFails(e) \/ GiveUp(e)
      PROVE  \A x \in Effects : Good(x)
  <2>1. eff[e] # Unqueued
    BY <1>7, <1>a DEF CallFails, GiveUp, Waiters
  <2> QED BY <2>1, <1>3, <1>7 DEF CallFails, GiveUp
<1>8. ASSUME NEW e \in Effects, NEW w \in Waiters, DispatchDies(e, w)
      PROVE  \A x \in Effects : Good(x)
  BY <1>8, <1>3, <1>5, <1>a DEF DispatchDies
<1>9. ASSUME NEW e \in Effects, NEW w \in Waiters, NEW lost \in BOOLEAN, Record(e, w, lost)
      PROVE  \A x \in Effects : Good(x)
  <2>1. eff[e] # Unqueued
    BY <1>9, <1>a DEF Record
  <2> QED BY <1>9, <2>1, <1>2, <1>5 DEF Record
<1>10. Next => \/ UNCHANGED run
               \/ \E e \in Effects : StartReadyEffect(e) \/ Return(e) \/ CallFails(e)
                                     \/ GiveUp(e)
               \/ \E e \in Effects, lost \in BOOLEAN : RunCommit(e, lost)
               \/ \E e \in Effects, w \in Waiters :
                     DispatchDies(e, w) \/ \E lost \in BOOLEAN : Record(e, w, lost)
  BY DEF Next, QueueEffect, BackoffEnds, WindowCloses, Send, RecordFails,
         RequestRepair, RepairReturn, RepairResolve, RepairCommit, EndCase, Close, workflow
<1> HIDE DEF Good
<1>11. \A e \in Effects : Good(e)
  BY <1>1, <1>4, <1>5, <1>6, <1>7, <1>8, <1>9, <1>10 DEF vars
<1> QED BY <1>11 DEF Good

\* A row is inserted for a queued effect only.
LEMMA RowStep == IInv /\ [Next]_vars =>
    \A e \in Effects : ledger'[e] # NoRow => eff[e] # Unqueued
<1> SUFFICES ASSUME IInv, [Next]_vars, NEW e \in Effects, ledger'[e] # NoRow,
                    ledger[e] = NoRow
             PROVE  eff[e] # Unqueued
  BY DEF IInv, OnlyQueuedIsDone
<1>a. /\ ledger \in [Effects -> Row \cup {NoRow}]
      /\ NoRow.status = "ABSENT" /\ NoRun.call = "none"
      /\ \A x \in Effects : run[x] # NoRun => eff[x] # Unqueued
  BY DEF IInv, TypeOK, OnlyQueuedIsDone, NoRow, NoRun
<1>b. \A new \in {Begun(NoRow), Succeeded(NoRow), Failed(NoRow), Waived(NoRow)} : new = NoRow
  BY LedgerOperations
<1>1. ASSUME NEW x \in Effects, NEW lost \in BOOLEAN, Reserve(x, lost)
      PROVE  eff[e] # Unqueued
  BY <1>1, <1>a DEF Reserve, Awaiting
<1>2. ASSUME NEW x \in Effects, NEW lost \in BOOLEAN, RetryFailed(x, lost)
      PROVE  FALSE
  <2>1. RetryOutcome(NoRow, FALSE) # "SUCCESS"
    BY RetryOutcomes, NoRowIsNone
  <2> QED BY <1>2, <1>a, <2>1 DEF RetryFailed
<1>3. ASSUME NEW x \in Effects, NEW lost \in BOOLEAN, MarkUnknown(x, lost)
      PROVE  FALSE
  BY <1>3, <1>a DEF MarkUnknown, UnknownEligible
<1>4. ASSUME NEW x \in Effects, NEW lost \in BOOLEAN, Begin(x, lost)
      PROVE  FALSE
  BY <1>4, <1>a, <1>b DEF Begin
<1>5. ASSUME NEW x \in Effects, NEW w \in Waiters, NEW lost \in BOOLEAN, Record(x, w, lost)
      PROVE  FALSE
  BY <1>5, <1>a, <1>b DEF Record
<1>6. ASSUME NEW r \in Repairs, NEW lost \in BOOLEAN, RepairCommit(r, lost)
      PROVE  FALSE
  <2>1. RepairOf[r].ack \in BOOLEAN
    BY RepairAssumption
  <2>2. RetryOutcome(NoRow, RepairOf[r].ack) # "SUCCESS"
    BY <2>1, RetryOutcomes, NoRowIsNone
  <2> QED BY <1>6, <1>a, <1>b, <2>2 DEF RepairCommit
<1>7. Next => \/ UNCHANGED ledger
              \/ \E x \in Effects, lost \in BOOLEAN :
                    Reserve(x, lost) \/ RetryFailed(x, lost) \/ MarkUnknown(x, lost)
                    \/ Begin(x, lost)
              \/ \E x \in Effects, w \in Waiters, lost \in BOOLEAN : Record(x, w, lost)
              \/ \E r \in Repairs, lost \in BOOLEAN : RepairCommit(r, lost)
  BY DEF Next, QueueEffect, StartReadyEffect, BackoffEnds, CallFails, Return, GiveUp,
         WindowCloses, RunCommit, Raise, Resolve, Send, RecordFails, DispatchDies,
         RequestRepair, RepairReturn, RepairResolve, EndCase, Close, workflow
<1> QED BY <1>1, <1>2, <1>3, <1>4, <1>5, <1>6, <1>7 DEF vars

\* A dispatch starts from a row, and reports a success only once it is answered.
LEMMA RouteStep == IInv /\ [Next]_vars =>
    \A e \in Effects, w \in Waiters :
        /\ route'[<<e, w>>] # "idle" => ledger[e] # NoRow
        /\ route'[<<e, w>>] = "succeed" => e \in answered'
<1> DEFINE Good ==
        \A e \in Effects, w \in Waiters :
            /\ route'[<<e, w>>] # "idle" => ledger[e] # NoRow
            /\ route'[<<e, w>>] = "succeed" => e \in answered'
<1> SUFFICES ASSUME IInv, [Next]_vars
             PROVE  Good
  OBVIOUS
<1>a. /\ route \in [Effects \X Waiters -> {"idle", "send", "succeed", "fail"}]
      /\ \A e \in Effects, w \in Waiters :
            /\ route[<<e, w>>] # "idle" => ledger[e] # NoRow
            /\ route[<<e, w>>] = "succeed" => e \in answered
  BY DEF IInv, TypeOK, OnlyQueuedIsDone, SuccessWasAnswered
<1>1. ASSUME NEW x \in Effects, NEW lost \in BOOLEAN, Begin(x, lost)
      PROVE  Good
  <2>1. /\ answered' = answered
        /\ \/ route' = route
           \/ /\ ledger[x].status = "PENDING"
              /\ route' = [route EXCEPT ![<<x, "awaited">>] = "send"]
    BY <1>1 DEF Begin
  <2>2. NoRow.status # "PENDING"
    BY DEF NoRow
  <2> QED BY <1>a, <2>1, <2>2
<1>2. ASSUME NEW x \in Effects, NEW w \in Waiters, Send(x, w)
      PROVE  Good
  BY <1>2, <1>a DEF Send
<1>3. ASSUME NEW x \in Effects, NEW w \in Waiters,
             RecordFails(x, w) \/ DispatchDies(x, w) \/ \E lost \in BOOLEAN : Record(x, w, lost)
      PROVE  Good
  BY <1>3, <1>a DEF RecordFails, DispatchDies, Record
<1>4. ASSUME NEW x \in Effects, GiveUp(x)
      PROVE  Good
  BY <1>4, <1>a DEF GiveUp, Waiters
<1>5. CASE UNCHANGED <<route, answered>>
  BY <1>5, <1>a
<1>6. Next => \/ UNCHANGED <<route, answered>>
              \/ \E e \in Effects, lost \in BOOLEAN : Begin(e, lost)
              \/ \E e \in Effects, w \in Waiters :
                    \/ Send(e, w) \/ RecordFails(e, w) \/ DispatchDies(e, w)
                    \/ \E lost \in BOOLEAN : Record(e, w, lost)
              \/ \E e \in Effects : GiveUp(e)
  BY DEF Next, QueueEffect, StartReadyEffect, BackoffEnds, CallFails, Return, WindowCloses,
         RunCommit, Reserve, RetryFailed, MarkUnknown, Raise, Resolve, RequestRepair,
         RepairReturn, RepairResolve, RepairCommit, EndCase, Close, workflow
<1> QED BY <1>1, <1>2, <1>3, <1>4, <1>5, <1>6 DEF vars

\* A repair is told SUCCESS for a row that is there, and a waiver for a settled one.
LEMMA RepairStep == IInv /\ [Next]_vars => RepairHasRow'
<1> SUFFICES ASSUME IInv, [Next]_vars
             PROVE  RepairHasRow'
  OBVIOUS
<1> DEFINE Good(r) ==
        (repair'[r].pc = "called" /\ repair'[r].reply = "SUCCESS") =>
            /\ ledger'[RepairOf[r].effect] # NoRow
            /\ RepairOf[r].kind = "waive" => ledger'[RepairOf[r].effect].status \in Settled
<1>a. \A r \in Repairs : RepairOf[r].effect \in Effects /\ RepairOf[r].ack \in BOOLEAN
                         /\ RepairOf[r].kind \in {"retry", "waive"}
  BY RepairAssumption
<1>b. /\ repair \in [Repairs -> RepairRun] /\ ledger \in [Effects -> Row \cup {NoRow}]
      /\ LedgerKeeps /\ RepairHasRow
  BY LedgerStep DEF IInv, TypeOK
<1>1. ASSUME NEW r \in Repairs, repair'[r] = repair[r]
      PROVE  Good(r)
  BY <1>1, <1>a, <1>b DEF LedgerKeeps, RepairHasRow
<1>2. ASSUME NEW r \in Repairs, RequestRepair(r) \/ RepairReturn(r) \/ RepairResolve(r)
      PROVE  \A x \in Repairs : Good(x)
  <2>1. /\ \A x \in Repairs \ {r} : repair'[x] = repair[x]
        /\ repair'[r].pc # "called" \/ repair'[r].reply = "none"
    BY <1>2, <1>b DEF RequestRepair, RepairReturn, RepairResolve, RepairRun
  <2> QED BY <1>1, <2>1
<1>3. ASSUME NEW r \in Repairs, NEW lost \in BOOLEAN, RepairCommit(r, lost)
      PROVE  \A x \in Repairs : Good(x)
  <2> DEFINE e == RepairOf[r].effect
             retried == RetryOutcome(ledger[e], RepairOf[r].ack)
  <2>1. \A x \in Repairs \ {r} : repair'[x] = repair[x]
    BY <1>3, <1>b DEF RepairCommit
  <2>2. CASE RepairOf[r].kind = "retry"
    <3>1. repair'[r].reply = "SUCCESS" => retried = "SUCCESS"
      BY <1>3, <1>b, <2>2 DEF RepairCommit, RepairRun
    <3>2. retried = "SUCCESS" => ledger[e] # NoRow
      BY <1>a, <1>b, RetryOutcomes, NoRowIsNone
    <3>3. Good(r)
      BY <1>a, <1>b, <2>2, <3>1, <3>2 DEF LedgerKeeps
    <3> QED BY <1>1, <2>1, <3>3
  <2>3. CASE RepairOf[r].kind = "waive"
    <3>1. repair'[r].reply = "SUCCESS" => ledger[e] # NoRow
      BY <1>3, <1>b, <2>3 DEF RepairCommit, RepairRun
    <3>2. ledger' = [ledger EXCEPT ![e] = Waived(ledger[e])]
      BY <1>3, <2>3 DEF RepairCommit
    <3>3. ledger[e] # NoRow => Waived(ledger[e]).status \in Settled /\ Waived(ledger[e]) # NoRow
      BY <1>a, <1>b, LedgerOperations, LedgerStatus DEF Settled
    <3>4. Good(r)
      BY <1>a, <1>b, <2>3, <3>1, <3>2, <3>3
    <3> QED BY <1>1, <2>1, <3>4
  <2> QED BY <1>a, <2>2, <2>3
<1>4. Next => \/ UNCHANGED repair
              \/ \E r \in Repairs : RequestRepair(r) \/ RepairReturn(r) \/ RepairResolve(r)
              \/ \E r \in Repairs, lost \in BOOLEAN : RepairCommit(r, lost)
  BY DEF Next, QueueEffect, StartReadyEffect, BackoffEnds, CallFails, Return, GiveUp,
         WindowCloses, RunCommit, Reserve, RetryFailed, MarkUnknown, Raise, Resolve, Begin,
         Send, Record, RecordFails, DispatchDies, EndCase, Close, workflow
<1>5. \A r \in Repairs : Good(r)
  <2> HIDE DEF Good
  <2> QED BY <1>1, <1>2, <1>3, <1>4 DEF vars
<1> QED BY <1>5 DEF RepairHasRow

LEMMA InvStep == IInv /\ [Next]_vars => IInv'
<1> SUFFICES ASSUME IInv, [Next]_vars
             PROVE  IInv'
  OBVIOUS
<1>1. TypeOK'
  BY TypeStep DEF IInv
<1>2. LedgerKeeps
  BY LedgerStep DEF IInv
<1>3. OnlyQueuedIsDone'
  BY <1>2, CopyStep, RunStep, RowStep, RouteStep DEF OnlyQueuedIsDone, LedgerKeeps
<1>4. SuccessWasAnswered'
  BY RouteStep DEF SuccessWasAnswered
<1>5. SettledInLedger'
  BY <1>2, CopyStep, RunStep DEF SettledInLedger, LedgerKeeps
<1>6. RepairHasRow'
  BY RepairStep
<1>7. ClosedIsClosing'
  BY DEF IInv, ClosedIsClosing, Next, vars, QueueEffect, StartReadyEffect, BackoffEnds,
         CallFails, Return, GiveUp, WindowCloses, RunCommit, Reserve, RetryFailed,
         MarkUnknown, Raise, Resolve, Begin, Send, Record, RecordFails, DispatchDies,
         RequestRepair, RepairReturn, RepairResolve, RepairCommit, EndCase, Close, workflow
<1> QED BY <1>1, <1>3, <1>4, <1>5, <1>6, <1>7 DEF IInv

LEMMA InitInv == Init => IInv
<1> SUFFICES ASSUME Init
             PROVE  IInv
  OBVIOUS
<1>1. TypeOK
  BY InitType
<1>2. OnlyQueuedIsDone /\ SuccessWasAnswered
  BY DEF Init, OnlyQueuedIsDone, SuccessWasAnswered
<1>3. SettledInLedger
  BY DEF Init, SettledInLedger, Unqueued, NoRun, Settled
<1>4. RepairHasRow /\ ClosedIsClosing
  BY RepairAssumption DEF Init, RepairHasRow, ClosedIsClosing
<1> QED BY <1>1, <1>2, <1>3, <1>4 DEF IInv

\* Every reachable state satisfies the inductive invariant.
THEOREM EffectInvariant == Spec => []IInv
  BY InitInv, InvStep, PTL DEF Spec

-----------------------------------------------------------------------------
(* The refinement *)

FateMap == [e \in Effects |-> FateOf(e)]

LEMMA RowFates ==
    /\ \A s \in {"ABSENT", "PENDING", "FAILED"} : RowFate(s) = "OWED"
    /\ RowFate("UNKNOWN") = "DOUBT" /\ RowFate("SENT") = "KEPT"
    /\ RowFate("WAIVED") = "RELEASED"
  BY DEF RowFate

\* A step that changes one row of a queued effect changes one fate.
LEMMA OneFate ==
    ASSUME IInv, NEW e \in Effects, NEW new, eff[e] # Unqueued, eff' = eff,
           ledger' = [ledger EXCEPT ![e] = new]
    PROVE  /\ FateMap[e] = RowFate(ledger[e].status)
           /\ FateMap' = [FateMap EXCEPT ![e] = RowFate(new.status)]
<1>1. ledger \in [Effects -> Row \cup {NoRow}]
  BY DEF IInv, TypeOK
<1>2. /\ \A f \in Effects \ {e} : FateOf(f)' = FateOf(f)
      /\ FateOf(e)' = RowFate(new.status) /\ FateOf(e) = RowFate(ledger[e].status)
  BY <1>1 DEF FateOf
<1> QED BY <1>2 DEF FateMap

\* A step that leaves the rows alone, and queues nothing, changes no fate.
LEMMA NoFate ==
    ASSUME IInv, ledger' = ledger,
           \A e \in Effects : eff'[e] = Unqueued <=> eff[e] = Unqueued
    PROVE  FateMap' = FateMap
  BY DEF FateMap, FateOf

LEMMA InitRefines == Init => Promise!PromiseInit
<1> SUFFICES ASSUME Init
             PROVE  Promise!PromiseInit
  OBVIOUS
<1>1. \A e \in Effects : FateOf(e) = "NONE"
  BY DEF Init, FateOf
<1> QED BY <1>1 DEF Init, Promise!PromiseInit

\* Every step of the ledger, the Workflow and the calls between them is a step of
\* the promise, or changes nothing of it.
LEMMA StepRefines == IInv /\ [Next]_vars => [Promise!PromiseNext]_Promise!promiseVars
<1> DEFINE Stutters == FateMap' = FateMap /\ answered' = answered /\ closed' = closed
           Becomes(e, before, after) ==
               /\ FateMap[e] \in before /\ FateMap' = [FateMap EXCEPT ![e] = after]
               /\ answered' = answered /\ closed' = closed
           Abstract ==
               \/ Stutters
               \/ \E e \in Effects :
                     \/ ~closed /\ Becomes(e, {"NONE"}, "OWED")
                     \/ e \in answered /\ Becomes(e, {"OWED"}, "KEPT")
                     \/ e \in Emails /\ Becomes(e, {"OWED"}, "DOUBT")
                     \/ Becomes(e, {"DOUBT"}, "OWED")
                     \/ Becomes(e, {"OWED", "DOUBT"}, "RELEASED")
                     \/ /\ FateMap[e] # "NONE" /\ answered' = answered \cup {e}
                        /\ FateMap' = FateMap /\ closed' = closed
               \/ /\ \A e \in Effects : FateMap[e] \in {"NONE", "KEPT", "RELEASED"}
                  /\ closed' = TRUE /\ FateMap' = FateMap /\ answered' = answered
<1> SUFFICES ASSUME IInv, [Next]_vars
             PROVE  [Promise!PromiseNext]_Promise!promiseVars
  OBVIOUS
<1>a. /\ ledger \in [Effects -> Row \cup {NoRow}]
      /\ \A e \in Effects : ledger[e] # NoRow => eff[e] # Unqueued
      /\ \A e \in Effects : run[e] # NoRun => eff[e] # Unqueued
      /\ NoRow.status = "ABSENT" /\ NoRun.call = "none"
  BY DEF IInv, TypeOK, OnlyQueuedIsDone, NoRow, NoRun
<1>1. ASSUME NEW e \in Effects, QueueEffect(e)
      PROVE  Abstract
  <2>1. eff[e] = Unqueued /\ ledger[e] = NoRow /\ ~closed
    BY <1>1, <1>a DEF QueueEffect, IInv, ClosedIsClosing
  <2>2. /\ \A f \in Effects \ {e} : FateOf(f)' = FateOf(f)
        /\ FateOf(e) = "NONE" /\ FateOf(e)' = RowFate("ABSENT")
    BY <1>1, <1>a, <2>1 DEF QueueEffect, FateOf, IInv, TypeOK, Unqueued
  <2>3. FateMap' = [FateMap EXCEPT ![e] = "OWED"] /\ FateMap[e] = "NONE"
    BY <2>2, RowFates DEF FateMap
  <2> QED BY <1>1, <2>1, <2>3 DEF QueueEffect
<1>2. ASSUME ledger' = ledger, answered' = answered, closed' = closed,
             \/ UNCHANGED eff
             \/ \E e \in Effects : BackoffEnds(e) \/ Return(e)
             \/ \E r \in Repairs : RepairReturn(r)
      PROVE  Abstract
  <2>1. \A e \in Effects : eff'[e] # eff[e] => eff[e] # Unqueued
    <3>1. ASSUME NEW x \in Effects, BackoffEnds(x) \/ Return(x)
          PROVE  \A e \in Effects : eff'[e] # eff[e] => eff[e] # Unqueued
      <4>1. eff[x] # Unqueued
        BY <3>1, <1>a DEF BackoffEnds, Return, Unqueued, NoRun
      <4> QED BY <3>1, <4>1 DEF BackoffEnds, Return, IInv, TypeOK
    <3>2. ASSUME NEW r \in Repairs, RepairReturn(r)
          PROVE  \A e \in Effects : eff'[e] # eff[e] => eff[e] # Unqueued
      <4> DEFINE x == RepairOf[r].effect
      <4>1. x \in Effects
        BY RepairAssumption
      <4>2. eff' # eff => ledger[x] # NoRow
        BY <3>2 DEF RepairReturn, IInv, RepairHasRow
      <4>3. \A e \in Effects \ {x} : eff'[e] = eff[e]
        BY <3>2 DEF RepairReturn, IInv, TypeOK
      <4> QED BY <1>a, <4>1, <4>2, <4>3
    <3> QED BY <1>2, <3>1, <3>2
  <2>2. \A e \in Effects : eff'[e] = Unqueued <=> eff[e] = Unqueued
    BY <2>1, CopyStep
  <2> QED BY <1>2, <2>2, NoFate
<1>3. ASSUME NEW e \in Effects, NEW new, eff[e] # Unqueued, eff' = eff, closed' = closed,
             answered' = answered, ledger' = [ledger EXCEPT ![e] = new],
             RowFate(new.status) = RowFate(ledger[e].status)
      PROVE  Abstract
  <2>1. FateMap' = FateMap
    BY <1>3, OneFate DEF FateMap
  <2> QED BY <1>3, <2>1
<1>4. ASSUME NEW e \in Effects, NEW lost \in BOOLEAN, Reserve(e, lost)
      PROVE  Abstract
  <2>1. eff[e] # Unqueued
    BY <1>4, <1>a DEF Reserve, Awaiting
  <2>2. RowFate(Reserved(ledger[e]).status) = RowFate(ledger[e].status)
    BY <1>a, LedgerStatus, RowFates
  <2> QED BY <1>4, <2>1, <2>2, <1>3 DEF Reserve
<1>5. ASSUME NEW e \in Effects, NEW lost \in BOOLEAN, RetryFailed(e, lost)
      PROVE  Abstract
  <2> DEFINE new == [ledger[e] EXCEPT !.status = "PENDING"]
  <2>1. eff[e] # Unqueued
    BY <1>5, <1>a DEF RetryFailed, Awaiting
  <2>2. CASE RetryOutcome(ledger[e], FALSE) = "SUCCESS"
    <3>1. ledger[e] \in Row /\ ledger[e].status = "FAILED"
      BY <2>2, <1>a, RetryOutcomes
    <3>2. RowFate(new.status) = RowFate(ledger[e].status)
      BY <3>1, StatusChange, RowFates DEF EffectStatus
    <3>3. ledger' = [ledger EXCEPT ![e] = new]
      BY <1>5, <2>2 DEF RetryFailed
    <3> HIDE DEF new
    <3> QED BY <1>5, <2>1, <3>2, <3>3, <1>3 DEF RetryFailed
  <2>3. CASE RetryOutcome(ledger[e], FALSE) # "SUCCESS"
    BY <1>5, <2>3, <1>2 DEF RetryFailed
  <2> QED BY <2>2, <2>3
<1>6. ASSUME NEW e \in Effects, NEW lost \in BOOLEAN, MarkUnknown(e, lost)
      PROVE  Abstract
  <2> DEFINE new == [ledger[e] EXCEPT !.status = "UNKNOWN"]
  <2>1. eff[e] # Unqueued
    BY <1>6, <1>a DEF MarkUnknown, Awaiting
  <2>2. CASE UnknownEligible(e, ledger[e], e \in old)
    <3>1. e \in Emails /\ ledger[e] \in Row /\ ledger[e].status \in {"PENDING", "FAILED"}
      BY <2>2, <1>a DEF UnknownEligible
    <3>2. ledger' = [ledger EXCEPT ![e] = new] /\ new.status = "UNKNOWN"
      BY <1>6, <2>2, <3>1, StatusChange DEF MarkUnknown, EffectStatus
    <3> HIDE DEF new
    <3>3. FateMap[e] = "OWED" /\ FateMap' = [FateMap EXCEPT ![e] = "DOUBT"]
      <4>1. FateMap[e] = RowFate(ledger[e].status)
            /\ FateMap' = [FateMap EXCEPT ![e] = RowFate(new.status)]
        BY <1>6, <2>1, <3>2, OneFate DEF MarkUnknown
      <4> QED BY <4>1, <3>1, <3>2, RowFates
    <3> QED BY <1>6, <3>1, <3>3 DEF MarkUnknown
  <2>3. CASE ~UnknownEligible(e, ledger[e], e \in old)
    BY <1>6, <2>3, <1>2 DEF MarkUnknown
  <2> QED BY <2>2, <2>3
<1>7. ASSUME NEW e \in Effects, NEW lost \in BOOLEAN, Begin(e, lost)
      PROVE  Abstract
  <2>1. eff[e] # Unqueued
    BY <1>7, <1>a DEF Begin, Awaiting
  <2>2. RowFate(Begun(ledger[e]).status) = RowFate(ledger[e].status)
    BY <1>a, LedgerStatus
  <2> QED BY <1>7, <2>1, <2>2, <1>3 DEF Begin
<1>8. ASSUME NEW e \in Effects, NEW w \in Waiters, Send(e, w)
      PROVE  Abstract
  <2>1. FateMap' = FateMap
    BY <1>8, NoFate DEF Send
  <2>2. ledger[e] # NoRow /\ eff[e] # Unqueued
    BY <1>8, <1>a DEF Send, IInv, OnlyQueuedIsDone
  <2>3. FateMap[e] # "NONE"
    BY <2>2, <1>a, LedgerOperations, RowFates DEF FateMap, FateOf, EffectStatus
  <2> QED BY <1>8, <2>1, <2>3 DEF Send
<1>9. ASSUME NEW e \in Effects, NEW w \in Waiters, NEW lost \in BOOLEAN, Record(e, w, lost)
      PROVE  Abstract
  <2>1. eff[e] # Unqueued
    BY <1>9, <1>a DEF Record, IInv, OnlyQueuedIsDone
  <2>2. CASE route[<<e, w>>] = "succeed" /\ ledger[e].status = "PENDING"
    <3>1. ledger' = [ledger EXCEPT ![e] = Succeeded(ledger[e])]
          /\ Succeeded(ledger[e]).status = "SENT"
      BY <1>9, <2>2, <1>a, LedgerStatus DEF Record
    <3>2. FateMap[e] = "OWED" /\ FateMap' = [FateMap EXCEPT ![e] = "KEPT"]
      <4>1. FateMap[e] = RowFate(ledger[e].status)
            /\ FateMap' = [FateMap EXCEPT ![e] = RowFate(Succeeded(ledger[e]).status)]
        BY <1>9, <2>1, <3>1, OneFate DEF Record
      <4> QED BY <4>1, <2>2, <3>1, RowFates
    <3>3. e \in answered
      BY <2>2 DEF IInv, SuccessWasAnswered
    <3> QED BY <1>9, <3>2, <3>3 DEF Record
  <2>3. CASE ~(route[<<e, w>>] = "succeed" /\ ledger[e].status = "PENDING")
    <3> DEFINE new == IF route[<<e, w>>] = "succeed" THEN Succeeded(ledger[e])
                      ELSE Failed(ledger[e])
    <3>1. ledger' = [ledger EXCEPT ![e] = new]
          /\ RowFate(new.status) = RowFate(ledger[e].status)
      <4>1. ledger' = [ledger EXCEPT ![e] = new]
        BY <1>9 DEF Record
      <4>2. CASE route[<<e, w>>] = "succeed"
        BY <2>3, <4>1, <4>2, <1>a, LedgerStatus
      <4>3. CASE route[<<e, w>>] # "succeed"
        <5>1. new.status = IF ledger[e].status = "PENDING" THEN "FAILED" ELSE ledger[e].status
          BY <4>3, <1>a, LedgerStatus
        <5> QED BY <4>1, <5>1, RowFates
      <4> QED BY <4>2, <4>3
    <3> HIDE DEF new
    <3> QED BY <1>9, <2>1, <3>1, <1>3 DEF Record
  <2> QED BY <2>2, <2>3
<1>10. ASSUME NEW r \in Repairs, NEW lost \in BOOLEAN, RepairCommit(r, lost)
       PROVE  Abstract
  <2> DEFINE e == RepairOf[r].effect
             retried == RetryOutcome(ledger[e], RepairOf[r].ack)
  <2>1. RepairOf[r].ack \in BOOLEAN /\ e \in Effects
    BY RepairAssumption
  <2>2. eff' = eff /\ closed' = closed /\ answered' = answered
    BY <1>10 DEF RepairCommit
  <2>3. CASE ledger' = ledger
    BY <2>2, <2>3, <1>2
  <2>4. CASE /\ RepairOf[r].kind = "waive" /\ ledger[e] # NoRow
             /\ ledger[e].status \notin Settled
    <3>1. ledger' = [ledger EXCEPT ![e] = Waived(ledger[e])]
          /\ Waived(ledger[e]).status = "WAIVED"
      BY <1>10, <2>1, <2>4, <1>a, LedgerStatus DEF RepairCommit
    <3>2. ledger[e].status \in {"PENDING", "FAILED", "UNKNOWN"}
      BY <2>1, <2>4, <1>a, LedgerOperations DEF EffectStatus, Settled
    <3>3. FateMap[e] \in {"OWED", "DOUBT"} /\ FateMap' = [FateMap EXCEPT ![e] = "RELEASED"]
      <4>1. FateMap[e] = RowFate(ledger[e].status)
            /\ FateMap' = [FateMap EXCEPT ![e] = RowFate(Waived(ledger[e]).status)]
        BY <2>1, <2>2, <2>4, <3>1, <1>a, OneFate
      <4> QED BY <4>1, <3>1, <3>2, RowFates
    <3> QED BY <2>1, <2>2, <3>3
  <2>5. CASE /\ RepairOf[r].kind = "waive"
             /\ ledger[e] = NoRow \/ ledger[e].status \in Settled
    <3>1. Waived(ledger[e]) = ledger[e]
      BY <2>5 DEF Waived
    <3>2. ledger' = ledger
      BY <1>10, <2>1, <2>5, <3>1, <1>a DEF RepairCommit
    <3> QED BY <2>3, <3>2
  <2>6. CASE RepairOf[r].kind = "retry" /\ retried = "SUCCESS"
    <3> DEFINE new == [ledger[e] EXCEPT !.status = "PENDING"]
    <3>1. ledger[e] \in Row /\ ledger[e].status \in {"UNKNOWN", "FAILED"}
      BY <2>1, <2>6, <1>a, RetryOutcomes
    <3>2. ledger' = [ledger EXCEPT ![e] = new] /\ new.status = "PENDING"
      BY <1>10, <2>6, <3>1, StatusChange DEF RepairCommit, EffectStatus
    <3> HIDE DEF new
    <3>3. eff[e] # Unqueued
      BY <2>1, <3>1, <1>a, NoRowIsNone
    <3>4. CASE ledger[e].status = "UNKNOWN"
      <4>1. FateMap[e] = "DOUBT" /\ FateMap' = [FateMap EXCEPT ![e] = "OWED"]
        <5>1. FateMap[e] = RowFate(ledger[e].status)
              /\ FateMap' = [FateMap EXCEPT ![e] = RowFate(new.status)]
          BY <2>1, <2>2, <3>2, <3>3, OneFate
        <5> QED BY <5>1, <3>2, <3>4, RowFates
      <4> QED BY <2>1, <2>2, <4>1
    <3>5. CASE ledger[e].status = "FAILED"
      BY <2>1, <2>2, <3>2, <3>3, <3>5, <1>3, RowFates
    <3> QED BY <3>1, <3>4, <3>5
  <2>7. RepairOf[r].kind = "retry" /\ retried # "SUCCESS" => ledger' = ledger
    BY <1>10 DEF RepairCommit
  <2>8. RepairOf[r].kind \in {"retry", "waive"}
    BY RepairAssumption
  <2> QED BY <2>3, <2>4, <2>5, <2>6, <2>7, <2>8
<1>11. ASSUME Close
       PROVE  Abstract
  <2>1. FateMap' = FateMap
    BY <1>11, NoFate DEF Close
  <2>2. ASSUME NEW e \in Effects
        PROVE  FateMap[e] \in {"NONE", "KEPT", "RELEASED"}
    <3>1. eff[e] = Unqueued \/ ledger[e].status \in Settled
      BY <1>11 DEF Close, EffectsSettled, IInv, OnlyQueuedIsDone, SettledInLedger
    <3> QED BY <3>1, RowFates DEF FateMap, FateOf, Settled
  <2> QED BY <1>11, <2>1, <2>2 DEF Close
<1>12. Next =>
          \/ /\ ledger' = ledger /\ answered' = answered /\ closed' = closed
             /\ \/ UNCHANGED eff
                \/ \E e \in Effects : BackoffEnds(e) \/ Return(e)
                \/ \E r \in Repairs : RepairReturn(r)
          \/ \E e \in Effects : QueueEffect(e)
          \/ \E e \in Effects, lost \in BOOLEAN :
                Reserve(e, lost) \/ RetryFailed(e, lost) \/ MarkUnknown(e, lost)
                \/ Begin(e, lost)
          \/ \E e \in Effects, w \in Waiters :
                Send(e, w) \/ \E lost \in BOOLEAN : Record(e, w, lost)
          \/ \E r \in Repairs, lost \in BOOLEAN : RepairCommit(r, lost)
          \/ Close
  BY DEF Next, StartReadyEffect, BackoffEnds, CallFails, Return, GiveUp, WindowCloses,
         RunCommit, Raise, Resolve, RecordFails, DispatchDies, RequestRepair, RepairReturn,
         RepairResolve, EndCase, workflow
<1>13. ASSUME UNCHANGED vars
       PROVE  Abstract
  BY <1>13, <1>2 DEF vars
<1>14. Abstract
  <2> HIDE DEF Abstract
  <2> QED BY <1>1, <1>2, <1>4, <1>5, <1>6, <1>7, <1>8, <1>9, <1>10, <1>11, <1>12, <1>13
<1> QED BY <1>14
        DEF FateMap, Promise!PromiseNext, Promise!promiseVars, Promise!Becomes, Promise!Owe,
            Promise!Keep, Promise!Doubt, Promise!OweAgain, Promise!Release,
            Promise!Deliver, Promise!Close

\* Whatever calls and replies are lost, delayed or overtaken, the ledger and the
\* Workflow's copy of it implement the promise (runEffect and the repair handlers
\* against the Alert atom's Effect Ledger).
THEOREM EffectRefinement == Spec => KeepsThePromise
<1>1. IInv /\ IInv' /\ [Next]_vars => [Promise!PromiseNext]_Promise!promiseVars
  BY StepRefines
<1> QED BY <1>1, InitRefines, EffectInvariant, PTL DEF Spec, KeepsThePromise, Promise!PromiseSpec

-----------------------------------------------------------------------------
(* An e-mail that was tried is dispatched late only on an acknowledgement *)

\* An acknowledgement that the ledger took and whose answer is under way is not used.
AnsweredIsLicensed ==
    \A r \in Repairs :
        (/\ RepairOf[r].kind = "retry" /\ RepairOf[r].ack
         /\ repair[r].pc = "called" /\ repair[r].reply = "SUCCESS") => r \in licence

\* What the Workflow keeps as acknowledged has an acknowledgement to use.
ManualIsLicensed ==
    \A e \in Effects : eff[e].manual => Licences(e) # {}

\* A runEffect that was told whether the e-mail was tried knows it until it dispatches:
\* only a dispatch of its own makes an attempt.
Told(e) ==
    \/ run[e].call \in {"reserve", "retry"} /\ run[e].reply \notin {"none", "error"}
    \/ run[e].call \in {"raise", "resolve"} /\ run[e].stage \in {"reserve", "retry"}
ToldIsTried == \A e \in Effects : Told(e) => run[e].tried = ledger[e].tried

LicenceInv == TypeOK /\ AnsweredIsLicensed /\ ManualIsLicensed /\ ToldIsTried

\* What follows finishEffect: a dispatch uses up the Workflow's copy of the
\* acknowledgement, and one of an e-mail tried out of the window needs it.
LEMMA AfterFinishDispatches ==
    ASSUME NEW e, NEW stage, NEW local \in EffectRuntime, NEW tried \in BOOLEAN
    PROVE  LET next == AfterFinish(e, stage, local, tried) IN
           /\ next.run.call = "dispatch" =>
                 /\ ~next.eff.manual /\ stage \in {"reserve", "retry"}
                 /\ e \in Emails /\ tried /\ e \in old => local.manual
           /\ next.run.call # "dispatch" => next.eff.manual = local.manual
           /\ next.run.call \in {"none", "retry", "unknown", "dispatch"}
<1> DEFINE next == AfterFinish(e, stage, local, tried)
           used == [local EXCEPT !.manual = FALSE]
           Good == /\ next.run.call = "dispatch" =>
                         /\ ~next.eff.manual /\ stage \in {"reserve", "retry"}
                         /\ e \in Emails /\ tried /\ e \in old => local.manual
                   /\ next.run.call # "dispatch" => next.eff.manual = local.manual
                   /\ next.run.call \in {"none", "retry", "unknown", "dispatch"}
<1>1. /\ ~used.manual /\ NoRun.call = "none"
      /\ \A call \in {"retry", "unknown", "dispatch"} : Calling(call, tried).call = call
  BY DEF EffectRuntime, NoRun, Calling
<1>2. ASSUME next = [eff |-> used, run |-> Calling("dispatch", tried)],
             stage \in {"reserve", "retry"},
             ~(e \in Emails /\ ~local.manual /\ tried /\ e \in old)
      PROVE  Good
  <2>1. next.eff = used /\ next.run = Calling("dispatch", tried)
    BY <1>2
  <2> HIDE DEF next, used
  <2> QED BY <2>1, <1>1, <1>2
<1>3. ASSUME NEW call \in {"none", "retry", "unknown"}, NEW new, new.call = call,
             next = [eff |-> local, run |-> new]
      PROVE  Good
  <2>1. next.eff = local /\ next.run = new
    BY <1>3
  <2> HIDE DEF next
  <2> QED BY <2>1, <1>3
<1>4. \/ /\ next = [eff |-> used, run |-> Calling("dispatch", tried)]
         /\ stage \in {"reserve", "retry"}
         /\ ~(e \in Emails /\ ~local.manual /\ tried /\ e \in old)
      \/ next = [eff |-> local, run |-> Calling("retry", tried)]
      \/ next = [eff |-> local, run |-> Calling("unknown", tried)]
      \/ next = [eff |-> local, run |-> NoRun]
  BY DEF AfterFinish, DispatchOrDoubt
<1>5. Good
  <2> HIDE DEF Good, next
  <2> QED BY <1>1, <1>2, <1>3, <1>4
<1> QED BY <1>5

\* The same of runEffect between two Activities.
LEMMA HandledDispatches ==
    ASSUME TypeOK, ToldIsTried, NEW e \in Effects, run[e].reply # "none"
    PROVE  /\ Handled(e).run.call = "dispatch" =>
                 /\ ~Handled(e).eff.manual
                 /\ run[e].call # "dispatch"
                 /\ e \in Emails /\ ledger[e].tried /\ e \in old => eff[e].manual
           /\ Handled(e).run.call # "dispatch" => Handled(e).eff.manual = eff[e].manual
           /\ (/\ Handled(e).run.call \in {"raise", "resolve"}
               /\ Handled(e).run.stage \in {"reserve", "retry"}) =>
                 Handled(e).run.tried = ledger[e].tried
<1> DEFINE status == run[e].reply
           local == [eff[e] EXCEPT !.status = status, !.due = status # "FAILED"]
           failed == [eff[e] EXCEPT !.status = "FAILED", !.due = FALSE]
<1>1. eff[e] \in EffectRuntime /\ run[e] \in EffectRun
  BY DEF TypeOK
<1>2. failed.manual = eff[e].manual /\ NoRun.call = "none"
  BY <1>1 DEF EffectRuntime, NoRun
<1>3. run[e].tried \in BOOLEAN /\ run[e].call \in Calls \cup {"none"}
  BY <1>1 DEF EffectRun
<1>4. CASE run[e].reply = "error" /\ run[e].call # "resolve"
  <2>1. Handled(e) = [eff |-> failed, run |-> NoRun]
    BY <1>4 DEF Handled, FailedRun
  <2>2. Handled(e).eff = failed /\ Handled(e).run = NoRun
    BY <2>1
  <2> QED BY <1>2, <2>2
<1>5. CASE /\ ~(run[e].reply = "error" /\ run[e].call # "resolve")
           /\ run[e].call \in {"raise", "resolve"}
  <2>1. Handled(e) = AfterFinish(e, run[e].stage, eff[e], run[e].tried)
    BY <1>5 DEF Handled
  <2>2. run[e].stage \in {"reserve", "retry"} => run[e].tried = ledger[e].tried
    BY <1>5 DEF ToldIsTried, Told
  <2> QED BY <1>1, <1>3, <1>5, <2>1, <2>2, AfterFinishDispatches
<1>6. CASE /\ ~(run[e].reply = "error" /\ run[e].call # "resolve")
           /\ run[e].call \notin {"raise", "resolve"} /\ status \in EffectStatus
  <2>1. Handled(e) = FinishEffect(e)
    BY <1>6 DEF Handled
  <2>2. local \in EffectRuntime /\ local.manual = eff[e].manual
    BY <1>1, <1>6 DEF EffectRuntime
  <2>3. run[e].call \in {"reserve", "retry"} => run[e].tried = ledger[e].tried
    BY <1>6 DEF ToldIsTried, Told, EffectStatus
  <2>4. CASE status \in {"UNKNOWN", "SENT", "WAIVED"}
    <3> DEFINE call == IF status = "UNKNOWN" THEN "raise" ELSE "resolve"
               during == [Calling(call, run[e].tried) EXCEPT !.stage = run[e].call]
    <3>1. Handled(e) = [eff |-> local, run |-> during]
      BY <2>1, <2>4 DEF FinishEffect, Settled
    <3>2. Handled(e).eff = local /\ Handled(e).run = during
      BY <3>1
    <3>3. /\ during.call \in {"raise", "resolve"} /\ during.stage = run[e].call
          /\ during.tried = run[e].tried
      BY DEF Calling
    <3> QED BY <2>2, <2>3, <3>2, <3>3
  <2>5. CASE status \notin {"UNKNOWN", "SENT", "WAIVED"}
    <3>1. FinishEffect(e) = AfterFinish(e, run[e].call, local, run[e].tried)
      BY <2>5 DEF FinishEffect, Settled
    <3> HIDE DEF local
    <3> QED BY <1>3, <2>1, <2>2, <2>3, <3>1, AfterFinishDispatches
  <2> QED BY <2>4, <2>5
<1>7. CASE /\ ~(run[e].reply = "error" /\ run[e].call # "resolve")
           /\ run[e].call \notin {"raise", "resolve"} /\ status \notin EffectStatus
  <2>1. Handled(e) = [eff |-> eff[e], run |-> NoRun]
    BY <1>7 DEF Handled
  <2> QED BY <1>2, <2>1
<1> QED BY <1>4, <1>5, <1>6, <1>7

\* Only a dispatch of its own makes an attempt at an effect.
LEMMA TriedStep == TypeOK /\ [Next]_vars =>
    \A e \in Effects :
        \/ ledger'[e].tried = ledger[e].tried
        \/ run[e].call = "dispatch" /\ run'[e].call = "dispatch"
<1> DEFINE Good(e) == \/ ledger'[e].tried = ledger[e].tried
                      \/ run[e].call = "dispatch" /\ run'[e].call = "dispatch"
<1> SUFFICES ASSUME TypeOK, [Next]_vars
             PROVE  \A e \in Effects : Good(e)
  OBVIOUS
<1>a. /\ ledger \in [Effects -> Row \cup {NoRow}] /\ run \in [Effects -> EffectRun]
      /\ NoRow.tried = FALSE
  BY DEF TypeOK, NoRow
<1>b. \A row \in Row \cup {NoRow} :
         /\ \A new \in {Reserved(row), Succeeded(row), Failed(row), Waived(row)} :
               new.tried = row.tried
         /\ row \in Row => \A status : [row EXCEPT !.status = status].tried = row.tried
  <2>1. ASSUME NEW row \in Row, NEW status
        PROVE  [row EXCEPT !.status = status].tried = row.tried
    BY DEF Row
  <2>2. ASSUME NEW row \in Row \cup {NoRow}
        PROVE  /\ Reserved(row).tried = row.tried /\ Succeeded(row).tried = row.tried
               /\ Failed(row).tried = row.tried /\ Waived(row).tried = row.tried
    <3>1. CASE row \in Row
      BY <2>1, <3>1, NoRowIsNone DEF Reserved, Succeeded, Failed, Waived
    <3>2. CASE row = NoRow
      BY <1>a, <3>2 DEF Reserved, Succeeded, Failed, Waived, NoRow
    <3> QED BY <3>1, <3>2
  <2> QED BY <2>1, <2>2
<1>1. ASSUME NEW x \in Effects, NEW new, ledger' = [ledger EXCEPT ![x] = new],
             new.tried = ledger[x].tried
      PROVE  \A e \in Effects : Good(e)
  BY <1>a, <1>1
<1>2. CASE UNCHANGED ledger
  BY <1>2
<1>3. ASSUME NEW x \in Effects, NEW lost \in BOOLEAN, Reserve(x, lost)
      PROVE  \A e \in Effects : Good(e)
  BY <1>a, <1>b, <1>1, <1>3 DEF Reserve
<1>4. ASSUME NEW x \in Effects, NEW lost \in BOOLEAN, RetryFailed(x, lost)
      PROVE  \A e \in Effects : Good(e)
  <2>1. RetryOutcome(ledger[x], FALSE) = "SUCCESS" => ledger[x] \in Row
    BY <1>a, RetryOutcomes
  <2> DEFINE new == [ledger[x] EXCEPT !.status = "PENDING"]
  <2>2. \/ ledger[x] \in Row /\ ledger' = [ledger EXCEPT ![x] = new]
        \/ UNCHANGED ledger
    BY <1>4, <2>1 DEF RetryFailed
  <2>3. ledger[x] \in Row => new.tried = ledger[x].tried
    BY <1>b
  <2> HIDE DEF new
  <2> QED BY <1>1, <1>2, <2>2, <2>3
<1>5. ASSUME NEW x \in Effects, NEW lost \in BOOLEAN, MarkUnknown(x, lost)
      PROVE  \A e \in Effects : Good(e)
  <2>1. UnknownEligible(x, ledger[x], x \in old) => ledger[x] \in Row
    BY <1>a DEF UnknownEligible
  <2> DEFINE new == [ledger[x] EXCEPT !.status = "UNKNOWN"]
  <2>2. \/ ledger[x] \in Row /\ ledger' = [ledger EXCEPT ![x] = new]
        \/ UNCHANGED ledger
    BY <1>5, <2>1 DEF MarkUnknown
  <2>3. ledger[x] \in Row => new.tried = ledger[x].tried
    BY <1>b
  <2> HIDE DEF new
  <2> QED BY <1>1, <1>2, <2>2, <2>3
<1>6. ASSUME NEW x \in Effects, NEW lost \in BOOLEAN, Begin(x, lost)
      PROVE  \A e \in Effects : Good(e)
  <2>1. /\ run[x].call = "dispatch"
        /\ \A e \in Effects \ {x} : ledger'[e] = ledger[e]
    BY <1>6, <1>a DEF Begin, Awaiting
  <2>2. run'[x].call = run[x].call
    BY <1>6, <1>a DEF Begin, Reply, EffectRun
  <2> QED BY <2>1, <2>2
<1>7. ASSUME NEW x \in Effects, NEW w \in Waiters, NEW lost \in BOOLEAN, Record(x, w, lost)
      PROVE  \A e \in Effects : Good(e)
  <2>1. PICK new \in {Succeeded(ledger[x]), Failed(ledger[x])} :
            ledger' = [ledger EXCEPT ![x] = new]
    BY <1>7 DEF Record
  <2> QED BY <1>a, <1>b, <1>1, <2>1
<1>8. ASSUME NEW r \in Repairs, NEW lost \in BOOLEAN, RepairCommit(r, lost)
      PROVE  \A e \in Effects : Good(e)
  <2> DEFINE x == RepairOf[r].effect
             retried == RetryOutcome(ledger[x], RepairOf[r].ack)
             new == [ledger[x] EXCEPT !.status = "PENDING"]
  <2>1. RepairOf[r].ack \in BOOLEAN /\ x \in Effects
    BY RepairAssumption
  <2>2. retried = "SUCCESS" => ledger[x] \in Row
    BY <1>a, <2>1, RetryOutcomes
  <2>3. \/ ledger' = [ledger EXCEPT ![x] = Waived(ledger[x])]
        \/ ledger[x] \in Row /\ ledger' = [ledger EXCEPT ![x] = new]
        \/ ledger' = ledger
    BY <1>8, <2>2 DEF RepairCommit
  <2>4. /\ ledger[x] \in Row => new.tried = ledger[x].tried
        /\ Waived(ledger[x]).tried = ledger[x].tried
    BY <1>a, <1>b, <2>1
  <2> HIDE DEF x, new
  <2> QED BY <1>1, <1>2, <2>1, <2>3, <2>4
<1>9. Next => \/ UNCHANGED ledger
              \/ \E e \in Effects, lost \in BOOLEAN :
                    Reserve(e, lost) \/ RetryFailed(e, lost) \/ MarkUnknown(e, lost)
                    \/ Begin(e, lost)
              \/ \E e \in Effects, w \in Waiters, lost \in BOOLEAN : Record(e, w, lost)
              \/ \E r \in Repairs, lost \in BOOLEAN : RepairCommit(r, lost)
  BY DEF Next, QueueEffect, StartReadyEffect, BackoffEnds, CallFails, Return, GiveUp,
         WindowCloses, RunCommit, Raise, Resolve, Send, RecordFails, DispatchDies,
         RequestRepair, RepairReturn, RepairResolve, EndCase, Close, workflow
<1> HIDE DEF Good
<1>10. \A e \in Effects : Good(e)
  BY <1>2, <1>3, <1>4, <1>5, <1>6, <1>7, <1>8, <1>9 DEF vars
<1> QED BY <1>10 DEF Good

\* What a runEffect was told stays true.
LEMMA ToldStep == TypeOK /\ ToldIsTried /\ [Next]_vars => ToldIsTried'
<1> SUFFICES ASSUME TypeOK, ToldIsTried, [Next]_vars, NEW e \in Effects, Told(e)'
             PROVE  run'[e].tried = ledger'[e].tried
  BY DEF ToldIsTried
<1>a. /\ run \in [Effects -> EffectRun] /\ ledger \in [Effects -> Row \cup {NoRow}]
      /\ run'[e].call # "dispatch"
  BY DEF TypeOK, Told
<1>b. ledger'[e].tried = ledger[e].tried
  BY <1>a, TriedStep
<1>1. CASE run'[e] = run[e]
  BY <1>1, <1>b DEF Told, ToldIsTried
<1>2. ASSUME run'[e] = Calling("reserve", FALSE)
      PROVE  FALSE
  BY <1>2 DEF Calling, Told
<1>3. ASSUME NEW reply, NEW lost \in BOOLEAN, Reply(e, reply, lost)
      PROVE  run'[e].tried = ledger'[e].tried
  <2>1. run'[e].tried = ledger[e].tried
    BY <1>a, <1>3 DEF Reply, EffectRun
  <2> QED BY <2>1, <1>b
<1>4. ASSUME run' = [run EXCEPT ![e].reply = "error"]
      PROVE  run'[e].tried = ledger'[e].tried
  <2>1. /\ run'[e].reply = "error" /\ run'[e].call = run[e].call
        /\ run'[e].stage = run[e].stage /\ run'[e].tried = run[e].tried
    BY <1>a, <1>4 DEF EffectRun
  <2> QED BY <2>1, <1>b DEF Told, ToldIsTried
<1>5. ASSUME Return(e)
      PROVE  run'[e].tried = ledger'[e].tried
  <2>1. run'[e] = Handled(e).run /\ run[e].reply # "none"
    BY <1>5, <1>a DEF Return
  <2>2. run'[e].reply = "none"
    BY <2>1, HandledIs
  <2>3. Handled(e).run.call \in {"raise", "resolve"}
        /\ Handled(e).run.stage \in {"reserve", "retry"}
    BY <2>1, <2>2 DEF Told
  <2> QED BY <1>b, <2>1, <2>3, HandledDispatches
<1>6. \/ run'[e] = run[e] \/ run'[e] = Calling("reserve", FALSE)
      \/ \E reply : \E lost \in BOOLEAN : Reply(e, reply, lost)
      \/ run' = [run EXCEPT ![e].reply = "error"]
      \/ Return(e)
  <2> DEFINE Moves == \/ run'[e] = run[e] \/ run'[e] = Calling("reserve", FALSE)
                      \/ \E reply : \E lost \in BOOLEAN : Reply(e, reply, lost)
                      \/ run' = [run EXCEPT ![e].reply = "error"]
                      \/ Return(e)
  <2>1. ASSUME NEW x \in Effects,
               \/ StartReadyEffect(x) \/ CallFails(x) \/ Return(x) \/ GiveUp(x)
        PROVE  Moves
    BY <2>1, <1>a DEF StartReadyEffect, CallFails, Return, GiveUp
  <2>2. ASSUME NEW x \in Effects, NEW reply, NEW lost \in BOOLEAN, Reply(x, reply, lost)
        PROVE  Moves
    <3>1. CASE x = e
      <4>1. Reply(e, reply, lost)
        BY <2>2, <3>1
      <4> QED BY <4>1
    <3>2. CASE x # e
      BY <2>2, <3>2, <1>a DEF Reply
    <3> QED BY <3>1, <3>2
  <2>3. ASSUME NEW x \in Effects, NEW lost \in BOOLEAN, RunCommit(x, lost)
        PROVE  Moves
    <3>1. (\E reply : Reply(x, reply, lost)) \/ UNCHANGED run
      BY <2>3 DEF RunCommit, Reserve, RetryFailed, MarkUnknown, Raise, Resolve, Begin
    <3> QED BY <2>2, <3>1
  <2>4. ASSUME NEW x \in Effects, NEW w \in Waiters, DispatchDies(x, w)
        PROVE  Moves
    BY <2>4, <1>a DEF DispatchDies
  <2>5. ASSUME NEW x \in Effects, NEW w \in Waiters, NEW lost \in BOOLEAN, Record(x, w, lost)
        PROVE  Moves
    <3>1. (\E reply : Reply(x, reply, lost)) \/ UNCHANGED run
      BY <2>5 DEF Record
    <3> QED BY <2>2, <3>1
  <2>6. Next => \/ UNCHANGED run
                \/ \E x \in Effects : StartReadyEffect(x) \/ Return(x) \/ CallFails(x)
                                      \/ GiveUp(x)
                \/ \E x \in Effects, lost \in BOOLEAN : RunCommit(x, lost)
                \/ \E x \in Effects, w \in Waiters :
                      DispatchDies(x, w) \/ \E lost \in BOOLEAN : Record(x, w, lost)
    BY DEF Next, QueueEffect, BackoffEnds, WindowCloses, Send, RecordFails,
           RequestRepair, RepairReturn, RepairResolve, RepairCommit, EndCase, Close, workflow
  <2>7. Moves
    <3> HIDE DEF Moves
    <3>1. UNCHANGED run => Moves
      BY DEF Moves
    <3> QED BY <2>1, <2>3, <2>4, <2>5, <2>6, <3>1 DEF vars
  <2> QED BY <2>7
<1> QED BY <1>1, <1>2, <1>3, <1>4, <1>5, <1>6

\* A repair that was answered stays so, and nothing but a dispatch uses up an
\* acknowledgement.
LEMMA LicencesStay == TypeOK /\ [Next]_vars =>
    /\ \A r \in Repairs : repair[r].pc = "done" => repair'[r].pc = "done"
    /\ \/ \E x \in Effects : Return(x)
       \/ licence \subseteq licence'
<1> SUFFICES ASSUME TypeOK, [Next]_vars
             PROVE  /\ \A r \in Repairs : repair[r].pc = "done" => repair'[r].pc = "done"
                    /\ \/ \E x \in Effects : Return(x)
                       \/ licence \subseteq licence'
  OBVIOUS
<1>1. repair \in [Repairs -> RepairRun]
  BY DEF TypeOK
<1>2. ASSUME NEW x \in Repairs, RequestRepair(x) \/ RepairReturn(x) \/ RepairResolve(x)
      PROVE  (\A r \in Repairs : repair[r].pc = "done" => repair'[r].pc = "done")
             /\ licence' = licence
  BY <1>1, <1>2 DEF RequestRepair, RepairReturn, RepairResolve
<1>3. ASSUME NEW x \in Repairs, NEW lost \in BOOLEAN, RepairCommit(x, lost)
      PROVE  (\A r \in Repairs : repair[r].pc = "done" => repair'[r].pc = "done")
             /\ licence \subseteq licence'
  BY <1>1, <1>3 DEF RepairCommit
<1>4. ASSUME NEW x \in Effects, Return(x)
      PROVE  repair' = repair
  BY <1>4 DEF Return
<1>5. [Next]_vars =>
          \/ UNCHANGED <<repair, licence>>
          \/ \E x \in Effects : Return(x)
          \/ \E x \in Repairs : RequestRepair(x) \/ RepairReturn(x) \/ RepairResolve(x)
          \/ \E x \in Repairs, lost \in BOOLEAN : RepairCommit(x, lost)
  BY DEF Next, QueueEffect, StartReadyEffect, BackoffEnds, CallFails, GiveUp,
         WindowCloses, RunCommit, Reserve, RetryFailed, MarkUnknown, Raise, Resolve, Begin,
         Send, Record, RecordFails, DispatchDies, EndCase, Close, workflow, vars
<1> QED BY <1>2, <1>3, <1>4, <1>5

\* An acknowledgement the ledger took is there when its answer arrives.
LEMMA AnsweredStep == LicenceInv /\ [Next]_vars => AnsweredIsLicensed'
<1> SUFFICES ASSUME LicenceInv, [Next]_vars, NEW r \in Repairs,
                    RepairOf[r].kind = "retry", RepairOf[r].ack,
                    repair'[r].pc = "called", repair'[r].reply = "SUCCESS"
             PROVE  r \in licence'
  BY DEF AnsweredIsLicensed
<1>1. /\ repair \in [Repairs -> RepairRun]
      /\ repair[r].pc = "called" /\ repair[r].reply = "SUCCESS" => r \in licence
  BY DEF LicenceInv, TypeOK, AnsweredIsLicensed
<1>2. ASSUME NEW x \in Effects, Return(x)
      PROVE  r \in licence'
  <2>1. repair' = repair /\ (licence' = licence \/ \E q \in Licences(x) : licence' = licence \ {q})
    BY <1>2 DEF Return
  <2> QED BY <1>1, <2>1 DEF Licences
<1>3. ASSUME NEW lost \in BOOLEAN, RepairCommit(r, lost)
      PROVE  r \in licence'
  <2> DEFINE retried == RetryOutcome(ledger[RepairOf[r].effect], RepairOf[r].ack)
  <2>1. repair' = [repair EXCEPT ![r].reply = IF lost THEN "error" ELSE retried]
    BY <1>3 DEF RepairCommit
  <2>2. retried = "SUCCESS"
    BY <1>1, <2>1 DEF RepairRun
  <2> QED BY <1>3, <2>2 DEF RepairCommit
<1>4. ASSUME repair'[r] = repair[r], licence \subseteq licence'
      PROVE  r \in licence'
  BY <1>1, <1>4
<1>5. ASSUME NEW x \in Repairs, RequestRepair(x) \/ RepairReturn(x) \/ RepairResolve(x)
      PROVE  repair'[r] = repair[r]
  BY <1>1, <1>5 DEF RequestRepair, RepairReturn, RepairResolve, RepairRun
<1>6. ASSUME NEW x \in Repairs, x # r, NEW lost \in BOOLEAN, RepairCommit(x, lost)
      PROVE  repair'[r] = repair[r]
  BY <1>1, <1>6 DEF RepairCommit
<1>7. \/ UNCHANGED repair
      \/ \E x \in Repairs : RequestRepair(x) \/ RepairReturn(x) \/ RepairResolve(x)
      \/ \E x \in Repairs, lost \in BOOLEAN : RepairCommit(x, lost)
  BY DEF Next, QueueEffect, StartReadyEffect, BackoffEnds, CallFails, Return, GiveUp,
         WindowCloses, RunCommit, Reserve, RetryFailed, MarkUnknown, Raise, Resolve, Begin,
         Send, Record, RecordFails, DispatchDies, EndCase, Close, workflow, vars
<1> QED BY <1>2, <1>3, <1>4, <1>5, <1>6, <1>7, LicencesStay DEF LicenceInv

\* A late dispatch needs an acknowledgement, and uses one up.
LEMMA ManualStep == LicenceInv /\ [Next]_vars => ManualIsLicensed'
<1> SUFFICES ASSUME LicenceInv, [Next]_vars, NEW e \in Effects, eff'[e].manual
             PROVE  Licences(e)' # {}
  BY DEF ManualIsLicensed
<1>a. /\ eff \in [Effects -> EffectRuntime] /\ run \in [Effects -> EffectRun]
      /\ repair \in [Repairs -> RepairRun] /\ licence \subseteq Repairs
      /\ eff[e].manual => Licences(e) # {}
  BY DEF LicenceInv, TypeOK, ManualIsLicensed
<1>b. \A r \in Repairs : repair[r].pc = "done" => repair'[r].pc = "done"
  BY LicencesStay DEF LicenceInv
<1>1. ASSUME licence \subseteq licence', eff[e].manual
      PROVE  Licences(e)' # {}
  BY <1>a, <1>b, <1>1 DEF Licences
<1>2. ASSUME NEW x \in Effects, Return(x)
      PROVE  Licences(e)' # {}
  <2>1. /\ eff' = [eff EXCEPT ![x] = Handled(x).eff] /\ run' = [run EXCEPT ![x] = Handled(x).run]
        /\ repair' = repair /\ run[x].reply # "none"
        /\ \/ licence' = licence
           \/ Dispatches(x) /\ \E q \in Licences(x) : licence' = licence \ {q}
    BY <1>2 DEF Return
  <2>2. /\ Handled(x).run.call = "dispatch" => ~Handled(x).eff.manual
        /\ Handled(x).run.call # "dispatch" => Handled(x).eff.manual = eff[x].manual
    BY <2>1, HandledDispatches DEF LicenceInv
  <2>3. CASE x = e
    <3>1. eff'[e] = Handled(e).eff /\ run'[e] = Handled(e).run
      BY <2>1, <2>3, <1>a
    <3>2. run'[e].call # "dispatch" /\ eff[e].manual
      BY <2>2, <2>3, <3>1
    <3>3. licence' = licence
      BY <2>1, <2>3, <3>2 DEF Dispatches
    <3> QED BY <1>1, <3>2, <3>3
  <2>4. CASE x # e
    <3>1. eff[e].manual
      BY <2>1, <2>4, <1>a
    <3>2. PICK r \in Licences(e) : TRUE
      BY <1>a, <3>1
    <3>3. r \in licence'
      BY <2>1, <2>4, <3>2 DEF Licences
    <3> QED BY <2>1, <3>2, <3>3 DEF Licences
  <2> QED BY <2>3, <2>4
<1>3. ASSUME NEW r \in Repairs, RepairReturn(r), ~eff[e].manual
      PROVE  Licences(e)' # {}
  <2> DEFINE x == RepairOf[r].effect
             retry == [status |-> "PENDING", due |-> TRUE, manual |-> RepairOf[r].ack]
             waive == [[eff[x] EXCEPT !.status = "WAIVED"] EXCEPT !.due = TRUE]
  <2>1. x \in Effects /\ RepairOf[r].kind \in {"retry", "waive"}
    BY RepairAssumption
  <2>2. /\ repair[r].pc = "called"
        /\ \/ /\ eff' = [eff EXCEPT ![x] = retry]
              /\ repair[r].reply = "SUCCESS" /\ RepairOf[r].kind = "retry"
           \/ eff' = [eff EXCEPT ![x] = waive]
           \/ eff' = eff
    BY <1>3, <1>a, <2>1 DEF RepairReturn
  <2>3. retry.manual = RepairOf[r].ack /\ waive.manual = eff[x].manual
    BY <1>a, <2>1 DEF EffectRuntime
  <2> HIDE DEF x, retry, waive
  <2>4. /\ x = e /\ RepairOf[r].ack
        /\ repair[r].reply = "SUCCESS" /\ RepairOf[r].kind = "retry"
    BY <1>3, <1>a, <2>1, <2>2, <2>3
  <2>5. r \in licence
    BY <2>2, <2>4 DEF LicenceInv, AnsweredIsLicensed
  <2>6. repair'[r].pc = "done" /\ licence' = licence
    BY <1>3, <1>a, <2>4 DEF RepairReturn, RepairRun
  <2>7. r \in Licences(e)'
    BY <2>4, <2>5, <2>6 DEF Licences, x
  <2> QED BY <2>7
<1>4. ASSUME NEW x \in Effects, QueueEffect(x) \/ BackoffEnds(x)
      PROVE  eff[e].manual
  <2> DEFINE queued == [status |-> "PENDING", due |-> TRUE, manual |-> FALSE]
             due == [eff[x] EXCEPT !.due = TRUE]
  <2>1. eff' = [eff EXCEPT ![x] = queued] \/ eff' = [eff EXCEPT ![x] = due]
    BY <1>4 DEF QueueEffect, BackoffEnds
  <2>2. ~queued.manual /\ due.manual = eff[x].manual
    BY <1>a DEF EffectRuntime
  <2> HIDE DEF queued, due
  <2> QED BY <1>a, <2>1, <2>2
<1>5. \/ UNCHANGED eff
      \/ \E x \in Effects : QueueEffect(x) \/ BackoffEnds(x) \/ Return(x)
      \/ \E r \in Repairs : RepairReturn(r)
  BY DEF Next, StartReadyEffect, CallFails, GiveUp, WindowCloses, RunCommit, Reserve,
         RetryFailed, MarkUnknown, Raise, Resolve, Begin, Send, Record, RecordFails,
         DispatchDies, RequestRepair, RepairResolve, RepairCommit, EndCase, Close, workflow,
         vars
<1>6. (\E x \in Effects : Return(x)) \/ licence \subseteq licence'
  BY LicencesStay DEF LicenceInv
<1> QED BY <1>1, <1>2, <1>3, <1>4, <1>5, <1>6

LEMMA InitLicence == Init => LicenceInv
<1> SUFFICES ASSUME Init
             PROVE  LicenceInv
  OBVIOUS
<1>1. \A e \in Effects : ~eff[e].manual /\ run[e].call = "none"
  BY DEF Init, Unqueued, NoRun
<1>2. \A r \in Repairs : repair[r].pc = "new"
  BY DEF Init
<1> QED BY <1>1, <1>2, InitType
        DEF LicenceInv, AnsweredIsLicensed, ManualIsLicensed, ToldIsTried, Told

\* Every late dispatch has an acknowledgement that was accepted, whose Officer was
\* answered, and that no earlier dispatch used, however many Officers retry the
\* effect at once (runEffect and the retryEffect handler).
THEOREM LateDispatchesAreAcknowledged == Spec => LateDispatchIsAcknowledged
<1> DEFINE Acknowledged == \A e \in Effects : LateDispatch(e) => Licences(e) # {}
<1>1. LicenceInv /\ [Next]_vars => LicenceInv'
  BY TypeStep, AnsweredStep, ManualStep, ToldStep DEF LicenceInv
<1>2. LicenceInv /\ [Next]_vars => Acknowledged
  <2> SUFFICES ASSUME LicenceInv, [Next]_vars, NEW e \in Effects, LateDispatch(e)
               PROVE  Licences(e) # {}
    OBVIOUS
  <2>1. /\ run \in [Effects -> EffectRun] /\ e \in Emails \cap old /\ ledger[e].tried
        /\ run[e].call # "dispatch" /\ run'[e].call = "dispatch"
    BY DEF LicenceInv, TypeOK, LateDispatch, Dispatches
  <2>2. Return(e)
    <3>1. Calling("reserve", FALSE).call = "reserve"
      BY DEF Calling
    <3>a. ASSUME NEW x \in Effects, NEW reply, NEW lost \in BOOLEAN, Reply(x, reply, lost)
          PROVE  FALSE
      <4>1. run'[e].call = run[e].call
        BY <2>1, <3>a DEF Reply, EffectRun
      <4> QED BY <2>1, <4>1
    <3>2. ASSUME NEW x \in Effects, NEW lost \in BOOLEAN, RunCommit(x, lost)
          PROVE  FALSE
      <4>1. (\E reply : Reply(x, reply, lost)) \/ UNCHANGED run
        BY <3>2 DEF RunCommit, Reserve, RetryFailed, MarkUnknown, Raise, Resolve, Begin
      <4> QED BY <2>1, <3>a, <4>1
    <3>b. ASSUME NEW x \in Effects, NEW w \in Waiters, NEW lost \in BOOLEAN,
                 Record(x, w, lost)
          PROVE  FALSE
      <4>1. (\E reply : Reply(x, reply, lost)) \/ UNCHANGED run
        BY <3>b DEF Record
      <4> QED BY <2>1, <3>a, <4>1
    <3>c. ASSUME NEW x \in Effects,
                 \/ CallFails(x) \/ GiveUp(x) \/ \E w \in Waiters : DispatchDies(x, w)
          PROVE  FALSE
      <4>1. run' = [run EXCEPT ![x].reply = "error"] \/ UNCHANGED run
        BY <3>c DEF CallFails, GiveUp, DispatchDies
      <4>2. run'[e].call = run[e].call
        BY <2>1, <4>1 DEF EffectRun
      <4> QED BY <2>1, <4>2
    <3>3. ASSUME NEW x \in Effects, StartReadyEffect(x)
          PROVE  FALSE
      BY <2>1, <3>1, <3>3 DEF StartReadyEffect
    <3>4. ASSUME NEW x \in Effects, Return(x)
          PROVE  x = e
      BY <2>1, <3>4 DEF Return
    <3>5. \/ UNCHANGED run
          \/ \E x \in Effects : StartReadyEffect(x) \/ Return(x) \/ CallFails(x) \/ GiveUp(x)
          \/ \E x \in Effects, lost \in BOOLEAN : RunCommit(x, lost)
          \/ \E x \in Effects, w \in Waiters :
                DispatchDies(x, w) \/ \E lost \in BOOLEAN : Record(x, w, lost)
      BY DEF Next, QueueEffect, BackoffEnds, WindowCloses, Send, RecordFails,
             RequestRepair, RepairReturn, RepairResolve, RepairCommit, EndCase, Close,
             workflow, vars
    <3> QED BY <2>1, <3>2, <3>b, <3>c, <3>3, <3>4, <3>5
  <2>3. run[e].reply # "none" /\ Handled(e).run.call = "dispatch"
    BY <2>1, <2>2 DEF Return
  <2>4. eff[e].manual
    BY <2>1, <2>3, HandledDispatches DEF LicenceInv
  <2> QED BY <2>4 DEF LicenceInv, ManualIsLicensed
<1>3. Spec => [][Acknowledged]_vars
  BY <1>1, <1>2, InitLicence, PTL DEF Spec
<1> QED BY <1>3 DEF LateDispatchIsAcknowledged
=============================================================================
