--------------------------- MODULE EffectDelivery ---------------------------
(***************************************************************************)
(* The delivery of the Derived Effects of one Case: the Case Workflow's    *)
(* runEffect, retryEffect and waiveEffect against the Effect Ledger, the   *)
(* recipients of the effects and the Officer Attention of the Case atom.   *)
(*                                                                         *)
(* Every Activity is two steps, what it commits and the Workflow's         *)
(* handling of its reply, because other handlers run in between.  These    *)
(* Activities are not repeated: one that fails, with or without having     *)
(* committed, fails the runEffect or the Update that called it.            *)
(* Continue-As-New happens only while no effect is in flight and carries   *)
(* all of eff over, so it is no step of its own.                           *)
(***************************************************************************)
EXTENDS EffectLedger

CONSTANTS
    Repairs,        \* Officers' retryEffect and waiveEffect Updates
    RepairOf        \* Update -> what it asks: kind, effect, ack

ASSUME RepairAssumption ==
    RepairOf \in [Repairs -> [kind : {"retry", "waive"}, effect : Effects, ack : BOOLEAN]]

VARIABLES
    ledger,         \* effect -> its row, NoRow if not reserved
    old,            \* the effects reserved 24 hours ago
    answered,       \* the effects whose recipient answered a dispatch
    licence,        \* the acknowledgements of the risk the ledger took, until used
    route,          \* <<effect, who waits for it>> -> progress of a dispatch
    flag,           \* the effects with an open DERIVED_EFFECT_UNKNOWN attention
    eff,            \* effects: effect -> its EffectRuntime, Unqueued if not in the map
    run,            \* effect -> the runEffect in flight, NoRun if none
    repair,         \* Update -> progress of its handler
    closing,        \* closeAfterCompletion
    closed          \* the Workflow has returned

workflow == <<eff, run, repair, closing, closed>>
vars == <<ledger, old, answered, licence, route, flag, eff, run, repair, closing, closed>>

Unqueued == [status |-> "NONE", due |-> FALSE, manual |-> FALSE]
NoRun == [call |-> "none", stage |-> "none", reply |-> "none", tried |-> FALSE]
Waiters == {"awaited", "abandoned"}
Calls == {"reserve", "retry", "unknown", "dispatch", "raise", "resolve"}
Replies == EffectStatus \cup
    {"none", "ok", "error", "ABSENT", "NOT_FOUND", "ACK_REQUIRED", "NOT_REPAIRABLE"}

EffectRuntime == [status : EffectStatus \cup {"NONE"}, due : BOOLEAN, manual : BOOLEAN]
EffectRun == [call : Calls \cup {"none"}, stage : Calls \cup {"none"},
              reply : Replies, tried : BOOLEAN]
RepairRun == [pc : {"new", "called", "resolve", "done"},
              reply : {"none", "error", "SUCCESS", "NOT_FOUND", "ACK_REQUIRED",
                       "NOT_REPAIRABLE"}]

TypeOK ==
    /\ ledger \in [Effects -> Row \cup {NoRow}]
    /\ old \subseteq Effects /\ answered \subseteq Effects
    /\ licence \subseteq Repairs /\ flag \subseteq Effects
    /\ route \in [Effects \X Waiters -> {"idle", "send", "succeed", "fail"}]
    /\ eff \in [Effects -> EffectRuntime] /\ run \in [Effects -> EffectRun]
    /\ repair \in [Repairs -> RepairRun]
    /\ closing \in BOOLEAN /\ closed \in BOOLEAN

Init ==
    /\ ledger = [e \in Effects |-> NoRow]
    /\ old = {} /\ answered = {} /\ licence = {} /\ flag = {}
    /\ route = [x \in Effects \X Waiters |-> "idle"]
    /\ eff = [e \in Effects |-> Unqueued]
    /\ run = [e \in Effects |-> NoRun]
    /\ repair = [r \in Repairs |-> [pc |-> "new", reply |-> "none"]]
    /\ closing = FALSE /\ closed = FALSE

-----------------------------------------------------------------------------
(* The main loop *)

\* queueEffect, from a transition of the Case.
QueueEffect(e) ==
    /\ ~closing /\ eff[e] = Unqueued
    /\ eff' = [eff EXCEPT ![e] = [status |-> "PENDING", due |-> TRUE, manual |-> FALSE]]
    /\ UNCHANGED <<ledger, old, answered, licence, route, flag, run, repair, closing, closed>>

EndCase ==
    /\ ~closing /\ closing' = TRUE
    /\ UNCHANGED <<ledger, old, answered, licence, route, flag, eff, run, repair, closed>>

Calling(call, tried) == [call |-> call, stage |-> call, reply |-> "none", tried |-> tried]

StartReadyEffect(e) ==
    /\ ~closed /\ run[e] = NoRun
    /\ eff[e].status \in {"PENDING", "FAILED"} /\ eff[e].due
    /\ run' = [run EXCEPT ![e] = Calling("reserve", FALSE)]
    /\ UNCHANGED <<ledger, old, answered, licence, route, flag, eff, repair, closing, closed>>

\* Defect: only a PENDING effect has a deadline.
NoDeadlineDefect(e) ==
    /\ ~closed /\ run[e] = NoRun /\ eff[e].status = "PENDING" /\ ~eff[e].due
    /\ eff' = [eff EXCEPT ![e].due = TRUE]
    /\ UNCHANGED <<ledger, old, answered, licence, route, flag, run, repair, closing, closed>>

\* nextRetryAt passes: nextEffectDeadline wakes the loop.
BackoffEnds(e) ==
    /\ ~closed /\ run[e] = NoRun /\ eff[e].status = "FAILED" /\ ~eff[e].due
    /\ eff' = [eff EXCEPT ![e].due = TRUE]
    /\ UNCHANGED <<ledger, old, answered, licence, route, flag, run, repair, closing, closed>>

EffectsSettled ==
    \A e \in Effects : run[e] = NoRun /\ eff[e].status \in Settled \cup {"NONE"}

Close ==
    /\ closing /\ ~closed /\ EffectsSettled
    /\ \A r \in Repairs : repair[r].pc \notin {"called", "resolve"}
    /\ closed' = TRUE
    /\ UNCHANGED <<ledger, old, answered, licence, route, flag, eff, run, repair, closing>>

-----------------------------------------------------------------------------
(* What an Activity of runEffect commits.  "lost" is a reply that does not   *)
(* arrive.                                                                   *)

Awaiting(e, call) == run[e].call = call /\ run[e].reply = "none"
Reply(e, reply, lost) ==
    run' = [run EXCEPT ![e].tried = ledger[e].tried,
                       ![e].reply = IF lost THEN "error" ELSE reply]

Reserve(e, lost) ==
    /\ Awaiting(e, "reserve")
    /\ ledger' = [ledger EXCEPT ![e] = Reserved(@)]
    /\ Reply(e, ledger'[e].status, lost)
    /\ UNCHANGED <<old, answered, licence, route, flag, eff, repair, closing, closed>>

RetryFailed(e, lost) ==
    /\ Awaiting(e, "retry")
    /\ LET out == RetryOutcome(ledger[e], FALSE) IN
       /\ ledger' = IF out = "SUCCESS" THEN [ledger EXCEPT ![e].status = "PENDING"]
                    ELSE ledger
       /\ Reply(e, IF out = "SUCCESS" THEN "PENDING" ELSE out, lost)
    /\ UNCHANGED <<old, answered, licence, route, flag, eff, repair, closing, closed>>

MarkUnknown(e, lost) ==
    /\ Awaiting(e, "unknown")
    /\ IF UnknownEligible(e, ledger[e], e \in old)
       THEN /\ ledger' = [ledger EXCEPT ![e].status = "UNKNOWN"]
            /\ Reply(e, "UNKNOWN", lost)
       ELSE ~lost /\ ledger' = ledger /\ Reply(e, "error", lost)
    /\ UNCHANGED <<old, answered, licence, route, flag, eff, repair, closing, closed>>

Raise(e, lost) ==
    /\ Awaiting(e, "raise") /\ Reply(e, "ok", lost)
    /\ flag' = flag \cup {e}
    /\ UNCHANGED <<ledger, old, answered, licence, route, eff, repair, closing, closed>>

Resolve(e, lost) ==
    /\ Awaiting(e, "resolve") /\ Reply(e, "ok", lost)
    /\ flag' = flag \ {e}
    /\ UNCHANGED <<ledger, old, answered, licence, route, eff, repair, closing, closed>>

\* The dispatch begins; what is not PENDING is answered as it is.
Begin(e, lost) ==
    /\ Awaiting(e, "dispatch") /\ route[<<e, "awaited">>] = "idle"
    /\ ledger' = [ledger EXCEPT ![e] = Begun(@)]
    /\ IF ledger[e].status = "PENDING" /\ ~lost
       THEN route' = [route EXCEPT ![<<e, "awaited">>] = "send"] /\ UNCHANGED run
       ELSE Reply(e, ledger'[e].status, lost) /\ UNCHANGED route
    /\ UNCHANGED <<old, answered, licence, flag, eff, repair, closing, closed>>

\* The call fails before it reaches the atom.
CallFails(e) ==
    /\ run[e].call # "none" /\ run[e].reply = "none" /\ route[<<e, "awaited">>] = "idle"
    /\ run' = [run EXCEPT ![e].reply = "error"]
    /\ UNCHANGED <<ledger, old, answered, licence, route, flag, eff, repair, closing, closed>>

RunCommit(e, lost) ==
    \/ Reserve(e, lost) \/ RetryFailed(e, lost) \/ MarkUnknown(e, lost)
    \/ Raise(e, lost) \/ Resolve(e, lost) \/ Begin(e, lost)

-----------------------------------------------------------------------------
(* A dispatch under way: the Alert atom sends the e-mail, or the Worker      *)
(* records the score with the Metrics atom (once per effect id), and then    *)
(* the ledger is told.  The Activity may give up on it while it goes on.     *)

Send(e, w) ==
    /\ route[<<e, w>>] = "send"
    /\ \/ answered' = answered \cup {e} /\ route' = [route EXCEPT ![<<e, w>>] = "succeed"]
       \/ answered' = answered /\ route' = [route EXCEPT ![<<e, w>>] = "fail"]
    /\ UNCHANGED <<ledger, old, licence, flag, eff, run, repair, closing, closed>>

Record(e, w, lost) ==
    /\ route[<<e, w>>] \in {"succeed", "fail"}
    /\ ledger' = [ledger EXCEPT ![e] = IF route[<<e, w>>] = "succeed" THEN Succeeded(@)
                                       ELSE Failed(@)]
    /\ route' = [route EXCEPT ![<<e, w>>] = "idle"]
    /\ IF w = "awaited" THEN Reply(e, ledger'[e].status, lost) ELSE UNCHANGED run
    /\ UNCHANGED <<old, answered, licence, flag, eff, repair, closing, closed>>

\* The ledger does not take the success: the catch block records a failure.
RecordFails(e, w) ==
    /\ route[<<e, w>>] = "succeed"
    /\ route' = [route EXCEPT ![<<e, w>>] = "fail"]
    /\ UNCHANGED <<ledger, old, answered, licence, flag, workflow>>

GiveUp(e) ==
    /\ route[<<e, "awaited">>] # "idle" /\ route[<<e, "abandoned">>] = "idle"
    /\ route' = [route EXCEPT ![<<e, "abandoned">>] = route[<<e, "awaited">>],
                              ![<<e, "awaited">>] = "idle"]
    /\ run' = [run EXCEPT ![e].reply = "error"]
    /\ UNCHANGED <<ledger, old, answered, licence, flag, eff, repair, closing, closed>>

DispatchDies(e, w) ==
    /\ route[<<e, w>>] # "idle"
    /\ route' = [route EXCEPT ![<<e, w>>] = "idle"]
    /\ run' = IF w = "awaited" THEN [run EXCEPT ![e].reply = "error"] ELSE run
    /\ UNCHANGED <<ledger, old, answered, licence, flag, eff, repair, closing, closed>>

-----------------------------------------------------------------------------
(* runEffect between two Activities *)

\* Defect: the Officer's acknowledgement is good for every later attempt.
StandingLicenceDefect(e, local, tried) ==
    IF e \in Emails /\ ~local.manual /\ tried /\ e \in old
    THEN [eff |-> local, run |-> Calling("unknown", tried)]
    ELSE [eff |-> local, run |-> Calling("dispatch", tried)]

\* The effect is PENDING: it is dispatched, or marked UNKNOWN when it is an
\* e-mail that was tried out of the window.
DispatchOrDoubt(e, local, tried) ==
    IF e \in Emails /\ ~local.manual /\ tried /\ e \in old
    THEN [eff |-> local, run |-> Calling("unknown", tried)]
    ELSE [eff |-> [local EXCEPT !.manual = FALSE], run |-> Calling("dispatch", tried)]

\* What follows finishEffect, given the Workflow's copy as it is by then.
AfterFinish(e, stage, local, tried) ==
    IF stage = "reserve" /\ local.status = "FAILED"
    THEN [eff |-> local, run |-> Calling("retry", tried)]
    ELSE IF stage \in {"reserve", "retry"} /\ local.status = "PENDING"
    THEN DispatchOrDoubt(e, local, tried)
    ELSE [eff |-> local, run |-> NoRun]

\* Defect: finishEffect does not raise Officer Attention.
NoAttentionDefect(e) ==
    LET status == run[e].reply
        local == [eff[e] EXCEPT !.status = status, !.due = status # "FAILED"]
    IN IF status \in Settled
       THEN [eff |-> local, run |-> [Calling("resolve", run[e].tried) EXCEPT !.stage = run[e].call]]
       ELSE AfterFinish(e, run[e].call, local, run[e].tried)

\* finishEffect up to its own Activity, if it calls one.
FinishEffect(e) ==
    LET status == run[e].reply
        local == [eff[e] EXCEPT !.status = status, !.due = status # "FAILED"]
        during(call) == [Calling(call, run[e].tried) EXCEPT !.stage = run[e].call]
    IN CASE status = "UNKNOWN" -> [eff |-> local, run |-> during("raise")]
         [] status \in Settled -> [eff |-> local, run |-> during("resolve")]
         [] OTHER -> AfterFinish(e, run[e].call, local, run[e].tried)

\* The catch block: the Workflow's copy fails and is tried again later.
FailedRun(e) ==
    [eff |-> [eff[e] EXCEPT !.status = "FAILED", !.due = FALSE], run |-> NoRun]

\* Defect: a retry the ledger refused is taken for one that succeeded.
UncheckedRefusalDefect(e) ==
    IF run[e].reply = "error" /\ run[e].call # "resolve" THEN FailedRun(e)
    ELSE IF run[e].call \in {"raise", "resolve"}
    THEN AfterFinish(e, run[e].stage, eff[e], run[e].tried)
    ELSE FinishEffect(e)

\* The reply of any Activity: the catch block, resolveAttentionTolerantly, a
\* retry the ledger refused, or finishEffect.
Handled(e) ==
    IF run[e].reply = "error" /\ run[e].call # "resolve" THEN FailedRun(e)
    ELSE IF run[e].call \in {"raise", "resolve"}
    THEN AfterFinish(e, run[e].stage, eff[e], run[e].tried)
    ELSE IF run[e].reply \in EffectStatus THEN FinishEffect(e)
    ELSE [eff |-> eff[e], run |-> NoRun]

Dispatches(e) == run[e].call # "dispatch" /\ run'[e].call = "dispatch"

\* The acknowledgements that the Officers were answered and no dispatch has used.
Licences(e) == {r \in licence : RepairOf[r].effect = e /\ repair[r].pc = "done"}

Return(e) ==
    /\ run[e].reply # "none"
    /\ eff' = [eff EXCEPT ![e] = Handled(e).eff]
    /\ run' = [run EXCEPT ![e] = Handled(e).run]
    /\ licence' \in IF Dispatches(e) /\ Licences(e) # {}
                   THEN {licence \ {r} : r \in Licences(e)} ELSE {licence}
    /\ UNCHANGED <<ledger, old, answered, route, flag, repair, closing, closed>>

-----------------------------------------------------------------------------
(* The repair handlers *)

RequestRepair(r) ==
    /\ repair[r].pc = "new" /\ ~closed
    /\ eff[RepairOf[r].effect] # Unqueued
    /\ repair' = [repair EXCEPT ![r] = [pc |-> "called", reply |-> "none"]]
    /\ UNCHANGED <<ledger, old, answered, licence, route, flag, eff, run, closing, closed>>

RepairCommit(r, lost) ==
    LET e == RepairOf[r].effect
        ack == RepairOf[r].ack
        retried == RetryOutcome(ledger[e], ack)
        out == IF RepairOf[r].kind = "retry" THEN retried
               ELSE IF ledger[e] = NoRow THEN "NOT_FOUND" ELSE "SUCCESS"
    IN /\ repair[r].pc = "called" /\ repair[r].reply = "none"
       /\ ledger' = CASE RepairOf[r].kind = "waive" -> [ledger EXCEPT ![e] = Waived(@)]
                      [] RepairOf[r].kind = "retry" /\ retried = "SUCCESS" ->
                            [ledger EXCEPT ![e].status = "PENDING"]
                      [] OTHER -> ledger
       /\ licence' = IF RepairOf[r].kind = "retry" /\ ack /\ retried = "SUCCESS"
                     THEN licence \cup {r} ELSE licence
       /\ repair' = [repair EXCEPT ![r].reply = IF lost THEN "error" ELSE out]
       /\ UNCHANGED <<old, answered, route, flag, eff, run, closing, closed>>

\* A repair whose Activity failed may be asked for again.
RepairReturn(r) ==
    LET e == RepairOf[r].effect
        success == repair[r].reply = "SUCCESS"
        next == CASE repair[r].reply = "error" -> "new"
                  [] success /\ RepairOf[r].kind = "waive" -> "resolve"
                  [] OTHER -> "done"
    IN /\ repair[r].pc = "called" /\ repair[r].reply # "none"
       /\ repair' = [repair EXCEPT ![r].pc = next,
                                    ![r].reply = IF next = "new" THEN "none" ELSE @]
       /\ eff' = CASE success /\ RepairOf[r].kind = "retry" ->
                         [eff EXCEPT ![e] = [status |-> "PENDING", due |-> TRUE,
                                             manual |-> RepairOf[r].ack]]
                   [] success /\ RepairOf[r].kind = "waive" ->
                         [eff EXCEPT ![e].status = "WAIVED", ![e].due = TRUE]
                   [] OTHER -> eff
       /\ UNCHANGED <<ledger, old, answered, licence, route, flag, run, closing, closed>>

\* resolveAttentionTolerantly, which may fail.
RepairResolve(r) ==
    /\ repair[r].pc = "resolve"
    /\ flag' \in {flag, flag \ {RepairOf[r].effect}}
    /\ repair' = [repair EXCEPT ![r].pc = "done"]
    /\ UNCHANGED <<ledger, old, answered, licence, route, eff, run, closing, closed>>

-----------------------------------------------------------------------------

WindowCloses(e) ==
    /\ e \in Emails \ old /\ ledger[e] # NoRow
    /\ old' = old \cup {e}
    /\ UNCHANGED <<ledger, answered, licence, route, flag, workflow>>

Next ==
    \/ \E e \in Effects : QueueEffect(e) \/ StartReadyEffect(e) \/ BackoffEnds(e)
                          \/ CallFails(e) \/ Return(e) \/ GiveUp(e) \/ WindowCloses(e)
    \/ \E e \in Effects, lost \in BOOLEAN : RunCommit(e, lost)
    \/ \E e \in Effects, w \in Waiters :
          \/ Send(e, w) \/ RecordFails(e, w) \/ DispatchDies(e, w)
          \/ \E lost \in BOOLEAN : Record(e, w, lost)
    \/ \E r \in Repairs : RequestRepair(r) \/ RepairReturn(r) \/ RepairResolve(r)
    \/ \E r \in Repairs, lost \in BOOLEAN : RepairCommit(r, lost)
    \/ EndCase
    \/ Close

\* A call that fails, or succeeds unnoticed; a recipient that refuses.
Fault ==
    \/ \E e \in Effects : CallFails(e) \/ GiveUp(e) \/ RunCommit(e, TRUE)
    \/ \E e \in Effects, w \in Waiters :
          \/ Send(e, w) /\ route'[<<e, w>>] = "fail"
          \/ RecordFails(e, w) \/ DispatchDies(e, w) \/ Record(e, w, TRUE)

EffectStep(e) ==
    \/ StartReadyEffect(e) \/ BackoffEnds(e) \/ Return(e) \/ RunCommit(e, FALSE)
    \/ \E w \in Waiters : Send(e, w) \/ Record(e, w, FALSE)

\* The loop and its timers run, replies and failures are delivered, and the faults
\* end at some time: the code asks again for as long as they last.
Fairness ==
    /\ \A e \in Effects : WF_vars(EffectStep(e))
    /\ <>[][~Fault]_vars

Spec == Init /\ [][Next]_vars
FairSpec == Spec /\ Fairness

-----------------------------------------------------------------------------
(* Properties *)

\* The abstract specification: what became of each effect is what the ledger says,
\* and an effect is owed from the moment the Workflow queues it.
RowFate(status) ==
    CASE status \in {"ABSENT", "PENDING", "FAILED"} -> "OWED"
      [] status = "UNKNOWN" -> "DOUBT"
      [] status = "SENT" -> "KEPT"
      [] status = "WAIVED" -> "RELEASED"

FateOf(e) == IF eff[e] = Unqueued THEN "NONE" ELSE RowFate(ledger[e].status)

Promise == INSTANCE EffectPromise WITH fate <- [e \in Effects |-> FateOf(e)]

\* Whatever calls and replies are lost, delayed or overtaken, the ledger and the
\* Workflow's copy of it keep the promise: what is recorded as sent was answered,
\* what is settled stays so, and the Workflow returns with nothing owed.
KeepsThePromise == Promise!PromiseSpec

LateDispatch(e) == e \in Emails \cap old /\ ledger[e].tried /\ Dispatches(e)

\* "accepting that the retry may deliver twice" (CONTEXT.md): an e-mail that was
\* tried is dispatched out of the provider's window only on an acknowledgement,
\* and each acknowledgement is good for one dispatch.
LateDispatchIsAcknowledged ==
    [][\A e \in Effects : LateDispatch(e) => Licences(e) # {}]_vars

\* An effect in doubt is not lost from sight: Officer Attention is raised, or it
\* is no longer in doubt.
DoubtIsFlagged ==
    \A e \in Effects : ledger[e].status = "UNKNOWN" ~>
        (e \in flag \/ ledger[e].status # "UNKNOWN")

\* A penalty or a credit that was queued counts at last, or is waived.
ScoreIsSettled ==
    \A e \in Effects \ Emails :
        eff[e] # Unqueued ~> ledger[e].status \in Settled

\* A retry the Officer was told is a SUCCESS is carried out: the e-mail "accepted
\* to be delivered twice" does not stay PENDING with nobody to send it.
RepairIsCarriedOut ==
    \A r \in Repairs :
        (RepairOf[r].kind = "retry" /\ repair[r].pc = "done" /\ repair[r].reply = "SUCCESS")
        ~> ledger[RepairOf[r].effect].status # "PENDING"
=============================================================================
