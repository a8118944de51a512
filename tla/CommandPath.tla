---------------------------- MODULE CommandPath ----------------------------
(***************************************************************************)
(* The way of a command: an HTTP request to the Gateway                    *)
(* (apps/gateway/src/app.ts), its precheck against the atoms, the Update   *)
(* it sends, the Workflow's handler, and the answer, or a timeout after    *)
(* which the client sends the same request again.                          *)
(*                                                                         *)
(* Who remembers that a command was seen: Temporal, by Update id, for one  *)
(* run; the Workflow, by Idempotency-Key, in maps that Continue-As-New     *)
(* carries over; the atoms, by operation id, for ever.  A completion gets  *)
(* a new Update id per delivery; the other commands keep theirs.           *)
(*                                                                         *)
(* It starts where a Contractor has accepted the offer, so that the visit  *)
(* is scheduled, and adds the Proof atom, which a completion cites.        *)
(***************************************************************************)
EXTENDS CaseWorkflow, ProofAtom

CONSTANTS
    MaxCalls,       \* bound: Update -> how often its client sends it
    MaxRuns,        \* bound: how many runs Continue-As-New makes of one
    MayFail,        \* kinds whose Activities may fail for good
    Outages,        \* the atoms that may be unreachable for the Gateway
    Worker, Opening, Visit,   \* who accepted, and by which Updates it came so far
    Cited           \* Update -> the proof items a completion cites

\* The commands whose way is modelled here, and so the only ones that are sent.
Repeated == {"start", "cancel", "complete"}

\* The Case was opened and its offer accepted by Updates; the others are commands.
ASSUME CommandAssumption ==
    /\ Worker \in Contractors /\ Slots # {}
    /\ Opening \in Updates /\ KindOf[Opening] = "open"
    /\ Visit \in Updates /\ KindOf[Visit] = "accept"
    /\ MaxCalls \in [Updates -> Nat]
    /\ \A u \in Updates : MaxCalls[u] > 0 => KindOf[u] \in Repeated
    /\ MayFail \subseteq Repeated
    \* `${caseId}/allocate/...` is the operation id of no command
    /\ Updates \cap (Contractors \X (0 .. MaxEpoch)) = {}
    /\ Cited \in [Updates -> SUBSET ProofItems]

VARIABLES
    call,           \* <<Update, number>> -> where that HTTP request is
    cached,         \* the Updates in this run's operation maps
    delivered,      \* the Update ids Temporal knows of this run
    runs            \* the runs so far

commandVars == <<call, cached, delivered, runs>>
pathVars == <<vars, commandVars, proofVars>>

Calls == UNION {{u} \X (1 .. MaxCalls[u]) : u \in Updates}
NewCall == [pc |-> "new", req |-> NONE, answer |-> NONE, missed |-> FALSE]
Told(answer) == [NewCall EXCEPT !.pc = "answered", !.answer = answer]
Tell(d, answer) == call' = [call EXCEPT ![d] = Told(answer)]

Offer == <<Worker, 0>>
BookedSlot == CHOOSE s \in Slots : TRUE

\* The offer was accepted; or it was before the main loop heard that the Case is
\* marked as assigned.
Booked ==
    /\ assignment = [c \in Cases |-> "ACCEPTED"]
    /\ completionOp = [c \in Cases |-> NONE]
    /\ attempt = [a \in AttemptIds |->
           IF a = Offer THEN [status |-> "ACCEPTED", case |-> TheCase,
                              contractor |-> Worker, acceptedBy |-> Visit]
           ELSE Asg!NoAttempt]
    /\ epoch = 1 /\ commit = Asg!NoCommit
    /\ claim = [x \in ClaimIds |->
           IF x = Visit THEN [status |-> "ACTIVE", case |-> TheCase, attempt |-> Offer,
                              contractor |-> Worker, slot |-> BookedSlot]
           ELSE Apt!NoClaim]
    /\ appointment = [x \in ClaimIds |-> IF x = Visit THEN "scheduled" ELSE NONE]
    /\ visitOp = [x \in ClaimIds |-> NONE]
    /\ caseCompletion = [c \in Cases |-> NONE]
    /\ attention = [c \in Cases |-> {}]
    /\ now = 0
    /\ deadline = [a \in AttemptIds |-> IF a = Offer THEN AcceptanceSla ELSE NONE]
    /\ upd = [u \in Updates |-> IF u \in {Opening, Visit} THEN Answered("SUCCESS")
                                ELSE NewUpdate]
    /\ effects = {}
    /\ LET run == [FreshRun EXCEPT !.known = TRUE, !.accepted = TRUE, !.visit = Visit,
                                   !.attempted = {Worker}]
       IN \/ /\ caseStatus = [c \in Cases |-> "assigned"]
             /\ caseOps = {Opening, Offer, Visit}
             /\ wf = [run EXCEPT !.active = TRUE, !.rev = TRUE]
             /\ main = AtTop
          \/ /\ caseStatus = [c \in Cases |-> "pending"]
             /\ caseOps = {Opening, Visit}
             /\ wf = run
             /\ main = [AtTop EXCEPT !.pc = "assign", !.k = Worker]

CommandInit ==
    /\ Booked /\ ProofInit
    /\ call = [d \in Calls |-> NewCall]
    /\ cached = {Opening, Visit} /\ delivered = {Opening, Visit} /\ runs = 1

-----------------------------------------------------------------------------
(* The Gateway: precheck, delivery, answer *)

Reported == {y \in Apt!VisitsOf(TheCase) : claim[y].attempt \in CurrentAttempts}

\* What a route that lets nothing through answers.
Refusal(kind) ==
    CASE kind = "cancel" /\ Status # NONE -> "NOT_CANCELLABLE"
      [] kind = "complete" /\ Reported # {} -> "NOT_IN_PROGRESS"
      [] OTHER -> "NOT_FOUND"

\* The atoms a route reads, and what it answers when one is out of reach: the
\* lookups of the Assignment and the Appointment do not tell that from "none"; `missed'
\* keeps that for the properties.
Outage(kind, atom) ==
    CASE atom = "case" /\ kind \in {"cancel", "complete"} -> "RETRY"
      [] atom = "appointment" /\ kind \in {"start", "complete"} -> "NOT_FOUND"
      [] atom = "assignment" /\ kind = "complete" -> "NOT_FOUND"
      [] OTHER -> NONE

Call(d) ==
    LET kind == KindOf[d[1]] IN
    /\ ~Synchronous
    /\ call[d].pc = "new" /\ (d[2] > 1 => call[<<d[1], d[2] - 1>>].pc = "answered")
    /\ \/ \E req \in Requests(kind) :
              call' = [call EXCEPT ![d] = [NewCall EXCEPT !.pc = "sending", !.req = req]]
       \/ Requests(kind) = {} /\ Tell(d, Refusal(kind))
       \/ \E atom \in Outages :
              /\ Outage(kind, atom) # NONE
              /\ call' = [call EXCEPT ![d] = [Told(Outage(kind, atom)) EXCEPT
                               !.missed = Outage(kind, atom) # "RETRY"]]
    /\ UNCHANGED <<vars, cached, delivered, runs, proofVars>>

\* Temporal is out of reach (503), or the answer takes too long (504).
GiveUp(d) ==
    /\ ~Synchronous
    /\ call[d].pc \in {"sending", "waiting"}
    /\ Tell(d, "RETRY")
    /\ UNCHANGED <<vars, cached, delivered, runs, proofVars>>

Remembered(u) == main.pc # "closed" /\ u \in cached

InFlight(u) == upd[u].pc \notin {"new", "done"}

\* executeUpdateWithStart.  Waits for an Update of that id, or for the handler
\* that is busy with that key.
Join(d) ==
    LET u == d[1] IN
    /\ call[d].pc = "sending" /\ InFlight(u)
    /\ KindOf[u] = "complete" => upd[u].pc # "sent"
    /\ call' = [call EXCEPT ![d].pc = "waiting", ![d].req = NONE]
    /\ UNCHANGED <<vars, cached, delivered, runs, proofVars>>

\* Answered from what Temporal recorded of the Update, or from the Workflow's map.
Replay(d) ==
    LET u == d[1] IN
    /\ ~Synchronous
    /\ call[d].pc = "sending" /\ upd[u].pc = "done"
    /\ u \in delivered \/ Remembered(u)
    /\ Tell(d, upd[u].result)
    /\ UNCHANGED <<vars, cached, delivered, runs, proofVars>>

\* Whether a server still answers for a run that has closed is left open.
Deliver(d) ==
    LET u == d[1] IN
    /\ ~Synchronous
    /\ call[d].pc = "sending" /\ ~InFlight(u) /\ ~Remembered(u)
    /\ u \in delivered => main.pc = "closed"
    /\ upd' = [upd EXCEPT ![u] = call[d].req]
    /\ call' = [call EXCEPT ![d].pc = "waiting", ![d].req = NONE]
    /\ delivered' = IF KindOf[u] = "complete" THEN delivered ELSE delivered \cup {u}
    /\ UNCHANGED <<atomVars, now, wf, main, effects, cached, runs, proofVars>>

-----------------------------------------------------------------------------
(* The Workflow, and what it remembers of a command *)

\* A replacement that waits for an expiry is not in the map yet.
InMap(u) ==
    /\ upd[u].pc \notin {"new", "sent", "done"}
    /\ ~(KindOf[u] = "replace" /\ upd[u].pc = "await")

\* A completion that stopped half way, and a handler that threw, are forgotten.
Kept(u) == upd[u].pc # "done" \/ upd[u].result \notin {"COMPLETION_FAILED", "FAILED"}

\* After a step of the Workflow: the maps, and the callers that waited.
Settle ==
    /\ cached' = {u \in Updates : (u \in cached \/ InMap(u)') /\ Kept(u)'}
    /\ call' = [d \in Calls |->
           IF call[d].pc = "waiting" /\ upd[d[1]].pc # "done" /\ upd'[d[1]].pc = "done"
           THEN Told(upd'[d[1]].result) ELSE call[d]]
    /\ UNCHANGED <<delivered, runs, proofVars>>

\* An Activity fails for good: the handler throws, a cancellation is undone.
HandlerFails(u) ==
    /\ ~Synchronous /\ KindOf[u] \in MayFail /\ Running(u)
    /\ Answer(u, "FAILED")
    /\ wf' = IF KindOf[u] = "cancel" THEN [wf EXCEPT !.cancelling = FALSE] ELSE wf
    /\ UNCHANGED <<atomVars, now, main, effects>>

\* The proof items validateCompletion resolves, last of all it reads.
Evidence(u) ==
    /\ \A i \in Cited[u] : Resolves(i)
    /\ \A t \in Types : \E i \in Cited[u] : proofItem[i].type = t

HandlerTurn(u) ==
    /\ HandlerStep(u)
    /\ upd[u].pc = "validate" =>
          CASE upd'[u].pc = "visit" -> Evidence(u) \/ Status = "completed"
            [] upd'[u].pc = "done" /\ upd'[u].result = "COMPLETION_INVALID" -> ~Evidence(u)
            [] OTHER -> TRUE

WorkflowTurn ==
    \/ LoopStep \/ \E lost \in LostReplies : LoopActivity(lost)
    \/ \E u \in Updates :
          \/ HandlerTurn(u) \/ HandlerFails(u)
          \/ \E lost \in LostReplies : HandlerActivity(u, lost)

\* Defect (as all operators named ...Defect, never part of a specification): the
\* carry-over leaves the maps of operations behind.
EmptyMapsDefect == {}
CarriedMaps == cached

\* The main loop continues as a new run: the variables and the maps go along, the
\* Update ids Temporal knew do not.
ContinueAsNew ==
    /\ main.pc = "top" /\ HandlersFinished /\ runs < MaxRuns
    /\ wf' = [wf EXCEPT !.rev = FALSE]
    /\ cached' = CarriedMaps
    /\ delivered' = {u \in delivered : upd[u].pc = "sent"}
    /\ runs' = runs + 1
    /\ UNCHANGED <<atomVars, now, main, upd, effects, call, proofVars>>

StartEmptyRun ==
    /\ StartRun
    /\ cached' = {}
    /\ delivered' = {u \in delivered : upd[u].pc = "sent"}
    /\ UNCHANGED <<call, runs, proofVars>>

-----------------------------------------------------------------------------
(* Proof *)

\* The Gateway lets an upload through while Case and visit are in progress.
BeginUpload(r) ==
    /\ StartUpload(r)
    /\ Status = "in_progress" /\ \E x \in Reported : appointment[x] = "in_progress"

ProofStep ==
    /\ ~Synchronous
    /\ \E r \in Uploads : BeginUpload(r) \/ UploadStep(r)
    /\ UNCHANGED <<vars, commandVars>>

CommandNext ==
    \/ \E d \in Calls : Call(d) \/ GiveUp(d) \/ Join(d) \/ Replay(d) \/ Deliver(d)
    \/ WorkflowTurn /\ Settle
    \/ ContinueAsNew
    \/ StartEmptyRun
    \/ Tick /\ UNCHANGED <<commandVars, proofVars>>
    \/ ProofStep

CommandSpec == CommandInit /\ [][CommandNext]_pathVars

-----------------------------------------------------------------------------
(* Properties *)

CallAnswers == {"SUCCESS", "RETRY", "NOT_FOUND", "NOT_CANCELLABLE", "NOT_IN_PROGRESS",
                "NOT_IN_WINDOW", "NOT_SCHEDULED", "CASE_TERMINAL", "WORK_START_FAILED",
                "COMPLETION_FAILED", "COMPLETION_INVALID", "FAILED"}

CommandTypeOK ==
    /\ TypeOK /\ ProofTypeOK
    /\ \A d \in Calls : /\ call[d].pc \in {"new", "sending", "waiting", "answered"}
                        /\ call[d].answer \in CallAnswers \cup {NONE}
                        /\ (call[d].pc = "answered") <=> (call[d].answer # NONE)
                        /\ call[d].missed \in BOOLEAN
    /\ cached \subseteq Updates /\ delivered \subseteq Updates

\* The effect of a command is on record, and the last thing that became of the Case.
TookEffect(u) ==
    \/ KindOf[u] = "start" /\ u \in caseOps /\ Status = "in_progress"
    \/ KindOf[u] = "complete" /\ caseCompletion[TheCase] = u
    \/ KindOf[u] = "cancel" /\ u \in caseOps /\ Status = "cancelled"

\* A call is answered with neither SUCCESS nor RETRY, although its command took effect.
IsToldOtherwise(d) ==
    /\ TookEffect(d[1]) /\ call[d].pc # "answered" /\ call'[d].pc = "answered"
    /\ call'[d].answer \notin {"SUCCESS", "RETRY"}

\* "A pending Update is not a lost write; retry the request with its idempotency key"
\* (docs/deployment.md:66).  FALSE of a cancellation, which the precheck refuses once the
\* Case is cancelled, and of what the exceptions of EffectIsNotDenied name.
RetryIsNotDenied ==
    [][\A d \in Calls : (d[2] > 1 /\ call[<<d[1], d[2] - 1>>].answer = "RETRY")
                        => ~IsToldOtherwise(d)]_pathVars

\* What holds of it: a start or a completion that took effect is denied, however often it
\* is repeated and whatever was forgotten in between, only to a request whose lookup of the
\* Assignment or the Appointment did not get through, or in a run that started empty, after
\* the Case had ended, while a cancellation that came as late is under way.
EffectIsNotDenied ==
    [][\A d \in Calls :
          IsToldOtherwise(d) => \/ KindOf[d[1]] = "cancel"
                                \/ call'[d].missed
                                \/ ~wf.known /\ wf.cancelling]_pathVars

\* One report completes a Case: visit, Assignment and Case name the same operation,
\* whichever completions ran side by side, were repeated or took over after one
\* that stopped half way.
OneCompletion ==
    Status = "completed" =>
        /\ completionOp[TheCase] = caseCompletion[TheCase]
        /\ \A x \in Apt!VisitsOf(TheCase) : appointment[x] = "completed"
                                            => visitOp[x] = caseCompletion[TheCase]

\* A Case is completed on evidence: every item its completion cites is ready and
\* shows what was claimed for it, though they were read before anything was written.
CompletedOnEvidence ==
    Status = "completed" =>
        LET u == caseCompletion[TheCase]
        IN \A t \in Types : \E i \in Cited[u] :
               /\ proofItem[i].type = t /\ proofItem[i].ready
               /\ object[i] = proofItem[i].content

\* A start that was asked for too early may be repeated: "a before-window
\* NOT_IN_WINDOW is non-terminal (the window opens later), so a same-key retry once
\* startTime arrives must still be able to succeed, never replay a stale
\* rejection" (case-workflow.ts).
EarlyStartMayBeRepeated ==
    [][\A d \in Calls :
          (/\ call[d].pc # "answered" /\ call'[d].pc = "answered"
           /\ KindOf[d[1]] = "start" /\ call'[d].answer = "NOT_IN_WINDOW")
          => ~InWindow(claim[Visit].slot)]_pathVars
=============================================================================
