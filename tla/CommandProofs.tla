---------------------------- MODULE CommandProofs ----------------------------
(***************************************************************************)
(* What the way of a command promises for every set of requests, uploads,  *)
(* outages and failures: the invariant of the Workflow stands although     *)
(* Updates are delivered again, throw and are forgotten; a Case is         *)
(* completed once, and on evidence; what took effect is not denied.  First *)
(* the Proof atom by itself.                                               *)
(***************************************************************************)
EXTENDS CommandPath, WorkflowProofs


-----------------------------------------------------------------------------
(* The inductive invariant *)

\* Whoever is past its claim found, or made, a row that says what it uploads.
UploadHasRow ==
    \A r \in Uploads :
        upload[r] \in {"write", "ready"} =>
            /\ proofItem[r[1]] # NoRow
            /\ proofItem[r[1]].type = r[2] /\ proofItem[r[1]].content = r[3]

\* Nothing is stored but what the row says, which never changes once it is there.
ObjectIsClaimed ==
    \A i \in ProofItems : object[i] \in {Blank, proofItem[i].content}

\* Who is about to mark its row ready has written its object.
WrittenBeforeReady ==
    \A r \in Uploads : upload[r] = "ready" => object[r[1]] = r[3]

ProofInv ==
    /\ ProofTypeOK
    /\ UploadHasRow /\ ObjectIsClaimed /\ WrittenBeforeReady
    /\ ReadyProofIsWhatWasClaimed

-----------------------------------------------------------------------------
\* What a request consists of.
LEMMA RequestParts ==
    ASSUME NEW r \in Uploads
    PROVE  /\ r[1] \in ProofItems /\ r[2] \in Types /\ r[3] \in Contents
           /\ r[2] # Blank /\ r[3] # Blank
BY ProofAssumption

\* A row is claimed when there is none; a request goes on with the row of another
\* only when type and content agree.
LEMMA ClaimOutcomes ==
    ASSUME NEW r \in Uploads, ProofTypeOK
    PROVE  /\ (ClaimOutcome(r) = "CLAIMED") <=> (proofItem[r[1]] = NoRow)
           /\ ClaimOutcome(r) = "RESUME" =>
                 proofItem[r[1]].type = r[2] /\ proofItem[r[1]].content = r[3]
<1> DEFINE row == proofItem[r[1]]
<1>1. NoRow.type = Blank
  BY DEF NoRow
<1>2. r[2] # Blank
  BY RequestParts
<1>3. CASE row = NoRow
  BY <1>1, <1>2, <1>3 DEF ClaimOutcome
<1>4. CASE row # NoRow /\ row.type # r[2]
  BY <1>4 DEF ClaimOutcome
<1>5. CASE row # NoRow /\ row.type = r[2] /\ row.content # r[3]
  BY <1>5 DEF ClaimOutcome
<1>6. CASE row # NoRow /\ row.type = r[2] /\ row.content = r[3]
  BY <1>6 DEF ClaimOutcome
<1> QED
  BY <1>3, <1>4, <1>5, <1>6

LEMMA InitEstablishesProofInv == ProofInit => ProofInv
<1> SUFFICES ASSUME ProofInit PROVE ProofInv
  OBVIOUS
<1>1. ProofTypeOK
  BY DEF ProofInit, ProofTypeOK, NoRow, UploadPcs
<1>2. UploadHasRow /\ WrittenBeforeReady
  BY DEF ProofInit, UploadHasRow, WrittenBeforeReady
<1>3. ObjectIsClaimed
  BY DEF ProofInit, ObjectIsClaimed
<1>4. ReadyProofIsWhatWasClaimed
  BY DEF ProofInit, ReadyProofIsWhatWasClaimed, NoRow
<1> QED
  BY <1>1, <1>2, <1>3, <1>4 DEF ProofInv

\* Moving a request, and no row or object, keeps the invariant if the request is not
\* taken past its claim.
LEMMA MovingARequest ==
    ASSUME ProofInv, NEW r \in Uploads, NEW pc \in {"claim", "done"},
           UploadAt(r, pc), UNCHANGED <<proofItem, object>>
    PROVE  ProofInv'
<1>1. \A q \in Uploads : upload'[q] \in {"write", "ready"} => upload'[q] = upload[q]
  BY DEF ProofInv, ProofTypeOK, UploadAt
<1>2. ProofTypeOK'
  BY DEF ProofInv, ProofTypeOK, UploadAt, UploadPcs
<1>3. UploadHasRow' /\ WrittenBeforeReady'
  BY <1>1 DEF ProofInv, UploadHasRow, WrittenBeforeReady
<1>4. ObjectIsClaimed' /\ ReadyProofIsWhatWasClaimed'
  BY DEF ProofInv, ObjectIsClaimed, ReadyProofIsWhatWasClaimed
<1> QED
  BY <1>2, <1>3, <1>4 DEF ProofInv

LEMMA ClaimKeepsProofInv ==
    ASSUME ProofInv, NEW r \in Uploads, ClaimProofUpload(r)
    PROVE  ProofInv'
<1> DEFINE item == r[1]
           new == [type |-> r[2], content |-> r[3], ready |-> FALSE]
<1>1. item \in ProofItems /\ r[2] \in Types /\ r[3] \in Contents /\ r[2] # Blank
  BY RequestParts
<1>2. CASE ClaimOutcome(r) = "CLAIMED"
  <2>1. proofItem[item] = NoRow
    BY <1>2, ClaimOutcomes DEF ProofInv
  <2>2. /\ proofItem' = [proofItem EXCEPT ![item] = new]
        /\ upload' = [upload EXCEPT ![r] = "write"] /\ object' = object
    BY <1>2 DEF ClaimProofUpload, UploadAt
  <2>3. proofItem'[item] = new /\ \A i \in ProofItems \ {item} : proofItem'[i] = proofItem[i]
    BY <1>1, <2>2 DEF ProofInv, ProofTypeOK
  <2>4. new # NoRow /\ new.type = r[2] /\ new.content = r[3] /\ new.ready = FALSE
    BY <1>1 DEF NoRow
  <2>5. ProofTypeOK'
    BY <1>1, <2>2 DEF ProofInv, ProofTypeOK, UploadPcs
  <2>6. UploadHasRow'
    <3> SUFFICES ASSUME NEW q \in Uploads, upload'[q] \in {"write", "ready"}
                 PROVE  /\ proofItem'[q[1]] # NoRow
                        /\ proofItem'[q[1]].type = q[2] /\ proofItem'[q[1]].content = q[3]
      BY DEF UploadHasRow
    <3>1. CASE q = r
      BY <3>1, <2>3, <2>4
    <3>2. CASE q # r
      <4>1. upload[q] \in {"write", "ready"}
        BY <3>2, <2>2 DEF ProofInv, ProofTypeOK
      <4>2. q[1] # item /\ q[1] \in ProofItems
        BY <4>1, <2>1, RequestParts DEF ProofInv, UploadHasRow
      <4> QED
        BY <4>1, <4>2, <2>3 DEF ProofInv, UploadHasRow
    <3> QED
      BY <3>1, <3>2
  <2>7. ObjectIsClaimed'
    <3>1. object[item] = Blank
      BY <1>1, <2>1 DEF ProofInv, ObjectIsClaimed, NoRow
    <3> QED
      BY <3>1, <2>2, <2>3 DEF ProofInv, ObjectIsClaimed
  <2>8. WrittenBeforeReady'
    BY <2>2 DEF ProofInv, ProofTypeOK, WrittenBeforeReady
  <2>9. ReadyProofIsWhatWasClaimed'
    BY <2>2, <2>3, <2>4 DEF ProofInv, ReadyProofIsWhatWasClaimed
  <2> QED
    BY <2>5, <2>6, <2>7, <2>8, <2>9 DEF ProofInv
<1>3. CASE ClaimOutcome(r) = "RESUME" /\ ~proofItem[item].ready
  <2>1. proofItem[item].type = r[2] /\ proofItem[item].content = r[3]
    BY <1>3, ClaimOutcomes DEF ProofInv
  <2>2. proofItem[item] # NoRow
    BY <1>1, <2>1 DEF NoRow
  <2>3. /\ proofItem' = proofItem /\ object' = object
        /\ upload' = [upload EXCEPT ![r] = "write"]
    BY <1>3 DEF ClaimProofUpload, UploadAt
  <2>4. ProofTypeOK'
    BY <2>3 DEF ProofInv, ProofTypeOK, UploadPcs
  <2>5. UploadHasRow' /\ WrittenBeforeReady'
    BY <2>1, <2>2, <2>3 DEF ProofInv, ProofTypeOK, UploadHasRow, WrittenBeforeReady
  <2>6. ObjectIsClaimed' /\ ReadyProofIsWhatWasClaimed'
    BY <2>3 DEF ProofInv, ObjectIsClaimed, ReadyProofIsWhatWasClaimed
  <2> QED
    BY <2>4, <2>5, <2>6 DEF ProofInv
<1>4. CASE ClaimOutcome(r) # "CLAIMED" /\ ~(ClaimOutcome(r) = "RESUME" /\ ~proofItem[item].ready)
  <2>1. UploadAt(r, "done") /\ UNCHANGED <<proofItem, object>>
    BY <1>4 DEF ClaimProofUpload
  <2> QED
    BY <2>1, MovingARequest
<1> QED
  BY <1>2, <1>3, <1>4

LEMMA WriteKeepsProofInv ==
    ASSUME ProofInv, NEW r \in Uploads, WriteObject(r)
    PROVE  ProofInv'
<1>1. r[1] \in ProofItems /\ r[3] \in Contents
  BY RequestParts
<1>2. proofItem[r[1]] # NoRow /\ proofItem[r[1]].type = r[2] /\ proofItem[r[1]].content = r[3]
  BY DEF ProofInv, UploadHasRow, WriteObject
<1>3. /\ object' = [object EXCEPT ![r[1]] = r[3]] /\ proofItem' = proofItem
      /\ upload' = [upload EXCEPT ![r] = "ready"]
  BY DEF WriteObject, UploadAt
<1>4. ProofTypeOK'
  BY <1>1, <1>3 DEF ProofInv, ProofTypeOK, UploadPcs
<1>5. UploadHasRow'
  BY <1>2, <1>3 DEF ProofInv, ProofTypeOK, UploadHasRow
<1>6. \A i \in ProofItems : object'[i] = IF i = r[1] THEN proofItem[i].content ELSE object[i]
  BY <1>2, <1>3 DEF ProofInv, ProofTypeOK
<1>7. ObjectIsClaimed' /\ ReadyProofIsWhatWasClaimed'
  BY <1>3, <1>6 DEF ProofInv, ObjectIsClaimed, ReadyProofIsWhatWasClaimed
<1>8. WrittenBeforeReady'
  <2> SUFFICES ASSUME NEW q \in Uploads, upload'[q] = "ready" PROVE object'[q[1]] = q[3]
    BY DEF WrittenBeforeReady
  <2>1. q[1] \in ProofItems
    BY RequestParts
  <2>2. proofItem[q[1]].content = q[3]
    BY <1>2, <1>3 DEF ProofInv, ProofTypeOK, UploadHasRow
  <2>3. q[1] # r[1] => object[q[1]] = q[3]
    BY <1>3 DEF ProofInv, ProofTypeOK, WrittenBeforeReady
  <2> QED
    BY <2>1, <2>2, <2>3, <1>6
<1> QED
  BY <1>4, <1>5, <1>7, <1>8 DEF ProofInv

LEMMA ReadyKeepsProofInv ==
    ASSUME ProofInv, NEW r \in Uploads, MarkProofReady(r)
    PROVE  ProofInv'
<1> DEFINE row == proofItem[r[1]]
<1>1. r[1] \in ProofItems
  BY RequestParts
<1>2. row # NoRow /\ row.type = r[2] /\ row.content = r[3] /\ object[r[1]] = r[3]
  BY DEF ProofInv, UploadHasRow, WrittenBeforeReady, MarkProofReady
<1>3. row \in [type : Types, content : Contents, ready : BOOLEAN]
  BY <1>1, <1>2 DEF ProofInv, ProofTypeOK
<1>4. /\ proofItem' = [proofItem EXCEPT ![r[1]] = [row EXCEPT !.ready = TRUE]]
      /\ object' = object /\ upload' = [upload EXCEPT ![r] = "done"]
  BY DEF MarkProofReady, UploadAt
<1>5. \A i \in ProofItems : /\ proofItem'[i].type = proofItem[i].type
                            /\ proofItem'[i].content = proofItem[i].content
                            /\ i # r[1] => proofItem'[i] = proofItem[i]
                            /\ proofItem[i] # NoRow => proofItem'[i] # NoRow
  <2>1. proofItem'[r[1]] = [row EXCEPT !.ready = TRUE]
    BY <1>1, <1>4 DEF ProofInv, ProofTypeOK
  <2>2. proofItem'[r[1]].type = row.type /\ proofItem'[r[1]].content = row.content
        /\ proofItem'[r[1]].ready = TRUE
    BY <2>1, <1>3
  <2>3. proofItem'[r[1]] # NoRow
    BY <2>2 DEF NoRow
  <2>4. \A i \in ProofItems \ {r[1]} : proofItem'[i] = proofItem[i]
    BY <1>4 DEF ProofInv, ProofTypeOK
  <2> QED
    BY <2>2, <2>3, <2>4
<1>6. ProofTypeOK'
  BY <1>1, <1>3, <1>4 DEF ProofInv, ProofTypeOK, UploadPcs
<1>7. UploadHasRow' /\ WrittenBeforeReady'
  <2>1. \A q \in Uploads : /\ q[1] \in ProofItems
                           /\ upload'[q] \in {"write", "ready"} => upload'[q] = upload[q]
    BY <1>4, RequestParts DEF ProofInv, ProofTypeOK
  <2> QED
    BY <2>1, <1>4, <1>5 DEF ProofInv, UploadHasRow, WrittenBeforeReady
<1>8. ObjectIsClaimed'
  BY <1>4, <1>5 DEF ProofInv, ObjectIsClaimed
<1>9. ReadyProofIsWhatWasClaimed'
  BY <1>2, <1>4, <1>5 DEF ProofInv, ReadyProofIsWhatWasClaimed
<1> QED
  BY <1>6, <1>7, <1>8, <1>9 DEF ProofInv

LEMMA NextKeepsProofInv == ProofInv /\ [ProofNext]_proofVars => ProofInv'
<1> SUFFICES ASSUME ProofInv, [ProofNext]_proofVars PROVE ProofInv'
  OBVIOUS
<1>1. ASSUME NEW r \in Uploads, StartUpload(r) PROVE ProofInv'
  BY <1>1, MovingARequest DEF StartUpload
<1>2. ASSUME NEW r \in Uploads, ClaimProofUpload(r) PROVE ProofInv'
  BY <1>2, ClaimKeepsProofInv
<1>3. ASSUME NEW r \in Uploads, WriteObject(r) PROVE ProofInv'
  BY <1>3, WriteKeepsProofInv
<1>4. ASSUME NEW r \in Uploads, MarkProofReady(r) PROVE ProofInv'
  BY <1>4, ReadyKeepsProofInv
<1>5. ASSUME NEW r \in Uploads, UploadFails(r) PROVE ProofInv'
  BY <1>5, MovingARequest DEF UploadFails
<1>6. CASE UNCHANGED proofVars
  BY <1>6 DEF proofVars, ProofInv, ProofTypeOK, UploadHasRow, ObjectIsClaimed,
              WrittenBeforeReady, ReadyProofIsWhatWasClaimed
<1> QED
  BY <1>1, <1>2, <1>3, <1>4, <1>5, <1>6 DEF ProofNext, UploadStep

-----------------------------------------------------------------------------
\* Rows, objects and requests keep their types, whatever uploads race.
THEOREM ProofTypes == ProofSpec => []ProofTypeOK
<1>1. ProofInit => ProofInv
  BY InitEstablishesProofInv
<1>2. ProofInv /\ [ProofNext]_proofVars => ProofInv'
  BY NextKeepsProofInv
<1>3. ProofInv => ProofTypeOK
  BY DEF ProofInv
<1> QED
  BY <1>1, <1>2, <1>3, PTL DEF ProofSpec

\* A ready item shows what was claimed for it (claimProofUpload, markProofReady), for
\* any number of requests under any ids, interrupted and resumed anywhere.
THEOREM ReadyItemIsTrue == ProofSpec => []ReadyProofIsWhatWasClaimed
<1>1. ProofInit => ProofInv
  BY InitEstablishesProofInv
<1>2. ProofInv /\ [ProofNext]_proofVars => ProofInv'
  BY NextKeepsProofInv
<1>3. ProofInv => ReadyProofIsWhatWasClaimed
  BY DEF ProofInv
<1> QED
  BY <1>1, <1>2, <1>3, PTL DEF ProofSpec
-----------------------------------------------------------------------------
(* The steps of CommandPath, beside those of the Workflow: a command is       *)
(* delivered, once more or for the first time, or its handler throws.         *)

\* Neither the Workflow nor the clock sends an Update that was not sent.
LEMMA Unsent ==
    ASSUME WorkflowInv,
           \/ LoopStep \/ (\E lost \in LostReplies : LoopActivity(lost))
           \/ (\E u \in Updates : HandlerStep(u))
           \/ (\E u \in Updates, lost \in LostReplies : HandlerActivity(u, lost))
           \/ StartRun \/ Tick \/ UNCHANGED vars
    PROVE  \A v \in Updates : upd[v].pc \in {"new", "done"} => upd'[v] = upd[v]
<1> SUFFICES ASSUME NEW v \in Updates, upd[v].pc \in {"new", "done"} PROVE upd'[v] = upd[v]
  OBVIOUS
<1>0. UpdateShape
  BY DEF WorkflowInv, Shape
<1>1. CASE LoopStep \/ \E lost \in LostReplies : LoopActivity(lost)
  BY <1>0, <1>1, LoopAnswers, WorkflowAssumption DEF LoopAnswered, Answer, UpdateShape
<1>2. ASSUME NEW u \in Updates, HandlerStep(u) PROVE upd'[v] = upd[v]
  <2>1. u # v
    BY <1>2, HandlerStepMoves
  <2>2. CASE Drains(u)
    <3>1. ASSUME NEW i \in DOMAIN wf.queue, wf.queue[i] = v PROVE FALSE
      <4>1. i \in 1 .. Len(wf.queue) /\ v # NONE
        BY NoneIsNull DEF WorkflowInv, Shape, RunState
      <4> QED BY <3>1, <4>1 DEF WorkflowInv, Shape, QueueShape, Waits
    <3> QED BY <2>1, <2>2, <3>1 DEF Drains, AdmitCancel
  <2> QED BY <1>0, <1>2, <2>1, <2>2, HandlerStepMoves, HandlerMovesItsOwn
<1>3. ASSUME NEW u \in Updates, NEW lost \in LostReplies, HandlerActivity(u, lost)
      PROVE  upd'[v] = upd[v]
  BY <1>0, <1>3, ActivityMoves, HandlerMovesItsOwn, WorkflowAssumption
<1>4. StartRun \/ Tick \/ UNCHANGED vars => UNCHANGED upd
  BY DEF StartRun, Tick, vars, workflowVars
<1> QED BY <1>1, <1>2, <1>3, <1>4

\* A step of the Workflow in which nobody sends an Update.
Proper == [Next]_vars /\ \A v \in Updates : upd[v].pc \in {"new", "done"} => upd'[v] = upd[v]

\* A command arrives whose Update is not under way.
Arrives(u) ==
    /\ KindOf[u] \in Repeated /\ upd[u].pc \in {"new", "done"}
    /\ upd' = [upd EXCEPT ![u] = upd'[u]]
    /\ IsUpdate(upd'[u]) /\ upd'[u].pc = "sent"
    /\ KindOf[u] \in {"start", "complete"} => upd'[u].target \in Apt!VisitsOf(TheCase)
    /\ UNCHANGED <<atomVars, now, wf, main, effects>>

\* Steps of the way of a command that are none of the Workflow.
Continues == UNCHANGED <<atomVars, now, main, upd, effects>> /\ wf' = [wf EXCEPT !.rev = FALSE]
PathMoves ==
    \/ Proper \/ Continues
    \/ \E u \in Updates : Arrives(u) \/ HandlerFails(u)

-----------------------------------------------------------------------------
(* The invariant of the Workflow, although commands arrive again and throw    *)

\* What a request to the Gateway carries once its route let it through.
IsCall(c) == c = [pc |-> c.pc, req |-> c.req, answer |-> c.answer, missed |-> c.missed]
Carries(d) ==
    /\ IsUpdate(call[d].req) /\ call[d].req.pc = "sent"
    /\ KindOf[d[1]] \in {"start", "complete"} => call[d].req.target \in Apt!VisitsOf(TheCase)

CallShape ==
    /\ call = [d \in Calls |-> call[d]]
    /\ \A d \in Calls : IsCall(call[d]) /\ (call[d].pc = "sending" => Carries(d))

\* Only commands are under way; the visit that was accepted is the only one, and its
\* acceptance the only one on record.
OthersIdle == \A u \in Updates : KindOf[u] \notin Repeated => upd[u].pc \in {"new", "done"}
OnlyVisit == \A x \in ClaimIds \ {Visit} : claim[x] = Apt!NoClaim
OnlyAcceptance == \A a \in AttemptIds : attempt[a].acceptedBy \in {NONE, Visit}

PathInv == WorkflowInv /\ OthersIdle /\ OnlyVisit /\ OnlyAcceptance
CommandInv == PathInv /\ CallShape

\* A call is one of a command.
LEMMA CallOfCommand ==
    ASSUME NEW d \in Calls
    PROVE  d[1] \in Updates /\ KindOf[d[1]] \in Repeated /\ d[1] \notin ClaimIds /\ d[1] # Visit
<1>1. PICK u \in Updates : d \in {u} \X (1 .. MaxCalls[u])
  BY DEF Calls
<1>2. d[1] = u /\ d[2] \in 1 .. MaxCalls[u] /\ MaxCalls[u] \in Nat
  BY <1>1, CommandAssumption
<1>3. MaxCalls[u] > 0
  BY <1>2
<1> QED BY <1>2, <1>3, CommandAssumption DEF Repeated, ClaimIds

\* The visit is the only one of the Case.
LEMMA TheVisit ==
    ASSUME PathInv, NEW x \in ClaimIds, appointment[x] # NONE
    PROVE  x = Visit
  BY DEF PathInv, WorkflowInv, ClaimsNameOffers, OnlyVisit

\* A step beside the Workflow moves no record, and one Update that is not queued.
LEMMA BesideKept ==
    ASSUME WorkflowInv, UNCHANGED <<atomVars, now, main>>, wf' \in RunState,
           wf'.queue = wf.queue, UpdateShape', UpdateNames', NothingBefore',
           \A v \in Updates : upd[v].pc = "queued" => upd'[v].pc = "queued"
    PROVE  WorkflowInv'
<1>1. LoopShape' /\ QueueShape'
  BY DEF WorkflowInv, Shape, LoopShape, QueueShape, Waits
<1>2. AsgP!TypeInv' /\ AsgP!SafetyInv'
  BY AssignmentKept DEF WorkflowInv, atomVars
<1>3. Apt!AppointmentTypeOK'
  BY AppointmentKept DEF WorkflowInv, atomVars
<1>4. CommitIsAwaited' /\ ClaimsNameOffers'
  BY DEF WorkflowInv, CommitIsAwaited, ClaimsNameOffers, atomVars, assignmentVars, appointmentVars
<1>5. Cas!CaseTypeOK' /\ DeadlineShape' /\ now' \in 0 .. MaxTime
  BY DEF WorkflowInv, Cas!CaseTypeOK, DeadlineShape, atomVars, caseVars, assignmentVars
<1> QED BY <1>1, <1>2, <1>3, <1>4, <1>5 DEF WorkflowInv, Shape

\* A command that arrives, or whose handler throws, breaks nothing.
LEMMA DetourKept ==
    ASSUME PathInv, NEW u \in Updates, Arrives(u) \/ HandlerFails(u)
    PROVE  /\ PathInv' /\ UNCHANGED <<atomVars, now, main, effects>>
           /\ KindOf[u] \in Repeated /\ upd[u].pc # "queued"
           /\ \A v \in Updates \ {u} : upd'[v] = upd[v]
           /\ upd'[u].pc \in {"sent", "done"}
<1>0. /\ UpdateShape /\ wf \in RunState /\ UNCHANGED <<atomVars, now, main, effects>>
  BY DEF PathInv, WorkflowInv, Shape, Arrives, HandlerFails
<1>1. KindOf[u] \in Repeated /\ PcFits(KindOf[u], upd[u].pc)
  BY <1>0, CommandAssumption DEF Arrives, HandlerFails, UpdateShape
<1>2. upd[u].pc # "queued" /\ u \notin ClaimIds /\ u # Visit
  BY <1>1, CommandAssumption DEF PcFits, Repeated, ClaimIds
<1>3. upd' = [v \in Updates |-> upd'[v]] /\ \A v \in Updates \ {u} : upd'[v] = upd[v]
  BY <1>0 DEF Arrives, HandlerFails, Answer, UpdateShape
<1>4. /\ IsUpdate(upd'[u]) /\ upd'[u].pc \in {"sent", "done"}
      /\ upd'[u].pc = "sent" /\ KindOf[u] \in {"start", "complete"} =>
             upd'[u].target \in Apt!VisitsOf(TheCase)
  <2>1. CASE Arrives(u)
    BY <2>1 DEF Arrives
  <2>2. CASE HandlerFails(u)
    BY <1>0, <2>2 DEF HandlerFails, Answer, Answered, NewUpdate, UpdateShape, IsUpdate
  <2> QED BY <2>1, <2>2
<1>5. wf' \in RunState /\ wf'.queue = wf.queue
  BY <1>0 DEF Arrives, HandlerFails, RunState
<1>6. UNCHANGED <<attempt, claim, appointment>>
  BY <1>0 DEF atomVars, assignmentVars, appointmentVars
<1>7. UpdateShape'
  BY <1>0, <1>3, <1>4 DEF UpdateShape, PcFits
<1>8. UpdateNames'
  <2> SUFFICES ASSUME NEW v \in Updates, upd'[v].pc \notin {"new", "done"} PROVE Names(v)'
    BY DEF UpdateNames
  <2>1. CASE v = u
    BY <1>1, <1>4, <1>6, <2>1 DEF Names, Repeated, Apt!VisitsOf
  <2>2. CASE v # u
    BY <1>3, <1>6, <2>2 DEF PathInv, WorkflowInv, UpdateNames, Names, Apt!VisitsOf
  <2> QED BY <2>1, <2>2
<1>9. NothingBefore'
  <2>1. \A a \in AttemptIds : attempt[a].acceptedBy # u
    BY <1>2, NoneIsNull DEF PathInv, OnlyAcceptance
  <2> QED BY <1>2, <1>3, <1>6, <2>1 DEF PathInv, WorkflowInv, NothingBefore
<1>10. WorkflowInv'
  BY <1>0, <1>2, <1>3, <1>5, <1>7, <1>8, <1>9, BesideKept DEF PathInv
<1>11. OthersIdle' /\ OnlyVisit' /\ OnlyAcceptance'
  BY <1>1, <1>3, <1>6 DEF PathInv, OthersIdle, OnlyVisit, OnlyAcceptance
<1> QED BY <1>0, <1>1, <1>2, <1>3, <1>4, <1>10, <1>11 DEF PathInv

\* Nor does a main loop that continues as a new run.
LEMMA ContinueKept == ASSUME PathInv, Continues PROVE PathInv'
<1>1. /\ wf' \in RunState /\ wf'.queue = wf.queue /\ UNCHANGED <<attempt, claim, appointment>>
  BY DEF PathInv, WorkflowInv, Shape, RunState, Continues, atomVars, assignmentVars,
         appointmentVars
<1>2. UpdateShape' /\ UpdateNames' /\ NothingBefore'
  BY <1>1 DEF PathInv, WorkflowInv, Shape, UpdateShape, UpdateNames, Names, NothingBefore,
     Apt!VisitsOf, Continues
<1>3. WorkflowInv'
  BY <1>1, <1>2, BesideKept DEF PathInv, Continues
<1> QED BY <1>1, <1>3 DEF PathInv, OthersIdle, OnlyVisit, OnlyAcceptance, Continues

\* The Workflow's own steps keep to commands: no handler that is idle starts.
LEMMA ProperKept == ASSUME PathInv, Proper PROVE PathInv'
<1>1. WorkflowInv'
  BY InvariantStep DEF PathInv, Proper
<1>2. OthersIdle'
  BY DEF PathInv, OthersIdle, Proper
<1>3. OnlyVisit'
  <2> SUFFICES ASSUME NEW x \in ClaimIds \ {Visit}, claim'[x] # Apt!NoClaim PROVE FALSE
    BY DEF OnlyVisit, Apt!NoClaim
  <2>1. claim[x] = Apt!NoClaim /\ x \in Updates /\ KindOf[x] \in {"accept", "replace"}
    BY DEF PathInv, OnlyVisit, ClaimIds
  <2>2. Claimed(x)
    BY <2>1, NewClaim DEF PathInv, Proper
  <2> QED BY <2>1, <2>2 DEF Claimed, PathInv, OthersIdle, Repeated
<1>4. OnlyAcceptance'
  <2> SUFFICES ASSUME NEW a \in AttemptIds, attempt'[a].acceptedBy \notin {NONE, Visit}
               PROVE  FALSE
    BY DEF OnlyAcceptance
  <2>1. attempt'[a].acceptedBy \in Updates
    <3>1. attempt'[a] \in AsgP!AttemptRow \cup {AsgP!NoAttempt}
      BY <1>1 DEF WorkflowInv, AsgP!TypeInv, AsgP!AssignmentTypeOK
    <3> QED BY <3>1 DEF AsgP!AttemptRow, AsgP!NoAttempt, OpIds
  <2>2. PICK u \in Updates : attempt'[a].acceptedBy = u /\ attempt[a].acceptedBy # u
    BY <2>1 DEF PathInv, OnlyAcceptance
  <2>3. KindOf[u] = "accept" /\ upd[u].pc = "accept"
    BY <2>2, NewAcceptance DEF PathInv, Proper
  <2> QED BY <2>3 DEF PathInv, OthersIdle, Repeated
<1> QED BY <1>1, <1>2, <1>3, <1>4 DEF PathInv
\* Every step is one of the Workflow or one of these.
LEMMA PathSteps == ASSUME CommandInv, [CommandNext]_pathVars PROVE PathMoves
<1>0. WorkflowInv /\ UpdateShape
  BY DEF CommandInv, PathInv, WorkflowInv, Shape
<1>1. UNCHANGED vars => Proper
  BY <1>0, Unsent DEF Proper
<1>2. ASSUME NEW d \in Calls, Call(d) \/ GiveUp(d) \/ Join(d) \/ Replay(d) PROVE UNCHANGED vars
  BY <1>2 DEF Call, GiveUp, Join, Replay
<1>3. ASSUME NEW d \in Calls, Deliver(d) PROVE Arrives(d[1])
  <2>1. d[1] \in Updates /\ KindOf[d[1]] \in Repeated
    BY CallOfCommand
  <2>2. /\ upd[d[1]].pc \in {"new", "done"} /\ upd' = [upd EXCEPT ![d[1]] = call[d].req]
        /\ call[d].pc = "sending"
    BY <1>3 DEF Deliver, InFlight
  <2>3. upd'[d[1]] = call[d].req
    BY <1>0, <2>1, <2>2 DEF UpdateShape
  <2>4. Carries(d)
    BY <2>2 DEF CommandInv, CallShape
  <2> QED BY <1>3, <2>1, <2>2, <2>3, <2>4 DEF Carries, Arrives, Deliver
<1>4. WorkflowTurn \/ StartEmptyRun \/ Tick =>
          Proper \/ \E u \in Updates : HandlerFails(u)
  <2>1. LoopStep \/ (\E lost \in LostReplies : LoopActivity(lost)) \/ StartRun \/ Tick => Proper
    BY <1>0, Unsent DEF Proper, Next
  <2>2. ASSUME NEW u \in Updates, HandlerTurn(u) PROVE Proper
    BY <1>0, <2>2, Unsent DEF Proper, Next, HandlerTurn
  <2>3. ASSUME NEW u \in Updates, NEW lost \in LostReplies, HandlerActivity(u, lost) PROVE Proper
    BY <1>0, <2>3, Unsent DEF Proper, Next
  <2> QED BY <2>1, <2>2, <2>3 DEF WorkflowTurn, StartEmptyRun
<1>5. ContinueAsNew => Continues
  BY DEF ContinueAsNew, Continues
<1>6. ProofStep \/ UNCHANGED pathVars => UNCHANGED vars
  BY DEF ProofStep, pathVars
<1>7. ASSUME NEW d \in Calls, Deliver(d) PROVE \E u \in Updates : Arrives(u)
  BY <1>3, <1>7, CallOfCommand
<1> QED BY <1>1, <1>2, <1>4, <1>5, <1>6, <1>7 DEF CommandNext, PathMoves

\* So the invariant of the Workflow stands.
LEMMA PathKept == ASSUME CommandInv, [CommandNext]_pathVars PROVE PathInv'
  BY PathSteps, DetourKept, ContinueKept, ProperKept DEF CommandInv, PathMoves

\* The visits of the Case stay, whatever the step.
LEMMA VisitsRemain ==
    ASSUME PathInv, PathMoves, NEW x \in Apt!VisitsOf(TheCase)
    PROVE  x \in Apt!VisitsOf(TheCase)'
<1>1. CASE Proper
  BY <1>1, VisitsStay DEF PathInv, Proper
<1>2. CASE ~Proper
  <2>1. UNCHANGED atomVars
    BY <1>2 DEF PathMoves, Continues, Arrives, HandlerFails
  <2> QED BY <2>1 DEF atomVars, appointmentVars, Apt!VisitsOf
<1> QED BY <1>1, <1>2

-----------------------------------------------------------------------------
(* What becomes of a call                                                     *)

\* A call is let through with a request, answered, or left to wait.
CallMoves(d) ==
    \/ call'[d] = call[d]
    \/ /\ call'[d].pc = "sending" /\ call'[d].req \in Requests(KindOf[d[1]])
       /\ UNCHANGED vars
    \/ call'[d].pc \in {"waiting", "answered"}

CallsMove ==
    /\ call' = [d \in Calls |-> call'[d]]
    /\ \A d \in Calls : IsCall(call'[d]) /\ CallMoves(d)

\* Every step moves the calls so.
LEMMA CallsGo == ASSUME CommandInv, [CommandNext]_pathVars PROVE CallsMove
<1>0. /\ call = [d \in Calls |-> call[d]] /\ \A d \in Calls : IsCall(call[d])
      /\ UpdateShape
  BY DEF CommandInv, CallShape, PathInv, WorkflowInv, Shape
<1>1. UNCHANGED call => CallsMove
  BY <1>0 DEF CallsMove, CallMoves
<1>2. ASSUME NEW d \in Calls, NEW c, IsCall(c), call' = [call EXCEPT ![d] = c],
             \/ c.pc = "sending" /\ c.req \in Requests(KindOf[d[1]]) /\ UNCHANGED vars
             \/ c.pc \in {"waiting", "answered"}
      PROVE  CallsMove
  BY <1>0, <1>2 DEF CallsMove, CallMoves
<1>3. ASSUME NEW answer PROVE IsCall(Told(answer)) /\ Told(answer).pc = "answered"
  <2>1. PICK c : c = Told(answer)
    OBVIOUS
  <2>2. IsCall(c) /\ c.pc = "answered"
    BY <2>1 DEF Told, NewCall, IsCall
  <2> QED BY <2>1, <2>2
<1>4. ASSUME NEW d \in Calls, Call(d) PROVE CallsMove
  <2>1. UNCHANGED vars
    BY <1>4 DEF Call
  <2>2. CASE \E answer : Tell(d, answer)
    BY <1>2, <1>3, <2>2 DEF Tell
  <2>3. ASSUME NEW req \in Requests(KindOf[d[1]]),
               call' = [call EXCEPT ![d] = [NewCall EXCEPT !.pc = "sending", !.req = req]]
        PROVE  CallsMove
    <3>1. PICK c : c = [NewCall EXCEPT !.pc = "sending", !.req = req]
      OBVIOUS
    <3>2. IsCall(c) /\ c.pc = "sending" /\ c.req = req
      BY <3>1 DEF NewCall, IsCall
    <3> QED BY <1>2, <2>1, <2>3, <3>1, <3>2
  <2>4. ASSUME NEW answer, NEW b, call' = [call EXCEPT ![d] = [Told(answer) EXCEPT !.missed = b]]
        PROVE  CallsMove
    <3>1. PICK c : c = [Told(answer) EXCEPT !.missed = b]
      OBVIOUS
    <3>2. IsCall(c) /\ c.pc = "answered"
      BY <3>1 DEF Told, NewCall, IsCall
    <3> QED BY <1>2, <2>4, <3>1, <3>2
  <2> QED BY <1>4, <2>2, <2>3, <2>4 DEF Call
<1>5. ASSUME NEW d \in Calls, GiveUp(d) \/ Replay(d) PROVE CallsMove
  BY <1>2, <1>3, <1>5 DEF GiveUp, Replay, Tell
<1>6. ASSUME NEW d \in Calls, Join(d) \/ Deliver(d) PROVE CallsMove
  <2>1. PICK c : c = [call[d] EXCEPT !.pc = "waiting", !.req = NONE]
    OBVIOUS
  <2>2. IsCall(c) /\ c.pc = "waiting"
    <3>1. call[d] = [pc |-> call[d].pc, req |-> call[d].req, answer |-> call[d].answer,
                     missed |-> call[d].missed]
      BY <1>0 DEF IsCall
    <3>2. c = [pc |-> "waiting", req |-> NONE, answer |-> call[d].answer,
               missed |-> call[d].missed]
      BY <2>1, <3>1
    <3> QED BY <3>2 DEF IsCall
  <2>3. call' = [call EXCEPT ![d] = c]
    <3>1. call' = [call EXCEPT ![d].pc = "waiting", ![d].req = NONE]
      BY <1>6 DEF Join, Deliver
    <3> QED BY <1>0, <2>1, <3>1
  <2> QED BY <1>2, <2>2, <2>3
<1>7. CASE Settle
  BY <1>0, <1>3, <1>7 DEF Settle, CallsMove, CallMoves
<1>8. ContinueAsNew \/ StartEmptyRun \/ (Tick /\ UNCHANGED <<commandVars, proofVars>>)
          \/ ProofStep \/ UNCHANGED pathVars => UNCHANGED call
  BY DEF ContinueAsNew, StartEmptyRun, ProofStep, commandVars, pathVars
<1> QED BY <1>1, <1>4, <1>5, <1>6, <1>7, <1>8 DEF CommandNext

\* Calls keep their shape.
LEMMA CallShapeKept == ASSUME CommandInv, [CommandNext]_pathVars PROVE CallShape'
<1>1. CallsMove /\ PathMoves
  BY CallsGo, PathSteps
<1> SUFFICES ASSUME NEW d \in Calls, call'[d].pc = "sending" PROVE Carries(d)'
  BY <1>1 DEF CallShape, CallsMove
<1>2. KindOf[d[1]] \in Kinds
  BY CallOfCommand, WorkflowAssumption
<1>3. CASE call'[d] = call[d]
  BY <1>1, <1>3, VisitsRemain DEF CommandInv, CallShape, Carries
<1>4. CASE call'[d].req \in Requests(KindOf[d[1]]) /\ UNCHANGED vars
  <2>1. Apt!VisitsOf(TheCase)' = Apt!VisitsOf(TheCase)
    BY <1>4 DEF vars, atomVars, appointmentVars, Apt!VisitsOf
  <2> QED BY <1>2, <1>4, <2>1, RequestShape DEF Carries
<1> QED BY <1>1, <1>3, <1>4 DEF CallsMove, CallMoves

-----------------------------------------------------------------------------
(* Where it starts: the offer of Worker was accepted                          *)

\* What was accepted is on record in both atoms.
LEMMA BookedRecords == ASSUME Booked PROVE AsgP!TypeInv /\ AsgP!SafetyInv
<1> DEFINE row == [status |-> "ACCEPTED", case |-> TheCase, contractor |-> Worker,
                   acceptedBy |-> Visit]
<1>0. /\ TheCase # NONE /\ Visit # NONE /\ NONE \notin Cases
      /\ row \in AsgP!AttemptRow /\ AsgP!NoAttempt = Asg!NoAttempt
      /\ AsgP!NoCommit = Asg!NoCommit
  BY NoneIsNull, CommandAssumption
     DEF Cases, AsgP!AttemptRow, AsgP!AttemptStatus, OpIds, AsgP!NoAttempt, Asg!NoAttempt,
         AsgP!NoCommit, Asg!NoCommit
<1>1. /\ \A a \in AttemptIds : attempt[a] = IF a = Offer THEN row ELSE Asg!NoAttempt
      /\ assignment = [c \in Cases |-> "ACCEPTED"] /\ completionOp = [c \in Cases |-> NONE]
      /\ epoch = 1 /\ commit = Asg!NoCommit
      /\ attempt = [a \in AttemptIds |-> IF a = Offer THEN row ELSE Asg!NoAttempt]
  BY DEF Booked
<1>2. Offer \in AttemptIds
  BY CommandAssumption, BoundsAreNumbers DEF Offer, AttemptIds
<1>3. AsgP!AssignmentTypeOK
  BY <1>0, <1>1 DEF AsgP!AssignmentTypeOK, AsgP!AssignmentStatus
<1>4. AsgP!ReplacedExists
  BY <1>1 DEF AsgP!ReplacedExists, Asg!NoCommit
<1>5. \A a \in AttemptIds : /\ attempt[a].case \in Cases => a = Offer
                            /\ attempt[a].acceptedBy # NONE => a = Offer
                            /\ attempt[a].status # "PENDING_ACCEPTANCE"
  BY <1>0, <1>1 DEF Asg!NoAttempt
<1>6. \A c \in Cases : c = TheCase /\ assignment[c] = "ACCEPTED" /\ attempt[Offer].case = c
                       /\ attempt[Offer].acceptedBy # NONE
  BY <1>0, <1>1, <1>2 DEF Cases
<1>7. AsgP!AtMostOnePendingAttempt /\ AsgP!AtMostOneAcceptance
  BY <1>5 DEF AsgP!AtMostOnePendingAttempt, AsgP!AtMostOneAcceptance, AsgP!Pending,
              AsgP!AttemptsOf
<1>8. AsgP!OpenIsNeverAccepted
  BY <1>6, NoneIsNull DEF AsgP!OpenIsNeverAccepted, Asg!AssignmentStatus
<1>9. AsgP!CommitReadsHold
  BY <1>0, <1>1 DEF AsgP!CommitReadsHold
<1>10. AsgP!WorkFollowsAnAcceptance
  BY <1>2, <1>6 DEF AsgP!WorkFollowsAnAcceptance, AsgP!AttemptsOf
<1> QED BY <1>3, <1>4, <1>7, <1>8, <1>9, <1>10 DEF AsgP!TypeInv, AsgP!SafetyInv

\* So the invariant of the Workflow holds there.
LEMMA BookedInvariant == ASSUME Booked PROVE PathInv
<1> DEFINE row == [status |-> "ACTIVE", case |-> TheCase, attempt |-> Offer,
                   contractor |-> Worker, slot |-> BookedSlot]
<1>0. /\ Offer \in AttemptIds /\ Visit \in ClaimIds /\ BookedSlot \in Slots
      /\ Worker \in Contractors /\ Visit # NONE /\ Opening \in Updates /\ Opening \notin ClaimIds
  BY CommandAssumption, BoundsAreNumbers, NoneIsNull
     DEF Offer, AttemptIds, ClaimIds, BookedSlot
<1>1. row \in Apt!ClaimRow /\ row # Apt!NoClaim
  BY <1>0 DEF Apt!ClaimRow, Apt!ClaimStatus, Apt!NoClaim, Cases
<1>2. /\ claim = [x \in ClaimIds |-> IF x = Visit THEN row ELSE Apt!NoClaim]
      /\ appointment = [x \in ClaimIds |-> IF x = Visit THEN "scheduled" ELSE NONE]
      /\ visitOp = [x \in ClaimIds |-> NONE]
      /\ \A u \in Updates : upd[u] = IF u \in {Opening, Visit} THEN Answered("SUCCESS")
                                     ELSE NewUpdate
      /\ upd = [u \in Updates |-> upd[u]]
      /\ \A a \in AttemptIds :
            attempt[a] = IF a = Offer THEN [status |-> "ACCEPTED", case |-> TheCase,
                                            contractor |-> Worker, acceptedBy |-> Visit]
                         ELSE Asg!NoAttempt
  BY DEF Booked
<1>3. \A u \in Updates : /\ IsUpdate(upd[u]) /\ upd[u].pc \in {"new", "done"}
                         /\ u = Visit => upd[u].pc = "done"
  <2>1. PICK r : r = Answered("SUCCESS")
    OBVIOUS
  <2>2. PICK r0 : r0 = NewUpdate
    OBVIOUS
  <2>3. IsUpdate(r) /\ r.pc = "done" /\ IsUpdate(r0) /\ r0.pc = "new"
    BY <2>1, <2>2 DEF Answered, NewUpdate, IsUpdate
  <2>4. \A u \in Updates : upd[u] = IF u \in {Opening, Visit} THEN r ELSE r0
    BY <1>2, <2>1, <2>2
  <2> QED BY <2>3, <2>4
<1>4. UpdateShape /\ UpdateNames
  BY <1>2, <1>3 DEF UpdateShape, UpdateNames, PcFits
<1>5. wf \in RunState /\ wf.queue = <<>>
  <2>1. <<>> \in Seq(Updates \cup {NONE})
    OBVIOUS
  <2> DEFINE run == [FreshRun EXCEPT !.known = TRUE, !.accepted = TRUE, !.visit = Visit,
                                     !.attempted = {Worker}]
  <2>2. PICK r : r = run
    OBVIOUS
  <2>3. r \in RunState /\ r.queue = <<>>
    BY <1>0, <2>1, <2>2 DEF FreshRun, RunState
  <2>4. wf = r \/ wf = [r EXCEPT !.active = TRUE, !.rev = TRUE]
    BY <2>2 DEF Booked
  <2> QED BY <2>3, <2>4 DEF RunState
<1>6. /\ IsLoop(main) /\ main.pc \in {"top", "assign"} /\ main.epoch = 0 /\ main.req = NONE
      /\ main.pc = "assign" => main.k = Worker
  <2>1. CASE main = AtTop
    BY <2>1 DEF AtTop, IsLoop
  <2>2. ASSUME main = [AtTop EXCEPT !.pc = "assign", !.k = Worker]
        PROVE  /\ IsLoop(main) /\ main.pc = "assign" /\ main.epoch = 0 /\ main.req = NONE
               /\ main.k = Worker
    BY <2>2 DEF AtTop, IsLoop
  <2> QED BY <2>1, <2>2 DEF Booked
<1>7. LoopShape /\ QueueShape
  BY <1>0, <1>5, <1>6, BoundsAreNumbers DEF LoopShape, LoopPcs, QueueShape, Waits
<1>8. Apt!AppointmentTypeOK
  BY <1>1, <1>2 DEF Apt!AppointmentTypeOK, Apt!AppointmentStatus
<1>9. ClaimsNameOffers
  BY <1>0, <1>1, <1>2, CommandAssumption DEF ClaimsNameOffers, Asg!NoAttempt, Apt!NoClaim
<1>10. OnlyAcceptance /\ OnlyVisit /\ OthersIdle
  BY <1>2, <1>3 DEF OnlyAcceptance, OnlyVisit, OthersIdle, Asg!NoAttempt
<1>11. NothingBefore
  <2>1. \A u \in Updates : upd[u].pc # "done" => u # Visit
    BY <1>3
  <2> QED BY <1>2, <1>10, <2>1, NoneIsNull DEF NothingBefore, OnlyAcceptance, OnlyVisit
<1>12. Cas!CaseTypeOK
  <2>1. caseOps \subseteq CaseOpIds
    BY <1>0 DEF Booked, CaseOpIds, ClaimIds
  <2> QED BY <2>1 DEF Booked, Cas!CaseTypeOK, Cas!CaseStatus
<1>13. now \in 0 .. MaxTime /\ DeadlineShape
  BY <1>0, <1>2, BoundsAreNumbers DEF Booked, DeadlineShape
<1>14. CommitIsAwaited
  BY DEF Booked, CommitIsAwaited
<1> QED BY <1>4, <1>5, <1>7, <1>8, <1>9, <1>10, <1>11, <1>12, <1>13, <1>14, BookedRecords
        DEF PathInv, WorkflowInv, Shape

\* The invariant of the way of a command.
LEMMA CommandInvariant == CommandSpec => []CommandInv
<1>1. CommandInit => CommandInv
  <2> SUFFICES ASSUME CommandInit PROVE CommandInv
    OBVIOUS
  <2>1. PathInv
    BY BookedInvariant DEF CommandInit
  <2>2. CallShape
    BY DEF CommandInit, CallShape, NewCall, IsCall
  <2> QED BY <2>1, <2>2 DEF CommandInv
<1>2. CommandInv /\ [CommandNext]_pathVars => CommandInv'
  BY PathKept, CallShapeKept DEF CommandInv
<1> QED BY <1>1, <1>2, PTL DEF CommandSpec
-----------------------------------------------------------------------------
(* One completion, of work that is finished                                   *)

\* Only a completion that is at the Case completes it, and leaves its id.
LEMMA NewCompletedCase ==
    ASSUME WorkflowInv, [Next]_vars, Status # "completed", Status' = "completed"
    PROVE  \E u \in Updates : /\ KindOf[u] = "complete" /\ upd[u].pc = "case"
                              /\ caseCompletion'[TheCase] = u
<1>0. /\ caseStatus = [c \in Cases |-> caseStatus[c]] /\ TheCase \in Cases
      /\ caseCompletion = [c \in Cases |-> caseCompletion[c]]
      /\ Status = caseStatus[TheCase] /\ Status' = caseStatus'[TheCase]
      /\ Status # "cancelled"
  BY EndIsFinal DEF WorkflowInv, Cas!CaseTypeOK, Cases, Status
<1>1. CaseCall
  BY StepKinds, CallFrames, WorkflowFrame
     DEF OtherCaseAllocates, vars, atomVars, caseVars, Status
<1>2. ASSUME NEW op, NEW done, NEW to, to # "completed", NEW resolved, NEW raised, NEW out,
             Cas!Transition(TheCase, op, done, to, resolved, raised, out)
      PROVE  FALSE
  BY <1>0, <1>2 DEF Cas!Transition
<1>3. ASSUME NEW lost, BreachCase(lost) \/ MarkAssigned(lost) PROVE FALSE
  BY <1>2, <1>3 DEF BreachCase, MarkAssigned, Cas!MarkCaseBreached, Cas!MarkCaseAssigned
<1>4. ASSUME NEW u, NEW lost, StartCase(u, lost) \/ ParkCase(u, lost) PROVE FALSE
  BY <1>2, <1>4 DEF StartCase, ParkCase, Cas!MarkCaseInProgress, Cas!MarkCaseNoAccess
<1>5. ASSUME NEW u, NEW lost,
             \/ MissFlag(lost) \/ FlagAllocation(lost) \/ FlagStart(u, lost)
             \/ FlagCompletion(u, lost) \/ RecordAcceptance(u, lost)
      PROVE  FALSE
  BY <1>0, <1>5 DEF MissFlag, FlagAllocation, FlagStart, FlagCompletion, RecordAcceptance,
     Cas!RaiseOfficerAttention, Cas!RecordAllocationAcceptance
<1>6. ASSUME NEW u, NEW lost, OpenCase(u, lost) \/ RecordReplacement(u, lost) PROVE FALSE
  BY <1>0, <1>6 DEF OpenCase, Cas!CreateCase, RecordReplacement, Cas!MarkCaseAppointmentReplaced
<1>7. ASSUME NEW u, NEW lost, CancelCase(u, lost) PROVE FALSE
  BY <1>0, <1>7 DEF CancelCase, Cas!CancelCase
<1>8. ASSUME NEW u, NEW lost, CompleteCase(u, lost)
      PROVE  /\ KindOf[u] = "complete" /\ upd[u].pc = "case"
             /\ caseCompletion'[TheCase] = u
  BY <1>0, <1>8 DEF CompleteCase, At, Cas!CompleteCase
<1> QED BY <1>1, <1>3, <1>4, <1>5, <1>6, <1>7, <1>8 DEF CaseCall

\* The completion on record of a Case is never replaced.
LEMMA CaseCompletionStays ==
    ASSUME WorkflowInv, [Next]_vars, Status = "completed"
    PROVE  caseCompletion'[TheCase] = caseCompletion[TheCase]
<1>1. ASSUME NEW u, NEW lost, CompleteCase(u, lost) PROVE UNCHANGED caseCompletion
  BY <1>1 DEF CompleteCase, Cas!CompleteCase, Cas!CompleteCaseOutcome, Status
<1>2. ASSUME NEW u, NEW lost, OpenCase(u, lost) PROVE UNCHANGED caseCompletion
  BY <1>2 DEF OpenCase, Cas!CreateCase
<1>3. ASSUME NEW u, NEW lost,
             \/ MissFlag(lost) \/ BreachCase(lost) \/ MarkAssigned(lost) \/ FlagAllocation(lost)
             \/ RecordAcceptance(u, lost) \/ StartCase(u, lost) \/ FlagStart(u, lost)
             \/ ParkCase(u, lost) \/ RecordReplacement(u, lost) \/ CancelCase(u, lost)
             \/ FlagCompletion(u, lost)
      PROVE  UNCHANGED caseCompletion
  BY <1>3 DEF MissFlag, BreachCase, MarkAssigned, FlagAllocation, RecordAcceptance, StartCase,
     FlagStart, ParkCase, RecordReplacement, CancelCase, FlagCompletion,
     Cas!RaiseOfficerAttention, Cas!MarkCaseBreached, Cas!MarkCaseAssigned, Cas!Transition,
     Cas!RecordAllocationAcceptance, Cas!MarkCaseInProgress, Cas!MarkCaseNoAccess,
     Cas!MarkCaseAppointmentReplaced, Cas!CancelCase
<1>4. CaseCall => UNCHANGED caseCompletion
  BY <1>1, <1>2, <1>3 DEF CaseCall
<1> QED BY <1>4, StepKinds, CallFrames, WorkflowFrame DEF OtherCaseAllocates, vars, atomVars, caseVars

\* Whoever is past the visit, or past the Assignment, has its id there; a Case that is
\* completed has the id of its completion in all three records.
FinishInv ==
    /\ CompletionInv
    /\ \A u \in Updates : KindOf[u] = "complete" =>
          /\ upd[u].pc \in {"work", "case", "flag"} => visitOp[upd[u].target] = u
          /\ upd[u].pc = "case" => completionOp[TheCase] = u
    /\ Status = "completed" =>
          /\ assignment[TheCase] = "COMPLETED"
          /\ completionOp[TheCase] = caseCompletion[TheCase]
          /\ appointment[Visit] = "completed" /\ visitOp[Visit] = caseCompletion[TheCase]

\* The Workflow's own steps keep that.
LEMMA FinishStep == ASSUME PathInv, FinishInv, Proper PROVE FinishInv'
<1>0. WorkflowInv /\ [Next]_vars /\ Visit \in ClaimIds /\ TheCase \in Cases
  BY CommandAssumption DEF PathInv, Proper, ClaimIds, Cases
<1>1. CompletionInv'
  BY <1>0, CompletionStep DEF FinishInv
<1>2. ASSUME NEW u \in Updates, KindOf[u] = "complete"
      PROVE  /\ upd'[u].pc \in {"work", "case", "flag"} => visitOp'[upd'[u].target] = u
             /\ upd'[u].pc = "case" => completionOp'[TheCase] = u
  <2>1. ASSUME upd[u].pc \in {"work", "case", "flag"}
        PROVE  /\ visitOp'[upd[u].target] = u
               /\ upd[u].pc = "case" => completionOp'[TheCase] = u
    <3>1. upd[u].target \in ClaimIds
      BY <1>0, <1>2, <2>1, ReportedVisit
    <3> QED BY <1>0, <1>2, <2>1, <3>1, VisitOpStays, RecordsStand
            DEF FinishInv, CompletionInv, AsgP!WorkStands
  <2>2. CASE upd'[u] = upd[u]
    BY <2>1, <2>2
  <2>3. CASE upd'[u] # upd[u]
    BY <1>0, <1>2, <2>1, <2>3, CompletionGoes DEF CompletionMoves
  <2> QED BY <2>2, <2>3
<1>3. ASSUME Status' = "completed", Status = "completed"
      PROVE  /\ assignment'[TheCase] = "COMPLETED"
             /\ completionOp'[TheCase] = caseCompletion'[TheCase]
             /\ appointment'[Visit] = "completed" /\ visitOp'[Visit] = caseCompletion'[TheCase]
  BY <1>0, <1>3, CaseCompletionStays, VisitOpStays, RecordsStand DEF FinishInv, AsgP!WorkStands
<1>4. ASSUME Status' = "completed", Status # "completed"
      PROVE  /\ assignment'[TheCase] = "COMPLETED"
             /\ completionOp'[TheCase] = caseCompletion'[TheCase]
             /\ appointment'[Visit] = "completed" /\ visitOp'[Visit] = caseCompletion'[TheCase]
  <2>1. PICK u \in Updates : /\ KindOf[u] = "complete" /\ upd[u].pc = "case"
                             /\ caseCompletion'[TheCase] = u
    BY <1>0, <1>4, NewCompletedCase
  <2>2. /\ appointment[upd[u].target] = "completed" /\ visitOp[upd[u].target] = u
        /\ assignment[TheCase] = "COMPLETED" /\ completionOp[TheCase] = u
    BY <2>1 DEF FinishInv, CompletionInv
  <2>3. upd[u].target = Visit
    <3>1. upd[u].target \in ClaimIds /\ appointment[upd[u].target] # NONE
      BY <1>0, <2>1, <2>2, ReportedVisit, NoneIsNull DEF Apt!AppointmentStatus
    <3> QED BY <3>1, TheVisit
  <2> QED BY <1>0, <2>1, <2>2, <2>3, VisitOpStays, RecordsStand DEF AsgP!WorkStands
<1> QED BY <1>1, <1>2, <1>3, <1>4 DEF FinishInv

\* So does every other: it leaves the records alone, and whoever is past the visit.
LEMMA FinishKept ==
    ASSUME CommandInv, FinishInv, [CommandNext]_pathVars PROVE FinishInv'
<1>1. CASE Proper
  BY <1>1, FinishStep DEF CommandInv
<1>2. ASSUME UNCHANGED atomVars,
             \A u \in Updates : upd'[u] = upd[u] \/ upd'[u].pc \in {"sent", "done"}
      PROVE  FinishInv'
  BY <1>2 DEF FinishInv, CompletionInv, Status, atomVars, assignmentVars, appointmentVars, caseVars
<1>3. CASE Continues
  BY <1>2, <1>3 DEF Continues
<1>4. ASSUME NEW u \in Updates, Arrives(u) \/ HandlerFails(u) PROVE FinishInv'
  BY <1>2, <1>4, DetourKept DEF CommandInv
<1> QED BY <1>1, <1>3, <1>4, PathSteps DEF PathMoves

\* Where it starts nothing is completed.
LEMMA FinishStarts == ASSUME Booked PROVE FinishInv
<1>1. \A u \in Updates : upd[u].pc \in {"new", "done"}
  BY BookedInvariant DEF PathInv, Booked, Answered, NewUpdate
<1>2. Status # "completed"
  BY DEF Booked, Status, Cases
<1> QED BY <1>1, <1>2 DEF FinishInv, CompletionInv

\* One report completes a Case, whichever completions ran side by side, were delivered
\* again or took over after one that stopped half way: visit, Assignment and Case name the
\* same operation.
THEOREM CompletedOnce == CommandSpec => []OneCompletion
<1>1. CommandInit => FinishInv
  BY FinishStarts DEF CommandInit
<1>2. CommandInv /\ FinishInv /\ [CommandNext]_pathVars => FinishInv'
  BY FinishKept
<1>3. CommandInv /\ FinishInv => OneCompletion
  <2> SUFFICES ASSUME CommandInv, FinishInv, Status = "completed",
                      NEW x \in Apt!VisitsOf(TheCase)
               PROVE  visitOp[x] = caseCompletion[TheCase]
    BY DEF OneCompletion, FinishInv
  <2>1. x \in ClaimIds /\ appointment[x] # NONE
    BY DEF Apt!VisitsOf
  <2> QED BY <2>1, TheVisit DEF CommandInv, FinishInv
<1> QED BY <1>1, <1>2, <1>3, CommandInvariant, PTL DEF CommandSpec

\* Completion credit is queued for finished work only, also when the report that earns it
\* is delivered again, fails for good or is answered by another run.
THEOREM CommandsCreditFinishedWork == CommandSpec => []CreditOnlyForFinishedWork
<1>1. CommandInit => FinishInv /\ CreditOnlyForFinishedWork
  BY FinishStarts DEF CommandInit, Booked, CreditOnlyForFinishedWork
<1>2. ASSUME CommandInv, FinishInv, CreditOnlyForFinishedWork, [CommandNext]_pathVars
      PROVE  FinishInv' /\ CreditOnlyForFinishedWork'
  <2>1. CASE Proper
    BY <1>2, <2>1, CreditStep, FinishKept DEF CommandInv, PathInv, FinishInv, Proper
  <2>2. ASSUME UNCHANGED <<atomVars, effects>> PROVE CreditOnlyForFinishedWork'
    BY <1>2, <2>2 DEF CreditOnlyForFinishedWork, Status, atomVars, assignmentVars,
       appointmentVars, caseVars, Apt!VisitsOf
  <2>3. Proper \/ UNCHANGED <<atomVars, effects>>
    BY <1>2, PathSteps, DetourKept DEF CommandInv, PathMoves, Continues
  <2> QED BY <1>2, <2>1, <2>2, <2>3, FinishKept
<1> QED BY <1>1, <1>2, CommandInvariant, PTL DEF CommandSpec
-----------------------------------------------------------------------------
(* Work that was finished by half is noticed                                  *)

\* A command that arrives, that throws, or a new run.
Detours == Continues \/ \E u \in Updates : Arrives(u) \/ HandlerFails(u)

\* None of them breaks the order of cancellations: one that throws was the only one, and
\* is no longer under way.
LEMMA CancelDetour == ASSUME PathInv, CancelInv, Detours PROVE CancelInv'
<1>0. UpdateShape /\ wf \in RunState
  BY DEF PathInv, WorkflowInv, Shape
<1>1. CASE Continues
  BY <1>0, <1>1 DEF CancelInv, HandlersFinished, Cancelling, Continues, RunState,
     atomVars, assignmentVars
<1>2. ASSUME NEW u \in Updates, Arrives(u) \/ HandlerFails(u) PROVE CancelInv'
  <2>0. /\ \A v \in Updates \ {u} : upd'[v] = upd[v]
        /\ upd'[u].pc \in {"sent", "done"} /\ UNCHANGED <<assignment, main>>
    BY <1>2, DetourKept DEF atomVars, assignmentVars
  <2>1. HandlersFinished => HandlersFinished'
    BY <2>0 DEF HandlersFinished
  <2>2. \A v \in Updates : Cancelling(v)' => Cancelling(v) /\ v # u /\ upd'[v] = upd[v]
    BY <2>0 DEF Cancelling
  <2>3. ASSUME NEW v \in Updates, Cancelling(v)' PROVE wf'.cancelling
    <3>1. wf.cancelling /\ Cancelling(v) /\ v # u
      BY <2>2, <2>3 DEF CancelInv
    <3>2. CASE UNCHANGED wf
      BY <3>1, <3>2
    <3>3. CASE HandlerFails(u) /\ KindOf[u] = "cancel"
      <4>1. Cancelling(u)
        BY <1>0, <3>3 DEF HandlerFails, Running, UpdateShape, PcFits, Cancelling
      <4> QED BY <3>1, <4>1 DEF CancelInv
    <3> QED BY <1>2, <3>2, <3>3 DEF Arrives, HandlerFails
  <2> QED BY <2>0, <2>1, <2>2, <2>3 DEF CancelInv
<1> QED BY <1>1, <1>2 DEF Detours

\* Nor does any of them drop a completion, unless completions throw.
LEMMA CarriedDetour ==
    ASSUME PathInv, BegunInv, CarriedInv, "complete" \notin MayFail, Detours
    PROVE  BegunInv' /\ CarriedInv'
<1>1. /\ UNCHANGED <<assignment, completionOp, appointment, visitOp, caseStatus, attention>>
      /\ ClaimIds = ClaimIds
  BY DetourKept DEF Detours, Continues, atomVars, assignmentVars, appointmentVars, caseVars
<1>2. \A u \in Updates : KindOf[u] = "complete" =>
          upd'[u] = upd[u] \/ (upd[u].pc \in {"new", "done"} /\ upd'[u].pc = "sent")
  <2>1. CASE Continues
    BY <2>1 DEF Continues
  <2>2. ASSUME NEW v \in Updates, Arrives(v) \/ HandlerFails(v), NEW u \in Updates,
               KindOf[u] = "complete"
        PROVE  upd'[u] = upd[u] \/ (upd[u].pc \in {"new", "done"} /\ upd'[u].pc = "sent")
    <3>1. CASE u # v
      BY <2>2, <3>1, DetourKept
    <3>2. CASE u = v
      BY <2>2, <3>2 DEF HandlerFails, Arrives
    <3> QED BY <3>1, <3>2
  <2> QED BY <2>1, <2>2 DEF Detours
<1>3. BegunInv'
  BY <1>1, <1>2 DEF BegunInv
<1>4. \A u \in Updates : CarriesWork(u) => CarriesWork(u)'
  BY <1>1, <1>2 DEF CarriesWork
<1>5. \A u \in Updates, x \in ClaimIds : CarriesVisit(u, x) => CarriesVisit(u, x)'
  BY <1>1, <1>2 DEF CarriesVisit
<1>6. Status' = Status /\ Flagged' = Flagged
  BY <1>1 DEF Status, Flagged
<1> QED BY <1>1, <1>3, <1>4, <1>5, <1>6 DEF CarriedInv

\* A completion that got past the visit completes the Case, is under way or leaves Officer
\* Attention behind, also when commands are delivered again, cancellations throw and runs
\* end: unless an Activity of a completion fails for good, which nothing notices.
THEOREM CommandsLeaveNoHalfWork ==
    ASSUME "complete" \notin MayFail
    PROVE  CommandSpec => []HalfFinishedWorkIsFlagged
<1>1. CommandInit => CancelInv /\ BegunInv /\ CarriedInv
  <2> SUFFICES ASSUME Booked PROVE CancelInv /\ BegunInv /\ CarriedInv
    BY DEF CommandInit
  <2>1. \A u \in Updates : upd[u].pc \in {"new", "done"}
    BY BookedInvariant DEF PathInv, Booked, Answered, NewUpdate
  <2>2. /\ \A x \in ClaimIds : appointment[x] # "completed"
        /\ assignment[TheCase] = "ACCEPTED"
    BY NoneIsNull DEF Booked, Cases, Apt!AppointmentStatus
  <2> QED BY <2>1, <2>2 DEF CancelInv, HandlersFinished, Cancelling, BegunInv, CarriedInv
<1>2. ASSUME CommandInv, CancelInv, BegunInv, CarriedInv, [CommandNext]_pathVars
      PROVE  CancelInv' /\ BegunInv' /\ CarriedInv'
  <2>1. PathInv /\ WorkflowInv
    BY <1>2 DEF CommandInv, PathInv
  <2>2. CASE Proper
    BY <1>2, <2>1, <2>2, CancelStep, BegunStep, CarriedStep DEF CarriedInv, Proper
  <2>3. CASE Detours
    BY <1>2, <2>1, <2>3, CancelDetour, CarriedDetour
  <2> QED BY <1>2, <2>2, <2>3, PathSteps DEF PathMoves, Detours
<1>3. CarriedInv => HalfFinishedWorkIsFlagged
  <2> SUFFICES ASSUME CarriedInv, Completing = {}, Status # "completed", ~Flagged,
                      NEW x \in Apt!VisitsOf(TheCase), appointment[x] = "completed"
               PROVE  FALSE
    BY DEF HalfFinishedWorkIsFlagged, Flagged
  <2>1. PICK u \in Updates : CarriesVisit(u, x)
    BY DEF CarriedInv, Apt!VisitsOf
  <2>2. u \in Completing
    BY <2>1 DEF CarriesVisit, Completing, Running
  <2> QED BY <2>2
<1> QED BY <1>1, <1>2, <1>3, CommandInvariant, PTL DEF CommandSpec

-----------------------------------------------------------------------------
(* What a Case is completed on                                                *)

\* A step moves the Proof atom as the atom itself says, or leaves it alone.
LEMMA ProofMoves == ASSUME [CommandNext]_pathVars PROVE [ProofNext]_proofVars
<1>1. ProofStep => ProofNext
  BY DEF ProofStep, ProofNext, BeginUpload
<1>2. ~ProofStep => UNCHANGED proofVars
  BY DEF CommandNext, Call, GiveUp, Join, Replay, Deliver, Settle, ContinueAsNew, StartEmptyRun,
     pathVars
<1> QED BY <1>1, <1>2

\* What a ready item shows is what was claimed for it, however commands and uploads
\* interleave.
THEOREM CommandsSeeTrueProof == CommandSpec => []ReadyProofIsWhatWasClaimed
<1>1. CommandInit => ProofInv
  BY InitEstablishesProofInv DEF CommandInit
<1>2. ProofInv /\ [CommandNext]_pathVars => ProofInv'
  BY NextKeepsProofInv, ProofMoves
<1>3. ProofInv => ReadyProofIsWhatWasClaimed
  BY DEF ProofInv
<1> QED BY <1>1, <1>2, <1>3, PTL DEF CommandSpec

\* An item that resolves goes on doing so, and keeps its type: rows are never changed once
\* they are there.
LEMMA EvidenceStays ==
    ASSUME ProofInv, [ProofNext]_proofVars, NEW u \in Updates, Evidence(u)
    PROVE  Evidence(u)'
<1>1. ASSUME NEW i \in ProofItems, proofItem[i].ready
      PROVE  proofItem'[i].ready /\ proofItem'[i].type = proofItem[i].type
  <2>0. /\ proofItem = [j \in ProofItems |-> proofItem[j]]
        /\ proofItem[i] \in {NoRow} \cup [type : Types, content : Contents, ready : BOOLEAN]
    BY DEF ProofInv, ProofTypeOK
  <2>1. ASSUME NEW r \in Uploads, ClaimProofUpload(r)
        PROVE  proofItem'[i] = proofItem[i]
    <3>1. ~ NoRow.ready
      BY DEF NoRow
    <3>2. ClaimOutcome(r) = "CLAIMED" => proofItem[r[1]] = NoRow
      BY DEF ClaimOutcome
    <3> QED BY <1>1, <2>0, <2>1, <3>1, <3>2 DEF ClaimProofUpload
  <2>2. ASSUME NEW r \in Uploads, MarkProofReady(r)
        PROVE  proofItem'[i].ready /\ proofItem'[i].type = proofItem[i].type
    <3>1. proofItem' = [proofItem EXCEPT ![r[1]].ready = TRUE]
      BY <2>2 DEF MarkProofReady
    <3>2. CASE r[1] # i
      BY <1>1, <2>0, <3>1, <3>2
    <3>3. CASE r[1] = i
      <4>1. proofItem'[i] = [proofItem[i] EXCEPT !.ready = TRUE]
        BY <2>0, <3>1, <3>3
      <4> QED BY <2>0, <4>1 DEF NoRow
    <3> QED BY <3>2, <3>3
  <2>3. ASSUME NEW r \in Uploads, WriteObject(r) \/ UploadFails(r) \/ StartUpload(r)
        PROVE  proofItem'[i] = proofItem[i]
    BY <2>3 DEF WriteObject, UploadFails, StartUpload
  <2>4. CASE UNCHANGED proofVars
    BY <1>1, <2>4 DEF proofVars
  <2> QED BY <1>1, <2>1, <2>2, <2>3, <2>4 DEF ProofNext, UploadStep
<1>2. Cited[u] \subseteq ProofItems
  BY CommandAssumption
<1>3. \A i \in Cited[u] : proofItem[i].ready
  BY DEF Evidence, Resolves
<1>4. \A i \in Cited[u] : proofItem'[i].ready /\ proofItem'[i].type = proofItem[i].type
  BY <1>1, <1>2, <1>3
<1> QED BY <1>4 DEF Evidence, Resolves

\* A completion past its validation has its evidence, and so has the one that completed
\* the Case.
EvidenceInv ==
    /\ \A u \in Updates : KindOf[u] = "complete" /\ upd[u].pc \in {"visit", "work", "case", "flag"}
                          => Evidence(u)
    /\ Status = "completed" => /\ caseCompletion[TheCase] \in Updates
                               /\ Evidence(caseCompletion[TheCase])

\* Nothing but a validation that read the evidence lets a completion go on.
LEMMA ValidatedOnEvidence ==
    ASSUME CommandInv, EvidenceInv, [CommandNext]_pathVars, NEW u \in Updates,
           KindOf[u] = "complete", upd[u].pc = "validate", upd'[u].pc = "visit"
    PROVE  Evidence(u)
<1>0. WorkflowInv /\ UpdateShape /\ upd'[u] # upd[u]
  BY DEF CommandInv, PathInv, WorkflowInv, Shape
<1>1. Proper
  <2>1. ~Continues
    BY <1>0 DEF Continues
  <2>2. ASSUME NEW v \in Updates, Arrives(v) \/ HandlerFails(v) PROVE FALSE
    BY <1>0, <2>2, DetourKept DEF CommandInv
  <2> QED BY <2>1, <2>2, PathSteps DEF PathMoves
<1>2. CompletionReady(u)
  BY <1>0, <1>1, CompletionGoes DEF Proper, CompletionMoves
<1>3. ASSUME NEW lost \in LostReplies, HandlerActivity(u, lost) PROVE FALSE
  BY <1>3, KindActivity DEF CompleteActivity, CompleteVisit, CompleteAssignment, CompleteCase,
     FlagCompletion, At
<1>4. HandlerStep(u)
  BY <1>0, <1>1, <1>3, OwnSteps DEF Proper
<1>5. ASSUME NEW v \in Updates, HandlerTurn(v) PROVE Evidence(u)
  <2>1. v = u
    <3>1. CASE Drains(v)
      <4>1. upd'[u] = [upd[u] EXCEPT !.pc = "await"] \/ upd'[u] = Answered("CASE_TERMINAL")
            \/ upd'[u] = upd[u]
        BY <1>0, <3>1 DEF Drains, AdmitCancel
      <4> QED BY <1>0, <4>1 DEF Answered, NewUpdate, UpdateShape, IsUpdate
    <3>2. CASE HandlerMoves(v)
      BY <1>0, <3>2, HandlerMovesItsOwn
    <3> QED BY <1>5, <3>1, <3>2, HandlerStepMoves DEF HandlerTurn
  <2>2. Evidence(u) \/ Status = "completed"
    BY <1>5, <2>1 DEF HandlerTurn
  <2>3. CASE Status = "completed"
    BY <1>2, <2>3 DEF CompletionReady, EvidenceInv
  <2> QED BY <2>2, <2>3
<1>6. ASSUME NEW v \in Updates, NEW lost \in LostReplies, HandlerActivity(v, lost) PROVE FALSE
  <2>1. v # u
    BY <1>3, <1>6
  <2> QED BY <1>0, <1>6, <2>1, ActivityMoves, HandlerMovesItsOwn, WorkflowAssumption
<1>7. ASSUME NEW v \in Updates, HandlerFails(v) PROVE FALSE
  BY <1>0, <1>7, DetourKept DEF CommandInv
<1>8. ~(LoopStep \/ \E lost \in LostReplies : LoopActivity(lost))
  BY <1>0, LoopAnswers, WorkflowAssumption DEF LoopAnswered, Answer, UpdateShape
<1>9. ASSUME NEW d \in Calls, Deliver(d) PROVE FALSE
  BY <1>0, <1>9 DEF Deliver, InFlight, UpdateShape
<1>10. ASSUME \/ \E d \in Calls : Call(d) \/ GiveUp(d) \/ Join(d) \/ Replay(d)
              \/ ContinueAsNew \/ StartEmptyRun \/ Tick \/ ProofStep \/ UNCHANGED pathVars
       PROVE  FALSE
  <2>1. UNCHANGED upd
    BY <1>10 DEF Call, GiveUp, Join, Replay, ContinueAsNew, StartEmptyRun, StartRun, Tick,
       ProofStep, pathVars, vars, workflowVars
  <2> QED BY <1>0, <2>1
<1> QED BY <1>5, <1>6, <1>7, <1>8, <1>9, <1>10 DEF CommandNext, WorkflowTurn

\* EvidenceInv is kept.
LEMMA EvidenceStep ==
    ASSUME CommandInv, ProofInv, EvidenceInv, [CommandNext]_pathVars PROVE EvidenceInv'
<1>0. WorkflowInv /\ [ProofNext]_proofVars
  BY ProofMoves DEF CommandInv, PathInv
<1>1. \A u \in Updates : Evidence(u) => Evidence(u)'
  BY <1>0, EvidenceStays
<1>2. Proper \/ /\ UNCHANGED atomVars
                /\ \A u \in Updates : upd'[u] = upd[u] \/ upd'[u].pc \in {"sent", "done"}
  BY PathSteps, DetourKept DEF CommandInv, PathMoves, Continues
<1>3. ASSUME NEW u \in Updates, KindOf[u] = "complete",
             upd'[u].pc \in {"visit", "work", "case", "flag"}
      PROVE  Evidence(u)'
  <2>1. CASE upd[u].pc \in {"visit", "work", "case", "flag"}
    BY <1>1, <1>3, <2>1 DEF EvidenceInv
  <2>2. CASE upd[u].pc \notin {"visit", "work", "case", "flag"}
    <3>1. Proper /\ upd'[u] # upd[u]
      BY <1>2, <1>3, <2>2
    <3>2. upd[u].pc = "validate" /\ upd'[u].pc = "visit"
      BY <1>0, <1>3, <2>2, <3>1, CompletionGoes DEF CompletionMoves, Proper
    <3> QED BY <1>1, <1>3, <3>2, ValidatedOnEvidence
  <2> QED BY <2>1, <2>2
<1>4. ASSUME Status' = "completed"
      PROVE  \E u \in Updates : caseCompletion'[TheCase] = u /\ Evidence(u)'
  <2>1. CASE ~Proper
    <3>1. Status = "completed" /\ UNCHANGED caseCompletion
      BY <1>2, <1>4, <2>1 DEF Status, atomVars, caseVars
    <3> QED BY <1>1, <3>1 DEF EvidenceInv
  <2>2. CASE Proper /\ Status = "completed"
    <3>1. caseCompletion'[TheCase] = caseCompletion[TheCase]
      BY <1>0, <2>2, CaseCompletionStays DEF Proper
    <3> QED BY <1>1, <2>2, <3>1 DEF EvidenceInv
  <2>3. CASE Proper /\ Status # "completed"
    <3>1. PICK u \in Updates : /\ KindOf[u] = "complete" /\ upd[u].pc = "case"
                               /\ caseCompletion'[TheCase] = u
      BY <1>0, <1>4, <2>3, NewCompletedCase DEF Proper
    <3> QED BY <1>1, <3>1 DEF EvidenceInv
  <2> QED BY <2>1, <2>2, <2>3
<1>5. ASSUME Status' = "completed"
      PROVE  (caseCompletion[TheCase] \in Updates /\ Evidence(caseCompletion[TheCase]))'
  <2>1. PICK u \in Updates : caseCompletion'[TheCase] = u /\ Evidence(u)'
    BY <1>4, <1>5
  <2> QED BY <2>1 DEF Evidence, Resolves
<1> QED BY <1>3, <1>5 DEF EvidenceInv

\* A Case is completed on evidence: every item its completion cites is ready and shows what
\* was claimed for it, though the items were read before anything was written and uploads
\* went on meanwhile.
THEOREM CompletionsHaveEvidence == CommandSpec => []CompletedOnEvidence
<1>1. CommandInit => ProofInv /\ EvidenceInv
  <2> SUFFICES ASSUME CommandInit PROVE ProofInv /\ EvidenceInv
    OBVIOUS
  <2>1. \A u \in Updates : upd[u].pc \in {"new", "done"}
    BY BookedInvariant DEF CommandInit, PathInv, Booked, Answered, NewUpdate
  <2>2. Status # "completed"
    BY DEF CommandInit, Booked, Status, Cases
  <2> QED BY <2>1, <2>2, InitEstablishesProofInv DEF CommandInit, EvidenceInv
<1>2. CommandInv /\ ProofInv /\ EvidenceInv /\ [CommandNext]_pathVars => ProofInv' /\ EvidenceInv'
  BY EvidenceStep, NextKeepsProofInv, ProofMoves
<1>3. ProofInv /\ EvidenceInv => CompletedOnEvidence
  <2> SUFFICES ASSUME ProofInv, EvidenceInv, Status = "completed", NEW t \in Types
               PROVE  \E i \in Cited[caseCompletion[TheCase]] :
                         /\ proofItem[i].type = t /\ proofItem[i].ready
                         /\ object[i] = proofItem[i].content
    BY DEF CompletedOnEvidence
  <2> DEFINE u == caseCompletion[TheCase]
  <2>1. u \in Updates /\ Evidence(u)
    BY DEF EvidenceInv
  <2>2. PICK i \in Cited[u] : proofItem[i].type = t
    BY <2>1 DEF Evidence
  <2>3. i \in ProofItems /\ proofItem[i].ready
    BY <2>1, <2>2, CommandAssumption DEF Evidence, Resolves
  <2> QED BY <2>2, <2>3 DEF ProofInv, ReadyProofIsWhatWasClaimed
<1> QED BY <1>1, <1>2, <1>3, CommandInvariant, PTL DEF CommandSpec
-----------------------------------------------------------------------------
(* What took effect is not denied                                             *)

\* The offer that was accepted is the only one: the loop is past its allocation, and
\* nothing asks for another.
NoMoreOffers ==
    /\ wf.queue = <<>> /\ wf.retryAt = NONE /\ commit = Asg!NoCommit
    /\ main.pc \notin {"terminal", "snapshot", "commit", "flag", "breachCase"}
    /\ \A a \in AttemptIds : a # Offer => attempt[a] = Asg!NoAttempt
    /\ attempt[Offer].case = TheCase /\ attempt[Offer].status = "ACCEPTED"
    /\ claim[Visit] # Apt!NoClaim /\ claim[Visit].attempt = Offer
    /\ Visit \in Apt!VisitsOf(TheCase)

\* Handlers of commands neither ask for an allocation nor make the Workflow know more,
\* and let the run close only when the Case has ended.
LEMMA CommandsAskNothing ==
    ASSUME PathInv, NoMoreOffers, NEW u \in Updates,
           HandlerStep(u) \/ \E lost \in LostReplies : HandlerActivity(u, lost)
    PROVE  /\ KindOf[u] \in Repeated /\ UNCHANGED <<main, commit, attempt>>
           /\ wf'.queue = <<>> /\ wf'.retryAt = NONE /\ wf'.known = wf.known
           /\ wf'.closing => wf.closing \/ Ended'
<1>0. /\ wf \in RunState /\ UpdateShape /\ attempt = [a \in AttemptIds |-> attempt[a]]
      /\ caseStatus = [c \in Cases |-> caseStatus[c]] /\ TheCase \in Cases
  BY AssignmentFacts
     DEF PathInv, WorkflowInv, Shape, Asg!AssignmentTypeOK, Cas!CaseTypeOK, Cases
<1>1. upd[u].pc \notin {"new", "done"} /\ KindOf[u] \in Repeated
  BY HandlerStepMoves, ActivityMoves, WorkflowAssumption DEF PathInv, OthersIdle
<1>2. UNCHANGED main
  BY HandlerStepRun, ActivityRun, WorkflowAssumption DEF PathInv, HandlerRun
<1>3. \A w \in RunState : /\ w.queue = wf.queue /\ w.retryAt = wf.retryAt /\ w.known = wf.known
                             => /\ Bumped(w).queue = wf.queue /\ Bumped(w).retryAt = wf.retryAt
                                /\ Bumped(w).known = wf.known /\ Bumped(w).closing = w.closing
  BY DEF Bumped, RunState
<1>4. CASE HandlerStep(u)
  <2>1. wf' = wf \/ wf' = [wf EXCEPT !.cancelling = TRUE, !.queue = <<>>]
    BY <1>1, <1>4 DEF HandlerStep, Admit, AwaitRecovery, AwaitGuards, ValidateCompletion, Then,
       Reject, AdmitOpen, AdmitManual, AdmitAccept, AdmitVisitReport, AdmitReplace, AdmitCancel,
       AdmitComplete, Repeated
  <2>2. UNCHANGED <<commit, attempt>>
    BY <1>4 DEF HandlerStep, Admit, AwaitRecovery, AwaitGuards, ValidateCompletion, atomVars,
       assignmentVars
  <2> QED BY <1>0, <1>1, <1>2, <2>1, <2>2 DEF NoMoreOffers, RunState
<1>5. ASSUME NEW lost \in LostReplies, HandlerActivity(u, lost)
      PROVE  /\ UNCHANGED <<commit, attempt>>
             /\ wf'.queue = <<>> /\ wf'.retryAt = NONE /\ wf'.known = wf.known
             /\ wf'.closing => wf.closing \/ Ended'
  <2>0. /\ StartActivity(u, lost) \/ CancelActivity(u, lost) \/ CompleteActivity(u, lost)
    BY <1>1, <1>5 DEF HandlerActivity, OpenCase, AcceptActivity, ReserveSlot, AcceptAttempt,
       ReleaseSlot, ConfirmSlot, RecordAcceptance, VisitActivity, FailVisit, ParkCase,
       ReplaceVisit, RecordReplacement, At, Repeated
  <2>1. ASSUME NEW r, NEW s, Finish(u, r, s)
        PROVE  /\ wf'.queue = <<>> /\ wf'.retryAt = NONE /\ wf'.known = wf.known
               /\ wf'.closing = wf.closing
    BY <1>0, <1>3, <2>1 DEF Finish, NoMoreOffers, RunState
  <2>2. CASE StartActivity(u, lost)
    BY <2>1, <2>2 DEF StartActivity, StartVisit, StartAssignment, StartCase, FlagStart,
       OnlyAppointment, OnlyAssignment, OnlyCase, Lost, Then, NoMoreOffers, assignmentVars,
       Asg!MarkAssignmentInProgress
  <2>3. CASE CompleteActivity(u, lost)
    <3>1. wf' # wf => Ended'
      BY <1>0, <2>3 DEF CompleteActivity, CompleteVisit, CompleteAssignment, CompleteCase,
         FlagCompletion, Lost, Then, Reject, Cas!CompleteCase, Cas!CompleteCaseOutcome, Ended,
         Cas!Terminal
    <3> QED
      BY <1>0, <2>3, <3>1 DEF CompleteActivity, CompleteVisit, CompleteAssignment, CompleteCase,
         FlagCompletion, OnlyAppointment, OnlyAssignment, OnlyCase, Lost, Then, Reject,
         NoMoreOffers, assignmentVars, Asg!CompleteAssignment, RunState
  <2>4. CASE CancelActivity(u, lost)
    <3>1. CancelAssignment(u, lost) => UNCHANGED <<commit, attempt>>
      <4>1. Asg!Pending(TheCase) = {}
        BY DEF NoMoreOffers, Asg!Pending, Asg!AttemptsOf, Asg!NoAttempt
      <4> QED BY <1>0, <4>1 DEF CancelAssignment, Asg!CancelAssignmentForCase
    <3>2. ~CancelAssignment(u, lost) => UNCHANGED <<commit, attempt>>
      BY <2>4 DEF CancelActivity, CancelVisit, CancelCase, OnlyAppointment, OnlyCase,
         assignmentVars
    <3>3. CASE CancelVisit(u, lost) \/ CancelAssignment(u, lost)
      BY <1>0, <3>1, <3>2, <3>3 DEF CancelVisit, CancelAssignment, CancellationRejected,
         Lost, Then, NoMoreOffers, RunState
    <3>4. CASE CancelCase(u, lost)
      <4>1. PICK w : w = [wf EXCEPT !.attempt = NONE, !.visit = NONE, !.active = TRUE,
                                    !.retryAt = NONE, !.closing = TRUE]
        OBVIOUS
      <4>2. w \in RunState /\ w.queue = wf.queue /\ w.retryAt = wf.retryAt /\ w.known = wf.known
        BY <1>0, <4>1 DEF NoMoreOffers, RunState
      <4>3. wf' \in {wf, [wf EXCEPT !.cancelling = FALSE], Bumped(w)}
        BY <3>4, <4>1 DEF CancelCase, CancellationRejected, Lost
      <4>4. wf' # wf /\ wf' # [wf EXCEPT !.cancelling = FALSE] => Ended'
        BY <1>0, <3>4 DEF CancelCase, CancellationRejected, Lost, Cas!CancelCase,
           Cas!CancelCaseOutcome, Ended, Cas!Terminal
      <4>5. wf'.closing => wf.closing \/ Ended'
        BY <1>0, <4>4 DEF RunState
      <4>6. wf'.queue = <<>> /\ wf'.retryAt = NONE /\ wf'.known = wf.known
        BY <1>0, <1>3, <4>2, <4>3 DEF NoMoreOffers, RunState
      <4>7. CancelAssignment(u, lost) \/ UNCHANGED <<commit, attempt>>
        BY <3>2
      <4> QED BY <3>1, <4>5, <4>6, <4>7
    <3> QED BY <2>4, <3>3, <3>4 DEF CancelActivity
  <2> QED BY <2>0, <2>2, <2>3, <2>4
<1> QED BY <1>1, <1>2, <1>4, <1>5

\* Nor does the main loop.
LEMMA LoopAsksNothing ==
    ASSUME PathInv, NoMoreOffers, LoopStep \/ \E lost \in LostReplies : LoopActivity(lost)
    PROVE  /\ UNCHANGED <<commit, attempt>> /\ main.pc # "closed"
           /\ main'.pc \notin {"terminal", "snapshot", "commit", "flag", "breachCase"}
           /\ wf'.queue = <<>> /\ wf'.retryAt = NONE
           /\ wf'.known = wf.known /\ wf'.closing = wf.closing
<1>0. wf \in RunState /\ IsLoop(main) /\ main.req = NONE
  <2>1. main.req # NONE => FALSE
    <3>1. main.req # NONE => KindOf[main.req] = "manual" /\ upd[main.req].pc = "queued"
                             /\ main.req \in Updates
      BY RequestWaits DEF PathInv
    <3> QED BY <3>1 DEF PathInv, OthersIdle, Repeated
  <2> QED BY <2>1 DEF PathInv, WorkflowInv, Shape, LoopShape
<1>1. CASE LoopStep
  <2>0. /\ \A pc : Goto(pc) => main'.pc = pc
        /\ AtTop.pc = "top"
        /\ UNCHANGED atomVars => UNCHANGED <<commit, attempt>>
    BY <1>0 DEF Goto, IsLoop, AtTop, atomVars, assignmentVars
  <2>1. CASE Close \/ CancellationSettled \/ Wake \/ GateAccept \/ GateVisit
    BY <2>0, <2>1 DEF Close, CancellationSettled, Wake, GateAccept, GateVisit, Restarted,
       NoMoreOffers
  <2>2. CASE Top
    BY <1>0, <2>0, <2>2 DEF Top, AtTop, NoMoreOffers, RunState
  <2>3. CASE Due
    BY <1>0, <2>0, <2>3 DEF Due, NoMoreOffers, IsLoop
  <2>4. CASE BreachCheck
    BY <1>0, <2>0, <2>4 DEF BreachCheck, NoMoreOffers, IsLoop
  <2>5. CASE Shift
    BY <2>0, <2>5 DEF Shift, Restarted, NoMoreOffers
  <2> QED BY <1>1, <2>1, <2>2, <2>3, <2>4, <2>5
          DEF LoopStep, CheckTerminal, FetchSnapshot, NoMoreOffers
<1>2. ASSUME NEW lost \in LostReplies, LoopActivity(lost)
      PROVE  /\ UNCHANGED <<commit, attempt>> /\ main.pc # "closed"
             /\ main'.pc \notin {"terminal", "snapshot", "commit", "flag", "breachCase"}
             /\ wf'.queue = <<>> /\ wf'.retryAt = NONE
             /\ wf'.known = wf.known /\ wf'.closing = wf.closing
  <2>1. CASE MissVisit(lost) \/ MissFlag(lost)
    BY <1>0, <2>1 DEF MissVisit, MissFlag, ExpiryOver, Goto, NoMoreOffers, RunState, IsLoop,
       assignmentVars
  <2>2. CASE Breach(lost)
    <3>1. main.target = Offer
      BY <2>2 DEF Breach, Asg!BreachAllocationAttempt, NoMoreOffers, PathInv, WorkflowInv,
         Shape, LoopShape
    <3>2. Asg!BreachOutcome(main.target) = "ACCEPTED"
      BY <3>1 DEF Asg!BreachOutcome, NoMoreOffers
    <3> QED BY <1>0, <2>2, <3>2 DEF Breach, Asg!BreachAllocationAttempt, Goto, NoMoreOffers,
          RunState, IsLoop
  <2>3. CASE MarkAssigned(lost)
    <3>1. ASSUME NEW w \in {Allocated(AllocationOp), Settled}
          PROVE  /\ w.queue = wf.queue /\ w.retryAt = NONE
                 /\ w.known = wf.known /\ w.closing = wf.closing
      BY <1>0, <3>1 DEF Allocated, Settled, RunState
    <3> QED BY <1>0, <2>3, <3>1 DEF MarkAssigned, AllocationOver, Restarted, AtTop, NoMoreOffers,
          assignmentVars
  <2>4. ~(BreachCase(lost) \/ CommitRequest(lost) \/ CommitRead(lost) \/ CommitWrites(lost)
          \/ FlagAllocation(lost))
    BY DEF BreachCase, CommitRequest, CommitRead, CommitWrites, FlagAllocation, NoMoreOffers,
       Asg!CommitReadAssignment, Asg!CommitReadPending, Asg!CommitWrite, Asg!NoCommit
  <2> QED BY <1>2, <2>1, <2>2, <2>3, <2>4 DEF LoopActivity
<1> QED BY <1>1, <1>2

\* So no other offer is ever made, and the run that knows the Case is the one that
\* opened it, or one that carries on for it.
LEMMA OffersOver ==
    ASSUME CommandInv, NoMoreOffers, [CommandNext]_pathVars
    PROVE  NoMoreOffers' /\ (wf'.known => wf.known)
<1>0. PathInv /\ WorkflowInv /\ Visit \in ClaimIds /\ wf \in RunState
  BY CommandAssumption DEF CommandInv, PathInv, WorkflowInv, Shape, ClaimIds
<1>1. ASSUME wf'.queue = <<>>, wf'.retryAt = NONE, UNCHANGED <<commit, attempt>>,
             main'.pc \notin {"terminal", "snapshot", "commit", "flag", "breachCase"}
      PROVE  NoMoreOffers'
  <2>1. Visit \in Apt!VisitsOf(TheCase)'
    BY <1>0, PathSteps, VisitsRemain DEF NoMoreOffers
  <2>2. claim'[Visit] # Apt!NoClaim /\ claim'[Visit].attempt = Offer
    <3>1. CASE Proper
      <4>1. AptP!Stays(Visit)
        BY <1>0, <3>1, AppointmentStands DEF Proper
      <4> QED BY <4>1, SameAppointment DEF AptP!Stays, NoMoreOffers
    <3>2. ~Proper => UNCHANGED claim
      BY PathSteps DEF PathMoves, Continues, Arrives, HandlerFails, atomVars, appointmentVars
    <3> QED BY <3>1, <3>2 DEF NoMoreOffers
  <2> QED BY <1>1, <2>1, <2>2 DEF NoMoreOffers
<1>2. CASE LoopStep \/ \E lost \in LostReplies : LoopActivity(lost)
  BY <1>0, <1>1, <1>2, LoopAsksNothing
<1>3. ASSUME NEW u \in Updates,
             HandlerStep(u) \/ \E lost \in LostReplies : HandlerActivity(u, lost)
      PROVE  NoMoreOffers' /\ (wf'.known => wf.known)
  BY <1>0, <1>1, <1>3, CommandsAskNothing DEF NoMoreOffers
<1>4. ASSUME NEW u \in Updates, HandlerFails(u) PROVE NoMoreOffers' /\ (wf'.known => wf.known)
  BY <1>0, <1>1, <1>4 DEF HandlerFails, NoMoreOffers, RunState, atomVars, assignmentVars
<1>5. CASE StartEmptyRun
  <2>1. wf'.queue = <<>> /\ wf'.retryAt = NONE /\ main'.pc = "top" /\ ~wf'.known
    BY <1>5 DEF StartEmptyRun, StartRun, Restarted, AtTop, FreshRun
  <2> QED BY <1>1, <1>5, <2>1 DEF StartEmptyRun, StartRun, atomVars, assignmentVars, NoMoreOffers
<1>6. CASE ContinueAsNew
  BY <1>0, <1>1, <1>6 DEF ContinueAsNew, NoMoreOffers, RunState, atomVars, assignmentVars
<1>7. ASSUME UNCHANGED <<atomVars, wf, main>> PROVE NoMoreOffers' /\ (wf'.known => wf.known)
  BY <1>1, <1>7 DEF NoMoreOffers, atomVars, assignmentVars
<1>8. \/ \E d \in Calls : Call(d) \/ GiveUp(d) \/ Join(d) \/ Replay(d) \/ Deliver(d)
      \/ Tick \/ ProofStep \/ UNCHANGED pathVars
      => UNCHANGED <<atomVars, wf, main>>
  BY DEF Call, GiveUp, Join, Replay, Deliver, Tick, ProofStep, pathVars, vars, workflowVars
<1> QED BY <1>2, <1>3, <1>4, <1>5, <1>6, <1>7, <1>8 DEF CommandNext, WorkflowTurn, HandlerTurn

\* A run closes, and an empty one starts, only when the Case has ended.
EndInv == wf.closing \/ main.pc = "closed" \/ ~wf.known => Ended

LEMMA EndStays == ASSUME CommandInv, [CommandNext]_pathVars, Ended PROVE Ended'
<1>1. CASE Proper
  BY <1>1, EndIsFinal DEF CommandInv, PathInv, Proper, Ended, Cas!Terminal, Status
<1>2. CASE ~Proper
  BY <1>2, PathSteps
     DEF PathMoves, Continues, Arrives, HandlerFails, atomVars, caseVars, Ended, Cas!Terminal
<1> QED BY <1>1, <1>2

\* EndInv is kept.
LEMMA EndKept ==
    ASSUME CommandInv, NoMoreOffers, EndInv, [CommandNext]_pathVars PROVE EndInv'
<1> SUFFICES ASSUME ~Ended' PROVE ~wf'.closing /\ main'.pc # "closed" /\ wf'.known
  BY DEF EndInv
<1>0. /\ PathInv /\ WorkflowInv /\ wf \in RunState
      /\ ~wf.closing /\ main.pc # "closed" /\ wf.known
  BY EndStays DEF CommandInv, PathInv, WorkflowInv, Shape, EndInv
<1>1. CASE LoopStep \/ \E lost \in LostReplies : LoopActivity(lost)
  <2>1. ~wf'.closing /\ wf'.known
    BY <1>0, <1>1, LoopAsksNothing
  <2>2. main'.pc # "closed"
    BY <1>0, <1>1, OnlyCloseCloses DEF Next, Close
  <2> QED BY <2>1, <2>2
<1>2. ASSUME NEW u \in Updates,
             HandlerStep(u) \/ \E lost \in LostReplies : HandlerActivity(u, lost)
      PROVE  ~wf'.closing /\ main'.pc # "closed" /\ wf'.known
  BY <1>0, <1>2, CommandsAskNothing
<1>3. ASSUME NEW u \in Updates, HandlerFails(u)
      PROVE  ~wf'.closing /\ main'.pc # "closed" /\ wf'.known
  BY <1>0, <1>3 DEF HandlerFails, RunState
<1>4. ~StartEmptyRun
  BY <1>0 DEF StartEmptyRun, StartRun
<1>5. CASE ContinueAsNew
  BY <1>0, <1>5 DEF ContinueAsNew, RunState
<1>6. \/ \E d \in Calls : Call(d) \/ GiveUp(d) \/ Join(d) \/ Replay(d) \/ Deliver(d)
      \/ Tick \/ ProofStep \/ UNCHANGED pathVars
      => UNCHANGED <<wf, main>>
  BY DEF Call, GiveUp, Join, Replay, Deliver, Tick, ProofStep, pathVars, vars, workflowVars
<1> QED BY <1>0, <1>1, <1>2, <1>3, <1>4, <1>5, <1>6 DEF CommandNext, WorkflowTurn, HandlerTurn

\* A completion that is on record, and a start while the Case goes on.
Lasting(u) ==
    \/ KindOf[u] = "complete" /\ caseCompletion[TheCase] = u
    \/ KindOf[u] = "start" /\ u \in caseOps /\ ~Ended

\* Whose command lasts makes its last call once more, for the reply was lost; was told
\* SUCCESS, which the Workflow remembers; or was sent again to a run that has ended.
Repeats(u) == upd[u].pc = "case" /\ TRUE \in LostReplies
Acknowledged(u) == upd[u].pc = "done" /\ upd[u].result = "SUCCESS" /\ u \in cached
Outlives(u) == upd[u].pc = "sent" /\ main.pc = "closed"

RememberInv ==
    /\ caseCompletion[TheCase] # NONE => Status = "completed"
    /\ wf.known => \A u \in Updates :
          /\ InMap(u) => u \in cached
          /\ Lasting(u) => Repeats(u) \/ Acknowledged(u) \/ Outlives(u)

LEMMA SuccessIsDone == Answered("SUCCESS").pc = "done" /\ Answered("SUCCESS").result = "SUCCESS"
<1>1. PICK r : r = Answered("SUCCESS")
  OBVIOUS
<1>2. r.pc = "done" /\ r.result = "SUCCESS"
  BY <1>1 DEF Answered, NewUpdate
<1> QED BY <1>1, <1>2

\* Nobody but the start itself leaves its id with the Case.
LEMMA NewStart ==
    ASSUME PathInv, NoMoreOffers, [Next]_vars, NEW u \in Updates, KindOf[u] = "start",
           u \notin caseOps, u \in caseOps'
    PROVE  \E lost \in LostReplies : StartCase(u, lost)
<1>0. CaseCall
  BY StepKinds, CallFrames, WorkflowFrame
     DEF OtherCaseAllocates, vars, atomVars, caseVars
<1>1. ASSUME NEW op, NEW done, NEW to, NEW resolved, NEW raised, NEW out,
             Cas!Transition(TheCase, op, done, to, resolved, raised, out)
      PROVE  u = op
  BY <1>1 DEF Cas!Transition
<1>2. ASSUME NEW lost, MarkAssigned(lost) PROVE FALSE
  <2>1. u = AllocationOp
    BY <1>1, <1>2 DEF MarkAssigned, Cas!MarkCaseAssigned
  <2>2. <<main.k, main.epoch>> \in Contractors \X (0 .. MaxEpoch)
    BY <1>2 DEF MarkAssigned, PathInv, WorkflowInv, Shape, LoopShape
  <2>3. main.req # NONE => KindOf[main.req] = "manual"
    BY RequestWaits DEF PathInv
  <2> QED BY <2>1, <2>2, <2>3, CommandAssumption DEF AllocationOp, Automatic
<1>3. ASSUME NEW lost, MissFlag(lost) \/ BreachCase(lost) \/ FlagAllocation(lost) PROVE FALSE
  BY <1>3 DEF MissFlag, FlagAllocation, BreachCase, NoMoreOffers, Cas!RaiseOfficerAttention
<1>4. ASSUME NEW v \in Updates, NEW lost,
             \/ OpenCase(v, lost) \/ RecordAcceptance(v, lost) \/ FlagStart(v, lost)
             \/ ParkCase(v, lost) \/ RecordReplacement(v, lost) \/ CancelCase(v, lost)
             \/ CompleteCase(v, lost) \/ FlagCompletion(v, lost)
      PROVE  FALSE
  <2>1. CASE OpenCase(v, lost) \/ RecordAcceptance(v, lost)
    BY <2>1 DEF OpenCase, RecordAcceptance, At, Cas!CreateCase, Cas!RecordAllocationAcceptance
  <2>2. CASE RecordReplacement(v, lost) \/ CancelCase(v, lost)
    BY <2>2 DEF RecordReplacement, CancelCase, At, Cas!MarkCaseAppointmentReplaced,
       Cas!CancelCase
  <2>3. CASE ParkCase(v, lost)
    BY <1>1, <2>3 DEF ParkCase, At, Cas!MarkCaseNoAccess
  <2>4. CASE FlagStart(v, lost) \/ CompleteCase(v, lost) \/ FlagCompletion(v, lost)
    BY <2>4 DEF FlagStart, CompleteCase, FlagCompletion, Cas!RaiseOfficerAttention,
       Cas!CompleteCase
  <2> QED BY <1>4, <2>1, <2>2, <2>3, <2>4
<1>5. ASSUME NEW v \in Updates, NEW lost, StartCase(v, lost) PROVE u = v
  BY <1>1, <1>5 DEF StartCase, Cas!MarkCaseInProgress
<1> QED BY <1>0, <1>2, <1>3, <1>4, <1>5 DEF CaseCall

\* Nor does anybody but a completion at the Case complete it.
LEMMA NewCompletion ==
    ASSUME WorkflowInv, [Next]_vars, caseCompletion' # caseCompletion
    PROVE  \E u \in Updates, lost \in LostReplies :
              /\ CompleteCase(u, lost) /\ Cas!CompleteCaseOutcome(TheCase, u) = "COMPLETED"
              /\ Status' = "completed" /\ caseCompletion'[TheCase] = u
<1>0. /\ caseStatus = [c \in Cases |-> caseStatus[c]] /\ TheCase \in Cases
      /\ caseCompletion = [c \in Cases |-> caseCompletion[c]]
  BY DEF WorkflowInv, Cas!CaseTypeOK, Cases
<1>1. CaseCall
  BY StepKinds, CallFrames, WorkflowFrame
     DEF OtherCaseAllocates, vars, atomVars, caseVars
<1>2. ASSUME NEW u, NEW lost, OpenCase(u, lost) PROVE UNCHANGED caseCompletion
  BY <1>2 DEF OpenCase, Cas!CreateCase
<1>3. ASSUME NEW u, NEW lost,
             \/ MissFlag(lost) \/ BreachCase(lost) \/ MarkAssigned(lost) \/ FlagAllocation(lost)
             \/ RecordAcceptance(u, lost) \/ StartCase(u, lost) \/ FlagStart(u, lost)
             \/ ParkCase(u, lost) \/ RecordReplacement(u, lost) \/ CancelCase(u, lost)
             \/ FlagCompletion(u, lost)
      PROVE  UNCHANGED caseCompletion
  BY <1>3 DEF MissFlag, BreachCase, MarkAssigned, FlagAllocation, RecordAcceptance, StartCase,
     FlagStart, ParkCase, RecordReplacement, CancelCase, FlagCompletion,
     Cas!RaiseOfficerAttention, Cas!MarkCaseBreached, Cas!MarkCaseAssigned, Cas!Transition,
     Cas!RecordAllocationAcceptance, Cas!MarkCaseInProgress, Cas!MarkCaseNoAccess,
     Cas!MarkCaseAppointmentReplaced, Cas!CancelCase
<1>4. PICK u \in Updates, lost \in LostReplies : CompleteCase(u, lost)
  BY <1>1, <1>2, <1>3 DEF CaseCall
<1>5. Cas!CompleteCaseOutcome(TheCase, u) = "COMPLETED"
  BY <1>4 DEF CompleteCase, Cas!CompleteCase
<1>6. Status' = "completed" /\ caseCompletion'[TheCase] = u
  BY <1>0, <1>4, <1>5 DEF CompleteCase, Cas!CompleteCase, Status
<1> QED BY <1>4, <1>5, <1>6

\* A command that comes to last does so by its own call of the Case, which it makes again
\* if the reply is lost, and answers with SUCCESS if it is not.
LEMMA NewLasting ==
    ASSUME PathInv, NoMoreOffers, [Next]_vars, NEW u \in Updates, ~Lasting(u), Lasting(u)'
    PROVE  /\ KindOf[u] \in {"start", "complete"} /\ upd[u].pc = "case"
           /\ \/ TRUE \in LostReplies /\ upd'[u] = upd[u]
              \/ upd'[u] = Answered("SUCCESS")
<1>0. WorkflowInv /\ UpdateShape /\ LostReplies \subseteq BOOLEAN
  BY WorkflowAssumption DEF PathInv, WorkflowInv, Shape
<1>1. CASE KindOf[u] = "start"
  <2>1. u \in caseOps' /\ ~Ended'
    BY <1>1 DEF Lasting
  <2>2. ~Ended
    BY <1>0, <2>1, EndIsFinal DEF Ended, Cas!Terminal, Status
  <2>3. PICK lost \in LostReplies : StartCase(u, lost)
    BY <1>1, <2>1, <2>2, NewStart DEF Lasting
  <2>4. upd[u].pc = "case" /\ upd' = IF lost THEN upd ELSE [upd EXCEPT ![u] = Answered("SUCCESS")]
    BY <2>2, <2>3 DEF StartCase, At, Ended, Cas!MarkCaseInProgress, Cas!Transition, Lost,
       Finish, Answer
  <2> QED BY <1>0, <1>1, <2>4 DEF UpdateShape
<1>2. CASE KindOf[u] = "complete"
  <2>1. caseCompletion'[TheCase] = u /\ caseCompletion' # caseCompletion
    BY <1>2 DEF Lasting
  <2>2. PICK v \in Updates, lost \in LostReplies :
               /\ CompleteCase(v, lost) /\ Cas!CompleteCaseOutcome(TheCase, v) = "COMPLETED"
               /\ caseCompletion'[TheCase] = v
    BY <1>0, <2>1, NewCompletion
  <2>3. upd[u].pc = "case" /\ upd' = IF lost THEN upd ELSE [upd EXCEPT ![u] = Answered("SUCCESS")]
    BY <2>1, <2>2 DEF CompleteCase, At, Lost, Answer
  <2> QED BY <1>0, <1>2, <2>3 DEF UpdateShape
<1> QED BY <1>1, <1>2 DEF Lasting

\* A last call that is made again is answered as the first was.
LEMMA LastCallRepeats ==
    ASSUME PathInv, RememberInv, [Next]_vars, NEW u \in Updates, Lasting(u),
           upd[u].pc = "case", upd'[u] # upd[u]
    PROVE  upd'[u] = Answered("SUCCESS")
<1>0. WorkflowInv /\ UpdateShape
  BY DEF PathInv, WorkflowInv, Shape
<1>1. ~HandlerStep(u)
  BY DEF HandlerStep, Admit, AwaitRecovery, AwaitGuards, ValidateCompletion, At
<1>2. PICK lost \in LostReplies : HandlerActivity(u, lost)
  BY <1>0, <1>1, OwnSteps
<1>3. CASE KindOf[u] = "start"
  <2>1. StartCase(u, lost) /\ ~Ended
    BY <1>2, <1>3, KindActivity
       DEF StartActivity, StartVisit, StartAssignment, FlagStart, At, Lasting
  <2>2. upd' = upd \/ upd' = [upd EXCEPT ![u] = Answered("SUCCESS")]
    BY <2>1 DEF StartCase, Ended, Cas!MarkCaseInProgress, Cas!Transition, Lost, Finish, Answer
  <2> QED BY <1>0, <2>2 DEF UpdateShape
<1>4. CASE KindOf[u] = "complete"
  <2>1. CompleteCase(u, lost)
    BY <1>2, <1>4, KindActivity
       DEF CompleteActivity, CompleteVisit, CompleteAssignment, FlagCompletion, At
  <2>2. Cas!CompleteCaseOutcome(TheCase, u) = "ALREADY_COMPLETED"
    BY <1>4, NoneIsNull DEF Lasting, RememberInv, Status, Cas!CompleteCaseOutcome
  <2>3. upd' = upd \/ upd' = [upd EXCEPT ![u] = Answered("SUCCESS")]
    BY <2>1, <2>2 DEF CompleteCase, Lost, Answer
  <2> QED BY <1>0, <2>3 DEF UpdateShape
<1> QED BY <1>3, <1>4 DEF Lasting

\* Nothing of a run that has ended takes a step.
LEMMA ClosedRests ==
    ASSUME WorkflowInv, CancelInv, main.pc = "closed" PROVE ~WorkflowTurn
<1>0. \A u \in Updates : upd[u].pc \in {"new", "sent", "done"}
  BY DEF CancelInv, HandlersFinished
<1>1. ~LoopStep
  BY DEF LoopStep, Top, Close, CancellationSettled, Wake, GateAccept, GateVisit, Due, BreachCheck,
     Shift, CheckTerminal, FetchSnapshot
<1>2. ASSUME NEW lost \in LostReplies, LoopActivity(lost) PROVE FALSE
  <2>1. commit = Asg!NoCommit
    BY DEF WorkflowInv, CommitIsAwaited
  <2>2. ~(CommitRead(lost) \/ CommitWrites(lost))
    BY <2>1 DEF CommitRead, CommitWrites, Asg!CommitReadAssignment, Asg!CommitReadPending,
       Asg!CommitWrite, Asg!NoCommit
  <2> QED BY <1>2, <2>2 DEF LoopActivity, MissVisit, MissFlag, Breach, BreachCase,
        CommitRequest, MarkAssigned, FlagAllocation
<1>3. ASSUME NEW u \in Updates, HandlerTurn(u) PROVE FALSE
  BY <1>0, <1>3 DEF HandlerTurn, HandlerStep, Admit, AwaitRecovery, AwaitGuards,
     ValidateCompletion, At
<1>4. ASSUME NEW u \in Updates, NEW lost \in LostReplies, HandlerActivity(u, lost) PROVE FALSE
  BY <1>0, <1>4, ActivityMoves, WorkflowAssumption
<1>5. ASSUME NEW u \in Updates, HandlerFails(u) PROVE FALSE
  BY <1>0, <1>5 DEF HandlerFails, Running
<1> QED BY <1>1, <1>2, <1>3, <1>4, <1>5 DEF WorkflowTurn

\* A turn is a step of the Workflow, or a handler that throws.
LEMMA Turns ==
    ASSUME WorkflowInv, WorkflowTurn PROVE Proper \/ \E u \in Updates : HandlerFails(u)
<1>1. LoopStep \/ (\E lost \in LostReplies : LoopActivity(lost)) => Proper
  BY Unsent DEF Proper, Next
<1>2. ASSUME NEW u \in Updates, HandlerTurn(u) PROVE Proper
  BY <1>2, Unsent DEF Proper, Next, HandlerTurn
<1>3. ASSUME NEW u \in Updates, NEW lost \in LostReplies, HandlerActivity(u, lost) PROVE Proper
  BY <1>3, Unsent DEF Proper, Next
<1> QED BY <1>1, <1>2, <1>3 DEF WorkflowTurn

\* No command that lasts is lost by a handler that throws: not by one whose last call is
\* made again, nor by a completion's that an empty run goes through once more.
NothingLost == "complete" \notin MayFail /\ ("start" \notin MayFail \/ TRUE \notin LostReplies)

\* What a turn of the Workflow answers to a command that lasts is SUCCESS.
LEMMA TurnAnswers ==
    ASSUME NothingLost, PathInv, CancelInv, RememberInv, wf.known, WorkflowTurn,
           NEW u \in Updates, Lasting(u)
    PROVE  \/ Acknowledged(u) /\ upd'[u] = upd[u]
           \/ Repeats(u) /\ upd'[u] \in {upd[u], Answered("SUCCESS")}
<1>0. WorkflowInv /\ UpdateShape /\ main.pc # "closed"
  BY ClosedRests DEF PathInv, WorkflowInv, Shape
<1>1. Repeats(u) \/ Acknowledged(u)
  BY <1>0 DEF RememberInv, Outlives
<1>2. CASE Proper
  BY <1>0, <1>1, <1>2, LastCallRepeats DEF Proper, Repeats, Acknowledged
<1>3. ASSUME NEW v \in Updates, HandlerFails(v) PROVE upd'[u] = upd[u]
  <2>1. v # u
    BY <1>1, <1>3 DEF HandlerFails, Running, Repeats, Acknowledged, Lasting, NothingLost
  <2> QED BY <1>0, <1>3, <2>1 DEF HandlerFails, Answer, UpdateShape
<1> QED BY <1>0, <1>1, <1>2, <1>3, Turns

\* RememberInv is kept.
LEMMA RememberKept ==
    ASSUME NothingLost, CommandInv, CancelInv, NoMoreOffers, RememberInv,
           [CommandNext]_pathVars
    PROVE  RememberInv'
<1>0. PathInv /\ WorkflowInv /\ UpdateShape /\ (wf'.known => wf.known)
  BY OffersOver DEF CommandInv, PathInv, WorkflowInv, Shape
<1>1. caseCompletion'[TheCase] # NONE => Status' = "completed"
  <2>1. CASE Proper
    BY <1>0, <2>1, NewCompletion, EndIsFinal DEF Proper, RememberInv
  <2>2. CASE ~Proper
    BY <2>2, PathSteps
       DEF PathMoves, Continues, Arrives, HandlerFails, atomVars, caseVars, RememberInv, Status
  <2> QED BY <2>1, <2>2
<1>2. ASSUME wf.known, NEW u \in Updates, WorkflowTurn, Settle
      PROVE  /\ InMap(u)' => u \in cached'
             /\ Lasting(u)' => Repeats(u)' \/ Acknowledged(u)'
  <2>1. cached' = {v \in Updates : (v \in cached \/ InMap(v)') /\ Kept(v)'}
    BY <1>2 DEF Settle
  <2>2. InMap(u)' => u \in cached'
    BY <2>1 DEF InMap, Kept
  <2>3. ASSUME upd'[u] = Answered("SUCCESS"), upd[u].pc = "case" PROVE Acknowledged(u)'
    <3>1. u \in cached /\ Kept(u)'
      BY <1>2, <2>3, SuccessIsDone DEF RememberInv, InMap, Kept
    <3> QED BY <2>1, <2>3, <3>1, SuccessIsDone DEF Acknowledged
  <2>4. CASE Lasting(u)
    <3>1. CASE Acknowledged(u) /\ upd'[u] = upd[u]
      BY <2>1, <2>2, <3>1 DEF Acknowledged, Kept
    <3>2. CASE Repeats(u) /\ upd'[u] \in {upd[u], Answered("SUCCESS")}
      BY <2>2, <2>3, <3>2 DEF Repeats
    <3> QED BY <1>0, <1>2, <2>2, <2>4, <3>1, <3>2, TurnAnswers
  <2>5. CASE ~Lasting(u) /\ Lasting(u)'
    <3>1. Proper
      <4>1. ASSUME NEW v \in Updates, HandlerFails(v) PROVE FALSE
        BY <2>5, <4>1 DEF HandlerFails, atomVars, caseVars, Lasting, Ended, Cas!Terminal
      <4> QED BY <1>0, <1>2, <4>1, Turns
    <3> QED BY <1>0, <2>2, <2>3, <2>5, <3>1, NewLasting DEF Proper, Repeats
  <2> QED BY <2>2, <2>4, <2>5
<1>3. ASSUME wf.known, NEW u \in Updates, NEW d \in Calls, Deliver(d)
      PROVE  /\ InMap(u)' => u \in cached'
             /\ Lasting(u)' => Repeats(u)' \/ Acknowledged(u)' \/ Outlives(u)'
  <2>0. /\ UNCHANGED <<atomVars, main, cached>> /\ d[1] \in Updates
        /\ upd' = [upd EXCEPT ![d[1]] = call[d].req]
        /\ upd[d[1]].pc \in {"new", "done"} /\ ~Remembered(d[1])
        /\ call[d].req.pc = "sent"
    BY <1>3, CallOfCommand DEF Deliver, InFlight, CommandInv, CallShape, Carries
  <2>1. Lasting(u)' = Lasting(u)
    BY <2>0 DEF Lasting, Ended, Cas!Terminal, atomVars, caseVars
  <2>2. CASE u # d[1]
    <3>1. upd'[u] = upd[u]
      BY <1>0, <2>0, <2>2 DEF UpdateShape
    <3> QED BY <1>3, <2>0, <2>1, <3>1
            DEF RememberInv, InMap, Repeats, Acknowledged, Outlives
  <2>3. CASE u = d[1]
    <3>1. upd'[u].pc = "sent"
      BY <1>0, <2>0, <2>3 DEF UpdateShape
    <3>2. Lasting(u) => main.pc = "closed"
      BY <1>3, <2>0, <2>3 DEF RememberInv, Repeats, Acknowledged, Outlives, Remembered
    <3> QED BY <2>0, <2>1, <3>1, <3>2 DEF InMap, Outlives
  <2> QED BY <2>2, <2>3
<1>4. ASSUME UNCHANGED <<atomVars, main, upd, cached>>, wf.known, NEW u \in Updates
      PROVE  /\ InMap(u)' => u \in cached'
             /\ Lasting(u)' => Repeats(u)' \/ Acknowledged(u)' \/ Outlives(u)'
  BY <1>4 DEF RememberInv, InMap, Lasting, Ended, Cas!Terminal, atomVars, caseVars, Repeats,
     Acknowledged, Outlives
<1>5. \/ \E d \in Calls : Call(d) \/ GiveUp(d) \/ Join(d) \/ Replay(d)
      \/ ContinueAsNew \/ (Tick /\ UNCHANGED <<commandVars, proofVars>>) \/ ProofStep
      \/ UNCHANGED pathVars
      => UNCHANGED <<atomVars, main, upd, cached>>
  BY DEF Call, GiveUp, Join, Replay, ContinueAsNew, CarriedMaps, Tick, ProofStep, pathVars,
     commandVars, vars, workflowVars
<1>6. StartEmptyRun => ~wf'.known
  BY DEF StartEmptyRun, StartRun, FreshRun
<1>7. ASSUME wf'.known, NEW u \in Updates
      PROVE  /\ InMap(u)' => u \in cached'
             /\ Lasting(u)' => Repeats(u)' \/ Acknowledged(u)' \/ Outlives(u)'
  BY <1>0, <1>2, <1>3, <1>4, <1>5, <1>6, <1>7 DEF CommandNext
<1> QED BY <1>1, <1>7 DEF RememberInv

\* An empty run that is sent the completion on record goes through all of it again.  Where
\* it answers, it remembers SUCCESS, or, of a refusal at the door, nothing.
Redone(u) ==
    \/ upd[u].pc \in {"validate", "visit", "work", "case"}
    \/ upd[u].pc = "sent" /\ (main.pc = "closed" \/ u \notin cached)
    \/ upd[u].pc = "done" /\ (u \in cached => upd[u].result = "SUCCESS")
CompletedBy(u) == KindOf[u] = "complete" /\ caseCompletion[TheCase] = u

RedoneInv ==
    /\ \A u \in Updates : KindOf[u] = "complete" => u \notin delivered
    /\ ~wf.known => \A u \in Updates : CompletedBy(u) => Redone(u)

\* Every call of such a completion finds that it was made before.
LEMMA CompletionRepeats ==
    ASSUME PathInv, FinishInv, RememberInv, [Next]_vars, NEW u \in Updates, CompletedBy(u),
           upd[u].pc \in {"validate", "visit", "work", "case"}, upd'[u] # upd[u]
    PROVE  upd'[u].pc \in {"visit", "work", "case"} \/ upd'[u] = Answered("SUCCESS")
<1>0. WorkflowInv /\ UpdateShape /\ KindOf[u] = "complete" /\ TheCase \in Cases
  BY DEF PathInv, WorkflowInv, Shape, CompletedBy, Cases
<1>1. Status = "completed" /\ caseCompletion[TheCase] = u
  BY NoneIsNull DEF RememberInv, CompletedBy
<1>2. upd[u].target = Visit
  <2>1. upd[u].target \in Apt!VisitsOf(TheCase)
    BY <1>0, ReportedVisit
  <2> QED BY <2>1, TheVisit DEF Apt!VisitsOf
<1>3. /\ appointment[Visit] = "completed" /\ visitOp[Visit] = u
      /\ assignment[TheCase] = "COMPLETED" /\ completionOp[TheCase] = u
  BY <1>1 DEF FinishInv
<1>4. PICK lost \in LostReplies : HandlerStep(u) \/ HandlerActivity(u, lost)
  BY <1>0, OwnSteps, WorkflowAssumption
<1>5. CompletionMoves(u)
  BY <1>0, CompletionGoes
<1>6. CASE upd[u].pc = "validate"
  <2>1. ValidateCompletion(u)
    BY <1>0, <1>4, <1>6, KindActivity
       DEF HandlerStep, Admit, AwaitRecovery, AwaitGuards, At, CompleteActivity, CompleteVisit,
           CompleteAssignment, CompleteCase, FlagCompletion
  <2>2. CompletionReady(u)
    BY <1>1, <1>2, <1>3 DEF CompletionReady
  <2>3. Continue(u, "visit")
    BY <1>1, <2>1, <2>2 DEF ValidateCompletion, Then
  <2> QED BY <1>0, <2>3 DEF Continue, UpdateShape, IsUpdate
<1>7. CASE upd[u].pc = "visit"
  BY <1>2, <1>3, <1>5, <1>7 DEF CompletionMoves
<1>8. CASE upd[u].pc = "work"
  <2>1. CompleteAssignment(u, lost)
    BY <1>0, <1>4, <1>8, KindActivity
       DEF HandlerStep, Admit, AwaitRecovery, AwaitGuards, ValidateCompletion, At,
           CompleteActivity, CompleteVisit, CompleteCase, FlagCompletion
  <2>2. Asg!CompleteOutcome(TheCase, u) = "ALREADY_COMPLETED"
    BY <1>3, NoneIsNull DEF Asg!CompleteOutcome, Asg!AssignmentStatus
  <2>3. upd' = upd \/ Continue(u, "case")
    BY <2>1, <2>2 DEF CompleteAssignment, Lost, Then
  <2> QED BY <1>0, <2>3 DEF Continue, UpdateShape, IsUpdate
<1>9. CASE upd[u].pc = "case"
  BY <1>9, LastCallRepeats DEF Lasting, CompletedBy
<1> QED BY <1>6, <1>7, <1>8, <1>9

\* What a turn of an empty run does with one: only a cancellation makes it refuse.
LEMMA TurnRedoes ==
    ASSUME NothingLost, PathInv, CancelInv, FinishInv, RememberInv, RedoneInv, ~wf.known,
           WorkflowTurn, NEW u \in Updates, CompletedBy(u), upd'[u] # upd[u]
    PROVE  \/ upd[u].pc = "sent" /\ u \notin cached /\ upd'[u].pc = "validate"
           \/ upd[u].pc = "sent" /\ u \notin cached /\ upd'[u].pc = "done" /\ wf.cancelling
           \/ /\ upd[u].pc \in {"validate", "visit", "work", "case"}
              /\ upd'[u].pc \in {"visit", "work", "case"} \/ upd'[u] = Answered("SUCCESS")
<1>0. /\ WorkflowInv /\ UpdateShape /\ main.pc # "closed" /\ KindOf[u] = "complete" /\ Redone(u)
  BY ClosedRests DEF PathInv, WorkflowInv, Shape, CompletedBy, RedoneInv
<1>1. Proper
  <2>1. ASSUME NEW v \in Updates, HandlerFails(v) PROVE FALSE
    <3>1. v = u
      BY <1>0, <2>1 DEF HandlerFails, Answer, UpdateShape
    <3> QED BY <1>0, <2>1, <3>1 DEF HandlerFails, NothingLost
  <2> QED BY <1>0, <2>1, Turns
<1>2. upd[u].pc # "done"
  BY <1>1 DEF Proper
<1>3. CASE upd[u].pc = "sent"
  <2>1. u \notin cached
    BY <1>0, <1>3 DEF Redone
  <2>2. HandlerStep(u)
    BY <1>0, <1>1, <1>3, OwnSteps, ActivityMoves, WorkflowAssumption DEF Proper
  <2>3. AdmitComplete(u)
    BY <1>0, <1>3, <2>2
       DEF HandlerStep, Admit, AwaitRecovery, AwaitGuards, ValidateCompletion, At, AdmitOpen,
           AdmitManual, AdmitAccept, AdmitVisitReport, AdmitReplace, AdmitCancel
  <2>4. CASE wf.cancelling
    <3>1. Answered("NOT_IN_PROGRESS").pc = "done"
      <4>1. PICK r : r = Answered("NOT_IN_PROGRESS")
        OBVIOUS
      <4>2. r.pc = "done"
        BY <4>1 DEF Answered, NewUpdate
      <4> QED BY <4>1, <4>2
    <3> QED BY <1>0, <1>3, <2>1, <2>3, <2>4, <3>1 DEF AdmitComplete, Answer, UpdateShape
  <2>5. CASE ~wf.cancelling
    BY <1>0, <1>3, <2>1, <2>3, <2>5 DEF AdmitComplete, Continue, UpdateShape, IsUpdate
  <2> QED BY <2>4, <2>5
<1>4. CASE upd[u].pc \in {"validate", "visit", "work", "case"}
  BY <1>1, <1>4, CompletionRepeats DEF Proper
<1> QED BY <1>0, <1>2, <1>3, <1>4 DEF Redone

\* RedoneInv is kept.
LEMMA RedoneKept ==
    ASSUME NothingLost, CommandInv, CancelInv, FinishInv, EndInv, NoMoreOffers, RememberInv,
           RedoneInv, [CommandNext]_pathVars
    PROVE  RedoneInv'
<1>0. PathInv /\ WorkflowInv /\ UpdateShape
  BY DEF CommandInv, PathInv, WorkflowInv, Shape
<1>1. ASSUME NEW u \in Updates, KindOf[u] = "complete" PROVE u \notin delivered'
  <2>1. delivered' \subseteq delivered \/ \E d \in Calls : Deliver(d)
    BY DEF CommandNext, Call, GiveUp, Join, Replay, Settle, ContinueAsNew, StartEmptyRun,
       ProofStep, commandVars, pathVars
  <2>2. ASSUME NEW d \in Calls, Deliver(d) PROVE u \notin delivered'
    BY <1>1, <2>2 DEF Deliver, RedoneInv
  <2> QED BY <1>1, <2>1, <2>2 DEF RedoneInv
<1> SUFFICES ASSUME ~wf'.known, NEW u \in Updates, CompletedBy(u)' PROVE Redone(u)'
  BY <1>1 DEF RedoneInv
<1>2. CASE StartEmptyRun
  <2>1. /\ UNCHANGED <<atomVars, upd>> /\ cached' = {} /\ main.pc = "closed"
    BY <1>2 DEF StartEmptyRun, StartRun
  <2>2. upd[u].pc \in {"new", "sent", "done"}
    BY <2>1 DEF CancelInv, HandlersFinished
  <2>3. CompletedBy(u)
    BY <2>1 DEF CompletedBy, atomVars, caseVars
  <2>4. upd[u].pc # "new"
    BY <2>2, <2>3 DEF RedoneInv, Redone, RememberInv, Lasting, CompletedBy, Repeats, Acknowledged,
       Outlives
  <2> QED BY <2>1, <2>2, <2>4 DEF Redone
<1>3. CASE ~StartEmptyRun
  <2>1. ~wf.known
    <3>1. ASSUME LoopStep \/ \E lost \in LostReplies : LoopActivity(lost)
          PROVE  wf'.known = wf.known
      BY <1>0, <3>1, LoopAsksNothing
    <3>2. ASSUME NEW v \in Updates,
                 HandlerStep(v) \/ \E lost \in LostReplies : HandlerActivity(v, lost)
          PROVE  wf'.known = wf.known
      BY <1>0, <3>2, CommandsAskNothing
    <3>3. ASSUME NEW v \in Updates, HandlerFails(v) PROVE wf'.known = wf.known
      BY <1>0, <3>3 DEF HandlerFails, WorkflowInv, Shape, RunState
    <3>4. ContinueAsNew => wf'.known = wf.known
      BY <1>0 DEF ContinueAsNew, WorkflowInv, Shape, RunState
    <3>5. \/ \E d \in Calls : Call(d) \/ GiveUp(d) \/ Join(d) \/ Replay(d) \/ Deliver(d)
          \/ Tick \/ ProofStep \/ UNCHANGED pathVars
          => UNCHANGED wf
      BY DEF Call, GiveUp, Join, Replay, Deliver, Tick, ProofStep, pathVars, vars, workflowVars
    <3> QED BY <1>3, <3>1, <3>2, <3>3, <3>4, <3>5 DEF CommandNext, WorkflowTurn, HandlerTurn
  <2>2. CompletedBy(u)
    <3>1. CASE Proper /\ caseCompletion' # caseCompletion
      <4>1. PICK v \in Updates, lost \in LostReplies :
                   Cas!CompleteCaseOutcome(TheCase, v) = "COMPLETED"
        BY <1>0, <3>1, NewCompletion DEF Proper
      <4>2. ~Ended
        BY <4>1 DEF Ended, Cas!Terminal, Cas!CompleteCaseOutcome
      <4> QED BY <2>1, <4>2 DEF EndInv
    <3>2. CASE UNCHANGED caseCompletion
      BY <3>2 DEF CompletedBy
    <3>3. Proper \/ UNCHANGED caseCompletion
      BY PathSteps DEF PathMoves, Continues, Arrives, HandlerFails, atomVars, caseVars
    <3> QED BY <3>1, <3>2, <3>3
  <2>3. Redone(u)
    BY <2>1, <2>2 DEF RedoneInv
  <2>4. CASE WorkflowTurn /\ Settle
    <3>1. main.pc # "closed"
      BY <1>0, <2>4, ClosedRests
    <3>2. cached' = {v \in Updates : (v \in cached \/ InMap(v)') /\ Kept(v)'}
      BY <2>4 DEF Settle
    <3>3. CASE upd'[u] = upd[u]
      BY <2>3, <3>1, <3>2, <3>3 DEF Redone, InMap
    <3>4. CASE upd'[u] # upd[u]
      BY <1>0, <2>1, <2>2, <2>4, <3>2, <3>4, TurnRedoes, SuccessIsDone DEF Redone, InMap
    <3> QED BY <3>3, <3>4
  <2>5. ASSUME NEW d \in Calls, Deliver(d) PROVE Redone(u)'
    <3>0. /\ UNCHANGED <<main, cached>> /\ d[1] \in Updates
          /\ upd' = [upd EXCEPT ![d[1]] = call[d].req] /\ ~Remembered(d[1])
          /\ call[d].req.pc = "sent"
      BY <2>5, CallOfCommand DEF Deliver, CommandInv, CallShape, Carries
    <3>1. CASE u # d[1]
      <4>1. upd'[u] = upd[u]
        BY <1>0, <3>0, <3>1 DEF UpdateShape
      <4> QED BY <2>3, <3>0, <4>1 DEF Redone
    <3>2. CASE u = d[1]
      <4>1. upd'[u].pc = "sent"
        BY <1>0, <3>0, <3>2 DEF UpdateShape
      <4> QED BY <3>0, <3>2, <4>1 DEF Redone, Remembered
    <3> QED BY <3>1, <3>2
  <2>6. \/ \E d \in Calls : Call(d) \/ GiveUp(d) \/ Join(d) \/ Replay(d)
        \/ ContinueAsNew \/ (Tick /\ UNCHANGED <<commandVars, proofVars>>) \/ ProofStep
        \/ UNCHANGED pathVars
        => UNCHANGED <<main, upd, cached>>
    BY DEF Call, GiveUp, Join, Replay, ContinueAsNew, CarriedMaps, Tick, ProofStep, pathVars,
       commandVars, vars, workflowVars
  <2>7. UNCHANGED <<main, upd, cached>> => Redone(u)'
    BY <2>3 DEF Redone
  <2> QED BY <1>3, <2>4, <2>5, <2>6, <2>7 DEF CommandNext
<1> QED BY <1>2, <1>3

\* The precheck lets a command through once more whose effect is on record, unless it is a
\* cancellation.
LEMMA EffectIsLetThrough ==
    ASSUME FinishInv, NoMoreOffers, RememberInv, NEW u \in Updates, TookEffect(u),
           KindOf[u] # "cancel"
    PROVE  Requests(KindOf[u]) # {}
<1> DEFINE req == [NewUpdate EXCEPT !.pc = "sent"]
           asked == [req EXCEPT !.target = Visit]
<1>1. CASE KindOf[u] = "start"
  <2>1. Requests(KindOf[u]) = VisitRequests(req)
    BY <1>1 DEF Requests
  <2>2. asked \in VisitRequests(req)
    BY DEF NoMoreOffers, VisitRequests
  <2> QED BY <2>1, <2>2
<1>2. CASE KindOf[u] = "complete"
  <2>1. Status = "completed"
    BY <1>2, NoneIsNull DEF TookEffect, RememberInv
  <2>2. appointment[Visit] = "completed"
    BY <2>1 DEF FinishInv
  <2>3. Offer \in AttemptIds
    BY CommandAssumption, BoundsAreNumbers DEF Offer, AttemptIds
  <2>4. Asg!Pending(TheCase) = {} /\ Offer \in Asg!Accepted(TheCase)
    BY <2>3 DEF NoMoreOffers, Asg!Pending, Asg!Accepted, Asg!AttemptsOf, Asg!NoAttempt
  <2>5. asked \in CompleteRequests(req)
    BY <2>1, <2>2, <2>4 DEF CompleteRequests, CurrentAttempts, NoMoreOffers
  <2>6. Requests(KindOf[u]) = CompleteRequests(req)
    BY <1>2 DEF Requests
  <2> QED BY <2>5, <2>6
<1> QED BY <1>1, <1>2 DEF TookEffect

\* Whoever sends it is told SUCCESS, or to send it once more, but for what NobodyIsDenied
\* names.
LEMMA EffectIsAcknowledged ==
    ASSUME NothingLost, CommandInv, CancelInv, FinishInv, NoMoreOffers, EndInv, RememberInv,
           RedoneInv, [CommandNext]_pathVars, NEW d \in Calls, TookEffect(d[1]),
           KindOf[d[1]] # "cancel", call[d].pc # "answered", call'[d].pc = "answered"
    PROVE  \/ call'[d].answer \in {"SUCCESS", "RETRY"} \/ call'[d].missed
           \/ ~wf.known /\ wf.cancelling
<1> DEFINE u == d[1]
<1>0. /\ PathInv /\ WorkflowInv /\ u \in Updates /\ KindOf[u] \in {"start", "complete"}
      /\ call = [e \in Calls |-> call[e]] /\ IsCall(call[d])
  BY CallOfCommand DEF CommandInv, PathInv, CallShape, TookEffect
<1>1. Lasting(u)
  BY <1>0 DEF TookEffect, Lasting, Ended, Cas!Terminal, Status
<1>2. ~wf.known => CompletedBy(u) /\ Redone(u)
  BY <1>0, <1>1 DEF Lasting, EndInv, CompletedBy, RedoneInv
<1>3. ASSUME NEW answer PROVE Told(answer).answer = answer
  <2>1. PICK c : c = Told(answer)
    OBVIOUS
  <2>2. c.answer = answer
    BY <2>1 DEF Told, NewCall
  <2> QED BY <2>1, <2>2
<1>4. ASSUME NEW e \in Calls, Call(e) \/ GiveUp(e) \/ Join(e) \/ Replay(e) \/ Deliver(e)
      PROVE  e = d
  BY <1>0, <1>4 DEF Call, GiveUp, Join, Replay, Deliver, Tell
<1>5. CASE Call(d)
  <2>1. Requests(KindOf[u]) # {}
    BY <1>0, EffectIsLetThrough
  <2>2. ASSUME NEW req,
               call' = [call EXCEPT ![d] = [NewCall EXCEPT !.pc = "sending", !.req = req]]
        PROVE  FALSE
    <3>1. PICK c : c = [NewCall EXCEPT !.pc = "sending", !.req = req]
      OBVIOUS
    <3>2. c.pc = "sending"
      BY <3>1 DEF NewCall
    <3> QED BY <1>0, <2>2, <3>1, <3>2
  <2>0. PICK atom \in Outages :
           call' = [call EXCEPT ![d] = [Told(Outage(KindOf[u], atom)) EXCEPT
                       !.missed = Outage(KindOf[u], atom) # "RETRY"]]
    BY <1>5, <2>1, <2>2 DEF Call
  <2>3. PICK c : c = [Told(Outage(KindOf[u], atom)) EXCEPT
                         !.missed = Outage(KindOf[u], atom) # "RETRY"]
    OBVIOUS
  <2>4. c.answer = Outage(KindOf[u], atom) /\ c.missed = (Outage(KindOf[u], atom) # "RETRY")
    BY <2>3 DEF Told, NewCall
  <2>5. c.answer = "RETRY" \/ c.missed
    BY <2>4
  <2>6. call'[d] = c
    BY <1>0, <2>0, <2>3
  <2> QED BY <2>5, <2>6
<1>6. CASE GiveUp(d)
  BY <1>0, <1>3, <1>6 DEF GiveUp, Tell
<1>7. CASE Replay(d)
  <2>1. upd[u].pc = "done" /\ Tell(d, upd[u].result) /\ (u \in delivered \/ u \in cached)
    BY <1>7 DEF Replay, Remembered
  <2>2. upd[u].result = "SUCCESS"
    <3>1. wf.known => upd[u].result = "SUCCESS"
      BY <1>0, <1>1, <2>1 DEF RememberInv, Repeats, Acknowledged, Outlives
    <3>2. ~wf.known => upd[u].result = "SUCCESS"
      BY <1>0, <1>2, <2>1 DEF Redone, RedoneInv, CompletedBy
    <3> QED BY <3>1, <3>2
  <2> QED BY <1>0, <1>3, <2>1, <2>2 DEF Tell
<1>8. CASE Join(d) \/ Deliver(d)
  <2>1. call' = [call EXCEPT ![d].pc = "waiting", ![d].req = NONE]
    BY <1>8 DEF Join, Deliver
  <2>2. call'[d].pc = "waiting"
    BY <1>0, <2>1 DEF IsCall
  <2> QED BY <2>2
<1>9. CASE WorkflowTurn /\ Settle
  <2>1. upd[u].pc # "done" /\ upd'[u].pc = "done" /\ call'[d] = Told(upd'[u].result)
    BY <1>9 DEF Settle
  <2>2. upd'[u] = Answered("SUCCESS") \/ (~wf.known /\ wf.cancelling)
    <3>1. wf.known => upd'[u] = Answered("SUCCESS")
      BY <1>0, <1>1, <1>9, <2>1, TurnAnswers DEF Acknowledged
    <3>2. ~wf.known => upd'[u] = Answered("SUCCESS") \/ wf.cancelling
      BY <1>0, <1>2, <1>9, <2>1, TurnRedoes
    <3> QED BY <3>1, <3>2
  <2> QED BY <1>3, <2>1, <2>2, SuccessIsDone
<1>10. ContinueAsNew \/ StartEmptyRun \/ (Tick /\ UNCHANGED <<commandVars, proofVars>>)
           \/ ProofStep \/ UNCHANGED pathVars => UNCHANGED call
  BY DEF ContinueAsNew, StartEmptyRun, ProofStep, commandVars, pathVars
<1> QED BY <1>4, <1>5, <1>6, <1>7, <1>8, <1>9, <1>10 DEF CommandNext

\* Where it starts nothing took effect, and what was accepted is all there is.
LEMMA RememberStarts ==
    ASSUME CommandInit
    PROVE  CancelInv /\ FinishInv /\ NoMoreOffers /\ EndInv /\ RememberInv /\ RedoneInv
<1>1. \A u \in Updates : upd[u].pc \in {"new", "done"}
  BY BookedInvariant DEF CommandInit, PathInv, Booked, Answered, NewUpdate
<1>2. CancelInv
  BY <1>1 DEF CommandInit, Booked, CancelInv, HandlersFinished, Cancelling
<1>3. NoMoreOffers
  <2>0. Visit \in ClaimIds /\ Offer \in AttemptIds /\ NONE # "scheduled"
    BY CommandAssumption, BoundsAreNumbers, NoneIsNull
       DEF Offer, AttemptIds, ClaimIds, Apt!AppointmentStatus
  <2>1. PICK r : r = FreshRun
    OBVIOUS
  <2>2. r = FreshRun /\ r.queue = <<>> /\ r.retryAt = NONE
    BY <2>1 DEF FreshRun
  <2>3. wf.queue = <<>> /\ wf.retryAt = NONE
    BY <2>2 DEF CommandInit, Booked, FreshRun
  <2>4. main.pc \in {"top", "assign"}
    <3>1. main = AtTop \/ main = [AtTop EXCEPT !.pc = "assign", !.k = Worker]
      BY DEF CommandInit, Booked
    <3>2. PICK m : m = AtTop
      OBVIOUS
    <3>3. m.pc = "top" /\ [m EXCEPT !.pc = "assign", !.k = Worker].pc = "assign"
      BY <3>2 DEF AtTop
    <3> QED BY <3>1, <3>2, <3>3
  <2>5. /\ \A a \in AttemptIds : a # Offer => attempt[a] = Asg!NoAttempt
        /\ attempt[Offer].case = TheCase /\ attempt[Offer].status = "ACCEPTED"
        /\ commit = Asg!NoCommit
    BY <2>0 DEF CommandInit, Booked
  <2>6. claim[Visit] # Apt!NoClaim /\ claim[Visit].attempt = Offer /\ claim[Visit].case = TheCase
        /\ appointment[Visit] # NONE
    BY <2>0 DEF CommandInit, Booked, Apt!NoClaim
  <2> QED BY <2>0, <2>3, <2>4, <2>5, <2>6 DEF NoMoreOffers, Apt!VisitsOf
<1>4. RememberInv
  <2>1. caseCompletion[TheCase] = NONE
    BY DEF CommandInit, Booked, Cases
  <2>2. \A u \in Updates : ~InMap(u)
    BY <1>1 DEF InMap
  <2>3. \A u \in Updates : ~Lasting(u)
    <3>1. caseOps \subseteq {Opening, Offer, Visit}
      BY DEF CommandInit, Booked
    <3>2. Offer \in Contractors \X (0 .. MaxEpoch)
      BY CommandAssumption, BoundsAreNumbers DEF Offer
    <3> QED BY <2>1, <3>1, <3>2, CommandAssumption, NoneIsNull DEF Lasting
  <2> QED BY <2>1, <2>2, <2>3 DEF RememberInv
<1>5. EndInv /\ RedoneInv
  <2>1. ~wf.closing /\ wf.known
    BY DEF CommandInit, Booked, FreshRun
  <2>2. main.pc # "closed"
    <3>1. main = AtTop \/ main = [AtTop EXCEPT !.pc = "assign", !.k = Worker]
      BY DEF CommandInit, Booked
    <3>2. PICK m : m = AtTop
      OBVIOUS
    <3>3. m.pc = "top" /\ [m EXCEPT !.pc = "assign", !.k = Worker].pc = "assign"
      BY <3>2 DEF AtTop
    <3> QED BY <3>1, <3>2, <3>3
  <2> QED BY <2>1, <2>2, CommandAssumption DEF CommandInit, EndInv, RedoneInv
<1> QED BY <1>2, <1>3, <1>4, <1>5, FinishStarts DEF CommandInit

\* Nobody is denied what took effect: the step that answers says SUCCESS or RETRY, except
\* to a cancellation, to a request whose lookup did not get through, or in an empty run while
\* a cancellation is under way.
NobodyIsDenied ==
    \A d \in Calls :
        IsToldOtherwise(d) => \/ KindOf[d[1]] = "cancel"
                              \/ call'[d].missed
                              \/ ~wf.known /\ wf.cancelling

\* What the runs remember, with what finished work and a cancellation in its way amount to.
DenialInv ==
    CancelInv /\ FinishInv /\ NoMoreOffers /\ EndInv /\ RememberInv /\ RedoneInv

LEMMA DenialStep ==
    ASSUME NothingLost, CommandInv, DenialInv, [CommandNext]_pathVars
    PROVE  DenialInv'
<1> USE DEF DenialInv
<1>1. Proper => CancelInv'
  BY CancelStep DEF CommandInv, PathInv, Proper
<1>2. Detours => CancelInv'
  BY CancelDetour DEF CommandInv
<1>3. CancelInv'
  BY <1>1, <1>2, PathSteps DEF PathMoves, Detours
<1> QED BY <1>3, FinishKept, OffersOver, EndKept, RememberKept, RedoneKept

\* A start or a completion whose effect is on record is not denied: the client that sends it
\* again with its key is told SUCCESS or to send it once more, however often replies were
\* lost, starts threw, the main loop continued as a new run, a run started empty or the
\* client gave up.  What is left out is what the property names, and a handler that throws
\* in the middle of calls it repeats.
THEOREM EffectsAreNotDenied ==
    ASSUME "complete" \notin MayFail, "start" \notin MayFail \/ TRUE \notin LostReplies
    PROVE  CommandSpec => EffectIsNotDenied
<1>0. NothingLost
  BY DEF NothingLost
<1>1. CommandInit => DenialInv
  BY RememberStarts DEF DenialInv
<1>2. CommandInv /\ DenialInv /\ [CommandNext]_pathVars => DenialInv'
  BY <1>0, DenialStep
<1>3. CommandInv /\ DenialInv /\ [CommandNext]_pathVars => [NobodyIsDenied]_pathVars
  BY <1>0, EffectIsAcknowledged DEF DenialInv, NobodyIsDenied, IsToldOtherwise
<1> QED BY <1>1, <1>2, <1>3, CommandInvariant, PTL
        DEF CommandSpec, EffectIsNotDenied, NobodyIsDenied
=============================================================================
