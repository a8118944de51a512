----------------------------- MODULE FormProofs -----------------------------
(***************************************************************************)
(* What the frontends' forms promise for any number of forms, keys and     *)
(* payloads, however late or often requests are handled: type correctness, *)
(* that a success is for what was asked, and that a form which keeps its   *)
(* key until a success has no second operation applied.                    *)
(***************************************************************************)
EXTENDS ClientForms, TLAPS, FiniteSetTheorems

-----------------------------------------------------------------------------
(* The inductive invariant *)

\* Requests and operations carry keys that were drawn.
DrawnKeys ==
    /\ \A r \in net : r[2] <= form[r[1]].drawn
    /\ \A f \in Forms, k \in Keys : op[<<f, k>>] # NoOp => k <= form[f].drawn

\* A form that keeps its key has drawn one at most since it was last done.
OneKeyKept ==
    \A f \in Forms : FormKind[f] = "kept" =>
        /\ form[f].key \in {0, form[f].drawn} /\ form[f].drawn <= form[f].done + 1
        /\ form[f].key = 0 => form[f].done = form[f].drawn

\* Only who signed up has a desk, so that no Workflow is started for anybody else.
DeskHasAccount == \A a \in Residents : desk[a] # "closed" => a \in account

FormInv ==
    /\ TypeOK /\ DeskHasAccount
    /\ DrawnKeys /\ OneKeyKept
    /\ SuccessIsForWhatWasAsked

FormType == [key : 0 .. MaxKeys, sent : 0 .. MaxKeys,
             payload : Payloads \cup {NONE}, drawn : 0 .. MaxKeys,
             done : 0 .. MaxKeys, told : Answers \cup {NONE}]
OpType == {NoOp} \cup [payload : Payloads, result : {"SUCCESS", "CONFLICT"}]

-----------------------------------------------------------------------------
\* The parts of TypeOK by name.
LEMMA TypeParts ==
    /\ TypeOK <=> /\ ResidentTypeOK /\ form \in [Forms -> FormType]
                  /\ net \subseteq Forms \X Keys \X Payloads
                  /\ op \in [Forms \X Keys -> OpType]
    /\ TypeOK' <=> /\ ResidentTypeOK' /\ form' \in [Forms -> FormType]
                   /\ net' \subseteq Forms \X Keys \X Payloads
                   /\ op' \in [Forms \X Keys -> OpType]
  BY DEF TypeOK, FormType, OpType

LEMMA InitEstablishesFormInv == Init => FormInv
<1> SUFFICES ASSUME Init PROVE FormInv
  OBVIOUS
<1>1. ResidentTypeOK /\ DeskHasAccount
  BY DEF Init, ResidentInit, ResidentTypeOK, DeskStates, DeskHasAccount
<1>2. EmptyForm \in FormType
  BY FormAssumption DEF EmptyForm, FormType
<1>3. TypeOK
  BY <1>1, <1>2, TypeParts DEF Init, OpType
<1>4. DrawnKeys
  BY DEF Init, DrawnKeys, Keys
<1>5. OneKeyKept
  BY DEF Init, OneKeyKept, EmptyForm
<1>6. NONE # "SUCCESS"
  BY FormAssumption DEF Answers
<1>7. SuccessIsForWhatWasAsked
  BY <1>6 DEF Init, SuccessIsForWhatWasAsked, EmptyForm
<1> QED
  BY <1>1, <1>3, <1>4, <1>5, <1>7 DEF FormInv

\* What happens to Residents leaves forms, requests and operations alone.
LEMMA ResidentStepKeepsFormInv ==
    ASSUME FormInv, NEW a \in Residents, ResidentStep(a), UNCHANGED formVars
    PROVE  FormInv'
<1>1. ResidentTypeOK /\ DeskHasAccount
  BY DEF FormInv, TypeOK
<1>2. ResidentTypeOK' /\ DeskHasAccount'
  <2>1. ASSUME Reload(a) \/ AskFails(a) PROVE ResidentTypeOK' /\ DeskHasAccount'
    BY <1>1, <2>1 DEF ResidentTypeOK, DeskHasAccount, Reload, AskFails, DeskStates
  <2>2. ASSUME NEW lost \in BOOLEAN, SignIn(a, lost)
        PROVE  ResidentTypeOK' /\ DeskHasAccount'
    <3>1. /\ account' = account \cup {a} /\ desk' = [desk EXCEPT ![a] = "opened"]
          /\ profile' = profile /\ provisioning' \in {provisioning, provisioning \cup {a}}
      BY <2>2 DEF SignIn, Nudge
    <3>2. desk' \in [Residents -> DeskStates] /\ DeskHasAccount'
      BY <1>1, <3>1 DEF ResidentTypeOK, DeskHasAccount, DeskStates
    <3>3. account' \subseteq Residents /\ provisioning' \subseteq account'
      BY <1>1, <3>1 DEF ResidentTypeOK
    <3>4. profile' \subseteq account' \ Taken
      BY <1>1, <3>1 DEF ResidentTypeOK
    <3> QED
      BY <3>2, <3>3, <3>4 DEF ResidentTypeOK
  <2>3. ASSUME NEW lost \in BOOLEAN, Ask(a, lost)
        PROVE  ResidentTypeOK' /\ DeskHasAccount'
    <3>1. a \in account
      BY <1>1, <2>3 DEF Ask, DeskHasAccount
    <3>2. /\ provisioning' \in {provisioning, provisioning \cup {a}}
          /\ desk' \in {[desk EXCEPT ![a] = "PROVISIONED"], [desk EXCEPT ![a] = "PROVISIONING"]}
          /\ account' = account /\ profile' = profile
      BY <2>3 DEF Ask, Nudge
    <3>3. desk' \in [Residents -> DeskStates] /\ DeskHasAccount'
      BY <1>1, <3>1, <3>2 DEF ResidentTypeOK, DeskHasAccount, DeskStates
    <3> QED
      BY <1>1, <3>1, <3>2, <3>3 DEF ResidentTypeOK
  <2>4. ASSUME NEW lost \in BOOLEAN, Provision(a, lost)
        PROVE  ResidentTypeOK' /\ DeskHasAccount'
    BY <1>1, <2>4 DEF ResidentTypeOK, DeskHasAccount, Provision
  <2> QED
    BY <2>1, <2>2, <2>3, <2>4 DEF ResidentStep
<1>3. TypeOK'
  BY <1>2, TypeParts DEF FormInv, formVars
<1>4. DrawnKeys' /\ OneKeyKept' /\ SuccessIsForWhatWasAsked'
  BY DEF FormInv, formVars, DrawnKeys, OneKeyKept, SuccessIsForWhatWasAsked
<1> QED
  BY <1>2, <1>3, <1>4 DEF FormInv

LEMMA SubmitKeepsFormInv ==
    ASSUME FormInv, NEW f \in Forms, NEW p \in Payloads, Submit(f, p)
    PROVE  FormInv'
<1> DEFINE k == KeyFor(f, p)
           new == [form[f] EXCEPT !.key = k, !.sent = k, !.payload = p, !.told = NONE,
                                  !.drawn = IF k > form[f].drawn THEN k ELSE form[f].drawn]
<1>0. TypeOK /\ MaxKeys \in Nat \ {0}
  BY FormAssumption DEF FormInv
<1>1. form \in [Forms -> FormType] /\ op \in [Forms \X Keys -> OpType]
      /\ net \subseteq Forms \X Keys \X Payloads
  BY <1>0, TypeParts
<1>2. form[f] \in FormType
  BY <1>1
<1>3. /\ k <= MaxKeys
      /\ form' = [form EXCEPT ![f] = new] /\ net' = net \cup {<<f, k, p>>}
      /\ op' = op /\ UNCHANGED residentVars
  BY <1>1 DEF Submit
<1>4. k \in Keys
  BY <1>0, <1>2, <1>3 DEF KeyFor, FormType, Keys
<1> HIDE DEF k
<1>5. /\ new.key = k /\ new.payload = p /\ new.told = NONE /\ new.done = form[f].done
      /\ new.drawn = (IF k > form[f].drawn THEN k ELSE form[f].drawn)
      /\ new \in FormType
  <2>1. new = [form[f] EXCEPT !.key = k, !.sent = k, !.payload = p, !.told = NONE,
                              !.drawn = IF k > form[f].drawn THEN k ELSE form[f].drawn]
    OBVIOUS
  <2> HIDE DEF new
  <2>2. /\ new.key = k /\ new.payload = p /\ new.told = NONE /\ new.done = form[f].done
        /\ new.drawn = (IF k > form[f].drawn THEN k ELSE form[f].drawn)
    BY <1>2, <2>1 DEF FormType
  <2>3. (IF k > form[f].drawn THEN k ELSE form[f].drawn) \in 0 .. MaxKeys /\ k \in 0 .. MaxKeys
    BY <1>0, <1>2, <1>4 DEF FormType, Keys
  <2>4. new \in FormType
    BY <1>2, <2>1, <2>3 DEF FormType
  <2> QED
    BY <2>2, <2>4
<1>6. form'[f] = new /\ \A g \in Forms \ {f} : form'[g] = form[g]
  BY <1>1, <1>3
<1> HIDE DEF new
<1>7. TypeOK' /\ DeskHasAccount'
  <2>1. ResidentTypeOK' /\ DeskHasAccount'
    BY <1>0, <1>3 DEF FormInv, TypeOK, ResidentTypeOK, DeskHasAccount, residentVars
  <2>2. form' \in [Forms -> FormType] /\ net' \subseteq Forms \X Keys \X Payloads
    BY <1>1, <1>3, <1>4, <1>5
  <2> QED
    BY <2>1, <2>2, <1>1, <1>3, TypeParts
<1>8. DrawnKeys'
  <2>1. \A g \in Forms : form'[g].drawn >= form[g].drawn
    BY <1>1, <1>2, <1>4, <1>5, <1>6 DEF FormType, Keys
  <2>2. \A g \in Forms : form'[g].drawn \in Nat /\ form[g].drawn \in Nat
    BY <1>1, <1>5, <1>6 DEF FormType
  <2>3. form'[f].drawn >= k /\ k \in Nat
    BY <1>2, <1>4, <1>5, <1>6 DEF FormType, Keys
  <2>4. \A r \in net' : r[2] <= form'[r[1]].drawn
    <3> SUFFICES ASSUME NEW r \in net' PROVE r[2] <= form'[r[1]].drawn
      OBVIOUS
    <3>1. CASE r \in net
      <4>1. r[1] \in Forms /\ r[2] \in Nat
        BY <1>1, <3>1 DEF Keys
      <4>2. r[2] <= form[r[1]].drawn
        BY <3>1 DEF FormInv, DrawnKeys
      <4> QED
        BY <2>1, <2>2, <4>1, <4>2
    <3>2. CASE r = <<f, k, p>>
      BY <2>3, <3>2
    <3> QED
      BY <1>3, <3>1, <3>2
  <2>5. \A g \in Forms, j \in Keys : op[<<g, j>>] # NoOp => j <= form'[g].drawn
    <3> SUFFICES ASSUME NEW g \in Forms, NEW j \in Keys, op[<<g, j>>] # NoOp
                 PROVE  j <= form'[g].drawn
      OBVIOUS
    <3>1. j <= form[g].drawn /\ j \in Nat
      BY DEF FormInv, DrawnKeys, Keys
    <3> QED
      BY <2>1, <2>2, <3>1
  <2> QED
    BY <2>4, <2>5, <1>3 DEF DrawnKeys
<1>9. OneKeyKept'
  <2> SUFFICES ASSUME FormKind[f] = "kept"
               PROVE  /\ new.key \in {0, new.drawn} /\ new.drawn <= new.done + 1
                      /\ new.key = 0 => new.done = new.drawn
    BY <1>6 DEF FormInv, OneKeyKept
  <2>1. /\ form[f].key \in {0, form[f].drawn} /\ form[f].drawn <= form[f].done + 1
        /\ form[f].key = 0 => form[f].done = form[f].drawn
    BY DEF FormInv, OneKeyKept
  <2>2. k = IF form[f].key = 0 THEN form[f].drawn + 1 ELSE form[f].key
    BY DEF KeyFor, k
  <2>3. form[f].key \in Nat /\ form[f].drawn \in Nat /\ form[f].done \in Nat
    BY <1>2 DEF FormType
  <2> QED
    BY <1>5, <2>1, <2>2, <2>3
<1>10. SuccessIsForWhatWasAsked'
  <2>1. NONE # "SUCCESS"
    BY FormAssumption DEF Answers
  <2> QED
    BY <1>3, <1>5, <1>6, <2>1 DEF FormInv, SuccessIsForWhatWasAsked
<1> QED
  BY <1>7, <1>8, <1>9, <1>10 DEF FormInv

\* A form that is told something, and draws no key, with requests and operations as
\* they were or handled, keeps its invariants.
LEMMA TellingAForm ==
    ASSUME FormInv, NEW f \in Forms, NEW out \in Answers, Told(f, out)
    PROVE  /\ form' \in [Forms -> FormType]
           /\ \A g \in Forms : form'[g].drawn = form[g].drawn /\ form'[g].payload = form[g].payload
           /\ form'[f].told = out /\ \A g \in Forms \ {f} : form'[g] = form[g]
           /\ OneKeyKept'
<1> DEFINE new == [form[f] EXCEPT !.sent = 0, !.told = out,
                         !.done = IF out = "SUCCESS" THEN form[f].drawn ELSE form[f].done,
                         !.key = IF out = "SUCCESS" /\ FormKind[f] = "kept" THEN 0
                                 ELSE form[f].key]
<1>1. form \in [Forms -> FormType] /\ form[f] \in FormType /\ MaxKeys \in Nat
  BY TypeParts, FormAssumption DEF FormInv
<1>2. form' = [form EXCEPT ![f] = new]
  BY <1>1 DEF Told
<1>3. /\ new.drawn = form[f].drawn /\ new.payload = form[f].payload /\ new.told = out
      /\ new.done = (IF out = "SUCCESS" THEN form[f].drawn ELSE form[f].done)
      /\ new.key = (IF out = "SUCCESS" /\ FormKind[f] = "kept" THEN 0 ELSE form[f].key)
      /\ new \in FormType
  <2>1. new = [form[f] EXCEPT !.sent = 0, !.told = out,
                         !.done = IF out = "SUCCESS" THEN form[f].drawn ELSE form[f].done,
                         !.key = IF out = "SUCCESS" /\ FormKind[f] = "kept" THEN 0
                                 ELSE form[f].key]
    OBVIOUS
  <2> HIDE DEF new
  <2>2. /\ new.drawn = form[f].drawn /\ new.payload = form[f].payload /\ new.told = out
        /\ new.done = (IF out = "SUCCESS" THEN form[f].drawn ELSE form[f].done)
        /\ new.key = (IF out = "SUCCESS" /\ FormKind[f] = "kept" THEN 0 ELSE form[f].key)
    BY <1>1, <2>1 DEF FormType
  <2>3. /\ (IF out = "SUCCESS" THEN form[f].drawn ELSE form[f].done) \in 0 .. MaxKeys
        /\ (IF out = "SUCCESS" /\ FormKind[f] = "kept" THEN 0 ELSE form[f].key) \in 0 .. MaxKeys
        /\ 0 \in 0 .. MaxKeys
    BY <1>1 DEF FormType
  <2>4. new \in FormType
    BY <1>1, <2>1, <2>3 DEF FormType
  <2> QED
    BY <2>2, <2>4
<1> HIDE DEF new
<1>4. form'[f] = new /\ \A g \in Forms \ {f} : form'[g] = form[g]
  BY <1>1, <1>2
<1>5. OneKeyKept'
  <2> SUFFICES ASSUME FormKind[f] = "kept"
               PROVE  /\ new.key \in {0, new.drawn} /\ new.drawn <= new.done + 1
                      /\ new.key = 0 => new.done = new.drawn
    BY <1>4 DEF FormInv, OneKeyKept
  <2>1. /\ form[f].key \in {0, form[f].drawn} /\ form[f].drawn <= form[f].done + 1
        /\ form[f].key = 0 => form[f].done = form[f].drawn
    BY DEF FormInv, OneKeyKept
  <2>2. form[f].key \in Nat /\ form[f].drawn \in Nat /\ form[f].done \in Nat
    BY <1>1 DEF FormType
  <2> QED
    BY <1>3, <2>1, <2>2
<1> QED
  BY <1>1, <1>2, <1>3, <1>4, <1>5

LEMMA GiveUpKeepsFormInv ==
    ASSUME FormInv, NEW f \in Forms, GiveUp(f)
    PROVE  FormInv'
<1>1. "RETRY" \in Answers /\ Told(f, "RETRY") /\ UNCHANGED <<net, op, residentVars>>
  BY DEF GiveUp, Answers
<1>2. TypeOK' /\ DeskHasAccount'
  <2>1. ResidentTypeOK' /\ DeskHasAccount'
    BY <1>1 DEF FormInv, TypeOK, ResidentTypeOK, DeskHasAccount, residentVars
  <2> QED
    BY <1>1, <2>1, TellingAForm, TypeParts DEF FormInv
<1>3. DrawnKeys'
  <2>1. \A r \in net : r[1] \in Forms
    BY TypeParts DEF FormInv
  <2> QED
    BY <1>1, <2>1, TellingAForm DEF FormInv, DrawnKeys
<1>4. SuccessIsForWhatWasAsked'
  BY <1>1, TellingAForm DEF FormInv, SuccessIsForWhatWasAsked
<1> QED
  BY <1>1, <1>2, <1>3, <1>4, TellingAForm DEF FormInv

LEMMA LeaveKeepsFormInv ==
    ASSUME FormInv, NEW f \in Forms, Leave(f)
    PROVE  FormInv'
<1> DEFINE new == [EmptyForm EXCEPT !.drawn = form[f].drawn, !.done = form[f].drawn]
<1>1. form \in [Forms -> FormType] /\ form[f] \in FormType /\ MaxKeys \in Nat
  BY TypeParts, FormAssumption DEF FormInv
<1>2. form' = [form EXCEPT ![f] = new] /\ UNCHANGED <<net, op, residentVars>>
  BY DEF Leave
<1>3. /\ new.key = 0 /\ new.told = NONE /\ new.drawn = form[f].drawn /\ new.done = form[f].drawn
      /\ new \in FormType
  <2>1. EmptyForm \in FormType /\ EmptyForm.key = 0 /\ EmptyForm.told = NONE
    BY <1>1 DEF EmptyForm, FormType
  <2>2. new = [EmptyForm EXCEPT !.drawn = form[f].drawn, !.done = form[f].drawn]
    OBVIOUS
  <2> HIDE DEF new
  <2>3. form[f].drawn \in 0 .. MaxKeys
    BY <1>1 DEF FormType
  <2> QED
    BY <2>1, <2>2, <2>3 DEF FormType
<1> HIDE DEF new
<1>4. form'[f] = new /\ \A g \in Forms \ {f} : form'[g] = form[g]
  BY <1>1, <1>2
<1>5. TypeOK' /\ DeskHasAccount'
  <2>1. ResidentTypeOK' /\ DeskHasAccount'
    BY <1>2 DEF FormInv, TypeOK, ResidentTypeOK, DeskHasAccount, residentVars
  <2> QED
    BY <1>1, <1>2, <1>3, <2>1, TypeParts DEF FormInv
<1>6. DrawnKeys'
  <2>1. \A r \in net : r[1] \in Forms
    BY TypeParts DEF FormInv
  <2>2. \A g \in Forms : form'[g].drawn = form[g].drawn
    BY <1>3, <1>4
  <2> QED
    BY <1>2, <2>1, <2>2 DEF FormInv, DrawnKeys
<1>7. OneKeyKept'
  <2>1. form[f].drawn \in Nat
    BY <1>1 DEF FormType
  <2> QED
    BY <1>3, <1>4, <2>1 DEF FormInv, OneKeyKept
<1>8. SuccessIsForWhatWasAsked'
  <2>1. NONE # "SUCCESS"
    BY FormAssumption DEF Answers
  <2> QED
    BY <1>2, <1>3, <1>4, <2>1 DEF FormInv, SuccessIsForWhatWasAsked
<1> QED
  BY <1>5, <1>6, <1>7, <1>8 DEF FormInv

LEMMA HandleKeepsFormInv ==
    ASSUME FormInv, NEW r \in net, Handle(r)
    PROVE  FormInv'
<1> DEFINE f == r[1]
           id == <<r[1], r[2]>>
<1>1. /\ TypeOK /\ op \in [Forms \X Keys -> OpType] /\ form \in [Forms -> FormType]
      /\ net \subseteq Forms \X Keys \X Payloads
      /\ r \in Forms \X Keys \X Payloads /\ f \in Forms /\ r[2] \in Keys /\ r[3] \in Payloads
  BY TypeParts DEF FormInv
<1>2. PICK out \in Outcomes(r) :
          /\ op' = IF op[id] = NoOp
                   THEN [op EXCEPT ![id] = [payload |-> r[3], result |-> out]] ELSE op
          /\ net' = net \ {r}
          /\ (Awaits(r) /\ Told(f, out)) \/ UNCHANGED form
          /\ UNCHANGED residentVars
  BY DEF Handle
<1>3. /\ op[id] \in OpType
      /\ op[id] = NoOp => out \in {"SUCCESS", "CONFLICT"}
      /\ (op[id] # NoOp /\ out = "SUCCESS") => op[id] = [payload |-> r[3], result |-> "SUCCESS"]
      /\ out \in Answers
  <2>1. op[id] \in OpType
    BY <1>1
  <2>2. CASE op[id] = NoOp
    BY <2>1, <2>2 DEF Outcomes, Answers
  <2>3. CASE op[id] # NoOp /\ op[id].payload # r[3]
    BY <2>1, <2>3 DEF Outcomes, Answers
  <2>4. CASE op[id] # NoOp /\ op[id].payload = r[3]
    <3>1. out = op[id].result
      BY <2>4 DEF Outcomes
    <3> QED
      BY <2>1, <2>4, <3>1 DEF OpType, Answers
  <2> QED
    BY <2>2, <2>3, <2>4, <2>1
<1>4. /\ op' \in [Forms \X Keys -> OpType]
      /\ \A j \in Forms \X Keys : j # id => op'[j] = op[j]
      /\ op[id] # NoOp => op' = op
      /\ op[id] = NoOp => op'[id] = [payload |-> r[3], result |-> out]
  BY <1>1, <1>2, <1>3 DEF OpType
<1>5. \A j \in Forms \X Keys : op[j].result = "SUCCESS" => op'[j] = op[j]
  <2>1. NoOp.result # "SUCCESS"
    BY FormAssumption DEF NoOp, Answers
  <2> QED
    BY <1>4, <2>1
<1>6. /\ form' \in [Forms -> FormType] /\ OneKeyKept'
      /\ \A g \in Forms : form'[g].drawn = form[g].drawn /\ form'[g].payload = form[g].payload
      /\ \A g \in Forms \ {f} : form'[g] = form[g]
      /\ form' = form \/ (Awaits(r) /\ form'[f].told = out)
  <2>1. CASE Awaits(r) /\ Told(f, out)
    BY <1>1, <1>3, <2>1, TellingAForm
  <2>2. CASE UNCHANGED form
    BY <1>1, <2>2 DEF FormInv, OneKeyKept
  <2> QED
    BY <1>2, <2>1, <2>2
<1> HIDE DEF f, id
<1>7. TypeOK' /\ DeskHasAccount'
  <2>1. ResidentTypeOK' /\ DeskHasAccount'
    BY <1>2 DEF FormInv, TypeOK, ResidentTypeOK, DeskHasAccount, residentVars
  <2> QED
    BY <1>1, <1>2, <1>4, <1>6, <2>1, TypeParts
<1>8. DrawnKeys'
  <2>1. \A q \in net' : q[2] <= form'[q[1]].drawn
    BY <1>1, <1>2, <1>6 DEF FormInv, DrawnKeys
  <2>2. \A g \in Forms, k \in Keys : op'[<<g, k>>] # NoOp => k <= form'[g].drawn
    <3> SUFFICES ASSUME NEW g \in Forms, NEW k \in Keys, op'[<<g, k>>] # NoOp
                 PROVE  k <= form[g].drawn
      BY <1>6
    <3>1. CASE <<g, k>> = id
      BY <3>1 DEF FormInv, DrawnKeys, id
    <3>2. CASE <<g, k>> # id
      BY <1>4, <3>2 DEF FormInv, DrawnKeys
    <3> QED
      BY <3>1, <3>2
  <2> QED
    BY <2>1, <2>2 DEF DrawnKeys
<1>9. SuccessIsForWhatWasAsked'
  <2> SUFFICES ASSUME NEW g \in Forms, form'[g].told = "SUCCESS"
               PROVE  \E k \in Keys :
                          op'[<<g, k>>] = [payload |-> form'[g].payload, result |-> "SUCCESS"]
    BY DEF SuccessIsForWhatWasAsked
  <2>1. CASE form'[g] = form[g]
    <3>1. PICK k \in Keys : op[<<g, k>>] = [payload |-> form[g].payload, result |-> "SUCCESS"]
      BY <2>1 DEF FormInv, SuccessIsForWhatWasAsked
    <3> QED
      BY <1>5, <2>1, <3>1
  <2>2. CASE form'[g] # form[g]
    <3>1. g = f /\ out = "SUCCESS" /\ Awaits(r)
      BY <1>6, <2>2
    <3>2. form'[g].payload = r[3]
      BY <1>6, <3>1 DEF Awaits, f
    <3>3. op'[id] = [payload |-> r[3], result |-> "SUCCESS"]
      BY <1>3, <1>4, <3>1
    <3> QED
      BY <1>1, <3>1, <3>2, <3>3 DEF id, f
  <2> QED
    BY <2>1, <2>2
<1> QED
  BY <1>6, <1>7, <1>8, <1>9 DEF FormInv

LEMMA FormStep == FormInv /\ [Next]_vars => FormInv'
<1> SUFFICES ASSUME FormInv, [Next]_vars PROVE FormInv'
  OBVIOUS
<1>1. CASE UNCHANGED vars
  BY <1>1 DEF vars, formVars, residentVars, FormInv, TypeOK, ResidentTypeOK,
              DeskHasAccount, DrawnKeys,
              OneKeyKept, SuccessIsForWhatWasAsked
<1>2. CASE Next
  BY <1>2, ResidentStepKeepsFormInv, SubmitKeepsFormInv, GiveUpKeepsFormInv,
     LeaveKeepsFormInv, HandleKeepsFormInv DEF Next
<1> QED
  BY <1>1, <1>2

LEMMA FormInvariant == FairSpec => []FormInv
  BY InitEstablishesFormInv, FormStep, PTL DEF FairSpec, Spec

-----------------------------------------------------------------------------
\* Forms, requests and operations keep their types, and a Resident's profile is that
\* of an Account whose e-mail is its own.
THEOREM FormTypes == FairSpec => []TypeOK
<1>1. FormInv => TypeOK
  BY DEF FormInv
<1> QED
  BY <1>1, FormInvariant, PTL

\* What a form shows as done is what it last asked for (useMutation's onSuccess), for
\* any number of submissions and late answers.
THEOREM SuccessIsTrue == FairSpec => []SuccessIsForWhatWasAsked
<1>1. FormInv => SuccessIsForWhatWasAsked
  BY DEF FormInv
<1> QED
  BY <1>1, FormInvariant, PTL

\* A form that keeps its key until a success (visit and report forms) has at most one
\* operation applied since it was last done, however often it is sent again.
THEOREM RetriesApplyOnce == FairSpec => []RetryAppliesOnce
<1>1. FormInv => RetryAppliesOnce
  <2> SUFFICES ASSUME FormInv, NEW f \in Forms, FormKind[f] = "kept"
               PROVE  Cardinality(Applied(f)) <= 1
    BY DEF RetryAppliesOnce
  <2>1. form[f] \in FormType
    BY TypeParts DEF FormInv
  <2>2. NoOp.result # "SUCCESS"
    BY FormAssumption DEF NoOp, Answers
  <2>3. ASSUME NEW k \in Applied(f) PROVE k = form[f].drawn
    <3>1. k \in Keys /\ k > form[f].done /\ op[<<f, k>>] # NoOp
      BY <2>2, <2>3 DEF Applied
    <3>2. k <= form[f].drawn /\ form[f].drawn <= form[f].done + 1
      BY <3>1 DEF FormInv, DrawnKeys, OneKeyKept
    <3>3. k \in Nat /\ form[f].drawn \in Nat /\ form[f].done \in Nat
      BY <2>1, <3>1 DEF FormType, Keys
    <3> QED
      BY <3>1, <3>2, <3>3
  <2>4. Applied(f) \in SUBSET {form[f].drawn}
    BY <2>3
  <2>5. IsFiniteSet({form[f].drawn}) /\ Cardinality({form[f].drawn}) = 1
    BY FS_Singleton
  <2> QED
    BY <2>4, <2>5, FS_Subset
<1> QED
  BY <1>1, FormInvariant, PTL
=============================================================================
