----------------------------- MODULE ClientForms ----------------------------
(***************************************************************************)
(* The forms of the three frontends and the Idempotency-Keys they send.    *)
(* A form that fails is sent again: with the key it had, with a key per    *)
(* payload, or with a fresh one.  The Gateway makes the Update id from key *)
(* and payload hash; the Workflow remembers both, and refuses a key that   *)
(* comes back with another payload.                                        *)
(*                                                                         *)
(* What the Case makes of a request with a new key is left open here: it   *)
(* may succeed or conflict with another booking.  CommandPath has the rest *)
(* of the way.                                                             *)
(***************************************************************************)
EXTENDS ResidentProvisioning, Naturals, FiniteSets

CONSTANTS
    Forms,
    FormKind,       \* form -> "fresh", "kept" or "perPayload"
    Payloads,       \* what a form may hold: a slot, a report
    MaxKeys,        \* bound: keys a form draws
    NONE

Answers == {"SUCCESS", "CONFLICT", "IDEMPOTENCY_KEY_REUSED", "RETRY"}

ASSUME FormAssumption ==
    /\ FormKind \in [Forms -> {"fresh", "kept", "perPayload"}]
    /\ MaxKeys \in Nat \ {0} /\ NONE \notin Payloads \cup Answers

VARIABLES
    form,           \* form -> key kept, what was sent last, keys drawn, answer
    net,            \* requests on their way: <<form, key, payload>>
    op              \* <<form, key>> -> the operation the Workflow remembers

formVars == <<form, net, op>>
vars == <<residentVars, formVars>>

Keys == 1 .. MaxKeys
NoOp == [payload |-> NONE, result |-> NONE]
EmptyForm == [key |-> 0, sent |-> 0, payload |-> NONE, drawn |-> 0, done |-> 0, told |-> NONE]

TypeOK ==
    /\ ResidentTypeOK
    /\ form \in [Forms -> [key : 0 .. MaxKeys, sent : 0 .. MaxKeys,
                           payload : Payloads \cup {NONE}, drawn : 0 .. MaxKeys,
                           done : 0 .. MaxKeys, told : Answers \cup {NONE}]]
    /\ net \subseteq Forms \X Keys \X Payloads
    /\ op \in [Forms \X Keys ->
                  {NoOp} \cup [payload : Payloads, result : {"SUCCESS", "CONFLICT"}]]

Init ==
    /\ ResidentInit
    /\ form = [f \in Forms |-> EmptyForm]
    /\ net = {}
    /\ op = [k \in Forms \X Keys |-> NoOp]

\* Defect: every submission draws a key.
AlwaysFreshDefect(f, p) == form[f].drawn + 1

\* crypto.randomUUID(), or the key of the ref.
KeyFor(f, p) ==
    IF \/ FormKind[f] = "fresh" \/ form[f].key = 0
       \/ FormKind[f] = "perPayload" /\ form[f].payload # p
    THEN form[f].drawn + 1 ELSE form[f].key

MayOpen == \E a \in Residents : desk[a] = "PROVISIONED"

\* The button is disabled while an answer is awaited; the desk's, until the Resident
\* may open Cases.
Submit(f, p) ==
    LET k == KeyFor(f, p) IN
    /\ form[f].sent = 0 /\ k <= MaxKeys
    /\ FormKind[f] = "fresh" => MayOpen
    /\ form' = [form EXCEPT ![f].key = k, ![f].sent = k, ![f].payload = p, ![f].told = NONE,
                            ![f].drawn = IF k > @ THEN k ELSE @]
    /\ net' = net \cup {<<f, k, p>>}
    /\ UNCHANGED <<op, residentVars>>

\* Defect: a handler that does not compare payload hashes.
KeyOnlyDefect(r) ==
    IF op[<<r[1], r[2]>>] = NoOp THEN {"SUCCESS", "CONFLICT"} ELSE {op[<<r[1], r[2]>>].result}

\* The lookup every Update handler begins with.
Outcomes(r) ==
    LET known == op[<<r[1], r[2]>>] IN
    CASE known = NoOp -> {"SUCCESS", "CONFLICT"}
      [] known # NoOp /\ known.payload # r[3] -> {"IDEMPOTENCY_KEY_REUSED"}
      [] OTHER -> {known.result}

Awaits(r) == form[r[1]].sent = r[2] /\ form[r[1]].payload = r[3]

\* onSuccess clears a key that was kept.
Told(f, out) ==
    form' = [form EXCEPT ![f].sent = 0, ![f].told = out,
                         ![f].done = IF out = "SUCCESS" THEN form[f].drawn ELSE @,
                         ![f].key = IF out = "SUCCESS" /\ FormKind[f] = "kept" THEN 0 ELSE @]

Handle(r) ==
    \E out \in Outcomes(r) :
        /\ op' = IF op[<<r[1], r[2]>>] = NoOp
                 THEN [op EXCEPT ![<<r[1], r[2]>>] = [payload |-> r[3], result |-> out]] ELSE op
        /\ net' = net \ {r}
        /\ \/ Awaits(r) /\ Told(r[1], out)
           \/ UNCHANGED form
        /\ UNCHANGED residentVars

\* 503, 504 or no connection: the request may be on its way yet.
GiveUp(f) ==
    /\ form[f].sent # 0 /\ Told(f, "RETRY")
    /\ UNCHANGED <<net, op, residentVars>>

\* The page is left: refs are gone.
Leave(f) ==
    /\ form[f].key # 0
    /\ form' = [form EXCEPT ![f] = [EmptyForm EXCEPT !.drawn = form[f].drawn,
                                                     !.done = form[f].drawn]]
    /\ UNCHANGED <<net, op, residentVars>>

Next ==
    \/ \E a \in Residents : ResidentStep(a) /\ UNCHANGED formVars
    \/ \E f \in Forms : GiveUp(f) \/ Leave(f) \/ \E p \in Payloads : Submit(f, p)
    \/ \E r \in net : Handle(r)

Spec == Init /\ [][Next]_vars

\* The desk's timer and the Worker go on, and a start of the Workflow, or a reply of
\* its Activity, is not lost every time.
Fairness ==
    \A a \in Residents :
        /\ WF_vars(Ask(a, FALSE) /\ UNCHANGED formVars)
        /\ WF_vars(Provision(a, FALSE) /\ UNCHANGED formVars)

FairSpec == Spec /\ Fairness

-----------------------------------------------------------------------------
(* Properties *)

\* "keep asking so the form unlocks on its own once the Workflow finishes"
\* (resident-case-desk.tsx): also when starts of the Workflow and replies of its
\* Activity are lost.
ResidentIsProvisioned ==
    \A a \in Residents \ Taken : desk[a] = "PROVISIONING" ~> desk[a] = "PROVISIONED"

\* What a form shows as done is what it last asked for, although keys outlive
\* payloads and answers outlive submissions.
SuccessIsForWhatWasAsked ==
    \A f \in Forms : form[f].told = "SUCCESS" =>
        \E k \in Keys : op[<<f, k>>] = [payload |-> form[f].payload, result |-> "SUCCESS"]

Applied(f) == {k \in Keys : k > form[f].done /\ op[<<f, k>>].result = "SUCCESS"}

\* "Reusing the idempotency key across retries reattaches to the same operation
\* instead of booking a second Appointment" (resident gateway.ts).
RetryAppliesOnce ==
    \A f \in Forms : FormKind[f] = "kept" => Cardinality(Applied(f)) <= 1

\* "The idempotency key makes a retry after a network failure reattach to the same
\* operation instead of opening a second Case" (resident gateway.ts, openCase).
OneCasePerReport ==
    \A f \in Forms : FormKind[f] = "fresh" => Cardinality(Applied(f)) <= 1

\* "The old schedule still stands, which is what makes APPOINTMENT_CONFLICT safe to
\* return to the caller as 'pick another slot'" (case-workflow.ts): the other slot is
\* judged on its merits.
AnotherSlotMayBePicked ==
    \A f \in Forms : form[f].told = "IDEMPOTENCY_KEY_REUSED" =>
        \A k \in Keys : k = form[f].key => op[<<f, k>>].result # "CONFLICT"
=============================================================================
