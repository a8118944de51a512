------------------------------ MODULE CaseReads -----------------------------
(***************************************************************************)
(* What the Gateway shows of one Case: the list, the detail, the timeline  *)
(* and the lists of Proof Items, Derived Effects and Officer Attention.    *)
(* A read is a series of calls to five atoms.  Each sees its atom as it is *)
(* at that moment, the calls of one phase go out together, any of them may *)
(* fail, and meanwhile the Case goes on: a read is no snapshot.            *)
(*                                                                         *)
(* Of the tables only what a read can tell apart is kept: which rows there *)
(* are, which Contractor each belongs to, and which Attempt is live.       *)
(***************************************************************************)
EXTENDS Integers, Sequences, FiniteSets

CONSTANTS
    Residents, Contractors, Officers,       \* Accounts, by role
    Owner,                                  \* the Resident whose Case it is
    Nobody,                                 \* contractorId: null
    MaxAttempts,                            \* bound: Attempts of the Case
    MaxVisits,                              \* bound: Appointments of the Case
    MaxWrites                               \* bound: writes during one read

\* resolveActor: an Account has one role.
ASSUME ReadAssumption ==
    /\ Owner \in Residents /\ Nobody \notin Contractors
    /\ Residents \cap Contractors = {} /\ (Residents \cup Contractors) \cap Officers = {}
    /\ MaxAttempts \in Nat /\ MaxVisits \in Nat /\ MaxWrites \in Nat

VARIABLES
    opened,         \* the Case atom has the Case, with its CASE_OPENED history
    attempts,       \* Allocation Attempts, oldest first
    visits,         \* Appointments, oldest first
    proofs,         \* the Attempts with a ready Proof Item
    effects,        \* Derived Effects: an e-mail (0), or the score of an Attempt
    attention,      \* the state of an Officer Attention of the Case
    read            \* the read in progress

tables == <<opened, attempts, visits, proofs, effects, attention>>
vars == <<opened, attempts, visits, proofs, effects, attention, read>>

Actors == Residents \cup Contractors \cup Officers
RoleOf(actor) ==
    CASE actor \in Residents -> "RESIDENT"
      [] actor \in Contractors -> "CONTRACTOR"
      [] OTHER -> "OFFICER"

Live == {"PENDING_ACCEPTANCE", "ACCEPTED"}
LiveAttempts == {i \in DOMAIN attempts : attempts[i].status \in Live}
Holders == {attempts[i].contractor : i \in LiveAttempts}

NoRead == [kind |-> "none"]

Init ==
    /\ opened = FALSE
    /\ attempts = <<>> /\ visits = <<>>
    /\ proofs = {} /\ effects = {}
    /\ attention = "none"
    /\ read = NoRead

-----------------------------------------------------------------------------
(* The atoms' tables go on *)

\* A write while a read is in progress.
Meanwhile ==
    IF read = NoRead THEN read' = read
    ELSE /\ read.writes < MaxWrites
         /\ read' = [read EXCEPT !.writes = @ + 1, !.held = @ \cup Holders']

OpenCase ==
    /\ ~opened /\ opened' = TRUE
    /\ UNCHANGED <<attempts, visits, proofs, effects, attention>> /\ Meanwhile

\* commitAllocationAttempt: a new Attempt, while none is live.
CommitAttempt(c) ==
    /\ opened /\ LiveAttempts = {} /\ Len(attempts) < MaxAttempts
    /\ attempts' = Append(attempts, [contractor |-> c, status |-> "PENDING_ACCEPTANCE"])
    /\ UNCHANGED <<opened, visits, proofs, effects, attention>> /\ Meanwhile

\* Acceptance or breach of the pending Attempt, withdrawal of the live one.
SettleAttempt(i, status) ==
    /\ i \in LiveAttempts
    /\ attempts[i].status = "PENDING_ACCEPTANCE" \/ status = "WITHDRAWN"
    /\ attempts' = [attempts EXCEPT ![i].status = status]
    /\ UNCHANGED <<opened, visits, proofs, effects, attention>> /\ Meanwhile

\* A visit under the accepted Attempt: booked, or booked again.
ConfirmVisit(i) ==
    /\ i \in LiveAttempts /\ attempts[i].status = "ACCEPTED" /\ Len(visits) < MaxVisits
    /\ visits' = Append(visits, [attempt |-> i, contractor |-> attempts[i].contractor])
    /\ UNCHANGED <<opened, attempts, proofs, effects, attention>> /\ Meanwhile

MarkProofReady(i) ==
    /\ i \in LiveAttempts \ proofs /\ attempts[i].status = "ACCEPTED"
    /\ proofs' = proofs \cup {i}
    /\ UNCHANGED <<opened, attempts, visits, effects, attention>> /\ Meanwhile

\* An e-mail, or the penalty for an offer that lapsed.
ReserveEffect(n) ==
    /\ attempts # <<>> /\ n \notin effects
    /\ n > 0 => n \in DOMAIN attempts /\ attempts[n].status = "BREACHED"
    /\ effects' = effects \cup {n}
    /\ UNCHANGED <<opened, attempts, visits, proofs, attention>> /\ Meanwhile

RaiseAttention ==
    /\ opened /\ attention = "none" /\ attention' = "open"
    /\ UNCHANGED <<opened, attempts, visits, proofs, effects>> /\ Meanwhile

ResolveAttention ==
    /\ attention = "open" /\ attention' = "resolved"
    /\ UNCHANGED <<opened, attempts, visits, proofs, effects>> /\ Meanwhile

-----------------------------------------------------------------------------
(* What each call finds.  An event names the Contractor its row belongs to,  *)
(* for the Gateway's own use.                                                *)

Event(source, type, n, contractor) ==
    [source |-> source, type |-> type, n |-> n, contractor |-> contractor]

CaseRows == IF opened THEN {Owner} ELSE {}
CaseHistory == IF opened THEN {Event("CASE_HISTORY", "CASE_OPENED", 1, Nobody)} ELSE {}

\* getAttemptsByCaseId: every Attempt, breached and withdrawn ones included.
AttemptRows ==
    {[n |-> i, contractor |-> attempts[i].contractor, status |-> attempts[i].status] :
        i \in DOMAIN attempts}
AttemptEvents(rows) ==
    {Event("ALLOCATION_ATTEMPT", a.status, a.n, a.contractor) : a \in rows}

\* getAssignmentWithCurrentAttempt: the live Attempt only.
CurrentAttempt == {a \in AttemptRows : a.status \in Live}

\* A row says who changed the status, not whom it belongs to.
AssignmentStatus ==
    {Event("ASSIGNMENT_STATUS", "", i, Nobody) :
        i \in {j \in DOMAIN attempts : attempts[j].status # "PENDING_ACCEPTANCE"}}

Appointments ==
    {Event("APPOINTMENT", "", i, visits[i].contractor) : i \in DOMAIN visits}

\* lookupAppointment: the newest visit of one Attempt.
VisitOf(attempt) ==
    LET mine == {i \in DOMAIN visits : visits[i].attempt = attempt}
    IN {i \in mine : \A j \in mine : j <= i}

ProofItems == {Event("PROOF_ITEM", "", i, attempts[i].contractor) : i \in proofs}

\* toEffectSummary gives away whose score it is, not whom an e-mail is to.
DerivedEffects ==
    {IF n = 0 THEN Event("DERIVED_EFFECT", "EMAIL", n, Nobody)
     ELSE Event("DERIVED_EFFECT", "PERFORMANCE_ENTRY", n, attempts[n].contractor) :
        n \in effects}

\* listOfficerAttention has no "all": the timeline asks twice.
OfficerAttention(state) ==
    IF attention = state THEN {Event("OFFICER_ATTENTION", "", 1, Nobody)} ELSE {}

\* listCasesForContractor: the Case, if the Contractor was ever offered it.
Scope(c) ==
    LET newest == attempts[Len(attempts)]
    IN IF \A i \in DOMAIN attempts : attempts[i].contractor # c THEN {}
       ELSE {IF newest.contractor = c /\ newest.status \in Live
             THEN "CURRENT" ELSE "HISTORICAL"}

Found(call) ==
    CASE call = "CASE" -> CaseRows
      [] call = "SCOPE" -> Scope(read.actor)
      [] call = "ATTEMPTS" -> AttemptRows
      [] call = "ASSIGNMENT" -> CurrentAttempt
      [] call = "VISIT" ->
            UNION {VisitOf(a.n) : a \in read.got["ASSIGNMENT"].rows}
      [] call = "CASE_HISTORY" -> CaseHistory
      [] call = "ASSIGNMENT_STATUS" -> AssignmentStatus
      [] call = "APPOINTMENT" -> Appointments
      [] call = "PROOF_ITEM" -> ProofItems
      [] call = "DERIVED_EFFECT" -> DerivedEffects
      [] call = "ATTENTION_OPEN" -> OfficerAttention("open")
      [] call = "ATTENTION_RESOLVED" -> OfficerAttention("resolved")

-----------------------------------------------------------------------------
(* Which calls a read makes, and when it gives up *)

Attentions == {"ATTENTION_OPEN", "ATTENTION_RESOLVED"}
SharedSources == {"APPOINTMENT", "PROOF_ITEM", "DERIVED_EFFECT"}

ListPhases(role) ==
    IF role = "CONTRACTOR" THEN <<{"SCOPE"}, {"CASE"}>> ELSE <<{"CASE"}>>

DetailPhases(role) ==
    CASE role = "OFFICER" ->
            <<{"CASE"}, {"ASSIGNMENT", "ATTEMPTS"} \cup SharedSources \cup Attentions,
              {"VISIT"}>>
      [] role = "RESIDENT" -> <<{"CASE"}, {"ASSIGNMENT"}, {"VISIT"}>>
      [] OTHER ->
            <<{"CASE"}, {"ATTEMPTS"}, {"ASSIGNMENT"} \cup SharedSources, {"VISIT"}>>

\* A Contractor's Attempts are read first, to authorise the read, and once.
TimelinePhases(role) ==
    LET rest == {"CASE_HISTORY", "ASSIGNMENT_STATUS"} \cup SharedSources \cup Attentions
    IN IF role = "CONTRACTOR" THEN <<{"CASE"}, {"ATTEMPTS"}, rest>>
       ELSE <<{"CASE"}, {"ATTEMPTS"} \cup rest>>

ProofListPhases == <<{"ASSIGNMENT"}, {"PROOF_ITEM"}>>

Phases(kind, role) ==
    CASE kind = "list" -> ListPhases(role)
      [] kind = "detail" -> DetailPhases(role)
      [] kind = "timeline" -> TimelinePhases(role)
      [] kind = "proofs" -> ProofListPhases
      [] kind = "effects" -> <<{"DERIVED_EFFECT"}>>
      [] kind = "attention" -> <<{"ATTENTION_OPEN"}>>

\* Everything else is refused with 401 or 403 before any call.
Kinds(role) ==
    {"list", "detail", "timeline"} \cup
    CASE role = "CONTRACTOR" -> {"proofs"}
      [] role = "OFFICER" -> {"effects", "attention"}
      [] OTHER -> {}

\* newestAttempt, whose createdAt is the latest.
NewestAttempt(rows) == CHOOSE a \in rows : \A b \in rows : b.n <= a.n

EverHeld(rows, c) == \E a \in rows : a.contractor = c
Participation(rows, c) ==
    IF EverHeld(rows, c) /\ NewestAttempt(rows).contractor = c
       /\ NewestAttempt(rows).status \in Live
    THEN "CURRENT" ELSE "HISTORICAL"

Failed(call) == call \in DOMAIN read.got /\ ~read.got[call].ok
Got(call) == call \in DOMAIN read.got /\ read.got[call].ok
Rows(call) == read.got[call].rows

OneSourceKinds == {"proofs", "effects", "attention"}
HeldIsAsked == read.actor \in Contractors /\ read.kind \in {"detail", "timeline"}

\* The Case is not there, or not this reader's: both are told as not found.
IsDenied ==
    \/ /\ read.kind # "list" /\ Got("CASE")
       /\ Rows("CASE") = {} \/ (read.actor \in Residents \ {Owner})
    \/ HeldIsAsked /\ Got("ATTEMPTS") /\ ~EverHeld(Rows("ATTEMPTS"), read.actor)
    \/ /\ read.kind = "proofs" /\ Got("ASSIGNMENT")
       /\ ~EverHeld(Rows("ASSIGNMENT"), read.actor)

\* Defect (as all operators named ...Defect, never part of a specification): an
\* Assignment atom that cannot be reached denies.
OutageDeniesDefect ==
    CASE Failed("CASE") \/ Failed("SCOPE") -> 503
      [] IsDenied \/ (HeldIsAsked /\ Failed("ATTEMPTS")) -> 404
      [] OTHER -> 0

\* The answer a read ends with before its last call, 0 if it goes on: what
\* authorises must be there, what is merely shown may be missing.
Refusal ==
    CASE Failed("CASE") \/ Failed("SCOPE") -> 503
      [] HeldIsAsked /\ Failed("ATTEMPTS") -> 503
      [] read.kind \in OneSourceKinds /\ (\E call \in DOMAIN read.got : Failed(call)) -> 503
      [] IsDenied -> 404
      [] OTHER -> 0

IsCurrent == Got("ATTEMPTS") /\ Participation(Rows("ATTEMPTS"), read.actor) = "CURRENT"

\* A call that is skipped: nothing to look up, or not for this reader.
Skipped(call) ==
    \/ /\ call = "VISIT"
       /\ Failed("ASSIGNMENT") \/ Rows("ASSIGNMENT") = {}
          \/ (read.actor \in Contractors /\ ~IsCurrent)
    \/ call = "CASE" /\ Got("SCOPE") /\ Rows("SCOPE") = {}

Phase == Phases(read.kind, RoleOf(read.actor))
Waiting(i) == {call \in Phase[i] \ DOMAIN read.got : ~Skipped(call)}
NextCalls ==
    IF read = NoRead \/ Refusal # 0 THEN {}
    ELSE UNION {Waiting(i) : i \in {j \in DOMAIN Phase :
            \A k \in 1 .. j - 1 : Waiting(k) = {}}}

Answered == read # NoRead /\ NextCalls = {}

-----------------------------------------------------------------------------
(* What is shown *)

Sources == {"CASE_HISTORY", "ALLOCATION_ATTEMPT", "ASSIGNMENT_STATUS", "APPOINTMENT",
            "PROOF_ITEM", "DERIVED_EFFECT", "OFFICER_ATTENTION"}
OwnSources == {"ALLOCATION_ATTEMPT", "APPOINTMENT", "PROOF_ITEM", "DERIVED_EFFECT"}

\* Defect: a Contractor who lost the Case keeps these four sources whole.
ForeignRowsDefect(event) ==
    CASE read.actor \in Residents ->
            \/ event.source \in {"CASE_HISTORY", "APPOINTMENT", "PROOF_ITEM"}
            \/ event.source = "DERIVED_EFFECT" /\ event.type # "PERFORMANCE_ENTRY"
      [] read.actor \in Contractors ->
            /\ event.source # "OFFICER_ATTENTION"
            /\ IsCurrent \/ event.source \in OwnSources
      [] OTHER -> TRUE

\* includeTimelineEventForRole
IncludeForRole(event) ==
    CASE read.actor \in Residents ->
            \/ event.source \in {"CASE_HISTORY", "APPOINTMENT", "PROOF_ITEM"}
            \/ event.source = "DERIVED_EFFECT" /\ event.type # "PERFORMANCE_ENTRY"
      [] read.actor \in Contractors ->
            /\ event.source # "OFFICER_ATTENTION"
            /\ IsCurrent \/ (event.source \in OwnSources /\ event.contractor = read.actor)
      [] OTHER -> TRUE

\* redactForResident: the rows that stay name no Contractor.
Shown(event) ==
    IF read.actor \in Residents THEN [event EXCEPT !.contractor = Nobody] ELSE event

CallsOf(source) ==
    CASE source = "ALLOCATION_ATTEMPT" -> {"ATTEMPTS"}
      [] source = "OFFICER_ATTENTION" -> Attentions
      [] OTHER -> {source}

EventsOf(call) == IF call = "ATTEMPTS" THEN AttemptEvents(Rows(call)) ELSE Rows(call)

\* Half of a source is none of it.
Collected ==
    UNION {UNION {EventsOf(call) : call \in CallsOf(source)} :
        source \in {s \in Sources : \A call \in CallsOf(s) : Got(call)}}

Items == {Shown(event) : event \in {e \in Collected : IncludeForRole(e)}}

\* Defect: Attempts that cannot be read pass for none.
SilentGapDefect ==
    {s \in Sources \ {"ALLOCATION_ATTEMPT"} : \E call \in CallsOf(s) : Failed(call)}

Missing == {s \in Sources : \E call \in CallsOf(s) : Failed(call)}

\* The assignment of the Case detail: the live Attempt, for the Officer and for
\* the Contractor it was offered to.
Envelope ==
    IF /\ read.kind = "detail" /\ Got("ASSIGNMENT")
       /\ read.actor \in Officers \/ (read.actor \in Contractors /\ IsCurrent)
    THEN Rows("ASSIGNMENT") ELSE {}

\* The full Case; a Contractor who lost it is shown a postal sector at most.
ShowsTheCase ==
    CASE read.kind \in OneSourceKinds -> FALSE
      [] read.kind = "list" /\ read.actor \in Contractors -> Rows("SCOPE") = {"CURRENT"}
      [] read.kind = "list" /\ read.actor \in Residents -> read.actor \in Rows("CASE")
      [] read.actor \in Contractors -> read.kind = "detail" /\ IsCurrent
      [] OTHER -> TRUE

ListsTheCase ==
    /\ Got("CASE") /\ Rows("CASE") # {}
    /\ read.actor \in Residents => read.actor \in Rows("CASE")

-----------------------------------------------------------------------------

AllEvents ==
    UNION {CaseHistory, AttemptEvents(AttemptRows), AssignmentStatus, Appointments,
           ProofItems, DerivedEffects, OfficerAttention("open"), OfficerAttention("resolved")}

StartRead(actor, kind) ==
    /\ read = NoRead /\ kind \in Kinds(RoleOf(actor))
    /\ read' = [kind |-> kind, actor |-> actor, got |-> <<>>,
                before |-> AllEvents, held |-> Holders, writes |-> 0]
    /\ UNCHANGED tables

\* A call answers with what its atom has now, or the atom is unreachable.
Call(call, ok) ==
    /\ read' = [read EXCEPT !.got =
           [c \in DOMAIN @ \cup {call} |->
               IF c = call THEN [ok |-> ok, rows |-> IF ok THEN Found(call) ELSE {}] ELSE @[c]]]
    /\ UNCHANGED tables

Calls == UNION {{"CASE", "SCOPE", "ATTEMPTS", "ASSIGNMENT", "VISIT",
                 "CASE_HISTORY", "ASSIGNMENT_STATUS"}, SharedSources, Attentions}

Next ==
    \/ OpenCase \/ RaiseAttention \/ ResolveAttention
    \/ \E c \in Contractors : CommitAttempt(c)
    \/ \E i \in 1 .. MaxAttempts :
          \/ \E status \in {"ACCEPTED", "BREACHED", "WITHDRAWN"} : SettleAttempt(i, status)
          \/ ConfirmVisit(i) \/ MarkProofReady(i)
    \/ \E n \in 0 .. MaxAttempts : ReserveEffect(n)
    \/ \E actor \in Actors, kind \in {"list", "detail", "timeline"} \cup OneSourceKinds :
          StartRead(actor, kind)
    \/ \E call \in NextCalls, ok \in BOOLEAN : Call(call, ok)

Spec == Init /\ [][Next]_vars

-----------------------------------------------------------------------------
(* Properties *)

TypeOK ==
    /\ opened \in BOOLEAN /\ attention \in {"none", "open", "resolved"}
    /\ \A i \in DOMAIN attempts :
          attempts[i].contractor \in Contractors
          /\ attempts[i].status \in Live \cup {"BREACHED", "WITHDRAWN"}
    /\ Cardinality(LiveAttempts) <= 1
    /\ proofs \subseteq DOMAIN attempts /\ effects \subseteq 0 .. Len(attempts)
    /\ \A i \in DOMAIN visits : visits[i].attempt \in DOMAIN attempts
    /\ read # NoRead => DOMAIN read.got \subseteq Calls

Key(event) == [source |-> event.source, n |-> event.n]

\* What its reader may see in any case: the Officer everything, a Contractor the
\* rows of his own, the Resident what has no part in the allocation.
Due(event) ==
    CASE read.actor \in Officers -> TRUE
      [] read.actor \in Contractors ->
            event.source \in OwnSources /\ event.contractor = read.actor
      [] OTHER -> event.source \in {"CASE_HISTORY", "APPOINTMENT", "PROOF_ITEM"}

SaysWhatItMisses(sources) ==
    (Answered /\ read.kind = "timeline" /\ Refusal = 0) =>
        \A event \in read.before :
            (event.source \in sources /\ Due(event)) =>
                \/ \E item \in Items : Key(item) = Key(event)
                \/ event.source \in Missing

\* A timeline that leaves out what was there before it was asked for, and what its
\* reader may see, names the source as missing (missingSources), whatever is
\* written and whichever atoms fail while the Gateway collects it.
TimelineSaysWhatItMisses == SaysWhatItMisses(Sources \ {"OFFICER_ATTENTION"})

\* "rather than silently showing half of it" (fetchOfficerAttentionSource): the
\* same of Officer Attention, which the timeline asks for in two calls.
NoAttentionIsLost == SaysWhatItMisses({"OFFICER_ATTENTION"})

\* A Contractor who at no moment of the read held the live offer is shown nothing
\* of what followed: no row of another, no live Attempt, no address.
FormerContractorSeesHisPart ==
    (Answered /\ Refusal = 0 /\ read.actor \in Contractors \ read.held) =>
        /\ \A item \in Items : item.contractor = read.actor
        /\ Envelope = {} /\ ~ShowsTheCase

\* "404ing it would tell a legitimately-assigned Contractor their own Case does not
\* exist" (GET /api/cases/:caseId): neither an outage nor what happens meanwhile
\* makes a Case unknown to those who took part in it.
OutageNeverDenies ==
    LET taken == {e \in read.before : e.source = "ALLOCATION_ATTEMPT"}
        involved == \/ read.actor \in Officers \cup {Owner} /\ read.before # {}
                    \/ \E e \in taken : e.contractor = read.actor
    IN (Answered /\ involved /\ read.kind \in {"list", "detail", "timeline"}) =>
            /\ Refusal # 404
            /\ (read.kind = "list" /\ Refusal = 0) => ListsTheCase
=============================================================================
