----------------------------- MODULE ReadProofs -----------------------------
(***************************************************************************)
(* What the Gateway's reads of CaseReads promise for every number of       *)
(* Accounts, Attempts, visits and writes, whichever atoms fail and in      *)
(* whatever order they are asked: a timeline names what it misses, a       *)
(* Contractor who lost the Case sees his own part of it, and no outage     *)
(* denies a Case to those who took part in it.                             *)
(***************************************************************************)
EXTENDS CaseReads, TLAPS

-----------------------------------------------------------------------------
(* The tables only grow *)

AttemptRow == [contractor : Contractors, status : Live \cup {"BREACHED", "WITHDRAWN"}]
VisitRow == [attempt : Nat, contractor : Contractors]

Tables ==
    /\ opened \in BOOLEAN
    /\ attempts \in Seq(AttemptRow) /\ visits \in Seq(VisitRow)
    /\ proofs \subseteq DOMAIN attempts /\ effects \subseteq 0 .. Len(attempts)
    /\ ~opened => /\ attempts = <<>> /\ visits = <<>>
                  /\ effects = {} /\ attention = "none"

\* What a read has found stays true: rows are added, they keep their Contractor, and
\* an Attempt that was settled is not pending again.
Grows ==
    /\ opened => opened'
    /\ \A i \in DOMAIN attempts :
          /\ i \in DOMAIN attempts' /\ attempts'[i].contractor = attempts[i].contractor
          /\ attempts[i].status # "PENDING_ACCEPTANCE" =>
                attempts'[i].status # "PENDING_ACCEPTANCE"
    /\ \A i \in DOMAIN visits :
          i \in DOMAIN visits' /\ visits'[i].contractor = visits[i].contractor
    /\ proofs \subseteq proofs' /\ effects \subseteq effects'

\* A step of an atom.
Write ==
    \/ OpenCase \/ RaiseAttention \/ ResolveAttention
    \/ \E c \in Contractors : CommitAttempt(c)
    \/ \E i \in 1 .. MaxAttempts :
          \/ \E status \in {"ACCEPTED", "BREACHED", "WITHDRAWN"} : SettleAttempt(i, status)
          \/ ConfirmVisit(i) \/ MarkProofReady(i)
    \/ \E n \in 0 .. MaxAttempts : ReserveEffect(n)

\* Every write keeps the rows.
LEMMA WriteStep == Tables /\ Write => Tables' /\ Grows /\ Meanwhile
<1> SUFFICES ASSUME Tables, Write
             PROVE  Tables' /\ Grows /\ Meanwhile
  OBVIOUS
<1>a. /\ attempts \in Seq(AttemptRow) /\ visits \in Seq(VisitRow)
      /\ Len(attempts) \in Nat /\ Len(visits) \in Nat
      /\ DOMAIN attempts = 1 .. Len(attempts) /\ DOMAIN visits = 1 .. Len(visits)
      /\ \A i \in DOMAIN attempts : attempts[i] \in AttemptRow
      /\ \A i \in DOMAIN visits : visits[i] \in VisitRow
  BY DEF Tables
<1>1. ASSUME OpenCase \/ RaiseAttention \/ ResolveAttention
      PROVE  Tables' /\ Grows /\ Meanwhile
  BY <1>1 DEF OpenCase, RaiseAttention, ResolveAttention, Tables, Grows
<1>2. ASSUME NEW c \in Contractors, CommitAttempt(c)
      PROVE  Tables' /\ Grows /\ Meanwhile
  <2> DEFINE row == [contractor |-> c, status |-> "PENDING_ACCEPTANCE"]
  <2>1. row \in AttemptRow
    BY DEF AttemptRow, Live
  <2>2. /\ opened /\ attempts' = Append(attempts, row) /\ Meanwhile
        /\ UNCHANGED <<opened, visits, proofs, effects, attention>>
    BY <1>2 DEF CommitAttempt
  <2> HIDE DEF row
  <2>3. /\ attempts' \in Seq(AttemptRow) /\ Len(attempts') = Len(attempts) + 1
        /\ \A i \in 1 .. Len(attempts) : attempts'[i] = attempts[i]
    BY <1>a, <2>1, <2>2
  <2>4. DOMAIN attempts' = 1 .. Len(attempts')
    BY <2>3
  <2>5. DOMAIN attempts \subseteq DOMAIN attempts' /\ 0 .. Len(attempts) \subseteq 0 .. Len(attempts')
    BY <1>a, <2>3, <2>4
  <2> QED BY <1>a, <2>2, <2>3, <2>5 DEF Tables, Grows
<1>3. ASSUME NEW i \in 1 .. MaxAttempts, NEW status \in {"ACCEPTED", "BREACHED", "WITHDRAWN"},
             SettleAttempt(i, status)
      PROVE  Tables' /\ Grows /\ Meanwhile
  <2> DEFINE row == [attempts[i] EXCEPT !.status = status]
  <2>1. /\ i \in DOMAIN attempts /\ attempts' = [attempts EXCEPT ![i] = row] /\ Meanwhile
        /\ UNCHANGED <<opened, visits, proofs, effects, attention>>
    BY <1>3 DEF SettleAttempt, LiveAttempts
  <2>2. /\ row \in AttemptRow /\ row.status = status
        /\ row.contractor = attempts[i].contractor
    BY <1>a, <2>1 DEF AttemptRow, Live
  <2> HIDE DEF row
  <2>3. /\ attempts' \in Seq(AttemptRow) /\ Len(attempts') = Len(attempts)
        /\ DOMAIN attempts' = DOMAIN attempts
        /\ \A j \in DOMAIN attempts : attempts'[j] = IF j = i THEN row ELSE attempts[j]
    BY <1>a, <2>1, <2>2
  <2>4. attempts # <<>>
    BY <1>a, <2>1
  <2> QED BY <1>a, <2>1, <2>2, <2>3, <2>4 DEF Tables, Grows
<1>4. ASSUME NEW i \in 1 .. MaxAttempts, ConfirmVisit(i)
      PROVE  Tables' /\ Grows /\ Meanwhile
  <2> DEFINE row == [attempt |-> i, contractor |-> attempts[i].contractor]
  <2>1. /\ i \in DOMAIN attempts /\ visits' = Append(visits, row) /\ Meanwhile
        /\ UNCHANGED <<opened, attempts, proofs, effects, attention>>
    BY <1>4 DEF ConfirmVisit, LiveAttempts
  <2>2. row \in VisitRow
    BY <1>a, <2>1 DEF VisitRow, AttemptRow
  <2> HIDE DEF row
  <2>3. /\ visits' \in Seq(VisitRow) /\ Len(visits') = Len(visits) + 1
        /\ \A j \in 1 .. Len(visits) : visits'[j] = visits[j]
    BY <1>a, <2>1, <2>2
  <2>4. DOMAIN visits \subseteq DOMAIN visits'
    BY <1>a, <2>3
  <2> QED BY <1>a, <2>1, <2>3, <2>4 DEF Tables, Grows
<1>5. ASSUME NEW i \in 1 .. MaxAttempts, MarkProofReady(i)
      PROVE  Tables' /\ Grows /\ Meanwhile
  BY <1>5 DEF MarkProofReady, LiveAttempts, Tables, Grows
<1>6. ASSUME NEW n \in 0 .. MaxAttempts, ReserveEffect(n)
      PROVE  Tables' /\ Grows /\ Meanwhile
  <2>1. n \in 0 .. Len(attempts)
    BY <1>6, <1>a DEF ReserveEffect
  <2> QED BY <1>6, <2>1 DEF ReserveEffect, Tables, Grows
<1> QED BY <1>1, <1>2, <1>3, <1>4, <1>5, <1>6 DEF Write

-----------------------------------------------------------------------------
(* The inductive invariant *)

\* An event of the read's beginning is still on its table.
Stands(e) ==
    CASE e.source = "CASE_HISTORY" -> opened /\ e.n = 1 /\ e.contractor = Nobody
      [] e.source = "ALLOCATION_ATTEMPT" ->
            e.n \in DOMAIN attempts /\ e.contractor = attempts[e.n].contractor
      [] e.source = "ASSIGNMENT_STATUS" ->
            /\ e.n \in DOMAIN attempts /\ e.contractor = Nobody
            /\ attempts[e.n].status # "PENDING_ACCEPTANCE"
      [] e.source = "APPOINTMENT" ->
            e.n \in DOMAIN visits /\ e.contractor = visits[e.n].contractor
      [] e.source = "PROOF_ITEM" ->
            e.n \in proofs /\ e.contractor = attempts[e.n].contractor
      [] e.source = "DERIVED_EFFECT" ->
            /\ e.n \in effects
            /\ e.contractor = IF e.n = 0 THEN Nobody ELSE attempts[e.n].contractor
      [] OTHER -> TRUE

OneCallSources == Sources \ {"ALLOCATION_ATTEMPT", "OFFICER_ATTENTION"}

\* What a call that answered has found, by what was there before the read and by
\* who held the live offer during it.
FindsTheCase ==
    Got("CASE") /\ read.before # {} => Rows("CASE") = {Owner}
FindsTheScope ==
    Got("SCOPE") =>
        /\ \A e \in read.before :
              (e.source = "ALLOCATION_ATTEMPT" /\ e.contractor = read.actor)
              => Rows("SCOPE") # {}
        /\ "CURRENT" \in Rows("SCOPE") => read.actor \in read.held
FindsTheAttempts ==
    Got("ATTEMPTS") =>
        /\ \A e \in read.before :
              e.source = "ALLOCATION_ATTEMPT" =>
                  \E a \in Rows("ATTEMPTS") : a.n = e.n /\ a.contractor = e.contractor
        /\ \A a \in Rows("ATTEMPTS") : a.status \in Live => a.contractor \in read.held
        /\ Rows("ATTEMPTS") # {} =>
              \E a \in Rows("ATTEMPTS") : \A b \in Rows("ATTEMPTS") : b.n <= a.n
FindsTheRows ==
    \A source \in OneCallSources :
        Got(source) =>
            \A e \in read.before :
                e.source = source =>
                    \E type : Event(source, type, e.n, e.contractor) \in Rows(source)

IsRead ==
    /\ read = [kind |-> read.kind, actor |-> read.actor, got |-> read.got,
               before |-> read.before, held |-> read.held, writes |-> read.writes]
    /\ read.actor \in Actors /\ read.kind \in Kinds(RoleOf(read.actor))

\* Every call is one of the read's phases.
CallsArePlanned ==
    \A call \in DOMAIN read.got : \E i \in DOMAIN Phase : call \in Phase[i]

ReadInv ==
    \/ read = NoRead
    \/ /\ IsRead /\ CallsArePlanned
       /\ \A e \in read.before : e.source \in Sources /\ Stands(e)
       /\ read.before # {} => opened
       /\ Holders \subseteq read.held
       /\ FindsTheCase /\ FindsTheScope /\ FindsTheAttempts /\ FindsTheRows

Inv == Tables /\ ReadInv

LEMMA InitInv == Init => Inv
<1> SUFFICES ASSUME Init
             PROVE  Inv
  OBVIOUS
<1>1. /\ attempts = <<>> /\ visits = <<>> /\ proofs = {} /\ effects = {} /\ read = NoRead
      /\ opened = FALSE /\ attention = "none"
  BY DEF Init
<1>2. attempts \in Seq(AttemptRow) /\ visits \in Seq(VisitRow)
  BY <1>1
<1> QED BY <1>1, <1>2 DEF Inv, Tables, ReadInv

\* A read is no NoRead.
LEMMA ReadIsRead == IsRead => read # NoRead
<1> SUFFICES ASSUME IsRead, read = NoRead
             PROVE  FALSE
  OBVIOUS
<1>1. read.kind = "none"
  BY DEF NoRead
<1> QED BY <1>1 DEF IsRead, Kinds

\* What stood before a write stands after it.
LEMMA StandsStay ==
    ASSUME Tables, Tables', Grows, NEW e, e.source \in Sources, Stands(e)
    PROVE  Stands(e)'
<1>a. /\ \A i \in DOMAIN attempts :
            /\ i \in DOMAIN attempts' /\ attempts'[i].contractor = attempts[i].contractor
            /\ attempts[i].status # "PENDING_ACCEPTANCE" =>
                  attempts'[i].status # "PENDING_ACCEPTANCE"
      /\ \A i \in DOMAIN visits :
            i \in DOMAIN visits' /\ visits'[i].contractor = visits[i].contractor
      /\ proofs \subseteq proofs' /\ effects \subseteq effects' /\ (opened => opened')
      /\ proofs \subseteq DOMAIN attempts /\ effects \subseteq 0 .. Len(attempts)
      /\ DOMAIN attempts = 1 .. Len(attempts) /\ Len(attempts) \in Nat
  BY DEF Tables, Grows
<1>1. CASE e.source = "CASE_HISTORY"
  BY <1>a, <1>1 DEF Stands
<1>2. CASE e.source = "ALLOCATION_ATTEMPT"
  BY <1>a, <1>2 DEF Stands
<1>3. CASE e.source = "ASSIGNMENT_STATUS"
  BY <1>a, <1>3 DEF Stands
<1>4. CASE e.source = "APPOINTMENT"
  BY <1>a, <1>4 DEF Stands
<1>5. CASE e.source = "PROOF_ITEM"
  BY <1>a, <1>5 DEF Stands
<1>6. CASE e.source = "DERIVED_EFFECT"
  <2>1. /\ e.n \in effects /\ e.n \in 0 .. Len(attempts)
        /\ e.contractor = IF e.n = 0 THEN Nobody ELSE attempts[e.n].contractor
    BY <1>a, <1>6 DEF Stands
  <2>2. e.n # 0 => e.n \in DOMAIN attempts
    BY <1>a, <2>1
  <2> QED BY <1>a, <1>6, <2>1, <2>2 DEF Stands
<1>7. CASE e.source = "OFFICER_ATTENTION"
  BY <1>7 DEF Stands
<1> QED BY <1>1, <1>2, <1>3, <1>4, <1>5, <1>6, <1>7 DEF Sources

\* What the atoms do meanwhile takes nothing away from a read.
LEMMA MeanwhileStep == Inv /\ Write => ReadInv'
<1> SUFFICES ASSUME Inv, Write
             PROVE  ReadInv'
  OBVIOUS
<1>1. Tables /\ Tables' /\ Grows /\ Meanwhile
  BY WriteStep DEF Inv
<1>2. CASE read = NoRead
  BY <1>1, <1>2 DEF Meanwhile, ReadInv
<1>3. CASE read # NoRead
  <2>1. IsRead /\ read' = [read EXCEPT !.writes = @ + 1, !.held = @ \cup Holders']
    BY <1>1, <1>3 DEF Meanwhile, Inv, ReadInv
  <2>2. /\ read'.kind = read.kind /\ read'.actor = read.actor /\ read'.got = read.got
        /\ read'.before = read.before /\ read'.held = read.held \cup Holders'
        /\ IsRead'
    BY <2>1 DEF IsRead
  <2>3. \A e \in read'.before : e.source \in Sources /\ Stands(e)'
    BY <1>1, <1>3, <2>2, StandsStay DEF Inv, ReadInv
  <2>4. (read'.before # {} => opened') /\ Holders' \subseteq read'.held
    BY <1>1, <1>3, <2>2 DEF Inv, ReadInv, Grows
  <2>5. CallsArePlanned'
    BY <1>3, <2>2 DEF Inv, ReadInv, CallsArePlanned, Phase
  <2>6. FindsTheCase' /\ FindsTheScope' /\ FindsTheAttempts' /\ FindsTheRows'
    <3>1. \A call : (Got(call)' <=> Got(call)) /\ Rows(call)' = Rows(call)
      BY <2>2 DEF Got, Rows
    <3>2. FindsTheCase /\ FindsTheScope /\ FindsTheAttempts /\ FindsTheRows
      BY <1>3 DEF Inv, ReadInv
    <3>3. FindsTheCase' /\ FindsTheScope'
      BY <2>2, <3>1, <3>2 DEF FindsTheCase, FindsTheScope
    <3>4. FindsTheAttempts'
      BY <2>2, <3>1, <3>2 DEF FindsTheAttempts
    <3>5. FindsTheRows'
      BY <2>2, <3>1, <3>2 DEF FindsTheRows
    <3> QED BY <3>3, <3>4, <3>5
  <2> QED BY <2>2, <2>3, <2>4, <2>5, <2>6 DEF ReadInv
<1> QED BY <1>2, <1>3

-----------------------------------------------------------------------------
(* A read begins and calls *)

\* What is on the tables is what a read takes down at its beginning.
LEMMA AllStand == Tables => \A e \in AllEvents : e.source \in Sources /\ Stands(e)
<1> SUFFICES ASSUME Tables, NEW e \in AllEvents
             PROVE  e.source \in Sources /\ Stands(e)
  OBVIOUS
<1>a. /\ proofs \subseteq DOMAIN attempts /\ effects \subseteq 0 .. Len(attempts)
      /\ \A source, type, n, contractor :
            LET x == Event(source, type, n, contractor)
            IN x.source = source /\ x.n = n /\ x.contractor = contractor
  BY DEF Tables, Event
<1>1. CASE e \in CaseHistory
  <2>1. opened /\ e = Event("CASE_HISTORY", "CASE_OPENED", 1, Nobody)
    BY <1>1 DEF CaseHistory
  <2> QED BY <1>a, <2>1 DEF Stands, Sources
<1>2. CASE e \in AttemptEvents(AttemptRows)
  <2>1. PICK i \in DOMAIN attempts :
            e = Event("ALLOCATION_ATTEMPT", attempts[i].status, i, attempts[i].contractor)
    BY <1>2 DEF AttemptEvents, AttemptRows
  <2> QED BY <1>a, <2>1 DEF Stands, Sources
<1>3. CASE e \in AssignmentStatus
  <2>1. PICK i \in DOMAIN attempts :
            /\ attempts[i].status # "PENDING_ACCEPTANCE"
            /\ e = Event("ASSIGNMENT_STATUS", "", i, Nobody)
    BY <1>3 DEF AssignmentStatus
  <2>2. e.source = "ASSIGNMENT_STATUS" /\ e.n = i /\ e.contractor = Nobody
    BY <2>1 DEF Event
  <2> QED BY <1>a, <2>1, <2>2 DEF Stands, Sources
<1>4. CASE e \in Appointments
  <2>1. PICK i \in DOMAIN visits : e = Event("APPOINTMENT", "", i, visits[i].contractor)
    BY <1>4 DEF Appointments
  <2>2. e.source = "APPOINTMENT" /\ e.n = i /\ e.contractor = visits[i].contractor
    BY <2>1 DEF Event
  <2> QED BY <1>a, <2>1, <2>2 DEF Stands, Sources
<1>5. CASE e \in ProofItems
  <2>1. PICK i \in proofs : e = Event("PROOF_ITEM", "", i, attempts[i].contractor)
    BY <1>5 DEF ProofItems
  <2>2. e.source = "PROOF_ITEM" /\ e.n = i /\ e.contractor = attempts[i].contractor
    BY <2>1 DEF Event
  <2> QED BY <1>a, <2>1, <2>2 DEF Stands, Sources
<1>6. CASE e \in DerivedEffects
  <2>1. PICK n \in effects :
            e = IF n = 0 THEN Event("DERIVED_EFFECT", "EMAIL", n, Nobody)
                ELSE Event("DERIVED_EFFECT", "PERFORMANCE_ENTRY", n, attempts[n].contractor)
    BY <1>6 DEF DerivedEffects
  <2>2. /\ e.source = "DERIVED_EFFECT" /\ e.n = n
        /\ e.contractor = IF n = 0 THEN Nobody ELSE attempts[n].contractor
    BY <1>a, <2>1
  <2> QED BY <2>1, <2>2 DEF Stands, Sources
<1>7. CASE e \in OfficerAttention("open") \cup OfficerAttention("resolved")
  <2>1. e = Event("OFFICER_ATTENTION", "", 1, Nobody)
    BY <1>7 DEF OfficerAttention
  <2>2. e.source = "OFFICER_ATTENTION" /\ e.n = 1 /\ e.contractor = Nobody
    BY <2>1 DEF Event
  <2> QED BY <1>a, <2>1, <2>2 DEF Stands, Sources
<1> QED BY <1>1, <1>2, <1>3, <1>4, <1>5, <1>6, <1>7 DEF AllEvents

\* A Case that is not open has left no trace.
LEMMA NothingBeforeOpening == Tables /\ ~opened => AllEvents = {}
<1> SUFFICES ASSUME Tables, ~opened
             PROVE  AllEvents = {}
  OBVIOUS
<1>1. /\ attempts = <<>> /\ visits = <<>> /\ effects = {} /\ attention = "none"
      /\ proofs \subseteq DOMAIN attempts
  BY DEF Tables
<1>2. DOMAIN attempts = {} /\ DOMAIN visits = {} /\ proofs = {}
  BY <1>1
<1>3. CaseHistory = {} /\ OfficerAttention("open") = {} /\ OfficerAttention("resolved") = {}
  BY <1>1 DEF CaseHistory, OfficerAttention
<1>4. AttemptEvents(AttemptRows) = {} /\ AssignmentStatus = {}
  BY <1>2 DEF AttemptEvents, AttemptRows, AssignmentStatus
<1>5. Appointments = {} /\ ProofItems = {} /\ DerivedEffects = {}
  BY <1>1, <1>2 DEF Appointments, ProofItems, DerivedEffects
<1> QED BY <1>3, <1>4, <1>5 DEF AllEvents

\* A read begins with what is on the tables and who holds the live offer.
LEMMA StartStep ==
    ASSUME Inv, NEW actor \in Actors, NEW kind, StartRead(actor, kind)
    PROVE  Inv'
<1>1. /\ kind \in Kinds(RoleOf(actor)) /\ UNCHANGED tables
      /\ read' = [kind |-> kind, actor |-> actor, got |-> <<>>,
                  before |-> AllEvents, held |-> Holders, writes |-> 0]
  BY DEF StartRead
<1>2. /\ read'.kind = kind /\ read'.actor = actor /\ read'.got = <<>>
      /\ read'.before = AllEvents /\ read'.held = Holders /\ IsRead'
  BY <1>1 DEF IsRead
<1>3. Tables' /\ Holders' = Holders /\ opened' = opened
  BY <1>1 DEF Inv, Tables, tables, Holders, LiveAttempts
<1>4. \A e \in read'.before : e.source \in Sources /\ Stands(e)'
  <2>1. \A e : Stands(e)' <=> Stands(e)
    BY <1>1 DEF Stands, tables
  <2> QED BY <1>2, <2>1, AllStand DEF Inv
<1>5. read'.before # {} => opened'
  BY <1>2, <1>3, NothingBeforeOpening DEF Inv
<1>6. CallsArePlanned' /\ \A call : ~Got(call)'
  BY <1>2 DEF CallsArePlanned, Got
<1>7. FindsTheCase' /\ FindsTheScope' /\ FindsTheAttempts' /\ FindsTheRows'
  BY <1>6 DEF FindsTheCase, FindsTheScope, FindsTheAttempts, FindsTheRows
<1> QED BY <1>2, <1>3, <1>4, <1>5, <1>6, <1>7 DEF Inv, ReadInv

\* What a call finds, by what the read saw at its beginning.
LEMMA CallFinds ==
    ASSUME Inv, IsRead, read # NoRead
    PROVE  /\ read.before # {} => Found("CASE") = {Owner}
           /\ \A e \in read.before :
                 (e.source = "ALLOCATION_ATTEMPT" /\ e.contractor = read.actor)
                 => Found("SCOPE") # {}
           /\ "CURRENT" \in Found("SCOPE") => read.actor \in read.held
           /\ \A e \in read.before :
                 e.source = "ALLOCATION_ATTEMPT" =>
                     \E a \in Found("ATTEMPTS") : a.n = e.n /\ a.contractor = e.contractor
           /\ \A a \in Found("ATTEMPTS") : a.status \in Live => a.contractor \in read.held
           /\ Found("ATTEMPTS") # {} =>
                 \E a \in Found("ATTEMPTS") : \A b \in Found("ATTEMPTS") : b.n <= a.n
           /\ \A source \in OneCallSources, e \in read.before :
                 e.source = source =>
                     \E type : Event(source, type, e.n, e.contractor) \in Found(source)
<1>a. /\ Tables /\ Holders \subseteq read.held /\ (read.before # {} => opened)
      /\ \A e \in read.before : e.source \in Sources /\ Stands(e)
      /\ Len(attempts) \in Nat /\ DOMAIN attempts = 1 .. Len(attempts)
      /\ attempts \in Seq(AttemptRow)
  BY DEF Inv, ReadInv, Tables
<1>b. \A i \in DOMAIN attempts :
         attempts[i].status \in Live => attempts[i].contractor \in read.held
  BY <1>a DEF Holders, LiveAttempts
<1>1. read.before # {} => Found("CASE") = {Owner}
  BY <1>a DEF Found, CaseRows
<1>2. ASSUME NEW e \in read.before, e.source = "ALLOCATION_ATTEMPT", e.contractor = read.actor
      PROVE  Found("SCOPE") # {}
  <2>1. e.n \in DOMAIN attempts /\ attempts[e.n].contractor = read.actor
    BY <1>a, <1>2 DEF Stands
  <2> QED BY <2>1 DEF Found, Scope
<1>3. ASSUME "CURRENT" \in Found("SCOPE")
      PROVE  read.actor \in read.held
  <2>1. "CURRENT" \in Scope(read.actor)
    BY <1>3 DEF Found
  <2>2. /\ DOMAIN attempts # {}
        /\ attempts[Len(attempts)].contractor = read.actor
        /\ attempts[Len(attempts)].status \in Live
    BY <2>1 DEF Scope
  <2>3. Len(attempts) \in DOMAIN attempts
    BY <1>a, <2>2
  <2> QED BY <1>b, <2>2, <2>3
<1>c. Found("ATTEMPTS") = AttemptRows
  BY DEF Found
<1>4. ASSUME NEW e \in read.before, e.source = "ALLOCATION_ATTEMPT"
      PROVE  \E a \in Found("ATTEMPTS") : a.n = e.n /\ a.contractor = e.contractor
  <2>1. e.n \in DOMAIN attempts /\ attempts[e.n].contractor = e.contractor
    BY <1>a, <1>4 DEF Stands
  <2> DEFINE a == [n |-> e.n, contractor |-> attempts[e.n].contractor,
                   status |-> attempts[e.n].status]
  <2>2. a \in AttemptRows /\ a.n = e.n /\ a.contractor = e.contractor
    BY <2>1 DEF AttemptRows
  <2> QED BY <1>c, <2>2
<1>5. ASSUME NEW a \in Found("ATTEMPTS"), a.status \in Live
      PROVE  a.contractor \in read.held
  BY <1>b, <1>c, <1>5 DEF AttemptRows
<1>6. ASSUME Found("ATTEMPTS") # {}
      PROVE  \E a \in Found("ATTEMPTS") : \A b \in Found("ATTEMPTS") : b.n <= a.n
  <2> DEFINE last == Len(attempts)
             a == [n |-> last, contractor |-> attempts[last].contractor,
                   status |-> attempts[last].status]
  <2>1. \A b \in AttemptRows : b.n \in DOMAIN attempts
    BY DEF AttemptRows
  <2>2. last \in DOMAIN attempts /\ \A i \in DOMAIN attempts : i <= last
    BY <1>a, <1>c, <1>6, <2>1
  <2>3. a \in AttemptRows /\ a.n = last
    BY <2>2 DEF AttemptRows
  <2> HIDE DEF a, last
  <2> QED BY <1>c, <2>1, <2>2, <2>3
<1>7. ASSUME NEW source \in OneCallSources, NEW e \in read.before, e.source = source
      PROVE  \E type : Event(source, type, e.n, e.contractor) \in Found(source)
  <2>1. Stands(e)
    BY <1>a
  <2>2. CASE source = "CASE_HISTORY"
    <3>1. Event(source, "CASE_OPENED", e.n, e.contractor) \in Found(source)
      BY <1>7, <2>1, <2>2 DEF Stands, Found, CaseHistory
    <3> QED BY <3>1
  <2>3. CASE source = "ASSIGNMENT_STATUS"
    <3>1. Event(source, "", e.n, e.contractor) \in Found(source)
      BY <1>7, <2>1, <2>3 DEF Stands, Found, AssignmentStatus
    <3> QED BY <3>1
  <2>4. CASE source = "APPOINTMENT"
    <3>1. Event(source, "", e.n, e.contractor) \in Found(source)
      BY <1>7, <2>1, <2>4 DEF Stands, Found, Appointments
    <3> QED BY <3>1
  <2>5. CASE source = "PROOF_ITEM"
    <3>1. Event(source, "", e.n, e.contractor) \in Found(source)
      BY <1>7, <2>1, <2>5 DEF Stands, Found, ProofItems
    <3> QED BY <3>1
  <2>6. CASE source = "DERIVED_EFFECT"
    <3>1. /\ e.n \in effects
          /\ e.contractor = IF e.n = 0 THEN Nobody ELSE attempts[e.n].contractor
      BY <1>7, <2>1, <2>6 DEF Stands
    <3>2. Event(source, IF e.n = 0 THEN "EMAIL" ELSE "PERFORMANCE_ENTRY", e.n, e.contractor)
          \in DerivedEffects
      <4>1. CASE e.n = 0
        BY <2>6, <3>1, <4>1 DEF DerivedEffects
      <4>2. CASE e.n # 0
        BY <2>6, <3>1, <4>2 DEF DerivedEffects
      <4> QED BY <4>1, <4>2
    <3>3. Found(source) = DerivedEffects
      BY <2>6 DEF Found
    <3> QED BY <3>2, <3>3
  <2> QED BY <2>2, <2>3, <2>4, <2>5, <2>6 DEF OneCallSources, Sources
<1> QED BY <1>1, <1>2, <1>3, <1>4, <1>5, <1>6, <1>7

\* A call adds what it found to what the read has.
LEMMA CallStep ==
    ASSUME Inv, NEW call \in NextCalls, NEW ok \in BOOLEAN, Call(call, ok)
    PROVE  Inv'
<1>1. /\ read # NoRead /\ UNCHANGED tables
      /\ \E i \in DOMAIN Phase : call \in Phase[i]
  BY DEF NextCalls, Waiting, Call
<1>2. IsRead /\ CallsArePlanned
  BY <1>1 DEF Inv, ReadInv
<1> DEFINE got == [c \in DOMAIN read.got \cup {call} |->
                     IF c = call THEN [ok |-> ok, rows |-> IF ok THEN Found(call) ELSE {}]
                     ELSE read.got[c]]
<1>3. read' = [read EXCEPT !.got = got]
  BY DEF Call
<1>4. /\ DOMAIN got = DOMAIN read.got \cup {call}
      /\ got[call].ok = ok /\ (ok => got[call].rows = Found(call))
      /\ \A c \in DOMAIN read.got \ {call} : got[c] = read.got[c]
  OBVIOUS
<1> HIDE DEF got
<1>5. /\ read'.kind = read.kind /\ read'.actor = read.actor /\ read'.got = got
      /\ read'.before = read.before /\ read'.held = read.held /\ IsRead'
  BY <1>2, <1>3 DEF IsRead
<1>6. Tables' /\ Holders' = Holders /\ opened' = opened
  BY <1>1 DEF Inv, Tables, tables, Holders, LiveAttempts
<1>7. \A e \in read'.before : e.source \in Sources /\ Stands(e)'
  <2>1. \A e : Stands(e)' <=> Stands(e)
    BY <1>1 DEF Stands, tables
  <2> QED BY <1>1, <1>5, <2>1 DEF Inv, ReadInv
<1>8. (read'.before # {} => opened') /\ Holders' \subseteq read'.held
  BY <1>1, <1>5, <1>6 DEF Inv, ReadInv
<1>9. CallsArePlanned'
  BY <1>1, <1>2, <1>4, <1>5 DEF CallsArePlanned, Phase
<1>10. \A c : Got(c)' => \/ Got(c) /\ Rows(c)' = Rows(c)
                         \/ c = call /\ Rows(c)' = Found(c)
  BY <1>4, <1>5 DEF Got, Rows
<1>11. FindsTheCase /\ FindsTheScope /\ FindsTheAttempts /\ FindsTheRows
  BY <1>1 DEF Inv, ReadInv
<1>12. FindsTheCase' /\ FindsTheScope'
  BY <1>1, <1>2, <1>5, <1>10, <1>11, CallFinds DEF FindsTheCase, FindsTheScope
<1>13. FindsTheAttempts'
  BY <1>1, <1>2, <1>5, <1>10, <1>11, CallFinds DEF FindsTheAttempts
<1>14. FindsTheRows'
  BY <1>1, <1>2, <1>5, <1>10, <1>11, CallFinds DEF FindsTheRows
<1> QED BY <1>5, <1>6, <1>7, <1>8, <1>9, <1>12, <1>13, <1>14 DEF Inv, ReadInv

\* Every state is one in which reads have found what was there for them.
THEOREM ReadInvariant == Spec => []Inv
<1>1. ASSUME Inv, [Next]_vars
      PROVE  Inv'
  <2>1. CASE Write
    BY <1>1, <2>1, WriteStep, MeanwhileStep DEF Inv
  <2>2. ASSUME NEW actor \in Actors, NEW kind, StartRead(actor, kind)
        PROVE  Inv'
    BY <1>1, <2>2, StartStep
  <2>3. ASSUME NEW call \in NextCalls, NEW ok \in BOOLEAN, Call(call, ok)
        PROVE  Inv'
    BY <1>1, <2>3, CallStep
  <2>4. CASE UNCHANGED vars
    <3>1. UNCHANGED tables /\ read' = read
      BY <2>4 DEF vars, tables
    <3>2. Tables' /\ opened' = opened /\ Holders' = Holders /\ \A e : Stands(e)' <=> Stands(e)
      BY <1>1, <3>1 DEF Inv, Tables, tables, Holders, LiveAttempts, Stands
    <3>3. \A c : (Got(c)' <=> Got(c)) /\ Rows(c)' = Rows(c)
      BY <3>1 DEF Got, Rows
    <3>4. CASE read = NoRead
      BY <3>1, <3>2, <3>4 DEF Inv, ReadInv
    <3>5. CASE read # NoRead
      <4>1. IsRead' /\ CallsArePlanned'
        BY <1>1, <3>1, <3>5 DEF Inv, ReadInv, IsRead, CallsArePlanned, Phase
      <4>2. FindsTheCase' /\ FindsTheScope' /\ FindsTheAttempts' /\ FindsTheRows'
        BY <1>1, <3>1, <3>3, <3>5
           DEF Inv, ReadInv, FindsTheCase, FindsTheScope, FindsTheAttempts, FindsTheRows
      <4> QED BY <1>1, <3>1, <3>2, <3>5, <4>1, <4>2 DEF Inv, ReadInv
    <3> QED BY <3>4, <3>5
  <2> QED BY <1>1, <2>1, <2>2, <2>3, <2>4 DEF Next, Write
<1> QED BY <1>1, InitInv, PTL DEF Spec

-----------------------------------------------------------------------------
(* What is answered *)

\* A list or a timeline that goes no further has made every call of its phases that it
\* does not skip.
LEMMA AllIsAsked ==
    ASSUME IsRead, read.kind \in {"list", "timeline"}, Answered, Refusal = 0
    PROVE  \A i \in DOMAIN Phase : \A call \in Phase[i] :
               call \in DOMAIN read.got \/ Skipped(call)
<1>1. \E n \in {1, 2, 3} : DOMAIN Phase = 1 .. n
  <2> DEFINE role == RoleOf(read.actor)
  <2>1. (\E n \in {1, 2} : DOMAIN ListPhases(role) = 1 .. n)
    BY DEF ListPhases
  <2>2. (\E n \in {1, 2, 3} : DOMAIN TimelinePhases(role) = 1 .. n)
    BY DEF TimelinePhases
  <2>3. Phase = ListPhases(role) \/ Phase = TimelinePhases(role)
    BY DEF Phase, Phases
  <2> QED BY <2>1, <2>2, <2>3
<1>2. \A i \in DOMAIN Phase : (\A k \in 1 .. i - 1 : Waiting(k) = {}) => Waiting(i) = {}
  <2>1. UNION {Waiting(i) : i \in {j \in DOMAIN Phase :
                  \A k \in 1 .. j - 1 : Waiting(k) = {}}} = {}
    BY ReadIsRead DEF Answered, NextCalls
  <2> QED BY <2>1
<1>3. 1 \in DOMAIN Phase /\ DOMAIN Phase \subseteq {1, 2, 3}
  BY <1>1
<1>4. Waiting(1) = {}
  BY <1>2, <1>3
<1>5. 2 \in DOMAIN Phase => Waiting(2) = {}
  BY <1>2, <1>4
<1>6. 3 \in DOMAIN Phase => Waiting(3) = {}
  <2>1. 3 \in DOMAIN Phase => 2 \in DOMAIN Phase
    BY <1>1
  <2> QED BY <1>2, <1>4, <1>5, <2>1
<1>7. \A i \in DOMAIN Phase : Waiting(i) = {}
  BY <1>3, <1>4, <1>5, <1>6
<1> QED BY <1>7 DEF Waiting

\* An Account has one role.
LEMMA OneRole ==
    /\ \A actor \in Residents : RoleOf(actor) = "RESIDENT" /\ actor \notin Contractors \cup Officers
    /\ \A actor \in Contractors :
          RoleOf(actor) = "CONTRACTOR" /\ actor \notin Residents \cup Officers
    /\ \A actor \in Officers : RoleOf(actor) = "OFFICER" /\ actor \notin Residents \cup Contractors
  BY ReadAssumption DEF RoleOf

\* Only a list of a Contractor's Cases asks for their scope, and it asks for it first.
LEMMA ScopeIsAsked ==
    ASSUME IsRead, CallsArePlanned
    PROVE  /\ "SCOPE" \in DOMAIN read.got =>
                  read.kind = "list" /\ RoleOf(read.actor) = "CONTRACTOR"
           /\ (/\ read.kind = "list" /\ RoleOf(read.actor) = "CONTRACTOR"
               /\ Answered /\ Refusal = 0) => Got("SCOPE")
<1> DEFINE role == RoleOf(read.actor)
<1>1. ASSUME "SCOPE" \in DOMAIN read.got
      PROVE  read.kind = "list" /\ RoleOf(read.actor) = "CONTRACTOR"
  <2>1. PICK i \in DOMAIN Phase : "SCOPE" \in Phase[i]
    BY <1>1 DEF CallsArePlanned
  <2>2. /\ Phase = DetailPhases(role) => FALSE
        /\ Phase = TimelinePhases(role) => FALSE
        /\ Phase = ProofListPhases => FALSE
        /\ Phase = <<{"DERIVED_EFFECT"}>> => FALSE
        /\ Phase = <<{"ATTENTION_OPEN"}>> => FALSE
        /\ Phase = ListPhases(role) => role = "CONTRACTOR"
    <3>1. Phase # DetailPhases(role)
      BY <2>1 DEF DetailPhases, SharedSources, Attentions
    <3>2. Phase # TimelinePhases(role)
      BY <2>1 DEF TimelinePhases, SharedSources, Attentions
    <3>3. Phase # ProofListPhases
      BY <2>1 DEF ProofListPhases
    <3>4. Phase # <<{"DERIVED_EFFECT"}>> /\ Phase # <<{"ATTENTION_OPEN"}>>
      BY <2>1
    <3>5. Phase = ListPhases(role) => role = "CONTRACTOR"
      BY <2>1 DEF ListPhases
    <3> QED BY <3>1, <3>2, <3>3, <3>4, <3>5
  <2>3. read.kind \in {"list", "detail", "timeline", "proofs", "effects", "attention"}
    BY DEF IsRead, Kinds
  <2> QED BY <2>2, <2>3 DEF Phase, Phases
<1>2. ASSUME read.kind = "list", role = "CONTRACTOR", Answered, Refusal = 0
      PROVE  Got("SCOPE")
  <2>1. Phase = <<{"SCOPE"}, {"CASE"}>>
    BY <1>2 DEF Phase, Phases, ListPhases
  <2>2. 1 \in DOMAIN Phase /\ "SCOPE" \in Phase[1]
    BY <2>1
  <2>3. ~Skipped("SCOPE")
    BY DEF Skipped
  <2>4. "SCOPE" \in DOMAIN read.got
    BY <1>2, <2>2, <2>3, AllIsAsked
  <2>5. ~Failed("SCOPE")
    BY <1>2 DEF Refusal
  <2> QED BY <2>4, <2>5 DEF Failed, Got
<1> QED BY <1>1, <1>2

\* Neither an outage nor what happens meanwhile makes a Case unknown to those who
\* took part in it: what authorises a read is found, or the read is refused as out
\* of service.
THEOREM OutagesDenyNobody == Spec => []OutageNeverDenies
<1>1. Inv => OutageNeverDenies
  <2> DEFINE taken == {e \in read.before : e.source = "ALLOCATION_ATTEMPT"}
             involved == \/ read.actor \in Officers \cup {Owner} /\ read.before # {}
                         \/ \E e \in taken : e.contractor = read.actor
  <2> SUFFICES ASSUME Inv, Answered, involved, read.kind \in {"list", "detail", "timeline"}
               PROVE  /\ Refusal # 404
                      /\ (read.kind = "list" /\ Refusal = 0) => ListsTheCase
    BY DEF OutageNeverDenies
  <2>1. /\ read # NoRead /\ IsRead /\ CallsArePlanned
        /\ \A e \in read.before : e.source \in Sources /\ Stands(e)
        /\ FindsTheCase /\ FindsTheScope /\ FindsTheAttempts
    BY DEF Inv, ReadInv, Answered
  <2>2. read.before # {}
    OBVIOUS
  <2>3. read.actor \in Officers \cup {Owner} \cup Contractors
    <3>1. ASSUME NEW e \in read.before, e.source = "ALLOCATION_ATTEMPT"
          PROVE  e.contractor \in Contractors
      <4>1. e.n \in DOMAIN attempts /\ e.contractor = attempts[e.n].contractor
        BY <2>1, <3>1 DEF Stands
      <4>2. attempts[e.n] \in AttemptRow
        BY <4>1 DEF Inv, Tables
      <4> QED BY <4>1, <4>2 DEF AttemptRow
    <3> QED BY <3>1
  <2>4. read.actor \notin Residents \ {Owner}
    BY <2>3, OneRole, ReadAssumption
  <2>5. (read.actor \in Contractors /\ Got("ATTEMPTS")) => EverHeld(Rows("ATTEMPTS"), read.actor)
    <3> SUFFICES ASSUME read.actor \in Contractors, Got("ATTEMPTS")
                 PROVE  EverHeld(Rows("ATTEMPTS"), read.actor)
      OBVIOUS
    <3>1. PICK e \in taken : e.contractor = read.actor
      BY OneRole, ReadAssumption
    <3> QED BY <2>1, <3>1 DEF FindsTheAttempts, EverHeld
  <2>6. ~IsDenied
    BY <2>1, <2>2, <2>4, <2>5 DEF IsDenied, FindsTheCase, HeldIsAsked
  <2>7. Refusal # 404
    BY <2>6 DEF Refusal
  <2>8. ASSUME read.kind = "list", Refusal = 0
        PROVE  ListsTheCase
    <3>1. ~Skipped("CASE")
      <4> SUFFICES ASSUME Got("SCOPE")
                   PROVE  Rows("SCOPE") # {}
        BY DEF Skipped
      <4>1. RoleOf(read.actor) = "CONTRACTOR"
        BY <2>1, ScopeIsAsked DEF Got
      <4>2. read.actor \in Contractors
        BY <2>3, <4>1, OneRole, ReadAssumption
      <4>3. PICK e \in taken : e.contractor = read.actor
        BY <4>2, OneRole, ReadAssumption
      <4> QED BY <2>1, <4>3 DEF FindsTheScope
    <3>2. \E i \in DOMAIN Phase : "CASE" \in Phase[i]
      <4>1. Phase = <<{"SCOPE"}, {"CASE"}>> \/ Phase = <<{"CASE"}>>
        BY <2>8 DEF Phase, Phases, ListPhases
      <4>2. CASE Phase = <<{"SCOPE"}, {"CASE"}>>
        <5>1. 2 \in DOMAIN Phase /\ "CASE" \in Phase[2]
          BY <4>2
        <5> QED BY <5>1
      <4>3. CASE Phase = <<{"CASE"}>>
        <5>1. 1 \in DOMAIN Phase /\ "CASE" \in Phase[1]
          BY <4>3
        <5> QED BY <5>1
      <4> QED BY <4>1, <4>2, <4>3
    <3>3. "CASE" \in DOMAIN read.got /\ ~Failed("CASE")
      BY <2>1, <2>8, <3>1, <3>2, AllIsAsked DEF Refusal
    <3>4. Got("CASE") /\ Rows("CASE") = {Owner}
      BY <2>1, <2>2, <3>3 DEF Failed, Got, FindsTheCase
    <3> QED BY <2>4, <3>4 DEF ListsTheCase
  <2> QED BY <2>7, <2>8
<1> QED BY <1>1, ReadInvariant, PTL

\* A Contractor is current only if he held the live offer during the read.
LEMMA CurrentIsHeld ==
    ASSUME FindsTheAttempts, IsCurrent
    PROVE  read.actor \in read.held
<1> DEFINE rows == Rows("ATTEMPTS")
<1>1. /\ Got("ATTEMPTS") /\ EverHeld(rows, read.actor)
      /\ NewestAttempt(rows).contractor = read.actor /\ NewestAttempt(rows).status \in Live
  BY DEF IsCurrent, Participation
<1>2. \E a \in rows : \A b \in rows : b.n <= a.n
  BY <1>1 DEF FindsTheAttempts, EverHeld
<1>3. NewestAttempt(rows) \in rows
  BY <1>2 DEF NewestAttempt
<1> QED BY <1>1, <1>3 DEF FindsTheAttempts

\* A Contractor who at no moment of the read held the live offer is shown the rows of
\* his own and nothing of the Case (includeTimelineEventForRole, the Case detail and
\* the list).
THEOREM FormerContractorsSeeTheirPart == Spec => []FormerContractorSeesHisPart
<1>1. Inv => FormerContractorSeesHisPart
  <2> SUFFICES ASSUME Inv, Answered, Refusal = 0, read.actor \in Contractors,
                      read.actor \notin read.held
               PROVE  /\ \A item \in Items : item.contractor = read.actor
                      /\ Envelope = {} /\ ~ShowsTheCase
    BY DEF FormerContractorSeesHisPart
  <2>1. /\ read # NoRead /\ IsRead /\ CallsArePlanned
        /\ FindsTheScope /\ FindsTheAttempts
    BY DEF Inv, ReadInv, Answered
  <2>2. ~IsCurrent
    BY <2>1, CurrentIsHeld
  <2>3. read.actor \notin Residents /\ read.actor \notin Officers
        /\ RoleOf(read.actor) = "CONTRACTOR"
    BY OneRole
  <2>4. \A item \in Items : item.contractor = read.actor
    BY <2>2, <2>3 DEF Items, Shown, IncludeForRole
  <2>5. Envelope = {}
    BY <2>2, <2>3 DEF Envelope
  <2>6. ~ShowsTheCase
    <3>1. CASE read.kind = "list"
      <4>1. Got("SCOPE")
        BY <2>1, <2>3, <3>1, ScopeIsAsked
      <4>2. "CURRENT" \notin Rows("SCOPE")
        BY <2>1, <4>1 DEF FindsTheScope
      <4> QED BY <3>1, <4>2 DEF ShowsTheCase, OneSourceKinds
    <3>2. CASE read.kind # "list"
      BY <2>2, <3>2 DEF ShowsTheCase
    <3> QED BY <3>1, <3>2
  <2> QED BY <2>4, <2>5, <2>6
<1> QED BY <1>1, ReadInvariant, PTL

\* A timeline that leaves out what was there before it was asked for, and what its
\* reader may see, names the source as missing (missingSources), whatever is
\* written and whichever atoms fail meanwhile.
THEOREM TimelinesSayWhatTheyMiss == Spec => []TimelineSaysWhatItMisses
<1>1. Inv => TimelineSaysWhatItMisses
  <2> SUFFICES ASSUME Inv, Answered, read.kind = "timeline", Refusal = 0,
                      NEW event \in read.before,
                      event.source \in Sources \ {"OFFICER_ATTENTION"}, Due(event)
               PROVE  \/ \E item \in Items : Key(item) = Key(event)
                      \/ event.source \in Missing
    BY DEF TimelineSaysWhatItMisses, SaysWhatItMisses
  <2>1. /\ read # NoRead /\ IsRead /\ FindsTheAttempts /\ FindsTheRows
    BY DEF Inv, ReadInv, Answered
  <2> DEFINE source == event.source
             call == IF source = "ALLOCATION_ATTEMPT" THEN "ATTEMPTS" ELSE source
  <2>2. source \in Sources /\ CallsOf(source) = {call}
    BY DEF CallsOf
  <2>3. call \in DOMAIN read.got
    <3> DEFINE rest == {"CASE_HISTORY", "ASSIGNMENT_STATUS"} \cup SharedSources \cup Attentions
    <3>1. ~Skipped(call)
      BY <2>2 DEF Skipped, Sources
    <3>2. call \in {"ATTEMPTS"} \cup rest
      BY <2>2 DEF Sources, SharedSources
    <3>3. \E i \in DOMAIN Phase : call \in Phase[i]
      <4> HIDE DEF call, rest
      <4>1. Phase = <<{"CASE"}, {"ATTEMPTS"}, rest>>
            \/ Phase = <<{"CASE"}, {"ATTEMPTS"} \cup rest>>
        BY DEF Phase, Phases, TimelinePhases, rest
      <4>2. CASE Phase = <<{"CASE"}, {"ATTEMPTS"}, rest>>
        <5>1. 2 \in DOMAIN Phase /\ 3 \in DOMAIN Phase
              /\ Phase[2] = {"ATTEMPTS"} /\ Phase[3] = rest
          BY <4>2
        <5> QED BY <3>2, <5>1
      <4>3. CASE Phase = <<{"CASE"}, {"ATTEMPTS"} \cup rest>>
        <5>1. 2 \in DOMAIN Phase /\ Phase[2] = {"ATTEMPTS"} \cup rest
          BY <4>3
        <5> QED BY <3>2, <5>1
      <4> QED BY <4>1, <4>2, <4>3
    <3> HIDE DEF call
    <3> QED BY <2>1, <3>1, <3>3, AllIsAsked
  <2>4. CASE ~read.got[call].ok
    BY <2>2, <2>3, <2>4 DEF Missing, Failed
  <2>5. CASE read.got[call].ok
    <3>1. Got(call)
      BY <2>3, <2>5 DEF Got
    <3>2. \E type : Event(source, type, event.n, event.contractor) \in EventsOf(call)
      <4>1. CASE source = "ALLOCATION_ATTEMPT"
        <5>1. PICK a \in Rows("ATTEMPTS") : a.n = event.n /\ a.contractor = event.contractor
          BY <2>1, <3>1, <4>1 DEF FindsTheAttempts
        <5>2. Event(source, a.status, event.n, event.contractor)
              \in AttemptEvents(Rows("ATTEMPTS"))
          BY <4>1, <5>1 DEF AttemptEvents
        <5> QED BY <4>1, <5>2 DEF EventsOf
      <4>2. CASE source # "ALLOCATION_ATTEMPT"
        <5>1. source \in OneCallSources /\ call = source /\ source # "ATTEMPTS"
          BY <4>2 DEF OneCallSources, Sources
        <5> QED BY <2>1, <3>1, <5>1 DEF FindsTheRows, EventsOf
      <4> QED BY <4>1, <4>2
    <3>3. PICK type : Event(source, type, event.n, event.contractor) \in EventsOf(call)
      BY <3>2
    <3> DEFINE row == Event(source, type, event.n, event.contractor)
    <3>4. /\ row.source = source /\ row.n = event.n /\ row.contractor = event.contractor
          /\ Key(Shown(row)) = Key(event)
      BY DEF Event, Shown, Key
    <3> HIDE DEF row, call
    <3>5. row \in Collected
      BY <2>2, <3>1, <3>3 DEF Collected, row
    <3>6. IncludeForRole(row)
      <4>1. CASE read.actor \in Residents
        <5>1. event.source \in {"CASE_HISTORY", "APPOINTMENT", "PROOF_ITEM"}
          BY <4>1, OneRole DEF Due
        <5> QED BY <3>4, <4>1, <5>1, OneRole DEF IncludeForRole
      <4>2. CASE read.actor \in Contractors
        <5>1. event.source \in OwnSources /\ event.contractor = read.actor
          BY <4>2, OneRole DEF Due
        <5> QED BY <3>4, <4>2, <5>1, OneRole DEF IncludeForRole
      <4>3. CASE read.actor \notin Residents \cup Contractors
        BY <4>3 DEF IncludeForRole
      <4> QED BY <4>1, <4>2, <4>3
    <3>7. Shown(row) \in Items
      BY <3>5, <3>6 DEF Items
    <3> QED BY <3>4, <3>7
  <2> QED BY <2>4, <2>5
<1> QED BY <1>1, ReadInvariant, PTL
=============================================================================
