# TownOps: a TLA+ verification of the Case protocol

TownOps takes a maintenance Case from its report to its completion: it offers
the Case to Contractors one after another, books a visit when one accepts,
watches the visit, lets an Officer intervene, and closes the Case. One Temporal
Workflow per Case (`apps/worker/src/workflows/case-workflow.ts`) drives six HTTP
services ("atoms"), each of which keeps its own tables and locks its own rows.
No transaction spans two atoms. The Workflow's main loop and its Update handlers
interleave at every `await`, every call to an atom may be repeated, and what a
request asks for was read by the Gateway before the Workflow saw it.

This directory models that protocol in TLA+, from the form a user submits to the
e-mail and the score a Case leaves behind, checks it with TLC on small instances,
and proves with TLAPS, for every value of the constants, every safety property the runs check (five
under hypotheses that section 6 explains): that
of the parts which arbitrate the races (the Assignment and Appointment atoms, the
allocation fence, the delivery of effects, the upload of proof, the keys of the
forms), what the Workflow promises on top of them, what survives repeated, failing
and forgotten commands, and what the Gateway's reads show.

Contents: 1 inventory, 2 modules and their correspondence to the code, 3 runs,
4 bounds, 5 fairness, 6 proofs, 7 disagreements between code and documents,
8 abstractions and what is not modelled, 9 plan.

## 1. Inventory

| Part | State it keeps | Operations | Correct if |
|---|---|---|---|
| **Assignment atom** (`apps/atoms/assignment`) | one Assignment per Case (stable identity, status, completion operation), its Allocation Attempts (append-only offers), the allocation epoch (one row) | `commitAllocationAttempt`, `acceptAllocationAttempt`, `breachAllocationAttempt`, `markAssignmentInProgress`, `completeAssignment`, `cancelAssignmentForCase`, `getAllocationSnapshot`; legacy `createAssignment`, `updateAssignmentStatus`, `reassignAssignment` | at most one open offer and one acceptance per Case; an offer is fenced on the epoch its ranking was read at; what was accepted or started is not undone |
| **Appointment atom** (`apps/atoms/appointment`) | slot claims (HELD, ACTIVE, RELEASED) under an exclusion constraint per Contractor, one Appointment per confirmed claim | reserve, confirm, release, start, no access, missed, complete, cancel, replace | no Contractor is booked twice; a live visit owns its slot; recorded outcomes are final |
| **Case atom** (`apps/atoms/case`) | Case status, applied operation ids, completion operation, status history, Officer Attention | create, mark assigned / in progress / breached / no access / appointment replaced, record acceptance, complete, cancel, raise and resolve attention | a terminal Case stays terminal; each operation is applied once |
| **Case Workflow, main loop** | the queue of allocations, `currentAttempt`, `currentAppointment`, `automaticAllocationActive`, `automaticRetryAt`, guards, attempted Contractors, effects | waits for the earliest deadline; expires visits, breaches offers, allocates (automatic or manual), drains effects, continues as new, closes | no offer, visit or unallocated Case is forgotten; it never waits in a circle with its handlers |
| **Case Workflow, Update handlers** | a guard per handler, a map of operations per Idempotency-Key | open, manual allocation, accept, start work, no access, replace, cancel, complete, retry effect, waive effect | every answer is true, also the second time; cancellation leaves nothing alive; a saga that stops half way is flagged |
| **Worker Activities** (`apps/worker/src/activities`) | none | sequences of atom calls, retried from the first call | a repetition finds what the first call did |
| **Gateway, commands** (`apps/gateway/src/app.ts`) | none | prechecks against the atoms, Update-with-start, timeout | what it read may be stale; a start or completion that took effect is not denied because somebody forgot it |
| **Gateway, reads** | none | list, detail, timeline, proofs, effects, attention, joined from five atoms | what is missing is named; nobody sees what is not his; an outage does not deny |
| **Derived effects** (Workflow, `apps/atoms/alert`, `apps/atoms/metrics`) | the Workflow's copy, the Effect Ledger, performance entries | reserve, dispatch, retry and waive, within a 24 h deduplication window | what counts as sent was answered; each score counts once; what is in doubt is flagged |
| **Proof atom** (`apps/atoms/proof`) | proof items, stored objects | upload in three steps, resolve | an item that resolves shows what was claimed for it |
| **Resident atom**, provisioning Workflow | residents | nudge, insert once | a Resident who waits is provisioned |
| **Frontends** (`apps/frontend`) | the Idempotency-Key of a form, the answer shown | draw, keep and clear keys; repeat | a success is for what was asked; a retry is applied once |
| **Contractor atom** | profiles, categories, coverage, suspension | search eligible Contractors | data |
| **Auth atom, orchestration contract, UI, shared, infrastructure** | – | – | outside the protocol |

How they interact. A form sends a command with an Idempotency-Key to the Gateway,
which reads the atoms (the current Attempt, the Appointment, the Case) and sends an
Update to the Case's Workflow, starting it if it does not run
(`executeUpdateWithStart`). A handler checks the Workflow's own flags, then awaits
Activities. A manual allocation is not handled at once: it waits in a queue for the
main loop, and its `waitForResult` promise is resolved from there. A cancellation
waits until no allocation, acceptance, visit command, expiry or completion holds
its guard, and the main loop waits for the cancellation; the loop also waits for
acceptances and for handlers of the current visit before it acts on a deadline.
E-mails and scores are queued as the protocol goes along and delivered next to it;
the Workflow returns when all of them are settled.

What is hard here, and what the properties aim at:

* two awaits of different actors in an order nobody wrote a test for: acceptance
  against breach, against replacement, against the announcement of the very
  offer that is accepted; expiry of a visit against its start, its no-access
  report and its replacement; anything against cancellation; an Officer's repair
  against the dispatch it repairs;
* rows read without a lock in `commitAllocationAttempt` and written later, counts
  read after the epoch that fences them, proof resolved before what it is for;
* Workflow variables written after an `await` from a reply that may be overtaken;
* Activities that are retried from their first call after a lost reply, and effect
  Activities that are not retried at all;
* requests that are repeated, and the three who remember them: Temporal by Update
  id for one run, the Workflow by key, the atoms by operation id;
* three-atom sagas (start, completion, cancellation) that stop half way;
* reads that are no snapshot and whose sources may be out of reach;
* timers that must not be lost, and guards that wait for each other.

`PROJECT.json` lists each hazard with its line and the properties about it, or
the reason there is none.

## 2. Modules

```
AssignmentAtom    AppointmentAtom    CaseAtom          ProofAtom      the atoms
  |        \            |                |                 |
  |  AllocationRanking  |                |                 |          the fence
  |                     |                |                 |
  +------INSTANCE-------+----------------+                 |
                        |                                  |
                     CaseLoop                              |          main loop
                        | EXTENDS                          |
CaseLifecycle ---- CaseWorkflow -----------+---------------+          handlers, Gateway, clock
  INSTANCE WITH         |                  |
                        |                  | EXTENDS
                  MCCaseWorkflow      CommandPath                     repeated requests, proof
                                           |
                                     MCCommandPath

EffectLedger                 EffectPromise        ResidentProvisioning    CaseReads
     | EXTENDS                     |                     | EXTENDS             |
EffectDelivery --INSTANCE WITH-----+               ClientForms           MCCaseReads
     |                                                   |
MCEffectDelivery                                  MCClientForms

Proofs:  AssignmentProofs   AppointmentProofs   RankingProofs (EXTENDS AssignmentProofs)
         WorkflowProofs (INSTANCEs the first two)   CommandProofs (EXTENDS WorkflowProofs)
         EffectProofs       FormProofs          ReadProofs
MCAssignmentAtom (EXTENDS AllocationRanking) and MCAppointmentAtom: one atom each
```

**AssignmentAtom.** `assignment`, `completionOp`, `attempt` and `epoch` are the
tables; `commit` is the one open allocation transaction. An operation that locks
its row first (`SELECT ... FOR UPDATE`) is one action. `commitAllocationAttempt`
locks only the epoch row, so there is one such transaction at a time, and the
rows it reads may change before it writes: it is `CommitBegin` (idempotency
lookup, epoch fence, override reason), `CommitReadAssignment`,
`CommitReadPending` and `CommitWrite`, with `CommitRollback` for a transaction
the database aborts. Outcomes are operators (`AcceptOutcome`, `BreachOutcome`,
...) named like the results of the service functions; an action takes its
outcome as a parameter, so that `CaseWorkflow` reads the reply where the code
does. The module's own `AssignmentNext` lets any caller call anything with any
arguments.

**AllocationRanking.** One Workflow ranks the Contractors by load
(`rankCandidates`) and commits the best one while other callers do anything.
`getAllocationSnapshot` is its two statements: the epoch, then the counts.

**AppointmentAtom.** `claim` and `appointment` are keyed by claim id (an
Appointment is created by confirming its claim, with its id); `visitOp` is the
completion operation. The exclusion constraint on a Contractor's HELD and ACTIVE
claims is `SlotTaken`; the partial unique index on live visits of an Attempt is a
conjunct of the actions that could break it. `ReplaceAppointmentSlot` is one
transaction: it retires the old visit, releases its claim, and books the new one,
or does nothing.

**CaseAtom.** Transitions of a running Case share `Transition`, as they share
their shape in the service: refuse a terminal Case, claim the operation id, write
the status, raise or resolve attention. That `markCaseAssigned` and
`markCaseInProgress` accept any non-terminal status, and that `raiseOfficerAttention`
accepts any Case, is kept as it is.

**CaseLoop.** `wf` holds the Workflow variables that outlive an await (`attempt` =
`currentAttempt`, `accepted`, `visit` = `currentAppointment`, `active` =
`automaticAllocationActive`, `retryAt` = `automaticRetryAt`, `queue` = the
operations waiting for the loop, `cancelling` = `cancellationStarted`, `closing` =
`closeAfterCompletion`, `attempted` = `attemptedContractorIds`, `known` =
`allocationContext` is set, `rev` = `appointmentStateRevision` moved). `main` is
the program counter of the main loop and its locals, `upd[u]` those of a handler.
The guards of the code (`acceptanceGuard`, `appointmentLifecycleGuard`,
`appointmentExpiryGuard`, `missedAppointmentRecovery`, `allocationMutationGuard`,
`completionGuard`) are derived from the program counters that hold them
(`Accepting`, `HoldingVisit`, `Expiring`, `Recovering`, `Allocating`,
`Completing`). One action is the code between two awaits. Where the loop passes
several tests without awaiting, they are a chain of small actions, and
`Synchronous` keeps every other actor out until the chain ends: a Workflow has
one thread.

An Activity that awaits an atom has a variant with `lost = TRUE`: the atom
commits, the reply does not arrive, and the caller makes the same call again
(`acceptAllocation`, one Activity of four calls, starts again from `reserve`).

**CaseWorkflow.** `Send` is the Gateway: it reads the atoms and fills in the
Update. `Admit` is the handler up to its first await, later, when what was read
may be stale. Then one action per Activity call of each handler: `OpenCase`;
`ReserveSlot`, `AcceptAttempt`, `ReleaseSlot`, `ConfirmSlot`, `RecordAcceptance`;
`StartVisit`, `StartAssignment`, `StartCase`, `FlagStart`; `FailVisit`,
`ParkCase`; `ReplaceVisit`, `RecordReplacement`; `CancelVisit`,
`CancelAssignment`, `CancelCase`; `ValidateCompletion`, `CompleteVisit`,
`CompleteAssignment`, `CompleteCase`, `FlagCompletion`. `StartRun` is an Update
that arrives after the run has closed. `Tick` is the clock, `OtherCaseAllocates`
what other Cases do to the shared epoch. The properties stand at the end.

**CaseLifecycle** is abstract: what becomes of a Case, its Assignment (`work`) and its
visits (`visit`, how far any of them has come) for somebody who sees no calls and no
Workflow. Each saga is a few single steps in order: `Attend`, `Begin` for the start;
`Report`, `Finish`, `Complete` for the completion; `CallOff`, `Cancel` for the
cancellation. While it runs, an observer sees a record ahead of the next one, as
docs/case-lifecycle.md grants ("A committed transition is not rolled back"), but never
one behind it. `Life == INSTANCE CaseLifecycle WITH ...` in CaseWorkflow is the
refinement mapping; `end` is the Case's status once it is terminal. The other statuses
of the Case are not mapped, since `markCaseAssigned` may turn IN_PROGRESS back to
ASSIGNED (section 7, StartedEarly).

**ProofAtom.** `ClaimProofUpload`, `WriteObject` and `MarkProofReady` are the
three steps of `uploadProof` over its two stores; `UploadFails` ends an upload
after any of them, and the same request, sent again, resumes. `Resolves` is what
the completion's precheck asks.

**CommandPath** puts the HTTP request in front of CaseWorkflow, with ProofAtom
next to it. `call` is a request of a client, `Call` the precheck of its route,
`Deliver` the Update; `Join` waits for the handler that is busy with that key,
`Replay` answers a key or an Update id that was seen; `GiveUp` is the timeout
after which the client sends the request once more. `cached` are the Workflow's
maps of operations, `delivered` the Update ids Temporal knows of this run.
`ContinueAsNew` makes a new run of the old one's state, `StartEmptyRun` an empty
one; `HandlerFails` is an Activity that fails for good. A completion draws a new
Update id per delivery, the other commands do not: this is why the maps are
needed. The module starts where an offer was accepted (`Booked`), before or after
the main loop heard that the Case is marked as assigned.

**EffectPromise, EffectLedger, EffectDelivery.** The promise is abstract: an effect
that was queued is owed until it is kept (its recipient answered) or released (an
Officer waived it); it may come in doubt; the books close with nothing owed.
EffectLedger is the row of the Alert atom as functions of the row. EffectDelivery
is `runEffect` (`run`), the Workflow's copy (`eff`), the repair handlers and the
dispatch. Each Activity is two steps, what it commits and what the Workflow makes
of the reply; a dispatch has a third, and goes on without the Activity that gave
up on it (`route[<<e, "abandoned">>]`). `Promise == INSTANCE EffectPromise WITH
fate <- ...` is the refinement mapping: the fate of an effect is what its ledger row says.

**CaseReads.** The calls of a read in their phases (`Phases`), each of which sees
its atom at its own moment or fails, while the tables are written to. `Refusal` is
where the route gives up, `Items`, `Missing` and `Envelope` are what it shows.

**ResidentProvisioning, ClientForms.** A Resident's desk asks `/api/me` until the
profile is there (`Ask`, `Provision`). The forms of the three frontends are of
three kinds, by what happens to their key: a fresh one per submission (the desk), one kept
until a success (visits), one per payload (completion). `op` is what the Workflow
remembers of a key; `net` the requests whose answer nobody may be waiting for any
more.

Operators named `...Defect` are plausible bugs of the definition that follows
them; no specification uses them. They are there so that each property can be
shown to fail when the code is wrong in the way it guards against.

## 3. Runs

All of them: `tlc -workers 2 -config X.cfg M`, with the `.cfg` named like the run.

| Run (module) | Question | Properties |
|---|---|---|
| `assignment_atom` (MCAssignmentAtom) | Does the atom keep one open offer and one acceptance per Case when any caller calls anything between the statements of a commit, is an accepted Assignment never offered again, and does a commit fail whose ranking missed an offer? | AssignmentTypeOK, AtMostOnePendingAttempt, AtMostOneAcceptance, AcceptedIsNotReopened, WorkFollowsAnAcceptance, RankingMissesNoOffer, WorkIsNeverUndone |
| `appointment_atom` (MCAppointmentAtom) | Do claims and visits stay in step in any order of calls? | LiveVisitOwnsItsSlot, NoDoubleBooking, SlotAndVisitAreGivenUpTogether, RecordedOutcomesAreFinal |
| `offers` (MCCaseWorkflow) | Automatic offers to two Contractors, two acceptances, breach and a cancellation, any reply lost | TypeOK, PenaltyOnlyForALapsedOffer, CancelledCaseIsQuiet, AnswersAreTrue, AcceptedOfferIsNeverWithdrawn |
| `liveness` (MCCaseWorkflow) | Does anything wait in a circle, and is every offer and every unattended visit settled? | EveryUpdateIsAnswered, UnansweredOfferLapses, UnattendedVisitIsMissed |
| `overrides` (MCCaseWorkflow) | An Officer's allocation against the automatic one while other Cases win epoch races: is the Case always allocated or flagged? | UnallocatedCaseIsNoticed |
| `visits` (MCCaseWorkflow) | Starts, no access, replacement, completion, cancellation and expiry race for one visit | MissedVisitIsFlagged, FollowsTheLifecycle |
| `commands` (MCCommandPath) | A start and two completions, each repeated after a timeout, with any atom out of reach, Activities that fail for good, a Continue-As-New and runs that start empty in between | OneCompletion, EffectIsNotDenied |
| `evidence` (MCCommandPath) | Uploads of proof race each other and the completion that cites them, any reply lost | CreditOnlyForFinishedWork, HalfFinishedWorkIsFlagged, CompletedOnEvidence, ReadyProofIsWhatWasClaimed |
| `effects` (MCEffectDelivery) | An e-mail and a score, calls and replies lost or late, an Officer who retries and waives meanwhile | TypeOK, KeepsThePromise, LateDispatchIsAcknowledged, DoubtIsFlagged, ScoreIsSettled |
| `reads` (MCCaseReads) | What the reads show of a Case that changes between their calls while atoms do not answer | TimelineSaysWhatItMisses, FormerContractorSeesHisPart, OutageNeverDenies |
| `clients` (MCClientForms) | Keys that outlive payloads, answers that outlive submissions; starts of the provisioning that are lost | SuccessIsForWhatWasAsked, RetryAppliesOnce, ResidentIsProvisioned |
| `withdrawn_acceptance` (MCCaseWorkflow) | ends in a counterexample to AcceptedOfferIsNeverWithdrawn (section 7) | |

What the passing runs show, beyond their names.

* `offers`: although an acceptance may be delivered late, and a breach repeated, no
  Contractor is penalised for an offer whose acceptance is on record; a refused
  acceptance holds no time; an acceptance and a cancellation that meet leave
  nothing alive on the cancelled Case, because the cancellation waits for the
  acceptance's guard.
* `liveness`: the guard order (the loop waits for a cancellation, a cancellation for
  the loop's Activity but not for the loop itself) has no circle.
* `visits`: the `await` of a replacement for the expiry it recovers from
  (case-workflow.ts:1694-1697) is what keeps `MISSED_APPOINTMENT` from being raised
  after it was resolved: without it `MissedVisitIsFlagged` fails. The wait of a cancellation
  for the allocation under way (1789-1796) is what keeps a commit from acting on an
  Assignment that was cancelled since it was read: without it `FollowsTheLifecycle` fails.
* `commands`: a start or completion that took effect is answered SUCCESS, or "repeat",
  whoever of Temporal, the Workflow's map and the atoms remembers it. This needs the maps
  in the Continue-As-New: the Gateway's precheck runs again each time and would
  otherwise deny a completion that a closed run made. `EffectIsNotDenied` names what it
  does not cover, and each exception has a counterexample in section 7: a cancellation
  (its precheck refuses what it did), a request whose own lookup of the Assignment or the
  Appointment did not get through, and a run that started empty after the Case had ended,
  while a cancellation that came as late is under way. This run sends no cancellation;
  `CancelDenied.cfg` and `LateCancelDenies.cfg` do, and the theorem covers them.
* `evidence`: proof items are resolved before the three atoms are written, and two
  uploads of one id may run side by side with different content; what a completion
  cites still stands when the Case is completed, because a row is claimed with its
  content and the object is written only for that claim. No lost reply makes a
  completion report success, or queue credit, while a record is not complete.
* `effects`: the Workflow never returns with an effect that was neither answered nor
  waived, although its copy of the ledger is overtaken by repairs in both directions.
* `reads`: the participation of a Contractor is decided on Attempts read before the
  other sources, and the offer may have gone to somebody else by then; he is
  still shown nothing of what followed, because rows are filtered by whose they are.
* `clients`: an answer to an earlier submission never turns a form with another
  payload into a success.

`overrides` checks a liveness property only: with an Officer's replacement,
`AcceptedOfferIsNeverWithdrawn` is false (section 7).

`CHECK_DEADLOCK FALSE`: a Case ends, a client stops asking, and the clock stops at
`MaxTime`.

### Action constraints

They cut steps off from a run and are part of what it says. Under `ReplacementsInTurn`
`visits` explores the steps of `SpecInTurn`: a visit is moved only once the Update that
booked it was answered, while its claim is ACTIVE, and by one Update. Without it the
property fails as `RescheduledEarly.cfg` shows.

| Constraint | What is left out |
|---|---|
| `RanksBeforeWork` (`assignment_atom`) | ranking while another Case is at work: work and cancellation add no load |
| `MovedOrWorked` (`visits`) | one behaviour that both moves the visit and reports on it, or starts it twice and cancels it; proved without it |
| `OneRepeatOrRival` (`commands`) | a completion that is first reported before the Case is in progress (`ReportsFollowWork`): the precheck refuses it; a first request whose own lookup fails: it leaves nothing but its answer; one behaviour that both repeats the start and reports a second completion; proved without it |
| `ReportsAndWaits` (`evidence`) | reports before work, and clients that time out: this is the question of `commands`; proved without it |
| `OneAtATime` (`effects`) | two effects at once, which meet only in `Close`, and two repairs at once; proved without it, but for liveness |
| `Bounded` (`reads`) | tables with more than one row beside the Attempts; more than one failure, or a failure and a write; some orders in which calls of one phase go out; proved without it |
| `OneForm` (`clients`) | two forms at once, which share no state; proved without it, but for liveness |

## 4. Bounds

| Bound | Value | Why it is enough |
|---|---|---|
| Cases in the Workflow modules | 1 | Cases share only the epoch, the calendar and load counts; the epoch moves by `OtherCaseAllocates`; calendar and loads are checked with 2 Cases in the runs of the atoms |
| Contractors | 1 or 2 | with 2, a breached Case is offered to the other one; symmetric in `offers` because which candidate ranks first is left open |
| Updates | 3 to 8 per run | every pair of handlers that meet at a piece of state appears in some run, twice the same kind where two compete (accept, start, complete) |
| Slots | `<<1,2>>`, `<<3,4>>`; the first in CommandPath | one that opens during a run and ends before the other, so a visit can be missed, attended and moved |
| AcceptanceSla, RetryDelay | 1 | only their order with other deadlines matters, and `Tick` may fall between any two steps |
| MaxRounds | 2 (code: 5) | one lost epoch race and a retry, and running out of rounds |
| MaxTime | 2 or 3 | past the deadline of a second offer, or past the end of the first slot |
| MaxEpoch, OthersUntil | 2 to 4, 0 or 2 | an automatic and a manual allocation and two races won by others; 0 in CommandPath, where the offer is made |
| LostReplies | both values in `offers` and `evidence`, where a repeated call is the question; `{FALSE}` elsewhere, to afford more actors | |
| MaxCalls | 2 (start, first completion), 1 (second completion) in `commands`; 1 in `evidence` | one repetition, with a competitor |
| MaxRuns, MayFail, Outages | 2, starts, all three atoms the routes read in `commands` | a map that is carried once; the handler whose failure the code answers by repetition; each outage with the answer its route makes of it |
| Uploads | 3 in `evidence` | two of one id with different content, one of the other type |
| Effects, Repairs | an e-mail and a score; a retry with acknowledgement and a waiver of the one, a waiver of the other | each kind with each repair it knows; attempts are "none" or "some", which is all the code asks |
| MaxAttempts, MaxVisits, MaxWrites | 2, 1, 2 in `reads` | an offer that goes on to another Contractor during a read |
| Residents, Payloads, MaxKeys | 2 (one of them Taken), 2, 3 in `clients` | a success, a change of payload and a fresh key |
| Assignment atom | 2 Cases, 2 Contractors, 3 Attempts, 2 operations | a breached, an open and a replacing Attempt; proved for all values |
| Appointment atom | 2 Cases, 2 Contractors, 2 Attempts, 3 claims, 1 operation, overlapping and disjoint slots | a visit, its replacement and a competitor; proved for all values |

## 5. Fairness

*CaseWorkflow* (`liveness`, `overrides`). Weakly fair are the main loop, each
handler, each Activity with its reply, the clock, and `StartRun`: the Temporal
server redelivers Workflow and Activity Tasks until they are answered (the proxies
set a 10 s `startToCloseTimeout` and no limit of attempts), timers fire, and an
Update that was sent is delivered. No fairness is assumed of `Send` (nobody has to
act), of `OtherCaseAllocates`, of lost replies or of rollbacks. Weak fairness per
handler is enough because each handler's step stays enabled while the loop is not
in a synchronous chain, and every such chain is finite.

*EffectDelivery* (`effects`). Weakly fair is, per effect, what the loop, its timers
and the parties called do (`EffectStep`). Faults are finitely many
(`<>[][~Fault]_vars`): these Activities are attempted once, the code starts another
`runEffect` after a delay for as long as they fail, and a recipient that refuses for
ever is never delivered to. Nothing is assumed of Officers.

*ClientForms* (`clients`). Weakly fair are a desk's next question and a provisioning
run, each with a reply that arrives now and then: the desk polls, the server
retries the Activity. Nobody has to sign in or to submit a form.

CommandPath and CaseReads have safety properties only and assume no fairness.

## 6. Proofs

`tlapm M.tla` for each of the eight proof modules.

| Theorem | States |
|---|---|
| AssignmentProofs!TypeCorrect | `AssignmentSpec => []AssignmentTypeOK` |
| OnePendingAttempt, OneAcceptance | at most one open offer, at most one acceptance ever, per Case |
| AcceptedIsNotOfferedAgain | action property: no commit turns an Assignment that was accepted, started or completed back into an offer |
| AcceptedBeforeWork, StartedWorkStands | work rests on an acceptance; no step takes it back |
| RankingProofs!RankingIsACaller | `RankingSpec => AssignmentSpec`: what is proved of the atom holds while a Workflow ranks |
| FenceHolds | the offer goes to a Contractor ranked on counts that include every open offer |
| AppointmentProofs!TypeCorrect | `AppointmentSpec => []AppointmentTypeOK` |
| LiveVisitsOwnTime, NeverDoubleBooked | a live visit's claim is ACTIVE; no two live visits of a Contractor overlap |
| OutcomesAreFinal, SlotsStandWithVisits | action properties: outcomes are not rewritten, a live visit's slot goes only with the visit |
| WorkflowProofs!TypeCorrect | `Spec => []TypeOK` of CaseWorkflow |
| AppointmentRefined, BookingsStand | `Spec => Apt!AppointmentSpec`: the Workflow calls the atom as any caller may, so its bookings stand |
| AllocationsStand | the Assignment atom's invariants within the Workflow, around the epochs of other Cases |
| PenaltiesAreDeserved | a penalty is queued only for an offer without an acceptance on record |
| CreditIsEarned | credit is queued only when Case, Assignment and visit are recorded as complete |
| AnswersAreKept | SUCCESS is on record and stays there; a refused acceptance holds no time |
| HalfFinishedWorkIsNoticed | a completion past the visit completes the Case, is under way, or left Officer Attention |
| AcceptancesStand | action property: without manual allocation, an accepted offer is never withdrawn |
| CancelledCasesOfferNothing | a cancelled Case has no open offer and no Assignment but a cancelled one |
| CancelledCasesAreQuiet | without replaced visits, a cancelled Case has no live visit either |
| MissedVisitsAreFlagged | `SpecInTurn => []MissedVisitIsFlagged`: while nothing is under way, Officer Attention is open exactly if a missed visit was not recovered |
| LifecycleRefined | `Spec => FollowsTheLifecycle`: CaseWorkflow implements CaseLifecycle |
| EndedRecordsAgree | from the lifecycle alone: a completed Case has a completed Assignment and visit, a cancelled one no Assignment but a cancelled one, for good |
| CommandProofs!ProofTypes, ReadyItemIsTrue | `ProofSpec => []ProofTypeOK`; a ready item shows what was claimed for it |
| CompletedOnce | visit, Assignment and Case of a completed Case name the same operation |
| CommandsCreditFinishedWork, CommandsLeaveNoHalfWork | credit and half finished work, with commands that are repeated, fail for good and meet another run |
| EffectsAreNotDenied | action property: a start or completion whose effect is on record is answered SUCCESS or RETRY, however often it is sent, in empty runs too, but for a request whose lookup did not get through and an empty run under a late cancellation |
| CommandsSeeTrueProof, CompletionsHaveEvidence | a completed Case cites ready, true proof of every type |
| ReadProofs!ReadInvariant | `Spec => []Inv`, the invariant below |
| OutagesDenyNobody, FormerContractorsSeeTheirPart, TimelinesSayWhatTheyMiss | what reads refuse, show and name as missing |
| EffectProofs!EffectTypes, EffectInvariant | `Spec => []TypeOK`; `Spec => []IInv`, the invariant below |
| EffectRefinement | `Spec => KeepsThePromise`: EffectDelivery implements EffectPromise |
| LateDispatchesAreAcknowledged | action property: a dispatch out of the window uses up an acknowledgement |
| FormProofs!FormTypes, SuccessIsTrue, RetriesApplyOnce | types; a success is for what was asked; a kept key is applied once |

Assumptions, all of which TLC evaluates in the runs:

* `NoneIsNull` (NONE is none of the model values; atoms and CaseLoop);
* `SlotsAreIntervals` (a slot is a pair of naturals that starts before it ends: the
  orchestration contract's schemas refuse others, `packages/orchestration-contract/src/index.ts:489,506`);
* `WorkflowAssumption` (each Update has a kind, bounds are naturals, a reply may
  arrive); `RankingAssumption` (scores are integers, positions naturals);
* `CommandAssumption` (the Case was opened and accepted by Updates of those kinds; only
  commands whose routes are modelled are sent or fail; what a completion cites are items;
  the operation ids of allocations, `${caseId}/allocate/...` at case-workflow.ts:465, are
  those of no command);
* `ProofAssumption` (Blank is no type and no content); `LedgerAssumption`,
  `RepairAssumption` (e-mails are effects, a repair names an effect);
* `ReadAssumption` (an Account has one role; the Case's owner is a Resident; bounds are
  naturals); `TakenAssumption`, `FormAssumption` (a form has one of the three kinds, NONE
  is no payload and no answer).

Five theorems have hypotheses of their own, and each is needed:

* CommandsLeaveNoHalfWork, `"complete" \notin MayFail`: the handler of a completion
  forgets the operation and throws on, so an Activity that fails for good after the visit
  was completed leaves no Officer Attention (case-workflow.ts:1977-1979);
* AcceptancesStand, no Update of kind `manual`: an Officer's replacement withdraws an
  offer it read without locking it (section 7, WithdrawnAcceptance);
* CancelledCasesAreQuiet, no Update of kind `replace`: the recovery of a failed visit
  takes no guard (section 7, RecoveredAfterCancel). CancelledCasesOfferNothing is the
  part that needs no hypothesis;
* MissedVisitsAreFlagged, replacements in turn (`SpecInTurn`): the code lets a client move
  a visit before the acceptance that booked it is answered, and the handler of that
  acceptance then watches the visit that was replaced (section 7, RescheduledEarly);
* EffectsAreNotDenied, `"complete" \notin MayFail`, and `"start" \notin MayFail` or
  `TRUE \notin LostReplies`: a handler that fails for good while it repeats a call that
  took effect throws, and its caller is told so. Any atom may be out of reach.

The run `offers` is an instance of AcceptancesStand and CancelledCasesAreQuiet, the run
`visits` one of MissedVisitsAreFlagged, the run `commands` one of EffectsAreNotDenied
(starts fail for good, no reply is lost, any of the three atoms is out of reach).

*Assignment.* "At most one open offer" is not inductive: a commit inserts an offer
from what it read several statements before. The invariant
`SafetyInv` adds `CommitReadsHold` (if the commit read no open offer, there
is none; if it read the one it is to replace, no other is open; what it is about to
reopen was never accepted): it holds because inserting an offer needs the epoch lock
the commit holds, so other actors can only close offers. It is a step of the proof and
no property of a run: of the Assignment it read as BREACHED it says only that it still is,
or has been cancelled (section 7, ReopenedAfterCancel). "At most one acceptance" needs
`OpenIsNeverAccepted` (an Assignment that is still open has no accepted Attempt),
which needs that `CommitWrite` reopens only an Assignment read as BREACHED whose
offers were never accepted; AcceptedIsNotOfferedAgain is this, as a property of steps.
`WorkFollowsAnAcceptance` closes the induction.
`TypeInv` carries in addition that the Attempt an open commit replaces exists.
The proof has one step per action and, under it, one per conjunct.

*The fence.* `RankInv` says why reading the epoch first is right: while the epoch is
still the one that was read, no offer was added since, so the counts are not below
the loads (`Fenced`); once the commit holds the epoch row, nobody else adds one.
The lemma behind it, `OnlyWritesAddLoad`, goes through every operation of the atom:
only `CommitWrite` makes a load grow, and it moves the epoch. Loads are
cardinalities, so the invariant carries that the rows are finitely many.

*Appointment.* `BookingInv` = `LiveVisitOwnsItsSlot` and `BlockingClaimsAreDisjoint`
(HELD and ACTIVE claims of one Contractor do not overlap). Double booking follows,
since a live visit's claim is ACTIVE. The interesting steps are release (only a
HELD claim, which has no visit yet) and replacement (the old claim is released in
the step that books the new one, and the new slot is compared with all others).

*Workflow.* The atoms' proofs are instantiated, not repeated: a step of CaseWorkflow
calls at most one atom (`AssignmentCall`, `AppointmentCall`, `CaseCall`,
`WorkflowStep`), and that call is a step of the atom's own specification, or of the
epoch by another Case. For a call to be one, its arguments must be what the atom takes.
`WorkflowInv` says they are: the places of loop and handlers with the locals they have
there (`Shape`), offers and visits that Updates name exist (`UpdateNames`), a commit is
open only while the loop awaits it, a claim names an existing offer and its Contractor,
and an Update has booked and accepted nothing before it is admitted (`NothingBefore`).
With it, one lemma per kind of handler says how its place and the records move together
(`CompletionMoves`, `AcceptanceMoves`, `ReplacementMoves`, `CancellationMoves`), and
each promise adds the little it needs:

* penalties, `BreachInv`: the loop is at the report of a breach only from the breach of
  that offer, and an offer that is open or has lapsed has no acceptance;
* credit, `CompletionInv`: past the visit, the visit is completed; at the Case, the
  Assignment is. No step takes a record back, so nothing needs to be read again;
* answers, `BookedInv` and `AnswersInv`: an acceptance past its offer is on record there;
* half finished work, `CancelInv`, `BegunInv` and `CarriedInv`: a completion gives up
  silently only if another one has the Assignment or the Case is done. What could undo
  this is a cancellation. There is one at a time; it touches a record only while the
  loop is quiet; it reaches the Case only if no work stands. Work a completion has begun
  to record has started, so such a cancellation is refused at the Assignment;
* acceptances, `ReplaceInv`: a commit names an offer to replace only where Officers
  allocate, and nothing else withdraws one; breach and cancellation act on offers that
  are open when they are locked;
* cancelled Cases, `OfferInv` and `VisitInv`: the Assignment is cancelled only on the way
  to a cancelled Case or on one; no work starts there, so the Case is not overwritten;
  the loop is not at an allocation once the Case is cancelled, and a commit finds the
  Assignment cancelled. A cancellation passes the visits only while no acceptance is
  under way, those admitted later are refused at the Assignment before they confirm a
  visit, and it meets one live visit at most, since one offer of a Case is ever accepted;
* missed visits, `TurnInv`, `WatchInv` and `FlagInv`: that a missed visit is flagged is
  about the order of the expiry and of the replacement that recovers from it, and these
  meet only on one visit. `TurnInv` says so: one visit of the Case stands at a time, since
  the acceptance books the first and each replacement the next in the step that gives the
  last one up. `WatchInv` says that they do not overtake each other: the expiry marks only
  the visit the loop watches, and begins while no guarded replacement is under way; a
  replacement that enters meanwhile either was sent for a visit that could no longer be
  missed or awaits the end of the expiry. `FlagInv` then carries that a visit past the
  expiry has its flag until a replacement is recorded or the Case ends;
* the lifecycle, `OrderInv` with `CompletionInv`, `BegunInv`, `CancelInv` and `OfferInv`:
  a handler at a record has the records before it. `OrderInv` adds that a start at the
  Assignment has a visit that has begun, and that finished work has a finished visit and a
  completed Case finished work. `VisitLife`, `WorkLife` and `EndLife` then say what a step
  may do to each of the three records, whichever handler makes it, and `LifeStep` puts
  every step of CaseWorkflow under a step of CaseLifecycle or a stutter. A commit is the
  delicate one: what it read as BREACHED still is, since an acceptance or a start cannot
  follow a breach and a cancellation at its records leaves the loop no open commit. That
  ended records agree needs nothing of the Workflow any more.

*Commands.* CommandPath's steps are the Workflow's, and four that are none of them: a
command that was answered arrives again (`Arrives`), throws (`HandlerFails`), the run
continues as a new one (`Continues`), an upload moves. `PathSteps` sorts them, and
`CommandInv` is the Workflow's invariant, kept by all four, with the shapes of the
requests. `FinishInv` carries that
a completion past a record has its own id there: completions that run side by side meet
at the visit, whose operation is written once. `EvidenceInv` carries that evidence, once
validated, stands: items that are ready are never claimed anew.
That nobody is denied what took effect is about who remembers it. `Lasting` is a
completion on record, or a start on record of a Case that has not ended. `RememberInv`
says of such an Update that it makes its last call once more because the reply was lost
(`Repeats`), or was told SUCCESS and is in the map, which a new run inherits
(`Acknowledged`), or was sent to a run that has ended (`Outlives`).
The precheck, which runs again each time, needs `NoMoreOffers`: the accepted offer stays
the Case's only one, and its visit stays, so there is always something to ask for.
A run that starts empty remembers nobody, and two more facts make up for it. `EndInv`:
runs close, and empty ones start, only when the Case has ended, so no start lasts there.
`RedoneInv`: there the completion on record is unknown, or goes through its calls once
more, and each of them finds that it was made before, so it ends in SUCCESS again.

*Proof.* `ReadyProofIsWhatWasClaimed` speaks of items that are ready; the invariant
`ProofInv` adds that an upload past its claim has a row with its own type and content
(`UploadHasRow`), that an object was stored only for the content claimed
(`ObjectIsClaimed`), and that an upload about to mark its row ready has stored the
object (`WrittenBeforeReady`).

*Reads.* Tables only grow (`Grows`): rows are added, keep their Contractor, and a
settled offer is not pending again. `Inv` says what each call that answered has found,
by what stood when the read began (`FindsTheRows`, ...) and by who held the live offer
since (`held`). Whether a call came before or after a write then makes no difference,
and the three properties follow from what the route makes of the replies.

*Effects.* `IInv` relates the two copies and what is on its way between them: nothing
is done for an effect that was not queued, a success on its way to the ledger is the
answer of the recipient, what the Workflow takes for settled, or is about to be told
is settled, is settled in the ledger, a successful repair found a row. A settled row
stays settled by every operation of the ledger, so the Workflow's copy may be behind
but not ahead; this is why it may close. Every action then maps to a step of the
promise or to a stutter (the lemma names the step for each). `LicenceInv` is about
acknowledgements: one that the ledger took is not used up when its answer reaches the
Workflow, and the Workflow's `manual` flag is one that is not used up.

*Forms.* Types alone are not inductive: a desk's question starts a Workflow for its
Account, so the invariant carries that a desk that is open has one. A key is drawn
before it is used (`DrawnKeys`), and a form that keeps its key has drawn one at most
since its last success (`OneKeyKept`).

What the proofs corrected in the models. Two acknowledged retries of one e-mail may
overlap, and then two dispatches out of the window are right: the licence of
EffectDelivery is the set of acknowledgements taken, where it was a flag. `createCase`
with an operation id it has not seen fails on a Case that exists; the model would have
created it again. Constants that the proofs needed are now assumptions with names.

Only model-checked:

* all liveness (`EveryUpdateIsAnswered`, `UnansweredOfferLapses`, `UnattendedVisitIsMissed`,
  `UnallocatedCaseIsNoticed`, `DoubtIsFlagged`, `ScoreIsSettled`, `ResidentIsProvisioned`):
  fairness and ENABLED are outside the prover's reach.

No recursive definition is used.

## 7. Disagreements between code and documents

One is a run (`withdrawn_acceptance`, a finding of `PROJECT.json`). The others are
demonstrations: a `.cfg` that ends in a counterexample to the property named.

| cfg (module) | Property | What a document or a comment says, and what the code does |
|---|---|---|
| WithdrawnAcceptance (MCCaseWorkflow) | AcceptedOfferIsNeverWithdrawn | docs/case-lifecycle.md:62: a replacement withdraws "the pending offer". It reads the offer as `PENDING_ACCEPTANCE` without locking it, then withdraws it by id alone: an acceptance that commits in between is overwritten while its Assignment stays ACCEPTED. |
| StartedEarly (MCCaseWorkflow) | StartedWorkStaysVisible | The offer can be accepted as soon as the commit returns, before `markCaseAssigned`; if work has started by then, that call turns IN_PROGRESS back to ASSIGNED. |
| RescheduledEarly (MCCaseWorkflow) | UnattendedVisitIsMissed | A visit can be moved before the acceptance that booked it is answered; the acceptance handler then sets `currentAppointment` to the visit that was replaced, and nobody watches the new one. |
| RecoveredAfterCancel (MCCaseWorkflow) | CancelledCaseIsQuiet | Recovering a NO_ACCESS visit takes no guard, because it is not the current one, so a cancellation does not wait for it and a visit is booked on a cancelled Case. |
| FlaggedAfterCancel (MCCaseWorkflow) | EndedCaseNeedsNoOfficer | The attention of a failed allocation is raised after the guard is released, possibly on a Case that was cancelled. |
| ReopenedAfterCancel (MCAssignmentAtom) | OnlyABreachIsReopened | assignment service.ts:729-730: "never clobber ACCEPTED/COMPLETED/CANCELLED". The guard is on the status that was read without a lock and the update (731-738) goes by id alone: a cancellation that commits in between is overwritten, and the cancelled Assignment is on offer again. Of the comment, the part about ACCEPTED and COMPLETED holds (`AcceptedIsNotReopened`). In the Workflow a cancellation waits for the allocation under way, and FollowsTheLifecycle shows that an offer is made from NONE or BREACHED only. |
| CancelDenied (MCCommandPath) | RetryIsNotDenied | docs/deployment.md:66-67: "A pending Update is not a lost write; retry the request with its idempotency key". A cancellation that timed out and then took effect is refused when it is repeated: the precheck (app.ts:1651-1660) answers 409 `NOT_CANCELLABLE`, not to be retried, before the Workflow could say what it remembers. |
| OutageDenied (MCCommandPath) | RetryIsNotDenied | The same sentence, and a start that took effect (a completion alike). The precheck (app.ts:1987-2002 for a start, 3351-3395) does not tell an Appointment or Assignment atom that is out of reach from one that has no row, and answers 404, not to be retried. |
| LateCancelDenies (MCCommandPath) | RetryIsNotDenied | The same sentence. A cancellation that passed its precheck before the Case completed reaches a run that started empty. While it is under way there, a completion that is repeated is refused `NOT_IN_PROGRESS` (case-workflow.ts:1943), though it completed the Case. |
| ReplayedRefusal (MCCommandPath) | EarlyStartMayBeRepeated | case-workflow.ts:1556-1562: a start refused as `NOT_IN_WINDOW` must not be replayed. The Workflow forgets it, but the Gateway derives the Update id from the key, and Temporal answers a known Update id from its own record for as long as the run lasts. |
| RepairOvertaken (MCEffectDelivery) | RepairIsCarriedOut | CONTEXT.md:140-143: an Officer may retry an e-mail in doubt. A reply of a run of the effect that began before the retry overwrites the Workflow's copy with UNKNOWN; the ledger stays PENDING and nothing sends the e-mail. |
| AttentionLost (MCCaseReads) | NoAttentionIsLost | app.ts:945-948: the timeline shows Officer Attention "rather than silently showing half of it". It asks for open and for resolved rows in two calls; one resolved in between is in neither, and no source is named as missing. |
| AnotherSlot (MCClientForms) | AnotherSlotMayBePicked | case-workflow.ts:938-940: after `APPOINTMENT_CONFLICT` the caller is to "pick another slot". The form keeps its key until a success, so the other slot is refused as `IDEMPOTENCY_KEY_REUSED`. |
| SecondCase (MCClientForms) | OneCasePerReport | resident gateway.ts:101-102: a retry after a network failure reattaches "instead of opening a second Case". The desk draws a key per submission. |

## 8. Abstractions, and what is not modelled

* Which Contractors are eligible and who ranks first is left open in CaseLoop
  (`FetchSnapshot` may choose any candidate not yet tried); AllocationRanking models
  the ranking, its two reads and the fence.
* Times are small naturals. `until`, the deadline the loop sleeps to, is captured
  when it goes to sleep, as in the code. The growth of the retry delay is omitted.
* CaseWorkflow puts performance effects (`breach`, `completion`) in `effects` where
  the code queues them; e-mails are not queued there, and `Close` may happen at any
  moment after a terminal Update is answered and no handler runs. EffectDelivery
  is not composed with it: it queues any effect at any time before the Case ends.
* An answer of the e-mail client counts as a delivery, as it does in the code; what
  the provider does with it is outside.
* Activities fail for good only in CommandPath (starts, in the run) and EffectDelivery;
  elsewhere only by a lost reply or a rolled-back commit. An Activity that timed out
  and still runs next to its retry is modelled for effects only.
* A key that comes back with another payload (`IDEMPOTENCY_KEY_REUSED`) is in
  ClientForms only. In CaseWorkflow alone an Update is sent once.
* Prechecks, timeouts and repetition are modelled for cancel, start and complete; the
  other command routes have the same shape and are `Send`.
* Continue-As-New is in CommandPath, with everything it carries over; it happens when no
  handler is busy and no effect in flight, so it is no step of EffectDelivery.
* Row locks are implicit in the atomicity of an action. `cancelAssignmentForCase`
  locks the Assignment first and acceptance the Attempt first, so the database may
  abort one of them; the aborted call is retried.
* `CancelScheduledAppointment` takes its two locking reads (appointment
  service.ts:389-410, the visit and its claim) as one step.
* A Case that answers 200 with a body that does not parse: a Contractor's or Resident's
  detail and every timeline take it for no Case, 404 (app.ts:3920-3927, 4144-4153); the
  Officer's detail and the lists answer 503. Atoms of CaseReads answer by their schema or
  not at all.
* ClientForms remembers every result. The handlers forget `COMPLETION_FAILED`,
  `NOT_IN_WINDOW` and what they throw (case-workflow.ts:1556-1562, 1977-1979); that is
  in CommandPath.
* Reads: paging, field redaction within a row and formatting are left out; rows are
  told apart by their source, number and Contractor. Sums of the Metrics atom
  (leaderboard, history) are not modelled.
* The legacy routes (`createAssignment`, `updateAssignmentStatus`,
  `reassignAssignment`, `updateCaseStatus`) and the status REASSIGNED they use: no
  Workflow calls them.
* Auth (a configured library), the schemas of the orchestration contract, the UI
  package, presentation in the frontends, shared utilities, scripts, end-to-end tests
  and infrastructure: see `components` in `PROJECT.json`.
* `AppointmentTypeOK` is checked as part of CaseWorkflow's `TypeOK`. `CommandTypeOK`,
  `CaseReads!TypeOK`, `ClientForms!TypeOK`, `RankingTypeOK` and `ProofTypeOK` are no
  property of a run; the last three are proved, and of the first two `CommandInv` and
  `ReadProofs!Inv` prove what the theorems need.

## 9. Plan

Done: the core (AssignmentAtom, AppointmentAtom, CaseAtom, CaseLoop, CaseWorkflow),
the fence, the lifecycle and the effects with their refinements, repeated commands,
proof, reads, provisioning and forms; proofs of every safety property that the runs
check (section 6). Left, in this order:

1. Proofs: CancelledCasesAreQuiet for a Workflow in which visits are replaced, but no
   NO_ACCESS visit is recovered while a cancellation is under way. CommandTypeOK.
2. EffectDelivery composed with the loop: the e-mails each step queues, and `Close`.
3. Prechecks and repetition of the remaining commands in CommandPath.
