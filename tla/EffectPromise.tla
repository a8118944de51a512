---------------------------- MODULE EffectPromise ---------------------------
(***************************************************************************)
(* What the delivery of Derived Effects promises, without the ledger, the  *)
(* Workflow's copy of it, the calls between them or their failures.  An    *)
(* effect that was queued is owed until it is kept, which takes an answer  *)
(* of the party it was for, or released by an Officer.  An e-mail may come *)
(* in doubt, and what is in doubt is owed again only when an Officer says  *)
(* so.  The books close when nothing is owed or in doubt, for good.        *)
(***************************************************************************)
EXTENDS FiniteSets

CONSTANTS
    Effects,        \* Derived Effect ids of one Case
    Emails          \* those that are e-mails; the others are scores

VARIABLES
    fate,           \* what became of each effect
    answered,       \* the effects whose delivery was answered by its recipient
    closed          \* the Case's books are closed

promiseVars == <<fate, answered, closed>>

Fate == {"NONE", "OWED", "DOUBT", "KEPT", "RELEASED"}

PromiseTypeOK ==
    /\ fate \in [Effects -> Fate]
    /\ answered \subseteq Effects
    /\ closed \in BOOLEAN

PromiseInit ==
    /\ fate = [e \in Effects |-> "NONE"]
    /\ answered = {}
    /\ closed = FALSE

Becomes(e, before, after) ==
    /\ fate[e] \in before
    /\ fate' = [fate EXCEPT ![e] = after]
    /\ UNCHANGED <<answered, closed>>

Owe(e) == ~closed /\ Becomes(e, {"NONE"}, "OWED")
Keep(e) == e \in answered /\ Becomes(e, {"OWED"}, "KEPT")
Doubt(e) == e \in Emails /\ Becomes(e, {"OWED"}, "DOUBT")
OweAgain(e) == Becomes(e, {"DOUBT"}, "OWED")
Release(e) == Becomes(e, {"OWED", "DOUBT"}, "RELEASED")

\* The recipient answers; it may do so for an effect that was released while it
\* was on its way.
Deliver(e) ==
    /\ fate[e] # "NONE"
    /\ answered' = answered \cup {e}
    /\ UNCHANGED <<fate, closed>>

Close ==
    /\ \A e \in Effects : fate[e] \in {"NONE", "KEPT", "RELEASED"}
    /\ closed' = TRUE
    /\ UNCHANGED <<fate, answered>>

PromiseNext ==
    \/ \E e \in Effects : Owe(e) \/ Keep(e) \/ Doubt(e) \/ OweAgain(e)
                          \/ Release(e) \/ Deliver(e)
    \/ Close

PromiseSpec == PromiseInit /\ [][PromiseNext]_promiseVars
=============================================================================
