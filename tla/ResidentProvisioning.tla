------------------------ MODULE ResidentProvisioning ------------------------
(***************************************************************************)
(* How an Account becomes a Resident who may open Cases: the Auth atom     *)
(* signs the person up, the Gateway nudges the Resident Provisioning       *)
(* Workflow (one id per Account, no answer awaited), its Activity writes   *)
(* the profile in the Resident atom, and the Resident's desk asks          *)
(* /api/me until the profile is there, which nudges again.                 *)
(***************************************************************************)
CONSTANTS
    Residents,      \* Account ids of role RESIDENT
    Taken           \* those whose e-mail another Account's profile holds

ASSUME TakenAssumption == Taken \subseteq Residents

VARIABLES
    account,        \* the Accounts that signed up
    profile,        \* the Accounts that have a profile
    provisioning,   \* the Accounts whose Workflow runs
    desk            \* Account -> what its desk knows of it

residentVars == <<account, profile, provisioning, desk>>

DeskStates == {"closed", "opened", "error", "PROVISIONING", "PROVISIONED"}

ResidentTypeOK ==
    /\ account \subseteq Residents /\ profile \subseteq account \ Taken
    /\ provisioning \subseteq account
    /\ desk \in [Residents -> DeskStates]

ResidentInit ==
    /\ account = {} /\ profile = {} /\ provisioning = {}
    /\ desk = [a \in Residents |-> "closed"]

\* ensureResidentProvisioning: a run that is open is used, a start may be lost.
Nudge(a, lost) ==
    provisioning' = IF lost THEN provisioning ELSE provisioning \cup {a}

\* A sign-up or a sign-in that the Auth atom answered.
SignIn(a, lost) ==
    /\ desk[a] = "closed"
    /\ account' = account \cup {a} /\ desk' = [desk EXCEPT ![a] = "opened"]
    /\ Nudge(a, lost)
    /\ UNCHANGED profile

Reload(a) ==
    /\ desk[a] = "error" /\ desk' = [desk EXCEPT ![a] = "opened"]
    /\ UNCHANGED <<account, profile, provisioning>>

\* Defect (as all operators named ...Defect, never part of a specification): only
\* a sign-in starts the Workflow.
NoNudgeDefect(a, lost) ==
    /\ desk[a] \in {"opened", "PROVISIONING"}
    /\ desk' = [desk EXCEPT ![a] = IF a \in profile THEN "PROVISIONED" ELSE "PROVISIONING"]
    /\ lost \in BOOLEAN /\ UNCHANGED <<account, profile, provisioning>>

\* GET /api/me, which the desk repeats while the profile is missing.
Ask(a, lost) ==
    /\ desk[a] \in {"opened", "PROVISIONING"}
    /\ \/ /\ a \in profile
          /\ desk' = [desk EXCEPT ![a] = "PROVISIONED"]
          /\ UNCHANGED provisioning
       \/ /\ a \notin profile
          /\ desk' = [desk EXCEPT ![a] = "PROVISIONING"]
          /\ Nudge(a, lost)
    /\ UNCHANGED <<account, profile>>

\* The Resident atom is out of reach: without an earlier answer the desk gives up.
AskFails(a) ==
    /\ desk[a] = "opened" /\ desk' = [desk EXCEPT ![a] = "error"]
    /\ UNCHANGED <<account, profile, provisioning>>

\* ensureResidentProfile inserts once and converges on the row of this Account; an
\* e-mail that is taken ends the run.  A lost reply has the Activity repeated.
Provision(a, lost) ==
    /\ a \in provisioning
    /\ profile' = profile \cup ({a} \ Taken)
    /\ provisioning' = IF lost THEN provisioning ELSE provisioning \ {a}
    /\ UNCHANGED <<account, desk>>

ResidentStep(a) ==
    \/ Reload(a) \/ AskFails(a)
    \/ \E lost \in BOOLEAN : SignIn(a, lost) \/ Ask(a, lost) \/ Provision(a, lost)
=============================================================================
