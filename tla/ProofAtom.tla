------------------------------ MODULE ProofAtom -----------------------------
(***************************************************************************)
(* The Proof atom (apps/atoms/proof): immutable evidence of a visit.  An   *)
(* upload claims a row, writes the object and marks the row ready: three   *)
(* steps over two stores, any of which may be the last before a crash; the *)
(* same upload, sent again, resumes.                                       *)
(***************************************************************************)
EXTENDS Naturals

CONSTANTS
    ProofItems,     \* proof item ids: the idempotency keys of uploads
    Types,          \* BEFORE, AFTER
    Contents,       \* what a file may hold, by checksum
    Uploads,        \* the requests ever sent: <<item, type, content, number>>
    Blank           \* no type and no content

ASSUME ProofAssumption ==
    /\ Blank \notin Types \cup Contents
    /\ Uploads \subseteq ProofItems \X Types \X Contents \X Nat

VARIABLES
    proofItem,      \* proof item -> its row
    object,         \* proof item -> the content stored under its path
    upload          \* request -> where the atom is with it

proofVars == <<proofItem, object, upload>>

NoRow == [type |-> Blank, content |-> Blank, ready |-> FALSE]
UploadPcs == {"new", "claim", "write", "ready", "done"}

ProofTypeOK ==
    /\ proofItem \in [ProofItems -> {NoRow} \cup
                        [type : Types, content : Contents, ready : BOOLEAN]]
    /\ object \in [ProofItems -> Contents \cup {Blank}]
    /\ upload \in [Uploads -> UploadPcs]

ProofInit ==
    /\ proofItem = [i \in ProofItems |-> NoRow]
    /\ object = [i \in ProofItems |-> Blank]
    /\ upload = [r \in Uploads |-> "new"]

UploadAt(r, pc) == upload' = [upload EXCEPT ![r] = pc]

\* Defect (as all operators named ...Defect, never part of a specification): a
\* request with another file resumes the upload of the first.
AnyContentDefect(r) ==
    CASE proofItem[r[1]] = NoRow -> "CLAIMED"
      [] proofItem[r[1]] # NoRow /\ proofItem[r[1]].type # r[2] -> "IDEMPOTENCY_KEY_REUSED"
      [] OTHER -> "RESUME"

ClaimOutcome(r) ==
    CASE proofItem[r[1]] = NoRow -> "CLAIMED"
      [] proofItem[r[1]] # NoRow /\ proofItem[r[1]].type # r[2] -> "IDEMPOTENCY_KEY_REUSED"
      [] proofItem[r[1]].type = r[2] /\ proofItem[r[1]].content # r[3] -> "PROOF_CONTENT_MISMATCH"
      [] OTHER -> "RESUME"

\* The row is inserted unless one is there; a ready one is not written again.
ClaimProofUpload(r) ==
    /\ upload[r] = "claim"
    /\ LET out == ClaimOutcome(r) IN
       /\ proofItem' = IF out = "CLAIMED"
                       THEN [proofItem EXCEPT ![r[1]] =
                                [type |-> r[2], content |-> r[3], ready |-> FALSE]]
                       ELSE proofItem
       /\ UploadAt(r, IF out = "CLAIMED" \/ (out = "RESUME" /\ ~proofItem[r[1]].ready)
                      THEN "write" ELSE "done")
    /\ UNCHANGED object

WriteObject(r) ==
    /\ upload[r] = "write"
    /\ object' = [object EXCEPT ![r[1]] = r[3]]
    /\ UploadAt(r, "ready")
    /\ UNCHANGED proofItem

MarkProofReady(r) ==
    /\ upload[r] = "ready"
    /\ proofItem' = [proofItem EXCEPT ![r[1]].ready = TRUE]
    /\ UploadAt(r, "done")
    /\ UNCHANGED object

\* The atom stops, or its storage fails, before the row is ready.
UploadFails(r) ==
    /\ upload[r] \in {"claim", "write", "ready"}
    /\ UploadAt(r, "done")
    /\ UNCHANGED <<proofItem, object>>

\* The request arrives; what the Gateway asks before is in CommandPath.
StartUpload(r) ==
    /\ upload[r] = "new"
    /\ UploadAt(r, "claim")
    /\ UNCHANGED <<proofItem, object>>

UploadStep(r) ==
    ClaimProofUpload(r) \/ WriteObject(r) \/ MarkProofReady(r) \/ UploadFails(r)

ProofNext == \E r \in Uploads : StartUpload(r) \/ UploadStep(r)

ProofSpec == ProofInit /\ [][ProofNext]_proofVars

\* Defect: a row that was only claimed resolves.
ClaimedIsEnoughDefect(i) == proofItem[i] # NoRow

\* resolveReadyProofItem; its Case and Contractor are those of every row here.
Resolves(i) == proofItem[i].ready

\* What a ready item shows is what was claimed for it, whoever else uploaded under
\* its id, and however often: the row and the object are written by different steps
\* of requests that run side by side.
ReadyProofIsWhatWasClaimed ==
    \A i \in ProofItems : proofItem[i].ready => object[i] = proofItem[i].content
=============================================================================
