----------------------------- MODULE BlobStore -----------------------------
(***************************************************************************)
(* What a backend promises about one name, whatever files, maps or devices *)
(* it keeps the blob in (the transactions of src/oio/api/blob.hpp): an     *)
(* upload is published by its Commit, at once and only where there is no   *)
(* blob; an upload that failed or was aborted is never seen; a download    *)
(* reads a blob that was published when it was prepared.                   *)
(***************************************************************************)

CONSTANTS
    Uploads,            \* the uploads to the name
    Downloads,          \* the downloads from it
    NoBlob              \* the name holds nothing

VARIABLES
    blob,               \* the upload the name holds, or NoBlob
    verdict,            \* what each upload's transaction ended with
    opened              \* the blob each download reads

Verdicts == {"none", "stored", "aborted", "failed"}

storeVars == <<blob, verdict, opened>>

StoreInit ==
    /\ blob = NoBlob
    /\ verdict = [u \in Uploads |-> "none"]
    /\ opened = [d \in Downloads |-> NoBlob]

(* Upload::Commit that returns OK. *)
Publish(u) ==
    /\ blob = NoBlob
    /\ verdict[u] = "none"
    /\ blob' = u
    /\ verdict' = [verdict EXCEPT ![u] = "stored"]
    /\ UNCHANGED opened

(* Upload::Abort, or a Commit that returns an error. *)
GiveUp(u, why) ==
    /\ verdict[u] = "none"
    /\ verdict' = [verdict EXCEPT ![u] = why]
    /\ UNCHANGED <<blob, opened>>

(* Download::Prepare that returns OK. *)
Open(d) ==
    /\ opened[d] = NoBlob
    /\ blob # NoBlob
    /\ opened' = [opened EXCEPT ![d] = blob]
    /\ UNCHANGED <<blob, verdict>>

(* Removal::Commit that returns OK. *)
Remove ==
    /\ blob # NoBlob
    /\ blob' = NoBlob
    /\ UNCHANGED <<verdict, opened>>

StoreNext ==
    \/ \E u \in Uploads : Publish(u) \/ \E why \in {"aborted", "failed"} : GiveUp(u, why)
    \/ \E d \in Downloads : Open(d)
    \/ Remove

Store == StoreInit /\ [][StoreNext]_storeVars
=============================================================================
