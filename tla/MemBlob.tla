------------------------------ MODULE MemBlob ------------------------------
(***************************************************************************)
(* The blobs of src/oio/blob/mem/blob.cpp: one name of a map shared by     *)
(* every operation, whose items are pending until their upload commits.    *)
(* The code is not meant for threads ("No thread-safety at all, here"):    *)
(* each method is one action, and the operations of different callers      *)
(* interleave between their methods.  A method called in the wrong step    *)
(* answers InternalError and does nothing; it has no action.               *)
(* Write does not look at the step: it is called in between, as            *)
(* api/blob.hpp has it.                                                    *)
(***************************************************************************)
EXTENDS Naturals, SequencesExt

CONSTANTS
    Uploads, Downloads, Removals,   \* the operations on the name
    NoBlob,                         \* the map has no item of that name: no upload
    Pieces                          \* how many writes make a blob

VARIABLES
    owner,      \* the upload that created the item, or NoBlob
    pending,    \* Item.pending
    data,       \* Item.data: who wrote each piece
    up,         \* the step of each upload
    verdict,    \* what its Commit or Abort answered
    down,       \* the step of each download
    opened,     \* the item it took its value from
    value,      \* value_, copied by Prepare
    rem         \* the step of each removal

cache == <<owner, pending, data>>
vars == <<cache, up, verdict, down, opened, value, rem>>

Steps == {"init", "prepared", "done"}

TypeOK ==
    /\ owner \in Uploads \cup {NoBlob}
    /\ pending \in BOOLEAN
    /\ data \in Seq(Uploads)
    /\ owner = NoBlob => ~pending /\ data = <<>>
    /\ up \in [Uploads -> Steps]
    /\ verdict \in [Uploads -> {"none", "stored", "aborted", "failed"}]
    /\ down \in [Downloads -> Steps]
    /\ opened \in [Downloads -> Uploads \cup {NoBlob}]
    /\ value \in [Downloads -> Seq(Uploads)]
    /\ rem \in [Removals -> Steps]

Init ==
    /\ owner = NoBlob /\ pending = FALSE /\ data = <<>>
    /\ up = [u \in Uploads |-> "init"]
    /\ verdict = [u \in Uploads |-> "none"]
    /\ down = [d \in Downloads |-> "init"]
    /\ opened = [d \in Downloads |-> NoBlob]
    /\ value = [d \in Downloads |-> <<>>]
    /\ rem = [r \in Removals |-> "init"]

(* Cache::Stat; pending says the rest of it. *)
Present == owner # NoBlob

(* Cache::Create; what answers Already changes nothing. *)
Create(u) == ~Present /\ owner' = u /\ pending' = TRUE /\ data' = <<>>

(* Cache::Remove: items.erase(name) *)
EraseItem == owner' = NoBlob /\ pending' = FALSE /\ data' = <<>>

(* Cache::Commit: NotFound, InternalError, or the item is validated. *)
Validate == pending' = FALSE /\ UNCHANGED <<owner, data>>

(* Cache::Abort: NotFound, InternalError, or the item is erased. *)
Discard == IF pending THEN EraseItem ELSE UNCHANGED cache

(* Cache::Get: the value of the item, pending or not. *)
Get(d) ==
    /\ Present
    /\ opened' = [opened EXCEPT ![d] = owner]
    /\ value' = [value EXCEPT ![d] = data]

-----------------------------------------------------------------------------
(* Mutant of Prepare: an item that is pending is created again. *)
PrepareOver(u) ==
    /\ up[u] = "init"
    /\ Present => pending
    /\ owner' = u /\ pending' = TRUE /\ data' = <<>>
    /\ up' = [up EXCEPT ![u] = "prepared"]
    /\ UNCHANGED <<verdict, down, opened, value, rem>>

Prepare(u) ==
    /\ up[u] = "init"
    /\ Create(u)
    /\ up' = [up EXCEPT ![u] = "prepared"]
    /\ UNCHANGED <<verdict, down, opened, value, rem>>

(* Cache::Write: on any item of the name that is pending. *)
Write(u) ==
    /\ up[u] = "prepared"
    /\ Present /\ pending
    /\ Len(data) < Pieces
    /\ data' = Append(data, u)
    /\ UNCHANGED <<owner, pending, up, verdict, down, opened, value, rem>>

Commit(u) ==
    /\ up[u] = "prepared"
    /\ Len(data) = Pieces
    /\ up' = [up EXCEPT ![u] = "done"]
    /\ verdict' = [verdict EXCEPT ![u] = IF Present /\ pending THEN "stored" ELSE "failed"]
    /\ Validate
    /\ UNCHANGED <<down, opened, value, rem>>

(* Abort: an item that is no longer there is as good as aborted. *)
Abort(u) ==
    /\ up[u] = "prepared"
    /\ up' = [up EXCEPT ![u] = "done"]
    /\ verdict' = [verdict EXCEPT ![u] = IF Present /\ ~pending THEN "failed" ELSE "aborted"]
    /\ Discard
    /\ UNCHANGED <<down, opened, value, rem>>

PrepareDownload(d) ==
    /\ down[d] = "init"
    /\ Get(d)
    /\ down' = [down EXCEPT ![d] = "prepared"]
    /\ UNCHANGED <<cache, up, verdict, rem>>

(* Read: the whole value at once. *)
Read(d) ==
    /\ down[d] = "prepared"
    /\ down' = [down EXCEPT ![d] = "done"]
    /\ UNCHANGED <<cache, up, verdict, opened, value, rem>>

PrepareRemoval(r) ==
    /\ rem[r] = "init"
    /\ Present /\ ~pending
    /\ rem' = [rem EXCEPT ![r] = "prepared"]
    /\ UNCHANGED <<cache, up, verdict, down, opened, value>>

(* Mutant of CommitRemoval: the item is not looked at again. *)
CommitRemovalBlindly(r) ==
    /\ rem[r] = "prepared"
    /\ rem' = [rem EXCEPT ![r] = "done"]
    /\ EraseItem
    /\ UNCHANGED <<up, verdict, down, opened, value>>

(* The item is looked up again: NotFound, in the same step, if it is gone   *)
(* or belongs to a new upload.                                              *)
CommitRemoval(r) ==
    /\ rem[r] = "prepared"
    /\ Present /\ ~pending
    /\ rem' = [rem EXCEPT ![r] = "done"]
    /\ EraseItem
    /\ UNCHANGED <<up, verdict, down, opened, value>>

AbortRemoval(r) ==
    /\ rem[r] = "prepared"
    /\ rem' = [rem EXCEPT ![r] = "done"]
    /\ UNCHANGED <<cache, up, verdict, down, opened, value>>

Next ==
    \/ \E u \in Uploads : Prepare(u) \/ Write(u) \/ Commit(u) \/ Abort(u)
    \/ \E d \in Downloads : PrepareDownload(d) \/ Read(d)
    \/ \E r \in Removals : PrepareRemoval(r) \/ CommitRemoval(r) \/ AbortRemoval(r)

Spec == Init /\ [][Next]_vars

-----------------------------------------------------------------------------
(* Properties *)

(* The item an upload prepared stays its own and pending until its Commit   *)
(* or Abort: removals leave pending items alone (Stat, lines 244-246), other *)
(* uploads do not get in (lines 41-43), so that a Commit never fails and no  *)
(* piece of another upload is in it.                                        *)
PreparedOwnsItem ==
    \A u \in Uploads : up[u] = "prepared" =>
        owner = u /\ pending /\ \A i \in DOMAIN data : data[i] = u

(* The map implements the abstract store, as uploads and removals see it:   *)
(* a download may copy an item that is pending, which no store shows.       *)
Abstract == INSTANCE BlobStore WITH
    blob <- IF pending THEN NoBlob ELSE owner,
    Downloads <- {},
    opened <- <<>>
ImplementsBlobStore == Abstract!Store
=============================================================================
