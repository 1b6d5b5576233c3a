---------------------------- MODULE MCBlobStore ----------------------------
(***************************************************************************)
(* Instances for TLC of the two backends that keep blobs themselves and    *)
(* promise BlobStore: the files of LocalBlob and the shared map of MemBlob. *)
(* A behaviour is one of either, as a process serves one kind of blobs.    *)
(***************************************************************************)
EXTENDS LocalBlob, TLC

CONSTANTS MemDownloads, MemRemovals     \* the operations on the map

VARIABLES
    backend,                            \* files or map
    memOwner, memPending, memData, memUp, memVerdict, memDown, memOpened, memValue, memRem

memVars == <<memOwner, memPending, memData, memUp, memVerdict, memDown, memOpened,
             memValue, memRem>>

Mem == INSTANCE MemBlob WITH
    Downloads <- MemDownloads, Removals <- MemRemovals,
    owner <- memOwner, pending <- memPending, data <- memData, up <- memUp,
    verdict <- memVerdict, down <- memDown, opened <- memOpened, value <- memValue,
    rem <- memRem

MCInit == backend \in {"files", "map"} /\ Init /\ Mem!Init

MCNext ==
    \/ backend = "files" /\ Next /\ UNCHANGED <<backend, memVars>>
    \/ backend = "map" /\ Mem!Next /\ UNCHANGED <<backend, vars>>

MCSpec == MCInit /\ [][MCNext]_<<backend, vars, memVars>>

OpSymmetry ==
    Permutations(Uploads) \cup Permutations(Removals)
        \cup Permutations(MemDownloads) \cup Permutations(MemRemovals)

-----------------------------------------------------------------------------
(* The properties of the map (see MemBlob). *)

(* What an upload prepared in the map stays its own until its Commit or Abort. *)
PreparedOwnsItem == Mem!PreparedOwnsItem

(* The map implements BlobStore as its uploads and removals see it. *)
MapImplementsBlobStore == Mem!ImplementsBlobStore
=============================================================================
