----------------------------- MODULE LocalBlob -----------------------------
(***************************************************************************)
(* The blobs of src/oio/blob/local/blob.cpp: one name of a docroot, its    *)
(* file and the ".pending" file next to it.  An upload creates the second  *)
(* with O_EXCL, writes into it and renames it; a download reads the first; *)
(* a removal unlinks it.  An action is one system call with the code up to *)
(* the next one: a daemon may be killed between any two of them, and other *)
(* processes may serve the same volume.                                    *)
(***************************************************************************)
EXTENDS Naturals, FiniteSets, Sequences

CONSTANTS
    Uploads, Downloads, Removals,   \* the operations on the name
    NoBlob,                         \* no file in a directory entry
    Pieces,                         \* how many writes make a blob
    Batch,                          \* read_batch_size, in pieces
    Depth,                          \* directories between the docroot and the file
    ReadErrors,                     \* bound: the failed read(2) of a download
    Faults                          \* what else may go wrong

ASSUME PiecesAssumption == Pieces \in Nat \ {0} /\ Batch \in Nat \ {0}
ASSUME DepthAssumption == Depth \in Nat /\ ReadErrors \in Nat
ASSUME NamesAssumption == NoBlob \notin Uploads
ASSUME FaultsAssumption == Faults \subseteq {"crash", "rename", "unlink", "write"}

VARIABLES
    dirs,       \* how many of the directories exist, from the docroot down
    final,      \* the directory entry of the blob: the upload whose file it is
    temp,       \* the directory entry "<blob>.pending"
    written,    \* the pieces in the file each upload created
    up,         \* where each upload is
    level,      \* the depth of the directory its createParent makes next
    asked,      \* how many pieces its caller gave to Write
    refused,    \* how many times its Prepare answered Forbidden
    verdict,    \* what its Commit or Abort answered
    kept,       \* history: the uploads whose pending file unlink(2) failed to remove
    down,       \* where each download is
    opened,     \* the file it opened
    pos,        \* its offset in that file
    range,      \* size_expected_
    stale,      \* its buffer holds bytes no read(2) put there
    got,        \* what its caller received
    rem         \* where each removal is

entries == <<dirs, final, temp>>
uploadVars == <<written, up, level, asked, refused, verdict, kept>>
downloadVars == <<down, opened, pos, range, stale, got>>
vars == <<entries, uploadVars, downloadVars, rem>>

Junk == 0
UploadPc == {"init", "retry", "mkdir", "stat", "prepared", "rename", "reject", "discard",
             "done", "gone"}
TypeOK ==
    /\ dirs \in 0 .. Depth
    /\ final \in Uploads \cup {NoBlob}
    /\ temp \in Uploads \cup {NoBlob}
    /\ written \in [Uploads -> Seq(1 .. Pieces)]
    /\ up \in [Uploads -> UploadPc]
    /\ level \in [Uploads -> 0 .. Depth]
    /\ asked \in [Uploads -> 0 .. Pieces]
    /\ refused \in [Uploads -> 0 .. Depth]
    /\ verdict \in [Uploads -> {"none", "stored", "aborted", "failed"}]
    /\ kept \subseteq Uploads
    /\ down \in [Downloads -> {"init", "prepared", "done"}]
    /\ opened \in [Downloads -> Uploads \cup {NoBlob}]
    /\ pos \in [Downloads -> 0 .. Pieces]
    /\ range \in [Downloads -> 0 .. Pieces]
    /\ stale \in [Downloads -> BOOLEAN]
    /\ got \in [Downloads -> Seq(0 .. Pieces)]
    /\ rem \in [Removals -> {"init", "prepared", "done"}]

Init ==
    /\ dirs = 0
    /\ final = NoBlob /\ temp = NoBlob
    /\ written = [u \in Uploads |-> <<>>]
    /\ up = [u \in Uploads |-> "init"]
    /\ level = [u \in Uploads |-> 0]
    /\ asked = [u \in Uploads |-> 0]
    /\ refused = [u \in Uploads |-> 0]
    /\ verdict = [u \in Uploads |-> "none"]
    /\ kept = {}
    /\ down = [d \in Downloads |-> "init"]
    /\ opened = [d \in Downloads |-> NoBlob]
    /\ pos = [d \in Downloads |-> 0]
    /\ range = [d \in Downloads |-> 0]
    /\ stale = [d \in Downloads |-> FALSE]
    /\ got = [d \in Downloads |-> <<>>]
    /\ rem = [r \in Removals |-> "init"]

-----------------------------------------------------------------------------
(* Upload::Prepare *)

Go(u, pc) == up' = [up EXCEPT ![u] = pc]

(* Status(Cause::Forbidden): the step stays Init, Prepare may be called again. *)
Forbid(u) ==
    /\ Go(u, "init")
    /\ refused' = [refused EXCEPT ![u] = @ + 1]

(* Mutant of CreateTemp: the open has lost its O_EXCL. *)
CreateShared(u) ==
    /\ up[u] \in {"init", "retry"}
    /\ dirs = Depth
    /\ temp' = u
    /\ written' = [written EXCEPT ![u] = <<>>]
    /\ Go(u, "stat")
    /\ UNCHANGED <<dirs, final, level, asked, refused, verdict, kept, downloadVars, rem>>

(* Mutant of CreateTemp: Already goes through unlinkTempAndReset here too. *)
CreateOrClean(u) ==
    /\ up[u] \in {"init", "retry"}
    /\ dirs = Depth
    /\ IF temp # NoBlob
       THEN Go(u, "reject") /\ UNCHANGED <<temp, written>>
       ELSE /\ temp' = u
            /\ written' = [written EXCEPT ![u] = <<>>]
            /\ Go(u, "stat")
    /\ UNCHANGED <<dirs, final, level, asked, refused, verdict, kept, downloadVars, rem>>

(* open(path_temp, O_CREAT | O_EXCL) in a directory that exists. *)
CreateTemp(u) ==
    /\ up[u] \in {"init", "retry"}
    /\ dirs = Depth
    /\ IF temp # NoBlob
       THEN Go(u, "init") /\ UNCHANGED <<temp, written>>     \* EEXIST: Already
       ELSE /\ temp' = u
            /\ written' = [written EXCEPT ![u] = <<>>]
            /\ Go(u, "stat")
    /\ UNCHANGED <<dirs, final, level, asked, refused, verdict, kept, downloadVars, rem>>

(* The same open with a parent missing: ENOENT, once for createParent. *)
NoParent(u) ==
    /\ dirs < Depth
    /\ \/ /\ up[u] = "init"
          /\ Go(u, "mkdir")
          /\ level' = [level EXCEPT ![u] = Depth]
          /\ UNCHANGED refused
       \/ /\ up[u] = "retry"
          /\ Forbid(u)
          /\ UNCHANGED level
    /\ UNCHANGED <<entries, written, asked, verdict, kept, downloadVars, rem>>

(* Mutant of Mkdir: no recursion to the parent of the parent. *)
MkdirLast(u) ==
    /\ up[u] = "mkdir"
    /\ IF level[u] = dirs + 1
       THEN dirs' = dirs + 1 /\ Go(u, "retry") /\ UNCHANGED refused
       ELSE Forbid(u) /\ UNCHANGED dirs
    /\ UNCHANGED <<final, temp, written, level, asked, verdict, kept, downloadVars, rem>>

(* mkdir in createParent: a directory whose parent exists is made and the  *)
(* recursion ends; one that is there is an error; else it goes one up.     *)
Mkdir(u) ==
    /\ up[u] = "mkdir"
    /\ \/ /\ level[u] = dirs + 1
          /\ dirs' = dirs + 1
          /\ Go(u, "retry")
          /\ UNCHANGED <<level, refused>>
       \/ /\ level[u] <= dirs
          /\ Forbid(u)
          /\ UNCHANGED <<dirs, level>>
       \/ /\ level[u] > dirs + 1
          /\ level' = [level EXCEPT ![u] = @ - 1]
          /\ UNCHANGED <<dirs, up, refused>>
    /\ UNCHANGED <<final, temp, written, asked, verdict, kept, downloadVars, rem>>

(* unlink(path_temp): an error is logged, "Leaving pending file", and that  *)
(* is all; the upload goes on as if the file were gone.                     *)
UnlinkTemp(u) ==
    \/ temp' = NoBlob /\ UNCHANGED kept
    \/ "unlink" \in Faults /\ kept' = kept \cup {u} /\ UNCHANGED temp

(* Mutant of StatFinal: the pending file is taken for the proof that there is no blob. *)
StatNothing(u) ==
    /\ up[u] = "stat"
    /\ Go(u, "prepared")
    /\ UNCHANGED <<entries, written, level, asked, refused, verdict, kept, downloadVars, rem>>

(* stat(path_final), once the pending file is ours. *)
StatFinal(u) ==
    /\ up[u] = "stat"
    /\ Go(u, IF final = NoBlob THEN "prepared" ELSE "reject")
    /\ UNCHANGED <<entries, written, level, asked, refused, verdict, kept, downloadVars, rem>>

(* unlinkTempAndReset(Already): the upload may be prepared again. *)
Reject(u) ==
    /\ up[u] = "reject"
    /\ UnlinkTemp(u)
    /\ Go(u, "init")
    /\ UNCHANGED <<dirs, final, written, level, asked, refused, verdict, downloadVars, rem>>

-----------------------------------------------------------------------------
(* Upload::Write, Commit, Abort *)

(* Mutant of Write: the rest of a write that was interrupted is forgotten. *)
WriteShort(u) ==
    /\ up[u] = "prepared"
    /\ asked[u] < Pieces
    /\ asked' = [asked EXCEPT ![u] = @ + 1]
    /\ \/ written' = [written EXCEPT ![u] = Append(@, asked'[u])]
       \/ UNCHANGED written
    /\ UNCHANGED <<entries, up, level, refused, verdict, kept, downloadVars, rem>>

(* The piece is appended, or the error is logged and nothing is told. *)
Write(u) ==
    /\ up[u] = "prepared"
    /\ asked[u] < Pieces
    /\ asked' = [asked EXCEPT ![u] = @ + 1]
    /\ \/ written' = [written EXCEPT ![u] = Append(@, asked'[u])]
       \/ "write" \in Faults /\ UNCHANGED written
    /\ UNCHANGED <<entries, up, level, refused, verdict, kept, downloadVars, rem>>

(* Commit up to the rename: the attributes are set and the file is closed. *)
Close(u) ==
    /\ up[u] = "prepared"
    /\ asked[u] = Pieces
    /\ Go(u, "rename")
    /\ UNCHANGED <<entries, written, level, asked, refused, verdict, kept, downloadVars, rem>>

(* rename(path_temp, path_final): what the pending entry names, if anything. *)
Rename(u) ==
    /\ up[u] = "rename"
    /\ \/ /\ temp # NoBlob
          /\ final' = temp
          /\ temp' = NoBlob
          /\ verdict' = [verdict EXCEPT ![u] = "stored"]
          /\ Go(u, "done")
       \/ /\ temp = NoBlob \/ "rename" \in Faults
          /\ verdict' = [verdict EXCEPT ![u] = "failed"]
          /\ Go(u, "discard")
          /\ UNCHANGED <<final, temp>>
    /\ UNCHANGED <<dirs, written, level, asked, refused, kept, downloadVars, rem>>

Abort(u) ==
    /\ up[u] = "prepared"
    /\ verdict' = [verdict EXCEPT ![u] = "aborted"]
    /\ Go(u, "discard")
    /\ UNCHANGED <<entries, written, level, asked, refused, kept, downloadVars, rem>>

(* Mutant of Discard: the file is closed and not unlinked. *)
DiscardKept(u) ==
    /\ up[u] = "discard"
    /\ Go(u, "done")
    /\ UNCHANGED <<entries, written, level, asked, refused, verdict, kept, downloadVars, rem>>

(* unlinkTempAndReset at the end of an Abort or of a failed Commit. *)
Discard(u) ==
    /\ up[u] = "discard"
    /\ UnlinkTemp(u)
    /\ Go(u, "done")
    /\ UNCHANGED <<dirs, final, written, level, asked, refused, verdict, downloadVars, rem>>

(* The process dies, or the object is destroyed with the transaction open:  *)
(* the destructor closes and unlinks nothing.                               *)
Vanish(u) ==
    /\ "crash" \in Faults
    /\ up[u] \notin {"init", "done", "gone"}
    /\ Go(u, "gone")
    /\ UNCHANGED <<entries, written, level, asked, refused, verdict, kept, downloadVars, rem>>

-----------------------------------------------------------------------------
(* Download *)

PrepareDownload(d) ==
    /\ down[d] = "init"
    /\ final # NoBlob                                   \* else NotFound
    /\ opened' = [opened EXCEPT ![d] = final]
    /\ down' = [down EXCEPT ![d] = "prepared"]
    /\ UNCHANGED <<entries, uploadVars, pos, range, stale, got, rem>>

(* Refused until the download is prepared, that is after Prepare has used it. *)
SetRange(d, size) ==
    /\ down[d] = "prepared"
    /\ range' = [range EXCEPT ![d] = size]
    /\ UNCHANGED <<entries, uploadVars, down, opened, pos, stale, got, rem>>

(* The size of the buffer that loadBuffer allocates. *)
Limit(d) ==
    LET remaining == range[d] - pos[d]
    IN  IF range[d] > pos[d] /\ remaining < Batch THEN remaining ELSE Batch

(* Mutant of Read: a batch that is not full is taken for the end of the file. *)
ReadToShort(d) ==
    /\ down[d] = "prepared" /\ ~stale[d]
    /\ LET file == written[opened[d]]
           last == IF pos[d] + Limit(d) < Len(file) THEN pos[d] + Limit(d) ELSE Len(file)
       IN  /\ got' = [got EXCEPT ![d] = @ \o SubSeq(file, pos[d] + 1, last)]
           /\ pos' = [pos EXCEPT ![d] = last]
           /\ down' = [down EXCEPT ![d] = IF last < pos[d] + Batch THEN "done" ELSE @]
    /\ UNCHANGED <<entries, uploadVars, opened, range, stale, rem>>

(* Read with an empty buffer: what read(2) returns is handed over at once. *)
Read(d) ==
    /\ down[d] = "prepared" /\ ~stale[d]
    /\ LET file == written[opened[d]]
           last == IF pos[d] + Limit(d) < Len(file) THEN pos[d] + Limit(d) ELSE Len(file)
       IN  /\ got' = [got EXCEPT ![d] = @ \o SubSeq(file, pos[d] + 1, last)]
           /\ pos' = [pos EXCEPT ![d] = last]
           /\ down' = [down EXCEPT ![d] = IF last = pos[d] THEN "done" ELSE @]
    /\ UNCHANGED <<entries, uploadVars, opened, range, stale, rem>>

(* A read(2) that fails: Read returns 0 and leaves the buffer at the size   *)
(* it was given for the data that did not come.                             *)
ReadFails(d) ==
    /\ Cardinality({i \in DOMAIN got[d] : got[d][i] = Junk}) < ReadErrors
    /\ down[d] = "prepared" /\ ~stale[d]
    /\ stale' = [stale EXCEPT ![d] = TRUE]
    /\ UNCHANGED <<entries, uploadVars, down, opened, pos, range, got, rem>>

(* Read with a buffer that is not empty: it is handed over as it is. *)
ReadStale(d) ==
    /\ down[d] = "prepared" /\ stale[d]
    /\ got' = [got EXCEPT ![d] = Append(@, Junk)]
    /\ stale' = [stale EXCEPT ![d] = FALSE]
    /\ UNCHANGED <<entries, uploadVars, down, opened, pos, range, rem>>

-----------------------------------------------------------------------------
(* Removal *)

PrepareRemoval(r) ==
    /\ rem[r] = "init"
    /\ final # NoBlob
    /\ rem' = [rem EXCEPT ![r] = "prepared"]
    /\ UNCHANGED <<entries, uploadVars, downloadVars>>

(* unlink(path): it may find nothing, or another blob than Prepare did. *)
CommitRemoval(r) ==
    /\ rem[r] = "prepared"
    /\ final' = NoBlob \/ ("unlink" \in Faults /\ UNCHANGED final)
    /\ rem' = [rem EXCEPT ![r] = "done"]
    /\ UNCHANGED <<dirs, temp, uploadVars, downloadVars>>

AbortRemoval(r) ==
    /\ rem[r] = "prepared"
    /\ rem' = [rem EXCEPT ![r] = "done"]
    /\ UNCHANGED <<entries, uploadVars, downloadVars>>

-----------------------------------------------------------------------------
UploadStep(u) ==
    \/ CreateTemp(u) \/ NoParent(u) \/ Mkdir(u) \/ StatFinal(u) \/ Reject(u)
    \/ Write(u) \/ Close(u) \/ Rename(u) \/ Abort(u) \/ Discard(u) \/ Vanish(u)

DownloadStep(d) ==
    \/ PrepareDownload(d) \/ Read(d) \/ ReadFails(d) \/ ReadStale(d)
    \/ \E size \in 1 .. Pieces : SetRange(d, size)

RemovalStep(r) == PrepareRemoval(r) \/ CommitRemoval(r) \/ AbortRemoval(r)

Next ==
    \/ \E u \in Uploads : UploadStep(u)
    \/ \E d \in Downloads : DownloadStep(d)
    \/ \E r \in Removals : RemovalStep(r)

Spec == Init /\ [][Next]_vars

-----------------------------------------------------------------------------
(* Properties *)

(* An upload between its exclusive open and its rename or unlink. *)
Holding == {"stat", "prepared", "rename", "reject", "discard"}

(* Mutual exclusion by O_EXCL (Prepare, lines 318-332): while an upload     *)
(* holds the pending file the entry names its own file, so that its rename  *)
(* publishes, and its unlink removes, nothing of another upload.          *)
OneWriter == \A u \in Uploads : up[u] \in Holding => temp = u

(* stat(path_final) comes after the exclusive open (line 340): what it saw  *)
(* is still true at the rename, which replaces no blob, even when uploads   *)
(* are committed, removed and started over in the meantime.                 *)
NothingToOverwrite == \A u \in Uploads : up[u] \in {"prepared", "rename"} => final = NoBlob

(* Nobody can open a blob that lacks a piece its uploader wrote, whatever   *)
(* crashes and aborts come before (Commit, lines 350-373).                  *)
WholeWhenPublished == final # NoBlob => written[final] = [i \in 1 .. Pieces |-> i]

(* A pending file has an upload that will remove it, or one that died, or   *)
(* one whose unlink(2) failed: a transaction that ended, even with an error, *)
(* leaves none otherwise (lines 288-293).                                   *)
NoResidue == temp # NoBlob => up[temp] \in Holding \cup {"gone"} \/ temp \in kept

(* A pending file whose upload let go of it, died or could not unlink it,   *)
(* is nobody's: no other upload takes it over, removes it (EEXIST gives     *)
(* Already before unlinkTempAndReset, lines 331-332) or publishes it, and   *)
(* the name receives no blob any more.                                      *)
OrphanBlocksTheName ==
    [][temp # NoBlob /\ up[temp] \notin Holding =>
           temp' = temp /\ final' \in {final, NoBlob}]_vars

(* How many of the first i pieces a download was given came from read(2),   *)
(* the others being buffers left by a failed one.                           *)
Fetched(d, i) == Cardinality({j \in 1 .. i : got[d][j] # Junk})

(* A download reads the blob that was published when it was prepared, in    *)
(* order and to its end, though the name is removed or reused while it      *)
(* reads, whatever ranges it is given and reads fail (lines 86-110).        *)
DownloadReadsOneBlob ==
    \A d \in Downloads :
        LET file == written[opened[d]]
        IN  /\ \A i \in 1 .. Len(got[d]) : got[d][i] # Junk =>
                  Fetched(d, i) <= Len(file) /\ got[d][i] = file[Fetched(d, i)]
            /\ down[d] = "done" =>
                  Fetched(d, Len(got[d])) = Pieces /\ file = [i \in 1 .. Pieces |-> i]

(* createParent makes one directory at a time and fails when another upload *)
(* makes it first (lines 295-309); yet a Forbidden is never in vain: as     *)
(* many directories exist as any upload was refused for want of one, so     *)
(* Depth attempts at most are lost.                                         *)
RefusalIsProgress == \A u \in Uploads : refused[u] <= dirs

(* The files implement the abstract store: publication in one step, never   *)
(* over a blob, never after an abort; downloads open published blobs only.  *)
Abstract == INSTANCE BlobStore WITH blob <- final
ImplementsBlobStore == Abstract!Store

(* Upload: "Validate the whole upload" (api/blob.hpp:101) is what Commit    *)
(* should do: one that says OK has published every piece.  It does not hold *)
(* where "write" is a fault (Write); WholeWhenPublished is what is left.    *)
CommitValidatesTheWhole ==
    \A u \in Uploads : verdict[u] = "stored" => Len(written[u]) = Pieces
=============================================================================
