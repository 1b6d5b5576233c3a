------------------------------- MODULE EcBlob -------------------------------
(***************************************************************************)
(* The erasure coded blobs of oio/blob/ec/blob.cpp: an upload cuts a chunk *)
(* into K data and M parity fragments and stores one on each target, a     *)
(* download asks the targets in order (RawxUrlSet::operator<) until it can *)
(* decode, which it never can: it asks for an empty range of each          *)
(* fragment.  The rawx at each target is reached through HttpBlob; here it *)
(* answers anything it may.  liberasurecode is not in the repository: it   *)
(* decodes K or more different fragments that have their header at least.  *)
(*                                                                         *)
(* The operations are coroutines of one thread.  Two loops of the code do  *)
(* not yield and may not end: whoever enters one stops the process.        *)
(***************************************************************************)
EXTENDS Integers, FiniteSets

CONSTANTS
    K, M,           \* EcCommand::K, EcCommand::M
    ChunkSize,      \* EcCommand::ChunkSize, in pieces
    Downloads       \* the downloads of the chunk

ASSUME CodeAssumption == K \in Nat \ {0} /\ M \in Nat \ {0}
ASSUME ChunkSizeAssumption == ChunkSize \in Nat

Nums == 0 .. (K + M - 1)    \* the chunk numbers of the targets

VARIABLES
    frag,       \* what each target stores: none, valid, bad
    up,         \* the step of the upload
    filled,     \* how many pieces its buffer holds
    toSend,     \* the chunk number its loop on the targets is at
    down,       \* the step of each download
    toFetch,    \* the chunk number its loop on the targets is at
    have,       \* encoded_data and encoded_parity: what it takes for fragments
    fragLen     \* encoded_fragment_len

uploadVars == <<up, filled, toSend>>
downloadVars == <<down, toFetch, have, fragLen>>
vars == <<frag, uploadVars, downloadVars>>

Fragments == {"none", "valid", "bad"}
UploadSteps == {"init", "prepared", "storing", "stored", "failed", "removing", "aborted", "stuck"}
DownloadSteps == {"init", "fetching", "decoded", "refused", "failed", "stuck"}

FragmentLength == 1

TypeOK ==
    /\ frag \in [Nums -> Fragments]
    /\ up \in UploadSteps /\ filled \in 0 .. ChunkSize /\ toSend \in 0 .. (K + M)
    /\ down \in [Downloads -> DownloadSteps] /\ toFetch \in [Downloads -> 0 .. (K + M)]
    /\ have \in [Downloads -> SUBSET Nums] /\ fragLen \in [Downloads -> 0 .. FragmentLength]

Init ==
    /\ frag = [i \in Nums |-> "none"]
    /\ up = "init" /\ filled = 0 /\ toSend = 0
    /\ down = [d \in Downloads |-> "init"] /\ toFetch = [d \in Downloads |-> 0]
    /\ have = [d \in Downloads |-> {}] /\ fragLen = [d \in Downloads |-> 0]

(* Nobody is in a loop that does not yield. *)
Runs == up # "stuck" /\ \A d \in Downloads : down[d] # "stuck"

-----------------------------------------------------------------------------
(* The upload. *)

PrepareUpload ==
    /\ up = "init" /\ up' = "prepared"
    /\ UNCHANGED <<frag, filled, toSend, downloadVars>>

(* Mutant of Write: one piece more than there is room for. *)
WriteMore ==
    /\ up = "prepared"
    /\ IF filled <= ChunkSize
          THEN filled' = filled + 1 /\ UNCHANGED up
          ELSE up' = "stuck" /\ UNCHANGED filled
    /\ UNCHANGED <<frag, toSend, downloadVars>>

(* Write waits for room that nobody makes. *)
Write ==
    /\ up = "prepared"
    /\ IF filled < ChunkSize
          THEN filled' = filled + 1 /\ UNCHANGED up
          ELSE up' = "stuck" /\ UNCHANGED filled
    /\ UNCHANGED <<frag, toSend, downloadVars>>

(* Commit: the fragments are computed, which may fail. *)
Encode ==
    /\ up = "prepared" /\ up' \in {"storing", "failed"}
    /\ UNCHANGED <<frag, filled, toSend, downloadVars>>

(* Commit, one turn of the loop: whatever becomes of the upload of a       *)
(* fragment is ignored, and in the end the answer is OK.                   *)
Store ==
    /\ up = "storing"
    /\ \E f \in {frag[toSend], "valid", "bad"} : frag' = [frag EXCEPT ![toSend] = f]
    /\ toSend' = toSend + 1
    /\ up' = IF toSend + 1 = K + M THEN "stored" ELSE "storing"
    /\ UNCHANGED <<filled, downloadVars>>

(* Abort: the fragments that are stored already are removed. *)
Abort ==
    /\ up \in {"prepared", "stored", "failed"}
    /\ up' = "removing" /\ toSend' = 0
    /\ UNCHANGED <<frag, filled, downloadVars>>

Remove ==
    /\ up = "removing"
    /\ \E f \in {frag[toSend], "none"} : frag' = [frag EXCEPT ![toSend] = f]
    /\ toSend' = toSend + 1
    /\ up' = IF toSend + 1 = K + M THEN "aborted" ELSE "removing"
    /\ UNCHANGED <<filled, downloadVars>>

-----------------------------------------------------------------------------
(* The download. *)

(* Prepare until its loop.  It tests the first word of what malloc gave it *)
(* before it writes there, and may find anything.                          *)
PrepareDownload(d) ==
    /\ down[d] = "init"
    /\ \E s \in {"fetching", "refused"} : down' = [down EXCEPT ![d] = s]
    /\ UNCHANGED <<frag, uploadVars, toFetch, have, fragLen>>

(* Mutant of Received: the command has the range of the whole fragment. *)
ReceivedWhole(n) == n

(* How much comes of a reply of length n.  Prepare gives the RawxCommand   *)
(* its url only: RawxDownload::Read cuts the data to the range (0, 0).     *)
Received(n) ==
    LET range == [start |-> 0, size |-> 0] IN
    IF n > range.size THEN range.size ELSE n

(* create_frags_array_set drops data fragment 0 where mask is 0 or 1: when *)
(* nothing is missing, or the last parity fragment only.                   *)
Dropped(h) == IF Nums \ h \subseteq {K + M - 1} THEN {0} ELSE {}

(* liberasurecode_decode of the fragments in the array. *)
Decodes(h, n) == Cardinality(h \ Dropped(h)) >= K /\ n >= FragmentLength

(* What is_invalid_fragment may let pass of n bytes from target i: it      *)
(* reads a header, and without any bytes whatever malloc left there.       *)
MayPass(i, n) == IF n = 0 THEN BOOLEAN ELSE {FALSE, frag[i] = "valid"}

(* One turn of the loop, which leaves it with the fragments h of length n; *)
(* then Decode, with enough of them.                                       *)
Turn(d, h, n) ==
    /\ have' = [have EXCEPT ![d] = h]
    /\ fragLen' = [fragLen EXCEPT ![d] = n]
    /\ toFetch' = [toFetch EXCEPT ![d] = @ + 1]
    /\ down' = [down EXCEPT ![d] =
                  IF Cardinality(h) >= K /\ Decodes(h, n) THEN "decoded"
                  ELSE IF toFetch'[d] = K + M THEN "failed" ELSE "fetching"]
    /\ UNCHANGED <<frag, uploadVars>>

(* The target cannot be reached, or has nothing; or it gives something: a  *)
(* fragment, or what is none (an error page is data, too).                 *)
Fetch(d) ==
    /\ down[d] = "fetching"
    /\ LET i == toFetch[d] IN
       \/ Turn(d, have[d], fragLen[d])
       \/ \E n \in 0 .. FragmentLength :
            \E passes \in MayPass(i, Received(n)) :
               Turn(d, IF passes THEN have[d] \cup {i} ELSE have[d], Received(n))

(* The connection breaks in the middle of a fragment: RawxDownload::Read   *)
(* does not end.                                                           *)
FetchBreaks(d) ==
    /\ down[d] = "fetching"
    /\ down' = [down EXCEPT ![d] = "stuck"]
    /\ UNCHANGED <<frag, uploadVars, toFetch, have, fragLen>>

-----------------------------------------------------------------------------
(* A rawx loses a fragment, or its disk damages it. *)
Lose ==
    /\ \E i \in Nums, f \in {"none", "bad"} :
          frag[i] = "valid" /\ frag' = [frag EXCEPT ![i] = f]
    /\ UNCHANGED <<uploadVars, downloadVars>>

UploadStep == PrepareUpload \/ Write \/ Encode \/ Store \/ Abort \/ Remove
DownloadStep(d) == PrepareDownload(d) \/ Fetch(d) \/ FetchBreaks(d)

Next ==
    \/ Runs /\ (UploadStep \/ \E d \in Downloads : DownloadStep(d))
    \/ Lose

Spec == Init /\ [][Next]_vars

-----------------------------------------------------------------------------
(* No download gives any data, although every target may serve its valid   *)
(* fragment: what it takes for fragments, K of them or more, never decodes. *)
(* This is what the code does, and not what it is for.                     *)
NeverDecodes ==
    \A d \in Downloads : down[d] # "decoded"
=============================================================================
