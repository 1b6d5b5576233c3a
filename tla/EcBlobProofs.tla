---------------------------- MODULE EcBlobProofs ----------------------------
(***************************************************************************)
(* Safety of EcBlob for any numbers of fragments and downloads.            *)
(***************************************************************************)
EXTENDS EcBlob, TLAPS

USE DEF Nums, Fragments, UploadSteps, DownloadSteps, FragmentLength

(* The loops stay within the targets. *)
LoopInv ==
    /\ up \in {"init", "prepared", "failed"} => toSend = 0
    /\ up \in {"storing", "removing"} => toSend < K + M
    /\ \A d \in Downloads : down[d] = "init" => toFetch[d] = 0
    /\ \A d \in Downloads : down[d] = "fetching" => toFetch[d] < K + M

(* Nothing of a fragment is ever received, and a decode needs its header.  *)
EmptyInv == \A d \in Downloads : fragLen[d] = 0

IInv == TypeOK /\ LoopInv /\ EmptyInv /\ NeverDecodes

(* The range that a download asks for is empty. *)
LEMMA NothingReceived == ASSUME NEW n \in Nat PROVE Received(n) = 0
BY DEF Received

-----------------------------------------------------------------------------
LEMMA InitInv == Init => IInv
<1> SUFFICES ASSUME Init PROVE IInv
  OBVIOUS
<1>1. TypeOK
  BY CodeAssumption, ChunkSizeAssumption DEF Init, TypeOK
<1>2. LoopInv
  BY CodeAssumption DEF Init, LoopInv
<1>3. EmptyInv /\ NeverDecodes
  BY DEF Init, EmptyInv, NeverDecodes
<1> QED
  BY <1>1, <1>2, <1>3 DEF IInv

-----------------------------------------------------------------------------
(* The steps of the upload, one step per action. *)

LEMMA UploadTypes ==
    ASSUME IInv, UploadStep
    PROVE  TypeOK' /\ LoopInv'
<1> USE CodeAssumption, ChunkSizeAssumption DEF IInv, TypeOK, LoopInv, downloadVars
<1>1. CASE PrepareUpload
  BY <1>1 DEF PrepareUpload
<1>2. CASE Write
  <2>1. CASE filled < ChunkSize
    BY <1>2, <2>1 DEF Write
  <2>2. CASE ~(filled < ChunkSize)
    BY <1>2, <2>2 DEF Write
  <2> QED
    BY <2>1, <2>2
<1>3. CASE Encode
  BY <1>3 DEF Encode
<1>4. CASE Store
  <2>1. PICK f \in {frag[toSend], "valid", "bad"} : frag' = [frag EXCEPT ![toSend] = f]
    BY <1>4 DEF Store
  <2>2. toSend \in Nums /\ f \in Fragments
    <3>1. toSend \in Nums
      BY <1>4 DEF Store
    <3>2. frag[toSend] \in Fragments
      BY <3>1
    <3> QED
      BY <2>1, <3>1, <3>2
  <2>3. frag' \in [Nums -> Fragments]
    BY <2>1, <2>2
  <2>4. CASE toSend + 1 = K + M
    BY <1>4, <2>2, <2>3, <2>4 DEF Store
  <2>5. CASE toSend + 1 # K + M
    BY <1>4, <2>2, <2>3, <2>5 DEF Store
  <2> QED
    BY <2>4, <2>5
<1>5. CASE Abort
  BY <1>5 DEF Abort
<1>6. CASE Remove
  <2>1. PICK f \in {frag[toSend], "none"} : frag' = [frag EXCEPT ![toSend] = f]
    BY <1>6 DEF Remove
  <2>2. toSend \in Nums /\ f \in Fragments
    <3>1. toSend \in Nums
      BY <1>6 DEF Remove
    <3>2. frag[toSend] \in Fragments
      BY <3>1
    <3> QED
      BY <2>1, <3>1, <3>2
  <2>3. frag' \in [Nums -> Fragments]
    BY <2>1, <2>2
  <2>4. CASE toSend + 1 = K + M
    BY <1>6, <2>2, <2>3, <2>4 DEF Remove
  <2>5. CASE toSend + 1 # K + M
    BY <1>6, <2>2, <2>3, <2>5 DEF Remove
  <2> QED
    BY <2>4, <2>5
<1> QED
  BY <1>1, <1>2, <1>3, <1>4, <1>5, <1>6 DEF UploadStep

LEMMA UploadInv == ASSUME IInv, UploadStep PROVE IInv'
<1>1. UNCHANGED downloadVars
  BY DEF UploadStep, PrepareUpload, Write, Encode, Store, Abort, Remove
<1>2. EmptyInv' /\ NeverDecodes'
  BY <1>1 DEF IInv, EmptyInv, NeverDecodes, downloadVars
<1> QED
  BY <1>2, UploadTypes DEF IInv

-----------------------------------------------------------------------------
(* The steps of a download. *)

(* A turn of the loop whose target gave no bytes. *)
LEMMA TurnInv ==
    ASSUME IInv, NEW d \in Downloads, down[d] = "fetching", NEW h \in SUBSET Nums, Turn(d, h, 0)
    PROVE  IInv'
<1> USE CodeAssumption DEF IInv
<1>1. toFetch[d] \in 0 .. (K + M) /\ toFetch[d] < K + M /\ toFetch'[d] = toFetch[d] + 1
  BY DEF TypeOK, LoopInv, Turn
<1>2. ~Decodes(h, 0)
  BY DEF Decodes
<1>3. down' = [down EXCEPT ![d] = IF toFetch'[d] = K + M THEN "failed" ELSE "fetching"]
  BY <1>2 DEF Turn
<1>4. \A e \in Downloads \ {d} : down'[e] = down[e] /\ toFetch'[e] = toFetch[e]
  BY <1>3 DEF Turn, TypeOK
<1>5. UNCHANGED <<frag, uploadVars>>
  BY DEF Turn
<1>6. TypeOK'
  <2>1. down' \in [Downloads -> DownloadSteps]
    BY <1>3 DEF TypeOK
  <2>2. toFetch' \in [Downloads -> 0 .. (K + M)]
    BY <1>1 DEF Turn, TypeOK
  <2>3. have' \in [Downloads -> SUBSET Nums] /\ fragLen' \in [Downloads -> 0 .. FragmentLength]
    BY DEF Turn, TypeOK
  <2> QED
    BY <2>1, <2>2, <2>3, <1>5 DEF TypeOK, uploadVars
<1>7. LoopInv'
  <2>1. down'[d] = "fetching" => toFetch'[d] < K + M
    BY <1>1, <1>3 DEF TypeOK
  <2>2. down'[d] # "init"
    BY <1>3 DEF TypeOK
  <2> QED
    BY <1>4, <1>5, <2>1, <2>2 DEF LoopInv, uploadVars
<1>8. EmptyInv'
  BY DEF Turn, EmptyInv, TypeOK
<1>9. NeverDecodes'
  BY <1>3 DEF NeverDecodes, TypeOK
<1> QED
  BY <1>6, <1>7, <1>8, <1>9

(* Whatever the target answers, the turn leaves a length of 0. *)
LEMMA FetchTurns ==
    ASSUME IInv, NEW d \in Downloads, Fetch(d)
    PROVE  down[d] = "fetching" /\ \E h \in SUBSET Nums : Turn(d, h, 0)
<1> DEFINE i == toFetch[d]
<1>1. down[d] = "fetching" /\ i \in Nums /\ have[d] \in SUBSET Nums /\ fragLen[d] = 0
  BY CodeAssumption DEF Fetch, IInv, TypeOK, LoopInv, EmptyInv
<1>2. CASE Turn(d, have[d], fragLen[d])
  BY <1>1, <1>2
<1>3. CASE \E n \in 0 .. FragmentLength :
             \E passes \in MayPass(i, Received(n)) :
                Turn(d, IF passes THEN have[d] \cup {i} ELSE have[d], Received(n))
  <2>1. PICK n \in 0 .. FragmentLength :
           \E passes \in MayPass(i, Received(n)) :
              Turn(d, IF passes THEN have[d] \cup {i} ELSE have[d], Received(n))
    BY <1>3
  <2>2. Received(n) = 0
    BY NothingReceived
  <2>3. PICK passes \in MayPass(i, 0) : Turn(d, IF passes THEN have[d] \cup {i} ELSE have[d], 0)
    BY <2>1, <2>2
  <2>4. (IF passes THEN have[d] \cup {i} ELSE have[d]) \in SUBSET Nums
    BY <1>1
  <2> QED
    BY <1>1, <2>3, <2>4
<1> QED
  BY <1>1, <1>2, <1>3 DEF Fetch

LEMMA DownloadStepInv ==
    ASSUME IInv, NEW d \in Downloads, DownloadStep(d)
    PROVE  IInv'
<1>1. CASE PrepareDownload(d)
  <2> USE CodeAssumption, <1>1 DEF IInv, PrepareDownload, uploadVars
  <2>1. PICK s \in {"fetching", "refused"} : down' = [down EXCEPT ![d] = s]
    OBVIOUS
  <2>2. TypeOK'
    BY <2>1 DEF TypeOK
  <2>3. LoopInv'
    <3>1. toFetch[d] = 0 /\ 0 < K + M
      BY DEF LoopInv
    <3>2. UNCHANGED <<up, toSend, toFetch>>
      OBVIOUS
    <3> QED
      BY <2>1, <3>1, <3>2 DEF LoopInv, TypeOK
  <2>4. EmptyInv' /\ NeverDecodes'
    BY <2>1 DEF EmptyInv, NeverDecodes, TypeOK
  <2> QED
    BY <2>2, <2>3, <2>4
<1>2. CASE Fetch(d)
  BY <1>2, FetchTurns, TurnInv
<1>3. CASE FetchBreaks(d)
  <2> USE <1>3 DEF IInv, FetchBreaks, uploadVars
  <2>1. TypeOK'
    BY DEF TypeOK
  <2>2. LoopInv'
    BY DEF LoopInv, TypeOK
  <2>3. EmptyInv' /\ NeverDecodes'
    BY DEF EmptyInv, NeverDecodes, TypeOK
  <2> QED
    BY <2>1, <2>2, <2>3
<1> QED
  BY <1>1, <1>2, <1>3 DEF DownloadStep

LEMMA LoseInv == IInv /\ Lose => IInv'
<1> SUFFICES ASSUME IInv, Lose PROVE IInv'
  OBVIOUS
<1> USE DEF IInv, uploadVars, downloadVars
<1>1. PICK i \in Nums, f \in {"none", "bad"} : frag' = [frag EXCEPT ![i] = f]
  BY DEF Lose
<1>2. UNCHANGED <<up, filled, toSend, down, toFetch, have, fragLen>>
  BY DEF Lose
<1>3. TypeOK'
  BY <1>1, <1>2 DEF TypeOK
<1>4. LoopInv' /\ EmptyInv' /\ NeverDecodes'
  BY <1>2 DEF LoopInv, EmptyInv, NeverDecodes
<1> QED
  BY <1>3, <1>4

LEMMA StepInv == IInv /\ [Next]_vars => IInv'
<1> SUFFICES ASSUME IInv, [Next]_vars PROVE IInv'
  OBVIOUS
<1>1. CASE UploadStep
  BY <1>1, UploadInv
<1>2. CASE \E d \in Downloads : DownloadStep(d)
  BY <1>2, DownloadStepInv
<1>3. CASE Lose
  BY <1>3, LoseInv
<1>4. CASE UNCHANGED vars
  BY <1>4 DEF vars, uploadVars, downloadVars, IInv, TypeOK, LoopInv, EmptyInv, NeverDecodes
<1> QED
  BY <1>1, <1>2, <1>3, <1>4 DEF Next

-----------------------------------------------------------------------------
(* Every state has the right types. *)
THEOREM TypeCorrect == Spec => []TypeOK
<1>1. IInv => TypeOK
  BY DEF IInv
<1> QED
  BY <1>1, InitInv, StepInv, PTL DEF Spec

(* No download of a stripe gives any data, for any code: the range that it *)
(* asks of each fragment is empty.                                         *)
THEOREM NoStripeIsDecoded == Spec => []NeverDecodes
<1>1. IInv => NeverDecodes
  BY DEF IInv
<1> QED
  BY <1>1, InitInv, StepInv, PTL DEF Spec
=============================================================================
