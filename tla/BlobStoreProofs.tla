-------------------------- MODULE BlobStoreProofs --------------------------
(***************************************************************************)
(* Safety of the two backends that keep blobs themselves, and their        *)
(* refinement of BlobStore: LocalBlob for any operations, depth and faults, *)
(* then MemBlob for any operations on the name.                            *)
(***************************************************************************)
EXTENDS MCBlobStore, FiniteSetTheorems, SequenceTheorems, TLAPS

(* The types of what the argument is about: the entries, where each         *)
(* operation is and what it was answered; the content plays no part.        *)
EntryTypes ==
    /\ dirs \in 0 .. Depth
    /\ final \in Uploads \cup {NoBlob}
    /\ temp \in Uploads \cup {NoBlob}
    /\ up \in [Uploads -> UploadPc]
    /\ level \in [Uploads -> 0 .. Depth]
    /\ refused \in [Uploads -> Nat]
    /\ verdict \in [Uploads -> {"none", "stored", "aborted", "failed"}]
    /\ opened \in [Downloads -> Uploads \cup {NoBlob}]
    /\ down \in [Downloads -> {"init", "prepared", "done"}]

(* A refusal still to come is paid for by a directory made since the       *)
(* attempt began.                                                          *)
DirInv ==
    \A u \in Uploads :
        /\ refused[u] <= dirs
        /\ up[u] = "retry" => refused[u] < dirs
        /\ up[u] = "mkdir" /\ level[u] <= dirs => refused[u] < dirs

(* No verdict before the end of the transaction, no file before Prepare. *)
OnceInv ==
    /\ \A u \in Uploads : up[u] \notin {"discard", "done", "gone"} => verdict[u] = "none"
    /\ \A d \in Downloads : down[d] = "init" => opened[d] = NoBlob

IInv == EntryTypes /\ OneWriter /\ NothingToOverwrite /\ NoResidue /\ DirInv /\ OnceInv

USE DEF IInv, EntryTypes, UploadPc, OneWriter, NothingToOverwrite, NoResidue, Holding, DirInv,
        OnceInv

LEMMA InitInv == Init => IInv
BY DepthAssumption, NamesAssumption DEF Init

-----------------------------------------------------------------------------
(* One lemma per kind of operation, one step per action. *)

LEMMA UploadStepInv ==
    ASSUME IInv, NEW u \in Uploads, UploadStep(u)
    PROVE  IInv'
<1> USE DepthAssumption, NamesAssumption DEF Go, Forbid, downloadVars
<1>1. CASE CreateTemp(u)
  <2>1. CASE temp # NoBlob
    BY <1>1, <2>1 DEF CreateTemp
  <2>2. CASE temp = NoBlob
    <3>1. temp' = u /\ up' = [up EXCEPT ![u] = "stat"]
      BY <1>1, <2>2 DEF CreateTemp
    <3>2. \A v \in Uploads : up[v] \notin Holding
      BY <2>2
    <3> QED
      BY <1>1, <3>1, <3>2 DEF CreateTemp
  <2> QED
    BY <2>1, <2>2
<1>2. CASE NoParent(u)
  BY <1>2 DEF NoParent, entries
<1>3. CASE Mkdir(u)
  <2>1. CASE level[u] = dirs + 1 /\ dirs' = dirs + 1
    BY <1>3, <2>1 DEF Mkdir
  <2>2. CASE level[u] <= dirs
    BY <1>3, <2>2 DEF Mkdir
  <2>3. CASE level[u] > dirs + 1
    BY <1>3, <2>3 DEF Mkdir
  <2> QED
    BY <1>3, <2>1, <2>2, <2>3 DEF Mkdir
<1>4. CASE StatFinal(u)
  BY <1>4 DEF StatFinal, entries
<1>5. CASE Reject(u)
  BY <1>5 DEF Reject, UnlinkTemp
<1>6. CASE Write(u)
  BY <1>6 DEF Write, entries
<1>7. CASE Close(u)
  BY <1>7 DEF Close, entries
<1>8. CASE Rename(u)
  BY <1>8 DEF Rename
<1>9. CASE Abort(u)
  BY <1>9 DEF Abort, entries
<1>10. CASE Discard(u)
  BY <1>10 DEF Discard, UnlinkTemp
<1>11. CASE Vanish(u)
  BY <1>11 DEF Vanish, entries
<1> QED
  BY <1>1, <1>2, <1>3, <1>4, <1>5, <1>6, <1>7, <1>8, <1>9, <1>10, <1>11 DEF UploadStep

LEMMA DownloadStepInv ==
    ASSUME IInv, NEW d \in Downloads, DownloadStep(d)
    PROVE  IInv'
<1> USE DepthAssumption, NamesAssumption DEF entries, uploadVars
<1>1. CASE PrepareDownload(d)
  BY <1>1 DEF PrepareDownload
<1>2. CASE Read(d)
  BY <1>2 DEF Read
<1>3. CASE ReadFails(d)
  BY <1>3 DEF ReadFails
<1>4. CASE ReadStale(d)
  BY <1>4 DEF ReadStale
<1>5. ASSUME NEW size \in 1 .. Pieces, SetRange(d, size)
      PROVE  IInv'
  BY <1>5 DEF SetRange
<1> QED
  BY <1>1, <1>2, <1>3, <1>4, <1>5 DEF DownloadStep

LEMMA RemovalStepInv ==
    ASSUME IInv, NEW r \in Removals, RemovalStep(r)
    PROVE  IInv'
<1> USE DepthAssumption, NamesAssumption DEF uploadVars, downloadVars
<1>1. CASE PrepareRemoval(r)
  BY <1>1 DEF PrepareRemoval, entries
<1>2. CASE CommitRemoval(r)
  BY <1>2 DEF CommitRemoval
<1>3. CASE AbortRemoval(r)
  BY <1>3 DEF AbortRemoval, entries
<1> QED
  BY <1>1, <1>2, <1>3 DEF RemovalStep

THEOREM InvariantHolds == Spec => []IInv
<1>1. IInv /\ [Next]_vars => IInv'
  <2> SUFFICES ASSUME IInv, [Next]_vars
               PROVE  IInv'
    OBVIOUS
  <2>1. CASE Next
    BY <2>1, UploadStepInv, DownloadStepInv, RemovalStepInv DEF Next
  <2>2. CASE UNCHANGED vars
    BY <2>2 DEF vars, entries, uploadVars, downloadVars
  <2> QED
    BY <2>1, <2>2
<1> QED
  BY InitInv, <1>1, PTL DEF Spec

-----------------------------------------------------------------------------
(* An upload that holds the pending file owns the file the entry names: the *)
(* O_EXCL of Prepare excludes the other uploads until it lets go.           *)
THEOREM PendingFileIsALock == Spec => []OneWriter
<1>1. IInv => OneWriter
  OBVIOUS
<1> QED
  BY <1>1, InvariantHolds, PTL

(* What Prepare saw of the blob is still true when Commit renames onto it. *)
THEOREM NoBlobIsOverwritten == Spec => []NothingToOverwrite
<1>1. IInv => NothingToOverwrite
  OBVIOUS
<1> QED
  BY <1>1, InvariantHolds, PTL

(* A pending file belongs to an upload that is under way, that died or that *)
(* could not unlink it.                                                     *)
THEOREM NoPendingFileIsLeft == Spec => []NoResidue
<1>1. IInv => NoResidue
  OBVIOUS
<1> QED
  BY <1>1, InvariantHolds, PTL

(* A step that moves the pending file, or publishes it, is one of the       *)
(* upload that holds it: where nobody does, both entries are as they were,  *)
(* unless a removal takes the blob.                                         *)
THEOREM OrphanIsNobodys == Spec => OrphanBlocksTheName
<1>1. IInv /\ [Next]_vars =>
        [temp # NoBlob /\ up[temp] \notin Holding => temp' = temp /\ final' \in {final, NoBlob}]_vars
  <2> SUFFICES ASSUME IInv, Next, temp # NoBlob, up[temp] \notin Holding
               PROVE  temp' = temp /\ final' \in {final, NoBlob}
    OBVIOUS
  <2>1. \A u \in Uploads : up[u] \notin Holding
    OBVIOUS
  <2>2. ASSUME NEW u \in Uploads, UploadStep(u)
        PROVE  UNCHANGED <<temp, final>>
    <3>1. CreateTemp(u) \/ NoParent(u) \/ Mkdir(u) \/ Vanish(u)
      BY <2>1, <2>2 DEF UploadStep, StatFinal, Reject, Write, Close, Rename, Abort, Discard
    <3> QED
      BY <3>1 DEF CreateTemp, NoParent, Mkdir, Vanish, entries
  <2>3. ASSUME NEW d \in Downloads, DownloadStep(d)
        PROVE  UNCHANGED <<temp, final>>
    BY <2>3 DEF DownloadStep, PrepareDownload, Read, ReadFails, ReadStale, SetRange, entries
  <2>4. ASSUME NEW r \in Removals, RemovalStep(r)
        PROVE  temp' = temp /\ final' \in {final, NoBlob}
    BY <2>4 DEF RemovalStep, PrepareRemoval, CommitRemoval, AbortRemoval, entries
  <2> QED
    BY <2>2, <2>3, <2>4 DEF Next
<1> QED
  BY <1>1, InvariantHolds, PTL DEF Spec, OrphanBlocksTheName

(* A Prepare refused for a missing directory has one less to miss. *)
THEOREM RefusalsMakeProgress == Spec => []RefusalIsProgress
<1>1. IInv => RefusalIsProgress
  BY DEF RefusalIsProgress
<1> QED
  BY <1>1, InvariantHolds, PTL

-----------------------------------------------------------------------------
(* Where no write fails, the file of an upload holds what was asked of it,  *)
(* and the file that is published is one nobody writes or creates again.    *)
ContentInv ==
    /\ asked \in [Uploads -> 0 .. Pieces]
    /\ written \in [Uploads -> Seq(Nat)]
    /\ \A u \in Uploads :
          /\ up[u] \in {"init", "retry", "mkdir", "stat", "reject"} => asked[u] = 0
          /\ up[u] \in {"stat", "prepared", "rename"} =>
                Len(written[u]) = asked[u] /\ \A i \in 1 .. asked[u] : written[u][i] = i
          /\ up[u] = "rename" => asked[u] = Pieces
    /\ final # NoBlob =>
          /\ up[final] = "done"
          /\ Len(written[final]) = Pieces /\ \A i \in 1 .. Pieces : written[final][i] = i

LEMMA ContentStep ==
    ASSUME IInv, ContentInv, "write" \notin Faults, [Next]_vars
    PROVE  ContentInv'
<1> USE PiecesAssumption, NamesAssumption DEF ContentInv
<1>1. ASSUME NEW u \in Uploads, UploadStep(u)
      PROVE  ContentInv'
  <2> USE DEF Go, Forbid
  <2>1. CASE CreateTemp(u)
    <3>1. CASE temp # NoBlob
      <4>1. UNCHANGED <<final, asked, written>> /\ asked[u] = 0 /\ up' = [up EXCEPT ![u] = "init"]
        BY <2>1, <3>1 DEF CreateTemp
      <4>2. final # u
        BY <2>1 DEF CreateTemp
      <4> QED
        BY <4>1, <4>2
    <3>2. CASE temp = NoBlob
      <4>1. written' = [written EXCEPT ![u] = <<>>] /\ asked[u] = 0 /\ up' = [up EXCEPT ![u] = "stat"]
        BY <2>1, <3>2 DEF CreateTemp
      <4>2. final # u
        BY <2>1 DEF CreateTemp
      <4>3. UNCHANGED <<final, asked>>
        BY <2>1 DEF CreateTemp
      <4>4. <<>> \in Seq(Nat) /\ Len(<<>>) = 0 /\ 0 \in 0 .. Pieces
        OBVIOUS
      <4>5. \A v \in Uploads \ {u} : written'[v] = written[v] /\ up'[v] = up[v]
        BY <4>1
      <4>6. written' \in [Uploads -> Seq(Nat)] /\ written'[u] = <<>> /\ up'[u] = "stat"
        BY <4>1, <4>4
      <4> QED
        BY <4>1, <4>2, <4>3, <4>4, <4>5, <4>6
    <3> QED
      BY <3>1, <3>2
  <2>2. CASE NoParent(u)
    <3>1. /\ UNCHANGED <<final, asked, written>>
          /\ up[u] \in {"init", "retry"}
          /\ up' = [up EXCEPT ![u] = "mkdir"] \/ up' = [up EXCEPT ![u] = "init"]
      BY <2>2 DEF NoParent, entries
    <3>2. final # u
      BY <3>1
    <3>3. \A v \in Uploads : up'[v] = up[v] \/ (v = u /\ up'[v] \in {"mkdir", "init"})
      BY <3>1
    <3>4. up[u] \in {"init", "retry"} => asked[u] = 0
      OBVIOUS
    <3>5. UNCHANGED <<final, asked, written>> /\ asked[u] = 0
      BY <3>1, <3>4
    <3> QED
      BY <3>2, <3>3, <3>5
  <2>3. CASE Mkdir(u)
    <3>1. /\ UNCHANGED <<final, asked, written>> /\ up[u] = "mkdir"
          /\ \/ up' = up
             \/ up' = [up EXCEPT ![u] = "retry"]
             \/ up' = [up EXCEPT ![u] = "init"]
      BY <2>3 DEF Mkdir
    <3>2. asked[u] = 0 /\ final # u
      BY <3>1
    <3> QED
      BY <3>1, <3>2
  <2>4. CASE StatFinal(u)
    <3>1. UNCHANGED <<final, asked, written>>
      BY <2>4 DEF StatFinal, entries
    <3>2. up[u] = "stat" /\ (up' = [up EXCEPT ![u] = "prepared"] \/ up' = [up EXCEPT ![u] = "reject"])
      BY <2>4 DEF StatFinal
    <3> QED
      BY <3>1, <3>2
  <2>5. CASE Reject(u)
    BY <2>5 DEF Reject
  <2>6. CASE Write(u)
    <3>1. /\ asked' = [asked EXCEPT ![u] = @ + 1]
          /\ written' = [written EXCEPT ![u] = Append(@, asked[u] + 1)]
          /\ up[u] = "prepared" /\ asked[u] < Pieces
      BY <2>6 DEF Write
    <3>2. UNCHANGED <<final, up>>
      BY <2>6 DEF Write, entries
    <3>3. \A v \in Uploads \ {u} : written'[v] = written[v] /\ asked'[v] = asked[v]
      BY <3>1
    <3>4. /\ written'[u] \in Seq(Nat) /\ Len(written'[u]) = asked'[u]
          /\ \A i \in 1 .. asked'[u] : written'[u][i] = i
      BY <3>1, AppendProperties
    <3>5. asked' \in [Uploads -> 0 .. Pieces] /\ written' \in [Uploads -> Seq(Nat)]
      BY <3>1, <3>4
    <3>6. final' # NoBlob => final \in Uploads \ {u}
      BY <3>1, <3>2
    <3>7. ASSUME NEW v \in Uploads
          PROVE  /\ up'[v] \in {"init", "retry", "mkdir", "stat", "reject"} => asked'[v] = 0
                 /\ up'[v] \in {"stat", "prepared", "rename"} =>
                       Len(written'[v]) = asked'[v] /\ \A i \in 1 .. asked'[v] : written'[v][i] = i
                 /\ up'[v] = "rename" => asked'[v] = Pieces
      <4>1. CASE v = u
        BY <3>1, <3>2, <3>4, <4>1
      <4>2. CASE v # u
        BY <3>2, <3>3, <4>2
      <4> QED
        BY <4>1, <4>2
    <3>8. final' # NoBlob =>
             /\ up'[final'] = "done"
             /\ Len(written'[final']) = Pieces /\ \A i \in 1 .. Pieces : written'[final'][i] = i
      BY <3>2, <3>3, <3>6
    <3> QED
      BY <3>5, <3>7, <3>8
  <2>7. CASE Close(u)
    BY <2>7 DEF Close, entries
  <2>8. CASE Rename(u)
    <3>0. UNCHANGED <<asked, written>> /\ up[u] = "rename"
      BY <2>8 DEF Rename
    <3>1. CASE final' = u /\ up' = [up EXCEPT ![u] = "done"]
      <4>1. Len(written[u]) = Pieces /\ \A i \in 1 .. Pieces : written[u][i] = i
        BY <3>0
      <4> QED
        BY <3>0, <3>1, <4>1
    <3>2. CASE final' = final /\ up' = [up EXCEPT ![u] = "discard"]
      BY <3>0, <3>2
    <3>3. temp # NoBlob => temp = u
      BY <3>0
    <3>4. \/ final' = u /\ up' = [up EXCEPT ![u] = "done"]
          \/ final' = final /\ up' = [up EXCEPT ![u] = "discard"]
      BY <2>8, <3>3 DEF Rename, Go
    <3> QED
      BY <3>1, <3>2, <3>4
  <2>9. CASE Abort(u)
    BY <2>9 DEF Abort, entries
  <2>10. CASE Discard(u)
    BY <2>10 DEF Discard
  <2>11. CASE Vanish(u)
    BY <2>11 DEF Vanish, entries
  <2> QED
    BY <1>1, <2>1, <2>2, <2>3, <2>4, <2>5, <2>6, <2>7, <2>8, <2>9, <2>10, <2>11 DEF UploadStep
<1>2. ASSUME NEW d \in Downloads, DownloadStep(d)
      PROVE  ContentInv'
  <2>1. UNCHANGED <<final, uploadVars>>
    BY <1>2 DEF DownloadStep, PrepareDownload, Read, ReadFails, ReadStale, SetRange, entries
  <2> QED
    BY <2>1 DEF uploadVars
<1>3. ASSUME NEW r \in Removals, RemovalStep(r)
      PROVE  ContentInv'
  BY <1>3 DEF RemovalStep, PrepareRemoval, CommitRemoval, AbortRemoval, entries, uploadVars
<1>4. CASE UNCHANGED vars
  BY <1>4 DEF vars, entries, uploadVars
<1> QED
  BY <1>1, <1>2, <1>3, <1>4 DEF Next

(* On a volume where write(2) does not fail, what is published is whole,    *)
(* whatever crashes, aborts and failed renames come before.                 *)
THEOREM PublishedIsWhole == "write" \notin Faults => (Spec => []WholeWhenPublished)
<1> SUFFICES ASSUME "write" \notin Faults
             PROVE  Spec => []WholeWhenPublished
  OBVIOUS
<1>1. Init => ContentInv
  BY PiecesAssumption DEF Init, ContentInv
<1>2. IInv /\ ContentInv /\ [Next]_vars => ContentInv'
  BY ContentStep
<1>3. IInv /\ ContentInv => WholeWhenPublished
  <2> SUFFICES ASSUME IInv, ContentInv, final # NoBlob
               PROVE  written[final] = [i \in 1 .. Pieces |-> i]
    BY DEF WholeWhenPublished
  <2>1. /\ written[final] \in Seq(Nat) /\ Len(written[final]) = Pieces
        /\ \A i \in 1 .. Pieces : written[final][i] = i
    BY DEF ContentInv
  <2>2. written[final] \in [1 .. Pieces -> Nat]
    BY <2>1, LenProperties
  <2> QED
    BY <2>1, <2>2
<1> QED
  BY <1>1, <1>2, <1>3, InvariantHolds, PTL DEF Spec

-----------------------------------------------------------------------------
(* How many pieces of a sequence came from read(2). *)
Count(s, n) == Cardinality({j \in 1 .. n : s[j] # Junk})

Alike(s, t, n) == \A j \in 1 .. n : s[j] = t[j]
AllRead(s, m, n) == \A j \in m .. n : s[j] # Junk

LEMMA CountFinite ==
    ASSUME NEW s, NEW n \in Nat
    PROVE  IsFiniteSet({j \in 1 .. n : s[j] # Junk}) /\ Count(s, n) \in Nat
<1>1. IsFiniteSet(1 .. n)
  BY FS_Interval
<1>2. IsFiniteSet({j \in 1 .. n : s[j] # Junk})
  BY <1>1, FS_Subset
<1> QED
  BY <1>2, FS_CardinalityType DEF Count

LEMMA CountSame ==
    ASSUME NEW s, NEW t, NEW n \in Nat, Alike(s, t, n)
    PROVE  Count(s, n) = Count(t, n)
<1>1. {j \in 1 .. n : s[j] # Junk} = {j \in 1 .. n : t[j] # Junk}
  BY DEF Alike
<1> QED
  BY <1>1 DEF Count

(* Pieces that came add to the count, a buffer left over does not. *)
LEMMA CountMore ==
    ASSUME NEW s, NEW n \in Nat, NEW k \in Nat, AllRead(s, n + 1, n + k)
    PROVE  Count(s, n + k) = Count(s, n) + k
<1> DEFINE A == {j \in 1 .. n : s[j] # Junk}
           B == n + 1 .. n + k
<1>1. {j \in 1 .. n + k : s[j] # Junk} = A \cup B /\ A \cap B = {}
  BY DEF AllRead
<1>2. IsFiniteSet(A) /\ Cardinality(A) = Count(s, n) /\ Count(s, n) \in Nat
  BY CountFinite DEF Count
<1>3. IsFiniteSet(B) /\ Cardinality(B) = k
  <2>1. n + 1 \in Int /\ n + k \in Int
    OBVIOUS
  <2>2. IsFiniteSet(B) /\ Cardinality(B) = IF n + 1 > n + k THEN 0 ELSE n + k - (n + 1) + 1
    BY <2>1, FS_Interval
  <2> QED
    BY <2>2
<1>4. Cardinality(A \cup B) = Cardinality(A) + Cardinality(B) - Cardinality(A \cap B)
  <2> HIDE DEF A, B
  <2> QED
    BY <1>2, <1>3, FS_Union
<1>5. Cardinality(A \cap B) = 0
  BY <1>1, FS_EmptySet
<1> HIDE DEF A, B
<1>6. Cardinality(A \cup B) = Count(s, n) + k
  BY <1>2, <1>3, <1>4, <1>5
<1> QED
  BY <1>1, <1>6 DEF Count

LEMMA CountJunk ==
    ASSUME NEW s, NEW n \in Nat, s[n + 1] = Junk
    PROVE  Count(s, n + 1) = Count(s, n)
<1>1. {j \in 1 .. n + 1 : s[j] # Junk} = {j \in 1 .. n : s[j] # Junk}
  OBVIOUS
<1> QED
  BY <1>1 DEF Count

(* What a download was given, junk apart, are the first p pieces in order. *)
Given(s, p) ==
    /\ s \in Seq(Nat) /\ p \in 0 .. Pieces
    /\ Count(s, Len(s)) = p
    /\ \A i \in 1 .. Len(s) : s[i] # Junk => s[i] = Count(s, i) /\ Count(s, i) \in 1 .. p

LEMMA GivenMore ==
    ASSUME NEW s, NEW p, Given(s, p), NEW q \in p .. Pieces,
           NEW t, t \in Seq(Nat), Len(t) = q - p, \A i \in 1 .. q - p : t[i] = p + i
    PROVE  Given(s \o t, q)
<1> PICK r, n, k : r = s \o t /\ n = Len(s) /\ k = q - p
  OBVIOUS
<1>1. p \in Nat /\ q \in 0 .. Pieces /\ n \in Nat /\ k \in Nat /\ q = p + k
  BY PiecesAssumption DEF Given
<1>2. s \in Seq(Nat) /\ t \in Seq(Nat) /\ Len(t) = k
  BY DEF Given
<1>3. /\ r \in Seq(Nat) /\ Len(r) = n + k
      /\ \A i \in 1 .. n : r[i] = s[i]
      /\ \A i \in 1 .. k : r[n + i] = t[i]
  BY <1>2
<1>4. \A i \in 1 .. k : r[n + i] = p + i /\ r[n + i] # Junk
  BY SMTT(30), <1>1, <1>3 DEF Junk
<1>5. \A i \in 1 .. n : Count(r, i) = Count(s, i)
  <2> SUFFICES ASSUME NEW i \in 1 .. n
               PROVE  Count(r, i) = Count(s, i)
    OBVIOUS
  <2>1. i \in Nat /\ Alike(r, s, i)
    BY <1>1, <1>3 DEF Alike
  <2> QED
    BY <2>1, CountSame
<1>6. Count(r, n) = p
  <2>1. Alike(r, s, n)
    BY <1>3 DEF Alike
  <2> QED
    BY <1>1, <2>1, CountSame DEF Given
<1>7. \A i \in 0 .. k : Count(r, n + i) = p + i
  <2> SUFFICES ASSUME NEW i \in 0 .. k
               PROVE  Count(r, n + i) = p + i
    OBVIOUS
  <2>1. i \in Nat /\ AllRead(r, n + 1, n + i)
    <3>1. ASSUME NEW j \in n + 1 .. n + i
          PROVE  r[j] # Junk
      <4>1. j - n \in 1 .. k /\ j = n + (j - n)
        BY <1>1
      <4> QED
        BY <1>4, <4>1
    <3> QED
      BY <1>1, <3>1 DEF AllRead
  <2>2. Count(r, n + i) = Count(r, n) + i
    BY <1>1, <2>1, CountMore
  <2> QED
    BY <1>6, <2>2
<1>8. Count(r, Len(r)) = q
  <2>1. k \in 0 .. k
    BY <1>1
  <2>2. Count(r, n + k) = p + k
    BY <1>7, <2>1
  <2> QED
    BY <1>1, <1>3, <2>2
<1>9. ASSUME NEW i \in 1 .. Len(r), r[i] # Junk
      PROVE  r[i] = Count(r, i) /\ Count(r, i) \in 1 .. q
  <2>1. CASE i \in 1 .. n
    <3>1. Count(r, i) = Count(s, i)
      BY <1>5, <2>1
    <3>2. r[i] = s[i] /\ s[i] = Count(s, i) /\ Count(s, i) \in 1 .. p
      BY <1>3, <1>9, <2>1 DEF Given
    <3> QED
      BY <1>1, <3>1, <3>2
  <2>2. CASE i \notin 1 .. n
    <3>1. PICK j : j = i - n
      OBVIOUS
    <3>2. j \in 1 .. k /\ i = n + j /\ j \in 0 .. k
      BY <1>1, <1>3, <2>2, <3>1
    <3>3. Count(r, i) = p + j /\ r[i] = p + j
      BY <1>4, <1>7, <3>2
    <3> QED
      BY SMTT(30), <1>1, <3>2, <3>3
  <2> QED
    BY <2>1, <2>2
<1> QED
  BY <1>1, <1>3, <1>8, <1>9 DEF Given

LEMMA GivenJunk ==
    ASSUME NEW s, NEW p, Given(s, p)
    PROVE  Given(Append(s, Junk), p)
<1> PICK r : r = Append(s, Junk)
  OBVIOUS
<1> PICK n : n = Len(s)
  OBVIOUS
<1>1. n \in Nat /\ r \in Seq(Nat) /\ Len(r) = n + 1 /\ r[n + 1] = Junk /\ \A i \in 1 .. n : r[i] = s[i]
  BY DEF Given, Junk
<1>2. \A i \in 0 .. n : Count(r, i) = Count(s, i)
  <2> SUFFICES ASSUME NEW i \in 0 .. n
               PROVE  Count(r, i) = Count(s, i)
    OBVIOUS
  <2>1. i \in Nat /\ Alike(r, s, i)
    BY <1>1 DEF Alike
  <2> QED
    BY <2>1, CountSame
<1>3. Count(r, Len(r)) = p
  <2>1. n \in 0 .. n
    BY <1>1
  <2>2. Count(r, n) = p
    BY <1>2, <2>1 DEF Given
  <2>3. Count(r, n + 1) = Count(r, n)
    BY <1>1, CountJunk
  <2> QED
    BY <1>1, <2>2, <2>3
<1>4. ASSUME NEW i \in 1 .. Len(r), r[i] # Junk
      PROVE  r[i] = Count(r, i) /\ Count(r, i) \in 1 .. p
  <2>1. i \in 1 .. n
    BY <1>1, <1>4
  <2>2. Count(r, i) = Count(s, i)
    BY <1>1, <1>2, <2>1
  <2> QED
    BY <1>1, <1>4, <2>1, <2>2 DEF Given
<1> QED
  BY <1>1, <1>3, <1>4 DEF Given

-----------------------------------------------------------------------------
(* A download holds open a file that was published, whose upload is over:   *)
(* nobody writes it any more, whatever becomes of the name.                 *)
Whole ==
    {u \in Uploads : /\ up[u] = "done" /\ Len(written[u]) = Pieces
                     /\ \A i \in 1 .. Pieces : written[u][i] = i}

DownInv ==
    /\ down \in [Downloads -> {"init", "prepared", "done"}]
    /\ got \in [Downloads -> Seq(Nat)] /\ pos \in [Downloads -> 0 .. Pieces]
    /\ range \in [Downloads -> Nat]
    /\ \A d \in Downloads :
          /\ Given(got[d], pos[d])
          /\ down[d] = "init" => got[d] = <<>>
          /\ down[d] # "init" => opened[d] \in Whole
          /\ down[d] = "done" => pos[d] = Pieces

LEMMA DownInit == Init => DownInv
<1> SUFFICES ASSUME Init
             PROVE  DownInv
  OBVIOUS
<1>1. Given(<<>>, 0)
  <2>1. Count(<<>>, 0) = 0
    <3>1. {j \in 1 .. 0 : <<>>[j] # Junk} = {}
      OBVIOUS
    <3> QED
      BY <3>1, FS_EmptySet DEF Count
  <2> QED
    BY <2>1, PiecesAssumption DEF Given
<1> QED
  BY <1>1, PiecesAssumption DEF Init, DownInv

(* No upload writes, or creates again, a file that is whole. *)
LEMMA WholeStays ==
    ASSUME IInv, ContentInv, NEW v \in Uploads, UploadStep(v)
    PROVE  Whole \subseteq Whole'
<1>1. up[v] \notin {"done", "gone"}
  BY DEF UploadStep, CreateTemp, NoParent, Mkdir, StatFinal, Reject, Write, Close, Rename, Abort,
         Discard, Vanish
<1>2. up' = up \/ \E pc : up' = [up EXCEPT ![v] = pc]
  BY DEF UploadStep, CreateTemp, NoParent, Mkdir, StatFinal, Reject, Write, Close, Rename, Abort,
         Discard, Vanish, Go, Forbid, entries
<1>3. written' = written \/ \E w : written' = [written EXCEPT ![v] = w]
  BY DEF UploadStep, CreateTemp, NoParent, Mkdir, StatFinal, Reject, Write, Close, Rename, Abort,
         Discard, Vanish
<1>4. \A u \in Whole : up'[u] = up[u] /\ written'[u] = written[u]
  BY <1>1, <1>2, <1>3 DEF Whole, ContentInv
<1> QED
  BY <1>4 DEF Whole

(* A Read goes on behind what was given, up to the size of its buffer, and  *)
(* finds nothing only at the end.                                           *)
LEMMA ReadGives ==
    ASSUME ContentInv, DownInv, NEW d \in Downloads, Read(d)
    PROVE  \E q \in pos[d] .. Pieces :
              /\ pos' = [pos EXCEPT ![d] = q]
              /\ got' = [got EXCEPT ![d] = @ \o SubSeq(written[opened[d]], pos[d] + 1, q)]
              /\ down' = [down EXCEPT ![d] = IF q = pos[d] THEN "done" ELSE @]
              /\ q = pos[d] => q = Pieces
<1>1. PICK p, l, file : p = pos[d] /\ l = Limit(d) /\ file = written[opened[d]]
  OBVIOUS
<1>2. p \in 0 .. Pieces /\ Len(file) = Pieces /\ Pieces \in Nat
  BY <1>1, PiecesAssumption DEF DownInv, Read, Whole
<1>3. l \in Nat \ {0}
  <2>1. PICK r, b : r = range[d] /\ b = Batch
    OBVIOUS
  <2>2. r \in Nat /\ b \in Nat \ {0}
    BY <2>1, PiecesAssumption DEF DownInv
  <2>3. l = IF r > p /\ r - p < b THEN r - p ELSE b
    BY <1>1, <2>1 DEF Limit
  <2> QED
    BY <1>2, <2>2, <2>3
<1>4. PICK q : q = IF p + l < Len(file) THEN p + l ELSE Len(file)
  OBVIOUS
<1>5. q \in p .. Pieces /\ (q = p => q = Pieces)
  BY <1>2, <1>3, <1>4
<1>6. /\ pos' = [pos EXCEPT ![d] = q]
      /\ got' = [got EXCEPT ![d] = @ \o SubSeq(file, p + 1, q)]
      /\ down' = [down EXCEPT ![d] = IF q = p THEN "done" ELSE @]
  BY <1>1, <1>4 DEF Read
<1> QED
  BY <1>1, <1>5, <1>6

LEMMA DownStep ==
    ASSUME IInv, ContentInv, DownInv, [Next]_vars
    PROVE  DownInv'
<1>1. ASSUME NEW v \in Uploads, UploadStep(v)
      PROVE  DownInv'
  <2>1. UNCHANGED downloadVars
    BY <1>1 DEF UploadStep, CreateTemp, NoParent, Mkdir, StatFinal, Reject, Write, Close, Rename,
                Abort, Discard, Vanish
  <2>2. Whole \subseteq Whole'
    BY <1>1, WholeStays
  <2> QED
    BY <2>1, <2>2 DEF DownInv, downloadVars
<1>2. ASSUME NEW d \in Downloads, DownloadStep(d)
      PROVE  DownInv'
  <2>1. UNCHANGED uploadVars
    BY <1>2 DEF DownloadStep, PrepareDownload, SetRange, Read, ReadFails, ReadStale
  <2>2. Whole' = Whole
    BY <2>1 DEF Whole, uploadVars
  <2>3. CASE PrepareDownload(d)
    <3>1. /\ opened' = [opened EXCEPT ![d] = final] /\ down' = [down EXCEPT ![d] = "prepared"]
          /\ UNCHANGED <<got, pos, range>> /\ final # NoBlob
      BY <2>3 DEF PrepareDownload
    <3>2. final \in Whole
      BY <3>1 DEF Whole, ContentInv
    <3>3. \A e \in Downloads : down'[e] # "init" => opened'[e] \in Whole
      BY <3>1, <3>2 DEF DownInv
    <3> QED
      BY <2>2, <3>1, <3>3 DEF DownInv
  <2>4. CASE Read(d)
    <3>1. PICK q \in pos[d] .. Pieces :
            /\ pos' = [pos EXCEPT ![d] = q]
            /\ got' = [got EXCEPT ![d] = @ \o SubSeq(written[opened[d]], pos[d] + 1, q)]
            /\ down' = [down EXCEPT ![d] = IF q = pos[d] THEN "done" ELSE @]
            /\ q = pos[d] => q = Pieces
      BY <2>4, ReadGives
    <3>2. PICK t : t = SubSeq(written[opened[d]], pos[d] + 1, q)
      OBVIOUS
    <3>3. t \in Seq(Nat) /\ Len(t) = q - pos[d] /\ \A i \in 1 .. q - pos[d] : t[i] = pos[d] + i
      <4>1. PICK file, p : file = written[opened[d]] /\ p = pos[d]
        OBVIOUS
      <4>2. /\ file \in Seq(Nat) /\ Len(file) = Pieces /\ \A i \in 1 .. Pieces : file[i] = i
            /\ p \in 0 .. Pieces /\ Pieces \in Nat /\ q \in p .. Pieces
        BY <2>4, <4>1, PiecesAssumption DEF Read, DownInv, Whole, ContentInv
      <4>3. p + 1 \in Nat /\ q \in Nat /\ p + 1 >= 1 /\ q <= Len(file)
        BY <4>2
      <4>4. /\ t \in Seq(Nat)
            /\ Len(t) = IF p + 1 <= q THEN q - (p + 1) + 1 ELSE 0
            /\ \A i \in 1 .. Len(t) : t[i] = file[p + i]
        <5>1. t = SubSeq(file, p + 1, q)
          BY <3>2, <4>1
        <5> QED
          BY <4>2, <4>3, <5>1, SubSeqProperties
      <4>5. Len(t) = q - p
        BY <4>2, <4>4
      <4>6. ASSUME NEW i \in 1 .. q - p
            PROVE  t[i] = p + i
        <5>1. p + i \in 1 .. Pieces
          BY <4>2
        <5>2. t[i] = file[p + i]
          BY <4>4, <4>5, <4>6
        <5> QED
          BY <4>2, <5>1, <5>2
      <4> QED
        BY <4>1, <4>4, <4>5, <4>6
    <3>4. Given(got[d] \o t, q)
      BY <3>3, GivenMore DEF DownInv
    <3>5. /\ got'[d] = got[d] \o t /\ pos'[d] = q
          /\ down'[d] = IF q = pos[d] THEN "done" ELSE down[d]
          /\ \A e \in Downloads : e # d =>
                got'[e] = got[e] /\ pos'[e] = pos[e] /\ down'[e] = down[e]
      BY <3>1, <3>2 DEF DownInv
    <3>6. /\ down' \in [Downloads -> {"init", "prepared", "done"}]
          /\ got' \in [Downloads -> Seq(Nat)] /\ pos' \in [Downloads -> 0 .. Pieces]
      <4>1. got[d] \o t \in Seq(Nat) /\ q \in 0 .. Pieces
        BY <3>4 DEF Given
      <4> QED
        BY <3>1, <3>2, <4>1 DEF DownInv
    <3>7. UNCHANGED <<range, opened>> /\ down[d] = "prepared"
      BY <2>4 DEF Read
    <3>8. ASSUME NEW e \in Downloads
          PROVE  Given(got'[e], pos'[e])
      <4>1. CASE e = d
        BY <3>4, <3>5, <4>1
      <4>2. CASE e # d
        BY <3>5, <4>2 DEF DownInv
      <4> QED
        BY <4>1, <4>2
    <3>9. \A e \in Downloads : /\ down'[e] = "init" => got'[e] = <<>>
                               /\ down'[e] # "init" => opened[e] \in Whole
                               /\ down'[e] = "done" => pos'[e] = Pieces
      BY <3>1, <3>5, <3>7 DEF DownInv
    <3> QED
      BY <2>2, <3>6, <3>7, <3>8, <3>9 DEF DownInv
  <2>5. CASE ReadStale(d)
    <3>1. /\ got' = [got EXCEPT ![d] = Append(@, Junk)] /\ UNCHANGED <<pos, range, down, opened>>
          /\ down[d] = "prepared"
      BY <2>5 DEF ReadStale
    <3>2. Given(Append(got[d], Junk), pos[d])
      BY GivenJunk DEF DownInv
    <3>3. got' \in [Downloads -> Seq(Nat)]
      BY <3>1, <3>2 DEF DownInv, Given
    <3>4. ASSUME NEW e \in Downloads
          PROVE  Given(got'[e], pos[e]) /\ (down[e] = "init" => got'[e] = <<>>)
      <4>1. CASE e = d
        <5>1. got'[d] = Append(got[d], Junk)
          BY <3>1 DEF DownInv
        <5> QED
          BY <3>1, <3>2, <4>1, <5>1
      <4>2. CASE e # d
        BY <3>1, <4>2 DEF DownInv
      <4> QED
        BY <4>1, <4>2
    <3> QED
      BY <2>2, <3>1, <3>3, <3>4 DEF DownInv
  <2>6. CASE ReadFails(d)
    <3>1. UNCHANGED <<got, pos, range, down, opened>>
      BY <2>6 DEF ReadFails
    <3> QED
      BY <2>2, <3>1 DEF DownInv
  <2>7. ASSUME NEW size \in 1 .. Pieces, SetRange(d, size)
        PROVE  DownInv'
    <3>1. range' = [range EXCEPT ![d] = size] /\ UNCHANGED <<got, pos, down, opened>>
      BY <2>7 DEF SetRange
    <3>2. range' \in [Downloads -> Nat]
      BY <3>1, PiecesAssumption DEF DownInv
    <3> QED
      BY <2>2, <3>1, <3>2 DEF DownInv
  <2> QED
    BY <1>2, <2>3, <2>4, <2>5, <2>6, <2>7 DEF DownloadStep
<1>3. ASSUME NEW r \in Removals, RemovalStep(r)
      PROVE  DownInv'
  BY <1>3 DEF RemovalStep, PrepareRemoval, CommitRemoval, AbortRemoval, uploadVars, downloadVars,
              DownInv, Whole
<1>4. CASE UNCHANGED vars
  BY <1>4 DEF vars, uploadVars, downloadVars, DownInv, Whole
<1> QED
  BY <1>1, <1>2, <1>3, <1>4 DEF Next

(* On a volume where write(2) does not fail, a download gets the blob that  *)
(* was published when it was prepared, in order and to its end, whatever    *)
(* is removed, published, given as a range and fails meanwhile.             *)
THEOREM OneBlobIsRead == "write" \notin Faults => (Spec => []DownloadReadsOneBlob)
<1> SUFFICES ASSUME "write" \notin Faults
             PROVE  Spec => []DownloadReadsOneBlob
  OBVIOUS
<1>1. Init => ContentInv /\ DownInv
  BY DownInit, PiecesAssumption DEF Init, ContentInv
<1>2. IInv /\ ContentInv /\ DownInv /\ [Next]_vars => ContentInv' /\ DownInv'
  BY ContentStep, DownStep
<1>3. ContentInv /\ DownInv => DownloadReadsOneBlob
  <2> SUFFICES ASSUME ContentInv, DownInv, NEW d \in Downloads, NEW file, file = written[opened[d]]
               PROVE  /\ \A i \in 1 .. Len(got[d]) : got[d][i] # Junk =>
                            Fetched(d, i) <= Len(file) /\ got[d][i] = file[Fetched(d, i)]
                      /\ down[d] = "done" =>
                            Fetched(d, Len(got[d])) = Pieces /\ file = [i \in 1 .. Pieces |-> i]
    BY DEF DownloadReadsOneBlob
  <2>1. \A i : Fetched(d, i) = Count(got[d], i)
    BY DEF Fetched, Count
  <2>2. Given(got[d], pos[d])
    BY DEF DownInv
  <2>3. CASE down[d] = "init"
    BY <2>3 DEF DownInv
  <2>4. CASE down[d] # "init"
    <3>1. file \in Seq(Nat) /\ Len(file) = Pieces /\ \A i \in 1 .. Pieces : file[i] = i
      BY <2>4 DEF DownInv, Whole, ContentInv
    <3>2. file = [i \in 1 .. Pieces |-> i]
      <4>1. file \in [1 .. Pieces -> Nat]
        BY <3>1, LenProperties
      <4> QED
        BY <3>1, <4>1
    <3>3. ASSUME NEW i \in 1 .. Len(got[d]), got[d][i] # Junk
          PROVE  Fetched(d, i) <= Len(file) /\ got[d][i] = file[Fetched(d, i)]
      <4>1. PICK n : n = Count(got[d], i)
        OBVIOUS
      <4>2. got[d][i] = n /\ n \in 1 .. pos[d] /\ pos[d] \in 0 .. Pieces
        BY <2>2, <3>3, <4>1 DEF Given
      <4>3. n \in 1 .. Pieces /\ n <= Pieces
        BY <4>2, PiecesAssumption
      <4> QED
        BY <2>1, <3>1, <4>1, <4>2, <4>3
    <3>4. down[d] = "done" => Fetched(d, Len(got[d])) = Pieces
      BY <2>1, <2>2 DEF Given, DownInv
    <3> QED
      BY <3>2, <3>3, <3>4
  <2> QED
    BY <2>3, <2>4
<1> QED
  BY <1>1, <1>2, <1>3, InvariantHolds, PTL DEF Spec

-----------------------------------------------------------------------------
(* Every step of the files is a step of the store or leaves it unchanged: a *)
(* successful rename publishes, a failed one and an abort give up, a        *)
(* removal that finds a blob removes it.                                    *)
THEOREM LocalBlobImplementsBlobStore == Spec => ImplementsBlobStore
<1> USE DEF Abstract!StoreNext, Abstract!storeVars
<1>1. Init => Abstract!StoreInit
  BY DEF Init, Abstract!StoreInit
<1>2. IInv /\ [Next]_vars => [Abstract!StoreNext]_Abstract!storeVars
  <2> SUFFICES ASSUME IInv, [Next]_vars
               PROVE  Abstract!StoreNext \/ UNCHANGED Abstract!storeVars
    OBVIOUS
  <2>1. ASSUME NEW u \in Uploads, UploadStep(u)
        PROVE  Abstract!StoreNext \/ UNCHANGED Abstract!storeVars
    <3> USE <2>1 DEF downloadVars
    <3>1. CASE Rename(u)
      <4>1. CASE final' = temp /\ verdict' = [verdict EXCEPT ![u] = "stored"]
        <5>1. Abstract!Publish(u)
          BY <3>1, <4>1 DEF Rename, Abstract!Publish
        <5> QED
          BY <5>1
      <4>2. CASE final' = final /\ verdict' = [verdict EXCEPT ![u] = "failed"]
        <5>1. Abstract!GiveUp(u, "failed")
          BY <3>1, <4>2 DEF Rename, Abstract!GiveUp
        <5> QED
          BY <5>1
      <4> QED
        BY <3>1, <4>1, <4>2 DEF Rename
    <3>2. CASE Abort(u)
      <4>1. Abstract!GiveUp(u, "aborted")
        BY <3>2 DEF Abort, entries, Abstract!GiveUp
      <4> QED
        BY <4>1
    <3>3. CASE ~ Rename(u) /\ ~ Abort(u)
      BY <3>3 DEF UploadStep, CreateTemp, NoParent, Mkdir, StatFinal, Reject, Write, Close,
                  Discard, Vanish, entries
    <3> QED
      BY <3>1, <3>2, <3>3
  <2>2. ASSUME NEW d \in Downloads, DownloadStep(d)
        PROVE  Abstract!StoreNext \/ UNCHANGED Abstract!storeVars
    <3> USE <2>2 DEF uploadVars, entries
    <3>1. CASE PrepareDownload(d)
      <4>1. Abstract!Open(d)
        BY <3>1 DEF PrepareDownload, Abstract!Open
      <4> QED
        BY <4>1
    <3>2. CASE ~ PrepareDownload(d)
      BY <3>2 DEF DownloadStep, Read, ReadFails, ReadStale, SetRange
    <3> QED
      BY <3>1, <3>2
  <2>3. ASSUME NEW r \in Removals, RemovalStep(r)
        PROVE  Abstract!StoreNext \/ UNCHANGED Abstract!storeVars
    <3> USE <2>3 DEF uploadVars, downloadVars
    <3>1. CASE CommitRemoval(r) /\ final # NoBlob /\ final' = NoBlob
      <4>1. Abstract!Remove
        BY <3>1 DEF CommitRemoval, Abstract!Remove
      <4> QED
        BY <4>1
    <3>2. CASE ~ (CommitRemoval(r) /\ final # NoBlob /\ final' = NoBlob)
      BY <3>2 DEF RemovalStep, PrepareRemoval, CommitRemoval, AbortRemoval, entries
    <3> QED
      BY <3>1, <3>2
  <2>4. CASE UNCHANGED vars
    BY <2>4 DEF vars, entries, uploadVars, downloadVars
  <2> QED
    BY <2>1, <2>2, <2>3, <2>4 DEF Next
<1> QED
  BY <1>1, <1>2, InvariantHolds, PTL DEF Spec, ImplementsBlobStore, Abstract!Store

-----------------------------------------------------------------------------
(* The map (Mem, an instance of MemBlob).  Its argument needs no type of   *)
(* what the downloads copied.                                              *)
USE DEF Mem!Steps, Mem!Present, Mem!EraseItem

(* An item that is pending belongs to an upload that is prepared, and an   *)
(* upload has no verdict before it is done.                                *)
ItemInv ==
    /\ memOwner \in Uploads \cup {NoBlob} /\ memPending \in BOOLEAN /\ memData \in Seq(Uploads)
    /\ memUp \in [Uploads -> Mem!Steps]
    /\ memVerdict \in [Uploads -> {"none", "stored", "aborted", "failed"}]
    /\ memPending => memOwner # NoBlob
    /\ \A u \in Uploads : memUp[u] # "done" => memVerdict[u] = "none"

ItemsInv == ItemInv /\ Mem!PreparedOwnsItem

LEMMA NoData == <<>> \in Seq(Uploads)
OBVIOUS

LEMMA MemInitInv == Mem!Init => ItemsInv
<1> SUFFICES ASSUME Mem!Init PROVE ItemsInv
  OBVIOUS
<1>1. ItemInv
  BY NoData DEF Mem!Init, ItemInv
<1>2. Mem!PreparedOwnsItem
  BY DEF Mem!Init, Mem!PreparedOwnsItem
<1> QED
  BY <1>1, <1>2 DEF ItemsInv

-----------------------------------------------------------------------------
(* The steps of the uploads.  The one that is prepared is alone: another   *)
(* would own the same item.                                                *)
LEMMA MemPrepareInv ==
    ASSUME ItemsInv, NEW u \in Uploads, Mem!Prepare(u)
    PROVE  ItemsInv'
<1>1. ItemInv'
  BY NamesAssumption DEF ItemsInv, ItemInv, Mem!Prepare, Mem!Create
<1>2. \A v \in Uploads : memUp[v] # "prepared"
  BY NamesAssumption DEF ItemsInv, Mem!PreparedOwnsItem, Mem!Prepare, Mem!Create
<1>3. \A v \in Uploads : memUp'[v] = "prepared" => v = u
  BY <1>2 DEF ItemsInv, ItemInv, Mem!Prepare
<1>4. Mem!PreparedOwnsItem'
  BY <1>3 DEF Mem!PreparedOwnsItem, Mem!Prepare, Mem!Create
<1> QED
  BY <1>1, <1>4 DEF ItemsInv

LEMMA MemWriteInv ==
    ASSUME ItemsInv, NEW u \in Uploads, Mem!Write(u)
    PROVE  ItemsInv'
<1>1. ItemInv'
  BY DEF ItemsInv, ItemInv, Mem!Write
<1>2. memOwner = u /\ memPending /\ \A i \in DOMAIN memData : memData[i] = u
  BY DEF ItemsInv, Mem!PreparedOwnsItem, Mem!Write
<1>3. memData \in Seq(Uploads) /\ memData' = Append(memData, u)
  BY DEF ItemsInv, ItemInv, Mem!Write
<1>4. \A i \in DOMAIN memData' : memData'[i] = u
  BY <1>2, <1>3
<1>5. Mem!PreparedOwnsItem'
  BY <1>2, <1>4 DEF ItemsInv, Mem!PreparedOwnsItem, Mem!Write
<1> QED
  BY <1>1, <1>5 DEF ItemsInv

(* Commit and Abort end the only upload that is prepared. *)
LEMMA MemEndInv ==
    ASSUME ItemsInv, NEW u \in Uploads, Mem!Commit(u) \/ Mem!Abort(u)
    PROVE  ItemsInv'
<1>1. memOwner = u /\ memPending
  BY DEF ItemsInv, Mem!PreparedOwnsItem, Mem!Commit, Mem!Abort
<1>2. \A v \in Uploads : memUp'[v] # "prepared"
  BY <1>1 DEF ItemsInv, ItemInv, Mem!PreparedOwnsItem, Mem!Commit, Mem!Abort
<1>3. Mem!PreparedOwnsItem'
  BY <1>2 DEF Mem!PreparedOwnsItem
<1>4. ItemInv'
  <2>1. CASE Mem!Commit(u)
    BY <2>1 DEF ItemsInv, ItemInv, Mem!Commit, Mem!Validate
  <2>2. CASE Mem!Abort(u)
    <3>1. memOwner' = NoBlob /\ memPending' = FALSE /\ memData' = <<>>
      BY <1>1, <2>2 DEF Mem!Abort, Mem!Discard
    <3> QED
      BY <2>2, <3>1, NoData DEF ItemsInv, ItemInv, Mem!Abort
  <2> QED
    BY <2>1, <2>2
<1> QED
  BY <1>3, <1>4 DEF ItemsInv

-----------------------------------------------------------------------------
(* The steps of the downloads and of the removals: those that erase look   *)
(* whether the item is pending.                                            *)
LEMMA MemDownloadInv ==
    ASSUME ItemsInv, NEW d \in MemDownloads, Mem!PrepareDownload(d) \/ Mem!Read(d)
    PROVE  ItemsInv'
<1>1. UNCHANGED <<Mem!cache, memUp, memVerdict>>
  BY DEF Mem!PrepareDownload, Mem!Read
<1> QED
  BY <1>1 DEF ItemsInv, ItemInv, Mem!PreparedOwnsItem, Mem!cache

LEMMA MemRemovalInv ==
    ASSUME ItemsInv, NEW r \in MemRemovals,
           Mem!PrepareRemoval(r) \/ Mem!CommitRemoval(r) \/ Mem!AbortRemoval(r)
    PROVE  ItemsInv'
<1>1. CASE Mem!CommitRemoval(r)
  <2>1. \A u \in Uploads : memUp'[u] # "prepared"
    BY <1>1 DEF ItemsInv, Mem!PreparedOwnsItem, Mem!CommitRemoval
  <2> QED
    BY <1>1, <2>1, NoData DEF ItemsInv, ItemInv, Mem!PreparedOwnsItem, Mem!CommitRemoval
<1>2. CASE Mem!PrepareRemoval(r) \/ Mem!AbortRemoval(r)
  <2>1. UNCHANGED <<Mem!cache, memUp, memVerdict>>
    BY <1>2 DEF Mem!PrepareRemoval, Mem!AbortRemoval
  <2> QED
    BY <2>1 DEF ItemsInv, ItemInv, Mem!PreparedOwnsItem, Mem!cache
<1> QED
  BY <1>1, <1>2

LEMMA MemStepInv == ItemsInv /\ [Mem!Next]_(Mem!vars) => ItemsInv'
<1> SUFFICES ASSUME ItemsInv, [Mem!Next]_(Mem!vars) PROVE ItemsInv'
  OBVIOUS
<1>1. ASSUME NEW u \in Uploads, Mem!Prepare(u) PROVE ItemsInv'
  BY <1>1, MemPrepareInv
<1>2. ASSUME NEW u \in Uploads, Mem!Write(u) PROVE ItemsInv'
  BY <1>2, MemWriteInv
<1>3. ASSUME NEW u \in Uploads, Mem!Commit(u) \/ Mem!Abort(u) PROVE ItemsInv'
  BY <1>3, MemEndInv
<1>4. ASSUME NEW d \in MemDownloads, Mem!PrepareDownload(d) \/ Mem!Read(d) PROVE ItemsInv'
  BY <1>4, MemDownloadInv
<1>5. ASSUME NEW r \in MemRemovals,
             Mem!PrepareRemoval(r) \/ Mem!CommitRemoval(r) \/ Mem!AbortRemoval(r)
      PROVE  ItemsInv'
  BY <1>5, MemRemovalInv
<1>6. CASE UNCHANGED Mem!vars
  BY <1>6 DEF ItemsInv, ItemInv, Mem!PreparedOwnsItem, Mem!vars, Mem!cache
<1> QED
  BY <1>1, <1>2, <1>3, <1>4, <1>5, <1>6 DEF Mem!Next

-----------------------------------------------------------------------------
(* The map implements the abstract store: a Commit publishes and never     *)
(* fails, an Abort gives up, a removal removes what is published.          *)
LEMMA MemStepRefines ==
    ASSUME ItemsInv, Mem!Next
    PROVE  Mem!Abstract!StoreNext \/ UNCHANGED Mem!Abstract!storeVars
<1> USE DEF Mem!Abstract!StoreNext, Mem!Abstract!storeVars
<1>1. ASSUME NEW u \in Uploads, Mem!Commit(u)
      PROVE  Mem!Abstract!Publish(u)
  <2>1. memOwner = u /\ memPending /\ memVerdict[u] = "none"
    BY <1>1 DEF ItemsInv, ItemInv, Mem!PreparedOwnsItem, Mem!Commit
  <2> QED
    BY <1>1, <2>1, NamesAssumption DEF Mem!Commit, Mem!Validate, Mem!Abstract!Publish
<1>2. ASSUME NEW u \in Uploads, Mem!Abort(u)
      PROVE  Mem!Abstract!GiveUp(u, "aborted")
  <2>1. memOwner = u /\ memPending /\ memVerdict[u] = "none"
    BY <1>2 DEF ItemsInv, ItemInv, Mem!PreparedOwnsItem, Mem!Abort
  <2> QED
    BY <1>2, <2>1 DEF Mem!Abort, Mem!Discard, Mem!Abstract!GiveUp
<1>3. ASSUME NEW u \in Uploads, Mem!Prepare(u) \/ Mem!Write(u)
      PROVE  UNCHANGED Mem!Abstract!storeVars
  BY <1>3 DEF ItemsInv, ItemInv, Mem!Prepare, Mem!Create, Mem!Write
<1>4. ASSUME NEW d \in MemDownloads, Mem!PrepareDownload(d) \/ Mem!Read(d)
      PROVE  UNCHANGED Mem!Abstract!storeVars
  BY <1>4 DEF Mem!PrepareDownload, Mem!Read, Mem!cache
<1>5. ASSUME NEW r \in MemRemovals, Mem!CommitRemoval(r)
      PROVE  Mem!Abstract!Remove
  BY <1>5 DEF Mem!CommitRemoval, Mem!Abstract!Remove
<1>6. ASSUME NEW r \in MemRemovals, Mem!PrepareRemoval(r) \/ Mem!AbortRemoval(r)
      PROVE  UNCHANGED Mem!Abstract!storeVars
  BY <1>6 DEF Mem!PrepareRemoval, Mem!AbortRemoval, Mem!cache
<1> QED
  BY <1>1, <1>2, <1>3, <1>4, <1>5, <1>6 DEF Mem!Next

(* A behaviour of the two backends is one of the files and one of the map, *)
(* whichever the process serves.                                           *)
LEMMA BehavesAsBoth == MCSpec => Spec /\ Mem!Spec
<1>1. MCInit => Init /\ Mem!Init
  BY DEF MCInit
<1>2. [MCNext]_<<backend, vars, memVars>> => [Next]_vars /\ [Mem!Next]_(Mem!vars)
  <2> SUFFICES ASSUME [MCNext]_<<backend, vars, memVars>>
               PROVE  [Next]_vars /\ [Mem!Next]_(Mem!vars)
    OBVIOUS
  <2>1. UNCHANGED memVars => UNCHANGED Mem!vars
    BY DEF memVars, Mem!vars, Mem!cache
  <2> QED
    BY <2>1 DEF MCNext
<1> QED
  BY <1>1, <1>2, PTL DEF MCSpec, Spec, Mem!Spec

(* For any uploads, downloads and removals of the name: what an upload     *)
(* prepared in the map stays its own and pending until its Commit or Abort. *)
THEOREM PreparedItemIsOwned == MCSpec => []PreparedOwnsItem
<1>1. ItemsInv => PreparedOwnsItem
  BY DEF ItemsInv, PreparedOwnsItem
<1> QED
  BY <1>1, BehavesAsBoth, MemInitInv, MemStepInv, PTL DEF Mem!Spec

(* Every behaviour of the map, as its uploads and removals see it, is one  *)
(* of the abstract store.                                                  *)
THEOREM MemBlobImplementsBlobStore == MCSpec => MapImplementsBlobStore
<1>1. Mem!Init => Mem!Abstract!StoreInit
  BY DEF Mem!Init, Mem!Abstract!StoreInit
<1>2. ItemsInv /\ [Mem!Next]_(Mem!vars) => [Mem!Abstract!StoreNext]_(Mem!Abstract!storeVars)
  <2>1. UNCHANGED Mem!vars => UNCHANGED Mem!Abstract!storeVars
    BY DEF Mem!vars, Mem!cache, Mem!Abstract!storeVars
  <2> QED
    BY <2>1, MemStepRefines
<1> QED
  BY <1>1, <1>2, MemInitInv, MemStepInv, BehavesAsBoth, PTL
  DEF Mem!Spec, MapImplementsBlobStore, Mem!ImplementsBlobStore, Mem!Abstract!Store

(* The files keep the promise too, in the same specification: each of the  *)
(* backends is a BlobStore.                                                *)
COROLLARY BothImplementBlobStore == MCSpec => ImplementsBlobStore /\ MapImplementsBlobStore
BY BehavesAsBoth, LocalBlobImplementsBlobStore, MemBlobImplementsBlobStore, PTL
=============================================================================
