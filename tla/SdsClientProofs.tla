-------------------------- MODULE SdsClientProofs --------------------------
(***************************************************************************)
(* Safety of SdsClient, for any uploads and downloads of the content, any  *)
(* files and any size of the chunks.                                       *)
(***************************************************************************)
EXTENDS SdsClient, FiniteSetTheorems, SequenceTheorems, TLAPS

-----------------------------------------------------------------------------
(* The inductive invariant. *)

One(c) == [n \in {0} |-> c]

(* The targets of an upload: number 0, which every chunk replaces, and 1,  *)
(* which only the second chunk gets, while number 0 is at position 0.      *)
Own(u) == {NoUrl} \cup {<<u, n>> : n \in 1 .. MaxPieces}

Numbered(u, t) ==
    /\ DOMAIN t \in {{0}, {0, 1}}
    /\ \A n \in DOMAIN t : t[n] \in Chunks /\ t[n].url \in Own(u)
    /\ 1 \in DOMAIN t => t[1].pos = 0

(* How far an upload is, at each of its steps. *)
Fresh(u) ==
    /\ targets[u] = NoTargets /\ unread[u] = <<>>
    /\ asked[u] = 0 /\ sent[u] = 0 /\ metachunk[u] = 0

Going(u) ==
    /\ size[u] = ChunkSize
    /\ Numbered(u, targets[u])
    /\ metachunk[u] <= sent[u]
    /\ targets[u][0].pos = IF metachunk[u] = 0 THEN 0 ELSE metachunk[u] - 1

Reached(u, second, replies) ==
    /\ metachunk[u] >= second - 1
    /\ 1 \in DOMAIN targets[u] => metachunk[u] >= second
    /\ asked[u] <= metachunk[u] + replies

Progress(u) ==
    /\ up[u] = "first" => Fresh(u)
    /\ up[u] = "store" => Going(u) /\ sent[u] < len[u] /\ Reached(u, 1, 1)
    /\ up[u] = "next" => Going(u) /\ sent[u] < len[u] /\ Reached(u, 2, 0)
    /\ up[u] = "create" => Going(u) /\ sent[u] = len[u] /\ Reached(u, 2, 0)

(* What is registered: of an upload that has ended and answered no error,  *)
(* the length of its file and the one or two chunks of its targets.        *)
IsChunkList(s) ==
    \/ s = <<>>
    \/ \E c \in Chunks : s = <<c>>
    \/ \E c, e \in Chunks : s = <<c, e>> /\ e.pos = 0

ContentInv ==
    /\ IsChunkList(content.chunks)
    /\ content.owner = NoContent.owner \/
        \E u \in Uploads :
            /\ content.owner = u /\ up[u] = "done" /\ err[u] = "ok"
            /\ content.length = len[u]

(* A clean upload of one chunk. *)
Chunk(u) == [url |-> <<u, 1>>, pos |-> 0, size |-> len[u]]
Stored(u) == rawx[<<u, 1>>] = [i \in 1 .. ChunkSize |-> IF i <= len[u] THEN <<u, i>> ELSE Zero]

CleanUpload(u) ==
    u \in clean =>
        /\ unread[u] = <<>>
        /\ OneChunk(u) =>
            /\ up[u] = "store" =>
                targets[u] = One(Proposed(u, 1)) /\ sent[u] = 0 /\ metachunk[u] = 0
            /\ up[u] # "next"
            /\ up[u] = "create" => targets[u] = One(Chunk(u)) /\ Stored(u)
            /\ content.owner = u => content.chunks = <<Chunk(u)>> /\ Stored(u)

(* A download, and one that is clean of a clean upload of one chunk. *)
Following(d) ==
    /\ down[d] = "show" =>
        /\ shown[d] = NoContent.owner /\ dtargets[d] = NoTargets
        /\ out[d] = <<>> /\ next[d] = 0
    /\ down[d] = "fetch" =>
        /\ IsFiniteSet(DOMAIN dtargets[d]) /\ Cardinality(DOMAIN dtargets[d]) <= 2
        /\ next[d] < Cardinality(DOMAIN dtargets[d])
    /\ shown[d] \in Uploads => up[shown[d]] = "done"

ComesBack(d) ==
    /\ \E n \in 1 .. ChunkSize : out[d] = FileUntil(shown[d], n)
    /\ d \notin cut => out[d] = File(shown[d])

CleanDownload(d) ==
    d \in clean /\ shown[d] \in clean /\ OneChunk(shown[d]) =>
        /\ Stored(shown[d])
        /\ down[d] = "fetch" =>
            dtargets[d] = One(Chunk(shown[d])) /\ out[d] = <<>> /\ next[d] = 0
        /\ down[d] = "done" => ComesBack(d)

(* The proxy numbers the chunks it proposes. *)
Replies == \A u \in Uploads : unread[u] \in Seq(0 .. asked[u])

(* TypeOK gives the chunks of each operation. *)
Maps ==
    /\ targets = [u \in Uploads |-> targets[u]]
    /\ dtargets = [d \in Downloads |-> dtargets[d]]

IInv ==
    /\ TypeOK /\ Maps /\ Replies
    /\ \A u \in Uploads : Progress(u) /\ CleanUpload(u)
    /\ ContentInv
    /\ \A d \in Downloads : Following(d) /\ CleanDownload(d)

-----------------------------------------------------------------------------
(* The set of chunks. *)

LEMMA Cards == Cardinality({}) = 0 /\ (\A x : Cardinality({x}) = 1) /\ Cardinality({0, 1}) = 2
<1>1. Cardinality({}) = 0 /\ IsFiniteSet({})
  BY FS_EmptySet
<1>2. \A x : Cardinality({x}) = 1 /\ IsFiniteSet({x})
  BY FS_Singleton
<1>3. {0} \cup {1} = {0, 1} /\ 1 \notin {0}
  OBVIOUS
<1>4. Cardinality({0} \cup {1}) = Cardinality({0}) + 1
  BY <1>2, <1>3, FS_AddElement
<1>5. Cardinality({0, 1}) = 2
  BY <1>2, <1>3, <1>4
<1> QED
  BY <1>1, <1>2, <1>5

LEMMA SmallPairs ==
    ASSUME NEW m, NEW n
    PROVE  IsFiniteSet({m, n}) /\ Cardinality({m, n}) <= 2 /\ Cardinality({m, n}) \in Nat
<1>1. IsFiniteSet({m}) /\ Cardinality({m}) = 1
  BY FS_Singleton
<1>2. {m} \cup {n} = {m, n}
  OBVIOUS
<1>3. IsFiniteSet({m, n}) /\ (Cardinality({m, n}) = 1 \/ Cardinality({m, n}) = 1 + 1)
  BY <1>1, <1>2, FS_AddElement
<1> QED
  BY <1>3

LEMMA LeastIsZero == ASSUME NEW t, DOMAIN t \in {{0}, {0, 1}} PROVE Least(t) = 0
BY DEF Least

(* The first chunk put gets its position as number. *)
LEMMA InsertFirst ==
    ASSUME NEW c, c.pos \in Nat PROVE Insert(NoTargets, c) = [n \in {c.pos} |-> c]
<1>1. DOMAIN NoTargets = {}
  BY DEF NoTargets
<1>2. NumberOf(NoTargets, c) = c.pos
  BY <1>1, Cards DEF NumberOf
<1>3. Insert(NoTargets, c) =
        [m \in {} \cup {c.pos} |-> IF m \in {} THEN NoTargets[m] ELSE c]
  BY <1>1, <1>2 DEF Insert
<1> QED
  BY <1>3

(* The second one, at position 0, gets 1 behind a chunk at position 0. *)
LEMMA InsertSecond ==
    ASSUME NEW c, NEW e, c.pos \in Nat, e.pos = 0
    PROVE  Insert([n \in {c.pos} |-> c], e) =
             [m \in {c.pos, IF c.pos = 0 THEN 1 ELSE 0} |-> IF m = c.pos THEN c ELSE e]
<1> DEFINE t == [n \in {c.pos} |-> c]
<1>1. DOMAIN t = {c.pos} /\ t[c.pos] = c
  OBVIOUS
<1>2. Least(t) = c.pos
  BY <1>1 DEF Least
<1>3. Cardinality(DOMAIN t) = 1
  BY <1>1, Cards
<1> HIDE DEF t
<1>4. NumberOf(t, e) = IF c.pos = 0 THEN 1 ELSE 0
  BY <1>1, <1>2, <1>3 DEF NumberOf
<1>5. Insert(t, e) = [m \in {c.pos} \cup {IF c.pos = 0 THEN 1 ELSE 0} |->
                        IF m \in {c.pos} THEN t[m] ELSE e]
  BY <1>1, <1>4 DEF Insert
<1>6. \A m : IF m \in {c.pos} THEN t[m] = c ELSE TRUE
  BY <1>1
<1> QED
  BY <1>5, <1>6 DEF t

(* A chunk that the proxy proposes, put behind the targets of an upload:   *)
(* it gets number 1, or there is a chunk of its number.                    *)
LEMMA InsertMore ==
    ASSUME NEW u \in Uploads, NEW t, Numbered(u, t), NEW k \in 1 .. MaxPieces,
           1 \in DOMAIN t => t[0].pos # 0
    PROVE  /\ Numbered(u, Insert(t, Proposed(u, k)))
           /\ Insert(t, Proposed(u, k))[0] = t[0]
           /\ 1 \in DOMAIN Insert(t, Proposed(u, k)) => 1 \in DOMAIN t \/ t[0].pos = 0
<1>1. /\ Proposed(u, k) \in Chunks
      /\ Proposed(u, k).url \in Own(u)
      /\ Proposed(u, k).pos = 0
  BY SizesAssumption DEF Proposed, Chunks, Own, Urls
<1>2. Least(t) = 0
  BY LeastIsZero DEF Numbered
<1>3. NumberOf(t, Proposed(u, k)) = IF t[0].pos = 0 THEN Cardinality(DOMAIN t) ELSE 0
  BY <1>1, <1>2 DEF NumberOf, Numbered
<1>4. NumberOf(t, Proposed(u, k)) = IF t[0].pos = 0 THEN 1 ELSE 0
  BY <1>3, Cards DEF Numbered
<1>5. PICK n \in {0, 1} :
        /\ Insert(t, Proposed(u, k)) =
             [m \in DOMAIN t \cup {n} |-> IF m \in DOMAIN t THEN t[m] ELSE Proposed(u, k)]
        /\ n = 1 => t[0].pos = 0
  BY <1>4 DEF Insert
<1>6. 0 \in DOMAIN t
  BY DEF Numbered
<1>7. DOMAIN t \cup {n} \in {{0}, {0, 1}}
  BY DEF Numbered
<1>8. Numbered(u, Insert(t, Proposed(u, k)))
  BY <1>1, <1>5, <1>7 DEF Numbered
<1> QED
  BY <1>5, <1>6, <1>8

(* Number 0 is replaced by the chunk that was stored. *)
LEMMA UpdatedTargets ==
    ASSUME NEW u \in Uploads, NEW t, Numbered(u, t), NEW n \in 0 .. MaxPieces,
           NEW length \in 0 .. MaxPieces
    PROVE  /\ Numbered(u, Updated(t, n, length))
           /\ DOMAIN Updated(t, n, length) = DOMAIN t
           /\ Updated(t, n, length)[0].pos = n
<1> DEFINE c == [url |-> GetTarget(t, n).url, pos |-> n, size |-> length]
<1>1. 0 \in DOMAIN t /\ DOMAIN t \cup {0} = DOMAIN t
  BY DEF Numbered
<1>2. c.pos = n /\ c.url = GetTarget(t, n).url
  OBVIOUS
<1>3. GetTarget(t, n).url \in Own(u) /\ GetTarget(t, n).url \in Urls \cup {NoUrl}
  BY DEF GetTarget, Numbered, Own, Chunks
<1>4. c \in Chunks
  BY <1>3, SizesAssumption DEF Chunks
<1>5. Updated(t, n, length) = [m \in DOMAIN t |-> IF m = 0 THEN c ELSE t[m]]
  BY <1>1 DEF Updated
<1> HIDE DEF c
<1>6. Numbered(u, Updated(t, n, length))
  BY <1>2, <1>3, <1>4, <1>5 DEF Numbered
<1> QED
  BY <1>1, <1>2, <1>5, <1>6

(* get_contents gives the chunks by their numbers. *)
LEMMA ListedTargets ==
    ASSUME NEW t, DOMAIN t \in {{0}, {0, 1}}
    PROVE  Listed(t) = IF 1 \in DOMAIN t THEN <<t[0], t[1]>> ELSE <<t[0]>>
<1> DEFINE Ranked(i) == CHOOSE n \in DOMAIN t : Cardinality({m \in DOMAIN t : m < n}) = i - 1
<1>1. Listed(t) = [i \in 1 .. Cardinality(DOMAIN t) |-> t[Ranked(i)]]
  BY DEF Listed
<1>2. {m \in DOMAIN t : m < 0} = {}
  OBVIOUS
<1>3. Cardinality({m \in DOMAIN t : m < 0}) = 0
  BY <1>2, Cards
<1>4. ASSUME 1 \in DOMAIN t PROVE Cardinality({m \in DOMAIN t : m < 1}) = 1
  <2>1. {m \in DOMAIN t : m < 1} = {0}
    BY <1>4
  <2> QED
    BY <2>1, Cards
<1>5. Ranked(1) = 0
  BY <1>3, <1>4
<1>6. 1 \in DOMAIN t => Ranked(2) = 1
  BY <1>3, <1>4
<1> HIDE DEF Ranked
<1>7. CASE 1 \in DOMAIN t
  <2>1. Cardinality(DOMAIN t) = 2
    BY <1>7, Cards
  <2>2. Listed(t) = [i \in 1 .. 2 |-> t[Ranked(i)]]
    BY <1>1, <2>1
  <2> QED
    BY <1>5, <1>6, <1>7, <2>2
<1>8. CASE 1 \notin DOMAIN t
  <2>1. Cardinality(DOMAIN t) = 1
    BY <1>8, Cards
  <2>2. Listed(t) = [i \in 1 .. 1 |-> t[Ranked(i)]]
    BY <1>1, <2>1
  <2> QED
    BY <1>5, <1>8, <2>2
<1> QED
  BY <1>7, <1>8

-----------------------------------------------------------------------------
(* put_contents: the fold of FoldLeft, over lists of at most two chunks.   *)

Folded(f, s) ==
    f = [S \in SUBSET (DOMAIN s) |->
            IF S = {} THEN NoTargets ELSE Insert(f[S \ {Max(S)}], s[Max(S)])]

LEMMA ParsedFolds ==
    ASSUME NEW s, \E f : Folded(f, s) PROVE \E f : Folded(f, s) /\ Parsed(s) = f[DOMAIN s]
<1>1. Parsed(s) =
        (CHOOSE f :
            f = [S \in SUBSET (DOMAIN s) |->
                    IF S = {} THEN NoTargets ELSE Insert(f[S \ {Max(S)}], s[Max(S)])])[DOMAIN s]
  BY DEF Parsed, FoldLeft, MapThenFoldSet
<1>2. Parsed(s) = (CHOOSE f : Folded(f, s))[DOMAIN s]
  BY <1>1 DEF Folded
<1> QED
  BY <1>2

LEMMA Maxima == Max({1}) = 1 /\ Max({2}) = 2 /\ Max({1, 2}) = 2
BY DEF Max

LEMMA ParsedNone == Parsed(<<>>) = NoTargets
<1>1. DOMAIN <<>> = {}
  OBVIOUS
<1> DEFINE g == [S \in SUBSET {} |-> NoTargets]
<1>2. g = [S \in SUBSET (DOMAIN <<>>) |->
             IF S = {} THEN NoTargets ELSE Insert(g[S \ {Max(S)}], <<>>[Max(S)])]
  <2>1. \A S \in SUBSET {} : S = {}
    OBVIOUS
  <2> QED
    BY <1>1, <2>1
<1>3. Folded(g, <<>>)
  BY <1>2 DEF Folded
<1>4. PICK f : Folded(f, <<>>) /\ Parsed(<<>>) = f[{}]
  BY <1>1, <1>3, ParsedFolds
<1>5. {} \in SUBSET (DOMAIN <<>>)
  OBVIOUS
<1> QED
  BY <1>4, <1>5 DEF Folded

LEMMA ParsedOne == ASSUME NEW c PROVE Parsed(<<c>>) = Insert(NoTargets, c)
<1>1. DOMAIN <<c>> = {1} /\ <<c>>[1] = c
  OBVIOUS
<1> DEFINE g == [S \in SUBSET {1} |-> IF S = {} THEN NoTargets ELSE Insert(NoTargets, c)]
<1>2. ASSUME NEW S \in SUBSET {1}
      PROVE  g[S] = IF S = {} THEN NoTargets ELSE Insert(g[S \ {Max(S)}], <<c>>[Max(S)])
  <2>1. CASE S = {}
    BY <2>1
  <2>2. CASE S # {}
    <3>1. S = {1} /\ Max(S) = 1 /\ S \ {Max(S)} = {}
      BY <2>2, Maxima
    <3>2. {} \in SUBSET {1}
      OBVIOUS
    <3>3. g[S \ {Max(S)}] = NoTargets
      BY <3>1, <3>2
    <3> QED
      BY <1>1, <2>2, <3>1, <3>3
  <2> QED
    BY <2>1, <2>2
<1>3. g = [S \in SUBSET {1} |->
             IF S = {} THEN NoTargets ELSE Insert(g[S \ {Max(S)}], <<c>>[Max(S)])]
  BY <1>2
<1>4. Folded(g, <<c>>)
  BY <1>1, <1>3 DEF Folded
<1>5. PICK f : Folded(f, <<c>>) /\ Parsed(<<c>>) = f[{1}]
  BY <1>1, <1>4, ParsedFolds
<1>6. {} \in SUBSET (DOMAIN <<c>>) /\ {1} \in SUBSET (DOMAIN <<c>>) /\ {1} # {}
  BY <1>1
<1>7. f[{}] = NoTargets
  BY <1>5, <1>6 DEF Folded
<1>8. f[{1}] = Insert(f[{1} \ {Max({1})}], <<c>>[Max({1})])
  BY <1>5, <1>6 DEF Folded
<1>9. {1} \ {Max({1})} = {} /\ <<c>>[Max({1})] = c
  BY <1>1, Maxima
<1> QED
  BY <1>5, <1>7, <1>8, <1>9

LEMMA ParsedTwo ==
    ASSUME NEW c, NEW e PROVE Parsed(<<c, e>>) = Insert(Insert(NoTargets, c), e)
<1>1. DOMAIN <<c, e>> = {1, 2} /\ <<c, e>>[1] = c /\ <<c, e>>[2] = e
  OBVIOUS
<1> DEFINE g == [S \in SUBSET {1, 2} |->
                    IF S = {} THEN NoTargets
                    ELSE IF S = {1} THEN Insert(NoTargets, c)
                    ELSE IF S = {2} THEN Insert(NoTargets, e)
                    ELSE Insert(Insert(NoTargets, c), e)]
<1>a. g[{}] = NoTargets /\ g[{1}] = Insert(NoTargets, c)
  <2>1. {} \in SUBSET {1, 2} /\ {1} \in SUBSET {1, 2} /\ {1} # {}
    OBVIOUS
  <2> QED
    BY <2>1
<1>b. g[{2}] = Insert(NoTargets, e) /\ g[{1, 2}] = Insert(Insert(NoTargets, c), e)
  <2>1. /\ {2} \in SUBSET {1, 2} /\ {2} # {} /\ {2} # {1}
        /\ {1, 2} \in SUBSET {1, 2} /\ {1, 2} # {} /\ {1, 2} # {1} /\ {1, 2} # {2}
    OBVIOUS
  <2> QED
    BY <2>1
<1>c. /\ {1} \ {Max({1})} = {} /\ <<c, e>>[Max({1})] = c
      /\ {2} \ {Max({2})} = {} /\ <<c, e>>[Max({2})] = e
      /\ {1, 2} \ {Max({1, 2})} = {1} /\ <<c, e>>[Max({1, 2})] = e
  BY <1>1, Maxima
<1>2. ASSUME NEW S \in SUBSET {1, 2}
      PROVE  g[S] = IF S = {} THEN NoTargets ELSE Insert(g[S \ {Max(S)}], <<c, e>>[Max(S)])
  <2> HIDE DEF g
  <2>1. S = {} \/ S = {1} \/ S = {2} \/ S = {1, 2}
    OBVIOUS
  <2>2. CASE S = {}
    BY <1>a, <2>2
  <2>3. CASE S = {1}
    BY <1>a, <1>c, <2>3
  <2>4. CASE S = {2}
    BY <1>a, <1>b, <1>c, <2>4
  <2>5. CASE S = {1, 2}
    BY <1>a, <1>b, <1>c, <2>5
  <2> QED
    BY <2>1, <2>2, <2>3, <2>4, <2>5
<1>3. g = [S \in SUBSET {1, 2} |->
             IF S = {} THEN NoTargets ELSE Insert(g[S \ {Max(S)}], <<c, e>>[Max(S)])]
  BY <1>2
<1>4. Folded(g, <<c, e>>)
  BY <1>1, <1>3 DEF Folded
<1> HIDE DEF g
<1>5. PICK f : Folded(f, <<c, e>>) /\ Parsed(<<c, e>>) = f[{1, 2}]
  BY <1>1, <1>4, ParsedFolds
<1>6. /\ {} \in SUBSET (DOMAIN <<c, e>>)
      /\ {1} \in SUBSET (DOMAIN <<c, e>>) /\ {1} # {}
      /\ {1, 2} \in SUBSET (DOMAIN <<c, e>>) /\ {1, 2} # {}
  BY <1>1
<1>7. f[{}] = NoTargets
  BY <1>5, <1>6 DEF Folded
<1>8. f[{1}] = Insert(f[{1} \ {Max({1})}], <<c, e>>[Max({1})])
  BY <1>5, <1>6 DEF Folded
<1>9. f[{1, 2}] = Insert(f[{1, 2} \ {Max({1, 2})}], <<c, e>>[Max({1, 2})])
  BY <1>5, <1>6 DEF Folded
<1> QED
  BY <1>5, <1>7, <1>8, <1>9, <1>c

(* What a download makes of a list that was registered. *)
LEMMA ParsedTargets ==
    ASSUME NEW s, IsChunkList(s)
    PROVE  /\ IsTargets(Parsed(s))
           /\ IsFiniteSet(DOMAIN Parsed(s))
           /\ Cardinality(DOMAIN Parsed(s)) \in 0 .. 2
           /\ Parsed(s) # NoTargets => Cardinality(DOMAIN Parsed(s)) > 0
<1>1. CASE s = <<>>
  <2>1. Parsed(s) = NoTargets /\ DOMAIN NoTargets = {}
    BY <1>1, ParsedNone DEF NoTargets
  <2> QED
    BY <2>1, Cards, FS_EmptySet DEF IsTargets
<1>2. CASE \E c \in Chunks : s = <<c>>
  <2>1. PICK c \in Chunks : s = <<c>>
    BY <1>2
  <2>2. c.pos \in 0 .. MaxPieces
    BY DEF Chunks
  <2>3. Parsed(s) = [n \in {c.pos} |-> c]
    BY <2>1, <2>2, SizesAssumption, ParsedOne, InsertFirst
  <2>4. DOMAIN Parsed(s) = {c.pos}
    BY <2>3
  <2>5. IsTargets(Parsed(s))
    BY <2>2, <2>3, <2>4 DEF IsTargets, Numbers
  <2>6. IsFiniteSet(DOMAIN Parsed(s)) /\ Cardinality(DOMAIN Parsed(s)) = 1
    BY <2>4, FS_Singleton
  <2> QED
    BY <2>5, <2>6
<1>3. CASE \E c, e \in Chunks : s = <<c, e>> /\ e.pos = 0
  <2>1. PICK c, e \in Chunks : s = <<c, e>> /\ e.pos = 0
    BY <1>3
  <2>2. c.pos \in 0 .. MaxPieces
    BY DEF Chunks
  <2>3. PICK n \in {0, 1} : Parsed(s) = [m \in {c.pos, n} |-> IF m = c.pos THEN c ELSE e]
    <3>1. c.pos \in Nat
      BY <2>2, SizesAssumption
    <3>2. Parsed(s) = Insert([n \in {c.pos} |-> c], e)
      BY <2>1, <3>1, ParsedTwo, InsertFirst
    <3>3. Parsed(s) = [m \in {c.pos, IF c.pos = 0 THEN 1 ELSE 0} |-> IF m = c.pos THEN c ELSE e]
      BY <2>1, <3>1, <3>2, InsertSecond
    <3> QED
      BY <3>3
  <2>4. DOMAIN Parsed(s) = {c.pos, n}
    BY <2>3
  <2>5. n \in 0 .. MaxPieces
    BY SizesAssumption
  <2>6. IsTargets(Parsed(s))
    BY <2>2, <2>3, <2>4, <2>5 DEF IsTargets, Numbers
  <2>7. /\ IsFiniteSet(DOMAIN Parsed(s)) /\ Cardinality(DOMAIN Parsed(s)) <= 2
        /\ Cardinality(DOMAIN Parsed(s)) \in Nat
    BY <2>4, SmallPairs
  <2>8. Cardinality(DOMAIN Parsed(s)) # 0
    BY <2>4, <2>7, FS_EmptySet
  <2> QED
    BY <2>6, <2>7, <2>8
<1> QED
  BY <1>1, <1>2, <1>3 DEF IsChunkList

-----------------------------------------------------------------------------
(* What a step leaves as it was. *)

SameUpload(u) ==
    /\ up'[u] = up[u] /\ err'[u] = err[u] /\ targets'[u] = targets[u]
    /\ asked'[u] = asked[u] /\ unread'[u] = unread[u] /\ size'[u] = size[u]
    /\ sent'[u] = sent[u] /\ metachunk'[u] = metachunk[u]

LEMMA UploadStays ==
    ASSUME NEW u \in Uploads, SameUpload(u), len' = len, clean' \subseteq clean,
           rawx'[<<u, 1>>] = rawx[<<u, 1>>],
           content' = content \/ content'.owner # u,
           Progress(u), CleanUpload(u)
    PROVE  Progress(u)' /\ CleanUpload(u)'
<1>1. Progress(u)'
  BY DEF SameUpload, Progress, Fresh, Going, Reached
<1>2. CleanUpload(u)'
  BY DEF SameUpload, CleanUpload, OneChunk, Stored, Chunk
<1> QED
  BY <1>1, <1>2

(* What an upload that has ended did stays. *)
Ended == \A u \in Uploads : up[u] = "done" => SameUpload(u)
Kept == \A u \in Uploads : up[u] = "done" => rawx'[<<u, 1>>] = rawx[<<u, 1>>]

LEMMA ContentStays ==
    ASSUME ContentInv, content' = content, len' = len, Ended PROVE ContentInv'
BY DEF ContentInv, Ended, SameUpload

SameDownload(d) ==
    /\ down'[d] = down[d] /\ dtargets'[d] = dtargets[d] /\ next'[d] = next[d]
    /\ out'[d] = out[d] /\ shown'[d] = shown[d] /\ (d \in cut' <=> d \in cut)

LEMMA DownloadStays ==
    ASSUME NEW d \in Downloads, SameDownload(d), len' = len, clean' \subseteq clean, Ended, Kept,
           clean \subseteq Uploads \cup Downloads, shown[d] \in Uploads \cup {NoContent.owner},
           Following(d), CleanDownload(d)
    PROVE  Following(d)' /\ CleanDownload(d)'
<1>1. Following(d)'
  BY DEF SameDownload, Following, Ended, SameUpload
<1>2. CleanDownload(d)'
  <2>1. shown'[d] = shown[d] /\ len' = len /\ clean' \subseteq clean
    BY DEF SameDownload
  <2>2. CASE d \notin clean \/ shown[d] \notin clean \/ ~OneChunk(shown[d])
    BY <2>1, <2>2 DEF CleanDownload, OneChunk
  <2>3. CASE d \in clean /\ shown[d] \in clean /\ OneChunk(shown[d])
    <3>1. shown[d] \in Uploads
      BY <2>3, NamesAssumption
    <3>2. rawx'[<<shown[d], 1>>] = rawx[<<shown[d], 1>>]
      BY <3>1 DEF Following, Kept
    <3>3. ComesBack(d) => ComesBack(d)'
      BY <2>1 DEF SameDownload, ComesBack, FileUntil, File
    <3> QED
      BY <2>3, <3>2, <3>3 DEF SameDownload, CleanDownload, Stored, Chunk, One
  <2> QED
    BY <2>2, <2>3
<1> QED
  BY <1>1, <1>2

-----------------------------------------------------------------------------
(* The uploads. *)

(* What a Prepare does to the chunks and to the replies not read. *)
Prepared(u, t, w) ==
    /\ targets' = [targets EXCEPT ![u] = t]
    /\ unread' = [unread EXCEPT ![u] = w] /\ w \in Seq(0 .. asked'[u])
    /\ \/ asked' = asked
       \/ asked' = [asked EXCEPT ![u] = asked[u] + 1]
    /\ t = targets[u] \/ \E k \in 1 .. MaxPieces : t = Insert(targets[u], Proposed(u, k))
    /\ u \in clean' => w = <<>> /\ t = Insert(targets[u], Proposed(u, asked[u] + 1))

(* What is left of a sequence after n of its elements. *)
LEMMA RestOf ==
    ASSUME NEW S, NEW q \in Seq(S), NEW n \in 0 .. Len(q)
    PROVE  SubSeq(q, n + 1, Len(q)) \in Seq(S)
BY SubSeqProperties

LEMMA HeadIsIn == ASSUME NEW S, NEW q \in Seq(S), q # <<>> PROVE Head(q) \in S
OBVIOUS

LEMMA PrepareGives ==
    ASSUME IInv, NEW u \in Uploads, Prepare(u)
    PROVE  asked[u] + 1 <= MaxPieces /\ \E t, w : Prepared(u, t, w)
<1> USE DEF IInv
<1>1. /\ asked[u] \in Nat /\ metachunk[u] \in Nat /\ sent[u] \in Nat /\ len[u] \in 0 .. MaxPieces
      /\ unread[u] \in Seq(0 .. asked[u]) /\ unread \in [Uploads -> Seq(0 .. MaxPieces)]
      /\ asked \in [Uploads -> 0 .. MaxPieces] /\ MaxPieces \in Nat \ {0}
  BY SizesAssumption DEF TypeOK, Replies
<1>2. asked[u] + 1 <= MaxPieces
  <2>1. CASE up[u] = "first"
    BY <1>1, <2>1 DEF Progress, Fresh
  <2>2. CASE up[u] = "next"
    BY <1>1, <2>2 DEF Progress, Going, Reached
  <2> QED
    BY <2>1, <2>2 DEF Prepare
<1>3. CASE /\ clean' = clean \ {u} /\ UNCHANGED <<asked, targets, unread>>
  <2>1. targets' = [targets EXCEPT ![u] = targets[u]]
    BY <1>3 DEF Maps
  <2>2. unread' = [unread EXCEPT ![u] = unread[u]] /\ asked' = asked
    BY <1>1, <1>3
  <2>3. Prepared(u, targets[u], unread[u])
    BY <1>1, <1>3, <2>1, <2>2 DEF Prepared
  <2> QED
    BY <1>2, <2>3
<1>4. ASSUME NEW reply \in {0, asked[u] + 1},
             asked' = [asked EXCEPT ![u] = IF reply = 0 THEN @ ELSE reply],
             Received(u, reply)
      PROVE  \E t, w : Prepared(u, t, w)
  <2> DEFINE q == Append(unread[u], reply)
  <2>1. /\ asked'[u] \in Nat /\ asked[u] <= asked'[u] /\ asked'[u] <= MaxPieces
        /\ reply \in 0 .. asked'[u]
        /\ asked' = asked \/ asked' = [asked EXCEPT ![u] = asked[u] + 1]
    <3>1. CASE reply = 0
      <4>1. asked' = [asked EXCEPT ![u] = asked[u]]
        BY <1>4, <3>1
      <4>2. asked' = asked
        BY <1>1, <4>1
      <4> QED
        BY <1>1, <1>2, <3>1, <4>2
    <3>2. CASE reply = asked[u] + 1
      <4>0. reply # 0
        BY <1>1, <3>2
      <4>1. asked' = [asked EXCEPT ![u] = asked[u] + 1]
        BY <1>4, <3>2, <4>0
      <4>2. asked'[u] = asked[u] + 1
        BY <1>1, <4>1
      <4> QED
        BY <1>1, <1>2, <3>2, <4>1, <4>2
    <3> QED
      BY <3>1, <3>2
  <2>2. unread[u] \in Seq(0 .. asked'[u])
    BY <1>1, <2>1
  <2>3. q \in Seq(0 .. asked'[u]) /\ q # <<>>
    BY <2>1, <2>2
  <2>4. Head(q) \in 0 .. asked'[u]
    BY <2>3, HeadIsIn
  <2>5. unread[u] = <<>> => Head(q) = reply /\ Len(q) = 1
    BY <1>1
  <2> HIDE DEF q
  <2>6. PICK n \in 0 .. Len(q) :
          /\ unread' = [unread EXCEPT ![u] = SubSeq(q, n + 1, Len(q))]
          /\ \/ /\ n > 0
                /\ targets' = [targets EXCEPT ![u] =
                                  IF Head(q) = 0 THEN @ ELSE Insert(@, Proposed(u, Head(q)))]
                /\ clean' = IF reply # 0 /\ unread[u] = <<>> THEN clean ELSE clean \ {u}
             \/ UNCHANGED targets /\ clean' = clean \ {u}
    BY <1>4 DEF Received, q
  <2> DEFINE w == SubSeq(q, n + 1, Len(q))
  <2>7. w \in Seq(0 .. asked'[u])
    BY <2>3, RestOf
  <2>8. CASE /\ n > 0
             /\ targets' = [targets EXCEPT ![u] =
                               IF Head(q) = 0 THEN @ ELSE Insert(@, Proposed(u, Head(q)))]
             /\ clean' = IF reply # 0 /\ unread[u] = <<>> THEN clean ELSE clean \ {u}
    <3> DEFINE t == IF Head(q) = 0 THEN targets[u] ELSE Insert(targets[u], Proposed(u, Head(q)))
    <3>1. targets' = [targets EXCEPT ![u] = t]
      BY <2>8, Zenon
    <3>2. t = targets[u] \/ \E k \in 1 .. MaxPieces : t = Insert(targets[u], Proposed(u, k))
      <4>1. Head(q) # 0 => Head(q) \in 1 .. MaxPieces
        BY <1>1, <2>1, <2>4
      <4> QED
        BY <4>1
    <3>3. u \in clean' => w = <<>> /\ t = Insert(targets[u], Proposed(u, asked[u] + 1))
      <4> SUFFICES ASSUME u \in clean'
                   PROVE  w = <<>> /\ t = Insert(targets[u], Proposed(u, asked[u] + 1))
        OBVIOUS
      <4>1. reply # 0 /\ unread[u] = <<>>
        BY <2>8
      <4>2. Head(q) = reply /\ reply = asked[u] + 1 /\ Len(q) = 1
        BY <2>5, <4>1
      <4>3. n = 1
        BY <2>8, <4>2
      <4>4. w = SubSeq(q, 2, 1)
        BY <4>2, <4>3
      <4>5. w = <<>>
        BY <2>3, <4>4
      <4> QED
        BY <4>1, <4>2, <4>5
    <3> HIDE DEF t, w
    <3>4. Prepared(u, t, w)
      BY <2>1, <2>6, <2>7, <3>1, <3>2, <3>3 DEF Prepared, w
    <3> QED
      BY <3>4
  <2>9. CASE UNCHANGED targets /\ clean' = clean \ {u}
    <3> HIDE DEF w
    <3>1. targets' = [targets EXCEPT ![u] = targets[u]]
      BY <2>9 DEF Maps
    <3>2. Prepared(u, targets[u], w)
      BY <2>1, <2>6, <2>7, <2>9, <3>1 DEF Prepared, w
    <3> QED
      BY <3>2
  <2> QED
    BY <2>6, <2>8, <2>9
<1> QED
  BY <1>2, <1>3, <1>4 DEF Prepare

LEMMA NumberedTargets == ASSUME NEW u \in Uploads, NEW t, Numbered(u, t) PROVE IsTargets(t)
BY SizesAssumption DEF Numbered, IsTargets, Numbers

(* The first reply gives number 0, and the size of the buffer. *)
LEMMA FirstTarget ==
    ASSUME NEW u \in Uploads, NEW k \in 1 .. MaxPieces
    PROVE  /\ Insert(NoTargets, Proposed(u, k)) = One(Proposed(u, k))
           /\ Numbered(u, One(Proposed(u, k)))
           /\ GetTarget(One(Proposed(u, k)), 0) = Proposed(u, k)
<1>1. Proposed(u, k).pos = 0
  BY DEF Proposed
<1>2. Insert(NoTargets, Proposed(u, k)) = One(Proposed(u, k))
  BY <1>1, InsertFirst DEF One
<1>3. Proposed(u, k) \in Chunks /\ Proposed(u, k).url \in Own(u)
  BY SizesAssumption DEF Proposed, Chunks, Own, Urls
<1>4. DOMAIN One(Proposed(u, k)) = {0} /\ One(Proposed(u, k))[0] = Proposed(u, k)
  BY DEF One
<1>5. Numbered(u, One(Proposed(u, k)))
  BY <1>3, <1>4 DEF Numbered
<1>6. GetTarget(One(Proposed(u, k)), 0) = Proposed(u, k)
  BY <1>4 DEF GetTarget
<1> QED
  BY <1>2, <1>5, <1>6

(* Where a Prepare leaves its upload. *)
LEMMA PrepareProgress ==
    ASSUME IInv, NEW u \in Uploads, Prepare(u)
    PROVE  /\ Progress(u)'
           /\ IsTargets(targets'[u]) /\ size'[u] \in 0 .. ChunkSize
           /\ up'[u] \in {"store", "done"}
<1> USE DEF IInv
<1>1. PICK t, w : Prepared(u, t, w)
  BY PrepareGives
<1>2. targets'[u] = t
  BY <1>1 DEF Prepared, Maps
<1>3. /\ size'[u] = IF up[u] = "first" THEN GetTarget(t, 0).size ELSE size[u]
      /\ up'[u] = IF up[u] = "next" \/ (size'[u] > 0 /\ len[u] > 0) THEN "store" ELSE "done"
      /\ UNCHANGED <<len, sent, metachunk>>
  BY <1>2 DEF Prepare, TypeOK
<1>4. /\ asked[u] \in Nat /\ metachunk[u] \in Nat /\ sent[u] \in Nat /\ len[u] \in Nat
      /\ size[u] \in 0 .. ChunkSize /\ ChunkSize \in Nat \ {0}
  BY SizesAssumption DEF TypeOK
<1>5. asked'[u] \in Nat /\ asked'[u] <= asked[u] + 1
  BY <1>1, <1>4 DEF Prepared, TypeOK
<1>6. CASE up[u] = "first"
  <2>1. Fresh(u)
    BY <1>6 DEF Progress
  <2>2. CASE t = targets[u]
    <3>1. t = NoTargets /\ GetTarget(t, 0).size = 0
      BY <2>1, <2>2 DEF Fresh, GetTarget, NoTargets
    <3>2. up'[u] = "done" /\ size'[u] = 0
      BY <1>3, <1>6, <3>1
    <3> QED
      BY <1>2, <1>4, <3>1, <3>2 DEF Progress, IsTargets, NoTargets
  <2>3. CASE \E k \in 1 .. MaxPieces : t = Insert(targets[u], Proposed(u, k))
    <3>1. PICK k \in 1 .. MaxPieces : t = One(Proposed(u, k))
      BY <2>1, <2>3, FirstTarget DEF Fresh
    <3>2. /\ Numbered(u, t) /\ t[0] = Proposed(u, k) /\ DOMAIN t = {0}
          /\ GetTarget(t, 0).size = ChunkSize
      <4>1. Numbered(u, t) /\ GetTarget(t, 0) = Proposed(u, k)
        BY <3>1, FirstTarget
      <4>2. t[0] = Proposed(u, k) /\ DOMAIN t = {0}
        BY <3>1 DEF One
      <4>3. Proposed(u, k).size = ChunkSize
        BY DEF Proposed
      <4> QED
        BY <4>1, <4>2, <4>3
    <3>3. size'[u] = ChunkSize /\ up'[u] = IF len[u] > 0 THEN "store" ELSE "done"
      BY <1>3, <1>4, <1>6, <3>2
    <3>4. Going(u)'
      BY <1>2, <1>3, <2>1, <3>2, <3>3 DEF Going, Numbered, Own, Fresh, Proposed
    <3>5. Reached(u, 1, 1)'
      BY <1>2, <1>3, <1>4, <1>5, <2>1, <3>2 DEF Reached, Fresh
    <3>6. up'[u] = "store" => sent'[u] < len'[u]
      BY <1>3, <1>4, <2>1, <3>3 DEF Fresh
    <3> QED
      BY <1>2, <1>4, <3>2, <3>3, <3>4, <3>5, <3>6, NumberedTargets DEF Progress
  <2> QED
    BY <1>1, <2>2, <2>3 DEF Prepared
<1>7. CASE up[u] = "next"
  <2>1. Going(u) /\ sent[u] < len[u] /\ Reached(u, 2, 0)
    BY <1>7 DEF Progress
  <2>2. /\ Numbered(u, t) /\ t[0] = targets[u][0]
        /\ 1 \in DOMAIN t => metachunk[u] >= 1
    <3>1. CASE t = targets[u]
      BY <1>4, <2>1, <3>1 DEF Going, Reached
    <3>2. CASE \E k \in 1 .. MaxPieces : t = Insert(targets[u], Proposed(u, k))
      <4>1. PICK k \in 1 .. MaxPieces : t = Insert(targets[u], Proposed(u, k))
        BY <3>2
      <4>2. 1 \in DOMAIN targets[u] => targets[u][0].pos # 0
        BY <1>4, <2>1 DEF Going, Reached
      <4>3. Numbered(u, t) /\ t[0] = targets[u][0]
        BY <2>1, <4>1, <4>2, InsertMore DEF Going
      <4> QED
        BY <1>4, <2>1, <4>3 DEF Reached
    <3> QED
      BY <1>1, <3>1, <3>2 DEF Prepared
  <2>3. up'[u] = "store" /\ size'[u] = ChunkSize
    BY <1>3, <1>7, <2>1 DEF Going
  <2>4. Going(u)'
    BY <1>2, <1>3, <2>1, <2>2, <2>3 DEF Going, Numbered, Own
  <2>5. Reached(u, 1, 1)'
    BY <1>2, <1>3, <1>4, <1>5, <2>1, <2>2 DEF Reached
  <2> QED
    BY <1>2, <1>3, <1>4, <2>1, <2>2, <2>3, <2>4, <2>5, NumberedTargets DEF Progress
<1> QED
  BY <1>6, <1>7 DEF Prepare

LEMMA PrepareTaints == ASSUME NEW u \in Uploads, Prepare(u) PROVE clean' \subseteq clean
BY DEF Prepare, Received

LEMMA PrepareClean ==
    ASSUME IInv, NEW u \in Uploads, Prepare(u)
    PROVE  CleanUpload(u)'
<1> USE DEF IInv
<1>1. PICK t, w : Prepared(u, t, w)
  BY PrepareGives
<1>2. targets'[u] = t /\ unread'[u] = w
  BY <1>1 DEF Prepared, Maps, TypeOK
<1>3. /\ clean' \subseteq clean /\ up[u] \in {"first", "next"}
      /\ UNCHANGED <<len, sent, metachunk, content, rawx>>
  BY PrepareTaints DEF Prepare
<1>4. content.owner # u
  BY <1>3, NamesAssumption DEF ContentInv
<1>5. up'[u] \in {"store", "done"}
  BY PrepareProgress
<1>6. ASSUME u \in clean', OneChunk(u), up'[u] = "store"
      PROVE  t = One(Proposed(u, 1)) /\ sent'[u] = 0 /\ metachunk'[u] = 0
  <2>1. u \in clean /\ up[u] = "first"
    BY <1>3, <1>6 DEF CleanUpload
  <2>2. Fresh(u)
    BY <2>1 DEF Progress
  <2>3. t = Insert(NoTargets, Proposed(u, 1))
    BY <1>1, <1>6, <2>2 DEF Prepared, Fresh
  <2>4. 1 \in 1 .. MaxPieces
    BY SizesAssumption
  <2> QED
    BY <1>3, <2>2, <2>3, <2>4, FirstTarget DEF Fresh
<1>7. OneChunk(u)' = OneChunk(u)
  BY <1>3 DEF OneChunk
<1>8. u \in clean' => unread'[u] = <<>>
  BY <1>1, <1>2 DEF Prepared
<1> QED
  BY <1>2, <1>3, <1>4, <1>5, <1>6, <1>7, <1>8 DEF CleanUpload, Proposed, One

LEMMA PrepareInv == ASSUME IInv, NEW u \in Uploads, Prepare(u) PROVE IInv'
<1> USE DEF IInv
<1>1. PICK t, w : Prepared(u, t, w)
  BY PrepareGives
<1>2. asked[u] + 1 <= MaxPieces
  BY PrepareGives
<1>3. /\ UNCHANGED <<len, sent, metachunk, content, rawx, downloadVars>> /\ clean' \subseteq clean
      /\ up[u] \in {"first", "next"} /\ up' = [up EXCEPT ![u] = up'[u]]
      /\ size' = [size EXCEPT ![u] = size'[u]] /\ err' \in [Uploads -> {"ok", "failed"}]
      /\ \A v \in Uploads \ {u} : err'[v] = err[v]
  BY PrepareTaints DEF Prepare, TypeOK
<1>4. /\ \A v \in Uploads \ {u} : SameUpload(v)
      /\ targets'[u] = t /\ unread'[u] = w
  BY <1>1, <1>3 DEF Prepared, SameUpload, TypeOK, Maps
<1>5. Ended /\ Kept
  BY <1>3, <1>4 DEF Ended, Kept
<1>6. asked' \in [Uploads -> 0 .. MaxPieces]
  <2>1. asked[u] + 1 \in 0 .. MaxPieces
    BY <1>2, SizesAssumption DEF TypeOK
  <2> QED
    BY <1>1, <2>1 DEF Prepared, TypeOK
<1>7. Replies'
  <2>1. \A v \in Uploads : unread'[v] \in Seq(0 .. asked'[v])
    BY <1>1, <1>4 DEF Replies, SameUpload, Prepared
  <2> QED
    BY <2>1 DEF Replies
<1>8. unread' \in [Uploads -> Seq(0 .. MaxPieces)]
  <2>1. w \in Seq(0 .. MaxPieces)
    <3>1. asked'[u] \in 0 .. MaxPieces /\ w \in Seq(0 .. asked'[u])
      BY <1>1, <1>6 DEF Prepared
    <3> QED
      BY <3>1, SizesAssumption
  <2> QED
    BY <1>1, <2>1 DEF Prepared, TypeOK
<1>9. TypeOK'
  <2>1. \A v \in Uploads : IsTargets(targets'[v])
    BY <1>4, PrepareProgress DEF SameUpload, TypeOK
  <2>2. up' \in [Uploads -> {"first", "next", "store", "create", "done"}]
    <3>1. up'[u] \in {"first", "next", "store", "create", "done"}
      BY PrepareProgress
    <3>2. PICK s \in {"first", "next", "store", "create", "done"} : up' = [up EXCEPT ![u] = s]
      BY <1>3, <3>1
    <3> QED
      BY <3>2 DEF TypeOK
  <2>3. size' \in [Uploads -> 0 .. ChunkSize]
    BY <1>3, PrepareProgress DEF TypeOK
  <2> QED
    BY <1>3, <1>6, <1>8, <2>1, <2>2, <2>3 DEF TypeOK, downloadVars, IsTargets
<1>10. Maps'
  BY <1>1, <1>3 DEF Maps, Prepared, downloadVars
<1>11. ASSUME NEW v \in Uploads PROVE Progress(v)' /\ CleanUpload(v)'
  <2>1. CASE v = u
    BY <2>1, PrepareProgress, PrepareClean
  <2>2. CASE v # u
    BY <1>3, <1>4, <2>2, UploadStays
  <2> QED
    BY <2>1, <2>2
<1>12. ContentInv'
  BY <1>3, <1>5, ContentStays
<1>13. ASSUME NEW d \in Downloads PROVE Following(d)' /\ CleanDownload(d)'
  <2>1. SameDownload(d)
    BY <1>3 DEF SameDownload, downloadVars
  <2> QED
    BY <1>3, <1>5, <2>1, DownloadStays DEF TypeOK
<1> QED
  BY <1>7, <1>9, <1>10, <1>11, <1>12, <1>13

(* The turn of the loop. *)
LEMMA StoreGives ==
    ASSUME IInv, NEW u \in Uploads, Store(u)
    PROVE  /\ Length(u) \in 1 .. MaxPieces /\ sent[u] + Length(u) <= len[u]
           /\ metachunk[u] + 1 <= MaxPieces
           /\ targets'[u] = Updated(targets[u], metachunk[u], Length(u))
           /\ sent'[u] = sent[u] + Length(u) /\ metachunk'[u] = metachunk[u] + 1
           /\ up'[u] = IF sent'[u] = len[u] THEN "create" ELSE "next"
<1> USE DEF IInv
<1>1. Going(u) /\ sent[u] < len[u]
  BY DEF Progress, Store
<1>2. /\ size[u] = ChunkSize /\ ChunkSize \in Nat \ {0} /\ MaxPieces \in Nat
      /\ sent[u] \in Nat /\ len[u] \in 0 .. MaxPieces /\ metachunk[u] \in Nat
      /\ metachunk[u] <= sent[u]
  BY <1>1, SizesAssumption DEF Going, TypeOK
<1>3. Length(u) \in 1 .. MaxPieces /\ sent[u] + Length(u) <= len[u]
  BY <1>1, <1>2 DEF Length
<1>4. targets'[u] = Updated(targets[u], metachunk[u], Length(u))
  BY DEF Store, Maps
<1>5. /\ sent'[u] = sent[u] + Length(u) /\ metachunk'[u] = metachunk[u] + 1
      /\ up'[u] = IF sent'[u] = len[u] THEN "create" ELSE "next"
  BY DEF Store, TypeOK
<1> QED
  BY <1>1, <1>2, <1>3, <1>4, <1>5

LEMMA StoreProgress ==
    ASSUME IInv, NEW u \in Uploads, Store(u)
    PROVE  Progress(u)' /\ IsTargets(targets'[u])
<1> USE DEF IInv
<1>1. Going(u) /\ sent[u] < len[u] /\ Reached(u, 1, 1)
  BY DEF Progress, Store
<1>2. /\ size[u] = ChunkSize /\ metachunk[u] \in 0 .. MaxPieces /\ metachunk[u] <= sent[u]
      /\ sent[u] \in Nat /\ len[u] \in Nat /\ asked[u] \in Nat
  BY <1>1 DEF Going, TypeOK
<1>3. UNCHANGED <<len, asked, unread, size>>
  BY DEF Store
<1>4. /\ Numbered(u, targets'[u]) /\ DOMAIN targets'[u] = DOMAIN targets[u]
      /\ targets'[u][0].pos = metachunk[u]
  <2>1. Length(u) \in 0 .. MaxPieces /\ targets'[u] = Updated(targets[u], metachunk[u], Length(u))
    BY StoreGives
  <2>2. Numbered(u, targets[u])
    BY <1>1 DEF Going
  <2>3. /\ Numbered(u, Updated(targets[u], metachunk[u], Length(u)))
        /\ DOMAIN Updated(targets[u], metachunk[u], Length(u)) = DOMAIN targets[u]
        /\ Updated(targets[u], metachunk[u], Length(u))[0].pos = metachunk[u]
    BY <1>2, <2>1, <2>2, UpdatedTargets
  <2> QED
    BY <2>1, <2>3
<1>5. Going(u)'
  <2>1. metachunk'[u] <= sent'[u]
    BY <1>2, StoreGives
  <2>2. targets'[u][0].pos = IF metachunk'[u] = 0 THEN 0 ELSE metachunk'[u] - 1
    BY <1>2, <1>4, StoreGives
  <2> QED
    BY <1>2, <1>3, <1>4, <2>1, <2>2 DEF Going, Numbered, Own
<1>6. Reached(u, 2, 0)'
  <2>1. metachunk'[u] >= 1 /\ asked'[u] <= metachunk'[u]
    BY <1>1, <1>2, <1>3, StoreGives DEF Reached
  <2>2. 1 \in DOMAIN targets'[u] => metachunk'[u] >= 2
    BY <1>1, <1>2, <1>4, StoreGives DEF Reached
  <2>3. asked'[u] \in Nat /\ metachunk'[u] \in Nat
    BY <1>2, <1>3, StoreGives
  <2>4. metachunk'[u] >= 2 - 1 /\ asked'[u] <= metachunk'[u] + 0
    BY <2>1, <2>3
  <2> QED
    BY <2>2, <2>4 DEF Reached
<1>7. sent'[u] <= len'[u] /\ sent'[u] \in Nat
  BY <1>2, <1>3, StoreGives
<1> QED
  BY <1>2, <1>3, <1>4, <1>5, <1>6, <1>7, StoreGives, NumberedTargets DEF Progress

(* The whole buffer, and where it goes. *)
LEMMA BufferTypes ==
    ASSUME IInv, NEW u \in Uploads, Store(u)
    PROVE  /\ Buffer(u) \in Seq(Pieces \cup {Zero}) /\ Buffer(u)[1] \in Pieces \cup {Zero}
           /\ GetTarget(targets[u], metachunk[u]).url \in Own(u)
<1> USE DEF IInv
<1>1. Going(u)
  BY DEF Progress, Store
<1>2. size[u] = ChunkSize /\ ChunkSize \in Nat \ {0}
  BY <1>1, SizesAssumption DEF Going
<1>3. Length(u) \in 1 .. MaxPieces /\ sent[u] + Length(u) <= len[u] /\ len[u] \in 0 .. MaxPieces
      /\ sent[u] \in Nat /\ MaxPieces \in Nat
  <2>1. len[u] \in 0 .. MaxPieces /\ sent[u] \in Nat
    BY DEF TypeOK
  <2> QED
    BY <2>1, StoreGives, SizesAssumption
<1>4. ASSUME NEW i \in 1 .. ChunkSize
      PROVE  (IF i <= Length(u) THEN <<u, sent[u] + i>> ELSE Zero) \in Pieces \cup {Zero}
  <2>1. CASE i <= Length(u)
    <3>1. sent[u] + i \in 1 .. MaxPieces
      BY <1>2, <1>3, <2>1
    <3> QED
      BY <2>1, <3>1 DEF Pieces
  <2>2. CASE ~(i <= Length(u))
    BY <2>2
  <2> QED
    BY <2>1, <2>2
<1>5. Buffer(u) \in [1 .. ChunkSize -> Pieces \cup {Zero}]
  BY <1>2, <1>4 DEF Buffer
<1>6. GetTarget(targets[u], metachunk[u]).url \in Own(u)
  BY <1>1 DEF Going, Numbered, GetTarget, Own
<1> QED
  BY <1>2, <1>5, <1>6

LEMMA StoredTypes ==
    ASSUME IInv, NEW u \in Uploads, Store(u)
    PROVE  /\ rawx' \in [Urls -> Seq(Pieces \cup {Zero})]
           /\ \A v \in Uploads \ {u} : rawx'[<<v, 1>>] = rawx[<<v, 1>>]
<1> USE DEF IInv
<1> DEFINE l == GetTarget(targets[u], metachunk[u]).url
<1>1. /\ l \in Own(u)
      /\ Buffer(u) \in Seq(Pieces \cup {Zero}) /\ <<Buffer(u)[1]>> \in Seq(Pieces \cup {Zero})
  BY BufferTypes
<1>2. \/ UNCHANGED rawx
      \/ \E b \in Seq(Pieces \cup {Zero}) : l # NoUrl /\ rawx' = [rawx EXCEPT ![l] = b]
  BY <1>1 DEF Store
<1> HIDE DEF l
<1>3. l # NoUrl => \E k \in 1 .. MaxPieces : l = <<u, k>>
  BY <1>1 DEF Own
<1>4. rawx \in [Urls -> Seq(Pieces \cup {Zero})]
  BY DEF TypeOK
<1>5. \A v \in Uploads \ {u} : <<v, 1>> \in Urls /\ (l # NoUrl => l # <<v, 1>>)
  BY <1>3, SizesAssumption DEF Urls
<1> QED
  BY <1>2, <1>4, <1>5

LEMMA StoreClean ==
    ASSUME IInv, NEW u \in Uploads, Store(u)
    PROVE  CleanUpload(u)'
<1> USE DEF IInv
<1>1. /\ up[u] = "store" /\ clean' \subseteq clean /\ UNCHANGED <<len, unread, content>>
      /\ up'[u] \in {"create", "next"}
  BY StoreGives DEF Store
<1>2. content.owner # u
  BY <1>1, NamesAssumption DEF ContentInv
<1>3. ASSUME u \in clean', OneChunk(u)
      PROVE  up'[u] = "create" /\ targets'[u] = One(Chunk(u)) /\ Stored(u)'
  <2>1. u \in clean
    BY <1>1, <1>3
  <2>2. targets[u] = One(Proposed(u, 1)) /\ sent[u] = 0 /\ metachunk[u] = 0
    BY <1>1, <1>3, <2>1 DEF CleanUpload
  <2>3. size[u] = ChunkSize
    BY <1>1 DEF Progress, Going
  <2>4. Length(u) = len[u] /\ len[u] \in Nat /\ ChunkSize \in Nat
    BY <1>3, <2>2, <2>3, SizesAssumption DEF Length, OneChunk, TypeOK
  <2>5. up'[u] = "create"
    BY <2>2, <2>4, StoreGives
  <2>6. GetTarget(targets[u], 0) = Proposed(u, 1)
    BY <2>2, SizesAssumption, FirstTarget
  <2>7. Proposed(u, 1).url = <<u, 1>>
    BY DEF Proposed
  <2>8. DOMAIN targets[u] \cup {0} = {0}
    BY <2>2 DEF One
  <2>9. targets'[u] = One(Chunk(u))
    <3>1. targets'[u] = Updated(targets[u], 0, len[u])
      BY <2>2, <2>4, StoreGives
    <3> QED
      BY <2>6, <2>7, <2>8, <3>1 DEF Updated, One, Chunk
  <2>10. rawx' = [rawx EXCEPT ![<<u, 1>>] = Buffer(u)]
    BY <1>3, <2>2, <2>6, <2>7 DEF Store
  <2>11. <<u, 1>> \in Urls
    BY SizesAssumption DEF Urls
  <2>12. rawx'[<<u, 1>>] = Buffer(u)
    BY <2>10, <2>11 DEF TypeOK
  <2>13. Buffer(u) = [i \in 1 .. ChunkSize |-> IF i <= len[u] THEN <<u, i>> ELSE Zero]
    BY <2>2, <2>3, <2>4 DEF Buffer
  <2> QED
    BY <1>1, <2>5, <2>9, <2>12, <2>13 DEF Stored
<1>4. OneChunk(u)' = OneChunk(u) /\ Chunk(u)' = Chunk(u)
  BY <1>1 DEF OneChunk, Chunk
<1> QED
  BY <1>1, <1>2, <1>3, <1>4 DEF CleanUpload, One

LEMMA StoreInv == ASSUME IInv, NEW u \in Uploads, Store(u) PROVE IInv'
<1> USE DEF IInv
<1>1. /\ UNCHANGED <<len, err, asked, unread, size, content, downloadVars>> /\ clean' \subseteq clean
      /\ up[u] = "store"
      /\ \A v \in Uploads \ {u} : SameUpload(v)
  BY DEF Store, SameUpload, TypeOK, Maps
<1>2. Ended /\ Kept
  BY <1>1, StoredTypes DEF Ended, Kept
<1>3. TypeOK'
  <2>1. \A v \in Uploads : IsTargets(targets'[v])
    BY <1>1, StoreProgress DEF SameUpload, TypeOK
  <2>2. up' \in [Uploads -> {"first", "next", "store", "create", "done"}]
    BY DEF Store, TypeOK
  <2>3. sent' \in [Uploads -> 0 .. MaxPieces]
    <3>1. sent[u] + Length(u) \in 0 .. MaxPieces
      <4>1. sent[u] \in Nat /\ len[u] \in 0 .. MaxPieces
        BY DEF TypeOK
      <4> QED
        BY <4>1, StoreGives, SizesAssumption
    <3> QED
      BY <3>1 DEF Store, TypeOK
  <2>4. metachunk' \in [Uploads -> 0 .. MaxPieces]
    <3>1. metachunk[u] + 1 \in 0 .. MaxPieces
      <4>1. metachunk[u] \in Nat
        BY DEF TypeOK
      <4>2. metachunk[u] + 1 <= MaxPieces
        BY StoreGives
      <4> QED
        BY <4>1, <4>2, SizesAssumption
    <3> QED
      BY <3>1 DEF Store, TypeOK
  <2> QED
    BY <1>1, <2>1, <2>2, <2>3, <2>4, StoredTypes DEF TypeOK, downloadVars, IsTargets
<1>4. Maps'
  BY <1>1 DEF Maps, Store, downloadVars
<1>5. Replies'
  BY <1>1 DEF Replies
<1>6. ASSUME NEW v \in Uploads PROVE Progress(v)' /\ CleanUpload(v)'
  <2>1. CASE v = u
    BY <2>1, StoreProgress, StoreClean
  <2>2. CASE v # u
    BY <1>1, <2>2, StoredTypes, UploadStays
  <2> QED
    BY <2>1, <2>2
<1>7. ContentInv'
  BY <1>1, <1>2, ContentStays
<1>8. ASSUME NEW d \in Downloads PROVE Following(d)' /\ CleanDownload(d)'
  <2>1. SameDownload(d)
    BY <1>1 DEF SameDownload, downloadVars
  <2> QED
    BY <1>1, <1>2, <2>1, DownloadStays DEF TypeOK
<1> QED
  BY <1>3, <1>4, <1>5, <1>6, <1>7, <1>8

(* What is registered is what was stored, under the numbers it has. *)
LEMMA CreateContent ==
    ASSUME IInv, NEW u \in Uploads, Create(u)
    PROVE  /\ \/ content' = Registered(u) /\ err'[u] = "ok" /\ clean' = clean
              \/ content' = content /\ clean' = clean \ {u}
           /\ IsChunkList(Registered(u).chunks)
           /\ Registered(u).owner = u /\ Registered(u).length = len[u]
<1> USE DEF IInv
<1>1. Going(u) /\ sent[u] = len[u]
  BY DEF Progress, Create
<1>2. \/ content' = Registered(u) /\ err'[u] = "ok" /\ clean' = clean
      \/ content' = content /\ clean' = clean \ {u}
  <2>1. PICK o \in Outcomes :
          /\ err' = [err EXCEPT ![u] = CreateError(u, o)]
          /\ content' = IF o = "served" THEN Registered(u) ELSE content
          /\ clean' = Judged(u, o)
    BY DEF Create
  <2>2. CASE o = "served"
    BY <2>1, <2>2 DEF CreateError, StatusOf, Judged, TypeOK
  <2>3. CASE o # "served"
    BY <2>1, <2>3 DEF Judged
  <2> QED
    BY <2>2, <2>3
<1>3. /\ Registered(u).chunks = Listed(targets[u])
      /\ Registered(u).owner = u /\ Registered(u).length = len[u]
  BY <1>1 DEF Registered
<1>4. Listed(targets[u]) =
        IF 1 \in DOMAIN targets[u] THEN <<targets[u][0], targets[u][1]>> ELSE <<targets[u][0]>>
  BY <1>1, ListedTargets DEF Going, Numbered
<1>5. /\ targets[u][0] \in Chunks
      /\ 1 \in DOMAIN targets[u] => targets[u][1] \in Chunks /\ targets[u][1].pos = 0
  BY <1>1 DEF Going, Numbered
<1> QED
  BY <1>2, <1>3, <1>4, <1>5 DEF IsChunkList

LEMMA CreateClean ==
    ASSUME IInv, NEW u \in Uploads, Create(u)
    PROVE  CleanUpload(u)'
<1> USE DEF IInv
<1>1. /\ up[u] = "create" /\ clean' \subseteq clean /\ UNCHANGED <<len, unread, rawx>>
      /\ up'[u] = "done"
  BY CreateContent DEF Create, TypeOK
<1>2. content.owner # u
  BY <1>1, NamesAssumption DEF ContentInv
<1>3. ASSUME u \in clean', OneChunk(u)
      PROVE  content'.chunks = <<Chunk(u)>> /\ Stored(u)
  <2>1. content' = Registered(u)
    BY <1>3, CreateContent
  <2>2. targets[u] = One(Chunk(u)) /\ Stored(u)
    BY <1>1, <1>3 DEF CleanUpload
  <2>3. DOMAIN One(Chunk(u)) = {0} /\ One(Chunk(u))[0] = Chunk(u)
    BY DEF One
  <2>4. Listed(One(Chunk(u))) = <<Chunk(u)>>
    BY <2>3, ListedTargets
  <2> QED
    BY <2>1, <2>2, <2>4 DEF Registered
<1>4. OneChunk(u)' = OneChunk(u) /\ Chunk(u)' = Chunk(u) /\ Stored(u)' = Stored(u)
  BY <1>1 DEF OneChunk, Chunk, Stored
<1> QED
  BY <1>1, <1>3, <1>4 DEF CleanUpload

LEMMA ChunkListTypes ==
    ASSUME NEW s, IsChunkList(s) PROVE s \in Seq(Chunks)
<1>1. <<>> \in Seq(Chunks) /\ \A c \in Chunks : <<c>> \in Seq(Chunks)
  OBVIOUS
<1>2. \A c, e \in Chunks : <<c, e>> \in Seq(Chunks)
  OBVIOUS
<1> QED
  BY <1>1, <1>2 DEF IsChunkList

LEMMA CreateInv == ASSUME IInv, NEW u \in Uploads, Create(u) PROVE IInv'
<1> USE DEF IInv
<1>1. /\ UNCHANGED <<len, targets, asked, unread, size, sent, metachunk, rawx, downloadVars>>
      /\ clean' \subseteq clean /\ up[u] = "create" /\ up'[u] = "done"
      /\ up' = [up EXCEPT ![u] = "done"] /\ err' \in [Uploads -> {"ok", "failed"}]
      /\ \A v \in Uploads \ {u} : SameUpload(v)
  <2>1. err' \in [Uploads -> {"ok", "failed"}] /\ \A v \in Uploads \ {u} : err'[v] = err[v]
    BY DEF Create, CreateError, StatusOf, TypeOK
  <2>2. /\ UNCHANGED <<len, targets, asked, unread, size, sent, metachunk, rawx, downloadVars>>
        /\ up[u] = "create" /\ up' = [up EXCEPT ![u] = "done"]
    BY DEF Create
  <2>3. clean' \subseteq clean
    BY CreateContent
  <2> QED
    BY <2>1, <2>2, <2>3 DEF SameUpload, TypeOK
<1>2. Ended /\ Kept
  BY <1>1 DEF Ended, Kept
<1>3. ContentInv'
  <2>1. CASE content' = Registered(u) /\ err'[u] = "ok"
    BY <1>1, <2>1, CreateContent DEF ContentInv
  <2>2. CASE content' = content
    BY <1>1, <1>2, <2>2, ContentStays
  <2> QED
    BY <2>1, <2>2, CreateContent
<1>4. content'.length \in 0 .. MaxPieces /\ content'.chunks \in Seq(Chunks)
  <2>1. /\ len[u] \in 0 .. MaxPieces
        /\ content.length \in 0 .. MaxPieces /\ content.chunks \in Seq(Chunks)
    BY DEF TypeOK
  <2> QED
    BY <2>1, CreateContent, ChunkListTypes
<1>5. TypeOK'
  <2>1. up' \in [Uploads -> {"first", "next", "store", "create", "done"}]
    BY <1>1 DEF TypeOK
  <2> QED
    BY <1>1, <1>4, <2>1 DEF TypeOK, downloadVars, IsTargets
<1>6. Maps' /\ Replies'
  BY <1>1 DEF Maps, Replies, downloadVars
<1>7. ASSUME NEW v \in Uploads PROVE Progress(v)' /\ CleanUpload(v)'
  <2>1. CASE v = u
    BY <1>1, <2>1, CreateClean DEF Progress
  <2>2. CASE v # u
    <3>1. content' = content \/ content'.owner # v
      BY <2>2, CreateContent
    <3> QED
      BY <1>1, <2>2, <3>1, UploadStays
  <2> QED
    BY <2>1, <2>2
<1>8. ASSUME NEW d \in Downloads PROVE Following(d)' /\ CleanDownload(d)'
  <2>1. SameDownload(d)
    BY <1>1 DEF SameDownload, downloadVars
  <2> QED
    BY <1>1, <1>2, <2>1, DownloadStays DEF TypeOK
<1> QED
  BY <1>3, <1>5, <1>6, <1>7, <1>8

-----------------------------------------------------------------------------
(* The downloads. *)

LEMMA UploadsStay ==
    ASSUME IInv, UNCHANGED <<len, uploadVars, content, rawx>>, clean' \subseteq clean
    PROVE  /\ \A u \in Uploads : Progress(u)' /\ CleanUpload(u)'
           /\ ContentInv' /\ Replies' /\ Ended /\ Kept
<1> USE DEF IInv
<1>1. \A u \in Uploads : SameUpload(u)
  BY DEF uploadVars, SameUpload
<1>2. Ended /\ Kept
  BY <1>1 DEF Ended, Kept
<1> QED
  BY <1>1, <1>2, UploadStays, ContentStays DEF Replies, uploadVars

(* What a Show gives its download: what is registered, or nothing. *)
LEMMA ShowGives ==
    ASSUME IInv, NEW d \in Downloads, Show(d)
    PROVE  /\ \/ /\ dtargets'[d] = Parsed(content.chunks) /\ shown'[d] = content.owner
                 /\ clean' = clean
              \/ /\ dtargets'[d] = NoTargets /\ shown'[d] = NoContent.owner
                 /\ clean' = clean \ {d}
           /\ down'[d] = IF dtargets'[d] = NoTargets THEN "done" ELSE "fetch"
           /\ out'[d] = <<>> /\ next'[d] = 0
<1> USE DEF IInv
<1>1. PICK o \in Outcomes :
        /\ dtargets' = [dtargets EXCEPT ![d] = IF o = "served" THEN Parsed(content.chunks) ELSE @]
        /\ shown' = [shown EXCEPT ![d] = IF o = "served" THEN content.owner ELSE @]
        /\ clean' = Judged(d, o)
  BY DEF Show
<1>2. shown[d] = NoContent.owner /\ dtargets[d] = NoTargets /\ out[d] = <<>> /\ next[d] = 0
  BY DEF Show, Following
<1>3. /\ dtargets'[d] = IF o = "served" THEN Parsed(content.chunks) ELSE dtargets[d]
      /\ shown'[d] = IF o = "served" THEN content.owner ELSE shown[d]
  BY <1>1 DEF Maps, TypeOK
<1>4. /\ down'[d] = IF dtargets'[d] = NoTargets THEN "done" ELSE "fetch"
      /\ UNCHANGED <<out, next>>
  BY DEF Show, TypeOK
<1> QED
  BY <1>1, <1>2, <1>3, <1>4 DEF Judged

LEMMA ShowFollows ==
    ASSUME IInv, NEW d \in Downloads, Show(d)
    PROVE  /\ Following(d)' /\ IsTargets(dtargets'[d])
           /\ shown'[d] \in Uploads \cup {NoContent.owner}
<1> USE DEF IInv
<1>1. IsChunkList(content.chunks) /\ content.owner \in Uploads \cup {NoContent.owner}
  BY DEF ContentInv
<1>2. /\ IsTargets(dtargets'[d]) /\ IsFiniteSet(DOMAIN dtargets'[d])
      /\ Cardinality(DOMAIN dtargets'[d]) <= 2
      /\ dtargets'[d] # NoTargets => Cardinality(DOMAIN dtargets'[d]) > 0
  <2>1. CASE dtargets'[d] = Parsed(content.chunks)
    BY <1>1, <2>1, ParsedTargets
  <2>2. CASE dtargets'[d] = NoTargets
    <3>1. DOMAIN NoTargets = {}
      BY DEF NoTargets
    <3> QED
      BY <2>2, <3>1, FS_EmptySet DEF IsTargets
  <2> QED
    BY <2>1, <2>2, ShowGives
<1>3. shown'[d] \in Uploads => up'[shown'[d]] = "done"
  <2>1. up' = up
    BY DEF Show, uploadVars
  <2> QED
    BY <2>1, ShowGives, NamesAssumption DEF ContentInv
<1>4. shown'[d] \in Uploads \cup {NoContent.owner}
  BY <1>1, ShowGives
<1>5. down'[d] # "show"
  BY ShowGives
<1>6. down'[d] = "fetch" => next'[d] < Cardinality(DOMAIN dtargets'[d])
  BY <1>2, ShowGives
<1> QED
  BY <1>2, <1>3, <1>4, <1>5, <1>6 DEF Following

LEMMA ShowClean ==
    ASSUME IInv, NEW d \in Downloads, Show(d)
    PROVE  CleanDownload(d)'
<1> USE DEF IInv
<1>1. UNCHANGED <<len, content, rawx>>
  BY DEF Show
<1>2. ASSUME d \in clean', shown'[d] \in clean', len[shown'[d]] <= ChunkSize
      PROVE  /\ Stored(shown'[d]) /\ down'[d] = "fetch"
             /\ dtargets'[d] = One(Chunk(shown'[d])) /\ out'[d] = <<>> /\ next'[d] = 0
  <2>1. /\ dtargets'[d] = Parsed(content.chunks) /\ shown'[d] = content.owner
        /\ clean' = clean
    BY <1>2, ShowGives
  <2>2. content.owner \in Uploads /\ content.owner \in clean
    BY <1>2, <2>1, NamesAssumption DEF ContentInv, TypeOK
  <2>3. content.chunks = <<Chunk(content.owner)>> /\ Stored(content.owner)
    BY <1>2, <2>1, <2>2 DEF CleanUpload, OneChunk
  <2>4. Chunk(content.owner).pos = 0
    BY DEF Chunk
  <2>5. Parsed(content.chunks) = One(Chunk(content.owner))
    BY <2>3, <2>4, ParsedOne, InsertFirst DEF One
  <2>6. One(Chunk(content.owner)) # NoTargets
    <3>1. DOMAIN One(Chunk(content.owner)) = {0} /\ DOMAIN NoTargets = {}
      BY DEF One, NoTargets
    <3> QED
      BY <3>1
  <2> QED
    BY <2>1, <2>3, <2>5, <2>6, ShowGives
<1> QED
  BY <1>1, <1>2 DEF CleanDownload, OneChunk, Stored, Chunk, One

LEMMA ShowInv == ASSUME IInv, NEW d \in Downloads, Show(d) PROVE IInv'
<1> USE DEF IInv
<1>1. /\ UNCHANGED <<len, uploadVars, content, rawx>> /\ clean' \subseteq clean
      /\ \A e \in Downloads \ {d} : SameDownload(e)
  <2>1. clean' \subseteq clean
    BY ShowGives
  <2>2. \A e \in Downloads \ {d} : SameDownload(e)
    BY DEF Show, SameDownload, Maps, TypeOK
  <2> QED
    BY <2>1, <2>2 DEF Show
<1>2. TypeOK'
  <2>1. \A e \in Downloads : IsTargets(dtargets'[e])
    BY <1>1, ShowFollows DEF SameDownload, TypeOK
  <2>2. down' \in [Downloads -> {"show", "fetch", "done", "stuck"}]
    BY DEF Show, TypeOK
  <2>3. derr' \in [Downloads -> {"ok", "failed"}]
    BY DEF Show, StatusOf, TypeOK
  <2>4. shown' \in [Downloads -> Uploads \cup {NoContent.owner}]
    BY ShowFollows DEF Show, TypeOK
  <2>5. UNCHANGED <<next, out>>
    BY DEF Show
  <2>6. cut' = cut
    BY DEF Show
  <2> QED
    BY <1>1, <2>1, <2>2, <2>3, <2>4, <2>5, <2>6 DEF TypeOK, uploadVars, IsTargets
<1>3. Maps'
  BY <1>1 DEF Maps, Show, uploadVars
<1>4. ASSUME NEW e \in Downloads PROVE Following(e)' /\ CleanDownload(e)'
  <2>1. CASE e = d
    BY <2>1, ShowFollows, ShowClean
  <2>2. CASE e # d
    BY <1>1, <2>2, UploadsStay, DownloadStays DEF TypeOK
  <2> QED
    BY <2>1, <2>2
<1> QED
  BY <1>1, <1>2, <1>3, <1>4, UploadsStay

(* What a turn of the loop writes, and where it leads. *)
LEMMA FetchGives ==
    ASSUME IInv, NEW d \in Downloads, Fetch(d)
    PROVE  LET c == GetTarget(dtargets[d], next[d]) IN
           /\ c \in Chunks
           /\ \/ /\ c.url \in Urls /\ clean' = clean
                 /\ \E n \in 1 .. Len(rawx[c.url]) :
                       /\ out'[d] = out[d] \o Written(SubSeq(rawx[c.url], 1, n), c.size)
                       /\ n # Len(rawx[c.url]) => d \in cut'
              \/ /\ \E b \in {Zeros(c.size), ErrorPage(c.size)} : out'[d] = out[d] \o b
                 /\ clean' = clean \ {d}
           /\ \A e \in Downloads \ {d} : e \in cut' <=> e \in cut
           /\ next'[d] = next[d] + 1
           /\ down'[d] = IF next'[d] = Cardinality(DOMAIN dtargets[d]) THEN "done" ELSE "fetch"
<1> USE DEF IInv
<1>1. GetTarget(dtargets[d], next[d]) \in Chunks
  BY SizesAssumption DEF TypeOK, IsTargets, GetTarget, Chunks
<1>2. GetTarget(dtargets[d], next[d]).url # NoUrl => GetTarget(dtargets[d], next[d]).url \in Urls
  BY <1>1 DEF Chunks
<1>3. out \in [Downloads -> Seq(Pieces \cup {Zero, Junk})] /\ next \in [Downloads -> 0 .. (MaxPieces + 1)]
      /\ down \in [Downloads -> {"show", "fetch", "done", "stuck"}]
  BY DEF TypeOK
<1>4. /\ next'[d] = next[d] + 1
      /\ down'[d] = IF next'[d] = Cardinality(DOMAIN dtargets[d]) THEN "done" ELSE "fetch"
  BY <1>3 DEF Fetch
<1> DEFINE c == GetTarget(dtargets[d], next[d])
           r == rawx[c.url]
<1>5. CASE /\ c.url # NoUrl /\ UNCHANGED clean
           /\ \E b \in Begun(r) :
                /\ out' = [out EXCEPT ![d] = @ \o Written(b, c.size)]
                /\ cut' = IF b = r THEN cut ELSE cut \cup {d}
  <2>1. c.url \in Urls /\ r \in Seq(Pieces \cup {Zero})
    BY <1>2, <1>5 DEF TypeOK
  <2>2. PICK n \in 1 .. Len(r) :
          /\ out' = [out EXCEPT ![d] = @ \o Written(SubSeq(r, 1, n), c.size)]
          /\ cut' = IF SubSeq(r, 1, n) = r THEN cut ELSE cut \cup {d}
    BY <1>5 DEF Begun
  <2>3. SubSeq(r, 1, n) = r => n = Len(r)
    <3>1. Len(SubSeq(r, 1, n)) = n
      BY <2>1
    <3> QED
      BY <3>1
  <2>4. out'[d] = out[d] \o Written(SubSeq(r, 1, n), c.size)
    BY <1>3, <2>2
  <2>5. n # Len(r) => d \in cut'
    BY <2>2, <2>3
  <2>6. \A e \in Downloads \ {d} : e \in cut' <=> e \in cut
    BY <2>2
  <2> HIDE DEF c
  <2>7. \E m \in 1 .. Len(r) :
          /\ out'[d] = out[d] \o Written(SubSeq(r, 1, m), c.size)
          /\ m # Len(r) => d \in cut'
    BY <2>4, <2>5
  <2> QED
    BY <1>1, <1>4, <1>5, <2>1, <2>6, <2>7 DEF c
<1>6. CASE /\ \E b \in {Zeros(c.size), ErrorPage(c.size)} : out' = [out EXCEPT ![d] = @ \o b]
           /\ clean' = clean \ {d} /\ UNCHANGED cut
  <2>1. \E b \in {Zeros(c.size), ErrorPage(c.size)} : out'[d] = out[d] \o b
    BY <1>3, <1>6
  <2> QED
    BY <1>1, <1>4, <1>6, <2>1
<1> QED
  BY <1>5, <1>6 DEF Fetch

LEMMA FetchTypes ==
    ASSUME IInv, NEW d \in Downloads, Fetch(d)
    PROVE  out'[d] \in Seq(Pieces \cup {Zero, Junk})
<1> USE DEF IInv
<1> DEFINE c == GetTarget(dtargets[d], next[d])
           S == Pieces \cup {Zero, Junk}
<1>1. c \in Chunks
  BY FetchGives
<1>2. c.size \in Nat
  BY <1>1, SizesAssumption DEF Chunks
<1>3. out[d] \in Seq(S)
  BY DEF TypeOK
<1>4. Zeros(c.size) \in Seq(S) /\ ErrorPage(c.size) \in Seq(S)
  BY <1>2 DEF Zeros, ErrorPage
<1>5. ASSUME c.url \in Urls, NEW n \in 1 .. Len(rawx[c.url])
      PROVE  Written(SubSeq(rawx[c.url], 1, n), c.size) \in Seq(S)
  <2> DEFINE b == SubSeq(rawx[c.url], 1, n)
  <2>1. rawx[c.url] \in Seq(Pieces \cup {Zero})
    BY <1>5 DEF TypeOK
  <2>2. b \in Seq(Pieces \cup {Zero})
    BY <2>1
  <2> HIDE DEF c, b
  <2>3. \A i \in 1 .. c.size : i <= Len(b) => b[i] \in Pieces \cup {Zero}
    BY <1>2, <2>2
  <2>4. \A i \in 1 .. c.size : (IF i <= Len(b) THEN b[i] ELSE Junk) \in S
    BY <2>3
  <2>5. Written(b, c.size) \in Seq(S)
    BY <1>2, <2>4 DEF Written
  <2> QED
    BY <2>5 DEF b
<1>6. \E b \in Seq(S) : out'[d] = out[d] \o b
  BY <1>4, <1>5, FetchGives
<1> QED
  BY <1>3, <1>6

LEMMA FetchClean ==
    ASSUME IInv, NEW d \in Downloads, Fetch(d)
    PROVE  CleanDownload(d)'
<1> USE DEF IInv
<1>1. UNCHANGED <<len, rawx, shown, dtargets>> /\ clean' \subseteq clean /\ down[d] = "fetch"
  <2>1. clean' \subseteq clean
    BY FetchGives
  <2> QED
    BY <2>1 DEF Fetch
<1>2. ASSUME NEW v \in Uploads, v = shown[d], d \in clean', v \in clean', len[v] <= ChunkSize
      PROVE  /\ Stored(v) /\ down'[d] = "done"
             /\ \E n \in 1 .. ChunkSize : out'[d] = FileUntil(v, n)
             /\ d \notin cut' => out'[d] = File(v)
  <2>1. d \in clean /\ v \in clean /\ OneChunk(v)
    BY <1>1, <1>2 DEF OneChunk
  <2>2. Stored(v) /\ dtargets[d] = One(Chunk(v)) /\ out[d] = <<>> /\ next[d] = 0
    BY <1>1, <1>2, <2>1 DEF CleanDownload
  <2>3. GetTarget(dtargets[d], next[d]) = Chunk(v) /\ DOMAIN dtargets[d] = {0}
    BY <2>2 DEF GetTarget, One
  <2>4. Chunk(v).url = <<v, 1>> /\ Chunk(v).size = len[v]
    BY DEF Chunk
  <2>5. len[v] \in Nat /\ ChunkSize \in Nat
    BY SizesAssumption DEF TypeOK
  <2>6. Len(rawx[<<v, 1>>]) = ChunkSize /\ rawx[<<v, 1>>] \in Seq(Pieces \cup {Zero})
    <3>1. <<v, 1>> \in Urls
      BY SizesAssumption DEF Urls
    <3>2. rawx[<<v, 1>>] \in Seq(Pieces \cup {Zero})
      BY <3>1 DEF TypeOK
    <3> QED
      BY <2>2, <2>5, <3>2 DEF Stored
  <2>7. PICK n \in 1 .. ChunkSize :
          /\ out'[d] = <<>> \o Written(SubSeq(rawx[<<v, 1>>], 1, n), len[v])
          /\ n # ChunkSize => d \in cut'
    <3>1. \/ \E n \in 1 .. Len(rawx[Chunk(v).url]) :
                /\ out'[d] = out[d] \o Written(SubSeq(rawx[Chunk(v).url], 1, n), Chunk(v).size)
                /\ n # Len(rawx[Chunk(v).url]) => d \in cut'
          \/ clean' = clean \ {d}
      BY <2>3, FetchGives
    <3> QED
      BY <1>2, <2>2, <2>4, <2>6, <3>1
  <2>8. /\ Len(SubSeq(rawx[<<v, 1>>], 1, n)) = n
        /\ \A i \in 1 .. n : SubSeq(rawx[<<v, 1>>], 1, n)[i] = rawx[<<v, 1>>][i]
    BY <2>5, <2>6
  <2>9. \A i \in 1 .. len[v] : i <= ChunkSize /\ rawx[<<v, 1>>][i] = <<v, i>>
    BY <1>2, <2>2, <2>5 DEF Stored
  <2>10. \A i \in 1 .. len[v] :
           (IF i <= Len(SubSeq(rawx[<<v, 1>>], 1, n)) THEN SubSeq(rawx[<<v, 1>>], 1, n)[i] ELSE Junk)
           = (IF i <= n THEN <<v, i>> ELSE Junk)
    <3> SUFFICES ASSUME NEW i \in 1 .. len[v]
                 PROVE  i <= n => SubSeq(rawx[<<v, 1>>], 1, n)[i] = <<v, i>>
      BY <2>8
    <3>1. i <= n => i \in 1 .. n
      BY <2>5
    <3> QED
      BY <2>8, <2>9, <3>1
  <2>11. out'[d] = FileUntil(v, n)
    <3>1. Written(SubSeq(rawx[<<v, 1>>], 1, n), len[v]) = FileUntil(v, n)
      BY <2>10 DEF Written, FileUntil
    <3>2. FileUntil(v, n) \in Seq({<<v, i>> : i \in 1 .. len[v]} \cup {Junk})
      BY <2>5 DEF FileUntil
    <3> QED
      BY <2>7, <3>1, <3>2
  <2>13. d \notin cut' => out'[d] = File(v)
    <3>1. n = ChunkSize => \A i \in 1 .. len[v] : i <= n
      BY <2>9
    <3>2. n = ChunkSize => FileUntil(v, n) = File(v)
      BY <3>1 DEF FileUntil, File
    <3> QED
      BY <2>7, <2>11, <3>2
  <2>12. down'[d] = "done"
    <3>1. next'[d] = next[d] + 1
      BY FetchGives
    <3>2. next'[d] = 1 /\ Cardinality(DOMAIN dtargets[d]) = 1
      <4>1. next'[d] = 1
        BY <2>2, <3>1
      <4>2. Cardinality({0}) = 1
        BY Cards, Zenon
      <4> QED
        BY <2>3, <4>1, <4>2
    <3>3. down'[d] = IF next'[d] = Cardinality(DOMAIN dtargets[d]) THEN "done" ELSE "fetch"
      BY FetchGives
    <3> QED
      BY <3>2, <3>3
  <2> QED
    BY <2>2, <2>11, <2>12, <2>13
<1>3. shown[d] \in clean => shown[d] \in Uploads
  BY NamesAssumption DEF TypeOK
<1>4. ASSUME d \in clean', shown[d] \in clean', len[shown[d]] <= ChunkSize
      PROVE  Stored(shown[d])' /\ down'[d] = "done" /\ ComesBack(d)'
  <2>1. /\ Stored(shown[d]) /\ down'[d] = "done"
        /\ \E n \in 1 .. ChunkSize : out'[d] = FileUntil(shown[d], n)
        /\ d \notin cut' => out'[d] = File(shown[d])
    BY <1>1, <1>2, <1>3, <1>4
  <2>2. Stored(shown[d])'
    BY <1>1, <2>1 DEF Stored
  <2>3. ComesBack(d)'
    BY <1>1, <2>1 DEF ComesBack, FileUntil, File
  <2> QED
    BY <2>1, <2>2, <2>3
<1> QED
  BY <1>1, <1>4 DEF CleanDownload, OneChunk

LEMMA FetchInv == ASSUME IInv, NEW d \in Downloads, Fetch(d) PROVE IInv'
<1> USE DEF IInv
<1>1. /\ UNCHANGED <<len, uploadVars, content, rawx, derr, dtargets, shown>>
      /\ clean' \subseteq clean
      /\ \A e \in Downloads \ {d} : SameDownload(e)
  <2>1. clean' \subseteq clean
    BY FetchGives
  <2>2. \A e \in Downloads \ {d} : SameDownload(e)
    <3>1. \A e \in Downloads \ {d} : out'[e] = out[e]
      BY DEF Fetch, TypeOK
    <3> QED
      BY <3>1, FetchGives DEF Fetch, SameDownload, TypeOK
  <2> QED
    BY <2>1, <2>2 DEF Fetch
<1>2. /\ IsFiniteSet(DOMAIN dtargets[d]) /\ Cardinality(DOMAIN dtargets[d]) <= 2
      /\ Cardinality(DOMAIN dtargets[d]) \in Nat
      /\ next[d] < Cardinality(DOMAIN dtargets[d]) /\ next[d] \in Nat
  <2>1. next[d] \in Nat
    BY DEF TypeOK
  <2> QED
    BY <2>1, FS_CardinalityType DEF Fetch, Following
<1>3. TypeOK'
  <2>1. next' \in [Downloads -> 0 .. (MaxPieces + 1)]
    <3>1. next[d] + 1 \in 0 .. (MaxPieces + 1)
      BY <1>2, SizesAssumption
    <3> QED
      BY <3>1 DEF Fetch, TypeOK
  <2>2. out' \in [Downloads -> Seq(Pieces \cup {Zero, Junk})]
    <3>1. PICK o : out' = [out EXCEPT ![d] = o]
      BY DEF Fetch
    <3>2. o \in Seq(Pieces \cup {Zero, Junk})
      BY <3>1, FetchTypes DEF TypeOK
    <3> QED
      BY <3>1, <3>2 DEF TypeOK
  <2>3. down' \in [Downloads -> {"show", "fetch", "done", "stuck"}]
    BY DEF Fetch, TypeOK
  <2>4. cut' \in SUBSET Downloads
    BY DEF Fetch, TypeOK
  <2> QED
    BY <1>1, <2>1, <2>2, <2>3, <2>4 DEF TypeOK, uploadVars, IsTargets
<1>4. Maps'
  BY <1>1 DEF Maps, uploadVars
<1>5. Following(d)'
  <2>1. down'[d] # "show"
    BY FetchGives
  <2>2. down'[d] = "fetch" => next'[d] < Cardinality(DOMAIN dtargets[d])
    <3>1. /\ next'[d] = next[d] + 1
          /\ down'[d] = IF next'[d] = Cardinality(DOMAIN dtargets[d]) THEN "done" ELSE "fetch"
      BY FetchGives
    <3> QED
      BY <1>2, <3>1
  <2>3. shown'[d] \in Uploads => up'[shown'[d]] = "done"
    BY <1>1 DEF Following, uploadVars
  <2> QED
    BY <1>1, <1>2, <2>1, <2>2, <2>3 DEF Following
<1>6. ASSUME NEW e \in Downloads PROVE Following(e)' /\ CleanDownload(e)'
  <2>1. CASE e = d
    BY <1>5, <2>1, FetchClean
  <2>2. CASE e # d
    BY <1>1, <2>2, UploadsStay, DownloadStays DEF TypeOK
  <2> QED
    BY <2>1, <2>2
<1> QED
  BY <1>1, <1>3, <1>4, <1>6, UploadsStay

(* A download that is stuck promises nothing. *)
LEMMA FetchBreaksInv == ASSUME IInv, NEW d \in Downloads, FetchBreaks(d) PROVE IInv'
<1> USE DEF IInv
<1>1. /\ UNCHANGED <<len, uploadVars, content, rawx, derr, dtargets, next, out, shown, cut>>
      /\ clean' = clean \ {d} /\ down' = [down EXCEPT ![d] = "stuck"]
  BY DEF FetchBreaks
<1>2. \A e \in Downloads \ {d} : SameDownload(e)
  BY <1>1 DEF SameDownload, TypeOK
<1>3. TypeOK' /\ Maps'
  BY <1>1 DEF TypeOK, Maps, uploadVars, IsTargets
<1>4. ASSUME NEW e \in Downloads PROVE Following(e)' /\ CleanDownload(e)'
  <2>1. CASE e = d
    <3>1. down'[d] = "stuck" /\ d \notin clean'
      BY <1>1 DEF TypeOK
    <3> QED
      BY <1>1, <2>1, <3>1 DEF Following, CleanDownload, uploadVars
  <2>2. CASE e # d
    <3>1. clean' \subseteq clean
      BY <1>1
    <3> QED
      BY <1>1, <1>2, <2>2, <3>1, UploadsStay, DownloadStays DEF TypeOK
  <2> QED
    BY <2>1, <2>2
<1>5. clean' \subseteq clean
  BY <1>1
<1> QED
  BY <1>1, <1>3, <1>4, <1>5, UploadsStay

-----------------------------------------------------------------------------
(* The theorems. *)

LEMMA InitInv == Init => IInv
<1> SUFFICES ASSUME Init PROVE IInv
  OBVIOUS
<1>1. TypeOK
  <2>1. IsTargets(NoTargets)
    BY DEF IsTargets, NoTargets
  <2>2. /\ <<>> \in Seq(0 .. MaxPieces) /\ <<>> \in Seq(Chunks)
        /\ <<>> \in Seq(Pieces \cup {Zero}) /\ <<>> \in Seq(Pieces \cup {Zero, Junk})
    OBVIOUS
  <2>3. content.length = 0 /\ content.chunks = <<>>
    BY DEF Init, NoContent
  <2> QED
    BY <2>1, <2>2, <2>3, SizesAssumption DEF Init, TypeOK
<1>2. Maps /\ Replies
  <2>1. \A n : <<>> \in Seq(0 .. n)
    OBVIOUS
  <2> QED
    BY <2>1 DEF Init, Maps, Replies
<1>3. ASSUME NEW u \in Uploads PROVE Progress(u) /\ CleanUpload(u)
  BY <1>3, NamesAssumption DEF Init, Progress, Fresh, CleanUpload
<1>4. ContentInv
  BY DEF Init, ContentInv, IsChunkList, NoContent
<1>5. ASSUME NEW d \in Downloads PROVE Following(d) /\ CleanDownload(d)
  BY <1>5, NamesAssumption DEF Init, Following, CleanDownload
<1> QED
  BY <1>1, <1>2, <1>3, <1>4, <1>5 DEF IInv

LEMMA StepInv == IInv /\ [Next]_vars => IInv'
<1> SUFFICES ASSUME IInv, [Next]_vars PROVE IInv'
  OBVIOUS
<1>1. ASSUME NEW u \in Uploads, UploadStep(u) PROVE IInv'
  BY <1>1, PrepareInv, StoreInv, CreateInv DEF UploadStep
<1>2. ASSUME NEW d \in Downloads, DownloadStep(d) PROVE IInv'
  BY <1>2, ShowInv, FetchInv, FetchBreaksInv DEF DownloadStep
<1>3. CASE UNCHANGED vars
  <2>1. UNCHANGED <<len, uploadVars, content, rawx, downloadVars, clean>>
    BY <1>3 DEF vars
  <2>2. TypeOK' /\ Maps'
    BY <2>1 DEF IInv, TypeOK, Maps, IsTargets, uploadVars, downloadVars
  <2>3. \A d \in Downloads : SameDownload(d)
    BY <2>1 DEF SameDownload, downloadVars
  <2>4. \A d \in Downloads : Following(d)' /\ CleanDownload(d)'
    BY <2>1, <2>3, UploadsStay, DownloadStays DEF IInv, TypeOK
  <2> QED
    BY <2>1, <2>2, <2>4, UploadsStay DEF IInv
<1> QED
  BY <1>1, <1>2, <1>3 DEF Next

THEOREM Invariance == Spec => []IInv
BY InitInv, StepInv, PTL DEF Spec

(* For any files and size of the chunks: every variable keeps its type. In  *)
(* particular the proxy is never asked for more chunks than the file has   *)
(* pieces, and no chunk gets a number beyond them.                         *)
THEOREM TypeCorrect == Spec => []TypeOK
<1>1. IInv => TypeOK
  BY DEF IInv
<1> QED
  BY <1>1, Invariance, PTL

(* What comes back of a file of one chunk is a beginning of it, and all of *)
(* it unless the end of the reply was lost, while other uploads of the     *)
(* content go on.                                                          *)
THEOREM OneChunkComesBack == Spec => []RoundTrip
<1>1. IInv => RoundTrip
  BY DEF IInv, RoundTrip, CleanDownload, ComesBack
<1> QED
  BY <1>1, Invariance, PTL

(* The length registered is that of the file, whatever became of chunks.   *)
THEOREM LengthIsThatOfTheFile == Spec => []RegistersLength
<1>1. IInv => RegistersLength
  BY NamesAssumption DEF IInv, RegistersLength, ContentInv
<1> QED
  BY <1>1, Invariance, PTL

(* An upload that answers an error has registered nothing.                 *)
THEOREM ErrorsRegisterNothing == Spec => []ErrorIsUnregistered
<1>1. IInv => ErrorIsUnregistered
  BY NamesAssumption DEF IInv, ErrorIsUnregistered, ContentInv
<1> QED
  BY <1>1, Invariance, PTL
=============================================================================
