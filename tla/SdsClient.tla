----------------------------- MODULE SdsClient -----------------------------
(***************************************************************************)
(* SdsClient of oio/sds/sds.cpp: an upload asks the metadata proxy for     *)
(* chunks (Content::Prepare), stores the file there one chunk after the    *)
(* other and registers them (Content::Create); a download asks the proxy   *)
(* for the chunks (Content::Show) and fetches them.                        *)
(*                                                                         *)
(* The proxy and the rawx are not in the repository.  The proxy proposes   *)
(* one new chunk of ChunkSize pieces at position 0, keeps the last list    *)
(* registered and gives it back as it is; each request may fail.           *)
(***************************************************************************)
EXTENDS Integers, Sequences, FiniteSets, SequencesExt

CONSTANTS
    Uploads, Downloads,     \* operations on one content
    MaxPieces,              \* bound on the files to upload, not 0
    ChunkSize               \* what the proxy answers to get_size

ASSUME SizesAssumption == MaxPieces \in Nat \ {0} /\ ChunkSize \in Nat \ {0}

Pieces == Uploads \X (1 .. MaxPieces)
Zero == <<"zero", 0>>   \* of a buffer that resize() made
Junk == <<"junk", 0>>   \* of an error page, or from behind a buffer

NoUrl == <<"none", 0>>
Urls == Uploads \X (1 .. MaxPieces)

(* ChunkInfo: the targets are a set ordered by chunk number, hence a       *)
(* function of it.                                                         *)
Chunks == [url : Urls \cup {NoUrl}, pos : 0 .. MaxPieces, size : 0 .. (MaxPieces + ChunkSize)]
Numbers == 0 .. MaxPieces

NoContent == [owner |-> "nobody", chunks |-> <<>>, length |-> 0]

ASSUME NamesAssumption == NoContent.owner \notin Uploads \cup Downloads

VARIABLES
    len,        \* the length of the file of each upload
    up,         \* the step of each upload
    err,        \* its OioError
    targets,    \* ContentInfo::targets
    asked,      \* how many chunks the proxy gave it
    unread,     \* the replies of the proxy it has not read, 0 without chunk
    size,       \* the size of its buffer
    sent,       \* fullSize: how much of the file it has gone through
    metachunk,
    content,    \* the proxy: what is registered
    rawx,       \* the rawx: what is stored at each url
    down, derr, dtargets, next,     \* the same of each download
    out,        \* the file it writes
    shown,      \* the content it was shown
    cut,        \* the downloads that lost the end of a chunk
    clean       \* the operations whose requests have all been served

uploadVars == <<up, err, targets, asked, unread, size, sent, metachunk>>
downloadVars == <<down, derr, dtargets, next, out, shown, cut>>
vars == <<len, uploadVars, content, rawx, downloadVars, clean>>

NoTargets == [n \in {} |-> 0]

IsTargets(t) == DOMAIN t \subseteq Numbers /\ \A n \in DOMAIN t : t[n] \in Chunks

TypeOK ==
    /\ len \in [Uploads -> 0 .. MaxPieces]
    /\ up \in [Uploads -> {"first", "next", "store", "create", "done"}]
    /\ err \in [Uploads -> {"ok", "failed"}]
    /\ \A u \in Uploads : IsTargets(targets[u])
    /\ asked \in [Uploads -> 0 .. MaxPieces] /\ unread \in [Uploads -> Seq(0 .. MaxPieces)]
    /\ size \in [Uploads -> 0 .. ChunkSize]
    /\ sent \in [Uploads -> 0 .. MaxPieces] /\ metachunk \in [Uploads -> 0 .. MaxPieces]
    /\ content.length \in 0 .. MaxPieces /\ content.chunks \in Seq(Chunks)
    /\ rawx \in [Urls -> Seq(Pieces \cup {Zero})]
    /\ down \in [Downloads -> {"show", "fetch", "done", "stuck"}]
    /\ derr \in [Downloads -> {"ok", "failed"}]
    /\ \A d \in Downloads : IsTargets(dtargets[d])
    /\ next \in [Downloads -> 0 .. (MaxPieces + 1)]
    /\ out \in [Downloads -> Seq(Pieces \cup {Zero, Junk})]
    /\ shown \in [Downloads -> Uploads \cup {NoContent.owner}]
    /\ cut \in SUBSET Downloads /\ clean \in SUBSET (Uploads \cup Downloads)

Init ==
    /\ len \in [Uploads -> 0 .. MaxPieces]
    /\ up = [u \in Uploads |-> "first"] /\ err = [u \in Uploads |-> "ok"]
    /\ targets = [u \in Uploads |-> NoTargets] /\ asked = [u \in Uploads |-> 0]
    /\ unread = [u \in Uploads |-> <<>>]
    /\ size = [u \in Uploads |-> 0] /\ sent = [u \in Uploads |-> 0]
    /\ metachunk = [u \in Uploads |-> 0]
    /\ content = NoContent /\ rawx = [l \in Urls |-> <<>>]
    /\ down = [d \in Downloads |-> "show"] /\ derr = [d \in Downloads |-> "ok"]
    /\ dtargets = [d \in Downloads |-> NoTargets] /\ next = [d \in Downloads |-> 0]
    /\ out = [d \in Downloads |-> <<>>] /\ shown = [d \in Downloads |-> NoContent.owner]
    /\ cut = {} /\ clean = Uploads \cup Downloads

-----------------------------------------------------------------------------
(* ContentInfo. *)

Least(t) == CHOOSE n \in DOMAIN t : \A m \in DOMAIN t : n <= m

(* put_content: the number of a chunk follows from its position, and from  *)
(* the chunks that came before.                                            *)
NumberOf(t, c) ==
    IF c.pos = 0 /\ (DOMAIN t # {} => t[Least(t)].pos = 0) THEN Cardinality(DOMAIN t) ELSE c.pos

(* The insertion into the set: what has the number already stays. *)
Insert(t, c) ==
    LET n == NumberOf(t, c) IN
    [m \in DOMAIN t \cup {n} |-> IF m \in DOMAIN t THEN t[m] ELSE c]

(* put_contents *)
Parsed(chunks) == FoldLeft(Insert, NoTargets, chunks)

(* get_contents *)
Listed(t) ==
    LET Ranked(i) == CHOOSE n \in DOMAIN t : Cardinality({m \in DOMAIN t : m < n}) = i - 1
    IN  [i \in 1 .. Cardinality(DOMAIN t) |-> t[Ranked(i)]]

(* GetTarget: without the chunk, an empty one. *)
GetTarget(t, n) ==
    IF n \in DOMAIN t THEN t[n] ELSE [url |-> NoUrl, pos |-> 0, size |-> 0]

(* Mutant of Updated: the size stays as the proxy gave it. *)
UpdatedPos(t, n, length) ==
    [m \in DOMAIN t \cup {0} |->
        IF m = 0 THEN [url |-> GetTarget(t, n).url, pos |-> n, size |-> GetTarget(t, n).size]
        ELSE t[m]]

(* UpdateTarget with the url of target n: ChunkInfo inherits the Set of    *)
(* RawxUrl, and keeps the number 0 of a new ChunkInfo.                     *)
Updated(t, n, length) ==
    [m \in DOMAIN t \cup {0} |->
        IF m = 0 THEN [url |-> GetTarget(t, n).url, pos |-> n, size |-> length] ELSE t[m]]

-----------------------------------------------------------------------------
(* A call to the proxy, Call::Run and the parsing of its reply.  An error  *)
(* is only what keeps the request from being written: a reply that does    *)
(* not come, that no JSON can be read from or that is an error of the      *)
(* proxy is a success (OioError::Decode leaves the cause OK).              *)
Outcomes == {"unsent", "refused", "served"}
StatusOf(o) == IF o = "unsent" THEN "failed" ELSE "ok"
Judged(p, o) == IF o = "served" THEN clean ELSE clean \ {p}

-----------------------------------------------------------------------------
(* upload *)

(* The n-th chunk the proxy proposes to an upload. *)
Proposed(u, n) == [url |-> <<u, n>>, pos |-> 0, size |-> ChunkSize]

(* How much the next read of the file gives. *)
Length(u) == IF size[u] < len[u] - sent[u] THEN size[u] ELSE len[u] - sent[u]

(* The next reply on the connection is read, which is that of an earlier   *)
(* call if one was late, and the replies read with it are lost: a Call has *)
(* a buffer of its own.  Or none comes in time, or what is left of one     *)
(* that was read in part: nothing can be made of it.                       *)
Received(u, reply) ==
    LET q == Append(unread[u], reply) IN
    \E n \in 0 .. Len(q) :
        /\ unread' = [unread EXCEPT ![u] = SubSeq(q, n + 1, Len(q))]
        /\ \/ /\ n > 0
              /\ targets' = [targets EXCEPT ![u] =
                                IF Head(q) = 0 THEN @ ELSE Insert(@, Proposed(u, Head(q)))]
              /\ clean' = IF reply # 0 /\ unread[u] = <<>> THEN clean ELSE clean \ {u}
           \/ UNCHANGED targets /\ clean' = clean \ {u}

(* Content::Prepare.  The first one gives the buffer its size; a later     *)
(* one's failure is logged.                                                *)
Prepare(u) ==
    /\ up[u] \in {"first", "next"}
    /\ \/ /\ err' = [err EXCEPT ![u] = "failed"]
          /\ clean' = clean \ {u}
          /\ UNCHANGED <<asked, targets, unread>>
       \/ \E reply \in {0, asked[u] + 1} :
          /\ err' = [err EXCEPT ![u] = "ok"]
          /\ asked' = [asked EXCEPT ![u] = IF reply = 0 THEN @ ELSE reply]
          /\ Received(u, reply)
    /\ size' = [size EXCEPT ![u] = IF up[u] = "first" THEN GetTarget(targets'[u], 0).size ELSE @]
    /\ up' = [up EXCEPT ![u] =
                IF @ = "next" \/ (size'[u] > 0 /\ len[u] > 0) THEN "store" ELSE "done"]
    /\ UNCHANGED <<len, sent, metachunk, content, rawx, downloadVars>>

(* What it writes: the whole buffer. *)
Buffer(u) == [i \in 1 .. size[u] |-> IF i <= Length(u) THEN <<u, sent[u] + i>> ELSE Zero]

(* The turn of the loop, whatever becomes of the upload of the chunk: it   *)
(* is stored, or a part of it, or nothing.                                 *)
Store(u) ==
    /\ up[u] = "store"
    /\ LET l == GetTarget(targets[u], metachunk[u]).url IN
       \/ l # NoUrl /\ rawx' = [rawx EXCEPT ![l] = Buffer(u)] /\ UNCHANGED clean
       \/ l # NoUrl /\ rawx' = [rawx EXCEPT ![l] = <<Buffer(u)[1]>>] /\ clean' = clean \ {u}
       \/ UNCHANGED rawx /\ clean' = clean \ {u}
    /\ targets' = [targets EXCEPT ![u] = Updated(@, metachunk[u], Length(u))]
    /\ sent' = [sent EXCEPT ![u] = @ + Length(u)]
    /\ metachunk' = [metachunk EXCEPT ![u] = @ + 1]
    /\ up' = [up EXCEPT ![u] = IF sent'[u] = len[u] THEN "create" ELSE "next"]
    /\ UNCHANGED <<len, err, asked, unread, size, content, downloadVars>>

(* Mutant of Registered: the length is that of the last chunk. *)
RegisteredLast(u) ==
    [owner |-> u, chunks |-> Listed(targets[u]), length |-> targets[u][0].size]

(* What Content::Create registers. *)
Registered(u) == [owner |-> u, chunks |-> Listed(targets[u]), length |-> sent[u]]

(* Mutant of CreateError: an earlier error is kept. *)
CreateErrorKept(u, o) == IF err[u] = "failed" THEN err[u] ELSE StatusOf(o)

(* The error of Create replaces that of the Prepare before. *)
CreateError(u, o) == StatusOf(o)

Create(u) ==
    /\ up[u] = "create"
    /\ \E o \in Outcomes :
        /\ err' = [err EXCEPT ![u] = CreateError(u, o)]
        /\ content' = IF o = "served" THEN Registered(u) ELSE content
        /\ clean' = Judged(u, o)
    /\ up' = [up EXCEPT ![u] = "done"]
    /\ UNCHANGED <<len, targets, asked, unread, size, sent, metachunk, rawx, downloadVars>>

-----------------------------------------------------------------------------
(* download *)

(* Content::Show.  A content that is not there is no error. *)
Show(d) ==
    /\ down[d] = "show"
    /\ \E o \in Outcomes :
        /\ derr' = [derr EXCEPT ![d] = StatusOf(o)]
        /\ dtargets' = [dtargets EXCEPT ![d] = IF o = "served" THEN Parsed(content.chunks) ELSE @]
        /\ shown' = [shown EXCEPT ![d] = IF o = "served" THEN content.owner ELSE @]
        /\ down' = [down EXCEPT ![d] = IF dtargets'[d] = NoTargets THEN "done" ELSE "fetch"]
        /\ clean' = Judged(d, o)
    /\ UNCHANGED <<len, uploadVars, content, rawx, next, out, cut>>

(* What the file gets of a chunk of n bytes when the rawx gives bytes b:   *)
(* RawxDownload::Read cuts what is too long, write goes on behind what is  *)
(* too short.                                                              *)
Written(b, n) == [i \in 1 .. n |-> IF i <= Len(b) THEN b[i] ELSE Junk]
Zeros(n) == [i \in 1 .. n |-> Zero]
ErrorPage(n) == [i \in 1 .. n |-> Junk]

(* What RawxDownload::Read makes of a reply with the bytes b: it asks for  *)
(* one slice at a time until IsEof, which is true once the reply is parsed *)
(* to its end.  The slices behind the first of the last parse are lost.    *)
Begun(b) == {SubSeq(b, 1, n) : n \in 1 .. Len(b)}

(* The turn of the loop: a chunk that cannot be fetched leaves the buffer  *)
(* as resize() made it; any status but 404 is data.                        *)
Fetch(d) ==
    /\ down[d] = "fetch"
    /\ LET c == GetTarget(dtargets[d], next[d]) IN
       \/ /\ c.url # NoUrl
          /\ \E b \in Begun(rawx[c.url]) :
                /\ out' = [out EXCEPT ![d] = @ \o Written(b, c.size)]
                /\ cut' = IF b = rawx[c.url] THEN cut ELSE cut \cup {d}
          /\ UNCHANGED clean
       \/ /\ \E b \in {Zeros(c.size), ErrorPage(c.size)} : out' = [out EXCEPT ![d] = @ \o b]
          /\ clean' = clean \ {d} /\ UNCHANGED cut
    /\ next' = [next EXCEPT ![d] = @ + 1]
    /\ down' = [down EXCEPT ![d] =
                    IF next'[d] = Cardinality(DOMAIN dtargets[d]) THEN "done" ELSE @]
    /\ UNCHANGED <<len, uploadVars, content, rawx, derr, dtargets, shown>>

(* The connection breaks in the middle of a chunk: RawxDownload::Read      *)
(* ignores the errors and waits for ever for the end of the reply.         *)
FetchBreaks(d) ==
    /\ down[d] = "fetch"
    /\ GetTarget(dtargets[d], next[d]).url # NoUrl
    /\ down' = [down EXCEPT ![d] = "stuck"] /\ clean' = clean \ {d}
    /\ UNCHANGED <<len, uploadVars, content, rawx, derr, dtargets, next, out, shown, cut>>

-----------------------------------------------------------------------------
UploadStep(u) == Prepare(u) \/ Store(u) \/ Create(u)
DownloadStep(d) == Show(d) \/ Fetch(d) \/ FetchBreaks(d)

Next ==
    \/ \E u \in Uploads : UploadStep(u)
    \/ \E d \in Downloads : DownloadStep(d)

Spec == Init /\ [][Next]_vars

-----------------------------------------------------------------------------
OneChunk(u) == len[u] <= ChunkSize
File(u) == [i \in 1 .. len[u] |-> <<u, i>>]
FileUntil(u, n) == [i \in 1 .. len[u] |-> IF i <= n THEN <<u, i>> ELSE Junk]

(* What comes back of a file of one chunk, when all requests of its upload *)
(* and of its download were served, is a beginning of that file, never the *)
(* data of another upload of the content, and all of it unless the end of  *)
(* the reply was lost.  The rest is junk, and nobody is told.  Files of    *)
(* several chunks do not come back: only one chunk number is ever updated. *)
RoundTrip ==
    \A d \in Downloads :
        down[d] = "done" /\ d \in clean /\ shown[d] \in clean /\ OneChunk(shown[d]) =>
            /\ \E n \in 1 .. ChunkSize : out[d] = FileUntil(shown[d], n)
            /\ d \notin cut => out[d] = File(shown[d])

(* The length registered is that of the file, whatever became of chunks.   *)
RegistersLength ==
    content.owner \in Uploads => content.length = len[content.owner]

(* An upload that answers an error has registered nothing, although its    *)
(* error is that of any of its calls.                                      *)
ErrorIsUnregistered ==
    \A u \in Uploads : up[u] = "done" /\ err[u] = "failed" => content.owner # u

(* common.hpp: the status tells a success from a failure.  An upload of a  *)
(* file that answers a success has registered its content.                 *)
OkIsRegistered ==
    [][\A u \in Uploads :
          up[u] # "done" /\ up'[u] = "done" /\ err'[u] = "ok" /\ len[u] > 0 => content'.owner = u]_vars

(* A clean upload registers every chunk it has stored.  It does not hold   *)
(* for a file of two chunks: the second replaces the first (Updated).      *)
RegistersChunks ==
    \A u \in Uploads :
        u \in clean /\ content.owner = u =>
            \A n \in 1 .. MaxPieces :
                rawx[<<u, n>>] # <<>> => \E i \in DOMAIN content.chunks : content.chunks[i].url = <<u, n>>
=============================================================================
