------------------------------ MODULE EcProxy ------------------------------
(***************************************************************************)
(* bin/ec-proxy.cpp on oio/blob/router/blob.cpp: the RouterHandler of a    *)
(* connection collects the headers of its requests, and a request becomes  *)
(* a plain chunk on one rawx or a stripe on K + M of them.  The daemon is  *)
(* abstracted to its requests (BlobDaemon has the rest), the erasure code  *)
(* to its targets (EcBlob has the rest).                                   *)
(*                                                                         *)
(* A client names fresh chunks in a PUT, and in a GET the chunks of a PUT: *)
(* the PUT stands for its urls.  The rawx are not in the repository: they  *)
(* store or fail.                                                          *)
(***************************************************************************)
EXTENDS Naturals

CONSTANTS
    Conns, NoReq,
    MaxRequests,    \* bound: the requests of a connection
    K, M,
    ChunkSize,      \* GetUpload's, in pieces: whatever the header says
    MaxFailures     \* bound: the rawx that fail

ASSUME BoundsAssumption ==
    /\ MaxRequests \in Nat \ {0} /\ K \in Nat \ {0} /\ M \in Nat
    /\ ChunkSize \in Nat \ {0} /\ MaxFailures \in Nat

Nums == 0 .. (K + M - 1)
Reqs == Conns \X (1 .. MaxRequests)

VARIABLES
    count,      \* the requests begun on each connection
    pc,         \* where the last of them is
    named,      \* the PUT whose chunks it names, if any
    names,      \* those the requests of the connection have named
    ecTargets,  \* ec_param.targets: by chunk number
    rawxUrl,    \* rawx_param.url, if it has a chunk id
    range,      \* a Range header is kept
    asked,      \* a request of the connection had a Range
    filled,     \* the pieces the upload holds
    at,         \* the chunk number the loop on the targets is at
    chunks,     \* what the rawx store: by whom, which part
    touched,    \* the chunks the request has had stored or fetched
    got,        \* whose data it answered
    failures

requestVars == <<count, named, names, ecTargets, rawxUrl, range, asked>>
vars == <<requestVars, pc, filled, at, chunks, touched, got, failures>>

Nothing == [by |-> NoReq, part |-> "none"]
Stored == [by : Reqs \cup {NoReq}, part : {"none", "empty", "whole", "fragment"}]
Steps == {"idle", "body", "plain put", "ec put", "get", "stuck", "broken", "closed"}

TypeOK ==
    /\ count \in [Conns -> 0 .. MaxRequests] /\ pc \in [Conns -> Steps]
    /\ named \in [Conns -> Reqs \cup {NoReq}] /\ names \in [Conns -> SUBSET Reqs]
    /\ ecTargets \in [Conns -> [Nums -> Reqs \cup {NoReq}]]
    /\ rawxUrl \in [Conns -> Reqs \cup {NoReq}]
    /\ range \in [Conns -> BOOLEAN] /\ asked \in [Conns -> BOOLEAN]
    /\ filled \in [Conns -> 0 .. ChunkSize] /\ at \in [Conns -> 0 .. (K + M)]
    /\ chunks \in [Reqs \X Nums -> Stored]
    /\ touched \in [Conns -> SUBSET (Reqs \X Nums)]
    /\ got \in [Conns -> SUBSET Reqs]
    /\ failures \in 0 .. MaxFailures

Init ==
    /\ count = [c \in Conns |-> 0] /\ pc = [c \in Conns |-> "idle"]
    /\ named = [c \in Conns |-> NoReq] /\ names = [c \in Conns |-> {}]
    /\ ecTargets = [c \in Conns |-> [i \in Nums |-> NoReq]]
    /\ rawxUrl = [c \in Conns |-> NoReq]
    /\ range = [c \in Conns |-> FALSE] /\ asked = [c \in Conns |-> FALSE]
    /\ filled = [c \in Conns |-> 0] /\ at = [c \in Conns |-> 0]
    /\ chunks = [u \in Reqs \X Nums |-> Nothing]
    /\ touched = [c \in Conns |-> {}] /\ got = [c \in Conns |-> {}] /\ failures = 0

Self(c) == <<c, count[c]>>
To(c, step) == pc' = [pc EXCEPT ![c] = step]

(* Nobody is in a loop that does not yield. *)
Runs == \A c \in Conns : pc[c] \notin {"stuck", "broken"}

-----------------------------------------------------------------------------
(* The headers of a request. *)

(* Mutant of Handler: the connections share one. *)
SharedHandler(c) == CHOOSE d \in Conns : TRUE

(* BlobClient asks the repository for a handler of its own. *)
Handler(c) == c

Targets(c) == ecTargets[Handler(c)]
RawxUrl(c) == rawxUrl[Handler(c)]

(* EcCommand::AddTarget inserts into a set ordered by the chunk number: a  *)
(* number that an earlier request of the connection named keeps its url.   *)
WithTargets(t, o) == [i \in Nums |-> IF t[i] = NoReq THEN o ELSE t[i]]

(* Mutant of WithUrl: chunk 0 does not replace the url of a request before. *)
WithFirstUrl(url, o, host) ==
    CASE host = "last" -> NoReq
      [] host = "first" -> o
      [] host = "absent" -> IF url = NoReq THEN o ELSE url

(* Host replaces the url by one without chunk id, the header of chunk 0 by *)
(* that of the chunk (test_rawx).                                          *)
WithUrl(url, o, host) ==
    CASE host = "last" -> NoReq
      [] host = "first" -> o
      [] host = "absent" -> IF o = NoReq THEN url ELSE o

(* Mutant of WithRange: a Range is forgotten with its request. *)
WithOwnRange(r, asks) == asks

(* The Range of an earlier request stays. *)
WithRange(r, asks) == r \/ asks

(* SetHeader of all the headers of a request that names the chunks of o.   *)
Headers(c, o, asks) ==
    /\ pc[c] = "idle" /\ count[c] < MaxRequests
    /\ count' = [count EXCEPT ![c] = @ + 1]
    /\ named' = [named EXCEPT ![c] = o]
    /\ names' = [names EXCEPT ![c] = @ \cup ({o} \ {NoReq})]
    /\ ecTargets' = [ecTargets EXCEPT ![Handler(c)] = WithTargets(@, o)]
    /\ \E host \in {"first", "last", "absent"} :
          rawxUrl' = [rawxUrl EXCEPT ![Handler(c)] = WithUrl(@, o, host)]
    /\ range' = [range EXCEPT ![Handler(c)] = WithRange(@, asks)]
    /\ asked' = [asked EXCEPT ![c] = @ \/ asks]
    /\ filled' = [filled EXCEPT ![c] = 0] /\ at' = [at EXCEPT ![c] = 0]
    /\ touched' = [touched EXCEPT ![c] = {}]
    /\ got' = [got EXCEPT ![c] = {}]
    /\ UNCHANGED <<chunks, failures>>

(* The connection ends in the middle of the body: the upload is destroyed.  *)
(* (After a request it ends without effect.)                               *)
Disconnect(c) ==
    /\ pc[c] = "body"
    /\ To(c, "closed")
    /\ UNCHANGED <<requestVars, filled, at, chunks, touched, got, failures>>

-----------------------------------------------------------------------------
(* A rawx stores part p at url u, or fails: RouterUpload does not look. *)
StoreAt(c, u, p) ==
    /\ touched' = [touched EXCEPT ![c] = @ \cup {u}]
    /\ \/ chunks' = [chunks EXCEPT ![u] = [by |-> Self(c), part |-> p]] /\ UNCHANGED failures
       \/ failures < MaxFailures /\ failures' = failures + 1 /\ UNCHANGED chunks

(* A PUT: GetUpload and Prepare.  It names chunks of its own, or none. *)
BeginPut(c) ==
    /\ \E o \in {<<c, count[c] + 1>>, NoReq} : Headers(c, o, FALSE)
    /\ To(c, "body")

(* RouterUpload::Write: what does not fit is waited for, for ever. *)
Write(c) ==
    /\ pc[c] = "body"
    /\ IF filled[c] < ChunkSize
          THEN filled' = [filled EXCEPT ![c] = @ + 1] /\ UNCHANGED pc
          ELSE To(c, "stuck") /\ UNCHANGED filled
    /\ UNCHANGED <<requestVars, at, chunks, touched, got, failures>>

(* Commit, at the end of the body. *)
Commit(c) ==
    /\ pc[c] = "body"
    /\ To(c, IF RawxUrl(c) # NoReq THEN "plain put" ELSE "ec put")
    /\ UNCHANGED <<requestVars, filled, at, chunks, touched, got, failures>>

PlainPut(c) ==
    /\ pc[c] = "plain put"
    /\ StoreAt(c, <<RawxUrl(c), 0>>, IF filled[c] = 0 THEN "empty" ELSE "whole")
    /\ To(c, "idle")
    /\ UNCHANGED <<requestVars, filled, at, got>>

(* One target of EcUpload::Commit.  An empty chunk is not encoded. *)
EcPut(c) ==
    /\ pc[c] = "ec put"
    /\ LET u == <<Targets(c)[at[c]], at[c]>> IN
       IF u[1] # NoReq /\ filled[c] > 0
          THEN StoreAt(c, u, "fragment")
          ELSE UNCHANGED <<chunks, touched, failures>>
    /\ at' = [at EXCEPT ![c] = @ + 1]
    /\ To(c, IF at'[c] = K + M THEN "idle" ELSE "ec put")
    /\ UNCHANGED <<requestVars, filled, got>>

-----------------------------------------------------------------------------
(* A GET, of the chunks of any PUT or of none. *)
BeginGet(c) ==
    /\ \E o \in Reqs \cup {NoReq}, asks \in BOOLEAN : Headers(c, o, asks)
    /\ To(c, "get")

(* The data go to the client.  Without any, as of a range of size 0, the   *)
(* loops that wait for the end of the stream never see it.                 *)
Deliver(c, u) ==
    IF chunks[u].part = "empty" \/ ~range[Handler(c)]
    THEN To(c, "stuck") /\ UNCHANGED got
    ELSE To(c, "idle") /\ got' = [got EXCEPT ![c] = {chunks[u].by}]

(* A rawx has nothing at url u, or fails. *)
Misses(c, u) ==
    /\ \/ chunks[u] = Nothing /\ UNCHANGED failures
       \/ failures < MaxFailures /\ failures' = failures + 1

PlainGet(c) ==
    /\ pc[c] = "get" /\ RawxUrl(c) # NoReq
    /\ LET u == <<RawxUrl(c), 0>> IN
       /\ touched' = [touched EXCEPT ![c] = {u}]
       /\ \/ Misses(c, u) /\ To(c, "idle") /\ UNCHANGED got
          \/ chunks[u] # Nothing /\ Deliver(c, u) /\ UNCHANGED failures
    /\ UNCHANGED <<requestVars, filled, at, chunks>>

(* One target of EcDownload::Prepare.  It asks for an empty range of each  *)
(* fragment (EcBlob): nothing decodes, and after the last target the GET   *)
(* is answered an error.                                                   *)
EcGet(c) ==
    /\ pc[c] = "get" /\ RawxUrl(c) = NoReq
    /\ LET o == Targets(c)[at[c]] IN
       touched' = [touched EXCEPT ![c] = IF o = NoReq THEN @ ELSE @ \cup {<<o, at[c]>>}]
    /\ at' = [at EXCEPT ![c] = @ + 1]
    /\ To(c, IF at'[c] = K + M THEN "idle" ELSE "get")
    /\ UNCHANGED <<requestVars, filled, chunks, got, failures>>

(* A rawx breaks the connection in the middle of its reply, and            *)
(* RawxDownload::Read waits for ever for the end of it.                    *)
GetBreaks(c) ==
    /\ pc[c] = "get" /\ (RawxUrl(c) # NoReq \/ Targets(c)[at[c]] # NoReq)
    /\ failures < MaxFailures /\ failures' = failures + 1
    /\ To(c, "broken")
    /\ UNCHANGED <<requestVars, filled, at, chunks, touched, got>>

-----------------------------------------------------------------------------
Step(c) ==
    \/ BeginPut(c) \/ Write(c) \/ Commit(c) \/ PlainPut(c) \/ EcPut(c)
    \/ BeginGet(c) \/ PlainGet(c) \/ EcGet(c) \/ GetBreaks(c) \/ Disconnect(c)

Next == Runs /\ \E c \in Conns : Step(c)

Spec == Init /\ [][Next]_vars

-----------------------------------------------------------------------------
(* A request has only chunks stored or fetched that a request of its own   *)
(* connection named: none of another client, although all of them are      *)
(* served at once.  (Not only its own: the targets of requests before      *)
(* stay.)                                                                  *)
ConnectionOnly ==
    \A c \in Conns : \A u \in touched[c] : u[1] \in names[c]

(* Off the stripe, a request that names a chunk gets that one, whatever    *)
(* the connection was used for before.                                     *)
PlainIsOwn ==
    \A c \in Conns :
        named[c] # NoReq /\ RawxUrl(c) # NoReq => \A u \in touched[c] : u = <<named[c], 0>>

(* Unless a rawx breaks a reply, the process stops only at a PUT that is   *)
(* larger than a chunk, a GET on a connection that never gave a Range, or  *)
(* an empty chunk.                                                         *)
StopHasCause ==
    \A c \in Conns :
        pc[c] = "stuck" =>
            filled[c] = ChunkSize \/ ~asked[c] \/ \E u \in touched[c] : chunks[u].part = "empty"
=============================================================================
