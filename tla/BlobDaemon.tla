----------------------------- MODULE BlobDaemon -----------------------------
(***************************************************************************)
(* The HTTP daemon of bin/MillDaemon.cpp: BlobService accepts connections, *)
(* BlobClient drives one parser per connection, whose callbacks drive one  *)
(* upload, download or removal per request.  All requests name one blob of *)
(* a BlobStore, the promise of the backends.  An action is a callback of   *)
(* the parser: between two of them the coroutine may wait for the socket.  *)
(* The handler of a connection is that of bin/rawx-server.cpp.             *)
(***************************************************************************)
EXTENDS Naturals, FiniteSets, SequencesExt

CONSTANTS
    Conns,          \* the connections that are ever made
    NoBlob,         \* the name holds nothing
    MaxRequests,    \* bound: the requests of a connection
    MaxBody,        \* bound: the pieces of a body
    Faults          \* what backends and peers may do

ASSUME BoundsAssumption == MaxRequests \in Nat \ {0} /\ MaxBody \in Nat
ASSUME FaultsAssumption == Faults \subseteq {"badurl", "backend", "disconnect", "stop"}

VARIABLES
    conn,           \* where the parser of each connection is
    request,        \* the requests begun on it
    onComplete,     \* settings.on_message_complete
    defered,        \* defered_error is set
    object,         \* the operation the request was given, and its step
    bytesIn,        \* bytes_in
    replies,        \* what was answered: [req, code, bytes]
    stored,         \* the pieces each request wrote to its upload
    pending,        \* the request whose upload holds the name in the backend
    blob, verdict, opened,      \* the store
    running,        \* *flag_running
    xattrs,         \* the handler of each connection: who gave the attribute it keeps
    attribute       \* history: the one the upload of each request was given

handlerVars == <<xattrs, attribute>>
store == <<blob, verdict, opened, pending, stored>>
vars == <<conn, request, onComplete, defered, object, bytesIn, replies, store,
          running, handlerVars>>

Requests == Conns \X (1 .. MaxRequests)
Backend == INSTANCE BlobStore WITH Uploads <- Requests, Downloads <- Requests

Reply == [req : 1 .. MaxRequests, code : {200, 201, 400, 403, 404, 406, 500}, bytes : Nat]

TypeOK ==
    /\ conn \in [Conns -> {"new", "idle", "url", "headers", "body", "skip", "garbage", "closed"}]
    /\ request \in [Conns -> 0 .. MaxRequests]
    /\ onComplete \in [Conns -> {"ignore", "upload", "download", "removal"}]
    /\ defered \in [Conns -> BOOLEAN]
    /\ object \in [Conns -> {"none", "init", "prepared", "done"}]
    /\ bytesIn \in [Conns -> 0 .. MaxRequests * MaxBody]
    /\ replies \in [Conns -> Seq(Reply)]
    /\ stored \in [Requests -> 0 .. MaxBody]
    /\ pending \in Requests \cup {NoBlob}
    /\ blob \in Requests \cup {NoBlob}
    /\ running \in BOOLEAN
    /\ xattrs \in [Conns -> Requests \cup {NoBlob}]
    /\ attribute \in [Requests -> Requests \cup {NoBlob}]

Init ==
    /\ conn = [c \in Conns |-> "new"]
    /\ request = [c \in Conns |-> 0]
    /\ onComplete = [c \in Conns |-> "ignore"]
    /\ defered = [c \in Conns |-> FALSE]
    /\ object = [c \in Conns |-> "none"]
    /\ bytesIn = [c \in Conns |-> 0]
    /\ replies = [c \in Conns |-> <<>>]
    /\ stored = [q \in Requests |-> 0]
    /\ pending = NoBlob
    /\ Backend!StoreInit
    /\ running = TRUE
    /\ xattrs = [c \in Conns |-> NoBlob]
    /\ attribute = [q \in Requests |-> NoBlob]

-----------------------------------------------------------------------------
Self(c) == <<c, request[c]>>
To(c, pc) == conn' = [conn EXCEPT ![c] = pc]
Set(c, callback, step) ==
    /\ onComplete' = [onComplete EXCEPT ![c] = callback]
    /\ object' = [object EXCEPT ![c] = step]
Answer(c, code) ==
    replies' = [replies EXCEPT ![c] =
        Append(@, [req |-> request[c], code |-> code, bytes |-> bytesIn[c]])]

(* BlobService::Run: a connection comes.  The loop tests the pointer it was *)
(* given and not the flag: it goes on for ever.                             *)
Accept(c) ==
    /\ conn[c] = "new"
    /\ To(c, "idle")
    /\ UNCHANGED <<request, onComplete, defered, object, bytesIn, replies, store,
                   running, handlerVars>>

(* _on_message_begin_COMMON: Reset.  An operation left by the request       *)
(* before is destroyed; the counters and the handler are kept.              *)
MessageBegin(c) ==
    /\ conn[c] = "idle" /\ request[c] < MaxRequests
    /\ request' = [request EXCEPT ![c] = @ + 1]
    /\ Set(c, "ignore", "none")
    /\ defered' = [defered EXCEPT ![c] = FALSE]
    /\ To(c, "url")
    /\ UNCHANGED <<bytesIn, replies, store, running, handlerVars>>

(* RawxHandler::SetUrl: whether it finds a chunk id. *)
SetUrl == IF "badurl" \in Faults THEN {"ok", "bad"} ELSE {"ok"}

SaveError(c, err) == defered' = [defered EXCEPT ![c] = (err = "bad")]

(* _on_url_COMMON *)
Url(c) ==
    /\ conn[c] = "url"
    /\ \E err \in SetUrl : SaveError(c, err)
    /\ To(c, "headers")
    /\ UNCHANGED <<request, onComplete, object, bytesIn, replies, store, running, handlerVars>>

(* Mutant of SetHeader: one handler for the whole repository. *)
SetHeaderOfAll(c) == xattrs' = [k \in Conns |-> Self(c)]

(* RawxHandler::SetHeader, with an attribute it knows.  Nothing forgets it. *)
SetHeader(c) == xattrs' = [xattrs EXCEPT ![c] = Self(c)]

(* _on_header_value_COMMON, for a header or a trailer: the trailers of an  *)
(* upload come after it was given its attributes.                          *)
Header(c) ==
    /\ conn[c] \in {"headers", "body"} /\ ~defered[c]
    /\ SetHeader(c)
    /\ UNCHANGED <<conn, request, onComplete, defered, object, bytesIn, replies, store,
                   running, attribute>>

(* RawxHandler::GetUpload: SetXattr with what the handler keeps. *)
GetUpload(c) ==
    /\ attribute' = [attribute EXCEPT ![Self(c)] = xattrs[c]]
    /\ UNCHANGED xattrs

-----------------------------------------------------------------------------
(* The end of the headers.  A callback that returns 1 makes the parser skip *)
(* the body, and call on_message_complete as for any message.               *)

(* Mutant of RefuseRequest: an error without a reply. *)
RefuseSilently(c) ==
    /\ conn[c] = "headers"
    /\ To(c, "skip")
    /\ UNCHANGED <<request, onComplete, defered, object, bytesIn, replies, store, running, handlerVars>>

(* A bad URL, or a method the daemon does not know. *)
RefuseRequest(c) ==
    /\ conn[c] = "headers"
    /\ Answer(c, IF defered[c] THEN 400 ELSE 406)
    /\ To(c, "skip")
    /\ UNCHANGED <<request, onComplete, defered, object, bytesIn, store, running, handlerVars>>

(* _on_headers_complete_UPLOAD, Prepare succeeds. *)
StartUpload(c) ==
    /\ conn[c] = "headers" /\ ~defered[c]
    /\ pending = NoBlob /\ blob = NoBlob
    /\ GetUpload(c)
    /\ pending' = Self(c)
    /\ Set(c, "upload", "prepared")
    /\ To(c, "body")
    /\ UNCHANGED <<request, defered, bytesIn, replies, blob, verdict, opened,
                   stored, running>>

(* Mutant of RefuseUpload: the body is not skipped. *)
RefuseUploadAndRead(c) ==
    /\ conn[c] = "headers" /\ ~defered[c]
    /\ pending # NoBlob \/ blob # NoBlob
    /\ Answer(c, 406)
    /\ Set(c, "upload", "init")
    /\ To(c, "body")
    /\ GetUpload(c)
    /\ UNCHANGED <<request, defered, bytesIn, store, running>>

(* Prepare fails.  Only a Forbidden makes the end of the message ignored. *)
RefuseUpload(c) ==
    /\ conn[c] = "headers" /\ ~defered[c]
    /\ \/ /\ "backend" \in Faults
          /\ Answer(c, 403)
          /\ Set(c, "ignore", "init")
       \/ /\ pending # NoBlob \/ blob # NoBlob
          /\ Answer(c, 406)
          /\ Set(c, "upload", "init")
    /\ To(c, "skip")
    /\ GetUpload(c)
    /\ UNCHANGED <<request, defered, bytesIn, store, running>>

(* _on_headers_complete_DOWNLOAD: the reply begins, or nothing follows. *)
StartDownload(c) ==
    /\ conn[c] = "headers" /\ ~defered[c]
    /\ IF blob # NoBlob
       THEN /\ Backend!Open(Self(c))
            /\ Answer(c, 200)
            /\ Set(c, "download", "prepared")
            /\ To(c, "body")
       ELSE /\ Answer(c, 404)
            /\ Set(c, "ignore", "init")
            /\ To(c, "skip")
            /\ UNCHANGED <<blob, verdict, opened>>
    /\ UNCHANGED <<request, defered, bytesIn, pending, stored, running, handlerVars>>

(* _on_headers_complete_REMOVAL *)
StartRemoval(c) ==
    /\ conn[c] = "headers" /\ ~defered[c]
    /\ IF blob # NoBlob
       THEN /\ Set(c, "removal", "prepared")
            /\ To(c, "body")
            /\ UNCHANGED replies
       ELSE /\ Answer(c, 404)
            /\ Set(c, "removal", "init")
            /\ To(c, "skip")
    /\ UNCHANGED <<request, defered, bytesIn, store, running, handlerVars>>

-----------------------------------------------------------------------------
(* _on_body_UPLOAD: checksum, bytes_in, Write. *)
Body(c) ==
    /\ conn[c] = "body" /\ onComplete[c] = "upload"
    /\ stored[Self(c)] < MaxBody
    /\ bytesIn' = [bytesIn EXCEPT ![c] = @ + 1]
    /\ stored' = [stored EXCEPT ![Self(c)] = @ + 1]
    /\ UNCHANGED <<conn, request, onComplete, defered, object, replies, blob, verdict,
                   opened, pending, running, handlerVars>>

(* The body of a request that was refused before it was read is what the   *)
(* parser takes for the next request.                                       *)
AfterMessage(c) ==
    IF conn[c] = "skip" THEN To(c, "idle") \/ To(c, "garbage") ELSE To(c, "idle")

(* Mutant of CompleteUpload: the Commit of an upload that is not prepared succeeds. *)
CompleteUnprepared(c) ==
    /\ conn[c] \in {"body", "skip"} /\ onComplete[c] = "upload"
    /\ IF blob = NoBlob
       THEN Backend!Publish(Self(c)) /\ Answer(c, 201)
       ELSE Answer(c, 500) /\ UNCHANGED <<blob, verdict, opened>>
    /\ pending' = NoBlob
    /\ AfterMessage(c)
    /\ Set(c, "upload", "done")
    /\ UNCHANGED <<request, defered, bytesIn, stored, running, handlerVars>>

(* _on_message_complete_UPLOAD: Commit, and a reply whatever it says.  An   *)
(* upload that was not prepared answers InternalError.                      *)
CompleteUpload(c) ==
    /\ conn[c] \in {"body", "skip"} /\ onComplete[c] = "upload"
    /\ \/ /\ object[c] = "prepared"
          /\ Backend!Publish(Self(c))
          /\ pending' = NoBlob
          /\ Answer(c, 201)
       \/ /\ object[c] = "prepared" /\ "backend" \in Faults
          /\ Backend!GiveUp(Self(c), "failed")
          /\ pending' = NoBlob
          /\ Answer(c, 500)
       \/ /\ object[c] # "prepared"
          /\ Answer(c, 500)
          /\ UNCHANGED <<pending, blob, verdict, opened>>
    /\ AfterMessage(c)
    /\ Set(c, "upload", "done")
    /\ UNCHANGED <<request, defered, bytesIn, stored, running, handlerVars>>

(* _on_message_complete_DOWNLOAD: the stream goes on to its end. *)
CompleteDownload(c) ==
    /\ conn[c] = "body" /\ onComplete[c] = "download"
    /\ To(c, "idle")
    /\ Set(c, "download", "done")
    /\ UNCHANGED <<request, defered, bytesIn, replies, store, running, handlerVars>>

(* _on_message_complete_REMOVAL: an error also ends the connection. *)
CompleteRemoval(c) ==
    /\ conn[c] \in {"body", "skip"} /\ onComplete[c] = "removal"
    /\ IF object[c] = "prepared" /\ blob # NoBlob
       THEN /\ Backend!Remove
            /\ Answer(c, 200)
            /\ AfterMessage(c)
       ELSE /\ Answer(c, 500)
            /\ To(c, "closed")
            /\ UNCHANGED <<blob, verdict, opened>>
    /\ Set(c, "removal", "done")
    /\ UNCHANGED <<request, defered, bytesIn, pending, stored, running, handlerVars>>

(* _on_IGNORE *)
CompleteIgnored(c) ==
    /\ conn[c] \in {"body", "skip"} /\ onComplete[c] = "ignore"
    /\ AfterMessage(c)
    /\ UNCHANGED <<request, onComplete, defered, object, bytesIn, replies, store,
                   running, handlerVars>>

Open == {"idle", "url", "headers", "body", "garbage"}

(* BlobClient::Run ends while it waits for bytes: the peer left, was silent *)
(* for a second or sent no HTTP, or the daemon stops.  What the request had *)
(* started is destroyed: no Abort.                                          *)
Close(c) ==
    /\ conn[c] \in Open
    /\ "disconnect" \in Faults \/ ~running \/ conn[c] = "garbage"
    /\ To(c, "closed")
    /\ UNCHANGED <<request, onComplete, defered, object, bytesIn, replies, store,
                   running, handlerVars>>

(* The signal handlers of the daemons. *)
Stop ==
    /\ "stop" \in Faults /\ running
    /\ running' = FALSE
    /\ UNCHANGED <<conn, request, onComplete, defered, object, bytesIn, replies,
                   store, handlerVars>>

Next ==
    \/ \E c \in Conns :
          \/ Accept(c) \/ MessageBegin(c) \/ Url(c) \/ Header(c)
          \/ RefuseRequest(c) \/ StartUpload(c) \/ RefuseUpload(c)
          \/ StartDownload(c) \/ StartRemoval(c)
          \/ Body(c) \/ CompleteUpload(c) \/ CompleteDownload(c) \/ CompleteRemoval(c)
          \/ CompleteIgnored(c) \/ Close(c)
    \/ Stop

Spec == Init /\ [][Next]_vars

-----------------------------------------------------------------------------
(* Properties *)

AnswersTo(c, r) == {i \in DOMAIN replies[c] : replies[c][i].req = r}

(* No request is left without a reply when its connection goes on to the    *)
(* next one, by whichever of the refusals, callbacks and errors it went     *)
(* (SaveError, the callbacks that return 1, the callbacks set to ignore).   *)
EveryRequestIsAnswered ==
    \A c \in Conns : conn[c] \in {"idle", "garbage"} =>
        \A r \in 1 .. request[c] : AnswersTo(c, r) # {}

(* A request that was told of an error has stored nothing, although its     *)
(* message completes and commits all the same, and other connections write  *)
(* and remove the blob meanwhile (lines 72-74 and 116-139).                 *)
RefusedIsNotStored ==
    \A c \in Conns : \A i \in DOMAIN replies[c] :
        replies[c][i].code \in {400, 403, 404, 406, 500} =>
            verdict[<<c, replies[c][i].req>>] # "stored"

(* Upload::Write asserts that the upload is prepared (local/blob.cpp:414):  *)
(* the parser is never left in the body of an upload that is not, and the   *)
(* name is held by that very request until its message completes.           *)
BodyNeedsUpload ==
    \A c \in Conns : conn[c] = "body" /\ onComplete[c] = "upload" =>
        object[c] = "prepared" /\ pending = Self(c) /\ blob = NoBlob

(* An upload never has an attribute of another connection, nor of a request *)
(* that came after its own, although the handler keeps those of every       *)
(* request, refused ones and trailers included (rawx-server.cpp:80-97), and *)
(* the connections share the repository and the name.                       *)
AttributesAreLocal ==
    \A q \in Requests : attribute[q] # NoBlob =>
        attribute[q][1] = q[1] /\ attribute[q][2] <= q[2]

(* "Trigger a reply to the client" (line 123): one reply per request.  It   *)
(* does not hold: an upload or a removal refused at its headers is replied  *)
(* to again when its message completes.                                     *)
OneReplyPerRequest ==
    \A c \in Conns : \A r \in 1 .. request[c] : Cardinality(AnswersTo(c, r)) <= 1
=============================================================================
