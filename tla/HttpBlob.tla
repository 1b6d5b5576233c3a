------------------------------ MODULE HttpBlob ------------------------------
(***************************************************************************)
(* The operations on the chunks of a rawx (oio/blob/http/blob.cpp inside   *)
(* the wrappers of oio/blob/rawx/blob.cpp) over the HTTP client of         *)
(* utils/http.cpp.  The owner of an operation asks the SocketMap for the   *)
(* socket, builds the operation, prepares it, writes or reads, and commits *)
(* or aborts.  A send or a read that waits lets other coroutines run: each *)
(* is an action.  A method called in the wrong step answers InternalError  *)
(* and does nothing; it has no action.                                     *)
(***************************************************************************)
EXTENDS HttpConnection

CONSTANT Chunks     \* the most writes an upload makes

ASSUME ChunksAssumption == Chunks \in Nat

VARIABLES
    kind,       \* upload, download or removal
    step,       \* where each operation is
    status,     \* the status its parser saw last
    verdict,    \* what its owner was told
    buf,        \* Reply::ctx.buffer: what it read and did not parse yet
    heard,      \* history: whose replies it parsed
    sent        \* history: what it was asked to write

replyVars == <<status, buf, heard>>
opVars == <<kind, step, verdict, replyVars, sent>>
vars == <<connVars, mapVars, histVars, executed, opVars>>

Kinds == {"upload", "download", "removal"}
Steps == {"idle", "built", "continue", "prepared", "final", "rest", "reading", "done"}
Verdicts == {"none", "unprepared", "ok", "failed", "aborted", "read"}

TypeOK ==
    /\ ConnTypeOK
    /\ kind \in [Ops -> Kinds] /\ step \in [Ops -> Steps] /\ verdict \in [Ops -> Verdicts]
    /\ status \in [Ops -> Codes \cup {"none"}] /\ buf \in [Ops -> Seq(Units)]
    /\ heard \in [Ops -> SUBSET (Ops \cup {NoOp})] /\ sent \in [Ops -> 0 .. Chunks]

Init ==
    /\ ConnInit
    /\ kind \in [Ops -> Kinds]
    /\ step = [o \in Ops |-> "idle"] /\ verdict = [o \in Ops |-> "none"]
    /\ status = [o \in Ops |-> "none"] /\ buf = [o \in Ops |-> <<>>]
    /\ heard = [o \in Ops |-> {}] /\ sent = [o \in Ops |-> 0]

InSession == {o \in Ops : step[o] \notin {"idle", "done"}}

Go(o, s) == step' = [step EXCEPT ![o] = s] /\ UNCHANGED <<kind, verdict, sent>>

End(o, v) ==
    /\ step' = [step EXCEPT ![o] = "done"]
    /\ verdict' = [verdict EXCEPT ![o] = v]
    /\ UNCHANGED <<kind, sent>>

-----------------------------------------------------------------------------
(* Reply: the input of the parser. *)

(* consumeInput with something to read: what is in the buffer first, else  *)
(* what one read of the socket brings.                                     *)
HasInput(o) == buf[o] # <<>> \/ wire # <<>>
Input(o) == IF buf[o] # <<>> THEN Head(buf[o]) ELSE Head(wire)

Parse(o) ==
    /\ HasInput(o)
    /\ heard' = [heard EXCEPT ![o] = @ \cup {Input(o).of}]
    /\ status' = [status EXCEPT ![o] = IF Input(o).part = "rest" THEN @ ELSE Input(o).part]

TakeInput(o) ==
    IF buf[o] # <<>>
        THEN buf' = [buf EXCEPT ![o] = Tail(@)] /\ UNCHANGED wire
        ELSE \E k \in 1 .. Len(wire) :
                /\ buf' = [buf EXCEPT ![o] = SubSeq(wire, 2, k)]
                /\ wire' = SubSeq(wire, k + 1, Len(wire))

Reads(o) ==
    /\ Parse(o) /\ TakeInput(o)
    /\ UNCHANGED <<link, open, todo, orphans, executed, mapVars, histVars>>

(* The same before skipAndReturn, which closes the connection: Skip reads  *)
(* on, Abort closes.                                                       *)
ReadsAndCloses(o) ==
    /\ Parse(o) /\ buf' = [buf EXCEPT ![o] = <<>>]
    /\ Close
    /\ UNCHANGED <<executed, mapVars, histVars>>

(* consumeInput that fails: at its deadline, or with the connection. *)
ReadFails(o) ==
    /\ buf[o] = <<>> /\ ReadLateOrBroken(o)
    /\ UNCHANGED <<executed, histVars, replyVars>>

(* The steps of the wrappers and of the operations inside them: a method   *)
(* does nothing in another step.                                           *)
UploadAt(o, s) == kind[o] = "upload" /\ step[o] = s
RemovalAt(o, s) == kind[o] = "removal" /\ step[o] = s
DownloadAt(o, s) == kind[o] = "download" /\ step[o] = s

Closes == Close /\ UNCHANGED <<executed, mapVars, histVars, replyVars>>
Unchanged == UNCHANGED <<executed, mapVars, replyVars>>

-----------------------------------------------------------------------------
(* EcCommand and the tests: the socket of the host, then the builder. *)
Build(o) ==
    /\ step[o] = "idle"
    /\ \/ GetSocket(o, InSession) /\ Go(o, "built")
       \/ GetNoSocket(o) /\ End(o, "unprepared")
    /\ UNCHANGED <<executed, replyVars>>

(* Prepare of a removal or a download reconnects a socket that was closed. *)
Reconnect(o) ==
    /\ step[o] = "built" /\ kind[o] # "upload" /\ link = "closed"
    /\ \/ Connect /\ clean' = (InSession = {o} \/ clean) /\ Go(o, "built")
          /\ UNCHANGED <<mixed, replyVars>> /\ UNCHANGED <<executed, mapVars>>
       \/ Closes /\ End(o, "unprepared")

(* Mutant of PrepareRemoval: a removal is built with the Content-Length of a download. *)
PrepareWhole(o) ==
    /\ RemovalAt(o, "built")
    /\ Sends(HearsWhole, o) /\ Go(o, "continue") /\ Unchanged

(* Prepare of a removal or a download closes the connection when it fails. *)
Fails(o) == link # "closed" /\ Closes /\ End(o, "unprepared")

(* Prepare of a removal: WriteHeaders, with Expect. *)
PrepareRemoval(o) ==
    /\ RemovalAt(o, "built")
    /\ (Sends(HearsExpect, o) /\ Go(o, "continue") /\ Unchanged) \/ Fails(o)

(* Prepare of a download: WriteHeaders and FinishRequest. *)
PrepareDownload(o) ==
    /\ DownloadAt(o, "built")
    /\ (Sends(HearsWhole, o) /\ Go(o, "final") /\ Unchanged) \/ Fails(o)

(* Prepare of an upload: WriteHeaders. *)
PrepareUpload(o) ==
    /\ UploadAt(o, "built")
    /\ \/ Sends(HearsBody, o) /\ Go(o, "prepared")
       \/ (SendFails \/ SendCut(o)) /\ End(o, "unprepared")
    /\ Unchanged

(* Prepare of a removal: ReadHeaders(100). *)
ReadContinue(o) ==
    /\ RemovalAt(o, "continue")
    /\ \/ HasInput(o) /\ Input(o).part = "100" /\ Reads(o) /\ Go(o, "prepared")
       \/ HasInput(o) /\ Input(o).part # "100" /\ ReadsAndCloses(o) /\ End(o, "unprepared")
       \/ ReadFails(o) /\ Close /\ End(o, "unprepared")

(* Write of an upload: its errors are ignored. *)
Write(o) ==
    /\ UploadAt(o, "prepared") /\ sent[o] < Chunks
    /\ Sends(HearsChunk, o) \/ SendFails \/ SendCut(o)
    /\ sent' = [sent EXCEPT ![o] = @ + 1]
    /\ UNCHANGED <<kind, step, verdict>> /\ Unchanged

(* Commit: FinishRequest. *)
CommitUpload(o) ==
    /\ UploadAt(o, "prepared")
    /\ \/ Sends(HearsEnd, o) /\ Go(o, "final")
       \/ (SendFails \/ SendCut(o)) /\ End(o, "failed")
    /\ Unchanged

CommitRemoval(o) ==
    /\ RemovalAt(o, "prepared")
    /\ \/ Sends(HearsEnd, o) /\ Go(o, "final") /\ Unchanged
       \/ Closes /\ End(o, "failed")

(* Commit of a removal: ReadHeaders(Final). *)
RemovalReply(o) ==
    /\ RemovalAt(o, "final")
    /\ \/ HasInput(o) /\ Input(o).part = "200" /\ Reads(o) /\ Go(o, "rest")
       \/ HasInput(o) /\ Input(o).part # "200" /\ ReadsAndCloses(o) /\ End(o, "failed")
       \/ ReadFails(o) /\ Close /\ End(o, "failed")

(* Then Skip, for 4 seconds: the connection is kept whatever remains. *)
RemovalSkip(o) ==
    /\ RemovalAt(o, "rest")
    /\ \/ Reads(o)
       \/ /\ buf[o] = <<>>
          /\ clean' = (clean /\ link # "up") /\ Unread
          /\ UNCHANGED <<mapVars, executed, mixed, replyVars>>
    /\ End(o, "ok")

(* Commit of an upload: ReadHeaders, then AppendBody until it fails.  The  *)
(* connection is kept, and only the status counts.                         *)
UploadReply(o) ==
    /\ UploadAt(o, "final")
    /\ \/ HasInput(o) /\ Input(o).part # "rest" /\ Reads(o) /\ Go(o, "rest")
       \/ HasInput(o) /\ Input(o).part = "rest" /\ Reads(o) /\ End(o, "failed")
       \/ ReadFails(o) /\ Unread /\ End(o, "failed")

(* Mutant of UploadRest: the status is not looked at. *)
UploadRestBlindly(o) ==
    /\ UploadAt(o, "rest")
    /\ Reads(o)
    /\ End(o, "ok")

UploadRest(o) ==
    /\ UploadAt(o, "rest")
    /\ Reads(o) \/ (ReadFails(o) /\ Unread)
    /\ End(o, IF status[o] = "200" THEN "ok" ELSE "failed")

(* Prepare of a download: ReadHeaders.  Any status but 404 is accepted. *)
DownloadReply(o) ==
    /\ DownloadAt(o, "final")
    /\ \/ HasInput(o) /\ Input(o).part \notin {"404", "rest"} /\ Reads(o) /\ Go(o, "reading")
       \/ HasInput(o) /\ Input(o).part \in {"404", "rest"} /\ ReadsAndCloses(o)
          /\ End(o, "unprepared")
       \/ ReadFails(o) /\ Close /\ End(o, "unprepared")

(* RawxDownload::Read: until the end of the body, whatever a Read says. *)
Read(o) ==
    /\ DownloadAt(o, "reading")
    /\ \/ Reads(o) /\ End(o, "read")
       \/ ReadFails(o) /\ Unread /\ Go(o, "reading")

AbortUpload(o) ==
    /\ UploadAt(o, "prepared")
    /\ Closes /\ End(o, "aborted")

AbortRemoval(o) ==
    /\ RemovalAt(o, "prepared")
    /\ IF link = "closed"
       THEN UNCHANGED <<connVars, histVars>> /\ Unchanged /\ End(o, "failed")
       ELSE Closes /\ End(o, "aborted")

Next ==
    \/ \E o \in Ops :
          \/ Build(o) \/ Reconnect(o)
          \/ PrepareUpload(o) \/ Write(o) \/ CommitUpload(o) \/ UploadReply(o) \/ UploadRest(o)
          \/ AbortUpload(o)
          \/ PrepareRemoval(o) \/ ReadContinue(o) \/ CommitRemoval(o) \/ RemovalReply(o)
          \/ RemovalSkip(o) \/ AbortRemoval(o)
          \/ PrepareDownload(o) \/ DownloadReply(o) \/ Read(o)
    \/ Environment /\ UNCHANGED opVars

Spec == Init /\ [][Next]_vars

-----------------------------------------------------------------------------
(* Nobody takes the reply of another for its own: what an operation that   *)
(* saw only clean connections parsed answers its own request.  The socket  *)
(* is handed over with late replies on their way: the 8 seconds a read     *)
(* waits against the 5 of MAX_DELAY, and the Abort after an error, are     *)
(* what keeps them apart.  They do not after an upload whose body the      *)
(* rawx-server skipped: it is refused twice, HttpUpload keeps the socket   *)
(* after the first, and whoever asks for it within 5 seconds may read the  *)
(* second.  That one is in mixed.                                          *)
OwnReply == \A o \in Ops \ mixed : heard[o] \subseteq {o}

(* An upload or a removal that answers OK was carried out by the server,   *)
(* with every chunk that was written.                                      *)
OkIsDone ==
    \A o \in Ops \ mixed :
        verdict[o] = "ok" => \E r \in executed : r.op = o /\ r.chunks = sent[o]

(* The server carries out no upload and no removal before its Commit, and  *)
(* never one that was aborted.                                             *)
Undecided(o) ==
    \/ step[o] \in {"idle", "built", "continue", "prepared"}
    \/ verdict[o] \in {"unprepared", "aborted"}
CommitDecides ==
    \A r \in executed : r.op \notin mixed /\ kind[r.op] # "download" => ~Undecided(r.op)
=============================================================================
