-------------------------- MODULE BlobDaemonProofs --------------------------
(***************************************************************************)
(* Safety of BlobDaemon for any connections, requests, bodies and faults.  *)
(***************************************************************************)
EXTENDS BlobDaemon, TLAPS

ConnSteps == {"new", "idle", "url", "headers", "body", "skip", "garbage", "closed"}
Busy == {"url", "headers", "body", "skip"}
Errors == {400, 403, 404, 406, 500}

(* What the argument needs of the types. *)
DaemonTypes ==
    /\ conn \in [Conns -> ConnSteps] /\ request \in [Conns -> 0 .. MaxRequests]
    /\ onComplete \in [Conns -> {"ignore", "upload", "download", "removal"}]
    /\ object \in [Conns -> {"none", "init", "prepared", "done"}]
    /\ replies \in [Conns -> Seq([req : Int, code : Int, bytes : Int])]
    /\ bytesIn \in [Conns -> Int]
    /\ verdict \in [Requests -> {"none", "stored", "failed"}]
    /\ attribute \in [Requests -> Requests \cup {NoBlob}]
    /\ xattrs \in [Conns -> Requests \cup {NoBlob}]

(* The requests that were replied to, and those told of an error. *)
Told(c, r) == AnswersTo(c, r) # {}
Refused(c, r) ==
    \E i \in DOMAIN replies[c] : replies[c][i].req = r /\ replies[c][i].code \in Errors

(* All the requests but the one under way were replied to; it was, if it   *)
(* was refused or is downloading.                                          *)
ToldInv(c) ==
    /\ conn[c] \in {"new", "idle", "garbage"} => \A r \in 1 .. request[c] : Told(c, r)
    /\ conn[c] \in Busy => request[c] >= 1 /\ \A r \in 1 .. (request[c] - 1) : Told(c, r)
    /\ conn[c] = "skip" => Told(c, request[c])
    /\ conn[c] = "body" =>
          onComplete[c] # "ignore" /\ (onComplete[c] = "download" => Told(c, request[c]))

(* A request under way has no verdict yet; it commits an upload that is    *)
(* prepared only if it was not told of an error.                           *)
RefusalInv(c) ==
    /\ \A r : Refused(c, r) => r \in 1 .. request[c] /\ verdict[<<c, r>>] # "stored"
    /\ conn[c] \in {"url", "headers", "body"} => ~Refused(c, request[c])
    /\ conn[c] \in Busy => verdict[<<c, request[c]>>] = "none"
    /\ \A r \in 1 .. MaxRequests : r > request[c] => verdict[<<c, r>>] = "none"
    /\ conn[c] \in {"url", "headers"} => onComplete[c] = "ignore"
    /\ conn[c] = "skip" => object[c] = "init" \/ onComplete[c] = "ignore"
    /\ conn[c] = "body" => object[c] = "prepared"

(* The name is held by the request whose body comes. *)
HoldInv ==
    \A c \in Conns : conn[c] = "body" /\ onComplete[c] = "upload" =>
        pending = Self(c) /\ blob = NoBlob

(* What a handler keeps came with this request of the connection, or with  *)
(* an earlier one.                                                         *)
HandlerInv ==
    \A c \in Conns : xattrs[c] # NoBlob => xattrs[c][1] = c /\ xattrs[c][2] <= request[c]

IInv ==
    /\ DaemonTypes
    /\ \A c \in Conns : ToldInv(c) /\ RefusalInv(c)
    /\ HoldInv /\ HandlerInv /\ AttributesAreLocal

-----------------------------------------------------------------------------
USE DEF ConnSteps, Busy, Errors, Self, To, Set, Requests

(* A reply is one more, to the request under way. *)
LEMMA AnswerAdds ==
    ASSUME DaemonTypes, NEW c \in Conns, NEW code \in Int, Answer(c, code)
    PROVE  /\ replies' \in [Conns -> Seq([req : Int, code : Int, bytes : Int])]
           /\ \A d \in Conns \ {c} : replies'[d] = replies[d]
           /\ \A r : Told(c, r)' <=> Told(c, r) \/ r = request[c]
           /\ \A r : Refused(c, r)' <=> Refused(c, r) \/ (r = request[c] /\ code \in Errors)
<1> DEFINE e == [req |-> request[c], code |-> code, bytes |-> bytesIn[c]]
<1>1. e \in [req : Int, code : Int, bytes : Int]
  BY BoundsAssumption DEF DaemonTypes
<1>2. /\ replies[c] \in Seq([req : Int, code : Int, bytes : Int])
      /\ replies' = [replies EXCEPT ![c] = Append(@, e)]
  BY DEF DaemonTypes, Answer
<1>3. replies'[c] = Append(replies[c], e)
  BY <1>2 DEF DaemonTypes
<1>4. e.req = request[c] /\ e.code = code
  OBVIOUS
<1> HIDE DEF e
<1>5. /\ DOMAIN replies[c] = 1 .. Len(replies[c]) /\ Len(replies[c]) \in Nat
      /\ DOMAIN replies'[c] = 1 .. (Len(replies[c]) + 1)
      /\ replies'[c][Len(replies[c]) + 1] = e
      /\ \A i \in DOMAIN replies[c] : replies'[c][i] = replies[c][i]
  BY SMTT(30), <1>1, <1>2, <1>3
<1>6. \A i : i \in DOMAIN replies'[c] <=> i \in DOMAIN replies[c] \/ i = Len(replies[c]) + 1
  BY <1>5
<1>7. \A r : Told(c, r)' <=> Told(c, r) \/ r = request[c]
  BY <1>4, <1>5, <1>6 DEF Told, AnswersTo
<1>8. \A r : Refused(c, r)' <=> Refused(c, r) \/ (r = request[c] /\ code \in Errors)
  <2> SUFFICES ASSUME NEW r
               PROVE  Refused(c, r)' <=> Refused(c, r) \/ (r = request[c] /\ code \in Errors)
    OBVIOUS
  <2> HIDE DEF Errors
  <2>1. /\ Refused(c, r) <=> \E i \in DOMAIN replies[c] :
                                replies[c][i].req = r /\ replies[c][i].code \in Errors
        /\ Refused(c, r)' <=> \E i \in DOMAIN replies'[c] :
                                 replies'[c][i].req = r /\ replies'[c][i].code \in Errors
    BY Zenon DEF Refused
  <2>2. ASSUME Refused(c, r)'
        PROVE  Refused(c, r) \/ (r = request[c] /\ code \in Errors)
    BY <1>4, <1>5, <1>6, <2>1, <2>2
  <2>3. ASSUME Refused(c, r)
        PROVE  Refused(c, r)'
    BY <1>5, <1>6, <2>1, <2>3
  <2>4. ASSUME r = request[c], code \in Errors
        PROVE  Refused(c, r)'
    BY <1>4, <1>5, <1>6, <2>1, <2>4
  <2> QED
    BY <2>2, <2>3, <2>4
<1>9. \A d \in Conns \ {c} : replies'[d] = replies[d]
  BY <1>2 DEF DaemonTypes
<1>10. replies' \in [Conns -> Seq([req : Int, code : Int, bytes : Int])]
  BY <1>1, <1>2 DEF DaemonTypes
<1> QED
  BY <1>7, <1>8, <1>9, <1>10

(* A step of connection c leaves the others alone. *)
Apart(c) ==
    /\ \A d \in Conns \ {c} :
          /\ conn'[d] = conn[d] /\ request'[d] = request[d] /\ onComplete'[d] = onComplete[d]
          /\ object'[d] = object[d] /\ replies'[d] = replies[d] /\ xattrs'[d] = xattrs[d]
          /\ \A r \in 1 .. MaxRequests : verdict'[<<d, r>>] = verdict[<<d, r>>]
    /\ \A q \in Requests : q[1] # c => attribute'[q] = attribute[q]

LEMMA OthersKeep ==
    ASSUME IInv, NEW c \in Conns, Apart(c), NEW d \in Conns \ {c}
    PROVE  ToldInv(d)' /\ RefusalInv(d)'
<1>1. /\ conn'[d] = conn[d] /\ request'[d] = request[d] /\ onComplete'[d] = onComplete[d]
      /\ object'[d] = object[d] /\ replies'[d] = replies[d]
      /\ \A r \in 1 .. MaxRequests : verdict'[<<d, r>>] = verdict[<<d, r>>]
  BY DEF Apart
<1>2. \A r : (Told(d, r)' <=> Told(d, r)) /\ (Refused(d, r)' <=> Refused(d, r))
  BY <1>1 DEF Told, AnswersTo, Refused
<1>3. ToldInv(d) /\ RefusalInv(d) /\ request[d] \in 0 .. MaxRequests
  BY DEF IInv, DaemonTypes
<1>4. ToldInv(d)'
  BY <1>1, <1>2, <1>3 DEF ToldInv
<1>5. \A r \in 1 .. request[d] : verdict'[<<d, r>>] = verdict[<<d, r>>]
  BY <1>1, <1>3, BoundsAssumption
<1>6. conn[d] \in Busy => request[d] \in 1 .. request[d]
  BY <1>3 DEF ToldInv
<1>7. RefusalInv(d)'
  BY <1>1, <1>2, <1>3, <1>5, <1>6 DEF RefusalInv
<1> QED
  BY <1>4, <1>7

LEMMA NoAnswer ==
    ASSUME UNCHANGED replies, NEW c \in Conns, NEW r
    PROVE  (Told(c, r)' <=> Told(c, r)) /\ (Refused(c, r)' <=> Refused(c, r))
BY DEF Told, AnswersTo, Refused

(* What every step of a connection owes. *)
StepOf(c) ==
    /\ DaemonTypes' /\ Apart(c)
    /\ ToldInv(c)' /\ RefusalInv(c)'
    /\ HoldInv' /\ HandlerInv' /\ AttributesAreLocal'

LEMMA StepOfInv == ASSUME IInv, NEW c \in Conns, StepOf(c) PROVE IInv'
<1>1. \A d \in Conns : ToldInv(d)' /\ RefusalInv(d)'
  BY OthersKeep DEF StepOf
<1> QED
  BY <1>1 DEF StepOf, IInv

(* Most steps leave the store and the handlers alone, and begin no upload. *)
LEMMA HoldKept ==
    ASSUME IInv, NEW c \in Conns, Apart(c), UNCHANGED <<pending, blob>>,
           request'[c] = request[c],
           conn'[c] = "body" /\ onComplete'[c] = "upload" => conn[c] = "body" /\ onComplete[c] = "upload"
    PROVE  HoldInv'
<1>1. SUFFICES ASSUME NEW d \in Conns, conn'[d] = "body", onComplete'[d] = "upload"
               PROVE  pending' = <<d, request'[d]>> /\ blob' = NoBlob
  BY DEF HoldInv
<1>2. CASE d = c
  BY <1>1, <1>2 DEF IInv, HoldInv
<1>3. CASE d # c
  BY <1>1, <1>3 DEF IInv, HoldInv, Apart
<1> QED
  BY <1>2, <1>3

LEMMA HandlerKept ==
    ASSUME IInv, UNCHANGED <<request, handlerVars>>
    PROVE  HandlerInv' /\ AttributesAreLocal'
BY DEF IInv, HandlerInv, AttributesAreLocal, handlerVars

-----------------------------------------------------------------------------
(* The steps without a reply. *)
LEMMA QuietStep ==
    ASSUME IInv, NEW c \in Conns,
           Accept(c) \/ Url(c) \/ Body(c) \/ CompleteDownload(c) \/ CompleteIgnored(c) \/ Close(c)
    PROVE  StepOf(c)
<1>1. PICK pc \in ConnSteps : conn' = [conn EXCEPT ![c] = pc]
  BY DEF Accept, Url, Body, CompleteDownload, CompleteIgnored, Close, AfterMessage, IInv, DaemonTypes
<1>2. /\ UNCHANGED <<request, replies, blob, pending, verdict, handlerVars>>
      /\ \/ UNCHANGED <<onComplete, object>>
         \/ Set(c, "download", "done") /\ pc = "idle"
      /\ bytesIn' \in [Conns -> Int]
  <2>1. bytesIn' \in [Conns -> Int]
    BY DEF IInv, DaemonTypes, Accept, Url, Body, CompleteDownload, CompleteIgnored, Close
  <2> QED
    BY <1>1, <2>1 DEF IInv, DaemonTypes, Accept, Url, Body, CompleteDownload,
                      CompleteIgnored, Close, store, AfterMessage
<1>3. DaemonTypes'
  BY <1>1, <1>2 DEF IInv, DaemonTypes, handlerVars
<1>4. Apart(c)
  BY <1>1, <1>2 DEF IInv, DaemonTypes, handlerVars, Apart
<1>5. \A r : (Told(c, r)' <=> Told(c, r)) /\ (Refused(c, r)' <=> Refused(c, r))
  BY <1>2, NoAnswer
<1>6. /\ conn'[c] = pc
      /\ pc = "body" => conn[c] = "body" /\ UNCHANGED <<onComplete, object>>
      /\ pc # "skip"
      /\ pc \in {"url", "headers"} => conn[c] = "url" /\ UNCHANGED onComplete
      /\ pc \in {"new", "idle", "garbage"} =>
            \/ conn[c] = "new"
            \/ conn[c] = "skip"
            \/ conn[c] = "body" /\ onComplete[c] \in {"download", "ignore"}
  BY <1>1, <1>2 DEF IInv, DaemonTypes, Accept, Url, Body, CompleteDownload, CompleteIgnored,
                    Close, AfterMessage
<1>7. ToldInv(c)'
  <2>1. ToldInv(c) /\ request'[c] = request[c] /\ request[c] \in 0 .. MaxRequests
    BY <1>2 DEF IInv, DaemonTypes
  <2>2. ASSUME pc \in {"new", "idle", "garbage"}, NEW r \in 1 .. request[c] PROVE Told(c, r)
    BY <1>6, <2>1, <2>2 DEF ToldInv
  <2> QED
    BY <1>5, <1>6, <2>1, <2>2 DEF ToldInv
<1>8. RefusalInv(c)'
  BY <1>2, <1>5, <1>6 DEF IInv, RefusalInv
<1> QED
  BY <1>2, <1>3, <1>4, <1>6, <1>7, <1>8, HoldKept, HandlerKept DEF StepOf

LEMMA BeginStep == ASSUME IInv, NEW c \in Conns, MessageBegin(c) PROVE StepOf(c)
<1>1. /\ conn[c] = "idle" /\ request[c] \in 0 .. MaxRequests /\ request[c] < MaxRequests
      /\ request' = [request EXCEPT ![c] = @ + 1] /\ conn' = [conn EXCEPT ![c] = "url"]
      /\ onComplete' = [onComplete EXCEPT ![c] = "ignore"]
      /\ object' = [object EXCEPT ![c] = "none"]
      /\ UNCHANGED <<replies, blob, pending, verdict, bytesIn, handlerVars>>
  BY DEF IInv, DaemonTypes, MessageBegin, store
<1>2. DaemonTypes'
  <2>1. request[c] + 1 \in 0 .. MaxRequests
    BY <1>1, BoundsAssumption
  <2> QED
    BY <1>1, <2>1 DEF IInv, DaemonTypes, handlerVars
<1>3. Apart(c)
  BY <1>1 DEF IInv, DaemonTypes, handlerVars, Apart
<1>4. \A r : (Told(c, r)' <=> Told(c, r)) /\ (Refused(c, r)' <=> Refused(c, r))
  BY <1>1, NoAnswer
<1>5. conn'[c] = "url" /\ request'[c] = request[c] + 1 /\ onComplete'[c] = "ignore"
  BY <1>1 DEF IInv, DaemonTypes
<1>6. ToldInv(c)'
  BY <1>1, <1>4, <1>5 DEF IInv, ToldInv
<1>7. RefusalInv(c)'
  <2>1. request[c] + 1 \in 1 .. MaxRequests /\ request[c] + 1 > request[c]
    BY <1>1, BoundsAssumption
  <2>2. verdict[<<c, request[c] + 1>>] = "none" /\ ~ Refused(c, request[c] + 1)
    <3>1. request[c] + 1 \notin 1 .. request[c]
      BY <1>1
    <3>2. RefusalInv(c)
      BY DEF IInv
    <3>3. ~ Refused(c, request[c] + 1)
      BY <3>1, <3>2 DEF RefusalInv
    <3>4. verdict[<<c, request[c] + 1>>] = "none"
      BY <2>1, <3>2 DEF RefusalInv
    <3> QED
      BY <3>3, <3>4
  <2>3. \A r \in 1 .. MaxRequests : r > request[c] + 1 => r > request[c]
    BY <1>1
  <2>4. \A r \in 1 .. request[c] : r \in 1 .. (request[c] + 1)
    BY <1>1
  <2> QED
    BY <1>1, <1>4, <1>5, <2>2, <2>3, <2>4 DEF IInv, RefusalInv
<1>8. HoldInv'
  BY <1>1, <1>5 DEF IInv, DaemonTypes, HoldInv
<1>9. HandlerInv' /\ AttributesAreLocal'
  <2>1. \A d \in Conns : request[d] \in Int /\ request'[d] \in Int /\ request[d] <= request'[d]
    BY <1>1, <1>5 DEF IInv, DaemonTypes
  <2>2. \A d \in Conns : xattrs[d] # NoBlob => xattrs[d] \in Conns \X (1 .. MaxRequests)
    BY DEF IInv, DaemonTypes
  <2>3. \A d \in Conns : xattrs[d] # NoBlob => xattrs[d][2] \in Int
    BY <2>2, BoundsAssumption
  <2>4. HandlerInv'
    BY <1>1, <2>1, <2>3 DEF IInv, HandlerInv, handlerVars
  <2> QED
    BY <1>1, <2>4 DEF IInv, AttributesAreLocal, handlerVars
<1> QED
  BY <1>2, <1>3, <1>6, <1>7, <1>8, <1>9 DEF StepOf

LEMMA HeaderStep == ASSUME IInv, NEW c \in Conns, Header(c) PROVE StepOf(c)
<1>1. /\ conn[c] \in {"headers", "body"} /\ xattrs' = [xattrs EXCEPT ![c] = <<c, request[c]>>]
      /\ UNCHANGED <<conn, request, onComplete, object, replies, blob, pending, verdict,
                     bytesIn, attribute>>
  BY DEF Header, SetHeader, store
<1>2. <<c, request[c]>> \in Requests
  BY <1>1, BoundsAssumption DEF IInv, DaemonTypes, ToldInv
<1>3. DaemonTypes'
  BY <1>1, <1>2 DEF IInv, DaemonTypes
<1>4. Apart(c)
  BY <1>1 DEF IInv, DaemonTypes, Apart
<1>5. \A r : (Told(c, r)' <=> Told(c, r)) /\ (Refused(c, r)' <=> Refused(c, r))
  BY <1>1, NoAnswer
<1>6. ToldInv(c)' /\ RefusalInv(c)'
  BY <1>1, <1>5 DEF IInv, ToldInv, RefusalInv
<1>7. HandlerInv'
  <2>1. \A d \in Conns : request[d] <= request[d]
    BY DEF IInv, DaemonTypes
  <2> QED
    BY <1>1, <2>1 DEF IInv, DaemonTypes, HandlerInv
<1>8. HoldInv' /\ AttributesAreLocal'
  BY <1>1 DEF IInv, HoldInv, AttributesAreLocal
<1> QED
  BY <1>3, <1>4, <1>6, <1>7, <1>8 DEF StepOf

-----------------------------------------------------------------------------
(* The steps that answer. *)

(* The request under way is one. *)
LEMMA SelfIsRequest ==
    ASSUME IInv, NEW c \in Conns, conn[c] \in Busy
    PROVE  /\ request[c] \in 1 .. MaxRequests /\ request[c] \in 1 .. request[c]
           /\ <<c, request[c]>> \in Requests
           /\ \A r : r \in 1 .. request[c] <=> r \in 1 .. (request[c] - 1) \/ r = request[c]
BY BoundsAssumption DEF IInv, DaemonTypes, ToldInv

LEMMA AnswerTells ==
    ASSUME IInv, NEW c \in Conns, conn[c] \in Busy, NEW code \in Int, Answer(c, code),
           request'[c] = request[c], conn'[c] # "body" \/ onComplete'[c] # "ignore",
           conn'[c] # "new"
    PROVE  ToldInv(c)'
<1>1. \A r : Told(c, r)' <=> Told(c, r) \/ r = request[c]
  BY AnswerAdds DEF IInv
<1>2. \A r \in 1 .. (request[c] - 1) : Told(c, r)
  BY DEF IInv, ToldInv
<1>3. request[c] >= 1 /\ \A r \in 1 .. request[c] : r \in 1 .. (request[c] - 1) \/ r = request[c]
  BY SelfIsRequest DEF IInv, ToldInv
<1>4. /\ Told(c, request[c])'
      /\ \A r \in 1 .. request[c] : Told(c, r)'
      /\ \A r \in 1 .. (request[c] - 1) : Told(c, r)'
  BY <1>1, <1>2, <1>3
<1> QED
  BY <1>3, <1>4 DEF ToldInv

(* An answer that ends a request, or refuses it before its body. *)
LEMMA AnswerRefuses ==
    ASSUME IInv, NEW c \in Conns, conn[c] \in Busy, NEW code \in Int, Answer(c, code),
           request'[c] = request[c], conn'[c] \in {"idle", "garbage", "closed", "skip"},
           conn'[c] = "skip" => object'[c] = "init" \/ onComplete'[c] = "ignore",
           \A r \in 1 .. MaxRequests : r # request[c] => verdict'[<<c, r>>] = verdict[<<c, r>>],
           code \in Errors \/ Refused(c, request[c]) => verdict'[<<c, request[c]>>] # "stored",
           conn'[c] = "skip" => verdict'[<<c, request[c]>>] = "none"
    PROVE  RefusalInv(c)'
<1>1. \A r : Refused(c, r)' <=> Refused(c, r) \/ (r = request[c] /\ code \in Errors)
  BY AnswerAdds DEF IInv
<1>2. \A r : Refused(c, r) => r \in 1 .. request[c] /\ verdict[<<c, r>>] # "stored"
  BY DEF IInv, RefusalInv
<1>3. request[c] \in 1 .. MaxRequests /\ \A r \in 1 .. request[c] : r \in 1 .. MaxRequests
  BY SelfIsRequest, BoundsAssumption
<1>4. \A r \in 1 .. MaxRequests : r > request[c] => r # request[c]
  BY <1>3, BoundsAssumption
<1>5. \A r \in 1 .. MaxRequests : r > request[c] => verdict'[<<c, r>>] = "none"
  BY <1>4 DEF IInv, RefusalInv
<1>6. \A r : Refused(c, r)' => r \in 1 .. request[c] /\ verdict'[<<c, r>>] # "stored"
  BY <1>1, <1>2, <1>3, SelfIsRequest
<1> QED
  BY <1>5, <1>6 DEF RefusalInv

LEMMA RefuseStep == ASSUME IInv, NEW c \in Conns, RefuseRequest(c) PROVE StepOf(c)
<1>1. PICK code \in Errors : Answer(c, code)
  BY DEF RefuseRequest
<1>2. /\ conn[c] = "headers" /\ conn' = [conn EXCEPT ![c] = "skip"]
      /\ UNCHANGED <<request, onComplete, object, blob, pending, verdict, bytesIn, handlerVars>>
      /\ onComplete[c] = "ignore" /\ verdict[<<c, request[c]>>] = "none" /\ code \in Int
  BY <1>1 DEF RefuseRequest, store, IInv, RefusalInv
<1>3. conn'[c] = "skip"
  BY <1>2 DEF IInv, DaemonTypes
<1>4. /\ replies' \in [Conns -> Seq([req : Int, code : Int, bytes : Int])]
      /\ \A d \in Conns \ {c} : replies'[d] = replies[d]
  BY <1>1, <1>2, AnswerAdds DEF IInv
<1>5. DaemonTypes'
  BY <1>2, <1>4 DEF IInv, DaemonTypes, handlerVars
<1>6. Apart(c)
  BY <1>2, <1>4 DEF IInv, DaemonTypes, handlerVars, Apart
<1>7. ToldInv(c)'
  <2>1. conn[c] \in Busy /\ request'[c] = request[c] /\ conn'[c] # "body" /\ conn'[c] # "new"
    BY <1>2, <1>3
  <2> QED
    BY <1>1, <1>2, <2>1, AnswerTells
<1>8. RefusalInv(c)'
  BY <1>1, <1>2, <1>3, AnswerRefuses
<1> QED
  BY <1>2, <1>3, <1>5, <1>6, <1>7, <1>8, HoldKept, HandlerKept DEF StepOf

(* GetUpload gives the upload what the handler keeps. *)
LEMMA GivesOwnAttributes ==
    ASSUME IInv, NEW c \in Conns, conn[c] \in Busy, GetUpload(c), UNCHANGED request
    PROVE  /\ attribute' \in [Requests -> Requests \cup {NoBlob}]
           /\ \A q \in Requests : q[1] # c => attribute'[q] = attribute[q]
           /\ HandlerInv' /\ AttributesAreLocal'
<1>1. /\ attribute \in [Requests -> Requests \cup {NoBlob}]
      /\ xattrs[c] \in Requests \cup {NoBlob}
      /\ xattrs[c] # NoBlob => xattrs[c][1] = c /\ xattrs[c][2] <= request[c]
  BY DEF IInv, DaemonTypes, HandlerInv
<1>2. /\ attribute' = [attribute EXCEPT ![<<c, request[c]>>] = xattrs[c]] /\ xattrs' = xattrs
  BY DEF GetUpload
<1>3. attribute' \in [Requests -> Requests \cup {NoBlob}]
  BY <1>1, <1>2
<1>4. \A q \in Requests : attribute'[q] = IF q = <<c, request[c]>> THEN xattrs[c] ELSE attribute[q]
  BY <1>1, <1>2
<1>5. \A q \in Requests : q[1] # c => attribute'[q] = attribute[q]
  BY <1>4
<1>6. HandlerInv'
  BY <1>2 DEF IInv, HandlerInv
<1>7. AttributesAreLocal'
  BY <1>1, <1>4 DEF IInv, AttributesAreLocal
<1> QED
  BY <1>3, <1>5, <1>6, <1>7

LEMMA StartUploadStep ==
    ASSUME NoBlob \notin Requests, IInv, NEW c \in Conns, StartUpload(c)
    PROVE  StepOf(c)
<1>1. /\ conn[c] = "headers" /\ conn' = [conn EXCEPT ![c] = "body"]
      /\ onComplete' = [onComplete EXCEPT ![c] = "upload"]
      /\ object' = [object EXCEPT ![c] = "prepared"]
      /\ pending = NoBlob /\ blob = NoBlob /\ pending' = <<c, request[c]>>
      /\ GetUpload(c)
      /\ UNCHANGED <<request, replies, blob, verdict, bytesIn, xattrs>>
  BY DEF StartUpload, GetUpload
<1>2. conn'[c] = "body" /\ onComplete'[c] = "upload" /\ object'[c] = "prepared"
  BY <1>1 DEF IInv, DaemonTypes
<1>3. /\ attribute' \in [Requests -> Requests \cup {NoBlob}]
      /\ \A q \in Requests : q[1] # c => attribute'[q] = attribute[q]
      /\ HandlerInv' /\ AttributesAreLocal'
  BY <1>1, GivesOwnAttributes
<1>4. DaemonTypes'
  BY <1>1, <1>3 DEF IInv, DaemonTypes
<1>5. Apart(c)
  BY <1>1, <1>3 DEF IInv, DaemonTypes, Apart
<1>6. \A r : (Told(c, r)' <=> Told(c, r)) /\ (Refused(c, r)' <=> Refused(c, r))
  BY <1>1, NoAnswer
<1>7. ToldInv(c)'
  BY <1>1, <1>2, <1>6 DEF IInv, ToldInv
<1>8. RefusalInv(c)'
  BY <1>1, <1>2, <1>6 DEF IInv, RefusalInv
<1>9. HoldInv'
  <2>1. SUFFICES ASSUME NEW d \in Conns, conn'[d] = "body", onComplete'[d] = "upload"
                 PROVE  pending' = <<d, request'[d]>> /\ blob' = NoBlob
    BY DEF HoldInv
  <2>2. CASE d = c
    BY <1>1, <2>2
  <2>3. CASE d # c
    <3>1. conn[d] = "body" /\ onComplete[d] = "upload"
      BY <1>5, <2>1, <2>3 DEF Apart
    <3>2. pending = <<d, request[d]>> /\ <<d, request[d]>> \in Requests
      BY <3>1, SelfIsRequest DEF IInv, HoldInv
    <3> QED
      BY <1>1, <3>2
  <2> QED
    BY <2>2, <2>3
<1> QED
  BY <1>3, <1>4, <1>5, <1>7, <1>8, <1>9 DEF StepOf

LEMMA RefuseUploadStep == ASSUME IInv, NEW c \in Conns, RefuseUpload(c) PROVE StepOf(c)
<1>1. PICK code \in Errors, cb \in {"ignore", "upload"} :
        Answer(c, code) /\ Set(c, cb, "init")
  BY DEF RefuseUpload
<1>2. /\ conn[c] = "headers" /\ conn' = [conn EXCEPT ![c] = "skip"]
      /\ onComplete' = [onComplete EXCEPT ![c] = cb]
      /\ object' = [object EXCEPT ![c] = "init"]
      /\ GetUpload(c)
      /\ UNCHANGED <<request, blob, pending, verdict, bytesIn, xattrs>>
      /\ verdict[<<c, request[c]>>] = "none" /\ code \in Int
  BY <1>1 DEF RefuseUpload, GetUpload, store, IInv, RefusalInv
<1>3. conn'[c] = "skip" /\ object'[c] = "init" /\ conn[c] \in Busy /\ request'[c] = request[c]
  BY <1>2 DEF IInv, DaemonTypes
<1>4. /\ replies' \in [Conns -> Seq([req : Int, code : Int, bytes : Int])]
      /\ \A d \in Conns \ {c} : replies'[d] = replies[d]
  BY <1>1, <1>2, AnswerAdds DEF IInv
<1>5. /\ attribute' \in [Requests -> Requests \cup {NoBlob}]
      /\ \A q \in Requests : q[1] # c => attribute'[q] = attribute[q]
      /\ HandlerInv' /\ AttributesAreLocal'
  BY <1>2, <1>3, GivesOwnAttributes
<1>6. DaemonTypes'
  BY <1>2, <1>4, <1>5 DEF IInv, DaemonTypes
<1>7. Apart(c)
  BY <1>2, <1>4, <1>5 DEF IInv, DaemonTypes, Apart
<1>8. ToldInv(c)'
  BY <1>1, <1>2, <1>3, AnswerTells
<1>9. RefusalInv(c)'
  BY <1>1, <1>2, <1>3, AnswerRefuses
<1>10. HoldInv'
  BY <1>2, <1>3, <1>7, HoldKept
<1> QED
  BY <1>5, <1>6, <1>7, <1>8, <1>9, <1>10 DEF StepOf

(* A download or a removal that begins: its reply, if any, is not an error. *)
LEMMA StartOtherStep ==
    ASSUME IInv, NEW c \in Conns, StartDownload(c) \/ StartRemoval(c)
    PROVE  StepOf(c)
<1>1. conn[c] = "headers" /\ conn[c] \in Busy /\ verdict[<<c, request[c]>>] = "none"
  BY DEF StartDownload, StartRemoval, IInv, RefusalInv
<1>2. UNCHANGED <<request, blob, pending, verdict, bytesIn, handlerVars>>
  BY DEF StartDownload, StartRemoval, store, Backend!Open
<1>3. CASE conn' = [conn EXCEPT ![c] = "body"]
  <2>1. PICK cb \in {"download", "removal"} :
          /\ onComplete' = [onComplete EXCEPT ![c] = cb]
          /\ object' = [object EXCEPT ![c] = "prepared"]
          /\ \/ cb = "download" /\ Answer(c, 200)
             \/ cb = "removal" /\ UNCHANGED replies
    <3>1. conn'[c] = "body"
      BY <1>3 DEF IInv, DaemonTypes
    <3>2. ~ conn' = [conn EXCEPT ![c] = "skip"]
      BY <3>1 DEF IInv, DaemonTypes
    <3>3. CASE StartDownload(c)
      <4>1. Set(c, "download", "prepared") /\ Answer(c, 200)
        BY <3>2, <3>3 DEF StartDownload
      <4> QED
        BY <4>1
    <3>4. CASE StartRemoval(c)
      <4>1. Set(c, "removal", "prepared") /\ UNCHANGED replies
        BY <3>2, <3>4 DEF StartRemoval
      <4> QED
        BY <4>1
    <3> QED
      BY <3>3, <3>4
  <2>2. conn'[c] = "body" /\ onComplete'[c] = cb /\ object'[c] = "prepared"
    BY <1>3, <2>1 DEF IInv, DaemonTypes
  <2>3. /\ replies' \in [Conns -> Seq([req : Int, code : Int, bytes : Int])]
        /\ \A d \in Conns \ {c} : replies'[d] = replies[d]
        /\ \A r : Told(c, r) => Told(c, r)'
        /\ cb = "download" => Told(c, request[c])'
        /\ \A r : Refused(c, r)' <=> Refused(c, r)
    <3>1. CASE Answer(c, 200)
      <4>1. 200 \in Int /\ 200 \notin Errors
        OBVIOUS
      <4>2. /\ replies' \in [Conns -> Seq([req : Int, code : Int, bytes : Int])]
            /\ \A d \in Conns \ {c} : replies'[d] = replies[d]
            /\ \A r : Told(c, r)' <=> Told(c, r) \/ r = request[c]
            /\ \A r : Refused(c, r)' <=> Refused(c, r) \/ (r = request[c] /\ 200 \in Errors)
        BY SMTT(30), <3>1, <4>1, AnswerAdds DEF IInv
      <4>3. \A r : Refused(c, r)' <=> Refused(c, r)
        BY <4>1, <4>2
      <4>4. \A r : Told(c, r) => Told(c, r)'
        BY <4>2
      <4>5. Told(c, request[c])'
        BY <1>2, <4>2
      <4> QED
        BY <4>2, <4>3, <4>4, <4>5
    <3>2. CASE UNCHANGED replies /\ cb = "removal"
      BY <3>2, NoAnswer DEF IInv, DaemonTypes
    <3> QED
      BY <2>1, <3>1, <3>2
  <2>4. DaemonTypes'
    BY <1>2, <1>3, <2>1, <2>3 DEF IInv, DaemonTypes, handlerVars
  <2>5. Apart(c)
    BY <1>2, <1>3, <2>1, <2>3 DEF IInv, DaemonTypes, handlerVars, Apart
  <2>6. ToldInv(c)'
    BY <1>1, <1>2, <2>1, <2>2, <2>3 DEF IInv, ToldInv
  <2>7. RefusalInv(c)'
    BY <1>1, <1>2, <2>1, <2>2, <2>3 DEF IInv, RefusalInv
  <2> QED
    BY <1>2, <2>1, <2>2, <2>4, <2>5, <2>6, <2>7, HoldKept, HandlerKept DEF StepOf
<1>4. CASE conn' = [conn EXCEPT ![c] = "skip"]
  <2>1. conn'[c] = "skip"
    BY <1>4 DEF IInv, DaemonTypes
  <2>2. ~ conn' = [conn EXCEPT ![c] = "body"]
    BY <2>1 DEF IInv, DaemonTypes
  <2>3. PICK cb \in {"ignore", "removal"} :
          /\ onComplete' = [onComplete EXCEPT ![c] = cb]
          /\ object' = [object EXCEPT ![c] = "init"]
          /\ Answer(c, 404)
    BY <2>2 DEF StartDownload, StartRemoval
  <2>4. /\ replies' \in [Conns -> Seq([req : Int, code : Int, bytes : Int])]
        /\ \A d \in Conns \ {c} : replies'[d] = replies[d]
    BY <2>3, AnswerAdds DEF IInv
  <2>5. DaemonTypes'
    BY <1>2, <1>4, <2>3, <2>4 DEF IInv, DaemonTypes, handlerVars
  <2>6. Apart(c)
    BY <1>2, <1>4, <2>3, <2>4 DEF IInv, DaemonTypes, handlerVars, Apart
  <2>7. object'[c] = "init" /\ request'[c] = request[c]
    BY <1>2, <2>3 DEF IInv, DaemonTypes
  <2>8. ToldInv(c)'
    BY <1>1, <2>1, <2>3, <2>7, AnswerTells
  <2>9. RefusalInv(c)'
    BY <1>1, <1>2, <2>1, <2>3, <2>7, AnswerRefuses
  <2> QED
    BY <1>2, <2>1, <2>5, <2>6, <2>7, <2>8, <2>9, HoldKept, HandlerKept DEF StepOf
<1> QED
  BY <1>3, <1>4 DEF StartDownload, StartRemoval

-----------------------------------------------------------------------------
(* The steps that end a request with a reply. *)

LEMMA CompleteUploadStep == ASSUME IInv, NEW c \in Conns, CompleteUpload(c) PROVE StepOf(c)
<1>1. /\ conn[c] \in {"body", "skip"} /\ conn[c] \in Busy /\ onComplete[c] = "upload"
      /\ UNCHANGED <<request, bytesIn, handlerVars>>
      /\ onComplete' = [onComplete EXCEPT ![c] = "upload"]
      /\ object' = [object EXCEPT ![c] = "done"]
      /\ verdict[<<c, request[c]>>] = "none"
  BY DEF CompleteUpload, IInv, RefusalInv
<1>2. PICK pc \in {"idle", "garbage"} : conn' = [conn EXCEPT ![c] = pc]
  BY DEF CompleteUpload, AfterMessage
<1>3. conn'[c] = pc /\ request'[c] = request[c]
  BY <1>1, <1>2 DEF IInv, DaemonTypes
<1>4. PICK code \in {201, 500}, v \in {"none", "stored", "failed"} :
        /\ Answer(c, code)
        /\ verdict' = [verdict EXCEPT ![<<c, request[c]>>] = v]
        /\ code = 201 => object[c] = "prepared"
        /\ v = "stored" => code = 201
        /\ UNCHANGED <<pending, blob>> \/ object[c] = "prepared"
  <2>1. CASE object[c] = "prepared" /\ Backend!Publish(Self(c)) /\ Answer(c, 201)
    BY <2>1 DEF Backend!Publish
  <2>2. CASE object[c] = "prepared" /\ Backend!GiveUp(Self(c), "failed") /\ Answer(c, 500)
    BY <2>2 DEF Backend!GiveUp
  <2>3. CASE object[c] # "prepared" /\ Answer(c, 500) /\ UNCHANGED <<pending, blob, verdict, opened>>
    <3>1. <<c, request[c]>> \in Requests /\ verdict' = verdict
      BY <1>1, <2>3, SelfIsRequest
    <3>2. verdict' = [verdict EXCEPT ![<<c, request[c]>>] = "none"]
      BY <1>1, <3>1 DEF IInv, DaemonTypes
    <3>3. Answer(c, 500) /\ UNCHANGED <<pending, blob>>
      BY <2>3
    <3> WITNESS 500 \in {201, 500}, "none" \in {"none", "stored", "failed"}
    <3> QED
      BY <3>2, <3>3
  <2> QED
    BY <2>1, <2>2, <2>3 DEF CompleteUpload
<1>5. code \in Int /\ 201 \notin Errors
  OBVIOUS
<1>6. /\ replies' \in [Conns -> Seq([req : Int, code : Int, bytes : Int])]
      /\ \A d \in Conns \ {c} : replies'[d] = replies[d]
  BY <1>4, <1>5, AnswerAdds DEF IInv
<1>7. DaemonTypes'
  BY <1>1, <1>2, <1>4, <1>6 DEF IInv, DaemonTypes, handlerVars
<1>8. Apart(c)
  <2>1. \A d \in Conns \ {c} : \A r \in 1 .. MaxRequests : verdict'[<<d, r>>] = verdict[<<d, r>>]
    BY <1>4 DEF IInv, DaemonTypes
  <2> QED
    BY <1>1, <1>2, <1>6, <2>1 DEF IInv, DaemonTypes, handlerVars, Apart
<1>9. ToldInv(c)'
  BY <1>1, <1>3, <1>4, <1>5, AnswerTells
<1>10. RefusalInv(c)'
  <2>1. \A r \in 1 .. MaxRequests : r # request[c] => verdict'[<<c, r>>] = verdict[<<c, r>>]
    BY <1>4 DEF IInv, DaemonTypes
  <2>2. verdict'[<<c, request[c]>>] = v
    BY <1>1, <1>4, SelfIsRequest DEF IInv, DaemonTypes
  <2>3. object[c] = "prepared" => ~ Refused(c, request[c])
    BY <1>1 DEF IInv, RefusalInv
  <2>4. code \in Errors \/ Refused(c, request[c]) => verdict'[<<c, request[c]>>] # "stored"
    BY <1>4, <1>5, <2>2, <2>3
  <2> QED
    BY <1>1, <1>3, <1>4, <1>5, <2>1, <2>4, AnswerRefuses
<1>11. HoldInv'
  <2>1. CASE UNCHANGED <<pending, blob>>
    BY <1>3, <1>8, <2>1, HoldKept
  <2>2. CASE object[c] = "prepared"
    <3>1. conn[c] = "body"
      BY <1>1, <2>2 DEF IInv, RefusalInv
    <3>2. pending = <<c, request[c]>>
      BY <1>1, <3>1 DEF IInv, HoldInv
    <3>3. SUFFICES ASSUME NEW d \in Conns, conn'[d] = "body", onComplete'[d] = "upload"
                   PROVE  FALSE
      BY DEF HoldInv
    <3>4. d # c
      BY <1>3, <3>3
    <3>5. conn[d] = "body" /\ onComplete[d] = "upload"
      BY <1>8, <3>3, <3>4 DEF Apart
    <3>6. pending = <<d, request[d]>>
      BY <3>5 DEF IInv, HoldInv
    <3> QED
      BY <3>2, <3>4, <3>6
  <2> QED
    BY <1>4, <2>1, <2>2
<1>12. HandlerInv' /\ AttributesAreLocal'
  BY <1>1, HandlerKept
<1> QED
  BY <1>7, <1>8, <1>9, <1>10, <1>11, <1>12 DEF StepOf

LEMMA CompleteRemovalStep ==
    ASSUME NoBlob \notin Requests, IInv, NEW c \in Conns, CompleteRemoval(c)
    PROVE  StepOf(c)
<1>1. /\ conn[c] \in Busy /\ onComplete[c] = "removal"
      /\ UNCHANGED <<request, pending, bytesIn, handlerVars>>
      /\ onComplete' = [onComplete EXCEPT ![c] = "removal"]
      /\ object' = [object EXCEPT ![c] = "done"]
      /\ verdict[<<c, request[c]>>] = "none"
  BY DEF CompleteRemoval, IInv, RefusalInv
<1>2. PICK pc \in {"idle", "garbage", "closed"}, code \in {200, 500} :
        /\ conn' = [conn EXCEPT ![c] = pc]
        /\ Answer(c, code)
  BY DEF CompleteRemoval, AfterMessage
<1>3. /\ UNCHANGED verdict /\ blob' \in {blob, NoBlob}
      /\ conn'[c] = pc /\ request'[c] = request[c] /\ code \in Int
  BY <1>1, <1>2 DEF CompleteRemoval, Backend!Remove, IInv, DaemonTypes
<1>4. /\ replies' \in [Conns -> Seq([req : Int, code : Int, bytes : Int])]
      /\ \A d \in Conns \ {c} : replies'[d] = replies[d]
  BY <1>2, <1>3, AnswerAdds DEF IInv
<1>5. DaemonTypes'
  BY <1>1, <1>2, <1>3, <1>4 DEF IInv, DaemonTypes, handlerVars
<1>6. Apart(c)
  BY <1>1, <1>2, <1>3, <1>4 DEF IInv, DaemonTypes, handlerVars, Apart
<1>7. ToldInv(c)'
  BY <1>1, <1>2, <1>3, AnswerTells
<1>8. RefusalInv(c)'
  BY <1>1, <1>2, <1>3, AnswerRefuses
<1>9. HoldInv'
  <2>1. SUFFICES ASSUME NEW d \in Conns, conn'[d] = "body", onComplete'[d] = "upload"
                 PROVE  pending' = <<d, request'[d]>> /\ blob' = NoBlob
    BY DEF HoldInv
  <2>2. d # c
    BY <1>2, <1>3, <2>1
  <2>3. conn[d] = "body" /\ onComplete[d] = "upload"
    BY <1>6, <2>1, <2>2 DEF Apart
  <2> QED
    BY <1>1, <1>3, <2>3 DEF IInv, HoldInv
<1>10. HandlerInv' /\ AttributesAreLocal'
  BY <1>1, HandlerKept
<1> QED
  BY <1>5, <1>6, <1>7, <1>8, <1>9, <1>10 DEF StepOf

-----------------------------------------------------------------------------
LEMMA InitInv == Init => IInv
<1> SUFFICES ASSUME Init PROVE IInv
  OBVIOUS
<1>1. \A c \in Conns, r \in 1 .. MaxRequests : verdict[<<c, r>>] = "none"
  BY DEF Init, Backend!StoreInit
<1>2. \A c \in Conns : \A r : ~ Refused(c, r)
  BY DEF Init, Refused
<1>3. DaemonTypes
  <2>1. 0 \in 0 .. MaxRequests
    BY BoundsAssumption
  <2>2. <<>> \in Seq([req : Int, code : Int, bytes : Int])
    OBVIOUS
  <2> QED
    BY <2>1, <2>2 DEF Init, DaemonTypes, Backend!StoreInit
<1>4. \A c \in Conns : ToldInv(c) /\ RefusalInv(c)
  BY <1>1, <1>2 DEF Init, ToldInv, RefusalInv
<1>5. HoldInv /\ HandlerInv /\ AttributesAreLocal
  BY DEF Init, HoldInv, HandlerInv, AttributesAreLocal
<1> QED
  BY <1>3, <1>4, <1>5 DEF IInv

LEMMA IdleInv ==
    ASSUME IInv,
           UNCHANGED <<conn, request, onComplete, object, bytesIn, replies, blob, verdict,
                       pending, handlerVars>>
    PROVE  IInv'
<1>1. DaemonTypes'
  BY DEF IInv, DaemonTypes, handlerVars
<1>2. \A c \in Conns : \A r : (Told(c, r)' <=> Told(c, r)) /\ (Refused(c, r)' <=> Refused(c, r))
  BY NoAnswer
<1>3. \A c \in Conns : ToldInv(c)' /\ RefusalInv(c)'
  BY <1>2 DEF IInv, ToldInv, RefusalInv
<1>4. HoldInv' /\ HandlerInv' /\ AttributesAreLocal'
  BY HandlerKept DEF IInv, HoldInv
<1> QED
  BY <1>1, <1>3, <1>4 DEF IInv

LEMMA StepInv == ASSUME NoBlob \notin Requests, IInv, [Next]_vars PROVE IInv'
<1>1. ASSUME NEW c \in Conns,
             \/ Accept(c) \/ Url(c) \/ Body(c)
             \/ CompleteDownload(c) \/ CompleteIgnored(c) \/ Close(c)
      PROVE  IInv'
  BY <1>1, QuietStep, StepOfInv
<1>2. ASSUME NEW c \in Conns, MessageBegin(c) PROVE IInv'
  BY <1>2, BeginStep, StepOfInv
<1>3. ASSUME NEW c \in Conns, Header(c) PROVE IInv'
  BY <1>3, HeaderStep, StepOfInv
<1>4. ASSUME NEW c \in Conns, RefuseRequest(c) PROVE IInv'
  BY <1>4, RefuseStep, StepOfInv
<1>5. ASSUME NEW c \in Conns, StartUpload(c) PROVE IInv'
  BY <1>5, StartUploadStep, StepOfInv
<1>6. ASSUME NEW c \in Conns, RefuseUpload(c) PROVE IInv'
  BY <1>6, RefuseUploadStep, StepOfInv
<1>7. ASSUME NEW c \in Conns, StartDownload(c) \/ StartRemoval(c) PROVE IInv'
  BY <1>7, StartOtherStep, StepOfInv
<1>8. ASSUME NEW c \in Conns, CompleteUpload(c) PROVE IInv'
  BY <1>8, CompleteUploadStep, StepOfInv
<1>9. ASSUME NEW c \in Conns, CompleteRemoval(c) PROVE IInv'
  BY <1>9, CompleteRemovalStep, StepOfInv
<1>10. CASE Stop \/ UNCHANGED vars
  BY <1>10, IdleInv DEF Stop, vars, store
<1> QED
  BY <1>1, <1>2, <1>3, <1>4, <1>5, <1>6, <1>7, <1>8, <1>9, <1>10 DEF Next

-----------------------------------------------------------------------------
(* A connection that goes on to its next request has replied to all those  *)
(* before, by whichever callbacks they went.                                *)
THEOREM RequestsAreAnswered ==
    ASSUME NoBlob \notin Requests
    PROVE  Spec => []EveryRequestIsAnswered
<1>1. IInv => EveryRequestIsAnswered
  BY DEF IInv, ToldInv, Told, EveryRequestIsAnswered
<1> QED
  BY <1>1, InitInv, StepInv, PTL DEF Spec

(* A request told of an error has stored nothing, whatever the others do.  *)
THEOREM RefusedStoresNothing ==
    ASSUME NoBlob \notin Requests
    PROVE  Spec => []RefusedIsNotStored
<1>1. ASSUME IInv PROVE RefusedIsNotStored
  <2>1. SUFFICES ASSUME NEW c \in Conns, NEW i \in DOMAIN replies[c],
                        replies[c][i].code \in Errors
                 PROVE  verdict[<<c, replies[c][i].req>>] # "stored"
    BY DEF RefusedIsNotStored
  <2>2. Refused(c, replies[c][i].req)
    BY <2>1 DEF Refused
  <2> QED
    BY <1>1, <2>2 DEF IInv, RefusalInv
<1> QED
  BY <1>1, InitInv, StepInv, PTL DEF Spec

(* The parser is in the body of an upload only if that upload is prepared  *)
(* and holds the name.                                                      *)
THEOREM BodyHasUpload ==
    ASSUME NoBlob \notin Requests
    PROVE  Spec => []BodyNeedsUpload
<1>1. IInv => BodyNeedsUpload
  BY DEF IInv, RefusalInv, HoldInv, BodyNeedsUpload
<1> QED
  BY <1>1, InitInv, StepInv, PTL DEF Spec

(* The attributes of an upload came on its connection, and no later than   *)
(* its request.                                                             *)
THEOREM AttributesStayLocal ==
    ASSUME NoBlob \notin Requests
    PROVE  Spec => []AttributesAreLocal
<1>1. IInv => AttributesAreLocal
  BY DEF IInv
<1> QED
  BY <1>1, InitInv, StepInv, PTL DEF Spec
=============================================================================
