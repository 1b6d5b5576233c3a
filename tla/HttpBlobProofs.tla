---------------------------- MODULE HttpBlobProofs ---------------------------
(***************************************************************************)
(* Safety of HttpBlob for any operations on the chunks of a host, any      *)
(* number of writes, and any server that answers its requests in order.    *)
(***************************************************************************)
EXTENDS HttpBlob, SequenceTheorems, TLAPS

-----------------------------------------------------------------------------
(* Types of the connection and of the operations. *)

AnyRequest == [op : Ops \cup {NoOp}, chunks : Nat, state : States]
Asked == {r \in AnyRequest : r.op \in Ops}

(* A connection that is not up has nothing that the server could receive or *)
(* answer; one that is closed has nothing to read.                          *)
Conn ==
    /\ link \in Links /\ wire \in Seq(Units)
    /\ open \in AnyRequest /\ todo \in Seq(Asked)
    /\ orphans \subseteq Asked /\ executed \subseteq Asked
    /\ link # "up" => open \in {Idle, Garbled} /\ todo = <<>>
    /\ link = "closed" => wire = <<>> /\ open = Idle

OpTypes ==
    /\ kind \in [Ops -> Kinds] /\ step \in [Ops -> Steps] /\ verdict \in [Ops -> Verdicts]
    /\ status \in [Ops -> Codes \cup {"none"}] /\ buf \in [Ops -> Seq(Units)]
    /\ heard \in [Ops -> SUBSET (Ops \cup {NoOp})] /\ sent \in [Ops -> 0 .. Chunks]
    /\ bopen \in BOOLEAN /\ fresh \in BOOLEAN /\ holder \in Ops \cup {NoOp}
    /\ clean \in BOOLEAN /\ mixed \subseteq Ops

Types == Conn /\ OpTypes

-----------------------------------------------------------------------------
(* The invariant. *)

(* What an operation has still to parse: its buffer, then the socket. *)
Pending(o) == buf[o] \o wire

(* Nothing is on its way on the connection. *)
Neat == wire = <<>> /\ open = Idle /\ todo = <<>>

(* The server carried out the request of o, with all its chunks. *)
Done(o) == \E r \in executed : r.op = o /\ r.chunks = sent[o]

(* No more than one reply, or the beginning of it. *)
OneReply(s) ==
    /\ Len(s) <= 2
    /\ Len(s) >= 1 => s[1].part \in {"200", "404", "500"}
    /\ Len(s) = 2 => s[2].part = "rest"

Of(s, o) == \A i \in 1 .. Len(s) : s[i].of = o
NoSuccess(s) == \A i \in 1 .. Len(s) : s[i].part # "200"

(* A connection where every message was understood. *)
Sound == link # "closed" /\ open # Garbled

(* What an operation alone on its connection finds there, by its step.  A   *)
(* server that skipped its body has refused it, once or twice, and reads    *)
(* nothing more.                                                            *)
BuiltInv(o) == step[o] = "built" => (link \in {"up", "half"} => Neat)

ContinueInv(o) ==
    step[o] = "continue" =>
        /\ buf[o] = <<>> /\ Of(wire, o) /\ NoSuccess(wire)
        /\ open = Garbled => todo = <<>>
        /\ Sound /\ wire # <<>> /\ wire[1].part = "100" => OneReply(Tail(wire))
        /\ open # Garbled /\ link = "up" =>
              /\ open.op = o /\ open.chunks = 0 /\ todo = <<>>
              /\ \/ open.state = "expect" /\ wire = <<>>
                 \/ open.state = "body" /\ wire = <<Unit(o, "100")>>
                 \/ open.state = "refused"

PreparedInv(o) ==
    step[o] = "prepared" =>
        /\ Of(Pending(o), o) /\ NoSuccess(Pending(o))
        /\ open = Garbled => todo = <<>>
        /\ Sound => OneReply(Pending(o))
        /\ open # Garbled /\ link = "up" =>
              /\ open.op = o /\ open.chunks = sent[o] /\ todo = <<>>
              /\ \/ open.state = "body" /\ Pending(o) = <<>>
                 \/ open.state = "refused"

FinalInv(o) ==
    step[o] = "final" =>
        /\ Of(Pending(o), o)
        /\ open = Garbled => NoSuccess(Pending(o)) /\ todo = <<>>
        /\ open = Idle \/ open = Garbled
        /\ Sound => OneReply(Pending(o))
        /\ ~NoSuccess(Pending(o)) => Done(o)
        /\ \/ todo = <<>>
           \/ /\ Len(todo) = 1 /\ todo[1].op = o /\ todo[1].chunks = sent[o]
              /\ Pending(o) = <<>>

RestInv(o) ==
    step[o] \in {"rest", "reading"} =>
        /\ Of(Pending(o), o) /\ todo = <<>>
        /\ open = Idle \/ open = Garbled
        /\ Sound => Len(Pending(o)) <= 1
        /\ status[o] = "200" => Done(o)
        /\ kind[o] = "removal" => status[o] = "200"

HolderInv(o) == kind[o] = "upload" => holder = o \/ ~bopen

AloneInv(o) ==
    /\ BuiltInv(o) /\ ContinueInv(o) /\ PreparedInv(o) /\ FinalInv(o) /\ RestInv(o)
    /\ HolderInv(o)

(* Between two operations a connection that will be used again has nothing. *)
BetweenInv ==
    clean /\ InSession = {} /\ bopen /\ fresh /\ open # Garbled =>
        (link \in {"up", "half"} => Neat)

(* A connection that serves one operation at a time has what that one finds. *)
SessionInv ==
    /\ clean => \A o, p \in InSession : o = p
    /\ \A o \in InSession : o \notin mixed => clean
    /\ clean => \A o \in InSession : AloneInv(o)
    /\ BetweenInv

(* What an operation has not done before it comes to it. *)
StartInv ==
    /\ \A o \in Ops : step[o] \in {"idle", "built"} => buf[o] = <<>>
    /\ \A o \in Ops : step[o] \in {"idle", "built", "continue"} => sent[o] = 0
    /\ \A o \in Ops : step[o] # "done" => verdict[o] = "none"

(* The server has all of a request only when its operation decided it. *)
Requests == Range(todo) \cup orphans \cup executed

DecidedInv ==
    /\ open.op \in Ops \ mixed => step[open.op] \in {"continue", "prepared"}
    /\ \A r \in Requests : r.op \notin mixed /\ kind[r.op] # "download" => ~Undecided(r.op)

IInv == Types /\ SessionInv /\ StartInv /\ DecidedInv /\ OwnReply /\ OkIsDone

-----------------------------------------------------------------------------
(* Sequences. *)

LEMMA RangeAppend ==
    ASSUME NEW S, NEW s \in Seq(S), NEW e
    PROVE  \A r \in Range(Append(s, e)) : r \in Range(s) \/ r = e
<1> SUFFICES ASSUME NEW i \in DOMAIN Append(s, e)
             PROVE  Append(s, e)[i] \in Range(s) \/ Append(s, e)[i] = e
  BY DEF Range
<1>1. i \in 1 .. Len(s) + 1
  OBVIOUS
<1>2. CASE i \in 1 .. Len(s)
  BY <1>2 DEF Range
<1>3. CASE i = Len(s) + 1
  BY <1>3
<1> QED
  BY <1>1, <1>2, <1>3

LEMMA RangeTail ==
    ASSUME NEW S, NEW s \in Seq(S), s # <<>>
    PROVE  /\ Head(s) \in Range(s) /\ Head(s) \in S /\ Tail(s) \in Seq(S)
           /\ Range(Tail(s)) \subseteq Range(s)
<1>1. Head(s) = s[1] /\ 1 \in DOMAIN s /\ Tail(s) \in Seq(S)
  OBVIOUS
<1>2. ASSUME NEW i \in DOMAIN Tail(s)
      PROVE  Tail(s)[i] \in Range(s)
  <2>1. i + 1 \in DOMAIN s /\ Tail(s)[i] = s[i + 1]
    BY <1>1
  <2> QED
    BY <2>1 DEF Range
<1> QED
  BY <1>1, <1>2 DEF Range

(* What is left of a reply behind its first part. *)
LEMMA TailOf ==
    ASSUME NEW s \in Seq(Units), s # <<>>, NEW t, t = Tail(s)
    PROVE  /\ t \in Seq(Units) /\ Len(t) = Len(s) - 1
           /\ \A o : Of(s, o) => s[1].of = o /\ Of(t, o)
           /\ NoSuccess(s) => s[1].part # "200" /\ NoSuccess(t)
<1>1. t \in Seq(Units) /\ Len(t) = Len(s) - 1 /\ \A i \in 1 .. Len(t) : t[i] = s[i + 1] /\ i + 1 \in 1 .. Len(s)
  OBVIOUS
<1>2. 1 \in 1 .. Len(s)
  OBVIOUS
<1> QED
  BY <1>1, <1>2 DEF Of, NoSuccess

LEMMA NothingPending ==
    /\ OneReply(<<>>) /\ NoSuccess(<<>>) /\ Len(<<>>) = 0
    /\ \A o : Of(<<>>, o)
BY DEF OneReply, NoSuccess, Of

(* The two parts of a reply. *)
LEMMA TwoParts ==
    ASSUME NEW o \in Ops, NEW c \in {"200", "404", "500"},
           NEW s, s = <<Unit(o, c), Unit(o, "rest")>>
    PROVE  /\ s \in Seq(Units) /\ Len(s) = 2 /\ s[1].part = c /\ Of(s, o) /\ OneReply(s)
           /\ c # "200" => NoSuccess(s)
BY DEF Unit, Units, Codes, Of, OneReply, NoSuccess

-----------------------------------------------------------------------------
(* What is done to the connection keeps its types. *)

LEMMA IdleIsRequest ==
    /\ Idle \in AnyRequest /\ Garbled \in AnyRequest /\ Idle.op = NoOp /\ Garbled.op = NoOp
    /\ Idle # Garbled
BY DEF Idle, Garbled, Request, AnyRequest, States

(* The requests of a connection that is given up are orphans. *)
LEMMA Forgotten ==
    ASSUME Conn, Forget, link' \in Links, UNCHANGED executed
    PROVE  Conn' /\ Neat' /\ Requests' = Requests
<1>1. wire' = <<>> /\ open' = Idle /\ todo' = <<>> /\ orphans' = orphans \cup Range(todo)
  BY DEF Forget
<1>2. Range(todo) \subseteq Asked /\ Range(todo') = {}
  BY <1>1 DEF Conn, Range
<1>3. Conn'
  BY <1>1, <1>2, IdleIsRequest DEF Conn
<1>4. Neat'
  BY <1>1 DEF Neat
<1>5. Requests' = Requests
  BY <1>1, <1>2 DEF Requests
<1> QED
  BY <1>3, <1>4, <1>5

LEMMA Closed ==
    ASSUME Conn, Close, UNCHANGED executed
    PROVE  Conn' /\ Neat' /\ Requests' = Requests /\ link' = "closed"
BY Forgotten DEF Close, Links

LEMMA Connected ==
    ASSUME Conn, Connect, UNCHANGED executed
    PROVE  Conn' /\ Neat' /\ Requests' = Requests /\ link' \in {"up", "dead"}
BY Forgotten DEF Connect, Links

(* A message that the peer got, or that nobody was there to get. *)
LEMMA SentNowhere ==
    ASSUME link = "half", UNCHANGED <<link, wire, open, todo, orphans, executed>>, Conn
    PROVE  Conn' /\ Requests' = Requests
BY DEF Conn, Requests

LEMMA GarbageTypes ==
    ASSUME Conn, Garbage
    PROVE  /\ wire' \in Seq(Units) /\ open' \in AnyRequest /\ todo' = todo /\ open'.op = NoOp
           /\ open = Garbled => UNCHANGED <<wire, open>>
<1>1. Unit(NoOp, "400") \in Units
  BY DEF Unit, Units, Codes
<1>2. wire' = wire \/ wire' = Append(wire, Unit(NoOp, "400"))
  BY DEF Garbage
<1>3. wire' \in Seq(Units)
  BY <1>1, <1>2 DEF Conn
<1> QED
  BY <1>3, IdleIsRequest DEF Garbage

LEMMA SendsHeaders ==
    ASSUME Conn, NEW o \in Ops, UNCHANGED executed,
           Sends(HearsExpect, o) \/ Sends(HearsBody, o)
    PROVE  /\ Conn' /\ Requests' = Requests /\ UNCHANGED <<link, clean, mixed>> /\ link \in {"up", "half"}
           /\ open'.op \in {open.op, o, NoOp}
           /\ Neat => /\ wire' = <<>> /\ todo' = <<>>
                      /\ link = "up" => open'.op = o /\ open'.chunks = 0
                      /\ link = "up" /\ Sends(HearsExpect, o) => open'.state = "expect"
                      /\ link = "up" /\ Sends(HearsBody, o) => open'.state = "body"
<1>1. UNCHANGED <<link, orphans, clean, mixed>> /\ link \in {"up", "half"}
  BY DEF Sends, Sent, histVars
<1>2. CASE link = "half"
  <2>1. UNCHANGED <<wire, open, todo>>
    BY <1>2 DEF Sends, Sent
  <2> QED
    BY <1>1, <1>2, <2>1, SentNowhere DEF Neat
<1>3. CASE link = "up" /\ open = Idle
  <2>1. PICK state \in {"expect", "body"} : open' = Request(o, 0, state) /\ UNCHANGED <<wire, todo>>
    BY <1>3 DEF Sends, Sent, HearsExpect, HearsBody, HearsHeaders
  <2>2. Sends(HearsExpect, o) => open' = Request(o, 0, "expect")
    BY <1>3 DEF Sends, Sent, HearsExpect, HearsHeaders
  <2>3. Sends(HearsBody, o) => open' = Request(o, 0, "body")
    BY <1>3 DEF Sends, Sent, HearsBody, HearsHeaders
  <2>4. open' \in AnyRequest /\ open'.op = o /\ open'.chunks = 0
    BY <2>1 DEF Request, AnyRequest, States
  <2> QED
    BY <1>1, <1>3, <2>1, <2>2, <2>3, <2>4 DEF Conn, Requests, Request, Neat
<1>4. CASE link = "up" /\ open # Idle
  <2>1. Garbage
    BY <1>4 DEF Sends, Sent, HearsExpect, HearsBody, HearsHeaders
  <2>2. wire' \in Seq(Units) /\ open' \in AnyRequest /\ todo' = todo /\ open'.op = NoOp
    BY <2>1, GarbageTypes
  <2>3. ~Neat
    BY <1>4 DEF Neat
  <2> QED
    BY <1>1, <1>4, <2>2, <2>3 DEF Conn, Requests
<1> QED
  BY <1>1, <1>2, <1>3, <1>4

LEMMA SendsWhole ==
    ASSUME Conn, NEW o \in Ops, UNCHANGED executed, Sends(HearsWhole, o)
    PROVE  /\ Conn' /\ UNCHANGED <<link, clean, mixed>> /\ link \in {"up", "half"}
           /\ \A r \in Requests' : r \in Requests \/ r.op = o
           /\ open'.op \in {open.op, NoOp}
           /\ Neat => /\ wire' = <<>> /\ open' = Idle
                      /\ \/ todo' = <<>>
                         \/ Len(todo') = 1 /\ todo'[1].op = o /\ todo'[1].chunks = 0
<1>1. UNCHANGED <<link, orphans, clean, mixed>> /\ link \in {"up", "half"}
  BY DEF Sends, Sent, histVars
<1>2. CASE link = "half"
  <2>1. UNCHANGED <<wire, open, todo>>
    BY <1>2 DEF Sends, Sent
  <2> QED
    BY <1>1, <1>2, <2>1, SentNowhere DEF Neat
<1>3. CASE link = "up" /\ open = Idle
  <2>1. PICK r : r = Request(o, 0, "whole")
    OBVIOUS
  <2>2. todo' = Append(todo, r) /\ UNCHANGED <<wire, open>>
    BY <1>3, <2>1 DEF Sends, Sent, HearsWhole
  <2>3. r \in Asked /\ r.op = o /\ r.chunks = 0
    BY <2>1 DEF Request, Asked, AnyRequest, States
  <2>4. todo \in Seq(Asked)
    BY DEF Conn
  <2>5. todo' \in Seq(Asked)
    BY <2>2, <2>3, <2>4
  <2>6. \A q \in Range(todo') : q \in Range(todo) \/ q = r
    BY <2>2, <2>4, RangeAppend
  <2>7. Conn'
    BY <1>1, <1>3, <2>2, <2>5 DEF Conn
  <2>8. \A q \in Requests' : q \in Requests \/ q.op = o
    BY <1>1, <2>3, <2>6 DEF Requests
  <2>9. todo = <<>> => Len(todo') = 1 /\ todo'[1] = r
    BY <2>2
  <2> QED
    BY <1>1, <2>2, <2>3, <2>7, <2>8, <2>9 DEF Neat
<1>4. CASE link = "up" /\ open # Idle
  <2>1. Garbage
    BY <1>4 DEF Sends, Sent, HearsWhole
  <2>2. wire' \in Seq(Units) /\ open' \in AnyRequest /\ todo' = todo /\ open'.op = NoOp
    BY <2>1, GarbageTypes
  <2>3. ~Neat
    BY <1>4 DEF Neat
  <2> QED
    BY <1>1, <1>4, <2>2, <2>3 DEF Conn, Requests
<1> QED
  BY <1>1, <1>2, <1>3, <1>4

LEMMA SendsChunk ==
    ASSUME Conn, NEW o \in Ops, UNCHANGED executed, Sends(HearsChunk, o)
    PROVE  /\ Conn' /\ Requests' = Requests /\ UNCHANGED <<link, clean, mixed>>
           /\ open'.op \in {open.op, NoOp}
           /\ link = "up" /\ open.op = o =>
                 /\ open'.op = o /\ open'.chunks = open.chunks + 1 /\ open'.state = open.state
                 /\ UNCHANGED <<wire, todo>>
           /\ link # "up" \/ open = Garbled => UNCHANGED <<wire, open, todo>>
<1>1. UNCHANGED <<link, orphans, clean, mixed>> /\ link \in {"up", "half"}
  BY DEF Sends, Sent, histVars
<1>2. CASE link = "half"
  <2>1. UNCHANGED <<wire, open, todo>>
    BY <1>2 DEF Sends, Sent
  <2> QED
    BY <1>1, <1>2, <2>1, SentNowhere
<1>3. CASE link = "up" /\ open.op # NoOp
  <2>1. open' = [open EXCEPT !.chunks = @ + 1] /\ UNCHANGED <<wire, todo>>
    BY <1>3 DEF Sends, Sent, HearsChunk
  <2>2. /\ open' \in AnyRequest /\ open'.op = open.op /\ open'.chunks = open.chunks + 1
        /\ open'.state = open.state
    BY <2>1 DEF Conn, AnyRequest
  <2> QED
    BY <1>1, <1>3, <2>1, <2>2, IdleIsRequest DEF Conn, Requests
<1>4. CASE link = "up" /\ open.op = NoOp
  <2>1. Garbage
    BY <1>4 DEF Sends, Sent, HearsChunk
  <2>2. /\ wire' \in Seq(Units) /\ open' \in AnyRequest /\ todo' = todo /\ open'.op = NoOp
        /\ open = Garbled => UNCHANGED <<wire, open>>
    BY <2>1, GarbageTypes
  <2> QED
    BY <1>1, <1>4, <2>2, NoOpAssumption DEF Conn, Requests
<1> QED
  BY <1>1, <1>2, <1>3, <1>4

LEMMA SendsEnd ==
    ASSUME Conn, NEW o \in Ops, UNCHANGED executed, Sends(HearsEnd, o)
    PROVE  /\ Conn' /\ UNCHANGED <<link, clean, mixed>>
           /\ \A r \in Requests' : r \in Requests \/ r = open
           /\ open'.op = NoOp
           /\ link = "up" /\ open.op = o =>
                 /\ open' = Idle /\ UNCHANGED wire
                 /\ open.state = "refused" => todo' = todo
                 /\ open.state # "refused" => todo' = Append(todo, open)
           /\ link # "up" \/ open = Garbled => UNCHANGED <<wire, open, todo>>
<1>1. UNCHANGED <<link, orphans, clean, mixed>> /\ link \in {"up", "half"}
  BY DEF Sends, Sent, histVars
<1>2. CASE link = "half"
  <2>1. UNCHANGED <<wire, open, todo>>
    BY <1>2 DEF Sends, Sent
  <2>2. open.op = NoOp
    BY <1>2, IdleIsRequest DEF Conn
  <2> QED
    BY <1>1, <1>2, <2>1, <2>2, SentNowhere
<1>3. CASE link = "up" /\ open.op # NoOp
  <2>1. /\ open' = Idle /\ UNCHANGED wire
        /\ todo' = IF open.state = "refused" THEN todo ELSE Append(todo, open)
    BY <1>3 DEF Sends, Sent, HearsEnd
  <2>2. open \in Asked /\ todo \in Seq(Asked)
    BY <1>3 DEF Conn, Asked, AnyRequest
  <2>3. todo' \in Seq(Asked)
    BY <2>1, <2>2
  <2>4. \A r \in Range(todo') : r \in Range(todo) \/ r = open
    BY <2>1, <2>2, RangeAppend
  <2>5. Conn'
    BY <1>1, <1>3, <2>1, <2>3, IdleIsRequest DEF Conn
  <2>6. \A r \in Requests' : r \in Requests \/ r = open
    BY <1>1, <2>4 DEF Requests
  <2> QED
    BY <1>1, <1>3, <2>1, <2>5, <2>6, IdleIsRequest
<1>4. CASE link = "up" /\ open.op = NoOp
  <2>1. Garbage
    BY <1>4 DEF Sends, Sent, HearsEnd
  <2>2. /\ wire' \in Seq(Units) /\ open' \in AnyRequest /\ todo' = todo /\ open'.op = NoOp
        /\ open = Garbled => UNCHANGED <<wire, open>>
    BY <2>1, GarbageTypes
  <2> QED
    BY <1>1, <1>4, <2>2, NoOpAssumption DEF Conn, Requests
<1> QED
  BY <1>1, <1>2, <1>3, <1>4

LEMMA SendFailed ==
    ASSUME Conn, UNCHANGED executed, SendFails
    PROVE  /\ Conn' /\ Requests' = Requests /\ UNCHANGED <<wire, open, todo, clean, mixed>>
           /\ link \notin {"up"} /\ link' \in {"closed", "dead"}
           /\ link = "closed" => link' = "closed"
BY DEF SendFails, Conn, Links, Requests, histVars

LEMMA SendWasCut ==
    ASSUME Conn, UNCHANGED executed, NEW o, SendCut(o)
    PROVE  /\ Conn' /\ Requests' = Requests /\ clean' = FALSE /\ mixed' = mixed \cup {o}
           /\ open'.op \in {open.op, NoOp}
<1>1. /\ link = "up" /\ (open' = open \/ open' = Garbled) /\ clean' = FALSE /\ mixed' = mixed \cup {o}
      /\ UNCHANGED <<link, wire, todo, orphans>>
  BY DEF SendCut
<1> QED
  BY <1>1, IdleIsRequest DEF Conn, Requests

LEMMA LeftUnread ==
    ASSUME Conn, UNCHANGED executed, Unread
    PROVE  /\ Conn' /\ Requests' = Requests /\ UNCHANGED <<link, open, todo>>
           /\ link = "up" => wire' = wire
           /\ link # "up" => wire' = <<>>
<1>1. /\ wire' = IF link = "up" THEN wire ELSE <<>>
      /\ UNCHANGED <<link, open, todo, orphans>>
  BY DEF Unread
<1> QED
  BY <1>1 DEF Conn, Requests

-----------------------------------------------------------------------------
(* What is done to the operations. *)

(* o goes on to the step s, or ends with the verdict v. *)
Went(o, s) ==
    /\ UNCHANGED <<kind, sent, verdict>>
    /\ step' \in [Ops -> Steps] /\ step'[o] = s
    /\ \A p \in Ops : p # o => step'[p] = step[p]
    /\ InSession' = InSession

Ended(o, v) ==
    /\ UNCHANGED <<kind, sent>>
    /\ step' \in [Ops -> Steps] /\ step'[o] = "done"
    /\ verdict' \in [Ops -> Verdicts] /\ verdict'[o] = v
    /\ \A p \in Ops : p # o => step'[p] = step[p] /\ verdict'[p] = verdict[p]
    /\ InSession' = InSession \ {o}

LEMMA GoesOn ==
    ASSUME OpTypes, NEW o \in InSession, NEW s \in Steps \ {"idle", "done"}, Go(o, s)
    PROVE  Went(o, s)
<1>1. /\ step' = [step EXCEPT ![o] = s] /\ UNCHANGED <<kind, verdict, sent>>
      /\ step \in [Ops -> Steps] /\ o \in Ops
  BY DEF Go, OpTypes, InSession
<1>2. /\ step' \in [Ops -> Steps] /\ step'[o] = s
      /\ \A p \in Ops : p # o => step'[p] = step[p]
  BY <1>1
<1>3. \A p \in Ops : p \in InSession' <=> p \in InSession
  BY <1>2 DEF InSession
<1>4. InSession' = InSession
  BY <1>3 DEF InSession
<1> QED
  BY <1>1, <1>2, <1>4 DEF Went

LEMMA Ends ==
    ASSUME OpTypes, NEW o \in Ops, NEW v \in Verdicts, End(o, v)
    PROVE  Ended(o, v)
<1>1. /\ step' = [step EXCEPT ![o] = "done"] /\ verdict' = [verdict EXCEPT ![o] = v]
      /\ UNCHANGED <<kind, sent>> /\ step \in [Ops -> Steps] /\ verdict \in [Ops -> Verdicts]
      /\ "done" \in Steps
  BY DEF End, OpTypes, Steps
<1>2. /\ step' \in [Ops -> Steps] /\ step'[o] = "done"
      /\ verdict' \in [Ops -> Verdicts] /\ verdict'[o] = v
      /\ \A p \in Ops : p # o => step'[p] = step[p] /\ verdict'[p] = verdict[p]
  BY <1>1
<1>3. \A p \in Ops : p \in InSession' <=> p \in InSession \ {o}
  BY <1>2 DEF InSession
<1>4. InSession' = InSession \ {o}
  BY <1>3 DEF InSession
<1> QED
  BY <1>1, <1>2, <1>4 DEF Ended

(* An operation in session that saw only clean connections is alone. *)
LEMMA Alone ==
    ASSUME SessionInv, NEW o \in InSession
    PROVE  /\ o \notin mixed => clean
           /\ clean => AloneInv(o) /\ InSession = {o}
BY DEF SessionInv, InSession

(* The session after a step of o in it. *)
LEMMA SessionStays ==
    ASSUME SessionInv, NEW o \in InSession, InSession' = InSession, UNCHANGED <<clean, mixed>>,
           clean => AloneInv(o)'
    PROVE  SessionInv'
<1>1. clean => InSession = {o}
  BY Alone
<1>2. (clean => \A p, q \in InSession : p = q)' /\ (\A p \in InSession : p \notin mixed => clean)'
  BY DEF SessionInv
<1>3. (clean => \A p \in InSession : AloneInv(p))'
  <2> SUFFICES ASSUME clean', NEW p \in InSession'
               PROVE  AloneInv(p)'
    OBVIOUS
  <2>1. p = o
    BY <1>1
  <2> QED
    BY <2>1
<1>4. BetweenInv'
  BY DEF BetweenInv
<1> QED
  BY <1>2, <1>3, <1>4 DEF SessionInv

LEMMA SessionEnds ==
    ASSUME SessionInv, NEW o \in InSession, InSession' = InSession \ {o}, mixed \subseteq mixed',
           clean' => clean, clean' /\ bopen' /\ fresh' /\ open' # Garbled /\ link' \in {"up", "half"} => Neat'
    PROVE  SessionInv'
<1>1. clean => InSession' = {}
  BY Alone
<1>2. (clean => \A p, q \in InSession : p = q)' /\ (\A p \in InSession : p \notin mixed => clean)'
  BY <1>1 DEF SessionInv
<1>3. (clean => \A p \in InSession : AloneInv(p))'
  BY <1>1
<1>4. BetweenInv'
  BY DEF BetweenInv
<1> QED
  BY <1>2, <1>3, <1>4 DEF SessionInv

LEMMA SessionDirty ==
    ASSUME SessionInv, NEW o \in InSession, InSession' = InSession, clean' = FALSE,
           mixed' = mixed \cup {o}
    PROVE  SessionInv'
<1>1. \A p \in InSession : p \in mixed'
  BY Alone
<1> QED
  BY <1>1 DEF SessionInv, BetweenInv

-----------------------------------------------------------------------------
(* What a step of o leaves of the other parts of the invariant. *)

(* The request that the server receives. *)
KeepsOpen(o) ==
    /\ open'.op \in {open.op, NoOp, o}
    /\ open'.op = o /\ o \notin mixed' => step'[o] \in {"continue", "prepared"}

(* The requests that it has. *)
KeepsRequests(o) ==
    /\ \A r \in Requests' : \/ r \in Requests
                            \/ r.op = o /\ ~Undecided(o)'
                            \/ r.op = o /\ kind[o] = "download"
                            \/ r.op \in mixed'
    /\ kind[o] # "download" /\ ~Undecided(o) => ~Undecided(o)'

(* What o heard and was told. *)
KeepsHeard(o) ==
    /\ \A p \in Ops : p # o => buf'[p] = buf[p] /\ heard'[p] = heard[p]
    /\ o \notin mixed' => heard'[o] \subseteq heard[o] \cup {o}

KeepsReplies(o) ==
    /\ KeepsHeard(o)
    /\ o \notin mixed' /\ verdict'[o] = "ok" => Done(o)'

KeepsOthers(o) ==
    /\ UNCHANGED kind /\ mixed \subseteq mixed' /\ executed \subseteq executed'
    /\ \A p \in Ops : p # o => /\ step'[p] = step[p] /\ verdict'[p] = verdict[p]
                               /\ sent'[p] = sent[p]

StartOf(o) ==
    /\ step[o] \in {"idle", "built"} => buf[o] = <<>>
    /\ step[o] \in {"idle", "built", "continue"} => sent[o] = 0
    /\ step[o] # "done" => verdict[o] = "none"

LEMMA Keeps ==
    ASSUME NEW o \in Ops, StartInv, DecidedInv, OwnReply, OkIsDone, OpTypes,
           KeepsOthers(o), KeepsOpen(o), KeepsRequests(o), KeepsReplies(o), StartOf(o)',
           open.op \in Ops \cup {NoOp}, \A r \in Requests' : r.op \in Ops
    PROVE  StartInv' /\ DecidedInv' /\ OwnReply' /\ OkIsDone'
<1>1. StartInv'
  <2>1. \A p \in Ops : StartOf(p)'
    <3> SUFFICES ASSUME NEW p \in Ops, p # o
                 PROVE  StartOf(p)'
      OBVIOUS
    <3> QED
      BY DEF StartInv, StartOf, KeepsOthers, KeepsReplies, KeepsHeard
  <2> QED
    BY <2>1 DEF StartInv, StartOf
<1>2. (open.op \in Ops \ mixed => step[open.op] \in {"continue", "prepared"})'
  <2> SUFFICES ASSUME open'.op \in Ops, open'.op \notin mixed'
               PROVE  step'[open'.op] \in {"continue", "prepared"}
    OBVIOUS
  <2>1. CASE open'.op = o
    BY <2>1 DEF KeepsOpen
  <2>2. CASE open'.op # o
    <3>1. open'.op = open.op /\ open.op \in Ops \ mixed
      BY <2>2, NoOpAssumption DEF KeepsOpen, KeepsOthers
    <3> QED
      BY <2>2, <3>1 DEF DecidedInv, KeepsOthers
  <2> QED
    BY <2>1, <2>2
<1>3. ASSUME NEW r \in Requests', r.op \notin mixed', kind'[r.op] # "download"
      PROVE  ~Undecided(r.op)'
  <2>1. kind[r.op] # "download" /\ r.op \notin mixed /\ r.op \in Ops
    BY <1>3 DEF KeepsOthers
  <2>2. CASE r.op = o
    <3>1. r \in Requests => ~Undecided(o)
      BY <2>1, <2>2 DEF DecidedInv
    <3> QED
      BY <1>3, <2>1, <2>2, <3>1 DEF KeepsRequests
  <2>3. CASE r.op # o
    <3>1. r \in Requests
      BY <1>3, <2>1, <2>3 DEF KeepsRequests
    <3>2. ~Undecided(r.op)
      BY <2>1, <3>1 DEF DecidedInv
    <3>3. step'[r.op] = step[r.op] /\ verdict'[r.op] = verdict[r.op]
      BY <2>1, <2>3 DEF KeepsOthers
    <3> QED
      BY <3>2, <3>3 DEF Undecided
  <2> QED
    BY <2>2, <2>3
<1>4. DecidedInv'
  BY <1>2, <1>3 DEF DecidedInv
<1>5. OwnReply'
  <2> SUFFICES ASSUME NEW p \in Ops, p \notin mixed'
               PROVE  heard'[p] \subseteq {p}
    BY DEF OwnReply
  <2>1. heard[p] \subseteq {p}
    BY DEF OwnReply, KeepsOthers
  <2> QED
    BY <2>1 DEF KeepsReplies, KeepsHeard
<1>6. OkIsDone'
  <2> SUFFICES ASSUME NEW p \in Ops, p \notin mixed', verdict'[p] = "ok"
               PROVE  Done(p)'
    BY DEF OkIsDone, Done
  <2>1. CASE p = o
    BY <2>1 DEF KeepsReplies
  <2>2. CASE p # o
    <3>1. verdict[p] = "ok" /\ p \notin mixed
      BY <2>2 DEF KeepsOthers
    <3>2. PICK r \in executed : r.op = p /\ r.chunks = sent[p]
      BY <3>1 DEF OkIsDone
    <3> QED
      BY <2>2, <3>2 DEF KeepsOthers, Done
  <2> QED
    BY <2>1, <2>2
<1> QED
  BY <1>1, <1>4, <1>5, <1>6

(* The requests of the connection are those of operations. *)
LEMMA RequestsOf ==
    ASSUME Conn
    PROVE  /\ open.op \in Ops \cup {NoOp} /\ \A r \in Requests : r.op \in Ops
BY DEF Conn, AnyRequest, Asked, Requests, Range

-----------------------------------------------------------------------------
(* Reading. *)

LEMMA InputIsPending ==
    ASSUME Types, NEW o \in Ops
    PROVE  /\ Pending(o) \in Seq(Units) /\ (HasInput(o) <=> Pending(o) # <<>>)
           /\ HasInput(o) => Input(o) = Pending(o)[1] /\ Input(o) \in Units
<1>1. buf[o] \in Seq(Units) /\ wire \in Seq(Units)
  BY DEF Types, OpTypes, Conn
<1>2. Pending(o) \in Seq(Units) /\ Len(Pending(o)) = Len(buf[o]) + Len(wire)
  BY <1>1 DEF Pending
<1>3. HasInput(o) <=> Pending(o) # <<>>
  BY <1>1, <1>2 DEF HasInput
<1>4. CASE buf[o] # <<>>
  <2>1. Input(o) = buf[o][1] /\ Pending(o)[1] = buf[o][1] /\ buf[o][1] \in Units
    BY <1>1, <1>4 DEF Input, Pending
  <2> QED
    BY <1>2, <1>3, <2>1
<1>5. CASE buf[o] = <<>>
  <2>1. Pending(o) = wire
    BY <1>1, <1>5 DEF Pending
  <2>2. wire # <<>> => Input(o) = wire[1] /\ wire[1] \in Units
    BY <1>1, <1>5 DEF Input
  <2> QED
    BY <1>2, <1>3, <2>1, <2>2
<1> QED
  BY <1>4, <1>5

(* What parsing does to the memory of o. *)
Parsed(o) ==
    /\ buf' \in [Ops -> Seq(Units)] /\ status' \in [Ops -> Codes \cup {"none"}]
    /\ heard' \in [Ops -> SUBSET (Ops \cup {NoOp})]
    /\ \A p \in Ops : p # o => buf'[p] = buf[p] /\ heard'[p] = heard[p] /\ status'[p] = status[p]
    /\ heard'[o] = heard[o] \cup {Pending(o)[1].of}
    /\ status'[o] = IF Pending(o)[1].part = "rest" THEN status[o] ELSE Pending(o)[1].part
    /\ Pending(o) \in Seq(Units) /\ Pending(o) # <<>>

LEMMA ParsesInput ==
    ASSUME Types, NEW o \in Ops, Parse(o),
           buf' \in [Ops -> Seq(Units)], \A p \in Ops : p # o => buf'[p] = buf[p]
    PROVE  Parsed(o)
<1>1. PICK u : u = Pending(o)[1]
  OBVIOUS
<1>2. HasInput(o) /\ Input(o) = u /\ u \in Units /\ Pending(o) \in Seq(Units) /\ Pending(o) # <<>>
  BY <1>1, InputIsPending DEF Parse
<1>3. /\ heard' = [heard EXCEPT ![o] = @ \cup {u.of}]
      /\ status' = [status EXCEPT ![o] = IF u.part = "rest" THEN @ ELSE u.part]
  BY <1>2 DEF Parse
<1>4. u.of \in Ops \cup {NoOp} /\ u.part \in Codes \cup {"rest"}
  BY <1>2 DEF Units
<1>5. heard \in [Ops -> SUBSET (Ops \cup {NoOp})] /\ status \in [Ops -> Codes \cup {"none"}]
  BY DEF Types, OpTypes
<1>6. heard' \in [Ops -> SUBSET (Ops \cup {NoOp})] /\ heard'[o] = heard[o] \cup {u.of}
  BY <1>3, <1>4, <1>5
<1>7. /\ status' \in [Ops -> Codes \cup {"none"}]
      /\ status'[o] = IF u.part = "rest" THEN status[o] ELSE u.part
  BY <1>3, <1>4, <1>5
<1>8. \A p \in Ops : p # o => heard'[p] = heard[p] /\ status'[p] = status[p]
  BY <1>3, <1>5
<1> QED
  BY <1>1, <1>2, <1>6, <1>7, <1>8 DEF Parsed

(* One read of the socket leaves a part of what it brought in the buffer. *)
LEMMA SplitWire ==
    ASSUME NEW w \in Seq(Units), w # <<>>, NEW k \in 1 .. Len(w)
    PROVE  /\ SubSeq(w, 2, k) \in Seq(Units) /\ SubSeq(w, k + 1, Len(w)) \in Seq(Units)
           /\ SubSeq(w, 2, k) \o SubSeq(w, k + 1, Len(w)) = Tail(w)
<1> DEFINE a == SubSeq(w, 2, k)
           b == SubSeq(w, k + 1, Len(w))
<1>1. Len(w) \in Nat /\ k \in Nat /\ 1 <= k /\ k <= Len(w)
  OBVIOUS
<1>2. a \in Seq(Units) /\ Len(a) = k - 1 /\ \A i \in 1 .. k - 1 : a[i] = w[i + 1]
  <2>1. 2 \in 1 .. Len(w) + 1 /\ k \in 1 .. Len(w)
    BY <1>1
  <2>2. a \in Seq(Units) /\ Len(a) = IF 2 <= k THEN k - 2 + 1 ELSE 0
    BY <1>1, <2>1, SubSeqProperties
  <2>3. \A i \in 1 .. k - 2 + 1 : a[i] = w[2 + i - 1]
    BY <1>1, <2>1, SubSeqProperties
  <2> QED
    BY <1>1, <2>2, <2>3
<1>3. b \in Seq(Units) /\ Len(b) = Len(w) - k /\ \A i \in 1 .. Len(w) - k : b[i] = w[k + i]
  <2>1. k + 1 \in 1 .. Len(w) + 1
    BY <1>1
  <2>2. b \in Seq(Units) /\ Len(b) = IF k + 1 <= Len(w) THEN Len(w) - (k + 1) + 1 ELSE 0
    BY <1>1, <2>1, SubSeqProperties
  <2>3. \A i \in 1 .. Len(w) - (k + 1) + 1 : b[i] = w[(k + 1) + i - 1]
    BY <1>1, <2>1, SubSeqProperties
  <2> QED
    BY <1>1, <2>2, <2>3
<1>4. Tail(w) \in Seq(Units) /\ Len(Tail(w)) = Len(w) - 1 /\ \A i \in 1 .. Len(w) - 1 : Tail(w)[i] = w[i + 1]
  OBVIOUS
<1> HIDE DEF a, b
<1>8. Len(a) + Len(b) = Len(w) - 1
  BY <1>1, <1>2, <1>3
<1>5. a \o b \in Seq(Units) /\ Len(a \o b) = Len(w) - 1
  BY <1>2, <1>3, <1>8, ConcatProperties
<1>6. ASSUME NEW i \in 1 .. Len(w) - 1
      PROVE  (a \o b)[i] = Tail(w)[i]
  <2>1. CASE i <= k - 1
    BY <1>1, <1>2, <1>3, <1>4, <2>1
  <2>2. CASE i > k - 1
    <3>1. (a \o b)[i] = b[i - (k - 1)]
      BY <1>1, <1>2, <1>3, <2>2
    <3>2. i - (k - 1) \in 1 .. Len(w) - k /\ k + (i - (k - 1)) = i + 1
      BY <1>1, <2>2
    <3>3. b[i - (k - 1)] = w[i + 1]
      BY <1>3, <3>2
    <3> QED
      BY <1>4, <3>1, <3>3
  <2>3. i <= k - 1 \/ i > k - 1
    BY <1>1
  <2> QED
    BY <2>1, <2>2, <2>3
<1>7. a \o b = Tail(w)
  <2>1. Len(a \o b) = Len(Tail(w)) /\ Len(a \o b) = Len(w) - 1
    BY <1>4, <1>5
  <2> QED
    BY <1>4, <1>5, <1>6, <2>1, SeqEqual
<1> QED
  BY <1>2, <1>3, <1>7 DEF a, b

LEMMA TailOfBoth ==
    ASSUME NEW b \in Seq(Units), NEW w \in Seq(Units), b # <<>>
    PROVE  Tail(b) \o w = Tail(b \o w) /\ Tail(b) \in Seq(Units)
<1>1. Tail(b) \in Seq(Units) /\ Len(Tail(b)) = Len(b) - 1 /\ \A i \in 1 .. Len(b) - 1 : Tail(b)[i] = b[i + 1]
  OBVIOUS
<1>2. b \o w \in Seq(Units) /\ Len(b \o w) = Len(b) + Len(w) /\ Len(b) \in Nat \ {0} /\ Len(w) \in Nat
  OBVIOUS
<1>3. /\ Tail(b \o w) \in Seq(Units) /\ Len(Tail(b \o w)) = Len(b) + Len(w) - 1
      /\ \A i \in 1 .. Len(b) + Len(w) - 1 : Tail(b \o w)[i] = (b \o w)[i + 1]
  BY <1>2
<1>4. Tail(b) \o w \in Seq(Units) /\ Len(Tail(b) \o w) = Len(b) + Len(w) - 1
  BY <1>1, <1>2
<1>5. ASSUME NEW i \in 1 .. Len(b) + Len(w) - 1
      PROVE  (Tail(b) \o w)[i] = (b \o w)[i + 1]
  <2>1. CASE i <= Len(b) - 1
    BY <1>1, <1>2, <2>1
  <2>2. CASE i > Len(b) - 1
    <3>1. (Tail(b) \o w)[i] = w[i - (Len(b) - 1)]
      BY <1>1, <1>2, <2>2
    <3>2. (b \o w)[i + 1] = w[i + 1 - Len(b)]
      BY <1>2, <2>2
    <3>3. i - (Len(b) - 1) = i + 1 - Len(b)
      BY <1>2
    <3> QED
      BY <3>1, <3>2, <3>3
  <2> QED
    BY <1>2, <2>1, <2>2
<1> QED
  BY <1>1, <1>3, <1>4, <1>5

LEMMA ReadsPending ==
    ASSUME Types, NEW o \in Ops, Reads(o)
    PROVE  /\ Parsed(o) /\ Conn' /\ Requests' = Requests
           /\ UNCHANGED <<link, open, todo, executed, bopen, fresh, holder, clean, mixed>>
           /\ Pending(o)' = Tail(Pending(o))
<1>1. buf \in [Ops -> Seq(Units)] /\ wire \in Seq(Units)
  BY DEF Types, OpTypes, Conn
<1>2. UNCHANGED <<link, open, todo, orphans, executed, bopen, fresh, holder, clean, mixed>> /\ Parse(o)
  BY DEF Reads, mapVars, histVars
<1>3. CASE buf[o] # <<>>
  <2>1. buf' = [buf EXCEPT ![o] = Tail(@)] /\ UNCHANGED wire
    BY <1>3 DEF Reads, TakeInput
  <2>2. buf'[o] = Tail(buf[o]) /\ \A p \in Ops : p # o => buf'[p] = buf[p]
    BY <1>1, <2>1
  <2>3. Tail(buf[o]) \in Seq(Units) /\ Tail(buf[o]) \o wire = Tail(buf[o] \o wire)
    BY <1>1, <1>3, TailOfBoth
  <2>4. buf' \in [Ops -> Seq(Units)]
    BY <1>1, <2>1, <2>3
  <2>5. Parsed(o)
    BY <1>2, <2>2, <2>4, ParsesInput
  <2>6. Pending(o)' = Tail(Pending(o))
    BY <2>1, <2>2, <2>3 DEF Pending
  <2> QED
    BY <1>2, <2>1, <2>5, <2>6 DEF Types, Conn, Requests
<1>4. CASE buf[o] = <<>>
  <2>1. PICK k \in 1 .. Len(wire) :
            /\ buf' = [buf EXCEPT ![o] = SubSeq(wire, 2, k)]
            /\ wire' = SubSeq(wire, k + 1, Len(wire))
    BY <1>4 DEF Reads, TakeInput
  <2>2. wire # <<>>
    BY <1>1, <2>1
  <2>3. buf'[o] = SubSeq(wire, 2, k) /\ \A p \in Ops : p # o => buf'[p] = buf[p]
    BY <1>1, <2>1
  <2>4. /\ SubSeq(wire, 2, k) \in Seq(Units) /\ wire' \in Seq(Units)
        /\ SubSeq(wire, 2, k) \o wire' = Tail(wire)
    BY <1>1, <2>1, <2>2, SplitWire
  <2>5. buf' \in [Ops -> Seq(Units)]
    BY <1>1, <2>1, <2>4
  <2>6. Parsed(o)
    BY <1>2, <2>3, <2>5, ParsesInput
  <2>7. Pending(o) = wire
    BY <1>1, <1>4 DEF Pending
  <2>8. Pending(o)' = Tail(Pending(o))
    BY <2>3, <2>4, <2>7 DEF Pending
  <2>9. link # "closed"
    BY <2>2 DEF Types, Conn
  <2> QED
    BY <1>2, <2>4, <2>6, <2>8, <2>9 DEF Types, Conn, Requests
<1> QED
  BY <1>3, <1>4

LEMMA ReadsThenCloses ==
    ASSUME Types, NEW o \in Ops, ReadsAndCloses(o)
    PROVE  /\ Parsed(o) /\ Conn' /\ Requests' = Requests /\ Neat' /\ link' = "closed"
           /\ UNCHANGED <<executed, bopen, fresh, holder, clean, mixed>>
<1>1. UNCHANGED <<executed, bopen, fresh, holder, clean, mixed>> /\ Parse(o) /\ Close
  BY DEF ReadsAndCloses, mapVars, histVars
<1>2. buf' \in [Ops -> Seq(Units)] /\ \A p \in Ops : p # o => buf'[p] = buf[p]
  BY DEF ReadsAndCloses, Types, OpTypes
<1>3. Parsed(o)
  BY <1>1, <1>2, ParsesInput
<1>4. Conn' /\ Requests' = Requests /\ Neat' /\ link' = "closed"
  BY <1>1, Closed DEF Types
<1> QED
  BY <1>1, <1>3, <1>4

(* A read that fails leaves an upload either alone with the timer, which    *)
(* has expired then, or on a socket that will be connected again.           *)
LEMMA FailsToRead ==
    ASSUME Types, NEW o \in Ops, ReadFails(o)
    PROVE  /\ UNCHANGED <<executed, bopen, holder, clean, mixed, status, buf, heard>>
           /\ fresh' \in BOOLEAN /\ buf[o] = <<>> /\ Pending(o) = wire
           /\ holder = o /\ fresh' => link # "up"
<1>1. /\ buf[o] = <<>> /\ fresh' = (fresh /\ ~(link = "up" /\ holder = o))
      /\ UNCHANGED <<executed, bopen, holder, clean, mixed, status, buf, heard>>
  BY DEF ReadFails, ReadLateOrBroken, histVars, replyVars
<1>2. Pending(o) = wire
  BY <1>1 DEF Pending, Types, Conn
<1> QED
  BY <1>1, <1>2

-----------------------------------------------------------------------------
(* The steps of an operation in session. *)

LEMMA TypesStay ==
    ASSUME Types, Conn', NEW o \in Ops, NEW x, Went(o, x) \/ Ended(o, x),
           Parsed(o) \/ UNCHANGED <<status, buf, heard>>,
           UNCHANGED <<bopen, holder>>, fresh' \in BOOLEAN, clean' \in BOOLEAN, mixed' \subseteq Ops
    PROVE  Types'
<1>1. kind' = kind /\ sent' = sent /\ step' \in [Ops -> Steps] /\ verdict' \in [Ops -> Verdicts]
  BY DEF Went, Ended, Types, OpTypes
<1>2. /\ status' \in [Ops -> Codes \cup {"none"}] /\ buf' \in [Ops -> Seq(Units)]
      /\ heard' \in [Ops -> SUBSET (Ops \cup {NoOp})]
  BY DEF Parsed, Types, OpTypes
<1> QED
  BY <1>1, <1>2 DEF Types, OpTypes

LEMMA EndStep ==
    ASSUME IInv, NEW o \in InSession, NEW v \in Verdicts, Ended(o, v), Types',
           UNCHANGED executed, Requests' = Requests, mixed \subseteq mixed', clean' => clean,
           clean' /\ bopen' /\ fresh' /\ open' # Garbled /\ link' \in {"up", "half"} => Neat',
           open'.op \in {open.op, NoOp}, open'.op = o => o \in mixed',
           KeepsHeard(o), v = "ok" /\ o \notin mixed' => Done(o),
           kind[o] = "download" \/ Undecided(o) \/ v \notin {"unprepared", "aborted"}
    PROVE  IInv'
<1>1. o \in Ops /\ InSession' = InSession \ {o} /\ step'[o] = "done" /\ verdict'[o] = v
  BY DEF Ended, InSession
<1>2. SessionInv'
  BY <1>1, SessionEnds DEF IInv
<1>3. KeepsOthers(o)
  BY DEF KeepsOthers, Ended
<1>4. KeepsOpen(o)
  BY DEF KeepsOpen
<1>5. KeepsRequests(o)
  BY <1>1 DEF KeepsRequests, Undecided
<1>6. KeepsReplies(o)
  BY <1>1 DEF KeepsReplies, Done, Ended
<1>7. StartOf(o)'
  BY <1>1 DEF StartOf
<1>8. open.op \in Ops \cup {NoOp} /\ \A r \in Requests' : r.op \in Ops
  BY RequestsOf DEF IInv, Types
<1>9. StartInv' /\ DecidedInv' /\ OwnReply' /\ OkIsDone'
  BY <1>1, <1>3, <1>4, <1>5, <1>6, <1>7, <1>8, Keeps DEF IInv, Types
<1> QED
  BY <1>2, <1>9 DEF IInv

LEMMA GoStep ==
    ASSUME IInv, NEW o \in InSession, NEW s \in Steps \ {"idle", "done"}, Went(o, s), Types',
           UNCHANGED <<executed, clean, mixed>>, clean => AloneInv(o)',
           KeepsOpen(o), KeepsRequests(o), KeepsHeard(o),
           s = "built" => buf'[o] = <<>>, s \in {"built", "continue"} => sent[o] = 0
    PROVE  IInv'
<1>1. /\ o \in Ops /\ InSession' = InSession /\ step'[o] = s /\ verdict' = verdict /\ sent' = sent
      /\ step[o] # "done"
  BY DEF Went, InSession
<1>2. SessionInv'
  BY <1>1, SessionStays DEF IInv
<1>3. KeepsOthers(o)
  BY DEF KeepsOthers, Went
<1>4. verdict'[o] = "none"
  BY <1>1 DEF IInv, StartInv
<1>5. KeepsReplies(o)
  BY <1>4 DEF KeepsReplies
<1>6. StartOf(o)'
  BY <1>1, <1>4 DEF StartOf
<1>7. open.op \in Ops \cup {NoOp} /\ \A r \in Requests' : r.op \in Ops
  <2>1. open.op \in Ops \cup {NoOp}
    BY RequestsOf DEF IInv, Types
  <2>2. (\A r \in Requests : r.op \in Ops)'
    BY DEF Types, Conn, AnyRequest, Asked, Requests, Range
  <2> QED
    BY <2>1, <2>2
<1>8. StartInv' /\ DecidedInv' /\ OwnReply' /\ OkIsDone'
  BY <1>1, <1>3, <1>5, <1>6, <1>7, Keeps DEF IInv, Types
<1> QED
  BY <1>2, <1>8 DEF IInv

(* The facts that the steps of an operation need. *)
LEMMA AtStep ==
    ASSUME IInv, NEW o \in Ops, step[o] \notin {"idle", "done"}
    PROVE  /\ o \in InSession /\ Types /\ Conn /\ OpTypes /\ SessionInv /\ OwnReply /\ OkIsDone
           /\ verdict[o] = "none"
           /\ buf[o] \in Seq(Units) /\ wire \in Seq(Units) /\ sent[o] \in Nat
           /\ step[o] = "built" => buf[o] = <<>>
           /\ step[o] \in {"built", "continue"} => sent[o] = 0
           /\ step[o] \notin {"continue", "prepared"} /\ o \notin mixed => open.op # o
           /\ o \notin mixed => clean
           /\ clean => AloneInv(o)
           /\ clean \in BOOLEAN /\ mixed \subseteq Ops /\ fresh \in BOOLEAN
<1>1. o \in InSession
  BY DEF InSession
<1>2. SessionInv /\ Types /\ Conn /\ OpTypes
  BY DEF IInv, Types
<1>3. /\ o \notin mixed => clean
      /\ clean => AloneInv(o)
  BY <1>1, <1>2, Alone
<1>4. sent[o] \in Nat
  BY <1>2, ChunksAssumption DEF OpTypes
<1>5. step[o] \notin {"continue", "prepared"} /\ o \notin mixed => open.op # o
  BY DEF IInv, DecidedInv
<1>6. buf[o] \in Seq(Units) /\ wire \in Seq(Units) /\ clean \in BOOLEAN /\ mixed \subseteq Ops /\ fresh \in BOOLEAN
  BY <1>2 DEF Conn, OpTypes
<1>7. /\ verdict[o] = "none"
      /\ step[o] = "built" => buf[o] = <<>>
      /\ step[o] \in {"built", "continue"} => sent[o] = 0
  BY DEF IInv, StartInv
<1> QED
  BY <1>1, <1>2, <1>3, <1>4, <1>5, <1>6, <1>7 DEF IInv

(* An operation that gives up its connection. *)
LEMMA Leaves ==
    ASSUME IInv, NEW o \in Ops, step[o] \notin {"idle", "done"}, NEW v \in Verdicts \ {"ok"},
           End(o, v), Conn', Requests' = Requests, link' \notin {"up", "half"}, open'.op = NoOp,
           UNCHANGED <<executed, bopen, holder, clean, mixed>>, fresh' \in BOOLEAN,
           Parsed(o) \/ UNCHANGED <<status, buf, heard>>, KeepsHeard(o),
           kind[o] = "download" \/ step[o] \in {"built", "continue", "prepared"} \/ v = "failed"
    PROVE  IInv'
<1>1. o \in InSession /\ Types /\ OpTypes /\ clean \in BOOLEAN /\ mixed \subseteq Ops
  BY AtStep
<1>2. Ended(o, v)
  BY <1>1, Ends
<1>3. Types'
  BY <1>1, <1>2, TypesStay
<1>4. kind[o] = "download" \/ Undecided(o) \/ v \notin {"unprepared", "aborted"}
  BY DEF Undecided
<1> QED
  BY <1>1, <1>2, <1>3, <1>4, NoOpAssumption, EndStep

LEMMA NobodyHeard ==
    ASSUME NEW o \in Ops, UNCHANGED <<buf, heard>>
    PROVE  KeepsHeard(o)
BY DEF KeepsHeard

LEMMA ClosesAndLeaves ==
    ASSUME IInv, NEW o \in Ops, step[o] \notin {"idle", "done"}, NEW v \in Verdicts \ {"ok"},
           End(o, v), Closes,
           kind[o] = "download" \/ step[o] \in {"built", "continue", "prepared"} \/ v = "failed"
    PROVE  IInv'
<1>1. Types /\ Conn
  BY AtStep
<1>2. Close /\ UNCHANGED <<executed, bopen, holder, fresh, clean, mixed, status, buf, heard>>
  BY DEF Closes, mapVars, histVars, replyVars
<1>3. Conn' /\ Neat' /\ Requests' = Requests /\ link' = "closed"
  BY <1>1, <1>2, Closed
<1>4. open'.op = NoOp
  BY <1>3, IdleIsRequest DEF Neat
<1>5. KeepsHeard(o)
  BY <1>2, NobodyHeard
<1>6. fresh' \in BOOLEAN
  BY <1>1, <1>2 DEF Types, OpTypes
<1> QED
  BY <1>2, <1>3, <1>4, <1>5, <1>6, Leaves

(* What a clean operation has to parse answers it. *)
LEMMA PendingIsOwn ==
    ASSUME IInv, NEW o \in Ops, step[o] \notin {"idle", "built", "done"}
    PROVE  clean => Of(Pending(o), o)
<1>1. /\ step[o] \in Steps /\ buf[o] \in Seq(Units) /\ wire \in Seq(Units)
      /\ clean => AloneInv(o)
  BY AtStep DEF Types, OpTypes
<1>2. step[o] = "continue" /\ clean => Of(Pending(o), o)
  <2>1. buf[o] = <<>> => Pending(o) = wire
    BY <1>1 DEF Pending
  <2> QED
    BY <1>1, <2>1 DEF AloneInv, ContinueInv
<1> QED
  BY <1>1, <1>2 DEF Steps, AloneInv, PreparedInv, FinalInv, RestInv

LEMMA HearsItself ==
    ASSUME IInv, NEW o \in Ops, step[o] \notin {"idle", "built", "done"}, Parsed(o), UNCHANGED mixed
    PROVE  KeepsHeard(o)
<1>1. o \notin mixed => Of(Pending(o), o)
  BY PendingIsOwn, AtStep
<1>2. PICK s : s = Pending(o)
  OBVIOUS
<1>3. s \in Seq(Units) /\ s # <<>> /\ (o \notin mixed => Of(s, o))
  BY <1>1, <1>2 DEF Parsed
<1>4. o \notin mixed => s[1].of = o
  BY <1>3 DEF Of
<1>5. o \notin mixed => Pending(o)[1].of = o
  BY <1>2, <1>4
<1> QED
  BY <1>5 DEF KeepsHeard, Parsed

LEMMA ReadsClosesAndLeaves ==
    ASSUME IInv, NEW o \in Ops, step[o] \notin {"idle", "built", "done"}, NEW v \in Verdicts \ {"ok"},
           End(o, v), ReadsAndCloses(o) \/ (ReadFails(o) /\ Close),
           kind[o] = "download" \/ step[o] \in {"continue", "prepared"} \/ v = "failed"
    PROVE  IInv'
<1>1. Types /\ Conn /\ fresh \in BOOLEAN
  BY AtStep
<1>2. CASE ReadsAndCloses(o)
  <2>1. /\ Parsed(o) /\ Conn' /\ Requests' = Requests /\ Neat' /\ link' = "closed"
        /\ UNCHANGED <<executed, bopen, fresh, holder, clean, mixed>>
    BY <1>1, <1>2, ReadsThenCloses
  <2>2. open'.op = NoOp
    BY <2>1, IdleIsRequest DEF Neat
  <2>3. KeepsHeard(o)
    BY <2>1, HearsItself
  <2>4. fresh' \in BOOLEAN /\ link' \notin {"up", "half"}
    BY <1>1, <2>1
  <2> QED
    BY <2>1, <2>2, <2>3, <2>4, Leaves
<1>3. CASE ReadFails(o) /\ Close
  <2>1. /\ UNCHANGED <<executed, bopen, holder, clean, mixed, status, buf, heard>>
        /\ fresh' \in BOOLEAN
    BY <1>1, <1>3, FailsToRead
  <2>2. Conn' /\ Neat' /\ Requests' = Requests /\ link' = "closed"
    BY <1>1, <1>3, <2>1, Closed
  <2>3. open'.op = NoOp /\ KeepsHeard(o)
    BY <2>1, <2>2, IdleIsRequest, NobodyHeard DEF Neat
  <2> QED
    BY <2>1, <2>2, <2>3, Leaves
<1> QED
  BY <1>2, <1>3

-----------------------------------------------------------------------------
(* Uploads. *)

LEMMA SameRequests ==
    ASSUME NEW o \in Ops, NEW s, Went(o, s), verdict[o] = "none", Requests' = Requests,
           step[o] \in {"built", "continue", "prepared"} \/ s \in {"final", "rest", "reading"}
    PROVE  KeepsRequests(o)
BY DEF KeepsRequests, Went, Undecided

(* A send that fails or is cut ends the operation on a connection that is   *)
(* not used again, or is not clean.                                         *)
LEMMA SendsAndLeaves ==
    ASSUME IInv, NEW o \in Ops, step[o] \in {"built", "prepared"}, NEW v \in {"unprepared", "failed"},
           End(o, v), SendFails \/ SendCut(o), Unchanged
    PROVE  IInv'
<1>1. /\ o \in InSession /\ Types /\ Conn /\ OpTypes /\ clean \in BOOLEAN /\ mixed \subseteq Ops
      /\ fresh \in BOOLEAN
  BY AtStep
<1>2. UNCHANGED <<executed, bopen, fresh, holder, status, buf, heard>>
  BY DEF Unchanged, mapVars, replyVars
<1>3. KeepsHeard(o)
  BY <1>2, NobodyHeard
<1>4. CASE SendFails
  <2>1. /\ Conn' /\ Requests' = Requests /\ UNCHANGED <<open, clean, mixed>>
        /\ link # "up" /\ link' \in {"closed", "dead"}
    BY <1>1, <1>2, <1>4, SendFailed
  <2>2. open'.op = NoOp
    BY <1>1, <2>1, IdleIsRequest DEF Conn
  <2> QED
    BY <1>1, <1>2, <1>3, <2>1, <2>2, Leaves DEF Verdicts
<1>5. CASE SendCut(o)
  <2>1. /\ Conn' /\ Requests' = Requests /\ clean' = FALSE /\ mixed' = mixed \cup {o}
        /\ open'.op \in {open.op, NoOp}
    BY <1>1, <1>2, <1>5, SendWasCut
  <2>2. Ended(o, v)
    BY <1>1, Ends DEF Verdicts
  <2>3. fresh' \in BOOLEAN /\ clean' \in BOOLEAN /\ mixed' \subseteq Ops
    BY <1>1, <1>2, <2>1
  <2>4. Types'
    BY <1>1, <1>2, <2>1, <2>2, <2>3, TypesStay
  <2>5. Undecided(o)
    BY DEF Undecided
  <2> QED
    BY <1>1, <1>2, <1>3, <2>1, <2>2, <2>4, <2>5, EndStep DEF Verdicts
<1> QED
  BY <1>4, <1>5

LEMMA NothingBuffered ==
    ASSUME NEW o \in Ops, buf'[o] = <<>>, wire' \in Seq(Units)
    PROVE  Pending(o)' = wire'
BY DEF Pending

LEMMA UploadIsPrepared ==
    ASSUME IInv, NEW o \in Ops, PrepareUpload(o)
    PROVE  IInv'
<1>1. kind[o] = "upload" /\ step[o] = "built"
  BY DEF PrepareUpload, UploadAt
<1>2. /\ o \in InSession /\ Types /\ Conn /\ OpTypes /\ verdict[o] = "none"
      /\ buf[o] = <<>> /\ sent[o] = 0
      /\ clean => AloneInv(o)
      /\ clean \in BOOLEAN /\ mixed \subseteq Ops /\ fresh \in BOOLEAN
  BY <1>1, AtStep
<1>3. UNCHANGED <<executed, bopen, fresh, holder, status, buf, heard>>
  BY DEF PrepareUpload, Unchanged, mapVars, replyVars
<1>4. CASE Sends(HearsBody, o) /\ Go(o, "prepared")
  <2>1. Went(o, "prepared")
    BY <1>2, <1>4, GoesOn DEF Steps
  <2>2. /\ Conn' /\ Requests' = Requests /\ UNCHANGED <<link, clean, mixed>> /\ link \in {"up", "half"}
        /\ open'.op \in {open.op, o, NoOp}
        /\ Neat => /\ wire' = <<>> /\ todo' = <<>>
                   /\ link = "up" => open'.op = o /\ open'.chunks = 0 /\ open'.state = "body"
    BY <1>2, <1>3, <1>4, SendsHeaders
  <2>3. Types'
    BY <1>2, <1>3, <2>1, <2>2, TypesStay
  <2>4. ASSUME clean
        PROVE  AloneInv(o)'
    <3>1. Neat /\ HolderInv(o)
      BY <1>1, <1>2, <2>2, <2>4 DEF AloneInv, BuiltInv
    <3>2. wire' = <<>> /\ todo' = <<>> /\ (link' = "up" => open'.op = o /\ open'.chunks = 0 /\ open'.state = "body")
      BY <2>2, <3>1
    <3>3. Pending(o)' = <<>>
      BY <1>2, <1>3, <2>3, <3>2, NothingBuffered DEF Types, Conn
    <3>4. sent'[o] = 0 /\ step'[o] = "prepared" /\ kind' = kind
      BY <1>2, <2>1 DEF Went
    <3>5. PreparedInv(o)'
      BY <3>2, <3>3, <3>4, NothingPending DEF PreparedInv
    <3>6. HolderInv(o)'
      BY <1>3, <3>1, <3>4 DEF HolderInv
    <3> QED
      BY <3>4, <3>5, <3>6 DEF AloneInv, BuiltInv, ContinueInv, FinalInv, RestInv
  <2>5. KeepsOpen(o)
    BY <2>1, <2>2 DEF KeepsOpen, Went
  <2>6. KeepsRequests(o)
    BY <1>1, <1>2, <2>1, <2>2, SameRequests
  <2>7. KeepsHeard(o)
    BY <1>3, NobodyHeard
  <2> QED
    BY <1>2, <1>3, <2>1, <2>2, <2>3, <2>4, <2>5, <2>6, <2>7, GoStep DEF Steps
<1>5. CASE (SendFails \/ SendCut(o)) /\ End(o, "unprepared")
  BY <1>1, <1>5, SendsAndLeaves DEF PrepareUpload
<1> QED
  BY <1>4, <1>5 DEF PrepareUpload

(* The end of a request on the connection of o. *)
LEMMA RequestEnds ==
    ASSUME IInv, NEW o \in Ops, step[o] = "prepared", kind[o] # "download",
           Sends(HearsEnd, o), Go(o, "final"), Unchanged
    PROVE  IInv'
<1>1. /\ o \in InSession /\ Types /\ Conn /\ OpTypes /\ SessionInv /\ verdict[o] = "none"
      /\ clean => AloneInv(o)
      /\ clean \in BOOLEAN /\ mixed \subseteq Ops /\ fresh \in BOOLEAN
      /\ buf[o] \in Seq(Units) /\ wire \in Seq(Units)
  BY AtStep
<1>2. UNCHANGED <<executed, bopen, fresh, holder, status, buf, heard>>
  BY DEF Unchanged, mapVars, replyVars
<1>3. Went(o, "final")
  BY <1>1, GoesOn DEF Steps
<1>4. /\ Conn' /\ UNCHANGED <<link, clean, mixed>>
      /\ \A r \in Requests' : r \in Requests \/ r = open
      /\ open'.op = NoOp
      /\ link = "up" /\ open.op = o =>
            /\ open' = Idle /\ UNCHANGED wire
            /\ open.state = "refused" => todo' = todo
            /\ open.state # "refused" => todo' = Append(todo, open)
      /\ link # "up" \/ open = Garbled => UNCHANGED <<wire, open, todo>>
  BY <1>1, <1>2, SendsEnd
<1>5. Types'
  BY <1>1, <1>2, <1>3, <1>4, TypesStay
<1>6. ASSUME clean
      PROVE  AloneInv(o)'
  <2>1. PICK s : s = Pending(o)
    OBVIOUS
  <2>2. /\ Of(s, o) /\ NoSuccess(s) /\ (Sound => OneReply(s))
        /\ open = Garbled => todo = <<>>
        /\ open # Garbled /\ link = "up" =>
              /\ open.op = o /\ open.chunks = sent[o] /\ todo = <<>>
              /\ (open.state = "body" /\ s = <<>>) \/ open.state = "refused"
        /\ HolderInv(o)
    BY <1>1, <1>6, <2>1 DEF AloneInv, PreparedInv
  <2>3. UNCHANGED wire /\ Pending(o)' = s
    BY <1>2, <1>4, <2>1, <2>2 DEF Pending
  <2>4. /\ open' = Idle \/ open' = Garbled
        /\ open' = Garbled => open = Garbled /\ todo' = <<>>
        /\ Sound' => OneReply(s)
    BY <1>1, <1>4, <2>2, IdleIsRequest DEF Conn, Sound
  <2>5. todo' = <<>> \/ (Len(todo') = 1 /\ todo'[1] = open /\ open.op = o /\ open.chunks = sent[o] /\ s = <<>>)
    <3>1. CASE link # "up" \/ open = Garbled
      BY <1>1, <1>4, <2>2, <3>1 DEF Conn
    <3>2. CASE link = "up" /\ open # Garbled /\ open.state = "refused"
      BY <1>4, <2>2, <3>2
    <3>3. CASE link = "up" /\ open # Garbled /\ open.state = "body" /\ s = <<>>
      BY <1>4, <2>2, <3>3
    <3> QED
      BY <2>2, <3>1, <3>2, <3>3
  <2>6. sent' = sent /\ step'[o] = "final" /\ kind' = kind
    BY <1>3 DEF Went
  <2>7. FinalInv(o)'
    BY <2>2, <2>3, <2>4, <2>5, <2>6 DEF FinalInv
  <2>8. HolderInv(o)'
    BY <1>2, <2>2, <2>6 DEF HolderInv
  <2> QED
    BY <2>6, <2>7, <2>8 DEF AloneInv, BuiltInv, ContinueInv, PreparedInv, RestInv
<1>7. KeepsOpen(o)
  BY <1>4, NoOpAssumption DEF KeepsOpen
<1>8. KeepsRequests(o)
  <2>1. ~Undecided(o)'
    BY <1>1, <1>3 DEF Undecided, Went
  <2>2. ASSUME NEW r \in Requests', r \notin Requests
        PROVE  r.op \in mixed' \/ r.op = o
    <3>1. r = open
      BY <1>4, <2>2
    <3>2. r.op \in Ops
      <4>1. (\A q \in Requests : q.op \in Ops)'
        BY <1>5 DEF Types, Conn, AnyRequest, Asked, Requests, Range
      <4> QED
        BY <4>1
    <3>3. r.op \notin mixed => r.op \in InSession
      BY <3>1, <3>2 DEF IInv, DecidedInv, InSession
    <3>4. r.op \notin mixed => clean /\ r.op = o
      BY <1>1, <3>3, Alone
    <3> QED
      BY <1>4, <3>4
  <2> QED
    BY <2>1, <2>2 DEF KeepsRequests
<1>9. KeepsHeard(o)
  BY <1>2, NobodyHeard
<1> QED
  BY <1>1, <1>2, <1>3, <1>4, <1>5, <1>6, <1>7, <1>8, <1>9, GoStep DEF Steps

LEMMA UploadIsCommitted ==
    ASSUME IInv, NEW o \in Ops, CommitUpload(o)
    PROVE  IInv'
<1>1. kind[o] = "upload" /\ step[o] = "prepared" /\ Unchanged
  BY DEF CommitUpload, UploadAt
<1>2. CASE Sends(HearsEnd, o) /\ Go(o, "final")
  BY <1>1, <1>2, RequestEnds
<1>3. CASE (SendFails \/ SendCut(o)) /\ End(o, "failed")
  BY <1>1, <1>3, SendsAndLeaves
<1> QED
  BY <1>2, <1>3 DEF CommitUpload

LEMMA UploadIsAborted ==
    ASSUME IInv, NEW o \in Ops, AbortUpload(o)
    PROVE  IInv'
BY ClosesAndLeaves DEF AbortUpload, UploadAt, Verdicts

-----------------------------------------------------------------------------

(* A chunk that is sent: the server counts it when it receives the request. *)
LEMMA ChunkIsWritten ==
    ASSUME IInv, NEW o \in Ops, Write(o)
    PROVE  IInv'
<1>1. /\ kind[o] = "upload" /\ step[o] = "prepared" /\ sent[o] < Chunks
      /\ sent' = [sent EXCEPT ![o] = @ + 1]
      /\ UNCHANGED <<kind, step, verdict, executed, bopen, fresh, holder, status, buf, heard>>
  BY DEF Write, UploadAt, Unchanged, mapVars, replyVars
<1>2. /\ o \in InSession /\ Types /\ Conn /\ OpTypes /\ SessionInv /\ verdict[o] = "none"
      /\ clean => AloneInv(o)
      /\ o \notin mixed => clean
      /\ clean \in BOOLEAN /\ mixed \subseteq Ops
      /\ buf[o] \in Seq(Units) /\ wire \in Seq(Units) /\ sent[o] \in Nat
  BY <1>1, AtStep
<1>3. sent[o] + 1 \in 0 .. Chunks
  BY <1>1, <1>2, ChunksAssumption DEF OpTypes
<1>4. sent' \in [Ops -> 0 .. Chunks] /\ sent'[o] = sent[o] + 1 /\ \A p \in Ops : p # o => sent'[p] = sent[p]
  BY <1>1, <1>2, <1>3 DEF OpTypes
<1>5. InSession' = InSession
  BY <1>1 DEF InSession
<1>6. /\ Conn' /\ Requests' = Requests /\ open'.op \in {open.op, NoOp}
      /\ \/ clean' = FALSE /\ mixed' = mixed \cup {o}
         \/ UNCHANGED <<clean, mixed>> /\ (clean => PreparedInv(o)')
  <2>1. CASE SendCut(o)
    BY <1>1, <1>2, <2>1, SendWasCut
  <2>2. CASE SendFails
    <3>1. /\ Conn' /\ Requests' = Requests /\ UNCHANGED <<wire, open, todo, clean, mixed>>
          /\ link # "up" /\ link' # "up" /\ (link' = "closed" \/ link # "closed")
      BY <1>1, <1>2, <2>2, SendFailed
    <3>2. PICK s : s = Pending(o)
      OBVIOUS
    <3>3. Pending(o)' = s
      BY <1>1, <3>1, <3>2 DEF Pending
    <3>4. clean => /\ Of(s, o) /\ NoSuccess(s) /\ (Sound => OneReply(s))
                   /\ open = Garbled => todo = <<>>
      BY <1>1, <1>2, <3>2 DEF AloneInv, PreparedInv
    <3> QED
      BY <3>1, <3>3, <3>4 DEF PreparedInv, Sound
  <2>3. CASE Sends(HearsChunk, o)
    <3>1. /\ Conn' /\ Requests' = Requests /\ UNCHANGED <<link, clean, mixed>>
          /\ open'.op \in {open.op, NoOp}
          /\ link = "up" /\ open.op = o =>
                /\ open'.op = o /\ open'.chunks = open.chunks + 1 /\ open'.state = open.state
                /\ UNCHANGED <<wire, todo>>
          /\ link # "up" \/ open = Garbled => UNCHANGED <<wire, open, todo>>
      BY <1>1, <1>2, <2>3, SendsChunk
    <3>2. PICK s : s = Pending(o)
      OBVIOUS
    <3>3. ASSUME clean
          PROVE  PreparedInv(o)'
      <4>1. /\ Of(s, o) /\ NoSuccess(s) /\ (Sound => OneReply(s))
            /\ open = Garbled => todo = <<>>
            /\ open # Garbled /\ link = "up" =>
                  /\ open.op = o /\ open.chunks = sent[o] /\ todo = <<>>
                  /\ (open.state = "body" /\ s = <<>>) \/ open.state = "refused"
        BY <1>1, <1>2, <3>2, <3>3 DEF AloneInv, PreparedInv
      <4>2. UNCHANGED wire /\ Pending(o)' = s
        BY <1>1, <3>1, <3>2, <4>1 DEF Pending
      <4>3. open # Garbled /\ link = "up" =>
                /\ open'.op = o /\ open'.chunks = sent'[o] /\ todo' = <<>>
                /\ open'.state = open.state
        BY <1>4, <3>1, <4>1
      <4>4. open' = Garbled <=> open = Garbled
        BY <1>2, <3>1, <4>1, NoOpAssumption, IdleIsRequest DEF Conn
      <4> QED
        BY <3>1, <4>1, <4>2, <4>3, <4>4 DEF PreparedInv, Sound
    <3> QED
      BY <3>1, <3>3
  <2> QED
    BY <2>1, <2>2, <2>3 DEF Write
<1>7. clean' \in BOOLEAN /\ mixed \subseteq mixed' /\ mixed' \subseteq Ops
  BY <1>2, <1>6
<1>8. Types'
  BY <1>1, <1>2, <1>4, <1>6, <1>7 DEF Types, OpTypes
<1>9. SessionInv'
  <2>1. CASE clean' = FALSE /\ mixed' = mixed \cup {o}
    BY <1>2, <1>5, <2>1, SessionDirty
  <2>2. CASE UNCHANGED <<clean, mixed>> /\ (clean => PreparedInv(o)')
    <3>1. clean => HolderInv(o)'
      BY <1>1, <1>2 DEF AloneInv, HolderInv
    <3>2. clean => AloneInv(o)'
      BY <1>1, <2>2, <3>1 DEF AloneInv, BuiltInv, ContinueInv, FinalInv, RestInv
    <3> QED
      BY <1>2, <1>5, <2>2, <3>2, SessionStays
  <2> QED
    BY <1>6, <2>1, <2>2
<1>10. KeepsOthers(o)
  BY <1>1, <1>4, <1>7 DEF KeepsOthers
<1>11. KeepsOpen(o)
  BY <1>1, <1>6 DEF KeepsOpen
<1>12. KeepsRequests(o)
  BY <1>1, <1>6 DEF KeepsRequests, Undecided
<1>13. KeepsReplies(o)
  BY <1>1, <1>2, NobodyHeard DEF KeepsReplies
<1>14. StartOf(o)'
  BY <1>1, <1>2 DEF StartOf
<1>15. open.op \in Ops \cup {NoOp} /\ \A r \in Requests' : r.op \in Ops
  BY <1>2, <1>6, RequestsOf
<1>16. StartInv' /\ DecidedInv' /\ OwnReply' /\ OkIsDone'
  BY <1>2, <1>10, <1>11, <1>12, <1>13, <1>14, <1>15, Keeps DEF IInv
<1> QED
  BY <1>8, <1>9, <1>16 DEF IInv

(* The headers of a final reply. *)
LEMMA HeadersAreRead ==
    ASSUME IInv, NEW o \in Ops, step[o] = "final", NEW s \in {"rest", "reading"},
           HasInput(o), Input(o).part # "rest", Reads(o), Go(o, s),
           kind[o] = "removal" => Input(o).part = "200"
    PROVE  IInv'
<1>1. /\ o \in InSession /\ Types /\ Conn /\ OpTypes /\ SessionInv /\ verdict[o] = "none"
      /\ clean => AloneInv(o)
      /\ o \notin mixed => open.op # o
      /\ clean \in BOOLEAN /\ mixed \subseteq Ops /\ fresh \in BOOLEAN
  BY AtStep
<1>2. /\ Parsed(o) /\ Conn' /\ Requests' = Requests
      /\ UNCHANGED <<link, open, todo, executed, bopen, fresh, holder, clean, mixed>>
      /\ Pending(o)' = Tail(Pending(o))
  BY <1>1, ReadsPending
<1>3. Went(o, s)
  BY <1>1, GoesOn DEF Steps
<1>4. Types'
  BY <1>1, <1>2, <1>3, TypesStay
<1>5. ASSUME clean
      PROVE  AloneInv(o)'
  <2>1. PICK p, t : p = Pending(o) /\ t = Tail(p)
    OBVIOUS
  <2>2. p \in Seq(Units) /\ p # <<>> /\ Input(o) = p[1]
    BY <1>1, <2>1, InputIsPending
  <2>3. /\ Of(p, o) /\ (Sound => OneReply(p)) /\ (open = Idle \/ open = Garbled)
        /\ ~NoSuccess(p) => Done(o)
        /\ todo = <<>>
        /\ HolderInv(o)
    BY <1>1, <1>5, <2>1, <2>2 DEF AloneInv, FinalInv
  <2>4. Of(t, o) /\ (Sound => Len(t) <= 1)
    <3>1. t \in Seq(Units) /\ Len(t) = Len(p) - 1 /\ Of(t, o)
      BY <2>1, <2>2, <2>3, TailOf
    <3>2. (Sound => Len(p) <= 2) /\ Len(p) \in Nat
      BY <2>2, <2>3 DEF OneReply
    <3> QED
      BY <3>1, <3>2
  <2>5. p[1].part = "200" => Done(o)
    BY <2>2, <2>3 DEF NoSuccess
  <2>6. status'[o] = p[1].part
    BY <1>2, <2>1, <2>2 DEF Parsed
  <2>7. sent' = sent /\ kind' = kind /\ step'[o] = s
    BY <1>3 DEF Went
  <2>8. Done(o) => Done(o)'
    BY <1>2, <2>7 DEF Done
  <2>9. Pending(o)' = t
    BY <1>2, <2>1
  <2>10. status'[o] = "200" => Done(o)'
    BY <2>5, <2>6, <2>8
  <2>11. kind'[o] = "removal" => status'[o] = "200"
    BY <2>2, <2>6, <2>7
  <2>12. RestInv(o)'
    BY <1>2, <2>3, <2>4, <2>9, <2>10, <2>11 DEF RestInv, Sound
  <2>13. HolderInv(o)'
    BY <1>2, <2>3, <2>7 DEF HolderInv
  <2> QED
    BY <2>7, <2>12, <2>13 DEF AloneInv, BuiltInv, ContinueInv, PreparedInv, FinalInv
<1>6. KeepsOpen(o)
  BY <1>1, <1>2 DEF KeepsOpen
<1>7. KeepsRequests(o)
  BY <1>1, <1>2, <1>3, SameRequests
<1>8. KeepsHeard(o)
  BY <1>2, HearsItself
<1> QED
  BY <1>1, <1>2, <1>3, <1>4, <1>5, <1>6, <1>7, <1>8, GoStep DEF Steps

(* The end of an operation that reads the rest of its reply: nothing more   *)
(* is on its way.                                                           *)
LEMMA RestIsRead ==
    ASSUME IInv, NEW o \in Ops, step[o] \in {"final", "rest", "reading"},
           NEW v \in {"ok", "failed", "read"}, Reads(o), End(o, v),
           step[o] = "final" => Input(o).part = "rest",
           v = "ok" => step[o] = "rest" /\ (kind[o] = "removal" \/ status[o] = "200")
    PROVE  IInv'
<1>1. /\ o \in InSession /\ Types /\ Conn /\ OpTypes /\ SessionInv /\ verdict[o] = "none"
      /\ clean => AloneInv(o)
      /\ o \notin mixed => open.op # o /\ clean
      /\ clean \in BOOLEAN /\ mixed \subseteq Ops /\ fresh \in BOOLEAN
  BY AtStep
<1>2. /\ Parsed(o) /\ Conn' /\ Requests' = Requests
      /\ UNCHANGED <<link, open, todo, executed, bopen, fresh, holder, clean, mixed>>
      /\ Pending(o)' = Tail(Pending(o))
  BY <1>1, ReadsPending
<1>3. v \in Verdicts /\ Ended(o, v)
  BY <1>1, Ends DEF Verdicts
<1>4. Types'
  BY <1>1, <1>2, <1>3, TypesStay
<1>5. clean' /\ open' # Garbled /\ link' \in {"up", "half"} => Neat'
  <2> SUFFICES ASSUME clean, Sound
               PROVE  Neat'
    BY <1>2 DEF Sound
  <2>1. PICK p, t : p = Pending(o) /\ t = Tail(p)
    OBVIOUS
  <2>2. p \in Seq(Units) /\ p # <<>> /\ (HasInput(o) => Input(o) = p[1])
    BY <1>1, <1>2, <2>1, InputIsPending DEF Parsed
  <2>3. step[o] # "final"
    <3>1. step[o] = "final" => p[1].part \in {"200", "404", "500"}
      BY <1>1, <2>1, <2>2 DEF AloneInv, FinalInv, OneReply
    <3>2. HasInput(o)
      BY DEF Reads, Parse
    <3> QED
      BY <2>2, <3>1, <3>2
  <2>4. Len(p) <= 1 /\ open = Idle /\ todo = <<>>
    BY <1>1, <2>1, <2>3 DEF AloneInv, RestInv, Sound
  <2>5. t \in Seq(Units) /\ Len(t) = 0
    <3>1. t \in Seq(Units) /\ Len(t) = Len(p) - 1
      BY <2>1, <2>2, TailOf
    <3>2. Len(p) \in Nat /\ Len(t) \in Nat
      BY <2>2, <3>1
    <3> QED
      BY <2>4, <3>1, <3>2
  <2>6. t = <<>>
    BY <2>5
  <2>7. buf'[o] \in Seq(Units) /\ wire' \in Seq(Units) /\ Pending(o)' = <<>>
    BY <1>1, <1>2, <1>4, <2>1, <2>6 DEF Types, OpTypes, Conn
  <2>8. wire' = <<>>
    BY <2>7 DEF Pending
  <2> QED
    BY <1>2, <2>4, <2>8 DEF Neat
<1>6. KeepsHeard(o)
  BY <1>2, HearsItself
<1>7. v = "ok" /\ o \notin mixed' => Done(o)
  BY <1>1, <1>2 DEF AloneInv, RestInv
<1> QED
  BY <1>1, <1>2, <1>3, <1>4, <1>5, <1>6, <1>7, EndStep

(* An upload that reads no more of its reply: the timer of its socket has   *)
(* expired, or the peer is gone.                                            *)
LEMMA RestIsLeft ==
    ASSUME IInv, NEW o \in Ops, step[o] \in {"final", "rest"}, kind[o] = "upload",
           NEW v \in {"ok", "failed"}, ReadFails(o), Unread, End(o, v),
           v = "ok" => step[o] = "rest" /\ status[o] = "200"
    PROVE  IInv'
<1>1. /\ o \in InSession /\ Types /\ Conn /\ OpTypes /\ SessionInv /\ verdict[o] = "none"
      /\ clean => AloneInv(o)
      /\ o \notin mixed => open.op # o /\ clean
      /\ clean \in BOOLEAN /\ mixed \subseteq Ops /\ fresh \in BOOLEAN
  BY AtStep
<1>2. /\ UNCHANGED <<executed, bopen, holder, clean, mixed, status, buf, heard>>
      /\ fresh' \in BOOLEAN
      /\ holder = o /\ fresh' => link # "up"
  BY <1>1, FailsToRead
<1>3. /\ Conn' /\ Requests' = Requests /\ UNCHANGED <<link, open, todo>>
      /\ link # "up" => wire' = <<>>
  BY <1>1, <1>2, LeftUnread
<1>4. v \in Verdicts /\ Ended(o, v)
  BY <1>1, Ends DEF Verdicts
<1>5. Types'
  BY <1>1, <1>2, <1>3, <1>4, TypesStay
<1>6. clean' /\ bopen' /\ fresh' /\ open' # Garbled => Neat'
  <2> SUFFICES ASSUME clean, bopen, fresh', open' # Garbled
               PROVE  Neat'
    BY <1>2
  <2>1. holder = o
    BY <1>1 DEF AloneInv, HolderInv
  <2>2. link # "up"
    BY <1>2, <2>1
  <2> QED
    BY <1>1, <1>3, <2>2 DEF Conn, Neat
<1>7. KeepsHeard(o)
  BY <1>2, NobodyHeard
<1>8. v = "ok" /\ o \notin mixed' => Done(o)
  BY <1>1, <1>2 DEF AloneInv, RestInv
<1> QED
  BY <1>1, <1>2, <1>3, <1>4, <1>5, <1>6, <1>7, <1>8, EndStep

LEMMA UploadIsAnswered ==
    ASSUME IInv, NEW o \in Ops, UploadReply(o) \/ UploadRest(o)
    PROVE  IInv'
<1>1. CASE UploadReply(o)
  <2>1. kind[o] = "upload" /\ step[o] = "final"
    BY <1>1 DEF UploadReply, UploadAt
  <2>2. CASE HasInput(o) /\ Input(o).part # "rest" /\ Reads(o) /\ Go(o, "rest")
    BY <2>1, <2>2, HeadersAreRead
  <2>3. CASE HasInput(o) /\ Input(o).part = "rest" /\ Reads(o) /\ End(o, "failed")
    BY <2>1, <2>3, RestIsRead
  <2>4. CASE ReadFails(o) /\ Unread /\ End(o, "failed")
    BY <2>1, <2>4, RestIsLeft
  <2> QED
    BY <1>1, <2>2, <2>3, <2>4 DEF UploadReply
<1>2. CASE UploadRest(o)
  <2>1. kind[o] = "upload" /\ step[o] = "rest"
    BY <1>2 DEF UploadRest, UploadAt
  <2>2. PICK v \in {"ok", "failed"} : End(o, v) /\ (v = "ok" => status[o] = "200")
    BY <1>2 DEF UploadRest
  <2>3. CASE Reads(o)
    BY <2>1, <2>2, <2>3, RestIsRead
  <2>4. CASE ReadFails(o) /\ Unread
    BY <2>1, <2>2, <2>4, RestIsLeft
  <2> QED
    BY <1>2, <2>3, <2>4 DEF UploadRest
<1> QED
  BY <1>1, <1>2

-----------------------------------------------------------------------------
(* Removals and downloads. *)

LEMMA RemovalIsPrepared ==
    ASSUME IInv, NEW o \in Ops, PrepareRemoval(o)
    PROVE  IInv'
<1>1. kind[o] = "removal" /\ step[o] = "built"
  BY DEF PrepareRemoval, RemovalAt
<1>2. /\ o \in InSession /\ Types /\ Conn /\ OpTypes /\ verdict[o] = "none"
      /\ buf[o] = <<>> /\ sent[o] = 0
      /\ clean => AloneInv(o)
      /\ clean \in BOOLEAN /\ mixed \subseteq Ops /\ fresh \in BOOLEAN
  BY <1>1, AtStep
<1>3. CASE Sends(HearsExpect, o) /\ Go(o, "continue") /\ Unchanged
  <2>1. Went(o, "continue")
    BY <1>2, <1>3, GoesOn DEF Steps
  <2>2. UNCHANGED <<executed, bopen, fresh, holder, status, buf, heard>>
    BY <1>3 DEF Unchanged, mapVars, replyVars
  <2>3. /\ Conn' /\ Requests' = Requests /\ UNCHANGED <<link, clean, mixed>> /\ link \in {"up", "half"}
        /\ open'.op \in {open.op, o, NoOp}
        /\ Neat => /\ wire' = <<>> /\ todo' = <<>>
                   /\ link = "up" => open'.op = o /\ open'.chunks = 0 /\ open'.state = "expect"
    BY <1>2, <1>3, <2>2, SendsHeaders
  <2>4. Types'
    BY <1>2, <2>1, <2>2, <2>3, TypesStay
  <2>5. ASSUME clean
        PROVE  AloneInv(o)'
    <3>1. Neat
      BY <1>1, <1>2, <2>3, <2>5 DEF AloneInv, BuiltInv
    <3>2. /\ wire' = <<>> /\ todo' = <<>>
          /\ link' = "up" => open'.op = o /\ open'.chunks = 0 /\ open'.state = "expect"
      BY <2>3, <3>1
    <3>3. buf'[o] = <<>> /\ step'[o] = "continue" /\ kind'[o] = "removal"
      BY <1>1, <1>2, <2>1, <2>2 DEF Went
    <3>4. ContinueInv(o)'
      BY <3>2, <3>3, NothingPending DEF ContinueInv
    <3> QED
      BY <3>3, <3>4 DEF AloneInv, BuiltInv, PreparedInv, FinalInv, RestInv, HolderInv
  <2>6. KeepsOpen(o)
    BY <2>1, <2>3 DEF KeepsOpen, Went
  <2>7. KeepsRequests(o)
    BY <1>1, <1>2, <2>1, <2>3, SameRequests
  <2>8. KeepsHeard(o)
    BY <2>2, NobodyHeard
  <2> QED
    BY <1>2, <2>1, <2>2, <2>3, <2>4, <2>5, <2>6, <2>7, <2>8, GoStep DEF Steps
<1>4. CASE Fails(o)
  BY <1>1, <1>4, ClosesAndLeaves DEF Fails, Verdicts
<1> QED
  BY <1>3, <1>4 DEF PrepareRemoval

LEMMA DownloadIsPrepared ==
    ASSUME IInv, NEW o \in Ops, PrepareDownload(o)
    PROVE  IInv'
<1>1. kind[o] = "download" /\ step[o] = "built"
  BY DEF PrepareDownload, DownloadAt
<1>2. /\ o \in InSession /\ Types /\ Conn /\ OpTypes /\ verdict[o] = "none"
      /\ buf[o] = <<>> /\ sent[o] = 0
      /\ clean => AloneInv(o)
      /\ o \notin mixed => open.op # o
      /\ clean \in BOOLEAN /\ mixed \subseteq Ops /\ fresh \in BOOLEAN
  BY <1>1, AtStep
<1>3. CASE Sends(HearsWhole, o) /\ Go(o, "final") /\ Unchanged
  <2>1. Went(o, "final")
    BY <1>2, <1>3, GoesOn DEF Steps
  <2>2. UNCHANGED <<executed, bopen, fresh, holder, status, buf, heard>>
    BY <1>3 DEF Unchanged, mapVars, replyVars
  <2>3. /\ Conn' /\ UNCHANGED <<link, clean, mixed>> /\ link \in {"up", "half"}
        /\ \A r \in Requests' : r \in Requests \/ r.op = o
        /\ open'.op \in {open.op, NoOp}
        /\ Neat => /\ wire' = <<>> /\ open' = Idle
                   /\ \/ todo' = <<>>
                      \/ Len(todo') = 1 /\ todo'[1].op = o /\ todo'[1].chunks = 0
    BY <1>2, <1>3, <2>2, SendsWhole
  <2>4. Types'
    BY <1>2, <2>1, <2>2, <2>3, TypesStay
  <2>5. ASSUME clean
        PROVE  AloneInv(o)'
    <3>1. Neat
      BY <1>1, <1>2, <2>3, <2>5 DEF AloneInv, BuiltInv
    <3>2. buf'[o] = <<>> /\ step'[o] = "final" /\ kind'[o] = "download" /\ sent'[o] = 0
      BY <1>1, <1>2, <2>1, <2>2 DEF Went
    <3>3. wire' \in Seq(Units)
      BY <2>3 DEF Conn
    <3>4. Pending(o)' = <<>>
      BY <2>3, <3>1, <3>2, <3>3, NothingBuffered
    <3>5. FinalInv(o)'
      BY <2>3, <3>1, <3>2, <3>4, NothingPending, IdleIsRequest DEF FinalInv
    <3> QED
      BY <3>2, <3>5 DEF AloneInv, BuiltInv, ContinueInv, PreparedInv, RestInv, HolderInv
  <2>6. KeepsOpen(o)
    BY <1>2, <2>3, NoOpAssumption DEF KeepsOpen
  <2>7. KeepsRequests(o)
    BY <1>1, <2>3 DEF KeepsRequests
  <2>8. KeepsHeard(o)
    BY <2>2, NobodyHeard
  <2> QED
    BY <1>2, <2>1, <2>2, <2>3, <2>4, <2>5, <2>6, <2>7, <2>8, GoStep DEF Steps
<1>4. CASE Fails(o)
  BY <1>1, <1>4, ClosesAndLeaves DEF Fails, Verdicts
<1> QED
  BY <1>3, <1>4 DEF PrepareDownload

(* The 100 of a removal that is alone is all that is on its way, or the     *)
(* server refused it since.                                                 *)
LEMMA RemovalIsAllowed ==
    ASSUME IInv, NEW o \in Ops, ReadContinue(o)
    PROVE  IInv'
<1>1. kind[o] = "removal" /\ step[o] = "continue"
  BY DEF ReadContinue, RemovalAt
<1>2. /\ o \in InSession /\ Types /\ Conn /\ OpTypes /\ verdict[o] = "none" /\ sent[o] = 0
      /\ clean => AloneInv(o)
      /\ clean \in BOOLEAN /\ mixed \subseteq Ops /\ fresh \in BOOLEAN
      /\ buf[o] \in Seq(Units) /\ wire \in Seq(Units)
  BY <1>1, AtStep
<1>3. CASE HasInput(o) /\ Input(o).part = "100" /\ Reads(o) /\ Go(o, "prepared")
  <2>1. Went(o, "prepared")
    BY <1>2, <1>3, GoesOn DEF Steps
  <2>2. /\ Parsed(o) /\ Conn' /\ Requests' = Requests
        /\ UNCHANGED <<link, open, todo, executed, bopen, fresh, holder, clean, mixed>>
        /\ Pending(o)' = Tail(Pending(o))
    BY <1>2, <1>3, ReadsPending
  <2>3. Types'
    BY <1>2, <2>1, <2>2, TypesStay
  <2>4. ASSUME clean
        PROVE  AloneInv(o)'
    <3>1. PICK p, t : p = Pending(o) /\ t = Tail(p)
      OBVIOUS
    <3>2. p \in Seq(Units) /\ p # <<>> /\ Input(o) = p[1] /\ p[1].part = "100"
      BY <1>2, <1>3, <3>1, InputIsPending
    <3>3. p = wire
      BY SMTT(30), <1>1, <1>2, <2>4, <3>1 DEF AloneInv, ContinueInv, Pending
    <3>4. /\ Of(p, o) /\ NoSuccess(p) /\ (Sound => OneReply(t))
          /\ open = Garbled => todo = <<>>
          /\ open # Garbled /\ link = "up" =>
                /\ open.op = o /\ open.chunks = 0 /\ todo = <<>>
                /\ \/ open.state = "expect" /\ p = <<>>
                   \/ open.state = "body" /\ p = <<Unit(o, "100")>>
                   \/ open.state = "refused"
      BY <1>1, <1>2, <2>4, <3>1, <3>2, <3>3 DEF AloneInv, ContinueInv
    <3>5. Of(t, o) /\ NoSuccess(t)
      BY <3>1, <3>2, <3>4, TailOf
    <3>6. p = <<Unit(o, "100")>> => t = <<>>
      BY <3>1
    <3>7. Pending(o)' = t /\ sent'[o] = 0 /\ step'[o] = "prepared" /\ kind'[o] = "removal"
      BY <1>1, <1>2, <2>1, <2>2, <3>1 DEF Went
    <3>8. PreparedInv(o)'
      BY <2>2, <3>2, <3>4, <3>5, <3>6, <3>7 DEF PreparedInv, Sound
    <3> QED
      BY <3>7, <3>8 DEF AloneInv, BuiltInv, ContinueInv, FinalInv, RestInv, HolderInv
  <2>5. KeepsOpen(o)
    BY <2>1, <2>2 DEF KeepsOpen, Went
  <2>6. KeepsRequests(o)
    BY <1>1, <1>2, <2>1, <2>2, SameRequests
  <2>7. KeepsHeard(o)
    BY <1>1, <2>2, HearsItself
  <2> QED
    BY <1>2, <2>1, <2>2, <2>3, <2>4, <2>5, <2>6, <2>7, GoStep DEF Steps
<1>4. CASE (ReadsAndCloses(o) \/ (ReadFails(o) /\ Close)) /\ End(o, "unprepared")
  BY <1>1, <1>4, ReadsClosesAndLeaves DEF Verdicts
<1> QED
  BY <1>3, <1>4 DEF ReadContinue

LEMMA RemovalIsCommitted ==
    ASSUME IInv, NEW o \in Ops, CommitRemoval(o)
    PROVE  IInv'
<1>1. kind[o] = "removal" /\ step[o] = "prepared"
  BY DEF CommitRemoval, RemovalAt
<1>2. CASE Sends(HearsEnd, o) /\ Go(o, "final") /\ Unchanged
  BY <1>1, <1>2, RequestEnds
<1>3. CASE Closes /\ End(o, "failed")
  BY <1>1, <1>3, ClosesAndLeaves DEF Verdicts
<1> QED
  BY <1>2, <1>3 DEF CommitRemoval

LEMMA RemovalIsAnswered ==
    ASSUME IInv, NEW o \in Ops, RemovalReply(o)
    PROVE  IInv'
<1>1. kind[o] = "removal" /\ step[o] = "final"
  BY DEF RemovalReply, RemovalAt
<1>2. CASE HasInput(o) /\ Input(o).part = "200" /\ Reads(o) /\ Go(o, "rest")
  BY <1>1, <1>2, HeadersAreRead
<1>3. CASE (ReadsAndCloses(o) \/ (ReadFails(o) /\ Close)) /\ End(o, "failed")
  BY <1>1, <1>3, ReadsClosesAndLeaves DEF Verdicts
<1> QED
  BY <1>2, <1>3 DEF RemovalReply

LEMMA RemovalIsSkipped ==
    ASSUME IInv, NEW o \in Ops, RemovalSkip(o)
    PROVE  IInv'
<1>1. kind[o] = "removal" /\ step[o] = "rest" /\ End(o, "ok")
  BY DEF RemovalSkip, RemovalAt
<1>2. /\ o \in InSession /\ Types /\ Conn /\ OpTypes
      /\ clean => AloneInv(o)
      /\ o \notin mixed => open.op # o /\ clean
      /\ clean \in BOOLEAN /\ mixed \subseteq Ops /\ fresh \in BOOLEAN
      /\ buf[o] \in Seq(Units) /\ wire \in Seq(Units)
  BY <1>1, AtStep
<1>3. CASE Reads(o)
  BY <1>1, <1>3, RestIsRead
<1>4. CASE /\ buf[o] = <<>> /\ clean' = (clean /\ link # "up") /\ Unread
           /\ UNCHANGED <<mapVars, executed, mixed, replyVars>>
  <2>1. UNCHANGED <<executed, bopen, fresh, holder, mixed, status, buf, heard>>
    BY <1>4 DEF mapVars, replyVars
  <2>2. /\ Conn' /\ Requests' = Requests /\ UNCHANGED <<link, open, todo>>
        /\ link # "up" => wire' = <<>>
    BY <1>2, <1>4, <2>1, LeftUnread
  <2>3. Ended(o, "ok")
    BY <1>1, <1>2, Ends DEF Verdicts
  <2>4. Types'
    BY <1>2, <1>4, <2>1, <2>2, <2>3, TypesStay
  <2>5. clean' /\ open' # Garbled => Neat'
    BY <1>1, <1>2, <1>4, <2>2 DEF AloneInv, RestInv, Neat
  <2>6. KeepsHeard(o)
    BY <2>1, NobodyHeard
  <2>7. o \notin mixed' => Done(o)
    BY <1>1, <1>2, <2>1 DEF AloneInv, RestInv
  <2> QED
    BY <1>2, <1>4, <2>1, <2>2, <2>3, <2>4, <2>5, <2>6, <2>7, EndStep DEF Verdicts
<1> QED
  BY <1>3, <1>4 DEF RemovalSkip

LEMMA RemovalIsAborted ==
    ASSUME IInv, NEW o \in Ops, AbortRemoval(o)
    PROVE  IInv'
<1>1. kind[o] = "removal" /\ step[o] = "prepared"
  BY DEF AbortRemoval, RemovalAt
<1>2. CASE link = "closed"
  <2>1. End(o, "failed") /\ UNCHANGED <<link, wire, open, todo, orphans, executed, bopen, fresh, holder,
                                         clean, mixed, status, buf, heard>>
    BY <1>2 DEF AbortRemoval, connVars, histVars, Unchanged, mapVars, replyVars
  <2>2. Types /\ Conn /\ fresh \in BOOLEAN
    BY <1>1, AtStep
  <2>3. Conn' /\ Requests' = Requests /\ open'.op = NoOp
    BY <1>2, <2>1, <2>2, IdleIsRequest DEF Conn, Requests
  <2>4. KeepsHeard(o)
    BY <2>1, NobodyHeard
  <2> QED
    BY <1>1, <1>2, <2>1, <2>2, <2>3, <2>4, Leaves DEF Verdicts
<1>3. CASE link # "closed"
  BY <1>1, <1>3, ClosesAndLeaves DEF AbortRemoval, Verdicts
<1> QED
  BY <1>2, <1>3

LEMMA DownloadIsAnswered ==
    ASSUME IInv, NEW o \in Ops, DownloadReply(o)
    PROVE  IInv'
<1>1. kind[o] = "download" /\ step[o] = "final"
  BY DEF DownloadReply, DownloadAt
<1>2. CASE HasInput(o) /\ Input(o).part \notin {"404", "rest"} /\ Reads(o) /\ Go(o, "reading")
  BY <1>1, <1>2, HeadersAreRead
<1>3. CASE (ReadsAndCloses(o) \/ (ReadFails(o) /\ Close)) /\ End(o, "unprepared")
  BY <1>1, <1>3, ReadsClosesAndLeaves DEF Verdicts
<1> QED
  BY <1>2, <1>3 DEF DownloadReply

LEMMA DownloadIsRead ==
    ASSUME IInv, NEW o \in Ops, Read(o)
    PROVE  IInv'
<1>1. kind[o] = "download" /\ step[o] = "reading"
  BY DEF Read, DownloadAt
<1>2. CASE Reads(o) /\ End(o, "read")
  BY <1>1, <1>2, RestIsRead
<1>3. CASE ReadFails(o) /\ Unread /\ Go(o, "reading")
  <2>1. /\ o \in InSession /\ Types /\ Conn /\ OpTypes /\ verdict[o] = "none"
        /\ clean => AloneInv(o)
        /\ o \notin mixed => open.op # o
        /\ clean \in BOOLEAN /\ mixed \subseteq Ops
    BY <1>1, AtStep
  <2>2. /\ UNCHANGED <<executed, bopen, holder, clean, mixed, status, buf, heard>>
        /\ fresh' \in BOOLEAN /\ buf[o] = <<>> /\ Pending(o) = wire
    BY <1>3, <2>1, FailsToRead
  <2>3. /\ Conn' /\ Requests' = Requests /\ UNCHANGED <<link, open, todo>>
        /\ wire' = wire \/ wire' = <<>>
    BY <1>3, <2>1, <2>2, LeftUnread
  <2>4. Went(o, "reading")
    BY <1>3, <2>1, GoesOn DEF Steps
  <2>5. Types'
    BY <2>1, <2>2, <2>3, <2>4, TypesStay
  <2>6. ASSUME clean
        PROVE  AloneInv(o)'
    <3>1. PICK p : p = Pending(o)
      OBVIOUS
    <3>2. /\ Of(p, o) /\ (open = Idle \/ open = Garbled) /\ todo = <<>> /\ (Sound => Len(p) <= 1)
          /\ status[o] = "200" => Done(o)
      BY <1>1, <2>1, <2>6, <3>1 DEF AloneInv, RestInv
    <3>3. Pending(o)' = wire'
      BY <2>2, <2>3, NothingBuffered DEF Conn
    <3>4. Pending(o)' = p \/ Pending(o)' = <<>>
      BY <2>2, <2>3, <3>1, <3>3
    <3>5. PICK q : q = Pending(o)'
      OBVIOUS
    <3>6. Of(q, o) /\ (Sound => Len(q) <= 1)
      BY <3>2, <3>4, <3>5, NothingPending
    <3>7. sent' = sent /\ step'[o] = "reading" /\ kind'[o] = "download"
      BY <1>1, <2>4 DEF Went
    <3>8. status'[o] = "200" => Done(o)'
      BY <2>2, <3>2, <3>7 DEF Done
    <3>9. RestInv(o)'
      BY <2>3, <3>2, <3>5, <3>6, <3>7, <3>8 DEF RestInv, Sound
    <3> QED
      BY <3>7, <3>9 DEF AloneInv, BuiltInv, ContinueInv, PreparedInv, FinalInv, HolderInv
  <2>7. KeepsOpen(o)
    BY <1>1, <2>1, <2>2, <2>3 DEF KeepsOpen
  <2>8. KeepsRequests(o)
    BY <1>1, <2>1, <2>3, <2>4, SameRequests
  <2>9. KeepsHeard(o)
    BY <2>2, NobodyHeard
  <2> QED
    BY <2>1, <2>2, <2>3, <2>4, <2>5, <2>6, <2>7, <2>8, <2>9, GoStep DEF Steps
<1> QED
  BY <1>2, <1>3 DEF Read

-----------------------------------------------------------------------------
(* The socket is asked for, and connected again. *)

(* A socket that is closed while others use it leaves each with what it     *)
(* read before.                                                             *)
LEMMA ClosedUnderOthers ==
    ASSUME Types, NEW o \in Ops, AloneInv(o), Neat', link' = "closed", ~bopen',
           UNCHANGED <<executed, kind, sent, status, buf>>, step'[o] = step[o]
    PROVE  AloneInv(o)'
<1>1. PICK b, w : b = buf[o] /\ w = wire
  OBVIOUS
<1>2. b \in Seq(Units) /\ w \in Seq(Units) /\ b \o w \in Seq(Units) /\ Pending(o) = b \o w
  BY <1>1 DEF Types, OpTypes, Conn, Pending
<1>3. Pending(o)' = b /\ wire' = <<>> /\ open' = Idle /\ todo' = <<>> /\ buf'[o] = b
  BY <1>1, <1>2 DEF Neat, Pending
<1>5. \A i \in 1 .. Len(b) : i \in 1 .. Len(b \o w) /\ (b \o w)[i] = b[i]
  BY <1>2
<1>6. /\ Of(b \o w, o) => Of(b, o)
      /\ NoSuccess(b \o w) => NoSuccess(b)
      /\ ~NoSuccess(b) => ~NoSuccess(b \o w)
  BY <1>5 DEF Of, NoSuccess
<1>7. ~Sound' /\ Idle # Garbled
  BY IdleIsRequest DEF Sound
<1>8. Done(o) => Done(o)'
  BY DEF Done
<1>9. BuiltInv(o)'
  BY DEF BuiltInv
<1>10. ContinueInv(o)'
  BY <1>1, <1>3, NothingPending DEF AloneInv, ContinueInv
<1>11. PreparedInv(o)'
  BY <1>2, <1>3, <1>6, <1>7 DEF AloneInv, PreparedInv
<1>12. FinalInv(o)'
  BY <1>2, <1>3, <1>6, <1>7, <1>8 DEF AloneInv, FinalInv
<1>13. RestInv(o)'
  BY <1>2, <1>3, <1>6, <1>7, <1>8 DEF AloneInv, RestInv
<1>14. HolderInv(o)'
  BY DEF HolderInv
<1> QED
  BY <1>9, <1>10, <1>11, <1>12, <1>13, <1>14 DEF AloneInv

LEMMA SocketIsTaken ==
    ASSUME IInv, NEW o \in Ops, step[o] = "idle", GetSocket(o, InSession), Go(o, "built"),
           UNCHANGED <<executed, replyVars>>
    PROVE  IInv'
<1>1. /\ Types /\ Conn /\ OpTypes /\ SessionInv /\ o \notin InSession
      /\ verdict[o] = "none" /\ buf[o] = <<>> /\ sent[o] = 0
      /\ o \notin mixed => open.op # o
  BY DEF IInv, Types, StartInv, InSession, DecidedInv
<1>2. /\ IF Stale THEN Connect ELSE UNCHANGED connVars
      /\ bopen' = TRUE /\ fresh' = TRUE /\ holder' = o
      /\ clean' = (InSession = {} /\ (Stale \/ (clean /\ open # Garbled)))
      /\ mixed' = mixed \cup InSession \cup (IF clean' THEN {} ELSE {o})
      /\ UNCHANGED <<executed, status, buf, heard>>
  BY DEF GetSocket, replyVars
<1>3. /\ step' \in [Ops -> Steps] /\ step'[o] = "built" /\ UNCHANGED <<kind, verdict, sent>>
      /\ \A p \in Ops : p # o => step'[p] = step[p]
  BY <1>1 DEF Go, OpTypes, Steps
<1>4. InSession' = InSession \cup {o}
  <2>1. \A p \in Ops : p \in InSession' <=> p \in InSession \cup {o}
    BY <1>3 DEF InSession
  <2> QED
    BY <2>1 DEF InSession
<1>5. Conn' /\ Requests' = Requests /\ (Stale => Neat') /\ (~Stale => UNCHANGED <<link, wire, open, todo>>)
  <2>1. CASE Stale
    BY <1>1, <1>2, <2>1, Connected
  <2>2. CASE ~Stale
    BY <1>1, <1>2, <2>2 DEF connVars, Conn, Requests
  <2> QED
    BY <2>1, <2>2
<1>6. clean' \in BOOLEAN /\ mixed \subseteq mixed' /\ mixed' \subseteq Ops
  BY <1>1, <1>2 DEF OpTypes, InSession
<1>7. Types'
  BY <1>1, <1>2, <1>3, <1>5, <1>6 DEF Types, OpTypes
<1>8. ASSUME clean'
      PROVE  AloneInv(o)'
  <2>1. link' \in {"up", "half"} => Neat'
    <3>1. CASE Stale
      BY <1>5, <3>1
    <3>2. CASE ~Stale
      <4>1. link \in {"up", "half"} => Neat
        BY <1>1, <1>2, <1>8, <3>2 DEF Stale, SessionInv, BetweenInv
      <4> QED
        BY <1>5, <3>2, <4>1 DEF Neat
    <3> QED
      BY <3>1, <3>2
  <2> QED
    BY <1>2, <1>3, <2>1 DEF AloneInv, BuiltInv, ContinueInv, PreparedInv, FinalInv, RestInv, HolderInv
<1>9. SessionInv'
  <2>1. clean' => InSession' = {o}
    BY <1>2, <1>4
  <2>2. (clean => \A p, q \in InSession : p = q)'
    BY <2>1
  <2>3. (\A p \in InSession : p \notin mixed => clean)'
    BY <1>2, <1>4
  <2>4. (clean => \A p \in InSession : AloneInv(p))'
    <3> SUFFICES ASSUME clean', NEW p \in InSession'
                 PROVE  AloneInv(p)'
      OBVIOUS
    <3>1. p = o
      BY <2>1
    <3> QED
      BY <1>8, <3>1
  <2>5. BetweenInv'
    BY <1>4 DEF BetweenInv
  <2> QED
    BY <2>2, <2>3, <2>4, <2>5 DEF SessionInv
<1>10. KeepsOthers(o)
  BY <1>2, <1>3, <1>6 DEF KeepsOthers
<1>11. open'.op \in {open.op, NoOp}
  BY <1>5, IdleIsRequest DEF Neat
<1>12. KeepsOpen(o)
  BY <1>1, <1>6, <1>11, NoOpAssumption DEF KeepsOpen
<1>13. KeepsRequests(o)
  BY <1>1, <1>5 DEF KeepsRequests, Undecided
<1>14. KeepsReplies(o)
  BY <1>1, <1>2, <1>3, NobodyHeard DEF KeepsReplies
<1>15. StartOf(o)'
  BY <1>1, <1>2, <1>3 DEF StartOf
<1>16. open.op \in Ops \cup {NoOp} /\ \A r \in Requests' : r.op \in Ops
  BY <1>1, <1>5, RequestsOf
<1>17. StartInv' /\ DecidedInv' /\ OwnReply' /\ OkIsDone'
  BY <1>1, <1>10, <1>12, <1>13, <1>14, <1>15, <1>16, Keeps DEF IInv
<1> QED
  BY <1>7, <1>9, <1>17 DEF IInv

LEMMA SocketIsRefused ==
    ASSUME IInv, NEW o \in Ops, step[o] = "idle", GetNoSocket(o), End(o, "unprepared"),
           UNCHANGED <<executed, replyVars>>
    PROVE  IInv'
<1>1. /\ Types /\ Conn /\ OpTypes /\ SessionInv /\ o \notin InSession
      /\ verdict[o] = "none"
      /\ o \notin mixed => open.op # o
  BY DEF IInv, Types, StartInv, InSession, DecidedInv
<1>2. /\ Close /\ bopen' = FALSE /\ fresh' = TRUE /\ holder' = o
      /\ UNCHANGED <<executed, clean, mixed, status, buf, heard>>
  BY DEF GetNoSocket, histVars, replyVars
<1>3. Conn' /\ Neat' /\ Requests' = Requests /\ link' = "closed"
  BY <1>1, <1>2, Closed
<1>4. Ended(o, "unprepared") /\ InSession' = InSession
  <2>1. Ended(o, "unprepared")
    BY <1>1, Ends DEF Verdicts
  <2> QED
    BY <1>1, <2>1 DEF Ended
<1>5. Types'
  BY <1>1, <1>2, <1>3, <1>4 DEF Types, OpTypes, Ended
<1>6. SessionInv'
  <2>1. (clean => \A p, q \in InSession : p = q)' /\ (\A p \in InSession : p \notin mixed => clean)'
    BY <1>1, <1>2, <1>4 DEF SessionInv
  <2>2. (clean => \A p \in InSession : AloneInv(p))'
    <3> SUFFICES ASSUME clean', NEW p \in InSession'
                 PROVE  AloneInv(p)'
      OBVIOUS
    <3>1. p \in Ops /\ AloneInv(p) /\ p # o
      BY <1>1, <1>2, <1>4 DEF SessionInv, InSession
    <3>2. step'[p] = step[p] /\ UNCHANGED <<kind, sent>>
      BY <1>4, <3>1 DEF Ended
    <3> QED
      BY <1>1, <1>2, <1>3, <3>1, <3>2, ClosedUnderOthers
  <2>3. BetweenInv'
    BY <1>2 DEF BetweenInv
  <2> QED
    BY <2>1, <2>2, <2>3 DEF SessionInv
<1>7. KeepsOthers(o)
  BY <1>2, <1>4 DEF KeepsOthers, Ended
<1>8. KeepsOpen(o)
  BY <1>3, IdleIsRequest, NoOpAssumption DEF KeepsOpen, Neat
<1>9. KeepsRequests(o)
  BY <1>3 DEF KeepsRequests, Undecided
<1>10. KeepsReplies(o)
  BY <1>2, <1>4, NobodyHeard DEF KeepsReplies, Ended
<1>11. StartOf(o)'
  BY <1>4 DEF StartOf, Ended
<1>12. open.op \in Ops \cup {NoOp} /\ \A r \in Requests' : r.op \in Ops
  BY <1>1, <1>3, RequestsOf
<1>13. StartInv' /\ DecidedInv' /\ OwnReply' /\ OkIsDone'
  BY <1>1, <1>7, <1>8, <1>9, <1>10, <1>11, <1>12, Keeps DEF IInv
<1> QED
  BY <1>5, <1>6, <1>13 DEF IInv

LEMMA OperationIsBuilt ==
    ASSUME IInv, NEW o \in Ops, Build(o)
    PROVE  IInv'
BY SocketIsTaken, SocketIsRefused DEF Build

(* A removal or a download that connects again is alone on the connection   *)
(* when nobody else is in session.                                          *)
LEMMA OperationReconnects ==
    ASSUME IInv, NEW o \in Ops, Reconnect(o)
    PROVE  IInv'
<1>1. step[o] = "built" /\ kind[o] # "upload" /\ link = "closed"
  BY DEF Reconnect
<1>2. /\ o \in InSession /\ Types /\ Conn /\ OpTypes /\ SessionInv /\ OwnReply /\ OkIsDone
      /\ verdict[o] = "none" /\ buf[o] = <<>> /\ sent[o] = 0
      /\ clean \in BOOLEAN /\ mixed \subseteq Ops
  BY <1>1, AtStep
<1>3. CASE /\ Connect /\ clean' = (InSession = {o} \/ clean) /\ Go(o, "built")
           /\ UNCHANGED <<mixed, replyVars>> /\ UNCHANGED <<executed, mapVars>>
  <2>1. UNCHANGED <<mixed, status, buf, heard, executed, bopen, fresh, holder>>
    BY <1>3 DEF replyVars, mapVars
  <2>2. Conn' /\ Neat' /\ Requests' = Requests
    BY <1>2, <1>3, <2>1, Connected
  <2>3. Went(o, "built")
    BY <1>2, <1>3, GoesOn DEF Steps
  <2>4. clean' \in BOOLEAN /\ clean' = (InSession = {o})
    <3>1. clean => InSession = {o}
      BY <1>2, Alone
    <3> QED
      BY <1>3, <3>1
  <2>5. Types'
    BY <1>2, <2>1, <2>2, <2>3, <2>4, TypesStay DEF Types, OpTypes
  <2>6. AloneInv(o)'
    <3>1. step'[o] = "built" /\ kind' = kind
      BY <2>3 DEF Went
    <3> QED
      BY <1>1, <2>2, <3>1
         DEF AloneInv, BuiltInv, ContinueInv, PreparedInv, FinalInv, RestInv, HolderInv
  <2>7. SessionInv'
    <3>1. InSession' = InSession
      BY <2>3 DEF Went
    <3>2. (clean => \A p, q \in InSession : p = q)'
      BY <2>4, <3>1
    <3>3. (\A p \in InSession : p \notin mixed => clean)'
      BY <1>2, <1>3, <2>1, <3>1 DEF SessionInv
    <3>4. (clean => \A p \in InSession : AloneInv(p))'
      <4> SUFFICES ASSUME clean', NEW p \in InSession'
                   PROVE  AloneInv(p)'
        OBVIOUS
      <4>1. p = o
        BY <2>4, <3>1
      <4> QED
        BY <2>6, <4>1
    <3>5. BetweenInv'
      BY <1>2, <3>1 DEF BetweenInv
    <3> QED
      BY <3>2, <3>3, <3>4, <3>5 DEF SessionInv
  <2>8. KeepsOthers(o)
    BY <2>1, <2>3 DEF KeepsOthers, Went
  <2>9. KeepsOpen(o)
    BY <1>2, <2>2, IdleIsRequest, NoOpAssumption DEF KeepsOpen, Neat, InSession
  <2>10. KeepsRequests(o)
    BY <1>1, <1>2, <2>2, <2>3, SameRequests DEF InSession
  <2>11. KeepsReplies(o)
    BY <1>2, <2>1, <2>3, NobodyHeard DEF KeepsReplies, Went, InSession
  <2>12. StartOf(o)'
    BY <1>2, <2>1, <2>3 DEF StartOf, Went
  <2>13. open.op \in Ops \cup {NoOp} /\ \A r \in Requests' : r.op \in Ops
    BY <1>2, <2>2, RequestsOf
  <2>14. StartInv' /\ DecidedInv' /\ OwnReply' /\ OkIsDone'
    BY <1>2, <2>8, <2>9, <2>10, <2>11, <2>12, <2>13, Keeps DEF IInv
  <2> QED
    BY <2>5, <2>7, <2>14 DEF IInv
<1>4. CASE Closes /\ End(o, "unprepared")
  BY <1>1, <1>4, ClosesAndLeaves DEF Verdicts
<1> QED
  BY <1>3, <1>4 DEF Reconnect

-----------------------------------------------------------------------------
(* The timer, the server and the network. *)

LEMMA EnvironmentStep ==
    ASSUME IInv, UNCHANGED opVars, UNCHANGED histVars, Conn',
           UNCHANGED holder, UNCHANGED bopen, fresh' \in BOOLEAN, fresh' => fresh,
           \A o \in Ops : AloneInv(o) => AloneInv(o)',
           Neat /\ link \in {"up", "half"} => Neat', link' \in {"up", "half"} => link \in {"up", "half"},
           executed \subseteq executed', Requests' \subseteq Requests, open'.op \in {open.op, NoOp},
           open = Garbled => open' = Garbled
    PROVE  IInv'
<1>1. UNCHANGED <<kind, step, verdict, status, buf, heard, sent, clean, mixed>>
  BY DEF opVars, replyVars, histVars
<1>2. Types'
  BY <1>1 DEF IInv, Types, OpTypes
<1>3. InSession' = InSession /\ InSession \subseteq Ops
  BY <1>1 DEF InSession
<1>4. SessionInv'
  <2>1. (clean => \A p, q \in InSession : p = q)' /\ (\A p \in InSession : p \notin mixed => clean)'
    BY <1>1, <1>3 DEF IInv, SessionInv
  <2>2. (clean => \A p \in InSession : AloneInv(p))'
    BY <1>1, <1>3 DEF IInv, SessionInv
  <2>3. BetweenInv'
    BY <1>1, <1>3 DEF IInv, SessionInv, BetweenInv
  <2> QED
    BY <2>1, <2>2, <2>3 DEF SessionInv
<1>5. StartInv'
  BY <1>1 DEF IInv, StartInv
<1>6. DecidedInv'
  <2>1. (open.op \in Ops \ mixed => step[open.op] \in {"continue", "prepared"})'
    BY <1>1, NoOpAssumption DEF IInv, DecidedInv
  <2>2. (\A r \in Requests : r.op \notin mixed /\ kind[r.op] # "download" => ~Undecided(r.op))'
    <3> SUFFICES ASSUME NEW r \in Requests', r.op \notin mixed, kind[r.op] # "download"
                 PROVE  ~Undecided(r.op)'
      BY <1>1
    <3>1. ~Undecided(r.op)
      BY DEF IInv, DecidedInv
    <3> QED
      BY <1>1, <3>1 DEF Undecided
  <2> QED
    BY <2>1, <2>2 DEF DecidedInv
<1>7. OwnReply'
  BY <1>1 DEF IInv, OwnReply
<1>8. OkIsDone'
  BY <1>1 DEF IInv, OkIsDone
<1> QED
  BY <1>2, <1>4, <1>5, <1>6, <1>7, <1>8 DEF IInv

(* Two parts more on the connection. *)
LEMMA PartsAfter ==
    ASSUME NEW s \in Seq(Units), NEW o \in Ops, NEW c \in {"200", "404", "500"}
    PROVE  s \o <<Unit(o, c), Unit(o, "rest")>> \in Seq(Units)
<1>1. <<Unit(o, c), Unit(o, "rest")>> \in Seq(Units)
  BY TwoParts
<1> QED
  BY <1>1

LEMMA PartBefore ==
    ASSUME NEW u \in Units, NEW s \in Seq(Units), NEW w, w = <<u>> \o s
    PROVE  /\ w \in Seq(Units) /\ w # <<>> /\ w[1] = u /\ Tail(w) = s
           /\ \A o : u.of = o /\ Of(s, o) => Of(w, o)
           /\ u.part # "200" /\ NoSuccess(s) => NoSuccess(w)
<1>1. <<u>> \in Seq(Units) /\ Len(<<u>>) = 1 /\ <<u>>[1] = u /\ Len(s) \in Nat
  OBVIOUS
<1>2. PICK v : v = <<u>>
  OBVIOUS
<1>3. /\ w \in Seq(Units) /\ Len(w) = 1 + Len(s)
      /\ \A i \in 1 .. 1 + Len(s) : w[i] = IF i <= 1 THEN v[i] ELSE s[i - 1]
  BY <1>1, <1>2, ConcatProperties
<1>4. w[1] = u /\ w # <<>>
  BY <1>1, <1>2, <1>3
<1>5. \A j \in 1 .. Len(s) : w[j + 1] = s[j]
  BY <1>1, <1>3
<1>6. Tail(w) \in Seq(Units) /\ Len(Tail(w)) = Len(s) /\ \A j \in 1 .. Len(s) : Tail(w)[j] = w[j + 1]
  BY <1>1, <1>3, <1>4
<1>7. Tail(w) = s
  BY <1>5, <1>6, SeqEqual
<1>8. ASSUME NEW i \in 1 .. Len(w)
      PROVE  w[i] = u \/ \E j \in 1 .. Len(s) : w[i] = s[j]
  <2>1. CASE i = 1
    BY <1>4, <2>1
  <2>2. CASE i # 1
    <3>1. i - 1 \in 1 .. Len(s) /\ (i - 1) + 1 = i
      BY <1>1, <1>3, <2>2
    <3>2. w[i] = s[i - 1]
      BY <1>5, <3>1
    <3> QED
      BY <3>1, <3>2
  <2> QED
    BY <2>1, <2>2
<1> QED
  BY <1>3, <1>4, <1>7, <1>8 DEF Of, NoSuccess

LEMMA NothingBefore ==
    ASSUME NEW s \in Seq(Units)
    PROVE  <<>> \o s = s /\ s \o <<>> = s
OBVIOUS

LEMMA TimerExpires ==
    ASSUME IInv, Tick, UNCHANGED opVars
    PROVE  IInv'
<1>1. /\ fresh' = FALSE
      /\ UNCHANGED <<link, wire, open, todo, orphans, executed, bopen, holder, clean, mixed,
                     kind, step, verdict, status, buf, heard, sent>>
  BY DEF Tick, connVars, histVars, opVars, replyVars
<1>2. \A o \in Ops : AloneInv(o) => AloneInv(o)'
  BY <1>1 DEF AloneInv, BuiltInv, ContinueInv, PreparedInv, FinalInv, RestInv, HolderInv, Neat,
              Pending, Done, Sound
<1>3. Conn' /\ Requests' = Requests
  BY <1>1 DEF IInv, Types, Conn, Requests
<1> QED
  BY <1>1, <1>2, <1>3, EnvironmentStep DEF Neat, histVars

LEMMA RequestContinues ==
    ASSUME IInv, ServerContinues, UNCHANGED opVars
    PROVE  IInv'
<1>1. /\ link = "up" /\ open.state = "expect" /\ open' = [open EXCEPT !.state = "body"]
      /\ wire' = Append(wire, Unit(open.op, "100"))
      /\ UNCHANGED <<link, todo, orphans, executed, bopen, fresh, holder, clean, mixed,
                     kind, step, verdict, status, buf, heard, sent>>
      /\ Types /\ Conn
  BY DEF ServerContinues, mapVars, histVars, opVars, replyVars, IInv, Types
<1>2. /\ open' \in AnyRequest /\ open'.op = open.op /\ open'.chunks = open.chunks
      /\ open'.state = "body" /\ open.op \in Ops \cup {NoOp}
  BY <1>1 DEF Conn, AnyRequest, States
<1>3. Unit(open.op, "100") \in Units
  BY <1>2 DEF Unit, Units, Codes
<1>4. Conn' /\ Requests' = Requests
  BY <1>1, <1>2, <1>3 DEF Conn, Requests
<1>5. open # Idle /\ open # Garbled /\ ~Neat
  BY <1>1 DEF Idle, Garbled, Request, Neat
<1>6. ASSUME NEW o \in Ops, AloneInv(o)
      PROVE  AloneInv(o)'
  <2>1. step[o] \notin {"built", "prepared", "final", "rest", "reading"}
    BY <1>1, <1>5, <1>6 DEF AloneInv, BuiltInv, PreparedInv, FinalInv, RestInv
  <2>2. ContinueInv(o)'
    <3> SUFFICES ASSUME step[o] = "continue"
                 PROVE  ContinueInv(o)'
      BY <1>1 DEF ContinueInv
    <3>1. /\ buf[o] = <<>> /\ open.op = o /\ open.chunks = 0 /\ todo = <<>> /\ wire = <<>>
      BY <1>1, <1>5, <1>6 DEF AloneInv, ContinueInv
    <3>2. PICK u : u = Unit(o, "100")
      OBVIOUS
    <3>3. wire' = <<u>> /\ u.of = o /\ u.part = "100"
      BY <1>1, <3>1, <3>2 DEF Unit
    <3>4. Of(wire, o)' /\ NoSuccess(wire)' /\ Tail(wire') = <<>>
      BY <3>3 DEF Of, NoSuccess
    <3> QED
      BY <1>1, <1>2, <3>1, <3>2, <3>3, <3>4, NothingPending DEF ContinueInv
  <2>3. HolderInv(o)'
    BY <1>1, <1>6 DEF AloneInv, HolderInv
  <2> QED
    BY <1>1, <2>1, <2>2, <2>3 DEF AloneInv, BuiltInv, PreparedInv, FinalInv, RestInv
<1> QED
  BY <1>1, <1>2, <1>4, <1>5, <1>6, EnvironmentStep DEF histVars, IInv, OpTypes, Types

LEMMA RequestIsRefused ==
    ASSUME IInv, ServerRefuses, UNCHANGED opVars
    PROVE  IInv'
<1>1. /\ link = "up" /\ open.state \in {"expect", "body"} /\ open' = [open EXCEPT !.state = "refused"]
      /\ UNCHANGED <<link, todo, orphans, executed, bopen, fresh, holder, clean, mixed,
                     kind, step, verdict, status, buf, heard, sent>>
      /\ Types /\ Conn
  BY DEF ServerRefuses, mapVars, histVars, opVars, replyVars, IInv, Types
<1>2. PICK c \in {"404", "500"} : wire' = wire \o <<Unit(open.op, c), Unit(open.op, "rest")>>
  BY DEF ServerRefuses, Answer
<1>3. /\ open' \in AnyRequest /\ open'.op = open.op /\ open'.chunks = open.chunks
      /\ open'.state = "refused" /\ open.op \in Ops \cup {NoOp}
  BY <1>1 DEF Conn, AnyRequest, States
<1>4. <<Unit(open.op, c), Unit(open.op, "rest")>> \in Seq(Units)
  BY <1>3 DEF Unit, Units, Codes
<1>5. Conn' /\ Requests' = Requests
  BY <1>1, <1>2, <1>3, <1>4 DEF Conn, Requests
<1>6. open # Idle /\ open # Garbled /\ ~Neat
  BY <1>1 DEF Idle, Garbled, Request, Neat
<1>7. ASSUME NEW o \in Ops, AloneInv(o)
      PROVE  AloneInv(o)'
  <2>1. step[o] \notin {"built", "final", "rest", "reading"}
    BY <1>1, <1>6, <1>7 DEF AloneInv, BuiltInv, FinalInv, RestInv
  <2>2. PICK s : s = <<Unit(o, c), Unit(o, "rest")>>
    OBVIOUS
  <2>3. s \in Seq(Units) /\ Len(s) = 2 /\ s[1].part = c /\ Of(s, o) /\ OneReply(s) /\ NoSuccess(s)
    BY <2>2, TwoParts
  <2>4. ContinueInv(o)'
    <3> SUFFICES ASSUME step[o] = "continue"
                 PROVE  ContinueInv(o)'
      BY <1>1 DEF ContinueInv
    <3>1. /\ buf[o] = <<>> /\ open.op = o /\ open.chunks = 0 /\ todo = <<>>
          /\ wire = <<>> \/ wire = <<Unit(o, "100")>>
      BY <1>1, <1>6, <1>7 DEF AloneInv, ContinueInv
    <3>2. CASE wire = <<>>
      <4>1. wire' = s
        BY <1>2, <2>2, <2>3, <3>1, <3>2, NothingBefore
      <4> QED
        BY <1>1, <1>3, <2>3, <3>1, <4>1, NoOpAssumption, IdleIsRequest DEF ContinueInv
    <3>3. CASE wire = <<Unit(o, "100")>>
      <4>1. PICK u : u = Unit(o, "100")
        OBVIOUS
      <4>2. u.of = o /\ u.part = "100" /\ wire' = <<u>> \o s
        BY <1>2, <2>2, <3>1, <3>3, <4>1 DEF Unit
      <4>3. PICK w : w = <<u>> \o s
        OBVIOUS
      <4>4. u \in Units
        BY <4>1 DEF Unit, Units, Codes
      <4>5. w # <<>> /\ Tail(w) = s /\ Of(w, o) /\ NoSuccess(w)
        BY <2>3, <4>2, <4>3, <4>4, PartBefore
      <4> QED
        BY <1>1, <1>3, <2>3, <3>1, <4>2, <4>3, <4>5, NoOpAssumption, IdleIsRequest DEF ContinueInv
    <3> QED
      BY <3>1, <3>2, <3>3
  <2>5. PreparedInv(o)'
    <3> SUFFICES ASSUME step[o] = "prepared"
                 PROVE  PreparedInv(o)'
      BY <1>1 DEF PreparedInv
    <3>1. open.op = o /\ open.chunks = sent[o] /\ todo = <<>> /\ Pending(o) = <<>>
      BY <1>1, <1>6, <1>7 DEF AloneInv, PreparedInv
    <3>2. buf[o] = <<>> /\ wire = <<>>
      BY <1>1, <3>1 DEF Pending, Types, OpTypes, Conn
    <3>3. Pending(o)' = s
      BY <1>1, <1>2, <2>2, <2>3, <3>1, <3>2, NothingBefore DEF Pending
    <3> QED
      BY <1>1, <1>3, <2>3, <3>1, <3>3 DEF PreparedInv
  <2>6. HolderInv(o)'
    BY <1>1, <1>7 DEF AloneInv, HolderInv
  <2> QED
    BY <1>1, <2>1, <2>4, <2>5, <2>6 DEF AloneInv, BuiltInv, FinalInv, RestInv
<1> QED
  BY <1>1, <1>3, <1>5, <1>6, <1>7, EnvironmentStep DEF histVars, IInv, OpTypes, Types

(* What is of one operation, and no success, in two parts and in each. *)
LEMMA OfBoth ==
    ASSUME NEW s \in Seq(Units), NEW t \in Seq(Units), NEW o
    PROVE  /\ s \o t \in Seq(Units)
           /\ Of(s \o t, o) <=> (Of(s, o) /\ Of(t, o))
           /\ NoSuccess(s \o t) <=> (NoSuccess(s) /\ NoSuccess(t))
<1>1. PICK w : w = s \o t
  OBVIOUS
<1>2. /\ w \in Seq(Units) /\ Len(w) = Len(s) + Len(t) /\ Len(s) \in Nat /\ Len(t) \in Nat
      /\ \A i \in 1 .. Len(s) + Len(t) : w[i] = IF i <= Len(s) THEN s[i] ELSE t[i - Len(s)]
  BY <1>1, ConcatProperties
<1>3. \A i \in 1 .. Len(s) : i \in 1 .. Len(w) /\ w[i] = s[i]
  BY <1>2
<1>4. ASSUME NEW i \in 1 .. Len(t)
      PROVE  Len(s) + i \in 1 .. Len(w) /\ w[Len(s) + i] = t[i]
  <2>1. /\ Len(s) + i \in 1 .. Len(s) + Len(t) /\ ~(Len(s) + i <= Len(s))
        /\ (Len(s) + i) - Len(s) = i
    BY <1>2
  <2> QED
    BY <1>2, <2>1
<1>5. ASSUME NEW i \in 1 .. Len(w)
      PROVE  \/ (i \in 1 .. Len(s) /\ w[i] = s[i])
             \/ (i - Len(s) \in 1 .. Len(t) /\ w[i] = t[i - Len(s)])
  BY <1>2
<1>6. Of(w, o) <=> (Of(s, o) /\ Of(t, o))
  <2>1. Of(w, o) => Of(s, o)
    BY <1>3 DEF Of
  <2>2. Of(w, o) => Of(t, o)
    BY <1>4 DEF Of
  <2>3. Of(s, o) /\ Of(t, o) => Of(w, o)
    BY <1>5 DEF Of
  <2> QED
    BY <2>1, <2>2, <2>3
<1>7. NoSuccess(w) <=> (NoSuccess(s) /\ NoSuccess(t))
  <2>1. NoSuccess(w) => NoSuccess(s)
    BY <1>3 DEF NoSuccess
  <2>2. NoSuccess(w) => NoSuccess(t)
    BY <1>4 DEF NoSuccess
  <2>3. NoSuccess(s) /\ NoSuccess(t) => NoSuccess(w)
    BY <1>5 DEF NoSuccess
  <2> QED
    BY <2>1, <2>2, <2>3
<1> QED
  BY <1>1, <1>2, <1>6, <1>7

(* A server that skips the body answers before anything of it is complete,  *)
(* or before it answered anything, and understands nothing more.            *)
LEMMA BodyIsSkipped ==
    ASSUME IInv, ServerSkipsBody, UNCHANGED opVars
    PROVE  IInv'
<1>1. /\ link = "up" /\ open' = Garbled /\ todo' = <<>>
      /\ UNCHANGED <<link, orphans, executed, bopen, fresh, holder, clean, mixed,
                     kind, step, verdict, status, buf, heard, sent>>
      /\ Types /\ Conn
  BY DEF ServerSkipsBody, mapVars, histVars, opVars, replyVars, IInv, Types
<1>2. PICK q \in {open} \cup Range(todo) :
          /\ q = IF todo = <<>> THEN open ELSE Head(todo)
          /\ q.state \in {"expect", "body"}
          /\ \E c \in {"404", "500"}, again \in {<<>>, Answer(q.op, "500")} :
                wire' = wire \o Answer(q.op, c) \o again
  BY DEF ServerSkipsBody
<1>3. PICK c \in {"404", "500"} : \E again \in {<<>>, Answer(q.op, "500")} :
          wire' = wire \o Answer(q.op, c) \o again
  BY <1>2
<1>4. PICK a, b : /\ a = Answer(q.op, c) /\ b \in {<<>>, Answer(q.op, "500")}
                  /\ wire' = wire \o a \o b
  BY <1>3
<1>5. /\ q.op \in Ops \cup {NoOp} /\ wire \in Seq(Units)
      /\ q # Idle /\ q # Garbled
      /\ todo # <<>> => q = todo[1]
  <2>1. q \in AnyRequest
    BY <1>1 DEF Conn, Range, Asked
  <2>2. todo \in Seq(Asked)
    BY <1>1 DEF Conn
  <2> QED
    BY <1>1, <1>2, <2>1, <2>2 DEF Conn, AnyRequest, Idle, Garbled, Request
<1>6. a \in Seq(Units) /\ b \in Seq(Units)
  <2>1. \A d \in {"404", "500"} : Answer(q.op, d) \in Seq(Units)
    BY <1>5 DEF Answer, Unit, Units, Codes
  <2>2. a \in Seq(Units)
    BY <1>4, <2>1
  <2>3. b = <<>> \/ b = Answer(q.op, "500")
    BY <1>4
  <2>4. b \in Seq(Units)
    <3>1. <<>> \in Seq(Units)
      OBVIOUS
    <3>2. Answer(q.op, "500") \in Seq(Units)
      BY <2>1
    <3> QED
      BY Zenon, <2>3, <3>1, <3>2
  <2> QED
    BY <2>2, <2>4
<1>7. wire \o a \in Seq(Units) /\ wire' \in Seq(Units)
  BY <1>4, <1>5, <1>6
<1>8. Conn' /\ Requests' \subseteq Requests /\ open'.op = NoOp
  <2>1. Range(todo') = {}
    BY <1>1 DEF Range
  <2> QED
    BY <1>1, <1>7, <2>1, IdleIsRequest DEF Conn, Requests
<1>9. ~Neat
  BY <1>2, <1>5 DEF Neat
<1>10. ASSUME NEW o \in Ops, q.op = o
       PROVE  /\ Of(wire', o) <=> Of(wire, o)
              /\ NoSuccess(wire') <=> NoSuccess(wire)
  <2>1. NoSuccess(a) /\ NoSuccess(b) /\ Of(a, o) /\ Of(b, o)
    <3>1. \A d \in {"404", "500"} : NoSuccess(Answer(o, d)) /\ Of(Answer(o, d), o)
      BY TwoParts DEF Answer
    <3> QED
      BY <1>4, <1>10, <3>1, NothingPending
  <2>2. /\ Of(wire \o a, o) <=> Of(wire, o)
        /\ NoSuccess(wire \o a) <=> NoSuccess(wire)
    BY <1>5, <1>6, <2>1, OfBoth
  <2> QED
    BY <1>4, <1>6, <1>7, <2>1, <2>2, OfBoth
<1>11. ASSUME NEW o \in Ops, AloneInv(o)
       PROVE  AloneInv(o)'
  <2>1. step[o] \notin {"built", "rest", "reading"}
    BY <1>1, <1>2, <1>5, <1>9, <1>11 DEF AloneInv, BuiltInv, RestInv
  <2>2. step[o] \in {"continue", "prepared", "final"} => q.op = o
    <3>1. step[o] \in {"continue", "prepared"} => todo = <<>> /\ open.op = o
      <4>1. todo = <<>> => open # Garbled
        BY <1>2, <1>5
      <4> QED
        BY <1>1, <1>11, <4>1 DEF AloneInv, ContinueInv, PreparedInv
    <3>2. step[o] = "final" => todo # <<>> /\ todo[1].op = o
      BY <1>2, <1>5, <1>11 DEF AloneInv, FinalInv
    <3> QED
      BY <1>2, <1>5, <3>1, <3>2
  <2>3. buf[o] \in Seq(Units) /\ Pending(o)' = buf[o] \o wire'
    BY <1>1 DEF Pending, Types, OpTypes
  <2>4. q.op = o => /\ Of(Pending(o)', o) <=> Of(Pending(o), o)
                    /\ NoSuccess(Pending(o)') <=> NoSuccess(Pending(o))
    BY <1>5, <1>7, <1>10, <2>3, OfBoth DEF Pending
  <2>5. ~Sound'
    BY <1>1 DEF Sound
  <2>6. ContinueInv(o)'
    BY <1>1, <1>10, <1>11, <2>2, <2>5 DEF AloneInv, ContinueInv
  <2>7. PreparedInv(o)'
    BY <1>1, <1>11, <2>2, <2>4, <2>5 DEF AloneInv, PreparedInv
  <2>8. FinalInv(o)'
    <3> SUFFICES ASSUME step[o] = "final"
                 PROVE  FinalInv(o)'
      BY <1>1 DEF FinalInv
    <3>1. Pending(o) = <<>>
      BY <1>2, <1>5, <1>11 DEF AloneInv, FinalInv
    <3>2. Of(Pending(o), o) /\ NoSuccess(Pending(o))
      BY <3>1, NothingPending
    <3>3. Of(Pending(o)', o) /\ NoSuccess(Pending(o)')
      BY <2>2, <2>4, <3>2
    <3> QED
      BY <1>1, <2>5, <3>3 DEF FinalInv
  <2>9. HolderInv(o)'
    BY <1>1, <1>11 DEF AloneInv, HolderInv
  <2> QED
    BY <1>1, <2>1, <2>6, <2>7, <2>8, <2>9 DEF AloneInv, BuiltInv, RestInv
<1> QED
  BY <1>1, <1>8, <1>9, <1>11, EnvironmentStep DEF histVars, IInv, OpTypes, Types

LEMMA RequestIsAnswered ==
    ASSUME IInv, ServerAnswers, UNCHANGED opVars
    PROVE  IInv'
<1>1. /\ link = "up" /\ todo # <<>> /\ todo' = Tail(todo)
      /\ UNCHANGED <<link, open, orphans, bopen, fresh, holder, clean, mixed,
                     kind, step, verdict, status, buf, heard, sent>>
      /\ Types /\ Conn
  BY DEF ServerAnswers, mapVars, histVars, opVars, replyVars, IInv, Types
<1>2. PICK h : h = Head(todo)
  OBVIOUS
<1>3. PICK c \in {"200", "404", "500"} :
          /\ wire' = wire \o <<Unit(h.op, c), Unit(h.op, "rest")>>
          /\ executed' = IF c = "200" THEN executed \cup {h} ELSE executed
  BY <1>2 DEF ServerAnswers, Answer
<1>4. /\ h \in Range(todo) /\ h \in Asked /\ todo' \in Seq(Asked) /\ h.op \in Ops
      /\ Range(todo') \subseteq Range(todo) /\ h = todo[1]
  <2>1. todo \in Seq(Asked)
    BY <1>1 DEF Conn
  <2>2. Head(todo) = todo[1]
    BY <2>1
  <2>3. h \in Range(todo) /\ h \in Asked /\ todo' \in Seq(Asked) /\ Range(todo') \subseteq Range(todo)
    BY <1>1, <1>2, <2>1, RangeTail
  <2> QED
    BY <1>2, <2>2, <2>3 DEF Asked
<1>5. wire' \in Seq(Units)
  BY <1>1, <1>3, <1>4, PartsAfter DEF Conn
<1>6. Conn'
  BY <1>1, <1>3, <1>4, <1>5 DEF Conn
<1>7. Requests' \subseteq Requests /\ executed \subseteq executed'
  BY <1>1, <1>3, <1>4 DEF Requests
<1>8. ~Neat /\ (open = Idle => open # Garbled)
  BY <1>1, IdleIsRequest DEF Neat
<1>9. ASSUME NEW o \in Ops, AloneInv(o)
      PROVE  AloneInv(o)'
  <2>1. step[o] \notin {"built", "continue", "prepared", "rest", "reading"}
    BY <1>1, <1>8, <1>9 DEF AloneInv, BuiltInv, ContinueInv, PreparedInv, RestInv
  <2>2. FinalInv(o)'
    <3> SUFFICES ASSUME step[o] = "final"
                 PROVE  FinalInv(o)'
      BY <1>1 DEF FinalInv
    <3>1. open = Idle /\ open # Garbled /\ Len(todo) = 1 /\ h.op = o /\ h.chunks = sent[o] /\ Pending(o) = <<>>
      BY <1>1, <1>4, <1>8, <1>9 DEF AloneInv, FinalInv
    <3>2. buf[o] = <<>> /\ wire = <<>>
      BY <1>1, <3>1 DEF Pending, Types, OpTypes, Conn
    <3>3. PICK s : s = <<Unit(o, c), Unit(o, "rest")>>
      OBVIOUS
    <3>4. s \in Seq(Units) /\ Of(s, o) /\ OneReply(s) /\ (c # "200" => NoSuccess(s))
      BY <3>3, TwoParts
    <3>5. Pending(o)' = s
      BY <1>1, <1>3, <3>1, <3>2, <3>3, <3>4, NothingBefore DEF Pending
    <3>6. c = "200" => Done(o)'
      BY <1>1, <1>3, <3>1 DEF Done
    <3>7. todo' = <<>>
      BY <1>1, <3>1 DEF Conn
    <3> QED
      BY <1>1, <3>1, <3>4, <3>5, <3>6, <3>7 DEF FinalInv
  <2>3. HolderInv(o)'
    BY <1>1, <1>9 DEF AloneInv, HolderInv
  <2> QED
    BY <1>1, <2>1, <2>2, <2>3 DEF AloneInv, BuiltInv, ContinueInv, PreparedInv, RestInv
<1> QED
  BY <1>1, <1>6, <1>7, <1>8, <1>9, EnvironmentStep DEF histVars, IInv, OpTypes, Types

LEMMA OrphanIsDone ==
    ASSUME IInv, ServerLags, UNCHANGED opVars
    PROVE  IInv'
<1>1. PICK r \in orphans : executed' = executed \cup {r} /\ orphans' = orphans \ {r}
  BY DEF ServerLags
<1>2. /\ UNCHANGED <<link, wire, open, todo, bopen, fresh, holder, clean, mixed,
                     kind, step, verdict, status, buf, heard, sent>>
      /\ Types /\ Conn
  BY DEF ServerLags, mapVars, histVars, opVars, replyVars, IInv, Types
<1>3. Conn' /\ Requests' \subseteq Requests /\ executed \subseteq executed'
  BY <1>1, <1>2 DEF Conn, Requests
<1>4. ASSUME NEW o \in Ops, AloneInv(o)
      PROVE  AloneInv(o)'
  <2>1. Done(o) => Done(o)'
    BY <1>2, <1>3 DEF Done
  <2> QED
    BY <1>2, <1>4, <2>1
       DEF AloneInv, BuiltInv, ContinueInv, PreparedInv, FinalInv, RestInv, HolderInv, Neat, Pending, Sound
<1> QED
  BY <1>2, <1>3, <1>4, EnvironmentStep DEF histVars, IInv, OpTypes, Types, Neat

LEMMA PeerIsGone ==
    ASSUME IInv, PeerLeaves, UNCHANGED opVars
    PROVE  IInv'
<1>1. /\ link = "up" /\ link' = "half" /\ todo' = <<>>
      /\ open' = IF open = Garbled THEN Garbled ELSE Idle
      /\ orphans' = orphans \cup Range(todo)
      /\ UNCHANGED <<wire, executed, bopen, fresh, holder, clean, mixed,
                     kind, step, verdict, status, buf, heard, sent>>
      /\ Types /\ Conn
  BY DEF PeerLeaves, mapVars, histVars, opVars, replyVars, IInv, Types
<1>2. Range(todo) \subseteq Asked /\ Range(todo') = {}
  BY <1>1 DEF Conn, Range
<1>3. Conn' /\ Requests' \subseteq Requests /\ open'.op = NoOp
  BY <1>1, <1>2, IdleIsRequest DEF Conn, Requests, Links
<1>4. (Neat => Neat') /\ (open' = Garbled <=> open = Garbled) /\ (Sound' => Sound)
  BY <1>1, IdleIsRequest DEF Neat, Sound
<1>5. ASSUME NEW o \in Ops, AloneInv(o)
      PROVE  AloneInv(o)'
  <2>1. (Done(o) => Done(o)') /\ Pending(o)' = Pending(o)
    BY <1>1 DEF Done, Pending
  <2>2. BuiltInv(o)'
    BY <1>1, <1>4, <1>5 DEF AloneInv, BuiltInv
  <2>3. ContinueInv(o)' /\ PreparedInv(o)'
    BY <1>1, <1>4, <1>5, <2>1 DEF AloneInv, ContinueInv, PreparedInv
  <2>4. FinalInv(o)' /\ RestInv(o)'
    BY <1>1, <1>4, <1>5, <2>1 DEF AloneInv, FinalInv, RestInv
  <2>5. HolderInv(o)'
    BY <1>1, <1>5 DEF AloneInv, HolderInv
  <2> QED
    BY <2>2, <2>3, <2>4, <2>5 DEF AloneInv
<1> QED
  BY <1>1, <1>3, <1>4, <1>5, EnvironmentStep DEF histVars, IInv, OpTypes, Types

-----------------------------------------------------------------------------
(* The initial state, the steps that change nothing, and the theorems. *)

LEMMA Starts ==
    ASSUME Init
    PROVE  IInv
<1>1. /\ link = "closed" /\ wire = <<>> /\ open = Idle /\ todo = <<>> /\ orphans = {} /\ executed = {}
      /\ bopen = FALSE /\ fresh = FALSE /\ holder = NoOp /\ clean = TRUE /\ mixed = {}
      /\ kind \in [Ops -> Kinds]
      /\ step = [o \in Ops |-> "idle"] /\ verdict = [o \in Ops |-> "none"]
      /\ status = [o \in Ops |-> "none"] /\ buf = [o \in Ops |-> <<>>]
      /\ heard = [o \in Ops |-> {}] /\ sent = [o \in Ops |-> 0]
  BY DEF Init, ConnInit
<1>2. Conn
  BY <1>1, IdleIsRequest DEF Conn, Links
<1>3. 0 \in 0 .. Chunks
  BY ChunksAssumption
<1>4. OpTypes
  <2>1. /\ step \in [Ops -> Steps] /\ verdict \in [Ops -> Verdicts]
        /\ status \in [Ops -> Codes \cup {"none"}]
    BY <1>1 DEF Steps, Verdicts
  <2>2. <<>> \in Seq(Units) /\ {} \in SUBSET (Ops \cup {NoOp})
    OBVIOUS
  <2>3. /\ buf \in [Ops -> Seq(Units)] /\ heard \in [Ops -> SUBSET (Ops \cup {NoOp})]
        /\ sent \in [Ops -> 0 .. Chunks]
    BY <1>1, <1>3, <2>2
  <2> QED
    BY <1>1, <2>1, <2>3 DEF OpTypes
<1>5. InSession = {}
  BY <1>1 DEF InSession
<1>6. SessionInv
  BY <1>1, <1>5 DEF SessionInv, BetweenInv
<1>7. Requests = {} /\ open.op = NoOp
  BY <1>1, IdleIsRequest DEF Requests, Range
<1>8. StartInv /\ DecidedInv /\ OwnReply /\ OkIsDone
  BY <1>1, <1>7, NoOpAssumption DEF StartInv, DecidedInv, OwnReply, OkIsDone
<1> QED
  BY <1>2, <1>4, <1>6, <1>8 DEF IInv, Types

LEMMA Stutters ==
    ASSUME IInv, UNCHANGED vars
    PROVE  IInv'
<1>1. UNCHANGED <<link, wire, open, todo, orphans, executed, bopen, fresh, holder, clean, mixed,
                  kind, step, verdict, status, buf, heard, sent>>
  BY DEF vars, connVars, mapVars, histVars, opVars, replyVars
<1>2. \A o \in Ops : AloneInv(o) => AloneInv(o)'
  BY <1>1 DEF AloneInv, BuiltInv, ContinueInv, PreparedInv, FinalInv, RestInv, HolderInv, Neat,
              Pending, Done, Sound
<1>3. Conn' /\ Requests' = Requests
  BY <1>1 DEF IInv, Types, Conn, Requests
<1> QED
  BY <1>1, <1>2, <1>3, EnvironmentStep DEF Neat, histVars, opVars, replyVars, IInv, Types, OpTypes

(* The invariant holds of any operations, writes and answers of the server: *)
(* one lemma above for each step of an operation and of its environment.    *)
THEOREM Invariance == Spec => []IInv
<1>1. Init => IInv
  BY Starts
<1>2. IInv /\ [Next]_vars => IInv'
  <2> SUFFICES ASSUME IInv, [Next]_vars
               PROVE  IInv'
    OBVIOUS
  <2>1. ASSUME NEW o \in Ops,
               \/ Build(o) \/ Reconnect(o)
               \/ PrepareUpload(o) \/ Write(o) \/ CommitUpload(o) \/ UploadReply(o) \/ UploadRest(o)
               \/ AbortUpload(o)
        PROVE  IInv'
    BY <2>1, OperationIsBuilt, OperationReconnects, UploadIsPrepared, ChunkIsWritten,
       UploadIsCommitted, UploadIsAnswered, UploadIsAborted
  <2>2. ASSUME NEW o \in Ops,
               \/ PrepareRemoval(o) \/ ReadContinue(o) \/ CommitRemoval(o) \/ RemovalReply(o)
               \/ RemovalSkip(o) \/ AbortRemoval(o)
               \/ PrepareDownload(o) \/ DownloadReply(o) \/ Read(o)
        PROVE  IInv'
    BY <2>2, RemovalIsPrepared, RemovalIsAllowed, RemovalIsCommitted, RemovalIsAnswered,
       RemovalIsSkipped, RemovalIsAborted, DownloadIsPrepared, DownloadIsAnswered, DownloadIsRead
  <2>3. CASE Environment /\ UNCHANGED opVars
    BY <2>3, TimerExpires, RequestContinues, RequestIsRefused, BodyIsSkipped, RequestIsAnswered,
       OrphanIsDone, PeerIsGone DEF Environment
  <2>4. CASE UNCHANGED vars
    BY <2>4, Stutters
  <2> QED
    BY <2>1, <2>2, <2>3, <2>4 DEF Next
<1> QED
  BY <1>1, <1>2, PTL DEF Spec

(* Types: the variables of the operations and of the connection stay in     *)
(* their types, and a socket that is closed keeps nothing.                  *)
THEOREM TypeCorrect == Spec => []TypeOK
<1>1. IInv => TypeOK
  <2> SUFFICES ASSUME IInv
               PROVE  TypeOK
    OBVIOUS
  <2>1. Conn /\ OpTypes
    BY DEF IInv, Types
  <2>2. /\ open.op \in Ops \cup {NoOp} /\ open.chunks \in Nat /\ open.state \in States
        /\ \A i \in DOMAIN todo : todo[i] \in Asked
    BY <2>1 DEF Conn, AnyRequest
  <2>3. ConnTypeOK
    BY <2>1, <2>2 DEF ConnTypeOK, Conn, OpTypes, States, Asked
  <2> QED
    BY <2>1, <2>3 DEF TypeOK, OpTypes
<1> QED
  BY <1>1, Invariance, PTL

(* OwnReply: an operation that saw only clean connections parses no reply   *)
(* but its own.                                                             *)
THEOREM RepliesAreOwn == Spec => []OwnReply
<1>1. IInv => OwnReply
  BY DEF IInv
<1> QED
  BY <1>1, Invariance, PTL

(* OkIsDone: what such an operation reports as done, the server did.        *)
THEOREM SuccessIsDone == Spec => []OkIsDone
<1>1. IInv => OkIsDone
  BY DEF IInv
<1> QED
  BY <1>1, Invariance, PTL

(* CommitDecides: the server does no upload and no removal that was not     *)
(* committed, nor one that was aborted.                                     *)
THEOREM NothingUndecided == Spec => []CommitDecides
<1>1. IInv => CommitDecides
  BY DEF IInv, DecidedInv, Requests, CommitDecides
<1> QED
  BY <1>1, Invariance, PTL
==============================================================================
