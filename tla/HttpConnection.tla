--------------------------- MODULE HttpConnection ---------------------------
(***************************************************************************)
(* One element of the SocketMap (oio/blob/http/socket_map.h), the socket   *)
(* it keeps for a host (utils/net.cpp) and the server at the other end.    *)
(* Every operation on a chunk of that host is given the same socket.       *)
(*                                                                         *)
(* The server is any rawx: the rawx-server of the repository (bin, over    *)
(* MillDaemon) or another that understands what the client sends.  A       *)
(* request is complete with its headers (a download, Content-Length 0) or  *)
(* with its final chunk; the server answers the complete ones in order, at *)
(* any time, refuses an upload or a removal at its headers, and takes      *)
(* bytes that are not where a request may start for garbage: it            *)
(* understands nothing more, and another rawx answers 400.                 *)
(***************************************************************************)
EXTENDS Naturals, SequencesExt

CONSTANTS
    Ops,        \* the operations on the chunks of the host
    NoOp        \* no operation

ASSUME NoOpAssumption == NoOp \notin Ops

VARIABLES
    link,       \* the socket: closed, up, half (the peer left), dead (it is known)
    wire,       \* what the server answered and nobody read yet
    open,       \* the request the server is receiving
    todo,       \* the complete requests it has to answer, oldest first
    orphans,    \* those whose connection was closed meanwhile
    executed,   \* the requests it carried out, with how many chunks of body
    bopen,      \* SocketElement._bopen
    fresh,      \* mill_now() <= SocketElement.timer
    holder,     \* who set the timer last
    clean,      \* history: this connection served one operation at a time, and
                \* nothing sent or skipped on it was cut short
    mixed       \* history: the operations given a connection that is not clean or
                \* has met garbage, or who shared theirs or cut a message on it

connVars == <<link, wire, open, todo, orphans>>
mapVars == <<bopen, fresh, holder>>
histVars == <<clean, mixed>>

Links == {"closed", "up", "half", "dead"}
States == {"idle", "expect", "body", "whole", "refused", "garbled"}
Codes == {"100", "200", "404", "500", "400"}

(* A reply reaches the client as its headers, then the rest of it.  What   *)
(* 100 and 204 are followed by is an empty line that the parser ignores.   *)
Unit(o, part) == [of |-> o, part |-> part]
Units == [of : Ops \cup {NoOp}, part : Codes \cup {"rest"}]
Answer(o, code) == <<Unit(o, code), Unit(o, "rest")>>

Request(o, n, state) == [op |-> o, chunks |-> n, state |-> state]
Idle == Request(NoOp, 0, "idle")
Garbled == Request(NoOp, 0, "garbled")

ConnTypeOK ==
    /\ link \in Links
    /\ wire \in Seq(Units)
    /\ open.op \in Ops \cup {NoOp} /\ open.chunks \in Nat
    /\ open.state \in States
    /\ \A i \in DOMAIN todo : todo[i].op \in Ops
    /\ link = "closed" => wire = <<>> /\ open = Idle /\ todo = <<>>
    /\ bopen \in BOOLEAN /\ fresh \in BOOLEAN /\ holder \in Ops \cup {NoOp}
    /\ clean \in BOOLEAN /\ mixed \subseteq Ops

ConnInit ==
    /\ link = "closed" /\ wire = <<>> /\ open = Idle /\ todo = <<>> /\ orphans = {}
    /\ executed = {}
    /\ bopen = FALSE /\ fresh = FALSE /\ holder = NoOp
    /\ clean = TRUE /\ mixed = {}

-----------------------------------------------------------------------------
(* The socket. *)

(* A new socket, or close and connect: connect is not blocking, and the    *)
(* peer may turn out not to be there.                                      *)
Forget ==
    /\ wire' = <<>> /\ open' = Idle /\ todo' = <<>>
    /\ orphans' = orphans \cup Range(todo)

Connect == link' \in {"up", "dead"} /\ Forget
Close == link' = "closed" /\ Forget

(* What the server makes of a message that reaches it. *)
Garbage ==
    /\ open' = Garbled
    /\ wire' = IF open = Garbled THEN wire ELSE Append(wire, Unit(NoOp, "400"))
    /\ UNCHANGED todo

HearsHeaders(o, state) ==
    IF open = Idle THEN open' = Request(o, 0, state) /\ UNCHANGED <<wire, todo>> ELSE Garbage

HearsExpect(o) == HearsHeaders(o, "expect")
HearsBody(o) == HearsHeaders(o, "body")

HearsWhole(o) ==
    IF open = Idle
        THEN todo' = Append(todo, Request(o, 0, "whole")) /\ UNCHANGED <<wire, open>>
        ELSE Garbage

HearsChunk(o) ==
    IF open.op # NoOp
        THEN open' = [open EXCEPT !.chunks = @ + 1] /\ UNCHANGED <<wire, todo>>
        ELSE Garbage

HearsEnd(o) ==
    IF open.op # NoOp
        THEN /\ open' = Idle
             /\ todo' = IF open.state = "refused" THEN todo ELSE Append(todo, open)
             /\ UNCHANGED wire
        ELSE Garbage

(* send that ends: the peer got it, or is gone and nobody noticed yet. *)
Sent(Hears(_), o) ==
    \/ link = "up" /\ Hears(o)
    \/ link = "half" /\ UNCHANGED <<wire, open, todo>>

Sends(Hears(_), o) ==
    /\ Sent(Hears, o)
    /\ UNCHANGED <<link, orphans, histVars>>

(* send that fails at once: no socket, or a reset. *)
SendFails ==
    /\ link # "up"
    /\ link' = IF link = "half" THEN "dead" ELSE link
    /\ UNCHANGED <<wire, open, todo, orphans, histVars>>

(* send that meets its deadline: some of the message is gone, or none. *)
SendCut(o) ==
    /\ link = "up"
    /\ open' \in {open, Garbled}
    /\ clean' = FALSE /\ mixed' = mixed \cup {o}
    /\ UNCHANGED <<link, wire, todo, orphans>>

-----------------------------------------------------------------------------
(* Mutant of Stale: the timer is never read. *)
NeverStale == ~bopen

(* SocketElement::GetSocket by o, while others use the socket: connect the *)
(* first time, reconnect when nobody asked for the socket for MAX_DELAY.   *)
Stale == ~bopen \/ ~fresh

GetSocket(o, others) ==
    /\ IF Stale THEN Connect ELSE UNCHANGED connVars
    /\ bopen' = TRUE
    /\ clean' = (others = {} /\ (Stale \/ (clean /\ open # Garbled)))
    /\ mixed' = mixed \cup others \cup (IF clean' THEN {} ELSE {o})
    /\ fresh' = TRUE /\ holder' = o

(* The socket cannot be connected: it is closed, and NULL is returned. *)
GetNoSocket(o) ==
    /\ Stale
    /\ Close
    /\ bopen' = FALSE /\ fresh' = TRUE /\ holder' = o
    /\ UNCHANGED histVars

(* MAX_DELAY passes. *)
Tick ==
    /\ fresh /\ fresh' = FALSE
    /\ UNCHANGED <<connVars, executed, bopen, holder, histVars>>

(* A read of o fails: at its deadline, 8 seconds after a call that came     *)
(* after o asked for the socket, so that the timer has expired unless      *)
(* somebody asked after o; or at once, at the end of the stream.           *)
ReadLateOrBroken(o) ==
    /\ fresh' = (fresh /\ ~(link = "up" /\ holder = o))
    /\ UNCHANGED <<bopen, holder>>

Unread == wire' = (IF link = "up" THEN wire ELSE <<>>) /\ UNCHANGED <<link, open, todo, orphans>>

-----------------------------------------------------------------------------
(* The server. *)

(* It asks for the body of a request that expects it. *)
ServerContinues ==
    /\ link = "up" /\ open.state = "expect"
    /\ open' = [open EXCEPT !.state = "body"]
    /\ wire' = Append(wire, Unit(open.op, "100"))
    /\ UNCHANGED <<link, todo, orphans, executed, mapVars, histVars>>

(* It refuses a request before its end, and reads that all the same. *)
ServerRefuses ==
    /\ link = "up" /\ open.state \in {"expect", "body"}
    /\ open' = [open EXCEPT !.state = "refused"]
    /\ \E c \in {"404", "500"} : wire' = wire \o Answer(open.op, c)
    /\ UNCHANGED <<link, todo, orphans, executed, mapVars, histVars>>

(* The rawx-server refuses an upload or a removal at its headers, whatever   *)
(* of it has arrived: the callback of the headers answers and has the       *)
(* parser skip the body, which completes the message there and then; the    *)
(* callback of a complete message, a Commit that was not prepared, answers  *)
(* again (but to Forbidden), and the body is garbage.                       *)
ServerSkipsBody ==
    /\ link = "up"
    /\ \E r \in {open} \cup Range(todo) :
          /\ r = IF todo = <<>> THEN open ELSE Head(todo)
          /\ r.state \in {"expect", "body"}
          /\ \E c \in {"404", "500"}, again \in {<<>>, Answer(r.op, "500")} :
                wire' = wire \o Answer(r.op, c) \o again
    /\ open' = Garbled /\ todo' = <<>>
    /\ UNCHANGED <<link, orphans, executed, mapVars, histVars>>

(* It answers the oldest complete request. *)
ServerAnswers ==
    /\ link = "up" /\ todo # <<>>
    /\ todo' = Tail(todo)
    /\ LET o == Head(todo).op IN
       \E c \in {"200", "404", "500"} :
          /\ wire' = wire \o Answer(o, c)
          /\ executed' = IF c = "200" THEN executed \cup {Head(todo)} ELSE executed
    /\ UNCHANGED <<link, open, orphans, mapVars, histVars>>

(* It carries out a request whose client has left. *)
ServerLags ==
    /\ \E r \in orphans : executed' = executed \cup {r} /\ orphans' = orphans \ {r}
    /\ UNCHANGED <<link, wire, open, todo, mapVars, histVars>>

(* It crashes, restarts, or closes an idle connection or one with garbage. *)
PeerLeaves ==
    /\ link = "up" /\ link' = "half"
    /\ open' = (IF open = Garbled THEN Garbled ELSE Idle) /\ todo' = <<>>
    /\ orphans' = orphans \cup Range(todo)
    /\ UNCHANGED <<wire, executed, mapVars, histVars>>

Environment ==
    \/ Tick \/ PeerLeaves
    \/ ServerContinues \/ ServerRefuses \/ ServerSkipsBody \/ ServerAnswers \/ ServerLags
=============================================================================
