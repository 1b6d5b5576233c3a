--------------------------- MODULE KineticClient ---------------------------
(***************************************************************************)
(* oio::kinetic::client::CoroutineClient and PendingExchange: one client   *)
(* of one Kinetic drive, shared by many callers.                           *)
(*                                                                         *)
(* Everything runs in libmill coroutines of one thread, so an action is    *)
(* the code between two points where a coroutine may be suspended: a       *)
(* channel operation (chs, chr, mill_choose), mill_go, msleep, or an       *)
(* operation on the socket.  The coroutines are the callers, the           *)
(* destructor, run_agents, run_agent_consumer and run_agent_producer; each *)
(* has a program counter named after the place it is suspended at.         *)
(*                                                                         *)
(* The drive is the environment: it may refuse the connection, close it,   *)
(* ignore a request, and answer those it has fully received in any order   *)
(* and any number of times.                                                *)
(***************************************************************************)
EXTENDS Naturals, FiniteSets, SequencesExt

CONSTANTS
    Calls,          \* the RPCs the callers issue, one Exchange each
    NoCall,         \* the null shared_ptr
    ChanCap,        \* capacity of to_agent_ (64 in the code)
    Faults          \* "late": deadlines pass; "silent": the banner may not come

ASSUME CallsAssumption == IsFiniteSet(Calls) /\ NoCall \notin Calls
ASSUME ChanCapAssumption == ChanCap \in Nat \ {0}
ASSUME FaultsAssumption == Faults \subseteq {"late", "silent"}

VARIABLES
    mode,           \* the process: "run", "crashed" or "spinning"
    running,        \* running_
    caller,         \* where the coroutine of each call is
    owner,          \* where ~CoroutineClient() is
    waiting,        \* waiting_, the queue of RPCs not sent yet
    pending,        \* pending_, the vector of RPCs sent, or being sent
    stale,          \* slots of that vector past its end, during a scan
    seq,            \* sequence_id_ of each PendingExchange
    nextSeq,        \* ctx.sequence_id_
    tokens,         \* SIGNAL_AGENT_DATA messages in to_agent_
    stopToken,      \* is a SIGNAL_AGENT_STOP in to_agent_ (behind the tokens)
    sock,           \* the connection as the client shut it down
    served,         \* requests the drive received on this connection
    agents,         \* where run_agents is
    aborting,       \* tmp of abort_all_rpc: calls still to be signalled
    consumer,       \* where run_agent_consumer is
    reader,         \* the call it is signalling
    producer,       \* where run_agent_producer is
    writer,         \* the call it is sending or aborting
    scan,           \* the range-for of abort_stalled_rpc
    notified,       \* messages in notification_ of each call (capacity 1)
    outcome,        \* what ManageReply or ManageError left in the Exchange
    signals,        \* how many times Signal was called for each call
    expired         \* the calls whose Deadline() is in the past

callerVars == <<caller, notified, outcome, signals>>
queueVars == <<waiting, pending, stale, seq, nextSeq>>
chanVars == <<tokens, stopToken>>
netVars == <<sock, served>>
agentVars == <<agents, aborting>>
consumerVars == <<consumer, reader>>
producerVars == <<producer, writer, scan>>
lifeVars == <<mode, running, owner>>

vars == <<mode, running, owner, caller, notified, outcome, signals, waiting,
          pending, stale, seq, nextSeq, tokens, stopToken, sock, served,
          agents, aborting, consumer, reader, producer, writer, scan, expired>>

\* What the steps of each coroutine leave alone.
callerRest == <<lifeVars, signals, outcome, pending, stale, stopToken, netVars,
                agentVars, consumerVars, producerVars, expired>>
ownerRest == <<mode, callerVars, queueVars, tokens, netVars, agentVars,
               consumerVars, producerVars, expired>>
agentRest == <<lifeVars, seq, stale, chanVars, reader, producerVars, expired>>
consumerRest == <<running, owner, waiting, seq, nextSeq, chanVars, served,
                  agentVars, writer, scan, expired>>
producerRest == <<running, owner, stopToken, agentVars, consumerVars, expired>>

NoScan == [next |-> 0, end |-> 0, late |-> {}]

CallerPcs == {"idle", "booting", "blocked", "holding", "parked", "woken", "done"}
OwnerPcs == {"alive", "stopping", "joining", "gone"}
AgentPcs == {"off", "join", "abort", "sleep", "ended"}
ConsumerPcs == {"off", "connect", "banner", "test", "read", "signal", "join", "out"}
ProducerPcs == {"off", "choose", "check", "send", "sendsignal", "sendpop",
                "scan", "scansignal", "scanpop", "out"}

-----------------------------------------------------------------------------
(* RPC() has handed the call to the client. *)
Accepted(c) == caller[c] \notin {"idle", "booting"}

(* libmill's chs on to_agent_ completes when the channel has room. *)
Room == tokens + (IF stopToken THEN 1 ELSE 0) < ChanCap

(* chs on notification_: room in its buffer, or a caller parked in chr. *)
CanSignal(c) == notified[c] = 0 \/ caller[c] = "parked"

(* PendingExchange::Signal; the mutant lets a parked caller sleep on. *)
SignalParked(c) ==
    /\ UNCHANGED caller
    /\ notified' = [notified EXCEPT ![c] = 1]
    /\ signals' = [signals EXCEPT ![c] = @ + 1]
Signal(c) ==
    /\ caller' = IF caller[c] = "parked"
                 THEN [caller EXCEPT ![c] = "woken"] ELSE caller
    /\ notified' = IF caller[c] = "parked"
                   THEN notified ELSE [notified EXCEPT ![c] = 1]
    /\ signals' = [signals EXCEPT ![c] = @ + 1]

(* ManageReply, ManageError. *)
Record(c, o) == outcome' = [outcome EXCEPT ![c] = o]

(* A ManageReply or ManageError and the Signal that follows: when the      *)
(* notification has no room the coroutine stays suspended in Signal.       *)
Finish(c, o) ==
    /\ Record(c, o)
    /\ IF CanSignal(c) THEN Signal(c) ELSE UNCHANGED <<caller, notified, signals>>

Scanning == producer \in {"scan", "scansignal", "scanpop"}

(* pending_.erase: the vector shifts its tail down and keeps its storage,  *)
(* the slot it vacates holds a moved-from pointer, or, when the last       *)
(* element goes, the destroyed one.  Only a running scan can see it.  The  *)
(* mutants erase the wrong element, or reset the pointer and keep its slot. *)
EraseNothing(i) ==
    /\ pending' = [pending EXCEPT ![i] = NoCall]
    /\ UNCHANGED stale
EraseLast(i) ==
    /\ pending' = Front(pending)
    /\ stale' = IF Scanning THEN <<NoCall>> \o stale ELSE stale
Erase(i) ==
    /\ pending' = RemoveAt(pending, i)
    /\ stale' = IF Scanning
                THEN <<IF i = Len(pending) THEN pending[i] ELSE NoCall>> \o stale
                ELSE stale

(* pop_rpc: the first pending RPC with that sequence number, if any. *)
Matches(n) == {i \in 1..Len(pending) : seq[pending[i]] = n}
IsFirst(i, S) == i \in S /\ \A j \in S : i <= j
PopRpc(n) ==
    IF Matches(n) = {} THEN UNCHANGED <<pending, stale>>
    ELSE \E i \in Matches(n) : IsFirst(i, Matches(n)) /\ Erase(i)

(* SetSequence(ctx.sequence_id_++); the mutant forgets the increment. *)
StampReused(c) ==
    /\ seq' = [seq EXCEPT ![c] = nextSeq]
    /\ UNCHANGED nextSeq
Stamp(c) ==
    /\ seq' = [seq EXCEPT ![c] = nextSeq]
    /\ nextSeq' = nextSeq + 1

(* chs(to_agent_, SIGNAL_AGENT_DATA): blocks when the channel is full; the *)
(* mutant drops the message instead.                                       *)
PostOrDrop(c) ==
    /\ tokens' = IF Room THEN tokens + 1 ELSE tokens
    /\ caller' = [caller EXCEPT ![c] = "holding"]
Post(c) ==
    /\ tokens' = IF Room THEN tokens + 1 ELSE tokens
    /\ caller' = [caller EXCEPT ![c] = IF Room THEN "holding" ELSE "blocked"]

(* What abort_all_rpc moves to tmp: the waiting RPCs behind the pending;   *)
(* the mutant drops the waiting.                                           *)
PendingOnly == pending
PendingAndWaiting == pending \o waiting

ProcessTypeOK ==
    /\ mode \in {"run", "crashed", "spinning"}
    /\ running \in BOOLEAN
    /\ owner \in OwnerPcs
    /\ caller \in [Calls -> CallerPcs]
    /\ notified \in [Calls -> 0..1]
    /\ outcome \in [Calls -> {"none", "reply", "error"}]
    /\ signals \in [Calls -> Nat]
    /\ expired \in SUBSET Calls

QueueTypeOK ==
    /\ waiting \in Seq(Calls) /\ pending \in Seq(Calls)
    /\ stale \in Seq(Calls \cup {NoCall})
    /\ seq \in [Calls -> Nat] /\ nextSeq \in Nat
    /\ tokens \in 0..ChanCap /\ stopToken \in BOOLEAN
    /\ sock \in {"closed", "connecting", "open", "half", "shut"}
    /\ served \in SUBSET (Nat \X Calls)

AgentTypeOK ==
    /\ agents \in AgentPcs /\ aborting \in Seq(Calls)
    /\ consumer \in ConsumerPcs /\ reader \in Calls \cup {NoCall}
    /\ producer \in ProducerPcs /\ writer \in Calls \cup {NoCall}
    /\ scan \in [next : Nat, end : Nat, late : SUBSET Calls]
    /\ consumer = "signal" => reader \in Calls
    /\ producer \in {"send", "sendsignal", "sendpop", "scansignal", "scanpop"}
          => writer \in Calls

TypeOK == ProcessTypeOK /\ QueueTypeOK /\ AgentTypeOK

Init ==
    /\ mode = "run" /\ running = FALSE /\ owner = "alive"
    /\ caller = [c \in Calls |-> "idle"]
    /\ notified = [c \in Calls |-> 0]
    /\ outcome = [c \in Calls |-> "none"]
    /\ signals = [c \in Calls |-> 0]
    /\ waiting = <<>> /\ pending = <<>> /\ stale = <<>>
    /\ seq = [c \in Calls |-> 0]
    /\ nextSeq = 1
    /\ tokens = 0 /\ stopToken = FALSE
    /\ sock = "closed" /\ served = {}
    /\ agents = "off" /\ aborting = <<>>
    /\ consumer = "off" /\ reader = NoCall
    /\ producer = "off" /\ writer = NoCall /\ scan = NoScan
    /\ expired = {}


-----------------------------------------------------------------------------
(* The session: Context::Reset, the consumer started, connect() under way. *)
StartSession ==
    /\ nextSeq' = 1
    /\ agents' = "join"
    /\ consumer' = "connect"
    /\ sock' = "connecting"
    /\ served' = {}

(***************************************************************************)
(* The callers: RPC(), which boots the agents and posts the call, then     *)
(* Wait().                                                                 *)
(***************************************************************************)

(* Boot() of the first RPC: mill_go runs the agents up to their first      *)
(* wait and suspends the caller.                                           *)
Boot(c) ==
    /\ caller[c] = "idle" /\ owner = "alive" /\ ~running
    /\ running' = TRUE
    /\ caller' = [caller EXCEPT ![c] = "booting"]
    /\ StartSession
    /\ UNCHANGED <<mode, owner, notified, outcome, signals, waiting, pending,
                   stale, seq, chanVars, aborting, reader, producerVars, expired>>

(* The rest of RPC(): the call is in waiting_ before chs may block. *)
Enqueue(c) ==
    /\ \/ caller[c] = "idle" /\ owner = "alive" /\ running
       \/ caller[c] = "booting"
    /\ Stamp(c)
    /\ waiting' = Append(waiting, c)
    /\ Post(c)
    /\ UNCHANGED <<callerRest, notified>>

(* The chs of a blocked RPC() completes. *)
SendToken(c) ==
    /\ caller[c] = "blocked" /\ Room
    /\ Post(c)
    /\ UNCHANGED <<callerRest, notified, waiting, seq, nextSeq>>

(* Wait(): the caller takes the notification, or parks until there is one. *)
Wait(c) ==
    /\ caller[c] = "holding"
    /\ caller' = [caller EXCEPT ![c] = IF notified[c] = 1 THEN "woken" ELSE "parked"]
    /\ notified' = [notified EXCEPT ![c] = 0]
    /\ UNCHANGED <<callerRest, waiting, seq, nextSeq, tokens>>

(* Wait() returns: the caller reads the exchange and may destroy it. *)
Resume(c) ==
    /\ caller[c] = "woken"
    /\ caller' = [caller EXCEPT ![c] = "done"]
    /\ UNCHANGED <<callerRest, notified, waiting, seq, nextSeq, tokens>>

(* The deadline of an unanswered call passes. *)
Expire(c) ==
    /\ "late" \in Faults
    /\ Accepted(c) /\ signals[c] = 0 /\ c \notin expired
    /\ expired' = expired \cup {c}
    /\ UNCHANGED <<lifeVars, callerVars, queueVars, chanVars, netVars,
                   agentVars, consumerVars, producerVars>>

(***************************************************************************)
(* ~CoroutineClient(), called when no caller holds the client any more.    *)
(***************************************************************************)

(* The mutant does not reset running_. *)
KeepRunning == running' = running
StopRunning == running' = FALSE

Destroy ==
    /\ owner = "alive"
    /\ \A c \in Calls : caller[c] \in {"idle", "done"}
    /\ StopRunning
    /\ stopToken' = (running /\ Room)
    /\ owner' = IF ~running THEN "gone" ELSE IF Room THEN "joining" ELSE "stopping"
    /\ UNCHANGED ownerRest

SendStop ==
    /\ owner = "stopping" /\ Room
    /\ stopToken' = TRUE
    /\ owner' = "joining"
    /\ UNCHANGED <<ownerRest, running>>

(* chr(stopped_) *)
Joined ==
    /\ owner = "joining" /\ agents = "ended"
    /\ owner' = "gone"
    /\ UNCHANGED <<ownerRest, running, stopToken>>

(***************************************************************************)
(* run_agents                                                              *)
(***************************************************************************)

(* The consumer has exited: close the socket and begin abort_all_rpc,      *)
(* which moves every RPC to tmp and records the error in all of them.      *)
AbortAll ==
    /\ agents = "join" /\ consumer = "out"
    /\ agents' = "abort"
    /\ consumer' = "off"
    /\ sock' = "closed"
    /\ aborting' = PendingAndWaiting
    /\ pending' = <<>> /\ waiting' = <<>>
    /\ outcome' = [c \in Calls |->
                      IF Contains(PendingAndWaiting, c) THEN "error" ELSE outcome[c]]
    /\ UNCHANGED <<agentRest, caller, notified, signals, nextSeq, served>>

(* One Signal of abort_all_rpc. *)
AbortNext ==
    /\ agents = "abort" /\ aborting # <<>> /\ CanSignal(Head(aborting))
    /\ Signal(Head(aborting))
    /\ aborting' = Tail(aborting)
    /\ UNCHANGED <<agentRest, outcome, waiting, pending, nextSeq, netVars, agents, consumer>>

(* abort_all_rpc returns: sleep before the next session, or exit. *)
AbortDone ==
    /\ agents = "abort" /\ aborting = <<>>
    /\ agents' = IF running THEN "sleep" ELSE "ended"
    /\ UNCHANGED <<agentRest, callerVars, waiting, pending, nextSeq, netVars, aborting, consumer>>

(* msleep() returns. *)
Reconnect ==
    /\ agents = "sleep"
    /\ IF running THEN StartSession
       ELSE agents' = "ended" /\ UNCHANGED <<nextSeq, consumer, netVars>>
    /\ UNCHANGED <<agentRest, callerVars, waiting, pending, aborting>>

(***************************************************************************)
(* run_agent_consumer                                                      *)
(***************************************************************************)

(* PollOut: the connection is established. *)
Connected ==
    /\ consumer = "connect"
    /\ consumer' = "banner" /\ sock' = "open"
    /\ UNCHANGED <<consumerRest, mode, callerVars, pending, stale, reader, producer>>

(* It is refused, or times out; the banner is bad, or an error comes.      *)
HandshakeFails ==
    /\ consumer \in {"connect", "banner"}
    /\ consumer' = "out"
    /\ UNCHANGED <<consumerRest, mode, callerVars, pending, stale, sock, reader, producer>>

(* The banner says SUCCESS: mill_go runs the producer up to its first wait *)
(* and suspends the consumer, unless the client is being destroyed.        *)
BannerOk ==
    /\ consumer = "banner"
    /\ IF running
       THEN consumer' = "test" /\ producer' = "choose"
       ELSE consumer' = "out" /\ UNCHANGED producer
    /\ UNCHANGED <<consumerRest, mode, callerVars, pending, stale, sock, reader>>

(* No banner before the handshake deadline.  From then on read_exactly     *)
(* fails at once with EAGAIN, without a wait, and the loop asks again: the *)
(* thread never leaves this coroutine.                                     *)
BannerLate ==
    /\ "silent" \in Faults
    /\ consumer = "banner"
    /\ IF running
       THEN mode' = "spinning" /\ UNCHANGED consumer
       ELSE consumer' = "out" /\ UNCHANGED mode
    /\ UNCHANGED <<consumerRest, callerVars, pending, stale, sock, reader, producer>>

(* Leaving the read loop: shutdown(SHUT_RDWR), then wait for the producer. *)
Leave == consumer' = "join" /\ sock' = "shut"

(* while (running_) *)
ConsumerTest ==
    /\ consumer = "test"
    /\ IF running THEN consumer' = "read" /\ UNCHANGED sock ELSE Leave
    /\ UNCHANGED <<consumerRest, mode, callerVars, pending, stale, reader, producer>>

(* A frame that answers a pending RPC: manage() pops it, completes it and  *)
(* signals it.  What the drive sent is still readable after SHUT_RD.       *)
ReadReply(c) ==
    /\ consumer = "read"
    /\ \E m \in served : \E i \in Matches(m[1]) :
          IsFirst(i, Matches(m[1])) /\ pending[i] = c /\ Erase(i)
    /\ Finish(c, "reply")
    /\ consumer' = IF CanSignal(c) THEN "test" ELSE "signal"
    /\ reader' = IF CanSignal(c) THEN NoCall ELSE c
    /\ UNCHANGED <<consumerRest, mode, sock, producer>>

ConsumerSignal ==
    /\ consumer = "signal" /\ CanSignal(reader)
    /\ Signal(reader)
    /\ consumer' = "test" /\ reader' = NoCall
    /\ UNCHANGED <<consumerRest, mode, outcome, pending, stale, sock, producer>>

(* Leaving the loop: end of stream, a malformed frame or a socket error,   *)
(* at any time; and, when running_ has become false, any other frame or    *)
(* the timeout of the read.                                                *)
LeaveRead ==
    /\ consumer = "read"
    /\ Leave
    /\ UNCHANGED <<consumerRest, mode, callerVars, pending, stale, reader, producer>>

(* When it cannot stay: the producer has shut the reading, or running_ has *)
(* become false.                                                           *)
MustLeave == (sock = "half" \/ ~running) /\ LeaveRead

(* chr(from_producer); the mutant does not wait. *)
ProducerIgnored == TRUE
ProducerDone == producer = "out"
ConsumerJoin ==
    /\ consumer = "join" /\ ProducerDone
    /\ consumer' = "out"
    /\ producer' = IF producer = "out" THEN "off" ELSE producer
    /\ UNCHANGED <<consumerRest, mode, callerVars, pending, stale, sock, reader>>

(***************************************************************************)
(* run_agent_producer                                                      *)
(***************************************************************************)

(* out: shutdown(SHUT_RD), so that the consumer ends, then chs(done). *)
ProducerLeaves ==
    /\ producer' = "out"
    /\ sock' = IF sock = "open" THEN "half" ELSE sock

(* A token: the head of waiting_, if any, becomes pending, takes a new     *)
(* sequence number, and start_rpc begins to send it.                       *)
TakeToken ==
    /\ producer = "choose" /\ tokens > 0
    /\ tokens' = tokens - 1
    /\ IF waiting = <<>>
       THEN producer' = "check" /\ UNCHANGED <<waiting, pending, seq, nextSeq, writer>>
       ELSE /\ waiting' = Tail(waiting)
            /\ pending' = Append(pending, Head(waiting))
            /\ Stamp(Head(waiting))
            /\ writer' = Head(waiting)
            /\ producer' = "send"
    /\ UNCHANGED <<producerRest, mode, callerVars, stale, stopToken, netVars, scan>>

TakeStop ==
    /\ producer = "choose" /\ tokens = 0 /\ stopToken
    /\ stopToken' = FALSE
    /\ ProducerLeaves
    /\ UNCHANGED <<lifeVars, callerVars, queueVars, tokens, served, agentVars,
                   consumerVars, writer, scan, expired>>

(* mill_deadline: one second without a message. *)
ChooseTimeout ==
    /\ producer = "choose"
    /\ producer' = "check"
    /\ UNCHANGED <<producerRest, mode, callerVars, queueVars, tokens, netVars, writer, scan>>

(* The whole request is sent. *)
SendOk ==
    /\ producer = "send" /\ sock = "open"
    /\ served' = served \cup {<<seq[writer], writer>>}
    /\ producer' = "check" /\ writer' = NoCall
    /\ UNCHANGED <<producerRest, mode, callerVars, queueVars, tokens, sock, scan>>

(* EPIPE once the consumer has shut the socket, a timeout or any other     *)
(* error at any time: abort_rpc records the error and signals,             *)
SendFails ==
    /\ producer = "send"
    /\ Finish(writer, "error")
    /\ producer' = IF CanSignal(writer) THEN "sendpop" ELSE "sendsignal"
    /\ UNCHANGED <<producerRest, mode, queueVars, tokens, netVars, writer, scan>>

AbortSignal ==
    /\ producer \in {"sendsignal", "scansignal"} /\ CanSignal(writer)
    /\ Signal(writer)
    /\ producer' = IF producer = "sendsignal" THEN "sendpop" ELSE "scanpop"
    /\ UNCHANGED <<producerRest, mode, outcome, queueVars, tokens, netVars, writer, scan>>

(* then pops; start_rpc returns false and the producer exits.              *)
SendPop ==
    /\ producer = "sendpop"
    /\ PopRpc(seq[writer])
    /\ ProducerLeaves
    /\ writer' = NoCall
    /\ UNCHANGED <<producerRest, mode, callerVars, waiting, seq, nextSeq, tokens, served, scan>>

(* while (running_) *)
ProducerTest ==
    IF running THEN producer' = "choose" /\ UNCHANGED sock ELSE ProducerLeaves

(* Less than a second since the last check of the deadlines: loop. *)
CheckNot ==
    /\ producer = "check"
    /\ ProducerTest
    /\ UNCHANGED <<producerRest, mode, callerVars, queueVars, tokens, served, writer, scan>>

(* More: abort_stalled_rpc(now) begins; the range-for computes its end     *)
(* once, and now is compared to every deadline.                            *)
ScanStart ==
    /\ producer = "check"
    /\ producer' = "scan"
    /\ scan' = [next |-> 1, end |-> Len(pending), late |-> expired]
    /\ UNCHANGED <<producerRest, mode, callerVars, queueVars, tokens, netVars, writer>>

(* The slot the range-for reads: an element of the vector, or what a       *)
(* concurrent or nested erase left past its end.                           *)
Slot == IF scan.next <= Len(pending) THEN pending[scan.next]
        ELSE stale[scan.next - Len(pending)]
InScan == producer = "scan" /\ scan.next <= scan.end

ScanKeep ==
    /\ InScan /\ Slot # NoCall /\ Slot \notin scan.late
    /\ scan' = [scan EXCEPT !.next = @ + 1]
    /\ UNCHANGED <<producerRest, mode, callerVars, queueVars, tokens, netVars, producer, writer>>

(* The deadline is reached: abort_rpc(pe, ETIMEDOUT) signals, *)
ScanAbort ==
    /\ InScan /\ Slot # NoCall /\ Slot \in scan.late
    /\ Finish(Slot, "error")
    /\ writer' = Slot
    /\ producer' = IF CanSignal(Slot) THEN "scanpop" ELSE "scansignal"
    /\ UNCHANGED <<producerRest, mode, queueVars, tokens, netVars, scan>>

(* then pops, with the range-for still under way. *)
ScanPop ==
    /\ producer = "scanpop"
    /\ PopRpc(seq[writer])
    /\ producer' = "scan" /\ writer' = NoCall
    /\ scan' = [scan EXCEPT !.next = @ + 1]
    /\ UNCHANGED <<producerRest, mode, callerVars, waiting, seq, nextSeq, tokens, netVars>>

(* Undefined behaviour: pe->Deadline() through a moved-from pointer, or    *)
(* through a destroyed one (which may also still read as it was, the two   *)
(* actions above).                                                         *)
ScanCrash ==
    /\ InScan /\ scan.next > Len(pending)
    /\ mode' = "crashed"
    /\ UNCHANGED <<producerRest, callerVars, queueVars, tokens, netVars, producerVars>>

ScanEnd ==
    /\ producer = "scan" /\ scan.next > scan.end
    /\ ProducerTest
    /\ stale' = <<>> /\ scan' = NoScan
    /\ UNCHANGED <<producerRest, mode, callerVars, waiting, pending, seq, nextSeq,
                   tokens, served, writer>>

-----------------------------------------------------------------------------
CallerStep(c) == Boot(c) \/ Enqueue(c) \/ SendToken(c) \/ Wait(c) \/ Resume(c)
OwnerStep == Destroy \/ SendStop \/ Joined
AgentStep == AbortAll \/ AbortNext \/ AbortDone \/ Reconnect
ConsumerStep ==
    \/ Connected \/ HandshakeFails \/ BannerOk \/ BannerLate
    \/ ConsumerTest \/ ConsumerSignal \/ LeaveRead \/ ConsumerJoin
    \/ \E c \in Calls : ReadReply(c)
ProducerStep ==
    \/ TakeToken \/ TakeStop \/ ChooseTimeout \/ SendOk \/ SendFails
    \/ AbortSignal \/ SendPop \/ CheckNot \/ ScanStart \/ ScanKeep
    \/ ScanAbort \/ ScanPop \/ ScanCrash \/ ScanEnd

Next ==
    /\ mode = "run"
    /\ \/ \E c \in Calls : CallerStep(c) \/ Expire(c)
       \/ OwnerStep \/ AgentStep \/ ConsumerStep \/ ProducerStep

Spec == Init /\ [][Next]_vars

(***************************************************************************)
(* The scheduler runs every coroutine that is ready, every wait on the     *)
(* network has a deadline, and clocks advance.  Nobody has to issue a      *)
(* call, to destroy the client, or to answer.  A coroutine that waits for  *)
(* a message or a deadline may be woken by the deadline although a message *)
(* has come, but not for ever (mill_choose takes a message that is ready), *)
(* and abort_stalled_rpc is called every other second: hence SF.           *)
(***************************************************************************)
Running(A) == mode = "run" /\ A

(* One coroutine runs at a time on each side of chr(done) and chr(from_producer). *)
ReceivingSide ==
    \/ Connected \/ HandshakeFails \/ BannerOk
    \/ ConsumerTest \/ ConsumerSignal \/ MustLeave \/ ConsumerJoin \/ AgentStep
CallerProgress(c) ==
    \/ caller[c] = "booting" /\ Enqueue(c)
    \/ SendToken(c) \/ Wait(c) \/ Resume(c)

Fairness ==
    /\ \A c \in Calls : WF_vars(Running(CallerProgress(c))) /\ WF_vars(Running(Expire(c)))
    /\ WF_vars(Running(SendStop \/ Joined))
    /\ WF_vars(Running(ReceivingSide))
    /\ WF_vars(Running(ProducerStep))
    /\ SF_vars(Running(TakeToken)) /\ SF_vars(Running(TakeStop))
    /\ SF_vars(Running(ScanStart))

FairSpec == Spec /\ Fairness

-----------------------------------------------------------------------------
(* Safety. *)

(* No lost wakeup: run_agent_producer looks at waiting_ only when it takes *)
(* a token, so each queued RPC needs a token of its own, in to_agent_ or   *)
(* in the hands of a caller blocked on it, across every reconnection.      *)
Blocked == {c \in Calls : caller[c] = "blocked"}
NoLostWakeup == Len(waiting) <= tokens + Cardinality(Blocked)

(* No RPC is dropped: until it is signalled, a call that RPC() accepted is *)
(* in waiting_, in pending_, in the list abort_all_rpc works through, or   *)
(* in the hands of one of the agents.                                      *)
EveryCallHeld ==
    \A c \in Calls : Accepted(c) /\ signals[c] = 0 =>
        \/ Contains(waiting, c) \/ Contains(pending, c) \/ Contains(aborting, c)
        \/ reader = c \/ writer = c

(* A reply completes the RPC whose request it answers: although sequence   *)
(* numbers restart with every connection, are drawn twice by each call and *)
(* outlive the calls that timed out, no pending RPC has the number of      *)
(* another request the drive has received.                                 *)
AnsweredByOwnRequest ==
    \A m \in served : \A i \in Matches(m[1]) : pending[i] = m[2]

(* "Both producer/consumer coroutines have been stopped": between two      *)
(* sessions nothing is pending, no coroutine can touch the socket, and     *)
(* the next consumer finds it closed, as it asserts.                       *)
SessionIsolated ==
    agents \notin {"off", "join"} =>
        /\ pending = <<>> /\ consumer = "off" /\ producer = "off"
        /\ sock = "closed"

-----------------------------------------------------------------------------
(* Liveness. *)

(* Every RPC is completed: by its answer, by the loss of the session, or   *)
(* by its deadline (unless the process has crashed or hangs).              *)
EveryCallCompletes ==
    \A c \in Calls : Accepted(c) ~> (signals[c] > 0 \/ mode # "run")

(* Every call of RPC() followed by Wait() returns.                         *)
EveryCallReturns ==
    \A c \in Calls : Accepted(c) ~> (caller[c] = "done" \/ mode # "run")

(* ~CoroutineClient() returns.                                             *)
DestructorReturns ==
    owner \in {"stopping", "joining"} ~> (owner = "gone" \/ mode # "run")

-----------------------------------------------------------------------------
(* The client implements RpcService: a call is completed when it is        *)
(* signalled.                                                              *)
PhaseOf(c) ==
    CASE caller[c] \in {"idle", "booting"} -> "idle"
      [] caller[c] = "done" -> "returned"
      [] OTHER -> IF signals[c] = 0 THEN "issued" ELSE "completed"

Service == INSTANCE RpcService WITH
    phase <- [c \in Calls |-> PhaseOf(c)],
    result <- [c \in Calls |-> IF signals[c] = 0 THEN "none" ELSE outcome[c]],
    overdue <- expired

(* Each call completes exactly once and its caller gets that outcome,      *)
(* whatever the connection does; but for a call whose deadline has passed, *)
(* whose outcome a late answer may replace.                                *)
ImplementsRpcService == Service!ServiceSpec

-----------------------------------------------------------------------------
(* What the documentation says and the code does not do. *)

(* CoroutineClient.h: abort_stalled_rpc calls "abort_rpc(ETIMEDOUT) on all *)
(* the RPC whose deadline has been reached": none is behind the range-for. *)
NoLateCallSkipped ==
    Scanning => \A i \in 1..Len(pending) :
                    i < scan.next => pending[i] \notin scan.late

(* PendingExchange.h, ManageError: "No reply could be received".  A late   *)
(* reply that comes while abort_rpc is suspended in its signal refutes it. *)
NoReplyAfterError ==
    [][\A c \in Calls : outcome[c] = "error" => outcome'[c] = "error"]_vars

=============================================================================
