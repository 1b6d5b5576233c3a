------------------------ MODULE KineticClientProofs ------------------------
(***************************************************************************)
(* Safety of KineticClient for any set of calls, any capacity of the       *)
(* channel and any faults: first what holds of its state, then the         *)
(* delivery of the calls (no wakeup is lost, a reply reaches the call      *)
(* whose request it answers, no call is dropped), that the client          *)
(* implements RpcService, and that no caller is left asleep.               *)
(***************************************************************************)
EXTENDS KineticClient, SequenceTheorems, FiniteSetTheorems, TLAPS

(* The producer runs only inside the read loop of the consumer, which runs *)
(* only while run_agents waits for it; outside nothing is pending and the  *)
(* socket is closed.                                                       *)
SessionInv ==
    /\ agents = "join" <=> consumer # "off"
    /\ consumer \in {"off", "connect", "banner", "out"} => producer = "off"
    /\ ~running /\ owner = "alive" => agents = "off"
    /\ agents # "join" => pending = <<>> /\ sock = "closed"

(* The storage the range-for walks through is the vector and the slots     *)
(* erased since the scan began.                                            *)
ScanInv ==
    IF Scanning THEN scan.next >= 1 /\ scan.end = Len(pending) + Len(stale)
    ELSE stale = <<>>

IInv == TypeOK /\ SessionInv /\ ScanInv

-----------------------------------------------------------------------------
LEMMA RemoveAtProperties ==
    ASSUME NEW S, NEW s \in Seq(S), NEW i \in 1..Len(s)
    PROVE  /\ RemoveAt(s, i) \in Seq(S)
           /\ Len(RemoveAt(s, i)) = Len(s) - 1
           /\ \A j \in 1..Len(s) - 1 :
                 RemoveAt(s, i)[j] = IF j < i THEN s[j] ELSE s[j + 1]
<1> DEFINE front == SubSeq(s, 1, i - 1)
           back == SubSeq(s, i + 1, Len(s))
<1>1. /\ front \in Seq(S) /\ Len(front) = i - 1
      /\ \A j \in 1..i - 1 : front[j] = s[j]
  <2>1. \A j \in 1..i - 1 : s[j] \in S
    OBVIOUS
  <2>2. QED
    BY <2>1, SubSeqProperties
<1>2. /\ back \in Seq(S) /\ Len(back) = Len(s) - i
      /\ \A j \in 1..Len(s) - i : back[j] = s[i + j]
  <2>1. \A j \in i + 1..Len(s) : s[j] \in S
    OBVIOUS
  <2>2. QED
    BY <2>1, SubSeqProperties
<1>3. RemoveAt(s, i) = front \o back
  BY DEF RemoveAt
<1> HIDE DEF front, back
<1>4. /\ front \o back \in Seq(S)
      /\ Len(front \o back) = Len(front) + Len(back)
      /\ \A j \in 1..Len(front) + Len(back) :
            (front \o back)[j] = IF j <= Len(front) THEN front[j]
                                 ELSE back[j - Len(front)]
  BY <1>1, <1>2, ConcatProperties
<1>5. Len(s) \in Nat /\ Len(front) + Len(back) = Len(s) - 1
  BY <1>1, <1>2
<1>6. ASSUME NEW j \in 1..Len(s) - 1
      PROVE  (front \o back)[j] = IF j < i THEN s[j] ELSE s[j + 1]
  <2>1. CASE j < i
    BY <2>1, <1>1, <1>4, <1>5
  <2>2. CASE ~(j < i)
    <3>1. /\ j - Len(front) \in 1..Len(s) - i /\ i + (j - Len(front)) = j + 1
          /\ ~(j <= Len(front))
      BY <2>2, <1>1, <1>5
    <3>2. QED
      BY <2>2, <3>1, <1>2, <1>4, <1>5
  <2>3. QED
    BY <2>1, <2>2
<1>7. QED
  BY <1>3, <1>4, <1>5, <1>6

(* What an erase does to the vector and to the storage of a scan. *)
LEMMA EraseProperties ==
    ASSUME TypeOK, NEW i \in 1..Len(pending), Erase(i)
    PROVE  /\ pending' \in Seq(Calls) /\ Len(pending') = Len(pending) - 1
           /\ stale' \in Seq(Calls \cup {NoCall})
           /\ IF Scanning THEN Len(pending') + Len(stale') = Len(pending) + Len(stale)
              ELSE stale' = stale
           /\ pending # <<>>
<1> DEFINE hole == IF i = Len(pending) THEN pending[i] ELSE NoCall
<1>1. /\ pending \in Seq(Calls) /\ stale \in Seq(Calls \cup {NoCall})
      /\ pending # <<>> /\ hole \in Calls \cup {NoCall}
  BY DEF TypeOK, QueueTypeOK
<1>2. pending' \in Seq(Calls) /\ Len(pending') = Len(pending) - 1
  BY <1>1, RemoveAtProperties DEF Erase
<1>3. <<hole>> \in Seq(Calls \cup {NoCall}) /\ Len(<<hole>>) = 1
  BY <1>1
<1> HIDE DEF hole
<1>4. /\ <<hole>> \o stale \in Seq(Calls \cup {NoCall})
      /\ Len(<<hole>> \o stale) = 1 + Len(stale)
  BY <1>1, <1>3, ConcatProperties
<1>5. stale' = IF Scanning THEN <<hole>> \o stale ELSE stale
  BY DEF Erase, hole
<1>6. stale' \in Seq(Calls \cup {NoCall})
  BY <1>1, <1>4, <1>5
<1>7. ASSUME Scanning
      PROVE  Len(pending') + Len(stale') = Len(pending) + Len(stale)
  <2>1. Len(stale') = 1 + Len(stale)
    BY <1>4, <1>5, <1>7
  <2>2. Len(pending) \in Nat /\ Len(stale) \in Nat
    BY <1>1
  <2>3. QED
    BY <2>1, <2>2, <1>2
<1>8. ~Scanning => stale' = stale
  BY <1>5
<1>9. QED
  BY <1>1, <1>2, <1>6, <1>7, <1>8

LEMMA PopProperties ==
    ASSUME TypeOK, NEW n, PopRpc(n)
    PROVE  /\ pending' \in Seq(Calls)
           /\ stale' \in Seq(Calls \cup {NoCall})
           /\ IF Scanning THEN Len(pending') + Len(stale') = Len(pending) + Len(stale)
              ELSE stale' = stale
           /\ pending = <<>> => pending' = <<>>
<1>1. CASE Matches(n) = {}
  BY <1>1 DEF PopRpc, TypeOK, QueueTypeOK
<1>2. CASE Matches(n) # {}
  <2>1. PICK i \in Matches(n) : Erase(i)
    BY <1>2 DEF PopRpc
  <2>2. i \in 1..Len(pending)
    BY DEF Matches
  <2>3. QED
    BY <2>1, <2>2, EraseProperties
<1>3. QED
  BY <1>1, <1>2

(* Signal keeps the types of what it changes, and never parks a caller. *)
LEMMA SignalProperties ==
    ASSUME TypeOK, NEW c \in Calls, Signal(c)
    PROVE  /\ caller' \in [Calls -> CallerPcs]
           /\ notified' \in [Calls -> 0..1]
           /\ signals' \in [Calls -> Nat]
BY DEF TypeOK, ProcessTypeOK, Signal, CallerPcs

LEMMA FinishProperties ==
    ASSUME TypeOK, NEW c \in Calls, NEW o \in {"reply", "error"}, Finish(c, o)
    PROVE  /\ caller' \in [Calls -> CallerPcs]
           /\ notified' \in [Calls -> 0..1]
           /\ signals' \in [Calls -> Nat]
           /\ outcome' \in [Calls -> {"none", "reply", "error"}]
BY SignalProperties DEF TypeOK, ProcessTypeOK, Finish, Record

LEMMA ScanNextProperties ==
    ASSUME NEW s \in [next : Nat, end : Nat, late : SUBSET Calls]
    PROVE  /\ [s EXCEPT !.next = @ + 1] \in [next : Nat, end : Nat, late : SUBSET Calls]
           /\ [s EXCEPT !.next = @ + 1].next = s.next + 1
           /\ [s EXCEPT !.next = @ + 1].end = s.end
OBVIOUS

(* IInv is inductive: the actions of a caller. *)
LEMMA CallerPreserves ==
    ASSUME IInv, NEW c \in Calls, CallerStep(c) \/ Expire(c)
    PROVE  IInv'
<1> USE DEF IInv, TypeOK, ProcessTypeOK, QueueTypeOK, AgentTypeOK,
     CallerPcs, OwnerPcs, AgentPcs, ConsumerPcs, ProducerPcs, callerRest,
     callerVars, queueVars, chanVars, netVars, agentVars, consumerVars, producerVars, lifeVars
<1>1. CASE Boot(c)
  <2>1. ProcessTypeOK'
    BY <1>1 DEF Boot, StartSession
  <2>2. QueueTypeOK'
    BY <1>1 DEF Boot, StartSession
  <2>3. AgentTypeOK'
    BY <1>1 DEF Boot, StartSession
  <2>4. SessionInv'
    BY <1>1 DEF SessionInv, Boot, StartSession
  <2>5. ScanInv'
    BY <1>1 DEF SessionInv, ScanInv, Scanning, Boot, StartSession
  <2>6. QED
    BY <2>1, <2>2, <2>3, <2>4, <2>5
<1>2. CASE Enqueue(c)
  <2>1. waiting' \in Seq(Calls) /\ tokens' \in 0..ChanCap
    BY <1>2, AppendProperties, ChanCapAssumption DEF Enqueue, Post, Room
  <2>2. ProcessTypeOK'
    BY <1>2, <2>1 DEF Enqueue, Stamp, Post
  <2>3. QueueTypeOK'
    BY <1>2, <2>1 DEF Enqueue, Stamp, Post
  <2>4. AgentTypeOK'
    BY <1>2, <2>1 DEF Enqueue, Stamp, Post
  <2>5. SessionInv'
    BY <1>2, <2>1 DEF SessionInv, Enqueue, Stamp, Post
  <2>6. ScanInv'
    BY <1>2, <2>1 DEF SessionInv, ScanInv, Scanning, Enqueue, Stamp, Post
  <2>7. QED
    BY <2>2, <2>3, <2>4, <2>5, <2>6
<1>3. CASE SendToken(c)
  <2>1. tokens' \in 0..ChanCap /\ caller' \in [Calls -> CallerPcs]
    BY <1>3, ChanCapAssumption DEF SendToken, Post, Room
  <2>2. ProcessTypeOK'
    BY <1>3, <2>1 DEF SendToken, Post, Room
  <2>3. QueueTypeOK'
    BY <1>3, <2>1 DEF SendToken, Post, Room
  <2>4. AgentTypeOK'
    BY <1>3, <2>1 DEF SendToken, Post, Room
  <2>5. SessionInv'
    BY <1>3, <2>1 DEF SessionInv, SendToken, Post, Room
  <2>6. ScanInv'
    BY <1>3, <2>1 DEF SessionInv, ScanInv, Scanning, SendToken, Post, Room
  <2>7. QED
    BY <2>2, <2>3, <2>4, <2>5, <2>6
<1>4. CASE Wait(c)
  <2>1. caller' \in [Calls -> CallerPcs] /\ notified' \in [Calls -> 0..1]
    BY <1>4 DEF Wait
  <2>2. ProcessTypeOK'
    BY <1>4, <2>1 DEF Wait
  <2>3. QueueTypeOK'
    BY <1>4, <2>1 DEF Wait
  <2>4. AgentTypeOK'
    BY <1>4, <2>1 DEF Wait
  <2>5. SessionInv'
    BY <1>4, <2>1 DEF SessionInv, Wait
  <2>6. ScanInv'
    BY <1>4, <2>1 DEF SessionInv, ScanInv, Scanning, Wait
  <2>7. QED
    BY <2>2, <2>3, <2>4, <2>5, <2>6
<1>5. CASE Resume(c)
  <2>1. caller' \in [Calls -> CallerPcs]
    BY <1>5 DEF Resume
  <2>2. ProcessTypeOK'
    BY <1>5, <2>1 DEF Resume
  <2>3. QueueTypeOK'
    BY <1>5, <2>1 DEF Resume
  <2>4. AgentTypeOK'
    BY <1>5, <2>1 DEF Resume
  <2>5. SessionInv'
    BY <1>5, <2>1 DEF SessionInv, Resume
  <2>6. ScanInv'
    BY <1>5, <2>1 DEF SessionInv, ScanInv, Scanning, Resume
  <2>7. QED
    BY <2>2, <2>3, <2>4, <2>5, <2>6
<1>6. CASE Expire(c)
  <2>1. ProcessTypeOK'
    BY <1>6 DEF Expire
  <2>2. QueueTypeOK'
    BY <1>6 DEF Expire
  <2>3. AgentTypeOK'
    BY <1>6 DEF Expire
  <2>4. SessionInv'
    BY <1>6 DEF SessionInv, Expire
  <2>5. ScanInv'
    BY <1>6 DEF SessionInv, ScanInv, Scanning, Expire
  <2>6. QED
    BY <2>1, <2>2, <2>3, <2>4, <2>5
<1>7. QED
  BY <1>1, <1>2, <1>3, <1>4, <1>5, <1>6 DEF CallerStep

(* IInv is inductive: the actions of the destructor. *)
LEMMA OwnerPreserves ==
    ASSUME IInv, OwnerStep
    PROVE  IInv'
<1> USE DEF IInv, TypeOK, ProcessTypeOK, QueueTypeOK, AgentTypeOK,
     CallerPcs, OwnerPcs, AgentPcs, ConsumerPcs, ProducerPcs, ownerRest,
     callerVars, queueVars, chanVars, netVars, agentVars, consumerVars, producerVars, lifeVars
<1>1. CASE Destroy
  <2>1. running' = FALSE /\ stopToken' \in BOOLEAN /\ owner' \in OwnerPcs \ {"alive"}
    BY <1>1 DEF Destroy, StopRunning, Room
  <2>2. UNCHANGED ownerRest /\ owner = "alive"
    BY <1>1 DEF Destroy
  <2>3. ProcessTypeOK'
    BY <2>1, <2>2
  <2>4. QueueTypeOK'
    BY <2>1, <2>2
  <2>5. AgentTypeOK'
    BY <2>1, <2>2
  <2>6. SessionInv'
    BY <2>1, <2>2 DEF SessionInv
  <2>7. ScanInv'
    BY <2>1, <2>2 DEF SessionInv, ScanInv, Scanning
  <2>8. QED
    BY <2>3, <2>4, <2>5, <2>6, <2>7
<1>2. CASE SendStop
  <2>1. ProcessTypeOK'
    BY <1>2 DEF SendStop
  <2>2. QueueTypeOK'
    BY <1>2 DEF SendStop
  <2>3. AgentTypeOK'
    BY <1>2 DEF SendStop
  <2>4. SessionInv'
    BY <1>2 DEF SessionInv, SendStop
  <2>5. ScanInv'
    BY <1>2 DEF SessionInv, ScanInv, Scanning, SendStop
  <2>6. QED
    BY <2>1, <2>2, <2>3, <2>4, <2>5
<1>3. CASE Joined
  <2>1. ProcessTypeOK'
    BY <1>3 DEF Joined
  <2>2. QueueTypeOK'
    BY <1>3 DEF Joined
  <2>3. AgentTypeOK'
    BY <1>3 DEF Joined
  <2>4. SessionInv'
    BY <1>3 DEF SessionInv, Joined
  <2>5. ScanInv'
    BY <1>3 DEF SessionInv, ScanInv, Scanning, Joined
  <2>6. QED
    BY <2>1, <2>2, <2>3, <2>4, <2>5
<1>4. QED
  BY <1>1, <1>2, <1>3 DEF OwnerStep

(* IInv is inductive: the actions of run_agents. *)
LEMMA AgentPreserves ==
    ASSUME IInv, AgentStep
    PROVE  IInv'
<1> USE DEF IInv, TypeOK, ProcessTypeOK, QueueTypeOK, AgentTypeOK,
     CallerPcs, OwnerPcs, AgentPcs, ConsumerPcs, ProducerPcs, agentRest,
     callerVars, queueVars, chanVars, netVars, agentVars, consumerVars, producerVars, lifeVars
<1>1. CASE AbortAll
  <2>1. ProcessTypeOK'
    BY <1>1 DEF AbortAll, PendingAndWaiting
  <2>2. QueueTypeOK'
    BY <1>1 DEF AbortAll, PendingAndWaiting
  <2>3. AgentTypeOK'
    BY <1>1 DEF AbortAll, PendingAndWaiting
  <2>4. SessionInv'
    BY <1>1 DEF SessionInv, AbortAll, PendingAndWaiting
  <2>5. ScanInv'
    BY <1>1 DEF SessionInv, ScanInv, Scanning, AbortAll, PendingAndWaiting
  <2>6. QED
    BY <2>1, <2>2, <2>3, <2>4, <2>5
<1>2. CASE AbortNext
  <2>1. Head(aborting) \in Calls /\ aborting' \in Seq(Calls)
    BY <1>2, HeadTailProperties DEF AbortNext
  <2>2. /\ caller' \in [Calls -> CallerPcs] /\ notified' \in [Calls -> 0..1]
        /\ signals' \in [Calls -> Nat]
    BY <1>2, <2>1, SignalProperties DEF AbortNext
  <2>3. ProcessTypeOK'
    BY <1>2, <2>1, <2>2 DEF AbortNext
  <2>4. QueueTypeOK'
    BY <1>2, <2>1, <2>2 DEF AbortNext
  <2>5. AgentTypeOK'
    BY <1>2, <2>1, <2>2 DEF AbortNext
  <2>6. SessionInv'
    BY <1>2, <2>1, <2>2 DEF SessionInv, AbortNext
  <2>7. ScanInv'
    BY <1>2, <2>1, <2>2 DEF SessionInv, ScanInv, Scanning, AbortNext
  <2>8. QED
    BY <2>3, <2>4, <2>5, <2>6, <2>7
<1>3. CASE AbortDone
  <2>1. ProcessTypeOK'
    BY <1>3 DEF AbortDone
  <2>2. QueueTypeOK'
    BY <1>3 DEF AbortDone
  <2>3. AgentTypeOK'
    BY <1>3 DEF AbortDone
  <2>4. SessionInv'
    BY <1>3 DEF SessionInv, AbortDone
  <2>5. ScanInv'
    BY <1>3 DEF SessionInv, ScanInv, Scanning, AbortDone
  <2>6. QED
    BY <2>1, <2>2, <2>3, <2>4, <2>5
<1>4. CASE Reconnect
  <2>1. ProcessTypeOK'
    BY <1>4 DEF Reconnect, StartSession
  <2>2. QueueTypeOK'
    BY SMTT(30), <1>4 DEF Reconnect, StartSession
  <2>3. AgentTypeOK'
    BY <1>4 DEF Reconnect, StartSession
  <2>4. SessionInv'
    BY <1>4 DEF SessionInv, Reconnect, StartSession
  <2>5. ScanInv'
    BY <1>4 DEF SessionInv, ScanInv, Scanning, Reconnect, StartSession
  <2>6. QED
    BY <2>1, <2>2, <2>3, <2>4, <2>5
<1>5. QED
  BY <1>1, <1>2, <1>3, <1>4 DEF AgentStep

(* IInv is inductive: the actions of run_agent_consumer. *)
LEMMA ConsumerPreserves ==
    ASSUME IInv, ConsumerStep
    PROVE  IInv'
<1> USE DEF IInv, TypeOK, ProcessTypeOK, QueueTypeOK, AgentTypeOK,
     CallerPcs, OwnerPcs, AgentPcs, ConsumerPcs, ProducerPcs, consumerRest,
     callerVars, queueVars, chanVars, netVars, agentVars, consumerVars, producerVars, lifeVars
<1>1. CASE Connected
  <2>1. ProcessTypeOK'
    BY <1>1 DEF Connected
  <2>2. QueueTypeOK'
    BY <1>1 DEF Connected
  <2>3. AgentTypeOK'
    BY <1>1 DEF Connected
  <2>4. SessionInv'
    BY <1>1 DEF SessionInv, Connected
  <2>5. ScanInv'
    BY <1>1 DEF SessionInv, ScanInv, Scanning, Connected
  <2>6. QED
    BY <2>1, <2>2, <2>3, <2>4, <2>5
<1>2. CASE HandshakeFails
  <2>1. ProcessTypeOK'
    BY <1>2 DEF HandshakeFails
  <2>2. QueueTypeOK'
    BY <1>2 DEF HandshakeFails
  <2>3. AgentTypeOK'
    BY <1>2 DEF HandshakeFails
  <2>4. SessionInv'
    BY <1>2 DEF SessionInv, HandshakeFails
  <2>5. ScanInv'
    BY <1>2 DEF SessionInv, ScanInv, Scanning, HandshakeFails
  <2>6. QED
    BY <2>1, <2>2, <2>3, <2>4, <2>5
<1>3. CASE BannerOk
  <2>1. ProcessTypeOK'
    BY <1>3 DEF BannerOk
  <2>2. QueueTypeOK'
    BY <1>3 DEF BannerOk
  <2>3. AgentTypeOK'
    BY <1>3 DEF BannerOk
  <2>4. SessionInv'
    BY <1>3 DEF SessionInv, BannerOk
  <2>5. ScanInv'
    BY <1>3 DEF SessionInv, ScanInv, Scanning, BannerOk
  <2>6. QED
    BY <2>1, <2>2, <2>3, <2>4, <2>5
<1>4. CASE BannerLate
  <2>1. ProcessTypeOK'
    BY <1>4 DEF BannerLate
  <2>2. QueueTypeOK'
    BY <1>4 DEF BannerLate
  <2>3. AgentTypeOK'
    BY <1>4 DEF BannerLate
  <2>4. SessionInv'
    BY <1>4 DEF SessionInv, BannerLate
  <2>5. ScanInv'
    BY <1>4 DEF SessionInv, ScanInv, Scanning, BannerLate
  <2>6. QED
    BY <2>1, <2>2, <2>3, <2>4, <2>5
<1>5. CASE ConsumerTest
  <2>1. ProcessTypeOK'
    BY <1>5 DEF ConsumerTest, Leave
  <2>2. QueueTypeOK'
    BY <1>5 DEF ConsumerTest, Leave
  <2>3. AgentTypeOK'
    BY <1>5 DEF ConsumerTest, Leave
  <2>4. SessionInv'
    BY <1>5 DEF SessionInv, ConsumerTest, Leave
  <2>5. ScanInv'
    BY <1>5 DEF SessionInv, ScanInv, Scanning, ConsumerTest, Leave
  <2>6. QED
    BY <2>1, <2>2, <2>3, <2>4, <2>5
<1>6. CASE ConsumerSignal
  <2>1. /\ caller' \in [Calls -> CallerPcs] /\ notified' \in [Calls -> 0..1]
        /\ signals' \in [Calls -> Nat]
    BY <1>6, SignalProperties DEF ConsumerSignal
  <2>2. ProcessTypeOK'
    BY <1>6, <2>1 DEF ConsumerSignal
  <2>3. QueueTypeOK'
    BY <1>6, <2>1 DEF ConsumerSignal
  <2>4. AgentTypeOK'
    BY <1>6, <2>1 DEF ConsumerSignal
  <2>5. SessionInv'
    BY <1>6, <2>1 DEF SessionInv, ConsumerSignal
  <2>6. ScanInv'
    BY <1>6, <2>1 DEF SessionInv, ScanInv, Scanning, ConsumerSignal
  <2>7. QED
    BY <2>2, <2>3, <2>4, <2>5, <2>6
<1>7. CASE LeaveRead
  <2>1. ProcessTypeOK'
    BY <1>7 DEF LeaveRead, Leave
  <2>2. QueueTypeOK'
    BY <1>7 DEF LeaveRead, Leave
  <2>3. AgentTypeOK'
    BY <1>7 DEF LeaveRead, Leave
  <2>4. SessionInv'
    BY <1>7 DEF SessionInv, LeaveRead, Leave
  <2>5. ScanInv'
    BY <1>7 DEF SessionInv, ScanInv, Scanning, LeaveRead, Leave
  <2>6. QED
    BY <2>1, <2>2, <2>3, <2>4, <2>5
<1>8. CASE ConsumerJoin
  <2>1. ProcessTypeOK'
    BY <1>8 DEF ConsumerJoin, ProducerDone
  <2>2. QueueTypeOK'
    BY <1>8 DEF ConsumerJoin, ProducerDone
  <2>3. AgentTypeOK'
    BY <1>8 DEF ConsumerJoin, ProducerDone
  <2>4. SessionInv'
    BY <1>8 DEF SessionInv, ConsumerJoin, ProducerDone
  <2>5. ScanInv'
    BY <1>8 DEF SessionInv, ScanInv, Scanning, ConsumerJoin, ProducerDone
  <2>6. QED
    BY <2>1, <2>2, <2>3, <2>4, <2>5
<1>9. CASE \E c \in Calls : ReadReply(c)
  <2>1. PICK c \in Calls : ReadReply(c)
    BY <1>9
  <2>2. PICK i \in 1..Len(pending) : Erase(i)
    BY <2>1 DEF ReadReply, Matches
  <2>3. /\ pending' \in Seq(Calls) /\ stale' \in Seq(Calls \cup {NoCall})
        /\ IF Scanning THEN Len(pending') + Len(stale') = Len(pending) + Len(stale)
           ELSE stale' = stale
        /\ pending # <<>>
    BY <2>2, EraseProperties
  <2>4. /\ caller' \in [Calls -> CallerPcs] /\ notified' \in [Calls -> 0..1]
        /\ signals' \in [Calls -> Nat]
        /\ outcome' \in [Calls -> {"none", "reply", "error"}]
    BY <2>1, FinishProperties DEF ReadReply
  <2>5. /\ UNCHANGED <<consumerRest, mode, sock, producer>>
        /\ consumer = "read" /\ consumer' \in {"test", "signal"}
        /\ reader' \in Calls \cup {NoCall} /\ (consumer' = "signal" => reader' \in Calls)
    BY <2>1 DEF ReadReply
  <2>6. ProcessTypeOK'
    BY <2>3, <2>4, <2>5
  <2>7. QueueTypeOK'
    BY <2>3, <2>4, <2>5
  <2>8. AgentTypeOK'
    BY <2>3, <2>4, <2>5
  <2>9. SessionInv'
    BY <2>3, <2>4, <2>5 DEF SessionInv
  <2>10. ScanInv'
    BY <2>3, <2>4, <2>5 DEF SessionInv, ScanInv, Scanning
  <2>11. QED
    BY <2>6, <2>7, <2>8, <2>9, <2>10
<1>10. QED
  BY <1>1, <1>2, <1>3, <1>4, <1>5, <1>6, <1>7, <1>8, <1>9 DEF ConsumerStep

(* IInv is inductive: the actions of run_agent_producer. *)
LEMMA ProducerPreserves ==
    ASSUME IInv, ProducerStep
    PROVE  IInv'
<1> USE DEF IInv, TypeOK, ProcessTypeOK, QueueTypeOK, AgentTypeOK,
     CallerPcs, OwnerPcs, AgentPcs, ConsumerPcs, ProducerPcs, producerRest,
     callerVars, queueVars, chanVars, netVars, agentVars, consumerVars, producerVars, lifeVars
<1>1. CASE TakeToken
  <2>1. tokens' \in 0..ChanCap
    BY <1>1, ChanCapAssumption DEF TakeToken
  <2>2. waiting # <<>> => /\ Head(waiting) \in Calls /\ Tail(waiting) \in Seq(Calls)
                         /\ Append(pending, Head(waiting)) \in Seq(Calls)
    BY <1>1, HeadTailProperties, AppendProperties
  <2>3. waiting' \in Seq(Calls) /\ pending' \in Seq(Calls)
    BY <1>1, <2>2 DEF TakeToken
  <2>4. seq' \in [Calls -> Nat] /\ nextSeq' \in Nat
    <3>1. CASE waiting = <<>>
      BY <1>1, <3>1 DEF TakeToken
    <3>2. CASE waiting # <<>>
      <4>1. /\ Head(waiting) \in Calls /\ nextSeq' = nextSeq + 1
            /\ seq' = [seq EXCEPT ![Head(waiting)] = nextSeq]
        BY <1>1, <2>2, <3>2 DEF TakeToken, Stamp
      <4>2. QED
        BY <4>1
    <3>3. QED
      BY <3>1, <3>2
  <2>5. /\ UNCHANGED <<producerRest, mode, callerVars, stale, stopToken, netVars, scan>>
        /\ producer = "choose" /\ producer' \in {"check", "send"}
        /\ writer' \in Calls \cup {NoCall} /\ (producer' = "send" => writer' \in Calls)
    BY <1>1, <2>2 DEF TakeToken
  <2>6. ProcessTypeOK'
    BY <2>1, <2>2, <2>3, <2>4, <2>5
  <2>7. QueueTypeOK'
    BY <2>1, <2>2, <2>3, <2>4, <2>5
  <2>8. AgentTypeOK'
    BY <2>1, <2>2, <2>3, <2>4, <2>5
  <2>9. SessionInv'
    BY <2>1, <2>2, <2>3, <2>4, <2>5 DEF SessionInv
  <2>10. ScanInv'
    BY <2>1, <2>2, <2>3, <2>4, <2>5 DEF SessionInv, ScanInv, Scanning
  <2>11. QED
    BY <2>6, <2>7, <2>8, <2>9, <2>10
<1>2. CASE TakeStop
  <2>1. ProcessTypeOK'
    BY <1>2 DEF TakeStop, ProducerLeaves
  <2>2. QueueTypeOK'
    BY <1>2 DEF TakeStop, ProducerLeaves
  <2>3. AgentTypeOK'
    BY <1>2 DEF TakeStop, ProducerLeaves
  <2>4. SessionInv'
    BY <1>2 DEF SessionInv, TakeStop, ProducerLeaves
  <2>5. ScanInv'
    BY <1>2 DEF SessionInv, ScanInv, Scanning, TakeStop, ProducerLeaves
  <2>6. QED
    BY <2>1, <2>2, <2>3, <2>4, <2>5
<1>3. CASE ChooseTimeout
  <2>1. ProcessTypeOK'
    BY <1>3 DEF ChooseTimeout
  <2>2. QueueTypeOK'
    BY <1>3 DEF ChooseTimeout
  <2>3. AgentTypeOK'
    BY <1>3 DEF ChooseTimeout
  <2>4. SessionInv'
    BY <1>3 DEF SessionInv, ChooseTimeout
  <2>5. ScanInv'
    BY <1>3 DEF SessionInv, ScanInv, Scanning, ChooseTimeout
  <2>6. QED
    BY <2>1, <2>2, <2>3, <2>4, <2>5
<1>4. CASE SendOk
  <2>1. ProcessTypeOK'
    BY <1>4 DEF SendOk
  <2>2. QueueTypeOK'
    BY <1>4 DEF SendOk
  <2>3. AgentTypeOK'
    BY <1>4 DEF SendOk
  <2>4. SessionInv'
    BY <1>4 DEF SessionInv, SendOk
  <2>5. ScanInv'
    BY <1>4 DEF SessionInv, ScanInv, Scanning, SendOk
  <2>6. QED
    BY <2>1, <2>2, <2>3, <2>4, <2>5
<1>5. CASE SendFails
  <2>1. /\ caller' \in [Calls -> CallerPcs] /\ notified' \in [Calls -> 0..1]
        /\ signals' \in [Calls -> Nat]
        /\ outcome' \in [Calls -> {"none", "reply", "error"}]
    BY <1>5, FinishProperties DEF SendFails
  <2>2. ProcessTypeOK'
    BY <1>5, <2>1 DEF SendFails
  <2>3. QueueTypeOK'
    BY <1>5, <2>1 DEF SendFails
  <2>4. AgentTypeOK'
    BY <1>5, <2>1 DEF SendFails
  <2>5. SessionInv'
    BY <1>5, <2>1 DEF SessionInv, SendFails
  <2>6. ScanInv'
    BY <1>5, <2>1 DEF SessionInv, ScanInv, Scanning, SendFails
  <2>7. QED
    BY <2>2, <2>3, <2>4, <2>5, <2>6
<1>6. CASE AbortSignal
  <2>1. /\ caller' \in [Calls -> CallerPcs] /\ notified' \in [Calls -> 0..1]
        /\ signals' \in [Calls -> Nat]
    BY <1>6, SignalProperties DEF AbortSignal
  <2>2. ProcessTypeOK'
    BY <1>6, <2>1 DEF AbortSignal
  <2>3. QueueTypeOK'
    BY <1>6, <2>1 DEF AbortSignal
  <2>4. AgentTypeOK'
    BY <1>6, <2>1 DEF AbortSignal
  <2>5. SessionInv'
    BY <1>6, <2>1 DEF SessionInv, AbortSignal
  <2>6. ScanInv'
    BY <1>6, <2>1 DEF SessionInv, ScanInv, Scanning, AbortSignal
  <2>7. QED
    BY <2>2, <2>3, <2>4, <2>5, <2>6
<1>7. CASE SendPop
  <2>1. /\ pending' \in Seq(Calls) /\ stale' \in Seq(Calls \cup {NoCall})
        /\ stale' = stale /\ (pending = <<>> => pending' = <<>>)
    BY <1>7, PopProperties DEF SendPop, Scanning
  <2>2. ProcessTypeOK'
    BY <1>7, <2>1 DEF SendPop, ProducerLeaves
  <2>3. QueueTypeOK'
    BY <1>7, <2>1 DEF SendPop, ProducerLeaves
  <2>4. AgentTypeOK'
    BY <1>7, <2>1 DEF SendPop, ProducerLeaves
  <2>5. SessionInv'
    BY <1>7, <2>1 DEF SessionInv, SendPop, ProducerLeaves
  <2>6. ScanInv'
    BY <1>7, <2>1 DEF SessionInv, ScanInv, Scanning, SendPop, ProducerLeaves
  <2>7. QED
    BY <2>2, <2>3, <2>4, <2>5, <2>6
<1>8. CASE CheckNot
  <2>1. ProcessTypeOK'
    BY <1>8 DEF CheckNot, ProducerTest, ProducerLeaves
  <2>2. QueueTypeOK'
    BY <1>8 DEF CheckNot, ProducerTest, ProducerLeaves
  <2>3. AgentTypeOK'
    BY <1>8 DEF CheckNot, ProducerTest, ProducerLeaves
  <2>4. SessionInv'
    BY <1>8 DEF SessionInv, CheckNot, ProducerTest, ProducerLeaves
  <2>5. ScanInv'
    BY <1>8 DEF SessionInv, ScanInv, Scanning, CheckNot, ProducerTest, ProducerLeaves
  <2>6. QED
    BY <2>1, <2>2, <2>3, <2>4, <2>5
<1>9. CASE ScanStart
  <2>1. /\ scan' \in [next : Nat, end : Nat, late : SUBSET Calls]
        /\ scan'.next = 1 /\ scan'.end = Len(pending)
    BY <1>9 DEF ScanStart
  <2>2. ProcessTypeOK'
    BY <1>9, <2>1 DEF ScanStart
  <2>3. QueueTypeOK'
    BY <1>9, <2>1 DEF ScanStart
  <2>4. AgentTypeOK'
    BY <1>9, <2>1 DEF ScanStart
  <2>5. SessionInv'
    BY <1>9, <2>1 DEF SessionInv, ScanStart
  <2>6. ScanInv'
    BY <1>9, <2>1 DEF SessionInv, ScanInv, Scanning, ScanStart
  <2>7. QED
    BY <2>2, <2>3, <2>4, <2>5, <2>6
<1>10. CASE ScanKeep
  <2>1. /\ scan' \in [next : Nat, end : Nat, late : SUBSET Calls]
        /\ scan'.next = scan.next + 1 /\ scan'.end = scan.end
    BY <1>10, ScanNextProperties DEF ScanKeep
  <2>2. /\ UNCHANGED <<producerRest, mode, callerVars, queueVars, tokens, netVars, producer, writer>>
        /\ producer = "scan"
    BY <1>10 DEF ScanKeep, InScan
  <2>3. ProcessTypeOK'
    BY <2>1, <2>2
  <2>4. QueueTypeOK'
    BY <2>1, <2>2
  <2>5. AgentTypeOK'
    BY <2>1, <2>2
  <2>6. SessionInv'
    BY <2>1, <2>2 DEF SessionInv
  <2>7. ScanInv'
    BY <2>1, <2>2 DEF SessionInv, ScanInv, Scanning
  <2>8. QED
    BY <2>3, <2>4, <2>5, <2>6, <2>7
<1>11. CASE ScanAbort
  <2>1. Slot \in Calls
    BY <1>11 DEF ScanAbort, InScan, Slot, ScanInv, Scanning
  <2>2. /\ caller' \in [Calls -> CallerPcs] /\ notified' \in [Calls -> 0..1]
        /\ signals' \in [Calls -> Nat]
        /\ outcome' \in [Calls -> {"none", "reply", "error"}]
    BY <1>11, <2>1, FinishProperties DEF ScanAbort
  <2>3. /\ UNCHANGED <<producerRest, mode, queueVars, tokens, netVars, scan>>
        /\ producer = "scan" /\ producer' \in {"scanpop", "scansignal"} /\ writer' \in Calls
    BY <1>11, <2>1 DEF ScanAbort, InScan
  <2>4. ProcessTypeOK'
    BY <2>1, <2>2, <2>3
  <2>5. QueueTypeOK'
    BY <2>1, <2>2, <2>3
  <2>6. AgentTypeOK'
    BY <2>1, <2>2, <2>3
  <2>7. SessionInv'
    BY <2>1, <2>2, <2>3 DEF SessionInv
  <2>8. ScanInv'
    BY <2>1, <2>2, <2>3 DEF SessionInv, ScanInv, Scanning
  <2>9. QED
    BY <2>4, <2>5, <2>6, <2>7, <2>8
<1>12. CASE ScanPop
  <2>1. /\ pending' \in Seq(Calls) /\ stale' \in Seq(Calls \cup {NoCall})
        /\ Len(pending') + Len(stale') = Len(pending) + Len(stale)
        /\ pending = <<>> => pending' = <<>>
    BY <1>12, PopProperties DEF ScanPop, Scanning
  <2>2. /\ scan' \in [next : Nat, end : Nat, late : SUBSET Calls]
        /\ scan'.next = scan.next + 1 /\ scan'.end = scan.end
    BY <1>12, ScanNextProperties DEF ScanPop
  <2>3. /\ UNCHANGED <<producerRest, mode, callerVars, waiting, seq, nextSeq, tokens, netVars>>
        /\ producer = "scanpop" /\ producer' = "scan" /\ writer' = NoCall
    BY <1>12 DEF ScanPop
  <2>4. ProcessTypeOK'
    BY <2>1, <2>2, <2>3
  <2>5. QueueTypeOK'
    BY <2>1, <2>2, <2>3
  <2>6. AgentTypeOK'
    BY <2>1, <2>2, <2>3
  <2>7. SessionInv'
    BY <2>1, <2>2, <2>3 DEF SessionInv
  <2>8. ScanInv'
    BY <2>1, <2>2, <2>3 DEF SessionInv, ScanInv, Scanning
  <2>9. QED
    BY <2>4, <2>5, <2>6, <2>7, <2>8
<1>13. CASE ScanCrash
  <2>1. ProcessTypeOK'
    BY <1>13 DEF ScanCrash
  <2>2. QueueTypeOK'
    BY <1>13 DEF ScanCrash
  <2>3. AgentTypeOK'
    BY <1>13 DEF ScanCrash
  <2>4. SessionInv'
    BY <1>13 DEF SessionInv, ScanCrash
  <2>5. ScanInv'
    BY <1>13 DEF SessionInv, ScanInv, Scanning, ScanCrash
  <2>6. QED
    BY <2>1, <2>2, <2>3, <2>4, <2>5
<1>14. CASE ScanEnd
  <2>1. /\ scan' \in [next : Nat, end : Nat, late : SUBSET Calls] /\ stale' = <<>>
        /\ producer' \in {"choose", "out"} /\ producer # "off"
        /\ sock' \in {"half", sock} /\ (sock = "closed" => sock' = sock)
    BY <1>14 DEF ScanEnd, ProducerTest, ProducerLeaves, NoScan
  <2>2. ProcessTypeOK'
    BY <1>14, <2>1 DEF ScanEnd, ProducerTest, ProducerLeaves, NoScan
  <2>3. QueueTypeOK'
    BY <1>14, <2>1 DEF ScanEnd, ProducerTest, ProducerLeaves, NoScan
  <2>4. AgentTypeOK'
    BY <1>14, <2>1 DEF ScanEnd, ProducerTest, ProducerLeaves, NoScan
  <2>5. SessionInv'
    BY <1>14, <2>1 DEF SessionInv, ScanEnd, ProducerTest, ProducerLeaves, NoScan
  <2>6. ScanInv'
    BY <1>14, <2>1 DEF SessionInv, ScanInv, Scanning, ScanEnd, ProducerTest, ProducerLeaves, NoScan
  <2>7. QED
    BY <2>2, <2>3, <2>4, <2>5, <2>6
<1>15. QED
  BY <1>1, <1>2, <1>3, <1>4, <1>5, <1>6, <1>7, <1>8, <1>9, <1>10, <1>11, <1>12, <1>13, <1>14 DEF ProducerStep

-----------------------------------------------------------------------------
LEMMA InitIInv == Init => IInv
<1> SUFFICES ASSUME Init PROVE IInv
  OBVIOUS
<1> USE DEF Init
<1>1. ProcessTypeOK
  <2>1. /\ caller \in [Calls -> CallerPcs] /\ notified \in [Calls -> 0..1]
        /\ outcome \in [Calls -> {"none", "reply", "error"}]
        /\ signals \in [Calls -> Nat]
    BY DEF CallerPcs
  <2>2. QED
    BY <2>1 DEF ProcessTypeOK, OwnerPcs
<1>2. QueueTypeOK
  <2>1. /\ waiting \in Seq(Calls) /\ pending \in Seq(Calls)
        /\ stale \in Seq(Calls \cup {NoCall})
    BY EmptySeq
  <2>2. seq \in [Calls -> Nat] /\ nextSeq \in Nat /\ tokens \in 0..ChanCap
    BY ChanCapAssumption
  <2>3. QED
    BY <2>1, <2>2 DEF QueueTypeOK
<1>3. AgentTypeOK
  BY DEF AgentTypeOK, AgentPcs, ConsumerPcs, ProducerPcs, NoScan
<1>4. SessionInv /\ ScanInv
  BY DEF SessionInv, ScanInv, Scanning
<1>5. QED
  BY <1>1, <1>2, <1>3, <1>4 DEF IInv, TypeOK

LEMMA StepIInv == IInv /\ [Next]_vars => IInv'
<1> SUFFICES ASSUME IInv, [Next]_vars PROVE IInv'
  OBVIOUS
<1>1. ASSUME NEW c \in Calls, CallerStep(c) \/ Expire(c)
      PROVE  IInv'
  BY <1>1, CallerPreserves
<1>2. CASE OwnerStep
  BY <1>2, OwnerPreserves
<1>3. CASE AgentStep
  BY <1>3, AgentPreserves
<1>4. CASE ConsumerStep
  BY <1>4, ConsumerPreserves
<1>5. CASE ProducerStep
  BY <1>5, ProducerPreserves
<1>6. CASE UNCHANGED vars
  <2>1. ProcessTypeOK' /\ QueueTypeOK'
    BY <1>6 DEF vars, IInv, TypeOK, ProcessTypeOK, QueueTypeOK
  <2>2. AgentTypeOK'
    BY <1>6 DEF vars, IInv, TypeOK, AgentTypeOK
  <2>3. SessionInv'
    BY <1>6 DEF vars, IInv, SessionInv
  <2>4. ScanInv'
    BY <1>6 DEF vars, IInv, ScanInv, Scanning
  <2>5. QED
    BY <2>1, <2>2, <2>3, <2>4 DEF IInv, TypeOK
<1>7. QED
  BY <1>1, <1>2, <1>3, <1>4, <1>5, <1>6 DEF Next

LEMMA AlwaysIInv == Spec => []IInv
<1>1. QED
  BY InitIInv, StepIInv, PTL DEF Spec

(* Type correctness: whatever the drive does and however the coroutines    *)
(* interleave, to_agent_ and the notifications keep within their           *)
(* capacities, and neither the reader nor the range-for of a scan that has *)
(* not crashed hands a null RPC to ManageReply, ManageError or Signal.     *)
THEOREM TypeCorrect == Spec => []TypeOK
<1>1. IInv => TypeOK
  BY DEF IInv
<1>2. QED
  BY <1>1, AlwaysIInv, PTL

(* Between two sessions nothing is pending, both agents have stopped and   *)
(* the socket is closed (run_agents, run_agent_consumer).                  *)
THEOREM SessionsAreIsolated == Spec => []SessionIsolated
<1>1. IInv => SessionIsolated
  BY DEF IInv, SessionInv, SessionIsolated
<1>2. QED
  BY <1>1, AlwaysIInv, PTL

-----------------------------------------------------------------------------
(* Membership in a sequence. *)

LEMMA ContainsAppend ==
    ASSUME NEW S, NEW s \in Seq(S), NEW e \in S, NEW x
    PROVE  Contains(Append(s, e), x) <=> Contains(s, x) \/ x = e
BY AppendProperties DEF Contains

LEMMA ContainsTail ==
    ASSUME NEW S, NEW s \in Seq(S), s # <<>>, NEW x
    PROVE  Contains(s, x) <=> x = Head(s) \/ Contains(Tail(s), x)
<1>1. /\ Tail(s) \in Seq(S) /\ Len(Tail(s)) = Len(s) - 1 /\ Head(s) = s[1]
      /\ \A i \in 1..Len(Tail(s)) : Tail(s)[i] = s[i + 1]
      /\ Len(s) \in Nat \ {0}
  BY HeadTailProperties
<1>2. ASSUME NEW i \in 1..Len(s), i # 1
      PROVE  Contains(Tail(s), s[i])
  <2>1. i - 1 \in 1..Len(Tail(s)) /\ Tail(s)[i - 1] = s[i]
    BY <1>1, <1>2
  <2>2. QED
    BY <2>1 DEF Contains
<1>3. ASSUME Contains(Tail(s), x) PROVE Contains(s, x)
  <2>1. PICK i \in 1..Len(Tail(s)) : Tail(s)[i] = x
    BY <1>3 DEF Contains
  <2>2. i + 1 \in 1..Len(s) /\ s[i + 1] = x
    BY <1>1, <2>1
  <2>3. QED
    BY <2>2 DEF Contains
<1>4. ASSUME x = Head(s) PROVE Contains(s, x)
  <2>1. 1 \in 1..Len(s) /\ s[1] = x
    BY <1>1, <1>4
  <2>2. QED
    BY <2>1 DEF Contains
<1>5. ASSUME Contains(s, x) PROVE x = Head(s) \/ Contains(Tail(s), x)
  <2>1. PICK i \in 1..Len(s) : s[i] = x
    BY <1>5 DEF Contains
  <2>2. CASE i = 1
    BY <1>1, <2>1, <2>2
  <2>3. CASE i # 1
    BY <1>2, <2>1, <2>3
  <2>4. QED
    BY <2>2, <2>3
<1>6. QED
  BY <1>3, <1>4, <1>5

LEMMA ContainsRemoveAt ==
    ASSUME NEW S, NEW s \in Seq(S), NEW i \in 1..Len(s), NEW x
    PROVE  /\ Contains(s, x) => x = s[i] \/ Contains(RemoveAt(s, i), x)
           /\ Contains(RemoveAt(s, i), x) => Contains(s, x)
<1>1. /\ Len(RemoveAt(s, i)) = Len(s) - 1 /\ Len(s) \in Nat
      /\ \A j \in 1..Len(s) - 1 :
            RemoveAt(s, i)[j] = IF j < i THEN s[j] ELSE s[j + 1]
  BY RemoveAtProperties
<1>2. ASSUME NEW j \in 1..Len(s), j # i
      PROVE  Contains(RemoveAt(s, i), s[j])
  <2>1. CASE j < i
    <3>1. j \in 1..Len(s) - 1 /\ RemoveAt(s, i)[j] = s[j]
      BY <1>1, <2>1
    <3>2. QED
      BY <1>1, <3>1 DEF Contains
  <2>2. CASE j > i
    <3>1. j - 1 \in 1..Len(s) - 1 /\ ~(j - 1 < i) /\ (j - 1) + 1 = j
      BY <1>1, <2>2
    <3>2. RemoveAt(s, i)[j - 1] = s[j]
      BY <1>1, <3>1
    <3>3. QED
      BY <1>1, <3>1, <3>2 DEF Contains
  <2>3. QED
    BY <1>2, <2>1, <2>2
<1>3. ASSUME NEW j \in 1..Len(s) - 1
      PROVE  Contains(s, RemoveAt(s, i)[j])
  <2>1. j \in 1..Len(s) /\ j + 1 \in 1..Len(s)
    BY <1>1
  <2>2. QED
    BY <1>1, <2>1 DEF Contains
<1>4. QED
  BY <1>1, <1>2, <1>3 DEF Contains

LEMMA ContainsConcat ==
    ASSUME NEW S, NEW s \in Seq(S), NEW t \in Seq(S), NEW x
    PROVE  Contains(s \o t, x) <=> Contains(s, x) \/ Contains(t, x)
<1>1. /\ Len(s \o t) = Len(s) + Len(t) /\ Len(s) \in Nat /\ Len(t) \in Nat
      /\ \A i \in 1..Len(s) + Len(t) :
            (s \o t)[i] = IF i <= Len(s) THEN s[i] ELSE t[i - Len(s)]
  BY ConcatProperties
<1>2. ASSUME NEW i \in 1..Len(s) + Len(t)
      PROVE  Contains(s, (s \o t)[i]) \/ Contains(t, (s \o t)[i])
  <2>1. CASE i <= Len(s)
    BY <1>1, <2>1 DEF Contains
  <2>2. CASE ~(i <= Len(s))
    <3>1. i - Len(s) \in 1..Len(t)
      BY <1>1, <2>2
    <3>2. QED
      BY <1>1, <2>2, <3>1 DEF Contains
  <2>3. QED
    BY <2>1, <2>2
<1>3. ASSUME NEW i \in 1..Len(s) PROVE Contains(s \o t, s[i])
  BY <1>1 DEF Contains
<1>4. ASSUME NEW i \in 1..Len(t) PROVE Contains(s \o t, t[i])
  <2>1. /\ Len(s) + i \in 1..Len(s) + Len(t) /\ ~(Len(s) + i <= Len(s))
        /\ (Len(s) + i) - Len(s) = i
    BY <1>1
  <2>2. (s \o t)[Len(s) + i] = t[i]
    BY <1>1, <2>1
  <2>3. QED
    BY <1>1, <2>1, <2>2 DEF Contains
<1>5. QED
  BY ZenonT(40), <1>1, <1>2, <1>3, <1>4 DEF Contains

-----------------------------------------------------------------------------
(* No lost wakeup. *)

LEMMA BlockedFinite == IsFiniteSet(Blocked) /\ Cardinality(Blocked) \in Nat
BY CallsAssumption, FS_Subset, FS_CardinalityType DEF Blocked

LEMMA SignalKeepsBlocked ==
    ASSUME TypeOK, NEW c \in Calls,
           Signal(c) \/ UNCHANGED <<caller, notified, signals>>
    PROVE  Blocked' = Blocked
<1>1. caller \in [Calls -> CallerPcs]
  BY DEF TypeOK, ProcessTypeOK
<1>2. QED
  BY <1>1 DEF Signal, Blocked

(* The actions of RPC() and of the producer on waiting_ and to_agent_. *)
LEMMA WakeupStep ==
    ASSUME IInv, NoLostWakeup, [Next]_vars
    PROVE  NoLostWakeup'
<1> USE DEF NoLostWakeup
<1>0. /\ waiting \in Seq(Calls) /\ Len(waiting) \in Nat /\ tokens \in Nat
      /\ caller \in [Calls -> CallerPcs] /\ TypeOK
      /\ Cardinality(Blocked) \in Nat
  BY ChanCapAssumption, BlockedFinite DEF IInv, TypeOK, QueueTypeOK, ProcessTypeOK
<1>1. ASSUME UNCHANGED <<waiting, tokens>>, Blocked' = Blocked
      PROVE  NoLostWakeup'
  BY <1>1
<1>2. ASSUME NEW c \in Calls, Enqueue(c)
      PROVE  NoLostWakeup'
  <2>1. Len(waiting') = Len(waiting) + 1 /\ c \notin Blocked
    BY <1>0, <1>2, AppendProperties DEF Enqueue, Blocked
  <2>2. CASE Room
    <3>1. tokens' = tokens + 1 /\ Blocked' = Blocked
      BY <1>0, <1>2, <2>1, <2>2 DEF Enqueue, Post, Blocked
    <3>2. QED
      BY <1>0, <2>1, <3>1
  <2>3. CASE ~Room
    <3>1. tokens' = tokens /\ Blocked' = Blocked \cup {c}
      BY <1>0, <1>2, <2>3 DEF Enqueue, Post, Blocked
    <3>2. Cardinality(Blocked') = Cardinality(Blocked) + 1
      BY <2>1, <3>1, BlockedFinite, FS_AddElement
    <3>3. QED
      BY <1>0, <2>1, <3>1, <3>2
  <2>4. QED
    BY <2>2, <2>3
<1>3. ASSUME NEW c \in Calls, SendToken(c)
      PROVE  NoLostWakeup'
  <2>1. c \in Blocked /\ Blocked' = Blocked \ {c}
    BY <1>0, <1>3 DEF SendToken, Post, Blocked
  <2>2. tokens' = tokens + 1 /\ waiting' = waiting
    BY <1>3 DEF SendToken, Post
  <2>3. Cardinality(Blocked') = Cardinality(Blocked) - 1
    BY <2>1, BlockedFinite, FS_RemoveElement
  <2>4. QED
    BY <1>0, <2>2, <2>3
<1>4. CASE TakeToken
  <2>1. Blocked' = Blocked /\ tokens > 0 /\ tokens' = tokens - 1
    BY <1>4 DEF TakeToken, Blocked, callerVars
  <2>2. CASE waiting = <<>>
    <3>1. waiting' = waiting /\ Len(waiting) = 0
      BY <1>4, <2>2 DEF TakeToken
    <3>2. QED
      BY <1>0, <2>1, <3>1
  <2>3. CASE waiting # <<>>
    <3>1. Len(waiting') = Len(waiting) - 1
      BY <1>0, <1>4, <2>3, HeadTailProperties DEF TakeToken
    <3>2. QED
      BY <1>0, <2>1, <3>1
  <2>4. QED
    BY <2>2, <2>3
<1>5. CASE AbortAll
  <2>1. Len(waiting') = 0 /\ tokens' = tokens /\ Blocked' = Blocked
    BY <1>5 DEF AbortAll, agentRest, chanVars, Blocked
  <2>2. QED
    BY <1>0, <2>1
<1> USE DEF callerVars, queueVars, chanVars
<1>6. ASSUME NEW c \in Calls, Boot(c) \/ Wait(c) \/ Resume(c) \/ Expire(c)
      PROVE  NoLostWakeup'
  <2>1. Blocked' = Blocked
    BY <1>0, <1>6 DEF Boot, Wait, Resume, Expire, Blocked
  <2>2. UNCHANGED <<waiting, tokens>>
    BY <1>6 DEF Boot, Wait, Resume, Expire
  <2>3. QED
    BY <1>1, <2>1, <2>2
<1>7. CASE OwnerStep
  BY <1>1, <1>7 DEF OwnerStep, Destroy, SendStop, Joined, ownerRest, Blocked
<1>8. CASE AbortNext
  <2>1. Head(aborting) \in Calls
    BY <1>8 DEF AbortNext, IInv, TypeOK, AgentTypeOK
  <2>2. QED
    BY <1>0, <1>1, <1>8, <2>1, SignalKeepsBlocked DEF AbortNext, agentRest
<1>9. CASE AbortDone \/ Reconnect
  BY <1>1, <1>9 DEF AbortDone, Reconnect, agentRest, Blocked
<1>10. ASSUME NEW c \in Calls, ReadReply(c)
       PROVE  NoLostWakeup'
  BY <1>0, <1>1, <1>10, SignalKeepsBlocked DEF ReadReply, Finish, consumerRest
<1>11. CASE ConsumerSignal
  <2>1. reader \in Calls
    BY <1>11 DEF ConsumerSignal, IInv, TypeOK, AgentTypeOK
  <2>2. QED
    BY <1>0, <1>1, <1>11, <2>1, SignalKeepsBlocked DEF ConsumerSignal, consumerRest
<1>12. CASE \/ Connected \/ HandshakeFails \/ BannerOk \/ BannerLate
            \/ ConsumerTest \/ LeaveRead \/ ConsumerJoin
  BY <1>1, <1>12 DEF Connected, HandshakeFails, BannerOk, BannerLate, ConsumerTest,
                     LeaveRead, ConsumerJoin, consumerRest, Blocked
<1>13. CASE SendFails \/ AbortSignal
  <2>1. writer \in Calls
    BY <1>13 DEF SendFails, AbortSignal, IInv, TypeOK, AgentTypeOK
  <2>2. QED
    BY <1>0, <1>1, <1>13, <2>1, SignalKeepsBlocked
       DEF SendFails, AbortSignal, Finish, producerRest
<1>14. CASE ScanAbort
  <2>1. Slot \in Calls
    BY <1>14 DEF ScanAbort, InScan, Slot, IInv, ScanInv, Scanning,
                 TypeOK, QueueTypeOK, AgentTypeOK
  <2>2. QED
    BY <1>0, <1>1, <1>14, <2>1, SignalKeepsBlocked DEF ScanAbort, Finish
<1>15. CASE \/ TakeStop \/ ChooseTimeout \/ SendOk \/ SendPop \/ CheckNot
            \/ ScanStart \/ ScanKeep \/ ScanPop \/ ScanCrash \/ ScanEnd
  BY <1>1, <1>15 DEF TakeStop, ChooseTimeout, SendOk, SendPop, CheckNot, ScanStart,
                     ScanKeep, ScanPop, ScanCrash, ScanEnd, producerRest, Blocked
<1>16. CASE UNCHANGED vars
  BY <1>1, <1>16 DEF vars, Blocked
<1>17. QED
  BY <1>2, <1>3, <1>4, <1>5, <1>6, <1>7, <1>8, <1>9, <1>10, <1>11, <1>12, <1>13,
     <1>14, <1>15, <1>16
     DEF Next, CallerStep, AgentStep, ConsumerStep, ProducerStep

(* Each RPC in waiting_ has a token in to_agent_ or a caller blocked on    *)
(* posting it, so the producer will look at the queue once more for it.    *)
THEOREM NoWakeupIsLost == Spec => []NoLostWakeup
<1>1. Init => NoLostWakeup
  <2>1. Init => Len(waiting) = 0 /\ tokens = 0
    BY DEF Init
  <2>2. QED
    BY <2>1, BlockedFinite DEF NoLostWakeup
<1>2. QED
  BY <1>1, AlwaysIInv, WakeupStep, PTL DEF Spec

-----------------------------------------------------------------------------
(* Replies reach their own call, and no call is dropped.                   *)

(* The calls whose sequence number was drawn for the present connection.   *)
InSession(c) == Contains(pending, c) \/ Contains(stale, c) \/ writer = c

(* Their numbers are distinct, below the next one, and no other request    *)
(* the drive received has one of them.                                     *)
SeqInv ==
    /\ \A c \in Calls : InSession(c) => seq[c] < nextSeq
    /\ \A c, d \in Calls : InSession(c) /\ InSession(d) /\ seq[c] = seq[d] => c = d
    /\ \A m \in served : m[1] < nextSeq
    /\ \A m \in served : \A c \in Calls : InSession(c) /\ seq[c] = m[1] => c = m[2]
    /\ producer \in {"off", "choose", "check", "scan", "out"} => writer = NoCall

(* A call that is not signalled yet is in a queue, or in the hands of a    *)
(* coroutine suspended in Signal, and one that abort_rpc pops is signalled. *)
Held(c) ==
    \/ Contains(waiting, c) \/ Contains(pending, c) \/ Contains(aborting, c)
    \/ consumer = "signal" /\ reader = c
    \/ producer \in {"sendsignal", "scansignal"} /\ writer = c
PopInv == producer \in {"sendpop", "scanpop"} => signals[writer] > 0
IdleInv == agents # "abort" => aborting = <<>>
HeldInv ==
    /\ \A c \in Calls : Accepted(c) /\ signals[c] = 0 => Held(c)
    /\ PopInv /\ IdleInv

DeliveryInv == SeqInv /\ HeldInv

LEMMA SessionTypes ==
    ASSUME IInv
    PROVE  /\ TypeOK /\ pending \in Seq(Calls) /\ waiting \in Seq(Calls)
           /\ stale \in Seq(Calls \cup {NoCall}) /\ aborting \in Seq(Calls)
           /\ seq \in [Calls -> Nat] /\ nextSeq \in Nat /\ NoCall \notin Calls
           /\ served \subseteq Nat \X Calls /\ signals \in [Calls -> Nat]
           /\ caller \in [Calls -> CallerPcs]
BY CallsAssumption DEF IInv, TypeOK, ProcessTypeOK, QueueTypeOK, AgentTypeOK

LEMMA EraseMembers ==
    ASSUME IInv, NEW i \in 1..Len(pending), Erase(i), NEW c \in Calls
    PROVE  /\ Contains(pending', c) => Contains(pending, c)
           /\ Contains(pending, c) => c = pending[i] \/ Contains(pending', c)
           /\ Contains(stale', c) => Contains(stale, c) \/ Contains(pending, c)
<1> DEFINE hole == IF i = Len(pending) THEN pending[i] ELSE NoCall
<1>1. pending' = RemoveAt(pending, i) /\ pending \in Seq(Calls)
  BY SessionTypes DEF Erase
<1>2. hole \in Calls \cup {NoCall} /\ (hole = c => Contains(pending, c))
  BY SessionTypes DEF Contains
<1>3. stale' = IF Scanning THEN <<hole>> \o stale ELSE stale
  BY DEF Erase
<1> HIDE DEF hole
<1>4. <<hole>> \in Seq(Calls \cup {NoCall}) /\ (Contains(<<hole>>, c) => hole = c)
  BY <1>2 DEF Contains
<1>5. Contains(<<hole>> \o stale, c) => hole = c \/ Contains(stale, c)
  BY <1>4, SessionTypes, ContainsConcat
<1>6. QED
  BY <1>1, <1>2, <1>3, <1>5, ContainsRemoveAt

LEMMA PopMembers ==
    ASSUME IInv, SeqInv, NEW w \in Calls, InSession(w), PopRpc(seq[w]), NEW c \in Calls
    PROVE  /\ Contains(pending', c) => Contains(pending, c)
           /\ Contains(pending, c) => c = w \/ Contains(pending', c)
           /\ Contains(stale', c) => Contains(stale, c) \/ Contains(pending, c)
<1>1. CASE Matches(seq[w]) = {}
  BY <1>1 DEF PopRpc
<1>2. CASE Matches(seq[w]) # {}
  <2>1. PICK i \in Matches(seq[w]) : Erase(i)
    BY <1>2 DEF PopRpc
  <2>2. i \in 1..Len(pending) /\ pending[i] \in Calls /\ seq[pending[i]] = seq[w]
    BY SessionTypes DEF Matches
  <2>3. pending[i] = w
    BY <2>2 DEF SeqInv, InSession, Contains
  <2>4. QED
    BY <2>1, <2>2, <2>3, EraseMembers
<1>3. QED
  BY <1>1, <1>2

WriterInv == producer \in {"off", "choose", "check", "scan", "out"} => writer = NoCall

(* A step that numbers no call and brings none into the session.           *)
LEMMA SeqFrame ==
    ASSUME SeqInv, \A c \in Calls : InSession(c)' => InSession(c),
           UNCHANGED <<seq, nextSeq>>, served' \subseteq served, WriterInv'
    PROVE  SeqInv'
BY DEF SeqInv, WriterInv

(* A step that numbers one call, which may enter the session.              *)
LEMMA SeqFresh ==
    ASSUME IInv, SeqInv, NEW e \in Calls, Stamp(e),
           \A c \in Calls : InSession(c)' => InSession(c) \/ c = e,
           served' = served, WriterInv'
    PROVE  SeqInv'
<1>1. /\ nextSeq' = nextSeq + 1 /\ nextSeq \in Nat /\ seq'[e] = nextSeq
      /\ \A c \in Calls : c # e => seq'[c] = seq[c]
      /\ \A c \in Calls : seq[c] \in Nat
      /\ \A m \in served : m[1] \in Nat
  BY SessionTypes DEF Stamp
<1>2. \A c \in Calls : InSession(c)' => seq'[c] < nextSeq'
  BY <1>1 DEF SeqInv
<1>3. ASSUME NEW c \in Calls, NEW d \in Calls, InSession(c)', InSession(d)', seq'[c] = seq'[d]
      PROVE  c = d
  <2>1. CASE c = e \/ d = e
    BY <1>1, <1>3, <2>1 DEF SeqInv
  <2>2. CASE c # e /\ d # e
    BY <1>1, <1>3, <2>2 DEF SeqInv
  <2>3. QED
    BY <2>1, <2>2
<1>4. \A m \in served' : m[1] < nextSeq'
  BY <1>1 DEF SeqInv
<1>5. ASSUME NEW m \in served', NEW c \in Calls, InSession(c)', seq'[c] = m[1]
      PROVE  c = m[2]
  <2>1. CASE c = e
    BY <1>1, <1>5, <2>1 DEF SeqInv
  <2>2. CASE c # e
    BY <1>1, <1>5, <2>2 DEF SeqInv
  <2>3. QED
    BY <2>1, <2>2
<1>6. QED
  BY <1>2, <1>3, <1>4, <1>5 DEF SeqInv, WriterInv

(* StartSession: nothing is in the session. *)
LEMMA SeqReset ==
    ASSUME IInv, SeqInv, agents # "join", StartSession,
           UNCHANGED <<pending, stale, producerVars>>
    PROVE  SeqInv'
<1>1. producer = "off" /\ pending = <<>> /\ stale = <<>> /\ writer = NoCall
  BY DEF IInv, SessionInv, ScanInv, Scanning, SeqInv
<1>2. \A c \in Calls : ~InSession(c)'
  BY <1>1, SessionTypes DEF InSession, Contains, producerVars
<1>3. served' = {} /\ WriterInv'
  BY <1>1 DEF StartSession, WriterInv, producerVars
<1>4. QED
  BY <1>2, <1>3 DEF SeqInv, WriterInv

(* A step that leaves the session as it is. *)
LEMMA SeqSame ==
    ASSUME SeqInv, UNCHANGED <<pending, stale, writer, seq, nextSeq>>,
           served' \subseteq served, WriterInv'
    PROVE  SeqInv'
<1>1. \A c \in Calls : InSession(c)' => InSession(c)
  BY DEF InSession
<1>2. QED
  BY <1>1, SeqFrame

LEMMA SeqCallers ==
    ASSUME IInv, SeqInv, NEW c \in Calls, CallerStep(c) \/ Expire(c)
    PROVE  SeqInv'
<1> USE DEF callerRest, callerVars, queueVars, chanVars, netVars, agentVars,
            consumerVars, producerVars, lifeVars
<1>0. WriterInv
  BY DEF SeqInv, WriterInv
<1>1. CASE Boot(c)
  <2>1. agents # "join"
    BY <1>1 DEF Boot, IInv, SessionInv
  <2>2. UNCHANGED <<pending, stale, producerVars>> /\ StartSession
    BY <1>1 DEF Boot
  <2>3. QED
    BY <2>1, <2>2, SeqReset
<1>2. CASE Enqueue(c)
  <2>1. UNCHANGED <<pending, stale, writer, producer, served>> /\ Stamp(c)
    BY <1>2 DEF Enqueue
  <2>2. WriterInv' /\ \A d \in Calls : InSession(d)' => InSession(d)
    BY <1>0, <2>1 DEF WriterInv, InSession
  <2>3. QED
    BY <2>1, <2>2, SeqFresh
<1>3. CASE SendToken(c) \/ Wait(c) \/ Resume(c) \/ Expire(c)
  <2>1. UNCHANGED <<pending, stale, writer, seq, nextSeq, served, producer>>
    BY <1>3 DEF SendToken, Wait, Resume, Expire
  <2>2. QED
    BY <1>0, <2>1, SeqSame DEF WriterInv
<1>4. QED
  BY <1>1, <1>2, <1>3 DEF CallerStep

LEMMA SeqAgents ==
    ASSUME IInv, SeqInv, OwnerStep \/ AgentStep
    PROVE  SeqInv'
<1> USE DEF agentRest, ownerRest, callerVars, queueVars, chanVars, netVars, agentVars,
            consumerVars, producerVars, lifeVars
<1>0. WriterInv
  BY DEF SeqInv, WriterInv
<1>1. CASE OwnerStep
  <2>1. UNCHANGED <<pending, stale, writer, seq, nextSeq, served, producer>>
    BY <1>1 DEF OwnerStep, Destroy, SendStop, Joined
  <2>2. QED
    BY <1>0, <2>1, SeqSame DEF WriterInv
<1>2. CASE AbortAll
  <2>1. UNCHANGED <<stale, writer, seq, nextSeq, served, producer>> /\ pending' = <<>>
    BY <1>2 DEF AbortAll
  <2>2. \A c \in Calls : InSession(c)' => InSession(c)
    BY <2>1 DEF InSession, Contains
  <2>3. QED
    BY <1>0, <2>1, <2>2, SeqFrame DEF WriterInv
<1>3. CASE AbortNext \/ AbortDone
  <2>1. UNCHANGED <<pending, stale, writer, seq, nextSeq, served, producer>>
    BY <1>3 DEF AbortNext, AbortDone
  <2>2. QED
    BY <1>0, <2>1, SeqSame DEF WriterInv
<1>4. CASE Reconnect
  <2>1. UNCHANGED <<pending, stale, seq>> /\ UNCHANGED producerVars /\ agents # "join"
    BY <1>4 DEF Reconnect
  <2>2. CASE running
    BY <1>4, <2>1, <2>2, SeqReset DEF Reconnect
  <2>3. CASE ~running
    <3>1. UNCHANGED <<nextSeq, served>>
      BY <1>4, <2>3 DEF Reconnect
    <3>2. QED
      BY <1>0, <2>1, <3>1, SeqSame DEF WriterInv
  <2>4. QED
    BY <2>2, <2>3
<1>5. QED
  BY <1>1, <1>2, <1>3, <1>4 DEF AgentStep

LEMMA SeqConsumer ==
    ASSUME IInv, SeqInv, ConsumerStep
    PROVE  SeqInv'
<1> USE DEF consumerRest, callerVars, queueVars, chanVars, netVars, agentVars,
            consumerVars, producerVars, lifeVars
<1>0. WriterInv
  BY DEF SeqInv, WriterInv
<1>1. ASSUME NEW c \in Calls, ReadReply(c)
      PROVE  SeqInv'
  <2>1. PICK i \in 1..Len(pending) : Erase(i)
    BY <1>1 DEF ReadReply, Matches
  <2>2. UNCHANGED <<writer, seq, nextSeq, served, producer>>
    BY <1>1 DEF ReadReply
  <2>3. \A d \in Calls : InSession(d)' => InSession(d)
    BY <2>1, <2>2, EraseMembers DEF InSession
  <2>4. QED
    BY <1>0, <2>2, <2>3, SeqFrame DEF WriterInv
<1>2. CASE BannerOk \/ ConsumerJoin
  <2>1. UNCHANGED <<pending, stale, writer, seq, nextSeq, served>>
    BY <1>2 DEF BannerOk, ConsumerJoin
  <2>2. producer \in {"off", "out"}
    BY <1>0, <1>2 DEF BannerOk, ConsumerJoin, ProducerDone, IInv, SessionInv
  <2>3. QED
    BY <1>0, <2>1, <2>2, SeqSame DEF WriterInv
<1>3. CASE \/ Connected \/ HandshakeFails \/ BannerLate
           \/ ConsumerTest \/ ConsumerSignal \/ LeaveRead
  <2>1. UNCHANGED <<pending, stale, writer, seq, nextSeq, served, producer>>
    BY <1>3 DEF Connected, HandshakeFails, BannerLate, ConsumerTest, ConsumerSignal,
                LeaveRead
  <2>2. QED
    BY <1>0, <2>1, SeqSame DEF WriterInv
<1>4. QED
  BY <1>1, <1>2, <1>3 DEF ConsumerStep

LEMMA SeqProducer ==
    ASSUME IInv, SeqInv, ProducerStep
    PROVE  SeqInv'
<1> USE DEF producerRest, callerVars, queueVars, chanVars, netVars, agentVars,
            consumerVars, producerVars, lifeVars
<1>0. WriterInv
  BY DEF SeqInv, WriterInv
<1>1. CASE TakeToken
  <2>1. UNCHANGED <<stale, served>>
    BY <1>1 DEF TakeToken
  <2>2. CASE waiting = <<>>
    <3>1. UNCHANGED <<pending, seq, nextSeq, writer>> /\ producer = "choose"
      BY <1>1, <2>2 DEF TakeToken
    <3>2. QED
      BY <1>0, <2>1, <3>1, SeqSame DEF WriterInv
  <2>3. CASE waiting # <<>>
    <3> DEFINE e == Head(waiting)
    <3>1. /\ Stamp(e) /\ pending' = Append(pending, e)
          /\ writer' = e /\ producer' = "send"
      BY <1>1, <2>3 DEF TakeToken
    <3>2. e \in Calls
      BY <2>3, SessionTypes, HeadTailProperties
    <3> HIDE DEF e
    <3>3. \A c \in Calls : InSession(c)' => InSession(c) \/ c = e
      BY <2>1, <3>1, <3>2, SessionTypes, ContainsAppend DEF InSession
    <3>4. WriterInv'
      BY <3>1 DEF WriterInv
    <3>5. QED
      BY <2>1, <3>1, <3>2, <3>3, <3>4, SeqFresh
  <2>4. QED
    BY <2>2, <2>3
<1>2. CASE SendPop \/ ScanPop
  <2>1. writer \in Calls /\ PopRpc(seq[writer])
    BY <1>2 DEF SendPop, ScanPop, IInv, TypeOK, AgentTypeOK
  <2>2. UNCHANGED <<seq, nextSeq, served>> /\ writer' = NoCall
    BY <1>2 DEF SendPop, ScanPop
  <2>3. \A c \in Calls : InSession(c)' => InSession(c)
    BY <2>1, <2>2, PopMembers, SessionTypes DEF InSession
  <2>4. QED
    BY <2>2, <2>3, SeqFrame DEF WriterInv
<1>3. CASE SendOk
  <2> DEFINE m0 == <<seq[writer], writer>>
  <2>1. /\ UNCHANGED <<pending, stale, seq, nextSeq>>
        /\ writer' = NoCall /\ writer \in Calls
        /\ served' = served \cup {m0}
    BY <1>3 DEF SendOk, IInv, TypeOK, AgentTypeOK
  <2>2. m0[1] = seq[writer] /\ m0[2] = writer /\ InSession(writer)
    BY DEF InSession
  <2> HIDE DEF m0
  <2>3. \A c \in Calls : InSession(c)' => InSession(c)
    BY <2>1, SessionTypes DEF InSession
  <2>4. m0[1] < nextSeq /\ \A c \in Calls : InSession(c) /\ seq[c] = m0[1] => c = m0[2]
    BY <2>1, <2>2 DEF SeqInv
  <2>5. QED
    BY <2>1, <2>3, <2>4 DEF SeqInv
<1>4. CASE ScanAbort
  <2>1. /\ UNCHANGED <<pending, stale, seq, nextSeq, served>>
        /\ writer' = Slot /\ producer' \in {"scanpop", "scansignal"}
    BY <1>4 DEF ScanAbort
  <2>2. Contains(pending, Slot) \/ Contains(stale, Slot)
    BY <1>4, SessionTypes
       DEF ScanAbort, InScan, Slot, Contains, IInv, ScanInv, Scanning, TypeOK, AgentTypeOK
  <2>3. \A c \in Calls : InSession(c)' => InSession(c)
    BY <2>1, <2>2 DEF InSession
  <2>4. WriterInv'
    BY <2>1 DEF WriterInv
  <2>5. QED
    BY <2>1, <2>3, <2>4, SeqFrame
<1>5. CASE ScanEnd
  <2>1. UNCHANGED <<pending, seq, nextSeq, served, writer>> /\ stale' = <<>>
    BY <1>5 DEF ScanEnd
  <2>2. producer = "scan"
    BY <1>5 DEF ScanEnd
  <2>3. \A c \in Calls : InSession(c)' => InSession(c)
    BY <2>1 DEF InSession, Contains
  <2>4. QED
    BY <1>0, <2>1, <2>2, <2>3, SeqFrame DEF WriterInv
<1>6. CASE SendFails \/ AbortSignal
  <2>1. UNCHANGED <<pending, stale, writer, seq, nextSeq, served>>
    BY <1>6 DEF SendFails, AbortSignal
  <2>2. producer' \in {"sendpop", "sendsignal", "scanpop"}
    BY <1>6 DEF SendFails, AbortSignal
  <2>3. QED
    BY <2>1, <2>2, SeqSame DEF WriterInv
<1>7. CASE \/ TakeStop \/ ChooseTimeout \/ CheckNot \/ ScanStart \/ ScanKeep \/ ScanCrash
  <2>1. UNCHANGED <<pending, stale, writer, seq, nextSeq, served>>
    BY <1>7 DEF TakeStop, ChooseTimeout, CheckNot, ScanStart, ScanKeep, ScanCrash
  <2>2. producer \in {"choose", "check", "scan"}
    BY <1>7 DEF TakeStop, ChooseTimeout, CheckNot, ScanStart, ScanKeep, ScanCrash, InScan
  <2>3. QED
    BY <1>0, <2>1, <2>2, SeqSame DEF WriterInv
<1>8. QED
  BY <1>1, <1>2, <1>3, <1>4, <1>5, <1>6, <1>7 DEF ProducerStep

LEMMA SeqStep == IInv /\ SeqInv /\ [Next]_vars => SeqInv'
<1> SUFFICES ASSUME IInv, SeqInv, [Next]_vars PROVE SeqInv'
  OBVIOUS
<1>1. CASE UNCHANGED vars
  <2>1. UNCHANGED <<pending, stale, writer, seq, nextSeq, served, producer>>
    BY <1>1 DEF vars
  <2>2. QED
    BY <2>1, SeqSame DEF SeqInv, WriterInv
<1>2. QED
  BY <1>1, SeqCallers, SeqAgents, SeqConsumer, SeqProducer DEF Next

LEMMA InitSeqInv == Init => SeqInv
BY CallsAssumption DEF Init, SeqInv, InSession, Contains

LEMMA AlwaysSeqInv == Spec => []SeqInv
BY InitSeqInv, SeqStep, AlwaysIInv, PTL DEF Spec

(* Whatever the drive answers, and however often: a pending RPC is popped  *)
(* by the answers to its own request only.                                 *)
THEOREM RepliesReachTheirCall == Spec => []AnsweredByOwnRequest
<1>1. IInv /\ SeqInv => AnsweredByOwnRequest
  <2> SUFFICES ASSUME IInv, SeqInv, NEW m \in served, NEW i \in Matches(m[1])
               PROVE  pending[i] = m[2]
    BY DEF AnsweredByOwnRequest
  <2>1. i \in 1..Len(pending) /\ pending[i] \in Calls /\ seq[pending[i]] = m[1]
    BY SessionTypes DEF Matches
  <2>2. InSession(pending[i])
    BY <2>1 DEF InSession, Contains
  <2>3. QED
    BY <2>1, <2>2 DEF SeqInv
<1>2. QED
  BY <1>1, AlwaysIInv, AlwaysSeqInv, PTL
-----------------------------------------------------------------------------
(* A signalled call needs no holder; the others keep theirs. *)
LEMMA HeldFrame ==
    ASSUME HeldInv, PopInv', IdleInv',
           \A c \in Calls : Accepted(c)' /\ signals'[c] = 0 => Accepted(c) /\ signals[c] = 0,
           \A c \in Calls : signals'[c] = 0 /\ Held(c) => Held(c)'
    PROVE  HeldInv'
BY DEF HeldInv

LEMMA SignalCounts ==
    ASSUME IInv, NEW c \in Calls, Signal(c)
    PROVE  /\ \A d \in Calls : Accepted(d)' <=> Accepted(d)
           /\ \A d \in Calls : signals'[d] = IF d = c THEN signals[d] + 1 ELSE signals[d]
           /\ \A d \in Calls : signals'[d] = 0 => signals[d] = 0 /\ d # c
           /\ signals'[c] > 0
BY SessionTypes DEF Signal, Accepted, CallerPcs

(* abort_rpc and manage: signalled at once, or left to a suspended Signal. *)
LEMMA FinishCounts ==
    ASSUME IInv, NEW c \in Calls, NEW o, Finish(c, o)
    PROVE  /\ \A d \in Calls : Accepted(d)' <=> Accepted(d)
           /\ \A d \in Calls : signals'[d] = 0 => signals[d] = 0
           /\ CanSignal(c) => signals'[c] > 0
<1>1. CASE CanSignal(c)
  <2>1. Signal(c)
    BY <1>1 DEF Finish
  <2>2. QED
    BY <2>1, SignalCounts
<1>2. CASE ~CanSignal(c)
  BY <1>2 DEF Finish, Accepted
<1>3. QED
  BY <1>1, <1>2

LEMMA HeldCallers ==
    ASSUME IInv, HeldInv, NEW c \in Calls, CallerStep(c) \/ Expire(c)
    PROVE  HeldInv'
<1> USE DEF callerRest, callerVars, queueVars, chanVars, netVars, agentVars,
            consumerVars, producerVars, lifeVars
<1>0. PopInv /\ IdleInv /\ caller \in [Calls -> CallerPcs]
  BY SessionTypes DEF HeldInv
<1>1. CASE Boot(c)
  <2>1. /\ UNCHANGED <<waiting, pending, aborting, producer, writer, signals>>
        /\ agents = "off" /\ agents' = "join" /\ consumer = "off"
    BY <1>1 DEF Boot, StartSession, IInv, SessionInv
  <2>2. caller' = [caller EXCEPT ![c] = "booting"]
    BY <1>1 DEF Boot
  <2>3. \A d \in Calls : Accepted(d)' => Accepted(d)
    BY <1>0, <2>2 DEF Accepted
  <2>4. \A d \in Calls : Held(d) => Held(d)'
    BY <2>1 DEF Held
  <2>5. QED
    BY <1>0, <2>1, <2>3, <2>4, HeldFrame DEF PopInv, IdleInv
<1>2. CASE Enqueue(c)
  <2>1. /\ UNCHANGED <<pending, aborting, producer, writer, signals, agents, consumer, reader>>
        /\ waiting' = Append(waiting, c)
    BY <1>2 DEF Enqueue
  <2>2. \A d \in Calls : d # c /\ Accepted(d)' => Accepted(d)
    BY <1>0, <1>2 DEF Enqueue, Post, Accepted
  <2>3. \A d \in Calls : Held(d) \/ d = c => Held(d)'
    BY <2>1, SessionTypes, ContainsAppend DEF Held
  <2>4. QED
    BY <1>0, <2>1, <2>2, <2>3 DEF HeldInv, PopInv, IdleInv
<1>3. CASE SendToken(c) \/ Wait(c) \/ Resume(c) \/ Expire(c)
  <2>1. UNCHANGED <<waiting, pending, aborting, producer, writer, signals, agents,
                    consumer, reader>>
    BY <1>3 DEF SendToken, Wait, Resume, Expire
  <2>2. \A d \in Calls : Accepted(d)' => Accepted(d)
    BY <1>0, <1>3 DEF SendToken, Wait, Resume, Expire, Post, Accepted
  <2>3. \A d \in Calls : Held(d) => Held(d)'
    BY <2>1 DEF Held
  <2>4. QED
    BY <1>0, <2>1, <2>2, <2>3, HeldFrame DEF PopInv, IdleInv
<1>4. QED
  BY <1>1, <1>2, <1>3 DEF CallerStep

LEMMA HeldAgents ==
    ASSUME IInv, HeldInv, OwnerStep \/ AgentStep
    PROVE  HeldInv'
<1> USE DEF agentRest, ownerRest, callerVars, queueVars, chanVars, netVars, agentVars,
            consumerVars, producerVars, lifeVars
<1>0. PopInv /\ IdleInv
  BY DEF HeldInv
<1>1. CASE OwnerStep
  <2>1. UNCHANGED <<waiting, pending, aborting, producer, writer, signals, agents,
                    consumer, reader, caller>>
    BY <1>1 DEF OwnerStep, Destroy, SendStop, Joined
  <2>2. QED
    BY <1>0, <2>1, HeldFrame DEF PopInv, IdleInv, Held, Accepted
<1>2. CASE AbortAll
  <2>1. /\ UNCHANGED <<caller, signals, reader, producer, writer>>
        /\ agents' = "abort" /\ aborting' = pending \o waiting
        /\ aborting = <<>> /\ consumer = "out"
    BY <1>0, <1>2 DEF AbortAll, PendingAndWaiting, IdleInv
  <2>2. \A d \in Calls : ~Contains(<<>>, d)
    BY DEF Contains
  <2>3. \A d \in Calls : Held(d) => Held(d)'
    BY <2>1, <2>2, SessionTypes, ContainsConcat DEF Held
  <2>4. QED
    BY <1>0, <2>1, <2>3, HeldFrame DEF PopInv, IdleInv, Accepted
<1>3. CASE AbortNext
  <2> DEFINE h == Head(aborting)
  <2>1. /\ UNCHANGED <<waiting, pending, producer, writer, agents, consumer, reader>>
        /\ aborting # <<>> /\ aborting' = Tail(aborting) /\ Signal(h) /\ agents = "abort"
    BY <1>3 DEF AbortNext
  <2>2. h \in Calls
    BY <2>1, SessionTypes, HeadTailProperties
  <2>3. \A d \in Calls : Contains(aborting, d) <=> d = h \/ Contains(aborting', d)
    BY <2>1, SessionTypes, ContainsTail
  <2> HIDE DEF h
  <2>4. /\ \A d \in Calls : signals'[d] = 0 => signals[d] = 0 /\ d # h
        /\ \A d \in Calls : Accepted(d)' <=> Accepted(d)
    BY <2>1, <2>2, SignalCounts
  <2>5. \A d \in Calls : signals'[d] = 0 /\ Held(d) => Held(d)'
    BY <2>1, <2>3, <2>4 DEF Held
  <2>6. producer = "off"
    BY <2>1 DEF IInv, SessionInv
  <2>7. QED
    BY <2>1, <2>4, <2>5, <2>6, HeldFrame DEF PopInv, IdleInv
<1>4. CASE AbortDone \/ Reconnect
  <2>1. /\ UNCHANGED <<caller, signals, waiting, pending, aborting, producer, writer, reader>>
        /\ consumer = "off"
    BY <1>4 DEF AbortDone, Reconnect, IInv, SessionInv
  <2>2. aborting' = <<>>
    BY <1>0, <1>4, <2>1 DEF AbortDone, Reconnect, IdleInv
  <2>3. QED
    BY <1>0, <2>1, <2>2, HeldFrame DEF PopInv, IdleInv, Held, Accepted
<1>5. QED
  BY <1>1, <1>2, <1>3, <1>4 DEF AgentStep

LEMMA HeldConsumer ==
    ASSUME IInv, HeldInv, ConsumerStep
    PROVE  HeldInv'
<1> USE DEF consumerRest, callerVars, queueVars, chanVars, netVars, agentVars,
            consumerVars, producerVars, lifeVars
<1>0. PopInv /\ IdleInv
  BY DEF HeldInv
<1>1. ASSUME NEW c \in Calls, ReadReply(c)
      PROVE  HeldInv'
  <2>1. PICK i \in 1..Len(pending) : pending[i] = c /\ Erase(i)
    BY <1>1 DEF ReadReply, Matches
  <2>2. /\ UNCHANGED <<waiting, aborting, agents, producer, writer>> /\ Finish(c, "reply")
        /\ consumer = "read" /\ (~CanSignal(c) => consumer' = "signal" /\ reader' = c)
    BY <1>1 DEF ReadReply
  <2>3. /\ \A d \in Calls : Accepted(d)' <=> Accepted(d)
        /\ \A d \in Calls : signals'[d] = 0 => signals[d] = 0
        /\ CanSignal(c) => signals'[c] > 0
    BY <2>2, FinishCounts
  <2>4. \A d \in Calls : Contains(pending, d) => d = c \/ Contains(pending', d)
    BY <2>1, EraseMembers
  <2>5. \A d \in Calls : signals'[d] = 0 /\ Held(d) => Held(d)'
    BY <2>2, <2>3, <2>4 DEF Held
  <2>6. PopInv' /\ IdleInv'
    <3>0. signals \in [Calls -> Nat] /\ signals' \in [Calls -> Nat]
      BY <2>2, SessionTypes, FinishProperties
    <3>1. writer \in Calls /\ signals[writer] > 0 => signals'[writer] > 0
      BY <2>3, <3>0
    <3>2. producer \in {"sendpop", "scanpop"} => writer \in Calls
      BY DEF IInv, TypeOK, AgentTypeOK
    <3>3. /\ producer' = producer /\ writer' = writer
          /\ agents' = agents /\ aborting' = aborting
      BY <2>2
    <3>4. producer \in {"sendpop", "scanpop"} => signals'[writer] > 0
      BY <1>0, <3>1, <3>2 DEF PopInv
    <3>5. QED
      BY <1>0, <3>3, <3>4 DEF PopInv, IdleInv
  <2>7. QED
    BY <2>3, <2>5, <2>6, HeldFrame
<1>2. CASE ConsumerSignal
  <2>1. /\ UNCHANGED <<waiting, pending, aborting, agents, producer, writer>>
        /\ reader \in Calls /\ Signal(reader)
    BY <1>2 DEF ConsumerSignal, IInv, TypeOK, AgentTypeOK
  <2>2. /\ \A d \in Calls : Accepted(d)' <=> Accepted(d)
        /\ \A d \in Calls : signals'[d] = 0 => signals[d] = 0 /\ d # reader
        /\ \A d \in Calls : signals'[d] = IF d = reader THEN signals[d] + 1 ELSE signals[d]
    BY <2>1, SignalCounts
  <2>3. \A d \in Calls : signals'[d] = 0 /\ Held(d) => Held(d)'
    BY <2>1, <2>2 DEF Held
  <2>4. PopInv' /\ IdleInv'
    <3>1. producer \in {"sendpop", "scanpop"} => writer \in Calls
      BY DEF IInv, TypeOK, AgentTypeOK
    <3>2. ASSUME writer \in Calls, signals[writer] > 0 PROVE signals'[writer] > 0
      <4>1. signals[writer] \in Nat /\ signals'[writer] \in {signals[writer], signals[writer] + 1}
        BY <2>2, <3>2, SessionTypes
      <4>2. QED
        BY <3>2, <4>1
    <3>3. QED
      BY <1>0, <2>1, <3>1, <3>2 DEF PopInv, IdleInv
  <2>5. QED
    BY <2>2, <2>3, <2>4, HeldFrame
<1>3. CASE BannerOk \/ ConsumerJoin
  <2>1. UNCHANGED <<caller, signals, waiting, pending, aborting, agents, writer, reader>>
    BY <1>3 DEF BannerOk, ConsumerJoin
  <2>2. /\ consumer # "signal" /\ producer \in {"off", "out"}
        /\ producer' \in {"off", "out", "choose"}
    BY <1>3 DEF BannerOk, ConsumerJoin, ProducerDone, IInv, SessionInv
  <2>3. QED
    BY <1>0, <2>1, <2>2, HeldFrame DEF PopInv, IdleInv, Held, Accepted
<1>4. CASE Connected \/ HandshakeFails \/ BannerLate \/ ConsumerTest \/ LeaveRead
  <2>1. /\ UNCHANGED <<caller, signals, waiting, pending, aborting, agents, producer,
                       writer, reader>>
        /\ consumer # "signal"
    BY <1>4 DEF Connected, HandshakeFails, BannerLate, ConsumerTest, LeaveRead
  <2>2. QED
    BY <1>0, <2>1, HeldFrame DEF PopInv, IdleInv, Held, Accepted
<1>5. QED
  BY <1>1, <1>2, <1>3, <1>4 DEF ConsumerStep

LEMMA HeldProducer ==
    ASSUME IInv, SeqInv, HeldInv, ProducerStep
    PROVE  HeldInv'
<1> USE DEF producerRest, callerVars, queueVars, chanVars, netVars, agentVars,
            consumerVars, producerVars, lifeVars
<1>0. PopInv /\ IdleInv
  BY DEF HeldInv
<1>1. CASE TakeToken
  <2>1. /\ UNCHANGED <<caller, signals, aborting, agents, consumer, reader>>
        /\ producer = "choose" /\ producer' \in {"check", "send"}
    BY <1>1 DEF TakeToken
  <2>2. CASE waiting = <<>>
    <3>1. UNCHANGED <<waiting, pending, writer>>
      BY <1>1, <2>2 DEF TakeToken
    <3>2. QED
      BY <1>0, <2>1, <3>1, HeldFrame DEF PopInv, IdleInv, Held, Accepted
  <2>3. CASE waiting # <<>>
    <3> DEFINE e == Head(waiting)
    <3>1. pending' = Append(pending, e) /\ waiting' = Tail(waiting) /\ e \in Calls
      BY <1>1, <2>3, SessionTypes, HeadTailProperties DEF TakeToken
    <3>2. \A d \in Calls : Contains(waiting, d) <=> d = e \/ Contains(waiting', d)
      BY <2>3, <3>1, SessionTypes, ContainsTail
    <3> HIDE DEF e
    <3>3. \A d \in Calls : Contains(pending', d) <=> Contains(pending, d) \/ d = e
      BY <3>1, SessionTypes, ContainsAppend
    <3>4. \A d \in Calls : Held(d) => Held(d)'
      BY <2>1, <3>2, <3>3 DEF Held
    <3>5. QED
      BY <1>0, <2>1, <3>4, HeldFrame DEF PopInv, IdleInv, Accepted
  <2>4. QED
    BY <2>2, <2>3
<1>2. CASE SendFails
  <2>1. /\ UNCHANGED <<waiting, pending, aborting, agents, consumer, reader, writer>>
        /\ producer = "send" /\ writer \in Calls /\ Finish(writer, "error")
        /\ producer' = IF CanSignal(writer) THEN "sendpop" ELSE "sendsignal"
    BY <1>2 DEF SendFails, IInv, TypeOK, AgentTypeOK
  <2>2. /\ \A d \in Calls : Accepted(d)' <=> Accepted(d)
        /\ \A d \in Calls : signals'[d] = 0 => signals[d] = 0
        /\ CanSignal(writer) => signals'[writer] > 0
    BY <2>1, FinishCounts
  <2>3. \A d \in Calls : Held(d) => Held(d)'
    BY <2>1 DEF Held
  <2>4. PopInv' /\ IdleInv'
    BY <1>0, <2>1, <2>2 DEF PopInv, IdleInv
  <2>5. QED
    BY <2>2, <2>3, <2>4, HeldFrame
<1>3. CASE ScanAbort
  <2>1. /\ UNCHANGED <<waiting, pending, aborting, agents, consumer, reader>>
        /\ producer = "scan" /\ Slot \in Calls /\ Finish(Slot, "error") /\ writer' = Slot
        /\ producer' = IF CanSignal(Slot) THEN "scanpop" ELSE "scansignal"
    BY <1>3, SessionTypes
       DEF ScanAbort, InScan, Slot, IInv, ScanInv, Scanning, TypeOK, AgentTypeOK
  <2>2. /\ \A d \in Calls : Accepted(d)' <=> Accepted(d)
        /\ \A d \in Calls : signals'[d] = 0 => signals[d] = 0
        /\ CanSignal(Slot) => signals'[Slot] > 0
    BY <2>1, FinishCounts
  <2>3. \A d \in Calls : Held(d) => Held(d)'
    BY <2>1 DEF Held
  <2>4. PopInv' /\ IdleInv'
    BY <1>0, <2>1, <2>2 DEF PopInv, IdleInv
  <2>5. QED
    BY <2>2, <2>3, <2>4, HeldFrame
<1>4. CASE AbortSignal
  <2>1. /\ UNCHANGED <<waiting, pending, aborting, agents, consumer, reader, writer>>
        /\ writer \in Calls /\ Signal(writer)
    BY <1>4 DEF AbortSignal, IInv, TypeOK, AgentTypeOK
  <2>2. /\ \A d \in Calls : Accepted(d)' <=> Accepted(d)
        /\ \A d \in Calls : signals'[d] = 0 => signals[d] = 0 /\ d # writer
        /\ signals'[writer] > 0
    BY <2>1, SignalCounts
  <2>3. \A d \in Calls : signals'[d] = 0 /\ Held(d) => Held(d)'
    BY <2>1, <2>2 DEF Held
  <2>4. PopInv' /\ IdleInv'
    BY <1>0, <2>1, <2>2 DEF PopInv, IdleInv
  <2>5. QED
    BY <2>2, <2>3, <2>4, HeldFrame
<1>5. CASE SendPop \/ ScanPop
  <2>1. /\ UNCHANGED <<caller, signals, waiting, aborting, agents, consumer, reader>>
        /\ producer \in {"sendpop", "scanpop"} /\ producer' \in {"out", "scan"}
        /\ writer \in Calls /\ PopRpc(seq[writer])
    BY <1>5 DEF SendPop, ScanPop, ProducerLeaves, IInv, TypeOK, AgentTypeOK
  <2>2. signals[writer] > 0 /\ InSession(writer)
    BY <1>0, <2>1 DEF PopInv, InSession
  <2>3. \A d \in Calls : Contains(pending, d) => d = writer \/ Contains(pending', d)
    BY <2>1, <2>2, PopMembers
  <2>4. \A d \in Calls : signals'[d] = 0 /\ Held(d) => Held(d)'
    BY <2>1, <2>2, <2>3 DEF Held
  <2>5. QED
    BY <1>0, <2>1, <2>4, HeldFrame DEF PopInv, IdleInv, Accepted
<1>6. CASE \/ TakeStop \/ ChooseTimeout \/ SendOk \/ CheckNot \/ ScanStart
           \/ ScanKeep \/ ScanCrash \/ ScanEnd
  <2>1. UNCHANGED <<caller, signals, waiting, pending, aborting, agents, consumer, reader>>
    BY <1>6 DEF TakeStop, ChooseTimeout, SendOk, CheckNot, ScanStart, ScanKeep,
                ScanCrash, ScanEnd
  <2>2. /\ producer \in {"choose", "send", "check", "scan"}
        /\ producer' \in {"choose", "check", "scan", "out"}
    BY <1>6 DEF TakeStop, ChooseTimeout, SendOk, CheckNot, ScanStart, ScanKeep,
                ScanCrash, ScanEnd, InScan, ProducerTest, ProducerLeaves
  <2>3. QED
    BY <1>0, <2>1, <2>2, HeldFrame DEF PopInv, IdleInv, Held, Accepted
<1>7. QED
  BY <1>1, <1>2, <1>3, <1>4, <1>5, <1>6 DEF ProducerStep

LEMMA HeldStep == IInv /\ SeqInv /\ HeldInv /\ [Next]_vars => HeldInv'
<1> SUFFICES ASSUME IInv, SeqInv, HeldInv, [Next]_vars PROVE HeldInv'
  OBVIOUS
<1>1. CASE UNCHANGED vars
  BY <1>1, HeldFrame DEF vars, HeldInv, PopInv, IdleInv, Held, Accepted
<1>2. QED
  BY <1>1, HeldCallers, HeldAgents, HeldConsumer, HeldProducer DEF Next

LEMMA InitHeldInv == Init => HeldInv
BY DEF Init, HeldInv, PopInv, IdleInv, Accepted

(* No RPC is dropped by the agents, the lost connections or the scan: one  *)
(* that is not signalled yet is in a queue or in the hands of an agent.    *)
THEOREM NoCallIsDropped == Spec => []EveryCallHeld
<1>1. HeldInv => EveryCallHeld
  BY DEF HeldInv, Held, EveryCallHeld
<1>2. QED
  BY <1>1, InitHeldInv, HeldStep, AlwaysIInv, AlwaysSeqInv, PTL DEF Spec

-----------------------------------------------------------------------------
(* The client implements RpcService: each call is completed once.          *)

(* The calls somebody still has a pointer to, or has done something to.    *)
Known(c) ==
    \/ Contains(waiting, c) \/ Contains(aborting, c) \/ InSession(c)
    \/ reader = c \/ c \in expired \/ signals[c] > 0
KnownInv == \A c \in Calls : Known(c) => Accepted(c)

(* abort_rpc has signalled the call, and is about to pop it. *)
Popping == producer \in {"sendsignal", "sendpop", "scansignal", "scanpop"}

(* A call is in one queue at most, and only there until it is signalled,   *)
(* but for the one that abort_rpc signals and then pops.                   *)
PlaceInv ==
    /\ IsInjective(waiting) /\ IsInjective(pending)
    /\ \A c \in Calls : Contains(waiting, c) =>
          ~InSession(c) /\ ~Contains(aborting, c) /\ signals[c] = 0
    /\ \A c \in Calls : Contains(pending, c) /\ signals[c] > 0 => writer = c /\ Popping
    /\ \A c \in Calls : Contains(aborting, c) => outcome[c] = "error"

(* What an agent has in its hands was signalled, or was not; a request     *)
(* that is not fully sent was not received; and abort_stalled_rpc aborts   *)
(* late calls only.                                                        *)
HandInv ==
    /\ consumer = "signal" => signals[reader] > 0
    /\ producer = "send" => signals[writer] = 0
    /\ Popping => signals[writer] > 0
    /\ producer \in {"send", "sendsignal", "sendpop"} => <<seq[writer], writer>> \notin served
    /\ producer \in {"scansignal", "scanpop"} => writer \in expired
    /\ scan.late \subseteq expired

(* A caller goes on because it was signalled. *)
WokenInv ==
    \A c \in Calls : notified[c] = 1 \/ caller[c] \in {"woken", "done"} => signals[c] > 0

OnceInv == KnownInv /\ PlaceInv /\ HandInv /\ WokenInv

-----------------------------------------------------------------------------
(* Sequences without repetition. *)

LEMMA InjectiveAppend ==
    ASSUME NEW S, NEW s \in Seq(S), NEW e \in S, IsInjective(s), ~Contains(s, e)
    PROVE  IsInjective(Append(s, e))
<1>1. /\ Len(s) \in Nat /\ DOMAIN s = 1 .. Len(s) /\ DOMAIN Append(s, e) = 1 .. Len(s) + 1
      /\ Append(s, e)[Len(s) + 1] = e
      /\ \A i \in 1 .. Len(s) : Append(s, e)[i] = s[i]
  BY AppendProperties
<1>2. \A i \in 1 .. Len(s) : s[i] # e
  BY DEF Contains
<1>3. \A i \in 1 .. Len(s) + 1 : i \in 1 .. Len(s) \/ i = Len(s) + 1
  BY <1>1
<1> QED
  BY <1>1, <1>2, <1>3 DEF IsInjective

LEMMA InjectiveTail ==
    ASSUME NEW S, NEW s \in Seq(S), s # <<>>, IsInjective(s)
    PROVE  IsInjective(Tail(s)) /\ ~Contains(Tail(s), Head(s))
<1>1. /\ Tail(s) \in Seq(S) /\ Len(Tail(s)) = Len(s) - 1 /\ Head(s) = s[1]
      /\ \A i \in 1 .. Len(Tail(s)) : Tail(s)[i] = s[i + 1]
      /\ Len(s) \in Nat \ {0} /\ DOMAIN s = 1 .. Len(s) /\ DOMAIN Tail(s) = 1 .. Len(Tail(s))
  BY HeadTailProperties
<1>2. \A i \in 1 .. Len(Tail(s)) : i + 1 \in 1 .. Len(s) /\ i + 1 # 1 /\ 1 \in 1 .. Len(s)
  BY <1>1
<1>3. \A i, j \in 1 .. Len(Tail(s)) : i + 1 = j + 1 => i = j
  BY <1>1
<1> QED
  BY <1>1, <1>2, <1>3 DEF IsInjective, Contains

LEMMA InjectiveRemoveAt ==
    ASSUME NEW S, NEW s \in Seq(S), NEW i \in 1 .. Len(s), IsInjective(s)
    PROVE  IsInjective(RemoveAt(s, i)) /\ ~Contains(RemoveAt(s, i), s[i])
<1> PICK r : r = RemoveAt(s, i)
  OBVIOUS
<1>1. /\ r \in Seq(S) /\ Len(r) = Len(s) - 1 /\ Len(s) \in Nat
      /\ \A j \in 1 .. Len(s) - 1 : r[j] = IF j < i THEN s[j] ELSE s[j + 1]
      /\ DOMAIN s = 1 .. Len(s) /\ DOMAIN r = 1 .. Len(s) - 1
  BY RemoveAtProperties
<1>2. ASSUME NEW j \in 1 .. Len(s) - 1
      PROVE  \E k \in 1 .. Len(s) : r[j] = s[k] /\ k # i /\ k = IF j < i THEN j ELSE j + 1
  BY <1>1
<1>3. ASSUME NEW a \in 1 .. Len(s) - 1, NEW b \in 1 .. Len(s) - 1, r[a] = r[b]
      PROVE  a = b
  <2>1. PICK k \in 1 .. Len(s) : r[a] = s[k] /\ k = IF a < i THEN a ELSE a + 1
    BY <1>2
  <2>2. PICK l \in 1 .. Len(s) : r[b] = s[l] /\ l = IF b < i THEN b ELSE b + 1
    BY <1>2
  <2>3. k = l
    BY <1>1, <1>3, <2>1, <2>2 DEF IsInjective
  <2> QED
    BY <2>1, <2>2, <2>3
<1>4. IsInjective(r)
  BY <1>1, <1>3 DEF IsInjective
<1>5. \A j \in 1 .. Len(s) - 1 : r[j] # s[i]
  BY <1>1, <1>2 DEF IsInjective
<1> QED
  BY <1>1, <1>4, <1>5 DEF Contains

LEMMA InjectiveEmpty == IsInjective(<<>>) /\ \A x : ~Contains(<<>>, x)
BY DEF IsInjective, Contains

-----------------------------------------------------------------------------
(* OnceInv is inductive. *)

LEMMA OnceTypes ==
    ASSUME IInv
    PROVE  /\ reader \in Calls \cup {NoCall} /\ writer \in Calls \cup {NoCall}
           /\ notified \in [Calls -> 0..1] /\ expired \subseteq Calls
           /\ outcome \in [Calls -> {"none", "reply", "error"}]
           /\ producer \in ProducerPcs /\ consumer \in ConsumerPcs
           /\ consumer = "signal" => reader \in Calls
           /\ producer \in {"send", "sendsignal", "sendpop", "scansignal", "scanpop"}
                 => writer \in Calls
BY DEF IInv, TypeOK, ProcessTypeOK, AgentTypeOK

(* Who gets the signal is called once more, and no call moves.             *)
LEMMA SignalFacts ==
    ASSUME IInv, OnceInv, NEW c \in Calls, Signal(c)
    PROVE  /\ \A d \in Calls : Accepted(d)' <=> Accepted(d)
           /\ \A d \in Calls : caller'[d] = "done" <=> caller[d] = "done"
           /\ \A d \in Calls : signals'[d] > 0 <=> signals[d] > 0 \/ d = c
           /\ \A d \in Calls : signals'[d] = 0 <=> signals[d] = 0 /\ d # c
           /\ WokenInv'
<1>1. /\ \A d \in Calls : Accepted(d)' <=> Accepted(d)
      /\ \A d \in Calls : signals'[d] = IF d = c THEN signals[d] + 1 ELSE signals[d]
  BY SignalCounts
<1>2. signals \in [Calls -> Nat] /\ caller \in [Calls -> CallerPcs] /\ notified \in [Calls -> 0..1]
  BY SessionTypes, OnceTypes
<1>3. /\ \A d \in Calls : signals'[d] > 0 <=> signals[d] > 0 \/ d = c
      /\ \A d \in Calls : signals'[d] = 0 <=> signals[d] = 0 /\ d # c
  BY <1>1, <1>2
<1>4. \A d \in Calls : caller'[d] = "done" <=> caller[d] = "done"
  BY <1>2 DEF Signal
<1>5. WokenInv'
  BY <1>2, <1>3 DEF Signal, OnceInv, WokenInv
<1> QED
  BY <1>1, <1>3, <1>4, <1>5

(* Who has a pending notification was signalled before.                    *)
LEMMA NoRoomIsSignalled ==
    ASSUME IInv, OnceInv, NEW c \in Calls, ~CanSignal(c)
    PROVE  signals[c] > 0
BY OnceTypes DEF CanSignal, OnceInv, WokenInv

(* ManageReply or ManageError, and a Signal that may be suspended.         *)
LEMMA FinishFacts ==
    ASSUME IInv, OnceInv, NEW c \in Calls, NEW o, Finish(c, o)
    PROVE  /\ \A d \in Calls : Accepted(d)' <=> Accepted(d)
           /\ \A d \in Calls : caller'[d] = "done" <=> caller[d] = "done"
           /\ \A d \in Calls : signals'[d] > 0 <=> signals[d] > 0 \/ d = c
           /\ \A d \in Calls : signals'[d] = 0 <=> signals[d] = 0 /\ d # c
           /\ \A d \in Calls : outcome'[d] = IF d = c THEN o ELSE outcome[d]
           /\ WokenInv'
<1>0. \A d \in Calls : outcome'[d] = IF d = c THEN o ELSE outcome[d]
  BY OnceTypes DEF Finish, Record
<1>1. CASE CanSignal(c)
  <2>1. Signal(c)
    BY <1>1 DEF Finish
  <2> QED
    BY <1>0, <2>1, SignalFacts
<1>2. CASE ~CanSignal(c)
  <2>1. UNCHANGED <<caller, notified, signals>>
    BY <1>2 DEF Finish
  <2>2. signals[c] > 0 /\ signals \in [Calls -> Nat]
    BY <1>2, NoRoomIsSignalled, SessionTypes
  <2>3. /\ \A d \in Calls : signals[d] > 0 <=> signals[d] > 0 \/ d = c
        /\ \A d \in Calls : signals[d] = 0 <=> signals[d] = 0 /\ d # c
    BY <2>2
  <2>4. WokenInv'
    BY <2>1 DEF OnceInv, WokenInv
  <2> QED
    BY <1>0, <2>1, <2>3, <2>4 DEF Accepted
<1> QED
  BY <1>1, <1>2

(* A step that moves no call, and takes nobody by the hand.                *)
LEMMA OnceQuiet ==
    ASSUME OnceInv,
           UNCHANGED <<caller, notified, outcome, signals, waiting, pending, seq,
                       aborting, writer>>,
           stale' = stale \/ stale' = <<>>, reader' = reader \/ reader' = NoCall,
           expired' = expired, scan'.late \subseteq expired, served' \subseteq served,
           consumer' = "signal" => consumer = "signal" /\ reader' = reader,
           \/ producer' = producer
           \/ {producer, producer'} \cap {"send", "sendsignal", "sendpop", "scansignal", "scanpop"} = {}
    PROVE  OnceInv'
<1>1. \A c \in Calls : InSession(c)' => InSession(c)
  BY DEF InSession, Contains
<1>2. KnownInv'
  <2>1. \A c \in Calls : Known(c)' => Known(c)
    BY <1>1, CallsAssumption DEF Known
  <2>2. \A c \in Calls : Accepted(c)' <=> Accepted(c)
    BY DEF Accepted
  <2> QED
    BY <2>1, <2>2 DEF OnceInv, KnownInv
<1>3. Popping' <=> Popping
  BY DEF Popping
<1>4. PlaceInv'
  BY <1>1, <1>3 DEF OnceInv, PlaceInv
<1>5. HandInv'
  BY <1>3 DEF OnceInv, HandInv, Popping
<1>6. WokenInv'
  BY DEF OnceInv, WokenInv
<1> QED
  BY <1>2, <1>4, <1>5, <1>6 DEF OnceInv

LEMMA OnceCallers ==
    ASSUME IInv, OnceInv, NEW c \in Calls, CallerStep(c) \/ Expire(c)
    PROVE  OnceInv'
<1> USE DEF callerRest, callerVars, queueVars, chanVars, netVars, agentVars,
            consumerVars, producerVars, lifeVars
<1>0. /\ caller \in [Calls -> CallerPcs] /\ notified \in [Calls -> 0..1]
      /\ waiting \in Seq(Calls) /\ seq \in [Calls -> Nat] /\ signals \in [Calls -> Nat]
  BY SessionTypes, OnceTypes
<1>1. CASE Boot(c)
  <2>1. /\ UNCHANGED <<notified, outcome, signals, waiting, pending, stale, seq, aborting,
                       reader, producer, writer, scan, expired>>
        /\ served' = {} /\ consumer' = "connect" /\ caller[c] = "idle"
        /\ caller' = [caller EXCEPT ![c] = "booting"]
    BY <1>1 DEF Boot, StartSession
  <2>2. producer = "off"
    BY <1>1 DEF Boot, IInv, SessionInv
  <2>3. \A d \in Calls : /\ Accepted(d)' <=> Accepted(d)
                         /\ caller'[d] \in {"woken", "done"} <=> caller[d] \in {"woken", "done"}
    BY <1>0, <2>1 DEF Accepted
  <2>4. \A d \in Calls : Known(d)' <=> Known(d)
    BY <2>1 DEF Known, InSession
  <2>5. KnownInv' /\ WokenInv'
    BY <2>1, <2>3, <2>4 DEF OnceInv, KnownInv, WokenInv
  <2>6. PlaceInv'
    BY <2>1 DEF OnceInv, PlaceInv, InSession, Popping
  <2>7. HandInv'
    BY <2>1, <2>2 DEF OnceInv, HandInv, Popping
  <2> QED
    BY <2>5, <2>6, <2>7 DEF OnceInv
<1>2. CASE Enqueue(c)
  <2>1. /\ UNCHANGED <<notified, outcome, signals, pending, stale, aborting, served,
                       reader, consumer, producer, writer, scan, expired>>
        /\ waiting' = Append(waiting, c) /\ ~Accepted(c) /\ Stamp(c)
    BY <1>2 DEF Enqueue, Accepted
  <2>2. ~Known(c)
    BY <2>1 DEF OnceInv, KnownInv
  <2>3. /\ ~Contains(waiting, c) /\ ~InSession(c) /\ ~Contains(aborting, c)
        /\ signals[c] = 0 /\ writer # c
    BY <1>0, <2>2 DEF Known, InSession
  <2>4. /\ Accepted(c)' /\ \A d \in Calls : Accepted(d) => Accepted(d)'
        /\ \A d \in Calls : caller'[d] \in {"woken", "done"} => caller[d] \in {"woken", "done"}
    BY <1>0, <1>2 DEF Enqueue, Post, Accepted
  <2>5. \A d \in Calls : Contains(waiting', d) <=> Contains(waiting, d) \/ d = c
    BY <1>0, <2>1, ContainsAppend
  <2>6. \A d \in Calls : InSession(d)' <=> InSession(d)
    BY <2>1 DEF InSession
  <2>7. KnownInv'
    BY <2>1, <2>4, <2>5, <2>6 DEF OnceInv, KnownInv, Known
  <2>8. WokenInv'
    BY <2>1, <2>4 DEF OnceInv, WokenInv
  <2>9. IsInjective(waiting')
    BY <1>0, <2>1, <2>3, InjectiveAppend DEF OnceInv, PlaceInv
  <2>10. PlaceInv'
    BY <2>1, <2>3, <2>5, <2>6, <2>9 DEF OnceInv, PlaceInv, Popping
  <2>11. writer # c /\ (writer \in Calls => seq'[writer] = seq[writer])
    BY <1>0, <2>1, <2>3 DEF Stamp
  <2>12. HandInv'
    BY <2>1, <2>11, OnceTypes DEF OnceInv, HandInv, Popping
  <2> QED
    BY <2>7, <2>8, <2>10, <2>12 DEF OnceInv
<1>3. CASE SendToken(c) \/ Wait(c) \/ Resume(c)
  <2>1. UNCHANGED <<outcome, signals, waiting, pending, stale, seq, aborting, served,
                    reader, consumer, producer, writer, scan, expired>>
    BY <1>3 DEF SendToken, Wait, Resume
  <2>2. \A d \in Calls : Accepted(d) => Accepted(d)'
    BY <1>0, <1>3 DEF SendToken, Wait, Resume, Post, Accepted
  <2>3. KnownInv'
    BY <2>1, <2>2 DEF OnceInv, KnownInv, Known, InSession
  <2>4. PlaceInv'
    BY <2>1 DEF OnceInv, PlaceInv, InSession, Popping
  <2>5. HandInv'
    BY <2>1 DEF OnceInv, HandInv, Popping
  <2>6. \A d \in Calls : notified'[d] = 1 \/ caller'[d] \in {"woken", "done"} =>
           notified[d] = 1 \/ caller[d] \in {"woken", "done"}
    BY <1>0, <1>3 DEF SendToken, Wait, Resume, Post
  <2>7. WokenInv'
    BY <2>1, <2>6 DEF OnceInv, WokenInv
  <2> QED
    BY <2>3, <2>4, <2>5, <2>7 DEF OnceInv
<1>4. CASE Expire(c)
  <2>1. /\ UNCHANGED <<caller, notified, outcome, signals, waiting, pending, stale, seq,
                       aborting, served, reader, consumer, producer, writer, scan>>
        /\ expired' = expired \cup {c} /\ Accepted(c)
    BY <1>4 DEF Expire
  <2>2. KnownInv'
    BY <2>1 DEF OnceInv, KnownInv, Known, InSession, Accepted
  <2>3. PlaceInv'
    BY <2>1 DEF OnceInv, PlaceInv, InSession, Popping
  <2>4. HandInv'
    BY <2>1 DEF OnceInv, HandInv, Popping
  <2>5. WokenInv'
    BY <2>1 DEF OnceInv, WokenInv
  <2> QED
    BY <2>2, <2>3, <2>4, <2>5 DEF OnceInv
<1> QED
  BY <1>1, <1>2, <1>3, <1>4 DEF CallerStep

LEMMA OnceAgents ==
    ASSUME IInv, SeqInv, HeldInv, OnceInv, OwnerStep \/ AgentStep
    PROVE  OnceInv'
<1> USE DEF agentRest, ownerRest, callerVars, queueVars, chanVars, netVars, agentVars,
            consumerVars, producerVars, lifeVars
<1>0. scan.late \subseteq expired /\ IdleInv
  BY DEF OnceInv, HandInv, HeldInv
<1>1. CASE OwnerStep
  <2>1. UNCHANGED <<caller, notified, outcome, signals, waiting, pending, stale, seq, aborting,
                    served, reader, consumer, producer, writer, scan, expired>>
    BY <1>1 DEF OwnerStep, Destroy, SendStop, Joined
  <2> QED
    BY <1>0, <2>1, OnceQuiet
<1>2. CASE AbortDone \/ Reconnect
  <2>1. /\ UNCHANGED <<caller, notified, outcome, signals, waiting, pending, stale, seq,
                       aborting, reader, producer, writer, scan, expired>>
        /\ served' \in {served, {}} /\ consumer' \in {consumer, "connect"}
    BY <1>2 DEF AbortDone, Reconnect, StartSession
  <2>2. served' \subseteq served /\ (consumer' = "signal" => consumer = "signal")
    BY <2>1
  <2> QED
    BY <1>0, <2>1, <2>2, OnceQuiet
<1>3. CASE AbortAll
  <2>1. /\ UNCHANGED <<caller, notified, signals, stale, seq, served, reader, producer,
                       writer, scan, expired>>
        /\ consumer' = "off" /\ aborting' = pending \o waiting
        /\ pending' = <<>> /\ waiting' = <<>> /\ consumer = "out" /\ agents = "join"
        /\ outcome' = [c \in Calls |->
                         IF Contains(PendingAndWaiting, c) THEN "error" ELSE outcome[c]]
    BY <1>3 DEF AbortAll, PendingAndWaiting
  <2>2. \A c \in Calls : Contains(aborting', c) <=> Contains(pending, c) \/ Contains(waiting, c)
    BY <2>1, SessionTypes, ContainsConcat
  <2>3. producer = "off"
    BY <2>1 DEF IInv, SessionInv
  <2>4. \A c \in Calls : Known(c)' => Known(c)
    BY <2>1, <2>2, InjectiveEmpty DEF Known, InSession
  <2>5. KnownInv'
    BY <2>1, <2>4 DEF OnceInv, KnownInv, Accepted
  <2>6. PlaceInv'
    BY <2>1, <2>2, InjectiveEmpty DEF PlaceInv, PendingAndWaiting
  <2>7. HandInv'
    BY <2>1, <2>3 DEF OnceInv, HandInv, Popping
  <2>8. WokenInv'
    BY <2>1 DEF OnceInv, WokenInv
  <2> QED
    BY <2>5, <2>6, <2>7, <2>8 DEF OnceInv
<1>4. CASE AbortNext
  <2> DEFINE h == Head(aborting)
  <2>1. /\ UNCHANGED <<outcome, waiting, pending, stale, seq, served, reader, consumer, producer,
                       writer, scan, expired>>
        /\ aborting # <<>> /\ aborting' = Tail(aborting) /\ Signal(h) /\ agents = "abort"
    BY <1>4 DEF AbortNext
  <2>2. h \in Calls
    BY <2>1, SessionTypes, HeadTailProperties
  <2>3. \A d \in Calls : Contains(aborting, d) <=> d = h \/ Contains(aborting', d)
    BY <2>1, SessionTypes, ContainsTail
  <2> HIDE DEF h
  <2>4. /\ \A d \in Calls : Accepted(d)' <=> Accepted(d)
        /\ \A d \in Calls : signals'[d] > 0 <=> signals[d] > 0 \/ d = h
        /\ \A d \in Calls : signals'[d] = 0 <=> signals[d] = 0 /\ d # h
        /\ WokenInv'
    BY <2>1, <2>2, SignalFacts
  <2>5. producer = "off" /\ consumer = "off" /\ pending = <<>>
    BY <2>1 DEF IInv, SessionInv
  <2>6. \A d \in Calls : Known(d)' => Known(d)
    BY <2>1, <2>3, <2>4 DEF Known, InSession
  <2>7. KnownInv'
    BY <2>4, <2>6 DEF OnceInv, KnownInv
  <2>8. PlaceInv'
    BY <2>1, <2>2, <2>3, <2>4, <2>5, InjectiveEmpty DEF OnceInv, PlaceInv, InSession
  <2>9. HandInv'
    BY <2>1, <2>5 DEF OnceInv, HandInv, Popping
  <2> QED
    BY <2>4, <2>7, <2>8, <2>9 DEF OnceInv
<1> QED
  BY <1>1, <1>2, <1>3, <1>4 DEF AgentStep

(* A reply pops its call, and no other has its sequence number.            *)
LEMMA ReplyFacts ==
    ASSUME IInv, SeqInv, OnceInv, NEW c \in Calls, ReadReply(c)
    PROVE  /\ Contains(pending, c) /\ ~Contains(pending', c) /\ IsInjective(pending')
           /\ \A d \in Calls : Contains(pending', d) => Contains(pending, d)
           /\ \A d \in Calls : InSession(d)' => InSession(d)
           /\ c = writer => producer \notin {"send", "sendsignal", "sendpop"}
           /\ Finish(c, "reply") /\ consumer = "read"
           /\ reader' \in {c, NoCall} /\ consumer' \in {"test", "signal"}
           /\ consumer' = "signal" => reader' = c /\ ~CanSignal(c)
           /\ UNCHANGED <<waiting, seq, served, agents, aborting, producer, writer, scan,
                          expired>>
<1>0. PICK m \in served : \E i \in Matches(m[1]) : pending[i] = c /\ Erase(i)
  BY DEF ReadReply
<1>1. PICK i \in Matches(m[1]) : pending[i] = c /\ Erase(i)
  BY <1>0
<1>2. i \in 1 .. Len(pending) /\ seq[c] = m[1]
  BY <1>1 DEF Matches
<1>3. Contains(pending, c) /\ InSession(c)
  BY <1>1, <1>2 DEF InSession, Contains
<1>4. IsInjective(pending') /\ ~Contains(pending', c)
  BY <1>1, <1>2, SessionTypes, InjectiveRemoveAt DEF Erase, OnceInv, PlaceInv
<1>5. /\ \A d \in Calls : Contains(pending', d) => Contains(pending, d)
      /\ \A d \in Calls : Contains(stale', d) => Contains(stale, d) \/ Contains(pending, d)
  BY <1>1, <1>2, EraseMembers
<1>6. /\ Finish(c, "reply") /\ consumer = "read"
      /\ reader' \in {c, NoCall} /\ consumer' \in {"test", "signal"}
      /\ consumer' = "signal" => reader' = c /\ ~CanSignal(c)
      /\ UNCHANGED <<waiting, seq, served, agents, aborting, producer, writer, scan, expired>>
  BY DEF ReadReply, consumerRest, agentVars
<1>7. \A d \in Calls : InSession(d)' => InSession(d)
  BY <1>5, <1>6 DEF InSession
<1>8. m = <<seq[c], c>>
  <2>1. c = m[2]
    BY <1>2, <1>3 DEF SeqInv
  <2> QED
    BY <1>2, <2>1, SessionTypes
<1>9. c = writer => producer \notin {"send", "sendsignal", "sendpop"}
  BY <1>1, <1>8 DEF OnceInv, HandInv
<1> QED
  BY <1>3, <1>4, <1>5, <1>6, <1>7, <1>9

LEMMA OnceConsumer ==
    ASSUME IInv, SeqInv, HeldInv, OnceInv, ConsumerStep
    PROVE  OnceInv'
<1> USE DEF consumerRest, callerVars, queueVars, chanVars, netVars, agentVars,
            consumerVars, producerVars, lifeVars
<1>0. scan.late \subseteq expired
  BY DEF OnceInv, HandInv
<1>1. ASSUME NEW c \in Calls, ReadReply(c)
      PROVE  OnceInv'
  <2>1. /\ Contains(pending, c) /\ ~Contains(pending', c) /\ IsInjective(pending')
        /\ \A d \in Calls : Contains(pending', d) => Contains(pending, d)
        /\ \A d \in Calls : InSession(d)' => InSession(d)
        /\ c = writer => producer \notin {"send", "sendsignal", "sendpop"}
        /\ Finish(c, "reply") /\ consumer = "read"
        /\ reader' \in {c, NoCall} /\ (consumer' = "signal" => reader' = c)
        /\ UNCHANGED <<waiting, seq, served, agents, aborting, producer, writer, scan, expired>>
    BY <1>1, ReplyFacts
  <2>2. /\ \A d \in Calls : Accepted(d)' <=> Accepted(d)
        /\ \A d \in Calls : signals'[d] > 0 <=> signals[d] > 0 \/ d = c
        /\ \A d \in Calls : signals'[d] = 0 <=> signals[d] = 0 /\ d # c
        /\ \A d \in Calls : outcome'[d] = IF d = c THEN "reply" ELSE outcome[d]
        /\ WokenInv'
    BY <2>1, FinishFacts
  <2>3. InSession(c) /\ aborting = <<>>
    BY <2>1 DEF InSession, IInv, SessionInv, HeldInv, IdleInv
  <2>4. KnownInv'
    BY <2>1, <2>2, <2>3, CallsAssumption DEF OnceInv, KnownInv, Known
  <2>5. Popping' <=> Popping
    BY <2>1 DEF Popping
  <2>6. PlaceInv'
    BY <2>1, <2>2, <2>3, <2>5, InjectiveEmpty DEF OnceInv, PlaceInv
  <2>7. HandInv'
    BY <2>1, <2>2, <2>5, OnceTypes DEF OnceInv, HandInv, Popping
  <2> QED
    BY <2>2, <2>4, <2>6, <2>7 DEF OnceInv
<1>2. CASE ConsumerSignal
  <2>1. /\ UNCHANGED <<outcome, waiting, pending, stale, seq, served, aborting, producer,
                       writer, scan, expired>>
        /\ reader \in Calls /\ Signal(reader) /\ consumer = "signal"
        /\ consumer' = "test" /\ reader' = NoCall
    BY <1>2, OnceTypes DEF ConsumerSignal
  <2>2. /\ \A d \in Calls : Accepted(d)' <=> Accepted(d)
        /\ \A d \in Calls : signals'[d] > 0 <=> signals[d] > 0
        /\ \A d \in Calls : signals'[d] = 0 <=> signals[d] = 0
        /\ WokenInv'
    BY <2>1, SignalFacts DEF OnceInv, HandInv
  <2>3. KnownInv'
    BY <2>1, <2>2, CallsAssumption DEF OnceInv, KnownInv, Known, InSession
  <2>4. PlaceInv'
    BY <2>1, <2>2 DEF OnceInv, PlaceInv, InSession, Popping
  <2>5. HandInv'
    BY <2>1, <2>2, OnceTypes DEF OnceInv, HandInv, Popping
  <2> QED
    BY <2>2, <2>3, <2>4, <2>5 DEF OnceInv
<1>3. CASE \/ Connected \/ HandshakeFails \/ BannerOk \/ BannerLate \/ ConsumerTest
           \/ LeaveRead \/ ConsumerJoin
  <2>1. UNCHANGED <<caller, notified, outcome, signals, waiting, pending, stale, seq,
                    aborting, served, reader, writer, scan, expired>>
    BY <1>3 DEF Connected, HandshakeFails, BannerOk, BannerLate, ConsumerTest, LeaveRead,
                ConsumerJoin
  <2>2. /\ consumer' # "signal"
        /\ \/ producer' = producer
           \/ producer \in {"off", "out"} /\ producer' \in {"off", "choose"}
    BY <1>3 DEF Connected, HandshakeFails, BannerOk, BannerLate, ConsumerTest, LeaveRead,
                Leave, ConsumerJoin, ProducerDone, IInv, SessionInv
  <2> QED
    BY <1>0, <2>1, <2>2, OnceQuiet
<1> QED
  BY <1>1, <1>2, <1>3 DEF ConsumerStep

(* The range-for reads a call that was pending when the scan began.        *)
LEMMA SlotFacts ==
    ASSUME IInv, OnceInv, ScanAbort
    PROVE  /\ Slot \in Calls /\ InSession(Slot) /\ Slot \in expired /\ Accepted(Slot)
           /\ producer = "scan" /\ Finish(Slot, "error") /\ writer' = Slot
           /\ producer' = IF CanSignal(Slot) THEN "scanpop" ELSE "scansignal"
           /\ UNCHANGED <<waiting, pending, stale, seq, served, aborting, agents, consumer,
                          reader, scan, expired>>
<1>1. Slot \in scan.late /\ Slot # NoCall /\ InScan
  BY DEF ScanAbort
<1>2. Slot \in Calls
  BY <1>1, SessionTypes DEF InScan, Slot, IInv, ScanInv, Scanning, TypeOK, AgentTypeOK
<1>3. Contains(pending, Slot) \/ Contains(stale, Slot)
  <2>1. /\ scan.next \in Nat \ {0} /\ Len(pending) \in Nat /\ Len(stale) \in Nat
        /\ scan.next <= Len(pending) + Len(stale)
    BY <1>1, SessionTypes DEF InScan, IInv, ScanInv, Scanning, TypeOK, AgentTypeOK
  <2>2. CASE scan.next <= Len(pending)
    BY <2>1, <2>2 DEF Slot, Contains
  <2>3. CASE ~(scan.next <= Len(pending))
    <3>1. scan.next - Len(pending) \in 1 .. Len(stale)
      BY <2>1, <2>3
    <3> QED
      BY <2>3, <3>1 DEF Slot, Contains
  <2> QED
    BY <2>2, <2>3
<1>4. Slot \in expired
  BY <1>1 DEF OnceInv, HandInv
<1>5. Accepted(Slot)
  BY <1>2, <1>4 DEF OnceInv, KnownInv, Known
<1> QED
  BY <1>1, <1>2, <1>3, <1>4, <1>5
     DEF ScanAbort, InScan, InSession, producerRest, queueVars, netVars, agentVars, consumerVars

(* pop_rpc leaves no other pending call with that number, nor that one.    *)
LEMMA PopFacts ==
    ASSUME IInv, SeqInv, OnceInv, NEW w \in Calls, InSession(w), PopRpc(seq[w])
    PROVE  /\ IsInjective(pending') /\ ~Contains(pending', w)
           /\ \A d \in Calls : Contains(pending', d) => Contains(pending, d)
           /\ \A d \in Calls : Contains(stale', d) => Contains(stale, d) \/ Contains(pending, d)
<1>1. /\ \A d \in Calls : Contains(pending', d) => Contains(pending, d)
      /\ \A d \in Calls : Contains(stale', d) => Contains(stale, d) \/ Contains(pending, d)
  BY PopMembers
<1>2. CASE Matches(seq[w]) = {}
  <2>1. pending' = pending
    BY <1>2 DEF PopRpc
  <2>2. ~Contains(pending, w)
    BY <1>2 DEF Matches, Contains
  <2> QED
    BY <1>1, <2>1, <2>2 DEF OnceInv, PlaceInv
<1>3. CASE Matches(seq[w]) # {}
  <2>1. PICK i \in Matches(seq[w]) : Erase(i)
    BY <1>3 DEF PopRpc
  <2>2. i \in 1 .. Len(pending) /\ pending[i] \in Calls /\ seq[pending[i]] = seq[w]
    BY SessionTypes DEF Matches
  <2>3. pending[i] = w
    BY <2>2 DEF SeqInv, InSession, Contains
  <2>4. IsInjective(pending') /\ ~Contains(pending', w)
    BY <2>1, <2>2, <2>3, SessionTypes, InjectiveRemoveAt DEF Erase, OnceInv, PlaceInv
  <2> QED
    BY <1>1, <2>4
<1> QED
  BY <1>2, <1>3

LEMMA OnceProducer ==
    ASSUME IInv, SeqInv, HeldInv, OnceInv, ProducerStep
    PROVE  OnceInv'
<1> USE DEF producerRest, callerVars, queueVars, chanVars, netVars, agentVars,
            consumerVars, producerVars, lifeVars
<1>0. scan.late \subseteq expired /\ (producer # "off" => aborting = <<>>)
  BY DEF OnceInv, HandInv, HeldInv, IdleInv, IInv, SessionInv
<1>1. CASE TakeToken /\ waiting # <<>>
  <2> DEFINE e == Head(waiting)
  <2>1. /\ UNCHANGED <<caller, notified, outcome, signals, stale, served, aborting, consumer,
                       reader, scan, expired>>
        /\ pending' = Append(pending, e) /\ waiting' = Tail(waiting) /\ Stamp(e)
        /\ writer' = e /\ producer = "choose" /\ producer' = "send"
    BY <1>1 DEF TakeToken
  <2>2. e \in Calls
    BY <1>1, SessionTypes, HeadTailProperties
  <2>3. \A d \in Calls : Contains(waiting, d) <=> d = e \/ Contains(waiting', d)
    BY <1>1, <2>1, SessionTypes, ContainsTail
  <2>4. IsInjective(waiting') /\ ~Contains(waiting', e)
    BY <1>1, <2>1, SessionTypes, InjectiveTail DEF OnceInv, PlaceInv
  <2> HIDE DEF e
  <2>5. ~InSession(e) /\ ~Contains(pending, e) /\ ~Contains(aborting, e) /\ signals[e] = 0
    BY <2>2, <2>3 DEF OnceInv, PlaceInv, InSession
  <2>6. \A d \in Calls : Contains(pending', d) <=> Contains(pending, d) \/ d = e
    BY <2>1, <2>2, SessionTypes, ContainsAppend
  <2>7. IsInjective(pending')
    BY <2>1, <2>2, <2>5, SessionTypes, InjectiveAppend DEF OnceInv, PlaceInv
  <2>8. \A d \in Calls : InSession(d)' => InSession(d) \/ d = e
    BY <2>1, <2>6 DEF InSession
  <2>9. KnownInv'
    BY <2>1, <2>2, <2>3, <2>8 DEF OnceInv, KnownInv, Known, Accepted
  <2>10. PlaceInv'
    BY <2>1, <2>2, <2>3, <2>4, <2>5, <2>6, <2>7, <2>8, SessionTypes
       DEF OnceInv, PlaceInv, Popping
  <2>11. <<seq'[e], e>> \notin served
    BY <2>1, <2>2, SessionTypes DEF SeqInv, Stamp
  <2>12. HandInv'
    BY <2>1, <2>5, <2>11 DEF OnceInv, HandInv, Popping
  <2>13. WokenInv'
    BY <2>1 DEF OnceInv, WokenInv
  <2> QED
    BY <2>9, <2>10, <2>12, <2>13 DEF OnceInv
<1>2. CASE SendOk
  <2>1. /\ UNCHANGED <<caller, notified, outcome, signals, waiting, pending, stale, seq,
                       aborting, consumer, reader, scan, expired>>
        /\ producer = "send" /\ producer' = "check" /\ writer' = NoCall
    BY <1>2 DEF SendOk
  <2>2. KnownInv'
    BY <2>1, CallsAssumption DEF OnceInv, KnownInv, Known, InSession, Accepted
  <2>3. PlaceInv'
    BY <2>1, CallsAssumption DEF OnceInv, PlaceInv, InSession, Popping
  <2>4. HandInv'
    BY <2>1 DEF OnceInv, HandInv, Popping
  <2>5. WokenInv'
    BY <2>1 DEF OnceInv, WokenInv
  <2> QED
    BY <2>2, <2>3, <2>4, <2>5 DEF OnceInv
<1>3. ASSUME NEW c \in Calls, Finish(c, "error"), writer' = c, InSession(c),
             producer \in {"send", "scan"}, Popping', c = writer \/ producer = "scan",
             producer' \in {"sendsignal", "sendpop"} => producer = "send",
             producer' \in {"scansignal", "scanpop"} => c \in expired,
             UNCHANGED <<waiting, pending, stale, seq, served, aborting, consumer, reader, scan,
                         expired>>
      PROVE  OnceInv'
  <2>1. /\ \A d \in Calls : Accepted(d)' <=> Accepted(d)
        /\ \A d \in Calls : signals'[d] > 0 <=> signals[d] > 0 \/ d = c
        /\ \A d \in Calls : signals'[d] = 0 <=> signals[d] = 0 /\ d # c
        /\ \A d \in Calls : outcome'[d] = IF d = c THEN "error" ELSE outcome[d]
        /\ WokenInv'
    BY <1>3, FinishFacts
  <2>2. \A d \in Calls : InSession(d)' => InSession(d)
    BY <1>3 DEF InSession
  <2>3. KnownInv'
    BY <1>3, <2>1, <2>2 DEF OnceInv, KnownInv, Known
  <2>4. ~Popping /\ ~Contains(waiting, c)
    BY <1>3 DEF Popping, OnceInv, PlaceInv
  <2>5. PlaceInv'
    BY <1>3, <2>1, <2>2, <2>4 DEF OnceInv, PlaceInv
  <2>6. HandInv'
    BY <1>3, <2>1, OnceTypes DEF OnceInv, HandInv, Popping
  <2> QED
    BY <2>1, <2>3, <2>5, <2>6 DEF OnceInv
<1>4. CASE SendFails
  <2>1. /\ writer \in Calls /\ Finish(writer, "error") /\ writer' = writer
        /\ InSession(writer) /\ producer = "send" /\ producer' \in {"sendsignal", "sendpop"}
        /\ UNCHANGED <<waiting, pending, stale, seq, served, aborting, consumer, reader, scan,
                       expired>>
    BY <1>4, OnceTypes DEF SendFails, InSession
  <2> QED
    BY <1>3, <2>1 DEF Popping
<1>5. CASE ScanAbort
  <2>1. /\ Slot \in Calls /\ InSession(Slot) /\ Slot \in expired
        /\ producer = "scan" /\ Finish(Slot, "error") /\ writer' = Slot
        /\ producer' \in {"scanpop", "scansignal"}
        /\ UNCHANGED <<waiting, pending, stale, seq, served, aborting, consumer, reader, scan,
                       expired>>
    BY <1>5, SlotFacts
  <2> QED
    BY <1>3, <2>1 DEF Popping
<1>6. CASE AbortSignal
  <2>1. /\ UNCHANGED <<outcome, waiting, pending, stale, seq, served, aborting, consumer, reader,
                       writer, scan, expired>>
        /\ writer \in Calls /\ Signal(writer)
        /\ \/ producer = "sendsignal" /\ producer' = "sendpop"
           \/ producer = "scansignal" /\ producer' = "scanpop"
    BY <1>6, OnceTypes DEF AbortSignal
  <2>2. signals[writer] > 0
    BY <2>1 DEF OnceInv, HandInv, Popping
  <2>3. /\ \A d \in Calls : Accepted(d)' <=> Accepted(d)
        /\ \A d \in Calls : signals'[d] > 0 <=> signals[d] > 0
        /\ \A d \in Calls : signals'[d] = 0 <=> signals[d] = 0
        /\ WokenInv'
    BY <2>1, <2>2, SignalFacts
  <2>4. KnownInv'
    BY <2>1, <2>3 DEF OnceInv, KnownInv, Known, InSession
  <2>5. PlaceInv'
    BY <2>1, <2>3 DEF OnceInv, PlaceInv, InSession, Popping
  <2>6. HandInv'
    BY <2>1, <2>3, OnceTypes DEF OnceInv, HandInv, Popping
  <2> QED
    BY <2>3, <2>4, <2>5, <2>6 DEF OnceInv
<1>7. CASE SendPop \/ ScanPop
  <2>1. /\ UNCHANGED <<caller, notified, outcome, signals, waiting, seq, served, aborting,
                       consumer, reader, expired>>
        /\ producer \in {"sendpop", "scanpop"} /\ producer' \in {"out", "scan"}
        /\ writer \in Calls /\ PopRpc(seq[writer]) /\ writer' = NoCall
        /\ scan'.late = scan.late
    BY <1>7, OnceTypes
       DEF SendPop, ScanPop, ProducerLeaves, IInv, TypeOK, AgentTypeOK
  <2>2. InSession(writer)
    BY DEF InSession
  <2>3. /\ IsInjective(pending') /\ ~Contains(pending', writer)
        /\ \A d \in Calls : Contains(pending', d) => Contains(pending, d)
        /\ \A d \in Calls : Contains(stale', d) => Contains(stale, d) \/ Contains(pending, d)
    BY <2>1, <2>2, PopFacts
  <2>4. \A d \in Calls : InSession(d)' => InSession(d)
    BY <2>1, <2>3, CallsAssumption DEF InSession
  <2>5. KnownInv'
    BY <2>1, <2>4 DEF OnceInv, KnownInv, Known, Accepted
  <2>6. PlaceInv'
    BY <2>1, <2>3, <2>4 DEF OnceInv, PlaceInv
  <2>7. HandInv'
    BY <2>1 DEF OnceInv, HandInv, Popping
  <2>8. WokenInv'
    BY <2>1 DEF OnceInv, WokenInv
  <2> QED
    BY <2>5, <2>6, <2>7, <2>8 DEF OnceInv
<1>8. CASE \/ TakeToken /\ waiting = <<>>
           \/ TakeStop \/ ChooseTimeout \/ CheckNot \/ ScanStart \/ ScanKeep \/ ScanCrash
           \/ ScanEnd
  <2>1. UNCHANGED <<caller, notified, outcome, signals, waiting, pending, seq, aborting,
                    served, consumer, reader, writer, expired>>
    BY <1>8 DEF TakeToken, TakeStop, ChooseTimeout, CheckNot, ScanStart, ScanKeep, ScanCrash,
                ScanEnd
  <2>2. stale' = stale \/ stale' = <<>>
    BY <1>8 DEF TakeToken, TakeStop, ChooseTimeout, CheckNot, ScanStart, ScanKeep, ScanCrash,
                ScanEnd
  <2>3. {producer, producer'} \subseteq {"choose", "check", "scan", "out"}
    BY <1>8 DEF TakeToken, TakeStop, ChooseTimeout, CheckNot, ScanStart, ScanKeep, ScanCrash,
                ScanEnd, InScan, ProducerTest, ProducerLeaves
  <2>4. scan'.late \subseteq expired
    BY <1>0, <1>8 DEF TakeToken, TakeStop, ChooseTimeout, CheckNot, ScanStart, ScanKeep,
                ScanCrash, ScanEnd, NoScan, IInv, TypeOK, AgentTypeOK
  <2> QED
    BY <2>1, <2>2, <2>3, <2>4, OnceQuiet
<1> QED
  BY <1>1, <1>2, <1>4, <1>5, <1>6, <1>7, <1>8 DEF ProducerStep

LEMMA OnceStep == IInv /\ SeqInv /\ HeldInv /\ OnceInv /\ [Next]_vars => OnceInv'
<1> SUFFICES ASSUME IInv, SeqInv, HeldInv, OnceInv, [Next]_vars PROVE OnceInv'
  OBVIOUS
<1>1. CASE UNCHANGED vars
  <2>1. scan'.late \subseteq expired
    BY <1>1 DEF vars, OnceInv, HandInv
  <2> QED
    BY <1>1, <2>1, OnceQuiet DEF vars
<1> QED
  BY <1>1, OnceCallers, OnceAgents, OnceConsumer, OnceProducer DEF Next

LEMMA InitOnceInv == Init => OnceInv
<1> SUFFICES ASSUME Init PROVE OnceInv
  OBVIOUS
<1>1. KnownInv /\ PlaceInv
  BY CallsAssumption, InjectiveEmpty DEF Init, KnownInv, Known, InSession, PlaceInv, Popping
<1>2. HandInv /\ WokenInv
  BY DEF Init, HandInv, WokenInv, Popping, NoScan
<1> QED
  BY <1>1, <1>2 DEF OnceInv

LEMMA AlwaysOnceInv == Spec => [](IInv /\ SeqInv /\ HeldInv /\ OnceInv)
<1>1. Spec => []HeldInv
  BY InitHeldInv, HeldStep, AlwaysIInv, AlwaysSeqInv, PTL DEF Spec
<1> QED
  BY <1>1, InitOnceInv, OnceStep, AlwaysIInv, AlwaysSeqInv, PTL DEF Spec

-----------------------------------------------------------------------------
(* Every step of the client is a step of RpcService, or none.              *)

ResultOf(c) == IF signals[c] = 0 THEN "none" ELSE outcome[c]
SameCall(c) == PhaseOf(c)' = PhaseOf(c) /\ ResultOf(c)' = ResultOf(c)

LEMMA PhaseFacts ==
    ASSUME NEW c \in Calls
    PROVE  /\ ~Accepted(c) => PhaseOf(c) = "idle"
           /\ caller[c] = "done" => PhaseOf(c) = "returned"
           /\ Accepted(c) /\ caller[c] # "done" =>
                 PhaseOf(c) = IF signals[c] = 0 THEN "issued" ELSE "completed"
BY DEF PhaseOf, Accepted

(* Where a call is depends on where its caller is, and on its signals.     *)
LEMMA SamePhase ==
    ASSUME NEW c \in Calls, Accepted(c)' <=> Accepted(c),
           caller'[c] = "done" <=> caller[c] = "done",
           signals'[c] = 0 <=> signals[c] = 0,
           signals[c] # 0 => outcome'[c] = outcome[c]
    PROVE  SameCall(c)
BY DEF SameCall, PhaseOf, ResultOf, Accepted

LEMMA ServiceStutters ==
    ASSUME \A c \in Calls : SameCall(c), expired' = expired
    PROVE  UNCHANGED Service!serviceVars
BY DEF SameCall, ResultOf, Service!serviceVars

(* The steps of RpcService, call by call. *)
LEMMA ServiceMoves ==
    ASSUME NEW c \in Calls, \A d \in Calls \ {c} : SameCall(d), NEW p, PhaseOf(c)' = p,
           NEW r, ResultOf(c)' = r
    PROVE  /\ [d \in Calls |-> PhaseOf(d)]' = [[d \in Calls |-> PhaseOf(d)] EXCEPT ![c] = p]
           /\ [d \in Calls |-> ResultOf(d)]' = [[d \in Calls |-> ResultOf(d)] EXCEPT ![c] = r]
BY DEF SameCall

ServiceStep == [Service!ServiceNext]_(Service!serviceVars)

LEMMA QuietServes ==
    ASSUME UNCHANGED <<caller, signals, outcome, expired>>
    PROVE  ServiceStep
<1>1. \A c \in Calls : SameCall(c)
  BY DEF SameCall, PhaseOf, ResultOf
<1> QED
  BY <1>1, ServiceStutters DEF ServiceStep

(* ManageReply or ManageError completes a call that has no outcome yet, or *)
(* replaces the outcome of a late one.                                     *)
LEMMA FinishServes ==
    ASSUME IInv, OnceInv, NEW c \in Calls, NEW o \in {"reply", "error"}, Finish(c, o),
           Accepted(c), signals[c] = 0 \/ c \in expired, expired' = expired
    PROVE  ServiceStep
<1>1. /\ \A d \in Calls : Accepted(d)' <=> Accepted(d)
      /\ \A d \in Calls : caller'[d] = "done" <=> caller[d] = "done"
      /\ \A d \in Calls : signals'[d] > 0 <=> signals[d] > 0 \/ d = c
      /\ \A d \in Calls : signals'[d] = 0 <=> signals[d] = 0 /\ d # c
      /\ \A d \in Calls : outcome'[d] = IF d = c THEN o ELSE outcome[d]
  BY FinishFacts
<1>2. \A d \in Calls \ {c} : SameCall(d)
  BY <1>1, SamePhase
<1>3. ResultOf(c)' = o
  BY <1>1 DEF ResultOf
<1>4. PhaseOf(c)' = IF caller'[c] = "done" THEN "returned" ELSE "completed"
  BY <1>1 DEF PhaseOf, Accepted
<1>5. CASE signals[c] = 0
  <2>1. caller[c] # "done"
    BY <1>5 DEF OnceInv, WokenInv
  <2>2. PhaseOf(c) = "issued" /\ PhaseOf(c)' = "completed"
    BY <1>1, <1>4, <1>5, <2>1, PhaseFacts
  <2>3. Service!Complete(c, o)
    BY <1>2, <1>3, <2>2, ServiceMoves DEF Service!Complete, ResultOf
  <2> QED
    BY <2>3 DEF ServiceStep, Service!ServiceNext
<1>6. CASE signals[c] # 0
  <2>1. PhaseOf(c) \in {"completed", "returned"} /\ PhaseOf(c)' = PhaseOf(c)
    BY <1>1, <1>4, <1>6, PhaseFacts
  <2>2. c \in expired
    BY <1>6
  <2>3. [d \in Calls |-> PhaseOf(d)]' = [d \in Calls |-> PhaseOf(d)]
    BY <1>2, <2>1 DEF SameCall
  <2>4. Service!Revise(c, o)
    BY <1>2, <1>3, <2>1, <2>2, <2>3, ServiceMoves DEF Service!Revise, ResultOf
  <2> QED
    BY <2>4 DEF ServiceStep, Service!ServiceNext
<1> QED
  BY <1>5, <1>6

(* A Signal that comes after the outcome was recorded: the call was        *)
(* completed before, unless abort_all_rpc signals it.                      *)
LEMMA SignalServes ==
    ASSUME IInv, OnceInv, NEW c \in Calls, Signal(c), Accepted(c),
           UNCHANGED <<outcome, expired>>, signals[c] > 0 \/ outcome[c] = "error"
    PROVE  ServiceStep
<1>1. /\ \A d \in Calls : Accepted(d)' <=> Accepted(d)
      /\ \A d \in Calls : caller'[d] = "done" <=> caller[d] = "done"
      /\ \A d \in Calls : signals'[d] = 0 <=> signals[d] = 0 /\ d # c
  BY SignalFacts
<1>2. \A d \in Calls \ {c} : SameCall(d)
  BY <1>1, SamePhase
<1>3. CASE signals[c] = 0
  <2>1. caller[c] # "done"
    BY <1>3 DEF OnceInv, WokenInv
  <2>2. PhaseOf(c) = "issued" /\ PhaseOf(c)' = "completed"
    <3>1. PhaseOf(c) = "issued"
      BY <1>3, <2>1, PhaseFacts
    <3>2. Accepted(c)' /\ caller'[c] # "done" /\ signals'[c] # 0
      BY <1>1, <2>1
    <3> QED
      BY <3>1, <3>2 DEF PhaseOf, Accepted
  <2>3. ResultOf(c)' = "error"
    BY <1>1, <1>3 DEF ResultOf
  <2>4. Service!Complete(c, "error")
    BY <1>2, <2>2, <2>3, ServiceMoves DEF Service!Complete, ResultOf
  <2> QED
    BY <2>4 DEF ServiceStep, Service!ServiceNext
<1>4. CASE signals[c] # 0
  <2>1. SameCall(c)
    BY <1>1, <1>4, SamePhase
  <2> QED
    BY <1>2, <2>1, ServiceStutters DEF ServiceStep
<1> QED
  BY <1>3, <1>4

LEMMA CallersServe ==
    ASSUME IInv, OnceInv, NEW c \in Calls, CallerStep(c) \/ Expire(c)
    PROVE  ServiceStep
<1> USE DEF callerRest, callerVars
<1>0. caller \in [Calls -> CallerPcs]
  BY SessionTypes
<1>1. CASE Boot(c) \/ SendToken(c) \/ Wait(c)
  <2>1. UNCHANGED <<signals, outcome, expired>>
    BY <1>1 DEF Boot, SendToken, Wait
  <2>2. \A d \in Calls : /\ Accepted(d)' <=> Accepted(d)
                         /\ caller'[d] = "done" <=> caller[d] = "done"
    BY <1>0, <1>1 DEF Boot, SendToken, Wait, Post, Accepted
  <2>3. \A d \in Calls : SameCall(d)
    BY <2>1, <2>2, SamePhase
  <2> QED
    BY <2>1, <2>3, ServiceStutters DEF ServiceStep
<1>2. CASE Enqueue(c)
  <2>1. UNCHANGED <<signals, outcome, expired>> /\ ~Accepted(c)
    BY <1>2 DEF Enqueue, Accepted
  <2>2. \A d \in Calls \ {c} : caller'[d] = caller[d]
    BY <1>0, <1>2 DEF Enqueue, Post
  <2>3. caller'[c] \in {"holding", "blocked"}
    BY <1>0, <1>2 DEF Enqueue, Post
  <2>4. \A d \in Calls \ {c} : SameCall(d)
    BY <2>1, <2>2, SamePhase DEF Accepted
  <2>5. signals[c] = 0
    <3>1. ~Known(c)
      BY <2>1 DEF OnceInv, KnownInv
    <3> QED
      BY <3>1, SessionTypes DEF Known
  <2>6. PhaseOf(c) = "idle" /\ PhaseOf(c)' = "issued"
    BY <2>1, <2>3, <2>5 DEF PhaseOf, Accepted
  <2>7. [d \in Calls |-> ResultOf(d)]' = [d \in Calls |-> ResultOf(d)]
    BY <2>1 DEF ResultOf
  <2>8. Service!Issue(c)
    BY <2>1, <2>4, <2>6, <2>7, ServiceMoves DEF Service!Issue, ResultOf
  <2> QED
    BY <2>8 DEF ServiceStep, Service!ServiceNext
<1>3. CASE Resume(c)
  <2>1. /\ UNCHANGED <<signals, outcome, expired>> /\ caller[c] = "woken"
        /\ caller' = [caller EXCEPT ![c] = "done"]
    BY <1>3 DEF Resume
  <2>2. \A d \in Calls \ {c} : SameCall(d)
    BY <1>0, <2>1, SamePhase DEF Accepted
  <2>3. signals[c] # 0
    BY <2>1 DEF OnceInv, WokenInv
  <2>4. PhaseOf(c) = "completed" /\ PhaseOf(c)' = "returned"
    BY <1>0, <2>1, <2>3 DEF PhaseOf
  <2>5. [d \in Calls |-> ResultOf(d)]' = [d \in Calls |-> ResultOf(d)]
    BY <2>1 DEF ResultOf
  <2>6. Service!Return(c)
    BY <2>1, <2>2, <2>4, <2>5, ServiceMoves DEF Service!Return, ResultOf
  <2> QED
    BY <2>6 DEF ServiceStep, Service!ServiceNext
<1>4. CASE Expire(c)
  <2>1. /\ UNCHANGED <<caller, signals, outcome>> /\ Accepted(c) /\ signals[c] = 0
        /\ expired' = expired \cup {c}
    BY <1>4 DEF Expire
  <2>2. caller[c] # "done"
    BY <2>1 DEF OnceInv, WokenInv
  <2>3. PhaseOf(c) = "issued"
    BY <2>1, <2>2, PhaseFacts
  <2>4. /\ [d \in Calls |-> ResultOf(d)]' = [d \in Calls |-> ResultOf(d)]
        /\ [d \in Calls |-> PhaseOf(d)]' = [d \in Calls |-> PhaseOf(d)]
    BY <2>1 DEF ResultOf, PhaseOf
  <2>5. Service!Miss(c)
    BY <2>1, <2>3, <2>4 DEF Service!Miss, ResultOf
  <2> QED
    BY <2>5 DEF ServiceStep, Service!ServiceNext
<1> QED
  BY <1>1, <1>2, <1>3, <1>4 DEF CallerStep

LEMMA AgentsServe ==
    ASSUME IInv, OnceInv, OwnerStep \/ AgentStep
    PROVE  ServiceStep
<1> USE DEF agentRest, ownerRest, callerVars
<1>1. CASE OwnerStep \/ AbortDone \/ Reconnect
  <2>1. UNCHANGED <<caller, signals, outcome, expired>>
    BY <1>1 DEF OwnerStep, Destroy, SendStop, Joined, AbortDone, Reconnect
  <2> QED
    BY <2>1, QuietServes
<1>2. CASE AbortAll
  <2>1. /\ UNCHANGED <<caller, signals, expired>> /\ consumer = "out"
        /\ outcome' = [c \in Calls |->
                         IF Contains(pending \o waiting, c) THEN "error" ELSE outcome[c]]
    BY <1>2 DEF AbortAll, PendingAndWaiting
  <2>2. producer = "off"
    BY <2>1 DEF IInv, SessionInv
  <2>3. \A c \in Calls : Contains(pending, c) \/ Contains(waiting, c) => ~(signals[c] > 0)
    BY <2>2, SessionTypes DEF OnceInv, PlaceInv, Popping
  <2>4. \A c \in Calls : Contains(pending \o waiting, c) => signals[c] = 0
    BY <2>3, SessionTypes, ContainsConcat
  <2>5. \A c \in Calls : SameCall(c)
    BY <2>1, <2>4, SamePhase DEF Accepted
  <2> QED
    BY <2>1, <2>5, ServiceStutters DEF ServiceStep
<1>3. CASE AbortNext
  <2> DEFINE h == Head(aborting)
  <2>1. UNCHANGED <<outcome, expired>> /\ aborting # <<>> /\ Signal(h)
    BY <1>3 DEF AbortNext
  <2>2. h \in Calls /\ Contains(aborting, h)
    BY <2>1, SessionTypes, HeadTailProperties, ContainsTail
  <2> HIDE DEF h
  <2>3. Accepted(h) /\ outcome[h] = "error"
    BY <2>2 DEF OnceInv, KnownInv, Known, PlaceInv
  <2> QED
    BY <2>1, <2>2, <2>3, SignalServes
<1> QED
  BY <1>1, <1>2, <1>3 DEF AgentStep

LEMMA ConsumerServes ==
    ASSUME IInv, SeqInv, OnceInv, ConsumerStep
    PROVE  ServiceStep
<1> USE DEF consumerRest, callerVars
<1>1. ASSUME NEW c \in Calls, ReadReply(c)
      PROVE  ServiceStep
  <2>1. /\ Contains(pending, c) /\ Finish(c, "reply") /\ expired' = expired
        /\ c = writer => producer \notin {"send", "sendsignal", "sendpop"}
    BY <1>1, ReplyFacts
  <2>2. Accepted(c)
    BY <2>1 DEF OnceInv, KnownInv, Known, InSession
  <2>3. signals[c] = 0 \/ c \in expired
    BY <2>1, SessionTypes DEF OnceInv, PlaceInv, HandInv, Popping
  <2> QED
    BY <2>1, <2>2, <2>3, FinishServes
<1>2. CASE ConsumerSignal
  <2>1. /\ UNCHANGED <<outcome, expired>> /\ reader \in Calls /\ Signal(reader)
        /\ consumer = "signal"
    BY <1>2, OnceTypes DEF ConsumerSignal
  <2>2. signals[reader] > 0 /\ Accepted(reader)
    BY <2>1 DEF OnceInv, HandInv, KnownInv, Known
  <2> QED
    BY <2>1, <2>2, SignalServes
<1>3. CASE \/ Connected \/ HandshakeFails \/ BannerOk \/ BannerLate \/ ConsumerTest
           \/ LeaveRead \/ ConsumerJoin
  <2>1. UNCHANGED <<caller, signals, outcome, expired>>
    BY <1>3 DEF Connected, HandshakeFails, BannerOk, BannerLate, ConsumerTest, LeaveRead,
                ConsumerJoin
  <2> QED
    BY <2>1, QuietServes
<1> QED
  BY <1>1, <1>2, <1>3 DEF ConsumerStep

LEMMA ProducerServes ==
    ASSUME IInv, OnceInv, ProducerStep
    PROVE  ServiceStep
<1> USE DEF producerRest, callerVars
<1>1. CASE SendFails
  <2>1. writer \in Calls /\ Finish(writer, "error") /\ expired' = expired /\ producer = "send"
    BY <1>1, OnceTypes DEF SendFails
  <2>2. signals[writer] = 0 /\ Accepted(writer)
    BY <2>1 DEF OnceInv, HandInv, KnownInv, Known, InSession
  <2> QED
    BY <2>1, <2>2, FinishServes
<1>2. CASE ScanAbort
  BY <1>2, SlotFacts, FinishServes
<1>3. CASE AbortSignal
  <2>1. /\ UNCHANGED <<outcome, expired>> /\ writer \in Calls /\ Signal(writer) /\ Popping
    BY <1>3, OnceTypes DEF AbortSignal, Popping
  <2>2. signals[writer] > 0 /\ Accepted(writer)
    BY <2>1 DEF OnceInv, HandInv, KnownInv, Known
  <2> QED
    BY <2>1, <2>2, SignalServes
<1>4. CASE \/ TakeToken \/ TakeStop \/ ChooseTimeout \/ SendOk \/ SendPop \/ CheckNot
           \/ ScanStart \/ ScanKeep \/ ScanPop \/ ScanCrash \/ ScanEnd
  <2>1. UNCHANGED <<caller, signals, outcome, expired>>
    BY <1>4 DEF TakeToken, TakeStop, ChooseTimeout, SendOk, SendPop, CheckNot, ScanStart,
                ScanKeep, ScanPop, ScanCrash, ScanEnd
  <2> QED
    BY <2>1, QuietServes
<1> QED
  BY <1>1, <1>2, <1>3, <1>4 DEF ProducerStep

LEMMA StepServes == IInv /\ SeqInv /\ OnceInv /\ [Next]_vars => ServiceStep
<1>1. UNCHANGED vars => ServiceStep
  BY QuietServes DEF vars
<1> QED
  BY <1>1, CallersServe, AgentsServe, ConsumerServes, ProducerServes DEF Next

(* Whatever the drive, the connections and the schedule do: each call that *)
(* RPC() accepted is completed at most once, its caller resumes only after *)
(* that, and nothing changes its outcome any more, but for an answer or an *)
(* abort that comes to a call whose deadline has passed.                   *)
THEOREM ClientImplementsRpcService == Spec => ImplementsRpcService
<1>1. Init => Service!ServiceInit
  BY DEF Init, Service!ServiceInit, PhaseOf
<1>2. Spec => [](IInv /\ SeqInv /\ HeldInv /\ OnceInv)
  BY AlwaysOnceInv
<1>3. IInv /\ SeqInv /\ OnceInv /\ [Next]_vars => [Service!ServiceNext]_(Service!serviceVars)
  BY StepServes DEF ServiceStep
<1> QED
  BY <1>1, <1>2, <1>3, PTL DEF Spec, ImplementsRpcService, Service!ServiceSpec

-----------------------------------------------------------------------------
(* No caller sleeps for ever because its signal came before it slept.      *)

(* A signal is in the notification of the call until its caller takes it,  *)
(* and a caller sleeps only when there is none.                            *)
SignalStays ==
    \A c \in Calls :
        /\ Accepted(c) /\ signals[c] > 0 => notified[c] = 1 \/ caller[c] \in {"woken", "done"}
        /\ caller[c] = "parked" => notified[c] = 0

LEMMA SignalStaysSignal ==
    ASSUME IInv, OnceInv, SignalStays, NEW c \in Calls, Signal(c)
    PROVE  SignalStays'
<1>1. /\ \A d \in Calls : Accepted(d)' <=> Accepted(d)
      /\ \A d \in Calls : signals'[d] > 0 <=> signals[d] > 0 \/ d = c
  BY SignalFacts
<1>2. caller \in [Calls -> CallerPcs] /\ notified \in [Calls -> 0..1]
  BY SessionTypes, OnceTypes
<1>3. /\ notified'[c] = 1 \/ caller'[c] = "woken"
      /\ caller'[c] # "parked"
  BY <1>2 DEF Signal
<1>4. \A d \in Calls \ {c} : notified'[d] = notified[d] /\ caller'[d] = caller[d]
  BY <1>2 DEF Signal
<1> QED
  BY <1>1, <1>3, <1>4 DEF SignalStays

LEMMA SignalStaysFinish ==
    ASSUME IInv, OnceInv, SignalStays, NEW c \in Calls, NEW o, Finish(c, o)
    PROVE  SignalStays'
<1>1. CASE CanSignal(c)
  BY <1>1, SignalStaysSignal DEF Finish
<1>2. CASE ~CanSignal(c)
  BY <1>2 DEF Finish, SignalStays, Accepted
<1> QED
  BY <1>1, <1>2

LEMMA SignalStaysStep ==
    IInv /\ SeqInv /\ OnceInv /\ SignalStays /\ [Next]_vars => SignalStays'
<1> SUFFICES ASSUME IInv, SeqInv, OnceInv, SignalStays, [Next]_vars PROVE SignalStays'
  OBVIOUS
<1> USE DEF callerRest, callerVars, ownerRest, agentRest, consumerRest, producerRest
<1>0. /\ caller \in [Calls -> CallerPcs] /\ notified \in [Calls -> 0..1]
      /\ signals \in [Calls -> Nat]
  BY SessionTypes, OnceTypes
<1>1. ASSUME UNCHANGED <<caller, notified, signals>> PROVE SignalStays'
  BY <1>1 DEF SignalStays, Accepted
<1>2. ASSUME NEW c \in Calls, Enqueue(c) PROVE SignalStays'
  <2>1. UNCHANGED <<notified, signals>> /\ ~Accepted(c)
    BY <1>2 DEF Enqueue, Accepted
  <2>2. ~(signals[c] > 0)
    BY <2>1 DEF OnceInv, KnownInv, Known
  <2>3. /\ \A d \in Calls \ {c} : caller'[d] = caller[d]
        /\ caller'[c] # "parked"
    BY <1>0, <1>2 DEF Enqueue, Post
  <2> QED
    BY <2>1, <2>2, <2>3 DEF SignalStays, Accepted
<1>3. ASSUME NEW c \in Calls, Wait(c) PROVE SignalStays'
  <2>1. /\ \A d \in Calls \ {c} : caller'[d] = caller[d] /\ notified'[d] = notified[d]
        /\ caller'[c] = IF notified[c] = 1 THEN "woken" ELSE "parked"
        /\ notified'[c] = 0 /\ caller[c] = "holding" /\ signals' = signals
    BY <1>0, <1>3 DEF Wait
  <2>2. signals[c] > 0 => caller'[c] = "woken"
    BY <2>1 DEF SignalStays, Accepted
  <2> QED
    BY <2>1, <2>2 DEF SignalStays, Accepted
<1>4. ASSUME NEW c \in Calls, Boot(c) \/ SendToken(c) \/ Resume(c) PROVE SignalStays'
  <2>1. /\ UNCHANGED <<notified, signals>>
        /\ \A d \in Calls \ {c} : caller'[d] = caller[d]
        /\ \/ caller'[c] \in {"booting", "done"}
           \/ caller[c] = "blocked" /\ caller'[c] = "holding"
    BY <1>0, <1>4 DEF Boot, SendToken, Resume, Post
  <2> QED
    BY <2>1 DEF SignalStays, Accepted
<1>5. ASSUME NEW c \in Calls, ReadReply(c) PROVE SignalStays'
  BY <1>5, SignalStaysFinish DEF ReadReply
<1>6. CASE SendFails \/ ScanAbort
  <2>1. SendFails => writer \in Calls /\ Finish(writer, "error")
    BY OnceTypes DEF SendFails
  <2>2. ScanAbort => Slot \in Calls /\ Finish(Slot, "error")
    BY SlotFacts
  <2> QED
    BY <1>6, <2>1, <2>2, SignalStaysFinish
<1>7. CASE AbortNext \/ ConsumerSignal \/ AbortSignal
  <2>1. AbortNext => Head(aborting) \in Calls /\ Signal(Head(aborting))
    BY SessionTypes, HeadTailProperties DEF AbortNext
  <2>2. ConsumerSignal => reader \in Calls /\ Signal(reader)
    BY OnceTypes DEF ConsumerSignal
  <2>3. AbortSignal => writer \in Calls /\ Signal(writer)
    BY OnceTypes DEF AbortSignal
  <2> QED
    BY <1>7, <2>1, <2>2, <2>3, SignalStaysSignal
<1>8. CASE \/ \E c \in Calls : Expire(c)
           \/ OwnerStep \/ AbortAll \/ AbortDone \/ Reconnect
           \/ Connected \/ HandshakeFails \/ BannerOk \/ BannerLate
           \/ ConsumerTest \/ LeaveRead \/ ConsumerJoin
  BY <1>1, <1>8 DEF Expire, OwnerStep, Destroy, SendStop, Joined, AbortAll, AbortDone, Reconnect,
     Connected, HandshakeFails, BannerOk, BannerLate, ConsumerTest, LeaveRead, ConsumerJoin
<1>9. CASE \/ TakeToken \/ TakeStop \/ ChooseTimeout \/ SendOk \/ SendPop \/ CheckNot
           \/ ScanStart \/ ScanKeep \/ ScanPop \/ ScanCrash \/ ScanEnd
  BY <1>1, <1>9 DEF TakeToken, TakeStop, ChooseTimeout, SendOk, SendPop, CheckNot,
     ScanStart, ScanKeep, ScanPop, ScanCrash, ScanEnd
<1>10. CASE UNCHANGED vars
  BY <1>1, <1>10 DEF vars
<1> QED
  BY <1>2, <1>3, <1>4, <1>5, <1>6, <1>7, <1>8, <1>9, <1>10
     DEF Next, CallerStep, AgentStep, ConsumerStep, ProducerStep

(* Who sleeps in Wait() has not been signalled, and somebody still has to: *)
(* its call is in a queue, or with an agent whose Signal is suspended.     *)
SleepersAreHeld == \A c \in Calls : caller[c] = "parked" => signals[c] = 0 /\ Held(c)

(* No caller of Wait() is forgotten: neither was its signal given before   *)
(* it slept and lost, nor did every coroutine that had its call drop it.   *)
THEOREM NoSleeperIsForgotten == Spec => []SleepersAreHeld
<1>1. Init => SignalStays
  BY DEF Init, SignalStays, Accepted
<1>2. IInv /\ HeldInv /\ OnceInv /\ SignalStays => SleepersAreHeld
  <2> SUFFICES ASSUME IInv, HeldInv, OnceInv, SignalStays, NEW c \in Calls, caller[c] = "parked"
               PROVE  signals[c] = 0 /\ Held(c)
    BY DEF SleepersAreHeld
  <2>1. Accepted(c) /\ ~(signals[c] > 0)
    BY DEF SignalStays, Accepted
  <2>2. signals[c] = 0
    BY <2>1, SessionTypes
  <2> QED
    BY <2>1, <2>2 DEF HeldInv
<1> QED
  BY <1>1, <1>2, SignalStaysStep, AlwaysOnceInv, PTL DEF Spec

=============================================================================
