--------------------------- MODULE EcProxyProofs ---------------------------
(***************************************************************************)
(* Safety of EcProxy for any connections, requests, stripes and failures.  *)
(***************************************************************************)
EXTENDS EcProxy, TLAPS

(* The types of what the argument is about: the handlers, and where each   *)
(* request is; what the rawx store plays no part.                          *)
HandlerTypes ==
    /\ count \in [Conns -> Nat] /\ pc \in [Conns -> Steps]
    /\ named \in [Conns -> Reqs \cup {NoReq}] /\ names \in [Conns -> SUBSET Reqs]
    /\ ecTargets \in [Conns -> [Nums -> Reqs \cup {NoReq}]]
    /\ rawxUrl \in [Conns -> Reqs \cup {NoReq}]
    /\ at \in [Conns -> Nat]
    /\ touched \in [Conns -> SUBSET (Reqs \X Nums)]

(* The loop on the targets stays within them. *)
LoopInv ==
    \A c \in Conns : pc[c] \in {"body", "ec put", "get", "plain put"} => at[c] < K + M

(* A handler knows the chunks of its connection only; a chunk the request  *)
(* names replaces the one before.                                          *)
HandlerInv ==
    \A c \in Conns :
        /\ \A i \in Nums : ecTargets[c][i] \in names[c] \cup {NoReq}
        /\ rawxUrl[c] \in names[c] \cup {NoReq}
        /\ named[c] # NoReq => rawxUrl[c] \in {named[c], NoReq}

(* With a plain chunk, no other is touched. *)
PlainInv ==
    \A c \in Conns :
        /\ rawxUrl[c] # NoReq => touched[c] \subseteq {<<rawxUrl[c], 0>>}
        /\ pc[c] = "ec put" => rawxUrl[c] = NoReq
        /\ pc[c] = "plain put" => rawxUrl[c] # NoReq

IInv == HandlerTypes /\ LoopInv /\ HandlerInv /\ ConnectionOnly /\ PlainInv

USE DEF Steps, Self, To, Handler, Targets, RawxUrl, requestVars

LEMMA Bounds ==
    /\ K + M \in Nat /\ 0 < K + M /\ 0 \in Nums /\ MaxRequests \in Nat
    /\ \A n \in Nat : n < K + M => n \in Nums
BY BoundsAssumption DEF Nums

LEMMA InitInv == Init => IInv
<1> SUFFICES ASSUME Init PROVE IInv
  OBVIOUS
<1>1. HandlerTypes
  BY DEF Init, HandlerTypes, Reqs
<1>2. LoopInv /\ HandlerInv /\ ConnectionOnly /\ PlainInv
  BY DEF Init, LoopInv, HandlerInv, ConnectionOnly, PlainInv
<1> QED
  BY <1>1, <1>2 DEF IInv

-----------------------------------------------------------------------------
(* The headers of a request, whatever comes next. *)
LEMMA HeadersInv ==
    ASSUME IInv, NEW c \in Conns, NEW o \in Reqs \cup {NoReq}, NEW asks \in BOOLEAN,
           Headers(c, o, asks), NEW step \in {"body", "get"}, To(c, step)
    PROVE  IInv'
<1>1. PICK host \in {"first", "last", "absent"} :
        rawxUrl' = [rawxUrl EXCEPT ![c] = WithUrl(@, o, host)]
  BY DEF Headers
<1> DEFINE url == WithUrl(rawxUrl[c], o, host)
           targets == WithTargets(ecTargets[c], o)
<1>2. /\ rawxUrl[c] \in Reqs \cup {NoReq} /\ rawxUrl[c] \in names[c] \cup {NoReq}
      /\ ecTargets[c] \in [Nums -> Reqs \cup {NoReq}]
      /\ \A i \in Nums : ecTargets[c][i] \in names[c] \cup {NoReq}
  BY DEF IInv, HandlerTypes, HandlerInv
<1>3. url \in {rawxUrl[c], o, NoReq} /\ (o # NoReq => url \in {o, NoReq})
  BY DEF WithUrl
<1>4. /\ targets \in [Nums -> Reqs \cup {NoReq}]
      /\ \A i \in Nums : targets[i] \in {ecTargets[c][i], o}
  BY <1>2 DEF WithTargets
<1>5. /\ count' = [count EXCEPT ![c] = @ + 1] /\ pc' = [pc EXCEPT ![c] = step]
      /\ named' = [named EXCEPT ![c] = o]
      /\ names' = [names EXCEPT ![c] = @ \cup ({o} \ {NoReq})]
      /\ ecTargets' = [ecTargets EXCEPT ![c] = targets]
      /\ rawxUrl' = [rawxUrl EXCEPT ![c] = url]
      /\ at' = [at EXCEPT ![c] = 0] /\ touched' = [touched EXCEPT ![c] = {}]
  BY <1>1 DEF Headers
<1> HIDE DEF url, targets
<1>6. HandlerTypes'
  <2>1. count' \in [Conns -> Nat] /\ pc' \in [Conns -> Steps]
    <3>1. count \in [Conns -> Nat] /\ count' = [count EXCEPT ![c] = @ + 1]
      BY <1>5 DEF IInv, HandlerTypes
    <3>2. count[c] + 1 \in Nat
      BY <3>1
    <3>3. count' \in [Conns -> Nat]
      BY <3>1, <3>2
    <3>4. pc' \in [Conns -> Steps]
      BY <1>5 DEF IInv, HandlerTypes
    <3> QED
      BY <3>3, <3>4
  <2>2. named' \in [Conns -> Reqs \cup {NoReq}] /\ names' \in [Conns -> SUBSET Reqs]
    BY <1>5 DEF IInv, HandlerTypes
  <2>3. ecTargets' \in [Conns -> [Nums -> Reqs \cup {NoReq}]]
    BY <1>4, <1>5 DEF IInv, HandlerTypes
  <2>4. rawxUrl' \in [Conns -> Reqs \cup {NoReq}]
    BY <1>2, <1>3, <1>5 DEF IInv, HandlerTypes
  <2>5. at' \in [Conns -> Nat]
    BY <1>5 DEF IInv, HandlerTypes
  <2>6. touched' \in [Conns -> SUBSET (Reqs \X Nums)]
    <3>1. {} \in SUBSET (Reqs \X Nums) /\ touched \in [Conns -> SUBSET (Reqs \X Nums)]
      BY DEF IInv, HandlerTypes
    <3> QED
      BY <1>5, <3>1
  <2> QED
    BY <2>1, <2>2, <2>3, <2>4, <2>5, <2>6 DEF HandlerTypes
<1>7. LoopInv'
  <2>1. \A d \in Conns : at'[d] = (IF d = c THEN 0 ELSE at[d]) /\ (d # c => pc'[d] = pc[d])
    BY <1>5 DEF IInv, HandlerTypes
  <2> QED
    BY <2>1, Bounds DEF IInv, LoopInv
<1>8. HandlerInv'
  <2>1. SUFFICES ASSUME NEW d \in Conns
                 PROVE  /\ \A i \in Nums : ecTargets'[d][i] \in names'[d] \cup {NoReq}
                        /\ rawxUrl'[d] \in names'[d] \cup {NoReq}
                        /\ named'[d] # NoReq => rawxUrl'[d] \in {named'[d], NoReq}
    BY DEF HandlerInv
  <2>2. CASE d = c
    <3>1. /\ names'[c] = names[c] \cup ({o} \ {NoReq}) /\ named'[c] = o
          /\ ecTargets'[c] = targets /\ rawxUrl'[c] = url
      BY <1>5 DEF IInv, HandlerTypes
    <3> QED
      BY <1>2, <1>3, <1>4, <2>2, <3>1
  <2>3. CASE d # c
    <3>1. /\ names'[d] = names[d] /\ named'[d] = named[d]
          /\ ecTargets'[d] = ecTargets[d] /\ rawxUrl'[d] = rawxUrl[d]
      BY <1>5, <2>3 DEF IInv, HandlerTypes
    <3> QED
      BY <3>1 DEF IInv, HandlerInv
  <2> QED
    BY <2>2, <2>3
<1>9. ConnectionOnly'
  BY <1>5 DEF IInv, ConnectionOnly, HandlerTypes
<1>10. PlainInv'
  BY <1>5 DEF IInv, PlainInv, HandlerTypes
<1> QED
  BY <1>6, <1>7, <1>8, <1>9, <1>10 DEF IInv

(* A step of a request that leaves the handler alone, and touches at most  *)
(* one more chunk, which is that of the request.                           *)
RequestStep(c, step, n, more) ==
    /\ UNCHANGED requestVars
    /\ step \in Steps /\ pc' = [pc EXCEPT ![c] = step]
    /\ step \in {"body", "ec put", "get", "plain put"} => n < K + M
    /\ step = "ec put" => rawxUrl[c] = NoReq
    /\ step = "plain put" => rawxUrl[c] # NoReq
    /\ n \in Nat /\ at' = [at EXCEPT ![c] = n]
    /\ more \in SUBSET (Reqs \X Nums)
    /\ \A u \in more : u[1] \in names[c] /\ (rawxUrl[c] # NoReq => u = <<rawxUrl[c], 0>>)
    /\ \/ touched' = [touched EXCEPT ![c] = @ \cup more]
       \/ touched' = [touched EXCEPT ![c] = more]

LEMMA RequestInv ==
    ASSUME IInv, NEW c \in Conns, NEW step, NEW n, NEW more, RequestStep(c, step, n, more)
    PROVE  IInv'
<1>1. /\ \A d \in Conns \ {c} : touched'[d] = touched[d] /\ pc'[d] = pc[d] /\ at'[d] = at[d]
      /\ touched'[c] \subseteq touched[c] \cup more /\ pc'[c] = step /\ at'[c] = n
  BY DEF IInv, HandlerTypes, RequestStep
<1>2. HandlerTypes'
  <2>1. pc' \in [Conns -> Steps] /\ at' \in [Conns -> Nat]
    BY DEF IInv, HandlerTypes, RequestStep
  <2>2. touched' \in [Conns -> SUBSET (Reqs \X Nums)]
    <3>1. touched \in [Conns -> SUBSET (Reqs \X Nums)] /\ more \in SUBSET (Reqs \X Nums)
      BY DEF IInv, HandlerTypes, RequestStep
    <3>2. touched[c] \cup more \in SUBSET (Reqs \X Nums)
      BY <3>1
    <3>3. CASE touched' = [touched EXCEPT ![c] = @ \cup more]
      BY <3>1, <3>2, <3>3
    <3>4. CASE touched' = [touched EXCEPT ![c] = more]
      BY <3>1, <3>4
    <3> QED
      BY <3>3, <3>4 DEF RequestStep
  <2>3. UNCHANGED requestVars
    BY DEF RequestStep
  <2> QED
    BY <2>1, <2>2, <2>3 DEF IInv, HandlerTypes
<1>3. LoopInv'
  <2>1. SUFFICES ASSUME NEW d \in Conns, pc'[d] \in {"body", "ec put", "get", "plain put"}
                 PROVE  at'[d] < K + M
    BY DEF LoopInv
  <2>2. CASE d = c
    BY <1>1, <2>1, <2>2 DEF RequestStep
  <2>3. CASE d # c
    BY <1>1, <2>1, <2>3 DEF IInv, LoopInv
  <2> QED
    BY <2>2, <2>3
<1>4. HandlerInv'
  BY DEF IInv, HandlerInv, RequestStep
<1>5. ConnectionOnly'
  BY <1>1 DEF IInv, ConnectionOnly, RequestStep
<1>6. PlainInv'
  BY <1>1 DEF IInv, PlainInv, RequestStep
<1> QED
  BY <1>2, <1>3, <1>4, <1>5, <1>6 DEF IInv

(* The chunk a request is at. *)
LEMMA PlainChunk ==
    ASSUME IInv, NEW c \in Conns, rawxUrl[c] # NoReq
    PROVE  <<rawxUrl[c], 0>> \in Reqs \X Nums /\ rawxUrl[c] \in names[c]
BY Bounds DEF IInv, HandlerTypes, HandlerInv

LEMMA EcChunk ==
    ASSUME IInv, NEW c \in Conns, at[c] < K + M, ecTargets[c][at[c]] # NoReq
    PROVE  <<ecTargets[c][at[c]], at[c]>> \in Reqs \X Nums /\ ecTargets[c][at[c]] \in names[c]
<1>1. at[c] \in Nums
  BY Bounds DEF IInv, HandlerTypes
<1>2. ecTargets[c][at[c]] \in Reqs \cup {NoReq} /\ ecTargets[c][at[c]] \in names[c] \cup {NoReq}
  BY <1>1 DEF IInv, HandlerTypes, HandlerInv
<1> QED
  BY <1>1, <1>2

-----------------------------------------------------------------------------
LEMMA PutInv ==
    ASSUME IInv, NEW c \in Conns,
           BeginPut(c) \/ Write(c) \/ Commit(c) \/ PlainPut(c) \/ EcPut(c) \/ Disconnect(c)
    PROVE  IInv'
<1>0. at[c] \in Nat /\ at = [at EXCEPT ![c] = at[c]]
      /\ touched = [touched EXCEPT ![c] = @ \cup {}]
  BY DEF IInv, HandlerTypes
<1>1. CASE BeginPut(c)
  <2>1. PICK o \in {<<c, count[c] + 1>>, NoReq} : Headers(c, o, FALSE)
    BY <1>1 DEF BeginPut
  <2>2. o \in Reqs \cup {NoReq}
    <3>1. count[c] \in Nat /\ count[c] < MaxRequests
      BY <2>1 DEF Headers, IInv, HandlerTypes
    <3>2. count[c] + 1 \in 1 .. MaxRequests
      BY <3>1, Bounds
    <3> QED
      BY <3>2 DEF Reqs
  <2> QED
    BY <1>1, <2>1, <2>2, HeadersInv DEF BeginPut
<1>2. CASE Write(c)
  <2>1. PICK s \in {"body", "stuck"} : pc' = [pc EXCEPT ![c] = s]
    <3>1. pc = [pc EXCEPT ![c] = "body"]
      BY <1>2 DEF Write, IInv, HandlerTypes
    <3> QED
      BY <1>2, <3>1 DEF Write
  <2>2. at[c] < K + M
    BY <1>2 DEF Write, IInv, LoopInv
  <2>3. UNCHANGED <<requestVars, at, touched>>
    BY <1>2 DEF Write
  <2>9. RequestStep(c, s, at[c], {})
    BY <1>0, <2>1, <2>2, <2>3 DEF RequestStep
  <2> QED
    BY <2>9, RequestInv
<1>3. CASE Commit(c)
  <2>1. at[c] < K + M
    BY <1>3 DEF Commit, IInv, LoopInv
  <2>2. UNCHANGED <<requestVars, at, touched>>
    BY <1>3 DEF Commit
  <2>3. CASE rawxUrl[c] # NoReq
    <3>1. pc' = [pc EXCEPT ![c] = "plain put"]
      BY <1>3, <2>3 DEF Commit
    <3>9. RequestStep(c, "plain put", at[c], {})
      BY <1>0, <2>1, <2>2, <2>3, <3>1 DEF RequestStep
    <3> QED
      BY <3>9, RequestInv
  <2>4. CASE rawxUrl[c] = NoReq
    <3>1. pc' = [pc EXCEPT ![c] = "ec put"]
      BY <1>3, <2>4 DEF Commit
    <3>9. RequestStep(c, "ec put", at[c], {})
      BY <1>0, <2>1, <2>2, <2>4, <3>1 DEF RequestStep
    <3> QED
      BY <3>9, RequestInv
  <2> QED
    BY <2>3, <2>4
<1>4. CASE PlainPut(c)
  <2> DEFINE u == <<rawxUrl[c], 0>>
  <2>1. rawxUrl[c] # NoReq
    BY <1>4 DEF PlainPut, IInv, PlainInv
  <2>2. u \in Reqs \X Nums /\ u[1] \in names[c]
    BY <2>1, PlainChunk
  <2>3. /\ touched' = [touched EXCEPT ![c] = @ \cup {u}] /\ pc' = [pc EXCEPT ![c] = "idle"]
        /\ UNCHANGED <<requestVars, at>>
    BY <1>4 DEF PlainPut, StoreAt
  <2>9. RequestStep(c, "idle", at[c], {u})
    BY <1>0, <2>2, <2>3 DEF RequestStep
  <2> QED
    BY <2>9, RequestInv
<1>5. CASE EcPut(c)
  <2> DEFINE u == <<ecTargets[c][at[c]], at[c]>>
             s == IF at[c] + 1 = K + M THEN "idle" ELSE "ec put"
  <2>1. at[c] < K + M /\ rawxUrl[c] = NoReq
    BY <1>5 DEF EcPut, IInv, LoopInv, PlainInv
  <2>2. /\ at' = [at EXCEPT ![c] = at[c] + 1] /\ at'[c] = at[c] + 1
        /\ UNCHANGED requestVars
    BY <1>5 DEF EcPut, IInv, HandlerTypes
  <2>3. pc' = [pc EXCEPT ![c] = s]
    BY <1>5, <2>2 DEF EcPut
  <2>4. s \in Steps /\ at[c] + 1 \in Nat /\ (s = "ec put" => at[c] + 1 < K + M)
        /\ s \in {"idle", "ec put"}
    <3>1. at[c] + 1 \in Nat /\ (at[c] + 1 # K + M => at[c] + 1 < K + M)
      BY <1>0, <2>1, Bounds
    <3> QED
      BY <3>1
  <2>5. CASE ecTargets[c][at[c]] # NoReq /\ filled[c] > 0
    <3>1. touched' = [touched EXCEPT ![c] = @ \cup {u}]
      BY <1>5, <2>5 DEF EcPut, StoreAt
    <3>2. u \in Reqs \X Nums /\ u[1] \in names[c]
      BY <2>1, <2>5, EcChunk
    <3> HIDE DEF s
    <3>9. RequestStep(c, s, at[c] + 1, {u})
      BY <2>1, <2>2, <2>3, <2>4, <3>1, <3>2 DEF RequestStep
    <3> QED
      BY <3>9, RequestInv
  <2>6. CASE ~(ecTargets[c][at[c]] # NoReq /\ filled[c] > 0)
    <3>1. UNCHANGED touched
      BY <1>5, <2>6 DEF EcPut
    <3> HIDE DEF s
    <3>9. RequestStep(c, s, at[c] + 1, {})
      BY <1>0, <2>1, <2>2, <2>3, <2>4, <3>1 DEF RequestStep
    <3> QED
      BY <3>9, RequestInv
  <2> QED
    BY <2>5, <2>6
<1>6. CASE Disconnect(c)
  <2>1. pc' = [pc EXCEPT ![c] = "closed"] /\ UNCHANGED <<requestVars, at, touched>>
    BY <1>6 DEF Disconnect
  <2>9. RequestStep(c, "closed", at[c], {})
    BY <1>0, <2>1 DEF RequestStep
  <2> QED
    BY <2>9, RequestInv
<1> QED
  BY <1>1, <1>2, <1>3, <1>4, <1>5, <1>6

LEMMA GetInv ==
    ASSUME IInv, NEW c \in Conns, BeginGet(c) \/ PlainGet(c) \/ EcGet(c) \/ GetBreaks(c)
    PROVE  IInv'
<1>0. at[c] \in Nat /\ at = [at EXCEPT ![c] = at[c]]
      /\ touched = [touched EXCEPT ![c] = @ \cup {}]
  BY DEF IInv, HandlerTypes
<1>1. CASE BeginGet(c)
  <2>1. PICK o \in Reqs \cup {NoReq}, asks \in BOOLEAN : Headers(c, o, asks)
    BY <1>1 DEF BeginGet
  <2> QED
    BY <1>1, <2>1, HeadersInv DEF BeginGet
<1>2. CASE PlainGet(c)
  <2> DEFINE u == <<rawxUrl[c], 0>>
  <2>1. rawxUrl[c] # NoReq /\ UNCHANGED <<requestVars, at>> /\ touched' = [touched EXCEPT ![c] = {u}]
    BY <1>2 DEF PlainGet
  <2>2. u \in Reqs \X Nums /\ u[1] \in names[c]
    BY <2>1, PlainChunk
  <2>3. PICK s \in {"idle", "stuck"} : pc' = [pc EXCEPT ![c] = s]
    BY <1>2 DEF PlainGet, Deliver
  <2>4. at' = [at EXCEPT ![c] = at[c]]
    BY <1>0, <2>1
  <2>9. RequestStep(c, s, at[c], {u})
    BY <1>0, <2>1, <2>2, <2>3, <2>4 DEF RequestStep
  <2> QED
    BY <2>9, RequestInv
<1>3. CASE EcGet(c)
  <2> DEFINE u == <<ecTargets[c][at[c]], at[c]>>
  <2>1. at[c] < K + M /\ rawxUrl[c] = NoReq /\ UNCHANGED requestVars
    BY <1>3 DEF EcGet, IInv, LoopInv
  <2>2. at' = [at EXCEPT ![c] = at[c] + 1] /\ at'[c] = at[c] + 1
    BY <1>3 DEF EcGet, IInv, HandlerTypes
  <2>3. PICK s \in {"idle", "get"} :
            pc' = [pc EXCEPT ![c] = s] /\ s \in Steps /\ (s = "get" => at[c] + 1 < K + M)
    <3>1. pc' = [pc EXCEPT ![c] = IF at[c] + 1 = K + M THEN "idle" ELSE "get"]
      BY <1>3, <2>2 DEF EcGet
    <3>2. at[c] + 1 # K + M => at[c] + 1 < K + M
      BY <1>0, <2>1, Bounds
    <3> QED
      BY <3>1, <3>2
  <2>6. at[c] + 1 \in Nat
    BY <1>0
  <2>4. CASE ecTargets[c][at[c]] = NoReq
    <3>0. touched \in [Conns -> SUBSET (Reqs \X Nums)]
      BY DEF IInv, HandlerTypes
    <3>1. touched' = [touched EXCEPT ![c] = touched[c]]
      BY <1>3, <2>4 DEF EcGet
    <3>2. UNCHANGED touched
      BY <3>0, <3>1
    <3>9. RequestStep(c, s, at[c] + 1, {})
      BY <1>0, <2>1, <2>2, <2>3, <2>6, <3>2 DEF RequestStep
    <3> QED
      BY <3>9, RequestInv
  <2>5. CASE ecTargets[c][at[c]] # NoReq
    <3>1. touched' = [touched EXCEPT ![c] = @ \cup {u}]
      BY <1>3, <2>5 DEF EcGet
    <3>2. u \in Reqs \X Nums /\ u[1] \in names[c]
      BY <2>1, <2>5, EcChunk
    <3>9. RequestStep(c, s, at[c] + 1, {u})
      BY <1>0, <2>1, <2>2, <2>3, <2>6, <3>1, <3>2 DEF RequestStep
    <3> QED
      BY <3>9, RequestInv
  <2> QED
    BY <2>4, <2>5
<1>4. CASE GetBreaks(c)
  <2>1. pc' = [pc EXCEPT ![c] = "broken"] /\ UNCHANGED <<requestVars, at, touched>>
    BY <1>4 DEF GetBreaks
  <2>9. RequestStep(c, "broken", at[c], {})
    BY <1>0, <2>1 DEF RequestStep
  <2> QED
    BY <2>9, RequestInv
<1> QED
  BY <1>1, <1>2, <1>3, <1>4

LEMMA StepInv == IInv /\ [Next]_vars => IInv'
<1> SUFFICES ASSUME IInv, [Next]_vars PROVE IInv'
  OBVIOUS
<1>1. CASE \E c \in Conns : Step(c)
  BY <1>1, PutInv, GetInv DEF Step
<1>2. CASE UNCHANGED vars
  <2> USE <1>2 DEF vars
  <2>1. HandlerTypes'
    BY DEF IInv, HandlerTypes
  <2>2. LoopInv' /\ HandlerInv' /\ ConnectionOnly' /\ PlainInv'
    BY DEF IInv, LoopInv, HandlerInv, ConnectionOnly, PlainInv
  <2> QED
    BY <2>1, <2>2 DEF IInv
<1> QED
  BY <1>1, <1>2 DEF Next

-----------------------------------------------------------------------------
(* The handlers of the connections are apart: a request has only chunks    *)
(* stored or fetched that its own connection named.                        *)
THEOREM ConnectionsApart == Spec => []ConnectionOnly
<1>1. IInv => ConnectionOnly
  BY DEF IInv
<1> QED
  BY <1>1, InitInv, StepInv, PTL DEF Spec

(* A request on a plain chunk that names it gets that one, although the    *)
(* handler keeps the chunks of the requests before.                        *)
THEOREM PlainChunkIsOwn == Spec => []PlainIsOwn
<1>1. IInv => PlainIsOwn
  BY DEF IInv, PlainInv, HandlerInv, PlainIsOwn
<1> QED
  BY <1>1, InitInv, StepInv, PTL DEF Spec

-----------------------------------------------------------------------------
(* What an upload holds stays within the chunk, and a Range that was asked  *)
(* for is kept: so a request that finds no room or no Range is one of those *)
(* that StopHasCause names.  While the process runs, nobody has stopped.    *)
StopInv ==
    /\ filled \in [Conns -> 0 .. ChunkSize]
    /\ range \in [Conns -> BOOLEAN] /\ asked \in [Conns -> BOOLEAN]
    /\ \A c \in Conns : asked[c] => range[c]
    /\ StopHasCause

LEMMA StopInit == Init => StopInv
BY BoundsAssumption DEF Init, StopInv, StopHasCause

(* The headers of a request keep the Range with what asked for it. *)
LEMMA HeadersStop ==
    ASSUME IInv, StopInv, Runs, NEW c \in Conns, NEW o, NEW asks \in BOOLEAN,
           Headers(c, o, asks), NEW step \in {"body", "get"}, To(c, step)
    PROVE  StopInv'
<1>1. /\ range' = [range EXCEPT ![c] = @ \/ asks] /\ asked' = [asked EXCEPT ![c] = @ \/ asks]
      /\ filled' = [filled EXCEPT ![c] = 0]
  BY DEF Headers, WithRange
<1>2. range' \in [Conns -> BOOLEAN] /\ asked' \in [Conns -> BOOLEAN]
      /\ \A d \in Conns : asked'[d] => range'[d]
  BY <1>1 DEF StopInv
<1>3. filled' \in [Conns -> 0 .. ChunkSize]
  BY <1>1, BoundsAssumption DEF StopInv
<1>4. StopHasCause'
  <2>1. \A d \in Conns : pc'[d] # "stuck"
    BY DEF Runs, IInv, HandlerTypes
  <2> QED
    BY <2>1 DEF StopHasCause
<1> QED
  BY <1>2, <1>3, <1>4 DEF StopInv

(* The other steps: nobody else stops, and the one that does has a cause. *)
LEMMA OthersStop ==
    ASSUME IInv, StopInv, Runs, NEW c \in Conns, UNCHANGED <<range, asked>>,
           NEW n \in 0 .. ChunkSize, filled' = [filled EXCEPT ![c] = n],
           NEW step, To(c, step),
           step = "stuck" => \/ n = ChunkSize \/ ~range[c]
                             \/ \E u \in touched'[c] : chunks'[u].part = "empty"
    PROVE  StopInv'
<1>1. filled' \in [Conns -> 0 .. ChunkSize] /\ filled'[c] = n
  BY DEF StopInv
<1>2. \A d \in Conns : pc'[d] = "stuck" => d = c /\ step = "stuck"
  BY DEF Runs, IInv, HandlerTypes
<1>3. ~range[c] => ~asked'[c]
  BY DEF StopInv
<1>4. StopHasCause'
  BY <1>1, <1>2, <1>3 DEF StopHasCause
<1> QED
  BY <1>1, <1>4 DEF StopInv

LEMMA StopStep == IInv /\ StopInv /\ [Next]_vars => StopInv'
<1> SUFFICES ASSUME IInv, StopInv, [Next]_vars PROVE StopInv'
  OBVIOUS
<1>1. ASSUME Runs, NEW c \in Conns, Step(c)
      PROVE  StopInv'
  <2>1. filled[c] \in 0 .. ChunkSize /\ filled = [filled EXCEPT ![c] = filled[c]]
    BY DEF StopInv
  <2>2. CASE BeginPut(c)
    BY <1>1, <2>2, HeadersStop DEF BeginPut
  <2>3. CASE BeginGet(c)
    BY <1>1, <2>3, HeadersStop DEF BeginGet
  <2>4. CASE Write(c)
    <3>1. pc = [pc EXCEPT ![c] = "body"] /\ UNCHANGED <<range, asked>>
      BY <2>4 DEF Write, IInv, HandlerTypes
    <3>2. CASE filled[c] < ChunkSize
      <4>1. filled[c] + 1 \in 0 .. ChunkSize
        BY <2>1, <3>2, BoundsAssumption
      <4>2. To(c, "body") /\ filled' = [filled EXCEPT ![c] = filled[c] + 1]
        BY <2>4, <3>1, <3>2 DEF Write
      <4> QED
        BY <1>1, <3>1, <4>1, <4>2, OthersStop
    <3>3. CASE ~(filled[c] < ChunkSize)
      <4>1. filled[c] = ChunkSize
        BY <2>1, <3>3, BoundsAssumption
      <4>2. To(c, "stuck") /\ filled' = filled
        BY <2>4, <3>3 DEF Write
      <4> QED
        BY <1>1, <2>1, <3>1, <4>1, <4>2, OthersStop
    <3> QED
      BY <3>2, <3>3
  <2>5. CASE Commit(c) \/ PlainPut(c) \/ EcPut(c) \/ Disconnect(c)
    <3>1. PICK step : To(c, step) /\ step # "stuck"
      BY <2>5 DEF Commit, PlainPut, EcPut, Disconnect
    <3>2. UNCHANGED <<range, asked, filled>>
      BY <2>5 DEF Commit, PlainPut, EcPut, Disconnect
    <3> QED
      BY <1>1, <2>1, <3>1, <3>2, OthersStop
  <2>6. CASE PlainGet(c)
    <3>1. touched'[c] = {<<rawxUrl[c], 0>>} /\ UNCHANGED <<range, asked, filled, chunks>>
      BY <2>6 DEF PlainGet, IInv, HandlerTypes
    <3>2. PICK step : To(c, step) /\ (step = "stuck" =>
              ~range[c] \/ chunks[<<rawxUrl[c], 0>>].part = "empty")
      BY <2>6 DEF PlainGet, Deliver
    <3> QED
      BY <1>1, <2>1, <3>1, <3>2, OthersStop
  <2>7. CASE EcGet(c) \/ GetBreaks(c)
    <3>1. UNCHANGED <<range, asked, filled>>
      BY <2>7 DEF EcGet, GetBreaks
    <3>2. PICK step : To(c, step) /\ step # "stuck"
      BY <2>7 DEF EcGet, GetBreaks
    <3> QED
      BY <1>1, <2>1, <3>1, <3>2, OthersStop
  <2> QED
    BY <1>1, <2>2, <2>3, <2>4, <2>5, <2>6, <2>7 DEF Step
<1>2. CASE UNCHANGED vars
  BY <1>2 DEF vars, StopInv, StopHasCause
<1> QED
  BY <1>1, <1>2 DEF Next

(* Unless a rawx breaks a reply, the one thread of the process stops only  *)
(* at a body larger than the chunk, a GET of a connection that never gave  *)
(* a Range, or a chunk without a piece, whoever else is served             *)
(* (router/blob.cpp, and the loops on IsEof).                              *)
THEOREM StopsForACause == Spec => []StopHasCause
<1>1. StopInv => StopHasCause
  BY DEF StopInv
<1> QED
  BY <1>1, InitInv, StepInv, StopInit, StopStep, PTL DEF Spec
=============================================================================
