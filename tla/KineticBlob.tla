----------------------------- MODULE KineticBlob -----------------------------
(***************************************************************************)
(* The blobs of src/oio/blob/kinetic/coro/blob.cpp: one name kept as keys  *)
(* of Kinetic drives.  An upload cuts its data into blocks, one key each,  *)
(* and ends with a manifest; a download and a removal list the keys of the *)
(* name, page after page on every drive at once, then get or delete them   *)
(* through a window of concurrent RPC.                                     *)
(*                                                                         *)
(* The RPC are those of RpcService: each ends with a reply or an error and *)
(* the calls made on a drive reach it in their order.  An action is what a *)
(* coroutine does up to the next RPC it sends or waits for.                *)
(***************************************************************************)
EXTENDS Naturals, FiniteSets, SequencesExt

CONSTANTS
    Uploads, Downloads, Removals,   \* the operations on the name
    NDrives,                        \* the drives are 1 .. NDrives
    MaxBlocks,                      \* bound: the full blocks of an upload's data
    MetaBlocks,                     \* bound: the full blocks of its attributes
    MaxReturned,                    \* the keys of a page, 200 in the code
    GetWindow, DeleteWindow,        \* concurrent RPC, 4 and 8 in the code
    MaxOps,                         \* bound: the operations under way or done
    MaxFailures                     \* bound: the RPC that fail

ASSUME SizesAssumption ==
    /\ NDrives \in Nat \ {0} /\ MaxReturned \in Nat \ {0}
    /\ GetWindow \in Nat \ {0} /\ DeleteWindow \in Nat \ {0}
    /\ MaxBlocks \in Nat /\ MetaBlocks \in Nat
    /\ MaxOps \in Nat /\ MaxFailures \in Nat
ASSUME OpsAssumption ==
    Uploads \cap Downloads = {} /\ Uploads \cap Removals = {} /\ Downloads \cap Removals = {}

VARIABLES
    store,      \* what each drive keeps under each key
    inbox,      \* the requests on their way to each drive
    step,       \* where each operation is
    target,     \* the drives of each upload
    calls,      \* the PUT, GET and DELETE of each operation
    page,       \* the outcome of its last listing of each drive
    ready,      \* readyv: the drives that may still have keys
    marker,     \* markers: the last key listed
    items,      \* what was listed: pairs of a drive and a key
    plan,       \* the keys to get or delete, in order
    waited,     \* how many of them were waited for
    buffered,   \* the buffer of the upload is not empty
    blocks,     \* how many blocks of data it has sent
    meta,       \* how many blocks of attributes
    got,        \* what the caller of a download received
    verdict,    \* what Commit or Abort answered
    steady,     \* history: what did not change since the operation began
    troubled,   \* history: an RPC of the operation failed
    failures    \* how many RPC failed

driveVars == <<store, inbox>>
listVars == <<page, ready, marker, items>>
rollVars == <<plan, waited, got>>
putVars == <<target, buffered, blocks, meta>>
history == <<steady, troubled, failures>>
vars == <<driveVars, step, calls, listVars, rollVars, putVars, verdict, history>>

Drives == 1 .. NDrives
Ops == Uploads \cup Downloads \cup Removals
Listers == Downloads \cup Removals

-----------------------------------------------------------------------------
(* The keys of the name in the order of the drives: "-#", then two per     *)
(* sequence number, for a block that is full and for one that is not.      *)
Start == 0
Manifest == 1
Block(seq, full) == IF full THEN 2 * seq + 2 ELSE 2 * seq + 3
NumberOf(key) == (key - 2) \div 2
Keys == Manifest .. Block(MaxBlocks + MetaBlocks + 1, FALSE)

(* A value is named by the upload that put it and the rank of that PUT. *)
Nothing == <<>>
Values == {<<u, n>> : u \in Uploads, n \in 1 .. MaxBlocks + MetaBlocks + 2}

(* The elements of a finite set in a strict order: n - 1 are before the n-th. *)
Sorted(S, before(_, _)) ==
    [n \in 1 .. Cardinality(S) |->
        CHOOSE k \in S : Cardinality({j \in S : before(j, k)}) = n - 1]

Places == {p \in Drives \X Keys : store[p[1]][p[2]] # Nothing}

Outcomes == {"none", "ok", "missing", "error"}
Call == [drive : Drives, key : Keys, out : Outcomes, val : Values \cup {Nothing}]
Request == [op : Ops, n : Nat, kind : {"check", "list", "put", "get", "delete"},
            key : Keys \cup {Start}, val : Values \cup {Nothing}]
Page == [st : {"none", "asked", "ok", "error"}, keys : Seq(Keys)]
NoPage == [d \in Drives |-> [st |-> "none", keys |-> <<>>]]

TypeOK ==
    /\ store \in [Drives -> [Keys -> Values \cup {Nothing}]]
    /\ inbox \in [Drives -> Seq(Request)]
    /\ step \in [Ops -> {"init", "list", "prepared", "commit", "wait", "roll", "done"}]
    /\ target \in [Uploads -> SUBSET Drives]
    /\ calls \in [Ops -> Seq(Call)]
    /\ page \in [Ops -> [Drives -> Page]]
    /\ ready \in [Ops -> SUBSET Drives]
    /\ marker \in [Listers -> [Drives -> Keys \cup {Start}]]
    /\ items \in [Listers -> Seq(Drives \X Keys)]
    /\ plan \in [Ops -> Seq(Drives \X Keys)]
    /\ waited \in [Ops -> Nat] /\ \A x \in Ops : waited[x] \in 0 .. Len(plan[x])
    /\ buffered \in [Uploads -> BOOLEAN]
    /\ blocks \in [Uploads -> 0 .. MaxBlocks + 1]
    /\ meta \in [Uploads -> 0 .. MetaBlocks]
    /\ got \in [Downloads -> Seq(Values \cup {Nothing})]
    /\ verdict \in [Ops -> {"none", "ok", "aborted"}]
    /\ steady \in [Listers -> SUBSET (Drives \X Keys)]
    /\ troubled \in [Ops -> BOOLEAN]
    /\ failures \in 0 .. MaxFailures

Init ==
    /\ store = [d \in Drives |-> [k \in Keys |-> Nothing]]
    /\ inbox = [d \in Drives |-> <<>>]
    /\ step = [x \in Ops |-> "init"]
    /\ target \in [Uploads -> (SUBSET Drives) \ {{}}]
    /\ calls = [x \in Ops |-> <<>>]
    /\ page = [x \in Ops |-> NoPage]
    /\ ready = [x \in Ops |-> {}]
    /\ marker = [x \in Listers |-> [d \in Drives |-> Start]]
    /\ items = [x \in Listers |-> <<>>]
    /\ plan = [x \in Ops |-> <<>>]
    /\ waited = [x \in Ops |-> 0]
    /\ buffered = [u \in Uploads |-> FALSE]
    /\ blocks = [u \in Uploads |-> 0]
    /\ meta = [u \in Uploads |-> 0]
    /\ got = [x \in Downloads |-> <<>>]
    /\ verdict = [x \in Ops |-> "none"]
    /\ steady = [x \in Listers |-> {}]
    /\ troubled = [x \in Ops |-> FALSE]
    /\ failures = 0

-----------------------------------------------------------------------------
(* Sending an RPC: the client queues it for its drive. *)

Go(x, pc) == step' = [step EXCEPT ![x] = pc]
MayBegin(x) == step[x] = "init" /\ Cardinality({y \in Ops : step[y] # "init"}) < MaxOps

(* Mutant of Post: the last call is sent first. *)
PostFirst(x, d, n, kind, key, val) ==
    inbox' = [inbox EXCEPT ![d] =
        <<[op |-> x, n |-> n, kind |-> kind, key |-> key, val |-> val]>> \o @]

Post(x, d, n, kind, key, val) ==
    inbox' = [inbox EXCEPT ![d] =
        Append(@, [op |-> x, n |-> n, kind |-> kind, key |-> key, val |-> val])]

(* Start() of a PendingPut, PendingDelete or PendingGet. *)
StartCall(x, d, kind, key, val) ==
    /\ calls' = [calls EXCEPT ![x] =
            Append(@, [drive |-> d, key |-> key, out |-> "none", val |-> Nothing])]
    /\ Post(x, d, Len(calls[x]) + 1, kind, key, val)

(* One listing per drive of a round, in order; the round is over when each  *)
(* has an outcome (RoundOverForAll, a mutant, waits for the other drives).  *)
Asked(x) == {d \in ready[x] : page[x][d].st # "none"}
NextToAsk(x, d) == d \in ready[x] \ Asked(x) /\ \A e \in ready[x] \ Asked(x) : d <= e
RoundOverForAll(x) == \A d \in Drives : page[x][d].st \in {"ok", "error"}
RoundOver(x) == \A d \in ready[x] : page[x][d].st \in {"ok", "error"}

AskDrive(x, d, kind, key) ==
    /\ step[x] = "list"
    /\ NextToAsk(x, d)
    /\ page' = [page EXCEPT ![x][d].st = "asked"]
    /\ Post(x, d, 0, kind, key, Nothing)

-----------------------------------------------------------------------------
(* Upload::Prepare *)

BeginCheck(u) ==
    /\ MayBegin(u)
    /\ Go(u, "list")
    /\ page' = [page EXCEPT ![u] = NoPage]
    /\ ready' = [ready EXCEPT ![u] = target[u]]
    /\ UNCHANGED <<driveVars, calls, marker, items, rollVars, putVars, verdict, history>>

(* The manifest is looked for on each target. *)
Check(u) ==
    /\ \E d \in Drives : AskDrive(u, d, "check", Manifest)
    /\ UNCHANGED <<store, step, calls, ready, marker, items, rollVars, putVars, verdict, history>>

(* The loop that sends the checks never moves from the first exchange: with *)
(* two targets the others are not sent, and count as failed.                *)
ChecksFail(u) == Cardinality(target[u]) > 1 \/ \E d \in target[u] : page[u][d].st = "error"

(* NetworkError, Already (the step stays Init), or prepared. *)
CheckDone(u) ==
    /\ step[u] = "list" /\ RoundOver(u)
    /\ Go(u, IF ChecksFail(u) \/ \E d \in target[u] : page[u][d].keys # <<>>
             THEN "init" ELSE "prepared")
    /\ page' = [page EXCEPT ![u] = NoPage]
    /\ UNCHANGED <<driveVars, calls, ready, marker, items, rollVars, putVars, verdict, history>>

-----------------------------------------------------------------------------
(* Upload::Write, Commit, Abort *)

(* clients[next_client % clients.size()] *)
ClientOf(u) ==
    Sorted(target[u], <)[(Len(calls[u]) % Cardinality(target[u])) + 1]

TriggerUpload(u, key) == StartCall(u, ClientOf(u), "put", key, <<u, Len(calls[u]) + 1>>)

(* Bytes are given and do not fill the buffer. *)
WritePart(u) ==
    /\ step[u] = "prepared" /\ ~buffered[u]
    /\ buffered' = [buffered EXCEPT ![u] = TRUE]
    /\ UNCHANGED <<driveVars, step, calls, listVars, rollVars, target, blocks, meta, verdict,
                   history>>

(* Bytes are given that fill it. *)
WriteBlock(u) ==
    /\ step[u] = "prepared" /\ blocks[u] < MaxBlocks
    /\ TriggerUpload(u, Block(Len(calls[u]), TRUE))
    /\ blocks' = [blocks EXCEPT ![u] = @ + 1]
    /\ buffered' = [buffered EXCEPT ![u] = FALSE]
    /\ UNCHANGED <<store, step, listVars, rollVars, target, meta, verdict, history>>

(* Commit: "Flush the internal buffer". *)
Flush(u) ==
    /\ step[u] = "prepared"
    /\ Go(u, "commit")
    /\ IF buffered[u]
       THEN /\ TriggerUpload(u, Block(Len(calls[u]), FALSE))
            /\ blocks' = [blocks EXCEPT ![u] = @ + 1]
       ELSE UNCHANGED <<inbox, calls, blocks>>
    /\ buffered' = [buffered EXCEPT ![u] = FALSE]
    /\ UNCHANGED <<store, listVars, rollVars, target, meta, verdict, history>>

(* The attributes go through Write: what fills a block of them gets the key *)
(* of a block of data.                                                      *)
WriteMeta(u) ==
    /\ step[u] = "commit" /\ meta[u] < MetaBlocks
    /\ TriggerUpload(u, Block(Len(calls[u]), TRUE))
    /\ meta' = [meta EXCEPT ![u] = @ + 1]
    /\ UNCHANGED <<store, step, listVars, rollVars, target, buffered, blocks, verdict, history>>

PutManifest(u) ==
    /\ step[u] = "commit"
    /\ TriggerUpload(u, Manifest)
    /\ Go(u, "wait")
    /\ UNCHANGED <<store, listVars, rollVars, putVars, verdict, history>>

(* Every PUT is waited for, none is looked at. *)
CommitDone(u) ==
    /\ step[u] = "wait"
    /\ \A n \in DOMAIN calls[u] : calls[u][n].out # "none"
    /\ Go(u, "done")
    /\ verdict' = [verdict EXCEPT ![u] = "ok"]
    /\ UNCHANGED <<driveVars, calls, listVars, rollVars, putVars, history>>

(* Abort: the keys of the PUT that were sent are deleted. *)
AbortUpload(u) ==
    /\ step[u] = "prepared"
    /\ Go(u, "roll")
    /\ plan' = [plan EXCEPT ![u] = [n \in DOMAIN calls[u] |-> <<calls[u][n].drive, calls[u][n].key>>]]
    /\ verdict' = [verdict EXCEPT ![u] = "aborted"]
    /\ UNCHANGED <<driveVars, calls, listVars, waited, got, putVars, history>>

-----------------------------------------------------------------------------
(* KineticListing, by Download::Prepare and Removal::Prepare *)

BeginListing(x) ==
    /\ MayBegin(x)
    /\ Go(x, "list")
    /\ page' = [page EXCEPT ![x] = NoPage]
    /\ ready' = [ready EXCEPT ![x] = Drives]
    /\ marker' = [marker EXCEPT ![x] = [d \in Drives |-> Start]]
    /\ items' = [items EXCEPT ![x] = <<>>]
    /\ steady' = [steady EXCEPT ![x] = Places]
    /\ troubled' = [troubled EXCEPT ![x] = FALSE]
    /\ UNCHANGED <<driveVars, calls, rollVars, putVars, verdict, failures>>

AskPage(x) ==
    /\ \E d \in Drives : AskDrive(x, d, "list", marker[x][d])
    /\ UNCHANGED <<store, step, calls, ready, marker, items, rollVars, putVars, verdict, history>>

Pages(x) == FlattenSeq([d \in Drives |->
    [i \in DOMAIN page[x][d].keys |-> <<d, page[x][d].keys[i]>>]])

(* Mutant of Turn: one page per drive. *)
TurnOnce(x) ==
    /\ ready' = [ready EXCEPT ![x] = {}]
    /\ items' = [items EXCEPT ![x] = @ \o Pages(x)]
    /\ UNCHANGED marker

(* A drive whose page is empty, or failed, is not asked again. *)
Turn(x) ==
    /\ ready' = [ready EXCEPT ![x] = {d \in @ : page[x][d].keys # <<>>}]
    /\ marker' = [marker EXCEPT ![x] =
            [d \in Drives |-> IF page[x][d].keys = <<>> THEN @[d] ELSE Last(page[x][d].keys)]]
    /\ items' = [items EXCEPT ![x] = @ \o Pages(x)]

TurnPage(x) ==
    /\ step[x] = "list" /\ ready[x] # {} /\ RoundOver(x)
    /\ Turn(x)
    /\ page' = [page EXCEPT ![x] = NoPage]
    /\ UNCHANGED <<driveVars, step, calls, rollVars, putVars, verdict, history>>

(* Mutant of InOrder: keys are fetched as they were listed. *)
AsListed(list) == SelectSeq(list, LAMBDA p : p[2] # Manifest)

(* The blocks by sequence number; the list was built from its end. *)
InOrder(list) ==
    LET chunks == {i \in DOMAIN list : list[i][2] # Manifest}
        before(i, j) == \/ NumberOf(list[i][2]) < NumberOf(list[j][2])
                        \/ NumberOf(list[i][2]) = NumberOf(list[j][2]) /\ j < i
        order == Sorted(chunks, before)
    IN  [n \in DOMAIN order |-> list[order[n]]]

(* NotFound, or the keys to fetch or delete are known; the listing is freed. *)
ListingDone(x) ==
    /\ step[x] = "list" /\ ready[x] = {}
    /\ IF items[x] = <<>>
       THEN Go(x, "init") /\ UNCHANGED plan
       ELSE /\ Go(x, "prepared")
            /\ plan' = [plan EXCEPT ![x] =
                    IF x \in Downloads THEN InOrder(items[x]) ELSE items[x]]
    /\ marker' = [marker EXCEPT ![x] = [d \in Drives |-> Start]]
    /\ items' = [items EXCEPT ![x] = <<>>]
    /\ UNCHANGED <<driveVars, calls, page, ready, waited, got, putVars, verdict, history>>

-----------------------------------------------------------------------------
(* _rolling_delete, and the window of Download::Read *)

Earlier(x) == IF x \in Uploads THEN Len(plan[x]) ELSE 0    \* the PUT of an upload
Started(x) == Len(calls[x]) - Earlier(x)
Window(x) == IF x \in Downloads THEN GetWindow ELSE DeleteWindow
Allowed(x) ==
    IF waited[x] + Window(x) < Len(plan[x]) THEN waited[x] + Window(x) ELSE Len(plan[x])

StartNext(x) ==
    /\ step[x] = "roll"
    /\ Started(x) < Allowed(x)
    /\ LET p == plan[x][Started(x) + 1]
       IN  StartCall(x, p[1], IF x \in Downloads THEN "get" ELSE "delete", p[2], Nothing)
    /\ UNCHANGED <<store, step, listVars, rollVars, putVars, verdict, history>>

(* The oldest call of the window has its outcome. *)
Answered(x) ==
    /\ step[x] = "roll"
    /\ Started(x) = Allowed(x) /\ waited[x] < Len(plan[x])
    /\ calls[x][Earlier(x) + waited[x] + 1].out # "none"
    /\ waited' = [waited EXCEPT ![x] = @ + 1]

DeleteAnswered(x) ==
    /\ Answered(x)
    /\ UNCHANGED <<driveVars, step, calls, listVars, plan, got, putVars, verdict, history>>

(* Mutant of RollDone: it stops once every DELETE is sent. *)
RollSent(x) ==
    /\ step[x] = "roll" /\ Started(x) = Len(plan[x])
    /\ Go(x, "done")
    /\ UNCHANGED <<driveVars, calls, listVars, rollVars, putVars, verdict, history>>

RollDone(x) ==
    /\ step[x] = "roll" /\ waited[x] = Len(plan[x])
    /\ Go(x, "done")
    /\ UNCHANGED <<driveVars, calls, listVars, rollVars, putVars, verdict, history>>

(* Removal::Commit; its errors are not looked at either. *)
CommitRemoval(x) ==
    /\ step[x] = "prepared"
    /\ Go(x, "roll")
    /\ verdict' = [verdict EXCEPT ![x] = "ok"]
    /\ UNCHANGED <<driveVars, calls, listVars, rollVars, putVars, history>>

AbortRemoval(x) ==
    /\ step[x] = "prepared"
    /\ Go(x, "done")
    /\ verdict' = [verdict EXCEPT ![x] = "aborted"]
    /\ UNCHANGED <<driveVars, calls, listVars, rollVars, putVars, history>>

(* Download::Read is called, or IsEof says that there is no need to. *)
BeginRead(x) ==
    /\ step[x] = "prepared"
    /\ Go(x, IF waited[x] = Len(plan[x]) THEN "done" ELSE "roll")
    /\ UNCHANGED <<driveVars, calls, listVars, rollVars, putVars, verdict, history>>

(* Read returns what the exchange holds: nothing, after an error. *)
ReadAnswered(x) ==
    /\ Answered(x)
    /\ got' = [got EXCEPT ![x] = Append(@, calls[x][waited[x] + 1].val)]
    /\ Go(x, "prepared")
    /\ UNCHANGED <<driveVars, calls, listVars, plan, putVars, verdict, history>>

-----------------------------------------------------------------------------
(* The drives *)

(* The keys after a marker, as many as a page holds. *)
KeysAfter(d, key) ==
    LET after == Sorted({k \in Keys : k > key /\ store[d][k] # Nothing}, <)
    IN  SubSeq(after, 1, IF Len(after) < MaxReturned THEN Len(after) ELSE MaxReturned)

(* What the drive keeps after a request, and who sees a change. *)
Execute(d, r) ==
    IF r.kind \in {"put", "delete"}
    THEN /\ store' = [store EXCEPT ![d][r.key] = r.val]
         /\ steady' = [x \in Listers |-> steady[x] \ {<<d, r.key>>}]
    ELSE UNCHANGED <<store, steady>>

(* The outcome of a call, unless it has one already. *)
Settle(r, out, val) ==
    IF calls[r.op][r.n].out = "none"
    THEN calls' = [calls EXCEPT ![r.op][r.n] = [@ EXCEPT !.out = out, !.val = val]]
    ELSE UNCHANGED calls

Listed(d, r) ==
    IF r.kind = "list" THEN KeysAfter(d, r.key)
    ELSE IF store[d][r.key] = Nothing THEN <<>> ELSE <<r.key>>

Reply(d, r) ==
    IF r.n = 0
    THEN /\ page' = [page EXCEPT ![r.op][d] = [st |-> "ok", keys |-> Listed(d, r)]]
         /\ UNCHANGED calls
    ELSE /\ LET old == store[d][r.key]
            IN  IF r.kind \in {"get", "delete"} /\ old = Nothing
                THEN Settle(r, "missing", Nothing)
                ELSE Settle(r, "ok", IF r.kind = "get" THEN old ELSE Nothing)
         /\ UNCHANGED page

Fail(d, r) ==
    /\ failures < MaxFailures
    /\ failures' = failures + 1
    /\ troubled' = [troubled EXCEPT ![r.op] = TRUE]
    /\ IF r.n = 0
       THEN page' = [page EXCEPT ![r.op][d].st = "error"] /\ UNCHANGED calls
       ELSE Settle(r, "error", Nothing) /\ UNCHANGED page

(* A drive serves the calls of a client in their order. *)
Serve(d) ==
    /\ inbox[d] # <<>>
    /\ inbox' = [inbox EXCEPT ![d] = Tail(@)]
    /\ Execute(d, Head(inbox[d]))
    /\ Reply(d, Head(inbox[d]))
    /\ UNCHANGED <<step, ready, marker, items, rollVars, putVars, verdict, troubled, failures>>

(* The connection is lost: the call fails, whether the drive served it or not. *)
Lose(d) ==
    /\ inbox[d] # <<>>
    /\ inbox' = [inbox EXCEPT ![d] = Tail(@)]
    /\ Execute(d, Head(inbox[d])) \/ UNCHANGED <<store, steady>>
    /\ Fail(d, Head(inbox[d]))
    /\ UNCHANGED <<step, ready, marker, items, rollVars, putVars, verdict>>

(* A call times out, and the drive serves it later. *)
TimeOut(d) ==
    /\ \E i \in DOMAIN inbox[d] :
          LET r == inbox[d][i]
          IN  r.kind \in {"put", "delete"} /\ calls[r.op][r.n].out = "none" /\ Fail(d, r)
    /\ UNCHANGED <<driveVars, step, ready, marker, items, rollVars, putVars, verdict, steady>>

-----------------------------------------------------------------------------
UploadStep(u) ==
    \/ BeginCheck(u) \/ Check(u) \/ CheckDone(u)
    \/ WritePart(u) \/ WriteBlock(u)
    \/ Flush(u) \/ WriteMeta(u) \/ PutManifest(u) \/ CommitDone(u)
    \/ AbortUpload(u) \/ StartNext(u) \/ DeleteAnswered(u) \/ RollDone(u)

ListingStep(x) == BeginListing(x) \/ AskPage(x) \/ TurnPage(x) \/ ListingDone(x)

DownloadStep(x) ==
    ListingStep(x) \/ BeginRead(x) \/ StartNext(x) \/ ReadAnswered(x)

RemovalStep(x) ==
    \/ ListingStep(x) \/ CommitRemoval(x) \/ AbortRemoval(x)
    \/ StartNext(x) \/ DeleteAnswered(x) \/ RollDone(x)

DriveStep(d) == Serve(d) \/ Lose(d) \/ TimeOut(d)

Next ==
    \/ \E u \in Uploads : UploadStep(u)
    \/ \E x \in Downloads : DownloadStep(x)
    \/ \E x \in Removals : RemovalStep(x)
    \/ \E d \in Drives : DriveStep(d)

Spec == Init /\ [][Next]_vars

(* What goes on without a caller: RpcService ends every call, and coroutines *)
(* that are ready run.  Nobody is obliged to write, to read or to commit.    *)
Fairness ==
    /\ \A u \in Uploads : WF_vars(\/ Check(u) \/ CheckDone(u)
                                  \/ (step[u] = "commit" /\ (WriteMeta(u) \/ PutManifest(u)))
                                  \/ CommitDone(u) \/ StartNext(u) \/ DeleteAnswered(u)
                                  \/ RollDone(u))
    /\ \A x \in Downloads : WF_vars(\/ AskPage(x) \/ TurnPage(x) \/ ListingDone(x)
                                    \/ StartNext(x) \/ ReadAnswered(x))
    /\ \A x \in Removals : WF_vars(\/ AskPage(x) \/ TurnPage(x) \/ ListingDone(x)
                                   \/ StartNext(x) \/ DeleteAnswered(x) \/ RollDone(x))
    /\ \A d \in Drives : WF_vars(Serve(d))

FairSpec == Spec /\ Fairness

-----------------------------------------------------------------------------
(* Properties *)

(* A removal whose RPC all succeed deletes what was there when it began and  *)
(* was not written since, from every drive, whatever the size of a page, and *)
(* though uploads and other removals go on meanwhile (lines 244-295, 372-386). *)
RemovalIsComplete ==
    \A x \in Removals : step[x] = "done" /\ verdict[x] = "ok" /\ ~troubled[x] => steady[x] = {}

(* An upload that was aborted leaves nothing behind, not even a PUT that     *)
(* nobody waited for, as long as no RPC fails (lines 557-572).               *)
NoOrphan ==
    \A u \in Uploads : step[u] = "done" /\ verdict[u] = "aborted" /\ ~troubled[u] =>
        /\ \A p \in Places : store[p[1]][p[2]][1] # u
        /\ \A d \in Drives : \A i \in DOMAIN inbox[d] : inbox[d][i].op # u

(* A download without failure delivers the blocks that were there when its   *)
(* Prepare began and did not change: each once, by sequence number, however  *)
(* the pages, the drives and the window order the replies (lines 87-169).    *)
DeliversWhatStays ==
    \A x \in Downloads : step[x] = "done" /\ ~troubled[x] =>
        /\ \A p \in steady[x] : p[2] # Manifest =>
              \E n \in DOMAIN plan[x] :
                 /\ {m \in DOMAIN plan[x] : plan[x][m] = p} = {n}
                 /\ got[x][n] = store[p[1]][p[2]]
        /\ \A m, n \in DOMAIN plan[x] : m < n => NumberOf(plan[x][m][2]) <= NumberOf(plan[x][n][2])

(* The manifest of an upload comes after all its blocks: whoever sees it     *)
(* cannot see blocks arrive later, unless an RPC failed (lines 528-555).     *)
(* That rests on Prepare: it accepts one target only, and a drive keeps the  *)
(* order of its requests.                                                    *)
ManifestIsLast ==
    \A d \in Drives : store[d][Manifest] # Nothing =>
        LET u == store[d][Manifest][1]
        IN  ~troubled[u] /\ verdict[u] # "aborted" =>
                \A e \in Drives : \A i \in DOMAIN inbox[e] :
                    inbox[e][i].op = u => inbox[e][i].kind # "put"

(* Prepare, Commit, Abort and Read return: pages come to an end although     *)
(* keys are written meanwhile, and each slot of a window is waited for.      *)
OperationsEnd ==
    \A x \in Ops : step[x] \in {"list", "commit", "wait", "roll"} ~> step[x] \in {"init", "prepared", "done"}

=============================================================================
