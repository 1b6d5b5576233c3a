# A formal model of the OpenIO data backends

This directory holds TLA+ specifications of the program in `../src`, the TLC
configurations that check them on small instances, and TLAPS proofs of the
results that hold for every instance. All paths below are relative to the
repository (`src/src/...` is the library, `src/bin/...` the daemons).

## 1. The system

The repository is a C++ library of *blob* backends (`Upload`, `Download`,
`Removal`, `Listing`, each a small state machine *Init → Prepared → Done*,
`src/src/oio/api/blob.hpp`), a client of the OpenIO SDS services, and daemons
that serve blobs over HTTP. Everything runs in the coroutines of libmill, in a
single thread: a coroutine runs until it reaches a channel operation, a wait on
a socket, `msleep`, `yield` or `mill_go`, and other coroutines run then. There
is no preemption, so every hazard of interleaving sits at one of these points.

| component | state | operations | interacts with |
|---|---|---|---|
| Kinetic RPC client (`oio/blob/kinetic/coro/CoroutineClient.*`, `PendingExchange.*`) | queue of calls to send, vector of calls sent, sequence numbers, channel to the producer, socket, `running_` | `RPC`, `Wait`, destructor, three agents (`run_agents`, consumer, producer) | the blob operations (callers), the drive (TCP) |
| Kinetic messages (`RPC.*`) | one command and its reply | build, write, read, parse | the client |
| Kinetic blobs (`coro/blob.*`) | a window of exchanges, buffers, counters | upload, download, removal, listing | one or several RPC clients |
| sockets (`utils/net.*`) | a descriptor | connect, read, read_exactly, send, poll | everything on the network |
| HTTP client (`utils/http.*`) | request and reply state machines, a parse buffer | WriteHeaders, Write, FinishRequest, ReadHeaders, ReadBody, Skip, Abort; `Call::Run` | sockets |
| HTTP blobs (`blob/http`), rawx (`blob/rawx`) | a request, a reply, the `SocketMap` with one socket per host | upload, download, removal over HTTP | HTTP client, each other through the shared socket |
| local blobs (`blob/local`) | a descriptor, a `.pending` file | blob operations on files | the file system, other processes |
| memory blobs (`blob/mem`) | a shared map of items | blob operations on a map | other operations on the map |
| erasure coding (`blob/ec`) | a buffer of one chunk, the fragments fetched, the targets | upload, download over K+M rawx; a removal that does nothing | rawx blobs, liberasurecode |
| router (`blob/router`) | a buffer of one chunk, the targets of its handler | upload and download of a plain chunk on one rawx or of a stripe; a removal that does nothing | ec, rawx |
| HTTP daemon (`bin/MillDaemon.*`) | one parser and one operation per connection, an accept loop | PUT, GET, DELETE callbacks; start, join | a blob backend, its clients |
| servers (`bin/rawx-server`, `ec-proxy`, `kinetic-proxy`) | one handler per connection: attributes, or targets and a range, kept over its requests | `SetUrl`, `SetHeader`, the backend factories | the daemon, the router, the local or Kinetic blobs |
| kinetic-listener (`bin/kinetic-listener.cpp`) | map of drives, one monitoring loop per drive | announces, GETLOG, registration | RPC client, the conscience |
| SDS client (`oio/sds`, the calls of `content` it makes, `api/common`) | an object's description, its set of chunks | upload, download: Prepare, Create, Show | the metadata proxy, rawx blobs |
| metadata clients (`oio/container`, `directory`, the rest of `content`) | a cache of properties | one request of the proxy per method | HTTP client |
| checksums, parsers, factories (`utils/utils.*`, `*.rl`) | a digest, a lexer | update, final | all |

### Hard behaviours, and what makes each component correct

* **RPC client.** Callers, producer, consumer and supervisor share two queues
  and a bounded channel, each may be suspended half way through a completion,
  sessions are lost and restarted with the sequence numbers back at 1, the
  drive answers out of order, late or never, deadlines race replies. Correct:
  no call is dropped, no wakeup is lost, a reply reaches the call it answers,
  a call is completed once, sessions do not overlap, every call and the
  destructor return.
* **Kinetic blobs.** Windows of concurrent RPC with partial failures. Correct:
  what is downloaded is what was uploaded or an error; a committed upload has
  all its parts; nothing is freed while an RPC still points to it.
* **HTTP client and blobs, rawx.** Operations on one host share a socket that
  outlives them, with replies that come late, to requests that were given up.
  Correct: an operation reads its own reply, OK means done, and nothing is done
  before `Commit`.
* **EC, router.** Targets fail one by one; a mask of missing fragments, ranges
  and buffers with edges; loops that wait without yielding. Correct would be: any
  K valid fragments give the chunk back, a range is that range, the loops end.
  The code gives no chunk back, and the models say so.
* **Local and memory blobs.** Concurrent uploads, downloads and removals of a
  name, crashes between the temporary file and the rename, an unlink that fails.
  Correct: atomic publication, one winner, no residue that the code could remove,
  and whatever residue is left is never published.
* **Daemon and its handlers.** Requests in sequence on a connection with aborts
  in between, shutdown, a handler per connection that nobody resets. Correct:
  every request is answered, a refused one stores nothing, what a handler keeps
  never reaches another connection.
* **SDS client.** A chain of requests each of which may fail, or be answered
  after it was given up. Correct: OK means registered, an error means nothing
  was registered, a registered content comes back as it was. (OK does not mean
  it, and the end of what comes back may be missing: see section 3.)

The hazards are listed line by line in `PROJECT.json`, with the properties
that cover each of them.

## 2. The modules

| module | role |
|---|---|
| `RpcService` | abstract specification: what `ClientInterface::RPC` and `Sync::Wait` promise |
| `KineticClient` | the detailed model of the RPC client, and its properties |
| `MCKineticClient` | its instances for TLC |
| `KineticClientProofs` | TLAPS: types and isolation of the sessions, wakeups, sequence numbers, ownership of the calls, refinement of `RpcService`, callers asleep |
| `KineticBlob`, `MCKineticBlob` | the blobs over Kinetic drives: windows of RPC, listings, and their instances |
| `KineticBlobProofs` | TLAPS: types, order of the drives' requests, aborts, completeness of listings, downloads |
| `BlobStore` | abstract specification: what the transactions on a blob promise |
| `LocalBlob` | blobs as files of a docroot |
| `MemBlob` | blobs as items of a shared map |
| `MCBlobStore` | the instances of both backends, each a disjoint half of the behaviours |
| `BlobStoreProofs` | TLAPS: the pending file as a lock, atomic publication, whole downloads; ownership of a prepared item; both refine `BlobStore` |
| `BlobDaemon`, `MCBlobDaemon` | the connections of the HTTP daemon, with the handlers of the rawx-server, over a `BlobStore` |
| `BlobDaemonProofs` | TLAPS: replies, refusals, the name held by a body, attributes |
| `HttpConnection` | a socket of the `SocketMap`, and the server at its other end |
| `HttpBlob`, `MCHttpBlob` | the operations on rawx chunks that share it |
| `HttpBlobProofs` | TLAPS: types, replies taken by their own operation, OK means done, nothing before a commit |
| `EcBlob`, `MCEcBlob` | a chunk on K+M targets: upload, abort, download |
| `EcBlobProofs` | TLAPS: types, no stripe is decoded |
| `SdsClient`, `MCSdsClient` | uploads and downloads of a content, the metadata proxy |
| `SdsClientProofs` | TLAPS: types, what comes back of a file of one chunk, lengths and errors |
| `EcProxy`, `MCEcProxy` | the ec-proxy: its handlers over the router |
| `EcProxyProofs` | TLAPS: connections and plain chunks stay apart |

`MC*` modules only give TLC its constants and symmetries. `LocalBlob` and
`MemBlob` implement `BlobStore`, which `BlobDaemon` is written over; `HttpBlob`
extends `HttpConnection`; `EcBlob`, `EcProxy` and `SdsClient` take of a rawx
what `HttpBlob` shows: it stores, refuses or fails, and the client is told.

### KineticClient

An action is the code between two points where a coroutine may be suspended.
libmill suspends the running coroutine on *every* channel operation, even one
that completes at once, and on `mill_go`, which runs the new coroutine first;
so `abort_rpc` (record, signal, pop) is two actions, and `RPC()` is `Boot` and
`Enqueue`. Each coroutine has a program counter named after the place it waits
at:

| variable | code | values |
|---|---|---|
| `caller[c]` | the coroutine that issued call `c` | `booting` (in `Boot`), `blocked` (in `chs(to_agent_)`), `holding` (has its `Sync`), `parked` (in `Wait`), `woken`, `done` |
| `owner` | the destructor | `stopping` (in `chs`), `joining` (in `chr(stopped_)`) |
| `agents` | `run_agents` | `join` (waits for the consumer), `abort` (in `abort_all_rpc`), `sleep` |
| `consumer` | `run_agent_consumer` | `connect`, `banner`, `test` (`while (running_)`), `read`, `signal` (suspended in `Signal`), `join` (waits for the producer), `out` |
| `producer` | `run_agent_producer` | `choose`, `check`, `send`, `sendsignal`/`sendpop` (in `abort_rpc` of `start_rpc`), `scan`, `scansignal`/`scanpop` (in `abort_rpc` of `abort_stalled_rpc`), `out` |

`waiting`, `pending`, `seq`, `nextSeq`, `running` are the fields of the same
name. `tokens` and `stopToken` are the content of `to_agent_`: the messages
carry no data, so a counter is enough, and STOP is always the last one because
the owner may only destroy the client when no call is under way. `stale` is
what the freed end of the vector `pending_` holds while a range-for runs over
it: an `erase` leaves a moved-from pointer there (`NoCall`) or, for the last
element, a destroyed one that may still read as it was. Reading such a slot is
undefined behaviour, modelled by a choice between `ScanCrash` and going on with
the value. `served` is the set of requests the drive received on this
connection, each with its sequence number; it may answer any of them, in any
order and any number of times (`ReadReply`), or none. `expired` holds the calls
whose deadline has passed.

Abstracted: the content of messages, partial frames (an unreadable frame is
`LeaveRead`), the time itself (`Expire` makes a deadline pass, `ChooseTimeout`,
`CheckNot` and `ScanStart` are the outcomes of comparing clocks), the priority
and cluster fields. libmill is outside the repository; `Room` and `CanSignal`
are its channels as this code uses them.

### KineticBlob

One name on `NDrives` drives, over what `RpcService` promises: every call ends
with a reply or an error, and a coroutine that waits for it goes on. An action
is what a coroutine does up to the next RPC it sends or waits for, because
sending one may suspend it (`Boot`, a full channel).

| variable | code |
|---|---|
| `store`, `inbox` | the drives (external): what they keep, the requests on their way |
| `step[x]` | `step` of the operation, with the place inside the method: `list` (`KineticListing::Prepare` or the checks of `Upload::Prepare`), `commit`, `wait` (`Commit` after the manifest), `roll` (`_rolling_delete`, or a `Read`) |
| `page`, `ready`, `marker`, `items` | the exchanges of a round, `readyv`, `markers`, `items` of `KineticListing` |
| `calls[x]` | `ops` of an upload, and the exchanges of the deletes or gets that were started |
| `plan[x]`, `waited[x]` | the vector given to `_rolling_delete` and its index `i`; for a download, the sorted queue `waiting` and how many were read |
| `buffered`, `blocks`, `meta` | the buffer of an upload (empty or not), the blocks it has sent |
| `got`, `verdict` | what the caller received |
| `steady`, `troubled` | history: the keys nobody wrote since a listing began; an RPC failed |

A key `name-<seq>-<size>` is a number, ordered as the drive orders the keys
(`Block`, `NumberOf`; sequence numbers stay below 10, where the order of the
strings is that of the numbers): the size only tells full blocks from others.
`inbox` is a queue because the RPC client has one queue and one producer, and
the drive is taken to serve a connection in order; a call may be lost, before
or after it was served (`Lose`), and a PUT or DELETE may be served after its
deadline (`TimeOut`). The 200 keys of a page and the 4 and 8 RPC of a window
are constants, small in the instances. `Sorted` orders a finite set by counting
the elements before each one: the keys of a page, the clients of an upload, the
chunks of a download by sequence number.

Not modelled: an operation destroyed half way (its exchanges are freed while
the client points to them), names that extend one another (the range of `a`
holds the keys of `a-0`), and the `yield` of `Write`.

### BlobStore, LocalBlob, MemBlob

`BlobStore` is the contract of the transactions of `api/blob.hpp` on one name:
`Publish` (a `Commit` that succeeds) only where there is no blob, `GiveUp`,
`Open`, `Remove`. `LocalBlob` has an action per system call, since a daemon may
be killed between any two and other processes may serve the volume: `final`
and `temp` are the directory entries of the blob and of its `.pending` file,
holding the upload whose file they name; `written[u]` is what is in that file;
`dirs` counts the directories that exist between the docroot and the file.
`up[u]` is the place in the upload (`retry` and `mkdir` are in `createParent`,
`stat` between the exclusive open and the check of the blob, `reject` and
`discard` before an unlink). `unlinkTempAndReset` logs an unlink that fails
("Leaving pending file", `local/blob.cpp:288-293`) and goes on: `UnlinkTemp`,
under the fault `unlink`, leaves the entry, and `kept` (history) remembers
whose it is. A download is its descriptor, offset and buffer
(`stale`: the buffer kept its allocated size after a failed read). Attributes
and modes are left out; an `fsync` is in neither the code nor the model, so
`crash` is that of the process, not of the machine. `MemBlob` has an action per
method, because the code has no point of suspension inside one.

### BlobDaemon

One action per callback of the parser. `conn[c]` is where it is (`skip` after a
callback returned 1, `garbage` when the bytes of a refused body come next),
`onComplete` is the callback installed for the end of the message, `object` the
step of the operation. The parser is a git submodule that is not in the tree:
`AfterMessage` and the completion of a skipped message are its documented
behaviour. The backend is `BlobStore` with the lock a prepared upload holds
(`pending`); a connection that dies leaves it taken, as `LocalBlob` and
`MemBlob` do. The handler is that of the rawx-server: `xattrs[c]` is the last
request that gave it an attribute, `attribute` (history) what each upload was
given at its headers. `Header` is also enabled in the body, for the trailers:
what they bring is for the uploads that follow.

### HttpConnection, HttpBlob

All operations on chunks of one host get the same socket (`SocketElement`), so
the model is of one host: `bopen` and `fresh` (the timer of `MAX_DELAY`) are
the element, `link` the socket (`half`: the peer left and nobody noticed,
`dead`: it is known), `wire` the replies nobody read yet. `open` and `todo` are
the server's: the request it is receiving and those it has to answer;
`executed` is what it carried out. The server is any rawx: it answers complete
requests in order, at any time, may refuse one early, leave, or carry out a
request whose client has gone (`orphans`), and answers 400 to bytes that do not
begin a request. `ServerRefuses` is a rawx that answers an error before the end
of a request and reads the body all the same; when that ends it says no more
(`HearsEnd`). `ServerSkipsBody` is the rawx-server of the repository:
`_on_headers_complete_UPLOAD` answers the error and returns 1, on which the
parser skips the body and completes the message at once
(`MillDaemon.cpp:57-88`); `_on_message_complete_UPLOAD` then calls a `Commit`
that was not prepared and answers a second time (116-141), except where the
refusal was Forbidden; the body that follows is garbage to it. The two replies
leave at one time, before the body is heard, whatever part of it is on its way.

`step[o]` is the place between two waits of an operation: `built` (socket and
builder), `continue` (`ReadHeaders(100)` of a removal), `prepared`, `final` (its
request is complete), `rest` (the body of the reply, or `Skip`), `reading`.
`buf[o]` is `Reply::ctx.buffer`: one read may bring more than it parses.
`status`, `heard` (history: whose replies it parsed) and `verdict` are the rest.
A reply is two units, its headers and what follows. `ReadLateOrBroken` relates
the 8 s of a read to the 5 s of the timer: a read that ran into its deadline
leaves the timer expired unless somebody asked for the socket meanwhile.

`clean` and `mixed` are history: which operations met, on their connection,
another one, a message cut by its deadline, what a `Skip` left unread, or the
second reply to an upload the rawx-server had refused (`HttpUpload::Commit`
keeps the socket after the first, `http/blob.cpp:248-256`, and whoever asks for
it within 5 s may read the second). There
replies and requests do mix, and nothing in the code keeps them apart: the
properties are about the others. Bytes, header fields and checksums are left
out.

### EcBlob

One chunk on the targets `0 .. K+M-1`. `frag[i]` is what target `i` stores (a
valid fragment, something else, nothing); `Store`, `Remove` and `Fetch` are one
turn of the loops of `Commit`, `Abort` and `Prepare`, on one target.

`EcDownload::Prepare` builds the `RawxCommand` of each target with its url only
(`ec/blob.cpp:185-196`), so that its range is (0, 0), and `RawxDownload::Read`
cuts the data of every reply to that size (`rawx/blob.cpp:250-253`): `Received`
is 0 for a reply of any length. `is_invalid_fragment` then reads a header from
the memory `malloc` gave for it, and may find anything there (`MayPass`), so
that the download may even count K fragments; `liberasurecode_decode`, which is
not in the repository and is taken to want fragments with a header at least,
refuses them (`Decodes`). The download fails after the last target, with valid
fragments on all of them. What the code does beyond that point (`Read`,
`IsEof`, the range asked of the chunk) is not reached, and is not modelled.
`Dropped` is the mask of `create_frags_array_set`, with the operators the code
has.

A download begins with a test of the first word of an array just
allocated (`ec/blob.cpp:160`): `refused` is the outcome where it happens to be
null. `stuck` is a loop that neither ends nor yields, after which nothing of
the process runs (`Runs`): a `Write` beyond the chunk, or a `RawxDownload::Read`
whose connection breaks in the middle of a body (`FetchBreaks`). `Lose` is the
world outside.

### SdsClient

`targets[u]` is `ContentInfo::targets`, a set ordered by chunk number, as a
function of the number; `NumberOf` and `Insert` are `put_content`, `Updated` is
what `UpdateTarget` does with the number it forgets. The proxy proposes one new
chunk at position 0 per `Prepare`, which is what the client expects of it,
keeps the last list registered (`content`) and may fail. `unread[u]` are the
replies that came after their call gave up: the next call on the connection
reads the oldest, and those behind it that have come by then are lost with the
buffer of its `Reply` (`http.hpp:184-191`, `Received`). `clean` (history) are
the operations whose requests were all served. A rawx that serves a chunk gives
a beginning of it (`Begun`): `HttpDownload::IsEof` (`http/blob.cpp:329-331`) is
true once the reply is parsed, while slices of it may still be queued, and
`RawxDownload::Read` (`rawx/blob.cpp:246-248`) stops there, so that the last
chunks of a chunked reply are lost when one read brings them together. `cut`
(history) are the downloads that lost something this way. A connection that
breaks in the middle of a body leaves the download in that loop (`FetchBreaks`,
`stuck`); the other operations go on in the model, which allows more than the
code, where the loop may not yield. `Outcomes` are those of a call: not sent
(the only one judged an error), refused or unanswered, served. The asserts on
the connection to a rawx in `sds.cpp` are not modelled, nor is the content of
properties.

### EcProxy

The handler of a connection (`RouterHandler`) collects `ecTargets`, `rawxUrl`
and `range` from the headers, and nobody resets them; `Headers` is all the
`SetHeader` of a request. A PUT names fresh chunks of its own or none, a GET
those of any PUT; a chunk is a PUT and a number, so that `touched[c]` tells
whose chunks a request went to. `SetUrl` has no effect that the rest reads.
`EcPut` and `EcGet` are one target each; a rawx stores or fails. `EcGet` asks
each target and gets an empty range of its fragment, as in `EcBlob`: the GET of
a stripe is answered an error, after it has asked all the targets. `GetBreaks`
is a rawx that breaks the connection in the middle of a reply, on which
`RawxDownload::Read` does not end (`broken`). `GetRemoval` returns NULL
(`ec-proxy.cpp:129`): there is no DELETE. The erasure code itself is in
`EcBlob`; the parser and the replies are in `BlobDaemon`.

## 3. What TLC checks

| run | instance | checks | result |
|---|---|---|---|
| `client_safe` | 2 calls, channel of 1, deadlines pass, silent drive | `TypeOK`, `NoLostWakeup`, `EveryCallHeld`, `AnsweredByOwnRequest`, `SessionIsolated`, `ImplementsRpcService` | holds |
| `client_live` | 2 calls, channel of 3, deadlines pass | `EveryCallCompletes`, `EveryCallReturns`, `DestructorReturns` | holds |
| `client_skip` | 2 calls, channel of 2, deadlines pass | `NoLateCallSkipped` | violated: finding |
| `kinetic_safe` | 3 of: 2 uploads, a download, a removal; 2 drives, pages and windows of 2 | `RemovalIsComplete`, `NoOrphan`, `DeliversWhatStays`, `ManifestIsLast` | holds |
| `kinetic_live` | 2 of: an upload with large attributes, a download, a removal; an RPC fails | `OperationsEnd` | holds |
| `blobs_safe` | files: 3 uploads, a download, a removal, 2 missing directories, crashes, failing renames, unlinks and reads; map: 3 uploads, 2 downloads, 2 removals | of the files `OneWriter`, `NothingToOverwrite`, `WholeWhenPublished`, `NoResidue`, `OrphanBlocksTheName`, `DownloadReadsOneBlob`, `RefusalIsProgress`, `ImplementsBlobStore`; of the map `PreparedOwnsItem`, `MapImplementsBlobStore` | holds |
| `daemon_safe` | 2 connections of 2 requests, every fault | `EveryRequestIsAnswered`, `RefusedIsNotStored`, `BodyNeedsUpload`, `AttributesAreLocal` | holds |
| `http_safe` | 2 operations of any kinds on one host | `OwnReply`, `OkIsDone`, `CommitDecides` | holds |
| `ec_safe` | 3 data and 2 parity fragments, an upload, a download | `TypeOK`, `NeverDecodes` | holds |
| `sds_safe` | 2 uploads and a download of a content, files of up to 2 chunks | `RoundTrip`, `RegistersLength`, `ErrorIsUnregistered` | holds |
| `sds_registered` | an upload of a file of one chunk | `OkIsRegistered` | violated: finding |
| `proxy_safe` | 2 connections of 2 requests, 2+2 fragments, one failure | `ConnectionOnly`, `PlainIsOwn`, `StopHasCause` | holds |

Each `TypeOK` documents the types of a module; the runs check those of the two
modules where it says something of the code: in `KineticClient` the slots that
a scan reads, in `EcBlob` the loops on the targets.

**Bounds (client).** The calls are the only bound besides the capacity of the
channel: there is no bound on reconnections, duplicates or sequence numbers
(the latter restart with the session and a call draws at most two per session).
Two calls are enough for every race of one call with the queue, the vector or
the scan of another, and an erase in front of another call; the proofs cover
any number. A channel of one message blocks the second caller, which 64
messages would do at the 65th; a channel of three holds both tokens and STOP,
which is the normal case of the code. Deadlock checking is off: a client nobody
calls, or one that was destroyed, stops.

**Bounds (Kinetic blobs).** `MaxOps` operations are under way or done; three
are what it takes for a listing to run between an upload that is ending and one
that is aborted or removed. `MaxBlocks`, `MetaBlocks` and the manifest give a
name three keys, so a page of two is full, a window of two is refilled, and a
drive may end in an earlier round than another. `MaxFailures` is 0 where the
properties exclude operations with a failure and 1 in `kinetic_live`. An
operation that a caller does not finish stays: deadlock checking is off.

**Bounds (blobs, daemon).** Three uploads are what it takes for one to hold the
pending file, one to be refused and one to have published; the operations may
be prepared again after a refusal, so their number does not bound the attempts.
Two missing directories are the least that make `createParent` fail. Two pieces
show a truncated blob. `ReadErrors` bounds the failed reads of a download.
`MemBlob` implements `BlobStore` as its uploads and removals see it: what a
download may read is below. Two requests per connection show what is kept from
one to the next, two connections race for the name; `MaxRequests` and `MaxBody`
are the bounds. The proofs cover any number of all of these. Deadlock checking
is off: operations and connections end, and nobody has to begin another.

**Bounds (HTTP blobs).** Two operations are what a reply needs to be taken by
the wrong one: the first is given up, the second gets the socket. `Chunks` = 1
write tells a request with a body from one without. The timer, the lateness and
the departure of the server are not bounded. Deadlock checking is off: the
operations are done.

**Bounds (erasure code).** K = 3 and M = 2 make the mask of missing fragments
differ from every simpler reading of it (the other end, the last two parity
fragments, none missing), so that a download would decode with all fragments and
with some missing ones if it received them, as the mutant shows that reads
the whole fragment. Deadlock checking is off: operations end, and
`stuck` is for ever.

**Bounds (SDS client, ec-proxy).** Two uploads of a content race with a
download; a file has up to two chunks of two pieces, so that the last one may be
full or not. On the ec-proxy two connections would mix what they keep, and the
second request of each finds what the first left; with K = 2 and M = 2 a stripe
can be made of fragments of two requests. `MaxFailures` bounds the rawx that
fail. Deadlock checking is off, as above.

**Fairness.** Only the client and the Kinetic blobs have liveness properties:
the others wait for peers, who owe nothing, or spin, which is stated as safety
(`stuck`, `StopHasCause`). For the client, the scheduler runs every ready
coroutine (`WF` of each side's steps). Every wait on the network has a
deadline, and deadlines are not modelled as a clock: `HandshakeFails`,
`SendFails` and `ChooseTimeout` are those that expire, `Expire` is fair because
clocks advance. The read loop is not required to end unless the producer has
shut the socket down or `running_` is false (`MustLeave`), and the drive is
never required to answer. `mill_choose` prefers a message that is ready to a
deadline, and the comparison with `next_check` succeeds once per second, so
`TakeToken`, `TakeStop` and `ScanStart`, which compete with an alternative each
time round the loop, are strongly fair. Nobody is required to issue a call or
to destroy the client. `client_live` leaves out the silent banner, with which
the code spins (below), and has room in the channel (see below for when it has
none). In `KineticBlob` a coroutine whose wait is over runs (`WF` of its steps)
and a drive serves the head of its queue (`WF` of `Serve`), which is the
promise of `RpcService` that every call ends; nobody is required to begin,
write, read, commit or abort.

### What the violated runs show

1. **`client_skip`**: `abort_stalled_rpc` (`CoroutineClient.cpp:203-209`) runs a
   range-for over the vector that `abort_rpc` erases from. The call that moves
   into the freed slot is skipped until the next second, and the loop runs past
   the new end, into a null or destroyed pointer. The header says *all* the
   RPC whose deadline has been reached.
2. **`sds_registered`**: `SdsClient::upload` answers a success for a content
   that is not registered. In the trace the proxy refuses the first `Prepare`:
   its error is still OK, there is no target 0, whose size 0 is that of the
   buffer (`sds.cpp:65-66`), nothing of the file is read, and with `fullSize` 0
   `Create` is not called (`sds.cpp:147`); the answer is that OK. The same
   follows when `Prepare` succeeds and it is `Create` that is refused.
   `Content` never looks at the status of the reply and overwrites its body
   with the encoding of an error that is still OK (`content.cpp:66-73`),
   `Call::Run` answers OK when no reply could be read (`http.cpp:509`), and
   `OioError::Decode` stores a code without its cause (`common.cpp:78-91`), so
   that `Ok()`, which `common.hpp:62` says tells a success from a failure,
   stays true.

### Other differences met while modelling

These are in the models; one call or two show each of them, and no run is spent
on them. Some are stated in the modules, by properties that do not hold (named
in parentheses):

* `abort_rpc` signals before it pops (`CoroutineClient.cpp:182`). The signal
  suspends the producer; the consumer may then read the late reply, and
  overwrites the outcome of a call that was told "timeout" and whose caller may
  have destroyed the exchange, where `PendingExchange.h:68` says of such an error
  that no reply could be received (`NoReplyAfterError`).
* `abort_all_rpc` empties the queues but not the channel
  (`CoroutineClient.cpp:277`). While the drive is unreachable each call leaves
  a message behind; the 65th blocks in `RPC()`, and so does the destructor:
  `EveryCallReturns` fails where `ChanCap` is less than the number of calls.
* `Upload::Write` of a local blob only logs a `write(2)` that fails, and `Commit`
  publishes the truncated blob (`local/blob.cpp:429`, where `api/blob.hpp:101`
  has it validate the whole: `CommitValidatesTheWhole`).
* An upload or a removal refused at its headers is replied to again when its
  message completes (`MillDaemon.cpp:72-83` and `:224`, where line 123 says "a
  reply": `OneReplyPerRequest`). The next operation on the connection of such an
  upload may take the second reply for its own (`ServerSkipsBody`).
* A file of several chunks does not come back: `SdsClient` copies each chunk
  without its number, and target 0 is replaced by each of them
  (`sds.cpp:91-103`: `RegistersChunks`).
* An erasure coded download fails whatever the targets hold: the range of the
  command it fetches a fragment with is never set (`ec/blob.cpp:185-196`), and
  `RawxDownload::Read` cuts every fragment to it (`rawx/blob.cpp:250-253`,
  `Received`), where line 222 says "we have enough data" (`NeverDecodes`).
* Were the fragments received, a download with all the parity fragments, or all
  but the last, and all the data would drop data fragment 0 (`ec/blob.cpp:104`,
  `Dropped`): the mask is tested with `|` and `==`.
* The end of a chunked reply is lost when one read brings its last chunks:
  `IsEof` (`http/blob.cpp:329`) does not look at the slices still queued
  (`Begun`, `cut`). A file of one chunk then comes back as its beginning
  followed by what was behind the buffer, and `download` answers OK.
* A connection that breaks in the middle of a body leaves `RawxDownload::Read`
  in its loop (`rawx/blob.cpp:246-248`; `FetchBreaks`, `GetBreaks`).
* An unlink of a pending file that fails is logged and forgotten
  (`local/blob.cpp:288-293`, `UnlinkTemp`); as after a crash, every later
  upload of the name is answered Already (`OrphanBlocksTheName`).
* Two late replies of the proxy that are read together: the second is lost with
  the buffer of its `Reply` (`Received`).
* The `Commit` of an erasure coded or routed upload answers OK however many
  targets have failed (`ec/blob.cpp:457`, `Store`; `router/blob.cpp`,
  `StoreAt`).
* A body larger than a chunk, an empty chunk or a download without a Range stop
  the process of the ec-proxy: `Write` waits for room, and the readers for an
  end of stream, that never come, without yielding (`router/blob.cpp:271`, `:81`;
  `StopHasCause`, `stuck`).
* A chunk number that was named earlier on a connection of the ec-proxy keeps
  its old url (`ec-proxy.cpp:173`, `WithTargets`): the stripe of a request may
  go to the chunks of the one before.
* The attributes the rawx-server keeps are those of any earlier request of the
  connection, and the trailers of an upload come after it was given its own
  (`rawx-server.cpp:84`, `Header`).
* A reply without a length ends with the connection, and `consumeInput` tells
  the parser so when a read gives 0 (`http.cpp:349-368`), but `Socket::read`
  answers an end of stream with -2 (`net.cpp:325`): the reply ends with a
  network error. `HttpBlob` has no such replies.
* A download over HTTP takes the body of any status but 404 for the chunk
  (`http/blob.cpp:369`, `DownloadReply`).
* `SetRange` of a local download is refused before `Prepare`
  (`local/blob.cpp:176`), where `api/blob.hpp:167` asks for it, and has no
  effect on what is delivered afterwards (`SetRange`, `Limit`).
* After a failed `read(2)` the buffer keeps the size it was given, and the next
  `Read` hands it over as data (`local/blob.cpp:95-106`, `ReadStale`).
* A download of a memory blob copies an item that is pending
  (`mem/blob.cpp:95-99`, `PrepareDownload`).
* Once the 5 s of the handshake have passed without a banner, `read_exactly`
  fails with `EAGAIN` at once, and the loop asks again without giving the thread
  back (`CoroutineClient.cpp:129`; `utils/net.hpp:109` has a hook for it).
* `bytes_in` and `checksum_in` of the daemon are not reset: the size and digest
  told to the client accumulate over the uploads of a connection
  (`MillDaemon.cpp:131`, where `MillDaemon.h:115` says "the current request").
* A Kinetic `Commit` answers OK though PUT exchanges failed
  (`kinetic/coro/blob.cpp:550`, `CommitDone`, where `api/blob.hpp:102` takes it
  for a verdict), and a GET that fails is read as an empty buffer
  (`blob.cpp:166`, `ReadAnswered`, where `api/blob.hpp:180` announces a
  negative size).
* `Prepare` of a Kinetic upload with two targets answers `NetworkError`
  (`blob.cpp:657-661` never increments `i`; `ChecksFail`). An upload that goes
  on has one drive, which is why `ManifestIsLast` holds.
* Attributes larger than a block become blocks of data (`blob.cpp:545`,
  `WriteMeta`), although the flush at line 532 is there "so that we don't mix
  payload with xattr".
* Two Kinetic uploads of a name may both be prepared; the abort of one then
  deletes blocks of the other. Nothing in the repository forbids the caller.
* The accept loop of the daemon tests a pointer (`MillDaemon.cpp:387`) and never
  ends; `Accept` has no guard on `running`.

## 4. What is proved

### The RPC client

For any finite set of calls, any capacity and any faults:

| theorem | statement |
|---|---|
| `TypeCorrect` | `Spec => []TypeOK` |
| `SessionsAreIsolated` | `Spec => []SessionIsolated` |
| `NoWakeupIsLost` | `Spec => []NoLostWakeup` |
| `RepliesReachTheirCall` | `Spec => []AnsweredByOwnRequest` |
| `NoCallIsDropped` | `Spec => []EveryCallHeld` |
| `ClientImplementsRpcService` | `Spec => ImplementsRpcService` |
| `NoSleeperIsForgotten` | `Spec => []SleepersAreHeld` |

The assumptions are those of the constants (`Calls` is finite and does not
contain `NoCall`, the channel has a positive capacity, `Faults` are known ones).

`TypeOK` is not inductive: that the scan only reads slots that exist needs
`ScanInv` (the range it was given is the vector plus the slots erased since),
and that erasing, completing and restarting do not meet needs `SessionInv` (the
producer lives inside the read loop of the consumer, which lives inside the
join of `run_agents`). `IInv` is their conjunction. `NoLostWakeup` is inductive
relative to it. `AnsweredByOwnRequest` needs `SeqInv`: the calls that are *in
session* (pending, in a vacated slot, or in the hands of the producer) have
distinct numbers below `nextSeq`, and no request of another call that the drive
received has one of them. `EveryCallHeld` needs `HeldInv`, which says in whose
hands a call is, and that `abort_rpc` only pops a call it has signalled; that
it pops *that* call is `SeqInv`.

`ImplementsRpcService` says that a call is completed once. A call is signalled
by `manage`, `abort_rpc` and `abort_all_rpc`, and nothing in the code counts:
the refinement needs that the second signal of a call cannot come, or comes to
a call whose deadline has passed. `OnceInv`, which TLC checked first on the
instance of `client_safe`, is the reason, in four parts. `KnownInv`: whoever is
in a queue, in the hands of an agent, late or signalled was handed over by
`RPC()`, so that a call is queued once. `PlaceInv`: the queues hold a call
once, an unsent call is in one of them only and unsignalled, a pending call is
signalled only while `abort_rpc` is about to pop it. `HandInv`: what the
suspended `Signal`s of the consumer and of `abort_rpc` wait for was signalled
before; the request `start_rpc` failed to send was not received, so that its
answer cannot come; and `abort_stalled_rpc` only has late calls, the one place
where an answer and an error race. `WokenInv`: a caller goes on, and a
notification is there, because of a signal. Each step is then a step of
`RpcService` or stutters: `Enqueue` issues, `Expire` misses, `Resume` returns,
a `Finish` or a signal of `abort_all_rpc` completes a call without signal and
otherwise revises a late one or repeats nothing (`FinishServes`,
`SignalServes`). `AbortAll` records an error in calls that nobody has
signalled, which `RpcService` does not see until they are.

`SleepersAreHeld` is what safety can say of `EveryCallReturns`: a caller parked
in `Wait()` was never signalled, and its call is in a queue or with an agent
whose `Signal` is under way. It needs `SignalStays`: a signal given before the
caller sleeps stays in `notification_` until it is taken, although the channel
holds one message and a second `Signal` may be suspended on it.

### The Kinetic blobs

For any uploads, downloads and removals of the name, any number of drives and of
blocks, any size of a page and of the windows, and any failures:

| theorem | statement |
|---|---|
| `TypeCorrect` | `Spec => []TypeOK` |
| `Delivery` | `Spec => []DeliveryInv` |
| `NothingLeft` | `Spec => []NoOrphan` |
| `BlocksBeforeManifest` | `Spec => []ManifestIsLast` |
| `NothingMissed` | `Spec => []RemovalIsComplete` |
| `BlocksDelivered` | `Spec => []DeliversWhatStays` |

The assumptions are those of the constants: positive numbers of drives, keys of
a page and RPC of a window, and operations of one kind each.

None of the properties is inductive. The inductive invariant `IInv` has two
halves, and TLC checked its conjuncts first, on two instances as small as those
of the runs (7.6 million states).

`DeliveryInv` is about calls and requests, and needs nothing of the listings.
`CallInv` says what the calls of an operation are: first the PUT of an upload,
to the one drive `Prepare` accepts, the manifest last; then, after an `Abort`,
the DELETE of each of them in the same order; for the others, a prefix of the
plan. `WireInv` says what the drives have of them: a call without outcome is on
its way (`SilentInv`), one on its way has no outcome unless an RPC of its
operation failed (`SentInv`), a drive has the requests of an operation in the
order of their calls (`OrderInv`), so that the outcomes of a drive come in that
order (`FifoInv`); what a drive keeps was put by a call that was served
(`StoreInv`), and is gone once its DELETE was (`GoneInv`). `NoOrphan` follows: at
the end of an abort the last DELETE of each drive has its outcome, so that those
before it, and the PUT nobody waited for, were served. `ManifestIsLast` is the
same order seen from the manifest.

`ListingInv` adds what a listing knows (`Knows`). A key is *steady* for an
operation when it was there at its start and nobody wrote it since. A page is
increasing, begins after the marker of its drive and misses no steady key before
its last (`PageInv`); in the middle of a listing a steady key is in `items`, or
still after the marker of a drive that has more (`ItemsInv`); hence it is in the
plan, which has no key twice and is sorted by number for a download (`PlanInv`);
a steady key that was called has for outcome the value that is still there
(`OutcomeInv`), which is what the caller got (`GotInv`). This holds although
drives end at different rounds, and although other operations write between two
pages: what they write is no longer steady.

Two lemmas about the library's operators carry the argument. `Ranking`: in a
strict total order of a finite set, the number of elements before each tells
them apart and takes every value, so that `Sorted` lists each of them once.
`Flattened`: `FlattenSeq` of a sequence of sequences has their elements and no
other, each once if they are apart; it is recursive, and the proof takes the
least index where this fails instead of an induction.

### The local blobs

For any operations, number of missing directories and faults:

| theorem | statement |
|---|---|
| `PendingFileIsALock` | `Spec => []OneWriter` |
| `NoBlobIsOverwritten` | `Spec => []NothingToOverwrite` |
| `NoPendingFileIsLeft` | `Spec => []NoResidue` |
| `OrphanIsNobodys` | `Spec => OrphanBlocksTheName` |
| `RefusalsMakeProgress` | `Spec => []RefusalIsProgress` |
| `PublishedIsWhole` | `"write" \notin Faults => (Spec => []WholeWhenPublished)` |
| `OneBlobIsRead` | `"write" \notin Faults => (Spec => []DownloadReadsOneBlob)` |
| `LocalBlobImplementsBlobStore` | `Spec => ImplementsBlobStore` |

`OneWriter` and `NothingToOverwrite` are inductive together: a rename by an
upload means it owns the pending entry, so no other upload is past its own
open, and the blob it checked for cannot have appeared. `NoResidue` is too,
with what is left by a crash or an unlink that failed (`kept`).
`OrphanBlocksTheName` follows step by step: while nobody holds the pending
entry, an upload that begins finds it there (`EEXIST`), and only a removal
changes the blob. `RefusalIsProgress` needs `DirInv`: an attempt that will be
refused already has a directory made since it began. `PublishedIsWhole` needs
`ContentInv`: the file of an upload holds what was asked of it, and a published
file belongs to an upload that is done and will not create it again;
`OneBlobIsRead` needs `DownInv` besides: a download holds open such a file
(`Whole`), and what it was given, without the buffers a failed read left, is
the first `pos` pieces of it (`Given`). With failing writes neither holds, see
above. The refinement maps a successful rename to `Publish`, a failed one and
`Abort` to `GiveUp`, and everything else to a stutter.

### The memory blobs

For any uploads, downloads and removals:

| theorem | statement |
|---|---|
| `PreparedItemIsOwned` | `MCSpec => []PreparedOwnsItem` |
| `MemBlobImplementsBlobStore` | `MCSpec => MapImplementsBlobStore` |
| `BothImplementBlobStore` | `MCSpec => ImplementsBlobStore /\ MapImplementsBlobStore` |

`MCSpec` is the specification the run checks, of a process that serves files or
the map; `BehavesAsBoth` shows that it implies those of both.

`PreparedOwnsItem` is inductive with the types and the fact that an upload has
no verdict before it is done (`ItemInv`): whoever prepares finds no item, so no
other upload is prepared, and a removal leaves pending items alone. The
refinement shows a pending item as no blob; a `Commit` that validates it is
`Publish`, an `Abort` gives up, a removal removes, the downloads stutter.

### The daemon

For any connections, requests, bodies and faults, `NoBlob` being no request:

| theorem | statement |
|---|---|
| `RequestsAreAnswered` | `Spec => []EveryRequestIsAnswered` |
| `RefusedStoresNothing` | `Spec => []RefusedIsNotStored` |
| `BodyHasUpload` | `Spec => []BodyNeedsUpload` |
| `AttributesStayLocal` | `Spec => []AttributesAreLocal` |

None of them is inductive. `ToldInv` says where the parser is when the request
under way has no reply yet; `RefusalInv` that a request told of an error before
its end is skipped with an operation that is not prepared, so that its `Commit`
stores nothing; `HoldInv` that the body of an upload holds the name; `HandlerInv`
that what a handler keeps came with a request of its connection that has begun.
A step of a connection owes these for itself (`StepOf`), and leaves the others
apart (`OthersKeep`).

### The HTTP blobs

For any operations on the chunks of a host, any number of writes, and a server
that does what `HttpConnection` lets it:

| theorem | statement |
|---|---|
| `TypeCorrect` | `Spec => []TypeOK` |
| `RepliesAreOwn` | `Spec => []OwnReply` |
| `SuccessIsDone` | `Spec => []OkIsDone` |
| `NothingUndecided` | `Spec => []CommitDecides` |

The assumptions are those of the constants. `OwnReply` says nothing of the
socket, which is handed from one operation to the next, so its invariant is one
of the connection. `SessionInv` says that a clean connection has at most one
operation in session, and `AloneInv` what that one finds there by its step: at
`built` nothing (`Neat`); then nothing or the 100 it waits for; from its commit
on, replies to its own request only, of which a 200 means that the server has
done it (`Done`); one of them at most (`OneReply`), and after the headers no
more than the rest of it, unless the server skipped its body: then there may be
two, neither of which is a success, and the server takes all that follows for
garbage. `BetweenInv` is the handover: a socket that will be given out as it
is, and was not left so, has nothing on its way. An operation that closes the
socket leaves that by itself. The one that does not is an upload whose read
failed: `HolderInv` says that the timer was set for it, or that the element
must connect again; a read that ran into its deadline finds the timer expired,
and a read that failed at once the socket known as broken, so that the next
`GetSocket` reconnects. This is the argument for 8 s against 5 s, which the
code states nowhere.

`GetSocket` may also fail while others use the socket and close it under them;
`ClosedUnderOthers` shows that each is left with the beginning of what it had
to read, of which the invariant still holds. `DecidedInv` says that a request
the server has in full, to answer or as an orphan, is that of an operation that
committed it; the end of one operation could complete the request of another
only on a connection that is not clean. TLC checked the conjuncts of `IInv`
first, with two operations and, in part, three (19 million states).

### The erasure code

For any K, M, chunk size and downloads:

| theorem | statement |
|---|---|
| `TypeCorrect` | `Spec => []TypeOK` |
| `NoStripeIsDecoded` | `Spec => []NeverDecodes` |

`LoopInv` keeps the loops within the targets, which types need. `NeverDecodes`
needs `EmptyInv`: no fragment a download has received, in any turn of its loop,
has a length, so that whatever passes for a valid header in the memory it
was given has nothing to decode.

### The SDS client

For any uploads and downloads of a content, files and size of the chunks, the
proxy proposing chunks as it does:

| theorem | statement |
|---|---|
| `TypeCorrect` | `Spec => []TypeOK` |
| `OneChunkComesBack` | `Spec => []RoundTrip` |
| `LengthIsThatOfTheFile` | `Spec => []RegistersLength` |
| `ErrorsRegisterNothing` | `Spec => []ErrorIsUnregistered` |

The types are already an argument: that chunk numbers stay within the pieces
and the proxy is not asked for more rests on what the targets of an upload can
be. `Progress` says it: numbers 0 and perhaps 1, since the second chunk arrives
while number 0 is at position 0 and gets 1, every later one is at position 0
behind a number 0 that has moved, and is dropped (`InsertMore`); each turn of
the loop goes through a piece at least. `ContentInv` says that what is
registered is of an upload that ended without an error, with the length it went
through and the one or two chunks of its targets. `CleanUpload` and
`CleanDownload` follow the single chunk of a file whose requests were served,
from the proposal through the rawx, which no other upload writes to, and the
list of the proxy to the bytes of the file, or to a beginning of them if the end
of the reply was lost (`cut`): no reply is left unread, no part of
the buffer is short, and the padding of the last read is cut by the size that
`UpdateTarget` registered. `ParsedTargets` and `ListedTargets` say what
`put_contents` and `get_contents` make of lists of one and two chunks; no
longer list occurs, so no induction is needed. TLC checked the conjuncts of
`IInv` on the instance of `sds_safe` first.

### The ec-proxy

For any connections, requests, stripes and failures:

| theorem | statement |
|---|---|
| `ConnectionsApart` | `Spec => []ConnectionOnly` |
| `PlainChunkIsOwn` | `Spec => []PlainIsOwn` |
| `StopsForACause` | `Spec => []StopHasCause` |

`HandlerInv` says that a handler knows only chunks its connection named, and that
a plain url is that of the request when it names one; `PlainInv` that with a
plain url no other chunk is touched; what the rawx store plays no part in these.
`StopInv` keeps what an upload holds within the chunk, and a Range that was asked
for with the connection.

### What is only model-checked

Liveness (`EveryCallCompletes`, `EveryCallReturns`, `DestructorReturns` and
`OperationsEnd`), which needs fairness and `ENABLED` and is out of the prover's
reach. Every safety property, action property and refinement that a passing run
checks is a theorem above.

## 5. Not modelled

* **Kinetic messages.** The fields, the HMAC and the serialisation of a command;
  what of them matters to the client (sequence number, context of the
  connection, lost framing) is in `KineticClient`.
* **Kinetic client factory.** A map filled in one step.
* **kinetic-listener, kinetic-stress-put.** Loops over the RPC client that keep
  statistics, without a promise to check beyond `RpcService`.
* **Metadata clients** (containers, references, the other calls of `Content`).
  One request of the proxy per method, whose errors are judged as in `SdsClient`,
  and a cache of which nothing says what it should hold.
* **Checksums, lexers, JSON, the HTTP parser, liberasurecode, libmill.** Pure
  functions over bytes, generated code, or code outside the repository, modelled
  where the rest depends on it.
* **Configuration, start and end of the daemons.** `Join` never returns
  (`MillDaemon.cpp:387`), the accept loop being one of the differences above.
* **Replies without a length, `GetHeaders`** of the HTTP client, the regular file
  descriptors and the address parsing of `utils/net`.
* **Builders and getters** that only carry a value.

Known limits of the models: an operation destroyed half way frees memory that
others may still point to, and memory is modelled only in the scan of
`KineticClient`; times are modelled by their order, not by a clock.

## 6. Plan

Done: the RPC client, the Kinetic, local, memory, HTTP and erasure coded blobs,
the daemon with the handlers of two of its servers, the SDS client; the proofs
above.

Left, in this order:

1. Proofs: what safety can say of the other liveness properties, as
   `SleepersAreHeld` does for the callers: who will wake the destructor, and what
   the next RPC of a Kinetic operation waits for.
2. `KineticListener`: the map of drives its monitoring loops share.
3. The destruction of an operation in the middle, over the exchanges the RPC
   client points to.
