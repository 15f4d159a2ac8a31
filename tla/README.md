# Verification of antd and its clients

TLA+ models of `antd`, the daemon of this repository, of the Rust SDK that talks
to it, and of the embedded client (`ffi/rust/ant-ffi` and its Node binding) that
needs no daemon. The network client `ant-core`, the network, the payment contract
and tokio are outside; they are modelled from how the code uses them and marked
external in `PROJECT.json`, whose `map` ties every definition to the lines it
models.

## The system

`antd` is one process with a REST and a gRPC server over one `AppState`
(`antd/src/state.rs`). Every request is a tokio task. The state that outlives a
request is in memory only, and shared by both servers:

| state | kept by | keyed by |
| --- | --- | --- |
| `pending_pointers` | pointer writes | `upload_id` |
| a write lock per loaded owner key | `pointer_keys.rs` | pointer address |
| `pending_uploads` | file and data uploads | `upload_id` |
| `pending_chunks` | single-chunk uploads | `upload_id` |
| the port file | discovery | user data directory |

Each map is behind a lock that is held for one lookup, insertion or removal and
never across an await of the network. A background task removes sessions older
than an hour every five minutes. The embedded client keeps its own upload
sessions, one map per client object.

### Components: operations, what is hard, what makes them correct

* **Pointer writes** (`pointers.rs`, `pointer_keys.rs`): create, update and
  transfer at once, or prepare and finalize around an external payment. A write
  reads the pointer's counter, signs the next one and pays; two writes signed
  against one counter waste a payment. A prepared write blocks other writes until
  it is finalized or expires. Correct: one paid write per pointer at a time, no
  overtaking, no session lost or duplicated, a retry reuses its proof, success
  means landed, nobody waits for ever.
* **External-signer uploads** (`rest/upload.rs`, shared by `grpc/service.rs`):
  prepare, pay outside, finalize; a shortfall puts a resume handle back under the
  same id. Correct: a session is in the map or with one store, an upload that has
  ended stays ended, a retained attempt never asks for another payment and lives a
  full TTL.
* **Single-chunk sessions** (`rest/chunks.rs`, `ChunkService`): as uploads, but a
  finalize takes the session before it reads the hashes and nothing puts it back.
* **The external signer** (`docs/external-signer-flow.md`, the SDK's example 07):
  decides from error codes and retention hints whether to finalize again or to
  prepare and pay again. Correct: never pays twice for what the daemon still holds.
* **Embedded client** (`ant-ffi/src/client.rs`, `session.rs`, `payments.rs`): the
  same uploads in the app's own process, where a mobile app may drop a future at
  any await. **Node binding** (`ffi/node/src/client.rs`): forwards each method.
* **Streaming downloads** (`rest/data.rs`, `grpc/service.rs`, `NdjsonFrames` of the
  SDK): three or four tasks joined by bounded channels, a connection, and an
  iterator. Correct: batches in order, no truncated body that looks whole, no task
  left blocked.
* **Range downloads** (`range.rs`, both surfaces, `RangeStream` of the SDK): u64
  arithmetic, window planning, one fetch per window, a length check at the client.
* **REST and gRPC surface, Rust SDK, errors**: about fifty calls over two
  transports that must reach twin handlers, refuse the same calls and be read alike
  by the SDK, leave nothing behind when they refuse.
* **Manifest paths** (`manifest_paths.rs`, `manifests.rs`): repairing a list of
  paths so that it extracts on every platform.
* **Port file and discovery** (`port_file.rs`, `main.rs`, `discover.rs`): several
  daemons write, rename and remove one well-known file; SDKs read it.

`PROJECT.json` lists the components with what is left out of each, and every
hazard with the line where it bites and the properties that cover it.

## Modules

| module | models | composed with |
| --- | --- | --- |
| `PointerSlot` | the promise of the pointer API: one slot per pointer, and the daemon changes a pointer only for the slot's holder | refined by `PointerWrites` |
| `PointerWrites` | `pointers.rs`, write locks, sweep, restart | `INSTANCE PointerSlot` |
| `UploadSessions` | `rest/upload.rs` and its part of `state.rs` | |
| `ChunkSessions` | `rest/chunks.rs`, `ChunkService` and their part of `state.rs` | |
| `Errors` | `error.rs` of the daemon, `errors.rs` of the SDK, `ClientError` of the embedded client | |
| `ExternalSigner` | the guide's and the example's signer, its timeouts and damaged answers | `UploadSessions`, `Errors` |
| `FfiClient` | sessions, payments, receipts and finalizes of the embedded client | |
| `StreamPipeline` | `stream_response_ndjson`, `data_chunk_stream_response` | |
| `SdkDownload` | the connection and the SDK's frame iterator | `StreamPipeline` |
| `RangeStream` | `range.rs`, `range_response`, `data_chunk_range_response` | |
| `SdkRange` | the SDK's range calls and stream, other HTTP clients | `RangeStream` |
| `Tables` | tables from rows, and tables joined; no code of their own | |
| `Handlers` | the kinds of step a handler consists of, and the steps handlers share | `Tables` |
| `RestHandlers`, `GrpcHandlers` | every handler of the daemon as its sequence of steps, and the REST router | `Handlers` |
| `GrpcRoutes` | the generated stubs and dispatch | `Tables` |
| `SdkCalls` | every SDK method: its own checks, its route or stub | `Handlers` |
| `FfiCalls` | every method of the embedded client as steps, and the Node binding's delegation | `Handlers` |
| `Surfaces` | one call from its caller through routing and handler and back | the modules from `Tables` on, `Errors` |
| `ManifestPaths` | `repair_paths`, and how `build` reports original paths | |
| `PortFile` | `port_file.rs`, its callers in `main.rs`, `discover.rs` | |
| `*_proofs` | theorems about the module of that name, and in `ExternalSigner_proofs` about the sessions too: `UploadSessions` and `ChunkSessions` | the modules they are about |
| `MC*` | definitions for the small instances TLC runs | |

Definitions whose comment starts with "Fault:" are never part of a
specification. Each is a plausible bug in the definition that follows; put in its
place it makes TLC report the property named beside it in `PROJECT.json` under
`mutants`.

### PointerWrites

A task has a step for every point where the code awaits: the write lock (`lock`),
the pending check (`check`), the signature (`sign`), the quote (`quote`), taking the
session out (`take`), building the proof (`proof`), the store (`store`) and the
finality read of a transfer (`finality`). `LandedTransfer` takes the two answers of
a fork (`pointers.rs:780-784`) for one, as nothing that is checked tells them apart.
What the code does between two awaits is one action. `writing` is the owner of each
key's lock and `pending` the session map; a session that `finalize_paid` took out is
`job[t].held`, a local variable of that future. `net` is the state the close group
serves. `Land` is separate from the call's return, so a store may land and report
failure, or fail and land nothing. Other holders of the same key write through
`RivalWrite`. `own` and `fate` are history. Record identity is (counter, finality,
author); a fork of the close group is a final state other than ours; hashes are good
or not. `SlotHolders` maps the detailed state to the slot: a write past its check, a
pending session, or a session in the hands of a finalize.

### UploadSessions and ChunkSessions

A finalize of an upload peeks (`pending_shape`) and validates, takes the session,
then stores in a detached task; of a chunk, it takes the session first and then
reads the hashes. A chunk of an upload stands for a merkle batch too: it is paid for
or not. A partial store may be told fewer chunks are stored than the network holds.
That ant-core's success means that every chunk is stored is an assumption on
ant-core, in the guard of `Complete`: the daemon passes any `Ok` on
(`rest/upload.rs:520`, `545`) and checks nothing, so no property says it. `quiet` is
a history clock, ticks since the session was prepared or a partial was reported. In
`ChunkSessions` a put from the wallet is not detached, so a caller that leaves ends
it where it stands.

### ExternalSigner and Errors

`Errors` follows an error from ant-core through `from_core`, over REST (status,
code, headers) or gRPC (status, and the text it ends with), into the SDK's kind and
its retryable and retention flags. The signer finalizes, hears an answer, nothing
(its timeout, with the daemon still storing), a 404 while a store holds the session,
or an answer damaged on the way, and acts on what it read. The retention flag of a
partial answer comes from the branch that the finalize took (`FullyPaid`), as in the
code, and not from what is in the map. `covered` records what it paid for under each
upload.

### FfiClient

A call is at one of its awaits; dropping its future (`Drops`) drops what it holds
there, including a session it took out. A finalize flushes progress before it
settles, which is an await too. `billed` is what `payment_transactions` asked the
app to pay, batched by `MAX_TRANSFERS_PER_TRANSACTION`.

### StreamPipeline, SdkDownload, RangeStream, SdkRange

One action per receive and per send of a task. A send waits for room and fails
once the receiver is dropped; a receive ends when all senders are gone and the
channel is empty. `got` is what arrived at the client; `taken` is how much of it
the app was handed. The daemon may die and the connection break between two
frames, inside one, or just before its newline. `buf` is what the SDK then still has
of a line, and `tail` what it hands out after the whole frames: the connection's
error and, since that clears nothing, on a later poll the rest of the line, as an
error or as a frame (`client.rs:109-118`). That reqwest's body has ended after its
error is external. In `RangeStream` bytes are positions and a stretch of them
an interval, so overlap, gap and order are exact without any bytes; `MaxU64` is
small so that saturation is reached.

### Handlers and Surfaces

A handler is a sequence of steps in the order of its code: refuse unless a fact
holds, call ant-core in a spawned task or in its own future, check a result, an
effect, a cleanup that follows a call also when it fails. `Surfaces` runs any
method of the SDK over either transport, or of the embedded client from Rust or
through Node, with any two of the facts it depends on wrong, ant-core failing at
any call, a caller that leaves at any await, and a process that dies. Handlers
whose state matters are modelled again, with their state, in the session modules:
here one call is followed at a time, and what is compared is order, routing,
errors and what is left behind.

`TransportsAgree` compares a refused call with what the other transport would do with
the same call: `Refusal` is its first check of the SDK, or else its first guard, and
`Report` what the SDK makes of either. What is in `Carriage` is not compared, because
only one transport can have it wrong: the length limit of a body, its JSON and base64,
a `Range` header that is not text, and over gRPC the base64 of `verify_quotes`, which
the SDK refuses where REST gives the entry a verdict (`grpc_client.rs:803-808` says
so). `OwnCodes` are the wallet's calls, whose answer differs (see Findings).

### ManifestPaths

A name is a sequence of symbols with a size; an extension and a number with its
brackets are one symbol each, a cut takes them whole. The numbering that
`repair_paths` searches, its families and where each search resumes, are kept as
in the code; one action is one family of numbers of one clash. `WidthEnds` is where
numbers get a digit longer: 10, 100, ... in the code. ant-core's rules for names are
external; its prefix for reserved names is left out.

`ShowsNumber` is where the promise of the lowest free number needs it: a name that
already has a number right before its extension, and so little room that a longer
number costs it the extension, is outside of `LowestFree` (see Findings).

### PortFile

One action per system call of `port_file::write`, because another process may act
in between, and one per step of the SDK's read: open, read, check. A file is an
inode under a name, so two daemons that open `daemon.port.tmp` write to the same
inode, and a rename publishes whatever is called that by then. The lines are
written by one call and stand for the process that wrote them. A daemon fails at
start-up without removing the file, dies without removing it, or stops and removes
whatever file is there.

## What is checked

Clocks count ticks up to `TTL` and stand still there, which is all the sweep's
comparison can see.

| run | what it shows | instance and why it is enough |
| --- | --- | --- |
| `PointerRace` | paid writes exclude each other, nothing overtakes a prepared one, sessions are kept, a proof is paid for once, and the daemon implements `PointerSlot` | one pointer (pointers share only the session map), three tasks: a finalize, a rival finalize of the same id and a write; a rival writer; counters to 2 so that a state can be overtaken |
| `PointerLive` | every request is answered, an abandoned prepare frees its pointer, a final refusal never landed | one pointer, two contending tasks, no rivals (a rival can land what a refused write signed for) |
| `UploadRace` | session ownership, ends that are final, retained attempts, retry window, answers, expiry | one id (ids share nothing but the map), three finalizes: one stores, one peeked before, one comes after; two chunks: one stored and one not |
| `ChunkSessions` | ownership, and a taken session is driven to its end | two ids and tasks, two contents of which some are already on the network |
| `ExternalSigner` | no second payment while the first is held; the retention flags are true | two uploads, the first attempt and the one after it; two finalizes in the daemon, so that one still stores when the signer retries; both transports |
| `FfiClient` | no session lost but by the app's own drop, no store without its hashes, bills only what is due and as often as asked the same | one upload (each is its own session), two overlapping calls, three quotes over transactions of two so that a batch is full and another is not |
| `StreamDownload` | the app reads a prefix in order, and past an error at most the line that was cut before its newline; an end means whole or an error; everything stops | more batches than the channels hold, so that every send blocks somewhere; both surfaces |
| `RangeDownload` | the range served is the range asked for, windows partition it, the app has all of it or an error, everything stops | every object of three or four chunks of one or two bytes, every request with positions to a saturating maximum of 9 |
| `Surfaces` | success means what the SDK documents, a refusal leaves nothing, what is paid is not cut, and what either transport refuses the other refuses, read alike by the SDK | every method of four ways in; every pair of wrong facts, since an order of refusals shows with two; two errors of ant-core, since handlers pass them on or replace them whichever they are |
| `ManifestPaths` | a repaired list collides nowhere, renames only what clashes, gives a clash the lowest free number, and refuses only for lack of room | every list of up to three paths and four names from a set that differs by case, extension, number, wide characters, directory or only past the cut; components of 7 and paths of 8 so that names are cut and an extension is lost, `WidthEnds` {3, 9} so that numbers change their width early |
| `PortDiscovery` | daemons that follow one another are found, never by half a file; a stopped one is forgotten; of several that start together one is advertised on Unix | three daemons: two share a temporary file while the error path of the third removes it; each call may fail or be the last |
| `PortAtomic` | the comment at `port_file.rs:26` | refuted with two daemons |

Deadlock is checked but where the system really may stop: upload ids are used up
and nothing is under way, a stream has ended, a single call or one repair is over.

### Findings

* `PortAtomic`: `port_file.rs:26-29` says the port file is written atomically.
  Daemons that start together use the same temporary name, so the rename of one can
  publish the file another has just truncated, and an SDK finds it empty. On
  Windows they can lose the file altogether (`StartedIsAdvertised` is for Unix), and
  everywhere a daemon that stops removes the file of one that goes on running, so
  `AloneIsFound` is stated for daemons that follow one another.

Disagreements met on the way that follow from the models and have no run of their
own:

* A comment at `rest/upload.rs:527` argues that a session cannot change shape
  between the peek and the removal. Two finalizes of one id change it
  (`Dispatch` when not `Matches`): an internal error where a resume was due. Nothing
  is lost (`LiveIsKept`).
* `docs/external-signer-flow.md:214` and `ant-ffi/src/client.rs:1106` promise that
  repeating a retained finalize succeeds or is partial again. A failing
  `data_map_store` after the last chunk, or another ant-core error, ends the attempt
  (`MapFails`, `CoreError`).
* An error line is documented as the end of an NDJSON stream (`data.rs:355`);
  progress lines can follow it. No data follows it (`ReadsPrefix`).
* The SDK's stream can hand out data after an error, though, if the error is the
  connection's: `poll_next` returns it without clearing `buf` or setting `done`
  (`client.rs:109`), so an app that polls on gets what is left of the last line
  (`client.rs:110-118`). In the middle of a line that is a second error; cut just
  before its newline, the line parses and comes as a frame. It is the next frame in
  order and the last (`CutBeforeNewline`), and as the error came before it, no
  truncated object looks whole (`EndsWholeOrFailed`).
* `grpc_client.rs:945-948` promises `AntdError::ServiceUnavailable` from
  `wallet_address` of a daemon without a wallet, as "`FailedPrecondition` [...] maps
  to `ServiceUnavailable` in our error hierarchy", and `antd-rust/README.md:232` lists
  the kind for it. Nothing maps so: `errors.rs:207-241` leaves the status to
  `AntdError::Grpc`, as a test expects (`grpc_tests.rs:1658`), and only REST's 503 is
  read as `ServiceUnavailable`. In `Surfaces` it is the second case of `ReadAlike`:
  `TransportsAgree` states what the code does, that such a call over gRPC reports
  `Grpc` with `FAILED_PRECONDITION`. More generally the SDK has the kinds in
  `RestOnly` over REST alone; everywhere else its caller gets the status which that
  kind becomes, for a missing wallet of any other call `UNAVAILABLE`.
* A comment at `manifest_paths.rs:115` says that each number gives a different name.
  A name cut so short that the number's second digit costs it its extension, such as
  `a (2).XXX... (10)` at its limit, gets the same name from 2 and from 10; a clash
  can then be refused although a number above `last` is free. And
  `manifest_paths.rs:217-222` says that names of one family are taken or free
  together: two names that end in another number where the extension was cut can
  share a family and not their numbered names, so that a search resumed there passes
  over a free number, against `manifest_paths.rs:63-65`. Both were met as obligations
  that did not hold; what is claimed of a clash is therefore under `ShowsNumber`. No
  two paths collide even so (`NoneCollide` needs no such condition).
* A malformed hash ends a paid chunk session, unlike an upload's (`StartFinalize` of
  `ChunkSessions`), and `chunk_put` alone spends in the request's own future, on
  both transports; `RefusedLeavesNothing` and `PaidIsNotCut` name the two exceptions.
* A download to a file that fails in the embedded client answers before its
  progress has been delivered, unlike every other call (`FlushIfDone`).

### Fairness

Weak fairness for every step a task takes by itself: tokio polls woken tasks, and
`ant-core` calls return, since they have timeouts. Strong fairness for taking a
pointer's write lock: tokio's mutex is a FIFO queue, so a waiting task is not
passed over for ever, although the lock is not free continuously. Weak fairness
for the clock and the sweep's interval. None for callers, for the network's
outcome, for rivals, or for a client to leave. In the streams, the body of a
connection that is up is polled and an app that has not left goes on reading; one
that stops reading without disconnecting holds a download for as long as it
likes, by design. The steps of `StreamPipeline` and `RangeStream` are fair as parts
of the composition, with what the SDK keeps unchanged.

## What is proved

**`PointerWrites_proofs`**, for every set of pointers, tasks and upload ids, every
counter bound and TTL, with and without rivals: `Typing`, `WriteExclusion`
(`[]OneWriteInFlight`) and `SessionsKept` (`[]LiveIsKept`).

The inductive invariant `IInv` has five parts. `Control` says which steps each
kind of request has and that a session is in hand from its removal to the answer.
`LockHeld`: a task past the lock has its pointer's lock, so two tasks past the lock
are at different pointers. `SameTarget`: an id means the same pointer to the map
and to every finalize of it; without it a finalize could take a session of a
pointer it has not locked. `PendingExcludes`: a pointer with a pending session has
no other session and no paid write under way; `refuse_if_pending` under the lock
establishes it, and it lets a finalize put its session back. Exclusion follows from
the last two; `LiveIsKept` needs in addition that `fate` follows the session
(`Accounted`). The proof goes through the lemma `Shapes`: each of the daemon's steps
is one of a few shapes, and each part of the invariant is preserved shape by shape.

**`UploadSessions`** (in `ExternalSigner_proofs`), for every set of uploads,
finalizes and chunks, every TTL, and whether or not ant-core fails:

* `Typing`: a finalize has a session exactly while it is past taking it (`Job`).
* `SessionsKept` (`[]LiveIsKept`): inductive together with the types. The one
  holder of a session lets go of it (`LetsGo`) by ending it (`SettleKeeps`) or by
  putting it back (`PutBackKeeps`); taking needs that nobody else holds it.
* `OverIsOver` (`EndedIsFinal`): a statement about steps. Whoever stores, publishes a
  data map or puts a session back holds it, and under `LiveIsKept` only a live upload
  has a session to hold: not even a finalize that saw it before it ended.
* `RetriesCanFinish` (`[]ResumeCanDrain`): `Drains` says it of the map and of every
  session in hand, so that putting back and taking preserve it.

**`ChunkSessions`** (in `ExternalSigner_proofs`), for every set of sessions, requests
and chunks and every TTL: `ChunkTyping` and `ChunkSessionsKept` (`[]ChunkLiveIsKept`),
inductive together. The two kinds of session share no state, and the names of the two
modules differ, so that one module of theorems extends both.

**More of `PointerWrites_proofs`**, on top of `IInv`: `LInv` adds what the network has
seen of each session. A write of this daemon lands at or past a kept session's
counter only if it is that session's own, since `PendingExcludes` leaves no other
past the check (`SessionsAreCurrent`); a success has landed (`SuccessHasLanded`);
a final error has not (`RefusalIsTrue`, for `Rivals = FALSE`: a rival that holds the
same key can sign what a refused write signed). `RetriesArePaid` (`PaidOnce`) and
`Refinement` (`SlotSpec`) are statements about steps: under `IInv` each step of the
detailed specification is a step of `PointerSlot` under the mapping `SlotHolders`,
or a stutter.

**More of `UploadSessions`**: `PaymentsAreKept` (`ResumeNeverRegresses`) and
`RetryWindow` (`FullRetryWindow`) are about steps, the second from `Fresh`, that the
session's clock is never ahead of the quiet time it is compared with.

**`ExternalSigner`** (in `ExternalSigner_proofs`), for every set of uploads,
finalizes and chunks, every retry bound, both transports: `SInv` ties what the
signer last read to what the daemon holds: an answer that says retained was sent by
a finalize whose session is in the map with all its proofs (`RetentionIsTrue`), and
an answer that says dropped means that nothing of the attempt is left, from which
paying again is only for an attempt that is gone (`NoDoublePayment`). A damaged or
missing answer says neither. The signer's prepare is no step of `UploadSessions`:
what the network holds of the content already comes with it. It leaves every other
attempt's session alone (`PrepareAlone`), so the daemon's promises hold in the
composition as well (`PromisesCompose`, `PaymentsStayKept`, `RetryWindowStays`).

**`FfiClient_proofs`**, for every set of uploads, calls, quotes and listeners:
`SessionsKept` (a session is in the store or with one call, from `HeldWhere`),
`HashesAreThere` (from `Hashed`: what was checked under the lock still holds when
the session is taken, since hashes are only added), `NoDoubleBilling` (from
`Unbegun`; that a due quote is in exactly one batch, and no batch over the limit, is
shown of the batching by ranks).

**`PortFile_proofs`**, for any number of daemons on either platform: `PortInv` says
where a daemon's lines can be at each of its steps (`LinesOK`, `Unused`), and, for
daemons that follow one another, that nobody truncates what the target has
(`WholeOK`). `Forgotten`, `ReadWhole`, `Found`, `Advertised` follow.

**`SdkDownload_proofs`**, for any number of batches and any capacities, both
surfaces: `DownloadInv` says of the whole stream, from what arrived at the client
back through every channel to the fetcher, that it is in order (`StreamOK`), and
that whatever made it end was its last batch or an error (`EndOK`). `ReadsInOrder`
and `EndsHonestly` are about the part the app was handed: what the SDK still has of a
line is the next frame of the stream or an error, so in order also across the
connection's error.

**`SdkRange_proofs`**, for every set of objects, every request, every width of the
integers, every window and frame size and every capacity of the channels:

* `ServesWhatIsAsked` (`[]RangeIsRequested`): `ParseIsExact` goes through the three
  forms of a request. A saturated end is past the object, so it is cut to its size
  like the end that was meant.
* `WindowsAreExact` (`[]WindowsPartition`): `PlanIsGood` says of the windows of any
  range of any object that they follow one another from its start to its end, need at
  most `WindowChunks` chunks each, and share none. It is proved by induction on the
  chunks seen: `PlanOK` is what holds after each (`PlanStep`), the open window's first
  chunk being the one next to the windows closed so far (`Opened`).
* `ReadsTheRange` (`[]AppHasRange`): `WantedIsRequested` says that the SDK's
  translation of a call names the bytes that the app wants; the rest is `RangeInv`.
  `PipeOK`: from the client back to the producer every stretch starts where the one
  before it ends, and an error is the last thing in its channel, with nothing behind
  it. `LeftOK`: the windows left go on from there to the end of the range. `StopOK`:
  what has stopped did so after an error or at the end. `AppOK`: what the app counted
  is what it was handed, so a stream that ends at the announced length is whole.

**`ManifestPaths_proofs`**, for every list of paths of any names, every limit on
components and paths, and numbers that get longer anywhere: `RepairsExtract`
(`[]RepairedIsExtractable`). Its lemmas go from names to lists:

* `FitNumber` says what a numbered name is: a cut of the stem, the number, the
  extension, the cut of the same length for every number of one width. `PlaceSame`
  and `PlaceOther` find the number in two folded names that are equal, so that
  (`Apart`) two numbered paths that collide have one number and collide with every
  other number of its width. From it, the names of one entry are all different
  (`NumbersApart`), and what one family's search found taken is taken for every entry
  of that family (`FamiliesAgree`).
* `Inv` is inductive: `NamesInv` (the paths given out are those in `taken`, one to an
  entry, no directories), `ClashesInv` (clashes are gone through in order, and behind
  the first each has a path or an error), `SearchInv` (every number behind the search
  is taken), `ResumeInv` (so is every number behind where a family's search stopped,
  of some entry, from where that width begins). `NumberedInv`, that a number found is
  the lowest, stays true of an entry because what it could not take is fixed before
  the next is numbered (`UnfreeSame`). `ResumeInv` is what makes resuming right; it
  and what follows from it are under the condition that names show their numbers.
* A search that ends without a name has found a number for every path reached and
  one more taken, all different: too many (`EnoughNumbers`). So an entry is refused for
  lack of room alone.

**`Surfaces_proofs`**, for every call of the SDK over either transport and of the
embedded client from Rust or through Node, with any number of facts wrong with it
and any errors of ant-core. The run tries pairs of facts and two errors; here
`MaxBad` is any number and `CoreErrors` any set. Four theorems: `AnswersAreDeserved`
(`[]AnswerIsDeserved`), `RefusalsLeaveNothing` (`[]RefusedLeavesNothing`),
`PaidStays` (`[]PaidIsNotCut`), `TransportsAgreed` (`[]TransportsAgree`).

* The first half reads the tables. Each handler gets a lemma on its steps (`Serves`, for
  the embedded client `Performs`): every step is of a known kind, the last guard comes
  before the first effect that lasts, a temporary file or reporting task is closed right
  after the call it is for, and what pays is spawned (`Orderly`, `Detaches`). Lookups
  follow each call through its route or stub to its handler, so that `HandlersAreFine`:
  every call has one, that does what the call promises and nothing else that lasts
  (`Fulfils`). The handlers of one call over the two transports are `Alike`: each
  refuses what the other does but for how the call is carried (`Covers`, both ways), and
  what gRPC refuses before such a guard REST has refused before too, or would be read
  the same (`SameAnswers`).
* The second half knows nothing of single handlers. `Inv` says where a call is
  (`Position`), that the guards behind it hold (`Passed`), that what is done is what the
  steps behind it do (`Over`), that what is open was opened by one of the last two steps
  (`OpenSince`), and which step gave an answer (`Verdict`). It is preserved one action
  at a time, from `Fine` alone.
* `TransportsAgreed` needs in addition which of several failing guards comes first
  (`FirstRefuses`, from `WFMin`): so that both handlers refuse and are read alike
  (`BothRefuse`), behind checks of the SDK that are the same over both (`ChecksAgree`);
  `AsSent`, that what reached a handler had failed none of them, is inductive.

The prover has no induction rule it can instantiate, but the library's theorem that
`<` is well-founded on the naturals gives every set of them a least element:
`UpTo` derives from it that a set with 0 that is closed under the next number has
them all, and `Steps` that a recursive function over `0 .. n` exists. They are used
for the passes over an object's chunks (`Ends`, `Plan`), and over a name or a path
(`Total`, `Without`).

The assumptions are the named ones of the modules: sizes are naturals, `None` (and
tasks, ids and the rival, for pointers; `Empty`, for the port file) differ from what
they stand beside, an object is a sequence of non-empty chunks, as self-encryption
makes them, whose size is a u64, and the limits on names are positive.

Only model-checked: all liveness (temporal proofs under fairness are outside the
prover's reach). Every invariant and every action property that a run checks is also a
theorem, as is the refinement of `PointerSlot`; the run of `PortAtomic` is there to be
refuted.

## What could follow

Liveness stays with TLC. A new handler of `Surfaces` needs a lemma on its steps and
its lookup; the second half of the proofs does not change.

## Not modelled

* **Request and response types** (`types.rs`), message encoding and the reading of
  response bodies in the SDKs: serialisation of records. Every handler and method
  that uses them is a sequence of steps in `Surfaces`.
* **Data maps** (`datamap.rs`): resolving a shrunk map is a bounded sequence of
  fetches inside one call, which is one `await` or `check` of the handlers.
* **Signed quotes and EVM defaults** (`signed_quotes.rs`, `evm_defaults.rs`):
  decoding, signature checks and a table of presets. `verify_quotes` is a call of
  `Surfaces`.
* **Bootstrap peers** (`peers.rs`) and configuration (`config.rs`, key files): read
  once at start-up, no later state.
* **Manifests**: embedding of root data maps, encoding, torrent links and ant-core's
  reserved names are conversions of ant-core; their results are good or not.
* **Port file**: a write of forty bytes that stops half-way, and the reuse of a dead
  daemon's pid by another process, which the SDK's liveness check cannot tell.
* **Daemon shutdown**: the order in which servers and tasks are dropped at exit; a
  request that is cut is `Restart` in the session modules and `DaemonDies` in
  `Surfaces`.
* **tonic's limits on the size of a message**, which end a call before its handler, or
  its answer in the SDK, with a status of tonic's own.
* **Handlers that panic**, and the event service beyond its empty stream.
* **Value types of the bindings** (keys, vaults, data, `wallet.rs`): no shared state.
* **Other SDKs, the MCP adapter, `ant-dev`, installers**: clients of the same surface
  in other languages and tools around the daemon.
