# Local Exchange: verification project

Local Exchange (LocalEx) lets the machines of one local network pair with one another, keep
registered files in step and send files. Every machine runs a daemon (`src/packages/localex-daemon`,
or the native service inside the Android application); clients (`localex-tui`, programs that use
`localex-ipc`) talk to their daemon over a Unix socket; daemons find one another by mDNS and talk
over libp2p (request-response protocols and gossipsub).

This directory holds TLA+ modules of the daemon's protocols, TLC configurations that check them on
small instances, and TLAPS proofs of what holds for all instances. All source paths below are
relative to `src/packages/` unless they begin with `src/`.

## 1. Inventory

| Part | State it keeps | Operations | Where |
|---|---|---|---|
| Peer table | `peers` (a `DaemonPeer` with its `PeerVerifyState` each), the explicit peers of gossipsub | `add_peer`, `remove_peer`, `verified`, `is_verified`, mDNS Discovered / Expired | `protocol/src/lib.rs` |
| Pairing | `auth_channels`: the response channel kept for a peer | request, response, failures (`handle_auth`); `VerifyConfirm`, `RequestVerify`, `DisconnectPeer` (`handle_client_event`) | `protocol/src/auth.rs`, `client.rs` |
| Peer store | the saved key and table | `SecretStore::new` (load), `get_local_key`, `save_local_key`, `save_peers`, and their order in `main` | `localex-daemon/src/store.rs`, `lib.rs` |
| Sync offers | `SyncOfferCollector` under a lock, its timer task, a channel of one batch | `handle_gossipsub`, `insert`, `is_received`, `consume`, `handle_sync_offers` | `protocol/src/message.rs` |
| File transfer | sessions in messages only; the receiver's writers | `send_file`, `handle_file_sender`, `do_send_file`, `handle_file_reciver`, `ready` / `read` / `done` | `protocol/src/file.rs`, `localex-daemon/src/daemon.rs` |
| File writers | `FileWriterManager.map`, a temporary file each | `add`, `get`, `remove`, `write`, `get_file_path` | `common/src/writer.rs` |
| Chunk pipeline | reader task, compressing tasks, a channel of five chunks | `do_send_file`, `chunk_and_compress` | `protocol/src/file.rs` |
| Registered files | table `regist_file` (with versions), `raw_store` | regist / unregist of paths, raws, applications; `get_regist_item` | `protocol/src/file.rs`, `src/database/src/lib.rs` |
| Hostname gossip | the hostname in a `DaemonPeer` | `Subscribed`, topic `Hostname`, `broadcast_hostname` | `protocol/src/message.rs` |
| IPC | the daemon's clients, queues of four events, partial frames | `listen`, `recv_stream`, `send_to_stream`, `StreamReader`, `broadcast` | `localex-ipc/src` |
| IPC socket | the socket file | `IPCServer::new`, `prepare`, `release`, `Drop`, `IPCClient::new` | `localex-ipc/src/lib.rs`, `sock.rs` |
| Main loop | one event at a time, from four sources | `Daemon::run` | `localex-daemon/src/daemon.rs` |
| Terminal client | its list of peers, the prompt | keys y, n, d, Enter, r; events of the daemon | `localex-tui/src/app.rs` |
| Android service | global channels, the service thread | `init`, `listen`, `stop`, `dispatch`, `recv` | `android/src`, `LocalaxService.kt` |
| Example client | its raw item and the last file it was told of | `RegistRaw`, `SendRaw`, the file of `FileUpdated` | `src/examples/send-file` |

How they interact. The main loop is the only task that touches the peer table, the kept channels
and the writers; it takes its events from the IPC server, libp2p, ctrl-c and the channel of sync
batches, and handles each to its end, awaits included. Clients hear of what happens by broadcast
(`emit_event`). A pairing makes a peer `Verified`; only then are sync offers of that peer acted on
and chunks sent to it. The collector is shared with its timer task under an `RwLock`. A file is
announced by `send_file`, from a client or from `handle_sync_offers`.

What is hard here: two nodes and several clients that act on the same pairing, with mDNS adding and
removing the peer meanwhile; requests that time out on one side only; restarts that load an old
table; the timer that races with the last offer; tasks that wait for the main loop while it waits
for them; messages of one transfer that overtake one another or are lost; a file that changes
between its announcement and its transfer, or while it is read; sizes that are not a multiple of the
chunk; a write that is still in the background when the file is handed on; handlers that are dropped
while they wait (Android); a second daemon on the same socket file and the same profile.

The properties that make each part correct are in section 3; the hazards, each at its line, are in
`PROJECT.json`, with the properties that watch them.

## 2. Modules

Each module is followed by `MC<module>` where TLC needs a definition of its own (a function of versions or
requests, a symmetry set). The proofs (section 4) are in `PairingProofs`, `SyncOfferProofs`,
`FileTransferProofs`, `SendPipelineProofs`, `ProfileProofs` (with those of `SocketFile`), `IPCProofs` (with
those of `Framing`), `PeerViewProofs` and `AndroidServiceProofs` (with those of `AndroidLoop`). Where one
module of proofs extends two modules, these have names of their own throughout.

`Pairing` models any number of nodes with their peer tables, explicit peers, kept channels, clients with
prompts and answers, saved tables, and requests that travel. A request is one record with a `phase`:
`sent` on its way, `held` with its channel at the receiver, `accept` / `deny` with the response on its
way back, `lost` when its channel can no longer be used, `done`; and `waiting` says whether its sender
still waits, so that each side can fail alone. An mDNS record is a pair of a peer and an address, as one
peer has several. The table keeps only the verification state; hostnames are in `PeerView`, and
`GossipsubNotSupported` removes a peer just as `DisconnectPeer` does. The prompt is the `InCommingVerify`
state of the terminal client. A save may fail, as its result is ignored. A restart loads the saved
table, also the `Verified` states in it.

`Consent` is what pairing promises: trust in a peer is gained only when the user of one of the two
nodes has accepted the other, and is lost or recalled in any way: that one side has lost it and the other
has not, or that a restart recalls a peer that was disconnected, is what the code does and breaks no
property here. `Pairing!ImplementsConsent` maps
the history of accepted peers to `consent` and the `Verified` entries to `trust`.

`SyncOffer` models one daemon: its table as the other handlers change it, the collector, the main loop
(`select`, or waiting for the lock or for room in the channel), the timer task, and the channel for one
batch. The lock is held across steps only by a task that waits to send, so it is derived from `sending`.
`HandleOffer` is everything from taking the lock to the end of the handler: the new collector and its
timer, the loop over the list, the test for completion. `HandleBatch` changes nothing but the channel: it
sends this node's own file to the peers of the batch, which is `FileTransfer!SendFile`. The service on
Android runs the same handlers in a loop of its own, which drops a handler that waits when another event
is ready: with the handler goes the collector it had taken, or the offer it was to add.

`Registry` models the table `regist_file` and the raw store. A row is a function on the columns that are
given a value, as the code leaves one out that the migration demands. It follows that `regist_path` never
succeeds, that what a node offers is an empty list, and that only raw items are sent today, which the run
`registry` shows. `SyncOffer` does not depend on that: it models the protocol for any list.

`FileTransfer` composes the registry of a sender with a receiver and a network without order that may lose
any message. Sizes are counted in half chunks, so that a file may have a partial chunk; the contents of a
chunk are its place (reads that come short are in `SendPipeline`). A raw item has its size, a file any size
whenever it is looked at. The item of a session is looked up when it is announced and again when it is read,
so that it may have been replaced or unregistered in between (`EditRegistry`). `DoSendFile` is one step, as
the sender's main loop does nothing else meanwhile; its inside is `SendPipeline`. `Write` is the write of a
tokio file: taken into memory (`flying`), carried out by the next seek, by itself (`Flush`) or never, when
the daemon stops; it may also fail in the background, and then the next write is refused in its stead
(`FlushFails`, `failed`). A client that is told of a file reads it when it likes (`Load`, the example
client). A restart of the sender forgets its raw items and the answers it waits for, one of the receiver its
writers and the writes in the background. A dropped handler on Android sends some chunks and no Done, or
closes a writer and tells nobody. The responses to chunks are only logged and left out.

`Transfer` is what a client may rely on: a file is collected while it is open, reported once, and nothing
is collected afterwards; one chunk at most is still owed to the file when it is reported, and may be missed
(`Miss`).
`FileTransfer!ImplementsTransfer` maps the writers and `updated` to `state`, and `flying` to `owed`.

`SendPipeline` models `do_send_file`: reader, compressing tasks, channel, main loop, ctrl-c, read errors,
and the handler that is dropped on Android. The file is counted in half chunks and may grow while it is
read (`Grow`). Every chunk is one read (file.rs:86), which may bring less than a chunk wherever it is in the
file (`BytesRead`), while the place it is sent to is its number times the size of a chunk (`Place`); `short`
and `misplaced` record what follows from that. The order of the channel is left out,
as chunks carry their index. Compression into memory does not fail.

`SocketFile` models daemons and clients around one socket file. A daemon looks for the file (`Refuse`,
`Open`), binds later (`Bind`), and on every way out but a kill removes what is at the path, at ctrl-c
even twice (`Quit`, `Drop`). A client looks for the file and then connects (`Find`, `Connect`). `stolen`,
`overlap` and `wrong` record a file removed by another daemon, a start amid another daemon's start or
stop, and an error text that was not true when it was given.

`Profile` extends it by what these daemons share besides: the key and the paired peers in the secret
service of the user. `main` reads the peers, reads or makes the key, saves it, and only then looks for the
socket file, in steps that a kill or another daemon may come between. What cannot be read counts as not
there, and a save may fail. The table of a daemon that serves is reduced to the pairings in it; how it
changes is in `Pairing`. `due` collects the pairings that the only process that was up has saved, `anew`
records a key made, or two starts, while another process was up. All daemons are given the same socket
path: daemons with different `--sock` share the profile too, and are not kept apart by anything.

`IPC` models one daemon, its clients, and the queues between them: the socket in each direction, the
daemon's queue and each client's. Both event loops wait for room when they write and read nothing
meanwhile. Requests have no content: whether one is answered by an event is decided when it is handled.
`Handle` is `IPCServer::recv` and the handler; a broadcast then reaches the clients one by one (`Reach`,
`Lose`), in any order, as `id_map` is a hash map. A write that is given up may leave half a frame
behind; what becomes of the frames after it is in `Framing`, and `ReadFrame` takes it from there: the
reader ends, sooner or later, while the other half of the socket stays open (`Closed`). Events are
numbers; what they say is in `PeerView`.

`Framing` models one direction of a socket in bytes: `send_to_stream`, which may write a frame in parts
or give it up, and `StreamReader`, `read_chunk` round by round. A byte is a pair of a message and a
place; bytes that are no size are read as any size. `Decoded` says what `ciborium::from_reader` makes of a
body: one that begins with a whole body is that message, whatever follows; a piece of a body from its start
is none; and any other mixture, such as the piece of a frame given up filled up by the size of the next
frame, is none or a message that nobody sent (`Forged`). CBOR and the four little-endian bytes are left out.

`PeerView` models what the terminal clients of one daemon show: the table with states and hostnames, the
events that tell of it in their order, the requests of the clients, their list and prompt. `Step` says
that a handler begins only with room for what it has to tell; who waits for whom meanwhile is in `IPC`.
`quiet` collects the peers that `VerifyConfirm` and `DisconnectPeer` have changed, of which no client is
told.

`AndroidService` models the life cycle of the native service: instances of `LocalaxService` one after
the other, the coroutine of `onDestroy` in its steps, the globals `SERVICE` and the quit channel, and a
coroutine in `listen()` for each start, from `get_service` over the two locks to the loop. An exception
that leaves a coroutine ends the process (`crash`). `init` replaces the quit channel and drops the sender of
the old one: a loop that still listens there gets an error at once each time, ignores it (service.rs:163) and
goes round without being pending, so that its coroutine cannot be cancelled (`Spinning`) but for the moment
in which a handler of its waits (`CancelAmid`). It still takes events and keeps the lock.

`AndroidLoop` models the event loop of one such service from inside. The handler of a network event runs
inside a branch of `select!`, so that it is dropped when another branch is ready while it waits for room;
the handler of a client event is not, and `save_peers` blocks its thread instead. On the other side of the
queue, one coroutine for each start takes an event and stores it, passes it to the view model, or moves the
file it tells of to its place (`Move`, which replaces nothing, and whose exception ends the process) and
asks the service to register it (`RegistFileId`), waiting for room in the queue of client events.
A table is the set of the changes it has seen. A service may start again (`Begin`): in the same process,
when the last one is over, with whatever that one left in the queues (`Recreate`), or in a new one after an
exception or a kill (`NewProcess`); services that overlap are in `AndroidService`. `untold`, `missed` and
`crossed` record why a list may be old, `crossed`, `cut` and `late` why a stored table may be, `moved` and
`lost` where files went.

Definitions whose comment begins with "Mutant" are wrong on purpose: each is a plausible mistake in
one definition and shows that a property can fail; no specification uses them.

## 3. Runs

| Run | Bounds | What it checks |
|---|---|---|
| `pairing` | 2 nodes, 2 requests; either 2 clients each, 1 address and no restart, or 1 client, 2 addresses and 1 restart each | `ChannelSlots`: a request that is held is the one kept for its sender. `PromptAnswerable`: a prompt without a channel has been answered, or its stream failed. `AcceptIsMeant`: an Accept is sent only for a user's yes to that peer. `VerifiedByConsent`. `ExplicitFollowsTable`: table and explicit peers differ in two known ways only. `ImplementsConsent` |
| `sync_offer` | 2 peers, 2 files, one of them in 2 versions, 3 offers | `OfferInv`: the types, `TimerHasCollector`: no collector without its timer, and none for the timer of another, but for what a dropped handler leaves; `NotOverdue`: the test for equality is never jumped over; `StuckOnlyBehindBatch`: the two ways, and no other, in which the main loop waits for itself; `NewestIsKept`: against the first offer of every peer's first list; `CollectionEnds`: a collector ends, and its batch is handled unless another one waits behind it or its handler was dropped |
| `file_transfer` | 1 session, 1 file, path and application, raw items of nothing, three and six half chunks, sizes up to three chunks, 3 requests to the registry, 2 restarts | `WriterInv`: the types, `WithinDeclared`: nothing is written past the announced size, and `NoLeak`: writers stay open only for broken sessions; `ImplementsTransfer`: a file is reported once and then never written again, but for the write under way; `LoadedWithinOne`: a client that is told of a file and reads it misses one chunk at most of those written; `GapsExplained`: why a chunk may be missing; `TransferEnds`: a session ends with `FileUpdated` or is broken |
| `file_transfer_oversized` | 1 session, no restart | expected to be violated, see below |
| `registry` | 2 applications, 2 files, 1 path, 1 raw item | expected to be violated, see below |
| `send_pipeline` | files of up to 6 half chunks, which may grow, reads of one or two of them, capacity 2 | `AllSent`: no chunk that was read is lost or doubled; `InPlace`: a chunk goes to the place it was read from, unless a chunk before it was read short, and then it does not; `StuckOnlyAfterAbort`: with more chunks left than the channel holds; `SendEnds`: everything else ends |
| `socket_file` | 2 daemons, 1 client, 1 kill, 2 keys, 2 pairings | on `Profile`: `OneServes`: two daemons serve only after a file was removed by another daemon, and that needs a start amid another start or stop; `FileExplained`: only a kill leaves a dead file, and when the two errors are not true; `ProfileInv`: the types, and `IdentityKept`: a daemon that serves comes back under its key, with the exceptions named; `PairingsKept`: what was saved stays saved, likewise |
| `framing` | 5 messages with bodies of 1 to 3 bytes, sizes of 2, reads of up to 7, a socket of 9, 2 frames given up | `FrameInv`: the types and buffers, and `ReceivedInOrder`; `FailuresExplained`: the reasons, and no other, for which the reader ends; `AllReceived` |
| `ipc` | 2 clients of which one asks up to 4 times, queues of 1, 3 events, 1 write given up | `QueueInv`: the types and queues, and `NoGap`: a client is sent all events from its first one on, until a write to it fails; `AskerIsAnswered`: also the answer to its very first request; `WaitsEnd`: broadcasts and requests wait for ever only for a client or a daemon that is `Stuck` or does not hear (`Unheard`), and nothing but the end of the client or a write given up resolves that |
| `peer_view` | 2 peers, 2 clients, room for 2, 4 steps of the daemon | `ViewExplained`: why a client may show an old entry; `ViewInv`: the types, and `BlockedIsPassing`: Blocked is shown only until the next list |
| `android_service` | 2 instances, 3 starts | `LoopInv`: the types, `OneLoop`, and `QuitReaches`: a live loop hears its stop; `CrashExplained`: why listening may end the process; `ServedUnlessOverlap`: it ends by itself only through a late cleanup; `LoopsTakeTurns`: `LoopsEnd` with their instance, and what is started runs (`StartedRuns`), unless a loop goes round for ever (`Spinning`) |
| `android_loop` | 2 receiving coroutines, queues of 1, 1 file, 3 changes, files or restarts | `StoreInv`: the types and the queue, `StoredExplained`: no save is lost but with its coroutine or process, though two may be swapped, `TableKept`: a service knows what any service before it has saved, unless that was swapped, lost, or still on its way when it started, and `FilesExplained`: a file received whole is moved to its place unless its handler was dropped behind `remove` or its event ended with its coroutine or process; `ShownExplained`: the reasons for an old list; `LoopMoves`: a handler ends unless the loop and the coroutines wait for one another, and the loop ends with its service unless it is blocked in a save |

The types of every module are proved (section 4); in most modules they are a part of the invariant that
is named first (`OfferInv`, `WriterInv`, `FrameInv`, `QueueInv`, `ViewInv`, `LoopInv`, `StoreInv`).

Bounds. The run of `Pairing` holds two instances (`in_use` in `MCPairing` says which): one has the clients,
the other addresses and restarts, as both together are beyond TLC. Nodes, clients, addresses and requests
are interchangeable, and all its properties are safety, so that symmetry is sound. Three nodes are beyond
TLC too, and every property speaks of two nodes at a time. Two requests are enough for one to replace the
other, to cross in both directions, and for a late response to meet a new request. Two peers and three
offers fill a collector, leave one late, and put a second batch behind an unread one; one file in two
versions is enough to prefer one, and a second one makes a list. Files up to three chunks have an empty
file, a partial only chunk, a partial last chunk and whole ones, and room for two chunks to come late;
sessions share only the registry, which the requests in between change as another session would see it;
three requests to the registry register an item, replace it and remove it while it is under way, and two
restarts hit both ends or one of them twice. Six half chunks with capacity 2, read one by one, leave more
behind than the channel and the main loop can take, put several chunks behind a short read, and let a file
grow in its middle. Two daemons steal each other's file when the one that cannot bind is dropped, and share
a profile from a second start on; the third daemon, second client and further kills that earlier runs had
show nothing new, and the proofs cover them. Queues of one are full soonest, which is what the properties of
`IPC` are about; a third event shows a gap between two others, and four requests fill one direction behind a
reader that has ended. In `Framing` a read may hold less than a size, end within a size, right behind it or
within a body, and may hold two whole frames; a frame given up may leave a size, a piece of its body, or
nothing. Two clients in `PeerView` let one change what the other shows, and a verification with all that is
told of it takes no more than two of the four steps. Two instances of the Android service give one that is
cleaned up late, before, amid and after the start of the next; three starts give one of them a second one.
In `AndroidLoop` queues of one with two coroutines let two events be under way while a handler waits for
room, and three changes, files or restarts put a second file on the place of the first, a save behind a
coroutine that waits, and a save of one service into the next. The excuses that these properties name
(`stolen`, `cut`, `Stuck`, `Unheard`, `quiet`, `overlap`, `twice`, `untold`, `missed`, `crossed`, `cut`,
`late`, `Jammed`, `anew`, a blocked save, `Spinning`, `short`, `failed`, `Forged`) are reached within these
bounds; a loop that is `Jammed` in the handler of a client event needs two requests in the queue.

Deadlock is not checked: in every module the bounded inputs run out, and the real system may simply be
idle. Where it matters that something goes on, a liveness property says so.

Fairness. `SyncOffer!Fairness`: tasks that can run do run and the sleep of the timer ends; strong fairness
for `HandleBatch`, because `select!` polls its branches in random order and does not pass over a ready one
for ever, and for `TimerConsumes`, because tokio's lock queues its waiters. `FileTransfer!FairSpec`: a
message under way is delivered or fails, at the latest by the timeout of 600 s, and event loops take every
event; nothing is assumed of users, of the pairing and of restarts. `SendPipeline!Fairness`: weak fairness
for each task; nothing is assumed of ctrl-c and read errors. `IPC!Fairness`: the tasks that move frames,
handle and write do not all stand still as long as one of them can go on, which is less than the scheduler
gives each of them, and enough, as every such step uses something up; nothing is assumed of new requests, of
network events and of the end of a client. `Framing!FairFraming`: the writer writes while there is room, the
reader reads what is there. `AndroidService!Fairness`: weak fairness for the cleanup and for each coroutine
in `listen()`; nothing is assumed of Android, nor that a loop that spins ever waits in a handler
(`CancelAmid`). `AndroidLoop!LoopFairness`: the loop and the coroutines do not all stand still as long as
one of them can go on, and the cleanup (`StopService`, `DropLoop`) is not passed over for ever; nothing is
assumed of network events, of the user and of Android.

Where the code does not do what its own text says. Two runs show it as a violation:

| Run | Text | What the code does |
|---|---|---|
| `file_transfer_oversized` | writer.rs:89 "oversized read" | a partial last chunk fits and is refused |
| `registry` | database/src/lib.rs:64 "already exists: {} {}", said of a file registered before | no file registered with a path is ever found: the insert (lib.rs:67) leaves the column `version` without a value, which the migration (m20220101_000001_create_table.rs:18) demands. LocalaxService.kt:170 asks the service to register each file it has moved; the request is always refused, of which an Error event tells (`AndroidLoop!TakeRequest`) |

The others show in the exceptions that a property has to name, or in what it says outright:

- message.rs:264 "collect the offer from other peers": after the first file of a peer `insert` returns
  early, and the rest of its list is dropped. `NewestIsKept` holds for lists of any length, and speaks of the
  first offer in each; what stands behind it may be newer than what is kept.
- message.rs:279 "if collector is received all offers from other peers": the expected number is fixed at
  the first offer; a peer discovered since is not waited for (`NewCollector`), and a collector created
  when no peer was known waits for its timer (`NotOverdue`, in `OfferInv`).
- message.rs:194 "request file error": the file is not requested from its newest holder; this node sends
  its own to it (`HandleBatch`).
- file.rs:326 "transfer file done": Done may overtake chunks, and the file is reported all the same
  (`GapsExplained`).
- localex-ipc/src/lib.rs:36 "application has already running": a file left behind by a killed daemon is
  enough; lib.rs:146 "daemon is not started": one runs whose file another daemon has removed
  (`FileExplained`).
- localex-daemon/src/lib.rs:30 "can't get libp2p keypair": with `--no-save` and without `--new-profile`
  there never is one, and the daemon panics before it has done anything (`StartUnsaved`).
- store.rs:130 makes a key also when the saved one cannot be read, and lib.rs:34 saves it
  before the socket file is looked for: a start that is refused replaces the identity of the daemon that
  runs (`anew` in `IdentityKept`). Likewise peers that cannot be read are none, and the next save forgets
  them (`due` in `PairingsKept`); a paired peer that expires, is disconnected or asks again leaves the
  table, and the next save forgets it too.
- event FileUpdated, on which a client reads the file: the last write may still be in the background
  (`LoadedWithinOne`).
- file.rs:86 and 265: a read that brings less than a chunk before the end of the file, which `read` may,
  puts everything behind it at a wrong place (`InPlace`).
- writer.rs:94: a write that fails in the background is reported for the next one, which is then refused as
  well, or never (`GapsExplained`).
- ipc.rs:65-69 gives a frame up behind a part of it and goes on with the next one over the same stream: the
  reader may hand on a message that nobody sent (`ReceivedInOrder`).
- service.rs:163 takes only a message on the quit channel for the end; once `init` has replaced the channel
  (global.rs:104) the loop of an earlier instance does not end, cannot be cancelled and keeps the queue of
  client events (`LoopsTakeTurns`).
- ipc.rs:186 "reading chunk error": a stream of whole frames fails when a read ends within a size or right
  behind it (`FailuresExplained`).
- writer.rs:74 creates the temporary file in the directory that Android passes as its cache; nothing in
  the repository makes that directory, and without it every `Ready` is refused (in `FileTransfer` a
  `Ready` that is lost, `AndroidLoop` assumes it is there).
- service.rs:58 loads the stored peers when a service starts; a pairing whose save the last service has
  left in the queue is stored only afterwards, and the next save of the new service forgets it
  (`late` in `TableKept`).
- android/src/error.rs:5 "access service before init error": listen comes after init, and a stop has taken
  the service away (`CrashExplained`).

## 4. Proofs

Every safety property that a passing run checks is a theorem as well, and so are both refinements; the
liveness properties are not. The proofs assume only the named assumptions on the constants in the modules.
Each rests on an inductive invariant, which TLC checked before it was proved; what that adds to the
properties is said here.

`PairingProofs`, for any sets of nodes, clients, addresses and requests and any number of restarts:
`TypeCorrect`; `ChannelsInTheirSlots`; `PairingNeedsConsent` (`VerifiedByConsent`); `AcceptsAreMeant`
(`AcceptIsMeant`); `ExplicitPeersExplained` (`ExplicitFollowsTable`); `PromptsAreAnswerable`;
`PairingImplementsConsent`. The types and the slots are inductive together once it is added that a
request has two different ends as soon as it is sent: without it, a request could be held by a node
that never received it. `VerifiedByConsent` is not inductive: a `Verified` entry may be made by an
answer or an Accept still on its way, so the invariant adds that every yes in `answers` and every
Accept was meant (`AnswersMeant`, `AcceptIsMeant`). The explicit peers need that too, as an Accept makes
its peer explicit; the prompts need the slots, as a channel that is gone was taken by an answer to a
request of that very peer, or failed. The refinement follows: `HandleConfirm` and `ReceiveResponse` gain
trust that is grounded, `Answer` is consent, `Restart` a recall.

`SyncOfferProofs`, for any number of peers, files and versions and lists of any length:
`CollectorsHaveTimers` (`OfferInv`), `OnlyABatchHoldsUp` (`StuckOnlyBehindBatch`) and `NewestOffersWin`
(`NewestIsKept`: what is kept for a file was the first offer of its peer and is as new as the first offer of
any other). The invariant adds where the tasks are while the lock is held (`Phases`), and that the
collector holds what it was given and nothing else (`Fed`). `InsertList` is a fold over the places of a
list; that a list comes to its first offer (`FoldOfInserts`, message.rs:264) is shown for every list by its
smallest counterexample, and so is the existence of the function that the fold chooses.

`FileTransferProofs`, with `Registry`, for any number of sessions, files, applications and restarts and
items of any size: `WritersKeepWithin` (`WriterInv`), `EveryGapIsExplained` (`GapsExplained`),
`ClientMissesOneAtMost` (`LoadedWithinOne`) and `TransfersImplement` (`ImplementsTransfer`). The invariant
is one of each session (`SessionInv`): Ready is alone on the network, then the response, then the rest
(`Begun`, `Answered`); a writer is open from Ready to Done (`Writing`); what is in the file fits, and one
write at most is under way (`Written`); every chunk that was read is in the file, on its way, dropped, or
does not fit (`Accounted`), where `dropped` has those whose write failed in the background too. A step looks
at one session and leaves the others as they are (`SameSession`).

`SendPipelineProofs`, for any number of chunks and any capacity: `TypeCorrect`, `EveryChunkSent`
(`AllSent`), `ChunksInPlace` (`InPlace`) and `StuckBehindAbort` (`StuckOnlyAfterAbort`). The invariant says
where every chunk that was read is, at which place of the file the reader stands (at its number times a
chunk, or before that once a read was short), that it leaves its loop for a reason, and that the main loop
leaves the channel only after an abort or when nobody can send any more; the properties follow from it.

`ProfileProofs`, for any number of daemons, clients, kills, keys and pairings. Of `SocketFile`:
`TypeCorrect`, `FileExcludes` (`OneServes`) and
`FileMeansWhatItSays` (`FileExplained`: `FileIsLive`, `StolenOnlyInOverlap`, `ErrorsExplained`).
`OneServes` is not inductive: it is that every daemon that serves owns the file as long as there was no
theft (`Owned`). For `StolenOnlyInOverlap` the invariant adds what holds as long as nobody overlaps: one
daemon at most is up, and the file is its own or is not there (`Alone`). Of `Profile`:
`ProfileImplementsSocketFile`: every step of `Profile` is one of `SocketFile` or leaves it alone, so that
all the above holds of daemons that share a profile; `IdentityIsKept` (`ProfileInv`) and `PairingsAreKept`
(`PairingsKept`). `IdentityKept` speaks of daemons that serve; the invariant (`Same`) adds the processes on
their way there: as long as none made a key beside another, one whose key is not the saved one has not
saved it yet, and nobody else has come past that point. For the pairings, what was saved by the only process
up is in the table of every process that may save its own (`Held`).

`IPCProofs`. Of `IPC`, for any number of clients, requests and events and queues of any length:
`EventsAreInOrder` (`QueueInv`), `AskersAreAnswered` (`AskerIsAnswered`), and `StuckForEver`: what
`WaitsEnd` says of single steps, that a daemon stuck with a client remains so. `NoGap` needs only that the
daemon writes to clients it knows, the present event to those not yet reached (`Written`). Of `Framing`, for
any number of frames of any sizes and any capacities: `FramesAreInOrder` (`FrameInv`) and
`ReadersEndForAReason` (`FailuresExplained`). The invariant is about the bytes from the body in the making
over the read buffer and the socket to what is still to be written (`Stream`): they are in the order in
which they were sent and come after every message handed on, and without a frame given up and without an
unlucky read each is followed by the next, and a reader at the start of a frame finds its first byte
(`Aligned`). The order of the messages that were sent needs no more than `Stream`; that all were sent and
none is missing needs `Aligned` (without it a body may be `Forged`). That bytes of a frame which follow one
another make up a frame is shown along the frame, again by the smallest counterexample.

`PeerViewProofs`, for any number of peers, clients and events: `ListsAreExplained` (`ViewExplained`) and
`BlockedIsNeverKept` (`ViewInv`). A list tells what the table holds but for what nobody is told; the
invariant adds that the last event on its way to a client is such a list (`LastIsList`), that nothing in
the table is Blocked, and that a client unknown to the daemon has nothing to ask but for the list
(`Strangers`).

`AndroidServiceProofs`. Of `AndroidService`, for any number of instances and starts:
`OneLoopOnItsChannel` (`LoopInv`), `EveryCrashIsExplained` (`CrashExplained`) and `ServiceGoesOn`
(`ServedUnlessOverlap`). As long as no instance was created before the cleanup of an earlier one had
ended, one instance is alive and everything is its own (`Apart`). Of `AndroidLoop`, for any number of
coroutines, files and changes and queues of any capacity: `SavesAndFilesAreKept` (`StoreInv`) and
`ShownListsAreExplained` (`ShownExplained`). The invariant adds what each handler has still to emit, which
is true of the table, as that does not change while the handler waits (`Handlers`), and that the last
save, or list, on its way is the one that counts (`LastSave`, `LastList`). The files are an equation of
counts: one received is in one of the three queues, moved, or lost.

Only model-checked: all liveness (`CollectionEnds`, `TransferEnds`, `SendEnds`, `AllReceived`, `WaitsEnd`
but for `StuckStays`, `LoopsTakeTurns`, `LoopMoves`), as fairness and ENABLED are outside the prover's
reach. The prover cannot use an induction principle, which takes an operator as a parameter; where
an induction was needed, that every set of numbers has a smallest one took its place.

## 5. Plan

Written, in this order: `Consent`, `Pairing`, `PairingProofs`, `SyncOffer`, `FileTransfer`,
`SendPipeline`, `SendPipelineProofs`, `SocketFile`, `Framing`, `IPC`, `PeerView`, `Registry` (now part of
`FileTransfer`), `AndroidService`, `AndroidLoop`, `Transfer`, `Profile`, `ProfileProofs`,
`FileTransferProofs`, `AndroidServiceProofs`, `IPCProofs`, `SyncOfferProofs`, `PeerViewProofs`.

Next, in this order:
1. A queue without loss and reordering as the abstract specification of `Framing` (one direction of a
   socket), and `IPC` on top of it.
2. Hostname gossip between nodes: `Subscribed` and the broadcast, on top of the peer table.

Next proof: that `Framing` implements that queue as long as no frame is given up and no read is unlucky,
for which `FramesAreInOrder` and `Aligned` are the ground.

## 6. Not modelled

The logger (no state), the running of the migration (its columns are in `Registry`), generated bindings
(`localax.kt`, `uniffi-bindgen`), screens and themes, the encoding of what is in the secret service,
`U32BitVec` (used by no code), the conversions for the generated bindings (`ffi.rs`), the configuration
of libp2p. libp2p itself appears as the code uses it: requests may be lost, late, reordered, or fail on
one side only; mDNS reports a record once when it appears and once when it expires.

Left out of the parts that are modelled: `update_version` and `update_path`, which nothing calls;
`SendCustomMessage` and `ReceivedCustomMessage`, which keep no state; `LocalInfo`; `RequestChunk`, which
nobody sends; `prepare` failing on Android, which is reported and then ignored. The verification
dialog of the Android application answers as the prompt of the terminal client does (`Pairing`); that each
new activity collects the events of the user interface once more sends a request twice, which more
requests in `Pairing` and `AndroidLoop!Dispatch` cover.
