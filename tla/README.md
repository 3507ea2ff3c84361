# A verification project for CollabHub

CollabHub is a server-authoritative collaboration runtime: clients submit *operations* against a document,
one authority resolves them in order and appends them to a canonical log, and everybody converges to the
document that log produces. This directory holds TLA+ models of the parts of the repository that make this
promise come true, the TLC configurations that check them, and machine-checked proofs about the core.

Paths below are relative to the repository. `packages/server-distributed/src` is abbreviated `sd/`.

## 1. The system

### Components

| component | state | operations |
|---|---|---|
| Room Worker, `sd/worker.ts` | `sessions` (one warm session per room: owner epoch, state, version, recent operations, a serial promise chain), `activating`, both in memory | `submit`, `snapshot`, `activate`, `process`, `reload`, `persistRejection`, `evictSession`, `maintainSessions`, `sweepRooms`, `dispatchOutbox`, `close` |
| PostgreSQL store, `sd/postgres-store.ts` | `document_head` (version, schema, snapshot pointer, owner epoch and instance), the operation WAL, receipts, snapshots, outbox | `ensureDocument`, `claimOwnership`, `loadRoom`, `lookupReceipt`, `recordReceipt`, `commit`, `migrateDocument`, `saveSnapshot`, `eventsAfter`, `headVersion`, `compact`, `claimOutbox`, `markOutboxDelivered` |
| Redis coordinator and router, `sd/redis-coordinator.ts`, `sd/router.ts` | registrations and leases with a TTL, the route to a room's owner, Pub/Sub channels, token buckets | `register`, `heartbeat`, `publishOwner`, `renewOwner`, `releaseOwner`, `resolve`, `invalidate`, `publish`, `consumeRateLimit` |
| Gateway, `sd/gateway.ts` | one hub per open document (`cursor`, `connections`, one `catchup`), one record per WebSocket (`phase`, `lastSentVersion`, `queuedEvents`, `catchup`) | `hello`, `submit`, `recover`, `synchronize`, `sendEventsAfter`, `onRoomEvent`, `deliverEvent`, `checkWatermarks`, `catchupHub`, `detach` |
| Operation pipeline, `packages/server-core/src/index.ts` 178-278 | none | `prepare` decides: resync, rejection, or patches and a next state |
| Standalone session and room cache, same file 290-641, with `packages/server-ws` and its file storage | state, version, results and operations of a room in memory; the map of warm rooms with their leases; snapshot and WAL file; peers of each room | `submit`, `process`, `load`, `persistSnapshot`; `session`, `acquireRoom`, `sweepRooms`, `finishEviction`, `close`; the socket's `hello`, `submit`, `recover`, `close` |
| Browser client, `packages/client-core/src/index.ts` | canonical and projected state, `pending` queue, socket, diagnostics; a durable queue in IndexedDB shared by tabs | `connect`, `submit`, `handle` of each server message, `flush`, `restorePending`, `persistMutation`, `reproject`, `execute` |
| Patches, strategies, typed models: `packages/domain-json`, `packages/model` | none | `applyCanonicalPatches`, the four built-in strategies, `diffJsonObjects`, a model's pack |
| Domain Packs of the examples: todo, react-flow, blocknote, yjs-hybrid | none | commands, invariants, version policies |
| BlockNote runtime, `examples/blocknote-app/src/collab` | the editor's blocks, what is dirty, timers, recent projections | `applyLocalChange`, `scheduleUpdate`, `dispatch`, the subscription to the document |
| Todo server, `examples/todo-list-app/server` | one draft with its log in memory and in a file; who is in the room | REST `GET`, `POST`, `PUT`; `hello`, `submit`, `leaveRoom`; the storage adapter |
| Yjs body, `examples/yjs-hybrid-app` | a Yjs document in each page and one in the memory of a server | open, update, close and reconnect on both sides |
| Protocol, identity, strategy SDK | none | envelope assertions, `operationFingerprint`, schema migration paths |
| Everything else | | React helpers, project generator, user interfaces, deployment, smoke scripts, authentication |

### How they interact

A browser page opens a WebSocket to a Gateway and says hello. The Gateway routes to the room's Worker over
HTTP, fetches a snapshot, sends it, then the WAL rows after it, then `ready`. Submits are sent to the Worker,
which runs them one at a time: receipt lookup, pipeline, one PostgreSQL transaction that appends the WAL row,
receipt, head version and outbox row, or stores the receipt of a rejection. The outbox is published to Redis
Pub/Sub at least once; Gateways forward events to the connections of a hub and compare the hub's cursor with
the head every second to repair what Pub/Sub lost. Redis decides who *should* own a room; PostgreSQL decides
who *does*, by an owner epoch that every commit is fenced with.

The standalone server does without all of this: one process, one session per room in a map, a WAL file and a
snapshot file. Nothing fences a session there, so that there is one at a time rests on the map alone. The todo
example puts a REST API beside such a server, over the same draft. The hybrid example keeps one field out of
CollabHub and in Yjs. Everywhere the Domain Pack computes patches on the server's own document, and the client
shows that document with its own optimistic patches on top.

### What is hard

* Every `await` of a Worker is a place where it may have lost the room. Zombie sessions go on committing,
  rejecting, saving snapshots and dropping map entries.
* A commit may be durable while its answer is lost; the client retries at another Worker or another Gateway.
* `loadRoom` is several queries without a transaction, next to commits, snapshots, migrations and compaction.
* Snapshots are saved by calls nobody awaits, so they arrive in any order.
* Routes, registrations and locks expire on their own, while whoever holds them is still at work.
* A connection may have several `synchronize` calls under way, shares a hub with others, and receives events
  at every `await`.
* A page is reloaded, or another tab is opened, while operations are in doubt.
* A standalone room is looked up, loaded, swept, deleted and closed by callers that interleave at every storage call.
* A command is computed on one document and resolved on another; a text is typed while an older one is under way.
* Two writers, one file: REST requests and a room that is kept warm.

`PROJECT.json` lists every such hazard with its line and the property that covers it, or why none does.

### What makes each component correct

* Worker and store: an operation id is committed at most once; clients never hear two final verdicts; the
  session that may commit holds the canonical document; PostgreSQL can always rebuild that document; a schema
  migration is a barrier.
* Ownership: a repeated request is answered in the end; one worker keeps the room; every committed event is published.
* Gateway: a connection the Gateway regards as settled has everything that was committed before it asked; the
  hub learns of every version; every connection gets it.
* Client: the page shows a document of the log; what it tells the application about an operation is true and
  final; stored operations are not lost; a connected page does not forget what it has pending, and settles it.
* Standalone: one live session per room; it holds what its files hold; leases are counted right; the files and
  the verdicts are those of a canonical log, through restarts.
* Packs and patches: the patches of commands make the document the application makes of them; invariants hold
  whatever a stale command meets; replays are absorbed; a moved entity is where it was asked to be.
* BlockNote: the editor shows the document when it is idle and never takes back what its user does.
* Todo server: an edit that was answered as done stays. Yjs body: nothing falls between exchange and updates.

## 2. The modules

| module | models | from |
|---|---|---|
| `CanonicalLog` | the promise: one log, one entry per id, one verdict per operation | abstract |
| `RoomWorkers` | Workers and PostgreSQL tables of one document, every query a step | `sd/worker.ts`, `sd/postgres-store.ts`, pipeline |
| `Ownership` | routes, registrations, sessions, the Gateways' calls, the outbox | `sd/redis-coordinator.ts`, `sd/router.ts`, `sd/worker.ts`, `sd/gateway.ts` |
| `Gateway` | one document's hub and connections at one Gateway | `sd/gateway.ts`, `eventsAfter` |
| `ClientPages` | the pages of one actor on one document, and the durable queue they share | `client-core`, the Gateway's answers |
| `StandaloneRooms`, `StandaloneServer` | session, room cache and files; the sockets composed with them | `server-core`, `server-ws` |
| `JsonPatches`, `DomainPacks` | JSON documents, patches and differences; strategies, packs, commands, policies | `domain-json`, `model`, the examples' packs |
| `Editing` | clients with pending commands and a server that decides them, on real documents | `client-core`, `server-core` |
| `BlockEditor` | the BlockNote runtime on top of `Editing` | `examples/blocknote-app` |
| `YjsBody` | both ends of the exchange of Yjs updates | `examples/yjs-hybrid-app` |
| `Applications` | `BlockEditor` or `YjsBody`: a document field has one owner and the two share nothing | the examples |
| `DraftServer` | one draft, written by REST and by a room, and its file | `examples/todo-list-app/server` |
| `RoomWorkersProofs`, `RoomWorkersDocuments` | proofs about `RoomWorkers` | |
| `YjsBodyProofs` | proofs about `YjsBody` | |
| `OwnershipProofs` | proofs about `Ownership` | |
| `StandaloneServerProofs` | proofs about the composed standalone server | |
| `GatewayProofs` | proofs about `Gateway` | |
| `ClientPagesProofs` | proofs about `ClientPages` | |
| `DraftServerProofs` | proofs about `DraftServer` | |
| `MC...` | small instances for TLC | |

`CanonicalLog` is the seam: both runtimes, `RoomWorkers` and `StandaloneServer`, are shown to implement it, and
`ClientPages` takes the service to be what it promises (a set of receipts, one log), so the client's properties are
about the client and the Gateway. `Editing` looks at what is in the documents and leaves how messages travel to the others.

### RoomWorkers

A warm session is identified by the owner epoch its activation claimed: epochs are never reused, so the model
needs no other name for a session object. `phase[e]` says what query or transaction the session awaits; the
code between two awaits is one action. `Activate` is `activate`, `ensureDocument` and `claimOwnership`;
`ReadHead`, `ReadSnapshot` and `ReadWal` are the three queries of `loadRoom`, `Migrate` the migration transaction
with the install that follows. `Process` is everything from the receipt lookup to the commit's call, including
the whole decision of the pipeline; `Commit` and `RecordRejection` are the transactions with what the Worker does
on their outcome (committed, duplicate, collision, fenced, version conflict); `ReadHead`, `ReadSnapshot` and
`ReloadWal` are `reload`. `StoreError` lets any of these transactions fail, before or *after* it took effect.
`EvictBegin`, `EvictEnd` and `SnapshotWritten` are the snapshots of evictions and the periodic ones. `RenewFails`
and `Crash` are a lost lease and a lost process, `Compact` is retention.

Where requests go is left open: any warm session may be sent any operation, because routes and leases in Redis
may be stale or gone. So nothing shown here depends on Redis, which is the design's claim.

Abstractions, each chosen so that the properties do not depend on what is dropped:

* a document is the set of versions whose patches it contains and a schema number; applying a stretch of the
  log again, in order, is absorbed. `Editing.ReplayAbsorbs` checks that on real patches: it holds up to the order
  in which a list's items are stored (they are shown by order key), or the replay throws on what is no list any more;
* a strategy is one of three classes: it always merges, it needs its base version to be current, or its outcome
  depends on the state (then either outcome may happen);
* a fingerprint is equality of operation records;
* only the default version policy; hooks of a Domain Pack have no effects of their own;
* after an `exists` outcome the second receipt lookup is merged with the transaction that met it: receipts are
  removed only for ids nobody retries.

### Ownership

Who serves a room, without what is in its document. A request is `activate` or `call` while it travels, `activating` or
`joining` while a worker loads the room, `queued` in a session's mailbox; a call that fails is tried once more
after `invalidate`, and a client repeats what was refused. An activation is `Claim` (which takes the next epoch),
`Load` and `PublishOwner`: the three may interleave with those of another worker, and the route of the older may be
published last. `RenewFails`, `DropUnrenewed` and `DropSession` are `maintainSessions`. `RouteExpires`,
`RegistrationExpires`, `LockExpires` are what time ends; a worker's `Drain`, `Unregister`, `Exit` are its `close`.
The last part is `dispatchOutbox` for one followed row: claim with a lock, publish, mark. Epochs are compared for
equality only, so a number that nothing refers to any more is used again and the model is finite.

### Gateway

Each connection object is one socket, from open to close, and runs `synchronize` any number of times. The async
calls under way are tasks in slots; slot 0 is `connection.catchup`, the others are `synchronize` calls. A task
waits for a Worker's snapshot, for PostgreSQL to run a query, or for the Gateway to go on with a page: events may
arrive in between. `Event` is Pub/Sub: any committed version may arrive at any time, or never. A Worker may answer
with a stale warm session, so a snapshot may be of any version up to the head. `Exit` is the end of the process by
the unhandled rejection of a catchup that nobody awaits. `since`, `failed` and
`tangled` are history variables: when the latest `synchronize` began, which connections had one that threw, and which had
another call under way when it began (or began it inside a catchup).

### ClientPages

A page is one load of the application; a reload, or a second tab, is another page over the same durable queue.
`Load` to `Close` are its life; `Submit`, `Retry` and `Store` are the queue, the `retryLater` timers and the
`persistenceChain`; one `Handle...` action stands for each kind of server message, with everything it changes: the
document, the queue, answers to the application, mutations of the durable queue, recovery, and the flush.
On the service side `Decide` gives an operation its receipt, `Answer` answers one copy of it, and `SendSnapshot`,
`SendEvent`, `SendReady` and `SyncFails` are the Gateway's side of a synchronization. Copies of an operation whose
socket is gone go on in `stray`. The order of the queue is left out: the Gateway handles the messages of a socket
concurrently and promises no order between submits. `MaxFaults` bounds what goes wrong: lost sockets, stale
snapshots, refusals, failed transactions of IndexedDB.

### StandaloneRooms and StandaloneServer

Every `await` of a storage call ends a step. `Look`, `SweepDone`, `LookAgain`, `Loaded` are the loop of `session()`;
`LoadSnapshot`, `LoadWal`, `MigrationSaved` are `load`; `Process`, `Appended`, `Snapshotted` are `process` with the
periodic snapshot and what listeners are sent; `EvictBegin`, `EvictSaved`, `EvictDeleted` are `finishEviction`. A
hello's handler is a task of its own, since a second hello, or the end of the socket, may overtake it: `overtaken` is
the generation check, `orphaned` the check on the peer set. `Crash` and `Shutdown` are the two ends of the process.
All other rooms are `Crowded`, which says whether they may fill the cache.

### Editing and what it is built from

`JsonPatches` has JSON values with their kinds, so that a document in which a list was replaced by a number is a
value too; a throw is the value `Thrown`. `DomainPacks` has the strategies of `domain-json` and the packs of the
examples: a command is adapted to an operation with optimistic patches (`Adapt`), resolved on the server's document
(`Resolve`), checked against the pack's invariants. In `Editing` a client executes commands on what it shows, the server
decides pending operations one by one, and events and results arrive in either order. Order keys are
integers in `Parts` of one, so that halving them is exact.

`BlockEditor` adds one editor per client: `Type` and `Rearrange` are what a user does, `TimerFires` the coalescing
timer, `HearDocument` and `HearOutcome` the document and the settlement of a command with its `finally`.

### DraftServer and YjsBody

In `DraftServer` the code between two waits for the disk is one step: `Stringify`, `Write` and the rename of `persist`
are steps of the process that saves, over one temporary file. A draft is its revision and the set of edits in it.
`done`, `raced` and `unheld` are history.

In `YjsBody` a document is the set of edits merged in it and an update is a set of edits, which is what Yjs promises.
A socket keeps what is sent in order until it is lost with everything under way. A page reconnects after its own
close event; `ServerCloses` is the server's, if it comes first.

## 3. Runs

`tlc -workers 2 -config <run>.cfg <module>`; each run takes from seconds to two or three minutes. Deadlock is off
everywhere: the bounds let each system stop.

| run | module | result | what it shows |
|---|---|---|---|
| `workers_verdicts` | `MCRoomWorkers` | holds | types; one verdict; the owner decides once; one reload suffices; refines `CanonicalLog` |
| `workers_documents` | `MCRoomWorkers` | holds | a rolling upgrade with expiring receipts and compaction: at most one commit; the owner's state is canonical; PostgreSQL can rebuild it; nothing is rebased over versions the session has forgotten; migration is a barrier |
| `workers_compaction_race` | `MCRoomWorkers` | **violated** | compaction during `loadRoom` breaks the owner's document |
| `ownership` | `MCOwnership` | holds | requests are decided, one worker keeps the room, events are published |
| `gateway_recovery` | `MCGateway` | holds | concurrent synchronizations leave a connection at least as fresh as its request; with one connection in the hub everything reaches it, unless its calls overlapped |
| `gateway_shared_hub` | `MCGateway` | **violated** | with two connections one may stay behind for ever |
| `client_tabs` | `MCClientPages` | holds | two tabs, or a page and its reload: documents, answers and the durable queue |
| `client_settles` | `MCClientPages` | holds | an open page forgets nothing and settles everything |
| `client_reload` | `MCClientPages` | **violated** | with the default client id a reload is told a committed operation was rejected |
| `standalone_rooms` | `MCStandaloneServer` | holds | one session orders a room and holds what its files hold; leases are counted; nobody misses an event unnoticed; refines `CanonicalLog` |
| `editing` | `MCEditing` | holds | commands, patches, projections and order of five kinds of pack; the block editor; the Yjs body |
| `draft_server` | `MCDraftServer` | holds | edits that were answered as done survive evictions, failures and restarts |

### Bounds and why they are enough

* Workers: two instances and two epochs give a zombie and an owner, on two instances or on one. The four
  operations of `workers_verdicts` are one of each strategy class and an id used twice; the base versions 0 and 1
  with `MaxRecoveryGap = 1` give operations at, behind and outside the recovery window and ahead of a stale session.
  A session remembers two operations (`HistoryLimit`), none after a migration, and those above its snapshot after a load. A mailbox
  holds one operation: the chain is serial and a waiting operation has touched nothing. In
  `workers_documents` the two instances run different schemas, every version is a snapshot and nothing is retained that
  need not be (`WalVersions = 0`, `SnapshotsPerDocument = 1`, receipts of `a` expire), so that each retention boundary is hit.
* Ownership: two workers, one Gateway with one request at a time, two faults: a crash during the recovery from another.
* Gateway: three versions and pages of three rows, with a WAL of one row after compaction: gaps, late and
  repeated events, holes, and events in front of a hole. A `synchronize` call and a catchup, which becomes another
  `synchronize` at a hole; the proofs are about any number of each. With four versions, pages of two rows and no liveness the
  invariants hold, too.
* Clients: two pages and two operations are two tabs with work of their own, or a reload that takes over; a queue
  of one operation meets its limit. `client_settles` has one page, one operation, two faults and two commits by others:
  the version gap may exceed `MaxRecoveryGap = 1`, and a stale snapshot may follow a lost answer.
* Standalone: two clients, one of which says hello again while its hello is handled; two session objects (the old one
  may outlive its entry); a server that restarts with a new schema; an operation of each schema; both retentions; a cache
  the other rooms fill. `SweepsOverlap = FALSE` excludes what section 4 says of a full cache, and `MaxQueue = 1` what it
  says of an operation that is queued twice.
* Editing: two clients, three commands per behaviour (two for drafts, whose commands are many), `MaxRecoveryGap = 1`. The
  block document starts with two blocks; a user inserts a third at either end, moves a block to the front, removes one,
  types two texts into one block and one into another. Three edits are a change, one that overtakes it and
  one of the other client. The JSON commands include those that replace a list by a value or name an
  unsafe path. The Yjs body has two pages, two edits and two faults; the theorem is about any number.
* Draft: one REST client, two sockets, two REST edits, one operation sent again without limit; faults are unbounded.

`VIEW`s in `MCRoomWorkers`, `MCStandaloneServer` and `MCDraftServer` identify states that differ only in sessions that
can never act again, in what no guard reads, or in history that can no longer matter. `SYMMETRY` exchanges clients, pages,
ids, sockets or REST edits where nothing tells them apart; no run with symmetry checks liveness. (The
refinement properties are safety properties.) `NoSnapshots` bounds `workers_verdicts` to sessions that save no snapshot;
`workers_documents` has them all. `CompactionSparesLoaders` is not a bound but an assumption on the environment, see below.

### Fairness

`gateway_*`: weak fairness of answers and of the continuation of async calls (a `fetch` times out after 5 seconds, PostgreSQL answers
or throws) and of the 1 second watermark timer; strong fairness of the hub's query, because the catchup that fails
is tried again at every tick and the database does not fail every time. Nothing is assumed of Pub/Sub or of clients.

`client_settles`: weak fairness of timers (`setTimeout`), of the arrival of messages on an open socket, and of the
Gateway's answers; faults are finitely many. Not of events: an event may never come, since `gateway_shared_hub` shows
that the Gateway may not send it. A page that was told `disconnect()` is taken to connect again some time.

`ownership`: weak fairness of the steps of a request (calls have timeouts), of a load under way, of what follows a refused
renewal, of heartbeats, expiries, drains and restarts, and of the dispatch interval. Nothing is assumed of a *new* request, a crash, a
failure or an eviction, and those that do harm are bounded by `MaxFaults`; a renewal that comes too late because an event
is being published is such a fault.

### Mutants

Each property of a passing run has a mutated definition beside the one it replaces (comment `Mutant:`), a
plausible bug: a fence that compares the instance instead of the epoch, a snapshot pointer moved without comparing, a
lookup of the room that is not repeated, a hello that keeps a lease after it was overtaken, an upsert that appends. Each
breaks its property in its run.

## 4. What the violations say

1. **Compaction during a load** (`workers_compaction_race`). `loadRoom` reads the head, the snapshot and the WAL in three
   queries; a snapshot and a compaction between them delete rows the load needs. The session gets the full version
   number with patches missing, and its next commit and snapshot make that durable. `CompactionSparesLoaders` says what
   would have to be ensured: no load is under way that has chosen a snapshot below the new floor. With large
   `WAL_RETENTION_VERSIONS` it is likely, not certain, and 0 is accepted.
2. **Shared cursor** (`gateway_shared_hub`). A connection's snapshot raises `hub.cursor` past versions the other
   connections never got; the watermark repair compares that cursor with the head and finds nothing to repair.
3. **Reload and client id** (`client_reload`). Fingerprints cover the client id, the Gateway rewrites it to the
   connection's, and the default one is new at every page load.

Each is listed in `PROJECT.json` with the sentence of the documentation it contradicts.

What the passing runs exclude by a bound or an exemption, because it goes wrong otherwise:

* `catchupHub` and `sendEventsAfter` advance only on rows that are new to the hub or connection; a full page of rows that are not is
  queried again, without end. With `PageSize = 1` `HubRepaired` and `ConnectionsRepaired` fail, but the model is harsher than the code
  there: its hub has one slot, which the endless call keeps, while the timer of the code starts another call beside it, so that what is
  shown is the loop and not that nothing is repaired. With pages of as many rows as are ever committed the loop happens when nothing
  is left to repair.
* When `synchronize` throws, the Gateway answers `retryLater` for an operation called `connection`; the client ignores it
  and waits while its socket stays open. With `SyncMayFail = TRUE` `NothingForgotten` fails.
* While a catchup or the `synchronize` it turned into is under way, an event that does not continue what was sent is dropped, although
  the call may have read its last page. A client that recovers in the middle of that, and stale snapshots, make it possible; the hub's
  cursor is at the head, so that nothing repairs the connection. `KeepsUpWithHub` and `ConnectionsRepaired` exempt such connections
  (`tangled`) until a synchronization of theirs begins with nothing else under way; without the exemption both fail.
* The standalone session remembers the verdicts of its pipeline but not the rejection it answers when the WAL cannot be written. A copy
  of the operation that is queued behind finds no result, is resolved again and commits: with `MaxQueue = 2` `ImplementsCanonicalLog` fails.
* `session()` looks into the map, waits for a sweep when the cache is full, and sets its entry without looking again. A second caller
  that waited for a sweep of its own replaces a session that has a lease: with `SweepsOverlap = TRUE` `OneOrderingPoint` fails.
* With two Gateways whose requests alternate, two workers may go on taking the room from each other.
* In the todo example the guard of the REST routes counts sockets, and the room is kept warm for half an hour after the last one. A REST
  edit saved meanwhile is not in the session's document, which its next snapshot writes over the draft (`unheld`). Edits that race a
  save, or a draft read before it, may be lost (`raced`). `EditsSurvive` fails without either exemption.
* An operation that is retried after its receipt has expired may be committed again, or collides with its WAL row: `Settle` ends the
  retries of an id before its receipt goes.
* In the block editor a text that is typed again while it is under way with another after it looks settled (`again`), and a change
  that equals a recent projection is ignored for a second (`ignored`).

Seen while reading, and not stated by any property: a fenced task deletes a newer session of its worker by key; a stale session
that only reads keeps its route renewed; a worker with an old pack and the top score keeps failing an activation; an
activation in flight at a draining worker publishes after its routes were released; a `reproject` that throws skips the flush after it
(`client-core` 229, 294); `list.move` between neighbours without `orderKey`, which `json.create` does not set, or
once the precision of a rank is used up, does not move.

## 5. What is proved

TLAPS checks the following for every value of the constants, from the named assumptions on them and nothing else.

| theorem | module | statement |
|---|---|---|
| `TypeCorrect`, `TypesCorrect` | `RoomWorkersProofs` | `Spec => []TypeInv`, `Spec => []TypeOK` |
| `VerdictsInvariant` | `RoomWorkersProofs` | `Spec => [](TypeInv /\ VerdictInv)` |
| `CommittedAtMostOnce` | `RoomWorkersProofs` | `Spec => []AtMostOnce` |
| `VerdictsAgree` | `RoomWorkersProofs` | `Spec => []OneVerdict` |
| `RuntimeImplementsCanonicalLog` | `RoomWorkersProofs` | `Spec => ImplementsCanonicalLog` |
| `DocumentsInvariant` | `RoomWorkersDocuments` | `Spec /\ []CompactionSparesLoaders => [](TypeInv /\ DocumentInv)` |
| `OwnerIsCanonical` | `RoomWorkersDocuments` | the same hypothesis `=> []OwnerStateIsCanonical` |
| `AlwaysRecoverable` | `RoomWorkersDocuments` | the same hypothesis `=> []Recoverable` |
| `BodyIsAlwaysComing` | `YjsBodyProofs` | `BodySpec => []BodyIsComing` |
| `QuietPagesAgree` | `YjsBodyProofs` | `BodySpec => []Agree` |
| `EventsAreNotDropped`, `OwnershipTypes` | `OwnershipProofs` | `Spec => []DeliveredWasPublished`, `Spec => []TypeOK` |
| `OwnersDecideOnce` | `RoomWorkersProofs` | `Spec => []OwnerDecidesOnce` |
| `ReloadSuffices` | `RoomWorkersProofs` | `Spec => []OneReloadSuffices` |
| `MigrationsAreBarriers` | `RoomWorkersProofs` | `Spec => []MigrationIsBarrier` |
| `HistoriesAreComplete` | `RoomWorkersProofs` | `Spec => []HistoryIsComplete` |
| `ServerInvariant` | `StandaloneServerProofs` | `NoOverlap => (Spec => []Inv)` |
| `OneSessionPerDocument`, `SessionsAreDurable`, `LeasesCounted`, `EventsReachLeases` | `StandaloneServerProofs` | the same hypothesis, `Spec =>` always `OneOrderingPoint`, `SessionIsCanonical`, `LeasesAreCounted`, `NobodyMissesAnEvent` |
| `StandaloneImplementsCanonicalLog` | `StandaloneServerProofs` | the same hypothesis, `Spec /\ []OneCopyQueued => ImplementsCanonicalLog` |
| `TypeCorrect` | `GatewayProofs` | `Spec => []TypeOK` |
| `SettledFresh` | `GatewayProofs` | `WalVersions >= 1 /\ Spec => []SettledIsFresh` |
| `HubReachesConn` | `GatewayProofs` | `WalVersions >= 1 /\ Spec /\ []Alone => []KeepsUpWithHub` |
| `PagesShowPrefixes`, `QueuesAreDurable` | `ClientPagesProofs` | `Spec => []DocumentIsPrefix`, `Spec => []NothingLost` |
| `PagesRemember` | `ClientPagesProofs` | `~SyncMayFail /\ Spec => []NothingForgotten` |
| `AnswersAreTrue` | `ClientPagesProofs` | `SameClient /\ Spec => []OutcomesAreTrue` |
| `DraftsInvariant`, `EditsAlwaysSurvive` | `DraftServerProofs` | `Spec => [](TypeInv /\ Inv)`, `Spec => []EditsSurvive` |

**Types.** `TypeOK` is not inductive: handlers read the head of a mailbox and the Domain Pack of a session's worker.
`Shape` adds which phases hold operations, that unused epochs are above the head's, and that a map entry is a warm
session of that worker.

**Verdicts.** `VerdictInv` says that receipts are unique per id and true of the log; that every log entry has its receipt
unless its id is no longer retried; that no mailbox holds an id that is no longer retried; and that what clients were told is
true and covered by a receipt. Commit and `recordReceipt` look for the receipt in the transaction that decides, so a
decided operation is never decided again: `OneVerdict` and `AtMostOnce` follow, for owners and zombies alike. The steps
are sorted into five kinds of change (nothing, an answer, an acceptance, a rejection, a deletion of receipts), one lemma
each; the refinement of `CanonicalLog` uses the same lemmas.

**Documents.** A document *belongs to* version `v` when it contains everything up to `v`, and perhaps more: the queries of a load are not one
transaction, so what a fenced session holds, and even stores, may be ahead of its label. `DocumentInv` states this of
snapshots, saves under way, loads and sessions; and that a document newer than the snapshot pointer is in the head's
schema, since a migration moves the pointer to the head. A session that may commit has the head's version, hence
exactly the canonical document; the pointer's snapshot with the WAL above it is the canonical document because replay
absorbs what the snapshot has already. The hypothesis is needed: `workers_compaction_race` is the counterexample without it.

**Owners.** The fence compares the session's epoch with the head's, in the transaction: nobody but the owner appends to the log,
adds receipts or changes the schema of the room. So what the owner has read stays true until it acts: an operation it has found
no receipt for has none, the head it has reloaded is the head at its next append, and the schema of its Domain Pack is the room's.

**Histories.** What a session remembers is an unbroken stretch of versions that ends at its own (`Unbroken`): a load remembers the WAL rows
above its snapshot, a migration forgets all, a commit adds the next version, and `Latest` cuts only at the start. No hypothesis on
compaction is needed: it only takes rows from the start. A stretch that is not empty and begins at or below `base + 1` holds all that is
asked for; an empty one makes `NeedsResync` true for every base below the version.

**Standalone server.** `Inv` has five parts. The cache: a session object that is not in the map is at rest or has a caller who
waits for it and will look again; whoever is about to get a lease waits for the session in the map. The files: a session's
document is that of the snapshot with the WAL above it, and the WAL is consecutive. The counts: leases held and leases about to be
held, of overtaken hellos included, are the session's `active`. The events: what a connection has not seen is a version whose periodic
snapshot failed. The hypothesis `NoOverlap` is that the cache is not full or no two sweeps overlap; with both there are two
sessions (section 4).

**The standalone log.** Nothing of the two files but the WAL counts: by `Inv` every document that was read or written is a prefix of it, so
that the log a load builds from snapshot and WAL is all of the WAL (`DurableIsWal`). `LogInv` adds that every verdict sent is true of
the WAL and ids occur in it once; that nothing a client was refused is queued; and that the session in the map, once it has loaded, remembers
every id of the WAL with its version, and as refused only ids that are not in it. So what `appendWal` is given is new, and the answer
after it true. Every step does one of four things (nothing, a true answer, an acceptance, the deletion of the room), as for the
distributed runtime. The hypothesis `OneCopyQueued`, that no operation is queued twice at a time, is needed: the rejection answered when the
WAL cannot be written is not remembered, and a copy queued behind it commits (section 4).

**Gateway.** A call is *responsible* for a connection that is behind its request if its next page starts no later than what was sent
and its last page ends no earlier than the request; every step keeps one responsible call, or the connection is fresh. This needs
the row of the head in the WAL (`WalVersions >= 1`), since a page shows a hole only by the rows behind it. `KeepsUpWithHub` rests on
four facts: a page of the hub skips only versions that were compacted (`HubRows`); so an event that does not continue what was sent
lies behind a hole; the catchup it starts meets that hole in its next page and synchronizes (`MeetsHole`); and while a single call
synchronizes, the queue and the pages left cover everything up to the hub's cursor (`Synchronizing`). `Alone` says that one
connection at a time is in the hub or has calls under way, so that a client may close and come back: `gateway_shared_hub`
is the counterexample for two.

**Client pages.** Four inductive invariants over the types of the state. The document: a page's version and document change
together, and an event or result is applied only at the next version. The durable queue: every removal in a `persistenceChain` is
of an operation that has an answer (`RemovalsSettled`), so that another tab's queue may be mutated in any order. Memory
(`MemoryInv`): behind every snapshot in an inbox its ready is still to come (`ReadyFollows`); a connected page is online, or a
snapshot or that ready is on its way (`Attentive`), so that what it submits now is sent or waits for a message that comes; and every item has an
answer or a timer under way. A failed synchronization takes the snapshot away without a replacement, hence the hypothesis
`~SyncMayFail` (section 4). Truth (`TruthInv`): acceptances in inboxes and queues are covered by the log, rejections by receipts; an operation
refused because the queue was full is nowhere, in no queue, store, socket or log, and stays nowhere (`Nowhere`). A receipt is found by every
page that asks only if the client id is the one it was bound to: `SameClient` says that all pages have one, which an application gets
by passing `clientId`; with the default, which is new at every load, `client_reload` is the counterexample.

**Body.** `BodyIsComing` is not inductive: `BodyInvariant` adds that what a page has sent is in its own document (nobody
relays it back), that what is sent to a page is in the server's (the page tells nobody what it merges), and that a socket the
server has lost has nothing left to be read. Each step then adds the same edits to a document and to what is under way.

**Outbox.** `DeliveredWasPublished` is what remains of `EventsPublished` without fairness: no run checks it by itself, since a row that
is marked too early also breaks the other. `OutboxInvariant` adds to the property that a dispatcher about to mark a row has published its event, and nothing
takes a publication back; a crash or a failed call leaves the row as it is and the dispatcher idle, never about to mark.

**Ownership.** Its `TypeOK` is worth a proof because a claim must find an epoch: numbers that nothing refers to are used again, and there are
only finitely many. `TypeInv` adds that a worker has no more tasks whose caller gave up than there were faults, as each of them was one;
then the numbers that a worker's session, activation, tasks, route, head and requests refer to are fewer than `Numbers` has
(`NumberLeft`). The router's choice needs that a finite set of workers has one with the greatest score (`GreatestExists`). Assumed:
`Workers` and `Gateways` are finite, scores differ, and `Nobody` is not an owner record.

**Todo draft.** Nothing orders the two writers of the draft or their saves. So `Inv` is about who may overlap whom. What was *made*
is every edit that was answered, is in the log, is remembered by the room or is being saved; the draft in memory, every draft that
somebody has read and will write to, and the document of the room hold all of it but the exempt (`MemoryInv`). What was *kept* is the
part that a restart has to find; the file and every text that may become the file hold it (`FileInv`). The two meet in `AloneInv`:
who saves an edit that does not race is the only one who saves, and what it has written so far has the edit, so that the edit is in
the file when it is answered. `SocketInv` counts the sockets, so that a REST edit passes the guard while the room holds a draft of its own only
if nobody is in it, and is then exempt (`unheld`). The exemptions are those of section 4. Assumed: `Room` is no caller and
`NoText` no file (`NoneIsNone`). `EditsAreOfOneKind` is not needed.

Only model-checked: `Editing` and `BlockEditor`. Their documents are built by folds over patches and logs and compared by a recursive
difference (`DiffAt`); what these compute for every input is an induction over data, which is out of the provers' reach. So are liveness
under fairness (`Decided`, `OneWorkerInTheEnd`, `EventsPublished` and the others) and `ENABLED`.

## 6. What is not modelled

* Hooks of extensions; the policy `merge` of typed models; schema validation beyond one invariant per pack; envelope checks; the
  search for a migration path; `NaN` ranks, which are 0 in the models.
* Presence, rate limits and token buckets, REST routes of the Gateway, metrics, authentication (only its await in `hello`), configuration.
* The order of a page's queue and its byte limits; several rooms of one Worker.
* Writes that fail half way: a torn WAL line, a `deleteDocument` that removes one of two files.
* Snapshots in PostgreSQL carry a label that may be behind their content; that lists may then differ in stored order is the exception of `ReplayAbsorbs`.
* Yjs itself, BlockNote itself, WebSockets, PostgreSQL and Redis, beyond what the code relies on.
* The React package, the project generator, user interfaces, scripts and deployment: they keep no protocol state.

## 7. Plan

Done: `RoomWorkers`, `Gateway` and the standalone server with their proofs, `CanonicalLog` and two refinements of it; `ClientPages`,
ownership, the todo server and the Yjs body with their proofs; patches, packs and the editor, model-checked. What is left: token buckets and
room eviction order as operators, checked against a reference.
