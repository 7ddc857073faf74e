# A formal model of Bilinear's synchronization

Bilinear is an issue tracker with an offline-first client: a Next.js/GraphQL
server over Postgres and Redis, a separate WebSocket process, and a browser
client that works from its own copy of the workspace. The part of it that is
hard to get right is the one that keeps those copies equal to the database;
this project starts there and goes on to the services whose state outlives a
request: settings, webhooks, cycles, issues. It consists of TLA+ modules, TLC
configurations and TLAPS proofs; `PROJECT.json` maps every definition to the lines it models.

Paths below are relative to `src/src/` of the repository.

## Inventory

| Component | State | Operations | What makes it hard |
|---|---|---|---|
| **Sync log** `server/services/sync.service.ts`, `app/api/sync/*` | `sync_actions` rows `(xact_id, id, created_at)`, the organization's prune mark | record in a transaction, publish, prune, delta page, bootstrap | commit order is neither xid nor id order; each SQL statement has its own snapshot |
| **Sync client** `lib/sync-manager.ts`, `lib/ws-client.ts` | MobX pools, `lastSyncId`, IndexedDB rows and cursor, guards, timers | start, deltaSync, fullBootstrap, apply live frames, follow-ups, reload | three writers of one cursor, an await between memory and disk, dropped requests |
| **Live stream** `server/ws/*` | registered sockets, subscribed channels, batches, Redis connection | admit, register, subscribe and release, batch, filter, resync, shut down | awaits between check and use, Redis outages, no replay |
| **Outbox** `lib/transaction-queue.ts` | FIFO in memory and in IndexedDB, retry counts, active session | enqueue, drain, retry, hydrate, session change | at-least-once, crash between success and delete |
| **Optimistic stores** `stores/*` | MobX entity pools | optimistic update and rollback, apply | own writes, live rows and deltas of one entity in any order |
| **Webhook delivery** `services/webhook.service.ts` | delivery rows, failure counters | dispatch, claim, attempt, back off, disable | two sweeps, a worker that dies holding a claim |
| **Cycles** `services/cycle.service.ts` | cycles, issue assignment | create, roll over, create upcoming | sweep and user at the same time |
| **Issues** `services/issue.service.ts`, `graphql/resolvers/issue.ts` | issue rows, parents, stamps | create, update, close parent or children, bulk update, archive, delete | cascades decided from rows read before the lock; a log written beside them |
| **Sessions** `services/auth.service.ts` | refresh tokens, families | rotate, reuse detection | two tabs refreshing at once |
| **Configuration** `server/config/*` | settings, per-process snapshots, generations | set, get, invalidate | a load racing an invalidation |
| **Yjs server** `server/yjs/server.ts` | documents, connections | load, debounced store, access sweep | access revoked between edit and store |
| **Visibility scopes** `server/lib/sync-visibility.ts` | none | filter rows | the scope changes while rows are in flight |
| Entity services, integrations, identity administration, GraphQL layer, UI | database rows | CRUD | mostly one transaction per request |

How they interact. A mutation handler writes business rows and a `SyncAction`
in one transaction, commits, and publishes the row on Redis channel
`sync:<org>`. The WebSocket process subscribes to a channel while the
organization has clients, batches what arrives and sends it to each registered
socket, through a visibility filter for restricted users. The client applies
such frames directly. It also calls the delta endpoint with its cursor (on
start, on connect, some 800 ms after a connect or a bootstrap, when its outbox
drains, and on a `resync` hint), and falls back to a bootstrap when there is no
cache or the server says that the cursor is stale.

What correctness means, per component:

* log: a cursor never passes a row that its reader has not received; a reader
  whose rows were pruned is told so; nobody is sent to bootstrap forever;
  everything is delivered in the end;
* client: at rest it shows everything; its cursors, in memory and on disk, pass
  no row without a reason that can be named; a row it misses stays awaited; the
  cursor moves back only when a snapshot is loaded;
* live stream: an acknowledged socket has its channel; it is sent every row or
  told to fetch; channels nobody watches are released; no entry leaks; the cap
  holds;
* outbox: no mutation lost, order kept, nothing sent twice without a reason;
* webhooks: one attempt at a time, at most five, a final outcome is final;
* configuration: no snapshot outlives the invalidation it should have seen;
* cycles: what ended is completed, an issue is carried once and counted;
* issues: the log shows what the cascades wrote, stamps agree with states;
* sessions: reuse revokes, honest concurrency does not.

## Modules

| Module | Role |
|---|---|
| `SyncLog` | log, transactions, prune, delta and bootstrap endpoints |
| `ChangeFeed` | what the log promises its readers; `SyncLog` implements it |
| `SyncClient` | one tab against the log and the live stream |
| `LiveStream` | the WebSocket process, one organization |
| `Outbox` | the transaction queue of a page, IndexedDB, the server behind them |
| `ConfigCache` | the settings snapshot of every server process, over Redis |
| `WebhookDelivery` | the deliveries of one hook, its calls and sweeps |
| `Cycles` | the cycles of one team and their rollover |
| `Issues` | the issues of one team, the cascades and their SyncActions |
| `MC*` | instances for TLC (symmetry sets) |
| `*Proofs` | theorems about the module of that name |

Operators whose comment says *Mutant* are plausible mistakes; they are not part
of the specifications.

### SyncLog

One step per SQL statement. A transaction takes `now()` when it opens
(`startedAt`, the `created_at` of its rows), an xid at its first write, ids at
each insert; the rows appear in `log` when it commits. `Settled` is the fence
`xact_id < pg_snapshot_xmin(...)`. A delta is two steps, `ReadMark` and
`ReadPage`, as in the handler; a bootstrap is two or three: the topmost settled
row, the frontier `xmin - 1` if there is none, and the entity reads, here one
step that sees at least what was committed when the cursor was taken. The
reader's own part is reduced to "applies the page and advances"; `SyncClient`
has the rest. `gone` keeps the pruned rows as history for the properties.

Two assumptions about the environment are in the guards of `Prune`: retention
(30 days) exceeds the life of a transaction, so nothing is in flight below an
expired row; and the xids of the sweeps themselves, which no row carries, are
not counted.

`ChangeFeed` says the same without transactions, fences, pages or marks: rows
are published ahead of every horizon, and a reader that moves its horizon
receives every unexpired row it passes. The refinement maps `published` to
`log \cup gone`, `expired` to `gone` and `horizon` to `cursor`.

### SyncClient

Each asynchronous function of the client is cut at its awaits. `chain` is the
promise chain of `runExclusive`: live frames, delta pages and bootstrap loads
are tasks, and a task is applied to memory (`ApplyHead`) and then flushed by
one Dexie transaction (`FlushHead`), with anything in between. `isDeltaSyncing`
is the guard that makes a second `deltaSync()` return at once; `FallBack`
releases it while the bootstrap that it awaits still runs, and `BootOver`
clears it, whoever holds it by then, so that executions can overlap: hence the
set `Delta`. `followUp` is the one timer that something depends on, the
debounced delta after a connect or a bootstrap; a delta for any other reason
(an own mutation drained, the `online` event, a `resync` hint) may come at any
time or not at all (`Hint`). `Reload` is an external event: it loses the
memory, the chain and a Dexie transaction under way, and keeps the disk;
`stop()` itself is not modelled.

Everything that may go wrong is counted in `used`, and each count has a bound
of its own: lost publishes, drops, reloads, re-bootstraps, failed bootstraps,
fallbacks, failed deltas, failed Dexie transactions. Three circumstances that
are no failures are counted as well, so that a property can speak of a tab that
was spared them and a run can have or exclude them: a mutation that begins
while another is not yet published (`overlap`), a row that is published between
the opening of a socket and its registration on the server (`unheard`), and a
connect or a follow-up that meets a running delta and is swallowed by it
(`hasty`). `MaxFaults` bounds all of them but the overlaps together.

`fate` is history: what happened to a row that a cursor has passed. A live
frame has jumped over it, a bootstrap has erased it from memory, or the Dexie
transaction of this row has failed; it is cleared when the row is in memory and
on disk again.

A transaction has one row here, so rows and cursors are xids. Loads overwrite
memory, disk and cursor. What a row does to an entity is left out: a row is
reflected or it is not.

### LiveStream

The process is one event loop; a step is the code between two awaits. `lock` is
the promise chain of `withOrgSubLock`, its head possibly awaiting Redis
(`busy`). `subscribed` is the process's book-keeping and `channel` what the
Redis client holds; their agreement is a property. `owed` is auxiliary: the
rows published since a socket was acknowledged which it has neither been sent
nor been told to fetch. A disconnected subscriber hears nothing; on `ready`
ioredis resubscribes and the process sends `resync` to registered sockets. All
sockets belong to one user, so the cap of `Accept` counts them all.
`subscribeErrors` counts the rejected SUBSCRIBEs: after one,
`AckedMeansSubscribed` promises nothing, as the lock swallows the error.
`ReleasedWhenEmpty` speaks of the channel, not of the mark: once the last
socket has left for good and no further UNSUBSCRIBE is rejected, the Redis
client lets go of it.

### Outbox

Every await of `enqueue`, `processNext` and `hydrate` ends a step. A mutation
is the number of its enqueue and all of them write one field of one entity, so
the server's state is the last mutation it applied and "order" is `<`. `rows`
is the IndexedDB table with its owners, `queue` the memory; a reload (or crash)
keeps the first and loses the second, at any point. A request can fail before
or after the server applied it, be answered by a gateway while the server goes
on (`late`), or be sent under the cookie of another session (`sentAs`). The
callback map and Dexie's own retries are left out.

### ConfigCache

One scope, its rows represented by the number of writes committed. A load is
three steps: the cache miss that captures the generation, the query, the
continuation that caches the snapshot only if the generation is the same. A
write is its commit, the local bump and the publish, each of which the process
may not live to do. A subscriber that is disconnected hears nothing and drops
its cache when it is back. `level` is the copy of `log.level` that the logger
keeps.

### WebhookDelivery

Every statement or transaction is a step. Time is relative: `due` counts down
to `nextAttemptAt`, `age` up from a claim. A call may die at any point and
leaves its claim. `StallAssumption` (`Stall < 2 * Window`) is what the code
relies on when it reclaims: a live call takes less than the two windows of a
claim; the request timeout bounds it. `sent` and `accepted` count the requests
of a delivery and their 2xx answers (history).

### Cycles

Transactions run at READ COMMITTED, so each statement that reads is a step, and
a commit is one; the row lock that a rollover takes first is explicit. Dates
lie on a grid (`slot`). A rollover is begun by the sweep of any replica or by a
member, reads the incomplete issues, chooses the next cycle, and commits;
`ForeignKeyFails`, `Deadlocked` and `Fault` roll it back. `create` and
`autoCreateUpcomingCycles` pick the next number outside any lock and meet
`@@unique([teamId, number])`; the first tries again, the second does not.
`carried` and `touched` are history.

### Issues

Also READ COMMITTED, with row locks by `held`: a request sees what is committed
and what it wrote (`View`), and its writes (`dirty`) are seen at its commit. An
update reads the issue, writes it, reads the siblings and the parent and closes
it, reads the open children and closes them, and records a SyncAction per row
in the same transaction. `feed` is what a client that has applied the log
shows. A row has the state type and its stamps; `archivedAt` stands for
`trashed` too. Workflow states are types: one per type, with triage and backlog
counted as unstarted. `parent` may form cycles, which no service rejects.
`overlap` and `raced` are history: issues that several overlapping transactions
wrote are excepted from two invariants, because there the code gives no promise
(see below). The order of the SyncActions of overlapping transactions is the
subject of `SyncLog`, not of this module.

## Runs

Passing:

| Run | Shows | Bounds |
|---|---|---|
| `SyncLog_fence` | `NeverSkip`, `MarkCatchesLostTransactions`, `EmptyLogAnchorServable`, `FeedSpec`, `EventuallyDelivered` | 2 transactions, 3 rows, pages of 1, 2 prunes, 1 reader |
| `SyncClient_tab` | `NoLostUpdate`, `DeltaCoversItsSpan`, `CursorsAreHonest`, `MissingIsAwaited`, `CursorRegressesOnlyOnLoad` | 3 rows, pages of 1, 2 deltas, one overlap of writers, and one fault or circumstance of any of the ten kinds |
| `LiveStream_locks` | `AckedMeansSubscribed`, `StreamComplete`, `MarkMatchesChannel`, `ReleasedWhenEmpty` | 3 sockets, one restricted, 2 rows, 1 each of outage, rejected UNSUBSCRIBE, rejected SUBSCRIBE, failed filter |
| `Outbox_drain` | `PendingIsKept`, `AppliedInOrder`, `RepeatsOnlyAfterLoss`, `QueueDrains` | 2 mutations, 2 users, 1 retry, 2 mishaps of any kind |
| `ConfigCache_cache` | `CoherentCache`, `BoundedStaleness` | 2 processes, 2 writes, TTL of 1 tick, 1 fault |
| `WebhookDelivery_sweeps` | `OneSender`, `RepeatsOnlyAfterDeath`, `OverLimitIsSwitchedOff`, `OutcomeIsFinal`, `EveryDeliveryEnds` | 2 deliveries, 2 calls at a time, 2 attempts, disabled after 2 failures, 1 death, 1 edit |
| `Cycles_rollover` | `CarryCoversContents`, `CarriedOnce`, `DueIsCompleted` | 2 issues, 3 cycles (2 at first), 4 slots, 2 calls at a time, 2 events |
| `Issues_family` | `LogMatchesRows`, `StampsMatchState`, `ParentFollowsLastChild`, `ChildrenFollowParent` | 3 issues with any parents, 2 requests at a time, 2 transactions |

Each specification has its `TypeOK` in one of these runs; that of `Issues`
includes the foreign key of `parent`.

Why these bounds are enough to be interesting: overlapping transactions with
three rows give every commit order against every xid order, with a page
boundary between each two rows; two prunes raise the mark over a mark; three
rows give a client a row behind, at and ahead of its cursor, two deltas a
stale one beside the one that holds the guard, and one fault is enough for each
of the reasons and mishaps the properties name (four of the five are proved for
any number of everything); three sockets give
one that leaves, one that arrives and one that stays; two mutations give an
order, and two mishaps a retry of a retry or a crash after one; two processes
and two writes give a load that spans a write of its own process and one of
another; two calls on two deliveries give a claim that is taken over and a
counter that both share; a third cycle and a fourth slot give two creations at
different dates with one number, and two cycles that carry into each other;
three issues give a parent with two children, or three generations. Readers,
tabs, hooks and teams do not affect each other, so one is enough.
`CHECK_DEADLOCK FALSE` throughout: every instance ends when its bounds are used
up.

Violations, each a statement of the repository's comments that the code does
not keep (`PROJECT.json`, findings, quotes it):

| Run | What happens |
|---|---|
| `SyncLog_prune_race` | mark, prune, page: the page is silently incomplete |
| `SyncLog_at_mark` | a reader in the middle of a transaction larger than a page is exactly at the mark when that transaction is pruned: it is served, and never gets the rest |
| `SyncClient_connect_gap` | published before registration, then passed by a live frame: nothing fails, and the row is delivered by no later delta |
| `Outbox_replay` | `hydrate` reads the row of a mutation that has just been answered and sends it again behind a newer one |

Most of what goes wrong in the client comes from one design decision: the
cursor of the fenced log is also advanced by the unfenced live stream.
`NoGapBehindCursor` of `SyncClient_connect_gap` falls in other ways too, which
its constants can be set to show (with `MaxUnheard = 0`): a transaction in
flight is passed by a later one and the socket drops (`MaxOverlaps = 1`,
`MaxDrops = 1`); a failed publish is passed by the next frame (`MaxLost = 1`);
so is what a failed delta did not fetch (`MaxDeltaErrors = 1`, `MaxDrops = 1`,
`MaxFaults = 2`); a delta commits its cursor over a load that erased its rows
(`MaxFallbacks = 1` and two deltas); a live frame persists a cursor past the
backlog and the page is reloaded (`MaxReloads = 1`).

What does hold is narrower, and `SyncClient_tab` says what, with all of these
failures in its bounds: a delta is complete over its own span; a cursor passes
a missing row for three reasons only, each a fate of that very row; a row ahead
of the cursor is awaited until one of the steps that `GivenUp` lists; and a tab
that was spared all but dropped sockets and failed bootstraps shows everything
when it comes to rest.

### Met while modelling

Other places where code and comment, or code and intention, part; the models
contain the behaviour, or it lies just outside them, and no run states it:

* a bootstrap of a log with rows can hand out a cursor below the mark
  (`sync.service.ts:927`, against the comment at 931-934);
* on the mark itself, the comment and the test of one function contradict each
  other: a cursor "at or below" the mark cannot be caught up
  (`sync.service.ts:699`), and one "exactly at the mark" has missed nothing
  (`sync.service.test.ts:129-131`); the code follows the test, and
  `SyncLog_at_mark` shows what that loses;
* after a failed Dexie transaction "the cursor on disk stays behind the one in
  memory, so the batch is simply re-delivered by the next delta"
  (`sync-manager.ts:1336-1341`): the next delta starts from the cursor in
  memory, which has passed the batch, and the next flush persists a cursor
  past it, so that the batch is missing from IndexedDB from then on
  (`FlushFails`; the fate `unsaved`);
* when UNSUBSCRIBE is rejected the organization is added to `subscribedOrgs`
  again, "so a future client triggers a fresh subscribe attempt"
  (`server/ws/index.ts:135-136`): `ensureOrgSubscription` returns at once for
  an organization that is in the set, so no attempt follows. In the model this
  is harmless, as a rejected UNSUBSCRIBE has left the channel in place
  (`MarkMatchesChannel`), but the comment describes the opposite;
* the atomic claim of a delivery is said to prevent a second send "if a
  stalled-but-still-running worker eventually wakes up"
  (`webhook.service.ts:554-557`): it excludes claims that overlap in time, but
  a worker that outlasts its claim is not fenced, as it sends and records by
  the id of the delivery alone. `OneSender` rests on `StallAssumption`, which
  the request timeout justifies and a suspended process breaks;
* a socket that closes before its close listener is attached keeps its entry
  and its hold on the channel (`server/ws/index.ts:372`, against 379-381);
  sockets that open together all pass the cap (351); a shutdown exits before
  the filters of a flushed batch resolve (540);
* a log level pushed by one load is overwritten by an older load
  (`server/config/index.ts:94-101`);
* a retry sweep works through a list, so a delivery that has just been
  rescheduled is attempted again without its backoff, as the claim does not
  look at `nextAttemptAt` (`webhook.service.ts:77-79`);
* two calls that plan ranges, or a plan and a `create`, make cycles that
  overlap (`cycle.service.ts:717`); a rollover can carry issues into a cycle
  that was completed or archived after it was chosen (326); one that fails
  after its commit leaves clients without its SyncActions (536);
* what is queued at sign-out drains under the next session until a reload
  (`transaction-queue.ts:164`);
* two children of one parent that are closed at once each see the other open,
  and the parent stays open (`issue.service.ts:1018`); their transactions
  decide stamps from rows they read before the lock (571), so a race can leave
  stamps that contradict the state; the SyncActions of cascaded children are
  made from rows read before the write (1123), and a child deleted in between
  gets an update after its deletion; children that lose their parent by
  `onDelete: SetNull` (`prisma/schema.prisma:526`) get no SyncAction;
* the SyncActions of `create` and `bulkUpdate` carry rows without
  `labelAssignments`, which a client takes for no labels, as the comment at
  `issue.service.ts:682-685` says of `update`;
* a parent in another team of the organization is closed into a state of the
  child's team (`issue.service.ts:665`, 1044).

### Fairness

`SyncLog`: every open transaction ends (Prisma's interactive transactions time
out), and a reader's statements are executed. A reader's restarts are not fair.
`LiveStream`: queued tasks run (`WF`), Redis comes back (`WF`, ioredis retries
without end), and a command that waits for Redis is answered if Redis is up
again and again (`SF`); sockets and outages are not fair. `Outbox`: persists
end, a drain goes on, requests are answered or fail, hydrate ends, and the
browser comes online (`WF`); sign-outs, reloads and failures are not fair, and
the queue drains only if the page stays and its user is the one signed in.
`WebhookDelivery`: a live call goes on and time passes (`WF`), and the sweep's
interval comes to every due delivery again (`SF`: other calls may hold the
workers). `Cycles`: a call goes on (`WF`), a rollover that can commit again and
again does so, as a lock goes to who has waited for it, and the sweep comes
back to a due cycle (`SF`); ticks, members and faults are not fair.
`SyncClient`, `ConfigCache` and `Issues` have safety runs only.

## Proofs

All for arbitrary constants under the named assumptions of each module.

* `SyncLogProofs`: `TypeCorrect`; `FenceNeverSkips` (`NeverSkip`);
  `LogImplementsFeed` (`Spec => FeedSpec`). The inductive invariant adds to
  types that uncommitted rows carry the xid of their open transaction, that
  `log`, `gone` and pending rows are apart, and the key part `CursorsBehind`:
  every transaction in flight or to come has an xid above every cursor and
  every bootstrap anchor. So a commit can only add rows ahead of all cursors
  (`CommitAhead`), a page holds every row it passes (`PageComplete`), and an
  anchor is at most what the entity reads see. `MarkCatchesPruned`
  (`MarkCatchesLostTransactions`: what the mark lets through lacks at most rows
  of the transaction whose row it received last, by `Within`) and `FrontierIsServable`
  (`EmptyLogAnchorServable`) rest on `MarkOK`: every pruned row is at or below
  the mark, and the mark is behind every transaction in flight or to come.
* `LiveStreamProofs`: `TypeCorrect`; `LockProtectsAcked`
  (`AckedMeansSubscribed`); `BookKeepingIsRight` (`MarkMatchesChannel`).
  `LockInv` relates the queue to the handlers: a queued ensure belongs to a
  registered handler and to one only, a handler that awaits its subscription is
  registered, a marked channel is held unless its release is being executed,
  and then the mark is already cleared. `StreamIsComplete` (`StreamComplete`)
  adds where a row is that an acknowledged socket waits for: in the buffer, in
  a batch that is being filtered, or lost while Redis is down (`OnItsWay`), and
  then the client has noted the loss and will send the hint (`Disrupted`).
* `ConfigCacheProofs`: `TypeCorrect`; `CacheIsCoherent` (`CoherentCache`);
  `StalenessIsBounded` (`BoundedStaleness`). The invariant says of a load under
  way what it says of a cache: if its data lack a write, the write's
  announcement is on the way, was lost, or has changed the generation, and then
  the load will not be cached.
* `WebhookDeliveryProofs`: `TypeCorrect`; `ClaimIsExclusive` (`OneSender`, from
  `StallAssumption`); `RepeatsAreExplained` (`RepeatsOnlyAfterDeath`);
  `OutcomesAreFinal` (`OutcomeIsFinal`). `ClaimOK` ties a live claim's age to
  `due`, so a sweep cannot reclaim it; `CountOK` counts requests by attempts
  and deaths. `LimitSwitchesOff` (`OverLimitIsSwitchedOff`) is inductive
  as it stands: it names the call that is about to switch the hook off.
* `CyclesProofs`: `CarryIsCovered` (`CarryCoversContents`);
  `IssuesAreCarriedOnce` (`CarriedOnce`). No two calls roll one cycle
  (`LockOK`), and what a rollover has read still holds except for what members
  moved (`ReadOK`); hence the sets that two rollovers add to one cycle are
  apart, and cardinalities add up. `TypeCorrect`: dates stay on the grid
  because a plan lies within it (`PlanOK`), and the highest number and the last
  date exist because cycles are finitely many (`HasHighest`).
* `OutboxProofs`: `TypeCorrect`; `RowsAreKept` (`PendingIsKept`). A row that is
  being removed belongs to a mutation whose outcome is known, or to another
  session. `InOrderOfChanges` (`AppliedInOrder`): a request carries the head of
  the queue (`OnHead`), and what waits for its outcome has smaller mutations
  only in front of it and at the server (`Sequenced`). `hydrate` keeps this
  because a page that was not reloaded has everything it waits for in memory
  (`InMemory`), so that it appends answered mutations only.
  `RepeatsAreExplained` (`RepeatsOnlyAfterLoss`): `Explained` counts
  applications, the answer that is under way and late requests against faults
  and reloads.
* `SyncClientProofs`: `TypeCorrect`; `CursorMovesForward`
  (`CursorRegressesOnlyOnLoad`); `DeltasSkipNothing` (`DeltaCoversItsSpan`);
  `CursorsStayHonest` (`CursorsAreHonest`); `MissesStayAwaited`
  (`MissingIsAwaited`). None of them has a condition: they hold for any number
  of rows, writers, deltas and failures of every kind. All stand on `Base`: the
  rows anything carries are committed (`Logged`), what is idle holds nothing
  (`Idle`), and the tasks of the chain belong to the deltas, frames and loads
  that wait for them (`Chained`). The cursors need one invariant for all of
  them, since a delta starts from the shared cursor and ends by moving it, and
  IndexedDB gets the cursor of memory: a page is a prefix of the settled rows
  after its cursor (`Paged`), a snapshot has every row up to its own
  (`Snapshots`), a delta accounts for its span by memory, a page in the chain
  or an erasure, and for what was behind its start as the shared cursor did
  (`Spans`), what is in memory is on disk, about to be, or `unsaved` (`Kept`),
  and so each of the three cursors accounts for the rows behind it
  (`HonestMem`, `HonestHead`, `HonestDisk`). `MissesStayAwaited` follows one
  missing row through every step from its commit on.
* `IssuesProofs`: `TypeCorrect`; `LogShowsRows` (`LogMatchesRows`);
  `StampsAgree` (`StampsMatchState`); `ChildrenAreClosed`
  (`ChildrenFollowParent`); `ParentIsClosed` (`ParentFollowsLastChild`). What a
  request has read before its lock (`SnapOK`), is about to close (`CloseOK`),
  has written (`DirtyOK`) and has found above and below its issue (`ScanOK`)
  still holds, but for what others have written since it began, which
  `overlap` remembers; the rows it has written are locked and so still there
  (`LockOK`).

Model-checked only: the liveness properties (`EventuallyDelivered`,
`ReleasedWhenEmpty`, `EveryDeliveryEnds`, `DueIsCompleted`, `QueueDrains`), as
liveness under fairness is out of the proof system's reach; `NoLostUpdate` of
the client, which holds of a timely tab only, a condition that the code does
not enforce; and the four violations. Induction theorems that take an operator cannot be used; where a proof
needs one (`HasHighest`), it takes a smallest counterexample instead.

## Not modelled

Per component in `PROJECT.json`. Within the modelled ones: the visibility
filter (a filtered row still advances `nextCursor`, so it counts as received),
payload stripping, cursor parsing, the `toCursor` bound that no client sends,
`MAX_DELTA_PAGES`, the per-entity arms of `doApplyActions`, the wipe on a change
of organization, the re-auth sweep's scope refresh; the resolution of a setting
over its layers and its validation; hook creation, secrets and signatures;
burndown and progress queries and the SyncActions of cycles; issue numbers (one
UPDATE that locks the row of the team), labels, triage, snoozing, reactions and
the list queries of issues.

Whole components: the user interface, the GraphQL schema, the import, AI,
search and analytics code and the integrations render, parse, query or call out
and keep no state over a step; together they are most of the repository's
lines. The other entity services write one row per request in one transaction.

## Plan

Done: `SyncLog`, `ChangeFeed`, `SyncClient`, `LiveStream`, `Outbox`,
`ConfigCache`, `WebhookDelivery`, `Cycles`, `Issues`, and proofs of every
safety property of their passing runs but `NoLostUpdate`. In this order next:

1. `SessionRotation`: refresh-token families, the grace window, two tabs.
2. `SyncConvergence`: entity versions, optimistic updates and rollbacks,
   markers written in their own transaction; when client and database agree.
3. What a socket is owed as a sequence in `LiveStream`, so that the batches of
   a restricted socket that swap can be told apart.
4. A composition of `LiveStream` and `SyncClient` through their common socket,
   replacing the client's one-step `Publish`.
