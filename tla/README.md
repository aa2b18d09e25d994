# A TLA+ model of brust: caches, worker pool, client navigation

brust serves React applications that are compiled ahead of time. A Rust server
(native host, `crates/brust-server`) or a Cloudflare Worker (wasm host,
`crates/brust-wasm`) answers requests through a shared pipeline
(`crates/brust-core`); data loaders and actions run in Bun worker processes (or in
the isolate). What makes the system hard to get right is what it keeps between
requests and shares between threads, processes and tabs' navigations:

- pages and job results cached on several tiers, invalidated by tag, by path, by
  prefix or by key, from any thread of any process, while renders that began earlier
  are still on their way to the cache;
- worker slots, claimed without a lock, whose shared buffers and cells must stay with
  one call until the worker's promise has settled, whatever becomes of the client;
- in the browser, a navigation that fetches the next document and can be overtaken by
  another one at each of its awaits.

This project models these three.

## 1. Inventory

| Component | State | Operations | Interacts with | What makes it correct |
|---|---|---|---|---|
| L1 page cache, native (`brust-server/src/cache/l1.rs`) | read front (64 sharded maps), moka (lifetime policy), tag index with generations, invalidation slots, gate, stripes | `get`, `insert`, `invalidate_tags/path/prefix`, `clear`, the eviction listener | invalidation clock; pipeline; moka's callbacks on any thread | no page older than a returned invalidation is served; the index finds every live page and nothing else; every call returns |
| Invalidation clock (`brust-core/src/cache/stamp.rs`) | one counter | `stamp`, `next` | L1, job cache | a render stamped before an invalidation is recognised as such |
| Job cache, native (`brust-server/src/cache/job_cache.rs`) | moka, tag index, key index, slots, gate | `get`, `insert`, `remove`, `invalidate_*`, `clear` | same clock as L1 | as L1 |
| Single-threaded caches (`brust-core/src/cache/local.rs`) | LRU store with tag and key indexes | the same | wasm host | recency order, byte bound, as L1 |
| Core entry points (`brust-core/src/core.rs`) | both caches | `invalidate`, `l2_replay`, `clear_local` | everything that invalidates | both caches forget, in an order renders cannot slip through |
| Request pipeline (`brust-core/src/pipeline.rs`) | per request: stamp, plan, job results | `page`: probe L1, stamp, read L2, loader, jobs, render, insert, write back | all caches, worker pool | one stamp covers everything a page was made from |
| L2 protocol and floor (`brust-core/src/l2.rs`) | bounded table of invalidation floors | `raise`, `clear_at`, `reset`, `rejects`, `remaining_ttl` | pipeline, epoch sync | an L2 value older than a replayed invalidation is never taken back into tier 1 |
| Epoch sync, wasm (`brust-wasm/src/epoch/{cursor,sync}.rs`) | cursor over the invalidation log: generation, sequence, in-flight poll | `maybe_sync`, `poll`, `apply`, `failed` | Durable Object ring; L1, jobs and floor of the isolate | after a sync every event is replayed or everything is cleared |
| Redis adapter (`packages/cache-redis`) | Lua scripts over keys, the event counter, a subscriber connection | `get`, `set`, `invalidate`, `subscribe` | cache adapter runtime | writes lose against later invalidations; missed events become a clear |
| Cloudflare adapters (`packages/cache-cloudflare`) | Durable Object ring and floors, KV values | `get`, `set`, `invalidate`, `since` | epoch sync | as Redis, without a push channel |
| Cache adapter runtime (`packages/brust/src/cache-adapter`) | last sequence number seen, adapter | `invalidate` fan-out, `startSubscriber` | adapters, core through napi | every process applies every event or clears |
| Worker pool (`brust-server/src/pool.rs`) | slots, claims, plan cells, deadlines | claim, release, register, remove, sweep | dispatch | a slot serves one call at a time and is never leaked; no wake is lost |
| Dispatch and stream bodies (`dispatch.rs`, `host.rs`, `stream_body.rs`) | per call: deadline, detached rest, body | wait, call, poll, detach, pull | pool, sweeper, the worker's JavaScript | every request is answered; nothing of one call reaches another |
| Client navigation (`runtime-dom/src/nav`, `brust/src/navigation.ts`) | page cache, history ids, the newest navigation, head and body, navigation store | `go`, `navigate`, click, popstate, prefetch, `clearCache` | network, browser history, the DOM | the newest navigation wins; page, address, store and head agree when it ends |
| Browser runtime (`packages/runtime-dom`) | signals, instances, registry | set, effect, mount | the DOM | effects see the last value |

Not candidates: the compiler, its CLI and the template engine (pure functions over
syntax trees), routing, inputs, CORS, compression and static rules (sequential, no
state between requests), HTTP/TLS/static files and the foreign-function bindings
(I/O and conversions), developer tooling, website, benchmarks, vendored code.
`PROJECT.json` lists every component with its status, and under `hazards` the lines
at which this code is hard to test.

## 2. Plan

Done:

1. `L1Cache` with its inductive invariant and proofs.
2. How an invalidation of one process reaches the others: `PullSync` (cursor of the
   wasm host, ring of the Durable Object) and `PushSync` (Redis subscriber, its
   reconnect loop and the adapter runtime's gap rule), with proofs.
3. `SharedPages`: the composition. The pipeline of a page request, both caches and
   their clock, `Core::invalidate` call by call, the Redis store with its scripts, the
   floor, and the other processes' replay.
4. `WorkerPool`: claims, waiting, calls, deadlines, sweeper, detached calls, streamed
   bodies; shown to implement `SlotLease`.
5. `Navigation`: client-side navigation with its page cache and store.
6. The theorems `FrontFollows` and `IndexIsBounded`: with them every invariant of
   `L1Cache` is proved.
7. `WorkerPoolProofs`, `SharedPagesProofs` and `NavigationProofs`: with them every
   invariant and every action property a passing run checks is proved, the refinement of
   `SlotLease` included.

Left, in this order:

1. `JobCache`: the locks and indexes of the native job cache, of which `SharedPages`
   uses the promise.
2. `KvDoCombine`: Cloudflare body shards, KV and the persisted floors.
3. `LocalStore`: the LRU store of the wasm host against a reference definition.

## 3. Modules

| Module | Models |
|---|---|
| `L1Cache` | `l1.rs` and `stamp.rs`: state, actions, properties, and beside an action the mutated form its property must notice |
| `L1CacheInv` | the inductive invariant `L1Inv`, in layers |
| `MCL1Cache` | constants for TLC |
| `L1CacheProofs` | types, locks, generations and the tag index |
| `L1FreshProofs` | numbers, slots, freshness; the theorems |
| `L2Floor` | the names of an invalidation floor in `l2.rs`: `raise_name` with its eviction |
| `L2FloorProofs` | what `raise_name` preserves, for any number of names |
| `PullSync` | `epoch/{cursor,sync}.rs`, `ring.ts`, the epoch role of `do-class.ts`, the publisher's half in `runtime.ts`, the floor |
| `MCPullSync` | the combinations explored |
| `PullSyncProofs` | the theorems about `PullSync` |
| `PushSync` | `cache-redis/src/{conn,subscriber}.ts`, the subscriber and publisher halves of `runtime.ts` |
| `MCPushSync` | symmetry for TLC |
| `PushSyncProofs` | the theorems about `PushSync` |
| `SharedPages` | `page` in `pipeline.rs`, `core.rs`, `l2.rs`, `runtime.ts`, `cache-redis/src/{adapter,lua,pairing}.ts` |
| `MCSharedPages` | constants, symmetry and the combinations explored |
| `SharedPagesProofs` | the theorems about `SharedPages` |
| `SlotLease` | what the worker pool promises |
| `WorkerPool` | `pool.rs`, `dispatch.rs`, `stream_body.rs`, `actions.rs`, `plan_claimed` in the server's `pipeline.rs` |
| `MCWorkerPool` | symmetry for TLC |
| `WorkerPoolProofs` | the theorems about `WorkerPool` |
| `Navigation` | `nav/nav.ts`, `nav/swap.ts`, `navigation.ts` |
| `MCNavigation` | constants and the combinations explored |
| `NavigationProofs` | the theorems about `Navigation` |

The cache models meet in one promise: an insert whose render began before a covering
invalidation is refused. `L1Cache` proves it for the threads of the native host.
`PullSync` uses it for one isolate, whose `LocalL1` keeps the same stamp check and runs
it without interleaving, `PushSync` for one native process, `SharedPages` for every
process of a deployment, with the events delivered in order (`PushSync` asks what is lost
and how a process finds out; here a noticed loss is `gap`). `WorkerPool` is the layer
below the `loader` and `jobs_call` steps of `SharedPages`.

### L1Cache and l1.rs

A render and its `insert` are `read_stamp`, `Render`, `InsertGate`,
`InsertStripe`, `InsertCheck` (the check on the invalidation slots and the
generation), `index_tags`, `InsertFront`, `InsertInner`, `InsertLand`. An
invalidation is `Invalidate`, `InvalGate` (tags and clear only: path and prefix
take no gate), `next_inval`, `Publish` (`fetch_max` into the slots), then
`take_tagged` and one `RemoveStripe`/`DropInner`/`DropFront`/`DropDone` per taken
key; or, for path and prefix, `ScanStripe` and the same drops for each shard; or
`WipeIndex`, `WipeInner`, `WipeFront` per shard; and finally `InvalUngate` and
`InvalReturn`. The listener is `prune_tags` then `remove_front`, run by the thread
that replaced or removed the entry, or by moka's maintenance. A step ends where the
code takes or releases a lock or has written one shared structure.

Abstractions, and why they are sound for the properties:

- A page body is the version of the application data its render read (`data`), so
  that "stale" can be stated. One render reads one version.
- A `ttl` is one of the reasons for which moka drops an entry (`Evict`); a read
  past its deadline is a miss, which only removes behaviours from `get_with`.
- The relative order in which taken keys are removed is arbitrary (a hash map's).
- moka serialises operations on one key with a lock of its own. The model leaves
  it out, which allows more interleavings than the program has.
- `run_pending_tasks` waits for maintenance under way; maintenance notices are then
  empty.
- Slots may collide: `tag_slot`, `path_slot`, `prefix_slot` are arbitrary functions
  into the tables, in the proofs as in the runs. A collision only rejects more.

### PullSync and the code

One isolate of a `cloudflare-do` deployment without a body store (`do_store = false`)
polls the Durable Object. The object keeps the `log` of events (only its length, the
seq, is persisted; the events are the model's record of what was said), the `ring` of
seqs it still holds, `dropped` and `gen`. `Construct` is a restart: seq survives, the
ring does not, `gen` is new. `Elsewhere` is any other isolate's invalidation.
`begin`, `poll`, `failed` and `apply` are the four moments of `maybe_sync`; `apply`
carries out `Adopt`, `Clear` or `Replay` at once, because nothing awaits between the
cursor's decision and its effect. `Invalidate`, `Published`, `PublishFails` and
`OwnReplay` are `cache.invalidate` and the deferred `afterInvalidate`: the reply of a
publish may be lost after the event was recorded, the adapter tries once more, and
the own replay follows with or without a seq. `Render` and `insert` are the two ends
of any other request.

- A page stands for everything one `InvalidateArgs` selects. Its `at` is the length
  of the log when its render began, so an event published in the middle of a render
  makes that page stale: the strict reading.
- `renders` holds the renders whose insert would still be accepted. A covering
  invalidation takes them out, which is the stamp check of tier 1.
- How much time has passed is left open: `due` may hold whenever no poll is in
  flight, and a timeout may fire at any moment of a poll.
- The ring's byte cap is an earlier eviction (`keep` below `CapEntries`). It never
  evicts the event just published, since an event counts for at most
  `OVERSIZE_EVENT` bytes.
- The transaction of a publish commits. The origin is known by the first poll.
- The floor is the number `global` and a sequence of names, the one raised longest ago
  first; `raise_name` in `L2Floor` moves a name raised again to the end and drops the
  first when there are more than `FLOOR_NAMES`. `SharedPages` uses the same operator.
  `FloorCovers` says when a body older than an event is refused: until `FLOOR_NAMES`
  other names have been raised since. Names of the isolate's own events count whenever
  they were published, because their replay is deferred and may come later.
- `joined` and `based` are history variables: the seq adopted at first contact and
  the seq at which the floor was last empty.

### PushSync and the code

One process of a Redis deployment; its worker 0 owns the subscriber. `attempts` holds
every run of `Link.attempt` so far: where it awaits (`stage`), whether its socket is
`open`, the last event the socket has handed over (`pos`) and the answer of `readSeq`
that has arrived but not been handled (`reply`). `client` and `timer` are the link's own
fields, `last` is `SubscriberState.last` and `seen` the `last` of the runtime's
`startSubscriber`. `connected`, `subscribe`, `ReadSeq` and `gap_check` are the awaits of
an attempt in order, `attempt_fails` its catch block, `lost` the socket's close handler,
`schedule` the reconnect timer. `listener` is one message, with the runtime's `on`;
`onGap` is the runtime's answer to a gap the adapter found. `Invalidate`, `Publish` and
`OwnReplay` are the publisher's half, `Elsewhere` any other process's.

- Pages, renders and own invalidations are as in `PullSync`.
- Redis publishes in the order of the counter, in the same script that raises it, and a
  TCP connection keeps the order. The events of one socket are therefore a position in
  the log. Two sockets are read independently.
- A socket that closes before it is subscribed rejects the pending await at once, so
  that case is `attempt_fails`. `readSeq` goes over the command connection and survives
  the loss of the subscriber socket.
- Delays, the growing backoff and the warnings are left out: a scheduled reconnect may
  fire at any time. `close` at shutdown is not modelled.
- What a render reads from the shared tier is not older than the events whose script ran
  before it, or is refused by the floor: `SharedPages` checks that.
- `joined` and `blind` are history variables: the first value `last` got, and the last
  event skipped without the code noticing (see Findings).

### SharedPages and the code

Processes `Procs` share a Redis store, or run without an adapter (`adapter` is chosen in
`Init`). A request is `begin` (L1 missed, the stamp is taken), `get_page` and `get_seq`
(the two pipelined reads of `store.get`) or `get_failed`, `l2_hit` or `l2_miss`, `loader`,
`lookup_jobs`, `jobs_call`, `apply_job_results`, `insert` and `SET_LUA`, and may be
`abandon`ed between any two. A call of `cache.invalidate` is `Invalidate`, then one
`invalidate_own` for each cache call of `Core::invalidate` in its order (`Halves`), then
`delete` (the script's first mode: markers, index sets), `unlink`, `publish` (counter and
event), `replay_own` with the floor, and `invalidate_again` for the cache calls of the
replay; `delete_failed` and `publish_failed` are the catch blocks, and a script may have
run although its reply was lost. `receive` and `invalidate_remote` are the other
process's subscriber; `gap` is a noticed loss, answered by `clear_local` in its two halves.

- A page holds two versions of the application's data: the one its loader read and the one
  its job value was computed from. There is one job; `planned`, chosen in `Init`, says which
  pages use it.
- Each cache call is one step: what happens inside it is `L1Cache`'s subject. Slots are
  exact, since a collision only refuses more inserts, and any insert may be abandoned.
- Ttls are not numbers. A page of the store may be treated as expired at any read.
- `pairing.ts` runs both modes in one script when the two calls of one invalidation meet;
  that is `delete` and `publish` with no step in between.
- The cache calls a replay has still to make are a sequence (`halves`). The floor's names
  are those of `L2Floor`, raised one after the other in any order.
- `applied` is a history variable: the invalidations a process has replayed with a seq.

### WorkerPool and the code

`caller` is where a request's own task is (`claim_or_wait`, then `call_worker_decoded`),
`call` where the claimed call is, which outlives its request when it is detached, and `js`
what the worker's JavaScript has done. The scan of `try_claim_render_lockfree` is one
compare-and-swap per step (`claim`, `slot_busy`) under the read lock of `entries`, which
keeps `register` and the removal of a worker out. `enable_notified`, the second scan,
`woken_up` and `give_up` are the loop of `claim_or_wait`; the three operations on tokio's
`Notify` are external, modelled from its contract. `poll_call` and `poll_deadline` are one
poll of the future: the call first, then `SlotDeadline`. `disconnect` and a passed deadline
`detach` the rest of the call. `drop_clear`, `drop_free` and `drop_notify` are the three
effects of `RenderClaim::drop` in order. `sweep_tick`, `sweep_take`, `sweep_wake` are one
tick of the sweeper: it looks without the lock, takes wakers under it, wakes afterwards.
`plan_in_call`, `resolve`, `take_fetch_body` and `pull_fetch_body` are what a worker does
to the slot it was given; they find it by number, as the native functions do.

- Time is the number of ticks left to each deadline.
- A reply, a plan and the bytes of a slot are named after the call that made them; `mixed`
  records a call that was answered from, or whose body was read by, another.
- A dead worker may leave a call that settles, fails to enqueue, or never reports.
- State that belongs to a call is reset when its claim is dropped, so that equal states meet.
- The channel inside a `StreamBody` is left out; a pull gives a chunk, the end or a failure.
- A worker registers once. Where the code retains the entries that are not the dead worker's,
  one entry goes (`RemoveFirst`).

`SlotLease` has two variables: who has the lease of a slot and for whom a worker is
working. The mapping reads `lease` off the claims and `working` off `js`. It makes the
comment `INVARIANT (load-bearing)` in `RenderClaim::drop` a statement about steps: a lease
is given only when there is none, and ends only when the work has.

### Navigation and the code

Each `go()` is a record of `navs` at one of its awaits: `fetch`, `modules`, `sheets`,
`transition`, `scripts`. `link`, `navigate` and `popstate` start one. Between two awaits the
user may traverse the history or follow a fragment, the server's data may change
(`mutate`, then `clearCache` when the response arrives), fetches answer, fail or expire,
and a view transition may call the swap later. `superseded` is every `if (!live()) return`,
`fails` the catch block, `ends` the `finally`. `get` is the page cache: a fetch in flight is
shared, a settled one is kept until its ttl unless it is not to be stored.

The navigation store exists from the moment the first chunk that imports it is evaluated
(`evaluate`), which may be at any moment, a pending navigation included: `store.bound` is
the number of navigations begun by then, and only later events reach the listeners
(`hears`, called by `on_load`, `on_success` and `on_error`). Its record is made at the first
use, by a component that reads it (`first_read`) or by a listener, and takes its url from
the location or from a store tag in the document (`Seeds`). `LoadingShown` therefore says:
`data-brust-loading` is set exactly while the newest navigation runs, and the store is
`loading` exactly while that is a navigation which began after the module was evaluated. One
that was already under way shows `idle` until its `success`, as `docs/navigation.md:196`
says.

- A document is the page it was fetched as and the version of the data it shows. A head is
  the stylesheet of one page; `planHead` and `applyHead` keep, add and remove it.
- The page cache is a sequence, oldest first, in which a URL has one entry: a JavaScript
  `Map` with its `delete` and insertion order.
- Scripts, scroll positions, focus, the progress bar, layout levels and persisted elements
  are left out, and `seen`: a prefetch may be declined at any time.
- A full load ends the document and the behaviour (`left`), unless the application cancels
  it (`cancelled`).
- `crossed`, `slipped`, `cleared` and `screen.since` are history variables.

### Runs

| Run | Instance | Shows |
|---|---|---|
| `L1` | 2 threads, 1 page, 1 tag, 4 kinds of call, fairness | `NoStaleHit`, `FrontFollowsMoka`, `LiveEntriesIndexed`, `IndexBounded`, `TypeOK`, `CallsReturn` under every interleaving |
| `L1ListenerWindow` | 3 threads | `TagsLeaveNoEntry` is violated, see Findings |
| `Pull` | 2 pages of which 1 is rendered, a floor of 1 name, ring of 2, replay limit 1, 2 events, 1 restart, 1 own invalidation at a time, fairness | `SyncedPagesFresh`, `FloorCovers`, `TypeOK`, `EventsArrive` |
| `PullFirstContact` | 1 page, no restart | `FirstContactFresh` is violated, see Findings |
| `Push` | 1 page, 2 connection attempts, 3 events, own ones too, fairness | `SettledFresh`, `TypeOK`, `EventsHeard` |
| `PushMissed` | 2 pages, 2 attempts, 2 events | `MissedEventsCleared` is violated, see Findings |
| `Pages` | 2 processes, 1 request at a time each, 1 page, 1 job, calls by tag and by tag in a prefix, 1 write of data, 3 requests and calls together, 1 failure of Redis | `StoreGuarded`, `StoreClean`, `LoaderFresh`, `JobFresh`, `ComputedFresh`, `ReplayedRejected`, `TypeOK` |
| `PagesHalves` | 1 process | `PageJobFresh` is violated, see Findings |
| `PoolCalls` | 2 requests (planned or streamed), 1 slot, call timeout 1, stream total 2, 1 death, fairness | `LeasesSlots`, `OwnReply`, `IdleSlotClean`, `EveryRequestAnswered`, `TypeOK` |
| `PoolClaims` | 3 requests (whole bodies), 2 workers of 1 slot, 1 death | `NoLostWakeup` |
| `Nav` | 3 pages (1 redirects, 1 no-store), 3 navigations, 3 fetches, 1 mutation, 1 fragment, cache of 1, the store's module evaluated at any moment | `SettledOnEntry`, `LoadingShown`, `StyledPage`, `ReadsItsWrites`, `NoStoreRefetched`, `NewestWins`, `TypeOK` |
| `NavAddress` | 2 pages | `ShowsAddress` is violated, see Findings |

Bounds. In `L1`, `MaxData = 1` gives an old and a new version, which is all that "stale"
needs. `MaxClock = 2` and `MaxGeneration = 2` give two invalidations and two landed
inserts; moka's maintenance is a third actor beside the two threads. All of its invariants
are proved for every number of threads, pages, tags, shards and slots, so the run is there
for `CallsReturn` and for the mutants. With one key it does not reach an index slot that
other keys share; the theorem `LiveEntriesFound` does. `CallsReturn` is about the order of
the gate, the stripes and the inline listener: the index, shard and moka locks are taken and
released inside single steps, so an order among those is not checked.
In `Pull` two events with a ring of two and a replay limit of one, or a ring the byte
cap cuts to one, reach every cause of a clear (dropped, oversize, too many, new
generation) and a replay. Pages meet only in the floor. One rendered page is enough for
tier 1; the second is invalidated only, which with a floor of one name is the least in which
a name drops out. The constraint `OneRendered` says so, and combines events of the second
page, which matter to the floor only, with neither a cached page nor a restart. It forbids
only renders, invalidations, publishes and restarts, of which none is assumed fair, so
`EventsArrive` is checked on every behaviour without those. What the floor
does with more names (a name raised again stays longer) is left to the theorem `FloorSound`,
which covers any number of names and pages.
In `Push` it takes three events to have one that is known, one that is missed and one that
is delivered after it, and two attempts to have a lost connection and its successor;
`SettledFresh` is proved for any number of both.
In `Pages` one page and one job suffice for an old page, an old value and a write back that
comes late; a second process is needed for a store that one process fills and another
invalidates. The constraint `Combined` bounds which extras meet: a failure of Redis, a page
with a job and a scoped call are explored one at a time, and two calls with one request and
before any event is received. Every action still occurs. The run has no deadlock check
because a deployment whose bounded work is done stops.
In `PoolCalls` one slot makes every second claim meet the remains of the first call; two
ticks of total against one of quiet time let a streamed deadline move and then hold.
In `PoolClaims` three requests over two slots let a wake go to a request that gives up while
a third is parked, and a worker register or die meanwhile; a death is combined with
deadlines that pass in `PoolCalls` only.
In `Nav` three navigations are an old one, its successor and a third that crosses both. The
constraint `Combined` bounds which extras meet: the third navigation and the third fetch are
combined with neither a mutation nor a redirected fetch, and a store whose module is
evaluated, or whose record is made, only after a navigation has begun with none of the four.
That still has a module evaluated during a navigation which a second one supersedes. A tab
in which all navigations have been made may stop, hence no deadlock check.
The theorems remove these bounds, except that the bounds on counters are part of the
guards: they hold for every value of each.

Fairness. `FairSpec` assumes that a thread inside a call goes on when it can
(`WF` of each thread's steps) and that a listener runs to its end. parking_lot's
locks hand over to a waiter eventually, and the model needs no more than weak
fairness because the bounded number of calls cannot starve anyone for ever.
For `PullSync`, `WF` of `begin` says that the isolate goes on serving requests, and
`SF` of `poll` and `apply` that of the polls it makes, not all fail: a poll that is
repeated for ever is answered within its timeout again and again. An isolate that gets
no requests, or whose every poll fails, is stale, as the docs say (fail-open).
For `PushSync`, `WF` of `schedule` says that timers fire, and `WF` of each attempt's
steps that a connection that does not fail is served. Failures are not fair: they stop
only because `MaxAttempts` bounds them, so `EventsHeard` reads "if the network stays up
long enough, the loop catches up".
For `WorkerPool`, `WF` of each request's task, of the sweeper and of time says that tokio
runs what can run and fires its timers. The client, the worker's JavaScript and a dead
worker owe nothing: `EveryRequestAnswered` holds although a promise may never settle.
Nothing obliges a request to arrive, the application to write or moka to evict.

## 4. What is proved

For every number of threads, keys, tags, shards and slots, and every slot function,
from `L1Assumption` alone (shapes of the constants; path and prefix calls name what
they select):

- `TypeCorrect`: `Spec => []TypeOK`.
- `LocksExclude`: who holds the gate and each stripe follows from the steps, the
  gate is held by inserts or by one tags/clear call, a stripe by one thread.
- `LiveEntriesFound`: `Spec => []LiveEntriesIndexed`.
- `FrontFollows`: `Spec => []FrontFollowsMoka`.
- `IndexIsBounded`: `Spec => []IndexBounded`.
- `NoStaleHits`: `Spec => []NoStaleHit`.

`NoStaleHit` speaks of returned calls and the front only, and is far from
inductive. `L1Inv` adds, layer by layer:

1. `LockInv` (`GateInv`, `StripeInv`, `CallInv`): who may be where at the same time.
2. `NumberInv`, `DataInv`: no stamp or sequence number is ahead of the clock, and a
   page stamped after an invalidation was numbered holds the data that call was made
   for. This turns staleness of data into an order of numbers.
3. `SlotInv`: a published number is in its slots for good, so the check of an insert
   is exact for published calls (`CheckIsExact`).
4. `GenerationInv`: a generation in flight is in neither moka nor a notice, so a
   late listener cannot touch a newer page's slots.
5. `IndexInv`: `LiveEntriesIndexed`, with what an insert about to write the front has
   indexed and what a clear has already wiped.
6. `FreshInv`: every page in the front was stamped after each covering published call,
   or that call has still to reach it (`Due`), or it is in the listener's window; the
   same for inserts that have passed the check (`DueInsert`).

`L1InvStep` proves the layers in that order, one action at a time; each layer's
lemma uses only the ones before it. Path and prefix calls need the argument about
shards (an insert that passed the check before the publish is in a shard not yet
scanned, because it holds that shard's stripe); tags and clear need the gate and the
index.

`FrontFollows` and `IndexIsBounded` need only types beside themselves, with one change
each: `FrontReasons` and `SlotsBounded` say the same in terms of which of three reasons an
entry or a slot has (moka holds it, a listener is due, an insert is in flight), and the step
lemmas show how a reason is handed on, mostly because moka reports everything it drops.

For every finite set of pages, however many, every ring capacity, replay limit and number of
names in a floor, from `PullAssumption` and `FloorAssumption` (the shapes):

- `PullTypes`: `Spec => []TypeOK`; the cursor is never ahead of the persisted seq.
- `SyncedFresh`: `Spec => []SyncedPagesFresh`.
- `FloorSound`: `Spec => []FloorCovers`, eviction of names included.

`PullInv` adds five facts. `AnswersOK`: the answer in flight is of a real generation
and reaches from the cursor to a seq the log has, because single flight keeps the
cursor still while it is awaited. `SyncedRendersFresh`: the claim also holds of renders
that may yet be inserted. `OwnPagesOwed`: a page older than one of the isolate's own
events has its replay still to come; this is what makes it safe for the cursor to skip
own events. `OwedEvents`: a task with a seq is for that event. `FloorRemembers`: the floor
has each name once, and for every replayed event either its name, or as many other names
raised since as the floor holds; and behind a name stand only names raised since. The last
part is why the name that drops out is the right one, and it would fail if a name raised
again kept its place. `L2FloorProofs` shows what one `raise_name` does to a floor, and
`RaiseRemembers` takes the events of an answer one after the other. `PullStep` goes action
by action; the argument for `apply` is that an answer that is not `lost` lists exactly the
seqs between the cursor and its own.

For every set of pages and every number of connection attempts, from `PushAssumption`
(at least one attempt):

- `PushTypes`: `Spec => []TypeOK`; nothing delivered or remembered is ahead of the counter.
- `SettledPagesFresh`: `Spec => []SettledFresh`.

`SettledFresh` speaks only of moments when some connection has caught up. `PushInv` says
what holds in between: `HandledFresh`, every event up to `last` has been applied, or
covered by a clear, or belongs to the process itself; `OwnPagesOwed`, as in `PullSync`;
`SeenAgrees`, the runtime is never ahead of the adapter, so a gap the adapter clears is
not one the runtime later takes for continuous; `AttemptsOK`, what a connection has
handed over is at most `last` once the connection is up, or the counter it is about to
compare is at least that far. The argument for a new connection is that it subscribes
before it reads the counter: an event is either delivered to it or counted.

For every set of requests, any numbers of workers and slots and all timeouts, from the three
assumptions of `WorkerPool` (sizes and times are positive, `None` is nobody's name):

- `PoolTypes`: `Spec => []TypeOK`.
- `IdleSlotsAreClean`: `Spec => []IdleSlotClean`.
- `RepliesAreOwn`: `Spec => []OwnReply`.
- `PoolLeasesSlots`: `Spec => LeasesSlots`, the refinement of `SlotLease`: the initial states
  map to its own, and every step to one of its steps or a stutter.
- `NoWakeIsLost`: `Spec => []NoLostWakeup`.

`PoolInv` carries the first four. `StepsMatch` relates the three threads of control of a
request (its task, the call in its name, the worker's code) and the slot they know.
`Leased`: a claimed slot is not idle, and two claims are of two slots. `CellsHeld`: what a
slot's cells hold belongs to a claim that filled them or has still to empty them, so that
`drop_free` frees an empty slot. `OwnCells`: while a call is awaited its slot has the plan it
was sent with or what `plan_claimed` made of it, and after `resolve` its own bytes. The
refinement is read off `Leased` and `StepsMatch`: code runs for a call only while the call
is awaited, and that is before its claim drops.

`NoLostWakeup` is about states in which everybody rests, so `WakeInv` says what is on its way
in between: `WakesMatch` gives each slot that has been released, and that a waiting request
will not find by itself, a token of its own. A token is a request that is about to notify,
to look again or whose scan has still to come to the slot, or a wake that a notified request
has not taken yet; one token serves one slot. `QueueFits` (tokio's queue has each waiting
request once, and nobody while a permit is stored), `ListFits` (every scan starts at the top,
so the slots ever claimed are the first ones) and `UsedKnown` (a worker leaves the list only
when dead) are what the steps need. The delicate one is `give_up`: a request that was woken
and gives up passes the wake on.

For any processes, pages, calls, names and bounds, from `PagesAssumption`:

- `PagesTypes`: `Spec => []TypeOK`.
- `StoreIsGuarded`: `Spec => []StoreGuarded`.
- `JobsStayFresh`, `ComputedStaysFresh`: `Spec => []JobFresh`, `Spec => []ComputedFresh`.
- `LoadersStayFresh`: `FloorHolds /\ Spec => []LoaderFresh`.
- `OldPagesAreRejected`: `FloorHolds /\ Spec => []ReplayedRejected`.
- `StoreStaysClean`: `Spec => []StoreClean`.

`FloorHolds` says that all calls together have at most `FLOOR_NAMES` names. It is no
convenience: with more names the floor forgets the oldest, and a page of the store that only
that name rejected comes back (the hazard at `l2.rs:263`, and the last of the observations
below). In the program the constant is 4096 and the number of names is unbounded, so the two
theorems hold up to the first eviction of a name.

Three invariants, each on top of the one before. `StampInv` says what a stamp vouches for: a
page read from the store, or loaded by a request, is as new as each call whose number its
stamp has reached (`StampsMatch`), because a call's number is given after its data was written
and a stamp is taken before the loader reads. `ReplayInv` adds `ReplaysFit`: what a replay
has achieved while some of its cache calls are left to make. Nothing older than the call
is in L1 for what the calls made so far cover, nor in a request whose insert L1 would
still take, and the floor has the call's names (`Known`). This invariant is why the order
in the code matters: the floor is raised before the caches are purged, so that a request that
reads an old page of the store after its page was purged is refused. The own local calls of
`Core::invalidate` without an adapter, the replay of a publisher and that of a subscriber are
the three cases of `ReplaysFit`. `StoreInv` adds, while Redis fails no call, that a page of the
store is filed under all its names or about to be unlinked (`Doomed`), and that no write back
with older data passes the markers.

For every set of pages, every redirect function that is idempotent, every cache size and
any number of navigations, fetches and mutations, from the two assumptions of `Navigation`:

- `NavTypes`: `Spec => []TypeOK`.
- `LoadingIsShown`: `Spec => []LoadingShown`.
- `WritesAreRead`: `Spec => []ReadsItsWrites`.
- `NoStoreIsRefetched`: `Spec => []NoStoreRefetched`.
- `NewestNavigationWins`: `Spec => NewestWins`, an action property.
- `PageIsStyled`: `Spec => []StyledPage`.
- `EntryIsSettled`: `Spec => []SettledOnEntry`.

`NavInv` is `TypeOK`, `LoadingShown` and five facts. `CacheFits`: an entry of the page
cache is the only one of its URL, its fetch is of that URL, in flight or kept, shows nothing
older than the last clear, and is in flight if its response is not to be kept. `AwaitsFit`:
the fetch a navigation awaits is still held, and what it shows is no older than the clear
before it began. `SheetsFit` says whose each stylesheet and each tag of the store is: a
navigation that has added it and not swapped yet, or the page on screen; and `Dressed`, that
the newest navigation, when it may swap, has the sheet of its page, although the removal
of a superseded one's sheets may come at any time between. `StoreFits`: the store has
neither state nor record before its module is evaluated, and is bound to no navigation to
come. `Plain`: every entry of the history is of a page that redirects no further.
`EntryFits` says, for the newest
navigation before its swap, after it and when it is over, how its URL, the current history
entry, the screen and what a record of the store would be made from relate.

Only model-checked: `CallsReturn`, `EventsArrive`, `EventsHeard` and `EveryRequestAnswered`.
They are liveness properties under fairness, which the provers do not reach. The runs that
expect a violation are TLC's by nature. `raise` folds over a set of names: its theorems go
through the lemma `RaiseFolds`, which finds the function the fold is defined by, by
induction on the size of the set.

## 5. Findings

`L1ListenerWindow`: `invalidate_path` and `invalidate_prefix` hold no gate, and moka's
remove runs the listener inline, which prunes the tag index before the front entry
goes. An `invalidate_tags` in that window finds nothing and returns while the front
still serves the old page. The doc comment of `invalidate_tags` promises to remove
every entry carrying a tag. The window closes when the overlapping call proceeds.
`NoStaleHit` states exactly this exception, and is proved with it.

`PullFirstContact`: the first answer an isolate gets is adopted, not replayed, on the
ground that "tier 1 is fresh" (`cursor.rs:43`). Requests that arrive while the first
poll is in flight do not wait for it, and a request whose poll failed goes on, so
pages may be cached before first contact. An event published between such a render
and the answer is inside the adopted seq: nothing removes the page before its ttl.
`docs/cache-adapters.md:320` promises other isolates the invalidation within
`epoch_interval_ms` plus one round trip. `SyncedPagesFresh` speaks of the events after
first contact, for which the promise is proved.

`PushMissed`: a reconnected socket may deliver an event before `readSeq` answers. The
listener raises the adapter's `last` to it, so the comparison that follows sees no gap,
on the ground that the runtime notices a hole between two events. The runtime does so
only once it has seen an event: if its own `last` is still null (nothing arrived since
it started, or since the last gap), it takes the event as its first. The events missed
during the outage are then never replayed and nothing is cleared, while
`docs/cache-adapters.md:253` says that an event missed during the outage cannot leave a
stale page. `SettledFresh` excludes exactly these events (`blind`) and is proved for all
others.

`PagesHalves`: `Core::invalidate` clears the page cache before the job cache, each under a
number of its own. A request that takes its stamp between the two finds the old value in
the job cache, where a hit asks no stamp, and its page passes the check of L1. The job
cache then forgets the value and the page keeps it until its ttl. `core.rs:206-207` says
that the page of such a value is not stored. `JobFresh` and `ComputedFresh` are what holds:
the job cache itself is fresh, and so is a page whose own request computed the value.

`NavAddress`: the popstate listener leaves an entry of the page on screen to the browser.
When the user goes back and then forward before the first step's document has arrived, the
address is again that of the page on screen, but the pending navigation is still the newest
and swaps its page in. `docs/navigation.md:9` says that a navigation shows exactly what a
full load of that URL would show. `SettledOnEntry` excludes exactly this race (`slipped`).

Observations without a run:

- A subscriber can hold two connections at once: a socket that closes while its attempt
  awaits `readSeq` starts a reconnect, and if that `readSeq` then fails, the catch block
  schedules another, which replaces `this.client` without closing the one made in between.
  The events delivered twice do no harm; `SettledPagesFresh` is proved for any number.
- `WorkerPool::register` notifies nobody: requests parked on a full pool do not look at a
  new worker until a slot is released or their timeout passes.
- A page written back by a process that has not yet replayed an invalidation may carry an
  old job value: the stamp of the store is about the moment of the read.
- A record of the navigation store that is first made while a back or forward navigation is
  pending takes its url from the location, which is already the new entry's, or from a store
  tag of a page not yet swapped in, and keeps it until that navigation succeeds.
  `docs/navigation.md:186` says that `url` is the page on screen. `SettledOnEntry` compares
  them when nothing is loading.
- Once `FLOOR_NAMES` other names were raised after it, the floor forgets a name; a page that
  a failed UNLINK left in the store can then be served until its ttl.

## 6. Not modelled

Most of the repository's lines are the compiler (`brust-compiler`, 48k lines) and the
template engine: functions from syntax trees to syntax trees. They keep no state between
calls and have no interleavings; a model would be a second compiler, and TLC could try it on
a handful of trees where the repository's snapshot tests have thousands of lines of them. The
same goes, on a smaller scale, for rendering, inputs, CORS, compression, static rules and
manifests. HTTP, TLS, static files and the napi and wasm bindings are I/O and conversions.
The share of lines these models cover is therefore small although the parts with state,
concurrency and failure are covered: of those, the insides of the native job cache, the
LRU store of the wasm host, the Cloudflare body store and the signals of the browser
runtime are left (see the plan), and the ttl arithmetic, which no property depends on.
