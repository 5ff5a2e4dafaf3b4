# A TLA+ verification project for vxway

vxway is an API gateway written in Go. A proxy process matches each HTTP request to
an API, forwards the API's nodes to servers of back-end clusters (in batches and with
retries), protects APIs and servers with circuit breakers and rate limiters, checks the
health of servers, and learns its configuration from an etcd store that other proxies
share and that administration servers change on behalf of clients. This directory models
the parts of it that run concurrently and the messages they exchange, checks them with
TLC on small instances and proves the central properties with TLAPS. Paths below are
relative to `src/src/`.

## Inventory

| Component | State | Operations | Shared with | Correct when | Modelled by |
|---|---|---|---|---|---|
| Circuit breaker (`proxy/dispatcher_runtime.go`, `proxy/filter_circuit_breake.go`) | status Open / Half / Close, breaker configuration, barrier, pending recovery timers of each API and server | filter `Pre`, `Post`, `PostErr`; `circuitToClose`, `circuitToOpen`, `circuitToHalf`; in-place `updateMeta` | requests, timer wheel, event loop | a closed circuit recovers; racing requests do not undo each other; no deadlock on the breaker's lock | `Circuit`, `CircuitProofs` |
| Dispatcher tables (`proxy/dispatcher_meta.go`, `dispatcher_event.go`, `dispatcher_copy_on_write.go`) | maps of clusters, servers, binds, active servers, proxies; APIs, routings, plugins | one event loop applies store events and status events; maps are copied and replaced | requests read the maps, the checker sends events | the tables converge to the store; the load balancer's list agrees with the statuses; a start loads the whole store | `Dispatcher`, `DispatcherProofs` (clusters, servers, binds, proxies), `Boot`, `BootProofs` (all tables, load and restart) |
| Health checker (`proxy/checker.go`) | channel `checkerC`, workers, timers, the timer handle in each server object | `addToCheck`, `check`, `doCheck`, `heathCheckTimeout` | event loop, wheel | one check loop per server, no wait cycle with the event loop | `Dispatcher` |
| Store (`store/store_etcd.go`, `store_watch.go`) | keys in etcd; the range of ids of each administration server | put, remove, bind, apply, register, watch; id allocation; batch, clean, backup | administrators, event loops, the store of another gateway | events arrive in order of the changes; ids are unique; a backup is complete | `MetaStore`, `MetaStoreProofs`; `Boot`, `Dispatcher` (the keys each needs) |
| Messages (`pb/metapb`, `pb/rpcpb`, `pb/validation.go`, `client/client.go`) | bytes in transit and in etcd | `Size`, `MarshalTo`, `Unmarshal`, `Validate…` | client, administration server, proxy, each of its own version | what is read is what was sent | `WireFields`, `Metapb`, `Rpcpb`, `Encoding`, `Codec`, `Wire`, `EncodingProofs` |
| Timeout wheel (`goetty/timewheel.go`) | clock, hashed buckets, lock pool, freelists of recycled timeout objects | `Schedule`, `Timeout.Stop`, `doTick`, `doExpired`, `Stop`, `Start` | every component that has a timer | a callback runs at most once, never early, never after a successful stop | `TimeoutWheel`, `TimeoutService`, `TimeoutWheelProofs` |
| Rate limiting (`utils/ratelimit`, `proxy/rate_limit.go`, `filter_rate_limiting.go`) | token buckets, sleeping callers | `Take…`, `Wait…`, `TakeAvailable`, `Available`; rebuilt by refreshes | requests, event loop | the rate is not exceeded; no overtaking | `RateLimit`, `RateLimitProofs` |
| Request processing (`proxy/proxy.go`, `dispatcher.go`, `multi.go`, `pool.go`, `render.go`) | pooled nodes and wait groups, channels of dispatch and copy workers, the aggregate of a request | `ServeFastHTTP`, `doProxy`, `doCopy`, `maybeDone`, `render`, `Stop` | all of the above | batches in order, parts complete, pooled objects not used after release, every request answered | `RequestFlow`, `RequestFlowProofs` |
| Analysis (`utils/analysis.go`) | counters and recent rates per API and server | record, periodic `calc` | requests, wheel, breaker | rates describe the last period | not modelled (inputs of `Circuit`) |
| Response cache (`proxy/filter_caching.go`, `utils/lru.go`) | LRU list, byte buffers, removal timers | `Get`, `Add`, `Remove`, eviction | requests, wheel | size bound; buffers not shared or used after release | not modelled |
| Load balancing and barrier (`lbs`, `utils/barrier.go`) | counters | `Select`, `Allow` | requests | exact shares | not modelled (any choice in `Circuit` and `RequestFlow`) |
| Task runner and queues (`utils/task`) | queues, ring buffer, tasks, state | put, poll, dispose, run, stop | all tasks | no lost item, no lock kept | not modelled (cancellation in `RequestFlow`) |
| Route matching (`route`) | trie of segments | `Add`, `Find` | event loop, requests | agrees with a reference matcher | not modelled (conflicts in `Boot`) |
| Other filters, JavaScript plugins, JSON parser, expressions, logging, buffers and sessions of goetty, gRPC | - | - | - | - | not modelled, see below |

How they meet: requests run on connection goroutines and dispatch workers. They read
the tables without locks, hold runtime objects that the event loop replaces or wipes in
place, and call the filters, which use breaker, limiter, cache and analysis. The wheel
runs callbacks that move circuits and queue health checks. The event loop is the only
writer of the tables and blocks on `checkerC`; the workers that drain `checkerC` block
on the event loop.

Hard behaviours: statuses read and used later (breaker); objects wiped in place while
requests hold them; recycled objects behind old handles (wheel); the clock read before
the lock is taken (wheel, bucket); copy-on-write objects whose old copies live on in
workers and timers (checker); wait groups, nodes and aggregates recycled between
requests; blocking channels in a cycle; stop and restart; tables loaded while events
already change them; a watch that breaks; requests to etcd that fail and may have been
committed; errors that a callback returns and nobody looks at; programs of different
versions that rewrite each other's objects. `PROJECT.json` lists them as
hazards, each at its line, with the properties that would notice.

## Modules and how they correspond to the code

**Circuit.** One action per critical section of the breaker's lock and per step of the
filter. A request keeps the status it read (`req[q].st`) and acts on it later, so that
racing requests act on stale statuses, as in the code. `Wipe`, `SetCb`, `SetCircuit`,
`SetBarrier` and `AddToCheck` are `updateMeta` executed by `refreshAllQPS`: the runtime
object is overwritten field by field, mutex included, while requests use it; a request
that meets the half-written object sets `crashed`. `Schedule` may run the callback inline
when the wheel advanced between its two reads of the clock (`InlinePossible`). The
rates of the analysis are inputs: both results of a comparison are possible. In this
code base *Open* lets traffic through.

**Dispatcher.** The store's keys and the events its watch produces; the event loop with
its handlers; check workers, `checkerC` and timers. `addServer` is several steps because
the push to `checkerC` can block before the new table is installed. `armed` and
`orphans` distinguish timers whose handle the current server object holds from those
that an old object took with it. `binds` and `actives` count entries, since the code's
slices may hold duplicates.

**TimeoutWheel** has one action per critical section; `LoadTicks` and `ScheduleInsert`
are separate because `Schedule` computes its deadline before it locks the bucket.
Objects are recycled through freelists and told apart by generations. Intrusive lists
are sets. **TimeoutService** is what callers rely on; `TimeoutWheel` is shown to
implement it with the mapping `outcomeBar`.

**RateLimit.** Buckets with their arithmetic (`currentTick`, `adjustavailableTokens`,
`endTick`, `take`, `takeAvailable`), limiters that refreshes replace, and requests that
hold an old one. `taken`, `ready`, `handed` and `level` are history: tokens in the order
taken, the tick that pays for them, the highest one whose caller went on, and the
balance had every tick been credited when it passed.

**RequestFlow.** `ServeFastHTTP` is `Serve`, `SameBatch`, `NextBatch`, `SendCopy`,
`Dispatch`, `Put`, `Returned`, `Render` and `Finish`; `doProxy`, run by workers and by
requests, is `Start`, `Forward`, `Reselect`, and `LockPart`, `WritePart` or `NoPart` for
`maybeDone`. Servers, filters and tables answer nondeterministically within the events
that a node `may` meet. A batch index is any integer, as the code's unvalidated int32:
`Batch` says in which batch the loop of `ServeFastHTTP` has a node, and that is one batch
for all indexes up to zero. The aggregate is the set of nodes whose parts it holds; Depend
is a slice that shares its array with the aggregate, and what is read beside a write of
either may be `Torn`.

**Boot.** The start of a proxy: `Start` is `init` up to `go r.watch()`; `Load` is `load`,
directory by directory and page by page (`ReadDir` with `ReadPage`, one request of
`getValues`; `LoadObject`, `ReadBinds`, `LoadBind`, `LoadApplied`), so that the store may
change between two pages; `Register` and `Receive` are the watch and the event loop beside
it; `Kill`, `WatchBreaks` and `ReadFails` are the faults. An object is the version of its
meta. `updatePlugin` and `updateAppliedPlugin` build an engine, which `NewRuntime` may
refuse (`BuildFails`): the first then returns before it stores the new version
(`refused`), the second has set the applied plugins and keeps the old engine (`built` is
FALSE). Each handler of the event loop and each `add…` of load is one step: what two of
them do to the same map at the same instant is not modelled. `flaws` records where an
event came between load's read of its object and the addition ("crossed"; of APIs, and of
the applied plugins, while load was at work on them), the changes that no watch saw
("missed"), directories that load read while an event of theirs was queued ("lagged") and
plugins applied that do not exist ("stray"). The properties say what holds without them;
`Synced` does not mind "lagged" except for APIs. All APIs of the model have one URL pattern, so that any two that are
up conflict in the route. Binds are a set here; `Dispatcher` counts duplicates. Removing
a cluster sends one event for each of its binds, in whatever order etcd lists them
(`Lists`).

**MetaStore.** The keys of two gateways, the ranges of ids of their administration
servers, and `BackupTo`. Of the target's servers the backup calls one, `Target`, and
`Peers` are any others, whose ranges `SetID` leaves alone. `backup.copied` is history: the
objects that the backup had copied when it ended. An operation holds the lock of its own server only, and each
request to etcd is a step: `Put` is `allocID`, `GetID` and `ReserveIDs` are the loop of
`generate`, `PutObject` is `putPB`. `ListPage`, `CopyObject`, `ListBinds`, `CopyBind`,
`NextPage`, `Finish` and `CopyID` are `BackupTo` with `getValues`. A request that fails
may have been committed (`AllocFails`, `BatchFails`). The target is left alone by all its
servers while a backup writes it. A page is a set: what `getValues` does with it
does not depend on the order within it.

**WireFields, Metapb, Rpcpb, Encoding, Codec, Wire.** `Metapb` and `Rpcpb` transcribe the
generated `MarshalTo`, `Size` and `Unmarshal` of every message, each from its own Go
function, as lists of the few blocks of code they are made of; `WireFields` names the
blocks. `Encoding` says what one of them does with bytes (varints, negative numbers in ten
bytes, length prefixes taken from `Size`, skipped fields) and `Codec` puts them together
along the nesting of the messages (`Size`, `MarshalTo`, `Unmarshal`, groups, kept unknown
fields, packed fields, which are accepted and never written). Nothing in the model makes
the three functions of a message agree. `Wire` sends the messages: a client's request, the
store's validation, id and time stamp, the object in etcd, and the reader, a proxy's watch
or another client's Get. Each party has a version of the messages; an older version lacks
one field that the store itself does not read. The repository has the service's generated
handlers and no implementation, so the server's side of gRPC is modelled from the store it
calls.

## Runs

Every run finishes in about two and a half minutes or less on two cores.

| Run | Shows |
|---|---|
| `circuit` | Two requests, an API and a server, two-tick recovery, one refresh of each: `CloseHasTimer`, `TimersBounded`, `NeverCloseToOpen`; every closed circuit leaves Close (`CloseEnds`), every request gets through (`RequestsFinish`). |
| `circuit_half` | **Violation.** A recovery timer outlives a refresh and moves an open circuit to Half. |
| `circuit_inline` | **Violation.** `CloseTimeout` 0 and no refresh: the inline callback waits for the lock its caller holds and `CloseEnds` fails. |
| `dispatcher` | Five store changes against loop, worker and timers: `ActivesMatchUp`, `BindsOnKnownServers`, `Converged`; loop and worker never wait for each other in a cycle (`NoWaitCycle`), and all events are handled (`EventsDrain`). |
| `old_check_stopped` | **Violation.** `updateServer` stops the timer of a server whose first check still waits in `checkerC`, where there is none to stop, and queues a second check. |
| `routes_stored_binds` | **Violation.** `removeCluster` keeps the binds; the cluster id put again routes to servers the store does not bind. |
| `wheel` | Two calls, two buckets, one stop and restart: `NotOverdue`, `StopExact`, `FreelistLocked`, refinement of `ServiceSpec`, and `Served`. |
| `rate_limit` | Three calls of two requests, two limiters: `LazyIsEager`, `RateBound`, `InOrder`. |
| `request_flow` | Two requests over five APIs: `BatchesInOrder`, `WritesOwned`, `RenderedWhole`, `DependComplete`, `ResponsesReleased`, `RequestsAnswered`. |
| `boot` | Two changes of the store, one fault and failing engine builds at any point of a start, of two initial stores and read page by page: the tables follow the store (`Synced`), the applied plugins are those of the store, run by the engine if it could be built, and the assertion of `removePlugin` is not met (`PluginsSafe`); an undisturbed start on a sound store loads all of it (`Boots`). |
| `meta_store` | Two changes by three servers and one failed request around a backup: `IdsUnique`, `IdsFresh`, `BackupComplete`, `BackupExact`, and allocations and backups end (`Progress`). |
| `wire` | Every request, response and stored object, between any mix of two versions: `SizeExact`, `Delivered`. |

Deadlock checking is off in every run: once the bounded changes, calls or requests are
used up the modelled system is idle, and `RequestFlow` may also end with requests that a
stopped proxy never answers. The liveness properties state what must not get stuck.

### Bounds and why they are enough

- Circuit: two requests race on each transition; one refresh per resource is one more
  than the clean case, and a timer that survives it needs no second. Two ticks of
  `CloseTicks` with `MaxLag` one is the smallest pair without an inline callback;
  `circuit_inline` has none and zero ticks.
- Dispatcher: one cluster, one server, five changes (put both, bind, remove, put again).
  `NoWaitCycle` is about proxies whose channel and workers hold as many checks as
  changes can start, `MaxOps` for each server (five; `CheckerCap` 4 and a worker). With a
  smaller channel the loop waits for room while every worker waits for the loop: the code
  has that cycle behind 1024 entries. The two violation runs have two workers.
- Wheel: two objects make a recycled object with an old handle; two buckets and
  durations 0, 1 and 3 give inline, next-tick and next-round deadlines. The clock
  saturates at `MaxTicks`.
- Rate limit: `Quantum` is 2 so that rounding to ticks matters (the proxy uses 1); two
  limiters so that one is replaced while held.
- Request flow: `DispatchCap` 1 instead of 1024 so that senders block; batches of two
  then one, one then two, and an API with the indexes -1 and 0; two attempts; each node
  meets few events so that the run stays small, and between them they meet all. Pool objects are handed out lowest first,
  which loses nothing because they are interchangeable.
- Boot: two APIs to conflict, two plugins to apply one and remove the other, one of
  every other object; `PageLimit` 1 instead of 32 makes two pages of either. Two changes
  are a change and its undoing, or the pair that reaches an assertion; `Synced` and
  `PluginsSafe` also hold with three changes of plugins and with four of APIs, and all
  three properties with changes of servers besides (1.7 million states). One fault, since the next start forgets the tables.
- MetaStore: `Limit` 2 instead of 96 gives empty, partial and full last pages; `Batch` 2
  instead of 1000 lets a range run out. Two servers race for the id key of each
  gateway. One failure, at any request.
- Wire: fields are zero, set one by one or all set; between equal versions also at the
  edge (-1, 2^31 - 1, texts of 130 bytes, whose length takes two bytes). `uint64` above
  2^31 - 1 is beyond TLC's integers. Versions differ in one field; the three largest
  messages (`Bulk`) only in a field of their own.

### Fairness

Weak fairness of every goroutine that is not blocked (the Go scheduler), of the wheel's
ticker and callbacks, and of timers. Strong fairness only for the event loop's receive
and the blocked senders of its unbuffered channel, which the runtime queues first come
first served. Arrivals (requests, store changes, refreshes, stops) are never fair. A
forwarded request ends because the HTTP client has timeouts. In `Boot` load and event
loop, in `MetaStore` the steps of a backup and of each allocation are weakly fair: every
request to etcd returns, with an error if need be. Faults, registrations of the watch
and changes are not.

## Proofs

The theorems hold for every value of the constants that satisfies the named
assumptions of the module (`CircuitAssumption`, `DispatcherAssumption`,
`TimeoutWheelAssumption`, `RateLimitAssumption`; `StoreAssumption` and
`ContentsAssumption` of `MetaStore`, `BootAssumption` and `ContentsAssumption` of `Boot`;
`RequestFlowAssumption`). Of these, `RequestFlowAssumption` says that requests, workers and
pooled objects are told apart, that a torn or unread Depend is no set of parts, that a
node which uses its default has one, and that the nodes of an API are sorted by batch
index, as `apiRuntime.init` leaves them (its comparison subtracts int32s, so the indexes
of an API are less than 2^31 apart); it bounds neither pools nor requests nor indexes.
The `ContentsAssumption`s are about the store that a run begins with: of `MetaStore` that
no object has an id above the id key, of `Boot` that at most one API with the modelled URL
is up, which is what the store's own operations preserve. `BootAssumption` makes keys
natural numbers, for their order on the pages, and no page empty by its limit.

- `CircuitProofs`: `TypeOK`, `CloseHasTimer`, `TimersBounded`,
  `NeverCloseToOpen`. The inductive invariant `IInv` adds `CbInv` (a resource without
  breaker is open) and `TimersInv` (counts the resets that a refresh in progress has
  still to write; without it a refresh could orphan one callback too many).
- `DispatcherProofs`: `TypeOK`, `ActivesMatchUp`, `BindsOnKnownServers`, `Converged`,
  `NoWaitCycle`. Each action is reduced to what it does to the counts of binds and
  actives; `BindsOnKnownServers` rests on the fact that only `addBind`, which looks the
  server up, makes a first entry. `Converged` is not inductive, since tables lag behind
  the store: `FollowInv` says of each server and cluster that a `History` of its states,
  one per event waiting, leads from the table, or from what the handler under way will
  install in it (`Heading`), to the store, and that every New finds the key absent, every
  Update and Delete finds it present. The second part is why `addServer` and
  `updateServer` never refuse an event by mistake. `NoWaitCycle` is a count (`LoadInv`):
  the checks of a server that are queued, with a worker, in a timer, with the loop or
  still to be started by a waiting event are never more than the changes made, since a
  check goes on as one check and a change starts at most one for each server. A full
  channel with every worker waiting would be one more.
- `TimeoutWheelProofs`: `TypeOK`, `NotOverdue`, `StopExact`, `FreelistLocked` and
  `ServiceSpec` (refinement). `WheelInv` says who owns an object (`Own`: bucket,
  freelist, expired list or callout), that a live object and a current handle serve the
  same call (`Serves`), how the clock, the buckets' last ticks and the ticker relate
  (`Clock`, `Scanned`) and which lock an object carries (`MutexInv`).
- `RateLimitProofs`: `TypeOK`, `LazyIsEager`, `RateBound`, `InOrder`. `Inv` relates each
  bucket to its history: the eager level is the lazy balance once credited, the balance
  is what the ticks paid minus what was taken, and `ready` is the tick that pays for the
  last token. The arithmetic of floor divisions is in lemmas of its own.
- `MetaStoreProofs`: types, `IdsUnique`, `IdsFresh`, `BackupComplete`, `BackupExact`.
  `IdsUnique` needs `RangesInv`: the ranges that servers hold lie below the id key and
  apart from each other and from what was issued, because a swap of the key reserved each
  of them. `IdsFresh` needs to know of every object in source and target, and of every one
  in the batch of a backup under way, that it lies below the key of the source, which only
  grows (`ObjectsInv`, `CopiedInv`), and that afterwards the copied objects are apart from
  the range of the server that handled `SetID` and below the target's key, which its
  peers only raise (`TargetInv`). It says nothing of the ids that peers have left. For `BackupComplete`,
  `CompleteInv` places each object that stayed in the source: in the target, in the batch,
  on the page, or ahead of the cursor; a failed batch is kept and sent again, which is why
  errors that `getValues` drops do not lose objects. `BackupExact` assumes that nothing
  changes and nothing fails; then only the backup takes steps (`QuietSteps`), and
  `BindsInv` and `AppliedInv` follow the cursor; the latter counts the plugins passed
  modulo `Limit`, since the applied plugins go along with a last batch that is sent only
  when it is not empty.
- `BootProofs`: types, `PluginsSafe`, `Synced`. The state alone does not say whether a
  table is right: events that wait in the queue will still change it. The invariants
  therefore speak of a history: `Chain(evts, d, st[d], h)` says that `h` is a sequence of
  states of directory `d`, one per event waiting, that ends in the store and in which each
  event is the step from one state to the next; `Sets` says the same of the applied
  plugins. A receive drops the first state, a change of the store appends one, and neither
  touches the rest. `PluginsInv` says that the dispatcher knows the plugins and has the
  applied set of the first states of the two histories, and that in each state the applied
  plugins exist: so the removal of an applied plugin cannot be the next event, whether the
  engine could be built or not. `TableInv(d)` says of each key what load and events have
  made of it: before load reads the page with the key the table holds what events brought
  or nothing (`Early`); afterwards it has the value that the history starts with, or an
  event that mends it still waits, as when load read a newer state than the event that is
  received next (`Settled`). It is kept for each key on its own (`Passed`), which is why
  changes between pages do no harm; `Same` leaves open the version of a plugin whose update
  was refused. For APIs `APIsInv` adds that one
  API is up in every state of the history, and `RouteInv` that the API the table has up is
  the one that is routed to.
- `RequestFlowProofs`: types, `WritesOwned`, `BatchesInOrder`, `RenderedWhole`,
  `ResponsesReleased`, `DependComplete`, and that wait groups are used as Go asks for
  (`GroupsSound`: no `Done` below zero, none pooled while it counts or is that of an
  unfinished node). The actions are first brought into a few shapes
  (`StepCases`: a request turns, accepts, prepares or puts a node; an execution goes on,
  ends or takes a node), so that an invariant is shown once for each shape. `CoreInv`
  says who has which node: requests and nodes point at each other (`OwnInv`), a node is in
  one channel, held by its request or executed, and in one place only (`PlacesInv`,
  `HeldInv`), and a wait group belongs to one request and counts exactly its *open* nodes,
  those prepared and not completed (`OpenInv`, `GroupInv`, `CountInv`). The lemma `Waited`
  draws the consequence: a request that has waited has no open node. `WritesOwned` follows
  at once. `BatchesInOrder` adds that all open nodes are of the batch that was prepared
  last (`BatchInv`); it and `DependComplete` are about the batches that `Batch` makes of
  the indexes, since the code has no others. `RenderedWhole` needs that whoever writes the aggregate holds its lock
  and still knows what is in it (`LockInv`), so that it has the parts of all nodes that are
  prepared and not open (`PartsInv`). `ResponsesReleased` needs that a node which is still
  to be forwarded has no response (`FreshInv`), else a retry would drop one; `RespInv` is
  then the count. `DependComplete` combines all of them: at the start of a batch the
  aggregate has the parts of the earlier ones, none of whose nodes is open any more, and
  the Depend of that moment stays until the next (`DependInv`, `SeenInv`), except for what
  nodes of the same batch do to it.

- `EncodingProofs`: the codec, for every int64, every field and every message. What
  `encodeVarintMetapb` writes has the length that `sovMetapb` says and is read as the same
  integer (`VarintRead`), and data that is cut inside it is an error (`CutVarintFails`).
  The argument goes through the septets: nine turns of the loop leave nothing of a number
  below 2^63 (`NothingLeft`), their sum is the number (`SeptetsValue`), and the
  two's complement of a negative one is undone by the reader (`ComplementFacts`). A field
  is read by its case and skipped by `skipMetapb` up to the same byte (`FieldReadBack`);
  the fields of a message follow each other without gap (`FieldsFollow`), so that each of
  its values is read at its place (`MessageReadBack`). A message has exactly `Size` bytes
  if the messages in it do (`MessageExact`), and by induction on the depth of nesting all
  messages have (`SizeIsExact`): `SizeOf` and `BytesOf` there are any operators that obey
  the equations with which `Codec` defines `Size` and `MarshalTo`. The theorems are about
  tables of blocks, terms and cases that agree (`Counts`, `Accords`); that all tables of
  `Metapb` and `Rpcpb` do is the assumption `TablesAgree` of `MCWire`, which TLC evaluates
  in the run `wire`. Field numbers are below 2^29 as in every `.proto` file, lengths are
  int64 and a bool field holds one value, as a Go bool does.

Only model-checked: all liveness properties (outside the prover's reach under fairness),
and `SizeExact` and `Delivered` of `Wire` as invariants of its specification. `Codec`
follows the nesting of messages with RECURSIVE operators, and the prover takes no module
that reaches one. `EncodingProofs` proves what these invariants rest on: where an
induction is needed, the numbers for which a fact holds are a set, whose complement would
have a least member. What it leaves to the run is the loop of `Unmarshal` itself, which
puts the values into the message, merges, skips and keeps unknown fields.

## Abstractions

- A critical section is one step. The wipe `*s = serverRuntime{}` is one step and each
  later assignment of `updateMeta` another.
- Two tickers of a restarted wheel read the clock atomically with the increment. The
  path of `Timeout.Stop` that returns false changes nothing and is no action.
- Integers are unbounded: ticks, tokens and ids of 64 bits do not wrap in a process's
  life. `MaxQPS` above a second's nanoseconds makes `NewBucket` panic and is assumed
  away.
- In `RequestFlow` unlocking the aggregate and `wg.Done` are one step; a node that
  uses its default has one (the code dereferences nil otherwise); bodies are JSON and not
  empty and the attribute names of an API's nodes distinct, so that `Set` neither fails
  nor overwrites a part; responses are counted and not told apart, and rendering is one
  step; log messages after `maybeDone` are left out.

## Behaviour of the code that the models show and no run reports

- A check worker that takes an id before `addServer` installs the table finds no server
  and ends its only check (`dispatcher_meta.go:342`).
- A server without health check that is Down in one cluster stays Down when another
  bind is added (`dispatcher_event.go:153`).
- `Schedule` on a stopped wheel recycles an object without deadline to the first
  freelist (`timewheel.go:254`); `Stop` between scan and send makes the ticker send on a
  closed channel (`timewheel.go:230`, `:314`). The proxy never stops its wheel.
- Every refresh gives a server a new, full bucket; `MaxQPS` 0 becomes one per second;
  the floor of `Second / max` raises the rate.
- A recovery timer that fires between the writes of `updateMeta`, after `cb` is set, makes
  the circuit half while its barrier is nil: a request that reads both then calls `Allow`
  on nil (`dispatcher_runtime.go:153`; `PreHalf` with `crashed`).
- A wheel that is stopped and started within a tick has two tickers: `Start` waits for
  `doExpired` only (`timewheel.go:205`).
- `lastBatch` starts at 0 (`proxy.go:256`): nodes of index 0 are queued while those of
  index -1 run, and those of -2 and -1 run together, although a comment says "wait last
  batch complete".
- A network error comes with an empty response of status 200, which no list of retry
  codes holds: only strategies without codes retry it.
- A retry that finds no server does not release its context to the pool.
- `doCopy` does not release the response that comes with an error (`proxy.go:346`; the
  count `resp[NoRequest]`). `ResponsesReleased` is about the responses of `doProxy`.
- `renderSingle` releases the response whose bytes `renderTemplate` uses (`render.go:79`),
  and an error of `Set` empties the aggregate (`multi.go:27`): seen in the code, not in
  the model.
- Nodes of one batch may read a torn Depend; requests with queued nodes hang when
  `Stop` cancels the workers.
- `RemoveServer` leaves the binds of the server in the store: the next start of any proxy
  ends at `log.Fatalf` in `loadBinds` (`dispatcher_meta.go:115`), which is why `Boots`
  assumes a sound store.
- A removal that the event loop handles between load's read and its `add` leaves the
  object in the tables; a change made before the watch is registered and after load's
  read, or while the watch is broken, is never seen (`store_watch.go:34` asks for no
  revision); load may overwrite a newer set of applied plugins.
- Load drops an API that conflicts with one whose removal is still queued, or was made
  after the page that the other was on was read, and no event adds it again. `updateAPI` gives up on a conflict that the next event resolves, and
  routes to an API that it has just been told is down (`dispatcher_meta.go:278`).
- `appliedPlugins` is nil until load sets it: an update or removal of a loaded plugin
  before that dereferences nil (`dispatcher_meta.go:644`).
- `updatePlugin` builds the engine before it stores the new version, so the engine runs
  the old one (`dispatcher_meta.go:550`). An applied plugin whose version in the table does
  not build can not be updated any more: the build comes first and fails again.
- When the engine for a new applied set cannot be built, the set stays and the old engine
  runs on (`dispatcher_meta.go:596`).
- `ApplyPlugins` does not look whether its plugins exist: the proxy refuses such a set and
  keeps the old one, and a removal of a plugin in it then meets the assertion "bug:
  plugin … is applied, can not remove".
- `getValues` ignores what its callback returns (`store_etcd.go:1059`). A failed batch of
  objects is sent again with the last one, but the binds of a cluster whose read failed,
  or that were behind a failed batch, are lost and the backup reports success.
- The applied plugins go along with the last batch of plugins, which is not sent when
  their number is a multiple of 96 (`store_etcd.go:894`).
- A backup of a gateway without ids sets the target's id key to zero, and `generate` then
  loops for ever with the store's lock held (`store_etcd.go:1149`). `SetID` empties the
  range of the server that handles it; its peers keep theirs and may give a new object the
  id of a copied one, which it then replaces (`store_etcd.go:681`).

## Not modelled, and why

The other filters transform one request and share nothing. The JavaScript interpreter,
JSON parser, expressions, route matching and formatting convert data byte by byte, out of
TLC's reach or without state that another goroutine sees while it is written; where the
store or the tables depend on their verdict (a route in conflict, a script that does not
compile, an expression that does not parse) the verdict is nondeterministic or modelled by
its effect. The analysis, the load balancers and the barrier's counter are inputs of
`Circuit` and `RequestFlow`, which allow whatever they may return. The response cache is a
pool of shared buffers of its own: its races are in the list of hazards. Of the task
library the proxy uses cancelable tasks only. Buffers, codecs and sessions of goetty,
discovery, connections, listener set-up and `System` are I/O. The builders of the client
set fields of one object. The handler for web sockets differs from `ServeFastHTTP` in its
connection handling.

## Plan

1. `Caching`: removal timers and buffers shared by concurrent hits.
2. `Analysis` composed with `Circuit`.
