# A TLA+ verification of meguri

meguri is a crawl frontier: it decides which URL to fetch next, when, and on which
host, keeps that state durable, and spreads it over partitions. This directory holds
TLA+ models of its components, TLC configurations that check them on small instances, and
TLAPS proofs of the central guarantees of the scheduler, the run loop, the wheel, the
store, the fleet, the control plane, the DNS cache and the data components for every
instance.

The source under `src/` is the reference. `PROJECT.json` maps every modelling
definition to the lines it stands for, lists the hazards the properties are aimed at,
one mutation per property that the property must catch, and the disagreements found.

## 1. Inventory

| Component | State it keeps | Operations | What makes it correct | Where |
|---|---|---|---|---|
| Frontier scheduler (`frontier/`) | URL and host records; front bank (priority ring), per-host back queues, ready bank, wait heap, active count, per-IP table, wheel | `Seed`, `Discover`, `DispatchShard`, `Report` (crawl, failure, robots), `Checkpoint`, `Recover` | one polite fetch per host; a URL is in one place and never lost; tombstones stay; rules and dates honoured; the active set is counted | `Frontier`, `FrontierProofs` |
| Due-time wheel (`frontier/wheel.go`) | hour ring, overflow heap, cursor, ring count | `add`, `due`, `admitOverflow`, `nextDue` | each key fires at its hour, once; every call ends | `DueWheel`, `ScheduleIndex`, `DueWheelProofs` |
| Politeness (`politeness/`) | per-IP table, adaptive gap | `HostInterval`, `Adapt`, `EligibleAt`, `Spend`, `Evict` | no interval below its floor; windows of a host and its address both respected | inside `Frontier` |
| Engine (`engine/engine.go`, `batch.go`, `clock.go`) | the loop's position, the worker pool, the result channel | `Run`, `place`, `fold`, `intake`, `blockForInbound` | no request lost, no deadlock, no oversleeping, no early end | `Engine`, `FrontierProofs` |
| Store (`store/`) | log, snapshot and superblock files; index, arena, resident count, eviction queue | `PutURL`, `PutHost`, `DeleteURL`, `GetURL`, `Intern`, `Checkpoint`, `Close`, `Open` | acknowledged updates survive a stop anywhere; the live index is what the log replays to | `Store`, `StoreProofs` |
| Partition map and handoff (`distribute/control.go`, `map.go`, `handoff.go`, `rebalance.go`) | the map: count, pins, epoch | `AddPartition`, `RemovePartition`, `Pin`, `FetchMap`, `Handoff` | one epoch is one map; a handoff loses no host | `Fleet`, `FleetProofs` |
| Discovery routing (`distribute/router.go`, `transport.go`, `batch.go`) | cached map, per-destination batches, channels | `SwapMap`, `RouteLinks`, `Flush`, `Send`, `Drain` | a router never goes back; a discovery reaches somebody who keeps it; batches and channels are bounded | `Fleet`, `FleetProofs` |
| Health, placement, elasticity (`distribute/control.go`, `failover.go`, `rendezvous.go`, `elasticity.go`) | machines, factor, placement, health, misses, backlog; the loop's streaks and cooldown | heartbeats, `SetHealth`, `SetReplicas`, `SetMachines`, `FailMachine`, `Tick` | each partition is placed on the fleet, a lost primary is succeeded by its replica, resizes do not flap | `Control`, `ControlProofs` |
| Replication (`distribute/replicate.go`) | snapshot tables, highest LSN applied | `NewReplica`, `Apply`, `Stream`, `Lag`, `Promote`, `RecoverInFlight` | a replica is a prefix of the primary; a promotion loses nothing of it | `Replica`, `DataProofs` |
| Signals (`distribute/signal.go`) | score slices by epoch | export, import | advisory only | not modelled |
| Batch body (`distribute/batch.go`) | columns of deltas, arena | `EncodeBatch`, `DecodeBatch` | round trip; a cut body is refused | `Batch`, `Rules`, `FormatProofs` |
| DNS cache (`dns/`) | positive and negative entries, in-flight set, prefetch queue, pending count | `Lookup`, `Suppressed`, `Prefetch`, `Resolve`, `Wait`, `Close` | one resolution per host in the pool, one verdict, orderly drain | `Resolver`, `ResolverProofs` |
| Dedup (`dedup/`) | filter, sorted buckets, ribbon; trap counters, fingerprints | `Seen`, `Insert`, `Merge`, `MarshalRibbon`; `Observe`, admission; `Canonicalize` | a key is new once; traps leak boundedly and nothing else is parked; identity is right | `SeenSet`, `Trap`, `Canon`, `DataProofs` |
| Robots (`robots/`) | parsed groups | `Parse`, group selection, `match` | the heaviest group, the longest match, Allow on a tie | `RobotsRules`, `Rules`, `DataProofs`; the verdict is a choice in `Frontier` |
| Format (`format/`) | column pages, regions, schedule region, footer facts, manifest | encode, decode, projecting reads, split, merge, compact, extract, `CoverageGap`, `Route`, `DueParts` | no rewrite loses or changes a row; pruned reads agree with the table; a clean manifest routes every host | `Encoding`, `PartitionFile`, `Collection`, `FormatProofs` |
| Collections (`engine/collection.go`, `partition.go`) | the files of a collection | open, checkpoint, the operator's rewrites | as above | `Collection` |
| Freshness, prioritize | estimates, OPIC cash | floating-point scores | | outcome is a choice in `Frontier` |
| Sitemap, fetch, seeding, command line, bench | | I/O, parsing and wiring | | not modelled |

How they interact. The engine's single goroutine makes every frontier call, so the
frontier is sequential; what is concurrent is the fetches (workers and a result
channel), the clock, other partitions' discoveries, and the process stopping. The
frontier asks politeness for windows, the seen-set whether a URL is new, the DNS cache
for an address, and the wheel which URLs are due. A partition loads the frontier from
the store's snapshot and writes it back with a checkpoint. The store itself is used
concurrently: its index, log, arena and eviction queue have a lock each. The control
plane is one lock shared by operators, heartbeats and the elasticity loop, which takes
it several times in a tick; the DNS cache is one lock and one channel shared by
prefetchers, workers and synchronous callers. The data components (files, batches,
rules, seen-set, detectors, replica) are each used by one goroutine; what is hard there
is long sequences of legal calls and boundary values.

The hard behaviours are therefore: outcomes in any order between dispatches; windows
that move after a host was ranked; rules that arrive while URLs are queued; the restart
of a frontier with fetches outstanding; the loop waiting on its own pool; a checkpoint
of the store cut anywhere; operations of the store interleaving between two of its
locks; heartbeats, failures and resizes between two reads of the elasticity loop; a
worker's answer arriving around a synchronous lookup or a close; tails repeated or sent
again; and rows rewritten, re-encoded and re-indexed many times over. `PROJECT.json`
lists them at their lines.

## 2. Modules

**Frontier** models `src/frontier` with the politeness package. One action is one call,
loops included, because the engine serialises the calls. `flying` is the set of
outstanding fetches; each may be reported at any time. `DispatchShard` is the whole
call: fire the wheel (`DueURLs`...), promote the wait heap (`Opened`, `Reparked`), run
the anti-starvation sweep (`Sweeping`, `Lifted`), distribute the front bank to hosts
until the active cap stops it (`Bindings`, `StopsAt`), pop a host, resolve its address,
re-check both windows, and start a robots or content fetch, spending both windows.
`ReportCrawled`, `ReportFailed` and `ApplyRobots` are the three paths of `Report`.
`Recover` rebuilds every queue from the last checkpoint. Options (`RobotsOn`,
`StateOn`, `WheelOn`, `FreshOn`, `PrioOn`, `DnsOn`, a bounded active set) are constants,
as in the code. Priorities are bucket numbers; time is whole seconds and `HourSecs`
stands for 3600; what the float code computes (OPIC price, next due hour) and what the
detectors decide (admission, soft-404) are choices. Within a bucket the ring and the
heap are sets, so the model allows every order the code's FIFO allows and more.

**DueWheel** is the hashed wheel at the grain of one loop turn; **ScheduleIndex** is
what it promises: a key fires at the first `due` at or after its hour, once. `Frontier`
uses the promise; `DueWheel` implements it under the refinement mapping
`pending <- Held, cursor <- base`.

**Engine** extends `Frontier` with the loop goroutine (`pc`, the request in `hand`), the
workers (`busy`) and the result channel (`out`, capacity `Workers`). Each frontier call
is the `Frontier` action conjoined with the loop's step, so the two are composed and
share the frontier's state.

**Store** models `src/store`. The unit of atomicity is one lock region or one file
operation: append, flush, repoint, count, enqueue, evict, offset lookup, spilled read,
install, arena append, intern frame, and the steps of a checkpoint (scan of a shard,
hosts, strings, cut and truncate, snapshot, superblock, swap, removal). `stable` is how
much of the log the device holds, `synced` what the code believes. `Crash` keeps any
prefix of the log that covers `stable`, and any of three outcomes for a superblock write
it interrupts. `Recovered`, `RecoveredArena` and `ResumeLSN` are `recover` as functions
of the files, so `AckedKept` (which includes that the store opens), `LiveIsLogged` and
`ArenaStable` can say of *every state* what an immediate stop would leave, and `Crash`
continues from there. A payload is the number of the write that produced it and the
history variables `issued`, `acked`, `promised`, `refs` only serve the properties.
Offsets are frame positions: two logs agree on an offset when the frames before it have
the same kinds. `MayWrite` and `MayRead` give each caller the keys it writes and those it
reads, so that a spilled read of one caller can span another's puts, evictions and
refills. `Located` is the frame an entry leads to, whatever body it has; `Held` is what
the properties take an entry to stand for.

**Fleet** models the ownership half of `src/distribute`. `map` is the control plane's;
each partition has the maps it has fetched and not seen (`fetched`), the one its router
has installed (`view`), and the ones its running calls were started with. `RouteLinks`
loads the map once; then each remote link is a step (`RouteLink`), a batch that fills
makes the partition wait in `Send` until the destination's channel has room, and
`RouteReturn` hands the partition's own links to its frontier. `Flush` sends what is
partial, `Intake` takes whatever has arrived without asking who owns it, as the engine
does. A handoff (`StartMove`, then `Commit` at the destination and `Acked` or
`ShipFailed` at the source for each slice, then `EndMove`) ships in the order of the
destinations and drops a slice only on an acknowledgement of its commit. A slice whose
call failed may arrive later (`stray`, `CommitLate`). The repository has no caller of
`Handoff` and no transport for it outside its tests: `Commit` and `CommitLate` are
external, the owner is taken to run the handoff in its own goroutine under its router's
map, and the destination to merge a slice between its own jobs. A crash keeps the rows
and loses the rest; links it loses are no longer `known`, since they are rediscovered
with their page.

**Control** models the rest of the control plane. Each operation of `Control` is one
critical section and one action, its trailing `replace` included. `Elasticity.Tick` is
four: it may be cooling (`TickCooling`), it reads the mean backlog (`TickBacklog`), then
the count (`TickCount`), then resizes or holds (`TickResize`, `TickHold`), and anything
may happen between two of them. The rendezvous hash is an arbitrary score per partition
and machine; whether weights are used follows the code's test. `MissHeartbeat` may come at any time,
as in the code; its count stops at the threshold, beyond which the code only fails the
partition again. `raced` remembers that
an operator changed the table between the loop's read and its resize, and `since` counts
ticks since the last resize; both only serve `ScalesPaced`.

**Resolver** is the DNS cache with a step per critical section and per channel
operation: a prefetcher reserves a host and then blocks on the queue, a worker receives,
asks, and files the answer with a clock it read before the lock, a synchronous caller
does the same beside them. `Close` comes when no `Prefetch` is under way, as its caller
must arrange.

**Replica** is a snapshot plus the primary's tail. The sender is not in the repository:
it is external, delivers at least once, repeats and shuffles within a batch and reaches
back arbitrarily, but skips nothing.

**Encoding** holds the six column encodings in arithmetic of `WordBits` bits, wrapping
where the code wraps, and **Batch** the wire body of a batch on the same arithmetic; **PartitionFile** builds pages, zone maps, the schedule region and
a partition's file from them, with the reader's pruned reads; **Collection** is the state
machine over a sequence of files: checkpoint, split, merge, compact, extract and the
manifest. Each operation decodes, works and encodes, as the code does. Manifest entries
are tagged with epochs (`Epochs`): `CoverageGap` walks the entries of one, `Route` and
`DueParts` look at all, as in the code. The ghost `live` is the set of rows the collection
should hold.

**SeenSet** is the Bloom filter, the sorted buckets with the batch merge, and the ribbon,
solved under any bands its hash may give. **Trap** is the pattern detector with the
admission rule, over a change of month and a reload that keeps a host's flag and forgets
the detector, and the soft-404 detector over page fingerprints.

**Canon**, **RobotsRules** and **Batch** are pure functions; **Rules** calls them one
argument at a time and states what they must return by independent definitions:
`MeansMatch` places literal runs existentially instead of scanning, `MeansAllowed` reads
the lines without groups, as RFC 9309 does, the groups of one agent combined; `Resource`
says which links name one resource. `Query` is `url.Query`, which drops the pairs it
cannot parse (`Malformed`: a semicolon or a bad escape).

`MCFrontier`, `MCEngine`, `MCDueWheel`, `MCStore`, `MCFleet`, `MCControl` and `MCResolver`
give the constants that are functions their small values. `MCData` brings the data
components into one run: they share no state, so the variable `part` picks one of them
per behaviour and the others stay idle.

## 3. Runs

| Run | Instance | What it shows |
|---|---|---|
| `frontier_core` | 2 hosts behind one address, a URL each, 2 shards, cap 2, 2 buckets; DNS, state machine, repricing and sweep on | a fetch starts with both windows open and leaves both closed; every URL is filed under its recorded priority; tombstones stay |
| `frontier_restart` | 1 host, 2 URLs, robots and wheel on, 1 restart | one fetch per host, robots.txt included; each URL queued once, none lost, each host filed once before and after recovery; no disallowed fetch |
| `engine_live` | 1 worker, 3 hosts for 2 active slots, 1 routed URL, failures and retries | the run returns, only when drained; every scheduled URL runs; the active count is exact and within its cap |
| `engine_safe` | 2 hosts, robots and wheel on, routed URL, 1 restart | the clock never sleeps past work |
| `due_wheel` | 2 keys, span 3, hours 0..7 | the wheel implements the index, `nextDue` is the least hour, calls return |
| `store_full` | 2 callers, one writer and two readers per key, Full, 2 checkpoints, failing flush/snapshot/superblock, 1 crash | what returned survives any stop, and the stop after it; the store opens; references are stable |
| `store_spill` | 2 callers, 3 keys with one writer each, of which 2 have a second reader, budget 1, failing appends | spilled reads hand over nothing older than their call and entries lead to the last write, while others write, evict and refill; the count is exact; the log replays to the live state; every call returns |
| `fleet` | 2 partitions, a host that moves and one that stays, 2 URLs, batches of 2, channels of 1, 3 epochs, 1 crash | no URL is lost by routing under old maps, by crossing handoffs, by lost, late or damaged acknowledgements or by a crash; one epoch is one map; routers only move forward |
| `control` | 3 machines, 2 partitions, factor 0 raised to 1 at any time, 2 misses to fail, 3 epochs | partitions stay placed on the fleet; the first replica succeeds a lost primary under a new epoch and nothing else moves; resizes keep their distance and limits |
| `resolver` | 2 prefetchers, 1 worker, 1 synchronous caller, queue of 1 | one resolution per host in the pool, no reservation left behind, no contradicting verdicts; `Wait` and `Close` drain |
| `data` | each data component on its own | files keep their rows and pruned reads agree (`RowsKept`, `ReadsAgree`, `CleanRoutes`); rules, identities and batches mean what their references say (`RobotsMeaning`, `CanonSafe`, `BatchWhole`); `SeenOnce`, `ReplicaFollows`, `TrapsParked` |
| `torn_tail` | violation | see section 5 |

Why the bounds are enough. Two hosts on one address are the least that make a window
move after a host was ranked by it; two URLs on a host give a queue behind a fetch. One
restart from a checkpoint of any age covers recovery, since the second starts from a
state of the same kind. `HourSecs` is small so that hour and second clocks both move
within the bound. A span of 3 with hours to 7 wraps the ring twice and uses the overflow.
One worker fills both the pool and the channel, three hosts for two active slots leave
one waiting in the front bank, and a refill batch of one makes the cap bite. Rules valid
for two hours outlive a politeness window, so URLs are bound under rules in force. In
the store, two checkpoints use both superblock slots and the removal of a named
snapshot; the properties look one stop beyond every state, so one `Crash` step covers
two stops in a row. In the fleet, three epochs let a partition hold a map, another
overtake it and a third one move a host back, two fetched snapshots can be installed in
either order, and two partitions with a moving host make handoffs cross; a batch of two
both fills and is flushed half full. In the control plane, three machines with factor
one leave a spare, weights differ, and two breaches with a cooldown of one let
a resize, a cooling tick and a second resize happen. In the resolver, two
prefetchers with overlapping lists and a queue of one block each other and meet the
worker; every lifetime is 1 after clamping, so entries expire between a clock read and
its use. Words of 4 bits make every delta, zigzag and counter wrap within the data;
pages of at most 2 rows split a column, three tiers of the schedule are each hit, and
hosts sit at both ends of the key space; two epochs give manifests of one and of both. Three operations on files give every
composition of rewrites of depth three.

`MaxNow`, `Horizon`, `Restarts`, `MaxGen`, `MaxWrites`, `MaxStrings`, `MaxLSN`,
`Crashes`, `MaxParts`, `MaxEpoch`, `MaxFetched`, `MaxPrefetch`, `MaxResolve`,
`MaxFiles`, `MaxOps`, `MaxBatch`, `MaxLog`, `MaxTop`, `MaxReloads` and `MaxRows` are the
bounds. Deadlock is not checked in the store, fleet, resolver and data runs, only
because the bounds (or a finished call) end their behaviours.

Assumptions of the store runs. Each key has one writer, any caller may read it, and one
caller interns: the partition's owner is the only writer of its keys. Checkpoints are
taken between updates, as `store.go:477` asks. Section 5 says what happens otherwise, and
what a second reader can do to the body of an evicted record.

Assumption of the fleet run, and of `NothingLost`. A destination merges a slice only
while it runs no handoff of its own (`Commit` asks `Free`). It matters: if it may merge
one in the middle of its own handoff, `EndMove` installs what it kept from before and
the merged rows are gone; `NoURLLost` then fails with two partitions handing over to each
other under maps of different epochs. `Handoff` takes a snapshot of the partition and
returns the part to keep, so its caller has to see to this.

Fairness. `engine_live` assumes weak fairness of the loop goroutine (a runnable
goroutine runs) and of each fetch (the fetcher has a timeout, so a fetch returns);
nothing is assumed of restarts, discoveries or the clock, which only the loop's own
sleep needs to move. `resolver` assumes that a prefetcher, a worker and a waiter that
can go on do, and that the resolver answers or fails (its client has a timeout); calls,
`Wait` and `Close` need never come. `store_spill` assumes that a call which has begun is
scheduled, and strong fairness of taking `evictMu`, because a Go mutex hands itself to a
starving waiter. `due_wheel` assumes that a loop goes on.

Every property has a mutation of a mapped definition in `PROJECT.json` that it must
catch: a dropped floor, a peek instead of a pop, a forgotten reset, a flush mark kept
across logs, a first-wins replay, a missing carry in a decoder, and so on.

## 4. Proofs

Eight modules hold the proofs. Each theorem is about all values of the constants that
meet the named assumptions of its component's module; where a theorem has a hypothesis
of its own it is said below, with the reason. A hypothesis on an option or on how a
component is used is never there for the prover: without it the property is false of the
code, and section 5 says how.

### The scheduler: `FrontierProofs`

For all finite sets of hosts and URLs, any addresses, shards, cap, options and time
constants (a host for each URL, the robots key not a URL, the zero address not an
address, a home shard for each host, natural bounds with the positive ones positive,
`MinGap <= MaxGap`):

* `TypeCorrect`, `PoolsCorrect` (a host is in at most one pool and only with work
  queued), `OneFetch` (one fetch per host) and `Polite` (every fetch starts with the
  windows of its host and of the address it resolves to open, and closes both for their
  floors);
* `OnePlaceOnly` (`URLInOnePlace`), `BankFiled` (`FrontBucketed`), `RulesObeyed`
  (`NoDisallowedFetch`), `TerminalKept` (`TerminalStays`);
* `NothingLost` (`NoURLLost`), assuming `~FreshOn`: with freshness dating and the wheel
  together a recrawled page is in no queue;
* `ActiveExact` (`ActiveHoldsBack`), assuming `~RobotsOn`: `applyRobots` may leave an
  emptied host active. `ActiveBounded` is what holds with robots too: the counter counts
  the active hosts, is within its target, and nobody else holds a queue.

`IndInv == TypeOK /\ PoolsDisjoint /\ OneFetchPerHost` carries the first group. Neither of
the last two is inductive alone: a dispatch may only start a host because it took it
from the ready bank, so that no second copy is in flight, and a report may only file the
host because its one fetch has ended. Politeness is a step property: only
`DispatchShard` puts a host in flight (`NextPolite`), and there the window tested is the
one spent, after the address was resolved (`DispatchPolite`).

`QueueInv` carries the second. What it adds to `IndInv`: the fetch in flight is the head
of its host's back queue or its robots.txt (`FlyingHead`), without which a report would
not know that the URL it takes off the queue is the one it settles; the URLs that wait
have a status that says so (`Waiting`), so a rediscovery does not file one twice; rules
awaited are being fetched, and rules in force hold of the whole queue of their host
(`RulesKept`), which is why its head may be fetched unchecked; and the active set is what its counter says.
`DispatchShard` is reduced once to the set of bindings it makes, the hosts it adds and
takes out and the robots fetches it starts (`Moves`), and each part of the invariant is
shown of that. `CallInv` and `CallPolite` say it of any call with any arguments
(`AnyCall`), so that the engine's proof, where the loop chooses them, can use them too.

### The run loop: `FrontierProofs`

For any number of workers, on top of the scheduler's assumptions:

* `EngineKeepsFrontier`: under the loop the frontier keeps all the invariants above that
  have no hypothesis; `EnginePolite`, `EngineTerminal` and (`~RobotsOn`)
  `EngineActiveExact` likewise;
* `FetchesInHands`: an outstanding fetch is in the loop's hand, with a worker or in the
  result channel, in one of them only, and they hold nothing else;
* `RunDrains` (`DrainedMeansDone`), assuming `~FreshOn` and `~RobotsOn` for the reasons
  above;
* `NeverOversleeps` (`NoOversleep`).

`EngineInv` is `QueueInv` with `InHands`; `Quiet`, that the loop rests only with nothing
in flight, no host ready and, with no host parked, an empty bank (what the last failed
dispatch established and nothing has changed since); `WheelOff`; and `ParkedEarly`, that
the heap key of a parked host is never later than the moment it really opens. The last
is what oversleeping hangs on: windows only move forward after a host was ranked.

### The wheel: `DueWheelProofs`

For every span of at least two hours, any keys and hours: `WheelTyped`, `WheelLeast`
(`NextDueLeast`) and `WheelImplements`, the refinement of `ScheduleIndex`: the initial
states map to initial states and every turn of the loop of `due` is a step or a stutter
of the index. A ring of one slot would fire a key an hour late, which the proof brought
to light and `WheelAssumption` excludes; the code's `wheelSpan` is 1024. `WheelInv` says that a key in a slot belongs to the hour of the
current horizon with that slot (`RingPlaced`; `SlotsApart` is the arithmetic), that the
overflow lies beyond the horizon except for what the call in progress has yet to admit,
that the count is the number of keys in the ring, and where a call stands.

### The store: `StoreProofs`

For any number of callers, keys, writes, generations and crashes, with failing flushes,
snapshot and superblock writes:

* `PromisesKept` (`AckedKept`): wherever the process stops, the store opens and reads
  every promised write or a later one;
* `ReadsCurrent` (`ReadCurrent`): through evictions, refills, checkpoints, crashes and
  reopenings each entry stands for the last write of its key that returned, or a later
  one; and a spilled read hands its caller a record of its key no older than the last
  write that had returned when the call began, whatever others do to the key meanwhile;
* `LiveStateLogged` (`LiveIsLogged`), assuming that no flush fails: a key no call is
  under way on has after a stop what its entry stood for before it;
* `ResidentsCounted` (`ResidentCounted`): in a store that deletes nothing and is not
  reopened, callers that have all returned leave the resident count exact and within the
  budget, whatever they write, read, checkpoint and evict at once;
* `ArenaKept` (`ArenaStable`): a reference `Intern` returned names its string, in the
  arena and in the one recovery would build.

The first three and the last assume `Usage`: checkpoints between updates (`Paused`), a crash that leaves no
partial frame (`~Torn`; `torn_tail` shows the other case), one writer per key with any
number of readers, and not both a memory budget and checkpoints. Each is the negation of
a disagreement of section 5. What an entry stands for is the body a read returns, when
there is no budget or one caller uses the key, and otherwise the frame the entry leads to
(`Held`): under a budget with a second reader a body may be an older one (section 5).

`StoreInv` ties four versions of a key to each other: what the index reads, what the log
replays to over the snapshot in use, what the checkpoint has copied, and what was
acknowledged. `LogFit` says that every prefix of the log that covers `stable`, replayed
over the snapshot, fits the promises; `LiveFit` says it of the index and what was
acknowledged. They need that a frame is the write it numbers and frames of a key are in
issue order (`Framed`, `Ordered`), that a write under way is the newest of its key
(`Pending`, from one writer per key), that of the two superblock slots the one in use
names a complete snapshot and the other is older, or newer and complete between the
superblock write and the swap (`SuperAt`, `SnapAt`), and that what a checkpoint has
copied is what the store reads (`Scanned`, from `Paused`). `UptoNext` (what one more
frame does to a replay) and `RecoveredIs` (what `Open` builds) are the lemmas everything
rests on.

`ResidentsCounted` needs neither `Usage` nor `StoreInv`; its hypotheses exclude the two
operations that section 5 lists as leaving the count wrong. `ResidentInv` says that the
count plus the callers about to add to it is the number of resident records
(`ResidentExact`); that a resident record is in the eviction queue or in the hands of a
caller about to put it there (`Listed`); and that over the budget some caller is at the
eviction loop or about to enter it (`Watched`). The step that needs all three is the last
caller leaving the loop: over the budget with an empty queue, every resident record would
have its own uncounted caller, so the count would be at most zero.

`ArenaKept` assumes further that one caller interns and no append fails, which section 5
shows it needs. `ArenaInv` says that the interned strings of the log, over the
snapshot's, are a prefix of the arena and all of it but the string whose frame is about
to be written (`LogStrings`, `Caught`), and that the checkpoint copied the arena as it is.
The recovered arena takes frames by kind; the frame of rank j among them is the j-th
string (`Ranked`).

### The fleet: `FleetProofs`

`FleetProofs` proves about `Fleet`, for any number of partitions, hosts and URLs, any
jump hash that stays below the count and any sizes and bounds:

* `TypeCorrect`: `Spec => []TypeOK`, with the batch and channel bounds;
* `NothingLost`: `Spec => []NoURLLost`;
* `EpochsIdentify`: `Spec => []EpochIdentifies`;
* `RoutersForward`: `Spec => RouterForward`.

Its assumptions are the named ones of `Fleet`: every URL has a host and there are
finitely many, `Jump[h][n]` is below `n`, and the sizes are positive.

`NoURLLost` is not inductive: it would let two partitions drop each other's only copy.
The invariant is `LossInv == TypeOK /\ OneJob /\ Anchored`. `Anchor(p)` is what p can be
relied on for: its rows, or in a handoff what it keeps, less the slice whose commit it
has yet to hear of. `Anchored` says that every known URL is in somebody's anchor or in
transit, and `OneJob` that a partition in a handoff routes nothing and keeps a part of
its rows. A commit moves a slice from the source's anchor to the destination's, which is
free and so has its rows as anchor (`LossCommit`); a call that returns leaves the
source's anchor within what it keeps (`LossProceed`). `EpochOK` is `EpochIdentifies`
over all maps of the fleet at once: a control operation makes the next epoch and touches
no partition (`MapStep`), and no other step brings in a map nobody had (`ViewMaps`,
`JobMaps`, `MoveMaps`). `RouterForward` follows, since a restarted router starts from a
map at least as new as the one it had.

### The control plane: `ControlProofs`

For any finite fleet, scores and weights, table size and settings of the loop:

* `PlacementCurrent` (`Placed`);
* `LossPromotes` (`PromotesReplica`), assuming `Unmixed`, a fleet without unset weights or
  with nothing else;
* `ResizesPaced` (`ScalesPaced`).

`Ranked` places a machine by the number of machines ahead of it. That number identifies
a machine and takes every value below the size of the fleet (`AheadCounts`: it grows
along a strict total order, so it is injective into a set of the same size), so the list
holds every machine once (`RankedList`). `TableInv` says that each partition is placed as
the ranking of the current fleet says: every change of machines, factor or table ends
with `replace`, which establishes it from anything (`ReplacePlaces`), and health leaves it
alone. Removing a machine takes it out of everybody's set of machines ahead and changes
no key (`AheadLocal`; this is where `Unmixed` is needed), so the first stays first and
after its loss the second is first (`NextInLine`). `LoopInv` bounds the ticks since the
last resize from below by the cooldown served and each streak: a streak of n needs n
ticks after the cooldown, whatever happens between the steps of a tick. The proof showed
that a resize upwards may end below `MinPartitions`, when the table starts below it;
`ScalesPaced` therefore bounds each resize by the limit it moves towards.

### The DNS cache: `ResolverProofs`

For any hosts, nonempty prefetch lists, finite pools of prefetchers and workers, any
callers, lifetimes and queue size:

* `PoolResolvesOnce` (`PoolOnce`): a reservation is never left behind, and a host that
  only the pool resolves is asked for once at a time; `PoolVerdict` (`OneVerdict`) for
  such hosts, as section 5 explains;
* `WaitGroupSound`: the wait group's counter never goes below zero and is zero only when
  nothing is queued and no worker is at work.

`PoolInv` says that each reservation has a holder, a prefetcher about to send, a place in
the queue or a worker (`Reserved`); that a host no synchronous caller went out for has
one at most, is reserved while it has, and its address has expired by then (`Sole`,
`CallersMarked`); that a prefetcher's clock is not ahead (`ClocksBehind`); and that the
counter is the sends under way, the queue and the busy workers (`PendingExact`).

### The data components: `FormatProofs` and `DataProofs`

These are functions computed by loops, so their proofs are inductions over data.
`LeastNat` gives a least counterexample (from the library's well-foundedness of finite
sets), `Climb` makes induction over a loop of it, and `Recursion` and `CourseFits` show
that a recursive function over `0..n` exists and is what its equation says.

`FormatProofs` has the formats:

* `CodecLossless`, for every word size of three bits or more: whichever of the six
  encodings a page is written in, its decoder accepts it and returns the column, for
  every column of words whose length a word can count. One fact for each: `n` fields of
  equal width come apart by division and remainder (`PlaceIs`), a value is the sum of its
  low bits (`UnpackOne`), so packed values of a width they fit come back (`Unpacked`); the
  distance from the least value fits the frame's width (`FrameIs`); a step is undone from
  its zigzag form also across the sign bit and the wrap (`StepBack`, `ZigzagBack`) and the
  steps telescope (`SummedBack`); the dictionary holds each value once and no more than
  there are codes for (`DistinctIs`); the runs unroll to the column (`RunsUnroll`). The
  prover knows exponentiation only by name: that a power of two doubles with its exponent
  is stated in `WordAssumption`, which TLC evaluates.
* `BatchHolds` (`BatchWhole`), for any rows and any cut: nine columns laid end to end are
  found again (`BodyLaid`, `ColumnRead`), their deltas sum up to the columns (`TotalsRun`),
  and each read past the end of a shorter body fails (`CutRefused`). `sort.Slice` is not
  stable, so the body is any of the bodies of the batch's key orders, and none of them
  loses a duplicate row (`OrderCounts`).
* `CoverageRoutes`: in a manifest `CoverageGap` passes for an epoch, one entry of which
  ends at the last key, each host key is in one range of that epoch, whatever else the
  manifest lists; and when it lists nothing else `Route` returns that entry.
* `FileLossless`: a file written of a partition whose rows fit their columns and can be
  counted in a word decodes to that partition. Pages glued together are the column,
  however `splitColumn` cut it, and columns put together are the rows.
* `CollectionKeeps` (`RowsKept`) and `CollectionRoutes` (`CleanRoutes`), for any rows,
  strings, operations and number of files that meet `CollectionAssumption` (keys, dates
  and references fit their columns). `CollInv` says that every file is made of sorted
  tables whose references name the right strings and whose range holds their hosts
  (`Good`), that no host is in two files, that `live` is what the files hold (`HeldBy`),
  and that the arenas stay within what a reference can address (`Room`). Under it is one
  lemma for each operation on partitions: `rebaseArena` keeps what every reference names
  (`RebaseHolds`), and `Merge` copies from two arenas with a cache each (`MergeKeeps`).

`DataProofs` has the rest:

* `ReplicaTracks` (`ReplicaFollows`), for any writes, keys and batches: `ReplicaInv`
  says that the replica is the log's table at an LSN of the log (`ReplayFollows`: an
  ordered batch that skips nothing takes it from one LSN to a later one, and what it has
  already is dropped), and that a promoted partition was made of it (`PromotedWhole`),
  with a range that holds every URL whose host has a row (`PromotedRows`).
* `CivilExact`, for every day: `civilFromDays` names the month that has begun and not
  ended by the Gregorian rule. The era arithmetic is split into years (`YearOfEra`: the
  three corrections count exactly the leap days before) and months (`MonthOfYear`).
* `TrapsHold` (`TrapsParked`), for any links, thresholds, budgets and clock, assuming
  `OneDate`: no link shows two dates. A link that does is read by map order (section 5),
  so the detector may count it at one time and not at another. `TrapInv` says that the
  counters of a host are the links it has met since its last reload (`Counted`), that a
  flag is a counter at its threshold, and that fewer than the threshold have leaked;
  `SoftInv` says the same of page fingerprints.
* `SeenHolds` (`SeenOnce`), for any keys, bucket function, filter, batches and bands.
  `SeenInv` says that the filter and the buckets hold exactly the keys given (`Tiers`):
  the sweep finds what is new (`SweptSweeps`), the two-pointer merge of two disjoint
  sorted runs is the sorted run of both (`MergingStep`, `MergedRun`), and the buckets
  split the key space. The ribbon is linear algebra over bits: `XorLinear` and
  `BackSubstituteSolves` show that a system without a conflict is solved, so a query
  returns the fingerprint of every key it was built over.
* `RobotsHold` (`RobotsMeaning`), for any product token, lines, patterns and paths. The
  greedy scan finds a placement whenever there is one, since it reaches the least
  position each literal run can end at (`ReachesNext`, `SegmentScans`, `MatchMeans`); the
  running verdict is the longest match with Allow on a tie (`AllowedSettles`); the
  groups of the parser are the runs of the lines (`Parsed`, `RunIsGroup`), the group it
  picks is that of the first of the heaviest User-agent lines (`SelectNamed`,
  `SelectStars`), and when these head one group the first stands for all (`OneGroupFirst`).

### What is only model-checked

* Liveness (that a run returns, that scheduled URLs run, that the wheel's calls, the
  store's calls and the resolver's pool come to an end): fairness and ENABLED are outside
  the prover.
* `ReadsAgree`: that whole reads give back the table is proved (`FileLossless`), that the
  schedule region, the zone maps and the page skip list prune nothing of it is not.
* `CanonSafe`.

The type invariants of `Frontier` and `Fleet` are proved and not run; that of `Store` is
part of `StoreInv` (`Shape`, `SnapShape`) and that of `Control` of `TableInv` and
`LoopInv`.

## 5. Where the code and its words disagree

Shown by a run:

* `torn_tail`. A reopened log appends behind the partial frame of a crash; the next
  replay stops at that frame and loses acknowledged updates (`store/log.go:96`, against
  `log.go:76`).

Met while modelling, and kept out of the passing runs by an option, a constant or a
condition of the property. In the frontier and the engine:

* `filterRobots` may empty a host's back queue; `applyRobots` leaves the host active and
  in no pool, and URLs bound to it later are never fetched (`frontier/m3.go:182`,
  against `frontier.go:85`). `ActiveHoldsBack` fails with `RobotsOn` and two URLs on a
  host.
* With `WheelOn` and `FreshOn` together, `markCrawled` (`frontier/state.go:84`) files a
  URL only if it is still `Crawled`, but `SetNextDue` has made it `DueRecrawl`: it is in
  no queue until a restart, so `NoURLLost` fails. `frontier.go:364` recommends the
  pairing.
* After a restart a future-dated seed is in the front bank and is fetched early
  (`frontier.go:1133`, against `frontier.go:358`). The per-IP table restarts empty
  although the host records saved their address windows (`frontier.go:1107`, against
  `frontier.go:87`).
* The loop stamps fetch errors in seconds where hours are declared (`engine.go:219`,
  `message.go:48`), so retries are dated far ahead of `state.go:121`'s cap.
* Two hosts on one address can both be in flight when the first fetch outlasts the
  window (`m3.go:82`, against `README.md:25`); starts are spaced, fetches are not
  counted.
* A crawl delay with a fraction is truncated to whole seconds (`m3.go:244`), against
  `politeness.go:65`. `Frontier` uses whole seconds throughout.
* `promoteAged` lifts scheduled URLs only, not `DueRecrawl` ones, and a page the
  soft-404 detector made `Gone` is dated again by `SetNextDue` when freshness is on.

In the store:

* After a checkpoint index entries keep offsets into the removed log; an evicted record
  is then unreadable (`store.go:517`, against `store.go:522`). `ReadCurrent` fails in
  `Store` with a budget and a checkpoint.
* A spilled read gives the shard's lock up while it reads the log, and then checks only
  that the entry has no body and no tombstone (`store.go:295`). If the owner of the key
  puts and the record is evicted in between, the reader puts the old body over the new
  entry, and `GetURL` returns it until it is evicted, against `store.go:270` ("returns the
  current record"); a checkpoint would write it. It takes a reader besides the writer and a
  budget. `Read(k)` in place of `Held(k)` makes `ReadCurrent` and `LiveIsLogged` fail in
  `store_spill`; what is checked and proved there is what remains: the reader's own answer
  and the frame the entry leads to.
* Two writers of one key can repoint in the other order than they appended
  (`LiveIsLogged`, `store.go:261`); a put between a checkpoint's scan and its swap is lost
  (`AckedKept`, `Paused = FALSE`); two interning callers, or a failed intern append, shift
  the recovered arena (`ArenaStable`, `store.go:175`); a superblock flush that fails after
  the slot was written loses later updates and can leave the store unopenable (`AckedKept`,
  `superblock.go:138`); deletes and recovery leave the resident count wrong
  (`ResidentCounted`, `store.go:325`, `store.go:635`). Each fails in `Store` when the
  corresponding constant (`MayWrite`, `Paused`, `Interners`, `Errors` with `Torn`, `Ops`,
  `Crashes`) is set that way.

In the fleet and the control plane:

* `router.go:77` says that a link routed to a partition that no longer owns
  its host "re-routes onward", but `Engine.intake` feeds it to the frontier
  (`engine.go:240`), so two partitions can hold, and crawl, one host until the next
  handoff. Two engines that send to each other with both channels full wait for ever
  (`transport.go:71`); with four URLs and batches of one `Fleet` reaches it. Pins survive
  the removal of the partition they name (`control.go:123`), and `SetReplicas` and
  `SetMachines` change the map without the new epoch that `map.go:54` promises.
* `FailMachine` re-ranks with what is left of the fleet: when unset weights are mixed
  with weights and the last weighted machine is lost, the ranking changes from weights
  to plain scores, and the new primary need not be the "highest-ranked surviving
  replica" of `failover.go:82`. `PromotesReplica` leaves such fleets out.
* The misses of a removed partition survive it (`RemovePartition` clears only the
  backlog): a partition added under its id can fail on its first miss, where
  `failover.go:55` says "A first miss degrades the partition". A report that arrives after
  the removal is kept, and read when the id is added again, although `control.go:70` has
  a partition "that has not beat yet" read as zero.
* With the last machine gone, or a factor of zero or less, a partition keeps a primary
  that is not in the fleet. `Placed` asks for a machine and a positive factor.
* The elasticity loop reads the backlog and the count and resizes under separate locks,
  so an operator between them can take it past `MaxPartitions`; `ScalesPaced` says so of
  resizes nobody raced.
* A replica drops every entry at or below the highest LSN applied (`replicate.go:105`),
  so an entry arriving in a later batch than its successor is lost for good. Its string
  arena is the snapshot's and never grows, so references in tail rows may dangle. A
  second signal bundle of one epoch is dropped (`signal.go:165`). A promoted partition's
  range is that of its host rows (`replicate.go:163`): when the tail ended between a URL's
  entry and its host's, the URL's row lies outside it, and `MaybeOwnsHost` and
  `HostRangeURLKeys` (`reader.go:69`, `reader.go:196`) prune it, although `reader.go:65`
  calls a refusal authoritative. `ReplicaFollows` asks the range of URLs whose host has a
  row, and of all when no host has one.
* `DecodeBatch` takes a body cut to nothing for an empty batch (`batch.go`).

In the DNS cache: a synchronous `Resolve` clears the reservation a worker holds, so the
pool may resolve the host twice; its late failure may suppress a host that has a fresh
address (`OneVerdict` and `PoolOnce` speak of hosts the pool alone resolves); `Prefetch`
after `Close` sends on a closed channel.

In the data components:

* `CoverageGap`'s expected key wraps past the last one (`manifest.go:128`), so a second
  entry that ends there passes for the start of the space. `CleanRoutes` leaves it out.
  The check skips entries of other epochs (`manifest.go:136`) and `Route` does not
  (`manifest.go:102`), so a manifest that lists two epochs can be clean for one and route
  its keys to files of the other, although it is "the check a control plane runs before
  trusting the map". `CleanRoutes` asks of `Route` only when one epoch is listed.
* Split, merge and compact drop the partition's seen-filter and writer options; a column
  page's checksum covers its payload and not its header.
* `selectGroup` keeps the first group of the longest agent (`robots.go:178`), where RFC
  9309, which `robots.go:1` names, combines all groups of one agent: the rules of the
  later ones are ignored. `RobotsMeaning` reads the lines as the RFC does and leaves out
  the files in which the deciding agent heads two groups (`OneGroup`).
* A robots pattern of a lone `$` matches every path, and a blank user-agent beats `*`.
* `ref.Query()` (`canon.go:137`) drops query pairs it cannot parse, a semicolon or a bad
  escape in them: `/p?id=1;x` and `/p?id=2;x` both become `/p`, where `canon.go:61` wants a
  wrong merge avoided before all. `CanonSafe` keeps two resources apart only for links
  without such pairs (`Garbled`).
* Canonicalisation is not idempotent when an encoded dot is decoded after the dot
  segments were removed, when case is folded after index files, or when one of several
  trailing slashes is trimmed; two spellings are then two URLs. `CanonSafe` names these.
* The trap detector reads the first date in Go's map order when a query has two, against
  `trapdetect.go:101` ("Same URLs, same now, same verdict"); and after a reload learning
  one pattern again re-admits URLs of another that had flagged the host.
* `MeguriSeedSource.Next` ends the stream while fetches it handed out are still running
  (`seed.go:118`).

## 6. Not modelled

Signals (advisory scores that move nothing between queues), floating-point estimation
and scoring (freshness, prioritize), sitemap XML, the network and the fetcher, reading
seed lists, flags and wiring, bench. In the format: the byte layout of header and
footer, checksums, FSST and zstd, inspection. In dedup: content fingerprints,
near-duplicate tables, the serialised form of the sets. In the engine: context
cancellation and signal import; the router flush is in `Fleet`, not in `Engine`. In the
fleet: an encoding that fails. In the store: `CheckpointFrom`, directory durability (a
created or removed name is taken as durable), a failed `fsync` that silently drops
pages, and a superblock slot that is read from the page cache after a process crash and
reverts in a later power loss. In politeness: the eviction of idle addresses and
fractions of a second.

## 7. Plan

1. Proofs: `ReadsAgree` on top of `FileLossless`; `CanonSafe` pass by pass.
2. The engines of two partitions composed over `Fleet`'s channels, with the mutual
   `Send` as a run.
3. The store under `CheckpointFrom` and the partition lifecycle that joins it to
   `Frontier`'s checkpoint; politeness in milliseconds; OPIC cash as integers; signals.
