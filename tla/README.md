# A TLA+ verification of sentinel-cpp

sentinel-cpp guards *resources* (named pieces of code) of a C++ service. The
service wraps a call in `SphU::Entry(...)` and `EntryResult::Exit()`; in
between Sentinel decides, from rules and from statistics it keeps itself,
whether the call may run. The statistics are shared by all threads and mostly
read and written without locks. This directory models that core, checks it with
TLC on small instances and proves its main invariants with TLAPS for every
number of threads, rules and buckets.

Paths below are relative to `src/sentinel-core/`.

## 1. Inventory

| Component | State | Operations | What is hard | What makes it correct |
|---|---|---|---|---|
| **Entry and exit** (`public/sph_u.h`, `common/entry*.{h,cc}`, `common/global_status.cc`) | global switch; per entry: type, context, current node, error, block error, exited flag | `SphU::Entry`, `Entry::Exit`, `setSwitch` command | the switch changes between Entry and Exit; Exit is called twice or on a blocked entry | every Exit takes back exactly what Entry counted |
| **Slot chain, statistic slot** (`slot/`) | none of its own | `Entry`/`Exit` walk the slots; `OnPass`, `OnBlock` | many steps between a check and the count it is about | counters balance; a blocked call leaves no trace in thread numbers |
| **Statistic nodes** (`statistic/node/`) | thread number, second and minute windows; per resource a map of tag nodes | increase/decrease, add pass/block/rt/exception, get-or-create, reset | check-then-insert, limits of the maps, `Reset` under readers | one node per name and tag; numbers never wrap |
| **Sliding window** (`statistic/base/`) | ring of buckets, `mtx_` | `CurrentWindow`, add, `Values`, sums and extremes, `Details` | `try_lock` and spin, recycling in two halves, time read early | a sum counts the window and nothing else; operations end |
| **Statistic configuration** (`statistic/base/stat_config*.cc`) | sample count, interval | `UpdateSampleCount`, `UpdateInterval` | mutual validation without a common lock; resets all nodes | the nodes' windows are those of the configuration |
| **Flow control** (`flow/`) | rule map, controller map, their locks | `LoadRules`, lookup, `CanPass`; throttling checker | three lookups under three locks; check-then-act | a limit is overrun by the racing threads at most |
| **Circuit breaker** (`circuitbreaker/`) | per breaker: state, retry timestamp, one-bucket counter; manager: rules and breakers per resource | `TryPass`, `RecordComplete`, `LoadRules` | racing state loads and exchanges; probes that get lost; reload during a probe | legal transitions, no early probe, no breaker half open for ever |
| **Parameter flow** (`param/`) | per resource: windows and thread counts per parameter value, in LRU caches | `CanPass`, add/decrease thread count, `LoadRules` | eviction while calls are under way, lazy initialisation | counts per value balance, hot values stay cached |
| **LRU cache** (`param/statistic/lru_cache.h`, `scalable_cache.h`) | hash map, linked list, size | find, insert, increase, clear, evict | list and map under different locks | list and map agree, the bound holds, no entry is out of reach |
| **System protection** (`system/`) | merged thresholds; sampled load and CPU | `LoadRules`, `RegisterToProperty`, `Entry`, sampling thread | rules swapped under calls, property swapped under loads; detached thread, stop flag | the strictest rule of one list is in force; the door does not stay shut; the sampling thread stops |
| **Property and data sources** (`property/`, `../sentinel-datasource-extension`) | last value, listeners | `AddListener`, `RemoveListener`, `UpdateValue` | no synchronisation, no replay for late listeners | the value in force is the last one |
| **Metric log** (`log/metric/`) | per node the seconds not handed out; the task's batch; current file, last second, index; searcher's last position | collect, write a second, roll, remove, search, restart | two files written one after the other, roll at midnight and by size, files removed under a search, crash and restart | every second is written at most once, in order, and found through the index |
| **Block log** (`log/block/`) | a record per resource and cause | log, writer thread, start, stop | the map is emptied while callers add to it | every line stands for a block, every block is told of |
| **Transport** (`transport/`) | event loop, pending tasks, wakeup socket, HTTP server | start, stop, destroy, run in loop, answer requests | start/stop races, wakeups, failed starts | start and stop return; nothing is freed under the loop thread, which is joined |
| **Command handlers** (`transport/command/handler/`) | none | format what others hold | – | – |
| **Local config, logger, utilities, init** | values set at start | get/set | – | – |

How they interact: `SphU::Entry` calls the chain of `slot/global_slot_chain.cc`:
`ResourceNodeBuilderSlot` (nodes), the checkers `SystemSlot`, `FlowSlot`,
`ParamFlowSlot` and the breaker `CheckerSlot`, then `StatisticSlot` and the other
statistic slots with the verdict. `Exit` walks `StatisticSlot::Exit` and the
breakers' `CompleteStatSlot::Exit`. Rule managers listen on properties, which
data sources and `LoadRules` update. All nodes and breakers count in leap arrays.

`PROJECT.json` lists every component with its status, and under `hazards` the
places of the code that a test would hardly reach, with the properties that
cover them.

## 2. Modules

Names of actions and operators are those of the code. Each action is one access
to shared state, or one reading of the clock that something shared is compared with, together
with the thread-local work before the next one; a section under a lock is one action where the lock covers
all it touches. What is coarser is said in the section of its module. A
variable under "history" in a module is written by the actions and read by
properties only. Definitions commented `Mutant:` are altered forms of the
definition after them: each property is violated when its mutant replaces the
definition (`mutants` in `PROJECT.json`); no specification uses them.

| Module | Models | Remarks |
|---|---|---|
| `CircuitBreaker` | `circuitbreaker/`: both breaker classes, `CheckerSlot`, `CompleteStatSlot`, `RuleManager` | several breakers on one resource |
| `LeapArray` | `statistic/base/`: `LeapArray`, `BucketLeapArray`, `SlidingWindowMetric` | one metric event |
| `EntryChain` | `SphU::Entry` to `Exit` over `ResourceNodeBuilderSlot`, `FlowSlot`, `StatisticSlot`, with `FlowRuleManager`, `ClusterNode`, the switch | one resource |
| `LruCache` | `param/statistic/lru_cache.h`: one shard of the cache as `ParamBucket` uses it | map, list, `m_size` and the locks; no counts |
| `ParamFlow` | `param/`: rule manager, `ParamFlowSlot`, `ParamFlowRuleChecker`, `ParamMetric`, the statistic slot's part in it | a cache operation is atomic; `LruCache` has its inside |
| `SystemGuard` | `SystemRuleManager` on a `DynamicSentinelProperty`, `SystemSlot` | two properties the manager moves between |
| `StatusListener` | `SystemStatusListener`: the sampling thread and `StopListner` | |
| `MetricLog` | `StatisticNode::Metrics`, `MetricLogTask`, `MetricWriter`, `MetricSearcher`, `MetricReader`, the `metric` command | crashes and restarts |
| `SecondLog` | what the metric log promises, whatever files it is cut into | abstract; `MetricLog` implements it |
| `BlockLog` | `BlockLogTask`, `LogSlot` | |
| `CommandServer` | `HttpCommandCenter`, `HttpServer`, `EventLoopThread`, the `setSwitch` handler | libevent is external |
| `NodeStorage` | `ResourceNodeStorage`, `StatConfigManager`, `StatisticNode::Reset` | |
| `Throttling` | `ThrottlingTrafficShapingChecker` | |
| `MCComponents` | `CommandServer`, `StatusListener`, `BlockLog`, `NodeStorage`, `Throttling` and a one-thread `LeapArray`, side by side | see below |
| other `MC…` | instances for TLC | |
| `…Proofs` | theorems and lemmas about one module; `ComponentsProofs` about those of `MCComponents` | |
| `DataFacts` | lemmas on numbers, finite sets and sequences that the proofs share | no model |

How they fit together. The modules cut the system along its shared state. `EntryChain` is the
frame of a call; what the checkers it leaves open (`OtherCheckers`) decide is in
`CircuitBreaker`, `ParamFlow` and `SystemGuard`, each of which has the calls' part of the chain
that it needs. What `EntryChain` takes for one step, a sum or an addition to a window, is taken apart in
`LeapArray`; what `ParamFlow` takes for one step, in `LruCache`. The six components of `MCComponents` share
no variable with one another or with the chain, so their steps commute and every property of one of them
depends on its own steps only. `MCComponents` therefore explores each by itself: `focus` is chosen in
the initial state and names the one component that moves, the others stay in their initial state. That gives
the sum of the six state spaces instead of their product. It extends
`CommandServer` and, for the window, `MCLeapArray`, and instantiates the other four; its own specification is `AllSpec`. The theorem
`ComponentsSideBySide` says that a behaviour of `AllSpec` is one of each component's `Spec`, so that what
`ComponentsProofs` proves of the components holds of the run.

### CircuitBreaker

`state`, `nextRetry`, `winStart`/`bad`/`total` are `current_state_`,
`next_retry_timestamp_` and the single bucket of each breaker object. `cbMap` is
the vector of the resource in the rule manager and `lastValue` the value that
the property remembers. A thread goes `Entry` → (`TryPass` →
`RetryTimeoutArrived` → `FromOpenToHalfOpen`) per breaker → running → `Exit` →
`RecordWindow`, `AddBadCount`, `AddTotalCount`, `LoadOpen`, … per breaker. `Exit`
takes the breakers from the manager *again*, as the code does. The two classes
differ only in what a bad call is (`Bad`).

The clock and the timestamp are read in two steps of `RetryTimeoutArrived`, in either order, as C++ leaves the
operands of `>=` unsequenced (`RetryClockFirst`, `LoadTimestamp`; `RetryTimestampFirst`, `ReadClock`).
`UpdateNextRetryTimestamp` is two steps as well: `ComputeTimestamp` reads the clock and adds the timeout, and a later
step stores the sum, over whatever others have stored meanwhile. `snap` is what a thread has read and not used yet. The
histories `openedAt` (per thread that has opened a breaker and not stamped it) and `owedSince` (per breaker: when it was last
opened, the earliest opening that was still to be stamped) say what timestamp can be expected.

Data is abstracted thus: thresholds in percent (`AboveThreshold` multiplies out the
floating-point quotient, with the code's outcome for a zero total); a response
time is slow or not; the clock is a counter. `CurrentWindow()` on the breaker's
leap array is one step, and so is the look of `Values()` at the bucket's age, each with its reading of the clock; `LeapArray` shows
what may happen inside them.

### LeapArray

`start`, `cnt` are the buckets of the ring, `mtx` the lock. `Begin` reads the clock;
`LoadBucket`, `IsNewer`, `IsOlder` are the three reads of the bucket's start in
one round of the loop; `ResetTo` and `ResetCounters` are the two halves of
`ResetWindowTo`; `NewDetachedBucket` is the branch "already behind". `Values`,
`Collect`, `Get` are the second part of a sum.

### EntryChain

`resNum`, `entryNum`, `tagNum` are `cur_thread_num_` of the resource node, the
global entry node and the tag nodes; `resPass`, `tagPass` the passes that a sum
of the window gives; `Expire` lets some leave it. A tag node is named after the
call that created it, so that a node which never gets into the map can be told from
the one that is there. Flow rules are direct rules with the default controller,
for all callers (`default`), for one tag, or for the tags without a rule
(`other`). What the checkers not modelled decide is a free choice
(`OtherCheckers`).

`NumThreads` bounds the calls inside `SphU::Entry` at a time: a thread is inside
of one `Entry` only.

### LruCache

`map[cur]` is `m_map`; `clear()` goes on to the next map, so that an operation that loaded
an earlier one (`local`) keeps it. `list` is the linked list from head to tail. A node is
named after the operation that made it and stands for the map entry it belongs to. `held` is the entry
that the accessor of a thread locks until its operation ends. An `increase` goes `Begin` → `Find` →
`Touch`, or → `LoadMap` → `Insert` → `LoadSize` → (`Delink` → `EvictMap` → `Erase`) →
`PushFront` → `Count` → `Shrink` → (evict once more). The list mutex is a variable
only for `snapshotPairs`, which alone does something else while it has it. `tbb::concurrent_hash_map` is
external: `CanRead` and `CanWrite` say when its `find`, `insert` and `erase` get the entry they wait for.

### ParamFlow

A rule object has `parsed`, its hot items, shared by all copies, and a key `<<param_idx, cache_size>>` under which
`ParamMetric` keeps its windows: `rolling` is the PASS cache of the present window, `indexed` how often
`index_map_` has the array, `threads` the cache of thread counts of an index. A cache is the sequence of its
entries from the least to the most recently used one, in shards (`ShardOf`, `ShardSize`). A call goes through the three
initialisations of `ParamFlowSlot::Entry` (each skipped by those who find it done), `Check` per rule and value, `OnPass`, `AddThreadCount`,
running, `Exit`. `Increase` evicts as `LruCache` does. The histories `passes`, `missed`, `full` and `exact` say how many
passes the window should hold, how many fell between the two insertions of an array, which caches have evicted, and
which thread counts have lost nothing.

### SystemGuard

`value` is `last_value_` of each property, `listening` where the manager's listener is attached, `cur` and `mutex` are
`cur_property_` and `property_mtx_`. A loader goes `LoadRules` → store → notify → swap of the map; `RegisterToProperty` moves
the listener in steps of its own. A caller takes the map (`snap`) at `Entry` and holds it against one metric
after the other (`todo`), in any order, as the code iterates over a hash map. CPU usage is a quotient. Readings of the machine
and of the entry node change at any time. Properties are updated through `LoadRules` only.

### MetricLog and SecondLog

`buckets` are the seconds that a node has counted in its minute window, `lastFetch` its `last_fetch_timestamp_`. The
task collects node by node into `batch`, its map from seconds to lines, writes second by second, index entry first and the lines in a second step, then sleeps. `files` is
the sequence of metric files in name order, each with its index. `Crash` loses whatever is in memory and keeps `files`;
`Initialize` starts a process on them. A search lists the names, reads the first index entry at or after its
begin, then file after file, while the writer goes on. The uninitialised variable that validates the
cached position (`last_pos_`) is a free choice.

The abstract specification `SecondLog` has the lines that can be read and those ever written. A step forgets some of the oldest
lines and adds lines of one second that is not older than any before and has not been written before. The refinement
mapping concatenates the files: `log <- Lines`, where `Lines` carries the lines of one file after the other along.

Abstractions: seconds and lines instead of milliseconds and bytes; the lines of one second become visible at once (one flush of the
stream); a node's count that arrives in a bucket after that second was fetched is left out; one base name, a log directory without dots in
its path, one process at a time; `Initialize` comes before the first counted call.

### StatusListener, BlockLog, CommandServer

The *listener* is the sampling thread from the test of `stopped_cmd_` to its sleep, with the two samples and the quotient they give. A failed
read of `/proc/stat` drops the samples and the same round dereferences them: the thread is then `crashed`. A line that is not as it should be
leaves the older sample in the place of the newer. The times of `/proc/stat` are taken never to decrease.

The *block log* keeps a `records` entry per resource and cause, with the times of the last block and the last line. Each critical section of the
reader-writer lock is one step: `Find` and `Emplace` of a reporting call, `WriteLines` of the writer.

In the *command server* `owner` is the thread that calls `Start`, `Stop` and the destructor, `loop` the loop thread between
`InitEventBase` and `ClearEventBase`; `bytes` are the records in the wakeup socket, `tasks` the pending ones, the two futures the promises that `Start` waits for. `Asks`
says what each HTTP request is. libevent is external: `event_base_loop` returns after it has handled some event, evhttp calls back once per request.

### NodeStorage, Throttling

`shape` has the configuration that each node's window was made with; `holder` has the write lock of the node map over the
several steps of a reset. `UpdateSampleCount` and `UpdateInterval` test, assign and reset in separate steps, as the two plain integers of
`StatConfig` are not locked. Three reads are coarser: the test of a change, `CreateNode` and
each reset of a node read both integers at once.

In `Throttling` every access to `last_passed_time_` and to the clock is a step, the two operands of the first look at the
wait (line 26) in either order; `Garbage` is what the uninitialised variable may hold.

## 3. Runs

| Run | Instance | Shows |
|---|---|---|
| `CircuitBreakerReload` | 2 threads, 3 calls, 2 loads of duplicate, kept, additional and invalid rules, clock to 2 | `LegalTransitions`, `TimestampCoversTimeout`, `FreshProbeIsDue`, `ProbeOutstanding`, `ReloadReuses` |
| `CircuitBreakerLive` | 2 fair threads; one breaker, or an error and a slow-call breaker | `HalfOpenResolvedOrLost` |
| `LeapArrayRace` | 2 fair threads, 2 buckets, 3 operations, two and a half intervals of time | `NoExpiredCount`; `OperationEnds` |
| `EntryChainAdmission` | 4 calls, 2 at a time in Entry, 2 loads, one expiry | `AdmissionBounded` |
| `EntryChainBalance` | 2 calls, in- and outbound, 2 tags for one tag node, tag and `other` rules loaded meanwhile, the switch used once, one expiry | types, no null node or rule used; `ThreadNumSound` |
| `LruCache` | 2 threads, 3 keys, size 1, 4 operations, 1 clear, 1 snapshot | `EntryEvictable`, `ListAgrees`, `SizeBounded`, `NotUnderfilled` |
| `LruCacheStall` | 2 threads, 2 keys, 2 operations, 1 snapshot | violated: a snapshot and an `increase` wait for one another |
| `ParamFlow` | 3 calls, 2 at a time in Entry, 2 values in one of 2 shards, thread and QPS rules with an exception item, a cache of one and one of unset size, 2 loads, 1 expiry | `ThreadCountSound`, `PassCountSound`, `AdmissionBounded` |
| `SystemGuard` | 3 callers, 2 loaders, 2 lists with invalid and duplicate rules, 2 properties, 2 loads, 2 readings | `RulesWhole`, `LoadedInForce`, `NeverShutOut` |
| `MetricLogSearch` | 2 nodes, days of 2 seconds, files of 2 lines, 1 file kept, time to 3, 2 starts, 2 searches | `IndexSound`, `SearchSound`, `SearchComplete` |
| `MetricLogTask` | the same with one more count and no search, fair task and clock | `DropsExplained`, `ImplementsSecondLog`, `EventuallyLogged` |
| `Components` | *server*: 2 starts, 2 stops, 3 requests (two set the switch, one is a POST). *listener*: files that open or not, 2 loads. *block log*: 2 calls, 2 causes, 2 reports each. *storage*: 2 callers, 2 resources, 2 updaters, 2 changes, valid and invalid values. *throttling*: 2 callers, a past and a far future garbage value. *window*: 1 thread, 4 operations, nearly two intervals | `FreedAlone`, `DestroyedJoined`, `StartedServes`, `StartReturnsAtLast`, `StopReturnsAtLast`; `UsageIsShare`, `ListenerStops`; `LinesBacked`, `BlockIsLogged`; `OneNode`, `WindowsCurrent`; `NoTurnLost`; `WindowSumExact` |

The properties in words:

* **LegalTransitions** – a breaker moves only Closed → Open → HalfOpen →
  {Open, Closed}, although completions load the state up to three times and act on
  what they read.
* **TimestampCoversTimeout**, **FreshProbeIsDue** – once every opener has stored its timestamp, an open breaker protects for
  the whole `retry_timeout` since its last opening, or, when openers overlapped, since the earliest opening that was
  still to be stamped at the last one; and a probe that saw such a breaker is not early by that measure. No more is claimed, because the
  code lets a probe through early in three ways: `Open` is published before the timestamp; an opener that was preempted between
  computing its timestamp and storing it writes an old one over that of a later opening; and the clock is
  compared before the exchange. The first is a proviso of both properties, the second is what `owedSince` stands for, the third is in `fresh`.
* **ProbeOutstanding**, **HalfOpenResolvedOrLost** – a half-open breaker blocks
  everybody, so its probe must be on its way and must arrive. `lost` records the
  two ways in which it does not: the call was blocked by a later breaker of the
  vector, or a reload took the breaker away. In the first of them the breaker stays
  half open until some other call that was under way completes, or for ever.
* **ReloadReuses** – a reload makes no new breaker for a rule that has one.
* **NoExpiredCount** – `GetSum` counts nothing older than the interval, except from a
  bucket that is between the halves of `ResetWindowTo`.
* **WindowSumExact** – used by one thread, the sum has all events of the windows that start
  less than an interval ago and none of those that start earlier; the window exactly one
  interval old may still count (`IsBucketDeprecated` uses `>`). With several
  threads counts do get lost (a detached bucket, a second reset), so exactness is not claimed there.
* **OperationEnds** – the spinning `try_lock` loop of `CurrentWindow` ends.
* **ThreadNumSound** – thread numbers never fall below zero (they are unsigned) and are zero when no
  call is left, on all nodes.
* **AdmissionBounded** – a rule for all callers is overrun by fewer calls than there are threads;
  only calls under way at the last load may add to that.
* **EntryEvictable** – an entry of the map has its node in the list, or some thread is about to
  put it there or to erase the entry; otherwise the entry would stay for good and the cache would grow past its bound. Holds
  across `clear()` too: an entry of the new map gets its node after the list was emptied.
* **ListAgrees**, **SizeBounded**, **NotUnderfilled** – until `clear()` is used: every node of the
  list is that of the entry of its key; the list outgrows `m_maxSize` by the racing insertions only; and
  when no operation is under way it has the `m_size` elements it is credited with, which is what
  the compare-and-exchange in `insert` is for. `clear()` while others use the cache breaks them: nodes of the old map get
  into the list, and `m_size` becomes 0 after elements were added.
* **ThreadCountSound** – the thread count of a parameter value is never above the number of calls under way with
  it, however entries are evicted and whenever the cache comes into being; it is that number while the cache has lost no count.
* **PassCountSound** – calls that race to set an array up do not count a pass twice, and no pass is lost once the array is in the
  index, unless the cache has evicted.
* **AdmissionBounded** (`ParamFlow`) – the limit of a value is overrun by fewer calls than there are threads, by the passes made
  between the two insertions of the array, and where the cache has forgotten the value.
* **RulesWhole** – the rules in force, and those any call is being held against, are the strictest valid rules of *one* list.
* **LoadedInForce** – while loaders have never overlapped, the list last accepted is in force when no loader is at
  work, through every change of property. When they overlap the code does not keep this: compare, store and notify are not
  atomic, and `LoadRules` reads `cur_property_` without the lock.
* **NeverShutOut** – rules on load and CPU usage alone never end the admission of calls, however overloaded the machine stays.
* **IndexSound**, **SearchSound**, **SearchComplete** – index entries lead where a search expects; an answer has only lines in range, in order,
  none twice; and has all the lines there were when the search began, unless a file was removed under it, the search used its cached position, or
  the lines come after no entry of the index files when the search begins. The last proviso is needed because the entry of the first second of a day
  goes to the file of the day before: once that file is removed, the lines of that second, which may fill several files, have no entry before them.
* **ImplementsSecondLog** – every step of the pipeline is a step of `SecondLog` or leaves it alone, also across crashes and restarts.
* **DropsExplained** – the writer refuses a line only if a round of the process has run past the end of a second while collecting.
* **EventuallyLogged** – what a node has counted is handed to the writer while the process lives and the task is not stopped.
* **FreedAlone**, **DestroyedJoined** – nothing is freed while the loop thread may be in the event loop; the thread is joined before its
  object is destroyed, unless `InitEventBase` had failed, after which nobody joins it.
* **StartedServes**, **StartReturnsAtLast**, **StopReturnsAtLast** – a server reported as started is bound until stopped; `Start` and
  `Stop` return, whatever the loop thread is doing: no wakeup gets lost.
* **UsageIsShare** – the CPU usage is between 0 and 1, or 0/0 when no time has passed between the samples, although they change places before
  a read that may fail.
* **ListenerStops** – `StopListner` returns, if the thread was ever started and has not crashed. It may return before the last round: see section 4.
* **LinesBacked**, **BlockIsLogged** – a line stands for a block that no earlier line has told of; a block is told of while the task runs.
* **OneNode**, **WindowsCurrent** – all calls on a resource count in the node of the map; with no change of the configuration under way all nodes of the map
  have windows of the configuration in force, also when changes overlapped.
* **NoTurnLost** – when no call is in the throttling checker, the next free turn lies at most the timeout ahead: no blocked call leaves its turn behind.
* **NoStall** – no two threads wait for one another. Violated, see section 4.

Bounds. They are constants named `Max…`, used in the guards of the clock,
loads, calls, switches, expiries, starts, searches and so on. Each is large enough for the case in point: three calls
of which one opens the breaker, one probes and one completes late;
two loads so that a breaker or a rule is kept, dropped and brought back; a clock that
passes a retry timeout and an interval twice; one tag more than the tag map takes; one insertion more than fills an overfull cache;
a day that ends, a file that fills and one that is removed, in a process that is started twice; a caller that finds two others inside. That
they suffice shows in the mutants, and in that every action and every disjunct of the
next-state relations fires. The calls, the threads of the breaker and cache runs and the keys are symmetric; the runs
with a liveness property use no symmetry. Deadlock is not checked where the threads stop when the bounds are used up; `SystemGuard` never stops.

Fairness. `WF` for every thread's step inside the slots, and for the end of a guarded
call, which is the caller's obligation in the API. The code's threads are ordinary threads of the
service and no loop waits for a particular order. Nothing is
assumed of new calls, reloads, starts, stops or crashes, with one exception: in `SystemGuard` calls keep arriving and windows
expire, since the property is that arriving calls get in. `OperationEnds` needs no more
than that since the holder of `mtx_` always gets on; it is checked with finitely
many operations, so that starvation by an endless stream of others is excluded. `MetricLog` has a fair clock and a fair task thread, which sleeps by
the clock. In `CommandServer` both threads are fair and the wakeup socket strongly so: epoll reports every
ready descriptor in a round, so a record in the socket is not passed over for ever in favour of requests. The listener, its spinning
stopper, the block log writer and a reporting call are weakly fair.

## 4. Findings

`param/statistic/lru_cache.h:347` (run `LruCacheStall`): "The acquisition of the list mutex during find() is non-blocking
(try_lock), so under heavy lookup load, the container will not stall" (lines 46-48). The code takes
the mutex with a blocking `unique_lock` while it has the entry's accessor, and `snapshotPairs` waits for
entries while it has the mutex: the two can wait for one another for ever. `NoStall` is violated without
snapshots as well (three threads, four keys, size 1, five insertions): `insert` keeps the accessor of its
entry during its second `evict`, and two of them can each be out to erase the other's entry.

Seen while modelling, part of the models, and claimed by no property:

* `circuitbreaker/rule_manager.cc:122`: `IsValidRule` accepts `kErrorCount` rules, `NewCircuitBreaker` has no case for them and drops the rule.
* `statistic/base/leap_array.h:98`: the branch commented "Should not go through here" is reached by a thread that was overtaken after it had
  read the clock; its count is lost. A second thread may also reset a bucket again, or move it back (line 95).
* `statistic/node/cluster_node.cc:24`: the tag map is not searched again under the write lock; two first calls of a tag count in different nodes.
* `circuitbreaker/circuit_breaker.cc:18`: A opens a breaker, reads the clock and is preempted; B takes it half open, on the timestamp of an earlier
  opening, fails, opens it again and stamps it; A stores its older time over B's. The next probe passes early, though every opener has stamped the breaker.
  With the bounds of `CircuitBreakerReload` TLC reaches this: `TimestampCoversTimeout` and `FreshProbeIsDue` would be violated if they
  spoke of the last opening alone.
* `circuitbreaker/circuit_breaker.cc:47`: the breaker is closed before its counters are reset, so completions in between may trip it on old counts.
* `statistic/base/stat_config_manager.cc:13`: overlapping changes can leave an interval that the sample count does not divide. The entry node is
  never reset.
* `flow/throttling_traffic_shaping_checker.cc:22`: calls that overlap may pass in the same slot, as test and store are separate.
* `log/metric/metric_writer.cc:222`: files are removed before the new one is opened, so one more than `total_file_count_` may be there;
  line 83: the index entry of a day's first second is in the file of the day before.
* `log/metric/metric_reader.cc:85`: a search by end time ends at the first file it cannot open, one by number of lines passes over it.
* `log/metric/metric_searcher.cc:29`: the cached position is validated through an uninitialised variable; `last_pos_.second` is never set.
* `log/metric/metric_log_task.cc:71`, `log/block/block_log_task.cc:31`: a second stop joins a joined thread.
* `param/statistic/param_metric.cc:21`: an evicted thread count comes back at -1 when its calls end.
* `transport/common/event_loop_thread.cc:37`: after a failed `InitEventBase` the thread is never joined. `transport/command/http_command_center.cc:15`:
  a failed or stopped server stays in place, so that `Start` never succeeds again.
* `transport/command/http_command_utils.cc:92`: the body of a POST is copied to the data of an empty vector; and its parse replaces the
  target, so that no POST reaches a command.
* `system/system_status_listener.cc:104`: the header says that `StopListner` is to "wait until loop in RunCpuListener stop"
  (`system/system_status_listener.h:86`); the code does not keep that. `StopListner` waits for `stopped_`, which the thread raises before every sleep (line 108) and clears only
  after its next test of `stopped_cmd_` (line 105). A thread that has made this test before the command was given, and has not cleared `stopped_`
  yet, lets `StopListner` return and then runs a whole round, on files that the destructor closes. TLC reaches this with the bounds of `Components`: `stopper = "returned" =>
  listener \notin {"cpu", "load", "end"}` is violated in eleven steps. That a thread which *sleeps* passes for a stopped one is
  intended (lines 102-103); it tests the command when it wakes up. `StopListner` is called by the destructor alone, and the instance of `GetInstance` is never destroyed.
* `system/system_status_listener.cc:68`: a failed read drops the samples, which the same round goes on to use.

## 5. Proofs

The theorems are about a module's `Spec` and hold for every value of the constants that satisfies the
assumptions the module (or, for the components instantiated there, `MCComponents` and `MCLeapArray`) names:

* numbers are what the code has: a window at least as long as its number of buckets, sizes, timeouts and bounds that are natural
  numbers, thresholds and uninitialised memory that are integers;
* sets are finite where the argument counts (calls, threads, keys, callers of the throttling checker); which shard a value is in, and which
  lists are loaded, is arbitrary;
* values that stand for "none" are told from the rest: a free lock is no thread, an absent node no number, an absent cache no cache.

Only the theorems on the exact sum have hypotheses of their own. `SumsAreExact` is about a window that one thread at a time uses, `SumsOfOneThread` about one that
has a single thread, and its buckets share the interval evenly: `StatConfigManager` refuses any other configuration (`statistic/base/stat_config_manager.cc:13`, `:28`), and without it, say with an interval of 5 and 2 buckets,
a slot recurs before the interval is over. The theorems about `CommandServer`, `StatusListener` and `BlockLog` need no assumption.

| Theorem | Argument |
|---|---|
| `CircuitBreakerProofs!TypeCorrect` | a reload only ever adds breakers to `Made`, so vectors that threads hold stay vectors of existing breakers; a position moves on only below the length |
| `…!TransitionsAreLegal` | from the types; every write of `state` is an exchange from a state that was compared |
| `…!TimestampCovers`, `…!FreshProbesAreDue` | `TimeInv`: breakers not yet made are closed (`UnmadeUntouched`); what an opener of an open breaker has computed and not stored covers its own opening, hence `owedSince` (`StampsCover`), so that it does not matter whose store is the last one; a fresh thread between its two reads holds a time that has passed, or a timestamp that covers (`ReadsCover`) |
| `…!ProbeIsOutstanding` | inductive together with the types; of all steps only the prober's own could end its being under way, and each of those settles the breaker, or marks it lost |
| `…!ReloadsReuse`, `…!NewBreakersAreNew` | from the types: a breaker of the new vector that was not made before is made where no current breaker has the rule; its name, the call of `LoadRules` with the place, is later than those of all made so far |
| `EntryChainProofs!TypeCorrect` | with `UseOK`: a step that needs a tag node or a rule has one |
| `…!ThreadNumsAreSound` | `BalanceInv`: each thread number is the cardinality of the set of calls between their increase and their decrease, which one step changes by one call at most |
| `…!AdmissionIsBounded` | `AdmissionInv`: count *plus* the calls admitted and not counted yet, stale ones included, stay below the limit; when a call is admitted, at most `NumThreads` calls are in Entry, itself among them, and the count was below the rule's |
| `LruCacheProofs!CacheEntryEvictable` | `EntryEvictable` is inductive together with `NodeInv`: a node stands for one operation of one thread and one key, so whoever else touches the entry of a key touches that node |
| `…!CacheListAgrees` | `AgreeInv`: the list's nodes, the nodes being inserted (`Inserted`) and the nodes being evicted (`Evicted`) are apart, and each of them is in the map under its key |
| `…!CacheSizeBounded` | `GrowthInv`, `LimitInv`: the list plus the threads bound to list a node without another eviction (`Committed`) stays below the limit; below it `m_size` misses no more than the nodes not counted yet |
| `…!CacheNotUnderfilled` | `UnderfilledInv`: the list plus the nodes promised by threads that have evicted is at least `m_size` plus what threads owe it; when nobody is at work both extra sets are empty |
| `ParamFlowProofs!ThreadCountsFollowCalls` | `ThreadInv`: the count in the cache against the cardinality of `InFlight`, value by value; an increase moves both, an eviction takes the index out of `exact` or loses a zero |
| `…!PassCountsFollowPasses` | `IndexInv`: of the calls that race to set up an array one puts it into `rolling_params_`, and that one alone enters it in `index_map_`; `PassInv` then counts each pass once |
| `…!ParamLimitHolds` | `QpsInv`, `ThreadLimitInv`: counted *plus* let through and not counted yet (`ToPass`, `ToCount`) stay below the limit; `TodoInv` says which rules of the last load a call has behind it, `EntryInv` that no more calls are inside `Entry` than there are threads |
| `SystemGuardProofs!RulesStayWhole` | by rounds of the loop: after `n` rules the map built is the strictest of the first `n` (`StrictestTo`); a call takes and keeps a whole map |
| `…!LoadedRulesInForce` | `OneAtATime`: without overlap a list on its way to a property is on its way to the one that is listened to; `InForce`, which also holds while a loader is at work |
| `MetricLogProofs!LogTypeCorrect` | `TaskInv`, the types with the places of the loop: the map is empty unless the task is collecting or writing, and holds only seconds that are over |
| `…!IndexIsSound` | `LogInv`: no line ever written and no index entry is younger than `Edge` (the writer's last second; the second under way between index entry and lines; the present while no process is there), and the files are `Good` up to it: sound indexes, names, lines and entries in order. Each operation on the files is shown to keep them `Good` (`GoodClose`, `GoodIndex`, `GoodAppend`) |
| `…!DropsAreExplained` | `RoundsInv`: without an overrun nothing left to fetch is older than what is in the map, nor the map's seconds older than the writer's last |
| `…!RefinesSecondLog` | what a step makes of the files is shown to cut the log they make up at its start and to add lines at its end (`RollKeepsLog`, `RollAddsToLog`); that the lines added are new is `FetchInv`: what is in the map is neither written nor to be fetched again, also across a crash, as the nodes then start empty in a second that is not over |
| `…!SearchIsSound` | `SearchInv`: the lines found are `Answers`, written lines of the range and resource, by seconds and each once, and what is still to be read is `Ahead` of them: whatever has a name not before the next one holds lines after all found, and none older than the begin. `FilesKept` says what any step of the writer leaves of that: a line in a file was at its place in a file of that name before, or is new and no older than `Edge`, up to which everything found reaches |
| `…!SearchIsComplete` | `CoverInv`: every line that comes after any index entry comes after one of its own second (`Headed`, `Covered`), whatever files were removed or begun in between; `HuntInv`: while the oldest file that was listed is in place (`Intact`), all listed files are, and every line that can be asked for comes after an entry of its second that the search has not passed (`Sought`), then is found or still to be read (`Unread`), and in the end is found or beyond the limit (`AllFound`). `FilesAdvance` says that any step of the writer lets the files grow at their end or lose their oldest |
| `ComponentsProofs!ComponentsSideBySide` | a step of the whole is a step of one component and a stutter of the others |
| `…!WindowTypeCorrect` | the slot of a time is in the ring, `Values` stops at its end |
| `…!SumsAreRecent` | `RecentInv`: outside of `ResetWindowTo` a bucket only has counts added after its start (`YoungInv`), starts are not in the future (`ClockInv`), hence a bucket young enough when collected stays good (`CollectedInv`) |
| `…!SumsAreExact`, `…!SumsOfOneThread` | while one thread at a time uses the window (`OneAtATime`), and for buckets that share the interval evenly (`EvenBuckets`). `ExactInv`: a bucket stands for a window of its slot (`SlotInv`) and has what that window has seen (`CountInv`); what was ever seen is in the bucket of its slot or was recycled for a later window (`LoggedInv`); the thread's clock value is the latest (`LatestInv`), so that it is never behind a bucket (`PlaceInv`); the sum so far is that of the buckets taken from the list (`SumInv`). Windows that share a slot are an interval apart (`SlotRecurs`), hence what is gone had expired |
| `…!OneNodeForAll` | `NodeInv`: what a call has is in the map and not the absent node, so no other call replaces it |
| `…!WindowsAreCurrent` | `ShapeInv`: a node's window is current, or some updater waits for the lock, or holds it with the node still to visit; with `LockInv` (only the holder resets) a visit gives the node the configuration of that moment, and a later change brings an updater of its own |
| `…!FreedOnlyAlone`, `…!DestroyedIsJoined`, `…!StartedDoesServe` | one invariant, `ServerIInv`, the disjunction of the phases of a server's life (`NotMade`, `Starting`, `Handing`, `Serving`, `Stopping`, `Stopped`), each with what the flags, promises and the task queue hold in it; every step stays in its phase or leads to the next |
| `…!LinesAreBacked` | `RecordInv`: with the lines written, a record *that is there*, due or not, still stands for a report; the writer takes every record it writes a line for |
| `…!NoTurnIsLost` | `TurnsReturn`: for every later time `x`, `last_passed_time_` less the turns of the calls that will give theirs back if it is `x` by then, `Leaving(x)`, is at most `x` plus the timeout; or nobody has touched the memory's first content (`Untouched`) |
| `…!UsageIsAShare` | `SamplesInv`: each sample is of times that `/proc/stat` has shown, and of the two one is no later than the other, so that both differences have one sign (`QuotientIsShare`) |

Few of the properties are inductive as they stand. `AdmissionBounded`, in `EntryChain` as in `ParamFlow`, says nothing of
admitted calls that have still to count; `ThreadNumSound` nothing of how much a call in the middle has to give back; `NotUnderfilled`
and `NoTurnLost` speak of the moments when nobody is at work only; `LinesBacked` of due records only. The conjuncts
above are what had to be added; where the state space allowed it they were model-checked first. The proof of `SearchComplete` did not go
through for the proviso it had at first, "the lines precede the first index entry of the oldest *file*": with one line to a file (`SingleFileSize = 1`), two
files and days of one second, a second of a new day fills more than one file, none of the later ones with an entry before it, as TLC then confirmed.
The property now speaks of the entries there are when the search begins, and the module assumes what that proof needs, that a search may return a line at all (`KMaxLines`).

`DataFacts` has the lemmas that these proofs share: how one step of one call changes the cardinality of a set of calls (`CountOneStep`),
what is left of a sequence from which one element is cut (`CutProperties`), that a set of numbers has a least element, and
that a loop has a result after every round (`Recursion`). The last one is proved from the least element: the
prover cannot instantiate the library's induction theorems.

Only model-checked are the liveness properties (`HalfOpenResolvedOrLost`, `OperationEnds`, `NeverShutOut`, `EventuallyLogged`,
`StartReturnsAtLast`, `StopReturnsAtLast`, `ListenerStops`, `BlockIsLogged`), since liveness under fairness and `ENABLED` are beyond the prover.
Every invariant and every action property that a passing run checks is proved.

Recursive operators are not used: a module that has one loses the SMT back end. The type invariants of most modules
are proved and not checked by a run of their own.

## 6. Not modelled

* **In modelled components**: associated resources and the throttling behaviour of flow rules; minimum
  and maximum over the window; block, exception and response-time counts; calls that share
  one `EntryContext` (the tag node of the later one is then decreased, `slot/statistic_slot.cc:119`); acquiring more than one token; the counts in the LRU cache, the lifetime of a map that `clear()`
  has replaced, `silentFind` and `snapshotKeys`; overflow of `retry_timeout_sec * 1000`; concurrent
  `LoadRules` for flow, breaker and parameter rules (one step there; `SystemGuard` shows what the shared property class lets happen).
* **Lifetimes and torn reads**: a window freed by `StatisticNode::Reset` under a reader, `parsed_hot_items_` filled under a reader; such undefined behaviour has no
  bounded set of outcomes.
* **Metric log**: process names with a pid, several processes in one directory, dots in the directory's path (the file comparator takes the third dot-separated field
  of the whole path), `Close()`, which nothing calls.
* **Command server**: bodies of POSTs, the choice of a port, handlers that only format.
* **Left out for good**: the other command handlers, configuration, logger and utilities (formatting,
  file access and set-up, with no protocol to check); data sources, which do no more than call `UpdateValue`; vendored and generated code, examples.

## 7. Plan

* Associated resources and shared contexts in `EntryChain`; minimum and maximum over the window in `LeapArray`.
* An abstract breaker that `CircuitBreaker` implements was considered and left: since any call that ends may settle a half-open breaker, it would
  promise no more than `LegalTransitions`, `FreshProbeIsDue` and `ProbeOutstanding` do.
