# go-opcua-connector in TLA+

Models, model checks and proofs of the program in `src/`: a connector that
subscribes to nodes of an OPC UA server, keeps their last values in a memory
pool, publishes them on NATS, and writes values back that arrive as commands on
NATS.

1. [The system](#1-the-system) · 2. [The modules](#2-the-modules) ·
3. [What is abstracted](#3-what-is-abstracted) · 4. [The runs](#4-the-runs) ·
5. [Fairness](#5-fairness) · 6. [What is proved](#6-what-is-proved) ·
7. [Where code and documentation disagree](#7-where-code-and-documentation-disagree) ·
8. [What is not modelled, and the plan](#8-what-is-not-modelled-and-the-plan)

Checking: `tlc -config MCStop.cfg MCCollector`, and likewise for the other
`.cfg` files (`MCWriteback.cfg` and `MCOverflow.cfg` belong to `MCWriteback`,
`MCApp.cfg` to `MCApp`); `tlapm CollectorProofs.tla`, and likewise for the other
seven modules whose names end in `Proofs`.

## 1. The system

| component | state | operations | talks to |
|---|---|---|---|
| Collector (`internal/collector/collector.go`) | channels `subCh` and `pubCh`, pool `nodeStates` under a mutex, atomic counters, a context and a wait group | handler of notifications; `subWorker` (several); `healthCheckWorker`; `publishWorker` (immediate or timed); `monitorStats`; `Stop` | notifications and `ReadAll` of the OPC UA client; `PublishBatch` of the NATS client |
| OPC UA client (`internal/opcua/client.go`) | session `c.client` under a mutex | `Connect`, `Reconnect`, `Close`, `ReadAll`, `Write`, `ReadNodeDataTypes`, `ConvertWriteValue` | server |
| — node resolution (`ResolveNodes`, `browseAllLeaves`, `browseVariableLeaves`) | lists built on the way | configured folders become lists of variables | server |
| — subscriptions (`Subscribe`, `handleNotifications`) | per subscription a channel and a forwarding goroutine; `mergedCh`; the list of ids that handles point into | cut of the list, creation of items, forwarding, turning handles back into ids | server; handler of the collector |
| Writeback handler (`internal/writeback/handler.go`) | subscription, cache of data types | `handleMessage`, `Stop` | both clients |
| NATS client (`internal/nats/client.go`) | connection, `connected` flag set by `Connect`, `Close` and three callbacks | `Connect`, `Publish*`, `Subscribe`, `Close` | NATS |
| main (`cmd/main.go`) | deferred calls | start and stop of the above | all |
| configuration (`internal/config`) | numbers, with defaults from viper, `Validate` and `setDefaults` | `Load`, `Validate` | main, collector |
| `model`, `pkg/pool` | — | data types; object pools over `sync.Pool` that nothing imports | |

What is hard about them, and what makes them correct:

* **Collector.** Seven kinds of goroutine share a pool, two bounded channels and
  five counters. Notifications are dropped when `subCh` is full, points when
  `pubCh` is full, messages when NATS is down. The lock of the pool is released
  before a point is sent, so the order in the pool and the order of the messages
  differ. The health check reads from the server, applies the results later, and
  uses *blocking* sends. `Stop` closes channels that a goroutine outside its wait
  group may still send on. Correct means: no value is attributed to the wrong
  node and no quality is invented; the Stale mark is true; every loss is counted
  and repaired by a later heartbeat or snapshot; `Stop` returns and closes
  nothing that is in use.
* **Writeback.** A command goes through conversion by one type, fallback to
  another, a write that may time out while its request is still under way, a
  retry with another value, and a result that may be impossible to marshal.
  Correct means: one truthful answer per command, one effect per command, in the
  order of the commands, and the value that is written is what the text means.
* **Node resolution.** A recursive search through an address space the program
  does not control: nodes that cannot be browsed or only half, hidden nodes,
  folders reached twice, cycles, ids that do not parse. Correct means: nothing is
  lost but what hangs on a failed call, nothing is added, and it ends.
* **Subscriptions.** Values are created under an index of the whole list, sent
  through one of several channels, merged, and looked up again; nobody reads the
  merged channel until the last subscription exists. Correct means: every node of
  the list is monitored and reported under its own id, in order, and the startup
  does not wait for itself.
* **NATS client.** `Connect`, `Close` and the callbacks of the library, which run
  in a goroutine of their own, all write the flag that publishers read. Correct
  means: in the end the flag says what the connection is like.
* **Startup.** Each call may fail; NATS is optional and may be lost at any moment,
  also between two calls. Correct means: the program runs or gives up, and what
  it then uses is configured.
* **Shutdown.** The deferred calls close the clients while a command is being
  handled. Correct means: they end, and no outcome becomes untrue.
* **Configuration.** Three places give defaults to different keys at different
  times; the channels are made between the second and the third.

`hazards` in `PROJECT.json` lists these points line by line, with the properties
that would notice, or the reason why none does.

## 2. The modules

| module | what it is |
|---|---|
| `Feed` | abstract: what NATS subscribers are promised |
| `Collector` | the collector, with the parts of both clients it calls |
| `MCCollector` | instances of `Collector` |
| `Conversion` | pure: `ConvertWriteValue` and its helpers; what a text *means* |
| `WriteService` | abstract: what senders of write commands are promised |
| `Writeback` | the writeback handler with the calls it makes, and the deferred calls of main |
| `MCWriteback` | instances of `Writeback` |
| `Config` | pure: where the numbers of the configuration get their defaults, and what durations they become |
| `NatsClient` | the NATS connection, its callbacks and the flag |
| `Resolution` | `ResolveNodes` |
| `Subscription` | `Subscribe`, the forwarders and `handleNotifications` |
| `App` | composition of the last four: `main` and `Collector.Start` up to the running program |
| `MCApp` | servers and configurations for `App` |
| `CollectorProofs`, `AccountingProofs` | theorems about `Collector` |
| `ConversionProofs` | theorems about `Conversion` |
| `WritebackProofs`, `WriteServiceProofs` | theorems about `Writeback` |
| `SubscriptionProofs` | theorems about `Subscription` |
| `AppProofs`, `ResolutionProofs` | theorems about `App` and its parts |

`App` uses `NatsClient`, `Resolution` and `Subscription` as instances that share
its variables: each action of `App` is one of main, which calls an action of a
part, or one of a part that goes on by itself. The program that `App` brings up
is the one in whose initial state `Collector` and `Writeback` begin.

### Collector

The state is that of the `Collector` struct, the local variables the goroutines
carry from one step to the next (`batch`, `nodeIDs`, `allPoints`, `pushPoint`,
`toPublish`, `pubBatch`), and the environment (clock, the sample each node has at
the server, notifications under way, the NATS connection, and what a subscriber
last heard about each node). `pc` holds the place of every goroutine of the wait
group; a step is the code between two operations another goroutine can see: a
channel operation, a section under `nodeStatesMu`, a call to the server or to
NATS.

| code | actions |
|---|---|
| `Start`, handler of notifications (128-139) | `HandlerSend`, `HandlerDrop`, `HandlerPanic` |
| `subWorker`, `handleDataPoint` (231-302) | `SubWorkerReceive`, `HandleDataPoint` (to the unlock), `SendPoint` |
| `performHealthCheck` (330-374) | `HealthTick`, `HealthReadOK`, `HealthReadFail` per batch |
| `handleHeartbeatResult` (377-416) | `HandleHeartbeatResult` (to the unlock), `HealthPush` |
| `checkStaleNodes` (419-457) | `CheckStaleNodes` (to the unlock), `HealthReport` |
| `publishWorkerImmediate`, `publishWorkerTimed`, `pushDirtyNodes` (479-540) | `PublishReceive`, `PublishTick` |
| `processBatch` with `nats.PublishBatch` (543-571) | `ProcessBatch` |
| every `ctx.Done` branch with its deferred `wg.Done` | `Exit` |
| `Stop` (628-638) | `Cancel`, `CloseSubCh`, `ClosePubCh` |

`Init` is the state in which `Start` has returned and the server is about to
report the first sample of every node. `Feed` sees two things of this: the
samples at the server and the last message about each node.

### Writeback and Conversion

nats.go hands the messages of a subscription to `handleMessage` one after the
other, so the handler is one process: `HandleMessage` (parsing, missing
`node_id`, cache) → `LookupOK` / `LookupFails` (`ReadNodeDataTypes`, whose
failure for one node *is* the type `String`, cached for good) → `SendWrite` /
`WriteFails` → the server's answer or `WriteTimesOut` → a retry or a result →
`PublishResult`. `WriteValues` is the conversion strategy of lines 141-203 and
`NeedsRetry` the guard of line 226. Requests live on after a timeout: the server
may take them at any later time, once (`ServerTakes`), refuse them
(`ServerRefuses`), or neither. `Write` makes an error of every status but
`StatusOK` (client.go 590), so the server may also take a value while the handler
is told of an error (`ServerTakesNotOK`: `Good_Clamped`, or
`Good_CompletesAsynchronously`, whose value comes later or never).
`taken`, `holds` and `unsure` are history variables for the properties.

At the end main runs its deferred calls, the last one first: `Stop` (the handler
unsubscribes, what is queued is gone), `NatsClose` once the collector has stopped,
`OpcuaClose`, which takes the write lock and so waits while a `Write` holds the
read lock (`pc = "await"`), and `ProcessExit`. None of them waits for the command
at hand, so any step of the handler may come before, between or after them.

`Conversion` says what each type makes of a text. `strconv` is given by
constants (`ParseBool`, `ParseFloat`, `Integral`). A conversion yields a *set*
of values: empty for an error, several where Go leaves the result to the
implementation (`int64(NaN)`). Narrowing is modulo 2^w. `Renders`, the reference
the code is checked against, is defined from the meaning of the text alone.

### App, Config, NatsClient, Resolution and Subscription

| code | actions |
|---|---|
| `loadConfig`, `Validate` (main.go 37-41, config.go 102-138) | `LoadConfig` |
| `opcua.Connect` (main.go 52-55) | `ConnectOpcua`, `ConnectOpcuaFails` |
| `nats.Connect` (main.go 57-63) | `ConnectNats`: `Dial`, `DialFails`, `ConnectReturns` |
| callbacks of nats.go (nats/client.go 53-65) | `Nats`: `Disconnect`, `Reconnect`, `GiveUp`, and `Callback` for each report |
| `collector.New`, `setDefaults` (collector.go 84-95, 162-191) | `StartCollector` |
| `ResolveNodes` (client.go 324-366) | `SkipEntry`, `Browse`, `BrowseVariablesOnly`, `BrowseFails` |
| `Subscribe` (client.go 96-177) | `SubscribeNodes`, `CreateSubscription`, `Monitor`, `SubscribeFails`, `SubscribeReturns` |
| forwarding goroutines (143-147) | `Forward(s)` |
| `handleNotifications` (183-252) | `HandleNotification` |
| the server | `Change`, `Publish`, `PublishOther` |
| `writeback.Start` (main.go 73-79), `Subscribe` (nats/client.go 149-163) | `StartWriteback` |
| `NewTicker` in the goroutines of the collector (collector.go 308, 500, 575) | `TickerPanics` |
| the deferred calls, for the clients | `Shutdown` |

In `Resolution` the pending recursive calls are a stack of folders; a step is what
one call does about its own folder. `Below` and `Meant`, the reference it is
checked against, say what an entry means by a least fixed point, without order,
stack or visits. In `Subscription` an item is its handle with a sample; a
notification is a set of items; `told` is the last sample the collector was given
under each id.

## 3. What is abstracted

* A sample is a record of its node, its number and its quality; values matter
  only as "that sample". Texts, nodes and commands are members of small sets.
* `DataType`, `Topic`, `Dirty` (set, never read), latencies, `totalPoints`, the
  statistics snapshot and all logging are left out: nothing decides by them.
* Tickers may fire whenever their goroutine is in its `select`; their periods are
  not modelled. Time is a counter that `Tick` advances up to `MaxTime`.
  The server's timestamps are `ClockLag` behind the collector's clock.
* Counters are kept modulo `CounterSize`, so that they can wrap in the model
  without making it infinite; `CounterSize = 1` leaves them out.
* The first sample of every node is reported in one notification. Later changes
  may be merged into the last notification that is still under way (`MaxBatch`).
* `DataPoint.Quality` is any of `SampleQualities`; the program treats all but
  `Good` alike.
* A NATS subscriber remembers the last message about each node. A message that
  `Publish` accepted arrives.
* `CreateMonitoredItems` gives out handles in order; `Strays` are the ids of
  notifications whose handle is out of range (`unknown`, client.go:222-226).
* `!ok` after a receive and `!exists` in `handleHeartbeatResult` are dead code:
  the first by `ClosedOnlyWhenQuiet`, the second because nothing leaves the pool.
* Numbers are counted in halves, and floats are exact: rounding of large integers
  to `float64` is not modelled, apart from `float64(MaxInt64) = 2^63`. `-Inf`
  behaves as `Inf` does. Type names that behave alike are one name (`bool` is
  `boolean`, `int` stands for every integer name that `ConvertWriteValue` does not
  know), and are compared in one case: metadata types are always spelt as
  `typeIDToString` spells them.
* A command without `node_id` and one that is not JSON differ only in the text of
  the result.
* The server answers a write request with one status, as the protocol demands
  (`Client.Write` takes an empty list of results for a success). It takes values
  of the type family of the node and refuses others
  (handler.go:223-225, 286); it may refuse anything. There are three kinds of
  status: OK, taken; an error (bad), *not* taken, which is what the protocol says
  of it and the models rely on; and anything between, with which the value is
  taken now, later or never. A value that `Good_Clamped` has altered counts as the
  value of the command.

* **Address space.** It does not change while it is browsed. The two calls of
  `References` for one folder are one step; that only the second fails is an
  action of its own. Variables have no components. Below a variable that is
  configured by itself nothing is found, so it stands for itself.
* **Browsing** stops at `MaxBrowses`, which no tree of the runs reaches; a cycle
  does, and `Starts` excepts it (see section 7).
* **Notifications.** The channel of a subscription stands for the code's `subCh`,
  the forwarder's hand and what the library holds for it: `SubChannelSize`. A
  subscription whose channel is full keeps its values until there is room and then
  reports the newest; one that is full holds up no other. A value is sampled when
  it is published. The server refuses items only of nodes that have no value.
* **NATS in `App`.** A connection that is lost may come back, and if
  `max_reconnects` is finite may be given up; the attempts are not counted. `Close`
  makes nats.go report "disconnected" as well as "closed": both clear the flag, so
  one stands for both.
* **OPC UA session.** gopcua repairs a broken session by itself, unseen by this
  code. `App` has it only as far as `Connect` and `Close` reach.
* **Configuration.** The file and the environment variables are one function from
  keys to numbers. Texts are left out except `push_mode` and the two required ones.
* **Durations.** `time.Duration(n) * time.Second` wraps around as an int64 does;
  `Second` and `MaxDuration` stand for 10^9 and 2^63 - 1, and the instance scales
  them down. A `channel_buffer_size` beyond what memory can hold, for which `make`
  panics, is not modelled.
* **Shutdown in `App`** is one step and concerns the clients only; the order of the
  deferred calls is in `Writeback`, and what `col.Stop` does in `Collector`.

## 4. The runs

`pass` runs. "States" are distinct states.

| run | instance | shows |
|---|---|---|
| `snapshot` | 2 nodes, timed mode, batches of one node | `ImplementsFeed`: with several nodes, batched notifications and reads split in batches, nothing is attributed to another node. Its mutant shares one state between nodes, which one node alone cannot show. |
| `stop` (2.1 M states) | 1 node, 2 workers, immediate mode, good and bad samples, a value that is not valid JSON, one tick, `Stop` | `TypeOK`, `ClosedOnlyWhenQuiet`, `StaleOnlyIfSilent`, `ImplementsFeed`, and `PointsAccounted`: every point offered is on its way or counted once, through all drops and failures. Counters modulo 2 notice every single miscount. |
| `live` | 1 node, 2 workers, immediate mode, one NATS outage, channels of one | `Converges` and `StaleIsAnnounced`. The server's clock lags, so Stale reports and heartbeats both carry values; the two together repair what was dropped or overtaken. |
| `timed` | 1 node, 1 stray id, timed mode, `Stop` | `StopReturns` (unlike immediate mode), `Converges` by snapshots, `SilenceIsNoticed`. |
| `writeback` (0.61 M states) | 2 of 8 commands about 2 nodes, integers of 3 and 5 bits, one NATS outage, `Stop` and the other deferred calls | `ImplementsService`, `NewestWins`, `RequestsFaithful`, `ErrorMeansNotTaken`, `Answered`, `ShutdownEnds`, `TypeOK`: one truthful answer and one effect per command, in order, and an end of the process, also with a write in progress. The server takes, refuses, half-accepts, delays or loses each request |
| `app` (0.25 M states) | six configurations, two servers (a tree with a variable in two folders and hidden nodes; a cycle), pieces of two items, one NATS outage, every call may fail | `ConfigSafe`; `FlagSettles`; `ResolvedBetween` for the search; `Attributed`, `NoStepBack` and `EveryChangeHandled` for the subscriptions; `Starts`: main never hangs, whatever fails or is full; `TypeOK` |

`violation` runs; section 7 says what they found: `panic`, `hang`, `overwrite`,
`bad_heartbeat`, `timed_stale`, `overflow`.

**Bounds.** `MaxVersion = 1` gives two samples per node: enough for one to
overtake, replace or outlive the other. Channels of capacity 1 are full at once,
so all drops happen with few points. Two workers are what it takes to reorder;
a third adds no new kind of step. `StaleThreshold = 1` with `ClockLag = 2` makes
nodes expire without a tick, and with `ClockLag = 1`, `MaxTime = 1` expire by the
tick. Two commands are enough for one to be overtaken by the late request of the
other; each of the eight stands for a branch (own type, other family, alias,
value out of range, no number at all, NaN, no node ...). Integers of 3 bits overflow at 4.

The tree of `app` has three visible variables, one of them in two folders: there
are two subscriptions, the second shorter when a folder cannot be browsed, and a
node that is monitored twice. One change after the first values lets two
notifications about one node follow each other; `SubChannelSize = 2` and
`MergedSize = 1` fill up before the last subscription exists; `MaxOthers = 1` puts
a notification without data among the others. One outage may fall between any two
steps of the startup. The configurations are: nothing but defaults; finite
reconnects and immediate mode; zeros and negative numbers for keys that get their
defaults at different places; an interval that is too long, with a node
configured by itself; every number negative, with the cycle of folders;
and a file without an endpoint. With `Second = 10` and `MaxDuration = 8191` an
int64 has 14 bits: the defaults, up to 60 seconds, fit, and the 1000 seconds of the
fourth configuration wrap around to a negative period. `MaxBrowses = 6` is more than the tree needs.

What the bounds cut off is covered by the proofs as far as section 6 goes, for
the theorems hold for all values of the constants. For instance `stop` has no outage and
batches of one point, limits that the theorem `NothingLost` does not have; `snapshot` and `stop`
have no stray ids, and for those no property says more than what `timed` shows.

`CHECK_DEADLOCK FALSE`: the models stop when all bounds are used up, and after
`Stop`; that nothing waits for ever is stated as liveness.

Every property of a passing run has a mutant in `PROJECT.json`: a definition of
the code changed by a plausible bug, for which TLC finds the property violated.
The mutated forms are marked in the modules.

## 5. Fairness

* `WF` of every goroutine of the program: Go runs what can run. For the
  writeback handler this includes that its reads and writes return, which their
  five-second contexts see to.
* `SF` of `Exit(g)`: `select` picks at random among ready branches, so a
  `ctx.Done` that is ready at every visit is taken in the end.
* `SF` of a successful read of a batch that contains node *n*, for every *n*: the
  server answers a heartbeat now and then. It may fail any number of times.
* `WF` of main in `App`: each of its calls returns, with success or an error, for
  each has a deadline. `WF` of `Flow`: the server publishes when there is room, and
  the forwarders and `handleNotifications` run.
* `WF` of `Shutdown` in `Writeback`: the deferred calls run on, if `col.Stop`
  returns. Whether it does is the question of `timed` (yes) and `hang` (no).
* `WF` of `NatsUp`: the library reconnects. Only `Collector` assumes it; nothing is
  assumed of NATS in `App` and `Writeback`.
* None for the server changing, NATS failing, time, commands, requests being
  taken, or `Stop`.

`Converges` excepts a collector that was stopped, nodes whose quality is not
`Good` (a heartbeat then leaves the value alone, by design), and values that
JSON cannot carry.

## 6. What is proved

| theorem | statement | for every |
|---|---|---|
| `CollectorProofs!Invariance` | `Spec => []IInv` | set of nodes and workers, capacity, threshold, push mode, bound |
| `CollectorProofs!TypeCorrect` | `Spec => []TypeOK` | same |
| `CollectorProofs!QuietClose` | `Spec => []ClosedOnlyWhenQuiet` | same |
| `CollectorProofs!StaleSafe` | `Spec => []StaleOnlyIfSilent` | same |
| `CollectorProofs!CollectorImplementsFeed` | `Strays = {}` implies `Spec => ImplementsFeed` | same |
| `AccountingProofs!NothingLost` | `PushMode = "immediate"` implies `Spec => []PointsAccounted` | same, and width of the counters |
| `ConversionProofs!ConversionIsFaithful` | what `ConvertWriteValue` returns is what the text means, or of an integer type that cannot hold it | text, type, width |
| `WritebackProofs!NewestAlwaysWins` | `Spec => []NewestWins` | nodes, texts, commands and their number, widths, outages |
| `WritebackProofs!ErrorsAreErrors` | `Spec => []ErrorMeansNotTaken`: an error result means that nothing was taken, unless a write timed out or got a status that is neither OK nor an error | same |
| `WriteServiceProofs!OneValuePerCommand` | `Spec => []ServiceInv` | same |
| `WriteServiceProofs!RequestsAreFaithful` | `Spec => []RequestsFaithful` | same |
| `WriteServiceProofs!HandlerImplementsService` | `Spec => ImplementsService` | same |
| `WriteServiceProofs!TypeCorrect` | `Spec => []TypeOK` | same |
| `SubscriptionProofs!PiecesPartition` | each place of the list is in exactly one subscription | list, size of the pieces |
| `SubscriptionProofs!EveryValueAttributed` | `Spec => []Attributed` | list, size of pieces and channels, changes |
| `SubscriptionProofs!SubscriptionTypeCorrect` | `Spec => []TypeOK` | same |
| `SubscriptionProofs!ValuesStepForward` | `Spec => NoStepBack` | same |
| `AppProofs!TypeCorrect` | `Spec => []TypeOK` | configuration, server, sizes, bounds |
| `AppProofs!ValuesAttributed` | `Spec => []Attributed` | same |
| `AppProofs!NodesStepForward` | `Spec => NoStepBack` | same |
| `ResolutionProofs!SearchIsRight` | `Spec => []ResolvedBetween` | address space, entries, failing calls |
| `AppProofs!ConfigIsSafe` | `Spec => []ConfigSafe`: channels, workers and threshold are usable, and a ticker panics only for an interval that the file itself asks for and that is too long for a `time.Duration` | configuration, server, width of durations |
| `AppProofs!FlagIsRight` | `Spec => []FlagSettles` | number of outages |

The **assumptions** are the named `ASSUME`s of `Collector`, `Conversion`,
`Writeback`, `Config` and `App` (finite sets, disjoint ids and names, the ranges the
configuration has by its defaults); TLC evaluates them in the runs. `Subscription`
declares none, so that `App` can instantiate it: its theorems have them as the
hypothesis `Sizes`, which follows from App's assumptions (`SizesHold`).
Two of them state mathematics and not the configuration, because the provers
cannot look into the operator. `SpacesAssumption` says that `Visible` selects what
is not hidden, which is the definition of `SelectSeq` (recursive over data);
`PowersAssumption` says what `2 ^ n` is. Two describe externals: `StrconvAssumption`
what `ParseBool` and `ParseFloat` have in common (of the spellings of a truth value
only `1` and `0` are numbers), `WidthAssumption` that a `float32` can hold every
number of the integer types, as it can up to 2^64. `DurationAssumption` says that 60
seconds, the longest default, are a `time.Duration`.

**Induction.** The library's induction theorems take an operator and cannot be used
here. Where a proof needs induction over numbers, the set of counterexamples takes
the operator's place: it has a least element (`LeastElement`), and that is refuted.

**The argument for `Collector`.** Neither types nor truth are inductive alone. `IInv` adds to the
types:

* `FlowOK(Authentic)`: every point in a notification, channel, batch, read result,
  pending send or message, and every point a subscriber holds, is truthful *now*.
  A message is only as truthful as what it came through, so the claim has to be
  made of every place at once. Truth is monotone: samples of the server only get
  newer (`AuthenticGrows`).
* `PoolTruthful`: the same of the pool, from which heartbeats, Stale reports and
  snapshots are made.
* `Loaded`: a worker that is about to handle or send has a point; a heartbeat
  result is about a node in the pool; messages are finite.
* `Addressed`: what a subscriber filed under *n* is about *n*.
* `WaitGroupExact` and `Shutdown`: the wait group counts the goroutines that have
  not returned, and channels are closed only after it was zero. Without them
  `QuietClose` does not follow.

One lemma per goroutine shows that its steps preserve `IInv`; `NextIInv` collects
them. `ReadAllResults` is about the pairing by index: the results belong to the
nodes they are attributed to if all ids parse, which is why
`CollectorImplementsFeed` assumes `Strays = {}`. `StaleSafe` is inductive
relative to `IInv`: only `CheckStaleNodes` sets the mark, of expired nodes, and
whatever refreshes the timestamp of a good node removes it.

**The argument for the accounting.** `PointsAccounted` is one equation between a
history variable, three counters modulo `CounterSize`, and the sizes of two
channels, of a batch per worker and of three variables. Points are counted by their
*places*: the size of a set of pairs of indices, so that no sum over a queue has to
be defined. Queueing a batch adds as many places as it has points; taking the
head renames the places of the rest (`BatchTaken`, by a bijection); a worker that
replaces its batch changes its own row and no other (`BatchReplaced`). `Moved(k, j)`
says of a step that *k* points set out and *j* arrived; one lemma per goroutine
names the two numbers, and `Reckoned` turns them into the equation, whatever has
wrapped around. The strengthening is `AtRest`: what a goroutine is not working on is
empty. Without it a worker could take a batch over one that it still holds, or a
report could be overwritten, and points would vanish. The theorem assumes immediate
mode, as the run does: in timed mode points are values for a snapshot and end in
the pool.

**The argument for `Writeback`.** `NewestWins` compares the values at the nodes,
but what decides is what may still reach them. `IInv` says of every command
whether the handler has touched it (`OrderOK`: the current one and those before
it, and the queue holds later ones in order), of every request whether the handler
waits for it (`RequestsOK`: if not, the command is `unsure`; it waits for at most
one), and of the current command what its outcome will be (`OutcomeOK`: if the
server took its value and the command is not `unsure`, the handler is about to
publish a success). A command becomes `unsure` by a timeout, or by a status between
OK and an error. Then a value that arrives is that of the current command, the newest
there is, or that of an unsure one. The deferred calls of main change none of
this, which `EnvironmentStep` says once for all of them.

**The argument for `Conversion` and `WriteService`.** `ConversionIsFaithful` goes
through the types as `ConvertWriteValue` does; what it needs is that narrowing is
the identity on numbers in range (`PowersOfTwo`, `PowersGrow`), and that the
guesses for `"1"` and `"true"` agree whichever of the two parsers succeeds first.
`ServiceInv` then says that of every command there is *one* value its node has
taken or can still take. The retry is what endangers it: the first request may be
alive while the second is under way with a value of another type. Either the
families of the two types differ, and the server refuses one of them, or they
agree, and then the values do (`RetryAgrees`); so whichever request arrives, and
if both do, the node gets what the result will name.

**The argument for `Subscription`.** Handles are bound to nodes at one end of the
channels and looked up at the other, so `Attributed` becomes inductive when every
item in every channel is `Faithful`: its handle is the place of the node its value
is of. `PiecesPartition` is arithmetic: rounding up in client.go:114 leaves no
place out, and no place is in two pieces. `NoStepBack` says nothing of channels,
and its strengthening `OrderInv` only of them: in each channel and in the merged
one the items of a handle are in order, what is merged is no newer than what waits
in the channel of its piece, and what was told is no newer than what flows. A
forwarder may take from any channel, but the items of a handle are all in one, which
is `PiecesPartition` again. The property and the invariant speak of nodes that are
in the list once; one that is there twice has two handles whose channels may
overtake each other.

**The argument for `App`.** Its parts share few steps, so each has an invariant of
its own, and every step of `App` is shown to be a step of the part or to leave it
alone. `ConfigInv` says what is known to be
positive in which phase: what `Validate` settles until `New` has made the
channels, and what `setDefaults` settles from then on; and of every interval that it
is short or still the one of the file, so that one that wraps around was asked for
(`TickerPanicsStep`). `FlagInv` says that while
callbacks are under way the *last* of them tells what the connection is like; the
flag itself may be wrong until then. `StepOfNats` reduces every step of `App` to
one of the connection or none. `ResolutionInv` types the lists of the search; it
needs that a folder is pending whenever an entry is, for a search that has ended
moves on to the next entry in the same step. `SubscriptionStep` reduces the steps
of `App` to those of `Subscription`, whose lemmas are used through an instance
(`P`): the list that `ResolveNodes` returns, being of nodes that parse, is one that
`Subscribe` accepts.

**The argument for the search.** `ResolvedBetween` compares a depth-first search with
a least fixed point. The search keeps no record of where it has been, so `SearchInv`
supplies one: *some* set of visited nodes, of which every one that was browsed
completely has its variables among the leaves and its folders in the set or on the
stack. Each step extends the set by the folder it takes. When the stack is empty the
set is closed, so the least closed one lies in it: nothing is missing. That nothing
is added is the other half: stack and set stay within what is below the entry.
Cycles only mean that a folder is in the set already. `EntriesDone` sums up the
entries before the current one, with the fallback of those that had no leaves.

**Only model-checked**: all liveness (`Converges`, `StaleIsAnnounced`, `StopReturns`,
`SilenceIsNoticed`, `Answered`, `ShutdownEnds`, `EveryChangeHandled`, `Starts`), which
is outside the prover's reach. Every safety property of a passing run is also a
theorem.

## 7. Where code and documentation disagree

| run | what the code does |
|---|---|
| `panic` | `Stop` closes `subCh` while the notification goroutine, which is not in the wait group, may still send on it. |
| `hang` | In immediate mode `healthCheckWorker` can block for ever on a full `pubCh` after `publishWorker` has returned; then `Stop` never returns. Timed mode does not have this (`timed`). |
| `overwrite` | Two workers, or a heartbeat and a notification, can store an older sample over a newer one. |
| `bad_heartbeat` | A heartbeat of bad quality refreshes the timestamp, which the README says it does not. |
| `timed_stale` | In timed mode no message ever says `Stale`. |
| `overflow` | An integer out of the range of its type wraps around and is written, instead of being an error. |

Seen while reading, without a run: `BatchSize` is configured (src/README.md:196)
and never used; `Dirty` is set and never read, so timed mode sends the whole pool
every time (src/README.md:280-281); a command without `value_type` about a node of
unknown type is written as text and not inferred (`datapoint.go:54`); the comment
in `handleMessage` (handler.go:157) expects `"42"` not to convert to boolean,
which it does. `Validate` makes an absent stale threshold 10 seconds
(config.go:120), so that the 30 of `setDefaults` (collector.go:168), of the comment
at the field and of src/README.md never applies. A `request_timeout` that is zero
or negative is given no default, and every `Monitor` then fails (`app`, fifth
configuration). A `monitor_interval_sec` of 0 disables the statistics according to
src/config.yaml.example:172 (`设置为0可禁用监控输出`), but `setDefaults` makes it 60
(collector.go:185-187), which `WithDefaults` does too and `ConfigSafe` relies on: a
ticker with a period of 0 would panic. An interval of more than 292 years (9223372037
seconds) wraps around, and `NewTicker` panics if the result is not positive (`app`,
fourth configuration). `Write` calls it rejected when the server answers
`Good_Clamped` or `Good_CompletesAsynchronously` (client.go:590), though everything
with these two bits is `Good` elsewhere (client.go:38-42, src/README.md:340). Nothing remembers which folders were browsed: a server whose
folders form a cycle keeps the program in `ResolveNodes` for ever. The comment at
client.go:95 splits subscriptions at 5000 nodes, the code at 2000. An item that the
server refuses is never reported, because nobody looks at its status.

## 8. What is not modelled, and the plan

| step | module | content |
|---|---|---|
| 1 | `CollectorProofs` | that no goroutine waits on `pubCh` in timed mode, the safety half of what `timed` shows about `Stop` |

Left out for good:

* `Reconnect`, `IsConnected`, `Read`, `WriteAll`, `SetNodeDataTypes`, `Publish` and
  `GetStats`, which nothing calls, and `pkg/pool`, which nothing imports. A model
  of them would have to invent their callers.
* `monitorStats` takes part in cancellation and in the wait group; the snapshot it
  stores is only logged.
* viper's search for the file and its parsing, the logger and the pprof listener
  (I/O); certificates and security settings, which are passed on to the library.
* The inside of the libraries: nats.go's buffers and reconnect timing, gopcua's
  sessions and keep-alive.
