------------------------------ MODULE Collector ------------------------------
(***************************************************************************)
(* The collection engine of internal/collector/collector.go, from the      *)
(* notifications of the OPC UA subscription to the messages on NATS.       *)
(*                                                                         *)
(*   server --notifs--> handler --subCh--> subWorker(s) --+--> nodeStates  *)
(*     ^                                                  |                *)
(*     +---- ReadAll ---- healthCheckWorker --------------+--pubCh-->      *)
(*                                            publishWorker --> downstream *)
(*                                                                         *)
(* Every goroutine is a process whose steps are the code between two       *)
(* places where another goroutine can be seen: a channel operation, a      *)
(* section under nodeStatesMu, a server or NATS call.  Init is the state   *)
(* in which Start has just returned.  The README relates each definition   *)
(* to the code and says what is abstracted.                                *)
(***************************************************************************)
EXTENDS Integers, Sequences, FiniteSets, Functions

CONSTANTS
    Nodes,             \* the resolved nodes: the initial keys of the pool
    Strays,            \* ids of notifications that name no node ("unknown"): they do not parse
    Workers,           \* the goroutines running subWorker
    PushMode,          \* "immediate", "timed", or any other configured text
    ForceHeartbeat,    \* force_heartbeat
    ChannelBufferSize, \* capacity of subCh and of pubCh
    StaleThreshold,    \* stale_threshold_sec, in ticks
    HealthBatchSize,   \* healthCheckBatchSize: nodes per ReadAll
    ClockLag,          \* how far the server's clock is behind the collector's
    SampleQualities,   \* the qualities of the samples at the server
    Unmarshalable,     \* sample numbers whose value is NaN or Inf: not valid JSON
    MaxVersion,        \* bound: samples per node
    MaxTime,           \* bound: ticks of the clock
    MaxBatch,          \* bound: samples per notification
    NatsOutages,       \* bound: times NATS goes down
    CanStop,           \* bound: FALSE leaves Stop out
    CounterSize,       \* the counters are kept modulo this; 1 abstracts them away
    NoValue, NoPoint   \* the nil value; "nothing delivered yet"

NodeIDs == Nodes \cup Strays
Goroutines == Workers \cup {"monitor", "health", "publish"}

ASSUME NodesAssumption == IsFiniteSet(NodeIDs) /\ Nodes \cap Strays = {}
ASSUME WorkersAssumption ==
    IsFiniteSet(Workers) /\ {"monitor", "health", "publish"} \cap Workers = {}
ASSUME ConfigAssumption ==
    /\ ForceHeartbeat \in BOOLEAN
    /\ ChannelBufferSize \in Nat \ {0} /\ StaleThreshold \in Nat \ {0}
    /\ HealthBatchSize \in Nat \ {0} /\ CounterSize \in Nat \ {0}
ASSUME BoundsAssumption ==
    /\ ClockLag \in Nat /\ MaxVersion \in Nat /\ MaxTime \in Nat
    /\ MaxBatch \in Nat /\ NatsOutages \in Nat
    /\ CanStop \in BOOLEAN
ASSUME SamplesAssumption ==
    Unmarshalable \subseteq Nat /\ {"Stale", ""} \cap SampleQualities = {}

VARIABLES
    (* the environment *)
    now,           \* the collector's clock
    server,        \* the current sample of each node
    notifs,        \* notifications on their way to the handler, oldest first
    outages,       \* outages of NATS so far
    connected,     \* the connected flag of the NATS client
    downstream,    \* the last point a NATS subscriber got about each node
    (* the collector *)
    subCh, subClosed, pubCh, pubClosed,
    nodeStates,    \* the memory pool: node id -> [value, quality, timestamp, status]
    ctxDone,       \* c.ctx is cancelled
    wg,            \* counter of the wait group
    dropped, successes, failures, stales,   \* the atomic counters, modulo CounterSize
    offered,       \* history: points bound for pubCh or subCh, modulo CounterSize
    (* the goroutines *)
    pc,            \* what each goroutine is about to do
    batch,         \* subWorker: the points it still has to handle
    nodeIDs,       \* health check: the nodes it still has to read
    allPoints,     \* health check: the points read and not yet applied
    pushPoint,     \* health check: pointCopy, waiting for room in pubCh
    toPublish,     \* health check: Stale reports still to be sent
    pubBatch,      \* publishWorker: the points of the message being sent
    main           \* the goroutine that calls Stop; "crashed" once the process has panicked

envVars     == <<now, server, notifs, outages, connected>>
chanVars    == <<subCh, subClosed, pubCh, pubClosed>>
counterVars == <<dropped, successes, failures, stales, offered>>
healthVars  == <<nodeIDs, allPoints, pushPoint, toPublish>>
stopVars    == <<ctxDone, wg, main>>
vars == <<envVars, downstream, chanVars, nodeStates, stopVars, counterVars, pc, batch,
          healthVars, pubBatch>>

-----------------------------------------------------------------------------
(* Data *)

(* A sample stands for a value: it knows whose it is, its place in the     *)
(* node's history and the quality the server gave it.                      *)
Samples == [of : NodeIDs, ver : Nat, quality : SampleQualities]
Values == Samples \cup {NoValue}
Qualities == SampleQualities \cup {"", "Stale"}
Points == [node : NodeIDs, value : Values, quality : Qualities, timestamp : Int]
States == [value : Values, quality : Qualities, timestamp : Int, status : {"Online", "Stale"}]

ASSUME NilAssumption == NoValue \notin Samples /\ NoPoint \notin Points

Counters == 0..(CounterSize - 1)
Count(c, n) == (c + n) % CounterSize
HasRoomOffByOne(ch) == Len(ch) <= ChannelBufferSize    \* mutant
HasRoom(ch) == Len(ch) < ChannelBufferSize

(* What a read of sample s, or a notification about it, says of node n now.*)
PointOf(n, s) ==
    [node |-> n, value |-> s, quality |-> s.quality, timestamp |-> now - ClockLag]

(* What the pool says of n when its state is s.                            *)
AsPoint(n, s) ==
    [node |-> n, value |-> s.value, quality |-> s.quality, timestamp |-> s.timestamp]

Pool == DOMAIN nodeStates

(* Mutant: initNodeStates lets all nodes share one state.                  *)
PoolAliased(n, s) == [m \in Pool \cup {n} |-> s]

(* nodeStates with the entry of n, which may be new, set to s.             *)
PoolWith(n, s) == [m \in Pool \cup {n} |-> IF m = n THEN s ELSE nodeStates[m]]

(* Mutant: a good point does not take the Stale mark away.                 *)
RefreshedKeepingStatus(point) ==
    [value |-> point.value, quality |-> point.quality, timestamp |-> point.timestamp,
     status |-> IF point.node \in Pool THEN nodeStates[point.node].status ELSE "Online"]

(* The state a good point leaves in the pool.                              *)
Refreshed(point) ==
    [value |-> point.value, quality |-> point.quality, timestamp |-> point.timestamp,
     status |-> "Online"]

(* All orders of a finite set of ids: Go ranges over maps in any of them.  *)
Orders(S) == Bijection(1..Cardinality(S), S)

(* ReadAll skips ids that do not parse when it builds the request, and     *)
(* then pairs the i-th result with the i-th id it was given.               *)
ReadAll(ids) ==
    LET valid == {i \in 1..Len(ids) : ids[i] \notin Strays}
        Requested(i) == ids[CHOOSE j \in valid : Cardinality({k \in valid : k <= j}) = i]
    IN  [i \in 1..Cardinality(valid) |-> PointOf(ids[i], server[Requested(i)])]

-----------------------------------------------------------------------------
(* The environment: the OPC UA server and its subscription, NATS, time *)

(* A node changes: the subscription reports it, in a notification of its   *)
(* own or together with earlier changes that are still on their way.       *)
ServerChange(n) ==
    /\ server[n].ver < MaxVersion
    /\ \E q \in SampleQualities :
          LET s == [of |-> n, ver |-> server[n].ver + 1, quality |-> q]
              last == Len(notifs)
          IN  /\ server' = [server EXCEPT ![n] = s]
              /\ \/ notifs' = Append(notifs, <<PointOf(n, s)>>)
                 \/ /\ last > 0
                    /\ Len(notifs[last]) < MaxBatch
                    /\ notifs' = [notifs EXCEPT ![last] = Append(@, PointOf(n, s))]
    /\ UNCHANGED <<now, outages, connected, downstream, chanVars, nodeStates, stopVars,
                   counterVars, pc, batch, healthVars, pubBatch>>

Tick ==
    /\ now < MaxTime
    /\ now' = now + 1
    /\ UNCHANGED <<server, notifs, outages, connected, downstream, chanVars, nodeStates,
                   stopVars, counterVars, pc, batch, healthVars, pubBatch>>

NatsDown ==
    /\ connected
    /\ outages < NatsOutages
    /\ connected' = FALSE
    /\ outages' = outages + 1
    /\ UNCHANGED <<now, server, notifs, downstream, chanVars, nodeStates, stopVars,
                   counterVars, pc, batch, healthVars, pubBatch>>

NatsUp ==
    /\ ~connected
    /\ connected' = TRUE
    /\ UNCHANGED <<now, server, notifs, outages, downstream, chanVars, nodeStates, stopVars,
                   counterVars, pc, batch, healthVars, pubBatch>>

-----------------------------------------------------------------------------
(* The notification goroutine: handleNotifications calls handler.  It is   *)
(* not in the wait group and outlives Stop.                                *)

HandlerSend ==
    /\ main # "crashed"
    /\ notifs # <<>>
    /\ ~subClosed
    /\ HasRoom(subCh)
    /\ subCh' = Append(subCh, Head(notifs))
    /\ notifs' = Tail(notifs)
    /\ offered' = Count(offered, Len(Head(notifs)))
    /\ UNCHANGED <<now, server, outages, connected, downstream, subClosed, pubCh, pubClosed,
                   nodeStates, stopVars, dropped, successes, failures, stales, pc, batch,
                   healthVars, pubBatch>>

HandlerDrop ==
    /\ main # "crashed"
    /\ notifs # <<>>
    /\ ~subClosed
    /\ ~HasRoom(subCh)
    /\ notifs' = Tail(notifs)
    /\ offered' = Count(offered, Len(Head(notifs)))
    /\ dropped' = Count(dropped, Len(Head(notifs)))
    /\ UNCHANGED <<now, server, outages, connected, downstream, chanVars, nodeStates,
                   stopVars, successes, failures, stales, pc, batch, healthVars, pubBatch>>

(* A send on a closed channel panics, in a select with a default too.      *)
HandlerPanic ==
    /\ main # "crashed"
    /\ notifs # <<>>
    /\ subClosed
    /\ main' = "crashed"
    /\ UNCHANGED <<envVars, downstream, chanVars, nodeStates, ctxDone, wg, counterVars, pc,
                   batch, healthVars, pubBatch>>

Handler == HandlerSend \/ HandlerDrop \/ HandlerPanic

-----------------------------------------------------------------------------
(* Every goroutine of the wait group ends the same way: it is in its       *)
(* select, it takes the ctx.Done branch, and the deferred wg.Done runs.    *)

(* Mutant: the loop of publishWorker lacks its ctx.Done branch.            *)
CancelledUnlessPublish(g) == g \in Goroutines \ {"publish"} /\ ctxDone

(* The ctx.Done branch of g's select is ready.                             *)
Cancelled(g) == g \in Goroutines /\ ctxDone

Exit(g) ==
    /\ pc[g] = "select"
    /\ Cancelled(g)
    /\ pc' = [pc EXCEPT ![g] = "done"]
    /\ wg' = wg - 1
    /\ UNCHANGED <<envVars, downstream, chanVars, nodeStates, ctxDone, main, counterVars,
                   batch, healthVars, pubBatch>>

-----------------------------------------------------------------------------
(* subWorker *)

SubWorkerReceive(w) ==
    /\ pc[w] = "select"
    /\ subCh # <<>>
    /\ batch' = [batch EXCEPT ![w] = Head(subCh)]
    /\ subCh' = Tail(subCh)
    /\ pc' = [pc EXCEPT ![w] = "handle"]
    /\ UNCHANGED <<envVars, downstream, subClosed, pubCh, pubClosed, nodeStates, stopVars,
                   counterVars, healthVars, pubBatch>>

(* The point at the head of the batch is dealt with: go on with the next.  *)
NextPoint(w) ==
    /\ batch' = [batch EXCEPT ![w] = Tail(@)]
    /\ pc' = [pc EXCEPT ![w] = IF Len(batch[w]) = 1 THEN "select" ELSE "handle"]

(* handleDataPoint up to the unlock; only immediate mode goes on to send.  *)
HandleDataPoint(w) ==
    /\ pc[w] = "handle"
    /\ LET point == Head(batch[w])
       IN  nodeStates' = PoolWith(point.node, Refreshed(point))
    /\ IF PushMode = "immediate"
       THEN pc' = [pc EXCEPT ![w] = "send"] /\ UNCHANGED batch
       ELSE NextPoint(w)
    /\ UNCHANGED <<envVars, downstream, chanVars, stopVars, counterVars, healthVars, pubBatch>>

(* The non-blocking send after the unlock.                                 *)
SendPoint(w) ==
    /\ pc[w] = "send"
    /\ IF HasRoom(pubCh)
       THEN pubCh' = Append(pubCh, Head(batch[w])) /\ UNCHANGED dropped
       ELSE dropped' = Count(dropped, 1) /\ UNCHANGED pubCh
    /\ NextPoint(w)
    /\ UNCHANGED <<envVars, downstream, subCh, subClosed, pubClosed, nodeStates, stopVars,
                   successes, failures, stales, offered, healthVars, pubBatch>>

SubWorker(w) == SubWorkerReceive(w) \/ HandleDataPoint(w) \/ SendPoint(w)

-----------------------------------------------------------------------------
(* healthCheckWorker: select -> read -> apply (-> push) -> check (-> report) *)

(* The ticker may fire at any moment the worker is in its select.          *)
HealthTick ==
    /\ pc["health"] = "select"
    /\ Pool # {}
    /\ nodeIDs' \in Orders(Pool)
    /\ pc' = [pc EXCEPT !["health"] = "read"]
    /\ UNCHANGED <<envVars, downstream, chanVars, nodeStates, stopVars, counterVars, batch,
                   allPoints, pushPoint, toPublish, pubBatch>>

CurrentBatch ==
    SubSeq(nodeIDs, 1, IF Len(nodeIDs) < HealthBatchSize THEN Len(nodeIDs) ELSE HealthBatchSize)

(* One turn of the loop over batches of ids; `outcome` joins allPoints.    *)
ReadBatch(outcome) ==
    /\ pc["health"] = "read"
    /\ allPoints' = allPoints \o outcome
    /\ nodeIDs' = SubSeq(nodeIDs, HealthBatchSize + 1, Len(nodeIDs))
    /\ pc' = [pc EXCEPT !["health"] = IF nodeIDs' = <<>> THEN "apply" ELSE "read"]
    /\ UNCHANGED <<envVars, downstream, chanVars, nodeStates, stopVars, counterVars, batch,
                   pushPoint, toPublish, pubBatch>>

HealthReadOK   == ReadBatch(ReadAll(CurrentBatch))
HealthReadFail == ReadBatch(<<>>)    \* logged, then `continue`

(* Mutant: a good heartbeat forgets to update the value.                   *)
AfterHeartbeatKeepingValue(point) ==
    IF point.quality = "Good"
    THEN [nodeStates[point.node] EXCEPT !.quality = "Good", !.timestamp = point.timestamp,
                                        !.status = "Online"]
    ELSE [nodeStates[point.node] EXCEPT !.quality = point.quality,
                                        !.timestamp = point.timestamp]

(* A good heartbeat refreshes the node as a notification does; any other   *)
(* quality takes over quality and timestamp, never value and status.       *)
AfterHeartbeat(point) ==
    IF point.quality = "Good"
    THEN Refreshed(point)
    ELSE [nodeStates[point.node] EXCEPT !.quality = point.quality,
                                        !.timestamp = point.timestamp]

PushesHeartbeats == PushMode = "immediate" /\ ForceHeartbeat

(* handleHeartbeatResult up to the unlock.  Nodes never leave the pool, so *)
(* its `!exists` return is dead code.                                      *)
HandleHeartbeatResult ==
    /\ pc["health"] = "apply"
    /\ allPoints # <<>>
    /\ LET point == Head(allPoints)
           state == AfterHeartbeat(point)
       IN  /\ nodeStates' = PoolWith(point.node, state)
           /\ IF point.quality = "Good" /\ PushesHeartbeats
              THEN /\ pushPoint' = AsPoint(point.node, state)
                   /\ offered' = Count(offered, 1)
                   /\ pc' = [pc EXCEPT !["health"] = "push"]
              ELSE UNCHANGED <<pushPoint, offered, pc>>
    /\ allPoints' = Tail(allPoints)
    /\ UNCHANGED <<envVars, downstream, chanVars, stopVars, dropped, successes, failures,
                   stales, batch, nodeIDs, toPublish, pubBatch>>

(* The blocking send of a heartbeat: it does not watch ctx.Done.           *)
HealthPush ==
    /\ pc["health"] = "push"
    /\ HasRoom(pubCh)
    /\ pubCh' = Append(pubCh, pushPoint)
    /\ pushPoint' = NoPoint
    /\ pc' = [pc EXCEPT !["health"] = "apply"]
    /\ UNCHANGED <<envVars, downstream, subCh, subClosed, pubClosed, nodeStates, stopVars,
                   counterVars, batch, nodeIDs, allPoints, toPublish, pubBatch>>

Expired(n) == now - nodeStates[n].timestamp > StaleThreshold
(* Mutant: the subtraction for the age is the wrong way round.             *)
NewlyStaleReversed ==
    {n \in Pool : nodeStates[n].timestamp - now > StaleThreshold
                  /\ nodeStates[n].status # "Stale"}
NewlyStale == {n \in Pool : Expired(n) /\ nodeStates[n].status # "Stale"}

(* Mutant: a Stale report repeats the quality of the pool.                 *)
StaleReportOfPool(n) == AsPoint(n, nodeStates[n])

StaleReport(n) ==
    [node |-> n, value |-> nodeStates[n].value, quality |-> "Stale", timestamp |-> now]

(* checkStaleNodes up to the unlock.                                       *)
CheckStaleNodes ==
    /\ pc["health"] = "apply"
    /\ allPoints = <<>>
    /\ nodeStates' = [n \in Pool |-> IF n \in NewlyStale
                                     THEN [nodeStates[n] EXCEPT !.status = "Stale"]
                                     ELSE nodeStates[n]]
    /\ stales' = Count(stales, Cardinality(NewlyStale))
    /\ IF PushMode = "immediate"
       THEN /\ toPublish' = {StaleReport(n) : n \in NewlyStale}
            /\ offered' = Count(offered, Cardinality(NewlyStale))
       ELSE UNCHANGED <<toPublish, offered>>
    /\ pc' = [pc EXCEPT !["health"] = IF toPublish' = {} THEN "select" ELSE "report"]
    /\ UNCHANGED <<envVars, downstream, chanVars, stopVars, dropped, successes, failures,
                   batch, nodeIDs, allPoints, pushPoint, pubBatch>>

(* The blocking sends of Stale reports, in the order of the map.           *)
HealthReport ==
    /\ pc["health"] = "report"
    /\ HasRoom(pubCh)
    /\ \E point \in toPublish :
          /\ pubCh' = Append(pubCh, point)
          /\ toPublish' = toPublish \ {point}
    /\ pc' = [pc EXCEPT !["health"] = IF toPublish' = {} THEN "select" ELSE "report"]
    /\ UNCHANGED <<envVars, downstream, subCh, subClosed, pubClosed, nodeStates, stopVars,
                   counterVars, batch, nodeIDs, allPoints, pushPoint, pubBatch>>

HealthCheck ==
    \/ HealthTick \/ HealthReadOK \/ HealthReadFail
    \/ HandleHeartbeatResult \/ HealthPush \/ CheckStaleNodes \/ HealthReport

-----------------------------------------------------------------------------
(* publishWorker: select -> publish *)

(* Immediate mode (every mode but "timed"): one message per point.         *)
PublishReceive ==
    /\ PushMode # "timed"
    /\ pc["publish"] = "select"
    /\ pubCh # <<>>
    /\ pubBatch' = {Head(pubCh)}
    /\ pubCh' = Tail(pubCh)
    /\ pc' = [pc EXCEPT !["publish"] = "publish"]
    /\ UNCHANGED <<envVars, downstream, subCh, subClosed, pubClosed, nodeStates, stopVars,
                   counterVars, batch, healthVars>>

(* Mutant: a snapshot leaves out the nodes that are Stale.                 *)
SnapshotOnline == {AsPoint(n, nodeStates[n]) : n \in {m \in Pool : nodeStates[m].status = "Online"}}
Snapshot == {AsPoint(n, nodeStates[n]) : n \in Pool}

(* Timed mode, pushDirtyNodes: a snapshot of the whole pool, dirty or not. *)
PublishTick ==
    /\ PushMode = "timed"
    /\ pc["publish"] = "select"
    /\ Pool # {}
    /\ pubBatch' = Snapshot
    /\ offered' = Count(offered, Cardinality(Pool))
    /\ pc' = [pc EXCEPT !["publish"] = "publish"]
    /\ UNCHANGED <<envVars, downstream, chanVars, nodeStates, stopVars, dropped, successes,
                   failures, stales, batch, healthVars>>

(* json.Marshal fails for the whole message if one value is NaN or Inf.    *)
Marshalable(value) == value # NoValue => value.ver \notin Unmarshalable
Publishable == connected /\ \A p \in pubBatch : Marshalable(p.value)

(* What a subscriber knows once the message has arrived.                   *)
Received ==
    [n \in NodeIDs |-> IF \E p \in pubBatch : p.node = n
                       THEN CHOOSE p \in pubBatch : p.node = n
                       ELSE downstream[n]]

FailedPointsUncounted == 0    \* mutant: an error return that skips failCount
FailedPoints == Cardinality(pubBatch)

(* processBatch, with PublishBatch.                                        *)
ProcessBatch ==
    /\ pc["publish"] = "publish"
    /\ IF Publishable
       THEN /\ downstream' = Received
            /\ successes' = Count(successes, Cardinality(pubBatch))
            /\ UNCHANGED failures
       ELSE /\ failures' = Count(failures, FailedPoints)
            /\ UNCHANGED <<downstream, successes>>
    /\ pubBatch' = {}
    /\ pc' = [pc EXCEPT !["publish"] = "select"]
    /\ UNCHANGED <<envVars, chanVars, nodeStates, stopVars, dropped, stales, offered, batch,
                   healthVars>>

Publish == PublishReceive \/ PublishTick \/ ProcessBatch

-----------------------------------------------------------------------------
(* Stop: cancel, wg.Wait, close(subCh), close(pubCh) *)

Cancel ==
    /\ main = "running" /\ CanStop
    /\ ctxDone' = TRUE
    /\ main' = "waiting"
    /\ UNCHANGED <<envVars, downstream, chanVars, nodeStates, wg, counterVars, pc, batch,
                   healthVars, pubBatch>>

CloseSubCh ==
    /\ main = "waiting"
    /\ wg = 0
    /\ subClosed' = TRUE
    /\ main' = "closing"
    /\ UNCHANGED <<envVars, downstream, subCh, pubCh, pubClosed, nodeStates, ctxDone, wg,
                   counterVars, pc, batch, healthVars, pubBatch>>

ClosePubCh ==
    /\ main = "closing"
    /\ pubClosed' = TRUE
    /\ main' = "stopped"
    /\ UNCHANGED <<envVars, downstream, subCh, subClosed, pubCh, nodeStates, ctxDone, wg,
                   counterVars, pc, batch, healthVars, pubBatch>>

-----------------------------------------------------------------------------
(* The wg.Add(1) calls of Start.                                           *)
AddedButPublish == Cardinality(Goroutines \ {"publish"})    \* mutant: no wg.Add for it
Added == Cardinality(Goroutines)

(* The subscription reports the first sample of every node when it starts. *)
FirstSample(n, q) == [of |-> n, ver |-> 0, quality |-> q]

Init ==
    /\ now = 0
    /\ \E quality \in [NodeIDs -> SampleQualities] :
          server = [n \in NodeIDs |-> FirstSample(n, quality[n])]
    /\ \E ids \in Orders(Nodes) :
          notifs = IF Nodes = {} THEN <<>>
                   ELSE << [i \in DOMAIN ids |-> PointOf(ids[i], server[ids[i]])] >>
    /\ outages = 0
    /\ connected = TRUE
    /\ downstream = [n \in NodeIDs |-> NoPoint]
    /\ subCh = <<>> /\ subClosed = FALSE
    /\ pubCh = <<>> /\ pubClosed = FALSE
    /\ nodeStates = [n \in Nodes |-> [value |-> NoValue, quality |-> "", timestamp |-> now,
                                      status |-> "Online"]]
    /\ ctxDone = FALSE
    /\ wg = Added
    /\ dropped = 0 /\ successes = 0 /\ failures = 0 /\ stales = 0 /\ offered = 0
    /\ pc = [g \in Goroutines |-> "select"]
    /\ batch = [w \in Workers |-> <<>>]
    /\ nodeIDs = <<>> /\ allPoints = <<>> /\ pushPoint = NoPoint /\ toPublish = {}
    /\ pubBatch = {}
    /\ main = "running"

Environment == Tick \/ NatsDown \/ NatsUp \/ \E n \in NodeIDs : ServerChange(n)

Next ==
    \/ Environment
    \/ Handler
    \/ \E w \in Workers : SubWorker(w)
    \/ HealthCheck
    \/ Publish
    \/ \E g \in Goroutines : Exit(g)
    \/ Cancel \/ CloseSubCh \/ ClosePubCh

Spec == Init /\ [][Next]_vars

(* Go runs every goroutine that can run.  A select with several branches   *)
(* ready picks one at random, so a ctx.Done branch that is ready at every  *)
(* visit is taken in the end (strong fairness of Exit).  The server        *)
(* answers a heartbeat of each node now and then (SF of HealthReadOK),     *)
(* NATS comes back, and the tickers keep firing.  Nobody has to change a   *)
(* node or to stop.                                                        *)
Fairness ==
    /\ WF_vars(NatsUp)
    /\ WF_vars(Handler)
    /\ \A w \in Workers : WF_vars(SubWorker(w))
    /\ WF_vars(HealthCheck)
    /\ \A n \in Nodes : SF_vars(HealthReadOK /\ n \in Range(CurrentBatch))
    /\ WF_vars(Publish)
    /\ \A g \in Goroutines : SF_vars(Exit(g))
    /\ WF_vars(CloseSubCh)
    /\ WF_vars(ClosePubCh)

FairSpec == Spec /\ Fairness

-----------------------------------------------------------------------------
(* Properties *)

(* The collector's variables hold what their Go types and capacities allow. *)
(* P is the set of points that may be on their way.                         *)
FlowOK(P) ==
    /\ notifs \in Seq(Seq(P) \ {<<>>})
    /\ subCh \in Seq(Seq(P) \ {<<>>}) /\ Len(subCh) <= ChannelBufferSize
    /\ pubCh \in Seq(P) /\ Len(pubCh) <= ChannelBufferSize
    /\ batch \in [Workers -> Seq(P)]
    /\ allPoints \in Seq(P)
    /\ pushPoint \in P \cup {NoPoint}
    /\ toPublish \subseteq P
    /\ pubBatch \subseteq P
    /\ downstream \in [NodeIDs -> P \cup {NoPoint}]

PcOK ==
    /\ DOMAIN pc = Goroutines
    /\ \A w \in Workers : pc[w] \in {"select", "handle", "send", "done"}
    /\ pc["health"] \in {"select", "read", "apply", "push", "report", "done"}
    /\ pc["publish"] \in {"select", "publish", "done"}
    /\ pc["monitor"] \in {"select", "done"}

StateOK ==
    /\ now \in Nat
    /\ server \in [NodeIDs -> Samples]
    /\ outages \in Nat
    /\ connected \in BOOLEAN /\ ctxDone \in BOOLEAN
    /\ subClosed \in BOOLEAN /\ pubClosed \in BOOLEAN
    /\ Pool \subseteq NodeIDs
    /\ nodeStates \in [Pool -> States]
    /\ wg \in Nat
    /\ dropped \in Counters /\ successes \in Counters /\ failures \in Counters
    /\ stales \in Counters /\ offered \in Counters
    /\ nodeIDs \in Seq(Pool)
    /\ main \in {"running", "waiting", "closing", "stopped", "crashed"}

(* Type correctness of the whole collector, with the capacity of both      *)
(* channels and the pool's keys (handleDataPoint creates missing ones).    *)
TypeOK == StateOK /\ PcOK /\ FlowOK(Points)

(* The wait group counts exactly the goroutines that have not returned     *)
(* (wg.Add and the deferred wg.Done of collector.go).                      *)
WaitGroupExact == wg = Cardinality({g \in Goroutines : pc[g] # "done"})

(* Stop closes subCh and pubCh only when every goroutine of the collector  *)
(* has returned, so that none of them can ever send on, or receive from, a *)
(* closed channel (the `!ok` branches are dead code).                      *)
ClosedOnlyWhenQuiet ==
    subClosed \/ pubClosed => ctxDone /\ \A g \in Goroutines : pc[g] = "done"

(* A node that the pool calls Stale although its quality is Good has been  *)
(* silent for longer than the threshold: whatever refreshes the timestamp  *)
(* of a good node also takes the mark away (checkStaleNodes,               *)
(* handleDataPoint and handleHeartbeatResult race for the same entry).     *)
StaleOnlyIfSilent ==
    \A n \in Pool : nodeStates[n].status = "Stale" => Expired(n) \/ nodeStates[n].quality # "Good"

(* The points in a queue of batches, or in the batches of the workers:     *)
(* two that are alike are told apart by where they are.                    *)
PointsIn(batches) == UNION {{i} \X DOMAIN batches[i] : i \in DOMAIN batches}

(* Points accepted by handler or put on their way by the health check that *)
(* have not reached the end of their way.                                  *)
InFlight ==
    Cardinality(PointsIn(subCh)) + Cardinality(PointsIn(batch))
    + (IF pushPoint = NoPoint THEN 0 ELSE 1)
    + Cardinality(toPublish) + Len(pubCh) + Cardinality(pubBatch)

(* No point gets lost unseen in immediate mode: every point offered is on  *)
(* its way or counted once as dropped, published or failed (droppedPoints, *)
(* successCount and failCount, which five goroutines add to).              *)
PointsAccounted ==
    offered = Count(dropped + successes + failures, InFlight)

F == INSTANCE Feed WITH latest <- server, feed <- downstream

(* The collector implements Feed: what NATS subscribers see of a node is a *)
(* sample of that node and no other, and Good only if the server said so,  *)
(* through both channels, the pool, heartbeats, snapshots and drops.       *)
ImplementsFeed == F!FeedSpec

(* Stop returns (or the process has panicked, which NoPanic excludes).     *)
StopReturns == ctxDone ~> main \in {"stopped", "crashed"}

(* README: "gracefully close: clean up once all workers have exited".      *)
NoPanic == main # "crashed"

(* Once the server is quiet, the last message about every good node shows  *)
(* its current value, whatever was dropped, overtaken or failed before:    *)
(* heartbeats and Stale reports that are pushed, or snapshots, repair      *)
(* every loss.  A value that is not valid JSON spoils its message.         *)
Unpublishable == \E n \in NodeIDs : ~Marshalable(server[n])
Converges ==
    \A n \in Nodes :
        <>[](\/ ctxDone \/ Unpublishable
             \/ server[n].quality # "Good"
             \/ downstream[n] # NoPoint /\ downstream[n].value = server[n])

(* doc.go: a node that has been silent for too long gets a message of      *)
(* quality Stale, unless NATS failed, the value is not valid JSON, or the  *)
(* collector is stopped.  checkStaleNodes waits for room in pubCh instead  *)
(* of dropping its reports as handleDataPoint drops points.                *)
StaleIsAnnounced ==
    \A n \in Nodes :
        nodeStates[n].status = "Stale" ~>
            \/ downstream[n] # NoPoint /\ downstream[n].quality = "Stale"
            \/ outages > 0 \/ ctxDone \/ ~Marshalable(nodeStates[n].value)

(* The pool holds the latest sample it was given: no entry goes back to an *)
(* older timestamp ("timestamp of the latest value", datapoint.go).        *)
PoolKeepsLatest ==
    [][\A n \in Pool : nodeStates'[n].timestamp >= nodeStates[n].timestamp]_vars

(* README: a heartbeat that is not Good "only updates Quality, not         *)
(* Timestamp", so that the node goes stale in the end.                     *)
BadHeartbeatKeepsTimestamp ==
    [][HandleHeartbeatResult /\ Head(allPoints).quality # "Good" =>
          \A n \in Pool : nodeStates'[n].timestamp = nodeStates[n].timestamp]_vars

(* A node that falls silent is marked Stale in the end, also when the      *)
(* health check cannot read: its failed reads are skipped, not fatal.      *)
SilenceIsNoticed ==
    \A n \in Nodes :
        Expired(n) ~> (~Expired(n) \/ nodeStates[n].status = "Stale" \/ ctxDone)
=============================================================================
