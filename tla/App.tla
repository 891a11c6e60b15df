--------------------------------- MODULE App ---------------------------------
(***************************************************************************)
(* cmd/main.go with Collector.Start: configuration, OPC UA session, NATS   *)
(* connection, node resolution, subscriptions and the writeback handler,   *)
(* one after the other, while NATS comes and goes and, from the first      *)
(* subscription on, notifications arrive.  What the collector does with    *)
(* the points it is told of is the module Collector; the handling of       *)
(* commands, and the deferred calls at the end, are in Writeback.          *)
(***************************************************************************)
EXTENDS Config, Sequences, FiniteSets

CONSTANTS
    Variables, Folders, Hidden, Garbage, MaxBrowses,               \* see Resolution
    Unknown, None, ItemsPerSub, SubChannelSize, MergedSize,        \* see Subscription
    MaxChanges, MaxOthers,
    NatsOutages,                                                   \* see NatsClient
    Setups      \* configurations and servers: [settings, given, mode, entries, space],
                \* and whether NATS may fail after Connect (a bound)

Required == {"endpoint", "urls"}

VARIABLES
    phase,      \* what main is doing
    setup,      \* the configuration file and the server of this behavior
    settings,   \* the numbers of the configuration, as far as they are settled
    capacity,   \* capacity of the collector's channels
    session,    \* c.client of the OPC UA client
    writeback,  \* the writeback handler has its subscription
    client, conn, connected, callbacks, outages,
    space, entries, todo, stack, leaves, resolved, browses, failed,
    nodes, subscribe, subs, items, version, reported, channel, merged, others, told

N == INSTANCE NatsClient
R == INSTANCE Resolution
S == INSTANCE Subscription WITH Nodes <- Variables \cup Folders

ASSUME NodesAssumption ==
    /\ IsFiniteSet(R!Nodes) /\ Hidden \subseteq R!Nodes
    /\ Variables \cap Folders = {} /\ Garbage \cap R!Nodes = {}
    /\ Unknown \notin R!Nodes
ASSUME SizesAssumption ==
    /\ ItemsPerSub \in Nat \ {0} /\ SubChannelSize \in Nat \ {0} /\ MergedSize \in Nat \ {0}
ASSUME BoundsAssumption ==
    /\ MaxBrowses \in Nat /\ MaxChanges \in Nat /\ MaxOthers \in Nat /\ NatsOutages \in Nat
ASSUME NoneAssumption == None \notin S!Samples
ASSUME SetupsAssumption ==
    \A s \in Setups :
        DOMAIN s.settings \subseteq Keys /\ \A k \in DOMAIN s.settings : s.settings[k] \in Int

(* The servers are well-formed.  That Visible selects what is not hidden   *)
(* is said here for the proofs, which cannot look into SelectSeq.          *)
ASSUME SpacesAssumption ==
    \A s \in Setups :
        /\ s.entries \in Seq(R!Entries) /\ s.space \in R!Spaces
        /\ \A n \in R!Nodes :
              /\ R!Visible(s.space.components[n]) \in Seq(Variables)
              /\ R!Visible(s.space.organizes[n]) \in Seq(Folders)
              /\ \A list \in {s.space.components[n], s.space.organizes[n]} :
                    R!Range(R!Visible(list)) = R!Range(list) \ Hidden

mainVars == <<phase, setup, settings, capacity, session, writeback>>
natsVars == <<client, conn, connected, callbacks, outages>>
resolutionVars == <<space, entries, todo, stack, leaves, resolved, browses, failed>>
subscriptionVars ==
    <<nodes, subscribe, subs, items, version, reported, channel, merged, others, told>>
vars == <<mainVars, natsVars, resolutionVars, subscriptionVars>>

-----------------------------------------------------------------------------
(* main until the collector starts *)

LoadConfig ==
    /\ phase = "config"
    /\ IF setup.given = Required
       THEN phase' = "opcua" /\ settings' = Validated(Loaded(setup.settings))
       ELSE phase' = "fatal" /\ UNCHANGED settings
    /\ UNCHANGED <<setup, capacity, session, writeback,
                   natsVars, resolutionVars, subscriptionVars>>

ConnectOpcua ==
    /\ phase = "opcua"
    /\ phase' = "nats" /\ session' = "open"
    /\ UNCHANGED <<setup, settings, capacity, writeback,
                   natsVars, resolutionVars, subscriptionVars>>

(* NewClient fails, or Connect does when c.client is set already.          *)
ConnectOpcuaFails ==
    /\ phase = "opcua"
    /\ phase' = "fatal" /\ session' \in {"none", "stored"}
    /\ UNCHANGED <<setup, settings, capacity, writeback,
                   natsVars, resolutionVars, subscriptionVars>>

(* Whatever becomes of NATS, main goes on.                                 *)
ConnectNats ==
    /\ phase = "nats"
    /\ N!Dial \/ N!DialFails \/ N!ConnectReturns
    /\ phase' = IF client' = "dialed" THEN phase ELSE "start"
    /\ UNCHANGED <<setup, settings, capacity, session, writeback,
                   resolutionVars, subscriptionVars>>

-----------------------------------------------------------------------------
(* collector.New and Collector.Start *)

(* New makes the channels, and only then Start fills in its defaults.      *)
StartCollector ==
    /\ phase = "start"
    /\ phase' = "resolve"
    /\ capacity' = settings["channel_buffer_size"]
    /\ settings' = WithDefaults(settings)
    /\ R!Begin
    /\ UNCHANGED <<setup, session, writeback, natsVars, subscriptionVars>>

ResolveNodes ==
    /\ phase = "resolve"
    /\ R!Resolve
    /\ UNCHANGED <<mainVars, natsVars, subscriptionVars>>

(* ResolveNodes returns the list, and Subscribe is called with it.         *)
SubscribeNodes ==
    /\ phase = "resolve" /\ todo = <<>>
    /\ phase' = "subscribe"
    /\ S!Begin(resolved)
    /\ resolved' = <<>> /\ browses' = 0 /\ failed' = {}    \* locals of ResolveNodes
    /\ UNCHANGED <<setup, settings, capacity, session, writeback, natsVars,
                   space, entries, todo, stack, leaves>>

(* Monitor is given request_timeout seconds; if that is no time it fails.  *)
Subscribing ==
    /\ phase = "subscribe"
    /\ \/ S!CreateSubscription
       \/ Duration(settings["request_timeout"]) > 0 /\ S!Monitor
       \/ S!SubscribeFails
    /\ UNCHANGED <<mainVars, natsVars, resolutionVars>>

(* Subscribe returns; the goroutines of the collector start, or main ends  *)
(* at once and leaves the session to the server.                           *)
SubscribeReturns ==
    /\ phase = "subscribe" /\ subscribe \in {"started", "failed"}
    /\ phase' = IF subscribe = "started" THEN "writeback" ELSE "fatal"
    /\ UNCHANGED <<setup, settings, capacity, session, writeback,
                   natsVars, resolutionVars, subscriptionVars>>

(* Without NATS at this moment there is no writeback, now or later.  The   *)
(* flag may still be set when nats.go has given up and refuses.            *)
StartWriteback ==
    /\ phase = "writeback"
    /\ phase' = "running"
    /\ writeback' = (connected /\ conn # "closed")
    /\ UNCHANGED <<setup, settings, capacity, session,
                   natsVars, resolutionVars, subscriptionVars>>

(* NewTicker panics on a period that is not positive, in a goroutine of    *)
(* the collector: the process is gone.  Stop would wait for these.         *)
TickersRun == \A k \in Tickers(PushMode(setup.mode)) : Duration(settings[k]) > 0

TickerPanics ==
    /\ phase \in {"writeback", "running"} /\ ~TickersRun
    /\ phase' = "panicked"
    /\ UNCHANGED <<setup, settings, capacity, session, writeback,
                   natsVars, resolutionVars, subscriptionVars>>

(* The signal, and what the deferred calls do to the two clients.  Close   *)
(* of the NATS client is deferred only if Connect succeeded.               *)
Shutdown ==
    /\ phase = "running" /\ TickersRun
    /\ phase' = "stopped" /\ session' = "none" /\ writeback' = FALSE
    /\ IF client = "ready" THEN N!Close ELSE UNCHANGED natsVars
    /\ UNCHANGED <<setup, settings, capacity, resolutionVars, subscriptionVars>>

-----------------------------------------------------------------------------
(* What goes on meanwhile *)

Nats ==
    /\ phase \notin {"fatal", "panicked"}
    /\ \/ setup.outages /\ N!Disconnect
       \/ N!Reconnect \/ N!Callback
       \/ settings["max_reconnects"] >= 0 /\ N!GiveUp
    /\ UNCHANGED <<mainVars, resolutionVars, subscriptionVars>>

Subscribed == phase \in {"subscribe", "writeback", "running"}

Report == \E s \in 1..subs : \E changed \in SUBSET S!Pending(s) : S!Publish(s, changed)

Flow ==
    /\ Subscribed
    /\ Report \/ (\E s \in 1..subs : S!Forward(s)) \/ S!HandleNotification
    /\ UNCHANGED <<mainVars, natsVars, resolutionVars>>

(* Changes before the nodes are known, or of others, concern nobody.       *)
Server ==
    /\ Subscribed
    /\ \/ \E s \in 1..subs : S!PublishOther(s)
       \/ \E p \in DOMAIN nodes : nodes[p] \in Variables /\ S!Change(nodes[p])
    /\ UNCHANGED <<mainVars, natsVars, resolutionVars>>

-----------------------------------------------------------------------------
Init ==
    /\ setup \in Setups
    /\ phase = "config" /\ settings = Loaded(setup.settings) /\ capacity = 0
    /\ session = "none" /\ writeback = FALSE
    /\ N!Init /\ S!Init
    /\ space = setup.space /\ entries = setup.entries
    /\ todo = <<>> /\ stack = <<>> /\ leaves = <<>> /\ resolved = <<>>
    /\ browses = 0 /\ failed = {}

Main ==
    \/ LoadConfig \/ ConnectOpcua \/ ConnectOpcuaFails \/ ConnectNats
    \/ StartCollector \/ ResolveNodes \/ SubscribeNodes
    \/ Subscribing \/ SubscribeReturns \/ StartWriteback

Next == Main \/ TickerPanics \/ Shutdown \/ Nats \/ Flow \/ Server

Spec == Init /\ [][Next]_vars

(* Main goes on, for all its calls have deadlines, and so does the way of  *)
(* the notifications.  Nothing is assumed of NATS.                         *)
FairSpec == Spec /\ WF_vars(Main) /\ WF_vars(Flow)

-----------------------------------------------------------------------------
(* Properties *)

(* Type correctness of all parts.  The handles of a started subscription   *)
(* belong to nodes that parse, although the configuration may not.         *)
TypeOK ==
    /\ phase \in {"config", "opcua", "nats", "start", "resolve", "subscribe", "writeback",
                  "running", "stopped", "panicked", "fatal"}
    /\ settings \in Settings /\ capacity \in Int
    /\ session \in {"none", "stored", "open"} /\ writeback \in BOOLEAN
    /\ N!TypeOK /\ S!TypeOK
    /\ leaves \in Seq(Variables) /\ resolved \in Seq(R!Nodes)
    /\ stack \in Seq(R!Nodes \cup Garbage) /\ browses \in 0..MaxBrowses

(* Zero, negative and missing numbers do no harm: the channels, which New  *)
(* makes before Start fills in defaults (collector.go 84-85), can hold     *)
(* something, and there is a worker and a threshold (146, 311).  These are *)
(* what ConfigAssumption of Collector asks for.  A ticker (308, 500, 575)  *)
(* panics only if the file itself asks for an interval that is too long    *)
(* for a time.Duration; a threshold that is too long may wrap around, too. *)
ConfigSafe ==
    /\ phase \in {"resolve", "subscribe", "writeback", "running"} =>
          /\ capacity > 0 /\ settings["worker_count"] > 0
          /\ \/ TooLong(settings["stale_threshold_sec"])
             \/ Duration(settings["stale_threshold_sec"]) > 0
    /\ phase = "panicked" =>
          \E k \in Tickers(PushMode(setup.mode)) \cap DOMAIN setup.settings :
              TooLong(setup.settings[k])

(* See NatsClient, Resolution and Subscription.                            *)
FlagSettles == N!FlagSettles
ResolvedBetween == phase = "resolve" => R!ResolvedBetween
Attributed == S!Attributed
NoStepBack == S!NoStepBack

(* Every variable in the list is reported in the end, with the value it    *)
(* has then: also those of the last, shorter piece, and although nobody    *)
(* reads mergedCh while later pieces are still being set up (client.go     *)
(* 115-177).                                                               *)
EveryChangeHandled ==
    \A v \in Variables :
        <>[](phase = "running" /\ (\E p \in DOMAIN nodes : nodes[p] = v)
                => told[v] = [of |-> v, ver |-> version[v]])

(* The program comes up or gives up, whatever fails: NATS cannot hold it   *)
(* up, many pieces of nodes cannot, and browsing ends unless the folders   *)
(* of the server form a cycle.  A panic is the subject of ConfigSafe.      *)
Starts == <>(phase \in {"running", "fatal", "panicked"} \/ (phase = "resolve" /\ ~R!Acyclic))
=============================================================================
