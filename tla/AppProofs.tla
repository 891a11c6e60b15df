------------------------------ MODULE AppProofs ------------------------------
(***************************************************************************)
(* Theorems about App: whatever the configuration, the sizes, the servers  *)
(* and the number of outages.  Configuration, connection, resolution and   *)
(* subscriptions share few steps, so each has an inductive invariant of    *)
(* its own, and every step of App is shown to be a step of the part or to  *)
(* leave it alone.  What is proved of Subscription carries over.           *)
(***************************************************************************)
EXTENDS App, SequenceTheorems, TLAPS

(* What settings are known to be positive in which phase.                  *)
Defaulted(keys) == \A k \in keys : settings[k] > 0

Intervals == Tickers("timed") \cup {"stale_threshold_sec"}

(* An interval that is too long is one the file itself asks for.           *)
AskedFor(k) == k \in DOMAIN setup.settings /\ settings[k] = setup.settings[k]

ConfigInv ==
    /\ setup \in Setups
    /\ settings \in Settings
    /\ \A k \in Intervals : ~TooLong(settings[k]) \/ AskedFor(k)
    /\ phase \in {"opcua", "nats", "start"} => settings["channel_buffer_size"] > 0
    /\ phase \in {"resolve", "subscribe", "writeback", "running"} =>
          capacity > 0 /\ Defaulted(DOMAIN CollectorDefaults)
    /\ phase = "panicked" =>
          \E k \in Tickers(PushMode(setup.mode)) \cap DOMAIN setup.settings :
              TooLong(setup.settings[k])

Reports == {"disconnected", "reconnected", "closed"}

(* While callbacks are under way the last of them tells what the           *)
(* connection is like; when there are none the flag has to.                *)
FlagInv ==
    /\ client \in {"new", "dialed", "failed", "ready", "closed"}
    /\ conn \in {"none", "up", "down", "closed"}
    /\ connected \in BOOLEAN
    /\ callbacks \in Seq(Reports)
    /\ outages \in 0..NatsOutages
    /\ client \in {"new", "failed"} <=> conn = "none"
    /\ conn = "none" => callbacks = <<>>
    /\ client = "closed" => conn = "closed"
    /\ callbacks # <<>> => (callbacks[Len(callbacks)] = "reconnected" <=> conn = "up")
    /\ N!FlagSettles

-----------------------------------------------------------------------------
(* Lemmas about Config *)

(* Every default of setDefaults is positive, and a setting for each ticker *)
(* and for the workers is among them (collector.go 163-187).               *)
LEMMA CollectorDefaultsPositive ==
    /\ DOMAIN CollectorDefaults \subseteq Keys
    /\ \A k \in DOMAIN CollectorDefaults : CollectorDefaults[k] \in Int /\ CollectorDefaults[k] > 0
    /\ Intervals \cup {"worker_count"} \subseteq DOMAIN CollectorDefaults
    /\ \A mode : Tickers(mode) \subseteq Intervals
<1>1. DOMAIN CollectorDefaults =
        {"heartbeat_interval_sec", "stale_threshold_sec", "push_interval_sec", "worker_count",
         "batch_size", "channel_buffer_size", "publish_timeout_ms", "monitor_interval_sec"}
  BY DEF CollectorDefaults
<1>2. \A k \in DOMAIN CollectorDefaults : CollectorDefaults[k] \in Int /\ CollectorDefaults[k] > 0
  BY DEF CollectorDefaults
<1> QED
  BY <1>1, <1>2 DEF Keys, Tickers, Intervals

LEMMA ValidateDefaultsTyped ==
    /\ \A k \in DOMAIN ValidateDefaults : ValidateDefaults[k] \in Int
    /\ "channel_buffer_size" \in DOMAIN ValidateDefaults
    /\ ValidateDefaults["channel_buffer_size"] > 0
BY DEF ValidateDefaults

(* No default is too long for a time.Duration.                             *)
LEMMA DefaultsAreShort ==
    /\ \A k \in Intervals : k \in DOMAIN ViperDefaults => ~TooLong(ViperDefaults[k])
    /\ \A k \in Intervals : k \in DOMAIN ValidateDefaults => ~TooLong(ValidateDefaults[k])
    /\ \A k \in Intervals : ~TooLong(CollectorDefaults[k])
    /\ ~TooLong(0)
<1>1. \A n \in {0, 1, 5, 10, 30, 60} : ~TooLong(n)
  BY DurationAssumption DEF TooLong
<1>2. Intervals = {"heartbeat_interval_sec", "monitor_interval_sec", "push_interval_sec",
                   "stale_threshold_sec"}
  BY DEF Intervals, Tickers
<1>3. \A k \in Intervals : CollectorDefaults[k] \in {1, 5, 30, 60}
  BY <1>2 DEF CollectorDefaults
<1>4. \A k \in Intervals : k \in DOMAIN ValidateDefaults => ValidateDefaults[k] \in {1, 5, 10}
  BY <1>2 DEF ValidateDefaults
<1>5. \A k \in Intervals : k \in DOMAIN ViperDefaults => ViperDefaults[k] = 60
  BY <1>2 DEF ViperDefaults
<1> QED
  BY <1>1, <1>3, <1>4, <1>5

LEMMA Remainders ==
    ASSUME NEW a \in Int, NEW b \in Nat, a \in 0..(b - 1)
    PROVE  a % b = a
OBVIOUS

(* A period that is positive and not too long comes out positive.          *)
LEMMA ShortIsPositive ==
    ASSUME NEW n \in Int, n > 0, ~TooLong(n)
    PROVE  Duration(n) > 0
<1> DEFINE p == n * Second
<1>1. p \in Int /\ p > 0 /\ p <= MaxDuration /\ MaxDuration \in Nat
  BY DurationAssumption DEF TooLong
<1>2. Duration(n) = ((p + MaxDuration + 1) % (2 * (MaxDuration + 1))) - (MaxDuration + 1)
  BY DEF Duration
<1> HIDE DEF p
<1>3. p + MaxDuration + 1 \in 0..(2 * (MaxDuration + 1) - 1)
  BY <1>1
<1>4. (p + MaxDuration + 1) % (2 * (MaxDuration + 1)) = p + MaxDuration + 1
  BY <1>1, <1>3, Remainders
<1> QED
  BY <1>1, <1>2, <1>4

LEMMA ViperDefaultsTyped == \A k \in DOMAIN ViperDefaults : ViperDefaults[k] \in Int
BY DEF ViperDefaults

(* A function from some keys to integers is loaded as settings.            *)
LEMMA LoadedTyped ==
    ASSUME NEW s \in Setups
    PROVE  Loaded(s.settings) \in Settings
BY SetupsAssumption, ViperDefaultsTyped DEF Loaded, Settings

(* What the file does not ask for is short, and stays so.                  *)
LEMMA LoadedLengths ==
    ASSUME NEW file, NEW k \in Intervals
    PROVE  ~TooLong(Loaded(file)[k]) \/ (k \in DOMAIN file /\ Loaded(file)[k] = file[k])
<1>1. k \in Keys
  BY CollectorDefaultsPositive
<1> QED
  BY <1>1, DefaultsAreShort DEF Loaded

LEMMA OrDefaultLengths ==
    ASSUME NEW values, NEW k \in Intervals,
           NEW defaults, k \in DOMAIN defaults => ~TooLong(defaults[k])
    PROVE  ~TooLong(OrDefault(values, defaults)[k]) \/ OrDefault(values, defaults)[k] = values[k]
<1>1. k \in Keys
  BY CollectorDefaultsPositive
<1> QED
  BY <1>1 DEF OrDefault

LEMMA OrDefaultTyped ==
    ASSUME NEW values \in Settings, NEW defaults,
           \A k \in DOMAIN defaults : defaults[k] \in Int
    PROVE  /\ OrDefault(values, defaults) \in Settings
           /\ \A k \in Keys \cap DOMAIN defaults :
                 defaults[k] > 0 => OrDefault(values, defaults)[k] > 0
BY DEF OrDefault, Settings

-----------------------------------------------------------------------------
(* The settings *)

LEMMA ConfigInit == Init => ConfigInv
<1> SUFFICES ASSUME Init PROVE ConfigInv
  OBVIOUS
<1>1. setup \in Setups /\ phase = "config" /\ settings = Loaded(setup.settings)
  BY DEF Init
<1>2. \A k \in Intervals : ~TooLong(settings[k]) \/ AskedFor(k)
  BY <1>1, LoadedLengths DEF AskedFor
<1> QED
  BY <1>1, <1>2, LoadedTyped DEF ConfigInv

(* Validate leaves room in the channels that New is about to make.         *)
LEMMA LoadConfigStep == ConfigInv /\ LoadConfig => ConfigInv'
<1> SUFFICES ASSUME ConfigInv, LoadConfig PROVE ConfigInv'
  OBVIOUS
<1>1. setup' = setup /\ setup \in Setups
  BY DEF ConfigInv, LoadConfig
<1>2. CASE setup.given = Required
  <2>1. phase' = "opcua" /\ settings' = Validated(Loaded(setup.settings))
    BY <1>2 DEF LoadConfig
  <2>2. settings' \in Settings /\ settings'["channel_buffer_size"] > 0
    BY <1>1, <2>1, LoadedTyped, OrDefaultTyped, ValidateDefaultsTyped DEF Validated, Keys
  <2>3. ASSUME NEW k \in Intervals PROVE ~TooLong(settings'[k]) \/ AskedFor(k)'
    <3>1. ~TooLong(settings'[k]) \/ settings'[k] = Loaded(setup.settings)[k]
      BY <2>1, OrDefaultLengths, DefaultsAreShort DEF Validated
    <3> QED
      BY <1>1, <3>1, LoadedLengths DEF AskedFor
  <2> QED
    BY <1>1, <2>1, <2>2, <2>3 DEF ConfigInv
<1>3. CASE setup.given # Required
  BY <1>1, <1>3 DEF LoadConfig, ConfigInv, AskedFor
<1> QED
  BY <1>2, <1>3

(* New makes the channels with what Validate left, and then Start fills in *)
(* all that is still missing.                                              *)
LEMMA StartCollectorStep == ConfigInv /\ StartCollector => ConfigInv'
<1> SUFFICES ASSUME ConfigInv, StartCollector PROVE ConfigInv'
  OBVIOUS
<1>1. /\ setup' = setup /\ phase' = "resolve" /\ capacity' = settings["channel_buffer_size"]
      /\ settings' = WithDefaults(settings) /\ settings["channel_buffer_size"] > 0
  BY DEF StartCollector, ConfigInv
<1>2. settings' \in Settings /\ \A k \in DOMAIN CollectorDefaults : settings'[k] > 0
  BY <1>1, OrDefaultTyped, CollectorDefaultsPositive DEF WithDefaults, ConfigInv
<1>3. ASSUME NEW k \in Intervals PROVE ~TooLong(settings'[k]) \/ AskedFor(k)'
  <2>1. ~TooLong(settings'[k]) \/ settings'[k] = settings[k]
    BY <1>1, OrDefaultLengths, DefaultsAreShort DEF WithDefaults
  <2> QED
    BY <1>1, <2>1 DEF ConfigInv, AskedFor
<1> QED
  BY <1>1, <1>2, <1>3 DEF ConfigInv, Defaulted

(* NewTicker panics on a setting that is positive: its product with a      *)
(* second has wrapped around, so that it is too long.                      *)
LEMMA TickerPanicsStep == ConfigInv /\ TickerPanics => ConfigInv'
<1> SUFFICES ASSUME ConfigInv, TickerPanics PROVE ConfigInv'
  OBVIOUS
<1>1. /\ phase \in {"writeback", "running"} /\ ~TickersRun /\ phase' = "panicked"
      /\ UNCHANGED <<setup, settings, capacity>>
  BY DEF TickerPanics
<1>2. PICK k \in Tickers(PushMode(setup.mode)) : ~(Duration(settings[k]) > 0)
  BY <1>1 DEF TickersRun
<1>3. k \in Intervals /\ k \in DOMAIN CollectorDefaults /\ k \in Keys
  BY <1>2, CollectorDefaultsPositive
<1>4. settings[k] \in Int /\ settings[k] > 0
  BY <1>1, <1>3 DEF ConfigInv, Defaulted, Settings
<1>5. TooLong(settings[k])
  BY <1>2, <1>4, ShortIsPositive
<1>6. k \in DOMAIN setup.settings /\ TooLong(setup.settings[k])
  BY <1>3, <1>5 DEF ConfigInv, AskedFor
<1> QED
  BY <1>1, <1>2, <1>6 DEF ConfigInv, AskedFor

(* All other steps leave the settings alone and go on to a phase that asks *)
(* no more of them.                                                        *)
LEMMA OtherConfigStep ==
    ASSUME ConfigInv, [Next]_vars, ~LoadConfig, ~StartCollector, ~TickerPanics
    PROVE  ConfigInv'
<1> DEFINE early == {"opcua", "nats", "start"}
           late == {"resolve", "subscribe", "writeback", "running"}
<1>1. /\ UNCHANGED <<setup, settings, capacity>>
      /\ phase' \in early => phase \in early
      /\ phase' \in late => phase \in late
      /\ phase' = "panicked" => phase = "panicked"
  <2>1. CASE ConnectOpcua \/ ConnectOpcuaFails \/ SubscribeReturns \/ StartWriteback \/ Shutdown
    BY <2>1 DEF ConnectOpcua, ConnectOpcuaFails, SubscribeReturns, StartWriteback, Shutdown
  <2>2. CASE ConnectNats
    BY <2>2 DEF ConnectNats
  <2>3. CASE SubscribeNodes
    BY <2>3 DEF SubscribeNodes
  <2>4. CASE ResolveNodes \/ Subscribing \/ Nats \/ Flow \/ Server \/ UNCHANGED vars
    BY <2>4 DEF ResolveNodes, Subscribing, Nats, Flow, Server, vars, mainVars
  <2> QED
    BY <2>1, <2>2, <2>3, <2>4 DEF Next, Main
<1> QED
  BY <1>1 DEF ConfigInv, Defaulted, AskedFor

LEMMA ConfigStep == ConfigInv /\ [Next]_vars => ConfigInv'
BY LoadConfigStep, StartCollectorStep, TickerPanicsStep, OtherConfigStep

(* For every configuration file: the channels have room, there are workers *)
(* and a threshold, and no ticker panics unless the file itself asks for   *)
(* an interval that is longer than a time.Duration; although Validate, New *)
(* and setDefaults (config.go 110-130, collector.go 84-95 and 163-187)     *)
(* each settle only a part of the settings, in this order.                 *)
THEOREM ConfigIsSafe == Spec => []ConfigSafe
<1>1. Init => ConfigInv
  BY ConfigInit
<1>2. ConfigInv /\ [Next]_vars => ConfigInv'
  BY ConfigStep
<1>3. ConfigInv => ConfigSafe
  <2> SUFFICES ASSUME ConfigInv, phase \in {"resolve", "subscribe", "writeback", "running"}
               PROVE  /\ capacity > 0 /\ settings["worker_count"] > 0
                      /\ \/ TooLong(settings["stale_threshold_sec"])
                         \/ Duration(settings["stale_threshold_sec"]) > 0
    BY DEF ConfigInv, ConfigSafe
  <2>1. capacity > 0 /\ settings["worker_count"] > 0
    BY CollectorDefaultsPositive DEF ConfigInv, Defaulted
  <2>2. settings["stale_threshold_sec"] \in Int /\ settings["stale_threshold_sec"] > 0
    BY CollectorDefaultsPositive DEF ConfigInv, Defaulted, Intervals, Settings
  <2> QED
    BY <2>1, <2>2, ShortIsPositive
<1> QED
  BY <1>1, <1>2, <1>3, PTL DEF Spec

-----------------------------------------------------------------------------
(* The connected flag *)

(* The last element of a sequence without its head, and with one more.     *)
LEMMA LastOfTail ==
    ASSUME NEW X, NEW seq \in Seq(X), seq # <<>>
    PROVE  /\ Head(seq) \in X /\ Tail(seq) \in Seq(X)
           /\ Tail(seq) = <<>> => Head(seq) = seq[Len(seq)]
           /\ Tail(seq) # <<>> => Tail(seq)[Len(Tail(seq))] = seq[Len(seq)]
<1>1. Len(seq) \in Nat /\ Len(seq) # 0
  BY EmptySeq, LenProperties
<1>2. /\ Head(seq) \in X /\ Tail(seq) \in Seq(X) /\ Len(Tail(seq)) = Len(seq) - 1
      /\ Head(seq) = seq[1]
      /\ \A i \in 1..Len(Tail(seq)) : Tail(seq)[i] = seq[i + 1]
  BY HeadTailProperties
<1>3. Tail(seq) # <<>> => Len(Tail(seq)) \in Nat /\ Len(Tail(seq)) # 0
  BY <1>2, EmptySeq, LenProperties
<1>4. Tail(seq) = <<>> => Len(seq) = 1
  BY <1>1, <1>2, EmptySeq
<1> QED
  BY <1>1, <1>2, <1>3, <1>4

LEMMA LastOfAppend ==
    ASSUME NEW X, NEW seq \in Seq(X), NEW e \in X
    PROVE  /\ Append(seq, e) \in Seq(X) /\ Append(seq, e) # <<>>
           /\ Append(seq, e)[Len(Append(seq, e))] = e
BY AppendProperties, EmptySeq, LenProperties

LEMMA FlagInit == Init => FlagInv
<1> SUFFICES ASSUME Init PROVE FlagInv
  OBVIOUS
<1>1. client = "new" /\ conn = "none" /\ connected = FALSE /\ callbacks = <<>> /\ outages = 0
  BY DEF Init, N!Init
<1>2. callbacks \in Seq(Reports) /\ outages \in 0..NatsOutages
  BY <1>1, BoundsAssumption
<1> QED
  BY <1>1, <1>2 DEF FlagInv, N!FlagSettles

LEMMA ConnectStep == FlagInv /\ (N!Dial \/ N!DialFails \/ N!ConnectReturns) => FlagInv'
BY DEF FlagInv, N!FlagSettles, N!Dial, N!DialFails, N!ConnectReturns

(* What happens to the connection is reported after all the rest.          *)
LEMMA ConnectionStep == FlagInv /\ (N!Disconnect \/ N!Reconnect \/ N!GiveUp) => FlagInv'
<1> SUFFICES ASSUME FlagInv, N!Disconnect \/ N!Reconnect \/ N!GiveUp PROVE FlagInv'
  OBVIOUS
<1>1. PICK report \in Reports :
        /\ callbacks' = Append(callbacks, report)
        /\ conn' \in {"up", "down", "closed"} /\ (report = "reconnected" <=> conn' = "up")
  BY DEF N!Disconnect, N!Reconnect, N!GiveUp, Reports
<1>2. callbacks' \in Seq(Reports) /\ callbacks' # <<>> /\ callbacks'[Len(callbacks')] = report
  BY <1>1, LastOfAppend DEF FlagInv
<1>3. /\ client' = client /\ connected' = connected /\ client \notin {"new", "failed", "closed"}
      /\ outages' \in 0..NatsOutages
  BY BoundsAssumption DEF FlagInv, N!Disconnect, N!Reconnect, N!GiveUp
<1> QED
  BY <1>1, <1>2, <1>3 DEF FlagInv, N!FlagSettles

(* The last callback sets the flag to what the connection is like.         *)
LEMMA CallbackStep == FlagInv /\ N!Callback => FlagInv'
<1> SUFFICES ASSUME FlagInv, N!Callback PROVE FlagInv'
  OBVIOUS
<1>1. /\ callbacks # <<>> /\ callbacks' = Tail(callbacks)
      /\ connected' = (Head(callbacks) = "reconnected")
      /\ UNCHANGED <<client, conn, outages>>
  BY DEF N!Callback
<1>2. /\ callbacks' \in Seq(Reports)
      /\ callbacks' = <<>> => Head(callbacks) = callbacks[Len(callbacks)]
      /\ callbacks' # <<>> => callbacks'[Len(callbacks')] = callbacks[Len(callbacks)]
  BY <1>1, LastOfTail DEF FlagInv
<1> QED
  BY <1>1, <1>2 DEF FlagInv, N!FlagSettles

LEMMA CloseStep == FlagInv /\ N!Close => FlagInv'
<1> SUFFICES ASSUME FlagInv, N!Close PROVE FlagInv'
  OBVIOUS
<1>1. /\ client' = "closed" /\ conn' = "closed" /\ connected' = FALSE /\ outages' = outages
      /\ callbacks' = IF conn = "closed" THEN callbacks ELSE Append(callbacks, "closed")
  BY DEF N!Close
<1>2. CASE conn = "closed"
  BY <1>1, <1>2 DEF FlagInv, N!FlagSettles
<1>3. CASE conn # "closed"
  <2>1. /\ callbacks' \in Seq(Reports) /\ callbacks' # <<>>
        /\ callbacks'[Len(callbacks')] = "closed"
    BY <1>1, <1>3, LastOfAppend DEF FlagInv, Reports
  <2> QED
    BY <1>1, <2>1 DEF FlagInv, N!FlagSettles
<1> QED
  BY <1>2, <1>3

(* App lets nothing but the NATS client and its library touch the          *)
(* connection: each of its steps is one of theirs, or none.                *)
LEMMA StepOfNats == [Next]_vars => [N!Next]_natsVars
<1>1. ConnectNats => N!Next
  BY DEF ConnectNats, N!Next
<1>2. Nats => N!Next
  BY DEF Nats, N!Next, N!Connection
<1>3. Shutdown => [N!Next]_natsVars
  BY DEF Shutdown, N!Next
<1>4. LoadConfig \/ ConnectOpcua \/ ConnectOpcuaFails \/ StartCollector \/ ResolveNodes
        => UNCHANGED natsVars
  BY DEF LoadConfig, ConnectOpcua, ConnectOpcuaFails, StartCollector, ResolveNodes
<1>5. SubscribeNodes \/ Subscribing \/ SubscribeReturns \/ StartWriteback \/ TickerPanics
        \/ Flow \/ Server
        => UNCHANGED natsVars
  BY DEF SubscribeNodes, Subscribing, SubscribeReturns, StartWriteback, TickerPanics, Flow, Server
<1>6. UNCHANGED vars => UNCHANGED natsVars
  BY DEF vars
<1> QED
  BY <1>1, <1>2, <1>3, <1>4, <1>5, <1>6 DEF Next, Main

LEMMA FlagStep == FlagInv /\ [Next]_vars => FlagInv'
<1>1. FlagInv /\ N!Next => FlagInv'
  BY ConnectStep, ConnectionStep, CallbackStep, CloseStep DEF N!Next, N!Connection
<1>2. FlagInv /\ UNCHANGED natsVars => FlagInv'
  BY DEF FlagInv, N!FlagSettles, natsVars
<1> QED
  BY <1>1, <1>2, StepOfNats

(* Connect, Close and any number of outages in any order: once all is      *)
(* reported the flag agrees with a connection that is up, and a closed     *)
(* client stays closed (nats/client.go 53-65, 76-77, 186-192).             *)
THEOREM FlagIsRight == Spec => []FlagSettles
<1>1. Init => FlagInv
  BY FlagInit
<1>3. FlagInv /\ [Next]_vars => FlagInv'
  BY FlagStep
<1>4. FlagInv => FlagSettles
  BY DEF FlagInv, FlagSettles
<1> QED
  BY <1>1, <1>3, <1>4, PTL DEF Spec

-----------------------------------------------------------------------------
(* Node resolution *)

(* The lists are of nodes that parse, and while an entry is being worked   *)
(* on there is something to browse for it.                                 *)
ResolutionInv ==
    /\ setup \in Setups /\ space = setup.space /\ entries = setup.entries
    /\ todo \in Seq(R!Entries)
    /\ stack \in Seq(R!Nodes \cup Garbage)
    /\ todo # <<>> => stack # <<>>
    /\ leaves \in Seq(Variables) /\ resolved \in Seq(R!Nodes)
    /\ browses \in 0..MaxBrowses

LEMMA EmptySeqs ==
    /\ <<>> \in Seq(R!Entries) /\ <<>> \in Seq(R!Nodes \cup Garbage)
    /\ <<>> \in Seq(Variables) /\ <<>> \in Seq(R!Nodes)
    /\ 0 \in 0..MaxBrowses
BY EmptySeq, BoundsAssumption

LEMMA RootTyped ==
    ASSUME NEW list \in Seq(R!Entries)
    PROVE  /\ R!Root(list) \in Seq(R!Nodes \cup Garbage)
           /\ list # <<>> => R!Root(list) # <<>>
<1>1. CASE list = <<>>
  BY <1>1, EmptySeqs DEF R!Root
<1>2. CASE list # <<>>
  <2>1. Head(list) \in R!Entries
    BY <1>2, LastOfTail
  <2>2. Head(list).node \in R!Nodes \cup Garbage
    BY <2>1 DEF R!Entries
  <2> QED
    BY <1>2, <2>2 DEF R!Root
<1> QED
  BY <1>1, <1>2

LEMMA ResolutionInit == Init => ResolutionInv
<1> SUFFICES ASSUME Init PROVE ResolutionInv
  OBVIOUS
<1>1. /\ setup \in Setups /\ space = setup.space /\ entries = setup.entries
      /\ todo = <<>> /\ stack = <<>> /\ leaves = <<>> /\ resolved = <<>> /\ browses = 0
  BY DEF Init
<1> QED
  BY <1>1, EmptySeqs DEF ResolutionInv

(* What one folder contributes are variables, and folders to browse.       *)
LEMMA FoldersTyped ==
    ASSUME ResolutionInv, NEW f \in R!Nodes
    PROVE  R!Leaves(f) \in Seq(Variables) /\ R!Subfolders(f) \in Seq(R!Nodes \cup Garbage)
<1>1. /\ R!Visible(space.components[f]) \in Seq(Variables)
      /\ R!Visible(space.organizes[f]) \in Seq(Folders)
  BY SpacesAssumption DEF ResolutionInv
<1>2. Folders \subseteq R!Nodes \cup Garbage
  BY DEF R!Nodes
<1> QED
  BY <1>1, <1>2 DEF R!Leaves, R!Subfolders

LEMMA ContinueStep ==
    ASSUME ResolutionInv, todo # <<>>, Head(todo).node \notin Garbage,
           NEW found \in Seq(Variables), NEW pending \in Seq(R!Nodes \cup Garbage),
           R!Continue(found, pending),
           UNCHANGED <<setup, space, entries>>, browses' \in 0..MaxBrowses
    PROVE  ResolutionInv'
<1>1. CASE pending # <<>>
  <2>1. leaves' = found /\ stack' = pending /\ UNCHANGED <<todo, resolved>>
    BY <1>1 DEF R!Continue
  <2> QED
    BY <1>1, <2>1 DEF ResolutionInv
<1>2. CASE pending = <<>>
  <2> DEFINE added == IF found = <<>> THEN <<R!CleanId(Head(todo))>> ELSE found
  <2>1. /\ resolved' = resolved \o added /\ todo' = Tail(todo)
        /\ stack' = R!Root(Tail(todo)) /\ leaves' = <<>>
    BY <1>2 DEF R!Continue
  <2>2. Tail(todo) \in Seq(R!Entries) /\ Head(todo) \in R!Entries
    BY LastOfTail DEF ResolutionInv
  <2>3. R!CleanId(Head(todo)) \in R!Nodes
    BY <2>2 DEF R!CleanId, R!Entries
  <2>4. added \in Seq(R!Nodes)
    <3>1. found \in Seq(R!Nodes)
      BY DEF R!Nodes
    <3>2. <<R!CleanId(Head(todo))>> \in Seq(R!Nodes)
      BY <2>3
    <3> QED
      BY <3>1, <3>2, Zenon
  <2> HIDE DEF added
  <2>5. resolved' \in Seq(R!Nodes)
    BY <2>1, <2>4, ConcatProperties DEF ResolutionInv
  <2> QED
    BY <2>1, <2>2, <2>5, RootTyped, EmptySeqs DEF ResolutionInv
<1> QED
  BY <1>1, <1>2

LEMMA ResolveStep ==
    ASSUME ResolutionInv, R!Resolve, UNCHANGED setup
    PROVE  ResolutionInv'
<1>1. CASE R!SkipEntry
  <2>1. /\ todo # <<>> /\ todo' = Tail(todo) /\ stack' = R!Root(Tail(todo))
        /\ UNCHANGED <<space, entries, leaves, resolved, browses>>
    BY <1>1 DEF R!SkipEntry
  <2>2. Tail(todo) \in Seq(R!Entries)
    BY <2>1, LastOfTail DEF ResolutionInv
  <2> QED
    BY <2>1, <2>2, RootTyped DEF ResolutionInv
<1>2. ASSUME NEW f \in R!Nodes, R!Browse(f) \/ R!BrowseVariablesOnly(f) \/ R!BrowseFails(f)
      PROVE  ResolutionInv'
  <2>1. /\ todo # <<>> /\ Head(todo).node \notin Garbage
        /\ browses' \in 0..MaxBrowses /\ UNCHANGED <<setup, space, entries>>
    BY <1>2, BoundsAssumption
       DEF R!Browse, R!BrowseVariablesOnly, R!BrowseFails, R!Visit, ResolutionInv
  <2>2. Tail(stack) \in Seq(R!Nodes \cup Garbage) /\ leaves \in Seq(Variables)
    BY <2>1, LastOfTail DEF ResolutionInv
  <2>3. leaves \o R!Leaves(f) \in Seq(Variables)
    BY <2>2, FoldersTyped, ConcatProperties
  <2>4. (IF Head(todo).recursive THEN R!Subfolders(f) ELSE <<>>) \o Tail(stack)
            \in Seq(R!Nodes \cup Garbage)
    BY <2>2, FoldersTyped, EmptySeqs, ConcatProperties
  <2>5. CASE R!Browse(f)
    BY <2>1, <2>3, <2>4, <2>5, ContinueStep DEF R!Browse
  <2>6. CASE R!BrowseVariablesOnly(f)
    BY <2>1, <2>2, <2>3, <2>6, ContinueStep DEF R!BrowseVariablesOnly
  <2>7. CASE R!BrowseFails(f)
    BY <2>1, <2>2, <2>7, ContinueStep DEF R!BrowseFails
  <2> QED
    BY <1>2, <2>5, <2>6, <2>7
<1> QED
  BY <1>1, <1>2 DEF R!Resolve

LEMMA ResolutionStep == ResolutionInv /\ [Next]_vars => ResolutionInv'
<1> SUFFICES ASSUME ResolutionInv, [Next]_vars PROVE ResolutionInv'
  OBVIOUS
<1>1. CASE StartCollector
  <2>1. /\ todo' = entries /\ stack' = R!Root(entries)
        /\ leaves' = <<>> /\ resolved' = <<>> /\ browses' = 0
        /\ UNCHANGED <<setup, space, entries>>
    BY <1>1 DEF StartCollector, R!Begin
  <2>2. entries \in Seq(R!Entries)
    BY SpacesAssumption DEF ResolutionInv
  <2> QED
    BY <2>1, <2>2, RootTyped, EmptySeqs DEF ResolutionInv
<1>2. CASE ResolveNodes
  BY <1>2, ResolveStep DEF ResolveNodes, mainVars
<1>3. CASE SubscribeNodes
  <2>1. /\ resolved' = <<>> /\ browses' = 0
        /\ UNCHANGED <<setup, space, entries, todo, stack, leaves>>
    BY <1>3 DEF SubscribeNodes
  <2> QED
    BY <2>1, EmptySeqs DEF ResolutionInv
<1>4. CASE UNCHANGED <<setup, resolutionVars>>
  BY <1>4 DEF resolutionVars, ResolutionInv
<1>5. LoadConfig \/ ConnectOpcua \/ ConnectOpcuaFails \/ ConnectNats
        => UNCHANGED <<setup, resolutionVars>>
  BY DEF LoadConfig, ConnectOpcua, ConnectOpcuaFails, ConnectNats
<1>6. Subscribing \/ SubscribeReturns \/ StartWriteback \/ TickerPanics \/ Shutdown
        => UNCHANGED <<setup, resolutionVars>>
  BY DEF Subscribing, SubscribeReturns, StartWriteback, TickerPanics, Shutdown, mainVars
<1>7. Nats \/ Flow \/ Server \/ UNCHANGED vars => UNCHANGED <<setup, resolutionVars>>
  BY DEF Nats, Flow, Server, vars, mainVars
<1> QED
  BY <1>1, <1>2, <1>3, <1>4, <1>5, <1>6, <1>7 DEF Next, Main

-----------------------------------------------------------------------------
(* Subscriptions *)

P == INSTANCE SubscriptionProofs WITH Nodes <- Variables \cup Folders

LEMMA SizesHold == P!Sizes
<1>1. None \notin P!Samples
  BY NoneAssumption DEF S!Samples, P!Samples
<1> QED
  BY <1>1, NodesAssumption, SizesAssumption, BoundsAssumption DEF P!Sizes, R!Nodes

(* S and P are one module: their definitions say the same.                 *)
LEMMA SameHelpers ==
    /\ S!Places = P!Places /\ S!Samples = P!Samples /\ S!Items = P!Items
    /\ \A p : S!At(p) = P!At(p) /\ S!Item(p) = P!Item(p)
    /\ \A list : S!SubCount(list) = P!SubCount(list)
    /\ \A s : S!PlacesOf(s) = P!PlacesOf(s) /\ S!Pending(s) = P!Pending(s)
    /\ \A item : S!NodeID(item) = P!NodeID(item)
BY DEF S!Places, P!Places, S!Samples, P!Samples, S!Items, P!Items, S!At, P!At, S!Item, P!Item,
       S!SubCount, P!SubCount, S!PlacesOf, P!PlacesOf, S!Pending, P!Pending,
       S!NodeID, P!NodeID, S!Handle, P!Handle

LEMMA SameActions ==
    /\ \A list : S!Begin(list) <=> P!Begin(list)
    /\ S!CreateSubscription <=> P!CreateSubscription
    /\ S!Monitor <=> P!Monitor
    /\ S!SubscribeFails <=> P!SubscribeFails
    /\ \A s, changed : S!Publish(s, changed) <=> P!Publish(s, changed)
    /\ \A s : S!PublishOther(s) <=> P!PublishOther(s)
    /\ \A s : S!Forward(s) <=> P!Forward(s)
    /\ S!HandleNotification <=> P!HandleNotification
<1> USE SameHelpers DEF S!serverVars, P!serverVars, S!HasRoom, P!HasRoom, S!NextOf, P!NextOf
<1>1. \A list : S!Begin(list) <=> P!Begin(list)
  BY DEF S!Begin, P!Begin
<1>2. S!CreateSubscription <=> P!CreateSubscription
  BY DEF S!CreateSubscription, P!CreateSubscription
<1>3. S!Monitor <=> P!Monitor
  BY DEF S!Monitor, P!Monitor
<1>4. S!SubscribeFails <=> P!SubscribeFails
  BY DEF S!SubscribeFails, P!SubscribeFails
<1>5. \A s, changed : S!Publish(s, changed) <=> P!Publish(s, changed)
  BY DEF S!Publish, P!Publish
<1>6. \A s : S!PublishOther(s) <=> P!PublishOther(s)
  BY DEF S!PublishOther, P!PublishOther
<1>7. \A s : S!Forward(s) <=> P!Forward(s)
  BY DEF S!Forward, P!Forward
<1>8. S!HandleNotification <=> P!HandleNotification
  BY DEF S!HandleNotification, P!HandleNotification
<1> QED
  BY <1>1, <1>2, <1>3, <1>4, <1>5, <1>6, <1>7, <1>8

LEMMA SubscriptionInit == Init => P!IInv
<1>1. S!Init <=> P!Init
  BY DEF S!Init, P!Init, S!Places, P!Places
<1> QED
  BY <1>1, SizesHold, P!InitIInv DEF Init

(* A step of Subscription.  Of a changed value only this much is said,     *)
(* the bound of Change is not needed.                                      *)
SubscriptionMoves ==
    \/ \E list \in Seq(Variables \cup Folders) : P!Begin(list)
    \/ P!CreateSubscription \/ P!Monitor \/ P!SubscribeFails
    \/ \E s \in 1..subs : \E changed \in SUBSET P!Pending(s) : P!Publish(s, changed)
    \/ \E s \in 1..subs : P!PublishOther(s)
    \/ \E s \in 1..subs : P!Forward(s)
    \/ P!HandleNotification
    \/ /\ \E v \in Variables : version' = [version EXCEPT ![v] = @ + 1]
       /\ UNCHANGED <<nodes, subscribe, subs, items, reported, others, channel, merged, told>>

(* App lets nothing else touch the subscriptions, and the list that        *)
(* ResolveNodes made is one that Subscribe can take.                       *)
LEMMA StepOfSubscription ==
    ResolutionInv /\ [Next]_vars => SubscriptionMoves \/ UNCHANGED P!subscriptionVars
<1> SUFFICES ASSUME ResolutionInv, [Next]_vars
             PROVE  SubscriptionMoves \/ UNCHANGED P!subscriptionVars
  OBVIOUS
<1>1. CASE SubscribeNodes
  <2>1. P!Begin(resolved) /\ resolved \in Seq(Variables \cup Folders)
    BY <1>1, SameActions DEF SubscribeNodes, ResolutionInv, R!Nodes
  <2> QED
    BY <2>1 DEF SubscriptionMoves
<1>2. CASE Subscribing
  <2>1. P!CreateSubscription \/ P!Monitor \/ P!SubscribeFails
    BY <1>2, SameActions DEF Subscribing
  <2> QED
    BY <2>1 DEF SubscriptionMoves
<1>3. CASE Flow
  <2>1. CASE Report
    <3>1. \E s \in 1..subs : \E changed \in SUBSET P!Pending(s) : P!Publish(s, changed)
      BY <2>1, SameHelpers, SameActions DEF Report
    <3> QED
      BY <3>1 DEF SubscriptionMoves
  <2>2. CASE \E s \in 1..subs : S!Forward(s)
    BY <2>2, SameActions DEF SubscriptionMoves
  <2>3. CASE S!HandleNotification
    BY <2>3, SameActions DEF SubscriptionMoves
  <2> QED
    BY <1>3, <2>1, <2>2, <2>3 DEF Flow
<1>4. CASE Server
  <2>1. CASE \E s \in 1..subs : S!PublishOther(s)
    BY <2>1, SameActions DEF SubscriptionMoves
  <2>2. CASE \E p \in DOMAIN nodes : nodes[p] \in Variables /\ S!Change(nodes[p])
    <3>1. PICK v \in Variables : S!Change(v)
      BY <2>2
    <3>2. /\ version' = [version EXCEPT ![v] = @ + 1]
          /\ UNCHANGED <<nodes, subscribe, subs, items, reported, others, channel, merged, told>>
      BY <3>1, Zenon DEF S!Change
    <3> QED
      BY <3>2 DEF SubscriptionMoves
  <2> QED
    BY <1>4, <2>1, <2>2 DEF Server
<1>5. CASE UNCHANGED subscriptionVars
  BY <1>5 DEF subscriptionVars, P!subscriptionVars, P!serverVars
<1>6. LoadConfig \/ ConnectOpcua \/ ConnectOpcuaFails \/ ConnectNats \/ StartCollector
        => UNCHANGED subscriptionVars
  BY DEF LoadConfig, ConnectOpcua, ConnectOpcuaFails, ConnectNats, StartCollector
<1>7. ResolveNodes \/ SubscribeReturns \/ StartWriteback \/ TickerPanics \/ Shutdown \/ Nats
        \/ UNCHANGED vars
        => UNCHANGED subscriptionVars
  BY DEF ResolveNodes, SubscribeReturns, StartWriteback, TickerPanics, Shutdown, Nats, vars
<1> QED
  BY <1>1, <1>2, <1>3, <1>4, <1>5, <1>6, <1>7 DEF Next, Main

LEMMA SubscriptionStep == P!IInv /\ ResolutionInv /\ [Next]_vars => P!IInv'
<1> SUFFICES ASSUME P!IInv, SubscriptionMoves \/ UNCHANGED P!subscriptionVars PROVE P!IInv'
  BY StepOfSubscription
<1> USE SizesHold
<1>1. CASE UNCHANGED P!subscriptionVars
  BY <1>1, P!NextIInv
<1>2. CASE \E list \in Seq(Variables \cup Folders) : P!Begin(list)
  BY <1>2, P!BeginStep
<1>3. CASE P!CreateSubscription \/ P!Monitor \/ P!SubscribeFails
  BY <1>3, P!SubscribeStep
<1>4. CASE \E s \in 1..subs : \E changed \in SUBSET P!Pending(s) : P!Publish(s, changed)
  BY <1>4, P!PublishStep
<1>5. CASE \E s \in 1..subs : P!PublishOther(s) \/ P!Forward(s)
  BY <1>5, P!PublishOtherStep, P!ForwardStep
<1>6. CASE P!HandleNotification
  BY <1>6, P!HandleNotificationStep
<1>7. CASE /\ \E v \in Variables : version' = [version EXCEPT ![v] = @ + 1]
           /\ UNCHANGED <<nodes, subscribe, subs, items, reported, others, channel, merged, told>>
  BY <1>7, P!VersionStep
<1> QED
  BY <1>1, <1>2, <1>3, <1>4, <1>5, <1>6, <1>7 DEF SubscriptionMoves

LEMMA OrderStep ==
    P!IInv /\ P!OrderInv /\ ResolutionInv /\ [Next]_vars
        => P!OrderInv' /\ [P!StepsForward]_told
<1> SUFFICES ASSUME P!IInv, P!OrderInv, SubscriptionMoves \/ UNCHANGED P!subscriptionVars
             PROVE  P!OrderInv' /\ [P!StepsForward]_told
  BY StepOfSubscription
<1> USE SizesHold
<1>1. CASE UNCHANGED P!subscriptionVars
  BY <1>1, P!OrderStep
<1>2. CASE \E list \in Seq(Variables \cup Folders) : P!Begin(list)
  BY <1>2, P!BeginOrder DEF P!Begin
<1>3. CASE P!CreateSubscription \/ P!Monitor \/ P!SubscribeFails
  BY <1>3, P!OrderKept DEF P!CreateSubscription, P!Monitor, P!SubscribeFails, P!serverVars
<1>4. CASE \E s \in 1..subs : \E changed \in SUBSET P!Pending(s) : P!Publish(s, changed)
  BY <1>4, P!PublishOrder DEF P!Publish
<1>5. CASE \E s \in 1..subs : P!PublishOther(s) \/ P!Forward(s)
  BY <1>5, P!PublishOtherOrder, P!ForwardOrder DEF P!PublishOther, P!Forward
<1>6. CASE P!HandleNotification
  BY <1>6, P!HandleNotificationOrder, P!HandledForward
<1>7. CASE UNCHANGED <<nodes, subscribe, subs, items, reported, others, channel, merged, told>>
  BY <1>7, P!OrderKept
<1> QED
  BY <1>1, <1>2, <1>3, <1>4, <1>5, <1>6, <1>7 DEF SubscriptionMoves

-----------------------------------------------------------------------------
(* Types *)

MainInv ==
    /\ phase \in {"config", "opcua", "nats", "start", "resolve", "subscribe", "writeback",
                  "running", "stopped", "panicked", "fatal"}
    /\ capacity \in Int
    /\ session \in {"none", "stored", "open"} /\ writeback \in BOOLEAN

LEMMA MainStep == MainInv /\ ConfigInv /\ FlagInv /\ [Next]_vars => MainInv'
<1> SUFFICES ASSUME MainInv, ConfigInv, FlagInv, [Next]_vars PROVE MainInv'
  OBVIOUS
<1>1. settings["channel_buffer_size"] \in Int /\ connected \in BOOLEAN
  BY DEF ConfigInv, FlagInv, Settings, Keys
<1>2. CASE LoadConfig \/ ConnectOpcua \/ ConnectOpcuaFails \/ ConnectNats
  BY <1>2 DEF MainInv, LoadConfig, ConnectOpcua, ConnectOpcuaFails, ConnectNats
<1>3. CASE StartCollector \/ StartWriteback \/ TickerPanics \/ Shutdown
  BY <1>1, <1>3 DEF MainInv, StartCollector, StartWriteback, TickerPanics, Shutdown
<1>4. CASE SubscribeNodes \/ SubscribeReturns
  BY <1>4 DEF MainInv, SubscribeNodes, SubscribeReturns
<1>5. CASE ResolveNodes \/ Subscribing \/ Nats \/ Flow \/ Server \/ UNCHANGED vars
  BY <1>5 DEF MainInv, ResolveNodes, Subscribing, Nats, Flow, Server, vars, mainVars
<1> QED
  BY <1>2, <1>3, <1>4, <1>5 DEF Next, Main

-----------------------------------------------------------------------------
(* Theorems about every behavior of App *)

(* All variables keep their types.  In particular what ResolveNodes        *)
(* returns are nodes that parse, whatever is configured (client.go 327-331 *)
(* and 340-354), and no channel of Subscribe holds more than its capacity. *)
THEOREM TypeCorrect == Spec => []TypeOK
<1>1. Init => MainInv /\ ConfigInv /\ FlagInv /\ ResolutionInv /\ P!IInv
  <2>1. Init => MainInv
    <3>1. Init => phase = "config" /\ capacity = 0 /\ session = "none" /\ writeback = FALSE
      BY Zenon DEF Init
    <3>2. 0 \in Int
      OBVIOUS
    <3> QED
      BY <3>1, <3>2, Zenon DEF MainInv
  <2> QED
    BY <2>1, ConfigInit, FlagInit, ResolutionInit, SubscriptionInit
<1>2. MainInv /\ ConfigInv /\ FlagInv /\ ResolutionInv /\ P!IInv /\ [Next]_vars
        => MainInv' /\ ConfigInv' /\ FlagInv' /\ ResolutionInv' /\ P!IInv'
  BY MainStep, ConfigStep, FlagStep, ResolutionStep, SubscriptionStep
<1>3. MainInv /\ ConfigInv /\ FlagInv /\ ResolutionInv /\ P!IInv => TypeOK
  <2>1. P!IInv => S!TypeOK
    <3>1. P!IInv => P!TypeOK
      BY SizesHold, P!IInvTyped
    <3> QED
      BY <3>1, SameHelpers DEF S!TypeOK, P!TypeOK
  <2>2. FlagInv => N!TypeOK
    BY DEF FlagInv, N!TypeOK, Reports
  <2> QED
    BY <2>1, <2>2 DEF TypeOK, MainInv, ConfigInv, ResolutionInv
<1> QED
  BY <1>1, <1>2, <1>3, PTL DEF Spec

(* Whatever is configured and however startup and notifications            *)
(* interleave: a value is handed on under the id of its own node, and      *)
(* nothing as "unknown" (client.go 101-109, 126-147, 183, 222-226).        *)
THEOREM ValuesAttributed == Spec => []Attributed
<1>1. Init => ResolutionInv /\ P!IInv
  BY ResolutionInit, SubscriptionInit
<1>2. ResolutionInv /\ P!IInv /\ [Next]_vars => ResolutionInv' /\ P!IInv'
  BY ResolutionStep, SubscriptionStep
<1>3. P!IInv => Attributed
  <2>1. P!IInv => P!Attributed
    BY DEF P!IInv
  <2> QED
    BY <2>1 DEF Attributed, S!Attributed, P!Attributed
<1> QED
  BY <1>1, <1>2, <1>3, PTL DEF Spec

(* A node that is in the list once is never told an older value after a    *)
(* newer one, whatever else goes on during startup and afterwards          *)
(* (client.go 126-147, 183, 222-226).                                      *)
THEOREM NodesStepForward == Spec => NoStepBack
<1>1. Init => ResolutionInv /\ P!IInv /\ P!OrderInv
  <2>1. Init => P!Init
    BY DEF Init, S!Init, P!Init, S!Places, P!Places
  <2> QED
    BY <2>1, SizesHold, ResolutionInit, SubscriptionInit, P!InitOrder
<1>2. ResolutionInv /\ P!IInv /\ P!OrderInv /\ [Next]_vars
        => ResolutionInv' /\ P!IInv' /\ P!OrderInv' /\ [P!StepsForward]_told
  BY ResolutionStep, SubscriptionStep, OrderStep
<1>3. P!StepsForward <=>
        \A n \in Variables \cup Folders :
            S!Once(n) /\ told[n] # None => told'[n].ver >= told[n].ver
  BY DEF P!StepsForward, P!Once, S!Once, P!Places, S!Places, P!At, S!At
<1> QED
  BY <1>1, <1>2, <1>3, PTL DEF Spec, NoStepBack, S!NoStepBack
=============================================================================
