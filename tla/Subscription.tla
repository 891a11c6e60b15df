----------------------------- MODULE Subscription -----------------------------
(***************************************************************************)
(* Client.Subscribe of internal/opcua/client.go and the goroutines it      *)
(* leaves behind.                                                          *)
(*                                                                         *)
(*   server --channel[1]--> forwarder 1 --+                                *)
(*   server --channel[2]--> forwarder 2 --+--merged--> handleNotifications *)
(*                                                        --> collector    *)
(*                                                                         *)
(* The list of nodes is cut into pieces, each piece gets a subscription    *)
(* with a channel and a forwarder of its own, and one goroutine, which     *)
(* starts when all of them exist, turns handles back into nodes.           *)
(***************************************************************************)
EXTENDS Integers, Sequences, FiniteSets, Functions

CONSTANTS
    Nodes,           \* the ids that parse
    Variables,       \* the nodes that have a value to monitor
    Unknown,         \* "unknown"
    None,            \* no sample
    ItemsPerSub,     \* itemsPerSub
    SubChannelSize,  \* room in subCh, the forwarder's hand and the library
    MergedSize,      \* capacity of mergedCh
    MaxChanges,      \* bound: changes of all variables together
    MaxOthers        \* bound: notifications that carry no data

Samples == [of : Variables, ver : Nat]

VARIABLES
    nodes,       \* the argument of Subscribe
    subscribe,   \* what Subscribe is about to do
    subs,        \* subscriptions created so far
    items,       \* the places in nodes of the items the server monitors
    version,     \* the number of the value each variable has
    reported,    \* the number each item has last reported, -1 for none
    channel,     \* notifications of each subscription, oldest first
    merged,      \* mergedCh
    others,      \* notifications without data so far
    told         \* the last sample handed to the collector under each id

serverVars == <<items, version, reported, others>>
subscriptionVars == <<nodes, subscribe, subs, serverVars, channel, merged, told>>

(* Places in nodes, and handles, are counted from 0 as in the code.        *)
Places == 0..(Len(nodes) - 1)
At(p) == nodes[p + 1]

-----------------------------------------------------------------------------
(* Cutting the list *)

SubCountOfFull(list) == Len(list) \div ItemsPerSub    \* mutant: the rest is forgotten
SubCount(list) == (Len(list) + ItemsPerSub - 1) \div ItemsPerSub

(* The places of the items of subscription s.                              *)
PlacesOf(s) == {p \in Places : (s - 1) * ItemsPerSub <= p /\ p < s * ItemsPerSub}

HandleInSub(p) == p % ItemsPerSub    \* mutant: the index within the subscription
Handle(p) == p

-----------------------------------------------------------------------------
(* Subscribe *)

(* Every item is built before anything is sent: one bad id ends it all.    *)
Begin(list) ==
    /\ subscribe = "off"
    /\ nodes' = list
    /\ subscribe' = IF \E p \in DOMAIN list : list[p] \notin Nodes THEN "failed"
                    ELSE IF SubCount(list) = 0 THEN "started" ELSE "create"
    /\ reported' = [p \in 0..(Len(list) - 1) |-> -1]
    /\ channel' = [s \in 1..SubCount(list) |-> <<>>]
    /\ UNCHANGED <<subs, items, version, others, merged, told>>

(* The server opens a subscription; its forwarder starts.                  *)
CreateSubscription ==
    /\ subscribe = "create"
    /\ subs' = subs + 1
    /\ subscribe' = "monitor"
    /\ UNCHANGED <<nodes, serverVars, channel, merged, told>>

(* CreateMonitoredItems answers.  It refuses nodes without a value one by  *)
(* one, which nobody looks at.  After the last piece handleNotifications   *)
(* starts.                                                                 *)
Monitor ==
    /\ subscribe = "monitor"
    /\ items' = items \cup {p \in PlacesOf(subs) : At(p) \in Variables}
    /\ subscribe' = IF subs < SubCount(nodes) THEN "create" ELSE "started"
    /\ UNCHANGED <<nodes, subs, version, reported, others, channel, merged, told>>

SubscribeFails ==
    /\ subscribe \in {"create", "monitor"}
    /\ subscribe' = "failed"
    /\ UNCHANGED <<nodes, subs, serverVars, channel, merged, told>>

-----------------------------------------------------------------------------
(* The server *)

Change(v) ==
    /\ FoldFunction(+, 0, version) < MaxChanges
    /\ version' = [version EXCEPT ![v] = @ + 1]
    /\ UNCHANGED <<nodes, subscribe, subs, items, reported, others, channel, merged, told>>

HasRoom(s) == Len(channel[s]) < SubChannelSize

(* Items of subscription s that have something new, the first value also.  *)
Pending(s) == {p \in items \cap PlacesOf(s) : reported[p] < version[At(p)]}

Item(p) == [handle |-> Handle(p), value |-> [of |-> At(p), ver |-> version[At(p)]]]

Publish(s, changed) ==
    /\ HasRoom(s) /\ changed # {}
    /\ channel' = [channel EXCEPT ![s] = Append(@, {Item(p) : p \in changed})]
    /\ reported' = [p \in Places |-> IF p \in changed THEN version[At(p)] ELSE reported[p]]
    /\ UNCHANGED <<nodes, subscribe, subs, items, version, others, merged, told>>

(* A publish error, an empty notification, or one of another kind.         *)
PublishOther(s) ==
    /\ HasRoom(s) /\ others < MaxOthers
    /\ channel' = [channel EXCEPT ![s] = Append(@, {})]
    /\ others' = others + 1
    /\ UNCHANGED <<nodes, subscribe, subs, items, version, reported, merged, told>>

-----------------------------------------------------------------------------
(* The goroutines *)

NewestOf(s) == Len(channel[s])    \* mutant: a goroutine for each notification
NextOf(s) == 1

Forward(s) ==
    /\ channel[s] # <<>>
    /\ Len(merged) < MergedSize
    /\ merged' = Append(merged, channel[s][NextOf(s)])
    /\ channel' = [channel EXCEPT ![s] =
                      SubSeq(@, 1, NextOf(s) - 1) \o SubSeq(@, NextOf(s) + 1, Len(@))]
    /\ UNCHANGED <<nodes, subscribe, subs, serverVars, told>>

NodeID(item) == IF item.handle < Len(nodes) THEN At(item.handle) ELSE Unknown

(* One pass of handleNotifications, with the call of the handler.          *)
HandleNotification ==
    /\ subscribe = "started"
    /\ merged # <<>>
    /\ merged' = Tail(merged)
    /\ LET Of(id) == {item \in Head(merged) : NodeID(item) = id}
       IN  told' = [id \in DOMAIN told |->
                       IF Of(id) = {} THEN told[id] ELSE (CHOOSE item \in Of(id) : TRUE).value]
    /\ UNCHANGED <<nodes, subscribe, subs, serverVars, channel>>

-----------------------------------------------------------------------------
Init ==
    /\ nodes = <<>> /\ subscribe = "off" /\ subs = 0
    /\ items = {} /\ version = [v \in Variables |-> 0]
    /\ reported = [p \in Places |-> -1]
    /\ channel = <<>> /\ merged = <<>> /\ others = 0
    /\ told = [id \in Nodes \cup {Unknown} |-> None]

Subscribe ==
    \/ \E list \in Seq(Nodes) : Begin(list)
    \/ CreateSubscription \/ Monitor \/ SubscribeFails

Server ==
    \/ \E v \in Variables : Change(v)
    \/ \E s \in 1..subs :
          PublishOther(s) \/ \E changed \in SUBSET Pending(s) : Publish(s, changed)

Next == Subscribe \/ Server \/ (\E s \in 1..subs : Forward(s)) \/ HandleNotification

Spec == Init /\ [][Next]_subscriptionVars

-----------------------------------------------------------------------------
(* Properties *)

Items == [handle : Nat, value : Samples]

TypeOK ==
    /\ nodes \in Seq(Nodes)
    /\ subscribe \in {"off", "create", "monitor", "started", "failed"}
    /\ subs \in 0..SubCount(nodes)
    /\ items \subseteq {p \in Places : At(p) \in Variables}
    /\ version \in [Variables -> Nat]
    /\ reported \in [Places -> Nat \cup {-1}]
    /\ \A s \in DOMAIN channel :
          /\ channel[s] \in Seq(SUBSET Items)
          /\ Len(channel[s]) <= SubChannelSize
    /\ merged \in Seq(SUBSET Items) /\ Len(merged) <= MergedSize
    /\ others \in 0..MaxOthers
    /\ told \in [Nodes \cup {Unknown} -> Samples \cup {None}]

(* A value is handed on under the id of the node it belongs to, and under  *)
(* "unknown" never: the handles survive the cut into subscriptions         *)
(* (client.go 108, 115-131) and the way back (222-226).                    *)
Attributed ==
    /\ told[Unknown] = None
    /\ \A n \in Nodes : told[n] # None => told[n].of = n

(* A node that is in the list once never steps back: its notifications     *)
(* share one channel, one forwarder and one reader (client.go 126-145).    *)
Once(n) == \A p, q \in Places : At(p) = n /\ At(q) = n => p = q
NoStepBack ==
    [][\A n \in Nodes :
         Once(n) /\ told[n] # None => told'[n].ver >= told[n].ver]_told
=============================================================================
