-------------------------- MODULE SubscriptionProofs --------------------------
(***************************************************************************)
(* Theorems about Subscription: for every list of nodes, every size of the *)
(* pieces and the channels, and all bounds.                                *)
(*                                                                         *)
(* That values arrive under their own ids is inductive only if it is said  *)
(* of every notification that is under way: handles are bound to nodes at  *)
(* one end of the channels and looked up at the other.                     *)
(***************************************************************************)
EXTENDS Subscription, SequenceTheorems, TLAPS

Sizes ==
    /\ ItemsPerSub \in Nat \ {0} /\ SubChannelSize \in Nat \ {0} /\ MergedSize \in Nat \ {0}
    /\ MaxOthers \in Nat
    /\ Variables \subseteq Nodes /\ Unknown \notin Nodes
    /\ None \notin Samples

(* An item that carries a value of the node its handle stands for.         *)
Faithful == {item \in Items : item.handle \in Places /\ item.value.of = At(item.handle)}

Started == {"started", "failed"}

StateOK ==
    /\ nodes \in Seq(Nodes)
    /\ subscribe \in {"off", "create", "monitor", "started", "failed"}
    /\ subs \in Nat /\ subs <= SubCount(nodes)
    /\ subscribe = "create" => subs < SubCount(nodes)
    /\ subscribe = "off" => subs = 0 /\ merged = <<>> /\ nodes = <<>>
    /\ items \subseteq {p \in Places : At(p) \in Variables}
    /\ subscribe = "off" => items = {}
    /\ version \in [Variables -> Nat]
    /\ reported \in [Places -> Nat \cup {-1}]
    /\ others \in 0..MaxOthers
    /\ told \in [Nodes \cup {Unknown} -> Samples \cup {None}]

ChannelsOK ==
    /\ DOMAIN channel = 1..SubCount(nodes)
    /\ \A s \in 1..SubCount(nodes) :
          channel[s] \in Seq(SUBSET Faithful) /\ Len(channel[s]) <= SubChannelSize
    /\ merged \in Seq(SUBSET Faithful) /\ Len(merged) <= MergedSize

IInv == StateOK /\ ChannelsOK /\ Attributed

-----------------------------------------------------------------------------
(* Cutting the list *)

(* Division rounds down.                                                   *)
LEMMA Quotient ==
    ASSUME NEW a \in Nat, NEW b \in Nat \ {0}
    PROVE  a \div b \in Nat /\ (a \div b) * b <= a /\ a < (a \div b) * b + b
OBVIOUS

LEMMA SubCountType ==
    ASSUME Sizes, NEW list \in Seq(Nodes)
    PROVE  SubCount(list) \in Nat
<1>1. Len(list) + ItemsPerSub - 1 \in Nat
  BY LenProperties DEF Sizes
<1> QED
  BY <1>1, Quotient DEF SubCount, Sizes

(* A larger multiple of a positive number has a larger factor.             *)
LEMMA FactorsOrdered ==
    ASSUME NEW a \in Int, NEW b \in Int, NEW k \in Nat \ {0}, a * k < b * k
    PROVE  a < b
<1> SUFFICES ASSUME b <= a PROVE FALSE
  OBVIOUS
<1>1. PICK d \in Nat : a = b + d
  BY a - b \in Nat, a = b + (a - b)
<1>2. a * k = b * k + d * k
  BY <1>1
<1>3. d * k >= 0
  BY <1>1
<1> QED
  BY <1>2, <1>3

(* Each place is in exactly one of the subscriptions: the ceiling in       *)
(* client.go 114 and the cut at 127-131 forget nothing, the last, shorter  *)
(* piece included, and monitor nothing twice.                              *)
THEOREM PiecesPartition ==
    ASSUME Sizes, nodes \in Seq(Nodes), NEW p \in Places
    PROVE  \E s \in 1..SubCount(nodes) :
               \A t \in 1..SubCount(nodes) : p \in PlacesOf(t) <=> t = s
<1> DEFINE k == ItemsPerSub
           n == Len(nodes)
           q == p \div k
           c == SubCount(nodes)
<1>1. k \in Nat \ {0} /\ n \in Nat /\ p \in Nat /\ p < n
  BY LenProperties DEF Sizes, Places
<1>2. q \in Nat /\ q * k <= p /\ p < q * k + k
  BY <1>1, Quotient
<1>3. c \in Nat /\ n + k - 1 < c * k + k
  BY <1>1, Quotient DEF SubCount
<1> HIDE DEF k, n, q, c
<1>4. q + 1 \in 1..c
  <2>1. (q + 1) * k = q * k + k /\ (c + 1) * k = c * k + k
    BY <1>1, <1>2, <1>3
  <2>2. (q + 1) * k < (c + 1) * k
    BY <1>1, <1>2, <1>3, <2>1
  <2>3. q + 1 < c + 1
    BY <1>1, <1>2, <1>3, <2>2, FactorsOrdered
  <2> QED
    BY <1>2, <1>3, <2>3
<1>5. ASSUME NEW t \in 1..c
      PROVE  p \in PlacesOf(t) <=> t = q + 1
  <2>1. t \in Nat /\ (t - 1) * k = t * k - k /\ (q + 1) * k = q * k + k
    BY <1>1, <1>2, <1>3
  <2>2. p \in PlacesOf(t) <=> (t - 1) * k <= p /\ p < t * k
    BY DEF PlacesOf, k
  <2>3. t = q + 1 => p \in PlacesOf(t)
    BY <1>1, <1>2, <2>1, <2>2
  <2>4. ASSUME p \in PlacesOf(t)
        PROVE  t = q + 1
    <3>1. (t - 1) * k < (q + 1) * k /\ q * k < t * k
      BY <1>1, <1>2, <2>1, <2>2, <2>4
    <3>2. t - 1 < q + 1 /\ q < t
      BY <1>1, <1>2, <2>1, <3>1, FactorsOrdered
    <3> QED
      BY <1>2, <2>1, <3>2
  <2> QED
    BY <2>3, <2>4
<1> QED
  BY <1>4, <1>5 DEF c

-----------------------------------------------------------------------------
(* Lemmas about sequences *)

LEMMA HeadAndTail ==
    ASSUME NEW X, NEW seq \in Seq(X), seq # <<>>
    PROVE  /\ Head(seq) \in X /\ Tail(seq) \in Seq(X)
           /\ Len(Tail(seq)) = Len(seq) - 1 /\ Len(seq) \in Nat \ {0}
BY HeadTailProperties, EmptySeq, LenProperties

LEMMA OneMore ==
    ASSUME NEW X, NEW seq \in Seq(X), NEW e \in X
    PROVE  Append(seq, e) \in Seq(X) /\ Len(Append(seq, e)) = Len(seq) + 1 /\ Len(seq) \in Nat
BY AppendProperties, LenProperties

(* What a forwarder leaves in its channel when it has taken the oldest.    *)
LEMMA WithoutFirst ==
    ASSUME NEW X, NEW seq \in Seq(X), seq # <<>>
    PROVE  /\ seq[1] \in X
           /\ SubSeq(seq, 1, 0) \o SubSeq(seq, 2, Len(seq)) \in Seq(X)
           /\ Len(SubSeq(seq, 1, 0) \o SubSeq(seq, 2, Len(seq))) = Len(seq) - 1
           /\ \A i \in 1..(Len(seq) - 1) :
                 (SubSeq(seq, 1, 0) \o SubSeq(seq, 2, Len(seq)))[i] = seq[i + 1]
<1>1. Len(seq) \in Nat \ {0} /\ seq[1] \in X
  BY HeadTailProperties, EmptySeq, LenProperties, ElementOfSeq
<1>2. SubSeq(seq, 1, 0) \in Seq(X) /\ Len(SubSeq(seq, 1, 0)) = 0
  BY <1>1, SubSeqProperties
<1>3. /\ SubSeq(seq, 2, Len(seq)) \in Seq(X) /\ Len(SubSeq(seq, 2, Len(seq))) = Len(seq) - 1
      /\ \A i \in 1..(Len(seq) - 1) : SubSeq(seq, 2, Len(seq))[i] = seq[i + 1]
  <2> DEFINE rest == SubSeq(seq, 2, Len(seq))
             n == Len(seq)
  <2>1. \A i \in 2..Len(seq) : seq[i] \in X
    BY <1>1, ElementOfSeq
  <2>2. n \in Nat \ {0}
    BY <1>1
  <2>3. /\ rest \in Seq(X) /\ Len(rest) = IF 2 <= n THEN n - 2 + 1 ELSE 0
        /\ \A i \in 1..(n - 2 + 1) : rest[i] = seq[2 + i - 1]
    <3>1. 2 \in Int /\ Len(seq) \in Int
      BY <1>1
    <3> QED
      BY <2>1, <3>1, SubSeqProperties
  <2> HIDE DEF rest, n
  <2>4. rest \in Seq(X) /\ Len(rest) = n - 1
    BY <2>2, <2>3
  <2>5. \A i \in 1..(n - 1) : rest[i] = seq[i + 1]
    BY <2>2, <2>3
  <2> QED
    BY <2>4, <2>5 DEF rest, n
<1> QED
  BY <1>1, <1>2, <1>3, ConcatProperties

-----------------------------------------------------------------------------
(* The steps *)

LEMMA InitIInv == ASSUME Sizes PROVE Init => IInv
<1> SUFFICES ASSUME Init PROVE IInv
  OBVIOUS
<1>1. nodes \in Seq(Nodes) /\ Len(nodes) = 0 /\ merged = <<>> /\ channel = <<>>
  BY EmptySeq DEF Init
<1>2. SubCount(nodes) = 0
  <2>1. SubCount(nodes) = (ItemsPerSub - 1) \div ItemsPerSub
    BY <1>1 DEF SubCount, Sizes
  <2>2. ItemsPerSub - 1 \in Nat /\ ItemsPerSub \in Nat \ {0}
    BY DEF Sizes
  <2>3. (ItemsPerSub - 1) \div ItemsPerSub \in Nat
        /\ ((ItemsPerSub - 1) \div ItemsPerSub) * ItemsPerSub < 1 * ItemsPerSub
    BY <2>2, Quotient
  <2> QED
    BY <2>1, <2>2, <2>3, FactorsOrdered
<1>3. Places = {}
  BY <1>1 DEF Places
<1>4. StateOK
  BY <1>1, <1>2, <1>3 DEF Init, StateOK, Sizes
<1>5. ChannelsOK
  BY <1>1, <1>2, EmptySeq DEF ChannelsOK, Sizes
<1>6. Attributed
  BY DEF Init, Attributed
<1> QED
  BY <1>4, <1>5, <1>6 DEF IInv

(* Nothing is under way yet when Subscribe begins.                         *)
LEMMA BeginStep ==
    ASSUME Sizes, IInv, NEW list \in Seq(Nodes), Begin(list)
    PROVE  IInv'
<1>1. /\ subs = 0 /\ merged = <<>> /\ items = {}
      /\ nodes' = list /\ UNCHANGED <<subs, items, version, others, merged, told>>
      /\ reported' = [p \in 0..(Len(list) - 1) |-> -1]
      /\ channel' = [s \in 1..SubCount(list) |-> <<>>]
  BY DEF Begin, IInv, StateOK
<1>2. SubCount(nodes') \in Nat
  BY <1>1, SubCountType
<1>3. subscribe' \in {"failed", "started", "create"} /\ (subscribe' = "create" => SubCount(nodes') # 0)
  BY <1>1 DEF Begin
<1>4. StateOK'
  BY <1>1, <1>2, <1>3 DEF IInv, StateOK, Places
<1>5. ChannelsOK'
  BY <1>1, EmptySeq DEF ChannelsOK, SubCount, Sizes
<1> QED
  BY <1>1, <1>4, <1>5 DEF IInv, Attributed

LEMMA SubscribeStep ==
    ASSUME Sizes, IInv, CreateSubscription \/ Monitor \/ SubscribeFails
    PROVE  IInv'
<1>1. UNCHANGED <<nodes, version, reported, others, channel, merged, told>>
  BY DEF CreateSubscription, Monitor, SubscribeFails, serverVars
<1>2. SubCount(nodes) \in Nat
  BY SubCountType DEF IInv, StateOK
<1>3. StateOK'
  <2>1. /\ Places' = Places /\ SubCount(nodes)' = SubCount(nodes) /\ subscribe # "off"
        /\ \A p \in Places : At(p)' = At(p)
    BY <1>1 DEF Places, SubCount, At, CreateSubscription, Monitor, SubscribeFails
  <2>2. CASE CreateSubscription
    BY <1>1, <1>2, <2>1, <2>2 DEF CreateSubscription, serverVars, IInv, StateOK
  <2>3. CASE Monitor
    <3>1. subs' = subs /\ items' \subseteq {p \in Places : At(p) \in Variables}
      BY <2>3 DEF Monitor, IInv, StateOK, PlacesOf
    <3>2. /\ subscribe' \in {"create", "started"}
          /\ subscribe' = "create" => subs < SubCount(nodes)
      BY <2>3 DEF Monitor
    <3> QED
      BY <1>1, <1>2, <2>1, <3>1, <3>2 DEF IInv, StateOK
  <2>4. CASE SubscribeFails
    BY <1>1, <1>2, <2>1, <2>4 DEF SubscribeFails, serverVars, IInv, StateOK
  <2> QED
    BY <2>2, <2>3, <2>4
<1>4. ChannelsOK' /\ Attributed'
  BY <1>1 DEF IInv, ChannelsOK, Attributed, SubCount, Faithful, Places, At
<1> QED
  BY <1>3, <1>4 DEF IInv

LEMMA VersionStep ==
    ASSUME Sizes, IInv, NEW v \in Variables, version' = [version EXCEPT ![v] = @ + 1],
           UNCHANGED <<nodes, subscribe, subs, items, reported, others, channel, merged, told>>
    PROVE  IInv'
<1>1. /\ UNCHANGED <<nodes, subscribe, subs, items, reported, others, channel, merged, told>>
      /\ version' = [version EXCEPT ![v] = @ + 1]
  OBVIOUS
<1>2. version' \in [Variables -> Nat]
  BY <1>1 DEF IInv, StateOK
<1>3. StateOK'
  BY <1>1, <1>2 DEF IInv, StateOK, Places, At, SubCount
<1>4. ChannelsOK' /\ Attributed'
  BY <1>1 DEF IInv, ChannelsOK, Attributed, SubCount, Faithful, Places, At
<1> QED
  BY <1>3, <1>4 DEF IInv

LEMMA ChangeStep ==
    ASSUME Sizes, IInv, NEW v \in Variables, Change(v)
    PROVE  IInv'
<1>1. /\ UNCHANGED <<nodes, subscribe, subs, items, reported, others, channel, merged, told>>
      /\ version' = [version EXCEPT ![v] = @ + 1]
  BY Zenon DEF Change
<1> QED
  BY <1>1, VersionStep

(* The handle that the server sends back is the place in the whole list.   *)
LEMMA ItemFaithful ==
    ASSUME Sizes, IInv, NEW p \in items
    PROVE  Item(p) \in Faithful
<1>1. p \in Places /\ At(p) \in Variables /\ version[At(p)] \in Nat
  BY DEF IInv, StateOK
<1>2. p \in Nat
  BY <1>1 DEF Places
<1> QED
  BY <1>1, <1>2 DEF Item, Handle, Faithful, Items, Samples

(* A notification with faithful items is queued.                           *)
LEMMA QueueStep ==
    ASSUME Sizes, IInv, NEW s \in 1..subs, HasRoom(s), NEW notification \in SUBSET Faithful,
           UNCHANGED <<nodes, merged, told>>,
           channel' = [channel EXCEPT ![s] = Append(@, notification)]
    PROVE  ChannelsOK' /\ Attributed'
<1>1. s \in 1..SubCount(nodes) /\ SubCount(nodes) \in Nat
  BY SubCountType DEF IInv, StateOK
<1>2. /\ channel[s] \in Seq(SUBSET Faithful) /\ Len(channel[s]) < SubChannelSize
      /\ Faithful' = Faithful /\ SubCount(nodes)' = SubCount(nodes)
  BY <1>1 DEF IInv, ChannelsOK, HasRoom, Faithful, Places, At, SubCount
<1>3. Append(channel[s], notification) \in Seq(SUBSET Faithful)
      /\ Len(Append(channel[s], notification)) <= SubChannelSize
  BY <1>2, OneMore DEF Sizes
<1>4. DOMAIN channel' = 1..SubCount(nodes)
      /\ \A t \in 1..SubCount(nodes) :
            channel'[t] = IF t = s THEN Append(channel[s], notification) ELSE channel[t]
  BY <1>1 DEF IInv, ChannelsOK
<1>5. ChannelsOK'
  BY <1>2, <1>3, <1>4 DEF IInv, ChannelsOK
<1> QED
  BY <1>5 DEF IInv, Attributed

LEMMA PublishStep ==
    ASSUME Sizes, IInv, NEW s \in 1..subs, NEW changed \in SUBSET Pending(s), Publish(s, changed)
    PROVE  IInv'
<1>1. /\ UNCHANGED <<nodes, subscribe, subs, items, version, others, merged, told>>
      /\ HasRoom(s)
      /\ channel' = [channel EXCEPT ![s] = Append(@, {Item(p) : p \in changed})]
      /\ reported' = [p \in Places |-> IF p \in changed THEN version[At(p)] ELSE reported[p]]
  BY DEF Publish
<1>2. changed \subseteq items
  BY DEF Pending
<1>3. {Item(p) : p \in changed} \in SUBSET Faithful
  BY <1>2, ItemFaithful
<1>4. ChannelsOK' /\ Attributed'
  BY <1>1, <1>3, QueueStep
<1>5. reported' \in [Places -> Nat \cup {-1}]
  BY <1>1, <1>2 DEF IInv, StateOK
<1>6. StateOK'
  BY <1>1, <1>5 DEF IInv, StateOK, Places, At, SubCount
<1> QED
  BY <1>4, <1>6 DEF IInv

LEMMA PublishOtherStep ==
    ASSUME Sizes, IInv, NEW s \in 1..subs, PublishOther(s)
    PROVE  IInv'
<1>1. /\ UNCHANGED <<nodes, subscribe, subs, items, version, reported, merged, told>>
      /\ HasRoom(s) /\ others' = others + 1 /\ others < MaxOthers
      /\ channel' = [channel EXCEPT ![s] = Append(@, {})]
  BY DEF PublishOther
<1>2. {} \in SUBSET Faithful
  OBVIOUS
<1>3. ChannelsOK' /\ Attributed'
  BY <1>1, <1>2, QueueStep
<1>4. StateOK'
  BY <1>1 DEF IInv, StateOK, Places, At, SubCount, Sizes
<1> QED
  BY <1>3, <1>4 DEF IInv

(* The forwarder moves a notification and leaves it as it is.              *)
LEMMA ForwardStep ==
    ASSUME Sizes, IInv, NEW s \in 1..subs, Forward(s)
    PROVE  IInv'
<1>1. s \in 1..SubCount(nodes) /\ SubCount(nodes) \in Nat
  BY SubCountType DEF IInv, StateOK
<1> DEFINE rest == SubSeq(channel[s], 1, 0) \o SubSeq(channel[s], 2, Len(channel[s]))
<1>2. /\ UNCHANGED <<nodes, subscribe, subs, items, version, reported, others, told>>
      /\ channel[s] # <<>> /\ Len(merged) < MergedSize
      /\ merged' = Append(merged, channel[s][1])
      /\ channel' = [channel EXCEPT ![s] = rest]
  BY <1>1 DEF Forward, NextOf, serverVars, IInv, ChannelsOK
<1>3. channel[s] \in Seq(SUBSET Faithful) /\ Len(channel[s]) <= SubChannelSize
  BY <1>1 DEF IInv, ChannelsOK
<1>4. /\ channel[s][1] \in SUBSET Faithful
      /\ rest \in Seq(SUBSET Faithful) /\ Len(rest) = Len(channel[s]) - 1
      /\ Len(channel[s]) \in Nat
  BY <1>2, <1>3, WithoutFirst, LenProperties
<1>5. merged' \in Seq(SUBSET Faithful) /\ Len(merged') <= MergedSize
  BY <1>2, <1>4, OneMore DEF IInv, ChannelsOK, Sizes
<1> HIDE DEF rest
<1>6. Faithful' = Faithful /\ SubCount(nodes)' = SubCount(nodes)
  BY <1>2 DEF Faithful, Places, At, SubCount
<1>7. ChannelsOK'
  BY <1>1, <1>2, <1>3, <1>4, <1>5, <1>6 DEF IInv, ChannelsOK, Sizes
<1>8. StateOK' /\ Attributed'
  <2>1. subscribe # "off"
    BY <1>1 DEF IInv, StateOK
  <2> QED
    BY <1>2, <2>1 DEF IInv, StateOK, Attributed, Places, At, SubCount
<1> QED
  BY <1>7, <1>8 DEF IInv

(* A handle that is in range, as all are, is looked up as its own node.    *)
LEMMA NodeIDFaithful ==
    ASSUME Sizes, IInv, NEW item \in Faithful
    PROVE  NodeID(item) = item.value.of /\ item.value \in Samples /\ NodeID(item) \in Nodes
<1>1. item.handle \in Places /\ item.value.of = At(item.handle) /\ item.value \in Samples
  BY DEF Faithful, Items
<1>2. item.handle < Len(nodes)
  BY <1>1, LenProperties DEF Places, IInv, StateOK
<1>3. NodeID(item) = item.value.of
  BY <1>1, <1>2 DEF NodeID
<1> QED
  BY <1>1, <1>3 DEF Samples, Sizes

LEMMA HandleNotificationStep ==
    ASSUME Sizes, IInv, HandleNotification
    PROVE  IInv'
<1> DEFINE Of(id) == {item \in Head(merged) : NodeID(item) = id}
<1>1. /\ merged # <<>> /\ merged' = Tail(merged) /\ subscribe = "started"
      /\ UNCHANGED <<nodes, subscribe, subs, items, version, reported, others, channel>>
      /\ told' = [id \in DOMAIN told |->
                     IF Of(id) = {} THEN told[id] ELSE (CHOOSE item \in Of(id) : TRUE).value]
  BY DEF HandleNotification, serverVars
<1>2. /\ Head(merged) \in SUBSET Faithful /\ Tail(merged) \in Seq(SUBSET Faithful)
      /\ Len(Tail(merged)) <= MergedSize
  BY <1>1, HeadAndTail DEF IInv, ChannelsOK, Sizes
<1>3. ASSUME NEW id \in Nodes \cup {Unknown}, Of(id) # {}
      PROVE  told'[id] \in Samples /\ told'[id].of = id /\ id \in Nodes
  <2>1. PICK item \in Of(id) : told'[id] = item.value
    BY <1>1, <1>3 DEF IInv, StateOK
  <2>2. item \in Faithful /\ NodeID(item) = id
    BY <1>2, <2>1
  <2> QED
    BY <2>1, <2>2, NodeIDFaithful
<1>4. ASSUME NEW id \in Nodes \cup {Unknown}, Of(id) = {}
      PROVE  told'[id] = told[id]
  BY <1>1, <1>4 DEF IInv, StateOK
<1>5. DOMAIN told' = Nodes \cup {Unknown} /\ told' = [id \in DOMAIN told' |-> told'[id]]
  BY <1>1 DEF IInv, StateOK
<1> HIDE DEF Of
<1>6. told' \in [Nodes \cup {Unknown} -> Samples \cup {None}]
  BY <1>3, <1>4, <1>5 DEF IInv, StateOK
<1>7. Attributed'
  BY <1>3, <1>4 DEF IInv, StateOK, Attributed, Sizes
<1>8. StateOK'
  BY <1>1, <1>6 DEF IInv, StateOK, Places, At, SubCount
<1>9. ChannelsOK'
  BY <1>1, <1>2 DEF IInv, ChannelsOK, Faithful, Places, At, SubCount
<1> QED
  BY <1>7, <1>8, <1>9 DEF IInv

LEMMA NextIInv == ASSUME Sizes PROVE IInv /\ [Next]_subscriptionVars => IInv'
<1> SUFFICES ASSUME IInv, [Next]_subscriptionVars PROVE IInv'
  OBVIOUS
<1>1. CASE Subscribe
  BY <1>1, BeginStep, SubscribeStep DEF Subscribe
<1>2. CASE Server
  BY <1>2, ChangeStep, PublishStep, PublishOtherStep DEF Server
<1>3. CASE \E s \in 1..subs : Forward(s)
  BY <1>3, ForwardStep
<1>4. CASE HandleNotification
  BY <1>4, HandleNotificationStep
<1>5. CASE UNCHANGED subscriptionVars
  BY <1>5 DEF subscriptionVars, serverVars, IInv, StateOK, ChannelsOK, Attributed, Faithful,
              Places, At, SubCount
<1> QED
  BY <1>1, <1>2, <1>3, <1>4, <1>5 DEF Next

(* However the list is cut and however the notifications interleave: a     *)
(* value is handed on under the id of its own node, and nothing as         *)
(* "unknown" (client.go 101-109, 126-147, 183, 222-226).                   *)
THEOREM EveryValueAttributed == ASSUME Sizes PROVE Spec => []Attributed
<1>1. Init => IInv
  BY InitIInv
<1>2. IInv /\ [Next]_subscriptionVars => IInv'
  BY NextIInv
<1>3. IInv => Attributed
  BY DEF IInv
<1> QED
  BY <1>1, <1>2, <1>3, PTL DEF Spec

LEMMA IInvTyped == ASSUME Sizes PROVE IInv => TypeOK
<1> SUFFICES ASSUME IInv PROVE TypeOK
  OBVIOUS
<1>1. SubCount(nodes) \in Nat /\ subs \in 0..SubCount(nodes)
  BY SubCountType DEF IInv, StateOK
<1>2. SUBSET Faithful \subseteq SUBSET Items
  BY DEF Faithful
<1>3. Seq(SUBSET Faithful) \subseteq Seq(SUBSET Items)
  BY <1>2
<1> QED
  BY <1>1, <1>3 DEF IInv, StateOK, ChannelsOK, TypeOK

(* All variables keep their types, and no channel holds more than its      *)
(* capacity (client.go 118, 134).                                          *)
THEOREM SubscriptionTypeCorrect == ASSUME Sizes PROVE Spec => []TypeOK
<1>1. Init => IInv
  BY InitIInv
<1>2. IInv /\ [Next]_subscriptionVars => IInv'
  BY NextIInv
<1>3. IInv => TypeOK
  BY IInvTyped
<1> QED
  BY <1>1, <1>2, <1>3, PTL DEF Spec

-----------------------------------------------------------------------------
(* Order *)

(* Of two items with one handle the first is not the newer one.            *)
Older(a, b) == a.handle = b.handle => a.value.ver <= b.value.ver

(* The items of all notifications in a queue.                              *)
Queued(queue) == UNION {queue[i] : i \in 1..Len(queue)}

InOrder(queue) ==
    \A i, j \in 1..Len(queue) : i < j => \A a \in queue[i], b \in queue[j] : Older(a, b)

Flowing == Queued(merged) \cup UNION {Queued(channel[s]) : s \in 1..SubCount(nodes)}

(* What has been told of a place is older than all that is still to come   *)
(* for it, and no newer than what the server has reported.                 *)
ToldFirst(p) ==
    Once(At(p)) /\ told[At(p)] # None =>
        /\ told[At(p)].ver <= reported[p]
        /\ \A item \in Flowing : item.handle = p => told[At(p)].ver <= item.value.ver

(* From the server to the collector each item only gets older: a handle    *)
(* has one channel, what is merged has left that channel before the rest,  *)
(* and what is told has left mergedCh before the rest.                     *)
OrderInv ==
    /\ subscribe = "off" => \A id \in Nodes : told[id] = None
    /\ InOrder(merged)
    /\ \A s \in 1..SubCount(nodes) :
          /\ InOrder(channel[s])
          /\ \A item \in Queued(channel[s]) : item.handle \in PlacesOf(s)
          /\ \A a \in Queued(merged), b \in Queued(channel[s]) : Older(a, b)
    /\ \A item \in Flowing : item.value.ver <= reported[item.handle]
    /\ \A p \in Places : ToldFirst(p)

LEMMA QueuedAppended ==
    ASSUME NEW X, NEW queue \in Seq(SUBSET X), NEW new \in SUBSET X
    PROVE  /\ Queued(Append(queue, new)) = Queued(queue) \cup new
           /\ InOrder(queue) /\ (\A a \in Queued(queue), b \in new : Older(a, b))
                 => InOrder(Append(queue, new))
<1> DEFINE n == Len(queue)
           longer == Append(queue, new)
<1>1. /\ n \in Nat /\ Len(longer) = n + 1 /\ longer[n + 1] = new
      /\ \A i \in 1..n : longer[i] = queue[i]
  BY AppendProperties, LenProperties
<1> HIDE DEF longer
<1>2. Queued(longer) = Queued(queue) \cup new
  <2>1. 1..(n + 1) = 1..n \cup {n + 1}
    BY <1>1
  <2> QED
    BY <1>1, <2>1 DEF Queued
<1>3. ASSUME InOrder(queue), \A a \in Queued(queue), b \in new : Older(a, b)
      PROVE  InOrder(longer)
  <2> SUFFICES ASSUME NEW i \in 1..(n + 1), NEW j \in 1..(n + 1), i < j,
                      NEW a \in longer[i], NEW b \in longer[j]
               PROVE  Older(a, b)
    BY <1>1 DEF InOrder
  <2>1. i \in 1..n /\ longer[i] = queue[i]
    BY <1>1
  <2>2. CASE j \in 1..n
    <3>1. longer[j] = queue[j]
      BY <1>1, <2>2
    <3> QED
      BY <1>3, <2>1, <2>2, <3>1 DEF InOrder
  <2>3. CASE j = n + 1
    <3>1. a \in Queued(queue) /\ b \in new
      BY <1>1, <2>1, <2>3 DEF Queued
    <3> QED
      BY <1>3, <3>1
  <2> QED
    BY <1>1, <2>2, <2>3
<1> QED
  BY <1>2, <1>3 DEF longer

(* A queue and what is left of it when the oldest is taken.                *)
LEMMA QueuedRest ==
    ASSUME NEW X, NEW queue \in Seq(SUBSET X), queue # <<>>,
           NEW rest, Len(rest) = Len(queue) - 1,
           \A i \in 1..(Len(queue) - 1) : rest[i] = queue[i + 1]
    PROVE  /\ Queued(queue) = queue[1] \cup Queued(rest)
           /\ InOrder(queue) => /\ InOrder(rest)
                                /\ \A a \in queue[1], b \in Queued(rest) : Older(a, b)
<1> DEFINE n == Len(queue) - 1
<1>1. n \in Nat /\ Len(queue) = n + 1 /\ Len(rest) = n
  BY EmptySeq, LenProperties
<1> HIDE DEF n
<1>2. \A i \in 1..n : rest[i] = queue[i + 1]
  BY DEF n
<1>3. Queued(queue) = queue[1] \cup Queued(rest)
  <2>1. ASSUME NEW item \in Queued(queue)
        PROVE  item \in queue[1] \cup Queued(rest)
    <3>1. PICK i \in 1..(n + 1) : item \in queue[i]
      BY <1>1 DEF Queued
    <3>2. CASE i = 1
      BY <3>1, <3>2
    <3>3. CASE i # 1
      <4>1. i - 1 \in 1..n /\ rest[i - 1] = queue[(i - 1) + 1] /\ (i - 1) + 1 = i
        BY <1>1, <1>2, <3>3
      <4> QED
        BY <1>1, <3>1, <4>1 DEF Queued
    <3> QED
      BY <3>2, <3>3
  <2>2. queue[1] \subseteq Queued(queue)
    BY <1>1 DEF Queued
  <2>3. ASSUME NEW item \in Queued(rest)
        PROVE  item \in Queued(queue)
    <3>1. PICK i \in 1..n : item \in rest[i]
      BY <1>1 DEF Queued
    <3>2. i + 1 \in 1..(n + 1) /\ item \in queue[i + 1]
      BY <1>1, <1>2, <3>1
    <3> QED
      BY <1>1, <3>2 DEF Queued
  <2> QED
    BY <2>1, <2>2, <2>3
<1>4. ASSUME InOrder(queue)
      PROVE  InOrder(rest) /\ \A a \in queue[1], b \in Queued(rest) : Older(a, b)
  <2>1. ASSUME NEW i \in 1..n, NEW j \in 1..n, i < j, NEW a \in rest[i], NEW b \in rest[j]
        PROVE  Older(a, b)
    <3>1. /\ i + 1 \in 1..Len(queue) /\ j + 1 \in 1..Len(queue) /\ i + 1 < j + 1
          /\ a \in queue[i + 1] /\ b \in queue[j + 1]
      BY <1>1, <1>2, <2>1
    <3> QED
      BY <1>4, <3>1 DEF InOrder
  <2>2. ASSUME NEW a \in queue[1], NEW b \in Queued(rest)
        PROVE  Older(a, b)
    <3>1. PICK j \in 1..n : b \in rest[j]
      BY <1>1 DEF Queued
    <3>2. 1 \in 1..Len(queue) /\ j + 1 \in 1..Len(queue) /\ 1 < j + 1 /\ b \in queue[j + 1]
      BY <1>1, <1>2, <3>1
    <3> QED
      BY <1>4, <3>2 DEF InOrder
  <2> QED
    BY <1>1, <2>1, <2>2 DEF InOrder
<1> QED
  BY <1>3, <1>4

(* Everything under way is an item of a place.                             *)
LEMMA FlowingTyped ==
    ASSUME Sizes, IInv, NEW item \in Flowing
    PROVE  /\ item \in Faithful /\ item.handle \in Places /\ item.value.ver \in Nat
           /\ reported[item.handle] \in Int
<1>1. item \in Faithful
  <2>1. CASE item \in Queued(merged)
    <3>1. PICK i \in 1..Len(merged) : item \in merged[i]
      BY <2>1 DEF Queued
    <3>2. merged[i] \in SUBSET Faithful
      BY <3>1, ElementOfSeq DEF IInv, ChannelsOK
    <3> QED
      BY <3>1, <3>2
  <2>2. CASE \E s \in 1..SubCount(nodes) : item \in Queued(channel[s])
    <3>1. PICK s \in 1..SubCount(nodes) : item \in Queued(channel[s])
      BY <2>2
    <3>2. PICK i \in 1..Len(channel[s]) : item \in channel[s][i]
      BY <3>1 DEF Queued
    <3>3. channel[s][i] \in SUBSET Faithful
      BY <3>2, ElementOfSeq DEF IInv, ChannelsOK
    <3> QED
      BY <3>2, <3>3
  <2> QED
    BY <2>1, <2>2 DEF Flowing
<1> QED
  BY <1>1 DEF Faithful, Items, Samples, IInv, StateOK

(* A sample that was told has a number.                                    *)
LEMMA ToldTyped ==
    ASSUME Sizes, IInv, NEW n \in Nodes, told[n] # None
    PROVE  told[n] \in Samples /\ told[n].ver \in Nat
BY DEF IInv, StateOK, Samples

LEMMA PlaceTyped ==
    ASSUME Sizes, IInv, NEW p \in Places
    PROVE  At(p) \in Nodes /\ reported[p] \in Int
<1>1. p + 1 \in 1..Len(nodes)
  BY LenProperties DEF Places, IInv, StateOK
<1> QED
  BY <1>1, ElementOfSeq DEF At, IInv, StateOK

LEMMA InitOrder == ASSUME Sizes, Init, IInv PROVE OrderInv
<1>1. merged = <<>> /\ Len(merged) = 0 /\ Places = {} /\ 1..SubCount(nodes) = {}
  <2>1. nodes = <<>> /\ merged = <<>> /\ channel = <<>>
    BY DEF Init
  <2>2. Len(nodes) = 0 /\ Len(merged) = 0 /\ DOMAIN channel = {}
    BY <2>1
  <2> QED
    BY <2>1, <2>2 DEF Places, IInv, ChannelsOK
<1>2. Queued(merged) = {} /\ InOrder(merged)
  BY <1>1 DEF Queued, InOrder
<1>3. \A id \in Nodes : told[id] = None
  BY DEF Init
<1> QED
  BY <1>1, <1>2, <1>3 DEF OrderInv, Flowing

(* The steps that touch neither queues nor what was told.                  *)
LEMMA OrderKept ==
    ASSUME OrderInv, UNCHANGED <<nodes, reported, channel, merged, told>>,
           subscribe' = "off" => subscribe = "off"
    PROVE  OrderInv'
<1>1. /\ SubCount(nodes)' = SubCount(nodes) /\ Places' = Places
      /\ \A p : At(p)' = At(p) /\ Once(At(p))' = Once(At(p))
      /\ \A s : PlacesOf(s)' = PlacesOf(s)
  BY DEF SubCount, Places, At, PlacesOf, Once
<1>2. /\ Queued(merged)' = Queued(merged) /\ InOrder(merged)' = InOrder(merged)
      /\ \A s : Queued(channel[s])' = Queued(channel[s])
      /\ \A s : InOrder(channel[s])' = InOrder(channel[s])
  BY DEF Queued, InOrder
<1>3. Flowing' = Flowing
  BY <1>1, <1>2 DEF Flowing
<1>4. \A p \in Places : ToldFirst(p)' = ToldFirst(p)
  BY <1>1, <1>3 DEF ToldFirst
<1> QED
  BY <1>1, <1>2, <1>3, <1>4 DEF OrderInv

LEMMA BeginOrder ==
    ASSUME Sizes, IInv, OrderInv, NEW list \in Seq(Nodes), Begin(list)
    PROVE  OrderInv'
<1>1. /\ merged' = <<>> /\ told' = told /\ \A id \in Nodes : told[id] = None
      /\ nodes' = list /\ channel' = [s \in 1..SubCount(list) |-> <<>>]
  BY DEF Begin, IInv, StateOK, OrderInv
<1>2. SubCount(nodes)' = SubCount(list) /\ Len(<<>>) = 0
  BY <1>1 DEF SubCount
<1>3. Queued(merged)' = {} /\ InOrder(merged)'
  BY <1>1, <1>2 DEF Queued, InOrder
<1>4. \A s \in 1..SubCount(list) : Queued(channel[s])' = {} /\ InOrder(channel[s])'
  BY <1>1, <1>2 DEF Queued, InOrder
<1>5. Flowing' = {}
  BY <1>2, <1>3, <1>4 DEF Flowing
<1>6. ASSUME NEW p \in Places'
      PROVE  ToldFirst(p)'
  <2>1. p + 1 \in 1..Len(list) /\ At(p)' = list[p + 1]
    BY <1>1, <1>6, LenProperties DEF Places, At
  <2>2. At(p)' \in Nodes
    BY <2>1, ElementOfSeq
  <2>3. (told[At(p)])' = None
    BY <1>1, <2>2
  <2> QED
    BY <2>3 DEF ToldFirst
<1> QED
  BY <1>1, <1>2, <1>3, <1>4, <1>5, <1>6 DEF OrderInv

(* What a server queues is newer than all it has reported before.          *)
LEMMA QueueOrder ==
    ASSUME Sizes, IInv, OrderInv, NEW s \in 1..subs, NEW new \in SUBSET Faithful,
           UNCHANGED <<nodes, subscribe, merged, told>>,
           channel' = [channel EXCEPT ![s] = Append(@, new)],
           reported' \in [Places -> Nat \cup {-1}],
           \A p \in Places : reported[p] <= reported'[p],
           \A b \in new : /\ b.handle \in PlacesOf(s)
                          /\ reported[b.handle] <= b.value.ver
                          /\ b.value.ver <= reported'[b.handle]
    PROVE  OrderInv'
<1>1. s \in 1..SubCount(nodes)
  BY SubCountType DEF IInv, StateOK
<1>2. /\ SubCount(nodes)' = SubCount(nodes) /\ Places' = Places
      /\ \A p : At(p)' = At(p) /\ Once(At(p))' = Once(At(p))
      /\ \A t : PlacesOf(t)' = PlacesOf(t)
  BY DEF SubCount, Places, At, PlacesOf, Once
<1>3. \A t \in 1..SubCount(nodes) :
         channel'[t] = IF t = s THEN Append(channel[s], new) ELSE channel[t]
  BY <1>1 DEF IInv, ChannelsOK
<1>4. channel[s] \in Seq(SUBSET Faithful)
  BY <1>1 DEF IInv, ChannelsOK
<1>5. \A b \in new : b.handle \in Places /\ b.value.ver \in Nat
  BY DEF Faithful, Items, Samples
<1>6. \A a \in Flowing, b \in new : Older(a, b)
  BY <1>5, FlowingTyped DEF OrderInv, Older
<1>7. /\ Queued(merged) \subseteq Flowing
      /\ \A t \in 1..SubCount(nodes) : Queued(channel[t]) \subseteq Flowing
  BY DEF Flowing
<1>8. Queued(channel'[s]) = Queued(channel[s]) \cup new /\ InOrder(channel'[s])
  <2>1. InOrder(channel[s]) /\ \A a \in Queued(channel[s]), b \in new : Older(a, b)
    BY <1>1, <1>6, <1>7 DEF OrderInv
  <2>2. channel'[s] = Append(channel[s], new)
    BY <1>1, <1>3
  <2>3. /\ Queued(Append(channel[s], new)) = Queued(channel[s]) \cup new
        /\ InOrder(channel[s]) /\ (\A a \in Queued(channel[s]), b \in new : Older(a, b))
              => InOrder(Append(channel[s], new))
    BY <1>4, QueuedAppended, Zenon
  <2> QED
    BY <2>1, <2>2, <2>3, Zenon
<1>9. Flowing' \subseteq Flowing \cup new
  <2>1. Queued(merged)' = Queued(merged)
    BY DEF Queued
  <2>2. \A t \in 1..SubCount(nodes) : Queued(channel[t])' \subseteq Flowing \cup new
    BY <1>3, <1>7, <1>8 DEF Queued
  <2> QED
    BY <1>2, <1>7, <2>1, <2>2 DEF Flowing
<1>10. \A t \in 1..SubCount(nodes) :
          /\ InOrder(channel[t])'
          /\ \A item \in Queued(channel[t])' : item.handle \in PlacesOf(t)
          /\ \A a \in Queued(merged), b \in Queued(channel[t])' : Older(a, b)
  <2> SUFFICES ASSUME NEW t \in 1..SubCount(nodes)
               PROVE  /\ InOrder(channel'[t])
                      /\ \A item \in Queued(channel'[t]) : item.handle \in PlacesOf(t)
                      /\ \A a \in Queued(merged), b \in Queued(channel'[t]) : Older(a, b)
    BY DEF InOrder, Queued
  <2>1. CASE t = s
    BY <1>1, <1>6, <1>7, <1>8, <2>1 DEF OrderInv
  <2>2. CASE t # s
    BY <1>3, <2>2 DEF OrderInv
  <2> QED
    BY <2>1, <2>2
<1>11. \A item \in Flowing' : item.value.ver <= reported'[item.handle]
  <2> SUFFICES ASSUME NEW item \in Flowing PROVE item.value.ver <= reported'[item.handle]
    BY <1>9
  <2>1. item.value.ver <= reported[item.handle]
    BY DEF OrderInv
  <2> QED
    BY <2>1, FlowingTyped
<1>12. ASSUME NEW p \in Places
       PROVE  ToldFirst(p)'
  <2> SUFFICES ASSUME Once(At(p)), told[At(p)] # None
               PROVE  /\ told[At(p)].ver <= reported'[p]
                      /\ \A item \in Flowing' :
                            item.handle = p => told[At(p)].ver <= item.value.ver
    BY <1>2 DEF ToldFirst
  <2>1. told[At(p)].ver \in Nat /\ reported[p] \in Int /\ reported'[p] \in Int
    BY ToldTyped, PlaceTyped
  <2>2. /\ told[At(p)].ver <= reported[p]
        /\ \A item \in Flowing : item.handle = p => told[At(p)].ver <= item.value.ver
    BY DEF OrderInv, ToldFirst
  <2>3. \A b \in new : b.handle = p => told[At(p)].ver <= b.value.ver
    BY <1>5, <2>1, <2>2
  <2> QED
    BY <1>9, <2>1, <2>2, <2>3
<1>13. InOrder(merged)' /\ Queued(merged)' = Queued(merged)
  BY DEF OrderInv, InOrder, Queued
<1> QED
  BY <1>2, <1>10, <1>11, <1>12, <1>13 DEF OrderInv

LEMMA PublishOrder ==
    ASSUME Sizes, IInv, OrderInv, NEW s \in 1..subs, NEW changed \in SUBSET Pending(s),
           Publish(s, changed)
    PROVE  OrderInv'
<1> DEFINE new == {Item(p) : p \in changed}
<1>1. /\ UNCHANGED <<nodes, subscribe, merged, told>>
      /\ channel' = [channel EXCEPT ![s] = Append(@, new)]
      /\ reported' = [p \in Places |-> IF p \in changed THEN version[At(p)] ELSE reported[p]]
  BY DEF Publish
<1>2. \A p \in changed :
         /\ p \in items /\ p \in Places /\ p \in PlacesOf(s)
         /\ reported[p] < version[At(p)] /\ version[At(p)] \in Nat
  BY DEF Pending, PlacesOf, IInv, StateOK
<1>3. new \in SUBSET Faithful
  BY <1>2, ItemFaithful
<1>4. reported' \in [Places -> Nat \cup {-1}]
  BY <1>1, <1>2 DEF IInv, StateOK
<1>5. \A p \in Places : reported[p] <= reported'[p]
  BY <1>1, <1>2, PlaceTyped
<1>6. \A b \in new : /\ b.handle \in PlacesOf(s)
                     /\ reported[b.handle] <= b.value.ver
                     /\ b.value.ver <= reported'[b.handle]
  <2> SUFFICES ASSUME NEW p \in changed
               PROVE  /\ Item(p).handle \in PlacesOf(s)
                      /\ reported[Item(p).handle] <= Item(p).value.ver
                      /\ Item(p).value.ver <= reported'[Item(p).handle]
    OBVIOUS
  <2>1. Item(p).handle = p /\ Item(p).value.ver = version[At(p)]
    BY DEF Item, Handle
  <2> QED
    BY <1>1, <1>2, <2>1, PlaceTyped
<1> HIDE DEF new
<1> QED
  BY <1>1, <1>3, <1>4, <1>5, <1>6, QueueOrder

LEMMA PublishOtherOrder ==
    ASSUME Sizes, IInv, OrderInv, NEW s \in 1..subs, PublishOther(s)
    PROVE  OrderInv'
<1>1. /\ UNCHANGED <<nodes, subscribe, merged, told>> /\ reported' = reported
      /\ channel' = [channel EXCEPT ![s] = Append(@, {})]
  BY DEF PublishOther
<1>2. reported' \in [Places -> Nat \cup {-1}] /\ \A p \in Places : reported[p] <= reported'[p]
  BY <1>1, PlaceTyped DEF IInv, StateOK
<1>3. {} \in SUBSET Faithful
  OBVIOUS
<1> QED
  BY <1>1, <1>2, <1>3, QueueOrder

(* A forwarder takes the oldest of its channel, so that nothing older can  *)
(* follow: the items of a place are in no other channel.                   *)
LEMMA ForwardOrder ==
    ASSUME Sizes, IInv, OrderInv, NEW s \in 1..subs, Forward(s)
    PROVE  OrderInv'
<1> DEFINE first == channel[s][1]
           rest == SubSeq(channel[s], 1, 0) \o SubSeq(channel[s], 2, Len(channel[s]))
<1>1. s \in 1..SubCount(nodes)
  BY SubCountType DEF IInv, StateOK
<1>2. /\ UNCHANGED <<nodes, subscribe, reported, told>>
      /\ channel[s] # <<>> /\ merged' = Append(merged, first)
      /\ channel' = [channel EXCEPT ![s] = rest]
  BY <1>1 DEF Forward, NextOf, serverVars, IInv, ChannelsOK
<1>3. channel[s] \in Seq(SUBSET Faithful) /\ merged \in Seq(SUBSET Faithful)
  BY <1>1 DEF IInv, ChannelsOK
<1>4. /\ first \in SUBSET Faithful /\ Len(rest) = Len(channel[s]) - 1
      /\ \A i \in 1..(Len(channel[s]) - 1) : rest[i] = channel[s][i + 1]
  BY <1>2, <1>3, WithoutFirst
<1>5. \A t \in 1..SubCount(nodes) : channel'[t] = IF t = s THEN rest ELSE channel[t]
  BY <1>1, <1>2 DEF IInv, ChannelsOK
<1> HIDE DEF first, rest
<1>6. /\ Queued(channel[s]) = first \cup Queued(rest)
      /\ InOrder(rest) /\ \A a \in first, b \in Queued(rest) : Older(a, b)
  <2>1. /\ Queued(channel[s]) = channel[s][1] \cup Queued(rest)
        /\ InOrder(channel[s]) => /\ InOrder(rest)
                                  /\ \A a \in channel[s][1], b \in Queued(rest) : Older(a, b)
    BY <1>2, <1>3, <1>4, QueuedRest, Zenon
  <2>2. InOrder(channel[s])
    BY <1>1 DEF OrderInv
  <2> QED
    BY <2>1, <2>2 DEF first
<1>7. /\ Queued(merged') = Queued(merged) \cup first
      /\ InOrder(merged')
  <2>1. /\ Queued(Append(merged, first)) = Queued(merged) \cup first
        /\ InOrder(merged) /\ (\A a \in Queued(merged), b \in first : Older(a, b))
              => InOrder(Append(merged, first))
    BY <1>3, <1>4, QueuedAppended, Zenon
  <2>2. InOrder(merged) /\ \A a \in Queued(merged), b \in first : Older(a, b)
    BY <1>1, <1>6 DEF OrderInv
  <2> QED
    BY <1>2, <2>1, <2>2, Zenon
<1>8. /\ SubCount(nodes)' = SubCount(nodes) /\ Places' = Places
      /\ \A p : At(p)' = At(p) /\ Once(At(p))' = Once(At(p))
      /\ \A t : PlacesOf(t)' = PlacesOf(t)
  BY <1>2 DEF SubCount, Places, At, PlacesOf, Once
<1>9. ASSUME NEW t \in 1..SubCount(nodes)
      PROVE  /\ InOrder(channel'[t]) /\ Queued(channel'[t]) \subseteq Queued(channel[t])
             /\ \A item \in Queued(channel'[t]) : item.handle \in PlacesOf(t)
             /\ \A a \in Queued(merged'), b \in Queued(channel'[t]) : Older(a, b)
  <2>1. CASE t = s
    <3>1. channel'[t] = rest /\ InOrder(rest) /\ Queued(rest) \subseteq Queued(channel[t])
      BY <1>5, <1>6, <2>1
    <3> QED
      BY <1>6, <1>7, <2>1, <3>1 DEF OrderInv
  <2>2. CASE t # s
    <3>1. channel'[t] = channel[t]
      BY <1>5, <2>2
    <3>2. ASSUME NEW a \in first, NEW b \in Queued(channel[t])
          PROVE  Older(a, b)
      <4>1. a.handle \in PlacesOf(s) /\ b.handle \in PlacesOf(t)
        BY <1>1, <1>6, <3>2 DEF OrderInv
      <4>2. a.handle # b.handle
        <5>1. nodes \in Seq(Nodes) /\ a.handle \in Places
          BY <4>1 DEF IInv, StateOK, PlacesOf
        <5>2. \E u \in 1..SubCount(nodes) :
                 \A v \in 1..SubCount(nodes) : a.handle \in PlacesOf(v) <=> v = u
          BY <5>1, PiecesPartition
        <5> QED
          BY <1>1, <2>2, <4>1, <5>2
      <4> QED
        BY <4>2 DEF Older
    <3> QED
      BY <1>7, <3>1, <3>2 DEF OrderInv
  <2> QED
    BY <2>1, <2>2
<1>10. /\ \A t \in 1..SubCount(nodes) : Queued(channel[t])' = Queued(channel'[t])
       /\ \A t \in 1..SubCount(nodes) : InOrder(channel[t])' = InOrder(channel'[t])
       /\ Queued(merged)' = Queued(merged') /\ InOrder(merged)' = InOrder(merged')
  BY DEF Queued, InOrder
<1>11. Flowing' \subseteq Flowing
  <2>1. first \subseteq Queued(channel[s])
    BY <1>6
  <2> QED
    BY <1>1, <1>7, <1>8, <1>9, <1>10, <2>1 DEF Flowing
<1>12. \A p \in Places : ToldFirst(p)'
  <2>1. \A p \in Places : ToldFirst(p)
    BY DEF OrderInv
  <2> QED
    BY <1>2, <1>8, <1>11, <2>1 DEF ToldFirst
<1> QED
  BY <1>2, <1>7, <1>8, <1>9, <1>10, <1>11, <1>12 DEF OrderInv

(* What one pass of handleNotifications tells of a node that is in the     *)
(* list once.                                                              *)
LEMMA ToldOfPlace ==
    ASSUME Sizes, IInv, HandleNotification, NEW p \in Places, Once(At(p))
    PROVE  \/ told'[At(p)] = told[At(p)]
           \/ \E item \in merged[1] : item.handle = p /\ told'[At(p)] = item.value
<1> DEFINE Of(id) == {item \in Head(merged) : NodeID(item) = id}
           n == At(p)
<1>1. n \in DOMAIN told
  BY PlaceTyped DEF IInv, StateOK
<1>2. told'[n] = IF Of(n) = {} THEN told[n] ELSE (CHOOSE item \in Of(n) : TRUE).value
  BY <1>1 DEF HandleNotification
<1>3. Head(merged) = merged[1] /\ merged[1] \in SUBSET Faithful
  BY HeadTailProperties, HeadAndTail DEF HandleNotification, IInv, ChannelsOK
<1>4. CASE Of(n) # {}
  <2>1. PICK item \in Of(n) : told'[n] = item.value
    BY <1>2, <1>4
  <2>2. item \in merged[1] /\ item \in Faithful /\ NodeID(item) = n
    BY <1>3, <2>1
  <2>3. item.handle \in Places /\ At(item.handle) = n
    BY <2>2, NodeIDFaithful DEF Faithful
  <2>4. item.handle = p
    BY <2>3 DEF Once
  <2> QED
    BY <2>1, <2>2, <2>4
<1> QED
  BY <1>2, <1>4

LEMMA HandleNotificationOrder ==
    ASSUME Sizes, IInv, OrderInv, HandleNotification
    PROVE  OrderInv'
<1>1. /\ merged # <<>> /\ merged' = Tail(merged)
      /\ UNCHANGED <<nodes, subscribe, reported, channel>> /\ subscribe = "started"
  BY DEF HandleNotification, serverVars
<1>2. /\ merged \in Seq(SUBSET Faithful) /\ Len(merged') = Len(merged) - 1
      /\ \A i \in 1..(Len(merged) - 1) : merged'[i] = merged[i + 1]
  BY <1>1, HeadTailProperties DEF IInv, ChannelsOK
<1>3. /\ Queued(merged) = merged[1] \cup Queued(merged')
      /\ InOrder(merged) => /\ InOrder(merged')
                            /\ \A a \in merged[1], b \in Queued(merged') : Older(a, b)
  BY <1>1, <1>2, QueuedRest, Zenon
<1>4. InOrder(merged') /\ \A a \in merged[1], b \in Queued(merged') : Older(a, b)
  BY <1>3 DEF OrderInv
<1>5. /\ SubCount(nodes)' = SubCount(nodes) /\ Places' = Places
      /\ \A p : At(p)' = At(p) /\ Once(At(p))' = Once(At(p))
      /\ \A t : PlacesOf(t)' = PlacesOf(t)
  BY <1>1 DEF SubCount, Places, At, PlacesOf, Once
<1>6. /\ \A t : Queued(channel[t])' = Queued(channel[t])
      /\ \A t : InOrder(channel[t])' = InOrder(channel[t])
      /\ Queued(merged)' = Queued(merged') /\ InOrder(merged)' = InOrder(merged')
  BY <1>1 DEF Queued, InOrder
<1>7. Flowing' \subseteq Flowing
  BY <1>3, <1>5, <1>6 DEF Flowing
<1>8. \A a \in merged[1], b \in Flowing' : Older(a, b)
  BY <1>3, <1>4, <1>5, <1>6 DEF Flowing, OrderInv
<1>9. ASSUME NEW p \in Places
      PROVE  ToldFirst(p)'
  <2> SUFFICES ASSUME Once(At(p)), told'[At(p)] # None
               PROVE  /\ told'[At(p)].ver <= reported[p]
                      /\ \A b \in Flowing' : b.handle = p => told'[At(p)].ver <= b.value.ver
    BY <1>1, <1>5 DEF ToldFirst
  <2>1. CASE told'[At(p)] = told[At(p)]
    BY <1>7, <2>1 DEF OrderInv, ToldFirst
  <2>2. CASE \E item \in merged[1] : item.handle = p /\ told'[At(p)] = item.value
    <3>1. PICK item \in merged[1] : item.handle = p /\ told'[At(p)] = item.value
      BY <2>2
    <3>2. item \in Flowing
      BY <1>3 DEF Flowing
    <3>3. told'[At(p)].ver <= reported[p]
      BY <3>1, <3>2 DEF OrderInv
    <3> QED
      BY <1>8, <3>1, <3>3 DEF Older
  <2> QED
    BY <2>1, <2>2, ToldOfPlace
<1> QED
  BY <1>1, <1>3, <1>4, <1>5, <1>6, <1>7, <1>9 DEF OrderInv

(* No pass of handleNotifications takes a node back.                       *)
StepsForward == \A n \in Nodes : Once(n) /\ told[n] # None => told'[n].ver >= told[n].ver

LEMMA HandledForward ==
    ASSUME Sizes, IInv, OrderInv, HandleNotification
    PROVE  StepsForward
<1> SUFFICES ASSUME NEW n \in Nodes, Once(n), told[n] # None
             PROVE  told'[n].ver >= told[n].ver
  BY DEF StepsForward
<1>1. told[n].ver \in Nat
  BY ToldTyped
<1>2. CASE \E p \in Places : At(p) = n
  <2>1. PICK p \in Places : At(p) = n
    BY <1>2
  <2>2. CASE told'[n] = told[n]
    BY <1>1, <2>2
  <2>3. CASE \E item \in merged[1] : item.handle = p /\ told'[n] = item.value
    <3>1. PICK item \in merged[1] : item.handle = p /\ told'[n] = item.value
      BY <2>3
    <3>2. item \in Flowing
      <4>1. 1 \in 1..Len(merged)
        BY HeadAndTail DEF HandleNotification, IInv, ChannelsOK
      <4> QED
        BY <4>1 DEF Flowing, Queued
    <3>3. item.value.ver \in Nat
      BY <3>2, FlowingTyped
    <3> QED
      BY <1>1, <2>1, <3>1, <3>2, <3>3 DEF OrderInv, ToldFirst
  <2> QED
    BY <2>1, <2>2, <2>3, ToldOfPlace
<1>3. CASE \A p \in Places : At(p) # n
  <2>1. Head(merged) \in SUBSET Faithful
    BY HeadAndTail DEF HandleNotification, IInv, ChannelsOK
  <2>2. \A item \in Head(merged) : NodeID(item) # n
    BY <1>3, <2>1, NodeIDFaithful DEF Faithful
  <2>3. told'[n] = told[n]
    BY <2>2 DEF HandleNotification, IInv, StateOK
  <2> QED
    BY <1>1, <2>3
<1> QED
  BY <1>2, <1>3

LEMMA OrderStep ==
    ASSUME Sizes, IInv, OrderInv, [Next]_subscriptionVars
    PROVE  OrderInv' /\ [StepsForward]_told
<1>1. CASE Subscribe
  <2>1. CASE \E list \in Seq(Nodes) : Begin(list)
    BY <2>1, BeginOrder DEF Begin
  <2>2. CASE CreateSubscription \/ Monitor \/ SubscribeFails
    BY <2>2, OrderKept DEF CreateSubscription, Monitor, SubscribeFails, serverVars
  <2> QED
    BY <1>1, <2>1, <2>2 DEF Subscribe
<1>2. CASE Server
  <2>1. CASE \E v \in Variables : Change(v)
    <3>1. UNCHANGED <<nodes, subscribe, reported, channel, merged, told>>
      BY <2>1, Zenon DEF Change
    <3> QED
      BY <3>1, OrderKept
  <2>2. CASE \E s \in 1..subs : PublishOther(s)
    BY <2>2, PublishOtherOrder DEF PublishOther
  <2>3. CASE \E s \in 1..subs : \E changed \in SUBSET Pending(s) : Publish(s, changed)
    BY <2>3, PublishOrder DEF Publish
  <2> QED
    BY <1>2, <2>1, <2>2, <2>3 DEF Server
<1>3. CASE \E s \in 1..subs : Forward(s)
  BY <1>3, ForwardOrder DEF Forward
<1>4. CASE HandleNotification
  BY <1>4, HandleNotificationOrder, HandledForward
<1>5. CASE UNCHANGED subscriptionVars
  BY <1>5, OrderKept DEF subscriptionVars, serverVars
<1> QED
  BY <1>1, <1>2, <1>3, <1>4, <1>5 DEF Next

(* A node that is in the list once is never told an older value after a    *)
(* newer one: whatever the sizes and the interleaving, its handle has one  *)
(* channel and one forwarder, and mergedCh one reader (client.go 126-147,  *)
(* 183, 222-226).                                                          *)
THEOREM ValuesStepForward == ASSUME Sizes PROVE Spec => NoStepBack
<1>1. Init => IInv /\ OrderInv
  BY InitIInv, InitOrder
<1>2. IInv /\ OrderInv /\ [Next]_subscriptionVars => IInv' /\ OrderInv' /\ [StepsForward]_told
  BY NextIInv, OrderStep
<1> QED
  BY <1>1, <1>2, PTL DEF Spec, NoStepBack, StepsForward
=============================================================================
