--------------------------- MODULE CollectorProofs ---------------------------
(***************************************************************************)
(* Theorems about Collector, for every set of nodes and workers, every     *)
(* capacity, threshold, push mode and bound.                               *)
(*                                                                         *)
(* One inductive invariant, IInv, carries everything: types alone are not  *)
(* inductive (a heartbeat updates a pool entry that must exist, a worker   *)
(* takes the head of a batch that must not be empty), and what subscribers *)
(* see is only as truthful as every queue, batch and pool entry that the   *)
(* message came through.                                                   *)
(***************************************************************************)
EXTENDS Collector, FiniteSetTheorems, SequenceTheorems, TLAPS

(* What may be said about n now; nothing is claimed once ids that do not   *)
(* parse are among those ReadAll is given, for it then mixes up results.   *)
Truth(n, value, quality) == Strays = {} => F!Truthful(n, value, quality)

Authentic == {p \in Points : Truth(p.node, p.value, p.quality)}

PoolTruthful ==
    /\ \A n \in NodeIDs : server[n].of = n
    /\ \A n \in Pool : Truth(n, nodeStates[n].value, nodeStates[n].quality)

Loaded ==
    /\ \A w \in Workers : pc[w] \in {"handle", "send"} => batch[w] # <<>>
    /\ pc["health"] = "push" => pushPoint # NoPoint
    /\ \A i \in 1..Len(allPoints) : allPoints[i].node \in Pool
    /\ IsFiniteSet(pubBatch)

Addressed == \A n \in NodeIDs : downstream[n] # NoPoint => downstream[n].node = n

Ended == {"closing", "stopped", "crashed"}

Shutdown ==
    /\ subClosed \/ pubClosed => main \in Ended
    /\ main # "running" => ctxDone
    /\ main \in Ended => wg = 0

IInv ==
    /\ StateOK /\ PcOK /\ FlowOK(Authentic)
    /\ PoolTruthful /\ Loaded /\ Addressed
    /\ WaitGroupExact /\ Shutdown

-----------------------------------------------------------------------------
(* Lemmas about the operators of Collector *)

(* A counter stays in the range that its width gives it.                   *)
LEMMA CountInRange ==
    ASSUME NEW c \in Int, NEW n \in Int
    PROVE  Count(c, n) \in Counters
BY ConfigAssumption DEF Count, Counters

(* The orders of a set of ids are sequences of its members.                *)
LEMMA OrdersAreSequences ==
    ASSUME NEW S, IsFiniteSet(S), NEW ids \in Orders(S)
    PROVE  /\ ids \in Seq(S)
           /\ ids = <<>> => S = {}
<1>1. Cardinality(S) \in Nat
  BY FS_CardinalityType
<1>2. ids \in [1..Cardinality(S) -> S] /\ \A t \in S : \E i \in 1..Cardinality(S) : ids[i] = t
  BY DEF Orders, Bijection, Injection, Surjection
<1>3. ids \in Seq(S) /\ Len(ids) = Cardinality(S)
  BY <1>1, <1>2
<1> QED
  BY <1>1, <1>2, <1>3

(* Reading a sample, or being told of it, gives a well-formed point.       *)
LEMMA PointOfType ==
    ASSUME NEW n \in NodeIDs, NEW s \in Samples, now \in Nat
    PROVE  PointOf(n, s) \in Points
<1>1. now - ClockLag \in Int
  BY BoundsAssumption
<1>2. s.quality \in Qualities
  BY DEF Samples, Qualities
<1>3. s \in Values
  BY DEF Values
<1> QED
  BY <1>1, <1>2, <1>3 DEF Points, PointOf

(* The numbers from 1 to n are n numbers.                                  *)
LEMMA IntervalSize ==
    ASSUME NEW n \in Nat
    PROVE  IsFiniteSet(1..n) /\ Cardinality(1..n) = n
<1>1. 1 \in Int /\ n \in Int
  OBVIOUS
<1>2. IsFiniteSet(1..n) /\ Cardinality(1..n) = IF 1 > n THEN 0 ELSE n - 1 + 1
  BY <1>1, FS_Interval
<1> QED
  BY <1>2

(* ReadAll pairs every result with some id of the request, and with the    *)
(* right one if all ids parse.                                             *)
LEMMA ReadAllResults ==
    ASSUME StateOK, NEW ids \in Seq(Pool)
    PROVE  /\ ReadAll(ids) \in Seq(Points)
           /\ \A i \in 1..Len(ReadAll(ids)) :
                 LET p == ReadAll(ids)[i]
                 IN  /\ p.node \in Pool
                     /\ Strays = {} => p.value = server[p.node]
                     /\ p.value \in Samples /\ p.quality = p.value.quality
<1> DEFINE valid == {i \in 1..Len(ids) : ids[i] \notin Strays}
           n == Cardinality(valid)
           Below(j) == {k \in valid : k <= j}
           rank == [j \in valid |-> Cardinality(Below(j))]
           chosen(i) == CHOOSE j \in valid : Cardinality(Below(j)) = i
           point(i) == PointOf(ids[i], server[ids[chosen(i)]])
<1>1. Len(ids) \in Nat /\ \A i \in 1..Len(ids) : ids[i] \in Pool
  BY ElementOfSeq, LenProperties
<1>2. IsFiniteSet(1..Len(ids)) /\ Cardinality(1..Len(ids)) = Len(ids)
  BY <1>1, IntervalSize
<1>3. IsFiniteSet(valid) /\ n \in Nat /\ n <= Len(ids)
  BY <1>2, FS_Subset, FS_CardinalityType
<1>4. \A j \in valid : /\ Below(j) \in SUBSET valid /\ IsFiniteSet(Below(j))
                        /\ Cardinality(Below(j)) \in 1..n
  <2> TAKE j \in valid
  <2>1. Below(j) \in SUBSET valid /\ j \in Below(j)
    BY <1>1
  <2>2. IsFiniteSet(Below(j)) /\ Cardinality(Below(j)) <= n
    BY <1>3, <2>1, FS_Subset
  <2>3. Cardinality(Below(j)) \in Nat /\ Cardinality(Below(j)) # 0
    BY <2>1, <2>2, FS_CardinalityType, FS_EmptySet
  <2> QED
    BY <1>3, <2>1, <2>2, <2>3
<1>5. \A j, k \in valid : j < k => Cardinality(Below(j)) < Cardinality(Below(k))
  <2> SUFFICES ASSUME NEW j \in valid, NEW k \in valid, j < k
               PROVE  Cardinality(Below(j)) < Cardinality(Below(k))
    OBVIOUS
  <2>1. Below(j) \in SUBSET Below(k) /\ k \in Below(k) /\ k \notin Below(j)
    BY <1>1
  <2>2. Cardinality(Below(j)) <= Cardinality(Below(k)) /\ Cardinality(Below(j)) # Cardinality(Below(k))
    BY <1>4, <2>1, FS_Subset
  <2> HIDE DEF Below, n, valid
  <2> QED
    BY <1>3, <1>4, <2>2
<1>6. valid \subseteq 1..Len(ids)
  OBVIOUS
<1>7. Strays = {} => valid = 1..Len(ids) /\ \A j \in valid : Below(j) = 1..j
  BY <1>1
<1> HIDE DEF Below, n, valid
<1>8. rank \in Injection(valid, 1..n)
  <2>1. rank \in [valid -> 1..n]
    BY <1>4
  <2>2. \A j, k \in valid : rank[j] = rank[k] => j = k
    BY <1>1, <1>3, <1>4, <1>5, <1>6
  <2> QED
    BY <2>1, <2>2 DEF Injection, IsInjective
<1>9. rank \in Surjection(valid, 1..n)
  <2>1. IsFiniteSet(1..n) /\ Cardinality(1..n) = n
    BY <1>3, IntervalSize
  <2>2. Cardinality(valid) = n
    BY DEF n
  <2> QED
    BY <1>8, <2>1, <2>2, FS_Injection
<1>10. \A i \in 1..n : chosen(i) \in valid /\ Cardinality(Below(chosen(i))) = i
  <2>1. \A i \in 1..n : \E j \in valid : Cardinality(Below(j)) = i
    BY <1>9 DEF Surjection
  <2> QED
    BY <2>1
<1> HIDE DEF chosen, rank
<1>11. ASSUME Strays = {}, NEW i \in 1..n
       PROVE  chosen(i) = i
  <2>1. chosen(i) \in 1..Len(ids) /\ Below(chosen(i)) = 1..chosen(i)
    BY <1>6, <1>7, <1>10, <1>11
  <2>2. Cardinality(1..chosen(i)) = chosen(i)
    BY <1>1, <2>1, IntervalSize
  <2> QED
    BY <1>10, <2>1, <2>2
<1>12. \A i \in 1..n : /\ ids[i] \in Pool /\ ids[chosen(i)] \in Pool
                        /\ point(i) \in Points
                        /\ point(i).node = ids[i]
                        /\ point(i).value = server[ids[chosen(i)]]
                        /\ point(i).value \in Samples
                        /\ point(i).quality = point(i).value.quality
  <2> TAKE i \in 1..n
  <2>0. i \in 1..Len(ids)
    BY <1>1, <1>3
  <2>1. chosen(i) \in 1..Len(ids)
    BY <1>6, <1>10
  <2>2. ids[i] \in Pool /\ ids[chosen(i)] \in Pool
    BY <1>1, <2>0, <2>1
  <2>3. server[ids[chosen(i)]] \in Samples
    BY <2>2 DEF StateOK
  <2>4. PointOf(ids[i], server[ids[chosen(i)]]) \in Points
    BY <2>2, <2>3, PointOfType DEF StateOK
  <2> QED
    BY <2>2, <2>3, <2>4 DEF PointOf
<1> DEFINE result == [i \in 1..n |-> point(i)]
<1>13. ReadAll(ids) = result
  BY DEF ReadAll, n, valid, chosen, Below
<1> HIDE DEF point
<1>14. result \in Seq(Points) /\ Len(result) = n /\ \A i \in 1..n : result[i] = point(i)
  BY <1>3, <1>12
<1> HIDE DEF result
<1>15. ASSUME NEW i \in 1..n
       PROVE  /\ result[i].node \in Pool
              /\ Strays = {} => result[i].value = server[result[i].node]
              /\ result[i].value \in Samples /\ result[i].quality = result[i].value.quality
  BY <1>11, <1>12, <1>14
<1> QED
  BY <1>13, <1>14, <1>15

-----------------------------------------------------------------------------
(* What most steps leave alone *)

(* What may be said of a node changes only with the server.                *)
LEMMA AuthenticFrame ==
    ASSUME UNCHANGED server
    PROVE  Authentic' = Authentic /\ \A n, v, q : Truth(n, v, q)' <=> Truth(n, v, q)
BY DEF Authentic, Truth, F!Truthful

(* The wait group stays exact while nobody returns.                        *)
LEMMA WaitGroupFrame ==
    ASSUME WaitGroupExact, UNCHANGED wg,
           \A g \in Goroutines : pc'[g] = "done" <=> pc[g] = "done"
    PROVE  WaitGroupExact'
<1>1. {g \in Goroutines : pc'[g] # "done"} = {g \in Goroutines : pc[g] # "done"}
  OBVIOUS
<1> QED
  BY <1>1 DEF WaitGroupExact

(* Steps of the environment and of Stop that touch no point.               *)
LEMMA QuietStep ==
    ASSUME IInv, Tick \/ NatsDown \/ NatsUp \/ HandlerPanic \/ Cancel \/ CloseSubCh \/ ClosePubCh
    PROVE  IInv'
<1> USE DEF IInv
<1>1. UNCHANGED <<server, notifs, downstream, subCh, pubCh, nodeStates, wg, counterVars, pc,
                  batch, healthVars, pubBatch>>
  BY DEF Tick, NatsDown, NatsUp, HandlerPanic, Cancel, CloseSubCh, ClosePubCh,
         envVars, chanVars, counterVars, healthVars, stopVars
<1>2. Authentic' = Authentic /\ \A n, v, q : Truth(n, v, q)' <=> Truth(n, v, q)
  BY <1>1, AuthenticFrame
<1>3. now' \in Nat /\ outages' \in Nat
  BY DEF StateOK, Tick, NatsDown, NatsUp, HandlerPanic, Cancel, CloseSubCh, ClosePubCh,
         envVars, chanVars, stopVars
<1>4. /\ connected' \in BOOLEAN /\ ctxDone' \in BOOLEAN
      /\ subClosed' \in BOOLEAN /\ pubClosed' \in BOOLEAN
      /\ main' \in {"running", "waiting", "closing", "stopped", "crashed"}
  BY DEF StateOK, Tick, NatsDown, NatsUp, HandlerPanic, Cancel, CloseSubCh, ClosePubCh,
         envVars, chanVars, stopVars
<1>4a. Shutdown'
  <2>1. CASE Tick \/ NatsDown \/ NatsUp
    BY <2>1 DEF Shutdown, Ended, Tick, NatsDown, NatsUp, chanVars, stopVars
  <2>2. CASE HandlerPanic \/ ClosePubCh
    BY <2>2 DEF Shutdown, Ended, HandlerPanic, ClosePubCh, chanVars
  <2>3. CASE Cancel
    BY <2>3 DEF Shutdown, Ended, Cancel, chanVars
  <2>4. CASE CloseSubCh
    BY <2>4 DEF Shutdown, Ended, CloseSubCh, chanVars
  <2> QED
    BY <2>1, <2>2, <2>3, <2>4
<1>5. StateOK'
  BY <1>1, <1>3, <1>4 DEF StateOK, Pool, counterVars, healthVars
<1>6. PcOK' /\ Loaded' /\ Addressed' /\ WaitGroupExact'
  BY <1>1 DEF PcOK, Loaded, Pool, Addressed, WaitGroupExact, healthVars
<1>7. PoolTruthful'
  BY <1>1, <1>2 DEF PoolTruthful, Pool
<1>8. FlowOK(Authentic)'
  BY <1>1, <1>2 DEF FlowOK, healthVars
<1> QED
  BY <1>4a, <1>5, <1>6, <1>7, <1>8

(* Init *)
LEMMA InitIInv == Init => IInv
<1> SUFFICES ASSUME Init PROVE IInv
  OBVIOUS
<1>a. /\ now = 0 /\ outages = 0 /\ connected = TRUE /\ subClosed = FALSE /\ pubClosed = FALSE
      /\ ctxDone = FALSE /\ main = "running" /\ pushPoint = NoPoint
      /\ dropped = 0 /\ successes = 0 /\ failures = 0 /\ stales = 0 /\ offered = 0
  BY DEF Init
<1>b. subCh = <<>> /\ pubCh = <<>> /\ nodeIDs = <<>> /\ allPoints = <<>> /\ toPublish = {} /\ pubBatch = {}
  BY DEF Init
<1>c. /\ downstream = [n \in NodeIDs |-> NoPoint]
      /\ pc = [g \in Goroutines |-> "select"]
      /\ batch = [w \in Workers |-> <<>>]
  BY DEF Init
<1>d. nodeStates = [n \in Nodes |-> [value |-> NoValue, quality |-> "", timestamp |-> now,
                                    status |-> "Online"]]
  BY DEF Init
<1>e. wg = Cardinality(Goroutines)
  BY DEF Init, Added
<1>1. Pool = Nodes /\ Nodes \subseteq NodeIDs /\ IsFiniteSet(Nodes)
  <2>1. Pool = Nodes
    BY <1>d DEF Pool
  <2>2. Nodes \in SUBSET NodeIDs /\ IsFiniteSet(NodeIDs)
    BY NodesAssumption DEF NodeIDs
  <2> QED
    BY <2>1, <2>2, FS_Subset
<1>2. PICK quality \in [NodeIDs -> SampleQualities] :
          server = [n \in NodeIDs |-> FirstSample(n, quality[n])]
  BY DEF Init
<1>3. /\ server \in [NodeIDs -> Samples]
      /\ \A n \in NodeIDs : server[n] \in Samples /\ server[n].of = n /\ server[n].ver = 0
  BY <1>2 DEF FirstSample, Samples
<1>4. IsFiniteSet(Goroutines) /\ wg \in Nat
  <2>1. Goroutines = ((Workers \cup {"monitor"}) \cup {"health"}) \cup {"publish"}
    BY DEF Goroutines
  <2> QED
    BY <1>e, <2>1, WorkersAssumption, FS_AddElement, FS_CardinalityType
<1>5. StateOK
  <2>1. 0 \in Counters
    BY ConfigAssumption DEF Counters
  <2>2. [value |-> NoValue, quality |-> "", timestamp |-> now, status |-> "Online"] \in States
    BY <1>a DEF States, Values, Qualities
  <2>3. nodeStates \in [Pool -> States]
    BY <1>1, <1>d, <2>2
  <2>4. nodeIDs \in Seq(Pool)
    BY <1>b
  <2> QED
    BY <1>a, <1>1, <1>3, <1>4, <2>1, <2>3, <2>4 DEF StateOK
<1>6. PcOK /\ Shutdown /\ Addressed
  BY <1>a, <1>c DEF PcOK, Shutdown, Addressed, Ended, Goroutines
<1>7. PoolTruthful
  <2>1. \A n \in Pool : nodeStates[n].value = NoValue /\ nodeStates[n].quality # "Good"
    BY <1>1, <1>d
  <2> QED
    BY <1>3, <2>1 DEF PoolTruthful, Truth, F!Truthful
<1>8. Loaded
  BY <1>b, <1>c, FS_EmptySet DEF Loaded, Goroutines
<1>9. WaitGroupExact
  <2>1. {g \in Goroutines : pc[g] # "done"} = Goroutines
    BY <1>c
  <2> QED
    BY <1>e, <2>1 DEF WaitGroupExact
<1>10. notifs \in Seq(Seq(Authentic) \ {<<>>})
  <2>1. PICK ids \in Orders(Nodes) :
          notifs = IF Nodes = {} THEN <<>>
                   ELSE << [i \in DOMAIN ids |-> PointOf(ids[i], server[ids[i]])] >>
    BY DEF Init
  <2> DEFINE first == [i \in 1..Len(ids) |-> PointOf(ids[i], server[ids[i]])]
  <2>2. ids \in Seq(Nodes) /\ (ids = <<>> => Nodes = {})
    BY <1>1, OrdersAreSequences
  <2>3. ASSUME NEW n \in NodeIDs
        PROVE  PointOf(n, server[n]) \in Authentic
    <3>1. PointOf(n, server[n]) \in Points
      BY <1>a, <1>3, PointOfType
    <3>2. Truth(n, server[n], server[n].quality)
      BY <1>3, NilAssumption DEF Truth, F!Truthful, F!Samples, Samples
    <3> QED
      BY <3>1, <3>2 DEF Authentic, PointOf
  <2>4. Len(ids) \in Nat /\ DOMAIN ids = 1..Len(ids) /\ \A i \in 1..Len(ids) : ids[i] \in NodeIDs
    BY <1>1, <2>2, ElementOfSeq, LenProperties
  <2>5. \A i \in 1..Len(ids) : PointOf(ids[i], server[ids[i]]) \in Authentic
    BY <2>3, <2>4
  <2>6. first \in Seq(Authentic) /\ Len(first) = Len(ids)
    BY <2>4, <2>5
  <2>7. CASE Nodes = {}
    BY <2>1, <2>7
  <2>8. CASE Nodes # {}
    <3>1. ids # <<>> /\ Len(ids) # 0
      BY <2>2, <2>8, EmptySeq
    <3>2. first # <<>>
      BY <2>6, <3>1
    <3>3. notifs = <<first>>
      BY <2>1, <2>4, <2>8
    <3> HIDE DEF first
    <3> QED
      BY <2>6, <3>2, <3>3
  <2> QED
    BY <2>7, <2>8
<1>11. FlowOK(Authentic)
  BY <1>b, <1>a, <1>c, <1>10, ConfigAssumption DEF FlowOK
<1> QED
  BY <1>5, <1>6, <1>7, <1>8, <1>9, <1>11 DEF IInv

-----------------------------------------------------------------------------
(* The steps that move points *)

(* A new sample makes more points authentic and none less.                 *)
LEMMA AuthenticGrows ==
    ASSUME NEW n \in NodeIDs, ServerChange(n), StateOK
    PROVE  /\ Authentic \subseteq Authentic'
           /\ \A m \in NodeIDs : \A v, q : Truth(m, v, q) => Truth(m, v, q)'
<1>1. PICK q \in SampleQualities :
        server' = [server EXCEPT ![n] = [of |-> n, ver |-> server[n].ver + 1, quality |-> q]]
  BY DEF ServerChange
<1>2. \A m \in NodeIDs : /\ server[m] \in Samples /\ server[m].ver \in Nat
                          /\ server'[m].ver \in Nat /\ server[m].ver <= server'[m].ver
  BY <1>1 DEF StateOK, Samples
<1>3. ASSUME NEW m \in NodeIDs, NEW v, NEW qq, Truth(m, v, qq)
      PROVE  Truth(m, v, qq)'
  <2>1. v \in F!Samples => v.ver \in Nat
    BY DEF F!Samples
  <2> QED
    BY <1>2, <1>3, <2>1 DEF Truth, F!Truthful
<1>4. \A p \in Points : p.node \in NodeIDs
  BY DEF Points
<1> QED
  BY <1>3, <1>4 DEF Authentic

LEMMA ServerStep ==
    ASSUME IInv, NEW n \in NodeIDs, ServerChange(n)
    PROVE  IInv'
<1> USE DEF IInv
<1>1. UNCHANGED <<now, outages, connected, downstream, chanVars, nodeStates, stopVars,
                  counterVars, pc, batch, healthVars, pubBatch>>
  BY DEF ServerChange
<1>2. PICK q \in SampleQualities :
        LET new == [of |-> n, ver |-> server[n].ver + 1, quality |-> q]
            last == Len(notifs)
        IN  /\ server' = [server EXCEPT ![n] = new]
            /\ \/ notifs' = Append(notifs, <<PointOf(n, new)>>)
               \/ /\ last > 0
                  /\ notifs' = [notifs EXCEPT ![last] = Append(@, PointOf(n, new))]
  BY DEF ServerChange
<1>3. /\ Authentic \subseteq Authentic'
      /\ \A m \in NodeIDs : \A v, qq : Truth(m, v, qq) => Truth(m, v, qq)'
  BY AuthenticGrows
<1>s. PICK s : s = [of |-> n, ver |-> server[n].ver + 1, quality |-> q]
  OBVIOUS
<1>4. s \in Samples /\ s.of = n /\ s.ver \in Nat /\ server' = [server EXCEPT ![n] = s]
  BY <1>2, <1>s DEF StateOK, Samples
<1>5. server' \in [NodeIDs -> Samples] /\ \A m \in NodeIDs : server'[m].of = m
  BY <1>4 DEF StateOK, PoolTruthful
<1>6. PointOf(n, s) \in Authentic'
  <2>1. PointOf(n, s) \in Points
    BY <1>4, PointOfType DEF StateOK
  <2>2. server'[n] = s
    BY <1>4 DEF StateOK
  <2>3. Truth(n, s, s.quality)'
    BY <1>4, <2>2, NilAssumption DEF Truth, F!Truthful, F!Samples, Samples
  <2> QED
    BY <2>1, <2>3 DEF Authentic, PointOf
<1>7. notifs \in Seq(Seq(Authentic') \ {<<>>})
  BY <1>3 DEF FlowOK
<1>8. notifs' \in Seq(Seq(Authentic') \ {<<>>})
  <2> DEFINE N == Seq(Authentic') \ {<<>>}
  <2>1. CASE notifs' = Append(notifs, <<PointOf(n, s)>>)
    <3>1. <<PointOf(n, s)>> \in N
      BY <1>6
    <3> HIDE DEF N
    <3> QED
      BY <1>7, <2>1, <3>1 DEF N
  <2>2. CASE /\ Len(notifs) > 0
             /\ notifs' = [notifs EXCEPT ![Len(notifs)] = Append(@, PointOf(n, s))]
    <3>1. Len(notifs) \in 1..Len(notifs) /\ notifs[Len(notifs)] \in N
      BY <1>7, <2>2
    <3>2. Append(notifs[Len(notifs)], PointOf(n, s)) \in N
      BY <1>6, <3>1, AppendProperties
    <3> HIDE DEF N
    <3> QED
      BY <1>7, <2>2, <3>1, <3>2, ExceptSeq DEF N
  <2> QED
    BY <1>2, <1>s, <2>1, <2>2
<1>9. FlowOK(Authentic)'
  <2>1. UNCHANGED <<subCh, pubCh, batch, allPoints, pushPoint, toPublish, pubBatch, downstream>>
    BY <1>1 DEF chanVars, healthVars
  <2>2. subCh \in Seq(Seq(Authentic') \ {<<>>}) /\ Len(subCh) <= ChannelBufferSize
    BY <1>3 DEF FlowOK
  <2>3. pubCh \in Seq(Authentic') /\ Len(pubCh) <= ChannelBufferSize /\ allPoints \in Seq(Authentic')
    BY <1>3 DEF FlowOK
  <2>4. batch \in [Workers -> Seq(Authentic')]
    <3>1. Seq(Authentic) \subseteq Seq(Authentic')
      BY <1>3
    <3> QED
      BY <3>1 DEF FlowOK
  <2>5. /\ pushPoint \in Authentic' \cup {NoPoint} /\ toPublish \subseteq Authentic'
        /\ pubBatch \subseteq Authentic' /\ downstream \in [NodeIDs -> Authentic' \cup {NoPoint}]
    BY <1>3 DEF FlowOK
  <2> QED
    BY <1>8, <2>1, <2>2, <2>3, <2>4, <2>5 DEF FlowOK
<1>10. PoolTruthful'
  BY <1>1, <1>3, <1>5 DEF PoolTruthful, Pool, StateOK
<1>11. StateOK'
  BY <1>1, <1>5 DEF StateOK, Pool, chanVars, stopVars, counterVars, healthVars
<1>12. PcOK' /\ Loaded' /\ Addressed' /\ WaitGroupExact' /\ Shutdown'
  BY <1>1 DEF PcOK, Loaded, Pool, Addressed, WaitGroupExact, Shutdown, healthVars, stopVars, chanVars
<1> QED
  BY <1>9, <1>10, <1>11, <1>12

LEMMA HandlerStep ==
    ASSUME IInv, HandlerSend \/ HandlerDrop
    PROVE  IInv'
<1> USE DEF IInv
<1>1. /\ UNCHANGED <<now, server, outages, connected, downstream, subClosed, pubCh, pubClosed>>
      /\ UNCHANGED <<nodeStates, stopVars, successes, failures, stales, pc, batch>>
      /\ UNCHANGED <<healthVars, pubBatch>>
      /\ notifs # <<>> /\ notifs' = Tail(notifs)
      /\ offered' = Count(offered, Len(Head(notifs)))
      /\ \/ HasRoom(subCh) /\ subCh' = Append(subCh, Head(notifs)) /\ dropped' = dropped
         \/ subCh' = subCh /\ dropped' = Count(dropped, Len(Head(notifs)))
  BY DEF HandlerSend, HandlerDrop, chanVars
<1>2. Authentic' = Authentic /\ \A n, v, q : Truth(n, v, q)' <=> Truth(n, v, q)
  BY <1>1, AuthenticFrame
<1> DEFINE N == Seq(Authentic) \ {<<>>}
<1>3. Head(notifs) \in N /\ notifs' \in Seq(N) /\ Len(Head(notifs)) \in Nat
  BY <1>1 DEF FlowOK
<1>4. subCh' \in Seq(N) /\ Len(subCh') <= ChannelBufferSize
  <2>1. subCh \in Seq(N) /\ Len(subCh) \in Nat /\ Len(subCh) <= ChannelBufferSize
    BY DEF FlowOK
  <2> HIDE DEF N
  <2>2. CASE subCh' = subCh
    BY <2>1, <2>2
  <2>3. CASE HasRoom(subCh) /\ subCh' = Append(subCh, Head(notifs))
    <3>1. subCh' \in Seq(N) /\ Len(subCh') = Len(subCh) + 1
      BY <1>3, <2>1, <2>3, AppendProperties
    <3>2. Len(subCh) < ChannelBufferSize /\ ChannelBufferSize \in Nat
      BY <2>3, ConfigAssumption DEF HasRoom
    <3> QED
      BY <2>1, <3>1, <3>2
  <2> QED
    BY <1>1, <2>2, <2>3
<1>5. offered' \in Counters /\ dropped' \in Counters
  <2>1. offered \in Int /\ dropped \in Int /\ dropped \in Counters
    BY ConfigAssumption DEF StateOK, Counters
  <2> QED
    BY <1>1, <1>3, <2>1, CountInRange
<1>6. StateOK'
  BY <1>1, <1>5 DEF StateOK, Pool, stopVars, healthVars
<1>7. FlowOK(Authentic)'
  BY <1>1, <1>2, <1>3, <1>4 DEF FlowOK, healthVars
<1>8. PoolTruthful'
  BY <1>1, <1>2 DEF PoolTruthful, Pool
<1>9. PcOK' /\ Loaded' /\ Addressed' /\ WaitGroupExact' /\ Shutdown'
  BY <1>1 DEF PcOK, Loaded, Pool, Addressed, WaitGroupExact, Shutdown, healthVars, stopVars
<1> QED
  BY <1>6, <1>7, <1>8, <1>9

(* The only step that changes the wait group.                              *)
LEMMA ExitStep ==
    ASSUME IInv, NEW g \in Goroutines, Exit(g)
    PROVE  IInv'
<1> USE DEF IInv
<1>1. /\ UNCHANGED <<envVars, downstream, chanVars, nodeStates, ctxDone, main, counterVars,
                     batch, healthVars, pubBatch>>
      /\ pc[g] = "select" /\ ctxDone
      /\ pc' = [pc EXCEPT ![g] = "done"]
      /\ wg' = wg - 1
  BY DEF Exit, Cancelled
<1>2. Authentic' = Authentic /\ \A n, v, q : Truth(n, v, q)' <=> Truth(n, v, q)
  BY <1>1, AuthenticFrame DEF envVars
<1>3. WaitGroupExact' /\ wg' \in Nat /\ wg # 0
  <2> DEFINE live == {h \in Goroutines : pc[h] # "done"}
  <2>1. IsFiniteSet(Goroutines)
    <3>1. Goroutines = ((Workers \cup {"monitor"}) \cup {"health"}) \cup {"publish"}
      BY DEF Goroutines
    <3> QED
      BY <3>1, WorkersAssumption, FS_AddElement
  <2>2. IsFiniteSet(live) /\ g \in live
    BY <1>1, <2>1, FS_Subset
  <2>3. {h \in Goroutines : pc'[h] # "done"} = live \ {g}
    BY <1>1 DEF PcOK
  <2>4. Cardinality(live \ {g}) = Cardinality(live) - 1 /\ Cardinality(live \ {g}) \in Nat
        /\ Cardinality(live) \in Nat
    BY <2>2, FS_RemoveElement, FS_CardinalityType
  <2>5. wg = Cardinality(live)
    BY DEF WaitGroupExact
  <2> HIDE DEF live
  <2> QED
    BY <1>1, <2>3, <2>4, <2>5 DEF WaitGroupExact
<1>4. PcOK'
  BY <1>1, WorkersAssumption DEF PcOK, Goroutines
<1>5. StateOK'
  BY <1>1, <1>3 DEF StateOK, Pool, envVars, chanVars, counterVars, healthVars
<1>6. FlowOK(Authentic)' /\ PoolTruthful'
  BY <1>1, <1>2 DEF FlowOK, PoolTruthful, Pool, envVars, chanVars, healthVars
<1>7. Loaded' /\ Addressed'
  BY <1>1, WorkersAssumption DEF Loaded, Addressed, Pool, PcOK, Goroutines, healthVars
<1>8. Shutdown'
  BY <1>1, <1>3 DEF Shutdown, Ended, chanVars
<1> QED
  BY <1>3, <1>4, <1>5, <1>6, <1>7, <1>8

(* nodeStates may be updated with any true state of a node.                *)
LEMMA PoolUpdate ==
    ASSUME StateOK, PoolTruthful, UNCHANGED server,
           NEW n \in NodeIDs, NEW s \in States, Truth(n, s.value, s.quality),
           nodeStates' = PoolWith(n, s)
    PROVE  /\ Pool' = Pool \cup {n} /\ Pool' \subseteq NodeIDs
           /\ nodeStates' \in [Pool' -> States]
           /\ nodeIDs \in Seq(Pool')
           /\ PoolTruthful'
<1>1. Pool' = Pool \cup {n} /\ Pool' \subseteq NodeIDs
  BY DEF PoolWith, Pool, StateOK
<1>2. \A m \in Pool' : nodeStates'[m] = IF m = n THEN s ELSE nodeStates[m]
  BY <1>1 DEF PoolWith
<1>3. nodeStates' \in [Pool' -> States]
  BY <1>1, <1>2 DEF StateOK, PoolWith
<1>4. nodeIDs \in Seq(Pool')
  BY <1>1 DEF StateOK
<1>5. PoolTruthful'
  BY <1>1, <1>2, AuthenticFrame DEF PoolTruthful
<1> QED
  BY <1>1, <1>3, <1>4, <1>5

(* Every worker's part of Loaded and PcOK, one worker at a time.           *)
LEMMA SubWorkerStep ==
    ASSUME IInv, NEW w \in Workers, SubWorker(w)
    PROVE  IInv'
<1> USE DEF IInv
<1>1. /\ UNCHANGED <<envVars, downstream, subClosed, pubClosed, stopVars, successes, failures>>
      /\ UNCHANGED <<stales, offered, healthVars, pubBatch>>
  BY DEF SubWorker, SubWorkerReceive, HandleDataPoint, SendPoint, chanVars, counterVars
<1>2. Authentic' = Authentic /\ \A n, v, q : Truth(n, v, q)' <=> Truth(n, v, q)
  BY <1>1, AuthenticFrame DEF envVars
<1>3. w \in Goroutines /\ w \notin {"monitor", "health", "publish"}
  BY WorkersAssumption DEF Goroutines
<1>4. /\ batch \in [Workers -> Seq(Authentic)] /\ DOMAIN pc = Goroutines
      /\ \A v \in Workers : pc[v] \in {"select", "handle", "send", "done"}
      /\ \A v \in Workers : pc[v] \in {"handle", "send"} => batch[v] # <<>>
  BY DEF FlowOK, PcOK, Loaded
<1>5. ASSUME pc[w] \in {"handle", "send"}
      PROVE  /\ Head(batch[w]) \in Authentic /\ Head(batch[w]) \in Points
             /\ Tail(batch[w]) \in Seq(Authentic)
             /\ Len(batch[w]) # 1 => Tail(batch[w]) # <<>>
  <2>1. batch[w] \in Seq(Authentic) /\ batch[w] # <<>>
    BY <1>4, <1>5
  <2>2. /\ Head(batch[w]) \in Authentic /\ Tail(batch[w]) \in Seq(Authentic)
        /\ Len(Tail(batch[w])) = Len(batch[w]) - 1 /\ Len(batch[w]) \in Nat
    BY <2>1, HeadTailProperties, LenProperties
  <2>3. Len(<<>>) = 0
    BY EmptySeq
  <2>4. Authentic \subseteq Points
    BY DEF Authentic
  <2>5. ASSUME Tail(batch[w]) = <<>>
        PROVE  Len(batch[w]) = 1
    <3>1. Len(Tail(batch[w])) = 0
      BY <2>3, <2>5
    <3> QED
      BY <2>2, <3>1
  <2> QED
    BY <2>2, <2>4, <2>5
(* The control state and the batch of w. *)
<1> DEFINE Moves ==
             \E b \in Seq(Authentic), p \in {"select", "handle", "send"} :
                /\ batch' = [batch EXCEPT ![w] = b] /\ pc' = [pc EXCEPT ![w] = p]
                /\ p # "select" => b # <<>>
                /\ pc[w] # "done"
<1>6. Moves
  <2>1. CASE SubWorkerReceive(w)
    <3>1. Head(subCh) \in Seq(Authentic) \ {<<>>}
      BY <2>1 DEF FlowOK, SubWorkerReceive
    <3> QED
      BY <2>1, <3>1 DEF SubWorkerReceive
  <2>2. ASSUME pc[w] \in {"handle", "send"}, NextPoint(w)
        PROVE  Moves
    BY <1>5, <2>2 DEF NextPoint
  <2>3. CASE HandleDataPoint(w) /\ UNCHANGED batch /\ pc' = [pc EXCEPT ![w] = "send"]
    <3>1. pc[w] = "handle" /\ batch[w] # <<>> /\ batch[w] \in Seq(Authentic)
      BY <1>4, <2>3 DEF HandleDataPoint
    <3>2. batch' = [batch EXCEPT ![w] = batch[w]]
      BY <1>4, <2>3
    <3> QED
      BY <2>3, <3>1, <3>2
  <2> QED
    BY <2>1, <2>2, <2>3 DEF SubWorker, HandleDataPoint, SendPoint
<1>7. PICK b \in Seq(Authentic), p \in {"select", "handle", "send"} :
         /\ batch' = [batch EXCEPT ![w] = b] /\ pc' = [pc EXCEPT ![w] = p]
         /\ p # "select" => b # <<>>
         /\ pc[w] # "done"
  BY <1>6
<1>8. PcOK' /\ WaitGroupExact'
  <2>1. PcOK'
    BY <1>3, <1>7 DEF PcOK, Goroutines
  <2>2. \A g \in Goroutines : pc'[g] = "done" <=> pc[g] = "done"
    BY <1>3, <1>4, <1>7
  <2> QED
    BY <1>1, <2>1, <2>2, WaitGroupFrame DEF stopVars
(* The channels and the counter. *)
<1>9. subCh' \in Seq(Seq(Authentic) \ {<<>>}) /\ Len(subCh') <= ChannelBufferSize
  <2> DEFINE N == Seq(Authentic) \ {<<>>}
  <2>1. subCh \in Seq(N) /\ Len(subCh) <= ChannelBufferSize /\ ChannelBufferSize \in Nat
    BY ConfigAssumption DEF FlowOK
  <2>2. subCh' = subCh \/ (subCh # <<>> /\ subCh' = Tail(subCh))
    BY DEF SubWorker, SubWorkerReceive, HandleDataPoint, SendPoint, chanVars
  <2> HIDE DEF N
  <2>3. subCh # <<>> => Tail(subCh) \in Seq(N) /\ Len(Tail(subCh)) = Len(subCh) - 1
    BY <2>1, HeadTailProperties
  <2>4. Len(subCh) \in Nat
    BY <2>1, LenProperties
  <2>5. CASE subCh' = subCh
    BY <2>1, <2>5 DEF N
  <2>6. CASE subCh # <<>> /\ subCh' = Tail(subCh)
    <3>1. subCh' \in Seq(N) /\ Len(subCh') = Len(subCh) - 1
      BY <2>3, <2>6
    <3>2. Len(subCh') <= ChannelBufferSize
      BY <2>1, <2>4, <3>1
    <3> QED
      BY <3>1, <3>2 DEF N
  <2> QED
    BY <2>2, <2>5, <2>6
<1>10. pubCh' \in Seq(Authentic) /\ Len(pubCh') <= ChannelBufferSize /\ dropped' \in Counters
  <2>1. /\ pubCh \in Seq(Authentic) /\ Len(pubCh) \in Nat /\ Len(pubCh) <= ChannelBufferSize
        /\ ChannelBufferSize \in Nat
    BY ConfigAssumption DEF FlowOK
  <2>2. CASE SendPoint(w)
    <3>1. Head(batch[w]) \in Authentic
      BY <1>5, <2>2 DEF SendPoint
    <3>2. dropped \in Counters /\ dropped \in Int
      BY ConfigAssumption DEF StateOK, Counters
    <3>3. Count(dropped, 1) \in Counters
      BY <3>2, CountInRange
    <3>4. CASE HasRoom(pubCh)
      <4>1. pubCh' = Append(pubCh, Head(batch[w])) /\ dropped' = dropped
        BY <2>2, <3>4 DEF SendPoint
      <4>2. pubCh' \in Seq(Authentic) /\ Len(pubCh') = Len(pubCh) + 1
        BY <2>1, <3>1, <4>1, AppendProperties
      <4> QED
        BY <2>1, <3>2, <3>4, <4>1, <4>2 DEF HasRoom
    <3>5. CASE ~HasRoom(pubCh)
      BY <2>1, <2>2, <3>3, <3>5 DEF SendPoint
    <3> QED
      BY <3>4, <3>5
  <2>3. CASE SubWorkerReceive(w) \/ HandleDataPoint(w)
    BY <2>1, <2>3 DEF SubWorkerReceive, HandleDataPoint, StateOK, chanVars, counterVars
  <2> QED
    BY <2>2, <2>3 DEF SubWorker
(* The pool. *)
<1>11. /\ Pool \subseteq Pool' /\ Pool' \subseteq NodeIDs
       /\ nodeStates' \in [Pool' -> States] /\ nodeIDs \in Seq(Pool')
       /\ PoolTruthful'
  <2>1. CASE HandleDataPoint(w)
    <3>1. PICK point : point = Head(batch[w])
      OBVIOUS
    <3>2. point \in Authentic /\ point \in Points
      BY <1>5, <2>1, <3>1 DEF HandleDataPoint
    <3>3. point.node \in NodeIDs /\ Refreshed(point) \in States
      BY <3>2 DEF Points, States, Refreshed
    <3>4. Truth(point.node, Refreshed(point).value, Refreshed(point).quality)
      BY <3>2 DEF Authentic, Refreshed
    <3>5. nodeStates' = PoolWith(point.node, Refreshed(point))
      BY <2>1, <3>1 DEF HandleDataPoint
    <3>6. UNCHANGED server
      BY <1>1 DEF envVars
    <3> QED
      BY <3>3, <3>4, <3>5, <3>6, PoolUpdate
  <2>2. CASE SubWorkerReceive(w) \/ SendPoint(w)
    <3>1. UNCHANGED nodeStates
      BY <2>2 DEF SubWorkerReceive, SendPoint
    <3>2. UNCHANGED server
      BY <1>1 DEF envVars
    <3> QED
      BY <1>2, <3>1, <3>2 DEF StateOK, PoolTruthful, Pool
  <2> QED
    BY <2>1, <2>2 DEF SubWorker
<1>12. StateOK'
  BY <1>1, <1>10, <1>11 DEF StateOK, envVars, stopVars, healthVars
<1>13. FlowOK(Authentic)'
  BY <1>1, <1>2, <1>4, <1>7, <1>9, <1>10 DEF FlowOK, envVars, healthVars
<1>14. Loaded'
  BY <1>1, <1>3, <1>4, <1>7, <1>11 DEF Loaded, healthVars
<1>15. Addressed' /\ Shutdown'
  BY <1>1 DEF Addressed, Shutdown, stopVars
<1> QED
  BY <1>8, <1>11, <1>12, <1>13, <1>14, <1>15

-----------------------------------------------------------------------------
(* The health check *)

(* What every step of the health check leaves alone, and the part of IInv  *)
(* that follows as soon as its own variables are in order.                 *)
HealthOK ==
    /\ pc["health"] \in {"select", "read", "apply", "push", "report", "done"}
    /\ allPoints \in Seq(Authentic)
    /\ \A i \in 1..Len(allPoints) : allPoints[i].node \in Pool
    /\ pushPoint \in Authentic \cup {NoPoint}
    /\ pc["health"] = "push" => pushPoint # NoPoint
    /\ toPublish \subseteq Authentic
    /\ pubCh \in Seq(Authentic) /\ Len(pubCh) <= ChannelBufferSize
    /\ Pool \subseteq NodeIDs /\ nodeStates \in [Pool -> States] /\ nodeIDs \in Seq(Pool)
    /\ PoolTruthful
    /\ stales \in Counters /\ offered \in Counters

LEMMA HealthFrame ==
    ASSUME IInv, HealthOK',
           UNCHANGED <<envVars, downstream, subCh, subClosed, pubClosed, stopVars, dropped,
                       successes, failures, batch, pubBatch>>,
           DOMAIN pc' = Goroutines, pc["health"] # "done", pc'["health"] # "done",
           \A g \in Goroutines \ {"health"} : pc'[g] = pc[g]
    PROVE  IInv'
<1> USE DEF IInv
<1>1. Authentic' = Authentic
  BY AuthenticFrame DEF envVars
<1>2. "health" \in Goroutines /\ Goroutines \ {"health"} = Workers \cup {"monitor", "publish"}
  BY WorkersAssumption DEF Goroutines
<1>3. PcOK'
  BY <1>2 DEF PcOK, HealthOK
<1>4. WaitGroupExact'
  <2>1. \A g \in Goroutines : pc'[g] = "done" <=> pc[g] = "done"
    BY <1>2
  <2> QED
    BY <2>1, WaitGroupFrame DEF stopVars
<1>5. StateOK'
  BY DEF StateOK, HealthOK, envVars, stopVars
<1>6. FlowOK(Authentic)'
  BY <1>1 DEF FlowOK, HealthOK, envVars
<1>7. Loaded'
  BY <1>2 DEF Loaded, HealthOK
<1>8. PoolTruthful' /\ Addressed' /\ Shutdown'
  BY DEF HealthOK, Addressed, Shutdown, stopVars
<1> QED
  BY <1>3, <1>4, <1>5, <1>6, <1>7, <1>8

LEMMA HealthOKFact == ASSUME IInv PROVE HealthOK
BY DEF IInv, HealthOK, StateOK, PcOK, FlowOK, Loaded

LEMMA HealthTickStep ==
    ASSUME IInv, HealthTick
    PROVE  IInv'
<1>1. /\ UNCHANGED <<envVars, downstream, chanVars, nodeStates, stopVars, counterVars, batch>>
      /\ UNCHANGED <<allPoints, pushPoint, toPublish, pubBatch>>
      /\ pc["health"] = "select" /\ nodeIDs' \in Orders(Pool)
      /\ pc' = [pc EXCEPT !["health"] = "read"]
  BY DEF HealthTick
<1>2. HealthOK /\ DOMAIN pc = Goroutines /\ "health" \in Goroutines
  BY HealthOKFact DEF IInv, PcOK, Goroutines
<1>3. Authentic' = Authentic /\ PoolTruthful'
  BY <1>1, <1>2, AuthenticFrame DEF HealthOK, PoolTruthful, Pool, envVars
<1>4. nodeIDs' \in Seq(Pool)
  <2>1. IsFiniteSet(Pool)
    BY <1>2, NodesAssumption, FS_Subset DEF HealthOK
  <2> QED
    BY <1>1, <2>1, OrdersAreSequences
<1>5. HealthOK'
  BY <1>1, <1>2, <1>3, <1>4 DEF HealthOK, Pool, chanVars, counterVars
<1> QED
  BY <1>1, <1>2, <1>5, HealthFrame DEF chanVars, counterVars

(* A read, good or failed: the outcome is some points of nodes in the pool.*)
LEMMA ReadStep ==
    ASSUME IInv, NEW outcome \in Seq(Authentic),
           \A i \in 1..Len(outcome) : outcome[i].node \in Pool,
           ReadBatch(outcome)
    PROVE  IInv'
<1>1. /\ UNCHANGED <<envVars, downstream, chanVars, nodeStates, stopVars, counterVars, batch>>
      /\ UNCHANGED <<pushPoint, toPublish, pubBatch>>
      /\ pc["health"] = "read"
      /\ allPoints' = allPoints \o outcome
      /\ nodeIDs' = SubSeq(nodeIDs, HealthBatchSize + 1, Len(nodeIDs))
      /\ pc' = [pc EXCEPT !["health"] = IF nodeIDs' = <<>> THEN "apply" ELSE "read"]
  BY DEF ReadBatch
<1>2. HealthOK /\ DOMAIN pc = Goroutines /\ "health" \in Goroutines
  BY HealthOKFact DEF IInv, PcOK, Goroutines
<1>3. Authentic' = Authentic /\ PoolTruthful'
  BY <1>1, <1>2, AuthenticFrame DEF HealthOK, PoolTruthful, Pool, envVars
<1>4. nodeIDs' \in Seq(Pool)
  <2>1. \A i \in (HealthBatchSize + 1)..Len(nodeIDs) : nodeIDs[i] \in Pool
    BY <1>2, ConfigAssumption DEF HealthOK
  <2>2. HealthBatchSize + 1 \in Int /\ Len(nodeIDs) \in Int
    BY <1>2, ConfigAssumption DEF HealthOK
  <2> QED
    BY <1>1, <2>1, <2>2, SubSeqProperties
<1>5. allPoints' \in Seq(Authentic) /\ \A i \in 1..Len(allPoints') : allPoints'[i].node \in Pool
  <2>1. allPoints \in Seq(Authentic) /\ Len(allPoints) \in Nat /\ Len(outcome) \in Nat
    BY <1>2 DEF HealthOK
  <2>2. /\ allPoints' \in Seq(Authentic) /\ Len(allPoints') = Len(allPoints) + Len(outcome)
        /\ \A i \in 1..Len(allPoints') :
              allPoints'[i] = IF i <= Len(allPoints) THEN allPoints[i] ELSE outcome[i - Len(allPoints)]
    BY <1>1, <2>1, ConcatProperties
  <2>3. \A i \in 1..Len(allPoints) : allPoints[i].node \in Pool
    BY <1>2 DEF HealthOK
  <2>4. ASSUME NEW i \in 1..Len(allPoints')
        PROVE  allPoints'[i].node \in Pool
    <3>1. CASE i <= Len(allPoints)
      BY <2>1, <2>2, <2>3, <3>1
    <3>2. CASE ~(i <= Len(allPoints))
      <4>1. i - Len(allPoints) \in 1..Len(outcome)
        BY <2>1, <2>2, <3>2
      <4> QED
        BY <2>2, <3>2, <4>1
    <3> QED
      BY <3>1, <3>2
  <2> QED
    BY <2>2, <2>4
<1>6. HealthOK'
  BY <1>1, <1>2, <1>3, <1>4, <1>5 DEF HealthOK, Pool, chanVars, counterVars
<1> QED
  BY <1>1, <1>2, <1>6, HealthFrame DEF chanVars, counterVars

LEMMA HealthReadStep ==
    ASSUME IInv, HealthReadOK \/ HealthReadFail
    PROVE  IInv'
<1>1. CASE HealthReadFail
  <2>1. PICK outcome : outcome = <<>>
    OBVIOUS
  <2>2. outcome \in Seq(Authentic) /\ Len(outcome) = 0
    BY <2>1, EmptySeq
  <2>3. \A i \in 1..Len(outcome) : outcome[i].node \in Pool
    BY <2>2
  <2>4. ReadBatch(outcome)
    BY <1>1, <2>1 DEF HealthReadFail
  <2> QED
    BY <2>2, <2>3, <2>4, ReadStep
<1>2. CASE HealthReadOK
  <2>1. PICK ids : ids = CurrentBatch
    OBVIOUS
  <2>2. ids \in Seq(Pool)
    <3> DEFINE last == IF Len(nodeIDs) < HealthBatchSize THEN Len(nodeIDs) ELSE HealthBatchSize
    <3>1. nodeIDs \in Seq(Pool) /\ Len(nodeIDs) \in Nat /\ HealthBatchSize \in Nat
      BY ConfigAssumption DEF IInv, StateOK
    <3>2. last \in Int /\ \A i \in 1..last : nodeIDs[i] \in Pool
      BY <3>1
    <3> QED
      BY <2>1, <3>2, SubSeqProperties DEF CurrentBatch
  <2>3. PICK outcome : outcome = ReadAll(ids)
    OBVIOUS
  <2>4. /\ outcome \in Seq(Points)
        /\ \A i \in 1..Len(outcome) :
              /\ outcome[i].node \in Pool
              /\ Strays = {} => outcome[i].value = server[outcome[i].node]
              /\ outcome[i].value \in Samples /\ outcome[i].quality = outcome[i].value.quality
    BY <2>2, <2>3, ReadAllResults DEF IInv
  <2>5. ASSUME NEW i \in 1..Len(outcome)
        PROVE  outcome[i] \in Authentic
    <3>1. PICK p : p = outcome[i]
      OBVIOUS
    <3>2. p \in Points /\ p.node \in NodeIDs
      <4>1. p \in Points
        BY <2>4, <3>1, ElementOfSeq
      <4> QED
        BY <4>1 DEF Points
    <3>3. Strays = {} => p.value = server[p.node] /\ p.quality = p.value.quality /\ p.value \in Samples
      BY <2>4, <3>1
    <3>4. server[p.node].of = p.node /\ server[p.node] \in Samples /\ server[p.node].ver \in Nat
      BY <3>2 DEF IInv, PoolTruthful, StateOK, Samples
    <3>5. Truth(p.node, p.value, p.quality)
      BY <3>3, <3>4, NilAssumption DEF Truth, F!Truthful, F!Samples, Samples
    <3> QED
      BY <3>1, <3>2, <3>5 DEF Authentic
  <2>6. outcome \in Seq(Authentic)
    <3>1. Len(outcome) \in Nat /\ outcome = [i \in 1..Len(outcome) |-> outcome[i]]
      BY <2>4
    <3> QED
      BY <2>5, <3>1
  <2>7. ReadBatch(outcome)
    BY <1>2, <2>1, <2>3 DEF HealthReadOK
  <2> QED
    BY <2>4, <2>6, <2>7, ReadStep
<1> QED
  BY <1>1, <1>2

(* A sequence without its head.                                            *)
LEMMA TailOfSeq ==
    ASSUME NEW S, NEW seq \in Seq(S), seq # <<>>
    PROVE  /\ Head(seq) \in S /\ Tail(seq) \in Seq(S)
           /\ Len(Tail(seq)) = Len(seq) - 1 /\ Len(seq) \in Nat \ {0}
           /\ Head(seq) = seq[1]
           /\ \A i \in 1..Len(Tail(seq)) : Tail(seq)[i] = seq[i + 1]
<1>1. Len(seq) \in Nat /\ Len(seq) # 0
  BY EmptySeq, LenProperties
<1>2. Head(seq) \in S /\ Tail(seq) \in Seq(S) /\ Len(Tail(seq)) = Len(seq) - 1
  BY HeadTailProperties
<1>3. Head(seq) = seq[1]
  BY HeadTailProperties
<1>4. \A i \in 1..Len(Tail(seq)) : Tail(seq)[i] = seq[i + 1]
  BY HeadTailProperties
<1> QED
  BY <1>1, <1>2, <1>3, <1>4

(* What a heartbeat leaves in the pool is as true as the heartbeat.        *)
LEMMA AfterHeartbeatOK ==
    ASSUME StateOK, PoolTruthful, NEW point \in Authentic, point.node \in Pool
    PROVE  LET state == AfterHeartbeat(point)
           IN  state \in States /\ Truth(point.node, state.value, state.quality)
<1>1. nodeStates[point.node] \in States
  BY DEF StateOK
<1>2. Truth(point.node, nodeStates[point.node].value, nodeStates[point.node].quality)
  BY DEF PoolTruthful
<1>3. point \in Points /\ Truth(point.node, point.value, point.quality)
  BY DEF Authentic
<1>4. CASE point.quality = "Good"
  BY <1>1, <1>3, <1>4 DEF AfterHeartbeat, Refreshed, States, Points
<1>5. CASE point.quality # "Good"
  <2>1. AfterHeartbeat(point) \in States
    BY <1>1, <1>3, <1>5 DEF AfterHeartbeat, States, Points
  <2>2. /\ AfterHeartbeat(point).value = nodeStates[point.node].value
        /\ AfterHeartbeat(point).quality = point.quality
    BY <1>1, <1>5 DEF AfterHeartbeat, States
  <2> QED
    BY <1>2, <1>5, <2>1, <2>2 DEF Truth, F!Truthful
<1> QED
  BY <1>4, <1>5

LEMMA HeartbeatStep ==
    ASSUME IInv, HandleHeartbeatResult
    PROVE  IInv'
<1>s. PICK point : point = Head(allPoints)
  OBVIOUS
<1>t. PICK state : state = AfterHeartbeat(point)
  OBVIOUS
<1>1. /\ UNCHANGED <<envVars, downstream, chanVars, stopVars, dropped, successes, failures>>
      /\ UNCHANGED <<stales, batch, nodeIDs, toPublish, pubBatch>>
      /\ pc["health"] = "apply" /\ allPoints # <<>>
      /\ nodeStates' = PoolWith(point.node, state)
      /\ \/ /\ pushPoint' = AsPoint(point.node, state)
            /\ offered' = Count(offered, 1)
            /\ pc' = [pc EXCEPT !["health"] = "push"]
         \/ UNCHANGED <<pushPoint, offered, pc>>
      /\ allPoints' = Tail(allPoints)
  BY <1>s, <1>t DEF HandleHeartbeatResult
<1>2. HealthOK /\ DOMAIN pc = Goroutines /\ "health" \in Goroutines
  BY HealthOKFact DEF IInv, PcOK, Goroutines
<1>3. /\ point \in Authentic /\ point.node \in Pool
      /\ allPoints' \in Seq(Authentic)
      /\ \A i \in 1..Len(allPoints') : allPoints'[i].node \in Pool
  <2>1. /\ point \in Authentic /\ point = allPoints[1] /\ allPoints' \in Seq(Authentic)
        /\ Len(allPoints') = Len(allPoints) - 1 /\ Len(allPoints) \in Nat \ {0}
        /\ \A i \in 1..Len(allPoints') : allPoints'[i] = allPoints[i + 1]
    BY <1>s, <1>1, <1>2, TailOfSeq DEF HealthOK
  <2>2. 1 \in 1..Len(allPoints) /\ \A i \in 1..Len(allPoints') : i + 1 \in 1..Len(allPoints)
    BY <2>1
  <2> QED
    BY <1>2, <2>1, <2>2 DEF HealthOK
<1>4. state \in States /\ Truth(point.node, state.value, state.quality) /\ point.node \in NodeIDs
  BY <1>t, <1>2, <1>3, AfterHeartbeatOK DEF IInv, HealthOK
<1>5. /\ Pool' = Pool \cup {point.node} /\ Pool' \subseteq NodeIDs
      /\ nodeStates' \in [Pool' -> States] /\ nodeIDs \in Seq(Pool')
      /\ PoolTruthful'
  BY <1>1, <1>2, <1>4, PoolUpdate DEF IInv, HealthOK, envVars
<1>6. Authentic' = Authentic
  BY <1>1, AuthenticFrame DEF envVars
<1>7. AsPoint(point.node, state) \in Authentic
  BY <1>4 DEF AsPoint, Authentic, Points, States
<1>8. /\ pc'["health"] \in {"apply", "push"} /\ pushPoint' \in Authentic \cup {NoPoint}
      /\ pc'["health"] = "push" => pushPoint' # NoPoint
      /\ offered' \in Counters
      /\ DOMAIN pc' = Goroutines /\ \A g \in Goroutines \ {"health"} : pc'[g] = pc[g]
  <2>1. CASE UNCHANGED <<pushPoint, offered, pc>>
    BY <1>1, <1>2, <2>1 DEF HealthOK
  <2>2. CASE /\ pushPoint' = AsPoint(point.node, state)
             /\ offered' = Count(offered, 1)
             /\ pc' = [pc EXCEPT !["health"] = "push"]
    <3>1. offered' \in Counters
      <4>1. offered \in Int
        BY <1>2, ConfigAssumption DEF HealthOK, Counters
      <4> QED
        BY <2>2, <4>1, CountInRange
    <3>2. AsPoint(point.node, state) # NoPoint
      BY <1>7, NilAssumption DEF Authentic
    <3> QED
      BY <1>2, <1>7, <2>2, <3>1, <3>2
  <2> QED
    BY <1>1, <2>1, <2>2
<1>9. HealthOK'
  BY <1>1, <1>2, <1>3, <1>5, <1>6, <1>8 DEF HealthOK, chanVars
<1> QED
  BY <1>1, <1>8, <1>9, HealthFrame DEF chanVars

(* Putting a point that is authentic into pubCh.                           *)
LEMMA PubChGrows ==
    ASSUME pubCh \in Seq(Authentic), Len(pubCh) <= ChannelBufferSize, HasRoom(pubCh),
           NEW p \in Authentic
    PROVE  Append(pubCh, p) \in Seq(Authentic) /\ Len(Append(pubCh, p)) <= ChannelBufferSize
<1>1. Append(pubCh, p) \in Seq(Authentic) /\ Len(Append(pubCh, p)) = Len(pubCh) + 1
  BY AppendProperties
<1> QED
  BY <1>1, LenProperties, ConfigAssumption DEF HasRoom

LEMMA HealthSendStep ==
    ASSUME IInv, HealthPush \/ HealthReport
    PROVE  IInv'
<1>1. PICK p : /\ \/ p = pushPoint /\ pc["health"] = "push" /\ pushPoint' = NoPoint
                     /\ toPublish' = toPublish
                  \/ p \in toPublish /\ pc["health"] = "report" /\ pushPoint' = pushPoint
                     /\ toPublish' = toPublish \ {p}
               /\ pubCh' = Append(pubCh, p)
  BY DEF HealthPush, HealthReport
<1>2. /\ UNCHANGED <<envVars, downstream, subCh, subClosed, pubClosed, nodeStates, stopVars>>
      /\ UNCHANGED <<counterVars, batch, nodeIDs, allPoints, pubBatch>>
      /\ HasRoom(pubCh)
      /\ \E q \in {"apply", "select", "report"} : pc' = [pc EXCEPT !["health"] = q]
  BY DEF HealthPush, HealthReport
<1>3. HealthOK /\ DOMAIN pc = Goroutines /\ "health" \in Goroutines
  BY HealthOKFact DEF IInv, PcOK, Goroutines
<1>4. Authentic' = Authentic /\ PoolTruthful'
  BY <1>2, <1>3, AuthenticFrame DEF HealthOK, PoolTruthful, Pool, envVars
<1>5. p \in Authentic
  BY <1>1, <1>3 DEF HealthOK
<1>6. pubCh' \in Seq(Authentic) /\ Len(pubCh') <= ChannelBufferSize
  BY <1>1, <1>2, <1>3, <1>5, PubChGrows DEF HealthOK
<1>7. HealthOK'
  BY <1>1, <1>2, <1>3, <1>4, <1>6 DEF HealthOK, Pool, counterVars
<1>8. /\ DOMAIN pc' = Goroutines /\ pc["health"] # "done" /\ pc'["health"] # "done"
      /\ \A g \in Goroutines \ {"health"} : pc'[g] = pc[g]
  BY <1>1, <1>2, <1>3
<1> QED
  BY <1>2, <1>7, <1>8, HealthFrame DEF counterVars

(* What a Stale report says is true: it never claims a good quality.       *)
LEMMA StaleReportOK ==
    ASSUME StateOK, PoolTruthful, NEW n \in Pool
    PROVE  StaleReport(n) \in Authentic
<1>1. nodeStates[n] \in States /\ n \in NodeIDs /\ now \in Int
  BY DEF StateOK
<1>2. Truth(n, nodeStates[n].value, nodeStates[n].quality)
  BY DEF PoolTruthful
<1>3. StaleReport(n) \in Points
  BY <1>1 DEF StaleReport, Points, States, Qualities
<1>4. Truth(n, nodeStates[n].value, "Stale")
  BY <1>2 DEF Truth, F!Truthful
<1> QED
  BY <1>3, <1>4 DEF Authentic, StaleReport

LEMMA CheckStaleStep ==
    ASSUME IInv, CheckStaleNodes
    PROVE  IInv'
<1>1. /\ UNCHANGED <<envVars, downstream, chanVars, stopVars, dropped, successes, failures>>
      /\ UNCHANGED <<batch, nodeIDs, allPoints, pushPoint, pubBatch>>
      /\ pc["health"] = "apply"
      /\ nodeStates' = [n \in Pool |-> IF n \in NewlyStale
                                       THEN [nodeStates[n] EXCEPT !.status = "Stale"]
                                       ELSE nodeStates[n]]
      /\ stales' = Count(stales, Cardinality(NewlyStale))
      /\ \/ /\ toPublish' = {StaleReport(n) : n \in NewlyStale}
            /\ offered' = Count(offered, Cardinality(NewlyStale))
         \/ UNCHANGED <<toPublish, offered>>
      /\ \E q \in {"select", "report"} : pc' = [pc EXCEPT !["health"] = q]
  BY DEF CheckStaleNodes
<1>2. HealthOK /\ DOMAIN pc = Goroutines /\ "health" \in Goroutines
  BY HealthOKFact DEF IInv, PcOK, Goroutines
<1>3. Authentic' = Authentic
  BY <1>1, AuthenticFrame DEF envVars
<1>4. Pool' = Pool /\ \A n \in Pool : /\ nodeStates'[n] \in States
                                       /\ nodeStates'[n].value = nodeStates[n].value
                                       /\ nodeStates'[n].quality = nodeStates[n].quality
  <2>1. DOMAIN nodeStates' = Pool
    BY <1>1
  <2>2. ASSUME NEW n \in Pool
        PROVE  /\ nodeStates'[n] \in States
               /\ nodeStates'[n].value = nodeStates[n].value
               /\ nodeStates'[n].quality = nodeStates[n].quality
    <3>1. nodeStates[n] \in States
      BY <1>2 DEF HealthOK
    <3>2. nodeStates'[n] = nodeStates[n] \/ nodeStates'[n] = [nodeStates[n] EXCEPT !.status = "Stale"]
      BY <1>1
    <3> QED
      BY <3>1, <3>2 DEF States
  <2> QED
    BY <2>1, <2>2 DEF Pool
<1>5. nodeStates' \in [Pool' -> States]
  BY <1>1, <1>4
<1>6. PoolTruthful'
  BY <1>1, <1>2, <1>4, AuthenticFrame DEF HealthOK, PoolTruthful, envVars
<1>7. NewlyStale \subseteq Pool /\ IsFiniteSet(NewlyStale) /\ Cardinality(NewlyStale) \in Int
  <2>1. NewlyStale \in SUBSET NodeIDs /\ NewlyStale \subseteq Pool
    BY <1>2 DEF HealthOK, NewlyStale
  <2> QED
    BY <2>1, NodesAssumption, FS_Subset, FS_CardinalityType
<1>8. toPublish' \subseteq Authentic
  BY <1>1, <1>2, <1>7, StaleReportOK DEF HealthOK, IInv
<1>9. stales' \in Counters /\ offered' \in Counters
  <2>1. stales \in Int /\ offered \in Int
    BY <1>2, ConfigAssumption DEF HealthOK, Counters
  <2> QED
    BY <1>1, <1>2, <1>7, <2>1, CountInRange DEF HealthOK
<1>10. HealthOK'
  BY <1>1, <1>2, <1>3, <1>4, <1>5, <1>6, <1>8, <1>9 DEF HealthOK, chanVars
<1>11. /\ DOMAIN pc' = Goroutines /\ pc'["health"] # "done"
       /\ \A g \in Goroutines \ {"health"} : pc'[g] = pc[g]
  BY <1>1, <1>2
<1> QED
  BY <1>1, <1>10, <1>11, HealthFrame DEF chanVars

-----------------------------------------------------------------------------
(* publishWorker and the subscribers *)

(* What the steps of publishWorker leave alone, and what then suffices.    *)
LEMMA PublishFrame ==
    ASSUME IInv,
           UNCHANGED <<envVars, subCh, subClosed, pubClosed, nodeStates, stopVars, dropped,
                       stales, batch, healthVars>>,
           pubCh' \in Seq(Authentic), Len(pubCh') <= ChannelBufferSize,
           pubBatch' \subseteq Authentic, IsFiniteSet(pubBatch'),
           downstream' \in [NodeIDs -> Authentic \cup {NoPoint}], Addressed',
           successes' \in Counters, failures' \in Counters, offered' \in Counters,
           NEW q \in {"select", "publish"}, pc["publish"] # "done",
           pc' = [pc EXCEPT !["publish"] = q]
    PROVE  IInv'
<1> USE DEF IInv
<1>1. Authentic' = Authentic /\ PoolTruthful'
  BY AuthenticFrame DEF PoolTruthful, Pool, envVars
<1>2. "publish" \in Goroutines /\ \A w \in Workers : w \in Goroutines /\ w # "publish"
  BY WorkersAssumption DEF Goroutines
<1>3. PcOK'
  BY <1>2 DEF PcOK, Goroutines
<1>4. WaitGroupExact'
  <2>1. \A g \in Goroutines : pc'[g] = "done" <=> pc[g] = "done"
    BY <1>2 DEF PcOK
  <2> QED
    BY <2>1, WaitGroupFrame DEF stopVars
<1>5. StateOK'
  BY DEF StateOK, Pool, envVars, stopVars, healthVars
<1>6. FlowOK(Authentic)'
  BY <1>1 DEF FlowOK, envVars, healthVars
<1>7. Loaded'
  BY <1>2 DEF Loaded, PcOK, Goroutines, Pool, healthVars
<1>8. Shutdown'
  BY DEF Shutdown, stopVars
<1> QED
  BY <1>1, <1>3, <1>4, <1>5, <1>6, <1>7, <1>8

LEMMA PublishReceiveStep ==
    ASSUME IInv, PublishReceive
    PROVE  IInv'
<1>1. /\ UNCHANGED <<envVars, subCh, subClosed, pubClosed, nodeStates, stopVars, dropped,
                     stales, batch, healthVars>>
      /\ UNCHANGED <<downstream, successes, failures, offered>>
      /\ pubCh # <<>> /\ pubCh' = Tail(pubCh) /\ pubBatch' = {Head(pubCh)}
      /\ pc["publish"] = "select" /\ pc' = [pc EXCEPT !["publish"] = "publish"]
  BY DEF PublishReceive, counterVars
<1>2. /\ pubCh \in Seq(Authentic) /\ Len(pubCh) <= ChannelBufferSize
      /\ downstream \in [NodeIDs -> Authentic \cup {NoPoint}]
      /\ successes \in Counters /\ failures \in Counters /\ offered \in Counters
      /\ Addressed
  BY DEF IInv, FlowOK, StateOK
<1>3. /\ pubCh' \in Seq(Authentic) /\ Head(pubCh) \in Authentic
      /\ Len(pubCh') = Len(pubCh) - 1 /\ Len(pubCh) \in Nat \ {0}
  BY <1>1, <1>2, TailOfSeq
<1>4. Len(pubCh') <= ChannelBufferSize
  BY <1>2, <1>3, ConfigAssumption
<1>5. IsFiniteSet(pubBatch') /\ pubBatch' \subseteq Authentic
  BY <1>1, <1>3, FS_Singleton
<1>6. Addressed'
  BY <1>1, <1>2 DEF Addressed
<1> QED
  BY <1>1, <1>2, <1>3, <1>4, <1>5, <1>6, PublishFrame

(* What the pool says may be published.                                    *)
LEMMA SnapshotOK ==
    ASSUME StateOK, PoolTruthful
    PROVE  /\ Snapshot \subseteq Authentic /\ IsFiniteSet(Snapshot)
           /\ IsFiniteSet(Pool) /\ Cardinality(Pool) \in Int
<1>1. IsFiniteSet(Pool) /\ Cardinality(Pool) \in Int
  BY NodesAssumption, FS_Subset, FS_CardinalityType DEF StateOK
<1>2. ASSUME NEW n \in Pool
      PROVE  AsPoint(n, nodeStates[n]) \in Authentic
  <2>1. nodeStates[n] \in States /\ n \in NodeIDs
    BY DEF StateOK
  <2>2. Truth(n, nodeStates[n].value, nodeStates[n].quality)
    BY DEF PoolTruthful
  <2> QED
    BY <2>1, <2>2 DEF AsPoint, Authentic, Points, States
<1>3. Snapshot \subseteq Authentic
  BY <1>2 DEF Snapshot
<1>4. IsFiniteSet(Snapshot)
  <2> DEFINE say == [n \in Pool |-> AsPoint(n, nodeStates[n])]
  <2>1. say \in Surjection(Pool, Snapshot)
    BY DEF Surjection, Snapshot
  <2> QED
    BY <1>1, <2>1, FS_Surjection
<1> QED
  BY <1>1, <1>3, <1>4

LEMMA PublishTickStep ==
    ASSUME IInv, PublishTick
    PROVE  IInv'
<1>1. /\ UNCHANGED <<envVars, subCh, subClosed, pubClosed, nodeStates, stopVars, dropped,
                     stales, batch, healthVars>>
      /\ UNCHANGED <<downstream, successes, failures, pubCh>>
      /\ pubBatch' = Snapshot
      /\ offered' = Count(offered, Cardinality(Pool))
      /\ pc["publish"] = "select" /\ pc' = [pc EXCEPT !["publish"] = "publish"]
  BY DEF PublishTick, chanVars
<1>2. /\ pubCh \in Seq(Authentic) /\ Len(pubCh) <= ChannelBufferSize
      /\ downstream \in [NodeIDs -> Authentic \cup {NoPoint}]
      /\ successes \in Counters /\ failures \in Counters /\ offered \in Int
      /\ Addressed
  BY ConfigAssumption DEF IInv, FlowOK, StateOK, Counters
<1>3. /\ pubBatch' \subseteq Authentic /\ IsFiniteSet(pubBatch')
      /\ Cardinality(Pool) \in Int
  BY <1>1, SnapshotOK DEF IInv
<1>4. offered' \in Counters
  BY <1>1, <1>2, <1>3, CountInRange
<1>5. Addressed'
  BY <1>1, <1>2 DEF Addressed
<1> QED
  BY <1>1, <1>2, <1>3, <1>4, <1>5, PublishFrame

(* Everybody who is told something is told about the right node.           *)
LEMMA ReceivedOK ==
    ASSUME FlowOK(Authentic), Addressed
    PROVE  /\ Received \in [NodeIDs -> Authentic \cup {NoPoint}]
           /\ \A n \in NodeIDs : Received[n] = downstream[n]
                                 \/ (Received[n] \in Authentic /\ Received[n].node = n)
<1>1. pubBatch \subseteq Authentic /\ downstream \in [NodeIDs -> Authentic \cup {NoPoint}]
  BY DEF FlowOK
<1> DEFINE Told(n) == \E p \in pubBatch : p.node = n
<1>2. ASSUME NEW n \in NodeIDs, Told(n)
      PROVE  Received[n] \in Authentic /\ Received[n].node = n
  <2>1. PICK p : p = CHOOSE x \in pubBatch : x.node = n
    OBVIOUS
  <2>2. p \in pubBatch /\ p.node = n
    BY <1>2, <2>1
  <2>3. Received[n] = p
    BY <1>2, <2>1 DEF Received
  <2> QED
    BY <1>1, <2>2, <2>3
<1>3. ASSUME NEW n \in NodeIDs, ~Told(n)
      PROVE  Received[n] = downstream[n]
  BY <1>3 DEF Received
<1> HIDE DEF Told
<1>4. \A n \in NodeIDs : Received[n] \in Authentic \cup {NoPoint}
  BY <1>1, <1>2, <1>3
<1>5. Received = [n \in NodeIDs |-> Received[n]]
  BY DEF Received
<1>6. Received \in [NodeIDs -> Authentic \cup {NoPoint}]
  BY <1>4, <1>5
<1>7. ASSUME NEW n \in NodeIDs
      PROVE  Received[n] = downstream[n] \/ (Received[n] \in Authentic /\ Received[n].node = n)
  BY <1>2, <1>3
<1> QED
  BY <1>6, <1>7

LEMMA ProcessBatchStep ==
    ASSUME IInv, ProcessBatch
    PROVE  IInv'
<1>1. /\ UNCHANGED <<envVars, subCh, subClosed, pubClosed, nodeStates, stopVars, dropped,
                     stales, batch, healthVars>>
      /\ UNCHANGED <<pubCh, offered>>
      /\ \/ /\ downstream' = Received
            /\ successes' = Count(successes, Cardinality(pubBatch))
            /\ UNCHANGED failures
         \/ /\ failures' = Count(failures, Cardinality(pubBatch))
            /\ UNCHANGED <<downstream, successes>>
      /\ pubBatch' = {}
      /\ pc["publish"] = "publish" /\ pc' = [pc EXCEPT !["publish"] = "select"]
  BY DEF ProcessBatch, FailedPoints, chanVars
<1>2. /\ pubCh \in Seq(Authentic) /\ Len(pubCh) <= ChannelBufferSize
      /\ downstream \in [NodeIDs -> Authentic \cup {NoPoint}]
      /\ successes \in Counters /\ failures \in Counters /\ offered \in Counters
      /\ successes \in Int /\ failures \in Int /\ Cardinality(pubBatch) \in Int
  BY ConfigAssumption, FS_CardinalityType DEF IInv, FlowOK, StateOK, Counters, Loaded
<1>3. successes' \in Counters /\ failures' \in Counters /\ offered' \in Counters
  BY <1>1, <1>2, CountInRange
<1>4. /\ Received \in [NodeIDs -> Authentic \cup {NoPoint}]
      /\ \A n \in NodeIDs : Received[n] = downstream[n] \/ Received[n].node = n
  BY ReceivedOK DEF IInv
<1>5. downstream' \in [NodeIDs -> Authentic \cup {NoPoint}]
  BY <1>1, <1>2, <1>4
<1>6. Addressed'
  BY <1>1, <1>4 DEF IInv, Addressed
<1>7. pubBatch' \subseteq Authentic /\ IsFiniteSet(pubBatch') /\ pubCh' = pubCh
  BY <1>1, FS_EmptySet
<1> QED
  BY <1>1, <1>2, <1>3, <1>5, <1>6, <1>7, PublishFrame

-----------------------------------------------------------------------------
(* Theorems about every behavior of Collector *)

(* Every step keeps the inductive invariant.                               *)
LEMMA NextIInv == IInv /\ [Next]_vars => IInv'
<1> SUFFICES ASSUME IInv, [Next]_vars PROVE IInv'
  OBVIOUS
<1>1. CASE \E n \in NodeIDs : ServerChange(n)
  BY <1>1, ServerStep
<1>2. CASE Tick \/ NatsDown \/ NatsUp \/ HandlerPanic \/ Cancel \/ CloseSubCh \/ ClosePubCh
  BY <1>2, QuietStep
<1>3. CASE HandlerSend \/ HandlerDrop
  BY <1>3, HandlerStep
<1>4. CASE \E w \in Workers : SubWorker(w)
  BY <1>4, SubWorkerStep
<1>5. CASE HealthCheck
  BY <1>5, HealthTickStep, HealthReadStep, HeartbeatStep, HealthSendStep, CheckStaleStep
     DEF HealthCheck
<1>6. CASE Publish
  BY <1>6, PublishReceiveStep, PublishTickStep, ProcessBatchStep DEF Publish
<1>7. CASE \E g \in Goroutines : Exit(g)
  BY <1>7, ExitStep
<1>8. CASE UNCHANGED vars
  <2>1. /\ UNCHANGED <<envVars, downstream, chanVars, nodeStates, stopVars, counterVars, pc, batch>>
        /\ UNCHANGED <<healthVars, pubBatch>>
    BY <1>8 DEF vars
  <2>2. Authentic' = Authentic /\ PoolTruthful'
    BY <2>1, AuthenticFrame DEF IInv, PoolTruthful, Pool, envVars
  <2>3. StateOK'
    BY <2>1 DEF IInv, StateOK, Pool, envVars, chanVars, stopVars, counterVars, healthVars
  <2>4. FlowOK(Authentic)'
    BY <2>1, <2>2 DEF IInv, FlowOK, envVars, chanVars, healthVars
  <2>5. PcOK' /\ Loaded' /\ Addressed' /\ WaitGroupExact' /\ Shutdown'
    BY <2>1 DEF IInv, PcOK, Loaded, Pool, Addressed, WaitGroupExact, Shutdown, chanVars,
               stopVars, healthVars
  <2> QED
    BY <2>2, <2>3, <2>4, <2>5 DEF IInv
<1> QED
  BY <1>1, <1>2, <1>3, <1>4, <1>5, <1>6, <1>7, <1>8 DEF Next, Environment, Handler

(* IInv is an invariant of the collector.                                  *)
THEOREM Invariance == Spec => []IInv
<1>1. Init => IInv
  BY InitIInv
<1>2. IInv /\ [Next]_vars => IInv'
  BY NextIInv
<1> QED
  BY <1>1, <1>2, PTL DEF Spec

(* The variables of the collector always have their types, and neither     *)
(* channel ever holds more than its capacity (collector.go).               *)
THEOREM TypeCorrect == Spec => []TypeOK
<1>1. IInv => TypeOK
  <2> SUFFICES ASSUME IInv PROVE TypeOK
    OBVIOUS
  <2>1. Authentic \subseteq Points
    BY DEF Authentic
  <2> DEFINE N == Seq(Authentic) \ {<<>>}
             M == Seq(Points) \ {<<>>}
  <2>2. Seq(Authentic) \subseteq Seq(Points)
    BY <2>1
  <2>3. notifs \in Seq(N) /\ subCh \in Seq(N) /\ N \subseteq M
    BY <2>2 DEF IInv, FlowOK
  <2>4. notifs \in Seq(M) /\ subCh \in Seq(M)
    <3> HIDE DEF N, M
    <3> QED
      BY <2>3
  <2>5. FlowOK(Points)
    BY <2>1, <2>2, <2>4 DEF IInv, FlowOK
  <2> QED
    BY <2>5 DEF IInv, TypeOK
<1> QED
  BY <1>1, Invariance, PTL

(* Stop closes the channels only when no goroutine of the collector can    *)
(* use them any more (the wg.Wait of Stop in collector.go).                *)
THEOREM QuietClose == Spec => []ClosedOnlyWhenQuiet
<1>1. IInv => ClosedOnlyWhenQuiet
  <2> SUFFICES ASSUME IInv, subClosed \/ pubClosed
               PROVE  ctxDone /\ \A g \in Goroutines : pc[g] = "done"
    BY DEF ClosedOnlyWhenQuiet
  <2>1. ctxDone /\ wg = 0
    BY DEF IInv, Shutdown, Ended
  <2> DEFINE live == {g \in Goroutines : pc[g] # "done"}
  <2>2. IsFiniteSet(live) /\ Cardinality(live) = 0
    <3>1. Goroutines = ((Workers \cup {"monitor"}) \cup {"health"}) \cup {"publish"}
      BY DEF Goroutines
    <3>2. IsFiniteSet(Goroutines)
      BY <3>1, WorkersAssumption, FS_AddElement
    <3> QED
      BY <2>1, <3>2, FS_Subset DEF IInv, WaitGroupExact
  <2>3. live = {}
    BY <2>2, FS_EmptySet
  <2> QED
    BY <2>1, <2>3
<1> QED
  BY <1>1, Invariance, PTL

(* No interleaving of notifications, heartbeats, stale checks and time     *)
(* leaves a good node marked Stale although it was heard of within the     *)
(* threshold (handleDataPoint, handleHeartbeatResult, checkStaleNodes).    *)
THEOREM StaleSafe == Spec => []StaleOnlyIfSilent
<1>1. Init => StaleOnlyIfSilent
  <2> SUFFICES ASSUME Init PROVE StaleOnlyIfSilent
    OBVIOUS
  <2>1. nodeStates = [n \in Nodes |-> [value |-> NoValue, quality |-> "", timestamp |-> now,
                                      status |-> "Online"]]
    BY DEF Init
  <2> QED
    BY <2>1 DEF StaleOnlyIfSilent, Pool
<1>2. IInv /\ StaleOnlyIfSilent /\ [Next]_vars => StaleOnlyIfSilent'
  <2> SUFFICES ASSUME IInv, StaleOnlyIfSilent, [Next]_vars, NEW n \in Pool',
                      nodeStates'[n].status = "Stale"
               PROVE  Expired(n)' \/ nodeStates'[n].quality # "Good"
    BY DEF StaleOnlyIfSilent
  <2>1. now \in Nat /\ Pool \subseteq NodeIDs /\ nodeStates \in [Pool -> States]
    BY DEF IInv, StateOK
  <2>2. ASSUME n \in Pool
        PROVE  nodeStates[n] \in States /\ nodeStates[n].timestamp \in Int
    BY <2>1, <2>2 DEF States
  (* Entries that keep timestamp, quality and status, while time passes. *)
  <2>3. ASSUME n \in Pool, nodeStates'[n] = nodeStates[n], now' \in Nat, now' >= now
        PROVE  Expired(n)' \/ nodeStates'[n].quality # "Good"
    <3>1. Expired(n) \/ nodeStates[n].quality # "Good"
      BY <2>3 DEF StaleOnlyIfSilent
    <3>2. Expired(n) => Expired(n)'
      BY <2>1, <2>2, <2>3, ConfigAssumption DEF Expired
    <3> QED
      BY <2>3, <3>1, <3>2
  <2>4. CASE \E w \in Workers : HandleDataPoint(w)
    <3>1. PICK w \in Workers : HandleDataPoint(w)
      BY <2>4
    <3>2. PICK point : point = Head(batch[w])
      OBVIOUS
    <3>3. nodeStates' = PoolWith(point.node, Refreshed(point)) /\ now' = now
      BY <3>1, <3>2 DEF HandleDataPoint, envVars
    <3>4. n # point.node
      BY <3>3 DEF PoolWith, Pool, Refreshed
    <3>5. n \in Pool /\ nodeStates'[n] = nodeStates[n]
      BY <3>3, <3>4 DEF PoolWith, Pool
    <3> QED
      BY <2>1, <2>3, <3>3, <3>5
  <2>5. CASE HandleHeartbeatResult
    <3>1. PICK point : point = Head(allPoints)
      OBVIOUS
    <3>2. PICK state : state = AfterHeartbeat(point)
      OBVIOUS
    <3>3. nodeStates' = PoolWith(point.node, state) /\ now' = now /\ allPoints # <<>>
      BY <2>5, <3>1, <3>2 DEF HandleHeartbeatResult, envVars
    <3>4. CASE n = point.node
      <4>1. nodeStates'[n] = state
        BY <3>3, <3>4 DEF PoolWith, Pool
      <4>2. point.node \in Pool
        <5>1. allPoints \in Seq(Authentic) /\ \A i \in 1..Len(allPoints) : allPoints[i].node \in Pool
          BY DEF IInv, FlowOK, Loaded
        <5>2. point = allPoints[1] /\ Len(allPoints) \in Nat \ {0}
          BY <3>1, <3>3, <5>1, TailOfSeq
        <5> QED
          BY <5>1, <5>2
      <4>3. nodeStates[point.node] \in States
        BY <2>1, <4>2
      <4>4. CASE point.quality = "Good"
        BY <3>2, <4>1, <4>4 DEF AfterHeartbeat, Refreshed
      <4>5. CASE point.quality # "Good"
        BY <3>2, <4>1, <4>3, <4>5 DEF AfterHeartbeat, States
      <4> QED
        BY <4>4, <4>5
    <3>5. CASE n # point.node
      <4>1. n \in Pool /\ nodeStates'[n] = nodeStates[n]
        BY <3>3, <3>5 DEF PoolWith, Pool
      <4> QED
        BY <2>1, <2>3, <3>3, <4>1
    <3> QED
      BY <3>4, <3>5
  <2>6. CASE CheckStaleNodes
    <3>1. /\ nodeStates' = [m \in Pool |-> IF m \in NewlyStale
                                           THEN [nodeStates[m] EXCEPT !.status = "Stale"]
                                           ELSE nodeStates[m]]
          /\ now' = now
      BY <2>6 DEF CheckStaleNodes, envVars
    <3>2. n \in Pool
      BY <3>1 DEF Pool
    <3>3. CASE n \in NewlyStale
      <4>1. Expired(n)
        BY <3>3 DEF NewlyStale
      <4>2. nodeStates'[n].timestamp = nodeStates[n].timestamp
        BY <2>2, <3>1, <3>2, <3>3 DEF States
      <4> QED
        BY <3>1, <4>1, <4>2 DEF Expired
    <3>4. CASE n \notin NewlyStale
      BY <2>1, <2>3, <3>1, <3>2, <3>4
    <3> QED
      BY <3>3, <3>4
  <2>7. CASE UNCHANGED nodeStates /\ now' \in Nat /\ now' >= now
    BY <2>3, <2>7 DEF Pool
  <2>8. CASE Tick
    <3>1. UNCHANGED nodeStates /\ now' = now + 1
      BY <2>8 DEF Tick
    <3> QED
      BY <2>1, <2>7, <3>1
  <2>9. CASE Environment /\ ~Tick
    <3>1. UNCHANGED <<nodeStates, now>>
      BY <2>9 DEF Environment, NatsDown, NatsUp, ServerChange
    <3> QED
      BY <2>1, <2>7, <3>1
  <2>10. CASE \/ Handler \/ Publish \/ Cancel \/ CloseSubCh \/ ClosePubCh \/ UNCHANGED vars
              \/ \E g \in Goroutines : Exit(g)
    <3>1. UNCHANGED <<nodeStates, now>>
      BY <2>10 DEF Handler, HandlerSend, HandlerDrop, HandlerPanic, Publish, PublishReceive,
                   PublishTick, ProcessBatch, Cancel, CloseSubCh, ClosePubCh, Exit, vars, envVars
    <3> QED
      BY <2>1, <2>7, <3>1
  <2>11. CASE \E w \in Workers : SubWorkerReceive(w) \/ SendPoint(w)
    <3>1. UNCHANGED <<nodeStates, now>>
      BY <2>11 DEF SubWorkerReceive, SendPoint, envVars
    <3> QED
      BY <2>1, <2>7, <3>1
  <2>12. CASE HealthTick \/ HealthReadOK \/ HealthReadFail \/ HealthPush \/ HealthReport
    <3>1. UNCHANGED <<nodeStates, now>>
      BY <2>12 DEF HealthTick, HealthReadOK, HealthReadFail, ReadBatch, HealthPush, HealthReport,
                   envVars
    <3> QED
      BY <2>1, <2>7, <3>1
  <2> QED
    BY <2>4, <2>5, <2>6, <2>8, <2>9, <2>10, <2>11, <2>12
       DEF Next, Environment, SubWorker, HealthCheck
<1> QED
  BY <1>1, <1>2, Invariance, PTL DEF Spec

-----------------------------------------------------------------------------
(* Collector implements Feed *)

(* What a message of authentic points tells subscribers is a Deliver step. *)
LEMMA ProcessBatchDelivers ==
    ASSUME IInv, Strays = {}, ProcessBatch
    PROVE  F!Deliver \/ UNCHANGED <<server, downstream>>
<1>1. UNCHANGED server /\ (downstream' = Received \/ downstream' = downstream)
  BY DEF ProcessBatch, envVars
<1>2. CASE downstream' = Received
  <2>1. /\ Received \in [NodeIDs -> Authentic \cup {NoPoint}]
        /\ \A n \in NodeIDs : Received[n] = downstream[n]
                              \/ (Received[n] \in Authentic /\ Received[n].node = n)
    BY ReceivedOK DEF IInv
  <2>2. \A p \in Authentic : p # NoPoint /\ F!Truthful(p.node, p.value, p.quality)
    BY NilAssumption DEF Authentic, Truth
  <2>3. ASSUME NEW n \in NodeIDs, downstream'[n] # downstream[n]
        PROVE  downstream'[n] # NoPoint
               /\ F!Truthful(n, downstream'[n].value, downstream'[n].quality)
    <3>1. PICK p : p = downstream'[n]
      OBVIOUS
    <3>2. p \in Authentic /\ p.node = n
      BY <1>2, <2>1, <2>3, <3>1
    <3> QED
      BY <2>2, <3>1, <3>2
  <2>4. downstream' = [n \in NodeIDs |-> downstream'[n]]
    BY <1>2, <2>1
  <2> QED
    BY <1>1, <2>3, <2>4 DEF F!Deliver
<1> QED
  BY <1>1, <1>2

(* What NATS subscribers are shown of a node is a sample of that node and  *)
(* no other, and Good only if the server said so: the collector implements *)
(* Feed, if all configured ids parse ("unknown" ones make ReadAll shift).  *)
THEOREM CollectorImplementsFeed ==
    ASSUME Strays = {}
    PROVE  Spec => ImplementsFeed
<1>1. Init => F!FeedInit
  <2> SUFFICES ASSUME Init PROVE F!FeedInit
    OBVIOUS
  <2>1. PICK quality \in [NodeIDs -> SampleQualities] :
          server = [n \in NodeIDs |-> FirstSample(n, quality[n])]
    BY DEF Init
  <2>2. downstream = [n \in NodeIDs |-> NoPoint]
    BY DEF Init
  <2>3. server \in [NodeIDs -> Samples] /\ \A n \in NodeIDs : server[n].of = n
    BY <2>1 DEF FirstSample, Samples
  <2> QED
    BY <2>2, <2>3 DEF F!FeedInit, F!Samples, Samples
<1>2. IInv /\ [Next]_vars => [F!FeedNext]_F!feedVars
  <2> SUFFICES ASSUME IInv, [Next]_vars
               PROVE  F!FeedNext \/ UNCHANGED <<server, downstream>>
    BY DEF F!feedVars
  <2>1. ASSUME NEW n \in NodeIDs, ServerChange(n)
        PROVE  F!NewSample(n)
    <3>1. PICK q \in SampleQualities :
            server' = [server EXCEPT ![n] = [of |-> n, ver |-> server[n].ver + 1, quality |-> q]]
      BY <2>1 DEF ServerChange
    <3>2. downstream' = downstream
      BY <2>1 DEF ServerChange
    <3> QED
      BY <3>1, <3>2 DEF F!NewSample
  <2>2. CASE ProcessBatch
    BY <2>2, ProcessBatchDelivers DEF F!FeedNext
  <2>3. CASE Tick \/ NatsDown \/ NatsUp \/ Handler
    BY <2>3 DEF Tick, NatsDown, NatsUp, Handler, HandlerSend, HandlerDrop, HandlerPanic, envVars
  <2>4. CASE Cancel \/ CloseSubCh \/ ClosePubCh \/ \E g \in Goroutines : Exit(g)
    BY <2>4 DEF Cancel, CloseSubCh, ClosePubCh, Exit, envVars
  <2>5. CASE \E w \in Workers : SubWorker(w)
    BY <2>5 DEF SubWorker, SubWorkerReceive, HandleDataPoint, SendPoint, envVars
  <2>6. CASE HealthCheck
    BY <2>6 DEF HealthCheck, HealthTick, HealthReadOK, HealthReadFail, ReadBatch,
                HandleHeartbeatResult, HealthPush, CheckStaleNodes, HealthReport, envVars
  <2>7. CASE PublishReceive \/ PublishTick
    BY <2>7 DEF PublishReceive, PublishTick, envVars
  <2>8. CASE UNCHANGED vars
    BY <2>8 DEF vars, envVars
  <2> QED
    BY <2>1, <2>2, <2>3, <2>4, <2>5, <2>6, <2>7, <2>8 DEF Next, Environment, Publish, F!FeedNext
<1> QED
  BY <1>1, <1>2, Invariance, PTL DEF Spec, ImplementsFeed, F!FeedSpec
=============================================================================
