--------------------------- MODULE AccountingProofs ---------------------------
(***************************************************************************)
(* In immediate mode every point is accounted for: for every number of     *)
(* nodes and workers, all capacities and counters of every width.          *)
(*                                                                         *)
(* Points are counted by their places in the queues, so that a step is     *)
(* reckoned by what it does to a set of places: a batch that is queued     *)
(* adds as many as it has points, and taking the head of a queue renames   *)
(* the places of the rest and of no other.                                 *)
(***************************************************************************)
EXTENDS CollectorProofs

(* What nobody is working on is empty.                                     *)
AtRest ==
    /\ \A w \in Workers : pc[w] \notin {"handle", "send"} => batch[w] = <<>>
    /\ pc["health"] # "push" => pushPoint = NoPoint
    /\ pc["health"] # "report" => toPublish = {}
    /\ pc["publish"] # "publish" => pubBatch = {}
    /\ IsFiniteSet(toPublish)

AccountInv == IInv /\ AtRest /\ PointsAccounted

-----------------------------------------------------------------------------
(* Remainders *)

(* Division by a positive number leaves a quotient and a remainder.        *)
LEMMA Division ==
    ASSUME NEW a \in Nat, NEW m \in Nat \ {0}
    PROVE  \E q \in Nat : /\ a = (q * m) + (a % m)
                          /\ (a % m) \in 0..(m - 1)
<1>1. (a % m) \in 0..(m - 1)
  OBVIOUS
<1>2. (a \div m) \in Nat /\ a = ((a \div m) * m) + (a % m)
  OBVIOUS
<1> QED
  BY <1>1, <1>2

(* Two remainders that differ by a multiple are the same.                  *)
LEMMA RemainderUnique ==
    ASSUME NEW m \in Nat \ {0}, NEW r \in 0..(m - 1), NEW t \in 0..(m - 1), NEW q \in Int,
           r = (q * m) + t
    PROVE  r = t
<1>1. CASE q >= 1
  <2>1. q * m >= 1 * m
    BY <1>1
  <2> QED
    BY <2>1
<1>2. CASE q <= -1
  <2>1. q * m <= (-1) * m
    BY <1>2
  <2> QED
    BY <2>1
<1>3. CASE q = 0
  BY <1>3
<1> QED
  BY <1>1, <1>2, <1>3

(* It does not matter when the remainder is taken.                         *)
LEMMA RemainderAgain ==
    ASSUME NEW a \in Nat, NEW b \in Nat, NEW m \in Nat \ {0}
    PROVE  ((a % m) + b) % m = (a + b) % m
<1>1. PICK q \in Nat : a = (q * m) + (a % m) /\ (a % m) \in 0..(m - 1)
  BY Division
<1>2. PICK c : c = (a % m) + b
  OBVIOUS
<1>3. PICK d : d = a + b
  OBVIOUS
<1>4. c \in Nat /\ d \in Nat /\ d = (q * m) + c
  BY <1>1, <1>2, <1>3
<1>5. PICK u \in Nat : c = (u * m) + (c % m) /\ (c % m) \in 0..(m - 1)
  BY <1>4, Division
<1>6. PICK v \in Nat : d = (v * m) + (d % m) /\ (d % m) \in 0..(m - 1)
  BY <1>4, Division
<1>7. PICK r : r = c % m
  OBVIOUS
<1>8. PICK t : t = d % m
  OBVIOUS
<1>9. PICK k : k = (v - q) - u
  OBVIOUS
<1>10. k \in Int /\ k * m = ((v * m) - (q * m)) - (u * m)
  BY <1>9
<1>11. r \in 0..(m - 1) /\ t \in 0..(m - 1) /\ c = (u * m) + r /\ d = (v * m) + t
  BY <1>5, <1>6, <1>7, <1>8
<1>12. q * m \in Nat /\ u * m \in Nat /\ v * m \in Nat
  OBVIOUS
<1>13. r = (k * m) + t
  BY <1>4, <1>10, <1>11, <1>12
<1>14. r = t
  BY <1>10, <1>11, <1>13, RemainderUnique
<1> QED
  BY <1>2, <1>3, <1>7, <1>8, <1>14

-----------------------------------------------------------------------------
(* Places *)

(* A batch of n points under one index.                                    *)
LEMMA RowSize ==
    ASSUME NEW i, NEW X, NEW s \in Seq(X)
    PROVE  IsFiniteSet({i} \X DOMAIN s) /\ Cardinality({i} \X DOMAIN s) = Len(s)
<1>1. DOMAIN s = 1..Len(s) /\ Len(s) \in Nat
  BY LenProperties
<1>2. IsFiniteSet(1..Len(s)) /\ Cardinality(1..Len(s)) = Len(s)
  BY <1>1, IntervalSize
<1>3. IsFiniteSet({i}) /\ Cardinality({i}) = 1
  BY FS_Singleton
<1>4. /\ IsFiniteSet({i} \X (1..Len(s)))
      /\ Cardinality({i} \X (1..Len(s))) = Cardinality({i}) * Cardinality(1..Len(s))
  BY <1>2, <1>3, FS_Product
<1> QED
  BY <1>1, <1>2, <1>3, <1>4

(* Sets that have nothing in common.                                       *)
LEMMA DisjointSize ==
    ASSUME NEW A, NEW B, IsFiniteSet(A), IsFiniteSet(B), A \cap B = {}
    PROVE  /\ IsFiniteSet(A \cup B) /\ Cardinality(A \cup B) = Cardinality(A) + Cardinality(B)
           /\ Cardinality(A) \in Nat /\ Cardinality(B) \in Nat
<1>1. /\ IsFiniteSet(A \cup B)
      /\ Cardinality(A \cup B) = Cardinality(A) + Cardinality(B) - Cardinality(A \cap B)
  BY FS_Union, Zenon
<1>2. Cardinality(A \cap B) = 0
  BY FS_EmptySet
<1>3. Cardinality(A) \in Nat /\ Cardinality(B) \in Nat
  BY FS_CardinalityType
<1> QED
  BY <1>1, <1>2, <1>3

(* The places of finitely many batches are finitely many.                  *)
LEMMA PointsInFinite ==
    ASSUME NEW D, IsFiniteSet(D), NEW X, NEW f \in [D -> Seq(X)]
    PROVE  IsFiniteSet(PointsIn(f))
<1> DEFINE rows == {{i} \X DOMAIN f[i] : i \in D}
           row == [i \in D |-> {i} \X DOMAIN f[i]]
<1>1. row \in Surjection(D, rows)
  BY DEF Surjection
<1>2. IsFiniteSet(rows)
  BY <1>1, FS_Surjection
<1>3. \A r \in rows : IsFiniteSet(r)
  <2> TAKE r \in rows
  <2>1. PICK i \in D : r = {i} \X DOMAIN f[i]
    OBVIOUS
  <2>2. f[i] \in Seq(X)
    OBVIOUS
  <2> QED
    BY <2>1, <2>2, RowSize
<1> QED
  BY <1>2, <1>3, FS_UNION DEF PointsIn

(* All places but those under one index, and those.                        *)
LEMMA OneRow ==
    ASSUME NEW D, IsFiniteSet(D), NEW X, NEW f \in [D -> Seq(X)], NEW d \in D
    PROVE  LET others == {x \in PointsIn(f) : x[1] # d}
           IN  /\ IsFiniteSet(others)
               /\ Cardinality(PointsIn(f)) = Cardinality(others) + Len(f[d])
               /\ Cardinality(others) \in Nat
<1> DEFINE others == {x \in PointsIn(f) : x[1] # d}
           row == {d} \X DOMAIN f[d]
<1>1. PointsIn(f) = others \cup row /\ others \cap row = {}
  BY DEF PointsIn
<1>2. IsFiniteSet(others)
  BY PointsInFinite, FS_Subset
<1>3. IsFiniteSet(row) /\ Cardinality(row) = Len(f[d])
  BY RowSize
<1> HIDE DEF others, row
<1>4. Cardinality(PointsIn(f)) = Cardinality(others) + Cardinality(row) /\ Cardinality(others) \in Nat
  BY <1>1, <1>2, <1>3, DisjointSize
<1> QED
  BY <1>2, <1>3, <1>4 DEF others

(* A worker's batch is replaced.                                           *)
Batches == [Workers -> Seq(Points)]

LEMMA BatchReplaced ==
    ASSUME NEW f \in Batches, NEW d \in Workers, NEW s \in Seq(Points)
    PROVE  Cardinality(PointsIn([f EXCEPT ![d] = s]))
               = Cardinality(PointsIn(f)) - Len(f[d]) + Len(s)
<1>0. IsFiniteSet(Workers) /\ f \in [Workers -> Seq(Points)]
  BY WorkersAssumption DEF Batches
<1> DEFINE g == [f EXCEPT ![d] = s]
           othersF == {x \in PointsIn(f) : x[1] # d}
           othersG == {x \in PointsIn(g) : x[1] # d}
<1>1. g \in [Workers -> Seq(Points)] /\ g[d] = s /\ \A i \in Workers : i # d => g[i] = f[i]
  BY <1>0
<1>2. Cardinality(PointsIn(f)) = Cardinality(othersF) + Len(f[d]) /\ Cardinality(othersF) \in Nat
  BY <1>0, OneRow
<1>3. Cardinality(PointsIn(g)) = Cardinality(othersG) + Len(s) /\ Cardinality(othersG) \in Nat
  <2> HIDE DEF g
  <2> QED
    BY <1>0, <1>1, OneRow
<1>4. othersG = othersF
  <2>1. DOMAIN g = Workers /\ DOMAIN f = Workers
    BY <1>0, <1>1
  <2> HIDE DEF g
  <2> QED
    BY <1>1, <2>1 DEF PointsIn
<1>5. Len(f[d]) \in Nat /\ Len(s) \in Nat
  BY <1>0, LenProperties
<1> HIDE DEF othersF, othersG, g
<1> QED
  BY <1>2, <1>3, <1>4, <1>5 DEF g

(* A batch joins a queue.                                                  *)
LEMMA BatchQueued ==
    ASSUME NEW X, NEW queue \in Seq(Seq(X)), NEW s \in Seq(X)
    PROVE  Cardinality(PointsIn(Append(queue, s))) = Cardinality(PointsIn(queue)) + Len(s)
<1> DEFINE n == Len(queue)
           longer == Append(queue, s)
           row == {n + 1} \X DOMAIN s
<1>1. /\ n \in Nat /\ longer \in Seq(Seq(X)) /\ Len(longer) = n + 1 /\ longer[n + 1] = s
      /\ \A i \in 1..n : longer[i] = queue[i]
  BY AppendProperties, LenProperties
<1>2. DOMAIN queue = 1..n /\ DOMAIN longer = 1..(n + 1)
  BY <1>1, LenProperties
<1> HIDE DEF n, longer
<1>3. PointsIn(longer) = PointsIn(queue) \cup row /\ PointsIn(queue) \cap row = {}
  BY <1>1, <1>2 DEF PointsIn
<1>4. IsFiniteSet(PointsIn(queue))
  <2>1. queue \in [1..n -> Seq(X)] /\ IsFiniteSet(1..n)
    BY <1>1, <1>2, IntervalSize, ElementOfSeq DEF n
  <2> QED
    BY <2>1, PointsInFinite
<1>5. IsFiniteSet(row) /\ Cardinality(row) = Len(s)
  BY RowSize
<1> HIDE DEF row
<1> QED
  BY <1>3, <1>4, <1>5, DisjointSize DEF longer

(* The first batch of a queue is taken.                                    *)
LEMMA BatchTaken ==
    ASSUME NEW X, NEW queue \in Seq(Seq(X)), queue # <<>>
    PROVE  Cardinality(PointsIn(queue)) = Cardinality(PointsIn(Tail(queue))) + Len(Head(queue))
<1> DEFINE n == Len(queue) - 1
           rest == Tail(queue)
           later == {x \in PointsIn(queue) : x[1] # 1}
           shift == [x \in PointsIn(rest) |-> <<x[1] + 1, x[2]>>]
<1>1. n \in Nat /\ Len(queue) = n + 1 /\ queue[1] = Head(queue)
  BY EmptySeq, LenProperties, HeadTailProperties
<1>2. /\ rest \in Seq(Seq(X)) /\ Len(rest) = n
      /\ \A i \in 1..n : rest[i] = queue[i + 1]
  BY HeadTailProperties
<1>3. DOMAIN queue = 1..(n + 1) /\ DOMAIN rest = 1..n
  BY <1>1, <1>2, LenProperties
<1>4. queue \in [1..(n + 1) -> Seq(X)] /\ rest \in [1..n -> Seq(X)] /\ 1 \in 1..(n + 1)
  <2>1. Len(queue) = n + 1 /\ Len(rest) = n /\ n \in Nat
    BY <1>1, <1>2
  <2> HIDE DEF n, rest
  <2>2. queue \in [1..Len(queue) -> Seq(X)] /\ rest \in [1..Len(rest) -> Seq(X)]
    BY <1>2
  <2> QED
    BY <2>1, <2>2
<1>5. IsFiniteSet(1..(n + 1)) /\ IsFiniteSet(1..n)
  BY <1>1, IntervalSize
<1> HIDE DEF n, rest
<1>6. IsFiniteSet(PointsIn(rest))
  BY <1>4, <1>5, PointsInFinite
<1>7. Cardinality(PointsIn(queue)) = Cardinality(later) + Len(queue[1])
  <2> DEFINE D == 1..(n + 1)
  <2>1. IsFiniteSet(D) /\ queue \in [D -> Seq(X)] /\ 1 \in D
    BY <1>4, <1>5
  <2> HIDE DEF D
  <2> QED
    BY <2>1, OneRow
<1>8. \A i, j : <<i, j>> \in PointsIn(rest) <=> i \in 1..n /\ j \in DOMAIN queue[i + 1]
  BY <1>2, <1>3 DEF PointsIn
<1>9. \A i, j : <<i, j>> \in later <=> i \in 1..(n + 1) /\ i # 1 /\ j \in DOMAIN queue[i]
  BY <1>3 DEF PointsIn
<1>10. /\ \A x \in PointsIn(rest) : x = <<x[1], x[2]>>
       /\ \A x \in later : x = <<x[1], x[2]>>
  BY DEF PointsIn
<1>11. shift \in Bijection(PointsIn(rest), later)
  <2>1. ASSUME NEW x \in PointsIn(rest)
        PROVE  shift[x] \in later /\ x[1] \in 1..n
    <3>1. x[1] \in 1..n /\ x[2] \in DOMAIN queue[x[1] + 1]
      BY <1>8, <1>10
    <3>2. x[1] + 1 \in 1..(n + 1) /\ x[1] + 1 # 1
      BY <1>1, <3>1
    <3> HIDE DEF later
    <3> QED
      BY <1>9, <3>1, <3>2
  <2>2. \A x, y \in PointsIn(rest) : shift[x] = shift[y] => x = y
    <3> SUFFICES ASSUME NEW x \in PointsIn(rest), NEW y \in PointsIn(rest), shift[x] = shift[y]
                 PROVE  x = y
      OBVIOUS
    <3>1. x[1] + 1 = y[1] + 1 /\ x[2] = y[2]
      OBVIOUS
    <3>2. x[1] \in Int /\ y[1] \in Int
      BY <1>1, <2>1
    <3>2a. x[1] = y[1]
      <4> HIDE DEF shift
      <4> QED
        BY <3>1, <3>2
    <3> QED
      BY <1>10, <3>1, <3>2a
  <2>3. ASSUME NEW y \in later
        PROVE  \E x \in PointsIn(rest) : shift[x] = y
    <3>1. y[1] \in 1..(n + 1) /\ y[1] # 1 /\ y[2] \in DOMAIN queue[y[1]] /\ y = <<y[1], y[2]>>
      <4> HIDE DEF later
      <4> QED
        BY <1>9, <1>10
    <3>2. y[1] - 1 \in 1..n /\ (y[1] - 1) + 1 = y[1]
      BY <1>1, <3>1
    <3>3. <<y[1] - 1, y[2]>> \in PointsIn(rest)
      BY <1>8, <3>1, <3>2
    <3> QED
      BY <3>1, <3>2, <3>3
  <2> HIDE DEF later
  <2>4. shift \in [PointsIn(rest) -> later]
    BY <2>1
  <2> HIDE DEF shift
  <2> QED
    BY <2>2, <2>3, <2>4 DEF Bijection, Injection, Surjection, IsInjective
<1>12. Cardinality(later) = Cardinality(PointsIn(rest))
  <2>1. ExistsBijection(PointsIn(rest), later)
    BY <1>11 DEF ExistsBijection
  <2> HIDE DEF later
  <2> QED
    BY <1>6, <2>1, FS_Bijection
<1> QED
  BY <1>1, <1>7, <1>12 DEF rest

-----------------------------------------------------------------------------
(* The books *)

(* Where the points are that are on their way.                             *)
Queued    == Cardinality(PointsIn(subCh))
Held      == Cardinality(PointsIn(batch))
Pushing   == IF pushPoint = NoPoint THEN 0 ELSE 1
Reporting == Cardinality(toPublish)
Waiting   == Len(pubCh)
Sending   == Cardinality(pubBatch)
Total     == Queued + Held + Pushing + Reporting + Waiting + Sending

(* A step in which k points set out and j come to the end of their way.    *)
Moved(k, j) ==
    /\ offered' = Count(offered, k) \/ (k = 0 /\ offered' = offered)
    /\ Total + k = Total' + j
    /\ \/ j = 0 /\ UNCHANGED <<dropped, successes, failures>>
       \/ dropped' = Count(dropped, j) /\ UNCHANGED <<successes, failures>>
       \/ successes' = Count(successes, j) /\ UNCHANGED <<dropped, failures>>
       \/ failures' = Count(failures, j) /\ UNCHANGED <<dropped, successes>>

(* A counter to which nothing is added.                                    *)
LEMMA NothingAdded ==
    ASSUME NEW c \in Counters
    PROVE  Count(c, 0) = c
BY ConfigAssumption DEF Count, Counters

(* One entry on each side of the books: of a balance o = c + rest + x, k   *)
(* more points than before set out, j are entered under c, y are left.     *)
Entry(o, c, rest, x, y, k, j) ==
    /\ {o, c, rest, x, y, k, j} \subseteq Nat
    /\ o = Count(c + rest, x)
    /\ x + k = y + j

LEMMA Balance ==
    ASSUME NEW o, NEW c, NEW rest, NEW x, NEW y, NEW k, NEW j, Entry(o, c, rest, x, y, k, j)
    PROVE  Count(o, k) = Count(Count(c, j) + rest, y)
<1>0. /\ o \in Nat /\ c \in Nat /\ rest \in Nat /\ x \in Nat /\ y \in Nat
      /\ k \in Nat /\ j \in Nat
      /\ o = Count(c + rest, x) /\ x + k = y + j
  BY DEF Entry
<1>1. CounterSize \in Nat \ {0}
  BY ConfigAssumption
<1>2. PICK a \in Nat : a = (c + rest) + x
  BY <1>0
<1>3. Count(o, k) = (a + k) % CounterSize
  BY <1>0, <1>1, <1>2, RemainderAgain DEF Count
<1>4. PICK b \in Nat : b = rest + y
  BY <1>0
<1>5. PICK d \in Nat : d = c + j
  BY <1>0
<1>6. ((d % CounterSize) + b) % CounterSize = (d + b) % CounterSize
  BY <1>1, RemainderAgain
<1>7. a + k = d + b
  BY <1>0, <1>2, <1>4, <1>5
<1>8. (d % CounterSize) \in Nat
  BY <1>1
<1>9. (d % CounterSize) + b = (((c + j) % CounterSize) + rest) + y
  BY <1>0, <1>4, <1>5, <1>8
<1> QED
  BY <1>3, <1>6, <1>7, <1>9 DEF Count

(* Everything that is counted is a number.                                 *)
LEMMA Numbers ==
    ASSUME IInv, IsFiniteSet(toPublish)
    PROVE  /\ Queued \in Nat /\ Held \in Nat /\ Pushing \in Nat
           /\ Reporting \in Nat /\ Waiting \in Nat /\ Sending \in Nat
           /\ subCh \in Seq(Seq(Points)) /\ notifs \in Seq(Seq(Points))
           /\ batch \in [Workers -> Seq(Points)] /\ pubCh \in Seq(Points)
<1>1. Seq(Authentic) \subseteq Seq(Points) /\ Authentic \subseteq Points
  BY DEF Authentic
<1>2. subCh \in Seq(Seq(Points)) /\ notifs \in Seq(Seq(Points))
  <2> DEFINE N == Seq(Authentic) \ {<<>>}
             M == Seq(Points)
  <2>1. subCh \in Seq(N) /\ notifs \in Seq(N) /\ N \subseteq M
    BY <1>1 DEF IInv, FlowOK
  <2> HIDE DEF N, M
  <2>2. subCh \in Seq(M) /\ notifs \in Seq(M)
    BY <2>1
  <2> QED
    BY <2>2 DEF M
<1>3. batch \in [Workers -> Seq(Points)] /\ pubCh \in Seq(Points) /\ IsFiniteSet(pubBatch)
  BY <1>1 DEF IInv, FlowOK, Loaded
<1>4. Queued \in Nat
  <2>1. Len(subCh) \in Nat /\ subCh \in [1..Len(subCh) -> Seq(Points)]
    BY <1>2
  <2>2. IsFiniteSet(1..Len(subCh))
    BY <2>1, IntervalSize
  <2> QED
    BY <2>1, <2>2, PointsInFinite, FS_CardinalityType DEF Queued
<1>5. Held \in Nat
  BY <1>3, WorkersAssumption, PointsInFinite, FS_CardinalityType DEF Held
<1> QED
  BY <1>2, <1>3, <1>4, <1>5, FS_CardinalityType, LenProperties
     DEF Pushing, Reporting, Waiting, Sending

(* The points on their way are finitely many.                              *)
TotalFinite == Total \in Nat

LEMMA TotalIsNumber == IInv /\ AtRest => TotalFinite
<1> SUFFICES ASSUME IInv, AtRest PROVE TotalFinite
  OBVIOUS
<1>1. /\ Queued \in Nat /\ Held \in Nat /\ Pushing \in Nat
      /\ Reporting \in Nat /\ Waiting \in Nat /\ Sending \in Nat
  BY Numbers DEF AtRest
<1> QED
  BY <1>1 DEF Total, TotalFinite

(* InFlight, by parts.                                                     *)
LEMMA FlightIsTotal == InFlight = Total /\ InFlight' = Total'
BY DEF InFlight, Total, Queued, Held, Pushing, Reporting, Waiting, Sending

(* If every point that sets out or arrives is entered, the books balance.  *)
LEMMA Reckoned ==
    ASSUME IInv, IInv', AtRest, AtRest', PointsAccounted,
           NEW k \in Nat, NEW j \in Nat, Moved(k, j)
    PROVE  PointsAccounted'
<1>1. Counters \subseteq Nat /\ CounterSize \in Nat \ {0}
  BY ConfigAssumption DEF Counters
<1>2. /\ dropped \in Nat /\ successes \in Nat /\ failures \in Nat /\ offered \in Nat
      /\ dropped \in Counters /\ successes \in Counters /\ failures \in Counters
      /\ offered \in Counters
  BY <1>1 DEF IInv, StateOK
<1>3. TotalFinite /\ TotalFinite'
  BY TotalIsNumber, PTL
<1>4. Total \in Nat /\ Total' \in Nat
  BY <1>3 DEF TotalFinite
<1>5. /\ offered = Count(dropped + successes + failures, Total)
      /\ Total + k = Total' + j
  BY FlightIsTotal DEF PointsAccounted, Moved
<1>6. offered' = Count(offered, k)
  BY <1>2, NothingAdded DEF Moved
<1>7. PointsAccounted' <=> offered' = Count(dropped' + successes' + failures', Total')
  BY FlightIsTotal DEF PointsAccounted
<1>8. CASE dropped' = Count(dropped, j) /\ UNCHANGED <<successes, failures>>
  <2>1. PICK rest \in Nat : rest = successes + failures
    BY <1>2
  <2>2. offered = Count(dropped + rest, Total)
    <3>1. dropped + successes + failures = dropped + rest
      BY <1>2, <2>1
    <3> QED
      BY <1>5, <3>1
  <2>3. Entry(offered, dropped, rest, Total, Total', k, j)
    BY <1>2, <1>4, <1>5, <2>2 DEF Entry
  <2>3a. Count(offered, k) = Count(Count(dropped, j) + rest, Total')
    BY <2>3, Balance
  <2>4. dropped' + successes' + failures' = Count(dropped, j) + rest
    <3>1. Count(dropped, j) \in Nat
      <4>1. dropped \in Int /\ j \in Int
        BY <1>2
      <4> QED
        BY <1>1, <4>1, CountInRange
    <3> QED
      BY <1>2, <1>8, <2>1, <3>1
  <2> QED
    BY <1>6, <1>7, <2>3a, <2>4
<1>9. CASE successes' = Count(successes, j) /\ UNCHANGED <<dropped, failures>>
  <2>1. PICK rest \in Nat : rest = dropped + failures
    BY <1>2
  <2>2. offered = Count(successes + rest, Total)
    <3>1. dropped + successes + failures = successes + rest
      BY <1>2, <2>1
    <3> QED
      BY <1>5, <3>1
  <2>3. Entry(offered, successes, rest, Total, Total', k, j)
    BY <1>2, <1>4, <1>5, <2>2 DEF Entry
  <2>3a. Count(offered, k) = Count(Count(successes, j) + rest, Total')
    BY <2>3, Balance
  <2>4. dropped' + successes' + failures' = Count(successes, j) + rest
    <3>1. Count(successes, j) \in Nat
      <4>1. successes \in Int /\ j \in Int
        BY <1>2
      <4> QED
        BY <1>1, <4>1, CountInRange
    <3> QED
      BY <1>2, <1>9, <2>1, <3>1
  <2> QED
    BY <1>6, <1>7, <2>3a, <2>4
<1>10. CASE failures' = Count(failures, j) /\ UNCHANGED <<dropped, successes>>
  <2>1. PICK rest \in Nat : rest = dropped + successes
    BY <1>2
  <2>2. offered = Count(failures + rest, Total)
    <3>1. dropped + successes + failures = failures + rest
      BY <1>2, <2>1
    <3> QED
      BY <1>5, <3>1
  <2>3. Entry(offered, failures, rest, Total, Total', k, j)
    BY <1>2, <1>4, <1>5, <2>2 DEF Entry
  <2>3a. Count(offered, k) = Count(Count(failures, j) + rest, Total')
    BY <2>3, Balance
  <2>4. dropped' + successes' + failures' = Count(failures, j) + rest
    <3>1. Count(failures, j) \in Nat
      <4>1. failures \in Int /\ j \in Int
        BY <1>2
      <4> QED
        BY <1>1, <4>1, CountInRange
    <3> QED
      BY <1>2, <1>10, <2>1, <3>1
  <2> QED
    BY <1>6, <1>7, <2>3a, <2>4
<1>11. CASE j = 0 /\ UNCHANGED <<dropped, successes, failures>>
  <2>1. dropped' = Count(dropped, j)
    BY <1>2, <1>11, NothingAdded
  <2> QED
    BY <1>8, <1>11, <2>1
<1> QED
  BY <1>8, <1>9, <1>10, <1>11 DEF Moved

-----------------------------------------------------------------------------
(* What each step enters in the books *)

(* The notification goroutine: a batch is queued, or dropped as a whole.   *)
LEMMA HandlerMoves ==
    ASSUME IInv, AtRest, HandlerSend \/ HandlerDrop
    PROVE  AtRest' /\ \E k, j \in Nat : Moved(k, j)
<1>1. UNCHANGED <<pc, batch, pushPoint, toPublish, pubCh, pubBatch, successes, failures>>
  BY DEF HandlerSend, HandlerDrop, chanVars, healthVars
<1>2. AtRest'
  BY <1>1 DEF AtRest
<1>3. /\ Queued \in Nat /\ Held \in Nat /\ Pushing \in Nat
      /\ Reporting \in Nat /\ Waiting \in Nat /\ Sending \in Nat
  BY Numbers DEF AtRest
<1>4. subCh \in Seq(Seq(Points)) /\ notifs \in Seq(Seq(Points)) /\ notifs # <<>>
  BY Numbers DEF AtRest, HandlerSend, HandlerDrop
<1>5. PICK s : s = Head(notifs)
  OBVIOUS
<1>6. s \in Seq(Points) /\ Len(s) \in Nat
  BY <1>4, <1>5, HeadTailProperties, LenProperties
<1>7. /\ Held' = Held /\ Pushing' = Pushing /\ Reporting' = Reporting
      /\ Waiting' = Waiting /\ Sending' = Sending
  BY <1>1 DEF Held, Pushing, Reporting, Waiting, Sending
<1>8. CASE HandlerSend
  <2>1. /\ subCh' = Append(subCh, s) /\ offered' = Count(offered, Len(s))
        /\ UNCHANGED dropped
    BY <1>5, <1>8 DEF HandlerSend
  <2>2. Queued' = Queued + Len(s)
    BY <1>4, <1>6, <2>1, BatchQueued DEF Queued
  <2>3. Total + Len(s) = Total' + 0
    BY <1>3, <1>6, <1>7, <2>2 DEF Total
  <2>4. Moved(Len(s), 0)
    BY <1>1, <2>1, <2>3 DEF Moved
  <2> QED
    BY <1>2, <1>6, <2>4
<1>9. CASE HandlerDrop
  <2>1. /\ subCh' = subCh /\ offered' = Count(offered, Len(s))
        /\ dropped' = Count(dropped, Len(s))
    BY <1>5, <1>9 DEF HandlerDrop, chanVars
  <2>2. Queued' = Queued
    BY <2>1 DEF Queued
  <2>3. Total + Len(s) = Total' + Len(s)
    BY <1>3, <1>6, <1>7, <2>2 DEF Total
  <2>4. Moved(Len(s), Len(s))
    BY <1>1, <2>1, <2>3 DEF Moved
  <2> QED
    BY <1>2, <1>6, <2>4
<1> QED
  BY <1>8, <1>9

(* A worker takes a batch when it has none.                                *)
LEMMA ReceiveMoves ==
    ASSUME IInv, AtRest, NEW w \in Workers, SubWorkerReceive(w)
    PROVE  AtRest' /\ \E k, j \in Nat : Moved(k, j)
<1>1. /\ UNCHANGED <<pushPoint, toPublish, pubCh, pubBatch>>
      /\ UNCHANGED <<offered, dropped, successes, failures>>
      /\ pc[w] = "select" /\ subCh # <<>>
      /\ batch' = [batch EXCEPT ![w] = Head(subCh)] /\ subCh' = Tail(subCh)
      /\ pc' = [pc EXCEPT ![w] = "handle"]
  BY DEF SubWorkerReceive, counterVars, healthVars
<1>2. /\ Queued \in Nat /\ Held \in Nat /\ Pushing \in Nat
      /\ Reporting \in Nat /\ Waiting \in Nat /\ Sending \in Nat
      /\ subCh \in Seq(Seq(Points)) /\ batch \in [Workers -> Seq(Points)]
  BY Numbers DEF AtRest
<1>3. batch[w] = <<>> /\ Len(batch[w]) = 0
  BY <1>1 DEF AtRest
<1>4. PICK s : s = Head(subCh)
  OBVIOUS
<1>5. s \in Seq(Points) /\ Len(s) \in Nat
  BY <1>1, <1>2, <1>4, HeadTailProperties, LenProperties
<1>6. Queued = Queued' + Len(s) /\ Queued' \in Nat
  <2>1. Queued = Queued' + Len(s)
    BY <1>1, <1>2, <1>4, BatchTaken DEF Queued
  <2>2. subCh' \in Seq(Seq(Points)) /\ Len(subCh') \in Nat
    BY <1>1, <1>2, HeadTailProperties, LenProperties
  <2>3. subCh' \in [1..Len(subCh') -> Seq(Points)] /\ IsFiniteSet(1..Len(subCh'))
    BY <2>2, IntervalSize
  <2>4. IsFiniteSet(PointsIn(subCh'))
    BY <2>3, PointsInFinite
  <2> QED
    BY <2>1, <2>4, FS_CardinalityType DEF Queued
<1>7. Held' = Held + Len(s)
  <2>1. Cardinality(PointsIn([batch EXCEPT ![w] = s]))
            = Cardinality(PointsIn(batch)) - Len(batch[w]) + Len(s)
    BY <1>2, <1>5, BatchReplaced DEF Batches
  <2>2. Held' = Held - 0 + Len(s)
    BY <1>1, <1>3, <1>4, <2>1 DEF Held
  <2> QED
    BY <1>2, <1>5, <2>2
<1>8. /\ Pushing' = Pushing /\ Reporting' = Reporting
      /\ Waiting' = Waiting /\ Sending' = Sending
  BY <1>1 DEF Pushing, Reporting, Waiting, Sending
<1>9. Total + 0 = Total' + 0
  BY <1>2, <1>5, <1>6, <1>7, <1>8 DEF Total
<1>10. Moved(0, 0)
  BY <1>1, <1>9 DEF Moved
<1>11. AtRest'
  <2>1. DOMAIN pc = Goroutines /\ Workers \subseteq Goroutines
        /\ {"monitor", "health", "publish"} \cap Workers = {}
    BY WorkersAssumption DEF IInv, PcOK, Goroutines
  <2>2. pc'["health"] = pc["health"] /\ pc'["publish"] = pc["publish"]
    BY <1>1, <2>1
  <2>3. \A v \in Workers : v # w => pc'[v] = pc[v] /\ batch'[v] = batch[v]
    BY <1>1, <1>2, <2>1
  <2>4. pc'[w] = "handle"
    BY <1>1, <2>1
  <2> QED
    BY <1>1, <2>2, <2>3, <2>4 DEF AtRest
<1> QED
  BY <1>10, <1>11

(* A worker is done with its point; the next one may send.                 *)
LEMMA SendMoves ==
    ASSUME IInv, AtRest, PushMode = "immediate",
           NEW w \in Workers, HandleDataPoint(w) \/ SendPoint(w)
    PROVE  AtRest' /\ \E k, j \in Nat : Moved(k, j)
<1>1. /\ UNCHANGED <<subCh, pushPoint, toPublish, pubBatch>>
      /\ UNCHANGED <<offered, successes, failures>>
  BY DEF HandleDataPoint, SendPoint, chanVars, counterVars, healthVars
<1>2. /\ Queued \in Nat /\ Held \in Nat /\ Pushing \in Nat
      /\ Reporting \in Nat /\ Waiting \in Nat /\ Sending \in Nat
      /\ batch \in [Workers -> Seq(Points)] /\ pubCh \in Seq(Points)
  BY Numbers DEF AtRest
<1>3. /\ DOMAIN pc = Goroutines /\ Workers \subseteq Goroutines
      /\ {"monitor", "health", "publish"} \cap Workers = {}
  BY WorkersAssumption DEF IInv, PcOK, Goroutines
<1>4. /\ Queued' = Queued /\ Pushing' = Pushing
      /\ Reporting' = Reporting /\ Sending' = Sending
  BY <1>1 DEF Queued, Pushing, Reporting, Sending
<1>5. CASE HandleDataPoint(w)
  <2>1. pc' = [pc EXCEPT ![w] = "send"] /\ UNCHANGED <<batch, pubCh, dropped>>
    BY <1>5 DEF HandleDataPoint, chanVars, counterVars
  <2>2. AtRest'
    BY <1>1, <1>3, <2>1 DEF AtRest
  <2>3. Held' = Held /\ Waiting' = Waiting
    BY <2>1 DEF Held, Waiting
  <2>4. Moved(0, 0)
    BY <1>1, <1>4, <2>1, <2>3 DEF Moved, Total
  <2> QED
    BY <2>2, <2>4
<1>6. CASE SendPoint(w)
  <2>1. /\ batch' = [batch EXCEPT ![w] = Tail(batch[w])]
        /\ pc' = [pc EXCEPT ![w] = IF Len(batch[w]) = 1 THEN "select" ELSE "handle"]
        /\ pc[w] = "send"
    BY <1>6 DEF SendPoint, NextPoint
  <2>2. batch[w] \in Seq(Points) /\ batch[w] # <<>>
    BY <1>2, <2>1 DEF IInv, Loaded
  <2>3. PICK s : s = Tail(batch[w])
    OBVIOUS
  <2>4. /\ s \in Seq(Points) /\ Len(s) \in Nat /\ Len(batch[w]) = Len(s) + 1
        /\ Head(batch[w]) \in Points
    BY <2>2, <2>3, TailOfSeq
  <2>5. Held' = Held - 1
    <3>1. Held' = Held - Len(batch[w]) + Len(s)
      BY <1>2, <2>1, <2>3, <2>4, BatchReplaced DEF Batches, Held
    <3> QED
      BY <1>2, <2>4, <3>1
  <2>6. AtRest'
    <3>1. pc'["health"] = pc["health"] /\ pc'["publish"] = pc["publish"]
      BY <1>3, <2>1
    <3>2. \A v \in Workers : v # w => pc'[v] = pc[v] /\ batch'[v] = batch[v]
      BY <1>2, <1>3, <2>1
    <3>3. pc'[w] \notin {"handle", "send"} => batch'[w] = <<>>
      <4>1. pc'[w] = (IF Len(batch[w]) = 1 THEN "select" ELSE "handle") /\ batch'[w] = s
        BY <1>2, <1>3, <2>1, <2>3
      <4>2. Len(batch[w]) = 1 => s = <<>>
        <5>1. ASSUME Len(batch[w]) = 1, s # <<>>
              PROVE  FALSE
          <6>1. Len(s) \in Nat \ {0}
            BY <2>4, <5>1, EmptySeq
          <6>2. 1 = Len(s) + 1
            BY <2>4, <5>1
          <6> QED
            BY <6>1, <6>2
        <5> QED
          BY <5>1
      <4> QED
        BY <4>1, <4>2
    <3> QED
      BY <1>1, <3>1, <3>2, <3>3 DEF AtRest
  <2>7. CASE HasRoom(pubCh)
    <3>1. pubCh' = Append(pubCh, Head(batch[w])) /\ UNCHANGED dropped
      BY <1>6, <2>7 DEF SendPoint
    <3>2. Waiting' = Waiting + 1
      BY <1>2, <2>4, <3>1, AppendProperties DEF Waiting
    <3>3. Total + 0 = Total' + 0
      BY <1>2, <1>4, <2>5, <3>2 DEF Total
    <3>4. Moved(0, 0)
      BY <1>1, <3>1, <3>3 DEF Moved
    <3> QED
      BY <2>6, <3>4
  <2>8. CASE ~HasRoom(pubCh)
    <3>1. dropped' = Count(dropped, 1) /\ UNCHANGED pubCh
      BY <1>6, <2>8 DEF SendPoint
    <3>2. Waiting' = Waiting
      BY <3>1 DEF Waiting
    <3>3. Total + 0 = Total' + 1
      BY <1>2, <1>4, <2>5, <3>2 DEF Total
    <3>4. Moved(0, 1)
      BY <1>1, <3>1, <3>3 DEF Moved
    <3> QED
      BY <2>6, <3>4
  <2> QED
    BY <2>7, <2>8
<1> QED
  BY <1>5, <1>6

(* The health check while it reads, and a good heartbeat that sets out.    *)
LEMMA HeartbeatMoves ==
    ASSUME IInv, IInv', AtRest,
           HealthTick \/ HealthReadOK \/ HealthReadFail \/ HandleHeartbeatResult
    PROVE  AtRest' /\ \E k, j \in Nat : Moved(k, j)
<1>1. UNCHANGED <<subCh, batch, toPublish, pubCh, pubBatch, dropped, successes, failures>>
  BY DEF HealthTick, HealthReadOK, HealthReadFail, ReadBatch, HandleHeartbeatResult, chanVars,
         counterVars
<1>2. /\ Queued \in Nat /\ Held \in Nat /\ Pushing \in Nat
      /\ Reporting \in Nat /\ Waiting \in Nat /\ Sending \in Nat
  BY Numbers DEF AtRest
<1>3. /\ DOMAIN pc = Goroutines /\ "health" \in Goroutines
      /\ {"monitor", "health", "publish"} \cap Workers = {}
      /\ Workers \subseteq Goroutines /\ "publish" \in Goroutines
  BY WorkersAssumption DEF IInv, PcOK, Goroutines
<1>4. /\ Queued' = Queued /\ Held' = Held /\ Reporting' = Reporting
      /\ Waiting' = Waiting /\ Sending' = Sending
  BY <1>1 DEF Queued, Held, Reporting, Waiting, Sending
<1>5. CASE \/ UNCHANGED <<pushPoint, offered, pc>>
           \/ UNCHANGED <<pushPoint, offered>>
              /\ \E q \in {"read", "apply"} : pc' = [pc EXCEPT !["health"] = q]
              /\ pc["health"] \in {"select", "read"}
  <2>1. UNCHANGED <<pushPoint, offered>>
    BY <1>5
  <2>2. AtRest'
    <3>1. CASE UNCHANGED pc
      BY <1>1, <2>1, <3>1 DEF AtRest
    <3>2. CASE /\ \E q \in {"read", "apply"} : pc' = [pc EXCEPT !["health"] = q]
               /\ pc["health"] \in {"select", "read"}
      <4>1. /\ \A g \in Goroutines \ {"health"} : pc'[g] = pc[g]
            /\ pushPoint = NoPoint /\ toPublish = {}
        BY <1>3, <3>2 DEF AtRest
      <4>2. \A w \in Workers : pc'[w] = pc[w]
        BY <1>3, <4>1
      <4>3. pc'["publish"] = pc["publish"]
        BY <1>3, <4>1
      <4> QED
        BY <1>1, <2>1, <4>1, <4>2, <4>3 DEF AtRest
    <3> QED
      BY <1>5, <3>1, <3>2
  <2>3. Pushing' = Pushing
    BY <2>1 DEF Pushing
  <2>4. Moved(0, 0)
    BY <1>1, <1>4, <2>1, <2>3 DEF Moved, Total
  <2> QED
    BY <2>2, <2>4
<1>6. CASE HealthTick \/ HealthReadOK \/ HealthReadFail
  BY <1>5, <1>6 DEF HealthTick, HealthReadOK, HealthReadFail, ReadBatch, counterVars
<1>7. CASE HandleHeartbeatResult
  <2>1. \/ UNCHANGED <<pushPoint, offered, pc>>
        \/ offered' = Count(offered, 1) /\ pc' = [pc EXCEPT !["health"] = "push"]
    BY <1>7 DEF HandleHeartbeatResult
  <2>2. CASE offered' = Count(offered, 1) /\ pc' = [pc EXCEPT !["health"] = "push"]
    <3>1. /\ pc'["health"] = "push" /\ pc'["publish"] = pc["publish"]
          /\ \A w \in Workers : pc'[w] = pc[w]
      BY <1>3, <2>2
    <3>2. pushPoint = NoPoint /\ toPublish = {}
      BY <1>7 DEF AtRest, HandleHeartbeatResult
    <3>3. pushPoint' # NoPoint
      BY <3>1 DEF IInv, Loaded
    <3>4. Pushing = 0 /\ Pushing' = 1
      BY <3>2, <3>3 DEF Pushing
    <3>5. Total + 1 = Total' + 0
      BY <1>2, <1>4, <3>4 DEF Total
    <3>6. Moved(1, 0)
      BY <1>1, <2>2, <3>5 DEF Moved
    <3>7. AtRest'
      BY <1>1, <3>1, <3>2 DEF AtRest
    <3> QED
      BY <3>6, <3>7
  <2> QED
    BY <1>5, <2>1, <2>2
<1> QED
  BY <1>6, <1>7

(* The health check sends what it had to wait with.                        *)
LEMMA HealthSendMoves ==
    ASSUME IInv, AtRest, HealthPush \/ HealthReport
    PROVE  AtRest' /\ \E k, j \in Nat : Moved(k, j)
<1>1. /\ UNCHANGED <<subCh, batch, pubBatch>>
      /\ UNCHANGED <<offered, dropped, successes, failures>>
  BY DEF HealthPush, HealthReport, counterVars
<1>2. /\ Queued \in Nat /\ Held \in Nat /\ Pushing \in Nat
      /\ Reporting \in Nat /\ Waiting \in Nat /\ Sending \in Nat
      /\ pubCh \in Seq(Points) /\ IsFiniteSet(toPublish)
  BY Numbers DEF AtRest
<1>3. /\ DOMAIN pc = Goroutines /\ "health" \in Goroutines
      /\ {"monitor", "health", "publish"} \cap Workers = {}
      /\ Workers \subseteq Goroutines /\ "publish" \in Goroutines
  BY WorkersAssumption DEF IInv, PcOK, Goroutines
<1>4. Queued' = Queued /\ Held' = Held /\ Sending' = Sending
  BY <1>1 DEF Queued, Held, Sending
<1>5. pushPoint \in Points \cup {NoPoint} /\ toPublish \subseteq Points
  BY DEF IInv, FlowOK, Authentic
<1>6. CASE HealthPush
  <2>1. /\ pubCh' = Append(pubCh, pushPoint) /\ pushPoint' = NoPoint
        /\ UNCHANGED toPublish /\ pc["health"] = "push"
        /\ pc' = [pc EXCEPT !["health"] = "apply"]
    BY <1>6 DEF HealthPush
  <2>2. pushPoint # NoPoint /\ pushPoint \in Points /\ toPublish = {}
    BY <1>5, <2>1 DEF IInv, Loaded, AtRest
  <2>3. Pushing = 1 /\ Pushing' = 0 /\ Reporting' = Reporting
    BY <2>1, <2>2 DEF Pushing, Reporting
  <2>4. Waiting' = Waiting + 1
    BY <1>2, <2>1, <2>2, AppendProperties DEF Waiting
  <2>5. Total + 0 = Total' + 0
    BY <1>2, <1>4, <2>3, <2>4 DEF Total
  <2>6. /\ pc'["health"] = "apply" /\ pc'["publish"] = pc["publish"]
        /\ \A w \in Workers : pc'[w] = pc[w]
    BY <1>3, <2>1
  <2>7. AtRest'
    BY <1>1, <2>1, <2>2, <2>6 DEF AtRest
  <2>8. Moved(0, 0)
    BY <1>1, <2>5 DEF Moved
  <2> QED
    BY <2>7, <2>8
<1>7. CASE HealthReport
  <2>1. PICK point \in toPublish : /\ pubCh' = Append(pubCh, point)
                                   /\ toPublish' = toPublish \ {point}
    BY <1>7 DEF HealthReport
  <2>2. /\ UNCHANGED pushPoint /\ pc["health"] = "report"
        /\ pc' = [pc EXCEPT !["health"] = IF toPublish' = {} THEN "select" ELSE "report"]
    BY <1>7 DEF HealthReport
  <2>3. Reporting' = Reporting - 1 /\ IsFiniteSet(toPublish')
    BY <1>2, <2>1, FS_RemoveElement DEF Reporting
  <2>4. Waiting' = Waiting + 1 /\ Pushing' = Pushing
    BY <1>2, <1>5, <2>1, <2>2, AppendProperties DEF Waiting, Pushing
  <2>5. Total + 0 = Total' + 0
    BY <1>2, <1>4, <2>3, <2>4 DEF Total
  <2>6. /\ pc'["publish"] = pc["publish"] /\ \A w \in Workers : pc'[w] = pc[w]
        /\ pc'["health"] = IF toPublish' = {} THEN "select" ELSE "report"
    BY <1>3, <2>2
  <2>7. AtRest'
    BY <1>1, <2>2, <2>3, <2>6 DEF AtRest
  <2>8. Moved(0, 0)
    BY <1>1, <2>5 DEF Moved
  <2> QED
    BY <2>7, <2>8
<1> QED
  BY <1>6, <1>7

(* The check for stale nodes sends a report for every mark it sets.        *)
LEMMA CheckStaleMoves ==
    ASSUME IInv, AtRest, PushMode = "immediate", CheckStaleNodes
    PROVE  AtRest' /\ \E k, j \in Nat : Moved(k, j)
<1>1. /\ UNCHANGED <<subCh, batch, pushPoint, pubCh, pubBatch, dropped, successes, failures>>
      /\ toPublish' = {StaleReport(n) : n \in NewlyStale}
      /\ offered' = Count(offered, Cardinality(NewlyStale))
      /\ pc["health"] = "apply"
      /\ pc' = [pc EXCEPT !["health"] = IF toPublish' = {} THEN "select" ELSE "report"]
  BY DEF CheckStaleNodes, chanVars
<1>2. /\ Queued \in Nat /\ Held \in Nat /\ Pushing \in Nat
      /\ Reporting \in Nat /\ Waiting \in Nat /\ Sending \in Nat
  BY Numbers DEF AtRest
<1>3. /\ DOMAIN pc = Goroutines /\ "health" \in Goroutines
      /\ {"monitor", "health", "publish"} \cap Workers = {}
      /\ Workers \subseteq Goroutines /\ "publish" \in Goroutines
  BY WorkersAssumption DEF IInv, PcOK, Goroutines
<1>4. /\ Queued' = Queued /\ Held' = Held /\ Pushing' = Pushing
      /\ Waiting' = Waiting /\ Sending' = Sending
  BY <1>1 DEF Queued, Held, Pushing, Waiting, Sending
<1>5. toPublish = {} /\ pushPoint = NoPoint /\ Reporting = 0
  BY <1>1, FS_EmptySet DEF AtRest, Reporting
<1>6. IsFiniteSet(NewlyStale) /\ Cardinality(NewlyStale) \in Nat
  <2>1. NewlyStale \in SUBSET NodeIDs
    BY DEF IInv, StateOK, NewlyStale
  <2> QED
    BY <2>1, NodesAssumption, FS_Subset, FS_CardinalityType
<1>7. IsFiniteSet(toPublish') /\ Reporting' = Cardinality(NewlyStale)
  <2> DEFINE report == [n \in NewlyStale |-> StaleReport(n)]
  <2>1. report \in Bijection(NewlyStale, toPublish')
    <3>1. \A m, n \in NewlyStale : report[m] = report[n] => m = n
      BY DEF StaleReport
    <3>2. report \in [NewlyStale -> toPublish'] /\ \A r \in toPublish' : \E n \in NewlyStale : report[n] = r
      BY <1>1
    <3> HIDE DEF report
    <3> QED
      BY <3>1, <3>2 DEF Bijection, Injection, Surjection, IsInjective
  <2>2. ExistsBijection(NewlyStale, toPublish')
    BY <2>1 DEF ExistsBijection
  <2> QED
    BY <1>6, <2>2, FS_Bijection DEF Reporting
<1>8. Total + Cardinality(NewlyStale) = Total' + 0
  BY <1>2, <1>4, <1>5, <1>6, <1>7 DEF Total
<1>9. Moved(Cardinality(NewlyStale), 0)
  BY <1>1, <1>8 DEF Moved
<1>10. AtRest'
  <2>1. /\ pc'["publish"] = pc["publish"] /\ \A w \in Workers : pc'[w] = pc[w]
        /\ pc'["health"] = IF toPublish' = {} THEN "select" ELSE "report"
    BY <1>1, <1>3
  <2> QED
    BY <1>1, <1>5, <1>7, <2>1 DEF AtRest
<1> QED
  BY <1>6, <1>9, <1>10

(* publishWorker: a point is taken, and later published or failed.         *)
LEMMA PublishMoves ==
    ASSUME IInv, AtRest, PushMode = "immediate", Publish
    PROVE  AtRest' /\ \E k, j \in Nat : Moved(k, j)
<1>1. PublishReceive \/ ProcessBatch
  BY DEF Publish, PublishTick
<1>2. /\ UNCHANGED <<subCh, batch, pushPoint, toPublish, offered, dropped>>
      /\ \E q \in {"select", "publish"} : pc' = [pc EXCEPT !["publish"] = q]
  BY <1>1 DEF PublishReceive, ProcessBatch, chanVars, counterVars, healthVars
<1>3. /\ Queued \in Nat /\ Held \in Nat /\ Pushing \in Nat
      /\ Reporting \in Nat /\ Waiting \in Nat /\ Sending \in Nat
      /\ pubCh \in Seq(Points)
  BY Numbers DEF AtRest
<1>4. /\ DOMAIN pc = Goroutines /\ "health" \in Goroutines
      /\ {"monitor", "health", "publish"} \cap Workers = {}
      /\ Workers \subseteq Goroutines /\ "publish" \in Goroutines
  BY WorkersAssumption DEF IInv, PcOK, Goroutines
<1>5. /\ Queued' = Queued /\ Held' = Held /\ Pushing' = Pushing
      /\ Reporting' = Reporting
  BY <1>2 DEF Queued, Held, Pushing, Reporting
<1>6. pc'["health"] = pc["health"] /\ \A w \in Workers : pc'[w] = pc[w]
  BY <1>2, <1>4
<1>7. CASE PublishReceive
  <2>1. /\ pubCh # <<>> /\ pubBatch' = {Head(pubCh)} /\ pubCh' = Tail(pubCh)
        /\ pc["publish"] = "select" /\ pc' = [pc EXCEPT !["publish"] = "publish"]
        /\ UNCHANGED <<successes, failures>>
    BY <1>7 DEF PublishReceive, counterVars
  <2>2. Sending = 0 /\ Sending' = 1
    BY <2>1, FS_EmptySet, FS_Singleton DEF Sending, AtRest
  <2>3. Waiting' = Waiting - 1
    BY <1>3, <2>1, TailOfSeq DEF Waiting
  <2>4. Total + 0 = Total' + 0
    BY <1>3, <1>5, <2>2, <2>3 DEF Total
  <2>5. Moved(0, 0)
    BY <1>2, <2>1, <2>4 DEF Moved
  <2>6. pc'["publish"] = "publish"
    BY <1>4, <2>1
  <2>7. AtRest'
    BY <1>2, <1>6, <2>6 DEF AtRest
  <2> QED
    BY <2>5, <2>7
<1>8. CASE ProcessBatch
  <2>1. /\ \/ successes' = Count(successes, Cardinality(pubBatch)) /\ UNCHANGED failures
           \/ failures' = Count(failures, Cardinality(pubBatch)) /\ UNCHANGED successes
        /\ pubBatch' = {} /\ UNCHANGED pubCh
    BY <1>8 DEF ProcessBatch, FailedPoints, chanVars
  <2>2. Sending' = 0 /\ Waiting' = Waiting
    BY <2>1, FS_EmptySet DEF Sending, Waiting
  <2>3. Total + 0 = Total' + Sending
    BY <1>3, <1>5, <2>2 DEF Total
  <2>4. Moved(0, Sending)
    BY <1>2, <2>1, <2>3 DEF Moved, Sending
  <2>5. AtRest'
    BY <1>2, <1>6, <2>1 DEF AtRest
  <2> QED
    BY <1>3, <2>4, <2>5
<1> QED
  BY <1>1, <1>7, <1>8

(* All other steps leave every point where it is.                          *)
LEMMA OtherMoves ==
    ASSUME IInv, AtRest,
           \/ Environment \/ HandlerPanic \/ Cancel \/ CloseSubCh \/ ClosePubCh
           \/ UNCHANGED vars \/ \E g \in Goroutines : Exit(g)
    PROVE  AtRest' /\ \E k, j \in Nat : Moved(k, j)
<1>1. /\ UNCHANGED <<subCh, batch, pushPoint, toPublish, pubCh, pubBatch>>
      /\ UNCHANGED <<offered, dropped, successes, failures>>
  BY DEF Environment, Tick, NatsDown, NatsUp, ServerChange, HandlerPanic, Cancel, CloseSubCh,
         ClosePubCh, Exit, vars, chanVars, counterVars, healthVars
<1>2. Total' = Total
  BY <1>1 DEF Total, Queued, Held, Pushing, Reporting, Waiting, Sending
<1>3. Moved(0, 0)
  BY <1>1, <1>2 DEF Moved
<1>4. AtRest'
  <2>1. CASE UNCHANGED pc
    BY <1>1, <2>1 DEF AtRest
  <2>2. CASE \E g \in Goroutines : Exit(g)
    <3>1. PICK g \in Goroutines : pc[g] = "select" /\ pc' = [pc EXCEPT ![g] = "done"]
      BY <2>2 DEF Exit
    <3>2. DOMAIN pc = Goroutines
      BY DEF IInv, PcOK
    <3>3. \A h \in Goroutines : pc'[h] = pc[h] \/ (pc[h] = "select" /\ pc'[h] = "done")
      BY <3>1, <3>2
    <3>4. Workers \subseteq Goroutines /\ "health" \in Goroutines /\ "publish" \in Goroutines
      BY DEF Goroutines
    <3> QED
      BY <1>1, <3>3, <3>4 DEF AtRest
  <2> QED
    BY <2>1, <2>2 DEF Environment, Tick, NatsDown, NatsUp, ServerChange, HandlerPanic, Cancel,
                      CloseSubCh, ClosePubCh, vars
<1> QED
  BY <1>3, <1>4

-----------------------------------------------------------------------------
(* Every behavior of Collector in immediate mode *)

(* Nothing is on its way when Start returns.                               *)
LEMMA InitAccount == Init => AtRest /\ PointsAccounted
<1> SUFFICES ASSUME Init PROVE AtRest /\ PointsAccounted
  OBVIOUS
<1>1. /\ subCh = <<>> /\ pubCh = <<>> /\ toPublish = {} /\ pubBatch = {} /\ pushPoint = NoPoint
      /\ batch = [w \in Workers |-> <<>>]
      /\ offered = 0 /\ dropped = 0 /\ successes = 0 /\ failures = 0
  BY DEF Init
<1>2. AtRest
  BY <1>1, FS_EmptySet DEF AtRest
<1>3. PointsIn(subCh) = {} /\ PointsIn(batch) = {}
  BY <1>1 DEF PointsIn
<1>4. InFlight = 0
  <2>1. Cardinality({}) = 0 /\ Len(<<>>) = 0
    BY FS_EmptySet
  <2>2. InFlight = Cardinality({}) + Cardinality({}) + 0 + Cardinality({}) + Len(<<>>)
                   + Cardinality({})
    BY <1>1, <1>3 DEF InFlight
  <2>3. InFlight = 0 + 0 + 0 + 0 + 0 + 0
    BY <2>1, <2>2
  <2> QED
    BY <2>3
<1>5. 0 \in Counters
  BY ConfigAssumption DEF Counters
<1>6. PointsAccounted
  BY <1>1, <1>4, <1>5, NothingAdded DEF PointsAccounted
<1> QED
  BY <1>2, <1>6

(* Every step keeps the books balanced.                                    *)
LEMMA AccountStep ==
    ASSUME AccountInv, IInv', [Next]_vars, PushMode = "immediate"
    PROVE  AtRest' /\ PointsAccounted'
<1>1. AtRest' /\ \E k, j \in Nat : Moved(k, j)
  <2>1. CASE HandlerSend \/ HandlerDrop
    BY <2>1, HandlerMoves DEF AccountInv
  <2>2. CASE \E w \in Workers : SubWorker(w)
    BY <2>2, ReceiveMoves, SendMoves DEF AccountInv, SubWorker
  <2>3. CASE HealthCheck
    BY <2>3, HeartbeatMoves, HealthSendMoves, CheckStaleMoves DEF AccountInv, HealthCheck
  <2>4. CASE Publish
    BY <2>4, PublishMoves DEF AccountInv
  <2>5. CASE \/ Environment \/ HandlerPanic \/ Cancel \/ CloseSubCh \/ ClosePubCh
             \/ UNCHANGED vars \/ \E g \in Goroutines : Exit(g)
    BY <2>5, OtherMoves DEF AccountInv
  <2> QED
    BY <2>1, <2>2, <2>3, <2>4, <2>5 DEF Next, Handler
<1> QED
  BY <1>1, Reckoned DEF AccountInv

(* In immediate mode no point gets lost unseen: whatever the interleaving  *)
(* of the goroutines, every point offered is on its way, or is counted     *)
(* once as dropped, published or failed (collector.go).                    *)
THEOREM NothingLost ==
    ASSUME PushMode = "immediate"
    PROVE  Spec => []PointsAccounted
<1>1. Init => AccountInv
  BY InitIInv, InitAccount DEF AccountInv
<1>2. AccountInv /\ [Next]_vars => AccountInv'
  BY NextIInv, AccountStep DEF AccountInv
<1>3. AccountInv => PointsAccounted
  BY DEF AccountInv
<1> QED
  BY <1>1, <1>2, <1>3, PTL DEF Spec
=============================================================================
