--------------------------- MODULE WritebackProofs ---------------------------
(***************************************************************************)
(* Theorems about Writeback, for every set of nodes, texts and commands,   *)
(* every width of the integers and any number of commands and outages.     *)
(*                                                                         *)
(* What is proved is about outcomes and order.  Both rest on two facts:    *)
(* the handler has nothing to do with a command before it takes it from    *)
(* the queue, and a request that the handler does not wait for belongs to  *)
(* a command one of whose writes timed out, or was answered by a good      *)
(* status that is not OK.                                                  *)
(***************************************************************************)
EXTENDS Writeback, SequenceTheorems, TLAPS

Length == Len(commands)

(* The handler has had to do with command j.                               *)
Touched(j) ==
    \/ taken[j] # {} \/ answers[j] # <<>> \/ j \in unsure
    \/ \E r \in requests : r.id = j

StateOK ==
    /\ commands \in Seq(CommandSet) /\ Length <= MaxCommands
    /\ queue \in Seq(1..Length)
    /\ pc \in {"idle", "lookup", "write", "await", "publish"}
    /\ current \in 0..Length
    /\ current = 0 <=> pc = "idle"
    /\ attempt \in {1, 2}
    /\ result.success \in BOOLEAN
    /\ \A r \in requests : r.id \in 1..Length /\ r.attempt \in {1, 2}
    /\ unsure \subseteq 1..Length
    /\ DOMAIN taken = Ids /\ DOMAIN holds = Nodes /\ DOMAIN answers = Ids

(* The queue is in the order of the commands, and what has been touched is *)
(* the current command and those before it.                                *)
OrderOK ==
    /\ \A k, l \in 1..Len(queue) : k < l => queue[k] < queue[l]
    /\ current # 0 => \A k \in 1..Len(queue) : current < queue[k]
    /\ \A j \in Ids :
          Touched(j) => /\ j <= Length
                        /\ current # 0 => j <= current
                        /\ \A k \in 1..Len(queue) : j < queue[k]
    /\ pc = "lookup" => ~Touched(current)

(* Each write is sent once, and one that nobody waits for is unsure.       *)
RequestsOK ==
    /\ \A r \in requests : AwaitedBy(r) \/ r.id \in unsure
    /\ pc = "write" => \A r \in requests : r.id = current => r.attempt < attempt
    /\ pc = "await" => \A r \in requests : r.id = current => r.attempt <= attempt
    /\ \A r, q \in requests : AwaitedBy(r) /\ AwaitedBy(q) => r = q

(* A value that was taken from the current command is a success, or the    *)
(* answer of the server was lost and the write will time out.              *)
OutcomeOK ==
    /\ current # 0 => answers[current] = <<>>
    /\ current # 0 /\ current \notin unsure /\ taken[current] # {} =>
          \/ pc = "await" /\ \A r \in requests : r.id # current
          \/ pc = "publish" /\ result.success

AnsweredAtMostOnce == \A i \in Ids : answers[i] = <<>> \/ \E res : answers[i] = <<res>>

IInv ==
    /\ StateOK /\ OrderOK /\ RequestsOK /\ OutcomeOK
    /\ AnsweredAtMostOnce /\ ErrorMeansNotTaken /\ NewestWins

outcomeVars == <<commands, requests, taken, holds, unsure, answers>>

-----------------------------------------------------------------------------
(* Lemmas *)

LEMMA Bounds == MaxCommands \in Nat
BY Zenon, CommandsAssumption

LEMMA IdsOfCommands == StateOK => Length \in Nat /\ 1..Length \subseteq Ids /\ DOMAIN commands = 1..Length
<1> SUFFICES ASSUME StateOK PROVE Length \in Nat /\ 1..Length \subseteq Ids /\ DOMAIN commands = 1..Length
  OBVIOUS
<1>1. commands \in Seq(CommandSet) /\ Length <= MaxCommands
  BY DEF StateOK
<1>2. Length \in Nat /\ DOMAIN commands = 1..Length
  BY <1>1, LenProperties DEF Length
<1> QED
  BY <1>1, <1>2, Bounds DEF Ids

(* Success and Failure say which they are.                                 *)
LEMMA ResultsSay ==
    /\ Failure.success = FALSE
    /\ \A v : Success(v).success = TRUE
BY DEF Failure, Success

(* What AfterFailure decides: a retry comes second and only once.          *)
LEMMA AfterFailureSays ==
    ASSUME StateOK, AfterFailure
    PROVE  \/ pc' = "publish" /\ result'.success = FALSE /\ attempt' = attempt
           \/ pc' = "write" /\ attempt = 1 /\ attempt' = 2 /\ result' = result
<1> DEFINE retry == attempt = 1 /\ NeedsRetry(commands[current].type, metadataType)
           values == ConvertWriteValue(commands[current].raw, metadataType)
<1>1. /\ (IF retry THEN values ELSE {}) = {} => result' = Failure /\ pc' = "publish" /\ attempt' = attempt
      /\ (IF retry THEN values ELSE {}) # {} => attempt' = 2 /\ pc' = "write" /\ result' = result
  BY Zenon DEF AfterFailure
<1>2. (IF retry THEN values ELSE {}) # {} => attempt = 1
  OBVIOUS
<1> QED
  BY <1>1, <1>2, ResultsSay

LEMMA AfterSuccessSays ==
    ASSUME AfterSuccess
    PROVE  pc' = "publish" /\ result'.success = TRUE /\ attempt' = attempt
BY ResultsSay DEF AfterSuccess

LEMMA OneMore ==
    ASSUME NEW X, NEW seq \in Seq(X), NEW e \in X
    PROVE  /\ Append(seq, e) \in Seq(X) /\ Len(Append(seq, e)) = Len(seq) + 1 /\ Len(seq) \in Nat
           /\ \A k \in 1..Len(seq) : Append(seq, e)[k] = seq[k]
           /\ Append(seq, e)[Len(seq) + 1] = e
BY AppendProperties, LenProperties

(* The queue without its first element.                                    *)
LEMMA WithoutFirst ==
    ASSUME NEW X, NEW seq \in Seq(X), seq # <<>>
    PROVE  LET rest == SubSeq(seq, 1, 0) \o SubSeq(seq, 2, Len(seq))
           IN  /\ seq[1] \in X /\ Len(seq) \in Nat \ {0}
               /\ rest \in Seq(X) /\ Len(rest) = Len(seq) - 1
               /\ \A k \in 1..Len(rest) : rest[k] = seq[k + 1]
<1> DEFINE none == SubSeq(seq, 1, 0)
           rest == SubSeq(seq, 2, Len(seq))
           n == Len(seq)
<1>1. n \in Nat \ {0} /\ seq[1] \in X
  BY HeadTailProperties, EmptySeq, LenProperties, ElementOfSeq
<1>2. none = <<>>
  BY SubSeqEmpty
<1>3. \A i \in 2..n : seq[i] \in X
  BY <1>1, ElementOfSeq
<1>4. /\ rest \in Seq(X) /\ Len(rest) = IF 2 <= n THEN n - 2 + 1 ELSE 0
      /\ \A i \in 1..(n - 2 + 1) : rest[i] = seq[2 + i - 1]
  <2>1. 2 \in Int /\ n \in Int
    BY <1>1
  <2> QED
    BY <1>3, <2>1, SubSeqProperties
<1>5. none \o rest = rest
  BY <1>2, <1>4, ConcatEmptySeq
<1> HIDE DEF none, rest, n
<1>6. Len(rest) = n - 1 /\ \A i \in 1..Len(rest) : rest[i] = seq[i + 1]
  BY <1>1, <1>4
<1> QED
  BY <1>1, <1>4, <1>5, <1>6 DEF none, rest, n

-----------------------------------------------------------------------------
(* The steps *)

LEMMA InitIInv == Init => IInv
<1> SUFFICES ASSUME Init PROVE IInv
  OBVIOUS
<1>1. /\ commands = <<>> /\ queue = <<>> /\ pc = "idle" /\ current = 0 /\ attempt = 1
      /\ result = Failure /\ requests = {} /\ unsure = {}
      /\ taken = [i \in Ids |-> {}] /\ holds = [n \in Nodes |-> 0]
      /\ answers = [i \in Ids |-> <<>>]
  BY DEF Init
<1>2. Length = 0 /\ Len(queue) = 0 /\ commands \in Seq(CommandSet) /\ queue \in Seq(1..Length)
  BY <1>1, EmptySeq DEF Length
<1>3. StateOK
  <2>1. result.success \in BOOLEAN
    BY <1>1, ResultsSay, Zenon
  <2>2. DOMAIN taken = Ids /\ DOMAIN holds = Nodes /\ DOMAIN answers = Ids
    BY <1>1
  <2> QED
    BY <1>1, <1>2, <2>1, <2>2, Bounds DEF StateOK
<1>4. OrderOK /\ RequestsOK /\ OutcomeOK
  BY <1>1, <1>2 DEF OrderOK, RequestsOK, OutcomeOK, Touched
<1>5. AnsweredAtMostOnce /\ ErrorMeansNotTaken
  BY <1>1 DEF AnsweredAtMostOnce, ErrorMeansNotTaken
<1>6. NewestWins
  BY <1>1 DEF NewestWins
<1> QED
  BY <1>3, <1>4, <1>5, <1>6 DEF IInv

(* A new command is behind all others.                                     *)
LEMMA DeliverStep ==
    ASSUME IInv, NEW c \in CommandSet, Deliver(c)
    PROVE  IInv'
<1>1. /\ commands' = Append(commands, c) /\ queue' = Append(queue, Length + 1)
      /\ Length < MaxCommands
      /\ UNCHANGED <<pc, current, attempt, result, requests, taken, holds, unsure, answers>>
  BY DEF Deliver, cmdVars, serverVars, Length
<1>2. /\ Length \in Nat /\ commands' \in Seq(CommandSet) /\ Length' = Length + 1
      /\ \A i \in 1..Length : commands'[i] = commands[i]
      /\ DOMAIN commands' = 1..(Length + 1) /\ DOMAIN commands = 1..Length
      /\ 1..(Length + 1) \subseteq Ids
  <2>1. commands \in Seq(CommandSet) /\ Length \in Nat
    BY IdsOfCommands DEF IInv, StateOK
  <2>2. /\ commands' \in Seq(CommandSet) /\ Len(commands') = Len(commands) + 1
        /\ \A i \in 1..Len(commands) : commands'[i] = commands[i]
    BY <1>1, <2>1, OneMore
  <2> QED
    BY <1>1, <2>1, <2>2, LenProperties, Bounds DEF Length, Ids
<1>3. /\ queue \in Seq(1..Length) /\ queue' \in Seq(1..(Length + 1))
      /\ Len(queue') = Len(queue) + 1 /\ Len(queue) \in Nat
      /\ \A k \in 1..Len(queue) : queue'[k] = queue[k] /\ queue[k] \in 1..Length
      /\ queue'[Len(queue) + 1] = Length + 1
  <2>1. queue \in Seq(1..Length) /\ 1..Length \subseteq 1..(Length + 1)
    BY <1>2 DEF IInv, StateOK
  <2>2. queue \in Seq(1..(Length + 1)) /\ Length + 1 \in 1..(Length + 1)
    BY <1>2, <2>1
  <2>3. \A k \in 1..Len(queue) : queue[k] \in 1..Length
    BY <2>1, ElementOfSeq
  <2> QED
    BY <1>1, <2>1, <2>2, <2>3, OneMore
<1>4. StateOK'
  BY <1>1, <1>2, <1>3, Bounds DEF IInv, StateOK
<1>5. \A j \in Ids : Touched(j)' <=> Touched(j)
  BY <1>1 DEF Touched
<1>6. OrderOK'
  <2>1. \A k \in 1..Len(queue') :
           \/ k \in 1..Len(queue) /\ queue'[k] = queue[k] /\ queue[k] \in 1..Length
           \/ k = Len(queue) + 1 /\ queue'[k] = Length + 1
    BY <1>3
  <2>2. current \in 0..Length /\ \A j \in Ids : Touched(j) => j <= Length
    BY DEF IInv, StateOK, OrderOK
  <2>3. \A k, l \in 1..Len(queue') : k < l => queue'[k] < queue'[l]
    <3> TAKE k, l \in 1..Len(queue')
    <3>1. \A m, n \in 1..Len(queue) : m < n => queue[m] < queue[n]
      BY DEF IInv, OrderOK
    <3>2. Length \in Nat /\ Len(queue) \in Nat /\ Len(queue') = Len(queue) + 1
      BY <1>2, <1>3
    <3>3. CASE l \in 1..Len(queue)
      BY <2>1, <3>1, <3>2, <3>3
    <3>4. CASE l = Len(queue) + 1
      BY <2>1, <3>2, <3>4
    <3> QED
      BY <2>1, <3>3, <3>4
  <2>4. current # 0 => \A k \in 1..Len(queue') : current < queue'[k]
    <3>1. current # 0 => \A k \in 1..Len(queue) : current < queue[k]
      BY DEF IInv, OrderOK
    <3>2. Length \in Nat /\ current < Length + 1
      BY <1>2, <2>2
    <3> QED
      BY <2>1, <3>1, <3>2
  <2>5. \A j \in Ids : Touched(j) => \A k \in 1..Len(queue') : j < queue'[k]
    <3> SUFFICES ASSUME NEW j \in Ids, Touched(j), NEW k \in 1..Len(queue')
                 PROVE  j < queue'[k]
      OBVIOUS
    <3>1. j \in Nat /\ j <= Length
      BY <2>2, Bounds DEF Ids
    <3>2. \A m \in 1..Len(queue) : j < queue[m]
      BY DEF IInv, OrderOK
    <3> QED
      BY <1>2, <2>1, <3>1, <3>2
  <2>6. pc = "lookup" => (~Touched(current))'
    BY <1>1 DEF IInv, OrderOK, Touched
  <2> QED
    BY <1>1, <1>2, <1>5, <2>2, <2>3, <2>4, <2>5, <2>6, Bounds DEF IInv, OrderOK, Ids
<1>7. RequestsOK' /\ OutcomeOK' /\ AnsweredAtMostOnce' /\ ErrorMeansNotTaken'
  BY <1>1 DEF IInv, RequestsOK, AwaitedBy, OutcomeOK, AnsweredAtMostOnce, ErrorMeansNotTaken
<1>8. NewestWins'
  <2>1. taken[Length + 1] = {}
    BY <1>2 DEF IInv, OrderOK, Touched
  <2>2. \A i \in 1..(Length + 1) : i \in 1..Length \/ i = Length + 1
    BY <1>2
  <2> QED
    BY <1>1, <1>2, <2>1, <2>2 DEF IInv, NewestWins
<1> QED
  BY <1>4, <1>6, <1>7, <1>8 DEF IInv

(* Neither NATS nor the calls of main at the end touch what is under way;  *)
(* at most the queue is discarded.                                         *)
LEMMA EnvironmentStep ==
    ASSUME IInv, UNCHANGED <<outcomeVars, pc, current, attempt, result>>,
           queue' = queue \/ queue' = <<>>
    PROVE  IInv'
<1>1. UNCHANGED <<commands, requests, taken, holds, unsure, answers, pc, current, attempt, result>>
  BY DEF outcomeVars
<1>2. /\ queue' \in Seq(1..Length)
      /\ queue' = queue \/ Len(queue') = 0
  BY EmptySeq DEF IInv, StateOK
<1>3. StateOK'
  BY <1>1, <1>2 DEF IInv, StateOK, Length
<1>4. OrderOK'
  <2>1. CASE queue' = queue
    BY <1>1, <2>1 DEF IInv, OrderOK, Touched, Length
  <2>2. CASE Len(queue') = 0
    BY <1>1, <2>2 DEF IInv, OrderOK, Touched, Length
  <2> QED
    BY <1>2, <2>1, <2>2
<1>5. RequestsOK' /\ OutcomeOK' /\ AnsweredAtMostOnce' /\ ErrorMeansNotTaken' /\ NewestWins'
  BY <1>1 DEF IInv, RequestsOK, AwaitedBy, OutcomeOK, AnsweredAtMostOnce, ErrorMeansNotTaken,
              NewestWins
<1> QED
  BY <1>3, <1>4, <1>5 DEF IInv

(* What the next message is: the oldest command nobody has touched.        *)
LEMMA HandleMessageStep ==
    ASSUME IInv, HandleMessage
    PROVE  IInv'
<1>1. /\ pc = "idle" /\ queue # <<>> /\ current' = queue[1]
      /\ queue' = SubSeq(queue, 1, 0) \o SubSeq(queue, 2, Len(queue))
      /\ UNCHANGED outcomeVars
  <2>1. /\ pc = "idle" /\ queue # <<>> /\ current' = queue[1]
        /\ queue' = SubSeq(queue, 1, 1 - 1) \o SubSeq(queue, 1 + 1, Len(queue))
        /\ UNCHANGED <<commands, serverVars, answers>>
    BY Zenon DEF HandleMessage, NextPending
  <2>2. UNCHANGED outcomeVars
    BY <2>1 DEF serverVars, outcomeVars
  <2>3. 1 - 1 = 0 /\ 1 + 1 = 2
    OBVIOUS
  <2> QED
    BY <2>1, <2>2, <2>3, Zenon
<1>2. \/ pc' = "publish" /\ result' = Failure /\ attempt' = attempt
      \/ pc' = "write" /\ attempt' = 1 /\ result' = result
      \/ pc' = "lookup" /\ UNCHANGED <<attempt, result>>
  BY DEF HandleMessage, PrepareWrite
<1>3. UNCHANGED <<commands, requests, taken, holds, unsure, answers>>
  BY <1>1 DEF outcomeVars
<1>4. Length \in Nat /\ Length' = Length /\ 1..Length \subseteq Ids /\ queue \in Seq(1..Length)
  BY <1>3, IdsOfCommands DEF IInv, StateOK, Length
<1>5. /\ current' \in 1..Length /\ queue' \in Seq(1..Length)
      /\ Len(queue) \in Nat \ {0} /\ Len(queue') = Len(queue) - 1
      /\ \A k \in 1..Len(queue') : queue'[k] = queue[k + 1]
  BY <1>1, <1>4, WithoutFirst
<1>6. ~Touched(current')
  BY <1>1, <1>4, <1>5 DEF IInv, OrderOK
<1>7. StateOK'
  <2>1. result'.success \in BOOLEAN
    BY <1>2, ResultsSay, Zenon DEF IInv, StateOK
  <2> QED
    BY <1>2, <1>3, <1>4, <1>5, <2>1 DEF IInv, StateOK
<1>8. \A k \in 1..Len(queue') : k + 1 \in 1..Len(queue) /\ 1 \in 1..Len(queue)
  BY <1>5
<1>9. OrderOK'
  <2>1. \A k, l \in 1..Len(queue') : k < l => queue'[k] < queue'[l]
    BY <1>5, <1>8 DEF IInv, OrderOK
  <2>2. \A k \in 1..Len(queue') : current' < queue'[k]
    BY <1>1, <1>5, <1>8 DEF IInv, OrderOK
  <2>3. \A j \in Ids : Touched(j)' <=> Touched(j)
    BY <1>3 DEF Touched
  <2>4. \A j \in Ids : Touched(j) => j <= Length /\ j < current'
                                     /\ \A k \in 1..Len(queue') : j < queue'[k]
    BY <1>1, <1>5, <1>8 DEF IInv, OrderOK
  <2>5. current' \in Ids /\ Ids \subseteq Nat
    BY <1>4, <1>5 DEF Ids
  <2>6. (~Touched(current))'
    BY <1>3, <1>6 DEF Touched
  <2> QED
    BY <1>4, <1>5, <2>1, <2>2, <2>3, <2>4, <2>5, <2>6 DEF OrderOK
<1>10. RequestsOK'
  <2>1. \A r \in requests : r.id \in unsure /\ r.id # current'
    BY <1>1, <1>6 DEF IInv, RequestsOK, AwaitedBy, Touched
  <2> QED
    BY <1>3, <2>1 DEF RequestsOK, AwaitedBy
<1>11. OutcomeOK'
  BY <1>3, <1>6 DEF OutcomeOK, Touched
<1>12. AnsweredAtMostOnce' /\ ErrorMeansNotTaken' /\ NewestWins'
  BY <1>3 DEF IInv, AnsweredAtMostOnce, ErrorMeansNotTaken, NewestWins
<1> QED
  BY <1>7, <1>9, <1>10, <1>11, <1>12 DEF IInv

LEMMA LookupStep ==
    ASSUME IInv, LookupOK \/ LookupFails
    PROVE  IInv'
<1>1. /\ pc = "lookup" /\ pc' = "write" /\ attempt' = 1
      /\ UNCHANGED <<commands, queue, current, result, requests, taken, holds, unsure, answers>>
  BY DEF LookupOK, LookupFails, PrepareWrite, serverVars
<1>2. StateOK'
  BY <1>1 DEF IInv, StateOK, Length
<1>3. ~Touched(current)
  BY <1>1 DEF IInv, OrderOK
<1>4. OrderOK'
  BY <1>1 DEF IInv, OrderOK, Touched, Length
<1>5. RequestsOK' /\ OutcomeOK'
  BY <1>1, <1>3 DEF IInv, RequestsOK, AwaitedBy, OutcomeOK, Touched
<1>6. AnsweredAtMostOnce' /\ ErrorMeansNotTaken' /\ NewestWins'
  BY <1>1 DEF IInv, AnsweredAtMostOnce, ErrorMeansNotTaken, NewestWins
<1> QED
  BY <1>2, <1>4, <1>5, <1>6 DEF IInv

LEMMA SendWriteStep ==
    ASSUME IInv, SendWrite
    PROVE  IInv'
<1> DEFINE new == [id |-> current, attempt |-> attempt, value |-> writeValue]
<1>1. /\ pc = "write" /\ pc' = "await" /\ requests' = requests \cup {new}
      /\ UNCHANGED <<commands, queue, current, attempt, result, taken, holds, unsure, answers>>
  BY DEF SendWrite, cmdVars
<1>2. new.id = current /\ new.attempt = attempt /\ current \in 1..Length /\ current # 0
  BY <1>1, IdsOfCommands DEF IInv, StateOK
<1> HIDE DEF new
<1>3. StateOK'
  BY <1>1, <1>2 DEF IInv, StateOK, Length
<1>4. \A r \in requests : r.id \in unsure /\ (r.id = current => r.attempt < attempt)
                          /\ r.attempt \in {1, 2} /\ attempt \in {1, 2}
  BY <1>1 DEF IInv, StateOK, RequestsOK, AwaitedBy
<1>5. RequestsOK'
  <2>1. \A r \in requests' : r \in requests \/ r = new
    BY <1>1
  <2>2. \A r \in requests : r.id = current => r.attempt # attempt
    BY <1>4
  <2>3. \A r \in requests' : AwaitedBy(r)' => r = new
    BY <1>1, <2>1, <2>2 DEF AwaitedBy
  <2>4. \A r \in requests' : AwaitedBy(r)' \/ r.id \in unsure
    BY <1>1, <1>2, <1>4, <2>1 DEF AwaitedBy
  <2>5. \A r \in requests' : r.id = current => r.attempt <= attempt
    <3>1. attempt \in {1, 2} /\ new.attempt = attempt
      BY <1>2 DEF IInv, StateOK
    <3>2. new.attempt <= attempt
      BY <3>1
    <3>3. \A r \in requests : r.id = current => r.attempt <= attempt
      BY <1>4
    <3> QED
      BY <2>1, <3>2, <3>3, Zenon
  <2> QED
    BY <1>1, <2>3, <2>4, <2>5 DEF RequestsOK
<1>6. current \notin unsure => taken[current] = {}
  BY <1>1, <1>2 DEF IInv, OutcomeOK
<1>7. OrderOK'
  <2>1. \A j \in Ids : Touched(j)' => Touched(j) \/ j = current
    BY <1>1, <1>2 DEF Touched
  <2>2. current <= Length /\ \A k \in 1..Len(queue) : current < queue[k]
    BY <1>2, IdsOfCommands DEF IInv, OrderOK, StateOK
  <2> QED
    BY <1>1, <1>2, <2>1, <2>2 DEF IInv, OrderOK, Length
<1>8. OutcomeOK' /\ AnsweredAtMostOnce' /\ ErrorMeansNotTaken' /\ NewestWins'
  BY <1>1, <1>6 DEF IInv, OutcomeOK, AnsweredAtMostOnce, ErrorMeansNotTaken, NewestWins
<1> QED
  BY <1>3, <1>5, <1>7, <1>8 DEF IInv

(* An error before anything is sent: nothing of this command was taken     *)
(* since, or its first write had timed out.                                *)
LEMMA WriteFailsStep ==
    ASSUME IInv, WriteFails
    PROVE  IInv'
<1>1. /\ pc = "write" /\ AfterFailure
      /\ UNCHANGED <<commands, queue, current, requests, taken, holds, unsure, answers>>
  BY DEF WriteFails, serverVars
<1>2. \/ pc' = "publish" /\ result'.success = FALSE /\ attempt' = attempt
      \/ pc' = "write" /\ attempt = 1 /\ attempt' = 2 /\ result' = result
  BY <1>1, AfterFailureSays DEF IInv
<1>3. StateOK'
  BY <1>1, <1>2 DEF IInv, StateOK, Length
<1>4. OrderOK'
  BY <1>1, <1>2 DEF IInv, OrderOK, Touched, Length
<1>5. RequestsOK'
  <2>1. \A r \in requests : r.id \in unsure /\ (r.id = current => r.attempt < attempt)
                            /\ r.attempt \in {1, 2}
    BY <1>1 DEF IInv, StateOK, RequestsOK, AwaitedBy
  <2> QED
    BY <1>1, <1>2, <2>1 DEF RequestsOK, AwaitedBy
<1>6. OutcomeOK'
  BY <1>1, <1>2 DEF IInv, OutcomeOK
<1>7. AnsweredAtMostOnce' /\ ErrorMeansNotTaken' /\ NewestWins'
  BY <1>1 DEF IInv, AnsweredAtMostOnce, ErrorMeansNotTaken, NewestWins
<1> QED
  BY <1>3, <1>4, <1>5, <1>6, <1>7 DEF IInv

(* From a timeout on nothing is known of the command any more.             *)
LEMMA WriteTimesOutStep ==
    ASSUME IInv, WriteTimesOut
    PROVE  IInv'
<1>1. /\ pc = "await" /\ AfterFailure /\ unsure' = unsure \cup {current}
      /\ UNCHANGED <<commands, queue, current, requests, taken, holds, answers>>
  BY DEF WriteTimesOut
<1>2. \/ pc' = "publish" /\ result'.success = FALSE /\ attempt' = attempt
      \/ pc' = "write" /\ attempt = 1 /\ attempt' = 2 /\ result' = result
  BY <1>1, AfterFailureSays DEF IInv
<1>3. current \in 1..Length /\ current # 0
  BY <1>1, IdsOfCommands DEF IInv, StateOK
<1>4. StateOK'
  BY <1>1, <1>2, <1>3 DEF IInv, StateOK, Length
<1>5. OrderOK'
  <2>1. \A j \in Ids : Touched(j)' => Touched(j) \/ j = current
    BY <1>1 DEF Touched
  <2>2. current <= Length /\ \A k \in 1..Len(queue) : current < queue[k]
    BY <1>3, IdsOfCommands DEF IInv, OrderOK, StateOK
  <2> QED
    BY <1>1, <1>2, <1>3, <2>1, <2>2 DEF IInv, OrderOK, Length
<1>6. RequestsOK'
  <2>1. \A r \in requests : r.id \in unsure' /\ (r.id = current => r.attempt <= attempt)
                            /\ r.attempt \in {1, 2}
    BY <1>1 DEF IInv, StateOK, RequestsOK, AwaitedBy
  <2> QED
    BY <1>1, <1>2, <2>1 DEF RequestsOK, AwaitedBy
<1>7. OutcomeOK' /\ AnsweredAtMostOnce' /\ ErrorMeansNotTaken' /\ NewestWins'
  BY <1>1 DEF IInv, OutcomeOK, AnsweredAtMostOnce, ErrorMeansNotTaken, NewestWins
<1> QED
  BY <1>4, <1>5, <1>6, <1>7 DEF IInv

(* The step that makes a node take a value.  A request that nobody    *)
(* waits for is late, so that its command is unsure; one that is awaited   *)
(* belongs to the newest command there is.                                 *)
LEMMA ServerTakesStep ==
    ASSUME IInv, NEW r \in requests, ServerTakes(r)
    PROVE  IInv'
<1> DEFINE i == r.id
           node == commands[i].node
<1>1. /\ requests' = requests \ {r}
      /\ taken' = [taken EXCEPT ![i] = @ \cup {r.value.is}]
      /\ holds' = [holds EXCEPT ![node] = i]
      /\ UNCHANGED <<commands, queue, current, unsure, answers>>
  BY DEF ServerTakes, Written, netVars
<1>2. \/ AwaitedBy(r) /\ pc' = "publish" /\ result'.success = TRUE /\ attempt' = attempt
      \/ UNCHANGED <<pc, attempt, result>>
  BY AfterSuccessSays DEF ServerTakes, Unnoticed
<1>3. /\ i \in 1..Length /\ i \in Ids /\ Length \in Nat /\ DOMAIN commands = 1..Length
      /\ taken'[i] # {} /\ \A j \in Ids : j # i => taken'[j] = taken[j]
  <2>1. i \in 1..Length /\ i \in Ids /\ Length \in Nat /\ DOMAIN commands = 1..Length
    BY IdsOfCommands DEF IInv, StateOK
  <2> QED
    BY <1>1, <2>1 DEF IInv, StateOK
<1>4. AwaitedBy(r) \/ i \in unsure
  BY DEF IInv, RequestsOK
<1>5. AwaitedBy(r) => pc = "await" /\ i = current /\ i # 0
  BY <1>3 DEF AwaitedBy
<1>6. StateOK'
  BY <1>1, <1>2, <1>5 DEF IInv, StateOK, Length
<1>7. OrderOK'
  <2>1. \A j \in Ids : Touched(j)' => Touched(j)
    BY <1>1, <1>3 DEF Touched
  <2>2. pc' = "lookup" => pc = "lookup" /\ current \in Ids
    BY <1>2, IdsOfCommands DEF IInv, StateOK
  <2> QED
    BY <1>1, <2>1, <2>2 DEF IInv, OrderOK, Length
<1>8. RequestsOK'
  <2>1. CASE UNCHANGED <<pc, attempt, result>>
    BY <1>1, <2>1 DEF IInv, RequestsOK, AwaitedBy
  <2>2. CASE AwaitedBy(r) /\ pc' = "publish" /\ attempt' = attempt
    BY <1>1, <2>2 DEF IInv, RequestsOK, AwaitedBy
  <2> QED
    BY <1>2, <2>1, <2>2
<1>9. OutcomeOK'
  <2>1. current # 0 => answers'[current'] = <<>>
    BY <1>1 DEF IInv, OutcomeOK
  <2>2. ASSUME current # 0, current \notin unsure, taken'[current] # {}
        PROVE  \/ pc' = "await" /\ \A q \in requests' : q.id # current
               \/ pc' = "publish" /\ result'.success
    <3>1. CASE AwaitedBy(r)
      <4>1. \A q \in requests' : q.id # current
        BY <1>1, <2>2, <3>1 DEF IInv, RequestsOK
      <4> QED
        BY <1>2, <1>5, <3>1, <4>1
    <3>2. CASE ~AwaitedBy(r)
      <4>1. i # current /\ UNCHANGED <<pc, attempt, result>>
        BY <1>2, <1>4, <2>2, <3>2
      <4>2. current \in Ids
        BY <2>2, IdsOfCommands DEF IInv, StateOK
      <4>3. taken[current] # {}
        BY <1>3, <2>2, <4>1, <4>2
      <4> QED
        BY <1>1, <2>2, <4>1, <4>3 DEF IInv, OutcomeOK
    <3> QED
      BY <3>1, <3>2
  <2> QED
    BY <1>1, <2>1, <2>2 DEF OutcomeOK
<1>10. AnsweredAtMostOnce'
  BY <1>1 DEF IInv, AnsweredAtMostOnce
<1>11. ErrorMeansNotTaken'
  <2>1. i \notin unsure => answers[i] = <<>>
    BY <1>4, <1>5 DEF IInv, OutcomeOK
  <2>2. answers[i] = <<>> => DOMAIN answers[i] = {}
    OBVIOUS
  <2> QED
    BY <1>1, <1>3, <2>1, <2>2 DEF IInv, ErrorMeansNotTaken
<1>12. NewestWins'
  <2> SUFFICES ASSUME NEW a \in DOMAIN commands, NEW b \in DOMAIN commands, a < b,
                      commands[a].node = commands[b].node, commands[a].node \in Nodes,
                      taken'[b] # {}, holds'[commands[a].node] = a
               PROVE  a \in unsure
    BY <1>1 DEF NewestWins
  <2>1. a \in Ids /\ b \in Ids /\ a \in Nat /\ b \in Nat
    BY <1>3, IdsOfCommands DEF IInv
  <2>2. CASE commands[a].node = node
    <3>1. a = i
      BY <1>1, <2>2 DEF IInv, StateOK
    <3>2. taken[b] # {} /\ Touched(b)
      BY <1>3, <2>1, <3>1 DEF Touched
    <3>3. AwaitedBy(r) => b <= a
      BY <1>5, <2>1, <3>1, <3>2 DEF IInv, OrderOK
    <3> QED
      BY <1>4, <2>1, <3>1, <3>3
  <2>3. CASE commands[a].node # node
    <3>1. b # i /\ taken[b] # {}
      BY <1>3, <2>1, <2>3
    <3>2. holds[commands[a].node] = a
      BY <1>1, <2>3 DEF IInv, StateOK
    <3> QED
      BY <3>1, <3>2 DEF IInv, NewestWins
  <2> QED
    BY <2>2, <2>3
<1> QED
  BY <1>6, <1>7, <1>8, <1>9, <1>10, <1>11, <1>12 DEF IInv

(* A good status that is not OK: the handler is told of an error, and the  *)
(* command is unsure from then on, whether or not its value has arrived.   *)
LEMMA ServerTakesNotOKStep ==
    ASSUME IInv, NEW r \in requests, ServerTakesNotOK(r)
    PROVE  IInv'
<1>1. /\ AwaitedBy(r) /\ AfterFailure /\ unsure' = unsure \cup {r.id}
      /\ UNCHANGED <<commands, queue, current, answers>>
  BY DEF ServerTakesNotOK
<1>2. \/ pc' = "publish" /\ result'.success = FALSE /\ attempt' = attempt
      \/ pc' = "write" /\ attempt = 1 /\ attempt' = 2 /\ result' = result
  BY <1>1, AfterFailureSays DEF IInv
<1>3. pc = "await" /\ r.id = current /\ current \in 1..Length /\ current # 0 /\ current \in Ids
  BY <1>1, IdsOfCommands DEF AwaitedBy, IInv, StateOK
<1>4. /\ requests' \subseteq requests
      /\ DOMAIN taken' = Ids /\ \A j \in Ids : j # current => taken'[j] = taken[j]
      /\ DOMAIN holds' = Nodes
      /\ \A n \in Nodes : holds'[n] = holds[n] \/ holds'[n] = current
  <2>1. CASE Written(r)
    BY <1>3, <2>1 DEF Written, IInv, StateOK
  <2>2. CASE UNCHANGED <<requests, taken, holds>>
    BY <2>2 DEF IInv, StateOK
  <2> QED
    BY <2>1, <2>2 DEF ServerTakesNotOK
<1>5. unsure' = unsure \cup {current}
  BY <1>1, <1>3
<1>6. StateOK'
  BY <1>1, <1>2, <1>3, <1>4, <1>5 DEF IInv, StateOK, Length
<1>7. OrderOK'
  <2>1. \A j \in Ids : Touched(j)' => Touched(j) \/ j = current
    BY <1>1, <1>4, <1>5 DEF Touched
  <2>2. current <= Length /\ \A k \in 1..Len(queue) : current < queue[k]
    BY <1>3, IdsOfCommands DEF IInv, OrderOK, StateOK
  <2> QED
    BY <1>1, <1>2, <1>3, <2>1, <2>2 DEF IInv, OrderOK, Length
<1>8. RequestsOK'
  <2>1. \A q \in requests' : q.id \in unsure' /\ (q.id = current => q.attempt <= attempt)
                             /\ q.attempt \in {1, 2}
    BY <1>3, <1>4, <1>5 DEF IInv, StateOK, RequestsOK, AwaitedBy
  <2> QED
    BY <1>1, <1>2, <2>1 DEF RequestsOK, AwaitedBy
<1>9. OutcomeOK' /\ AnsweredAtMostOnce' /\ ErrorMeansNotTaken'
  BY <1>1, <1>4, <1>5 DEF IInv, OutcomeOK, AnsweredAtMostOnce, ErrorMeansNotTaken
<1>10. NewestWins'
  <2> SUFFICES ASSUME NEW a \in DOMAIN commands, NEW b \in DOMAIN commands, a < b,
                      commands[a].node = commands[b].node, commands[a].node \in Nodes,
                      taken'[b] # {}, holds'[commands[a].node] = a
               PROVE  a \in unsure'
    BY <1>1 DEF NewestWins
  <2>1. CASE a = current
    BY <1>5, <2>1
  <2>2. CASE a # current
    <3>1. holds[commands[a].node] = a
      BY <1>4, <2>2
    <3>2. CASE b = current /\ taken[b] = {}
      <4>1. holds'[commands[a].node] = current
        <5>1. CASE Written(r)
          BY <1>3, <3>2, <5>1 DEF Written, IInv, StateOK
        <5>2. CASE UNCHANGED <<requests, taken, holds>>
          BY <3>2, <5>2
        <5> QED
          BY <5>1, <5>2 DEF ServerTakesNotOK
      <4> QED
        BY <2>2, <4>1
    <3>3. CASE taken[b] # {}
      BY <1>5, <3>1, <3>3 DEF IInv, NewestWins
    <3>4. b \in Ids
      BY IdsOfCommands DEF IInv
    <3> QED
      BY <1>4, <3>2, <3>3, <3>4
  <2> QED
    BY <2>1, <2>2
<1> QED
  BY <1>6, <1>7, <1>8, <1>9, <1>10 DEF IInv

LEMMA ServerRefusesStep ==
    ASSUME IInv, NEW r \in requests, ServerRefuses(r)
    PROVE  IInv'
<1>1. /\ requests' = requests \ {r}
      /\ UNCHANGED <<commands, queue, current, taken, holds, unsure, answers>>
  BY DEF ServerRefuses
<1>2. \/ /\ AwaitedBy(r)
         /\ \/ pc' = "publish" /\ result'.success = FALSE /\ attempt' = attempt
            \/ pc' = "write" /\ attempt = 1 /\ attempt' = 2 /\ result' = result
      \/ UNCHANGED <<pc, attempt, result>>
  BY AfterFailureSays DEF ServerRefuses, Unnoticed, IInv
<1>3. AwaitedBy(r) => pc = "await" /\ r.id = current /\ current # 0
  BY DEF AwaitedBy, IInv, StateOK
<1>4. StateOK'
  BY <1>1, <1>2, <1>3 DEF IInv, StateOK, Length
<1>5. OrderOK'
  <2>1. \A j \in Ids : Touched(j)' => Touched(j)
    BY <1>1 DEF Touched
  <2>2. pc' = "lookup" => pc = "lookup" /\ current \in Ids
    BY <1>2, IdsOfCommands DEF IInv, StateOK
  <2> QED
    BY <1>1, <2>1, <2>2 DEF IInv, OrderOK, Length
<1>6. RequestsOK'
  <2>1. CASE UNCHANGED <<pc, attempt, result>>
    BY <1>1, <2>1 DEF IInv, RequestsOK, AwaitedBy
  <2>2. CASE AwaitedBy(r) /\ pc' \in {"publish", "write"}
    <3>1. \A q \in requests' : q.id \in unsure /\ (q.id = current => q.attempt <= attempt)
                               /\ q.attempt \in {1, 2}
      BY <1>1, <1>3, <2>2 DEF IInv, StateOK, RequestsOK
    <3> QED
      BY <1>1, <1>2, <1>3, <2>2, <3>1 DEF RequestsOK, AwaitedBy
  <2> QED
    BY <1>2, <2>1, <2>2
<1>7. OutcomeOK'
  <2>1. AwaitedBy(r) /\ current \notin unsure => taken[current] = {}
    BY <1>3 DEF IInv, OutcomeOK
  <2> QED
    BY <1>1, <1>2, <2>1 DEF IInv, OutcomeOK
<1>8. AnsweredAtMostOnce' /\ ErrorMeansNotTaken' /\ NewestWins'
  BY <1>1 DEF IInv, AnsweredAtMostOnce, ErrorMeansNotTaken, NewestWins
<1> QED
  BY <1>4, <1>5, <1>6, <1>7, <1>8 DEF IInv

LEMMA PublishResultStep ==
    ASSUME IInv, PublishResult
    PROVE  IInv'
<1>1. /\ pc = "publish" /\ pc' = "idle" /\ current' = 0 /\ attempt' = 1 /\ result' = Failure
      /\ answers' = IF connected /\ Marshalable(result)
                    THEN [answers EXCEPT ![current] = Append(@, result)] ELSE answers
      /\ UNCHANGED <<commands, queue, requests, taken, holds, unsure>>
  BY DEF PublishResult, serverVars
<1>2. /\ current \in 1..Length /\ current # 0 /\ current \in Ids /\ answers[current] = <<>>
      /\ Length \in Nat
  BY <1>1, IdsOfCommands DEF IInv, StateOK, OutcomeOK
<1>3. Append(<<>>, result) = <<result>>
  OBVIOUS
<1>4. \/ answers' = answers
      \/ /\ DOMAIN answers' = Ids /\ answers'[current] = <<result>>
         /\ \A j \in Ids : j # current => answers'[j] = answers[j]
  BY <1>1, <1>2, <1>3 DEF IInv, StateOK
<1>5. StateOK'
  <2>1. result'.success \in BOOLEAN
    BY <1>1, ResultsSay, Zenon
  <2>2. DOMAIN answers' = Ids
    BY <1>4 DEF IInv, StateOK
  <2> QED
    BY <1>1, <1>2, <2>1, <2>2 DEF IInv, StateOK, Length
<1>6. OrderOK'
  <2>1. \A j \in Ids : Touched(j)' => Touched(j) \/ j = current
    BY <1>1, <1>4 DEF Touched
  <2>2. current <= Length /\ \A k \in 1..Len(queue) : current < queue[k]
    BY <1>2 DEF IInv, OrderOK
  <2> QED
    BY <1>1, <2>1, <2>2 DEF IInv, OrderOK, Length
<1>7. RequestsOK' /\ OutcomeOK'
  BY <1>1 DEF IInv, RequestsOK, OutcomeOK, AwaitedBy
<1>8. AnsweredAtMostOnce'
  BY <1>4 DEF IInv, AnsweredAtMostOnce
<1>9. ErrorMeansNotTaken'
  <2>1. ~result.success => taken[current] = {} \/ current \in unsure
    BY <1>1, <1>2 DEF IInv, OutcomeOK
  <2>2. ASSUME NEW k \in DOMAIN <<result>> PROVE <<result>>[k] = result
    OBVIOUS
  <2> QED
    BY <1>1, <1>4, <2>1, <2>2 DEF IInv, ErrorMeansNotTaken
<1>10. NewestWins'
  BY <1>1 DEF IInv, NewestWins
<1> QED
  BY <1>5, <1>6, <1>7, <1>8, <1>9, <1>10 DEF IInv

LEMMA NextIInv == IInv /\ [Next]_vars => IInv'
<1> SUFFICES ASSUME IInv, [Next]_vars PROVE IInv'
  OBVIOUS
<1>1. CASE \E c \in CommandSet : Deliver(c)
  BY <1>1, DeliverStep
<1>2. CASE NatsDown \/ NatsUp \/ Stop \/ Shutdown \/ UNCHANGED vars
  <2>1. UNCHANGED <<outcomeVars, pc, current, attempt, result>> /\ (queue' = queue \/ queue' = <<>>)
    BY <1>2 DEF NatsDown, NatsUp, Stop, Shutdown, NatsClose, OpcuaClose, ProcessExit, Unhandled,
                vars, outcomeVars, cmdVars, serverVars
  <2> QED
    BY <2>1, EnvironmentStep
<1>3. CASE \E r \in requests : ServerTakes(r) \/ ServerTakesNotOK(r) \/ ServerRefuses(r)
  BY <1>3, ServerTakesStep, ServerTakesNotOKStep, ServerRefusesStep
<1>4. CASE Handler
  BY <1>4, HandleMessageStep, LookupStep, SendWriteStep, WriteFailsStep, WriteTimesOutStep,
     PublishResultStep DEF Handler
<1> QED
  BY <1>1, <1>2, <1>3, <1>4 DEF Next, Environment

-----------------------------------------------------------------------------
(* Theorems about every behavior of Writeback *)

(* The inductive invariant holds of every behavior: the order of the queue, *)
(* the requests nobody waits for (handler.go 218-259) and what an outcome   *)
(* says of the value.                                                       *)
THEOREM Invariance == Spec => []IInv
<1>1. Init => IInv
  BY InitIInv
<1>2. IInv /\ [Next]_vars => IInv'
  BY NextIInv
<1> QED
  BY <1>1, <1>2, PTL DEF Spec

(* Commands about one node take effect in the order they were sent, unless *)
(* a write timed out or was accepted for later (handler.go 218-221), with  *)
(* any number of commands, retries, refusals and outages, and in the       *)
(* middle of the shutdown.                                                 *)
THEOREM NewestAlwaysWins == Spec => []NewestWins
<1>1. IInv => NewestWins
  BY DEF IInv
<1> QED
  BY <1>1, Invariance, PTL

(* An error is reported only of a command that had no effect, unless one   *)
(* of its writes timed out, or was answered by a good status that is not   *)
(* OK, which Write makes an error of (handler.go 222-270, client.go        *)
(* 590-592).                                                               *)
THEOREM ErrorsAreErrors == Spec => []ErrorMeansNotTaken
<1>1. IInv => ErrorMeansNotTaken
  BY DEF IInv
<1> QED
  BY <1>1, Invariance, PTL
=============================================================================
