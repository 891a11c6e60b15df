------------------------------ MODULE Writeback ------------------------------
(***************************************************************************)
(* The writeback handler of internal/writeback/handler.go with the calls   *)
(* it makes to the OPC UA client (ReadNodeDataTypes, Write) and to the     *)
(* NATS client (PublishRaw).                                               *)
(*                                                                         *)
(*   sender --NATS--> queue --> handleMessage --> requests --> server      *)
(*                                  |                 (each taken once,    *)
(*                                  +--> answers       late, or never)     *)
(*                                                                         *)
(* nats.go calls handleMessage for one message after the other.  Its steps *)
(* are the code between two calls that leave the process.  At the end the  *)
(* deferred calls of cmd/main.go take the connections away from under it.  *)
(***************************************************************************)
EXTENDS Conversion, Sequences, FiniteSets

CONSTANTS
    NodeType,       \* the data type of each node, as typeIDToString names it
    CommandSet,     \* the contents commands may have: [node, raw, type]
    NoNode,         \* the node of a command without node_id, or that is not JSON at all
    MaxCommands,    \* bound: commands sent
    NatsOutages,    \* bound: times NATS goes down
    CanStop         \* bound: FALSE leaves Stop out

Nodes == DOMAIN NodeType
Ids == 1..MaxCommands
NoType == ""    \* a type that a command, or the cache, does not give

ASSUME CommandsAssumption ==
    /\ MaxCommands \in Nat /\ NatsOutages \in Nat /\ CanStop \in BOOLEAN
    /\ NoNode \notin Nodes
    /\ NodeType \in [Nodes -> Types \ {"int"}]
    /\ CommandSet \subseteq [node : Nodes \cup {NoNode}, raw : Texts, type : Types \cup {NoType}]

VARIABLES
    commands,       \* the contents of the commands delivered, oldest first
    queue,          \* those the subscription has not handed over: their numbers
    subscribed,     \* the subscription exists (h.sub)
    connected,      \* the connected flag of the NATS client
    outages,        \* outages of NATS so far
    session,        \* the OPC UA client has a session (c.client)
    main,           \* the next deferred call of main, once it got its signal
    nodeDataTypes,  \* the cache of data types, NoType where there is no entry
    pc,             \* what handleMessage is about to do
    current,        \* the number of the command it handles, 0 if none
    metadataType,   \* its local variable
    attempt,        \* 1 for the first write, 2 for the retry
    writeValue,     \* the value of the write, of the first or of the retry
    result,         \* the result it is about to publish
    requests,       \* write requests the server may still take
    taken,          \* history: what the server took from each command
    holds,          \* history: the command whose value each node holds, 0 if none
    unsure,         \* history: commands a write of which timed out, or was answered by
                    \* a status that is neither OK nor an error
    answers         \* the results published, for each command

netVars == <<subscribed, connected, outages>>
mainVars == <<session, main>>
cmdVars == <<current, metadataType, attempt, writeValue, result>>
serverVars == <<requests, taken, holds, unsure>>
vars == <<commands, queue, netVars, mainVars, nodeDataTypes, pc, cmdVars, serverVars, answers>>

NoValue == Text("")
Failure == [success |-> FALSE, value |-> NoValue.is]
Success(v) == [success |-> TRUE, value |-> v.is]

-----------------------------------------------------------------------------
(* Type families *)

TypeGroup(t) ==
    CASE t = "boolean" -> 1
      [] t \in SignedTypes \cup UnsignedTypes \cup {"int"} -> 2
      [] t \in FloatTypes -> 3
      [] t = "string" -> 4
      [] OTHER -> 0

IsCompatibleTypeGroup(user, metadata) ==
    \/ metadata \in {NoType, "string"}
    \/ 0 \in {TypeGroup(user), TypeGroup(metadata)}
    \/ TypeGroup(user) = TypeGroup(metadata)

(* The value of the first write: the user's type, else the metadata type,  *)
(* else the text as it is.                                                 *)
WriteValues(raw, user, metadata) ==
    LET byUser == IF user = NoType THEN {} ELSE ConvertWriteValue(raw, user)
        byMetadata == IF metadata \in {NoType, user} THEN {} ELSE ConvertWriteValue(raw, metadata)
    IN  OrElse(OrElse(byUser, byMetadata), {Text(raw)})

NeedsRetryAlways(user, metadata) == user # NoType /\ metadata # NoType    \* mutant
NeedsRetry(user, metadata) ==
    /\ user # NoType /\ metadata # NoType
    /\ ~IsCompatibleTypeGroup(user, metadata)

-----------------------------------------------------------------------------
(* NATS *)

(* Core NATS delivers what is sent while the subscription is up.           *)
Deliver(c) ==
    /\ subscribed /\ connected
    /\ Len(commands) < MaxCommands
    /\ commands' = Append(commands, c)
    /\ queue' = Append(queue, Len(commands) + 1)
    /\ UNCHANGED <<netVars, mainVars, nodeDataTypes, pc, cmdVars, serverVars, answers>>

NatsDown ==
    /\ connected
    /\ outages < NatsOutages
    /\ connected' = FALSE
    /\ outages' = outages + 1
    /\ UNCHANGED <<commands, queue, subscribed, mainVars, nodeDataTypes, pc, cmdVars, serverVars, answers>>

NatsUp ==
    /\ ~connected
    /\ main \in {"running", "collector"}    \* not closed by us
    /\ connected' = TRUE
    /\ UNCHANGED <<commands, queue, subscribed, outages, mainVars, nodeDataTypes, pc, cmdVars,
                   serverVars, answers>>

-----------------------------------------------------------------------------
(* The server takes a request once, or refuses it.  It refuses values of   *)
(* another type family, and may refuse any.  Its answer reaches the        *)
(* handler if that still waits, or is lost.                                *)

Accepts(n, v) == TypeGroup(v.type) = TypeGroup(NodeType[n])
AwaitedBy(r) == pc = "await" /\ r.id = current /\ r.attempt = attempt

(* Mutant: the error of the first write is reported after a good retry.    *)
AfterSuccessOfFirst ==
    /\ result' = IF attempt = 1 THEN Success(writeValue) ELSE Failure
    /\ pc' = "publish"
    /\ UNCHANGED <<attempt, writeValue>>

(* Mutant: an error path that returns without publishing a result.         *)
AfterFailureSilent == pc' = "idle" /\ UNCHANGED <<attempt, writeValue, result>>

(* Write has returned an error: a retry with the metadata type, or the end.*)
AfterFailure ==
    LET c == commands[current]
        retryValues == IF attempt = 1 /\ NeedsRetry(c.type, metadataType)
                       THEN ConvertWriteValue(c.raw, metadataType) ELSE {}
    IN  IF retryValues = {}
        THEN /\ result' = Failure
             /\ pc' = "publish"
             /\ UNCHANGED <<attempt, writeValue>>
        ELSE /\ writeValue' \in retryValues
             /\ attempt' = 2
             /\ pc' = "write"
             /\ UNCHANGED result

(* Write has returned nil, for the first write or the retry.               *)
AfterSuccess ==
    /\ result' = Success(writeValue)
    /\ pc' = "publish"
    /\ UNCHANGED <<attempt, writeValue>>

Unnoticed == UNCHANGED <<pc, attempt, writeValue, result>>

(* The node takes the value of the request.                                *)
Written(r) ==
    /\ requests' = requests \ {r}
    /\ taken' = [taken EXCEPT ![r.id] = @ \cup {r.value.is}]
    /\ holds' = [holds EXCEPT ![commands[r.id].node] = r.id]

ServerTakes(r) ==
    /\ Accepts(commands[r.id].node, r.value)
    /\ Written(r)
    /\ (AwaitedBy(r) /\ AfterSuccess) \/ Unnoticed
    /\ UNCHANGED <<commands, queue, netVars, mainVars, nodeDataTypes, current, metadataType, unsure, answers>>

(* The value is taken, at once or in a while, and the status says so: it   *)
(* is Good_Clamped or Good_CompletesAsynchronously.  Write returns an      *)
(* error for every status but StatusOK.                                    *)
ServerTakesNotOK(r) ==
    /\ Accepts(commands[r.id].node, r.value)
    /\ Written(r) \/ UNCHANGED <<requests, taken, holds>>
    /\ AwaitedBy(r) /\ AfterFailure
    /\ unsure' = unsure \cup {r.id}
    /\ UNCHANGED <<commands, queue, netVars, mainVars, nodeDataTypes, current, metadataType, answers>>

(* The status is an error, which says that the value is not taken.         *)
ServerRefuses(r) ==
    /\ requests' = requests \ {r}
    /\ (AwaitedBy(r) /\ AfterFailure) \/ Unnoticed
    /\ UNCHANGED <<commands, queue, netVars, mainVars, nodeDataTypes, current, metadataType,
                   taken, holds, unsure, answers>>

-----------------------------------------------------------------------------
(* handleMessage: idle -> (lookup) -> write -> await -> (write -> await) -> publish *)

(* The first write of command c, whose type the handler believes to be m.  *)
PrepareWrite(c, m) ==
    /\ metadataType' = m
    /\ writeValue' \in WriteValues(c.raw, c.type, m)
    /\ attempt' = 1
    /\ pc' = "write"
    /\ UNCHANGED result

LastPending == Len(queue)    \* mutant: one goroutine per message, the last one first
NextPending == 1

HandleMessage ==
    /\ pc = "idle"
    /\ queue # <<>>
    /\ current' = queue[NextPending]
    /\ queue' = SubSeq(queue, 1, NextPending - 1) \o SubSeq(queue, NextPending + 1, Len(queue))
    /\ LET c == commands[current']
       IN  IF c.node = NoNode    \* invalid JSON, or node_id is missing
           THEN /\ result' = Failure
                /\ pc' = "publish"
                /\ UNCHANGED <<metadataType, attempt, writeValue>>
           ELSE IF nodeDataTypes[c.node] # NoType
           THEN PrepareWrite(c, nodeDataTypes[c.node])
           ELSE /\ pc' = "lookup"
                /\ UNCHANGED <<metadataType, attempt, writeValue, result>>
    /\ UNCHANGED <<commands, netVars, mainVars, nodeDataTypes, serverVars, answers>>

(* ReadNodeDataTypes answers with the type, or with "String" if the server *)
(* could not tell; either is cached for good.                              *)
ReadTypesMixedUp(n) == {NodeType[m] : m \in Nodes}    \* mutant: results paired with other ids
ReadTypes(n) == {NodeType[n], "string"}
LookupOK ==
    /\ pc = "lookup" /\ session
    /\ LET c == commands[current]
       IN  \E t \in ReadTypes(c.node) :
              /\ nodeDataTypes' = [nodeDataTypes EXCEPT ![c.node] = t]
              /\ PrepareWrite(c, t)
    /\ UNCHANGED <<commands, queue, netVars, mainVars, current, serverVars, answers>>

(* There is no session, the read fails or times out: nothing is cached.    *)
LookupFails ==
    /\ pc = "lookup"
    /\ PrepareWrite(commands[current], NoType)
    /\ UNCHANGED <<commands, queue, netVars, mainVars, nodeDataTypes, current, serverVars, answers>>

(* Write holds the client's read lock from here until it returns.          *)
SendWrite ==
    /\ pc = "write" /\ session
    /\ requests' = requests \cup {[id |-> current, attempt |-> attempt, value |-> writeValue]}
    /\ pc' = "await"
    /\ UNCHANGED <<commands, queue, netVars, mainVars, nodeDataTypes, cmdVars, taken, holds, unsure, answers>>

(* Write returns an error before anything is sent: no session, a broken    *)
(* connection, or a node id that does not parse.                           *)
WriteFails ==
    /\ pc = "write"
    /\ AfterFailure
    /\ UNCHANGED <<commands, queue, netVars, mainVars, nodeDataTypes, current, metadataType, serverVars, answers>>

(* The 5 seconds are over, or the connection broke: the request may have   *)
(* been taken, or may still be.                                            *)
WriteNeverTimesOut == FALSE    \* mutant: a write without a deadline
WriteTimesOut ==
    /\ pc = "await"
    /\ AfterFailure
    /\ unsure' = unsure \cup {current}
    /\ UNCHANGED <<commands, queue, netVars, mainVars, nodeDataTypes, current, metadataType,
                   requests, taken, holds, answers>>

(* json.Marshal refuses NaN and Inf, also as the written value.            *)
Marshalable(r) == r.value.kind \notin {"nan", "inf"}

PublishResult ==
    /\ pc = "publish"
    /\ answers' = IF connected /\ Marshalable(result)
                  THEN [answers EXCEPT ![current] = Append(@, result)]
                  ELSE answers
    /\ pc' = "idle"
    /\ current' = 0 /\ metadataType' = NoType /\ attempt' = 1    \* its locals are gone
    /\ writeValue' = NoValue /\ result' = Failure
    /\ UNCHANGED <<commands, queue, netVars, mainVars, nodeDataTypes, serverVars>>

-----------------------------------------------------------------------------
(* The deferred calls of main run after its signal, the last one first.    *)
(* None of them waits for the message at hand.                             *)

Unhandled == UNCHANGED <<commands, outages, nodeDataTypes, pc, cmdVars, serverVars, answers>>

(* writeback.Stop unsubscribes: what is queued is discarded.               *)
Stop ==
    /\ main = "running" /\ CanStop
    /\ subscribed' = FALSE
    /\ queue' = <<>>
    /\ main' = "collector"
    /\ UNCHANGED <<connected, session>> /\ Unhandled

(* col.Stop, which the handler does not notice, has returned: nats.Close.  *)
NatsClose ==
    /\ main = "collector"
    /\ connected' = FALSE
    /\ main' = "opcua"
    /\ UNCHANGED <<queue, subscribed, session>> /\ Unhandled

(* Close takes the write lock, so it waits for a Write that has begun.     *)
OpcuaClose ==
    /\ main = "opcua"
    /\ pc # "await"
    /\ session' = FALSE
    /\ main' = "exiting"
    /\ UNCHANGED <<queue, subscribed, connected>> /\ Unhandled

(* The process ends, whatever the handler is doing.                        *)
ProcessExit ==
    /\ main = "exiting"
    /\ main' = "exited"
    /\ UNCHANGED <<queue, subscribed, connected, session>> /\ Unhandled

Shutdown == NatsClose \/ OpcuaClose \/ ProcessExit

-----------------------------------------------------------------------------
Init ==
    /\ commands = <<>> /\ queue = <<>>
    /\ subscribed = TRUE /\ connected = TRUE /\ outages = 0
    /\ session = TRUE /\ main = "running"
    /\ nodeDataTypes = [n \in Nodes |-> NoType]
    /\ pc = "idle" /\ current = 0
    /\ metadataType = NoType /\ attempt = 1 /\ writeValue = NoValue /\ result = Failure
    /\ requests = {}
    /\ taken = [i \in Ids |-> {}]
    /\ holds = [n \in Nodes |-> 0]
    /\ unsure = {}
    /\ answers = [i \in Ids |-> <<>>]

Environment ==
    \/ \E c \in CommandSet : Deliver(c)
    \/ NatsDown \/ NatsUp
    \/ \E r \in requests : ServerTakes(r) \/ ServerTakesNotOK(r) \/ ServerRefuses(r)

Handler ==
    /\ main # "exited"
    /\ \/ HandleMessage \/ LookupOK \/ LookupFails
       \/ SendWrite \/ WriteFails \/ WriteTimesOut
       \/ PublishResult

Next == Environment \/ Handler \/ Stop \/ Shutdown

Spec == Init /\ [][Next]_vars

(* The handler's goroutine runs on, and every call it makes returns: the   *)
(* contexts of its reads and writes end after five seconds.  So does main, *)
(* if the collector stops (which is the question of the run timed).        *)
FairSpec == Spec /\ WF_vars(Handler) /\ WF_vars(Shutdown)

-----------------------------------------------------------------------------
(* Properties *)

(* Type correctness; a type in the cache is the node's own type, or the    *)
(* "String" that ReadNodeDataTypes makes of a failed read.                 *)
TypeOK ==
    /\ commands \in Seq(CommandSet) /\ Len(commands) <= MaxCommands
    /\ queue \in Seq(DOMAIN commands)
    /\ subscribed \in BOOLEAN /\ connected \in BOOLEAN /\ outages \in 0..NatsOutages
    /\ session \in BOOLEAN
    /\ main \in {"running", "collector", "opcua", "exiting", "exited"}
    /\ DOMAIN nodeDataTypes = Nodes
    /\ \A n \in Nodes : nodeDataTypes[n] \in {NoType, "string", NodeType[n]}
    /\ pc \in {"idle", "lookup", "write", "await", "publish"}
    /\ current \in {0} \cup DOMAIN commands
    /\ current = 0 <=> pc = "idle"
    /\ metadataType \in Types \cup {NoType}
    /\ attempt \in {1, 2}
    /\ writeValue.type \in Types
    /\ result.success \in BOOLEAN
    /\ \A r \in requests : r.id \in DOMAIN commands /\ r.attempt \in {1, 2}
    /\ DOMAIN taken = Ids /\ DOMAIN answers = Ids
    /\ holds \in [Nodes -> Ids \cup {0}]
    /\ unsure \subseteq DOMAIN commands

S == INSTANCE WriteService WITH Commands <- Ids

(* The handler implements WriteService: one answer per command, no success *)
(* without the effect, and no command that makes a node take two values,   *)
(* although failed writes are retried with another type (handler.go        *)
(* 222-259) while the first request may still reach the server.            *)
ImplementsService == S!ServiceSpec

(* What a command wrote is replaced only by what later commands write,     *)
(* unless a write of the earlier command timed out, or was accepted for    *)
(* later, and was taken late:                                              *)
(* commands about one node take effect in the order they were sent.        *)
NewestWins ==
    \A i, j \in DOMAIN commands :
        /\ i < j /\ commands[i].node = commands[j].node /\ commands[i].node \in Nodes
        /\ taken[j] # {} /\ holds[commands[i].node] = i
        => i \in unsure

IsInteger(v) == v.type \in SignedTypes \cup UnsignedTypes

(* Whatever conversion, fallback or retry a value comes from: a request    *)
(* carries what the text of the command means in the type it is sent as    *)
(* (truncated for an integer type), if that integer type can hold it.      *)
RequestsFaithful ==
    \A r \in requests :
        LET raw == commands[r.id].raw
        IN  Renders(r.value, raw) \/ (IsInteger(r.value) /\ Truncations(raw, r.value.type) = {})

(* client.go 784 and 821: a number an integer type cannot hold is an error *)
(* ("out of range: error"; "non-numbers are rejected"), never sent.        *)
OutOfRangeIsRejected ==
    \A r \in requests :
        IsInteger(r.value) => Truncations(commands[r.id].raw, r.value.type) # {}

(* The sender of a command hears of its outcome, whatever fails on the way *)
(* to the server, unless NATS is down or the handler is stopped meanwhile, *)
(* or the text is NaN or Inf, which the result cannot carry.               *)
Pending(i) == current = i \/ \E k \in DOMAIN queue : queue[k] = i
Answered ==
    \A i \in Ids :
        Pending(i) ~>
            \/ answers[i] # <<>>
            \/ ~connected \/ ~subscribed
            \/ i \in DOMAIN commands /\ ParseFloat[commands[i].raw].kind \in {"nan", "inf"}

(* An error means that the server did not take the command, unless a write *)
(* of it timed out or was answered by a status that is good but not OK,    *)
(* which Write reports as a rejection although the value was taken         *)
(* (client.go 590): whatever was converted, refused or tried again, a      *)
(* write that returned nil is never reported as a failure.                 *)
ErrorMeansNotTaken ==
    \A i \in Ids :
        (\E k \in DOMAIN answers[i] : ~answers[i][k].success) => taken[i] = {} \/ i \in unsure

(* Once main has stopped the handler, the process ends: OpcuaClose waits   *)
(* for a write in progress, which the deadline of five seconds ends, and   *)
(* no deferred call waits for a handler that waits for it.                 *)
ShutdownEnds == ~subscribed ~> main = "exited"
=============================================================================
