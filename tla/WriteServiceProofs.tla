-------------------------- MODULE WriteServiceProofs --------------------------
(***************************************************************************)
(* Writeback implements WriteService, carries what the commands mean, and  *)
(* has the types it should: theorems for every set of nodes, texts and     *)
(* commands, every width of the integers and any number of commands and    *)
(* outages.                                                                *)
(*                                                                         *)
(* A failed write is repeated with another type while the first request    *)
(* may still reach the server.  That no command makes a node take two      *)
(* values rests on the server, which refuses the values of another type    *)
(* family, and on the conversion: where the first value and that of the    *)
(* retry are of one family, they are the same (RetryAgrees).               *)
(***************************************************************************)
EXTENDS WritebackProofs, ConversionProofs

Command == commands[current]
Writing == pc \in {"write", "await"}

(* What is believed about types, and where the values come from.           *)
ValuesOK ==
    /\ DOMAIN nodeDataTypes = Nodes
    /\ \A n \in Nodes : nodeDataTypes[n] \in {NoType, "string", NodeType[n]}
    /\ metadataType \in Types \cup {NoType} /\ writeValue.type \in Types
    /\ pc = "lookup" \/ Writing => Command.node \in Nodes
    /\ Writing =>
          /\ metadataType \in {NoType, "string", NodeType[Command.node]}
          /\ FaithfulValue(writeValue, Command.raw)
          /\ attempt = 1 => writeValue \in WriteValues(Command.raw, Command.type, metadataType)
    /\ \A r \in requests : FaithfulValue(r.value, commands[r.id].raw)

(* x is the one value that the node of command j has taken or can take.    *)
OnlyValue(j, x) ==
    /\ taken[j] \subseteq {x}
    /\ \A r \in requests : r.id = j /\ Accepts(commands[j].node, r.value) => r.value.is = x

(* Of each command there is one such value; of the current one it is the   *)
(* value the handler is writing, and the value of a success was taken.     *)
OneValueOK ==
    /\ taken = [j \in Ids |-> taken[j]]
    /\ \A j \in Ids : \E x : OnlyValue(j, x)
    /\ Writing =>
          /\ OnlyValue(current, writeValue.is)
          /\ attempt = 1 => /\ \A r \in requests : r.id = current => r.value = writeValue
                            /\ taken[current] # {} => Accepts(Command.node, writeValue)
    /\ pc = "publish" /\ result.success => result.value \in taken[current]

ServiceInv == IInv /\ ValuesOK /\ OneValueOK

-----------------------------------------------------------------------------
(* Type families *)

LEMMA TypeGroups ==
    /\ TypeGroup("boolean") = 1 /\ TypeGroup("string") = 4 /\ TypeGroup("other") = 0
    /\ \A t \in SignedTypes \cup UnsignedTypes \cup {"int"} : TypeGroup(t) = 2
    /\ \A t \in FloatTypes : TypeGroup(t) = 3
    /\ TypeGroup("double") = 3 /\ TypeGroup("int") = 2
<1>1. TypeGroup("boolean") = 1 /\ TypeGroup("string") = 4 /\ TypeGroup("other") = 0
  BY TypeNames, Zenon DEF TypeGroup, FloatTypes
<1>2. \A t \in SignedTypes \cup UnsignedTypes \cup {"int"} : TypeGroup(t) = 2
  BY TypeNames, Zenon DEF TypeGroup, FloatTypes
<1>3. \A t \in FloatTypes : TypeGroup(t) = 3
  BY TypeNames, Zenon DEF TypeGroup, FloatTypes
<1> QED
  BY <1>1, <1>2, <1>3 DEF FloatTypes

(* A text has one boolean and one number: within a family the type does    *)
(* not matter.                                                             *)
LEMMA FamilyDecides ==
    ASSUME NEW raw, NEW v, FaithfulValue(v, raw)
    PROVE  /\ v.type = "boolean" => v = Bool(Meaning(raw) # Finite(0))
           /\ v.type \in FloatTypes => v.is = Meaning(raw)
<1>1. v.type = "boolean" \/ v.type \in FloatTypes => v.type \notin SignedTypes \cup UnsignedTypes
  BY TypeNames DEF FloatTypes
<1>2. v.type = "boolean" \/ v.type \in FloatTypes => Renders(v, raw)
  BY <1>1 DEF FaithfulValue
<1> QED
  BY <1>2, RenderedAs

(* A text that does not convert to one of the other families gives an      *)
(* integer type one value at most: where Go leaves the result open, the    *)
(* text is a number that every other family has room for.                  *)
LEMMA OneInteger ==
    ASSUME NEW raw \in Texts, NEW user \in {"boolean", "string"} \cup FloatTypes,
           ConvertWriteValue(raw, user) = {},
           NEW m \in SignedTypes \cup UnsignedTypes,
           NEW v \in ConvertWriteValue(raw, m), NEW w \in ConvertWriteValue(raw, m)
    PROVE  v = w
<1> DEFINE f == ParseFloat[raw]
<1>1. user \in Types /\ m \in Types /\ user # "string"
  BY Branches DEF Types
<1>2. ParseBool[raw] = "error" /\ (IsNumber(f) => f.kind = "finite" /\ ~FitsFloat32(f))
  <2>1. CASE user = "boolean"
    BY <1>1, <2>1, Branches DEF ToBoolean
  <2>2. CASE user \in FloatTypes
    <3>1. ToFloat(raw, user) = {}
      BY <1>1, <2>2, Branches
    <3>2. BoolAsInt(raw) = {} /\ (IsNumber(f) => ~FitsFloat32(f))
      BY <3>1 DEF ToFloat
    <3>3. ParseBool[raw] = "error"
      BY <3>2, ParsedNumbers DEF BoolAsInt
    <3> QED
      BY <3>2, <3>3 DEF FitsFloat32
  <2> QED
    BY <1>1, <2>1, <2>2
<1>3. BoolAsInt(raw) = {}
  BY <1>2 DEF BoolAsInt
<1>4. \A low, high, wide : -Float32Max <= 2 * low /\ 2 * high <= Float32Max
                           /\ low \in Int /\ high \in Int => FloatAsInt(f, low, high, wide) = {}
  <2> SUFFICES ASSUME NEW low \in Int, NEW high \in Int, NEW wide,
                      -Float32Max <= 2 * low, 2 * high <= Float32Max
               PROVE  FloatAsInt(f, low, high, wide) = {}
    OBVIOUS
  <2>1. Float32Max \in Nat
    BY WidthAssumption
  <2>2. CASE IsNumber(f)
    <3>1. f.kind = "finite" /\ f.halves \in Int /\ f.halves \notin -Float32Max .. Float32Max
      BY <1>2, <2>2, ParsedNumbers, Kinds DEF FitsFloat32
    <3>2. f.halves \notin 2 * low .. 2 * high
      BY <2>1, <3>1
    <3> QED
      BY <3>1, <3>2 DEF FloatAsInt
  <2>3. CASE ~IsNumber(f)
    BY <2>3 DEF FloatAsInt, IsNumber
  <2> QED
    BY <2>2, <2>3
<1>5. /\ FloatAsInt(f, -(2 ^ (MaxWidth - 1)), 2 ^ (MaxWidth - 1), Signed(MaxWidth)) = {}
      /\ FloatAsInt(f, 0, 2 ^ MaxWidth, Unsigned(MaxWidth)) = {}
  <2>1. /\ 2 ^ (MaxWidth - 1) \in Nat /\ 2 ^ MaxWidth = 2 * 2 ^ (MaxWidth - 1)
        /\ 2 * 2 ^ MaxWidth <= Float32Max /\ Float32Max \in Nat
    BY WidthAssumption, HalfOfPower
  <2> DEFINE p == 2 ^ (MaxWidth - 1)
             q == 2 ^ MaxWidth
  <2> HIDE DEF f, p, q
  <2>2. p \in Nat /\ q = 2 * p /\ 2 * q <= Float32Max /\ Float32Max \in Nat
    BY <2>1 DEF p, q
  <2>3. /\ -Float32Max <= 2 * (-p) /\ 2 * p <= Float32Max /\ -p \in Int /\ p \in Int
        /\ -Float32Max <= 2 * 0 /\ 2 * q <= Float32Max /\ q \in Int
    BY <2>2
  <2>4. FloatAsInt(f, -p, p, Signed(MaxWidth)) = {} /\ FloatAsInt(f, 0, q, Unsigned(MaxWidth)) = {}
    BY <1>4, <2>3
  <2> QED
    BY <2>4 DEF p, q
<1>6. \A n, k \in CoerceToInt(raw, SignedWidth[m]) : n = k
  BY <1>3, <1>5 DEF CoerceToInt, OrElse
<1>7. \A n, k \in CoerceToUint(raw, UnsignedWidth[m]) : n = k
  BY <1>3, <1>5 DEF CoerceToUint, OrElse
<1>8. CASE m \in SignedTypes
  <2>1. ConvertWriteValue(raw, m) = {Value(m, Finite(2 * WrapSigned(n, SignedWidth[m])))
                                        : n \in CoerceToInt(raw, SignedWidth[m])}
    BY <1>1, <1>8, Branches
  <2> QED
    BY <1>6, <2>1
<1>9. CASE m \in UnsignedTypes
  <2>1. ConvertWriteValue(raw, m) = {Value(m, Finite(2 * WrapUnsigned(n, UnsignedWidth[m])))
                                        : n \in CoerceToUint(raw, UnsignedWidth[m])}
    BY <1>1, <1>9, Branches
  <2> QED
    BY <1>7, <2>1
<1> QED
  BY <1>8, <1>9

(* Where the value of the first write comes from.                          *)
LEMMA FirstValues ==
    ASSUME NEW raw \in Texts, NEW user \in Types \cup {NoType}, NEW m \in Types \cup {NoType},
           NEW v \in WriteValues(raw, user, m)
    PROVE  /\ \/ user # NoType /\ v \in ConvertWriteValue(raw, user)
              \/ /\ m # NoType /\ v \in ConvertWriteValue(raw, m)
                 /\ user # NoType => ConvertWriteValue(raw, user) = {}
              \/ v = Text(raw)
           /\ v.type \in Types /\ FaithfulValue(v, raw)
<1>1. \/ user # NoType /\ v \in ConvertWriteValue(raw, user)
      \/ /\ m # NoType /\ v \in ConvertWriteValue(raw, m)
         /\ user # NoType => ConvertWriteValue(raw, user) = {}
      \/ v = Text(raw)
  BY DEF WriteValues, OrElse
<1>2. "string" \in Types
  BY DEF Types
<1>3. v.type \in Types /\ FaithfulValue(v, raw)
  <2>1. CASE user # NoType /\ v \in ConvertWriteValue(raw, user)
    <3>1. user \in Types
      BY <2>1
    <3> QED
      BY <2>1, <3>1, ConvertedTypes, ConversionIsFaithful
  <2>2. CASE m # NoType /\ v \in ConvertWriteValue(raw, m)
    <3>1. m \in Types
      BY <2>2
    <3> QED
      BY <2>2, <3>1, ConvertedTypes, ConversionIsFaithful
  <2>3. CASE v = Text(raw)
    BY <1>2, <2>3, TextsRender
  <2> QED
    BY <1>1, <2>1, <2>2, <2>3
<1> QED
  BY <1>1, <1>3

(* The first value and the value of the retry cannot both be taken, unless *)
(* they are the same.                                                      *)
LEMMA RetryAgrees ==
    ASSUME NEW raw \in Texts, NEW user \in Types \cup {NoType}, NEW m \in Types, m # "int",
           NEW v, NEW w, NeedsRetry(user, m),
           v \in WriteValues(raw, user, m), TypeGroup(v.type) = TypeGroup(m),
           w \in ConvertWriteValue(raw, m)
    PROVE  v.is = w.is
<1>1. /\ user # NoType /\ user \in Types /\ m # NoType /\ m # "string"
      /\ TypeGroup(user) # 0 /\ TypeGroup(m) # 0 /\ TypeGroup(user) # TypeGroup(m)
  BY DEF NeedsRetry, IsCompatibleTypeGroup
<1>2. user # "other" /\ m # "other"
  BY <1>1, TypeGroups
<1>3. /\ w.type = m /\ FaithfulValue(w, raw) /\ FaithfulValue(v, raw)
      /\ m = "boolean" \/ m \in FloatTypes \/ m \in SignedTypes \cup UnsignedTypes
  BY <1>1, <1>2, ConvertedTypes, ConversionIsFaithful, FirstValues DEF Types
<1>4. CASE v \in ConvertWriteValue(raw, user)
  <2>1. user = "int" /\ v.type \in {"boolean", "double", "string"}
    BY <1>1, <1>2, <1>4, ConvertedTypes
  <2>2. TypeGroup(m) \in {1, 3, 4} /\ TypeGroup(m) # 2
    BY <2>1, TypeGroups
  <2>3. \/ v.type = "boolean" /\ m = "boolean"
        \/ v.type = "double" /\ m \in FloatTypes
    BY <1>3, <2>1, <2>2, TypeGroups
  <2>4. "double" \in FloatTypes
    BY DEF FloatTypes
  <2> QED
    BY <1>3, <2>3, <2>4, FamilyDecides
<1>5. CASE v \in ConvertWriteValue(raw, m) /\ ConvertWriteValue(raw, user) = {}
  <2>1. v.type = m
    BY <1>2, <1>5, ConvertedTypes
  <2>2. CASE m = "boolean" \/ m \in FloatTypes
    BY <1>3, <2>1, <2>2, FamilyDecides
  <2>3. CASE m \in SignedTypes \cup UnsignedTypes
    <3>1. user \in {"boolean", "string"} \cup FloatTypes
      BY <1>1, <1>2, <2>3, TypeGroups DEF Types
    <3> QED
      BY <1>5, <2>3, <3>1, OneInteger
  <2> QED
    BY <1>3, <2>2, <2>3
<1>6. CASE v = Text(raw)
  <2>1. TypeGroup(m) = 4
    BY <1>6, Fields, TypeGroups
  <2>2. TypeGroup(m) \in {1, 2, 3}
    BY <1>3, TypeGroups
  <2> QED
    BY <2>1, <2>2
<1>7. \/ v \in ConvertWriteValue(raw, user)
      \/ v \in ConvertWriteValue(raw, m) /\ ConvertWriteValue(raw, user) = {}
      \/ v = Text(raw)
  BY <1>1, FirstValues
<1> QED
  BY <1>4, <1>5, <1>6, <1>7

-----------------------------------------------------------------------------
(* Commands *)

LEMMA CommandParts ==
    ASSUME NEW c \in CommandSet
    PROVE  c.node \in Nodes \cup {NoNode} /\ c.raw \in Texts /\ c.type \in Types \cup {NoType}
<1>1. CommandSet \subseteq [node : Nodes \cup {NoNode}, raw : Texts, type : Types \cup {NoType}]
  BY Zenon, CommandsAssumption
<1> QED
  BY <1>1

LEMMA NodeTypes == \A n \in Nodes : NodeType[n] \in Types /\ NodeType[n] # "int"
<1>1. NodeType \in [Nodes -> Types \ {"int"}]
  BY Zenon, CommandsAssumption
<1> QED
  BY <1>1

LEMMA CommandsAre ==
    ASSUME IInv
    PROVE  /\ \A j \in 1..Length : j \in Ids /\ commands[j] \in CommandSet
           /\ \A r \in requests : r.id \in 1..Length
           /\ current \in 0..Length /\ (current = 0 <=> pc = "idle") /\ Length \in Nat
<1>1. commands \in Seq(CommandSet) /\ 1..Length \subseteq Ids /\ Length \in Nat
  BY IdsOfCommands DEF IInv, StateOK
<1>2. \A j \in 1..Length : commands[j] \in CommandSet
  BY <1>1, ElementOfSeq DEF Length
<1> QED
  BY <1>1, <1>2 DEF IInv, StateOK

LEMMA CurrentIs ==
    ASSUME IInv, pc # "idle"
    PROVE  /\ current \in 1..Length /\ current \in Ids /\ Command \in CommandSet
           /\ Command.raw \in Texts /\ Command.type \in Types \cup {NoType}
<1>1. current \in 1..Length
  BY CommandsAre
<1> QED
  BY <1>1, CommandsAre, CommandParts DEF Command

-----------------------------------------------------------------------------
(* The steps *)

LEMMA InitService == Init => ServiceInv
<1> SUFFICES ASSUME Init PROVE ServiceInv
  OBVIOUS
<1>1. IInv
  BY InitIInv
<1>2. /\ pc = "idle" /\ requests = {} /\ taken = [j \in Ids |-> {}]
      /\ nodeDataTypes = [n \in Nodes |-> NoType] /\ metadataType = NoType /\ writeValue = NoValue
  BY DEF Init
<1>3. writeValue.type \in Types
  BY <1>2, Fields DEF NoValue, Types
<1>4. ValuesOK
  BY <1>2, <1>3 DEF ValuesOK, Writing
<1>5. OneValueOK
  BY <1>2 DEF OneValueOK, Writing, OnlyValue
<1> QED
  BY <1>1, <1>4, <1>5 DEF ServiceInv

serviceParts ==
    <<nodeDataTypes, pc, current, metadataType, attempt, writeValue, result, requests, taken>>

(* New commands, and steps that have to do with none.                      *)
LEMMA ElsewhereStep ==
    ASSUME ServiceInv, UNCHANGED serviceParts,
           \A j \in 1..Length : commands'[j] = commands[j]
    PROVE  ValuesOK' /\ OneValueOK'
<1>1. UNCHANGED <<nodeDataTypes, pc, current, metadataType, attempt, writeValue, result,
                  requests, taken>>
  BY DEF serviceParts
<1>2. /\ \A r \in requests : r.id \in 1..Length
      /\ pc # "idle" => current \in 1..Length /\ current \in Ids
  BY CommandsAre, CurrentIs DEF ServiceInv
<1>3. \A j, x : OnlyValue(j, x)' <=> OnlyValue(j, x)
  BY <1>1, <1>2 DEF OnlyValue
<1>4. ValuesOK'
  BY <1>1, <1>2 DEF ServiceInv, ValuesOK, Writing, Command
<1>5. OneValueOK'
  BY <1>1, <1>2, <1>3 DEF ServiceInv, OneValueOK, Writing, Command
<1> QED
  BY <1>4, <1>5

(* A first write is being prepared: of its command nothing is known yet.   *)
LEMMA PrepareStep ==
    ASSUME ServiceInv, NEW m, PrepareWrite(commands[current'], m),
           current' \in 1..Length, ~Touched(current'), commands[current'].node \in Nodes,
           m \in {NoType, "string", NodeType[commands[current'].node]},
           UNCHANGED <<commands, requests, taken>>,
           DOMAIN nodeDataTypes' = Nodes,
           \A n \in Nodes : nodeDataTypes'[n] \in {NoType, "string", NodeType[n]}
    PROVE  ValuesOK' /\ OneValueOK'
<1> DEFINE c == commands[current']
<1>1. c \in CommandSet /\ c.raw \in Texts /\ c.type \in Types \cup {NoType} /\ current' \in Ids
  BY CommandsAre, CommandParts DEF ServiceInv
<1>2. /\ metadataType' = m /\ writeValue' \in WriteValues(c.raw, c.type, m)
      /\ attempt' = 1 /\ pc' = "write"
  BY DEF PrepareWrite
<1>3. m \in Types \cup {NoType}
  BY NodeTypes DEF Types
<1>4. writeValue'.type \in Types /\ FaithfulValue(writeValue', c.raw)
  BY <1>1, <1>2, <1>3, FirstValues
<1>5. c = Command'
  BY DEF Command
<1>6. taken[current'] = {} /\ \A r \in requests : r.id # current'
  BY DEF Touched
<1>7. ValuesOK'
  BY <1>2, <1>3, <1>4, <1>5 DEF ServiceInv, ValuesOK, Writing
<1>8. \A j, x : OnlyValue(j, x)' <=> OnlyValue(j, x)
  BY DEF OnlyValue
<1>9. OneValueOK'
  <2>1. taken' = [j \in Ids |-> taken'[j]] /\ \A j \in Ids : \E x : OnlyValue(j, x)'
    BY <1>8 DEF ServiceInv, OneValueOK
  <2>2. OnlyValue(current, writeValue.is)'
    BY <1>6 DEF OnlyValue
  <2> QED
    BY <1>2, <1>6, <2>1, <2>2 DEF OneValueOK
<1> QED
  BY <1>7, <1>9

LEMMA HandleMessageService ==
    ASSUME ServiceInv, HandleMessage
    PROVE  ValuesOK' /\ OneValueOK'
<1> DEFINE c == commands[current']
<1>1. /\ pc = "idle" /\ queue # <<>> /\ current' = queue[1]
      /\ UNCHANGED <<commands, nodeDataTypes, requests, taken>>
  BY DEF HandleMessage, NextPending, serverVars
<1>2. queue \in Seq(1..Length) /\ Length \in Nat
  BY IdsOfCommands DEF ServiceInv, IInv, StateOK
<1>3. current' \in 1..Length /\ 1 \in 1..Len(queue)
  BY <1>1, <1>2, WithoutFirst
<1>4. current' \in Ids /\ ~Touched(current')
  BY <1>1, <1>3, CommandsAre DEF ServiceInv, IInv, OrderOK
<1>5. c \in CommandSet /\ c.node \in Nodes \cup {NoNode}
  BY <1>3, CommandsAre, CommandParts DEF ServiceInv
<1>6. DOMAIN nodeDataTypes' = Nodes
      /\ \A n \in Nodes : nodeDataTypes'[n] \in {NoType, "string", NodeType[n]}
  BY <1>1 DEF ServiceInv, ValuesOK
<1>7. \/ pc' = "publish" /\ result' = Failure /\ UNCHANGED <<metadataType, attempt, writeValue>>
      \/ c.node # NoNode /\ PrepareWrite(c, nodeDataTypes[c.node])
      \/ /\ c.node # NoNode /\ pc' = "lookup"
         /\ UNCHANGED <<metadataType, attempt, writeValue, result>>
  BY DEF HandleMessage
<1>8. CASE c.node # NoNode /\ PrepareWrite(c, nodeDataTypes[c.node])
  BY <1>1, <1>3, <1>4, <1>5, <1>6, <1>8, PrepareStep
<1>9. CASE ~(c.node # NoNode /\ PrepareWrite(c, nodeDataTypes[c.node]))
  <2>1. UNCHANGED <<metadataType, attempt, writeValue>>
    BY <1>7, <1>9
  <2>2. \A j, x : OnlyValue(j, x)' <=> OnlyValue(j, x)
    BY <1>1 DEF OnlyValue
  <2>3. \/ pc' = "publish" /\ ~result'.success
        \/ pc' = "lookup" /\ c.node \in Nodes
    BY <1>5, <1>7, <1>9, ResultsSay
  <2>4. c = Command'
    BY <1>1 DEF Command
  <2>5. ValuesOK'
    BY <1>1, <1>6, <2>1, <2>3, <2>4 DEF ServiceInv, ValuesOK, Writing
  <2>6. OneValueOK'
    <3>1. taken' = [j \in Ids |-> taken'[j]] /\ \A j \in Ids : \E x : OnlyValue(j, x)'
      BY <1>1, <2>2 DEF ServiceInv, OneValueOK
    <3> QED
      BY <2>3, <3>1 DEF OneValueOK, Writing
  <2> QED
    BY <2>5, <2>6
<1> QED
  BY <1>8, <1>9

LEMMA LookupService ==
    ASSUME ServiceInv, LookupOK \/ LookupFails
    PROVE  ValuesOK' /\ OneValueOK'
<1>1. /\ pc = "lookup" /\ UNCHANGED <<commands, current, requests, taken>>
  BY DEF LookupOK, LookupFails, serverVars
<1>2. current \in 1..Length /\ ~Touched(current) /\ Command.node \in Nodes
  BY <1>1, CurrentIs DEF ServiceInv, IInv, OrderOK, ValuesOK
<1>3. PICK m \in {NoType, "string", NodeType[Command.node]} :
         /\ PrepareWrite(Command, m)
         /\ \/ nodeDataTypes' = [nodeDataTypes EXCEPT ![Command.node] = m]
            \/ nodeDataTypes' = nodeDataTypes
  BY DEF LookupOK, LookupFails, ReadTypes, Command
<1>4. DOMAIN nodeDataTypes' = Nodes
      /\ \A n \in Nodes : nodeDataTypes'[n] \in {NoType, "string", NodeType[n]}
  BY <1>2, <1>3 DEF ServiceInv, ValuesOK
<1> QED
  BY <1>1, <1>2, <1>3, <1>4, PrepareStep DEF Command

LEMMA SendWriteService ==
    ASSUME ServiceInv, SendWrite
    PROVE  ValuesOK' /\ OneValueOK'
<1> DEFINE new == [id |-> current, attempt |-> attempt, value |-> writeValue]
<1>1. /\ pc = "write" /\ pc' = "await" /\ requests' = requests \cup {new}
      /\ UNCHANGED <<commands, nodeDataTypes, current, metadataType, attempt, writeValue, taken>>
  BY DEF SendWrite, cmdVars
<1>2. new.id = current /\ new.value = writeValue
  OBVIOUS
<1> HIDE DEF new
<1>3. Writing /\ Writing' /\ Command' = Command
  BY <1>1 DEF Writing, Command
<1>4. ValuesOK'
  BY <1>1, <1>2, <1>3 DEF ServiceInv, ValuesOK, Command
<1>5. \A j, x : OnlyValue(j, x) /\ (j = current => x = writeValue.is) => OnlyValue(j, x)'
  BY <1>1, <1>2 DEF OnlyValue
<1>6. OnlyValue(current, writeValue.is)
  BY <1>3 DEF ServiceInv, OneValueOK
<1>7. \A j \in Ids : \E x : OnlyValue(j, x)'
  BY <1>5, <1>6 DEF ServiceInv, OneValueOK
<1>8. OneValueOK'
  BY <1>1, <1>2, <1>3, <1>5, <1>6, <1>7 DEF ServiceInv, OneValueOK
<1> QED
  BY <1>4, <1>8

(* The node takes the value of a request.                                  *)
NodeTakes(r) ==
    /\ Accepts(commands[r.id].node, r.value)
    /\ taken' = [taken EXCEPT ![r.id] = @ \cup {r.value.is}]

(* It is the one value of the command.                                     *)
LEMMA TakesTheOne ==
    ASSUME ServiceInv, NEW r \in requests, NodeTakes(r)
    PROVE  /\ r.id \in Ids /\ DOMAIN taken = Ids
           /\ \A x : OnlyValue(r.id, x) => x = r.value.is
           /\ taken[r.id] \subseteq {r.value.is}
<1>1. r.id \in Ids /\ DOMAIN taken = Ids
  BY CommandsAre DEF ServiceInv, IInv, StateOK
<1>2. \A x : OnlyValue(r.id, x) => x = r.value.is
  BY DEF NodeTakes, OnlyValue
<1>3. taken[r.id] \subseteq {r.value.is}
  BY <1>1, <1>2 DEF ServiceInv, OneValueOK, OnlyValue
<1> QED
  BY <1>1, <1>2, <1>3

LEMMA TakenStays ==
    ASSUME ServiceInv, NEW r \in requests, NodeTakes(r),
           requests' \subseteq requests, commands' = commands
    PROVE  /\ \A j \in Ids : \A x : OnlyValue(j, x) => OnlyValue(j, x)'
           /\ taken' = [j \in Ids |-> taken'[j]]
<1>1. /\ r.id \in Ids /\ DOMAIN taken = Ids
      /\ \A x : OnlyValue(r.id, x) => x = r.value.is
  BY TakesTheOne
<1>2. /\ taken'[r.id] = taken[r.id] \cup {r.value.is}
      /\ \A j \in Ids : j # r.id => taken'[j] = taken[j]
      /\ taken' = [j \in Ids |-> taken'[j]]
  BY <1>1 DEF NodeTakes, ServiceInv, OneValueOK
<1>3. \A j \in Ids : \A x : OnlyValue(j, x) => OnlyValue(j, x)'
  BY <1>1, <1>2 DEF OnlyValue
<1> QED
  BY <1>2, <1>3

(* After a failure there is a retry, whose value agrees with what may have *)
(* been taken or may be taken yet, or there is none.                       *)
LEMMA RetryStep ==
    ASSUME ServiceInv, pc \in {"write", "await"}, AfterFailure, requests' \subseteq requests,
           UNCHANGED <<commands, nodeDataTypes, current, metadataType>>,
           UNCHANGED taken \/ \E r \in requests : r.id = current /\ NodeTakes(r)
    PROVE  ValuesOK' /\ OneValueOK'
<1> DEFINE values == ConvertWriteValue(Command.raw, metadataType)
<1>1. /\ Writing /\ Command' = Command /\ current \in Ids
      /\ Command.raw \in Texts /\ Command.type \in Types \cup {NoType}
  BY CurrentIs DEF Writing, Command, ServiceInv
<1>2. /\ \A j \in Ids : \A x : OnlyValue(j, x) => OnlyValue(j, x)'
      /\ taken' = [j \in Ids |-> taken'[j]]
  <2>1. CASE UNCHANGED taken
    BY <2>1 DEF OnlyValue, ServiceInv, OneValueOK
  <2>2. CASE \E r \in requests : NodeTakes(r)
    BY <2>2, TakenStays
  <2> QED
    BY <2>1, <2>2
<1>3. \/ pc' = "publish" /\ result' = Failure /\ writeValue' = writeValue
      \/ /\ attempt = 1 /\ NeedsRetry(Command.type, metadataType)
         /\ writeValue' \in values /\ attempt' = 2 /\ pc' = "write"
  BY Zenon DEF AfterFailure, Command
<1>4. CASE pc' = "publish" /\ result' = Failure /\ writeValue' = writeValue
  <2>1. ~result'.success
    BY <1>4, ResultsSay
  <2>2. ValuesOK'
    BY <1>1, <1>4 DEF ServiceInv, ValuesOK, Writing
  <2>3. OneValueOK'
    BY <1>2, <1>4, <2>1 DEF ServiceInv, OneValueOK, Writing
  <2> QED
    BY <2>2, <2>3
<1>5. CASE /\ attempt = 1 /\ NeedsRetry(Command.type, metadataType)
           /\ writeValue' \in values /\ attempt' = 2 /\ pc' = "write"
  <2>1. Command.node \in Nodes /\ metadataType \in {NoType, "string", NodeType[Command.node]}
    BY <1>1 DEF ServiceInv, ValuesOK
  <2>2. metadataType = NodeType[Command.node] /\ metadataType \in Types /\ metadataType # "int"
    BY <1>5, <2>1, NodeTypes DEF NeedsRetry, IsCompatibleTypeGroup
  <2>3. writeValue'.type \in Types /\ FaithfulValue(writeValue', Command.raw)
    BY <1>1, <1>5, <2>2, ConvertedTypes, ConversionIsFaithful
  <2>4. /\ OnlyValue(current, writeValue.is)
        /\ writeValue \in WriteValues(Command.raw, Command.type, metadataType)
        /\ \A r \in requests : r.id = current => r.value = writeValue
        /\ taken[current] # {} => Accepts(Command.node, writeValue)
    BY <1>1, <1>5 DEF ServiceInv, ValuesOK, OneValueOK
  <2>5. Accepts(Command.node, writeValue) => writeValue.is = writeValue'.is
    <3> SUFFICES ASSUME TypeGroup(writeValue.type) = TypeGroup(metadataType)
                 PROVE  writeValue.is = writeValue'.is
      BY <2>2 DEF Accepts
    <3> QED
      BY <1>1, <1>5, <2>2, <2>4, RetryAgrees
  <2>6. OnlyValue(current, writeValue.is)'
    <3>1. OnlyValue(current, writeValue'.is)
      BY <2>4, <2>5 DEF OnlyValue, Command
    <3>2. ASSUME NEW r \in requests, r.id = current, NodeTakes(r)
          PROVE  r.value.is = writeValue'.is
      BY <2>4, <2>5, <3>2 DEF NodeTakes, Command
    <3>3. taken'[current] \subseteq {writeValue'.is}
      <4>1. CASE UNCHANGED taken
        BY <3>1, <4>1 DEF OnlyValue
      <4>2. CASE \E r \in requests : r.id = current /\ NodeTakes(r)
        <5>1. PICK r \in requests : r.id = current /\ NodeTakes(r)
          BY <4>2
        <5>2. taken'[current] = taken[current] \cup {r.value.is}
          BY <1>1, <5>1 DEF NodeTakes, ServiceInv, IInv, StateOK
        <5> QED
          BY <3>1, <3>2, <5>1, <5>2 DEF OnlyValue
      <4> QED
        BY <4>1, <4>2
    <3> QED
      BY <3>1, <3>3 DEF OnlyValue
  <2>7. ValuesOK'
    BY <1>1, <1>5, <2>1, <2>3 DEF ServiceInv, ValuesOK, Writing
  <2>8. OneValueOK'
    BY <1>2, <1>5, <2>6 DEF ServiceInv, OneValueOK, Writing
  <2> QED
    BY <2>7, <2>8
<1> QED
  BY <1>3, <1>4, <1>5

LEMMA ServerTakesService ==
    ASSUME ServiceInv, NEW r \in requests, ServerTakes(r)
    PROVE  ValuesOK' /\ OneValueOK'
<1>1. /\ Accepts(commands[r.id].node, r.value) /\ requests' = requests \ {r}
      /\ taken' = [taken EXCEPT ![r.id] = @ \cup {r.value.is}]
      /\ NodeTakes(r)
      /\ UNCHANGED <<commands, nodeDataTypes, current, metadataType>>
  BY DEF ServerTakes, Written, NodeTakes
<1>2. \/ /\ AwaitedBy(r) /\ result' = Success(writeValue) /\ pc' = "publish"
         /\ UNCHANGED <<attempt, writeValue>>
      \/ UNCHANGED <<pc, attempt, writeValue, result>>
  BY DEF ServerTakes, AfterSuccess, Unnoticed
<1>3. r.id \in Ids /\ DOMAIN taken = Ids
  BY CommandsAre DEF ServiceInv, IInv, StateOK
<1>4. /\ taken'[r.id] = taken[r.id] \cup {r.value.is}
      /\ \A j \in Ids : j # r.id => taken'[j] = taken[j]
  BY <1>1, <1>3
<1>5. \A x : OnlyValue(r.id, x) => x = r.value.is
  BY <1>1 DEF OnlyValue
<1>6. \A j \in Ids : \A x : OnlyValue(j, x) => OnlyValue(j, x)'
  BY <1>1, TakenStays
<1>8. ValuesOK'
  BY <1>1, <1>2 DEF ServiceInv, ValuesOK, Writing, Command
<1>9. /\ taken' = [j \in Ids |-> taken'[j]] /\ \A j \in Ids : \E x : OnlyValue(j, x)'
      /\ Writing => current \in Ids
  BY <1>1, <1>3, <1>6, CurrentIs DEF ServiceInv, OneValueOK, Writing
<1>10. CASE AwaitedBy(r) /\ result' = Success(writeValue) /\ pc' = "publish"
  <2>1. pc = "await" /\ r.id = current /\ Writing
    BY <1>10 DEF AwaitedBy, Writing
  <2>2. writeValue.is = r.value.is
    BY <1>5, <2>1 DEF ServiceInv, OneValueOK
  <2>3. result'.value \in taken'[current]
    BY <1>4, <1>10, <2>1, <2>2 DEF Success
  <2> QED
    BY <1>1, <1>8, <1>9, <1>10, <2>3 DEF OneValueOK, Writing
<1>11. CASE UNCHANGED <<pc, attempt, writeValue, result>>
  <2>1. Writing' <=> Writing
    BY <1>11 DEF Writing
  <2>2. ASSUME Writing
        PROVE  /\ OnlyValue(current, writeValue.is)'
               /\ attempt' = 1 => /\ \A q \in requests' : q.id = current' => q.value = writeValue'
                                  /\ taken'[current'] # {} => Accepts(Command.node, writeValue)'
    <3>1. OnlyValue(current, writeValue.is)'
      BY <1>1, <1>6, <1>9, <1>11, <2>2 DEF ServiceInv, OneValueOK
    <3>2. attempt = 1 /\ r.id = current => r.value = writeValue
      BY <2>2 DEF ServiceInv, OneValueOK
    <3>3. attempt = 1 /\ taken'[current] # {} => Accepts(Command.node, writeValue)
      BY <1>1, <1>4, <1>9, <2>2, <3>2 DEF ServiceInv, OneValueOK, Command
    <3> QED
      BY <1>1, <1>11, <2>2, <3>1, <3>3 DEF ServiceInv, OneValueOK, Command, Accepts
  <2>3. pc = "publish" => current \in Ids
    BY CurrentIs DEF ServiceInv
  <2>4. pc = "publish" /\ result.success => result.value \in taken'[current]
    BY <1>4, <2>3 DEF ServiceInv, OneValueOK
  <2> QED
    BY <1>1, <1>8, <1>9, <1>11, <2>1, <2>2, <2>4 DEF OneValueOK
<1> QED
  BY <1>2, <1>10, <1>11

LEMMA ServerTakesNotOKService ==
    ASSUME ServiceInv, NEW r \in requests, ServerTakesNotOK(r)
    PROVE  ValuesOK' /\ OneValueOK'
<1>1. /\ pc = "await" /\ r.id = current /\ AfterFailure
      /\ UNCHANGED <<commands, nodeDataTypes, current, metadataType>>
  BY DEF ServerTakesNotOK, AwaitedBy
<1>2. CASE Written(r)
  <2>1. requests' \subseteq requests /\ NodeTakes(r)
    BY <1>2 DEF ServerTakesNotOK, Written, NodeTakes
  <2> QED
    BY <1>1, <2>1, RetryStep
<1>3. CASE UNCHANGED <<requests, taken, holds>>
  BY <1>1, <1>3, RetryStep
<1> QED
  BY <1>2, <1>3 DEF ServerTakesNotOK

LEMMA ServerRefusesService ==
    ASSUME ServiceInv, NEW r \in requests, ServerRefuses(r)
    PROVE  ValuesOK' /\ OneValueOK'
<1>1. /\ requests' \subseteq requests
      /\ UNCHANGED <<commands, nodeDataTypes, current, metadataType, taken>>
  BY DEF ServerRefuses
<1>2. (AwaitedBy(r) /\ AfterFailure) \/ UNCHANGED <<pc, attempt, writeValue, result>>
  BY DEF ServerRefuses, Unnoticed
<1>3. CASE AwaitedBy(r) /\ AfterFailure
  <2>1. pc \in {"write", "await"}
    BY <1>3 DEF AwaitedBy
  <2> QED
    BY <1>1, <1>3, <2>1, RetryStep
<1>4. CASE UNCHANGED <<pc, attempt, writeValue, result>>
  <2>1. \A j, x : OnlyValue(j, x) => OnlyValue(j, x)'
    BY <1>1 DEF OnlyValue
  <2>2. ValuesOK'
    BY <1>1, <1>4 DEF ServiceInv, ValuesOK, Writing, Command
  <2>3. OneValueOK'
    BY <1>1, <1>4, <2>1 DEF ServiceInv, OneValueOK, Writing, Command, Accepts
  <2> QED
    BY <2>2, <2>3
<1> QED
  BY <1>2, <1>3, <1>4

LEMMA PublishResultService ==
    ASSUME ServiceInv, PublishResult
    PROVE  ValuesOK' /\ OneValueOK'
<1>1. /\ pc' = "idle" /\ metadataType' = NoType /\ writeValue' = NoValue
      /\ UNCHANGED <<commands, nodeDataTypes, requests, taken>>
  BY DEF PublishResult, serverVars
<1>2. writeValue'.type \in Types
  BY <1>1, Fields DEF NoValue, Types
<1>3. \A j, x : OnlyValue(j, x)' <=> OnlyValue(j, x)
  BY <1>1 DEF OnlyValue
<1>4. ValuesOK'
  BY <1>1, <1>2 DEF ServiceInv, ValuesOK, Writing
<1>5. OneValueOK'
  BY <1>1, <1>3 DEF ServiceInv, OneValueOK, Writing
<1> QED
  BY <1>4, <1>5

LEMMA NextService == ServiceInv /\ [Next]_vars => ServiceInv'
<1> SUFFICES ASSUME ServiceInv, [Next]_vars PROVE ServiceInv'
  OBVIOUS
<1>1. IInv'
  BY NextIInv DEF ServiceInv
<1>2. CASE \E c \in CommandSet : Deliver(c)
  <2>1. PICK c \in CommandSet : Deliver(c)
    BY <1>2
  <2>2. UNCHANGED serviceParts /\ commands' = Append(commands, c)
    BY <2>1 DEF Deliver, serviceParts, cmdVars, serverVars
  <2>3. commands \in Seq(CommandSet)
    BY DEF ServiceInv, IInv, StateOK
  <2>4. \A j \in 1..Length : commands'[j] = commands[j]
    BY <2>2, <2>3, OneMore DEF Length
  <2> QED
    BY <1>1, <2>2, <2>4, ElsewhereStep DEF ServiceInv
<1>3. CASE NatsDown \/ NatsUp \/ Stop \/ Shutdown \/ UNCHANGED vars
  <2>1. UNCHANGED serviceParts /\ commands' = commands
    BY <1>3 DEF NatsDown, NatsUp, Stop, Shutdown, NatsClose, OpcuaClose, ProcessExit, Unhandled,
                vars, serviceParts, cmdVars, serverVars
  <2> QED
    BY <1>1, <2>1, ElsewhereStep DEF ServiceInv
<1>4. CASE \E r \in requests : ServerTakes(r) \/ ServerTakesNotOK(r) \/ ServerRefuses(r)
  BY <1>1, <1>4, ServerTakesService, ServerTakesNotOKService, ServerRefusesService DEF ServiceInv
<1>5. CASE WriteFails \/ WriteTimesOut
  <2>1. /\ pc \in {"write", "await"} /\ AfterFailure /\ requests' \subseteq requests
        /\ UNCHANGED <<commands, nodeDataTypes, current, metadataType, taken>>
    BY <1>5 DEF WriteFails, WriteTimesOut, serverVars
  <2> QED
    BY <1>1, <2>1, RetryStep DEF ServiceInv
<1>6. CASE HandleMessage \/ LookupOK \/ LookupFails \/ SendWrite \/ PublishResult
  BY <1>1, <1>6, HandleMessageService, LookupService, SendWriteService, PublishResultService
  DEF ServiceInv
<1> QED
  BY <1>2, <1>3, <1>4, <1>5, <1>6 DEF Next, Environment, Handler

-----------------------------------------------------------------------------
(* Theorems about every behavior of Writeback *)

(* The inductive invariant: at every moment there is one value that the    *)
(* node of a command has taken or can take from it, whatever its first     *)
(* write, its fallback and its retry made of the text (handler.go 156-259).*)
THEOREM OneValuePerCommand == Spec => []ServiceInv
<1>1. Init => ServiceInv
  BY InitService
<1>2. ServiceInv /\ [Next]_vars => ServiceInv'
  BY NextService
<1> QED
  BY <1>1, <1>2, PTL DEF Spec

(* A request carries what the text of its command means in the type it is  *)
(* sent as, unless an integer type cannot hold that (client.go 779-942).   *)
THEOREM RequestsAreFaithful == Spec => []RequestsFaithful
<1>1. ServiceInv => RequestsFaithful
  <2> SUFFICES ASSUME ServiceInv, NEW r \in requests
               PROVE  \/ Renders(r.value, commands[r.id].raw)
                      \/ IsInteger(r.value) /\ Truncations(commands[r.id].raw, r.value.type) = {}
    BY DEF RequestsFaithful
  <2> QED
    BY DEF ServiceInv, ValuesOK, FaithfulValue, IsInteger
<1> QED
  BY <1>1, OneValuePerCommand, PTL

LEMMA StepOfService ==
    ASSUME ServiceInv, [Next]_vars
    PROVE  [S!ServiceNext]_<<taken, answers>>
<1>1. CASE \E r \in requests : NodeTakes(r) /\ answers' = answers
  <2>1. PICK r \in requests : NodeTakes(r) /\ answers' = answers
    BY <1>1
  <2>2. /\ taken' = [taken EXCEPT ![r.id] = @ \cup {r.value.is}] /\ answers' = answers
        /\ taken[r.id] \subseteq {r.value.is} /\ r.id \in Ids /\ DOMAIN taken = Ids
    BY <2>1, TakesTheOne, CommandsAre DEF NodeTakes, ServiceInv, IInv, StateOK
  <2>3. CASE taken[r.id] = {}
    <3>1. taken' = [taken EXCEPT ![r.id] = {r.value.is}] /\ r.value.is \in taken'[r.id]
      BY <2>2, <2>3
    <3>2. S!Take(r.id)
      BY <2>2, <2>3, <3>1 DEF S!Take
    <3> QED
      BY <2>2, <3>2 DEF S!ServiceNext
  <2>4. CASE taken[r.id] # {}
    <3>1. taken[r.id] = {r.value.is}
      BY <2>2, <2>4
    <3>2. taken' = taken
      <4>1. taken' = [taken EXCEPT ![r.id] = taken[r.id]]
        BY <2>2, <3>1
      <4>2. taken = [j \in Ids |-> taken[j]]
        BY DEF ServiceInv, OneValueOK
      <4> QED
        BY <4>1, <4>2
    <3> QED
      BY <2>2, <3>2
  <2> QED
    BY <2>3, <2>4
<1>2. CASE PublishResult
  <2>1. /\ pc = "publish" /\ UNCHANGED taken
        /\ answers' = IF connected /\ Marshalable(result)
                      THEN [answers EXCEPT ![current] = Append(@, result)] ELSE answers
    BY <1>2 DEF PublishResult, serverVars
  <2>2. /\ current \in Ids /\ answers[current] = <<>> /\ DOMAIN answers = Ids
        /\ result.success => result.value \in taken[current]
    BY <2>1, CurrentIs DEF ServiceInv, IInv, StateOK, OutcomeOK, OneValueOK
  <2>3. CASE answers' = answers
    BY <2>1, <2>3
  <2>4. CASE answers' = [answers EXCEPT ![current] = Append(@, result)]
    <3>1. answers' = [answers EXCEPT ![current] = <<result>>] /\ answers'[current] = <<result>>
      BY <2>2, <2>4
    <3>2. result \in {answers'[current][k] : k \in DOMAIN answers'[current]}
      BY <3>1
    <3>3. S!Answer(current)
      BY <2>1, <2>2, <3>1, <3>2 DEF S!Answer
    <3> QED
      BY <2>2, <3>3 DEF S!ServiceNext
  <2> QED
    BY <2>1, <2>3, <2>4
<1>3. CASE UNCHANGED <<taken, answers>>
  BY <1>3
<1>4. \A r \in requests :
         ServerTakes(r) \/ ServerTakesNotOK(r) =>
            (NodeTakes(r) \/ UNCHANGED taken) /\ answers' = answers
  BY DEF ServerTakes, ServerTakesNotOK, Written, NodeTakes
<1>5. \/ \E r \in requests : ServerTakes(r) \/ ServerTakesNotOK(r)
      \/ PublishResult
      \/ UNCHANGED <<taken, answers>>
  BY DEF Next, Environment, Handler, Deliver, NatsDown, NatsUp, ServerRefuses, HandleMessage,
         LookupOK, LookupFails, SendWrite, WriteFails, WriteTimesOut, Stop, Shutdown, NatsClose,
         OpcuaClose, ProcessExit, Unhandled, vars, serverVars
<1> QED
  BY <1>1, <1>2, <1>3, <1>4, <1>5

(* The handler does what WriteService promises (handler.go 102-296): a     *)
(* node takes one value from a command at most, although failed writes are *)
(* retried with another type while the first may be late; a success names  *)
(* the value that was taken; a command is answered once at most.           *)
THEOREM HandlerImplementsService == Spec => ImplementsService
<1>1. Init => S!ServiceInit
  BY DEF Init, S!ServiceInit
<1>2. ServiceInv /\ [Next]_vars => [S!ServiceNext]_(S!serviceVars)
  BY StepOfService DEF S!serviceVars
<1> QED
  BY <1>1, <1>2, OneValuePerCommand, PTL DEF Spec, ImplementsService, S!ServiceSpec

-----------------------------------------------------------------------------
(* What surrounds the handler: the connections, main, and what the nodes hold. *)

SurroundingsOK ==
    /\ subscribed \in BOOLEAN /\ connected \in BOOLEAN /\ session \in BOOLEAN
    /\ outages \in 0..NatsOutages
    /\ main \in {"running", "collector", "opcua", "exiting", "exited"}
    /\ holds \in [Nodes -> Ids \cup {0}]

(* What a step does to the surroundings.                                   *)
LEMMA SurroundingsChange ==
    ASSUME [Next]_vars
    PROVE  /\ subscribed' \in {subscribed, FALSE} /\ connected' \in {connected, TRUE, FALSE}
           /\ session' \in {session, FALSE}
           /\ outages' = outages \/ (outages < NatsOutages /\ outages' = outages + 1)
           /\ main' = main \/ main' \in {"collector", "opcua", "exiting", "exited"}
           /\ \/ holds' = holds
              \/ \E r \in requests : holds' = [holds EXCEPT ![commands[r.id].node] = r.id]
<1> DEFINE changes ==
             /\ subscribed' \in {subscribed, FALSE} /\ connected' \in {connected, TRUE, FALSE}
             /\ session' \in {session, FALSE}
             /\ outages' = outages \/ (outages < NatsOutages /\ outages' = outages + 1)
             /\ main' = main \/ main' \in {"collector", "opcua", "exiting", "exited"}
             /\ \/ holds' = holds
                \/ \E r \in requests : holds' = [holds EXCEPT ![commands[r.id].node] = r.id]
<1>1. UNCHANGED <<subscribed, connected, session, outages, main, holds>> => changes
  BY Zenon
<1>2. (\E c \in CommandSet : Deliver(c)) \/ UNCHANGED vars => changes
  <2>1. (\E c \in CommandSet : Deliver(c)) \/ UNCHANGED vars
           => UNCHANGED <<subscribed, connected, session, outages, main, holds>>
    BY DEF Deliver, vars, netVars, mainVars, serverVars
  <2> QED
    BY <1>1, <2>1, Zenon
<1>3. NatsDown => changes
  <2>1. NatsDown => UNCHANGED <<subscribed, session, main, holds>>
    BY DEF NatsDown, mainVars, serverVars
  <2>2. NatsDown => connected' = FALSE /\ outages < NatsOutages /\ outages' = outages + 1
    BY Zenon DEF NatsDown
  <2> QED
    BY <2>1, <2>2, Zenon
<1>4. NatsUp => changes
  <2>1. NatsUp => UNCHANGED <<subscribed, outages, session, main, holds>>
    BY DEF NatsUp, mainVars, serverVars
  <2>2. NatsUp => connected' = TRUE
    BY Zenon DEF NatsUp
  <2> QED
    BY <2>1, <2>2, Zenon
<1>5. ASSUME NEW r \in requests, ServerTakes(r) \/ ServerTakesNotOK(r) \/ ServerRefuses(r)
      PROVE  changes
  <2>1. UNCHANGED <<subscribed, connected, session, outages, main>>
    BY <1>5 DEF ServerTakes, ServerTakesNotOK, ServerRefuses, netVars, mainVars
  <2>2. holds' = holds \/ holds' = [holds EXCEPT ![commands[r.id].node] = r.id]
    BY <1>5, Zenon DEF ServerTakes, ServerTakesNotOK, Written, ServerRefuses
  <2> QED
    BY <2>1, <2>2, Zenon
<1>6. Handler => changes
  <2>1. Handler => UNCHANGED <<subscribed, connected, session, outages, main, holds>>
    BY DEF Handler, HandleMessage, LookupOK, LookupFails, PublishResult, SendWrite, WriteFails,
           WriteTimesOut, netVars, mainVars, serverVars
  <2> QED
    BY <1>1, <2>1, Zenon
<1>7. Stop \/ Shutdown => changes
  <2>1. Stop \/ Shutdown => UNCHANGED <<outages, holds>>
    BY DEF Stop, Shutdown, NatsClose, OpcuaClose, ProcessExit, Unhandled, serverVars
  <2>2. Stop => subscribed' = FALSE /\ main' = "collector" /\ UNCHANGED <<connected, session>>
    BY Zenon DEF Stop
  <2>3. NatsClose => connected' = FALSE /\ main' = "opcua" /\ UNCHANGED <<subscribed, session>>
    <3>1. NatsClose => UNCHANGED <<subscribed, session>>
      BY DEF NatsClose
    <3> QED
      BY <3>1, Zenon DEF NatsClose
  <2>4. OpcuaClose => session' = FALSE /\ main' = "exiting" /\ UNCHANGED <<subscribed, connected>>
    <3>1. OpcuaClose => UNCHANGED <<subscribed, connected>>
      BY DEF OpcuaClose
    <3> QED
      BY <3>1, Zenon DEF OpcuaClose
  <2>5. ProcessExit => main' = "exited" /\ UNCHANGED <<subscribed, connected, session>>
    <3>1. ProcessExit => UNCHANGED <<subscribed, connected, session>>
      BY DEF ProcessExit
    <3> QED
      BY <3>1, Zenon DEF ProcessExit
  <2> QED
    BY <2>1, <2>2, <2>3, <2>4, <2>5, Zenon DEF Shutdown
<1> QED
  BY <1>2, <1>3, <1>4, <1>5, <1>6, <1>7, Zenon DEF Next, Environment

LEMMA NextSurroundings ==
    ASSUME ServiceInv, SurroundingsOK, [Next]_vars
    PROVE  SurroundingsOK'
<1>1. subscribed' \in BOOLEAN /\ connected' \in BOOLEAN /\ session' \in BOOLEAN
  BY SurroundingsChange, Zenon DEF SurroundingsOK
<1>2. outages' \in 0..NatsOutages
  <2>1. NatsOutages \in Nat
    BY Zenon, CommandsAssumption
  <2>2. outages' = outages \/ (outages < NatsOutages /\ outages' = outages + 1)
    BY SurroundingsChange, Zenon
  <2>3. outages \in 0..NatsOutages
    BY DEF SurroundingsOK
  <2> QED
    BY <2>1, <2>2, <2>3
<1>3. main' \in {"running", "collector", "opcua", "exiting", "exited"}
  BY SurroundingsChange, Zenon DEF SurroundingsOK
<1>4. holds' \in [Nodes -> Ids \cup {0}]
  <2>1. \/ holds' = holds
        \/ \E r \in requests : holds' = [holds EXCEPT ![commands[r.id].node] = r.id]
    BY SurroundingsChange, Zenon
  <2>2. \A r \in requests : r.id \in Ids
    BY CommandsAre DEF ServiceInv
  <2>3. holds \in [Nodes -> Ids \cup {0}]
    BY DEF SurroundingsOK
  <2> QED
    BY <2>1, <2>2, <2>3
<1> QED
  BY <1>1, <1>2, <1>3, <1>4, Zenon DEF SurroundingsOK

(* The types: in particular, a type in the cache is the node's own or the  *)
(* "String" that ReadNodeDataTypes makes of a failed read (handler.go      *)
(* 120-130), and what is written has a type OPC UA knows.                  *)
THEOREM TypeCorrect == Spec => []TypeOK
<1>1. Init => SurroundingsOK
  <2> SUFFICES ASSUME Init PROVE SurroundingsOK
    OBVIOUS
  <2>1. subscribed \in BOOLEAN /\ connected \in BOOLEAN /\ session \in BOOLEAN
    BY Zenon DEF Init
  <2>2. outages = 0 /\ main = "running" /\ holds = [n \in Nodes |-> 0]
    BY Zenon DEF Init
  <2>3. NatsOutages \in Nat
    BY Zenon, CommandsAssumption
  <2>4. outages \in 0..NatsOutages /\ holds \in [Nodes -> Ids \cup {0}]
    BY <2>2, <2>3
  <2> QED
    BY <2>1, <2>2, <2>4, Zenon DEF SurroundingsOK
<1>2. ServiceInv /\ SurroundingsOK /\ [Next]_vars => SurroundingsOK'
  BY NextSurroundings
<1>3. ServiceInv /\ SurroundingsOK => TypeOK
  <2> SUFFICES ASSUME ServiceInv, SurroundingsOK PROVE TypeOK
    OBVIOUS
  <2>1. DOMAIN commands = 1..Length /\ Length \in Nat
    BY IdsOfCommands DEF ServiceInv, IInv
  <2>2. /\ commands \in Seq(CommandSet) /\ Len(commands) <= MaxCommands
        /\ queue \in Seq(DOMAIN commands)
        /\ current \in {0} \cup DOMAIN commands
        /\ \A r \in requests : r.id \in DOMAIN commands /\ r.attempt \in {1, 2}
        /\ unsure \subseteq DOMAIN commands
    BY <2>1 DEF ServiceInv, IInv, StateOK, Length
  <2>3. /\ pc \in {"idle", "lookup", "write", "await", "publish"}
        /\ current = 0 <=> pc = "idle"
        /\ attempt \in {1, 2} /\ result.success \in BOOLEAN
        /\ DOMAIN taken = Ids /\ DOMAIN answers = Ids
    BY Zenon DEF ServiceInv, IInv, StateOK
  <2>4. /\ DOMAIN nodeDataTypes = Nodes
        /\ \A n \in Nodes : nodeDataTypes[n] \in {NoType, "string", NodeType[n]}
        /\ metadataType \in Types \cup {NoType} /\ writeValue.type \in Types
    BY DEF ServiceInv, ValuesOK
  <2> QED
    BY <2>2, <2>3, <2>4, Zenon DEF SurroundingsOK, TypeOK
<1> QED
  BY <1>1, <1>2, <1>3, OneValuePerCommand, PTL DEF Spec
=============================================================================
