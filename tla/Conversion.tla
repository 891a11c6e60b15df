------------------------------ MODULE Conversion ------------------------------
(***************************************************************************)
(* How the text of a write command becomes a value of an OPC UA type:      *)
(* ConvertWriteValue of internal/opcua/client.go and its helpers.          *)
(*                                                                         *)
(* strconv is not modelled: the constants say what it makes of each text.  *)
(* Numbers are counted in halves, enough to tell truncation from rounding. *)
(* A conversion yields the set of values the build may produce: the empty  *)
(* set is an error, more than one element a result that Go leaves to the   *)
(* implementation (int64 of NaN, or of a number that does not fit).        *)
(***************************************************************************)
EXTENDS Integers

CONSTANTS
    Texts,          \* the texts commands carry
    ParseBool,      \* strconv.ParseBool: "true", "false" or "error" for each text
    ParseFloat,     \* strconv.ParseFloat(text, 64): a number, or NotANumber on error
    Integral,       \* the texts that are plain decimal integers, as ParseInt wants them
    SignedWidth,    \* the bits of "sbyte", "int16", "int32", "int64"
    UnsignedWidth,  \* the bits of "byte", "uint16", "uint32", "uint64"
    MaxWidth,       \* 64
    Float32Max      \* the largest float32, in halves

Finite(halves) == [kind |-> "finite", halves |-> halves]
Inf == [kind |-> "inf", halves |-> 0]
NaN == [kind |-> "nan", halves |-> 0]
NotANumber == [kind |-> "error", halves |-> 0]
Numbers == {Finite(h) : h \in Int} \cup {Inf, NaN}

SignedTypes == DOMAIN SignedWidth
UnsignedTypes == DOMAIN UnsignedWidth
FloatTypes == {"float", "double"}

(* Type names are compared after strings.ToLower; "bool", "float32" and    *)
(* "float64" are spelt "boolean", "float" and "double" here.  "int" stands *)
(* for the integer names ConvertWriteValue does not know (int, int8,       *)
(* uint8, integer ...), "other" for every remaining name (DateTime ...).   *)
Types == SignedTypes \cup UnsignedTypes \cup FloatTypes
         \cup {"boolean", "string", "int", "other"}

ASSUME StrconvAssumption ==
    /\ ParseBool \in [Texts -> {"true", "false", "error"}]
    /\ DOMAIN ParseFloat = Texts
    /\ \A t \in Texts : \/ /\ ParseFloat[t] = Finite(ParseFloat[t].halves)
                           /\ ParseFloat[t].halves \in Int
                        \/ ParseFloat[t] \in {Inf, NaN, NotANumber}
    /\ Integral \subseteq {t \in Texts : ParseFloat[t].kind = "finite"}
    \* of the spellings of a truth value only "1" and "0" are also numbers
    /\ \A t \in Texts : /\ ParseBool[t] = "true" => ParseFloat[t] \in {Finite(2), NotANumber}
                        /\ ParseBool[t] = "false" => ParseFloat[t] \in {Finite(0), NotANumber}
ASSUME WidthAssumption ==
    /\ SignedTypes \subseteq {"sbyte", "int16", "int32", "int64"}
    /\ UnsignedTypes \subseteq {"byte", "uint16", "uint32", "uint64"}
    /\ MaxWidth \in Nat \ {0}
    /\ \A t \in SignedTypes : SignedWidth[t] \in 1..MaxWidth
    /\ \A t \in UnsignedTypes : UnsignedWidth[t] \in 1..MaxWidth
    \* every number an integer type can hold is a float32
    /\ Float32Max \in Nat /\ 2 * 2 ^ MaxWidth <= Float32Max
(* What ^ computes, which no prover knows.                                 *)
ASSUME PowersAssumption ==
    \A n \in 0..MaxWidth : 2 ^ n = IF n = 0 THEN 1 ELSE 2 * 2 ^ (n - 1)

(* A Go value: its type, and what it is.  true is 1 and false is 0.        *)
Value(type, number) == [type |-> type, is |-> number]
Text(raw) == [type |-> "string", is |-> [kind |-> "text", text |-> raw]]
Bool(b) == Value("boolean", Finite(IF b THEN 2 ELSE 0))

Signed(w) == -(2 ^ (w - 1)) .. (2 ^ (w - 1) - 1)
Unsigned(w) == 0 .. (2 ^ w - 1)

(* int8(v) and its like keep the low bits.                                 *)
WrapSigned(n, w) == ((n + 2 ^ (w - 1)) % 2 ^ w) - 2 ^ (w - 1)
WrapUnsigned(n, w) == n % 2 ^ w

RoundedDown(f) == f.halves \div 2    \* mutant: floor instead of truncation
Truncated(f) == IF f.halves >= 0 THEN f.halves \div 2 ELSE -((-f.halves) \div 2)

OrElse(S, T) == IF S # {} THEN S ELSE T

(* parseBoolish, mapped to 1 and 0.                                        *)
BoolAsInt(raw) ==
    CASE ParseBool[raw] = "true"  -> {1}
      [] ParseBool[raw] = "false" -> {0}
      [] OTHER                    -> {}

(* The last fallback of both coercions.  float64(math.MaxInt64) is 2^63,   *)
(* one more than MaxInt64, so the bounds themselves pass the check.        *)
Undefined(range) == {n \in range : \/ n = 0
                                   \/ n = 2 ^ (MaxWidth - 1)    \* uint64(NaN) on amd64
                                   \/ \A m \in range : m <= n
                                   \/ \A m \in range : n <= m}
FloatAsInt(f, low, high, range) ==
    CASE f.kind = "nan" -> Undefined(range)
      [] f.kind = "finite" /\ f.halves \in 2 * low .. 2 * high ->
            IF Truncated(f) \in range THEN {Truncated(f)} ELSE Undefined(range)
      [] OTHER -> {}

CoerceToInt(raw, w) ==
    IF raw \in Integral /\ Truncated(ParseFloat[raw]) \in Signed(w)
    THEN {Truncated(ParseFloat[raw])}
    ELSE OrElse(BoolAsInt(raw),
                FloatAsInt(ParseFloat[raw], -(2 ^ (MaxWidth - 1)), 2 ^ (MaxWidth - 1),
                           Signed(MaxWidth)))

CoerceToUint(raw, w) ==
    IF raw \in Integral /\ Truncated(ParseFloat[raw]) \in Unsigned(w)
    THEN {Truncated(ParseFloat[raw])}
    ELSE OrElse(BoolAsInt(raw),
                FloatAsInt(ParseFloat[raw], 0, 2 ^ MaxWidth, Unsigned(MaxWidth)))

IsNumber(f) == f.kind # "error"

ToBoolean(raw) ==
    IF ParseBool[raw] # "error" THEN {Bool(ParseBool[raw] = "true")}
    ELSE IF IsNumber(ParseFloat[raw]) THEN {Bool(ParseFloat[raw] # Finite(0))}
    ELSE {}

FitsFloat32(f) == f.kind = "finite" => f.halves \in -Float32Max .. Float32Max

ToFloat(raw, type) ==
    IF IsNumber(ParseFloat[raw]) /\ (type = "float" => FitsFloat32(ParseFloat[raw]))
    THEN {Value(type, ParseFloat[raw])}
    ELSE {Value(type, Finite(2 * n)) : n \in BoolAsInt(raw)}

(* bool, then float64, then the text itself; never an error.               *)
AutoConvert(raw) ==
    IF ParseBool[raw] # "error" THEN {Bool(ParseBool[raw] = "true")}
    ELSE IF IsNumber(ParseFloat[raw]) THEN {Value("double", ParseFloat[raw])}
    ELSE {Text(raw)}

ConvertWriteValue(raw, type) ==
    CASE type = "boolean" -> ToBoolean(raw)
      [] type \in SignedTypes ->
            {Value(type, Finite(2 * WrapSigned(n, SignedWidth[type])))
                : n \in CoerceToInt(raw, SignedWidth[type])}
      [] type \in UnsignedTypes ->
            {Value(type, Finite(2 * WrapUnsigned(n, UnsignedWidth[type])))
                : n \in CoerceToUint(raw, UnsignedWidth[type])}
      [] type \in FloatTypes -> ToFloat(raw, type)
      [] type = "string" -> {Text(raw)}
      [] OTHER -> AutoConvert(raw)

-----------------------------------------------------------------------------
(* What a text means, whatever the code does: a truth value, or a number   *)
(* that an integer type takes without its fraction.                        *)

Meaning(raw) ==
    IF IsNumber(ParseFloat[raw]) THEN ParseFloat[raw]
    ELSE CASE ParseBool[raw] = "true"  -> Finite(2)
           [] ParseBool[raw] = "false" -> Finite(0)
           [] OTHER                    -> NotANumber

Limits(type) ==
    IF type \in SignedTypes THEN Signed(SignedWidth[type]) ELSE Unsigned(UnsignedWidth[type])

(* n is the number of that many halves without its fraction.               *)
IsTruncation(n, halves) ==
    IF halves >= 0 THEN halves \in {2 * n, 2 * n + 1} ELSE halves \in {2 * n - 1, 2 * n}

(* The integers of this type that raw means: one, or none if out of range. *)
Truncations(raw, type) ==
    IF Meaning(raw).kind = "finite"
    THEN {n \in Limits(type) : IsTruncation(n, Meaning(raw).halves)}
    ELSE {}

(* value is what raw means in value's own type.                            *)
Renders(value, raw) ==
    CASE value.type = "string"  -> value = Text(raw)
      [] value.type = "boolean" -> value = Bool(Meaning(raw) # Finite(0))
      [] value.type \in FloatTypes -> value.is = Meaning(raw)
      [] OTHER -> \E n \in Truncations(raw, value.type) : value.is = Finite(2 * n)
=============================================================================
