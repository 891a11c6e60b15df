--------------------------- MODULE ConversionProofs ---------------------------
(***************************************************************************)
(* What ConvertWriteValue returns, for every text, every type and every    *)
(* width of the integers.                                                  *)
(***************************************************************************)
EXTENDS Conversion, WellFoundedInduction, NaturalsInduction, TLAPS

-----------------------------------------------------------------------------
(* Powers of two *)

(* A set of naturals has a least element: induction, with a set in place   *)
(* of a predicate.                                                         *)
LEMMA LeastElement ==
    ASSUME NEW T, T \subseteq Nat, T # {}
    PROVE  \E x \in T : \A y \in T : x <= y
<1> DEFINE R == {ss \in Nat \X Nat : ss[1] < ss[2]}
<1>1. IsWellFoundedOn(R, Nat)
  BY NatLessThanWellFounded DEF OpToRel
<1>2. \A x, y \in Nat : y < x => <<y, x>> \in R
  OBVIOUS
<1> HIDE DEF R
<1>3. PICK x \in T : \A y \in T : ~(<<y, x>> \in R)
  BY <1>1, WFMin
<1>4. \A y \in T : ~(y < x)
  BY <1>2, <1>3
<1>5. \A y \in T : x <= y
  BY <1>4
<1> QED
  BY <1>5

LEMMA PowersOfTwo == \A n \in 0..MaxWidth : 2 ^ n \in Nat \ {0}
<1> DEFINE bad == {n \in 0..MaxWidth : 2 ^ n \notin Nat \ {0}}
<1> SUFFICES ASSUME bad # {} PROVE FALSE
  OBVIOUS
<1>1. MaxWidth \in Nat /\ bad \subseteq Nat
  BY WidthAssumption
<1>2. PICK n \in bad : \A m \in bad : n <= m
  BY <1>1, LeastElement
<1>3. n \in 0..MaxWidth /\ 2 ^ n \notin Nat \ {0}
  BY <1>2
<1>4. 2 ^ n = IF n = 0 THEN 1 ELSE 2 * 2 ^ (n - 1)
  BY <1>3, PowersAssumption
<1>5. n # 0
  BY <1>3, <1>4
<1>6. n - 1 \in 0..MaxWidth /\ n - 1 \notin bad
  BY <1>1, <1>2, <1>3, <1>5
<1>7. 2 ^ (n - 1) \in Nat \ {0}
  BY <1>6
<1> QED
  BY <1>3, <1>4, <1>5, <1>7

(* A wider type holds all that a narrower one does.                        *)
LEMMA PowersGrow == \A m, n \in 0..MaxWidth : m <= n => 2 ^ m <= 2 ^ n
<1> TAKE m \in 0..MaxWidth
<1> DEFINE bad == {n \in m..MaxWidth : ~(2 ^ m <= 2 ^ n)}
<1>1. MaxWidth \in Nat /\ m \in Nat /\ 2 ^ m \in Nat
  BY WidthAssumption, PowersOfTwo
<1>2. bad = {}
  <2> SUFFICES ASSUME bad # {} PROVE FALSE
    OBVIOUS
  <2>1. bad \subseteq Nat
    BY <1>1
  <2>2. PICK n \in bad : \A k \in bad : n <= k
    BY <2>1, LeastElement
  <2>3. n \in m..MaxWidth /\ ~(2 ^ m <= 2 ^ n) /\ n \in 0..MaxWidth
    BY <1>1, <2>2
  <2>4. n # m
    BY <1>1, <2>3
  <2>5. n - 1 \in m..MaxWidth /\ n - 1 \notin bad /\ n # 0 /\ n - 1 \in 0..MaxWidth
    BY <1>1, <2>2, <2>3, <2>4
  <2>6. 2 ^ m <= 2 ^ (n - 1) /\ 2 ^ (n - 1) \in Nat
    BY <2>5, PowersOfTwo
  <2>7. 2 ^ n = 2 * 2 ^ (n - 1)
    BY <2>3, <2>5, PowersAssumption
  <2> QED
    BY <1>1, <2>3, <2>6, <2>7
<1> QED
  BY <1>1, <1>2

(* 2^w and its half, as the limits of a type of w bits use them.           *)
LEMMA HalfOfPower ==
    ASSUME NEW w \in 1..MaxWidth
    PROVE  2 ^ (w - 1) \in Nat \ {0} /\ 2 ^ w = 2 * 2 ^ (w - 1)
<1>1. MaxWidth \in Nat /\ w \in 0..MaxWidth /\ w - 1 \in 0..MaxWidth /\ w # 0
  BY WidthAssumption
<1> QED
  BY <1>1, PowersOfTwo, PowersAssumption

LEMMA Remainders ==
    ASSUME NEW b \in Nat \ {0}, NEW a \in Int
    PROVE  a % b \in 0..(b - 1) /\ (a \in 0..(b - 1) => a % b = a)
OBVIOUS

(* int8(v) and its like: always in range, and the identity on that range.  *)
LEMMA Narrowing ==
    ASSUME NEW w \in 1..MaxWidth, NEW n \in Int
    PROVE  /\ WrapSigned(n, w) \in Signed(w) /\ (n \in Signed(w) => WrapSigned(n, w) = n)
           /\ WrapUnsigned(n, w) \in Unsigned(w) /\ (n \in Unsigned(w) => WrapUnsigned(n, w) = n)
<1> DEFINE half == 2 ^ (w - 1)
           all == 2 ^ w
<1>1. half \in Nat \ {0} /\ all = 2 * half /\ all \in Nat \ {0}
  BY HalfOfPower
<1>2. /\ Signed(w) = -half .. (half - 1) /\ Unsigned(w) = 0 .. (all - 1)
      /\ WrapSigned(n, w) = ((n + half) % all) - half /\ WrapUnsigned(n, w) = n % all
  BY DEF Signed, Unsigned, WrapSigned, WrapUnsigned
<1> HIDE DEF half, all
<1>3. /\ (n + half) % all \in 0..(all - 1)
      /\ (n + half \in 0..(all - 1) => (n + half) % all = n + half)
  <2>1. n + half \in Int
    BY <1>1
  <2> QED
    BY <1>1, <2>1, Remainders
<1>4. n % all \in 0..(all - 1) /\ (n \in 0..(all - 1) => n % all = n)
  BY <1>1, Remainders
<1> QED
  BY <1>1, <1>2, <1>3, <1>4
-----------------------------------------------------------------------------
(* Numbers *)

(* What strconv makes of a text.                                           *)
LEMMA ParsedNumbers ==
    ASSUME NEW raw \in Texts
    PROVE  /\ ParseBool[raw] \in {"true", "false", "error"}
           /\ \/ ParseFloat[raw].kind = "finite" /\ ParseFloat[raw].halves \in Int
              \/ ParseFloat[raw] \in {Inf, NaN, NotANumber}
           /\ raw \in Integral => ParseFloat[raw].kind = "finite"
BY StrconvAssumption DEF Finite

LEMMA Kinds ==
    /\ \A h : Finite(h).kind = "finite" /\ Finite(h).halves = h
    /\ Inf.kind = "inf" /\ NaN.kind = "nan" /\ NotANumber.kind = "error"
BY DEF Finite, Inf, NaN, NotANumber

(* Go truncates towards zero, and there is one way to do so.               *)
LEMMA Truncating ==
    ASSUME NEW f, f.halves \in Int
    PROVE  /\ Truncated(f) \in Int /\ IsTruncation(Truncated(f), f.halves)
           /\ \A n \in Int : IsTruncation(n, f.halves) => n = Truncated(f)
<1> DEFINE h == f.halves
<1>1. h >= 0 => Truncated(f) = h \div 2
  BY DEF Truncated
<1>2. ~(h >= 0) => Truncated(f) = -((-h) \div 2)
  BY DEF Truncated
<1> HIDE DEF h
<1>3. /\ h \div 2 \in Int /\ h \in {2 * (h \div 2), 2 * (h \div 2) + 1}
      /\ (-h) \div 2 \in Int /\ -h \in {2 * ((-h) \div 2), 2 * ((-h) \div 2) + 1}
  BY DEF h
<1>4. /\ Truncated(f) \in Int /\ IsTruncation(Truncated(f), h)
      /\ \A n \in Int : IsTruncation(n, h) => n = Truncated(f)
  BY <1>1, <1>2, <1>3 DEF IsTruncation, h
<1> QED
  BY <1>4 DEF h

(* A spelling of a truth value means 1 or 0, also where it is a number.    *)
LEMMA Meanings ==
    ASSUME NEW raw \in Texts
    PROVE  /\ IsNumber(ParseFloat[raw]) => Meaning(raw) = ParseFloat[raw]
           /\ ParseBool[raw] = "true" => Meaning(raw) = Finite(2)
           /\ ParseBool[raw] = "false" => Meaning(raw) = Finite(0)
           /\ Meaning(raw).kind = "finite" => Meaning(raw).halves \in Int
<1>1. /\ ParseBool[raw] = "true" => ParseFloat[raw] \in {Finite(2), NotANumber}
      /\ ParseBool[raw] = "false" => ParseFloat[raw] \in {Finite(0), NotANumber}
  BY StrconvAssumption
<1>2. IsNumber(ParseFloat[raw]) <=> ParseFloat[raw].kind # "error"
  BY DEF IsNumber
<1>3. IsNumber(ParseFloat[raw]) => Meaning(raw) = ParseFloat[raw]
  BY DEF Meaning
<1>4. ParseBool[raw] = "true" => Meaning(raw) = Finite(2)
  BY <1>1, <1>2, <1>3, Kinds DEF Meaning
<1>5. ParseBool[raw] = "false" => Meaning(raw) = Finite(0)
  BY <1>1, <1>2, <1>3, Kinds DEF Meaning
<1>6. Meaning(raw).kind = "finite" => Meaning(raw).halves \in Int
  <2>1. Meaning(raw) \in {ParseFloat[raw], Finite(2), Finite(0), NotANumber}
    BY DEF Meaning
  <2> QED
    BY <2>1, ParsedNumbers, Kinds
<1> QED
  BY <1>3, <1>4, <1>5, <1>6

LEMMA WiderLimits ==
    ASSUME NEW w \in 1..MaxWidth
    PROVE  Signed(w) \subseteq Signed(MaxWidth) /\ Unsigned(w) \subseteq Unsigned(MaxWidth)
           /\ Signed(MaxWidth) \subseteq Int /\ Unsigned(MaxWidth) \subseteq Int
<1>1. /\ MaxWidth \in 1..MaxWidth /\ w - 1 \in 0..MaxWidth /\ MaxWidth - 1 \in 0..MaxWidth
      /\ w - 1 <= MaxWidth - 1 /\ w \in 0..MaxWidth /\ MaxWidth \in 0..MaxWidth /\ w <= MaxWidth
  BY WidthAssumption
<1>2. 2 ^ (w - 1) <= 2 ^ (MaxWidth - 1) /\ 2 ^ w <= 2 ^ MaxWidth
  BY <1>1, PowersGrow
<1>3. {2 ^ (w - 1), 2 ^ (MaxWidth - 1), 2 ^ w, 2 ^ MaxWidth} \subseteq Nat
  BY <1>1, PowersOfTwo
<1> QED
  BY <1>2, <1>3 DEF Signed, Unsigned

(* n is what the text means without its fraction, if that is in range.     *)
Represents(n, raw, range) ==
    /\ n \in Int
    /\ Meaning(raw).kind = "finite" /\ Truncated(Meaning(raw)) \in range =>
          n = Truncated(Meaning(raw))

LEMMA TruthValues ==
    ASSUME NEW raw \in Texts, NEW n \in BoolAsInt(raw), NEW range
    PROVE  Represents(n, raw, range)
<1>1. \/ ParseBool[raw] = "true" /\ n = 1
      \/ ParseBool[raw] = "false" /\ n = 0
  BY DEF BoolAsInt
<1>2. Truncated(Finite(2)) = 1 /\ Truncated(Finite(0)) = 0
  BY Kinds DEF Truncated
<1> QED
  BY <1>1, <1>2, Meanings DEF Represents

(* The fallback to a float gives some integer, and the right one unless    *)
(* that has no place among the widest integers.                            *)
LEMMA FloatsAsInts ==
    ASSUME NEW raw \in Texts, NEW low, NEW high, NEW wide \in SUBSET Int,
           NEW n \in FloatAsInt(ParseFloat[raw], low, high, wide),
           NEW range \in SUBSET wide
    PROVE  Represents(n, raw, range)
<1> DEFINE f == ParseFloat[raw]
<1>1. /\ f.kind \in {"nan", "finite"}
      /\ f.kind = "nan" => n \in Undefined(wide)
      /\ f.kind = "finite" => n \in IF Truncated(f) \in wide THEN {Truncated(f)} ELSE Undefined(wide)
  BY DEF FloatAsInt
<1>2. Undefined(wide) \subseteq Int
  BY DEF Undefined
<1>3. Meaning(raw) = f
  BY <1>1, Meanings DEF IsNumber
<1>4. n \in Int
  BY <1>1, <1>2
<1>5. f.kind = "finite" /\ Truncated(f) \in range => n = Truncated(f)
  BY <1>1
<1> QED
  BY <1>3, <1>4, <1>5 DEF Represents

LEMMA Coercions ==
    ASSUME NEW raw \in Texts, NEW w \in 1..MaxWidth
    PROVE  /\ \A n \in CoerceToInt(raw, w) : Represents(n, raw, Signed(w))
           /\ \A n \in CoerceToUint(raw, w) : Represents(n, raw, Unsigned(w))
<1> DEFINE t == Truncated(ParseFloat[raw])
<1>1. raw \in Integral => /\ t \in Int /\ \A range : Represents(t, raw, range)
  <2> SUFFICES ASSUME raw \in Integral PROVE t \in Int /\ \A range : Represents(t, raw, range)
    OBVIOUS
  <2>1. ParseFloat[raw].kind = "finite" /\ ParseFloat[raw].halves \in Int
    BY ParsedNumbers, Kinds
  <2>2. t \in Int /\ Meaning(raw) = ParseFloat[raw]
    BY <2>1, Truncating, Meanings DEF IsNumber
  <2> QED
    BY <2>2 DEF Represents
<1>2. Signed(w) \in SUBSET Signed(MaxWidth) /\ Signed(MaxWidth) \in SUBSET Int
      /\ Unsigned(w) \in SUBSET Unsigned(MaxWidth) /\ Unsigned(MaxWidth) \in SUBSET Int
  BY WiderLimits
<1>3. ASSUME NEW n \in CoerceToInt(raw, w) PROVE Represents(n, raw, Signed(w))
  <2>1. \/ raw \in Integral /\ n = t
        \/ n \in BoolAsInt(raw)
        \/ n \in FloatAsInt(ParseFloat[raw], -(2 ^ (MaxWidth - 1)), 2 ^ (MaxWidth - 1), Signed(MaxWidth))
    BY <1>3 DEF CoerceToInt, OrElse
  <2> QED
    BY <1>1, <1>2, <2>1, TruthValues, FloatsAsInts
<1>4. ASSUME NEW n \in CoerceToUint(raw, w) PROVE Represents(n, raw, Unsigned(w))
  <2>1. \/ raw \in Integral /\ n = t
        \/ n \in BoolAsInt(raw)
        \/ n \in FloatAsInt(ParseFloat[raw], 0, 2 ^ MaxWidth, Unsigned(MaxWidth))
    BY <1>4 DEF CoerceToUint, OrElse
  <2> QED
    BY <1>1, <1>2, <2>1, TruthValues, FloatsAsInts
<1> QED
  BY <1>3, <1>4

-----------------------------------------------------------------------------
(* Values *)

LEMMA TypeNames ==
    /\ SignedTypes \cap UnsignedTypes = {}
    /\ {"boolean", "string", "int", "other", "float", "double"}
          \cap (SignedTypes \cup UnsignedTypes) = {}
BY WidthAssumption

LEMMA Fields ==
    /\ \A t, n : Value(t, n).type = t /\ Value(t, n).is = n
    /\ \A raw : Text(raw).type = "string"
    /\ \A b : Bool(b).type = "boolean"
BY DEF Value, Text, Bool

(* The branches of ConvertWriteValue are for different types.              *)
LEMMA Branches ==
    ASSUME NEW raw, NEW t \in Types
    PROVE  /\ t = "boolean" => ConvertWriteValue(raw, t) = ToBoolean(raw)
           /\ t \in SignedTypes =>
                 ConvertWriteValue(raw, t) =
                     {Value(t, Finite(2 * WrapSigned(n, SignedWidth[t])))
                         : n \in CoerceToInt(raw, SignedWidth[t])}
           /\ t \in UnsignedTypes =>
                 ConvertWriteValue(raw, t) =
                     {Value(t, Finite(2 * WrapUnsigned(n, UnsignedWidth[t])))
                         : n \in CoerceToUint(raw, UnsignedWidth[t])}
           /\ t \in FloatTypes => ConvertWriteValue(raw, t) = ToFloat(raw, t)
           /\ t = "string" => ConvertWriteValue(raw, t) = {Text(raw)}
           /\ t \in {"int", "other"} => ConvertWriteValue(raw, t) = AutoConvert(raw)
BY TypeNames, Zenon DEF ConvertWriteValue, FloatTypes

LEMMA Boolish ==
    ASSUME NEW raw \in Texts, ParseBool[raw] # "error"
    PROVE  /\ Bool(ParseBool[raw] = "true") = Bool(Meaning(raw) # Finite(0))
           /\ \A n \in BoolAsInt(raw) : Finite(2 * n) = Meaning(raw)
<1>1. \/ ParseBool[raw] = "true" /\ Meaning(raw) = Finite(2) /\ BoolAsInt(raw) = {1}
      \/ ParseBool[raw] = "false" /\ Meaning(raw) = Finite(0) /\ BoolAsInt(raw) = {0}
  BY ParsedNumbers, Meanings DEF BoolAsInt
<1>2. Finite(2) # Finite(0)
  BY Kinds
<1> QED
  BY <1>1, <1>2 DEF Bool

(* What may be wrong with a written value: only that an integer type cannot *)
(* hold what the text means.                                               *)
FaithfulValue(v, raw) ==
    \/ Renders(v, raw)
    \/ v.type \in SignedTypes \cup UnsignedTypes /\ Truncations(raw, v.type) = {}

LEMMA RenderedAs ==
    ASSUME NEW v, NEW raw
    PROVE  /\ v.type = "string" => (Renders(v, raw) <=> v = Text(raw))
           /\ v.type = "boolean" => (Renders(v, raw) <=> v = Bool(Meaning(raw) # Finite(0)))
           /\ v.type \in FloatTypes => (Renders(v, raw) <=> v.is = Meaning(raw))
           /\ v.type \in SignedTypes \cup UnsignedTypes =>
                 (Renders(v, raw) <=> \E n \in Truncations(raw, v.type) : v.is = Finite(2 * n))
BY TypeNames, Zenon DEF Renders, FloatTypes

LEMMA BooleansRender ==
    ASSUME NEW raw \in Texts, NEW v \in ToBoolean(raw)
    PROVE  v.type = "boolean" /\ FaithfulValue(v, raw)
<1>1. v = Bool(Meaning(raw) # Finite(0))
  BY Boolish, Meanings DEF ToBoolean
<1> QED
  BY <1>1, Fields, RenderedAs DEF FaithfulValue

LEMMA FloatsRender ==
    ASSUME NEW raw \in Texts, NEW t \in FloatTypes, NEW v \in ToFloat(raw, t)
    PROVE  v.type = t /\ FaithfulValue(v, raw) /\ v.is = Meaning(raw)
<1>1. \/ v = Value(t, ParseFloat[raw]) /\ IsNumber(ParseFloat[raw])
      \/ \E n \in BoolAsInt(raw) : v = Value(t, Finite(2 * n))
  BY DEF ToFloat
<1>2. BoolAsInt(raw) # {} => ParseBool[raw] # "error"
  BY DEF BoolAsInt
<1>3. v.type = t /\ v.is = Meaning(raw)
  BY <1>1, <1>2, Boolish, Meanings, Fields
<1> QED
  BY <1>3, RenderedAs DEF FaithfulValue

LEMMA TextsRender ==
    ASSUME NEW raw
    PROVE  Text(raw).type = "string" /\ FaithfulValue(Text(raw), raw)
BY Fields, RenderedAs DEF FaithfulValue

LEMMA GuessesRender ==
    ASSUME NEW raw \in Texts, NEW v \in AutoConvert(raw)
    PROVE  v.type \in {"boolean", "double", "string"} /\ FaithfulValue(v, raw)
<1>1. \/ v \in ToBoolean(raw)
      \/ v = Value("double", ParseFloat[raw]) /\ IsNumber(ParseFloat[raw])
      \/ v = Text(raw)
  BY DEF AutoConvert, ToBoolean
<1>2. CASE v = Value("double", ParseFloat[raw]) /\ IsNumber(ParseFloat[raw])
  <2>1. v.type \in FloatTypes /\ v.type = "double" /\ v.is = Meaning(raw)
    BY <1>2, Fields, Meanings DEF FloatTypes
  <2> QED
    BY <2>1, RenderedAs DEF FaithfulValue
<1> QED
  BY <1>1, <1>2, BooleansRender, TextsRender

(* The integers a text means in a type: its truncation, if it is in range. *)
LEMMA TruncationsAre ==
    ASSUME NEW raw \in Texts, NEW t, Limits(t) \subseteq Int
    PROVE  Truncations(raw, t) =
              IF Meaning(raw).kind = "finite" /\ Truncated(Meaning(raw)) \in Limits(t)
              THEN {Truncated(Meaning(raw))} ELSE {}
<1> DEFINE f == Meaning(raw)
<1>1. CASE f.kind = "finite"
  <2>1. /\ Truncated(f) \in Int /\ IsTruncation(Truncated(f), f.halves)
        /\ \A n \in Int : IsTruncation(n, f.halves) => n = Truncated(f)
    BY <1>1, Meanings, Truncating
  <2>2. Truncations(raw, t) = {n \in Limits(t) : IsTruncation(n, f.halves)}
    BY <1>1 DEF Truncations
  <2> HIDE DEF f
  <2>3. Truncations(raw, t) = IF Truncated(f) \in Limits(t) THEN {Truncated(f)} ELSE {}
    BY <2>1, <2>2
  <2> QED
    BY <1>1, <2>3 DEF f
<1>2. CASE f.kind # "finite"
  BY <1>2 DEF Truncations
<1> QED
  BY <1>1, <1>2

LEMMA IntegersRender ==
    ASSUME NEW raw \in Texts, NEW t \in SignedTypes \cup UnsignedTypes,
           NEW v \in ConvertWriteValue(raw, t)
    PROVE  v.type = t /\ FaithfulValue(v, raw)
<1>1. PICK n, k : /\ v = Value(t, Finite(2 * k)) /\ Limits(t) \subseteq Int
                  /\ Represents(n, raw, Limits(t)) /\ (n \in Limits(t) => k = n)
  <2>1. CASE t \in SignedTypes
    <3>1. Limits(t) = Signed(SignedWidth[t]) /\ SignedWidth[t] \in 1..MaxWidth
      BY <2>1, WidthAssumption DEF Limits
    <3>2. PICK n \in CoerceToInt(raw, SignedWidth[t]) :
                 v = Value(t, Finite(2 * WrapSigned(n, SignedWidth[t])))
      BY <2>1, Branches DEF Types
    <3>3. Represents(n, raw, Limits(t))
      BY <3>1, Coercions
    <3>4. n \in Int /\ Limits(t) \subseteq Int
      BY <3>1, <3>3, WiderLimits DEF Represents
    <3> QED
      BY <3>1, <3>2, <3>3, <3>4, Narrowing
  <2>2. CASE t \in UnsignedTypes
    <3>1. Limits(t) = Unsigned(UnsignedWidth[t]) /\ UnsignedWidth[t] \in 1..MaxWidth
      BY <2>2, WidthAssumption, TypeNames DEF Limits
    <3>2. PICK n \in CoerceToUint(raw, UnsignedWidth[t]) :
                 v = Value(t, Finite(2 * WrapUnsigned(n, UnsignedWidth[t])))
      BY <2>2, Branches DEF Types
    <3>3. Represents(n, raw, Limits(t))
      BY <3>1, Coercions
    <3>4. n \in Int /\ Limits(t) \subseteq Int
      BY <3>1, <3>3, WiderLimits DEF Represents
    <3> QED
      BY <3>1, <3>2, <3>3, <3>4, Narrowing
  <2> QED
    BY <2>1, <2>2
<1>2. v.type = t /\ v.is = Finite(2 * k)
  BY <1>1, Fields
<1>3. CASE Truncations(raw, t) = {}
  BY <1>2, <1>3 DEF FaithfulValue
<1>4. CASE Truncations(raw, t) # {}
  <2>1. /\ Meaning(raw).kind = "finite" /\ Truncated(Meaning(raw)) \in Limits(t)
        /\ Truncations(raw, t) = {Truncated(Meaning(raw))}
    BY <1>1, <1>4, TruncationsAre
  <2>2. k \in Truncations(raw, t)
    BY <1>1, <2>1 DEF Represents
  <2> QED
    BY <1>2, <2>2, RenderedAs DEF FaithfulValue
<1> QED
  BY <1>2, <1>3, <1>4

(* A converted value has the type asked for, except where the type is one  *)
(* the conversion does not know and it guesses.                            *)
LEMMA ConvertedTypes ==
    ASSUME NEW raw \in Texts, NEW t \in Types, NEW v \in ConvertWriteValue(raw, t)
    PROVE  /\ t \notin {"int", "other"} => v.type = t
           /\ t \in {"int", "other"} => v.type \in {"boolean", "double", "string"}
           /\ v.type \in Types
<1>1. \/ t = "boolean" \/ t \in SignedTypes \cup UnsignedTypes \/ t \in FloatTypes
      \/ t = "string" \/ t \in {"int", "other"}
  BY DEF Types
<1>2. \/ t \notin {"int", "other"} /\ v.type = t
      \/ t \in {"int", "other"} /\ v.type \in {"boolean", "double", "string"}
  <2>1. CASE t = "boolean"
    BY <2>1, Branches, BooleansRender
  <2>2. CASE t \in SignedTypes \cup UnsignedTypes
    BY <2>2, IntegersRender, TypeNames
  <2>3. CASE t \in FloatTypes
    BY <2>3, Branches, FloatsRender DEF FloatTypes
  <2>4. CASE t = "string"
    BY <2>4, Branches, Fields
  <2>5. CASE t \in {"int", "other"}
    BY <2>5, Branches, GuessesRender
  <2> QED
    BY <1>1, <2>1, <2>2, <2>3, <2>4, <2>5
<1>3. {"boolean", "double", "string"} \subseteq Types
  BY DEF Types, FloatTypes
<1> QED
  BY <1>2, <1>3

(* Whatever the text, the type and the widths: ConvertWriteValue           *)
(* (client.go 846-942) gives what the text means in the type of the value, *)
(* unless that is an integer type that cannot hold it.                     *)
THEOREM ConversionIsFaithful ==
    ASSUME NEW raw \in Texts, NEW t \in Types, NEW v \in ConvertWriteValue(raw, t)
    PROVE  FaithfulValue(v, raw)
<1>1. \/ t = "boolean" \/ t \in SignedTypes \cup UnsignedTypes \/ t \in FloatTypes
      \/ t = "string" \/ t \in {"int", "other"}
  BY DEF Types
<1>2. CASE t = "boolean"
  BY <1>2, Branches, BooleansRender
<1>3. CASE t \in SignedTypes \cup UnsignedTypes
  BY <1>3, IntegersRender
<1>4. CASE t \in FloatTypes
  BY <1>4, Branches, FloatsRender
<1>5. CASE t = "string"
  BY <1>5, Branches, TextsRender
<1>6. CASE t \in {"int", "other"}
  BY <1>6, Branches, GuessesRender
<1> QED
  BY <1>1, <1>2, <1>3, <1>4, <1>5, <1>6
=============================================================================
