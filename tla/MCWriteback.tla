----------------------------- MODULE MCWriteback -----------------------------
(***************************************************************************)
(* Writeback on small instances: integers of 3 and 5 bits in place of 8 to *)
(* 64, and texts that meet every branch of the conversions.                *)
(***************************************************************************)
EXTENDS Writeback, TLC

MCTexts == {"1", "true", "-1.5", "6", "16", "99", "NaN"}

MCParseBool == [t \in MCTexts |-> IF t \in {"1", "true"} THEN "true" ELSE "error"]

MCParseFloat ==
    "1" :> Finite(2) @@ "-1.5" :> Finite(-3) @@ "6" :> Finite(12) @@ "16" :> Finite(32)
    @@ "99" :> Finite(198) @@ "NaN" :> NaN @@ "true" :> NotANumber

MCIntegral == {"1", "6", "16", "99"}

MCSignedWidth == [int16 |-> 3, int64 |-> 5]
MCUnsignedWidth == [byte |-> 3]

MCNodeType == [n1 |-> "int16", n2 |-> "double"]

C(node, raw, type) == [node |-> node, raw |-> raw, type |-> type]

(* What people send: no type, the right one, one of the same family, of    *)
(* another family, an alias the conversion does not know.                  *)
MCCommandSet ==
    {C("n1", "1", ""), C("n1", "6", "int64"), C("n1", "-1.5", "boolean"), C("n1", "true", "byte"),
     C("n2", "99", "int16"), C("n2", "16", "int"), C("n2", "NaN", "double"), C("", "1", "")}

(* Numbers in range and out of it, for the node's own types.               *)
MCIntegerCommands ==
    {C("n1", raw, type) : raw \in {"1", "6", "16"}, type \in {"", "int64"}}
=============================================================================
