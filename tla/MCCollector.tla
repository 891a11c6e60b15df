----------------------------- MODULE MCCollector -----------------------------
(***************************************************************************)
(* Collector on small instances.  The .cfg files give the constants; here  *)
(* is the set of symmetric values.                                         *)
(***************************************************************************)
EXTENDS Collector, TLC

WorkerSymmetry == Permutations(Workers)
=============================================================================
