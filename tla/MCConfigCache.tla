--------------------------- MODULE MCConfigCache ---------------------------
(***************************************************************************)
(* ConfigCache for TLC: processes and writes are model values.             *)
(***************************************************************************)
EXTENDS ConfigCache, TLC

CONSTANTS p1, p2, w1, w2

ConfigSymmetry == Permutations({p1, p2}) \cup Permutations({w1, w2})
=============================================================================
