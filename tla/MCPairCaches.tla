---------------------------- MODULE MCPairCaches ----------------------------
(* Small instances of PairCaches for TLC: p1 is a pair of the top pools, p2  *)
(* is not.                                                                   *)
EXTENDS PairCaches

CONSTANTS p1, p2
=============================================================================
