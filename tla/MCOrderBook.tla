---------------------------- MODULE MCOrderBook ----------------------------
(* A small instance of OrderBook for TLC: the first order expires early, and *)
(* POST requests are interchangeable.                                        *)
EXTENDS OrderBook, TLC

MCExpiry == [o \in Orders |-> IF o = 1 THEN 1 ELSE 9]
PostSymmetry == Permutations(Posts)
=============================================================================
