---------------------------- MODULE MCOrderBook ----------------------------
(* A small instance of OrderBook for TLC.                                 *)
EXTENDS OrderBook, TLC

CONSTANTS o1, o2, o3, p1, p2

\* One cart with both products, one with two units of a single product.
TwoCarts == {[p \in Products |-> 1], [p \in Products |-> IF p = p1 THEN 2 ELSE 0]}

OrderSymmetry == Permutations(Orders)
=============================================================================
