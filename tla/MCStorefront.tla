---------------------------- MODULE MCStorefront ----------------------------
(* Small instances of Storefront for TLC. *)
EXTENDS Storefront, TLC

CONSTANTS s1, s2, p1, p2, p3, p4, p5, p6, k1, k2

Symmetries ==
  Permutations(Sessions) \cup Permutations(Products) \cup Permutations(Customers)
=============================================================================
