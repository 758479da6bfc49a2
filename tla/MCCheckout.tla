----------------------------- MODULE MCCheckout -----------------------------
(* Small instances of Checkout for TLC.                                    *)
EXTENDS Checkout, TLC

CONSTANTS o1, o2, k1, c1, c2

BothProducts == [p \in Products |-> 1]

\* A cart with both products and one with two units of the first.
Carts == {BothProducts, [p \in Products |-> IF p = 1 THEN 2 ELSE 0]}
=============================================================================
