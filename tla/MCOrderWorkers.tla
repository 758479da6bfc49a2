--------------------------- MODULE MCOrderWorkers ---------------------------
(* Small instances of OrderWorkers for TLC.                                *)
EXTENDS OrderWorkers, TLC

CONSTANTS o1, o2, w1, w2, p1, p2

OneProduct == {p1}
OneOfEach == {[p \in Products |-> 1]}

\* Workers with the same program are interchangeable.
WorkerSymmetry == Permutations(Workers)
=============================================================================
