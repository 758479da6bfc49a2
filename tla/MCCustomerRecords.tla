-------------------------- MODULE MCCustomerRecords --------------------------
(* Small instances of CustomerRecords for TLC.                             *)
EXTENDS CustomerRecords, TLC

CONSTANTS k1, k2, a1, a2, a3, a4, b1, b2
=============================================================================
