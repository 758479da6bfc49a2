---------------------------- MODULE MCSimulator ----------------------------
(* Small instances of Simulator for TLC.                                   *)
EXTENDS Simulator, TLC

CONSTANTS a, b, x

\* The first process is the deployed one, which runs until it is told to stop; the second
\* boots beside it and runs two ticks.
Events == (a :> 3) @@ (b :> 0)
TwoTicks == (a :> 0) @@ (b :> 2)
=============================================================================
