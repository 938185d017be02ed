------------------------------ MODULE MCRelay ------------------------------
(***************************************************************************)
(* An instance of module Relay for TLC.                                    *)
(***************************************************************************)
EXTENDS Relay, TLC

CONSTANTS r1, r2, k1

(* All requests carry one key, and compete for its slots. *)
OneKey == [r \in Requests |-> k1]

(* The first process lets two requests of a key in, the next one only one. *)
TwoThenOne == [n \in 0..MaxCrashes |-> IF n = 0 THEN 2 ELSE 1]

AllModes == {"stream", "forced", "buffered"}

=============================================================================
