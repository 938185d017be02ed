------------------------------ MODULE MCUsers ------------------------------
(***************************************************************************)
(* Instance of module Users for TLC.                                       *)
(***************************************************************************)
EXTENDS Users, TLC

CONSTANTS u1, u2, s1, s2, c1, k1, k2, k3

Worth == [c \in Codes |-> 2]

(* Users, calls and keys are interchangeable. *)
Alike == Permutations({u1, u2}) \cup Permutations({s1, s2}) \cup Permutations({k1, k2, k3})

=============================================================================
