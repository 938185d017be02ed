----------------------------- MODULE MCRouting -----------------------------
(***************************************************************************)
(* Instance of module Routing for TLC: one key, for all requests.          *)
(***************************************************************************)
EXTENDS Routing, TLC

CONSTANTS r1, s1, s2, c1, c2, a1, a2

OneToken == [r \in Requests |-> "key"]

(* Channels, accounts, requests and administrators are interchangeable. *)
Alike == Permutations(Channels) \cup Permutations(Accounts)
           \cup Permutations(Requests) \cup Permutations(Admins)

=============================================================================
