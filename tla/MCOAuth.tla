------------------------------ MODULE MCOAuth ------------------------------
(***************************************************************************)
(* Instance of module OAuth for TLC.                                       *)
(***************************************************************************)
EXTENDS OAuth, TLC

CONSTANTS s1, g1, g2, e1, e2, a1, r1, r2

(* Grants, calls, accounts and requests are interchangeable. *)
Alike == Permutations(Grants) \cup Permutations(Editors)
           \cup Permutations(Accounts) \cup Permutations(Requests)

=============================================================================
