----------------------------- MODULE MCBilling -----------------------------
(***************************************************************************)
(* Instances of modules Billing and Quota for TLC.                         *)
(***************************************************************************)
EXTENDS Quota, TLC

CONSTANTS r1, r2, r3, hour

(* Requests of different sizes, one of a negative max_tokens. *)
Sizes == [r \in Requests |-> IF r = r1 THEN -1 ELSE 2]

(* Those of one size are interchangeable. *)
Alike == Permutations({r2, r3})

CountPlan(on, limits) ==
  [type |-> "count_based", enabled |-> on, quota |-> 0, limits |-> limits]
TokenPlan(on, quota) ==
  [type |-> "token_based", enabled |-> on, quota |-> quota, limits |-> <<>>]

(* A metered plan, on or off, and a plan that limits a window, on or off   *)
(* and with the limit raised; an edit may turn one into the other.         *)
Plans ==
  {TokenPlan(on, 3) : on \in BOOLEAN}
    \cup {CountPlan(on, hour :> 1) : on \in BOOLEAN}
    \cup {CountPlan(TRUE, hour :> 2)}

(* One plan with one window of one request. *)
OneWindow == {CountPlan(TRUE, hour :> 1)}

=============================================================================
