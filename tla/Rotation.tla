------------------------------ MODULE Rotation ------------------------------
(***************************************************************************)
(* What the pool of upstream accounts of one channel promises to the       *)
(* request handlers: an account that fails leaves the rotation for a       *)
(* while, comes back by itself, and a pick answers with an account exactly *)
(* when the rotation is not empty.  Accounts that were unusable when the   *)
(* pool was built never enter it.  The module says nothing of weights.     *)
(***************************************************************************)

CONSTANTS
  Accounts,      \* the accounts of the channel
  NoAccount      \* the answer of a pick that finds nothing

ASSUME NoAccountAssumption == NoAccount \notin Accounts

VARIABLES
  rotation,      \* the accounts requests are spread over
  cooling        \* the accounts waiting for the end of a cooldown

rotationVars == <<rotation, cooling>>

(***************************************************************************)
(* The answers a pick may give.  A non-empty rotation promises an account, *)
(* not that the account is in the rotation: after a cooldown has reset one *)
(* current weight to 0 (pool.go:81) the others may all be negative, and    *)
(* the account that is cooling down, of weight 0, is the greatest.         *)
(***************************************************************************)
Answers == IF rotation = {} THEN {NoAccount} ELSE Accounts

(* A pool is built from the accounts enabled and not cooling down. *)
RotationInit ==
  /\ rotation \in SUBSET Accounts
  /\ cooling = {}

(* An upstream failure takes an account out of the rotation; an account    *)
(* that is already out is left as it is.                                   *)
TakeOut(a) ==
  /\ rotation' = rotation \ {a}
  /\ cooling' = IF a \in rotation THEN cooling \cup {a} ELSE cooling

(* The end of a cooldown. *)
PutBack(a) ==
  /\ a \in cooling
  /\ rotation' = rotation \cup {a}
  /\ cooling' = cooling \ {a}

RotationNext == \E a \in Accounts : TakeOut(a) \/ PutBack(a)

RotationSpec == RotationInit /\ [][RotationNext]_rotationVars

=============================================================================
