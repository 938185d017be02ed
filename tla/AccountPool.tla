---------------------------- MODULE AccountPool ----------------------------
(***************************************************************************)
(* The weighted account pool of one channel (internal/relay/pool.go):      *)
(* smooth weighted round-robin over an ordered list of accounts, with a    *)
(* cooldown that sets an account's weight to 0 and a timer that restores   *)
(* it.  Every operation holds the pool's mutex from its first line to its  *)
(* last, so each is one action.  The life of one pool object is modelled:  *)
(* a refresh of the channel builds another object and leaves this one to   *)
(* the requests and timers that still hold it.                             *)
(***************************************************************************)
EXTENDS Integers, FiniteSets, UnitCounts

CONSTANTS
  N,             \* how many accounts the pool holds, in list order 1..N
  MaxWeight,     \* the largest weight an administrator gives an account
  NoAccount,     \* what Pick answers when the pool has no weight left
  MaxCooldowns   \* bound of the model: cooldowns in one behaviour

ASSUME PoolAssumption ==
  /\ N \in Nat
  /\ MaxWeight \in Nat
  /\ MaxCooldowns \in Nat
  /\ NoAccount \notin 1..N

Accounts == 1..N
Weights  == 0..MaxWeight

VARIABLES
  original,      \* OriginalWeight of every account: the weight in its row
  weight,        \* Weight: 0 while the account is out of the rotation
  current,       \* CurrentWeight of the smooth round-robin
  total,         \* totalWeight, maintained by addition and subtraction
  timers,        \* pending time.AfterFunc callbacks of every account
  picked,        \* history: the last answer of Pick
  cooldowns      \* history: cooldowns so far, to bound the model

vars == <<original, weight, current, total, timers, picked, cooldowns>>

(* The units of weight in w; their number is the sum of the weights.       *)
Units(w) == UnitsOver(Accounts, MaxWeight, w)

----------------------------------------------------------------------------

(* NewAccountPool: an account whose row says it still cools down starts    *)
(* with weight 0 but keeps its weight as the original one.                 *)
Init ==
  /\ original \in [Accounts -> Weights]
  /\ \E excluded \in SUBSET Accounts :
       weight = [a \in Accounts |-> IF a \in excluded THEN 0 ELSE original[a]]
  /\ current = [a \in Accounts |-> 0]
  /\ total = Cardinality(Units(weight))
  /\ timers = [a \in Accounts |-> 0]
  /\ picked = NoAccount
  /\ cooldowns = 0

(* The current weights after the loop of Pick has added every weight. *)
Raised == [a \in Accounts |-> current[a] + weight[a]]

(* The loop keeps the first account whose raised weight is strictly the    *)
(* greatest so far: among equals the earliest in the list wins.            *)
IsBest(a) ==
  \A b \in Accounts : /\ Raised[b] <= Raised[a]
                      /\ Raised[b] = Raised[a] => a <= b

(* Pick, with nothing to pick from. *)
PickNothing ==
  /\ total = 0
  /\ picked' = NoAccount
  /\ UNCHANGED <<original, weight, current, total, timers, cooldowns>>

(* Slip: the account picked does not pay for its turn. *)
PickUnpaid(a) ==
  /\ total # 0
  /\ IsBest(a)
  /\ current' = Raised
  /\ picked' = a
  /\ UNCHANGED <<original, weight, total, timers, cooldowns>>

(* Pick, answering account a. *)
PickAccount(a) ==
  /\ total # 0
  /\ IsBest(a)
  /\ current' = [Raised EXCEPT ![a] = @ - total]
  /\ picked' = a
  /\ UNCHANGED <<original, weight, total, timers, cooldowns>>

Pick == PickNothing \/ \E a \in Accounts : PickAccount(a)

(* Slip: an account already out is cooled down again. *)
CooldownAgain(a) ==
  /\ cooldowns < MaxCooldowns
  /\ total' = total - original[a]
  /\ weight' = [weight EXCEPT ![a] = 0]
  /\ current' = [current EXCEPT ![a] = 0]
  /\ timers' = [timers EXCEPT ![a] = @ + 1]
  /\ cooldowns' = cooldowns + 1
  /\ UNCHANGED <<original, picked>>

(* Cooldown of an account: out of the rotation, and a timer to restore it. *)
(* An account of weight 0 is already cooled down and is skipped.           *)
Cooldown(a) ==
  /\ cooldowns < MaxCooldowns
  /\ weight[a] # 0
  /\ total' = total - weight[a]
  /\ weight' = [weight EXCEPT ![a] = 0]
  /\ current' = [current EXCEPT ![a] = 0]
  /\ timers' = [timers EXCEPT ![a] = @ + 1]
  /\ cooldowns' = cooldowns + 1
  /\ UNCHANGED <<original, picked>>

(* Slip: the timer restores the total, not the account. *)
RestoreTotal(a) ==
  /\ timers[a] > 0
  /\ timers' = [timers EXCEPT ![a] = @ - 1]
  /\ total' = total + original[a]
  /\ UNCHANGED <<original, weight, current, picked, cooldowns>>

(* The callback of time.AfterFunc: the account is back with its weight.    *)
Restore(a) ==
  /\ timers[a] > 0
  /\ timers' = [timers EXCEPT ![a] = @ - 1]
  /\ weight' = [weight EXCEPT ![a] = original[a]]
  /\ total' = total + original[a]
  /\ UNCHANGED <<original, current, picked, cooldowns>>

Next ==
  \/ Pick
  \/ \E a \in Accounts : Cooldown(a) \/ Restore(a)

(* The Go runtime fires a timer once its duration has passed; nothing      *)
(* obliges a request to pick or an account to fail.                        *)
Fairness == \A a \in Accounts : WF_vars(Restore(a))

Spec == Init /\ [][Next]_vars

----------------------------------------------------------------------------
(* Properties. *)

(* Type invariant of pool.go:10-21. *)
TypeOK ==
  /\ original \in [Accounts -> Weights]
  /\ weight \in [Accounts -> Weights]
  /\ current \in [Accounts -> Int]
  /\ total \in Nat
  /\ timers \in [Accounts -> Nat]
  /\ picked \in Accounts \cup {NoAccount}
  /\ cooldowns \in 0..MaxCooldowns

(* totalWeight, which Cooldown and the timers adjust in place and nothing  *)
(* ever recomputes, stays the sum of the accounts' weights, so Pick finds  *)
(* the pool empty exactly when no account is in the rotation               *)
(* (pool.go:53, 79, 92).                                                   *)
TotalIsSum == total = Cardinality(Units(weight))

(* An account never has two restore timers, has one only while it is out,  *)
(* and in the rotation it has its full weight: a second failure during a   *)
(* cooldown neither extends it nor makes the weight come back twice        *)
(* (pool.go:76-78, 86-96).                                                 *)
TimerPerCooldown ==
  \A a \in Accounts : /\ timers[a] <= 1
                      /\ timers[a] = 1 => weight[a] = 0 /\ original[a] > 0
                      /\ weight[a] \in {0, original[a]}

(* The pool keeps the promise of module Rotation: accounts leave by a      *)
(* cooldown, come back by its timer, and the ones excluded when the pool   *)
(* was built stay out (pool.go:23-46, 71-100).                             *)
Abstract == INSTANCE Rotation WITH
  rotation <- {a \in Accounts : weight[a] > 0},
  cooling  <- {a \in Accounts : timers[a] > 0}

ImplementsRotation == Abstract!RotationSpec

(* Pick answers with an account exactly when the rotation is not empty     *)
(* (pool.go:53-68): no request is refused while an account is usable.      *)
PickAnswers ==
  [][Pick => picked' \in Abstract!Answers]_vars

(* Every account taken out by a cooldown is eventually back with the       *)
(* weight it had (pool.go:86-96).                                          *)
CooldownEnds ==
  \A a \in Accounts : (timers[a] > 0) ~> (weight[a] = original[a])

=============================================================================
