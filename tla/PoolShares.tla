----------------------------- MODULE PoolShares -----------------------------
(***************************************************************************)
(* The account pool with a record of who was served: how the picks of      *)
(* module AccountPool are spread over the accounts, and how long an        *)
(* account of the rotation may be passed over.  The three history          *)
(* variables observe the pool and never constrain it.                      *)
(***************************************************************************)
EXTENDS AccountPool

VARIABLES
  picks,         \* picks in the current period of total picks
  served,        \* of which account a was given served[a]
  passed         \* picks given to others since a was picked or entered

sharesVars == <<vars, picks, served, passed>>

SharesInit ==
  /\ Init
  /\ picks = 0
  /\ served = [a \in Accounts |-> 0]
  /\ passed = [a \in Accounts |-> 0]

(* A period is over after total picks; the next pick opens another.        *)
PeriodOver == picks = total

CountPick(a) ==
  /\ PickAccount(a)
  /\ picks' = IF PeriodOver THEN 1 ELSE picks + 1
  /\ served' = [b \in Accounts |->
                  (IF PeriodOver THEN 0 ELSE served[b]) + (IF b = a THEN 1 ELSE 0)]
  /\ passed' = [b \in Accounts |->
                  IF b = a \/ weight[b] = 0 THEN 0 ELSE passed[b] + 1]

(* A change of the rotation opens a new period.                            *)
CountChange(a) ==
  /\ Cooldown(a) \/ Restore(a)
  /\ picks' = 0
  /\ served' = [b \in Accounts |-> 0]
  /\ passed' = [passed EXCEPT ![a] = 0]

SharesNext ==
  \/ PickNothing /\ UNCHANGED <<picks, served, passed>>
  \/ \E a \in Accounts : CountPick(a) \/ CountChange(a)

SharesSpec == SharesInit /\ [][SharesNext]_sharesVars /\ Fairness

----------------------------------------------------------------------------
(* Properties. *)

(* As long as no account ever failed, every period of total picks gives    *)
(* each account exactly its weight; within a period none is ever a whole   *)
(* pick ahead of its weight, nor more than (N-1)/2 picks behind: the       *)
(* traffic is spread by weight however the weights are chosen              *)
(* (pool.go:57-66).  From five accounts on one may well be a whole pick    *)
(* behind: of the weights 1, 1, 1, 6, 6 the last account waits so long.    *)
SpreadByWeight ==
  cooldowns = 0 /\ total > 0 =>
    \A a \in Accounts :
      LET lag == picks * weight[a] - served[a] * total
      IN  /\ -total < lag /\ 2 * lag <= (N - 1) * total
          /\ PeriodOver => lag = 0

(* Cooldowns disturb the round-robin (pool.go:81 forgets what an account   *)
(* is owed or owes), yet what they disturb is bounded: an account of the   *)
(* rotation is passed over for less than one full round of the weights,    *)
(* and one more for each cooldown so far, before it is picked              *)
(* (pool.go:57-66, 71-96).                                                 *)
FullRound == Cardinality(Units(original))

NotStarved ==
  \A a \in Accounts :
    weight[a] > 0 => passed[a] < FullRound * (cooldowns + 1)

=============================================================================
