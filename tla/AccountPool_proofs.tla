------------------------- MODULE AccountPool_proofs -------------------------
(***************************************************************************)
(* Theorems about the account pool, for every number of accounts, every    *)
(* assignment of weights and every number of cooldowns.                    *)
(***************************************************************************)
EXTENDS PoolShares, Data_proofs

(* There are finitely many units of weight, and a change of one account's  *)
(* weight changes their number by the difference of its weights.           *)
LEMMA UnitsFinite ==
  ASSUME NEW w \in [Accounts -> Weights]
  PROVE  IsFiniteSet(Units(w)) /\ Cardinality(Units(w)) \in Nat
<1>1. IsFiniteSet(Accounts)
  BY FS_Interval, PoolAssumption DEF Accounts
<1>2. QED
  BY <1>1, UnitsOverFinite, PoolAssumption DEF Units, Weights

LEMMA UnitsExcept ==
  ASSUME NEW w \in [Accounts -> Weights], NEW a \in Accounts, NEW v \in Weights
  PROVE  Cardinality(Units([w EXCEPT ![a] = v])) + w[a] = Cardinality(Units(w)) + v
<1>1. IsFiniteSet(Accounts)
  BY FS_Interval, PoolAssumption DEF Accounts
<1> DEFINE new == [w EXCEPT ![a] = v]
<1>2. /\ MaxWeight \in Nat /\ w \in [Accounts -> 0..MaxWeight]
      /\ new \in [Accounts -> 0..MaxWeight] /\ new[a] = v
      /\ \A b \in Accounts \ {a} : new[b] = w[b]
  BY PoolAssumption DEF Weights
<1>3. Cardinality(UnitsOver(Accounts, MaxWeight, new)) + w[a]
        = Cardinality(UnitsOver(Accounts, MaxWeight, w)) + new[a]
  <2> HIDE DEF new
  <2>1. QED
    BY <1>1, <1>2, UnitsOverExcept
<1>4. QED
  BY <1>2, <1>3 DEF Units

(* The sum of the weights is 0 exactly when every account is out. *)
LEMMA NoUnits ==
  ASSUME NEW w \in [Accounts -> Weights]
  PROVE  Cardinality(Units(w)) = 0 <=> {a \in Accounts : w[a] > 0} = {}
<1>1. IsFiniteSet(Accounts)
  BY FS_Interval, PoolAssumption DEF Accounts
<1>2. QED
  BY <1>1, UnitsOverNone, PoolAssumption DEF Units, Weights

----------------------------------------------------------------------------

(* The inductive invariant: the three invariants of the pool together.     *)
(* TotalIsSum needs TimerPerCooldown: a timer adds the full weight, which  *)
(* is right only because the account has none when it fires.               *)
IInv == TypeOK /\ TotalIsSum /\ TimerPerCooldown

(* A new pool satisfies the invariant. *)
LEMMA InitIInv == Init => IInv
<1> SUFFICES ASSUME Init PROVE IInv
  OBVIOUS
<1>1. weight \in [Accounts -> Weights]
  BY PoolAssumption DEF Init, Weights
<1>2. total \in Nat
  BY <1>1, UnitsFinite DEF Init
<1>3. TypeOK
  BY <1>1, <1>2, PoolAssumption DEF Init, TypeOK
<1>4. TotalIsSum
  BY DEF Init, TotalIsSum
<1>5. TimerPerCooldown
  BY DEF Init, TimerPerCooldown
<1>6. QED
  BY <1>3, <1>4, <1>5 DEF IInv

(* Every operation of the pool preserves the invariant. *)
LEMMA NextIInv == IInv /\ [Next]_vars => IInv'
<1> SUFFICES ASSUME IInv, [Next]_vars
             PROVE  IInv'
  OBVIOUS
<1> USE PoolAssumption DEF IInv
<1>1. CASE PickNothing
  BY <1>1 DEF PickNothing, TypeOK, TotalIsSum, TimerPerCooldown
<1>2. ASSUME NEW a \in Accounts, PickAccount(a)
      PROVE  IInv'
  <2>1. current' \in [Accounts -> Int]
    BY <1>2 DEF PickAccount, Raised, TypeOK, Weights
  <2>2. QED
    BY <1>2, <2>1 DEF PickAccount, TypeOK, TotalIsSum, TimerPerCooldown
<1>3. ASSUME NEW a \in Accounts, Cooldown(a)
      PROVE  IInv'
  <2>1. 0 \in Weights /\ weight[a] \in Weights /\ Weights \subseteq Nat
    BY DEF TypeOK, Weights
  <2>2. weight' \in [Accounts -> Weights]
    BY <1>3, <2>1 DEF Cooldown, TypeOK
  <2>3. Cardinality(Units(weight')) + weight[a] = Cardinality(Units(weight)) + 0
    BY <1>3, <2>1, UnitsExcept DEF Cooldown, TypeOK
  <2>4. Cardinality(Units(weight')) \in Nat
    BY <2>2, UnitsFinite
  <2>5. total' = Cardinality(Units(weight'))
    <3>1. total' = total - weight[a] /\ total = Cardinality(Units(weight))
      BY <1>3 DEF Cooldown, TotalIsSum
    <3>2. weight[a] \in Nat /\ total \in Nat
      BY <2>1 DEF TypeOK
    <3>3. QED
      BY <2>3, <2>4, <3>1, <3>2
  <2>6. TypeOK'
    BY <1>3, <2>2, <2>4, <2>5 DEF Cooldown, TypeOK
  <2>7. TimerPerCooldown'
    <3>1. original[a] \in Nat /\ original[a] > 0 /\ timers[a] = 0
      <4>1. weight[a] # 0 /\ weight[a] = original[a] /\ timers[a] # 1
        BY <1>3 DEF Cooldown, TimerPerCooldown
      <4>2. timers[a] <= 1 /\ timers[a] \in Nat
        BY DEF TypeOK, TimerPerCooldown
      <4>3. original[a] \in Nat
        BY DEF TypeOK, Weights
      <4>4. original[a] # 0
        BY <4>1
      <4>5. original[a] > 0
        BY <4>3, <4>4
      <4>6. timers[a] = 0
        BY <4>1, <4>2
      <4>7. QED
        BY <4>3, <4>5, <4>6
    <3>2. QED
      BY <1>3, <3>1 DEF Cooldown, TypeOK, TimerPerCooldown
  <2>8. QED
    BY <2>5, <2>6, <2>7 DEF TotalIsSum
<1>4. ASSUME NEW a \in Accounts, Restore(a)
      PROVE  IInv'
  <2>1. weight[a] = 0 /\ timers[a] = 1
    BY <1>4 DEF Restore, TypeOK, TimerPerCooldown
  <2>2. original[a] \in Weights /\ Weights \subseteq Nat
    BY DEF TypeOK, Weights
  <2>3. weight' \in [Accounts -> Weights]
    BY <1>4, <2>2 DEF Restore, TypeOK
  <2>4. Cardinality(Units(weight')) + 0 = Cardinality(Units(weight)) + original[a]
    BY <1>4, <2>1, <2>2, UnitsExcept DEF Restore, TypeOK
  <2>5. Cardinality(Units(weight')) \in Nat
    BY <2>3, UnitsFinite
  <2>6. total' = Cardinality(Units(weight'))
    <3>1. total' = total + original[a] /\ total = Cardinality(Units(weight))
      BY <1>4 DEF Restore, TotalIsSum
    <3>2. original[a] \in Nat /\ total \in Nat
      BY <2>2 DEF TypeOK
    <3>3. QED
      BY <2>4, <2>5, <3>1, <3>2
  <2>7. TypeOK'
    BY <1>4, <2>1, <2>3, <2>5, <2>6 DEF Restore, TypeOK
  <2>8. TimerPerCooldown'
    BY <1>4, <2>1 DEF Restore, TypeOK, TimerPerCooldown
  <2>9. QED
    BY <2>6, <2>7, <2>8 DEF TotalIsSum
<1>5. CASE UNCHANGED vars
  BY <1>5 DEF vars, TypeOK, TotalIsSum, TimerPerCooldown
<1>6. QED
  BY <1>1, <1>2, <1>3, <1>4, <1>5 DEF Next, Pick

(* The invariant holds in every state of the pool's life. *)
LEMMA SpecIInv == Spec => []IInv
  BY InitIInv, NextIInv, PTL DEF Spec

(* The state of the pool has the types of pool.go:10-21; in particular the *)
(* total weight, which is only ever adjusted by differences, never falls   *)
(* below 0.                                                                *)
THEOREM PoolTypeOK == Spec => []TypeOK
<1>1. IInv => TypeOK
  BY DEF IInv
<1>2. QED
  BY <1>1, SpecIInv, PTL

(* The total weight is the sum of the accounts' weights whatever the       *)
(* interleaving of picks, failures and restore timers (pool.go:53,79,92).  *)
THEOREM PoolTotalIsSum == Spec => []TotalIsSum
<1>1. IInv => TotalIsSum
  BY DEF IInv
<1>2. QED
  BY <1>1, SpecIInv, PTL

(* An account has at most one restore timer, and only while it is out of   *)
(* the rotation (pool.go:76-96).                                           *)
THEOREM PoolTimerPerCooldown == Spec => []TimerPerCooldown
<1>1. IInv => TimerPerCooldown
  BY DEF IInv
<1>2. QED
  BY <1>1, SpecIInv, PTL

(* A pick answers with an account exactly when the rotation is not empty   *)
(* (pool.go:53-68).                                                        *)
THEOREM PoolPickAnswers == Spec => PickAnswers
<1>1. ASSUME IInv, Pick
      PROVE  picked' \in Abstract!Answers
  <2>1. total = 0 <=> {a \in Accounts : weight[a] > 0} = {}
    BY <1>1, NoUnits DEF IInv, TypeOK, TotalIsSum
  <2>2. QED
    BY <1>1, <2>1 DEF Pick, PickNothing, PickAccount, Abstract!Answers
<1>2. IInv /\ [Next]_vars => [Pick => picked' \in Abstract!Answers]_vars
  BY <1>1
<1>3. QED
  BY <1>2, SpecIInv, PTL DEF Spec, PickAnswers

(* The pool implements the rotation: every operation of the pool is a step *)
(* of module Rotation or leaves the rotation alone.                        *)
THEOREM PoolImplementsRotation == Spec => ImplementsRotation
<1> DEFINE rot  == {a \in Accounts : weight[a] > 0}
           cool == {a \in Accounts : timers[a] > 0}
<1>1. Init => Abstract!RotationInit
  BY DEF Init, Abstract!RotationInit
<1>2. ASSUME IInv, [Next]_vars
      PROVE  [Abstract!RotationNext]_<<rot, cool>>
  <2>1. CASE Pick \/ UNCHANGED vars
    BY <2>1 DEF Pick, PickNothing, PickAccount, vars
  <2>2. ASSUME NEW a \in Accounts, Cooldown(a)
        PROVE  Abstract!TakeOut(a)
    <3>1. a \in rot /\ rot' = rot \ {a}
      BY <1>2, <2>2 DEF IInv, TypeOK, Weights, Cooldown
    <3>2. cool' = cool \cup {a}
      BY <1>2, <2>2 DEF IInv, TypeOK, Cooldown
    <3>3. QED
      BY <3>1, <3>2 DEF Abstract!TakeOut
  <2>3. ASSUME NEW a \in Accounts, Restore(a)
        PROVE  [Abstract!PutBack(a)]_<<rot, cool>>
    <3>1. timers[a] = 1 /\ timers'[a] = 0 /\ weight'[a] = original[a] /\ original[a] > 0
      BY <1>2, <2>3 DEF IInv, TypeOK, TimerPerCooldown, Restore
    <3>2. a \in cool /\ cool' = cool \ {a}
      BY <1>2, <2>3, <3>1 DEF IInv, TypeOK, Restore
    <3>3. rot' = rot \cup {a}
      BY <1>2, <2>3, <3>1 DEF IInv, TypeOK, Restore
    <3>4. QED
      BY <3>2, <3>3 DEF Abstract!PutBack
  <2>4. QED
    BY <1>2, <2>1, <2>2, <2>3 DEF Next, Abstract!RotationNext
<1>3. QED
  BY <1>1, <1>2, SpecIInv, PTL
  DEF Spec, ImplementsRotation, Abstract!RotationSpec, Abstract!rotationVars

----------------------------------------------------------------------------

(* Arithmetic of the spread. *)
LEMMA TimesMonotone ==
  ASSUME NEW a \in Int, NEW b \in Int, a <= b, NEW k \in Nat
  PROVE  k * a <= k * b
  OBVIOUS

LEMMA TimesCancel ==
  ASSUME NEW a \in Int, NEW b \in Int, NEW k \in Nat, k > 0, k * a <= k * b
  PROVE  a <= b
<1>1. CASE b < a
  <2>1. k * (b + 1) <= k * a
    BY <1>1, TimesMonotone
  <2>2. k * (b + 1) = k * b + k
    OBVIOUS
  <2>3. k * b \in Int /\ k * a \in Int
    OBVIOUS
  <2>4. QED
    BY <2>1, <2>2, <2>3
<1>2. QED
  BY <1>1

(* An account that is owed something was served less than its weight. *)
LEMMA OwedNotServed ==
  ASSUME NEW p \in Nat, NEW w \in Nat, NEW s \in Nat, NEW W \in Nat,
         p <= W, p * w - s * W > 0
  PROVE  s < w
<1>1. SUFFICES ASSUME w <= s PROVE FALSE
  OBVIOUS
<1>2. w * p <= w * W
  BY TimesMonotone
<1>3. W * w <= W * s
  BY <1>1, TimesMonotone
<1>4. w * p = p * w /\ w * W = W * w /\ W * s = s * W
  OBVIOUS
<1>5. p * w \in Int /\ W * w \in Int /\ s * W \in Int
  OBVIOUS
<1>6. QED
  BY <1>2, <1>3, <1>4, <1>5

(* A pick of an account outside a set of k accounts, of which none is owed *)
(* more, leaves the set with what it may be owed: A and w are weights, B   *)
(* and s what was served, in the set and to the account picked.            *)
LEMMA OwedOutside ==
  ASSUME NEW p \in Nat, NEW W \in Nat, NEW A \in Nat, NEW B \in Nat,
         NEW w \in Nat, NEW s \in Nat, NEW k \in Nat, NEW n \in Nat, NEW r \in Int,
         k >= 1, k + 1 <= n, A + w <= W,
         (p + 1) * A <= W * B + r * k,
         r = (p + 1) * w - s * W,
         2 * (p * (A + w)) <= (k + 1) * ((n - (k + 1)) * W) + (2 * W) * (B + s)
  PROVE  2 * ((p + 1) * A) <= k * ((n - k) * W) + (2 * W) * B
<1> DEFINE X == (p + 1) * A - W * B
           Y == X + r
           L == (n - (k + 1)) * W
<1>1. X \in Int /\ Y \in Int /\ L \in Int /\ W * B \in Int /\ (p + 1) * A \in Int
  OBVIOUS
<1>2. X <= r * k
  OBVIOUS
<1>3. 2 * Y <= (k + 1) * L + 2 * W
  <2>1. /\ (p + 1) * A = p * A + A /\ (p + 1) * w = p * w + w
        /\ p * (A + w) = p * A + p * w
        /\ (2 * W) * (B + s) = 2 * (W * B) + 2 * (s * W)
    OBVIOUS
  <2>2. /\ p * A \in Int /\ p * w \in Int /\ W * B \in Int /\ s * W \in Int
        /\ (k + 1) * L \in Int
    OBVIOUS
  <2>3. Y = p * A + A - W * B + (p * w + w - s * W)
    BY <2>1
  <2>4. 2 * (p * A + p * w) <= (k + 1) * L + (2 * (W * B) + 2 * (s * W))
    BY <2>1
  <2> HIDE DEF X, Y, L
  <2>5. QED
    BY <2>2, <2>3, <2>4
<1>4. (k + 1) * (2 * X) <= k * (2 * Y)
  <2>1. (k + 1) * (2 * X) = 2 * (k * X) + 2 * X
    BY <1>1
  <2>2. k * (2 * Y) = 2 * (k * X) + 2 * (r * k)
    BY <1>1
  <2>3. k * X \in Int /\ r * k \in Int
    BY <1>1
  <2> HIDE DEF X, Y
  <2>4. QED
    BY <1>1, <1>2, <2>1, <2>2, <2>3
<1>5. k * (2 * Y) <= k * ((k + 1) * L + 2 * W)
  <2> HIDE DEF Y, L
  <2>1. (k + 1) * L + 2 * W \in Int /\ 2 * Y \in Int
    BY <1>1
  <2>2. QED
    BY <1>3, <2>1, TimesMonotone
<1>6. k * ((k + 1) * L + 2 * W) <= (k + 1) * (k * ((n - k) * W))
  <2>1. (n - k) * W = L + W
    OBVIOUS
  <2> HIDE DEF L
  <2>2. (k + 1) * (k * (L + W)) = k * ((k + 1) * L + (k + 1) * W)
    BY <1>1
  <2>3. 2 * W <= (k + 1) * W
    OBVIOUS
  <2>4. (k + 1) * L + 2 * W <= (k + 1) * L + (k + 1) * W
    BY <1>1, <2>3
  <2>5. (k + 1) * L + 2 * W \in Int /\ (k + 1) * L + (k + 1) * W \in Int
    BY <1>1
  <2>6. k * ((k + 1) * L + 2 * W) <= k * ((k + 1) * L + (k + 1) * W)
    BY <2>4, <2>5, TimesMonotone
  <2>7. QED
    BY <2>1, <2>2, <2>6
<1>7. 2 * X <= k * ((n - k) * W)
  <2> DEFINE Z == k * ((n - k) * W)
  <2>1. Z \in Int /\ 2 * X \in Int
    BY <1>1
  <2>2. (k + 1) * (2 * X) <= (k + 1) * Z
    <3>1. /\ (k + 1) * (2 * X) \in Int /\ k * (2 * Y) \in Int
          /\ k * ((k + 1) * L + 2 * W) \in Int /\ (k + 1) * Z \in Int
      BY <1>1, <2>1
    <3> HIDE DEF X, Y, L
    <3>2. QED
      BY <1>4, <1>5, <1>6, <3>1
  <2> HIDE DEF X, Z
  <2>3. k + 1 \in Nat /\ k + 1 > 0
    OBVIOUS
  <2>4. QED
    BY <2>1, <2>2, <2>3, TimesCancel DEF Z
<1>8. (2 * W) * B = 2 * (W * B) /\ k * ((n - k) * W) \in Int
  OBVIOUS
<1>9. QED
  BY <1>1, <1>7, <1>8

----------------------------------------------------------------------------

(* What the accounts of S weigh together. *)
Sum(S, f) == Cardinality(UnitsOver(S, MaxWeight, f))

(* While no account failed: p picks of a period gave every account a its   *)
(* s[a]; the current weights c are what each is owed, in units of 1/total  *)
(* of a pick; none was given a whole pick too many; and k accounts         *)
(* together are owed at most k * (N-k) halves of a pick.  The last is what *)
(* keeps a single account from being owed more than (N-1)/2 picks: the one *)
(* that is picked is owed no less than any other.                          *)
ShareOf(w, t, p, s, c) ==
  /\ p \in 0..t
  /\ s \in [Accounts -> Weights]
  /\ c \in [Accounts -> Int]
  /\ Cardinality(Units(s)) = p
  /\ \A a \in Accounts : c[a] = p * w[a] - s[a] * t
  /\ \A a \in Accounts : -t < c[a]
  /\ \A S \in SUBSET Accounts :
       2 * (p * Sum(S, w)) <= Cardinality(S) * ((N - Cardinality(S)) * t) + (2 * t) * Sum(S, s)

Share(p, s, c) == ShareOf(weight, total, p, s, c)

None == [a \in Accounts |-> 0]

(* The inductive invariant of the spread. *)
SharesIInv ==
  /\ IInv
  /\ cooldowns = 0 => /\ \A a \in Accounts : timers[a] = 0
                      /\ total > 0 => Share(picks, served, current)

(* Sums over sets of accounts. *)
LEMMA AccountsFinite == IsFiniteSet(Accounts) /\ Cardinality(Accounts) = N
  BY FS_Interval, PoolAssumption DEF Accounts

LEMMA AccountSets ==
  ASSUME NEW S \in SUBSET Accounts
  PROVE  IsFiniteSet(S) /\ Cardinality(S) \in Nat /\ Cardinality(S) <= N
  BY AccountsFinite, FS_Subset, FS_CardinalityType

LEMMA SumType ==
  ASSUME NEW S \in SUBSET Accounts, NEW f \in [Accounts -> Weights]
  PROVE  Sum(S, f) \in Nat /\ Sum(S, f) <= Sum(Accounts, f)
<1>1. UnitsOver(S, MaxWeight, f) \in SUBSET Units(f)
  BY DEF UnitsOver, Units
<1>2. IsFiniteSet(Units(f))
  BY UnitsFinite
<1>3. QED
  BY <1>1, <1>2, FS_Subset, FS_CardinalityType DEF Sum, Units

LEMMA SumAdd ==
  ASSUME NEW S \in SUBSET Accounts, NEW a \in Accounts, a \notin S,
         NEW f \in [Accounts -> Weights]
  PROVE  Sum(S \cup {a}, f) = Sum(S, f) + f[a]
<1>1. IsFiniteSet(S) /\ MaxWeight \in Nat /\ f \in [Accounts -> 0..MaxWeight]
  BY AccountSets, PoolAssumption DEF Weights
<1>2. QED
  BY <1>1, UnitsOverAdd DEF Sum

(* One more pick for account a. *)
LEMMA SumExcept ==
  ASSUME NEW S \in SUBSET Accounts, NEW f \in [Accounts -> Weights],
         NEW a \in Accounts, f[a] + 1 \in Weights
  PROVE  Sum(S, [f EXCEPT ![a] = @ + 1]) = Sum(S, f) + (IF a \in S THEN 1 ELSE 0)
<1> DEFINE g == [f EXCEPT ![a] = @ + 1]
<1>1. /\ g \in [Accounts -> Weights] /\ g[a] = f[a] + 1 /\ f[a] \in Nat
      /\ \A b \in Accounts \ {a} : g[b] = f[b]
  BY DEF Weights
<1>2. Sum(S, f) \in Nat /\ Sum(S, g) \in Nat
  BY <1>1, SumType
<1>3. CASE a \in S
  <2> DEFINE f2 == [b \in S |-> f[b]]
             g2 == [b \in S |-> g[b]]
  <2>1. f2 \in [S -> 0..MaxWeight] /\ g2 \in [S -> 0..MaxWeight]
    BY <1>1 DEF Weights
  <2>2. g2[a] = f2[a] + 1 /\ f2[a] \in Nat /\ \A b \in S \ {a} : g2[b] = f2[b]
    BY <1>1, <1>3
  <2>3. /\ UnitsOver(S, MaxWeight, f) = UnitsOver(S, MaxWeight, f2)
        /\ UnitsOver(S, MaxWeight, g) = UnitsOver(S, MaxWeight, g2)
    BY DEF UnitsOver
  <2>4. IsFiniteSet(S) /\ MaxWeight \in Nat
    BY AccountSets, PoolAssumption
  <2>5. Cardinality(UnitsOver(S, MaxWeight, g2)) + f2[a]
          = Cardinality(UnitsOver(S, MaxWeight, f2)) + g2[a]
    <3> HIDE DEF f2, g2
    <3>1. QED
      BY <1>3, <2>1, <2>2, <2>4, UnitsOverExcept
  <2>6. Sum(S, g) + f2[a] = Sum(S, f) + g2[a]
    BY <2>3, <2>5 DEF Sum
  <2> HIDE DEF f2, g2, g
  <2>7. Sum(S, g) = Sum(S, f) + 1
    BY <1>2, <2>2, <2>6
  <2>8. QED
    BY <1>3, <2>7 DEF g
<1>4. CASE a \notin S
  <2>1. UnitsOver(S, MaxWeight, f) = UnitsOver(S, MaxWeight, g)
    BY <1>1, <1>4 DEF UnitsOver
  <2>2. Sum(S, g) = Sum(S, f)
    BY <2>1 DEF Sum
  <2> HIDE DEF g
  <2>3. QED
    BY <1>2, <1>4, <2>2 DEF g
<1>5. QED
  BY <1>3, <1>4

(* A period begins with nothing picked and nothing owed. *)
LEMMA ShareBegins ==
  ASSUME IInv, \A a \in Accounts : current[a] = 0, total > 0
  PROVE  Share(0, None, current)
<1>1. /\ None \in [Accounts -> Weights] /\ current \in [Accounts -> Int]
      /\ weight \in [Accounts -> Weights] /\ total \in Nat /\ Weights \subseteq Nat
  BY PoolAssumption DEF None, Weights, IInv, TypeOK
<1>2. Cardinality(Units(None)) = 0
  BY <1>1, NoUnits DEF None
<1>3. ASSUME NEW a \in Accounts
      PROVE  current[a] = 0 * weight[a] - None[a] * total
  <2>1. current[a] = 0 /\ None[a] = 0 /\ weight[a] \in Nat
    BY <1>1 DEF None
  <2>2. QED
    BY <1>1, <2>1
<1>4. ASSUME NEW S \in SUBSET Accounts
      PROVE  2 * (0 * Sum(S, weight))
               <= Cardinality(S) * ((N - Cardinality(S)) * total) + (2 * total) * Sum(S, None)
  <2>1. Sum(S, weight) \in Nat /\ Sum(S, None) \in Nat
    BY <1>1, SumType
  <2>2. Cardinality(S) \in Nat /\ N - Cardinality(S) \in Nat
    BY AccountSets, PoolAssumption
  <2> DEFINE k == Cardinality(S)
             A == Sum(S, weight)
             B == Sum(S, None)
             L == N - Cardinality(S)
  <2>3. A \in Nat /\ B \in Nat /\ k \in Nat /\ L \in Nat
    BY <2>1, <2>2
  <2> HIDE DEF k, A, B, L
  <2>4. L * total \in Nat
    BY <1>1, <2>3
  <2>5. k * (L * total) \in Nat
    BY <2>3, <2>4
  <2>6. (2 * total) * B \in Nat
    BY <1>1, <2>3
  <2>7. 2 * (0 * A) = 0
    BY <2>3
  <2>8. 2 * (0 * A) <= k * (L * total) + (2 * total) * B
    BY <2>5, <2>6, <2>7
  <2>9. QED
    BY <2>8 DEF k, A, B, L
<1>5. 0 \in 0..total
  BY <1>1
<1>6. \A a \in Accounts : -total < current[a]
  BY <1>1
<1>7. QED
  BY <1>1, <1>2, <1>3, <1>4, <1>5, <1>6 DEF Share, ShareOf

(* When total picks are made every account was given its weight: none was  *)
(* given more, and together they were given the sum of the weights.        *)
LEMMA ShareEnds ==
  ASSUME IInv, total > 0, NEW s, NEW c, Share(total, s, c)
  PROVE  s = weight /\ \A a \in Accounts : c[a] = 0
<1>1. /\ weight \in [Accounts -> Weights] /\ s \in [Accounts -> Weights] /\ total \in Nat
      /\ Weights \subseteq Nat /\ Cardinality(Units(s)) = total
      /\ Cardinality(Units(weight)) = total
  BY DEF Weights, IInv, TypeOK, TotalIsSum, Share, ShareOf
<1>2. ASSUME NEW a \in Accounts
      PROVE  s[a] <= weight[a]
  <2>1. weight[a] \in Nat /\ s[a] \in Nat
    BY <1>1
  <2>2. -total < total * weight[a] - s[a] * total
    BY DEF Share, ShareOf
  <2>3. (total * (weight[a] + 1)) - s[a] * total > 0
    <3>1. total * (weight[a] + 1) = total * weight[a] + total
      BY <1>1, <2>1
    <3>2. total * weight[a] \in Int /\ s[a] * total \in Int
      BY <1>1, <2>1
    <3>3. QED
      BY <1>1, <2>2, <3>1, <3>2
  <2>4. s[a] < weight[a] + 1
    BY <1>1, <2>1, <2>3, OwedNotServed
  <2>5. QED
    BY <2>1, <2>4
<1>3. ASSUME NEW a \in Accounts, s[a] # weight[a]
      PROVE  FALSE
  <2>1. s[a] < weight[a] /\ s[a] + 1 \in Weights /\ s[a] \in Nat /\ weight[a] \in Nat
    <3>1. s[a] \in 0..MaxWeight /\ weight[a] \in 0..MaxWeight /\ s[a] <= weight[a]
      BY <1>1, <1>2 DEF Weights
    <3>2. MaxWeight \in Nat
      BY PoolAssumption
    <3>3. s[a] < weight[a] /\ s[a] \in Nat /\ weight[a] \in Nat
      BY <1>3, <3>1, <3>2
    <3>4. s[a] + 1 \in 0..MaxWeight
      BY <3>1, <3>2, <3>3
    <3>5. QED
      BY <3>3, <3>4 DEF Weights
  <2> DEFINE g == [s EXCEPT ![a] = @ + 1]
  <2>2. g \in [Accounts -> Weights]
    BY <1>1, <2>1
  <2>3. \A b \in Accounts : g[b] \in Nat /\ weight[b] \in Nat /\ g[b] <= weight[b]
    <3> TAKE b \in Accounts
    <3>1. CASE b = a
      BY <1>1, <2>1, <3>1
    <3>2. CASE b # a
      <4>1. g[b] = s[b]
        BY <1>1, <3>2
      <4>2. QED
        BY <1>1, <1>2, <4>1
    <3>3. QED
      BY <3>1, <3>2
  <2>4. Sum(Accounts, g) = Sum(Accounts, s) + 1
    BY <1>1, <2>1, SumExcept
  <2>5. Sum(Accounts, g) <= Sum(Accounts, weight)
    <3>1. UnitsOver(Accounts, MaxWeight, g) \in SUBSET Units(weight)
      <4> HIDE DEF g
      <4>1. QED
        BY <2>3, PoolAssumption DEF UnitsOver, Units
    <3> HIDE DEF g
    <3>2. QED
      BY <1>1, <3>1, UnitsFinite, FS_Subset DEF Sum, Units
  <2>6. /\ Sum(Accounts, s) = total /\ Sum(Accounts, weight) = total
    BY <1>1 DEF Sum, Units
  <2> HIDE DEF g
  <2>7. QED
    BY <1>1, <2>4, <2>5, <2>6
<1>4. s = weight
  BY <1>1, <1>3
<1>5. ASSUME NEW a \in Accounts
      PROVE  c[a] = 0
  <2>1. c[a] = total * weight[a] - weight[a] * total
    BY <1>4 DEF Share, ShareOf
  <2>2. weight[a] \in Nat
    BY <1>1
  <2>3. QED
    BY <1>1, <2>1, <2>2
<1>6. QED
  BY <1>4, <1>5

(* A pick within a period keeps the shares: the account picked is owed     *)
(* something, since together the accounts are owed something.              *)
LEMMA SharePick ==
  ASSUME IInv, total > 0, NEW p, NEW s, Share(p, s, current), p < total,
         NEW a \in Accounts, IsBest(a)
  PROVE  Share(p + 1, [s EXCEPT ![a] = @ + 1], [Raised EXCEPT ![a] = @ - total])
<1> DEFINE g == [s EXCEPT ![a] = @ + 1]
           c == [Raised EXCEPT ![a] = @ - total]
           r == Raised[a]
<1>1. /\ weight \in [Accounts -> Weights] /\ s \in [Accounts -> Weights] /\ total \in Nat
      /\ Weights \subseteq Nat /\ p \in Nat /\ p + 1 \in 0..total
      /\ Sum(Accounts, s) = p /\ Sum(Accounts, weight) = total
      /\ current \in [Accounts -> Int] /\ N \in Nat /\ MaxWeight \in Nat
  BY PoolAssumption DEF Weights, IInv, TypeOK, TotalIsSum, Share, ShareOf, Sum, Units
<1>2. ASSUME NEW b \in Accounts
      PROVE  /\ weight[b] \in Nat /\ s[b] \in Nat /\ Raised[b] \in Int
             /\ Raised[b] = (p + 1) * weight[b] - s[b] * total
             /\ Raised[b] > -total
             /\ Raised[b] <= r
  <2>1. weight[b] \in Nat /\ s[b] \in Nat /\ current[b] \in Int
    BY <1>1
  <2>2. Raised[b] = current[b] + weight[b]
    BY DEF Raised
  <2>3. current[b] = p * weight[b] - s[b] * total /\ -total < current[b]
    BY DEF Share, ShareOf
  <2>4. (p + 1) * weight[b] = p * weight[b] + weight[b]
    BY <1>1, <2>1
  <2>5. p * weight[b] \in Int /\ s[b] * total \in Int
    BY <1>1, <2>1
  <2>6. Raised[b] <= r
    BY DEF IsBest
  <2>7. QED
    BY <1>1, <2>1, <2>2, <2>3, <2>4, <2>5, <2>6
<1>3. r \in Int
  BY <1>2
<1>4. ASSUME NEW S \in SUBSET Accounts
      PROVE  (p + 1) * Sum(S, weight) <= total * Sum(S, s) + r * Cardinality(S)
  <2>1. \A b \in S : (p + 1) * weight[b] <= total * s[b] + r
    <3> TAKE b \in S
    <3> DEFINE x == (p + 1) * weight[b]
               y == s[b] * total
    <3>1. x \in Int /\ y \in Int /\ x - y <= r /\ total * s[b] = y
      BY <1>1, <1>2
    <3> HIDE DEF x, y
    <3>2. x <= y + r
      BY <1>3, <3>1
    <3>3. QED
      BY <3>1, <3>2 DEF x
  <2>2. /\ weight \in [Accounts -> 0..MaxWeight] /\ s \in [Accounts -> 0..MaxWeight]
        /\ IsFiniteSet(S) /\ p + 1 \in Nat
    BY <1>1, AccountSets DEF Weights
  <2> HIDE DEF r
  <2>3. QED
    BY <1>1, <1>3, <2>1, <2>2, UnitsOverWeighed DEF Sum
<1>5. r > 0
  <2>1. (p + 1) * total <= total * p + r * N
    BY <1>1, <1>4, AccountsFinite
  <2>2. (p + 1) * total = total * p + total /\ total * p \in Int
    BY <1>1
  <2>3. r * N > 0
    <3> HIDE DEF r
    <3>1. r * N \in Int
      BY <1>1, <1>3
    <3>2. QED
      BY <1>1, <2>1, <2>2, <3>1
  <2> HIDE DEF r
  <2>4. QED
    BY <1>1, <1>3, <2>3
<1>6. s[a] < weight[a]
  <2>1. p + 1 \in Nat /\ p + 1 <= total /\ (p + 1) * weight[a] - s[a] * total > 0
    BY <1>1, <1>2, <1>5
  <2>2. weight[a] \in Nat /\ s[a] \in Nat
    BY <1>2
  <2>3. QED
    BY <1>1, <2>1, <2>2, OwedNotServed
<1>7. s[a] + 1 \in Weights /\ g \in [Accounts -> Weights]
  <2>1. s[a] \in 0..MaxWeight /\ weight[a] \in 0..MaxWeight
    BY <1>1 DEF Weights
  <2>2. s[a] + 1 \in 0..MaxWeight
    BY <1>1, <1>6, <2>1
  <2>3. QED
    BY <1>1, <2>2 DEF Weights
<1>8. \A S \in SUBSET Accounts : Sum(S, g) = Sum(S, s) + (IF a \in S THEN 1 ELSE 0)
  BY <1>1, <1>7, SumExcept
<1>9. Cardinality(Units(g)) = p + 1
  <2>1. Sum(Accounts, g) = p + 1
    BY <1>1, <1>8
  <2> HIDE DEF g
  <2>2. QED
    BY <2>1 DEF Sum, Units
<1>10. c \in [Accounts -> Int]
  <2>1. Raised \in [Accounts -> Int]
    BY <1>2 DEF Raised
  <2>2. QED
    BY <1>1, <1>3, <2>1
<1>11. ASSUME NEW b \in Accounts
       PROVE  c[b] = (p + 1) * weight[b] - g[b] * total /\ -total < c[b]
  <2>1. CASE b = a
    <3>1. c[b] = r - total /\ g[b] = s[a] + 1
      BY <1>1, <2>1 DEF Raised
    <3>2. (s[a] + 1) * total = s[a] * total + total
      BY <1>1, <1>2
    <3>3. (p + 1) * weight[a] \in Int /\ s[a] * total \in Int
      BY <1>1, <1>2
    <3>4. r = (p + 1) * weight[a] - s[a] * total
      BY <1>2
    <3> HIDE DEF c, g, r
    <3>5. QED
      BY <1>1, <1>3, <1>5, <2>1, <3>1, <3>2, <3>3, <3>4
  <2>2. CASE b # a
    <3>1. c[b] = Raised[b] /\ g[b] = s[b]
      BY <1>1, <2>2 DEF Raised
    <3>2. QED
      BY <1>2, <3>1
  <2>3. QED
    BY <2>1, <2>2
<1>12. ASSUME NEW S \in SUBSET Accounts
       PROVE  2 * ((p + 1) * Sum(S, weight))
                <= Cardinality(S) * ((N - Cardinality(S)) * total) + (2 * total) * Sum(S, g)
  <2> DEFINE A == Sum(S, weight)
             B == Sum(S, s)
             k == Cardinality(S)
             G == Sum(S, g)
  <2>1. A \in Nat /\ B \in Nat /\ k \in Nat /\ k <= N /\ A <= total
    BY <1>1, SumType, AccountSets
  <2>2. 2 * (p * A) <= k * ((N - k) * total) + (2 * total) * B
    BY DEF Share, ShareOf
  <2>3. (p + 1) * A <= total * B + r * k
    BY <1>4
  <2>4. CASE a \in S
    <3>1. G = B + 1
      BY <1>8, <2>4
    <3> DEFINE Z == k * ((N - k) * total)
    <3>2. Z \in Int
      BY <1>1, <2>1
    <3> HIDE DEF A, B, k, G, Z
    <3>3. (2 * total) * (B + 1) = (2 * total) * B + 2 * total
      BY <1>1, <2>1
    <3>4. 2 * ((p + 1) * A) = 2 * (p * A) + 2 * A
      BY <1>1, <2>1
    <3>5. (2 * total) * B \in Int /\ p * A \in Int
      BY <1>1, <2>1
    <3>6. 2 * (p * A) <= Z + (2 * total) * B
      BY <2>2 DEF Z
    <3>7. 2 * ((p + 1) * A) <= Z + (2 * total) * G
      BY <1>1, <2>1, <3>1, <3>2, <3>3, <3>4, <3>5, <3>6
    <3>8. QED
      BY <3>7 DEF A, B, k, G, Z
  <2>5. CASE a \notin S /\ S # {}
    <3> DEFINE w == weight[a]
               v == s[a]
    <3>1. G = B
      <4>1. G = B + 0
        <5> HIDE DEF g
        <5>1. QED
          BY <1>8, <2>5
      <4> HIDE DEF G, B
      <4>2. QED
        BY <2>1, <4>1
    <3>2. k >= 1
      BY <2>1, <2>5, AccountSets, FS_EmptySet
    <3>3. S \cup {a} \in SUBSET Accounts /\ Cardinality(S \cup {a}) = k + 1
      BY <2>5, AccountSets, FS_AddElement
    <3>4. k + 1 <= N
      BY <3>3, AccountSets
    <3>5. Sum(S \cup {a}, weight) = A + w /\ Sum(S \cup {a}, s) = B + v
      BY <1>1, <2>5, SumAdd
    <3>6. A + w <= total
      BY <1>1, <3>3, <3>5, SumType
    <3>7. 2 * (p * Sum(S \cup {a}, weight))
            <= Cardinality(S \cup {a}) * ((N - Cardinality(S \cup {a})) * total)
               + (2 * total) * Sum(S \cup {a}, s)
      BY <3>3 DEF Share, ShareOf
    <3>8. 2 * (p * (A + w)) <= (k + 1) * ((N - (k + 1)) * total) + (2 * total) * (B + v)
      BY <3>3, <3>5, <3>7
    <3>9. w \in Nat /\ v \in Nat /\ r = (p + 1) * w - v * total
      BY <1>2
    <3> HIDE DEF A, B, k, w, v, r, G
    <3>10. 2 * ((p + 1) * A) <= k * ((N - k) * total) + (2 * total) * B
      BY <1>1, <1>3, <2>1, <2>3, <3>2, <3>4, <3>6, <3>8, <3>9, OwedOutside
    <3>11. QED
      BY <3>1, <3>10 DEF A, B, k, G
  <2>6. CASE S = {}
    <3>1. A = 0 /\ k = 0 /\ G = 0 /\ B = 0
      BY <1>7, <2>6, FS_EmptySet DEF Sum, UnitsOver
    <3> HIDE DEF A, B, k, G
    <3>2. 2 * ((p + 1) * 0) <= 0 * ((N - 0) * total) + (2 * total) * 0
      BY <1>1
    <3>3. 2 * ((p + 1) * A) <= k * ((N - k) * total) + (2 * total) * G
      BY <3>1, <3>2
    <3>4. QED
      BY <3>3 DEF A, k, G
  <2>7. QED
    BY <2>4, <2>5, <2>6
<1>13. QED
  <2> HIDE DEF g, c, r
  <2>1. Share(p + 1, g, c)
    BY <1>1, <1>7, <1>9, <1>10, <1>11, <1>12 DEF Share, ShareOf
  <2>2. QED
    BY <2>1 DEF g, c

(* The invariant of the spread holds at first and is preserved. *)
LEMMA InitSharesIInv == SharesInit => SharesIInv
<1> SUFFICES ASSUME SharesInit PROVE SharesIInv
  OBVIOUS
<1>1. IInv /\ (\A a \in Accounts : timers[a] = 0 /\ current[a] = 0)
  BY InitIInv DEF SharesInit, Init
<1>2. picks = 0 /\ served = None
  BY DEF SharesInit, None
<1>3. ASSUME total > 0 PROVE Share(picks, served, current)
  BY <1>1, <1>2, <1>3, ShareBegins
<1>4. QED
  BY <1>1, <1>3 DEF SharesIInv

(* Every step of the pool with its histories is a step of the pool. *)
LEMMA SharesSteps == [SharesNext]_sharesVars => [Next]_vars
  BY DEF SharesNext, sharesVars, CountPick, CountChange, Next, Pick

LEMMA NextSharesIInv == SharesIInv /\ [SharesNext]_sharesVars => SharesIInv'
<1> SUFFICES ASSUME SharesIInv, [SharesNext]_sharesVars
             PROVE  SharesIInv'
  OBVIOUS
<1>1. IInv /\ IInv'
  BY NextIInv, SharesSteps DEF SharesIInv
<1>2. CASE PickNothing /\ UNCHANGED <<picks, served, passed>>
  <2>1. total' = 0 /\ cooldowns' = cooldowns /\ timers' = timers
    BY <1>2 DEF PickNothing
  <2>2. QED
    BY <1>1, <2>1 DEF SharesIInv
<1>3. ASSUME NEW a \in Accounts, CountPick(a)
      PROVE  SharesIInv'
  <2>1. /\ total # 0 /\ IsBest(a) /\ current' = [Raised EXCEPT ![a] = @ - total]
        /\ UNCHANGED <<total, weight, timers, cooldowns>>
    BY <1>3 DEF CountPick, PickAccount
  <2>2. total \in Nat /\ total > 0
    BY <1>1, <2>1 DEF IInv, TypeOK
  <2>3. SUFFICES ASSUME cooldowns = 0
                 PROVE  Share(picks, served, current)'
    BY <1>1, <2>1 DEF SharesIInv
  <2>4. Share(picks, served, current)
    BY <2>2, <2>3 DEF SharesIInv
  <2>5. Share(picks, served, current)'
          <=> ShareOf(weight, total, picks', served', [Raised EXCEPT ![a] = @ - total])
    BY <2>1 DEF Share
  <2>6. CASE PeriodOver
    <3>1. served = weight /\ \A b \in Accounts : current[b] = 0
      BY <1>1, <2>2, <2>4, <2>6, ShareEnds DEF PeriodOver
    <3>2. Share(0, None, current)
      BY <1>1, <2>2, <3>1, ShareBegins
    <3>3. Share(0 + 1, [None EXCEPT ![a] = @ + 1], [Raised EXCEPT ![a] = @ - total])
      BY <1>1, <2>1, <2>2, <3>2, SharePick
    <3>4. picks' = 0 + 1 /\ served' = [None EXCEPT ![a] = @ + 1]
      BY <1>3, <2>6 DEF CountPick, None
    <3>5. QED
      BY <2>5, <3>3, <3>4 DEF Share
  <2>7. CASE ~PeriodOver
    <3>1. picks \in Nat /\ picks < total /\ served \in [Accounts -> Weights]
          /\ Weights \subseteq Nat
      BY <2>2, <2>4, <2>7 DEF PeriodOver, Share, ShareOf, Weights
    <3>2. Share(picks + 1, [served EXCEPT ![a] = @ + 1], [Raised EXCEPT ![a] = @ - total])
      BY <1>1, <2>1, <2>2, <2>4, <3>1, SharePick
    <3>3. picks' = picks + 1 /\ served' = [served EXCEPT ![a] = @ + 1]
      <4>1. picks' = picks + 1
        BY <1>3, <2>7 DEF CountPick
      <4>2. served' = [b \in Accounts |-> served[b] + (IF b = a THEN 1 ELSE 0)]
        BY <1>3, <2>7 DEF CountPick
      <4>3. ASSUME NEW b \in Accounts
            PROVE  served'[b] = [served EXCEPT ![a] = @ + 1][b]
        <5>1. served[b] \in Nat
          BY <3>1
        <5>2. CASE b = a
          BY <3>1, <4>2, <5>2
        <5>3. CASE b # a
          BY <3>1, <4>2, <5>1, <5>3
        <5>4. QED
          BY <5>2, <5>3
      <4>4. QED
        BY <3>1, <4>1, <4>2, <4>3
    <3>4. QED
      BY <2>5, <3>2, <3>3 DEF Share
  <2>8. QED
    BY <2>6, <2>7
<1>4. ASSUME NEW a \in Accounts, CountChange(a)
      PROVE  SharesIInv'
  <2>1. CASE Cooldown(a)
    <3>1. cooldowns' # 0
      BY <1>1, <2>1 DEF Cooldown, IInv, TypeOK
    <3>2. QED
      BY <1>1, <3>1 DEF SharesIInv
  <2>2. CASE Restore(a)
    <3>1. timers[a] > 0 /\ cooldowns' = cooldowns
      BY <2>2 DEF Restore
    <3>2. cooldowns # 0
      BY <3>1 DEF SharesIInv
    <3>3. QED
      BY <1>1, <3>1, <3>2 DEF SharesIInv
  <2>3. QED
    BY <1>4, <2>1, <2>2 DEF CountChange
<1>5. CASE UNCHANGED sharesVars
  BY <1>1, <1>5 DEF sharesVars, vars, SharesIInv, Share
<1>6. QED
  BY <1>2, <1>3, <1>4, <1>5 DEF SharesNext

(* As long as no account failed, the traffic is spread by weight, for      *)
(* every number of accounts and every choice of weights (pool.go:57-66).   *)
THEOREM SharesSpreadByWeight == SharesSpec => []SpreadByWeight
<1>1. ASSUME SharesIInv
      PROVE  SpreadByWeight
  <2> SUFFICES ASSUME cooldowns = 0, total > 0, NEW a \in Accounts
               PROVE  LET lag == picks * weight[a] - served[a] * total
                      IN  /\ -total < lag /\ 2 * lag <= (N - 1) * total
                          /\ PeriodOver => lag = 0
    BY DEF SpreadByWeight
  <2> DEFINE lag == picks * weight[a] - served[a] * total
  <2>1. /\ IInv /\ Share(picks, served, current)
        /\ weight \in [Accounts -> Weights] /\ served \in [Accounts -> Weights]
        /\ total \in Nat /\ picks \in Nat /\ Weights \subseteq Nat /\ N \in Nat
    BY <1>1, PoolAssumption DEF SharesIInv, Share, ShareOf, IInv, TypeOK, Weights
  <2>2. lag = current[a] /\ -total < lag
    BY <2>1 DEF Share, ShareOf
  <2>3. PeriodOver => lag = 0
    <3>1. PeriodOver => current[a] = 0
      BY <2>1, ShareEnds DEF PeriodOver
    <3>2. QED
      BY <2>2, <3>1
  <2>4. 2 * lag <= (N - 1) * total
    <3>1. {a} \in SUBSET Accounts /\ Cardinality({a}) = 1
      BY FS_Singleton
    <3>2. Sum({a}, weight) = weight[a] /\ Sum({a}, served) = served[a]
      <4>1. Sum({}, weight) = 0 /\ Sum({}, served) = 0
        BY FS_EmptySet DEF Sum, UnitsOver
      <4>2. {a} = {} \cup {a} /\ {} \in SUBSET Accounts /\ a \notin {}
        OBVIOUS
      <4>3. /\ Sum({} \cup {a}, weight) = Sum({}, weight) + weight[a]
            /\ Sum({} \cup {a}, served) = Sum({}, served) + served[a]
        BY <2>1, <4>2, SumAdd
      <4>4. weight[a] \in Nat /\ served[a] \in Nat
        BY <2>1
      <4>5. QED
        BY <4>1, <4>2, <4>3, <4>4
    <3>3. 2 * (picks * Sum({a}, weight))
            <= Cardinality({a}) * ((N - Cardinality({a})) * total)
               + (2 * total) * Sum({a}, served)
      BY <2>1, <3>1 DEF Share, ShareOf
    <3>4. 2 * (picks * weight[a]) <= 1 * ((N - 1) * total) + (2 * total) * served[a]
      BY <3>1, <3>2, <3>3
    <3>5. weight[a] \in Nat /\ served[a] \in Nat
      BY <2>1
    <3>6. (2 * total) * served[a] = 2 * (served[a] * total)
      BY <2>1, <3>5
    <3>7. /\ picks * weight[a] \in Int /\ served[a] * total \in Int /\ (N - 1) * total \in Int
      BY <2>1, <3>5
    <3>8. QED
      BY <3>4, <3>6, <3>7
  <2>5. QED
    BY <2>2, <2>3, <2>4
<1>2. QED
  BY <1>1, InitSharesIInv, NextSharesIInv, PTL DEF SharesSpec

=============================================================================
