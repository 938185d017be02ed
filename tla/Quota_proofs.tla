---------------------------- MODULE Quota_proofs ----------------------------
(***************************************************************************)
(* Theorems about the quota of a key, for any number of requests of any    *)
(* sizes, any windows and limits, and any number of edits of the plan:     *)
(* first of the billing alone, then of the billing behind the slots of the *)
(* key, with restarts of the process.                                      *)
(***************************************************************************)
EXTENDS Quota, Data_proofs

Before == {"new", "checking", "checked"}

(* What a request's reservation says about where it is and about the plan. *)
CoreOf(r) ==
  /\ pc[r] \in Before => reserved[r] = "unasked"
  /\ pc[r] = "sent" => reserved[r] # "unasked"
  /\ pc[r] # "done" => closed[r] = "open"
  /\ closed[r] = "open" => paid[r] = 0
  /\ reserved[r] = "tokens" => subscribed /\ TokenBased
  /\ reserved[r] = "count" => subscribed /\ CountBased

Counters ==
  \A w \in Windows : \A r \in counted[w] :
    reserved[r] = "count" /\ w \in DOMAIN plan.limits

Core == (\A r \in Requests : CoreOf(r)) /\ Counters

(* The other requests are as they were. *)
LEMMA OthersKeep ==
  ASSUME NEW q \in Requests, CoreOf(q), subscribed => subscribed', plan'.type = plan.type,
         UNCHANGED <<pc[q], reserved[q], closed[q], paid[q]>>
  PROVE  CoreOf(q)'
BY DEF CoreOf, TokenBased, CountBased

----------------------------------------------------------------------------
(* The state is well typed after every step. *)

(* The windows a plan limits are windows, and its rows are well formed. *)
LEMMA PlanTypes ==
  ASSUME NEW p \in PlanRows
  PROVE  /\ DOMAIN p.limits \subseteq Windows
         /\ p.enabled \in BOOLEAN
         /\ p.quota \in Nat
BY BillingAssumption

(* A request moves on. *)
LEMMA GoTypes ==
  ASSUME TypeOK, NEW r \in Requests, NEW from, 
         NEW to \in {"new", "checking", "checked", "sent", "done"},
         Go(r, from, to)
  PROVE  /\ pc' \in [Requests -> {"new", "checking", "checked", "sent", "done"}]
         /\ pc[r] = from /\ pc'[r] = to
         /\ \A q \in Requests \ {r} : pc'[q] = pc[q]
BY DEF TypeOK, Go

LEMMA RowTypes ==
  ASSUME TypeOK
  PROVE  Row \in [used : Int, usage : [Windows -> Nat], timed : SUBSET Windows]
BY DEF TypeOK, Row

(* A request forgets the row it read. *)
LEMMA NoRowTypes ==
  NoRow \in [used : Int, usage : [Windows -> Nat], timed : SUBSET Windows]
BY DEF NoRow

LEMMA ForgetTypes ==
  ASSUME TypeOK, NEW r \in Requests, Forget(r)
  PROVE  seen' \in [Requests -> [used : Int, usage : [Windows -> Nat],
                                 timed : SUBSET Windows]]
BY NoRowTypes DEF TypeOK, Forget

(* An estimate is what it may add to the quota less what it may take off. *)
LEMMA EstimateTypes ==
  ASSUME NEW r \in Requests
  PROVE  /\ MaxTokens \in Nat /\ Est[r] \in Int
         /\ Above(Est[r]) \in 0..MaxTokens /\ Above(-Est[r]) \in 0..MaxTokens
         /\ Est[r] = Above(Est[r]) - Above(-Est[r])
         /\ Est[r] > 0 => Above(Est[r]) = Est[r] /\ Above(-Est[r]) = 0
BY BillingAssumption DEF Above

(* What a refund leaves of the used quota. *)
LEMMA ReturnedTypes ==
  ASSUME TypeOK, NEW r \in Requests
  PROVE  /\ Returned(r) \in Nat /\ Est[r] \in Int
         /\ used > Est[r] => Returned(r) = used - Est[r]
         /\ used <= Est[r] => Returned(r) = 0
BY EstimateTypes DEF TypeOK, Returned

(* The steps that only decide whether a request goes on. *)
LEMMA CheckTypes ==
  ASSUME TypeOK, NEW r \in Requests,
         CheckRow(r) \/ CheckPlan(r) \/ Refuse(r)
  PROVE  /\ TypeOK'
         /\ UNCHANGED <<rowVars, planVars, bookVars>>
         /\ pc[r] \in Before /\ pc'[r] \in Before \cup {"done"}
         /\ \A q \in Requests \ {r} : pc'[q] = pc[q]
<1>1. PICK from \in Before, to \in {"checking", "checked", "done"} : Go(r, from, to)
  BY DEF CheckRow, CheckPlan, Refuse, Before
<1>2. seen' \in [Requests -> [used : Int, usage : [Windows -> Nat],
                              timed : SUBSET Windows]]
  BY RowTypes, ForgetTypes DEF CheckRow, CheckPlan, Refuse, TypeOK
<1>3. UNCHANGED <<rowVars, planVars, bookVars>>
  BY DEF CheckRow, CheckPlan, Refuse
<1>4. QED
  BY <1>1, <1>2, <1>3, GoTypes DEF Before, rowVars, planVars, bookVars, TypeOK

(* A reservation. *)
LEMMA PreConsumeTypes ==
  ASSUME TypeOK, NEW r \in Requests, PreConsume(r) \/ PreConsumeFails(r)
  PROVE  /\ TypeOK'
         /\ pc[r] = "checked" /\ pc'[r] = "sent"
         /\ \A q \in Requests \ {r} : pc'[q] = pc[q] /\ reserved'[q] = reserved[q]
         /\ reserved'[r] \in {"failed", "nothing", "count", "tokens"}
         /\ UNCHANGED <<subscribed, planVars, closed, paid>>
<1>1. /\ pc' \in [Requests -> {"new", "checking", "checked", "sent", "done"}]
      /\ pc[r] = "checked" /\ pc'[r] = "sent"
      /\ \A q \in Requests \ {r} : pc'[q] = pc[q]
  BY GoTypes DEF PreConsume, PreConsumeFails
<1>2. PICK what \in {"failed", "nothing", "count", "tokens"} :
        reserved' = [reserved EXCEPT ![r] = what]
  BY DEF PreConsume, PreConsumeFails
<1>3. /\ DOMAIN plan.limits \subseteq Windows /\ Est[r] \in Int
      /\ seen' \in [Requests -> [used : Int, usage : [Windows -> Nat],
                                 timed : SUBSET Windows]]
  BY PlanTypes, ForgetTypes, EstimateTypes DEF PreConsume, PreConsumeFails, TypeOK
<1>4. UNCHANGED <<subscribed, planVars, closed, paid>>
  BY DEF PreConsume, PreConsumeFails, Count, Deduct, rowVars
<1>5. /\ used' \in Int
      /\ usage' \in [Windows -> Nat]
      /\ clock' \in [Windows -> {"unset", "running", "expired"}]
      /\ counted' \in [Windows -> SUBSET Requests]
  <2>1. CASE UNCHANGED <<rowVars, counted>>
    BY <2>1 DEF rowVars, TypeOK
  <2>2. CASE Count(r)
    BY <1>3, <2>2 DEF Count, Current, TypeOK
  <2>3. CASE Deduct(r)
    BY <1>3, <2>3 DEF Deduct, TypeOK
  <2>4. QED
    BY <2>1, <2>2, <2>3 DEF PreConsume, PreConsumeFails
<1>6. reserved' \in [Requests -> {"unasked", "failed", "nothing", "count", "tokens"}]
  BY <1>2 DEF TypeOK
<1>7. TypeOK'
  BY <1>1, <1>3, <1>4, <1>5, <1>6 DEF planVars, TypeOK
<1>8. \A q \in Requests \ {r} : reserved'[q] = reserved[q]
  BY <1>2 DEF TypeOK
<1>9. reserved'[r] \in {"failed", "nothing", "count", "tokens"}
  BY <1>2 DEF TypeOK
<1>10. QED
  BY <1>1, <1>4, <1>7, <1>8, <1>9

(* The end of a request. *)
LEMMA CloseTypes ==
  ASSUME TypeOK, NEW r \in Requests,
         NEW how \in {"returned", "settled"}, NEW tokens \in 0..MaxTokens,
         Close(r, how, tokens)
  PROVE  /\ pc' \in [Requests -> {"new", "checking", "checked", "sent", "done"}]
         /\ closed' \in [Requests -> {"open", "returned", "settled"}]
         /\ paid' \in [Requests -> 0..MaxTokens]
         /\ pc[r] = "sent" /\ pc'[r] = "done"
         /\ closed'[r] = how /\ paid'[r] = tokens
         /\ \A q \in Requests \ {r} :
              pc'[q] = pc[q] /\ closed'[q] = closed[q] /\ paid'[q] = paid[q]
         /\ UNCHANGED <<planVars, seen, reserved, counted>>
BY BillingAssumption, GoTypes DEF Close, TypeOK

LEMMA RefundTypes ==
  ASSUME TypeOK, NEW r \in Requests, Refund(r)
  PROVE  TypeOK'
<1>1. 0 \in 0..MaxTokens
  BY BillingAssumption
<1>2. used' \in Int
  BY ReturnedTypes DEF Refund, TypeOK
<1>3. usage' \in [Windows -> Nat]
  <2>1. CASE Uncount
    BY <2>1 DEF Uncount, TypeOK
  <2>2. CASE UNCHANGED usage
    BY <2>2 DEF TypeOK
  <2>3. QED
    BY <2>1, <2>2 DEF Refund
<1>4. QED
  BY <1>1, <1>2, <1>3, CloseTypes DEF Refund, planVars, TypeOK

LEMMA SettleTypes ==
  ASSUME TypeOK, NEW r \in Requests, RefundAndSettle(r)
  PROVE  /\ TypeOK'
         /\ UNCHANGED <<subscribed, usage, clock>>
         /\ \E how \in {"returned", "settled"}, tokens \in 0..MaxTokens :
              Close(r, how, tokens)
<1>1. PICK how \in {"returned", "settled"}, tokens \in 0..MaxTokens :
        Close(r, how, tokens)
  BY BillingAssumption DEF RefundAndSettle
<1>2. used' \in Int
  BY ReturnedTypes, BillingAssumption DEF RefundAndSettle, TypeOK
<1>3. UNCHANGED <<subscribed, usage, clock>>
  BY DEF RefundAndSettle
<1>4. QED
  BY <1>1, <1>2, <1>3, CloseTypes DEF planVars, TypeOK

(* The other steps. *)
Elsewhere ==
  \/ \E r \in Requests : Lose(r)
  \/ \E w \in Windows : Expire(w)
  \/ Subscribe \/ UpdatePlan \/ DeletePlan

LEMMA ElsewhereTypes ==
  ASSUME TypeOK, Elsewhere
  PROVE  /\ TypeOK'
         /\ \A r \in Requests : pc'[r] = pc[r] \/ pc'[r] = "done"
         /\ UNCHANGED <<used, usage, bookVars>>
         /\ subscribed => subscribed'
         /\ deleted => deleted'
         /\ steady' => /\ steady /\ plan'.type = plan.type
                       /\ DOMAIN plan'.limits = DOMAIN plan.limits
<1>1. CASE \E r \in Requests : Lose(r)
  BY <1>1, GoTypes DEF Lose, rowVars, planVars, bookVars, TypeOK
<1>2. CASE \E w \in Windows : Expire(w)
  BY <1>2 DEF Expire, planVars, bookVars, TypeOK
<1>3. CASE Subscribe
  BY <1>3 DEF Subscribe, planVars, bookVars, TypeOK
<1>4. CASE UpdatePlan
  BY <1>4 DEF UpdatePlan, rowVars, bookVars, TypeOK
<1>5. CASE DeletePlan
  BY <1>5 DEF DeletePlan, rowVars, bookVars, TypeOK
<1>6. QED
  BY <1>1, <1>2, <1>3, <1>4, <1>5 DEF Elsewhere

LEMMA InitTypes == Init => TypeOK
<1> SUFFICES ASSUME Init PROVE TypeOK
  OBVIOUS
<1>1. seen \in [Requests -> [used : Int, usage : [Windows -> Nat],
                             timed : SUBSET Windows]]
  BY NoRowTypes DEF Init
<1>2. subscribed \in BOOLEAN /\ paid \in [Requests -> 0..MaxTokens]
  BY BillingAssumption DEF Init
<1>3. /\ used \in Int /\ changes \in Nat
      /\ usage \in [Windows -> Nat]
  BY DEF Init
<1>4. /\ clock \in [Windows -> {"unset", "running", "expired"}]
      /\ plan \in PlanRows /\ deleted \in BOOLEAN /\ steady \in BOOLEAN
  BY DEF Init
<1>5. /\ pc \in [Requests -> {"new", "checking", "checked", "sent", "done"}]
      /\ reserved \in [Requests -> {"unasked", "failed", "nothing", "count", "tokens"}]
      /\ closed \in [Requests -> {"open", "returned", "settled"}]
      /\ counted \in [Windows -> SUBSET Requests]
  BY DEF Init
<1>6. QED
  BY <1>1, <1>2, <1>3, <1>4, <1>5 DEF TypeOK

LEMMA NextTypes == TypeOK /\ [Next]_vars => TypeOK'
<1> SUFFICES ASSUME TypeOK, [Next]_vars PROVE TypeOK'
  OBVIOUS
<1>1. CASE UNCHANGED vars
  BY <1>1 DEF vars, rowVars, planVars, bookVars, TypeOK
<1>2. CASE Next
  BY <1>2, CheckTypes, PreConsumeTypes, RefundTypes, SettleTypes, ElsewhereTypes
  DEF Next, Relayed, Elsewhere
<1>3. QED
  BY <1>1, <1>2

(* The state of the billing keeps its types; in particular the usage of no *)
(* window ever goes below zero, whatever is refunded (billing.go:262-265). *)
(* The used quota is any integer: an estimate may be negative.             *)
THEOREM BillingTypeOK == Spec => []TypeOK
BY InitTypes, NextTypes, PTL DEF Spec

----------------------------------------------------------------------------
(* The meters. *)

Meters == /\ NeverOvercharged /\ ChargedExactly
          /\ NeverOvercounted /\ CountedExactly

(* The books of a plan that kept its type and windows.  The meters cannot  *)
(* be kept without Core: a refund takes back what was reserved only        *)
(* because the plan has still the type it was reserved under, and the row  *)
(* is still there.                                                         *)
Books == TypeOK /\ steady /\ Core /\ Meters

(* The inductive invariant. *)
IInv == TypeOK /\ (steady => Core /\ Meters)

(* The most a request may owe. *)
Most == 2 * MaxTokens

LEMMA DebtsTypes ==
  ASSUME TypeOK
  PROVE  /\ Debts \in [Requests -> 0..Most]
         /\ Owed \in Nat
<1>1. ASSUME NEW r \in Requests PROVE Debt(r) \in 0..Most
  <2>1. /\ MaxTokens \in Nat /\ paid[r] \in 0..MaxTokens
        /\ Above(Est[r]) \in 0..MaxTokens /\ Above(-Est[r]) \in 0..MaxTokens
    BY EstimateTypes DEF TypeOK
  <2>2. QED
    BY <2>1 DEF Debt, Most
<1>2. Debts \in [Requests -> 0..Most]
  BY <1>1 DEF Debts
<1>3. Most \in Nat /\ IsFiniteSet(Requests)
  BY BillingAssumption DEF Most
<1>4. QED
  BY <1>2, <1>3, UnitsOverFinite DEF Owed, Most

(* What is owed moves with what one request owes. *)
LEMMA OwedMoves ==
  ASSUME TypeOK, TypeOK', NEW r \in Requests,
         \A q \in Requests \ {r} : Debt(q)' = Debt(q)
  PROVE  /\ Owed' + Debt(r) = Owed + Debt(r)'
         /\ Owed \in Nat /\ Owed' \in Nat
         /\ Debt(r) \in Nat /\ Debt(r)' \in Nat
<1> DEFINE old == Debts
           new == Debts'
<1>1. old \in [Requests -> 0..Most] /\ Owed \in Nat
  BY DebtsTypes
<1>2. new \in [Requests -> 0..Most] /\ Owed' \in Nat
  <2>1. (TypeOK => Debts \in [Requests -> 0..Most] /\ Owed \in Nat)'
    BY DebtsTypes, PTL
  <2>2. QED
    BY <2>1
<1>3. /\ old[r] = Debt(r) /\ new[r] = Debt(r)'
      /\ \A q \in Requests \ {r} : new[q] = old[q]
  BY DEF Debts
<1>4. Cardinality(UnitsOver(Requests, Most, new)) + old[r]
        = Cardinality(UnitsOver(Requests, Most, old)) + new[r]
  <2> HIDE DEF old, new
  <2>1. Most \in Nat /\ IsFiniteSet(Requests)
    BY BillingAssumption DEF Most
  <2>2. QED
    BY <1>1, <1>2, <1>3, <2>1, UnitsOverExcept
<1>5. QED
  BY <1>1, <1>2, <1>3, <1>4 DEF Owed, Most

LEMMA OwedKept ==
  ASSUME \A q \in Requests : Debt(q)' = Debt(q)
  PROVE  Owed' = Owed
BY DEF Owed, Debts

(* The requests a window counts are finitely many. *)
LEMMA TallyFinite ==
  ASSUME TypeOK, NEW w \in Windows
  PROVE  IsFiniteSet(Tally(w)) /\ Cardinality(Tally(w)) \in Nat
<1>1. Tally(w) \in SUBSET Requests
  BY DEF TypeOK, Tally
<1>2. QED
  BY <1>1, BillingAssumption, FS_Subset, FS_CardinalityType

(* A step that changes neither the meters nor what was reserved. *)
LEMMA MetersKept ==
  ASSUME Meters, steady, UNCHANGED <<used, usage, bookVars>>, deleted => deleted'
  PROVE  Meters'
<1>1. Owed' = Owed
  BY OwedKept DEF Debt, bookVars
<1>2. \A w \in Windows : Tally(w)' = Tally(w)
  BY DEF Tally, bookVars
<1>3. QED
  BY <1>1, <1>2 DEF Meters, NeverOvercharged, ChargedExactly,
                    NeverOvercounted, CountedExactly, bookVars

(* A reservation. *)
LEMMA PreConsumeKeeps ==
  ASSUME Books, NEW r \in Requests, PreConsume(r) \/ PreConsumeFails(r)
  PROVE  Core' /\ Meters'
<1> USE DEF Books
<1>1. /\ TypeOK'
      /\ pc[r] = "checked" /\ pc'[r] = "sent"
      /\ \A q \in Requests \ {r} : pc'[q] = pc[q] /\ reserved'[q] = reserved[q]
      /\ reserved'[r] \in {"failed", "nothing", "count", "tokens"}
      /\ UNCHANGED <<subscribed, planVars, closed, paid>>
  BY PreConsumeTypes
<1>2. reserved[r] = "unasked" /\ closed[r] = "open" /\ paid[r] = 0
  BY <1>1 DEF Core, CoreOf, Before
<1>3. \A q \in Requests \ {r} : Debt(q)' = Debt(q)
  BY <1>1 DEF Debt
<1>4. Debt(r) = 0
  BY <1>2 DEF Debt
<1>5. \A w \in Windows : r \notin counted[w]
  BY <1>2 DEF Core, Counters
<1>6. Owed' = Owed + Debt(r)' /\ Owed \in Nat /\ Owed' \in Nat
  BY <1>1, <1>3, <1>4, OwedMoves
<1> DEFINE Fits == /\ reserved'[r] = "tokens" => subscribed /\ TokenBased
                   /\ reserved'[r] = "count" => subscribed /\ CountBased
<1>7. ASSUME Fits, Counters'
      PROVE  Core'
  <2>1. \A q \in Requests \ {r} : CoreOf(q)'
    BY <1>1, OthersKeep DEF Core, planVars
  <2>2. CoreOf(r)'
    BY <1>1, <1>2, <1>7 DEF CoreOf, Before, planVars, TokenBased, CountBased
  <2>3. QED
    BY <1>7, <2>1, <2>2 DEF Core
<1>8. CASE reserved'[r] \in {"failed", "nothing"} /\ UNCHANGED <<rowVars, counted>>
  <2>1. Counters'
    BY <1>1, <1>5, <1>8 DEF Core, Counters, planVars, TypeOK
  <2>2. Owed' = Owed
    BY <1>1, <1>2, <1>6, <1>8 DEF Debt
  <2>3. \A w \in Windows : Tally(w)' = Tally(w) /\ r \notin counted'[w]
    BY <1>1, <1>5, <1>8 DEF Tally
  <2>4. QED
    BY <1>1, <1>8, <1>7, <2>1, <2>2, <2>3
    DEF Meters, NeverOvercharged, ChargedExactly, NeverOvercounted, CountedExactly,
        rowVars, planVars
<1>9. CASE /\ subscribed /\ TokenBased /\ Deduct(r)
           /\ reserved'[r] = "tokens"
  <2>1. Counters'
    BY <1>1, <1>5, <1>9 DEF Core, Counters, Deduct, planVars, TypeOK
  <2>2. /\ Debt(r)' = Above(Est[r]) /\ Above(Est[r]) \in Nat /\ Est[r] \in Int
        /\ Est[r] <= Above(Est[r]) /\ (Est[r] > 0 => Est[r] = Above(Est[r]))
    BY <1>1, <1>2, <1>9, EstimateTypes DEF Debt, Above
  <2>3. used' = used + Est[r] /\ used \in Int
    BY <1>9 DEF Deduct, TypeOK
  <2>4. NeverOvercharged'
    BY <1>1, <1>6, <2>2, <2>3 DEF Meters, NeverOvercharged, planVars
  <2>5. ChargedExactly'
    BY <1>1, <1>2, <1>6, <2>2, <2>3 DEF Meters, ChargedExactly
  <2>6. \A w \in Windows : Tally(w)' = Tally(w) /\ r \notin counted'[w]
    BY <1>1, <1>5, <1>9 DEF Tally, Deduct
  <2>7. NeverOvercounted' /\ CountedExactly'
    BY <1>1, <1>9, <2>6
    DEF Meters, NeverOvercounted, CountedExactly, Deduct, planVars
  <2>8. QED
    BY <1>9, <1>7, <2>1, <2>4, <2>5, <2>7 DEF Meters
<1>10. CASE /\ subscribed /\ CountBased /\ Count(r)
           /\ reserved'[r] = "count"
  <2>1. Counters'
    BY <1>1, <1>5, <1>10 DEF Core, Counters, Count, planVars, TypeOK
  <2>2. Owed' = Owed
    BY <1>1, <1>2, <1>6, <1>10 DEF Debt
  <2>3. NeverOvercharged' /\ ChargedExactly'
    BY <1>10, <2>2 DEF Meters, NeverOvercharged, ChargedExactly, Count
  <2>4. ASSUME NEW w \in Windows, w \in DOMAIN plan.limits, clock[w] = "expired"
        PROVE  usage'[w] = 1 /\ Cardinality(Tally(w)') = 1
    <3>1. usage'[w] = 1 /\ counted'[w] = {r}
      BY <1>10, <2>4 DEF Count, Current
    <3>2. Tally(w)' = {r}
      BY <1>1, <1>2, <3>1 DEF Tally
    <3>3. QED
      BY <3>1, <3>2, FS_Singleton
  <2>5. ASSUME NEW w \in Windows, w \in DOMAIN plan.limits, clock[w] # "expired"
        PROVE  /\ usage'[w] = usage[w] + 1
               /\ Cardinality(Tally(w)') = Cardinality(Tally(w)) + 1
    <3>1. usage'[w] = usage[w] + 1 /\ counted'[w] = counted[w] \cup {r}
      BY <1>10, <2>5 DEF Count, Current
    <3>2. Tally(w)' = Tally(w) \cup {r} /\ r \notin Tally(w)
      BY <1>1, <1>2, <1>5, <3>1 DEF Tally
    <3>3. QED
      BY <3>1, <3>2, TallyFinite, FS_AddElement
  <2>6. ASSUME NEW w \in Windows, w \notin DOMAIN plan.limits
        PROVE  /\ usage'[w] = usage[w] /\ Tally(w)' = Tally(w)
               /\ r \notin counted'[w]
    BY <1>1, <1>5, <1>10, <2>6 DEF Count, Tally
  <2>7. NeverOvercounted'
    <3> SUFFICES ASSUME ~deleted, NEW w \in Windows
                 PROVE  usage'[w] <= Cardinality(Tally(w)')
      BY <1>1 DEF NeverOvercounted, planVars
    <3>1. usage[w] <= Cardinality(Tally(w)) /\ usage[w] \in Nat
      BY DEF Meters, NeverOvercounted, TypeOK
    <3>2. Cardinality(Tally(w)) \in Nat
      BY TallyFinite
    <3>3. QED
      BY <2>4, <2>5, <2>6, <3>1, <3>2
  <2>8. CountedExactly'
    <3> SUFFICES ASSUME ~deleted, NEW w \in Windows,
                        \A q \in Requests : reserved'[q] = "unasked" \/ q \in counted'[w]
                 PROVE  usage'[w] = Cardinality(Tally(w)')
      BY <1>1 DEF CountedExactly, planVars
    <3>1. w \in DOMAIN plan.limits
      BY <1>10, <2>6
    <3>2. CASE clock[w] = "expired"
      BY <2>4, <3>1, <3>2
    <3>3. CASE clock[w] # "expired"
      <4>1. counted'[w] = counted[w] \cup {r}
        BY <1>10, <3>1, <3>3 DEF Count
      <4>2. \A q \in Requests : reserved[q] = "unasked" \/ q \in counted[w]
        BY <1>1, <1>2, <4>1
      <4>3. usage[w] = Cardinality(Tally(w))
        BY <4>2 DEF Meters, CountedExactly
      <4>4. QED
        BY <2>5, <3>1, <3>3, <4>3
    <3>4. QED
      BY <3>2, <3>3
  <2>9. QED
    BY <1>10, <1>7, <2>1, <2>3, <2>7, <2>8 DEF Meters
<1>11. QED
  BY <1>8, <1>9, <1>10 DEF PreConsume, PreConsumeFails, rowVars, TypeOK

(* What a request that is being closed says about itself. *)
LEMMA ClosingFacts ==
  ASSUME Books, NEW r \in Requests,
         NEW how \in {"returned", "settled"}, NEW tokens \in 0..MaxTokens,
         Close(r, how, tokens), TypeOK', subscribed' = subscribed
  PROVE  /\ Core'
         /\ reserved[r] # "unasked" /\ closed[r] = "open"
         /\ Debt(r) = IF reserved[r] = "tokens" THEN Above(Est[r]) ELSE 0
         /\ Owed' + Debt(r) = Owed + (tokens + Above(-Est[r]))
         /\ Owed \in Nat /\ Owed' \in Nat
         /\ UNCHANGED <<planVars, reserved, counted>>
<1> USE DEF Books
<1>1. /\ pc[r] = "sent" /\ pc'[r] = "done"
      /\ closed'[r] = how /\ paid'[r] = tokens
      /\ \A q \in Requests \ {r} :
           pc'[q] = pc[q] /\ closed'[q] = closed[q] /\ paid'[q] = paid[q]
      /\ UNCHANGED <<planVars, seen, reserved, counted>>
  BY CloseTypes
<1>2. CoreOf(r)
  BY DEF Core
<1>3. reserved[r] # "unasked" /\ closed[r] = "open" /\ paid[r] = 0
  BY <1>1, <1>2 DEF CoreOf
<1>4. \A q \in Requests \ {r} : CoreOf(q)'
  BY <1>1, OthersKeep DEF Core, planVars
<1>5. CoreOf(r)'
  BY <1>1, <1>2 DEF CoreOf, Before, planVars, TokenBased, CountBased
<1>6. Counters'
  BY <1>1 DEF Core, Counters, planVars
<1>7. Debt(r) = IF reserved[r] = "tokens" THEN Above(Est[r]) ELSE 0
  BY <1>3 DEF Debt
<1>8. Debt(r)' = tokens + Above(-Est[r])
  BY <1>1 DEF Debt
<1>9. \A q \in Requests \ {r} : Debt(q)' = Debt(q)
  BY <1>1 DEF Debt
<1>10. Owed' + Debt(r) = Owed + (tokens + Above(-Est[r])) /\ Owed \in Nat /\ Owed' \in Nat
  BY <1>8, <1>9, OwedMoves
<1>11. QED
  BY <1>1, <1>3, <1>4, <1>5, <1>6, <1>7, <1>10 DEF Core

(* The arithmetic of a refund: e = a - b is the estimate, d what its       *)
(* request owed, t what it is charged for instead.                         *)
LEMMA Accounts ==
  ASSUME NEW u \in Int, NEW e \in Int, NEW a \in Nat, NEW b \in Nat, NEW d \in Nat,
         NEW t \in Nat, NEW owed \in Nat, NEW then \in Nat, NEW left \in Nat,
         e = a - b, d <= a, d <= owed, u <= owed, then + d = owed + (t + b),
         u > e => left = u - e, u <= e => left = 0
  PROVE  /\ left + t <= then
         /\ b = 0 /\ d = e /\ u = owed => left + t = then
<1>1. CASE u > e
  BY <1>1
<1>2. CASE u <= e
  BY <1>2
<1>3. QED
  BY <1>1, <1>2

(* Tokens are given back, and others charged for in their place. *)
LEMMA TokensKeep ==
  ASSUME Books, NEW r \in Requests,
         NEW how \in {"returned", "settled"}, NEW tokens \in 0..MaxTokens,
         Close(r, how, tokens), TypeOK', subscribed' = subscribed,
         used' = Returned(r) + tokens
  PROVE  NeverOvercharged' /\ ChargedExactly'
<1> USE DEF Books
<1>1. /\ reserved[r] # "unasked"
      /\ Debt(r) = IF reserved[r] = "tokens" THEN Above(Est[r]) ELSE 0
      /\ Owed' + Debt(r) = Owed + (tokens + Above(-Est[r]))
      /\ Owed \in Nat /\ Owed' \in Nat
      /\ UNCHANGED reserved
  BY ClosingFacts
<1>2. /\ Returned(r) \in Nat /\ Est[r] \in Int
      /\ used > Est[r] => Returned(r) = used - Est[r]
      /\ used <= Est[r] => Returned(r) = 0
  BY ReturnedTypes
<1>3. used \in Int /\ used <= Owed /\ tokens \in Nat
  BY BillingAssumption DEF TypeOK, Meters, NeverOvercharged
<1>4. /\ Above(Est[r]) \in Nat /\ Above(-Est[r]) \in Nat
      /\ Est[r] = Above(Est[r]) - Above(-Est[r])
      /\ Est[r] > 0 => Above(Est[r]) = Est[r] /\ Above(-Est[r]) = 0
  BY EstimateTypes
<1>5. Debt(r) <= Owed
  <2> DEFINE none == [q \in Requests |-> IF q = r THEN 0 ELSE Debts[q]]
             old == Debts
  <2>1. /\ old \in [Requests -> 0..Most] /\ Most \in Nat
        /\ IsFiniteSet(Requests)
    BY DebtsTypes, BillingAssumption DEF Most
  <2>2. none \in [Requests -> 0..Most]
    BY <2>1
  <2>3. none[r] = 0 /\ old[r] = Debt(r) /\ \A q \in Requests \ {r} : none[q] = old[q]
    BY DEF Debts
  <2>4. Cardinality(UnitsOver(Requests, Most, old)) = Owed
    BY DEF Owed, Most
  <2> HIDE DEF none, old, Books
  <2>5. Cardinality(UnitsOver(Requests, Most, none)) + old[r]
          = Cardinality(UnitsOver(Requests, Most, old)) + none[r]
    BY <2>1, <2>2, <2>3, UnitsOverExcept
  <2>6. Cardinality(UnitsOver(Requests, Most, none)) \in Nat
    BY <2>1, <2>2, UnitsOverFinite
  <2>7. old[r] \in Nat
    BY <2>1
  <2>8. QED
    BY <1>1, <2>3, <2>4, <2>5, <2>6, <2>7
<1> DEFINE a == Above(Est[r])
           b == Above(-Est[r])
           d == Debt(r)
<1>6. /\ a \in Nat /\ b \in Nat /\ Est[r] = a - b /\ (Est[r] > 0 => b = 0)
      /\ d = (IF reserved[r] = "tokens" THEN a ELSE 0) /\ d <= Owed
      /\ Owed' + d = Owed + (tokens + b)
  BY <1>1, <1>4, <1>5
<1> HIDE DEF a, b, d, Books
<1>7. d \in Nat /\ d <= a
  BY <1>6
<1>8. /\ used' <= Owed'
      /\ b = 0 /\ d = Est[r] /\ used = Owed => used' = Owed'
  BY <1>1, <1>2, <1>3, <1>6, <1>7, Accounts
<1>9. ChargedExactly'
  <2> SUFFICES ASSUME steady,
                      \A q \in Requests : \/ reserved[q] = "unasked"
                                          \/ reserved[q] = "tokens" /\ Est[q] > 0
               PROVE  used' = Owed'
    BY <1>1 DEF ChargedExactly, Books
  <2>1. used = Owed
    BY DEF Books, Meters, ChargedExactly
  <2>2. Est[r] > 0 /\ d = Est[r] /\ b = 0
    BY <1>1, <1>6
  <2>3. QED
    BY <1>8, <2>1, <2>2
<1>10. QED
  BY <1>8, <1>9 DEF NeverOvercharged

(* A refund. *)
LEMMA RefundKeeps ==
  ASSUME Books, NEW r \in Requests, Refund(r)
  PROVE  Core' /\ Meters'
<1> USE DEF Books
<1>1. /\ Close(r, "returned", 0) /\ TypeOK' /\ subscribed' = subscribed
      /\ 0 \in 0..MaxTokens
  BY RefundTypes, BillingAssumption DEF Refund
<1>2. /\ Core'
      /\ reserved[r] # "unasked" /\ closed[r] = "open"
      /\ Debt(r) = IF reserved[r] = "tokens" THEN Above(Est[r]) ELSE 0
      /\ Owed' + Debt(r) = Owed + (0 + Above(-Est[r]))
      /\ Owed \in Nat /\ Owed' \in Nat
      /\ UNCHANGED <<planVars, reserved, counted>>
  BY <1>1, ClosingFacts
<1>3. CoreOf(r)
  BY DEF Core
<1>4. /\ closed'[r] = "returned"
      /\ \A q \in Requests \ {r} : closed'[q] = closed[q]
  BY <1>1, CloseTypes
<1>5. \A w \in Windows : Tally(w)' = Tally(w) \ {r}
  BY <1>2, <1>4 DEF Tally, TypeOK
<1>6. NeverOvercharged' /\ ChargedExactly'
  <2>1. CASE subscribed /\ ~(~deleted /\ CountBased)
    <3>1. used' = Returned(r) + 0
      BY <2>1, ReturnedTypes DEF Refund
    <3>2. QED
      BY <1>1, <3>1, TokensKeep
  <2>2. CASE ~subscribed \/ (~deleted /\ CountBased)
    <3>1. reserved[r] # "tokens" /\ used' = used
      BY <1>3, <2>2 DEF Refund, CoreOf, TokenBased, CountBased
    <3>2. Owed' >= Owed
      <4>1. Debt(r) = 0 /\ Above(-Est[r]) \in Nat
        BY <1>2, <3>1, EstimateTypes
      <4>2. Owed' + Debt(r) = Owed + (0 + Above(-Est[r])) /\ Owed \in Nat /\ Owed' \in Nat
        BY <1>2
      <4>3. QED
        BY <4>1, <4>2
    <3>3. used \in Int /\ used <= Owed
      BY DEF Meters, NeverOvercharged, TypeOK
    <3>4. QED
      BY <1>2, <3>1, <3>2, <3>3 DEF NeverOvercharged, ChargedExactly
  <2>3. QED
    BY <2>1, <2>2
<1>7. ASSUME ~deleted, NEW w \in Windows
      PROVE  /\ usage'[w] <= Cardinality(Tally(w)')
             /\ (\A q \in Requests : reserved[q] = "unasked" \/ q \in counted[w])
                  => usage'[w] = Cardinality(Tally(w)')
  <2>1. /\ usage[w] <= Cardinality(Tally(w)) /\ usage[w] \in Nat
        /\ (\A q \in Requests : reserved[q] = "unasked" \/ q \in counted[w])
             => usage[w] = Cardinality(Tally(w))
    BY <1>7 DEF Meters, NeverOvercounted, CountedExactly, TypeOK
  <2>2. CASE r \in counted[w]
    <3>1. w \in DOMAIN plan.limits /\ subscribed /\ CountBased
      BY <1>3, <2>2 DEF Core, Counters, CoreOf
    <3>2. usage'[w] = IF usage[w] > 0 THEN usage[w] - 1 ELSE usage[w]
      BY <1>7, <3>1 DEF Refund, Uncount
    <3>3. r \in Tally(w)
      BY <1>2, <2>2 DEF Tally
    <3>4. /\ Cardinality(Tally(w)') = Cardinality(Tally(w)) - 1
          /\ Cardinality(Tally(w)) \in Nat /\ Cardinality(Tally(w)) # 0
      <4>1. IsFiniteSet(Tally(w)) /\ Cardinality(Tally(w)) \in Nat
        BY TallyFinite
      <4>2. Cardinality(Tally(w) \ {r}) = Cardinality(Tally(w)) - 1
        BY <3>3, <4>1, FS_RemoveElement
      <4>3. Cardinality(Tally(w)) # 0
        BY <3>3, <4>1, FS_EmptySet
      <4>4. QED
        BY <1>5, <4>1, <4>2, <4>3
    <3>5. QED
      BY <2>1, <3>2, <3>4
  <2>3. CASE r \notin counted[w]
    <3>1. Tally(w)' = Tally(w) /\ Cardinality(Tally(w)) \in Nat
      BY <1>5, <2>3, TallyFinite DEF Tally
    <3>2. usage'[w] <= usage[w]
      <4>1. CASE Uncount
        BY <2>1, <4>1 DEF Uncount
      <4>2. CASE UNCHANGED usage
        BY <2>1, <4>2
      <4>3. QED
        BY <4>1, <4>2 DEF Refund
    <3>3. usage'[w] \in Nat
      BY <1>1 DEF TypeOK
    <3>4. QED
      BY <1>2, <2>1, <2>3, <3>1, <3>2, <3>3
  <2>4. QED
    BY <2>2, <2>3
<1>8. NeverOvercounted' /\ CountedExactly'
  BY <1>2, <1>7 DEF NeverOvercounted, CountedExactly, planVars
<1>9. QED
  BY <1>2, <1>6, <1>8 DEF Meters

(* A settlement. *)
LEMMA SettleKeeps ==
  ASSUME Books, NEW r \in Requests, RefundAndSettle(r)
  PROVE  Core' /\ Meters'
<1> USE DEF Books
<1>1. /\ TypeOK' /\ subscribed' = subscribed /\ UNCHANGED <<usage, clock>>
      /\ 0 \in 0..MaxTokens
  BY SettleTypes, BillingAssumption
<1>2. CoreOf(r)
  BY DEF Core
<1>3. PICK how \in {"returned", "settled"}, tokens \in 0..MaxTokens :
        /\ Close(r, how, tokens)
        /\ \/ tokens = 0 /\ used' = used /\ (~subscribed \/ (~deleted /\ CountBased))
           \/ used' = Returned(r) + tokens
        /\ ~deleted => how = "settled" \/ ~subscribed
  <2>1. CASE ~subscribed \/ (~deleted /\ CountBased)
    BY <1>1, <2>1 DEF RefundAndSettle
  <2>2. CASE ~(~subscribed \/ (~deleted /\ CountBased)) /\ deleted
    <3>1. Close(r, "returned", 0) /\ used' = Returned(r) + 0
      BY <2>2, ReturnedTypes DEF RefundAndSettle
    <3>2. QED
      BY <1>1, <2>2, <3>1
  <2>3. CASE ~(~subscribed \/ (~deleted /\ CountBased)) /\ ~deleted
    BY <2>3 DEF RefundAndSettle
  <2>4. QED
    BY <2>1, <2>2, <2>3
<1>4. /\ Core'
      /\ reserved[r] # "unasked" /\ closed[r] = "open"
      /\ Debt(r) = IF reserved[r] = "tokens" THEN Above(Est[r]) ELSE 0
      /\ Owed' + Debt(r) = Owed + (tokens + Above(-Est[r]))
      /\ Owed \in Nat /\ Owed' \in Nat
      /\ UNCHANGED <<planVars, reserved, counted>>
  BY <1>1, <1>3, ClosingFacts
<1>5. NeverOvercharged' /\ ChargedExactly'
  <2>1. CASE used' = Returned(r) + tokens
    BY <1>1, <1>3, <2>1, TokensKeep
  <2>2. CASE tokens = 0 /\ used' = used /\ (~subscribed \/ (~deleted /\ CountBased))
    <3>1. reserved[r] # "tokens"
      BY <1>2, <2>2 DEF CoreOf, TokenBased, CountBased
    <3>2. Owed' >= Owed
      <4>1. Debt(r) = 0 /\ tokens = 0 /\ Above(-Est[r]) \in Nat
        BY <1>4, <2>2, <3>1, EstimateTypes
      <4>2. Owed' + Debt(r) = Owed + (tokens + Above(-Est[r])) /\ Owed \in Nat /\ Owed' \in Nat
        BY <1>4
      <4>3. QED
        BY <4>1, <4>2
    <3>3. used \in Int /\ used <= Owed
      BY DEF Meters, NeverOvercharged, TypeOK
    <3>4. QED
      BY <1>4, <2>2, <3>1, <3>2, <3>3 DEF NeverOvercharged, ChargedExactly
  <2>3. QED
    BY <1>3, <2>1, <2>2
<1>6. ASSUME ~deleted, NEW w \in Windows
      PROVE  Tally(w)' = Tally(w)
  <2>1. /\ closed'[r] = how
        /\ \A q \in Requests \ {r} : closed'[q] = closed[q]
    BY <1>3, CloseTypes
  <2>2. CASE subscribed
    BY <1>3, <1>4, <1>6, <2>1, <2>2 DEF Tally, TypeOK
  <2>3. CASE ~subscribed
    <3>1. r \notin counted[w]
      BY <1>2, <2>3 DEF Core, Counters, CoreOf
    <3>2. QED
      BY <1>4, <2>1, <3>1 DEF Tally, TypeOK
  <2>4. QED
    BY <2>2, <2>3
<1>7. NeverOvercounted' /\ CountedExactly'
  BY <1>1, <1>4, <1>6 DEF Meters, NeverOvercounted, CountedExactly, planVars
<1>8. QED
  BY <1>4, <1>5, <1>7 DEF Meters

(* The rest: here, and only here, the plan's type and windows may change.  *)
LEMMA ElsewhereKeeps ==
  ASSUME Books, steady', Elsewhere
  PROVE  Core' /\ Meters'
<1> USE DEF Books
<1>1. /\ TypeOK'
      /\ \A r \in Requests : pc'[r] = pc[r] \/ pc'[r] = "done"
      /\ UNCHANGED <<used, usage, bookVars>>
      /\ subscribed => subscribed'
      /\ deleted => deleted'
      /\ plan'.type = plan.type /\ DOMAIN plan'.limits = DOMAIN plan.limits
  BY ElsewhereTypes
<1>2. \A r \in Requests : CoreOf(r)'
  BY <1>1 DEF Core, CoreOf, Before, bookVars, TokenBased, CountBased
<1>3. Counters'
  BY <1>1 DEF Core, Counters, bookVars
<1>4. QED
  BY <1>1, <1>2, <1>3, MetersKept DEF Core

----------------------------------------------------------------------------

LEMMA InitIInv == Init => IInv
<1> SUFFICES ASSUME Init PROVE IInv
  OBVIOUS
<1>1. TypeOK
  BY InitTypes
<1>2. Core
  BY DEF Init, Core, CoreOf, Counters
<1>3. Owed = 0
  <2>1. Debts \in [Requests -> 0..Most] /\ {r \in Requests : Debts[r] > 0} = {}
    BY <1>1, DebtsTypes DEF Init, Debts, Debt
  <2>2. QED
    BY <2>1, UnitsOverNone, BillingAssumption DEF Owed, Most
<1>4. \A w \in Windows : Tally(w) = {}
  BY DEF Init, Tally
<1>5. Meters
  BY <1>3, <1>4, FS_EmptySet
  DEF Init, Meters, NeverOvercharged, ChargedExactly, NeverOvercounted, CountedExactly
<1>6. QED
  BY <1>1, <1>2, <1>5 DEF IInv

LEMMA NextIInv == IInv /\ [Next]_vars => IInv'
<1> SUFFICES ASSUME IInv, [Next]_vars PROVE IInv'
  OBVIOUS
<1>1. TypeOK'
  BY NextTypes DEF IInv
<1> SUFFICES ASSUME steady' PROVE Core' /\ Meters'
  BY <1>1 DEF IInv
<1>2. CASE Elsewhere
  <2>1. steady
    BY <1>2, ElsewhereTypes DEF IInv
  <2>2. QED
    BY <1>2, <2>1, ElsewhereKeeps DEF IInv, Books
<1>3. ASSUME NEW r \in Requests, CheckRow(r) \/ CheckPlan(r) \/ Refuse(r)
      PROVE  Core' /\ Meters'
  <2>1. /\ UNCHANGED <<rowVars, planVars, bookVars>>
        /\ pc[r] \in Before /\ pc'[r] \in Before \cup {"done"}
        /\ \A q \in Requests \ {r} : pc'[q] = pc[q]
    BY <1>3, CheckTypes DEF IInv
  <2>2. steady /\ Core /\ Meters
    BY <2>1 DEF IInv, planVars
  <2>3. Core'
    BY <2>1, <2>2 DEF Core, CoreOf, Counters, Before, rowVars, planVars, bookVars,
                      TokenBased, CountBased
  <2>4. Meters'
    BY <2>1, <2>2, MetersKept DEF rowVars, planVars
  <2>5. QED
    BY <2>3, <2>4
<1>4. ASSUME NEW r \in Requests,
             PreConsume(r) \/ PreConsumeFails(r) \/ Refund(r) \/ RefundAndSettle(r)
      PROVE  Core' /\ Meters'
  <2>1. steady' = steady
    BY <1>4 DEF PreConsume, PreConsumeFails, Refund, RefundAndSettle, Close, planVars
  <2>2. Books
    BY <2>1 DEF IInv, Books
  <2>3. QED
    BY <1>4, <2>2, PreConsumeKeeps, RefundKeeps, SettleKeeps
<1>5. CASE UNCHANGED vars
  <2>1. UNCHANGED <<rowVars, planVars, bookVars, pc>>
    BY <1>5 DEF vars
  <2>2. steady /\ Core /\ Meters
    BY <2>1 DEF IInv, planVars
  <2>3. Core'
    BY <2>1, <2>2 DEF Core, CoreOf, Counters, rowVars, planVars, bookVars,
                      TokenBased, CountBased
  <2>4. Meters'
    BY <2>1, <2>2, MetersKept DEF rowVars, planVars
  <2>5. QED
    BY <2>3, <2>4
<1>6. QED
  BY <1>2, <1>3, <1>4, <1>5 DEF Next, Relayed, Elsewhere

LEMMA SpecIInv == Spec => []IInv
BY InitIInv, NextIInv, PTL DEF Spec

(* While the plan keeps its type and windows, the key is never charged     *)
(* more tokens than its requests owe, in every order of reservations,      *)
(* refunds, settlements, subscriptions, edits and failures                 *)
(* (billing.go:172-251).  The estimates are any integers but 0, as         *)
(* handler.go:184-187 leaves them: one that is negative is owed, as Debt   *)
(* has it, once its request is closed.                                     *)
THEOREM BillingNeverOvercharged == Spec => []NeverOvercharged
<1>1. IInv => NeverOvercharged
  BY DEF IInv, Meters, NeverOvercharged
<1>2. QED
  BY <1>1, SpecIInv, PTL

(* And it is charged exactly that as long as every request that asked has  *)
(* reserved its estimate, and that is positive.                            *)
THEOREM BillingChargedExactly == Spec => []ChargedExactly
<1>1. IInv => ChargedExactly
  BY DEF IInv, Meters, ChargedExactly
<1>2. QED
  BY <1>1, SpecIInv, PTL

(* No window counts more requests than took place in it since it was last  *)
(* zeroed and were not refunded (billing.go:116-164, 253-271).             *)
THEOREM BillingNeverOvercounted == Spec => []NeverOvercounted
<1>1. IInv => NeverOvercounted
  BY DEF IInv, Meters, NeverOvercounted
<1>2. QED
  BY <1>1, SpecIInv, PTL

(* It counts exactly those as long as every request was counted in it.     *)
THEOREM BillingCountedExactly == Spec => []CountedExactly
<1>1. IInv => CountedExactly
  BY DEF IInv, Meters, CountedExactly
<1>2. QED
  BY <1>1, SpecIInv, PTL

----------------------------------------------------------------------------
(* Behind the slots. *)

(* What the slots add to a step of the billing. *)
LEMMA QuotaSteps ==
  ASSUME [QuotaNext]_all
  PROVE  [Next]_vars \/ Restart
BY DEF QuotaNext, Enter, TurnAway, Check, Continue, Leave, Next, Relayed, all

(* A restart loses the requests and nothing of the books. *)
LEMMA RestartKeeps ==
  ASSUME IInv, Restart
  PROVE  IInv'
<1>1. /\ pc' \in [Requests -> {"new", "checking", "checked", "sent", "done"}]
      /\ \A r \in Requests : pc'[r] = pc[r] \/ pc'[r] = "done"
  BY DEF Restart, IInv, TypeOK
<1>2. seen' \in [Requests -> [used : Int, usage : [Windows -> Nat],
                              timed : SUBSET Windows]]
  BY NoRowTypes DEF Restart
<1>3. UNCHANGED <<rowVars, planVars, bookVars>>
  BY DEF Restart
<1>4. TypeOK'
  BY <1>1, <1>2, <1>3 DEF IInv, rowVars, planVars, bookVars, TypeOK
<1>5. ASSUME steady' PROVE Core' /\ Meters'
  <2>1. steady /\ Core /\ Meters
    BY <1>3, <1>5 DEF IInv, planVars
  <2>2. Core'
    BY <1>1, <1>3, <2>1 DEF Core, CoreOf, Counters, Before, rowVars, planVars,
                            bookVars, TokenBased, CountBased
  <2>3. Meters'
    BY <1>3, <2>1, MetersKept DEF rowVars, planVars
  <2>4. QED
    BY <2>2, <2>3
<1>6. QED
  BY <1>4, <1>5 DEF IInv

LEMMA QuotaIInv == QuotaSpec => []IInv
<1>1. QuotaInit => IInv
  BY InitIInv DEF QuotaInit
<1>2. IInv /\ [QuotaNext]_all => IInv'
  BY QuotaSteps, NextIInv, RestartKeeps
<1>3. QED
  BY <1>1, <1>2, PTL DEF QuotaSpec

(* Behind the slots, and with restarts of the process, the key is never    *)
(* charged more tokens than its requests owe, whatever integers they       *)
(* estimate, while the plan keeps its type and windows                     *)
(* (billing.go:172-251).                                                   *)
THEOREM QuotaNeverOvercharged == QuotaSpec => []NeverOvercharged
<1>1. IInv => NeverOvercharged
  BY DEF IInv, Meters, NeverOvercharged
<1>2. QED
  BY <1>1, QuotaIInv, PTL

(* And no window counts more requests than took place in it and were not   *)
(* refunded (billing.go:116-164, 253-271).                                 *)
THEOREM QuotaNeverOvercounted == QuotaSpec => []NeverOvercounted
<1>1. IInv => NeverOvercounted
  BY DEF IInv, Meters, NeverOvercounted
<1>2. QED
  BY <1>1, QuotaIInv, PTL

----------------------------------------------------------------------------
(* The requests a plan serves above its limit. *)

Booked == {r \in Requests : reserved[r] = "count"}
Denied == {r \in passed : reserved[r] = "nothing"}

(* The requests that have been let through, or will be, and have not       *)
(* reserved yet.                                                           *)
Pending == {r \in inside : \/ pc[r] = "checking" /\ ~Exceeded(seen[r])
                           \/ pc[r] = "checked" /\ r \in passed}

Placed(r) ==
  /\ pc[r] \in {"checking", "checked"} => r \in inside
  /\ pc[r] = "checking" => subscribed
  /\ r \in passed => /\ Live /\ CountBased /\ subscribed
                     /\ pc[r] \in {"checked", "sent", "done"}

(* What a window has counted, less the refunds, is within its limit.       *)
Within(w) ==
  /\ usage[w] <= plan.limits[w]
  /\ Cardinality(Booked) <= usage[w] + Cardinality(Refunded)

(* While the plan is full, what is pending was checked before it was, and  *)
(* will be denied; a refund ends that, and what is pending may be booked.  *)
DeniedBounded ==
  /\ ~Full => Cardinality(Denied) <= (Slots - 1) * Cardinality(Refunded)
  /\ Full  => Cardinality(Denied) + Cardinality(Pending)
                <= (Slots - 1) * (Cardinality(Refunded) + 1)

Bounds ==
  /\ \A r \in Requests : Placed(r)
  /\ \A w \in DOMAIN plan.limits : Within(w)
  /\ Live /\ CountBased => DeniedBounded

(* The inductive invariant. *)
QInv ==
  /\ IInv
  /\ inside \in SUBSET Requests
  /\ passed \in SUBSET Requests
  /\ Cardinality(inside) <= Slots
  /\ changes = 0 => steady /\ ~deleted
  /\ Quiet => Bounds

LEMMA SetsFinite ==
  ASSUME inside \in SUBSET Requests, passed \in SUBSET Requests
  PROVE  /\ IsFiniteSet(Requests)
         /\ IsFiniteSet(inside) /\ Cardinality(inside) \in Nat
         /\ IsFiniteSet(passed)
         /\ IsFiniteSet(Booked) /\ Cardinality(Booked) \in Nat
         /\ IsFiniteSet(Denied) /\ Cardinality(Denied) \in Nat
         /\ IsFiniteSet(Refunded) /\ Cardinality(Refunded) \in Nat
         /\ IsFiniteSet(Unbooked) /\ Cardinality(Unbooked) \in Nat
         /\ IsFiniteSet(Pending) /\ Cardinality(Pending) \in Nat
<1>1. /\ Booked \in SUBSET Requests /\ Denied \in SUBSET Requests
      /\ Refunded \in SUBSET Requests /\ Unbooked \in SUBSET Requests
      /\ Pending \in SUBSET Requests
  BY DEF Booked, Denied, Refunded, Unbooked, Pending
<1>2. IsFiniteSet(Requests)
  BY BillingAssumption
<1>3. \A S \in SUBSET Requests : IsFiniteSet(S) /\ Cardinality(S) \in Nat
  BY <1>2, FS_Subset, FS_CardinalityType
<1>4. QED
  BY <1>1, <1>2, <1>3

(* The same after a step. *)
LEMMA SetsFiniteAfter ==
  ASSUME inside' \in SUBSET Requests, passed' \in SUBSET Requests
  PROVE  /\ IsFiniteSet(inside') /\ Cardinality(inside') \in Nat
         /\ IsFiniteSet(Booked') /\ Cardinality(Booked') \in Nat
         /\ IsFiniteSet(Denied') /\ Cardinality(Denied') \in Nat
         /\ IsFiniteSet(Refunded') /\ Cardinality(Refunded') \in Nat
         /\ IsFiniteSet(Pending') /\ Cardinality(Pending') \in Nat
<1>1. /\ Booked' \in SUBSET Requests /\ Denied' \in SUBSET Requests
      /\ Refunded' \in SUBSET Requests /\ Pending' \in SUBSET Requests
  BY DEF Booked, Denied, Refunded, Pending
<1>2. IsFiniteSet(Requests)
  BY BillingAssumption
<1>3. \A S \in SUBSET Requests : IsFiniteSet(S) /\ Cardinality(S) \in Nat
  BY <1>2, FS_Subset, FS_CardinalityType
<1>4. QED
  BY <1>1, <1>3

LEMMA Smaller ==
  ASSUME NEW S, NEW T, IsFiniteSet(S), T \subseteq S
  PROVE  Cardinality(T) <= Cardinality(S)
BY FS_Subset

(* The numbers of module Quota. *)
LEMMA RoomForOneMore ==
  ASSUME NEW n \in Nat
  PROVE  /\ (Slots - 1) \in Nat
         /\ (Slots - 1) * n \in Nat /\ (Slots - 1) * (n + 1) \in Nat
         /\ (Slots - 1) * (n + 1) = (Slots - 1) * n + (Slots - 1)
         /\ Slots * n = (Slots - 1) * n + n
<1>1. Slots \in Nat /\ Slots >= 1
  BY QuotaAssumption
<1>2. PICK k \in Nat : Slots = k + 1
  BY <1>1
<1>3. k * (n + 1) = k * n + k /\ (k + 1) * n = k * n + n /\ k * n \in Nat
      /\ k * (n + 1) \in Nat
  BY SMTT(30)
<1>4. QED
  BY <1>2, <1>3

(* A step that leaves the plan alone and no window run out.                *)
LEMMA QuietBefore ==
  ASSUME QInv, [QuotaNext]_all, Quiet'
  PROVE  /\ Quiet /\ Bounds
         /\ UNCHANGED planVars
         /\ TypeOK /\ Core /\ ~deleted
<1>1. TypeOK /\ changes \in Nat /\ changes' = 0
  BY DEF QInv, IInv, TypeOK, Quiet
<1>2. UNCHANGED planVars
  <2>1. CASE UNCHANGED vars \/ Restart
    BY <2>1 DEF vars, Restart
  <2>2. CASE \E r \in Requests : Relayed(r)
    BY <2>2 DEF Relayed, CheckRow, CheckPlan, Refuse, PreConsume, PreConsumeFails,
                Refund, RefundAndSettle, Close, Lose
  <2>3. CASE Elsewhere
    <3>1. ~UpdatePlan /\ ~DeletePlan
      <4>1. changes' # changes + 1
        BY <1>1
      <4>2. QED
        BY <4>1, Zenon DEF UpdatePlan, DeletePlan
    <3>2. QED
      BY <2>3, <3>1 DEF Elsewhere, Lose, Expire, Subscribe
  <2>4. QED
    BY <2>1, <2>2, <2>3, QuotaSteps DEF Next, Elsewhere
<1>3. ASSUME NEW w \in Windows, clock[w] = "expired"
      PROVE  FALSE
  <2>1. clock'[w] = "expired"
    <3>1. CASE UNCHANGED clock
      BY <1>3, <3>1
    <3>2. CASE \E r \in Requests : Count(r)
      BY <1>3, <3>2 DEF Count
    <3>3. CASE \E v \in Windows : Expire(v)
      BY <1>1, <1>3, <3>3 DEF Expire, TypeOK
    <3>4. QED
      <4>1. CASE UNCHANGED vars \/ Restart
        BY <3>1, <4>1 DEF vars, rowVars, Restart
      <4>2. CASE Elsewhere
        BY <3>1, <3>3, <4>2 DEF Elsewhere, rowVars, Lose, Subscribe, UpdatePlan, DeletePlan
      <4>3. CASE \E r \in Requests : Relayed(r)
        BY <3>1, <3>2, <4>3
        DEF Relayed, CheckRow, CheckPlan, Refuse, PreConsume, PreConsumeFails,
            Deduct, Refund, RefundAndSettle, Lose, rowVars
      <4>4. QED
        BY <4>1, <4>2, <4>3, QuotaSteps DEF Next, Elsewhere
  <2>2. QED
    BY <1>3, <2>1 DEF Quiet
<1>4. Quiet /\ changes = 0
  BY <1>1, <1>2, <1>3 DEF Quiet, planVars
<1>5. QED
  BY <1>1, <1>2, <1>4 DEF QInv, IInv

(* A step that reserves, refunds and lets through nothing.                 *)
LEMMA Unmoved ==
  ASSUME QInv, Bounds, UNCHANGED <<usage, clock, planVars>>,
         inside' \in SUBSET Requests, passed' \in SUBSET Requests,
         Booked' = Booked, Refunded' = Refunded, Denied' = Denied,
         Full /\ Live /\ CountBased => Pending' \subseteq Pending
  PROVE  /\ \A w \in DOMAIN plan'.limits : Within(w)'
         /\ Live' /\ CountBased' => DeniedBounded'
<1>1. plan' = plan /\ Live' = Live /\ CountBased' = CountBased /\ Full' = Full
  BY DEF planVars, Live, CountBased, Full, Current
<1>2. \A w \in DOMAIN plan'.limits : Within(w)'
  BY <1>1 DEF Bounds, Within
<1>3. ASSUME Live, CountBased PROVE DeniedBounded'
  <2>1. Full => Cardinality(Pending') <= Cardinality(Pending)
    BY <1>3, SetsFinite, Smaller DEF QInv
  <2>2. /\ Cardinality(Pending) \in Nat /\ Cardinality(Pending') \in Nat
        /\ Cardinality(Denied) \in Nat /\ Cardinality(Refunded) \in Nat
    BY SetsFinite, SetsFiniteAfter DEF QInv
  <2>3. (Slots - 1) * (Cardinality(Refunded) + 1) \in Nat
    BY <2>2, RoomForOneMore
  <2>4. DeniedBounded
    BY <1>3 DEF Bounds
  <2>5. QED
    BY <1>1, <2>1, <2>2, <2>3, <2>4 DEF DeniedBounded
<1>4. QED
  BY <1>1, <1>2, <1>3

(* A step that only changes where a request is leaves what was reserved.   *)
LEMMA SameBooks ==
  ASSUME UNCHANGED <<bookVars, passed>>
  PROVE  Booked' = Booked /\ Refunded' = Refunded /\ Denied' = Denied
BY DEF bookVars, Booked, Refunded, Denied

(* The plan is full: a row read now exceeds its limits.                    *)
LEMMA FullExceeded ==
  ASSUME TypeOK, Quiet, Full, CountBased
  PROVE  Exceeded(Row)
<1>1. PICK w \in DOMAIN plan.limits : Current(w) >= plan.limits[w]
  BY DEF Full
<1>2. w \in Windows
  BY <1>1, PlanTypes DEF TypeOK
<1>3. clock[w] # "expired"
  BY <1>2 DEF Quiet
<1>4. QED
  BY <1>1, <1>3 DEF Exceeded, Row, Current

LEMMA EnterKeeps ==
  ASSUME QInv, Quiet, Bounds, TypeOK, NEW r \in Requests, Enter(r)
  PROVE  Bounds'
<1>1. /\ UNCHANGED <<rowVars, planVars, bookVars, passed>>
      /\ inside' = inside \cup {r}
      /\ seen' = [seen EXCEPT ![r] = Row]
      /\ pc[r] = "new"
  BY DEF Enter, CheckRow, Go
<1>2. /\ pc'[r] = IF subscribed THEN "checking" ELSE "checked"
      /\ \A q \in Requests \ {r} : pc'[q] = pc[q] /\ seen'[q] = seen[q]
      /\ seen'[r] = Row
  BY <1>1 DEF Enter, CheckRow, Go, TypeOK
<1>3. r \notin passed /\ inside \in SUBSET Requests /\ passed \in SUBSET Requests
  BY <1>1 DEF Bounds, Placed, QInv
<1>4. \A q \in Requests : Placed(q)'
  BY <1>1, <1>2, <1>3 DEF Bounds, Placed, Live, CountBased, rowVars, planVars
<1>5. ASSUME Full, CountBased PROVE Pending' \subseteq Pending
  <2>1. Exceeded(Row)
    BY <1>5, FullExceeded
  <2>2. \A q \in Requests : Exceeded(seen[q])' <=> Exceeded(seen'[q])
    BY <1>1 DEF Exceeded, CountBased, TokenBased, rowVars, planVars
  <2>3. r \notin Pending'
    BY <1>2, <1>1, <1>3, <2>1, <2>2 DEF Pending
  <2>4. \A q \in Requests \ {r} : q \in Pending' => q \in Pending
    BY <1>1, <1>2, <2>2 DEF Pending
  <2>5. QED
    BY <1>1, <1>3, <2>3, <2>4 DEF Pending
<1>6. QED
  BY <1>1, <1>3, <1>4, <1>5, SameBooks, Unmoved DEF Bounds, rowVars

(* Steps after which some requests are done, have left or are let through, *)
(* and the books are as they were.                                         *)
LEMMA QuietKeeps ==
  ASSUME QInv, Quiet, Bounds, TypeOK,
         UNCHANGED <<usage, clock, planVars, bookVars, passed>>,
         subscribed => subscribed',
         inside' \in SUBSET Requests,
         \A r \in Requests :
           \/ pc'[r] = "done"
           \/ pc'[r] = pc[r] /\ seen'[r] = seen[r] /\ (r \in inside' <=> r \in inside)
           \/ pc'[r] = pc[r] /\ pc[r] = "sent"
  PROVE  Bounds'
<1>1. \A r \in Requests : Placed(r)'
  BY DEF Bounds, Placed, Live, CountBased, planVars
<1>2. ASSUME NEW r \in Requests, r \in Pending' PROVE r \in Pending
  <2>1. /\ pc'[r] = pc[r] /\ seen'[r] = seen[r] /\ r \in inside
        /\ pc[r] \in {"checking", "checked"}
    BY <1>2 DEF Pending
  <2>2. CASE pc[r] = "checked"
    BY <1>2, <2>1, <2>2 DEF Pending
  <2>3. CASE pc[r] = "checking"
    <3>1. ~Exceeded(seen[r])'
      BY <1>2, <2>1, <2>3 DEF Pending
    <3>2. Exceeded(seen[r])' <=> Exceeded(seen[r])
      BY <2>1 DEF Exceeded, CountBased, TokenBased, planVars
    <3>3. QED
      BY <2>1, <2>3, <3>1, <3>2 DEF Pending
  <2>4. QED
    BY <2>1, <2>2, <2>3
<1>3. passed' \in SUBSET Requests /\ Pending' \subseteq Requests
  BY DEF QInv, Pending
<1>4. QED
  BY <1>1, <1>2, <1>3, SameBooks, Unmoved DEF Bounds, bookVars

LEMMA CheckKeeps ==
  ASSUME QInv, Quiet, Bounds, TypeOK, Core, NEW r \in Requests, Check(r)
  PROVE  Bounds' /\ passed' \in SUBSET Requests
<1>1. /\ UNCHANGED <<rowVars, planVars, seen, bookVars, inside>>
      /\ pc[r] = "checking"
      /\ pc'[r] = IF Live /\ Exceeded(seen[r]) THEN "done" ELSE "checked"
      /\ \A q \in Requests \ {r} : pc'[q] = pc[q]
      /\ passed' = IF pc'[r] = "checked" /\ Live /\ CountBased
                     THEN passed \cup {r} ELSE passed
  BY DEF Check, CheckPlan, Go, TypeOK
<1>2. passed' \in SUBSET Requests /\ inside' \in SUBSET Requests
  BY <1>1 DEF QInv
<1>3. r \notin passed /\ subscribed /\ r \in inside
  BY <1>1 DEF Bounds, Placed
<1>4. \A q \in Requests : Placed(q)'
  BY <1>1, <1>3 DEF Bounds, Placed, Live, CountBased, rowVars, planVars
<1>5. reserved[r] = "unasked"
  BY <1>1 DEF Core, CoreOf, Before
<1>6. Denied' = Denied
  BY <1>1, <1>5 DEF Denied, bookVars
<1>7. Booked' = Booked /\ Refunded' = Refunded
  BY <1>1 DEF Booked, Refunded, bookVars
<1>8. ASSUME Live, CountBased PROVE Pending' \subseteq Pending
  <2>1. \A q \in Requests : Exceeded(seen[q])' <=> Exceeded(seen[q])
    BY <1>1 DEF Exceeded, CountBased, TokenBased, rowVars, planVars
  <2>2. r \in Pending' => r \in Pending
    BY <1>1, <1>3, <1>8 DEF Pending
  <2>3. \A q \in Requests \ {r} : q \in Pending' => q \in Pending
    BY <1>1, <2>1 DEF Pending
  <2>4. Pending' \subseteq Requests
    BY <1>2 DEF Pending
  <2>5. QED
    BY <2>2, <2>3, <2>4
<1>9. QED
  BY <1>1, <1>2, <1>4, <1>6, <1>7, <1>8, Unmoved DEF Bounds, rowVars

(* What every reservation has in common. *)
LEMMA ReservingFacts ==
  ASSUME QInv, Quiet, Bounds, TypeOK, Core, NEW r \in Requests,
         PreConsume(r) \/ PreConsumeFails(r), UNCHANGED <<inside, passed>>
  PROVE  /\ pc[r] = "checked" /\ pc'[r] = "sent" /\ r \in inside
         /\ \A q \in Requests \ {r} :
              pc'[q] = pc[q] /\ reserved'[q] = reserved[q] /\ seen'[q] = seen[q]
         /\ reserved[r] = "unasked"
         /\ UNCHANGED <<subscribed, planVars, closed>>
         /\ \A q \in Requests : Placed(q)'
         /\ Refunded' = Refunded /\ r \notin Booked /\ r \notin Denied
<1>1. /\ pc[r] = "checked" /\ pc'[r] = "sent"
      /\ \A q \in Requests \ {r} : pc'[q] = pc[q] /\ reserved'[q] = reserved[q]
      /\ UNCHANGED <<subscribed, planVars, closed>>
  BY PreConsumeTypes
<1>2. \A q \in Requests \ {r} : seen'[q] = seen[q]
  BY DEF PreConsume, PreConsumeFails, Forget, TypeOK
<1>3. reserved[r] = "unasked"
  BY <1>1 DEF Core, CoreOf, Before
<1>4. r \in inside
  BY <1>1 DEF Bounds, Placed
<1>5. \A q \in Requests : Placed(q)'
  BY <1>1 DEF Bounds, Placed, Live, CountBased, planVars
<1>6. Refunded' = Refunded /\ r \notin Booked /\ r \notin Denied
  BY <1>1, <1>3 DEF Refunded, Booked, Denied
<1>7. QED
  BY <1>1, <1>2, <1>3, <1>4, <1>5, <1>6

(* A request that reserves is pending no more.                             *)
LEMMA PendingShrinks ==
  ASSUME UNCHANGED <<plan, clock>>, UNCHANGED <<inside, passed>>,
         inside \in SUBSET Requests, NEW r \in Requests, pc'[r] = "sent",
         \A q \in Requests \ {r} : pc'[q] = pc[q] /\ seen'[q] = seen[q]
  PROVE  Pending' \subseteq Pending \ {r}
<1>1. r \notin Pending'
  BY DEF Pending
<1>2. \A q \in Requests \ {r} : Exceeded(seen[q])' <=> Exceeded(seen[q])
  BY DEF Exceeded, CountBased, TokenBased
<1>3. \A q \in Requests \ {r} : q \in Pending' => q \in Pending
  BY <1>2 DEF Pending
<1>4. Pending' \subseteq Requests
  BY DEF Pending
<1>5. QED
  BY <1>1, <1>3, <1>4

(* A request is counted: it takes room in every window of the plan, and    *)
(* when that fills it, the others inside are those checked before.         *)
LEMMA CountKeeps ==
  ASSUME QInv, Quiet, Bounds, TypeOK, Core, NEW r \in Requests, PreConsume(r),
         UNCHANGED <<inside, passed>>,
         Live, CountBased, ~Full, Count(r), reserved'[r] = "count"
  PROVE  Bounds'
<1>1. /\ pc[r] = "checked" /\ pc'[r] = "sent" /\ r \in inside
      /\ \A q \in Requests \ {r} :
           pc'[q] = pc[q] /\ reserved'[q] = reserved[q] /\ seen'[q] = seen[q]
      /\ reserved[r] = "unasked"
      /\ UNCHANGED <<subscribed, planVars, closed>>
      /\ \A q \in Requests : Placed(q)'
      /\ Refunded' = Refunded /\ r \notin Booked /\ r \notin Denied
  BY ReservingFacts
<1>2. inside \in SUBSET Requests /\ passed \in SUBSET Requests /\ plan' = plan
  BY <1>1 DEF QInv, planVars
<1>3. Booked' = Booked \cup {r} /\ Denied' = Denied
  BY <1>1, <1>2 DEF Booked, Denied
<1>4. /\ Cardinality(Booked') = Cardinality(Booked) + 1
      /\ Cardinality(Booked) \in Nat /\ Cardinality(Refunded) \in Nat
      /\ Cardinality(Denied) \in Nat
  BY <1>1, <1>2, <1>3, SetsFinite, FS_AddElement
<1>5. ASSUME NEW w \in DOMAIN plan'.limits
      PROVE  Within(w)'
  <2>1. w \in Windows /\ plan.limits[w] \in Nat
    BY <1>2, BillingAssumption DEF TypeOK
  <2>2. usage[w] < plan.limits[w] /\ usage[w] \in Nat
    BY <1>2, <2>1 DEF Full, Current, Quiet, TypeOK
  <2>3. usage'[w] = usage[w] + 1
    BY <1>2, <2>1 DEF Count, Current, Quiet
  <2>4. Cardinality(Booked) <= usage[w] + Cardinality(Refunded)
    BY <1>2 DEF Bounds, Within
  <2>5. QED
    BY <1>1, <1>2, <1>4, <2>1, <2>2, <2>3, <2>4 DEF Within
<1>6. DeniedBounded'
  <2>1. Cardinality(Denied) <= (Slots - 1) * Cardinality(Refunded)
    BY DEF Bounds, DeniedBounded
  <2>2. Pending' \subseteq inside \ {r}
    BY <1>1, <1>2 DEF Pending
  <2>3. /\ IsFiniteSet(inside \ {r})
        /\ Cardinality(inside \ {r}) = Cardinality(inside) - 1
        /\ Cardinality(inside) \in Nat /\ Cardinality(inside) <= Slots
    BY <1>1, <1>2, SetsFinite, FS_RemoveElement DEF QInv
  <2>4. Cardinality(Pending') <= Cardinality(inside \ {r})
    BY <2>2, <2>3, Smaller
  <2>5. Cardinality(Pending') \in Nat /\ Slots \in Nat
    BY <1>2, SetsFiniteAfter, QuotaAssumption
  <2>6. /\ (Slots - 1) * (Cardinality(Refunded) + 1)
             = (Slots - 1) * Cardinality(Refunded) + (Slots - 1)
        /\ (Slots - 1) * Cardinality(Refunded) \in Nat
    BY <1>4, RoomForOneMore
  <2>7. Cardinality(Denied) + Cardinality(Pending')
          <= (Slots - 1) * (Cardinality(Refunded) + 1)
    BY <1>4, <2>1, <2>3, <2>4, <2>5, <2>6
  <2>8. QED
    BY <1>1, <1>3, <2>1, <2>7 DEF DeniedBounded
<1>7. QED
  BY <1>1, <1>5, <1>6 DEF Bounds

(* A request is refused by PreConsume: it was pending, and is denied.      *)
LEMMA DenyKeeps ==
  ASSUME QInv, Quiet, Bounds, TypeOK, Core, NEW r \in Requests, PreConsume(r),
         UNCHANGED <<inside, passed>>,
         ~(subscribed /\ Live /\ (TokenBased \/ (CountBased /\ ~Full))),
         reserved'[r] = "nothing", UNCHANGED <<rowVars, counted>>
  PROVE  Bounds'
<1>1. /\ pc[r] = "checked" /\ pc'[r] = "sent" /\ r \in inside
      /\ \A q \in Requests \ {r} :
           pc'[q] = pc[q] /\ reserved'[q] = reserved[q] /\ seen'[q] = seen[q]
      /\ reserved[r] = "unasked"
      /\ UNCHANGED <<subscribed, planVars, closed>>
      /\ \A q \in Requests : Placed(q)'
      /\ Refunded' = Refunded /\ r \notin Booked /\ r \notin Denied
  BY ReservingFacts
<1>2. /\ inside \in SUBSET Requests /\ passed \in SUBSET Requests
      /\ UNCHANGED <<plan, clock, usage>>
  BY <1>1 DEF QInv, planVars, rowVars
<1>3. Booked' = Booked
  BY <1>1 DEF Booked
<1>4. Pending' \subseteq Pending \ {r}
  BY <1>1, <1>2, PendingShrinks
<1>5. CASE r \notin passed
  <2>1. Denied' = Denied
    BY <1>1, <1>2, <1>5 DEF Denied
  <2>2. QED
    BY <1>1, <1>2, <1>3, <1>4, <2>1, Unmoved DEF Bounds
<1>6. CASE r \in passed
  <2>1. Live /\ CountBased /\ Full
    BY <1>6 DEF Bounds, Placed
  <2>2. Denied' = Denied \cup {r} /\ r \in Pending
    BY <1>1, <1>2, <1>6 DEF Denied, Pending
  <2>3. /\ Cardinality(Denied') = Cardinality(Denied) + 1
        /\ Cardinality(Denied) \in Nat /\ Cardinality(Pending) \in Nat
        /\ Cardinality(Refunded) \in Nat /\ IsFiniteSet(Pending)
    BY <1>1, <1>2, <2>2, SetsFinite, FS_AddElement
  <2>4. /\ IsFiniteSet(Pending \ {r})
        /\ Cardinality(Pending \ {r}) = Cardinality(Pending) - 1
    BY <2>2, <2>3, FS_RemoveElement
  <2>5. Cardinality(Pending') <= Cardinality(Pending \ {r})
    BY <1>4, <2>4, Smaller
  <2>6. Cardinality(Denied) + Cardinality(Pending)
          <= (Slots - 1) * (Cardinality(Refunded) + 1)
    BY <2>1 DEF Bounds, DeniedBounded
  <2>7. /\ Cardinality(Pending') \in Nat
        /\ (Slots - 1) * (Cardinality(Refunded) + 1) \in Nat
    BY <1>2, <2>3, SetsFiniteAfter, RoomForOneMore
  <2>8. Cardinality(Denied') + Cardinality(Pending')
          <= (Slots - 1) * (Cardinality(Refunded) + 1)
    BY <2>3, <2>4, <2>5, <2>6, <2>7
  <2>9. Full'
    BY <1>2, <2>1 DEF Full, Current
  <2>10. DeniedBounded'
    BY <1>1, <2>8, <2>9 DEF DeniedBounded
  <2>11. \A w \in DOMAIN plan'.limits : Within(w)'
    BY <1>1, <1>2, <1>3 DEF Bounds, Within
  <2>12. QED
    BY <1>1, <2>10, <2>11 DEF Bounds
<1>7. QED
  BY <1>5, <1>6

LEMMA PreConsumeBounds ==
  ASSUME QInv, Quiet, Bounds, TypeOK, Core, NEW r \in Requests,
         PreConsume(r) \/ PreConsumeFails(r), UNCHANGED <<inside, passed>>
  PROVE  Bounds'
<1>1. /\ pc[r] = "checked" /\ pc'[r] = "sent" /\ r \in inside
      /\ \A q \in Requests \ {r} :
           pc'[q] = pc[q] /\ reserved'[q] = reserved[q] /\ seen'[q] = seen[q]
      /\ reserved[r] = "unasked"
      /\ UNCHANGED <<subscribed, planVars, closed>>
      /\ \A q \in Requests : Placed(q)'
      /\ Refunded' = Refunded /\ r \notin Booked /\ r \notin Denied
  BY ReservingFacts
<1>2. inside \in SUBSET Requests /\ passed \in SUBSET Requests
  BY DEF QInv
<1>3. CASE /\ reserved'[r] \in {"failed", "tokens"}
           /\ UNCHANGED <<usage, clock>>
  <2>1. Booked' = Booked /\ Denied' = Denied
    BY <1>1, <1>2, <1>3 DEF Booked, Denied
  <2>2. Pending' \subseteq Pending \ {r}
    BY <1>1, <1>2, <1>3, PendingShrinks DEF planVars
  <2>3. QED
    BY <1>1, <1>2, <1>3, <2>1, <2>2, Unmoved DEF Bounds
<1>4. CASE PreConsumeFails(r)
  BY <1>3, <1>4 DEF PreConsumeFails, rowVars, TypeOK
<1>5. CASE PreConsume(r)
  <2>1. CASE TokenBased /\ Deduct(r) /\ reserved'[r] = "tokens"
    BY <1>3, <2>1 DEF Deduct
  <2>2. CASE Live /\ CountBased /\ ~Full /\ Count(r) /\ reserved'[r] = "count"
    BY <1>5, <2>2, CountKeeps
  <2>3. CASE /\ ~(subscribed /\ Live /\ (TokenBased \/ (CountBased /\ ~Full)))
             /\ reserved'[r] = "nothing" /\ UNCHANGED <<rowVars, counted>>
    BY <1>5, <2>3, DenyKeeps
  <2>4. QED
    BY <1>5, <2>1, <2>2, <2>3 DEF PreConsume, TypeOK
<1>6. QED
  BY <1>4, <1>5

(* A request is refunded: that makes room for another, and for as many     *)
(* beside it as there are slots.                                           *)
LEMMA RefundBounds ==
  ASSUME QInv, Quiet, Bounds, TypeOK, Core, NEW r \in Requests, Refund(r), Quiet',
         UNCHANGED <<inside, passed>>
  PROVE  Bounds'
<1>1. /\ Close(r, "returned", 0)
      /\ UNCHANGED <<subscribed, clock, seen, reserved, planVars>>
  BY DEF Refund, Close
<1>2. /\ pc[r] = "sent" /\ pc'[r] = "done" /\ closed'[r] = "returned"
      /\ \A q \in Requests \ {r} : pc'[q] = pc[q] /\ closed'[q] = closed[q]
      /\ TypeOK'
  BY <1>1, CloseTypes, RefundTypes, BillingAssumption
<1>3. /\ inside \in SUBSET Requests /\ passed \in SUBSET Requests
      /\ plan' = plan /\ deleted' = deleted
  BY <1>1 DEF QInv, planVars
<1>4. r \notin Refunded
  BY <1>2 DEF Core, CoreOf, Refunded
<1>5. Refunded' = Refunded \cup {r} /\ Booked' = Booked /\ Denied' = Denied
  BY <1>1, <1>2, <1>3 DEF Refunded, Booked, Denied
<1>6. /\ Cardinality(Refunded') = Cardinality(Refunded) + 1
      /\ Cardinality(Refunded) \in Nat /\ Cardinality(Booked) \in Nat
      /\ Cardinality(Denied) \in Nat /\ Cardinality(Pending) \in Nat
      /\ IsFiniteSet(Pending)
  BY <1>3, <1>4, <1>5, SetsFinite, FS_AddElement
<1>7. ASSUME NEW w \in Windows
      PROVE  /\ usage[w] \in Nat /\ usage'[w] \in Nat
             /\ usage'[w] <= usage[w] /\ usage[w] <= usage'[w] + 1
  <2>1. usage[w] \in Nat
    BY DEF TypeOK
  <2>2. CASE Uncount
    BY <2>1, <2>2 DEF Uncount
  <2>3. CASE UNCHANGED usage
    BY <2>1, <2>3
  <2>4. QED
    BY <2>2, <2>3 DEF Refund
<1>8. \A q \in Requests : Placed(q)'
  BY <1>1, <1>2, <1>3 DEF Bounds, Placed, Live, CountBased
<1>9. ASSUME NEW w \in DOMAIN plan'.limits
      PROVE  Within(w)'
  <2>1. w \in Windows /\ plan.limits[w] \in Nat
    BY <1>3, BillingAssumption DEF TypeOK
  <2>2. usage[w] <= plan.limits[w] /\ Cardinality(Booked) <= usage[w] + Cardinality(Refunded)
    BY <1>3 DEF Bounds, Within
  <2>3. /\ usage[w] \in Nat /\ usage'[w] \in Nat
        /\ usage'[w] <= usage[w] /\ usage[w] <= usage'[w] + 1
    BY <2>1, <1>7
  <2>4. QED
    BY <1>3, <1>5, <1>6, <2>1, <2>2, <2>3 DEF Within
<1>10. ASSUME Live, CountBased
       PROVE  DeniedBounded'
  <2>1. Pending' \subseteq Pending
    <3>1. \A q \in Requests \ {r} : Exceeded(seen[q])' <=> Exceeded(seen[q])
      BY <1>1, <1>3 DEF Exceeded, CountBased, TokenBased
    <3>2. QED
      BY <1>1, <1>2, <1>3, <3>1 DEF Pending
  <2>2. Cardinality(Pending') <= Cardinality(Pending) /\ Cardinality(Pending') \in Nat
    BY <1>3, <1>6, <2>1, Smaller, SetsFiniteAfter
  <2>3. Full' => Full
    <3> SUFFICES ASSUME NEW w \in DOMAIN plan.limits, usage'[w] >= plan.limits[w],
                        w \in Windows
                 PROVE  Full
      BY <1>3, PlanTypes DEF Full, Current, Quiet, TypeOK
    <3>1. usage[w] >= plan.limits[w]
      <4>1. plan.limits[w] \in Nat
        BY BillingAssumption DEF TypeOK
      <4>2. QED
        BY <1>7, <4>1
    <3>2. QED
      BY <3>1 DEF Full, Current, Quiet
  <2>4. DeniedBounded
    BY <1>10 DEF Bounds
  <2>5. /\ (Slots - 1) * (Cardinality(Refunded) + 1)
             = (Slots - 1) * Cardinality(Refunded) + (Slots - 1)
        /\ (Slots - 1) * Cardinality(Refunded) \in Nat /\ (Slots - 1) \in Nat
        /\ (Slots - 1) * (Cardinality(Refunded) + 1) \in Nat
    BY <1>6, RoomForOneMore
  <2>6. /\ (Slots - 1) * (Cardinality(Refunded') + 1)
             = (Slots - 1) * Cardinality(Refunded') + (Slots - 1)
        /\ Cardinality(Refunded') \in Nat
    <3>1. Cardinality(Refunded') \in Nat
      BY <1>6
    <3>2. QED
      BY <3>1, RoomForOneMore
  <2> DEFINE a == (Slots - 1) * (Cardinality(Refunded) + 1)
             b == (Slots - 1) * Cardinality(Refunded')
  <2>7. Cardinality(Denied) <= a
    BY <1>6, <2>4, <2>5 DEF DeniedBounded
  <2>8. b = a
    BY <1>6
  <2>9. Full => Cardinality(Denied) + Cardinality(Pending') <= a + (Slots - 1)
    BY <1>6, <2>2, <2>4, <2>5 DEF DeniedBounded
  <2>10. QED
    BY <1>5, <2>3, <2>6, <2>7, <2>8, <2>9 DEF DeniedBounded
<1>11. QED
  BY <1>3, <1>8, <1>9, <1>10 DEF Bounds, Live, CountBased

(* A settlement of a plan that is there returns nothing.                   *)
LEMMA SettleBounds ==
  ASSUME QInv, Quiet, Bounds, TypeOK, Core, ~deleted,
         NEW r \in Requests, RefundAndSettle(r), UNCHANGED <<inside, passed>>
  PROVE  Bounds'
<1>1. PICK tokens \in 0..MaxTokens : Close(r, "settled", tokens)
  BY BillingAssumption DEF RefundAndSettle
<1>2. /\ pc[r] = "sent" /\ pc'[r] = "done" /\ closed'[r] = "settled"
      /\ \A q \in Requests \ {r} : pc'[q] = pc[q] /\ closed'[q] = closed[q]
      /\ UNCHANGED <<planVars, seen, reserved>>
  BY <1>1, CloseTypes
<1>3. UNCHANGED <<subscribed, usage, clock>>
  BY SettleTypes
<1>4. closed[r] = "open"
  BY <1>2 DEF Core, CoreOf
<1>5. Refunded' = Refunded /\ Booked' = Booked /\ Denied' = Denied
  BY <1>2, <1>4 DEF Refunded, Booked, Denied
<1>6. /\ inside' \in SUBSET Requests /\ passed' \in SUBSET Requests
      /\ plan' = plan
  BY <1>2 DEF QInv, planVars
<1>7. \A q \in Requests : Placed(q)'
  BY <1>2, <1>3, <1>6 DEF Bounds, Placed, Live, CountBased, planVars
<1>8. Pending' \subseteq Pending
  <2>1. \A q \in Requests : Exceeded(seen[q])' <=> Exceeded(seen[q])
    BY <1>2, <1>3, <1>6 DEF Exceeded, CountBased, TokenBased
  <2>2. QED
    BY <1>2, <1>6, <2>1 DEF Pending
<1>9. QED
  BY <1>2, <1>3, <1>5, <1>6, <1>7, <1>8, Unmoved DEF Bounds

----------------------------------------------------------------------------

(* The slots are never more than there are. *)
LEMMA SlotsKept ==
  ASSUME QInv, [QuotaNext]_all
  PROVE  /\ inside' \in SUBSET Requests /\ passed' \in SUBSET Requests
         /\ Cardinality(inside') <= Slots
<1>1. /\ inside \in SUBSET Requests /\ passed \in SUBSET Requests
      /\ IsFiniteSet(inside) /\ Cardinality(inside) \in Nat
      /\ Slots \in Nat /\ Cardinality(inside) <= Slots
  BY SetsFinite, QuotaAssumption DEF QInv
<1>2. ASSUME NEW r \in Requests, Enter(r)
      PROVE  /\ inside' \in SUBSET Requests /\ passed' = passed
             /\ Cardinality(inside') <= Slots
  <2>1. inside' = inside \cup {r} /\ Cardinality(inside) < Slots
    BY <1>2 DEF Enter
  <2>2. Cardinality(inside') <= Cardinality(inside) + 1
    <3>1. Cardinality(inside \cup {r})
            = IF r \in inside THEN Cardinality(inside) ELSE Cardinality(inside) + 1
      BY <1>1, FS_AddElement
    <3>2. QED
      BY <1>1, <2>1, <3>1
  <2>3. Cardinality(inside') \in Nat
    BY <1>1, <2>1, FS_AddElement
  <2>4. QED
    BY <1>1, <1>2, <2>1, <2>2, <2>3 DEF Enter
<1>3. CASE inside' \subseteq inside /\ passed' \in SUBSET Requests
  <2>1. Cardinality(inside') <= Cardinality(inside) /\ IsFiniteSet(inside')
    BY <1>1, <1>3, FS_Subset
  <2>2. Cardinality(inside') \in Nat
    BY <2>1, FS_CardinalityType
  <2>3. QED
    BY <1>1, <1>3, <2>1, <2>2
<1>4. CASE UNCHANGED all
  BY <1>1, <1>3, <1>4 DEF all
<1>5. CASE QuotaNext
  BY <1>1, <1>2, <1>3, <1>5 DEF QuotaNext, TurnAway, Check, Continue, Leave, Restart
<1>6. QED
  BY <1>4, <1>5

(* A plan that was not edited is as it was. *)
LEMMA UneditedKept ==
  ASSUME QInv, [QuotaNext]_all, changes' = 0
  PROVE  steady' /\ ~deleted'
<1>1. changes \in Nat
  BY DEF QInv, IInv, TypeOK
<1>2. ~UpdatePlan /\ ~DeletePlan
  <2>1. changes' # changes + 1
    BY <1>1
  <2>2. QED
    BY <2>1, Zenon DEF UpdatePlan, DeletePlan
<1>3. UNCHANGED planVars
  <2>1. CASE UNCHANGED vars \/ Restart
    BY <2>1 DEF vars, Restart
  <2>2. CASE \E r \in Requests : Relayed(r)
    BY <2>2 DEF Relayed, CheckRow, CheckPlan, Refuse, PreConsume, PreConsumeFails,
                Refund, RefundAndSettle, Close, Lose
  <2>3. CASE Subscribe \/ \E w \in Windows : Expire(w)
    BY <2>3 DEF Expire, Subscribe
  <2>4. QED
    BY <1>2, <2>1, <2>2, <2>3, QuotaSteps DEF Next
<1>4. QED
  BY <1>3 DEF QInv, planVars

LEMMA NextBounds ==
  ASSUME QInv, [QuotaNext]_all, Quiet'
  PROVE  Bounds'
<1>1. /\ Quiet /\ Bounds /\ UNCHANGED planVars
      /\ TypeOK /\ Core /\ ~deleted
  BY QuietBefore
<1>2. /\ inside' \in SUBSET Requests /\ passed' \in SUBSET Requests
  BY SlotsKept
<1>3. ASSUME NEW r \in Requests, Enter(r) PROVE Bounds'
  BY <1>1, <1>3, EnterKeeps
<1>4. ASSUME NEW r \in Requests, Check(r) PROVE Bounds'
  BY <1>1, <1>4, CheckKeeps
<1>5. ASSUME NEW r \in Requests, PreConsume(r) \/ PreConsumeFails(r),
             UNCHANGED <<inside, passed>>
      PROVE  Bounds'
  BY <1>1, <1>5, PreConsumeBounds
<1>6. ASSUME NEW r \in Requests, Refund(r), UNCHANGED <<inside, passed>>
      PROVE  Bounds'
  BY <1>1, <1>6, RefundBounds
<1>7. ASSUME NEW r \in Requests, RefundAndSettle(r), UNCHANGED <<inside, passed>>
      PROVE  Bounds'
  BY <1>1, <1>7, SettleBounds
<1>8. ASSUME NEW r \in Requests, Refuse(r) \/ Lose(r), UNCHANGED <<inside, passed>>
      PROVE  Bounds'
  <2>1. /\ UNCHANGED <<usage, clock, planVars, bookVars, passed, inside, subscribed>>
        /\ pc'[r] = "done"
        /\ \A q \in Requests \ {r} : pc'[q] = pc[q] /\ seen'[q] = seen[q]
    BY <1>1, <1>8 DEF Refuse, Lose, Forget, Go, rowVars, TypeOK
  <2>2. QED
    BY <1>1, <1>2, <2>1, QuietKeeps
<1>9. ASSUME NEW r \in Requests, Leave(r) PROVE Bounds'
  <2>1. /\ UNCHANGED <<usage, clock, planVars, bookVars, passed, subscribed, pc, seen>>
        /\ inside' = inside \ {r} /\ pc[r] \in {"sent", "done"}
    BY <1>9 DEF Leave, vars, rowVars
  <2>2. QED
    BY <1>1, <1>2, <2>1, QuietKeeps
<1>10. CASE Restart
  <2>1. /\ UNCHANGED <<usage, clock, planVars, bookVars, passed, subscribed>>
        /\ \A q \in Requests : pc'[q] = IF pc[q] = "new" THEN "new" ELSE "done"
        /\ inside' = {}
    BY <1>10 DEF Restart, rowVars
  <2>2. \A q \in Requests : Placed(q)'
    BY <1>1, <2>1 DEF Bounds, Placed, Live, CountBased, planVars
  <2>3. Pending' \subseteq Pending
    BY <2>1 DEF Pending
  <2>4. QED
    BY <1>1, <1>2, <2>1, <2>2, <2>3, SameBooks, Unmoved DEF Bounds
<1>11. CASE Subscribe /\ UNCHANGED <<inside, passed>>
  <2>1. /\ UNCHANGED <<usage, clock, planVars, bookVars, passed, pc, seen, inside>>
        /\ subscribed'
    BY <1>11 DEF Subscribe
  <2>2. QED
    BY <1>1, <1>2, <2>1, QuietKeeps
<1>12. ASSUME NEW w \in Windows, Expire(w) PROVE FALSE
  BY <1>1, <1>12 DEF Expire, Quiet, TypeOK
<1>13. CASE UNCHANGED all
  <2>1. UNCHANGED <<usage, clock, planVars, bookVars, passed, pc, seen, inside, subscribed>>
    BY <1>13 DEF all, vars, rowVars
  <2>2. QED
    BY <1>1, <1>2, <2>1, QuietKeeps
<1>14. ~UpdatePlan /\ ~DeletePlan
  <2>1. changes' # changes + 1
    BY <1>1 DEF planVars, Quiet
  <2>2. QED
    BY <2>1, Zenon DEF UpdatePlan, DeletePlan
<1>15. CASE QuotaNext
  BY <1>3, <1>4, <1>5, <1>6, <1>7, <1>8, <1>9, <1>10, <1>11, <1>12, <1>14, <1>15
  DEF QuotaNext, TurnAway, Continue
<1>16. QED
  BY <1>13, <1>15

LEMMA NextQInv == QInv /\ [QuotaNext]_all => QInv'
<1> SUFFICES ASSUME QInv, [QuotaNext]_all PROVE QInv'
  OBVIOUS
<1>1. IInv'
  BY QuotaSteps, NextIInv, RestartKeeps DEF QInv
<1>2. QED
  BY <1>1, SlotsKept, UneditedKept, NextBounds DEF QInv

LEMMA InitQInv == QuotaInit => QInv
<1> SUFFICES ASSUME QuotaInit PROVE QInv
  OBVIOUS
<1>1. IInv /\ TypeOK
  BY InitIInv DEF QuotaInit, IInv
<1>2. inside = {} /\ passed = {} /\ Cardinality(inside) = 0 /\ 0 <= Slots
  BY FS_EmptySet, QuotaAssumption DEF QuotaInit
<1>3. \A r \in Requests : Placed(r)
  BY <1>2 DEF QuotaInit, Init, Placed
<1>4. Booked = {} /\ Refunded = {} /\ Denied = {} /\ Pending = {}
  BY <1>2 DEF QuotaInit, Init, Booked, Refunded, Denied, Pending
<1>5. /\ Cardinality(Booked) = 0 /\ Cardinality(Refunded) = 0
      /\ Cardinality(Denied) = 0 /\ Cardinality(Pending) = 0
  BY <1>4, FS_EmptySet
<1>6. \A w \in DOMAIN plan.limits : Within(w)
  <2> SUFFICES ASSUME NEW w \in DOMAIN plan.limits PROVE Within(w)
    OBVIOUS
  <2>1. w \in Windows /\ plan.limits[w] \in Nat
    BY <1>1, BillingAssumption DEF TypeOK
  <2>2. usage[w] = 0
    BY <2>1 DEF QuotaInit, Init
  <2>3. QED
    BY <1>5, <2>1, <2>2 DEF Within
<1>7. DeniedBounded
  <2>1. (Slots - 1) * 0 \in Nat /\ (Slots - 1) * (0 + 1) \in Nat
    BY RoomForOneMore
  <2>2. QED
    BY <1>5, <2>1 DEF DeniedBounded
<1>8. QED
  BY <1>1, <1>2, <1>3, <1>6, <1>7 DEF QInv, Bounds, QuotaInit, Init

LEMMA BoundsServe ==
  ASSUME QInv
  PROVE  ServedBounded
<1> SUFFICES ASSUME Quiet, NEW w \in DOMAIN plan.limits
             PROVE  Cardinality(passed \cap Served)
                      <= plan.limits[w] + Slots - 1
                         + Slots * Cardinality(Refunded) + Cardinality(Unbooked)
  BY DEF ServedBounded
<1>1. TypeOK /\ Core /\ Bounds
  BY DEF QInv, IInv, Quiet
<1>2. w \in Windows /\ plan.limits[w] \in Nat /\ Slots \in Nat /\ Slots >= 1
  BY <1>1, BillingAssumption, QuotaAssumption DEF TypeOK
<1>3. /\ inside \in SUBSET Requests /\ passed \in SUBSET Requests
      /\ IsFiniteSet(Booked) /\ Cardinality(Booked) \in Nat
      /\ IsFiniteSet(Denied) /\ Cardinality(Denied) \in Nat
      /\ IsFiniteSet(Unbooked) /\ Cardinality(Unbooked) \in Nat
      /\ Cardinality(Refunded) \in Nat /\ Cardinality(Pending) \in Nat
  BY SetsFinite DEF QInv
<1> DEFINE f == Cardinality(Refunded)
<1>4. /\ (Slots - 1) * f \in Nat
      /\ (Slots - 1) * (f + 1) = (Slots - 1) * f + (Slots - 1)
      /\ Slots * f = (Slots - 1) * f + f
  BY <1>3, RoomForOneMore
<1>5. CASE passed = {}
  <2>1. Cardinality(passed \cap Served) = 0
    BY <1>5, FS_EmptySet
  <2>2. Slots * f \in Nat
    BY <1>3, <1>4
  <2>3. QED
    BY <1>2, <1>3, <2>1, <2>2
<1>6. CASE passed # {}
  <2>1. Live /\ CountBased
    BY <1>1, <1>3, <1>6 DEF Bounds, Placed
  <2>2. passed \cap Served \subseteq (Booked \cup Denied) \cup Unbooked
    BY <1>1, <1>3, <2>1 DEF Core, CoreOf, TokenBased, CountBased, TypeOK,
                            Served, Booked, Denied, Unbooked
  <2>3. /\ IsFiniteSet(Booked \cup Denied)
        /\ Cardinality(Booked \cup Denied) <= Cardinality(Booked) + Cardinality(Denied)
        /\ Cardinality(Booked \cup Denied) \in Nat
    <3>1. IsFiniteSet(Booked \cap Denied)
      BY <1>3, FS_Subset
    <3>2. Cardinality(Booked \cap Denied) \in Nat
      BY <3>1, FS_CardinalityType
    <3>3. IsFiniteSet(Booked \cup Denied)
      BY <1>3, FS_Union
    <3>4. Cardinality(Booked \cup Denied) \in Nat
      BY <3>3, FS_CardinalityType
    <3>5. Cardinality(Booked \cup Denied)
            = Cardinality(Booked) + Cardinality(Denied) - Cardinality(Booked \cap Denied)
      BY <1>3, FS_Union
    <3>6. QED
      BY <1>3, <3>2, <3>3, <3>4, <3>5
  <2> DEFINE some == Booked \cup Denied
  <2>4. /\ IsFiniteSet(some \cup Unbooked)
        /\ Cardinality(some \cup Unbooked) <= Cardinality(some) + Cardinality(Unbooked)
    <3> HIDE DEF some
    <3>1. IsFiniteSet(some)
      BY <2>3 DEF some
    <3>2. IsFiniteSet(some \cap Unbooked)
      BY <3>1, FS_Subset
    <3>3. Cardinality(some \cap Unbooked) \in Nat /\ Cardinality(some) \in Nat
      BY <3>1, <3>2, FS_CardinalityType
    <3>4. /\ IsFiniteSet(some \cup Unbooked)
          /\ Cardinality(some \cup Unbooked)
               = Cardinality(some) + Cardinality(Unbooked) - Cardinality(some \cap Unbooked)
      BY <1>3, <3>1, FS_Union
    <3>5. Cardinality(some \cup Unbooked) \in Nat
      BY <3>4, FS_CardinalityType
    <3>6. QED
      BY <1>3, <3>3, <3>4, <3>5
  <2>5. Cardinality(passed \cap Served) <= Cardinality(some \cup Unbooked)
    BY <2>2, <2>4, Smaller
  <2>6. /\ Cardinality(passed \cap Served) \in Nat
        /\ Cardinality(some \cup Unbooked) \in Nat
    <3>1. IsFiniteSet(passed \cap Served)
      BY <2>2, <2>4, FS_Subset
    <3>2. QED
      BY <2>4, <3>1, FS_CardinalityType
  <2>7. Cardinality(Booked) <= plan.limits[w] + f
    <3>1. /\ usage[w] <= plan.limits[w] /\ usage[w] \in Nat
          /\ Cardinality(Booked) <= usage[w] + f
      BY <1>1, <1>2 DEF Bounds, Within, TypeOK
    <3>2. QED
      BY <1>2, <1>3, <3>1
  <2>8. Cardinality(Denied) <= (Slots - 1) * f + (Slots - 1)
    <3>1. DeniedBounded
      BY <1>1, <2>1 DEF Bounds
    <3>2. CASE Full
      <4>1. Cardinality(Denied) + Cardinality(Pending) <= (Slots - 1) * (f + 1)
        BY <3>1, <3>2 DEF DeniedBounded
      <4>2. Cardinality(Denied) <= (Slots - 1) * (f + 1) /\ (Slots - 1) * (f + 1) \in Nat
        BY <1>3, <4>1, RoomForOneMore
      <4>3. QED
        BY <1>4, <4>2
    <3>3. CASE ~Full
      BY <1>2, <1>3, <1>4, <3>1, <3>3 DEF DeniedBounded
    <3>4. QED
      BY <3>2, <3>3
  <2>9. QED
    <3> DEFINE g == (Slots - 1) * f
               s == Slots * f
    <3>1. g \in Nat /\ s = g + f
      BY <1>4
    <3>2. Cardinality(passed \cap Served)
            <= (plan.limits[w] + f) + (g + (Slots - 1)) + Cardinality(Unbooked)
      BY <1>2, <1>3, <2>3, <2>4, <2>5, <2>6, <2>7, <2>8, <3>1
    <3> HIDE DEF g, s
    <3>3. Cardinality(passed \cap Served)
            <= plan.limits[w] + Slots - 1 + s + Cardinality(Unbooked)
      BY <1>2, <1>3, <2>6, <3>1, <3>2
    <3>4. QED
      BY <3>3 DEF s
<1>7. QED
  BY <1>5, <1>6

(* As long as the plan is not edited and no window has run out, a plan     *)
(* serves at most its limit and one request less than there are slots,     *)
(* with room for one more and as many beside it for every refund           *)
(* (handler.go:189-193, billing.go:129-142), whatever the limits are.      *)
THEOREM QuotaServedBounded == QuotaSpec => []ServedBounded
<1>1. QInv => ServedBounded
  BY BoundsServe
<1>2. QED
  BY <1>1, InitQInv, NextQInv, PTL DEF QuotaSpec

=============================================================================
