------------------------------ MODULE Billing ------------------------------
(***************************************************************************)
(* The quota of one API key (internal/relay/billing.go): the row of        *)
(* token_plans that ties the key to a plan, and the plan's row.  Requests  *)
(* with the key check their limits, reserve, are sent, and are refunded or *)
(* settled (or forgotten, when the process or the database fails), while   *)
(* an administrator edits the plan and the user subscribes to it.          *)
(*                                                                         *)
(* PreConsume, Refund and RefundAndSettle are transactions that hold the   *)
(* lock of the key's row: each is one step.  CheckLimit reads the row and  *)
(* the plan without a transaction: it is two.  A plan has a type: one that *)
(* is "count_based" limits the requests of each window, every other one    *)
(* meters tokens.                                                          *)
(***************************************************************************)
EXTENDS Integers, FiniteSets, UnitCounts

CONSTANTS
  Requests,      \* the requests sent with the key
  Windows,       \* the names of windows ("5h", "1w") a plan may limit
  MaxTokens,     \* bound of the model: tokens a request reserves or uses
  Est,           \* estimatedTokens of every request; only 0 is replaced
  PlanRows,      \* what an administrator may write in the plan's row
  MaxChanges,    \* bound of the model: edits of the plan
  Starts,        \* whether the key has a subscription at first
  Faults         \* whether the process and its transactions may fail

ASSUME BillingAssumption ==
  /\ IsFiniteSet(Requests)
  /\ MaxTokens \in Nat
  /\ Est \in [Requests -> (-MaxTokens..MaxTokens) \ {0}]
  /\ \A p \in PlanRows :
       /\ p.enabled \in BOOLEAN
       /\ p.quota \in Nat
       /\ \E W \in SUBSET Windows : p.limits \in [W -> Nat]
  /\ MaxChanges \in Nat
  /\ Starts \subseteq BOOLEAN
  /\ Faults \in BOOLEAN

VARIABLES
  subscribed,    \* whether the key has a row in token_plans
  used,          \* its used_quota
  usage,         \* its window_usage; an absent window counts 0
  clock,         \* its window_reset_at: "unset", "running" or "expired"
  plan,          \* the plan's type, enabled, limits and quota
  deleted,       \* whether deleted_at of the plan is set
  pc,            \* where every request is
  seen,          \* the row a request read in CheckLimit
  reserved,      \* what PreConsume reserved for a request
  closed,        \* how the reservation of a request was closed
  paid,          \* the tokens a request was settled for
  counted,       \* history: requests counted in a window since it was zeroed
  changes,       \* history: edits of the plan
  steady         \* history: the plan kept its type and its windows

rowVars  == <<subscribed, used, usage, clock>>
planVars == <<plan, deleted, changes, steady>>
bookVars == <<reserved, closed, paid, counted>>
vars == <<rowVars, planVars, pc, seen, bookVars>>

Row == [used |-> used, usage |-> usage,
        timed |-> {w \in Windows : clock[w] # "unset"}]

(* A request that has not read the row, or needs it no more. *)
NoRow == [used |-> 0, usage |-> [w \in Windows |-> 0], timed |-> {}]

Init ==
  /\ subscribed \in Starts
  /\ used = 0
  /\ usage = [w \in Windows |-> 0]
  /\ clock = [w \in Windows |-> "unset"]
  /\ plan \in PlanRows
  /\ deleted = FALSE
  /\ pc = [r \in Requests |-> "new"]
  /\ seen = [r \in Requests |-> NoRow]
  /\ reserved = [r \in Requests |-> "unasked"]
  /\ closed = [r \in Requests |-> "open"]
  /\ paid = [r \in Requests |-> 0]
  /\ counted = [w \in Windows |-> {}]
  /\ changes = 0
  /\ steady = TRUE

(* A plan that is disabled or deleted limits and reserves nothing. *)
Live == plan.enabled /\ ~deleted

CountBased == plan.type = "count_based"
TokenBased == plan.type = "token_based"

Forget(r) == seen' = [seen EXCEPT ![r] = NoRow]

Go(r, from, to) == pc[r] = from /\ pc' = [pc EXCEPT ![r] = to]

----------------------------------------------------------------------------
(* CheckLimit *)

(* The row is read; with none there is no limit. *)
CheckRow(r) ==
  /\ Go(r, "new", IF subscribed THEN "checking" ELSE "checked")
  /\ seen' = [seen EXCEPT ![r] = Row]
  /\ UNCHANGED <<rowVars, planVars, bookVars>>

(* Slip: a plan lets one request more through than its limit. *)
ExceededLate(row) ==
  \/ /\ CountBased
     /\ \E w \in DOMAIN plan.limits :
          (IF w \in row.timed /\ clock[w] = "expired" THEN 0 ELSE row.usage[w])
            > plan.limits[w]
  \/ TokenBased /\ plan.quota > 0 /\ row.used >= plan.quota

(* The limits of the plan against the row that was read. *)
Exceeded(row) ==
  \/ /\ CountBased
     /\ \E w \in DOMAIN plan.limits :
          (IF w \in row.timed /\ clock[w] = "expired" THEN 0 ELSE row.usage[w])
            >= plan.limits[w]
  \/ TokenBased /\ plan.quota > 0 /\ row.used >= plan.quota

CheckPlan(r) ==
  /\ Go(r, "checking", IF Live /\ Exceeded(seen[r]) THEN "done" ELSE "checked")
  /\ UNCHANGED <<rowVars, planVars, seen, bookVars>>

(* The request is refused on other grounds before it reserves. *)
Refuse(r) ==
  /\ \E from \in {"new", "checking", "checked"} : Go(r, from, "done")
  /\ Forget(r)
  /\ UNCHANGED <<rowVars, planVars, bookVars>>

----------------------------------------------------------------------------
(* PreConsume; the handler sends the request whatever it answers. *)

(* Slip: an expired window still counts. *)
CurrentStale(w) == usage[w]

Current(w) == IF clock[w] = "expired" THEN 0 ELSE usage[w]

Full == \E w \in DOMAIN plan.limits : Current(w) >= plan.limits[w]

(* incrementCountUsageTx: an expired window is zeroed, but keeps its clock.*)
Count(r) ==
  /\ usage' = [w \in Windows |-> IF w \in DOMAIN plan.limits
                                   THEN Current(w) + 1 ELSE usage[w]]
  /\ clock' = [w \in Windows |-> IF w \in DOMAIN plan.limits /\ clock[w] = "unset"
                                   THEN "running" ELSE clock[w]]
  /\ counted' = [w \in Windows |->
                   IF w \notin DOMAIN plan.limits THEN counted[w] ELSE
                   IF clock[w] = "expired" THEN {r} ELSE counted[w] \cup {r}]
  /\ UNCHANGED <<subscribed, used>>

(* Slip: the quota is computed from the row that CheckLimit read. *)
DeductStale(r) ==
  /\ used' = seen[r].used + Est[r]
  /\ UNCHANGED <<subscribed, usage, clock, counted>>

(* preConsumeTokensTx *)
Deduct(r) ==
  /\ used' = used + Est[r]
  /\ UNCHANGED <<subscribed, usage, clock, counted>>

PreConsume(r) ==
  /\ Go(r, "checked", "sent")
  /\ \/ /\ subscribed /\ Live /\ CountBased /\ ~Full
        /\ Count(r)
        /\ reserved' = [reserved EXCEPT ![r] = "count"]
     \/ /\ subscribed /\ Live /\ TokenBased
        /\ Deduct(r)
        /\ reserved' = [reserved EXCEPT ![r] = "tokens"]
     \/ /\ ~(subscribed /\ Live /\ (TokenBased \/ (CountBased /\ ~Full)))
        /\ reserved' = [reserved EXCEPT ![r] = "nothing"]
        /\ UNCHANGED <<rowVars, counted>>
  /\ Forget(r)
  /\ UNCHANGED <<planVars, closed, paid>>

(* The transaction fails in the database. *)
PreConsumeFails(r) ==
  /\ Faults
  /\ Go(r, "checked", "sent")
  /\ reserved' = [reserved EXCEPT ![r] = "failed"]
  /\ Forget(r)
  /\ UNCHANGED <<rowVars, planVars, closed, paid, counted>>

----------------------------------------------------------------------------
(* The end of a request. *)

(* GREATEST(0, used_quota - estTokens) *)
Returned(r) == IF used > Est[r] THEN used - Est[r] ELSE 0

(* Slip: a refund clears the windows. *)
UncountAll ==
  usage' = [w \in Windows |-> IF w \in DOMAIN plan.limits THEN 0 ELSE usage[w]]

(* Slip: a refund goes below zero. *)
UncountBelow ==
  usage' = [w \in Windows |-> IF w \in DOMAIN plan.limits THEN usage[w] - 1
                                                           ELSE usage[w]]

(* decrementCountUsageTx *)
Uncount ==
  usage' = [w \in Windows |-> IF w \in DOMAIN plan.limits /\ usage[w] > 0
                                THEN usage[w] - 1 ELSE usage[w]]

Close(r, how, tokens) ==
  /\ Go(r, "sent", "done")
  /\ closed' = [closed EXCEPT ![r] = how]
  /\ paid' = [paid EXCEPT ![r] = tokens]
  /\ UNCHANGED <<planVars, seen, reserved, counted>>

(* Refund, by the plan's type now. *)
Refund(r) ==
  /\ Close(r, "returned", 0)
  /\ IF ~subscribed THEN UNCHANGED <<used, usage>> ELSE
     IF ~deleted /\ CountBased THEN Uncount /\ UNCHANGED used
     ELSE used' = Returned(r) /\ UNCHANGED usage
  /\ UNCHANGED <<subscribed, clock>>

(* Slip: the actual tokens are charged on top of the estimate. *)
SettleOnTop(r) ==
  /\ \E actual \in 0..MaxTokens :
       Close(r, "settled", actual) /\ used' = used + actual
  /\ UNCHANGED <<subscribed, usage, clock>>

(* RefundAndSettle: a request counted keeps its count. *)
RefundAndSettle(r) ==
  /\ IF ~subscribed \/ (~deleted /\ CountBased)
       THEN Close(r, "settled", 0) /\ UNCHANGED used ELSE
     IF deleted
       THEN Close(r, "returned", 0) /\ used' = Returned(r)
     ELSE \E actual \in 0..MaxTokens :
            Close(r, "settled", actual) /\ used' = Returned(r) + actual
  /\ UNCHANGED <<subscribed, usage, clock>>

(* The process stops before the goroutine runs, or the transaction fails:  *)
(* nothing is tried again.                                                 *)
Lose(r) ==
  /\ Faults
  /\ Go(r, "sent", "done")
  /\ UNCHANGED <<rowVars, planVars, seen, bookVars>>

----------------------------------------------------------------------------
(* Time, the user and the administrator. *)

Expire(w) ==
  /\ clock[w] = "running"
  /\ clock' = [clock EXCEPT ![w] = "expired"]
  /\ UNCHANGED <<subscribed, used, usage, planVars, pc, seen, bookVars>>

(* Subscribe to the plan, when it is on offer. *)
Subscribe ==
  /\ ~subscribed /\ Live
  /\ subscribed' = TRUE
  /\ UNCHANGED <<used, usage, clock, planVars, pc, seen, bookVars>>

UpdatePlan ==
  /\ ~deleted /\ changes < MaxChanges
  /\ changes' = changes + 1
  /\ plan' \in PlanRows
  /\ steady' = (/\ steady /\ plan'.type = plan.type
                /\ DOMAIN plan'.limits = DOMAIN plan.limits)
  /\ UNCHANGED <<rowVars, deleted, pc, seen, bookVars>>

DeletePlan ==
  /\ ~deleted /\ changes < MaxChanges
  /\ changes' = changes + 1
  /\ deleted' = TRUE
  /\ UNCHANGED <<rowVars, plan, steady, pc, seen, bookVars>>

Relayed(r) ==
  \/ CheckRow(r) \/ CheckPlan(r) \/ Refuse(r)
  \/ PreConsume(r) \/ PreConsumeFails(r)
  \/ Refund(r) \/ RefundAndSettle(r) \/ Lose(r)

Next ==
  \/ \E r \in Requests : Relayed(r)
  \/ \E w \in Windows : Expire(w)
  \/ Subscribe \/ UpdatePlan \/ DeletePlan

Spec == Init /\ [][Next]_vars

----------------------------------------------------------------------------
(* Properties. *)

(* Type invariant. *)
TypeOK ==
  /\ subscribed \in BOOLEAN
  /\ used \in Int
  /\ usage \in [Windows -> Nat]
  /\ clock \in [Windows -> {"unset", "running", "expired"}]
  /\ plan \in PlanRows
  /\ deleted \in BOOLEAN
  /\ changes \in Nat
  /\ steady \in BOOLEAN
  /\ pc \in [Requests -> {"new", "checking", "checked", "sent", "done"}]
  /\ seen \in [Requests -> [used : Int, usage : [Windows -> Nat],
                            timed : SUBSET Windows]]
  /\ reserved \in [Requests -> {"unasked", "failed", "nothing", "count", "tokens"}]
  /\ closed \in [Requests -> {"open", "returned", "settled"}]
  /\ paid \in [Requests -> 0..MaxTokens]
  /\ counted \in [Windows -> SUBSET Requests]

Above(n) == IF n > 0 THEN n ELSE 0

(* What a request owes in tokens: its estimate while it is reserved, then  *)
(* what it was settled for.  A negative estimate (handler.go:184-187 only  *)
(* replaces 0) lowers used_quota when it is reserved, and raises it when   *)
(* the request is closed: that much may then be owed.                      *)
Debt(r) ==
  IF closed[r] # "open" THEN paid[r] + Above(-Est[r])
  ELSE IF reserved[r] = "tokens" THEN Above(Est[r]) ELSE 0

Debts == [r \in Requests |-> Debt(r)]
Owed  == Cardinality(UnitsOver(Requests, 2 * MaxTokens, Debts))

(* While the plan keeps its type and windows, whatever else becomes of it, *)
(* the key is never charged more tokens than its requests owe: no refund   *)
(* is forgotten and none is cut short by a plan that is disabled, deleted  *)
(* or subscribed to in between (billing.go:172-251).                       *)
NeverOvercharged == steady => used <= Owed

(* It is charged exactly that, as long as every request that asked for a   *)
(* reservation has got one, and for a positive estimate: in every order of *)
(* concurrent reservations, refunds and settlements, and across deletion   *)
(* (billing.go:170-171).                                                   *)
ChargedExactly ==
  /\ steady
  /\ \A r \in Requests : \/ reserved[r] = "unasked"
                         \/ reserved[r] = "tokens" /\ Est[r] > 0
  => used = Owed

(* The requests a window has counted and not given back. *)
Tally(w) == {r \in counted[w] : closed[r] # "returned"}

(* While the plan keeps its type and windows, no window counts more        *)
(* requests than took place in it.                                         *)
NeverOvercounted ==
  steady /\ ~deleted => \A w \in Windows : usage[w] <= Cardinality(Tally(w))

(* It counts exactly those, as long as no request went without a           *)
(* reservation and none is left from before the window was zeroed: the     *)
(* refund of such a request is taken from one of the others                *)
(* (billing.go:246, 253-271 do not look at what the request reserved).     *)
CountedExactly ==
  steady /\ ~deleted =>
    \A w \in Windows :
      (\A r \in Requests : reserved[r] = "unasked" \/ r \in counted[w])
        => usage[w] = Cardinality(Tally(w))

(* "Reset window if expired" (billing.go:129): once a request is counted,  *)
(* the clock of the window runs.  The code zeroes the usage of an expired  *)
(* window but sets a reset time only where there is none, so a window that *)
(* expired once is zeroed again by every request.                          *)
WindowRenewed ==
  [][\A w \in Windows : counted'[w] # counted[w] => clock'[w] = "running"]_vars

=============================================================================
