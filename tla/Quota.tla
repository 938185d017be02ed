------------------------------- MODULE Quota -------------------------------
(***************************************************************************)
(* The quota of a key (module Billing) behind the limit on the key's       *)
(* concurrent requests (internal/relay/concurrency.go): a request takes a  *)
(* slot before its limits are checked and keeps it until it has been sent  *)
(* (handler.go:127-142).  CheckLimit and PreConsume look at the quota at   *)
(* two moments, and a request that PreConsume refuses is sent all the same *)
(* (handler.go:189-193), so it is the slots that bound how many requests a *)
(* plan serves above its limit.                                            *)
(***************************************************************************)
EXTENDS Billing

CONSTANT Slots   \* server.concurrency_limit

ASSUME QuotaAssumption == Slots \in Nat \ {0}

VARIABLES
  inside,        \* the requests that hold a slot
  passed         \* history: the requests a live count plan let through

all == <<vars, inside, passed>>

QuotaInit == Init /\ inside = {} /\ passed = {}

(* Acquire, then CheckLimit reads the row. *)
Enter(r) ==
  /\ Cardinality(inside) < Slots
  /\ CheckRow(r)
  /\ inside' = inside \cup {r}
  /\ UNCHANGED passed

(* No slot is free, or the key is refused before it asks for one. *)
TurnAway(r) == pc[r] = "new" /\ Refuse(r) /\ UNCHANGED <<inside, passed>>

Check(r) ==
  /\ CheckPlan(r)
  /\ passed' = IF pc'[r] = "checked" /\ Live /\ CountBased
                 THEN passed \cup {r} ELSE passed
  /\ UNCHANGED inside

(* The rest of what the handler of r, or a goroutine it left, does. *)
Continue(r) ==
  /\ \/ pc[r] # "new" /\ Refuse(r)
     \/ PreConsume(r) \/ PreConsumeFails(r)
     \/ Refund(r) \/ RefundAndSettle(r) \/ Lose(r)
  /\ UNCHANGED <<inside, passed>>

(* Release, before or after the reservation is closed. *)
Leave(r) ==
  /\ r \in inside /\ pc[r] \in {"sent", "done"}
  /\ inside' = inside \ {r}
  /\ UNCHANGED <<vars, passed>>

(* The process restarts: the slots and the requests are gone. *)
Restart ==
  /\ Faults
  /\ \E r \in Requests : pc[r] \notin {"new", "done"}
  /\ pc' = [r \in Requests |-> IF pc[r] = "new" THEN "new" ELSE "done"]
  /\ seen' = [r \in Requests |-> NoRow]
  /\ inside' = {}
  /\ UNCHANGED <<rowVars, planVars, bookVars, passed>>

QuotaNext ==
  \/ \E r \in Requests :
       Enter(r) \/ TurnAway(r) \/ Check(r) \/ Continue(r) \/ Leave(r)
  \/ Restart
  \/ /\ \/ \E w \in Windows : Expire(w)
        \/ Subscribe \/ UpdatePlan \/ DeletePlan
     /\ UNCHANGED <<inside, passed>>

QuotaSpec == QuotaInit /\ [][QuotaNext]_all

----------------------------------------------------------------------------

Served   == {r \in Requests : reserved[r] # "unasked"}
Refunded == {r \in Requests : closed[r] = "returned"}
Unbooked == {r \in Requests : reserved[r] = "failed"}

(* No edit of the plan, and no window that has run out.                    *)
Quiet == changes = 0 /\ \A w \in Windows : clock[w] # "expired"

(* As long as the plan is not edited and no window has run out, the        *)
(* requests that CheckLimit let through and that were sent are at most the *)
(* limit of each window, and one less than the slots for those that were   *)
(* checked before the last one was counted (handler.go:189-193,            *)
(* billing.go:129-142).  Every refund makes room for one more and for as   *)
(* many beside it, and a request whose transaction failed is not counted.  *)
ServedBounded ==
  Quiet =>
    \A w \in DOMAIN plan.limits :
      Cardinality(passed \cap Served)
        <= plan.limits[w] + Slots - 1
           + Slots * Cardinality(Refunded) + Cardinality(Unbooked)

=============================================================================
