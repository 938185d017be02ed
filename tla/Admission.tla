----------------------------- MODULE Admission -----------------------------
(***************************************************************************)
(* What the relay promises about a request, whatever happens to it on the  *)
(* way: it is inside only while its key is below the concurrency limit, it *)
(* reserves quota only while inside, and what it reserved is given back or *)
(* settled at most once, possibly after it left.                           *)
(***************************************************************************)
EXTENDS Naturals, FiniteSets

CONSTANTS
  Requests,      \* the requests clients may send
  Keys,          \* the API keys (tokens) they are sent with
  KeyOf          \* the key of every request

VARIABLES
  stage,         \* "new", "inside" while the slot is held, then "gone"
  ledger,        \* "open", "reserved", then "returned" or "settled"
  limit          \* concurrent requests allowed to a key; 0 is no limit

admissionVars == <<stage, ledger, limit>>

Inside(k) == {r \in Requests : stage[r] = "inside" /\ KeyOf[r] = k}

AdmissionInit ==
  /\ stage = [r \in Requests |-> "new"]
  /\ ledger = [r \in Requests |-> "open"]
  /\ limit \in Nat

Enter(r) ==
  /\ stage[r] = "new"
  /\ limit > 0 => Cardinality(Inside(KeyOf[r])) < limit
  /\ stage' = [stage EXCEPT ![r] = "inside"]
  /\ UNCHANGED <<ledger, limit>>

TurnAway(r) ==
  /\ stage[r] = "new"
  /\ limit > 0 /\ Cardinality(Inside(KeyOf[r])) >= limit
  /\ stage' = [stage EXCEPT ![r] = "gone"]
  /\ UNCHANGED <<ledger, limit>>

Reserve(r) ==
  /\ stage[r] = "inside"
  /\ ledger[r] = "open"
  /\ ledger' = [ledger EXCEPT ![r] = "reserved"]
  /\ UNCHANGED <<stage, limit>>

Leave(r) ==
  /\ stage[r] = "inside"
  /\ stage' = [stage EXCEPT ![r] = "gone"]
  /\ UNCHANGED <<ledger, limit>>

Close(r) ==
  /\ ledger[r] = "reserved"
  /\ \E how \in {"returned", "settled"} : ledger' = [ledger EXCEPT ![r] = how]
  /\ UNCHANGED <<stage, limit>>

(* The process stops: nobody is inside any more, the ledger is in the      *)
(* database and stays as it is, and the next process may have another      *)
(* limit.                                                                  *)
Stop ==
  /\ stage' = [r \in Requests |-> IF stage[r] = "inside" THEN "gone" ELSE stage[r]]
  /\ limit' \in Nat
  /\ UNCHANGED ledger

AdmissionNext ==
  \/ Stop
  \/ \E r \in Requests :
       Enter(r) \/ TurnAway(r) \/ Reserve(r) \/ Leave(r) \/ Close(r)

AdmissionSpec == AdmissionInit /\ [][AdmissionNext]_admissionVars

=============================================================================
