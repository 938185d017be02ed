------------------------------- MODULE Relay -------------------------------
(***************************************************************************)
(* The life of relayed requests (internal/relay/handler.go): a request     *)
(* takes a slot of its key's concurrency limit, is checked, picks an       *)
(* upstream account, reserves quota, is sent upstream in one of three ways *)
(* (streamed, streamed and buffered, buffered with retries), and leaves by *)
(* one of the handlers' exits, each of which releases the slot and refunds *)
(* or settles the reservation in its own order, partly in goroutines that  *)
(* outlive the request.                                                    *)
(*                                                                         *)
(* Requests run concurrently; each action is the code between two accesses *)
(* to state shared with other requests: the limiter, the pool, the billing *)
(* rows, the logs.  The pool is the rotation of module Rotation.           *)
(***************************************************************************)
EXTENDS Rotation, Integers, FiniteSets, Sequences

CONSTANTS
  Requests,      \* the requests clients may send
  Keys,          \* the API keys (tokens) they are sent with
  KeyOf,         \* the key of every request
  Limits,        \* server.concurrency_limit, as the configuration has it at every
                 \* start of the process; 0 (or less) is no limit
  Modes,         \* the dispatch modes of the requests of this behaviour
  Attempts,      \* tries of a buffered request: 3 in the code
  MaxFaults,     \* bound of the model: database calls that fail
  MaxCrashes     \* bound of the model: restarts of the process

ASSUME RelayAssumption ==
  /\ IsFiniteSet(Requests)
  /\ KeyOf \in [Requests -> Keys]
  /\ Limits \in [0..MaxCrashes -> Nat]
  /\ Modes \subseteq {"stream", "forced", "buffered"}
  /\ Attempts \in Nat \ {0}
  /\ MaxFaults \in Nat
  /\ MaxCrashes \in Nat

VARIABLES
  pc,            \* where the handler of every request is
  counts,        \* ConcurrencyLimiter.counts; an absent key counts 0
  account,       \* the account a request uses (currentAccount)
  attempt,       \* which try of the retry loop a buffered request is in
  body,          \* whether a 5xx body is kept from an earlier try
  todo,          \* what the exit taken by a request has still to do
  jobs,          \* goroutines a request has started that have not run
  charge,        \* the reservation of every request
  closings,      \* history: refunds and settlements attempted
  logged,        \* the requests with a row in the usage log
  faults,        \* history: database failures so far
  crashes        \* history: restarts so far

requestVars == <<pc, account, attempt, body, todo>>
booksVars   == <<charge, closings, logged>>
vars == <<requestVars, rotationVars, counts, jobs, booksVars, faults, crashes>>

(* The limit of the process that runs. *)
Limit == Limits[crashes]

----------------------------------------------------------------------------
(* The exits of the handlers, as the shared steps they take in order.      *)
(* "release" frees the slot, "refund" is a synchronous Refund, and         *)
(* "goRefund", "goSettle", "goLog" start a goroutine.                      *)

Operations == {"release", "refund", "goRefund", "goSettle", "goLog"}

(* Slips: an exit that frees the slot twice, one that refunds nothing, and *)
(* one that closes the reservation twice.                                  *)
FreesTwice    == <<"release", "refund", "release">>
RefundsNone   == <<"release">>
ClosesTwice   == <<"goSettle", "release", "goRefund">>

Refusal        == <<"release">>                       \* deferred Release
BuildFailed    == <<"goRefund", "release">>           \* bad URL or request
RefundAndError == <<"release", "refund">>
RefundOnError  == <<"release", "refund", "goLog">>
Exhausted      == <<"release", "refund">>             \* no retry answered
StreamDone     == <<"goLog", "goSettle", "release">>
StreamPanicked == <<"release", "goRefund">>
ForcedDone     == <<"goLog", "release", "goSettle">>
BufferedDone   == <<"release", "goSettle", "goLog">>

(* The places in a handler where the slot is held and no exit was taken.   *)
Holding == {"admitted", "resolved", "reserved", "sending", "streaming",
            "reading", "trying", "cooling", "picking", "loading",
            "recooling", "repicking", "reloading"}

Go(r, from, to) == pc[r] = from /\ pc' = [pc EXCEPT ![r] = to]

(* Request r takes an exit of its handler. *)
LeaveBy(r, from, exit) ==
  /\ Go(r, from, "leaving")
  /\ todo' = [todo EXCEPT ![r] = exit]
  /\ UNCHANGED <<account, attempt, body>>

Outside == UNCHANGED <<counts, jobs, booksVars, faults, crashes>>
Apart   == UNCHANGED rotationVars /\ Outside

----------------------------------------------------------------------------
(* HandleRelay *)

Init ==
  /\ RotationInit
  /\ pc = [r \in Requests |-> "idle"]
  /\ counts = [k \in Keys |-> 0]
  /\ account = [r \in Requests |-> NoAccount]
  /\ attempt = [r \in Requests |-> 0]
  /\ body = [r \in Requests |-> FALSE]
  /\ todo = [r \in Requests |-> <<>>]
  /\ jobs = [r \in Requests |-> {}]
  /\ charge = [r \in Requests |-> "unasked"]
  /\ closings = [r \in Requests |-> 0]
  /\ logged = {}
  /\ faults = 0
  /\ crashes = 0

(* Slip: Acquire lets one request too many in. *)
AdmitOneMore(r) ==
  /\ Go(r, "idle", "admitted")
  /\ Limit > 0 => counts[KeyOf[r]] <= Limit
  /\ counts' = IF Limit > 0 THEN [counts EXCEPT ![KeyOf[r]] = @ + 1] ELSE counts
  /\ UNCHANGED <<account, attempt, body, todo, rotationVars, jobs, booksVars,
                 faults, crashes>>

(* Acquire succeeds. *)
Admit(r) ==
  /\ Go(r, "idle", "admitted")
  /\ Limit > 0 => counts[KeyOf[r]] < Limit
  /\ counts' = IF Limit > 0 THEN [counts EXCEPT ![KeyOf[r]] = @ + 1] ELSE counts
  /\ UNCHANGED <<account, attempt, body, todo, rotationVars, jobs, booksVars,
                 faults, crashes>>

(* Acquire fails: 429 before anything is held. *)
TurnAway(r) ==
  /\ Limit > 0 /\ counts[KeyOf[r]] >= Limit
  /\ LeaveBy(r, "idle", <<>>)
  /\ Apart

(* Limits, balance, body, model, permission or channel refuse the request; *)
(* the deferred function of HandleRelay frees the slot.                    *)
Refuse(r) == LeaveBy(r, "admitted", Refusal) /\ Apart

(* resolveChannelAndAccount answers with an account. *)
Resolve(r) ==
  /\ Go(r, "admitted", "resolved")
  /\ \E a \in Answers \ {NoAccount} : account' = [account EXCEPT ![r] = a]
  /\ UNCHANGED <<attempt, body, todo>>
  /\ Apart

(* PreConsume commits a reservation, or reserves nothing: no plan, a plan  *)
(* at its limit, a failed transaction.  The handler goes on in both cases. *)
PreConsume(r) ==
  /\ Go(r, "resolved", "reserved")
  /\ \E c \in {"held", "refused"} : charge' = [charge EXCEPT ![r] = c]
  /\ UNCHANGED <<account, attempt, body, todo, rotationVars, counts, jobs,
                 closings, logged, faults, crashes>>

(* GetRequestURL or ConvertRequest fails. *)
FailBuild(r) == LeaveBy(r, "reserved", BuildFailed) /\ Apart

(* Dispatch on stream and force_stream. *)
Dispatch(r) ==
  /\ \E m \in Modes : Go(r, "reserved", IF m = "buffered" THEN "trying" ELSE
                                        IF m = "forced" THEN "reading" ELSE "sending")
  /\ attempt' = [attempt EXCEPT ![r] = 1]
  /\ UNCHANGED <<account, body, todo>>
  /\ Apart

(* handleStreaming: the request is set up and sent. *)
StreamFails(r)   == LeaveBy(r, "sending", RefundAndError) /\ Apart
StreamRefused(r) == LeaveBy(r, "sending", RefundOnError) /\ Apart
StreamStarts(r)  == Go(r, "sending", "streaming") /\ Apart
                    /\ UNCHANGED <<account, attempt, body, todo>>

(* The producer goroutine: the stream ends, well or with an error, or      *)
(* something in it panics.                                                 *)
StreamEnds(r)   == LeaveBy(r, "streaming", StreamDone) /\ Apart
StreamPanics(r) == LeaveBy(r, "streaming", StreamPanicked) /\ Apart

(* handleForceStream: setup, send, read to the end and convert; a panic    *)
(* anywhere in it is recovered into refundAndError.                        *)
ForcedFails(r)   == LeaveBy(r, "reading", RefundAndError) /\ Apart
ForcedRefused(r) == LeaveBy(r, "reading", RefundOnError) /\ Apart
ForcedEnds(r)    == LeaveBy(r, "reading", ForcedDone) /\ Apart

----------------------------------------------------------------------------
(* handleBuffered *)

(* SetupRequestHeader fails. *)
SetupFails(r) == LeaveBy(r, "trying", RefundAndError) /\ Apart

(* The upstream answers below 500. *)
TryAnswers(r) ==
  /\ \E exit \in {BufferedDone, RefundOnError} : LeaveBy(r, "trying", exit)
  /\ Apart

(* No answer, or a 5xx whose body and status are kept. *)
TryFails(r) ==
  /\ Go(r, "trying", "cooling")
  /\ \E five \in BOOLEAN : body' = [body EXCEPT ![r] = @ \/ five]
  /\ UNCHANGED <<account, attempt, todo>>
  /\ Apart

(* cooldownAndEvict of the account that failed, upstream or to load. *)
CoolDown(r) ==
  /\ \/ Go(r, "cooling", "picking")
     \/ Go(r, "recooling", "repicking")
  /\ TakeOut(account[r])
  /\ UNCHANGED <<account, attempt, body, todo>>
  /\ Outside

(* After the loop: nothing was ever answered, or only a 5xx. *)
GiveUp(r, from) == LeaveBy(r, from, IF body[r] THEN RefundOnError ELSE Exhausted)

(* pickNext: another account, or the loop is left. *)
PickNext(r) ==
  /\ \/ \E a \in Answers \ {NoAccount} :
          /\ \/ Go(r, "picking", "loading")
             \/ Go(r, "repicking", "reloading")
          /\ account' = [account EXCEPT ![r] = a]
          /\ UNCHANGED <<attempt, body, todo>>
     \/ /\ NoAccount \in Answers
        /\ GiveUp(r, "picking") \/ GiveUp(r, "repicking")
  /\ Apart

(* EnsureValidCredentials succeeds: the next try, if one is left. *)
LoadCredentials(r) ==
  /\ \E from \in {"loading", "reloading"} :
       IF attempt[r] < Attempts
         THEN /\ Go(r, from, "trying")
              /\ attempt' = [attempt EXCEPT ![r] = @ + 1]
              /\ UNCHANGED <<account, body, todo>>
         ELSE GiveUp(r, from)
  /\ Apart

(* EnsureValidCredentials fails: one replacement (retryNext), then none. *)
LoadFails(r) ==
  /\ \/ Go(r, "loading", "recooling") /\ UNCHANGED <<account, attempt, body, todo>>
     \/ GiveUp(r, "reloading")
  /\ Apart

----------------------------------------------------------------------------
(* The exits and the goroutines they start. *)

(* Release: guarded against going below 0; with no limit nothing is counted.*)
Release(k) == counts' = IF counts[k] > 0 THEN [counts EXCEPT ![k] = @ - 1] ELSE counts

(* A refund or settlement of r runs, or fails in the database and is       *)
(* forgotten: neither the handlers nor the goroutines look at its error.   *)
CloseCharge(r, how) ==
  /\ closings' = [closings EXCEPT ![r] = @ + 1]
  /\ \/ /\ charge' = [charge EXCEPT ![r] = IF @ = "held" THEN how ELSE @]
        /\ UNCHANGED faults
     \/ /\ faults < MaxFaults
        /\ faults' = faults + 1
        /\ UNCHANGED charge

Spawn(r, job) == jobs' = [jobs EXCEPT ![r] = @ \cup {job}]

(* One step of the exit taken by r. *)
TakeStep(r) ==
  /\ pc[r] = "leaving"
  /\ todo[r] # <<>>
  /\ todo' = [todo EXCEPT ![r] = Tail(@)]
  /\ \/ /\ Head(todo[r]) = "release"
        /\ Release(KeyOf[r])
        /\ UNCHANGED <<jobs, booksVars, faults>>
     \/ /\ Head(todo[r]) = "refund"
        /\ CloseCharge(r, "returned")
        /\ UNCHANGED <<counts, jobs, logged>>
     \/ /\ \/ Head(todo[r]) = "goRefund" /\ Spawn(r, "refund")
           \/ Head(todo[r]) = "goSettle" /\ Spawn(r, "settle")
           \/ Head(todo[r]) = "goLog"    /\ Spawn(r, "log")
        /\ UNCHANGED <<counts, booksVars, faults>>
  /\ UNCHANGED <<pc, account, attempt, body, rotationVars, crashes>>

(* A goroutine of r runs. *)
RunJob(r) ==
  /\ \/ /\ jobs' = [jobs EXCEPT ![r] = @ \ {"refund"}]
        /\ "refund" \in jobs[r]
        /\ CloseCharge(r, "returned")
        /\ UNCHANGED logged
     \/ /\ jobs' = [jobs EXCEPT ![r] = @ \ {"settle"}]
        /\ "settle" \in jobs[r]
        /\ CloseCharge(r, "settled")
        /\ UNCHANGED logged
     \/ /\ jobs' = [jobs EXCEPT ![r] = @ \ {"log"}]
        /\ "log" \in jobs[r]
        /\ logged' = logged \cup {r}
        /\ UNCHANGED <<charge, closings, faults>>
  /\ UNCHANGED <<requestVars, rotationVars, counts, crashes>>

(* The timer of an account in cooldown. *)
EndCooldown(a) ==
  /\ PutBack(a)
  /\ UNCHANGED requestVars
  /\ Outside

(* An edit of the channel or of its accounts builds the pool anew          *)
(* (makeRefreshPool): accounts that were cooling down are used at once,    *)
(* and their timers restore a pool that nobody reads any more.             *)
RefreshPool ==
  /\ rotation' \in SUBSET Accounts
  /\ cooling' = {}
  /\ UNCHANGED requestVars
  /\ Outside

(* The process stops and restarts: counts, requests, goroutines and        *)
(* cooldowns were in memory, the reservations and logs are not; the pool   *)
(* is built again from the accounts' rows, and the limit read again from   *)
(* the configuration.                                                      *)
Crash ==
  /\ crashes < MaxCrashes
  /\ crashes' = crashes + 1
  /\ pc' = [r \in Requests |-> IF pc[r] = "idle" THEN "idle" ELSE "leaving"]
  /\ todo' = [r \in Requests |-> <<>>]
  /\ jobs' = [r \in Requests |-> {}]
  /\ counts' = [k \in Keys |-> 0]
  /\ rotation' \in SUBSET Accounts
  /\ cooling' = {}
  /\ UNCHANGED <<account, attempt, body, booksVars, faults>>

Served(r) ==
  \/ Admit(r) \/ TurnAway(r) \/ Refuse(r) \/ Resolve(r) \/ PreConsume(r)
  \/ FailBuild(r) \/ Dispatch(r)

Streamed(r) ==
  \/ StreamFails(r) \/ StreamRefused(r) \/ StreamStarts(r)
  \/ StreamEnds(r) \/ StreamPanics(r)
  \/ ForcedFails(r) \/ ForcedRefused(r) \/ ForcedEnds(r)

Buffered(r) ==
  \/ SetupFails(r) \/ TryAnswers(r) \/ TryFails(r) \/ CoolDown(r)
  \/ PickNext(r) \/ LoadCredentials(r) \/ LoadFails(r)

Next ==
  \/ \E r \in Requests : \/ Served(r) \/ Streamed(r) \/ Buffered(r)
                         \/ TakeStep(r) \/ RunJob(r)
  \/ \E a \in Accounts : EndCooldown(a)
  \/ RefreshPool
  \/ Crash

Spec == Init /\ [][Next]_vars

(* Requests in the hands of the gateway make progress: its goroutines are  *)
(* scheduled, its database calls return, and a buffered try ends by the    *)
(* timeouts of bufferedClient.  Nothing obliges a client to send, nor an   *)
(* upstream to answer or end a stream: streamingClient has no timeout.     *)
Fairness ==
  \A r \in Requests :
    /\ WF_vars(pc[r] # "idle" /\ Served(r))
    /\ WF_vars(Buffered(r))
    /\ WF_vars(TakeStep(r))
    /\ WF_vars(RunJob(r))

FairSpec == Spec /\ Fairness

----------------------------------------------------------------------------
(* Properties. *)

(* Type invariant. *)
TypeOK ==
  /\ rotation \in SUBSET Accounts
  /\ cooling \in SUBSET Accounts
  /\ pc \in [Requests -> Holding \cup {"idle", "leaving"}]
  /\ counts \in [Keys -> Nat]
  /\ account \in [Requests -> Accounts \cup {NoAccount}]
  /\ attempt \in [Requests -> 0..Attempts]
  /\ body \in [Requests -> BOOLEAN]
  /\ todo \in [Requests -> Seq(Operations)]
  /\ jobs \in [Requests -> SUBSET {"refund", "settle", "log"}]
  /\ charge \in [Requests -> {"unasked", "refused", "held", "returned", "settled"}]
  /\ closings \in [Requests -> Nat]
  /\ logged \in SUBSET Requests
  /\ faults \in Nat
  /\ crashes \in 0..MaxCrashes

(* r has a slot: it is in a handler, or its exit has still to free it.     *)
WillRelease(r) == \E i \in 1..Len(todo[r]) : todo[r][i] = "release"
HoldsSlot(r)   == pc[r] \in Holding \/ WillRelease(r)
Holders(k)     == {r \in Requests : KeyOf[r] = k /\ HoldsSlot(r)}

(* The limiter counts exactly the requests that hold a slot, so no slot    *)
(* leaks and none is freed twice on any exit of any handler, including the *)
(* ones that hand the slot to a goroutine or recover from a panic          *)
(* (handler.go:133-141, 326, 415, 535, 648, 749, 916; concurrency.go).     *)
SlotsCounted ==
  \A k \in Keys : counts[k] = IF Limit > 0 THEN Cardinality(Holders(k)) ELSE 0

(* The refunds and settlements of r that are still to come. *)
Closing(r) ==
  Cardinality({i \in 1..Len(todo[r]) : todo[r][i] \in {"refund", "goRefund", "goSettle"}})
  + Cardinality(jobs[r] \cap {"refund", "settle"})

(* A request that asked for a reservation and left is refunded or settled  *)
(* exactly once, whichever exit it took and however its goroutines and the *)
(* others' interleave, and one that never asked is not; a crash may only   *)
(* lose what was still to come (billing.go:170-171 names the double        *)
(* accounting this prevents).                                              *)
ClosedOnce ==
  \A r \in Requests :
    LET due == IF pc[r] = "leaving" /\ charge[r] # "unasked" THEN 1 ELSE 0
    IN  /\ closings[r] + Closing(r) <= due
        /\ crashes = 0 => closings[r] + Closing(r) = due

(* What the relay promises to the limiter and to billing. *)
StageOf(r)  == IF pc[r] = "idle" THEN "new" ELSE
               IF HoldsSlot(r) THEN "inside" ELSE "gone"
LedgerOf(r) == CASE charge[r] = "held" -> "reserved"
                 [] charge[r] \in {"returned", "settled"} -> charge[r]
                 [] OTHER -> "open"

Abstract == INSTANCE Admission WITH
  stage  <- [r \in Requests |-> StageOf(r)],
  ledger <- [r \in Requests |-> LedgerOf(r)],
  limit  <- Limit

(* Every step of the handlers is a step of module Admission: the slot is   *)
(* held from admission until one release, the quota is reserved while it   *)
(* is held, and closed at most once.                                       *)
ImplementsAdmission == Abstract!AdmissionSpec

(* Every request that entered leaves nothing behind, unless it waits for a *)
(* stream of the upstream: its slot is free, its goroutines are done, and, *)
(* where no database call failed and the process stayed up, its            *)
(* reservation is closed (handler.go:133-141, 326, 415, 535, 648, 749).    *)
Upstream(r) == pc[r] \in {"sending", "streaming", "reading"}
Gone(r)     == /\ pc[r] = "leaving" /\ todo[r] = <<>> /\ jobs[r] = {}
               /\ (faults = 0 /\ crashes = 0) => charge[r] # "held"
Drains == \A r \in Requests : (pc[r] # "idle") ~> (Gone(r) \/ Upstream(r))

=============================================================================
