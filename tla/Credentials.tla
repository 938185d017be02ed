---------------------------- MODULE Credentials ----------------------------
(***************************************************************************)
(* The credentials of OAuth accounts and their refresh by the requests     *)
(* that use them (internal/relay/account_refresh.go).  An account is kept  *)
(* twice: in its row, and in memory, in the object the pool holds; each    *)
(* refresh of the pool puts a new object there (server.go:168-174).        *)
(*                                                                         *)
(* Refresh tokens are the grant they belong to and their number: the       *)
(* provider may answer a refresh with the next one, and only the last is   *)
(* good.  What an access token is does not matter, only whether it has     *)
(* expired; it outlives the goroutine that saves it.                       *)
(***************************************************************************)
EXTENDS Naturals, FiniteSets

CONSTANTS
  Accounts,
  Grants,        \* what the provider may grant
  Requests,      \* requests that may use accounts at once
  Editors,       \* administrators' calls that may refresh the pool at once
  MaxTokens,     \* bound of the model: refresh tokens of a grant
  None

VARIABLES
  issued,        \* the provider: the last refresh token of a grant
  row,           \* the accounts in the database
  memory,        \* the accounts in the pool
  copy,          \* what a refresh of the pool has read
  flights,       \* refreshGroup: the request that refreshes an account
  request,       \* where every request is
  jobs,          \* the goroutines that save what a refresh has answered
  lost           \* history: accounts whose last token was lost on its way

stores == <<row, memory, copy>>
relayVars == <<flights, request, jobs, lost>>
credentialVars == <<issued, stores, relayVars>>

NoRequest == [at |-> "idle", acc |-> None, grant |-> None, token |-> 0, held |-> FALSE]

CredentialsInit ==
  /\ issued = [g \in Grants |-> 0]
  /\ row = [a \in Accounts |-> None]
  /\ memory = [a \in Accounts |-> None]
  /\ copy = [e \in Editors |-> None]
  /\ flights = [a \in Accounts |-> None]
  /\ request = [r \in Requests |-> NoRequest]
  /\ jobs = [a \in Accounts |-> {}]
  /\ lost = {}

----------------------------------------------------------------------------
(* EnsureValidCredentials, where the access token has expired *)

(* The object of the account is read; its refresh token never changes. *)
FindExpired(r, a) ==
  /\ request[r].at = "idle"
  /\ memory[a] # None /\ memory[a].expired
  /\ request' = [request EXCEPT ![r] =
       [at |-> "expired", acc |-> a, grant |-> memory[a].grant,
        token |-> memory[a].token, held |-> TRUE]]
  /\ UNCHANGED <<issued, stores, flights, jobs, lost>>

(* What a request has done so far, without the object it had. *)
Goes(r, at) == request' = [request EXCEPT ![r] = [NoRequest EXCEPT !.at = at, !.acc = request[r].acc]]
Wait(r)     == Goes(r, "waiting")
Answered(r) == Goes(r, "returning")

(* Slip: only requests with the same object wait for each other. *)
DoByObject(r) ==
  /\ request[r].at = "expired"
  /\ LET a == request[r].acc
         joins == flights[a] # None /\ request[flights[a]].held = request[r].held
     IN IF joins THEN Wait(r) /\ UNCHANGED flights
        ELSE /\ flights' = [flights EXCEPT ![a] = r]
             /\ request' = [request EXCEPT ![r].at = "refreshing"]
  /\ UNCHANGED <<issued, stores, jobs, lost>>

(* refreshGroup.Do: one request refreshes, others wait for its answer. *)
Do(r) ==
  /\ request[r].at = "expired"
  /\ LET a == request[r].acc
     IN IF flights[a] = None
          THEN /\ flights' = [flights EXCEPT ![a] = r]
               /\ request' = [request EXCEPT ![r].at = "refreshing"]
          ELSE Wait(r) /\ UNCHANGED flights
  /\ UNCHANGED <<issued, stores, jobs, lost>>

Good(r) == request[r].token = issued[request[r].grant]
Save(r, token) ==
  jobs' = [jobs EXCEPT ![request[r].acc] =
             @ \cup {[at |-> "row", token |-> token, held |-> request[r].held]}]

(* The provider answers, with the next refresh token or without one (0);   *)
(* a goroutine will save what it said.                                     *)
Refresh(r) ==
  /\ request[r].at = "refreshing" /\ Good(r)
  /\ \/ Save(r, 0) /\ UNCHANGED issued
     \/ /\ issued[request[r].grant] < MaxTokens
        /\ issued' = [issued EXCEPT ![request[r].grant] = @ + 1]
        /\ Save(r, issued[request[r].grant] + 1)
  /\ Answered(r)
  /\ UNCHANGED <<stores, flights, lost>>

(* The token is no longer good, or nothing comes back within the timeout,  *)
(* perhaps after the provider has issued the next token.                   *)
RefreshFails(r) ==
  /\ request[r].at = "refreshing"
  /\ \/ UNCHANGED <<issued, lost>>
     \/ /\ Good(r) /\ issued[request[r].grant] < MaxTokens
        /\ issued' = [issued EXCEPT ![request[r].grant] = @ + 1]
        /\ lost' = lost \cup {request[r].acc}
  /\ Answered(r)
  /\ UNCHANGED <<stores, flights, jobs>>

(* Slip: the call is never forgotten. *)
ReturnLocked(r) ==
  /\ request[r].at = "returning"
  /\ request' = [q \in Requests |->
       IF q = r \/ (request[q].at = "waiting" /\ request[q].acc = request[r].acc)
         THEN NoRequest ELSE request[q]]
  /\ UNCHANGED <<issued, stores, flights, jobs, lost>>

(* Do returns, for those who waited too. *)
Return(r) ==
  /\ request[r].at = "returning"
  /\ LET a == request[r].acc
     IN /\ flights' = [flights EXCEPT ![a] = None]
        /\ request' = [q \in Requests |->
             IF q = r \/ (request[q].at = "waiting" /\ request[q].acc = a)
               THEN NoRequest ELSE request[q]]
  /\ UNCHANGED <<issued, stores, jobs, lost>>

(* Slip: the refresh token of the answer is not saved. *)
SaveAccess(a, j) ==
  /\ j.at = "row"
  /\ row' = [row EXCEPT ![a].expired = FALSE]
  /\ jobs' = [jobs EXCEPT ![a] = (@ \ {j}) \cup {[j EXCEPT !.at = "memory"]}]
  /\ UNCHANGED <<issued, memory, copy, flights, request, lost>>

(* The goroutine updates the row. *)
SaveRow(a, j) ==
  /\ j.at = "row"
  /\ row' = [row EXCEPT ![a].expired = FALSE,
                        ![a].token = IF j.token = 0 THEN @ ELSE j.token]
  /\ jobs' = [jobs EXCEPT ![a] = (@ \ {j}) \cup {[j EXCEPT !.at = "memory"]}]
  /\ UNCHANGED <<issued, memory, copy, flights, request, lost>>

SaveRowFails(a, j) ==
  /\ j.at = "row"
  /\ jobs' = [jobs EXCEPT ![a] = @ \ {j}]
  /\ lost' = IF j.token = 0 THEN lost ELSE lost \cup {a}
  /\ UNCHANGED <<issued, stores, flights, request>>

(* Then the object it has: its credentials and expiry, nothing else. *)
SaveMemory(a, j) ==
  /\ j.at = "memory"
  /\ memory' = IF j.held THEN [memory EXCEPT ![a].expired = FALSE] ELSE memory
  /\ jobs' = [jobs EXCEPT ![a] = @ \ {j}]
  /\ UNCHANGED <<issued, row, copy, flights, request, lost>>

----------------------------------------------------------------------------
(* Time, and refreshes of the pool. *)

Expiring(accounts, a) ==
  IF accounts = None \/ accounts[a] = None THEN accounts
  ELSE [accounts EXCEPT ![a].expired = TRUE]

Expire(a) ==
  /\ row[a] # None /\ jobs[a] = {}
  /\ row' = Expiring(row, a) /\ memory' = Expiring(memory, a)
  /\ copy' = [e \in Editors |-> Expiring(copy[e], a)]
  /\ UNCHANGED <<issued, relayVars>>

ReadAccounts(e) ==
  /\ copy[e] = None
  /\ copy' = [copy EXCEPT ![e] = row]
  /\ UNCHANGED <<issued, row, memory, relayVars>>

(* The objects that requests and goroutines hold are no longer in the pool.*)
SetPool(e) ==
  /\ copy[e] # None
  /\ memory' = copy[e]
  /\ copy' = [copy EXCEPT ![e] = None]
  /\ request' = [r \in Requests |-> [request[r] EXCEPT !.held = FALSE]]
  /\ jobs' = [a \in Accounts |-> {[j EXCEPT !.held = FALSE] : j \in jobs[a]}]
  /\ UNCHANGED <<issued, row, flights, lost>>

(* The process stops and starts again: InitPools reads all accounts.       *)
RestartCredentials ==
  /\ memory' = row
  /\ copy' = [e \in Editors |-> None]
  /\ flights' = [a \in Accounts |-> None]
  /\ request' = [r \in Requests |-> NoRequest]
  /\ jobs' = [a \in Accounts |-> {}]
  /\ lost' = lost \cup {a \in Accounts : \E j \in jobs[a] : j.at = "row" /\ j.token # 0}
  /\ UNCHANGED <<issued, row>>

Credentialed ==
  \/ \E r \in Requests : Do(r) \/ Refresh(r) \/ RefreshFails(r) \/ Return(r)
  \/ \E r \in Requests, a \in Accounts : FindExpired(r, a)
  \/ \E a \in Accounts : \E j \in jobs[a] :
       SaveRow(a, j) \/ SaveRowFails(a, j) \/ SaveMemory(a, j)

=============================================================================
