------------------------------- MODULE Users -------------------------------
(***************************************************************************)
(* The users of the gateway, their keys, subscriptions and credit          *)
(* (internal/user/service.go and the administrator's handlers of users and *)
(* keys).  Calls run concurrently; a call is the statements it sends to    *)
(* the database, and each statement that reads sees what was committed     *)
(* until then: the transactions here lock nothing, except the one that     *)
(* redeems a code, which holds the row of the code.  A transaction that    *)
(* writes does so at its end.  Formats, passwords and the tokens of        *)
(* sessions are left out: whoever has a session of a user may call, as the *)
(* middleware looks at nothing else, even when the user is disabled or     *)
(* deleted.                                                                *)
(***************************************************************************)
EXTENDS Integers, FiniteSets, UnitCounts

CONSTANTS
  Sessions,      \* the calls that may run at once
  People,        \* ids of users, given out by Register
  Emails,        \* email addresses (user names are alike)
  Keys,          \* ids of keys, given out by CreateKey
  MaxKeys,       \* max_keys_per_user
  Codes,         \* the codes an administrator has made
  MaxValue,      \* the most a code is worth
  Value,         \* what a code is worth
  Balances,      \* what an administrator may set a balance to
  MaxEdits,      \* bound of the model: edits by administrators
  None           \* no user, no email, no code

ASSUME UsersAssumption ==
  /\ IsFiniteSet(Sessions) /\ Sessions # {}
  /\ IsFiniteSet(Keys) /\ IsFiniteSet(Codes)
  /\ MaxKeys \in Nat
  /\ MaxValue \in Nat /\ Value \in [Codes -> 0..MaxValue]
  /\ Balances \subseteq Nat
  /\ MaxEdits \in Nat
  /\ None \notin People \cup Emails \cup Codes

VARIABLES
  email,         \* the email of every user; None before Register
  active,        \* status is "active"
  gone,          \* deleted_at of a user is set
  balance,       \* the balance of every user
  owner,         \* user_id of every key; None before CreateKey
  live,          \* the keys with deleted_at not set
  rows,          \* how many rows of token_plans a key has
  usedBy,        \* used_by of every code
  call,          \* the call that every session is in, and what it has read
  edits,         \* history: edits by administrators so far
  base,          \* history: the balance an administrator set last
  credited       \* history: the codes credited to a user since

userVars == <<email, active, gone, balance>>
keyVars  == <<owner, live, rows>>
codeVars == <<usedBy, base, credited>>
vars == <<userVars, keyVars, codeVars, call, edits>>

Idle == [at |-> "idle", user |-> None, email |-> None, keys |-> {}, code |-> None]

Init ==
  /\ email = [u \in People |-> None]
  /\ active = [u \in People |-> FALSE] /\ gone = [u \in People |-> FALSE]
  /\ balance = [u \in People |-> 0]
  /\ owner = [k \in Keys |-> None] /\ live = {} /\ rows = [k \in Keys |-> 0]
  /\ usedBy = [c \in Codes |-> None]
  /\ base = [u \in People |-> 0] /\ credited = [u \in People |-> {}]
  /\ call = [s \in Sessions |-> Idle] /\ edits = 0

Known      == {u \in People : email[u] # None}
Present(u) == u \in Known /\ ~gone[u]
KeysOf(u)  == {k \in live : owner[k] = u}

Answer(s) == call' = [call EXCEPT ![s] = Idle] /\ UNCHANGED edits
Begin(s, at, u, e, K, c) ==
  /\ call[s].at = "idle"
  /\ call' = [call EXCEPT ![s] = [at |-> at, user |-> u, email |-> e, keys |-> K, code |-> c]]
  /\ UNCHANGED edits

----------------------------------------------------------------------------
(* Register and UpdateEmail *)

(* Nobody who is not deleted has the email; deleted rows are not looked at.*)
Unclaimed(e) == \A u \in Known : gone[u] \/ email[u] # e

(* The unique index of the column, which counts deleted rows too. *)
Indexed(e, u) == \A v \in Known \ {u} : email[v] # e

CheckRegister(s, e) ==
  /\ Unclaimed(e)
  /\ Begin(s, "registering", None, e, {}, None)
  /\ UNCHANGED <<userVars, keyVars, codeVars>>

Register(s) ==
  /\ call[s].at = "registering"
  /\ \/ \E u \in People \ Known :
          /\ Indexed(call[s].email, u)
          /\ email' = [email EXCEPT ![u] = call[s].email]
          /\ active' = [active EXCEPT ![u] = TRUE]
     \/ /\ \E u \in Known : ~Indexed(call[s].email, None)
        /\ UNCHANGED <<email, active>>
  /\ Answer(s)
  /\ UNCHANGED <<gone, balance, keyVars, codeVars>>

CheckEmail(s, u, e) ==
  /\ Present(u) /\ active[u]
  /\ Unclaimed(e)
  /\ Begin(s, "updating", u, e, {}, None)
  /\ UNCHANGED <<userVars, keyVars, codeVars>>

UpdateEmail(s) ==
  /\ call[s].at = "updating"
  /\ LET e == call[s].email  u == call[s].user
     IN email' = IF Indexed(e, u) THEN [email EXCEPT ![u] = e] ELSE email
  /\ Answer(s)
  /\ UNCHANGED <<active, gone, balance, keyVars, codeVars>>

----------------------------------------------------------------------------
(* CreateKey and DeleteKey *)

(* Slip: one key too many. *)
CountKeysLoosely(s, u) ==
  /\ u \in Known
  /\ Cardinality(KeysOf(u)) <= MaxKeys
  /\ Begin(s, "creating", u, None, {}, None)
  /\ UNCHANGED <<userVars, keyVars, codeVars>>

CountKeys(s, u) ==
  /\ u \in Known
  /\ Cardinality(KeysOf(u)) < MaxKeys
  /\ Begin(s, "creating", u, None, {}, None)
  /\ UNCHANGED <<userVars, keyVars, codeVars>>

(* Slip: the key is saved without its user. *)
CreateUnowned(s) ==
  /\ call[s].at = "creating"
  /\ \E k \in Keys : owner[k] = None /\ live' = live \cup {k}
  /\ Answer(s)
  /\ UNCHANGED <<userVars, owner, rows, codeVars>>

CreateKey(s) ==
  /\ call[s].at = "creating"
  /\ \/ \E k \in Keys :
          /\ owner[k] = None
          /\ owner' = [owner EXCEPT ![k] = call[s].user]
          /\ live' = live \cup {k}
     \/ UNCHANGED <<owner, live>>       \* the database fails
  /\ Answer(s)
  /\ UNCHANGED <<userVars, rows, codeVars>>

FindKey(s, k) ==
  /\ k \in live
  /\ Begin(s, "deleting", owner[k], None, {k}, None)
  /\ UNCHANGED <<userVars, keyVars, codeVars>>

DeleteKey(s) ==
  /\ call[s].at = "deleting"
  /\ live' = live \ call[s].keys
  /\ Answer(s)
  /\ UNCHANGED <<userVars, owner, rows, codeVars>>

Edit == edits < MaxEdits /\ edits' = edits + 1

(* The administrator's deleteToken. *)
DeleteToken(k) ==
  /\ k \in live
  /\ Edit
  /\ live' = live \ {k}
  /\ UNCHANGED <<userVars, owner, rows, codeVars, call>>

----------------------------------------------------------------------------
(* Subscribe, to a plan on offer *)

CountPlans(s, u) ==
  /\ u \in Known
  /\ \A k \in KeysOf(u) : rows[k] = 0
  /\ Begin(s, "unsubscribed", u, None, {}, None)
  /\ UNCHANGED <<userVars, keyVars, codeVars>>

CollectKeys(s) ==
  /\ call[s].at = "unsubscribed"
  /\ LET K == KeysOf(call[s].user)
     IN IF K = {} THEN Answer(s)
        ELSE /\ call' = [call EXCEPT ![s].at = "subscribing", ![s].keys = K]
             /\ UNCHANGED edits
  /\ UNCHANGED <<userVars, keyVars, codeVars>>

Subscribe(s) ==
  /\ call[s].at = "subscribing"
  /\ rows' = [k \in Keys |-> IF k \in call[s].keys THEN rows[k] + 1 ELSE rows[k]]
  /\ Answer(s)
  /\ UNCHANGED <<userVars, owner, live, codeVars>>

----------------------------------------------------------------------------
(* RedeemCode and the administrator's handlers of users *)

(* Slip: the row is read as any other, so two calls may find it active. *)
ReadCode(s, u, c) ==
  /\ u \in Known
  /\ usedBy[c] = None
  /\ Begin(s, "redeeming", u, None, {}, c)
  /\ UNCHANGED <<userVars, keyVars, codeVars>>

(* The row is locked until the transaction ends.  A call that finds it     *)
(* locked waits, and reads it as it then is.                               *)
LockCode(s, u, c) ==
  /\ u \in Known
  /\ usedBy[c] = None
  /\ \A q \in Sessions : call[q].code # c
  /\ Begin(s, "redeeming", u, None, {}, c)
  /\ UNCHANGED <<userVars, keyVars, codeVars>>

(* The code is saved and its value added, or neither. *)
RedeemCode(s) ==
  /\ call[s].at = "redeeming"
  /\ \/ LET u == call[s].user  c == call[s].code
        IN /\ usedBy' = [usedBy EXCEPT ![c] = u]
           /\ balance' = [balance EXCEPT ![u] = @ + Value[c]]
           /\ credited' = [credited EXCEPT ![u] = @ \cup {c}]
     \/ UNCHANGED <<usedBy, balance, credited>>       \* the database fails
  /\ Answer(s)
  /\ UNCHANGED <<email, active, gone, keyVars, base>>

UpdateStatus(u) ==
  /\ Present(u)
  /\ Edit
  /\ active' = [active EXCEPT ![u] = ~@]
  /\ UNCHANGED <<email, gone, balance, keyVars, codeVars, call>>

UpdateBalance(u) ==
  /\ Present(u)
  /\ Edit
  /\ \E b \in Balances : /\ balance' = [balance EXCEPT ![u] = b]
                         /\ base' = [base EXCEPT ![u] = b]
  /\ credited' = [credited EXCEPT ![u] = {}]
  /\ UNCHANGED <<email, active, gone, keyVars, usedBy, call>>

DeleteUser(u) ==
  /\ Present(u)
  /\ Edit
  /\ gone' = [gone EXCEPT ![u] = TRUE]
  /\ UNCHANGED <<email, active, balance, keyVars, codeVars, call>>

Called(s) ==
  \/ \E e \in Emails : CheckRegister(s, e)
  \/ Register(s)
  \/ \E u \in People, e \in Emails : CheckEmail(s, u, e)
  \/ UpdateEmail(s)
  \/ \E u \in People : CountKeys(s, u) \/ CountPlans(s, u)
  \/ CreateKey(s)
  \/ \E k \in Keys : FindKey(s, k)
  \/ DeleteKey(s)
  \/ CollectKeys(s) \/ Subscribe(s)
  \/ \E u \in People, c \in Codes : LockCode(s, u, c)
  \/ RedeemCode(s)

Next ==
  \/ \E s \in Sessions : Called(s)
  \/ \E k \in Keys : DeleteToken(k)
  \/ \E u \in People : UpdateStatus(u) \/ UpdateBalance(u) \/ DeleteUser(u)

Spec == Init /\ [][Next]_vars

----------------------------------------------------------------------------
(* Properties. *)

(* Type invariant. *)
TypeOK ==
  /\ email \in [People -> Emails \cup {None}]
  /\ active \in [People -> BOOLEAN] /\ gone \in [People -> BOOLEAN]
  /\ balance \in [People -> Nat] /\ base \in [People -> Nat]
  /\ owner \in [Keys -> People \cup {None}]
  /\ live \in SUBSET {k \in Keys : owner[k] # None}
  /\ rows \in [Keys -> Nat]
  /\ edits \in 0..MaxEdits
  /\ usedBy \in [Codes -> People \cup {None}]
  /\ credited \in [People -> SUBSET Codes]
  /\ call \in [Sessions -> [at : {"idle", "registering", "updating", "creating",
                                  "deleting", "unsubscribed", "subscribing", "redeeming"},
                            user : People \cup {None}, email : Emails \cup {None},
                            keys : SUBSET Keys, code : Codes \cup {None}]]

(* What the codes credited to a user are worth together. *)
Credit(u) ==
  Cardinality(UnitsOver(Codes, MaxValue,
                        [c \in Codes |-> IF c \in credited[u] THEN Value[c] ELSE 0]))

(* No code is redeemed twice, by one user or by two, however many calls    *)
(* have it at once and whatever an administrator sets meanwhile: what came *)
(* to a balance since it was set is what the codes are worth that its user *)
(* redeemed since, each once (service.go:490-511; user_handler.go:76-78).  *)
(* That nothing is taken from a balance is what the code does, and not     *)
(* what was planned: the quota of a token_based plan was to come from it   *)
(* (docs/current/platform-design.md:379), but a request only moves         *)
(* used_quota (billing.go:165-167).                                        *)
RedeemedOnce ==
  \A u \in People :
    /\ balance[u] = base[u] + Credit(u)
    /\ \A c \in credited[u] : usedBy[c] = u

(* A user never has more keys than the maximum and one more for every      *)
(* other call that runs at once: the count and the insertion are in one    *)
(* transaction that locks nothing, so the maximum itself is not kept       *)
(* (service.go:237-256).                                                   *)
KeysBounded ==
  \A u \in People : Cardinality(KeysOf(u)) < MaxKeys + Cardinality(Sessions)

(* What the comment on Subscribe says, "Wrap existence check and create in *)
(* a transaction to prevent race" (service.go:458): no key is subscribed   *)
(* twice.  The transaction locks nothing, so two calls that look at once   *)
(* both find no subscription.                                              *)
OneSubscription == \A k \in Keys : rows[k] <= 1

(* What holds in its place: a key gets no more subscriptions than there    *)
(* are calls at once, as one that is committed keeps every later call from *)
(* another one, for all keys it covers (service.go:459-486).               *)
SubscriptionsBounded == \A k \in Keys : rows[k] <= Cardinality(Sessions)

=============================================================================
