------------------------------ MODULE Routing ------------------------------
(***************************************************************************)
(* How a request finds a channel and an account (resolveChannelAndAccount  *)
(* in internal/relay/handler.go) through three copies of what the database *)
(* says: the cached list of channels, the affinity of tokens to channels   *)
(* (affinity.go) and the pools of accounts (PoolManager in pool.go), while *)
(* administrators create, edit and delete channels and accounts (package   *)
(* admin) and refresh the pools afterwards.                                *)
(*                                                                         *)
(* An action is a statement to the database or what runs under one lock.   *)
(* All requests ask for one model.  The order of priorities is left out:   *)
(* a request tries the channels of its list in any order.  Within a pool   *)
(* any account may be picked; Rotation says which.  No time passes while   *)
(* the list of channels is loaded.  Times of expiry are kept as the time   *)
(* that is left.                                                           *)
(***************************************************************************)
EXTENDS Naturals, FiniteSets, Sequences

CONSTANTS
  Channels, Accounts,
  Requests,      \* the requests that may be under way at once
  Tokens,        \* keys clients send requests with
  TokenOf,       \* the key of every request
  Admins,        \* the administrators' calls that may run at once
  ListTTL,       \* how long the list of channels is kept: 30 s in the code
  AffinityTTL,   \* affinity_ttl of the channels
  MaxEdits,      \* bound of the model: calls of administrators
  None, Never

ASSUME RoutingAssumption ==
  /\ TokenOf \in [Requests -> Tokens]
  /\ ListTTL \in Nat \ {0} /\ AffinityTTL \in Nat
  /\ MaxEdits \in Nat
  /\ None \notin Channels \cup Accounts /\ Never \notin Nat
  /\ None \notin [in : SUBSET Accounts, cool : SUBSET Accounts]

VARIABLES
  row,           \* the row of every channel: "absent", "on" or "deleted"
  serves,        \* the channel's models include the model
  status,        \* of every account: "absent", "on", "off" or "deleted"
  home,          \* channel_id of every account
  pools,         \* PoolManager.pools: the accounts and the cooling ones
  list,          \* channelCache: the channels that serve the model, time left
  affinity,      \* AffinityCache.entries for the model, by token; time left
  request,       \* where every request is
  call,          \* where the call of every administrator is
  edits,         \* history: calls of administrators so far
  deletedFor,    \* history: how long a channel has been deleted, capped
  readyFor,      \* history: how long a channel could take requests, capped
  owed,          \* history: channels ready for the time of a list when a
                 \* request began and since, without a failure meanwhile
  doubtful       \* history: channels whose pool was set last by a refresh
                 \* that another call overlapped, or that failed

rowVars     == <<row, serves, status, home>>
caches      == <<list, affinity>>
history     == <<edits, deletedFor, doubtful>>
vars == <<rowVars, pools, caches, request, call, history, readyFor, owed>>

Members(c) == {a \in Accounts : status[a] = "on" /\ home[a] = c}
Pool(A)    == [in |-> A, cool |-> {}]                  \* NewAccountPool
Warm(c)    == IF pools[c] = None THEN {} ELSE pools[c].in \ pools[c].cool
Serves(c)  == row[c] = "on" /\ serves[c]
Ready(c)   == Serves(c) /\ Warm(c) # {}

(* retired is history: the channels that had been deleted for the time of  *)
(* a list when the request began.                                          *)
Idle == [at |-> "idle", ch |-> None, acc |-> None, rest |-> {}, retired |-> {}]
Long(f) == {c \in Channels : f[c] = ListTTL}
NoList == [chs |-> {}, left |-> 0]      \* an expired list is as none
NoCall == [at |-> "idle", acc |-> None, todo |-> <<>>, read |-> {}, lone |-> FALSE]

(* The gateway has started: InitPools has read all channels. *)
Init ==
  /\ row \in [Channels -> {"absent", "on"}]
  /\ serves = [c \in Channels |-> TRUE]
  /\ status \in [Accounts -> {"absent", "on"}]
  /\ home \in [Accounts -> Channels \cup {None}]
  /\ \A a \in Accounts : IF status[a] = "absent" THEN home[a] = None
                                                  ELSE home[a] \in Channels /\ row[home[a]] = "on"
  /\ pools = [c \in Channels |-> IF row[c] = "on" THEN Pool(Members(c)) ELSE None]
  /\ list = NoList
  /\ affinity = [t \in Tokens |-> None]
  /\ request = [r \in Requests |-> Idle]
  /\ call = [s \in Admins |-> NoCall]
  /\ edits = 0
  /\ deletedFor = [c \in Channels |-> Never]
  /\ readyFor = [c \in Channels |-> IF Ready(c) THEN 0 ELSE Never]
  /\ owed = [r \in Requests |-> {}]
  /\ doubtful = {}

----------------------------------------------------------------------------
(* A request: resolveChannelAndAccount, then what it does to the copies.   *)

AtRest == UNCHANGED <<rowVars, call, history>>

(* AffinityCache.Get: an expired entry is deleted under another lock. *)
Arrive(r) ==
  /\ request[r].at = "idle"
  /\ LET e == affinity[TokenOf[r]]
         start == [Idle EXCEPT !.retired = Long(deletedFor)]
     IN request' = [request EXCEPT ![r] =
          IF e = None THEN [start EXCEPT !.at = "listing"]
          ELSE IF e.left = 0 THEN [start EXCEPT !.at = "expired"]
          ELSE [start EXCEPT !.at = "following", !.ch = e.ch]]
  /\ AtRest /\ UNCHANGED <<pools, caches>>

Forget(r) ==
  /\ request[r].at = "expired"
  /\ affinity' = [affinity EXCEPT ![TokenOf[r]] = None]
  /\ request' = [request EXCEPT ![r].at = "listing"]
  /\ AtRest /\ UNCHANGED <<pools, list>>

(* Slip: the channel that the affinity names is used as it is. *)
FollowBlindly(r) ==
  /\ request[r].at = "following"
  /\ request' = [request EXCEPT ![r].at = "picking"]
  /\ AtRest /\ UNCHANGED <<pools, caches>>

(* The channel that the affinity names is read from the database. *)
Follow(r) ==
  /\ request[r].at = "following"
  /\ request' = [request EXCEPT ![r] =
       IF Serves(@.ch) THEN [@ EXCEPT !.at = "picking"]
                       ELSE [@ EXCEPT !.at = "listing", !.ch = None]]
  /\ AtRest /\ UNCHANGED <<pools, caches>>

FollowFails(r) ==
  /\ request[r].at = "following"
  /\ request' = [request EXCEPT ![r].at = "listing", ![r].ch = None]
  /\ AtRest /\ UNCHANGED <<pools, caches>>

(* channelCache.get; when the database fails, the old list is not used. *)
List(r) ==
  /\ request[r].at = "listing"
  /\ LET now == IF list.left > 0 THEN list
                ELSE [chs |-> {c \in Channels : Serves(c)}, left |-> ListTTL]
     IN /\ list' = now
        /\ request' = [request EXCEPT ![r].at = "choosing", ![r].rest = now.chs]
  /\ AtRest /\ UNCHANGED <<pools, affinity>>

ListFails(r) ==
  /\ request[r].at = "listing" /\ list.left = 0
  /\ request' = [request EXCEPT ![r].at = "choosing"]
  /\ AtRest /\ UNCHANGED <<pools, caches>>

(* pickAccount for channel c *)
Pick(r, c, next) ==
  \/ /\ Warm(c) # {}
     /\ \E a \in pools[c].in :
          request' = [request EXCEPT ![r].at = "sending", ![r].ch = c, ![r].acc = a,
                                     ![r].rest = {}]
  \/ Warm(c) = {} /\ request' = [request EXCEPT ![r] = next]

Unfollowed(r)  == [request[r] EXCEPT !.at = "listing", !.ch = None]
Without(r, c)  == [request[r] EXCEPT !.rest = @ \ {c}]

PickFollowed(r) ==
  /\ request[r].at = "picking"
  /\ Pick(r, request[r].ch, Unfollowed(r))
  /\ AtRest /\ UNCHANGED <<pools, caches>>

(* Slip: the first channel without an account ends the search. *)
PickFirst(r) ==
  /\ request[r].at = "choosing"
  /\ \E c \in request[r].rest : Pick(r, c, [request[r] EXCEPT !.rest = {}])
  /\ AtRest /\ UNCHANGED <<pools, caches>>

PickListed(r) ==
  /\ request[r].at = "choosing"
  /\ \E c \in request[r].rest : Pick(r, c, Without(r, c))
  /\ AtRest /\ UNCHANGED <<pools, caches>>

(* The credentials of the account picked are of no use. *)
CredentialsFail(r) ==
  /\ \/ /\ request[r].at = "picking" /\ Warm(request[r].ch) # {}
        /\ request' = [request EXCEPT ![r] = Unfollowed(r)]
     \/ /\ request[r].at = "choosing"
        /\ \E c \in request[r].rest :
             Warm(c) # {} /\ request' = [request EXCEPT ![r] = Without(r, c)]
  /\ AtRest /\ UNCHANGED <<pools, caches>>

NoChannel(r) ==
  /\ request[r].at = "choosing" /\ request[r].rest = {}
  /\ request' = [request EXCEPT ![r].at = "refused"]
  /\ AtRest /\ UNCHANGED <<pools, caches>>

(* The upstream answers: the affinity is recorded unless it answers with   *)
(* an error or the channel has none.                                       *)
Succeed(r) ==
  /\ request[r].at = "sending"
  /\ \/ /\ AffinityTTL > 0
        /\ affinity' = [affinity EXCEPT ![TokenOf[r]] =
                          [ch |-> request[r].ch, left |-> AffinityTTL]]
     \/ UNCHANGED affinity
  /\ request' = [request EXCEPT ![r] = Idle]
  /\ AtRest /\ UNCHANGED <<pools, list>>

(* Slip: the account cools down whether it is still in the pool or not. *)
CooldownAnyway(r) ==
  /\ request[r].at = "sending"
  /\ LET c == request[r].ch
     IN pools' = IF pools[c] = None THEN pools
                 ELSE [pools EXCEPT ![c].cool = @ \cup {request[r].acc}]
  /\ request' = [request EXCEPT ![r].at = "evicting", ![r].acc = None]
  /\ AtRest /\ UNCHANGED caches

(* cooldownAndEvict: the cooldown ends in the pool it began in. *)
Cooldown(r) ==
  /\ request[r].at = "sending"
  /\ LET c == request[r].ch
     IN pools' = IF pools[c] = None THEN pools
                 ELSE [pools EXCEPT ![c].cool = @ \cup (pools[c].in \cap {request[r].acc})]
  /\ request' = [request EXCEPT ![r].at = "evicting", ![r].acc = None]
  /\ AtRest /\ UNCHANGED caches

EvictChannel(r) ==
  /\ request[r].at = "evicting"
  /\ affinity' = [t \in Tokens |->
       IF affinity[t] # None /\ affinity[t].ch = request[r].ch THEN None ELSE affinity[t]]
  /\ request' = [request EXCEPT ![r].at = "retrying"]
  /\ AtRest /\ UNCHANGED <<pools, list>>

(* pickNext; a request that finds no account answers an error. *)
PickNext(r) ==
  /\ request[r].at = "retrying"
  /\ \/ /\ Warm(request[r].ch) # {}
        /\ \E a \in pools[request[r].ch].in :
             request' = [request EXCEPT ![r].at = "sending", ![r].acc = a]
     \/ request' = [request EXCEPT ![r] = Idle]
  /\ AtRest /\ UNCHANGED <<pools, caches>>

Refuse(r) ==
  /\ request[r].at = "refused"
  /\ request' = [request EXCEPT ![r] = Idle]
  /\ AtRest /\ UNCHANGED <<pools, caches>>

(* The timer of a cooldown, and the goroutine that cleans the affinities. *)
CooldownEnds(c) ==
  /\ pools[c] # None
  /\ \E a \in pools[c].cool : pools' = [pools EXCEPT ![c].cool = @ \ {a}]
  /\ AtRest /\ UNCHANGED <<request, caches>>

Cleanup ==
  /\ affinity' = [t \in Tokens |->
       IF affinity[t] # None /\ affinity[t].left = 0 THEN None ELSE affinity[t]]
  /\ AtRest /\ UNCHANGED <<request, pools, list>>

----------------------------------------------------------------------------
(* Calls of administrators: rows first, then the pools in todo, in order.  *)

Serve == UNCHANGED <<caches, request>>
Others(s) == \A t \in Admins \ {s} : call[t].at = "idle"

(* Call s begins: no refresh that another call is in is alone any more. *)
Begin(s, fields) ==
  /\ call[s].at = "idle"
  /\ edits < MaxEdits /\ edits' = edits + 1
  /\ call' = [t \in Admins |-> IF t = s THEN fields ELSE [call[t] EXCEPT !.lone = FALSE]]

Pending(todo) == [NoCall EXCEPT !.at = "pools", !.todo = todo]
Next1(s) == IF Len(call[s].todo) = 1 THEN NoCall ELSE Pending(Tail(call[s].todo))

CreateChannel(s, c) ==
  /\ row[c] = "absent"
  /\ row' = [row EXCEPT ![c] = "on"]
  /\ Begin(s, Pending(<<c>>))
  /\ Serve /\ UNCHANGED <<serves, status, home, pools, deletedFor, doubtful>>

FindChannel(s, c) ==
  /\ row[c] = "on"
  /\ Begin(s, [NoCall EXCEPT !.at = "editing", !.todo = <<c>>])
  /\ Serve /\ UNCHANGED <<rowVars, pools, deletedFor, doubtful>>

UpdateChannel(s) ==
  /\ call[s].at = "editing"
  /\ LET c == Head(call[s].todo)
     IN serves' = [serves EXCEPT ![c] = ~@]
  /\ call' = [call EXCEPT ![s].at = "pools"]
  /\ Serve /\ UNCHANGED <<row, status, home, pools, history>>

DeleteChannel(s, c) ==
  /\ row[c] = "on"
  /\ row' = [row EXCEPT ![c] = "deleted"]
  /\ deletedFor' = [deletedFor EXCEPT ![c] = 0]
  /\ Begin(s, [NoCall EXCEPT !.at = "removing", !.todo = <<c>>])
  /\ Serve /\ UNCHANGED <<serves, status, home, pools, doubtful>>

RemovePool(s) ==
  /\ call[s].at = "removing"
  /\ pools' = [pools EXCEPT ![Head(call[s].todo)] = None]
  /\ call' = [call EXCEPT ![s] = NoCall]
  /\ Serve /\ UNCHANGED <<rowVars, history>>

(* Whether the channel is there is not looked at. *)
CreateAccount(s, a, c) ==
  /\ status[a] = "absent" /\ row[c] # "absent"
  /\ status' = [status EXCEPT ![a] = "on"]
  /\ home' = [home EXCEPT ![a] = c]
  /\ Begin(s, Pending(<<c>>))
  /\ Serve /\ UNCHANGED <<row, serves, pools, deletedFor, doubtful>>

FindAccount(s, a) ==
  /\ status[a] \in {"on", "off"}
  /\ Begin(s, [NoCall EXCEPT !.at = "updating", !.acc = a, !.todo = <<home[a]>>])
  /\ Serve /\ UNCHANGED <<rowVars, pools, deletedFor, doubtful>>

(* The account is enabled, disabled, or moved to another channel. *)
UpdateAccount(s) ==
  /\ call[s].at = "updating"
  /\ LET a == call[s].acc
     IN \/ /\ status[a] \in {"on", "off"}
           /\ status' = [status EXCEPT ![a] = IF @ = "on" THEN "off" ELSE "on"]
           /\ UNCHANGED home
        \/ /\ \E c \in Channels : home' = [home EXCEPT ![a] = c]
           /\ UNCHANGED status
  /\ call' = [call EXCEPT ![s].at = "rereading"]
  /\ Serve /\ UNCHANGED <<row, serves, pools, history>>

(* Slip: only the channel that the account is in now is refreshed. *)
RereadNew(s) ==
  /\ call[s].at = "rereading"
  /\ call' = [call EXCEPT ![s] = Pending(<<home[call[s].acc]>>)]
  /\ Serve /\ UNCHANGED <<rowVars, pools, history>>

(* The account is read again: both channels of a moved one are refreshed.  *)
Reread(s) ==
  /\ call[s].at = "rereading"
  /\ LET new == home[call[s].acc]
         old == call[s].todo
     IN call' = [call EXCEPT ![s] =
          Pending(IF old # <<>> /\ Head(old) # new THEN Append(old, new) ELSE <<new>>)]
  /\ Serve /\ UNCHANGED <<rowVars, pools, history>>

(* Where a deleted account was cannot be read: nothing is refreshed. *)
RereadFails(s) ==
  /\ call[s].at = "rereading" /\ call[s].todo = <<>>
  /\ call' = [call EXCEPT ![s] = NoCall]
  /\ doubtful' = doubtful \cup {home[call[s].acc]}
  /\ Serve /\ UNCHANGED <<rowVars, pools, edits, deletedFor>>

DeleteAccount(s, a) ==
  /\ status[a] \in {"on", "off"}
  /\ status' = [status EXCEPT ![a] = "deleted"]
  /\ Begin(s, [NoCall EXCEPT !.at = "rereading", !.acc = a])
  /\ Serve /\ UNCHANGED <<row, serves, home, pools, deletedFor, doubtful>>

(* RefreshPool: when the accounts cannot be read, it is as if there were   *)
(* none.                                                                   *)
ReadAccounts(s) ==
  /\ call[s].at = "pools"
  /\ call' = [call EXCEPT ![s].at = "setting", ![s].lone = Others(s),
                          ![s].read = Members(Head(call[s].todo))]
  /\ Serve /\ UNCHANGED <<rowVars, pools, history>>

ReadFails(s) ==
  /\ call[s].at = "pools"
  /\ call' = [call EXCEPT ![s].at = "setting"]
  /\ Serve /\ UNCHANGED <<rowVars, pools, history>>

SetPool(s) ==
  /\ call[s].at = "setting"
  /\ LET c == Head(call[s].todo)
     IN /\ pools' = [pools EXCEPT ![c] = Pool(call[s].read)]
        /\ doubtful' = IF call[s].lone THEN doubtful \ {c} ELSE doubtful \cup {c}
  /\ call' = [call EXCEPT ![s] = Next1(s)]
  /\ Serve /\ UNCHANGED <<rowVars, edits, deletedFor>>

Older(f) == [c \in Channels |-> IF f[c] \in 0..(ListTTL - 1) THEN f[c] + 1 ELSE f[c]]
Left(n)  == IF n = 0 THEN 0 ELSE n - 1

Tick ==
  /\ list' = IF list.left > 1 THEN [list EXCEPT !.left = @ - 1] ELSE NoList
  /\ affinity' = [t \in Tokens |-> IF affinity[t] = None THEN None
                                    ELSE [affinity[t] EXCEPT !.left = Left(@)]]
  /\ deletedFor' = Older(deletedFor) /\ readyFor' = Older(readyFor)
  /\ UNCHANGED <<rowVars, pools, request, call, edits, doubtful, owed>>

----------------------------------------------------------------------------

Handled(r) ==
  \/ Arrive(r) \/ Forget(r) \/ Follow(r) \/ List(r)
  \/ PickFollowed(r) \/ PickListed(r) \/ NoChannel(r)
  \/ Succeed(r) \/ Cooldown(r) \/ EvictChannel(r) \/ PickNext(r) \/ Refuse(r)

Administered(s) ==
  \/ \E c \in Channels : CreateChannel(s, c) \/ FindChannel(s, c) \/ DeleteChannel(s, c)
  \/ UpdateChannel(s) \/ RemovePool(s)
  \/ \E a \in Accounts : FindAccount(s, a) \/ DeleteAccount(s, a)
  \/ \E a \in Accounts, c \in Channels : CreateAccount(s, a, c)
  \/ UpdateAccount(s) \/ Reread(s) \/ ReadAccounts(s) \/ SetPool(s)

Step ==
  \/ \E r \in Requests : Handled(r)
  \/ \E s \in Admins : Administered(s)
  \/ \E c \in Channels : CooldownEnds(c)
  \/ Cleanup

(* The database fails, or an account's credentials. *)
Failure ==
  \/ \E r \in Requests : FollowFails(r) \/ ListFails(r) \/ CredentialsFail(r)
  \/ \E s \in Admins : RereadFails(s) \/ ReadFails(s)

(* The histories of which channels are ready, and owed to a request. *)
Observed ==
  readyFor' = [c \in Channels |-> IF ~Ready(c)' THEN Never
                                  ELSE IF readyFor[c] = Never THEN 0 ELSE readyFor[c]]

Owing ==
  owed' = [r \in Requests |->
             IF request'[r].at = "idle" THEN {}
             ELSE {c \in IF request[r].at = "idle" THEN Long(readyFor) ELSE owed[r] :
                     Ready(c)'}]

Next ==
  \/ Step /\ Observed /\ Owing
  \/ Failure /\ Observed /\ owed' = [r \in Requests |-> {}]
  \/ Tick

Spec == Init /\ [][Next]_vars

----------------------------------------------------------------------------
(* Properties. *)

(* Type invariant. *)
TypeOK ==
  /\ row \in [Channels -> {"absent", "on", "deleted"}]
  /\ serves \in [Channels -> BOOLEAN]
  /\ status \in [Accounts -> {"absent", "on", "off", "deleted"}]
  /\ home \in [Accounts -> Channels \cup {None}]
  /\ \A a \in Accounts : home[a] = None => status[a] = "absent"
  /\ \A c \in Channels : pools[c] # None =>
       pools[c].in \subseteq Accounts /\ pools[c].cool \subseteq pools[c].in
  /\ list.chs \subseteq Channels /\ list.left \in 0..ListTTL
  /\ \A t \in Tokens : affinity[t] # None =>
       affinity[t].ch \in Channels /\ affinity[t].left \in 0..AffinityTTL
  /\ \A r \in Requests :
       /\ request[r].rest \subseteq Channels
       /\ request[r].at \in {"following", "picking", "sending", "evicting", "retrying"}
            => request[r].ch \in Channels
       /\ request[r].at = "sending" => request[r].acc \in Accounts
  /\ \A s \in Admins : /\ call[s].read \subseteq Accounts
                       /\ call[s].todo \in Seq(Channels) /\ Len(call[s].todo) <= 2
  /\ edits \in 0..MaxEdits
  /\ doubtful \subseteq Channels

(* While no administrator's call is under way, the pool of every channel   *)
(* holds just the accounts the database has for it, enabled ones, however  *)
(* accounts were created, moved, disabled or deleted: except where the     *)
(* last refresh of the pool failed or was overlapped by another call, as   *)
(* refreshes read and set without a lock (server.go:168-174;               *)
(* account_handler.go:126-134, 157-163; channel_handler.go:69-71, 149).    *)
PoolsFresh ==
  (\A s \in Admins : call[s].at = "idle") =>
     \A c \in Channels \ doubtful :
       IF row[c] = "on" THEN pools[c] # None /\ pools[c].in = Members(c)
       ELSE pools[c] # None => pools[c].in = Members(c)

(* A request that begins once the list of channels has had its time after  *)
(* a channel's deletion is never sent to that channel, even where a later  *)
(* refresh gave it a pool again: the list has been loaded anew, and an     *)
(* affinity is checked against the database (handler.go:436-458, 573-582). *)
DeletedRetired ==
  \A r \in Requests, c \in Channels :
    request[r].at = "sending" /\ request[r].ch = c => c \notin request[r].retired

(* A request is refused for want of a channel only if no channel was ready *)
(* for the time of a list before it began and all the time since, or if a  *)
(* read of the database or an account's credentials failed: an expired,    *)
(* evicted or stale affinity and a stale list never cost a request that    *)
(* could be served (handler.go:571-598).                                   *)
RefusedForCause ==
  \A r \in Requests : request[r].at = "refused" =>
    owed[r] = {}

=============================================================================
