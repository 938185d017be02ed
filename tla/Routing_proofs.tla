--------------------------- MODULE Routing_proofs ---------------------------
(***************************************************************************)
(* Theorems about how a request finds a channel and an account, for any    *)
(* number of channels, accounts, requests, keys, administrators and edits, *)
(* and any times to live of the list and of the affinities.                *)
(***************************************************************************)
EXTENDS Routing, SequenceTheorems, TLAPS

Stages == {"idle", "listing", "expired", "following", "picking", "choosing",
           "sending", "evicting", "retrying", "refused"}

Calls == {"idle", "pools", "editing", "removing", "updating", "rereading", "setting"}

PoolType == [in : SUBSET Accounts, cool : SUBSET Accounts]

RequestType == [at : Stages, ch : Channels \cup {None}, acc : Accounts \cup {None},
                rest : SUBSET Channels, retired : SUBSET Channels]

CallType == [at : Calls, acc : Accounts \cup {None}, todo : Seq(Channels),
             read : SUBSET Accounts, lone : BOOLEAN]

(* Where a request knows its channel, and its account. *)
PlaceOf(r) ==
  /\ request[r].at \in {"following", "picking", "sending", "evicting", "retrying"}
       => request[r].ch \in Channels
  /\ request[r].at = "sending" => request[r].acc \in Accounts

(* What a call of an administrator knows. *)
TaskOf(s) ==
  /\ Len(call[s].todo) <= 2
  /\ call[s].at \in {"updating", "rereading"} =>
       /\ call[s].acc \in Accounts /\ status[call[s].acc] # "absent"
       /\ Len(call[s].todo) <= 1
  /\ call[s].at \in {"pools", "setting", "editing", "removing"} => call[s].todo # <<>>
  /\ call[s].at = "removing" => row[Head(call[s].todo)] = "deleted"

Rows ==
  /\ row \in [Channels -> {"absent", "on", "deleted"}]
  /\ serves \in [Channels -> BOOLEAN]
  /\ status \in [Accounts -> {"absent", "on", "off", "deleted"}]
  /\ home \in [Accounts -> Channels \cup {None}]
  /\ \A a \in Accounts : home[a] = None <=> status[a] = "absent"

Pools ==
  /\ pools \in [Channels -> PoolType \cup {None}]
  /\ \A c \in Channels : pools[c] # None => pools[c].cool \subseteq pools[c].in

Caches ==
  /\ list \in [chs : SUBSET Channels, left : 0..ListTTL]
  /\ affinity \in [Tokens -> [ch : Channels, left : 0..AffinityTTL] \cup {None}]

Tasks ==
  /\ request \in [Requests -> RequestType]
  /\ \A r \in Requests : PlaceOf(r)
  /\ call \in [Admins -> CallType]
  /\ \A s \in Admins : TaskOf(s)

Ages == 0..ListTTL \cup {Never}

Books ==
  edits \in 0..MaxEdits /\ deletedFor \in [Channels -> Ages] /\ doubtful \subseteq Channels

Watches ==
  readyFor \in [Channels -> Ages] /\ owed \in [Requests -> SUBSET Channels]

Types == Rows /\ Pools /\ Caches /\ Tasks /\ Books /\ Watches

----------------------------------------------------------------------------
(* A list in use is too young to hold what was deleted before a request    *)
(* that has the channel among the retired ones.                            *)
DeletedRow == \A c \in Channels : deletedFor[c] # Never => row[c] = "deleted"

ListForgets ==
  \A c \in Channels :
    list.left > 0 /\ c \in list.chs /\ deletedFor[c] # Never
      => deletedFor[c] + list.left <= ListTTL

RetiredOf(r) ==
  /\ \A c \in request[r].retired : deletedFor[c] = ListTTL
  /\ request[r].rest \cap request[r].retired = {}
  /\ request[r].at \in {"picking", "sending", "evicting", "retrying"}
       => request[r].ch \notin request[r].retired

Retirement == DeletedRow /\ ListForgets /\ \A r \in Requests : RetiredOf(r)

(* A channel that has been ready for longer than the list has been kept is *)
(* in the list.                                                            *)
ReadyAges == \A c \in Channels : readyFor[c] # Never <=> Ready(c)

ListKnows ==
  \A c \in Channels :
    list.left > 0 /\ readyFor[c] # Never /\ readyFor[c] + list.left > ListTTL
      => c \in list.chs

OwedOf(r) ==
  /\ \A c \in owed[r] : readyFor[c] = ListTTL
  /\ request[r].at = "choosing" => owed[r] \subseteq request[r].rest
  /\ request[r].at = "refused" => owed[r] = {}

Debts == ReadyAges /\ ListKnows /\ \A r \in Requests : OwedOf(r)

----------------------------------------------------------------------------
(* Call s will still set the pool of channel c. *)
WillSet(s, c) ==
  /\ call[s].at \in {"pools", "setting", "rereading"}
  /\ \E i \in 1..Len(call[s].todo) : call[s].todo[i] = c

(* Call s will set the pool of channel c as long as account a is in it. *)
WillReread(s, c, a) ==
  call[s].at = "rereading" /\ call[s].acc = a /\ home[a] = c

(* The refresh of a call that is alone sets what the database says. *)
LoneOf(s) ==
  call[s].lone => /\ call[s].at = "setting" /\ Others(s)
                  /\ call[s].read = Members(Head(call[s].todo))

(* Of every channel and account the pool says what the database says, or   *)
(* a call under way will still set the pool.                               *)
PoolOf(c) ==
  \/ pools[c] # None \/ row[c] # "on" \/ \E s \in Admins : WillSet(s, c)

FreshOf(c, a) ==
  \/ pools[c] = None
  \/ a \in pools[c].in <=> a \in Members(c)
  \/ \E s \in Admins : WillSet(s, c) \/ WillReread(s, c, a)

(* A call that is about to move an account from a channel it did not read  *)
(* disturbs nothing: that channel's pool has never held the account, or    *)
(* another call will set it.                                               *)
MovedOf(s) ==
  LET a == call[s].acc
      h == home[a]
  IN  call[s].at = "updating" /\ call[s].todo # <<h>> /\ h \notin doubtful =>
        \/ pools[h] = None
        \/ a \notin pools[h].in
        \/ \E t \in Admins : WillSet(t, h)

Freshness ==
  /\ \A s \in Admins : LoneOf(s) /\ MovedOf(s)
  /\ \A c \in Channels \ doubtful : PoolOf(c) /\ \A a \in Accounts : FreshOf(c, a)

IInv == Types /\ Retirement /\ Debts /\ Freshness

----------------------------------------------------------------------------
(* What requests do to what they know and to the copies. *)

RequestFails(r) == FollowFails(r) \/ ListFails(r) \/ CredentialsFail(r)
RequestStep(r)  == Handled(r) \/ RequestFails(r)

(* A request moves: the others stay where they are. *)
LEMMA RequestMoves ==
  ASSUME request \in [Requests -> RequestType], \A q \in Requests : PlaceOf(q),
         NEW r \in Requests, NEW x \in RequestType,
         x.at \in {"following", "picking", "sending", "evicting", "retrying"}
           => x.ch \in Channels,
         x.at = "sending" => x.acc \in Accounts,
         request' = [request EXCEPT ![r] = x]
  PROVE  /\ request' \in [Requests -> RequestType]
         /\ \A q \in Requests : PlaceOf(q)'
BY DEF PlaceOf

(* What a request may become. *)
LEMMA RequestValues ==
  ASSUME NEW x \in RequestType
  PROVE  /\ Idle \in RequestType
         /\ \A p \in Stages : [x EXCEPT !.at = p] \in RequestType
         /\ \A p \in Stages, A \in SUBSET Channels :
              [x EXCEPT !.at = p, !.rest = A] \in RequestType
         /\ [x EXCEPT !.at = "listing", !.ch = None] \in RequestType
         /\ \A A \in SUBSET Channels : [x EXCEPT !.rest = A] \in RequestType
         /\ \A a \in Accounts : [x EXCEPT !.at = "sending", !.acc = a] \in RequestType
         /\ \A c \in Channels, a \in Accounts :
              [x EXCEPT !.at = "sending", !.ch = c, !.acc = a, !.rest = {}] \in RequestType
         /\ [x EXCEPT !.at = "evicting", !.acc = None] \in RequestType
<1>1. Idle \in RequestType
  BY DEF Idle, RequestType, Stages
<1>2. \A p \in Stages : [x EXCEPT !.at = p] \in RequestType
  BY DEF RequestType
<1>3. \A p \in Stages, A \in SUBSET Channels : [x EXCEPT !.at = p, !.rest = A] \in RequestType
  BY DEF RequestType
<1>4. [x EXCEPT !.at = "listing", !.ch = None] \in RequestType
  BY DEF RequestType, Stages
<1>5. \A A \in SUBSET Channels : [x EXCEPT !.rest = A] \in RequestType
  BY DEF RequestType
<1>6. \A a \in Accounts : [x EXCEPT !.at = "sending", !.acc = a] \in RequestType
  BY DEF RequestType, Stages
<1>7. \A c \in Channels, a \in Accounts :
        [x EXCEPT !.at = "sending", !.ch = c, !.acc = a, !.rest = {}] \in RequestType
  BY DEF RequestType, Stages
<1>8. [x EXCEPT !.at = "evicting", !.acc = None] \in RequestType
  BY DEF RequestType, Stages
<1>9. QED
  BY <1>1, <1>2, <1>3, <1>4, <1>5, <1>6, <1>7, <1>8

(* The request knows what its next step needs. *)
LEMMA RequestTyped ==
  ASSUME Types, NEW r \in Requests, RequestStep(r)
  PROVE  /\ request' \in [Requests -> RequestType]
         /\ \A q \in Requests : PlaceOf(q)'
<1> DEFINE x == request[r]
<1>1. /\ x \in RequestType /\ PlaceOf(r)
      /\ request \in [Requests -> RequestType] /\ \A q \in Requests : PlaceOf(q)
      /\ x.rest \subseteq Channels
  BY DEF Types, Tasks, RequestType
<1> SUFFICES \E y \in RequestType :
               /\ y.at \in {"following", "picking", "sending", "evicting", "retrying"}
                    => y.ch \in Channels
               /\ y.at = "sending" => y.acc \in Accounts
               /\ request' = [request EXCEPT ![r] = y]
  BY <1>1, RequestMoves
<1> HIDE DEF x
<1>2. CASE Arrive(r)
  <2> DEFINE e == affinity[TokenOf[r]]
             start == [Idle EXCEPT !.retired = Long(deletedFor)]
  <2>1. e = None \/ (e.ch \in Channels)
    BY RoutingAssumption DEF Types, Caches
  <2>2. start \in RequestType
    BY DEF Idle, RequestType, Stages, Long
  <2>3. [start EXCEPT !.at = "following", !.ch = e.ch] \in RequestType \/ e = None
    BY <2>1, <2>2 DEF RequestType, Stages
  <2>4. /\ [start EXCEPT !.at = "listing"] \in RequestType
        /\ [start EXCEPT !.at = "expired"] \in RequestType
    BY <2>2, RequestValues DEF Stages
  <2>5. \/ request' = [request EXCEPT ![r] = [start EXCEPT !.at = "listing"]]
        \/ request' = [request EXCEPT ![r] = [start EXCEPT !.at = "expired"]]
        \/ e # None /\ request' = [request EXCEPT ![r] = [start EXCEPT !.at = "following", !.ch = e.ch]]
    BY <1>2 DEF Arrive
  <2>6. /\ [start EXCEPT !.at = "listing"].at = "listing"
        /\ [start EXCEPT !.at = "expired"].at = "expired"
        /\ [start EXCEPT !.at = "following", !.ch = e.ch].at = "following"
        /\ [start EXCEPT !.at = "following", !.ch = e.ch].ch = e.ch
    BY <2>2 DEF RequestType
  <2> DEFINE y1 == [start EXCEPT !.at = "listing"]
             y2 == [start EXCEPT !.at = "expired"]
             y3 == [start EXCEPT !.at = "following", !.ch = e.ch]
  <2>7. \/ y1 \in RequestType /\ y1.at = "listing" /\ request' = [request EXCEPT ![r] = y1]
        \/ y2 \in RequestType /\ y2.at = "expired" /\ request' = [request EXCEPT ![r] = y2]
        \/ /\ y3 \in RequestType /\ y3.at = "following" /\ y3.ch \in Channels
           /\ request' = [request EXCEPT ![r] = y3]
    BY <2>1, <2>3, <2>4, <2>5, <2>6
  <2> HIDE DEF y1, y2, y3
  <2>8. QED
    BY <2>7
<1>3. CASE Forget(r) \/ ListFails(r) \/ NoChannel(r) \/ EvictChannel(r)
  <2>1. PICK p \in {"listing", "choosing", "refused", "retrying"} :
          /\ request' = [request EXCEPT ![r] = [x EXCEPT !.at = p]]
          /\ p = "retrying" => x.at = "evicting"
    BY <1>3 DEF Forget, ListFails, NoChannel, EvictChannel, x
  <2>2. [x EXCEPT !.at = p].at = p /\ [x EXCEPT !.at = p].ch = x.ch
    BY <1>1 DEF RequestType
  <2>3. x.at = "evicting" => x.ch \in Channels
    BY <1>1 DEF PlaceOf, x
  <2>4. [x EXCEPT !.at = p] \in RequestType
    BY <1>1, RequestValues DEF Stages
  <2>5. p # "sending" /\ (p \in {"following", "picking", "evicting", "retrying"} => p = "retrying")
    OBVIOUS
  <2>6. QED
    BY <2>1, <2>2, <2>3, <2>4, <2>5
<1>4. CASE Follow(r) \/ FollowFails(r)
  <2>1. \/ request' = [request EXCEPT ![r] = [x EXCEPT !.at = "picking"]]
        \/ request' = [request EXCEPT ![r] = [x EXCEPT !.at = "listing", !.ch = None]]
    BY <1>4 DEF Follow, FollowFails, x
  <2>2. x.ch \in Channels
    BY <1>1, <1>4 DEF Follow, FollowFails, PlaceOf, x
  <2>3. /\ [x EXCEPT !.at = "picking"].at = "picking" /\ [x EXCEPT !.at = "picking"].ch = x.ch
        /\ [x EXCEPT !.at = "listing", !.ch = None].at = "listing"
    BY <1>1 DEF RequestType
  <2>4. /\ [x EXCEPT !.at = "picking"] \in RequestType
        /\ [x EXCEPT !.at = "listing", !.ch = None] \in RequestType
    BY <1>1, RequestValues DEF Stages
  <2>5. QED
    BY <2>1, <2>2, <2>3, <2>4
<1>5. CASE List(r)
  <2>1. PICK A \in SUBSET Channels :
          request' = [request EXCEPT ![r] = [x EXCEPT !.at = "choosing", !.rest = A]]
    BY <1>5 DEF List, Types, Caches, x
  <2>2. [x EXCEPT !.at = "choosing", !.rest = A] \in RequestType
    BY <1>1, RequestValues DEF Stages
  <2>3. [x EXCEPT !.at = "choosing", !.rest = A].at = "choosing"
    BY <1>1 DEF RequestType
  <2>4. QED
    BY <2>1, <2>2, <2>3
<1>6. CASE PickFollowed(r) \/ PickListed(r)
  <2>1. ASSUME NEW c \in Channels, NEW y \in RequestType, Pick(r, c, y),
               y.at \in {"listing", "choosing"}
        PROVE  \E z \in RequestType :
                 /\ z.at \in {"following", "picking", "sending", "evicting", "retrying"}
                      => z.ch \in Channels
                 /\ z.at = "sending" => z.acc \in Accounts
                 /\ request' = [request EXCEPT ![r] = z]
    <3>1. CASE request' = [request EXCEPT ![r] = y]
      BY <2>1, <3>1
    <3>2. CASE Warm(c) # {} /\ \E a \in pools[c].in :
                 request' = [request EXCEPT ![r] =
                   [x EXCEPT !.at = "sending", !.ch = c, !.acc = a, !.rest = {}]]
      <4>1. pools[c].in \subseteq Accounts
        BY <3>2 DEF Warm, Types, Pools, PoolType
      <4>2. PICK a \in Accounts : request' = [request EXCEPT ![r] =
                   [x EXCEPT !.at = "sending", !.ch = c, !.acc = a, !.rest = {}]]
        BY <3>2, <4>1
      <4>3. [x EXCEPT !.at = "sending", !.ch = c, !.acc = a, !.rest = {}] \in RequestType
        BY <1>1, RequestValues
      <4>4. /\ [x EXCEPT !.at = "sending", !.ch = c, !.acc = a, !.rest = {}].ch = c
            /\ [x EXCEPT !.at = "sending", !.ch = c, !.acc = a, !.rest = {}].acc = a
        BY <1>1 DEF RequestType
      <4>5. QED
        BY <4>2, <4>3, <4>4
    <3>3. QED
      BY <2>1, <3>1, <3>2 DEF Pick, x
  <2>2. CASE PickFollowed(r)
    <3>1. x.ch \in Channels
      BY <1>1, <2>2 DEF PickFollowed, PlaceOf, x
    <3>2. Unfollowed(r) \in RequestType /\ Unfollowed(r).at = "listing"
      BY <1>1, RequestValues DEF Unfollowed, x, RequestType
    <3>3. QED
      BY <2>1, <2>2, <3>1, <3>2 DEF PickFollowed, x
  <2>3. CASE PickListed(r)
    <3>1. PICK c \in x.rest : Pick(r, c, Without(r, c))
      BY <2>3 DEF PickListed, x
    <3>2. Without(r, c) = [x EXCEPT !.rest = @ \ {c}]
      BY DEF Without, x
    <3>3. x.rest \ {c} \in SUBSET Channels
      BY <1>1
    <3>4. Without(r, c) \in RequestType
      BY <1>1, <3>2, <3>3, RequestValues
    <3>5. Without(r, c).at = "choosing"
      BY <1>1, <2>3, <3>2 DEF PickListed, x, RequestType
    <3>6. QED
      BY <1>1, <2>1, <3>1, <3>4, <3>5
  <2>4. QED
    BY <1>6, <2>2, <2>3
<1>7. CASE CredentialsFail(r)
  <2>1. CASE request' = [request EXCEPT ![r] = Unfollowed(r)]
    <3>1. Unfollowed(r) \in RequestType /\ Unfollowed(r).at = "listing"
      BY <1>1, RequestValues DEF Unfollowed, x, RequestType
    <3>2. QED
      BY <2>1, <3>1
  <2>2. CASE x.at = "choosing" /\ \E c \in x.rest : request' = [request EXCEPT ![r] = Without(r, c)]
    <3>1. PICK c \in x.rest : request' = [request EXCEPT ![r] = [x EXCEPT !.rest = @ \ {c}]]
      BY <2>2 DEF Without, x
    <3>2. x.rest \ {c} \in SUBSET Channels
      BY <1>1
    <3>3. [x EXCEPT !.rest = @ \ {c}] \in RequestType
      BY <1>1, <3>2, RequestValues
    <3>4. [x EXCEPT !.rest = @ \ {c}].at = "choosing"
      BY <1>1, <2>2 DEF RequestType
    <3>5. QED
      BY <3>1, <3>3, <3>4
  <2>3. QED
    BY <1>7, <2>1, <2>2 DEF CredentialsFail, x
<1>8. CASE Succeed(r) \/ Refuse(r)
  <2>1. request' = [request EXCEPT ![r] = Idle]
    BY <1>8 DEF Succeed, Refuse
  <2>2. Idle \in RequestType /\ Idle.at = "idle"
    BY <1>1, RequestValues DEF Idle
  <2>3. QED
    BY <2>1, <2>2
<1>9. CASE Cooldown(r)
  <2>1. request' = [request EXCEPT ![r] = [x EXCEPT !.at = "evicting", !.acc = None]]
    BY <1>9 DEF Cooldown, x
  <2>2. x.ch \in Channels
    BY <1>1, <1>9 DEF Cooldown, PlaceOf, x
  <2>3. /\ [x EXCEPT !.at = "evicting", !.acc = None].at = "evicting"
        /\ [x EXCEPT !.at = "evicting", !.acc = None].ch = x.ch
    BY <1>1 DEF RequestType
  <2>4. [x EXCEPT !.at = "evicting", !.acc = None] \in RequestType
    BY <1>1, RequestValues
  <2>5. QED
    BY <2>1, <2>2, <2>3, <2>4
<1>10. CASE PickNext(r)
  <2>1. x.ch \in Channels
    BY <1>1, <1>10 DEF PickNext, PlaceOf, x
  <2>2. CASE request' = [request EXCEPT ![r] = Idle]
    <3>1. Idle \in RequestType /\ Idle.at = "idle"
      BY <1>1, RequestValues DEF Idle
    <3>2. QED
      BY <2>2, <3>1
  <2>3. CASE Warm(x.ch) # {} /\ \E a \in pools[x.ch].in :
               request' = [request EXCEPT ![r] = [x EXCEPT !.at = "sending", !.acc = a]]
    <3>1. pools[x.ch].in \subseteq Accounts
      BY <2>1, <2>3 DEF Warm, Types, Pools, PoolType
    <3>2. PICK a \in Accounts :
            request' = [request EXCEPT ![r] = [x EXCEPT !.at = "sending", !.acc = a]]
      BY <2>3, <3>1
    <3>3. [x EXCEPT !.at = "sending", !.acc = a] \in RequestType
      BY <1>1, RequestValues
    <3>4. /\ [x EXCEPT !.at = "sending", !.acc = a].ch = x.ch
          /\ [x EXCEPT !.at = "sending", !.acc = a].acc = a
      BY <1>1 DEF RequestType
    <3>5. QED
      BY <2>1, <3>2, <3>3, <3>4
  <2>4. QED
    BY <1>10, <2>2, <2>3 DEF PickNext, x
<1>11. QED
  BY <1>2, <1>3, <1>4, <1>5, <1>6, <1>7, <1>8, <1>9, <1>10 DEF RequestStep, RequestFails, Handled

(* What a request does to the copies: it never changes what a pool holds,  *)
(* and it loads the list only as the database has it.                      *)
LEMMA RequestCopies ==
  ASSUME Types, NEW r \in Requests, RequestStep(r)
  PROVE  /\ Pools' /\ Caches' /\ AtRest
         /\ \A c \in Channels : /\ pools'[c] = None <=> pools[c] = None
                                /\ pools[c] # None => pools'[c].in = pools[c].in
         /\ \/ list' = list
            \/ list' = [chs |-> {c \in Channels : Serves(c)}, left |-> ListTTL]
         /\ List(r) \/ list' = list
         /\ Cooldown(r) \/ pools' = pools
<1> DEFINE x == request[r]
<1>1. /\ x \in RequestType /\ PlaceOf(r) /\ Pools /\ Caches
  BY DEF Types, Tasks
<1>2. AtRest
  BY DEF RequestStep, RequestFails, Handled, Arrive, Forget, Follow, List, PickFollowed, PickListed, NoChannel,
         Succeed, Cooldown, EvictChannel, PickNext, Refuse, FollowFails, ListFails, CredentialsFail
<1>3. CASE UNCHANGED <<pools, caches>>
  BY <1>1, <1>2, <1>3 DEF Pools, Caches, caches
<1>4. CASE Forget(r)
  <2>1. affinity' \in [Tokens -> [ch : Channels, left : 0..AffinityTTL] \cup {None}]
    BY <1>1, <1>4 DEF Forget, Caches
  <2>2. UNCHANGED <<pools, list>>
    BY <1>4 DEF Forget
  <2>3. QED
    BY <1>1, <1>2, <2>1, <2>2 DEF Pools, Caches
<1>5. CASE List(r)
  <2>1. list' = list \/ list' = [chs |-> {c \in Channels : Serves(c)}, left |-> ListTTL]
    BY <1>5 DEF List
  <2>2. list' \in [chs : SUBSET Channels, left : 0..ListTTL]
    BY <1>1, <2>1, RoutingAssumption DEF Caches
  <2>3. UNCHANGED <<pools, affinity>>
    BY <1>5 DEF List
  <2>4. QED
    BY <1>1, <1>2, <1>5, <2>1, <2>2, <2>3 DEF Pools, Caches
<1>6. CASE Succeed(r)
  <2>1. x.ch \in Channels
    BY <1>1, <1>6 DEF Succeed, PlaceOf
  <2>2. [ch |-> x.ch, left |-> AffinityTTL] \in [ch : Channels, left : 0..AffinityTTL]
    BY <2>1, RoutingAssumption
  <2>3. affinity' \in [Tokens -> [ch : Channels, left : 0..AffinityTTL] \cup {None}]
    BY <1>1, <1>6, <2>2 DEF Succeed, Caches
  <2>4. UNCHANGED <<pools, list>>
    BY <1>6 DEF Succeed
  <2>5. QED
    BY <1>1, <1>2, <2>3, <2>4 DEF Pools, Caches
<1>7. CASE EvictChannel(r)
  <2>1. affinity' \in [Tokens -> [ch : Channels, left : 0..AffinityTTL] \cup {None}]
    BY <1>1, <1>7 DEF EvictChannel, Caches
  <2>2. UNCHANGED <<pools, list>>
    BY <1>7 DEF EvictChannel
  <2>3. QED
    BY <1>1, <1>2, <2>1, <2>2 DEF Pools, Caches
<1>8. CASE Cooldown(r)
  <2> DEFINE c == x.ch
             q == [pools[c] EXCEPT !.cool = @ \cup (pools[c].in \cap {x.acc})]
  <2>1. c \in Channels
    BY <1>1, <1>8 DEF Cooldown, PlaceOf
  <2>2. pools' = IF pools[c] = None THEN pools ELSE [pools EXCEPT ![c] = q]
    BY <1>8 DEF Cooldown
  <2>3. UNCHANGED caches
    BY <1>8 DEF Cooldown
  <2>4. pools[c] # None =>
          q \in PoolType /\ q.in = pools[c].in /\ q.cool \subseteq q.in /\ q # None
    BY <1>1, <2>1, RoutingAssumption DEF Pools, PoolType
  <2> HIDE DEF q, c
  <2>5. QED
    BY <1>1, <1>2, <1>8, <2>1, <2>2, <2>3, <2>4 DEF Pools, Caches, caches
<1>9. QED
  BY <1>3, <1>4, <1>5, <1>6, <1>7, <1>8
  DEF RequestStep, RequestFails, Handled, Arrive, Follow, PickFollowed, PickListed, NoChannel,
      PickNext, Refuse, FollowFails, ListFails, CredentialsFail

(* What a call of an administrator may become. *)
LEMMA CallValues ==
  ASSUME NEW x \in CallType, NEW s \in Seq(Channels)
  PROVE  /\ NoCall \in CallType
         /\ Pending(s) \in CallType /\ Pending(s).at = "pools" /\ Pending(s).todo = s
         /\ ~Pending(s).lone
         /\ \A p \in Calls : [x EXCEPT !.at = p] \in CallType
         /\ \A p \in Calls : [NoCall EXCEPT !.at = p, !.todo = s] \in CallType
         /\ \A p \in Calls, a \in Accounts : [NoCall EXCEPT !.at = p, !.acc = a] \in CallType
         /\ \A p \in Calls, a \in Accounts :
              [NoCall EXCEPT !.at = p, !.acc = a, !.todo = s] \in CallType
         /\ [x EXCEPT !.lone = FALSE] \in CallType
<1>1. NoCall \in CallType
  BY DEF NoCall, CallType, Calls
<1>2. Pending(s) \in CallType /\ Pending(s).at = "pools" /\ Pending(s).todo = s /\ ~Pending(s).lone
  BY DEF Pending, NoCall, CallType, Calls
<1>3. \A p \in Calls : [x EXCEPT !.at = p] \in CallType
  BY DEF CallType
<1>4. \A p \in Calls : [NoCall EXCEPT !.at = p, !.todo = s] \in CallType
  BY <1>1 DEF CallType
<1>5. \A p \in Calls, a \in Accounts : [NoCall EXCEPT !.at = p, !.acc = a] \in CallType
  BY <1>1 DEF CallType
<1>6. \A p \in Calls, a \in Accounts : [NoCall EXCEPT !.at = p, !.acc = a, !.todo = s] \in CallType
  BY <1>1 DEF CallType
<1>7. [x EXCEPT !.lone = FALSE] \in CallType
  BY DEF CallType
<1>8. QED
  BY <1>1, <1>2, <1>3, <1>4, <1>5, <1>6, <1>7

----------------------------------------------------------------------------
(* What administrators do to the rows, the pools and their own calls. *)

AdminStep(s) == Administered(s) \/ RereadFails(s) \/ ReadFails(s)

Becomes(s, x) == call' = [call EXCEPT ![s] = x] \/ Begin(s, x)

(* An account once created is never absent, a channel once deleted stays   *)
(* deleted.                                                                *)
LEMMA RowsGrow ==
  ASSUME Types, NEW s \in Admins, AdminStep(s)
  PROVE  /\ Rows' /\ Serve
         /\ \A a \in Accounts : status[a] # "absent" => status'[a] # "absent"
         /\ \A c \in Channels : row[c] = "deleted" => row'[c] = "deleted"
<1>1. Rows /\ \A t \in Admins : TaskOf(t)
  BY DEF Types, Tasks
<1>2. Serve
  BY DEF AdminStep, Administered, CreateChannel, FindChannel, UpdateChannel, DeleteChannel,
         RemovePool, CreateAccount, FindAccount, UpdateAccount, Reread, RereadFails,
         DeleteAccount, ReadAccounts, ReadFails, SetPool
<1>3. CASE UNCHANGED rowVars
  BY <1>1, <1>2, <1>3 DEF Rows, rowVars
<1>4. ASSUME NEW c \in Channels, CreateChannel(s, c) \/ DeleteChannel(s, c)
      PROVE  Rows' /\ \A d \in Channels : row[d] = "deleted" => row'[d] = "deleted"
  BY <1>1, <1>4 DEF CreateChannel, DeleteChannel, Rows
<1>5. CASE UpdateChannel(s)
  <2>1. serves' \in [Channels -> BOOLEAN]
    BY <1>1, <1>5 DEF UpdateChannel, Rows
  <2>2. UNCHANGED <<row, status, home>>
    BY <1>5 DEF UpdateChannel
  <2>3. QED
    BY <1>1, <1>2, <2>1, <2>2 DEF Rows
<1>6. ASSUME NEW a \in Accounts, NEW c \in Channels, CreateAccount(s, a, c)
      PROVE  Rows' /\ \A b \in Accounts : status[b] # "absent" => status'[b] # "absent"
  BY <1>1, <1>6, RoutingAssumption DEF CreateAccount, Rows
<1>7. ASSUME NEW a \in Accounts, DeleteAccount(s, a)
      PROVE  Rows' /\ \A b \in Accounts : status[b] # "absent" => status'[b] # "absent"
  BY <1>1, <1>7 DEF DeleteAccount, Rows
<1>8. CASE UpdateAccount(s)
  <2> DEFINE a == call[s].acc
  <2>1. a \in Accounts /\ status[a] # "absent"
    BY <1>1, <1>8 DEF UpdateAccount, TaskOf
  <2>2. \/ /\ status[a] \in {"on", "off"} /\ UNCHANGED home
           /\ status' = [status EXCEPT ![a] = IF @ = "on" THEN "off" ELSE "on"]
        \/ UNCHANGED status /\ \E c \in Channels : home' = [home EXCEPT ![a] = c]
    BY <1>8 DEF UpdateAccount
  <2>3. UNCHANGED <<row, serves>>
    BY <1>8 DEF UpdateAccount
  <2> HIDE DEF a
  <2>4. QED
    BY <1>1, <1>2, <2>1, <2>2, <2>3, RoutingAssumption DEF Rows
<1>9. QED
  BY <1>2, <1>3, <1>4, <1>5, <1>6, <1>7, <1>8
  DEF AdminStep, Administered, CreateChannel, DeleteChannel, CreateAccount, DeleteAccount,
      FindChannel, RemovePool, FindAccount, Reread, RereadFails, ReadAccounts, ReadFails, SetPool,
      rowVars, Begin

(* One call moves; of the others only that they are alone may change.      *)
LEMMA CallMoves ==
  ASSUME Types, NEW s \in Admins, NEW x \in CallType, Becomes(s, x)
  PROVE  /\ call' \in [Admins -> CallType]
         /\ call'[s] = x
         /\ \A t \in Admins \ {s} :
              /\ call'[t].at = call[t].at /\ call'[t].acc = call[t].acc
              /\ call'[t].todo = call[t].todo /\ call'[t].read = call[t].read
              /\ call'[t].lone => call[t].lone
              /\ Begin(s, x) => ~call'[t].lone
<1>1. call \in [Admins -> CallType]
  BY DEF Types, Tasks
<1>2. CASE call' = [call EXCEPT ![s] = x] /\ ~Begin(s, x)
  BY <1>1, <1>2
<1>3. CASE Begin(s, x)
  <2>1. call' = [t \in Admins |-> IF t = s THEN x ELSE [call[t] EXCEPT !.lone = FALSE]]
    BY <1>3 DEF Begin
  <2>2. \A t \in Admins : LET y == [call[t] EXCEPT !.lone = FALSE]
                          IN  /\ y \in CallType /\ y.at = call[t].at /\ y.acc = call[t].acc
                              /\ y.todo = call[t].todo /\ y.read = call[t].read /\ ~y.lone
    BY <1>1 DEF CallType
  <2>3. QED
    BY <2>1, <2>2
<1>4. QED
  BY <1>2, <1>3 DEF Becomes

LEMMA OthersTasks ==
  ASSUME Types, NEW s \in Admins, AdminStep(s), NEW x \in CallType, Becomes(s, x)
  PROVE  \A t \in Admins \ {s} : TaskOf(t)'
<1> TAKE t \in Admins \ {s}
<1>1. TaskOf(t) /\ call[t] \in CallType
  BY DEF Types, Tasks
<1>2. /\ call'[t].at = call[t].at /\ call'[t].acc = call[t].acc
      /\ call'[t].todo = call[t].todo
  BY CallMoves
<1>3. /\ \A a \in Accounts : status[a] # "absent" => status'[a] # "absent"
      /\ \A c \in Channels : row[c] = "deleted" => row'[c] = "deleted"
  BY RowsGrow
<1>4. call[t].at = "removing" => Head(call[t].todo) \in Channels
  BY <1>1 DEF TaskOf, CallType
<1>5. QED
  BY <1>1, <1>2, <1>3, <1>4 DEF TaskOf

(* The lists of channels that calls carry. *)
LEMMA Appended ==
  ASSUME NEW z \in Seq(Channels), NEW c \in Channels
  PROVE  /\ Len(z) \in Nat
         /\ Append(z, c) \in Seq(Channels) /\ Len(Append(z, c)) = Len(z) + 1
         /\ \A i \in 1..Len(z) : Append(z, c)[i] = z[i]
<1>1. Len(z) \in Nat /\ z \in [1..Len(z) -> Channels]
  OBVIOUS
<1>2. QED
  BY <1>1

LEMMA Todos ==
  ASSUME NEW c \in Channels
  PROVE  /\ <<>> \in Seq(Channels) /\ Len(<<>>) = 0
         /\ <<c>> \in Seq(Channels) /\ Len(<<c>>) = 1 /\ Head(<<c>>) = c /\ <<c>> # <<>>
         /\ <<c>>[1] = c
         /\ \A s \in Seq(Channels) :
              /\ Len(s) <= 1 => /\ Append(s, c) \in Seq(Channels)
                                /\ Len(Append(s, c)) = Len(s) + 1
                                /\ Append(s, c) # <<>>
                                /\ Append(s, c)[Len(s) + 1] = c
                                /\ Len(s) = 1 => Append(s, c)[1] = s[1]
              /\ s # <<>> => /\ Len(s) \in Nat \ {0} /\ Head(s) = s[1] /\ Head(s) \in Channels
                             /\ Tail(s) \in Seq(Channels) /\ Len(Tail(s)) = Len(s) - 1
                             /\ \A i \in 1..(Len(s) - 1) : Tail(s)[i] = s[i + 1]
                             /\ Len(s) > 1 => Tail(s) # <<>>
              /\ Len(s) <= 1 /\ s # <<>> => s = <<s[1]>>
<1>1. /\ <<>> \in Seq(Channels) /\ Len(<<>>) = 0
      /\ <<c>> \in Seq(Channels) /\ Len(<<c>>) = 1 /\ Head(<<c>>) = c /\ <<c>> # <<>>
      /\ <<c>>[1] = c
  OBVIOUS
<1>2. ASSUME NEW s \in Seq(Channels), Len(s) <= 1
      PROVE  /\ Append(s, c) \in Seq(Channels)
             /\ Len(Append(s, c)) = Len(s) + 1
             /\ Append(s, c) # <<>>
             /\ Append(s, c)[Len(s) + 1] = c
             /\ Len(s) = 1 => Append(s, c)[1] = s[1]
             /\ s # <<>> => s = <<s[1]>>
  <2>1. Len(s) \in Nat /\ s \in [1..Len(s) -> Channels]
    OBVIOUS
  <2>2. /\ Append(s, c) \in Seq(Channels) /\ Len(Append(s, c)) = Len(s) + 1
        /\ Append(s, c)[Len(s) + 1] = c
        /\ \A i \in 1..Len(s) : Append(s, c)[i] = s[i]
    BY <2>1
  <2>3. Append(s, c) # <<>>
    BY <2>1, <2>2
  <2>4. s # <<>> => s = <<s[1]>>
    <3>1. s # <<>> => Len(s) = 1
      BY <1>2, <2>1, EmptySeq
    <3>2. Len(s) = 1 => s[1] \in Channels
      BY <2>1
    <3>3. Len(s) = 1 => /\ <<s[1]>> \in Seq(Channels) /\ Len(<<s[1]>>) = 1
                       /\ <<s[1]>>[1] = s[1]
      BY <3>2
    <3>4. Len(s) = 1 => s = <<s[1]>>
      BY <2>1, <3>3, SeqEqual
    <3>5. QED
      BY <3>1, <3>4
  <2>5. QED
    BY <2>1, <2>2, <2>3, <2>4
<1>3. ASSUME NEW s \in Seq(Channels), s # <<>>
      PROVE  /\ Len(s) \in Nat \ {0} /\ Head(s) = s[1] /\ Head(s) \in Channels
             /\ Tail(s) \in Seq(Channels) /\ Len(Tail(s)) = Len(s) - 1
             /\ \A i \in 1..(Len(s) - 1) : Tail(s)[i] = s[i + 1]
             /\ Len(s) > 1 => Tail(s) # <<>>
  BY <1>3
<1>4. QED
  BY <1>1, <1>2, <1>3

(* What a call becomes in each of its steps. *)
LEMMA CallSteps ==
  ASSUME Types, NEW s \in Admins
  PROVE  /\ \A c \in Channels : CreateChannel(s, c) => Becomes(s, Pending(<<c>>))
         /\ \A c \in Channels : FindChannel(s, c) =>
              Becomes(s, [NoCall EXCEPT !.at = "editing", !.todo = <<c>>])
         /\ UpdateChannel(s) => Becomes(s, [call[s] EXCEPT !.at = "pools"])
         /\ \A c \in Channels : DeleteChannel(s, c) =>
              Becomes(s, [NoCall EXCEPT !.at = "removing", !.todo = <<c>>])
         /\ RemovePool(s) \/ RereadFails(s) => Becomes(s, NoCall)
         /\ \A a \in Accounts, c \in Channels : CreateAccount(s, a, c) => Becomes(s, Pending(<<c>>))
         /\ \A a \in Accounts : FindAccount(s, a) =>
              Becomes(s, [NoCall EXCEPT !.at = "updating", !.acc = a, !.todo = <<home[a]>>])
         /\ \A a \in Accounts : DeleteAccount(s, a) =>
              Becomes(s, [NoCall EXCEPT !.at = "rereading", !.acc = a])
         /\ UpdateAccount(s) => Becomes(s, [call[s] EXCEPT !.at = "rereading"])
         /\ Reread(s) =>
              LET new == home[call[s].acc]
                  old == call[s].todo
              IN  Becomes(s, Pending(IF old # <<>> /\ Head(old) # new THEN Append(old, new)
                                     ELSE <<new>>))
         /\ ReadAccounts(s) =>
              Becomes(s, [call[s] EXCEPT !.at = "setting", !.lone = Others(s),
                                         !.read = Members(Head(call[s].todo))])
         /\ ReadFails(s) => Becomes(s, [call[s] EXCEPT !.at = "setting"])
         /\ SetPool(s) => Becomes(s, Next1(s))
BY DEF Becomes, CreateChannel, FindChannel, UpdateChannel, DeleteChannel, RemovePool, RereadFails,
       CreateAccount, FindAccount, DeleteAccount, UpdateAccount, Reread, ReadAccounts, ReadFails,
       SetPool

LEMMA AdminTyped ==
  ASSUME Types, NEW s \in Admins, AdminStep(s)
  PROVE  \E x \in CallType : Becomes(s, x) /\ TaskOf(s)'
<1> DEFINE y == call[s]
<1>1. y \in CallType /\ TaskOf(s) /\ y.todo \in Seq(Channels) /\ Rows /\ Rows'
  BY RowsGrow DEF Types, Tasks, CallType
<1>2. NoCall \in CallType /\ NoCall.at = "idle" /\ NoCall.todo = <<>> /\ Len(<<>>) <= 2
  <2>1. NoCall \in CallType
    BY <1>1, CallValues
  <2>2. QED
    BY <2>1 DEF NoCall
<1>3. ASSUME NEW x \in CallType, Becomes(s, x), Len(x.todo) <= 2,
             x.at \in {"updating", "rereading"} =>
               x.acc \in Accounts /\ status'[x.acc] # "absent" /\ Len(x.todo) <= 1,
             x.at \in {"pools", "setting", "editing", "removing"} => x.todo # <<>>,
             x.at = "removing" => row'[Head(x.todo)] = "deleted"
      PROVE  \E z \in CallType : Becomes(s, z) /\ TaskOf(s)'
  <2>1. call'[s] = x
    BY <1>3, CallMoves
  <2>2. TaskOf(s)'
    BY <1>3, <2>1 DEF TaskOf
  <2>3. QED
    BY <1>3, <2>2
<1>4. ASSUME NEW t \in Seq(Channels), t # <<>>, Len(t) <= 2, Becomes(s, Pending(t))
      PROVE  \E z \in CallType : Becomes(s, z) /\ TaskOf(s)'
  BY <1>1, <1>3, <1>4, CallValues
<1>5. ASSUME NEW c \in Channels, CreateChannel(s, c) \/ \E a \in Accounts : CreateAccount(s, a, c)
      PROVE  \E z \in CallType : Becomes(s, z) /\ TaskOf(s)'
  <2>1. Becomes(s, Pending(<<c>>))
    BY <1>5, CallSteps
  <2>2. <<c>> \in Seq(Channels) /\ <<c>> # <<>> /\ Len(<<c>>) <= 2
    BY Todos
  <2>3. QED
    BY <1>4, <2>1, <2>2
<1>6. ASSUME NEW c \in Channels, FindChannel(s, c) \/ DeleteChannel(s, c)
      PROVE  \E z \in CallType : Becomes(s, z) /\ TaskOf(s)'
  <2>1. <<c>> \in Seq(Channels) /\ <<c>> # <<>> /\ Len(<<c>>) <= 2 /\ Head(<<c>>) = c
    BY Todos
  <2>2. PICK p \in {"editing", "removing"} :
          /\ Becomes(s, [NoCall EXCEPT !.at = p, !.todo = <<c>>])
          /\ p = "removing" => row'[c] = "deleted"
    BY <1>1, <1>6, CallSteps DEF DeleteChannel, Rows
  <2>3. [NoCall EXCEPT !.at = p, !.todo = <<c>>] \in CallType
    BY <1>1, <2>1, CallValues DEF Calls
  <2>4. /\ [NoCall EXCEPT !.at = p, !.todo = <<c>>].at = p
        /\ [NoCall EXCEPT !.at = p, !.todo = <<c>>].todo = <<c>>
    BY DEF NoCall
  <2>5. QED
    BY <1>3, <2>1, <2>2, <2>3, <2>4
<1>7. CASE RemovePool(s) \/ RereadFails(s)
  <2>1. Becomes(s, NoCall)
    BY <1>7, CallSteps
  <2>2. QED
    BY <1>2, <1>3, <2>1
<1>8. CASE UpdateChannel(s)
  <2>1. Becomes(s, [y EXCEPT !.at = "pools"])
    BY <1>8, CallSteps
  <2>2. [y EXCEPT !.at = "pools"] \in CallType
    BY <1>1, CallValues DEF Calls
  <2>3. [y EXCEPT !.at = "pools"].at = "pools" /\ [y EXCEPT !.at = "pools"].todo = y.todo
    BY <1>1 DEF CallType
  <2>4. y.todo # <<>> /\ Len(y.todo) <= 2
    BY <1>1, <1>8 DEF UpdateChannel, TaskOf
  <2>5. QED
    BY <1>3, <2>1, <2>2, <2>3, <2>4
<1>9. CASE ReadAccounts(s) \/ ReadFails(s)
  <2>1. PICK b \in BOOLEAN, A \in SUBSET Accounts :
          Becomes(s, [y EXCEPT !.at = "setting", !.lone = b, !.read = A])
    <3>1. CASE ReadAccounts(s)
      <4>1. Others(s) \in BOOLEAN /\ Members(Head(y.todo)) \in SUBSET Accounts
        BY DEF Others, Members
      <4>2. QED
        BY <3>1, <4>1, CallSteps
    <3>2. CASE ReadFails(s)
      <4>1. Becomes(s, [y EXCEPT !.at = "setting"])
        BY <3>2, CallSteps
      <4>2. y.lone \in BOOLEAN /\ y.read \in SUBSET Accounts
        BY <1>1 DEF CallType
      <4>3. [y EXCEPT !.at = "setting"] = [y EXCEPT !.at = "setting", !.lone = y.lone, !.read = y.read]
        BY <1>1 DEF CallType
      <4>4. QED
        BY <4>1, <4>2, <4>3
    <3>3. QED
      BY <1>9, <3>1, <3>2
  <2> DEFINE x == [y EXCEPT !.at = "setting", !.lone = b, !.read = A]
  <2>2. x \in CallType /\ x.at = "setting" /\ x.todo = y.todo
    BY <1>1 DEF CallType, Calls
  <2>3. y.todo # <<>> /\ Len(y.todo) <= 2
    BY <1>1, <1>9 DEF ReadAccounts, ReadFails, TaskOf
  <2> HIDE DEF x
  <2>4. Becomes(s, x)
    BY <2>1 DEF x
  <2>5. QED
    BY <1>3, <2>2, <2>3, <2>4
<1>10. ASSUME NEW a \in Accounts, FindAccount(s, a)
       PROVE  \E z \in CallType : Becomes(s, z) /\ TaskOf(s)'
  <2>1. status[a] # "absent" /\ home[a] \in Channels /\ status' = status
    BY <1>1, <1>10 DEF FindAccount, Rows, rowVars
  <2> DEFINE x == [NoCall EXCEPT !.at = "updating", !.acc = a, !.todo = <<home[a]>>]
  <2>2. <<home[a]>> \in Seq(Channels) /\ Len(<<home[a]>>) = 1
    BY <2>1, Todos
  <2>3. x \in CallType
    BY <1>1, <2>2, CallValues DEF Calls
  <2>4. x.at = "updating" /\ x.acc = a /\ x.todo = <<home[a]>>
    BY DEF NoCall
  <2>5. Becomes(s, x)
    BY <1>10, CallSteps
  <2> HIDE DEF x
  <2>6. Len(x.todo) <= 1 /\ Len(x.todo) <= 2
    BY <2>2, <2>4
  <2>7. x.acc \in Accounts /\ status'[x.acc] # "absent"
    BY <2>1, <2>4
  <2>8. QED
    BY <1>3, <2>3, <2>4, <2>5, <2>6, <2>7
<1>11. ASSUME NEW a \in Accounts, DeleteAccount(s, a)
       PROVE  \E z \in CallType : Becomes(s, z) /\ TaskOf(s)'
  <2>1. status'[a] # "absent"
    BY <1>1, <1>11 DEF DeleteAccount, Rows
  <2> DEFINE x == [NoCall EXCEPT !.at = "rereading", !.acc = a]
  <2>2. x \in CallType
    BY <1>1, CallValues DEF Calls
  <2>3. x.at = "rereading" /\ x.acc = a /\ x.todo = <<>>
    BY DEF NoCall
  <2>4. Becomes(s, x)
    BY <1>11, CallSteps
  <2> HIDE DEF x
  <2>5. QED
    BY <1>1, <1>3, <2>1, <2>2, <2>3, <2>4, Todos
<1>12. CASE UpdateAccount(s)
  <2>1. y.acc \in Accounts /\ status[y.acc] # "absent" /\ Len(y.todo) <= 1
    BY <1>1, <1>12 DEF UpdateAccount, TaskOf
  <2>2. status'[y.acc] # "absent"
    BY <2>1, RowsGrow
  <2> DEFINE x == [y EXCEPT !.at = "rereading"]
  <2>3. x \in CallType
    BY <1>1, CallValues DEF Calls
  <2>4. x.at = "rereading" /\ x.acc = y.acc /\ x.todo = y.todo
    BY <1>1 DEF CallType
  <2>5. Becomes(s, x)
    BY <1>12, CallSteps
  <2>6. Len(y.todo) <= 2
    BY <1>1 DEF TaskOf
  <2> HIDE DEF x
  <2>7. QED
    BY <1>3, <2>1, <2>2, <2>3, <2>4, <2>5, <2>6
<1>13. CASE Reread(s)
  <2> DEFINE new == home[y.acc]
             todo == IF y.todo # <<>> /\ Head(y.todo) # new THEN Append(y.todo, new) ELSE <<new>>
  <2>1. y.acc \in Accounts /\ status[y.acc] # "absent" /\ Len(y.todo) <= 1
    BY <1>1, <1>13 DEF Reread, TaskOf
  <2>2. new \in Channels
    BY <1>1, <2>1 DEF Rows
  <2>3. todo \in Seq(Channels) /\ Len(todo) <= 2 /\ todo # <<>>
    BY <1>1, <2>1, <2>2, Todos
  <2>4. Becomes(s, Pending(todo))
    BY <1>13, CallSteps
  <2>5. QED
    BY <1>4, <2>3, <2>4
<1>14. CASE SetPool(s)
  <2>1. y.todo # <<>> /\ Len(y.todo) <= 2
    BY <1>1, <1>14 DEF SetPool, TaskOf
  <2>2. Becomes(s, Next1(s))
    BY <1>14, CallSteps
  <2>3. CASE Len(y.todo) = 1
    BY <1>2, <1>3, <2>2, <2>3 DEF Next1
  <2>4. CASE Len(y.todo) # 1
    <3>1. /\ Tail(y.todo) \in Seq(Channels) /\ Len(Tail(y.todo)) = Len(y.todo) - 1
          /\ Tail(y.todo) # <<>>
      BY <1>1, <2>1, <2>4, Todos
    <3>2. Len(Tail(y.todo)) <= 2
      BY <1>1, <2>1, <3>1
    <3>3. Becomes(s, Pending(Tail(y.todo)))
      BY <2>2, <2>4 DEF Next1
    <3>4. QED
      BY <1>4, <3>1, <3>2, <3>3
  <2>5. QED
    BY <2>3, <2>4
<1>15. QED
  BY <1>5, <1>6, <1>7, <1>8, <1>9, <1>10, <1>11, <1>12, <1>13, <1>14 DEF AdminStep, Administered

LEMMA AdminBooks ==
  ASSUME Types, NEW s \in Admins, AdminStep(s)
  PROVE  Pools' /\ Books'
<1> DEFINE y == call[s]
<1>1. /\ Pools /\ Books /\ Rows /\ y \in CallType /\ TaskOf(s)
      /\ y.todo \in Seq(Channels) /\ y.read \in SUBSET Accounts
  BY DEF Types, Tasks, CallType
<1>2. y.todo # <<>> => Head(y.todo) \in Channels
  BY <1>1
<1>3. edits' = edits \/ (edits < MaxEdits /\ edits' = edits + 1)
  BY DEF AdminStep, Administered, CreateChannel, FindChannel, UpdateChannel, DeleteChannel,
         RemovePool, CreateAccount, FindAccount, UpdateAccount, Reread, RereadFails,
         DeleteAccount, ReadAccounts, ReadFails, SetPool, Begin, history
<1>4. edits' \in 0..MaxEdits
  BY <1>1, <1>3, RoutingAssumption DEF Books
<1>5. deletedFor' \in [Channels -> Ages]
  <2>1. UNCHANGED deletedFor \/ \E c \in Channels : deletedFor' = [deletedFor EXCEPT ![c] = 0]
    BY DEF AdminStep, Administered, CreateChannel, FindChannel, UpdateChannel, DeleteChannel,
           RemovePool, CreateAccount, FindAccount, UpdateAccount, Reread, RereadFails,
           DeleteAccount, ReadAccounts, ReadFails, SetPool, history
  <2>2. 0 \in Ages
    BY RoutingAssumption DEF Ages
  <2>3. QED
    BY <1>1, <2>1, <2>2 DEF Books
<1>6. CASE SetPool(s)
  <2>1. Head(y.todo) \in Channels /\ Pool(y.read) \in PoolType /\ Pool(y.read).cool = {}
    BY <1>1, <1>2, <1>6 DEF SetPool, TaskOf, Pool, PoolType
  <2>2. /\ pools' = [pools EXCEPT ![Head(y.todo)] = Pool(y.read)]
        /\ doubtful' = doubtful \ {Head(y.todo)} \/ doubtful' = doubtful \cup {Head(y.todo)}
    BY <1>6 DEF SetPool
  <2>3. Pools'
    BY <1>1, <2>1, <2>2 DEF Pools
  <2>4. doubtful' \subseteq Channels
    BY <1>1, <2>1, <2>2 DEF Books
  <2>5. QED
    BY <1>4, <1>5, <2>3, <2>4 DEF Books
<1>7. CASE RemovePool(s)
  <2>1. pools' = [pools EXCEPT ![Head(y.todo)] = None] /\ doubtful' = doubtful
    BY <1>7 DEF RemovePool, history
  <2>2. QED
    BY <1>1, <1>4, <1>5, <2>1 DEF Pools, Books
<1>8. CASE RereadFails(s)
  <2>1. home[y.acc] \in Channels
    BY <1>1, <1>8 DEF RereadFails, TaskOf, Rows
  <2>2. pools' = pools /\ doubtful' = doubtful \cup {home[y.acc]}
    BY <1>8 DEF RereadFails
  <2>3. QED
    BY <1>1, <1>4, <1>5, <2>1, <2>2 DEF Pools, Books
<1>9. CASE UNCHANGED <<pools, doubtful>>
  BY <1>1, <1>4, <1>5, <1>9 DEF Pools, Books
<1>10. QED
  BY <1>6, <1>7, <1>8, <1>9
  DEF AdminStep, Administered, CreateChannel, FindChannel, UpdateChannel, DeleteChannel,
      CreateAccount, FindAccount, UpdateAccount, Reread,
      DeleteAccount, ReadAccounts, ReadFails, history

----------------------------------------------------------------------------
(* The types. *)

(* A step is one of a request, of an administrator's call, of a timer, of  *)
(* the goroutine that cleans the affinities, or the passing of time.       *)
LEMMA Steps ==
  ASSUME [Next]_vars
  PROVE  \/ (\E r \in Requests : Handled(r)) /\ Observed /\ Owing
         \/ /\ \E r \in Requests : RequestFails(r)
            /\ Observed /\ owed' = [q \in Requests |-> {}]
         \/ /\ \E s \in Admins : AdminStep(s)
            /\ Observed /\ (Owing \/ owed' = [q \in Requests |-> {}])
         \/ (\E c \in Channels : CooldownEnds(c)) /\ Observed /\ Owing
         \/ Cleanup /\ Observed /\ Owing
         \/ Tick
         \/ UNCHANGED vars
BY DEF Next, Step, Failure, RequestFails, AdminStep

(* Who begins to be observed has just become ready. *)
LEMMA WatchesTyped ==
  ASSUME Types, Observed, Owing \/ owed' = [q \in Requests |-> {}]
  PROVE  Watches'
<1>1. 0 \in Ages /\ Never \in Ages
  BY RoutingAssumption DEF Ages
<1>2. readyFor' \in [Channels -> Ages]
  BY <1>1 DEF Observed, Types, Watches
<1>3. owed' \in [Requests -> SUBSET Channels]
  BY DEF Owing, Types, Watches, Long
<1>4. QED
  BY <1>2, <1>3 DEF Watches

LEMMA OlderTyped ==
  ASSUME NEW f \in [Channels -> Ages]
  PROVE  /\ Older(f) \in [Channels -> Ages]
         /\ \A c \in Channels :
              /\ f[c] = Never <=> Older(f)[c] = Never
              /\ f[c] # Never => f[c] \in 0..ListTTL
              /\ f[c] # Never /\ f[c] < ListTTL => Older(f)[c] = f[c] + 1
              /\ f[c] = ListTTL => Older(f)[c] = ListTTL
BY RoutingAssumption DEF Older, Ages

(* A timer ends a cooldown; nothing else changes, of the copies.           *)
LEMMA TimerSteps ==
  ASSUME Types, NEW c \in Channels, CooldownEnds(c)
  PROVE  /\ Pools' /\ AtRest /\ UNCHANGED <<request, caches>>
         /\ \A d \in Channels : /\ pools'[d] = None <=> pools[d] = None
                                /\ pools[d] # None => pools'[d].in = pools[d].in
<1>1. AtRest /\ UNCHANGED <<request, caches>> /\ pools[c] # None
  BY DEF CooldownEnds
<1>2. PICK a \in pools[c].cool : pools' = [pools EXCEPT ![c].cool = @ \ {a}]
  BY DEF CooldownEnds
<1> DEFINE q == [pools[c] EXCEPT !.cool = pools[c].cool \ {a}]
<1>3. Pools /\ pools[c] \in PoolType
  BY <1>1 DEF Types, Pools
<1>4. q \in PoolType /\ q.in = pools[c].in /\ q.cool \subseteq q.in /\ q # None
  BY <1>1, <1>3, RoutingAssumption DEF Pools, PoolType
<1>5. pools' = [pools EXCEPT ![c] = q]
  BY <1>2
<1> HIDE DEF q
<1>6. Pools'
  BY <1>3, <1>4, <1>5 DEF Pools
<1>7. QED
  BY <1>1, <1>3, <1>4, <1>5, <1>6 DEF Pools

LEMMA TypesStep == ASSUME Types, [Next]_vars PROVE Types'
<1>1. Rows /\ Pools /\ Caches /\ Tasks /\ Books /\ Watches
  BY DEF Types
<1>2. ASSUME NEW r \in Requests, RequestStep(r), Watches'
      PROVE  Types'
  <2>1. Pools' /\ Caches' /\ AtRest
    BY <1>2, RequestCopies
  <2>2. /\ request' \in [Requests -> RequestType]
        /\ \A q \in Requests : PlaceOf(q)'
    BY <1>2, RequestTyped
  <2>3. \A s \in Admins : TaskOf(s)'
    BY <1>1, <2>1 DEF AtRest, rowVars, Tasks, TaskOf
  <2>4. QED
    BY <1>1, <1>2, <2>1, <2>2, <2>3
    DEF AtRest, rowVars, history, Types, Rows, Books, Tasks
<1>3. ASSUME NEW s \in Admins, AdminStep(s), Watches'
      PROVE  Types'
  <2>1. PICK x \in CallType : Becomes(s, x) /\ TaskOf(s)'
    BY <1>3, AdminTyped
  <2>2. call' \in [Admins -> CallType]
    BY <2>1, CallMoves
  <2>3. \A t \in Admins : TaskOf(t)'
    BY <1>3, <2>1, OthersTasks
  <2>4. Rows' /\ Serve
    BY <1>3, RowsGrow
  <2>5. Pools' /\ Books'
    BY <1>3, AdminBooks
  <2>6. \A r \in Requests : PlaceOf(r)'
    BY <1>1, <2>4 DEF Tasks, PlaceOf, Serve
  <2>7. Caches' /\ request' \in [Requests -> RequestType]
    BY <1>1, <2>4 DEF Tasks, Caches, Serve, caches
  <2>8. QED
    BY <1>3, <2>2, <2>3, <2>4, <2>5, <2>6, <2>7 DEF Types, Tasks
<1>4. ASSUME NEW c \in Channels, CooldownEnds(c), Watches'
      PROVE  Types'
  <2>1. Pools' /\ AtRest /\ UNCHANGED <<request, caches>>
    BY <1>4, TimerSteps
  <2>2. QED
    BY <1>1, <1>4, <2>1
    DEF AtRest, rowVars, history, caches, Types, Rows, Caches, Books, Tasks, PlaceOf, TaskOf
<1>5. ASSUME Cleanup, Watches' PROVE Types'
  <2>1. affinity' \in [Tokens -> [ch : Channels, left : 0..AffinityTTL] \cup {None}]
    BY <1>1, <1>5 DEF Cleanup, Caches
  <2>2. AtRest /\ UNCHANGED <<request, pools, list>>
    BY <1>5 DEF Cleanup
  <2>3. QED
    BY <1>1, <1>5, <2>1, <2>2
    DEF AtRest, rowVars, history, Types, Rows, Pools, Caches, Books, Tasks, PlaceOf, TaskOf
<1>6. CASE Tick
  <2>1. list' \in [chs : SUBSET Channels, left : 0..ListTTL]
    <3>1. NoList \in [chs : SUBSET Channels, left : 0..ListTTL]
      BY RoutingAssumption DEF NoList
    <3>2. list.left > 1 => [list EXCEPT !.left = @ - 1] \in [chs : SUBSET Channels, left : 0..ListTTL]
      BY <1>1, RoutingAssumption DEF Caches
    <3>3. QED
      BY <1>6, <3>1, <3>2 DEF Tick
  <2>2. affinity' \in [Tokens -> [ch : Channels, left : 0..AffinityTTL] \cup {None}]
    <3>1. \A n \in 0..AffinityTTL : Left(n) \in 0..AffinityTTL
      BY RoutingAssumption DEF Left
    <3>2. \A e \in [ch : Channels, left : 0..AffinityTTL] :
            [e EXCEPT !.left = Left(@)] \in [ch : Channels, left : 0..AffinityTTL]
      BY <3>1
    <3>3. QED
      BY <1>1, <1>6, <3>2 DEF Tick, Caches
  <2>3. deletedFor' \in [Channels -> Ages] /\ readyFor' \in [Channels -> Ages]
    BY <1>1, <1>6, OlderTyped DEF Tick, Books, Watches
  <2>4. UNCHANGED <<rowVars, pools, request, call, edits, doubtful, owed>>
    BY <1>6 DEF Tick
  <2>5. QED
    BY <1>1, <2>1, <2>2, <2>3, <2>4
    DEF rowVars, Types, Rows, Pools, Caches, Books, Watches, Tasks, PlaceOf, TaskOf
<1>7. CASE UNCHANGED vars
  BY <1>1, <1>7 DEF vars, rowVars, caches, history, Types, Rows, Pools, Caches, Books, Watches,
                    Tasks, PlaceOf, TaskOf
<1>8. QED
  BY Steps, WatchesTyped, <1>2, <1>3, <1>4, <1>5, <1>6, <1>7 DEF RequestStep

LEMMA TypesInit == ASSUME Init PROVE Types
<1>1. Rows
  <2>1. /\ row \in [Channels -> {"absent", "on", "deleted"}]
        /\ serves \in [Channels -> BOOLEAN]
        /\ status \in [Accounts -> {"absent", "on", "off", "deleted"}]
        /\ home \in [Accounts -> Channels \cup {None}]
    BY DEF Init
  <2>2. \A a \in Accounts : home[a] = None <=> status[a] = "absent"
    BY RoutingAssumption DEF Init
  <2>3. QED
    BY <2>1, <2>2 DEF Rows
<1>2. \A c \in Channels : Pool(Members(c)) \in PoolType /\ Pool(Members(c)).cool = {}
  BY DEF Pool, PoolType, Members
<1>3. Pools
  BY <1>2 DEF Init, Pools
<1>4. Caches
  BY RoutingAssumption DEF Init, Caches, NoList
<1>5. Idle \in RequestType /\ Idle.at = "idle"
  BY DEF Idle, RequestType, Stages
<1>6. NoCall \in CallType /\ NoCall.at = "idle" /\ NoCall.todo = <<>>
  BY DEF NoCall, CallType, Calls
<1>7. Tasks
  BY <1>5, <1>6 DEF Init, Tasks, PlaceOf, TaskOf
<1>8. 0 \in Ages /\ Never \in Ages /\ 0 \in 0..MaxEdits
  BY RoutingAssumption DEF Ages
<1>9. Books /\ Watches
  BY <1>8 DEF Init, Books, Watches
<1>10. QED
  BY <1>1, <1>3, <1>4, <1>7, <1>9 DEF Types

LEMMA TypesImply == Types => TypeOK
<1> SUFFICES ASSUME Types PROVE TypeOK
  OBVIOUS
<1>1. \A c \in Channels : pools[c] # None =>
        pools[c].in \subseteq Accounts /\ pools[c].cool \subseteq pools[c].in
  BY DEF Types, Pools, PoolType
<1>2. list.chs \subseteq Channels /\ list.left \in 0..ListTTL
  BY DEF Types, Caches
<1>3. \A t \in Tokens : affinity[t] # None =>
        affinity[t].ch \in Channels /\ affinity[t].left \in 0..AffinityTTL
  BY DEF Types, Caches
<1>4. \A r \in Requests : request[r].rest \subseteq Channels /\ PlaceOf(r)
  BY DEF Types, Tasks, RequestType
<1>5. \A s \in Admins : /\ call[s].read \subseteq Accounts
                        /\ call[s].todo \in Seq(Channels) /\ Len(call[s].todo) <= 2
  BY DEF Types, Tasks, CallType, TaskOf
<1>6. QED
  BY <1>1, <1>2, <1>3, <1>4, <1>5 DEF TypeOK, Types, Rows, Books, PlaceOf

----------------------------------------------------------------------------
(* What becomes of a request in one of its steps. *)

Fate(r, y, z) ==
  \/ z = Idle
  \/ /\ y.at = "idle" /\ z.at \in {"listing", "expired", "following"}
     /\ z.rest = {} /\ z.retired = Long(deletedFor)
  \/ /\ y.at # "idle" /\ z.retired = y.retired
     /\ \/ z.at = "listing" /\ z.rest = y.rest
        \/ z.at = "picking" /\ z.rest = y.rest /\ z.ch = y.ch /\ Serves(y.ch) /\ y.ch \in Channels
        \/ z.at = "choosing" /\ z.rest = list'.chs /\ list'.left > 0
        \/ z.at = "choosing" /\ z.rest = y.rest /\ ListFails(r)
        \/ /\ z.at = "sending" /\ z.rest = {}
           /\ (y.at = "picking" /\ z.ch = y.ch) \/ (y.at = "choosing" /\ z.ch \in y.rest)
        \/ /\ y.at = "choosing" /\ z.at = "choosing"
           /\ \E c \in y.rest : z.rest = y.rest \ {c} /\ (Warm(c) = {} \/ CredentialsFail(r))
        \/ y.at = "choosing" /\ y.rest = {} /\ z.at = "refused" /\ z.rest = {}
        \/ /\ y.at \in {"sending", "evicting", "retrying"}
           /\ z.at \in {"sending", "evicting", "retrying"}
           /\ z.rest = y.rest /\ z.ch = y.ch

LEMMA Picks ==
  ASSUME Types, NEW r \in Requests, NEW c, NEW next, Pick(r, c, next)
  PROVE  \/ Warm(c) = {} /\ request'[r] = next
         \/ /\ Warm(c) # {}
            /\ request'[r].at = "sending" /\ request'[r].ch = c /\ request'[r].rest = {}
            /\ request'[r].retired = request[r].retired
<1> DEFINE x == request[r]
<1>1. x \in RequestType /\ request \in [Requests -> RequestType]
  BY DEF Types, Tasks
<1>2. CASE Warm(c) = {}
  BY <1>1, <1>2 DEF Pick
<1>3. CASE Warm(c) # {}
  <2>1. PICK a \in pools[c].in : request' = [request EXCEPT ![r].at = "sending", ![r].ch = c,
                                                           ![r].acc = a, ![r].rest = {}]
    BY <1>3 DEF Pick
  <2>2. request'[r] = [x EXCEPT !.at = "sending", !.ch = c, !.acc = a, !.rest = {}]
    BY <1>1, <2>1
  <2>3. QED
    BY <1>1, <1>3, <2>2 DEF RequestType
<1>4. QED
  BY <1>2, <1>3

LEMMA Fates ==
  ASSUME Types, NEW r \in Requests, RequestStep(r)
  PROVE  /\ \A q \in Requests \ {r} : request'[q] = request[q]
         /\ Fate(r, request[r], request'[r])
<1> DEFINE x == request[r]
<1>1. /\ x \in RequestType /\ PlaceOf(r)
      /\ request \in [Requests -> RequestType]
  BY DEF Types, Tasks
<1>2. \A q \in Requests \ {r} : request'[q] = request[q]
  BY <1>1 DEF RequestStep, RequestFails, Handled, Arrive, Forget, Follow, List, PickFollowed,
     PickListed, NoChannel, Succeed, Cooldown, EvictChannel, PickNext, Refuse, FollowFails,
     ListFails, CredentialsFail, Pick
<1>3. CASE Arrive(r)
  BY <1>1, <1>3 DEF Arrive, Idle, Fate
<1>4. CASE Forget(r) \/ FollowFails(r)
  BY <1>1, <1>4 DEF Forget, FollowFails, Fate, RequestType
<1>5. CASE Follow(r)
  BY <1>1, <1>5 DEF Follow, Fate, RequestType, PlaceOf
<1>6. CASE List(r)
  BY <1>1, <1>6, RoutingAssumption DEF List, Fate, RequestType
<1>7. CASE ListFails(r) \/ NoChannel(r)
  BY <1>1, <1>7 DEF ListFails, NoChannel, Fate, RequestType
<1> DEFINE z == request'[r]
<1> HIDE DEF z
<1>8. ASSUME Unfollowed(r) = z, x.at # "idle" PROVE Fate(r, x, z)
  BY <1>1, <1>8 DEF Unfollowed, Fate, RequestType
<1>9. ASSUME NEW c \in x.rest, x.at = "choosing", Without(r, c) = z,
             Warm(c) = {} \/ CredentialsFail(r)
      PROVE  Fate(r, x, z)
  <2>1. z.at = "choosing" /\ z.rest = x.rest \ {c} /\ z.retired = x.retired
    BY <1>1, <1>9 DEF Without, RequestType
  <2> HIDE DEF x
  <2>2. QED
    BY <1>9, <2>1 DEF Fate
<1>10. ASSUME z.at = "sending", z.rest = {}, z.retired = x.retired,
              (x.at = "picking" /\ z.ch = x.ch) \/ (x.at = "choosing" /\ z.ch \in x.rest)
       PROVE  Fate(r, x, z)
  <2> HIDE DEF x
  <2>1. QED
    BY <1>10 DEF Fate
<1>11. CASE PickFollowed(r)
  <2>1. x.at = "picking" /\ Pick(r, x.ch, Unfollowed(r))
    BY <1>11 DEF PickFollowed
  <2>2. \/ z = Unfollowed(r)
        \/ z.at = "sending" /\ z.ch = x.ch /\ z.rest = {} /\ z.retired = x.retired
    BY <2>1, Picks DEF z
  <2> HIDE DEF x
  <2>3. Fate(r, x, z)
    <3>1. CASE z = Unfollowed(r)
      BY <1>8, <2>1, <3>1
    <3>2. CASE z.at = "sending" /\ z.ch = x.ch /\ z.rest = {} /\ z.retired = x.retired
      BY <1>10, <2>1, <3>2
    <3>3. QED
      BY <2>2, <3>1, <3>2
  <2>4. QED
    BY <1>2, <2>3 DEF x, z
<1>12. CASE PickListed(r)
  <2>1. PICK c \in x.rest : Pick(r, c, Without(r, c)) /\ x.at = "choosing"
    BY <1>12 DEF PickListed
  <2>2. Fate(r, x, z)
    BY <1>9, <1>10, <2>1, Picks DEF z
  <2>3. QED
    BY <1>2, <2>2 DEF z
<1>13. CASE CredentialsFail(r)
  <2>1. CASE x.at = "picking" /\ request' = [request EXCEPT ![r] = Unfollowed(r)]
    <3>1. Unfollowed(r) = z
      BY <1>1, <2>1 DEF z
    <3>2. QED
      BY <1>2, <1>8, <2>1, <3>1 DEF z
  <2>2. CASE x.at = "choosing" /\ \E c \in x.rest : request' = [request EXCEPT ![r] = Without(r, c)]
    <3>1. PICK c \in x.rest : Without(r, c) = z
      BY <1>1, <2>2 DEF z
    <3>2. QED
      BY <1>2, <1>9, <1>13, <2>2, <3>1 DEF z
  <2>3. QED
    BY <1>13, <2>1, <2>2 DEF z, CredentialsFail
<1>14. CASE Succeed(r) \/ Refuse(r)
  BY <1>1, <1>14 DEF Succeed, Refuse, Fate
<1>15. CASE Cooldown(r) \/ EvictChannel(r)
  BY <1>1, <1>15 DEF Cooldown, EvictChannel, Fate, RequestType
<1>16. CASE PickNext(r)
  BY <1>1, <1>16 DEF PickNext, Fate, RequestType
<1>17. QED
  BY <1>2, <1>3, <1>4, <1>5, <1>6, <1>7, <1>14, <1>15, <1>16, <1>11, <1>12, <1>13
  DEF RequestStep, RequestFails, Handled

----------------------------------------------------------------------------
(* Deleted channels. *)

LEMMA RetirementInit == ASSUME Init PROVE Retirement
BY DEF Init, Retirement, DeletedRow, ListForgets, RetiredOf, NoList, Idle

LEMMA RetirementStep ==
  ASSUME Types, Retirement, [Next]_vars
  PROVE  Retirement'
<1>1. /\ DeletedRow /\ ListForgets /\ \A r \in Requests : RetiredOf(r)
      /\ deletedFor \in [Channels -> Ages] /\ ListTTL \in Nat \ {0} /\ Never \notin Nat
      /\ list \in [chs : SUBSET Channels, left : 0..ListTTL]
      /\ \A q \in Requests : request[q].retired \subseteq Channels /\ request[q].rest \subseteq Channels
  BY RoutingAssumption DEF Retirement, Types, Books, Caches, Tasks, RequestType
<1>2. ASSUME NEW r \in Requests, RequestStep(r) PROVE Retirement'
  <2>1. deletedFor' = deletedFor /\ row' = row
    BY <1>2, RequestCopies DEF AtRest, history, rowVars
  <2>2. list' = list \/ list' = [chs |-> {c \in Channels : Serves(c)}, left |-> ListTTL]
    BY <1>2, RequestCopies
  <2>3. DeletedRow'
    BY <1>1, <2>1 DEF DeletedRow
  <2>4. ListForgets'
    BY <1>1, <2>1, <2>2 DEF ListForgets, DeletedRow, Serves
  <2>5. \A q \in Requests \ {r} : RetiredOf(q)'
    BY <1>1, <1>2, <2>1, Fates DEF RetiredOf
  <2>6. RetiredOf(r)'
    <3> DEFINE y == request[r]
               z == request'[r]
    <3>1. /\ Fate(r, y, z) /\ RetiredOf(r) /\ y.rest \subseteq Channels
          /\ y.retired \subseteq Channels
      BY <1>1, <1>2, Fates
    <3>2. \A c \in y.retired : deletedFor[c] = ListTTL /\ row[c] = "deleted"
      BY <1>1, <3>1 DEF RetiredOf, DeletedRow
    <3>3. \A c \in y.retired : list'.left > 0 => c \notin list'.chs
      <4> SUFFICES ASSUME NEW c \in y.retired, list'.left > 0, c \in list'.chs PROVE FALSE
        OBVIOUS
      <4>1. deletedFor[c] = ListTTL /\ c \in Channels
        BY <3>1, <3>2
      <4>2. deletedFor'[c] + list'.left <= ListTTL
        BY <1>1, <2>1, <2>4, <4>1 DEF ListForgets
      <4>3. list'.left \in Nat
        BY <1>1, <2>2
      <4>4. QED
        BY <1>1, <2>1, <4>1, <4>2, <4>3
    <3>4. CASE z = Idle
      BY <3>4 DEF RetiredOf, Idle
    <3>5. CASE /\ z.at \in {"listing", "expired", "following"}
               /\ z.rest = {} /\ z.retired = Long(deletedFor)
      BY <2>1, <3>5 DEF RetiredOf, Long
    <3>6. CASE z.retired = y.retired /\ z.at = "picking" /\ z.rest = y.rest /\ z.ch = y.ch
               /\ Serves(y.ch)
      BY <2>1, <3>1, <3>2, <3>6 DEF RetiredOf, Serves
    <3>7. CASE z.retired = y.retired /\ z.at = "choosing" /\ z.rest = list'.chs /\ list'.left > 0
      BY <2>1, <3>1, <3>2, <3>3, <3>7 DEF RetiredOf
    <3>8. CASE /\ z.retired = y.retired /\ z.at = "sending" /\ z.rest = {}
               /\ (y.at = "picking" /\ z.ch = y.ch) \/ (y.at = "choosing" /\ z.ch \in y.rest)
      BY <2>1, <3>1, <3>2, <3>8 DEF RetiredOf
    <3>9. CASE /\ z.retired = y.retired /\ z.at \in {"listing", "choosing", "refused"}
               /\ z.rest \subseteq y.rest
      BY <2>1, <3>1, <3>2, <3>9 DEF RetiredOf
    <3>10. CASE /\ z.retired = y.retired /\ y.at \in {"sending", "evicting", "retrying"}
                /\ z.rest = y.rest /\ z.ch = y.ch
      BY <2>1, <3>1, <3>2, <3>10 DEF RetiredOf
    <3>11. QED
      BY <3>1, <3>4, <3>5, <3>6, <3>7, <3>8, <3>9, <3>10 DEF Fate
  <2>7. QED
    BY <2>3, <2>4, <2>5, <2>6 DEF Retirement
<1>3. ASSUME NEW s \in Admins, AdminStep(s) PROVE Retirement'
  <2>1. request' = request /\ list' = list
    BY <1>3, RowsGrow DEF Serve, caches
  <2>2. \A c \in Channels : row[c] = "deleted" => row'[c] = "deleted"
    BY <1>3, RowsGrow
  <2>3. \/ deletedFor' = deletedFor
        \/ \E c \in Channels : /\ deletedFor' = [deletedFor EXCEPT ![c] = 0]
                               /\ row[c] = "on" /\ row' = [row EXCEPT ![c] = "deleted"]
    BY <1>3 DEF AdminStep, Administered, CreateChannel, FindChannel, UpdateChannel, DeleteChannel,
           RemovePool, CreateAccount, FindAccount, UpdateAccount, Reread, RereadFails,
           DeleteAccount, ReadAccounts, ReadFails, SetPool, history
  <2>4. CASE deletedFor' = deletedFor
    BY <1>1, <2>1, <2>2, <2>4 DEF Retirement, DeletedRow, ListForgets, RetiredOf
  <2>5. ASSUME NEW c \in Channels, deletedFor' = [deletedFor EXCEPT ![c] = 0],
               row[c] = "on", row' = [row EXCEPT ![c] = "deleted"]
        PROVE  Retirement'
    <3>1. row \in [Channels -> {"absent", "on", "deleted"}]
      BY DEF Types, Rows
    <3>2. DeletedRow'
      BY <1>1, <2>2, <2>5, <3>1 DEF DeletedRow
    <3>3. list.left \in 0..ListTTL
      BY <1>1
    <3>4. ListForgets'
      BY <1>1, <2>1, <2>5, <3>3 DEF ListForgets
    <3>5. deletedFor[c] = Never
      BY <1>1, <2>5 DEF DeletedRow
    <3>6. \A r \in Requests : RetiredOf(r)'
      BY <1>1, <2>1, <2>5, <3>5 DEF RetiredOf
    <3>7. QED
      BY <3>2, <3>4, <3>6 DEF Retirement
  <2>6. QED
    BY <2>3, <2>4, <2>5
<1>4. CASE UNCHANGED <<deletedFor, row, list, request>>
  BY <1>1, <1>4 DEF Retirement, DeletedRow, ListForgets, RetiredOf
<1>5. CASE Tick
  <2>1. deletedFor' = Older(deletedFor) /\ row' = row /\ request' = request
    BY <1>5 DEF Tick, rowVars
  <2>2. \A c \in Channels :
          /\ deletedFor[c] = Never <=> deletedFor'[c] = Never
          /\ deletedFor[c] # Never => deletedFor[c] \in 0..ListTTL
          /\ deletedFor[c] # Never /\ deletedFor[c] < ListTTL => deletedFor'[c] = deletedFor[c] + 1
          /\ deletedFor[c] = ListTTL => deletedFor'[c] = ListTTL
    BY <1>1, <2>1, OlderTyped
  <2>3. DeletedRow'
    BY <1>1, <2>1, <2>2 DEF DeletedRow
  <2>4. (list.left > 1 /\ list'.left = list.left - 1 /\ list'.chs = list.chs) \/ list'.left = 0
    BY <1>1, <1>5 DEF Tick, NoList
  <2>5. ListForgets'
    <3> SUFFICES ASSUME NEW c \in Channels, list'.left > 0, c \in list'.chs, deletedFor'[c] # Never
                 PROVE  deletedFor'[c] + list'.left <= ListTTL
      BY DEF ListForgets
    <3>1. list.left > 1 /\ list'.left = list.left - 1 /\ c \in list.chs
      BY <2>4
    <3>2. deletedFor[c] # Never /\ deletedFor[c] \in 0..ListTTL
      BY <2>2
    <3>3. list.left \in Nat /\ deletedFor[c] \in Nat /\ list.left > 0
      BY <1>1, <3>1, <3>2
    <3>4. deletedFor[c] + list.left <= ListTTL
      BY <1>1, <3>1, <3>2, <3>3 DEF ListForgets
    <3>5. deletedFor[c] < ListTTL
      BY <1>1, <3>3, <3>4
    <3>6. deletedFor'[c] = deletedFor[c] + 1
      BY <2>2, <3>2, <3>5
    <3>7. QED
      BY <1>1, <3>1, <3>3, <3>4, <3>6
  <2>6. \A r \in Requests : RetiredOf(r)'
    BY <1>1, <2>1, <2>2 DEF RetiredOf
  <2>7. QED
    BY <2>3, <2>5, <2>6 DEF Retirement
<1>6. ASSUME NEW c \in Channels, CooldownEnds(c) PROVE UNCHANGED <<deletedFor, row, list, request>>
  BY <1>6 DEF CooldownEnds, AtRest, rowVars, history, caches
<1>7. ASSUME Cleanup PROVE UNCHANGED <<deletedFor, row, list, request>>
  BY <1>7 DEF Cleanup, AtRest, rowVars, history
<1>8. ASSUME UNCHANGED vars PROVE UNCHANGED <<deletedFor, row, list, request>>
  BY <1>8 DEF vars, rowVars, history, caches
<1>9. QED
  BY Steps, <1>2, <1>3, <1>4, <1>5, <1>6, <1>7, <1>8 DEF RequestStep

----------------------------------------------------------------------------
(* Channels that are ready. *)

LEMMA DebtsInit == ASSUME Init PROVE Debts
<1>1. ReadyAges
  BY RoutingAssumption DEF Init, ReadyAges, Ready, Serves, Warm
<1>2. ListKnows /\ \A r \in Requests : OwedOf(r)
  BY DEF Init, ListKnows, OwedOf, NoList, Idle
<1>3. QED
  BY <1>1, <1>2 DEF Debts

(* However the pools and the rows change, the ages observe it. *)
LEMMA ObservedAges ==
  ASSUME Types, Observed
  PROVE  /\ ReadyAges'
         /\ \A c \in Channels : Ready(c)' /\ readyFor[c] # Never => readyFor'[c] = readyFor[c]
         /\ \A c \in Channels : readyFor'[c] # Never /\ readyFor'[c] # 0 => readyFor'[c] = readyFor[c]
BY RoutingAssumption DEF Observed, ReadyAges, Types, Watches, Ages

(* A list that stays knows whoever has been ready longer than it.          *)
LEMMA ListStays ==
  ASSUME Types, Debts, Observed, list' = list
  PROVE  ListKnows'
<1> SUFFICES ASSUME NEW c \in Channels, list.left > 0, readyFor'[c] # Never,
                    readyFor'[c] + list.left > ListTTL
             PROVE  c \in list.chs
  BY DEF ListKnows
<1>1. list.left \in 0..ListTTL
  BY DEF Types, Caches
<1>2. readyFor'[c] # 0
  BY <1>1, RoutingAssumption
<1>3. readyFor'[c] = readyFor[c]
  BY <1>2, ObservedAges
<1>4. QED
  BY <1>3 DEF Debts, ListKnows

(* What is owed to a request was owed, and is ready still. *)
LEMMA OwedStays ==
  ASSUME Types, Debts, Observed, Owing, NEW q \in Requests
  PROVE  /\ \A c \in owed'[q] : readyFor'[c] = ListTTL /\ Ready(c)' /\ c \in Channels
         /\ request[q].at # "idle" => owed'[q] \subseteq owed[q]
         /\ request'[q].at = "idle" => owed'[q] = {}
<1>1. owed'[q] = IF request'[q].at = "idle" THEN {}
                 ELSE {c \in IF request[q].at = "idle" THEN Long(readyFor) ELSE owed[q] : Ready(c)'}
  BY DEF Owing
<1>2. owed[q] \subseteq Channels
  BY DEF Types, Watches
<1>3. \A c \in Long(readyFor) : readyFor[c] = ListTTL /\ c \in Channels
  BY DEF Long
<1>4. \A c \in owed[q] : readyFor[c] = ListTTL /\ c \in Channels
  BY <1>2 DEF Debts, OwedOf
<1>5. ListTTL # Never
  BY RoutingAssumption
<1>6. \A c \in owed'[q] : readyFor'[c] = ListTTL /\ Ready(c)' /\ c \in Channels
  <2> SUFFICES ASSUME NEW c \in owed'[q] PROVE readyFor'[c] = ListTTL /\ Ready(c)' /\ c \in Channels
    OBVIOUS
  <2>1. Ready(c)' /\ readyFor[c] = ListTTL /\ c \in Channels
    BY <1>1, <1>3, <1>4
  <2>2. QED
    BY <1>5, <2>1, ObservedAges
<1>7. QED
  BY <1>1, <1>6

(* Without a failure, a request chooses among the channels of a list in    *)
(* use, passes over those without an account, and is refused after them.   *)
LEMMA HandledChooses ==
  ASSUME Types, NEW r \in Requests, Handled(r)
  PROVE  LET y == request[r]
             z == request'[r]
         IN  /\ z.at = "choosing" =>
                  \/ z.rest = list'.chs /\ list'.left > 0
                  \/ /\ y.at = "choosing"
                     /\ \E c \in y.rest : z.rest = y.rest \ {c} /\ Warm(c) = {}
             /\ z.at = "refused" => y.at = "choosing" /\ y.rest = {}
<1> DEFINE y == request[r]
           z == request'[r]
<1>1. y \in RequestType /\ request \in [Requests -> RequestType]
  BY DEF Types, Tasks
<1>2. CASE z.at = "refused"
  <2>1. NoChannel(r)
    <3>1. ~(Arrive(r) \/ Forget(r) \/ Follow(r) \/ List(r))
      BY <1>1, <1>2 DEF Arrive, Forget, Follow, List, Idle, RequestType
    <3>2. ~(PickFollowed(r) \/ PickListed(r))
      BY <1>1, <1>2, Picks DEF PickFollowed, PickListed, Unfollowed, Without, RequestType
    <3>3. ~(Succeed(r) \/ Cooldown(r) \/ EvictChannel(r) \/ PickNext(r) \/ Refuse(r))
      BY <1>1, <1>2 DEF Succeed, Cooldown, EvictChannel, PickNext, Refuse, Idle, RequestType
    <3>4. QED
      BY <3>1, <3>2, <3>3 DEF Handled
  <2>2. QED
    BY <1>2, <2>1 DEF NoChannel
<1>3. CASE z.at = "choosing"
  <2>1. List(r) \/ PickListed(r)
    <3>1. ~(Arrive(r) \/ Forget(r) \/ Follow(r) \/ NoChannel(r))
      BY <1>1, <1>3 DEF Arrive, Forget, Follow, NoChannel, Idle, RequestType
    <3>2. ~PickFollowed(r)
      BY <1>1, <1>3, Picks DEF PickFollowed, Unfollowed, RequestType
    <3>3. ~(Succeed(r) \/ Cooldown(r) \/ EvictChannel(r) \/ PickNext(r) \/ Refuse(r))
      BY <1>1, <1>3 DEF Succeed, Cooldown, EvictChannel, PickNext, Refuse, Idle, RequestType
    <3>4. QED
      BY <3>1, <3>2, <3>3 DEF Handled
  <2>2. CASE List(r)
    BY <1>1, <1>3, <2>2, RoutingAssumption DEF List, RequestType
  <2>3. CASE PickListed(r)
    <3>1. PICK c \in y.rest : Pick(r, c, Without(r, c)) /\ y.at = "choosing"
      BY <2>3 DEF PickListed
    <3>2. Warm(c) = {} /\ z = Without(r, c)
      BY <1>3, <3>1, Picks
    <3>3. z.rest = y.rest \ {c}
      BY <1>1, <3>2 DEF Without, RequestType
    <3>4. QED
      BY <1>3, <3>1, <3>2, <3>3
  <2>4. QED
    BY <2>1, <2>2, <2>3
<1>4. QED
  BY <1>2, <1>3

LEMMA DebtsStep ==
  ASSUME Types, Debts, [Next]_vars
  PROVE  Debts'
<1>1. /\ ReadyAges /\ ListKnows /\ \A q \in Requests : OwedOf(q)
      /\ readyFor \in [Channels -> Ages] /\ owed \in [Requests -> SUBSET Channels]
      /\ list \in [chs : SUBSET Channels, left : 0..ListTTL]
  BY DEF Debts, Types, Watches, Caches
<1>2. ASSUME NEW r \in Requests, RequestStep(r), Observed,
             (Handled(r) /\ Owing) \/ owed' = [q \in Requests |-> {}]
      PROVE  Debts'
  <2>1. ReadyAges'
    BY <1>2, ObservedAges
  <2>2. ListKnows'
    <3>1. CASE list' = list
      BY <1>2, <3>1, ListStays
    <3>2. CASE list' # list
      <4>1. list' = [chs |-> {c \in Channels : Serves(c)}, left |-> ListTTL]
        BY <1>2, <3>2, RequestCopies
      <4>2. UNCHANGED <<row, serves, pools>>
        <5>1. List(r) /\ AtRest
          BY <1>2, <3>2, RequestCopies
        <5>2. QED
          BY <5>1 DEF List, AtRest, rowVars
      <4>3. \A c \in Channels : readyFor'[c] # Never => Serves(c)
        BY <2>1, <4>2 DEF ReadyAges, Ready, Serves
      <4>4. QED
        BY <4>1, <4>3 DEF ListKnows
    <3>3. QED
      BY <3>1, <3>2
  <2>3. CASE owed' = [q \in Requests |-> {}]
    BY <2>1, <2>2, <2>3 DEF Debts, OwedOf
  <2>4. CASE Handled(r) /\ Owing
    <3>1. \A q \in Requests \ {r} : OwedOf(q)'
      <4> TAKE q \in Requests \ {r}
      <4>1. request'[q] = request[q] /\ OwedOf(q)
        BY <1>1, <1>2, Fates
      <4>2. /\ \A c \in owed'[q] : readyFor'[c] = ListTTL
            /\ request[q].at # "idle" => owed'[q] \subseteq owed[q]
        BY <1>2, <2>4, OwedStays
      <4>3. QED
        BY <4>1, <4>2 DEF OwedOf
    <3>2. OwedOf(r)'
      <4> DEFINE y == request[r]
                 z == request'[r]
      <4>1. /\ Fate(r, y, z) /\ OwedOf(r) /\ owed[r] \subseteq Channels
        BY <1>1, <1>2, Fates
      <4>2. /\ \A c \in owed'[r] : readyFor'[c] = ListTTL /\ Ready(c)' /\ c \in Channels
            /\ y.at # "idle" => owed'[r] \subseteq owed[r]
            /\ z.at = "idle" => owed'[r] = {}
        BY <1>2, <2>4, OwedStays
      <4>3. CASE z.at \notin {"choosing", "refused"}
        BY <4>2, <4>3 DEF OwedOf
      <4>4. CASE z.at = "choosing" /\ z.rest = list'.chs /\ list'.left > 0
        <5>1. list'.left \in 0..ListTTL /\ ListTTL \in Nat /\ Never \notin Nat
          BY <1>1, <1>2, RequestCopies, RoutingAssumption
        <5>2. \A c \in owed'[r] : c \in list'.chs
          BY <2>2, <4>2, <4>4, <5>1 DEF ListKnows
        <5>3. QED
          BY <4>2, <4>4, <5>2 DEF OwedOf
      <4>5. CASE /\ y.at = "choosing" /\ z.at = "choosing"
                 /\ \E c \in y.rest : z.rest = y.rest \ {c} /\ Warm(c) = {}
        <5>1. PICK c \in y.rest : z.rest = y.rest \ {c} /\ Warm(c) = {}
          BY <4>5
        <5>2. pools' = pools
          BY <1>2, <4>5, RequestCopies DEF Cooldown
        <5>3. c \notin owed'[r]
          BY <4>2, <5>1, <5>2 DEF Ready, Warm
        <5>4. owed'[r] \subseteq y.rest
          BY <4>1, <4>2, <4>5 DEF OwedOf
        <5>5. QED
          BY <4>2, <4>5, <5>1, <5>3, <5>4 DEF OwedOf
      <4>6. CASE y.at = "choosing" /\ y.rest = {} /\ z.at = "refused"
        <5>1. owed'[r] = {}
          BY <4>1, <4>2, <4>6 DEF OwedOf
        <5>2. QED
          BY <4>6, <5>1 DEF OwedOf
      <4>7. QED
        BY <1>2, <2>4, <4>3, <4>4, <4>5, <4>6, HandledChooses
    <3>3. QED
      BY <2>1, <2>2, <3>1, <3>2 DEF Debts
  <2>5. QED
    BY <1>2, <2>3, <2>4
<1>3. ASSUME Observed, Owing \/ owed' = [q \in Requests |-> {}], UNCHANGED <<request, list>>
      PROVE  Debts'
  <2>1. ReadyAges' /\ ListKnows'
    BY <1>3, ObservedAges, ListStays
  <2>2. CASE owed' = [q \in Requests |-> {}]
    BY <2>1, <2>2 DEF Debts, OwedOf
  <2>3. CASE Owing
    <3>1. \A q \in Requests :
            /\ \A c \in owed'[q] : readyFor'[c] = ListTTL
            /\ request[q].at # "idle" => owed'[q] \subseteq owed[q]
      BY <1>3, <2>3, OwedStays
    <3>2. \A q \in Requests : OwedOf(q)'
      BY <1>1, <1>3, <3>1 DEF OwedOf
    <3>3. QED
      BY <2>1, <3>2 DEF Debts
  <2>4. QED
    BY <1>3, <2>2, <2>3
<1>4. ASSUME NEW s \in Admins, AdminStep(s) PROVE UNCHANGED <<request, list>>
  BY <1>4, RowsGrow DEF Serve, caches
<1>5. ASSUME NEW c \in Channels, CooldownEnds(c) PROVE UNCHANGED <<request, list>>
  BY <1>5 DEF CooldownEnds, caches
<1>6. ASSUME Cleanup PROVE UNCHANGED <<request, list>>
  BY <1>6 DEF Cleanup
<1>7. CASE Tick
  <2>1. readyFor' = Older(readyFor) /\ UNCHANGED <<rowVars, pools, request, owed>>
    BY <1>7 DEF Tick
  <2>2. \A c \in Channels :
          /\ readyFor[c] = Never <=> readyFor'[c] = Never
          /\ readyFor[c] # Never => readyFor[c] \in 0..ListTTL
          /\ readyFor[c] # Never /\ readyFor[c] < ListTTL => readyFor'[c] = readyFor[c] + 1
          /\ readyFor[c] = ListTTL => readyFor'[c] = ListTTL
    BY <1>1, <2>1, OlderTyped
  <2>3. ReadyAges'
    BY <1>1, <2>1, <2>2 DEF ReadyAges, Ready, Serves, Warm, rowVars
  <2>4. (list.left > 1 /\ list'.left = list.left - 1 /\ list'.chs = list.chs) \/ list'.left = 0
    BY <1>1, <1>7 DEF Tick, NoList
  <2>5. ListKnows'
    <3> SUFFICES ASSUME NEW c \in Channels, list'.left > 0, readyFor'[c] # Never,
                        readyFor'[c] + list'.left > ListTTL
                 PROVE  c \in list'.chs
      BY DEF ListKnows
    <3>1. list.left > 1 /\ list'.left = list.left - 1 /\ list'.chs = list.chs
      BY <2>4
    <3>2. readyFor[c] # Never /\ readyFor[c] \in 0..ListTTL /\ list.left \in 0..ListTTL
      BY <1>1, <2>2
    <3>3. readyFor[c] + list.left > ListTTL
      BY <2>2, <3>1, <3>2, RoutingAssumption
    <3>4. QED
      BY <1>1, <3>1, <3>2, <3>3 DEF ListKnows
  <2>6. \A q \in Requests : OwedOf(q)'
    BY <1>1, <2>1, <2>2 DEF OwedOf
  <2>7. QED
    BY <2>3, <2>5, <2>6 DEF Debts
<1>8. CASE UNCHANGED vars
  BY <1>1, <1>8 DEF vars, rowVars, caches, Debts, ReadyAges, ListKnows, OwedOf, Ready, Serves, Warm
<1>9. QED
  BY Steps, <1>2, <1>3, <1>4, <1>5, <1>6, <1>7, <1>8 DEF RequestStep

----------------------------------------------------------------------------
(* Pools and what the database says. *)

LEMMA FreshnessInit == ASSUME Init PROVE Freshness
<1>1. ASSUME NEW s \in Admins PROVE LoneOf(s) /\ MovedOf(s)
  BY DEF Init, NoCall, LoneOf, MovedOf
<1>2. ASSUME NEW c \in Channels
      PROVE  PoolOf(c) /\ \A a \in Accounts : FreshOf(c, a)
  <2>1. Pool(Members(c)) \in PoolType /\ Pool(Members(c)).in = Members(c)
    BY DEF Pool, PoolType, Members
  <2>2. Pool(Members(c)) # None
    BY <2>1, RoutingAssumption DEF PoolType
  <2>3. pools[c] = IF row[c] = "on" THEN Pool(Members(c)) ELSE None
    BY DEF Init
  <2>4. QED
    BY <2>1, <2>2, <2>3 DEF PoolOf, FreshOf
<1>3. QED
  BY <1>1, <1>2 DEF Freshness

(* Requests, timers and time leave what the pools hold and what the        *)
(* administrators do alone.                                                *)
LEMMA FreshnessKept ==
  ASSUME Freshness, UNCHANGED <<rowVars, call, doubtful>>,
         \A c \in Channels : /\ pools'[c] = None <=> pools[c] = None
                             /\ pools[c] # None => pools'[c].in = pools[c].in,
         Types
  PROVE  Freshness'
<1>1. UNCHANGED <<row, status, home, call, doubtful>>
  BY DEF rowVars
<1>2. \A c : Members(c)' = Members(c)
  BY <1>1 DEF Members
<1>3. /\ \A t, c : WillSet(t, c)' <=> WillSet(t, c)
      /\ \A t, c, a : WillReread(t, c, a)' <=> WillReread(t, c, a)
  BY <1>1 DEF WillSet, WillReread
<1>4. \A t \in Admins : LoneOf(t)'
  BY <1>1, <1>2 DEF Freshness, LoneOf, Others
<1>5. \A t \in Admins : MovedOf(t)'
  <2> SUFFICES ASSUME NEW t \in Admins, call[t].at = "updating"
               PROVE  MovedOf(t)'
    BY <1>1 DEF MovedOf
  <2>1. home[call[t].acc] \in Channels
    BY DEF Types, Tasks, TaskOf, Rows
  <2>2. QED
    BY <1>1, <1>3, <2>1 DEF Freshness, MovedOf
<1>6. \A c \in Channels \ doubtful : PoolOf(c)' /\ \A a \in Accounts : FreshOf(c, a)'
  BY <1>1, <1>2, <1>3 DEF Freshness, PoolOf, FreshOf
<1>7. QED
  BY <1>1, <1>4, <1>5, <1>6 DEF Freshness

(* What a step of an administrator's call does to the rows and the pools.  *)
LEMMA AdminEffects ==
  ASSUME Types, NEW s \in Admins, AdminStep(s)
  PROVE  /\ \A c \in Channels : \/ pools'[c] = pools[c]
                                \/ pools'[c] = None /\ row'[c] = "deleted"
                                \/ SetPool(s) /\ c = Head(call[s].todo)
         /\ \A c \in Channels :
              row[c] = "on" \/ row'[c] # "on" \/ CreateChannel(s, c)
         /\ \A a \in Accounts :
              \/ status'[a] = status[a] /\ home'[a] = home[a]
              \/ \E c \in Channels : CreateAccount(s, a, c)
              \/ DeleteAccount(s, a)
              \/ UpdateAccount(s) /\ a = call[s].acc
         /\ SetPool(s) \/ doubtful \subseteq doubtful'
<1>1. /\ pools \in [Channels -> PoolType \cup {None}]
      /\ row \in [Channels -> {"absent", "on", "deleted"}]
      /\ status \in [Accounts -> {"absent", "on", "off", "deleted"}]
      /\ home \in [Accounts -> Channels \cup {None}]
      /\ call[s].todo \in Seq(Channels) /\ TaskOf(s)
  BY DEF Types, Pools, Rows, Tasks, CallType
<1>2. \A c \in Channels : \/ pools'[c] = pools[c]
                          \/ pools'[c] = None /\ row'[c] = "deleted"
                          \/ SetPool(s) /\ c = Head(call[s].todo)
  <2>1. CASE SetPool(s)
    BY <1>1, <2>1 DEF SetPool
  <2>2. CASE RemovePool(s)
    <3>1. Head(call[s].todo) \in Channels /\ row[Head(call[s].todo)] = "deleted"
      BY <1>1, <2>2, Todos DEF RemovePool, TaskOf
    <3>2. row' = row /\ pools' = [pools EXCEPT ![Head(call[s].todo)] = None]
      BY <2>2 DEF RemovePool, rowVars
    <3>3. QED
      BY <1>1, <3>1, <3>2
  <2>3. CASE pools' = pools
    BY <2>3
  <2>4. QED
    BY <2>1, <2>2, <2>3 DEF AdminStep, Administered, CreateChannel, FindChannel, UpdateChannel,
       DeleteChannel, CreateAccount, FindAccount, UpdateAccount, Reread, RereadFails,
       DeleteAccount, ReadAccounts, ReadFails
<1>3. \A c \in Channels : row[c] = "on" \/ row'[c] # "on" \/ CreateChannel(s, c)
  <2>1. ASSUME NEW d \in Channels, CreateChannel(s, d)
        PROVE  \A c \in Channels : row[c] = "on" \/ row'[c] # "on" \/ c = d
    BY <1>1, <2>1 DEF CreateChannel
  <2>2. ASSUME NEW d \in Channels, DeleteChannel(s, d)
        PROVE  \A c \in Channels : row[c] = "on" \/ row'[c] # "on"
    BY <1>1, <2>2 DEF DeleteChannel
  <2>3. (\E d \in Channels : CreateChannel(s, d) \/ DeleteChannel(s, d)) \/ row' = row
    BY DEF AdminStep, Administered, FindChannel, UpdateChannel, RemovePool,
       CreateAccount, FindAccount, UpdateAccount, Reread, RereadFails,
       DeleteAccount, ReadAccounts, ReadFails, SetPool, rowVars
  <2>4. QED
    BY <2>1, <2>2, <2>3
<1>4. \A a \in Accounts :
        \/ status'[a] = status[a] /\ home'[a] = home[a]
        \/ \E c \in Channels : CreateAccount(s, a, c)
        \/ DeleteAccount(s, a)
        \/ UpdateAccount(s) /\ a = call[s].acc
  <2>1. ASSUME NEW b \in Accounts, NEW c \in Channels, CreateAccount(s, b, c)
        PROVE  \A a \in Accounts : a = b \/ (status'[a] = status[a] /\ home'[a] = home[a])
    BY <1>1, <2>1 DEF CreateAccount
  <2>2. ASSUME NEW b \in Accounts, DeleteAccount(s, b)
        PROVE  \A a \in Accounts : a = b \/ (status'[a] = status[a] /\ home'[a] = home[a])
    BY <1>1, <2>2 DEF DeleteAccount
  <2>3. ASSUME UpdateAccount(s)
        PROVE  \A a \in Accounts : a = call[s].acc \/ (status'[a] = status[a] /\ home'[a] = home[a])
    BY <1>1, <2>3 DEF UpdateAccount
  <2>4. \/ \E b \in Accounts, c \in Channels : CreateAccount(s, b, c)
        \/ \E b \in Accounts : DeleteAccount(s, b)
        \/ UpdateAccount(s)
        \/ status' = status /\ home' = home
    BY DEF AdminStep, Administered, CreateChannel, DeleteChannel, FindChannel, UpdateChannel,
       RemovePool, FindAccount, Reread, RereadFails, ReadAccounts, ReadFails, SetPool, rowVars
  <2>5. QED
    BY <2>1, <2>2, <2>3, <2>4
<1>5. SetPool(s) \/ doubtful \subseteq doubtful'
  BY DEF AdminStep, Administered, CreateChannel, DeleteChannel, FindChannel, UpdateChannel,
     RemovePool, CreateAccount, FindAccount, UpdateAccount, Reread, RereadFails,
     DeleteAccount, ReadAccounts, ReadFails, history
<1>6. QED
  BY <1>2, <1>3, <1>4, <1>5

(* Of the other calls no refresh is alone after the step.                  *)
LEMMA NoneAlone ==
  ASSUME Types, Freshness, NEW s \in Admins, AdminStep(s), NEW t \in Admins \ {s}
  PROVE  ~call'[t].lone
<1>1. PICK x \in CallType : Becomes(s, x)
  BY AdminTyped
<1>2. call'[t].lone => call[t].lone
  BY <1>1, CallMoves
<1>3. call[t].lone => call[s].at = "idle"
  BY DEF Freshness, LoneOf, Others
<1>4. CASE call[s].at = "idle"
  <2>1. \E z : Begin(s, z)
    BY <1>4 DEF AdminStep, Administered, CreateChannel, DeleteChannel, FindChannel, UpdateChannel,
       RemovePool, CreateAccount, FindAccount, UpdateAccount, Reread, RereadFails,
       DeleteAccount, ReadAccounts, ReadFails, SetPool
  <2>2. PICK z : call' = [u \in Admins |-> IF u = s THEN z ELSE [call[u] EXCEPT !.lone = FALSE]]
    BY <2>1 DEF Begin
  <2>3. call[t] \in CallType
    BY DEF Types, Tasks
  <2>4. QED
    BY <2>2, <2>3 DEF CallType
<1>5. QED
  BY <1>2, <1>3, <1>4

(* The calls other than the one that moves do as before. *)
LEMMA OthersWill ==
  ASSUME Types, NEW s \in Admins, AdminStep(s), NEW t \in Admins \ {s}
  PROVE  /\ call'[t].at = call[t].at /\ call'[t].acc = call[t].acc
         /\ call'[t].todo = call[t].todo /\ call'[t].read = call[t].read
         /\ \A c \in Channels : WillSet(t, c)' <=> WillSet(t, c)
         /\ \A c \in Channels, a \in Accounts :
              WillReread(t, c, a) /\ home'[a] = home[a] => WillReread(t, c, a)'
<1>1. PICK x \in CallType : Becomes(s, x)
  BY AdminTyped
<1>2. /\ call'[t].at = call[t].at /\ call'[t].acc = call[t].acc
      /\ call'[t].todo = call[t].todo /\ call'[t].read = call[t].read
  BY <1>1, CallMoves
<1>3. QED
  BY <1>2 DEF WillSet, WillReread

(* A call that will set the pool of a channel will still, unless it does.  *)
LEMMA WillStays ==
  ASSUME Types, NEW s \in Admins, AdminStep(s), NEW c \in Channels, WillSet(s, c)
  PROVE  WillSet(s, c)' \/ (SetPool(s) /\ c = Head(call[s].todo))
<1> DEFINE y == call[s]
<1>1. /\ y \in CallType /\ TaskOf(s) /\ y.todo \in Seq(Channels) /\ Rows
      /\ call \in [Admins -> CallType]
  BY DEF Types, Tasks, CallType
<1>2. PICK i \in 1..Len(y.todo) : y.todo[i] = c
  BY DEF WillSet
<1>3. y.at \in {"pools", "setting", "rereading"} /\ y.todo # <<>> /\ Len(y.todo) \in 1..2
  <2>1. Len(y.todo) \in Nat /\ Len(y.todo) <= 2 /\ y.at \in {"pools", "setting", "rereading"}
    BY <1>1 DEF WillSet, TaskOf
  <2>2. Len(y.todo) \in 1..2
    <3> DEFINE n == Len(y.todo)
    <3>1. n \in Nat /\ n <= 2 /\ i \in 1..n
      BY <1>2, <2>1
    <3> HIDE DEF n
    <3>2. n \in 1..2
      BY <3>1
    <3>3. QED
      BY <3>2 DEF n
  <2>3. QED
    BY <2>1, <2>2
<1>4. CASE SetPool(s)
  <2>1. Head(y.todo) = y.todo[1]
    BY <1>1, <1>3, Todos
  <2>2. CASE i = 1
    BY <1>2, <1>4, <2>1, <2>2
  <2>3. CASE i # 1
    <3>1. i = 2 /\ Len(y.todo) = 2
      BY <1>2, <1>3, <2>3
    <3>2. Tail(y.todo) \in Seq(Channels) /\ Len(Tail(y.todo)) = 1 /\ Tail(y.todo)[1] = c
      BY <1>1, <1>2, <1>3, <3>1
    <3>3. call' = [call EXCEPT ![s] = Pending(Tail(y.todo))]
      BY <1>4, <3>1 DEF SetPool, Next1
    <3>4. call'[s].at = "pools" /\ call'[s].todo = Tail(y.todo)
      BY <1>1, <3>2, <3>3, CallValues
    <3>5. QED
      BY <3>2, <3>4 DEF WillSet
  <2>4. QED
    BY <2>2, <2>3
<1>5. CASE ReadAccounts(s) \/ ReadFails(s)
  <2>1. call'[s].at = "setting" /\ call'[s].todo = y.todo
    BY <1>1, <1>5 DEF ReadAccounts, ReadFails, CallType
  <2>2. QED
    BY <1>2, <2>1 DEF WillSet
<1>6. CASE Reread(s)
  <2> DEFINE new == home[y.acc]
             todo == IF y.todo # <<>> /\ Head(y.todo) # new THEN Append(y.todo, new) ELSE <<new>>
  <2>1. y.acc \in Accounts /\ status[y.acc] # "absent" /\ Len(y.todo) = 1
    BY <1>1, <1>3, <1>6 DEF Reread, TaskOf
  <2>2. new \in Channels
    BY <1>1, <2>1 DEF Rows
  <2>3. Head(y.todo) = c /\ y.todo[1] = c
    BY <1>1, <1>2, <1>3, <2>1, Todos
  <2>4. todo \in Seq(Channels) /\ Len(todo) \in 1..2 /\ todo[1] = c
    <3>1. CASE c = new
      BY <1>3, <2>2, <2>3, <3>1, Todos
    <3>2. CASE c # new
      <4>1. /\ Append(y.todo, new) \in Seq(Channels) /\ Len(Append(y.todo, new)) = 2
            /\ Append(y.todo, new)[1] = c
        <5> DEFINE n == Len(y.todo)
                   m == Len(Append(y.todo, new))
        <5>1. /\ Append(y.todo, new) \in Seq(Channels) /\ n \in Nat /\ m = n + 1
              /\ \A j \in 1..n : Append(y.todo, new)[j] = y.todo[j]
          BY <1>1, <2>2, Appended
        <5>2. n = 1
          BY <2>1
        <5> HIDE DEF n, m
        <5>3. m = 2 /\ Append(y.todo, new)[1] = y.todo[1]
          BY <5>1, <5>2
        <5>4. QED
          BY <2>3, <5>1, <5>3 DEF m
      <4>2. todo = Append(y.todo, new)
        BY <1>3, <2>3, <3>2
      <4>3. QED
        BY <4>1, <4>2
    <3>3. QED
      BY <3>1, <3>2
  <2>5. call' = [call EXCEPT ![s] = Pending(todo)]
    BY <1>6 DEF Reread
  <2> HIDE DEF todo
  <2>6. call'[s].at = "pools" /\ call'[s].todo = todo
    BY <1>1, <2>4, <2>5, CallValues
  <2>7. QED
    BY <2>4, <2>6 DEF WillSet
<1>7. SetPool(s) \/ ReadAccounts(s) \/ ReadFails(s) \/ Reread(s)
  BY <1>3 DEF AdminStep, Administered, CreateChannel, DeleteChannel, FindChannel, UpdateChannel,
     RemovePool, CreateAccount, FindAccount, UpdateAccount, RereadFails, DeleteAccount, Begin
<1>8. QED
  BY <1>4, <1>5, <1>6, <1>7

LEMMA CoverStays ==
  ASSUME Types, NEW s \in Admins, AdminStep(s), NEW c \in Channels,
         \E t \in Admins : WillSet(t, c), ~(SetPool(s) /\ c = Head(call[s].todo))
  PROVE  \E t \in Admins : WillSet(t, c)'
BY OthersWill, WillStays

(* A refresh that is alone sets what the database says. *)
LEMMA LoneStep ==
  ASSUME Types, Freshness, NEW s \in Admins, AdminStep(s), NEW t \in Admins
  PROVE  LoneOf(t)'
<1>1. CASE t # s
  BY <1>1, NoneAlone DEF LoneOf
<1>2. CASE t = s
  <2>1. call[s] \in CallType /\ call \in [Admins -> CallType] /\ TaskOf(s)
    BY DEF Types, Tasks
  <2>2. PICK x \in CallType : Becomes(s, x)
    BY AdminTyped
  <2>3. call'[s] = x
    BY <2>2, CallMoves
  <2>4. CASE ReadAccounts(s)
    <3>1. /\ call'[s].at = "setting" /\ call'[s].lone = Others(s)
          /\ call'[s].read = Members(Head(call[s].todo)) /\ call'[s].todo = call[s].todo
      BY <2>1, <2>4 DEF ReadAccounts, CallType
    <3>2. UNCHANGED <<status, home>>
      BY <2>4 DEF ReadAccounts, rowVars
    <3>3. \A u \in Admins \ {s} : call'[u].at = call[u].at
      BY OthersWill
    <3>4. Others(s)' <=> Others(s)
      BY <3>3 DEF Others
    <3>5. QED
      BY <1>2, <3>1, <3>2, <3>4 DEF LoneOf, Members
  <2>5. CASE ~ReadAccounts(s)
    <3>1. call[s].at # "setting" => ~call[s].lone
      BY DEF Freshness, LoneOf
    <3>2. ~NoCall.lone /\ \A z \in Seq(Channels) : ~Pending(z).lone
      BY DEF NoCall, Pending
    <3>3. SetPool(s) => Tail(call[s].todo) \in Seq(Channels)
      BY <2>1, Todos DEF SetPool, TaskOf, CallType
    <3>4. SetPool(s) => ~Next1(s).lone
      BY <3>2, <3>3 DEF Next1
    <3>5. ~call'[s].lone
      <4>1. CASE SetPool(s)
        BY <2>1, <3>4, <4>1 DEF SetPool
      <4>2. CASE UpdateChannel(s) \/ UpdateAccount(s) \/ ReadFails(s)
        <5>1. call[s].at # "setting"
          BY <4>2 DEF UpdateChannel, UpdateAccount, ReadFails
        <5>2. call'[s].lone = call[s].lone
          BY <2>1, <4>2 DEF UpdateChannel, UpdateAccount, ReadFails, CallType
        <5>3. QED
          BY <3>1, <5>1, <5>2
      <4>3. CASE RemovePool(s) \/ RereadFails(s)
        BY <2>1, <3>2, <4>3 DEF RemovePool, RereadFails
      <4>4. CASE Reread(s)
        BY <2>1, <4>4 DEF Reread, Pending, NoCall
      <4>5. CASE \E z : Begin(s, z) /\ ~z.lone
        BY <4>5 DEF Begin
      <4>6. /\ \A z : ~Pending(z).lone
            /\ \A p, z : ~[NoCall EXCEPT !.at = p, !.todo = z].lone
            /\ \A p, a, z : ~[NoCall EXCEPT !.at = p, !.acc = a, !.todo = z].lone
            /\ \A p, a : ~[NoCall EXCEPT !.at = p, !.acc = a].lone
        BY DEF Pending, NoCall
      <4>7. \/ \E c \in Channels : CreateChannel(s, c) \/ FindChannel(s, c) \/ DeleteChannel(s, c)
            \/ \E a \in Accounts, c \in Channels : CreateAccount(s, a, c)
            \/ \E a \in Accounts : FindAccount(s, a) \/ DeleteAccount(s, a)
            => \E z : Begin(s, z) /\ ~z.lone
        BY <4>6 DEF CreateChannel, FindChannel, DeleteChannel, CreateAccount, FindAccount,
                    DeleteAccount
      <4>8. QED
        BY <2>5, <4>1, <4>2, <4>3, <4>4, <4>5, <4>7 DEF AdminStep, Administered
    <3>6. QED
      BY <1>2, <3>5 DEF LoneOf
  <2>6. QED
    BY <2>4, <2>5
<1>3. QED
  BY <1>1, <1>2

(* What the steps that move an account promise. *)
LEMMA Promises ==
  ASSUME Types, NEW s \in Admins
  PROVE  /\ \A a \in Accounts, c \in Channels : CreateAccount(s, a, c) =>
              WillSet(s, c)' /\ home'[a] = c /\ status[a] = "absent"
         /\ \A c \in Channels : CreateChannel(s, c) => WillSet(s, c)'
         /\ \A a \in Accounts : DeleteAccount(s, a) =>
              home' = home /\ \A c \in Channels : home[a] = c => WillReread(s, c, a)'
         /\ UpdateAccount(s) =>
              /\ \A a \in Accounts, c \in Channels :
                   a = call[s].acc /\ home'[a] = c => WillReread(s, c, a)'
              /\ \A c \in Channels : call[s].todo = <<c>> => WillSet(s, c)'
         /\ Reread(s) => \A c \in Channels :
              WillReread(s, c, call[s].acc) => WillSet(s, c)'
         /\ RereadFails(s) => \A c \in Channels :
              WillReread(s, c, call[s].acc) => c \in doubtful'
<1>1. /\ call \in [Admins -> CallType] /\ call[s] \in CallType /\ TaskOf(s) /\ Rows
      /\ call[s].todo \in Seq(Channels)
  BY DEF Types, Tasks, CallType
<1>2. ASSUME NEW x \in CallType, Becomes(s, x) PROVE call'[s] = x
  BY <1>2, CallMoves
<1>3. ASSUME NEW c \in Channels, Becomes(s, Pending(<<c>>)) PROVE WillSet(s, c)'
  <2>1. <<c>> \in Seq(Channels) /\ Len(<<c>>) = 1 /\ <<c>>[1] = c
    BY Todos
  <2>2. /\ Pending(<<c>>) \in CallType /\ Pending(<<c>>).at = "pools"
        /\ Pending(<<c>>).todo = <<c>>
    BY <1>1, <2>1, CallValues
  <2>3. call'[s].at = "pools" /\ call'[s].todo = <<c>>
    BY <1>2, <1>3, <2>2
  <2>4. 1 \in 1..Len(call'[s].todo) /\ call'[s].todo[1] = c
    BY <2>1, <2>3
  <2>5. QED
    BY <2>3, <2>4 DEF WillSet
<1>4. ASSUME NEW a \in Accounts, NEW c \in Channels, CreateAccount(s, a, c)
      PROVE  WillSet(s, c)' /\ home'[a] = c /\ status[a] = "absent"
  <2>1. Becomes(s, Pending(<<c>>))
    BY <1>4, CallSteps
  <2>2. home'[a] = c /\ status[a] = "absent"
    BY <1>1, <1>4 DEF CreateAccount, Rows
  <2>3. QED
    BY <1>3, <2>1, <2>2
<1>5. ASSUME NEW c \in Channels, CreateChannel(s, c) PROVE WillSet(s, c)'
  BY <1>3, <1>5, CallSteps
<1>6. ASSUME NEW a \in Accounts, DeleteAccount(s, a)
      PROVE  home' = home /\ \A c \in Channels : home[a] = c => WillReread(s, c, a)'
  <2> DEFINE x == [NoCall EXCEPT !.at = "rereading", !.acc = a]
  <2>1. x \in CallType
    BY <1>1, CallValues DEF Calls
  <2>2. x.at = "rereading" /\ x.acc = a
    BY DEF NoCall
  <2>3. Becomes(s, x)
    BY <1>6, CallSteps
  <2> HIDE DEF x
  <2>4. call'[s] = x /\ home' = home
    BY <1>2, <1>6, <2>1, <2>3 DEF DeleteAccount
  <2>5. QED
    BY <2>2, <2>4 DEF WillReread
<1>7. ASSUME UpdateAccount(s)
      PROVE  /\ \A a \in Accounts, c \in Channels :
                  a = call[s].acc /\ home'[a] = c => WillReread(s, c, a)'
             /\ \A c \in Channels : call[s].todo = <<c>> => WillSet(s, c)'
  <2>1. call'[s].at = "rereading" /\ call'[s].acc = call[s].acc /\ call'[s].todo = call[s].todo
    BY <1>1, <1>7 DEF UpdateAccount, CallType
  <2>2. \A a \in Accounts, c \in Channels :
          a = call[s].acc /\ home'[a] = c => WillReread(s, c, a)'
    BY <2>1 DEF WillReread
  <2>3. ASSUME NEW c \in Channels, call[s].todo = <<c>> PROVE WillSet(s, c)'
    <3>1. <<c>> \in Seq(Channels) /\ Len(<<c>>) = 1 /\ <<c>>[1] = c
      BY Todos
    <3>2. 1 \in 1..Len(call'[s].todo) /\ call'[s].todo[1] = c
      BY <2>1, <2>3, <3>1
    <3>3. QED
      BY <2>1, <3>2 DEF WillSet
  <2>4. QED
    BY <2>2, <2>3
<1>8. ASSUME Reread(s), NEW c \in Channels, WillReread(s, c, call[s].acc)
      PROVE  WillSet(s, c)'
  <2> DEFINE old == call[s].todo
  <2>1. home[call[s].acc] = c
    BY <1>8 DEF WillReread
  <2>2. Len(old) <= 1
    BY <1>1, <1>8 DEF Reread, TaskOf
  <2>3. CASE ~(old # <<>> /\ Head(old) # c)
    <3>1. call' = [call EXCEPT ![s] = Pending(<<c>>)]
      BY <1>8, <2>1, <2>3 DEF Reread
    <3>2. QED
      BY <1>3, <3>1 DEF Becomes
  <2>4. CASE old # <<>> /\ Head(old) # c
    <3> DEFINE new == Append(old, c)
    <3>1. new \in Seq(Channels) /\ Len(new) \in Nat /\ new # <<>>
          /\ Len(new) = Len(old) + 1 /\ new[Len(old) + 1] = c /\ Len(old) \in Nat
      BY <1>1, <2>2, Todos, Appended
    <3>2. call' = [call EXCEPT ![s] = Pending(new)]
      BY <1>8, <2>1, <2>4 DEF Reread
    <3> HIDE DEF new
    <3>3. Pending(new) \in CallType /\ Pending(new).at = "pools" /\ Pending(new).todo = new
      BY <1>1, <3>1, CallValues
    <3>4. call'[s].at = "pools" /\ call'[s].todo = new
      BY <1>1, <3>2, <3>3
    <3>5. Len(old) + 1 \in 1..Len(new)
      BY <3>1
    <3>6. QED
      BY <3>1, <3>4, <3>5 DEF WillSet
  <2>5. QED
    BY <2>3, <2>4
<1>9. ASSUME RereadFails(s), NEW c \in Channels, WillReread(s, c, call[s].acc)
      PROVE  c \in doubtful'
  BY <1>9 DEF RereadFails, WillReread
<1>10. QED
  BY <1>4, <1>5, <1>6, <1>7, <1>8, <1>9

(* Where a moved account was, the pool never held it, or will be set.      *)
LEMMA LeftBehind ==
  ASSUME Types, Freshness, NEW s \in Admins, AdminStep(s), UpdateAccount(s),
         NEW a, a = call[s].acc, NEW h, h = home[a], home'[a] # h, h \notin doubtful
  PROVE  \/ pools'[h] = None
         \/ a \notin pools'[h].in
         \/ \E t \in Admins : WillSet(t, h)'
<1>1. call[s].at = "updating" /\ a \in Accounts /\ h \in Channels /\ pools' = pools /\ ~SetPool(s)
  BY DEF UpdateAccount, SetPool, Types, Tasks, TaskOf, Rows
<1>2. CASE call[s].todo = <<h>>
  BY <1>1, <1>2, Promises
<1>3. CASE call[s].todo # <<h>>
  <2>1. \/ pools[h] = None \/ a \notin pools[h].in \/ \E t \in Admins : WillSet(t, h)
    BY <1>1, <1>3 DEF Freshness, MovedOf
  <2>2. QED
    BY <1>1, <2>1, CoverStays
<1>4. QED
  BY <1>2, <1>3

(* While a call is about to move an account, no refresh of a channel can   *)
(* be alone: such a channel becomes doubtful.                              *)
LEMMA MovedStep ==
  ASSUME Types, Freshness, NEW s \in Admins, AdminStep(s), NEW t \in Admins
  PROVE  MovedOf(t)'
<1> SUFFICES ASSUME NEW a, a = call'[t].acc, NEW h, h = home'[a],
                    call'[t].at = "updating", call'[t].todo # <<h>>, h \notin doubtful'
             PROVE  \/ pools'[h] = None \/ a \notin pools'[h].in
                    \/ \E u \in Admins : WillSet(u, h)'
  BY DEF MovedOf
<1>1. /\ call \in [Admins -> CallType] /\ Rows /\ Pools /\ TaskOf(s) /\ TaskOf(t)
      /\ call[s].todo \in Seq(Channels)
  BY DEF Types, Tasks, CallType
<1>2. t # s
  <2> SUFFICES ASSUME t = s PROVE FALSE
    OBVIOUS
  <2>1. PICK x \in CallType : Becomes(s, x)
    BY AdminTyped
  <2>2. \E b \in Accounts : FindAccount(s, b)
    <3>1. /\ \A z : Pending(z).at = "pools"
          /\ NoCall.at = "idle" /\ \A p, z : [NoCall EXCEPT !.at = p, !.todo = z].at = p
          /\ \A p, b : [NoCall EXCEPT !.at = p, !.acc = b].at = p
      BY DEF Pending, NoCall
    <3>2. /\ ~UpdateChannel(s) /\ ~UpdateAccount(s) /\ ~ReadAccounts(s) /\ ~ReadFails(s)
      BY <1>1 DEF UpdateChannel, UpdateAccount, ReadAccounts, ReadFails, CallType
    <3>3. ~RemovePool(s) /\ ~RereadFails(s) /\ ~Reread(s) /\ ~SetPool(s)
      BY <1>1, <3>1 DEF RemovePool, RereadFails, Reread, SetPool, Next1
    <3>4. \A z : Begin(s, z) => z.at = "updating"
      BY DEF Begin
    <3>5. \A c \in Channels : ~CreateChannel(s, c) /\ ~FindChannel(s, c) /\ ~DeleteChannel(s, c)
      <4> TAKE c \in Channels
      <4>1. /\ Pending(<<c>>).at = "pools"
            /\ [NoCall EXCEPT !.at = "editing", !.todo = <<c>>].at = "editing"
            /\ [NoCall EXCEPT !.at = "removing", !.todo = <<c>>].at = "removing"
        BY <3>1
      <4>2. /\ ~Begin(s, Pending(<<c>>))
            /\ ~Begin(s, [NoCall EXCEPT !.at = "editing", !.todo = <<c>>])
            /\ ~Begin(s, [NoCall EXCEPT !.at = "removing", !.todo = <<c>>])
        BY <3>4, <4>1
      <4>3. QED
        BY <4>2 DEF CreateChannel, FindChannel, DeleteChannel
    <3>6. \A b \in Accounts, c \in Channels : ~CreateAccount(s, b, c)
      <4> TAKE b \in Accounts, c \in Channels
      <4>1. Pending(<<c>>).at = "pools"
        BY <3>1
      <4>2. ~Begin(s, Pending(<<c>>))
        BY <3>4, <4>1
      <4>3. QED
        BY <4>2 DEF CreateAccount
    <3>7. \A b \in Accounts : ~DeleteAccount(s, b)
      <4> TAKE b \in Accounts
      <4>1. [NoCall EXCEPT !.at = "rereading", !.acc = b].at = "rereading"
        BY <3>1
      <4>2. ~Begin(s, [NoCall EXCEPT !.at = "rereading", !.acc = b])
        BY <3>4, <4>1
      <4>3. QED
        BY <4>2 DEF DeleteAccount
    <3>8. QED
      BY <3>2, <3>3, <3>5, <3>6, <3>7 DEF AdminStep, Administered
  <2>3. PICK b \in Accounts : FindAccount(s, b)
    BY <2>2
  <2> DEFINE y == [NoCall EXCEPT !.at = "updating", !.acc = b, !.todo = <<home[b]>>]
  <2>4. y.acc = b /\ y.todo = <<home[b]>>
    BY DEF NoCall
  <2>5. call' = [u \in Admins |-> IF u = s THEN y ELSE [call[u] EXCEPT !.lone = FALSE]]
    BY <2>3 DEF FindAccount, Begin
  <2>6. call'[s] = y /\ home' = home
    BY <2>3, <2>5 DEF FindAccount, rowVars
  <2> HIDE DEF y
  <2>7. QED
    BY <2>4, <2>6
<1>3. /\ call[t].at = "updating" /\ call[t].acc = a /\ call[t].todo # <<h>>
  BY <1>2, OthersWill
<1>4. a \in Accounts /\ status[a] # "absent" /\ home[a] \in Channels /\ h \in Channels
  <2>1. a \in Accounts /\ status[a] # "absent" /\ home[a] \in Channels
    BY <1>1, <1>3 DEF TaskOf, Rows
  <2>2. Rows' /\ status'[a] # "absent"
    BY <2>1, RowsGrow
  <2>3. QED
    BY <2>1, <2>2 DEF Rows
<1>5. ~(SetPool(s) /\ h = Head(call[s].todo)) /\ h \notin doubtful
  <2>1. ~Others(s)
    BY <1>2, <1>3 DEF Others
  <2>2. ~call[s].lone
    BY <2>1 DEF Freshness, LoneOf
  <2>3. SetPool(s) => doubtful' = doubtful \cup {Head(call[s].todo)}
    BY <2>2 DEF SetPool
  <2>4. QED
    BY <2>3, AdminEffects
<1>6. pools'[h] = pools[h] \/ pools'[h] = None
  BY <1>4, <1>5, AdminEffects
<1>7. CASE home'[a] = home[a]
  <2>1. pools[h] = None \/ a \notin pools[h].in \/ \E u \in Admins : WillSet(u, h)
    BY <1>3, <1>5, <1>7 DEF Freshness, MovedOf
  <2>2. QED
    BY <1>4, <1>5, <1>6, <2>1, CoverStays
<1>8. CASE home'[a] # home[a]
  <2>1. h # home[a] /\ ~\E u \in Admins : WillReread(u, h, a)
    BY <1>8 DEF WillReread
  <2>2. a \notin Members(h)
    BY <2>1 DEF Members
  <2>3. FreshOf(h, a)
    BY <1>4, <1>5 DEF Freshness
  <2>4. pools[h] = None \/ a \notin pools[h].in \/ \E u \in Admins : WillSet(u, h)
    BY <2>1, <2>2, <2>3 DEF FreshOf
  <2>5. QED
    BY <1>4, <1>5, <1>6, <2>4, CoverStays
<1>9. QED
  BY <1>7, <1>8

LEMMA FreshStep ==
  ASSUME Types, Types', Freshness, NEW s \in Admins, AdminStep(s),
         NEW c \in Channels, c \notin doubtful'
  PROVE  PoolOf(c)' /\ \A a \in Accounts : FreshOf(c, a)'
<1>1. /\ call[s] \in CallType /\ call[s].read \subseteq Accounts /\ Rows /\ Pools
      /\ pools \in [Channels -> PoolType \cup {None}]
      /\ row \in [Channels -> {"absent", "on", "deleted"}] /\ Rows'
  BY DEF Types, Tasks, CallType, Rows, Pools
<1>2. CASE SetPool(s) /\ c = Head(call[s].todo)
  <2>1. /\ call[s].lone /\ pools' = [pools EXCEPT ![c] = Pool(call[s].read)]
        /\ UNCHANGED <<status, home>>
    BY <1>2 DEF SetPool, rowVars
  <2>2. call[s].read = Members(c)
    BY <1>2, <2>1 DEF Freshness, LoneOf
  <2>3. pools'[c].in = Members(c) /\ pools'[c] \in PoolType
    BY <1>1, <2>1, <2>2 DEF Pool, PoolType
  <2>4. pools'[c] # None
    BY <2>3, RoutingAssumption DEF PoolType
  <2>5. Members(c)' = Members(c)
    BY <2>1 DEF Members
  <2>6. QED
    BY <2>3, <2>4, <2>5 DEF PoolOf, FreshOf
<1>3. CASE ~(SetPool(s) /\ c = Head(call[s].todo))
  <2>1. c \notin doubtful
    <3>1. CASE SetPool(s)
      BY <1>3, <3>1 DEF SetPool
    <3>2. CASE ~SetPool(s)
      BY <3>2, AdminEffects
    <3>3. QED
      BY <3>1, <3>2
  <2>2. PoolOf(c) /\ \A a \in Accounts : FreshOf(c, a)
    BY <2>1 DEF Freshness
  <2>3. pools'[c] = pools[c] \/ (pools'[c] = None /\ row'[c] = "deleted")
    BY <1>3, AdminEffects
  <2>4. (\E t \in Admins : WillSet(t, c)) => \E t \in Admins : WillSet(t, c)'
    BY <1>3, CoverStays
  <2>5. PoolOf(c)'
    <3>1. CASE pools[c] # None
      BY <2>3, <3>1 DEF PoolOf
    <3>2. CASE row[c] # "on"
      <4>1. row'[c] # "on" \/ CreateChannel(s, c)
        BY <3>2, AdminEffects
      <4>2. CreateChannel(s, c) => WillSet(s, c)'
        BY Promises
      <4>3. QED
        BY <4>1, <4>2 DEF PoolOf
    <3>3. QED
      BY <2>2, <2>4, <3>1, <3>2 DEF PoolOf
  <2>6. ASSUME NEW a \in Accounts PROVE FreshOf(c, a)'
    <3> SUFFICES ASSUME pools'[c] # None, ~\E t \in Admins : WillSet(t, c)'
                 PROVE  \/ a \in pools'[c].in <=> a \in Members(c)'
                        \/ \E t \in Admins : WillReread(t, c, a)'
      BY DEF FreshOf
    <3>1. pools'[c] = pools[c] /\ ~\E t \in Admins : WillSet(t, c)
      BY <2>3, <2>4
    <3>2. \/ a \in pools[c].in <=> a \in Members(c)
          \/ \E t \in Admins : WillReread(t, c, a)
      BY <2>2, <3>1 DEF FreshOf
    <3>3. CASE status'[a] = status[a] /\ home'[a] = home[a]
      <4>1. a \in Members(c) <=> a \in Members(c)'
        BY <3>3 DEF Members
      <4>2. ASSUME NEW t \in Admins, WillReread(t, c, a)
            PROVE  \E u \in Admins : WillReread(u, c, a)'
        <5>1. CASE t # s
          BY <3>3, <4>2, <5>1, OthersWill
        <5>2. CASE t = s
          <6>1. call[s].at = "rereading" /\ call[s].acc = a
            BY <4>2, <5>2 DEF WillReread
          <6>2. Reread(s) \/ RereadFails(s)
            BY <6>1 DEF AdminStep, Administered, CreateChannel, DeleteChannel, FindChannel,
               UpdateChannel, RemovePool, CreateAccount, FindAccount, UpdateAccount,
               DeleteAccount, ReadAccounts, ReadFails, SetPool, Begin
          <6>3. CASE Reread(s)
            BY <4>2, <5>2, <6>1, <6>3, Promises
          <6>4. CASE RereadFails(s)
            BY <4>2, <5>2, <6>1, <6>4, Promises
          <6>5. QED
            BY <6>2, <6>3, <6>4
        <5>3. QED
          BY <5>1, <5>2
      <4>3. QED
        BY <3>1, <3>2, <4>1, <4>2
    <3>4. ASSUME NEW d \in Channels, CreateAccount(s, a, d)
          PROVE  a \in pools'[c].in <=> a \in Members(c)'
      <4>1. WillSet(s, d)' /\ home'[a] = d /\ status[a] = "absent"
        BY <3>4, Promises
      <4>2. d # c
        BY <4>1
      <4>3. a \notin Members(c) /\ a \notin Members(c)'
        BY <4>1, <4>2 DEF Members
      <4>4. home[a] = None /\ c # None
        BY <1>1, <4>1, RoutingAssumption DEF Rows
      <4>5. ~\E t \in Admins : WillReread(t, c, a)
        BY <4>4 DEF WillReread
      <4>6. QED
        BY <3>1, <3>2, <4>3, <4>5
    <3>5. CASE DeleteAccount(s, a)
      <4>1. home' = home /\ (home[a] = c => WillReread(s, c, a)')
        BY <3>5, Promises
      <4>2. CASE home[a] = c
        BY <4>1, <4>2
      <4>3. CASE home[a] # c
        <5>1. a \notin Members(c) /\ a \notin Members(c)'
          BY <4>1, <4>3 DEF Members
        <5>2. ~\E t \in Admins : WillReread(t, c, a)
          BY <4>3 DEF WillReread
        <5>3. QED
          BY <3>1, <3>2, <5>1, <5>2
      <4>4. QED
        BY <4>2, <4>3
    <3>6. CASE UpdateAccount(s) /\ a = call[s].acc
      <4>1. CASE home'[a] = c
        BY <3>6, <4>1, Promises
      <4>2. CASE home'[a] # c /\ home[a] = c
        <5>1. a \notin pools'[c].in
          BY <2>1, <3>6, <4>2, LeftBehind
        <5>2. a \notin Members(c)'
          BY <4>2 DEF Members
        <5>3. QED
          BY <5>1, <5>2
      <4>3. CASE home'[a] # c /\ home[a] # c
        <5>1. a \notin Members(c) /\ a \notin Members(c)'
          BY <4>3 DEF Members
        <5>2. ~\E t \in Admins : WillReread(t, c, a)
          BY <4>3 DEF WillReread
        <5>3. QED
          BY <3>1, <3>2, <5>1, <5>2
      <4>4. QED
        BY <4>1, <4>2, <4>3
    <3>7. QED
      BY <3>3, <3>4, <3>5, <3>6, AdminEffects
  <2>7. QED
    BY <2>5, <2>6
<1>4. QED
  BY <1>2, <1>3

LEMMA FreshnessStep ==
  ASSUME Types, Types', Freshness, [Next]_vars
  PROVE  Freshness'
<1>1. ASSUME NEW r \in Requests, RequestStep(r) PROVE Freshness'
  BY <1>1, RequestCopies, FreshnessKept DEF AtRest, history
<1>2. ASSUME NEW s \in Admins, AdminStep(s) PROVE Freshness'
  <2>1. \A t \in Admins : LoneOf(t)' /\ MovedOf(t)'
    BY <1>2, LoneStep, MovedStep
  <2>2. \A c \in Channels : c \notin doubtful' =>
          PoolOf(c)' /\ \A a \in Accounts : FreshOf(c, a)'
    BY <1>2, FreshStep
  <2>3. QED
    BY <2>1, <2>2 DEF Freshness
<1>3. ASSUME NEW c \in Channels, CooldownEnds(c) PROVE Freshness'
  BY <1>3, TimerSteps, FreshnessKept DEF AtRest, history
<1>4. CASE UNCHANGED <<rowVars, call, doubtful, pools>>
  BY <1>4, FreshnessKept
<1>5. (Cleanup \/ Tick \/ UNCHANGED vars) => UNCHANGED <<rowVars, call, doubtful, pools>>
  BY DEF Cleanup, Tick, AtRest, history, vars
<1>6. QED
  BY Steps, <1>1, <1>2, <1>3, <1>4, <1>5 DEF RequestStep

----------------------------------------------------------------------------
(* The theorems. *)

LEMMA IInvInit == Init => IInv
BY TypesInit, RetirementInit, DebtsInit, FreshnessInit DEF IInv

LEMMA IInvStep == IInv /\ [Next]_vars => IInv'
BY TypesStep, RetirementStep, DebtsStep, FreshnessStep DEF IInv

LEMMA RoutingInvariant == Spec => []IInv
BY IInvInit, IInvStep, PTL DEF Spec

(* The rows, the pools, the list, the affinities, the requests and the     *)
(* calls of administrators are of their types; what cools down in a pool   *)
(* is in it (handler.go:420-598; pool.go; affinity.go).                    *)
THEOREM RoutingTypeOK == Spec => []TypeOK
<1>1. IInv => TypeOK
  BY TypesImply DEF IInv
<1>2. QED
  BY <1>1, RoutingInvariant, PTL

(* Once no administrator's call is under way, every pool whose last        *)
(* refresh was alone holds just the enabled accounts of its channel,       *)
(* whatever the order in which accounts were created, moved, disabled and  *)
(* deleted (server.go:168-174; account_handler.go:126-134, 157-163).       *)
THEOREM RoutingPoolsFresh == Spec => []PoolsFresh
<1>1. IInv => PoolsFresh
  <2> SUFFICES ASSUME IInv, \A s \in Admins : call[s].at = "idle",
                      NEW c \in Channels, c \notin doubtful
               PROVE  /\ row[c] = "on" => pools[c] # None
                      /\ pools[c] # None => pools[c].in = Members(c)
    BY DEF PoolsFresh
  <2>1. PoolOf(c) /\ \A a \in Accounts : FreshOf(c, a)
    BY DEF IInv, Freshness
  <2>2. \A s \in Admins : ~WillSet(s, c) /\ \A a \in Accounts : ~WillReread(s, c, a)
    BY DEF WillSet, WillReread
  <2>3. row[c] = "on" => pools[c] # None
    BY <2>1, <2>2 DEF PoolOf
  <2>4. pools[c] # None => pools[c].in \subseteq Accounts
    BY DEF IInv, Types, Pools, PoolType
  <2>5. pools[c] # None => \A a \in Accounts : a \in pools[c].in <=> a \in Members(c)
    BY <2>1, <2>2 DEF FreshOf
  <2>6. pools[c] # None => pools[c].in = Members(c)
    BY <2>4, <2>5 DEF Members
  <2>7. QED
    BY <2>3, <2>6
<1>2. QED
  BY <1>1, RoutingInvariant, PTL

(* No request is sent to a channel that had been deleted for the time of a *)
(* list when the request began, whatever the copies say (handler.go:       *)
(* 436-458, 573-582).                                                      *)
THEOREM RoutingDeletedRetired == Spec => []DeletedRetired
<1>1. IInv => DeletedRetired
  BY DEF IInv, Retirement, RetiredOf, DeletedRetired
<1>2. QED
  BY <1>1, RoutingInvariant, PTL

(* A request that is refused without a failure had no channel that was     *)
(* ready for the time of a list before it and ever since (handler.go:      *)
(* 571-598).                                                               *)
THEOREM RoutingRefusedForCause == Spec => []RefusedForCause
<1>1. IInv => RefusedForCause
  BY DEF IInv, Debts, OwedOf, RefusedForCause
<1>2. QED
  BY <1>1, RoutingInvariant, PTL

=============================================================================
