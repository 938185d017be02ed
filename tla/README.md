# A verification of the UAPI gateway

UAPI (`src/`, Go) is a gateway in front of the HTTP APIs of several model
providers. Clients send requests with API keys in one of four formats (OpenAI
Chat, OpenAI Responses, Anthropic, Gemini); the gateway checks the key's limits, picks one of the
accounts of an upstream channel, reserves quota, translates and forwards the request,
streams or buffers the answer back, and settles the quota.

This directory holds TLA+ models of it, TLC runs over small instances,
and TLAPS proofs for every value of the constants. `PROJECT.json` lists, for
every definition, the lines of code it was translated from, the hazards the
properties are for, and one deliberate slip of the model per property that the
property must catch (the operators commented "Slip" are those and nothing
uses them).

## The system

| Part | State | Operations | What is hard |
|---|---|---|---|
| Account pool (`relay/pool.go`) | weights, current weights, total weight, cooldown timers | `Pick`, `Cooldown`, the timer's callback | timers of old cooldowns, sums kept by increments, fairness of the round-robin once weights change |
| Concurrency limiter (`relay/concurrency.go`) | a count per key | `Acquire`, `Release` | released on every exit of three handlers, some in goroutines |
| Request relay (`relay/handler.go`) | the request's place, account, try | `HandleRelay`, `handleStreaming`, `handleForceStream`, `handleBuffered`, `refundAndError`, `refundOnError`, `settleAndRefund` | panics, retries, goroutines that outlive the request, pools replaced under way, restarts |
| Billing (`relay/billing.go`) | `token_plans` rows, the plans | `CheckLimit`, `PreConsume`, `Refund`, `RefundAndSettle` | check and reservation in different transactions, the plan edited in between, windows that expire |
| Conversions (`relay/provider/*`) | none of their own; the client's history | requests and answers from each of four formats to each other | every turn sends the whole conversation, to another upstream each time; what a format cannot hold is dropped, joined or renamed |
| Streaming (`relay/streaming.go`, `sse_reader.go`, the providers' `streaming.go`) | a channel of one event, conversion state, tracked usage | `streamAndForward`, `Send`, `Read`, `Close`, the converters | a client that leaves, two conversions in sequence, usage read from what was converted |
| Channel choice (`handler.go` resolve, `affinity.go`, `channelCache`) | affinity entries, cached channel list | `resolveChannelAndAccount`, `Get`, `Set`, `EvictChannel` | stale caches, two locks |
| Pool refresh (`server.go`, `admin/*_handler.go`) | the pool of every channel | `SetPool`, `RemovePool` after every edit | read of the database and replacement of the pool are two steps |
| Credentials and OAuth (`relay/account_refresh.go`, `admin/oauth_handler.go`) | sessions, the account's tokens | refresh, start, callback, bind | asynchronous update, decisions on copies |
| Users, keys, plans (`user/service.go`, `admin/user_handler.go`, `token_handler.go`) | rows | register, subscribe, redeem, create and delete keys | count-then-insert without locks |
| Set-up (`admin/handler.go`, `config/config.go`) | the configuration in memory and in its file | `Load`, `Save`, `HandleSetup` | two set-ups at once, a file that is emptied before it is written |
| Console, logs | rows, files | | plain reads and writes |

How the parts interact: a request of a client takes a slot of the limiter,
asks billing for its limits, finds a channel and an account (affinity, then the
cached list, then the pool of the channel; an OAuth account may have its
credentials refreshed on the way), reserves quota, is converted to the format of the
channel and sent upstream in one of
three modes; its answer, or the lines of its stream, are converted back, and it
releases, logs, refunds or settles on its way out, partly in
goroutines. Administrators' calls change the rows these parts read and replace
the pools; users' calls create the keys and subscriptions. All of it shares one
PostgreSQL database and the memory of one process.

What makes each part correct, in one line each:

- pool: the total is the sum, one timer per cooldown, traffic by weight, nobody starves;
- relay: every slot is released once and every reservation closed once, on every exit;
- billing: the key is charged what its requests owe, never more; what is served above a limit is bounded by the slots;
- conversions: in every turn the upstream is told every word, call and result of the conversation, once, in order
  and by who said it, is asked for what the client wants, and its answer reaches the client whole;
- streaming: nothing is lost, repeated or reordered; usage is what was reported; a client that leaves frees the producer;
- routing: the pools agree with the database, a deleted channel is retired, stale copies cost no answer;
- credentials: one refresh at a time, the row ends with the last token; a session is not bound again;
- users: a code is credited once, and what counts without locks let through is bounded;
- set-up: one administrator for good, and a file that holds one is not written again.

## Modules

| Module | What it is | Code |
|---|---|---|
| `UnitCounts` | sums written as cardinalities, so that they can be proved about | |
| `Rotation` | what a pool promises: accounts taken out and put back, answers | the contract of `pool.go` |
| `AccountPool` | smooth weighted round-robin with cooldowns; implements `Rotation` | `relay/pool.go` |
| `PoolShares` | `AccountPool` with histories of who was picked (also the TLC module) | |
| `Admission` | what the relay promises to the limiter and to billing | |
| `Relay` | a request from `Acquire` to its last goroutine, in the three modes; uses `Rotation` for the pool; implements `Admission` | `relay/handler.go`, `concurrency.go` |
| `Billing` | one key's row, its plan, and the requests that reserve and settle | `relay/billing.go`, `admin/plan_handler.go`, `user/service.go` (Subscribe) |
| `Quota` | `Billing` behind the slots of the key, with restarts | `handler.go:127-193`, `concurrency.go` |
| `Conversions` | the conversions of whole requests and answers, as functions | `provider/*/to_internal.go`, `from_internal.go`, `response_convert.go` |
| `Conversation` | the turns of a client, each converted for another upstream and back | `handler.go:195-260, 380-410, 540-560`, `Conversions` |
| `StreamFormats` | the conversions of one line, as functions | the providers' `streaming.go`, `stream_converter.go` |
| `Streaming` | producer, channel, reader and client of one stream | `relay/streaming.go`, `sse_reader.go` |
| `Exchange` | `Conversation` whose streamed turn is run by `Streaming` | `handler.go:306-316` |
| `Routing` | resolution of a channel over affinity, list and pools, and the edits that change them | `handler.go:435-645`, `affinity.go`, `server.go`, `admin/channel_handler.go`, `account_handler.go` |
| `Credentials` | refresh of OAuth accounts, its goroutines, row and memory | `relay/account_refresh.go` |
| `OAuth` | sessions, callbacks and binding, on top of `Credentials` | `admin/oauth_handler.go` |
| `Users` | users, keys, subscriptions and codes, statement by statement | `user/service.go`, `admin/user_handler.go`, `token_handler.go` |
| `Setup` | start-up and set-up, with crashes and writes that fail | `admin/handler.go`, `config/config.go` |
| `MC...`, `StreamScripts` | the instances TLC checks | |
| `..._proofs` | lemmas and theorems of the module they are named after | |

An action is the code between two accesses to state that other goroutines
share: one statement to the database, or what runs under one lock. A transaction
that holds a row lock from its first statement is one action; one that locks
nothing is as many as it has statements. Names follow the code; where the code has
one name for a long handler, the actions are its parts, in order, and the state
variable `pc`, `at`, `phase` or `request` says which part is next.

### The account pool

`weight`, `current`, `original` and `total` are the fields of `AccountPool`
and its entries; `timers` counts the `time.AfterFunc` callbacks that are still to
run for an account, and `picked` is the answer of the last `Pick`. `Pick` is one
action per answer, `Cooldown` the whole function under its lock, `Restore` the
callback. Weights are natural numbers: `account_handler.go:112-114` accepts
negative ones, which are out of the model.

### The relay

`Served`, `Streamed` and `Buffered` follow `HandleRelay`, `handleStreaming` and
`handleForceStream`, `handleBuffered`. The exits are sequences of operations
(`RefundAndError`, `StreamDone`, ...), run one at a time by `TakeStep`, because
their order differs from exit to exit and other requests see what lies between;
goroutines are members of `jobs` and run any time later. `RefreshPool` may replace
the pool at any moment: its cooldowns are forgotten, and an account a request is using may
no longer be in it. `Limits` is the limit of the key in the configuration at every start, and
`Limit` that of the process that runs. The choice of a channel, the
authentication before `Acquire` and conversions are single steps that succeed or fail
(`Routing`, `Credentials`, `Conversation` and `Streaming` have them in detail). Bodies, prices
and log rows are reduced to whether there is one. A reservation that PreConsume refused is
`"refused"` here; what its refund then does to the row is in `Billing`.

### Billing and Quota

The key has one row of `token_plans`. PreConsume, Refund and RefundAndSettle lock
that row and are one step each; CheckLimit is two. Estimates are any
integers but 0, as `handler.go:184-187` replaces 0 and nothing looks at a negative
`max_tokens`: it lowers `used_quota` when it is reserved and raises it when the request is closed, which
`Debt` counts as owed. Limits are numbers. A window's clock is
`"unset"`, `"running"` or `"expired"`, and `Expire` may happen at any time. The
administrator may edit the plan to any other, or delete it. `steady` is a history:
it says that no edit so far turned one type of plan into the other or changed the names of its
windows, under which the code refunds to a meter it did not charge. The books are right
as long as it holds, whatever else is edited.

`Quota` puts the limiter in front: `Enter` is Acquire and the first read of CheckLimit,
`Leave` is Release, `Restart` forgets the slots and every request under way but not the
row. `passed` remembers the requests CheckLimit let through.

### Conversions, conversations and exchanges

A document is a record of the texts of the system, of messages, and of options.
A text is a sequence of tokens, numbered by turn and place, so that a text that is
joined, cut, repeated or given to another speaker is told apart; images are tokens
too, by url, or held by the message itself (`Inline`), as Anthropic's clients may send them. A call has an identifier, a name and arguments that are given, empty or no JSON; a
result has the identifier or the name that its format holds. `Conversions` has one
operator per reader and writer of a format, as the code goes through an internal request:
`ConvertRequest` is empty where the code returns an error. What is left out: the declarations
of tools, model names, sampling options, identifiers of answers, and the JSON itself.

A turn of `Conversation` is three steps. In `Ask` the client adds to its history a
message, or the results of the calls it got, with or without a text beside them. `Relay` is the gateway
from the choice of a channel to the request: any upstream may be chosen, in any
mode (`plain`; `stream`, when the client wants one; `forced`, when the channel only
answers with streams), and `stream` is in the document or, for Gemini, in the address. In
`Answer` the upstream says one of the things its format can say, the gateway reads it (after
`StreamToNonStream` if the mode is forced) and converts it, and the client adds it to its
history. The client and the upstreams are external. `said` is a history of who said
what, in the speaker's own form, to compare with.

`Exchange` hands a turn in mode `stream` to the goroutines of `Streaming`, by
`INSTANCE`, with the kind of channel and client this turn has. A stream of a client ends its
conversation, since what it would add to the history is known by pieces only.

### Streaming

A stream is a script of lines of the upstream. Each line is converted to OpenAI
form and then to the client's, by the functions of `StreamFormats`, which work on
records that keep the text as numbered pieces, tool calls, finish reasons and usage,
and drop identifiers. What lines an upstream of each kind writes, and in what order, is `ScriptOf`: nothing is assumed of the order but that an Anthropic upstream tells its
end once, after its last block (`message_delta`). The producer's `Send` is two steps, as the code tests the
flag first and then waits for the channel or for `done`. fasthttp is external:
it calls `Read` until the end or until a write fails, then `Close`.

### Routing

The database (`row`, `serves`, `status`, `home`), the pools, the list of channels
and the affinities are separate; each read is a step of its own. All requests ask for
one model, priorities are left out (channels are tried in any order, so
what is shown holds for each), `GetPool` and `Pick` are one step, and loading the list
takes no time. Times are kept as time left. The administrators' calls are the
handlers' statements in order, `todo` being the pools still to be refreshed. The column
`cooldown_until` and weights are left out.

### Credentials and OAuth

A refresh token is a grant and a number; the provider answers a refresh with the next
number or none, and only the last is good. `held` says whether a request or a
goroutine has the object that is in the pool, as `SetPool` replaces the objects.
`Do` is `singleflight`: the first request refreshes, others wait for its
answer. Sessions grow old at any time, and each call works on the copy it took.
The goroutine's two writes to an account object are one step. An access token
outlives the sessions and the goroutine that saves it (`ExpireLate`, `Expire`):
the provider's are good for an hour or more, the code's default is eight days.

### Users

Every session may call at any time, as the middleware looks at the signature of
its token and nothing else. `LockCode` reads the row of a code and holds it until `RedeemCode` ends the
transaction, while other calls go on; in the other transactions the count and the insertion are two steps, and nothing is locked. User names
behave as emails and are left out; that emails are unique is left to the index of the
database, which both insertions fail on.

### Set-up

The file of the configuration is an administrator and a secret, or blank. `Save` is two
steps, as `os.WriteFile` empties the file before it writes: the process may stop between
them (`Stop`, possible anywhere), or the write may fail (`SaveFails`). `CheckSetup` is the look at the
configuration before the lock, `LockSetup` what follows up to the assignment in memory.
`Load` follows `config.Load`. A login reads the administrator and changes nothing.

## Runs

| Run | Instance | What it shows |
|---|---|---|
| `Pool` | 3 accounts, weights 0 to 3, 2 cooldowns | sums, timers, spread by weight in every period, nobody passed over for longer than a bound, refinement of `Rotation`, every cooldown ends |
| `Relay` | 2 requests, 1 key, limit 2 and after a restart 1, all modes, 2 tries, 1 fault, 1 restart, pools refreshed | closings, refinement of `Admission`, the count of a key is that of its requests, and all is given back in the end |
| `Billing` | 3 requests, one of a negative size, 2 slots, a metered plan or one of a window of 1 or 2, on or off, 1 edit from any to any, failures, a restart | never overcharged nor overcounted, exact when everybody reserved, served above a limit only by the slots |
| `Exchange` | clients and upstreams of 4 formats each, 3 turns, 3 modes, 16 streams with breaks and disconnects anywhere | texts, calls and results of every turn, the options asked for, the answers; order, pieces, usage and brackets of a stream, the single answer, no producer left waiting |
| `Routing` | 1 request at a time, 2 channels, 2 accounts, 2 administrators, 2 calls of theirs, lists and affinities of one tick | fresh pools, retired channels, refusals only for cause |
| `OAuth` | 1 session, 2 callbacks, 2 calls, 1 account, 2 requests, 2 refresh tokens, 1 restart | not bound again, refreshed alone, row current |
| `Users` | 2 calls at once, 2 users, 3 keys, 1 code, a maximum of 1 key, 1 edit | a code is credited once, the bound of keys |
| `WindowRenewed` | 2 requests, a window of 1 | violated: see below |
| `StreamingTextKept` | a Gemini client of a Gemini channel | violated: see below |
| `LastTokenSent` | as `OAuth` | violated: see below |
| `OneSubscription` | as `Users` | violated: see below |
| `ResultsDelivered` | an Anthropic client of Chat and Gemini channels, 2 turns | violated: see below |

Why the bounds are enough. The pool's three accounts are the least number at which
smooth round-robin differs from taking turns, and two cooldowns let a timer run
while another account fails; what does not depend on the number is proved. Two
requests of one key are needed for any race about a slot or a row, and in `Billing` the third
arrives while one refunds and one settles, where two slots are the least that let two of them overtake the
count. Limit 2 lets requests run
together, limit 1, which the next process has, lets them be turned away; keys share nothing in
the limiter but its lock, and `RelaySlotsCounted` is for any number of them. Two tries are the least with a retry (the code's are three). One edit lets the plan be changed or deleted at any
point of a request, and the plans are of both types, on and off, with room and without. Three
turns are the least in which a call is made, answered, and both are told to an upstream that
did neither: the first is the opening, in the second the client answers what it was
asked, and the third sends all of it; the openings, answers and scripts are at least one
for each branch of the conversions, two texts and two calls being the least
that can be lost, swapped or merged. Two administrators' calls are the least that
overlap; two channels the least between which an account moves and a request
chooses; a list of one tick is the least that goes stale. Two callbacks of one
session and two calls are the least that race for it; two refresh tokens the
least of which one is stale; an account that is refreshed while the pool is refreshed
needs a second editor. The history bounds (`MaxCooldowns`, `MaxFaults`,
`MaxCrashes`, `MaxChanges`, `MaxEdits`, `MaxTokens`, `Turns`) cut what would repeat: each
guards only the action it counts.

Symmetry is used for requests, keys, users, callbacks, administrators and
accounts where the definitions treat them alike, and only in runs without liveness.

Deadlock is not checked where the system may come to rest: all requests have left
(`Relay`, `Billing`). Elsewhere every state has a step.

`Setup` has no instance of its own: it is small, its three theorems (in `Users_proofs`) cover every
number of set-ups, restarts and failures, and it shares no state with the others.

### Fairness

- `Pool`: the callbacks of timers run, in the end (`time.AfterFunc`).
- `Relay`: a request in the hands of the gateway goes on: goroutines are scheduled,
  database calls return, a buffered try ends by the timeouts of `bufferedClient`. Nothing
  obliges a client to send or an upstream to go on with a stream: `streamingClient` and
  the server have no timeouts, so `Drains` lets a request wait in three places, by name; and a reservation is
  given back only where no database call failed and the process stayed up.
- `Exchange`: of a stream, the producer takes the steps it can, and a reader that closes does close. Neither the
  client nor the upstream is obliged to anything.

The other runs check safety only.

### Properties the code does not keep

Each of the five is stated from a comment or document, and TLC's counterexample is short:

- `WindowRenewed` ("Reset window if expired", `billing.go:129`): a window that expired once keeps its old
  reset time (`billing.go:152` sets one only if there is none), so every later
  request zeroes it again and the limit no longer limits.
- `TextKept` ("Stage 2: OpenAI SSE -> client format SSE", `streaming.go:99`): what one Gemini line
  becomes is handed to the second conversion as one document, although it may be several;
  a client that does not speak OpenAI loses the first and the last line of a Gemini stream.
- `LastTokenSent` ("Update in-memory state ...", `account_refresh.go:118`): the goroutine
  leaves the refresh token in memory as it was, so the next refresh sends one the provider has replaced.
- `ResultsDelivered` ("Tool result → functionResponse part", `provider/gemini/from_internal.go:26`, for formats that
  convert into each other, `docs/current/platform-design.md:17`): of the results in a message of an Anthropic client one is
  kept (`provider/anthropic/to_internal.go:164`), in a message that stays the user's; Gemini is told its text only,
  the OpenAI formats what a user said. Calls of such a client are never answered at another upstream.

- `OneSubscription` ("Wrap existence check and create in a transaction to prevent race", `user/service.go:458`):
  the transaction locks nothing and no index is unique, so two calls at once both find no subscription and give every key two.

## Proofs

Checked by TLAPS for every value of the constants under the named assumptions of
the modules (finite sets, natural bounds, names that are distinct):

| Module | Theorems |
|---|---|
| `AccountPool_proofs` | `PoolTypeOK`, `PoolTotalIsSum`, `PoolTimerPerCooldown`, `PoolPickAnswers`, `PoolImplementsRotation`, `SharesSpreadByWeight` |
| `Relay_proofs` | `RelayTypeOK`, `RelaySlotsCounted`, `RelayImplementsAdmission`, `RelayClosedOnce` |
| `Quota_proofs` | `BillingTypeOK`, `BillingNeverOvercharged`, `BillingChargedExactly`, `BillingNeverOvercounted`, `BillingCountedExactly`, `QuotaNeverOvercharged`, `QuotaNeverOvercounted`, `QuotaServedBounded` |
| `OAuth_proofs` | `OAuthTypeOK`, `OAuthBoundOnce`, `OAuthRefreshedAlone`, `OAuthRowCurrent` |
| `Users_proofs` | `UsersTypeOK`, `UsersKeysBounded`, `UsersSubscriptionsBounded`, `UsersRedeemedOnce`; `SetupTypeOK`, `SetupSetUpOnce`, `SetupFileKept` (of an instance of `Setup`) |
| `Routing_proofs` | `RoutingTypeOK`, `RoutingPoolsFresh`, `RoutingDeletedRetired`, `RoutingRefusedForCause` |
| `Exchange_proofs` | `ExchangeTypesOK`, `ExchangeInOrder`, `ExchangePiecesKept`, `ExchangeBracketed`, `ExchangeUsageTracked`; of the turns `ExchangeAskedAsMeant`, `ExchangeAnswerKept`, `ExchangeCallsKept`, `ExchangeResultsAnswered` |

`Data_proofs` has the lemmas that these rest on and that speak of no state: what holds of sums and of sequences, and what the
operators of `Conversions` keep of the messages that they read and write.

*Sums.* The pool's total, a key's debt and a user's credit are sums over a set of any size. They
are written as the number of units (`UnitCounts`): a member of value *v* owns the
units 1 to *v*. That an update changes the sum by the difference
(`UnitsOverExcept`) and that a sum is 0 only if all terms are (`UnitsOverNone`) then
follow from facts about finite sets, without induction. Where an induction is needed (a sum that
is compared term by term), `LeastSubset` stands for it: of the finite sets that a formula is false of, there is a least.

*Pool.* `TypeOK`, `TotalIsSum` and `TimerPerCooldown` are inductive together and none
alone: a timer adds the full weight of its account to the total, which is right
only because the account has weight 0 when it fires, and the total is a natural number only
because it is a sum. `PoolImplementsRotation` maps the rotation to the accounts of
positive weight and the cooling ones to those with a timer.

*Spread by weight.* As long as nothing failed, *p* picks into a period an account was picked *s* times and its current
weight is *p* times its weight less *s* times the total (`Share`): how far the account is behind. Together the accounts are owed nothing,
so somebody is owed something unless all are even, and the pick, which goes to the one who is owed most, leaves nobody a whole
pick ahead. That nobody falls further back than (N-1)/2 picks needs more: any *k* of the *N* accounts together are owed at
most *k*(N-*k*)/2 picks, for the one picked is owed no less than each of the others (`OwedOutside`). At the end of a period nobody was
picked more often than its weight, and all together as often, so each exactly as often. The attempt to prove an earlier form, in
which nobody is a whole pick behind either, failed for a good reason: with weights 1, 1, 1, 6, 6 somebody is, which three accounts cannot show.

*Relay.* The invariant adds to `TypeOK` and `SlotsCounted` that an exit holds at
most one release and only a request that is leaving has an exit (`ExitOK`). Most
actions change neither a count nor who holds a slot (`SlotFrame`); the
three that do, admission, the release of an exit and a crash, change both. For
`RelayImplementsAdmission` the invariant also says that a request that has not
reached PreConsume has not asked (`Unasked`); every action is then an
action of `Admission` or a stutter, a crash being its `Stop`. `RelayClosedOnce` counts forwards (`CInv`):
a request that asked and is not done closing has, in what is left of its exit and in its
goroutines together, exactly one operation that closes, and one that has closed, or never
asked, has none. Every exit has one closing operation for a request that asked (`ExitsClose`), and
the books of the other requests do not change (`StillBooks`), so each step is about one request.

*Billing.* The invariant ties, for each request, its place, what it
reserved and how it was closed (`Core`), and says of the meters that they are
at most what the requests owe, and exactly that as long as nobody went without a
reservation or has a negative estimate (`Meters`): the floor of `GREATEST(0, ...)` can only be hit by a request of the latter kind. `Meters` is
claimed while `steady` holds, and nothing more is assumed of the administrator.

*Quota.* A step of `Quota` is one of `Billing` or a restart (`QuotaSteps`), which moves requests to their end and
leaves the books alone, so the two bounds carry over. `ServedBounded` rests on `QInv`. As long as the plan
is not full, the requests that were let through and then denied are at most one less than the
slots for each refund so far, for a refund is what makes room again; once it is full, those denied and those that were
checked before it was (`Pending`) are bounded together, because all of the latter are inside. A
request becomes denied by leaving `Pending`; nothing enters `Pending` while the plan is full, as whoever reads the row sees it.

*OAuth.* Sessions: one that was marked keeps the account it is bound to, also when a late callback sets its
status back, so that a call that looks at it afterwards finds it bound (`Marked`). Refreshes: a request refreshes exactly when the flight of its account is its own, which
gives `RefreshedAlone`. For `RowCurrent`, of accounts that share their grant with no other, the invariant says that whatever is kept of it,
in the pool, in goroutines and in requests, is of its row's grant and has a token already issued (`Behind`), and,
if nothing of it was lost, that at most one newer token is on its way to the row, while which everything that could be refreshed
with is out of date, so that the provider refuses it (`Followed`): this is what keeps a second token from being
issued before the first is written, although nothing orders the goroutines.

*Routing.* Three statements beside the types. A list in use that is good for *left* more ticks holds no channel that was deleted
longer ago than it was loaded (`Retirement`), which gives `DeletedRetired`. A channel that has been ready for longer than that is in
it, and those of them that the request has not tried are still among what it is going to try (`Debts`), so that a request that has nothing left
to try owes none: `RefusedForCause`. For each channel and account, the pool agrees with the rows or a call under way is
still going to set that pool from a reading that is made later, or was made and is still true (`Freshness`); a call that moves an account from a
channel it did not read leaves nothing behind there. When no call is under way this is `PoolsFresh`.

*Exchange.* The conversions are folds, over the lines of a stream and over the parts of a chunk. What a fold computes follows here
without an induction over data: it is the only function that goes from each index to the next as its step does
(`FoldInOrder`, `FoldUnique`, by the least index at which two would differ), so that two ways of computing something, say the pieces of a concatenation and the
concatenation of pieces, agree if they take the same steps (`SameAlong`).
`InOrder` says what is where: delivered, with the reader, in the channel, still with the producer, in this order (`Flow`); until
somebody gives up that is everything produced, and each step moves the border between two places. `TypesOK` needs the types of what an
upstream may say (`ScriptsAssumption`) and that a stream has begun only for a turn whose request asked for one.
For `Bracketed` the invariant (`Blocks`) is that what the client has got is nested, and that until the upstream told its end the one
open block is the one the reverse conversion writes to next: text first, then that of a call, which stays the second for each
further call. `PiecesKept` compares lines with events: a line of each kind and what the first stage makes of it carry the same pieces (`LinePieces`),
and so does the second stage's output, if the first made at most one chunk (`ForwardCarries`), as it does of every upstream but Gemini.
For `UsageTracked`, until the producer gives up it has tracked what the lines read so far reported last, or will have when it has sent
what the last of them became (`Settling`).

*Turns.* What is kept from document to document is a statement about sequences of sequences: messages of pieces, of which
some are picked and rewritten. The lemmas say that to pick, to rewrite and to flatten can be done in one go over the outer
sequence (`Gather`, `GatherTwice`, `ThroughGather`), so that two documents agree if their messages do, one by one. `ExchangeAskedAsMeant` and `ExchangeAnswerKept`
then need the types only: the one goes through what each format calls a choice of tools (`ChoiceKept`), the other through the three readers and three writers of answers
(`ConvertedAnswer`), for any pieces in any number. `CallsKept` is about the whole conversation and needs more: what the client sends holds, in
order, exactly the calls that were said, as its format writes them, only an assistant's message holds calls, and none of these
holds results (`CallsHold`). An answer adds to both sides alike (`AnswerRemembered`), what the client says adds calls to neither. A
request is then read (`CallsRead`) and written (`CallsWritten`) message by message, in which arguments that are no JSON may
become `{}` twice, at a client and at an upstream of Gemini's format. The converters were therefore written with one way to pick (`Where`) and with
cases that exclude each other.

`ResultsAnswered` is about clients of Chat, which answer calls by identifier, and about what precedes what, in the course of
a whole conversation. Its invariant says two things. Of the client (`ResultsHold`): one identifier stands for one
function over all turns (calls are dated by the turn that made them, `CallsDated`), each result stands behind a call with its identifier and has
the text of that call's function, and the results among its messages are those that were said. So all calls of that
identifier before a result, wherever they are, are one function's. Of the request (`RelayedHold`): whatever the upstream's format, it is what is left of the opening, which neither
calls nor gives results (`Mute`), and then one message for each of the client's, read and written on its own (`RelayedByMessage`). The calls
before a result in the request are then those before it at the client (`CallsBeforeAre`),
and the two together give the property (`ResultsToldOf`).

*Users.* A call that has counted and not yet inserted stands for the key it may add, so that the live
keys of a user and the calls that will create one are bounded together (`KeyRoom`); likewise the rows of
a key and the calls that found it without one (`RowRoom`), where keys that are not born yet have no rows
(`Unborn`); two per key is what `OneSubscription` finds. `RedeemedOnce` adds one redemption's units at a time: of the calls
that redeem, no two have one code, as each holds its row, and none has a code that is used.

*Set-up.* Whoever saves holds the lock (`Alone`). A file with an administrator and a secret
is in memory as well, and every call that still waits will find `setupDone` (`Settled`): so nothing opens that file again.

Only model-checked: all liveness (`Drains`, `CooldownEnds`, `ProducerFreed`) and
`ENABLED`, which are out of the prover's reach; `NotStarved`, whose bound has to count what every account
was owed when the rotation changed, over any number of changes, and for which no invariant was found (it was also
checked for four accounts and three cooldowns); and of `Exchange` the single answer made of a stream (`AnswerAgrees`), which compares two computations over the lines of one script
and is checked on those listed, and the words of the turns (`SaidKept`): `CallsHold` has to be extended to
texts, of which every format leaves out others (`Carried`).

## Known limits of the code

What modelling showed beside the violated properties. They bound what the properties above can say, which name them as exceptions. Some
are only not written down anywhere; these contradict `docs/current/platform-design.md`, without a run of their own:

| Line | What it says | What the code does |
|---|---|---|
| 17 | any of the four formats converts into any other | what conversions lose, listed below (`ResultsDelivered` stands for it) |
| 220 | eight converters, to and from the internal form, one of each per format | Responses has none of its own to read requests, and none for answers |
| 230 | a stream of the client's own format is passed on as it is; the usage is read in every format | a Gemini client's is converted twice (`TextKept`); some reports are not read |
| 232 | usage is counted alike whatever the client's format | a stream of an Anthropic client settles 0 tokens |
| 364 | an account whose refresh fails cools down and the next is taken | it does not cool down; choosing a channel goes on with the next channel, and only a buffered request's retries with the next account |
| 379 | the quota of a token based plan is taken from the user's balance | a request moves `used_quota` only (`billing.go:165-167`); the balance is looked at where there is no plan, and never lowered |

In particular:

- After a cooldown `Pick` may choose the account that is cooling down, as its current weight was reset to 0
  while the others may be negative (`pool.go:81`).
- A restart, or a failed refund, leaves a reservation in place for good (`handler.go:337`). `NeverOvercharged` counts what such a request
  would have been settled for, or had reserved, as still owed.
- A negative `max_tokens` is reserved as it is (`handler.go:184-187`): it lowers `used_quota` until the request is closed, and
  raises it for good if the reservation failed or `GREATEST(0, ...)` lifted it to 0 in between. `NeverOvercharged` counts the raise as owed.
- Refund gives back by the plan's type, whether or not this request reserved (`billing.go:244`);
  others' reservations are then given back. The same becomes of a request whose window was zeroed before its refund
  (`billing.go:253`). Windows then count too little, which `NeverOvercounted` allows and `CountedExactly` excludes.
- The refusal of PreConsume's second check is only logged (`handler.go:189`), so requests that passed
  CheckLimit together exceed the limit; `ServedBounded` says by how many, as long as no window runs out and no plan is edited.
- The second conversion of a stream is that of the upstream's adaptor: an Anthropic client of a Gemini channel gets
  Gemini events. Usage is read from what was forwarded, so Anthropic clients settle for 0 tokens, and so
  does a client that leaves before the usage comes. A second tool call starts a block with the index of the first.
  A report without prompt tokens counts only if it is OpenAI's, one on a Gemini line that goes on never.
- A stream made into one answer drops text beside calls and has calls without a name for gaps of indices, as Anthropic's texts leave them. Gemini's
  calls are numbered from 0 on every line (`gemini/streaming.go:107`), so that those of several lines are merged into one with the last name and
  the arguments of all (`stream_converter.go:96-108`); a part that repeats a name, even an empty one, replaces the call's.
  `AnswerAgrees` names such streams (`Confuses`).
- An OpenAI upstream's own `[DONE]` is forwarded besides the gateway's.
- `streamingClient` has no timeout: an upstream that stalls keeps the slot of its key.
- Requests that are converted: a client of Responses is read as one of Chat, so that its `input`,
  `instructions` and limit are lost at any other upstream. Gemini gets the last system message only, Anthropic the first text of what
  an assistant said, Responses the first text of each system message, and neither stop words nor a chosen
  function; a developer is a user at Anthropic and Gemini. Images of Gemini clients are not read. Of an Anthropic client's only the url is
  (`anthropic/to_internal.go:191-199`): one that is in the message itself is lost at Gemini and a part without a url at the OpenAI formats. Gemini is
  told images as parts named `image_url`. A text beside
  results is lost unless it goes from Anthropic to Gemini, and there the result is. The content of a result that a Chat client
  lists in parts becomes empty. Results get to Gemini without the name of their function, and Gemini's calls get new
  identifiers every time they are read. Arguments that are no JSON, which an OpenAI upstream may have written, make every further turn at Anthropic fail with
  400, and are `{}` at Gemini.
- The stream asked for: a client of Gemini that wants a stream from another upstream, and a Gemini channel that is
  forced to stream, are asked without it; the answer is then one the stream reader may take for empty, as
  it does a forced stream of Responses.
- Answers that are converted: there is no converter from or to Responses; an answer whose conversion fails is passed on in the upstream's
  format, already settled. Chat clients get an empty role from Anthropic and Gemini. A filtered answer ends as a whole one at Anthropic clients.
- A refresh of a pool forgets its cooldowns; one whose read fails installs an empty pool until the next;
  two at once may install the older reading. An account may be created for a deleted channel, whose pool
  comes back. If the list of channels cannot be loaded, the old one is not used. A lazy deletion of an affinity
  may drop one that was just set.
- Two binds of one session at once create two accounts with one refresh token. A late callback that
  fails turns a completed session into an error. A token that is rotated and not saved before a restart is lost. The goroutine of
  a refresh writes two fields of an object that requests read without a lock.
- Two calls at once exceed the maximum of keys; a key created after
  Subscribe has none. Users that are disabled or deleted keep their sessions, and deleted ones their keys (the relay refuses their requests).
- A set-up that cannot save leaves an administrator in memory who can log in, to whom every further set-up yields with 403, and who is
  gone after a restart (`handler.go:202-210`). `os.WriteFile` empties the file first, so that a crash or a full disk in a set-up,
  or in a start that adds secrets, loses the encryption key of the accounts' credentials and the address of the database.

## Not modelled

- Logins, encryption and signatures: pure functions of what is stored.
- In requests: the declarations of tools, model names and mappings, sampling options, schemas, the JSON itself; in streams the list form of a
  Gemini line and the usage of the Responses API. None of it changes what the gateway does next.
- URLs and headers of the upstreams, price lists and units.
- Logs, audit and dashboard beyond whether a request has a row; listings and plain edits of single rows.
- Creation of codes and plans by administrators; weights and the stored cooldowns of a refreshed pool.
- The web console, a client of the HTTP API that keeps no state the gateway depends on.

`PROJECT.json` has them under "components".

## Plan

Done: all modules and theorems above, in this order: the pool, relay, billing, streaming, routing, credentials,
OAuth, users, quota, conversions, conversations and exchanges, set-up.

Left, in order:

1. a theorem about the words in the requests of `Conversation`, as there are about its calls and results;
2. an abstract specification of a stream (a queue from producer to client) that `Streaming`
   implements, and one of the credentials (one current token per grant);
3. `Routing` with two requests at a time on a smaller database, and affinities of several keys;
4. conversations that go on after a stream, for which streams and answers need one notion of a piece;
5. the declarations of tools, which the converters translate and a later call must fit.
