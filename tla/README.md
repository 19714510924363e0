# SSP Relay in TLA+

TLA+ models of SSP Relay, the server through which an SSP Wallet (browser
extension) and an SSP Key (phone) of one *wallet-key identity* exchange
synchronisation data and signing requests. TLC checks the models on small
instances; TLAPS proves the main properties for every value of the constants.
`PROJECT.json` lists the components, the runs, the mutants that show a property
can fail, the source lines behind every definition, the hazards and the
theorems. Paths below are relative to the repository.

To check a run: `tlc -config MCSyncStore.cfg MCSyncStore`. To check the proofs:
`tlapm SyncServiceProofs.tla`.

## The system

One Node.js process (Express, two Socket.IO servers, a MongoDB client). JavaScript
runs a handler without interruption from one `await` to the next; handlers
interleave at their awaits. State in memory is lost with the process, the
database survives it. The enterprise module is not in the repository; the relay
works with it and without it.

| Component | State | Operations | Hard behaviour | What makes it correct |
|---|---|---|---|---|
| Action relay: `src/apiServices/actionApi.ts`, `src/services/actionService.ts`, `src/lib/socket.ts`, `src/services/socketService.ts` | collection `v1action` (one action per identity, 15 min), rooms of the sockets | `POST /v1/action`, socket `join`, `leave`, disconnect, TTL, `GET /v1/action` | a post races a join; two posts race; the process dies between storing and emitting; upsert on an index that is not unique | a key in the room never misses the stored request; nobody gets what was not posted to a room it was let into |
| Push tokens: `src/services/syncService.ts` (`postToken`, `getTokens`, `deleteToken`), `src/services/notificationService.ts` | collection `v1token` | `POST /v1/token`, end of `POST /v1/sync`, push on `POST /v1/action` | five separate commands per registration; clean-up after an answer of the push service | one identity per token, a limit per identity, the clean-up removes what is dead |
| Signed requests: `src/lib/identityAuth.ts`, `src/middleware/authMiddleware.ts` | nonce cache in memory | verify and spend, clean-up by timer and by size | retries, skewed clocks, boundaries of two windows, restart | a request is accepted once, and one not accepted is not refused as a repetition; across restarts a repetition is bounded in time |
| Synchronisations: `src/apiServices/syncApi.ts`, `src/services/syncService.ts` | collection `v1sync` (15 min) | `POST /v1/sync`, `GET /v1/sync`, TTL | racing first syncs, merged documents, dates computed before the write | a read after an answered sync is not older than it |
| Recovery keys: `src/apiServices/recoveryPubApi.ts`, `src/services/recoveryPubService.ts` | collection `v1recoverypub`, unique index, no expiry | post, get | racing upserts meet the unique index; an upsert that is applied after its client was told 408 | an answered key is not undone by an older request |
| Solana paymaster: `src/services/solPaymasterService.ts` | cached key pair, accounts on chain | setup, broadcast, split transactions, nonce pool | confirmation that times out after the transaction landed; racing setups and nonce choices; partial provisioning | what a caller is told (done, landed, executed, exhausted) is true of the chain; pool accounts are not handed out twice |
| Network fees, rates: `src/services/networkFeesService.ts`, `src/services/ratesService.ts` | lists in memory | refresh loops, reads | sources that fail one by one, or hang; readers before the first list | no value outlives its round or goes back; a waiting reader is answered |
| Forms: `src/apiServices/contactApi.ts`, `ticketsApi.ts` | counter per address | submit, daily reset | the counter is raised before the await, eviction comes only after a success | ten submissions per address and day, and ten more only when others drop its entry; a bounded table |
| Lifecycle: `index.ts`, `src/lib/shutdown.ts`, `src/lib/errorHandler.ts`, `src/services/databaseIndexCreationService.ts` | dependencies, `isShuttingDown`, indexes | start, signals, unhandled rejections, request timeout | 408 while the handler goes on; closing order; an index that cannot be created | a shutdown ends, and not before the requests it owes an answer |
| Routes, limiters, API keys, enterprise API: `src/routes.ts`, `src/lib/server.ts`, `src/middleware/apiKeyAuth.ts`, `src/apiServices/enterpriseApi.ts`, `src/services/enterpriseHooks.ts` | counters of the limiters, the loaded module | dispatch, count, check a key, call a hook | 261 routes in order; a key revoked during its check; fixed windows | each route reached; a key's scope; one client's budget untouched by another |
| Others | none or data | decoder, token tables, logging, backup | - | - |

Interactions: `POST /v1/sync` ends by calling `postToken`; `POST /v1/action`
stores, emits to the rooms of one socket server and, for the key, awaits the
push notification, which reads and cleans `v1token`; a key's `join` reads
`v1action`; both HTTP posts and joins consult the nonce cache. Every HTTP request passes
the timeout, the limiters and the route table; a shutdown waits for connections of
both kinds. Every collection
is written by `$set` upserts.

## The modules

### ActionRelay (core)

`post[p]` is the handler of one `POST /v1/action` with its phase, `join[j]` the
handler of one `join` event, `store[w]` the documents of identity `w` (a document
is the post whose fields it holds; the optional `utxos` are not told apart),
`room[d]` the rooms of a device's connection. One action per await boundary:

| Code | Actions |
|---|---|
| validation up to the upsert (`actionApi.ts` 75-263) | `Submit` |
| the upsert (`actionService.ts` 36-60) | `WriteUpdate`; `WriteMiss` then `WriteInsert` (the index is not unique, so two may insert) |
| the await throws (`actionApi.ts` 314-317), after the write or while it is under way (`lost`: applied at any later time, or never) | `WriteFails` |
| emit to the key or the wallet room (269-311) | `Emit` |
| the push is over, 200 (284-313) | `Answer` |
| `join` (`socket.ts` 97-149, 207-254): room first, then the read | `KeyJoin`, `WalletJoin`, `JoinRefused`, `ReadFound`, `ReadNothing`, `ReadFails`, `Replay` |
| `leave`, lost connection | `Leave`, `Disconnect` |
| TTL index | `Expire` |
| end and start of the process | `Crash`, `Restart` |

`received` and `forked` are history: no action reads them. Two constants of the
program are modelled as they are, the lists of actions: the post's list
(`KeyActions`) has `enterprisekeynoncesync`, the join's list (`ReplayedActions`)
has not, so a key that was offline is not sent that one. No comment says they are to
agree; `NoMissedAction` is stated for the join's list.

*Safety.* `NoMissedAction`: a key in the room of `w` has got the stored action,
or its join is about to send it, unless its read failed or the identity once had two
documents. It rests on two orders in the code: `socket.join` before the read,
the write before the emit. `DeliveryJustified`: whatever a device got was in the
database before, is of its kind, and a join of the device to that room was
accepted.

*Liveness*, under weak fairness of the steps of a post whose upsert is not lost, a join's steps and the
restart. Justification: the driver and the push client answer or time out, the
event loop resumes every handler, a supervisor restarts the process. Clients,
the TTL monitor and crashes are under no obligation. `StoredActionReachesKey`: what is
stored reaches a key that joins and stays, even if the process died between write
and emit.

*Refinement.* `ActionMailbox` says what the relay promises from outside: an identity has
a mailbox into which a post is put at most once, in place of at most one other, and a
delivery goes to all devices of one kind that listen on the identity at that moment, of
something that was put for it. `ImplementsMailbox` is its specification under the mapping
box = `store`, listening = `room`, got = `received`, owner = `OwnerOf` (whom a written
post was for). Phases, reads, answers and the process are stutters; a crash is an
`Interrupt`. So a replay of something read long ago is still a delivery of something put for that
identity, and an emit never precedes its write.

A command outlives its handler: after a throw or a death of the process the upsert may be applied at any
later time, also in the time of the next process (then `unconfirmed`: nobody is told, and `NoMissedAction` does not
speak of it; a later join replays it). Assumption: a document's age is not modelled (`Expire` at any time).

### PushTokens

`records` is `v1token`, a function from the `_id`s of its documents (two records may be equal, as
those without a token are); `reg[r]` and `send[n]` are
running registrations and notifications, one action per database command. A command that takes one of
several documents takes any of them, and a find returns its documents in any order: no query sorts.
A registration keeps its slot until its last command is applied or never will be: one that was given up on
while its upsert was under way still counts as running, in `raced` and in `QuotaOverrun`. A deletion whose await threw
is applied at once or never; a late one could only take records away, which breaks none of the properties but would have
to be added for one that promises a record.
`MessageOf` is the numbering of the responses: the filtered list's, with which the clean-up looks into the
unfiltered one.
`OneRecordPerToken` holds for a token whose registrations never overlapped; two
that overlap can leave two records, against the comment "a token can be
associated ONLY with one wkIdentity" (`syncService.ts:119`), until the next
registration removes them. `QuotaOverrun` bounds the overrun of the limit by the number of
racing registrations; `TokenTypeOK` says, beyond types, that the number of a response is
that of a record that was read; `CleanUpStaysHome` says a clean-up never removes the
record of a token that moved to another identity in the meantime. A sync without a token
stores a record without one (the comment at line 150, "sync ALWAYS has a keyToken
OR a walletToken", does not hold for it); these records are what the first
finding below needs: without them a clean-up removes dead tokens only (`CleanUpsRemoveDeadIfTokens`). Divergence: the comment at
`syncService.ts:164` allows no more than 100 records, the check (`> 100`, before the insert) lets one
registration alone make it 101; `QuotaOverrun` states the bound the code keeps.

### IdentityAuth

Time in units; a request has a nonce, the client's time and perhaps a hash of its body; a
delivered copy is `intact`, `altered` (another body) or `foreign` (identity, key
or signature do not verify). The middleware has no await, so a delivery is one
step: `Accept`, `RefuseBody` or `Refuse`. `CleanUp` is the interval, `Spent`
includes the clean-up by size. `AcceptedOnce` is the guarantee the cache really
gives: within one process, for a request not accepted ahead of its own timestamp,
because an entry lives TTL from the acceptance and the window runs from
the timestamp. It is exact: with `<=` for `<` in the clean-up TLC finds a
repetition. A restart empties the cache; `RepetitionsEnd` says what is left of the guarantee then: whatever the
restarts, a nonce is not spent again later than two windows after its first acceptance (`first`, which
restarts keep), one if that was not ahead of the timestamp. It rests on the check of the drift both
ways: without the one against the future TLC finds a later repetition. Assumptions: the clock does not go backwards, a due timer runs before
the clock moves on (only `CacheForgets` needs it). Divergences: the comment above
`validateSignaturePayload`'s check says five minutes, the constant is ten; the comment at
`identityAuth.ts:247` says failed attempts leave a nonce usable, but the hash of the body is
compared (`authMiddleware.ts:257`) after the nonce was spent, which is the exception in `RetryNotSpent`.

### UpsertStore (abstract)

What the upserts of synchronisations and recovery keys promise alike, seen from outside: a request asks to be stored for an
identity (`Ask`); it is stored in one step, once, in place of at most one other of that identity (`Put`), some time later,
perhaps when nobody waits any more, perhaps never; its sender is told so only after that (`Confirm`). A sealed store
(`Seal`, the unique index) keeps one request per identity; `Expire` is the TTL index. Matches, inserts, retries, timeouts,
shutdowns and processes are not visible. `ImplementsUpserts` states it of both modules:

| UpsertStore | SyncStore | RelayProcess |
|---|---|---|
| `shelf` | the posts whose mandatory fields a document holds (`main`) | `docs` |
| `asked` | the identity of a received post | `wk` of a received request |
| `done` | `Applied`: phases written, answered, failed | `StoredKeys`: phases written and over |
| `confirmed` | answered | answered 200 (a handler that finishes after its 408 confirms nothing) |
| `sealed` | never: the index is not unique | `unique` |
| `Expiring` | yes | no: a recovery key goes only for a newer one |

### SyncStore

A value in a document is the post it came with; `main` stands for the fields every
update sets, `opt` for those only set if sent. The date is computed at
`Receive`, before the write. `NoStaleSync`: a document of an identity holds nothing
that was over before an answered sync came (for each optional field: an answered sync
that sent it), unless racing first syncs left two documents. `KeptUntilExpiry`: a
stored sync can be found until TTL, unless one that overlapped it wrote an
earlier date. `FieldsBelong`: identities never mix. `Fail` stands for an error
before the write (then the phase is `dropped`) or after it (`failed`) and for the end of the process; `LoseTrack` is the same while the upsert
is still under way, to be applied at any later time, over newer syncs, or never. A failed sync may therefore
come late but not back: only what is over *and* settled at the database counts in `before`. Divergence: `config/default.ts:20`
gives a sync 15 minutes, but `$set` keeps optional fields of an earlier sync and dates them anew, so they live on
and mix with those of another chain; `FieldsBelong` and `NoStaleSync` are stated for that.

### SolPaymaster

`job[j]` is one call's handler with its phase and the locals that survive an await:
what setup's two reads saw, the transaction's effects and its target, the
block hash or nonce it is anchored to. All calls end in the same awaits, so
the module has one set of actions for them:

| Code (`solPaymasterService.ts`) | Actions |
|---|---|
| `setupSolMultisig`: two reads, balance gate, instructions, re-read | `StartSetup`, `ReadMultisig`, `ReadNonce`, `FindProvisioned`, `RefuseSetup`, `BuildSetup`, `Reread` |
| `createPoolNonce`: the loop over the seeds | `StartPool`, `Probe` |
| `submitSplitTx`, `broadcastWithPaymaster`, `signAndSubmitSetupTx` up to the signature, with the allow-lists and floors | `StartSplit`, `StartBroadcast`, `StartSubmitSetup` |
| block hash, `partialSign`; `sendRawTransaction`; `confirmTransaction` and `value.err` | `Sign`; `Send`, `PreflightExecuted`; `Confirm` |
| any await throws | `Throw` |

The chain is external: `Execute`, `FailOnChain`, `Drop` (an accepted transaction that
is in no block), `NextSlot`, `ThirdPartyExecutes`. Instructions run on the conditions
the program relies on (an account that exists is not created again, only an
approved, open proposal is executed). A transaction is what it does, to what, and its anchor: its
signature is a function of these, so two calls that build equal transactions
in one block send one and both are told of its success. That is why
`NonceSharedOnlyInOneBlock` is the best that holds of the nonce pool: the "fresh" account of the comment at line
1188 is handed to two calls that probe and sign within one block, for nothing reserves the index between line 1217 and the inclusion.

*Safety.* `PoolHasNoGap`: the pool is filled from below, however calls race and
whichever transactions are lost, so that looking for the lowest free index is sound and
"exhausted" is true. `SuccessHasLanded`, `SetupIsComplete`, `ExecutedIsExecuted`: each answer is
true of the chain.

Abstracted: amounts beyond the floors, the balance gate and the floor for a token account (either
outcome at any time), seeds and addresses, the message of an error. Assumed: the
instructions inside a proposal do not fail with the number that stands for
`AlreadyExecuted`. `checkAtaExists`, `getPoolNonceValue` and the banner only read.

### RelayProcess

The process from its start to its end, and the requests for recovery keys it serves
meanwhile. `proc` is how far `startServer` is, `closing` what `gracefulShutdown`
awaits, `req[r]` a request: how far its connection and its command are (`phase`), its handler, its answer and
the ticks left of its 30 s timer. A command outlives a handler whose await threw or that was killed with its process: the
database applies it at any later time, also in the next process, or never. Timers follow Node.js: a due timer runs before the clock goes on, and of two
equal durations the one set first.

| Code | Actions |
|---|---|
| `index.ts` 24-77, `doIndexes` | `Connected`, `ConnectFails`, `IndexesCreated`, `IndexesFail`, `Serve`, `Restart` |
| `shutdown.ts` | `Signal`, `SignalAtStart`, `Shutdown`; `HttpClosed`, `SocketsClosed`, `DatabaseClosed`, `ForcedExit`, `Exit` |
| `POST /v1/recoverypub` | `Open`, `Receive`, `WriteUpdate`, `WriteMiss`, `WriteInsert`, `WriteRetry`, `Answer`, `Fail`, `Finish` |
| `timeoutHandler` | `TimeOut`, `Tick` |
| sockets | `Connect`, `Leave` |

`KeyNotUndone`: the document found is never of a request that was confirmed, or of which nothing was left at the
database, before a newer, confirmed one came in. So the key of a request that failed or was answered 408 may come late, over a newer
one, but a key that was written over does not come back. `UnaskedShutdown`: when a handler finishes after its 408, `res.json` throws, the
catch block's `res.sendStatus` throws again, the route dropped the promise, and the `unhandledRejection` handler
shuts the process down: the invariant says this is the only way a request ends the
process. `NoRequestAbandoned`: every end of a shutdown comes after the answers of all requests that
came in before it began: 30 s of request timeout fit into the 30 s of the shutdown only because
of the order of the timers. It has two exemptions the code has: a request over a connection that was
open already, if the end is forced, and a shutdown that began before the HTTP server was registered,
which then goes on accepting connections that are never waited for. `OnePerIdentity`: without
the unique index `doIndexes` never comes to the enterprise module.

*Fairness*: the clock, due timeouts and the shutdown's timer; nothing of the database, handlers, servers or
clients. `ShutdownEnds` and `EveryRequestAnswered` hold although all of those may hang, as with a
Socket.IO client that stays connected.

### RouteTable, Gateway

`RouteTable` is the 258 routes of `routes.ts` and the three of `server.ts`, in their order, with
their middleware and scopes, and Express's rule that the first match gets the
request. `TableSound` (asked before any request comes in, the table being constant) says that each route is reached by
its own path (the order of `reorder`, `test`, `search`, ... against `:ruleId`, `:vaultId`, ...)
and that every route of the customer API has the address limiter, `apiKeyAuth` and
the key limiter in this order, write scopes and the write limiter exactly where it changes something.

`Gateway` takes requests through the table: `Count` is express-rate-limit with its store in
memory, `Present`, `LookUp`, `CheckFails` are `apiKeyAuth` around its await, `Verify` is
`requireAuth`, `Handle` and `Answer` the handler with its question for the enterprise module.
`module` is what `enterpriseHooks.init` found. Middleware without an await runs in one go (`Quiet`). `KeyJustified`: a
customer handler runs only for a key valid when the request came in, with the route's scope; a key revoked
while it is looked up or later still gets its answer. `FairRefusal`: a 429 comes after a full budget of the
same key, address or session within one window. `BurstBounded`: in any span of a window's
length fewer than two budgets get through. Divergences: the comment at `routes.ts:112` promises "60/min sustained
with a 120 burst" of a token bucket; the limiter is a fixed window of 120 per minute, so 120 per minute are sustained
and 239 may come in one minute. The comment at `routes.ts:640` speaks of one write route; there are many.

### Feeds

One loop for fees (`StartRound`, `ObtainBitcoin1` to `ObtainEvm`, `Publish`), one for rates
(`FetchFiat`, `FetchCrypto`, `Rearm`), a request that polls for a first list (`Ask`, `Poll`). A value is the round that
fetched it and whether it is a number. `FeesFresh`: a fee is of the round that made the list, for btc and
ltc of the last round that asked for them, so no failure brings an old fee back. `RatesForward`: the
timer is set only when a round is over, so no late answer puts older rates over newer ones. `FeesAnswered`,
under fairness of the polling timer alone: a request gets a list or a 503 although sources, which have no
time limit, may hang for ever (and then stop their loop). Not a property, but visible in the model (`sound`): an
answer without the numbers asked for makes NaN, which is served as null, and for btc `Math.max` makes NaN
of the good source's number too, against the comment "Use available values" in `obtainBitcoinFees`.

### Forms

`count[f]` and `order[f]` are a form's Map with its insertion order; `Submit` counts and then waits, `Sent` evicts one
entry at the limit, `Failed` none, `Clear` is the daily reset. Each submission has two histories that a reset clears: whether it was
counted (`today`) and whose entry its success dropped (`dropped`). Divergence: the comment "max 10 submissions per IP per 24 hours"
(`contactApi.ts:71`) does not hold as it stands. An entry that is dropped takes its counter with it (`contactApi.ts:90`,
`ticketsApi.ts:100`), also one at the limit, and its address starts from zero before the reset. `AcceptedBounded` is what is true: between two resets an address gets the limit through, and as much again for each time a success of *another*
address dropped its entry at a full table. `TableBounded` is what is true of "prevent unbounded memory growth": the
table exceeds its limit by no more than the submissions since the last reset that dropped nothing (`Undropped`). These are the ones under
way, those that failed, so that with a mail server that is down the table grows until the reset, and those that
were sent but did not evict (phase `kept`): the code deletes the oldest entry only if its address is another than the
sender's and not empty (`firstKey && firstKey !== ip`), so an address whose own entry is the oldest, or an
empty address (`Blank`) at the head of the table, lets it grow. A Freshdesk error that reads an undefined answer counts as a success
(`ticketService.ts:37`).

## Runs

| Run | Instance and bounds | Shows |
|---|---|---|
| `relay_safety` | 2 identities, 2 keys, 1 wallet, 2 posts, 2 joins, 1 crash, actions `tx`, `txid` | `NoMissedAction`, `DeliveryJustified`, the refinement `ImplementsMailbox` |
| `relay_liveness` | 1 identity, 1 key, 2 posts, 2 joins, 1 crash, actions `tx` and one nobody listens to | `StoredActionReachesKey` |
| `tokens` | 2 identities, 2 tokens, 2 registrars, 1 notifier, a small limit | the four properties of PushTokens |
| `tokens_cleanup` | the same | the finding on tokens |
| `auth` | 2 nonces, window = TTL = 3, clocks off by up to 4, cache of 1, time to 8, 1 restart | the nonce cache, and what a restart leaves of it (`RepetitionsEnd`) |
| `sync` | 2 identities, 3 posts, 1 optional field, TTL 1, monitor every 1, time to 3 | the properties of SyncStore, the refinement `ImplementsUpserts` |
| `paymaster` | 2 calls of any kind, 1 vault, 1 proposal, pool of 2, 2 blocks, 6 instruction lists | the answers of SolPaymaster and its pool |
| `paymaster_landed` | the same | the finding on the paymaster |
| `lifecycle` | 2 requests, 1 identity, 1 socket client, both timeouts 1 tick, 1 restart | start, requests, shutdown, the refinement `ImplementsUpserts` |
| `customer_api` | the whole table; 3 requests of 5 kinds, 2 keys, 1 address, limits of 1 and 2, windows of 1 and 2, time to 3 | dispatch, keys, limiters |
| `feeds` | 2 EVM coins, btc and ltc every second round, 1 constant coin, rounds 0 to 3, 2 rounds of rates, 1 request | fees and rates |
| `forms` | 4 contact submissions, 1 ticket, 3 addresses, 2 per address, one of them empty, room for 1 entry | counters and tables |

Why these bounds: a race needs two posts (or registrations) and one reader; a
third sync is needed to write over a pair that raced; two joins let a device leave and
come back or two devices meet; window and TTL of 3 let both boundaries, two timer periods
and a clean-up by size between timers occur; two calls race for a vault, a proposal or an index, the
second block tells a retry from an equal transaction, and a pool of two can be empty, half full and full.
Two requests for one identity make every overlap of upserts, timeouts and shutdown; equal timeouts of one
tick are the worst case of the real 30 s against 30 s, and one restart finds the duplicates of the process before
it. Three requests fill a budget of one or two and meet the one that is refused, on both sides of a window's
end. Rounds 0 to 3 hold two rounds that ask for btc and one after each. Four submissions outgrow a table of one entry
by being under way at once, by failing and by finding their own or the empty entry the oldest. Two registrations of a token or of an
identity overlap at every command, with the clean-up of a notification that has read up to four records in any order. Requests, and addresses of the forms, are
symmetric; no run with symmetry checks liveness. All bounds (`MaxCrashes`, `MaxStarts`, `MaxSends`,
`MaxTime`, `MaxRestarts`, `Skew`, `MaxSlot`, `MaxRound`, `MaxTries`) are named constants used in guards. Deadlock is not
checked: every behaviour may end when the bounds are used up.

## Findings

1. `notificationService.ts:116` removes `syncs[index]` where `index` counts the
   filtered `validTokens`: behind a record without a token the wrong record goes
   (`tokens_cleanup`).
2. `solPaymasterService.ts:1150` catches what `confirmTransaction` throws too: a
   transaction that has landed is reported as "demonstrably never landed" when
   confirming it timed out (`paymaster_landed`).

Further places where code and comments differ are named with their modules above; there the
properties state what the code keeps.

## Proofs

Each proof module has an inductive invariant (`IInv`, unless named below), lemmas that each show one part of it
kept, and a theorem per property. Type correctness (`TypeCorrectness`) is a theorem of ActionRelay, IdentityAuth,
SyncStore, PushTokens (`TokenTypeCorrectness`), SolPaymaster, RelayProcess and Gateway; where the runs leave it out the proof alone
shows it, for every value of the constants. Every safety property the runs check is a
theorem but one, `TableSound` (see below).

* `ActionRelayProofs`: `IInv` adds to the two safety properties where documents and
  reads come from (`StoreJustified`, `ReadJustified`), that an identity without a race has one
  document (`OneDocument`: without it an update could leave an older
  document that a join reads), why a device is in a room (`RoomJustified`), and that a dead process
  has no handlers and no connections (`DeadIsQuiet`). `RelayIsMailbox` is the refinement: under the
  invariant every step is a step of `ActionMailbox` or leaves it alone.
* `IdentityAuthProofs`: `AcceptedOnce` follows from `WindowCovered`: while the
  timestamp of an accepted request is in the window its nonce is in the cache with a time not
  before the timestamp. The only assumption on the constants beyond their
  types is `TTL >= Window`. `TimerAhead` gives `CacheForgets`; `RepetitionsEnd` follows from
  `FirstInWindow` and the drift check of the later delivery, with no word about the cache.
* `SyncServiceProofs`, on SyncStore: `NoStaleSync` needs `BeforeOver` (what was over when a sync came
  writes no more; a lost upsert is not over) and `OneDocument`; `KeptUntilExpiry` needs `OverlapRecorded` (a later
  write of a post that overlapped nothing has a later date). `SyncsAreUpserts` is the refinement of `UpsertStore`: every application of an upsert
  replaces at most one document of the identity (`UpsertWrites`) by one that holds the post, which needs that a post is in one
  document at most and in none before it is applied (`WrittenOnce`: else an update would take away a second one with it), and that a post that was not
  received has no identity yet (`UnsentIsNew`).
* `SyncServiceProofs`, on PushTokens (`TokenInv`): a step only takes records away (`OnlyTakes`) or puts one for a
  registration that ends (`Puts`). `OneRecordPerToken` needs that a token that never raced has one registration
  (`OneRegistration`) and no record while that one is between the upsert that found none and its insert (`NoneFound`).
  `QuotaOverrun` is not inductive: `QuotaReserved` counts the registrations past the check (`PastCheck`) with the records, and a
  registration gets past it only when the records are within the limit. `CleanUpStaysHome` needs
  `ReadOfIdentity`. `CleanUpsRemoveDeadIfTokens` gives the first finding its cause: under the assumption that no record ever
  lacks a token, `MessageOf` is the identity (`MessageOfRecord`), and every doomed record has a dead token.
* `SolPaymasterProofs`: a handler's step changes one call's record and nothing of the
  chain, a chain step only adds accounts, executions and landed transactions. So
  the invariant is split (`Parts`) into `Good`, about one record, and `ChainGood`, and each
  lemma shows one of them kept. The strengthening says that what a handler saw still
  holds, that a transaction for the pool was built over a filled prefix (`WellFormed`), and that at most
  one executed transaction created each account (`ChainConsistent`).
* `RelayProcessProofs`: `StepMoves` lists all that a step may do to a request, `StepProcessMoves` all that it may
  do to the process; each lemma combines the two. `NoRequestAbandoned` needs `ServingOnly` (a start has no handlers, so one
  that fails abandons none), `HttpQuiet` (what the HTTP server waited for is over) and `TimersOrdered` (a request that
  was there when the shutdown began has no more time left than the shutdown; here `RequestTimeout <= ShutdownTimeout`, which
  is 30 s on both sides in the code, enters). `KeyNotUndone` needs `AppliedKept`, which says the same from the moment
  the database applied the newer request, `BeforeOver` (what was confirmed or over when a request came in has no command left to
  bring it back) and `DocsApplied` (a request that still writes has no document, so an update never
  takes the second of two documents away). `KeysAreUpserts` is the refinement of `UpsertStore`: what the abstract store sees of a request
  changes in four kinds of steps only (`OneUnseen`, `StepUnseen`: it is received, written, answered, or the step is not seen), and the unique index
  can be created only over documents that differ in their identity, which is what sealing asks.
* `GatewayProofs`: for every table of routes. `KeysJustified` has the hypothesis
  `CustomerRoutesGuarded`, which TLC evaluates for the table of the program as a part of `TableSound`. The invariant follows a request through its
  chain: what the key check has established holds from then on. The limiters (`BudgetInv`) need no hypothesis on
  the customer routes, only that no route passes a limiter twice (`ChainAssumption`). `WindowsExact` ties the counter of every client's
  window to the requests that were let through: the window began with one of them, it counted exactly those since, and
  less than one budget went through in the window's length before it. From these `RefusalsFair` (a counter at its limit is a budget let
  through within the window) and `SpansBounded` (a span meets at most two windows, and not all of both:
  `SpanOfTwo`) follow, for any number of requests, clients, limits and windows. `CountedBehind` (a limiter that counted a request
  is behind it) keeps a request from being counted twice.
* `FormsProofs`: `DayAccounted` says that what an address got through since the reset is on its counter, but for one full
  counter at most for each success of another that dropped its entry (`Droppers`): a counter is lost in no other way, which
  needs that a submission under way has dropped nothing yet. `TableAccounted` says that the submissions that dropped nothing are finitely many and account for the table's excess: an entry that
  comes in is that of a submission under way, and one that ends without dropping stays accounted for.
* `FeedsProofs`: `FeesInv` ties the loop's place to the round (`RoundOf`) and the round's list to it (`FoundFresh`); `Refreshes` is
  the arithmetic of the period: a round that does not refresh has the last refresh of the round before. `RatesInv` says that one
  fetch at most is under way, of the round begun last.

Assumed about constants: `None` is no post, identity, device or kind of call, and no answer, cause or exit code; clients' instruction lists set up no vault and
create no account of the pool; a request that is offered carries a known bearer, or none, and a known vault; keys and wallets are different
devices; the table of routes is a sequence of records of its fields, none of which has a limiter twice; addresses and API keys
are counted apart; there are finitely many registrars, and no insert lacks an `_id`; a coin is fetched one way; the bounds are natural numbers.

Model-checked only:

* liveness (`StoredActionReachesKey`, `ShutdownEnds`, `EveryRequestAnswered`, `FeesAnswered`), out of the prover's reach;
* `TableSound`, a fact about the 261 rows of the table that TLC evaluates; the provers do not
  take a constant of that size made of strings; what follows from its second half for the
  handlers is `KeysJustified`;
* `CleanUpRemovesDead` and `ErrorNeverLanded`, which are false (see the findings).

## Not modelled

* `wkSignValidation.ts`: a pure check of shape and dates; a post is valid or is not
  received.
* The transaction decoder: third-party parsing of byte formats for the text of a notification.
* Token tables, chain tables, on-ramp: data and single calls without state.
* The circuit breaker of `errorHandler.ts`: nothing calls it.
* The enterprise module itself: it is not in the repository.
* Logging, the backup script, the build and its vendored package manager: no state of the relay.
