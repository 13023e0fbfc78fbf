# A TLA+ development of the Armada relayer

This directory specifies the relayer of `relayer-v2/` - the *actor*, which
carries CCTP messages and privacy transactions onto destination chains, and the
*watcher*, which indexes events and serves them - and says what TLC and TLAPS
establish about it. Paths below are relative to `src/` of the repository;
"spec" is `src/specs/RELAYER_V2.md`.

Run a configuration with `tlc -workers 2 -config <run>.cfg <module>`, check a
proof with `tlapm <module>.tla`.

## 1. The system

```
   source chains          destination chains            clients
        |                      ^      ^                    |
        v                      |      |                    v
     watcher --- index --> actor: jobs, relay API  <--- POST /relay, GET /fees,
  (Ponder, read API)           |      |                 GET /status, /cctp/delivered
        |                      v      v
        v                   Postgres (actor.*)
   GET /v1/..., /v2/...
```

| component | state it keeps | operations | talks to |
|---|---|---|---|
| job pipeline (`actor/src/jobs/state-machine.ts`, `db/jobs-repo.ts`, `main.ts`) | rows of `actor.cctp_jobs`; in memory only what a running tick holds | one `setInterval` tick: discover, detected, awaiting, attested, submitted, scan | Postgres, Iris, destination RPC, nonce stream |
| nonce streams (`wallet/nonce-coordinator.ts`, `wallet-manager.ts`) | per chain: `next`, a promise queue | `withNonce`, `reset` | destination RPC; called by pipeline and relay API |
| relay API (`http/server.ts`, `relay/privacy-relay.ts`, `relay/dedup-cache.ts`, `db/idempotency-repo.ts`) | wallet lock, dedup cache (memory); `actor.idempotency` | `POST /relay`, `GET /status`, sweep | fee quotes, wallet, Postgres |
| discovery and fallback scanner (`jobs/work-discovery.ts`, `db/indexed-reader.ts`, `jobs/fallback-scanner.ts`) | scanner: active, cursor per chain | confirmation gate, unclaimed query, claim; activate, scan, hand over | watcher's tables, source RPC, job rows |
| fee quotes (`relay/fee-calculator.ts`, `price-source.ts`) | `current` and `previous` schedule per chain, last good price | `getSchedule`, `refresh`, `resolve` | price feed, RPC |
| watcher read API (`watcher/src/api`) | none of its own; Ponder's tables and checkpoint | paged feeds, `/v1` and `/v2` quick-sync | caches, consumers |
| delivered feed (`http/server.ts`, `jobs-repo.ts`) | `delivered_at` of job rows | `GET /cctp/delivered?sinceMs=` | frontends |
| rate limiter (`http/rate-limiter.ts`) | a token bucket per client | `allow`, `sweep` | HTTP middleware |
| health reports (`http/health.ts`, `watcher/src/api`) | none; the watcher's progress rows | `GET /health`, `GET /v1/health` | Postgres, source RPC |
| configuration (`actor/src/config/*`, `watcher/src/lib/manifests.ts`, `ponder.config.ts`) | read once at boot from the environment and `deployments/` | two independent loaders, `main`'s wiring | everything above |
| fee verifiers (`relay/*-fee-verifier.ts`, `selectors.ts`, `wallet/railgun-wallet.ts`) | none | verify the fee of a relay request by its selector | relay API, Railgun wallet |
| classification and Iris (`jobs/classify.ts`, `jobs/iris-client.ts`) | none | is a message ours; which Iris entry is this row's | job pipeline |
| quick-sync decoders (`watcher/src/api/lib/quick-sync-*.ts`) | none | stored logs into leaves, nullifiers, withdrawals | read API |

What is hard in it:

* **Awaits.** Everything runs on one event loop; between two awaits nothing
  else happens, at an await anything may: another request, a reset, a second
  instance, the chain. Rows are listed at the start of a phase and used many
  awaits later.
* **Side effects that cannot be undone.** A broadcast is visible before the
  database says so. A crash, a failed update or a lost answer falls in between.
* **Two sources of work** (index and scanner) that must neither overlap in
  unconfirmed blocks nor leave a gap, while the watcher comes and goes.
* **Cursors** whose granularity (block, millisecond) is coarser than what they
  page through.
* **Restarts with other settings.** Rows outlive the process that classified and
  routed them; two packages read one set of files with code of their own.

The properties that make each component correct: no message or calldata is sent
twice while an earlier transaction lives; what is recorded is what happened;
every claimed message ends; nonces neither collide nor leave gaps; every final
message is claimed, and only final ones; quotes are honoured for as long as
promised; an accepted request pays its fee; cached answers are final; cursors
skip nothing; actor and watcher work from the same contracts. The hazards that
threaten them are listed, line by line, in `PROJECT.json`.

## 2. Modules

| module | models | variables and actions |
|---|---|---|
| `CctpJobs` | the job pipeline | `jobs` is the table; `at` and `snap` are the tick's position and the rows it listed; `txs`, `received`, `iris` are the destination and Iris. One action per stretch between two awaits: `ListAttested`, `BroadcastSent`, `recordSubmitted`, `getReceipt`, `isInMempool`, `recoverStuck`, ... |
| `RelayLifecycle` | the promise of spec 8.4 for a job | recorded state and who landed the message |
| `NonceStream` | `NonceCoordinator` and the account it serves | `next`, `queue`, a `stage` per submission, the mempool |
| `RelayApi` | `POST /relay`, `GET /status` | a `stage` per request, `busy`, `dedup`, `idem`, `txs` |
| `RelayContract` | the promise of spec 6.2 to a client of `POST /relay` | `sent` and `answer` per request, what became of each transaction |
| `MessageDiscovery` | discovery, scanner, and the watcher as they see it | chain, index, `scan`, `tick`, claimed `jobs` |
| `ShieldFee` | the shield fee the pool takes of a fee note, and the gross-up against it | operators; used by `FeeQuotes` and `RelayChecks` |
| `FeeQuotes` | fee schedules, price source, `resolve` | `quotes`, the two slots, a `stage` per request |
| `EventFeeds` | the watcher's read API with its quick-sync decoders, and one consumer walking it | chain, index, `log` (what each event is), `cursor`, `got` (leaves with their tree position, nullifiers, withdrawals), a handler, a cached answer. `rowsOf` gives the rows of a log in the table an endpoint reads - one, or one per nullifier - and `Pages` limits by rows, as the query does |
| `DeliveredFeed` | `GET /cctp/delivered` and one poller | `deliveredAt`, the update in flight, `since` |
| `RateLimiter` | token buckets | `tokens`, `idle`, and a reference bucket `ideal` |
| `ActorHttp` | the delivered feed behind its rate limiter; both health endpoints | the two modules above; `age` of the index per chain and `report`, the health handler between its awaits |
| `RelayerConfig` | the actor's configuration: `networks.ts`, `env.ts`, `manifests.ts`, wallets, `main`'s wiring | operators over a record of settings |
| `WatcherConfig` | the watcher's own loader of the same settings | operators over the same record |
| `RelayChecks` | steps 1 to 5 of `PrivacyRelay.pipeline` and the three fee verifiers | operators over a wiring and a request |
| `Deployment` | the relayer over edits of its settings and boots, with the CCTP messages of one or more transactions | `ops` (settings), `actor` (what is wired), `msg`, `iris`, `row`, `landed`; `main`, `shutdown`, `claimMessage`, `tickDetected`, `pollOne`, `expire`, `tickAttested`, `tickSubmitted`, `recoverStuck`, and the operator and the chains |
| `CctpJobsProofs`, `NonceStreamProofs`, `RelayApiProofs`, `MessageDiscoveryProofs`, `FeeQuotesProofs`, `EventFeedsProofs`, `ActorHttpProofs`, `DeploymentProofs` | theorems and proofs about the module of that name; `ActorHttpProofs` has the rate limiter and the delivered feed too | inductive invariants, see 4 |
| `MC_*` | constant values for TLC | |

Composition. `CctpJobs` and `MessageDiscovery` meet in `claimMessage`:
discovery decides when a row appears, `CctpJobs` lets it appear at any time
inside the discovery or scan phase and follows it from there. `CctpJobs` and
`RelayApi` both draw on `NonceStream`, in which a submission is either a job's
or a request's; only a job's can call `reset`. `DeliveredFeed` looks at the last
write of `CctpJobs` with a clock; `ActorHttp` composes it with `RateLimiter`: a
poll is one step of both, a denied one of the limiter alone. `Deployment`
instantiates both configuration loaders, wires `RelayChecks` and the pipeline
from the actor's, and follows rows through boots with different wirings; its
pipeline has the routing that `CctpJobs` abstracts (which chain, which router,
which Iris entry) and every way a row may end, with time left out (a row may expire
and a retry may come at any moment) and the broadcast in one step: the races inside a
broadcast are those of `CctpJobs`, and section 5 has what that leaves out of `OutcomeTrue`.
Otherwise a module lets its neighbours do anything their interface allows, so that its
safety properties do not depend on how they behave. Liveness properties and the
exceptions of section 5 are those of the module they are stated in.

Time is kept as distances (`age`, `retryIn`, `expiresIn`) that stop where the
code no longer distinguishes them, so clocks run for ever in finite models.
History variables (`dropped`, `reseed`, `raced`, `reorged`, `emptied`, `filled`,
`crashes`, `failures`, and `fault` of a row of `Deployment`) are read by properties and
bounds only. A definition
named `op_Word` is `op` with a bug; it is used by nothing and shows which mistake
a property would catch.

## 3. Runs

| run | what it shows | bounds, and why they are enough |
|---|---|---|
| `jobs_one` | One instance that stays up. `InFlightTracked`: every transaction that may deliver is named by its row or by the broadcast in hand. `NoBlindResubmit`, `OwnDeliveryRecorded`, `RetriesExhausted` | two messages, three transactions, two retries, transactions that revert, drop or lose to a foreign delivery: enough for a drop, a revert and a success of one message beside another. Messages and hashes are symmetric |
| `jobs_chaos` | Two instances, all faults, a crash. `DeliveredSound`: a delivered row names the very transaction that landed its message. `ImplementsLifecycle`: refinement of `RelayLifecycle` | one message (rows do not interact), two transactions, so that both instances can be behind the other |
| `jobs_live` | `EventuallyTerminal` | two messages competing for one poll slot, one crash, dropped transactions |
| `jobs_v_second` | *violated*: `NoBlindResubmit` with a second instance | see 6 |
| `nonce` | `NonceFree`, `NoHole`, `ResetReseeds`, `EveryCallEnds` | four submissions, two of them jobs'; every fault, one restart: a lost answer, a drop, a reset and a queue behind them fit in |
| `relay` | `LockOwned`, `NoDoubleBroadcast`, `BackfillSound`, `EveryRequestAnswered`. `ImplementsContract`: refinement of `RelayContract` - one broadcast and one answer per request, every hash that of the right transaction, and after a refusal a retry is safe, for nothing was sent; only `SUBMISSION_FAILED` and `UNKNOWN_ERROR` leave that open | three requests of one calldata, two under one key; two transactions; a restart, failing database, lost answers, unreadable notes |
| `disc` | `ClaimedFinal`, `ScanCovers`, `ActivatesOnlyWhenStale`, `EverySentClaimed` | two messages, three blocks, one confirmation, reorganisations of one block, chunks of one block, batch of one; a watcher that stops and starts at will, one crash, one failing call: enough for a crash between the claims of two messages of one block |
| `disc_v_gap` | *violated*: `EverySentClaimed` when the watcher stays down | see 6 |
| `fees` | `HonoredUntilExpiry`, `PricedByFeed`, `ShieldTiersWhole` | two requests, three schedules (the third is the first that can evict a live one), readings that are good, stale and out of the clamp; amounts scaled down, floor and rounding both met |
| `feeds` | `ImmutableIsFinal`; `StreamComplete`: a consumer that follows the cursors has every element of every log behind it, each leaf at the place the contract gave it, the known holes of section 6 excepted; `EveryEventServed` | all five endpoints, two events (two leaves and one more; two nullifiers and a shield that no decoder takes; a withdrawal and a cross-chain notice), four blocks, pages of one and two rows, so that a page ends inside a block, inside a Nullified log, or at its end; windows of two, reorganisations, a checkpoint query that fails at will |
| `http` | `LazyIsExact`, `NothingSkipped`, `EveryDeliverySeen`: no delivery is starved by denied polls; `HealthSound`: a 200 is about chains that are fresh when it is sent, not only when their rows were read | a frontend, three deliveries in three milliseconds, limits of every kind, capacity, cost and rate without common divisor; two chains, waits of up to two time units with thresholds at three and ten |
| `boot` | `LoadersAgree`; `AcceptedIsPaid`; `OutcomeTrue`: what a row says when it ends is true of the chains, whatever was edited between boots and whatever failed; `EveryClaimedEnds` | see below |

`boot` starts from a hub and two clients on the test network. Without traffic it
makes any two of about sixty edits: every environment variable the loaders
branch on, and 34 deployment directories that each have one file or field
missing, malformed or different. There `LoadersAgree` and `AcceptedIsPaid` are
checked, the latter over about a thousand requests: every selector at every
target, with two notes to the relayer or the user, in USDC of the hub or of a
client, of the advertised fee or one unit less, at a shield fee of three tenths, so that
gross and net fees differ and both roundings occur. With traffic it has two messages,
in one transaction or in two, of three kinds (through the client's router, for
anyone, and one that only another may deliver), a single retry, broadcasts that fail by
themselves, deliveries that revert, drop or come second, rows that expire, and two of the
edits that matter to rows in flight: a client disabled, its router replaced, or (by
itself) the attestation mode changed. Two edits are enough to change a setting and to
change it back.

`TypeOK` is checked by `jobs_one`, `nonce`, `relay`, `disc`, `fees` and `feeds`. Deadlock checking is off where the model is
finite by a bound on requests, blocks or deliveries and really comes to rest, and
in `boot`, where an actor with unusable settings stays down.

### Fairness

* `jobs_live`: weak fairness of a tick's steps (`setInterval` runs its
  callback for ever and the in-progress flag is cleared in `finally`; that every
  awaited call ends is the client's timeout for Iris and RPC, and an assumption
  about Postgres), of mining a transaction in the mempool unless it
  drops out, and of the clock. Iris need not ever attest: attestations expire.
* `nonce`, `relay`: weak fairness of the running submission or handler - the
  node and Postgres answer or fail every call.
* `disc`: weak fairness of the tick, of blocks and of time; strong fairness of
  indexing and weak of the watcher's restart (`restart: unless-stopped` in
  `compose/`). A stopped watcher may disable indexing again and again, hence
  strong. `disc_v_gap` drops the watcher's fairness and nothing else.
* `feeds`: weak fairness of the handler, of blocks and of the index; strong
  fairness of a checkpoint query that succeeds, as it may also fail, but not every time.
* `http`: the frontend goes on polling, the tick writes down what it has stamped,
  time passes.
* `boot`: while the actor is up its ticks reach every row (the batch is larger
  than the model's table), Iris completes every message, and the chains execute
  what they took; since a delivery may drop out of the mempool and is sent again
  without an attempt being booked, that is strong fairness: a message that is sent over
  and over is executed at some time. `expire` has no fairness: a row ends without it,
  which is what the matching of Iris' entries is for. Nothing makes the operator start the actor: `EveryClaimedEnds`
  speaks of one that is kept running.

Liveness holds under finitely many failures: crashes and failing calls are
bounded by `MaxCrashes` and `MaxFailures`. With a provider that fails every
call no message moves, and no property says otherwise.

## 4. Proofs

All theorems hold for every value of the constants that satisfies the module's
named `ASSUME`: any number of messages, transactions, instances, submissions,
requests or clients, any thresholds and bounds, any set of faults. Where a
theorem needs more, the table says so.

| module | theorem | statement |
|---|---|---|
| `CctpJobsProofs` | `TypeCorrect` | `Spec => []TypeOK` |
| | `DeliveredIsSound` | `Spec => []DeliveredSound` |
| | `RefinesLifecycle` | `Spec => ImplementsLifecycle` |
| | `RetriesAreExhausted` | `OneInstance => (Spec => []RetriesExhausted)` |
| | `TracksInFlight` | `Calm => (Spec => []InFlightTracked)` |
| | `RecordsOwnDelivery` | `Calm => (Spec => []OwnDeliveryRecorded)` |
| | `NeverBlind` | `Calm => (Spec => NoBlindResubmit)` |
| `NonceStreamProofs` | `TypeCorrect` | `Spec => []TypeOK` |
| | `NoGaps` | `Spec => []NoHole` |
| | `NoCollisions` | `Spec => []NonceFree` |
| | `ResetsReseed` | `Spec => ResetReseeds` |
| `RelayApiProofs` | `TypeCorrect` | `Spec => []TypeOK` |
| | `LockIsOwned` | `Spec => []LockOwned` |
| | `AnswersAreSound` | `Spec => []AnswerSound` |
| | `NeverTwice` | `Spec => NoDoubleBroadcast` |
| | `BackfillsAreSound` | `Spec => BackfillSound` |
| | `RefinesContract` | `Spec => ImplementsContract` |
| `MessageDiscoveryProofs` | `TypeCorrect` | `Spec => []TypeOK` |
| | `ClaimsAreFinal` | `Spec => []ClaimedFinal` |
| | `ScanLeavesNothing` | `Spec => []ScanCovers` |
| | `ActivationNeedsStaleness` | `Spec => ActivatesOnlyWhenStale` |
| `FeeQuotesProofs` | `TypeCorrect` | `Spec => []TypeOK` |
| | `Honored` | `Spec => []HonoredUntilExpiry` |
| | `PricedFromFeed` | `Spec => []PricedByFeed` |
| | `ShieldFeesWhole` | `Spec => []ShieldTiersWhole` |
| `EventFeedsProofs` | `TypeCorrect` | `Spec => []TypeOK` |
| | `ImmutableStays` | `Spec => []ImmutableIsFinal` |
| | `StreamIsComplete` | `Spec => []StreamComplete` |
| `ActorHttpProofs` | `LimiterIsExact` | `Spec => []LazyIsExact`, of the limiter alone |
| | `LimiterStaysExact` | `HttpSpec => []LazyIsExact` |
| | `FeedSkipsNothing` | `HttpSpec => []NothingSkipped` |
| | `HealthIsSound` | `HttpSpec => []HealthSound` |
| `DeploymentProofs` | `LoadersAlwaysAgree` | `Spec => []LoadersAgree` |
| | `OutcomesAreTrue` | `Spec => OutcomeTrue` |
| | `AcceptedAlwaysPays` | `Spec => []AcceptedIsPaid` |

Hypotheses beyond types. `OneInstance` is a single actor process, which is how
the relayer is deployed; `Calm` adds that no call throws out of a tick or
loses its answer half-way, and that the process does not crash. Both are
necessary: section 6 has what happens otherwise, and `jobs_v_second` shows it for
a second instance. `jobs_one` is a calm instance, so the hypothesis is one that
is met. `ReorgDepth <= Confirmations` (discovery, feeds) is what
the confirmation depth is configured for; the feeds have finitely many events, each
log at least one element; `SweepAfter * Rate >= Capacity` holds of the limiter's
constants; `Messages` of `Deployment` is a finite numbering, and `NULL` is
neither a message nor the name of a chain. Of the requests `RequestsAssumption` asks
what ABI decoding gives - unsigned values, at least the note its selector is
declared with - `FeesAssumption` that fees are whole amounts, and `ShieldFeeAssumption` that the
shield fee is below 100 percent.
`HonoredUntilExpiry` itself speaks of
requests that did not race and of `Buffer <= TTL`.

*Pipeline.* `DeliveredSound` is not inductive: `recordDelivered` writes a hash
read several awaits earlier from a listed copy of the row, so the invariant must
speak of what ticks remember. `Sound` is the conjunction of `Typed` (types, and
that a tick past a read holds a message), `ChainSound` (a landed transaction is
the one that made the destination accept its message), `TableSound` (a row's
hash was sent for that row's message; a delivered row names a landed one) and
`TicksSound` (the same of every listed copy and of the answer in hand). It is
preserved because `Grows` - what the chain knows it does not forget - carries
every claim about `txs` and `received` over any step, and each action writes
only claims it has in hand. The refinement uses the same invariant: every write
of a row goes along an edge of the lifecycle because updates are guarded by the
state they start from (`transition`). With one instance `Booked` adds `Counted`
(the attempts of a listed copy are those of its row) and `Handed` (the row in
hand is a listed one): nobody else books in between. `Tracked` adds, for a calm
one, `Fresh` (a listed copy is its row), `Told` (what a tick was told of a
transaction is still so) and `Received`; then each transaction that may still
deliver stays with its row or with the broadcast in hand.

*Nonces.* `NoHole` needs `Gapless`: below every nonce that the stream hands out
next, and below every nonce a call holds, there are only nonces that are taken
or were dropped. It rests on `Typed`, of which `Serialized` says that only the
head of the queue is past its turn. `NonceFree` needs `Free`: each nonce in the
pool belongs to the call that used it, and without drops the nonces at hand
are in nobody's transaction, except one whose answer was lost. `Reseeding` says
that after a reset between two submissions no call holds an old nonce.

*Relay API.* `Held` says who has the wallet lock and that a handler beyond it
is the holder; `Cached` what a dedup entry and its absence say about broadcasts
of that calldata; `Answered` the same of the idempotency table, the receipts
in hand and the answers given. `NoDoubleBroadcast` follows from the first two
at the one step that broadcasts: a handler on its way to the node found no entry
of its calldata, and none was made since, for only the holder of the lock makes one.
The refinement of `RelayContract` maps `txOf` to `sent` and needs `Owned` besides:
each transaction belongs to the one request whose handler holds it, a handler up to
its broadcast holds none, and one that is not done has not answered. Every action
is then a step of the contract (`Send`, `Accept`, `Refer`, `Refuse`, `Fail`,
`Mine`) or invisible to clients, a restart included. `AnswerSound`, the same of
the hashes in a state, is proved with it and checked through the refinement only.

*Discovery.* `Settled` is the heart: whatever is claimed or about to be claimed
stands in the chain where it was read, deeper than a reorganisation reaches. It
needs `Indexed` (an indexed row is where the chain has it once it is
confirmed), `Gated` (what a tick carries from one await to the next) and
`Switched` (a cursor only while the scanner is active). `Scanned` is what
`ScanCovers` needs of a scanner that works alone: `Read` (what lies behind the
range still to be read is claimed or in hand) and, for a restart, `Upwards` - rows
are claimed in the order of their blocks, so nothing below a claimed block is
unclaimed, and a cursor that starts over after the highest one can only skip
messages of that block. That is why the order of `claimMessage` matters.

*Fee quotes.* Without a race one request regenerates at a time (`OneInFlight`),
and `Waning` orders the two slots by expiry: the previous schedule expired a
whole TTL before the current, and all older ones are past their buffer.
`Computed` and `Priced` tie each schedule to the readings it was made from.
`ShieldFeesWhole` is arithmetic of the rounded-up gross-up for all amounts.

*Event feeds.* `Served` (`Indexed`, `Asked`, `Frozen`) says how far index, handler
and a cached answer may lag: an answer is marked immutable only below any
reorganisation. `Streams` holds until a reorganisation: index and chain agree
(`Current`), the cursor has passed indexed blocks only (`Covered`), each leaf is
where the contract put it (`Placed`), and what lies behind the cursor has been
handed out (`Complete`). The step that serves a page needs that a page holds
the first rows in block and log order, whole logs but for the one it ended in; that
log, remembered in `filled`, is where the hole may begin. That a full page has such a last
log is proved from a minimal element of a finite set.

*HTTP.* `Exact` joins type and exactness of the limiter; the arithmetic lemmas are
that capping now or later is the same, and that a client idle for longer than the
sweep time has a full bucket - which is why forgetting it is invisible. `Fed`
keeps deliveries in the order of their stamps, with the cursor on one that was
handed out. `Reported` bounds the age of an index by what the handler saw and
how long it has waited since.

*Deployment.* `LoadersAgree` speaks of one record of settings, so it is no
induction: the lemmas go through the loaders in the order they work (source,
manifest, chains, contracts) and show for each that the two read the same thing
from the same file, for all contents of all files. `OutcomeTrue` needs
`Recorded`: a row belongs to the burn of its message, its attestation is one Iris or
the mock gave, a receipt says that the message was received unless the execution failed by
itself, and what runs was wired from the settings. Then a delivery that the destination
refuses is one it has, one that is not ours to deliver, or one with an attestation of another
network (`Delivers`), and every other way to be given up is one of the two `OutcomeTrue`
names: expiry before the attestation, and a last attempt that failed for a reason of its own.
`AcceptedIsPaid` is no induction over steps either: `PipelinePays` shows for
any wiring, with traffic or without, and a request with any number of notes, that
the note a verifier found is among those the contract pays (`GaslessPays`, `RedeemPays`,
`BroadcasterPays`), and that what the pool leaves of a note that covers the grossed-up fee
covers the net one (`LeavesNet`), for every rate and amount. What it needs of the sum over a sequence of notes is an
induction over its length: `LeastNat` gives a least prefix at which it would fail.
The recursive function behind `Total` is shown to exist in the same way
(`SumsExist`), and then a sum is at least each of its terms (`TotalCovers`).

Only model-checked is everything under fairness (liveness and `ENABLED` are out of
the prover's reach): `EventuallyTerminal`, `EveryCallEnds`, `EveryRequestAnswered`,
`EverySentClaimed`, `EveryEventServed`, `EveryDeliverySeen`, `EveryClaimedEnds`.
Every invariant and action property that a passing run checks is a theorem.

## 5. What is abstracted or left out

* In `CctpJobs` and `RelayApi` the classification of a message, Iris' answer and
  the verdict of a fee verifier are inputs (`Relayable`, `iris`, `FeePaid`);
  `Deployment` and `RelayChecks` have what decides them. Byte offsets, ABI
  encoding and note cryptography are left out throughout: a burn is a record of
  source, destination, recipient, caller and shape, a note one of addressee, token
  and value. A fee note that cannot be read counts as not paid, as in the code.
* In `Deployment` the settings are edited only while the actor is down: they are
  read at boot and nowhere else. The network is not edited while there is traffic
  (its rows belong to other chains then), and the watcher is taken to run with the
  actor's settings. Time is left out: a row may expire, and a retry is due, at any
  moment. A broadcast that fails has not gone out: one whose answer is lost and that lands
  later is in `CctpJobs` only. For `OutcomeTrue` it would make `landed` true a little later,
  as a delivery by another does. An Iris entry that is listed but pending, and an answer
  that fails, count as no answer. A receipt call throws only where the chain is not
  served; failing ones are in `CctpJobs` (`AbortTick`). Mnemonic and keys are usable or not. Chain names and manifest prefixes
  are unique in the model, which no loader checks; where an instance's index
  lists a chain id twice the order of its entries is left open. All chains have
  one fee schedule. `POLLING_INTERVAL_<chain>` is not modelled.
* What a contract does with a relayed call (`implements`, `executes`, `received`) is
  external code, taken from how the verifiers describe it. A note that is shielded is
  charged the pool's fee (`gasless-fee-verifier.ts:29-31`), taken at the configured rate
  with no integrator's share on top; the notes of a cross-chain shield arrive whole. The hub's
  wrapper executes a call only if its notes are in the USDC of the user's permit,
  which `verifyGaslessFee` does not check; the calldata of a redeem and of a cross-chain
  shield names no token. Only the first note of a Transaction is the broadcaster's, and it
  is free of the fee.
* A `CrossChainUnshieldInitiated` log is indexed (`watcher/src/index.ts:121`) and
  served by the pages, but no quick-sync decodes it: `Streamed` says which logs
  `StreamComplete` expects of which endpoint.
* In `EventFeeds` hashes, number formats and the presence of the optional fee
  field are left out of the decoded elements; so is the 501 that the pool
  endpoints answer in the cctp-only mode.
* One chain per module for nonces, relay, discovery and fees: their state is
  kept per chain and nothing crosses. The exception is that a call which throws
  ends the whole tick; `AbortTick` has it.
* Mock attestation mode is in `CctpJobs` (`IrisMode`) and covered by its proofs;
  the runs use Iris mode.
* Rows imported from v1 as delivered are inert and not among the initial states;
  attested and submitted ones are. A row in flight to a chain that is not served,
  such as an imported one with destination domain -1, makes `getReceipt` throw at
  every tick: `Deployment` has it (`throws`), reached by disabling a client.
* A receipt counts at first sight in the code, without confirmations; the
  destination chain of the model does not reorganise.
* Not modelled: metrics, logging and build info, which nothing reads back; the
  database pool and the migrations, which run before the first tick; the Railgun
  engine behind the wallet, and Poseidon, both third-party.

## 6. Where code and documents disagree

Two disagreements are shown by runs of their own:

* `jobs_v_second`. Spec 295: "the job claim logic uses `FOR UPDATE SKIP LOCKED`
  so an accidental second instance is safe"; `jobs-repo.ts:127` is a plain
  SELECT, so both instances broadcast. What does hold with two instances is
  `DeliveredSound` and the lifecycle: the rows stay truthful.
* `disc_v_gap`. Spec 509: "kill watcher mid-flow -> actor fallback scanner
  engages, message still delivered"; the cursor starts one past the last indexed
  block (`fallback-scanner.ts:150`) while discovery waits for confirmations of
  that very block, so a message in the last indexed blocks belongs to neither
  until the watcher returns. `disc` shows that it is claimed then.

The others met while modelling are exceptions that the properties above state,
or cases the runs exclude:

* A crash after a broadcast and before the update (`state-machine.ts:178`) makes
  the next process send again while the first transaction is pending; spec 342
  has "still-pending ⇒ wait — no blind resubmit". `jobs_one` has no crash.
* A database failure right after a successful broadcast (`state-machine.ts:183`)
  is booked as a failed attempt; the retry then meets the replay protection and
  the row says that somebody else delivered.
* A revert on the last attempt dead-letters a message that somebody else
  delivered (`state-machine.ts:280`), although lines 268-269 leave the last word
  to the replay protection.
* A broadcast whose answer is lost leaves `next` behind
  (`nonce-coordinator.ts:36-37`), and the next submission collides with it
  (against line 1): the exception in `NonceFree`. Nothing on the failure path
  re-seeds, so submissions keep failing as "nonce too low" until a stuck
  transaction or a restart causes a new seed.
* A `reset` during a submission is overwritten by line 37 when that ends
  (against line 46): the exception in `ResetReseeds`.
* An idempotency record is read before and written after the relay
  (`server.ts:141-151`): a restart in between, or two overlapping requests with
  one key and different calldata, broadcast twice under one key; spec 227 has
  "first call executes, repeats return the recorded result".
* A failed progress query reads as a watcher that never ran
  (`indexed-reader.ts:85`), and the scanner calls getLogs beside a healthy
  watcher (spec 357): the exception in `ActivatesOnlyWhenStale`.
* A watcher started at "latest" is past the cursor at once, and the scanner
  hands over blocks nobody indexes (`fallback-scanner.ts:125`, spec 357); `disc`
  starts the watcher at the deploy block.
* After a crash in the middle of a scan without a watcher, the cursor restarts
  one past the highest claimed block and skips that block's other messages
  (`jobs-repo.ts:189`): the exception in `ScanCovers`, which `ScanLeavesNothing`
  proves to be the only one.
* Two requests that regenerate an expired schedule at once shift the slots twice
  and evict a quote in its buffer (`fee-calculator.ts:140`, spec 203): the
  exception in `HonoredUntilExpiry`.
* A page that fills inside a block names the next block as its cursor
  (`api-helpers.ts:41`, spec 457): the later logs of that block are never served, and of
  `/v1/nullifiers`, which has a row per nullifier (`watcher/src/index.ts:88`), not even the
  rest of the log the page ended in. And an empty `/v1/quick-sync` page names a
  block not yet indexed (`api/index.ts:183` against 187-188): the two cases of
  `KnownHole`.
* Deliveries in the millisecond of the last record are skipped
  (`jobs-repo.ts:173`): the exception in `NothingSkipped`.
* Nothing calls the rate limiter's `sweep` (`rate-limiter.ts:41`), so buckets
  accumulate.
* Two burns of one transaction with the same bytes: the nonce is masked in the
  comparison, so both rows take the first Iris entry, and the second ends as
  `already_delivered` though its own message was never received. `iris-client.ts:126`
  says "Select the entry that corresponds to OUR message": the exception in
  `OutcomeTrue`.
* The tier of a redeem (`crossContract`) is not among those grossed up
  (`fee-calculator.ts:74-75`), although the fee note of a redeem is shielded: there the
  relayer gets what the pool leaves of the cost of the gas, which is what
  `AcceptedIsPaid` asks (`due`).
* A message that could be delivered is given up when it is too old before it is attested
  (`state-machine.ts:106-116`), or when the broadcast itself keeps failing (`195-209`), a
  node out of reach for a minute included: the exceptions in `OutcomeTrue`, and the meaning
  of `dead_letter`.
* A row that was attested in mock mode keeps its attestation `0x` and is
  dead-lettered after the mode is changed to real: an exception in `OutcomeTrue`.
* A delivery in flight to a client that is then disabled throws in every tick, and
  no row claimed later ends until it is enabled again (`destination-submitter.ts:57`,
  `state-machine.ts:249`): the exception in `EveryClaimedEnds`.
* An empty string counts as unset for the deployment variables (`env.ts:21`
  "treat "" as unset"), but not for `CCTP_MODE`, `IRIS_API_URL` and
  `DEPLOYER_PRIVATE_KEY`: the boot fails.
* `health.ts:48` reports a chain as degraded when its last tick failed, but
  `main.ts:251` never passes `lastTickErrored`.
* `/v1/health` reads the clock before it awaits the chain heads
  (`api/index.ts:353`): its answer may be late by that wait, which `HealthSound`
  allows it and not the actor's.

## 7. Plan

Order of work: the pipeline first, since it moves funds; then what it shares
with the relay API (nonces), the relay API, where work comes from (discovery),
quotes, the read side, and the configuration with what depends on it. All of
these are modelled, and their safety properties proved. What would come next:

1. Destination reorganisations against first-sight receipts; a watcher with
   settings that differ from the actor's.
2. An abstract specification of the event feeds (a consumer's prefix of the
   canonical chain) and of the nonce stream (a counter), refined as the pipeline
   refines `RelayLifecycle` and the relay API `RelayContract`; the safety
   invariants they need are proved.
3. An order on the price readings: two refreshes that overlap may leave the older
   one (`price-source.ts:90`), and no property speaks of it.
