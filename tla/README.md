# Verification of stellar-trust-escrow

TLA+ models of the Soroban contracts and of the parts of the backend that run
concurrently, TLC configurations that check them on small instances, and TLAPS
proofs of the properties that matter most. Paths are relative to the repository.

## 1. Inventory

### Contracts (Soroban, Rust)

A contract call is atomic: a call that returns `Err` or panics reverts all its
writes and transfers. What is hard is therefore the *order of calls* by several
parties with conflicting interests, and the time between them.

| Component | State | Operations | Correct when | Model |
|---|---|---|---|---|
| Escrow lifecycle, `contracts/escrow_contract/src/lib.rs` | `EscrowMeta` (status, balances, counters, clocks), milestones, `CancellationRequest`, `SlashRecord`, approvals, release timelocks | add, submit, approve, reject, release (three ways), multisig release, cancel, partial cancel, expire, dispute and its five ways out, the two-phase cancellation, slashing, rent collection | what the contract holds is what its records owe; nothing is paid twice; a settled escrow stays settled; completion is decided on right counters; every dispute has a way out | `EscrowLifecycle`, `EscrowAccount` |
| Batch entry points, same file | the same milestones | `batch_add_milestones`, `batch_approve_milestones`, `batch_release_funds` | a batch keeps the books its single calls keep | `EscrowLifecycle` |
| Insurance fund, `contracts/insurance_contract/src/lib.rs` | governors, claims, votes, slash proposals, stakes, pool, yield accumulator, one token balance | governors and quorum, contribute, claim, vote, pay, stake, unstake, fees, yield, slash | each claim is decided by a quorum and paid once; stakes and yield stay covered | `InsuranceFund` |
| Governance, `contracts/governance/src/lib.rs` | proposals, vote records, deposits, arbitrator stakes, vote-escrow locks, one token balance | propose, vote, finalize, execute, cancel, configure, stake, slash, lock, extend, withdraw | what carries a proposal is the votes of a supply of tokens; deposits, stakes and locks can be given back | `Governance` |
| Recurring payments, rent reserve, TVL, arbitrator panels, incentives, extensions, administration, oracle, bridge, indexes, small helpers | single records | see section 6 | | not modelled |

### Backend (Node.js)

| Component | State | Operations | Correct when | Model |
|---|---|---|---|---|
| Ledger indexer, `workers/escrowIndexer.js` + `services/lockManager.js` | cursor in memory and in `indexerState`, a Redis tick lock, Redis batch locks | `tick`, `processBatch`, `dispatchEvent`, `saveCursor`, lock acquire, renew, release | no event is passed over but with a skipped batch or beyond a page; a dead node blocks nobody; ticks exclude one another | `LedgerIndexer` |
| Event indexer, `services/eventIndexer.js` | cursor in memory and database, rows of escrows, milestones, disputes, `contract_events` | `tick`, eleven handlers, one transaction each | rows mirror the log; each event announced once | `EventService` |
| Webhook delivery, `services/webhookService.js`, `queues/webhookQueue.js`, `workers/webhookWorker.js` | subscriptions, delivery rows, BullMQ jobs | announce, enqueue, attempt, retry, give up | a delivery is decided, and a success stays | `WebhookDelivery`, `EventPipeline` |
| Circuit breaker, `lib/circuitBreaker.js`, `lib/retryUtils.js` | state, window of failures, probe time, sleeping retries | `execute`, `retryDatabaseOperation` | opens on the threshold, closes on a streak, is probed only by those who may | `CircuitBreaker` |
| HTTP server, `server.js`, `lib/gracefulShutdown.js`, `api/middleware/idempotency.js` | in-flight counter, shutdown phase, cached response and in-flight lock, per tenant | requests, retries, signal, drain, cleanup, forced exit | an answered request is not handled again (it is, under `/api`); nobody is cut off; the process ends | `ApiServer` |
| Login and sessions, `api/controllers/authController.js`, `services/sessionService.js` | challenges, attempts, lockouts, sessions | nonce, login, refresh, logout, revoke | one session per login; five failures lock; signed out stays | `LoginSessions` |
| Routes and controllers, other services and workers, frontend, mobile client, load tests | database rows | input and output | | not modelled |

The contracts and the backend meet through events: the contract emits one per
state change, the RPC node keeps them by ledger, an indexer writes them to
PostgreSQL and announces them to subscribers, the API reads PostgreSQL. The
contracts share no storage. Each owns one token account that is *pooled* over all
its escrows, stakers or proposals, so an overpayment on one side is taken from
another.

`PROJECT.json` lists every component with its status, and under `hazards` the
lines at which this code is hard to test.

## 2. Modules

`MC<module>` holds the definitions a `.cfg` cannot express; `<module>_proofs`
holds the theorems (`ApiProcess_proofs` those of `ApiServer` and `CircuitBreaker`,
`EventPipeline_proofs` those of `EventService` too), `SumTheorems` lemmas about sums. A definition that reads "Mutation of X" before `X` is a wrong
version of `X`, used to see that the properties can tell it from the code; no
specification uses it. `PROJECT.json` maps each definition to its lines.

### EscrowLifecycle

One escrow from the moment `create_escrow` has stored it. A variable stands for
a field of `EscrowMeta` (`status`, `remaining`, `allocated`, `count`, the three
counters, `arbiter`, the clocks) or for a record of its own (`ms`, `amount`,
`request`, `slash`, `approvals`, `releaseAt`). `held` is what the contract's
token account still holds of this escrow's deposit: a transfer out is a
decrease of `held`, and since the account is pooled nothing stops it from
becoming negative. `stranded` and `history` are history variables: tokens no
record accounts for any more, and the calls the contract accepts although
they break its books. One action per entry point, in the order of the source.

* Who calls is left out unless the outcome depends on it: every caller exists.
* A stored instant is represented by the side of it on which the ledger clock
  is (`ahead` / `passed`, `waiting` / `due`, ...); `PassageOfTime` moves each
  on, independently of the others. That adds behaviours and removes none.
* A batch names one or two ids, the same one twice if `RepeatedIds` holds.
* Pause, freeze and milestone dependencies only forbid calls and are left out,
  as are recurring schedules and the size of the rent reserve. The oracle's
  verdict and price are nondeterministic.

### EscrowAccount

What an escrow promises about its deposit, without milestones, disputes or
requests: parts are paid out, the rest is settled at once but for a penalty, the
penalty of a closed account is paid or lost, and a final account pays nothing
else. `EscrowLifecycle!ImplementsAccount` is the refinement: the deposit less
`held` is what was paid, `final` is a terminal status without a request. `Break`
stands for the irregular calls of section 4; all that is promised after one is
that no token stays in the contract without a record.

### InsuranceFund

A variable per storage key, `balance` for the token account, `fees` and
`yieldPaid` as history. `vote` that returns `Err` after writing `Rejected` to an
expired claim leaves no trace, and is no step. The cap on a claim and the ceiling
on a slash can be changed by the admin at any time, so the admissible amounts are
constants. `add_platform_fees` books fees whose tokens the caller is told to
transfer separately; the model does both at once.

### Governance

Token balances of the holders (`wallet`) and of the contract (`pot`), and the
records that give a claim on `pot`: the deposit of a proposal, `stake`, `lock`.
A proposal keeps the phase the clock is in instead of three instants, a lock the
periods it has left. `unowned` counts the tokens nobody has a claim on (donations,
the rest of a slashed stake) less the allocations paid; it becomes negative when an
allocation spends tokens that somebody has a claim on. `doubled` collects the
proposals on which a token may vote twice, because it changed its owner while the
vote was open or because it was paid out of a lock that still counts it.

### LedgerIndexer

Nodes that run `startIndexer`, and ticks, of which `setInterval` starts one
whether or not the last has returned. A node's ticks share its cursor. `pc[t]`
is the call that tick `t` awaits; a step is the code between two awaits. A tick's
name is the token with which it owns a Redis key. Every ledger carries one event.
`Fail` is an RPC, database or batch lock call that throws, a database write
possibly after it was committed; a release of a lock that throws is swallowed as
in the code. `getEvents` returns one page of at most `PageLimit` events, and the code
asks for no second one (`PageEnd` is the last ledger of the batch on it); that the
range includes `endLedger` is how the caller uses it. `passed` and `lost` are history
variables: ledgers the cursor passes because their batch was skipped, its lock being
held by somebody, or because they did not fit the page; and ticks that run on although
the tick lock expired.

### EventService, WebhookDelivery, EventPipeline

`EventService` is the poller inside the API server: overlapping ticks that share
one cursor, the fetch of a page, the separate call for the latest ledger, and one
transaction per event whose unique key undoes the row changes of a repetition.
`passed` is a history variable: the events that closed between the two calls or
did not fit the page, which the code passes over.

`WebhookDelivery` is the rest of the way: `queueEventWebhooks`, which nobody
awaits, with three calls per subscription; workers of their own process, attempts,
rows updated after the answer. BullMQ is modelled from how it is configured: a
failed job is tried again until its attempts are used up, a job whose worker dies
goes back once and fails without the processor the second time. `dropped`,
`unrecorded` and `doubled` are history: calls cut short, updates that failed, jobs
two workers held.

`EventPipeline` composes the two. `RecordEvent` of the first starts the call of
the second in the same process, and a crash of the API takes both down.

### CircuitBreaker

One breaker shared by callers of `retryDatabaseOperation`, whose guard looks at
the state before it calls, and callers of `execute`. A clock is represented by the
ages of the failures in the window and by the time each wait still lasts; `Tick`
moves all of them. `streak` is history: successes since the last failure.

### ApiServer

A client and its retries with one idempotency key, numbered in the order they arrive
in, over a cache that outlives the process and whose commands may fail, against a
server that may be told to stop, is drained, cleans up, is killed, and starts again.

`cacheService.js` prefixes a key with the tenant of the context it is called in.
`idempotencyMiddleware` is mounted before `tenantMiddleware`: it looks up, and
locks, outside any tenant, and `res.json` writes in the context in which the handler
calls it. `tenanted` says which kind of endpoint this is: behind `tenantMiddleware`
(all of `/api` below it), where `Key` is the tenant's, or not
(`/admin/queues`, whose POSTs `queueDashboardRoutes.js` handles), where both are the
same. A request that is refused before the handler (401, 403, 404, 429) is answered
outside the tenant on either kind. `lock` is the key that is looked up, `cached` the
scopes under which the response is stored.

History: `late` are the requests that came after a client had its answer; `erased`: a
failing duplicate removed a response that can be looked up; `freed`: behind
`tenantMiddleware`, the lock expired or a refused duplicate released it.

### LoginSessions

One wallet whose requests interleave at every await: challenge, attempt, lockout,
session. A login is named by its challenge, a token by its session. `login` says
from which login a session descends; `forked` collects logins of which two
refreshes overlapped; `excused` says that the lockout is over or was not
written.

## 3. What is checked

Every action of every next-state relation happens in the passing runs.

| Run | Instance | Shows |
|---|---|---|
| `lifecycle_timelock` | 2 milestones of 10 or 20 against a deposit of 20 plus a fee, release timelock, deadline, batches; 2.0 million states | `FundsAccounted`, `Solvent`, `CountersAgree`, `CancellationDiscipline`, `TerminalMilestonesStay` |
| `lifecycle_options` | 1 milestone, deposit of 30, all options: lock time, arbiter, oracle, dispute timeout, two approvers, a batch that names an id twice; 1.3 million states | the refinement `ImplementsAccount`, `DisputeHasClock`, `SettledStaysSettled` |
| `lifecycle_overdrawn` | the instance of `lifecycle_timelock` | `NeverOverdrawn` is violated, see section 4 |
| `insurance_fund` | 2 governors, 2 stakers of up to 3 tokens, 1 claim, 1 slash of 40 %, fees, quorum 1 or 2; 2.4 million states up to symmetry | `PaidOnce`, `PoolWithinStakes`, `StakersCovered`, `TalliesCountVoters`, `ApprovalNeedsQuorum` |
| `governance` | 2 holders of 2 tokens, 2 proposals, one amount, one configuration; 4.3 million states | `CustodyAccounted`, `DecisionSound`, `TalliesWithinSupply` |
| `indexer_cluster` | 2 nodes, 2 ledgers in batches of up to 2, pages of 1, one crash, one failing call, one lost lock; 299 000 states | `NothingLost`, `TickExclusion`, `EventuallyIndexed`, absence of deadlock |
| `event_service` | 2 ticks, logs of 4 and 5 events, pages of 2, a crash, a failing call; 460 000 states up to symmetry | `NothingElseLost`, `RowsMirrorLog`, `AnnouncedOnce` |
| `event_pipeline` | 2 ticks, 2 events, 1 subscriber, 1 worker, 2 attempts, one crash, one dying worker, one failed update; 129 000 states | `SuccessStays`, `QueuedIsDecided`, `EventsReachSubscribers` |
| `circuit_breaker` | 2 retrying callers, 1 direct caller, thresholds 2 and 2, window 3, timeout 4 | `ClosedBelowThreshold`, `ClosesOnStreak`, `OnlyDirectCallsProbe` |
| `api_server` | 3 requests, both kinds of endpoint, one failing cache command, 2 starts; 1.6 million states | `ReplayedOutsideTenants`, `LockShieldsRetries`, `DisconnectAfterDrain`, `ShutdownEnds` |
| `idempotency_replay` | 2 requests, no failing command, 1 start | `AnsweredIsReplayed` is violated, see section 4 |
| `login_sessions` | 2 requests, 2 challenges, 3 sessions, lockout after 2 | `OneSessionPerLogin`, `FiveFailuresLock`, `SignedOutStays` |

Five runs also check the type invariant of their module.

**Why the bounds are enough.** Two milestones are the fewest at which one can be
paid while another is pending, disputed or approved; amounts of 10 and 20 against 20
make the allocation bound bite, and 10 % of them is a whole number, so that a slash
is visible. No rule of the contract relates three milestones; the counters, for
which the number could matter, are proved for any number. Two governors with a quorum of 1 or 2 suffice
for one to vote, be removed, be registered again and meet the other's ballot under
another quorum; the theorems hold for any number of them, of claims and of slashes.
The slash percentage does not divide the stakes, so that rounding happens. Governance needs two proposals: the second allocation pays tokens of a lock
whose power has to vote on the other. Its constants put a stake just above the
minimum and below it after a slash, and a turnout on both sides of the quorum; with
one configuration `UpdateConfig` changes nothing, and the theorem covers the others.
A page of one event cuts every batch of two. Two nodes, ticks or requests and one
crash give every hand-over; the pipeline has one worker because a delivery is one job, and
a second worker meets it only after the first has lost it, which is `doubled` and
excused (`SuccessIsKept` is proved for any number), and leaves failing calls of the
poller to `event_service`; a second
trouble of one kind starts from a state the first can already leave behind, and the
proofs bound neither the actors nor the failures. The breaker's window holds fewer
failures than the callers produce, so that it opens, closes and opens again. Two
requests are the fewest that overlap; a third session is the one that a lost race
would add.

**Named bounds.** `MaxMilestones` is the contract's own limit. `MaxContributed`,
`MaxStaked`, `MaxFees`, `MaxProposals`, `MaxLedger`, `MaxApplied`, `MaxCrashes`,
`MaxFailures`, `MaxLosses`, `MaxStalls`, `MaxTroubles`, `MaxFaults`, `MaxStarts`,
`MaxChallenges` and `MaxSessions` bound counters and stand in the guards. `PageLimit`
is the RPC node's.
`Proposers`, `Stakers`, `Lockers`, `Senders` and `Payees` restrict who makes which
call in `governance`.

**Symmetry** permutes governors and stakers, ticks of one process, and requests of
one wallet. Each occurs in the module only as an element of its set, and none of
these runs has a liveness property.

**Deadlock** is checked for the runs of processes that must never stop: the
indexer, the event service, the pipeline and the breaker. It is not for the contracts
(an escrow legitimately ends, and ids and amounts run out), nor for `ApiServer` and
`LoginSessions`, whose requests run out.

**Fairness.** The contracts have none: nobody is obliged to call. In the indexer
and in the pipeline every tick, worker and pending call is weakly fair (the event
loop runs every continuation, every call returns or throws), as are the restart of
a process (its supervisor), the expiry of a Redis key, BullMQ's check for stalled
jobs and the closing of ledgers. `CircuitBreaker` assumes none: no property promises
that a breaker ever closes. `ApiServer` needs only that the armed timer of
the forced exit fires. Crashes, failing calls and lost locks are never forced and
are bounded: a database that is down for ever indexes nothing.

## 4. Where the code and its documentation disagree

`lifecycle_overdrawn` is kept as a run: `property_tests.rs:195` says that no funds
are destroyed or created, `cancel_escrow` pays the approved milestones and leaves
them Approved, and `release_funds` looks only at the milestone and pays again.

`idempotency_replay` is the other one: `idempotency.js:6` says that on a duplicate
request the cached response is returned "immediately without re-executing the route
handler". The middleware is mounted at `server.js:129`, before `tenantMiddleware` at
`server.js:206`. It looks the response up without a tenant, and the handler's `res.json`
stores it, and releases the lock, under the tenant's keys (`tenant.js:119`,
`cacheService.js:164` and `:199`, `tenantContext.js:41`). Under `/api` a retry of an
answered request gets a 409 while the lock lasts, 30 seconds, and then runs the handler
again. What still holds is stated by two properties: outside `tenantMiddleware` the
answer is replayed (`ReplayedOutsideTenants`), and behind it the lock that nobody
releases keeps retries out until it expires or a refused duplicate removes it
(`LockShieldsRetries`). The tenant in the documented key format (`idempotency.js:19`) is
`global` in every key, for the same reason.

The following are visible in the models, where a history variable or a guard of a
property names each case; they have no run of their own.

* `property_tests.rs:458`: Completed and Cancelled are terminal. A disputed
  cancellation leaves its request behind when the dispute is resolved, and
  `reject_cancellation`, which does not look at the status, makes the settled escrow
  Active (`revived`; `SettledStaysSettled` speaks of escrows without a request).
* `docs/slashing-mechanism.md:215`: an upheld slash is transferred to the recipient.
  `resolve_slash_dispute` deletes the record and transfers nothing (`stranded`).
* `lib.rs:4271`: a dispute freezes releases. `release_funds` does not test the
  status, and an approved milestone is released during a dispute.
* `lib.rs:2829`: a batch fails if any id is in the wrong state. The ids are checked in
  one loop and written in another, so an id named twice passes twice, is counted
  twice and paid twice; the escrow may complete early or never (`repeatedId`). The two
  batch calls also differ from the single ones: `batch_approve_milestones` pays in
  spite of a release delay, and decrements `submitted_count`, which
  `approve_milestone` leaves alone.
* `partial_cancel` followed by `add_milestone` promises more than is left
  (`addAfterPartialCancel`).
* `solvency_invariant_tests.rs:3`: liabilities never exceed the balance.
  `execute_payout` compares a claim with the whole balance, stakes included.
* `escrowIndexer.js:13`: "Zero data loss: ledger cursor only advances after successful
  DB write". A batch whose lock is held is skipped and the cursor saved behind it, and
  of a batch with more events than a page of the RPC node only the first page is
  written (`passed`). `NothingLost` says that these are the only two ways.
* `escrowIndexer.js:14`: locks prevent duplicate processing. The cursor is read only
  at start, so each node walks through every ledger, one after the other.
* `idempotency.js:8`: a duplicate in flight gets a 409. The lock is read and set by two
  commands, and two requests can both find none.
* `governance/src/lib.rs:535`: an allocation is paid from the treasury. It is paid from
  the balance that also holds deposits, stakes and locks (`unowned` below zero). A
  lock that was spent so still votes while the payee votes the same tokens.
  `docs/governance-guide.md:158` admits that there is no snapshot of balances; the
  supply snapshot is whatever the proposer says, and 0 makes the quorum 0.
* `withdraw_stake` stores its cooldown and returns `Err`, which reverts it: no stake
  can ever be withdrawn, and the model has no action for it. `slash_arbitrator` that
  leaves less than `MIN_STAKE` forgets the rest of the stake.
* `circuitBreaker.js:10`: half-open admits limited requests. It admits all.
* `circuitBreaker.js:16`: OPEN becomes HALF_OPEN after the timeout. It does so when
  `execute` is called, and the only user of a breaker in `backend/` is
  `retryDatabaseOperation`, which throws in OPEN before it calls (`retryUtils.js:73`).
  `OnlyDirectCallsProbe` with no direct callers says what follows: once no retry is
  asleep, an open breaker stays open until the process is restarted. The direct
  caller of the run stands for those of the tests and of the breaker that the
  runbooks recommend and nothing creates; no property claims a recovery.

Met while reading, outside any property: a Completed escrow with a remainder keeps
it until its rent runs out; `release_funds` does not wait for `MilestoneReleaseAt`;
`execute_cancellation` refunds the requester even when it is the freelancer; a
dispute through `dispute_cancellation` has no clocks (the exception in
`DisputeHasClock`); an expired insurance claim stays Pending, because `vote` writes
`Rejected` and returns `Err`; a quorum above the number of governors leaves
claims undecided; a saved cursor can move backwards when a slow node saves its own.
The Prisma client that `prisma.js` exports is extended and has no `$use`, so the
retry middleware is attached to nothing. `gracefulShutdown.js` arms the forced exit
before it computes the drain deadline, so the branch for the latter is never taken;
`queueConfig.js:214` closes the queues on SIGTERM without waiting for the drain.
A crash between the insert of a delivery and its job leaves the row pending for
ever. Rows of refused attempts during a lockout count as failures, so the first
wrong signature after it locks again. Two overlapping refreshes of one token
leave two sessions (`forked`), and one that fails between its delete and its insert
loses the login.

## 5. What is proved

For every value of the constants that satisfies the module's named assumption.
TLC's runs evaluate those assumptions too. Every invariant and every action
property of section 3 that holds is a theorem here, and so is the refinement.

| Proof module | About | Theorems |
|---|---|---|
| `EscrowLifecycle_proofs` | `EscrowLifecycle`, `EscrowAccount` | `TypeCorrect`, `CancellationSound`, `DisputeClocksPresent`, `SettlementIsFinal`, `NothingForgotten`, `CountersCorrect`, `TerminalMilestonesKept`, `BooksBalance`, `OpenEscrowSolvent`, `EscrowImplementsAccount` |
| `InsuranceFund_proofs` | `InsuranceFund` | `TypeCorrect`, `VotesCounted`, `ApprovalSound`, `PayoutsMatchClaims`, `FundSound`, `PoolIsWithinStakes`, `StakersAreCovered` |
| `Governance_proofs` | `Governance` | `TypeCorrect`, `DecisionsAreSound`, `CustodyIsAccounted`, `VotesWithinSupply` |
| `LedgerIndexer_proofs` | `LedgerIndexer` | `TypeCorrect`, `NoEventLost`, `TicksExclude` |
| `EventPipeline_proofs` | `EventService`, `WebhookDelivery`, `EventPipeline` | `TypeCorrect`, `EventsAnnouncedOnce`, `NoEventElseLost`, `RowsAreReplay`, `PipelineRunsService`, `SuccessIsKept` |
| `ApiProcess_proofs` | `ApiServer`, `CircuitBreaker` | `TypeCorrect`, `DrainedBeforeDisconnect`, `AnswersReplayed`, `RetriesShielded`, `ClosesOnlyOnStreak`, `RetriersNeverProbe`, `NeverClosedAtThreshold` |
| `LoginSessions_proofs` | `LoginSessions` | `OneSession`, `SignedOutForGood`, `FiveFailures` |
| `SumTheorems` | sums over finite sets | lemmas only |

**Sums and recursive functions.** The models write a sum as a fold over a finite
set and the replay of a log as a recursive function. What either computes needs
induction, and the library's induction theorems take an operator as a parameter,
which the provers cannot instantiate. The proofs use the smallest counterexample
instead: strict inclusion of finite sets and the order of the naturals are well
founded, so a set of counterexamples that is not empty has a minimal member
(`SmallestSet`, `LeastNumber`), and that member contradicts the definition.
`SumTheorems` shows in this way that the fold is well defined
(`AddsExists`, `AddsUnique`), what one element contributes (`SumElement`), and
from that the laws the modules need: one term or two change (`SumChange`,
`SumChangeTwo`), termwise bounds (`SumMonotonic`), addition, scaling, a sum split
into the parts of its members (`SumParts`). `ReplayRecursion` does the same for
the replay. The laws hold for finite sets only: `GovernanceAssumption` and
`FundAssumption` say that holders and stakers are finitely many, which any state
of a ledger satisfies.

**EscrowLifecycle**
* `TypeCorrect` : `TypeOK` is inductive. `SlashAmount` of a negative balance is
  an integer too, which is why `held` and `remaining` are in `Int`.
* `CancellationSound` and `DisputeClocksPresent` rest on lemmas that say what each
  group of actions does to `status`, `request`, `slash` and the dispute clocks.
  `CancellationDiscipline` is inductive together with `TypeOK`: a request is created
  only in Active, and whoever makes the escrow Active removes it.
* `SettlementIsFinal` is the action property of the same lemmas.
* `NothingForgotten` : `NoSurplus` is inductive. Every payment lowers `held` by at
  least what it takes off the books; `Payable` is where it may be more.
* `CountersCorrect` and `TerminalMilestonesKept`. `CountersAgree` is not
  inductive: it says nothing about which numbers are in use, so `AddMilestone`
  could hit an occupied one. `CountersInv` adds `FirstOnesInUse` (the milestones
  are numbered 1 to `count`). `CardinalityAfterMove` says how one milestone's move
  changes the cardinality of a set of statuses; a batch is two moves in turn.
* `BooksBalance`, `OpenEscrowSolvent` and `EscrowImplementsAccount` share one lemma,
  which says that every step moves the money in one of the eight ways of
  `MovesMoney`: it leaves it alone, adds a milestone, pays milestones, refunds
  what is not allocated, settles, executes a cancellation, ends a slash, or removes the
  records. It speaks of the sum of the unpaid amounts (`Due`), so that a batch and
  three kinds of release are one case. `FundsAccounted` and `Solvent` are
  strengthened to `MoneyInv`: `Due` within what was allocated; while the
  books are regular they balance and nothing in them is negative; and the balance
  covers `Due` not only in an open escrow but also in one that can be open *again*
  (`MayPay`, an undisputed request), where, unless a part was refunded, it also covers
  what can still be allocated. `DisputedRequests` is what makes that enough: a request
  left behind by a settled dispute cannot be disputed a second time, so
  `dispute_cancellation` reopens no escrow whose balance is spent. The refinement maps
  the eight ways one by one to actions of `EscrowAccount` or a stutter.

**InsuranceFund**
* `TypeCorrect` : in particular `balance` never becomes negative.
* `VotesCounted` : each ballot adds an address to exactly one set of voters, and a
  removed governor's ballots stay recorded.
* `ApprovalSound` : from it, approval needs a quorum and a majority of distinct
  addresses, whatever the admin does to the quorum between ballots.
* `PayoutsMatchClaims` : `PaidInv` is the equality with the finiteness of the set of
  Paid claims, which an unbounded numbering of claims does not give for nothing.
* `FundSound`, `PoolIsWithinStakes`, `StakersAreCovered`. `StakersCovered` is not
  inductive: it speaks of yields rounded down, and a small fee can raise their sum by
  more than the fee, when fractions left over from earlier fees become whole.
  `FundInv` replaces it by a bound on the sum that is not rounded
  (`AccruedBacked`), which every fee raises by at most the fee and every claim
  lowers by at least what it pays; it holds even after claims were paid out of the
  stakes, which is when `StakersCovered` says nothing. `SlashesPartial` keeps a slash
  from taking more than the pool.

**Governance**
* `TypeCorrect` : no balance, stake or lock is negative. `SlashWithinStake` is the
  arithmetic of it: a percentage of a stake is within the stake.
* `DecisionsAreSound` : `DecisionSound` is inductive with `TypeOK`. The deposit leaves
  with the status, and nothing adds a vote to a proposal that is not Active.
* `CustodyIsAccounted` : the equality of `pot` with three sums is inductive; each
  action changes one term of one of them by what it transfers.
* `VotesWithinSupply` : `TalliesWithinSupply` is far from inductive, since it does not
  say why the next vote fits. `TallyInv` compares, per holder, what it owns inside and
  outside the contract (`Own`) with what it has voted; the sum of the larger of
  the two stays within the supply (`BallotsBacked`). Staking, locking and
  depositing move tokens within `Own`; a token that changes its owner doubles all
  open votes, which is `doubled`; and `OverdrawnDoubled` says that an allocation that
  spends the tokens of others has done so too.

**LedgerIndexer**
* `TypeCorrect` : no cursor runs ahead of the network.
* `NoEventLost` : for every page limit. `NothingLost` is strengthened to `CoverageInv`: it adds, for each
  tick, how far it knows the ledgers to be covered at each call it awaits
  (`TickCovered`), and the cursors of nodes that are down. It holds because
  coverage is never undone (`CoveredMonotone`), so what a tick knew before an
  await is still true after it, whatever the others did. A tick covers its batch up to
  `PageEnd` event by event, and the rest of it is `passed` in the step that leaves it.
* `TicksExclude` : `TickExclusion` is inductive with `TypeOK`; the release
  compares the token, so no tick deletes another's lock.

**EventService, WebhookDelivery, EventPipeline**
* `TypeCorrect` : no cursor, no page and no tick runs ahead of the network.
* `NoEventElseLost` : strengthened to `BehindSettled`, which says of each tick that
  all before its page is settled as far as it is going to move a cursor.
* `EventsAnnouncedOnce` : inductive by the unique key.
* `RowsAreReplay` : a tick that commits the event of ledger `l` has everything before
  `l` behind it, by `BehindSettled`; with nothing passed over, what is stored is the
  events up to some `n`, so a new one is the next that has a handler
  (`RecordContinues`), whichever tick commits it, and the rows take the replay's step.
* `PipelineRunsService` : every step of the composition is one of the service or
  leaves its variables alone, so the four results above hold of the pipeline.
* `SuccessIsKept` : the action property needs to know that nobody is still working on
  a delivery that has succeeded. `Attended` says that a job in order (never given
  back, no failed update) is with at most the one worker that owns it, and that after
  a success this worker is done or the job completed. `QueuedOnce` says that
  what a call has still to enqueue has no job yet, so that enqueueing never resets a
  job; it leans on the announcement being made once, which is the service's part.

**ApiServer and CircuitBreaker** (one module: both live in the memory of the API
process and share nothing)
* `TypeCorrect` : the counter is the cardinality of the tracked requests, whichever of
  `finish` and `close` comes first (`NewUntracked` keeps a request from being counted
  before it has come).
* `DrainedBeforeDisconnect` : strengthened to what each phase of the shutdown has left
  behind (`ClosedBeforeCleanup`).
* `AnswersReplayed` and `RetriesShielded` : `IdempotencyInv` joins `ReplayReady`, which
  says that outside a tenant the response is stored once an answer is out, and that no
  request that came later has missed it, to `LockReady`, which says that behind
  `tenantMiddleware` the lock is set from before the handler runs until `freed`, and
  that no request that came after the answer has found it free.
* `ClosesOnlyOnStreak` : the count of probes never exceeds the streak
  (`CountWithinStreak`), because an older call that fails between two probes
  opens the breaker and resets the count.
* `RetriersNeverProbe` : only retriers sleep (`OnlyRetriersSleep`), and a retrier that
  starts in an open breaker does not call.
* `NeverClosedAtThreshold` : the window's sum grows by one failure and is looked at in
  the same step; time only takes ages out of it (`TickForgets`).

**LoginSessions**
* `OneSession` and `SignedOutForGood` : `SessionInv` adds to the types that a
  challenge is carried by one request at a time (`ChallengeOnce`), that a refresh
  knows whose session it read (`RefreshKnowsSession`), and that a login that is being
  recorded has no session yet unless it is forked (`OnePlace`).
* `FiveFailures` : `LockoutInv` adds the types of the attempts. A request that
  records a failure is itself the one that will look at the newest rows.

**Only model-checked.** Liveness: `EventuallyIndexed`, `QueuedIsDecided`,
`EventsReachSubscribers`, `ShutdownEnds`. TLAPS has no rule for
`ENABLED`, and so none for fairness. The absence of deadlock, for the same reason. `NeverOverdrawn`
and `AnsweredIsReplayed` are false. The batches in the proofs name one or two ids, as in
the model.

## 6. Not modelled, and why

The models cover the code in which several actors meet in one state. Of the
repository's source, most of the JavaScript is request handlers that validate
their input and read or write one row, pages and components of the frontend, load
tests and scripts; a model of one of them would restate its assignments.

* **Recurring payments**: an escrow with a schedule has no milestones and one payer;
  the catch-up loop would be a module of its own.
* **Rent reserve, TVL, incentives**: one counter each. `EscrowLifecycle` has only
  the exhaustion of the rent. TVL is decreased by `release_funds` and
  `cancel_escrow` alone and so is not the sum of the open balances; no document says
  it is.
* **Milestone dependencies, pause, freeze, role transfers, split_escrow**: they forbid
  calls, change who calls, or create other escrows.
* **Arbitrator panels, extensions, administration, oracle, bridge, NFT gate,
  reputation, labels, limits, nonces**: single records behind one guard, or contracts
  that share no state with the others.
* **Governance**: allocations in other tokens, a change of the token or of the
  treasury's address by the admin.
* **Event service**: score updates, broadcasts and the search index. The code never
  supplies the required `tenantId`, and 0 is no valid first ledger for an RPC node;
  the model assumes that writes can succeed and that a start ledger is set.
* **Webhooks**: nothing in the repository starts `webhookWorker.js`; the model assumes
  that a deployment does. Secrets and signatures are left out.
* **Circuit breaker** `reset()`, which only tests call; **idempotency** 24-hour
  expiry of a response.
* **Login**: the second factor, expiry of tokens, `touchSession`.
* `refreshTokenService.js`, `escrowService.js` and `auditLogger` are reached from
  nothing the server loads; `escrowStateMachine.js` is two merged versions that do
  not parse; `eventWorker.js` imports a function that does not exist.
