# A TLA+ development of crypto-exchange

The repository is a single-tenant spot exchange in Go: one binary that runs as
one of seven roles over PostgreSQL (the only truth), NATS and an EVM node. This
directory holds TLA+ models of its core, model-checked with TLC on small
instances, with theorems proved by TLAPS for every instance. `PROJECT.json`
maps each definition to the lines it translates, lists the runs, the mutants
that show each property can fail, the hazards and the theorems.

Contents: [1 The system](#1-the-system) · [2 Modules](#2-the-modules) ·
[3 Runs](#3-runs-bounds-and-what-they-show) · [4 Fairness](#4-fairness) ·
[5 Proofs](#5-what-is-proved) · [6 Disagreements](#6-where-code-and-documents-disagree) ·
[7 Not modelled](#7-what-is-not-modelled) · [8 Plan](#8-plan)

## 1 The system

Roles: **api** (HTTP, validates and delegates), **engine** (one instance, held
by a Postgres advisory lock; one goroutine per market; also the outbox relay),
**chain** (one replica; five tickers: scanner, withdrawal policy, withdrawal
sending, sweeper, reconciler), **signer** (keys), **stream** (WebSocket),
**admin** (operators; no node, no keys), **worker** (klines, webhooks, cleanup).
They talk over request/reply (`cmdbus` to the engine, `signerbus` to the
signer), over rows another role polls (withdrawals, sweeps, reversal requests),
and over events: an outbox row written in the business transaction is relayed
to JetStream in id order and consumed by stream, marketdata and webhook.

| Component | State | Operations | What is hard | What makes it correct |
|---|---|---|---|---|
| matching (`internal/matching`) | two sides: sorted prices, FIFO levels, id index; last sequence | place (limit/market, gtc/ioc), cancel, restore | three copies of one fact; flooring; anchored slippage bound; self-trade after partial fills | price-time priority, never crossed, book = book of the rows |
| trading (`internal/trading`) | `r.seq`, `r.book`, queue; `orders`, `trades`, `market_sequences` | enqueue, group, pre-read, lock, walk, commit, respond, rebuild | a COMMIT of unknown outcome; a stale mirror; resent commands; two engines | holds and fills agree with trades; no double fill; answers describe committed rows |
| ledger (`internal/ledger`) | balances per bucket, journal with idempotency keys | hold, release, settle, post, adjust | rounding, replays | conservation; nothing below zero; an entry once per key |
| policy, registry | limits; markets and assets, a cached copy in each role | check; upsert, status, reload | stale cache; config change under resting orders | commands judged by the configuration of their book |
| withdrawal (`internal/chain/withdrawal`) | `withdrawals` rows, ledger buckets | create, decide, review, lock, pin, sign, broadcast, track, replace, cancel, refund, retry | crash between sign, record, send; replacement against original; two loops and an operator | paid at most once; money back only when no transaction can pay |
| hot wallet, signer | `next_nonce`, `nonce_fills`; `signing_log` | allocate, recycle, fill, startup scan; sign once per intent | a nonce nobody spends stops all that follow | no nonce abandoned, one signature per intent |
| deposit (`internal/chain/deposit`) | `deposits`, `blocks` ring, cursor | tick (tip, rewind, scan, advance, expire, reverse, prune), reversal request | reorganisations before, during and after a credit | credits match the chain once the tip does; never missed, never twice |
| sweep (`internal/chain/sweep`) | `sweeps` rows with pinned funding nonce and amount | plan, fund gas, sign, broadcast, resend, confirm, fail | shares the nonce manager with the withdrawals; a funding retried at another fee | the books follow the chain; never more swept than credited; no funding or nonce stuck |
| reconcile (`internal/chain/reconcile`) | reports and breaks | book nonce fills, read balances at frontiers, read ledger, ask receipts, record | everything it reads moves while it reads | a reported break is real |
| eventbus | outbox, account sequences, streams, consumers | append, relay, consume | publish before mark; id order is not commit order | nothing lost; duplicates recognised by id and sequence |
| stream | per-connection feeds, hold and resume | bind, hold, replay, release, drop, reconnect | resume against live events of two streams, a hold timer, slow consumers | everything after the sequence asked for is sent |
| marketdata | shadow book, rebuild buffer, klines | apply, close, rebuild, subscribe | a snapshot older than some events and newer than others | the shadow book is the engine's |
| webhook | endpoints, queue, deliveries | enqueue, claim, POST, settle, disable, enable, replay | crash after the POST; two workers on one row | at least once, in bounded retries |
| auth, ratelimit | sessions, rotating refresh tokens; buckets | login, refresh, revoke; take | reuse of a rotated token | one live token per family |
| audit, telemetry, money, evm, hdwallet, api, app | append-only rows, metrics, arithmetic, I/O | | | |

## 2 The modules

| Module | Models | Uses |
|---|---|---|
| `OrderBook` | the book's data structure and matching algorithm, as pure operators | |
| `Market` | one market: commands, ledger, registry, account status, rebuilds; every action one committed transaction | extends `OrderBook` |
| `EngineRunner` | the runner's group commit against Postgres: what `Market` takes as one step, step by step | |
| `ShadowBook` | the market data projector, its rebuilds, and a subscriber's copy of the book | extends `Market` |
| `EventBus` | transactions that append events, the relay, the server's duplicate window | |
| `Webhook` | durable consumer, delivery queue, dispatchers, operator | extends `EventBus`, refines `AtLeastOnce` |
| `AtLeastOnce` | the abstract promise about deliveries | |
| `PrivateStream` | a private connection and the client that resumes it | extends `EventBus` |
| `Withdrawal` | withdrawals, nonces, signing log, ledger buckets, an external node | |
| `Sweep` | sweeps of one address, their gas funding through the shared nonces, withdrawals beside them | |
| `Deposit` | the scanner's tick, reversals, an external node that reorganises | |
| `Reconcile` | a reconciliation pass beside the commits of the three workers above | |
| `EngineRunner_proofs`, `Webhook_proofs`, `Deposit_proofs`, `Withdrawal_proofs`, `Sweep_proofs` | inductive invariants and theorems | extend their module |
| `Matching_proofs` | facts about one command of `Market`: folds, sides and levels, a fill with its settlement, the loop | extends `Market` |
| `Market_proofs` | the inductive invariant and the theorems of `Market` | extends `Matching_proofs` |
| `Sums` | facts about sums over finite sets | used by `Sweep_proofs`, `Matching_proofs` |
| `MC*` | constants, symmetry | extend theirs |

**OrderBook / Market.** A side is `[prices, levels]` as in `bookSide`: a sorted
price list beside a map of FIFO levels with their cached quantity; `byID` is the
book's third copy. `Match` runs `MatchStep` until the taker is exhausted, does
not cross, leaves its band or meets its own order. `Market!Place` is the whole of
`walkPlace`: policy, hold, book, settlement of each trade with fees and the
release of price improvement, the residue, and the rows; `Cancel` is
`walkCancel`. A settlement that cannot be posted makes the runner `dirty`:
nothing is written and the book must be rebuilt (`Rebuild`). Amounts are small
integers of the smallest unit, the code's `money.Amount` at a fixed scale.

**EngineRunner.** A transaction `tx` holds the sequence row's lock with its
private copy of the rows. A group goes through `Begin` (pre-reads, no lock),
`LockSeq` (the lock; `r.seq` compared with `last_seq`), one `Walk...` per
command, `SendCommit` and `Respond`; `DBCommit` and `DBAbort` are Postgres's and
may come after the runner has given up (`Timeout`). A group that fails marks the
mirror dirty and its commands run again one at a time. `LoseLock` drops the
advisory lock without telling the engine; the second engine then starts. Orders
have one unit and any buy meets any sell: prices and money are `Market`'s.

**Withdrawal.** `row` has status, reason, nonce, attempt, replacement count,
hashes; `job` is where the sending goroutine stands, so a crash falls between
any two of its commits, signatures and sends. The policy loop's steps (`Decide`,
`LockFunds`), the client's (`Create`) and the administrator's (`Review`,
`RequestResolve`) interleave with it. The node is external: `mempool`, `mined`,
`deep` (how many have the confirmations), `Mine`, `Deepen`, `Reorg`.

**Deposit.** A block's hash is the branch it was mined on. `job` is where the
tick stands, with what its earlier calls returned (head, logs, claims), so the
chain may grow between any two calls, reorganise when `MidTick` allows, and the
process may die. An RPC or database error that ends a tick is, to the rows, the
same as a crash followed by a start.

**Sweep.** `row` is `chain.sweeps`; `job` is where the sweeper stands between two
commits, signatures or sends. `other` are withdrawals' nonces, taken and sent by a
goroutine of their own; `alloc` is a nonce taken in a transaction not yet committed.
The market moves `fee`; a gas funding's budget is the fee when it was computed, its
amount is pinned in the row and in the signer's log. `Mine` burns `Cost`.

**EventBus, Webhook, AtLeastOnce.** An outbox row is inserted (`AppendEvent`) and
committed in separate steps, so rows become visible out of id order; the relay reads
a batch, publishes row by row, marks; a crash publishes again, within the window or
after it. In `Webhook` the consumer writes one queue row per endpoint and
acknowledges, a worker claims, POSTs and settles in three steps, and may die between
any two. `AtLeastOnce` knows only which duties (an event for an endpoint) have
happened, are owed, told or excused; `Webhook!Promise` maps the outbox, the log, the
consumer's hand, the queue, the claims and an operator's transaction to `owed`, and
`Kept` is `Promise!Spec`.

**PrivateStream.** The server's steps are `authenticate`, `resume` and `release` cut
where they let go of the connection's lock; the feed decides on a frame and sends it
in two steps; the hold timer may fire at any time and its function wait for the lock.
The client is `web/trade/src/ws/private.ts`: each frame with a higher sequence moves its
resume point (`lastSeq`), at any time. `Coming(i)` lists the ways an event can still reach
the connection; `since` and `served` record what the properties need of its history. The
client's refetching of its lists on a resync is one step, and the page was loaded before
the first event.

**ShadowBook.** Each command of `Market` appends the events `walkPlace` and
`walkCancel` would; the projector applies them one by one, closes a command from its
own events, buffers while a rebuild reads the open orders, and sends one delta per
command. A subscriber gets a snapshot and deltas and keeps levels of its own.

**Reconcile.** `pass` is where the pass stands and what it has read. The scanner, the
withdrawals and the sweeper appear by their commits only (`Scan`, `Rewind`, `Credit`,
`ConfirmWithdrawal`, `SettleCancelled`, `MarkSweep`, `ConfirmSweep`): the other modules
have their steps. Strangers are transfers nobody told the ledger about, which is what
a break is for.

**Composition.** `Market` extends `OrderBook` and `ShadowBook` extends `Market`:
commands, their events and the book derived from them are one specification. `Webhook`
and `PrivateStream` extend `EventBus`: both consumers run against the same relay and
its faults. `EngineRunner` and `Market` split the trading engine at the transaction:
`Market` assumes a command is one atomic step on the committed state, and
`EngineRunner!MirrorFaithful`, `Paired` and `AnswersDurable` are why it may.
`Withdrawal`, `Sweep` and `Deposit` carry their own copy of the ledger accounts they
move, and `Reconcile` puts their commits beside one another.

## 3 Runs, bounds and what they show

| Run | Instance | What it shows |
|---|---|---|
| `market_book` | two accounts, up to 4 orders, limit (gtc, ioc) and market with a 40 % band (8 shapes of command), cancels, crashes | rows, holds, trades and book stay in step; price-time priority and no self-trade; the band only trims, a market order uses what book and budget allow; the book is always the one a restart would build |
| `market_admin` | 2 orders, two configurations, statuses, freezes, dust fills eaten by their fee | money conserved and book rebuildable when administrators and failed settlements come between commands |
| `runner_two` | 2 engines, 3 places, a cancel, one resend, one fault | two engines after a lost lock, or one after an ambiguous COMMIT, never commit from a stale book |
| `runner_live` | 1 engine, 2 places, a cancel, 2 faults | every queued request is answered, or its engine stops |
| `shadow` | up to 3 orders of 5 shapes, a rebuild buffer of 2, the relay starts over once | the shadow book is the engine's after every closed command, and a client's copy too where a snapshot is not cut off at `DepthLevels`; deltas have no hole for a subscriber |
| `webhook` | 1 event, 1 endpoint, 2 workers, 1 bus fault, one disable, one replay (it holds with two, in 3.8 million states) | `Webhook` on `EventBus` implements `AtLeastOnce`; a run ends only by an answer, its last attempt or a disabled endpoint |
| `webhook_live` | the same with one worker and a longer log | what is owed to an active endpoint is settled |
| `private` | 2 events of the account on either of the two streams, hold buffer 1, pages of 1, one fault: of the bus, or a connection lost at any point | the server sends every event after the sequence the client resumed from, or after the acknowledgement's; the client catches up with all but what its own resume point has passed (section 6) |
| `withdrawal` | 2 withdrawals, a crash, a revert or a reorganisation (it holds with all three, in 5.5 million states), 1 resolution, 1 bump, failing signer and RPC | ledger buckets follow the rows; paid once; no nonce abandoned; operators return money only when nothing can pay |
| `sweep` | 2 sweeps (ether, token) of one address, 2 withdrawals, unseen transfers, two fee levels, 1 trouble | ledger follows the chain; never more swept than credited; no nonce abandoned; every sweep ends, unless its funding's number was handed out twice (section 6) |
| `deposit` | 2 transfers, 4 blocks, 1 reorganisation (it holds with two, in 3.3 million states), 1 crash | books follow credited rows; nothing missed, no phantom credit; the scanner catches up |
| `reconcile` | one deposit, withdrawal (of a token), sweep, nonce fill and stranger's transfer, 3 blocks, 1 reorganisation, 1 pass; no reverting or cancelled withdrawal, no late mark | a recorded difference is the stranger's money, to the unit |

There is one type invariant, `EngineRunner!TypeOK`, because its theorem needs it; in the
other modules the ledger, hold and row invariants bound the variables' values.

Why the bounds suffice. *Market*: four orders give a taker that eats two levels
or two orders of one level, leaves a maker part-filled, and is followed by a
cancel; sequences are capped one above. *Runner*: a stale mirror needs two
engines and one missed commit; a double fill needs one maker and two takers; a
group of two needs an order filled within the group that a cancel names.
*ShadowBook*: three orders make a command of several events; a buffer of 2 overflows
in one command; a repeat is at its worst right after a rebuild. *Webhook*: hazards are
between two workers on one row, or a worker and the operator; duties of different
events meet only in the relay's batches. *PrivateStream*: two events are one before
and one after any cut point, or one on each stream, and pages of 1 make the replay take two; a fault repeats
one row at most, which the log of 3 has room for. *Withdrawal*:
nonce conflicts are between two withdrawals; `DailyLimit` equals one amount, so
one goes through review; what a crash, a revert and a reorganisation do to a nonce or a payment does
not depend on the others, and the theorems of section 5 have any number of each. *Sweep*: a second sweep of the address meets the first one's
remains; a number handed out twice takes two withdrawals (one that commits between the reading
and the writing of the counter, one that takes the number below it) and a sweep that gets the first
one's number after them, which is the instance. *Deposit*: batches of 2 and
a ring of 2 on 4 blocks put reorganisations inside, at the edge of and above a batch,
of lower and of equal height; expiry falls inside the same span. Two transfers, one a
log and one plain, are what a block can mix. *Reconcile*: required confirmations 2 and 1
put the frontiers of the two assets at different blocks, and of three blocks one is
below, one at and one above; the differences of two passes are independent but for the
announcement, so one pass is enough.

The bounds (`MaxOrders`, `MaxSeq`, `MaxSends`, `MaxFaults`, `MaxAttempts`, `MaxSpent`,
`MaxAsks`, `MaxCrashes`, `MaxReverts`, `MaxReorgs`, `MaxHeight`, `MaxTxs`, `MaxDepth`,
`MaxPasses`, `MaxRepeats`, `MaxRows`, `MaxLog`, `MaxRuns`,
`MaxToggles`, `MaxReplays`, `MaxGifts`, `MaxFeeMoves`, `MaxDrops`, `MaxSignerFaults`,
`MaxTroubles`) are constants that appear in guards of clients, environment and faults;
in `Market` two of them also stop new commands, in `Webhook` `MaxRuns` also delays the
consumer, and `MaxPasses` stops new passes. `MaxBuffer`, `MaxHeld` and `PageSize` are the code's own limits, made small. Deadlock is not checked in any run: with
its bounded clients a system may rightly come to rest.

Environment assumptions that are switches, so that both settings can be run
(section 6 says what the other setting shows):

* `Faults` in `Withdrawal` ("signer": the signer refuses or does not answer; "rpc": a send
  fails whether or not the node took it; "reresolve": an operator resolves a refunded
  withdrawal again) and in `Sweep` ("signer", "rpc" alike; "fill": a nonce fill cannot be
  signed). The passing runs have "signer" in both and "rpc" in `Withdrawal` only.
* `MidTick` and `LateReturn` in `Deposit`: a reorganisation inside a tick; a transfer that is on
  the chain, or comes back, when its reversal has been asked for. Off in the passing run. A
  reorganisation never goes deeper than the ring, below which the code asks for an operator.
* `MayRevert`, `LateMark`, `CancelledBy` in `Reconcile`: a withdrawal that reverts; a sweep mined
  before its row says broadcast; cancelled withdrawals. Empty or off in the passing run.
  `BreaksAreReal` also excepts, by `settled` and the hashes, a pass that met a reorganisation which
  the scanner had not followed yet or which undid something booked.

## 4 Fairness

* `EngineRunner!Fairness`: weak fairness of each engine's own steps (`AcquireLock`,
  `RestoreSeq`, `RestoreOrders`, `GroupStep`): one goroutine per market in a loop
  with nothing to wait for but Postgres; and of `DBCommit \/ DBAbort`: Postgres
  finishes a COMMIT it received or notices the dead connection. Clients, timeouts
  and crashes are not owed, and bounded, so a rebuild that fails does so finitely often.
* `EventBus!BusFairness`: the relay's loop goes on, and an open transaction commits or
  rolls back.
* `Webhook!Fairness` adds the consumer (`Consume`), each worker's ticker (`Dispatch`) and the
  end of an operator's transaction; POSTs may fail for ever, disables and replays are not owed.
* `PrivateStream!Fairness` adds the connection's goroutines (`Server`), the feed's consumers
  (`Feed`) and the client's reconnecting loop (`Client`); `Drop` is a bounded fault.
* `Deposit!Fairness`: weak fairness of the tick (the scanner's ticker calls it for
  ever and logs its errors), of `Start` (the process is restarted) and of the node
  growing back to the height it had: after a reorganisation a branch soon is as long
  as the one it replaced. Nothing else is owed.
* `Sweep!Fairness`: the sweeper's ticker, the commit and the send of the other goroutine's
  withdrawal, the restart of a process that died, and a transaction that could be mined for ever is.
* `Market`, `ShadowBook`, `Withdrawal` and `Reconcile` state safety only: what they wait for are
  clients, operators and blocks.

## 5 What is proved

**The runner.** `EngineRunner_proofs` proves, for all `Engines`, `Places`, `Cancels`, group sizes,
numbers of sends and faults (assumption `RunnerAssumption` on the constants, and
`NoTxAssumption`: the null transaction is not a transaction):

| Theorem | Statement |
|---|---|
| `Invariance` | `Spec => []IInv` |
| `TypeCorrect` | `Spec => []TypeOK` |
| `MirrorIsFaithful` | a mirror whose sequence is the database's has the database's book |
| `FillsArePaired` | every fill has two parties of opposite sides that name each other |
| `SequencesAreUnique` | no sequence used twice, none ahead of the counter |
| `OldestIsFilledFirst` | time priority over the rows |
| `EndedOrdersStay` | a terminal row never changes |
| `AnswersAreDurable` | an answer given describes committed rows, and stays true of them |

The argument. None of these is inductive by itself: a commit publishes what the
walk did to a private copy, and the walk relied on a mirror. So

    IInv == TypeOK /\ OwnerInv /\ TxInv /\ MirrorInv /\ RowsGood(row, dbSeq)

* `OwnerInv`: exactly the engine in phase walk or committing owns the transaction.
* `TxInv`: the private copy is itself good (`RowsGood(tx.row, tx.next)`), its open
  orders differ from the committed ones only if its sequence does, and it changes no terminal row.
* `MirrorInv`: per engine: a mirror is never ahead of the database; one that knows
  the present sequence has the present book; the owner's book is the private copy's.
* `RowsGood`: fills are paired, sequences unique and bounded, oldest filled first.

The lemmas `RejectRow`, `RestRow`, `CancelRow` and `FillRow` say that each way of
writing a row keeps `RowsGood`; `WalkSteps`, `StartSteps`, `GroupSteps`,
`FaultSteps` and `CommitStep` take one action each. The heart is that each commit
raises `last_seq` if it changes any open order, so equality of `r.seq` with the
locked row implies an equal book.

Answers have an invariant of their own, `AnswerInv`: an answer prepared in a group is true of the
transaction's copy (`Says(tx.row, ...)`) and statuses only move `Forward` from the rows to the copy;
the commit makes the copy the rows, so the answers of a committed engine are true of the rows before any is
given. An answer from the pre-read is true because rows only move forward from what was read.

**The market.** `Matching_proofs` and `Market_proofs` prove, for all finite sets of accounts, all inputs, deposits,
configurations, fees and bounds (`MarketAssumption`), without further hypotheses:

| Theorem | Statement |
|---|---|
| `Inductive` | `Spec => []IInv` |
| `HoldsAlwaysExact` | an account's hold is the sum of what its rows hold; nobody overdraws |
| `HoldAlwaysCovers` | an open row holds what its rest costs at its limit, an ended one nothing |
| `AlwaysConserved` | what the accounts own and the fees add up to what was deposited |
| `RestoreAlwaysFaithful` | a running market's book is the one a restart would build |
| `BookAlwaysWellFormed` | prices, levels, queues, cached quantities and index agree, and the book is not crossed |
| `AlwaysPriceTimePriority` | fills at the maker's price, best price first and oldest first; with an own order only where the configuration allows it |
| `AlwaysWithinBand` | a market order stays within its band and its budget |
| `AlwaysUsesTheBook` | a market order ends unfilled only when nothing more could trade |

    IInv == seq \in Nat /\ Entry(reg) /\ Entry(cache) /\ Kept(seq, orders, bal, revenue)
            /\ (runner = "running" => BookInv(book, orders, OpenIn(orders)) /\ book.lastSeq = seq)
            /\ trades \in Seq(TradeRow) /\ BookFine(book)

`Kept` is the committed state: rows that are well formed (`RowsInv`), `Covered` and `Uncrossed`, and `MoneyInv`, holds
and totals as sums. It is not inductive alone, because a settlement takes its makers from the book: `BookInv` says
that a running market's book lists the prices of the open rows, each once and the best first (`SideInv`), and under
each the rows that rest there, each once and the oldest first, with the sum of what they have left (`LevelInv`). A
book left by a failed settlement no longer has the committed rows, but it is that of some rows (`BookFine`); a rebuild makes
`BookInv` true again from the rows alone (`RebuiltBook`).

A command runs two loops one after the other: `Match` over the book, then one settlement per fill over the rows.
`Flight(b, row, s, st, x)` ties them as if they ran together: the book after n turns holds the rows after the fills
of those turns, the taker's row holds its placed amount less what its fills used, and the money agrees, or the settlement
has failed. `StepFlight` is one turn, in which the maker is the head of the best level, hence an open row (`MeetMaker`)
whose hold covers it; `FillMoney` is the arithmetic of one fill: quote, price improvement released, both fees, both
holds. `MatchFlight` repeats it, `AcceptKeeps`, `RejectKeeps` and `CancelKeeps` end a command, `StepKeeps` has one case
per action. What `FoldLeft` computes turn by turn is proved from its definition (`MatchFold`, `SettleFold`,
`InsertFold`, `AddFold`) like the sums, through a least counterexample.

The order in the book is part of `BookInv`, so a set of rows determines a book (`SameOrder`, `LevelSame`,
`SideSame`), and `RestoreFaithful` says that the running book and the rebuilt one hold the same rows. The action
properties follow from one step: `HeadIsFirst` says that nothing of its side is before the head of the best level,
and `Fair` records for each fill of a command that what was before its maker is filled (`FairTrade`) and, for a
market order, that its price was within the band of the first best price; `Over` says why the loop ended.

**Webhooks.** `Webhook_proofs` proves, for all endpoints, workers, schedules (`Budget`),
`MaxDeliver`, batch sizes, accounts, streams and numbers of faults (`EventBusAssumption`,
`WebhookAssumption`):

| Theorem | Statement |
|---|---|
| `Invariance` | `Spec => []IInv` |
| `DeliveryIsKept` | `Spec => Kept`: `Webhook` on `EventBus` implements `AtLeastOnce` |
| `RunsEndWithCause` | a queued run ends only by an answer, its last attempt or a disabled endpoint |

    IInv == BusInv /\ ActiveInv /\ ConsumerInv /\ QueueInv /\ WorkerInv /\ Handled

`BusInv` says that the relay holds only committed rows and that what is marked, sent or in the
duplicate window is in the server's log; `ConsumerInv` that a message in hand is not acknowledged;
`QueueInv` that nothing is queued, recorded or told of an event that did not happen; `WorkerInv` that a
worker with an answer has told the endpoint; `Handled`, the heart, that each duty of an acknowledged
message, and of one in hand each duty `Enqueue` has written, is queued, told or excused. The abstract
`Close` may let go of a duty only with an answer or an excuse: for the consumer that is `Handled`, for a
worker that settles it is `WorkerInv`. With the invariant every step is a step of `AtLeastOnce` or a
stutter: a commit is `Happen`, a published repeat, a redelivery or a replay is `Again`, an
endpoint's 2xx is `Tell`, a settlement, an exhausted message or a disabled endpoint is `Close`
(`BusRefines`, `ReceiveRefines`, `EnqueueOneRefines`, `HandRefines`, `DispatchRefines`, `OperatorRefines`).

`RunsEndWithCause` needs to know that a run that is given up was really tried: `RunInv` counts. For each
queued run, `Counted` says that the endpoint was posted to at least as often as the row counts attempts plus
the workers that have posted the current run and not settled it (two workers may hold one attempt, and a
settlement that finds the row moved on counts nothing).

**Deposits.** `Deposit_proofs` proves, for all finite sets of deposits, tokens, batch sizes, ring depths,
confirmations, chain heights, numbers of crashes and reorganisations (`DepositAssumption`):

| Theorem | Statement | Hypotheses |
|---|---|---|
| `LedgerInvariance` | `Spec => []LedgerInv` | |
| `BooksAreRight` | account, custody and revenue are what the credited rows say | |
| `CreditsAreFinal` | only the reversal an operator asked for after a reorganisation moves a credited row | |
| `FollowInvariance` | `Spec => []FollowInv` | `~MidTick` |
| `NoPhantomCredit` | with the tip's hash the chain's, a row's block has its transfer | `~MidTick` |
| `NothingIsMissed` | with the tip's hash the chain's, no transfer below the cursor lacks its row or credit | `~MidTick`, `~LateReturn` |

The books: the journal's keys follow the rows (`KeysFollow`), so a credit or reversal is posted once
whatever is repeated. The chain: `Vouched(m)` says that the ring's hash at `m` is the chain's or lies below
every reorganisation; `Connected`, that a vouched height vouches for all below it, which is what makes
`commonAncestor`'s single comparison at the top enough; `RowsTrue` and `AllSeen` then carry the rows and the
transfers from the vouched tip down. `TickInv` is what each stage of a tick may rely on. The hypotheses are the
passing run's settings, and both are needed: TLC finds `NoPhantom` violated with `MidTick` (section 6), and
`NoneMissed` with `LateReturn`: a reversed transfer that returns keeps its reversed row.

**Withdrawals.** `Withdrawal_proofs` proves, for all finite sets of withdrawals, amounts and limits, replacement counts,
crashes, reverts and reorganisations, and each kind of fault (assumption: "fill" and "none" name no withdrawal):

| Theorem | Statement | Hypotheses |
|---|---|---|
| `WalletInvariance` | `Spec => [](LoopInv /\ ChainInv /\ KeysFollow)` | |
| `PaidAtMostOnce` | the chain pays a withdrawal once at most | |
| `ReturnedOnlyWhenOver` | money given back by a displacement or refund cannot be paid any more | |
| `ConfirmedStaysPaid` | no reorganisation takes a confirmed withdrawal back | |
| `NonceHasATaker` | no nonce is abandoned while the role is up | |
| `LedgerAlwaysAgrees` | every ledger bucket is what the rows say | no "reresolve" fault |

`LoopInv` ties the row to the sending loop's `job`. `ChainInv` has the heart, `OneNonce`: every signed
transaction of a withdrawal has the nonce its row names now or one that is `Dead` (settled below the
confirmations without paying it), so two payments would share a nonce. `Settled` says that what an ended row
claims is beyond the confirmations; `Covered`, that each nonce between the chain and the counter has a
holder, a transaction in a mempool or a recycling under way. The ledger's invariant `BookInv` follows the
posting keys per attempt (`KeysFollow`); a retry after a refund breaks it (section 6), hence the hypothesis.

**Sweeps.** `Sweep_proofs` proves, for all finite sets of sweeps, all withdrawals beside
them, amounts, thresholds, fee levels and numbers of troubles (`SweepAssumption`):

| Theorem | Statement | Hypotheses |
|---|---|---|
| `SweepInvariance` | `Spec => []Core` | |
| `SweptCredited` | of no asset is more swept, or about to be, than was credited | |
| `NoncesClaimed` | between two steps of the sweeper each nonce not mined has a taker | no "fill" fault, fees up to the ceiling |
| `BooksAgree` | custody is what the address holds, but for the open sweep's unbooked moves | no "rpc" fault |

`Core` is types, one open sweep at most, the agreement of `job` with its row, and `ChainInv`: a transaction
that exists is `Genuine`, the one its row records, and sits at its nonce's place. The credits: `CreditInv` sums
`Taken`, where an open ether sweep already counts the gas it will burn. The nonces: `NonceInv` says that each nonce
is `Claimed` by a holder or an open sweep, and that one about to be let go was `Freed` (stepped back, filled or handed
out again). The books: `LiveInv` says that a transaction still in a pool belongs to a row that waits for it
(`Awaited`), which is why a refused sweep can be failed without a gap, and is false when a refusal may hide a
transaction the node took ("rpc"). `BooksInv` then states the books of the one open sweep without a sum: the funding
that `Came`, what `Went`, the gas `Burnt`. All hypotheses hold in the passing run; `MCSweepHole.cfg` shows that the
first is needed. `NoncesClaimed` gives a nonce below the counter at least one taker; that it has no second one
is false (`MCSweepTwice.cfg`).

`SweptWasCredited` and `BooksFollowChain` are sums over sets of sweeps, which `MapThenSumSet` defines by taking
away one chosen element at a time. `Sums` proves what such a sum does (`SumSplit`, `SumChange`,
`SumDisjoint`, `SumMono` and others) without the library's induction theorems, which take an operator:
strict inclusion is well founded on the subsets of a finite set (`FS_StrictSubsetOrderingWellFounded`), so a
set of counterexamples would have a minimal one (`Minimal`), and that one is refuted.

Only model-checked: every liveness property (liveness and ENABLED are outside this prover's reach), and all of
`ShadowBook`, `PrivateStream` and `Reconcile`. Of `Market`, `EngineRunner`, `Webhook`, `Deposit`, `Withdrawal` and `Sweep`
every safety property of the passing runs is a theorem, under the hypotheses given above.

## 6 Where code and documents disagree

Each of these is a counterexample that `tlc -config <cfg> <module>` prints; their
configurations stand beside the runs of section 3.

| Configuration of module | Violated | What happens |
|---|---|---|
| `MCMarketRestart.cfg` of `MCMarket` | `RestartRebuilds` | `UpsertMarket` changes tick or step while orders rest; `validateResting` then refuses them and after a restart the market has no runner, where `docs/runbooks/engine-restart.md:38` says a crash needs no handling |
| `MCWithdrawalNonce.cfg` of `MCWithdrawal` | `NonceOfOne` | a signing error recycles a nonce that stays on the row (`broadcast.go:181`), so two withdrawals hold one number, which `migrations/0011_chain_signing.sql:7` says never happens. `PaidOnce` and `NoAbandonedNonce` hold all the same: only one of the two transactions is mined and the other is resent |
| `MCWithdrawalRefund.cfg` of `MCWithdrawal` | `RefundEnds` | a refunded withdrawal is still `failed(on_chain)` and can be retried (`resolve.go:315`); the amount is sent although the user has it back, where `resolve.go:265` says a refund ends the withdrawal |
| `MCDepositParent.cfg` of `MCDeposit` | `NoPhantom` | a reorganisation between `TransferLogs` and the blocks of a tick is not seen: neither parent hashes nor the logs' block hashes are compared (`docs/domain.md:223` says the former is) |
| `MCDepositReversed.cfg` of `MCDeposit` | `CatchesUp` | a reversed transfer that is on the chain when its block is scanned violates a CHECK; the scanner stays below that block for good |
| `MCSweepStuck.cfg` of `MCSweep` | `FundingEnds` | the fee moves between the pinning of a funding's amount and a failed signing; the retry's amount differs and `signer/sweep.go:141` refuses it for ever, and the pinned hot-wallet nonce holds up every later withdrawal (comment at `sweep/run.go:117`) |
| `MCSweepHole.cfg` of `MCSweep` | `NoAbandonedNonce` | `fundGas` logs the error of `Recycle` and fails the sweep all the same (`run.go:77`): when the fill could not be signed nobody is left to spend the number before the next start |
| `MCWebhookRow.cfg` of `MCWebhook` | `NoUnreachableRow` | under READ COMMITTED a disable between the read of the status and the insert of a replay, or of `Enqueue`, leaves a queue row nobody claims, against the comment at `webhook/store.go:290` |
| `MCSweepTwice.cfg` of `MCSweep` | `NonceOfOne` | `Recycle` reads the committed counter, another allocation commits the next number, and `SetNextNonce`, which waited for its row lock, steps the counter back below it (`nonce.go:227-235`): that number is handed out a second time, where the comment at `nonce.go:67` says the manager's lock prevents it (it covers the call, not the caller's commit). If the second taker is a sweep's funding and the withdrawal is mined first, the node calls the funding "nonce too low", which counts as sent, and the sweep stays `requested` for good: without a crash, a failing signer or a dropped fill. `SweepsEnd` excepts exactly this (`Overtaken`) |
| `MCPrivateLoss.cfg` of `MCPrivateStream` | `ResumeLosesNothing` | `authenticate` binds the connection (`private.go:118`) before it holds, so a live frame may go out before the acknowledgement; `private.ts:156` advances the resume point with it, and the events before it are neither replayed nor, on a first connection, fetched. One stream, no fault. `docs/ws-api.md:156` says no frame is lost across the join |
| `MCPrivateTwoStreams.cfg` of `MCPrivateStream` | `ResumeLosesNothing` | the feed reads EX_TRADING and EX_CHAIN with a consumer each (`app/stream_role.go:149`), so a deposit's frame may come after a later order's, which has moved the resume point of a client that "remembers the highest `account_seq` it saw" (`docs/ws-api.md:164`) beyond it; if the connection is lost in between, the deposit is never asked for. The sequence orders the two streams only for a client that waits for every number |
| `MCShadowFlush.cfg` of `MCShadowBook` | `FlushIsHarmless` | the flush timer (50 ms) is shorter than the relay's poll (100 ms): it closes half a command and the rest is ignored as already applied (`projector.go:202`), so the book stays wrong, where `projector.go:49` promises a late delta |
| `MCReconcileRevert.cfg` of `MCReconcile` | `BreaksAreReal` | `inFlight` adds a withdrawal's amount without looking at the receipt's status: one that reverted and is not booked yet is a false break |
| `MCReconcileLate.cfg` of `MCReconcile` | `BreaksAreReal` | a sweep mined before its row is marked broadcast is not in `ListOpenChainWork`, and its gas is a false break |
| `MCReconcileReorg.cfg` of `MCReconcile` | `EveryBreakIsReal` | hashes are compared around the balances only: a reorganisation before the ledger or the receipts are read, or one the scanner has not followed, gives a false break, where the comment of `Tick` says such a pass is dropped |
| `MCReconcileCancel.cfg` of `MCReconcile` | `GasBookedOnce` | a cancellation's nonce fill is booked by `bookOneFill` under `nonce_fill:gas:` and by `settleCancelled` under `withdrawal:gas:` (`resolve.go:389`), where `queries/reconcile.sql` says `ConfirmNonceFill` lets the gas be booked exactly once |

Found on the way, without a configuration of their own:

* `broadcastFailed` (`broadcast.go:333`) gives the funds back after any send error while the
  nonce is not counted by the node, although the transaction may be in a mempool;
  its comment says the opposite. `ReturnedIsOver` therefore speaks of operators' returns only.
* An identical request whose first sending commits between its pre-read and its insert
  is answered with a mismatch (`batch.go:167`) where the restart runbook promises
  the order. And `batch.go:236` says any error means nothing was committed; a COMMIT that times
  out may have been, which the re-run of the group then discovers.
* A fill of one unit whose fee is one unit cannot be settled (`settle.go:85`,
  `docs/domain.md:259`): the command fails as an internal error.
* Orders of a delisted market cannot be cancelled, so their holds stay (`policy.go:50`).
* `Reload` does not reconfigure a running market (`admin/writes.go:405` expects it).
* `last_seq` equals the largest order sequence (`engine-restart.md:59`) only until
  the first cancel. The rebuild reads sequence and orders in two statements, not in
  one snapshot (`engine-restart.md:33`); a difference is caught by the next group's comparison.
* A credited deposit that was stamped and then reappears stays in the operator's queue,
  described as "credited deposits the chain no longer shows" (`queries/deposits.sql`).
* Below the pruned ring `commonAncestor` takes a height without a record for the ancestor,
  so a chain that got shorter by more than the ring is followed without an operator.
* Sweeps: `holders` (`nonce.go:165`) does not count a sweep's funding nonce, so a restart fills it. A
  crash between `Recycle` and the row that forgets the nonce uses a recycled number again. A nonce fill
  that the node dropped is not sent again. Ether the scanner cannot see pays gas, so
  `custody:deposit_addresses` may go below zero. A refused send fails the sweep although a node may hold
  its transaction.
* Webhooks: ten deliveries two seconds apart lose an event after some twenty seconds of a failing
  `Enqueue` (`docs/webhooks.md` says at least once; `Kept` counts it as an excuse). Two workers that
  claim one attempt count it twice, and a POST that was answered may be recorded as failed.
* Private stream: stopping the hold timer does not stop a function that already runs; a ping does not end
  the hold although `private.ts:128` says so; a replayed event that the relay repeats,
  or publishes for the first time only after the release, is sent twice (`docs/ws-api.md:156`: "lost or duplicated").
* Reconcile: the two settlements of a cancellation give neither row its cost and block, so a
  frontier below that block counts it on one side only.

## 7 What is not modelled

* `auth` (logins and refresh tokens: each operation is one transaction under a row's lock),
  `ratelimit` (a counter under one lock), `audit` (append-only), `money` (amounts are integers here),
  `evm`, `hdwallet`, `api`, `app`, `telemetry`, the command-line tools and the deployment, which are I/O,
  arithmetic, wiring, derivation or generated code. More than half of the repository's lines are
  generated clients, servers and query wrappers.
* Of `cmdbus` the wire format and deadlines; of `registry` assets, chains and seeds; of `admin` everything but
  market and account status; of the ledger credits, adjustments and break repair.
* Of withdrawals: fee and gas amounts, the fee ceiling, native against token, KYC levels. Of sweeps: several
  addresses, the fee estimate's arithmetic, confirmations and reorganisations of the sweep itself. Of deposits:
  the address pool, unreadable or failed transfers, the exchange's own transfers, the anchor. Of reconcile: the
  alert for a low hot wallet, gas fundings (to a pass they are what a sweep is), the reports operators read.
* Of the event bus: envelope formats, retention of the streams and pruning of the outbox. Of webhooks: the
  address guard, signatures and secrets, pruning, the event filter. Of the stream: tickers, klines, trades,
  the fills channel, heartbeats and limits. Of marketdata: candles, tickers and caches.

## 8 Plan

Done: `OrderBook`, `Market`, `EngineRunner`, `Withdrawal`, `Deposit` and `Sweep` with proofs; `EventBus`, `Webhook` with
its refinement and proofs, `PrivateStream`, `ShadowBook`, `Reconcile`.

Left, in this order:

1. Proofs: `JoinIsComplete` of `PrivateStream`, `ClosedByItsOwn` and `DeltasContiguous` of `ShadowBook`.
2. An abstract engine (a set of orders and fills, commands atomic) that `EngineRunner` implements, as a
   `PROPERTY` and as a theorem, and `Market` on top of it.
3. `Withdrawal` and `Sweep` on one nonce manager with all of both; the sweep's own reorganisations.
4. Candles and tickers beside the shadow book; the token families of `auth`; the deadlines of `cmdbus`.
