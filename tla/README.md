# Verification of polytrade-bot

TLA+ models of the parts of polytrade-bot that move money, model-checked with
TLC on small instances and, where it says so, proved with TLAPS for every
instance. Paths such as `copy_engine.py` are under `src/backend/core/` unless
another directory is named.

## 1. The system

polytrade-bot copies the trades of chosen Polymarket wallets ("leaders") into
each user's own deposit wallet. One process (`Dockerfile`: `--workers 1`) holds
an HTTP API, a detection loop, a reconcile loop, a withdrawal loop, a redeem
loop and a deposit scanner; all of them are asyncio tasks that share one
database (Postgres, or SQLite) and interleave at every `await`. Outside are the
exchange (orders), the chain (balances, transfers), the data-api indexer (a
late view of both), the relayer and a bridge.

| component | state | operations | interacts with |
|---|---|---|---|
| BUY claims (`copy_engine.py`, `copy_open_claims`) | one row per (user, token): reserved, submitting, uncertain | reserve, verify, submit, answer, record, recover, settle, operator clear | exchange, indexer, chain, settings, SELLs |
| tracked rows (`copy_positions`) | shares, status open/closing/closed/resolved/reconciliation_required | open, resize, SELL fence, close, recover, external close | exchange, indexer, BUY claims |
| withdrawals (`withdraw.py`) | row per withdrawal, `halted`, busy set, follow tasks | request, send, follow, reconcile, operator resolve | relayer, chain, bridge, collateral cache |
| spendable cash (`copy_engine.py:2399`) | cached balance with a deadline | read, invalidate | exchange, withdrawals |
| planning (`copy_engine.py:247`) | none; attempt counters beside it | plan, count non-fills, re-arm | leader positions, rows |
| detection (`copy_engine.py:1003`, `detection.py`) | cursor and seen set per (user, leader) | tick, apply | leader activity, BUY/SELL paths |
| wallet creation (`db/database.py:278`) | lease row: claimed, side_effect_started, complete | acquire, start, release, finish | SDK |
| redeem (`redeem.py`) | halted flag, cooling set | pass | ledger fences, chain, relayer |
| deposits (`deposits.py`) | chain cursor, one row per transfer | pass | chain, telegram queue |
| leader cash (`leader_cash.py`) | last reading, failure, shared read per leader | read | chain, planning |
| locks (`locks.py`) | lock per key with a reference count | hold | BUYs, settings, withdrawals |

What makes it hard is the same everywhere: an order, a transfer or a batch may
take effect although the call that sent it failed; the process may die between
sending and writing; the indexer shows yesterday's truth; and values are read
before an `await` and used after it. `PROJECT.json` lists each hazard at its
line with the properties that cover it, or why none does.

## 2. Modules

| module | what it is |
|---|---|
| `BuyPromise` | abstract specification: what the fenced BUYs of one user promise about budget, delivery and booking |
| `BuyFence` | one user's BUY claims, tracked rows, SELL fence, reconciler, operator, settings, exchange, indexer, crash; implements `BuyPromise` |
| `MCBuyFence` | its TLC instances |
| `BuyFence_proofs` | its inductive invariant and theorems |
| `WithdrawPromise` | abstract specification: what a withdrawal promises about the money |
| `Withdraw` | requests, follow tasks, reconciler, operator, relayer, chain, bridge, restarts; implements `WithdrawPromise` |
| `MCWithdraw` | its TLC instances |
| `Withdraw_proofs` | its inductive invariant, the refinement and theorems |
| `CopyPlan` | `plan_actions` as operators |
| `CopyPlan_proofs` | what `plan_actions` returns for any input |
| `CopyLoop` | the reconcile loop if a pass were one step: what the planner itself promises |
| `MCCopyLoop` | its TLC instance |
| `CopyLoop_proofs` | its inductive invariant and theorems |
| `CopyPass` | pass, fast path, manual and external close and recovery on the rows of one user, each with its own copy of a row |
| `MCCopyPass` | its TLC instances |
| `CopyPass_proofs` | its inductive invariant and theorems |
| `Detection` | the detection tick, both detectors, cursors and dedupe |
| `Detection_proofs` | its inductive invariant and theorems |
| `WalletCreation` | create-wallet and link-telegram against the durable claim |
| `LeaderCashReader` | the shared, cached reading of a leader's free cash |
| `Collateral` | the engine's cache of a user's balance |
| `Deposits` | the deposit scan and its alerts |
| `Redeem` | the redeem job |
| `KeyedLocks` | the per-key locks |
| `Services_proofs` | inductive invariants and theorems of `WalletCreation`, `KeyedLocks`, `LeaderCashReader`, `Collateral`, `Redeem` and `Deposits`, a section each; and of all seven that what holds of one holds of `MCServices` |
| `FoldFacts` | sums over finite sets and folds over sequences, for the proofs |
| `MCServices` | one TLC instance of `Detection`, `WalletCreation`, `LeaderCashReader`, `Collateral`, `Deposits`, `Redeem` and `KeyedLocks`, which share no state |

### BuyFence

Variables and where they live in the code:

| variable | code |
|---|---|
| `claim[t]` | the `copy_open_claims` row of token t |
| `row[t]` | the live `copy_positions` row; its `age` is that of `token_last_change`, which outlives the row |
| `paused`, `rev` | `users.paused` / the follow's `paused` and `is_active`; `users.risk_revision` |
| `worker` | the BUY inside `_execute_buy`, which runs under the user's risk lock |
| `seller[t]` | the SELL that owns the closing fence, and its order |
| `scan[t]` | what one reconcile pass has read for one claim: indexer size, chain balance |
| `ack` | a settings request waiting in `_wait_for_trader_submissions` / `update_settings` |
| `order[i]`, `wallet[t]`, `indexed[t]`, `seen[t]` | the exchange, the chain and the data-api |
| `waived` | history: tokens whose fence an operator removed against the facts |

Actions follow the code's transactions: each database transaction or
conditional UPDATE is one action and each `await` outside one is a point where
everything else may run. `AnswerNotFilled`, `AnswerUnknown` and `AnswerFilled`
are the outcome classes of `_execute_buy`; a not-filled answer is possible only
for an order that was not sent or that the exchange killed, because
`execution._terminal_rejection` accepts only those. A refused SELL is never
treated as a non-fill (`execution._finalize`).

Ages stand for the cut-offs: `new`, `due` (2 min in flight, 3 min uncertain,
10 min closing) and `old` (15 min of chain evidence). The guards of `AgeClaim`
and `AgeRow` are what the cut-offs rely on; they are the environment
assumptions of the model:

* an order call ends and its order is final within 15 minutes, a SELL within 10;
* the indexer shows a change before the cut-off that follows it;
* one reconcile pass is shorter than 3 minutes;
* only the engine changes the wallet's shares of a token;
* a SELL's caller has a current copy of its row (`CopyPass` drops this);
* markets stay unresolved, so `reconciliation_required` and `resolve` are absent.

Data abstraction: a share costs one dollar, so notional, shares and spend are
one number; one source is copied; `_clamp_to_verified_position` may choose any
smaller amount (the submitted-notional memory only lowers it); a settlement's
reads and its transaction are one step, because the transaction re-checks the
claim's id and state and the row's shares; claim ids are re-used once nothing
refers to them; `risk_revision` counts modulo `MaxRev + 1`.

`BuyPromise` knows of each token whether a BUY is out, what it may deliver, what it
delivered that no row accounts for, and what is booked. The mapping is `BuyFence!Books`:

* `stage` is `overruled` for a token in `waived`, `free` without a claim, `bought` once the
  claim's order is filled, `out` before;
* `budget` is the claim's reservation, `booked` the row's shares less what its SELL took,
  `due` what the wallet holds beyond that.

Properties:

* `KeepsBooks` (refinement): a token is bought again only when every share of the BUY before
  is booked; a BUY delivers once and at most its reservation; no share is booked twice,
  whether the answer, the reconciler or a closing row that reopens books it, nor lost; what
  is booked leaves by a SELL only. The invariants below speak of one state each; this one
  relates the steps, and a late answer that books what was adopted breaks it.
* `LiveOrderFenced`: a BUY the exchange may still execute is fenced by its own claim.
* `UnfencedIsBooked`: a token without a claim has exactly its wallet's shares in its row.
* `OpenRowBacked`: a row open to SELLs never promises shares the wallet lacks.
* `MoneyWithinLimits`: shares held or on their way stay within both limits.
* `AckedPauseHolds`: an answered pause is in force.
* `UncertainSettles`: an uncertain claim is released or adopted (liveness).
* `OpenRowsWithinSlots`: the documented cap on open copies, which the code does
  not keep (see findings).

Except for the pause, they are void for a token in `waived`: an operator who
clears a fence without a chain reader, or with `--force`, or while the order is
still pending, answers for it.

### Withdraw

A withdrawal is the row of one (user, idempotency key); `Keys` are those pairs
and `Owner` gives the user. Variables and where they live in the code:

| variable | code |
|---|---|
| `row[k]` | the `withdrawals` row: status, `delivery_tx_hash`, whether `bridge_status` is FAILED, whether an operator resolved it |
| `age[k]` | whether the cut-off of the row's status has passed: 2 min requested, 15 min submitting or submitted, the bridge timeout, one day in attention |
| `halted`, `busy` | `Withdrawer.halted`, `Withdrawer._busy` |
| `task[q]` | one shielded `request()`: before its lock, reserved, bridge address known, inside the relayer call |
| `follow[k]` | the `_follow` task and the payment it found and is about to settle |
| `rec` | one pass of `reconcile`: the rows as read at its start, the row at hand, the payment found for it |
| `pend[k]`, `moved[k]` | the relayer's accepted batches and the chain's transfers |
| `since[k]` | the transfers and payments older than the row's `submit_block` |
| `bridge[k]`, `paid[k]` | the bridge's status endpoint and its USDC payment |

`WithdrawPromise` knows only the phase of a withdrawal and how often its amount
left. `Withdraw!Phase` maps `none` to none, `HOLDING` to held, `failed` to
released, `bridging` and `attention` to away, `confirmed` and `refunded` to
closed; `moved` maps to itself.

Every conditional UPDATE (`_move`) is one action, with what follows it before
the next `await`. `FollowFinds`/`FollowSettles` and `RecFinds`/`RecSettles` are
separate because `_find_delivery` reads the claims, awaits a receipt and only
then writes. `Crash` empties the process and keeps the table and the outside.

Abstractions:

* all rows have one amount and one destination, the case in which transfers and
  payments are hardest to tell apart; bridge addresses differ per user only, so
  a transfer is looked for among all of the user's rows;
* refused input, quote, balance, limit and failed reads before the row exists
  are one outcome, `TapRefused`; a request with a known key only reads the row
  back and is no step;
* an address is known in every status past `requested`, so the `not bridge`
  branches of `_check_send` are unreachable and absent;
* `busy.add` is one step with the insert (a row that young gives the reconciler
  nothing to decide); a note and the move to attention it explains are one step;
* the five blocks (about 10 s) `_find_transfer` looks back before `submit_block`
  are left out: an earlier withdrawal of the user is final by then, and one that
  moved took the bridge longer than that;
* a FAILED report of the bridge is final and comes before any payment.

Environment assumptions (the guards of `AgeRow`, `Drop` and `Report`): a batch
is signed within about 90 s of `submitting` and expires 600 s later, so that it
is decided, and its transfer visible, before the 15 minutes of
`BATCH_EXPIRY_SECONDS`; the relayer does not accept what it answered with a
rejection; only this service sends pUSD to bridge addresses.

Properties:

* `KeepsPromise` (refinement): the amount leaves at most once and only while the
  row holds it; a failed row was never and will never be paid; a row counted as
  away has left.
* `ConfirmedIsPaid`: what the program confirms by itself names a payment of at
  least the quoted minimum.
* `InProgressEnds`: a row in progress is failed, confirmed or handed to the
  operator (liveness).
* `PaymentsNotShared`, `NoSendOnceHalted`: what comments in `withdraw.py`
  promise and the code does not keep (see findings).

### CopyPlan and CopyLoop

`CopyPlan!PlanActions` translates `plan_actions`: position and capital-share
sizing, the cap per position, the exposure and the number of copies, the 25 %
bands and the anchor (`trader_shares`), resolved markets, and closing what the
leader left, unless the list of positions was truncated. `Buy` takes each
planned order out of the budget of the rest of the plan. A share costs one
dollar and fractions are rounded down.

`CopyLoop` carries a whole plan out with exact fills, for every order of the
leader's list, and asks two things of the planner:

* `PlanWithinLimits`: the BUYs of one plan together fit cash and limits;
* `PlanSettles`: planning again for a leader who did not move sells nothing,
  trades no token again and moves no anchor.

### CopyPass

| variable | code |
|---|---|
| `row[t]`, `claim[t]` | the live `copy_positions` row; whose BUY claim fences the token |
| `pass` | `_sync_user`: the rows and cash it read once, and the rest of its plan |
| `job[w]` | the order of the pass, the fast path, a manual or an external close, with the copy of the row it was sized from |
| `attempts`, `preexisting` | `CopyEngine._attempts`, `_no_backfill` |
| `leader`, `view`, `feed` | the leader's shares, what the data-api shows of them, detected trades not handled yet |
| `wallet`, `cash`, `resolved` | the user's wallet and the market |
| `raced` | history: tokens sold from an outdated copy, or reopened while an order was out |

Every `await` between a read and the order separates two actions: `PassRead`,
`PassPlan` and the `Pass...` steps; `FastReadsSell` and `Claims`; `ManualReads`
and `Claims`; `ExternalReads` and `ExternalClaims`; then the answers. `ClaimSell`
is `claim_managed_sell`, which looks at id, status and BUY claim, never at the
shares; `Leftover` writes the shares of the caller's copy minus what was sold. `MayBuy`
counts the rows of this trader (`Copied`); the account's own limit is `BuyFence`'s. The
list a pass plans from may be cut short (`Lists`), which also decides what stays in
`preexisting`.

Abstractions: one leader; a BUY fills or does not (its uncertain life is
`BuyFence`'s); a market order fills whole or not at all; recovery sees an aged
closing row after its order is final (as `BuyFence` assumes), but a row without
`closing_at` at once; the process does not restart.

* `SellsExclusive`: while a SELL is out its row stays fenced under its own id, no
  BUY of the token is claimed, no second SELL is out.
* `RowBackedUnlessRaced`: an open row is backed by the wallet unless one of the two
  races of the violation runs hit its token.
* `HoldingWithinLimit`: whatever was planned from older rows, holdings and the BUY on
  its way stay within the limit per position.
* `RowBacked`, `InFlightCloseUntouched`: what comments promise and the code does not
  keep (see findings).

### Detection

One leader with several followers, in seconds. `fills` is the leader's history;
`Publish` shows a fill on the activity feed late and in any order, on chain it is
visible when its block is mined. `TickStart` is the part of `_detect_tick` before
the fetch (forget unfollowed pairs, start new cursors), `FetchActivity`,
`ScanChain` and `FetchFails` are the shared fetch of the tick with its fan-out,
`Apply` is one round of `_apply_leader_trades`. Handling a fill is a count:
what is done with it is `CopyPass`. `PerSecond` is the assumption under which the
bounded seen set suffices: the fills of one second fit the part that is kept.

* `HandledOnce`, `NoRetroCopy`, `AgeIsTrue`, `ChainServesEveryFollower`: no repeated
  fill, none from before the follow, none that looks younger than it is, and no
  follower left out of a scan. A second fill of one transaction is not handled;
  the code's key is the transaction, and the property says so. It excludes fills `lost`
  to every follower (unreadable, mined before the first scan, or too far behind the head)
  and, for one follower, those `overtaken`: scanned for the others by the tick that set
  this follower's first cursor, whose value is kept in `begun`.

### WalletCreation

`claim` is the user's row in `wallet_creation_claims`, `req[r]` a create-wallet
request between its transactions, `running` the requests whose SDK work may still
be going on (also after the request was cancelled), `deployed` the wallets that
exist. `Prepare` may commit without its caller learning of it. A wallet is named
by its signer and a signer by the request that generated it.

* `KeysKept`, `OneSigner`, `SdkExclusive`, `NoOrphanWallet`: see section 4.

### LeaderCashReader and Collateral

Both name a balance by the second it was true in, so that a property can say how
old it may be. In `LeaderCashReader` a read may be shared, land out of order or
fail; `SizedAfterTheBet` says that a bet is never sized from somebody else's
reading from before the bet. `Lag` is how far behind the chain a node may answer.
In `Collateral` two decisions read at the same time while orders and withdrawals drop
the cache. The drop (`Invalidate`) is not the spend: an order drops the entry before it
is sent, the exchange debits later, and a filled BUY drops nothing, so a read that
overlaps the order, or begins between the two, is cached with the money still in it (see
section 5). No spend is an action here; `BalanceRecent` bounds by `Ttl + ReadMax` the age
of whatever a decision uses, over any order of drops, reads and spends. `ReadMax` is the
client's timeout.

### Deposits

`run[p]` is a pass of process p: head, start, wallets, the chunk's findings.
Passes of two processes overlap; any read may end one (`PassFails`). The alert
queue is bounded and loses what it cannot take.

* `CursorCovers`: no deposit up to the cursor is missing, except in blocks the
  catch-up limit skipped; `AnnouncedOnce`; `CursorForward`.

### Redeem

`sweep` is the running pass, `job[u]` a user's turn, `managed` the markets the copy
ledger still manages, `unknown` the transactions this process sent and whose outcome it
does not know, `orphaned` those of processes that are gone. Any error out of the send or
the wait may leave one behind (`MayLive`), the refusals that halt the job included.
`RedeemRestart` forgets the cool-downs and the halt, which are in memory. The cool-down is
assumed to outlast a transaction the relayer still holds (`Warm`).

* `HaltHolds`: after a halt at most `Concurrency - 1` turns already under way still
  send, in this process.
* `NoSecondTransaction`: a process submits no market again while a transaction of its own
  for it may still execute. An orphaned one may be sent a second time by the next
  process; that this pays nothing twice rests on the chain (`redeem.py:48-50`), for a holding
  the first emptied is gone.
* `OnlyProvenRedeemed`: whichever process sent what, only holdings of resolved markets
  are given up.

### KeyedLocks

`entries`, `refs` are `_entries` and the count in it, `holder` the task inside an
`asyncio.Lock`, `task` the callers of `hold`. Entries are dropped and made anew
while tasks wait and are cancelled.

* `KeyExclusive`: two tasks are never inside one key; `EntriesInUse`: the table holds
  exactly the keys in use.

## 3. Runs

| run | bounds | shows |
|---|---|---|
| `buy_fence` | 2 tokens, the second only bought, 2 claim ids, limits 2 and 2, 2 slots, 1 crash | all safety properties and the refinement of `BuyPromise` |
| `buy_fence_settles` | 1 token, 1 id, 1 crash, fairness | `UncertainSettles` |
| `buy_fence_slots` | 2 tokens, 1 slot, no crash | violation: more rows than slots |
| `withdraw` | 1 user, 2 keys, 2 requests, brake 1, 1 crash | `TypeOK`, `ConfirmedIsPaid`, refinement of `WithdrawPromise` |
| `withdraw_ends` | 1 key, 2 requests, 2 crashes, fairness | `InProgressEnds` |
| `withdraw_payments` | 2 users, 2 keys, 2 requests, no crash | violation: one payment confirms two withdrawals |
| `withdraw_halt` | 2 users, 2 keys, 2 requests, no crash | violation: a send after the halt |
| `copy_loop` | 2 tokens, leader size 4, 4 dollars, limits 3 and 4, 2 copies | types and both properties of `CopyLoop` |
| `copy_pass` | 1 token, leader size 2, 2 dollars, 1 share without a row, 2 leader trades, 1 attempt, 1 fault | types and the three safety properties of `CopyPass` |
| `copy_pass_snapshot` | the same without external closes and faults | violation: a row promises shares that are sold |
| `external_close` | the same without faults | violation: recovery takes an external close in flight |
| `services` | see below | 19 properties of the seven services |

Two ids are enough for an order left behind by a crash and its successor; a
limit of two lets a resize follow an open and a SELL be partial. Tokens meet in the
limits only (and in the slots): `OneAtATime` explores the whole life of one token, and two
tokens together while nothing is sold, stopped or restarted and one of them takes at most
a dollar; that is enough to break the limit that is common to both, and
`MoneyBounded` proves it for everything else. The order ids and the
tokens are symmetric, and a view forgets orders whose id nothing refers to (no action
or property reads them). The constraint `NothingWaived` cuts states after an
operator override, where every property is void; `OperatorClear` is the only
action that leaves it and has no fairness, so the liveness run is unaffected by
the cut. The liveness run uses neither symmetry nor view.

`copy_pass`: with two leader trades a copy is opened, grown, trimmed and left, by pass
or fast path; one share without a row is what an external close sells; one attempt
makes the budget bite at once; six row ids are more than the copies that can refer
to one. The constraint `NothingRaced` cuts what follows a race, where with one token
nothing is claimed any more. `CutLate` lets a list cut short drop a token the leader still
holds from `preexisting` only after the last leader trade and for a user with no shares yet;
other cut lists are not bounded. The violation run leaves external closes out
(`NoExternalClose`) so that its counterexample is the snapshot.

`copy_loop`: four shares let the leader move inside and outside the 25 % bands, two
tokens make a plan of two BUYs meet the exposure cap and the cash, and every plan is
made in both sizing modes, with and without the leader's cash, for whole and truncated
lists and for both orders of the list.

`services`: the seven parts share no state and no guard of one reads another, so
their interleaving shows nothing that they do not show alone: `part` names the one
that runs, the others stay in an initial state. Bounds: three requests and one legacy
wallet; two followers, three fills within three seconds on the feed and two within four
on the chain, page and seen set of two; three calls within three seconds; two
decisions within five; two overlapping passes over three blocks; three users, two
at once, one market; three tasks on two keys. Each lets the case its properties are
about happen (every mutant of the code in `PROJECT.json` breaks its property within
them). The constraint `Bounded` stops the feed's clock at 3 and lets its third fill meet
one follower only, keeps the chain to two fills, and the third block of the deposit scan
to passes that do not overlap; what lies beyond is covered by the proofs of section 4. The followers are symmetric
and so are the users of the redeem job (`Alike`): nothing tells them apart. `RedeemLosses` is FALSE, the
stricter case for `OnlyProvenRedeemed`; `main.py` turns it on by default, and the theorem
covers both. Deadlock is not checked: a service whose bounded
inputs are used up stops.

Fairness (`BuyFence!Fairness`): the reconcile loop comes round for ever
(`_loop` survives exceptions), calls return because the HTTP clients have
timeouts, the exchange decides a fill-or-kill order, and the indexer catches
up: weak fairness. Strong fairness is asked of ageing, because a pass in flight
disables it again and again (`scan`), and of `ReadChain`, because a pass may
fail to reach the chain but not every pass for ever.

Withdrawals: one user with two keys lets a second request race the first, follow
it after it failed or was confirmed, and find its transfer; two users with one
key each share the destination. One crash leaves a row in every status to the
reconciler; the liveness run allows two. Its single key is enough, because a row
in progress depends on other rows only through `reconcile`, which takes them one
after the other. The brake is 1 where it should bite and 2 where it should not.
Symmetry over keys and requests is sound with both owners (`MCWithdraw`) and is
not used for liveness. Deadlock is not checked: a system whose rows are all
final and whose relayer is idle really stops.

Fairness (`Withdraw!Fairness`): a request that holds its lock goes on and its
relayer call returns, a follow task ends (the relayer client stops waiting and
`stop_at` bounds the rest), an accepted batch executes or expires, time passes and
`_withdraw_loop` comes round: weak fairness. `RecMoves` is strongly fair: a
pass may fail to read the chain, or decide nothing, but not every pass for ever.
Nothing is asked of the bridge, the user or the operator.

## 4. Proofs

`BuyFence_proofs` proves, for any finite set of tokens, any ids and any limits,
`TypeOK`, `LiveOrderFenced`, `UnfencedIsBooked`, `OpenRowBacked`, `AckedPauseHolds`,
`MoneyWithinLimits` and the refinement `Implements == Spec => KeepsBooks`, from
`ConstantsAssumption` alone.

The properties are not inductive. The invariant `IInv` adds

* `ClaimInv`: the worker, its claim and the order of that id move together, and
  a claim that is not the worker's is never in a state only the worker leaves;
* `RowInv`: a closing row, its SELL and the SELL's order agree, and a stamp
  stays `new` until the indexer has seen what it stands for;
* `FenceInv`: the evidence in `scan` belongs to the claim it was read for, and
  an old claim's order is final;
* `LedgerInv`, per token no operator overrode: wallet = row - what its SELL
  took, plus at most one BUY that its claim still fences; and once the row's
  last change is due, what the reconciler reads is one of those two amounts.

The last part is the heart: it says why a settlement on evidence can neither
lose nor double a fill. Each conjunct has a step lemma (`TypeStep`, `ClaimStep`,
`RowStep`, `FenceStep`, `LedgerStep`); `LedgerStep` splits by who acts (`BuyOk`,
`SellOk`, `SettlingOk`, `EvidenceOk`, `QuietStep`). `AckedPauseHolds` has its own
small invariant `PauseInv`.

`MoneyBounded` adds two more. `RiskInv`: a reservation covers the order sent under it,
what is at risk of each token stays within the limit per trade and the sum over all
tokens within the total. `FilledInv`: a fill no row accounts for yet delivered at most
its order. The sums are the folds of the model, made accessible by `FoldFacts`
(`ExposureSums`, `HeldSums`); a step that changes one token changes the sum by as much
(`TokenSumsGrow`, `TokenSumsAdd`), orders on the wire are summed under the claims that
fence them (`WireSum`), and shares held or on their way are at most what is at risk
(`HeldAtMostRisk`).

`Implements` rests on `IInv` and `RiskInv`: `LedgerInv` says that what the wallet holds beyond
the row is one delivery its claim still fences, `RiskInv` that the reservation covers the
order. A step moves at most one token (`OneMoves`), and is invisible where the claim's id
and reservation, its order's fill, the tracked shares and the wallet stay (`Apart`,
`ApartStill`). What moves a token has a lemma each: `BuyMoves` for a reservation and the
match of an order, `SettlingMoves` for what may end a claim (with `ClaimGoes` for the case
that it does), `SellMoves` for the fill of a SELL and the recovery of closing rows;
`UnseenSteps` lists the rest, `PromiseStep` puts them together. One case is easy to miss: a closing row may reopen with shares the uncertain BUY
delivered, because the indexer cannot tell them from an unsold rest. It books them before
the claim is settled, which the promise allows (`Book`), and the settlement then finds
nothing due; `LedgerInv` is what makes that sure.

`Withdraw_proofs` proves, for any sets of keys and requests, any owners, brake
and number of restarts, `TypeOK`, `ConfirmedIsPaid` and the refinement
`Implements == Spec => KeepsPromise`, from `ConstantsAssumption` alone. `TypeOK`
says more than types here: `pend` and `moved` stay in `0..1`, that is no key ever
has two live batches or two transfers. The invariant `IInv` adds

* `TaskInv`: a request past its lock is alone for its user, its row is busy,
  not followed, and in the status the code left it in;
* `MoverInv`: follow tasks and the reconciler's list speak of existing rows, and
  the row at hand is not busy;
* `MoneyInv`: where the money is for each status; a row past its cut-off has no
  batch left; a user has one open row, and every earlier transfer of that user
  is older than its submit block.

The last part is why the chain can be asked at all: `FoundOwn` shows that a
transfer found past the submit block of an open row is that row's own. With it
every move by a follow task, the reconciler or the operator is one of the few
allowed by `Forward` (`AdvanceForward`, `SettleForward`), and `ForwardInv`,
`ForwardMovers` and `ForwardPromise` say once what such a move preserves and to
which step of the promise it maps. The steps of a request have lemmas of their
own (`ReserveStep`, `SendStartStep`, `AcceptStep`, `ReturnStep`).

`FoldFacts` says what the sums and folds of the community modules compute, for every
finite set and every sequence. The prover has no induction over data, so each such fact
is proved from the least counterexample: a set of numbers with an element has a least
one (`Least`, from the library's well-founded orders), so has the size of a set that
breaks a claim (`Smallest`, `SumGrows`, `SumAdds`) and the place at which two runs of a
fold part (`FoldTrace`, `FoldAppend`). `RecursionExists` provides the function such a
recursion defines.

`CopyPlan_proofs` follows `plan_actions` through the leader's list: `FollowedPasses` and
`GonePasses` give the states the two folds pass through, each one either the state before
it or one action more (`PlanStep`), so that whatever holds of one step is carried to the
end. `PlanTyped` sums up what callers need: a plan holds only actions for the tokens of its
input, with an amount and an anchor in `Nat` and the row they were planned from.

`CopyLoop_proofs` proves `TypeOK`, `PlanWithinLimits` and `PlanSettles` for any finite set
of tokens, any settings and bounds, from `SettingsAssumption` and `LoopAssumption`. The
invariant is `LoopInv`: types, and a row that is not open holds nothing. The content is in
what every prefix of a plan satisfies:

* `Within`: what is left of the budget is the budget less what the BUYs so far spend, and
  is never negative; the copies opened fit the places; each BUY fits the cap per position.
  `PlanWithinLimits` is `Within` of the whole plan;
* `Leaves`: carried out, the prefix leaves whole rows, does not touch the tokens still to
  come, and pays for no more than it spends. It is why the cash stays non-negative;
* `Settled`: every token the prefix went over is `Quiet` (a new plan would neither sell,
  resolve, grow nor re-anchor it) and every one it acted for is `Shut` to a new copy.
  `Settles` shows it for one token, by the action planned for it; `Leaves` keeps it while
  the rest is carried out. `PlanSettles` follows because a second plan sees the same
  leader (`SameLeader`) and can only open (`PassOpens`).

`CopyPass_proofs` proves `TypeOK`, `SellsExclusive`, `RowBackedUnlessRaced` and
`HoldingWithinLimit` for any finite set of tokens, any rows, settings and bounds, from
`PassAssumption` and `SettingsAssumption`. `TypeOK` says here that the wallet and the cash
never go below zero. Beside the properties the invariant `IInv` needs

* `Typed`: `TypeOK`, the type of the pass's copy of the rows and of its plan, and that who
  is busy works on a token;
* `Claimed`: a token's claim names exactly the actor whose BUY of it is out;
* `Backed`: the SELL of a row that was not raced was sized from the row as it is now, and
  the wallet holds what that row promises.

The last part carries `RowBackedUnlessRaced` over the answer of a SELL, which writes the
shares of the caller's copy less what was sold. The many actions are few kinds of step,
each with one lemma: nothing that matters changes (`CalmSafe`), a row changes while no
SELL of it is out (`RowSafe`), a SELL takes the fence (`FenceSafe`) or ends (`EndSafe`), a
BUY goes out (`BuySafe`) or ends (`BuyEndSafe`). A new row needs a free id (`IdLeft`); with
the finitely many ids of an instance the code's unbounded keys are cut there.

`Detection_proofs` proves `HandledOnce`, `ChainServesEveryFollower`, `NoRetroCopy`,
`AgeIsTrue` and the types, for any number of followers, fills, seconds, pages and
remembered transactions, from `DetectionAssumption`. `DetectionInv` says

* of the log (`LogInv`): a transaction happens in one second, and a second holds at most
  `PerSecond` fills;
* of a follower's cursor and of what a task has still to apply (`CursorInv`, `TodoInv`): a
  task's fills are in time order, and each is behind the task's base, where it is skipped,
  or not behind the cursor;
* of the memory (`SeenInv`, `HandledInv`): a handled fill is before the cursor, or in the
  cursor's second and then remembered;
* of fills that are missed for good, and, on the chain, of those that are not (`MissedInv`,
  `ScanInv`): every fill scanned since the follower's first cursor is handled or waits in
  its task, unless lost to everybody or scanned before the follower was served.

`HandledInv` is the heart. The cursor holds a whole second, so only the memory tells the
handled fills of that second from new ones; it is bounded and forgets its oldest part. That
is safe because the transactions of one second are fewer than what forgetting leaves
(`PerSecond <= SeenMax + 1 - SeenDrop` in the assumption) and the memory is in time order:
`ForgetKeeps` is the pigeonhole argument. `ByTimeLists` shows that sorting a fetch by time
yields every found fill once and in order. With more fills of one leader in one second than
the memory keeps the property does not hold, so the assumption states the limit of the code.

`Services_proofs` holds the proofs of six modules that share nothing, a section each.

*WalletCreation*, for any number of requests and linkable wallets: `TypeOK`, `KeysKept`,
`OneSigner`, `SdkExclusive` and `NoOrphanWallet`. They follow from one invariant: a request
that may call the SDK (`InCharge`) owns the claim, the claim is in `side_effect_started`
and its signer is the request's (`ChargeInv`), and whatever is deployed is that signer's
(`DeployedInv`). An owner that dies in that state keeps the claim for ever, which is what
makes the invariant inductive: only `Release` by the owner lets another request resume.

*KeyedLocks*, for any keys and finitely many tasks: `KeyExclusive` and `EntriesInUse`. The
invariant says that a count is the number of tasks that took the entry (`RefsInv`), that
such a task's key still has its lock (`EntryInv`), and that no lock is under two keys
(`DistinctInv`); hence an entry goes only with its last task.

*LeaderCashReader* and *Collateral*, for any number of calls and any lifetimes:
`SizedAfterTheBet` and `BalanceRecent` (`CInv`, `BInv`). The first rests on `Lag <= Settle`:
a node answers from no longer ago than the settling time the code waits. The second rests on
two bounds: no read is out longer than `ReadMax` (`ReadInv`), and what is cached goes at most
`ReadMax + Ttl` after the moment it was true in (`LifeInv`).

*Redeem*, for any users, markets, concurrency and batch size: `HaltHolds`,
`NoSecondTransaction` and `OnlyProvenRedeemed`, from `RedeemAssumption`. The invariant
(`JInv`) says that a market of this process's transaction of unknown outcome is cooling, or
its refusal halted the job and its user's turn is over (`CoolInv`), and that it shares no
market with a batch under way (`ApartInv`); that what is about to be sent, or may still
execute for this process or one that is gone, is given up already or proven on chain
(`ProvenInv`), which a restart keeps because it only moves transactions from one to the
other; and that after a halt the transactions sent and
the turns still able to send are together fewer than `Concurrency` (`HaltInv`). The last one
is inductive because a halt comes from a turn that no longer counts among those able to send.

*Deposits*, for any wallets, processes, chunk, catch-up and queue sizes: `CursorCovers`,
`AnnouncedOnce` and `CursorForward`, from `DepositsAssumption`. The invariant (`DInv`) speaks
of each pass: it has read the wallets of all that is due up to its head, and nothing below
its `start` is missing (`PassOk`). Both survive other passes, new blocks and users who join
(`PassStays`), because what becomes due is always above every head. `ListingHoldsAll` is the
pigeonhole argument that a chunk listed without repetition is listed whole.

*All seven*: `Composition` shows that every behaviour of `MCSpec`, the specification of the
`services` run, is one of each service's own specification, so each theorem above holds of
what TLC checks; a step maps to a step of the part that runs and to a stutter of the others
(`PartStep`). With it `ServicesTyped` proves `ServicesTypeOK` from the types in the seven
invariants. Only one service moves in a behaviour of `MCSpec`; the argument does not use
that, for no step of one service touches the variables of another.

Only model-checked: `UncertainSettles` and `InProgressEnds`. Liveness under fairness, and the
`ENABLED` it is defined by, are outside the prover's reach.
The properties of the violation runs do not hold and have nothing to prove. The bounds of
TLC's instances, their constraints, views and symmetries play no part in the proofs.

## 5. Findings

`buy_fence_slots`: `docs/getting-started.md` promises that "Maximum open
positions" caps concurrent copies per source. A resize claim takes no slot, a
SELL may close its row while the claim is uncertain, and adopting the claim then
opens a row without looking at the cap.

`withdraw_payments`: `_find_delivery` promises a payment "in a transaction no
other withdrawal claims" (`withdraw.py:1183`). It counts the claims, awaits a
receipt and leaves the write to `_settle_delivery`, which looks at the status
but not at the claims, and `delivery_tx_hash` has no unique index. Two
withdrawals to one destination are confirmed by one payment.

`withdraw_halt`: "Set once the relayer refuses on policy: no send after that"
(`withdraw.py:642`). `halted` is looked at only when a request starts; one
already past that point sends after the halt. No request that starts later
does.

`copy_pass_snapshot`: `copy_engine.py:1295` says that claiming the row before the exit
order lets one caller win and the other skip "instead of also submitting a SELL for
the same shares". The flip compares id and status only. A pass that read its rows
before the fast path booked a partial SELL sells the same part again and writes the
old shares minus its own sale: the row keeps shares the wallet no longer has.

`external_close`: "Age-gated so a legitimately in-flight close is never touched"
(`copy_engine.py:878`). A row without `closing_at` counts as old, and
`close_external_position` inserts its row without one.

Smaller disagreements between a comment and the code, met while modelling and not
given a run:

* "a cached value can only be stale-low" (`copy_engine.py:143`), and its next decision
  "sizes against a fresh balance" (2409-2411): a balance read while an order is submitted is
  cached after the entry was dropped, and one read between the drop (`_note_submitted`,
  1786, before the order call) and the fill is taken before the money moves; a filled BUY
  does not drop it. Both are too high for at most a read and the cache's lifetime
  (`BalanceRecent`).
* "Tokens drop out of the set once the leader exits them" (`copy_engine.py:1497`): they also
  drop out when a list cut short lacks them (`&= held_now`, 1508), and a later whole list
  may then open a holding that predates the follow.
* "no submission after that" (`redeem.py:368`): with two users at once
  (`main.py:250`) the other turn may still submit (`HaltHolds`).
* a fill budget "re-arms when the leader's intent changes" (`copy_engine.py:1609`): the
  fingerprint of a close is always 0, so a close that was given up stays so until it
  closes by another path or the process restarts.
* "silently starving every other follower" (`copy_engine.py:1029`), which fanning one
  scan out to all is to prevent: a follower whose cursor is set in this very tick is not
  pending (1020-1023), and the chain detector may consume blocks mined after that cursor
  for the others (`overtaken` in `Detection`). Such a fill is never copied for the newcomer.
* a fast partial SELL lowers the anchor while the data-api may still show the leader's
  old size, which the next pass takes for growth and may buy back.

## 6. Not modelled

Everything in `PROJECT.json` with status `not_modelled`: presentation (frontend,
trader-screener, public screener), authentication, telemetry, leader statistics,
equity and PnL, configuration, migrations and deployment. Also the arithmetic of
quotes, price caps and redemption amounts, and the texts of alerts.

Of the modelled parts: prices (a share costs one dollar), two redeem jobs at once (a new
process starts when the old one is gone), held withdrawals in the
spendable cash (two tables read one after the other: `Withdraw` and `Collateral` in
one model are beyond TLC), several leaders and uncertain BUYs in `CopyPass`, and the
other alerts of the Telegram queue.
