# A verification development of the Blend lending contracts

Blend is a set of Soroban contracts: isolated lending pools, and a backstop
that insures them with deposits of a liquidity token. This directory holds TLA+
modules translated from the contracts' source in `src/`, TLC configurations that
model-check them on small instances, and theorems about them that the TLA+
proof system checks. `PROJECT.json` relates every definition to the lines it
stands for, every run to its properties, every property to a mutation of the
code that breaks it, and lists the hazards the properties are aimed at.

Contents: 1 inventory, 2 modules and how they correspond to the code, 3 runs,
4 proofs, 5 what is only model-checked and what is not modelled, 6 plan.

## 1. Inventory

### How the system runs

A contract call is executed by the host alone, to its end; a panic anywhere
undoes it. There are no threads, and a contract being called is not reentered.
What makes the system hard is therefore not the interleaving of steps but

- *the interleaving of calls* by users, liquidators, the admin, and other
  contracts, with prices, time and interest moving between them;
- *long calls*: a `submit` is a list of requests by one user, carried out on a
  cached view of the pool, whose checks are made once, at the end, and whose
  token transfers are made after that; a flash loan runs foreign code in between;
- *arithmetic*: every amount is an integer, every conversion between tokens and
  shares rounds, and the sum of the roundings must never favour the caller;
- *state kept at several places that must agree*: reserve totals and user
  positions, pool balances and user balances of the backstop, positions and the
  auctions created from them, a pool's books and its tokens.

### Components

| component | state | operations | what makes it correct |
|---|---|---|---|
| pool: reserves and interest (`pool/src/pool/reserve.rs`, `interest.rs`) | `ReserveData`: b_rate, d_rate, ir_mod, b_supply, d_supply, backstop_credit, last_time | load (accrue interest), conversions | debts and claims grow together to the unit; no rate falls; conversions round for the pool |
| pool: submit, actions, positions (`submit.rs`, `actions.rs`, `pool.rs`, `user.rs`, `health_factor.rs`) | `Positions` of each account; a view of reserves, prices and transfers during a call | supply, withdraw, with or without collateral, borrow, repay, flash loan, fills | the pool stays solvent and able to pay; a call that takes on risk ends healthy; positions stay countable |
| pool: user liquidation auctions (`auctions/`) | one `AuctionData` per user | create, fill in parts, delete own, delete stale | what is auctioned stays covered; a fill moves exactly what it should; the user ends between the two health bounds |
| pool: bad debt (`bad_debt.rs`, `user.rs`) | the backstop's positions | hand on at a fill, `bad_debt`, default | no debt without collateral rests with a user; defaults are last and are absorbed |
| pool: bad debt and interest auctions (`auctions/bad_debt_auction.rs`, `backstop_interest_auction.rs`) | one auction each for the backstop | create, fill, delete | the lot is there when it is filled; each side is paid |
| pool: status (`status.rs`) | status 0..6 | `update_status`, `set_status` | nothing unlocks what the admin froze; requests obey the status |
| pool: gulp (`gulp.rs`) | - | credit unexplained tokens | credits no more than is there |
| pool: configuration (`config.rs`) | pool config, queued reserve changes, admin | initialize, update, queue / cancel / set reserve, admin handover | a change waits a week; accounting survives it |
| pool: emissions (`pool/src/emissions/`) | emission data per reserve token, index per user | gulp, update, claim | a stream is divided exactly once; all emitted is claimable while the allowance lasts |
| backstop: deposits, queue, funds (`backstop/src/backstop/`) | balance of each pool, balance and queue of each user | deposit, queue, dequeue, withdraw, draw, donate | totals agree; locked shares stay; nobody is diluted but by draws |
| backstop: emissions and reward zone (`backstop/src/emissions/`) | reward zone list, emission data, backfill | distribute, add / remove / swap, gulp, claim | seconds are paid once; no pool is paid for more than its share |
| emitter (only a README in `emitter/`) | the backstop it mints for, when it last did, the drop | distribute, swap, drop | mints a token a second for one backstop, and drops once |
| pool factory (`pool-factory/`) | set of deployed pools | deploy, `is_pool` | only what it created is a pool |
| entry points, storage, events | ledger entries | authorisation, access | only what the guards below state gets through |

### Interaction

```
 users, liquidators ----submit / flash_loan----> pool <----price---- oracle
                                     |   ^
     flash loan receiver <--tokens---+   |  pool_data, draw, donate
                                         v
 depositors ---deposit / queue / withdraw---> backstop ---is_pool---> factory
                                         |
                         emitter, exchange of claims
```

The pool reads the backstop's `pool_data` for its status and before it defaults
bad debt, draws on it to pay bad debt auctions and donates what interest
auctions earn. The backstop reads the pool's positions of its own account
(bad debt) before it lets a depositor withdraw. The emitter mints for the
backstop, which lets each pool of its reward zone spend a part of it.

## 2. The modules

```
 FixedPoint - Reserve - Health - Auction ----- LendingPool - MCLendingPool
     |          |       Totals                  |     |
     |          +------ PoolStatus -------------+     +-- InsuredPool - MCInsuredPool
     |                      |                         |        |
     |                      +-- PoolConfig            |        | implements
     |                            - MCPoolConfig      |        v
     +-- BackstopLedger - MCBackstopLedger -----------+   BadDebtWaterfall
     |                                                      - MCBadDebtWaterfall
     +-- EmissionData --- PoolEmissions     - MCPoolEmissions
                     +--- BackstopEmissions - MCBackstopEmissions

 proofs:  ArithmeticProofs - ReserveProofs - LendingPoolProofs
                 |                 |             +-- InsuredPoolProofs
                 |                 +-- ConfigProofs
                 +-- LedgerProofs, PoolEmissionProofs, BackstopEmissionProofs
```

| module | models | correspondence |
|---|---|---|
| `FixedPoint` | the fixed point library the contracts call | `MulFloor(x, y, s)` is `x.fixed_mul_floor(y, s)`, and so on |
| `Reserve` | `reserve.rs`, `interest.rs` | pure; `LoadReserve` is `Reserve::load`, `Accrue` is `accrue`, `CurrentRate`, `NextIrMod` and `LoanAccrual` are the three parts of `calc_accrual` |
| `Totals` | loops that add up a map | a recursive function, so that it can be proved about |
| `Health` | `Positions`, `PositionData` | a map entry the code removes at 0 is 0 here; a price of 0 is one `load_price` panics on |
| `Auction` | `scale_auction`, `create_user_liq_auction_data` | pure; `Refused` stands for any panic of the creation |
| `PoolStatus` | `status.rs`, `require_action_allowed` | pure |
| `LendingPool` | the pool contract as a state machine | below |
| `BackstopLedger` | the backstop's deposits, queues and funds | one action per contract call |
| `BadDebtWaterfall` | what the pool and the backstop promise about bad debt | abstract; liveness |
| `InsuredPool` | `LendingPool` and `BackstopLedger` composed, with the bad debt and interest auctions | below; implements `BadDebtWaterfall` and `BackstopLedger` |
| `PoolConfig` | `config.rs`, the admin's and everyone's `status.rs` | one action per call; users' business abstracted |
| `EmissionData` | streams, indices and settlements of both contracts' emissions | pure |
| `PoolEmissions` | `pool/src/emissions` | one action per call, and one per change of a balance |
| `BackstopEmissions` | `backstop/src/emissions`, the emitter as far as it is used | one action per call |

### LendingPool

The ledger is `res`, `pos`, `auction`, `bal` (the token balances of the pool,
kept by the token contracts) and `status`; `now`, `price` and `backstop` are
what the pool reads of the world; `unbacked` is a history variable that sums up
the defaulted debt nobody was left to absorb, and no action reads it.

`submit` is modelled request by request, because its difficulty is the order of
the requests. `Submit(u)` opens a call: `tx` becomes the view `Pool::load` and
`User::load` give the code. Every request is an action on `tx` alone, with the
accumulated `Actions` (`in`, `out`, `health`, `maxUtil`) as fields. `Commit` is
`validate_submit`, `handle_transfers` and the stores at the end of
`execute_submit`; `Abort` is a panic at any point. While a call is open every
other action is disabled, as the host runs it alone. `FlashLoan` opens a call
with the loan's debt recorded; `CallReceiver` validates and sends the tokens;
`ReceiverPaysPool` is the part of the foreign code the pool can notice;
`CommitFlashLoan` does the remaining transfers. Calls that are not lists of
requests (`Gulp`, `NewLiquidation`, `DeleteStaleAuction`, `DefaultBadDebt`,
`UpdateStatus`, `SetStatus`) are single actions. `Tick`, `ReportPrice`,
`BackstopChanges` and `Donate` are the world.

Two points that are less obvious:

- The view holds every reserve loaded, while the code loads one when it first
  needs it. Loading depends on the stored data and the timestamp only, which
  do not change during a call, so the result is the same; `touched` keeps which
  reserves are stored at the end.
- `bad_debt` for a user has no action. Its guard is `MayMoveBadDebt`, and
  `BadDebtNeverRests` shows that no reachable state satisfies it: the fill that
  takes the last collateral also hands on the debt.

### BackstopLedger

`poolBal` and `userBal` are `PoolBalance` and `UserBalance`; a queue is a
sequence of `Q4W`. The loops that walk a queue from the front (withdraw) or
from the back (dequeue) are stated by what they reach: the least or greatest
index from which the entries hold the amount. A claim is a single exchange whose
proceeds are divided over pools. `lp` is the backstop's own token balance,
shared by all pools. `badDebt` stands for what the pools answer when a
withdrawal asks; it may change at any time, and a draw may change it at once.

### BadDebtWaterfall

The course of bad debt, in three variables: what the backstop owes, the tokens
of the pool's depositors, and an auction with its age. Prices and rounding are
left out. What is kept of the block modifiers is that at every age one side of
an auction is in full: before the ramp all of the bid is taken over, after it
all of the lot is paid. A lot is 0 when the debt is worth so little that it is
rounded away.

### InsuredPool

`InsuredPool` extends `LendingPool` by the backstop's state, and `L` is
`BackstopLedger` over that state; the backstop data the pool reads is computed
from the ledger, and the bad debt that `L` asks for is read off the pool's
positions. A call of the pool is an action of `LendingPool` together with what
it leaves alone outside (`OpenCall`, `OtherRequest`, `OtherCall`, `CommitCall`);
the depositors' calls are those of `L` (`DepositorCall`). What is new is between
the two:

- the two auctions of the backstop (`bstopAuction`), created by
  `NewBadDebtAuction` and `NewInterestAuction` over any set of debts or credits,
  deleted by `DeleteStale`;
- their fills, `FillBadDebt` and `FillInterest`, which are requests of a
  `submit`. Their draw, donation and transfer are calls to other contracts, made
  at once, while the pool's books are stored at the end and a panic undoes all.
  So an open call has, beside `tx`, a view of the outside: `side`;
- the default inside a fill: a full fill defaults what the backstop still owes
  if the threshold, read after the draw, is too low;
- `bad_debt` of the backstop, refused while its auction is open
  (`BackstopBadDebt`).

A panic, `AbortCall`, also undoes what a fill drew, donated or defaulted. The
two specifications that `InsuredPool` implements, `W` and `Seen`, are
instantiated on what an open call has made of both contracts (`Current`,
`PosSeen`), which is the ledger when no call is open.

`InsuredInit` is a pool in the course of its life: users have supplied and borrowed,
one owes more than its collateral, liquidations have left debt to the backstop.
Such states are reached by `LendingPool`; starting from them is what makes the
composition small enough to be explored. `OldPoolAssumption` says of them what
`Solvency` says of a reachable pool: suppliers and backstop are owed at least
what is borrowed.

### PoolConfig

The admin's settings, the queue of reserve changes and the status, with the
reserves they concern. What users do is `Business`, which leaves the supplies
of a reserve at any value its status and configuration allow; interest
auctions are there because their lot is a promise over a time in which the
configuration may change. `notice` is a history: when each change not yet made
was announced. A change queued in Setup has no delay and stays applicable after
Setup; `ChangesAreAnnounced` says so.

### PoolEmissions and BackstopEmissions

Both keep, for each stream, the data the code has (`emis`, `user`) and a history
that knows nothing of indices: every `Tick` adds what is emitted in that second
to the balances held in it (`held`), and what is settled or paid is kept in
`due`. Two behaviours of the code show in the histories:

- seconds in which no one has a share are not lost. The index is not advanced
  then, so they fall to the first holder to come, unless a gulp renews the
  stream before: it counts only what is left of it;
- in the backstop, while there are shares but every one is queued, what is
  emitted is dropped at the next update.

A history counts, each second, whole units of 1 / (`SCALAR` * `SCALAR_7`) of a
token for every share. The code divides by the supply once for all the seconds
since its last update, so that its index is never behind the history; it is the
same where a second's emission is a whole number of units for a share
(`SharesComeOutEven`).

In `PoolEmissions` a balance may change at any time, which stands for the `add`
and `remove` methods of `User` whatever calls them. A gulp finds any set of
reserves enabled. In `BackstopEmissions` a share is one token and the wait in
the queue is not told, since `BackstopLedger` has both; a withdrawal settles
nothing, as in the code, since queued shares do not earn. A claim is for one
pool: how a claim of several is exchanged and divided is in `BackstopLedger`.

What the backstop lets a pool pay is an allowance of the token, external to both
contracts. The backstop approves it at a gulp, the new emissions on top of what
is left (`Approve`), for `LEDGER_BUMP_USER` ledgers, about 120 days; when they
have closed it is 0 (`LedgerCloses`), claims fail, and a later gulp approves only
what is new. `PoolEmissions` counts the ledgers (`lifetime`) and keeps as a
history what was left when an allowance expired (`lapsed`). A ledger takes some
seconds, so a `Tick` may close one or not. In `BackstopEmissions` allowances do
not expire: there a pool may take at least what the code lets it take, so that
what is shown of the backstop's own tokens holds all the more.

The emitter is modelled from how the backstop uses it: `Adopt` is the swap to
this backstop, `EmitterDistribute` mints a token a second since the last time,
`Drop` mints once what was backfilled.

## 3. The runs

| run | question | instance |
|---|---|---|
| PoolAccounting | Do the books of one reserve balance to the unit under interest, small amounts, flash loans and donations; can whatever a call asks for be paid? | 2 users, 1 reserve, amounts 1 and 4, 3 ledgers of interest |
| PoolLiquidation | Are partial fills, accrual and price moves between creation and fill kept apart; are auctions covered, calls healthy? | 2 users, 2 reserves, prices 11 and 20, auctions and fills of 50 and 100% |
| PoolBadDebt | Where does debt without collateral go, through fills, backstop and default? | the same with prices 4 and 20, interest of about 100% a ledger, a backstop that may be empty |
| PoolBatch | Do checks made once suffice for every order of up to three requests? | 1 user, 2 reserves borrowed both ways, a flash loan, an oracle that fails, statuses 0, 2 and 4 |
| BackstopQueue | Queues: order, splitting, locking, totals. | 2 users, 1 pool, 2 queue entries, lock time 2, time 3 |
| BackstopPools | Several pools, one balance: claims, draws, strangers, dilution. | 1 user, 3 addresses of which 2 are pools |
| Waterfall | Is bad debt resolved in the end, and does an open auction stay within what is owed and deposited? | 2 assets, debts of up to 2, 3 tokens |
| Insured | Do pool and ledger together do only what the waterfall allows, with both sets of books balanced? | 1 reserve, a lender, a debtor, a depositor of up to 3 tokens, fills of 50 and 100%, a backstop that owes 3, 3 ledgers |
| Interest | The same with interest auctions: is the credit there when it is paid, and is the ledger used as `BackstopLedger` says? | the same, lots from a value of 2 on, interest every second, no new liquidations, 2 ledgers |
| Config | Are changes announced, never retroactive, and harmless to what was promised or owed? | 1 reserve, 4 seconds with a delay of 2 |
| Emissions | Is every holder paid for what it held, and do claims lack nothing but what was left of expired allowances? | 2 holders, the debt of one reserve and the unheld supply of another, streams of 3 seconds, allowances for 3 ledgers |
| RewardZone | The same for depositors; is all that is distributed minted, around the swap and the drop? | 2 pools for a zone of 1, 2 active depositors of one, 1 standing one of the other, a cap on backfilling of 1 and a half seconds |

Bounds and why they are enough:

- *Scalars*. Factors have scalar 100 instead of 10^7 and rates 10 instead of
  10^12, so that a rounding error is a tenth of a unit rather than a trillionth:
  an error that accumulates shows within a few steps. The proofs cover the rest.
- *Amounts* are chosen so that one divides evenly and one does not, and so that
  a withdrawal or repayment exceeds what there is.
- *Block ramp* `RAMP` 1 instead of 200 and `STALE` 2 instead of 500: the lot is
  at 0 and 100%, the bid at 100% and 0, and an auction can become stale. That
  partial modifiers never move too much is proved (`ScaledAuction`).
- *MaxRequests* is 1 where calls of many users matter and 3 where the order of
  requests does: with three, a call may do, undo and depend on a request between.
- *MaxTime*, *TokenSupply*, *MaxShares* cap clocks, balances and shares. They
  are guards of the world (`Tick`, `Donate`, deposits), or, for `TokenSupply`, of
  the payer's side of a transfer.
- *InsuredPool*. Tokens 0, 1 and 2 or more are the three cases of the backstop's
  threshold: nothing, used up, not used up. In `Insured` interest is never worth
  an auction and in `Interest` nobody is liquidated, so that each run explores
  one of the two auctions with everything else around it, the admin's freezing
  of the pool in the first and a flash loan that opens the call in the second;
  `STALE` 1 and two ledgers are enough for an auction to go stale and for
  another to follow. `Insured` has a third, in which an auction is past the ramp
  and asks for nothing, or, filled in full, has the rest of the debt defaulted in
  the middle of the call; to leave room for it, interest is slow there (it accrues
  once three seconds have passed) and the debtor owes less than in `Interest`. `Interest`, where every second changes the
  rates, ends before that: no fill of it is for a bid below 100%, and what it
  checks is beyond the ramp only proved (`InsuredInvHolds`, `LedgerIsKept`). That
  calls of many requests keep the same is proved, too.
- *Emissions*. Balances are chosen so that each second's emission divides evenly
  (an ASSUME of `MCPoolEmissions` that TLC evaluates): the histories are then
  exact and every difference is one of order or of missed settlement. Supplies
  that do not divide the scalar are among the instances of the theorem, and one
  of the two pools of `RewardZone` has such shares. The run is longer than a stream, so that a gulp
  comes before, at and after an expiration, and an emission may follow an idle
  time. `LEDGER_BUMP_USER` 3 lets an allowance outlive the stream it pays, as 120
  days outlive a week, and still expire in the run, with tokens left in it.
- *RewardZone*. The backstop starts unadopted or adopted; four seconds have room
  for a backfill that reaches its cap, the swap, the reset and two distributions.
- Symmetric users, holders and depositors are declared so in the runs that have
  only invariants and action properties. `Waterfall`, `Insured` and `Interest`,
  which check liveness or a refinement, declare no symmetry.

Deadlock is checked in every run: some call or price report is always possible.

*Fairness and liveness.* Nothing in the contracts runs by itself, so a liveness
property has to name the outsiders who act. `FairSpec` of `BadDebtWaterfall` does:

- `WF Tick`: ledgers close;
- `WF AuctionFor(1..tokens)`: anyone may create an auction with a lot, and the
  docs of the pool count on somebody doing so;
- `SF FillInFull`: the lot grows to 100% and then the bid falls to 0, so that
  every auction with a lot becomes a profit; strong, because an auction may be
  deleted and created anew between;
- `WF Default`: suppliers whose tokens are locked by debt, and depositors who
  may not withdraw while it lasts, have a reason to call `bad_debt`;
- `WF DeleteStale`: anyone may delete a stale auction.

Under it `BadDebtIsResolved` says that the backstop's debt is gone in the end,
unless new debt, new deposits or auctions with an empty lot never stop coming
(`Arrivals`). The premise is needed: a steady trickle of deposits can keep the
threshold above the point at which debt is defaulted, and an auction of dust,
which nobody has a reason to fill, can be created whenever the last went stale.
`InsuredPool` is shown to implement the safety part
(`KeepsTheWaterfall`); its fairness is not stated there, since a submit is
several steps of the model that any panic may undo.

*Refinements.* Both are stated of what the open call has made of the contracts
so far, so that each request is a step by itself and storing the call is none.
`KeepsTheWaterfall` maps debt to the backstop's positions, tokens to the pool's
balance in the ledger, and an auction's age to the blocks since its start, told
apart up to `Oldest`. `KeepsTheLedger` shows that everything the pool does to
the backstop, in the middle of calls or at their end, is a step the backstop
itself offers. A panic returns to the stored ledger; it is the one step that
need not be the specification's (`[Next \/ AbortCall]`), because it takes several
of its steps back at once.

What the properties say is stated above each of them in the modules. In short:
`Solvency` (tokens held and owed cover what is owed, in the ledger and in every
intermediate view), `PoolCanPay`, `RatesMoveOneWay`, `BorrowingKeepsUtilization`,
`SharesMatchPositions`, `AuctionsAreCovered`, `BadDebtNeverRests`,
`PositionsAreLimited`, `RiskierCallsEndHealthy` for the pool; `SharesAddUp`,
`TokensAreHeld`, `QueuesAreOrdered`, `StrangersHoldNothing`,
`OnlyExpiredSharesLeave`, `OnlyDrawsCostDepositors`, `LastOneTakesAll` for the
backstop; `AuctionIsCovered`, `BadDebtIsResolved`, `BooksBalance`,
`BackstopAuctionsAreCovered`, `KeepsTheWaterfall`, `KeepsTheLedger` for the two together;
`InterestLotIsBacked`, `DebtCanBeValued`, `NoChangeIsRetroactive`,
`ChangesAreAnnounced` for the configuration; `PaidForWhatWasHeld`,
`EmissionsAreFunded`, `PaidForWhatWasDeposited`, `EmissionsAreMinted` for the
emissions. Every one of them is violated by at least one mutation of the code
(`PROJECT.json`, "mutants").

## 4. What is proved

All theorems hold for every value of the constants that satisfies the named
assumptions, which TLC evaluates on each instance: for the pool
`ScalarAssumption`, `HealthAssumption`, `AuctionAssumption` and
`LendingPoolAssumption`, with the backstop also `InsuredPoolAssumption` and
`OldPoolAssumption`, for the others `BackstopLedgerAssumption`,
`PoolConfigAssumption`, `EmissionDataAssumption`, `PoolEmissionsAssumption` and
`BackstopEmissionsAssumption`. That is any finite number of users, reserves,
pools and depositors, any configuration `require_valid_reserve_metadata`
accepts, any amounts, prices, requests per call and elapsed times, a backstop
rate below 100%, and scalars that are positive. No bound of a run is used but as
the type of an input.

| theorem | says |
|---|---|
| `ArithmeticProofs!PartsOfWhole` | parts rounded down add up to at most the whole |
| `ReserveProofs!LoadingUpdates` | interest accrual keeps types, lowers no rate or credit, mints no token, and credits no more than debts grew |
| `LendingPoolProofs!ScaledAuction` | what a fill moves and what it leaves add up to at most the auction |
| `LendingPoolProofs!FactorsAreConservative` | weighted collateral is at most, weighted debt at least, its plain value |
| `LendingPoolProofs!QuoteIsPart` | a liquidation quote is natural, and at most what the user has |
| `LendingPoolProofs!IInvHolds`, `TypeCorrect`, `SharesAreConserved` | `Spec => []IInv`, `[]TypeOK`, `[]SharesMatchPositions` |
| `LendingPoolProofs!RatesAreMonotone` | `Spec => RatesMoveOneWay` |
| `LendingPoolProofs!PoolIsSolvent` | `Spec => []Solvency` |
| `LendingPoolProofs!SafeInvHolds` | `Spec => [](IInv /\ SolventInv /\ SafeInv)` |
| `LendingPoolProofs`: `PositionsStayLimited`, `AuctionsStayCovered`, `BadDebtIsHandedOn`, `CallsCanBePaid` | `[]PositionsAreLimited`, `[]AuctionsAreCovered`, `[]BadDebtNeverRests`, `[]PoolCanPay` |
| `LendingPoolProofs`: `RiskIsChecked`, `UtilizationIsChecked` | `Spec => RiskierCallsEndHealthy`, `BorrowingKeepsUtilization` |
| `InsuredPoolProofs!InsuredInvHolds` | `InsuredSpec => []InsuredInv` |
| `InsuredPoolProofs`: `InsuredBooksBalance`, `BackstopAuctionsStayCovered` | `InsuredSpec => []BooksBalance`, `[]BackstopAuctionsAreCovered` |
| `InsuredPoolProofs!BadDebtFillsAreHonored` | no fill of bad debt that is still asked for is refused for what the backstop owes or holds, also in the middle of a call |
| `InsuredPoolProofs!LedgerIsKept` | `InsuredSpec => KeepsTheLedger`: the composition refines `BackstopLedger` |
| `InsuredPoolProofs!OpenInvHolds` | `InsuredSpec => []OpenInv`: a bad debt auction is kept only while something of it is left |
| `InsuredPoolProofs!WaterfallIsKept` | `InsuredSpec => KeepsTheWaterfall`: the composition refines `BadDebtWaterfall` |
| `InsuredPoolProofs!WaterfallKeepsItsAuction` | `Spec => []AuctionIsCovered` of `BadDebtWaterfall`, as `InsuredPool` instantiates it |
| `InsuredPoolProofs!WaterfallIsCovered` | `InsuredSpec => []W!AuctionIsCovered`: the composition keeps it, too |
| `LedgerProofs!LedgerInvHolds` | `Spec => []LedgerInv`, the conjunction of the run's five invariants |
| `LedgerProofs`: `TypeCorrect`, `SharesAlwaysAddUp`, `TokensAreAlwaysHeld`, `QueuesAreAlwaysOrdered`, `StrangersAlwaysHoldNothing` | each of them |
| `LedgerProofs`: `DepositorsAreNotDiluted`, `LastDepositorTakesAll`, `LocksAreRespected` | `Spec => OnlyDrawsCostDepositors`, `LastOneTakesAll`, `OnlyExpiredSharesLeave` |
| `ReserveProofs!CreditGrowsWithTime` | the longer a reserve waits to be loaded, the more it credits the backstop |
| `ConfigProofs!ConfigInvHolds` | `Spec => []ConfigInv` |
| `ConfigProofs`: `InterestLotsStayBacked`, `DebtCanAlwaysBeValued`, `ChangesAreNeverRetroactive`, `EveryChangeIsAnnounced` | `[]InterestLotIsBacked`, `[]DebtCanBeValued`, `NoChangeIsRetroactive`, `ChangesAreAnnounced` |
| `PoolEmissionProofs`: `EmissionInvHolds`, `EmissionsStayFunded` | `Spec => []EmissionInv`, `[]EmissionsAreFunded` |
| `PoolEmissionProofs!ClaimsAreCoveredUntilALapse` | the allowance covers any claim of any holder as long as none expired with tokens left in it; claims never lack more than what expired |
| `PoolEmissionProofs!HoldersArePaidInFull` | `Spec => []PaidForWhatWasHeld` |
| `BackstopEmissionProofs`: `MintedInvHolds`, `EmissionsStayMinted` | `Spec => []MintedInv`, `[]EmissionsAreMinted` |
| `BackstopEmissionProofs!ClaimsAreBacked` | once what was backfilled is dropped, the backstop has what any depositor claims beside what the pools may take |
| `BackstopEmissionProofs!DepositorsArePaidInFull` | `Spec => []PaidForWhatWasDeposited` |

Each inductive invariant was checked by TLC on the instances of the runs before
it was proved. Each proof has a lemma for every action. Below them are general
laws of sums over finite sets, the lemmas of `ArithmeticProofs` (`TotalIsCount`,
`TotalChange`, `TotalMove`, `TotalSplit`, `TotalRenamed`), which say nothing of
the code by themselves.

*The pool: `IInv`.* Neither `TypeOK` nor `SharesMatchPositions` is inductive.
That a withdrawal leaves `b_supply` at or above 0 holds because the caller holds
no more than the reserve's supply, which holds because the supply is the sum of
all positions. That `Commit` keeps the sum needs it in the view as well, and
needs the reserves the call did not touch, which are not stored, to have the
supplies of the ledger. Rates must be known to be positive where an amount is
divided by them. So `IInv` states types; that supplies match positions in
ledger and view; that rates have only grown and no reserve is ahead of time; and
what a view may differ in. The requests for an asset share `RequestKeepsIInv`,
which asks only that a request changes the supplies as it changes the caller's
positions (`Balanced`); what distinguishes them is the arithmetic of their
conversion.

*Solvency* follows one number for each reserve, `Claims`: what is owed to
suppliers and backstop less what borrowers owe, the tokens the pool must hold.
Every conversion rounds, so `Claims` is only bounded: accrual does not raise it
(`LoadingUpdates`), a request raises it by at most the tokens it takes in less
those it pays out (`ConversionWorth`, `ClaimsAfterSupply`, `ClaimsAfterDebt`), a
gulp by the tokens nothing claimed, and a default by what `unbacked` records
(`DefaultedClaims`). The inductive form, `SolventInv`, says so of the ledger and
of the view of an open call, with the cash the view will have after the
transfers; it needs `IInv` for the types and for debts that are covered by
`d_supply`. It also shows that `unbacked` is the only gap: it is 0 as long as no
default exceeds what the reserve's suppliers have.

*What the checks at the end of a call are worth: `SafeInv`.* Positions, health
and utilization are checked once, so in the view of an open call they may be
anything. What must hold there is that whatever the caller made worse is marked:
`ChecksAreDue` says that the health check is due unless the caller has no more
debt and no less collateral than before (`NoRiskier`), that a reserve with more
debt is in `maxUtil`, and that a reserve out of which the call takes more than
it brings is not lent out in full (`CanBePaid`). Every account but the caller's
is safe throughout (`SafeAccount`: within its positions, covering its auction,
with collateral if it has debt), because a request changes another account only
by a fill, and a fill moves a part of an auction that is covered and leaves some
collateral unless it takes the last. `Commit` turns the marks into facts about
the ledger. A healthy account has collateral for its debt because debt is valued
rounding up. That the pool can pay, `PoolCanPay`, needs `Solvency` besides: a
reserve that is not lent out in full holds the difference.

*Pool and backstop together: `InsuredInv`.* That an auction's lot is there when
it is filled rests on a chain through both contracts. Depositors' tokens fall by
a draw or by a withdrawal; a withdrawal is refused while the pool has bad debt;
so as long as there is a bid there must be debt, and the debt that is bid must
be owed: hence `DebtIsBacked` in both halves. Debt leaves the backstop by a fill,
which takes the same off the bid (`FilledDebt`, `LeftDebtIsBacked`), or by a
default, which `bad_debt` refuses while the auction is open and a fill makes
only when it has emptied the auction. Rounding can empty the bid before the lot;
what is left then is not covered, which is why the lot is promised only with a
bid. What the chain is for is `BadDebtFillsAreHonored`: the two panics that could
refuse a fill, of `rm_positions` and of `draw`, do not happen, so that the
auction that is to clear the debt can be filled. `InterestIsBacked` speaks of the reserves as loaded now, since what a fill
takes off is compared with the credit of a later time: it needs
`CreditGrowsWithTime`. All of this is stated once (`Insures`) and asked for
twice, of the ledger and of what the open call sees, `side` and `tx` together; a
commit makes the second the first, an abort forgets it. An abort must also find
the pool solvent with the `unbacked` of before the call, so that is part of what
a call keeps (`SideOK`). For requests the pool had before, `InsuredInv` needs
only that they leave the backstop's debt and every credit alone
(`RequestIsInsured`). A fill of bad debt moves shares between accounts
(`TakenOverMatches`) and may then write off all that is left (`WrittenOff`):
a default in mid-call moves what the suppliers cannot bear into `unbacked` at
once, while the books wait.

*The refinements of `InsuredPool`.* Each has a lemma per action of `InsuredNext`,
which names the step of the abstract specification it is, or shows that nothing
of it changes.

`LedgerIsKept` divides the steps by what they do to the backstop. Requests the
pool had before may add to its debt (`RequestIsSeen`); to `BackstopLedger`
bad debt is the environment's, so that is all it sees (`DebtIsOnlySeen`). A fill
draws and may at once change whether there is debt, which is what `Draw` allows
(`DrawIsSeen`); a donation is one (`DonationIsSeen`); a depositor's call between
two calls is the same call (`DepositorIsSeen`). What an open call sees is the
ledger before it begins and after it commits, so neither is a step.

`WaterfallIsKept` needs `OpenInv`, that an auction with nothing left is gone, for
an auction seen to be one that exists (`ShownIsOpen`). The hard step is a fill
(`BadDebtFillIsWaterfallStep`): that the part of the bid is rounded up and that of
the lot down, that the modifier scales one of them only, and which one, must add
up to the parts and the whole sides of the waterfall's `Fill` (`FillTerms`,
`WholeModifiers`), with auctions over any subset of the debts and any block. A
request of a liquidation may hand debt on and is `DebtArrives`; a depositor's
withdrawal is `Leave` because it is refused while there is debt.

*The waterfall's promise.* `AuctionIsCovered` becomes inductive with types alone.
It is proved of every behaviour of `BadDebtWaterfall` (`WaterfallKeepsItsAuction`)
and, from `InsuredInv`, of the two contracts (`WaterfallIsCovered`): the second
does not follow from the first and the refinement, since a panic is no step of
the waterfall.

*The backstop's ledger.* Its five invariants are inductive together and not one
by one. Of the backstop's token balance they say that it covers what its pools count:
it may be more, since the roundings of claims leave tokens no pool counts. That
strangers hold nothing rests on the shares adding up, and a
withdrawal that takes from the front of a queue stays typed because the queue's
entries add up to what the pool counts. A call changes one pool's balance and at
most one user's (`OnePoolStep`), so that the sums follow from `TotalChange`; how
a partial withdrawal or dequeue splits a queue is `TotalSplit` and
`TotalRenamed`, for any length. `LastOneTakesAll` and `OnlyDrawsCostDepositors`
are about the rounding of `convert_to_shares` and `convert_to_tokens`, and
`OnlyExpiredSharesLeave` about entries counted from the back of a queue.

*The configuration: `ConfigInv`.* An interest auction's lot stays within the
credit because credit only grows, and a change cannot slow the growth of the
past: the credit a reserve loads to is monotone in the time it is loaded at
(`CreditGrowsWithTime`), and a change of a setting first stores every reserve it
concerns as of now. The invariant adds types, valid settings, and that the
announcement of each queued change is at least a delay before its unlock, unless
it was made in Setup.

*Emissions.* What can be claimed, added up over holders, is no invariant to work
with: it is rounded down for each, so that it may rise by a unit for each holder
with less than a unit emitted. `EmissionInv` and `MintedInv` follow what is owed
to the fraction. By it an index rises by no more than was emitted (`IndexStep`),
and every rounding, of an index, a settlement, a rate or a part
(`PartsOfWhole`), takes away. `MintedInv` adds where tokens come from: the
emitter mints for the seconds up to its last distribution and the backstop
distributes for those up to its own, the difference being still to be
distributed; what is distributed while backfilling is still to be dropped. Hence
`CallsInOrder`: once the backstop emits, the emitter has adopted it and is never
behind it.

What could be claimed now is at most what is owed to the fraction, hence
`EmissionsAreFunded` and `EmissionsAreMinted`, and of any one claimant at most
what all can claim, hence `ClaimsAreCoveredUntilALapse` and `ClaimsAreBacked`.
The funds of a pool are its allowance and what earlier ones were left with as they
expired (`Funds`): an expiration moves tokens from the one to the other, a gulp
adds to the first, a claim takes from it, and nothing leaves the second. So claims
lack allowance only where some has expired. `ClaimsAreBacked` needs its premise:
what was backfilled is distributed, and can be claimed, before the emitter drops
it.

*Paid in full: `AccountInv`.* A claim pays no less than what the claimant's
balances earned, second by second, for any supplies; and exactly that where the
supplies divide the scalar (`SharesComeOutEven`), since then an index keeps no
fraction. `AccountInv` says both at once, by a relation that is "at least" or
"equal" as the supplies have it (`Meets`): what each balance times what the
index, brought up to now, rose by since the holder's last settlement covers is
what was held, and what was accrued covers what is due. A change of a balance
moves the first into the second for the one holder it concerns and leaves the
others' alone, which is what the code's rule to settle before any change is for.
That the code divides once for many seconds is never to a claimant's loss
(`FloorOfSum`, `IndexCovers`). How much more than the history a claim may be with
uneven shares is bounded by the funds: all claims together stay within them.

Out of the prover's reach, and left to TLC: liveness, `ENABLED`, what recursive
definitions compute for every input (the sum of `Totals` is proved about by
induction over finite sets in a form that needs no operator parameter), and
`RECURSIVE` operators, of which the modules have none.

## 5. Only model-checked, and not modelled

Only model-checked:

- `BadDebtIsResolved`, which is liveness.

What the models suppose, each beyond the named bounds:

- a bad debt auction needs a value above 0. Debt so small that it is worth 0
  cannot be auctioned, and with a healthy backstop it is not defaulted either;
  `BadDebtWaterfall` supposes of `BadDebtIsResolved` that an auction with a lot
  can be created as long as there is debt and are deposits, so the property does
  not speak of such dust. New debt can only add to it until it is worth something;
- `PaidForWhatWasHeld` and `PaidForWhatWasDeposited` measure with a history that
  rounds each second's part of a share down to 1 / (`SCALAR` * `SCALAR_7`) of a
  token. Where that is a rounding at all, they are bounds from below;
- an allowance that expired is lost to its pool. If nobody gulps a pool's emissions
  for about 120 days, what its holders have not claimed by then is not approved
  again, and `EmissionsAreFunded` counts it as `lapsed`: claims after that draw on
  what later gulps approve, until they fail. `BackstopEmissions` supposes that
  allowances last, which lets pools take more and never less;
- the product constant of a pool's backstop (`calc_pool_backstop_threshold`), the
  comet pool's exchange and the oracle's prices are inputs, any of a small set.

Not modelled:

- *lifetimes of storage entries*: auctions and queued reserve changes are kept
  in temporary storage, which the host may drop when their lifetime ends;
- *authorisation*, events, the wording of errors, the admin handover (propose,
  accept): a refused call is a disabled action, and who may call is not told;
- *overflow of i128*: amounts are bounded by the tokens that exist;
- `submit_with_allowance` differs from `submit` in how the caller's tokens are
  pulled, not in what they are;
- deployment: `deploy` hashes a salt and creates a contract; what the backstop
  makes of `is_pool` is modelled;
- the emitter and the comet pool themselves, which are not in the repository,
  and the mocks and test suites. About nine tenths of the lines of most source
  files are inline tests, which no definition translates.

### Where comments and code differ

Met while modelling. The model follows the code.

- `pool/src/contract.rs:66`: `cancel_set_reserve` panics if "the reserve is not
  queued for initialization". The code removes the entry whether or not there
  is one.
- `pool/src/contract.rs:74-76`: `set_reserve` panics if the reserve "is already
  setup". A reserve that is has its configuration changed (`initialize_reserve`).
- `pool/src/contract.rs:297`: a stale auction has run for 500 blocks "without
  being filled". One that was filled in part may be deleted too.
- `pool/src/contract.rs:171-176`: `update_status` freezes the pool "if 60% of
  backstop deposits are queued for withdrawal and admin on-ice isn't set or 75%
  [...] are queued". An admin-active pool is only put on ice, however much is
  queued (`pool/status.rs:43-48`); a second call freezes it.
- The same comment has status 3 set "if 30% [...] queued and admin active isn't
  set or 50%": an admin's on-ice (2) is kept until 75%, and once an update froze
  such a pool, later ones may make it active, the admin's choice being overwritten.
- `backstop/src/emissions/claim.rs:30-31`: "panic [...] if the claim amount is 0".
  Only a pool listed twice panics.

## 6. Plan

Modelled are all components the contracts' source has state for; every invariant,
action property and refinement of the runs is proved. What is left, in order of
importance:

1. Amounts of shares and tokens that differ, in `BackstopEmissions` composed
   with `BackstopLedger`.
2. The contracts of the emitter and of the comet pool, once their source is at
   hand; they are modelled from how they are used.
