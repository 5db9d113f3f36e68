---------------------------- MODULE LendingPool ----------------------------
(***************************************************************************)
(* A Blend lending pool: its reserves, the positions in them, the tokens   *)
(* it holds, its status and its user liquidation auctions.                 *)
(*                                                                         *)
(* A submit is modelled request by request.  The host runs a contract call *)
(* to its end or rolls it back, so while one is open (tx.phase # "idle")   *)
(* nothing else moves; tx holds the call's view of the ledger and Commit   *)
(* makes it the ledger.  What is left of the code's control in this form:  *)
(* requests see the effects of the ones before them, the checks of         *)
(* validate_submit are accumulated by the requests and made at the end,    *)
(* and a flash loan hands the borrowed tokens to foreign code before the   *)
(* other transfers are made.                                               *)
(***************************************************************************)
EXTENDS Auction, PoolStatus

CONSTANTS
  Users,             \* the accounts that use the pool
  Backstop,          \* the account of the backstop contract
  BstopRate,         \* the backstop's share of interest, of scalar SCALAR_7
  MaxPositions,      \* the pool's max_positions
  MinCollateral,     \* the pool's min_collateral
  DEFAULT_THRESHOLD, \* 0_0000003: below it bad debt is defaulted
  LEDGER_SECONDS,    \* the seconds between two ledgers
  \* Bounds of the inputs and of the run:
  Amounts,           \* the amounts of requests for an asset
  FlashAmounts,      \* the amounts of flash loans
  Donations,         \* the amounts sent to the pool past its accounting
  LiqPercents,       \* the percentages of new liquidations
  FillPercents,      \* the percentages of fills
  Prices,            \* what the oracle may report of an asset; 0 is no
                     \* valid price
  BackstopLevels,    \* the backstop data the pool may find
  AdminStatuses,     \* the statuses the admin sets
  TokenSupply,       \* the tokens of each asset that exist
  MaxRequests,       \* the requests of one submit
  MaxTime            \* the ledgers the run lasts

ASSUME LendingPoolAssumption ==
  /\ IsFiniteSet(Users)
  /\ Backstop \notin Users
  /\ BstopRate \in 0..(SCALAR_7 - 1)
  /\ {MaxPositions, MinCollateral, DEFAULT_THRESHOLD} \subseteq Nat
  /\ LEDGER_SECONDS \in Nat \ {0}
  /\ Amounts \in [Reserves -> SUBSET Nat]
  /\ FlashAmounts \subseteq Nat /\ Donations \subseteq Nat
  /\ LiqPercents \subseteq 1..100 /\ FillPercents \subseteq 1..100
  /\ Prices \in [Reserves -> SUBSET Nat]
  /\ BackstopLevels \subseteq BackstopDatas
  /\ AdminStatuses \subseteq Statuses
  /\ {TokenSupply, MaxRequests, MaxTime} \subseteq Nat

VARIABLES
  now,        \* the ledger's sequence number; its timestamp is Timestamp
  price,      \* the oracle's price of each asset
  backstop,   \* the backstop's pool_data
  status,     \* the pool's status
  res,        \* the ReserveData of each asset
  pos,        \* the positions of each account
  auction,    \* the liquidation auction of each user
  bal,        \* the pool's balance of each asset
  unbacked,   \* history: the defaulted debt no supplier was left to absorb
  tx          \* the open call of submit or flash_loan

vars == <<now, price, backstop, status, res, pos, auction, bal, unbacked, tx>>
env  == <<now, price, backstop, status>>
book == <<res, pos, auction, bal, unbacked>>

---------------------------------------------------------------------------
Holders == Users \cup {Backstop}

NoAuction == [bid |-> Zero, lot |-> Zero, block |-> 0]
Auctions  == [bid : [Reserves -> Nat], lot : [Reserves -> Nat], block : Nat]

NoTx == [phase |-> "idle"]

Txs == [phase    : {"build", "callback"},
        from     : Users,
        res      : [Reserves -> ReserveDatas],
        pos      : [Holders -> Positions],
        auction  : [Users -> Auctions],
        bal      : [Reserves -> Nat],
        touched  : SUBSET Reserves,    \* Pool.reserves_to_store
        in       : [Reserves -> Nat],  \* Actions.spender_transfer
        out      : [Reserves -> Nat],  \* Actions.pool_transfer
        flash    : [Reserves -> Nat],  \* FlashLoan: 0 but for one asset
        health   : BOOLEAN,            \* Actions.check_health
        maxUtil  : SUBSET Reserves,    \* Actions.check_max_util
        prev     : Nat,                \* prev_positions_count
        left     : 0..MaxRequests]

(* One type invariant: every balance, supply, rate and credit the code     *)
(* keeps in a signed integer stays at or above 0, in the ledger and in the *)
(* view of an open call.                                                   *)
TypeOK ==
  /\ now \in 0..MaxTime
  /\ price \in [Reserves -> Nat]
  /\ backstop \in BackstopDatas
  /\ status \in Statuses
  /\ res \in [Reserves -> ReserveDatas]
  /\ pos \in [Holders -> Positions]
  /\ auction \in [Users -> Auctions]
  /\ bal \in [Reserves -> Nat]
  /\ unbacked \in [Reserves -> Nat]
  /\ tx \in {NoTx} \cup Txs

---------------------------------------------------------------------------
Timestamp == now * LEDGER_SECONDS

Loaded(r) == LoadReserve(res[r], Config[r], BstopRate, Timestamp)

HasAuction(u) == auction[u] # NoAuction

Idle     == tx.phase = "idle"
Building == tx.phase = "build" /\ tx.left > 0

(* The pool as execute_initialize and set_reserve leave it, in Setup.      *)
Init ==
  /\ now = 0
  /\ price \in {f \in [Reserves -> UNION {Prices[r] : r \in Reserves}] :
                  \A r \in Reserves : f[r] \in Prices[r]}
  /\ backstop \in BackstopLevels
  /\ status = Setup
  /\ res = [r \in Reserves |-> NewReserve(0)]
  /\ pos = [h \in Holders |-> NoPositions]
  /\ auction = [u \in Users |-> NoAuction]
  /\ bal = Zero
  /\ unbacked = Zero
  /\ tx = NoTx

---------------------------------------------------------------------------
(* Opening a call: Pool::load and User::load.  The view holds every        *)
(* reserve as load_reserve would return it: loading is a function of the   *)
(* stored data and of the timestamp, and neither changes during the call.  *)
Opened(u) ==
  [phase |-> "build", from |-> u, res |-> [r \in Reserves |-> Loaded(r)],
   pos |-> pos, auction |-> auction, bal |-> bal, touched |-> {},
   in |-> Zero, out |-> Zero, flash |-> Zero, health |-> FALSE,
   maxUtil |-> {}, prev |-> EffectiveCount(pos[u]), left |-> MaxRequests]

Submit(u) ==
  /\ Idle
  /\ tx' = Opened(u)
  /\ UNCHANGED <<env, book>>

(* Positions of the caller, in the view.                                   *)
Mine == tx.pos[tx.from]

(* A request that leaves reserve r as `reserve`.                           *)
Request(r, reserve) ==
  [tx EXCEPT !.res[r] = reserve, !.touched = @ \cup {r}, !.left = @ - 1]

\* Mutant: the bound itself is allowed.
AtMostFullUtilization(reserve) == Utilization(reserve) <= SCALAR_7

(* require_utilization_below_100.                                          *)
BelowFullUtilization(reserve) == Utilization(reserve) < SCALAR_7

Minted(r, a) == ToBTokenDown(tx.res[r], a)

(* What apply_supply and apply_supply_collateral share.  With b_rate 0 the *)
(* conversion divides by zero.                                             *)
MaySupply(r, a) ==
  /\ Building
  /\ SupplyAllowed(status)
  /\ Config[r].enabled
  /\ tx.res[r].b_rate > 0
  /\ Minted(r, a) > 0
  /\ TotalSupply([tx.res[r] EXCEPT !.b_supply = @ + Minted(r, a)])
       <= Config[r].supply_cap

Supply(r, a) ==
  /\ MaySupply(r, a)
  /\ LET reserve == [tx.res[r] EXCEPT !.b_supply = @ + Minted(r, a)]
     IN  tx' = [Request(r, reserve) EXCEPT
                  !.pos[tx.from].supply[r] = @ + Minted(r, a),
                  !.in[r] = @ + a]
  /\ UNCHANGED <<env, book>>

SupplyCollateral(r, a) ==
  /\ MaySupply(r, a)
  /\ LET reserve == [tx.res[r] EXCEPT !.b_supply = @ + Minted(r, a)]
     IN  tx' = [Request(r, reserve) EXCEPT
                  !.pos[tx.from].collateral[r] = @ + Minted(r, a),
                  !.in[r] = @ + a]
  /\ UNCHANGED <<env, book>>

\* Mutant: a withdrawal of more than one holds is not cut.
BurntUncut(r, a, held) == ToBTokenUp(tx.res[r], a)

(* Withdrawing more than one holds withdraws what one holds.               *)
Burnt(r, a, held) == MinOf(ToBTokenUp(tx.res[r], a), held)

TokensOut(r, a, held) ==
  IF ToBTokenUp(tx.res[r], a) > held THEN ToAssetFromBToken(tx.res[r], held) ELSE a

MayWithdraw(r, a, held) ==
  /\ Building
  /\ tx.res[r].b_rate > 0
  /\ Burnt(r, a, held) > 0
  /\ BelowFullUtilization([tx.res[r] EXCEPT !.b_supply = @ - Burnt(r, a, held)])

Withdraw(r, a) ==
  LET held    == Mine.supply[r]
      reserve == [tx.res[r] EXCEPT !.b_supply = @ - Burnt(r, a, held)]
  IN  /\ MayWithdraw(r, a, held)
      /\ tx' = [Request(r, reserve) EXCEPT
                  !.pos[tx.from].supply[r] = @ - Burnt(r, a, held),
                  !.out[r] = @ + TokensOut(r, a, held)]
      /\ UNCHANGED <<env, book>>

WithdrawCollateral(r, a) ==
  LET held    == Mine.collateral[r]
      reserve == [tx.res[r] EXCEPT !.b_supply = @ - Burnt(r, a, held)]
  IN  /\ MayWithdraw(r, a, held)
      /\ tx' = [Request(r, reserve) EXCEPT
                  !.pos[tx.from].collateral[r] = @ - Burnt(r, a, held),
                  !.out[r] = @ + TokensOut(r, a, held),
                  !.health = TRUE]
      /\ UNCHANGED <<env, book>>

Borrow(r, a) ==
  LET debt    == ToDTokenUp(tx.res[r], a)
      reserve == [tx.res[r] EXCEPT !.d_supply = @ + debt]
  IN  /\ Building
      /\ BorrowAllowed(status)
      /\ Config[r].enabled
      /\ debt > 0
      /\ BelowFullUtilization(reserve)
      /\ tx' = [Request(r, reserve) EXCEPT
                  !.pos[tx.from].liabilities[r] = @ + debt,
                  !.out[r] = @ + a,
                  !.health = TRUE,
                  !.maxUtil = @ \cup {r}]
      /\ UNCHANGED <<env, book>>

(* Repaying more than one owes refunds the rest.                           *)
Repay(r, a) ==
  LET owed    == Mine.liabilities[r]
      debt    == MinOf(ToDTokenDown(tx.res[r], a), owed)
      over    == ToDTokenDown(tx.res[r], a) > owed
      refund  == IF over THEN a - ToAssetFromDToken(tx.res[r], owed) ELSE 0
      reserve == [tx.res[r] EXCEPT !.d_supply = @ - debt]
  IN  /\ Building
      /\ debt > 0
      /\ refund >= 0
      /\ tx' = [Request(r, reserve) EXCEPT
                  !.pos[tx.from].liabilities[r] = @ - debt,
                  !.in[r] = @ + a,
                  !.out[r] = @ + refund]
      /\ UNCHANGED <<env, book>>

---------------------------------------------------------------------------
(* Moving positions between accounts: User::rm_positions and               *)
(* add_positions, and check_and_handle_user_bad_debt.                      *)
Plus(f, g)  == [r \in Reserves |-> f[r] + g[r]]
Minus(f, g) == [r \in Reserves |-> f[r] - g[r]]

Covers(p, a) == \A r \in Reserves : /\ a.lot[r] <= p.collateral[r]
                                    /\ a.bid[r] <= p.liabilities[r]

\* Mutant: the filler takes the lot and leaves the bid.
MovedForFree(ps, from, to, a) ==
  [ps EXCEPT ![from].collateral  = Minus(@, a.lot),
             ![from].liabilities = Minus(@, a.bid),
             ![to].collateral    = Plus(@, a.lot)]

Moved(ps, from, to, a) ==
  [ps EXCEPT ![from].collateral  = Minus(@, a.lot),
             ![from].liabilities = Minus(@, a.bid),
             ![to].collateral    = Plus(@, a.lot),
             ![to].liabilities   = Plus(@, a.bid)]

HasBadDebt(p) == HasLiabilities(p) /\ ~HasCollateral(p)

\* Mutant: the debt stays with the user, too.
BadDebtToBoth(ps, u) ==
  [ps EXCEPT ![Backstop].liabilities = Plus(@, ps[u].liabilities)]

BadDebtToBackstop(ps, u) ==
  [ps EXCEPT ![Backstop].liabilities = Plus(@, ps[u].liabilities),
             ![u].liabilities = Zero]

\* Mutant: the positions are looked at before the fill moves them.
HandsOnStale(rest, before, after) == IsEmpty(rest) /\ HasBadDebt(before)

(* Whether a fill that leaves `rest` of an auction hands on bad debt, the  *)
(* user's positions being `before` and `after` it.                         *)
HandsOn(rest, before, after) == IsEmpty(rest) /\ HasBadDebt(after)

(* FillUserLiquidationAuction: the caller takes over `percent` of the      *)
(* auction of u.  The subtraction of block numbers panics before the       *)
(* auction starts.  A full fill hands the debt of a user it leaves without *)
(* collateral to the backstop.                                             *)
FillUserLiquidation(u, percent) ==
  /\ Building
  /\ u # tx.from
  /\ tx.auction[u] # NoAuction
  /\ now >= tx.auction[u].block
  /\ LET fill  == ToFill(tx.auction[u], percent, now)
         rest  == Remaining(tx.auction[u], percent)
         moved == Moved(tx.pos, u, tx.from, fill)
         bad   == HandsOn(rest, tx.pos[u], moved[u])
     IN  /\ Covers(tx.pos[u], fill)
         /\ tx' = [tx EXCEPT
              !.pos = IF bad THEN BadDebtToBackstop(moved, u) ELSE moved,
              !.auction[u] = IF IsEmpty(rest) THEN NoAuction ELSE rest,
              !.touched = @ \cup Held(fill.bid) \cup Held(fill.lot)
                            \cup (IF bad THEN Held(moved[u].liabilities) ELSE {}),
              !.health = TRUE,
              !.left = @ - 1]
  /\ UNCHANGED <<env, book>>

(* DeleteLiquidationAuction, of the caller's own auction.                  *)
DeleteLiquidation ==
  /\ Building
  /\ BorrowAllowed(status)
  /\ tx.auction[tx.from] # NoAuction
  /\ tx' = [tx EXCEPT !.auction[tx.from] = NoAuction,
                      !.health = TRUE,
                      !.left = @ - 1]
  /\ UNCHANGED <<env, book>>

---------------------------------------------------------------------------
(* validate_submit.                                                        *)
Healthy(rs, p) ==
  LET d == PositionData(rs, price, p)
  IN  /\ CanValue(price, p)
      /\ ~IsHfUnder(d, MIN_HF)
      /\ d.collateral_base >= MinCollateral

\* Mutant: one position too many.
WithinOneMorePosition ==
  \/ EffectiveCount(Mine) <= tx.prev + 1
  \/ EffectiveCount(Mine) <= MaxPositions

WithinPositions ==
  \/ EffectiveCount(Mine) <= tx.prev
  \/ EffectiveCount(Mine) <= MaxPositions

\* Mutant: one may act while being liquidated.
AuctionIgnored == TRUE

NotInLiquidation == tx.auction[tx.from] = NoAuction

\* Mutant: the maximum is not asked for.
MaxUtilizationIgnored == TRUE

WithinMaxUtilization ==
  \A r \in tx.maxUtil : Utilization(tx.res[r]) <= Config[r].max_util

\* Mutant: only new positions count.
HealthCheckedForNew == tx.health /\ EffectiveCount(Mine) > tx.prev

HealthChecked == tx.health /\ HasLiabilities(Mine)

Validated ==
  /\ WithinPositions
  /\ NotInLiquidation
  /\ WithinMaxUtilization
  /\ HealthChecked => Healthy(tx.res, Mine)

(* handle_transfers, then store_cached_reserves and User::store.  A token  *)
(* transfer fails if the payer lacks the tokens, and with it the call.     *)
BalanceAfter(r) == tx.bal[r] + tx.in[r] - tx.out[r]

Settle ==
  /\ \A r \in Reserves : BalanceAfter(r) \in 0..TokenSupply
  /\ res' = [r \in Reserves |-> IF r \in tx.touched THEN tx.res[r] ELSE res[r]]
  /\ pos' = tx.pos
  /\ auction' = tx.auction
  /\ bal' = [r \in Reserves |-> BalanceAfter(r)]
  /\ tx' = NoTx
  /\ UNCHANGED <<env, unbacked>>

Commit ==
  /\ tx.phase = "build"
  /\ tx.flash = Zero
  /\ Validated
  /\ Settle

(* A panic anywhere in a call undoes all of it.                            *)
Abort ==
  /\ ~Idle
  /\ tx' = NoTx
  /\ UNCHANGED <<env, book>>

---------------------------------------------------------------------------
(* execute_submit_with_flash_loan: the debt is recorded before the         *)
(* requests and the health check is always made.                           *)
FlashLoan(u, r, a) ==
  LET open    == Opened(u)
      debt    == ToDTokenUp(open.res[r], a)
      reserve == [open.res[r] EXCEPT !.d_supply = @ + debt]
  IN  /\ Idle
      /\ BorrowAllowed(status)
      /\ Config[r].enabled
      /\ debt > 0
      /\ BelowFullUtilization(reserve)
      /\ tx' = [open EXCEPT !.res[r] = reserve,
                            !.pos[u].liabilities[r] = @ + debt,
                            !.touched = {r},
                            !.flash[r] = a,
                            !.health = TRUE,
                            !.maxUtil = {r}]
      /\ UNCHANGED <<env, book>>

(* Validated, the call sends the borrowed tokens and runs the receiver.    *)
CallReceiver ==
  /\ tx.phase = "build"
  /\ tx.flash # Zero
  /\ Validated
  /\ \A r \in Reserves : tx.flash[r] <= tx.bal[r]
  /\ tx' = [tx EXCEPT !.phase = "callback",
                      !.bal = [r \in Reserves |-> @[r] - tx.flash[r]]]
  /\ UNCHANGED <<env, book>>

(* The receiver may do anything but call the pool, which the host does not *)
(* reenter.  Of the pool's state it reaches the token balances only.       *)
ReceiverPaysPool(r, a) ==
  /\ tx.phase = "callback"
  /\ tx.bal[r] + a <= TokenSupply
  /\ tx' = [tx EXCEPT !.bal[r] = @ + a]
  /\ UNCHANGED <<env, book>>

CommitFlashLoan == tx.phase = "callback" /\ Settle

---------------------------------------------------------------------------
(* gulp: tokens the accounting does not explain become backstop credit.    *)
ExpectedBalance(reserve) ==
  TotalSupply(reserve) + reserve.backstop_credit - TotalLiabilities(reserve)

Gulp(r) ==
  LET delta == bal[r] - ExpectedBalance(Loaded(r))
  IN  /\ Idle
      /\ BorrowAllowed(status)
      /\ delta > 0
      /\ res' = [res EXCEPT ![r] = [Loaded(r) EXCEPT !.backstop_credit = @ + delta]]
      /\ UNCHANGED <<env, pos, auction, bal, unbacked, tx>>

(* bad_debt of a user: what check_and_handle_user_bad_debt asks for.  The   *)
(* call has no action here: BadDebtNeverRests says that its guard never    *)
(* holds, because the fill that makes bad debt also hands it on.           *)
MayMoveBadDebt(u) == Idle /\ ~HasAuction(u) /\ HasBadDebt(pos[u])

\* Mutant: dTokens are taken for the assets they stand for.
DefaultedTokens(reserve, d) ==
  LET loss == DivCeil(d, reserve.b_supply, SCALAR_12)
  IN  [reserve EXCEPT !.d_supply = @ - d,
                      !.b_rate = MaxOf(@ - loss, 0)]

(* User::default_liabilities: suppliers absorb the loss of d dTokens.      *)
Defaulted(reserve, d) ==
  LET loss == DivCeil(ToAssetFromDToken(reserve, d), reserve.b_supply, SCALAR_12)
  IN  [reserve EXCEPT !.d_supply = @ - d,
                      !.b_rate = MaxOf(@ - loss, 0)]

(* The part of the loss that is more than suppliers have: b_rate is        *)
(* floored at 0.                                                           *)
Shortfall(reserve, d) ==
  MaxOf(ToAssetFromDToken(reserve, d) - TotalSupply(reserve), 0)

\* Mutant: however much the backstop still holds.
MayDefaultAnyTime == HasLiabilities(pos[Backstop])

MayDefault ==
  HasLiabilities(pos[Backstop]) /\ backstop.threshold < DEFAULT_THRESHOLD

(* bad_debt of the backstop: check_and_handle_backstop_bad_debt.            *)
DefaultBadDebt ==
  LET debt == pos[Backstop].liabilities
  IN  /\ Idle
      /\ MayDefault
      /\ \A r \in Held(debt) : res[r].b_supply > 0
      /\ res' = [r \in Reserves |->
                   IF r \in Held(debt) THEN Defaulted(Loaded(r), debt[r]) ELSE res[r]]
      /\ pos' = [pos EXCEPT ![Backstop].liabilities = Zero]
      /\ unbacked' = [r \in Reserves |->
                        IF r \in Held(debt) THEN unbacked[r] + Shortfall(Loaded(r), debt[r])
                        ELSE unbacked[r]]
      /\ UNCHANGED <<env, auction, bal, tx>>

---------------------------------------------------------------------------
(* new_auction, of type UserLiquidation.                                   *)
NewLiquidation(u, bidSet, lotSet, percent) ==
  LET rs    == [r \in Reserves |-> Loaded(r)]
      quote == LiquidationQuote(rs, price, pos[u], bidSet, lotSet, percent)
  IN  /\ Idle
      /\ ~HasAuction(u)
      /\ bidSet # {} /\ bidSet \subseteq Held(pos[u].liabilities)
      /\ lotSet # {} /\ lotSet \subseteq Held(pos[u].collateral)
      /\ Cardinality(bidSet) + Cardinality(lotSet) <= MaxPositions
      /\ CanValue(price, pos[u])
      /\ quote # Refused
      /\ auction' = [auction EXCEPT ![u] =
                       [bid |-> quote.bid, lot |-> quote.lot, block |-> now + 1]]
      /\ UNCHANGED <<env, res, pos, bal, unbacked, tx>>

(* del_auction.                                                            *)
DeleteStaleAuction(u) ==
  /\ Idle
  /\ HasAuction(u)
  /\ auction[u].block + STALE <= now
  /\ auction' = [auction EXCEPT ![u] = NoAuction]
  /\ UNCHANGED <<env, res, pos, bal, unbacked, tx>>

UpdateStatus ==
  /\ Idle
  /\ MayUpdateStatus(status)
  /\ status' = UpdatedStatus(status, backstop)
  /\ UNCHANGED <<now, price, backstop, book, tx>>

SetStatus(s) ==
  /\ Idle
  /\ MaySetStatus(s, backstop)
  /\ status' = s
  /\ UNCHANGED <<now, price, backstop, book, tx>>

---------------------------------------------------------------------------
(* The world around the pool: time, the oracle, the backstop, and tokens   *)
(* anyone may send to the pool.                                            *)
Tick ==
  /\ Idle
  /\ now < MaxTime
  /\ now' = now + 1
  /\ UNCHANGED <<price, backstop, status, book, tx>>

ReportPrice(r, p) ==
  /\ Idle
  /\ price' = [price EXCEPT ![r] = p]
  /\ UNCHANGED <<now, backstop, status, book, tx>>

BackstopChanges(b) ==
  /\ Idle
  /\ backstop' = b
  /\ UNCHANGED <<now, price, status, book, tx>>

Donate(r, a) ==
  /\ Idle
  /\ bal[r] + a <= TokenSupply
  /\ bal' = [bal EXCEPT ![r] = @ + a]
  /\ UNCHANGED <<env, res, pos, auction, unbacked, tx>>

---------------------------------------------------------------------------
Calls ==
  \/ \E u \in Users : Submit(u) \/ DeleteStaleAuction(u)
  \/ \E u \in Users, r \in Reserves, a \in FlashAmounts : FlashLoan(u, r, a)
  \/ \E u \in Users, bidSet, lotSet \in SUBSET Reserves, percent \in LiqPercents :
       NewLiquidation(u, bidSet, lotSet, percent)
  \/ \E r \in Reserves : Gulp(r)
  \/ DefaultBadDebt
  \/ UpdateStatus
  \/ \E s \in AdminStatuses : SetStatus(s)

Requests ==
  \/ \E r \in Reserves : \E a \in Amounts[r] :
       \/ Supply(r, a)
       \/ Withdraw(r, a)
       \/ SupplyCollateral(r, a)
       \/ WithdrawCollateral(r, a)
       \/ Borrow(r, a)
       \/ Repay(r, a)
  \/ \E r \in Reserves, a \in Donations : ReceiverPaysPool(r, a)
  \/ \E u \in Users, percent \in FillPercents : FillUserLiquidation(u, percent)
  \/ DeleteLiquidation
  \/ CallReceiver
  \/ Commit
  \/ CommitFlashLoan
  \/ Abort

World ==
  \/ Tick
  \/ \E r \in Reserves : \E p \in Prices[r] : ReportPrice(r, p)
  \/ \E b \in BackstopLevels : BackstopChanges(b)
  \/ \E r \in Reserves, a \in Donations : Donate(r, a)

Next == Calls \/ Requests \/ World

Spec == Init /\ [][Next]_vars

---------------------------------------------------------------------------
(* Solvency: the tokens the pool holds and is owed cover what it owes its  *)
(* suppliers and its backstop, up to defaulted debt nobody could absorb.   *)
(* It is about every rounding, the accrual of interest, and the order of   *)
(* requests of one call.                                                   *)
Solvent(rs, cash) ==
  \A r \in Reserves :
    TotalSupply(rs[r]) + rs[r].backstop_credit
      <= cash[r] + TotalLiabilities(rs[r]) + unbacked[r]

(* The cash the view of the open call will have after its transfers.  A    *)
(* flash loan's tokens leave when the receiver is called.                  *)
CashInView ==
  [r \in Reserves |->
     BalanceAfter(r) - (IF tx.phase = "build" THEN tx.flash[r] ELSE 0)]

Solvency == /\ Solvent(res, bal)
            /\ ~Idle => Solvent(tx.res, CashInView)

(* Share conservation: the bTokens and dTokens of a reserve are exactly    *)
(* those in the positions, however fills, bad debt and defaults move them. *)
BTokensOf(ps, r) == [h \in Holders |-> ps[h].collateral[r] + ps[h].supply[r]]
DTokensOf(ps, r) == [h \in Holders |-> ps[h].liabilities[r]]

SharesMatchPositions ==
  \A r \in Reserves : /\ res[r].b_supply = Total(BTokensOf(pos, r))
                      /\ res[r].d_supply = Total(DTokensOf(pos, r))

(* An open auction never asks for more than the account it liquidates has: *)
(* nothing but fills touches the positions while it is open, so a fill     *)
(* cannot fail for want of collateral or debt.                             *)
AuctionsAreCovered == \A u \in Users : Covers(pos[u], auction[u])

(* No debt is left behind: a user whose last collateral was sold never     *)
(* rests with debt, the backstop has it.  A call of bad_debt for a user    *)
(* finds nothing to do.                                                    *)
BadDebtNeverRests == \A u \in Users : ~MayMoveBadDebt(u)

(* No account holds more effective positions than the pool allows.         *)
PositionsAreLimited ==
  \A u \in Users : EffectiveCount(pos[u]) <= MaxPositions

(* Whatever an open call has asked for so far can be paid: the pool holds  *)
(* the tokens the call takes out, the ones it lends first included.        *)
PoolCanPay ==
  tx.phase = "build" =>
    \A r \in Reserves : unbacked[r] = 0 =>
      tx.flash[r] <= tx.bal[r] /\ BalanceAfter(r) - tx.flash[r] >= 0

---------------------------------------------------------------------------
(* Action properties.                                                      *)

(* Interest never shrinks a debt, and only a default of the backstop's bad *)
(* debt makes bTokens worth less.                                          *)
RatesMoveOneWay ==
  [][\A r \in Reserves :
       /\ res'[r].d_rate >= res[r].d_rate
       /\ res'[r].b_rate < res[r].b_rate =>
            /\ pos[Backstop].liabilities[r] > 0
            /\ pos'[Backstop].liabilities[r] = 0
            /\ backstop.threshold < DEFAULT_THRESHOLD]_<<res, pos>>

(* A call that leaves its caller with more debt or less collateral in some *)
(* reserve than it found leaves the caller healthy, at the prices and      *)
(* rates of the call, whatever the order of its requests.                  *)
Riskier(p, q) ==
  \E r \in Reserves : \/ q.liabilities[r] > p.liabilities[r]
                      \/ q.collateral[r] < p.collateral[r]

RiskierCallsEndHealthy ==
  [][\A u \in Users :
       /\ ~Idle /\ tx.from = u
       /\ Riskier(pos[u], pos'[u])
       /\ HasLiabilities(pos'[u])
       => Healthy(tx.res, pos'[u])]_pos

(* Debt only grows, but by fills and bad debt, in a reserve that stays     *)
(* within its maximum utilization at the end of the call.                  *)
BorrowingKeepsUtilization ==
  [][\A r \in Reserves :
       res'[r].d_supply > res[r].d_supply =>
         Utilization(res'[r]) <= Config[r].max_util]_res
===========================================================================
