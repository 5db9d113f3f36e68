---------------------------- MODULE InsuredPool ----------------------------
(***************************************************************************)
(* A lending pool together with the part of the backstop that insures it:  *)
(* LendingPool extended by BackstopLedger, with what they do to each       *)
(* other.  The pool auctions the backstop's bad debt for the depositors'   *)
(* tokens (bad_debt_auction.rs) and the backstop's interest for a donation *)
(* to them (backstop_interest_auction.rs); it judges the backstop by the   *)
(* tokens that are left, and the backstop lets nobody leave while the pool *)
(* has debt of it on its books.                                            *)
(*                                                                         *)
(* The fills are requests of a submit.  Their draw, donation and transfer  *)
(* are calls to other contracts, made at once, while the pool's own books  *)
(* are stored at the end; a panic undoes all of it.  So an open call has a *)
(* view of the outside (`side`) beside its view of the books (tx).         *)
(***************************************************************************)
EXTENDS LendingPool

CONSTANTS
  \* Of the backstop, as in BackstopLedger:
  MAX_Q4W_SIZE, Q4W_LOCK_TIME, MaxShares,
  \* Of both:
  Pool,              \* the pool's address
  BackstopToken,     \* the token deposited in the backstop
  Depositors,        \* the accounts that deposit it
  LpSupply,          \* the backstop tokens that exist
  LpAmounts,         \* the amounts of calls to the backstop
  SpotPrice,         \* the oracle value of a backstop token, of SCALAR_7
  ThresholdOf,       \* the threshold that a number of tokens amounts to
  LowTokens,         \* the tokens from which it is at least 0_0000003
  MIN_INTEREST,      \* 200: the least value of interest to auction
  \* How the instance starts:
  Supplied,          \* the collateral of each user
  Borrowed,          \* the debt of each account
  Earned             \* the backstop's interest in each reserve

ASSUME InsuredPoolAssumption ==
  /\ BackstopToken \notin Reserves
  /\ IsFiniteSet(Depositors)
  /\ {MAX_Q4W_SIZE, Q4W_LOCK_TIME, MaxShares, LpSupply, LowTokens} \subseteq Nat
  /\ LpAmounts \subseteq 0..LpSupply
  /\ SpotPrice \in Nat \ {0}
  /\ MIN_INTEREST \in Nat
  /\ ThresholdOf \in [0..LpSupply -> Nat]
  /\ \A t \in 0..LpSupply : ThresholdOf[t] < DEFAULT_THRESHOLD <=> t < LowTokens

(* A pool in the course of its life, with the tokens it has not lent.      *)
OldPositions ==
  [h \in Holders |->
     [liabilities |-> Borrowed[h],
      collateral  |-> IF h \in Users THEN Supplied[h] ELSE Zero,
      supply      |-> Zero]]

ASSUME OldPoolAssumption ==
  /\ Supplied \in [Users -> [Reserves -> Nat]]
  /\ Borrowed \in [Holders -> [Reserves -> Nat]]
  /\ Earned \in [Reserves -> Nat]
  /\ \A r \in Reserves :
       Total(DTokensOf(OldPositions, r)) <= Total(BTokensOf(OldPositions, r)) + Earned[r]

(* The pool's variable backstop is the data of the balance that the open   *)
(* call, or else the ledger, has.                                          *)
VARIABLES
  poolBal, userBal, lp,  \* of BackstopLedger
  bstopAuction,          \* the backstop's two auctions in the pool
  side                   \* what the open call made of poolBal, lp and
                         \* bstopAuction, and unbacked as it was before

outside     == <<poolBal, userBal, lp, bstopAuction, side>>
insuredVars == <<vars, outside>>

---------------------------------------------------------------------------
(* Both sides of a bad debt auction are functions: the bid is of assets of *)
(* the pool and the lot of the backstop token; in an interest auction it   *)
(* is the other way round.                                                 *)
None == [bid |-> <<>>, lot |-> <<>>, block |-> 0]

NoSide == [phase |-> "idle"]

Stored == [phase |-> "open", poolBal |-> poolBal, lp |-> lp,
           auctions |-> bstopAuction, unbacked |-> unbacked]

Current == IF side = NoSide THEN Stored ELSE side

(* load_pool_backstop_data, as far as the pool uses it.                    *)
QueuedPct(b) == IF b.shares > 0 THEN DivCeil(b.q4w, b.shares, SCALAR_7) ELSE 0

BackstopData(b) == [threshold |-> ThresholdOf[b.tokens], q4w_pct |-> QueuedPct(b)]

L == INSTANCE BackstopLedger WITH
       Users       <- Depositors,
       Pools       <- {Pool},
       Deployed    <- {Pool},
       Amounts     <- 0..LpSupply,
       Claims      <- {},
       LpOuts      <- {},
       TokenSupply <- LpSupply,
       badDebt     <- [p \in {Pool} |-> HasLiabilities(pos[Backstop])]

(* Users have supplied and borrowed, and liquidations have left debt to    *)
(* the backstop.                                                           *)
OldReserve(r) ==
  [NewReserve(0) EXCEPT !.b_supply = Total(BTokensOf(OldPositions, r)),
                        !.d_supply = Total(DTokensOf(OldPositions, r)),
                        !.backstop_credit = Earned[r]]

InsuredInit ==
  /\ now = 0
  /\ price \in {f \in [Reserves -> UNION {Prices[r] : r \in Reserves}] :
                  \A r \in Reserves : f[r] \in Prices[r]}
  /\ status = Active
  /\ pos = OldPositions
  /\ res = [r \in Reserves |-> OldReserve(r)]
  /\ auction = [u \in Users |-> NoAuction]
  /\ bal = [r \in Reserves |->
              OldReserve(r).b_supply + Earned[r] - OldReserve(r).d_supply]
  /\ tx = NoTx
  /\ unbacked = Zero
  /\ poolBal = [p \in {Pool} |-> [shares |-> 0, tokens |-> 0, q4w |-> 0]]
  /\ userBal = [p \in {Pool} |-> [u \in Depositors |-> [shares |-> 0, q4w |-> <<>>]]]
  /\ lp = 0
  /\ bstopAuction = [badDebt |-> None, interest |-> None]
  /\ side = NoSide
  /\ backstop = BackstopData(poolBal[Pool])

---------------------------------------------------------------------------
(* create_bad_debt_auction_data and create_interest_auction_data: 120% of  *)
(* a value, in backstop tokens.                                            *)
TokensWorth(value) ==
  DivFloor(MulFloor(value, Percent(120), ORACLE_SCALAR), SpotPrice, SCALAR_7)

ValueOf(amounts) == Total([r \in DOMAIN amounts |-> Value(price, r, amounts[r])])

HasPrice(S) == \A r \in S : price[r] > 0

Lps(amount) == [t \in {BackstopToken} |-> amount]

Auctioned(bid, lot) == [bid |-> bid, lot |-> lot, block |-> now + 1]

\* Mutant: as much as the debt is worth, there or not.
BadDebtLotUncapped(value) == TokensWorth(value)

BadDebtLot(value) == MinOf(poolBal[Pool].tokens, TokensWorth(value))

NewBadDebtAuction(bidSet) ==
  LET owed  == pos[Backstop].liabilities
      value == ValueOf([r \in bidSet |-> ToAssetFromDToken(Loaded(r), owed[r])])
  IN  /\ Idle
      /\ bstopAuction.badDebt = None
      /\ bidSet # {} /\ bidSet \subseteq Held(owed)
      /\ Cardinality(bidSet) < MaxPositions
      /\ HasPrice(bidSet)
      /\ value > 0
      /\ poolBal[Pool].tokens > 0
      /\ bstopAuction' = [bstopAuction EXCEPT !.badDebt =
           Auctioned([r \in bidSet |-> owed[r]], Lps(BadDebtLot(value)))]
      /\ UNCHANGED <<vars, poolBal, userBal, lp, side>>

(* The lot is the credit accrued so far of those of lotSet that have any;  *)
(* the accrual is not stored.                                              *)
NewInterestAuction(lotSet) ==
  LET credit(r) == Loaded(r).backstop_credit
      lot       == [r \in {r \in lotSet : credit(r) > 0} |-> credit(r)]
  IN  /\ Idle
      /\ bstopAuction.interest = None
      /\ DOMAIN lot # {}
      /\ Cardinality(lotSet) < MaxPositions
      /\ HasPrice(DOMAIN lot)
      /\ ValueOf(lot) >= MIN_INTEREST * ORACLE_SCALAR
      /\ bstopAuction' = [bstopAuction EXCEPT !.interest =
           Auctioned(Lps(TokensWorth(ValueOf(lot))), lot)]
      /\ UNCHANGED <<vars, poolBal, userBal, lp, side>>

(* del_auction of one of the backstop's.                                   *)
DeleteStale(kind) ==
  /\ Idle
  /\ bstopAuction[kind] # None
  /\ bstopAuction[kind].block + STALE <= now
  /\ bstopAuction' = [bstopAuction EXCEPT ![kind] = None]
  /\ UNCHANGED <<vars, poolBal, userBal, lp, side>>

---------------------------------------------------------------------------
(* Amounts of some assets, as amounts of all.                              *)
Spread(amounts) ==
  [r \in Reserves |-> IF r \in DOMAIN amounts THEN amounts[r] ELSE 0]

Left(rest) == IF IsEmpty(rest) THEN None ELSE rest

(* What a fill of a backstop's auction asks for first.                     *)
MayFill(kind) ==
  /\ Building
  /\ side.auctions[kind] # None
  /\ now >= side.auctions[kind].block

\* Mutant: the debt is not taken off the backstop.
TakenOverTwice(ps, from, debts) == [ps EXCEPT ![from].liabilities = Plus(@, debts)]

(* User::rm_positions of the backstop and add_positions of the filler.     *)
TakenOver(ps, from, debts) ==
  [ps EXCEPT ![Backstop].liabilities = Minus(@, debts),
             ![from].liabilities = Plus(@, debts)]

(* check_and_handle_backstop_bad_debt, of the backstop's balance b.        *)
DefaultsAt(b) == BackstopData(b).threshold < DEFAULT_THRESHOLD

DefaultedIn(rs, owed) ==
  [r \in Reserves |-> IF owed[r] > 0 THEN Defaulted(rs[r], owed[r]) ELSE rs[r]]

LossOf(rs, owed) ==
  [r \in Reserves |-> IF owed[r] > 0 THEN Shortfall(rs[r], owed[r]) ELSE 0]

(* draw, if the lot is not empty.                                          *)
MayDraw(b, held, a) == a > 0 => L!MayLeave(b, a, 0) /\ a <= held

(* FillBadDebtAuction: the caller takes over debt and is paid out of the   *)
(* deposits.  A full fill also defaults all debt the backstop still has if *)
(* too few tokens are left, which it reads after the draw.                 *)
FillBadDebt(percent) ==
  LET a        == side.auctions.badDebt
      fill     == ToFill(a, percent, now)
      paid     == fill.lot[BackstopToken]
      left     == L!Leaving(side.poolBal[Pool], paid, 0)
      taken    == TakenOver(tx.pos, tx.from, Spread(fill.bid))
      owed     == taken[Backstop].liabilities
      defaults == IsEmpty(Remaining(a, percent)) /\ DefaultsAt(left)
  IN  /\ MayFill("badDebt")
      /\ \A r \in DOMAIN a.bid : fill.bid[r] <= tx.pos[Backstop].liabilities[r]
      /\ MayDraw(side.poolBal[Pool], side.lp, paid)
      /\ defaults => \A r \in Held(owed) : tx.res[r].b_supply > 0
      /\ tx' = [tx EXCEPT
           !.res = IF defaults THEN DefaultedIn(@, owed) ELSE @,
           !.pos = IF defaults THEN [taken EXCEPT ![Backstop].liabilities = Zero]
                   ELSE taken,
           !.touched = @ \cup Held(Spread(fill.bid))
                         \cup (IF defaults THEN Held(owed) ELSE {}),
           !.health = TRUE,
           !.left = @ - 1]
      /\ side' = [side EXCEPT
           !.poolBal[Pool] = left,
           !.lp = @ - paid,
           !.auctions.badDebt = Left(Remaining(a, percent))]
      /\ unbacked' = IF defaults THEN Plus(unbacked, LossOf(tx.res, owed)) ELSE unbacked
      /\ backstop' = BackstopData(left)
      /\ UNCHANGED <<now, price, status, res, pos, auction, bal,
                     poolBal, userBal, lp, bstopAuction>>

\* Mutant: the credit is kept although it is paid out.
CreditKept(rs, lot) == rs

CreditPaid(rs, lot) ==
  [r \in Reserves |-> [rs[r] EXCEPT !.backstop_credit = @ - lot[r]]]

\* Mutant: what was received is not counted for the pool.
DonatedUncounted(s, a) == [s EXCEPT !.lp = @ + a]

(* donate, in the open call's view of the backstop.                        *)
Donated(s, a) == [s EXCEPT !.poolBal[Pool].tokens = @ + a, !.lp = @ + a]

(* FillInterestAuction: the caller donates backstop tokens to the          *)
(* depositors and is paid the interest, at once and without a health check.*)
FillInterest(percent) ==
  LET a    == side.auctions.interest
      fill == ToFill(a, percent, now)
      lot  == Spread(fill.lot)
      gift == fill.bid[BackstopToken]
  IN  /\ MayFill("interest")
      /\ side.lp + gift <= LpSupply
      /\ \A r \in Reserves : lot[r] <= tx.bal[r]
      /\ tx' = [tx EXCEPT
           !.res = CreditPaid(@, lot),
           !.bal = Minus(@, lot),
           !.touched = @ \cup Held(lot),
           !.left = @ - 1]
      /\ side' = [Donated(side, gift) EXCEPT
           !.auctions.interest = Left(Remaining(a, percent))]
      /\ backstop' = BackstopData(Donated(side, gift).poolBal[Pool])
      /\ UNCHANGED <<now, price, status, res, pos, auction, bal, unbacked,
                     poolBal, userBal, lp, bstopAuction>>

---------------------------------------------------------------------------
(* Calls of submit: opened, the pool's own requests, stored or undone.     *)
OpenCall(u) ==
  /\ \/ Submit(u)
     \/ \E r \in Reserves, a \in FlashAmounts : FlashLoan(u, r, a)
  /\ side' = Stored
  /\ UNCHANGED <<poolBal, userBal, lp, bstopAuction>>

OtherRequest ==
  /\ Requests
  /\ tx' # NoTx
  /\ UNCHANGED outside

\* Mutant: the filled auctions are not stored.
PublishedAuctions == bstopAuction

Published == side.auctions

CommitCall ==
  /\ Commit \/ CommitFlashLoan
  /\ poolBal' = side.poolBal
  /\ lp' = side.lp
  /\ bstopAuction' = Published
  /\ side' = NoSide
  /\ UNCHANGED userBal

AbortCall ==
  /\ ~Idle
  /\ tx' = NoTx
  /\ unbacked' = side.unbacked
  /\ backstop' = BackstopData(poolBal[Pool])
  /\ side' = NoSide
  /\ UNCHANGED <<now, price, status, res, pos, auction, bal,
                 poolBal, userBal, lp, bstopAuction>>

\* Mutant: an auction of it may be open.
MayCallBadDebtAnyTime == TRUE

MayCallBadDebt == bstopAuction.badDebt = None

(* bad_debt of the backstop: not while its debt is auctioned.              *)
BackstopBadDebt ==
  /\ MayCallBadDebt
  /\ DefaultBadDebt
  /\ UNCHANGED outside

(* The other calls of the pool, and the world around it.                   *)
OtherCall ==
  /\ \/ \E u \in Users :
          \/ DeleteStaleAuction(u)
          \/ \E bidSet, lotSet \in SUBSET Reserves, percent \in LiqPercents :
               NewLiquidation(u, bidSet, lotSet, percent)
     \/ \E r \in Reserves : \/ Gulp(r)
                            \/ \E a \in Donations : Donate(r, a)
                            \/ \E p \in Prices[r] : ReportPrice(r, p)
     \/ UpdateStatus
     \/ \E s \in AdminStatuses : SetStatus(s)
     \/ Tick
  /\ UNCHANGED outside

(* The depositors' calls of the backstop.                                  *)
DepositorCall ==
  /\ Idle
  /\ UNCHANGED <<now, price, status, book, tx, bstopAuction, side>>
  /\ \E a \in LpAmounts :
       \/ \E u \in Depositors : \/ L!Deposit(u, Pool, a)
                                \/ L!QueueWithdrawal(u, Pool, a)
                                \/ L!DequeueWithdrawal(u, Pool, a)
                                \/ L!Withdraw(u, Pool, a)
       \/ L!Donate(Pool, a)
  /\ backstop' = BackstopData(poolBal'[Pool])

InsuredNext ==
  \/ \E u \in Users : OpenCall(u)
  \/ \E percent \in FillPercents : FillBadDebt(percent) \/ FillInterest(percent)
  \/ OtherRequest
  \/ CommitCall
  \/ AbortCall
  \/ \E S \in SUBSET Reserves : NewBadDebtAuction(S) \/ NewInterestAuction(S)
  \/ \E kind \in {"badDebt", "interest"} : DeleteStale(kind)
  \/ BackstopBadDebt
  \/ OtherCall
  \/ DepositorCall

InsuredSpec == InsuredInit /\ [][InsuredNext]_insuredVars

---------------------------------------------------------------------------
(* The pool's books stay right and balanced: types, shares and solvency as *)
(* LendingPool states them, although fills now move debt of the backstop,  *)
(* pay interest out before the call's other transfers, and default debt in *)
(* the middle of a call.                                                   *)
BooksBalance == SharesMatchPositions /\ Solvency

(* What is auctioned is there at the fill, however long it takes: the debt *)
(* that is bid, the tokens of the lot as long as there is a bid, and the   *)
(* interest, which a fill takes off the credit unasked.                    *)
BackstopAuctionsAreCovered ==
  LET bad      == bstopAuction.badDebt
      interest == bstopAuction.interest
  IN  /\ bad # None =>
           /\ \A r \in DOMAIN bad.bid : bad.bid[r] <= pos[Backstop].liabilities[r]
           /\ Held(Spread(bad.bid)) # {} =>
                bad.lot[BackstopToken] <= poolBal[Pool].tokens
      /\ interest # None =>
           \A r \in DOMAIN interest.lot :
             interest.lot[r] <= Loaded(r).backstop_credit

(* The two contracts as an open call has made them so far: what its next   *)
(* request goes by, and what its commit stores.                            *)
PosSeen    == IF Idle THEN pos ELSE tx.pos
DebtSeen   == PosSeen[Backstop].liabilities
TokensSeen == Current.poolBal[Pool].tokens

AgeSeen(a) ==
  LET oldest == IF STALE > RAMP THEN STALE ELSE RAMP + 1
  IN  MinOf(now - a.block, oldest)

AuctionSeen ==
  LET a == Current.auctions.badDebt
  IN  IF a = None THEN [bid |-> Zero, lot |-> 0, age |-> 0]
      ELSE [bid |-> Spread(a.bid), lot |-> a.lot[BackstopToken], age |-> AgeSeen(a)]

(* The waterfall: depositors pay for bad debt until too little is left of  *)
(* their tokens, then suppliers do, and no depositor leaves before.        *)
W == INSTANCE BadDebtWaterfall WITH
       Assets    <- Reserves,
       LOW       <- LowTokens,
       Owable    <- Nat,
       MaxTokens <- LpSupply,
       debt      <- DebtSeen,
       tokens    <- TokensSeen,
       auction   <- AuctionSeen

(* Whatever calls do, request by request, is a step of the waterfall.      *)
(* Storing the call is none; a panic takes its steps back.                 *)
KeepsTheWaterfall == W!Init /\ [][W!Next \/ AbortCall]_(W!vars)

(* BackstopLedger as an open call has made it.  To the backstop the pool   *)
(* is an environment that draws, donates and has bad debt.                 *)
Seen == INSTANCE BackstopLedger WITH
          Users       <- Depositors,
          Pools       <- {Pool},
          Deployed    <- {Pool},
          Amounts     <- 0..LpSupply,
          Claims      <- {},
          LpOuts      <- {},
          TokenSupply <- LpSupply,
          poolBal     <- Current.poolBal,
          lp          <- Current.lp,
          badDebt     <- [p \in {Pool} |-> HasLiabilities(PosSeen[Backstop])]

(* Whatever the pool's calls do to the backstop, request by request, the   *)
(* backstop offers as a call of its own.                                   *)
KeepsTheLedger == Seen!Init /\ [][Seen!Next \/ AbortCall]_(Seen!vars)
===========================================================================
