------------------------- MODULE InsuredPoolProofs -------------------------
(***************************************************************************)
(* Theorems about InsuredPool: the books of a pool and of the backstop     *)
(* that insures it, for any number of users, depositors and reserves, any  *)
(* interest, prices and thresholds, and calls that mix requests of the     *)
(* pool's own with fills of the backstop's auctions.                       *)
(*                                                                         *)
(* InsuredInv extends IInv and SolventInv of LendingPoolProofs.  It says   *)
(* of the ledger, and again of what an open call sees of both contracts,   *)
(* that the auctions are backed: the debt that is bid is the backstop's,   *)
(* the tokens of its lot are deposited as long as there is a bid, and the  *)
(* interest of the other auction is credited.  It has to be said of both,  *)
(* because a fill pays from the outside's view while the pool's own books  *)
(* are stored at the end, and a panic undoes all of it.                    *)
(*                                                                         *)
(* From InsuredInv follow the two refinements.  Every step of a call, each *)
(* of its requests by itself, is a step of BackstopLedger and of           *)
(* BadDebtWaterfall as the open call has made them, or changes nothing of  *)
(* them; only a panic takes steps back.                                    *)
(***************************************************************************)
EXTENDS InsuredPool, LendingPoolProofs

(* The backstop's auctions: of debt for backstop tokens, and of interest   *)
(* the other way round.                                                    *)
Tokens == [{BackstopToken} -> Nat]

BadDebtAuctions ==
  UNION {[bid : [S -> Nat], lot : Tokens, block : Nat] : S \in SUBSET Reserves}

InterestAuctions ==
  UNION {[bid : Tokens, lot : [S -> Nat], block : Nat] : S \in SUBSET Reserves}

BackstopAuctions == [badDebt  : {None} \cup BadDebtAuctions,
                     interest : {None} \cup InterestAuctions]

PoolBalances == [shares : Nat, tokens : Nat, q4w : Nat]

(* A balance b of the backstop, of which it has l tokens.                  *)
Deposited(b, l) ==
  /\ b \in [{Pool} -> PoolBalances]
  /\ l \in 0..LpSupply
  /\ b[Pool].tokens <= l

(* What an auction of bad debt takes on and pays is there: the debt is the *)
(* backstop's, and as long as there is any the deposits hold the lot.      *)
DebtIsBacked(a, owed, tokens) ==
  a # None =>
    /\ \A r \in DOMAIN a.bid : a.bid[r] <= owed[r]
    /\ (\E r \in DOMAIN a.bid : a.bid[r] > 0) => a.lot[BackstopToken] <= tokens

(* The interest that is auctioned is still the backstop's.                 *)
InterestIsBacked(a, rs) ==
  a # None => \A r \in DOMAIN a.lot : a.lot[r] <= rs[r].backstop_credit

Insures(b, l, auctions, rs, ps) ==
  /\ Deposited(b, l)
  /\ auctions \in BackstopAuctions
  /\ DebtIsBacked(auctions.badDebt, ps[Backstop].liabilities, b[Pool].tokens)
  /\ InterestIsBacked(auctions.interest, rs)

LoadedReserves == [r \in Reserves |-> Loaded(r)]

Sides == [phase : {"open"}, poolBal : [{Pool} -> PoolBalances], lp : Nat,
          auctions : BackstopAuctions, unbacked : [Reserves -> Nat]]

SideOK ==
  /\ side \in Sides
  /\ Insures(side.poolBal, side.lp, side.auctions, tx.res, tx.pos)
  /\ Covered(res, bal, side.unbacked)
  /\ backstop = BackstopData(side.poolBal[Pool])

InsuredInv ==
  /\ IInv
  /\ SolventInv
  /\ Insures(poolBal, lp, bstopAuction, LoadedReserves, pos)
  /\ IF Idle THEN side = NoSide /\ backstop = BackstopData(poolBal[Pool])
     ELSE SideOK

---------------------------------------------------------------------------
(* The parts of the invariant.                                             *)
LEMMA DataTyped ==
  ASSUME NEW b, NEW l, Deposited(b, l)
  PROVE  BackstopData(b[Pool]) \in BackstopDatas
<1>1. /\ b[Pool] \in PoolBalances /\ l \in 0..LpSupply /\ b[Pool].tokens <= l
  BY DEF Deposited
<1>2. /\ b[Pool].shares \in Nat /\ b[Pool].tokens \in Nat /\ b[Pool].q4w \in Nat
  BY <1>1 DEF PoolBalances
<1>3. b[Pool].tokens \in 0..LpSupply
  BY <1>1, <1>2, InsuredPoolAssumption
<1>4. ThresholdOf[b[Pool].tokens] \in Nat
  BY <1>3, InsuredPoolAssumption
<1>5. QueuedPct(b[Pool]) \in Nat
  <2>1. CASE b[Pool].shares > 0
    <3>1. b[Pool].shares \in Nat \ {0} /\ SCALAR_7 \in Nat
      BY <1>2, <2>1, ScalarAssumption
    <3>2. DivCeil(b[Pool].q4w, b[Pool].shares, SCALAR_7) \in Nat
      BY <1>2, <3>1, RoundingOfNat
    <3> QED BY <2>1, <3>2 DEF QueuedPct
  <2>2. CASE ~(b[Pool].shares > 0)
    BY <2>2 DEF QueuedPct
  <2> QED BY <2>1, <2>2
<1> QED BY <1>4, <1>5 DEF BackstopData, BackstopDatas

LEMMA BadDebtAuctionTyped ==
  ASSUME NEW auctions \in BackstopAuctions, auctions.badDebt # None
  PROVE  LET a == auctions.badDebt
         IN  /\ DOMAIN a.bid \subseteq Reserves
             /\ a.bid \in [DOMAIN a.bid -> Nat]
             /\ a.lot \in [{BackstopToken} -> Nat]
             /\ a.block \in Nat
<1>1. auctions.badDebt \in BadDebtAuctions
  BY DEF BackstopAuctions
<1>2. PICK S \in SUBSET Reserves :
        auctions.badDebt \in [bid : [S -> Nat], lot : Tokens, block : Nat]
  BY <1>1 DEF BadDebtAuctions
<1> QED BY <1>2 DEF Tokens

LEMMA InterestAuctionTyped ==
  ASSUME NEW auctions \in BackstopAuctions, auctions.interest # None
  PROVE  LET a == auctions.interest
         IN  /\ a.bid \in [{BackstopToken} -> Nat]
             /\ DOMAIN a.lot \subseteq Reserves
             /\ a.lot \in [DOMAIN a.lot -> Nat]
             /\ a.block \in Nat
<1>1. auctions.interest \in InterestAuctions
  BY DEF BackstopAuctions
<1>2. PICK S \in SUBSET Reserves :
        auctions.interest \in [bid : Tokens, lot : [S -> Nat], block : Nat]
  BY <1>1 DEF InterestAuctions
<1> QED BY <1>2 DEF Tokens

(* Auctions stay backed while credit and debt do not fall; what happens to *)
(* the debt does not matter to anybody if none is auctioned.               *)
LEMMA InsuresStays ==
  ASSUME NEW b, NEW l, NEW auctions, NEW rs, NEW ps, Insures(b, l, auctions, rs, ps),
         NEW qs, NEW ts,
         \A r \in Reserves : /\ rs[r].backstop_credit \in Nat /\ qs[r].backstop_credit \in Nat
                             /\ qs[r].backstop_credit >= rs[r].backstop_credit,
         \/ auctions.badDebt = None
         \/ \A r \in Reserves :
              /\ ps[Backstop].liabilities[r] \in Nat /\ ts[Backstop].liabilities[r] \in Nat
              /\ ts[Backstop].liabilities[r] >= ps[Backstop].liabilities[r]
  PROVE  Insures(b, l, auctions, qs, ts)
<1>1. /\ Deposited(b, l) /\ auctions \in BackstopAuctions
      /\ DebtIsBacked(auctions.badDebt, ps[Backstop].liabilities, b[Pool].tokens)
      /\ InterestIsBacked(auctions.interest, rs)
  BY DEF Insures
<1>2. DebtIsBacked(auctions.badDebt, ts[Backstop].liabilities, b[Pool].tokens)
  <2>1. CASE auctions.badDebt = None
    BY <2>1 DEF DebtIsBacked
  <2>2. CASE auctions.badDebt # None
    <3> DEFINE a == auctions.badDebt
    <3>1. /\ DOMAIN a.bid \subseteq Reserves /\ a.bid \in [DOMAIN a.bid -> Nat]
      BY <1>1, <2>2, BadDebtAuctionTyped
    <3>2. \A r \in DOMAIN a.bid : a.bid[r] <= ps[Backstop].liabilities[r] /\ a.bid[r] \in Nat
      BY <1>1, <2>2, <3>1 DEF DebtIsBacked
    <3>3. \A r \in DOMAIN a.bid : a.bid[r] <= ts[Backstop].liabilities[r]
      BY <2>2, <3>1, <3>2
    <3> QED BY <1>1, <2>2, <3>3 DEF DebtIsBacked
  <2> QED BY <2>1, <2>2
<1>3. InterestIsBacked(auctions.interest, qs)
  <2>1. CASE auctions.interest = None
    BY <2>1 DEF InterestIsBacked
  <2>2. CASE auctions.interest # None
    <3> DEFINE a == auctions.interest
    <3>1. /\ DOMAIN a.lot \subseteq Reserves /\ a.lot \in [DOMAIN a.lot -> Nat]
      BY <1>1, <2>2, InterestAuctionTyped
    <3>2. \A r \in DOMAIN a.lot : a.lot[r] <= rs[r].backstop_credit /\ a.lot[r] \in Nat
      BY <1>1, <2>2, <3>1 DEF InterestIsBacked
    <3>3. \A r \in DOMAIN a.lot : a.lot[r] <= qs[r].backstop_credit
      BY <2>2, <3>1, <3>2
    <3> QED BY <2>2, <3>3 DEF InterestIsBacked
  <2> QED BY <2>1, <2>2
<1> QED BY <1>1, <1>2, <1>3 DEF Insures

(* The same in the ledger, whose credit is the credit accrued so far.      *)
LEMMA LoadedTyped ==
  ASSUME IInv
  PROVE  \A r \in Reserves : /\ LoadedReserves[r] = Loaded(r)
                             /\ Loaded(r) \in ReserveDatas
                             /\ Loaded(r).backstop_credit \in Nat
                             /\ res[r] \in ReserveDatas
                             /\ pos[Backstop].liabilities[r] \in Nat
<1> SUFFICES ASSUME NEW r \in Reserves
             PROVE  /\ LoadedReserves[r] = Loaded(r)
                    /\ Loaded(r) \in ReserveDatas
                    /\ Loaded(r).backstop_credit \in Nat
                    /\ res[r] \in ReserveDatas
                    /\ pos[Backstop].liabilities[r] \in Nat
  OBVIOUS
<1>1. Loaded(r) \in ReserveDatas
  BY LoadedUpdates DEF Updated
<1>2. Loaded(r).backstop_credit \in Nat
  BY <1>1 DEF ReserveDatas
<1>3. res[r] \in ReserveDatas
  BY DEF IInv, TypeOK
<1>4. pos[Backstop].liabilities[r] \in Nat
  <2>1. pos[Backstop] \in Positions
    BY DEF IInv, TypeOK, Holders
  <2> QED BY <2>1 DEF Positions
<1> QED BY <1>1, <1>2, <1>3, <1>4 DEF LoadedReserves

---------------------------------------------------------------------------
(* The start: a pool whose books balance, without auctions.                *)
LEMMA WholeQuotient ==
  ASSUME NEW n \in Nat, NEW s \in Nat \ {0}
  PROVE  MulFloor(n, s, s) = n /\ MulCeil(n, s, s) = n
<1> DEFINE m == n * s
           f == FloorDiv(m, s)
           c == CeilDiv(m, s)
<1>1. m \in Int /\ n \in Int /\ n * s <= m /\ m <= n * s
  OBVIOUS
<1> HIDE DEF m
<1>2. n <= f /\ c <= n
  BY <1>1, FloorIsGreatest, CeilIsLeast
<1>3. f \in Int /\ c \in Int /\ f * s <= m /\ m <= c * s
  BY <1>1, FloorBounds, CeilBounds
<1> HIDE DEF f, c
<1>4. f \in Nat /\ c \in Nat
  <2>1. f \in Nat
    BY <1>2, <1>3
  <2>2. CeilDiv(m, s) \in Nat
    <3>1. m \in Nat
      BY DEF m
    <3> QED BY <3>1, CeilOfNat
  <2> QED BY <2>1, <2>2 DEF c
<1>5. f <= n /\ n <= c
  <2>1. f * s <= n * s /\ n * s <= c * s
    BY <1>3 DEF m
  <2> QED BY <1>4, <2>1, CancelFactor
<1>6. f = n /\ c = n
  BY <1>2, <1>4, <1>5
<1> QED BY <1>6 DEF MulFloor, MulCeil, f, c, m

LEMMA OldPoolTyped ==
  ASSUME NEW r \in Reserves
  PROVE  /\ OldPositions \in [Holders -> Positions]
         /\ OldReserve(r) \in ReserveDatas
         /\ OldReserve(r).b_supply = Total(BTokensOf(OldPositions, r))
         /\ OldReserve(r).d_supply = Total(DTokensOf(OldPositions, r))
         /\ OldReserve(r).d_rate = SCALAR_12 /\ OldReserve(r).last_time = 0
         /\ OldReserve(r).b_supply + Earned[r] - OldReserve(r).d_supply \in Nat
         /\ Claims(OldReserve(r))
              = OldReserve(r).b_supply + Earned[r] - OldReserve(r).d_supply
<1>1. /\ Supplied \in [Users -> [Reserves -> Nat]]
      /\ Borrowed \in [Holders -> [Reserves -> Nat]]
      /\ Earned \in [Reserves -> Nat] /\ Earned[r] \in Nat
  BY OldPoolAssumption
<1>2. Zero \in [Reserves -> Nat]
  BY DEF Zero
<1>3. OldPositions \in [Holders -> Positions]
  <2>1. \A h \in Holders : (IF h \in Users THEN Supplied[h] ELSE Zero) \in [Reserves -> Nat]
    BY <1>1, <1>2
  <2> QED BY <1>1, <1>2, <2>1 DEF OldPositions, Positions
<1> DEFINE b == Total(BTokensOf(OldPositions, r))
           d == Total(DTokensOf(OldPositions, r))
<1>4. b \in Nat /\ d \in Nat
  BY <1>3, TokensTyped, HoldersFinite, TotalIsCount
<1>5. d <= b + Earned[r]
  BY OldPoolAssumption
<1>6. OldReserve(r) = [b_rate |-> SCALAR_12, d_rate |-> SCALAR_12, ir_mod |-> SCALAR_7,
                       b_supply |-> b, d_supply |-> d, backstop_credit |-> Earned[r],
                       last_time |-> 0]
  <2>1. OldReserve(r) = [NewReserve(0) EXCEPT !.b_supply = b, !.d_supply = d,
                                              !.backstop_credit = Earned[r]]
    BY DEF OldReserve
  <2> HIDE DEF b, d
  <2> QED BY <2>1 DEF NewReserve
<1> HIDE DEF b, d
<1>7. OldReserve(r) \in ReserveDatas
  BY <1>1, <1>4, <1>6, ScalarAssumption DEF ReserveDatas
<1>8. b + Earned[r] - d \in Nat
  BY <1>1, <1>4, <1>5
<1>9. Claims(OldReserve(r)) = b + Earned[r] - d
  <2>1. MulFloor(b, SCALAR_12, SCALAR_12) = b /\ MulCeil(d, SCALAR_12, SCALAR_12) = d
    BY <1>4, ScalarAssumption, WholeQuotient
  <2>2. TotalSupply(OldReserve(r)) = b /\ TotalLiabilities(OldReserve(r)) = d
    BY <1>6, <2>1 DEF TotalSupply, TotalLiabilities, ToAssetFromBToken, ToAssetFromDToken
  <2> QED BY <1>6, <2>2 DEF Claims
<1> QED BY <1>3, <1>6, <1>7, <1>8, <1>9 DEF b, d

LEMMA InitIsInsured ==
  ASSUME InsuredInit
  PROVE  InsuredInv
<1>1. /\ now = 0 /\ status = Active /\ pos = OldPositions
      /\ res = [r \in Reserves |-> OldReserve(r)]
      /\ auction = [u \in Users |-> NoAuction]
      /\ bal = [r \in Reserves |->
                 OldReserve(r).b_supply + Earned[r] - OldReserve(r).d_supply]
      /\ tx = NoTx /\ unbacked = Zero
      /\ lp = 0 /\ side = NoSide
      /\ bstopAuction = [badDebt |-> None, interest |-> None]
      /\ backstop = BackstopData(poolBal[Pool])
  BY DEF InsuredInit
<1>2. poolBal = [p \in {Pool} |-> [shares |-> 0, tokens |-> 0, q4w |-> 0]]
  BY DEF InsuredInit
<1>3. Deposited(poolBal, lp)
  <2>1. LpSupply \in Nat
    BY InsuredPoolAssumption
  <2>2. [shares |-> 0, tokens |-> 0, q4w |-> 0] \in PoolBalances
    BY DEF PoolBalances
  <2> QED BY <1>1, <1>2, <2>1, <2>2 DEF Deposited
<1>4. TypeOK
  <2>1. price \in [Reserves -> Nat]
    BY LendingPoolAssumption DEF InsuredInit
  <2>2. backstop \in BackstopDatas
    BY <1>1, <1>3, DataTyped
  <2>3. Active \in Statuses
    BY DEF Active, Statuses
  <2>4. /\ res \in [Reserves -> ReserveDatas] /\ bal \in [Reserves -> Nat]
    BY <1>1, OldPoolTyped
  <2>5. pos \in [Holders -> Positions]
    <3>1. CASE Reserves = {}
      <4>1. /\ Zero \in [Reserves -> Nat] /\ Supplied \in [Users -> [Reserves -> Nat]]
            /\ Borrowed \in [Holders -> [Reserves -> Nat]]
        BY OldPoolAssumption DEF Zero
      <4>2. \A h \in Holders : (IF h \in Users THEN Supplied[h] ELSE Zero) \in [Reserves -> Nat]
        BY <4>1
      <4> QED BY <1>1, <4>1, <4>2 DEF OldPositions, Positions
    <3>2. CASE Reserves # {}
      BY <1>1, <3>2, OldPoolTyped
    <3> QED BY <3>1, <3>2
  <2>6. Zero \in [Reserves -> Nat] /\ NoAuction \in Auctions
    BY DEF Zero, NoAuction, Auctions
  <2>7. now \in 0..MaxTime
    BY <1>1, LendingPoolAssumption
  <2> QED BY <1>1, <2>1, <2>2, <2>3, <2>4, <2>5, <2>6, <2>7 DEF TypeOK
<1>5. Idle
  BY <1>1 DEF Idle, NoTx
<1>6. IInv
  <2>1. Matches(res, pos)
    BY <1>1, OldPoolTyped DEF Matches
  <2>2. \A r \in Reserves : res[r].d_rate = SCALAR_12 /\ res[r].last_time = 0
    BY <1>1, OldPoolTyped
  <2>3. Timestamp \in Nat /\ SCALAR_12 \in Nat
    BY <1>4, TimestampIsNat, ScalarAssumption
  <2>4. Grown(res)
    BY <2>2, <2>3 DEF Grown
  <2> QED BY <1>4, <1>5, <2>1, <2>4 DEF IInv
<1>7. SolventInv
  <2>1. ASSUME NEW r \in Reserves
        PROVE  Claims(res[r]) <= bal[r] + unbacked[r]
    <3>1. Claims(res[r]) = bal[r] /\ bal[r] \in Nat /\ unbacked[r] = 0
      BY <1>1, OldPoolTyped DEF Zero
    <3> QED BY <3>1
  <2> QED BY <1>5, <2>1 DEF SolventInv, Covered
<1>8. Insures(poolBal, lp, bstopAuction, LoadedReserves, pos)
  <2>1. bstopAuction \in BackstopAuctions /\ bstopAuction.badDebt = None
        /\ bstopAuction.interest = None
    BY <1>1 DEF BackstopAuctions
  <2> QED BY <1>3, <2>1 DEF Insures, DebtIsBacked, InterestIsBacked
<1> QED BY <1>1, <1>5, <1>6, <1>7, <1>8 DEF InsuredInv

---------------------------------------------------------------------------
(* Calls: opened, the pool's own requests, stored or undone.               *)
LEMMA RequestsAreOfCalls ==
  ASSUME Requests
  PROVE  ~Idle
<1>1. CASE \E r \in Reserves : \E a \in Amounts[r] :
             \/ Supply(r, a)
             \/ Withdraw(r, a)
             \/ SupplyCollateral(r, a)
             \/ WithdrawCollateral(r, a)
             \/ Borrow(r, a)
             \/ Repay(r, a)
  <2>1. PICK r \in Reserves : \E a \in Amounts[r] :
             \/ Supply(r, a)
             \/ Withdraw(r, a)
             \/ SupplyCollateral(r, a)
             \/ WithdrawCollateral(r, a)
             \/ Borrow(r, a)
             \/ Repay(r, a)
    BY <1>1
  <2>2. PICK a \in Amounts[r] :
             \/ Supply(r, a)
             \/ Withdraw(r, a)
             \/ SupplyCollateral(r, a)
             \/ WithdrawCollateral(r, a)
             \/ Borrow(r, a)
             \/ Repay(r, a)
    BY <2>1
  <2>3. Building
    <3>1. CASE Supply(r, a) \/ SupplyCollateral(r, a)
      BY <3>1, Zenon DEF Supply, SupplyCollateral, MaySupply
    <3>2. CASE Withdraw(r, a) \/ WithdrawCollateral(r, a)
      BY <3>2, Zenon DEF Withdraw, WithdrawCollateral, MayWithdraw
    <3>3. CASE Borrow(r, a) \/ Repay(r, a)
      BY <3>3, Zenon DEF Borrow, Repay
    <3> QED BY <2>2, <3>1, <3>2, <3>3
  <2> QED BY <2>3 DEF Building, Idle
<1>2. CASE \E u \in Users, percent \in FillPercents : FillUserLiquidation(u, percent)
  BY <1>2 DEF FillUserLiquidation, Building, Idle
<1>3. CASE \/ DeleteLiquidation \/ CallReceiver
           \/ \E r \in Reserves, a \in Donations : ReceiverPaysPool(r, a)
  BY <1>3 DEF DeleteLiquidation, CallReceiver, ReceiverPaysPool, Building, Idle
<1>4. CASE Commit \/ CommitFlashLoan \/ Abort
  BY <1>4 DEF Commit, CommitFlashLoan, Abort, Idle
<1> QED BY <1>1, <1>2, <1>3, <1>4 DEF Requests

(* The credit and the debt of the backstop in the view of an open call.    *)
LEMMA ViewedCredit ==
  ASSUME NEW t \in Txs, NEW r \in Reserves
  PROVE  t.res[r].backstop_credit \in Nat /\ t.pos[Backstop].liabilities[r] \in Nat
<1>1. t.res \in [Reserves -> ReserveDatas] /\ t.pos \in [Holders -> Positions]
  BY DEF Txs
<1>2. Backstop \in Holders
  BY DEF Holders
<1>3. t.res[r] \in ReserveDatas /\ t.pos[Backstop] \in Positions
  BY <1>1, <1>2
<1> QED BY <1>3 DEF ReserveDatas, Positions

LEMMA RequestIsInsured ==
  ASSUME InsuredInv, OtherRequest
  PROVE  InsuredInv'
<1>1. /\ Requests /\ tx' # NoTx
      /\ UNCHANGED <<poolBal, userBal, lp, bstopAuction, side>>
  BY DEF OtherRequest, outside
<1>2. ~Idle /\ IInv /\ SolventInv /\ SideOK
      /\ Insures(poolBal, lp, bstopAuction, LoadedReserves, pos)
  BY <1>1, RequestsAreOfCalls DEF InsuredInv
<1>3. ~Commit /\ ~CommitFlashLoan /\ ~Abort
  BY <1>1 DEF Commit, CommitFlashLoan, Abort, Settle
<1>4. IInv' /\ SolventInv'
  BY <1>1, <1>2, RequestsKeepIInv, RequestsAreSolvent
<1>5. Untaken /\ UNCHANGED <<env, book>>
  BY <1>1, <1>2, <1>3, OtherRequestsAreUntaken
<1>6. tx \in Txs /\ tx' \in Txs
  BY <1>1, <1>2, <1>4, ViewTyped DEF IInv, TypeOK
<1>7. ~Idle'
  BY <1>6 DEF Idle, Txs
<1>8. UNCHANGED <<now, res, pos, bal, backstop>>
  BY <1>5 DEF env, book
<1>9. LoadedReserves' = LoadedReserves
  BY <1>8 DEF LoadedReserves, Loaded, Timestamp
<1>10. Insures(poolBal', lp', bstopAuction', LoadedReserves', pos')
  BY <1>1, <1>2, <1>8, <1>9
<1>11. \A r \in Reserves : /\ tx.res[r].backstop_credit \in Nat
                           /\ tx.pos[Backstop].liabilities[r] \in Nat
                           /\ tx'.res[r].backstop_credit \in Nat
                           /\ tx'.pos[Backstop].liabilities[r] \in Nat
                           /\ tx'.res[r].backstop_credit >= tx.res[r].backstop_credit
                           /\ tx'.pos[Backstop].liabilities[r]
                                >= tx.pos[Backstop].liabilities[r]
  BY <1>5, <1>6, ViewedCredit DEF Untaken
<1>12. Insures(side.poolBal, side.lp, side.auctions, tx'.res, tx'.pos)
  <2>1. Insures(side.poolBal, side.lp, side.auctions, tx.res, tx.pos)
    BY <1>2 DEF SideOK
  <2> QED BY <1>11, <2>1, InsuresStays
<1>13. SideOK'
  BY <1>1, <1>2, <1>8, <1>12 DEF SideOK
<1> QED BY <1>4, <1>7, <1>10, <1>13 DEF InsuredInv

(* A call opens with the two contracts as they are.                        *)
LEMMA OpeningLoads ==
  ASSUME InsuredInv, NEW u \in Users, OpenCall(u)
  PROVE  /\ Idle /\ UNCHANGED <<env, book>>
         /\ tx'.phase = "build" /\ tx'.pos[Backstop] = pos[Backstop]
         /\ \A r \in Reserves : tx'.res[r].backstop_credit = Loaded(r).backstop_credit
<1>1. Submit(u) \/ \E r \in Reserves, a \in FlashAmounts : FlashLoan(u, r, a)
  BY DEF OpenCall
<1>2. Idle /\ UNCHANGED <<env, book>>
  BY <1>1, Zenon DEF Submit, FlashLoan
<1>3. IInv
  BY DEF InsuredInv
<1>6. u # Backstop /\ Backstop \in Holders /\ u \in Holders
  BY LendingPoolAssumption DEF Holders
<1>7. pos \in [Holders -> Positions] /\ \A r \in Reserves : Loaded(r) \in ReserveDatas
  BY <1>3, LoadedTyped DEF IInv, TypeOK
<1>8. /\ tx'.phase = "build" /\ tx'.pos[Backstop] = pos[Backstop]
      /\ \A r \in Reserves : tx'.res[r].backstop_credit = Loaded(r).backstop_credit
  <2>1. CASE Submit(u)
    BY <2>1 DEF Submit, Opened
  <2>2. CASE \E r \in Reserves, a \in FlashAmounts : FlashLoan(u, r, a)
    <3>1. PICK r \in Reserves, a \in FlashAmounts : FlashLoan(u, r, a)
      BY <2>2
    <3> DEFINE rs == [x \in Reserves |-> Loaded(x)]
               d == rs[r].d_supply + ToDTokenUp(rs[r], a)
               n == pos[u].liabilities[r] + ToDTokenUp(rs[r], a)
               reserve == [rs[r] EXCEPT !.d_supply = d]
    <3>2. tx' = [Opened(u) EXCEPT !.res[r] = reserve,
                                  !.pos[u].liabilities[r] = n,
                                  !.touched = {r},
                                  !.flash[r] = a,
                                  !.health = TRUE,
                                  !.maxUtil = {r}]
      BY <3>1 DEF FlashLoan, Opened
    <3> HIDE DEF n
    <3>3. reserve.backstop_credit = Loaded(r).backstop_credit
      BY <1>7 DEF ReserveDatas
    <3> HIDE DEF reserve
    <3>4. /\ tx'.phase = "build" /\ tx'.res = [rs EXCEPT ![r] = reserve]
          /\ tx'.pos = [pos EXCEPT ![u].liabilities[r] = n]
      BY <3>2 DEF Opened
    <3> QED BY <1>6, <1>7, <3>3, <3>4
  <2> QED BY <1>1, <2>1, <2>2
<1> QED BY <1>2, <1>8

LEMMA OpeningIsInsured ==
  ASSUME InsuredInv, NEW u \in Users, OpenCall(u)
  PROVE  InsuredInv'
<1>1. /\ Submit(u) \/ \E r \in Reserves, a \in FlashAmounts : FlashLoan(u, r, a)
      /\ side' = Stored
      /\ UNCHANGED <<poolBal, userBal, lp, bstopAuction>>
  BY DEF OpenCall
<1>2. Idle /\ UNCHANGED <<env, book>>
  BY <1>1, Zenon DEF Submit, FlashLoan
<1>3. /\ IInv /\ SolventInv /\ backstop = BackstopData(poolBal[Pool])
      /\ Insures(poolBal, lp, bstopAuction, LoadedReserves, pos)
  BY <1>2 DEF InsuredInv
<1>4. IInv' /\ SolventInv'
  BY <1>1, <1>3, LendingPoolAssumption, SubmitKeepsIInv, FlashLoanKeepsIInv,
     SubmitIsSolvent, FlashLoanIsSolvent
<1>5. UNCHANGED <<now, res, pos, bal, backstop, unbacked>>
  BY <1>2 DEF env, book
<1>7. pos \in [Holders -> Positions]
  BY <1>3 DEF IInv, TypeOK
<1>8. /\ tx'.phase = "build" /\ tx'.pos[Backstop] = pos[Backstop]
      /\ \A r \in Reserves : tx'.res[r].backstop_credit = Loaded(r).backstop_credit
  BY OpeningLoads
<1>9. ~Idle'
  BY <1>8 DEF Idle
<1>10. LoadedReserves' = LoadedReserves
  BY <1>5 DEF LoadedReserves, Loaded, Timestamp
<1>11. Insures(poolBal', lp', bstopAuction', LoadedReserves', pos')
  BY <1>1, <1>3, <1>5, <1>10
<1>12. Insures(poolBal, lp, bstopAuction, tx'.res, tx'.pos)
  <2>1. \A r \in Reserves : /\ LoadedReserves[r].backstop_credit \in Nat
                            /\ tx'.res[r].backstop_credit \in Nat
                            /\ tx'.res[r].backstop_credit >= LoadedReserves[r].backstop_credit
                            /\ pos[Backstop].liabilities[r] \in Nat
                            /\ tx'.pos[Backstop].liabilities[r] \in Nat
                            /\ tx'.pos[Backstop].liabilities[r] >= pos[Backstop].liabilities[r]
    BY <1>3, <1>8, LoadedTyped
  <2> QED BY <1>3, <2>1, InsuresStays
<1>13. Stored \in Sides
  <2>1. poolBal \in [{Pool} -> PoolBalances] /\ lp \in Nat /\ bstopAuction \in BackstopAuctions
    BY <1>3, InsuredPoolAssumption DEF Insures, Deposited
  <2>2. unbacked \in [Reserves -> Nat]
    BY <1>3 DEF IInv, TypeOK
  <2> QED BY <2>1, <2>2 DEF Stored, Sides
<1>14. /\ side'.poolBal = poolBal /\ side'.lp = lp /\ side'.auctions = bstopAuction
       /\ side'.unbacked = unbacked
  BY <1>1 DEF Stored
<1>15. Covered(res', bal', side'.unbacked)
  BY <1>3, <1>5, <1>14 DEF SolventInv
<1>16. SideOK'
  BY <1>1, <1>3, <1>5, <1>12, <1>13, <1>14, <1>15 DEF SideOK
<1> QED BY <1>4, <1>9, <1>11, <1>16 DEF InsuredInv

(* What is stored is what the call made of it, brought up to date.         *)
LEMMA CommitIsInsured ==
  ASSUME InsuredInv, CommitCall
  PROVE  InsuredInv'
<1>1. /\ Commit \/ CommitFlashLoan
      /\ poolBal' = side.poolBal /\ lp' = side.lp /\ bstopAuction' = side.auctions
      /\ side' = NoSide
  BY DEF CommitCall, Published
<1>2. ~Idle /\ Settle
  BY <1>1 DEF Commit, CommitFlashLoan, Idle
<1>3. IInv /\ SolventInv /\ SideOK
  BY <1>2 DEF InsuredInv
<1>4. IInv' /\ SolventInv'
  BY <1>1, <1>3, CommitKeepsIInv, SettleIsSolvent
<1>5. /\ \A r \in Reserves : res'[r] = IF r \in tx.touched THEN tx.res[r] ELSE res[r]
      /\ pos' = tx.pos /\ tx' = NoTx /\ UNCHANGED <<now, backstop>>
  BY <1>2 DEF Settle, env
<1>6. Idle'
  BY <1>5 DEF Idle, NoTx
<1>7. ViewFollows /\ tx \in Txs
  BY <1>2, <1>3, ViewTyped DEF IInv, ViewOK
<1>8. ASSUME NEW r \in Reserves
      PROVE  LoadedReserves'[r].backstop_credit = tx.res[r].backstop_credit
  <2>1. LoadedReserves'[r] = LoadReserve(res'[r], Config[r], BstopRate, Timestamp)
    BY <1>5 DEF LoadedReserves, Loaded, Timestamp
  <2>2. CASE r \in tx.touched
    <3>1. res'[r] = tx.res[r] /\ tx.res[r].last_time = Timestamp
      BY <1>5, <1>7, <2>2 DEF ViewFollows
    <3>2. LoadReserve(tx.res[r], Config[r], BstopRate, tx.res[r].last_time) = tx.res[r]
      BY LoadedIsUpToDate
    <3> QED BY <2>1, <3>1, <3>2
  <2>3. CASE r \notin tx.touched
    BY <1>5, <1>7, <2>1, <2>3 DEF ViewFollows, Loaded
  <2> QED BY <2>2, <2>3
<1>9. Insures(poolBal', lp', bstopAuction', LoadedReserves', pos')
  <2>1. Insures(side.poolBal, side.lp, side.auctions, tx.res, tx.pos)
    BY <1>3 DEF SideOK
  <2>2. \A r \in Reserves : /\ tx.res[r].backstop_credit \in Nat
                            /\ LoadedReserves'[r].backstop_credit \in Nat
                            /\ LoadedReserves'[r].backstop_credit >= tx.res[r].backstop_credit
                            /\ tx.pos[Backstop].liabilities[r] \in Nat
                            /\ tx.pos[Backstop].liabilities[r] >= tx.pos[Backstop].liabilities[r]
    BY <1>7, <1>8, ViewedCredit
  <2>3. Insures(side.poolBal, side.lp, side.auctions, LoadedReserves', tx.pos)
    BY <2>1, <2>2, InsuresStays
  <2> QED BY <1>1, <1>5, <2>3
<1>10. backstop' = BackstopData(poolBal'[Pool])
  BY <1>1, <1>3, <1>5 DEF SideOK
<1> QED BY <1>1, <1>4, <1>6, <1>9, <1>10 DEF InsuredInv

(* A panic leaves both contracts as they were.                             *)
LEMMA AbortIsInsured ==
  ASSUME InsuredInv, AbortCall
  PROVE  InsuredInv'
<1>1. /\ ~Idle /\ tx' = NoTx /\ unbacked' = side.unbacked
      /\ backstop' = BackstopData(poolBal[Pool]) /\ side' = NoSide
      /\ UNCHANGED <<now, price, status, res, pos, auction, bal,
                     poolBal, userBal, lp, bstopAuction>>
  BY DEF AbortCall
<1>2. IInv /\ SolventInv /\ SideOK
      /\ Insures(poolBal, lp, bstopAuction, LoadedReserves, pos)
  BY <1>1 DEF InsuredInv
<1>3. side.unbacked \in [Reserves -> Nat] /\ Covered(res, bal, side.unbacked)
  BY <1>2 DEF SideOK, Sides
<1>4. backstop' \in BackstopDatas
  <2>1. Deposited(poolBal, lp)
    BY <1>2 DEF Insures
  <2> QED BY <1>1, <2>1, DataTyped
<1>5. TypeOK'
  BY <1>1, <1>2, <1>3, <1>4 DEF IInv, TypeOK
<1>6. IInv'
  <2>1. now' \in Nat /\ now' >= now
    BY <1>1, <1>2 DEF IInv, TypeOK
  <2> QED BY <1>1, <1>2, <1>5, <2>1, QuietStepKeepsIInv
<1>7. Idle'
  BY <1>1 DEF Idle, NoTx
<1>8. SolventInv'
  BY <1>1, <1>3, <1>7 DEF SolventInv, Covered
<1>9. Insures(poolBal', lp', bstopAuction', LoadedReserves', pos')
  <2>1. LoadedReserves' = LoadedReserves
    BY <1>1 DEF LoadedReserves, Loaded, Timestamp
  <2> QED BY <1>1, <1>2, <2>1
<1> QED BY <1>1, <1>6, <1>7, <1>8, <1>9 DEF InsuredInv

---------------------------------------------------------------------------
(* The pool's other calls and the world around it.  Credit in the ledger   *)
(* may only grow by them.                                                  *)
LEMMA GrownCreditIsInsured ==
  ASSUME InsuredInv, Idle, IInv', SolventInv', Idle', UNCHANGED <<outside, backstop>>,
         \A r \in Reserves : /\ LoadedReserves'[r].backstop_credit \in Nat
                             /\ LoadedReserves'[r].backstop_credit
                                  >= LoadedReserves[r].backstop_credit,
         pos' = pos \/ bstopAuction.badDebt = None
  PROVE  InsuredInv'
<1>1. /\ IInv /\ side = NoSide /\ backstop = BackstopData(poolBal[Pool])
      /\ Insures(poolBal, lp, bstopAuction, LoadedReserves, pos)
  BY DEF InsuredInv
<1>2. /\ UNCHANGED <<poolBal, userBal, lp, bstopAuction, side, backstop>>
  BY DEF outside
<1>3. \A r \in Reserves : /\ LoadedReserves[r].backstop_credit \in Nat
                          /\ LoadedReserves'[r].backstop_credit \in Nat
                          /\ LoadedReserves'[r].backstop_credit
                               >= LoadedReserves[r].backstop_credit
  BY <1>1, LoadedTyped
<1>4. \/ bstopAuction.badDebt = None
      \/ \A r \in Reserves : /\ pos[Backstop].liabilities[r] \in Nat
                             /\ pos'[Backstop].liabilities[r] \in Nat
                             /\ pos'[Backstop].liabilities[r] >= pos[Backstop].liabilities[r]
  BY <1>1, LoadedTyped
<1>5. Insures(poolBal, lp, bstopAuction, LoadedReserves', pos')
  BY <1>1, <1>3, <1>4, InsuresStays
<1> QED BY <1>1, <1>2, <1>5 DEF InsuredInv

(* The backstop's debt is defaulted while none of it is auctioned.         *)
LEMMA BadDebtIsInsured ==
  ASSUME InsuredInv, BackstopBadDebt
  PROVE  InsuredInv'
<1> DEFINE debt == pos[Backstop].liabilities
<1>1. bstopAuction.badDebt = None /\ DefaultBadDebt /\ UNCHANGED outside
  BY DEF BackstopBadDebt, MayCallBadDebt
<1>2. /\ Idle /\ UNCHANGED <<env, tx>>
      /\ \A r \in Reserves :
           res'[r] = IF r \in Held(debt) THEN Defaulted(Loaded(r), debt[r]) ELSE res[r]
  BY <1>1 DEF DefaultBadDebt
<1>3. IInv /\ SolventInv
  BY <1>2 DEF InsuredInv
<1>4. IInv' /\ SolventInv'
  BY <1>1, <1>3, DefaultKeepsIInv, DefaultIsSolvent
<1>5. Idle' /\ UNCHANGED <<now, backstop>>
  BY <1>2 DEF Idle, env
<1> HIDE DEF debt
<1>6. ASSUME NEW r \in Reserves
      PROVE  /\ LoadedReserves'[r].backstop_credit \in Nat
             /\ LoadedReserves'[r].backstop_credit >= LoadedReserves[r].backstop_credit
  <2>1. LoadedReserves'[r] = LoadReserve(res'[r], Config[r], BstopRate, Timestamp)
    BY <1>5 DEF LoadedReserves, Loaded, Timestamp
  <2>2. /\ LoadedReserves[r] = Loaded(r) /\ Loaded(r) \in ReserveDatas
        /\ Loaded(r).backstop_credit \in Nat
    BY <1>3, LoadedTyped
  <2>3. CASE r \in Held(debt)
    <3>1. Loaded(r).last_time = Timestamp
      BY <1>3, LoadedUpdates DEF Updated
    <3>2. /\ res'[r].last_time = Timestamp
          /\ res'[r].backstop_credit = Loaded(r).backstop_credit
      BY <1>2, <2>2, <2>3, <3>1 DEF Defaulted, ReserveDatas
    <3>3. LoadReserve(res'[r], Config[r], BstopRate, res'[r].last_time) = res'[r]
      BY LoadedIsUpToDate
    <3> QED BY <2>1, <2>2, <3>2, <3>3
  <2>4. CASE r \notin Held(debt)
    <3>1. LoadedReserves'[r] = Loaded(r)
      BY <1>2, <2>1, <2>4 DEF Loaded
    <3> QED BY <2>2, <3>1
  <2> QED BY <2>3, <2>4
<1>7. \A r \in Reserves : /\ LoadedReserves'[r].backstop_credit \in Nat
                          /\ LoadedReserves'[r].backstop_credit
                               >= LoadedReserves[r].backstop_credit
  BY <1>6
<1> QED BY <1>1, <1>2, <1>4, <1>5, <1>7, GrownCreditIsInsured

LEMMA OtherCallIsQuiet ==
  ASSUME OtherCall
  PROVE  /\ Idle /\ UNCHANGED <<tx, pos, backstop, outside>>
         /\ now' = now \/ Tick
         /\ \/ UNCHANGED <<now, res>>
            \/ Tick
            \/ \E r \in Reserves : Gulp(r)
<1>1. /\ \/ \E u \in Users :
              \/ DeleteStaleAuction(u)
              \/ \E bidSet, lotSet \in SUBSET Reserves, percent \in LiqPercents :
                   NewLiquidation(u, bidSet, lotSet, percent)
         \/ \E r \in Reserves : \/ Gulp(r)
                                \/ \E a \in Donations : Donate(r, a)
                                \/ \E p \in Prices[r] : ReportPrice(r, p)
         \/ UpdateStatus
         \/ \E s \in AdminStatuses : SetStatus(s)
         \/ Tick
      /\ UNCHANGED outside
  BY DEF OtherCall
<1>2. /\ Idle /\ UNCHANGED <<tx, pos, backstop>>
      /\ \/ UNCHANGED <<now, res>>
         \/ Tick
         \/ \E r \in Reserves : Gulp(r)
  <2>1. CASE \E u \in Users :
              \/ DeleteStaleAuction(u)
              \/ \E bidSet, lotSet \in SUBSET Reserves, percent \in LiqPercents :
                   NewLiquidation(u, bidSet, lotSet, percent)
    <3>1. Idle /\ UNCHANGED <<env, res, pos, tx>>
      BY <2>1, Zenon DEF DeleteStaleAuction, NewLiquidation
    <3> QED BY <3>1 DEF env
  <2>2. CASE \E r \in Reserves : \/ Gulp(r)
                                 \/ \E a \in Donations : Donate(r, a)
                                 \/ \E p \in Prices[r] : ReportPrice(r, p)
    BY <2>2 DEF Gulp, Donate, ReportPrice, env, book
  <2>3. CASE UpdateStatus \/ (\E s \in AdminStatuses : SetStatus(s)) \/ Tick
    BY <2>3 DEF UpdateStatus, SetStatus, Tick, book
  <2> QED BY <1>1, <2>1, <2>2, <2>3
<1>3. now' = now \/ Tick
  BY <1>2 DEF Gulp, env
<1> QED BY <1>1, <1>2, <1>3

LEMMA OtherCallIsInsured ==
  ASSUME InsuredInv, OtherCall
  PROVE  InsuredInv'
<1>1. /\ \/ \E u \in Users :
              \/ DeleteStaleAuction(u)
              \/ \E bidSet, lotSet \in SUBSET Reserves, percent \in LiqPercents :
                   NewLiquidation(u, bidSet, lotSet, percent)
         \/ \E r \in Reserves : \/ Gulp(r)
                                \/ \E a \in Donations : Donate(r, a)
                                \/ \E p \in Prices[r] : ReportPrice(r, p)
         \/ UpdateStatus
         \/ \E s \in AdminStatuses : SetStatus(s)
         \/ Tick
      /\ UNCHANGED outside
  BY DEF OtherCall
<1>2. Calls \/ World
  BY <1>1, Zenon DEF Calls, World
<1>3. /\ Idle /\ UNCHANGED <<tx, pos, backstop>>
      /\ \/ UNCHANGED <<now, res>>
         \/ Tick
         \/ \E r \in Reserves : Gulp(r)
  BY OtherCallIsQuiet
<1>4. IInv /\ SolventInv
  BY <1>3 DEF InsuredInv
<1>5. IInv' /\ SolventInv'
  BY <1>2, <1>4, CallsKeepIInv, WorldKeepsIInv, CallsAreSolvent, WorldIsSolvent
<1>6. Idle'
  BY <1>3 DEF Idle
<1>7. \A r \in Reserves : /\ LoadedReserves'[r].backstop_credit \in Nat
                          /\ LoadedReserves'[r].backstop_credit
                               >= LoadedReserves[r].backstop_credit
  <2> TAKE r \in Reserves
  <2>1. /\ LoadedReserves[r] = Loaded(r) /\ Loaded(r) \in ReserveDatas
        /\ Loaded(r).backstop_credit \in Nat /\ res[r] \in ReserveDatas
        /\ Loaded(r).last_time = Timestamp
    BY <1>4, LoadedTyped, LoadedUpdates DEF Updated
  <2>2. LoadedReserves'[r] = LoadReserve(res'[r], Config[r], BstopRate, Timestamp')
    BY DEF LoadedReserves, Loaded
  <2>3. CASE UNCHANGED <<now, res>>
    BY <2>1, <2>2, <2>3 DEF Timestamp, Loaded
  <2>4. CASE Tick
    <3>1. res' = res /\ now' = now + 1 /\ now \in Nat
      BY <1>4, <2>4 DEF Tick, book, IInv, TypeOK
    <3>2. Timestamp \in Nat /\ Timestamp' \in Nat /\ Timestamp <= Timestamp'
      <4>1. now \in Nat /\ now' \in Nat /\ LEDGER_SECONDS \in Nat /\ now <= now'
        BY <3>1, LendingPoolAssumption
      <4> QED BY <4>1, ProductOrder DEF Timestamp
    <3>3. res[r].last_time <= Timestamp
      BY <1>4 DEF IInv, Grown
    <3>4. Config[r] \in ReserveConfigs /\ BstopRate \in 0..(SCALAR_7 - 1)
      BY LendingPoolAssumption, HealthAssumption
    <3>5. LoadReserve(res[r], Config[r], BstopRate, Timestamp).backstop_credit
            <= LoadReserve(res[r], Config[r], BstopRate, Timestamp').backstop_credit
      BY <2>1, <3>2, <3>3, <3>4, CreditGrowsWithTime
    <3>6. LoadedReserves'[r].backstop_credit \in Nat
      <4>1. res[r].last_time <= Timestamp'
        <5>1. res[r].last_time \in Nat
          BY <2>1 DEF ReserveDatas
        <5> QED BY <3>2, <3>3, <5>1
      <4>2. res[r].d_rate >= SCALAR_12
        BY <1>4 DEF IInv, Grown
      <4>3. LoadReserve(res[r], Config[r], BstopRate, Timestamp') \in ReserveDatas
        BY <2>1, <3>2, <3>4, <4>1, <4>2, LoadingUpdates DEF Updated
      <4> QED BY <2>2, <3>1, <4>3 DEF ReserveDatas
    <3>7. LoadedReserves'[r].backstop_credit >= LoadedReserves[r].backstop_credit
      <4>1. LoadedReserves[r].backstop_credit
              = LoadReserve(res[r], Config[r], BstopRate, Timestamp).backstop_credit
        BY <2>1 DEF Loaded
      <4> QED BY <2>1, <2>2, <3>1, <3>5, <3>6, <4>1
    <3> QED BY <3>6, <3>7
  <2>5. CASE \E x \in Reserves : Gulp(x)
    <3>1. PICK x \in Reserves : Gulp(x)
      BY <2>5
    <3> DEFINE delta == bal[x] - ExpectedBalance(Loaded(x))
               new   == [Loaded(x) EXCEPT !.backstop_credit = @ + delta]
    <3>2. /\ delta > 0 /\ res' = [res EXCEPT ![x] = new] /\ now' = now
      BY <3>1 DEF Gulp, env
    <3>3. res \in [Reserves -> ReserveDatas] /\ bal[x] \in Nat /\ Loaded(x) \in ReserveDatas
      BY <1>4, LoadedTyped DEF IInv, TypeOK
    <3>4. delta \in Nat
      <4>1. /\ TotalSupply(Loaded(x)) \in Nat /\ TotalLiabilities(Loaded(x)) \in Nat
            /\ Loaded(x).backstop_credit \in Nat
        BY <3>3, TotalsOfReserve DEF ReserveDatas
      <4> QED BY <3>2, <3>3, <4>1 DEF ExpectedBalance
    <3> HIDE DEF delta
    <3>5. new.backstop_credit = Loaded(x).backstop_credit + delta
          /\ new.last_time = Loaded(x).last_time
      BY <3>3 DEF ReserveDatas
    <3> HIDE DEF new
    <3>6. CASE r = x
      <4>1. res'[r] = new /\ Timestamp' = Timestamp
        BY <3>2, <3>3, <3>6 DEF Timestamp
      <4>2. LoadReserve(new, Config[r], BstopRate, new.last_time) = new
        BY LoadedIsUpToDate
      <4>3. LoadedReserves'[r] = new
        BY <2>1, <2>2, <3>5, <3>6, <4>1, <4>2
      <4> QED BY <2>1, <3>4, <3>5, <3>6, <4>3
    <3>7. CASE r # x
      <4>1. res'[r] = res[r] /\ Timestamp' = Timestamp
        BY <3>2, <3>3, <3>7 DEF Timestamp
      <4>2. LoadedReserves'[r] = Loaded(r)
        BY <2>2, <4>1 DEF Loaded
      <4> QED BY <2>1, <4>2
    <3> QED BY <3>6, <3>7
  <2> QED BY <1>3, <2>3, <2>4, <2>5
<1>8. UNCHANGED <<outside, backstop>> /\ pos' = pos
  BY <1>1, <1>3
<1> QED BY <1>3, <1>4, <1>5, <1>6, <1>7, <1>8, GrownCreditIsInsured

---------------------------------------------------------------------------
(* The depositors' calls.  While the backstop owes anything nobody leaves. *)
LEMMA DepositsStayInsured ==
  ASSUME NEW b, NEW l, NEW auctions, NEW rs, NEW ps, Insures(b, l, auctions, rs, ps),
         ps[Backstop].liabilities \in [Reserves -> Nat],
         NEW c, NEW m, Deposited(c, m),
         c[Pool].tokens >= b[Pool].tokens \/ ~HasLiabilities(ps[Backstop])
  PROVE  Insures(c, m, auctions, rs, ps)
<1>1. /\ Deposited(b, l) /\ auctions \in BackstopAuctions
      /\ DebtIsBacked(auctions.badDebt, ps[Backstop].liabilities, b[Pool].tokens)
      /\ InterestIsBacked(auctions.interest, rs)
  BY DEF Insures
<1>2. b[Pool].tokens \in Nat /\ c[Pool].tokens \in Nat
  BY <1>1 DEF Deposited, PoolBalances
<1>3. DebtIsBacked(auctions.badDebt, ps[Backstop].liabilities, c[Pool].tokens)
  <2> DEFINE a == auctions.badDebt
             owed == ps[Backstop].liabilities
  <2> SUFFICES ASSUME a # None
               PROVE  /\ \A r \in DOMAIN a.bid : a.bid[r] <= owed[r]
                      /\ (\E r \in DOMAIN a.bid : a.bid[r] > 0)
                            => a.lot[BackstopToken] <= c[Pool].tokens
    BY DEF DebtIsBacked
  <2>1. /\ DOMAIN a.bid \subseteq Reserves /\ a.bid \in [DOMAIN a.bid -> Nat]
        /\ a.lot[BackstopToken] \in Nat
    BY <1>1, BadDebtAuctionTyped
  <2>2. /\ \A r \in DOMAIN a.bid : a.bid[r] <= owed[r]
        /\ (\E r \in DOMAIN a.bid : a.bid[r] > 0) => a.lot[BackstopToken] <= b[Pool].tokens
    BY <1>1 DEF DebtIsBacked
  <2>3. ASSUME NEW r \in DOMAIN a.bid, a.bid[r] > 0
        PROVE  a.lot[BackstopToken] <= c[Pool].tokens
    <3>1. owed[r] > 0 /\ r \in Reserves
      <4>1. a.bid[r] \in Nat /\ r \in Reserves /\ owed[r] \in Nat /\ a.bid[r] <= owed[r]
        BY <2>1, <2>2
      <4> QED BY <2>3, <4>1
    <3>2. HasLiabilities(ps[Backstop])
      BY <3>1 DEF HasLiabilities, Held
    <3>3. a.lot[BackstopToken] <= b[Pool].tokens /\ c[Pool].tokens >= b[Pool].tokens
      BY <2>2, <2>3, <3>2
    <3> QED BY <1>2, <2>1, <3>3
  <2> QED BY <2>2, <2>3
<1> QED BY <1>1, <1>3 DEF Insures

LEMMA ConvertedIsNat ==
  ASSUME NEW b \in PoolBalances, NEW a \in Nat
  PROVE  L!ConvertToShares(b, a) \in Nat /\ L!ConvertToTokens(b, a) \in Nat
<1>1. b.shares \in Nat /\ b.tokens \in Nat
  BY DEF PoolBalances
<1>2. L!ConvertToShares(b, a) \in Nat
  <2>1. CASE b.shares = 0 \/ b.tokens = 0
    BY <2>1 DEF L!ConvertToShares
  <2>2. CASE b.shares # 0 /\ b.tokens # 0
    <3>1. b.tokens \in Nat \ {0}
      BY <1>1, <2>2
    <3>2. MulFloor(a, b.shares, b.tokens) \in Nat
      BY <1>1, <3>1, RoundingOfNat
    <3> QED BY <2>2, <3>2 DEF L!ConvertToShares, L!MulFloor, MulFloor, L!FloorDiv, FloorDiv
  <2> QED BY <2>1, <2>2
<1>3. L!ConvertToTokens(b, a) \in Nat
  <2>1. CASE b.shares = 0 \/ b.shares = a
    BY <1>1, <2>1 DEF L!ConvertToTokens
  <2>2. CASE b.shares # 0 /\ b.shares # a
    <3>1. b.shares \in Nat \ {0}
      BY <1>1, <2>2
    <3>2. MulFloor(a, b.tokens, b.shares) \in Nat
      BY <1>1, <3>1, RoundingOfNat
    <3> QED BY <2>2, <3>2 DEF L!ConvertToTokens, L!MulFloor, MulFloor, L!FloorDiv, FloorDiv
  <2> QED BY <2>1, <2>2
<1> QED BY <1>2, <1>3

LEMMA Joined ==
  ASSUME NEW b \in PoolBalances, NEW a \in Nat, NEW n \in Nat
  PROVE  L!Joining(b, a, n) \in PoolBalances /\ L!Joining(b, a, n).tokens = b.tokens + a
<1> DEFINE t == b.tokens + a
           s == b.shares + n
<1>1. /\ t \in Nat /\ s \in Nat
      /\ L!Joining(b, a, n) = [b EXCEPT !.tokens = t, !.shares = s]
  BY DEF L!Joining, PoolBalances
<1> HIDE DEF t, s
<1>2. L!Joining(b, a, n) \in PoolBalances /\ L!Joining(b, a, n).tokens = t
  BY <1>1 DEF PoolBalances
<1> QED BY <1>2 DEF t

(* What a call of a depositor does to the balance: tokens leave it only    *)
(* while the backstop owes the pool nothing.                               *)
LEMMA DepositorMoves ==
  ASSUME InsuredInv, DepositorCall
  PROVE  \E c \in PoolBalances :
           /\ poolBal' = [poolBal EXCEPT ![Pool] = c]
           /\ lp' \in 0..LpSupply /\ c.tokens <= lp'
           /\ c.tokens >= poolBal[Pool].tokens \/ ~HasLiabilities(pos[Backstop])
<1>1. /\ Idle
      /\ UNCHANGED <<now, price, status, book, tx, bstopAuction, side>>
      /\ backstop' = BackstopData(poolBal'[Pool])
  BY DEF DepositorCall
<1>2. PICK a \in LpAmounts :
       \/ \E u \in Depositors : \/ L!Deposit(u, Pool, a)
                                \/ L!QueueWithdrawal(u, Pool, a)
                                \/ L!DequeueWithdrawal(u, Pool, a)
                                \/ L!Withdraw(u, Pool, a)
       \/ L!Donate(Pool, a)
  BY DEF DepositorCall
<1>3. /\ IInv /\ SolventInv /\ side = NoSide
      /\ Insures(poolBal, lp, bstopAuction, LoadedReserves, pos)
  BY <1>1 DEF InsuredInv
<1>4. /\ poolBal \in [{Pool} -> PoolBalances] /\ lp \in 0..LpSupply
      /\ poolBal[Pool].tokens <= lp /\ LpSupply \in Nat
  BY <1>3, InsuredPoolAssumption DEF Insures, Deposited
<1> DEFINE b == poolBal[Pool]
<1>5. /\ b \in PoolBalances /\ b.shares \in Nat /\ b.tokens \in Nat /\ b.q4w \in Nat
      /\ lp \in Nat /\ b.tokens <= lp /\ lp <= LpSupply
      /\ a \in Nat
  BY <1>4, InsuredPoolAssumption DEF PoolBalances
<1> DEFINE Good(c) == /\ c \in PoolBalances
                      /\ poolBal' = [poolBal EXCEPT ![Pool] = c]
                      /\ lp' \in 0..LpSupply /\ c.tokens <= lp'
                      /\ c.tokens >= b.tokens \/ ~HasLiabilities(pos[Backstop])
<1> SUFFICES \E c : Good(c)
  OBVIOUS
<1>6. CASE \E u \in Depositors : L!Deposit(u, Pool, a)
  <2> DEFINE minted == L!ConvertToShares(b, a)
             c == L!Joining(b, a, minted)
  <2>1. /\ lp + a <= LpSupply /\ lp' = lp + a
        /\ poolBal' = [poolBal EXCEPT ![Pool] = c]
    BY <1>6 DEF L!Deposit
  <2>2. minted \in Nat
    BY <1>5, ConvertedIsNat
  <2> HIDE DEF minted
  <2>3. c \in PoolBalances /\ c.tokens = b.tokens + a
    BY <1>5, <2>2, Joined
  <2> HIDE DEF c, b
  <2>4. Good(c)
    BY <1>4, <1>5, <2>1, <2>3
  <2> QED BY <2>4
<1>7. CASE \E u \in Depositors : L!QueueWithdrawal(u, Pool, a)
  <2> DEFINE c == [b EXCEPT !.q4w = @ + a]
  <2>1. lp' = lp /\ poolBal' = [poolBal EXCEPT ![Pool] = c]
    BY <1>7 DEF L!QueueWithdrawal
  <2>2. c \in PoolBalances /\ c.tokens = b.tokens
    BY <1>5 DEF PoolBalances
  <2> HIDE DEF c, b
  <2>3. Good(c)
    BY <1>4, <1>5, <2>1, <2>2
  <2> QED BY <2>3
<1>8. CASE \E u \in Depositors : L!DequeueWithdrawal(u, Pool, a)
  <2> DEFINE c == [b EXCEPT !.q4w = @ - a]
  <2>1. a <= b.q4w /\ lp' = lp /\ poolBal' = [poolBal EXCEPT ![Pool] = c]
    BY <1>8 DEF L!DequeueWithdrawal
  <2>2. c \in PoolBalances /\ c.tokens = b.tokens
    BY <1>5, <2>1 DEF PoolBalances
  <2> HIDE DEF c, b
  <2>3. Good(c)
    BY <1>4, <1>5, <2>1, <2>2
  <2> QED BY <2>3
<1>9. CASE \E u \in Depositors : L!Withdraw(u, Pool, a)
  <2> DEFINE t == L!ConvertToTokens(b, a)
             c == L!Leaving(b, t, a)
  <2>1. /\ ~HasLiabilities(pos[Backstop])
        /\ L!MayLeave(b, t, a) /\ t <= lp /\ lp' = lp - t
        /\ poolBal' = [poolBal EXCEPT ![Pool] = c]
    BY <1>9 DEF L!Withdraw
  <2>2. t \in Nat
    BY <1>5, ConvertedIsNat
  <2> HIDE DEF t
  <2>3. c \in PoolBalances /\ c.tokens = b.tokens - t
    BY <1>5, <2>1, <2>2 DEF L!Leaving, L!MayLeave, PoolBalances
  <2> HIDE DEF c, b
  <2>4. Good(c)
    BY <1>4, <1>5, <2>1, <2>2, <2>3
  <2> QED BY <2>4
<1>10. CASE L!Donate(Pool, a)
  <2> DEFINE c == L!Joining(b, a, 0)
  <2>1. /\ lp + a <= LpSupply /\ lp' = lp + a
        /\ poolBal' = [poolBal EXCEPT ![Pool] = c]
    BY <1>10 DEF L!Donate
  <2>2. c \in PoolBalances /\ c.tokens = b.tokens + a
    BY <1>5, Joined
  <2> HIDE DEF c, b
  <2>3. Good(c)
    BY <1>4, <1>5, <2>1, <2>2
  <2> QED BY <2>3
<1> QED BY <1>2, <1>6, <1>7, <1>8, <1>9, <1>10

LEMMA DepositorIsInsured ==
  ASSUME InsuredInv, DepositorCall
  PROVE  InsuredInv'
<1>1. /\ Idle
      /\ UNCHANGED <<now, price, status, book, tx, bstopAuction, side>>
      /\ backstop' = BackstopData(poolBal'[Pool])
  BY DEF DepositorCall
<1>3. /\ IInv /\ SolventInv /\ side = NoSide
      /\ Insures(poolBal, lp, bstopAuction, LoadedReserves, pos)
  BY <1>1 DEF InsuredInv
<1>4. /\ poolBal \in [{Pool} -> PoolBalances] /\ lp \in 0..LpSupply
      /\ poolBal[Pool].tokens <= lp /\ LpSupply \in Nat
  BY <1>3, InsuredPoolAssumption DEF Insures, Deposited
<1>6. PICK c \in PoolBalances :
        /\ poolBal' = [poolBal EXCEPT ![Pool] = c]
        /\ lp' \in 0..LpSupply /\ c.tokens <= lp'
        /\ c.tokens >= poolBal[Pool].tokens \/ ~HasLiabilities(pos[Backstop])
  BY DepositorMoves
<1>7. poolBal'[Pool] = c /\ poolBal' \in [{Pool} -> PoolBalances]
  BY <1>4, <1>6
<1>8. Deposited(poolBal', lp')
  BY <1>6, <1>7 DEF Deposited
<1>9. pos' = pos /\ LoadedReserves' = LoadedReserves /\ bstopAuction' = bstopAuction
  BY <1>1 DEF LoadedReserves, Loaded, Timestamp, book
<1>10. pos[Backstop].liabilities \in [Reserves -> Nat]
  BY <1>3 DEF IInv, TypeOK, Holders, Positions
<1>11. Insures(poolBal', lp', bstopAuction, LoadedReserves, pos)
  <2>1. poolBal'[Pool].tokens >= poolBal[Pool].tokens \/ ~HasLiabilities(pos[Backstop])
    BY <1>6, <1>7
  <2> QED BY <1>3, <1>8, <1>10, <2>1, DepositsStayInsured
<1>12. IInv'
  <2>1. backstop' \in BackstopDatas
    BY <1>1, <1>8, DataTyped
  <2>2. TypeOK'
    BY <1>1, <1>3, <2>1 DEF IInv, TypeOK, book
  <2>3. /\ UNCHANGED <<res, pos>> /\ now' \in Nat /\ now' >= now /\ tx' = NoTx
    BY <1>1, <1>3, IdleIsNoTx DEF IInv, TypeOK, book
  <2> QED BY <1>3, <2>2, <2>3, QuietStepKeepsIInv
<1>13. Idle' /\ SolventInv'
  BY <1>1, <1>3, QuietStepIsSolvent DEF Idle, book
<1> QED BY <1>1, <1>3, <1>9, <1>11, <1>12, <1>13 DEF InsuredInv

---------------------------------------------------------------------------
(* Auctions are made of debt that is owed, tokens that are deposited and   *)
(* interest that is credited.                                              *)
LEMMA ValueIsNat ==
  ASSUME TypeOK, NEW S \in SUBSET Reserves, NEW amounts \in [S -> Nat]
  PROVE  ValueOf(amounts) \in Nat /\ TokensWorth(ValueOf(amounts)) \in Nat
<1> DEFINE f == [r \in S |-> Value(price, r, amounts[r])]
           v == Total(f)
<1>1. ASSUME NEW r \in S
      PROVE  Value(price, r, amounts[r]) \in Nat
  <2>1. price[r] \in Nat /\ amounts[r] \in Nat
    BY DEF TypeOK
  <2>2. Config[r].scalar \in Nat \ {0}
    BY HealthAssumption DEF ReserveConfigs
  <2> QED BY <2>1, <2>2, RoundingOfNat DEF Value
<1>2. f \in [S -> Nat] /\ IsFiniteSet(S)
  BY <1>1, HealthAssumption, FS_Subset
<1> HIDE DEF f
<1>3. v \in Nat
  BY <1>2, TotalIsCount
<1>4. ValueOf(amounts) = v
  <2>1. DOMAIN amounts = S
    OBVIOUS
  <2> QED BY <2>1, Zenon DEF ValueOf, f
<1> HIDE DEF v
<1>5. TokensWorth(v) \in Nat
  <2>1. Percent(120) \in Nat
    <3>1. 120 * SCALAR_7 \in Nat /\ 100 \in Nat \ {0}
      BY ScalarAssumption
    <3> QED BY <3>1, FloorOfNat DEF Percent, FloorDiv
  <2>2. MulFloor(v, Percent(120), ORACLE_SCALAR) \in Nat
    BY <1>3, <2>1, HealthAssumption, RoundingOfNat
  <2>3. SCALAR_7 \in Nat /\ SpotPrice \in Nat \ {0}
    BY ScalarAssumption, InsuredPoolAssumption
  <2> QED BY <2>2, <2>3, RoundingOfNat DEF TokensWorth
<1> QED BY <1>3, <1>4, <1>5

(* A step that puts other backed auctions in the place of these.           *)
LEMMA AuctionStepIsInsured ==
  ASSUME InsuredInv, Idle, UNCHANGED <<vars, poolBal, userBal, lp, side>>,
         NEW bad, NEW interest,
         bstopAuction' = [badDebt |-> bad, interest |-> interest],
         bad \in {None} \cup BadDebtAuctions,
         interest \in {None} \cup InterestAuctions,
         DebtIsBacked(bad, pos[Backstop].liabilities, poolBal[Pool].tokens),
         InterestIsBacked(interest, LoadedReserves)
  PROVE  InsuredInv'
<1>1. IInv /\ SolventInv /\ side = NoSide /\ backstop = BackstopData(poolBal[Pool])
      /\ Insures(poolBal, lp, bstopAuction, LoadedReserves, pos)
  BY DEF InsuredInv
<1>2. UNCHANGED <<now, backstop, res, pos, tx>>
  BY DEF vars
<1>3. IInv' /\ SolventInv'
  BY <1>1, StutterKeepsIInv, StutterIsSolvent
<1>4. LoadedReserves' = LoadedReserves
  BY <1>2 DEF LoadedReserves, Loaded, Timestamp
<1>5. Insures(poolBal', lp', bstopAuction', LoadedReserves', pos')
  <2>1. /\ bstopAuction'.badDebt = bad /\ bstopAuction'.interest = interest
        /\ bstopAuction' \in BackstopAuctions
    BY DEF BackstopAuctions
  <2>2. Deposited(poolBal', lp')
    BY <1>1 DEF Insures
  <2>3. DebtIsBacked(bstopAuction'.badDebt, pos'[Backstop].liabilities, poolBal'[Pool].tokens)
    BY <1>2, <2>1
  <2>4. InterestIsBacked(bstopAuction'.interest, LoadedReserves')
    BY <1>4, <2>1
  <2> QED BY <2>1, <2>2, <2>3, <2>4 DEF Insures
<1>6. Idle'
  BY <1>2 DEF Idle
<1> QED BY <1>1, <1>2, <1>3, <1>5, <1>6 DEF InsuredInv

(* The parts of the invariant while no call is open.                       *)
LEMMA IdleParts ==
  ASSUME InsuredInv, Idle
  PROVE  /\ IInv /\ TypeOK /\ now \in Nat
         /\ pos[Backstop].liabilities \in [Reserves -> Nat]
         /\ poolBal[Pool].tokens \in Nat
         /\ \A r \in Reserves : /\ LoadedReserves[r] = Loaded(r)
                                /\ Loaded(r) \in ReserveDatas
                                /\ Loaded(r).backstop_credit \in Nat
         /\ bstopAuction = [badDebt |-> bstopAuction.badDebt,
                            interest |-> bstopAuction.interest]
         /\ bstopAuction.badDebt \in {None} \cup BadDebtAuctions
         /\ bstopAuction.interest \in {None} \cup InterestAuctions
         /\ DebtIsBacked(bstopAuction.badDebt, pos[Backstop].liabilities,
                         poolBal[Pool].tokens)
         /\ InterestIsBacked(bstopAuction.interest, LoadedReserves)
<1>1. IInv /\ TypeOK /\ Insures(poolBal, lp, bstopAuction, LoadedReserves, pos)
  BY DEF InsuredInv, IInv
<1>2. now \in Nat /\ pos[Backstop].liabilities \in [Reserves -> Nat]
  BY <1>1, LendingPoolAssumption DEF TypeOK, Holders, Positions
<1>3. /\ Deposited(poolBal, lp) /\ bstopAuction \in BackstopAuctions
      /\ DebtIsBacked(bstopAuction.badDebt, pos[Backstop].liabilities, poolBal[Pool].tokens)
      /\ InterestIsBacked(bstopAuction.interest, LoadedReserves)
  BY <1>1 DEF Insures
<1>4. poolBal[Pool].tokens \in Nat
  BY <1>3 DEF Deposited, PoolBalances
<1>5. /\ bstopAuction = [badDebt |-> bstopAuction.badDebt,
                         interest |-> bstopAuction.interest]
      /\ bstopAuction.badDebt \in {None} \cup BadDebtAuctions
      /\ bstopAuction.interest \in {None} \cup InterestAuctions
  BY <1>3 DEF BackstopAuctions
<1> QED BY <1>1, <1>2, <1>3, <1>4, <1>5, LoadedTyped

LEMMA NewBadDebtIsInsured ==
  ASSUME InsuredInv, NEW S \in SUBSET Reserves, NewBadDebtAuction(S)
  PROVE  InsuredInv'
<1> DEFINE owed   == pos[Backstop].liabilities
           assets == [r \in S |-> ToAssetFromDToken(Loaded(r), owed[r])]
           value  == ValueOf(assets)
           bid    == [r \in S |-> owed[r]]
           n      == BadDebtLot(value)
           bad    == Auctioned(bid, Lps(n))
<1>1. /\ Idle
      /\ bstopAuction' = [bstopAuction EXCEPT !.badDebt = bad]
      /\ UNCHANGED <<vars, poolBal, userBal, lp, side>>
  BY DEF NewBadDebtAuction
<1>2. /\ IInv /\ TypeOK /\ now \in Nat /\ owed \in [Reserves -> Nat]
      /\ poolBal[Pool].tokens \in Nat
      /\ bstopAuction = [badDebt |-> bstopAuction.badDebt,
                         interest |-> bstopAuction.interest]
      /\ bstopAuction.interest \in {None} \cup InterestAuctions
      /\ InterestIsBacked(bstopAuction.interest, LoadedReserves)
      /\ \A r \in Reserves : Loaded(r) \in ReserveDatas
  BY <1>1, IdleParts
<1>3. bid \in [S -> Nat] /\ assets \in [S -> Nat]
  BY <1>2, ConversionsOfReserve
<1> HIDE DEF assets
<1>4. TokensWorth(value) \in Nat
  BY <1>2, <1>3, ValueIsNat
<1> HIDE DEF value
<1>5. n \in Nat /\ n <= poolBal[Pool].tokens
  BY <1>2, <1>4 DEF BadDebtLot, MinOf
<1> HIDE DEF n
<1>6. bad = [bid |-> bid, lot |-> Lps(n), block |-> now + 1]
  BY DEF Auctioned
<1>7. Lps(n) \in Tokens /\ Lps(n)[BackstopToken] = n /\ now + 1 \in Nat
  BY <1>2, <1>5 DEF Lps, Tokens
<1>8. \A r \in S : bid[r] = owed[r] /\ r \in Reserves
  OBVIOUS
<1> HIDE DEF bad, bid
<1>9. bad \in BadDebtAuctions
  BY <1>3, <1>6, <1>7 DEF BadDebtAuctions
<1>10. DebtIsBacked(bad, owed, poolBal[Pool].tokens)
  <2>1. bad.bid = bid /\ bad.lot = Lps(n) /\ DOMAIN bid = S
    BY <1>3, <1>6
  <2>2. \A r \in S : bid[r] <= owed[r]
    BY <1>2, <1>8
  <2> QED BY <1>5, <1>7, <2>1, <2>2 DEF DebtIsBacked
<1>11. bstopAuction' = [badDebt |-> bad, interest |-> bstopAuction.interest]
  BY <1>1, <1>2
<1> QED BY <1>1, <1>2, <1>9, <1>10, <1>11, AuctionStepIsInsured

LEMMA NewInterestIsInsured ==
  ASSUME InsuredInv, NEW S \in SUBSET Reserves, NewInterestAuction(S)
  PROVE  InsuredInv'
<1> DEFINE T   == {r \in S : Loaded(r).backstop_credit > 0}
           lot == [r \in T |-> Loaded(r).backstop_credit]
           n   == TokensWorth(ValueOf(lot))
           new == Auctioned(Lps(n), lot)
<1>1. /\ Idle
      /\ bstopAuction' = [bstopAuction EXCEPT !.interest = new]
      /\ UNCHANGED <<vars, poolBal, userBal, lp, side>>
  BY DEF NewInterestAuction
<1>2. /\ IInv /\ TypeOK /\ now \in Nat
      /\ bstopAuction = [badDebt |-> bstopAuction.badDebt,
                         interest |-> bstopAuction.interest]
      /\ bstopAuction.badDebt \in {None} \cup BadDebtAuctions
      /\ DebtIsBacked(bstopAuction.badDebt, pos[Backstop].liabilities, poolBal[Pool].tokens)
      /\ \A r \in Reserves : /\ LoadedReserves[r] = Loaded(r)
                             /\ Loaded(r).backstop_credit \in Nat
  BY <1>1, IdleParts
<1>3. T \in SUBSET Reserves /\ lot \in [T -> Nat]
      /\ \A r \in T : lot[r] = LoadedReserves[r].backstop_credit
  BY <1>2
<1> HIDE DEF T, lot
<1>4. n \in Nat
  BY <1>2, <1>3, ValueIsNat
<1> HIDE DEF n
<1>5. new = [bid |-> Lps(n), lot |-> lot, block |-> now + 1]
  BY DEF Auctioned
<1>6. Lps(n) \in Tokens /\ now + 1 \in Nat
  BY <1>2, <1>4 DEF Lps, Tokens
<1> HIDE DEF new
<1>7. new \in InterestAuctions
  BY <1>3, <1>5, <1>6 DEF InterestAuctions
<1>8. InterestIsBacked(new, LoadedReserves)
  <2>1. new.lot = lot /\ DOMAIN lot = T
    BY <1>3, <1>5
  <2>2. \A r \in T : lot[r] \in Nat /\ lot[r] <= LoadedReserves[r].backstop_credit
    BY <1>3
  <2> QED BY <2>1, <2>2 DEF InterestIsBacked
<1>9. bstopAuction' = [badDebt |-> bstopAuction.badDebt, interest |-> new]
  BY <1>1, <1>2
<1> QED BY <1>1, <1>2, <1>7, <1>8, <1>9, AuctionStepIsInsured

LEMMA DeletionIsInsured ==
  ASSUME InsuredInv, NEW kind \in {"badDebt", "interest"}, DeleteStale(kind)
  PROVE  InsuredInv'
<1>1. /\ Idle
      /\ bstopAuction' = [bstopAuction EXCEPT ![kind] = None]
      /\ UNCHANGED <<vars, poolBal, userBal, lp, side>>
  BY DEF DeleteStale
<1>2. /\ bstopAuction = [badDebt |-> bstopAuction.badDebt,
                         interest |-> bstopAuction.interest]
      /\ bstopAuction.badDebt \in {None} \cup BadDebtAuctions
      /\ bstopAuction.interest \in {None} \cup InterestAuctions
      /\ DebtIsBacked(bstopAuction.badDebt, pos[Backstop].liabilities, poolBal[Pool].tokens)
      /\ InterestIsBacked(bstopAuction.interest, LoadedReserves)
  BY <1>1, IdleParts
<1>3. /\ DebtIsBacked(None, pos[Backstop].liabilities, poolBal[Pool].tokens)
      /\ InterestIsBacked(None, LoadedReserves)
      /\ None \in {None} \cup BadDebtAuctions /\ None \in {None} \cup InterestAuctions
  BY DEF DebtIsBacked, InterestIsBacked
<1>4. CASE kind = "badDebt"
  <2>1. bstopAuction' = [badDebt |-> None, interest |-> bstopAuction.interest]
    BY <1>1, <1>2, <1>4
  <2> QED BY <1>1, <1>2, <1>3, <2>1, AuctionStepIsInsured
<1>5. CASE kind = "interest"
  <2>1. bstopAuction' = [badDebt |-> bstopAuction.badDebt, interest |-> None]
    BY <1>1, <1>2, <1>5
  <2> QED BY <1>1, <1>2, <1>3, <2>1, AuctionStepIsInsured
<1> QED BY <1>4, <1>5

LEMMA StutterIsInsured ==
  ASSUME InsuredInv, UNCHANGED insuredVars
  PROVE  InsuredInv'
<1>1. UNCHANGED vars /\ UNCHANGED <<poolBal, userBal, lp, bstopAuction, side>>
  BY DEF insuredVars, outside
<1>2. UNCHANGED <<now, backstop, res, pos, bal, tx>>
  BY <1>1 DEF vars
<1>3. IInv' /\ SolventInv'
  BY <1>1, StutterKeepsIInv, StutterIsSolvent DEF InsuredInv
<1>4. LoadedReserves' = LoadedReserves /\ (Idle' <=> Idle)
  BY <1>2 DEF LoadedReserves, Loaded, Timestamp, Idle
<1>5. SideOK => SideOK'
  BY <1>1, <1>2 DEF SideOK
<1> QED BY <1>1, <1>2, <1>3, <1>4, <1>5 DEF InsuredInv

---------------------------------------------------------------------------
(* Fills of the backstop's auctions.  A step of an open call whose view of *)
(* both contracts stays backed and covered.                                *)
LEMMA FilledIsInsured ==
  ASSUME InsuredInv, ~Idle,
         UNCHANGED <<now, price, status, res, pos, auction, bal,
                     poolBal, userBal, lp, bstopAuction>>,
         tx' \in Txs, side' \in Sides, side'.unbacked = side.unbacked,
         Insures(side'.poolBal, side'.lp, side'.auctions, tx'.res, tx'.pos),
         backstop' = BackstopData(side'.poolBal[Pool]),
         unbacked' \in [Reserves -> Nat],
         \A r \in Reserves : unbacked'[r] >= unbacked[r],
         Matches(tx'.res, tx'.pos),
         \A r \in Reserves : /\ tx'.res[r].d_rate = tx.res[r].d_rate
                             /\ tx'.res[r].last_time = tx.res[r].last_time,
         tx.touched \subseteq tx'.touched,
         \A r \in Reserves \ tx'.touched : /\ tx'.res[r] = tx.res[r]
                                           /\ tx'.bal[r] = tx.bal[r],
         tx'.in = tx.in, tx'.out = tx.out, tx'.flash = tx.flash,
         \A r \in Reserves : Claims(tx'.res[r]) <= CashInView'[r] + unbacked'[r]
  PROVE  InsuredInv'
<1>1. IInv /\ SolventInv /\ SideOK /\ ViewOK
      /\ Insures(poolBal, lp, bstopAuction, LoadedReserves, pos)
  BY DEF InsuredInv, IInv
<1>2. ~Idle'
  BY DEF Idle, Txs
<1>3. TypeOK'
  <2>1. backstop' \in BackstopDatas
    <3>1. Deposited(side'.poolBal, side'.lp)
      BY DEF Insures
    <3> QED BY <3>1, DataTyped
  <2> QED BY <1>1, <2>1 DEF IInv, TypeOK
<1>4. Timestamp' = Timestamp /\ LoadedReserves' = LoadedReserves
      /\ \A r \in Reserves : Loaded(r)' = Loaded(r)
  BY DEF Timestamp, LoadedReserves, Loaded
<1>5. Matches(res, pos)' /\ Grown(res)'
  BY <1>1, <1>4 DEF IInv, Matches, Grown, BTokensOf, DTokensOf
<1>6. Matches(tx.res, tx.pos)'
  BY DEF Matches, BTokensOf, DTokensOf
<1>7. Grown(tx.res)'
  BY <1>1, <1>4 DEF ViewOK, Grown
<1>8. ViewFollows'
  <2> SUFFICES ASSUME NEW r \in Reserves
               PROVE  /\ tx'.res[r].d_rate >= res'[r].d_rate
                      /\ tx'.res[r].last_time = Timestamp'
                      /\ r \notin tx'.touched =>
                           /\ tx'.res[r].b_supply = res'[r].b_supply
                           /\ tx'.res[r].d_supply = res'[r].d_supply
                           /\ tx'.res[r].backstop_credit = Loaded(r)'.backstop_credit
                           /\ tx'.in[r] = 0 /\ tx'.out[r] = 0 /\ tx'.flash[r] = 0
                           /\ tx'.bal[r] >= bal'[r]
    BY DEF ViewFollows
  <2>1. /\ tx.res[r].d_rate >= res[r].d_rate
        /\ tx.res[r].last_time = Timestamp
        /\ r \notin tx.touched =>
             /\ tx.res[r].b_supply = res[r].b_supply
             /\ tx.res[r].d_supply = res[r].d_supply
             /\ tx.res[r].backstop_credit = Loaded(r).backstop_credit
             /\ tx.in[r] = 0 /\ tx.out[r] = 0 /\ tx.flash[r] = 0
             /\ tx.bal[r] >= bal[r]
    BY <1>1 DEF ViewOK, ViewFollows
  <2> QED BY <1>4, <2>1
<1>9. IInv'
  BY <1>3, <1>5, <1>6, <1>7, <1>8 DEF IInv, ViewOK
<1>10. SolventInv'
  <2>1. Covered(tx'.res, CashInView', unbacked')
    BY DEF Covered
  <2>2. ASSUME NEW r \in Reserves
        PROVE  Claims(res[r]) <= bal[r] + unbacked'[r]
    <3>1. Claims(res[r]) \in Int /\ bal[r] \in Nat /\ unbacked[r] \in Nat
      BY <1>1, ClaimsAreInt DEF IInv, TypeOK
    <3>2. Claims(res[r]) <= bal[r] + unbacked[r]
      BY <1>1 DEF SolventInv, Covered
    <3> DEFINE n == unbacked'[r]
    <3>3. n \in Nat /\ n >= unbacked[r]
      OBVIOUS
    <3> HIDE DEF n
    <3>4. Claims(res[r]) <= bal[r] + n
      BY <3>1, <3>2, <3>3
    <3> QED BY <3>4 DEF n
  <2>3. Covered(res', bal', unbacked')
    BY <2>2 DEF Covered
  <2> QED BY <2>1, <2>3 DEF SolventInv, Covered
<1>11. Insures(poolBal', lp', bstopAuction', LoadedReserves', pos')
  BY <1>1, <1>4
<1>12. SideOK'
  <2>1. Covered(res, bal, side.unbacked)
    BY <1>1 DEF SideOK
  <2>2. Covered(res', bal', side'.unbacked)
    BY <2>1
  <2> QED BY <2>2 DEF SideOK
<1> QED BY <1>2, <1>9, <1>10, <1>11, <1>12 DEF InsuredInv

(* The filler takes over debt that the backstop has.                       *)
LEMMA TakenOverMatches ==
  ASSUME NEW rs, NEW ps \in [Holders -> Positions], Matches(rs, ps),
         NEW h \in Users, NEW debts \in [Reserves -> Nat],
         \A r \in Reserves : debts[r] <= ps[Backstop].liabilities[r]
  PROVE  /\ TakenOver(ps, h, debts) \in [Holders -> Positions]
         /\ Matches(rs, TakenOver(ps, h, debts))
         /\ \A r \in Reserves : TakenOver(ps, h, debts)[Backstop].liabilities[r]
                                  = ps[Backstop].liabilities[r] - debts[r]
<1> DEFINE g  == Backstop
           qs == TakenOver(ps, h, debts)
           pg == [ps[g] EXCEPT !.liabilities = Minus(@, debts)]
           ph == [ps[h] EXCEPT !.liabilities = Plus(@, debts)]
<1>1. g \in Holders /\ h \in Holders /\ g # h /\ ps[g] \in Positions /\ ps[h] \in Positions
  BY LendingPoolAssumption DEF Holders
<1>2. qs = [ps EXCEPT ![g] = pg, ![h] = ph]
  BY <1>1 DEF TakenOver, Positions
<1>3. \A r \in Reserves :
        /\ ps[g].liabilities[r] \in Nat /\ ps[h].liabilities[r] \in Nat
        /\ debts[r] \in Nat /\ debts[r] <= ps[g].liabilities[r]
  BY <1>1 DEF Positions
<1>4. /\ Minus(ps[g].liabilities, debts) \in [Reserves -> Nat]
      /\ Plus(ps[h].liabilities, debts) \in [Reserves -> Nat]
  BY <1>3 DEF Minus, Plus
<1>5. /\ pg \in Positions /\ ph \in Positions
      /\ pg.liabilities = Minus(ps[g].liabilities, debts)
      /\ ph.liabilities = Plus(ps[h].liabilities, debts)
      /\ pg.collateral = ps[g].collateral /\ ph.collateral = ps[h].collateral
      /\ pg.supply = ps[g].supply /\ ph.supply = ps[h].supply
  BY <1>1, <1>4 DEF Positions
<1> HIDE DEF pg, ph, qs
<1>6. /\ qs \in [Holders -> Positions] /\ qs[g] = pg /\ qs[h] = ph
      /\ \A x \in Holders \ {g, h} : qs[x] = ps[x]
  BY <1>1, <1>2, <1>5
<1>7. ASSUME NEW r \in Reserves
      PROVE  /\ qs[g].liabilities[r] = ps[g].liabilities[r] - debts[r]
             /\ qs[g].liabilities[r] + qs[h].liabilities[r]
                  = ps[g].liabilities[r] + ps[h].liabilities[r]
  <2>1. /\ qs[g].liabilities[r] = ps[g].liabilities[r] - debts[r]
        /\ qs[h].liabilities[r] = ps[h].liabilities[r] + debts[r]
    BY <1>5, <1>6 DEF Minus, Plus
  <2> QED BY <1>3, <2>1
<1>8. /\ qs[g].collateral = ps[g].collateral /\ qs[h].collateral = ps[h].collateral
      /\ qs[g].supply = ps[g].supply /\ qs[h].supply = ps[h].supply
  BY <1>5, <1>6
<1>9. Matches(rs, qs)
  BY <1>1, <1>6, <1>7, <1>8, MatchesAfterMove
<1> QED BY <1>6, <1>7, <1>9 DEF qs

(* The default of all debt the backstop has, in a view.                    *)
WrittenOff(ps) == [ps EXCEPT ![Backstop].liabilities = Zero]

LEMMA DefaultedInMatches ==
  ASSUME NEW rs \in [Reserves -> ReserveDatas], NEW ps \in [Holders -> Positions],
         Matches(rs, ps),
         NEW owed, owed = ps[Backstop].liabilities,
         \A r \in Held(owed) : rs[r].b_supply > 0
  PROVE  /\ DefaultedIn(rs, owed) \in [Reserves -> ReserveDatas]
         /\ WrittenOff(ps) \in [Holders -> Positions]
         /\ Matches(DefaultedIn(rs, owed), WrittenOff(ps))
         /\ LossOf(rs, owed) \in [Reserves -> Nat]
         /\ \A r \in Reserves :
              /\ DefaultedIn(rs, owed)[r].d_rate = rs[r].d_rate
              /\ DefaultedIn(rs, owed)[r].last_time = rs[r].last_time
              /\ DefaultedIn(rs, owed)[r].backstop_credit = rs[r].backstop_credit
              /\ r \notin Held(owed) => DefaultedIn(rs, owed)[r] = rs[r]
              /\ Claims(DefaultedIn(rs, owed)[r]) <= Claims(rs[r]) + LossOf(rs, owed)[r]
<1> DEFINE new  == DefaultedIn(rs, owed)
           loss == LossOf(rs, owed)
           qs   == WrittenOff(ps)
           pb   == [ps[Backstop] EXCEPT !.liabilities = Zero]
<1>1. /\ Backstop \in Holders /\ ps[Backstop] \in Positions /\ owed \in [Reserves -> Nat]
  BY DEF Holders, Positions
<1>2. \A r \in Reserves : owed[r] \in Nat /\ owed[r] <= rs[r].d_supply
  BY <1>1, HeldIsBounded
<1>3. \A r \in Reserves :
        /\ new[r] = IF owed[r] > 0 THEN Defaulted(rs[r], owed[r]) ELSE rs[r]
        /\ loss[r] = IF owed[r] > 0 THEN Shortfall(rs[r], owed[r]) ELSE 0
  BY DEF DefaultedIn, LossOf
<1>4. /\ new = [r \in Reserves |-> new[r]]
      /\ loss = [r \in Reserves |-> loss[r]]
  BY DEF DefaultedIn, LossOf
<1> HIDE DEF new, loss
<1>5. ASSUME NEW r \in Reserves
      PROVE  /\ new[r] \in ReserveDatas
             /\ new[r].d_supply = rs[r].d_supply - owed[r]
             /\ new[r].b_supply = rs[r].b_supply
             /\ new[r].d_rate = rs[r].d_rate
             /\ new[r].last_time = rs[r].last_time
             /\ new[r].backstop_credit = rs[r].backstop_credit
             /\ r \notin Held(owed) => new[r] = rs[r]
             /\ loss[r] \in Nat
             /\ Claims(new[r]) <= Claims(rs[r]) + loss[r]
  <2>1. rs[r] \in ReserveDatas /\ rs[r].d_supply \in Nat /\ Claims(rs[r]) \in Int
    BY ClaimsAreInt DEF ReserveDatas
  <2>2. CASE owed[r] > 0
    <3>1. /\ rs[r].b_supply > 0 /\ owed[r] \in Nat /\ owed[r] <= rs[r].d_supply
          /\ owed[r] \in 0..rs[r].d_supply /\ r \in Held(owed)
      BY <1>2, <2>1, <2>2 DEF Held
    <3>2. new[r] = Defaulted(rs[r], owed[r]) /\ loss[r] = Shortfall(rs[r], owed[r])
      BY <1>3, <2>2
    <3>3. Defaulted(rs[r], owed[r]).backstop_credit = rs[r].backstop_credit
      BY <2>1 DEF Defaulted, ReserveDatas
    <3>4. Claims(Defaulted(rs[r], owed[r])) <= Claims(rs[r]) + Shortfall(rs[r], owed[r])
      BY <2>1, <3>1, DefaultedClaims
    <3> QED BY <2>1, <3>1, <3>2, <3>3, <3>4, DefaultedTyped
  <2>3. CASE ~(owed[r] > 0)
    <3>1. owed[r] = 0 /\ new[r] = rs[r] /\ loss[r] = 0
      BY <1>2, <1>3, <2>3
    <3> QED BY <2>1, <3>1
  <2> QED BY <2>2, <2>3
<1>6. new \in [Reserves -> ReserveDatas] /\ loss \in [Reserves -> Nat]
  BY <1>4, <1>5
<1>7. /\ pb \in Positions /\ pb.liabilities = Zero
      /\ pb.collateral = ps[Backstop].collateral /\ pb.supply = ps[Backstop].supply
  BY <1>1 DEF Positions, Zero
<1>8. qs = [ps EXCEPT ![Backstop] = pb]
  BY DEF WrittenOff
<1> HIDE DEF pb, qs
<1>9. /\ qs \in [Holders -> Positions] /\ qs[Backstop] = pb
      /\ \A h \in Holders \ {Backstop} : qs[h] = ps[h]
  BY <1>1, <1>7, <1>8
<1>10. Matches(new, qs)
  <2> SUFFICES ASSUME NEW r \in Reserves
               PROVE  /\ new[r].b_supply = Total(BTokensOf(qs, r))
                      /\ new[r].d_supply = Total(DTokensOf(qs, r))
    BY DEF Matches
  <2>1. /\ DTokensOf(ps, r) \in [Holders -> Nat] /\ DTokensOf(qs, r) \in [Holders -> Nat]
    BY <1>9, TokensTyped
  <2>2. BTokensOf(qs, r) = BTokensOf(ps, r)
    BY <1>7, <1>9 DEF BTokensOf
  <2>3. \A h \in Holders \ {Backstop} : DTokensOf(ps, r)[h] = DTokensOf(qs, r)[h]
    BY <1>9 DEF DTokensOf
  <2>4. DTokensOf(ps, r)[Backstop] = owed[r] /\ DTokensOf(qs, r)[Backstop] = 0
    BY <1>1, <1>7, <1>9 DEF DTokensOf, Zero
  <2>5. Total(DTokensOf(qs, r)) + owed[r] = Total(DTokensOf(ps, r)) + 0
    BY <1>1, <2>1, <2>3, <2>4, HoldersFinite, TotalChange
  <2>6. /\ rs[r].b_supply = Total(BTokensOf(ps, r)) /\ rs[r].d_supply = Total(DTokensOf(ps, r))
        /\ rs[r].d_supply \in Nat /\ Total(DTokensOf(qs, r)) \in Nat
    BY <2>1, HoldersFinite, TotalIsCount DEF Matches, ReserveDatas
  <2>7. new[r].d_supply = rs[r].d_supply - owed[r] /\ new[r].b_supply = rs[r].b_supply
    BY <1>5
  <2>8. owed[r] \in Nat
    BY <1>2
  <2> QED BY <2>2, <2>5, <2>6, <2>7, <2>8
<1>11. \A r \in Reserves :
         /\ new[r].d_rate = rs[r].d_rate /\ new[r].last_time = rs[r].last_time
         /\ new[r].backstop_credit = rs[r].backstop_credit
         /\ r \notin Held(owed) => new[r] = rs[r]
         /\ Claims(new[r]) <= Claims(rs[r]) + loss[r]
  BY <1>5
<1> QED BY <1>6, <1>9, <1>10, <1>11 DEF new, loss, qs

(* A fill of bad debt takes over debt that is owed, and pays no more than  *)
(* what it does not leave of the lot.                                      *)
LEMMA FilledDebt ==
  ASSUME NEW a \in BadDebtAuctions,
         NEW percent \in 0..100, NEW block \in Nat, a.block <= block
  PROVE  /\ DOMAIN a.bid \subseteq Reserves /\ a.lot[BackstopToken] \in Nat
         /\ ToFill(a, percent, block).bid \in [DOMAIN a.bid -> Nat]
         /\ ToFill(a, percent, block).lot[BackstopToken] \in Nat
         /\ Remaining(a, percent) \in BadDebtAuctions
         /\ Remaining(a, percent).bid \in [DOMAIN a.bid -> Nat]
         /\ Remaining(a, percent).lot[BackstopToken] \in Nat
         /\ \A r \in DOMAIN a.bid :
              /\ a.bid[r] \in Nat
              /\ ToFill(a, percent, block).bid[r] + Remaining(a, percent).bid[r] <= a.bid[r]
         /\ ToFill(a, percent, block).lot[BackstopToken]
              + Remaining(a, percent).lot[BackstopToken] <= a.lot[BackstopToken]
<1> DEFINE fill == ToFill(a, percent, block)
           rest == Remaining(a, percent)
<1>1. PICK S \in SUBSET Reserves : a \in [bid : [S -> Nat], lot : Tokens, block : Nat]
  BY DEF BadDebtAuctions
<1>2. a.bid \in [S -> Nat] /\ a.lot \in [{BackstopToken} -> Nat] /\ a.block \in Nat
      /\ DOMAIN a.bid = S
  BY <1>1 DEF Tokens
<1> DEFINE E == {BackstopToken}
<1>3. /\ fill.bid \in [S -> Nat] /\ fill.lot \in [E -> Nat]
      /\ rest.bid \in [S -> Nat] /\ rest.lot \in [E -> Nat]
      /\ rest.block = a.block
      /\ \A r \in S : fill.bid[r] + rest.bid[r] <= a.bid[r]
      /\ \A r \in E : fill.lot[r] + rest.lot[r] <= a.lot[r]
  <2>1. a.lot \in [E -> Nat]
    BY <1>2
  <2> HIDE DEF E
  <2>2. a.bid \in [S -> Nat]
    BY <1>2
  <2>3. a.block \in Nat
    BY <1>2
  <2>4. /\ ToFill(a, percent, block).bid \in [S -> Nat]
        /\ ToFill(a, percent, block).lot \in [E -> Nat]
        /\ Remaining(a, percent).bid \in [S -> Nat]
        /\ Remaining(a, percent).lot \in [E -> Nat]
        /\ Remaining(a, percent).block = a.block
        /\ \A r \in S :
             ToFill(a, percent, block).bid[r] + Remaining(a, percent).bid[r] <= a.bid[r]
        /\ \A r \in E :
             ToFill(a, percent, block).lot[r] + Remaining(a, percent).lot[r] <= a.lot[r]
    BY ONLY <2>1, <2>2, <2>3, percent \in 0..100, block \in Nat, a.block <= block,
            ScaledSides, Zenon
  <2> QED BY <2>4
<1>4. rest = [bid |-> rest.bid, lot |-> rest.lot, block |-> rest.block]
  BY DEF Remaining
<1> HIDE DEF fill, rest
<1>5. rest \in BadDebtAuctions
  BY <1>2, <1>3, <1>4 DEF BadDebtAuctions, Tokens
<1> QED BY <1>2, <1>3, <1>5 DEF fill, rest

(* What is left of it is backed by what is left of debt and deposits.      *)
LEMMA LeftDebtIsBacked ==
  ASSUME NEW a \in BadDebtAuctions, a # None,
         NEW percent \in 0..100, NEW block \in Nat, a.block <= block,
         NEW owed \in [Reserves -> Nat], NEW tokens \in Nat,
         DebtIsBacked(a, owed, tokens),
         NEW less \in [Reserves -> Nat], NEW fewer \in Nat,
         \A r \in DOMAIN a.bid : less[r] = owed[r] - ToFill(a, percent, block).bid[r],
         fewer = tokens - ToFill(a, percent, block).lot[BackstopToken]
  PROVE  DebtIsBacked(Left(Remaining(a, percent)), less, fewer)
<1> DEFINE fill == ToFill(a, percent, block)
           rest == Remaining(a, percent)
           paid == fill.lot[BackstopToken]
<1>1. /\ DOMAIN a.bid \subseteq Reserves /\ a.lot[BackstopToken] \in Nat
      /\ fill.bid \in [DOMAIN a.bid -> Nat] /\ paid \in Nat
      /\ rest.bid \in [DOMAIN a.bid -> Nat] /\ rest.lot[BackstopToken] \in Nat
      /\ \A r \in DOMAIN a.bid : a.bid[r] \in Nat /\ fill.bid[r] + rest.bid[r] <= a.bid[r]
      /\ paid + rest.lot[BackstopToken] <= a.lot[BackstopToken]
  BY FilledDebt
<1>2. /\ \A r \in DOMAIN a.bid : a.bid[r] <= owed[r]
      /\ (\E r \in DOMAIN a.bid : a.bid[r] > 0) => a.lot[BackstopToken] <= tokens
  BY DEF DebtIsBacked
<1>3. /\ \A r \in DOMAIN a.bid : less[r] = owed[r] - fill.bid[r]
      /\ fewer = tokens - paid
  OBVIOUS
<1> HIDE DEF fill, rest, paid
<1>4. ASSUME NEW r \in DOMAIN a.bid
      PROVE  rest.bid[r] <= less[r]
  <2>1. /\ owed[r] \in Nat /\ fill.bid[r] \in Nat /\ rest.bid[r] \in Nat /\ a.bid[r] \in Nat
        /\ less[r] \in Nat
    BY <1>1
  <2>2. fill.bid[r] + rest.bid[r] <= a.bid[r] /\ a.bid[r] <= owed[r]
        /\ less[r] = owed[r] - fill.bid[r]
    BY <1>1, <1>2, <1>3
  <2> QED BY <2>1, <2>2
<1>5. ASSUME NEW r \in DOMAIN a.bid, rest.bid[r] > 0
      PROVE  rest.lot[BackstopToken] <= fewer
  <2>1. fill.bid[r] \in Nat /\ rest.bid[r] \in Nat /\ a.bid[r] \in Nat
        /\ fill.bid[r] + rest.bid[r] <= a.bid[r]
    BY <1>1
  <2>2. a.bid[r] > 0
    BY <1>5, <2>1
  <2>3. a.lot[BackstopToken] <= tokens
    BY <1>2, <2>2
  <2> QED BY <1>1, <1>3, <2>3
<1>6. DOMAIN rest.bid = DOMAIN a.bid
  BY <1>1
<1>7. DebtIsBacked(rest, less, fewer)
  BY <1>4, <1>5, <1>6 DEF DebtIsBacked
<1>8. DebtIsBacked(None, less, fewer)
  BY DEF DebtIsBacked
<1> QED BY <1>7, <1>8 DEF Left, rest

LEMMA BadDebtFillIsInsured ==
  ASSUME InsuredInv, NEW percent \in FillPercents, FillBadDebt(percent)
  PROVE  InsuredInv'
<1> DEFINE a        == side.auctions.badDebt
           fill     == ToFill(a, percent, now)
           rest     == Remaining(a, percent)
           paid     == fill.lot[BackstopToken]
           debts    == Spread(fill.bid)
           b        == side.poolBal[Pool]
           c        == L!Leaving(b, paid, 0)
           taken    == TakenOver(tx.pos, tx.from, debts)
           owed     == taken[Backstop].liabilities
           defaults == IsEmpty(rest) /\ DefaultsAt(c)
           rs       == IF defaults THEN DefaultedIn(tx.res, owed) ELSE tx.res
           ps       == IF defaults THEN WrittenOff(taken) ELSE taken
           ts       == tx.touched \cup Held(debts)
                         \cup (IF defaults THEN Held(owed) ELSE {})
           left     == tx.left - 1
           nb       == [side.poolBal EXCEPT ![Pool] = c]
           nl       == side.lp - paid
           na       == [side.auctions EXCEPT !.badDebt = Left(rest)]
           loss     == LossOf(tx.res, owed)
<1>1. /\ Building /\ a # None /\ now >= a.block
      /\ \A r \in DOMAIN a.bid : fill.bid[r] <= tx.pos[Backstop].liabilities[r]
      /\ paid > 0 => L!MayLeave(b, paid, 0) /\ paid <= side.lp
      /\ defaults => \A r \in Held(owed) : tx.res[r].b_supply > 0
  BY DEF FillBadDebt, MayFill, MayDraw
<1>2. /\ tx' = [tx EXCEPT !.res = rs, !.pos = ps, !.touched = ts, !.health = TRUE, !.left = left]
      /\ side' = [side EXCEPT !.poolBal = nb, !.lp = nl, !.auctions = na]
      /\ unbacked' = IF defaults THEN Plus(unbacked, loss) ELSE unbacked
      /\ backstop' = BackstopData(c)
      /\ UNCHANGED <<now, price, status, res, pos, auction, bal, poolBal, userBal, lp,
                     bstopAuction>>
  BY DEF FillBadDebt, WrittenOff
<1>3. ~Idle
  BY <1>1 DEF Building, Idle
<1>4. /\ IInv /\ TypeOK /\ SolventInv /\ SideOK /\ ViewOK /\ Matches(tx.res, tx.pos)
  BY <1>3 DEF InsuredInv, IInv, ViewOK
<1>5. /\ tx \in Txs /\ tx.from \in Users /\ tx.touched \in SUBSET Reserves
      /\ tx.res \in [Reserves -> ReserveDatas] /\ tx.pos \in [Holders -> Positions]
      /\ left \in 0..MaxRequests /\ now \in Nat /\ percent \in 0..100
      /\ unbacked \in [Reserves -> Nat]
      /\ tx.pos[Backstop].liabilities \in [Reserves -> Nat]
  <2>1. tx.left \in 0..MaxRequests /\ tx.left > 0
    BY <1>1, <1>3, <1>4, ViewTyped DEF Building
  <2>2. left \in 0..MaxRequests
    BY <2>1, LendingPoolAssumption
  <2>3. tx.pos[Backstop].liabilities \in [Reserves -> Nat]
    <3>1. tx.pos[Backstop] \in Positions
      BY <1>3, <1>4, ViewTyped DEF Holders
    <3> QED BY <3>1 DEF Positions
  <2>4. now \in Nat /\ percent \in 0..100 /\ unbacked \in [Reserves -> Nat]
    BY <1>4, LendingPoolAssumption DEF TypeOK
  <2> QED BY <1>3, <1>4, <2>2, <2>3, <2>4, ViewTyped
<1>6. /\ side \in Sides /\ side.poolBal \in [{Pool} -> PoolBalances] /\ side.lp \in 0..LpSupply
      /\ side.auctions \in BackstopAuctions /\ side.unbacked \in [Reserves -> Nat]
      /\ b.tokens <= side.lp
      /\ DebtIsBacked(a, tx.pos[Backstop].liabilities, b.tokens)
      /\ InterestIsBacked(side.auctions.interest, tx.res)
  BY <1>4 DEF SideOK, Insures, Deposited, Sides
<1>7. a \in BadDebtAuctions
  BY <1>1, <1>6 DEF BackstopAuctions
<1>8. /\ DOMAIN a.bid \subseteq Reserves /\ fill.bid \in [DOMAIN a.bid -> Nat]
      /\ paid \in Nat /\ rest \in BadDebtAuctions
  <2>1. a.block <= now
    BY <1>1, <1>5, <1>7 DEF BadDebtAuctions
  <2> QED BY <1>5, <1>7, <2>1, FilledDebt
<1>9. /\ b \in PoolBalances /\ b.shares \in Nat /\ b.tokens \in Nat /\ b.q4w \in Nat
      /\ side.lp \in Nat /\ LpSupply \in Nat
  BY <1>6, InsuredPoolAssumption DEF PoolBalances
<1>10. /\ paid <= b.tokens /\ paid <= side.lp
  BY <1>1, <1>8, <1>9 DEF L!MayLeave
<1>11. /\ c \in PoolBalances /\ c.tokens = b.tokens - paid /\ c.tokens \in Nat
       /\ nl \in 0..LpSupply /\ nl \in Nat /\ c.tokens <= nl
  <2> HIDE DEF paid, b
  <2>1. c = [shares |-> b.shares - 0, tokens |-> b.tokens - paid, q4w |-> b.q4w - 0]
    BY DEF L!Leaving
  <2> HIDE DEF c
  <2> QED BY <1>6, <1>8, <1>9, <1>10, <2>1 DEF PoolBalances
<1>12. /\ nb \in [{Pool} -> PoolBalances] /\ nb[Pool] = c
  BY <1>6, <1>11
<1>13. Deposited(nb, nl)
  BY <1>11, <1>12 DEF Deposited
<1>14. /\ debts \in [Reserves -> Nat]
       /\ \A r \in DOMAIN a.bid : debts[r] = fill.bid[r]
       /\ \A r \in Reserves : debts[r] <= tx.pos[Backstop].liabilities[r]
  <2>1. DOMAIN fill.bid = DOMAIN a.bid
    BY <1>8
  <2>2. \A r \in Reserves : debts[r] = IF r \in DOMAIN a.bid THEN fill.bid[r] ELSE 0
    BY <2>1 DEF Spread
  <2>3. debts = [r \in Reserves |-> debts[r]]
    BY DEF Spread
  <2> HIDE DEF debts, fill, a
  <2> QED BY <1>1, <1>5, <1>8, <2>2, <2>3
<1> HIDE DEF debts
<1>15. /\ taken \in [Holders -> Positions] /\ Matches(tx.res, taken)
       /\ \A r \in Reserves : owed[r] = tx.pos[Backstop].liabilities[r] - debts[r]
  BY <1>4, <1>5, <1>14, TakenOverMatches
<1> HIDE DEF taken
<1>16. owed = taken[Backstop].liabilities /\ owed \in [Reserves -> Nat]
  <2>1. taken[Backstop] \in Positions
    BY <1>15 DEF Holders
  <2> QED BY <2>1 DEF Positions
<1> HIDE DEF owed
<1>17. defaults =>
         /\ DefaultedIn(tx.res, owed) \in [Reserves -> ReserveDatas]
         /\ WrittenOff(taken) \in [Holders -> Positions]
         /\ Matches(DefaultedIn(tx.res, owed), WrittenOff(taken))
         /\ loss \in [Reserves -> Nat]
         /\ \A r \in Reserves :
              /\ DefaultedIn(tx.res, owed)[r].d_rate = tx.res[r].d_rate
              /\ DefaultedIn(tx.res, owed)[r].last_time = tx.res[r].last_time
              /\ DefaultedIn(tx.res, owed)[r].backstop_credit = tx.res[r].backstop_credit
              /\ r \notin Held(owed) => DefaultedIn(tx.res, owed)[r] = tx.res[r]
              /\ Claims(DefaultedIn(tx.res, owed)[r]) <= Claims(tx.res[r]) + loss[r]
  <2>1. ASSUME defaults
        PROVE  \A r \in Held(owed) : tx.res[r].b_supply > 0
    BY <1>1, <2>1
  <2>2. tx.res \in [Reserves -> ReserveDatas]
    BY <1>5
  <2>3. taken \in [Holders -> Positions]
    BY <1>15
  <2>4. Matches(tx.res, taken)
    BY <1>15
  <2>5. owed = taken[Backstop].liabilities
    BY <1>16
  <2> HIDE DEF defaults
  <2> QED BY <2>1, <2>2, <2>3, <2>4, <2>5, DefaultedInMatches
<1> HIDE DEF defaults, loss
<1>18. /\ rs \in [Reserves -> ReserveDatas] /\ ps \in [Holders -> Positions] /\ Matches(rs, ps)
       /\ \A r \in Reserves : /\ rs[r].d_rate = tx.res[r].d_rate
                              /\ rs[r].last_time = tx.res[r].last_time
                              /\ rs[r].backstop_credit = tx.res[r].backstop_credit
       /\ \A r \in Reserves \ ts : rs[r] = tx.res[r]
  <2>1. CASE defaults
    BY <1>17, <2>1
  <2>2. CASE ~defaults
    BY <1>5, <1>15, <2>2
  <2> QED BY <2>1, <2>2
<1>19. ts \in SUBSET Reserves /\ tx.touched \subseteq ts
  BY <1>5 DEF Held
<1>20. /\ tx' \in Txs /\ tx'.res = rs /\ tx'.pos = ps /\ tx'.touched = ts
       /\ tx'.in = tx.in /\ tx'.out = tx.out /\ tx'.flash = tx.flash /\ tx'.bal = tx.bal
       /\ tx'.phase = tx.phase
  <2> HIDE DEF rs, ps, ts, left
  <2> QED BY <1>2, <1>5, <1>18, <1>19 DEF Txs
<1>21. DebtIsBacked(Left(rest), ps[Backstop].liabilities, c.tokens)
  <2>1. CASE IsEmpty(rest)
    BY <2>1 DEF Left, DebtIsBacked
  <2>2. CASE ~IsEmpty(rest)
    <3>1. ps[Backstop].liabilities = owed
      BY <1>16, <2>2 DEF defaults
    <3>2. \A r \in DOMAIN a.bid : owed[r] = tx.pos[Backstop].liabilities[r] - fill.bid[r]
      BY <1>8, <1>14, <1>15
    <3>3. a.block <= now
      BY <1>1, <1>5, <1>7 DEF BadDebtAuctions
    <3> HIDE DEF a, b, c, ps
    <3>4. /\ now \in Nat /\ percent \in 0..100 /\ owed \in [Reserves -> Nat]
          /\ tx.pos[Backstop].liabilities \in [Reserves -> Nat]
      BY <1>5, <1>16
    <3>5. /\ a \in BadDebtAuctions /\ a # None
          /\ b.tokens \in Nat /\ c.tokens \in Nat
          /\ c.tokens = b.tokens - ToFill(a, percent, now).lot[BackstopToken]
          /\ DebtIsBacked(a, tx.pos[Backstop].liabilities, b.tokens)
      BY <1>1, <1>6, <1>7, <1>9, <1>11
    <3>6. \A r \in DOMAIN a.bid :
            owed[r] = tx.pos[Backstop].liabilities[r] - ToFill(a, percent, now).bid[r]
      BY <3>2
    <3>7. DebtIsBacked(Left(Remaining(a, percent)), owed, c.tokens)
      BY ONLY <3>3, <3>4, <3>5, <3>6, LeftDebtIsBacked, Zenon
    <3> QED BY <3>1, <3>7
  <2> QED BY <2>1, <2>2
<1>22. na \in BackstopAuctions /\ na.badDebt = Left(rest) /\ na.interest = side.auctions.interest
  <2>1. Left(rest) \in {None} \cup BadDebtAuctions
    BY <1>8 DEF Left
  <2> HIDE DEF rest
  <2> QED BY <1>6, <2>1 DEF BackstopAuctions
<1>23. InterestIsBacked(side.auctions.interest, rs)
  <2> SUFFICES ASSUME side.auctions.interest # None,
                      NEW r \in DOMAIN side.auctions.interest.lot
               PROVE  side.auctions.interest.lot[r] <= rs[r].backstop_credit
    BY DEF InterestIsBacked
  <2>1. r \in Reserves
    BY <1>6, InterestAuctionTyped
  <2>2. side.auctions.interest.lot[r] <= tx.res[r].backstop_credit
    BY <1>6 DEF InterestIsBacked
  <2> QED BY <1>18, <2>1, <2>2
<1> HIDE DEF na, nb, nl, rs, ps, ts
<1>24. Insures(nb, nl, na, rs, ps)
  BY <1>12, <1>13, <1>21, <1>22, <1>23 DEF Insures
<1>25. /\ side' \in Sides /\ side'.poolBal = nb /\ side'.lp = nl /\ side'.auctions = na
       /\ side'.unbacked = side.unbacked
  BY <1>2, <1>6, <1>11, <1>12, <1>22 DEF Sides
<1>26. /\ unbacked' \in [Reserves -> Nat]
       /\ \A r \in Reserves : /\ unbacked'[r] >= unbacked[r]
                              /\ Claims(rs[r]) <= CashInView'[r] + unbacked'[r]
  <2>1. ASSUME NEW r \in Reserves
        PROVE  /\ Claims(tx.res[r]) \in Int /\ unbacked[r] \in Nat
               /\ CashInView[r] \in Int /\ CashInView'[r] = CashInView[r]
               /\ Claims(tx.res[r]) <= CashInView[r] + unbacked[r]
    <3>1. CashInView[r] = (tx.bal[r] + tx.in[r] - tx.out[r])
                            - (IF tx.phase = "build" THEN tx.flash[r] ELSE 0)
          /\ CashInView[r] \in Int
      BY <1>3, <1>4, CashTyped
    <3>2. CashInView'[r] = CashInView[r]
      BY <1>20, <3>1, CashAfterStep
    <3>3. Claims(tx.res[r]) <= CashInView[r] + unbacked[r]
      BY <1>3, <1>4 DEF SolventInv, Covered
    <3>4. tx.res[r] \in ReserveDatas
      BY <1>5
    <3> QED BY <1>5, <3>1, <3>2, <3>3, <3>4, ClaimsAreInt
  <2>2. CASE ~defaults
    <3>1. unbacked' = unbacked /\ rs = tx.res
      BY <1>2, <2>2 DEF rs
    <3> QED BY <1>5, <2>1, <3>1
  <2>3. CASE defaults
    <3>1. loss \in [Reserves -> Nat] /\ unbacked' = [r \in Reserves |-> unbacked[r] + loss[r]]
      BY <1>2, <1>17, <2>3 DEF Plus
    <3>2. unbacked' \in [Reserves -> Nat]
      BY <1>5, <3>1
    <3>3. ASSUME NEW r \in Reserves
          PROVE  /\ unbacked'[r] >= unbacked[r]
                 /\ Claims(rs[r]) <= CashInView'[r] + unbacked'[r]
      <4> DEFINE k == CashInView[r]
                 u == unbacked[r]
                 n == loss[r]
                 x == Claims(tx.res[r])
                 y == Claims(rs[r])
      <4>1. k \in Int /\ u \in Nat /\ n \in Nat /\ x \in Int /\ y \in Int
        <5>1. rs[r] \in ReserveDatas
          BY <1>18
        <5> QED BY <2>1, <3>1, <5>1, ClaimsAreInt
      <4>2. x <= k + u
        BY <2>1
      <4>3. y <= x + n
        BY <1>17, <2>3 DEF rs
      <4>4. unbacked'[r] = u + n /\ CashInView'[r] = k
        BY <2>1, <3>1
      <4> HIDE DEF k, u, n, x, y
      <4>5. y <= k + (u + n) /\ u + n >= u
        BY <4>1, <4>2, <4>3
      <4> QED BY <4>4, <4>5 DEF y, u
    <3> QED BY <3>2, <3>3
  <2> QED BY <2>2, <2>3
<1>27. Matches(tx'.res, tx'.pos)
       /\ Insures(side'.poolBal, side'.lp, side'.auctions, tx'.res, tx'.pos)
       /\ backstop' = BackstopData(side'.poolBal[Pool])
  BY <1>2, <1>12, <1>18, <1>20, <1>24, <1>25
<1>28. /\ \A r \in Reserves : /\ tx'.res[r].d_rate = tx.res[r].d_rate
                              /\ tx'.res[r].last_time = tx.res[r].last_time
       /\ tx.touched \subseteq tx'.touched
       /\ \A r \in Reserves \ tx'.touched : /\ tx'.res[r] = tx.res[r]
                                            /\ tx'.bal[r] = tx.bal[r]
       /\ \A r \in Reserves : Claims(tx'.res[r]) <= CashInView'[r] + unbacked'[r]
       /\ \A r \in Reserves : unbacked'[r] >= unbacked[r]
  BY <1>18, <1>19, <1>20, <1>26
<1>29. tx'.in = tx.in /\ tx'.out = tx.out /\ tx'.flash = tx.flash /\ tx' \in Txs
       /\ side' \in Sides /\ side'.unbacked = side.unbacked /\ unbacked' \in [Reserves -> Nat]
  BY <1>20, <1>25, <1>26
<1>30. UNCHANGED <<now, price, status, res, pos, auction, bal, poolBal, userBal, lp,
                   bstopAuction>>
  BY <1>2
<1> QED BY <1>3, <1>27, <1>28, <1>29, <1>30, FilledIsInsured

(* A fill of interest pays no more than what it does not leave of the lot. *)
LEMMA FilledInterest ==
  ASSUME NEW a \in InterestAuctions,
         NEW percent \in 0..100, NEW block \in Nat, a.block <= block
  PROVE  /\ DOMAIN a.lot \subseteq Reserves
         /\ ToFill(a, percent, block).lot \in [DOMAIN a.lot -> Nat]
         /\ ToFill(a, percent, block).bid[BackstopToken] \in Nat
         /\ Remaining(a, percent) \in InterestAuctions
         /\ Remaining(a, percent).lot \in [DOMAIN a.lot -> Nat]
         /\ \A r \in DOMAIN a.lot :
              /\ a.lot[r] \in Nat
              /\ ToFill(a, percent, block).lot[r] + Remaining(a, percent).lot[r] <= a.lot[r]
<1> DEFINE fill == ToFill(a, percent, block)
           rest == Remaining(a, percent)
<1>1. PICK S \in SUBSET Reserves : a \in [bid : Tokens, lot : [S -> Nat], block : Nat]
  BY DEF InterestAuctions
<1>2. a.lot \in [S -> Nat] /\ a.bid \in [{BackstopToken} -> Nat] /\ a.block \in Nat
      /\ DOMAIN a.lot = S
  BY <1>1 DEF Tokens
<1> DEFINE E == {BackstopToken}
<1>3. /\ fill.bid \in [E -> Nat] /\ fill.lot \in [S -> Nat]
      /\ rest.bid \in [E -> Nat] /\ rest.lot \in [S -> Nat]
      /\ rest.block = a.block
      /\ \A r \in S : fill.lot[r] + rest.lot[r] <= a.lot[r]
  <2>1. a.bid \in [E -> Nat]
    BY <1>2
  <2> HIDE DEF E
  <2>2. a.lot \in [S -> Nat]
    BY <1>2
  <2>3. a.block \in Nat
    BY <1>2
  <2>4. /\ ToFill(a, percent, block).bid \in [E -> Nat]
        /\ ToFill(a, percent, block).lot \in [S -> Nat]
        /\ Remaining(a, percent).bid \in [E -> Nat]
        /\ Remaining(a, percent).lot \in [S -> Nat]
        /\ Remaining(a, percent).block = a.block
        /\ \A r \in E :
             ToFill(a, percent, block).bid[r] + Remaining(a, percent).bid[r] <= a.bid[r]
        /\ \A r \in S :
             ToFill(a, percent, block).lot[r] + Remaining(a, percent).lot[r] <= a.lot[r]
    BY ONLY <2>1, <2>2, <2>3, percent \in 0..100, block \in Nat, a.block <= block,
            ScaledSides, Zenon
  <2> QED BY <2>4
<1>4. rest = [bid |-> rest.bid, lot |-> rest.lot, block |-> rest.block]
  BY DEF Remaining
<1> HIDE DEF fill, rest
<1>5. rest \in InterestAuctions
  BY <1>2, <1>3, <1>4 DEF InterestAuctions, Tokens
<1> QED BY <1>2, <1>3, <1>5 DEF fill, rest

(* Credit that is paid out: the claims on the pool fall by as much.        *)
LEMMA CreditPaidTyped ==
  ASSUME NEW rs \in [Reserves -> ReserveDatas], NEW lot \in [Reserves -> Nat],
         \A r \in Reserves : lot[r] <= rs[r].backstop_credit
  PROVE  /\ CreditPaid(rs, lot) \in [Reserves -> ReserveDatas]
         /\ \A r \in Reserves :
              /\ CreditPaid(rs, lot)[r].b_supply = rs[r].b_supply
              /\ CreditPaid(rs, lot)[r].d_supply = rs[r].d_supply
              /\ CreditPaid(rs, lot)[r].d_rate = rs[r].d_rate
              /\ CreditPaid(rs, lot)[r].last_time = rs[r].last_time
              /\ CreditPaid(rs, lot)[r].backstop_credit = rs[r].backstop_credit - lot[r]
              /\ lot[r] = 0 => CreditPaid(rs, lot)[r] = rs[r]
              /\ Claims(CreditPaid(rs, lot)[r]) = Claims(rs[r]) - lot[r]
<1> DEFINE new == CreditPaid(rs, lot)
<1>1. new = [r \in Reserves |-> new[r]]
  BY DEF CreditPaid
<1>2. \A r \in Reserves : new[r] = [rs[r] EXCEPT !.backstop_credit = @ - lot[r]]
  BY DEF CreditPaid
<1> HIDE DEF new
<1>3. ASSUME NEW r \in Reserves
      PROVE  /\ new[r] \in ReserveDatas
             /\ new[r].b_supply = rs[r].b_supply
             /\ new[r].d_supply = rs[r].d_supply
             /\ new[r].d_rate = rs[r].d_rate
             /\ new[r].last_time = rs[r].last_time
             /\ new[r].backstop_credit = rs[r].backstop_credit - lot[r]
             /\ lot[r] = 0 => new[r] = rs[r]
             /\ Claims(new[r]) = Claims(rs[r]) - lot[r]
  <2> DEFINE old == rs[r]
             n   == old.backstop_credit - lot[r]
  <2>1. /\ old \in ReserveDatas /\ old.backstop_credit \in Nat /\ lot[r] \in Nat
        /\ lot[r] <= old.backstop_credit
    BY DEF ReserveDatas
  <2>2. n \in Nat /\ new[r] = [old EXCEPT !.backstop_credit = n]
    BY <1>2, <2>1
  <2>3. n = old.backstop_credit - lot[r]
    OBVIOUS
  <2> HIDE DEF n, old
  <2>4. /\ new[r] \in ReserveDatas
        /\ new[r].b_supply = old.b_supply /\ new[r].d_supply = old.d_supply
        /\ new[r].b_rate = old.b_rate /\ new[r].d_rate = old.d_rate
        /\ new[r].last_time = old.last_time /\ new[r].backstop_credit = n
    BY <2>1, <2>2 DEF ReserveDatas
  <2>5. ASSUME lot[r] = 0
        PROVE  new[r] = old
    <3>1. n = old.backstop_credit
      BY <2>1, <2>3, <2>5
    <3> QED BY <2>1, <2>2, <3>1 DEF ReserveDatas
  <2>6. Claims(new[r]) = Claims(old) - lot[r]
    <3>1. /\ TotalSupply(new[r]) = TotalSupply(old)
          /\ TotalLiabilities(new[r]) = TotalLiabilities(old)
      BY <2>4 DEF TotalSupply, TotalLiabilities, ToAssetFromBToken, ToAssetFromDToken
    <3>2. TotalSupply(old) \in Nat /\ TotalLiabilities(old) \in Nat
      BY <2>1, TotalsOfReserve
    <3> QED BY <2>1, <2>2, <2>3, <2>4, <3>1, <3>2 DEF Claims
  <2> QED BY <2>3, <2>4, <2>5, <2>6 DEF old
<1>4. new \in [Reserves -> ReserveDatas]
  BY <1>1, <1>3
<1> QED BY <1>3, <1>4 DEF new

LEMMA InterestFillIsInsured ==
  ASSUME InsuredInv, NEW percent \in FillPercents, FillInterest(percent)
  PROVE  InsuredInv'
<1> DEFINE a    == side.auctions.interest
           fill == ToFill(a, percent, now)
           rest == Remaining(a, percent)
           lot  == Spread(fill.lot)
           gift == fill.bid[BackstopToken]
           b    == side.poolBal[Pool]
           n    == b.tokens + gift
           c    == [b EXCEPT !.tokens = n]
           nb   == [side.poolBal EXCEPT ![Pool] = c]
           nl   == side.lp + gift
           na   == [side.auctions EXCEPT !.interest = Left(rest)]
           rs   == CreditPaid(tx.res, lot)
           cash == Minus(tx.bal, lot)
           ts   == tx.touched \cup Held(lot)
           left == tx.left - 1
<1>1. /\ Building /\ a # None /\ now >= a.block
      /\ nl <= LpSupply
      /\ \A r \in Reserves : lot[r] <= tx.bal[r]
  BY DEF FillInterest, MayFill
<1>2. /\ tx' = [tx EXCEPT !.res = rs, !.bal = cash, !.touched = ts, !.left = left]
      /\ backstop' = BackstopData(Donated(side, gift).poolBal[Pool])
      /\ side' = [Donated(side, gift) EXCEPT !.auctions.interest = Left(rest)]
      /\ UNCHANGED <<now, price, status, res, pos, auction, bal, unbacked, poolBal, userBal,
                     lp, bstopAuction>>
  BY DEF FillInterest
<1>3. ~Idle
  BY <1>1 DEF Building, Idle
<1>4. IInv /\ TypeOK /\ SolventInv /\ SideOK /\ ViewOK /\ Matches(tx.res, tx.pos)
  BY <1>3 DEF InsuredInv, IInv, ViewOK
<1>5. /\ tx \in Txs /\ tx.touched \in SUBSET Reserves
      /\ tx.res \in [Reserves -> ReserveDatas] /\ tx.bal \in [Reserves -> Nat]
      /\ left \in 0..MaxRequests /\ now \in Nat /\ percent \in 0..100
      /\ unbacked \in [Reserves -> Nat]
      /\ tx.pos[Backstop].liabilities \in [Reserves -> Nat]
  <2>1. tx.left \in 0..MaxRequests /\ tx.left > 0
    BY <1>1, <1>3, <1>4, ViewTyped DEF Building
  <2>2. left \in 0..MaxRequests
    BY <2>1, LendingPoolAssumption
  <2>3. tx.pos[Backstop].liabilities \in [Reserves -> Nat]
    <3>1. tx.pos[Backstop] \in Positions
      BY <1>3, <1>4, ViewTyped DEF Holders
    <3> QED BY <3>1 DEF Positions
  <2>4. now \in Nat /\ percent \in 0..100 /\ unbacked \in [Reserves -> Nat]
    BY <1>4, LendingPoolAssumption DEF TypeOK
  <2> QED BY <1>3, <1>4, <2>2, <2>3, <2>4, ViewTyped
<1>6. /\ side \in Sides /\ side.poolBal \in [{Pool} -> PoolBalances] /\ side.lp \in 0..LpSupply
      /\ side.auctions \in BackstopAuctions
      /\ b.tokens <= side.lp
      /\ InterestIsBacked(a, tx.res)
      /\ Insures(side.poolBal, side.lp, side.auctions, tx.res, tx.pos)
  BY <1>4 DEF SideOK, Insures, Deposited, Sides
<1>7. a \in InterestAuctions
  BY <1>1, <1>6 DEF BackstopAuctions
<1>8. /\ DOMAIN a.lot \subseteq Reserves /\ fill.lot \in [DOMAIN a.lot -> Nat]
      /\ gift \in Nat /\ rest \in InterestAuctions /\ rest.lot \in [DOMAIN a.lot -> Nat]
      /\ \A r \in DOMAIN a.lot : a.lot[r] \in Nat /\ fill.lot[r] + rest.lot[r] <= a.lot[r]
  <2>1. a.block <= now
    BY <1>1, <1>5, <1>7 DEF InterestAuctions
  <2> QED BY <1>5, <1>7, <2>1, FilledInterest
<1>9. /\ b \in PoolBalances /\ b.tokens \in Nat /\ side.lp \in Nat /\ LpSupply \in Nat
  BY <1>6, InsuredPoolAssumption DEF PoolBalances
<1>10. \A r \in DOMAIN a.lot : a.lot[r] <= tx.res[r].backstop_credit
  BY <1>1, <1>6 DEF InterestIsBacked
<1> HIDE DEF a, fill, rest, gift, b
<1>11. /\ n \in Nat /\ nl \in 0..LpSupply /\ nl \in Nat /\ n <= nl /\ n >= b.tokens
  BY <1>1, <1>6, <1>8, <1>9
<1>12. /\ backstop' = BackstopData(nb[Pool])
       /\ side' = [side EXCEPT !.poolBal = nb, !.lp = nl, !.auctions = na]
  <2>1. Donated(side, gift) = [side EXCEPT !.poolBal = nb, !.lp = nl]
    BY DEF Donated, b
  <2> HIDE DEF nb, nl
  <2>2. /\ Donated(side, gift).poolBal = nb
        /\ Donated(side, gift).auctions = side.auctions
    BY <1>6, <2>1 DEF Sides
  <2> QED BY <1>2, <1>6, <2>1, <2>2 DEF Sides
<1> HIDE DEF n, nl
<1>13. c \in PoolBalances /\ c.tokens = n
  BY <1>9, <1>11 DEF PoolBalances
<1> HIDE DEF c
<1>14. nb \in [{Pool} -> PoolBalances] /\ nb[Pool] = c
  BY <1>6, <1>13
<1> HIDE DEF nb
<1>15. Insures(nb, nl, side.auctions, tx.res, tx.pos)
  <2>1. Deposited(nb, nl)
    BY <1>11, <1>13, <1>14 DEF Deposited
  <2>2. nb[Pool].tokens >= side.poolBal[Pool].tokens
    BY <1>11, <1>13, <1>14 DEF b
  <2> QED BY <1>5, <1>6, <2>1, <2>2, DepositsStayInsured
<1>16. /\ lot \in [Reserves -> Nat]
       /\ \A r \in DOMAIN a.lot : lot[r] = fill.lot[r]
       /\ \A r \in Reserves : lot[r] <= tx.res[r].backstop_credit
  <2>1. DOMAIN fill.lot = DOMAIN a.lot
    BY <1>8
  <2>2. \A r \in Reserves : lot[r] = IF r \in DOMAIN a.lot THEN fill.lot[r] ELSE 0
    BY <2>1 DEF Spread
  <2>3. lot = [r \in Reserves |-> lot[r]]
    BY DEF Spread
  <2> HIDE DEF lot
  <2>4. ASSUME NEW r \in Reserves
        PROVE  lot[r] \in Nat /\ lot[r] <= tx.res[r].backstop_credit
    <3>1. tx.res[r].backstop_credit \in Nat
      BY <1>5 DEF ReserveDatas
    <3>2. CASE r \in DOMAIN a.lot
      <4>1. /\ fill.lot[r] \in Nat /\ rest.lot[r] \in Nat /\ a.lot[r] \in Nat
            /\ fill.lot[r] + rest.lot[r] <= a.lot[r] /\ a.lot[r] <= tx.res[r].backstop_credit
            /\ lot[r] = fill.lot[r]
        BY <1>8, <1>10, <2>2, <3>2
      <4> QED BY <3>1, <4>1
    <3>3. CASE r \notin DOMAIN a.lot
      BY <2>2, <3>1, <3>3
    <3> QED BY <3>2, <3>3
  <2> QED BY <1>8, <2>2, <2>3, <2>4
<1> HIDE DEF lot
<1>17. /\ rs \in [Reserves -> ReserveDatas]
       /\ \A r \in Reserves :
            /\ rs[r].b_supply = tx.res[r].b_supply /\ rs[r].d_supply = tx.res[r].d_supply
            /\ rs[r].d_rate = tx.res[r].d_rate /\ rs[r].last_time = tx.res[r].last_time
            /\ rs[r].backstop_credit = tx.res[r].backstop_credit - lot[r]
            /\ lot[r] = 0 => rs[r] = tx.res[r]
            /\ Claims(rs[r]) = Claims(tx.res[r]) - lot[r]
  BY <1>5, <1>16, CreditPaidTyped
<1> HIDE DEF rs
<1>18. /\ cash \in [Reserves -> Nat]
       /\ \A r \in Reserves : cash[r] = tx.bal[r] - lot[r]
  BY <1>1, <1>5, <1>16 DEF Minus
<1> HIDE DEF cash
<1>19. ts \in SUBSET Reserves /\ tx.touched \subseteq ts
       /\ \A r \in Reserves \ ts : lot[r] = 0
  BY <1>5, <1>16 DEF Held
<1> HIDE DEF ts, left
<1>20. /\ tx' \in Txs /\ tx'.res = rs /\ tx'.bal = cash /\ tx'.touched = ts
       /\ tx'.pos = tx.pos
       /\ tx'.in = tx.in /\ tx'.out = tx.out /\ tx'.flash = tx.flash
       /\ tx'.phase = tx.phase
  BY <1>2, <1>5, <1>17, <1>18, <1>19 DEF Txs
<1>21. Matches(rs, tx.pos)
  BY <1>4, <1>17 DEF Matches
<1>22. InterestIsBacked(Left(rest), rs)
  <2>1. ASSUME NEW r \in DOMAIN rest.lot
        PROVE  rest.lot[r] <= rs[r].backstop_credit
    <3>1. r \in DOMAIN a.lot /\ r \in Reserves
      BY <1>8, <2>1
    <3>2. /\ tx.res[r].backstop_credit \in Nat /\ fill.lot[r] \in Nat /\ rest.lot[r] \in Nat
          /\ a.lot[r] \in Nat
          /\ fill.lot[r] + rest.lot[r] <= a.lot[r] /\ a.lot[r] <= tx.res[r].backstop_credit
      BY <1>5, <1>8, <1>10, <3>1 DEF ReserveDatas
    <3>3. rs[r].backstop_credit = tx.res[r].backstop_credit - fill.lot[r]
      BY <1>16, <1>17, <3>1
    <3> QED BY <3>2, <3>3
  <2> QED BY <2>1 DEF Left, InterestIsBacked
<1>23. na \in BackstopAuctions /\ na.interest = Left(rest) /\ na.badDebt = side.auctions.badDebt
  <2>1. Left(rest) \in {None} \cup InterestAuctions
    BY <1>8 DEF Left
  <2> QED BY <1>6, <2>1 DEF BackstopAuctions
<1> HIDE DEF na
<1>24. Insures(nb, nl, na, rs, tx.pos)
  BY <1>15, <1>22, <1>23 DEF Insures
<1>25. /\ side' \in Sides /\ side'.poolBal = nb /\ side'.lp = nl /\ side'.auctions = na
       /\ side'.unbacked = side.unbacked
  BY <1>6, <1>11, <1>12, <1>14, <1>23 DEF Sides
<1>26. ASSUME NEW r \in Reserves
       PROVE  Claims(rs[r]) <= CashInView'[r] + unbacked[r]
  <2> DEFINE d == tx.bal[r]
             i == tx.in[r]
             o == tx.out[r]
             f == IF tx.phase = "build" THEN tx.flash[r] ELSE 0
             m == lot[r]
             u == unbacked[r]
             x == Claims(tx.res[r])
  <2>1. /\ d \in Nat /\ i \in Nat /\ o \in Nat /\ f \in Nat /\ m \in Nat /\ u \in Nat
        /\ CashInView[r] = (d + i - o) - f
    BY <1>3, <1>4, <1>5, <1>16, CashTyped
  <2>2. x \in Int
    BY <1>5, ClaimsAreInt
  <2>3. x <= CashInView[r] + u
    BY <1>3, <1>4 DEF SolventInv, Covered
  <2>4. CashInView'[r] = ((d - m) + i - o) - f
    <3>1. CashInView'[r] = (tx'.bal[r] + tx'.in[r] - tx'.out[r])
                             - (IF tx'.phase = "build" THEN tx'.flash[r] ELSE 0)
      BY CashAfterStep
    <3> QED BY <1>18, <1>20, <3>1
  <2>5. Claims(rs[r]) = x - m
    BY <1>17
  <2> HIDE DEF d, i, o, f, m, u, x
  <2>6. x - m <= (((d - m) + i - o) - f) + u
    BY <2>1, <2>2, <2>3
  <2> QED BY <2>4, <2>5, <2>6 DEF u
<1>27. Matches(tx'.res, tx'.pos)
       /\ Insures(side'.poolBal, side'.lp, side'.auctions, tx'.res, tx'.pos)
       /\ backstop' = BackstopData(side'.poolBal[Pool])
  BY <1>12, <1>20, <1>21, <1>24, <1>25
<1>28. /\ \A r \in Reserves : /\ tx'.res[r].d_rate = tx.res[r].d_rate
                              /\ tx'.res[r].last_time = tx.res[r].last_time
       /\ tx.touched \subseteq tx'.touched
       /\ \A r \in Reserves \ tx'.touched : tx'.res[r] = tx.res[r]
       /\ unbacked' = unbacked
       /\ \A r \in Reserves : Claims(tx'.res[r]) <= CashInView'[r] + unbacked'[r]
       /\ \A r \in Reserves : unbacked'[r] >= unbacked[r]
  BY <1>2, <1>5, <1>17, <1>19, <1>20, <1>26
<1>29. \A r \in Reserves \ tx'.touched : tx'.bal[r] = tx.bal[r]
  <2> TAKE r \in Reserves \ tx'.touched
  <2>1. lot[r] = 0 /\ tx.bal[r] \in Nat /\ tx'.bal[r] = tx.bal[r] - lot[r]
    BY <1>5, <1>18, <1>19, <1>20
  <2> QED BY <2>1
<1>30. \A r \in Reserves \ tx'.touched : tx'.res[r] = tx.res[r] /\ tx'.bal[r] = tx.bal[r]
  BY <1>28, <1>29
<1>31. /\ tx'.in = tx.in /\ tx'.out = tx.out /\ tx'.flash = tx.flash /\ tx' \in Txs
       /\ side' \in Sides /\ side'.unbacked = side.unbacked
       /\ unbacked' \in [Reserves -> Nat]
  BY <1>5, <1>20, <1>25, <1>28
<1>32. UNCHANGED <<now, price, status, res, pos, auction, bal, poolBal, userBal, lp,
                   bstopAuction>>
  BY <1>2
<1> QED BY <1>3, <1>27, <1>28, <1>30, <1>31, <1>32, FilledIsInsured

---------------------------------------------------------------------------
(* InsuredInv is inductive: one case for each action.                      *)
LEMMA StepIsInsured ==
  ASSUME InsuredInv, [InsuredNext]_insuredVars
  PROVE  InsuredInv'
<1>1. CASE \E u \in Users : OpenCall(u)
  BY <1>1, OpeningIsInsured
<1>2. CASE \E percent \in FillPercents : FillBadDebt(percent) \/ FillInterest(percent)
  BY <1>2, BadDebtFillIsInsured, InterestFillIsInsured
<1>3. CASE OtherRequest
  BY <1>3, RequestIsInsured
<1>4. CASE CommitCall
  BY <1>4, CommitIsInsured
<1>5. CASE AbortCall
  BY <1>5, AbortIsInsured
<1>6. CASE \E S \in SUBSET Reserves : NewBadDebtAuction(S) \/ NewInterestAuction(S)
  BY <1>6, NewBadDebtIsInsured, NewInterestIsInsured
<1>7. CASE \E kind \in {"badDebt", "interest"} : DeleteStale(kind)
  <2>1. PICK kind \in {"badDebt", "interest"} : DeleteStale(kind)
    BY <1>7
  <2> QED BY <2>1, DeletionIsInsured, Zenon
<1>8. CASE BackstopBadDebt
  BY <1>8, BadDebtIsInsured
<1>9. CASE OtherCall
  BY <1>9, OtherCallIsInsured
<1>10. CASE DepositorCall
  BY <1>10, DepositorIsInsured
<1>11. CASE UNCHANGED insuredVars
  BY <1>11, StutterIsInsured
<1> QED BY <1>1, <1>2, <1>3, <1>4, <1>5, <1>6, <1>7, <1>8, <1>9, <1>10, <1>11
           DEF InsuredNext

(* The books of both contracts, and what an open call sees of them, stay   *)
(* right in every behaviour: fills, panics, defaults in the middle of a    *)
(* call and depositors who come and leave in between.                      *)
THEOREM InsuredInvHolds == InsuredSpec => []InsuredInv
<1>1. InsuredInit => InsuredInv
  BY InitIsInsured
<1>2. InsuredInv /\ [InsuredNext]_insuredVars => InsuredInv'
  BY StepIsInsured
<1> QED BY <1>1, <1>2, PTL DEF InsuredSpec

(* The pool's shares are those of its positions, and it stays solvent,     *)
(* although fills move debt of the backstop, pay interest out before the   *)
(* call's other transfers, and default debt in the middle of a call.       *)
THEOREM InsuredBooksBalance == InsuredSpec => []BooksBalance
<1>1. InsuredInv => BooksBalance
  <2> SUFFICES ASSUME InsuredInv
               PROVE  BooksBalance
    OBVIOUS
  <2>1. IInv /\ SolventInv /\ Matches(res, pos)
    BY DEF InsuredInv, IInv
  <2>2. SharesMatchPositions
    BY <2>1 DEF Matches, SharesMatchPositions
  <2> QED BY <2>1, <2>2, SolventInvIsSolvency DEF BooksBalance
<1> QED BY <1>1, InsuredInvHolds, PTL

(* The debt that is auctioned is the backstop's, the depositors' tokens of *)
(* its lot are there, and the auctioned interest is credited, however long *)
(* it takes until the auction is filled.                                   *)
THEOREM BackstopAuctionsStayCovered == InsuredSpec => []BackstopAuctionsAreCovered
<1>1. InsuredInv => BackstopAuctionsAreCovered
  <2> SUFFICES ASSUME InsuredInv
               PROVE  BackstopAuctionsAreCovered
    OBVIOUS
  <2> DEFINE bad      == bstopAuction.badDebt
             interest == bstopAuction.interest
  <2>1. IInv /\ Insures(poolBal, lp, bstopAuction, LoadedReserves, pos)
    BY DEF InsuredInv
  <2>2. /\ bstopAuction \in BackstopAuctions
        /\ DebtIsBacked(bad, pos[Backstop].liabilities, poolBal[Pool].tokens)
        /\ InterestIsBacked(interest, LoadedReserves)
    BY <2>1 DEF Insures
  <2>3. ASSUME bad # None
        PROVE  /\ \A r \in DOMAIN bad.bid : bad.bid[r] <= pos[Backstop].liabilities[r]
               /\ Held(Spread(bad.bid)) # {} =>
                    bad.lot[BackstopToken] <= poolBal[Pool].tokens
    <3>1. ASSUME NEW r \in Held(Spread(bad.bid))
          PROVE  r \in DOMAIN bad.bid /\ bad.bid[r] > 0
      BY DEF Held, Spread
    <3> QED BY <2>2, <2>3, <3>1 DEF DebtIsBacked
  <2>4. ASSUME interest # None, NEW r \in DOMAIN interest.lot
        PROVE  interest.lot[r] <= Loaded(r).backstop_credit
    <3>1. r \in Reserves
      BY <2>2, <2>4, InterestAuctionTyped
    <3> QED BY <2>2, <2>4, <3>1 DEF InterestIsBacked, LoadedReserves
  <2> QED BY <2>3, <2>4 DEF BackstopAuctionsAreCovered
<1> QED BY <1>1, InsuredInvHolds, PTL

---------------------------------------------------------------------------
(* The two contracts as an open call has made them so far: what each       *)
(* action changes of that view.                                            *)
LEMMA SeenIdle ==
  ASSUME InsuredInv, Idle
  PROVE  /\ side = NoSide /\ PosSeen = pos
         /\ Current.poolBal = poolBal /\ Current.lp = lp /\ Current.auctions = bstopAuction
<1> QED BY DEF InsuredInv, Current, Stored, PosSeen

LEMMA SideIsOpen ==
  ASSUME NEW s \in Sides
  PROVE  s # NoSide
<1>1. s.phase = "open"
  BY DEF Sides
<1> QED BY <1>1 DEF NoSide

LEMMA SeenOpen ==
  ASSUME InsuredInv, ~Idle
  PROVE  Current = side /\ PosSeen = tx.pos /\ SideOK /\ side \in Sides /\ tx \in Txs
<1>1. SideOK /\ side \in Sides
  BY DEF InsuredInv, SideOK
<1>2. tx \in Txs
  BY ViewTyped DEF InsuredInv, IInv
<1> QED BY <1>1, <1>2, SideIsOpen DEF Current, PosSeen

LEMMA SeenIdleNext ==
  ASSUME Idle', side' = NoSide
  PROVE  /\ PosSeen' = pos'
         /\ Current'.poolBal = poolBal' /\ Current'.lp = lp'
         /\ Current'.auctions = bstopAuction'
<1> QED BY DEF Current, Stored, PosSeen

LEMMA SeenOpenNext ==
  ASSUME InsuredInv', ~Idle'
  PROVE  Current' = side' /\ PosSeen' = tx'.pos
<1>1. side' \in Sides
  BY DEF InsuredInv, SideOK
<1>2. side' # NoSide
  BY <1>1, SideIsOpen
<1> QED BY <1>2 DEF Current, PosSeen

(* A fill takes over debt that is still owed, or rm_positions would panic, *)
(* and is paid what the backstop has, or draw would.                       *)
FillIsHonored(percent) ==
  LET a    == Current.auctions.badDebt
      fill == ToFill(a, percent, now)
  IN  a # None /\ now >= a.block /\ Held(Spread(a.bid)) # {} =>
        /\ \A r \in DOMAIN a.bid : fill.bid[r] <= PosSeen[Backstop].liabilities[r]
        /\ MayDraw(Current.poolBal[Pool], Current.lp, fill.lot[BackstopToken])

(* No fill of bad debt, of any part, is refused for what the backstop owes *)
(* or holds, as long as the auction asks for any debt: whatever requests,  *)
(* fills, donations, deposits and withdrawals came in between, in the same *)
(* call or in others.                                                      *)
THEOREM BadDebtFillsAreHonored ==
  InsuredSpec => [](\A percent \in FillPercents : FillIsHonored(percent))
<1>1. ASSUME InsuredInv, NEW percent \in FillPercents
      PROVE  FillIsHonored(percent)
  <2> DEFINE a    == Current.auctions.badDebt
             fill == ToFill(a, percent, now)
             paid == fill.lot[BackstopToken]
             b    == Current.poolBal[Pool]
             owed == PosSeen[Backstop].liabilities
  <2>1. /\ Deposited(Current.poolBal, Current.lp)
        /\ Current.auctions \in BackstopAuctions
        /\ DebtIsBacked(a, owed, b.tokens)
    <3>1. CASE Idle
      BY <1>1, <3>1, SeenIdle DEF InsuredInv, Insures
    <3>2. CASE ~Idle
      BY <1>1, <3>2, SeenOpen DEF SideOK, Insures
    <3> QED BY <3>1, <3>2
  <2>2. owed \in [Reserves -> Nat]
    <3>1. CASE Idle
      <4>1. pos[Backstop] \in Positions
        BY <1>1 DEF InsuredInv, IInv, TypeOK, Holders
      <4> QED BY <1>1, <3>1, <4>1, SeenIdle DEF Positions
    <3>2. CASE ~Idle
      <4>1. tx.pos[Backstop] \in Positions
        BY <1>1, <3>2, ViewTyped DEF InsuredInv, IInv, Holders
      <4> QED BY <1>1, <3>2, <4>1, SeenOpen DEF Positions
    <3> QED BY <3>1, <3>2
  <2>3. now \in Nat /\ percent \in 0..100
    BY <1>1, LendingPoolAssumption DEF InsuredInv, IInv, TypeOK
  <2>4. SUFFICES ASSUME a # None, now >= a.block, Held(Spread(a.bid)) # {}
                 PROVE  /\ \A r \in DOMAIN a.bid : fill.bid[r] <= owed[r]
                        /\ MayDraw(b, Current.lp, paid)
    BY DEF FillIsHonored
  <2>5. a \in BadDebtAuctions
    BY <2>1, <2>4 DEF BackstopAuctions
  <2>6. a.block \in Nat
    BY <2>5 DEF BadDebtAuctions
  <2>7. /\ DOMAIN a.bid \subseteq Reserves /\ a.lot[BackstopToken] \in Nat
        /\ fill.bid \in [DOMAIN a.bid -> Nat] /\ paid \in Nat
        /\ Remaining(a, percent).bid \in [DOMAIN a.bid -> Nat]
        /\ Remaining(a, percent).lot[BackstopToken] \in Nat
        /\ \A r \in DOMAIN a.bid :
             a.bid[r] \in Nat /\ fill.bid[r] + Remaining(a, percent).bid[r] <= a.bid[r]
        /\ paid + Remaining(a, percent).lot[BackstopToken] <= a.lot[BackstopToken]
    <3>1. a.block <= now
      BY <2>3, <2>4, <2>6
    <3> QED BY <2>3, <2>5, <3>1, FilledDebt
  <2> HIDE DEF a, fill, paid, b, owed
  <2>8. ASSUME NEW r \in DOMAIN a.bid
        PROVE  fill.bid[r] <= owed[r]
    <3>1. a.bid[r] <= owed[r]
      BY <2>1, <2>4 DEF DebtIsBacked
    <3> QED BY <2>2, <2>7, <3>1
  <2>9. paid <= b.tokens /\ b.tokens \in Nat
    <3>1. PICK r \in DOMAIN a.bid : a.bid[r] > 0
      <4>1. PICK r \in Held(Spread(a.bid)) : TRUE
        BY <2>4
      <4>2. r \in DOMAIN a.bid /\ a.bid[r] > 0
        BY <4>1 DEF Held, Spread
      <4> QED BY <4>2
    <3>2. a.lot[BackstopToken] <= b.tokens
      BY <2>1, <2>4, <3>1 DEF DebtIsBacked
    <3>3. b.tokens \in Nat
      BY <2>1 DEF Deposited, PoolBalances, b
    <3> QED BY <2>7, <3>2, <3>3
  <2>10. /\ b.shares \in Nat /\ b.q4w \in Nat
         /\ Current.lp \in Nat /\ b.tokens <= Current.lp
    BY <2>1, InsuredPoolAssumption DEF Deposited, PoolBalances, b
  <2>11. MayDraw(b, Current.lp, paid)
    BY <2>7, <2>9, <2>10 DEF MayDraw, L!MayLeave
  <2> QED BY <2>8, <2>11
<1>2. InsuredInv => \A percent \in FillPercents : FillIsHonored(percent)
  BY <1>1
<1> QED BY <1>2, InsuredInvHolds, PTL

(* Opening a call and storing it changes nothing of what it sees.          *)
Unseen == /\ Current'.poolBal = Current.poolBal
          /\ Current'.lp = Current.lp
          /\ Current'.auctions = Current.auctions
          /\ PosSeen'[Backstop] = PosSeen[Backstop]
          /\ UNCHANGED <<now, userBal>>

LEMMA OpeningIsUnseen ==
  ASSUME InsuredInv, NEW u \in Users, OpenCall(u)
  PROVE  Unseen
<1>1. /\ Idle /\ UNCHANGED <<env, book>>
      /\ tx'.phase = "build" /\ tx'.pos[Backstop] = pos[Backstop]
  BY OpeningLoads
<1>2. ~Idle' /\ InsuredInv'
  BY <1>1, OpeningIsInsured DEF Idle
<1>3. side' = Stored /\ UNCHANGED <<now, userBal>>
  BY <1>1 DEF OpenCall, env
<1>4. Current' = Stored /\ PosSeen' = tx'.pos
  BY <1>2, <1>3, SeenOpenNext
<1> QED BY <1>1, <1>3, <1>4, SeenIdle DEF Unseen, Stored

LEMMA CommitIsUnseen ==
  ASSUME InsuredInv, CommitCall
  PROVE  Unseen
<1>1. /\ Commit \/ CommitFlashLoan
      /\ poolBal' = side.poolBal /\ lp' = side.lp /\ bstopAuction' = side.auctions
      /\ side' = NoSide /\ userBal' = userBal
  BY DEF CommitCall, Published
<1>2. ~Idle /\ Settle
  BY <1>1 DEF Commit, CommitFlashLoan, Idle
<1>3. pos' = tx.pos /\ tx' = NoTx /\ now' = now
  BY <1>2 DEF Settle, env
<1>4. Idle'
  BY <1>3 DEF Idle, NoTx
<1> QED BY <1>1, <1>2, <1>3, <1>4, SeenOpen, SeenIdleNext DEF Unseen

(* A request of the pool's own adds at most debt to the backstop.          *)
LEMMA RequestIsSeen ==
  ASSUME InsuredInv, OtherRequest
  PROVE  /\ Current' = Current /\ UNCHANGED <<now, userBal>>
         /\ PosSeen'[Backstop] \in Positions
         /\ \A r \in Reserves : DebtSeen'[r] >= DebtSeen[r]
<1>1. /\ Requests /\ tx' # NoTx
      /\ UNCHANGED <<userBal, side>>
  BY DEF OtherRequest, outside
<1>2. ~Idle /\ IInv
  BY <1>1, RequestsAreOfCalls DEF InsuredInv
<1>3. ~Commit /\ ~CommitFlashLoan /\ ~Abort
  BY <1>1 DEF Commit, CommitFlashLoan, Abort, Settle
<1>4. Untaken /\ UNCHANGED <<env, book>>
  BY <1>1, <1>2, <1>3, OtherRequestsAreUntaken
<1>5. InsuredInv'
  BY RequestIsInsured
<1>6. tx' \in Txs
  BY <1>1, <1>5 DEF InsuredInv, IInv, TypeOK
<1>7. ~Idle'
  BY <1>6 DEF Idle, Txs
<1>8. /\ Current = side /\ PosSeen = tx.pos
      /\ Current' = side' /\ PosSeen' = tx'.pos
  BY <1>2, <1>5, <1>7, SeenOpen, SeenOpenNext
<1>9. PosSeen'[Backstop] \in Positions
  BY <1>6, <1>8 DEF Txs, Holders
<1> QED BY <1>1, <1>4, <1>8, <1>9 DEF Untaken, DebtSeen, env

(* Between calls an action on the pool alone is seen for what it does.     *)
LEMMA QuietIsSeen ==
  ASSUME InsuredInv, Idle, tx' = tx, side' = side
  PROVE  /\ PosSeen = pos /\ Current.poolBal = poolBal /\ Current.lp = lp
         /\ Current.auctions = bstopAuction
         /\ PosSeen' = pos' /\ Current'.poolBal = poolBal' /\ Current'.lp = lp'
         /\ Current'.auctions = bstopAuction'
<1>1. Idle' /\ side' = NoSide
  BY SeenIdle DEF Idle
<1> QED BY <1>1, SeenIdle, SeenIdleNext

(* A fill in an open call, of which another request may follow.            *)
LEMMA FillIsSeen ==
  ASSUME InsuredInv, Building,
         NEW percent \in FillPercents, FillBadDebt(percent) \/ FillInterest(percent)
  PROVE  /\ Current = side /\ PosSeen = tx.pos /\ SideOK /\ side \in Sides /\ tx \in Txs
         /\ Current' = side' /\ PosSeen' = tx'.pos
         /\ UNCHANGED <<now, userBal>>
<1>1. ~Idle
  BY DEF Building, Idle
<1>2. InsuredInv'
  BY BadDebtFillIsInsured, InterestFillIsInsured
<1>3. tx \in Txs
  BY <1>1, SeenOpen
<1>4. ~Idle'
  <2>1. tx'.phase = tx.phase
    BY <1>3 DEF FillBadDebt, FillInterest, Txs
  <2> QED BY <1>1, <2>1 DEF Idle
<1>5. UNCHANGED <<now, userBal>>
  BY DEF FillBadDebt, FillInterest
<1> QED BY <1>1, <1>2, <1>4, <1>5, SeenOpen, SeenOpenNext
---------------------------------------------------------------------------
(* The backstop's ledger.  Every request of an open call is a step of      *)
(* BackstopLedger, on the view of it that the call has.                    *)
LEMMA Flipped ==
  ASSUME NEW x \in BOOLEAN, NEW y \in BOOLEAN, y # x
  PROVE  [p \in {Pool} |-> y]
           = [[p \in {Pool} |-> x] EXCEPT ![Pool] = ~ [p \in {Pool} |-> x][Pool]]
<1>1. CASE x = TRUE
  <2>1. y = FALSE
    BY <1>1
  <2> QED BY <1>1, <2>1
<1>2. CASE x = FALSE
  <2>1. y = TRUE
    BY <1>2
  <2> QED BY <1>2, <2>1
<1> QED BY <1>1, <1>2

LEMMA DebtIsOnlySeen ==
  ASSUME UNCHANGED <<now, userBal>>,
         Current'.poolBal = Current.poolBal, Current'.lp = Current.lp
  PROVE  [Seen!Next]_(Seen!vars)
<1> DEFINE owed == HasLiabilities(PosSeen[Backstop])
           owes == HasLiabilities(PosSeen'[Backstop])
<1>1. owed \in BOOLEAN /\ owes \in BOOLEAN
  BY DEF HasLiabilities
<1>2. CASE owes = owed
  <2>1. [p \in {Pool} |-> owes] = [p \in {Pool} |-> owed]
    <3> HIDE DEF owed, owes
    <3> QED BY <1>2, Zenon
  <2> QED BY <2>1, Zenon DEF Seen!vars
<1>3. CASE owes # owed
  <2>1. [p \in {Pool} |-> owes]
          = [[p \in {Pool} |-> owed] EXCEPT ![Pool] = ~ [p \in {Pool} |-> owed][Pool]]
    <3> HIDE DEF owed, owes
    <3> QED BY <1>1, <1>3, Flipped, Zenon
  <2>2. Seen!DebtChanges(Pool)
    BY <2>1, Zenon DEF Seen!DebtChanges
  <2> QED BY <2>2, Zenon DEF Seen!Next
<1> QED BY <1>2, <1>3

LEMMA DrawIsSeen ==
  ASSUME InsuredInv, NEW percent \in FillPercents, FillBadDebt(percent)
  PROVE  Seen!Next
<1> DEFINE a    == side.auctions.badDebt
           paid == ToFill(a, percent, now).lot[BackstopToken]
           b    == side.poolBal[Pool]
<1>1. /\ Building /\ a # None /\ now >= a.block
      /\ paid > 0 => L!MayLeave(b, paid, 0) /\ paid <= side.lp
  BY DEF FillBadDebt, MayFill, MayDraw
<1>2. /\ Current = side /\ SideOK /\ side \in Sides /\ Current' = side'
      /\ UNCHANGED <<now, userBal>>
  BY <1>1, FillIsSeen
<1>3. /\ side'.poolBal = [side.poolBal EXCEPT ![Pool] = L!Leaving(b, paid, 0)]
      /\ side'.lp = side.lp - paid
  BY <1>2 DEF FillBadDebt, Sides
<1>4. /\ b \in PoolBalances /\ side.lp \in 0..LpSupply /\ side.auctions \in BackstopAuctions
      /\ LpSupply \in Nat
  BY <1>2, InsuredPoolAssumption DEF SideOK, Insures, Deposited
<1>5. paid \in Nat
  <2>1. a \in BadDebtAuctions
    BY <1>1, <1>4 DEF BackstopAuctions
  <2>2. now \in Nat /\ percent \in 0..100
    BY LendingPoolAssumption DEF InsuredInv, IInv, TypeOK
  <2>3. a.block <= now
    BY <1>1, <2>1, <2>2 DEF BadDebtAuctions
  <2> QED BY <2>1, <2>2, <2>3, FilledDebt
<1> HIDE DEF paid
<1>6. /\ paid <= b.tokens /\ 0 <= b.shares /\ 0 <= b.q4w /\ paid <= side.lp
      /\ paid \in 0..LpSupply
  BY <1>1, <1>4, <1>5 DEF L!MayLeave, PoolBalances
<1>7. Seen!MayLeave(b, paid, 0) /\ Seen!Leaving(b, paid, 0) = L!Leaving(b, paid, 0)
  BY <1>6 DEF Seen!MayLeave, Seen!Leaving, L!Leaving
<1>8. \E owes \in BOOLEAN :
        [p \in {Pool} |-> HasLiabilities(PosSeen'[Backstop])]
          = [[p \in {Pool} |-> HasLiabilities(PosSeen[Backstop])] EXCEPT ![Pool] = owes]
  <2>1. HasLiabilities(PosSeen'[Backstop]) \in BOOLEAN
    BY DEF HasLiabilities
  <2> QED BY <2>1
<1>9. Seen!Draw(Pool, paid)
  BY <1>2, <1>3, <1>6, <1>7, <1>8 DEF Seen!Draw
<1> QED BY <1>6, <1>9 DEF Seen!Next

LEMMA DonationIsSeen ==
  ASSUME InsuredInv, NEW percent \in FillPercents, FillInterest(percent)
  PROVE  Seen!Next
<1> DEFINE a    == side.auctions.interest
           gift == ToFill(a, percent, now).bid[BackstopToken]
           b    == side.poolBal[Pool]
           n    == b.tokens + gift
<1>1. /\ Building /\ a # None /\ now >= a.block /\ side.lp + gift <= LpSupply
  BY DEF FillInterest, MayFill
<1>2. /\ Current = side /\ PosSeen = tx.pos /\ SideOK /\ side \in Sides /\ tx \in Txs
      /\ Current' = side' /\ PosSeen' = tx'.pos
      /\ UNCHANGED <<now, userBal>>
  BY <1>1, FillIsSeen
<1>3. /\ b \in PoolBalances /\ side.lp \in 0..LpSupply /\ side.auctions \in BackstopAuctions
      /\ side.poolBal \in [{Pool} -> PoolBalances] /\ LpSupply \in Nat
  BY <1>2, InsuredPoolAssumption DEF SideOK, Insures, Deposited
<1>4. gift \in Nat
  <2>1. a \in InterestAuctions
    BY <1>1, <1>3 DEF BackstopAuctions
  <2>2. now \in Nat /\ percent \in 0..100
    BY LendingPoolAssumption DEF InsuredInv, IInv, TypeOK
  <2>3. a.block <= now
    BY <1>1, <2>1, <2>2 DEF InterestAuctions
  <2> QED BY <2>1, <2>2, <2>3, FilledInterest
<1>5. /\ side' = [Donated(side, gift) EXCEPT !.auctions.interest = Left(Remaining(a, percent))]
      /\ tx'.pos = tx.pos
  BY <1>2 DEF FillInterest, Txs
<1> HIDE DEF gift
<1>6. /\ side'.poolBal = [side.poolBal EXCEPT ![Pool] = [b EXCEPT !.tokens = n]]
      /\ side'.lp = side.lp + gift
  <2> DEFINE nb == [side.poolBal EXCEPT ![Pool] = [b EXCEPT !.tokens = n]]
             nl == side.lp + gift
  <2>1. Donated(side, gift) = [side EXCEPT !.poolBal = nb, !.lp = nl]
    BY DEF Donated
  <2> HIDE DEF nb, nl
  <2>2. side'.poolBal = nb /\ side'.lp = nl
    BY <1>2, <1>5, <2>1 DEF Sides
  <2> QED BY <2>2 DEF nb, nl
<1>7. Seen!Joining(b, gift, 0) = [b EXCEPT !.tokens = n]
  <2>1. b.shares + 0 = b.shares /\ b.shares \in Nat
    BY <1>3 DEF PoolBalances
  <2> QED BY <1>3, <2>1 DEF Seen!Joining, PoolBalances
<1>8. gift \in 0..LpSupply /\ side.lp + gift <= LpSupply
  BY <1>1, <1>3, <1>4
<1>9. Seen!IsPool(Pool, b)
  BY DEF Seen!IsPool
<1>10. Seen!Donate(Pool, gift)
  BY <1>2, <1>5, <1>6, <1>7, <1>8, <1>9 DEF Seen!Donate
<1> QED BY <1>8, <1>10 DEF Seen!Next

(* What both instances of BackstopLedger compute is the same.              *)
LEMMA SameConversions ==
  ASSUME NEW b, NEW a, NEW n
  PROVE  /\ L!ConvertToShares(b, a) = Seen!ConvertToShares(b, a)
         /\ L!ConvertToTokens(b, a) = Seen!ConvertToTokens(b, a)
         /\ L!Joining(b, a, n) = Seen!Joining(b, a, n)
         /\ L!Leaving(b, a, n) = Seen!Leaving(b, a, n)
         /\ L!AddShares(b, n) = Seen!AddShares(b, n)
<1>1. L!ConvertToShares(b, a) = Seen!ConvertToShares(b, a)
  BY Zenon DEF L!ConvertToShares, Seen!ConvertToShares, L!MulFloor, Seen!MulFloor,
               L!FloorDiv, Seen!FloorDiv
<1>2. L!ConvertToTokens(b, a) = Seen!ConvertToTokens(b, a)
  BY Zenon DEF L!ConvertToTokens, Seen!ConvertToTokens, L!MulFloor, Seen!MulFloor,
               L!FloorDiv, Seen!FloorDiv
<1>3. /\ L!Joining(b, a, n) = Seen!Joining(b, a, n)
      /\ L!Leaving(b, a, n) = Seen!Leaving(b, a, n)
      /\ L!AddShares(b, n) = Seen!AddShares(b, n)
  BY Zenon DEF L!Joining, Seen!Joining, L!Leaving, Seen!Leaving, L!AddShares, Seen!AddShares
<1> QED BY <1>1, <1>2, <1>3

LEMMA SameQueues ==
  ASSUME NEW q, NEW a
  PROVE  /\ L!AfterDequeue(q, a) = Seen!AfterDequeue(q, a)
         /\ L!AfterWithdrawal(q, a) = Seen!AfterWithdrawal(q, a)
         /\ L!MayDequeueShares(q, a) <=> Seen!MayDequeueShares(q, a)
         /\ L!MayWithdrawShares(q, a) <=> Seen!MayWithdrawShares(q, a)
<1>1. L!AfterDequeue(q, a) = Seen!AfterDequeue(q, a)
  BY Zenon DEF L!AfterDequeue, Seen!AfterDequeue, L!TakenBack, Seen!TakenBack,
     L!EnoughBack, Seen!EnoughBack, L!Queued, Seen!Queued, L!Total, Seen!Total, L!Rest, Seen!Rest
<1>2. L!AfterWithdrawal(q, a) = Seen!AfterWithdrawal(q, a)
  BY Zenon DEF L!AfterWithdrawal, Seen!AfterWithdrawal, L!TakenFront, Seen!TakenFront,
     L!EnoughFront, Seen!EnoughFront, L!Queued, Seen!Queued, L!Total, Seen!Total,
     L!Rest, Seen!Rest
<1>3. L!MayDequeueShares(q, a) <=> Seen!MayDequeueShares(q, a)
  BY Zenon DEF L!MayDequeueShares, Seen!MayDequeueShares, L!EnoughBack, Seen!EnoughBack,
     L!Queued, Seen!Queued, L!Total, Seen!Total
<1>4. L!MayWithdrawShares(q, a) <=> Seen!MayWithdrawShares(q, a)
  BY Zenon DEF L!MayWithdrawShares, Seen!MayWithdrawShares, L!TakenFront, Seen!TakenFront,
     L!EnoughFront, Seen!EnoughFront, L!Queued, Seen!Queued, L!Total, Seen!Total
<1> QED BY <1>1, <1>2, <1>3, <1>4

(* A call of a depositor is the same call in the ledger that is seen.      *)
LEMMA DepositorIsSeen ==
  ASSUME InsuredInv, DepositorCall
  PROVE  Seen!Next
<1>1. /\ Idle
      /\ UNCHANGED <<now, pos, tx, bstopAuction, side>>
  BY DEF DepositorCall, book
<1>2. PICK a \in LpAmounts :
       \/ \E u \in Depositors : \/ L!Deposit(u, Pool, a)
                                \/ L!QueueWithdrawal(u, Pool, a)
                                \/ L!DequeueWithdrawal(u, Pool, a)
                                \/ L!Withdraw(u, Pool, a)
       \/ L!Donate(Pool, a)
  BY DEF DepositorCall
<1>3. /\ PosSeen = pos /\ Current.poolBal = poolBal /\ Current.lp = lp
      /\ PosSeen' = pos' /\ Current'.poolBal = poolBal' /\ Current'.lp = lp'
  BY <1>1, QuietIsSeen
<1>4. a \in 0..LpSupply
  BY InsuredPoolAssumption
<1> DEFINE owed == [p \in {Pool} |-> HasLiabilities(PosSeen[Backstop])]
           owes == [p \in {Pool} |-> HasLiabilities(PosSeen'[Backstop])]
           b    == poolBal[Pool]
<1>5. owes = owed
  BY <1>1, <1>3, Zenon
<1>6. now' = now
  BY <1>1
<1>7. CASE \E u \in Depositors : L!Deposit(u, Pool, a)
  <2>1. PICK u \in Depositors : L!Deposit(u, Pool, a)
    BY <1>7
  <2> DEFINE minted == L!ConvertToShares(b, a)
  <2>2. /\ lp + a <= LpSupply /\ minted > 0 /\ b.shares + minted <= MaxShares
        /\ poolBal' = [poolBal EXCEPT ![Pool] = L!Joining(b, a, minted)]
        /\ userBal' = [userBal EXCEPT ![Pool][u] = L!AddShares(@, minted)]
        /\ lp' = lp + a
    BY <2>1, Zenon DEF L!Deposit
  <2>3. minted = Seen!ConvertToShares(b, a)
    BY SameConversions, Zenon
  <2>4. L!Joining(b, a, minted) = Seen!Joining(b, a, minted)
    BY SameConversions, Zenon
  <2>5. L!AddShares(userBal[Pool][u], minted) = Seen!AddShares(userBal[Pool][u], minted)
    BY SameConversions, Zenon
  <2>6. Seen!IsPool(Pool, b)
    BY DEF Seen!IsPool
  <2> HIDE DEF minted, b, owed, owes
  <2>7. userBal' = [userBal EXCEPT ![Pool][u] = Seen!AddShares(@, minted)]
    BY <2>2, <2>5
  <2>8. poolBal' = [poolBal EXCEPT ![Pool] = Seen!Joining(b, a, minted)]
    BY <2>2, <2>4
  <2>9. Seen!Deposit(u, Pool, a)
    BY <1>3, <1>5, <1>6, <2>2, <2>3, <2>6, <2>7, <2>8 DEF Seen!Deposit, b, owed, owes
  <2> QED BY <1>4, <2>9 DEF Seen!Next
<1>8. CASE \E u \in Depositors : L!QueueWithdrawal(u, Pool, a)
  <2>1. PICK u \in Depositors : L!QueueWithdrawal(u, Pool, a)
    BY <1>8
  <2> HIDE DEF b, owed, owes
  <2>2. Seen!QueueWithdrawal(u, Pool, a)
    BY <1>3, <1>5, <1>6, <2>1
       DEF L!QueueWithdrawal, Seen!QueueWithdrawal, L!MayQueue, Seen!MayQueue, owed, owes
  <2> QED BY <1>4, <2>2 DEF Seen!Next
<1>9. CASE \E u \in Depositors : L!DequeueWithdrawal(u, Pool, a)
  <2>1. PICK u \in Depositors : L!DequeueWithdrawal(u, Pool, a)
    BY <1>9
  <2> DEFINE q == userBal[Pool][u].q4w
  <2>2. L!AfterDequeue(q, a) = Seen!AfterDequeue(q, a)
    BY SameQueues, Zenon
  <2>3. L!MayDequeueShares(q, a) <=> Seen!MayDequeueShares(q, a)
    BY SameQueues, Zenon
  <2> HIDE DEF b, owed, owes
  <2>4. Seen!DequeueWithdrawal(u, Pool, a)
    BY <1>3, <1>5, <1>6, <2>1, <2>2, <2>3
       DEF L!DequeueWithdrawal, Seen!DequeueWithdrawal, owed, owes
  <2> QED BY <1>4, <2>4 DEF Seen!Next
<1>10. CASE \E u \in Depositors : L!Withdraw(u, Pool, a)
  <2>1. PICK u \in Depositors : L!Withdraw(u, Pool, a)
    BY <1>10
  <2> DEFINE q == userBal[Pool][u].q4w
             t == L!ConvertToTokens(b, a)
  <2>2. /\ ~ [p \in {Pool} |-> HasLiabilities(pos[Backstop])][Pool]
        /\ L!MayWithdrawShares(q, a) /\ t # 0 /\ L!MayLeave(b, t, a) /\ t <= lp
        /\ userBal' = [userBal EXCEPT ![Pool][u].q4w = L!AfterWithdrawal(@, a)]
        /\ poolBal' = [poolBal EXCEPT ![Pool] = L!Leaving(b, t, a)]
        /\ lp' = lp - t
    BY <2>1, Zenon DEF L!Withdraw
  <2>3. t = Seen!ConvertToTokens(b, a)
    BY SameConversions, Zenon
  <2>4. L!Leaving(b, t, a) = Seen!Leaving(b, t, a)
    BY SameConversions, Zenon
  <2>5. L!AfterWithdrawal(q, a) = Seen!AfterWithdrawal(q, a)
    BY SameQueues, Zenon
  <2>6. L!MayWithdrawShares(q, a) <=> Seen!MayWithdrawShares(q, a)
    BY SameQueues, Zenon
  <2>7. L!MayLeave(b, t, a) <=> Seen!MayLeave(b, t, a)
    BY DEF L!MayLeave, Seen!MayLeave
  <2>8. ~ owed[Pool]
    BY <1>3, <2>2
  <2> HIDE DEF b, owed, owes, t
  <2>9. userBal' = [userBal EXCEPT ![Pool][u].q4w = Seen!AfterWithdrawal(@, a)]
    BY <2>2, <2>5
  <2>10. poolBal' = [poolBal EXCEPT ![Pool] = Seen!Leaving(b, t, a)]
    BY <2>2, <2>4
  <2>11. Seen!Withdraw(u, Pool, a)
    BY <1>3, <1>5, <1>6, <2>2, <2>3, <2>6, <2>7, <2>8, <2>9, <2>10
       DEF Seen!Withdraw, b, owed, owes
  <2> QED BY <1>4, <2>11 DEF Seen!Next
<1>11. CASE L!Donate(Pool, a)
  <2>1. L!Joining(b, a, 0) = Seen!Joining(b, a, 0)
    BY SameConversions, Zenon
  <2>2. Seen!IsPool(Pool, b)
    BY DEF Seen!IsPool
  <2> HIDE DEF owed, owes
  <2>3. Seen!Donate(Pool, a)
    BY <1>3, <1>5, <1>6, <1>11, <2>1, <2>2 DEF L!Donate, Seen!Donate, owed, owes
  <2> QED BY <1>4, <2>3 DEF Seen!Next
<1> QED BY <1>2, <1>7, <1>8, <1>9, <1>10, <1>11

(* The pool's calls between which nothing happens in the backstop but that *)
(* its debt comes or goes.                                                 *)
LEMMA QuietIsLedgerStep ==
  ASSUME InsuredInv, Idle, tx' = tx, side' = side,
         UNCHANGED <<now, userBal, poolBal, lp>>
  PROVE  [Seen!Next]_(Seen!vars)
<1>1. Current'.poolBal = Current.poolBal /\ Current'.lp = Current.lp
  BY QuietIsSeen
<1> QED BY <1>1, DebtIsOnlySeen

LEMMA OtherCallIsLedgerStep ==
  ASSUME InsuredInv, OtherCall
  PROVE  [Seen!Next]_(Seen!vars)
<1>1. /\ Idle /\ UNCHANGED <<tx, pos, backstop, outside>>
      /\ now' = now \/ Tick
  BY OtherCallIsQuiet
<1>2. CASE now' = now
  BY <1>1, <1>2, QuietIsLedgerStep DEF outside
<1>3. CASE Tick
  <2>1. /\ PosSeen = pos /\ PosSeen' = pos'
        /\ Current'.poolBal = Current.poolBal /\ Current'.lp = Current.lp
    BY <1>1, QuietIsSeen DEF outside
  <2>2. [p \in {Pool} |-> HasLiabilities(PosSeen'[Backstop])]
          = [p \in {Pool} |-> HasLiabilities(PosSeen[Backstop])]
    BY <1>1, <2>1, Zenon
  <2>3. now < MaxTime /\ now' = now + 1 /\ userBal' = userBal
    BY <1>1, <1>3 DEF Tick, outside
  <2>4. Seen!Tick
    BY <2>1, <2>2, <2>3, Zenon DEF Seen!Tick
  <2> QED BY <2>4 DEF Seen!Next
<1> QED BY <1>1, <1>2, <1>3

LEMMA StepIsLedgerStep ==
  ASSUME InsuredInv, [InsuredNext]_insuredVars
  PROVE  Seen!Next \/ AbortCall \/ UNCHANGED Seen!vars
<1>1. ASSUME NEW u \in Users, OpenCall(u)
      PROVE  [Seen!Next]_(Seen!vars)
  <2>1. Unseen
    BY <1>1, OpeningIsUnseen
  <2> QED BY <2>1, DebtIsOnlySeen DEF Unseen
<1>2. ASSUME OtherRequest
      PROVE  [Seen!Next]_(Seen!vars)
  BY <1>2, RequestIsSeen, DebtIsOnlySeen
<1>3. ASSUME CommitCall
      PROVE  [Seen!Next]_(Seen!vars)
  <2>1. Unseen
    BY <1>3, CommitIsUnseen
  <2> QED BY <2>1, DebtIsOnlySeen DEF Unseen
<1>4. ASSUME NEW S \in SUBSET Reserves, NewBadDebtAuction(S) \/ NewInterestAuction(S)
      PROVE  [Seen!Next]_(Seen!vars)
  <2>1. Idle /\ UNCHANGED <<vars, poolBal, userBal, lp, side>>
    BY <1>4 DEF NewBadDebtAuction, NewInterestAuction
  <2> QED BY <2>1, QuietIsLedgerStep DEF vars, env
<1>5. ASSUME NEW kind \in {"badDebt", "interest"}, DeleteStale(kind)
      PROVE  [Seen!Next]_(Seen!vars)
  <2>1. Idle /\ UNCHANGED <<vars, poolBal, userBal, lp, side>>
    BY <1>5 DEF DeleteStale
  <2> QED BY <2>1, QuietIsLedgerStep DEF vars, env
<1>6. ASSUME BackstopBadDebt
      PROVE  [Seen!Next]_(Seen!vars)
  <2>1. Idle /\ tx' = tx /\ now' = now /\ UNCHANGED outside
    BY <1>6 DEF BackstopBadDebt, DefaultBadDebt, env
  <2> QED BY <2>1, QuietIsLedgerStep DEF outside
<1>7. ASSUME UNCHANGED insuredVars
      PROVE  [Seen!Next]_(Seen!vars)
  <2>1. /\ Current' = Current /\ PosSeen' = PosSeen /\ UNCHANGED <<now, userBal>>
    BY <1>7 DEF Current, Stored, PosSeen, Idle, insuredVars, outside, vars, env, book
  <2> QED BY <2>1, DebtIsOnlySeen
<1> QED BY <1>1, <1>2, <1>3, <1>4, <1>5, <1>6, <1>7, DrawIsSeen, DonationIsSeen,
           DepositorIsSeen, OtherCallIsLedgerStep, Zenon DEF InsuredNext

LEMMA InitIsLedgerInit ==
  ASSUME InsuredInit
  PROVE  Seen!Init
<1>1. InsuredInv /\ Idle
  BY InitIsInsured DEF InsuredInit, Idle, NoTx
<1>2. /\ PosSeen = pos /\ Current.poolBal = poolBal /\ Current.lp = lp
  BY <1>1, SeenIdle
<1>3. [p \in {Pool} |-> HasLiabilities(PosSeen[Backstop])] \in [{Pool} -> BOOLEAN]
  <2>1. HasLiabilities(PosSeen[Backstop]) \in BOOLEAN
    BY DEF HasLiabilities
  <2> QED BY <2>1
<1> QED BY <1>2, <1>3 DEF InsuredInit, Seen!Init

(* What the pool does to the backstop, in the middle of its calls and      *)
(* between them, the backstop offers as a call: whatever depositors, debts *)
(* and liquidations there are and however many requests a call makes.      *)
THEOREM LedgerIsKept == InsuredSpec => KeepsTheLedger
<1>1. InsuredInit => Seen!Init
  BY InitIsLedgerInit
<1>2. InsuredInv /\ [InsuredNext]_insuredVars => [Seen!Next \/ AbortCall]_(Seen!vars)
  BY StepIsLedgerStep
<1> QED BY <1>1, <1>2, InsuredInvHolds, PTL DEF InsuredSpec, KeepsTheLedger
---------------------------------------------------------------------------
(* The waterfall.  What a fill moves, told as the waterfall tells it: of   *)
(* the parts of bid and lot that it fills, at least one moves in full.     *)
LEMMA WholeModifiers ==
  ASSUME NEW n \in Nat
  PROVE  /\ n <= RAMP => BidModifier(n) = SCALAR_7
         /\ n >= RAMP => LotModifier(n) = SCALAR_7
<1>1. RAMP \in Nat \ {0} /\ SCALAR_7 \in Nat \ {0}
  BY AuctionAssumption, ScalarAssumption
<1>2. MulFloor(SCALAR_7, RAMP, RAMP) = SCALAR_7
  BY <1>1, WholeQuotient
<1>3. SCALAR_7 * RAMP = RAMP * SCALAR_7
  BY <1>1
<1>4. (RAMP * SCALAR_7) \div RAMP = SCALAR_7
  BY <1>2, <1>3 DEF MulFloor, FloorDiv
<1> QED BY <1>1, <1>4 DEF BidModifier, LotModifier

LEMMA FilledTerm ==
  ASSUME NEW x \in Nat, NEW percent \in 1..100
  PROVE  /\ MulCeil(x, percent, 100) \in Nat /\ MulCeil(x, percent, 100) <= x
         /\ x > 0 => MulCeil(x, percent, 100) > 0
         /\ MulFloor(x, percent, 100) \in Nat /\ MulFloor(x, percent, 100) <= x
         /\ x > 0 /\ percent < 100 => MulFloor(x, percent, 100) < x
         /\ percent = 100 => MulCeil(x, percent, 100) = x /\ MulFloor(x, percent, 100) = x
<1>1. percent \in Nat /\ 100 \in Nat \ {0} /\ percent \in 0..100
  OBVIOUS
<1>2. /\ MulCeil(x, percent, 100) \in Nat /\ MulCeil(x, percent, 100) <= x
      /\ MulFloor(x, percent, 100) \in Nat /\ MulFloor(x, percent, 100) <= x
  BY <1>1, RoundingOfNat, PartIsLess
<1>3. ASSUME x > 0
      PROVE  /\ MulCeil(x, percent, 100) > 0
             /\ percent < 100 => MulFloor(x, percent, 100) < x
  <2> DEFINE m == x * percent
  <2>1. m \in Int /\ m > 0 /\ (percent < 100 => m < x * 100)
    BY <1>3
  <2> HIDE DEF m
  <2>2. m <= CeilDiv(m, 100) * 100 /\ CeilDiv(m, 100) \in Int
        /\ FloorDiv(m, 100) * 100 <= m /\ FloorDiv(m, 100) \in Int
    BY <2>1, FloorBounds, CeilBounds
  <2>3. CeilDiv(m, 100) > 0 /\ (percent < 100 => FloorDiv(m, 100) < x)
    BY <2>1, <2>2
  <2> QED BY <2>3 DEF MulCeil, MulFloor, m
<1>4. percent = 100 => MulCeil(x, percent, 100) = x /\ MulFloor(x, percent, 100) = x
  BY <1>1, WholeQuotient
<1> QED BY <1>2, <1>3, <1>4

TakenOn(a, percent, block) == Spread(ToFill(a, percent, block).bid)
Filled(a, percent)         == Spread(BidBase(a, percent))
FilledLot(a, percent)      == LotBase(a, percent)[BackstopToken]
PaidOut(a, percent, block) == ToFill(a, percent, block).lot[BackstopToken]

FillsInParts(a, percent, block) ==
  /\ \A r \in Reserves :
       /\ Spread(a.bid)[r] \in Nat
       /\ Filled(a, percent)[r] \in Nat
       /\ Filled(a, percent)[r] <= Spread(a.bid)[r]
       /\ Spread(a.bid)[r] > 0 => Filled(a, percent)[r] > 0
       /\ percent = 100 => Filled(a, percent)[r] = Spread(a.bid)[r]
       /\ TakenOn(a, percent, block)[r] \in Nat
       /\ TakenOn(a, percent, block)[r] <= Filled(a, percent)[r]
       /\ block - a.block <= RAMP =>
            TakenOn(a, percent, block)[r] = Filled(a, percent)[r]
       /\ Spread(Remaining(a, percent).bid)[r]
            = Spread(a.bid)[r] - Filled(a, percent)[r]
  /\ a.lot[BackstopToken] \in Nat
  /\ FilledLot(a, percent) \in Nat
  /\ FilledLot(a, percent) <= a.lot[BackstopToken]
  /\ a.lot[BackstopToken] > 0 /\ percent < 100 =>
       FilledLot(a, percent) < a.lot[BackstopToken]
  /\ percent = 100 => FilledLot(a, percent) = a.lot[BackstopToken]
  /\ PaidOut(a, percent, block) \in Nat
  /\ PaidOut(a, percent, block) <= FilledLot(a, percent)
  /\ block - a.block >= RAMP =>
       PaidOut(a, percent, block) = FilledLot(a, percent)
  /\ Remaining(a, percent).lot[BackstopToken]
       = a.lot[BackstopToken] - FilledLot(a, percent)

LEMMA FillTerms ==
  ASSUME NEW a \in BadDebtAuctions, NEW percent \in 1..100,
         NEW block \in Nat, a.block <= block
  PROVE  FillsInParts(a, percent, block)
<1> DEFINE n  == block - a.block
           bm == BidModifier(n)
           lm == LotModifier(n)
           T  == BackstopToken
<1>1. PICK S \in SUBSET Reserves : a \in [bid : [S -> Nat], lot : Tokens, block : Nat]
  BY DEF BadDebtAuctions
<1>2. /\ a.bid \in [S -> Nat] /\ a.lot \in [{T} -> Nat] /\ a.block \in Nat
      /\ DOMAIN a.bid = S /\ DOMAIN a.lot = {T} /\ a.lot[T] \in Nat
  BY <1>1 DEF Tokens
<1>3. n \in Nat
  BY <1>2
<1>4. /\ SCALAR_7 \in Nat \ {0} /\ bm \in 0..SCALAR_7 /\ lm \in 0..SCALAR_7
      /\ bm \in Nat /\ lm \in Nat
      /\ n <= RAMP => bm = SCALAR_7
      /\ n >= RAMP => lm = SCALAR_7
  BY <1>3, ScalarAssumption, ModifiersAreShares, WholeModifiers
<1>5. /\ BidBase(a, percent) = [x \in S |-> MulCeil(a.bid[x], percent, 100)]
      /\ LotBase(a, percent) = [x \in {T} |-> MulFloor(a.lot[x], percent, 100)]
      /\ ToFill(a, percent, block).bid
           = [x \in S |-> MulCeil(BidBase(a, percent)[x], bm, SCALAR_7)]
      /\ ToFill(a, percent, block).lot
           = [x \in {T} |-> MulFloor(LotBase(a, percent)[x], lm, SCALAR_7)]
      /\ Remaining(a, percent).bid = [x \in S |-> a.bid[x] - BidBase(a, percent)[x]]
      /\ Remaining(a, percent).lot = [x \in {T} |-> a.lot[x] - LotBase(a, percent)[x]]
  BY <1>2 DEF BidBase, LotBase, ToFill, Remaining
<1> HIDE DEF n, bm, lm
<1>6. ASSUME NEW r \in Reserves
      PROVE  /\ Spread(a.bid)[r] \in Nat
             /\ Filled(a, percent)[r] \in Nat
             /\ Filled(a, percent)[r] <= Spread(a.bid)[r]
             /\ Spread(a.bid)[r] > 0 => Filled(a, percent)[r] > 0
             /\ percent = 100 => Filled(a, percent)[r] = Spread(a.bid)[r]
             /\ TakenOn(a, percent, block)[r] \in Nat
             /\ TakenOn(a, percent, block)[r] <= Filled(a, percent)[r]
             /\ n <= RAMP => TakenOn(a, percent, block)[r] = Filled(a, percent)[r]
             /\ Spread(Remaining(a, percent).bid)[r]
                  = Spread(a.bid)[r] - Filled(a, percent)[r]
  <2>1. CASE r \notin S
    <3>1. /\ Spread(a.bid)[r] = 0 /\ Filled(a, percent)[r] = 0
          /\ TakenOn(a, percent, block)[r] = 0 /\ Spread(Remaining(a, percent).bid)[r] = 0
      BY <1>2, <1>5, <2>1 DEF Spread, Filled, TakenOn
    <3> QED BY <3>1
  <2>2. CASE r \in S
    <3> DEFINE x == a.bid[r]
               y == MulCeil(x, percent, 100)
               z == MulCeil(y, bm, SCALAR_7)
    <3>1. x \in Nat
      BY <1>2, <2>2
    <3>2. /\ Spread(a.bid)[r] = x /\ Filled(a, percent)[r] = y
          /\ TakenOn(a, percent, block)[r] = z /\ Spread(Remaining(a, percent).bid)[r] = x - y
      BY <1>2, <1>5, <2>2 DEF Spread, Filled, TakenOn
    <3> HIDE DEF x
    <3>3. /\ y \in Nat /\ y <= x /\ (x > 0 => y > 0) /\ (percent = 100 => y = x)
      BY <3>1, FilledTerm
    <3> HIDE DEF y
    <3>4. z \in Nat /\ z <= y /\ (bm = SCALAR_7 => z = y)
      BY <1>4, <3>3, RoundingOfNat, PartIsLess, WholeQuotient
    <3> QED BY <1>4, <3>1, <3>2, <3>3, <3>4
  <2> QED BY <2>1, <2>2
<1>7. /\ FilledLot(a, percent) \in Nat
      /\ FilledLot(a, percent) <= a.lot[T]
      /\ a.lot[T] > 0 /\ percent < 100 => FilledLot(a, percent) < a.lot[T]
      /\ percent = 100 => FilledLot(a, percent) = a.lot[T]
      /\ PaidOut(a, percent, block) \in Nat
      /\ PaidOut(a, percent, block) <= FilledLot(a, percent)
      /\ n >= RAMP => PaidOut(a, percent, block) = FilledLot(a, percent)
      /\ Remaining(a, percent).lot[T] = a.lot[T] - FilledLot(a, percent)
  <2> DEFINE x == a.lot[T]
             y == MulFloor(x, percent, 100)
             z == MulFloor(y, lm, SCALAR_7)
  <2>1. x \in Nat
    BY <1>2
  <2>2. /\ FilledLot(a, percent) = y /\ PaidOut(a, percent, block) = z
        /\ Remaining(a, percent).lot[T] = x - y
    BY <1>5 DEF FilledLot, PaidOut
  <2> HIDE DEF x
  <2>3. /\ y \in Nat /\ y <= x /\ (x > 0 /\ percent < 100 => y < x) /\ (percent = 100 => y = x)
    BY <2>1, FilledTerm
  <2> HIDE DEF y
  <2>4. z \in Nat /\ z <= y /\ (lm = SCALAR_7 => z = y)
    BY <1>4, <2>3, RoundingOfNat, PartIsLess, WholeQuotient
  <2> QED BY <1>4, <2>1, <2>2, <2>3, <2>4 DEF x
<1> QED BY <1>2, <1>6, <1>7 DEF n, FillsInParts

(* An auction as the waterfall sees it at a block.                         *)
Shown(a, block) ==
  IF a = None THEN W!NoAuction
  ELSE [bid |-> Spread(a.bid), lot |-> a.lot[BackstopToken],
        age |-> MinOf(block - a.block, W!Oldest)]

LEMMA AuctionIsShown ==
  /\ AuctionSeen = Shown(Current.auctions.badDebt, now)
  /\ AuctionSeen' = Shown(Current'.auctions.badDebt, now')
<1>1. AuctionSeen = Shown(Current.auctions.badDebt, now)
  BY Zenon DEF AuctionSeen, Shown, AgeSeen, W!Oldest, W!NoAuction, W!NoDebt, Zero
<1>2. AuctionSeen' = Shown(Current'.auctions.badDebt, now')
  BY Zenon DEF AuctionSeen, Shown, AgeSeen, W!Oldest, W!NoAuction, W!NoDebt, Zero
<1> QED BY <1>1, <1>2

LEMMA BelowIs ==
  ASSUME NEW f \in W!Debts, NEW g
  PROVE  g \in W!Below(f) <=> g \in W!Debts /\ \A r \in Reserves : g[r] <= f[r]
<1> DEFINE U == UNION {0..f[r] : r \in Reserves}
<1>1. W!Debts = [Reserves -> Nat]
  BY DEF W!Debts
<1>2. \A r \in Reserves : f[r] \in Nat
  BY <1>1
<1>3. U \subseteq Nat
  BY <1>2
<1>4. ASSUME g \in W!Below(f)
      PROVE  g \in W!Debts /\ \A r \in Reserves : g[r] <= f[r]
  <2>1. g \in [Reserves -> U] /\ \A r \in Reserves : g[r] <= f[r]
    BY <1>4 DEF W!Below
  <2> HIDE DEF U
  <2> QED BY <1>1, <1>3, <2>1
<1>5. ASSUME g \in W!Debts, \A r \in Reserves : g[r] <= f[r]
      PROVE  g \in W!Below(f)
  <2>1. \A r \in Reserves : g[r] \in 0..f[r]
    BY <1>1, <1>2, <1>5
  <2>2. \A r \in Reserves : g[r] \in U
    BY <2>1
  <2>3. g \in [Reserves -> U]
    <3>1. g = [r \in Reserves |-> g[r]]
      BY <1>1, <1>5
    <3> HIDE DEF U
    <3> QED BY <2>2, <3>1
  <2> QED BY <1>5, <2>3 DEF W!Below
<1> QED BY <1>4, <1>5

(* A bad debt auction is kept only while something of it is left.          *)
IsOpen(auctions) == auctions.badDebt # None => ~IsEmpty(auctions.badDebt)

OpenInv == InsuredInv /\ IsOpen(bstopAuction) /\ IsOpen(Current.auctions)

LEMMA LeftIsOpen ==
  ASSUME NEW rest
  PROVE  Left(rest) # None => ~IsEmpty(Left(rest))
<1> QED BY DEF Left

LEMMA OpenAtStart ==
  ASSUME InsuredInit
  PROVE  OpenInv
<1>1. InsuredInv /\ Idle
  BY InitIsInsured DEF InsuredInit, Idle, NoTx
<1>2. Current.auctions = bstopAuction
  BY <1>1, SeenIdle
<1>3. bstopAuction.badDebt = None
  BY DEF InsuredInit
<1> QED BY <1>1, <1>2, <1>3 DEF OpenInv, IsOpen

(* Between calls.                                                          *)
LEMMA IdleStepIsOpen ==
  ASSUME OpenInv, InsuredInv', Idle, tx' = tx, side' = side,
         bstopAuction'.badDebt = bstopAuction.badDebt \/ IsOpen(bstopAuction')
  PROVE  OpenInv'
<1>1. Current'.auctions = bstopAuction'
  BY QuietIsSeen DEF OpenInv
<1>2. IsOpen(bstopAuction')
  BY DEF OpenInv, IsOpen
<1> QED BY <1>1, <1>2 DEF OpenInv, IsOpen

LEMMA StepIsOpen ==
  ASSUME OpenInv, [InsuredNext]_insuredVars
  PROVE  OpenInv'
<1>1. InsuredInv /\ InsuredInv' /\ IsOpen(bstopAuction) /\ IsOpen(Current.auctions)
  BY StepIsInsured DEF OpenInv
<1>2. ASSUME NEW u \in Users, OpenCall(u)
      PROVE  OpenInv'
  <2>1. Current'.auctions = Current.auctions
    BY <1>1, <1>2, OpeningIsUnseen DEF Unseen
  <2>2. bstopAuction' = bstopAuction
    BY <1>2 DEF OpenCall
  <2> QED BY <1>1, <2>1, <2>2 DEF OpenInv, IsOpen
<1>3. ASSUME NEW percent \in FillPercents, FillBadDebt(percent)
      PROVE  OpenInv'
  <2> DEFINE rest == Remaining(side.auctions.badDebt, percent)
  <2>1. /\ Current' = side' /\ side \in Sides
    BY <1>1, <1>3, FillIsSeen DEF FillBadDebt, MayFill
  <2>2. side'.auctions.badDebt = Left(rest)
    <3> DEFINE l  == Left(rest)
               nb == [side.poolBal EXCEPT ![Pool] = L!Leaving(side.poolBal[Pool],
                        ToFill(side.auctions.badDebt, percent, now).lot[BackstopToken], 0)]
               nl == side.lp - ToFill(side.auctions.badDebt, percent, now).lot[BackstopToken]
               na == [side.auctions EXCEPT !.badDebt = l]
    <3>1. side' = [side EXCEPT !.poolBal = nb, !.lp = nl, !.auctions = na]
      BY <1>3 DEF FillBadDebt
    <3> HIDE DEF nb, nl, l
    <3>2. side.auctions \in BackstopAuctions
      BY <2>1 DEF Sides
    <3>3. na.badDebt = l
      BY <3>2 DEF BackstopAuctions
    <3> HIDE DEF na
    <3>4. side'.auctions = na
      BY <2>1, <3>1 DEF Sides
    <3> QED BY <3>3, <3>4 DEF l
  <2>3. bstopAuction' = bstopAuction
    BY <1>3 DEF FillBadDebt
  <2>4. IsOpen(side'.auctions)
    <3> HIDE DEF rest
    <3> QED BY <2>2, LeftIsOpen DEF IsOpen
  <2> QED BY <1>1, <2>1, <2>3, <2>4 DEF OpenInv, IsOpen
<1>4. ASSUME NEW percent \in FillPercents, FillInterest(percent)
      PROVE  OpenInv'
  <2> DEFINE l  == Left(Remaining(side.auctions.interest, percent))
             d  == Donated(side, ToFill(side.auctions.interest, percent, now).bid[BackstopToken])
             na == [side.auctions EXCEPT !.interest = l]
  <2>1. /\ Current' = side' /\ Current = side /\ side \in Sides
    BY <1>1, <1>4, FillIsSeen DEF FillInterest, MayFill
  <2>2. side'.auctions.badDebt = side.auctions.badDebt
    <3>1. d \in [phase : {"open"}, poolBal : {d.poolBal}, lp : {d.lp},
                 auctions : BackstopAuctions, unbacked : [Reserves -> Nat]]
          /\ d.auctions = side.auctions
      <4> DEFINE gift == ToFill(side.auctions.interest, percent, now).bid[BackstopToken]
                 nb == [side.poolBal EXCEPT ![Pool].tokens = @ + gift]
                 nl == side.lp + gift
      <4>1. d = [side EXCEPT !.poolBal = nb, !.lp = nl]
        BY DEF Donated
      <4> HIDE DEF nb, nl, d
      <4> QED BY <2>1, <4>1 DEF Sides
    <3>2. side' = [d EXCEPT !.auctions = na]
      <4>1. side' = [d EXCEPT !.auctions.interest = l]
        BY <1>4 DEF FillInterest
      <4> HIDE DEF d, l
      <4> QED BY <3>1, <4>1
    <3> HIDE DEF d, l
    <3>3. na.badDebt = side.auctions.badDebt
      BY <2>1 DEF Sides, BackstopAuctions
    <3> HIDE DEF na
    <3>4. side'.auctions = na
      BY <3>1, <3>2
    <3> QED BY <3>3, <3>4
  <2>3. bstopAuction' = bstopAuction
    BY <1>4 DEF FillInterest
  <2> QED BY <1>1, <2>1, <2>2, <2>3 DEF OpenInv, IsOpen
<1>5. ASSUME OtherRequest
      PROVE  OpenInv'
  <2>1. Current' = Current
    BY <1>1, <1>5, RequestIsSeen
  <2>2. bstopAuction' = bstopAuction
    BY <1>5 DEF OtherRequest, outside
  <2> QED BY <1>1, <2>1, <2>2 DEF OpenInv, IsOpen
<1>6. ASSUME CommitCall
      PROVE  OpenInv'
  <2>1. Current'.auctions = Current.auctions
    BY <1>1, <1>6, CommitIsUnseen DEF Unseen
  <2>2. bstopAuction' = side.auctions /\ ~Idle
    BY <1>6 DEF CommitCall, Published, Commit, CommitFlashLoan, Idle
  <2>3. Current = side
    BY <1>1, <2>2, SeenOpen
  <2> QED BY <1>1, <2>1, <2>2, <2>3 DEF OpenInv, IsOpen
<1>7. ASSUME AbortCall
      PROVE  OpenInv'
  <2>1. tx' = NoTx /\ side' = NoSide /\ bstopAuction' = bstopAuction
    BY <1>7 DEF AbortCall
  <2>2. Current'.auctions = bstopAuction'
    BY <2>1, SeenIdleNext DEF Idle, NoTx
  <2> QED BY <1>1, <2>1, <2>2 DEF OpenInv, IsOpen
<1>8. ASSUME NEW S \in SUBSET Reserves, NewBadDebtAuction(S)
      PROVE  OpenInv'
  <2> DEFINE owed == pos[Backstop].liabilities
             bad  == bstopAuction'.badDebt
  <2>1. /\ Idle /\ S # {} /\ S \subseteq Held(owed)
        /\ UNCHANGED <<vars, poolBal, userBal, lp, side>>
    BY <1>8 DEF NewBadDebtAuction
  <2>2. bad.bid = [r \in S |-> owed[r]]
    <3>1. bstopAuction \in BackstopAuctions
      BY <1>1 DEF InsuredInv, Insures
    <3> DEFINE new == Auctioned([r \in S |-> owed[r]],
                        Lps(BadDebtLot(ValueOf([r \in S |-> ToAssetFromDToken(Loaded(r), owed[r])]))))
    <3>2. new.bid = [r \in S |-> owed[r]]
      BY DEF Auctioned
    <3>3. bstopAuction' = [bstopAuction EXCEPT !.badDebt = new]
      BY <1>8 DEF NewBadDebtAuction
    <3> HIDE DEF new
    <3>4. bstopAuction'.badDebt = new
      BY <3>1, <3>3 DEF BackstopAuctions
    <3> QED BY <3>2, <3>4
  <2>3. ~IsEmpty(bad)
    <3>1. PICK r \in S : TRUE
      BY <2>1
    <3>2. owed[r] > 0
      BY <2>1 DEF Held
    <3>3. r \in DOMAIN bad.bid /\ bad.bid[r] # 0
      <4>1. owed[r] \in Nat
        <5>1. pos[Backstop] \in Positions
          BY <1>1 DEF InsuredInv, IInv, TypeOK, Holders
        <5> QED BY <5>1 DEF Positions
      <4> HIDE DEF bad
      <4> QED BY <2>2, <3>2, <4>1
    <3> HIDE DEF bad
    <3> QED BY <3>3 DEF IsEmpty
  <2>4. IsOpen(bstopAuction')
    BY <2>3 DEF IsOpen
  <2>5. tx' = tx /\ side' = side
    BY <2>1 DEF vars
  <2> QED BY <1>1, <2>1, <2>4, <2>5, IdleStepIsOpen
<1>9. ASSUME NEW S \in SUBSET Reserves, NewInterestAuction(S)
      PROVE  OpenInv'
  <2>1. /\ Idle /\ tx' = tx /\ side' = side
    BY <1>9 DEF NewInterestAuction, vars
  <2>2. bstopAuction'.badDebt = bstopAuction.badDebt
    <3>1. bstopAuction \in BackstopAuctions
      BY <1>1 DEF InsuredInv, Insures
    <3>2. \E new : bstopAuction' = [bstopAuction EXCEPT !.interest = new]
      BY <1>9, Zenon DEF NewInterestAuction
    <3> QED BY <3>1, <3>2 DEF BackstopAuctions
  <2> QED BY <1>1, <2>1, <2>2, IdleStepIsOpen
<1>10. ASSUME NEW kind \in {"badDebt", "interest"}, DeleteStale(kind)
       PROVE  OpenInv'
  <2>1. /\ Idle /\ tx' = tx /\ side' = side
        /\ bstopAuction' = [bstopAuction EXCEPT ![kind] = None]
    BY <1>10 DEF DeleteStale, vars
  <2>2. bstopAuction'.badDebt \in {bstopAuction.badDebt, None}
    <3>1. bstopAuction \in BackstopAuctions
      BY <1>1 DEF InsuredInv, Insures
    <3> QED BY <2>1, <3>1 DEF BackstopAuctions
  <2>3. bstopAuction'.badDebt = bstopAuction.badDebt \/ IsOpen(bstopAuction')
    BY <2>2 DEF IsOpen
  <2> QED BY <1>1, <2>1, <2>3, IdleStepIsOpen
<1>11. ASSUME BackstopBadDebt \/ OtherCall \/ DepositorCall
       PROVE  OpenInv'
  <2>1. Idle /\ tx' = tx /\ side' = side /\ bstopAuction' = bstopAuction
    <3>1. CASE BackstopBadDebt
      BY <3>1 DEF BackstopBadDebt, DefaultBadDebt, outside
    <3>2. CASE OtherCall
      BY <3>2, OtherCallIsQuiet DEF outside
    <3>3. CASE DepositorCall
      BY <3>3 DEF DepositorCall
    <3> QED BY <1>11, <3>1, <3>2, <3>3
  <2> QED BY <1>1, <2>1, IdleStepIsOpen
<1>12. ASSUME UNCHANGED insuredVars
       PROVE  OpenInv'
  <2>1. Current' = Current /\ bstopAuction' = bstopAuction
    BY <1>12 DEF Current, Stored, insuredVars, outside, vars
  <2> QED BY <1>1, <2>1 DEF OpenInv, IsOpen
<1> QED BY <1>2, <1>3, <1>4, <1>5, <1>6, <1>7, <1>8, <1>9, <1>10, <1>11, <1>12, Zenon
        DEF InsuredNext

(* The waterfall.  What it promises of its auction follows from its steps  *)
(* alone, whoever takes them.                                              *)
WaterfallInv ==
  /\ DebtSeen \in W!Debts
  /\ TokensSeen \in Nat
  /\ AuctionSeen \in [bid : W!Debts, lot : Nat, age : Int]
  /\ W!AuctionIsCovered

LEMMA WaterfallFillIsCovered ==
  ASSUME WaterfallInv,
         NEW bid \in W!Below(AuctionSeen.bid), NEW lot \in 0..AuctionSeen.lot,
         NEW taken \in W!Below(bid), NEW paid \in 0..lot,
         W!Fill(bid, lot, taken, paid)
  PROVE  WaterfallInv'
<1> DEFINE d    == DebtSeen
           k    == TokensSeen
           b    == AuctionSeen.bid
           n    == AuctionSeen.lot
           rb   == W!MinusDebt(b, bid)
           rl   == n - lot
           rest == [AuctionSeen EXCEPT !.bid = rb, !.lot = rl]
           ends == rest.bid = W!NoDebt /\ rest.lot = 0
           owed == W!MinusDebt(d, taken)
<1>1. /\ paid <= k /\ TokensSeen' = k - paid
      /\ DebtSeen' = IF ends /\ W!UsedUp(k - paid) THEN W!NoDebt ELSE owed
      /\ AuctionSeen' = IF ends THEN W!NoAuction ELSE rest
  BY DEF W!Fill
<1>2. /\ d \in W!Debts /\ k \in Nat /\ b \in W!Debts /\ n \in Nat
      /\ AuctionSeen \in [bid : W!Debts, lot : Nat, age : Int]
      /\ \A a \in Reserves : b[a] <= d[a]
      /\ b # W!NoDebt => n <= k
  BY DEF WaterfallInv, W!AuctionIsCovered
<1>3. \A a \in Reserves : /\ bid[a] \in Nat /\ taken[a] \in Nat
                          /\ bid[a] <= b[a] /\ taken[a] <= bid[a]
  <2>1. bid \in W!Debts /\ \A a \in Reserves : bid[a] <= b[a]
    BY <1>2, BelowIs
  <2>2. taken \in W!Debts /\ \A a \in Reserves : taken[a] <= bid[a]
    BY <2>1, BelowIs
  <2> QED BY <2>1, <2>2 DEF W!Debts
<1>4. lot \in Nat /\ paid \in Nat /\ paid <= lot /\ lot <= n
  BY <1>2
<1> HIDE DEF d, k, b, n
<1>5. /\ \A a \in Reserves : rb[a] = b[a] - bid[a] /\ owed[a] = d[a] - taken[a]
      /\ rb = [a \in Reserves |-> rb[a]] /\ owed = [a \in Reserves |-> owed[a]]
  BY DEF W!MinusDebt
<1> HIDE DEF rb, owed
<1>6. ASSUME NEW a \in Reserves
      PROVE  rb[a] \in Nat /\ owed[a] \in Nat /\ rb[a] <= owed[a]
  <2>1. /\ b[a] \in Nat /\ d[a] \in Nat /\ bid[a] \in Nat /\ taken[a] \in Nat
        /\ bid[a] <= b[a] /\ taken[a] <= bid[a] /\ b[a] <= d[a]
        /\ rb[a] = b[a] - bid[a] /\ owed[a] = d[a] - taken[a]
    BY <1>2, <1>3, <1>5 DEF W!Debts
  <2> QED BY <2>1
<1>7. rb \in W!Debts /\ owed \in W!Debts /\ rl \in Nat /\ k - paid \in Nat
  BY <1>1, <1>2, <1>4, <1>5, <1>6 DEF W!Debts
<1> HIDE DEF rl
<1>8. /\ rest \in [bid : W!Debts, lot : Nat, age : Int]
      /\ rest.bid = rb /\ rest.lot = rl
  BY <1>2, <1>7
<1>9. rb # W!NoDebt => rl <= k - paid
  <2> SUFFICES ASSUME rb # W!NoDebt
               PROVE  rl <= k - paid
    OBVIOUS
  <2>1. b # W!NoDebt
    <3> SUFFICES ASSUME b = W!NoDebt
                 PROVE  rb = W!NoDebt
      OBVIOUS
    <3>1. \A a \in Reserves : rb[a] = 0
      <4> TAKE a \in Reserves
      <4>1. b[a] = 0 /\ bid[a] \in Nat /\ bid[a] <= b[a] /\ rb[a] = b[a] - bid[a]
        BY <1>3, <1>5 DEF W!NoDebt
      <4> QED BY <4>1
    <3> QED BY <1>5, <3>1 DEF W!NoDebt
  <2> QED BY <1>2, <1>4, <2>1 DEF rl
<1>10. W!NoDebt \in W!Debts /\ \A a \in Reserves : W!NoDebt[a] = 0
  BY DEF W!NoDebt, W!Debts
<1>11. /\ W!NoAuction \in [bid : W!Debts, lot : Nat, age : Int]
       /\ W!NoAuction.bid = W!NoDebt
  BY <1>10 DEF W!NoAuction
<1> HIDE DEF rest
<1>12. CASE ends
  <2>1. AuctionSeen' = W!NoAuction /\ DebtSeen' \in W!Debts
    BY <1>1, <1>7, <1>10, <1>12
  <2>2. TokensSeen' \in Nat
    BY <1>1, <1>7
  <2>3. \A a \in Reserves : W!NoAuction.bid[a] <= DebtSeen'[a]
    <3> TAKE a \in Reserves
    <3>1. W!NoAuction.bid[a] = 0 /\ DebtSeen'[a] \in Nat
      BY <1>10, <1>11, <2>1 DEF W!Debts
    <3> QED BY <3>1
  <2> QED BY <1>11, <2>1, <2>2, <2>3 DEF WaterfallInv, W!AuctionIsCovered
<1>13. CASE ~ends
  <2>1. AuctionSeen' = rest /\ DebtSeen' = owed /\ TokensSeen' = k - paid
    BY <1>1, <1>13
  <2> QED BY <1>6, <1>7, <1>8, <1>9, <2>1 DEF WaterfallInv, W!AuctionIsCovered
<1> QED BY <1>12, <1>13

LEMMA WaterfallStepIsCovered ==
  ASSUME WaterfallInv, [W!Next]_(W!vars)
  PROVE  WaterfallInv'
<1> DEFINE A == [bid : W!Debts, lot : Nat, age : Int]
<1>1. /\ DebtSeen \in W!Debts /\ TokensSeen \in Nat /\ AuctionSeen \in A
      /\ \A a \in Reserves : AuctionSeen.bid[a] <= DebtSeen[a]
      /\ AuctionSeen.bid # W!NoDebt => AuctionSeen.lot <= TokensSeen
  BY DEF WaterfallInv, W!AuctionIsCovered
<1>2. LpSupply \in Nat
  BY InsuredPoolAssumption
<1>3. W!NoDebt \in W!Debts /\ \A a \in Reserves : W!NoDebt[a] = 0
  BY DEF W!NoDebt, W!Debts
<1>4. W!NoAuction \in A /\ W!NoAuction.bid = W!NoDebt
  BY <1>3 DEF W!NoAuction
<1>5. CASE W!DebtArrives
  <2>1. PICK more \in W!Debts : DebtSeen \in W!Below(more) /\ DebtSeen' = more
    BY <1>5, Zenon DEF W!DebtArrives
  <2>2. TokensSeen' = TokensSeen /\ AuctionSeen' = AuctionSeen
    BY <1>5 DEF W!DebtArrives
  <2>3. \A a \in Reserves : DebtSeen[a] <= more[a]
    BY <2>1, BelowIs
  <2>4. \A a \in Reserves : AuctionSeen.bid[a] <= more[a]
    <3> TAKE a \in Reserves
    <3>1. /\ AuctionSeen.bid[a] \in Nat /\ DebtSeen[a] \in Nat
          /\ more[a] \in Nat
      BY <1>1, <2>1 DEF W!Debts
    <3> QED BY <1>1, <2>3, <3>1
  <2> QED BY <1>1, <2>1, <2>2, <2>3, <2>4 DEF WaterfallInv, W!AuctionIsCovered
<1>6. CASE W!SomeNewAuction
  <2>1. PICK S \in SUBSET Reserves, lot \in 0..TokensSeen : W!NewAuction(S, lot)
    BY <1>6 DEF W!SomeNewAuction
  <2> DEFINE b == [a \in Reserves |-> IF a \in S THEN DebtSeen[a] ELSE 0]
  <2>2. /\ AuctionSeen' = [bid |-> b, lot |-> lot, age |-> -1]
        /\ DebtSeen' = DebtSeen /\ TokensSeen' = TokensSeen
    BY <2>1 DEF W!NewAuction
  <2>3. b \in W!Debts /\ \A a \in Reserves : b[a] <= DebtSeen[a]
    BY <1>1 DEF W!Debts
  <2>4. lot \in Nat /\ lot <= TokensSeen
    BY <1>1
  <2> HIDE DEF b
  <2> QED BY <1>1, <2>2, <2>3, <2>4 DEF WaterfallInv, W!AuctionIsCovered
<1>7. CASE W!FillInFull
  <2>1. PICK taken \in W!Below(AuctionSeen.bid), paid \in 0..AuctionSeen.lot :
          W!Fill(AuctionSeen.bid, AuctionSeen.lot, taken, paid)
    BY <1>7 DEF W!FillInFull
  <2>2. AuctionSeen.lot \in 0..AuctionSeen.lot
    BY <1>1
  <2>3. AuctionSeen.bid \in W!Below(AuctionSeen.bid)
    <3>1. AuctionSeen.bid \in W!Debts
      BY <1>1
    <3>2. \A a \in Reserves : AuctionSeen.bid[a] <= AuctionSeen.bid[a]
      BY <3>1 DEF W!Debts
    <3> QED BY <3>1, <3>2, BelowIs
  <2> QED BY <2>1, <2>2, <2>3, WaterfallFillIsCovered
<1>8. CASE W!FillInPart
  <2>1. PICK bid \in W!Below(AuctionSeen.bid), lot \in 0..AuctionSeen.lot :
          \E taken \in W!Below(bid), paid \in 0..lot : W!Fill(bid, lot, taken, paid)
    BY <1>8 DEF W!FillInPart
  <2> QED BY <2>1, WaterfallFillIsCovered
<1>9. CASE W!DeleteStale
  <2>1. AuctionSeen' = W!NoAuction /\ DebtSeen' = DebtSeen /\ TokensSeen' = TokensSeen
    BY <1>9 DEF W!DeleteStale
  <2>2. \A a \in Reserves : W!NoAuction.bid[a] <= DebtSeen[a]
    BY <1>1, <1>3, <1>4 DEF W!Debts
  <2> QED BY <1>1, <1>4, <2>1, <2>2 DEF WaterfallInv, W!AuctionIsCovered
<1>10. CASE W!Default
  <2>1. /\ AuctionSeen = W!NoAuction /\ DebtSeen' = W!NoDebt
        /\ TokensSeen' = TokensSeen /\ AuctionSeen' = AuctionSeen
    BY <1>10 DEF W!Default, W!Open
  <2>2. \A a \in Reserves : W!NoAuction.bid[a] <= W!NoDebt[a]
    BY <1>3, <1>4
  <2> QED BY <1>1, <1>3, <1>4, <2>1, <2>2 DEF WaterfallInv, W!AuctionIsCovered
<1>11. CASE W!Deposit
  <2>1. PICK t \in (TokensSeen + 1)..LpSupply : TokensSeen' = t
    BY <1>11 DEF W!Deposit
  <2>2. DebtSeen' = DebtSeen /\ AuctionSeen' = AuctionSeen
    BY <1>11 DEF W!Deposit
  <2>3. t \in Nat /\ TokensSeen <= t
    BY <1>1, <1>2
  <2> QED BY <1>1, <2>1, <2>2, <2>3 DEF WaterfallInv, W!AuctionIsCovered
<1>12. CASE W!Leave
  <2>1. PICK t \in 0..TokensSeen : TokensSeen' = t
    BY <1>12 DEF W!Leave
  <2>2. DebtSeen' = DebtSeen /\ AuctionSeen' = AuctionSeen /\ DebtSeen = W!NoDebt
    BY <1>12 DEF W!Leave, W!MayLeave, W!InDebt
  <2>3. AuctionSeen.bid = W!NoDebt
    <3>1. /\ AuctionSeen.bid \in W!Debts
          /\ \A a \in Reserves : AuctionSeen.bid[a] <= 0
      BY <1>1, <1>3, <2>2
    <3>2. \A a \in Reserves : AuctionSeen.bid[a] = 0
      BY <3>1 DEF W!Debts
    <3> QED BY <3>1, <3>2 DEF W!Debts, W!NoDebt
  <2> QED BY <1>1, <2>1, <2>2, <2>3 DEF WaterfallInv, W!AuctionIsCovered
<1>13. CASE W!Tick
  <2>1. /\ DebtSeen' = DebtSeen /\ TokensSeen' = TokensSeen
        /\ AuctionSeen' = [AuctionSeen EXCEPT !.age = @ + 1]
    BY <1>13 DEF W!Tick
  <2>2. /\ AuctionSeen' \in A
        /\ AuctionSeen'.bid = AuctionSeen.bid /\ AuctionSeen'.lot = AuctionSeen.lot
    BY <1>1, <2>1
  <2> QED BY <1>1, <2>1, <2>2 DEF WaterfallInv, W!AuctionIsCovered
<1>14. CASE UNCHANGED W!vars
  BY <1>1, <1>14 DEF W!vars, WaterfallInv, W!AuctionIsCovered
<1> QED BY <1>5, <1>6, <1>7, <1>8, <1>9, <1>10, <1>11, <1>12, <1>13, <1>14 DEF W!Next

(* Every behaviour that the waterfall allows keeps the debt and the tokens *)
(* of its auction: what is bid is owed, and what is the lot is there.      *)
THEOREM WaterfallKeepsItsAuction == W!Spec => []W!AuctionIsCovered
<1>1. W!Init => WaterfallInv
  <2> SUFFICES ASSUME W!Init
               PROVE  WaterfallInv
    OBVIOUS
  <2>1. /\ DebtSeen \in W!Debts /\ TokensSeen \in 0..LpSupply
        /\ AuctionSeen = W!NoAuction
    BY DEF W!Init
  <2>2. W!NoDebt \in W!Debts /\ \A a \in Reserves : W!NoDebt[a] = 0
    BY DEF W!NoDebt, W!Debts
  <2>3. /\ W!NoAuction \in [bid : W!Debts, lot : Nat, age : Int]
        /\ W!NoAuction.bid = W!NoDebt
    BY <2>2 DEF W!NoAuction
  <2>4. \A a \in Reserves : W!NoAuction.bid[a] <= DebtSeen[a]
    BY <2>1, <2>2, <2>3 DEF W!Debts
  <2> QED BY <2>1, <2>3, <2>4 DEF WaterfallInv, W!AuctionIsCovered
<1>2. WaterfallInv /\ [W!Next]_(W!vars) => WaterfallInv'
  BY WaterfallStepIsCovered
<1>3. WaterfallInv => W!AuctionIsCovered
  BY DEF WaterfallInv
<1> QED BY <1>1, <1>2, <1>3, PTL DEF W!Spec

---------------------------------------------------------------------------
(* Every request of an open call is a step of the waterfall, on the view   *)
(* that the call has.                                                      *)
LEMMA SeenTyped ==
  ASSUME InsuredInv
  PROVE  /\ PosSeen \in [Holders -> Positions] /\ PosSeen[Backstop] \in Positions
         /\ DebtSeen \in W!Debts
         /\ Deposited(Current.poolBal, Current.lp)
         /\ TokensSeen \in 0..LpSupply
         /\ Current.auctions \in BackstopAuctions
         /\ DebtIsBacked(Current.auctions.badDebt, DebtSeen, TokensSeen)
         /\ now \in Nat
<1>1. /\ PosSeen \in [Holders -> Positions]
      /\ Deposited(Current.poolBal, Current.lp)
      /\ Current.auctions \in BackstopAuctions
      /\ DebtIsBacked(Current.auctions.badDebt, DebtSeen, TokensSeen)
  <2>1. CASE Idle
    <3>1. pos \in [Holders -> Positions]
      BY DEF InsuredInv, IInv, TypeOK
    <3>2. Insures(poolBal, lp, bstopAuction, LoadedReserves, pos)
      BY DEF InsuredInv
    <3> QED BY <2>1, <3>1, <3>2, SeenIdle DEF Insures, DebtSeen, TokensSeen
  <2>2. CASE ~Idle
    <3>1. Current = side /\ PosSeen = tx.pos /\ SideOK
      BY <2>2, SeenOpen
    <3>2. tx.pos \in [Holders -> Positions]
      BY <2>2, ViewTyped DEF InsuredInv, IInv
    <3> QED BY <3>1, <3>2 DEF SideOK, Insures, DebtSeen, TokensSeen
  <2> QED BY <2>1, <2>2
<1>2. PosSeen[Backstop] \in Positions
  BY <1>1 DEF Holders
<1>3. DebtSeen \in W!Debts
  BY <1>2 DEF DebtSeen, Positions, W!Debts
<1>4. TokensSeen \in 0..LpSupply
  BY <1>1, InsuredPoolAssumption DEF Deposited, TokensSeen, PoolBalances
<1>5. now \in Nat
  BY DEF InsuredInv, IInv, TypeOK
<1> QED BY <1>1, <1>2, <1>3, <1>4, <1>5

LEMMA NothingOwed ==
  ASSUME NEW p \in Positions
  PROVE  HasLiabilities(p) <=> p.liabilities # W!NoDebt
<1>1. p.liabilities \in [Reserves -> Nat]
  BY DEF Positions
<1>2. ASSUME Held(p.liabilities) = {}
      PROVE  p.liabilities = W!NoDebt
  <2>1. \A r \in Reserves : p.liabilities[r] = 0
    BY <1>1, <1>2 DEF Held
  <2> QED BY <1>1, <2>1 DEF W!NoDebt
<1>3. ASSUME Held(p.liabilities) # {}
      PROVE  p.liabilities # W!NoDebt
  <2>1. PICK r \in Reserves : p.liabilities[r] > 0
    BY <1>3 DEF Held
  <2>2. W!NoDebt[r] = 0
    BY DEF W!NoDebt
  <2> QED BY <2>1, <2>2
<1> QED BY <1>2, <1>3 DEF HasLiabilities

LEMMA NoneIsEmpty == IsEmpty(None)
BY DEF IsEmpty, None

(* An auction that is kept shows as one.                                   *)
LEMMA ShownIsOpen ==
  ASSUME NEW a \in BadDebtAuctions, ~IsEmpty(a), NEW block \in Nat
  PROVE  /\ Shown(a, block) = [bid |-> Spread(a.bid), lot |-> a.lot[BackstopToken],
                               age |-> MinOf(block - a.block, W!Oldest)]
         /\ Shown(a, block) # W!NoAuction
         /\ ~(Spread(a.bid) = W!NoDebt /\ a.lot[BackstopToken] = 0)
<1>1. PICK S \in SUBSET Reserves : a \in [bid : [S -> Nat], lot : Tokens, block : Nat]
  BY DEF BadDebtAuctions
<1>2. /\ a.bid \in [S -> Nat] /\ DOMAIN a.bid = S /\ DOMAIN a.lot = {BackstopToken}
  BY <1>1 DEF Tokens
<1>3. ASSUME Spread(a.bid) = W!NoDebt, a.lot[BackstopToken] = 0
      PROVE  FALSE
  <2>1. \A r \in S : a.bid[r] = 0
    <3> TAKE r \in S
    <3>1. r \in Reserves /\ Spread(a.bid)[r] = 0
      BY <1>3 DEF W!NoDebt
    <3>2. Spread(a.bid)[r] = a.bid[r]
      BY <1>2, <3>1 DEF Spread
    <3> QED BY <3>1, <3>2
  <2> QED BY <1>2, <1>3, <2>1 DEF IsEmpty
<1>4. Shown(a, block) = [bid |-> Spread(a.bid), lot |-> a.lot[BackstopToken],
                         age |-> MinOf(block - a.block, W!Oldest)]
  BY NoneIsEmpty DEF Shown
<1>5. Shown(a, block).bid = Spread(a.bid) /\ Shown(a, block).lot = a.lot[BackstopToken]
  BY <1>4
<1>6. W!NoAuction.bid = W!NoDebt /\ W!NoAuction.lot = 0
  BY DEF W!NoAuction
<1> QED BY <1>3, <1>4, <1>5, <1>6

LEMMA EmptyIsShown ==
  ASSUME NEW a \in BadDebtAuctions, IsEmpty(a)
  PROVE  Spread(a.bid) = W!NoDebt /\ a.lot[BackstopToken] = 0
<1>1. PICK S \in SUBSET Reserves : a \in [bid : [S -> Nat], lot : Tokens, block : Nat]
  BY DEF BadDebtAuctions
<1>2. /\ DOMAIN a.bid = S /\ DOMAIN a.lot = {BackstopToken}
  BY <1>1 DEF Tokens
<1>3. (\A r \in S : a.bid[r] = 0) /\ a.lot[BackstopToken] = 0
  BY <1>2 DEF IsEmpty
<1>4. \A r \in Reserves : Spread(a.bid)[r] = 0
  BY <1>2, <1>3 DEF Spread
<1>5. Spread(a.bid) = [r \in Reserves |-> Spread(a.bid)[r]]
  BY DEF Spread
<1> QED BY <1>3, <1>4, <1>5 DEF W!NoDebt

LEMMA OldestIs == W!Oldest \in Nat /\ W!Oldest > RAMP /\ W!Oldest >= STALE
BY AuctionAssumption DEF W!Oldest

(* What neither debt, tokens nor auction show.                             *)
LEMMA WaterfallUnseen ==
  ASSUME Current'.poolBal = Current.poolBal,
         Current'.auctions.badDebt = Current.auctions.badDebt,
         PosSeen'[Backstop] = PosSeen[Backstop], now' = now
  PROVE  UNCHANGED W!vars
<1>1. AuctionSeen' = AuctionSeen
  BY AuctionIsShown
<1>2. DebtSeen' = DebtSeen /\ TokensSeen' = TokensSeen
  BY DEF DebtSeen, TokensSeen
<1> QED BY <1>1, <1>2 DEF W!vars

LEMMA BadDebtFillIsWaterfallStep ==
  ASSUME OpenInv, NEW percent \in FillPercents, FillBadDebt(percent)
  PROVE  W!Next
<1> DEFINE a     == side.auctions.badDebt
           n     == now - a.block
           paid  == PaidOut(a, percent, now)
           moved == TakenOn(a, percent, now)
           bid   == Filled(a, percent)
           lot   == FilledLot(a, percent)
           left  == Remaining(a, percent)
           D     == DebtSeen
           k     == TokensSeen
           B     == Spread(a.bid)
           N     == a.lot[BackstopToken]
           age   == MinOf(n, W!Oldest)
           owed  == TakenOver(tx.pos, tx.from, moved)[Backstop].liabilities
           c     == L!Leaving(side.poolBal[Pool], paid, 0)
           defaults == IsEmpty(left) /\ DefaultsAt(c)
<1>1. /\ Building /\ a # None /\ now >= a.block
      /\ paid > 0 => L!MayLeave(side.poolBal[Pool], paid, 0)
  BY DEF FillBadDebt, MayFill, MayDraw, PaidOut
<1>2. /\ InsuredInv /\ Current = side /\ PosSeen = tx.pos /\ side \in Sides /\ tx \in Txs
      /\ Current' = side' /\ PosSeen' = tx'.pos /\ now' = now
  BY <1>1, FillIsSeen DEF OpenInv
<1>3. /\ tx.pos \in [Holders -> Positions] /\ tx.pos[Backstop] \in Positions
      /\ D \in W!Debts /\ k \in 0..LpSupply /\ k \in Nat /\ LpSupply \in Nat
      /\ side.auctions \in BackstopAuctions /\ now \in Nat
      /\ side.poolBal \in [{Pool} -> PoolBalances] /\ k = side.poolBal[Pool].tokens
      /\ D = tx.pos[Backstop].liabilities
      /\ percent \in 1..100
  <2>1. k = side.poolBal[Pool].tokens /\ D = tx.pos[Backstop].liabilities
    BY <1>2 DEF TokensSeen, DebtSeen
  <2>2. side.poolBal \in [{Pool} -> PoolBalances]
    BY <1>2 DEF Sides
  <2> QED BY <1>2, <2>1, <2>2, SeenTyped, InsuredPoolAssumption, LendingPoolAssumption
<1>4. a \in BadDebtAuctions /\ a.block \in Nat /\ n \in Nat
  <2>1. a \in BadDebtAuctions
    BY <1>1, <1>3 DEF BackstopAuctions
  <2>2. a.block \in Nat
    BY <2>1 DEF BadDebtAuctions
  <2> QED BY <1>1, <1>3, <2>1, <2>2
<1>5. /\ \A r \in Reserves :
           /\ B[r] \in Nat /\ bid[r] \in Nat /\ bid[r] <= B[r]
           /\ B[r] > 0 => bid[r] > 0
           /\ percent = 100 => bid[r] = B[r]
           /\ moved[r] \in Nat /\ moved[r] <= bid[r]
           /\ n <= RAMP => moved[r] = bid[r]
           /\ Spread(left.bid)[r] = B[r] - bid[r]
      /\ N \in Nat /\ lot \in Nat /\ lot <= N
      /\ N > 0 /\ percent < 100 => lot < N
      /\ percent = 100 => lot = N
      /\ paid \in Nat /\ paid <= lot
      /\ n >= RAMP => paid = lot
      /\ left.lot[BackstopToken] = N - lot
  <2>1. a \in BadDebtAuctions /\ percent \in 1..100 /\ now \in Nat /\ a.block <= now
    BY <1>1, <1>3, <1>4
  <2>2. FillsInParts(a, percent, now)
    BY <2>1, FillTerms
  <2> QED BY <2>2 DEF FillsInParts
<1>6. /\ B = [r \in Reserves |-> B[r]] /\ bid = [r \in Reserves |-> bid[r]]
      /\ moved = [r \in Reserves |-> moved[r]]
      /\ Spread(left.bid) = [r \in Reserves |-> Spread(left.bid)[r]]
  BY DEF Spread, Filled, TakenOn
<1>7. left \in BadDebtAuctions /\ left.block = a.block
  <2>1. percent \in 0..100 /\ a.block <= now
    BY <1>1, <1>3, <1>4
  <2>2. left.block = a.block
    BY DEF Remaining
  <2> QED BY <1>3, <1>4, <2>1, <2>2, FilledDebt
<1>8. AuctionSeen = [bid |-> B, lot |-> N, age |-> age] /\ AuctionSeen # W!NoAuction
  <2>1. ~IsEmpty(a)
    BY <1>1, <1>2 DEF OpenInv, IsOpen
  <2>2. /\ Shown(a, now) = [bid |-> B, lot |-> N, age |-> age]
        /\ Shown(a, now) # W!NoAuction
    BY <1>1, <1>3, <1>4, <2>1, ShownIsOpen
  <2>3. AuctionSeen = Shown(a, now)
    BY <1>2, AuctionIsShown
  <2> QED BY <2>2, <2>3
<1>9. /\ side'.poolBal[Pool] = c /\ side'.auctions.badDebt = Left(left)
      /\ tx'.pos = IF defaults THEN WrittenOff(TakenOver(tx.pos, tx.from, moved))
                   ELSE TakenOver(tx.pos, tx.from, moved)
  <2> DEFINE nb == [side.poolBal EXCEPT ![Pool] = c]
             nl == side.lp - paid
             l  == Left(left)
             na == [side.auctions EXCEPT !.badDebt = l]
             ps == IF defaults THEN WrittenOff(TakenOver(tx.pos, tx.from, moved))
                   ELSE TakenOver(tx.pos, tx.from, moved)
             rs == IF defaults THEN DefaultedIn(tx.res, owed) ELSE tx.res
             ts == tx.touched \cup Held(moved) \cup (IF defaults THEN Held(owed) ELSE {})
             m  == tx.left - 1
  <2>1. /\ side' = [side EXCEPT !.poolBal = nb, !.lp = nl, !.auctions = na]
        /\ tx' = [tx EXCEPT !.res = rs, !.pos = ps, !.touched = ts, !.health = TRUE, !.left = m]
    BY DEF FillBadDebt, PaidOut, TakenOn, WrittenOff
  <2>2. nb[Pool] = c
    BY <1>3
  <2>3. na.badDebt = l
    <3> HIDE DEF l
    <3> QED BY <1>3 DEF BackstopAuctions
  <2> HIDE DEF nb, nl, na, ps, rs, ts, m
  <2>4. side'.poolBal = nb /\ side'.auctions = na
    BY <1>2, <2>1 DEF Sides
  <2>5. tx'.pos = ps
    BY <1>2, <2>1 DEF Txs
  <2> QED BY <2>2, <2>3, <2>4, <2>5 DEF ps
<1> HIDE DEF n, paid, moved, bid, lot, left, B, N, a
<1>10. /\ TokensSeen' = c.tokens /\ c.tokens = k - paid /\ paid <= k /\ k - paid \in 0..LpSupply
  <2>1. TokensSeen' = side'.poolBal[Pool].tokens
    BY <1>2 DEF TokensSeen
  <2>2. c.tokens = k - paid
    BY <1>3 DEF L!Leaving
  <2>3. paid <= k
    BY <1>1, <1>3, <1>5 DEF L!MayLeave
  <2> QED BY <1>3, <1>5, <1>9, <2>1, <2>2, <2>3
<1>11. DefaultsAt(c) <=> W!UsedUp(k - paid)
  <2> DEFINE t == k - paid
  <2>1. t \in 0..LpSupply /\ c.tokens = t
    BY <1>10
  <2> HIDE DEF t
  <2>2. ThresholdOf[t] < DEFAULT_THRESHOLD <=> t < LowTokens
    BY <2>1, InsuredPoolAssumption
  <2>3. DefaultsAt(c) <=> ThresholdOf[t] < DEFAULT_THRESHOLD
    BY <2>1 DEF DefaultsAt, BackstopData
  <2> QED BY <2>2, <2>3 DEF W!UsedUp, t
<1>12. /\ DebtSeen' = IF defaults THEN W!NoDebt ELSE W!MinusDebt(D, moved)
  <2> DEFINE ps == TakenOver(tx.pos, tx.from, moved)
             pb == [tx.pos[Backstop] EXCEPT !.liabilities = Minus(@, moved)]
             wb == [pb EXCEPT !.liabilities = Zero]
  <2>1. tx.from \in Holders /\ tx.from # Backstop /\ Backstop \in Holders
    BY <1>2, LendingPoolAssumption DEF Txs, Holders
  <2>2. ps[Backstop] = pb /\ DOMAIN ps = Holders
    BY <1>3, <2>1 DEF TakenOver
  <2>3. pb.liabilities = Minus(D, moved) /\ wb.liabilities = Zero
    BY <1>3 DEF Positions
  <2> HIDE DEF pb, wb, ps
  <2>4. WrittenOff(ps)[Backstop] = [ps[Backstop] EXCEPT !.liabilities = Zero]
    BY <2>1, <2>2 DEF WrittenOff
  <2>5. WrittenOff(ps)[Backstop] = wb
    BY <2>2, <2>4 DEF wb
  <2>6. DebtSeen' = tx'.pos[Backstop].liabilities
    BY <1>2 DEF DebtSeen
  <2>7. CASE defaults
    BY <1>9, <2>3, <2>5, <2>6, <2>7 DEF ps, Zero, W!NoDebt
  <2>8. CASE ~defaults
    BY <1>9, <2>2, <2>3, <2>6, <2>8 DEF ps, Minus, W!MinusDebt
  <2> QED BY <2>7, <2>8
<1>13. /\ Spread(left.bid) = W!MinusDebt(B, bid)
       /\ IsEmpty(left) <=> W!MinusDebt(B, bid) = W!NoDebt /\ N - lot = 0
  <2>1. Spread(left.bid) = W!MinusDebt(B, bid)
    BY <1>5, <1>6 DEF W!MinusDebt
  <2>2. CASE IsEmpty(left)
    BY <1>5, <1>7, <2>1, <2>2, EmptyIsShown
  <2>3. CASE ~IsEmpty(left)
    BY <1>3, <1>5, <1>7, <2>1, <2>3, ShownIsOpen
  <2> QED BY <2>1, <2>2, <2>3
<1>14. AuctionSeen' = IF IsEmpty(left) THEN W!NoAuction
                      ELSE [bid |-> W!MinusDebt(B, bid), lot |-> N - lot, age |-> age]
  <2>1. AuctionSeen' = Shown(Left(left), now)
    <3>1. AuctionSeen' = Shown(Current'.auctions.badDebt, now')
      BY AuctionIsShown
    <3>2. Current'.auctions.badDebt = Left(left) /\ now' = now
      BY <1>2, <1>9
    <3> QED BY <3>1, <3>2
  <2>2. CASE IsEmpty(left)
    BY <2>1, <2>2 DEF Left, Shown
  <2>3. CASE ~IsEmpty(left)
    <3>1. Shown(left, now) = [bid |-> Spread(left.bid), lot |-> left.lot[BackstopToken],
                              age |-> MinOf(now - left.block, W!Oldest)]
      BY <1>3, <1>7, <2>3, ShownIsOpen
    <3>2. MinOf(now - left.block, W!Oldest) = age
      BY <1>7 DEF n
    <3> HIDE DEF age
    <3> QED BY <1>5, <1>13, <2>1, <2>3, <3>1, <3>2 DEF Left
  <2> QED BY <2>2, <2>3
<1>15. /\ age >= 0
       /\ age <= RAMP => moved = bid
       /\ age >= RAMP => paid = lot
  <2>1. /\ age >= 0 /\ (age <= RAMP => n <= RAMP) /\ (age >= RAMP => n >= RAMP)
    <3>1. n \in Nat /\ RAMP \in Nat
      BY <1>4, AuctionAssumption DEF n
    <3> QED BY <3>1, OldestIs DEF MinOf
  <2>2. ASSUME n <= RAMP
        PROVE  moved = bid
    <3>1. \A r \in Reserves : moved[r] = bid[r]
      BY <1>5, <2>2
    <3> QED BY <1>6, <3>1
  <2> QED BY <1>5, <2>1, <2>2
<1>16. AuctionSeen.bid = B /\ AuctionSeen.lot = N
  BY <1>8
<1>17. W!Fill(bid, lot, moved, paid)
  <2> DEFINE rest == [AuctionSeen EXCEPT !.bid = W!MinusDebt(@, bid), !.lot = @ - lot]
  <2>1. rest = [bid |-> W!MinusDebt(B, bid), lot |-> N - lot, age |-> age]
    <3> DEFINE b == W!MinusDebt(B, bid)
               l == N - lot
    <3>1. rest = [AuctionSeen EXCEPT !.bid = b, !.lot = l]
      BY <1>16
    <3> HIDE DEF b, l, rest, age
    <3>2. rest = [bid |-> b, lot |-> l, age |-> age]
      BY <1>8, <3>1
    <3> QED BY <3>2 DEF b, l
  <2>2. AuctionSeen.age = age
    BY <1>8
  <2> HIDE DEF rest, age
  <2>3. rest.bid = W!MinusDebt(B, bid) /\ rest.lot = N - lot
    BY <2>1
  <2> DEFINE ends == rest.bid = W!NoDebt /\ rest.lot = 0
  <2>4. ends <=> IsEmpty(left)
    BY <1>13, <2>3
  <2>5. AuctionSeen' = IF ends THEN W!NoAuction ELSE rest
    BY <1>14, <2>1, <2>4
  <2>6. DebtSeen' = IF ends /\ W!UsedUp(k - paid) THEN W!NoDebt ELSE W!MinusDebt(D, moved)
    BY <1>11, <1>12, <2>4
  <2>7. /\ W!Open /\ AuctionSeen.age >= 0
        /\ AuctionSeen.age <= RAMP => moved = bid
        /\ AuctionSeen.age >= RAMP => paid = lot
        /\ paid <= k /\ TokensSeen' = k - paid
    BY <1>8, <1>10, <1>15, <2>2 DEF W!Open
  <2> HIDE DEF ends, D, k
  <2> QED BY <2>5, <2>6, <2>7, Zenon DEF W!Fill, rest, ends, D, k
<1>18. /\ B \in W!Debts /\ bid \in W!Debts
       /\ bid \in W!Below(B) /\ moved \in W!Below(bid) /\ moved \in W!Below(B)
  <2>1. B \in W!Debts /\ bid \in W!Debts /\ moved \in W!Debts
    BY <1>5, <1>6 DEF W!Debts
  <2>2. \A r \in Reserves : bid[r] <= B[r] /\ moved[r] <= bid[r] /\ moved[r] <= B[r]
    BY <1>5
  <2> QED BY <2>1, <2>2, BelowIs
<1>19. CASE percent = 100
  <2>1. bid = B /\ lot = N
    <3>1. \A r \in Reserves : bid[r] = B[r]
      BY <1>5, <1>19
    <3> QED BY <1>5, <1>6, <1>19, <3>1
  <2>2. paid \in 0..N
    BY <1>5, <2>1
  <2>3. W!FillInFull
    BY <1>17, <1>18, <1>16, <2>1, <2>2 DEF W!FillInFull
  <2> QED BY <2>3 DEF W!Next
<1>20. CASE percent < 100
  <2>1. /\ \A r \in Reserves : AuctionSeen.bid[r] > 0 => bid[r] > 0
        /\ AuctionSeen.lot > 0 => lot < AuctionSeen.lot
        /\ lot \in 0..AuctionSeen.lot /\ paid \in 0..lot
    BY <1>5, <1>16, <1>20
  <2>2. W!FillInPart
    BY <1>17, <1>18, <1>16, <2>1 DEF W!FillInPart
  <2> QED BY <2>2 DEF W!Next
<1> QED BY <1>3, <1>19, <1>20

(* A donation is a deposit, unless it is of nothing.                       *)
LEMMA InterestFillIsWaterfallStep ==
  ASSUME OpenInv, NEW percent \in FillPercents, FillInterest(percent)
  PROVE  [W!Next]_(W!vars)
<1> DEFINE a    == side.auctions.interest
           gift == ToFill(a, percent, now).bid[BackstopToken]
           b    == side.poolBal[Pool]
<1>1. /\ Building /\ a # None /\ now >= a.block /\ side.lp + gift <= LpSupply
  BY DEF FillInterest, MayFill
<1>2. /\ InsuredInv /\ Current = side /\ PosSeen = tx.pos /\ SideOK /\ side \in Sides
      /\ tx \in Txs /\ Current' = side' /\ PosSeen' = tx'.pos /\ now' = now
  BY <1>1, FillIsSeen DEF OpenInv
<1>3. /\ b \in PoolBalances /\ b.tokens \in Nat /\ b.tokens <= side.lp /\ side.lp \in Nat
      /\ side.auctions \in BackstopAuctions /\ LpSupply \in Nat
  BY <1>2, InsuredPoolAssumption DEF SideOK, Insures, Deposited, PoolBalances
<1>4. gift \in Nat
  <2>1. a \in InterestAuctions
    BY <1>1, <1>3 DEF BackstopAuctions
  <2>2. now \in Nat /\ percent \in 0..100
    BY <1>2, LendingPoolAssumption DEF InsuredInv, IInv, TypeOK
  <2>3. a.block <= now
    BY <1>1, <2>1, <2>2 DEF InterestAuctions
  <2> QED BY <2>1, <2>2, <2>3, FilledInterest
<1>5. /\ side'.poolBal[Pool].tokens = b.tokens + gift
      /\ side'.auctions.badDebt = side.auctions.badDebt
      /\ tx'.pos = tx.pos
  <2> DEFINE l  == Left(Remaining(a, percent))
             n  == b.tokens + gift
             nb == [side.poolBal EXCEPT ![Pool] = [b EXCEPT !.tokens = n]]
             nl == side.lp + gift
             na == [side.auctions EXCEPT !.interest = l]
             d  == Donated(side, gift)
  <2>1. side' = [d EXCEPT !.auctions.interest = l]
    BY DEF FillInterest
  <2>2. d = [side EXCEPT !.poolBal = nb, !.lp = nl]
    BY DEF Donated
  <2>3. nb[Pool].tokens = n
    <3>1. side.poolBal \in [{Pool} -> PoolBalances]
      BY <1>2 DEF Sides
    <3> HIDE DEF n
    <3> QED BY <1>3, <3>1 DEF PoolBalances
  <2>4. na.badDebt = side.auctions.badDebt
    <3> HIDE DEF l
    <3> QED BY <1>3 DEF BackstopAuctions
  <2>5. tx'.pos = tx.pos
    BY <1>2 DEF FillInterest, Txs
  <2> HIDE DEF nb, nl, d, l
  <2>6. d.poolBal = nb /\ d.auctions = side.auctions
        /\ DOMAIN d = {"phase", "poolBal", "lp", "auctions", "unbacked"}
    BY <1>2, <2>2 DEF Sides
  <2>7. side' = [d EXCEPT !.auctions = na]
    BY <2>1, <2>6
  <2> HIDE DEF na
  <2>8. side'.poolBal = nb /\ side'.auctions = na
    BY <2>6, <2>7
  <2> QED BY <2>3, <2>4, <2>5, <2>8
<1> HIDE DEF gift, b
<1>6. /\ DebtSeen' = DebtSeen /\ AuctionSeen' = AuctionSeen
      /\ TokensSeen = b.tokens /\ TokensSeen' = b.tokens + gift
  <2>1. AuctionSeen' = AuctionSeen
    BY <1>2, <1>5, AuctionIsShown
  <2> QED BY <1>2, <1>5, <2>1 DEF DebtSeen, TokensSeen, b
<1>7. CASE gift = 0
  <2>1. UNCHANGED W!vars
    BY <1>3, <1>6, <1>7 DEF W!vars
  <2> QED BY <2>1
<1>8. CASE gift > 0
  <2>1. TokensSeen' \in (TokensSeen + 1)..LpSupply
    BY <1>1, <1>3, <1>4, <1>6, <1>8 DEF gift
  <2>2. W!Deposit
    BY <1>6, <2>1 DEF W!Deposit
  <2> QED BY <2>2 DEF W!Next
<1> QED BY <1>4, <1>7, <1>8

(* Depositors come, and leave while nothing is owed.                       *)
LEMMA DepositorIsWaterfallStep ==
  ASSUME OpenInv, DepositorCall
  PROVE  [W!Next]_(W!vars)
<1>1. /\ InsuredInv /\ Idle
      /\ UNCHANGED <<now, pos, tx, bstopAuction, side>>
  BY DEF OpenInv, DepositorCall, book
<1>2. PICK c \in PoolBalances :
        /\ poolBal' = [poolBal EXCEPT ![Pool] = c]
        /\ lp' \in 0..LpSupply /\ c.tokens <= lp'
        /\ c.tokens >= poolBal[Pool].tokens \/ ~HasLiabilities(pos[Backstop])
  BY <1>1, DepositorMoves
<1>3. /\ PosSeen = pos /\ Current.poolBal = poolBal /\ Current.auctions = bstopAuction
      /\ PosSeen' = pos' /\ Current'.poolBal = poolBal' /\ Current'.auctions = bstopAuction'
  BY <1>1, QuietIsSeen
<1>4. /\ DebtSeen' = DebtSeen /\ AuctionSeen' = AuctionSeen
      /\ TokensSeen = poolBal[Pool].tokens /\ TokensSeen' = poolBal'[Pool].tokens
  <2>1. AuctionSeen' = AuctionSeen
    BY <1>1, <1>3, AuctionIsShown
  <2> QED BY <1>1, <1>3, <2>1 DEF DebtSeen, TokensSeen
<1>5. /\ TokensSeen \in Nat /\ LpSupply \in Nat /\ pos[Backstop] \in Positions
      /\ poolBal \in [{Pool} -> PoolBalances]
  BY <1>1, <1>3, SeenTyped, InsuredPoolAssumption DEF Deposited
<1>6. TokensSeen' = c.tokens /\ c.tokens \in 0..LpSupply
  <2>1. c.tokens \in Nat
    BY DEF PoolBalances
  <2>2. poolBal'[Pool] = c
    BY <1>2, <1>5
  <2> QED BY <1>2, <1>4, <1>5, <2>1, <2>2
<1>7. CASE c.tokens = TokensSeen
  <2>1. UNCHANGED W!vars
    BY <1>4, <1>6, <1>7 DEF W!vars
  <2> QED BY <2>1
<1>8. CASE c.tokens > TokensSeen
  <2>1. TokensSeen' \in (TokensSeen + 1)..LpSupply
    BY <1>5, <1>6, <1>8
  <2>2. W!Deposit
    BY <1>4, <2>1 DEF W!Deposit
  <2> QED BY <2>2 DEF W!Next
<1>9. CASE c.tokens < TokensSeen
  <2>1. ~HasLiabilities(pos[Backstop])
    BY <1>2, <1>4, <1>5, <1>6, <1>9
  <2>2. W!MayLeave
    BY <1>3, <1>5, <2>1, NothingOwed DEF W!MayLeave, W!InDebt, DebtSeen
  <2>3. TokensSeen' \in 0..TokensSeen
    BY <1>5, <1>6, <1>9
  <2>4. W!Leave
    BY <1>4, <2>2, <2>3 DEF W!Leave
  <2> QED BY <2>4 DEF W!Next
<1> QED BY <1>5, <1>6, <1>7, <1>8, <1>9

(* Requests of the pool's own, as liquidations, can leave more debt.       *)
LEMMA RequestIsWaterfallStep ==
  ASSUME OpenInv, OtherRequest
  PROVE  [W!Next]_(W!vars)
<1>1. /\ InsuredInv /\ Current' = Current /\ now' = now
      /\ PosSeen'[Backstop] \in Positions
      /\ \A r \in Reserves : DebtSeen'[r] >= DebtSeen[r]
  BY RequestIsSeen DEF OpenInv
<1>2. AuctionSeen' = AuctionSeen /\ TokensSeen' = TokensSeen
  <2>1. AuctionSeen' = AuctionSeen
    BY <1>1, AuctionIsShown
  <2> QED BY <1>1, <2>1 DEF TokensSeen
<1>3. DebtSeen \in W!Debts /\ DebtSeen' \in W!Debts
  <2>1. DebtSeen' \in W!Debts
    BY <1>1 DEF DebtSeen, Positions, W!Debts
  <2> QED BY <1>1, <2>1, SeenTyped
<1>4. CASE DebtSeen' = DebtSeen
  BY <1>2, <1>4 DEF W!vars
<1>5. CASE DebtSeen' # DebtSeen
  <2> DEFINE more == DebtSeen'
  <2>1. \A r \in Reserves : DebtSeen[r] <= more[r]
    BY <1>1, <1>3 DEF W!Debts
  <2>2. more \in W!Debts
    BY <1>3
  <2> HIDE DEF more
  <2>3. DebtSeen \in W!Below(more)
    BY <1>3, <2>1, <2>2, BelowIs
  <2>4. W!DebtArrives
    BY <1>2, <1>3, <1>5, <2>3, Zenon DEF W!DebtArrives, more
  <2> QED BY <2>4 DEF W!Next
<1> QED BY <1>4, <1>5

LEMMA NewBadDebtIsWaterfallStep ==
  ASSUME OpenInv, NEW S \in SUBSET Reserves, NewBadDebtAuction(S)
  PROVE  W!Next
<1> DEFINE owed   == pos[Backstop].liabilities
           assets == [r \in S |-> ToAssetFromDToken(Loaded(r), owed[r])]
           value  == ValueOf(assets)
           bid    == [r \in S |-> owed[r]]
           lot    == BadDebtLot(value)
           new    == Auctioned(bid, Lps(lot))
           tokens == poolBal[Pool].tokens
<1>1. /\ InsuredInv /\ Idle /\ bstopAuction.badDebt = None
      /\ S # {} /\ S \subseteq Held(owed) /\ tokens > 0
      /\ bstopAuction' = [bstopAuction EXCEPT !.badDebt = new]
      /\ UNCHANGED <<vars, poolBal, userBal, lp, side>>
  BY DEF OpenInv, NewBadDebtAuction
<1>2. /\ IInv /\ TypeOK /\ now \in Nat /\ owed \in [Reserves -> Nat] /\ tokens \in Nat
      /\ \A r \in Reserves : Loaded(r) \in ReserveDatas
  BY <1>1, IdleParts
<1>3. assets \in [S -> Nat]
  BY <1>2, ConversionsOfReserve
<1> HIDE DEF assets
<1>4. TokensWorth(value) \in Nat
  BY <1>2, <1>3, ValueIsNat
<1> HIDE DEF value
<1>5. lot \in 0..tokens
  BY <1>2, <1>4 DEF BadDebtLot, MinOf
<1> HIDE DEF lot
<1>6. tx' = tx /\ side' = side /\ now' = now /\ pos' = pos /\ poolBal' = poolBal
  BY <1>1 DEF vars
<1>7. /\ PosSeen = pos /\ Current.poolBal = poolBal /\ Current.auctions = bstopAuction
      /\ PosSeen' = pos' /\ Current'.poolBal = poolBal' /\ Current'.auctions = bstopAuction'
  BY <1>1, <1>6, QuietIsSeen
<1>8. /\ DebtSeen = owed /\ TokensSeen = tokens /\ DebtSeen' = owed /\ TokensSeen' = tokens
  BY <1>6, <1>7 DEF DebtSeen, TokensSeen
<1>9. AuctionSeen = W!NoAuction
  BY <1>1, <1>7, AuctionIsShown DEF Shown
<1>10. AuctionSeen' = [bid |-> [r \in Reserves |-> IF r \in S THEN owed[r] ELSE 0],
                       lot |-> lot, age |-> -1]
  <2>1. /\ new.bid = bid /\ new.lot[BackstopToken] = lot /\ new.block = now + 1
    BY DEF Auctioned, Lps
  <2>2. bstopAuction \in BackstopAuctions
    BY <1>1 DEF InsuredInv, Insures
  <2>3. Spread(bid) = [r \in Reserves |-> IF r \in S THEN owed[r] ELSE 0]
    <3>1. DOMAIN bid = S /\ \A r \in S : bid[r] = owed[r]
      OBVIOUS
    <3> HIDE DEF bid, owed
    <3> QED BY <3>1 DEF Spread
  <2>4. MinOf(now - (now + 1), W!Oldest) = -1
    BY <1>2, OldestIs DEF MinOf
  <2> HIDE DEF new, bid
  <2>5. bstopAuction'.badDebt = new
    BY <1>1, <2>2 DEF BackstopAuctions
  <2>6. new # None
    <3>1. None.block = 0
      BY DEF None
    <3> QED BY <1>2, <2>1, <3>1
  <2>7. Shown(new, now) = [bid |-> Spread(new.bid), lot |-> new.lot[BackstopToken],
                           age |-> MinOf(now - new.block, W!Oldest)]
    BY <2>6 DEF Shown
  <2>8. AuctionSeen' = Shown(new, now)
    BY <1>6, <1>7, <2>5, AuctionIsShown
  <2> QED BY <2>1, <2>3, <2>4, <2>7, <2>8
<1>11. \A r \in S : owed[r] > 0
  BY <1>1 DEF Held
<1>12. W!NewAuction(S, lot)
  <2> HIDE DEF owed, tokens
  <2> QED BY <1>1, <1>5, <1>8, <1>9, <1>10, <1>11 DEF W!NewAuction, W!Open
<1>13. W!SomeNewAuction
  BY <1>5, <1>8, <1>12 DEF W!SomeNewAuction
<1> QED BY <1>13 DEF W!Next

(* Between calls the waterfall sees the ledger.                            *)
LEMMA WaterfallIdle ==
  ASSUME OpenInv, Idle, tx' = tx, side' = side
  PROVE  /\ PosSeen = pos /\ PosSeen' = pos'
         /\ AuctionSeen = Shown(bstopAuction.badDebt, now)
         /\ AuctionSeen' = Shown(bstopAuction'.badDebt, now')
         /\ Current.poolBal = poolBal /\ Current'.poolBal = poolBal'
<1>1. /\ PosSeen = pos /\ Current.poolBal = poolBal /\ Current.auctions = bstopAuction
      /\ PosSeen' = pos' /\ Current'.poolBal = poolBal' /\ Current'.auctions = bstopAuction'
  BY QuietIsSeen DEF OpenInv
<1> QED BY <1>1, AuctionIsShown

LEMMA NewInterestIsWaterfallStep ==
  ASSUME OpenInv, NEW S \in SUBSET Reserves, NewInterestAuction(S)
  PROVE  UNCHANGED W!vars
<1>1. /\ Idle /\ UNCHANGED <<vars, poolBal, userBal, lp, side>>
  BY DEF NewInterestAuction
<1>2. tx' = tx /\ now' = now /\ pos' = pos /\ side' = side /\ poolBal' = poolBal
  BY <1>1 DEF vars
<1>3. bstopAuction'.badDebt = bstopAuction.badDebt
  <2>1. bstopAuction \in BackstopAuctions
    BY DEF OpenInv, InsuredInv, Insures
  <2>2. \E new : bstopAuction' = [bstopAuction EXCEPT !.interest = new]
    BY Zenon DEF NewInterestAuction
  <2> QED BY <2>1, <2>2 DEF BackstopAuctions
<1> QED BY <1>1, <1>2, <1>3, WaterfallIdle DEF W!vars, DebtSeen, TokensSeen

LEMMA DeletionIsWaterfallStep ==
  ASSUME OpenInv, NEW kind \in {"badDebt", "interest"}, DeleteStale(kind)
  PROVE  [W!Next]_(W!vars)
<1>1. /\ Idle /\ bstopAuction[kind] # None
      /\ bstopAuction[kind].block + STALE <= now
      /\ bstopAuction' = [bstopAuction EXCEPT ![kind] = None]
      /\ UNCHANGED <<vars, poolBal, userBal, lp, side>>
  BY DEF DeleteStale
<1>2. /\ tx' = tx /\ now' = now /\ pos' = pos /\ side' = side /\ poolBal' = poolBal
  BY <1>1 DEF vars
<1>3. /\ bstopAuction \in BackstopAuctions /\ now \in Nat /\ STALE \in Nat
  BY AuctionAssumption DEF OpenInv, InsuredInv, Insures, IInv, TypeOK
<1>4. DebtSeen' = DebtSeen /\ TokensSeen' = TokensSeen
  BY <1>1, <1>2, WaterfallIdle DEF DebtSeen, TokensSeen
<1>5. CASE kind = "interest"
  <2>1. bstopAuction'.badDebt = bstopAuction.badDebt
    BY <1>1, <1>3, <1>5 DEF BackstopAuctions
  <2> QED BY <1>1, <1>2, <1>4, <2>1, WaterfallIdle DEF W!vars
<1>6. CASE kind = "badDebt"
  <2> DEFINE a == bstopAuction.badDebt
             n == now - a.block
  <2>1. a # None /\ a \in BadDebtAuctions /\ a.block + STALE <= now
    BY <1>1, <1>3, <1>6 DEF BackstopAuctions
  <2>2. a.block \in Nat
    BY <2>1 DEF BadDebtAuctions
  <2>3. ~IsEmpty(a)
    BY <2>1 DEF OpenInv, IsOpen
  <2> HIDE DEF a
  <2>4. /\ Shown(a, now) = [bid |-> Spread(a.bid), lot |-> a.lot[BackstopToken],
                            age |-> MinOf(n, W!Oldest)]
        /\ Shown(a, now) # W!NoAuction
    BY <1>3, <2>1, <2>3, ShownIsOpen
  <2>5. MinOf(n, W!Oldest) >= STALE
    <3>1. n \in Nat /\ n >= STALE
      BY <1>3, <2>1, <2>2
    <3> HIDE DEF n
    <3> QED BY <1>3, <3>1, OldestIs DEF MinOf
  <2>6. AuctionSeen = Shown(a, now)
    BY <1>1, <1>2, WaterfallIdle DEF a
  <2>7. AuctionSeen' = W!NoAuction
    <3>1. bstopAuction'.badDebt = None
      BY <1>1, <1>3, <1>6 DEF BackstopAuctions
    <3>2. AuctionSeen' = Shown(None, now)
      BY <1>1, <1>2, <3>1, WaterfallIdle
    <3> QED BY <3>2 DEF Shown
  <2>8. AuctionSeen.age >= STALE
    <3> HIDE DEF n
    <3> QED BY <2>4, <2>5, <2>6
  <2>9. W!DeleteStale
    BY <1>4, <2>4, <2>6, <2>7, <2>8 DEF W!DeleteStale, W!Open
  <2> QED BY <2>9 DEF W!Next
<1> QED BY <1>5, <1>6

(* bad_debt of the backstop, when its tokens are used up.                  *)
LEMMA DefaultIsWaterfallStep ==
  ASSUME OpenInv, BackstopBadDebt
  PROVE  [W!Next]_(W!vars)
<1>1. /\ InsuredInv /\ Idle /\ bstopAuction.badDebt = None
      /\ HasLiabilities(pos[Backstop]) /\ backstop.threshold < DEFAULT_THRESHOLD
      /\ pos' = [pos EXCEPT ![Backstop].liabilities = Zero]
      /\ tx' = tx /\ now' = now /\ UNCHANGED outside
  BY DEF OpenInv, BackstopBadDebt, MayCallBadDebt, DefaultBadDebt, MayDefault, env
<1>2. /\ pos \in [Holders -> Positions] /\ pos[Backstop] \in Positions /\ Backstop \in Holders
      /\ backstop = BackstopData(poolBal[Pool]) /\ TokensSeen \in 0..LpSupply
  <2>1. pos \in [Holders -> Positions] /\ Backstop \in Holders
    BY <1>1 DEF InsuredInv, IInv, TypeOK, Holders
  <2>2. backstop = BackstopData(poolBal[Pool])
    BY <1>1 DEF InsuredInv
  <2> QED BY <1>1, <2>1, <2>2, SeenTyped
<1>3. /\ poolBal' = poolBal /\ bstopAuction' = bstopAuction /\ side' = side
  BY <1>1 DEF outside
<1>4. /\ PosSeen = pos /\ PosSeen' = pos' /\ TokensSeen = poolBal[Pool].tokens
      /\ TokensSeen' = TokensSeen
      /\ AuctionSeen = W!NoAuction /\ AuctionSeen' = AuctionSeen
  BY <1>1, <1>3, WaterfallIdle DEF TokensSeen, Shown
<1>5. pos'[Backstop].liabilities = W!NoDebt
  <2>1. pos'[Backstop] = [pos[Backstop] EXCEPT !.liabilities = Zero]
    BY <1>1, <1>2
  <2>2. pos'[Backstop].liabilities = Zero
    BY <1>2, <2>1 DEF Positions
  <2> QED BY <2>2 DEF Zero, W!NoDebt
<1>6. DebtSeen # W!NoDebt
  BY <1>1, <1>2, <1>4, NothingOwed DEF DebtSeen
<1>7. W!UsedUp(TokensSeen)
  <2> DEFINE t == TokensSeen
  <2>1. ThresholdOf[t] < DEFAULT_THRESHOLD
    BY <1>1, <1>2, <1>4 DEF BackstopData
  <2>2. t \in 0..LpSupply
    BY <1>2
  <2> HIDE DEF t
  <2>3. t < LowTokens
    BY <2>1, <2>2, InsuredPoolAssumption
  <2> QED BY <2>3 DEF W!UsedUp, t
<1>8. DebtSeen' = W!NoDebt
  BY <1>4, <1>5 DEF DebtSeen
<1>9. W!Default
  BY <1>4, <1>6, <1>7, <1>8 DEF W!Default, W!InDebt, W!Open
<1> QED BY <1>9 DEF W!Next

(* Time passes: an auction ages, as far as its age matters.                *)
LEMMA OtherCallIsWaterfallStep ==
  ASSUME OpenInv, OtherCall
  PROVE  [W!Next]_(W!vars)
<1>1. /\ InsuredInv /\ Idle /\ UNCHANGED <<tx, pos, backstop, outside>>
      /\ now' = now \/ Tick
  BY OtherCallIsQuiet DEF OpenInv
<1>2. /\ poolBal' = poolBal /\ bstopAuction' = bstopAuction /\ side' = side
      /\ tx' = tx /\ pos' = pos
  BY <1>1 DEF outside
<1> DEFINE a == bstopAuction.badDebt
<1>3. /\ DebtSeen' = DebtSeen /\ TokensSeen' = TokensSeen
      /\ AuctionSeen = Shown(a, now) /\ AuctionSeen' = Shown(a, now')
  BY <1>1, <1>2, WaterfallIdle DEF DebtSeen, TokensSeen
<1>4. CASE now' = now
  BY <1>3, <1>4 DEF W!vars
<1>5. CASE a = None
  <2>1. AuctionSeen' = AuctionSeen
    BY <1>3, <1>5 DEF Shown
  <2> QED BY <1>3, <2>1 DEF W!vars
<1>6. CASE Tick /\ a # None
  <2> DEFINE n == now - a.block
  <2>1. now \in Nat /\ now' = now + 1
    BY <1>1, <1>6 DEF Tick, InsuredInv, IInv, TypeOK
  <2>2. a \in BadDebtAuctions /\ ~IsEmpty(a) /\ a.block \in Nat
    <3>1. bstopAuction \in BackstopAuctions
      BY <1>1 DEF InsuredInv, Insures
    <3>2. a \in BadDebtAuctions
      BY <1>6, <3>1 DEF BackstopAuctions
    <3>3. a.block \in Nat
      BY <3>2 DEF BadDebtAuctions
    <3>4. ~IsEmpty(a)
      BY <1>6 DEF OpenInv, IsOpen
    <3> QED BY <3>2, <3>3, <3>4
  <2> HIDE DEF a
  <2>3. n \in Int /\ now' - a.block = n + 1
    BY <2>1, <2>2
  <2>4. /\ Shown(a, now) = [bid |-> Spread(a.bid), lot |-> a.lot[BackstopToken],
                            age |-> MinOf(n, W!Oldest)]
        /\ Shown(a, now) # W!NoAuction
    BY <2>1, <2>2, ShownIsOpen
  <2>5. Shown(a, now + 1) = [bid |-> Spread(a.bid), lot |-> a.lot[BackstopToken],
                             age |-> MinOf(n + 1, W!Oldest)]
    <3>1. now + 1 \in Nat /\ (now + 1) - a.block = n + 1
      BY <2>1, <2>2
    <3>2. Shown(a, now + 1) = [bid |-> Spread(a.bid), lot |-> a.lot[BackstopToken],
                               age |-> MinOf((now + 1) - a.block, W!Oldest)]
      BY <2>2, <3>1, ShownIsOpen
    <3> HIDE DEF n
    <3> QED BY <3>1, <3>2
  <2>6. AuctionSeen' = Shown(a, now + 1)
    BY <1>3, <2>1
  <2> HIDE DEF n
  <2>7. CASE n < W!Oldest
    <3>1. MinOf(n, W!Oldest) = n /\ MinOf(n + 1, W!Oldest) = n + 1
      BY <2>3, <2>7, OldestIs DEF MinOf
    <3>2. AuctionSeen.age < W!Oldest /\ AuctionSeen' = [AuctionSeen EXCEPT !.age = @ + 1]
      BY <1>3, <2>4, <2>5, <2>6, <2>7, <3>1
    <3>3. W!Tick
      BY <1>3, <2>4, <3>2 DEF W!Tick, W!Open
    <3> QED BY <3>3 DEF W!Next
  <2>8. CASE ~(n < W!Oldest)
    <3>1. MinOf(n, W!Oldest) = W!Oldest /\ MinOf(n + 1, W!Oldest) = W!Oldest
      BY <2>3, <2>8, OldestIs DEF MinOf
    <3>2. AuctionSeen' = AuctionSeen
      BY <1>3, <2>4, <2>5, <2>6, <3>1
    <3> QED BY <1>3, <3>2 DEF W!vars
  <2> QED BY <2>7, <2>8
<1> QED BY <1>1, <1>4, <1>5, <1>6

LEMMA StepIsWaterfallStep ==
  ASSUME OpenInv, [InsuredNext]_insuredVars
  PROVE  W!Next \/ AbortCall \/ UNCHANGED W!vars
<1>1. ASSUME NEW u \in Users, OpenCall(u)
      PROVE  UNCHANGED W!vars
  BY <1>1, OpeningIsUnseen, WaterfallUnseen DEF OpenInv, Unseen
<1>2. ASSUME CommitCall
      PROVE  UNCHANGED W!vars
  BY <1>2, CommitIsUnseen, WaterfallUnseen DEF OpenInv, Unseen
<1>3. ASSUME UNCHANGED insuredVars
      PROVE  UNCHANGED W!vars
  <2>1. Current' = Current /\ PosSeen' = PosSeen /\ now' = now
    BY <1>3 DEF Current, Stored, PosSeen, Idle, insuredVars, outside, vars, env, book
  <2> QED BY <2>1, WaterfallUnseen
<1> QED BY <1>1, <1>2, <1>3, BadDebtFillIsWaterfallStep, InterestFillIsWaterfallStep,
           RequestIsWaterfallStep, NewBadDebtIsWaterfallStep, NewInterestIsWaterfallStep,
           DeletionIsWaterfallStep, DefaultIsWaterfallStep, OtherCallIsWaterfallStep,
           DepositorIsWaterfallStep, Zenon DEF InsuredNext

LEMMA InitIsWaterfallInit ==
  ASSUME InsuredInit
  PROVE  W!Init
<1>1. InsuredInv /\ Idle
  BY InitIsInsured DEF InsuredInit, Idle, NoTx
<1>2. DebtSeen \in W!Debts /\ TokensSeen \in 0..LpSupply
  BY <1>1, SeenTyped
<1>3. AuctionSeen = W!NoAuction
  <2>1. Current.auctions.badDebt = None
    BY <1>1, SeenIdle DEF InsuredInit
  <2> QED BY <2>1, AuctionIsShown DEF Shown
<1> QED BY <1>2, <1>3 DEF W!Init

THEOREM OpenInvHolds == InsuredSpec => []OpenInv
<1>1. InsuredInit => OpenInv
  BY OpenAtStart
<1>2. OpenInv /\ [InsuredNext]_insuredVars => OpenInv'
  BY StepIsOpen
<1> QED BY <1>1, <1>2, PTL DEF InsuredSpec

(* Every call of the pool and of the backstop, request by request, is a    *)
(* step of the waterfall or none; a panic takes its steps back.  So the    *)
(* depositors pay for bad debt first, the suppliers bear the rest only     *)
(* when the depositors' tokens are used up, and nobody leaves before.      *)
THEOREM WaterfallIsKept == InsuredSpec => KeepsTheWaterfall
<1>1. InsuredInit => W!Init
  BY InitIsWaterfallInit
<1>2. OpenInv /\ [InsuredNext]_insuredVars => [W!Next \/ AbortCall]_(W!vars)
  BY StepIsWaterfallStep
<1> QED BY <1>1, <1>2, OpenInvHolds, PTL DEF InsuredSpec, KeepsTheWaterfall

(* And in every state of both contracts, with an open call or without, the *)
(* auction is covered: what is bid is owed, and what is the lot is there.  *)
THEOREM WaterfallIsCovered == InsuredSpec => []W!AuctionIsCovered
<1>1. InsuredInv => W!AuctionIsCovered
  <2> SUFFICES ASSUME InsuredInv
               PROVE  W!AuctionIsCovered
    OBVIOUS
  <2> DEFINE bad  == Current.auctions.badDebt
             owed == DebtSeen
  <2>1. /\ Current.auctions \in BackstopAuctions
        /\ DebtIsBacked(bad, owed, TokensSeen)
        /\ owed \in [Reserves -> Nat]
    BY SeenTyped DEF W!Debts
  <2>2. AuctionSeen = Shown(bad, now)
    BY AuctionIsShown
  <2>3. CASE bad = None
    <3>1. AuctionSeen.bid = W!NoDebt
      BY <2>2, <2>3 DEF Shown, W!NoAuction
    <3>2. \A a \in Reserves : AuctionSeen.bid[a] <= owed[a]
      BY <2>1, <3>1 DEF W!NoDebt
    <3> QED BY <3>1, <3>2 DEF W!AuctionIsCovered
  <2>4. CASE bad # None
    <3>1. /\ AuctionSeen.bid = Spread(bad.bid)
          /\ AuctionSeen.lot = bad.lot[BackstopToken]
      BY <2>2, <2>4 DEF Shown
    <3>2. \A a \in Reserves : Spread(bad.bid)[a] <= owed[a]
      <4> TAKE a \in Reserves
      <4>1. CASE a \in DOMAIN bad.bid
        BY <2>1, <2>4, <4>1 DEF DebtIsBacked, Spread
      <4>2. CASE a \notin DOMAIN bad.bid
        BY <2>1, <4>2 DEF Spread
      <4> QED BY <4>1, <4>2
    <3>3. ASSUME Spread(bad.bid) # W!NoDebt
          PROVE  bad.lot[BackstopToken] <= TokensSeen
      <4>1. PICK a \in Reserves : Spread(bad.bid)[a] # 0
        BY <3>3 DEF Spread, W!NoDebt
      <4>2. a \in DOMAIN bad.bid /\ bad.bid[a] # 0
        BY <4>1 DEF Spread
      <4>3. bad.bid \in [DOMAIN bad.bid -> Nat]
        BY <2>1, <2>4, BadDebtAuctionTyped
      <4>4. bad.bid[a] > 0
        BY <4>2, <4>3
      <4> QED BY <2>1, <2>4, <4>2, <4>4 DEF DebtIsBacked
    <3> QED BY <3>1, <3>2, <3>3 DEF W!AuctionIsCovered
  <2> QED BY <2>3, <2>4
<1> QED BY <1>1, InsuredInvHolds, PTL
=============================================================================
