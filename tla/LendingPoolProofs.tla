------------------------- MODULE LendingPoolProofs -------------------------
(***************************************************************************)
(* Theorems about LendingPool, for any number of users and reserves, any   *)
(* configuration, prices and interest, and calls of any length.            *)
(*                                                                         *)
(* I. The arithmetic of auctions.                                          *)
(*                                                                         *)
(* II. The inductive invariant, IInv, with one lemma for each action.      *)
(* Neither TypeOK nor SharesMatchPositions is inductive: that a supply of  *)
(* tokens stays at or above 0 rests on its being the sum of the positions, *)
(* and that a commit keeps this sum rests on what the view of an open call *)
(* may differ from the ledger in.  IInv states all of it.                  *)
(*                                                                         *)
(* III. Rates move one way.                                                *)
(*                                                                         *)
(* IV. The pool is solvent in every state: Solvency.  The argument follows *)
(* Claims, the tokens a reserve must hold: bringing a reserve up to date   *)
(* does not raise them, a request raises them by at most the tokens it     *)
(* takes in, less those it takes out, and what a default writes off raises *)
(* them by at most what it adds to `unbacked`.                             *)
(*                                                                         *)
(* V. What the checks of validate_submit are worth: PositionsAreLimited,   *)
(* AuctionsAreCovered, BadDebtNeverRests, PoolCanPay,                      *)
(* RiskierCallsEndHealthy and BorrowingKeepsUtilization.  None of them is  *)
(* inductive, because they are about the end of a call and the checks are  *)
(* made there, on what its requests have accumulated.  SafeInv says what   *)
(* the view of an open call has to satisfy meanwhile: every account but    *)
(* the caller's is as safe as in the ledger, and whatever the caller made  *)
(* worse has left a mark in the checks that are still to be made.          *)
(***************************************************************************)
EXTENDS LendingPool, ReserveProofs, FiniteSetTheorems

---------------------------------------------------------------------------
(* I. What the arithmetic of auctions yields, for every configuration,     *)
(* price and block: amounts that are natural numbers, and parts that are   *)
(* at most the whole.                                                      *)

---------------------------------------------------------------------------
(* The block modifiers are shares.                                         *)
LEMMA ModifiersAreShares ==
  ASSUME NEW n \in Nat
  PROVE  LotModifier(n) \in 0..SCALAR_7 /\ BidModifier(n) \in 0..SCALAR_7
<1>1. SCALAR_7 \in Nat \ {0} /\ RAMP \in Nat \ {0}
  BY ScalarAssumption, AuctionAssumption
<1>2. ASSUME NEW m \in Nat, m <= RAMP
      PROVE  (m * SCALAR_7) \div RAMP \in 0..SCALAR_7
  <2>1. MulFloor(SCALAR_7, m, RAMP) <= SCALAR_7
    BY <1>1, <1>2, PartIsLess
  <2>2. MulFloor(SCALAR_7, m, RAMP) \in Nat
    BY <1>1, RoundingOfNat
  <2>3. SCALAR_7 * m = m * SCALAR_7
    BY <1>1
  <2> QED BY <1>1, <2>1, <2>2, <2>3 DEF MulFloor, FloorDiv
<1>3. LotModifier(n) \in 0..SCALAR_7
  BY <1>1, <1>2 DEF LotModifier
<1>4. BidModifier(n) \in 0..SCALAR_7
  <2>1. CASE n <= RAMP \/ n >= 2 * RAMP
    BY <1>1, <2>1 DEF BidModifier
  <2>2. CASE n > RAMP /\ n < 2 * RAMP
    <3>1. n - RAMP \in Nat /\ n - RAMP <= RAMP
      BY <1>1, <2>2
    <3>2. ((n - RAMP) * SCALAR_7) \div RAMP \in 0..SCALAR_7
      BY <1>2, <3>1
    <3> DEFINE x == ((n - RAMP) * SCALAR_7) \div RAMP
    <3>3. BidModifier(n) = SCALAR_7 - x
      BY <1>1, <2>2 DEF BidModifier
    <3> HIDE DEF x
    <3>4. x \in 0..SCALAR_7
      BY <3>2 DEF x
    <3> QED BY <1>1, <3>3, <3>4
  <2> QED BY <1>1, <2>1, <2>2
<1> QED BY <1>3, <1>4

(* scale_auction, of an auction that has started: a bid of the assets D    *)
(* for a lot of the assets E.                                              *)
LEMMA ScaledSides ==
  ASSUME NEW D, NEW E,
         NEW a, a.bid \in [D -> Nat], a.lot \in [E -> Nat], a.block \in Nat,
         NEW percent \in 0..100, NEW block \in Nat, a.block <= block
  PROVE  /\ ToFill(a, percent, block).bid \in [D -> Nat]
         /\ ToFill(a, percent, block).lot \in [E -> Nat]
         /\ Remaining(a, percent).bid \in [D -> Nat]
         /\ Remaining(a, percent).lot \in [E -> Nat]
         /\ Remaining(a, percent).block = a.block
         /\ \A r \in D :
              ToFill(a, percent, block).bid[r] + Remaining(a, percent).bid[r] <= a.bid[r]
         /\ \A r \in E :
              ToFill(a, percent, block).lot[r] + Remaining(a, percent).lot[r] <= a.lot[r]
<1> DEFINE bid == a.bid
           lot == a.lot
           start == a.block
           n == block - start
           bm == BidModifier(n)
           lm == LotModifier(n)
           bb == BidBase(a, percent)
           lb == LotBase(a, percent)
<1>1. /\ a.bid = bid /\ a.lot = lot /\ a.block = start
      /\ bid \in [D -> Nat] /\ lot \in [E -> Nat]
      /\ start \in Nat /\ start <= block
      /\ DOMAIN bid = D /\ DOMAIN lot = E
  OBVIOUS
<1> HIDE DEF bid, lot, start
<1>2. SCALAR_7 \in Nat \ {0} /\ bm \in 0..SCALAR_7 /\ lm \in 0..SCALAR_7 /\ bm \in Nat /\ lm \in Nat
  <2>1. n \in Nat
    BY <1>1
  <2> QED BY <2>1, ScalarAssumption, ModifiersAreShares
<1>3. /\ \A r \in D : bb[r] = MulCeil(bid[r], percent, 100)
      /\ \A r \in E : lb[r] = MulFloor(lot[r], percent, 100)
  BY <1>1 DEF BidBase, LotBase
<1>4. /\ \A r \in D : bb[r] \in Nat /\ bb[r] <= bid[r]
      /\ \A r \in E : lb[r] \in Nat /\ lb[r] <= lot[r]
  <2>1. percent \in Nat /\ 100 \in Nat \ {0}
    OBVIOUS
  <2>2. ASSUME NEW r \in D
        PROVE  bb[r] \in Nat /\ bb[r] <= bid[r]
    <3>1. bid[r] \in Nat
      BY <1>1
    <3>2. MulCeil(bid[r], percent, 100) \in Nat /\ MulCeil(bid[r], percent, 100) <= bid[r]
      BY <2>1, <3>1, RoundingOfNat, PartIsLess
    <3> QED BY <1>3, <3>2
  <2>3. ASSUME NEW r \in E
        PROVE  lb[r] \in Nat /\ lb[r] <= lot[r]
    <3>1. lot[r] \in Nat
      BY <1>1
    <3>2. MulFloor(lot[r], percent, 100) \in Nat /\ MulFloor(lot[r], percent, 100) <= lot[r]
      BY <2>1, <3>1, RoundingOfNat, PartIsLess
    <3> QED BY <1>3, <3>2
  <2> QED BY <2>2, <2>3
<1> DEFINE fill == ToFill(a, percent, block)
           rest == Remaining(a, percent)
<1>5. /\ fill.bid = [r \in D |-> MulCeil(bb[r], bm, SCALAR_7)]
      /\ fill.lot = [r \in E |-> MulFloor(lb[r], lm, SCALAR_7)]
  BY <1>1 DEF ToFill
<1>6. /\ rest.bid = [r \in D |-> bid[r] - bb[r]]
      /\ rest.lot = [r \in E |-> lot[r] - lb[r]]
      /\ rest.block = start
  BY <1>1 DEF Remaining
<1> HIDE DEF bm, lm, bb, lb, fill, rest
<1>7. /\ \A r \in D : MulCeil(bb[r], bm, SCALAR_7) \in Nat /\ MulCeil(bb[r], bm, SCALAR_7) <= bb[r]
      /\ \A r \in E : MulFloor(lb[r], lm, SCALAR_7) \in Nat /\ MulFloor(lb[r], lm, SCALAR_7) <= lb[r]
  BY <1>2, <1>4, RoundingOfNat, PartIsLess
<1>8. /\ \A r \in D : bid[r] - bb[r] \in Nat
      /\ \A r \in E : lot[r] - lb[r] \in Nat
  BY <1>1, <1>4
<1>9. /\ fill.bid \in [D -> Nat] /\ fill.lot \in [E -> Nat]
      /\ rest.bid \in [D -> Nat] /\ rest.lot \in [E -> Nat]
  BY <1>5, <1>6, <1>7, <1>8
<1>10. ASSUME NEW r \in D
       PROVE  fill.bid[r] + rest.bid[r] <= bid[r]
  <2>1. fill.bid[r] <= bb[r] /\ rest.bid[r] = bid[r] - bb[r]
    BY <1>5, <1>6, <1>7
  <2>2. fill.bid[r] \in Nat /\ bid[r] \in Nat /\ bb[r] \in Nat
    BY <1>1, <1>4, <1>9
  <2> QED BY <2>1, <2>2
<1>11. ASSUME NEW r \in E
       PROVE  fill.lot[r] + rest.lot[r] <= lot[r]
  <2>1. fill.lot[r] <= lb[r] /\ rest.lot[r] = lot[r] - lb[r]
    BY <1>5, <1>6, <1>7
  <2>2. fill.lot[r] \in Nat /\ lot[r] \in Nat /\ lb[r] \in Nat
    BY <1>1, <1>4, <1>9
  <2> QED BY <2>1, <2>2
<1> QED BY <1>6, <1>9, <1>10, <1>11 DEF fill, rest, bid, lot, start

(* Of an auction of the pool's assets that has started, a fill moves at    *)
(* most what is there, and what it leaves is what it did not take the base *)
(* of.                                                                     *)
THEOREM ScaledAuction ==
  ASSUME NEW a, a.bid \in [Reserves -> Nat], a.lot \in [Reserves -> Nat], a.block \in Nat,
         NEW percent \in 0..100, NEW block \in Nat, a.block <= block
  PROVE  /\ ToFill(a, percent, block).bid \in [Reserves -> Nat]
         /\ ToFill(a, percent, block).lot \in [Reserves -> Nat]
         /\ Remaining(a, percent).bid \in [Reserves -> Nat]
         /\ Remaining(a, percent).lot \in [Reserves -> Nat]
         /\ Remaining(a, percent).block = a.block
         /\ \A r \in Reserves :
              /\ ToFill(a, percent, block).bid[r] + Remaining(a, percent).bid[r] <= a.bid[r]
              /\ ToFill(a, percent, block).lot[r] + Remaining(a, percent).lot[r] <= a.lot[r]
<1>1. /\ ToFill(a, percent, block).bid \in [Reserves -> Nat]
      /\ ToFill(a, percent, block).lot \in [Reserves -> Nat]
      /\ Remaining(a, percent).bid \in [Reserves -> Nat]
      /\ Remaining(a, percent).lot \in [Reserves -> Nat]
      /\ Remaining(a, percent).block = a.block
      /\ \A r \in Reserves :
           ToFill(a, percent, block).bid[r] + Remaining(a, percent).bid[r] <= a.bid[r]
      /\ \A r \in Reserves :
           ToFill(a, percent, block).lot[r] + Remaining(a, percent).lot[r] <= a.lot[r]
  BY ONLY a.bid \in [Reserves -> Nat], a.lot \in [Reserves -> Nat], a.block \in Nat,
          percent \in 0..100, block \in Nat, a.block <= block, ScaledSides, Zenon
<1> QED BY Zenon, <1>1

---------------------------------------------------------------------------
(* Roundings keep order.                                                   *)
LEMMA ProductOrder ==
  ASSUME NEW a \in Nat, NEW b \in Nat, NEW c \in Nat, a <= b
  PROVE  a * c \in Nat /\ b * c \in Nat /\ a * c <= b * c
<1>1. b * c = a * c + (b - a) * c /\ (b - a) * c \in Nat
  BY SMT
<1> QED BY <1>1, SMT

LEMMA CancelFactor ==
  ASSUME NEW a \in Nat, NEW b \in Nat, NEW c \in Nat \ {0}, a * c <= b * c
  PROVE  a <= b
<1>1. ASSUME b < a
      PROVE  FALSE
  <2>1. a * c = b * c + (a - b) * c /\ (a - b) * c > 0 /\ b * c \in Nat
    BY <1>1, SMT
  <2> QED BY <2>1
<1> QED BY <1>1

LEMMA RoundingOrder ==
  ASSUME NEW x \in Nat, NEW a \in Nat, NEW b \in Nat, a <= b, NEW s \in Nat \ {0}
  PROVE  MulFloor(x, a, s) <= MulFloor(x, b, s) /\ MulCeil(x, a, s) <= MulCeil(x, b, s)
<1>1. x * a \in Nat /\ x * b \in Nat /\ x * a <= x * b
  <2>1. a * x \in Nat /\ b * x \in Nat /\ a * x <= b * x
    BY ProductOrder
  <2>2. a * x = x * a /\ b * x = x * b
    OBVIOUS
  <2> QED BY <2>1, <2>2
<1> DEFINE m == x * a
           n == x * b
<1>2. m \in Nat /\ n \in Nat /\ m <= n
  BY <1>1
<1> HIDE DEF m, n
<1>3. FloorDiv(m, s) <= FloorDiv(n, s)
  <2>1. FloorDiv(m, s) \in Int /\ FloorDiv(m, s) * s \in Int /\ FloorDiv(m, s) * s <= m
    BY <1>2, FloorBounds
  <2>2. FloorDiv(m, s) * s <= n
    BY <1>2, <2>1
  <2> QED BY <1>2, <2>1, <2>2, FloorIsGreatest
<1>4. CeilDiv(m, s) <= CeilDiv(n, s)
  <2>1. CeilDiv(n, s) \in Int /\ CeilDiv(n, s) * s \in Int /\ n <= CeilDiv(n, s) * s
    BY <1>2, CeilBounds
  <2>2. m <= CeilDiv(n, s) * s
    BY <1>2, <2>1
  <2> QED BY <1>2, <2>1, <2>2, CeilIsLeast
<1> QED BY <1>3, <1>4 DEF MulFloor, MulCeil, m, n

(* A ratio of at most 1, and one of at least 1.                            *)
LEMMA RatioAtMostOne ==
  ASSUME NEW x \in Nat, NEW y \in Nat \ {0}, NEW s \in Nat \ {0}, x <= y
  PROVE  /\ DivFloor(x, y, s) \in 0..s
         /\ DivCeil(x, y, s) \in 0..s
<1>1. MulFloor(s, x, y) <= s /\ MulCeil(s, x, y) <= s
  BY PartIsLess
<1>2. MulFloor(s, x, y) \in Nat /\ MulCeil(s, x, y) \in Nat
  BY RoundingOfNat
<1>3. s * x = x * s
  OBVIOUS
<1> QED BY <1>1, <1>2, <1>3 DEF MulFloor, MulCeil, DivFloor, DivCeil

LEMMA RatioAtLeastOne ==
  ASSUME NEW x \in Nat, NEW y \in Nat \ {0}, NEW s \in Nat \ {0}, y <= x
  PROVE  /\ DivFloor(x, y, s) \in Nat /\ s <= DivFloor(x, y, s)
         /\ DivCeil(x, y, s) \in Nat /\ s <= DivCeil(x, y, s)
<1>1. x * s \in Nat /\ y * s <= x * s
  BY ProductOrder
<1>2. s * y = y * s
  OBVIOUS
<1> DEFINE n == x * s
<1>3. n \in Nat /\ s * y <= n
  BY <1>1, <1>2
<1> HIDE DEF n
<1>4. s <= FloorDiv(n, y)
  BY <1>3, FloorIsGreatest
<1>5. FloorDiv(n, y) \in Nat /\ CeilDiv(n, y) \in Nat
  BY <1>3, FloorOfNat, CeilOfNat
<1>6. s <= CeilDiv(n, y)
  <2> DEFINE c == CeilDiv(n, y)
  <2>1. c \in Nat /\ n <= c * y
    BY <1>3, <1>5, CeilBounds
  <2> HIDE DEF c
  <2>2. s * y <= c * y
    <3>1. s * y \in Nat /\ c * y \in Nat
      BY <2>1
    <3> QED BY <1>3, <2>1, <3>1
  <2> QED BY <2>1, <2>2, CancelFactor DEF c
<1> QED BY <1>4, <1>5, <1>6 DEF DivFloor, DivCeil, n

---------------------------------------------------------------------------
(* Factors are at most 1: weighted by them, collateral is worth at most    *)
(* and debt at least its plain value.                                      *)
THEOREM FactorsAreConservative ==
  ASSUME NEW rs \in [Reserves -> ReserveDatas], NEW prices \in [Reserves -> Nat], NEW p,
         p.liabilities \in [Reserves -> Nat], p.collateral \in [Reserves -> Nat],
         \A r \in Held(p.liabilities) : Config[r].l_factor > 0
  PROVE  LET d == PositionData(rs, prices, p)
         IN  /\ d.collateral_base \in Nat /\ d.collateral_raw \in Nat
             /\ d.liability_base \in Nat /\ d.liability_raw \in Nat
             /\ d.collateral_base <= d.collateral_raw
             /\ d.liability_raw <= d.liability_base
<1> DEFINE C == Held(p.collateral)
           L == Held(p.liabilities)
           cb == [r \in C |-> Value(prices, r, ToEffectiveAssetFromBToken(rs[r], Config[r], p.collateral[r]))]
           cr == [r \in C |-> Value(prices, r, ToAssetFromBToken(rs[r], p.collateral[r]))]
           lb == [r \in L |-> DebtValue(prices, r, ToEffectiveAssetFromDToken(rs[r], Config[r], p.liabilities[r]))]
           lr == [r \in L |-> DebtValue(prices, r, ToAssetFromDToken(rs[r], p.liabilities[r]))]
<1>1. /\ C \subseteq Reserves /\ L \subseteq Reserves
      /\ IsFiniteSet(C) /\ IsFiniteSet(L)
  BY HealthAssumption, FS_Subset DEF Held
<1>2. SCALAR_7 \in Nat \ {0}
  BY ScalarAssumption
<1>3. ASSUME NEW r \in Reserves
      PROVE  /\ rs[r] \in ReserveDatas /\ prices[r] \in Nat
             /\ Config[r].c_factor \in 0..SCALAR_7 /\ Config[r].l_factor \in 0..SCALAR_7
             /\ Config[r].scalar \in Nat \ {0}
  BY HealthAssumption DEF ReserveConfigs
<1>4. ASSUME NEW r \in C
      PROVE  cb[r] \in Nat /\ cr[r] \in Nat /\ cb[r] <= cr[r]
  <2> DEFINE x == ToAssetFromBToken(rs[r], p.collateral[r])
             e == MulFloor(x, Config[r].c_factor, SCALAR_7)
  <2>1. x \in Nat
    BY <1>1, <1>3, <1>4, ConversionsOfReserve
  <2>2. r \in Reserves /\ prices[r] \in Nat /\ Config[r].scalar \in Nat \ {0}
        /\ Config[r].c_factor \in 0..SCALAR_7 /\ Config[r].c_factor \in Nat
    BY <1>1, <1>2, <1>3, <1>4
  <2>3. cr[r] = MulFloor(prices[r], x, Config[r].scalar)
    BY DEF Value
  <2>4. cb[r] = MulFloor(prices[r], e, Config[r].scalar)
    BY DEF Value, ToEffectiveAssetFromBToken
  <2> HIDE DEF x, cb, cr
  <2>5. e \in Nat /\ e <= x
    BY <1>2, <2>1, <2>2, RoundingOfNat, PartIsLess
  <2> HIDE DEF e
  <2> QED BY <2>1, <2>2, <2>3, <2>4, <2>5, RoundingOfNat, RoundingOrder
<1>5. ASSUME NEW r \in L
      PROVE  lb[r] \in Nat /\ lr[r] \in Nat /\ lr[r] <= lb[r]
  <2> DEFINE x == ToAssetFromDToken(rs[r], p.liabilities[r])
             e == DivCeil(x, Config[r].l_factor, SCALAR_7)
  <2>1. x \in Nat
    BY <1>1, <1>3, <1>5, ConversionsOfReserve
  <2>2. r \in Reserves /\ prices[r] \in Nat /\ Config[r].scalar \in Nat \ {0}
        /\ Config[r].l_factor \in Nat \ {0} /\ Config[r].l_factor <= SCALAR_7
    BY <1>1, <1>2, <1>3, <1>5
  <2>3. lr[r] = MulCeil(prices[r], x, Config[r].scalar)
    BY DEF DebtValue
  <2>4. lb[r] = MulCeil(prices[r], e, Config[r].scalar)
    BY DEF DebtValue, ToEffectiveAssetFromDToken
  <2> HIDE DEF x, lb, lr
  <2>5. e \in Nat /\ x <= e
    <3> DEFINE l == Config[r].l_factor
               n == x * SCALAR_7
    <3>1. l \in Nat \ {0} /\ l <= SCALAR_7
      BY <2>2
    <3>2. n \in Nat /\ x * l <= n
      <4>1. l * x \in Nat /\ SCALAR_7 * x \in Nat /\ l * x <= SCALAR_7 * x
        BY <1>2, <2>1, <3>1, ProductOrder
      <4>2. l * x = x * l /\ SCALAR_7 * x = x * SCALAR_7
        BY <1>2, <2>1, <3>1
      <4> QED BY <4>1, <4>2
    <3> HIDE DEF l, n
    <3>3. CeilDiv(n, l) \in Nat /\ n <= CeilDiv(n, l) * l
      BY <3>1, <3>2, CeilOfNat, CeilBounds
    <3>4. x * l <= CeilDiv(n, l) * l
      <4>1. CeilDiv(n, l) * l \in Int /\ x * l \in Int
        BY <2>1, <3>1, <3>3
      <4> QED BY <3>2, <3>3, <4>1
    <3> DEFINE c == CeilDiv(n, l)
    <3>5. c \in Nat /\ x * l <= c * l
      BY <3>3, <3>4
    <3> HIDE DEF c
    <3>6. x <= c
      BY <2>1, <3>1, <3>5, CancelFactor
    <3> QED BY <3>5, <3>6 DEF DivCeil, c, n, l
  <2> HIDE DEF e
  <2> QED BY <2>1, <2>2, <2>3, <2>4, <2>5, RoundingOfNat, RoundingOrder
<1>6. /\ cb \in [C -> Nat] /\ cr \in [C -> Nat]
      /\ lb \in [L -> Nat] /\ lr \in [L -> Nat]
  BY <1>4, <1>5
<1>7. LET d == PositionData(rs, prices, p)
      IN  /\ d.collateral_base = Total(cb) /\ d.collateral_raw = Total(cr)
          /\ d.liability_base = Total(lb) /\ d.liability_raw = Total(lr)
  BY DEF PositionData
<1> HIDE DEF cb, cr, lb, lr, C, L
<1>8. /\ Total(cb) \in Nat /\ Total(cr) \in Nat /\ Total(lb) \in Nat /\ Total(lr) \in Nat
      /\ Total(cb) <= Total(cr) /\ Total(lr) <= Total(lb)
  BY <1>1, <1>4, <1>5, <1>6, TotalIsCount, TotalMonotone
<1> QED BY <1>7, <1>8

(* create_user_liq_auction_data: whatever the user may hold and at any     *)
(* prices, a new auction's amounts are natural numbers and no more than    *)
(* the user holds.  The incentive never falls below 1, as the collateral   *)
(* factor on average stays below the liability factor's inverse.           *)
THEOREM QuoteIsPart ==
  ASSUME NEW rs \in [Reserves -> ReserveDatas], NEW prices \in [Reserves -> Nat],
         NEW p \in Positions, CanValue(prices, p),
         NEW bidSet, NEW lotSet, NEW percent \in 0..100
  PROVE  LET q == LiquidationQuote(rs, prices, p, bidSet, lotSet, percent)
         IN  /\ q.bid \in [Reserves -> Nat] /\ q.lot \in [Reserves -> Nat]
             /\ \A r \in Reserves : /\ q.bid[r] <= p.liabilities[r]
                                    /\ q.lot[r] <= p.collateral[r]
<1> DEFINE all  == PositionData(rs, prices, p)
           part == [liabilities |-> Only(p.liabilities, bidSet),
                    collateral  |-> Only(p.collateral, lotSet),
                    supply      |-> Zero]
           inc  == PositionData(rs, prices, part)
           allCollateral == inc.collateral_raw = all.collateral_raw
           full == /\ allCollateral
                   /\ inc.liability_raw = all.liability_raw
                   /\ percent > 95
           pct  == ((IF full THEN 95 ELSE percent) * ORACLE_SCALAR) \div 100
           avgCf == DivFloor(inc.collateral_base, inc.collateral_raw, ORACLE_SCALAR)
           avgLf == DivFloor(inc.liability_base, inc.liability_raw, ORACLE_SCALAR)
           ratio == DivCeil(avgCf, avgLf, ORACLE_SCALAR)
           incentive ==
             DivCeil(ORACLE_SCALAR - ratio, 2 * ORACLE_SCALAR, ORACLE_SCALAR) + ORACLE_SCALAR
           withdrawn ==
             MulFloor(MulFloor(inc.liability_raw, pct, ORACLE_SCALAR),
                      incentive, ORACLE_SCALAR)
           estPct  == DivCeil(withdrawn, inc.collateral_raw, ORACLE_SCALAR)
           lotPct  == MinOf(estPct, ORACLE_SCALAR)
           quote   == [bid |-> [r \in Reserves |->
                                  MulCeil(part.liabilities[r], pct, ORACLE_SCALAR)],
                       lot |-> [r \in Reserves |->
                                  MulCeil(part.collateral[r], lotPct, ORACLE_SCALAR)]]
           divides == inc.collateral_raw > 0 /\ inc.liability_raw > 0 /\ avgLf > 0
           q == LiquidationQuote(rs, prices, p, bidSet, lotSet, percent)
<1>1. \/ q = Refused
      \/ q = [bid |-> part.liabilities, lot |-> part.collateral]
      \/ divides /\ q = quote
  BY Zenon DEF LiquidationQuote
<1>2. /\ part.liabilities \in [Reserves -> Nat] /\ part.collateral \in [Reserves -> Nat]
      /\ Held(part.liabilities) \subseteq Held(p.liabilities)
  BY DEF Positions, Only, Held
<1>3. \A r \in Held(part.liabilities) : Config[r].l_factor > 0
  BY <1>2 DEF CanValue
<1> DEFINE cb == inc.collateral_base
           cr == inc.collateral_raw
           lb == inc.liability_base
           lr == inc.liability_raw
<1>4. /\ cb \in Nat /\ cr \in Nat /\ lb \in Nat /\ lr \in Nat
      /\ cb <= cr /\ lr <= lb
  <2> HIDE DEF part
  <2> QED BY <1>2, <1>3, FactorsAreConservative
<1>5. ORACLE_SCALAR \in Nat \ {0}
  BY HealthAssumption
<1>6. ASSUME divides
      PROVE  /\ quote.bid \in [Reserves -> Nat] /\ quote.lot \in [Reserves -> Nat]
             /\ \A r \in Reserves : /\ quote.bid[r] <= part.liabilities[r]
                                    /\ quote.lot[r] <= part.collateral[r]
  <2>1. cr \in Nat \ {0} /\ lr \in Nat \ {0}
    BY <1>4, <1>6
  <2> HIDE DEF part, inc, all, cb, cr, lb, lr
  <2>2. avgCf \in 0..ORACLE_SCALAR
    BY <1>4, <1>5, <2>1, RatioAtMostOne DEF cb, cr
  <2>3. avgLf \in Nat \ {0} /\ ORACLE_SCALAR <= avgLf
    <3>1. DivFloor(lb, lr, ORACLE_SCALAR) \in Nat /\ ORACLE_SCALAR <= DivFloor(lb, lr, ORACLE_SCALAR)
      BY <1>4, <1>5, <2>1, RatioAtLeastOne
    <3>2. avgLf = DivFloor(lb, lr, ORACLE_SCALAR)
      BY DEF lb, lr
    <3> HIDE DEF avgLf
    <3> QED BY <1>5, <3>1, <3>2
  <2> HIDE DEF avgCf, avgLf
  <2>4. ratio \in 0..ORACLE_SCALAR
    <3>1. avgCf \in Nat /\ avgCf <= avgLf
      BY <1>5, <2>2, <2>3
    <3> QED BY <1>5, <2>3, <3>1, RatioAtMostOne
  <2> HIDE DEF ratio
  <2>5. incentive \in Nat
    <3> DEFINE e == DivCeil(ORACLE_SCALAR - ratio, 2 * ORACLE_SCALAR, ORACLE_SCALAR)
    <3>1. ORACLE_SCALAR - ratio \in Nat /\ 2 * ORACLE_SCALAR \in Nat \ {0} /\ ORACLE_SCALAR \in Nat
      BY <1>5, <2>4
    <3>2. (ORACLE_SCALAR - ratio) * ORACLE_SCALAR \in Nat
      BY <3>1
    <3>3. e \in Nat
      BY <3>1, <3>2, CeilOfNat DEF DivCeil
    <3> HIDE DEF e
    <3>4. incentive = e + ORACLE_SCALAR
      BY DEF e
    <3> QED BY <3>1, <3>3, <3>4
  <2> HIDE DEF incentive
  <2>6. pct \in 0..ORACLE_SCALAR
    <3> DEFINE m == IF full THEN 95 ELSE percent
    <3>1. m \in 0..100 /\ m \in Nat /\ 100 \in Nat \ {0} /\ ORACLE_SCALAR \in Nat
      BY <1>5
    <3> HIDE DEF m
    <3>2. MulFloor(ORACLE_SCALAR, m, 100) \in Nat /\ MulFloor(ORACLE_SCALAR, m, 100) <= ORACLE_SCALAR
      BY <1>5, <3>1, RoundingOfNat, PartIsLess
    <3>3. m * ORACLE_SCALAR = ORACLE_SCALAR * m
      BY <1>5, <3>1
    <3>4. pct = MulFloor(ORACLE_SCALAR, m, 100)
      BY <3>3 DEF MulFloor, FloorDiv, m
    <3> HIDE DEF pct
    <3> QED BY <1>5, <3>2, <3>4
  <2> HIDE DEF pct
  <2>7. withdrawn \in Nat
    <3> DEFINE x == MulFloor(lr, pct, ORACLE_SCALAR)
    <3>1. x \in Nat
      BY <1>4, <1>5, <2>6, RoundingOfNat
    <3>2. withdrawn = MulFloor(x, incentive, ORACLE_SCALAR)
      BY DEF lr
    <3> HIDE DEF x, withdrawn
    <3> QED BY <1>5, <2>5, <3>1, <3>2, RoundingOfNat
  <2> HIDE DEF withdrawn
  <2>8. estPct \in Nat
    <3>1. withdrawn * ORACLE_SCALAR \in Nat
      BY <1>5, <2>7
    <3>2. CeilDiv(withdrawn * ORACLE_SCALAR, cr) \in Nat
      BY <2>1, <3>1, CeilOfNat
    <3> QED BY <3>2 DEF DivCeil, cr
  <2> HIDE DEF estPct
  <2>9. lotPct \in 0..ORACLE_SCALAR
    BY <1>5, <2>8 DEF MinOf
  <2> HIDE DEF lotPct
  <2>10. \A r \in Reserves : part.liabilities[r] \in Nat /\ part.collateral[r] \in Nat
    BY <1>2
  <2>11. \A r \in Reserves : /\ MulCeil(part.liabilities[r], pct, ORACLE_SCALAR) \in Nat
                             /\ MulCeil(part.collateral[r], lotPct, ORACLE_SCALAR) \in Nat
    <3>1. pct \in Nat /\ lotPct \in Nat
      BY <1>5, <2>6, <2>9
    <3> QED BY <1>5, <2>10, <3>1, RoundingOfNat
  <2>12. \A r \in Reserves :
           /\ MulCeil(part.liabilities[r], pct, ORACLE_SCALAR) <= part.liabilities[r]
           /\ MulCeil(part.collateral[r], lotPct, ORACLE_SCALAR) <= part.collateral[r]
    BY <1>5, <2>6, <2>9, <2>10, PartIsLess
  <2> QED BY <2>11, <2>12
<1>10. \A r \in Reserves : /\ part.liabilities[r] <= p.liabilities[r]
                           /\ part.collateral[r] <= p.collateral[r]
                           /\ part.liabilities[r] \in Nat /\ part.collateral[r] \in Nat
                           /\ p.liabilities[r] \in Nat /\ p.collateral[r] \in Nat
  BY DEF Positions, Only
<1>7. CASE divides /\ q = quote
  <2>1. /\ quote.bid \in [Reserves -> Nat] /\ quote.lot \in [Reserves -> Nat]
        /\ \A r \in Reserves : /\ quote.bid[r] <= part.liabilities[r]
                               /\ quote.lot[r] <= part.collateral[r]
    BY <1>6, <1>7
  <2> HIDE DEF part, q, quote
  <2>2. \A r \in Reserves : quote.bid[r] \in Nat /\ quote.lot[r] \in Nat
    BY <2>1
  <2> QED BY <1>7, <1>10, <2>1, <2>2 DEF q
<1>8. CASE q = Refused
  BY <1>8, <1>10 DEF Refused, Zero
<1>9. CASE q = [bid |-> part.liabilities, lot |-> part.collateral]
  <2> HIDE DEF part, q
  <2> QED BY <1>2, <1>9, <1>10 DEF q
<1> QED BY <1>1, <1>7, <1>8, <1>9

---------------------------------------------------------------------------
(* II. The state machine.                                                  *)

---------------------------------------------------------------------------
(* The reserves rs account for exactly the tokens in the positions ps.     *)
Matches(rs, ps) ==
  \A r \in Reserves : /\ rs[r].b_supply = Total(BTokensOf(ps, r))
                      /\ rs[r].d_supply = Total(DTokensOf(ps, r))

(* Debt never shrinks by itself, and no reserve is ahead of the ledger.    *)
Grown(rs) ==
  \A r \in Reserves : /\ rs[r].d_rate >= SCALAR_12
                      /\ rs[r].last_time <= Timestamp

(* What the view of an open call may differ from the ledger in: interest   *)
(* up to now, and, in the reserves it touched, supplies, credit and        *)
(* transfers.                                                              *)
ViewFollows ==
  \A r \in Reserves :
    /\ tx.res[r].d_rate >= res[r].d_rate
    /\ tx.res[r].last_time = Timestamp
    /\ r \notin tx.touched =>
         /\ tx.res[r].b_supply = res[r].b_supply
         /\ tx.res[r].d_supply = res[r].d_supply
         /\ tx.res[r].backstop_credit = Loaded(r).backstop_credit
         /\ tx.in[r] = 0 /\ tx.out[r] = 0 /\ tx.flash[r] = 0
         /\ tx.bal[r] >= bal[r]

ViewOK == Matches(tx.res, tx.pos) /\ Grown(tx.res) /\ ViewFollows

IInv ==
  /\ TypeOK
  /\ Matches(res, pos)
  /\ Grown(res)
  /\ ~Idle => ViewOK

(* What requests leave alone: the rates and the credit of every reserve,   *)
(* and the debt of the backstop, which no caller takes over by one.        *)
Untaken ==
  \A r \in Reserves :
    /\ tx'.res[r].b_rate = tx.res[r].b_rate
    /\ tx'.res[r].backstop_credit = tx.res[r].backstop_credit
    /\ tx'.pos[Backstop].liabilities[r] >= tx.pos[Backstop].liabilities[r]

---------------------------------------------------------------------------
(* The tokens of a reserve, account by account.                            *)
LEMMA HoldersFinite == IsFiniteSet(Holders)
BY LendingPoolAssumption, FS_AddElement DEF Holders

LEMMA TokensTyped ==
  ASSUME NEW ps \in [Holders -> Positions], NEW r \in Reserves
  PROVE  BTokensOf(ps, r) \in [Holders -> Nat] /\ DTokensOf(ps, r) \in [Holders -> Nat]
<1>1. \A h \in Holders : /\ ps[h].collateral[r] \in Nat
                         /\ ps[h].supply[r] \in Nat
                         /\ ps[h].liabilities[r] \in Nat
  BY DEF Positions
<1> QED BY <1>1 DEF BTokensOf, DTokensOf

(* No account holds more than the reserve accounts for.                    *)
LEMMA HeldIsBounded ==
  ASSUME NEW rs, NEW ps \in [Holders -> Positions], Matches(rs, ps),
         NEW r \in Reserves, NEW h \in Holders
  PROVE  /\ ps[h].collateral[r] + ps[h].supply[r] <= rs[r].b_supply
         /\ ps[h].liabilities[r] <= rs[r].d_supply
<1>1. /\ BTokensOf(ps, r)[h] <= Total(BTokensOf(ps, r))
      /\ DTokensOf(ps, r)[h] <= Total(DTokensOf(ps, r))
  BY HoldersFinite, TokensTyped, TotalBoundsMember
<1>2. /\ BTokensOf(ps, r)[h] = ps[h].collateral[r] + ps[h].supply[r]
      /\ DTokensOf(ps, r)[h] = ps[h].liabilities[r]
  BY DEF BTokensOf, DTokensOf
<1> QED BY <1>1, <1>2 DEF Matches

(* Positions that change for one account in one reserve, with the          *)
(* reserve's supplies.                                                     *)
LEMMA MatchesAfterChange ==
  ASSUME NEW rs \in [Reserves -> ReserveDatas], NEW ps \in [Holders -> Positions],
         Matches(rs, ps),
         NEW r \in Reserves, NEW h \in Holders,
         NEW reserve \in ReserveDatas, NEW p \in Positions,
         \A s \in Reserves \ {r} : /\ p.collateral[s] = ps[h].collateral[s]
                                   /\ p.supply[s] = ps[h].supply[s]
                                   /\ p.liabilities[s] = ps[h].liabilities[s],
         reserve.b_supply + ps[h].collateral[r] + ps[h].supply[r]
           = rs[r].b_supply + p.collateral[r] + p.supply[r],
         reserve.d_supply + ps[h].liabilities[r] = rs[r].d_supply + p.liabilities[r]
  PROVE  Matches([rs EXCEPT ![r] = reserve], [ps EXCEPT ![h] = p])
<1> DEFINE qs == [ps EXCEPT ![h] = p]
<1>1. qs \in [Holders -> Positions] /\ qs[h] = p /\ \A g \in Holders \ {h} : qs[g] = ps[g]
  OBVIOUS
<1> HIDE DEF qs
<1> SUFFICES ASSUME NEW s \in Reserves
             PROVE  /\ [rs EXCEPT ![r] = reserve][s].b_supply = Total(BTokensOf(qs, s))
                    /\ [rs EXCEPT ![r] = reserve][s].d_supply = Total(DTokensOf(qs, s))
  BY DEF Matches, qs
<1>2. /\ rs[s].b_supply = Total(BTokensOf(ps, s)) /\ rs[s].b_supply \in Nat
      /\ rs[s].d_supply = Total(DTokensOf(ps, s)) /\ rs[s].d_supply \in Nat
  BY DEF Matches, ReserveDatas
<1>3. /\ BTokensOf(ps, s) \in [Holders -> Nat] /\ DTokensOf(ps, s) \in [Holders -> Nat]
      /\ BTokensOf(qs, s) \in [Holders -> Nat] /\ DTokensOf(qs, s) \in [Holders -> Nat]
  BY <1>1, TokensTyped
<1>4. \A g \in Holders \ {h} : /\ BTokensOf(ps, s)[g] = BTokensOf(qs, s)[g]
                               /\ DTokensOf(ps, s)[g] = DTokensOf(qs, s)[g]
  BY <1>1 DEF BTokensOf, DTokensOf
<1>5. /\ Total(BTokensOf(qs, s)) + BTokensOf(ps, s)[h]
           = Total(BTokensOf(ps, s)) + BTokensOf(qs, s)[h]
      /\ Total(DTokensOf(qs, s)) + DTokensOf(ps, s)[h]
           = Total(DTokensOf(ps, s)) + DTokensOf(qs, s)[h]
  BY <1>3, <1>4, HoldersFinite, TotalChange
<1>6. /\ BTokensOf(ps, s)[h] = ps[h].collateral[s] + ps[h].supply[s]
      /\ BTokensOf(qs, s)[h] = p.collateral[s] + p.supply[s]
      /\ DTokensOf(ps, s)[h] = ps[h].liabilities[s]
      /\ DTokensOf(qs, s)[h] = p.liabilities[s]
  BY <1>1 DEF BTokensOf, DTokensOf
<1>7. /\ Total(BTokensOf(qs, s)) \in Nat /\ Total(DTokensOf(qs, s)) \in Nat
  BY <1>3, HoldersFinite, TotalIsCount
<1>8. /\ ps[h].collateral[s] \in Nat /\ ps[h].supply[s] \in Nat /\ ps[h].liabilities[s] \in Nat
      /\ p.collateral[s] \in Nat /\ p.supply[s] \in Nat /\ p.liabilities[s] \in Nat
      /\ reserve.b_supply \in Nat /\ reserve.d_supply \in Nat
  BY DEF Positions, ReserveDatas
<1>11. Total(BTokensOf(qs, s)) + (ps[h].collateral[s] + ps[h].supply[s])
        = rs[s].b_supply + (p.collateral[s] + p.supply[s])
  BY <1>2, <1>5, <1>6
<1>12. Total(DTokensOf(qs, s)) + ps[h].liabilities[s] = rs[s].d_supply + p.liabilities[s]
  BY <1>2, <1>5, <1>6
<1>9. CASE s # r
  <2>1. [rs EXCEPT ![r] = reserve][s] = rs[s]
    BY <1>9
  <2> QED BY <2>1, <1>2, <1>11, <1>12, <1>7, <1>8, <1>9
<1>10. CASE s = r
  <2>1. [rs EXCEPT ![r] = reserve][s] = reserve
    BY <1>10
  <2>2. /\ reserve.b_supply + ps[h].collateral[s] + ps[h].supply[s]
             = rs[s].b_supply + p.collateral[s] + p.supply[s]
        /\ reserve.d_supply + ps[h].liabilities[s] = rs[s].d_supply + p.liabilities[s]
    BY <1>10
  <2> DEFINE c == ps[h].collateral[s]
             d == ps[h].supply[s]
             e == p.collateral[s]
             f == p.supply[s]
             l == ps[h].liabilities[s]
             m == p.liabilities[s]
             bq == Total(BTokensOf(qs, s))
             dq == Total(DTokensOf(qs, s))
  <2> HIDE DEF c, d, e, f, l, m, bq, dq
  <2>3. reserve.b_supply = bq
    <3>1. /\ c \in Nat /\ d \in Nat /\ e \in Nat /\ f \in Nat /\ bq \in Nat
          /\ reserve.b_supply \in Nat /\ rs[s].b_supply \in Nat
      BY <1>2, <1>7, <1>8 DEF c, d, e, f, bq
    <3>2. reserve.b_supply + c + d = rs[s].b_supply + e + f
      BY <2>2 DEF c, d, e, f
    <3>3. bq + (c + d) = rs[s].b_supply + (e + f)
      BY <1>11 DEF c, d, e, f, bq
    <3> QED BY <3>1, <3>2, <3>3
  <2>4. reserve.d_supply = dq
    <3>1. /\ l \in Nat /\ m \in Nat /\ dq \in Nat
          /\ reserve.d_supply \in Nat /\ rs[s].d_supply \in Nat
      BY <1>2, <1>7, <1>8 DEF l, m, dq
    <3>2. reserve.d_supply + l = rs[s].d_supply + m
      BY <2>2 DEF l, m
    <3>3. dq + l = rs[s].d_supply + m
      BY <1>12 DEF l, m, dq
    <3> QED BY <3>1, <3>2, <3>3
  <2> QED BY <2>1, <2>3, <2>4 DEF bq, dq
<1> QED BY <1>9, <1>10
---------------------------------------------------------------------------
(* The parts of a view.                                                    *)
LEMMA ViewTyped ==
  ASSUME TypeOK, ~Idle
  PROVE  /\ tx \in Txs /\ tx.phase \in {"build", "callback"}
         /\ tx.from \in Users /\ tx.from \in Holders
         /\ tx.res \in [Reserves -> ReserveDatas]
         /\ tx.pos \in [Holders -> Positions]
         /\ tx.auction \in [Users -> Auctions]
         /\ tx.bal \in [Reserves -> Nat]
         /\ tx.touched \in SUBSET Reserves
         /\ tx.in \in [Reserves -> Nat] /\ tx.out \in [Reserves -> Nat]
         /\ tx.flash \in [Reserves -> Nat]
         /\ tx.health \in BOOLEAN /\ tx.maxUtil \in SUBSET Reserves
         /\ tx.prev \in Nat /\ tx.left \in 0..MaxRequests
<1>1. tx \in Txs
  BY DEF TypeOK, Idle, NoTx
<1> QED BY <1>1 DEF Txs, Holders

(* The view after a request that leaves reserve r as `reserve` and the     *)
(* caller's positions as p.                                                *)
AfterRequest(r, reserve, p, i, o, h, m) ==
  [tx EXCEPT !.res = [@ EXCEPT ![r] = reserve],
             !.pos = [@ EXCEPT ![tx.from] = p],
             !.touched = @ \cup {r},
             !.in = i, !.out = o, !.health = h, !.maxUtil = m,
             !.left = @ - 1]

(* What every request for an asset does, given that it changes the         *)
(* supplies of the reserve as it changes the positions of the caller.      *)
Balanced(r, reserve, p) ==
  /\ reserve \in ReserveDatas /\ p \in Positions
  /\ reserve.d_rate = tx.res[r].d_rate /\ reserve.b_rate = tx.res[r].b_rate
  /\ reserve.last_time = tx.res[r].last_time
  /\ reserve.backstop_credit = tx.res[r].backstop_credit
  /\ \A x \in Reserves \ {r} : /\ p.collateral[x] = Mine.collateral[x]
                               /\ p.supply[x] = Mine.supply[x]
                               /\ p.liabilities[x] = Mine.liabilities[x]
  /\ reserve.b_supply + Mine.collateral[r] + Mine.supply[r]
       = tx.res[r].b_supply + p.collateral[r] + p.supply[r]
  /\ reserve.d_supply + Mine.liabilities[r] = tx.res[r].d_supply + p.liabilities[r]

(* A request for asset r, which leaves that reserve as `reserve`, the      *)
(* caller's positions as p, the transfers as i and o, and the checks to be *)
(* made as h and m.                                                        *)
IsRequest(r, reserve, p, i, o, h, m) ==
  /\ Building
  /\ Balanced(r, reserve, p)
  /\ i \in [Reserves -> Nat] /\ o \in [Reserves -> Nat]
  /\ \A x \in Reserves \ {r} : i[x] = tx.in[x] /\ o[x] = tx.out[x]
  /\ h \in BOOLEAN /\ m \in SUBSET Reserves
  /\ tx' = AfterRequest(r, reserve, p, i, o, h, m)
  /\ UNCHANGED <<env, book>>

LEMMA RequestKeepsIInv ==
  ASSUME IInv, NEW r \in Reserves, NEW reserve, NEW p, NEW i, NEW o, NEW h, NEW m,
         IsRequest(r, reserve, p, i, o, h, m)
  PROVE  IInv'
<1>0. /\ Building /\ Balanced(r, reserve, p)
      /\ i \in [Reserves -> Nat] /\ o \in [Reserves -> Nat]
      /\ \A x \in Reserves \ {r} : i[x] = tx.in[x] /\ o[x] = tx.out[x]
      /\ h \in BOOLEAN /\ m \in SUBSET Reserves
      /\ tx' = AfterRequest(r, reserve, p, i, o, h, m)
      /\ UNCHANGED <<env, book>>
  BY DEF IsRequest
<1>1. TypeOK /\ ~Idle /\ ViewOK
  BY <1>0 DEF IInv, Building, Idle
<1>2. /\ tx \in Txs
      /\ tx.from \in Users /\ tx.from \in Holders
      /\ tx.res \in [Reserves -> ReserveDatas]
      /\ tx.pos \in [Holders -> Positions]
      /\ tx.touched \in SUBSET Reserves
      /\ tx.left \in 0..MaxRequests
  BY <1>1, ViewTyped
<1>3. reserve \in ReserveDatas /\ p \in Positions
  BY <1>0 DEF Balanced
<1>4. tx.left - 1 \in 0..MaxRequests
  BY <1>0, <1>2, LendingPoolAssumption DEF Building
<1>5. /\ tx'.phase = tx.phase /\ tx'.from = tx.from
      /\ tx'.res = [tx.res EXCEPT ![r] = reserve]
      /\ tx'.pos = [tx.pos EXCEPT ![tx.from] = p]
      /\ tx'.touched = tx.touched \cup {r}
      /\ tx'.in = i /\ tx'.out = o /\ tx'.flash = tx.flash /\ tx'.bal = tx.bal
  BY <1>0, <1>2 DEF AfterRequest, Txs
<1>6. tx' \in Txs
  <2>1. /\ [tx.res EXCEPT ![r] = reserve] \in [Reserves -> ReserveDatas]
        /\ [tx.pos EXCEPT ![tx.from] = p] \in [Holders -> Positions]
        /\ tx.touched \cup {r} \in SUBSET Reserves
    BY <1>2, <1>3
  <2> QED BY <1>0, <1>2, <1>4, <2>1 DEF AfterRequest, Txs
<1>7. TypeOK'
  BY <1>0, <1>1, <1>6 DEF TypeOK, env, book
<1>8. Matches(res, pos)' /\ Grown(res)'
  BY <1>0 DEF IInv, env, book, Matches, Grown, Timestamp, BTokensOf, DTokensOf
<1>9. Matches(tx.res, tx.pos)'
  <2>1. Matches([tx.res EXCEPT ![r] = reserve], [tx.pos EXCEPT ![tx.from] = p])
    BY <1>0, <1>1, <1>2, <1>3, MatchesAfterChange DEF ViewOK, Balanced, Mine
  <2> QED BY <2>1, <1>5 DEF Matches, BTokensOf, DTokensOf
<1>10. Grown(tx.res)'
  BY <1>0, <1>1, <1>2, <1>5 DEF ViewOK, Grown, Balanced, Timestamp, env
<1>11. ViewFollows'
  BY <1>0, <1>1, <1>2, <1>5 DEF ViewOK, ViewFollows, Balanced, Loaded, Timestamp, env, book
<1> QED BY <1>7, <1>8, <1>9, <1>10, <1>11 DEF IInv, ViewOK

(* Facts about one reserve of the view and the caller's part of it.        *)
LEMMA MineTyped ==
  ASSUME IInv, Building, NEW r \in Reserves
  PROVE  /\ TypeOK /\ ~Idle /\ tx \in Txs /\ tx.from \in Holders
         /\ tx.res \in [Reserves -> ReserveDatas] /\ tx.pos \in [Holders -> Positions]
         /\ tx.in \in [Reserves -> Nat] /\ tx.out \in [Reserves -> Nat]
         /\ tx.maxUtil \in SUBSET Reserves /\ tx.health \in BOOLEAN
         /\ tx.res[r] \in ReserveDatas /\ tx.res[r].d_rate \in Nat \ {0}
         /\ Mine \in Positions
         /\ Mine.supply[r] \in Nat /\ Mine.collateral[r] \in Nat
         /\ Mine.liabilities[r] \in Nat
         /\ Mine.collateral[r] + Mine.supply[r] <= tx.res[r].b_supply
         /\ Mine.liabilities[r] <= tx.res[r].d_supply
<1>1. TypeOK /\ ~Idle /\ ViewOK
  BY DEF IInv, Building, Idle
<1>2. /\ tx \in Txs /\ tx.from \in Holders
      /\ tx.res \in [Reserves -> ReserveDatas] /\ tx.pos \in [Holders -> Positions]
      /\ tx.in \in [Reserves -> Nat] /\ tx.out \in [Reserves -> Nat]
      /\ tx.maxUtil \in SUBSET Reserves /\ tx.health \in BOOLEAN
  BY <1>1, ViewTyped
<1>3. tx.res[r] \in ReserveDatas /\ Mine \in Positions
  BY <1>2 DEF Mine
<1>4. tx.res[r].d_rate \in Nat \ {0}
  BY <1>1, <1>3, ScalarAssumption DEF ViewOK, Grown, ReserveDatas
<1>5. Mine.supply[r] \in Nat /\ Mine.collateral[r] \in Nat /\ Mine.liabilities[r] \in Nat
  BY <1>3 DEF Positions
<1>6. /\ Mine.collateral[r] + Mine.supply[r] <= tx.res[r].b_supply
      /\ Mine.liabilities[r] <= tx.res[r].d_supply
  BY <1>1, <1>2, HeldIsBounded DEF ViewOK, Mine
<1> QED BY <1>1, <1>2, <1>3, <1>4, <1>5, <1>6

(* A request that changes one kind of token.                                *)
LEMMA SupplyBalanced ==
  ASSUME NEW r \in Reserves, tx.res[r] \in ReserveDatas, Mine \in Positions,
         NEW b \in Nat, NEW n \in Nat,
         b + Mine.supply[r] = tx.res[r].b_supply + n
  PROVE  Balanced(r, [tx.res[r] EXCEPT !.b_supply = b], [Mine EXCEPT !.supply[r] = n])
<1> DEFINE old == tx.res[r]
           mine == Mine
           reserve == [old EXCEPT !.b_supply = b]
           p == [mine EXCEPT !.supply[r] = n]
<1>1. /\ reserve \in ReserveDatas
      /\ reserve.d_rate = old.d_rate /\ reserve.b_rate = old.b_rate
      /\ reserve.last_time = old.last_time
      /\ reserve.backstop_credit = old.backstop_credit
      /\ reserve.b_supply = b /\ reserve.d_supply = old.d_supply
      /\ old.b_supply \in Nat /\ old.d_supply \in Nat
  BY DEF ReserveDatas
<1>2. /\ mine.collateral \in [Reserves -> Nat] /\ mine.supply \in [Reserves -> Nat]
      /\ mine.liabilities \in [Reserves -> Nat]
      /\ mine.collateral[r] \in Nat /\ mine.supply[r] \in Nat /\ mine.liabilities[r] \in Nat
  BY DEF Positions
<1>3. /\ p \in Positions
      /\ p.supply[r] = n
      /\ p.collateral = mine.collateral
      /\ p.liabilities = mine.liabilities
      /\ \A x \in Reserves \ {r} : p.supply[x] = mine.supply[x]
  BY <1>2 DEF Positions
<1>4. b + mine.supply[r] = old.b_supply + n
  OBVIOUS
<1> HIDE DEF old, mine, reserve, p
<1>5. /\ reserve.b_supply + mine.collateral[r] + mine.supply[r]
           = old.b_supply + p.collateral[r] + p.supply[r]
      /\ reserve.d_supply + mine.liabilities[r] = old.d_supply + p.liabilities[r]
  BY <1>1, <1>2, <1>3, <1>4
<1> QED BY <1>1, <1>3, <1>5 DEF Balanced, old, mine, reserve, p

LEMMA CollateralBalanced ==
  ASSUME NEW r \in Reserves, tx.res[r] \in ReserveDatas, Mine \in Positions,
         NEW b \in Nat, NEW n \in Nat,
         b + Mine.collateral[r] = tx.res[r].b_supply + n
  PROVE  Balanced(r, [tx.res[r] EXCEPT !.b_supply = b], [Mine EXCEPT !.collateral[r] = n])
<1> DEFINE old == tx.res[r]
           mine == Mine
           reserve == [old EXCEPT !.b_supply = b]
           p == [mine EXCEPT !.collateral[r] = n]
<1>1. /\ reserve \in ReserveDatas
      /\ reserve.d_rate = old.d_rate /\ reserve.b_rate = old.b_rate
      /\ reserve.last_time = old.last_time
      /\ reserve.backstop_credit = old.backstop_credit
      /\ reserve.b_supply = b /\ reserve.d_supply = old.d_supply
      /\ old.b_supply \in Nat /\ old.d_supply \in Nat
  BY DEF ReserveDatas
<1>2. /\ mine.collateral \in [Reserves -> Nat] /\ mine.supply \in [Reserves -> Nat]
      /\ mine.liabilities \in [Reserves -> Nat]
      /\ mine.collateral[r] \in Nat /\ mine.supply[r] \in Nat /\ mine.liabilities[r] \in Nat
  BY DEF Positions
<1>3. /\ p \in Positions
      /\ p.collateral[r] = n
      /\ p.supply = mine.supply
      /\ p.liabilities = mine.liabilities
      /\ \A x \in Reserves \ {r} : p.collateral[x] = mine.collateral[x]
  BY <1>2 DEF Positions
<1>4. b + mine.collateral[r] = old.b_supply + n
  OBVIOUS
<1> HIDE DEF old, mine, reserve, p
<1>5. /\ reserve.b_supply + mine.collateral[r] + mine.supply[r]
           = old.b_supply + p.collateral[r] + p.supply[r]
      /\ reserve.d_supply + mine.liabilities[r] = old.d_supply + p.liabilities[r]
  BY <1>1, <1>2, <1>3, <1>4
<1> QED BY <1>1, <1>3, <1>5 DEF Balanced, old, mine, reserve, p

LEMMA DebtBalanced ==
  ASSUME NEW r \in Reserves, tx.res[r] \in ReserveDatas, Mine \in Positions,
         NEW b \in Nat, NEW n \in Nat,
         b + Mine.liabilities[r] = tx.res[r].d_supply + n
  PROVE  Balanced(r, [tx.res[r] EXCEPT !.d_supply = b], [Mine EXCEPT !.liabilities[r] = n])
<1> DEFINE old == tx.res[r]
           mine == Mine
           reserve == [old EXCEPT !.d_supply = b]
           p == [mine EXCEPT !.liabilities[r] = n]
<1>1. /\ reserve \in ReserveDatas
      /\ reserve.d_rate = old.d_rate /\ reserve.b_rate = old.b_rate
      /\ reserve.last_time = old.last_time
      /\ reserve.backstop_credit = old.backstop_credit
      /\ reserve.d_supply = b /\ reserve.b_supply = old.b_supply
      /\ old.b_supply \in Nat /\ old.d_supply \in Nat
  BY DEF ReserveDatas
<1>2. /\ mine.collateral \in [Reserves -> Nat] /\ mine.supply \in [Reserves -> Nat]
      /\ mine.liabilities \in [Reserves -> Nat]
      /\ mine.collateral[r] \in Nat /\ mine.supply[r] \in Nat /\ mine.liabilities[r] \in Nat
  BY DEF Positions
<1>3. /\ p \in Positions
      /\ p.liabilities[r] = n
      /\ p.collateral = mine.collateral
      /\ p.supply = mine.supply
      /\ \A x \in Reserves \ {r} : p.liabilities[x] = mine.liabilities[x]
  BY <1>2 DEF Positions
<1>4. b + mine.liabilities[r] = old.d_supply + n
  OBVIOUS
<1> HIDE DEF old, mine, reserve, p
<1>5. /\ reserve.b_supply + mine.collateral[r] + mine.supply[r]
           = old.b_supply + p.collateral[r] + p.supply[r]
      /\ reserve.d_supply + mine.liabilities[r] = old.d_supply + p.liabilities[r]
  BY <1>1, <1>2, <1>3, <1>4
<1> QED BY <1>1, <1>3, <1>5 DEF Balanced, old, mine, reserve, p

LEMMA AmountsTyped ==
  ASSUME NEW r \in Reserves, NEW a \in Amounts[r]
  PROVE  a \in Nat
BY LendingPoolAssumption

LEMMA SupplyIsRequest ==
  ASSUME IInv, NEW r \in Reserves, NEW a \in Nat, Supply(r, a)
  PROVE  LET k == Minted(r, a)
         IN  /\ k \in Nat
             /\ IsRequest(r, [tx.res[r] EXCEPT !.b_supply = tx.res[r].b_supply + k],
                          [Mine EXCEPT !.supply[r] = Mine.supply[r] + k],
                          [tx.in EXCEPT ![r] = @ + a], tx.out, tx.health, tx.maxUtil)
<1> DEFINE k == Minted(r, a)
           b == tx.res[r].b_supply + k
           n == Mine.supply[r] + k
           reserve == [tx.res[r] EXCEPT !.b_supply = b]
           p == [Mine EXCEPT !.supply[r] = n]
           i == [tx.in EXCEPT ![r] = @ + a]
<1>1. Building /\ tx.res[r].b_rate > 0 /\ UNCHANGED <<env, book>>
  BY DEF Supply, MaySupply
<1>2. /\ tx \in Txs /\ tx.from \in Holders /\ tx.res[r] \in ReserveDatas /\ Mine \in Positions
      /\ tx.in \in [Reserves -> Nat] /\ tx.out \in [Reserves -> Nat]
      /\ tx.maxUtil \in SUBSET Reserves /\ tx.health \in BOOLEAN
      /\ tx.res \in [Reserves -> ReserveDatas] /\ tx.pos \in [Holders -> Positions]
  BY <1>1, MineTyped
<1>3. k \in Nat
  BY <1>1, <1>2, ConversionsOfReserve DEF Minted
<1>4. tx' = AfterRequest(r, reserve, p, i, tx.out, tx.health, tx.maxUtil)
  BY <1>2, ZenonT(60) DEF Supply, Request, AfterRequest, Mine, Txs
<1> HIDE DEF k
<1>5. Balanced(r, reserve, p)
  <2>1. tx.res[r].b_supply \in Nat /\ Mine.supply[r] \in Nat
    BY <1>2 DEF ReserveDatas, Positions
  <2>2. /\ b \in Nat /\ n \in Nat
        /\ b + Mine.supply[r] = tx.res[r].b_supply + n
    BY <1>3, <2>1
  <2> HIDE DEF b, n
  <2> QED BY <1>2, <2>2, SupplyBalanced
<1>6. i \in [Reserves -> Nat] /\ \A x \in Reserves \ {r} : i[x] = tx.in[x]
  BY <1>2
<1> HIDE DEF reserve, p, i
<1>7. IsRequest(r, reserve, p, i, tx.out, tx.health, tx.maxUtil)
  BY <1>1, <1>2, <1>4, <1>5, <1>6 DEF IsRequest
<1> QED BY <1>3, <1>7 DEF k, b, n, reserve, p, i

LEMMA SupplyCollateralIsRequest ==
  ASSUME IInv, NEW r \in Reserves, NEW a \in Nat, SupplyCollateral(r, a)
  PROVE  LET k == Minted(r, a)
         IN  /\ k \in Nat
             /\ IsRequest(r, [tx.res[r] EXCEPT !.b_supply = tx.res[r].b_supply + k],
                          [Mine EXCEPT !.collateral[r] = Mine.collateral[r] + k],
                          [tx.in EXCEPT ![r] = @ + a], tx.out, tx.health, tx.maxUtil)
<1> DEFINE k == Minted(r, a)
           b == tx.res[r].b_supply + k
           n == Mine.collateral[r] + k
           reserve == [tx.res[r] EXCEPT !.b_supply = b]
           p == [Mine EXCEPT !.collateral[r] = n]
           i == [tx.in EXCEPT ![r] = @ + a]
<1>1. Building /\ tx.res[r].b_rate > 0 /\ UNCHANGED <<env, book>>
  BY DEF SupplyCollateral, MaySupply
<1>2. /\ tx \in Txs /\ tx.from \in Holders /\ tx.res[r] \in ReserveDatas /\ Mine \in Positions
      /\ tx.in \in [Reserves -> Nat] /\ tx.out \in [Reserves -> Nat]
      /\ tx.maxUtil \in SUBSET Reserves /\ tx.health \in BOOLEAN
      /\ tx.res \in [Reserves -> ReserveDatas] /\ tx.pos \in [Holders -> Positions]
  BY <1>1, MineTyped
<1>3. k \in Nat
  BY <1>1, <1>2, ConversionsOfReserve DEF Minted
<1>4. tx' = AfterRequest(r, reserve, p, i, tx.out, tx.health, tx.maxUtil)
  BY <1>2, ZenonT(60) DEF SupplyCollateral, Request, AfterRequest, Mine, Txs
<1> HIDE DEF k
<1>5. Balanced(r, reserve, p)
  <2>1. tx.res[r].b_supply \in Nat /\ Mine.collateral[r] \in Nat
    BY <1>2 DEF ReserveDatas, Positions
  <2>2. /\ b \in Nat /\ n \in Nat
        /\ b + Mine.collateral[r] = tx.res[r].b_supply + n
    BY <1>3, <2>1
  <2> HIDE DEF b, n
  <2> QED BY <1>2, <2>2, CollateralBalanced
<1>6. i \in [Reserves -> Nat] /\ \A x \in Reserves \ {r} : i[x] = tx.in[x]
  BY <1>2
<1> HIDE DEF reserve, p, i
<1>7. IsRequest(r, reserve, p, i, tx.out, tx.health, tx.maxUtil)
  BY <1>1, <1>2, <1>4, <1>5, <1>6 DEF IsRequest
<1> QED BY <1>3, <1>7 DEF k, b, n, reserve, p, i

(* What a withdrawal burns and pays.                                       *)
LEMMA WithdrawalTyped ==
  ASSUME NEW r, tx.res[r] \in ReserveDatas, tx.res[r].b_rate > 0,
         NEW a \in Nat, NEW held \in Nat
  PROVE  /\ Burnt(r, a, held) \in 0..held
         /\ TokensOut(r, a, held) \in Nat
<1>1. ToBTokenUp(tx.res[r], a) \in Nat /\ ToAssetFromBToken(tx.res[r], held) \in Nat
  BY ConversionsOfReserve
<1> QED BY <1>1 DEF Burnt, TokensOut, MinOf

LEMMA WithdrawIsRequest ==
  ASSUME IInv, NEW r \in Reserves, NEW a \in Nat, Withdraw(r, a)
  PROVE  LET k == Burnt(r, a, Mine.supply[r])
         IN  /\ k \in 0..Mine.supply[r]
             /\ IsRequest(r, [tx.res[r] EXCEPT !.b_supply = tx.res[r].b_supply - k],
                          [Mine EXCEPT !.supply[r] = Mine.supply[r] - k],
                          tx.in, [tx.out EXCEPT ![r] = @ + TokensOut(r, a, Mine.supply[r])], tx.health, tx.maxUtil)
<1> DEFINE held == Mine.supply[r]
           k == Burnt(r, a, held)
           t == TokensOut(r, a, held)
           b == tx.res[r].b_supply - k
           n == held - k
           reserve == [tx.res[r] EXCEPT !.b_supply = b]
           p == [Mine EXCEPT !.supply[r] = n]
           o == [tx.out EXCEPT ![r] = @ + t]
<1>1. Building /\ tx.res[r].b_rate > 0 /\ UNCHANGED <<env, book>>
  BY DEF Withdraw, MayWithdraw
<1>2. /\ tx \in Txs /\ tx.from \in Holders /\ tx.res[r] \in ReserveDatas /\ Mine \in Positions
      /\ tx.in \in [Reserves -> Nat] /\ tx.out \in [Reserves -> Nat]
      /\ tx.maxUtil \in SUBSET Reserves /\ tx.health \in BOOLEAN
      /\ tx.res \in [Reserves -> ReserveDatas] /\ tx.pos \in [Holders -> Positions]
      /\ held \in Nat /\ Mine.collateral[r] \in Nat
      /\ Mine.collateral[r] + held <= tx.res[r].b_supply
  BY <1>1, MineTyped
<1>3. k \in 0..held /\ t \in Nat
  BY <1>1, <1>2, WithdrawalTyped
<1>4. tx' = AfterRequest(r, reserve, p, tx.in, o, tx.health, tx.maxUtil)
  BY <1>2, ZenonT(60) DEF Withdraw, Request, AfterRequest, Mine, Txs
<1> HIDE DEF k, t
<1>5. /\ b \in Nat /\ n \in Nat
      /\ b + held = tx.res[r].b_supply + n
  <2>1. tx.res[r].b_supply \in Nat
    BY <1>2 DEF ReserveDatas
  <2> HIDE DEF held
  <2> QED BY <1>2, <1>3, <2>1
<1>6. Balanced(r, reserve, p)
  <2> HIDE DEF b, n
  <2> QED BY <1>2, <1>5, SupplyBalanced
<1>7. o \in [Reserves -> Nat] /\ \A x \in Reserves \ {r} : o[x] = tx.out[x]
  BY <1>2, <1>3
<1> HIDE DEF reserve, p, o
<1>8. IsRequest(r, reserve, p, tx.in, o, tx.health, tx.maxUtil)
  BY <1>1, <1>2, <1>4, <1>6, <1>7 DEF IsRequest
<1> QED BY <1>3, <1>8 DEF k, t, b, n, held, reserve, p, o

LEMMA WithdrawCollateralIsRequest ==
  ASSUME IInv, NEW r \in Reserves, NEW a \in Nat, WithdrawCollateral(r, a)
  PROVE  LET k == Burnt(r, a, Mine.collateral[r])
         IN  /\ k \in 0..Mine.collateral[r]
             /\ IsRequest(r, [tx.res[r] EXCEPT !.b_supply = tx.res[r].b_supply - k],
                          [Mine EXCEPT !.collateral[r] = Mine.collateral[r] - k],
                          tx.in, [tx.out EXCEPT ![r] = @ + TokensOut(r, a, Mine.collateral[r])], TRUE, tx.maxUtil)
<1> DEFINE held == Mine.collateral[r]
           k == Burnt(r, a, held)
           t == TokensOut(r, a, held)
           b == tx.res[r].b_supply - k
           n == held - k
           reserve == [tx.res[r] EXCEPT !.b_supply = b]
           p == [Mine EXCEPT !.collateral[r] = n]
           o == [tx.out EXCEPT ![r] = @ + t]
<1>1. Building /\ tx.res[r].b_rate > 0 /\ UNCHANGED <<env, book>>
  BY DEF WithdrawCollateral, MayWithdraw
<1>2. /\ tx \in Txs /\ tx.from \in Holders /\ tx.res[r] \in ReserveDatas /\ Mine \in Positions
      /\ tx.in \in [Reserves -> Nat] /\ tx.out \in [Reserves -> Nat]
      /\ tx.maxUtil \in SUBSET Reserves /\ TRUE \in BOOLEAN
      /\ tx.res \in [Reserves -> ReserveDatas] /\ tx.pos \in [Holders -> Positions]
      /\ held \in Nat /\ Mine.supply[r] \in Nat
      /\ held + Mine.supply[r] <= tx.res[r].b_supply
  BY <1>1, MineTyped
<1>3. k \in 0..held /\ t \in Nat
  BY <1>1, <1>2, WithdrawalTyped
<1>4. tx' = AfterRequest(r, reserve, p, tx.in, o, TRUE, tx.maxUtil)
  BY <1>2, ZenonT(60) DEF WithdrawCollateral, Request, AfterRequest, Mine, Txs
<1> HIDE DEF k, t
<1>5. /\ b \in Nat /\ n \in Nat
      /\ b + held = tx.res[r].b_supply + n
  <2>1. tx.res[r].b_supply \in Nat
    BY <1>2 DEF ReserveDatas
  <2> HIDE DEF held
  <2> QED BY <1>2, <1>3, <2>1
<1>6. Balanced(r, reserve, p)
  <2> HIDE DEF b, n
  <2> QED BY <1>2, <1>5, CollateralBalanced
<1>7. o \in [Reserves -> Nat] /\ \A x \in Reserves \ {r} : o[x] = tx.out[x]
  BY <1>2, <1>3
<1> HIDE DEF reserve, p, o
<1>8. IsRequest(r, reserve, p, tx.in, o, TRUE, tx.maxUtil)
  BY <1>1, <1>2, <1>4, <1>6, <1>7 DEF IsRequest
<1> QED BY <1>3, <1>8 DEF k, t, b, n, held, reserve, p, o

LEMMA BorrowIsRequest ==
  ASSUME IInv, NEW r \in Reserves, NEW a \in Nat, Borrow(r, a)
  PROVE  LET k == ToDTokenUp(tx.res[r], a)
         IN  /\ k \in Nat
             /\ IsRequest(r, [tx.res[r] EXCEPT !.d_supply = tx.res[r].d_supply + k],
                          [Mine EXCEPT !.liabilities[r] = Mine.liabilities[r] + k],
                          tx.in, [tx.out EXCEPT ![r] = @ + a], TRUE, tx.maxUtil \cup {r})
<1> DEFINE k == ToDTokenUp(tx.res[r], a)
           b == tx.res[r].d_supply + k
           n == Mine.liabilities[r] + k
           reserve == [tx.res[r] EXCEPT !.d_supply = b]
           p == [Mine EXCEPT !.liabilities[r] = n]
           o == [tx.out EXCEPT ![r] = @ + a]
           m == tx.maxUtil \cup {r}
<1>1. Building /\ UNCHANGED <<env, book>>
  BY DEF Borrow
<1>2. /\ tx \in Txs /\ tx.from \in Holders /\ tx.res[r] \in ReserveDatas /\ Mine \in Positions
      /\ tx.in \in [Reserves -> Nat] /\ tx.out \in [Reserves -> Nat]
      /\ tx.maxUtil \in SUBSET Reserves /\ TRUE \in BOOLEAN
      /\ tx.res \in [Reserves -> ReserveDatas] /\ tx.pos \in [Holders -> Positions]
      /\ tx.res[r].d_rate \in Nat \ {0}
  BY <1>1, MineTyped
<1>3. k \in Nat
  BY <1>2, ConversionsOfReserve
<1>4. tx' = AfterRequest(r, reserve, p, tx.in, o, TRUE, m)
  BY <1>2, ZenonT(60) DEF Borrow, Request, AfterRequest, Mine, Txs
<1> HIDE DEF k
<1>5. Balanced(r, reserve, p)
  <2>1. tx.res[r].d_supply \in Nat /\ Mine.liabilities[r] \in Nat
    BY <1>2 DEF ReserveDatas, Positions
  <2>2. /\ b \in Nat /\ n \in Nat
        /\ b + Mine.liabilities[r] = tx.res[r].d_supply + n
    BY <1>3, <2>1
  <2> HIDE DEF b, n
  <2> QED BY <1>2, <2>2, DebtBalanced
<1>6. o \in [Reserves -> Nat] /\ (\A x \in Reserves \ {r} : o[x] = tx.out[x]) /\ m \in SUBSET Reserves
  BY <1>2
<1> HIDE DEF reserve, p, o, m
<1>7. IsRequest(r, reserve, p, tx.in, o, TRUE, m)
  BY <1>1, <1>2, <1>4, <1>5, <1>6 DEF IsRequest
<1> QED BY <1>3, <1>7 DEF k, b, n, reserve, p, o, m

(* What a repayment refunds.                                               *)
Refund(r, a) ==
  IF ToDTokenDown(tx.res[r], a) > Mine.liabilities[r]
  THEN a - ToAssetFromDToken(tx.res[r], Mine.liabilities[r])
  ELSE 0

LEMMA RepayIsRequest ==
  ASSUME IInv, NEW r \in Reserves, NEW a \in Nat, Repay(r, a)
  PROVE  LET k == MinOf(ToDTokenDown(tx.res[r], a), Mine.liabilities[r])
         IN  /\ k \in 0..Mine.liabilities[r]
             /\ Refund(r, a) \in 0..a
             /\ IsRequest(r, [tx.res[r] EXCEPT !.d_supply = tx.res[r].d_supply - k],
                          [Mine EXCEPT !.liabilities[r] = Mine.liabilities[r] - k],
                          [tx.in EXCEPT ![r] = @ + a], [tx.out EXCEPT ![r] = @ + Refund(r, a)],
                          tx.health, tx.maxUtil)
<1> DEFINE owed == Mine.liabilities[r]
           k == MinOf(ToDTokenDown(tx.res[r], a), owed)
           over == ToDTokenDown(tx.res[r], a) > owed
           refund == IF over THEN a - ToAssetFromDToken(tx.res[r], owed) ELSE 0
           b == tx.res[r].d_supply - k
           n == owed - k
           reserve == [tx.res[r] EXCEPT !.d_supply = b]
           p == [Mine EXCEPT !.liabilities[r] = n]
           i == [tx.in EXCEPT ![r] = @ + a]
           o == [tx.out EXCEPT ![r] = @ + refund]
<1>1. Building /\ refund >= 0 /\ UNCHANGED <<env, book>>
  BY DEF Repay
<1>2. /\ tx \in Txs /\ tx.from \in Holders /\ tx.res[r] \in ReserveDatas /\ Mine \in Positions
      /\ tx.in \in [Reserves -> Nat] /\ tx.out \in [Reserves -> Nat]
      /\ tx.maxUtil \in SUBSET Reserves /\ tx.health \in BOOLEAN
      /\ tx.res \in [Reserves -> ReserveDatas] /\ tx.pos \in [Holders -> Positions]
      /\ tx.res[r].d_rate \in Nat \ {0}
      /\ owed \in Nat /\ owed <= tx.res[r].d_supply
  BY <1>1, MineTyped
<1>3. ToDTokenDown(tx.res[r], a) \in Nat /\ ToAssetFromDToken(tx.res[r], owed) \in Nat
  BY <1>2, ConversionsOfReserve
<1>4. k \in 0..owed /\ refund \in 0..a /\ refund \in Nat
  BY <1>1, <1>2, <1>3 DEF MinOf
<1>5. tx' = AfterRequest(r, reserve, p, i, o, tx.health, tx.maxUtil)
  <2>1. tx' = [Request(r, reserve) EXCEPT !.pos[tx.from].liabilities[r] = @ - k,
                                          !.in[r] = @ + a,
                                          !.out[r] = @ + refund]
    BY DEF Repay
  <2> HIDE DEF k, refund
  <2> QED BY <1>2, <2>1, ZenonT(60) DEF Request, AfterRequest, Mine, Txs
<1> HIDE DEF k, refund, over
<1>6. /\ b \in Nat /\ n \in Nat
      /\ b + owed = tx.res[r].d_supply + n
  <2>1. tx.res[r].d_supply \in Nat
    BY <1>2 DEF ReserveDatas
  <2> HIDE DEF owed
  <2> QED BY <1>2, <1>4, <2>1
<1>7. Balanced(r, reserve, p)
  <2> HIDE DEF b, n
  <2> QED BY <1>2, <1>6, DebtBalanced
<1>8. /\ i \in [Reserves -> Nat] /\ \A x \in Reserves \ {r} : i[x] = tx.in[x]
      /\ o \in [Reserves -> Nat] /\ \A x \in Reserves \ {r} : o[x] = tx.out[x]
  BY <1>2, <1>4
<1> HIDE DEF reserve, p, i, o
<1>9. IsRequest(r, reserve, p, i, o, tx.health, tx.maxUtil)
  BY <1>1, <1>2, <1>5, <1>7, <1>8 DEF IsRequest
<1> QED BY <1>4, <1>9 DEF k, b, n, owed, over, refund, Refund, reserve, p, i, o

(* All of them keep the invariant.                                         *)
LEMMA AssetRequestKeepsIInv ==
  ASSUME IInv, NEW r \in Reserves, NEW a \in Nat,
         \/ Supply(r, a)
         \/ Withdraw(r, a)
         \/ SupplyCollateral(r, a)
         \/ WithdrawCollateral(r, a)
         \/ Borrow(r, a)
         \/ Repay(r, a)
  PROVE  IInv'
<1>1. \E reserve, p, i, o, h, m : IsRequest(r, reserve, p, i, o, h, m)
  BY Zenon, SupplyIsRequest, WithdrawIsRequest, SupplyCollateralIsRequest,
     WithdrawCollateralIsRequest, BorrowIsRequest, RepayIsRequest
<1> QED BY Zenon, <1>1, RequestKeepsIInv

---------------------------------------------------------------------------
(* The start, and the steps that leave reserves and positions alone.       *)
LEMMA InitHasIInv ==
  ASSUME Init
  PROVE  IInv
<1>1. TypeOK
  <2>1. price \in [Reserves -> Nat]
    BY LendingPoolAssumption DEF Init
  <2>2. \A r \in Reserves : NewReserve(0) \in ReserveDatas
    BY ScalarAssumption DEF NewReserve, ReserveDatas
  <2>3. Zero \in [Reserves -> Nat] /\ NoPositions \in Positions
    BY DEF Zero, NoPositions, Positions
  <2>4. NoAuction \in Auctions
    BY <2>3 DEF NoAuction, Auctions
  <2>5. Setup \in Statuses
    BY DEF Setup, Statuses
  <2> QED BY <2>1, <2>2, <2>3, <2>4, <2>5, LendingPoolAssumption DEF Init, TypeOK
<1>2. Matches(res, pos)
  <2> SUFFICES ASSUME NEW r \in Reserves
               PROVE  /\ res[r].b_supply = Total(BTokensOf(pos, r))
                      /\ res[r].d_supply = Total(DTokensOf(pos, r))
    BY DEF Matches
  <2>1. /\ BTokensOf(pos, r) \in [Holders -> Nat] /\ DTokensOf(pos, r) \in [Holders -> Nat]
        /\ \A h \in Holders : BTokensOf(pos, r)[h] = 0 /\ DTokensOf(pos, r)[h] = 0
    BY DEF Init, BTokensOf, DTokensOf, NoPositions, Zero
  <2>2. Total(BTokensOf(pos, r)) = 0 /\ Total(DTokensOf(pos, r)) = 0
    BY <2>1, HoldersFinite, TotalOfZeros
  <2> QED BY <2>2 DEF Init, NewReserve
<1>3. Grown(res)
  BY LendingPoolAssumption, ScalarAssumption DEF Init, Grown, Timestamp, NewReserve
<1>4. Idle
  BY DEF Init, Idle, NoTx
<1> QED BY <1>1, <1>2, <1>3, <1>4 DEF IInv

(* Time only makes room for reserves to be brought up to it.               *)
LEMMA TimestampIsNat ==
  ASSUME TypeOK
  PROVE  Timestamp \in Nat
BY LendingPoolAssumption DEF TypeOK, Timestamp

(* Steps outside of calls that neither reserves nor positions notice.      *)
LEMMA QuietStepKeepsIInv ==
  ASSUME IInv, TypeOK', UNCHANGED <<res, pos>>, now' \in Nat, now' >= now, tx' = NoTx
  PROVE  IInv'
<1>1. Timestamp \in Nat /\ Timestamp' \in Nat /\ Timestamp <= Timestamp'
  <2>1. now \in Nat /\ now' \in Nat /\ LEDGER_SECONDS \in Nat /\ now <= now'
    BY LendingPoolAssumption DEF IInv, TypeOK
  <2> QED BY <2>1, ProductOrder DEF Timestamp
<1>2. Grown(res)'
  <2>1. \A r \in Reserves : res[r].last_time \in Nat
    BY DEF IInv, TypeOK, ReserveDatas
  <2> QED BY <1>1, <2>1 DEF IInv, Grown
<1>3. Matches(res, pos)'
  BY DEF IInv, Matches, BTokensOf, DTokensOf
<1>4. Idle'
  BY DEF Idle, NoTx
<1> QED BY <1>2, <1>3, <1>4 DEF IInv

LEMMA IdleIsNoTx ==
  ASSUME TypeOK, Idle
  PROVE  tx = NoTx
BY DEF TypeOK, Idle, Txs

LEMMA WorldKeepsIInv ==
  ASSUME IInv, World
  PROVE  IInv'
<1> USE DEF IInv
<1>1. now \in Nat /\ now' \in Nat /\ now' >= now
  BY DEF World, Tick, ReportPrice, BackstopChanges, Donate, env, TypeOK
<1>2. UNCHANGED <<res, pos>> /\ tx' = NoTx
  BY IdleIsNoTx DEF World, Tick, ReportPrice, BackstopChanges, Donate, env, book
<1>3. TypeOK'
  <2>1. CASE Tick
    BY <2>1, LendingPoolAssumption DEF TypeOK, Tick, book
  <2>2. CASE \E r \in Reserves : \E p \in Prices[r] : ReportPrice(r, p)
    BY <2>2, LendingPoolAssumption DEF TypeOK, ReportPrice, book
  <2>3. CASE \E b \in BackstopLevels : BackstopChanges(b)
    BY <2>3, LendingPoolAssumption DEF TypeOK, BackstopChanges, book
  <2>4. CASE \E r \in Reserves, a \in Donations : Donate(r, a)
    BY <2>4, LendingPoolAssumption DEF TypeOK, Donate, env
  <2> QED BY <2>1, <2>2, <2>3, <2>4 DEF World
<1> QED BY <1>1, <1>2, <1>3, QuietStepKeepsIInv

LEMMA AbortKeepsIInv ==
  ASSUME IInv, Abort
  PROVE  IInv'
<1>1. TypeOK'
  BY DEF IInv, TypeOK, Abort, env, book
<1>2. UNCHANGED <<res, pos>> /\ now' \in Nat /\ now' >= now /\ tx' = NoTx
  BY DEF IInv, TypeOK, Abort, env, book
<1> QED BY <1>1, <1>2, QuietStepKeepsIInv

LEMMA StatusKeepsIInv ==
  ASSUME IInv, UpdateStatus \/ \E s \in AdminStatuses : SetStatus(s)
  PROVE  IInv'
<1>1. status' \in Statuses
  <2>1. UpdatedStatus(status, backstop) \in Statuses
    BY DEF UpdatedStatus, Statuses, AdminActive, Active, AdminOnIce, OnIce, Frozen
  <2> QED BY <2>1, LendingPoolAssumption DEF UpdateStatus, SetStatus
<1>2. Idle /\ UNCHANGED <<now, price, backstop, book, tx>>
  BY DEF UpdateStatus, SetStatus
<1>3. TypeOK'
  BY <1>1, <1>2 DEF IInv, TypeOK, book
<1>4. UNCHANGED <<res, pos>> /\ now' \in Nat /\ now' >= now /\ tx' = NoTx
  BY <1>2, IdleIsNoTx DEF IInv, TypeOK, book
<1> QED BY <1>3, <1>4, QuietStepKeepsIInv

LEMMA DeleteStaleKeepsIInv ==
  ASSUME IInv, NEW u \in Users, DeleteStaleAuction(u)
  PROVE  IInv'
<1>1. NoAuction \in Auctions
  BY DEF NoAuction, Auctions, Zero
<1>2. TypeOK'
  BY <1>1 DEF IInv, TypeOK, DeleteStaleAuction, env
<1>3. UNCHANGED <<res, pos>> /\ now' \in Nat /\ now' >= now /\ tx' = NoTx
  BY IdleIsNoTx DEF IInv, TypeOK, DeleteStaleAuction, env
<1> QED BY <1>2, <1>3, QuietStepKeepsIInv

---------------------------------------------------------------------------
(* Opening and closing a call.                                             *)

(* Loaded, a reserve has the supplies and at least the rates it is stored  *)
(* with.                                                                   *)
LEMMA LoadedUpdates ==
  ASSUME IInv, NEW r \in Reserves
  PROVE  /\ Updated(res[r], Loaded(r), Timestamp)
         /\ Loaded(r).d_rate >= SCALAR_12
<1>1. /\ res[r] \in ReserveDatas /\ res[r].last_time <= Timestamp
      /\ res[r].d_rate >= SCALAR_12
  BY DEF IInv, TypeOK, Grown
<1>2. Timestamp \in Nat
  BY TimestampIsNat DEF IInv
<1>3. BstopRate \in 0..(SCALAR_7 - 1) /\ Config[r] \in ReserveConfigs
  BY LendingPoolAssumption, HealthAssumption
<1>4. Updated(res[r], Loaded(r), Timestamp)
  BY <1>1, <1>2, <1>3, LoadingUpdates DEF Loaded
<1>5. Loaded(r).d_rate \in Nat /\ res[r].d_rate \in Nat /\ SCALAR_12 \in Nat
  BY <1>1, <1>4, ScalarAssumption DEF Updated, ReserveDatas
<1>6. Loaded(r).d_rate >= SCALAR_12
  BY <1>1, <1>4, <1>5 DEF Updated
<1> QED BY <1>4, <1>6

(* What a call opens with.                                                 *)
LEMMA OpenedViewOK ==
  ASSUME IInv, NEW u \in Users
  PROVE  LET rs == [r \in Reserves |-> Loaded(r)]
         IN  /\ rs \in [Reserves -> ReserveDatas]
             /\ Matches(rs, pos) /\ Grown(rs)
             /\ \A r \in Reserves : rs[r].d_rate >= res[r].d_rate /\ rs[r].b_rate >= res[r].b_rate
             /\ \A r \in Reserves : rs[r].b_supply = res[r].b_supply
                                    /\ rs[r].d_supply = res[r].d_supply
             /\ \A r \in Reserves : rs[r] = Loaded(r) /\ rs[r].last_time = Timestamp
             /\ Opened(u) \in Txs
<1> DEFINE rs == [r \in Reserves |-> Loaded(r)]
<1>1. \A r \in Reserves : rs[r] = Loaded(r)
  OBVIOUS
<1>2. \A r \in Reserves : Updated(res[r], Loaded(r), Timestamp) /\ Loaded(r).d_rate >= SCALAR_12
  BY LoadedUpdates
<1>3. rs \in [Reserves -> ReserveDatas]
  BY <1>2 DEF Updated
<1>4. \A r \in Reserves : /\ rs[r].d_rate >= res[r].d_rate /\ rs[r].b_rate >= res[r].b_rate
                          /\ rs[r].b_supply = res[r].b_supply
                          /\ rs[r].d_supply = res[r].d_supply
                          /\ rs[r].d_rate >= SCALAR_12
                          /\ rs[r].last_time = Timestamp
  BY <1>1, <1>2 DEF Updated
<1> HIDE DEF rs
<1>5. Matches(rs, pos)
  BY <1>4 DEF IInv, Matches
<1>6. Grown(rs)
  BY <1>4, TimestampIsNat DEF IInv, Grown
<1>7. EffectiveCount(pos[u]) \in Nat
  <2>1. IsFiniteSet(Held(pos[u].liabilities)) /\ IsFiniteSet(Held(pos[u].collateral))
    BY HealthAssumption, FS_Subset DEF Held
  <2> QED BY <2>1, FS_CardinalityType DEF EffectiveCount
<1>8. Opened(u) \in Txs
  <2>1. Zero \in [Reserves -> Nat] /\ MaxRequests \in 0..MaxRequests
    BY LendingPoolAssumption DEF Zero
  <2>2. /\ pos \in [Holders -> Positions] /\ auction \in [Users -> Auctions]
        /\ bal \in [Reserves -> Nat]
    BY DEF IInv, TypeOK
  <2>3. Opened(u).res \in [Reserves -> ReserveDatas]
    BY <1>3 DEF Opened, rs
  <2> QED BY <1>3, <1>7, <2>1, <2>2 DEF Opened, Txs, rs
<1>9. \A r \in Reserves : rs[r] = Loaded(r) /\ rs[r].last_time = Timestamp
  BY <1>1, <1>4
<1> QED BY <1>3, <1>4, <1>5, <1>6, <1>8, <1>9 DEF rs

LEMMA SubmitKeepsIInv ==
  ASSUME IInv, NEW u \in Users, Submit(u)
  PROVE  IInv'
<1> DEFINE rs == [r \in Reserves |-> Loaded(r)]
<1>1. /\ rs \in [Reserves -> ReserveDatas]
      /\ Matches(rs, pos) /\ Grown(rs)
      /\ \A r \in Reserves : rs[r].d_rate >= res[r].d_rate /\ rs[r].b_rate >= res[r].b_rate
      /\ \A r \in Reserves : rs[r].b_supply = res[r].b_supply
                             /\ rs[r].d_supply = res[r].d_supply
      /\ \A r \in Reserves : rs[r] = Loaded(r) /\ rs[r].last_time = Timestamp
      /\ Opened(u) \in Txs
  BY OpenedViewOK
<1>2. /\ tx' = Opened(u) /\ UNCHANGED <<env, book>>
      /\ tx'.res = rs /\ tx'.pos = pos /\ tx'.touched = {} /\ tx'.bal = bal
      /\ tx'.in = Zero /\ tx'.out = Zero /\ tx'.flash = Zero
  BY DEF Submit, Opened
<1> HIDE DEF rs
<1>3. TypeOK'
  BY <1>1, <1>2 DEF IInv, TypeOK, env, book
<1>4. Matches(res, pos)' /\ Grown(res)'
  BY <1>2 DEF IInv, env, book, Matches, Grown, Timestamp, BTokensOf, DTokensOf
<1>5. Matches(tx.res, tx.pos)' /\ Grown(tx.res)'
  BY <1>1, <1>2 DEF Matches, BTokensOf, DTokensOf, Grown, Timestamp, env
<1>6. ViewFollows'
  <2>1. \A r \in Reserves : Zero[r] = 0 /\ bal[r] \in Nat
    BY DEF Zero, IInv, TypeOK
  <2> QED BY <1>1, <1>2, <2>1 DEF ViewFollows, Loaded, Timestamp, env, book
<1> QED BY <1>3, <1>4, <1>5, <1>6 DEF IInv, ViewOK

LEMMA FlashLoanKeepsIInv ==
  ASSUME IInv, NEW u \in Users, NEW r \in Reserves, NEW a \in Nat, FlashLoan(u, r, a)
  PROVE  IInv'
<1> DEFINE rs == [x \in Reserves |-> Loaded(x)]
           d == rs[r].d_supply + ToDTokenUp(rs[r], a)
           n == pos[u].liabilities[r] + ToDTokenUp(rs[r], a)
           reserve == [rs[r] EXCEPT !.d_supply = d]
           p == [pos[u] EXCEPT !.liabilities[r] = n]
<1>1. /\ rs \in [Reserves -> ReserveDatas]
      /\ Matches(rs, pos) /\ Grown(rs)
      /\ \A x \in Reserves : rs[x].d_rate >= res[x].d_rate /\ rs[x].b_rate >= res[x].b_rate
      /\ \A x \in Reserves : rs[x].b_supply = res[x].b_supply
                             /\ rs[x].d_supply = res[x].d_supply
      /\ \A x \in Reserves : rs[x] = Loaded(x) /\ rs[x].last_time = Timestamp
      /\ Opened(u) \in Txs
  BY OpenedViewOK
<1>2. UNCHANGED <<env, book>>
  BY DEF FlashLoan
<1>3. tx' = [Opened(u) EXCEPT !.res[r] = reserve,
                              !.pos[u].liabilities[r] = n,
                              !.touched = {r},
                              !.flash[r] = a,
                              !.health = TRUE,
                              !.maxUtil = {r}]
  BY DEF FlashLoan, Opened
<1>4. /\ u \in Holders /\ pos \in [Holders -> Positions] /\ pos[u] \in Positions
      /\ pos[u].liabilities[r] \in Nat /\ pos[u].liabilities \in [Reserves -> Nat]
      /\ pos[u].collateral \in [Reserves -> Nat] /\ pos[u].supply \in [Reserves -> Nat]
      /\ bal \in [Reserves -> Nat] /\ auction \in [Users -> Auctions]
  BY DEF IInv, TypeOK, Holders, Positions
<1>5. rs[r] \in ReserveDatas /\ rs[r].d_supply \in Nat /\ rs[r].d_rate > 0
  BY <1>1, ScalarAssumption DEF Grown, ReserveDatas
<1>6. ToDTokenUp(rs[r], a) \in Nat
  BY <1>5, ConversionsOfReserve
<1>7. /\ tx'.res = [rs EXCEPT ![r] = reserve]
      /\ tx'.pos = [pos EXCEPT ![u] = p]
      /\ tx'.touched = {r} /\ tx'.bal = bal /\ tx'.phase = "build" /\ tx'.from = u
      /\ tx'.in = Zero /\ tx'.out = Zero /\ tx'.flash = [Zero EXCEPT ![r] = a]
      /\ tx'.auction = auction /\ tx'.health = TRUE /\ tx'.maxUtil = {r}
  BY <1>3 DEF Opened
<1>8. d \in Nat /\ n \in Nat /\ d + pos[u].liabilities[r] = rs[r].d_supply + n
  <2> DEFINE k == ToDTokenUp(rs[r], a)
             b == rs[r].d_supply
             o == pos[u].liabilities[r]
  <2>1. k \in Nat /\ b \in Nat /\ o \in Nat /\ d = b + k /\ n = o + k
    BY <1>4, <1>5, <1>6
  <2> HIDE DEF k, b, o, d, n
  <2>2. d \in Nat /\ n \in Nat /\ d + o = b + n
    BY <2>1
  <2> QED BY <2>2 DEF b, o
<1> HIDE DEF d, n
<1>9. /\ reserve \in ReserveDatas
      /\ reserve.d_supply = d /\ reserve.b_supply = rs[r].b_supply
      /\ reserve.d_rate = rs[r].d_rate /\ reserve.b_rate = rs[r].b_rate
      /\ reserve.last_time = rs[r].last_time
  BY <1>5, <1>8 DEF ReserveDatas
<1>10. /\ p \in Positions
       /\ p.liabilities[r] = n /\ p.collateral = pos[u].collateral /\ p.supply = pos[u].supply
       /\ \A x \in Reserves \ {r} : p.liabilities[x] = pos[u].liabilities[x]
  BY <1>4, <1>8 DEF Positions
<1>11. tx'.prev \in Nat /\ tx'.left \in 0..MaxRequests
  BY <1>1, <1>3 DEF Txs
<1>12. tx' \in Txs
  <2>1. /\ [rs EXCEPT ![r] = reserve] \in [Reserves -> ReserveDatas]
        /\ [pos EXCEPT ![u] = p] \in [Holders -> Positions]
        /\ Zero \in [Reserves -> Nat] /\ [Zero EXCEPT ![r] = a] \in [Reserves -> Nat]
    BY <1>1, <1>4, <1>9, <1>10 DEF Zero
  <2>2. tx' = [phase |-> tx'.phase, from |-> tx'.from, res |-> tx'.res, pos |-> tx'.pos,
               auction |-> tx'.auction, bal |-> tx'.bal, touched |-> tx'.touched,
               in |-> tx'.in, out |-> tx'.out, flash |-> tx'.flash,
               health |-> tx'.health, maxUtil |-> tx'.maxUtil,
               prev |-> tx'.prev, left |-> tx'.left]
    BY <1>3 DEF Opened
  <2> HIDE DEF rs, reserve, p
  <2> QED BY <1>4, <1>7, <1>11, <2>1, <2>2 DEF Txs
<1> HIDE DEF reserve, p, rs
<1>13. TypeOK'
  BY <1>2, <1>12 DEF IInv, TypeOK, env, book
<1>14. Matches(res, pos)' /\ Grown(res)'
  BY <1>2 DEF IInv, env, book, Matches, Grown, Timestamp, BTokensOf, DTokensOf
<1>15. Matches(tx.res, tx.pos)'
  <2>1. /\ rs[r].b_supply \in Nat /\ p.collateral[r] \in Nat /\ p.supply[r] \in Nat
        /\ reserve.b_supply + pos[u].collateral[r] + pos[u].supply[r]
             = rs[r].b_supply + p.collateral[r] + p.supply[r]
    BY <1>4, <1>5, <1>9, <1>10 DEF ReserveDatas
  <2>2. reserve.d_supply + pos[u].liabilities[r] = rs[r].d_supply + p.liabilities[r]
    BY <1>8, <1>9, <1>10
  <2>3. \A x \in Reserves \ {r} : /\ p.collateral[x] = pos[u].collateral[x]
                                  /\ p.supply[x] = pos[u].supply[x]
                                  /\ p.liabilities[x] = pos[u].liabilities[x]
    BY <1>10
  <2>4. Matches([rs EXCEPT ![r] = reserve], [pos EXCEPT ![u] = p])
    BY <1>1, <1>4, <1>9, <1>10, <2>1, <2>2, <2>3, MatchesAfterChange
  <2> QED BY <2>4, <1>7 DEF Matches, BTokensOf, DTokensOf
<1>16. Grown(tx.res)'
  BY <1>1, <1>2, <1>7, <1>9 DEF Grown, Timestamp, env
<1>17. ViewFollows'
  <2>1. \A x \in Reserves \ {r} : Zero[x] = 0 /\ [Zero EXCEPT ![r] = a][x] = 0 /\ bal[x] \in Nat
    BY <1>4 DEF Zero
  <2> QED BY <1>1, <1>2, <1>7, <1>9, <2>1 DEF ViewFollows, Loaded, Timestamp, env, book
<1> QED BY <1>13, <1>14, <1>15, <1>16, <1>17 DEF IInv, ViewOK

(* Making the view the ledger.                                             *)
LEMMA SettleKeepsIInv ==
  ASSUME IInv, ~Idle, Settle
  PROVE  IInv'
<1>1. TypeOK /\ ViewOK
  BY DEF IInv
<1>2. /\ tx.res \in [Reserves -> ReserveDatas] /\ tx.pos \in [Holders -> Positions]
      /\ tx.auction \in [Users -> Auctions]
  BY <1>1, ViewTyped
<1>3. /\ res' \in [Reserves -> ReserveDatas]
      /\ \A r \in Reserves : res'[r] = IF r \in tx.touched THEN tx.res[r] ELSE res[r]
      /\ pos' = tx.pos /\ tx' = NoTx /\ UNCHANGED env
  BY <1>1, <1>2 DEF Settle, TypeOK
<1>4. TypeOK'
  <2>1. bal' \in [Reserves -> Nat]
    BY DEF Settle
  <2>2. auction' = tx.auction /\ unbacked' = unbacked
    BY DEF Settle
  <2> QED BY <1>1, <1>2, <1>3, <2>1, <2>2 DEF TypeOK, env
<1>5. \A r \in Reserves : res'[r].b_supply = tx.res[r].b_supply
                          /\ res'[r].d_supply = tx.res[r].d_supply
  BY <1>1, <1>3 DEF ViewOK, ViewFollows
<1>6. Matches(res', pos')
  BY <1>1, <1>3, <1>5 DEF ViewOK, Matches
<1>7. Matches(res, pos)'
  BY <1>6 DEF Matches, BTokensOf, DTokensOf
<1>8. Grown(res)'
  BY <1>1, <1>3 DEF IInv, ViewOK, Grown, Timestamp, env
<1>9. Idle'
  BY <1>3 DEF Idle, NoTx
<1> QED BY <1>4, <1>7, <1>8, <1>9 DEF IInv

LEMMA CommitKeepsIInv ==
  ASSUME IInv, Commit \/ CommitFlashLoan
  PROVE  IInv'
<1>1. ~Idle /\ Settle
  BY DEF Commit, CommitFlashLoan, Idle
<1> QED BY <1>1, SettleKeepsIInv

(* Steps of a call that change the transfers only.                         *)
LEMMA TransferKeepsIInv ==
  ASSUME IInv, ~Idle, CallReceiver \/ \E r \in Reserves, a \in Donations : ReceiverPaysPool(r, a)
  PROVE  IInv'
<1>1. TypeOK /\ ViewOK /\ UNCHANGED <<env, book>>
  BY DEF IInv, CallReceiver, ReceiverPaysPool
<1>2. tx \in Txs /\ tx.bal \in [Reserves -> Nat] /\ tx.flash \in [Reserves -> Nat]
  BY <1>1, ViewTyped
<1>3. /\ tx' \in Txs
      /\ tx'.res = tx.res /\ tx'.pos = tx.pos /\ tx'.touched = tx.touched
      /\ tx'.in = tx.in /\ tx'.out = tx.out /\ tx'.flash = tx.flash
      /\ \A r \in Reserves : tx.flash[r] = 0 => tx'.bal[r] >= tx.bal[r]
      /\ tx'.bal \in [Reserves -> Nat]
  <2>1. CASE CallReceiver
    <3> DEFINE paid == [r \in Reserves |-> tx.bal[r] - tx.flash[r]]
    <3>1. paid \in [Reserves -> Nat] /\ \A r \in Reserves : tx.flash[r] = 0 => paid[r] >= tx.bal[r]
      BY <1>2, <2>1 DEF CallReceiver
    <3>2. tx' = [tx EXCEPT !.phase = "callback", !.bal = paid]
      BY <2>1 DEF CallReceiver
    <3> HIDE DEF paid
    <3> QED BY <1>2, <3>1, <3>2 DEF Txs
  <2>2. CASE \E r \in Reserves, a \in Donations : ReceiverPaysPool(r, a)
    <3>1. PICK r \in Reserves, a \in Donations : ReceiverPaysPool(r, a)
      BY <2>2
    <3> DEFINE paid == [tx.bal EXCEPT ![r] = @ + a]
    <3>2. a \in Nat
      BY LendingPoolAssumption
    <3>3. paid \in [Reserves -> Nat] /\ \A x \in Reserves : paid[x] >= tx.bal[x]
      BY <1>2, <3>2
    <3>4. tx' = [tx EXCEPT !.bal = paid]
      BY <1>2, <3>1 DEF ReceiverPaysPool, Txs
    <3> HIDE DEF paid
    <3> QED BY <1>2, <3>3, <3>4 DEF Txs
  <2> QED BY <2>1, <2>2
<1>4. TypeOK'
  BY <1>1, <1>3 DEF TypeOK, env, book
<1>5. Matches(res, pos)' /\ Grown(res)'
  BY <1>1 DEF IInv, env, book, Matches, Grown, Timestamp, BTokensOf, DTokensOf
<1>6. Matches(tx.res, tx.pos)' /\ Grown(tx.res)'
  BY <1>1, <1>3 DEF ViewOK, Matches, BTokensOf, DTokensOf, Grown, Timestamp, env
<1>7. ViewFollows'
  <2>1. \A r \in Reserves : bal[r] \in Nat /\ tx.bal[r] \in Nat /\ tx'.bal[r] \in Nat
    BY <1>1, <1>2, <1>3 DEF TypeOK
  <2> QED BY <1>1, <1>3, <2>1 DEF ViewOK, ViewFollows, Loaded, Timestamp, env, book
<1> QED BY <1>4, <1>5, <1>6, <1>7 DEF IInv, ViewOK

LEMMA DeleteLiquidationKeepsIInv ==
  ASSUME IInv, DeleteLiquidation
  PROVE  IInv'
<1>1. TypeOK /\ ~Idle /\ ViewOK /\ UNCHANGED <<env, book>> /\ Building
  BY DEF IInv, DeleteLiquidation, Building, Idle
<1>2. tx \in Txs /\ tx.auction \in [Users -> Auctions] /\ tx.left \in 0..MaxRequests
  BY <1>1, ViewTyped
<1>3. tx.left - 1 \in 0..MaxRequests
  BY <1>1, <1>2, LendingPoolAssumption DEF Building
<1>4. NoAuction \in Auctions
  BY DEF NoAuction, Auctions, Zero
<1>5. /\ tx' \in Txs
      /\ tx'.res = tx.res /\ tx'.pos = tx.pos /\ tx'.touched = tx.touched
      /\ tx'.in = tx.in /\ tx'.out = tx.out /\ tx'.flash = tx.flash /\ tx'.bal = tx.bal
  BY <1>2, <1>3, <1>4 DEF DeleteLiquidation, Txs
<1>6. TypeOK'
  BY <1>1, <1>5 DEF TypeOK, env, book
<1>7. Matches(res, pos)' /\ Grown(res)'
  BY <1>1 DEF IInv, env, book, Matches, Grown, Timestamp, BTokensOf, DTokensOf
<1>8. Matches(tx.res, tx.pos)' /\ Grown(tx.res)'
  BY <1>1, <1>5 DEF ViewOK, Matches, BTokensOf, DTokensOf, Grown, Timestamp, env
<1>9. ViewFollows'
  BY <1>1, <1>5 DEF ViewOK, ViewFollows, Loaded, Timestamp, env, book
<1> QED BY <1>6, <1>7, <1>8, <1>9 DEF IInv, ViewOK

---------------------------------------------------------------------------
(* Fills.                                                                  *)

(* Positions between which tokens have moved: the totals are the same.     *)
LEMMA MatchesAfterMove ==
  ASSUME NEW rs, NEW ps \in [Holders -> Positions], NEW qs \in [Holders -> Positions],
         Matches(rs, ps), NEW g \in Holders, NEW h \in Holders, g # h,
         \A x \in Holders \ {g, h} : qs[x] = ps[x],
         \A r \in Reserves :
           /\ qs[g].collateral[r] + qs[h].collateral[r] = ps[g].collateral[r] + ps[h].collateral[r]
           /\ qs[g].liabilities[r] + qs[h].liabilities[r] = ps[g].liabilities[r] + ps[h].liabilities[r]
           /\ qs[g].supply[r] = ps[g].supply[r]
           /\ qs[h].supply[r] = ps[h].supply[r]
  PROVE  Matches(rs, qs)
<1> SUFFICES ASSUME NEW r \in Reserves
             PROVE  /\ Total(BTokensOf(qs, r)) = Total(BTokensOf(ps, r))
                    /\ Total(DTokensOf(qs, r)) = Total(DTokensOf(ps, r))
  BY DEF Matches
<1>1. /\ BTokensOf(ps, r) \in [Holders -> Nat] /\ DTokensOf(ps, r) \in [Holders -> Nat]
      /\ BTokensOf(qs, r) \in [Holders -> Nat] /\ DTokensOf(qs, r) \in [Holders -> Nat]
  BY TokensTyped
<1>2. \A x \in Holders \ {g, h} : /\ BTokensOf(ps, r)[x] = BTokensOf(qs, r)[x]
                                  /\ DTokensOf(ps, r)[x] = DTokensOf(qs, r)[x]
  BY DEF BTokensOf, DTokensOf
<1>3. \A x \in Holders : /\ BTokensOf(ps, r)[x] = ps[x].collateral[r] + ps[x].supply[r]
                         /\ BTokensOf(qs, r)[x] = qs[x].collateral[r] + qs[x].supply[r]
                         /\ DTokensOf(ps, r)[x] = ps[x].liabilities[r]
                         /\ DTokensOf(qs, r)[x] = qs[x].liabilities[r]
  BY DEF BTokensOf, DTokensOf
<1>4. \A x \in Holders : /\ ps[x].collateral[r] \in Nat /\ ps[x].supply[r] \in Nat
                         /\ qs[x].collateral[r] \in Nat /\ qs[x].supply[r] \in Nat
  BY DEF Positions
<1>5. BTokensOf(ps, r)[g] + BTokensOf(ps, r)[h] = BTokensOf(qs, r)[g] + BTokensOf(qs, r)[h]
  <2> DEFINE a == ps[g].collateral[r]
             b == ps[g].supply[r]
             c == ps[h].collateral[r]
             d == ps[h].supply[r]
             e == qs[g].collateral[r]
             f == qs[h].collateral[r]
  <2>1. /\ a \in Nat /\ b \in Nat /\ c \in Nat /\ d \in Nat /\ e \in Nat /\ f \in Nat
        /\ e + f = a + c
    BY <1>4
  <2>2. /\ BTokensOf(ps, r)[g] = a + b /\ BTokensOf(ps, r)[h] = c + d
        /\ BTokensOf(qs, r)[g] = e + b /\ BTokensOf(qs, r)[h] = f + d
    BY <1>3
  <2> HIDE DEF a, b, c, d, e, f
  <2> QED BY <2>1, <2>2
<1>6. DTokensOf(ps, r)[g] + DTokensOf(ps, r)[h] = DTokensOf(qs, r)[g] + DTokensOf(qs, r)[h]
  BY <1>3
<1> QED BY <1>1, <1>2, <1>5, <1>6, HoldersFinite, TotalMove

LEMMA MovedMatches ==
  ASSUME NEW rs, NEW ps \in [Holders -> Positions], Matches(rs, ps),
         NEW g \in Holders, NEW h \in Holders, g # h,
         NEW a, a.lot \in [Reserves -> Nat], a.bid \in [Reserves -> Nat],
         Covers(ps[g], a)
  PROVE  /\ Moved(ps, g, h, a) \in [Holders -> Positions]
         /\ Matches(rs, Moved(ps, g, h, a))
         /\ \A x \in Holders \ {g, h} : Moved(ps, g, h, a)[x] = ps[x]
         /\ \A r \in Reserves :
              /\ Moved(ps, g, h, a)[g].collateral[r] = ps[g].collateral[r] - a.lot[r]
              /\ Moved(ps, g, h, a)[g].liabilities[r] = ps[g].liabilities[r] - a.bid[r]
<1> DEFINE qs == Moved(ps, g, h, a)
           pg == [ps[g] EXCEPT !.collateral = Minus(@, a.lot), !.liabilities = Minus(@, a.bid)]
           ph == [ps[h] EXCEPT !.collateral = Plus(@, a.lot), !.liabilities = Plus(@, a.bid)]
<1>1. ps[g] \in Positions /\ ps[h] \in Positions
  OBVIOUS
<1>2. qs = [ps EXCEPT ![g] = pg, ![h] = ph]
  BY <1>1 DEF Moved, Positions
<1>3. \A r \in Reserves :
        /\ ps[g].collateral[r] \in Nat /\ ps[g].liabilities[r] \in Nat
        /\ ps[h].collateral[r] \in Nat /\ ps[h].liabilities[r] \in Nat
        /\ a.lot[r] \in Nat /\ a.bid[r] \in Nat
        /\ a.lot[r] <= ps[g].collateral[r] /\ a.bid[r] <= ps[g].liabilities[r]
  BY <1>1 DEF Positions, Covers
<1>4. /\ Minus(ps[g].collateral, a.lot) \in [Reserves -> Nat]
      /\ Minus(ps[g].liabilities, a.bid) \in [Reserves -> Nat]
      /\ Plus(ps[h].collateral, a.lot) \in [Reserves -> Nat]
      /\ Plus(ps[h].liabilities, a.bid) \in [Reserves -> Nat]
  BY <1>3 DEF Minus, Plus
<1>5. /\ pg \in Positions /\ ph \in Positions
      /\ pg.collateral = Minus(ps[g].collateral, a.lot)
      /\ pg.liabilities = Minus(ps[g].liabilities, a.bid)
      /\ ph.collateral = Plus(ps[h].collateral, a.lot)
      /\ ph.liabilities = Plus(ps[h].liabilities, a.bid)
      /\ pg.supply = ps[g].supply /\ ph.supply = ps[h].supply
  BY <1>1, <1>4 DEF Positions
<1> HIDE DEF pg, ph, qs
<1>6. /\ qs \in [Holders -> Positions] /\ qs[g] = pg /\ qs[h] = ph
      /\ \A x \in Holders \ {g, h} : qs[x] = ps[x]
  BY <1>2, <1>5
<1>7. ASSUME NEW r \in Reserves
      PROVE  /\ qs[g].collateral[r] + qs[h].collateral[r] = ps[g].collateral[r] + ps[h].collateral[r]
             /\ qs[g].liabilities[r] + qs[h].liabilities[r] = ps[g].liabilities[r] + ps[h].liabilities[r]
             /\ qs[g].collateral[r] = ps[g].collateral[r] - a.lot[r]
             /\ qs[g].liabilities[r] = ps[g].liabilities[r] - a.bid[r]
  <2>1. /\ qs[g].collateral[r] = ps[g].collateral[r] - a.lot[r]
        /\ qs[g].liabilities[r] = ps[g].liabilities[r] - a.bid[r]
        /\ qs[h].collateral[r] = ps[h].collateral[r] + a.lot[r]
        /\ qs[h].liabilities[r] = ps[h].liabilities[r] + a.bid[r]
    BY <1>5, <1>6 DEF Minus, Plus
  <2> QED BY <1>3, <2>1
<1>8. /\ qs[g].supply = ps[g].supply /\ qs[h].supply = ps[h].supply
  BY <1>5, <1>6
<1>9. Matches(rs, qs)
  <2>1. \A r \in Reserves :
          /\ qs[g].collateral[r] + qs[h].collateral[r] = ps[g].collateral[r] + ps[h].collateral[r]
          /\ qs[g].liabilities[r] + qs[h].liabilities[r] = ps[g].liabilities[r] + ps[h].liabilities[r]
    BY <1>7
  <2> QED BY <1>6, <1>8, <2>1, MatchesAfterMove
<1>10. \A r \in Reserves : /\ qs[g].collateral[r] = ps[g].collateral[r] - a.lot[r]
                            /\ qs[g].liabilities[r] = ps[g].liabilities[r] - a.bid[r]
  BY <1>7
<1> QED BY Zenon, <1>6, <1>9, <1>10 DEF qs

LEMMA BadDebtMatches ==
  ASSUME NEW rs, NEW ps \in [Holders -> Positions], Matches(rs, ps), NEW u \in Users
  PROVE  /\ BadDebtToBackstop(ps, u) \in [Holders -> Positions]
         /\ Matches(rs, BadDebtToBackstop(ps, u))
         /\ \A x \in Holders \ {Backstop, u} : BadDebtToBackstop(ps, u)[x] = ps[x]
         /\ BadDebtToBackstop(ps, u)[u].collateral = ps[u].collateral
         /\ BadDebtToBackstop(ps, u)[u].liabilities = Zero
         /\ \A r \in Reserves : BadDebtToBackstop(ps, u)[Backstop].liabilities[r]
                                 >= ps[Backstop].liabilities[r]
<1> DEFINE qs == BadDebtToBackstop(ps, u)
           pb == [ps[Backstop] EXCEPT !.liabilities = Plus(@, ps[u].liabilities)]
           pu == [ps[u] EXCEPT !.liabilities = Zero]
<1>1. u \in Holders /\ Backstop \in Holders /\ u # Backstop
  BY LendingPoolAssumption DEF Holders
<1>2. ps[u] \in Positions /\ ps[Backstop] \in Positions
  BY <1>1
<1>3. qs = [ps EXCEPT ![Backstop] = pb, ![u] = pu]
  BY <1>1, <1>2 DEF BadDebtToBackstop, Positions
<1>4. \A r \in Reserves : ps[u].liabilities[r] \in Nat /\ ps[Backstop].liabilities[r] \in Nat
  BY <1>2 DEF Positions
<1>5. Plus(ps[Backstop].liabilities, ps[u].liabilities) \in [Reserves -> Nat] /\ Zero \in [Reserves -> Nat]
  BY <1>4 DEF Plus, Zero
<1>6. /\ pb \in Positions /\ pu \in Positions
      /\ pb.liabilities = Plus(ps[Backstop].liabilities, ps[u].liabilities)
      /\ pu.liabilities = Zero
      /\ pb.collateral = ps[Backstop].collateral /\ pb.supply = ps[Backstop].supply
      /\ pu.collateral = ps[u].collateral /\ pu.supply = ps[u].supply
  BY <1>2, <1>5 DEF Positions
<1> HIDE DEF pb, pu, qs
<1>7. /\ qs \in [Holders -> Positions] /\ qs[Backstop] = pb /\ qs[u] = pu
      /\ \A x \in Holders \ {Backstop, u} : qs[x] = ps[x]
  BY <1>1, <1>3, <1>6
<1>8. ASSUME NEW r \in Reserves
      PROVE  qs[Backstop].liabilities[r] + qs[u].liabilities[r]
               = ps[Backstop].liabilities[r] + ps[u].liabilities[r]
  <2>1. /\ qs[Backstop].liabilities[r] = ps[Backstop].liabilities[r] + ps[u].liabilities[r]
        /\ qs[u].liabilities[r] = 0
    BY <1>6, <1>7 DEF Plus, Zero
  <2> QED BY <1>4, <2>1
<1>9. /\ qs[Backstop].collateral = ps[Backstop].collateral /\ qs[u].collateral = ps[u].collateral
      /\ qs[Backstop].supply = ps[Backstop].supply /\ qs[u].supply = ps[u].supply
  BY <1>6, <1>7
<1>10. Matches(rs, qs)
  BY <1>1, <1>7, <1>8, <1>9, MatchesAfterMove
<1>11. \A r \in Reserves : qs[Backstop].liabilities[r] >= ps[Backstop].liabilities[r]
  <2>1. \A r \in Reserves : qs[Backstop].liabilities[r]
                               = ps[Backstop].liabilities[r] + ps[u].liabilities[r]
    BY <1>6, <1>7 DEF Plus
  <2> QED BY <1>4, <2>1
<1> QED BY <1>6, <1>7, <1>10, <1>11 DEF qs

LEMMA FillKeepsIInv ==
  ASSUME IInv, NEW u \in Users, NEW percent \in FillPercents, FillUserLiquidation(u, percent)
  PROVE  IInv' /\ Untaken
<1> DEFINE a     == tx.auction[u]
           fill  == ToFill(a, percent, now)
           rest  == Remaining(a, percent)
           moved == Moved(tx.pos, u, tx.from, fill)
           bad   == HandsOn(rest, tx.pos[u], moved[u])
           ps    == IF bad THEN BadDebtToBackstop(moved, u) ELSE moved
           left  == IF IsEmpty(rest) THEN NoAuction ELSE rest
<1>1. /\ TypeOK /\ ~Idle /\ ViewOK /\ UNCHANGED <<env, book>> /\ Building
      /\ u # tx.from /\ now >= a.block /\ Covers(tx.pos[u], fill)
  BY DEF IInv, FillUserLiquidation, Building, Idle
<1>2. /\ tx \in Txs /\ tx.auction \in [Users -> Auctions] /\ tx.left \in 0..MaxRequests
      /\ tx.pos \in [Holders -> Positions] /\ tx.from \in Holders /\ u \in Holders
      /\ tx.touched \in SUBSET Reserves
  BY <1>1, ViewTyped DEF Holders
<1>3. tx.left - 1 \in 0..MaxRequests
  BY <1>1, <1>2, LendingPoolAssumption DEF Building
<1>4. tx' = [tx EXCEPT
               !.pos = ps,
               !.auction[u] = left,
               !.touched = @ \cup Held(fill.bid) \cup Held(fill.lot)
                             \cup (IF bad THEN Held(moved[u].liabilities) ELSE {}),
               !.health = TRUE,
               !.left = @ - 1]
  BY Zenon DEF FillUserLiquidation
<1>5. /\ a \in Auctions /\ a.bid \in [Reserves -> Nat] /\ a.lot \in [Reserves -> Nat]
      /\ a.block \in Nat /\ a = [bid |-> a.bid, lot |-> a.lot, block |-> a.block]
      /\ now \in Nat /\ percent \in 0..100
  BY <1>1, <1>2, LendingPoolAssumption DEF Auctions, TypeOK
<1> HIDE DEF a
<1>6. /\ fill.bid \in [Reserves -> Nat] /\ fill.lot \in [Reserves -> Nat]
      /\ rest.bid \in [Reserves -> Nat] /\ rest.lot \in [Reserves -> Nat]
      /\ rest.block = a.block
  BY <1>1, <1>5, ScaledAuction DEF a
<1>7. rest \in Auctions
  <2>1. rest = [bid |-> rest.bid, lot |-> rest.lot, block |-> rest.block]
    BY DEF Remaining
  <2> HIDE DEF rest
  <2> QED BY <1>5, <1>6, <2>1 DEF Auctions
<1> HIDE DEF fill, rest
<1>8. left \in Auctions
  BY <1>7 DEF NoAuction, Auctions, Zero
<1>9. /\ moved \in [Holders -> Positions] /\ Matches(tx.res, moved)
      /\ \A x \in Holders \ {u, tx.from} : moved[x] = tx.pos[x]
  BY <1>1, <1>2, <1>6, MovedMatches DEF ViewOK
<1> HIDE DEF moved
<1>10. ps \in [Holders -> Positions] /\ Matches(tx.res, ps)
  BY <1>9, BadDebtMatches
<1>17. \A r \in Reserves : ps[Backstop].liabilities[r] >= tx.pos[Backstop].liabilities[r]
  <2>1. tx.from \in Users
    BY <1>1, ViewTyped
  <2>2. moved[Backstop] = tx.pos[Backstop] /\ tx.pos[Backstop] \in Positions
    BY <1>2, <1>9, <2>1, LendingPoolAssumption DEF Holders
  <2>3. \A r \in Reserves : tx.pos[Backstop].liabilities[r] \in Nat
    BY <2>2 DEF Positions
  <2> QED BY <1>9, <2>2, <2>3, BadDebtMatches
<1> HIDE DEF ps, left, bad
<1>11. /\ tx'.res = tx.res /\ tx'.pos = ps
       /\ tx'.in = tx.in /\ tx'.out = tx.out /\ tx'.flash = tx.flash /\ tx'.bal = tx.bal
       /\ tx.touched \subseteq tx'.touched
  BY <1>2, <1>4 DEF Txs
<1>12. tx' \in Txs
  <2>1. tx.touched \cup Held(fill.bid) \cup Held(fill.lot)
          \cup (IF bad THEN Held(moved[u].liabilities) ELSE {}) \in SUBSET Reserves
    BY <1>2 DEF Held
  <2>2. [tx.auction EXCEPT ![u] = left] \in [Users -> Auctions]
    BY <1>2, <1>8
  <2>3. tx' = [tx EXCEPT
                 !.pos = ps,
                 !.auction = [tx.auction EXCEPT ![u] = left],
                 !.touched = tx.touched \cup Held(fill.bid) \cup Held(fill.lot)
                               \cup (IF bad THEN Held(moved[u].liabilities) ELSE {}),
                 !.health = TRUE,
                 !.left = tx.left - 1]
    BY <1>4
  <2> QED BY <1>2, <1>3, <1>10, <2>1, <2>2, <2>3 DEF Txs
<1>13. TypeOK'
  BY <1>1, <1>12 DEF TypeOK, env, book
<1>14. Matches(res, pos)' /\ Grown(res)'
  BY <1>1 DEF IInv, env, book, Matches, Grown, Timestamp, BTokensOf, DTokensOf
<1>15. Matches(tx.res, tx.pos)' /\ Grown(tx.res)'
  BY <1>1, <1>10, <1>11 DEF ViewOK, Matches, BTokensOf, DTokensOf, Grown, Timestamp, env
<1>16. ViewFollows'
  BY <1>1, <1>11 DEF ViewOK, ViewFollows, Loaded, Timestamp, env, book
<1>18. IInv'
  BY <1>13, <1>14, <1>15, <1>16 DEF IInv, ViewOK
<1>19. Untaken
  BY <1>11, <1>17 DEF Untaken
<1> QED BY <1>18, <1>19

---------------------------------------------------------------------------
(* Calls that are one step.                                                *)
LEMMA NewLiquidationKeepsIInv ==
  ASSUME IInv, NEW u \in Users, NEW bidSet, NEW lotSet, NEW percent \in LiqPercents,
         NewLiquidation(u, bidSet, lotSet, percent)
  PROVE  IInv'
<1> DEFINE rs == [r \in Reserves |-> Loaded(r)]
           quote == LiquidationQuote(rs, price, pos[u], bidSet, lotSet, percent)
           new == [bid |-> quote.bid, lot |-> quote.lot, block |-> now + 1]
<1>1. /\ Idle /\ CanValue(price, pos[u])
      /\ auction' = [auction EXCEPT ![u] = new]
      /\ UNCHANGED <<env, res, pos, bal, unbacked, tx>>
  BY DEF NewLiquidation
<1>2. rs \in [Reserves -> ReserveDatas]
  BY OpenedViewOK
<1>3. /\ price \in [Reserves -> Nat] /\ pos[u] \in Positions /\ percent \in 0..100 /\ now \in Nat
      /\ auction \in [Users -> Auctions]
  BY LendingPoolAssumption DEF IInv, TypeOK, Holders
<1> HIDE DEF rs
<1>4. quote.bid \in [Reserves -> Nat] /\ quote.lot \in [Reserves -> Nat]
  BY <1>1, <1>2, <1>3, QuoteIsPart
<1> HIDE DEF quote
<1>5. new \in Auctions
  BY <1>3, <1>4 DEF Auctions
<1> HIDE DEF new
<1>6. TypeOK'
  BY <1>1, <1>3, <1>5 DEF IInv, TypeOK, env
<1>7. UNCHANGED <<res, pos>> /\ now' \in Nat /\ now' >= now /\ tx' = NoTx
  BY <1>1, <1>3, IdleIsNoTx DEF IInv, env
<1> QED BY <1>6, <1>7, QuietStepKeepsIInv

LEMMA GulpKeepsIInv ==
  ASSUME IInv, NEW r \in Reserves, Gulp(r)
  PROVE  IInv'
<1> DEFINE old   == Loaded(r)
           delta == bal[r] - ExpectedBalance(old)
           new   == [old EXCEPT !.backstop_credit = @ + delta]
<1>1. /\ Idle /\ delta > 0 /\ res' = [res EXCEPT ![r] = new]
      /\ UNCHANGED <<env, pos, auction, bal, unbacked, tx>>
  BY DEF Gulp
<1>2. TypeOK /\ Matches(res, pos) /\ Grown(res)
  BY DEF IInv
<1>3. Updated(res[r], old, Timestamp) /\ old.d_rate >= SCALAR_12
  BY LoadedUpdates
<1>4. old \in ReserveDatas
  BY <1>3 DEF Updated
<1> HIDE DEF old
<1>5. delta \in Nat
  <2>1. TotalSupply(old) \in Nat /\ TotalLiabilities(old) \in Nat /\ old.backstop_credit \in Nat
        /\ bal[r] \in Nat
    BY <1>2, <1>4, TotalsOfReserve DEF ReserveDatas, TypeOK
  <2> QED BY <1>1, <2>1 DEF ExpectedBalance
<1> HIDE DEF delta
<1>6. /\ new \in ReserveDatas
      /\ new.b_supply = res[r].b_supply /\ new.d_supply = res[r].d_supply
      /\ new.d_rate >= SCALAR_12 /\ new.last_time = Timestamp
  <2>1. old.backstop_credit + delta \in Nat
    BY <1>4, <1>5 DEF ReserveDatas
  <2>2. /\ new \in ReserveDatas /\ new.b_supply = old.b_supply /\ new.d_supply = old.d_supply
        /\ new.d_rate = old.d_rate /\ new.last_time = old.last_time
    BY <1>4, <2>1 DEF ReserveDatas
  <2> QED BY <1>3, <2>2 DEF Updated
<1> HIDE DEF new
<1>7. res \in [Reserves -> ReserveDatas]
  BY <1>2 DEF TypeOK
<1>8. TypeOK'
  BY <1>1, <1>2, <1>6, <1>7 DEF TypeOK, env
<1>9. Matches(res, pos)'
  BY <1>1, <1>2, <1>6, <1>7 DEF Matches, BTokensOf, DTokensOf
<1>10. Grown(res)'
  <2>1. Timestamp' = Timestamp /\ Timestamp \in Nat
    BY <1>1, <1>2, TimestampIsNat DEF Timestamp, env
  <2> QED BY <1>1, <1>2, <1>6, <1>7, <2>1 DEF Grown
<1>11. Idle'
  BY <1>1 DEF Idle
<1> QED BY <1>8, <1>9, <1>10, <1>11 DEF IInv

(* One reserve of a default.                                               *)
LEMMA DefaultedTyped ==
  ASSUME NEW reserve \in ReserveDatas, reserve.b_supply > 0,
         NEW d \in Nat, d <= reserve.d_supply
  PROVE  /\ Defaulted(reserve, d) \in ReserveDatas
         /\ Defaulted(reserve, d).d_supply = reserve.d_supply - d
         /\ Defaulted(reserve, d).b_supply = reserve.b_supply
         /\ Defaulted(reserve, d).d_rate = reserve.d_rate
         /\ Defaulted(reserve, d).last_time = reserve.last_time
         /\ Shortfall(reserve, d) \in Nat
<1> DEFINE loss == DivCeil(ToAssetFromDToken(reserve, d), reserve.b_supply, SCALAR_12)
           rate == MaxOf(reserve.b_rate - loss, 0)
<1>1. /\ reserve.b_supply \in Nat \ {0} /\ reserve.b_rate \in Nat /\ reserve.d_supply \in Nat
      /\ SCALAR_12 \in Nat
  BY ScalarAssumption DEF ReserveDatas
<1>2. ToAssetFromDToken(reserve, d) \in Nat /\ TotalSupply(reserve) \in Nat
  BY ConversionsOfReserve, TotalsOfReserve
<1>3. loss \in Nat
  <2>1. ToAssetFromDToken(reserve, d) * SCALAR_12 \in Nat
    BY <1>1, <1>2
  <2> QED BY <1>1, <2>1, CeilOfNat DEF DivCeil
<1>4. Defaulted(reserve, d) = [reserve EXCEPT !.d_supply = @ - d, !.b_rate = rate]
  BY DEF Defaulted
<1> HIDE DEF loss
<1>5. rate \in Nat
  BY <1>1, <1>3 DEF MaxOf
<1> HIDE DEF rate
<1>6. reserve.d_supply - d \in Nat
  BY <1>1
<1>7. Shortfall(reserve, d) \in Nat
  BY <1>2 DEF Shortfall, MaxOf
<1> QED BY <1>4, <1>5, <1>6, <1>7 DEF ReserveDatas

LEMMA DefaultKeepsIInv ==
  ASSUME IInv, DefaultBadDebt
  PROVE  IInv'
<1> DEFINE debt == pos[Backstop].liabilities
           pb == [pos[Backstop] EXCEPT !.liabilities = Zero]
<1>1. /\ Idle
      /\ \A r \in Held(debt) : res[r].b_supply > 0
      /\ res' = [r \in Reserves |->
                   IF r \in Held(debt) THEN Defaulted(Loaded(r), debt[r]) ELSE res[r]]
      /\ pos' = [pos EXCEPT ![Backstop].liabilities = Zero]
      /\ unbacked' = [r \in Reserves |->
                        IF r \in Held(debt) THEN unbacked[r] + Shortfall(Loaded(r), debt[r])
                        ELSE unbacked[r]]
      /\ UNCHANGED <<env, auction, bal, tx>>
  BY DEF DefaultBadDebt
<1>2. TypeOK /\ Matches(res, pos) /\ Grown(res)
  BY DEF IInv
<1>3. /\ pos \in [Holders -> Positions] /\ Backstop \in Holders /\ pos[Backstop] \in Positions
      /\ debt \in [Reserves -> Nat] /\ unbacked \in [Reserves -> Nat]
      /\ res \in [Reserves -> ReserveDatas]
  BY <1>2 DEF TypeOK, Holders, Positions
<1>4. \A r \in Reserves : debt[r] \in Nat /\ debt[r] <= res[r].d_supply
  BY <1>2, <1>3, HeldIsBounded
<1>5. ASSUME NEW r \in Held(debt)
      PROVE  /\ Defaulted(Loaded(r), debt[r]) \in ReserveDatas
             /\ Defaulted(Loaded(r), debt[r]).d_supply = res[r].d_supply - debt[r]
             /\ Defaulted(Loaded(r), debt[r]).b_supply = res[r].b_supply
             /\ Defaulted(Loaded(r), debt[r]).d_rate >= SCALAR_12
             /\ Defaulted(Loaded(r), debt[r]).last_time = Timestamp
             /\ Shortfall(Loaded(r), debt[r]) \in Nat
  <2>1. r \in Reserves
    BY DEF Held
  <2>2. /\ Loaded(r) \in ReserveDatas
        /\ Loaded(r).b_supply = res[r].b_supply /\ Loaded(r).d_supply = res[r].d_supply
        /\ Loaded(r).last_time = Timestamp /\ Loaded(r).d_rate >= SCALAR_12
    BY <2>1, LoadedUpdates DEF Updated
  <2>3. Loaded(r).b_supply > 0 /\ debt[r] \in Nat /\ debt[r] <= Loaded(r).d_supply
    BY <1>1, <1>4, <2>1, <2>2
  <2> HIDE DEF debt
  <2> QED BY <2>2, <2>3, DefaultedTyped
<1>6. \A r \in Reserves \ Held(debt) : debt[r] = 0 /\ res'[r] = res[r] /\ unbacked'[r] = unbacked[r]
  BY <1>1, <1>4 DEF Held
<1>7. \A r \in Held(debt) : r \in Reserves /\ res'[r] = Defaulted(Loaded(r), debt[r])
                            /\ unbacked'[r] = unbacked[r] + Shortfall(Loaded(r), debt[r])
  BY <1>1 DEF Held
<1>8. \A r \in Reserves : /\ res'[r] \in ReserveDatas
                          /\ res'[r].d_supply = res[r].d_supply - debt[r]
                          /\ res'[r].b_supply = res[r].b_supply
                          /\ res'[r].d_rate >= SCALAR_12
                          /\ res'[r].last_time <= Timestamp
                          /\ unbacked'[r] \in Nat
  <2> HIDE DEF debt
  <2> TAKE r \in Reserves
  <2>1. CASE r \in Held(debt)
    BY <1>2, <1>3, <1>5, <1>7, <2>1, TimestampIsNat
  <2>2. CASE r \notin Held(debt)
    <3>1. res[r] \in ReserveDatas /\ res[r].d_supply \in Nat /\ unbacked[r] \in Nat
      BY <1>3 DEF ReserveDatas
    <3> QED BY <1>2, <1>6, <2>2, <3>1 DEF Grown
  <2> QED BY <2>1, <2>2
<1>9. /\ pb \in Positions /\ pb.liabilities = Zero
      /\ pb.collateral = pos[Backstop].collateral /\ pb.supply = pos[Backstop].supply
  BY <1>3 DEF Positions, Zero
<1>10. pos' = [pos EXCEPT ![Backstop] = pb]
  BY <1>1
<1> HIDE DEF pb
<1>11. /\ pos' \in [Holders -> Positions] /\ pos'[Backstop] = pb
       /\ \A h \in Holders \ {Backstop} : pos'[h] = pos[h]
  BY <1>3, <1>9, <1>10
<1>12. TypeOK'
  <2>1. res' \in [Reserves -> ReserveDatas] /\ unbacked' \in [Reserves -> Nat]
    BY <1>1, <1>8
  <2> QED BY <1>1, <1>2, <1>11, <2>1 DEF TypeOK, env
<1>13. Matches(res', pos')
  <2> SUFFICES ASSUME NEW r \in Reserves
               PROVE  /\ res'[r].b_supply = Total(BTokensOf(pos', r))
                      /\ res'[r].d_supply = Total(DTokensOf(pos', r))
    BY DEF Matches
  <2>1. /\ DTokensOf(pos, r) \in [Holders -> Nat] /\ DTokensOf(pos', r) \in [Holders -> Nat]
    BY <1>3, <1>11, TokensTyped
  <2>2. BTokensOf(pos', r) = BTokensOf(pos, r)
    BY <1>9, <1>11 DEF BTokensOf
  <2>3. \A h \in Holders \ {Backstop} : DTokensOf(pos, r)[h] = DTokensOf(pos', r)[h]
    BY <1>11 DEF DTokensOf
  <2>4. DTokensOf(pos, r)[Backstop] = debt[r] /\ DTokensOf(pos', r)[Backstop] = 0
    BY <1>3, <1>9, <1>11 DEF DTokensOf, Zero
  <2>5. Total(DTokensOf(pos', r)) + debt[r] = Total(DTokensOf(pos, r)) + 0
    BY <1>3, <2>1, <2>3, <2>4, HoldersFinite, TotalChange
  <2>6. /\ res[r].b_supply = Total(BTokensOf(pos, r)) /\ res[r].d_supply = Total(DTokensOf(pos, r))
        /\ res[r].d_supply \in Nat /\ Total(DTokensOf(pos', r)) \in Nat
    BY <1>2, <1>3, <2>1, HoldersFinite, TotalIsCount DEF Matches, ReserveDatas
  <2>7. res'[r].d_supply = res[r].d_supply - debt[r] /\ res'[r].b_supply = res[r].b_supply
    BY <1>8
  <2>8. debt[r] \in Nat
    BY <1>4
  <2> HIDE DEF debt
  <2> QED BY <2>2, <2>5, <2>6, <2>7, <2>8
<1>14. Matches(res, pos)'
  BY <1>13 DEF Matches, BTokensOf, DTokensOf
<1>15. Grown(res)'
  BY <1>1, <1>8 DEF Grown, Timestamp, env
<1>16. Idle'
  BY <1>1 DEF Idle
<1> QED BY <1>12, <1>14, <1>15, <1>16 DEF IInv

---------------------------------------------------------------------------
(* IInv is inductive: one case for each action.                            *)
LEMMA RequestsKeepIInv ==
  ASSUME IInv, Requests
  PROVE  IInv'
<1>1. CASE \E r \in Reserves : \E a \in Amounts[r] :
             \/ Supply(r, a)
             \/ Withdraw(r, a)
             \/ SupplyCollateral(r, a)
             \/ WithdrawCollateral(r, a)
             \/ Borrow(r, a)
             \/ Repay(r, a)
  <2>1. PICK r \in Reserves : \E a \in Amounts[r] :
             \/ Supply(r, a)
             \/ Withdraw(r, a)
             \/ SupplyCollateral(r, a)
             \/ WithdrawCollateral(r, a)
             \/ Borrow(r, a)
             \/ Repay(r, a)
    BY <1>1
  <2>2. PICK a \in Amounts[r] :
             \/ Supply(r, a)
             \/ Withdraw(r, a)
             \/ SupplyCollateral(r, a)
             \/ WithdrawCollateral(r, a)
             \/ Borrow(r, a)
             \/ Repay(r, a)
    BY <2>1
  <2>3. a \in Nat
    BY AmountsTyped
  <2> QED BY <2>2, <2>3, AssetRequestKeepsIInv
<1>2. CASE CallReceiver \/ \E r \in Reserves, a \in Donations : ReceiverPaysPool(r, a)
  <2>1. ~Idle
    BY <1>2 DEF CallReceiver, ReceiverPaysPool, Idle
  <2> QED BY <1>2, <2>1, TransferKeepsIInv
<1>3. CASE \E u \in Users, percent \in FillPercents : FillUserLiquidation(u, percent)
  BY <1>3, FillKeepsIInv
<1>4. CASE DeleteLiquidation
  BY <1>4, DeleteLiquidationKeepsIInv
<1>5. CASE Commit \/ CommitFlashLoan
  BY <1>5, CommitKeepsIInv
<1>6. CASE Abort
  BY <1>6, AbortKeepsIInv
<1> QED BY <1>1, <1>2, <1>3, <1>4, <1>5, <1>6 DEF Requests

LEMMA CallsKeepIInv ==
  ASSUME IInv, Calls
  PROVE  IInv'
<1>1. CASE \E u \in Users : Submit(u) \/ DeleteStaleAuction(u)
  BY <1>1, SubmitKeepsIInv, DeleteStaleKeepsIInv
<1>2. CASE \E u \in Users, r \in Reserves, a \in FlashAmounts : FlashLoan(u, r, a)
  BY <1>2, FlashLoanKeepsIInv, LendingPoolAssumption
<1>3. CASE \E u \in Users, bidSet, lotSet \in SUBSET Reserves, percent \in LiqPercents :
             NewLiquidation(u, bidSet, lotSet, percent)
  BY <1>3, NewLiquidationKeepsIInv
<1>4. CASE \E r \in Reserves : Gulp(r)
  BY <1>4, GulpKeepsIInv
<1>5. CASE DefaultBadDebt
  BY <1>5, DefaultKeepsIInv
<1>6. CASE UpdateStatus \/ \E s \in AdminStatuses : SetStatus(s)
  BY <1>6, StatusKeepsIInv
<1> QED BY <1>1, <1>2, <1>3, <1>4, <1>5, <1>6 DEF Calls

LEMMA StutterKeepsIInv ==
  ASSUME IInv, UNCHANGED vars
  PROVE  IInv'
<1>1. UNCHANGED <<now, price, backstop, status, res, pos, auction, bal, unbacked, tx>>
  BY DEF vars
<1>2. TypeOK'
  BY <1>1 DEF IInv, TypeOK
<1>3. Matches(res, pos)' /\ Grown(res)'
  BY <1>1 DEF IInv, Matches, Grown, Timestamp, BTokensOf, DTokensOf
<1>4. ~Idle' => ViewOK'
  BY <1>1 DEF IInv, Idle, ViewOK, ViewFollows, Loaded, Matches, Grown, Timestamp, BTokensOf, DTokensOf
<1> QED BY <1>2, <1>3, <1>4 DEF IInv

(* The inductive invariant holds in every state of every pool.             *)
THEOREM IInvHolds == Spec => []IInv
<1>1. Init => IInv
  BY InitHasIInv
<1>2. IInv /\ [Next]_vars => IInv'
  BY RequestsKeepIInv, CallsKeepIInv, WorldKeepsIInv, StutterKeepsIInv DEF Next
<1> QED BY <1>1, <1>2, PTL DEF Spec

(* No balance, supply, rate or credit the pool keeps in a signed integer   *)
(* ever falls below 0, in the ledger or in the view of an open call,       *)
(* whatever the requests, the fills, the interest and the defaults.        *)
THEOREM TypeCorrect == Spec => []TypeOK
<1>1. IInv => TypeOK
  BY DEF IInv
<1> QED BY <1>1, IInvHolds, PTL

(* The tokens of each reserve are exactly those in the positions: no       *)
(* request, fill, bad debt or default creates or loses a share.            *)
THEOREM SharesAreConserved == Spec => []SharesMatchPositions
<1>1. IInv => SharesMatchPositions
  BY DEF IInv, Matches, SharesMatchPositions
<1> QED BY <1>1, IInvHolds, PTL

---------------------------------------------------------------------------
(* Requests take nothing from the backstop.                                *)
LEMMA RequestIsUntaken ==
  ASSUME IInv, NEW r \in Reserves, NEW reserve, NEW p, NEW i, NEW o, NEW h, NEW m,
         IsRequest(r, reserve, p, i, o, h, m)
  PROVE  Untaken /\ UNCHANGED <<env, book>>
<1>1. /\ Balanced(r, reserve, p) /\ ~Idle
      /\ tx' = AfterRequest(r, reserve, p, i, o, h, m)
      /\ UNCHANGED <<env, book>>
  BY DEF IsRequest, Building, Idle
<1>2. /\ tx \in Txs /\ tx.from \in Users /\ tx.from # Backstop
      /\ tx.res \in [Reserves -> ReserveDatas] /\ tx.pos \in [Holders -> Positions]
  BY <1>1, ViewTyped, LendingPoolAssumption DEF IInv
<1>3. /\ tx'.res = [tx.res EXCEPT ![r] = reserve]
      /\ tx'.pos = [tx.pos EXCEPT ![tx.from] = p]
  BY <1>1, <1>2 DEF AfterRequest, Txs
<1>4. tx'.pos[Backstop] = tx.pos[Backstop] /\ tx.pos[Backstop] \in Positions
  BY <1>2, <1>3 DEF Holders
<1>5. \A x \in Reserves : tx.pos[Backstop].liabilities[x] \in Nat
  BY <1>4 DEF Positions
<1> QED BY <1>1, <1>2, <1>3, <1>4, <1>5 DEF Untaken, Balanced

LEMMA AssetRequestIsUntaken ==
  ASSUME IInv, NEW r \in Reserves, NEW a \in Nat,
         \/ Supply(r, a)
         \/ Withdraw(r, a)
         \/ SupplyCollateral(r, a)
         \/ WithdrawCollateral(r, a)
         \/ Borrow(r, a)
         \/ Repay(r, a)
  PROVE  Untaken /\ UNCHANGED <<env, book>>
<1>1. CASE Supply(r, a)
  BY <1>1, SupplyIsRequest, RequestIsUntaken
<1>2. CASE Withdraw(r, a)
  BY <1>2, WithdrawIsRequest, RequestIsUntaken
<1>3. CASE SupplyCollateral(r, a)
  BY <1>3, SupplyCollateralIsRequest, RequestIsUntaken
<1>4. CASE WithdrawCollateral(r, a)
  BY <1>4, WithdrawCollateralIsRequest, RequestIsUntaken
<1>5. CASE Borrow(r, a)
  BY <1>5, BorrowIsRequest, RequestIsUntaken
<1>6. CASE Repay(r, a)
  BY <1>6, RepayIsRequest, RequestIsUntaken
<1> QED BY <1>1, <1>2, <1>3, <1>4, <1>5, <1>6

LEMMA OtherRequestsAreUntaken ==
  ASSUME IInv, Requests, ~Commit, ~CommitFlashLoan, ~Abort
  PROVE  Untaken /\ UNCHANGED <<env, book>>
<1>1. CASE \E r \in Reserves : \E a \in Amounts[r] :
             \/ Supply(r, a)
             \/ Withdraw(r, a)
             \/ SupplyCollateral(r, a)
             \/ WithdrawCollateral(r, a)
             \/ Borrow(r, a)
             \/ Repay(r, a)
  <2>1. PICK r \in Reserves : \E a \in Amounts[r] :
             \/ Supply(r, a)
             \/ Withdraw(r, a)
             \/ SupplyCollateral(r, a)
             \/ WithdrawCollateral(r, a)
             \/ Borrow(r, a)
             \/ Repay(r, a)
    BY <1>1
  <2>2. PICK a \in Amounts[r] :
             \/ Supply(r, a)
             \/ Withdraw(r, a)
             \/ SupplyCollateral(r, a)
             \/ WithdrawCollateral(r, a)
             \/ Borrow(r, a)
             \/ Repay(r, a)
    BY <2>1
  <2>3. a \in Nat
    BY AmountsTyped
  <2> QED BY <2>2, <2>3, AssetRequestIsUntaken
<1>2. CASE \E u \in Users, percent \in FillPercents : FillUserLiquidation(u, percent)
  <2>1. UNCHANGED <<env, book>>
    BY <1>2 DEF FillUserLiquidation
  <2> QED BY <1>2, <2>1, FillKeepsIInv
<1>3. CASE \/ DeleteLiquidation
           \/ CallReceiver
           \/ \E r \in Reserves, a \in Donations : ReceiverPaysPool(r, a)
  <2>1. UNCHANGED <<env, book>> /\ ~Idle
    BY <1>3 DEF DeleteLiquidation, CallReceiver, ReceiverPaysPool, Building, Idle
  <2>2. /\ tx \in Txs /\ tx.res \in [Reserves -> ReserveDatas]
        /\ tx.pos[Backstop] \in Positions
    BY <2>1, ViewTyped DEF IInv, Holders
  <2>3. tx'.res = tx.res /\ tx'.pos = tx.pos
    BY <1>3, <2>2 DEF DeleteLiquidation, CallReceiver, ReceiverPaysPool, Txs
  <2>4. \A r \in Reserves : tx.pos[Backstop].liabilities[r] \in Nat
    BY <2>2 DEF Positions
  <2> QED BY <2>1, <2>3, <2>4 DEF Untaken
<1> QED BY <1>1, <1>2, <1>3 DEF Requests

---------------------------------------------------------------------------
(* III. Rates.  Only Settle, Gulp and DefaultBadDebt write reserves.       *)
RateStep ==
  \A r \in Reserves :
    /\ res'[r].d_rate >= res[r].d_rate
    /\ res'[r].b_rate < res[r].b_rate =>
         /\ pos[Backstop].liabilities[r] > 0
         /\ pos'[Backstop].liabilities[r] = 0
         /\ backstop.threshold < DEFAULT_THRESHOLD

LEMMA SameReservesKeepRates ==
  ASSUME TypeOK, UNCHANGED res
  PROVE  RateStep
<1>1. \A r \in Reserves : res[r].d_rate \in Nat /\ res[r].b_rate \in Nat
  BY DEF TypeOK, ReserveDatas
<1> QED BY <1>1 DEF RateStep

LEMMA RisenRates ==
  ASSUME TypeOK,
         \A r \in Reserves : /\ res'[r].d_rate \in Nat /\ res'[r].b_rate \in Nat
                             /\ res'[r].d_rate >= res[r].d_rate
                             /\ res'[r].b_rate >= res[r].b_rate
  PROVE  RateStep
<1>1. \A r \in Reserves : res[r].d_rate \in Nat /\ res[r].b_rate \in Nat
  BY DEF TypeOK, ReserveDatas
<1> QED BY <1>1 DEF RateStep

(* No bToken loses worth in an open call, either.  (That is about the      *)
(* pool's own requests: it does not belong to IInv, which the fills of the *)
(* backstop's auctions keep, too.)                                         *)
RatesRise == ~Idle => \A r \in Reserves : tx.res[r].b_rate >= res[r].b_rate

LEMMA UntakenKeepsRatesRise ==
  ASSUME TypeOK, RatesRise, Untaken, ~Idle, UNCHANGED res
  PROVE  RatesRise'
BY DEF RatesRise, Untaken

LEMMA RequestsKeepRatesRise ==
  ASSUME IInv, RatesRise, Requests
  PROVE  RatesRise'
<1>1. CASE Commit \/ CommitFlashLoan \/ Abort
  <2>1. Idle'
    BY <1>1 DEF Commit, CommitFlashLoan, Abort, Settle, Idle, NoTx
  <2> QED BY <2>1 DEF RatesRise
<1>2. CASE ~Commit /\ ~CommitFlashLoan /\ ~Abort
  <2>1. Untaken /\ UNCHANGED res
    BY <1>2, OtherRequestsAreUntaken DEF book
  <2>2. CASE Idle
    <3>1. Idle'
      BY <1>2, <2>2 DEF Requests, Supply, SupplyCollateral, Withdraw, WithdrawCollateral,
         Borrow, Repay, MaySupply, MayWithdraw, ReceiverPaysPool, FillUserLiquidation,
         DeleteLiquidation, CallReceiver, Building, Idle
    <3> QED BY <3>1 DEF RatesRise
  <2>3. CASE ~Idle
    BY <2>1, <2>3, UntakenKeepsRatesRise DEF IInv
  <2> QED BY <2>2, <2>3
<1> QED BY <1>1, <1>2

LEMMA OpeningKeepsRatesRise ==
  ASSUME IInv, NEW u \in Users, NEW r \in Reserves, NEW a \in Nat,
         Submit(u) \/ FlashLoan(u, r, a)
  PROVE  RatesRise'
<1> DEFINE rs == [x \in Reserves |-> Loaded(x)]
<1>1. /\ rs \in [Reserves -> ReserveDatas]
      /\ \A x \in Reserves : rs[x].b_rate >= res[x].b_rate
      /\ Opened(u) \in Txs
  BY OpenedViewOK
<1>2. UNCHANGED res /\ Opened(u).res = rs
  BY DEF Submit, FlashLoan, Opened, book
<1>3. CASE Submit(u)
  <2>1. tx'.res = rs
    BY <1>2, <1>3 DEF Submit
  <2> QED BY <1>1, <1>2, <2>1 DEF RatesRise
<1>4. CASE FlashLoan(u, r, a)
  <2> DEFINE debt    == ToDTokenUp(Opened(u).res[r], a)
             reserve == [Opened(u).res[r] EXCEPT !.d_supply = @ + debt]
  <2>1. tx' = [Opened(u) EXCEPT !.res[r] = reserve,
                                !.pos[u].liabilities[r] = @ + debt,
                                !.touched = {r},
                                !.flash[r] = a,
                                !.health = TRUE,
                                !.maxUtil = {r}]
    BY <1>4 DEF FlashLoan
  <2>2. reserve.b_rate = rs[r].b_rate
    BY <1>1, <1>2 DEF ReserveDatas
  <2> HIDE DEF reserve, debt
  <2>3. tx'.res = [rs EXCEPT ![r] = reserve]
    BY <1>1, <1>2, <2>1 DEF Txs
  <2> HIDE DEF rs
  <2>4. \A x \in Reserves : tx'.res[x].b_rate = rs[x].b_rate
    BY <1>1, <2>2, <2>3
  <2> QED BY <1>1, <1>2, <2>4 DEF RatesRise
<1> QED BY <1>3, <1>4

LEMMA StepKeepsRatesRise ==
  ASSUME IInv, RatesRise, [Next]_vars
  PROVE  RatesRise'
<1>1. CASE UNCHANGED vars
  BY <1>1 DEF vars, RatesRise, Idle
<1>2. CASE Requests
  BY <1>2, RequestsKeepRatesRise
<1>3. CASE \E u \in Users : Submit(u)
  <2>1. CASE Reserves = {}
    BY <1>3, <2>1 DEF RatesRise, Submit, book
  <2>2. CASE Reserves # {}
    <3>1. PICK r \in Reserves : TRUE
      BY <2>2
    <3> QED BY <1>3, <3>1, OpeningKeepsRatesRise
  <2> QED BY <2>1, <2>2
<1>4. CASE \E u \in Users, r \in Reserves, a \in FlashAmounts : FlashLoan(u, r, a)
  BY <1>4, OpeningKeepsRatesRise, LendingPoolAssumption
<1>5. CASE /\ World \/ Calls
           /\ ~\E u \in Users : Submit(u)
           /\ ~\E u \in Users, r \in Reserves, a \in FlashAmounts : FlashLoan(u, r, a)
  <2>1. Idle'
    <3>1. CASE World
      BY <3>1 DEF World, Tick, ReportPrice, BackstopChanges, Donate, Idle
    <3>2. CASE Calls
      BY <1>5, <3>2 DEF Calls, DeleteStaleAuction, NewLiquidation, Gulp, DefaultBadDebt,
         UpdateStatus, SetStatus, Idle
    <3> QED BY <1>5, <3>1, <3>2
  <2> QED BY <2>1 DEF RatesRise
<1> QED BY <1>1, <1>2, <1>3, <1>4, <1>5 DEF Next

LEMMA SettleRates ==
  ASSUME IInv, RatesRise, ~Idle, Settle
  PROVE  RateStep
<1>1. TypeOK /\ ViewOK
  BY DEF IInv
<1>2. tx.res \in [Reserves -> ReserveDatas] /\ res \in [Reserves -> ReserveDatas]
  BY <1>1, ViewTyped DEF TypeOK
<1>3. \A r \in Reserves : res'[r] = IF r \in tx.touched THEN tx.res[r] ELSE res[r]
  BY DEF Settle
<1>4. \A r \in Reserves : /\ res[r].d_rate \in Nat /\ res[r].b_rate \in Nat
                          /\ tx.res[r].d_rate \in Nat /\ tx.res[r].b_rate \in Nat
                          /\ tx.res[r].d_rate >= res[r].d_rate
                          /\ tx.res[r].b_rate >= res[r].b_rate
  BY <1>1, <1>2 DEF ReserveDatas, ViewOK, ViewFollows, RatesRise
<1> QED BY <1>1, <1>3, <1>4, RisenRates

LEMMA GulpRates ==
  ASSUME IInv, NEW r \in Reserves, Gulp(r)
  PROVE  RateStep
<1> DEFINE old == Loaded(r)
           delta == bal[r] - ExpectedBalance(old)
<1>1. TypeOK /\ res \in [Reserves -> ReserveDatas]
  BY DEF IInv, TypeOK
<1>2. res' = [res EXCEPT ![r] = [old EXCEPT !.backstop_credit = @ + delta]]
  BY DEF Gulp
<1> HIDE DEF delta
<1>3. Updated(res[r], old, Timestamp)
  BY LoadedUpdates
<1> HIDE DEF old
<1>4. /\ old.d_rate \in Nat /\ old.b_rate \in Nat
      /\ old.d_rate >= res[r].d_rate /\ old.b_rate >= res[r].b_rate
      /\ res'[r].d_rate = old.d_rate /\ res'[r].b_rate = old.b_rate
  BY <1>1, <1>2, <1>3 DEF Updated, ReserveDatas
<1>5. \A x \in Reserves \ {r} : res'[x] = res[x]
  BY <1>1, <1>2
<1>6. \A x \in Reserves : res[x].d_rate \in Nat /\ res[x].b_rate \in Nat
  BY <1>1 DEF ReserveDatas
<1> QED BY <1>1, <1>4, <1>5, <1>6, RisenRates

LEMMA DefaultRates ==
  ASSUME IInv, DefaultBadDebt
  PROVE  RateStep
<1> DEFINE debt == pos[Backstop].liabilities
<1>1. /\ backstop.threshold < DEFAULT_THRESHOLD
      /\ res' = [r \in Reserves |->
                   IF r \in Held(debt) THEN Defaulted(Loaded(r), debt[r]) ELSE res[r]]
      /\ pos' = [pos EXCEPT ![Backstop].liabilities = Zero]
  BY DEF DefaultBadDebt, MayDefault
<1>2. TypeOK /\ pos \in [Holders -> Positions] /\ Backstop \in Holders
  BY DEF IInv, TypeOK, Holders
<1> SUFFICES ASSUME NEW r \in Reserves
             PROVE  /\ res'[r].d_rate >= res[r].d_rate
                    /\ res'[r].b_rate < res[r].b_rate =>
                         /\ debt[r] > 0
                         /\ pos'[Backstop].liabilities[r] = 0
                         /\ backstop.threshold < DEFAULT_THRESHOLD
  BY DEF RateStep
<1>3. res[r].d_rate \in Nat /\ res[r].b_rate \in Nat
  BY <1>2 DEF TypeOK, ReserveDatas
<1>4. CASE r \in Held(debt)
  <2>1. res'[r].d_rate = Loaded(r).d_rate
    <3>1. Loaded(r) \in ReserveDatas
      BY LoadedUpdates DEF Updated
    <3>2. Defaulted(Loaded(r), debt[r]).d_rate = Loaded(r).d_rate
      BY <3>1 DEF Defaulted, ReserveDatas
    <3> QED BY <1>1, <1>4, <3>2
  <2>2. Loaded(r).d_rate >= res[r].d_rate
    BY LoadedUpdates DEF Updated
  <2>3. debt[r] > 0
    BY <1>4 DEF Held
  <2>4. pos'[Backstop].liabilities = Zero
    BY <1>1, <1>2 DEF Positions
  <2>5. Zero[r] = 0
    BY DEF Zero
  <2> HIDE DEF debt
  <2> QED BY <1>1, <2>1, <2>2, <2>3, <2>4, <2>5
<1>5. CASE r \notin Held(debt)
  <2>1. res'[r] = res[r]
    BY <1>1, <1>5
  <2> QED BY <1>3, <2>1
<1> QED BY <1>4, <1>5

LEMMA StepRates ==
  ASSUME IInv, RatesRise, [Next]_vars
  PROVE  RateStep
<1>1. TypeOK
  BY DEF IInv
<1>2. CASE UNCHANGED vars
  BY <1>1, <1>2, SameReservesKeepRates DEF vars
<1>3. CASE World
  <2>1. UNCHANGED res
    BY <1>3 DEF World, Tick, ReportPrice, BackstopChanges, Donate, env, book
  <2> QED BY <1>1, <2>1, SameReservesKeepRates
<1>4. CASE Requests
  <2>1. CASE Commit \/ CommitFlashLoan
    <3>1. ~Idle /\ Settle
      BY <2>1 DEF Commit, CommitFlashLoan, Idle
    <3> QED BY <3>1, SettleRates
  <2>2. CASE ~(Commit \/ CommitFlashLoan)
    <3>1. \A r, a : Supply(r, a) \/ SupplyCollateral(r, a) => UNCHANGED book
      BY DEF Supply, SupplyCollateral
    <3>2. \A r, a : Withdraw(r, a) \/ WithdrawCollateral(r, a) => UNCHANGED book
      BY DEF Withdraw, WithdrawCollateral
    <3>3. \A r, a : Borrow(r, a) \/ Repay(r, a) => UNCHANGED book
      BY DEF Borrow, Repay
    <3>4. \A u, percent : FillUserLiquidation(u, percent) => UNCHANGED book
      BY DEF FillUserLiquidation
    <3>5. (\E r, a : ReceiverPaysPool(r, a)) \/ CallReceiver => UNCHANGED book
      BY DEF ReceiverPaysPool, CallReceiver
    <3>6. DeleteLiquidation \/ Abort => UNCHANGED book
      BY DEF DeleteLiquidation, Abort
    <3>7. UNCHANGED book
      BY <1>4, <2>2, <3>1, <3>2, <3>3, <3>4, <3>5, <3>6 DEF Requests
    <3> QED BY <1>1, <3>7, SameReservesKeepRates DEF book
  <2> QED BY <2>1, <2>2
<1>5. CASE Calls
  <2>1. CASE \E r \in Reserves : Gulp(r)
    BY <2>1, GulpRates
  <2>2. CASE DefaultBadDebt
    BY <2>2, DefaultRates
  <2>3. CASE ~(\E r \in Reserves : Gulp(r)) /\ ~DefaultBadDebt
    <3>1. \A u : Submit(u) \/ DeleteStaleAuction(u) => UNCHANGED res
      BY DEF Submit, DeleteStaleAuction, book
    <3>2. \A u, r, a : FlashLoan(u, r, a) => UNCHANGED res
      BY DEF FlashLoan, book
    <3>3. \A u, bidSet, lotSet, percent :
            NewLiquidation(u, bidSet, lotSet, percent) => UNCHANGED res
      BY DEF NewLiquidation
    <3>4. UpdateStatus \/ (\E s : SetStatus(s)) => UNCHANGED res
      BY DEF UpdateStatus, SetStatus, book
    <3>5. UNCHANGED res
      BY <1>5, <2>3, <3>1, <3>2, <3>3, <3>4 DEF Calls
    <3> QED BY <1>1, <3>5, SameReservesKeepRates
  <2> QED BY <2>1, <2>2, <2>3
<1> QED BY <1>2, <1>3, <1>4, <1>5 DEF Next

(* Interest never shrinks a debt, and a bToken loses worth only when the   *)
(* backstop's bad debt in its reserve is defaulted: no rounding of an      *)
(* accrual, no request and no gulp takes any from a supplier.              *)
THEOREM RatesAreMonotone == Spec => RatesMoveOneWay
<1>1. Init => RatesRise
  BY DEF Init, RatesRise, Idle, NoTx
<1>2. IInv /\ RatesRise /\ [Next]_vars => RatesRise'
  BY StepKeepsRatesRise
<1>3. IInv /\ RatesRise /\ [Next]_vars => [RateStep]_<<res, pos>>
  BY StepRates
<1>4. Spec => [][RateStep]_<<res, pos>>
  BY <1>1, <1>2, <1>3, IInvHolds, PTL DEF Spec
<1> QED BY <1>4 DEF RatesMoveOneWay, RateStep

---------------------------------------------------------------------------
(* IV. Solvency.                                                           *)

---------------------------------------------------------------------------
(* The worth of converted amounts.                                         *)
LEMMA ConversionWorth ==
  ASSUME NEW r \in ReserveDatas, NEW a \in Nat
  PROVE  /\ r.b_rate > 0 => /\ ToBTokenDown(r, a) * r.b_rate <= a * SCALAR_12
                            /\ a * SCALAR_12 <= ToBTokenUp(r, a) * r.b_rate
         /\ r.d_rate > 0 => /\ ToDTokenDown(r, a) * r.d_rate <= a * SCALAR_12
                            /\ a * SCALAR_12 <= ToDTokenUp(r, a) * r.d_rate
         /\ ToAssetFromBToken(r, a) * SCALAR_12 <= a * r.b_rate
         /\ a * r.d_rate <= ToAssetFromDToken(r, a) * SCALAR_12
<1>1. /\ r.b_rate \in Nat /\ r.d_rate \in Nat /\ SCALAR_12 \in Nat \ {0}
      /\ a * SCALAR_12 \in Int /\ a * r.b_rate \in Int /\ a * r.d_rate \in Int
  BY ScalarAssumption DEF ReserveDatas
<1>2. ASSUME r.b_rate > 0
      PROVE  /\ ToBTokenDown(r, a) * r.b_rate <= a * SCALAR_12
             /\ a * SCALAR_12 <= ToBTokenUp(r, a) * r.b_rate
  <2>1. r.b_rate \in Nat \ {0}
    BY <1>1, <1>2
  <2> QED BY <1>1, <2>1, FloorBounds, CeilBounds DEF ToBTokenDown, ToBTokenUp, DivFloor, DivCeil
<1>3. ASSUME r.d_rate > 0
      PROVE  /\ ToDTokenDown(r, a) * r.d_rate <= a * SCALAR_12
             /\ a * SCALAR_12 <= ToDTokenUp(r, a) * r.d_rate
  <2>1. r.d_rate \in Nat \ {0}
    BY <1>1, <1>3
  <2> QED BY <1>1, <2>1, FloorBounds, CeilBounds DEF ToDTokenDown, ToDTokenUp, DivFloor, DivCeil
<1>4. /\ ToAssetFromBToken(r, a) * SCALAR_12 <= a * r.b_rate
      /\ a * r.d_rate <= ToAssetFromDToken(r, a) * SCALAR_12
  BY <1>1, FloorBounds, CeilBounds DEF ToAssetFromBToken, ToAssetFromDToken, MulFloor, MulCeil
<1> QED BY <1>2, <1>3, <1>4

LEMMA ClaimsAreInt ==
  ASSUME NEW r \in ReserveDatas
  PROVE  Claims(r) \in Int
<1>1. TotalSupply(r) \in Nat /\ TotalLiabilities(r) \in Nat /\ r.backstop_credit \in Nat
  BY TotalsOfReserve DEF ReserveDatas
<1> QED BY <1>1 DEF Claims

(* A supply of bTokens that grows by no more than n units' worth raises    *)
(* the claims by no more than n; one of dTokens that falls by no more than *)
(* n units' worth, too.                                                    *)
LEMMA ClaimsAfterSupply ==
  ASSUME NEW r \in ReserveDatas, NEW b \in Nat, NEW n \in Int,
         b * r.b_rate <= r.b_supply * r.b_rate + n * SCALAR_12
  PROVE  Claims([r EXCEPT !.b_supply = b]) <= Claims(r) + n
<1> DEFINE s == [r EXCEPT !.b_supply = b]
           x == r.b_supply * r.b_rate
           y == b * r.b_rate
<1>1. /\ r.b_rate \in Nat /\ r.b_supply \in Nat /\ r.backstop_credit \in Nat
      /\ SCALAR_12 \in Nat \ {0}
  BY ScalarAssumption DEF ReserveDatas
<1>2. x \in Int /\ y \in Int /\ y <= x + n * SCALAR_12
  BY <1>1
<1>3. /\ s \in ReserveDatas
      /\ s.b_rate = r.b_rate /\ s.b_supply = b /\ s.backstop_credit = r.backstop_credit
      /\ s.d_rate = r.d_rate /\ s.d_supply = r.d_supply
  BY DEF ReserveDatas
<1> HIDE DEF s
<1>4. TotalSupply(r) = FloorDiv(x, SCALAR_12) /\ TotalSupply(s) = FloorDiv(y, SCALAR_12)
  BY <1>3 DEF TotalSupply, ToAssetFromBToken, MulFloor
<1> HIDE DEF x, y
<1>5. TotalSupply(s) <= TotalSupply(r) + n
  BY <1>1, <1>2, <1>4, FloorStep
<1>6. TotalLiabilities(s) = TotalLiabilities(r)
  BY <1>3 DEF TotalLiabilities, ToAssetFromDToken
<1>7. TotalSupply(s) \in Nat /\ TotalSupply(r) \in Nat /\ TotalLiabilities(r) \in Nat
  BY <1>3, TotalsOfReserve
<1>8. Claims(s) <= Claims(r) + n
  BY <1>1, <1>3, <1>5, <1>6, <1>7 DEF Claims
<1> QED BY <1>8 DEF s

LEMMA ClaimsAfterDebt ==
  ASSUME NEW r \in ReserveDatas, NEW d \in Nat, NEW n \in Int,
         r.d_supply * r.d_rate <= d * r.d_rate + n * SCALAR_12
  PROVE  Claims([r EXCEPT !.d_supply = d]) <= Claims(r) + n
<1> DEFINE s == [r EXCEPT !.d_supply = d]
           x == r.d_supply * r.d_rate
           y == d * r.d_rate
<1>1. /\ r.d_rate \in Nat /\ r.d_supply \in Nat /\ r.backstop_credit \in Nat
      /\ SCALAR_12 \in Nat \ {0}
  BY ScalarAssumption DEF ReserveDatas
<1>2. x \in Int /\ y \in Int /\ -n \in Int /\ x + (-n) * SCALAR_12 <= y
  BY <1>1
<1>3. /\ s \in ReserveDatas
      /\ s.b_rate = r.b_rate /\ s.b_supply = r.b_supply /\ s.backstop_credit = r.backstop_credit
      /\ s.d_rate = r.d_rate /\ s.d_supply = d
  BY DEF ReserveDatas
<1> HIDE DEF s
<1>4. TotalLiabilities(r) = CeilDiv(x, SCALAR_12) /\ TotalLiabilities(s) = CeilDiv(y, SCALAR_12)
  BY <1>3 DEF TotalLiabilities, ToAssetFromDToken, MulCeil
<1> HIDE DEF x, y
<1>5. TotalLiabilities(r) + (-n) <= TotalLiabilities(s)
  BY <1>1, <1>2, <1>4, CeilStep
<1>6. TotalSupply(s) = TotalSupply(r)
  BY <1>3 DEF TotalSupply, ToAssetFromBToken
<1>7. TotalLiabilities(s) \in Nat /\ TotalLiabilities(r) \in Nat /\ TotalSupply(r) \in Nat
  BY <1>3, TotalsOfReserve
<1>8. Claims(s) <= Claims(r) + n
  BY <1>1, <1>3, <1>5, <1>6, <1>7 DEF Claims
<1> QED BY <1>8 DEF s

---------------------------------------------------------------------------
(* The inductive form of Solvency.                                         *)
Covered(rs, cash, loss) == \A r \in Reserves : Claims(rs[r]) <= cash[r] + loss[r]

SolventInv == /\ Covered(res, bal, unbacked)
              /\ ~Idle => Covered(tx.res, CashInView, unbacked)

LEMMA CoveredIsSolvent ==
  ASSUME NEW rs \in [Reserves -> ReserveDatas], NEW cash \in [Reserves -> Int],
         unbacked \in [Reserves -> Nat]
  PROVE  Covered(rs, cash, unbacked) => Solvent(rs, cash)
<1> SUFFICES ASSUME NEW r \in Reserves, Claims(rs[r]) <= cash[r] + unbacked[r]
             PROVE  TotalSupply(rs[r]) + rs[r].backstop_credit
                      <= cash[r] + TotalLiabilities(rs[r]) + unbacked[r]
  BY DEF Covered, Solvent
<1> DEFINE s == TotalSupply(rs[r])
           c == rs[r].backstop_credit
           l == TotalLiabilities(rs[r])
           b == cash[r]
           n == unbacked[r]
<1>1. s \in Nat /\ c \in Nat /\ l \in Nat /\ b \in Int /\ n \in Nat
  BY TotalsOfReserve DEF ReserveDatas
<1>2. s + c - l <= b + n
  BY DEF Claims
<1> HIDE DEF s, c, l, b, n
<1>3. s + c <= b + l + n
  BY <1>1, <1>2
<1> QED BY <1>3 DEF s, c, l, b, n

(* The cash in view is an integer: a call may still fail for want of it.   *)
LEMMA CashTyped ==
  ASSUME TypeOK, ~Idle
  PROVE  /\ CashInView \in [Reserves -> Int]
         /\ \A r \in Reserves :
              /\ tx.bal[r] \in Nat /\ tx.in[r] \in Nat /\ tx.out[r] \in Nat /\ tx.flash[r] \in Nat
              /\ CashInView[r] = (tx.bal[r] + tx.in[r] - tx.out[r])
                                   - (IF tx.phase = "build" THEN tx.flash[r] ELSE 0)
<1>1. \A r \in Reserves :
        tx.bal[r] \in Nat /\ tx.in[r] \in Nat /\ tx.out[r] \in Nat /\ tx.flash[r] \in Nat
  BY ViewTyped
<1> QED BY <1>1 DEF CashInView, BalanceAfter

LEMMA CashAfterStep ==
  ASSUME NEW r \in Reserves
  PROVE  CashInView'[r] = (tx'.bal[r] + tx'.in[r] - tx'.out[r])
                            - (IF tx'.phase = "build" THEN tx'.flash[r] ELSE 0)
BY DEF CashInView, BalanceAfter

LEMMA SolventInvIsSolvency ==
  ASSUME IInv, SolventInv
  PROVE  Solvency
<1>1. TypeOK /\ unbacked \in [Reserves -> Nat] /\ res \in [Reserves -> ReserveDatas]
      /\ bal \in [Reserves -> Nat] /\ bal \in [Reserves -> Int]
  BY DEF IInv, TypeOK
<1>2. Solvent(res, bal)
  BY <1>1, CoveredIsSolvent DEF SolventInv
<1>3. ASSUME ~Idle
      PROVE  Solvent(tx.res, CashInView)
  <2>1. tx.res \in [Reserves -> ReserveDatas] /\ CashInView \in [Reserves -> Int]
    BY <1>1, <1>3, ViewTyped, CashTyped
  <2> QED BY <1>1, <1>3, <2>1, CoveredIsSolvent DEF SolventInv
<1> QED BY <1>2, <1>3 DEF Solvency

---------------------------------------------------------------------------
(* Steps that end outside of a call with the books as they were.           *)
LEMMA QuietStepIsSolvent ==
  ASSUME SolventInv, UNCHANGED <<res, bal, unbacked>>, Idle'
  PROVE  SolventInv'
BY DEF SolventInv, Covered

LEMMA InitIsSolvent ==
  ASSUME Init
  PROVE  SolventInv
<1>1. Idle
  BY DEF Init, Idle, NoTx
<1>2. ASSUME NEW r \in Reserves
      PROVE  Claims(res[r]) <= bal[r] + unbacked[r]
  <2>1. /\ res[r] = NewReserve(0) /\ bal[r] = 0 /\ unbacked[r] = 0
    BY DEF Init, Zero
  <2>2. TotalSupply(res[r]) = MulFloor(0, SCALAR_12, SCALAR_12)
        /\ TotalLiabilities(res[r]) = MulCeil(0, SCALAR_12, SCALAR_12)
        /\ res[r].backstop_credit = 0
    BY <2>1 DEF NewReserve, TotalSupply, ToAssetFromBToken, TotalLiabilities, ToAssetFromDToken
  <2>3. MulFloor(0, SCALAR_12, SCALAR_12) = 0 /\ MulCeil(0, SCALAR_12, SCALAR_12) = 0
    BY ScalarAssumption DEF MulFloor, MulCeil, FloorDiv, CeilDiv
  <2> QED BY <2>1, <2>2, <2>3 DEF Claims
<1> QED BY <1>1, <1>2 DEF SolventInv, Covered

LEMMA WorldIsSolvent ==
  ASSUME IInv, SolventInv, World
  PROVE  SolventInv'
<1>1. CASE Tick \/ (\E r \in Reserves : \E p \in Prices[r] : ReportPrice(r, p))
             \/ (\E b \in BackstopLevels : BackstopChanges(b))
  <2>1. UNCHANGED <<res, bal, unbacked, tx>> /\ Idle
    BY <1>1 DEF Tick, ReportPrice, BackstopChanges, book
  <2> QED BY <2>1, QuietStepIsSolvent DEF Idle
<1>2. CASE \E r \in Reserves, a \in Donations : Donate(r, a)
  <2>1. PICK r \in Reserves, a \in Donations : Donate(r, a)
    BY <1>2
  <2>2. a \in Nat /\ bal \in [Reserves -> Nat] /\ unbacked \in [Reserves -> Nat]
        /\ res \in [Reserves -> ReserveDatas]
    BY LendingPoolAssumption DEF IInv, TypeOK
  <2>3. /\ bal' = [bal EXCEPT ![r] = @ + a] /\ UNCHANGED <<res, unbacked, tx>> /\ Idle
    BY <2>1 DEF Donate
  <2>4. \A x \in Reserves : Claims(res[x]) \in Int /\ bal[x] \in Nat /\ bal'[x] \in Nat
                            /\ bal'[x] >= bal[x] /\ unbacked[x] \in Nat
    BY <2>2, <2>3, ClaimsAreInt
  <2>5. Covered(res', bal', unbacked')
    BY <2>3, <2>4 DEF SolventInv, Covered
  <2> QED BY <2>3, <2>5 DEF SolventInv, Covered, Idle
<1> QED BY <1>1, <1>2 DEF World

---------------------------------------------------------------------------
(* Opening a call: what is loaded claims no more than what is stored.      *)
LEMMA LoadedClaims ==
  ASSUME IInv, SolventInv, NEW r \in Reserves
  PROVE  /\ Loaded(r) \in ReserveDatas
         /\ bal[r] \in Nat /\ unbacked[r] \in Nat
         /\ Claims(Loaded(r)) <= bal[r] + unbacked[r]
<1>1. bal[r] \in Nat /\ unbacked[r] \in Nat /\ res[r] \in ReserveDatas
  BY DEF IInv, TypeOK
<1>2. Loaded(r) \in ReserveDatas /\ Claims(Loaded(r)) <= Claims(res[r])
  BY LoadedUpdates DEF Updated
<1>3. Claims(Loaded(r)) \in Int /\ Claims(res[r]) \in Int
  BY <1>1, <1>2, ClaimsAreInt
<1>4. Claims(res[r]) <= bal[r] + unbacked[r]
  BY DEF SolventInv, Covered
<1> QED BY <1>1, <1>2, <1>3, <1>4

LEMMA SubmitIsSolvent ==
  ASSUME IInv, SolventInv, NEW u \in Users, Submit(u)
  PROVE  SolventInv'
<1>1. tx' = Opened(u) /\ UNCHANGED <<res, bal, unbacked>>
  BY DEF Submit, book
<1>2. ASSUME NEW r \in Reserves
      PROVE  Claims(tx'.res[r]) <= CashInView'[r] + unbacked'[r]
  <2>1. tx'.res[r] = Loaded(r)
    BY <1>1 DEF Opened
  <2>2. tx'.bal = bal /\ tx'.in[r] = 0 /\ tx'.out[r] = 0 /\ tx'.flash[r] = 0
    BY <1>1 DEF Opened, Zero
  <2>3. bal[r] \in Nat /\ Claims(Loaded(r)) <= bal[r] + unbacked[r]
    BY LoadedClaims
  <2>4. CashInView'[r] = bal[r]
    BY <2>2, <2>3, CashAfterStep
  <2> QED BY <1>1, <2>1, <2>3, <2>4
<1> QED BY <1>1, <1>2 DEF SolventInv, Covered

(* A flash loan's debt is worth at least the tokens that will leave.       *)
LEMMA FlashLoanIsSolvent ==
  ASSUME IInv, SolventInv, NEW u \in Users, NEW r \in Reserves, NEW a \in Nat,
         FlashLoan(u, r, a)
  PROVE  SolventInv'
<1> DEFINE old     == Loaded(r)
           k       == ToDTokenUp(old, a)
           d       == old.d_supply + k
           reserve == [old EXCEPT !.d_supply = d]
<1>1. /\ tx' = [Opened(u) EXCEPT !.res[r] = [Opened(u).res[r] EXCEPT
                                               !.d_supply = @ + ToDTokenUp(Opened(u).res[r], a)],
                                 !.pos[u].liabilities[r] = @ + ToDTokenUp(Opened(u).res[r], a),
                                 !.touched = {r},
                                 !.flash[r] = a,
                                 !.health = TRUE,
                                 !.maxUtil = {r}]
      /\ UNCHANGED <<res, bal, unbacked>>
  BY DEF FlashLoan, book
<1>2. /\ Opened(u).res[r] = old
      /\ tx'.res = [x \in Reserves |-> IF x = r THEN reserve ELSE Loaded(x)]
      /\ tx'.phase = "build" /\ tx'.bal = bal /\ tx'.in = Zero /\ tx'.out = Zero
      /\ tx'.flash = [Zero EXCEPT ![r] = a]
  BY <1>1 DEF Opened
<1>3. \A x \in Reserves : bal[x] \in Nat /\ unbacked[x] \in Nat
                          /\ Claims(Loaded(x)) <= bal[x] + unbacked[x]
  BY LoadedClaims
<1>4. \A x \in Reserves : CashInView'[x] = IF x = r THEN bal[x] - a ELSE bal[x]
  <2> TAKE x \in Reserves
  <2>1. tx'.in[x] = 0 /\ tx'.out[x] = 0 /\ tx'.flash[x] = IF x = r THEN a ELSE 0
    BY <1>2 DEF Zero
  <2> HIDE DEF reserve
  <2> QED BY <1>2, <1>3, <2>1, CashAfterStep
<1>5. old \in ReserveDatas /\ old.d_rate \in Nat /\ old.d_rate > 0 /\ old.d_supply \in Nat
      /\ SCALAR_12 \in Nat
  BY LoadedUpdates, ScalarAssumption DEF Updated, ReserveDatas
<1> HIDE DEF old
<1>6. k \in Nat /\ a * SCALAR_12 <= k * old.d_rate
  BY <1>5, ConversionsOfReserve, ConversionWorth
<1> HIDE DEF k
<1>7. d \in Nat /\ -a \in Int /\ old.d_supply * old.d_rate <= d * old.d_rate + (-a) * SCALAR_12
  BY <1>5, <1>6
<1>8. reserve \in ReserveDatas
  BY <1>5, <1>7 DEF ReserveDatas
<1> HIDE DEF d
<1>9. Claims(reserve) <= Claims(old) + (-a)
  BY <1>5, <1>7, ClaimsAfterDebt
<1>10. Claims(reserve) \in Int /\ Claims(old) \in Int
  BY <1>5, <1>8, ClaimsAreInt
<1> HIDE DEF reserve
<1>11. Claims(reserve) <= bal[r] - a + unbacked[r]
  BY <1>3, <1>9, <1>10 DEF old
<1>12. ASSUME NEW x \in Reserves
       PROVE  Claims(tx'.res[x]) <= CashInView'[x] + unbacked'[x]
  BY <1>1, <1>2, <1>3, <1>4, <1>11
<1> QED BY <1>1, <1>12, <1>4 DEF SolventInv, Covered

---------------------------------------------------------------------------
(* A request that raises the claims of reserve r by at most what it adds   *)
(* to the tokens the call will bring in, n (negative if it takes out).     *)
LEMMA RequestIsSolvent ==
  ASSUME IInv, SolventInv, ~Idle, NEW r \in Reserves,
         NEW reserve \in ReserveDatas, NEW n \in Int, Claims(reserve) <= Claims(tx.res[r]) + n,
         tx'.res = [tx.res EXCEPT ![r] = reserve],
         tx'.in \in [Reserves -> Nat], tx'.out \in [Reserves -> Nat],
         \A x \in Reserves \ {r} : tx'.in[x] = tx.in[x] /\ tx'.out[x] = tx.out[x],
         tx'.in[r] - tx'.out[r] = tx.in[r] - tx.out[r] + n,
         tx'.bal = tx.bal, tx'.flash = tx.flash, tx'.phase = tx.phase,
         UNCHANGED book
  PROVE  SolventInv'
<1>1. UNCHANGED <<res, bal, unbacked>>
  BY DEF book
<1>2. /\ TypeOK /\ tx.res \in [Reserves -> ReserveDatas]
      /\ unbacked \in [Reserves -> Nat]
  BY ViewTyped DEF IInv, TypeOK
<1>3. ASSUME NEW x \in Reserves
      PROVE  Claims(tx'.res[x]) <= CashInView'[x] + unbacked[x]
  <2> DEFINE f == IF tx.phase = "build" THEN tx.flash[x] ELSE 0
             b == tx.bal[x]
             i == tx.in[x]
             o == tx.out[x]
             j == tx'.in[x]
             q == tx'.out[x]
  <2>1. /\ b \in Nat /\ i \in Nat /\ o \in Nat /\ f \in Nat
        /\ CashInView[x] = (b + i - o) - f
    BY <1>2, CashTyped
  <2>2. j \in Nat /\ q \in Nat /\ CashInView'[x] = (b + j - q) - f
    BY CashAfterStep
  <2>3. Claims(tx.res[x]) <= CashInView[x] + unbacked[x] /\ unbacked[x] \in Nat
    BY <1>2 DEF SolventInv, Covered
  <2>4. Claims(tx.res[x]) \in Int /\ Claims(reserve) \in Int
    BY <1>2, ClaimsAreInt
  <2>5. CASE x # r
    <3>1. tx'.res[x] = tx.res[x] /\ j = i /\ q = o
      BY <1>2, <2>5
    <3> QED BY <2>1, <2>2, <2>3, <3>1
  <2>6. CASE x = r
    <3>1. tx'.res[x] = reserve
      BY <1>2, <2>6
    <3>2. j - q = i - o + n /\ Claims(reserve) <= Claims(tx.res[x]) + n
      BY <2>6
    <3> HIDE DEF f, b, i, o, j, q
    <3> QED BY <2>1, <2>2, <2>3, <2>4, <3>1, <3>2
  <2> QED BY <2>5, <2>6
<1> QED BY <1>1, <1>3 DEF SolventInv, Covered

(* Supplying a mints bTokens worth no more than a.                         *)
LEMMA SupplyIsSolvent ==
  ASSUME IInv, SolventInv, NEW r \in Reserves, NEW a \in Nat,
         Supply(r, a) \/ SupplyCollateral(r, a)
  PROVE  SolventInv'
<1> DEFINE old == tx.res[r]
           k == Minted(r, a)
           b == old.b_supply + k
           reserve == [old EXCEPT !.b_supply = b]
           i == [tx.in EXCEPT ![r] = @ + a]
<1>1. Building /\ ~Idle /\ old.b_rate > 0 /\ UNCHANGED book
  BY DEF Supply, SupplyCollateral, MaySupply, Building, Idle
<1>2. /\ tx \in Txs /\ tx.from \in Holders /\ old \in ReserveDatas
      /\ tx.in \in [Reserves -> Nat] /\ tx.out \in [Reserves -> Nat]
      /\ tx.res \in [Reserves -> ReserveDatas] /\ tx.pos \in [Holders -> Positions]
  BY <1>1, MineTyped
<1>3. /\ tx'.res = [tx.res EXCEPT ![r] = reserve]
      /\ tx'.in = i /\ tx'.out = tx.out /\ tx'.bal = tx.bal
      /\ tx'.flash = tx.flash /\ tx'.phase = tx.phase
  <2>1. CASE Supply(r, a)
    BY <1>2, <2>1 DEF Supply, Request, Txs
  <2>2. CASE SupplyCollateral(r, a)
    BY <1>2, <2>2 DEF SupplyCollateral, Request, Txs
  <2> QED BY <2>1, <2>2
<1>4. old.b_rate \in Nat /\ old.b_supply \in Nat /\ SCALAR_12 \in Nat
  BY <1>2, ScalarAssumption DEF ReserveDatas
<1>5. k \in Nat /\ k * old.b_rate <= a * SCALAR_12
  <2> HIDE DEF old
  <2>1. ToBTokenDown(old, a) \in Nat /\ ToBTokenDown(old, a) * old.b_rate <= a * SCALAR_12
    BY <1>1, <1>2, <1>4, ConversionsOfReserve, ConversionWorth
  <2> QED BY <2>1 DEF Minted, old
<1> HIDE DEF k
<1>6. b \in Nat /\ b * old.b_rate <= old.b_supply * old.b_rate + a * SCALAR_12
  <2> HIDE DEF old
  <2> QED BY <1>4, <1>5
<1> HIDE DEF b
<1>7. reserve \in ReserveDatas /\ a \in Int
  BY <1>2, <1>6 DEF ReserveDatas
<1>8. Claims(reserve) <= Claims(old) + a
  <2> HIDE DEF old
  <2> QED BY <1>2, <1>6, <1>7, ClaimsAfterSupply
<1>9. /\ i \in [Reserves -> Nat] /\ \A x \in Reserves \ {r} : i[x] = tx.in[x]
      /\ i[r] - tx.out[r] = tx.in[r] - tx.out[r] + a
  <2>1. tx.in[r] \in Nat /\ tx.out[r] \in Nat /\ i[r] = tx.in[r] + a
    BY <1>2
  <2> QED BY <1>2, <2>1
<1> HIDE DEF reserve, i
<1> QED BY <1>1, <1>2, <1>3, <1>7, <1>8, <1>9, RequestIsSolvent

(* A withdrawal burns bTokens worth at least what it takes out.            *)
LEMMA WithdrawIsSolvent ==
  ASSUME IInv, SolventInv, NEW r \in Reserves, NEW a \in Nat,
         Withdraw(r, a) \/ WithdrawCollateral(r, a)
  PROVE  SolventInv'
<1> DEFINE old == tx.res[r]
<1>1. Building /\ ~Idle /\ old.b_rate > 0 /\ UNCHANGED book
  BY DEF Withdraw, WithdrawCollateral, MayWithdraw, Building, Idle
<1>2. /\ tx \in Txs /\ tx.from \in Holders /\ old \in ReserveDatas
      /\ tx.in \in [Reserves -> Nat] /\ tx.out \in [Reserves -> Nat]
      /\ tx.res \in [Reserves -> ReserveDatas] /\ tx.pos \in [Holders -> Positions]
      /\ Mine.supply[r] \in Nat /\ Mine.collateral[r] \in Nat
      /\ Mine.collateral[r] + Mine.supply[r] <= old.b_supply
  BY <1>1, MineTyped
<1>3. old.b_rate \in Nat /\ old.b_supply \in Nat /\ SCALAR_12 \in Nat
  BY <1>2, ScalarAssumption DEF ReserveDatas
<1>4. PICK held \in Nat :
        /\ held <= old.b_supply
        /\ tx'.res = [tx.res EXCEPT ![r] = [old EXCEPT !.b_supply = @ - Burnt(r, a, held)]]
        /\ tx'.in = tx.in /\ tx'.out = [tx.out EXCEPT ![r] = @ + TokensOut(r, a, held)]
        /\ tx'.bal = tx.bal /\ tx'.flash = tx.flash /\ tx'.phase = tx.phase
  <2>1. CASE Withdraw(r, a)
    <3> DEFINE held == Mine.supply[r]
    <3>1. /\ tx'.res = [tx.res EXCEPT ![r] = [old EXCEPT !.b_supply = @ - Burnt(r, a, held)]]
          /\ tx'.in = tx.in /\ tx'.out = [tx.out EXCEPT ![r] = @ + TokensOut(r, a, held)]
          /\ tx'.bal = tx.bal /\ tx'.flash = tx.flash /\ tx'.phase = tx.phase
      BY <1>2, <2>1 DEF Withdraw, Request, Txs
    <3>2. held \in Nat /\ held <= old.b_supply
      BY <1>2, <1>3
    <3> HIDE DEF held, old
    <3> QED BY <3>1, <3>2
  <2>2. CASE WithdrawCollateral(r, a)
    <3> DEFINE held == Mine.collateral[r]
    <3>1. /\ tx'.res = [tx.res EXCEPT ![r] = [old EXCEPT !.b_supply = @ - Burnt(r, a, held)]]
          /\ tx'.in = tx.in /\ tx'.out = [tx.out EXCEPT ![r] = @ + TokensOut(r, a, held)]
          /\ tx'.bal = tx.bal /\ tx'.flash = tx.flash /\ tx'.phase = tx.phase
      BY <1>2, <2>2 DEF WithdrawCollateral, Request, Txs
    <3>2. held \in Nat /\ held <= old.b_supply
      BY <1>2, <1>3
    <3> HIDE DEF held, old
    <3> QED BY <3>1, <3>2
  <2> QED BY <2>1, <2>2
<1> DEFINE k == Burnt(r, a, held)
           t == TokensOut(r, a, held)
           b == old.b_supply - k
           reserve == [old EXCEPT !.b_supply = b]
<1>5. k \in 0..held /\ t \in Nat
  BY <1>1, <1>2, WithdrawalTyped
<1>6. t * SCALAR_12 <= k * old.b_rate
  <2> DEFINE up == ToBTokenUp(old, a)
             all == ToAssetFromBToken(old, held)
  <2>1. /\ up \in Nat /\ a * SCALAR_12 <= up * old.b_rate
        /\ all * SCALAR_12 <= held * old.b_rate
    BY <1>1, <1>2, ConversionsOfReserve, ConversionWorth
  <2>2. /\ k = IF up <= held THEN up ELSE held
        /\ t = IF up > held THEN all ELSE a
    BY DEF Burnt, TokensOut, MinOf
  <2> HIDE DEF up, all, k, t, old
  <2> QED BY <2>1, <2>2
<1> HIDE DEF k, t
<1>7. /\ b \in Nat /\ -t \in Int
      /\ b * old.b_rate <= old.b_supply * old.b_rate + (-t) * SCALAR_12
  <2> HIDE DEF old
  <2>1. b \in Nat
    BY <1>3, <1>4, <1>5
  <2>2. b * old.b_rate = old.b_supply * old.b_rate - k * old.b_rate
    BY <1>3, <1>5
  <2>3. (-t) * SCALAR_12 = -(t * SCALAR_12) /\ t * SCALAR_12 \in Nat
    BY <1>3, <1>5
  <2>4. b * old.b_rate \in Nat /\ old.b_supply * old.b_rate \in Nat /\ k * old.b_rate \in Nat
    BY <1>3, <1>5, <2>1
  <2> QED BY <1>5, <1>6, <2>1, <2>2, <2>3, <2>4
<1> HIDE DEF b
<1>8. reserve \in ReserveDatas
  BY <1>2, <1>7 DEF ReserveDatas
<1>9. Claims(reserve) <= Claims(old) + (-t)
  <2> HIDE DEF old
  <2> QED BY <1>2, <1>7, ClaimsAfterSupply
<1>10. /\ tx'.out \in [Reserves -> Nat] /\ \A x \in Reserves \ {r} : tx'.out[x] = tx.out[x]
       /\ tx'.in[r] - tx'.out[r] = tx.in[r] - tx.out[r] + (-t)
  <2>1. tx.in[r] \in Nat /\ tx.out[r] \in Nat /\ tx'.out = [tx.out EXCEPT ![r] = @ + t]
    BY <1>2, <1>4 DEF t
  <2> QED BY <1>2, <1>4, <1>5, <2>1
<1>11. tx'.res = [tx.res EXCEPT ![r] = reserve]
  BY <1>4 DEF b, k
<1> HIDE DEF reserve
<1> QED BY <1>1, <1>2, <1>4, <1>7, <1>8, <1>9, <1>10, <1>11, RequestIsSolvent

(* Borrowing a mints dTokens worth at least a.                             *)
LEMMA BorrowIsSolvent ==
  ASSUME IInv, SolventInv, NEW r \in Reserves, NEW a \in Nat, Borrow(r, a)
  PROVE  SolventInv'
<1> DEFINE old == tx.res[r]
           k == ToDTokenUp(old, a)
           d == old.d_supply + k
           reserve == [old EXCEPT !.d_supply = d]
<1>1. Building /\ ~Idle /\ UNCHANGED book
  BY DEF Borrow, Building, Idle
<1>2. /\ tx \in Txs /\ tx.from \in Holders /\ old \in ReserveDatas
      /\ tx.in \in [Reserves -> Nat] /\ tx.out \in [Reserves -> Nat]
      /\ tx.res \in [Reserves -> ReserveDatas] /\ tx.pos \in [Holders -> Positions]
      /\ old.d_rate \in Nat \ {0}
  BY <1>1, MineTyped
<1>3. /\ tx'.res = [tx.res EXCEPT ![r] = reserve]
      /\ tx'.in = tx.in /\ tx'.out = [tx.out EXCEPT ![r] = @ + a]
      /\ tx'.bal = tx.bal /\ tx'.flash = tx.flash /\ tx'.phase = tx.phase
  BY <1>2 DEF Borrow, Request, Txs
<1>4. old.d_supply \in Nat /\ SCALAR_12 \in Nat
  BY <1>2, ScalarAssumption DEF ReserveDatas
<1>5. k \in Nat /\ a * SCALAR_12 <= k * old.d_rate
  <2> HIDE DEF old
  <2> QED BY <1>2, ConversionsOfReserve, ConversionWorth
<1> HIDE DEF k
<1>6. d \in Nat /\ -a \in Int /\ old.d_supply * old.d_rate <= d * old.d_rate + (-a) * SCALAR_12
  <2> HIDE DEF old
  <2> QED BY <1>2, <1>4, <1>5
<1> HIDE DEF d
<1>7. reserve \in ReserveDatas
  BY <1>2, <1>6 DEF ReserveDatas
<1>8. Claims(reserve) <= Claims(old) + (-a)
  <2> HIDE DEF old
  <2> QED BY <1>2, <1>6, ClaimsAfterDebt
<1>9. /\ tx'.out \in [Reserves -> Nat] /\ \A x \in Reserves \ {r} : tx'.out[x] = tx.out[x]
      /\ tx'.in[r] - tx'.out[r] = tx.in[r] - tx.out[r] + (-a)
  <2>1. tx.in[r] \in Nat /\ tx.out[r] \in Nat
    BY <1>2
  <2> QED BY <1>2, <1>3, <2>1
<1> HIDE DEF reserve
<1> QED BY <1>1, <1>2, <1>3, <1>6, <1>7, <1>8, <1>9, RequestIsSolvent

(* A repayment burns dTokens worth no more than it brings in net of what   *)
(* it refunds.                                                             *)
LEMMA RepayIsSolvent ==
  ASSUME IInv, SolventInv, NEW r \in Reserves, NEW a \in Nat, Repay(r, a)
  PROVE  SolventInv'
<1> DEFINE old  == tx.res[r]
           owed == Mine.liabilities[r]
           down == ToDTokenDown(old, a)
           all  == ToAssetFromDToken(old, owed)
           k == MinOf(down, owed)
           refund == IF down > owed THEN a - all ELSE 0
           n == a - refund
           d == old.d_supply - k
           reserve == [old EXCEPT !.d_supply = d]
<1>1. Building /\ ~Idle /\ refund >= 0 /\ UNCHANGED book
  BY DEF Repay, Building, Idle
<1>2. /\ tx \in Txs /\ tx.from \in Holders /\ old \in ReserveDatas
      /\ tx.in \in [Reserves -> Nat] /\ tx.out \in [Reserves -> Nat]
      /\ tx.res \in [Reserves -> ReserveDatas] /\ tx.pos \in [Holders -> Positions]
      /\ old.d_rate \in Nat \ {0} /\ owed \in Nat /\ owed <= old.d_supply
  BY <1>1, MineTyped
<1>3. /\ tx'.res = [tx.res EXCEPT ![r] = reserve]
      /\ tx'.in = [tx.in EXCEPT ![r] = @ + a]
      /\ tx'.out = [tx.out EXCEPT ![r] = @ + refund]
      /\ tx'.bal = tx.bal /\ tx'.flash = tx.flash /\ tx'.phase = tx.phase
  <2>1. tx' = [Request(r, reserve) EXCEPT !.pos[tx.from].liabilities[r] = @ - k,
                                          !.in[r] = @ + a,
                                          !.out[r] = @ + refund]
    BY DEF Repay
  <2> HIDE DEF k, refund
  <2> QED BY <1>2, <2>1 DEF Request, Txs
<1>4. old.d_supply \in Nat /\ SCALAR_12 \in Nat
  BY <1>2, ScalarAssumption DEF ReserveDatas
<1> HIDE DEF owed
<1>5. /\ down \in Nat /\ down * old.d_rate <= a * SCALAR_12
      /\ all \in Nat /\ owed * old.d_rate <= all * SCALAR_12
  <2> HIDE DEF old
  <2> QED BY <1>2, ConversionsOfReserve, ConversionWorth
<1>6. /\ k \in 0..owed /\ refund \in Nat /\ n \in Int
      /\ k * old.d_rate <= n * SCALAR_12
  <2> HIDE DEF down, all, old
  <2>1. CASE down > owed
    <3>1. k = owed /\ n = all /\ refund = a - all
      BY <1>2, <1>5, <2>1 DEF MinOf
    <3> QED BY <1>1, <1>2, <1>5, <3>1
  <2>2. CASE ~(down > owed)
    <3>1. k = down /\ n = a /\ refund = 0
      BY <1>2, <1>5, <2>2 DEF MinOf
    <3> QED BY <1>2, <1>5, <2>2, <3>1
  <2> QED BY <2>1, <2>2
<1> HIDE DEF down, all, k, refund
<1>7. /\ d \in Nat
      /\ old.d_supply * old.d_rate <= d * old.d_rate + n * SCALAR_12
  <2> HIDE DEF old, n
  <2>1. d \in Nat
    BY <1>2, <1>4, <1>6
  <2>2. d * old.d_rate = old.d_supply * old.d_rate - k * old.d_rate
    BY <1>2, <1>4, <1>6
  <2>3. /\ d * old.d_rate \in Nat /\ old.d_supply * old.d_rate \in Nat
        /\ k * old.d_rate \in Nat /\ n * SCALAR_12 \in Int
    BY <1>2, <1>4, <1>6, <2>1
  <2> QED BY <1>6, <2>1, <2>2, <2>3
<1> HIDE DEF d
<1>8. reserve \in ReserveDatas
  BY <1>2, <1>7 DEF ReserveDatas
<1>9. Claims(reserve) <= Claims(old) + n
  <2> HIDE DEF old, n
  <2> QED BY <1>2, <1>6, <1>7, ClaimsAfterDebt
<1>10. /\ tx'.in \in [Reserves -> Nat] /\ tx'.out \in [Reserves -> Nat]
       /\ \A x \in Reserves \ {r} : tx'.in[x] = tx.in[x] /\ tx'.out[x] = tx.out[x]
       /\ tx'.in[r] - tx'.out[r] = tx.in[r] - tx.out[r] + n
  <2>1. tx.in[r] \in Nat /\ tx.out[r] \in Nat
    BY <1>2
  <2> QED BY <1>2, <1>3, <1>6, <2>1
<1> HIDE DEF reserve, n
<1> QED BY <1>1, <1>2, <1>3, <1>6, <1>8, <1>9, <1>10, RequestIsSolvent

---------------------------------------------------------------------------
(* Steps of a call that leave its reserves alone.                          *)
LEMMA SameReservesAreSolvent ==
  ASSUME IInv, SolventInv, ~Idle, UNCHANGED book, tx'.res = tx.res,
         \A r \in Reserves : CashInView'[r] \in Int /\ CashInView'[r] >= CashInView[r]
  PROVE  SolventInv'
<1>1. UNCHANGED <<res, bal, unbacked>>
  BY DEF book
<1>2. TypeOK /\ unbacked \in [Reserves -> Nat] /\ tx.res \in [Reserves -> ReserveDatas]
      /\ CashInView \in [Reserves -> Int]
  BY ViewTyped, CashTyped DEF IInv, TypeOK
<1>3. ASSUME NEW r \in Reserves
      PROVE  Claims(tx'.res[r]) <= CashInView'[r] + unbacked[r]
  <2>1. Claims(tx.res[r]) \in Int /\ CashInView[r] \in Int /\ unbacked[r] \in Nat
        /\ CashInView'[r] \in Int /\ CashInView'[r] >= CashInView[r]
    BY <1>2, ClaimsAreInt
  <2>2. Claims(tx.res[r]) <= CashInView[r] + unbacked[r]
    BY DEF SolventInv, Covered
  <2> QED BY <2>1, <2>2
<1> QED BY <1>1, <1>3 DEF SolventInv, Covered

LEMMA FillIsSolvent ==
  ASSUME IInv, SolventInv,
         DeleteLiquidation \/ \E u \in Users, percent \in FillPercents :
                                FillUserLiquidation(u, percent)
  PROVE  SolventInv'
<1>1. ~Idle /\ UNCHANGED book
  BY DEF DeleteLiquidation, FillUserLiquidation, Building, Idle
<1>2. tx \in Txs /\ TypeOK
  BY <1>1, ViewTyped DEF IInv
<1>3. /\ tx'.res = tx.res /\ tx'.bal = tx.bal /\ tx'.in = tx.in /\ tx'.out = tx.out
      /\ tx'.flash = tx.flash /\ tx'.phase = tx.phase
  <2>1. CASE DeleteLiquidation
    BY <1>2, <2>1 DEF DeleteLiquidation, Txs
  <2>2. CASE \E u \in Users, percent \in FillPercents : FillUserLiquidation(u, percent)
    <3>1. PICK u \in Users, percent \in FillPercents : FillUserLiquidation(u, percent)
      BY <2>2
    <3> DEFINE fill  == ToFill(tx.auction[u], percent, now)
               rest  == Remaining(tx.auction[u], percent)
               moved == Moved(tx.pos, u, tx.from, fill)
               bad   == HandsOn(rest, tx.pos[u], moved[u])
               ps    == IF bad THEN BadDebtToBackstop(moved, u) ELSE moved
               left  == IF IsEmpty(rest) THEN NoAuction ELSE rest
               ts    == tx.touched \cup Held(fill.bid) \cup Held(fill.lot)
                          \cup (IF bad THEN Held(moved[u].liabilities) ELSE {})
    <3>2. tx' = [tx EXCEPT !.pos = ps, !.auction[u] = left, !.touched = ts,
                           !.health = TRUE, !.left = @ - 1]
      BY <3>1, Zenon DEF FillUserLiquidation
    <3> HIDE DEF ps, left, ts
    <3> QED BY <1>2, <3>2 DEF Txs
  <2> QED BY <2>1, <2>2
<1>4. \A r \in Reserves : CashInView'[r] = CashInView[r] /\ CashInView[r] \in Int
  <2> TAKE r \in Reserves
  <2>1. CashInView[r] = (tx.bal[r] + tx.in[r] - tx.out[r])
                          - (IF tx.phase = "build" THEN tx.flash[r] ELSE 0)
        /\ CashInView[r] \in Int
    BY <1>1, <1>2, CashTyped
  <2> QED BY <1>3, <2>1, CashAfterStep
<1>5. \A r \in Reserves : CashInView'[r] \in Int /\ CashInView'[r] >= CashInView[r]
  BY <1>4
<1> QED BY <1>1, <1>3, <1>5, SameReservesAreSolvent

(* Sending the loan's tokens leaves the cash in view as it is; the         *)
(* receiver can only add to it.                                            *)
LEMMA ReceiverIsSolvent ==
  ASSUME IInv, SolventInv,
         CallReceiver \/ \E r \in Reserves, a \in Donations : ReceiverPaysPool(r, a)
  PROVE  SolventInv'
<1>1. ~Idle /\ UNCHANGED book
  BY DEF CallReceiver, ReceiverPaysPool, Idle
<1>2. /\ tx \in Txs /\ TypeOK
      /\ \A x \in Reserves :
           /\ tx.bal[x] \in Nat /\ tx.in[x] \in Nat /\ tx.out[x] \in Nat /\ tx.flash[x] \in Nat
           /\ CashInView[x] = (tx.bal[x] + tx.in[x] - tx.out[x])
                                - (IF tx.phase = "build" THEN tx.flash[x] ELSE 0)
  BY <1>1, ViewTyped, CashTyped DEF IInv
<1>3. CASE CallReceiver
  <2>1. /\ tx.phase = "build" /\ tx'.phase = "callback" /\ tx'.res = tx.res
        /\ tx'.in = tx.in /\ tx'.out = tx.out
        /\ \A x \in Reserves : tx'.bal[x] = tx.bal[x] - tx.flash[x]
    BY <1>2, <1>3 DEF CallReceiver, Txs
  <2>2. ASSUME NEW x \in Reserves
        PROVE  CashInView'[x] \in Int /\ CashInView'[x] >= CashInView[x]
    <3> DEFINE b == tx.bal[x]
               f == tx.flash[x]
               i == tx.in[x]
               o == tx.out[x]
    <3>1. /\ b \in Nat /\ i \in Nat /\ o \in Nat /\ f \in Nat
          /\ CashInView[x] = (b + i - o) - f
      BY <1>2, <2>1
    <3>2. CashInView'[x] = ((b - f) + i - o) - 0
      BY <2>1, CashAfterStep
    <3> HIDE DEF b, f, i, o
    <3> QED BY <3>1, <3>2
  <2> QED BY <1>1, <2>1, <2>2, SameReservesAreSolvent
<1>4. CASE \E r \in Reserves, a \in Donations : ReceiverPaysPool(r, a)
  <2>1. PICK r \in Reserves, a \in Donations : ReceiverPaysPool(r, a)
    BY <1>4
  <2>2. a \in Nat
    BY LendingPoolAssumption
  <2>3. /\ tx.phase = "callback" /\ tx'.phase = "callback" /\ tx'.res = tx.res
        /\ tx'.in = tx.in /\ tx'.out = tx.out
        /\ \A x \in Reserves : tx'.bal[x] = IF x = r THEN tx.bal[x] + a ELSE tx.bal[x]
    BY <1>2, <2>1 DEF ReceiverPaysPool, Txs
  <2>4. ASSUME NEW x \in Reserves
        PROVE  CashInView'[x] \in Int /\ CashInView'[x] >= CashInView[x]
    <3> DEFINE b == tx.bal[x]
               c == tx'.bal[x]
               i == tx.in[x]
               o == tx.out[x]
    <3>1. /\ b \in Nat /\ i \in Nat /\ o \in Nat
          /\ CashInView[x] = (b + i - o) - 0
      BY <1>2, <2>3
    <3>2. c \in Nat /\ c >= b
      BY <1>2, <2>2, <2>3
    <3>3. CashInView'[x] = (c + i - o) - 0
      BY <2>3, CashAfterStep
    <3> HIDE DEF b, c, i, o
    <3> QED BY <3>1, <3>2, <3>3
  <2> QED BY <1>1, <2>3, <2>4, SameReservesAreSolvent
<1> QED BY <1>3, <1>4

---------------------------------------------------------------------------
(* Committing: what the call did not touch claims what it did before, and  *)
(* its tokens have not been moved.                                         *)
LEMMA SettleIsSolvent ==
  ASSUME IInv, SolventInv, Commit \/ CommitFlashLoan
  PROVE  SolventInv'
<1>1. ~Idle /\ Settle /\ (tx.phase = "build" => tx.flash = Zero)
  BY DEF Commit, CommitFlashLoan, Idle
<1>2. TypeOK /\ ViewOK
  BY <1>1 DEF IInv
<1>3. /\ \A r \in Reserves : res'[r] = IF r \in tx.touched THEN tx.res[r] ELSE res[r]
      /\ \A r \in Reserves : bal'[r] = tx.bal[r] + tx.in[r] - tx.out[r]
      /\ unbacked' = unbacked /\ tx' = NoTx
  BY <1>1 DEF Settle, BalanceAfter
<1>4. ASSUME NEW r \in Reserves
      PROVE  Claims(res'[r]) <= bal'[r] + unbacked'[r]
  <2>1. /\ tx.bal[r] \in Nat /\ tx.in[r] \in Nat /\ tx.out[r] \in Nat
        /\ CashInView[r] = (tx.bal[r] + tx.in[r] - tx.out[r])
                             - (IF tx.phase = "build" THEN tx.flash[r] ELSE 0)
        /\ bal[r] \in Nat /\ unbacked[r] \in Nat
    BY <1>1, <1>2, CashTyped DEF TypeOK
  <2>2. CASE r \in tx.touched
    <3>1. Claims(tx.res[r]) <= CashInView[r] + unbacked[r]
      BY <1>1 DEF SolventInv, Covered
    <3>2. CashInView[r] = (tx.bal[r] + tx.in[r] - tx.out[r]) - 0
      BY <1>1, <2>1 DEF Zero
    <3>3. CashInView[r] = bal'[r]
      BY <1>3, <2>1, <3>2
    <3> QED BY <1>3, <2>2, <3>1, <3>3
  <2>3. CASE r \notin tx.touched
    <3>1. tx.in[r] = 0 /\ tx.out[r] = 0 /\ tx.bal[r] >= bal[r]
      BY <1>2, <2>3 DEF ViewOK, ViewFollows
    <3>2. bal'[r] \in Nat /\ bal'[r] >= bal[r]
      BY <1>3, <2>1, <3>1
    <3>3. Claims(res[r]) \in Int /\ Claims(res[r]) <= bal[r] + unbacked[r]
      BY <1>2, ClaimsAreInt DEF TypeOK, SolventInv, Covered
    <3>4. Claims(res[r]) <= bal'[r] + unbacked[r]
      BY <2>1, <3>2, <3>3
    <3> QED BY <1>3, <2>3, <3>4
  <2> QED BY <2>2, <2>3
<1>5. Idle'
  BY <1>3 DEF Idle, NoTx
<1> QED BY <1>4, <1>5 DEF SolventInv, Covered

(* A gulp credits exactly the tokens nothing claims.                       *)
LEMMA GulpIsSolvent ==
  ASSUME IInv, SolventInv, NEW r \in Reserves, Gulp(r)
  PROVE  SolventInv'
<1> DEFINE old   == Loaded(r)
           delta == bal[r] - ExpectedBalance(old)
           new   == [old EXCEPT !.backstop_credit = @ + delta]
<1>1. /\ Idle /\ delta > 0 /\ res' = [res EXCEPT ![r] = new]
      /\ UNCHANGED <<bal, unbacked, tx>>
  BY DEF Gulp
<1>2. old \in ReserveDatas /\ bal[r] \in Nat /\ unbacked[r] \in Nat
  BY LoadedClaims
<1>3. TotalSupply(old) \in Nat /\ TotalLiabilities(old) \in Nat /\ old.backstop_credit \in Nat
  BY <1>2, TotalsOfReserve DEF ReserveDatas
<1>4. delta = bal[r] - Claims(old)
  BY DEF ExpectedBalance, Claims
<1> HIDE DEF old, delta
<1>5. Claims(new) <= bal[r] + unbacked[r]
  <2>1. /\ TotalSupply(new) = TotalSupply(old) /\ TotalLiabilities(new) = TotalLiabilities(old)
        /\ new.backstop_credit = old.backstop_credit + delta
    BY <1>2 DEF TotalSupply, ToAssetFromBToken, TotalLiabilities, ToAssetFromDToken, ReserveDatas
  <2> HIDE DEF new
  <2> QED BY <1>2, <1>3, <1>4, <2>1 DEF Claims
<1>6. ASSUME NEW x \in Reserves
      PROVE  Claims(res'[x]) <= bal'[x] + unbacked'[x]
  <2>1. res'[x] = IF x = r THEN new ELSE res[x]
    BY <1>1 DEF IInv, TypeOK
  <2> HIDE DEF new
  <2> QED BY <1>1, <1>5, <2>1 DEF SolventInv, Covered
<1>7. Idle'
  BY <1>1 DEF Idle
<1> QED BY <1>6, <1>7 DEF SolventInv, Covered

(* A default takes from the suppliers at least the debt written off, or    *)
(* all they have; `unbacked` counts the rest.                              *)
LEMMA DefaultedClaims ==
  ASSUME NEW r \in ReserveDatas, r.b_supply > 0, NEW d \in 0..r.d_supply
  PROVE  Claims(Defaulted(r, d)) <= Claims(r) + Shortfall(r, d)
<1> DEFINE lost  == ToAssetFromDToken(r, d)
           loss  == DivCeil(lost, r.b_supply, SCALAR_12)
           left  == [r EXCEPT !.d_supply = r.d_supply - d]
           rate  == MaxOf(r.b_rate - loss, 0)
           after == Defaulted(r, d)
<1>1. /\ r.b_rate \in Nat /\ r.d_rate \in Nat /\ r.b_supply \in Nat \ {0}
      /\ r.d_supply \in Nat /\ d \in Nat /\ r.backstop_credit \in Nat
      /\ SCALAR_12 \in Nat \ {0} /\ r.d_supply - d \in Nat
  BY ScalarAssumption DEF ReserveDatas
<1>2. lost \in Nat /\ d * r.d_rate <= lost * SCALAR_12
  BY <1>1, ConversionsOfReserve, ConversionWorth
<1> HIDE DEF lost
<1>3. loss \in Nat /\ lost * SCALAR_12 <= loss * r.b_supply
  <2> DEFINE w == lost * SCALAR_12
  <2>1. w \in Nat /\ w \in Int
    BY <1>1, <1>2
  <2>2. loss = CeilDiv(w, r.b_supply)
    BY DEF DivCeil
  <2> HIDE DEF w, loss
  <2>3. CeilDiv(w, r.b_supply) \in Nat /\ w <= CeilDiv(w, r.b_supply) * r.b_supply
    BY <1>1, <2>1, CeilOfNat, CeilBounds
  <2> QED BY <2>2, <2>3 DEF w
<1>4. after = [left EXCEPT !.b_rate = rate]
  BY <1>1 DEF Defaulted, lost, ReserveDatas
<1> HIDE DEF loss
<1>5. left \in ReserveDatas /\ left.b_rate = r.b_rate /\ left.b_supply = r.b_supply
      /\ left.d_rate = r.d_rate /\ left.backstop_credit = r.backstop_credit
  BY <1>1 DEF ReserveDatas
<1>6. Claims(left) <= Claims(r) + lost
  <2> DEFINE e == r.d_supply - d
  <2>1. e * r.d_rate = r.d_supply * r.d_rate - d * r.d_rate
    BY <1>1
  <2>2. e \in Nat /\ d * r.d_rate \in Nat /\ r.d_supply * r.d_rate \in Nat /\ lost * SCALAR_12 \in Nat
    BY <1>1, <1>2
  <2> HIDE DEF e
  <2>3. lost \in Int /\ r.d_supply * r.d_rate <= e * r.d_rate + lost * SCALAR_12
    BY <1>2, <2>1, <2>2
  <2>4. Claims([r EXCEPT !.d_supply = e]) <= Claims(r) + lost
    BY <2>2, <2>3, ClaimsAfterDebt
  <2> QED BY <2>4 DEF e
<1> HIDE DEF left
<1>7. rate \in Nat
  BY <1>1, <1>3 DEF MaxOf
<1>8. /\ TotalLiabilities(after) = TotalLiabilities(left)
      /\ after.backstop_credit = left.backstop_credit
      /\ TotalSupply(after) = FloorDiv(r.b_supply * rate, SCALAR_12)
  BY <1>4, <1>5, <1>7 DEF TotalLiabilities, ToAssetFromDToken, TotalSupply, ToAssetFromBToken,
                          MulFloor, ReserveDatas
<1>9. /\ TotalSupply(left) = FloorDiv(r.b_supply * r.b_rate, SCALAR_12)
      /\ TotalSupply(left) = TotalSupply(r)
  BY <1>5 DEF TotalSupply, ToAssetFromBToken, MulFloor
<1>10. TotalSupply(after) <= MaxOf(TotalSupply(left) - lost, 0)
  <2>1. TotalSupply(left) \in Nat
    BY <1>5, TotalsOfReserve
  <2>2. CASE r.b_rate >= loss
    <3> DEFINE x == r.b_supply * r.b_rate
               y == r.b_supply * rate
    <3>1. y = x - loss * r.b_supply
      BY <1>1, <1>3, <2>2 DEF MaxOf
    <3>2. x \in Int /\ y \in Int /\ -lost \in Int /\ loss * r.b_supply \in Nat
      BY <1>1, <1>2, <1>3, <1>7
    <3> HIDE DEF x, y
    <3>3. y <= x + (-lost) * SCALAR_12
      BY <1>1, <1>2, <1>3, <3>1, <3>2
    <3>4. FloorDiv(y, SCALAR_12) <= FloorDiv(x, SCALAR_12) + (-lost)
      BY <1>1, <3>2, <3>3, FloorStep
    <3>5. FloorDiv(y, SCALAR_12) \in Int
      BY <1>1, <3>2, FloorBounds
    <3>6. TotalSupply(after) = FloorDiv(y, SCALAR_12) /\ TotalSupply(left) = FloorDiv(x, SCALAR_12)
      BY <1>8, <1>9 DEF x, y
    <3> QED BY <1>2, <2>1, <3>4, <3>5, <3>6 DEF MaxOf
  <2>3. CASE ~(r.b_rate >= loss)
    <3>1. rate = 0
      BY <1>1, <1>3, <2>3 DEF MaxOf
    <3>2. TotalSupply(after) = FloorDiv(0, SCALAR_12)
      BY <1>1, <1>8, <3>1
    <3>3. FloorDiv(0, SCALAR_12) = 0
      BY <1>1 DEF FloorDiv
    <3> QED BY <1>2, <2>1, <3>2, <3>3 DEF MaxOf
  <2> QED BY <2>2, <2>3
<1>11. after \in ReserveDatas
  BY <1>4, <1>5, <1>7 DEF ReserveDatas
<1>12. Shortfall(r, d) = MaxOf(lost - TotalSupply(left), 0)
  BY <1>9 DEF Shortfall, lost
<1> HIDE DEF after, rate
<1>13. /\ TotalSupply(after) \in Nat /\ TotalSupply(left) \in Nat
       /\ TotalLiabilities(left) \in Nat /\ left.backstop_credit \in Nat
       /\ Claims(r) \in Int
  BY <1>1, <1>5, <1>11, TotalsOfReserve, ClaimsAreInt
<1>14. Claims(left) = TotalSupply(left) + left.backstop_credit - TotalLiabilities(left)
       /\ Claims(after) = TotalSupply(after) + left.backstop_credit - TotalLiabilities(left)
  BY <1>8 DEF Claims
<1>15. Claims(after) <= Claims(r) + MaxOf(lost - TotalSupply(left), 0)
  BY <1>2, <1>6, <1>10, <1>13, <1>14 DEF MaxOf
<1> QED BY <1>12, <1>15 DEF after

LEMMA DefaultIsSolvent ==
  ASSUME IInv, SolventInv, DefaultBadDebt
  PROVE  SolventInv'
<1> DEFINE debt == pos[Backstop].liabilities
<1>1. /\ Idle
      /\ \A r \in Held(debt) : res[r].b_supply > 0
      /\ res' = [r \in Reserves |->
                   IF r \in Held(debt) THEN Defaulted(Loaded(r), debt[r]) ELSE res[r]]
      /\ unbacked' = [r \in Reserves |->
                        IF r \in Held(debt) THEN unbacked[r] + Shortfall(Loaded(r), debt[r])
                        ELSE unbacked[r]]
      /\ UNCHANGED <<bal, tx>>
  BY DEF DefaultBadDebt
<1>2. /\ Matches(res, pos) /\ res \in [Reserves -> ReserveDatas]
      /\ pos \in [Holders -> Positions] /\ Backstop \in Holders /\ debt \in [Reserves -> Nat]
  BY DEF IInv, TypeOK, Holders, Positions
<1>3. \A r \in Reserves : debt[r] \in Nat /\ debt[r] <= res[r].d_supply
  BY <1>2, HeldIsBounded
<1> HIDE DEF debt
<1>4. ASSUME NEW r \in Reserves
      PROVE  Claims(res'[r]) <= bal'[r] + unbacked'[r]
  <2>1. CASE r \notin Held(debt)
    BY <1>1, <2>1 DEF SolventInv, Covered
  <2>2. CASE r \in Held(debt)
    <3> DEFINE old == Loaded(r)
               new == Defaulted(old, debt[r])
               n   == Shortfall(old, debt[r])
    <3>1. /\ old \in ReserveDatas /\ bal[r] \in Nat /\ unbacked[r] \in Nat
          /\ Claims(old) <= bal[r] + unbacked[r]
      BY LoadedClaims
    <3>2. /\ old.b_supply = res[r].b_supply /\ old.d_supply = res[r].d_supply
          /\ old.d_rate >= SCALAR_12
      BY LoadedUpdates DEF Updated
    <3>3. res'[r] = new /\ unbacked'[r] = unbacked[r] + n /\ bal'[r] = bal[r]
      BY <1>1, <2>2
    <3>4. old.b_supply > 0 /\ debt[r] \in Nat /\ debt[r] <= old.d_supply
      BY <1>1, <1>3, <2>2, <3>2
    <3> HIDE DEF old
    <3>5. new \in ReserveDatas /\ n \in Nat
      BY <3>1, <3>2, <3>4, DefaultedTyped
    <3>6. old.d_supply \in Nat
      BY <3>1 DEF ReserveDatas
    <3>7. debt[r] \in 0..old.d_supply
      BY <3>4, <3>6
    <3>8. Claims(new) <= Claims(old) + n
      BY <3>1, <3>4, <3>7, DefaultedClaims
    <3>9. Claims(new) \in Int /\ Claims(old) \in Int
      BY <3>1, <3>5, ClaimsAreInt
    <3> HIDE DEF new, n
    <3>10. Claims(new) <= bal[r] + (unbacked[r] + n)
      BY <3>1, <3>5, <3>8, <3>9
    <3> QED BY <3>3, <3>10
  <2> QED BY <2>1, <2>2
<1>5. Idle'
  BY <1>1 DEF Idle
<1> QED BY <1>4, <1>5 DEF SolventInv, Covered

---------------------------------------------------------------------------
(* SolventInv is kept by every action.                                     *)
LEMMA RequestsAreSolvent ==
  ASSUME IInv, SolventInv, Requests
  PROVE  SolventInv'
<1>1. CASE \E r \in Reserves : \E a \in Amounts[r] :
             \/ Supply(r, a)
             \/ Withdraw(r, a)
             \/ SupplyCollateral(r, a)
             \/ WithdrawCollateral(r, a)
             \/ Borrow(r, a)
             \/ Repay(r, a)
  <2>1. PICK r \in Reserves : \E a \in Amounts[r] :
             \/ Supply(r, a)
             \/ Withdraw(r, a)
             \/ SupplyCollateral(r, a)
             \/ WithdrawCollateral(r, a)
             \/ Borrow(r, a)
             \/ Repay(r, a)
    BY <1>1
  <2>2. PICK a \in Amounts[r] :
             \/ Supply(r, a)
             \/ Withdraw(r, a)
             \/ SupplyCollateral(r, a)
             \/ WithdrawCollateral(r, a)
             \/ Borrow(r, a)
             \/ Repay(r, a)
    BY <2>1
  <2>3. a \in Nat
    BY AmountsTyped
  <2> QED BY <2>2, <2>3, SupplyIsSolvent, WithdrawIsSolvent, BorrowIsSolvent, RepayIsSolvent
<1>2. CASE CallReceiver \/ \E r \in Reserves, a \in Donations : ReceiverPaysPool(r, a)
  BY <1>2, ReceiverIsSolvent
<1>3. CASE DeleteLiquidation \/ \E u \in Users, percent \in FillPercents :
                                  FillUserLiquidation(u, percent)
  BY <1>3, FillIsSolvent
<1>4. CASE Commit \/ CommitFlashLoan
  BY <1>4, SettleIsSolvent
<1>5. CASE Abort
  <2>1. UNCHANGED <<res, bal, unbacked>> /\ Idle'
    BY <1>5 DEF Abort, book, Idle, NoTx
  <2> QED BY <2>1, QuietStepIsSolvent
<1> QED BY <1>1, <1>2, <1>3, <1>4, <1>5 DEF Requests

LEMMA CallsAreSolvent ==
  ASSUME IInv, SolventInv, Calls
  PROVE  SolventInv'
<1>1. CASE \E u \in Users : Submit(u)
  BY <1>1, SubmitIsSolvent
<1>2. CASE \E u \in Users, r \in Reserves, a \in FlashAmounts : FlashLoan(u, r, a)
  BY <1>2, FlashLoanIsSolvent, LendingPoolAssumption
<1>3. CASE \E r \in Reserves : Gulp(r)
  BY <1>3, GulpIsSolvent
<1>4. CASE DefaultBadDebt
  BY <1>4, DefaultIsSolvent
<1>5. CASE \/ \E u \in Users : DeleteStaleAuction(u)
           \/ \E u \in Users, bidSet, lotSet \in SUBSET Reserves, percent \in LiqPercents :
                NewLiquidation(u, bidSet, lotSet, percent)
           \/ UpdateStatus
           \/ \E s \in AdminStatuses : SetStatus(s)
  <2>1. UNCHANGED <<res, bal, unbacked, tx>> /\ Idle
    BY <1>5, Zenon DEF DeleteStaleAuction, NewLiquidation, UpdateStatus, SetStatus, book
  <2>2. Idle'
    BY <2>1 DEF Idle
  <2> QED BY <2>1, <2>2, QuietStepIsSolvent
<1> QED BY <1>1, <1>2, <1>3, <1>4, <1>5 DEF Calls

LEMMA StutterIsSolvent ==
  ASSUME SolventInv, UNCHANGED vars
  PROVE  SolventInv'
<1>1. UNCHANGED <<res, bal, unbacked, tx>>
  BY DEF vars
<1>2. CashInView' = CashInView
  BY <1>1 DEF CashInView, BalanceAfter
<1> QED BY <1>1, <1>2 DEF SolventInv, Covered, Idle

(* In every state of every pool, between calls and in the view of an open  *)
(* call, the tokens each reserve holds and is owed cover what it owes its  *)
(* suppliers and its backstop, except for the debt defaults wrote off with *)
(* no supply left to bear it: no rounding, accrual, withdrawal, repayment, *)
(* flash loan or gulp creates a claim without the tokens behind it.        *)
THEOREM PoolIsSolvent == Spec => []Solvency
<1>1. Init => IInv /\ SolventInv
  BY InitHasIInv, InitIsSolvent
<1>2. IInv /\ [Next]_vars => IInv'
  BY RequestsKeepIInv, CallsKeepIInv, WorldKeepsIInv, StutterKeepsIInv DEF Next
<1>3. IInv /\ SolventInv /\ [Next]_vars => SolventInv'
  BY RequestsAreSolvent, CallsAreSolvent, WorldIsSolvent, StutterIsSolvent DEF Next
<1>4. IInv /\ SolventInv => Solvency
  BY SolventInvIsSolvency
<1> QED BY <1>1, <1>2, <1>3, <1>4, PTL DEF Spec

---------------------------------------------------------------------------
(* V. The checks at the end of a call.                                     *)

---------------------------------------------------------------------------
(* An account that rests: it has no more positions than allowed, all that  *)
(* its auction asks for, and no debt without collateral.                   *)
SafeAccount(p, a) ==
  /\ EffectiveCount(p) <= MaxPositions
  /\ Covers(p, a)
  /\ HasLiabilities(p) => HasCollateral(p)

(* q has no more debt and no less collateral than p, in any reserve.       *)
NoRiskier(p, q) ==
  \A r \in Reserves : /\ q.liabilities[r] <= p.liabilities[r]
                      /\ q.collateral[r] >= p.collateral[r]

(* A reserve out of which a call takes no more than it brings, or that is  *)
(* not lent out in full after all that the call does to it.                *)
CanBePaid(reserve, i, o, f) ==
  \/ o <= i /\ f = 0
  \/ TotalLiabilities(reserve) <= TotalSupply(reserve)

OthersAreSafe == \A u \in Users \ {tx.from} : SafeAccount(tx.pos[u], tx.auction[u])

(* The marks of what the caller made worse.                                *)
ChecksAreDue ==
  /\ tx.prev <= MaxPositions
  /\ tx.health \/ NoRiskier(pos[tx.from], Mine)
  /\ \A r \in Reserves :
       /\ tx.res[r].d_supply > res[r].d_supply => r \in tx.maxUtil
       /\ CanBePaid(tx.res[r], tx.in[r], tx.out[r], tx.flash[r])
       /\ tx.phase = "build" /\ unbacked[r] = 0 => tx.flash[r] <= tx.bal[r]

ViewIsSafe ==
  /\ OthersAreSafe
  /\ ChecksAreDue
  /\ tx.phase = "callback" => Validated

LedgerIsSafe == \A u \in Users : SafeAccount(pos[u], auction[u])

SafeInv == LedgerIsSafe /\ (~Idle => ViewIsSafe)

---------------------------------------------------------------------------
(* Positions that are held.                                                *)
LEMMA HeldIsFinite ==
  ASSUME NEW f
  PROVE  IsFiniteSet(Held(f)) /\ Cardinality(Held(f)) \in Nat
<1>1. Held(f) \subseteq Reserves
  BY DEF Held
<1> QED BY <1>1, HealthAssumption, FS_Subset, FS_CardinalityType

LEMMA CountIsNat ==
  ASSUME NEW p
  PROVE  EffectiveCount(p) \in Nat
BY HeldIsFinite DEF EffectiveCount

(* An account that only loses tokens holds no more positions.              *)
LEMMA CountShrinks ==
  ASSUME NEW p \in Positions, NEW q \in Positions,
         \A r \in Reserves : /\ q.liabilities[r] <= p.liabilities[r]
                             /\ q.collateral[r] <= p.collateral[r]
  PROVE  EffectiveCount(q) <= EffectiveCount(p)
<1> DEFINE a == Held(q.liabilities)
           b == Held(p.liabilities)
           c == Held(q.collateral)
           d == Held(p.collateral)
<1>1. \A r \in Reserves : /\ p.liabilities[r] \in Nat /\ q.liabilities[r] \in Nat
                          /\ p.collateral[r] \in Nat /\ q.collateral[r] \in Nat
  BY DEF Positions
<1>2. a \subseteq b /\ c \subseteq d
  BY <1>1 DEF Held
<1>3. /\ EffectiveCount(q) = Cardinality(a) + Cardinality(c)
      /\ EffectiveCount(p) = Cardinality(b) + Cardinality(d)
  BY DEF EffectiveCount
<1>4. /\ IsFiniteSet(b) /\ IsFiniteSet(d)
      /\ Cardinality(a) \in Nat /\ Cardinality(b) \in Nat
      /\ Cardinality(c) \in Nat /\ Cardinality(d) \in Nat
  BY HeldIsFinite
<1> HIDE DEF a, b, c, d
<1>5. Cardinality(a) <= Cardinality(b) /\ Cardinality(c) <= Cardinality(d)
  BY <1>2, <1>4, FS_Subset
<1> QED BY <1>3, <1>4, <1>5

(* An auction of nothing asks for nothing.                                 *)
LEMMA NothingIsCovered ==
  ASSUME NEW p \in Positions
  PROVE  Covers(p, NoAuction)
BY DEF Covers, NoAuction, Zero, Positions

LEMMA NoRiskierSteps ==
  ASSUME NEW p \in Positions, NEW q \in Positions, NEW o \in Positions,
         NoRiskier(p, q), NoRiskier(q, o)
  PROVE  NoRiskier(p, o)
BY DEF NoRiskier, Positions

LEMMA SecuredStays ==
  ASSUME NEW p \in Positions, NEW q \in Positions, NoRiskier(p, q),
         HasLiabilities(p) => HasCollateral(p)
  PROVE  HasLiabilities(q) => HasCollateral(q)
<1>1. \A r \in Reserves : /\ p.liabilities[r] \in Nat /\ q.liabilities[r] \in Nat
                          /\ p.collateral[r] \in Nat /\ q.collateral[r] \in Nat
  BY DEF Positions
<1>2. Held(q.liabilities) \subseteq Held(p.liabilities)
      /\ Held(p.collateral) \subseteq Held(q.collateral)
  BY <1>1 DEF NoRiskier, Held
<1> QED BY <1>2 DEF HasLiabilities, HasCollateral

(* require_utilization_below_100: a reserve that is not lent out in full   *)
(* is owed no more than it owes.                                           *)
LEMMA NotLentOutInFull ==
  ASSUME NEW r \in ReserveDatas, BelowFullUtilization(r)
  PROVE  TotalLiabilities(r) <= TotalSupply(r)
<1>1. TotalLiabilities(r) \in Nat /\ TotalSupply(r) \in Nat /\ SCALAR_7 \in Nat
  BY TotalsOfReserve, ScalarAssumption
<1> QED BY <1>1 DEF BelowFullUtilization, Utilization

---------------------------------------------------------------------------
(* Health.                                                                 *)

(* A debt that can be valued is worth something: every conversion of it    *)
(* rounds up.                                                              *)
LEMMA ProductIsPositive ==
  ASSUME NEW x \in Nat \ {0}, NEW y \in Nat \ {0}, NEW d \in Nat \ {0}
  PROVE  CeilDiv(x * y, d) \in Nat \ {0}
<1>1. x * y \in Nat \ {0}
  BY SMT
<1> DEFINE c == CeilDiv(x * y, d)
<1>2. c \in Nat /\ x * y <= c * d
  BY <1>1, CeilOfNat, CeilBounds
<1>3. c # 0
  <2> HIDE DEF c
  <2> SUFFICES ASSUME c = 0 PROVE FALSE
    OBVIOUS
  <2>1. c * d = 0
    OBVIOUS
  <2> QED BY <1>1, <1>2, <2>1
<1> QED BY <1>2, <1>3

LEMMA DebtIsWorthSomething ==
  ASSUME NEW rs \in [Reserves -> ReserveDatas], NEW pr \in [Reserves -> Nat],
         NEW p \in Positions, CanValue(pr, p),
         \A r \in Reserves : rs[r].d_rate > 0,
         HasLiabilities(p)
  PROVE  PositionData(rs, pr, p).liability_base \in Nat \ {0}
<1> DEFINE L == Held(p.liabilities)
           lb == [r \in L |-> DebtValue(pr, r, ToEffectiveAssetFromDToken(rs[r], Config[r], p.liabilities[r]))]
<1>1. L # {} /\ L \subseteq Reserves /\ IsFiniteSet(L)
  BY HeldIsFinite DEF HasLiabilities, Held
<1>2. ASSUME NEW r \in L
      PROVE  lb[r] \in Nat \ {0}
  <2>1. r \in Reserves /\ p.liabilities[r] \in Nat \ {0}
    BY <1>2 DEF Held, Positions
  <2>2. rs[r].d_rate \in Nat \ {0} /\ SCALAR_12 \in Nat \ {0} /\ SCALAR_7 \in Nat \ {0}
    BY <2>1, ScalarAssumption DEF ReserveDatas
  <2>3. pr[r] \in Nat \ {0} /\ Config[r].l_factor \in Nat \ {0} /\ Config[r].scalar \in Nat \ {0}
    BY <1>2, <2>1, HealthAssumption DEF CanValue, ReserveConfigs
  <2>4. ToAssetFromDToken(rs[r], p.liabilities[r]) \in Nat \ {0}
    BY <2>1, <2>2, ProductIsPositive DEF ToAssetFromDToken, MulCeil
  <2>5. ToEffectiveAssetFromDToken(rs[r], Config[r], p.liabilities[r]) \in Nat \ {0}
    BY <2>2, <2>3, <2>4, ProductIsPositive DEF ToEffectiveAssetFromDToken, DivCeil
  <2> QED BY <2>3, <2>5, ProductIsPositive DEF DebtValue, MulCeil
<1>3. lb \in [L -> Nat]
  BY <1>2
<1>4. PositionData(rs, pr, p).liability_base = Total(lb)
  BY DEF PositionData
<1>5. PICK r \in L : TRUE
  BY <1>1
<1>6. lb[r] \in Nat \ {0}
  BY <1>2
<1> HIDE DEF lb, L
<1>7. Total(lb) \in Nat /\ lb[r] <= Total(lb)
  BY <1>1, <1>3, TotalIsCount, TotalBoundsMember
<1> QED BY <1>4, <1>6, <1>7

(* Whoever passes the health check with debt has collateral.               *)
LEMMA HealthyIsSecured ==
  ASSUME NEW rs \in [Reserves -> ReserveDatas], price \in [Reserves -> Nat],
         NEW p \in Positions, Healthy(rs, p),
         \A r \in Reserves : rs[r].d_rate > 0,
         HasLiabilities(p)
  PROVE  HasCollateral(p)
<1> SUFFICES ASSUME ~HasCollateral(p) PROVE FALSE
  OBVIOUS
<1> DEFINE d == PositionData(rs, price, p)
           e == d.liability_base
<1>1. CanValue(price, p) /\ ~IsHfUnder(d, MIN_HF)
  BY DEF Healthy
<1>2. e \in Nat \ {0}
  BY <1>1, DebtIsWorthSomething
<1>3. d.collateral_base = 0
  <2>1. Held(p.collateral) = {}
    BY DEF HasCollateral
  <2> DEFINE cb == [r \in Held(p.collateral) |->
                      Value(price, r, ToEffectiveAssetFromBToken(rs[r], Config[r], p.collateral[r]))]
  <2>2. d.collateral_base = Total(cb)
    BY DEF PositionData
  <2>3. cb \in [{} -> Nat] /\ \A x \in {} : cb[x] = 0
    BY <2>1
  <2> HIDE DEF cb
  <2>4. Total(cb) = 0
    BY <2>3, FS_EmptySet, TotalOfZeros
  <2> QED BY <2>2, <2>4
<1>4. HealthFactor(d) = 0
  <2>1. HealthFactor(d) = FloorDiv(0 * ORACLE_SCALAR, e)
    BY <1>3 DEF HealthFactor, DivFloor
  <2>2. 0 * ORACLE_SCALAR = 0
    BY HealthAssumption
  <2> HIDE DEF e
  <2>3. FloorDiv(0, e) = 0
    BY <1>2, SMT DEF FloorDiv
  <2> QED BY <2>1, <2>2, <2>3
<1>5. MulFloor(ORACLE_SCALAR, MIN_HF, SCALAR_7) > 0
  <2>1. /\ ORACLE_SCALAR \in Nat \ {0} /\ MIN_HF \in Nat /\ SCALAR_7 \in Nat \ {0}
        /\ SCALAR_7 <= MIN_HF
    BY HealthAssumption, ScalarAssumption
  <2>2. 1 * SCALAR_7 <= ORACLE_SCALAR * MIN_HF /\ ORACLE_SCALAR * MIN_HF \in Int
    <3>1. 1 * MIN_HF <= ORACLE_SCALAR * MIN_HF
      BY <2>1, ProductOrder
    <3> QED BY <2>1, <3>1
  <2>3. 1 <= FloorDiv(ORACLE_SCALAR * MIN_HF, SCALAR_7)
    BY <2>1, <2>2, FloorIsGreatest
  <2>4. FloorDiv(ORACLE_SCALAR * MIN_HF, SCALAR_7) \in Int
    BY <2>1, <2>2, FloorBounds
  <2> QED BY <2>3, <2>4 DEF MulFloor
<1>6. IsHfUnder(d, MIN_HF)
  <2> HIDE DEF d
  <2> QED BY <1>2, <1>4, <1>5 DEF IsHfUnder, e
<1> QED BY <1>1, <1>6
---------------------------------------------------------------------------
(* Steps outside of calls: they leave the accounts safe.                   *)
LEMMA IdleStepIsSafe ==
  ASSUME Idle', LedgerIsSafe'
  PROVE  SafeInv'
BY DEF SafeInv

LEMMA SameLedgerIsSafe ==
  ASSUME LedgerIsSafe, UNCHANGED <<pos, auction>>
  PROVE  LedgerIsSafe'
BY DEF LedgerIsSafe

LEMMA InitIsSafe ==
  ASSUME Init
  PROVE  SafeInv
<1>1. Idle
  BY DEF Init, Idle, NoTx
<1>2. /\ Held(Zero) = {} /\ NoPositions \in Positions
      /\ NoPositions.liabilities = Zero /\ NoPositions.collateral = Zero
  BY DEF Held, Zero, NoPositions, Positions
<1>3. EffectiveCount(NoPositions) <= MaxPositions
  <2>1. EffectiveCount(NoPositions) = 0
    BY <1>2, FS_EmptySet DEF EffectiveCount
  <2> QED BY <2>1, LendingPoolAssumption
<1>4. Covers(NoPositions, NoAuction) /\ ~HasLiabilities(NoPositions)
  BY <1>2, NothingIsCovered DEF HasLiabilities
<1>5. \A u \in Users : pos[u] = NoPositions /\ auction[u] = NoAuction
  BY DEF Init, Holders
<1> QED BY <1>1, <1>3, <1>4, <1>5 DEF SafeInv, LedgerIsSafe, SafeAccount

LEMMA WorldIsSafe ==
  ASSUME SafeInv, World
  PROVE  SafeInv'
<1>1. Idle' /\ UNCHANGED <<pos, auction>>
  BY DEF World, Tick, ReportPrice, BackstopChanges, Donate, book, env, Idle
<1> QED BY <1>1, SameLedgerIsSafe, IdleStepIsSafe DEF SafeInv

(* Calls of one step that no user's account notices.                       *)
LEMMA PoolCallIsSafe ==
  ASSUME IInv, SafeInv,
         \/ \E r \in Reserves : Gulp(r)
         \/ DefaultBadDebt
         \/ UpdateStatus
         \/ \E s \in AdminStatuses : SetStatus(s)
  PROVE  SafeInv'
<1>1. Idle' /\ UNCHANGED auction
  BY DEF Gulp, DefaultBadDebt, UpdateStatus, SetStatus, book, Idle
<1>2. \A u \in Users : pos'[u] = pos[u]
  <2>1. CASE DefaultBadDebt
    <3>1. pos' = [pos EXCEPT ![Backstop].liabilities = Zero] /\ pos \in [Holders -> Positions]
      BY <2>1 DEF DefaultBadDebt, IInv, TypeOK
    <3>2. \A u \in Users : u \in Holders /\ u # Backstop
      BY LendingPoolAssumption DEF Holders
    <3> QED BY <3>1, <3>2
  <2>2. CASE ~DefaultBadDebt
    <3>1. UNCHANGED pos
      BY <2>2 DEF Gulp, UpdateStatus, SetStatus, book
    <3> QED BY <3>1
  <2> QED BY <2>1, <2>2
<1>3. LedgerIsSafe'
  BY <1>1, <1>2 DEF SafeInv, LedgerIsSafe
<1> QED BY <1>1, <1>3, IdleStepIsSafe

(* An account's auction changes to one that its positions cover.           *)
LEMMA NewAuctionIsSafe ==
  ASSUME IInv, SafeInv, Idle, NEW u \in Users, NEW a, Covers(pos[u], a),
         auction' = [auction EXCEPT ![u] = a], UNCHANGED <<pos, tx>>
  PROVE  SafeInv'
<1>1. auction \in [Users -> Auctions]
  BY DEF IInv, TypeOK
<1>2. auction'[u] = a /\ \A v \in Users \ {u} : auction'[v] = auction[v]
  BY <1>1
<1>3. \A v \in Users : SafeAccount(pos[v], auction'[v])
  BY <1>2 DEF SafeInv, LedgerIsSafe, SafeAccount
<1>4. LedgerIsSafe' /\ Idle'
  BY <1>3 DEF LedgerIsSafe, Idle
<1> QED BY <1>4, IdleStepIsSafe

LEMMA DeleteStaleIsSafe ==
  ASSUME IInv, SafeInv, NEW u \in Users, DeleteStaleAuction(u)
  PROVE  SafeInv'
<1>1. pos[u] \in Positions
  BY DEF IInv, TypeOK, Holders
<1>2. Covers(pos[u], NoAuction)
  BY <1>1, NothingIsCovered
<1> QED BY <1>2, NewAuctionIsSafe DEF DeleteStaleAuction

LEMMA NewLiquidationIsSafe ==
  ASSUME IInv, SafeInv, NEW u \in Users, NEW bidSet, NEW lotSet, NEW percent \in LiqPercents,
         NewLiquidation(u, bidSet, lotSet, percent)
  PROVE  SafeInv'
<1> DEFINE rs == [r \in Reserves |-> Loaded(r)]
           quote == LiquidationQuote(rs, price, pos[u], bidSet, lotSet, percent)
           new == [bid |-> quote.bid, lot |-> quote.lot, block |-> now + 1]
<1>1. /\ Idle /\ CanValue(price, pos[u])
      /\ auction' = [auction EXCEPT ![u] = new]
      /\ UNCHANGED <<pos, tx>>
  BY DEF NewLiquidation
<1>2. rs \in [Reserves -> ReserveDatas]
  BY OpenedViewOK
<1>3. /\ price \in [Reserves -> Nat] /\ pos[u] \in Positions /\ percent \in 0..100
  BY LendingPoolAssumption DEF IInv, TypeOK, Holders
<1> HIDE DEF rs
<1>4. \A r \in Reserves : /\ quote.bid[r] <= pos[u].liabilities[r]
                          /\ quote.lot[r] <= pos[u].collateral[r]
  BY <1>1, <1>2, <1>3, QuoteIsPart
<1> HIDE DEF quote
<1>5. Covers(pos[u], new)
  BY <1>4 DEF Covers
<1> HIDE DEF new
<1> QED BY <1>1, <1>5, NewAuctionIsSafe

---------------------------------------------------------------------------
(* Opening a call.                                                         *)
LEMMA OpenedIsSafe ==
  ASSUME IInv, SafeInv, NEW u \in Users
  PROVE  /\ \A v \in Users : SafeAccount(pos[v], auction[v])
         /\ EffectiveCount(pos[u]) <= MaxPositions
         /\ NoRiskier(pos[u], pos[u])
         /\ \A r \in Reserves : Loaded(r).d_supply = res[r].d_supply /\ res[r].d_supply \in Nat
<1>1. pos[u] \in Positions /\ res \in [Reserves -> ReserveDatas]
  BY DEF IInv, TypeOK, Holders
<1>2. \A r \in Reserves : Loaded(r).d_supply = res[r].d_supply /\ res[r].d_supply \in Nat
  BY <1>1, LoadedUpdates DEF Updated, ReserveDatas
<1> QED BY <1>1, <1>2 DEF SafeInv, LedgerIsSafe, SafeAccount, NoRiskier, Positions

LEMMA SubmitIsSafe ==
  ASSUME IInv, SafeInv, NEW u \in Users, Submit(u)
  PROVE  SafeInv'
<1>1. /\ tx' = Opened(u) /\ UNCHANGED <<pos, auction, res, unbacked>>
  BY DEF Submit, book
<1>2. /\ tx'.phase = "build" /\ tx'.from = u /\ tx'.pos = pos /\ tx'.auction = auction
      /\ tx'.prev = EffectiveCount(pos[u]) /\ tx'.bal = bal
      /\ \A r \in Reserves : /\ tx'.in[r] = 0 /\ tx'.out[r] = 0 /\ tx'.flash[r] = 0
                             /\ tx'.res[r] = Loaded(r)
  BY <1>1 DEF Opened, Zero
<1>3. /\ \A v \in Users : SafeAccount(pos[v], auction[v])
      /\ EffectiveCount(pos[u]) <= MaxPositions
      /\ NoRiskier(pos[u], pos[u])
      /\ \A r \in Reserves : Loaded(r).d_supply = res[r].d_supply /\ res[r].d_supply \in Nat
  BY OpenedIsSafe
<1>4. OthersAreSafe'
  BY <1>2, <1>3 DEF OthersAreSafe
<1>5. ChecksAreDue'
  <2>1. \A r \in Reserves : bal[r] \in Nat
    BY DEF IInv, TypeOK
  <2> QED BY <1>1, <1>2, <1>3, <2>1 DEF ChecksAreDue, Mine, CanBePaid
<1>6. LedgerIsSafe'
  BY <1>1, SameLedgerIsSafe DEF SafeInv
<1> QED BY <1>2, <1>4, <1>5, <1>6 DEF SafeInv, ViewIsSafe

(* The tokens a flash loan is about to lend are there, if nothing but the  *)
(* pool's loans keeps them from being there.                               *)
LEMMA FlashLoanIsSafe ==
  ASSUME IInv, SolventInv, SafeInv, IInv', SolventInv',
         NEW u \in Users, NEW r \in Reserves, NEW a \in Nat, FlashLoan(u, r, a)
  PROVE  SafeInv'
<1> DEFINE old == Loaded(r)
           debt == ToDTokenUp(old, a)
           reserve == [old EXCEPT !.d_supply = @ + debt]
<1>1. /\ BelowFullUtilization(reserve)
      /\ UNCHANGED <<pos, auction, res, unbacked>>
  BY DEF FlashLoan, Opened, book
<1>2. /\ tx'.phase = "build" /\ tx'.from = u /\ tx'.auction = auction
      /\ tx'.prev = EffectiveCount(pos[u]) /\ tx'.bal = bal
      /\ tx'.health = TRUE /\ tx'.maxUtil = {r}
      /\ tx'.in = Zero /\ tx'.out = Zero /\ tx'.flash = [Zero EXCEPT ![r] = a]
      /\ tx'.res = [[x \in Reserves |-> Loaded(x)] EXCEPT ![r] = reserve]
      /\ \A v \in Users \ {u} : tx'.pos[v] = pos[v]
  <2>1. pos \in [Holders -> Positions] /\ \A v \in Users : v \in Holders
    BY DEF IInv, TypeOK, Holders
  <2>2. tx' = [Opened(u) EXCEPT !.res[r] = reserve,
                                !.pos[u].liabilities[r] = @ + debt,
                                !.touched = {r},
                                !.flash[r] = a,
                                !.health = TRUE,
                                !.maxUtil = {r}]
    BY DEF FlashLoan, Opened
  <2> HIDE DEF reserve, debt
  <2> QED BY <2>1, <2>2 DEF Opened
<1> HIDE DEF debt
<1>3. /\ \A v \in Users : SafeAccount(pos[v], auction[v])
      /\ EffectiveCount(pos[u]) <= MaxPositions
      /\ \A x \in Reserves : Loaded(x).d_supply = res[x].d_supply /\ res[x].d_supply \in Nat
  BY OpenedIsSafe
<1>4. OthersAreSafe'
  BY <1>2, <1>3 DEF OthersAreSafe
<1>5. /\ ~Idle'
      /\ tx'.res \in [Reserves -> ReserveDatas] /\ bal \in [Reserves -> Nat]
      /\ unbacked \in [Reserves -> Nat]
  <2>1. ~Idle' /\ tx' # NoTx
    BY <1>2 DEF Idle, NoTx
  <2>2. tx' \in {NoTx} \cup Txs
    BY DEF IInv, TypeOK
  <2>3. tx'.res \in [Reserves -> ReserveDatas]
    BY <2>1, <2>2 DEF Txs
  <2> QED BY <2>1, <2>3 DEF IInv, TypeOK
<1>6. /\ tx'.res[r] = reserve /\ reserve \in ReserveDatas
      /\ \A x \in Reserves \ {r} : tx'.res[x] = Loaded(x) /\ tx'.flash[x] = 0
      /\ \A x \in Reserves : tx'.in[x] = 0 /\ tx'.out[x] = 0
      /\ tx'.flash[r] = a
  <2>1. tx'.res[r] = reserve
    BY <1>2
  <2> QED BY <1>2, <1>5, <2>1 DEF Zero
<1> HIDE DEF reserve
<1>7. TotalLiabilities(reserve) <= TotalSupply(reserve)
  BY <1>1, <1>6, NotLentOutInFull
<1>11. /\ tx'.bal = bal /\ unbacked' = unbacked /\ tx'.phase = "build"
       /\ tx'.flash[r] = a /\ tx'.in[r] = 0 /\ tx'.out[r] = 0
  <2>1. tx'.bal = bal /\ tx'.phase = "build"
    BY <1>2
  <2>2. unbacked' = unbacked
    BY <1>1
  <2>3. tx'.flash[r] = a /\ tx'.in[r] = 0 /\ tx'.out[r] = 0
    BY <1>6
  <2> QED BY <2>1, <2>2, <2>3
<1>8. ASSUME unbacked[r] = 0
      PROVE  a <= bal[r]
  <2> DEFINE l == TotalLiabilities(reserve)
             s == TotalSupply(reserve)
             c == reserve.backstop_credit
             b == bal[r]
  <2>1. l \in Nat /\ s \in Nat /\ c \in Nat /\ b \in Nat
    BY <1>5, <1>6, TotalsOfReserve DEF ReserveDatas
  <2>2. CashInView'[r] = b - a
    <3>1. CashInView'[r] = (b + 0 - 0) - a
      BY <1>11, CashAfterStep
    <3> QED BY <2>1, <3>1
  <2>3. s + c - l <= CashInView'[r] + unbacked[r]
    <3>1. Claims(tx'.res[r]) <= CashInView'[r] + unbacked'[r]
      BY <1>5 DEF SolventInv, Covered
    <3> QED BY <1>1, <1>6, <3>1 DEF Claims
  <2>4. l <= s
    BY <1>7
  <2> HIDE DEF l, s, c, b
  <2>5. a <= b
    BY <1>8, <2>1, <2>2, <2>3, <2>4
  <2> QED BY <2>5 DEF b
<1>9. ChecksAreDue'
  <2>1. ASSUME NEW x \in Reserves
        PROVE  /\ tx'.res[x].d_supply > res'[x].d_supply => x \in tx'.maxUtil
               /\ CanBePaid(tx'.res[x], tx'.in[x], tx'.out[x], tx'.flash[x])
               /\ tx'.phase = "build" /\ unbacked'[x] = 0 => tx'.flash[x] <= tx'.bal[x]
    <3>1. bal[x] \in Nat
      BY <1>5
    <3>2. CASE x = r
      <4>1. r \in tx'.maxUtil
        BY <1>2
      <4>2. CanBePaid(tx'.res[r], tx'.in[r], tx'.out[r], tx'.flash[r])
        BY <1>6, <1>7 DEF CanBePaid
      <4>3. unbacked'[r] = 0 => tx'.flash[r] <= tx'.bal[r]
        BY <1>8, <1>11
      <4> QED BY <3>2, <4>1, <4>2, <4>3
    <3>3. CASE x # r
      BY <1>1, <1>2, <1>3, <1>6, <3>1, <3>3 DEF CanBePaid
    <3> QED BY <3>2, <3>3
  <2> QED BY <1>2, <1>3, <2>1 DEF ChecksAreDue
<1>10. LedgerIsSafe'
  BY <1>1, SameLedgerIsSafe DEF SafeInv
<1> QED BY <1>2, <1>4, <1>9, <1>10 DEF SafeInv, ViewIsSafe

---------------------------------------------------------------------------
(* Requests for an asset.                                                  *)
LEMMA RequestIsSafe ==
  ASSUME IInv, SafeInv, NEW r \in Reserves, NEW reserve, NEW p, NEW i, NEW o, NEW h, NEW m,
         IsRequest(r, reserve, p, i, o, h, m),
         h \/ (~tx.health /\ NoRiskier(Mine, p)),
         tx.maxUtil \subseteq m,
         reserve.d_supply > tx.res[r].d_supply => r \in m,
         CanBePaid(tx.res[r], tx.in[r], tx.out[r], tx.flash[r])
           => CanBePaid(reserve, i[r], o[r], tx.flash[r])
  PROVE  SafeInv'
<1>1. /\ TypeOK /\ ~Idle /\ LedgerIsSafe /\ OthersAreSafe /\ ChecksAreDue
      /\ UNCHANGED <<res, pos, auction, unbacked>>
  BY DEF IInv, SafeInv, ViewIsSafe, IsRequest, Building, Idle, book
<1>2. /\ tx \in Txs /\ tx.from \in Users /\ tx.from \in Holders
      /\ tx.res \in [Reserves -> ReserveDatas]
      /\ tx.pos \in [Holders -> Positions]
      /\ pos \in [Holders -> Positions] /\ res \in [Reserves -> ReserveDatas]
  BY <1>1, ViewTyped DEF TypeOK
<1>3. reserve \in ReserveDatas /\ p \in Positions
  BY DEF IsRequest, Balanced
<1>4. /\ tx'.phase = "build" /\ tx'.from = tx.from /\ tx'.prev = tx.prev
      /\ tx'.auction = tx.auction
      /\ tx'.res = [tx.res EXCEPT ![r] = reserve]
      /\ tx'.pos = [tx.pos EXCEPT ![tx.from] = p]
      /\ tx'.in = i /\ tx'.out = o /\ tx'.flash = tx.flash /\ tx'.bal = tx.bal
      /\ tx'.health = h /\ tx'.maxUtil = m
  BY <1>2 DEF IsRequest, AfterRequest, Txs, Building
<1>5. OthersAreSafe'
  <2>1. \A u \in Users \ {tx.from} : tx'.pos[u] = tx.pos[u]
    BY <1>2, <1>4 DEF Holders
  <2> QED BY <1>1, <1>4, <2>1 DEF OthersAreSafe
<1>6. h \/ NoRiskier(pos[tx.from], p)
  <2>1. ASSUME ~h
        PROVE  NoRiskier(pos[tx.from], p)
    <3>1. ~tx.health /\ NoRiskier(Mine, p)
      BY <2>1
    <3>2. NoRiskier(pos[tx.from], Mine)
      BY <1>1, <3>1 DEF ChecksAreDue
    <3>3. pos[tx.from] \in Positions /\ Mine \in Positions
      BY <1>2 DEF Mine
    <3> QED BY <1>3, <3>1, <3>2, <3>3, NoRiskierSteps
  <2> QED BY <2>1
<1>7. ASSUME NEW x \in Reserves
      PROVE  /\ tx'.res[x].d_supply > res[x].d_supply => x \in m
             /\ CanBePaid(tx'.res[x], i[x], o[x], tx.flash[x])
             /\ unbacked[x] = 0 => tx.flash[x] <= tx.bal[x]
  <2>1. /\ tx.res[x].d_supply > res[x].d_supply => x \in tx.maxUtil
        /\ CanBePaid(tx.res[x], tx.in[x], tx.out[x], tx.flash[x])
        /\ unbacked[x] = 0 => tx.flash[x] <= tx.bal[x]
    BY <1>1 DEF ChecksAreDue, IsRequest, Building
  <2>2. CASE x # r
    <3>1. tx'.res[x] = tx.res[x] /\ i[x] = tx.in[x] /\ o[x] = tx.out[x]
      BY <1>2, <1>4, <2>2 DEF IsRequest
    <3> QED BY <2>1, <3>1
  <2>3. CASE x = r
    <3>1. tx'.res[x] = reserve
      BY <1>2, <1>4, <2>3
    <3>2. reserve.d_supply > res[r].d_supply => r \in m
      <4>1. /\ reserve.d_supply \in Nat /\ res[r].d_supply \in Nat
            /\ tx.res[r].d_supply \in Nat
        BY <1>2, <1>3 DEF ReserveDatas
      <4> QED BY <2>1, <2>3, <4>1
    <3> QED BY <2>1, <2>3, <3>1, <3>2
  <2> QED BY <2>2, <2>3
<1>8. ChecksAreDue'
  <2>1. Mine' = p
    BY <1>2, <1>4 DEF Mine
  <2>2. tx'.prev <= MaxPositions
    BY <1>1, <1>4 DEF ChecksAreDue
  <2>3. tx'.health \/ NoRiskier(pos'[tx'.from], Mine')
    BY <1>1, <1>4, <1>6, <2>1
  <2>4. ASSUME NEW x \in Reserves
        PROVE  /\ tx'.res[x].d_supply > res'[x].d_supply => x \in tx'.maxUtil
               /\ CanBePaid(tx'.res[x], tx'.in[x], tx'.out[x], tx'.flash[x])
               /\ tx'.phase = "build" /\ unbacked'[x] = 0 => tx'.flash[x] <= tx'.bal[x]
    BY <1>1, <1>4, <1>7
  <2> QED BY <2>2, <2>3, <2>4 DEF ChecksAreDue
<1>9. LedgerIsSafe' /\ tx'.phase # "callback"
  BY <1>1, <1>4, SameLedgerIsSafe
<1> QED BY <1>5, <1>8, <1>9 DEF SafeInv, ViewIsSafe

(* What a request for an asset does to one of the caller's tokens.         *)
LEMMA TokenChanges ==
  ASSUME NEW p \in Positions, NEW r \in Reserves, NEW n \in Nat
  PROVE  /\ NoRiskier(p, [p EXCEPT !.supply[r] = n])
         /\ n >= p.collateral[r] => NoRiskier(p, [p EXCEPT !.collateral[r] = n])
         /\ n <= p.liabilities[r] => NoRiskier(p, [p EXCEPT !.liabilities[r] = n])
<1>1. /\ p.collateral \in [Reserves -> Nat] /\ p.supply \in [Reserves -> Nat]
      /\ p.liabilities \in [Reserves -> Nat]
  BY DEF Positions
<1>2. NoRiskier(p, [p EXCEPT !.supply[r] = n])
  <2> DEFINE q == [p EXCEPT !.supply[r] = n]
  <2>1. q.collateral = p.collateral /\ q.liabilities = p.liabilities
    BY DEF Positions
  <2> HIDE DEF q
  <2>2. NoRiskier(p, q)
    BY <1>1, <2>1 DEF NoRiskier
  <2> QED BY <2>2 DEF q
<1>3. ASSUME n >= p.collateral[r]
      PROVE  NoRiskier(p, [p EXCEPT !.collateral[r] = n])
  <2> DEFINE q == [p EXCEPT !.collateral[r] = n]
  <2>1. q.collateral = [p.collateral EXCEPT ![r] = n] /\ q.liabilities = p.liabilities
    BY DEF Positions
  <2> HIDE DEF q
  <2>2. NoRiskier(p, q)
    BY <1>1, <1>3, <2>1 DEF NoRiskier
  <2> QED BY <2>2 DEF q
<1>4. ASSUME n <= p.liabilities[r]
      PROVE  NoRiskier(p, [p EXCEPT !.liabilities[r] = n])
  <2> DEFINE q == [p EXCEPT !.liabilities[r] = n]
  <2>1. q.liabilities = [p.liabilities EXCEPT ![r] = n] /\ q.collateral = p.collateral
    BY DEF Positions
  <2> HIDE DEF q
  <2>2. NoRiskier(p, q)
    BY <1>1, <1>4, <2>1 DEF NoRiskier
  <2> QED BY <2>2 DEF q
<1> QED BY <1>2, <1>3, <1>4

(* More supply, or less debt, keeps a reserve payable.                     *)
LEMMA FirstFactorOrder ==
  ASSUME NEW a \in Nat, NEW b \in Nat, a <= b, NEW x \in Nat, NEW s \in Nat \ {0}
  PROVE  MulFloor(a, x, s) <= MulFloor(b, x, s) /\ MulCeil(a, x, s) <= MulCeil(b, x, s)
<1>1. MulFloor(x, a, s) <= MulFloor(x, b, s) /\ MulCeil(x, a, s) <= MulCeil(x, b, s)
  BY RoundingOrder
<1>2. a * x = x * a /\ b * x = x * b
  OBVIOUS
<1> QED BY <1>1, <1>2 DEF MulFloor, MulCeil

LEMMA SupplyKeepsPayable ==
  ASSUME NEW old \in ReserveDatas, NEW b \in Nat, b >= old.b_supply,
         TotalLiabilities(old) <= TotalSupply(old)
  PROVE  LET new == [old EXCEPT !.b_supply = b]
         IN  TotalLiabilities(new) <= TotalSupply(new)
<1> DEFINE new == [old EXCEPT !.b_supply = b]
<1>1. /\ old.b_rate \in Nat /\ old.b_supply \in Nat /\ SCALAR_12 \in Nat \ {0}
      /\ new \in ReserveDatas /\ new.b_rate = old.b_rate /\ new.b_supply = b
      /\ new.d_rate = old.d_rate /\ new.d_supply = old.d_supply
  BY ScalarAssumption DEF ReserveDatas
<1> HIDE DEF new
<1>2. TotalLiabilities(new) = TotalLiabilities(old)
  BY <1>1 DEF TotalLiabilities, ToAssetFromDToken
<1>3. TotalSupply(old) <= TotalSupply(new)
  <2> DEFINE c == old.b_supply
             rate == old.b_rate
  <2>1. c \in Nat /\ b \in Nat /\ rate \in Nat /\ c <= b
    BY <1>1
  <2>2. TotalSupply(old) = MulFloor(c, rate, SCALAR_12)
        /\ TotalSupply(new) = MulFloor(b, rate, SCALAR_12)
    BY <1>1 DEF TotalSupply, ToAssetFromBToken
  <2> HIDE DEF c, rate
  <2> QED BY <1>1, <2>1, <2>2, FirstFactorOrder
<1>4. /\ TotalLiabilities(old) \in Nat /\ TotalSupply(old) \in Nat
      /\ TotalLiabilities(new) \in Nat /\ TotalSupply(new) \in Nat
  BY <1>1, TotalsOfReserve
<1> QED BY <1>2, <1>3, <1>4 DEF new

LEMMA RepaymentKeepsPayable ==
  ASSUME NEW old \in ReserveDatas, NEW d \in Nat, d <= old.d_supply,
         TotalLiabilities(old) <= TotalSupply(old)
  PROVE  LET new == [old EXCEPT !.d_supply = d]
         IN  TotalLiabilities(new) <= TotalSupply(new)
<1> DEFINE new == [old EXCEPT !.d_supply = d]
<1>1. /\ old.d_rate \in Nat /\ old.d_supply \in Nat /\ SCALAR_12 \in Nat \ {0}
      /\ new \in ReserveDatas /\ new.d_rate = old.d_rate /\ new.d_supply = d
      /\ new.b_rate = old.b_rate /\ new.b_supply = old.b_supply
  BY ScalarAssumption DEF ReserveDatas
<1> HIDE DEF new
<1>2. TotalSupply(new) = TotalSupply(old)
  BY <1>1 DEF TotalSupply, ToAssetFromBToken
<1>3. TotalLiabilities(new) <= TotalLiabilities(old)
  <2> DEFINE c == old.d_supply
             rate == old.d_rate
  <2>1. c \in Nat /\ d \in Nat /\ rate \in Nat /\ d <= c
    BY <1>1
  <2>2. TotalLiabilities(old) = MulCeil(c, rate, SCALAR_12)
        /\ TotalLiabilities(new) = MulCeil(d, rate, SCALAR_12)
    BY <1>1 DEF TotalLiabilities, ToAssetFromDToken
  <2> HIDE DEF c, rate
  <2> QED BY <1>1, <2>1, <2>2, FirstFactorOrder
<1>4. /\ TotalLiabilities(old) \in Nat /\ TotalSupply(old) \in Nat
      /\ TotalLiabilities(new) \in Nat /\ TotalSupply(new) \in Nat
  BY <1>1, TotalsOfReserve
<1> QED BY <1>2, <1>3, <1>4 DEF new

(* The six of them.                                                        *)
LEMMA SupplyIsSafe ==
  ASSUME IInv, SafeInv, NEW r \in Reserves, NEW a \in Nat,
         Supply(r, a) \/ SupplyCollateral(r, a)
  PROVE  SafeInv'
<1> DEFINE k == Minted(r, a)
           b == tx.res[r].b_supply + k
           reserve == [tx.res[r] EXCEPT !.b_supply = b]
           p == [Mine EXCEPT !.supply[r] = Mine.supply[r] + k]
           q == [Mine EXCEPT !.collateral[r] = Mine.collateral[r] + k]
           i == [tx.in EXCEPT ![r] = @ + a]
<1>1. /\ k \in Nat /\ Building
      /\ \/ IsRequest(r, reserve, p, i, tx.out, tx.health, tx.maxUtil)
         \/ IsRequest(r, reserve, q, i, tx.out, tx.health, tx.maxUtil)
  <2>1. k \in Nat
    BY Zenon, SupplyIsRequest, SupplyCollateralIsRequest
  <2>2. Building
    BY DEF Supply, SupplyCollateral, MaySupply
  <2>3. CASE Supply(r, a)
    BY Zenon, <2>1, <2>2, <2>3, SupplyIsRequest
  <2>4. CASE SupplyCollateral(r, a)
    BY Zenon, <2>1, <2>2, <2>4, SupplyCollateralIsRequest
  <2> QED BY <2>3, <2>4
<1>2. /\ tx.res[r] \in ReserveDatas /\ Mine \in Positions
      /\ tx.in \in [Reserves -> Nat] /\ tx.out \in [Reserves -> Nat]
      /\ tx.health \in BOOLEAN
      /\ Mine.supply[r] \in Nat /\ Mine.collateral[r] \in Nat
  BY <1>1, MineTyped
<1> HIDE DEF k
<1>3. NoRiskier(Mine, p) /\ NoRiskier(Mine, q)
  <2>1. /\ Mine.supply[r] + k \in Nat /\ Mine.collateral[r] + k \in Nat
        /\ Mine.collateral[r] + k >= Mine.collateral[r]
    BY <1>1, <1>2
  <2> QED BY <1>2, <2>1, TokenChanges
<1>4. b \in Nat /\ b >= tx.res[r].b_supply /\ reserve.d_supply = tx.res[r].d_supply
  BY <1>1, <1>2 DEF ReserveDatas
<1>5. ~(reserve.d_supply > tx.res[r].d_supply)
  BY <1>2, <1>4 DEF ReserveDatas
<1>6. CanBePaid(tx.res[r], tx.in[r], tx.out[r], tx.flash[r])
        => CanBePaid(reserve, i[r], tx.out[r], tx.flash[r])
  <2>1. ASSUME TotalLiabilities(tx.res[r]) <= TotalSupply(tx.res[r])
        PROVE  TotalLiabilities(reserve) <= TotalSupply(reserve)
    <3> HIDE DEF b
    <3> QED BY <1>2, <1>4, <2>1, SupplyKeepsPayable
  <2>2. i[r] = tx.in[r] + a /\ tx.in[r] \in Nat /\ tx.out[r] \in Nat
    BY <1>2
  <2> HIDE DEF reserve, i
  <2> QED BY <2>1, <2>2 DEF CanBePaid
<1>7. tx.health \/ (~tx.health /\ NoRiskier(Mine, p) /\ NoRiskier(Mine, q))
  BY <1>2, <1>3
<1> HIDE DEF reserve, p, q, i
<1> QED BY <1>1, <1>5, <1>6, <1>7, RequestIsSafe

(* A withdrawal leaves a reserve that is not lent out in full.             *)
LEMMA WithdrawIsSafe ==
  ASSUME IInv, SafeInv, NEW r \in Reserves, NEW a \in Nat, Withdraw(r, a)
  PROVE  SafeInv'
<1> DEFINE k == Burnt(r, a, Mine.supply[r])
           b == tx.res[r].b_supply - k
           reserve == [tx.res[r] EXCEPT !.b_supply = b]
           p == [Mine EXCEPT !.supply[r] = Mine.supply[r] - k]
           o == [tx.out EXCEPT ![r] = @ + TokensOut(r, a, Mine.supply[r])]
<1>1. /\ k \in 0..Mine.supply[r]
      /\ IsRequest(r, reserve, p, tx.in, o, tx.health, tx.maxUtil)
  BY Zenon, WithdrawIsRequest
<1>2. Building /\ BelowFullUtilization(reserve)
  BY DEF Withdraw, MayWithdraw
<1>3. /\ tx.res[r] \in ReserveDatas /\ Mine \in Positions
      /\ tx.health \in BOOLEAN /\ Mine.supply[r] \in Nat
  BY <1>2, MineTyped
<1> HIDE DEF k
<1>4. NoRiskier(Mine, p)
  <2>1. Mine.supply[r] - k \in Nat
    BY <1>1, <1>3
  <2> QED BY <1>3, <2>1, TokenChanges
<1>5. ~(reserve.d_supply > tx.res[r].d_supply)
  BY <1>3 DEF ReserveDatas
<1> HIDE DEF reserve, p, o
<1>6. CanBePaid(reserve, tx.in[r], o[r], tx.flash[r])
  <2>1. reserve \in ReserveDatas
    BY <1>1 DEF IsRequest, Balanced
  <2> QED BY <1>2, <2>1, NotLentOutInFull DEF CanBePaid
<1>7. tx.health \/ (~tx.health /\ NoRiskier(Mine, p))
  BY <1>3, <1>4
<1> QED BY <1>1, <1>5, <1>6, <1>7, RequestIsSafe

LEMMA WithdrawCollateralIsSafe ==
  ASSUME IInv, SafeInv, NEW r \in Reserves, NEW a \in Nat, WithdrawCollateral(r, a)
  PROVE  SafeInv'
<1> DEFINE k == Burnt(r, a, Mine.collateral[r])
           reserve == [tx.res[r] EXCEPT !.b_supply = tx.res[r].b_supply - k]
           p == [Mine EXCEPT !.collateral[r] = Mine.collateral[r] - k]
           o == [tx.out EXCEPT ![r] = @ + TokensOut(r, a, Mine.collateral[r])]
<1>1. IsRequest(r, reserve, p, tx.in, o, TRUE, tx.maxUtil)
  BY Zenon, WithdrawCollateralIsRequest
<1>2. Building /\ BelowFullUtilization(reserve)
  BY DEF WithdrawCollateral, MayWithdraw
<1>3. tx.res[r] \in ReserveDatas
  BY <1>2, MineTyped
<1>4. ~(reserve.d_supply > tx.res[r].d_supply)
  BY <1>3 DEF ReserveDatas
<1> HIDE DEF reserve, p, o
<1>5. CanBePaid(reserve, tx.in[r], o[r], tx.flash[r])
  <2>1. reserve \in ReserveDatas
    BY <1>1 DEF IsRequest, Balanced
  <2> QED BY <1>2, <2>1, NotLentOutInFull DEF CanBePaid
<1> QED BY <1>1, <1>4, <1>5, RequestIsSafe

LEMMA BorrowIsSafe ==
  ASSUME IInv, SafeInv, NEW r \in Reserves, NEW a \in Nat, Borrow(r, a)
  PROVE  SafeInv'
<1> DEFINE k == ToDTokenUp(tx.res[r], a)
           reserve == [tx.res[r] EXCEPT !.d_supply = tx.res[r].d_supply + k]
           p == [Mine EXCEPT !.liabilities[r] = Mine.liabilities[r] + k]
           o == [tx.out EXCEPT ![r] = @ + a]
           m == tx.maxUtil \cup {r}
<1>1. IsRequest(r, reserve, p, tx.in, o, TRUE, m)
  BY Zenon, BorrowIsRequest
<1>2. BelowFullUtilization(reserve)
  BY DEF Borrow
<1>3. tx.maxUtil \subseteq m /\ r \in m
  OBVIOUS
<1> HIDE DEF reserve, p, o, m
<1>4. CanBePaid(reserve, tx.in[r], o[r], tx.flash[r])
  <2>1. reserve \in ReserveDatas
    BY <1>1 DEF IsRequest, Balanced
  <2> QED BY <1>2, <2>1, NotLentOutInFull DEF CanBePaid
<1> QED BY <1>1, <1>3, <1>4, RequestIsSafe

LEMMA RepayIsSafe ==
  ASSUME IInv, SafeInv, NEW r \in Reserves, NEW a \in Nat, Repay(r, a)
  PROVE  SafeInv'
<1> DEFINE k == MinOf(ToDTokenDown(tx.res[r], a), Mine.liabilities[r])
           d == tx.res[r].d_supply - k
           reserve == [tx.res[r] EXCEPT !.d_supply = d]
           p == [Mine EXCEPT !.liabilities[r] = Mine.liabilities[r] - k]
           back == Refund(r, a)
           i == [tx.in EXCEPT ![r] = @ + a]
           o == [tx.out EXCEPT ![r] = @ + Refund(r, a)]
<1>1. /\ k \in 0..Mine.liabilities[r] /\ back \in 0..a
      /\ IsRequest(r, reserve, p, i, o, tx.health, tx.maxUtil)
  BY Zenon, RepayIsRequest
<1>2. /\ tx.res[r] \in ReserveDatas /\ Mine \in Positions
      /\ tx.in \in [Reserves -> Nat] /\ tx.out \in [Reserves -> Nat]
      /\ tx.health \in BOOLEAN
      /\ Mine.liabilities[r] \in Nat /\ Mine.liabilities[r] <= tx.res[r].d_supply
  <2>1. Building
    BY DEF Repay
  <2> QED BY <2>1, MineTyped
<1> HIDE DEF k
<1>3. NoRiskier(Mine, p)
  <2>1. /\ Mine.liabilities[r] - k \in Nat
        /\ Mine.liabilities[r] - k <= Mine.liabilities[r]
    BY <1>1, <1>2
  <2> QED BY <1>2, <2>1, TokenChanges
<1>4. tx.res[r].d_supply \in Nat /\ d \in Nat /\ d <= tx.res[r].d_supply /\ reserve.d_supply = d
  <2>1. tx.res[r].d_supply \in Nat
    BY <1>2 DEF ReserveDatas
  <2> QED BY <1>1, <1>2, <2>1 DEF ReserveDatas
<1>5. ~(reserve.d_supply > tx.res[r].d_supply)
  <2> HIDE DEF d
  <2> QED BY <1>4
<1>6. CanBePaid(tx.res[r], tx.in[r], tx.out[r], tx.flash[r])
        => CanBePaid(reserve, i[r], o[r], tx.flash[r])
  <2>1. ASSUME TotalLiabilities(tx.res[r]) <= TotalSupply(tx.res[r])
        PROVE  TotalLiabilities(reserve) <= TotalSupply(reserve)
    <3> HIDE DEF d
    <3> QED BY <1>2, <1>4, <2>1, RepaymentKeepsPayable
  <2>2. /\ i[r] = tx.in[r] + a /\ o[r] = tx.out[r] + back
        /\ tx.in[r] \in Nat /\ tx.out[r] \in Nat
    BY <1>2
  <2> HIDE DEF reserve, i, o, back
  <2> QED BY <1>1, <2>1, <2>2 DEF CanBePaid
<1>7. tx.health \/ (~tx.health /\ NoRiskier(Mine, p))
  BY <1>2, <1>3
<1> HIDE DEF reserve, p, i, o
<1> QED BY <1>1, <1>5, <1>6, <1>7, RequestIsSafe

---------------------------------------------------------------------------
(* Fills.                                                                  *)

(* A part of an auction that leaves some of it open takes of no asset of   *)
(* the lot all there is: it was not a fill of 100%, and the part rounds    *)
(* down.                                                                   *)
LEMMA PartLeavesSome ==
  ASSUME NEW n \in Nat, NEW percent \in 0..99, n - MulFloor(n, percent, 100) = 0
  PROVE  n = 0
<1> DEFINE m == n * percent
           k == FloorDiv(m, 100)
<1>1. m \in Nat /\ m <= n * 99
  <2>1. percent \in Nat /\ 99 \in Nat /\ percent <= 99
    OBVIOUS
  <2>2. percent * n \in Nat /\ percent * n <= 99 * n
    BY <2>1, ProductOrder
  <2>3. percent * n = n * percent /\ 99 * n = n * 99
    BY <2>1
  <2> QED BY <2>2, <2>3
<1>2. k \in Nat /\ k * 100 <= m
  <2> HIDE DEF m
  <2>1. m \in Int /\ 100 \in Nat \ {0}
    BY <1>1
  <2> QED BY Zenon, <1>1, <2>1, FloorBounds, FloorOfNat
<1>3. n - k = 0
  BY DEF MulFloor
<1> HIDE DEF m, k
<1> QED BY <1>1, <1>2, <1>3

LEMMA WholeIsEmpty ==
  ASSUME NEW a, a.bid \in [Reserves -> Nat], a.lot \in [Reserves -> Nat]
  PROVE  IsEmpty(Remaining(a, 100))
<1>1. \A n \in Nat : MulFloor(n, 100, 100) = n /\ MulCeil(n, 100, 100) = n
  BY DEF MulFloor, MulCeil, FloorDiv, CeilDiv
<1>2. \A r \in Reserves : a.bid[r] \in Nat /\ a.lot[r] \in Nat
  OBVIOUS
<1> QED BY <1>1, <1>2 DEF IsEmpty, Remaining, BidBase, LotBase

LEMMA PartialFill ==
  ASSUME NEW a, a.bid \in [Reserves -> Nat], a.lot \in [Reserves -> Nat], a.block \in Nat,
         NEW percent \in 0..100, NEW block \in Nat, a.block <= block,
         ~IsEmpty(Remaining(a, percent)),
         NEW r \in Reserves, Remaining(a, percent).lot[r] = 0
  PROVE  ToFill(a, percent, block).lot[r] = 0
<1>1. percent \in 0..99
  <2>1. percent # 100
    BY WholeIsEmpty
  <2> QED BY <2>1
<1>2. a.lot[r] \in Nat /\ Remaining(a, percent).lot[r] = a.lot[r] - MulFloor(a.lot[r], percent, 100)
  BY DEF Remaining, LotBase
<1>3. a.lot[r] = 0
  BY <1>1, <1>2, PartLeavesSome
<1> DEFINE fill == ToFill(a, percent, block)
           rest == Remaining(a, percent)
<1>4. /\ fill.lot \in [Reserves -> Nat]
      /\ \A x \in Reserves : fill.lot[x] + rest.lot[x] <= a.lot[x]
  BY ScaledAuction
<1> HIDE DEF fill, rest
<1>5. fill.lot[r] \in Nat /\ fill.lot[r] + rest.lot[r] <= a.lot[r]
  BY <1>4
<1>6. rest.lot[r] = 0
  BY DEF rest
<1>7. fill.lot[r] = 0
  BY <1>3, <1>5, <1>6
<1> QED BY <1>7 DEF fill

(* Steps of an open call after which a health check is due, and which      *)
(* change nothing but positions and auctions.                              *)
LEMMA CheckedStepIsSafe ==
  ASSUME SafeInv, Building, UNCHANGED <<res, pos, auction, unbacked>>,
         tx'.phase = "build", tx'.from = tx.from, tx'.prev = tx.prev, tx'.health = TRUE,
         tx'.maxUtil = tx.maxUtil, tx'.res = tx.res, tx'.bal = tx.bal,
         tx'.in = tx.in, tx'.out = tx.out, tx'.flash = tx.flash,
         OthersAreSafe'
  PROVE  SafeInv'
<1>1. tx.phase = "build" /\ ChecksAreDue /\ LedgerIsSafe
  BY DEF SafeInv, ViewIsSafe, Building, Idle
<1>2. ChecksAreDue'
  BY <1>1 DEF ChecksAreDue
<1>3. LedgerIsSafe'
  BY <1>1, SameLedgerIsSafe
<1> QED BY <1>2, <1>3 DEF SafeInv, ViewIsSafe

LEMMA DeleteLiquidationIsSafe ==
  ASSUME IInv, SafeInv, DeleteLiquidation
  PROVE  SafeInv'
<1>1. /\ Building /\ TypeOK /\ ~Idle /\ OthersAreSafe
      /\ UNCHANGED <<res, pos, auction, unbacked>>
  BY DEF DeleteLiquidation, Building, Idle, IInv, SafeInv, ViewIsSafe, book
<1>2. tx \in Txs /\ tx.auction \in [Users -> Auctions] /\ tx.from \in Users
  BY <1>1, ViewTyped
<1>3. tx' = [tx EXCEPT !.auction = [tx.auction EXCEPT ![tx.from] = NoAuction],
                       !.health = TRUE,
                       !.left = tx.left - 1]
  BY DEF DeleteLiquidation
<1>4. /\ tx'.phase = "build" /\ tx'.from = tx.from /\ tx'.prev = tx.prev /\ tx'.health = TRUE
      /\ tx'.maxUtil = tx.maxUtil /\ tx'.res = tx.res /\ tx'.bal = tx.bal
      /\ tx'.in = tx.in /\ tx'.out = tx.out /\ tx'.flash = tx.flash /\ tx'.pos = tx.pos
      /\ tx'.auction = [tx.auction EXCEPT ![tx.from] = NoAuction]
  BY <1>1, <1>2, <1>3 DEF Txs, Building
<1>5. OthersAreSafe'
  <2>1. \A u \in Users \ {tx.from} : tx'.auction[u] = tx.auction[u]
    BY <1>2, <1>4
  <2> QED BY <1>1, <1>4, <2>1 DEF OthersAreSafe
<1> QED BY <1>1, <1>4, <1>5, CheckedStepIsSafe

(* The account that a fill sells: what is left of its auction stays        *)
(* covered, and either the fill hands its debt on, or some collateral      *)
(* stays with it.                                                          *)
LEMMA SoldAccountIsSafe ==
  ASSUME NEW p \in Positions, NEW q \in Positions, NEW a \in Auctions, SafeAccount(p, a),
         NEW percent \in 0..100, now \in Nat, a.block <= now,
         \A r \in Reserves :
           /\ q.collateral[r] = p.collateral[r] - ToFill(a, percent, now).lot[r]
           /\ q.liabilities[r] = p.liabilities[r] - ToFill(a, percent, now).bid[r]
  PROVE  /\ EffectiveCount(q) <= MaxPositions
         /\ Covers(q, Remaining(a, percent))
         /\ ~IsEmpty(Remaining(a, percent)) => (HasLiabilities(q) => HasCollateral(q))
<1> DEFINE fill == ToFill(a, percent, now)
           rest == Remaining(a, percent)
<1>1. a.bid \in [Reserves -> Nat] /\ a.lot \in [Reserves -> Nat] /\ a.block \in Nat
  BY DEF Auctions
<1>2. /\ fill.bid \in [Reserves -> Nat] /\ fill.lot \in [Reserves -> Nat]
      /\ rest.bid \in [Reserves -> Nat] /\ rest.lot \in [Reserves -> Nat]
      /\ \A r \in Reserves : /\ fill.bid[r] + rest.bid[r] <= a.bid[r]
                             /\ fill.lot[r] + rest.lot[r] <= a.lot[r]
  BY <1>1, ScaledAuction
<1>3. ASSUME ~IsEmpty(rest), NEW r \in Reserves, rest.lot[r] = 0
      PROVE  fill.lot[r] = 0
  BY <1>1, <1>3, PartialFill
<1>4. \A r \in Reserves : /\ q.collateral[r] = p.collateral[r] - fill.lot[r]
                          /\ q.liabilities[r] = p.liabilities[r] - fill.bid[r]
  OBVIOUS
<1> HIDE DEF fill, rest
<1>5. \A r \in Reserves :
        /\ a.lot[r] <= p.collateral[r] /\ a.bid[r] <= p.liabilities[r]
        /\ p.collateral[r] \in Nat /\ p.liabilities[r] \in Nat
        /\ q.collateral[r] \in Nat /\ q.liabilities[r] \in Nat
        /\ a.lot[r] \in Nat /\ a.bid[r] \in Nat
        /\ fill.lot[r] \in Nat /\ fill.bid[r] \in Nat
        /\ rest.lot[r] \in Nat /\ rest.bid[r] \in Nat
  BY <1>1, <1>2 DEF SafeAccount, Covers, Positions
<1>6. \A r \in Reserves : /\ q.liabilities[r] <= p.liabilities[r]
                          /\ q.collateral[r] <= p.collateral[r]
                          /\ rest.lot[r] <= q.collateral[r]
                          /\ rest.bid[r] <= q.liabilities[r]
  BY <1>2, <1>4, <1>5
<1>7. EffectiveCount(q) <= MaxPositions
  <2>1. EffectiveCount(q) <= EffectiveCount(p) /\ EffectiveCount(p) <= MaxPositions
    BY <1>6, CountShrinks DEF SafeAccount
  <2>2. EffectiveCount(q) \in Nat /\ EffectiveCount(p) \in Nat /\ MaxPositions \in Nat
    BY CountIsNat, LendingPoolAssumption
  <2> QED BY <2>1, <2>2
<1>8. ASSUME ~IsEmpty(rest), HasLiabilities(q)
      PROVE  HasCollateral(q)
  <2>1. Held(q.liabilities) \subseteq Held(p.liabilities)
    BY <1>5, <1>6 DEF Held
  <2>2. HasCollateral(p)
    BY <1>8, <2>1 DEF SafeAccount, HasLiabilities
  <2>3. PICK r \in Reserves : p.collateral[r] > 0
    BY <2>2 DEF HasCollateral, Held
  <2>4. q.collateral[r] > 0
    <3>1. CASE rest.lot[r] = 0
      <4>1. fill.lot[r] = 0
        BY <1>3, <1>8, <3>1
      <4> QED BY <1>4, <1>5, <2>3, <4>1
    <3>2. CASE rest.lot[r] # 0
      BY <1>5, <1>6, <3>2
    <3> QED BY <3>1, <3>2
  <2> QED BY <2>4 DEF HasCollateral, Held
<1>9. Covers(q, rest)
  BY <1>6 DEF Covers
<1> QED BY <1>7, <1>8, <1>9 DEF rest

LEMMA FillIsSafe ==
  ASSUME IInv, SafeInv, NEW u \in Users, NEW percent \in FillPercents,
         FillUserLiquidation(u, percent)
  PROVE  SafeInv'
<1> DEFINE a     == tx.auction[u]
           fill  == ToFill(a, percent, now)
           rest  == Remaining(a, percent)
           moved == Moved(tx.pos, u, tx.from, fill)
           bad   == HandsOn(rest, tx.pos[u], moved[u])
           ps    == IF bad THEN BadDebtToBackstop(moved, u) ELSE moved
           left  == IF IsEmpty(rest) THEN NoAuction ELSE rest
<1>1. /\ TypeOK /\ ~Idle /\ ViewOK /\ Building /\ OthersAreSafe
      /\ UNCHANGED <<res, pos, auction, unbacked>>
      /\ u # tx.from /\ now >= a.block /\ Covers(tx.pos[u], fill)
  BY DEF IInv, SafeInv, ViewIsSafe, FillUserLiquidation, Building, Idle, book
<1>2. /\ tx \in Txs /\ tx.auction \in [Users -> Auctions]
      /\ tx.pos \in [Holders -> Positions] /\ tx.from \in Holders /\ u \in Holders
      /\ tx.from \in Users /\ Backstop \notin Users
      /\ tx.pos[u] \in Positions
  BY <1>1, ViewTyped, LendingPoolAssumption DEF Holders
<1>3. tx' = [tx EXCEPT
               !.pos = ps,
               !.auction[u] = left,
               !.touched = @ \cup Held(fill.bid) \cup Held(fill.lot)
                             \cup (IF bad THEN Held(moved[u].liabilities) ELSE {}),
               !.health = TRUE,
               !.left = @ - 1]
  BY Zenon DEF FillUserLiquidation
<1>4. /\ a \in Auctions /\ a.bid \in [Reserves -> Nat] /\ a.lot \in [Reserves -> Nat]
      /\ a.block \in Nat /\ a.block <= now
      /\ now \in Nat /\ percent \in 0..100
  BY <1>1, <1>2, LendingPoolAssumption DEF Auctions, TypeOK
<1>5. fill.bid \in [Reserves -> Nat] /\ fill.lot \in [Reserves -> Nat]
  BY <1>4, ScaledAuction
<1>6. /\ moved \in [Holders -> Positions] /\ Matches(tx.res, moved)
      /\ \A x \in Holders \ {u, tx.from} : moved[x] = tx.pos[x]
      /\ \A r \in Reserves :
           /\ moved[u].collateral[r] = tx.pos[u].collateral[r] - fill.lot[r]
           /\ moved[u].liabilities[r] = tx.pos[u].liabilities[r] - fill.bid[r]
  <2> HIDE DEF fill
  <2> QED BY <1>1, <1>2, <1>5, MovedMatches DEF ViewOK
<1>7. SafeAccount(tx.pos[u], a)
  BY <1>1, <1>2 DEF OthersAreSafe
<1> DEFINE q == moved[u]
<1>8. q \in Positions
  BY <1>2, <1>6
<1>9. /\ EffectiveCount(q) <= MaxPositions
      /\ Covers(q, rest)
      /\ ~IsEmpty(rest) => (HasLiabilities(q) => HasCollateral(q))
  <2>1. \A r \in Reserves : /\ q.collateral[r] = tx.pos[u].collateral[r] - fill.lot[r]
                            /\ q.liabilities[r] = tx.pos[u].liabilities[r] - fill.bid[r]
    BY <1>6
  <2> HIDE DEF a, q
  <2> QED BY <1>2, <1>4, <1>7, <1>8, <2>1, SoldAccountIsSafe
<1>10. bad => /\ \A x \in Holders \ {Backstop, u} : ps[x] = moved[x]
              /\ ps[u].collateral = q.collateral /\ ps[u].liabilities = Zero
              /\ ps[u] \in Positions
  <2> HIDE DEF moved, bad
  <2> QED BY <1>2, <1>6, BadDebtMatches
<1>11. ~bad => ps = moved
  OBVIOUS
<1>12. bad <=> IsEmpty(rest) /\ HasLiabilities(q) /\ ~HasCollateral(q)
  BY DEF HandsOn, HasBadDebt
<1>13. IsEmpty(rest) => left = NoAuction
  OBVIOUS
<1>14. ~IsEmpty(rest) => left = rest
  OBVIOUS
<1> HIDE DEF a, fill, rest, moved, bad, ps, left
<1>15. SafeAccount(ps[u], left)
  <2>1. CASE bad
    <3>1. left = NoAuction /\ ps[u] \in Positions
      BY <1>10, <1>12, <1>13, <2>1
    <3>2. Covers(ps[u], left)
      BY <3>1, NothingIsCovered
    <3>3. ~HasLiabilities(ps[u])
      BY <1>10, <2>1 DEF HasLiabilities, Held, Zero
    <3>4. EffectiveCount(ps[u]) <= MaxPositions
      <4>1. \A r \in Reserves : /\ ps[u].liabilities[r] <= q.liabilities[r]
                                /\ ps[u].collateral[r] <= q.collateral[r]
        <5> HIDE DEF q
        <5> QED BY <1>8, <1>10, <2>1 DEF Zero, Positions
      <4>2. EffectiveCount(ps[u]) <= EffectiveCount(q)
        BY <1>8, <3>1, <4>1, CountShrinks
      <4>3. /\ EffectiveCount(ps[u]) \in Nat /\ EffectiveCount(q) \in Nat
            /\ MaxPositions \in Nat
        BY CountIsNat, LendingPoolAssumption
      <4> QED BY <1>9, <4>2, <4>3
    <3> QED BY <3>2, <3>3, <3>4 DEF SafeAccount
  <2>2. CASE ~bad
    <3>1. ps[u] = q
      BY <1>11, <2>2
    <3> HIDE DEF q
    <3>2. CASE IsEmpty(rest)
      <4>1. Covers(q, left)
        BY <1>8, <1>13, <3>2, NothingIsCovered
      <4> QED BY <1>9, <1>12, <2>2, <3>1, <3>2, <4>1 DEF SafeAccount
    <3>3. CASE ~IsEmpty(rest)
      BY <1>9, <1>14, <3>1, <3>3 DEF SafeAccount
    <3> QED BY <3>2, <3>3
  <2> QED BY <2>1, <2>2
<1>16. \A x \in Holders \ {Backstop, u, tx.from} : ps[x] = tx.pos[x]
  BY <1>6, <1>10, <1>11
<1>17. /\ tx'.phase = "build" /\ tx'.from = tx.from /\ tx'.prev = tx.prev /\ tx'.health = TRUE
       /\ tx'.maxUtil = tx.maxUtil /\ tx'.res = tx.res /\ tx'.bal = tx.bal
       /\ tx'.in = tx.in /\ tx'.out = tx.out /\ tx'.flash = tx.flash /\ tx'.pos = ps
       /\ tx'.auction = [tx.auction EXCEPT ![u] = left]
  BY <1>1, <1>2, <1>3 DEF Txs, Building
<1>18. OthersAreSafe'
  <2>1. ASSUME NEW v \in Users, v # tx.from
        PROVE  SafeAccount(tx'.pos[v], tx'.auction[v])
    <3>1. CASE v = u
      BY <1>2, <1>15, <1>17, <3>1
    <3>2. CASE v # u
      <4>1. v \in Holders \ {Backstop, u, tx.from}
        BY <1>2, <2>1, <3>2 DEF Holders
      <4>2. tx'.pos[v] = tx.pos[v] /\ tx'.auction[v] = tx.auction[v]
        BY <1>2, <1>16, <1>17, <3>2, <4>1
      <4> QED BY <1>1, <2>1, <4>2 DEF OthersAreSafe
    <3> QED BY <3>1, <3>2
  <2> QED BY <1>17, <2>1 DEF OthersAreSafe
<1> QED BY <1>1, <1>17, <1>18, CheckedStepIsSafe

---------------------------------------------------------------------------
(* The end of a call.                                                      *)
LEMMA CallReceiverIsSafe ==
  ASSUME IInv, SafeInv, CallReceiver
  PROVE  SafeInv'
<1>1. /\ TypeOK /\ ~Idle /\ LedgerIsSafe /\ OthersAreSafe /\ ChecksAreDue /\ Validated
      /\ UNCHANGED <<price, res, pos, auction, unbacked>>
  BY DEF CallReceiver, Idle, IInv, SafeInv, ViewIsSafe, env, book
<1>2. tx \in Txs
  BY <1>1, ViewTyped
<1> DEFINE paid == [r \in Reserves |-> tx.bal[r] - tx.flash[r]]
<1>3. tx' = [tx EXCEPT !.phase = "callback", !.bal = paid]
  BY DEF CallReceiver
<1> HIDE DEF paid
<1>4. /\ tx'.phase = "callback" /\ tx'.from = tx.from /\ tx'.prev = tx.prev
      /\ tx'.health = tx.health /\ tx'.pos = tx.pos /\ tx'.auction = tx.auction
      /\ tx'.maxUtil = tx.maxUtil /\ tx'.res = tx.res
      /\ tx'.in = tx.in /\ tx'.out = tx.out /\ tx'.flash = tx.flash
  BY <1>2, <1>3 DEF Txs
<1>5. OthersAreSafe' /\ LedgerIsSafe'
  BY <1>1, <1>4, SameLedgerIsSafe DEF OthersAreSafe
<1>6. ChecksAreDue'
  BY <1>1, <1>4 DEF ChecksAreDue, Mine
<1>7. Validated'
  BY <1>1, <1>4 DEF Validated, WithinPositions, NotInLiquidation, WithinMaxUtilization,
                    HealthChecked, Healthy, Mine
<1> QED BY <1>5, <1>6, <1>7 DEF SafeInv, ViewIsSafe

LEMMA ReceiverIsSafe ==
  ASSUME IInv, SafeInv, NEW r \in Reserves, NEW a, ReceiverPaysPool(r, a)
  PROVE  SafeInv'
<1>1. /\ TypeOK /\ ~Idle /\ LedgerIsSafe /\ OthersAreSafe /\ ChecksAreDue
      /\ tx.phase = "callback" /\ Validated
      /\ UNCHANGED <<price, res, pos, auction, unbacked>>
  BY DEF ReceiverPaysPool, Idle, IInv, SafeInv, ViewIsSafe, env, book
<1>2. tx \in Txs
  BY <1>1, ViewTyped
<1>3. tx' = [tx EXCEPT !.bal[r] = @ + a]
  BY DEF ReceiverPaysPool
<1>4. /\ tx'.phase = "callback" /\ tx'.from = tx.from /\ tx'.prev = tx.prev
      /\ tx'.health = tx.health /\ tx'.pos = tx.pos /\ tx'.auction = tx.auction
      /\ tx'.maxUtil = tx.maxUtil /\ tx'.res = tx.res
      /\ tx'.in = tx.in /\ tx'.out = tx.out /\ tx'.flash = tx.flash
  BY <1>1, <1>2, <1>3 DEF Txs
<1>5. OthersAreSafe' /\ LedgerIsSafe'
  BY <1>1, <1>4, SameLedgerIsSafe DEF OthersAreSafe
<1>6. ChecksAreDue'
  BY <1>1, <1>4 DEF ChecksAreDue, Mine
<1>7. Validated'
  BY <1>1, <1>4 DEF Validated, WithinPositions, NotInLiquidation, WithinMaxUtilization,
                    HealthChecked, Healthy, Mine
<1> QED BY <1>4, <1>5, <1>6, <1>7 DEF SafeInv, ViewIsSafe

(* A call ends in Settle, with its checks made.                            *)
LEMMA EndsValidated ==
  ASSUME SafeInv, Commit \/ CommitFlashLoan
  PROVE  /\ ~Idle /\ Settle /\ Validated /\ LedgerIsSafe /\ OthersAreSafe /\ ChecksAreDue
BY DEF Commit, CommitFlashLoan, Idle, SafeInv, ViewIsSafe

LEMMA ValidatedIsSafe ==
  ASSUME IInv, ~Idle, Validated, LedgerIsSafe, ChecksAreDue
  PROVE  SafeAccount(Mine, tx.auction[tx.from])
<1>1. TypeOK /\ ViewOK
  BY DEF IInv
<1>2. /\ tx \in Txs /\ tx.from \in Users /\ tx.from \in Holders
      /\ tx.res \in [Reserves -> ReserveDatas] /\ tx.pos \in [Holders -> Positions]
      /\ price \in [Reserves -> Nat] /\ pos \in [Holders -> Positions]
      /\ tx.prev \in Nat
  BY <1>1, ViewTyped DEF TypeOK
<1>3. Mine \in Positions /\ pos[tx.from] \in Positions
  BY <1>2 DEF Mine
<1>4. Covers(Mine, tx.auction[tx.from])
  BY <1>3, NothingIsCovered DEF Validated, NotInLiquidation
<1>5. EffectiveCount(Mine) <= MaxPositions
  <2>1. EffectiveCount(Mine) \in Nat /\ MaxPositions \in Nat
    BY CountIsNat, LendingPoolAssumption
  <2> QED BY <1>2, <2>1 DEF Validated, WithinPositions, ChecksAreDue
<1>6. HasLiabilities(Mine) => HasCollateral(Mine)
  <2>1. CASE tx.health
    <3>1. ASSUME HasLiabilities(Mine)
          PROVE  HasCollateral(Mine)
      <4>1. Healthy(tx.res, Mine)
        BY <2>1, <3>1 DEF Validated, HealthChecked
      <4>2. \A r \in Reserves : tx.res[r].d_rate > 0
        BY <1>1, <1>2, ScalarAssumption DEF ViewOK, Grown, ReserveDatas
      <4> QED BY <1>2, <1>3, <3>1, <4>1, <4>2, HealthyIsSecured
    <3> QED BY <3>1
  <2>2. CASE ~tx.health
    <3>1. NoRiskier(pos[tx.from], Mine)
      BY <2>2 DEF ChecksAreDue
    <3>2. HasLiabilities(pos[tx.from]) => HasCollateral(pos[tx.from])
      BY <1>2 DEF LedgerIsSafe, SafeAccount
    <3> QED BY <1>3, <3>1, <3>2, SecuredStays
  <2> QED BY <2>1, <2>2
<1> QED BY <1>4, <1>5, <1>6 DEF SafeAccount

LEMMA CommitIsSafe ==
  ASSUME IInv, SafeInv, Commit \/ CommitFlashLoan
  PROVE  SafeInv'
<1>1. ~Idle /\ Settle /\ Validated /\ LedgerIsSafe /\ OthersAreSafe /\ ChecksAreDue
  BY EndsValidated
<1>2. SafeAccount(Mine, tx.auction[tx.from])
  BY <1>1, ValidatedIsSafe
<1>3. \A u \in Users : SafeAccount(tx.pos[u], tx.auction[u])
  BY <1>1, <1>2 DEF OthersAreSafe, Mine
<1>4. pos' = tx.pos /\ auction' = tx.auction /\ tx' = NoTx
  BY <1>1 DEF Settle
<1>5. LedgerIsSafe' /\ Idle'
  BY <1>3, <1>4 DEF LedgerIsSafe, Idle, NoTx
<1> QED BY <1>5, IdleStepIsSafe

LEMMA AbortIsSafe ==
  ASSUME SafeInv, Abort
  PROVE  SafeInv'
<1>1. UNCHANGED <<pos, auction>> /\ Idle'
  BY DEF Abort, book, Idle, NoTx
<1> QED BY <1>1, SameLedgerIsSafe, IdleStepIsSafe DEF SafeInv

LEMMA StutterIsSafe ==
  ASSUME SafeInv, UNCHANGED vars
  PROVE  SafeInv'
<1>1. UNCHANGED <<price, res, pos, auction, unbacked, tx>>
  BY DEF vars
<1>2. LedgerIsSafe' = LedgerIsSafe /\ OthersAreSafe' = OthersAreSafe
  BY <1>1 DEF LedgerIsSafe, OthersAreSafe
<1>3. ChecksAreDue' = ChecksAreDue
  BY <1>1 DEF ChecksAreDue, Mine
<1>4. Validated' = Validated
  BY <1>1 DEF Validated, WithinPositions, NotInLiquidation, WithinMaxUtilization,
              HealthChecked, Healthy, Mine
<1>5. Idle' = Idle
  BY <1>1 DEF Idle
<1> QED BY <1>1, <1>2, <1>3, <1>4, <1>5 DEF SafeInv, ViewIsSafe

---------------------------------------------------------------------------
(* SafeInv is kept by every action.                                        *)
LEMMA RequestsAreSafe ==
  ASSUME IInv, SafeInv, Requests
  PROVE  SafeInv'
<1>1. ASSUME NEW r \in Reserves, NEW a \in Amounts[r],
             \/ Supply(r, a)
             \/ Withdraw(r, a)
             \/ SupplyCollateral(r, a)
             \/ WithdrawCollateral(r, a)
             \/ Borrow(r, a)
             \/ Repay(r, a)
      PROVE  SafeInv'
  <2>1. a \in Nat
    BY AmountsTyped
  <2> QED BY <1>1, <2>1, SupplyIsSafe, WithdrawIsSafe, WithdrawCollateralIsSafe,
             BorrowIsSafe, RepayIsSafe
<1>2. ASSUME NEW r \in Reserves, NEW a \in Donations, ReceiverPaysPool(r, a)
      PROVE  SafeInv'
  BY <1>2, ReceiverIsSafe
<1>3. ASSUME NEW u \in Users, NEW percent \in FillPercents, FillUserLiquidation(u, percent)
      PROVE  SafeInv'
  BY <1>3, FillIsSafe
<1>4. CASE DeleteLiquidation
  BY <1>4, DeleteLiquidationIsSafe
<1>5. CASE CallReceiver
  BY <1>5, CallReceiverIsSafe
<1>6. CASE Commit \/ CommitFlashLoan
  BY <1>6, CommitIsSafe
<1>7. CASE Abort
  BY <1>7, AbortIsSafe
<1> QED BY Zenon, <1>1, <1>2, <1>3, <1>4, <1>5, <1>6, <1>7 DEF Requests

LEMMA CallsAreSafe ==
  ASSUME IInv, SolventInv, SafeInv, Calls, IInv', SolventInv'
  PROVE  SafeInv'
<1>1. ASSUME NEW u \in Users, Submit(u)
      PROVE  SafeInv'
  BY <1>1, SubmitIsSafe
<1>2. ASSUME NEW u \in Users, DeleteStaleAuction(u)
      PROVE  SafeInv'
  BY <1>2, DeleteStaleIsSafe
<1>3. ASSUME NEW u \in Users, NEW r \in Reserves, NEW a \in FlashAmounts, FlashLoan(u, r, a)
      PROVE  SafeInv'
  <2>1. a \in Nat
    BY LendingPoolAssumption
  <2> QED BY <1>3, <2>1, FlashLoanIsSafe
<1>4. ASSUME NEW u \in Users, NEW bidSet \in SUBSET Reserves, NEW lotSet \in SUBSET Reserves,
             NEW percent \in LiqPercents, NewLiquidation(u, bidSet, lotSet, percent)
      PROVE  SafeInv'
  BY <1>4, NewLiquidationIsSafe
<1>5. CASE \/ \E r \in Reserves : Gulp(r)
           \/ DefaultBadDebt
           \/ UpdateStatus
           \/ \E s \in AdminStatuses : SetStatus(s)
  BY <1>5, PoolCallIsSafe
<1> QED BY Zenon, <1>1, <1>2, <1>3, <1>4, <1>5 DEF Calls

(* In every state, the accounts of the ledger are safe, and the view of an *)
(* open call is, but for what its last checks will look at.                *)
THEOREM SafeInvHolds == Spec => [](IInv /\ SolventInv /\ SafeInv)
<1>1. Init => IInv /\ SolventInv /\ SafeInv
  BY InitHasIInv, InitIsSolvent, InitIsSafe
<1>2. IInv /\ [Next]_vars => IInv'
  BY RequestsKeepIInv, CallsKeepIInv, WorldKeepsIInv, StutterKeepsIInv DEF Next
<1>3. IInv /\ SolventInv /\ [Next]_vars => SolventInv'
  BY RequestsAreSolvent, CallsAreSolvent, WorldIsSolvent, StutterIsSolvent DEF Next
<1>4. IInv /\ SolventInv /\ SafeInv /\ [Next]_vars => SafeInv'
  BY <1>2, <1>3, RequestsAreSafe, CallsAreSafe, WorldIsSafe, StutterIsSafe DEF Next
<1> QED BY <1>1, <1>2, <1>3, <1>4, PTL DEF Spec

---------------------------------------------------------------------------
(* What it says of the ledger.                                             *)

(* No account rests with more effective positions than the pool allows,    *)
(* whatever fills, flash loans and requests of one call add up to.         *)
THEOREM PositionsStayLimited == Spec => []PositionsAreLimited
<1>1. SafeInv => PositionsAreLimited
  BY DEF SafeInv, LedgerIsSafe, SafeAccount, PositionsAreLimited
<1> QED BY <1>1, SafeInvHolds, PTL

(* The account an auction liquidates always has what it asks for: nobody   *)
(* can take collateral or debt from under an open auction, by a request of *)
(* his own, another's fill or the creation of the auction itself.          *)
THEOREM AuctionsStayCovered == Spec => []AuctionsAreCovered
<1>1. SafeInv => AuctionsAreCovered
  BY DEF SafeInv, LedgerIsSafe, SafeAccount, AuctionsAreCovered
<1> QED BY <1>1, SafeInvHolds, PTL

(* No user rests with debt and no collateral: the fill that takes the last *)
(* of it hands the debt on, and bad_debt finds nothing to do for users.    *)
THEOREM BadDebtIsHandedOn == Spec => []BadDebtNeverRests
<1>1. SafeInv => BadDebtNeverRests
  BY DEF SafeInv, LedgerIsSafe, SafeAccount, BadDebtNeverRests, MayMoveBadDebt, HasBadDebt
<1> QED BY <1>1, SafeInvHolds, PTL

(* In a reserve without debt nobody could absorb, the pool has the tokens  *)
(* an open call takes out, at whatever request the call stands.            *)
LEMMA ViewCanBePaid ==
  ASSUME IInv, SolventInv, SafeInv, tx.phase = "build",
         NEW r \in Reserves, unbacked[r] = 0
  PROVE  tx.flash[r] <= tx.bal[r] /\ BalanceAfter(r) - tx.flash[r] >= 0
<1>1. /\ TypeOK /\ ~Idle
      /\ tx.flash[r] <= tx.bal[r]
      /\ CanBePaid(tx.res[r], tx.in[r], tx.out[r], tx.flash[r])
  BY DEF IInv, SafeInv, ViewIsSafe, ChecksAreDue, Idle
<1>2. /\ tx.res[r] \in ReserveDatas /\ tx.bal[r] \in Nat
      /\ tx.in[r] \in Nat /\ tx.out[r] \in Nat /\ tx.flash[r] \in Nat
  BY <1>1, ViewTyped
<1> DEFINE l == TotalLiabilities(tx.res[r])
           s == TotalSupply(tx.res[r])
           c == tx.res[r].backstop_credit
           cash == tx.bal[r] + tx.in[r] - tx.out[r] - tx.flash[r]
<1>3. l \in Nat /\ s \in Nat /\ c \in Nat /\ cash \in Int
  BY <1>2, TotalsOfReserve DEF ReserveDatas
<1>4. CashInView[r] = cash /\ BalanceAfter(r) - tx.flash[r] = cash
  <2>1. CashInView[r] = cash
    BY <1>1, <1>2, CashTyped
  <2>2. BalanceAfter(r) - tx.flash[r] = cash
    BY <1>2 DEF BalanceAfter
  <2> QED BY <2>1, <2>2
<1>5. s + c - l <= cash
  <2>1. Claims(tx.res[r]) <= CashInView[r] + unbacked[r]
    BY <1>1 DEF SolventInv, Covered
  <2> HIDE DEF cash
  <2> QED BY <1>3, <1>4, <2>1 DEF Claims
<1>6. cash >= 0
  <2>1. CASE tx.out[r] <= tx.in[r] /\ tx.flash[r] = 0
    BY <1>2, <2>1
  <2>2. CASE l <= s
    <3> HIDE DEF l, s, c, cash
    <3> QED BY <1>3, <1>5, <2>2
  <2> QED BY <1>1, <2>1, <2>2 DEF CanBePaid
<1> QED BY <1>1, <1>4, <1>6

THEOREM CallsCanBePaid == Spec => []PoolCanPay
<1>1. IInv /\ SolventInv /\ SafeInv => PoolCanPay
  BY ViewCanBePaid DEF PoolCanPay
<1> QED BY <1>1, SafeInvHolds, PTL

---------------------------------------------------------------------------
(* What it says of a step.                                                 *)
RiskStep ==
  \A u \in Users :
    /\ ~Idle /\ tx.from = u
    /\ Riskier(pos[u], pos'[u])
    /\ HasLiabilities(pos'[u])
    => Healthy(tx.res, pos'[u])

UtilizationStep ==
  \A r \in Reserves :
    res'[r].d_supply > res[r].d_supply =>
      Utilization(res'[r]) <= Config[r].max_util

(* A call that ends.                                                       *)
LEMMA EndKeepsRisk ==
  ASSUME IInv, SafeInv, Commit \/ CommitFlashLoan
  PROVE  RiskStep
<1>1. /\ ~Idle /\ Settle /\ Validated /\ ChecksAreDue /\ TypeOK
  BY EndsValidated DEF IInv
<1>2. /\ tx.from \in Users /\ tx.from \in Holders
      /\ tx.pos \in [Holders -> Positions] /\ pos \in [Holders -> Positions]
  BY <1>1, ViewTyped DEF TypeOK
<1>3. Mine \in Positions /\ pos[tx.from] \in Positions /\ pos'[tx.from] = Mine
  BY <1>1, <1>2 DEF Mine, Settle
<1>4. ASSUME Riskier(pos[tx.from], Mine), HasLiabilities(Mine)
      PROVE  Healthy(tx.res, Mine)
  <2>1. ~NoRiskier(pos[tx.from], Mine)
    BY <1>3, <1>4 DEF Riskier, NoRiskier, Positions
  <2> QED BY <1>1, <1>4, <2>1 DEF ChecksAreDue, Validated, HealthChecked
<1> QED BY <1>3, <1>4 DEF RiskStep

LEMMA EndKeepsUtilization ==
  ASSUME IInv, SafeInv, Commit \/ CommitFlashLoan
  PROVE  UtilizationStep
<1>1. /\ ~Idle /\ Settle /\ Validated /\ ChecksAreDue /\ TypeOK
  BY EndsValidated DEF IInv
<1>2. res \in [Reserves -> ReserveDatas]
  BY <1>1 DEF TypeOK
<1> SUFFICES ASSUME NEW r \in Reserves, res'[r].d_supply > res[r].d_supply
             PROVE  Utilization(res'[r]) <= Config[r].max_util
  BY DEF UtilizationStep
<1>3. res'[r] = IF r \in tx.touched THEN tx.res[r] ELSE res[r]
  BY <1>1 DEF Settle
<1>4. res[r].d_supply \in Nat
  BY <1>2 DEF ReserveDatas
<1>5. res'[r] = tx.res[r]
  BY <1>3, <1>4
<1>6. r \in tx.maxUtil
  BY <1>1, <1>5 DEF ChecksAreDue
<1> QED BY <1>1, <1>5, <1>6 DEF Validated, WithinMaxUtilization

(* Every other step of a call leaves the ledger as it is.                  *)
LEMMA OpenCallsChangeNothing ==
  ASSUME Requests, ~(Commit \/ CommitFlashLoan)
  PROVE  UNCHANGED <<res, pos>>
<1>1. \A r, a : Supply(r, a) \/ SupplyCollateral(r, a) => UNCHANGED book
  BY DEF Supply, SupplyCollateral
<1>2. \A r, a : Withdraw(r, a) \/ WithdrawCollateral(r, a) => UNCHANGED book
  BY DEF Withdraw, WithdrawCollateral
<1>3. \A r, a : Borrow(r, a) \/ Repay(r, a) => UNCHANGED book
  BY DEF Borrow, Repay
<1>4. \A u, percent : FillUserLiquidation(u, percent) => UNCHANGED book
  BY DEF FillUserLiquidation
<1>5. (\E r, a : ReceiverPaysPool(r, a)) \/ CallReceiver => UNCHANGED book
  BY DEF ReceiverPaysPool, CallReceiver
<1>6. DeleteLiquidation \/ Abort => UNCHANGED book
  BY DEF DeleteLiquidation, Abort
<1>7. UNCHANGED book
  BY <1>1, <1>2, <1>3, <1>4, <1>5, <1>6 DEF Requests
<1> QED BY <1>7 DEF book

LEMMA UnchangedStep ==
  ASSUME TypeOK, UNCHANGED <<res, pos>>
  PROVE  RiskStep /\ UtilizationStep
<1>1. \A u \in Users : pos[u] \in Positions
  BY DEF TypeOK, Holders
<1>2. \A u \in Users : ~Riskier(pos[u], pos'[u])
  BY <1>1 DEF Riskier, Positions
<1>3. \A r \in Reserves : res[r].d_supply \in Nat
  BY DEF TypeOK, ReserveDatas
<1> QED BY <1>2, <1>3 DEF RiskStep, UtilizationStep

LEMMA CallStep ==
  ASSUME IInv, SafeInv, Calls
  PROVE  RiskStep /\ UtilizationStep
<1>1. RiskStep
  <2>1. \A u, r, a : Submit(u) \/ DeleteStaleAuction(u) \/ FlashLoan(u, r, a) => Idle
    BY DEF Submit, DeleteStaleAuction, FlashLoan
  <2>2. \A u, bidSet, lotSet, percent : NewLiquidation(u, bidSet, lotSet, percent) => Idle
    BY DEF NewLiquidation
  <2>3. \A r : Gulp(r) => Idle
    BY DEF Gulp
  <2>4. DefaultBadDebt \/ UpdateStatus \/ (\E s : SetStatus(s)) => Idle
    BY DEF DefaultBadDebt, UpdateStatus, SetStatus
  <2>5. Idle
    BY Zenon, <2>1, <2>2, <2>3, <2>4 DEF Calls
  <2> QED BY <2>5 DEF RiskStep
<1>2. TypeOK /\ res \in [Reserves -> ReserveDatas] /\ pos \in [Holders -> Positions]
  BY DEF IInv, TypeOK
<1>3. CASE \E r \in Reserves : Gulp(r)
  <2>1. PICK r \in Reserves : Gulp(r)
    BY <1>3
  <2>2. \A x \in Reserves : res'[x].d_supply = res[x].d_supply
    <3> DEFINE old == Loaded(r)
               delta == bal[r] - ExpectedBalance(old)
               new == [old EXCEPT !.backstop_credit = @ + delta]
    <3>1. res' = [res EXCEPT ![r] = new]
      BY <2>1 DEF Gulp
    <3> HIDE DEF delta
    <3>2. old \in ReserveDatas /\ old.d_supply = res[r].d_supply
      BY LoadedUpdates DEF Updated
    <3> HIDE DEF old
    <3>3. new.d_supply = res[r].d_supply
      BY <3>2 DEF ReserveDatas
    <3> HIDE DEF new
    <3> QED BY <1>2, <3>1, <3>3
  <2>3. \A x \in Reserves : res[x].d_supply \in Nat
    BY <1>2 DEF ReserveDatas
  <2> QED BY <1>1, <2>2, <2>3 DEF UtilizationStep
<1>4. CASE DefaultBadDebt
  <2> DEFINE debt == pos[Backstop].liabilities
  <2>1. /\ Matches(res, pos) /\ Backstop \in Holders
        /\ res' = [r \in Reserves |->
                     IF r \in Held(debt) THEN Defaulted(Loaded(r), debt[r]) ELSE res[r]]
    BY <1>4 DEF DefaultBadDebt, IInv, Holders
  <2>2. ASSUME NEW r \in Reserves
        PROVE  ~(res'[r].d_supply > res[r].d_supply)
    <3>1. Loaded(r) \in ReserveDatas /\ Loaded(r).d_supply = res[r].d_supply
      BY LoadedUpdates DEF Updated
    <3>2. res[r].d_supply \in Nat /\ debt[r] \in Nat
      BY <1>2, <2>1 DEF ReserveDatas, Positions
    <3>3. Defaulted(Loaded(r), debt[r]).d_supply = res[r].d_supply - debt[r]
      BY <3>1 DEF Defaulted, ReserveDatas
    <3>4. \/ res'[r] = Defaulted(Loaded(r), debt[r])
          \/ res'[r] = res[r]
      BY <2>1
    <3> HIDE DEF debt
    <3> QED BY <3>2, <3>3, <3>4
  <2> QED BY <1>1, <2>2 DEF UtilizationStep
<1>5. CASE ~(\E r \in Reserves : Gulp(r)) /\ ~DefaultBadDebt
  <2>1. \A u : Submit(u) \/ DeleteStaleAuction(u) => UNCHANGED <<res, pos>>
    BY DEF Submit, DeleteStaleAuction, book
  <2>2. \A u, r, a : FlashLoan(u, r, a) => UNCHANGED <<res, pos>>
    BY DEF FlashLoan, book
  <2>3. \A u, bidSet, lotSet, percent :
          NewLiquidation(u, bidSet, lotSet, percent) => UNCHANGED <<res, pos>>
    BY DEF NewLiquidation
  <2>4. UpdateStatus \/ (\E s : SetStatus(s)) => UNCHANGED <<res, pos>>
    BY DEF UpdateStatus, SetStatus, book
  <2>5. UNCHANGED <<res, pos>>
    BY <1>5, <2>1, <2>2, <2>3, <2>4 DEF Calls
  <2> QED BY <1>2, <2>5, UnchangedStep
<1> QED BY <1>3, <1>4, <1>5

LEMMA CheckedSteps ==
  ASSUME IInv, SafeInv, [Next]_vars
  PROVE  RiskStep /\ UtilizationStep
<1>1. TypeOK
  BY DEF IInv
<1>2. CASE UNCHANGED vars
  BY <1>1, <1>2, UnchangedStep DEF vars
<1>3. CASE World
  <2>1. UNCHANGED <<res, pos>>
    BY <1>3 DEF World, Tick, ReportPrice, BackstopChanges, Donate, env, book
  <2> QED BY <1>1, <2>1, UnchangedStep
<1>4. CASE Requests
  BY <1>1, <1>4, EndKeepsRisk, EndKeepsUtilization, OpenCallsChangeNothing, UnchangedStep
<1>5. CASE Calls
  BY <1>5, CallStep
<1> QED BY <1>2, <1>3, <1>4, <1>5 DEF Next

(* Whoever comes out of a call with more debt or less collateral, and any  *)
(* debt, is healthy at the prices and rates of that call.                  *)
THEOREM RiskIsChecked == Spec => RiskierCallsEndHealthy
<1>1. IInv /\ SafeInv /\ [Next]_vars => [RiskStep]_pos
  BY CheckedSteps
<1>2. Spec => [][RiskStep]_pos
  BY <1>1, SafeInvHolds, PTL DEF Spec
<1> QED BY <1>2 DEF RiskierCallsEndHealthy, RiskStep

(* A reserve that comes out of a call with more debt is within its maximum *)
(* utilization.                                                            *)
THEOREM UtilizationIsChecked == Spec => BorrowingKeepsUtilization
<1>1. IInv /\ SafeInv /\ [Next]_vars => [UtilizationStep]_res
  BY CheckedSteps
<1>2. Spec => [][UtilizationStep]_res
  BY <1>1, SafeInvHolds, PTL DEF Spec
<1> QED BY <1>2 DEF BorrowingKeepsUtilization, UtilizationStep
=============================================================================
