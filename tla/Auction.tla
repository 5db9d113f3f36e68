----------------------------- MODULE Auction ------------------------------
(***************************************************************************)
(* The arithmetic of auctions (pool/src/auctions/auction.rs and            *)
(* user_liquidation_auction.rs).  An auction has a bid, which its filler   *)
(* takes on or pays, a lot, which its filler gets, and the block it starts *)
(* at.  Both sides are functions from assets to amounts; an asset that is  *)
(* not part of the auction has the amount 0.                               *)
(***************************************************************************)
EXTENDS Health

CONSTANTS
  RAMP,              \* 200 blocks: the lot grows over the first RAMP blocks
                     \* and the bid shrinks over the next RAMP blocks
  STALE              \* 500 blocks: when anyone may delete the auction

ASSUME AuctionAssumption == RAMP \in Nat \ {0} /\ STALE \in Nat

---------------------------------------------------------------------------
(* The share of lot and bid, of scalar SCALAR_7, after n blocks.           *)
LotModifier(n) == IF n > RAMP THEN SCALAR_7 ELSE (n * SCALAR_7) \div RAMP
BidModifier(n) ==
  IF n <= RAMP THEN SCALAR_7
  ELSE IF n < 2 * RAMP THEN SCALAR_7 - ((n - RAMP) * SCALAR_7) \div RAMP
  ELSE 0

(* scale_auction: what filling `percent` of auction a at `block` moves,    *)
(* and what stays open.  Percentages are of the base amounts; the block    *)
(* modifiers then scale only the part that is filled.                      *)
BidBase(a, percent) == [x \in DOMAIN a.bid |-> MulCeil(a.bid[x], percent, 100)]
LotBase(a, percent) == [x \in DOMAIN a.lot |-> MulFloor(a.lot[x], percent, 100)]

ToFill(a, percent, block) ==
  LET n == block - a.block
  IN  [bid |-> [x \in DOMAIN a.bid |->
                  MulCeil(BidBase(a, percent)[x], BidModifier(n), SCALAR_7)],
       lot |-> [x \in DOMAIN a.lot |->
                  MulFloor(LotBase(a, percent)[x], LotModifier(n), SCALAR_7)],
       block |-> a.block]

Remaining(a, percent) ==
  [bid |-> [x \in DOMAIN a.bid |-> a.bid[x] - BidBase(a, percent)[x]],
   lot |-> [x \in DOMAIN a.lot |-> a.lot[x] - LotBase(a, percent)[x]],
   block |-> a.block]

IsEmpty(a) == /\ \A x \in DOMAIN a.bid : a.bid[x] = 0
              /\ \A x \in DOMAIN a.lot : a.lot[x] = 0

---------------------------------------------------------------------------
Only(amounts, S) == [r \in Reserves |-> IF r \in S THEN amounts[r] ELSE 0]

(* create_user_liq_auction_data: the auction of `percent` of the debts in  *)
(* bidSet for a fair part of the collateral in lotSet, or Refused.  rs are *)
(* the loaded reserves and p the positions of the user to liquidate.       *)
Refused == [bid |-> Zero, lot |-> Zero]

LiquidationQuote(rs, price, p, bidSet, lotSet, percent) ==
  LET all  == PositionData(rs, price, p)
      part == [liabilities |-> Only(p.liabilities, bidSet),
               collateral  |-> Only(p.collateral, lotSet),
               supply      |-> Zero]
      inc  == PositionData(rs, price, part)
      allCollateral == inc.collateral_raw = all.collateral_raw
      full == /\ allCollateral
              /\ inc.liability_raw = all.liability_raw
              /\ percent > 95
      pct  == ((IF full THEN 95 ELSE percent) * ORACLE_SCALAR) \div 100
      avgCf == DivFloor(inc.collateral_base, inc.collateral_raw, ORACLE_SCALAR)
      avgLf == DivFloor(inc.liability_base, inc.liability_raw, ORACLE_SCALAR)
      incentive ==
        DivCeil(ORACLE_SCALAR - DivCeil(avgCf, avgLf, ORACLE_SCALAR),
                2 * ORACLE_SCALAR, ORACLE_SCALAR) + ORACLE_SCALAR
      withdrawn ==
        MulFloor(MulFloor(inc.liability_raw, pct, ORACLE_SCALAR),
                 incentive, ORACLE_SCALAR)
      estPct  == DivCeil(withdrawn, inc.collateral_raw, ORACLE_SCALAR)
      lotPct  == MinOf(estPct, ORACLE_SCALAR)
      quote   == [bid |-> [r \in Reserves |->
                             MulCeil(part.liabilities[r], pct, ORACLE_SCALAR)],
                  lot |-> [r \in Reserves |->
                             MulCeil(part.collateral[r], lotPct, ORACLE_SCALAR)]]
      left    == [p EXCEPT
                    !.liabilities = [r \in Reserves |-> @[r] - quote.bid[r]],
                    !.collateral  = [r \in Reserves |-> @[r] - quote.lot[r]]]
      after   == PositionData(rs, price, left)
      \* Panics of the valuation: a division by zero.
      divides == inc.collateral_raw > 0 /\ inc.liability_raw > 0 /\ avgLf > 0
      fits    == estPct <= ORACLE_SCALAR \/ allCollateral
  IN  IF all.liability_base <= all.collateral_base \/ ~divides \/ ~fits
      THEN Refused
      ELSE IF full
      THEN IF withdrawn < all.collateral_raw /\ IsHfOver(after, LIQ_MAX_HF)
           THEN Refused
           ELSE [bid |-> part.liabilities, lot |-> part.collateral]
      ELSE IF IsHfOver(after, LIQ_MAX_HF) \/ IsHfUnder(after, LIQ_MIN_HF)
      THEN Refused
      ELSE quote
===========================================================================
