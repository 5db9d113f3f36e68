------------------------------ MODULE Health ------------------------------
(***************************************************************************)
(* Positions and their health (pool/src/pool/user.rs, health_factor.rs).   *)
(*                                                                         *)
(* Positions are three maps from a reserve to a number of tokens.  The     *)
(* code removes an entry that reaches 0, so an absent entry is 0 here.     *)
(***************************************************************************)
EXTENDS Reserve, FiniteSets, Totals

CONSTANTS
  Reserves,          \* the assets of the pool
  Config,            \* the configuration of each reserve
  ORACLE_SCALAR,     \* the scalar of the oracle's prices: 10^price decimals
  MIN_HF,            \* 1_0000100: the least health factor a submit may leave
  LIQ_MIN_HF,        \* 1_0300000: the least one a partial liquidation leaves
  LIQ_MAX_HF         \* 1_1500000: the largest one it may leave

ASSUME HealthAssumption ==
  /\ IsFiniteSet(Reserves)
  /\ Config \in [Reserves -> ReserveConfigs]
  /\ ORACLE_SCALAR \in Nat \ {0}
  /\ {MIN_HF, LIQ_MIN_HF, LIQ_MAX_HF} \subseteq Nat
  /\ SCALAR_7 <= MIN_HF

---------------------------------------------------------------------------
Zero == [r \in Reserves |-> 0]

Positions == [liabilities : [Reserves -> Nat],
              collateral  : [Reserves -> Nat],
              supply      : [Reserves -> Nat]]

NoPositions == [liabilities |-> Zero, collateral |-> Zero, supply |-> Zero]

Held(amounts) == {r \in Reserves : amounts[r] > 0}

HasLiabilities(p) == Held(p.liabilities) # {}
HasCollateral(p)  == Held(p.collateral) # {}
EffectiveCount(p) == Cardinality(Held(p.liabilities)) + Cardinality(Held(p.collateral))

---------------------------------------------------------------------------
(* A price of 0 stands for the prices load_price panics on: older than a   *)
(* day, or not positive.  An l_factor of 0 makes the valuation of a debt   *)
(* divide by zero.                                                         *)
CanValue(price, p) ==
  /\ \A r \in Held(p.liabilities) \cup Held(p.collateral) : price[r] > 0
  /\ \A r \in Held(p.liabilities) : Config[r].l_factor > 0

(* PositionData::calculate_from_positions, for reserves loaded as rs.  A   *)
(* position of 0 tokens is worth 0.                                        *)
Value(price, r, assets)    == MulFloor(price[r], assets, Config[r].scalar)
DebtValue(price, r, assets) == MulCeil(price[r], assets, Config[r].scalar)

PositionData(rs, price, p) ==
  [collateral_base |-> Total([r \in Held(p.collateral) |->
     Value(price, r, ToEffectiveAssetFromBToken(rs[r], Config[r], p.collateral[r]))]),
   collateral_raw  |-> Total([r \in Held(p.collateral) |->
     Value(price, r, ToAssetFromBToken(rs[r], p.collateral[r]))]),
   liability_base  |-> Total([r \in Held(p.liabilities) |->
     DebtValue(price, r, ToEffectiveAssetFromDToken(rs[r], Config[r], p.liabilities[r]))]),
   liability_raw   |-> Total([r \in Held(p.liabilities) |->
     DebtValue(price, r, ToAssetFromDToken(rs[r], p.liabilities[r]))])]

HealthFactor(d) == DivFloor(d.collateral_base, d.liability_base, ORACLE_SCALAR)

IsHfOver(d, max) ==
  \/ d.liability_base = 0
  \/ HealthFactor(d) > MulCeil(ORACLE_SCALAR, max, SCALAR_7)

IsHfUnder(d, min) ==
  /\ d.liability_base # 0
  /\ HealthFactor(d) < MulFloor(ORACLE_SCALAR, min, SCALAR_7)
===========================================================================
