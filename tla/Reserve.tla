----------------------------- MODULE Reserve -----------------------------
(***************************************************************************)
(* The accounting of one reserve of a lending pool (pool/src/pool/         *)
(* reserve.rs and interest.rs).  Suppliers hold bTokens, borrowers hold    *)
(* dTokens; b_rate and d_rate are the assets one token stands for.  This   *)
(* module is pure: it defines what loading a reserve at a given time       *)
(* yields and how amounts convert; the state machines are elsewhere.       *)
(*                                                                         *)
(* A reserve's data is a record with the fields of ReserveData and its     *)
(* configuration a record with the fields of ReserveConfig, `scalar`       *)
(* standing for 10^decimals.                                               *)
(***************************************************************************)
EXTENDS FixedPoint

CONSTANTS
  SCALAR_7,          \* the scalar of factors, utilization and interest rates
  SCALAR_12,         \* the scalar of b_rate and d_rate
  SECONDS_PER_YEAR

ASSUME ScalarAssumption ==
  /\ SCALAR_7 \in Nat \ {0} /\ SCALAR_7 % 100 = 0
  /\ SCALAR_12 \in Nat \ {0}
  /\ SECONDS_PER_YEAR \in Nat \ {0}

(* n percent, as a ratio of scalar SCALAR_7.                               *)
Percent(n) == (n * SCALAR_7) \div 100

---------------------------------------------------------------------------
(* The configurations require_valid_reserve_metadata lets in, except that  *)
(* the ranges of the interest rate parameters are left out.                *)
ReserveConfigs ==
  [c_factor : 0..SCALAR_7, l_factor : 0..SCALAR_7, util : 0..Percent(90),
   max_util : 0..SCALAR_7, r_base : Nat, r_one : Nat, r_two : Nat,
   r_three : Nat, reactivity : Nat, supply_cap : Nat, enabled : BOOLEAN,
   scalar : Nat \ {0}]

ReserveDatas ==
  [b_rate : Nat, d_rate : Nat, ir_mod : Nat, b_supply : Nat, d_supply : Nat,
   backstop_credit : Nat, last_time : Nat]

(* A reserve that initialize_reserve adds to the pool at time t.           *)
NewReserve(t) ==
  [b_rate |-> SCALAR_12, d_rate |-> SCALAR_12, ir_mod |-> SCALAR_7,
   b_supply |-> 0, d_supply |-> 0, backstop_credit |-> 0, last_time |-> t]

---------------------------------------------------------------------------
(* Conversions.  Each rounds in the pool's favour.                         *)
ToAssetFromDToken(r, d) == MulCeil(d, r.d_rate, SCALAR_12)
ToAssetFromBToken(r, b) == MulFloor(b, r.b_rate, SCALAR_12)
ToDTokenDown(r, a)      == DivFloor(a, r.d_rate, SCALAR_12)
ToDTokenUp(r, a)        == DivCeil(a, r.d_rate, SCALAR_12)
ToBTokenDown(r, a)      == DivFloor(a, r.b_rate, SCALAR_12)
ToBTokenUp(r, a)        == DivCeil(a, r.b_rate, SCALAR_12)

ToEffectiveAssetFromDToken(r, c, d) ==
  DivCeil(ToAssetFromDToken(r, d), c.l_factor, SCALAR_7)
ToEffectiveAssetFromBToken(r, c, b) ==
  MulFloor(ToAssetFromBToken(r, b), c.c_factor, SCALAR_7)

TotalLiabilities(r) == ToAssetFromDToken(r, r.d_supply)
TotalSupply(r)      == ToAssetFromBToken(r, r.b_supply)

Utilization(r) ==
  LET liabilities == TotalLiabilities(r)
      supply      == TotalSupply(r)
  IN  IF liabilities = 0 THEN 0
      ELSE IF liabilities >= supply THEN SCALAR_7
      ELSE DivCeil(liabilities, supply, SCALAR_7)

---------------------------------------------------------------------------
(* The interest rate: three linear segments that meet at the target        *)
(* utilization and at 95%; all but the last slope are scaled by ir_mod.    *)
CurrentRate(c, util, irMod) ==
  LET kink == Percent(95)
  IN  IF util <= c.util
      THEN MulCeil(MulCeil(DivCeil(util, c.util, SCALAR_7), c.r_one, SCALAR_7)
                     + c.r_base, irMod, SCALAR_7)
      ELSE IF util <= kink
      THEN MulCeil(MulCeil(DivCeil(util - c.util, kink - c.util, SCALAR_7),
                           c.r_two, SCALAR_7) + c.r_one + c.r_base,
                   irMod, SCALAR_7)
      ELSE MulCeil(DivCeil(util - kink, Percent(5), SCALAR_7),
                   c.r_three, SCALAR_7)
             + MulCeil(irMod, c.r_two + c.r_one + c.r_base, SCALAR_7)

IrModMin == SCALAR_7 \div 10
IrModMax == 10 * SCALAR_7

(* The rate modifier drifts up while utilization is at or above its target *)
(* and down below it, within [0.1, 10].                                    *)
NextIrMod(c, util, irMod, dt) ==
  LET error == dt * (util - c.util)
  IN  IF util >= c.util
      THEN MinOf(irMod + MulFloor(error, c.reactivity, SCALAR_7), IrModMax)
      ELSE MaxOf(irMod + MulCeil(error, c.reactivity, SCALAR_7), IrModMin)

(* The factor, of scalar SCALAR_12, debt grows by in dt seconds.           *)
LoanAccrual(c, util, irMod, dt) ==
  LET timeWeight == (dt * SCALAR_12) \div SECONDS_PER_YEAR
  IN  SCALAR_12 + MulCeil(timeWeight, CurrentRate(c, util, irMod), SCALAR_7)

\* Mutant: the suppliers' supply is not grown by the interest.
AccrueNothing(r, supplyBefore, accrued, bstopRate) ==
  LET credit == MulFloor(accrued, bstopRate, SCALAR_7)
  IN  IF accrued <= 0 THEN r
      ELSE [r EXCEPT !.backstop_credit = @ + credit,
                     !.b_rate = DivFloor(supplyBefore - credit,
                                         r.b_supply, SCALAR_12)]

(* Interest `accrued` goes to the suppliers through b_rate, less the       *)
(* backstop's share.                                                       *)
Accrue(r, supplyBefore, accrued, bstopRate) ==
  LET credit == MulFloor(accrued, bstopRate, SCALAR_7)
  IN  IF accrued <= 0 THEN r
      ELSE [r EXCEPT !.backstop_credit = @ + credit,
                     !.b_rate = DivFloor(supplyBefore + accrued - credit,
                                         r.b_supply, SCALAR_12)]

(* Reserve::load: the stored data r brought up to `time`.                  *)
LoadReserve(r, c, bstopRate, time) ==
  LET util    == Utilization(r)
      dt      == time - r.last_time
      grown   == [r EXCEPT
                    !.d_rate = MulCeil(LoanAccrual(c, util, r.ir_mod, dt),
                                       @, SCALAR_12),
                    !.ir_mod = NextIrMod(c, util, @, dt)]
      accrued == TotalLiabilities(grown) - TotalLiabilities(r)
  IN  IF time = r.last_time THEN r
      ELSE IF r.b_supply = 0 \/ util = 0 THEN [r EXCEPT !.last_time = time]
      ELSE [Accrue(grown, TotalSupply(r), accrued, bstopRate)
              EXCEPT !.last_time = time]
===========================================================================
