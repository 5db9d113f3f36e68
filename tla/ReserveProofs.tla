--------------------------- MODULE ReserveProofs ---------------------------
(***************************************************************************)
(* Theorems about the arithmetic of a reserve: what the conversions bound, *)
(* and what bringing a reserve up to date preserves.                       *)
(***************************************************************************)
EXTENDS Reserve, ArithmeticProofs, TLAPS

---------------------------------------------------------------------------
(* Scalars and percentages.                                                *)
LEMMA Percentages ==
  /\ Percent(5) \in Nat \ {0}
  /\ Percent(90) < Percent(95) /\ Percent(90) \in Nat /\ Percent(95) \in Nat
BY SMT, ScalarAssumption DEF Percent

(* A reserve the pool can hold: no rate has fallen below its initial value *)
(* but b_rate, which a default lowers.                                     *)
LEMMA TotalsOfReserve ==
  ASSUME NEW r \in ReserveDatas
  PROVE  TotalLiabilities(r) \in Nat /\ TotalSupply(r) \in Nat
BY ScalarAssumption, RoundingOfNat
   DEF TotalLiabilities, TotalSupply, ToAssetFromDToken, ToAssetFromBToken, ReserveDatas

(* The conversions of natural amounts.                                     *)
LEMMA ConversionsOfReserve ==
  ASSUME NEW r \in ReserveDatas, NEW a \in Nat
  PROVE  /\ ToAssetFromDToken(r, a) \in Nat
         /\ ToAssetFromBToken(r, a) \in Nat
         /\ r.d_rate > 0 => ToDTokenDown(r, a) \in Nat /\ ToDTokenUp(r, a) \in Nat
         /\ r.b_rate > 0 => ToBTokenDown(r, a) \in Nat /\ ToBTokenUp(r, a) \in Nat
<1>1. r.d_rate \in Nat /\ r.b_rate \in Nat /\ SCALAR_12 \in Nat \ {0}
  BY ScalarAssumption DEF ReserveDatas
<1>2. ToAssetFromDToken(r, a) \in Nat /\ ToAssetFromBToken(r, a) \in Nat
  BY <1>1, RoundingOfNat DEF ToAssetFromDToken, ToAssetFromBToken
<1>3. ASSUME r.d_rate > 0
      PROVE  ToDTokenDown(r, a) \in Nat /\ ToDTokenUp(r, a) \in Nat
  <2>1. r.d_rate \in Nat \ {0} /\ SCALAR_12 \in Nat
    BY <1>1, <1>3
  <2> QED BY <2>1, RoundingOfNat DEF ToDTokenDown, ToDTokenUp
<1>4. ASSUME r.b_rate > 0
      PROVE  ToBTokenDown(r, a) \in Nat /\ ToBTokenUp(r, a) \in Nat
  <2>1. r.b_rate \in Nat \ {0} /\ SCALAR_12 \in Nat
    BY <1>1, <1>4
  <2> QED BY <2>1, RoundingOfNat DEF ToBTokenDown, ToBTokenUp
<1> QED BY <1>2, <1>3, <1>4

LEMMA UtilizationIsShare ==
  ASSUME NEW r \in ReserveDatas
  PROVE  Utilization(r) \in 0..SCALAR_7
<1> DEFINE l == TotalLiabilities(r)
           s == TotalSupply(r)
<1>1. l \in Nat /\ s \in Nat /\ SCALAR_7 \in Nat \ {0}
  BY TotalsOfReserve, ScalarAssumption
<1> HIDE DEF l, s
<1>2. CASE l = 0 \/ l >= s
  BY <1>1, <1>2 DEF Utilization, l, s
<1>3. CASE l # 0 /\ l < s
  <2>1. DivCeil(l, s, SCALAR_7) \in Nat
    BY <1>1, <1>3, RoundingOfNat
  <2>2. l * SCALAR_7 \in Int /\ l * SCALAR_7 <= SCALAR_7 * s
    BY <1>1, <1>3
  <2>3. DivCeil(l, s, SCALAR_7) <= SCALAR_7
    BY <1>1, <1>3, <2>2, CeilIsLeast DEF DivCeil
  <2> QED BY <1>1, <1>3, <2>1, <2>3 DEF Utilization, l, s
<1> QED BY <1>1, <1>2, <1>3

(* Interest rates are never negative.                                      *)
LEMMA CurrentRateIsNat ==
  ASSUME NEW c \in ReserveConfigs, NEW util \in 1..SCALAR_7, NEW irMod \in Nat
  PROVE  CurrentRate(c, util, irMod) \in Nat
<1> DEFINE kink == Percent(95)
<1>1. /\ SCALAR_7 \in Nat \ {0} /\ util \in Nat \ {0}
      /\ c.util \in Nat /\ c.util < kink /\ kink \in Nat
      /\ c.r_base \in Nat /\ c.r_one \in Nat /\ c.r_two \in Nat /\ c.r_three \in Nat
      /\ Percent(5) \in Nat \ {0}
  BY ScalarAssumption, Percentages DEF ReserveConfigs
<1> HIDE DEF kink
<1>2. CASE util <= c.util
  <2>1. c.util \in Nat \ {0}
    BY <1>1, <1>2
  <2> DEFINE a == DivCeil(util, c.util, SCALAR_7)
             m == MulCeil(a, c.r_one, SCALAR_7)
             b == m + c.r_base
  <2>2. a \in Nat
    BY <1>1, <2>1, RoundingOfNat
  <2> HIDE DEF a
  <2>3. m \in Nat
    BY <1>1, <2>2, RoundingOfNat
  <2> HIDE DEF m
  <2>4. b \in Nat
    BY <1>1, <2>3
  <2> HIDE DEF b
  <2>5. MulCeil(b, irMod, SCALAR_7) \in Nat
    BY <1>1, <2>4, RoundingOfNat
  <2> QED BY <1>2, <2>5 DEF CurrentRate, a, b, m
<1>3. CASE util > c.util /\ util <= kink
  <2>1. kink - c.util \in Nat \ {0} /\ util - c.util \in Nat
    BY <1>1, <1>3
  <2> DEFINE a == DivCeil(util - c.util, kink - c.util, SCALAR_7)
             m == MulCeil(a, c.r_two, SCALAR_7)
             b == m + c.r_one + c.r_base
  <2>2. a \in Nat
    BY <1>1, <2>1, RoundingOfNat
  <2> HIDE DEF a
  <2>3. m \in Nat
    BY <1>1, <2>2, RoundingOfNat
  <2> HIDE DEF m
  <2>4. b \in Nat
    BY <1>1, <2>3
  <2> HIDE DEF b
  <2>5. MulCeil(b, irMod, SCALAR_7) \in Nat
    BY <1>1, <2>4, RoundingOfNat
  <2>6. ~(util <= c.util)
    BY <1>1, <1>3
  <2> QED BY <1>3, <2>5, <2>6 DEF CurrentRate, a, b, m, kink
<1>4. CASE util > c.util /\ util > kink
  <2>1. util - kink \in Nat /\ c.r_two + c.r_one + c.r_base \in Nat
    BY <1>1, <1>4
  <2> DEFINE a == DivCeil(util - kink, Percent(5), SCALAR_7)
             b == MulCeil(a, c.r_three, SCALAR_7)
             d == MulCeil(irMod, c.r_two + c.r_one + c.r_base, SCALAR_7)
  <2>2. a \in Nat
    BY <1>1, <2>1, RoundingOfNat
  <2> HIDE DEF a
  <2>3. b \in Nat /\ d \in Nat
    BY <1>1, <2>1, <2>2, RoundingOfNat
  <2> HIDE DEF b, d
  <2>4. b + d \in Nat
    BY <2>3
  <2>5. ~(util <= c.util) /\ ~(util <= kink)
    BY <1>1, <1>4
  <2> QED BY <1>4, <2>4, <2>5 DEF CurrentRate, a, b, d, kink
<1> QED BY <1>1, <1>2, <1>3, <1>4

LEMMA NextIrModIsNat ==
  ASSUME NEW c \in ReserveConfigs, NEW util \in 0..SCALAR_7, NEW irMod \in Nat,
         NEW dt \in Nat
  PROVE  NextIrMod(c, util, irMod, dt) \in Nat
<1> DEFINE error == dt * (util - c.util)
<1>1. /\ SCALAR_7 \in Nat \ {0} /\ util \in Nat
      /\ c.util \in Nat /\ c.reactivity \in Nat
  BY ScalarAssumption, Percentages DEF ReserveConfigs
<1>2. IrModMax \in Nat /\ IrModMin \in Nat
  BY <1>1 DEF IrModMax, IrModMin
<1>3. error \in Int
  BY <1>1
<1> HIDE DEF error
<1>4. CASE util >= c.util
  <2>1. error \in Nat
    BY <1>1, <1>4 DEF error
  <2> DEFINE m == MulFloor(error, c.reactivity, SCALAR_7)
  <2>2. m \in Nat
    BY <1>1, <2>1, RoundingOfNat
  <2> HIDE DEF m
  <2>3. irMod + m \in Nat
    BY <2>2
  <2> QED BY <1>2, <1>4, <2>3 DEF NextIrMod, MinOf, error, m
<1>5. CASE ~(util >= c.util)
  <2> DEFINE m == MulCeil(error, c.reactivity, SCALAR_7)
  <2>1. c.reactivity \in Int
    BY <1>1
  <2>2. m \in Int
    BY <1>1, <1>3, <2>1, RoundingOfInt
  <2> HIDE DEF m
  <2>3. irMod + m \in Int
    BY <2>2
  <2> QED BY <1>2, <1>5, <2>3 DEF NextIrMod, MaxOf, error, m
<1> QED BY <1>4, <1>5

(* Debt never shrinks with time.                                           *)
LEMMA LoanAccrualIsGrowth ==
  ASSUME NEW c \in ReserveConfigs, NEW util \in 1..SCALAR_7, NEW irMod \in Nat,
         NEW dt \in Nat
  PROVE  /\ LoanAccrual(c, util, irMod, dt) \in Nat
         /\ LoanAccrual(c, util, irMod, dt) >= SCALAR_12
<1> DEFINE timeWeight == (dt * SCALAR_12) \div SECONDS_PER_YEAR
           rate == CurrentRate(c, util, irMod)
<1>1. SCALAR_7 \in Nat \ {0} /\ SCALAR_12 \in Nat \ {0} /\ SECONDS_PER_YEAR \in Nat \ {0}
  BY ScalarAssumption
<1>2. dt * SCALAR_12 \in Nat
  BY <1>1
<1>3. timeWeight \in Nat
  BY <1>1, <1>2, FloorOfNat DEF FloorDiv
<1>4. rate \in Nat
  BY CurrentRateIsNat
<1> HIDE DEF timeWeight, rate
<1>5. MulCeil(timeWeight, rate, SCALAR_7) \in Nat
  BY <1>1, <1>3, <1>4, RoundingOfNat
<1> QED BY <1>1, <1>5 DEF LoanAccrual, timeWeight, rate

LEMMA GrowthGrows ==
  ASSUME NEW x \in Nat, NEW rate \in Nat, NEW s \in Nat \ {0}, x >= s
  PROVE  MulCeil(x, rate, s) \in Nat /\ MulCeil(x, rate, s) >= rate
<1> DEFINE c == CeilDiv(x * rate, s)
<1>1. x * rate \in Nat /\ rate * s <= x * rate
  OBVIOUS
<1>2. c \in Nat /\ x * rate <= c * s
  BY <1>1, CeilOfNat, CeilBounds
<1> HIDE DEF c
<1>3. rate * s <= c * s
  BY <1>1, <1>2
<1>4. rate <= c
  BY <1>2, <1>3
<1> QED BY <1>2, <1>4 DEF MulCeil, c

---------------------------------------------------------------------------
(* What accrual gives the backstop is less than all of the interest.       *)
LEMMA CreditIsLess ==
  ASSUME NEW accrued \in Nat \ {0}, NEW rate \in 0..(SCALAR_7 - 1)
  PROVE  /\ MulFloor(accrued, rate, SCALAR_7) \in Nat
         /\ MulFloor(accrued, rate, SCALAR_7) < accrued
<1> DEFINE f == FloorDiv(accrued * rate, SCALAR_7)
<1>1. SCALAR_7 \in Nat \ {0} /\ rate \in Nat /\ rate < SCALAR_7
  BY ScalarAssumption
<1>2. accrued * rate \in Nat /\ accrued * rate < accrued * SCALAR_7
  BY <1>1
<1>3. f \in Nat /\ f * SCALAR_7 <= accrued * rate
  BY <1>1, <1>2, FloorOfNat, FloorBounds
<1> HIDE DEF f
<1>4. f * SCALAR_7 < accrued * SCALAR_7
  BY <1>1, <1>2, <1>3
<1>5. f < accrued
  BY <1>1, <1>3, <1>4
<1> QED BY <1>3, <1>5 DEF f, MulFloor

(* Interest of at least one unit makes up for the unit the supply's own    *)
(* rounding may have lost, so b_rate never falls.                          *)
LEMMA InterestRaisesRate ==
  ASSUME NEW b \in Nat \ {0}, NEW rate \in Nat, NEW gain \in Nat \ {0}
  PROVE  /\ DivFloor(MulFloor(b, rate, SCALAR_12) + gain, b, SCALAR_12) \in Nat
         /\ DivFloor(MulFloor(b, rate, SCALAR_12) + gain, b, SCALAR_12) >= rate
<1> DEFINE f == FloorDiv(b * rate, SCALAR_12)
<1>1. SCALAR_12 \in Nat \ {0} /\ b * rate \in Nat
  BY ScalarAssumption
<1>2. f \in Nat /\ b * rate < f * SCALAR_12 + SCALAR_12
  BY <1>1, FloorOfNat, FloorBounds
<1> HIDE DEF f
<1>3. (f + gain) * SCALAR_12 \in Nat
  BY <1>1, <1>2
<1>4. f * SCALAR_12 + SCALAR_12 <= (f + gain) * SCALAR_12
  BY <1>1, <1>2
<1>5. rate * b <= (f + gain) * SCALAR_12
  BY <1>1, <1>2, <1>3, <1>4
<1>6. /\ FloorDiv((f + gain) * SCALAR_12, b) \in Nat
      /\ rate <= FloorDiv((f + gain) * SCALAR_12, b)
  BY <1>3, <1>5, FloorOfNat, FloorIsGreatest
<1> QED BY <1>6 DEF f, DivFloor, MulFloor

(* What a reserve owes its suppliers and its backstop beyond what it is    *)
(* owed: the tokens it must hold.                                          *)
Claims(r) == TotalSupply(r) + r.backstop_credit - TotalLiabilities(r)

(* What bringing a reserve up to date promises: every field keeps its      *)
(* type, no rate falls, no token is minted or burnt, and what suppliers    *)
(* and backstop are credited with is no more than what debts grew by.      *)
Updated(r, s, time) ==
  /\ s \in ReserveDatas
  /\ Claims(s) <= Claims(r)
  /\ s.d_rate >= r.d_rate /\ s.b_rate >= r.b_rate
  /\ s.b_supply = r.b_supply /\ s.d_supply = r.d_supply
  /\ s.backstop_credit >= r.backstop_credit
  /\ s.last_time = time

(* Reserve::load keeps that promise for every reserve, configuration,      *)
(* backstop rate below 100% and later time.                                *)
THEOREM LoadingUpdates ==
  ASSUME NEW r \in ReserveDatas, NEW c \in ReserveConfigs,
         NEW rate \in 0..(SCALAR_7 - 1), NEW time \in Nat, r.last_time <= time
  PROVE  Updated(r, LoadReserve(r, c, rate, time), time)
<1> DEFINE util  == Utilization(r)
           dt    == time - r.last_time
           grown == [r EXCEPT
                       !.d_rate = MulCeil(LoanAccrual(c, util, r.ir_mod, dt),
                                          @, SCALAR_12),
                       !.ir_mod = NextIrMod(c, util, @, dt)]
           accrued == TotalLiabilities(grown) - TotalLiabilities(r)
           loaded  == LoadReserve(r, c, rate, time)
<1>1. /\ r.d_rate \in Nat /\ r.b_rate \in Nat /\ r.ir_mod \in Nat
      /\ r.b_supply \in Nat /\ r.d_supply \in Nat
      /\ r.backstop_credit \in Nat /\ r.last_time \in Nat
      /\ SCALAR_12 \in Nat \ {0}
  BY ScalarAssumption DEF ReserveDatas
<1>2. CASE time = r.last_time
  <2>1. loaded = r
    BY <1>2 DEF LoadReserve
  <2>2. Claims(r) <= Claims(r)
    BY <1>1, TotalsOfReserve DEF Claims
  <2> QED BY <2>1, <2>2, <1>1, <1>2 DEF Updated
<1>3. CASE time # r.last_time /\ (r.b_supply = 0 \/ util = 0)
  <2>1. loaded = [r EXCEPT !.last_time = time]
    BY <1>3 DEF LoadReserve
  <2> HIDE DEF loaded
  <2>2. /\ loaded.d_rate = r.d_rate /\ loaded.b_rate = r.b_rate
        /\ loaded.b_supply = r.b_supply /\ loaded.d_supply = r.d_supply
        /\ loaded.backstop_credit = r.backstop_credit
    BY <2>1, <1>1 DEF ReserveDatas
  <2>3. Claims(loaded) <= Claims(r)
    <3>1. Claims(loaded) = Claims(r)
      BY <2>2 DEF Claims, TotalSupply, ToAssetFromBToken, TotalLiabilities, ToAssetFromDToken
    <3> QED BY <3>1, <1>1, TotalsOfReserve DEF Claims
  <2>4. Updated(r, loaded, time)
    BY <2>1, <2>2, <2>3, <1>1 DEF Updated, ReserveDatas
  <2> QED BY <2>4 DEF loaded
<1>4. CASE time # r.last_time /\ r.b_supply # 0 /\ util # 0
  <2>1. util \in 1..SCALAR_7 /\ util \in 0..SCALAR_7 /\ dt \in Nat
    BY <1>1, <1>4, UtilizationIsShare
  <2>2. /\ LoanAccrual(c, util, r.ir_mod, dt) \in Nat
        /\ LoanAccrual(c, util, r.ir_mod, dt) >= SCALAR_12
    BY <1>1, <2>1, LoanAccrualIsGrowth
  <2>3. NextIrMod(c, util, r.ir_mod, dt) \in Nat
    BY <1>1, <2>1, NextIrModIsNat
  <2>4. /\ MulCeil(LoanAccrual(c, util, r.ir_mod, dt), r.d_rate, SCALAR_12) \in Nat
        /\ MulCeil(LoanAccrual(c, util, r.ir_mod, dt), r.d_rate, SCALAR_12) >= r.d_rate
    BY <1>1, <2>2, GrowthGrows
  <2>5. /\ grown \in ReserveDatas
        /\ grown.d_rate >= r.d_rate /\ grown.b_rate = r.b_rate
        /\ grown.b_supply = r.b_supply /\ grown.d_supply = r.d_supply
        /\ grown.backstop_credit = r.backstop_credit
    BY <1>1, <2>3, <2>4 DEF ReserveDatas
  <2>6. accrued \in Nat
    <3>1. TotalLiabilities(grown) \in Nat /\ TotalLiabilities(r) \in Nat
      BY <2>5, TotalsOfReserve
    <3>2. TotalLiabilities(r) <= TotalLiabilities(grown)
      <4> DEFINE m == r.d_supply * r.d_rate
                 n == grown.d_supply * grown.d_rate
      <4>1. m \in Nat /\ n \in Nat /\ m <= n
        <5>1. grown.d_rate \in Nat
          BY <2>5 DEF ReserveDatas
        <5> HIDE DEF grown
        <5> QED BY <1>1, <2>5, <5>1
      <4> HIDE DEF m, n
      <4>2. CeilDiv(m, SCALAR_12) + 0 <= CeilDiv(n, SCALAR_12)
        <5>1. m \in Int /\ n \in Int /\ 0 \in Int /\ m + 0 * SCALAR_12 <= n
          BY <1>1, <4>1
        <5> QED BY <1>1, <5>1, CeilStep
      <4>3. CeilDiv(m, SCALAR_12) \in Int
        BY <1>1, <4>1, CeilBounds
      <4> HIDE DEF grown
      <4> QED BY <4>2, <4>3 DEF TotalLiabilities, ToAssetFromDToken, MulCeil, m, n
    <3> QED BY <3>1, <3>2
  <2>7. loaded = [Accrue(grown, TotalSupply(r), accrued, rate) EXCEPT !.last_time = time]
    BY <1>4 DEF LoadReserve
  <2> HIDE DEF util, dt, grown, accrued, loaded
  <2>8. ASSUME accrued <= 0
        PROVE  Updated(r, loaded, time)
    <3>1. loaded = [grown EXCEPT !.last_time = time]
      BY <2>7, <2>8 DEF Accrue
    <3>2. /\ loaded.d_rate = grown.d_rate /\ loaded.b_rate = r.b_rate
          /\ loaded.b_supply = r.b_supply /\ loaded.d_supply = grown.d_supply
          /\ loaded.backstop_credit = r.backstop_credit
      BY <3>1, <2>5 DEF ReserveDatas
    <3>3. /\ TotalSupply(loaded) = TotalSupply(r)
          /\ TotalLiabilities(loaded) = TotalLiabilities(grown)
      BY <3>2 DEF TotalSupply, ToAssetFromBToken, TotalLiabilities, ToAssetFromDToken
    <3>4. TotalLiabilities(grown) = TotalLiabilities(r)
      <4>1. accrued = 0
        BY <2>6, <2>8
      <4>2. TotalLiabilities(grown) \in Nat /\ TotalLiabilities(r) \in Nat
        BY <2>5, TotalsOfReserve
      <4> QED BY <4>1, <4>2 DEF accrued
    <3>5. Claims(loaded) <= Claims(r)
      <4>1. TotalSupply(r) \in Nat /\ TotalLiabilities(r) \in Nat
        BY TotalsOfReserve
      <4> QED BY <1>1, <4>1, <3>2, <3>3, <3>4 DEF Claims
    <3> QED BY <3>1, <3>5, <1>1, <2>5 DEF Updated, ReserveDatas
  <2>9. ASSUME accrued > 0
        PROVE  Updated(r, loaded, time)
    <3> DEFINE credit == MulFloor(accrued, rate, SCALAR_7)
               gain   == accrued - credit
               bRate  == DivFloor(TotalSupply(r) + gain, r.b_supply, SCALAR_12)
    <3>1. credit \in Nat /\ credit < accrued
      BY <2>6, <2>9, CreditIsLess
    <3>2. gain \in Nat \ {0}
      BY <2>6, <3>1
    <3>3. bRate \in Nat /\ bRate >= r.b_rate
      <4> HIDE DEF gain
      <4>1. r.b_supply \in Nat \ {0}
        BY <1>1, <1>4
      <4> QED BY <1>1, <4>1, <3>2, InterestRaisesRate DEF TotalSupply, ToAssetFromBToken
    <3>4. TotalSupply(r) \in Nat
      BY TotalsOfReserve
    <3> HIDE DEF credit
    <3>5. TotalSupply(r) + accrued - credit = TotalSupply(r) + gain
      BY <2>6, <3>1, <3>4
    <3> HIDE DEF gain
    <3>6. ~(accrued <= 0)
      BY <2>6, <2>9
    <3>7. DivFloor(TotalSupply(r) + accrued - credit, grown.b_supply, SCALAR_12) = bRate
      BY <2>5, <3>5
    <3> HIDE DEF bRate
    <3>8. Accrue(grown, TotalSupply(r), accrued, rate)
            = [grown EXCEPT !.backstop_credit = @ + credit, !.b_rate = bRate]
      BY <3>6, <3>7, Zenon DEF Accrue, credit
    <3>9. loaded = [grown EXCEPT !.backstop_credit = @ + credit, !.b_rate = bRate,
                                 !.last_time = time]
      BY <2>7, <3>8
    <3>10. grown.backstop_credit + credit \in Nat /\ grown.backstop_credit + credit >= r.backstop_credit
      BY <1>1, <2>5, <3>1
    <3>11. /\ loaded.d_rate = grown.d_rate /\ loaded.b_rate = bRate
          /\ loaded.b_supply = grown.b_supply /\ loaded.d_supply = grown.d_supply
          /\ loaded.backstop_credit = grown.backstop_credit + credit
          /\ loaded.last_time = time
      BY <2>5, <3>9 DEF ReserveDatas
    <3>12. loaded \in ReserveDatas
      BY <2>5, <3>3, <3>9, <3>10 DEF ReserveDatas
    <3>13. TotalSupply(loaded) <= TotalSupply(r) + gain
      <4> DEFINE all == TotalSupply(r) + gain
      <4>1. all \in Nat /\ all * SCALAR_12 \in Nat /\ r.b_supply \in Nat \ {0}
        BY <1>1, <1>4, <3>2, <3>4
      <4>2. bRate * r.b_supply <= all * SCALAR_12
        <5> DEFINE w == all * SCALAR_12
        <5>1. bRate = FloorDiv(w, r.b_supply)
          BY DEF bRate, DivFloor
        <5>2. w \in Int
          BY <4>1
        <5> HIDE DEF w
        <5>3. FloorDiv(w, r.b_supply) * r.b_supply <= w
          BY <4>1, <5>2, FloorBounds
        <5> QED BY <5>1, <5>3 DEF w
      <4>3. TotalSupply(loaded) = FloorDiv(r.b_supply * bRate, SCALAR_12)
        BY <2>5, <3>11 DEF TotalSupply, ToAssetFromBToken, MulFloor
      <4> HIDE DEF all
      <4> DEFINE n == r.b_supply * bRate
                 f == FloorDiv(n, SCALAR_12)
      <4>4. n \in Nat /\ n <= all * SCALAR_12
        BY <3>3, <4>1, <4>2
      <4>5. f \in Int /\ f * SCALAR_12 <= n
        <5>1. n \in Int
          BY <4>4
        <5> HIDE DEF n
        <5> QED BY <1>1, <5>1, FloorBounds
      <4>6. TotalSupply(loaded) = f
        BY <4>3
      <4> HIDE DEF n, f
      <4>7. f * SCALAR_12 <= all * SCALAR_12
        BY <1>1, <4>1, <4>4, <4>5
      <4>8. f <= all
        BY <1>1, <4>1, <4>5, <4>7
      <4> QED BY <4>6, <4>8 DEF all
    <3>14. TotalLiabilities(loaded) = TotalLiabilities(grown)
      BY <3>11 DEF TotalLiabilities, ToAssetFromDToken
    <3>15. Claims(loaded) <= Claims(r)
      <4>1. TotalLiabilities(r) \in Nat /\ TotalLiabilities(grown) \in Nat
        BY <2>5, TotalsOfReserve
      <4>2. TotalSupply(loaded) \in Nat
        BY <3>12, TotalsOfReserve
      <4>3. gain = accrued - credit /\ accrued = TotalLiabilities(grown) - TotalLiabilities(r)
        BY DEF gain, accrued
      <4>4. loaded.backstop_credit = r.backstop_credit + credit
        BY <2>5, <3>11
      <4> QED BY <1>1, <2>6, <3>1, <3>4, <3>13, <3>14, <4>1, <4>2, <4>3, <4>4 DEF Claims
    <3> QED BY <2>5, <3>3, <3>10, <3>11, <3>12, <3>15 DEF Updated
  <2> QED BY <2>6, <2>8, <2>9 DEF loaded
<1> QED BY <1>2, <1>3, <1>4

---------------------------------------------------------------------------
(* Loading at different times.                                             *)

(* A reserve loaded twice in one ledger is the same the second time,       *)
(* whatever the configuration has become in between.                       *)
LEMMA LoadedIsUpToDate ==
  ASSUME NEW d, NEW c, NEW rate
  PROVE  LoadReserve(d, c, rate, d.last_time) = d
BY Zenon DEF LoadReserve

LEMMA MulCeilGrows ==
  ASSUME NEW x \in Nat, NEW y \in Nat, NEW k \in Nat, NEW s \in Nat \ {0}, x <= y
  PROVE  MulCeil(x, k, s) <= MulCeil(y, k, s)
<1> DEFINE m == x * k
           n == y * k
<1>1. m \in Int /\ n \in Int /\ m <= n
  OBVIOUS
<1> HIDE DEF m, n
<1>2. m + 0 * s <= n /\ 0 \in Int
  BY <1>1
<1>3. CeilDiv(m, s) + 0 <= CeilDiv(n, s)
  BY <1>1, <1>2, CeilStep
<1>4. CeilDiv(m, s) \in Int
  BY <1>1, CeilBounds
<1> QED BY <1>3, <1>4 DEF MulCeil, m, n

LEMMA MulFloorGrows ==
  ASSUME NEW x \in Nat, NEW y \in Nat, NEW k \in Nat, NEW s \in Nat \ {0}, x <= y
  PROVE  MulFloor(x, k, s) <= MulFloor(y, k, s)
<1> DEFINE m == x * k
           n == y * k
<1>1. m \in Int /\ n \in Int /\ m <= n
  OBVIOUS
<1> HIDE DEF m, n
<1>2. m <= n + 0 * s /\ 0 \in Int
  BY <1>1
<1>3. FloorDiv(m, s) <= FloorDiv(n, s) + 0
  BY <1>1, <1>2, FloorStep
<1>4. FloorDiv(n, s) \in Int
  BY <1>1, FloorBounds
<1> QED BY <1>3, <1>4 DEF MulFloor, m, n

(* Debt grows more in a longer time.                                       *)
LEMMA AccrualGrows ==
  ASSUME NEW c \in ReserveConfigs, NEW util \in 1..SCALAR_7, NEW irMod \in Nat,
         NEW s \in Nat, NEW t \in Nat, s <= t
  PROVE  LoanAccrual(c, util, irMod, s) <= LoanAccrual(c, util, irMod, t)
<1> DEFINE v == (s * SCALAR_12) \div SECONDS_PER_YEAR
           w == (t * SCALAR_12) \div SECONDS_PER_YEAR
           k == CurrentRate(c, util, irMod)
<1>1. SCALAR_7 \in Nat \ {0} /\ SCALAR_12 \in Nat \ {0} /\ SECONDS_PER_YEAR \in Nat \ {0}
  BY ScalarAssumption
<1>2. k \in Nat
  BY CurrentRateIsNat
<1>3. MulFloor(s, SCALAR_12, SECONDS_PER_YEAR) <= MulFloor(t, SCALAR_12, SECONDS_PER_YEAR)
  <2>1. SCALAR_12 \in Nat
    BY <1>1
  <2> QED BY <1>1, <2>1, MulFloorGrows
<1>4. v \in Nat /\ w \in Nat /\ v <= w
  <2>1. s * SCALAR_12 \in Nat /\ t * SCALAR_12 \in Nat
    BY <1>1
  <2>2. v \in Nat /\ w \in Nat
    BY <1>1, <2>1, FloorOfNat DEF FloorDiv
  <2> QED BY <1>3, <2>2 DEF MulFloor, FloorDiv
<1> HIDE DEF v, w, k
<1>5. MulCeil(v, k, SCALAR_7) <= MulCeil(w, k, SCALAR_7)
  BY <1>1, <1>2, <1>4, MulCeilGrows
<1>6. MulCeil(v, k, SCALAR_7) \in Int /\ MulCeil(w, k, SCALAR_7) \in Int
  BY <1>1, <1>2, <1>4, RoundingOfInt
<1> QED BY <1>1, <1>5, <1>6 DEF LoanAccrual, v, w, k

(* What Reserve::load makes of the backstop's credit.                      *)
GrownDebt(r, c, time) ==
  MulCeil(LoanAccrual(c, Utilization(r), r.ir_mod, time - r.last_time),
          r.d_rate, SCALAR_12)

NewDebt(r, c, time) ==
  MulCeil(r.d_supply, GrownDebt(r, c, time), SCALAR_12) - TotalLiabilities(r)

LEMMA CreditOfLoaded ==
  ASSUME NEW r \in ReserveDatas, NEW c \in ReserveConfigs,
         NEW rate \in 0..(SCALAR_7 - 1), NEW time \in Nat, r.last_time < time,
         r.b_supply # 0, Utilization(r) # 0
  PROVE  LoadReserve(r, c, rate, time).backstop_credit
           = IF NewDebt(r, c, time) <= 0 THEN r.backstop_credit
             ELSE r.backstop_credit + MulFloor(NewDebt(r, c, time), rate, SCALAR_7)
<1> DEFINE util  == Utilization(r)
           dt    == time - r.last_time
           grown == [r EXCEPT
                       !.d_rate = MulCeil(LoanAccrual(c, util, r.ir_mod, dt),
                                          @, SCALAR_12),
                       !.ir_mod = NextIrMod(c, util, @, dt)]
           accrued == TotalLiabilities(grown) - TotalLiabilities(r)
           a == Accrue(grown, TotalSupply(r), accrued, rate)
<1>1. time # r.last_time
  BY DEF ReserveDatas
<1>2. LoadReserve(r, c, rate, time) = [a EXCEPT !.last_time = time]
  BY <1>1 DEF LoadReserve
<1>3. /\ grown.d_rate = GrownDebt(r, c, time)
      /\ grown.d_supply = r.d_supply
      /\ grown.backstop_credit = r.backstop_credit
  BY DEF ReserveDatas, GrownDebt
<1>4. accrued = NewDebt(r, c, time)
  BY <1>3 DEF NewDebt, TotalLiabilities, ToAssetFromDToken
<1>5. "backstop_credit" \in DOMAIN grown
  BY DEF ReserveDatas
<1> HIDE DEF grown, accrued
<1>6. a.backstop_credit = IF accrued <= 0 THEN grown.backstop_credit
                          ELSE grown.backstop_credit + MulFloor(accrued, rate, SCALAR_7)
  BY <1>5 DEF Accrue
<1>7. [a EXCEPT !.last_time = time].backstop_credit = a.backstop_credit
  OBVIOUS
<1> QED BY <1>2, <1>3, <1>4, <1>6, <1>7

(* The later a reserve is loaded, the more it owes the backstop: nothing   *)
(* is lost by not storing a credit for a time.                             *)
THEOREM CreditGrowsWithTime ==
  ASSUME NEW r \in ReserveDatas, NEW c \in ReserveConfigs,
         NEW rate \in 0..(SCALAR_7 - 1), NEW s \in Nat, NEW t \in Nat,
         r.last_time <= s, s <= t
  PROVE  LoadReserve(r, c, rate, s).backstop_credit
           <= LoadReserve(r, c, rate, t).backstop_credit
<1>1. /\ r.last_time \in Nat /\ r.d_rate \in Nat /\ r.d_supply \in Nat
      /\ r.ir_mod \in Nat /\ r.backstop_credit \in Nat
      /\ SCALAR_12 \in Nat \ {0} /\ SCALAR_7 \in Nat \ {0} /\ rate \in Nat
  BY ScalarAssumption DEF ReserveDatas
<1>2. CASE s = r.last_time
  <2>1. LoadReserve(r, c, rate, s) = r
    BY <1>2, LoadedIsUpToDate
  <2>2. Updated(r, LoadReserve(r, c, rate, t), t)
    <3>1. r.last_time <= t
      BY <1>1
    <3> QED BY <3>1, LoadingUpdates
  <2> QED BY <2>1, <2>2, <1>1 DEF Updated, ReserveDatas
<1>3. CASE s # r.last_time /\ (r.b_supply = 0 \/ Utilization(r) = 0)
  <2>1. s # r.last_time /\ t # r.last_time
    BY <1>1, <1>3
  <2>2. /\ LoadReserve(r, c, rate, s) = [r EXCEPT !.last_time = s]
        /\ LoadReserve(r, c, rate, t) = [r EXCEPT !.last_time = t]
    BY <1>3, <2>1 DEF LoadReserve
  <2>3. /\ [r EXCEPT !.last_time = s].backstop_credit = r.backstop_credit
        /\ [r EXCEPT !.last_time = t].backstop_credit = r.backstop_credit
    BY DEF ReserveDatas
  <2> QED BY <2>2, <2>3, <1>1
<1>4. CASE s # r.last_time /\ r.b_supply # 0 /\ Utilization(r) # 0
  <2> DEFINE util == Utilization(r)
             x == GrownDebt(r, c, s)
             y == GrownDebt(r, c, t)
             m == NewDebt(r, c, s)
             n == NewDebt(r, c, t)
             f == MulFloor(m, rate, SCALAR_7)
             g == MulFloor(n, rate, SCALAR_7)
  <2>1. r.last_time < s /\ r.last_time < t
    BY <1>1, <1>4
  <2>2. /\ s - r.last_time \in Nat /\ t - r.last_time \in Nat
        /\ s - r.last_time <= t - r.last_time
    BY <1>1, <2>1
  <2>3. util \in 1..SCALAR_7
    BY <1>1, <1>4, UtilizationIsShare
  <2>4. /\ LoanAccrual(c, util, r.ir_mod, s - r.last_time) \in Nat
        /\ LoanAccrual(c, util, r.ir_mod, t - r.last_time) \in Nat
    BY <1>1, <2>2, <2>3, LoanAccrualIsGrowth
  <2>5. LoanAccrual(c, util, r.ir_mod, s - r.last_time)
          <= LoanAccrual(c, util, r.ir_mod, t - r.last_time)
    BY <1>1, <2>2, <2>3, AccrualGrows
  <2>6. x \in Nat /\ y \in Nat /\ x <= y
    <3>1. x \in Nat /\ y \in Nat
      BY <1>1, <2>4, RoundingOfNat DEF GrownDebt
    <3>2. x <= y
      BY <1>1, <2>4, <2>5, MulCeilGrows DEF GrownDebt
    <3> QED BY <3>1, <3>2
  <2>7. m \in Int /\ n \in Int /\ m <= n
    <3> DEFINE k == r.d_supply * x
               l == r.d_supply * y
    <3>1. k \in Nat /\ l \in Nat /\ k <= l
      <4> HIDE DEF x, y
      <4> QED BY <1>1, <2>6
    <3> HIDE DEF k, l
    <3>2. k \in Int /\ l \in Int /\ 0 \in Int /\ k + 0 * SCALAR_12 <= l
      BY <1>1, <3>1
    <3>3. CeilDiv(k, SCALAR_12) + 0 <= CeilDiv(l, SCALAR_12)
      BY <1>1, <3>2, CeilStep
    <3>4. CeilDiv(k, SCALAR_12) \in Int /\ CeilDiv(l, SCALAR_12) \in Int
      BY <1>1, <3>2, CeilBounds
    <3>5. TotalLiabilities(r) \in Nat
      BY TotalsOfReserve
    <3>6. /\ m = CeilDiv(k, SCALAR_12) - TotalLiabilities(r)
          /\ n = CeilDiv(l, SCALAR_12) - TotalLiabilities(r)
      BY DEF NewDebt, MulCeil, k, l
    <3> HIDE DEF m, n
    <3> QED BY <3>3, <3>4, <3>5, <3>6
  <2>8. /\ LoadReserve(r, c, rate, s).backstop_credit
             = IF m <= 0 THEN r.backstop_credit ELSE r.backstop_credit + f
        /\ LoadReserve(r, c, rate, t).backstop_credit
             = IF n <= 0 THEN r.backstop_credit ELSE r.backstop_credit + g
    BY <1>4, <2>1, CreditOfLoaded
  <2> HIDE DEF m, n
  <2>9. m > 0 => f \in Nat /\ g \in Nat /\ f <= g
    <3> SUFFICES ASSUME m > 0 PROVE f \in Nat /\ g \in Nat /\ f <= g
      OBVIOUS
    <3>1. m \in Nat /\ n \in Nat /\ m <= n
      BY <2>7
    <3>2. f \in Nat /\ g \in Nat
      BY <1>1, <3>1, RoundingOfNat
    <3>3. f <= g
      BY <1>1, <3>1, MulFloorGrows
    <3> QED BY <3>2, <3>3
  <2>10. n > 0 => g \in Nat
    <3> SUFFICES ASSUME n > 0 PROVE g \in Nat
      OBVIOUS
    <3>1. n \in Nat
      BY <2>7
    <3> QED BY <1>1, <3>1, RoundingOfNat
  <2> HIDE DEF f, g
  <2> QED BY <1>1, <2>7, <2>8, <2>9, <2>10
<1> QED BY <1>2, <1>3, <1>4
=============================================================================
