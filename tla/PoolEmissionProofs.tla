------------------------- MODULE PoolEmissionProofs -------------------------
(***************************************************************************)
(* A pool's allowance at the backstop, with what was left of allowances    *)
(* when they expired, covers all its holders have earned and all its       *)
(* streams have still to emit: EmissionsAreFunded, for any tokens, holders,*)
(* balances, shares, gulps, times and lives of an allowance.               *)
(*                                                                         *)
(* The sum of what could be claimed is not an invariant to work with: it   *)
(* is rounded down for each holder, so that emissions of less than a unit  *)
(* for each may raise it by a unit for each.  The argument follows what is *)
(* owed to the fraction, in units of 1 / (SCALAR * SCALAR_7) of a token.   *)
(* By it the index rises by no more than was emitted, and every rounding,  *)
(* of an index, a settlement, a rate or a part, takes away from it.        *)
(*                                                                         *)
(* Every holder is paid no less than what it held has earned, and exactly  *)
(* that where the shares come out even: PaidForWhatWasHeld.  AccountInv    *)
(* relates the histories of what was held, second by second, to the        *)
(* indices.                                                                *)
(***************************************************************************)
EXTENDS PoolEmissions, ArithmeticProofs

---------------------------------------------------------------------------
UserDatas == [index : Nat, accrued : Nat]

Indices(us)  == [h \in Holders |-> us[h].index]
Accruals(us) == [h \in Holders |-> us[h].accrued]

(* What the holders us of balances bs are owed by the index of d.          *)
OwedNow(d, us, bs) ==
  OwedAt(Holders, Accruals(us), bs, Indices(us), d.index, Unit)

(* What d has still to emit.                                               *)
Still(d) ==
  IF d.last_time < d.expiration
  THEN d.eps * (d.expiration - d.last_time) * SCALAR ELSE 0

OwedExactly(d, us, bs) == Total(OwedNow(d, us, bs)) + Still(d)

(* The data of one token: no holder is ahead of the index, and the index   *)
(* is not ahead of the time.                                               *)
InStep(d, us, bs) ==
  /\ d \in EmissionDatas /\ d.last_time <= now
  /\ us \in [Holders -> UserDatas] /\ bs \in [Holders -> Nat]
  /\ \A h \in Holders : us[h].index <= d.index

(* What the backstop approved and no claim has taken, expired or not.      *)
Funds == allowance + lapsed

EmissionInv ==
  /\ now \in Nat /\ allowance \in Nat /\ lapsed \in Nat
  /\ balance \in [Tokens -> [Holders -> Nat]]
  /\ emis \in [Tokens -> EmissionDatas]
  /\ user \in [Tokens -> [Holders -> UserDatas]]
  /\ DOMAIN shares \subseteq Tokens
  /\ \A t \in DOMAIN shares : shares[t] \in Nat \ {0}
  /\ \A t \in Tokens : InStep(emis[t], user[t], balance[t])
  /\ Total([t \in Tokens |-> OwedExactly(emis[t], user[t], balance[t])])
       <= Funds * Unit

LEMMA UnitIsNat ==
  /\ SCALAR \in Nat \ {0} /\ SCALAR_7 \in Nat \ {0} /\ Unit \in Nat \ {0}
  /\ SECONDS_PER_WEEK \in Nat \ {0}
<1>1. /\ SCALAR \in Nat \ {0} /\ SCALAR_7 \in Nat \ {0}
      /\ SECONDS_PER_WEEK \in Nat \ {0}
  BY PoolEmissionsAssumption, EmissionDataAssumption
<1> QED BY <1>1 DEF Unit

LEMMA OwedIsCount ==
  ASSUME NEW d, NEW us, NEW bs, InStep(d, us, bs)
  PROVE  /\ OwedNow(d, us, bs) \in [Holders -> Nat]
         /\ Total(OwedNow(d, us, bs)) \in Nat
         /\ Still(d) \in Nat
         /\ OwedExactly(d, us, bs) \in Nat
<1>1. /\ Accruals(us) \in [Holders -> Nat] /\ Indices(us) \in [Holders -> Nat]
      /\ bs \in [Holders -> Nat] /\ d.index \in Nat
      /\ \A h \in Holders : Indices(us)[h] <= d.index
  BY DEF InStep, Accruals, Indices, UserDatas, EmissionDatas
<1>2. OwedNow(d, us, bs) \in [Holders -> Nat]
  BY <1>1, UnitIsNat, OwedIsNat DEF OwedNow
<1>3. Total(OwedNow(d, us, bs)) \in Nat
  BY <1>2, TotalIsCount, PoolEmissionsAssumption
<1>4. Still(d) \in Nat
  <2>1. d.eps \in Nat /\ d.expiration \in Nat /\ d.last_time \in Nat /\ SCALAR \in Nat
    BY UnitIsNat DEF InStep, EmissionDatas
  <2>2. d.last_time < d.expiration => d.eps * (d.expiration - d.last_time) \in Nat
    BY <2>1
  <2> QED BY <2>1, <2>2 DEF Still
<1> QED BY <1>2, <1>3, <1>4 DEF OwedExactly

---------------------------------------------------------------------------
(* update_emission_data: the index rises by no more than was emitted.      *)
LEMMA UpdatedIsCovered ==
  ASSUME EmissionInv, NEW t \in Tokens
  PROVE  /\ InStep(Updated(t), user[t], balance[t])
         /\ Updated(t).index >= emis[t].index
         /\ OwedExactly(Updated(t), user[t], balance[t])
              <= OwedExactly(emis[t], user[t], balance[t])
<1> DEFINE d == emis[t]
           us == user[t]
           bs == balance[t]
           e == Updated(t)
<1>1. InStep(d, us, bs) /\ now \in Nat
  BY DEF EmissionInv
<1>2. /\ d.eps \in Nat /\ d.expiration \in Nat /\ d.index \in Nat /\ d.last_time \in Nat
      /\ d.last_time <= now
  BY <1>1 DEF InStep, EmissionDatas
<1>3. CASE ~(Emitting(d, now) /\ Supply(t) # 0)
  <2>1. e = d
    BY <1>3 DEF Updated
  <2>2. OwedExactly(d, us, bs) \in Nat
    BY <1>1, OwedIsCount
  <2> HIDE DEF d, us, bs, e
  <2> QED BY <1>1, <1>2, <2>1, <2>2 DEF d, us, bs, e
<1>4. CASE Emitting(d, now) /\ Supply(t) # 0
  <2> DEFINE b == Supply(t)
             m == Emitted(d, now)
             step == FloorDiv(m * SCALAR, b)
             last == MinOf(now, d.expiration)
  <2>1. d.last_time < d.expiration
    BY <1>4 DEF Emitting
  <2>2. /\ last \in Nat /\ last <= now /\ last <= d.expiration /\ d.last_time <= last
        /\ last - d.last_time \in Nat
    BY <1>1, <1>2, <2>1 DEF MinOf
  <2>3. m \in Nat /\ m = (last - d.last_time) * d.eps
    <3>1. m = (last - d.last_time) * d.eps
      BY DEF Emitted
    <3> HIDE DEF m, last
    <3> QED BY <1>2, <2>2, <3>1
  <2>4. b \in Nat \ {0} /\ b = Total(bs)
    <3>1. bs \in [Holders -> Nat]
      BY <1>1 DEF InStep
    <3>2. Total(bs) \in Nat
      BY <3>1, TotalIsCount, PoolEmissionsAssumption
    <3> QED BY <1>4, <3>2 DEF Supply
  <2> HIDE DEF b, m
  <2>5. step \in Nat /\ step * b <= m * SCALAR
    <3> DEFINE n == m * SCALAR
    <3>1. n \in Nat /\ n \in Int
      BY <2>3, UnitIsNat
    <3> HIDE DEF n
    <3>2. FloorDiv(n, b) \in Nat /\ FloorDiv(n, b) * b <= n
      BY <2>4, <3>1, FloorOfNat, FloorBounds
    <3> QED BY <3>2 DEF n
  <2>6. e = [d EXCEPT !.index = @ + step, !.last_time = last]
    BY <1>4 DEF Updated, DivFloor, b, m
  <2> HIDE DEF step, last
  <2>7. /\ e \in EmissionDatas /\ e.eps = d.eps /\ e.expiration = d.expiration
        /\ e.index = d.index + step /\ e.last_time = last
    <3>1. d.index + step \in Nat /\ last \in Nat
      BY <1>2, <2>2, <2>5
    <3>2. d \in EmissionDatas
      BY <1>1 DEF InStep
    <3> HIDE DEF d, e
    <3> QED BY <2>6, <3>1, <3>2 DEF EmissionDatas
  <2>8. InStep(e, us, bs) /\ e.index >= d.index
    <3>1. \A h \in Holders : us[h].index \in Nat /\ us[h].index <= d.index
      BY <1>1 DEF InStep, UserDatas
    <3>2. e.index >= d.index /\ \A h \in Holders : us[h].index <= e.index
      BY <1>2, <2>5, <2>7, <3>1
    <3> QED BY <1>1, <2>2, <2>7, <3>2 DEF InStep
  <2>9. Total(OwedNow(e, us, bs)) <= Total(OwedNow(d, us, bs)) + m * SCALAR
    <3>1. /\ Accruals(us) \in [Holders -> Nat] /\ Indices(us) \in [Holders -> Nat]
          /\ bs \in [Holders -> Nat]
          /\ \A h \in Holders : Indices(us)[h] <= d.index
      BY <1>1 DEF InStep, Accruals, Indices, UserDatas
    <3>2. Unit \in Nat /\ m * SCALAR \in Nat /\ d.index \in Nat
      BY <1>2, <2>3, UnitIsNat
    <3>3. IsFiniteSet(Holders)
      BY PoolEmissionsAssumption
    <3>4. step * Total(bs) <= m * SCALAR
      BY <2>4, <2>5
    <3> HIDE DEF d, us, bs, e
    <3>5. Total(OwedAt(Holders, Accruals(us), bs, Indices(us), d.index + step, Unit))
            <= Total(OwedAt(Holders, Accruals(us), bs, Indices(us), d.index, Unit)) + m * SCALAR
      BY <2>5, <3>1, <3>2, <3>3, <3>4, IndexStep
    <3> QED BY <2>7, <3>5 DEF OwedNow
  <2>10. Still(d) = Still(e) + m * SCALAR
    <3>1. Still(d) = d.eps * (d.expiration - d.last_time) * SCALAR
      BY <2>1 DEF Still
    <3>2. Still(e) = d.eps * (d.expiration - last) * SCALAR
      <4>1. CASE last < d.expiration
        BY <2>7, <4>1 DEF Still
      <4>2. CASE last = d.expiration
        <5>1. Still(e) = 0
          BY <1>2, <2>7, <4>2 DEF Still
        <5>2. d.eps * (d.expiration - last) * SCALAR = 0
          BY <1>2, <4>2, UnitIsNat
        <5> QED BY <5>1, <5>2
      <4> QED BY <1>2, <2>2, <4>1, <4>2
    <3>3. d.eps * (d.expiration - d.last_time)
            = d.eps * (d.expiration - last) + (last - d.last_time) * d.eps
      <4> HIDE DEF d
      <4> QED BY <1>2, <2>2
    <3> DEFINE x == d.eps * (d.expiration - last)
               y == d.eps * (d.expiration - d.last_time)
    <3>4. x \in Int /\ y \in Int /\ y = x + m
      BY <1>2, <2>2, <2>3, <3>3
    <3> HIDE DEF x, y
    <3>5. y * SCALAR = x * SCALAR + m * SCALAR
      BY <2>3, <3>4, UnitIsNat
    <3> QED BY <3>1, <3>2, <3>5 DEF x, y
  <2>11. /\ Total(OwedNow(d, us, bs)) \in Nat /\ Total(OwedNow(e, us, bs)) \in Nat
         /\ Still(d) \in Nat /\ Still(e) \in Nat /\ m * SCALAR \in Nat
    BY <1>1, <2>3, <2>8, OwedIsCount, UnitIsNat
  <2>12. OwedExactly(e, us, bs) <= OwedExactly(d, us, bs)
    <3> HIDE DEF d, us, bs, e
    <3> QED BY <2>9, <2>10, <2>11 DEF OwedExactly
  <2> QED BY <2>8, <2>12
<1> QED BY <1>3, <1>4

---------------------------------------------------------------------------
(* Only one holder's data change: what is owed changes with them.          *)
LEMMA OneHolder ==
  ASSUME NEW d, NEW us, NEW bs, InStep(d, us, bs),
         NEW vs, NEW cs, InStep(d, vs, cs),
         NEW h \in Holders, \A g \in Holders \ {h} : vs[g] = us[g] /\ cs[g] = bs[g],
         NEW x \in Nat,
         vs[h].accrued * Unit + cs[h] * (d.index - vs[h].index) + x
           <= us[h].accrued * Unit + bs[h] * (d.index - us[h].index)
  PROVE  OwedExactly(d, vs, cs) + x <= OwedExactly(d, us, bs)
<1> DEFINE f == OwedNow(d, us, bs)
           g == OwedNow(d, vs, cs)
<1>1. f \in [Holders -> Nat] /\ g \in [Holders -> Nat]
  BY OwedIsCount
<1>2. /\ \A y \in Holders : f[y] = us[y].accrued * Unit + bs[y] * (d.index - us[y].index)
      /\ \A y \in Holders : g[y] = vs[y].accrued * Unit + cs[y] * (d.index - vs[y].index)
  BY DEF OwedNow, OwedAt, Accruals, Indices
<1> HIDE DEF f, g
<1>3. \A y \in Holders \ {h} : f[y] = g[y]
  BY <1>2
<1>4. Total(g) + f[h] = Total(f) + g[h]
  BY <1>1, <1>3, TotalChange, PoolEmissionsAssumption
<1>5. g[h] + x <= f[h]
  BY <1>2
<1>6. /\ Total(f) \in Nat /\ Total(g) \in Nat /\ Still(d) \in Nat
      /\ f[h] \in Nat /\ g[h] \in Nat
  BY <1>1, OwedIsCount DEF f, g
<1> QED BY <1>4, <1>5, <1>6 DEF OwedExactly, f, g

(* What is settled is what is owed, rounded down.                          *)
LEMMA SettledIsLess ==
  ASSUME NEW d, NEW us, NEW bs, InStep(d, us, bs), NEW h \in Holders
  PROVE  /\ Settled(us[h], d, bs[h], SCALAR).accrued \in Nat
         /\ Settled(us[h], d, bs[h], SCALAR).index = d.index
         /\ Settled(us[h], d, bs[h], SCALAR) \in UserDatas
         /\ Settled(us[h], d, bs[h], SCALAR).accrued * Unit
              <= us[h].accrued * Unit + bs[h] * (d.index - us[h].index)
<1> DEFINE a == us[h].accrued
           n == bs[h] * (d.index - us[h].index)
           q == FloorDiv(n, Unit)
<1>1. /\ a \in Nat /\ bs[h] \in Nat /\ us[h].index \in Nat /\ d.index \in Nat
      /\ us[h].index <= d.index
  BY DEF InStep, UserDatas, EmissionDatas
<1>2. n \in Nat /\ n \in Int
  <2>1. d.index - us[h].index \in Nat
    BY <1>1
  <2> QED BY <1>1, <2>1
<1>3. Settled(us[h], d, bs[h], SCALAR) = [index |-> d.index, accrued |-> a + q]
  BY DEF Settled, MulFloor, Unit
<1> HIDE DEF a, n
<1>4. q \in Nat /\ q * Unit <= n
  BY <1>2, UnitIsNat, FloorOfNat, FloorBounds
<1> HIDE DEF q
<1>5. a + q \in Nat /\ (a + q) * Unit = a * Unit + q * Unit
  BY <1>1, <1>4, UnitIsNat
<1>6. (a + q) * Unit <= a * Unit + n
  <2>1. a * Unit \in Nat /\ q * Unit \in Nat
    BY <1>1, <1>4, UnitIsNat
  <2> QED BY <1>2, <1>4, <1>5, <2>1
<1> QED BY <1>1, <1>3, <1>5, <1>6 DEF UserDatas, a, n

(* update_emissions before a change of the balance.                        *)
LEMMA SettledIsCovered ==
  ASSUME NEW d, NEW us, NEW bs, InStep(d, us, bs), NEW h \in Holders, NEW b \in Nat
  PROVE  LET vs == [us EXCEPT ![h] = Settled(us[h], d, bs[h], SCALAR)]
             cs == [bs EXCEPT ![h] = b]
         IN  InStep(d, vs, cs) /\ OwedExactly(d, vs, cs) <= OwedExactly(d, us, bs)
<1> DEFINE s == Settled(us[h], d, bs[h], SCALAR)
           vs == [us EXCEPT ![h] = s]
           cs == [bs EXCEPT ![h] = b]
<1>1. /\ s \in UserDatas /\ s.index = d.index /\ s.accrued \in Nat
      /\ s.accrued * Unit <= us[h].accrued * Unit + bs[h] * (d.index - us[h].index)
  BY SettledIsLess
<1> HIDE DEF s
<1>2. us \in [Holders -> UserDatas] /\ bs \in [Holders -> Nat] /\ d.index \in Nat
  BY DEF InStep, EmissionDatas
<1>3. /\ vs \in [Holders -> UserDatas] /\ cs \in [Holders -> Nat]
      /\ vs[h] = s /\ cs[h] = b
      /\ \A g \in Holders \ {h} : vs[g] = us[g] /\ cs[g] = bs[g]
  BY <1>1, <1>2
<1> HIDE DEF vs, cs
<1>4. InStep(d, vs, cs)
  <2>1. \A g \in Holders : vs[g].index <= d.index
    BY <1>1, <1>2, <1>3 DEF InStep
  <2> QED BY <1>3, <2>1 DEF InStep
<1>5. vs[h].accrued * Unit + cs[h] * (d.index - vs[h].index) + 0
        <= us[h].accrued * Unit + bs[h] * (d.index - us[h].index)
  <2>1. cs[h] * (d.index - vs[h].index) = 0
    BY <1>1, <1>2, <1>3
  <2>2. s.accrued * Unit \in Nat
    BY <1>1, UnitIsNat
  <2> QED BY <1>1, <1>3, <2>1, <2>2
<1>6. OwedExactly(d, vs, cs) + 0 <= OwedExactly(d, us, bs)
  <2>1. 0 \in Nat
    OBVIOUS
  <2> QED BY <1>3, <1>4, <1>5, <2>1, OneHolder
<1>7. OwedExactly(d, vs, cs) \in Nat
  BY <1>4, OwedIsCount
<1> QED BY <1>4, <1>6, <1>7 DEF vs, cs, s

(* A claim pays no more than it writes off.                                *)
LEMMA ClaimedIsCovered ==
  ASSUME NEW d, NEW us, NEW bs, InStep(d, us, bs), NEW h \in Holders
  PROVE  LET vs == [us EXCEPT ![h] = [index |-> d.index, accrued |-> 0]]
         IN  /\ InStep(d, vs, bs)
             /\ OwedExactly(d, vs, bs) + Settled(us[h], d, bs[h], SCALAR).accrued * Unit
                  <= OwedExactly(d, us, bs)
<1> DEFINE s == Settled(us[h], d, bs[h], SCALAR).accrued
           v == [index |-> d.index, accrued |-> 0]
           vs == [us EXCEPT ![h] = v]
           x == s * Unit
<1>1. /\ s \in Nat
      /\ s * Unit <= us[h].accrued * Unit + bs[h] * (d.index - us[h].index)
  BY SettledIsLess
<1> HIDE DEF s
<1>2. us \in [Holders -> UserDatas] /\ bs \in [Holders -> Nat] /\ d.index \in Nat
  BY DEF InStep, EmissionDatas
<1>3. v \in UserDatas /\ v.index = d.index /\ v.accrued = 0
  BY <1>2 DEF UserDatas
<1> HIDE DEF v
<1>4. /\ vs \in [Holders -> UserDatas] /\ vs[h] = v
      /\ \A g \in Holders \ {h} : vs[g] = us[g] /\ bs[g] = bs[g]
  BY <1>2, <1>3
<1> HIDE DEF vs
<1>5. InStep(d, vs, bs)
  <2>1. \A g \in Holders : vs[g].index <= d.index
    BY <1>2, <1>3, <1>4 DEF InStep
  <2> QED BY <1>4, <2>1 DEF InStep
<1>6. x \in Nat
  BY <1>1, UnitIsNat
<1>7. vs[h].accrued * Unit + bs[h] * (d.index - vs[h].index) + x
        <= us[h].accrued * Unit + bs[h] * (d.index - us[h].index)
  <2>1. bs[h] * (d.index - vs[h].index) = 0
    BY <1>2, <1>3, <1>4
  <2>2. vs[h].accrued * Unit = 0
    BY <1>3, <1>4, UnitIsNat
  <2> QED BY <1>1, <1>6, <2>1, <2>2
<1>8. OwedExactly(d, vs, bs) + x <= OwedExactly(d, us, bs)
  <2> HIDE DEF x
  <2> QED BY <1>4, <1>5, <1>6, <1>7, OneHolder
<1> QED BY <1>5, <1>8 DEF vs, v, s

(* A stream renewed with n tokens emits at most n more than it would have. *)
LEMMA RenewedIsCovered ==
  ASSUME now \in Nat, NEW d, NEW us, NEW bs, InStep(d, us, bs), NEW n \in Nat
  PROVE  /\ InStep(Renewed(d, n, now), us, bs)
         /\ OwedExactly(Renewed(d, n, now), us, bs) <= OwedExactly(d, us, bs) + n * Unit
<1> DEFINE W == SECONDS_PER_WEEK
           u == Unemitted(d, now)
           e == FloorDiv((n + u) * SCALAR_7, W)
           r == Renewed(d, n, now)
<1>1. /\ d.eps \in Nat /\ d.expiration \in Nat /\ d.index \in Nat /\ d.last_time \in Nat
      /\ d.last_time <= now /\ d \in EmissionDatas
  BY DEF InStep, EmissionDatas
<1>2. W \in Nat \ {0} /\ SCALAR_7 \in Nat \ {0} /\ SCALAR \in Nat \ {0}
  BY UnitIsNat
<1>3. u \in Nat /\ u * Unit <= Still(d)
  <2>1. CASE d.expiration <= now
    <3>1. u = 0
      BY <1>1, <2>1 DEF Unemitted
    <3>2. Still(d) \in Nat
      BY OwedIsCount
    <3> QED BY <3>1, <3>2, UnitIsNat
  <2>2. CASE d.expiration > now
    <3> DEFINE m == d.eps * (d.expiration - now)
               k == d.eps * (d.expiration - d.last_time)
    <3>1. u = FloorDiv(m, SCALAR_7)
      BY <2>2 DEF Unemitted, MulFloor
    <3>2. Still(d) = k * SCALAR
      <4>1. d.last_time < d.expiration
        BY <1>1, <2>2
      <4> QED BY <4>1 DEF Still
    <3>3. m \in Nat /\ k \in Nat /\ m <= k
      <4>1. /\ d.expiration - now \in Nat /\ d.expiration - d.last_time \in Nat
            /\ d.expiration - now <= d.expiration - d.last_time
        BY <1>1, <2>2
      <4> DEFINE y == d.expiration - now
                 z == d.expiration - d.last_time
      <4> HIDE DEF y, z
      <4>2. y \in Nat /\ z \in Nat /\ y <= z
        BY <4>1 DEF y, z
      <4>3. d.eps * y \in Nat /\ d.eps * z \in Nat /\ d.eps * y <= d.eps * z
        BY <1>1, <4>2
      <4> QED BY <4>3 DEF y, z
    <3> HIDE DEF m, k, u
    <3>4. u \in Nat /\ u * SCALAR_7 <= m
      <4>1. m \in Int
        BY <3>3
      <4> QED BY <1>2, <3>1, <3>3, <4>1, FloorOfNat, FloorBounds
    <3>5. u * SCALAR_7 \in Nat /\ u * SCALAR_7 <= k
      BY <1>2, <3>3, <3>4
    <3>6. (u * SCALAR_7) * SCALAR <= k * SCALAR
      <4> DEFINE y == u * SCALAR_7
      <4>1. y \in Nat /\ y <= k
        BY <3>5
      <4> HIDE DEF y
      <4>2. y * SCALAR <= k * SCALAR
        BY <1>2, <3>3, <4>1
      <4> QED BY <4>2 DEF y
    <3>7. (u * SCALAR_7) * SCALAR = u * Unit
      BY <1>2, <3>4 DEF Unit
    <3> QED BY <3>2, <3>4, <3>6, <3>7
  <2> QED BY <1>1, <2>1, <2>2
<1> HIDE DEF u
<1>4. e \in Nat /\ e * W <= (n + u) * SCALAR_7
  <2> DEFINE m == (n + u) * SCALAR_7
  <2>1. m \in Nat /\ m \in Int
    BY <1>2, <1>3
  <2> HIDE DEF m
  <2>2. FloorDiv(m, W) \in Nat /\ FloorDiv(m, W) * W <= m
    BY <1>2, <2>1, FloorOfNat, FloorBounds
  <2> QED BY <2>2 DEF m
<1>5. r = [d EXCEPT !.last_time = now, !.expiration = now + W, !.eps = e]
  BY DEF Renewed, u, FloorDiv
<1> HIDE DEF e
<1>6. /\ r \in EmissionDatas /\ r.index = d.index /\ r.last_time = now
      /\ r.expiration = now + W /\ r.eps = e
  <2>1. now + W \in Nat
    BY <1>2
  <2> HIDE DEF r, W
  <2> QED BY <1>1, <1>4, <1>5, <2>1 DEF EmissionDatas
<1> HIDE DEF r
<1>7. InStep(r, us, bs)
  BY <1>6 DEF InStep
<1>8. OwedNow(r, us, bs) = OwedNow(d, us, bs)
  BY <1>6 DEF OwedNow
<1>9. Still(r) = (e * W) * SCALAR
  <2>1. r.last_time < r.expiration /\ r.expiration - r.last_time = W
    BY <1>2, <1>6
  <2> QED BY <1>6, <2>1 DEF Still
<1>10. (e * W) * SCALAR <= (n + u) * Unit
  <2> DEFINE y == e * W
             z == (n + u) * SCALAR_7
  <2>1. y \in Nat /\ z \in Nat /\ y <= z
    BY <1>2, <1>3, <1>4
  <2>2. z * SCALAR = (n + u) * Unit
    BY <1>2, <1>3 DEF Unit
  <2> HIDE DEF y, z
  <2>3. y * SCALAR <= z * SCALAR
    BY <1>2, <2>1
  <2> QED BY <2>2, <2>3 DEF y
<1>11. (n + u) * Unit <= n * Unit + Still(d)
  <2>1. (n + u) * Unit = n * Unit + u * Unit
    BY <1>3, UnitIsNat
  <2>2. n * Unit \in Nat /\ u * Unit \in Nat /\ Still(d) \in Nat
    BY <1>3, UnitIsNat, OwedIsCount
  <2> QED BY <1>3, <2>1, <2>2
<1>12. /\ Total(OwedNow(d, us, bs)) \in Nat /\ Still(d) \in Nat /\ Still(r) \in Nat
       /\ n * Unit \in Nat /\ (n + u) * Unit \in Nat
  BY <1>3, <1>7, OwedIsCount, UnitIsNat
<1>13. Still(r) <= n * Unit + Still(d)
  BY <1>9, <1>10, <1>11, <1>12
<1>14. OwedExactly(r, us, bs) <= OwedExactly(d, us, bs) + n * Unit
  BY <1>8, <1>12, <1>13 DEF OwedExactly
<1> QED BY <1>7, <1>14 DEF r

---------------------------------------------------------------------------
(* The actions.  A step may raise what is owed for a token by what it      *)
(* gains and must lower it by what is paid; the funds follow.              *)
LEMMA OwedFollows ==
  ASSUME EmissionInv, now' \in Nat, allowance' \in Nat, lapsed' \in Nat,
         balance' \in [Tokens -> [Holders -> Nat]],
         emis' \in [Tokens -> EmissionDatas],
         user' \in [Tokens -> [Holders -> UserDatas]],
         DOMAIN shares' \subseteq Tokens,
         \A t \in DOMAIN shares' : shares'[t] \in Nat \ {0},
         \A t \in Tokens : InStep(emis[t], user[t], balance[t])',
         NEW gained \in [Tokens -> Nat], NEW paid \in [Tokens -> Nat],
         \A t \in Tokens :
           OwedExactly(emis'[t], user'[t], balance'[t]) + paid[t] * Unit
             <= OwedExactly(emis[t], user[t], balance[t]) + gained[t] * Unit,
         Funds + Total(gained) <= Funds' + Total(paid)
  PROVE  EmissionInv'
<1> DEFINE F == [t \in Tokens |-> OwedExactly(emis[t], user[t], balance[t])]
           G == [t \in Tokens |-> OwedExactly(emis'[t], user'[t], balance'[t])]
           f == [t \in Tokens |-> Unit * gained[t]]
           g == [t \in Tokens |-> Unit * paid[t]]
<1>1. IsFiniteSet(Tokens) /\ Unit \in Nat /\ Unit \in Nat \ {0}
  BY PoolEmissionsAssumption, UnitIsNat
<1>2. F \in [Tokens -> Nat]
  <2>1. \A t \in Tokens : InStep(emis[t], user[t], balance[t])
    BY DEF EmissionInv
  <2> QED BY <2>1, OwedIsCount
<1>3. G \in [Tokens -> Nat]
  <2> SUFFICES ASSUME NEW t \in Tokens
               PROVE  OwedExactly(emis'[t], user'[t], balance'[t]) \in Nat
    OBVIOUS
  <2>1. InStep(emis[t], user[t], balance[t])'
    OBVIOUS
  <2>2. OwedExactly(emis[t], user[t], balance[t])' \in Nat
    <3>1. /\ emis'[t] \in EmissionDatas /\ user'[t] \in [Holders -> UserDatas]
          /\ balance'[t] \in [Holders -> Nat]
          /\ \A h \in Holders : user'[t][h].index <= emis'[t].index
      BY <2>1 DEF InStep
    <3>2. /\ Accruals(user'[t]) \in [Holders -> Nat] /\ Indices(user'[t]) \in [Holders -> Nat]
          /\ emis'[t].index \in Nat
          /\ \A h \in Holders : Indices(user'[t])[h] <= emis'[t].index
      BY <3>1 DEF Accruals, Indices, UserDatas, EmissionDatas
    <3>3. OwedNow(emis'[t], user'[t], balance'[t]) \in [Holders -> Nat]
      BY <1>1, <3>1, <3>2, OwedIsNat DEF OwedNow
    <3>4. Total(OwedNow(emis'[t], user'[t], balance'[t])) \in Nat
      BY <3>3, TotalIsCount, PoolEmissionsAssumption
    <3>5. Still(emis'[t]) \in Nat
      <4>1. /\ emis'[t].eps \in Nat /\ emis'[t].expiration \in Nat
            /\ emis'[t].last_time \in Nat /\ SCALAR \in Nat
        BY <3>1, UnitIsNat DEF EmissionDatas
      <4> DEFINE eps == emis'[t].eps
                 rest == emis'[t].expiration - emis'[t].last_time
      <4>2. emis'[t].last_time < emis'[t].expiration => rest \in Nat
        BY ONLY <4>1
      <4>3. Still(emis'[t]) = IF emis'[t].last_time < emis'[t].expiration
                              THEN eps * rest * SCALAR ELSE 0
        BY DEF Still
      <4>4. eps \in Nat /\ SCALAR \in Nat
        BY <4>1
      <4> HIDE DEF eps, rest
      <4>5. rest \in Nat => eps * rest * SCALAR \in Nat
        BY ONLY <4>4
      <4> QED BY ONLY <4>2, <4>3, <4>5
    <3> QED BY <3>4, <3>5 DEF OwedExactly
  <2> QED BY <2>2
<1>4. /\ f \in [Tokens -> Nat] /\ Total(f) = Unit * Total(gained)
      /\ g \in [Tokens -> Nat] /\ Total(g) = Unit * Total(paid)
  <2>1. \A t \in Tokens : gained[t] \in Nat /\ paid[t] \in Nat
    OBVIOUS
  <2>2. \A t \in Tokens : Unit * gained[t] \in Nat /\ Unit * paid[t] \in Nat
    BY <1>1, <2>1
  <2> QED BY <1>1, <2>2, TotalScaled
<1>5. \A t \in Tokens : G[t] + g[t] <= F[t] + f[t]
  <2> SUFFICES ASSUME NEW t \in Tokens PROVE G[t] + g[t] <= F[t] + f[t]
    OBVIOUS
  <2>1. OwedExactly(emis'[t], user'[t], balance'[t]) + paid[t] * Unit
          <= OwedExactly(emis[t], user[t], balance[t]) + gained[t] * Unit
    OBVIOUS
  <2>2. paid[t] * Unit = Unit * paid[t] /\ gained[t] * Unit = Unit * gained[t]
    BY <1>1
  <2> QED BY <2>1, <2>2
<1> HIDE DEF F, G, f, g
<1>6. Total(G) <= Funds' * Unit
  <2>1. Total(G) + Total(g) <= Total(F) + Total(f)
    BY <1>1, <1>2, <1>3, <1>4, <1>5, TotalsFollow
  <2>2. Total(F) <= Funds * Unit
    BY DEF EmissionInv, F
  <2>3. /\ Total(F) \in Nat /\ Total(G) \in Nat /\ Total(gained) \in Nat /\ Total(paid) \in Nat
        /\ Funds \in Nat /\ Funds' \in Nat
    BY <1>1, <1>2, <1>3, TotalIsCount DEF EmissionInv, Funds
  <2>4. Total(G) + Unit * Total(paid) <= Total(F) + Unit * Total(gained)
    BY <1>4, <2>1
  <2> QED BY <1>1, <2>2, <2>3, <2>4, FundsFollow
<1>7. Total([t \in Tokens |-> OwedExactly(emis[t], user[t], balance[t])])' <= (Funds * Unit)'
  BY <1>6 DEF G
<1> QED BY <1>7 DEF EmissionInv

None == [t \in Tokens |-> 0]

LEMMA NothingMoves ==
  /\ None \in [Tokens -> Nat] /\ Total(None) = 0
  /\ \A t \in Tokens : None[t] * Unit = 0
<1>1. None \in [Tokens -> Nat] /\ \A t \in Tokens : None[t] = 0
  BY DEF None
<1>2. Total(None) = 0
  BY <1>1, TotalOfZeros, PoolEmissionsAssumption
<1>3. 0 * Unit = 0
  BY UnitIsNat
<1> QED BY <1>1, <1>2, <1>3

LEMMA InitIsFunded == Init => EmissionInv
<1> SUFFICES ASSUME Init PROVE EmissionInv
  OBVIOUS
<1>1. now \in Nat /\ allowance \in Nat /\ lapsed \in Nat /\ Funds = 0
  BY PoolEmissionsAssumption DEF Init, Funds
<1>2. balance \in [Tokens -> [Holders -> Nat]]
  <2>1. UNION {Balances[t] : t \in Tokens} \subseteq Nat
    BY PoolEmissionsAssumption
  <2> QED BY <2>1 DEF Init
<1>3. NoEmissions \in EmissionDatas /\ NothingAccrued \in UserDatas
  BY DEF NoEmissions, NothingAccrued, EmissionDatas, UserDatas
<1>4. emis \in [Tokens -> EmissionDatas] /\ user \in [Tokens -> [Holders -> UserDatas]]
  BY <1>3 DEF Init
<1>5. DOMAIN shares \subseteq Tokens /\ \A t \in DOMAIN shares : shares[t] \in Nat \ {0}
  BY PoolEmissionsAssumption DEF Init
<1>6. ASSUME NEW t \in Tokens
      PROVE  /\ InStep(emis[t], user[t], balance[t])
             /\ OwedExactly(emis[t], user[t], balance[t]) = 0
  <2>1. emis[t] = NoEmissions /\ user[t] = [h \in Holders |-> NothingAccrued]
    BY DEF Init
  <2>2. /\ emis[t].index = 0 /\ emis[t].last_time = 0 /\ emis[t].expiration = 0
        /\ \A h \in Holders : user[t][h].index = 0 /\ user[t][h].accrued = 0
    BY <2>1 DEF NoEmissions, NothingAccrued
  <2>3. emis[t] \in EmissionDatas /\ user[t] \in [Holders -> UserDatas] /\ balance[t] \in [Holders -> Nat]
    BY <1>2, <1>4
  <2>4. InStep(emis[t], user[t], balance[t])
    BY <1>1, <2>2, <2>3 DEF InStep
  <2>5. Still(emis[t]) = 0
    BY <2>2 DEF Still
  <2> DEFINE f == OwedNow(emis[t], user[t], balance[t])
  <2>6. f \in [Holders -> Nat]
    BY <2>4, OwedIsCount
  <2>7. \A h \in Holders : f[h] = 0
    <3> SUFFICES ASSUME NEW h \in Holders PROVE f[h] = 0
      OBVIOUS
    <3>1. f[h] = user[t][h].accrued * Unit + balance[t][h] * (emis[t].index - user[t][h].index)
      BY DEF OwedNow, OwedAt, Accruals, Indices
    <3>2. 0 * Unit = 0 /\ balance[t][h] * (0 - 0) = 0
      BY <2>3, UnitIsNat
    <3> QED BY <2>2, <3>1, <3>2
  <2> HIDE DEF f
  <2>8. Total(f) = 0
    BY <2>6, <2>7, TotalOfZeros, PoolEmissionsAssumption
  <2> QED BY <2>4, <2>5, <2>8 DEF OwedExactly, f
<1>7. Total([t \in Tokens |-> OwedExactly(emis[t], user[t], balance[t])]) <= Funds * Unit
  <2> DEFINE F == [t \in Tokens |-> OwedExactly(emis[t], user[t], balance[t])]
  <2>1. F \in [Tokens -> Nat] /\ \A t \in Tokens : F[t] = 0
    BY <1>6
  <2> HIDE DEF F
  <2>2. Total(F) = 0
    BY <2>1, TotalOfZeros, PoolEmissionsAssumption
  <2>3. Funds * Unit = 0
    BY <1>1, UnitIsNat
  <2> QED BY <2>2, <2>3 DEF F
<1> QED BY <1>1, <1>2, <1>4, <1>5, <1>6, <1>7 DEF EmissionInv

(* The data of a token that a step leaves as they are.                     *)
LEMMA UntouchedToken ==
  ASSUME EmissionInv, now' = now, NEW t \in Tokens,
         emis'[t] = emis[t], user'[t] = user[t], balance'[t] = balance[t]
  PROVE  /\ InStep(emis'[t], user'[t], balance'[t])
         /\ OwedExactly(emis'[t], user'[t], balance'[t])
              <= OwedExactly(emis[t], user[t], balance[t])
<1>1. InStep(emis[t], user[t], balance[t])
  BY DEF EmissionInv
<1>2. OwedExactly(emis[t], user[t], balance[t]) \in Nat
  BY <1>1, OwedIsCount
<1> DEFINE F(d, us, bs) == OwedExactly(d, us, bs)
<1> HIDE DEF F
<1>3. F(emis'[t], user'[t], balance'[t]) = F(emis[t], user[t], balance[t])
  OBVIOUS
<1>4. F(emis[t], user[t], balance[t]) \in Nat
  BY <1>2 DEF F
<1>5. F(emis'[t], user'[t], balance'[t]) <= F(emis[t], user[t], balance[t])
  BY <1>3, <1>4
<1>6. InStep(emis'[t], user'[t], balance'[t])
  BY <1>1 DEF InStep
<1> QED BY <1>5, <1>6 DEF F

(* A step that moves no tokens between the backstop and the pool.          *)
LEMMA NothingPaid ==
  ASSUME EmissionInv, now' = now, allowance' = allowance, lapsed' = lapsed, shares' = shares,
         balance' \in [Tokens -> [Holders -> Nat]],
         emis' \in [Tokens -> EmissionDatas],
         user' \in [Tokens -> [Holders -> UserDatas]],
         \A t \in Tokens :
           /\ InStep(emis'[t], user'[t], balance'[t])
           /\ OwedExactly(emis'[t], user'[t], balance'[t])
                <= OwedExactly(emis[t], user[t], balance[t])
  PROVE  EmissionInv'
<1>1. /\ now' \in Nat /\ allowance' \in Nat /\ lapsed' \in Nat
      /\ Funds \in Nat /\ Funds' = Funds
  BY DEF EmissionInv, Funds
<1>2. DOMAIN shares' \subseteq Tokens /\ \A t \in DOMAIN shares' : shares'[t] \in Nat \ {0}
  BY DEF EmissionInv
<1>3. \A t \in Tokens : InStep(emis[t], user[t], balance[t])'
  BY DEF InStep
<1>4. \A t \in Tokens :
        OwedExactly(emis'[t], user'[t], balance'[t]) + None[t] * Unit
          <= OwedExactly(emis[t], user[t], balance[t]) + None[t] * Unit
  <2> SUFFICES ASSUME NEW t \in Tokens
               PROVE  OwedExactly(emis'[t], user'[t], balance'[t]) + None[t] * Unit
                        <= OwedExactly(emis[t], user[t], balance[t]) + None[t] * Unit
    OBVIOUS
  <2>1. /\ OwedExactly(emis'[t], user'[t], balance'[t]) \in Nat
        /\ OwedExactly(emis[t], user[t], balance[t]) \in Nat
    <3>1. InStep(emis'[t], user'[t], balance'[t])
      OBVIOUS
    <3>2. InStep(emis[t], user[t], balance[t])
      BY DEF EmissionInv
    <3>3. OwedExactly(emis'[t], user'[t], balance'[t]) \in Nat
      BY ONLY <3>1, OwedIsCount
    <3>4. OwedExactly(emis[t], user[t], balance[t]) \in Nat
      BY ONLY <3>2, OwedIsCount
    <3> QED BY <3>3, <3>4
  <2>2. OwedExactly(emis'[t], user'[t], balance'[t])
          <= OwedExactly(emis[t], user[t], balance[t])
    OBVIOUS
  <2> QED BY <2>1, <2>2, NothingMoves
<1>5. Funds + Total(None) <= Funds' + Total(None)
  BY <1>1, NothingMoves
<1> QED BY <1>1, <1>2, <1>3, <1>4, <1>5, NothingMoves, OwedFollows

LEMMA ChangeBalanceFunded ==
  ASSUME EmissionInv, NEW t \in Tokens, NEW h \in Holders, NEW b \in Balances[t],
         ChangeBalance(t, h, b)
  PROVE  EmissionInv'
<1> DEFINE e == Updated(t)
           vs == [user[t] EXCEPT ![h] = Settled(user[t][h], e, balance[t][h], SCALAR)]
           cs == [balance[t] EXCEPT ![h] = b]
<1>1. /\ InStep(e, user[t], balance[t])
      /\ OwedExactly(e, user[t], balance[t]) <= OwedExactly(emis[t], user[t], balance[t])
  BY UpdatedIsCovered
<1>2. b \in Nat
  BY PoolEmissionsAssumption
<1>3. InStep(e, vs, cs) /\ OwedExactly(e, vs, cs) <= OwedExactly(e, user[t], balance[t])
  BY <1>1, <1>2, SettledIsCovered
<1>4. /\ emis \in [Tokens -> EmissionDatas]
      /\ user \in [Tokens -> [Holders -> UserDatas]]
      /\ balance \in [Tokens -> [Holders -> Nat]]
      /\ InStep(emis[t], user[t], balance[t])
  BY DEF EmissionInv
<1>5. /\ emis' = [emis EXCEPT ![t] = e] /\ user' = [user EXCEPT ![t] = vs]
      /\ balance' = [balance EXCEPT ![t] = cs]
      /\ now' = now /\ allowance' = allowance /\ lapsed' = lapsed /\ shares' = shares
  BY <1>4 DEF ChangeBalance, SettledBalance, approval
<1> HIDE DEF e, vs, cs
<1>6. e \in EmissionDatas /\ vs \in [Holders -> UserDatas] /\ cs \in [Holders -> Nat]
  BY <1>3 DEF InStep
<1>7. /\ emis' \in [Tokens -> EmissionDatas] /\ emis'[t] = e
      /\ user' \in [Tokens -> [Holders -> UserDatas]] /\ user'[t] = vs
      /\ balance' \in [Tokens -> [Holders -> Nat]] /\ balance'[t] = cs
      /\ \A y \in Tokens \ {t} :
           emis'[y] = emis[y] /\ user'[y] = user[y] /\ balance'[y] = balance[y]
  BY <1>4, <1>5, <1>6
<1>8. OwedExactly(e, vs, cs) <= OwedExactly(emis[t], user[t], balance[t])
  <2>1. OwedExactly(e, vs, cs) \in Nat
    BY ONLY <1>3, OwedIsCount
  <2>2. OwedExactly(e, user[t], balance[t]) \in Nat
    BY ONLY <1>1, OwedIsCount
  <2>3. OwedExactly(emis[t], user[t], balance[t]) \in Nat
    BY ONLY <1>4, OwedIsCount
  <2> QED BY <1>1, <1>3, <2>1, <2>2, <2>3
<1>9. \A y \in Tokens :
        /\ InStep(emis'[y], user'[y], balance'[y])
        /\ OwedExactly(emis'[y], user'[y], balance'[y])
             <= OwedExactly(emis[y], user[y], balance[y])
  <2> SUFFICES ASSUME NEW y \in Tokens
               PROVE  /\ InStep(emis'[y], user'[y], balance'[y])
                      /\ OwedExactly(emis'[y], user'[y], balance'[y])
                           <= OwedExactly(emis[y], user[y], balance[y])
    OBVIOUS
  <2>1. CASE y = t
    BY ONLY <1>3, <1>7, <1>8, <2>1
  <2>2. CASE y # t
    BY <1>5, <1>7, <2>2, UntouchedToken
  <2> QED BY <2>1, <2>2
<1> QED BY <1>5, <1>7, <1>9, NothingPaid

LEMMA SetPoolEmissionsFunded ==
  ASSUME EmissionInv, NEW s \in Shares, SetPoolEmissions(s)
  PROVE  EmissionInv'
<1>1. /\ DOMAIN shares' \subseteq Tokens
      /\ \A t \in DOMAIN shares' : shares'[t] \in Nat \ {0}
  <2>1. shares' = s /\ DOMAIN s \subseteq Tokens /\ \A t \in DOMAIN s : s[t] \in Nat /\ s[t] # 0
    BY PoolEmissionsAssumption DEF SetPoolEmissions
  <2> QED BY <2>1
<1>2. UNCHANGED <<now, balance, emis, user, allowance, lapsed>>
  BY DEF SetPoolEmissions, approval
<1> QED BY <1>1, <1>2 DEF EmissionInv, Funds, InStep, OwedExactly, OwedNow, Still, Unit

LEMMA ClaimFunded ==
  ASSUME EmissionInv, NEW h \in Holders, NEW T \in SUBSET Tokens, Claim(h, T)
  PROVE  EmissionInv'
<1> DEFINE claims == [t \in T |-> ClaimOf(t, h)]
           paid == [t \in Tokens |-> IF t \in T THEN claims[t] ELSE 0]
           vs(t) == [user[t] EXCEPT ![h] = [index |-> Updated(t).index, accrued |-> 0]]
<1>1. /\ emis \in [Tokens -> EmissionDatas]
      /\ user \in [Tokens -> [Holders -> UserDatas]]
      /\ balance \in [Tokens -> [Holders -> Nat]]
      /\ now \in Nat /\ allowance \in Nat /\ lapsed \in Nat
      /\ \A t \in Tokens : InStep(emis[t], user[t], balance[t])
  BY DEF EmissionInv
<1>2. ASSUME NEW t \in T
      PROVE  /\ claims[t] \in Nat
             /\ InStep(Updated(t), vs(t), balance[t])
             /\ OwedExactly(Updated(t), vs(t), balance[t]) + claims[t] * Unit
                  <= OwedExactly(emis[t], user[t], balance[t])
  <2>1. /\ InStep(Updated(t), user[t], balance[t])
        /\ OwedExactly(Updated(t), user[t], balance[t])
             <= OwedExactly(emis[t], user[t], balance[t])
    BY UpdatedIsCovered
  <2>2. claims[t] = Settled(user[t][h], Updated(t), balance[t][h], SCALAR).accrued
    BY DEF ClaimOf
  <2>3. claims[t] \in Nat
    BY <2>1, <2>2, SettledIsLess
  <2>4. /\ InStep(Updated(t), vs(t), balance[t])
        /\ OwedExactly(Updated(t), vs(t), balance[t]) + claims[t] * Unit
             <= OwedExactly(Updated(t), user[t], balance[t])
    BY <2>1, <2>2, ClaimedIsCovered
  <2>5. OwedExactly(Updated(t), vs(t), balance[t]) \in Nat
    <3>1. InStep(Updated(t), vs(t), balance[t])
      BY <2>4
    <3> HIDE DEF vs
    <3> QED BY ONLY <3>1, OwedIsCount
  <2>6. OwedExactly(Updated(t), user[t], balance[t]) \in Nat
    BY ONLY <2>1, OwedIsCount
  <2>7. OwedExactly(emis[t], user[t], balance[t]) \in Nat
    BY <1>1, OwedIsCount
  <2>8. claims[t] * Unit \in Nat
    BY <2>3, UnitIsNat
  <2> HIDE DEF vs, claims
  <2> QED BY <2>1, <2>3, <2>4, <2>5, <2>6, <2>7, <2>8
<1>3. /\ emis' = [t \in Tokens |-> IF t \in T THEN Updated(t) ELSE emis[t]]
      /\ user' = [t \in Tokens |-> IF t \in T THEN vs(t) ELSE user[t]]
      /\ balance' = balance /\ now' = now /\ shares' = shares
      /\ Total(claims) <= allowance /\ allowance' = allowance - Total(claims)
      /\ lapsed' = lapsed
  BY DEF Claim
<1> HIDE DEF vs
<1>4. claims \in [T -> Nat]
  <2> HIDE DEF claims
  <2>1. claims = [t \in T |-> claims[t]]
    BY DEF claims
  <2> QED BY <1>2, <2>1
<1> HIDE DEF claims
<1>5. paid \in [Tokens -> Nat] /\ Total(paid) = Total(claims) /\ Total(paid) \in Nat
  <2>1. IsFiniteSet(Tokens) /\ T \subseteq Tokens
    BY PoolEmissionsAssumption
  <2>2. paid \in [Tokens -> Nat] /\ Total(paid) = Total(claims)
    BY <1>4, <2>1, TotalPadded
  <2> HIDE DEF paid
  <2>3. Total(paid) \in Nat
    BY <2>1, <2>2, TotalIsCount
  <2> QED BY <2>2, <2>3
<1>6. ASSUME NEW t \in Tokens
      PROVE  /\ InStep(emis'[t], user'[t], balance'[t])
             /\ OwedExactly(emis'[t], user'[t], balance'[t]) + paid[t] * Unit
                  <= OwedExactly(emis[t], user[t], balance[t]) + None[t] * Unit
  <2>1. OwedExactly(emis[t], user[t], balance[t]) \in Nat /\ None[t] * Unit = 0
    BY <1>1, OwedIsCount, NothingMoves
  <2>2. CASE t \in T
    <3>1. emis'[t] = Updated(t) /\ user'[t] = vs(t) /\ balance'[t] = balance[t] /\ paid[t] = claims[t]
      BY <1>3, <2>2
    <3>2. /\ InStep(Updated(t), vs(t), balance[t])
          /\ OwedExactly(Updated(t), vs(t), balance[t]) + claims[t] * Unit
               <= OwedExactly(emis[t], user[t], balance[t])
      BY <1>2, <2>2
    <3>3. InStep(emis'[t], user'[t], balance'[t])
      BY ONLY <3>1, <3>2
    <3>4. OwedExactly(emis'[t], user'[t], balance'[t]) + paid[t] * Unit
                  <= OwedExactly(emis[t], user[t], balance[t])
      BY ONLY <3>1, <3>2
    <3> HIDE DEF paid
    <3> QED BY <2>1, <3>3, <3>4
  <2>3. CASE t \notin T
    <3>1. emis'[t] = emis[t] /\ user'[t] = user[t] /\ balance'[t] = balance[t] /\ paid[t] = 0
      BY <1>3, <2>3
    <3>2. /\ InStep(emis'[t], user'[t], balance'[t])
          /\ OwedExactly(emis'[t], user'[t], balance'[t])
               <= OwedExactly(emis[t], user[t], balance[t])
      BY <1>3, <3>1, UntouchedToken
    <3>3. OwedExactly(emis'[t], user'[t], balance'[t]) \in Nat
      BY ONLY <3>2, OwedIsCount
    <3>4. paid[t] * Unit = 0
      BY <3>1, UnitIsNat
    <3> HIDE DEF paid
    <3> QED BY <2>1, <3>2, <3>3, <3>4
  <2> QED BY <2>2, <2>3
<1>7. /\ \A t \in Tokens : InStep(emis[t], user[t], balance[t])'
      /\ \A t \in Tokens :
           OwedExactly(emis'[t], user'[t], balance'[t]) + paid[t] * Unit
             <= OwedExactly(emis[t], user[t], balance[t]) + None[t] * Unit
  <2> HIDE DEF paid
  <2> QED BY <1>3, <1>6 DEF InStep
<1>8. /\ emis' \in [Tokens -> EmissionDatas] /\ user' \in [Tokens -> [Holders -> UserDatas]]
      /\ balance' \in [Tokens -> [Holders -> Nat]]
  <2>1. \A t \in Tokens : emis'[t] \in EmissionDatas /\ user'[t] \in [Holders -> UserDatas]
    BY <1>6 DEF InStep
  <2>2. emis' = [t \in Tokens |-> emis'[t]] /\ user' = [t \in Tokens |-> user'[t]]
    BY <1>3
  <2> QED BY <1>1, <1>3, <2>1, <2>2
<1>9. /\ now' \in Nat /\ allowance' \in Nat /\ lapsed' \in Nat
      /\ Funds + Total(None) <= Funds' + Total(paid)
  BY <1>1, <1>3, <1>5, NothingMoves DEF Funds
<1>10. DOMAIN shares' \subseteq Tokens /\ \A t \in DOMAIN shares' : shares'[t] \in Nat \ {0}
  BY <1>3 DEF EmissionInv
<1> HIDE DEF paid
<1> QED BY <1>5, <1>7, <1>8, <1>9, <1>10, NothingMoves, OwedFollows

(* What a gulp gives the tokens is at most what it adds to the allowance.  *)
LEMMA GulpIsParted ==
  ASSUME EmissionInv, NEW n \in Nat, NEW enabled
  PROVE  LET E == Enabled(enabled)
             gained == [t \in Tokens |-> IF t \in E THEN PartOf(t, enabled, n) ELSE 0]
         IN  /\ E \subseteq Tokens
             /\ gained \in [Tokens -> Nat] /\ Total(gained) \in Nat /\ Total(gained) <= n
<1> DEFINE E == Enabled(enabled)
           w == [e \in E |-> shares[e]]
           parts == [t \in E |-> MulFloor(DivFloor(w[t], Total(w), SCALAR_7), n, SCALAR_7)]
           gained == [t \in Tokens |-> IF t \in E THEN parts[t] ELSE 0]
<1>1. E \subseteq Tokens /\ IsFiniteSet(E)
  <2>1. E \subseteq Tokens
    BY DEF EmissionInv, Enabled
  <2> QED BY <2>1, PoolEmissionsAssumption, FS_Subset
<1>2. w \in [E -> Nat] /\ \A t \in E : w[t] # 0
  <2>1. \A t \in E : shares[t] \in Nat \ {0}
    BY DEF EmissionInv, Enabled
  <2> QED BY <2>1
<1>3. \A t \in E : parts[t] = PartOf(t, enabled, n)
  BY DEF PartOf
<1> HIDE DEF E
<1>4. parts \in [E -> Nat] /\ Total(parts) <= n
  <2>1. CASE E = {}
    <3>1. parts \in [E -> Nat] /\ \A t \in E : parts[t] = 0
      BY <2>1
    <3> HIDE DEF parts
    <3>2. Total(parts) = 0
      BY <1>1, <3>1, TotalOfZeros
    <3> QED BY <3>1, <3>2
  <2>2. CASE E # {}
    <3>1. PICK t \in E : TRUE
      BY <2>2
    <3> HIDE DEF w
    <3>2. w[t] <= Total(w) /\ Total(w) \in Nat
      BY <1>1, <1>2, TotalBoundsMember, TotalIsCount
    <3>3. Total(w) # 0
      BY <1>2, <3>2
    <3> QED BY <1>1, <1>2, <3>3, UnitIsNat, PartsOfWhole
  <2> QED BY <2>1, <2>2
<1> HIDE DEF parts
<1>5. gained \in [Tokens -> Nat] /\ Total(gained) = Total(parts) /\ Total(gained) \in Nat
  <2>1. IsFiniteSet(Tokens)
    BY PoolEmissionsAssumption
  <2>2. gained \in [Tokens -> Nat] /\ Total(gained) = Total(parts)
    BY <1>1, <1>4, <2>1, TotalPadded
  <2> HIDE DEF gained
  <2>3. Total(gained) \in Nat
    BY <2>1, <2>2, TotalIsCount
  <2> QED BY <2>2, <2>3
<1>6. gained = [t \in Tokens |-> IF t \in E THEN PartOf(t, enabled, n) ELSE 0]
  BY <1>3
<1> QED BY <1>1, <1>4, <1>5, <1>6 DEF E

LEMMA GulpEmissionsFunded ==
  ASSUME EmissionInv, NEW n \in Gulps, NEW enabled, GulpEmissions(n, enabled)
  PROVE  EmissionInv'
<1> DEFINE E == Enabled(enabled)
           gained == [t \in Tokens |-> IF t \in E THEN PartOf(t, enabled, n) ELSE 0]
           r(t) == Renewed(Updated(t), PartOf(t, enabled, n), now)
<1>1. /\ emis \in [Tokens -> EmissionDatas]
      /\ user \in [Tokens -> [Holders -> UserDatas]]
      /\ balance \in [Tokens -> [Holders -> Nat]]
      /\ now \in Nat /\ allowance \in Nat /\ lapsed \in Nat
      /\ \A t \in Tokens : InStep(emis[t], user[t], balance[t])
  BY DEF EmissionInv
<1>2. n \in Nat
  BY PoolEmissionsAssumption
<1>3. /\ E \subseteq Tokens
      /\ gained \in [Tokens -> Nat] /\ Total(gained) \in Nat /\ Total(gained) <= n
  BY <1>2, GulpIsParted
<1>4. /\ emis' = [t \in Tokens |-> IF t \in E THEN r(t) ELSE emis[t]]
      /\ user' = user /\ balance' = balance /\ now' = now /\ shares' = shares
      /\ allowance' = allowance + n /\ lapsed' = lapsed
  BY DEF GulpEmissions, Approve
<1>5. ASSUME NEW t \in Tokens
      PROVE  /\ InStep(emis'[t], user'[t], balance'[t])
             /\ OwedExactly(emis'[t], user'[t], balance'[t]) + None[t] * Unit
                  <= OwedExactly(emis[t], user[t], balance[t]) + gained[t] * Unit
  <2>1. OwedExactly(emis[t], user[t], balance[t]) \in Nat /\ None[t] * Unit = 0
    BY <1>1, OwedIsCount, NothingMoves
  <2>2. CASE t \in E
    <3> DEFINE g == gained[t]
    <3>1. g \in Nat /\ g = PartOf(t, enabled, n)
      BY <1>3, <2>2
    <3>2. emis'[t] = r(t) /\ user'[t] = user[t] /\ balance'[t] = balance[t]
      BY <1>4, <2>2
    <3>3. r(t) = Renewed(Updated(t), g, now)
      BY <3>1
    <3> HIDE DEF r, g
    <3>4. /\ InStep(Updated(t), user[t], balance[t])
          /\ OwedExactly(Updated(t), user[t], balance[t])
               <= OwedExactly(emis[t], user[t], balance[t])
      BY UpdatedIsCovered
    <3>5. /\ InStep(r(t), user[t], balance[t])
          /\ OwedExactly(r(t), user[t], balance[t])
               <= OwedExactly(Updated(t), user[t], balance[t]) + g * Unit
      BY <1>1, <3>1, <3>3, <3>4, RenewedIsCovered
    <3>6. OwedExactly(r(t), user[t], balance[t]) \in Nat
      BY ONLY <3>5, OwedIsCount
    <3>7. OwedExactly(Updated(t), user[t], balance[t]) \in Nat
      BY ONLY <3>4, OwedIsCount
    <3>8. g * Unit \in Nat
      BY <3>1, UnitIsNat
    <3>9. OwedExactly(r(t), user[t], balance[t])
            <= OwedExactly(emis[t], user[t], balance[t]) + g * Unit
      BY <2>1, <3>4, <3>5, <3>6, <3>7, <3>8
    <3>10. InStep(emis'[t], user'[t], balance'[t])
      BY ONLY <3>2, <3>5
    <3>11. OwedExactly(emis'[t], user'[t], balance'[t])
             <= OwedExactly(emis[t], user[t], balance[t]) + g * Unit
      BY ONLY <3>2, <3>9
    <3>12. OwedExactly(emis'[t], user'[t], balance'[t]) \in Nat
      BY ONLY <3>10, OwedIsCount
    <3> HIDE DEF gained
    <3> QED BY <2>1, <3>8, <3>10, <3>11, <3>12 DEF g
  <2>3. CASE t \notin E
    <3>1. emis'[t] = emis[t] /\ user'[t] = user[t] /\ balance'[t] = balance[t] /\ gained[t] = 0
      BY <1>4, <2>3
    <3>2. /\ InStep(emis'[t], user'[t], balance'[t])
          /\ OwedExactly(emis'[t], user'[t], balance'[t])
               <= OwedExactly(emis[t], user[t], balance[t])
      BY <1>4, <3>1, UntouchedToken
    <3>3. OwedExactly(emis'[t], user'[t], balance'[t]) \in Nat
      BY ONLY <3>2, OwedIsCount
    <3>4. gained[t] * Unit = 0
      BY <3>1, UnitIsNat
    <3> HIDE DEF gained
    <3> QED BY <2>1, <3>2, <3>3, <3>4
  <2> QED BY <2>2, <2>3
<1> HIDE DEF gained
<1>6. \A t \in Tokens : InStep(emis[t], user[t], balance[t])'
  BY <1>4, <1>5 DEF InStep
<1>7. \A t \in Tokens :
        OwedExactly(emis'[t], user'[t], balance'[t]) + None[t] * Unit
          <= OwedExactly(emis[t], user[t], balance[t]) + gained[t] * Unit
  BY <1>5
<1>8. /\ emis' \in [Tokens -> EmissionDatas] /\ user' \in [Tokens -> [Holders -> UserDatas]]
      /\ balance' \in [Tokens -> [Holders -> Nat]]
  <2>1. \A t \in Tokens : emis'[t] \in EmissionDatas
    BY <1>5 DEF InStep
  <2>2. emis' = [t \in Tokens |-> emis'[t]]
    BY <1>4
  <2> QED BY <1>1, <1>4, <2>1, <2>2
<1>9. /\ now' \in Nat /\ allowance' \in Nat /\ lapsed' \in Nat
      /\ Funds + Total(gained) <= Funds' + Total(None)
  BY <1>1, <1>2, <1>3, <1>4, NothingMoves DEF Funds
<1>10. DOMAIN shares' \subseteq Tokens /\ \A t \in DOMAIN shares' : shares'[t] \in Nat \ {0}
  BY <1>4 DEF EmissionInv
<1> QED BY <1>3, <1>6, <1>7, <1>8, <1>9, <1>10, NothingMoves, OwedFollows

LEMMA TickFunded ==
  ASSUME EmissionInv, Tick
  PROVE  EmissionInv'
<1>1. /\ UNCHANGED <<balance, emis, user, shares>>
      /\ now \in Nat /\ now' = now + 1
      /\ LedgerCloses \/ UNCHANGED approval
  BY DEF EmissionInv, Tick
<1>6. allowance' \in Nat /\ lapsed' \in Nat /\ Funds' = Funds
  <2>1. allowance \in Nat /\ lapsed \in Nat
    BY DEF EmissionInv
  <2>2. CASE LedgerCloses
    BY <2>1, <2>2 DEF LedgerCloses, Funds
  <2>3. CASE UNCHANGED approval
    BY <2>1, <2>3 DEF approval, Funds
  <2> QED BY <1>1, <2>2, <2>3
<1>2. \A t \in Tokens : emis[t].last_time <= now' /\ now' \in Nat
  <2>1. \A t \in Tokens : emis[t].last_time \in Nat /\ emis[t].last_time <= now
    BY DEF EmissionInv, InStep, EmissionDatas
  <2> QED BY <1>1, <2>1
<1>3. \A t \in Tokens : InStep(emis[t], user[t], balance[t])'
  <2>1. \A t \in Tokens : InStep(emis[t], user[t], balance[t])
    BY DEF EmissionInv
  <2> QED BY <1>1, <1>2, <2>1 DEF InStep
<1>4. [t \in Tokens |-> OwedExactly(emis[t], user[t], balance[t])]'
        = [t \in Tokens |-> OwedExactly(emis[t], user[t], balance[t])]
  BY <1>1 DEF OwedExactly, OwedNow, Still, Unit
<1>5. Total([t \in Tokens |-> OwedExactly(emis[t], user[t], balance[t])])' <= Funds' * Unit
  <2>1. Total([t \in Tokens |-> OwedExactly(emis[t], user[t], balance[t])]) <= Funds * Unit
    BY DEF EmissionInv
  <2> QED BY <1>1, <1>4, <1>6, <2>1 DEF Total
<1>7. Total([t \in Tokens |-> OwedExactly(emis[t], user[t], balance[t])])' <= (Funds * Unit)'
  BY <1>5
<1> QED BY <1>1, <1>2, <1>3, <1>6, <1>7 DEF EmissionInv

LEMMA StutterFunded ==
  ASSUME EmissionInv, UNCHANGED vars
  PROVE  EmissionInv'
<1>1. UNCHANGED <<now, balance, emis, user, shares, allowance, lapsed>>
  BY DEF vars, approval
<1> QED BY <1>1 DEF EmissionInv, Funds, InStep, OwedExactly, OwedNow, Still, Unit

(* What is owed to the fraction never exceeds the allowance and what       *)
(* earlier ones were left with as they expired.                            *)
THEOREM EmissionInvHolds == Spec => []EmissionInv
<1>1. EmissionInv /\ [Next]_vars => EmissionInv'
  <2> SUFFICES ASSUME EmissionInv, [Next]_vars PROVE EmissionInv'
    OBVIOUS
  <2>1. ASSUME NEW t \in Tokens, NEW h \in Holders, NEW b \in Balances[t],
               ChangeBalance(t, h, b)
        PROVE  EmissionInv'
    BY <2>1, ChangeBalanceFunded
  <2>2. ASSUME NEW h \in Holders, NEW T \in (SUBSET Tokens) \ {{}}, Claim(h, T)
        PROVE  EmissionInv'
    BY <2>2, ClaimFunded
  <2>3. ASSUME NEW s \in Shares, SetPoolEmissions(s) PROVE EmissionInv'
    BY <2>3, SetPoolEmissionsFunded
  <2>4. ASSUME NEW n \in Gulps, NEW enabled \in SUBSET ReserveIndices,
               GulpEmissions(n, enabled)
        PROVE  EmissionInv'
    BY <2>4, GulpEmissionsFunded
  <2> QED BY Zenon, <2>1, <2>2, <2>3, <2>4, TickFunded, StutterFunded DEF Next
<1> QED BY <1>1, InitIsFunded, PTL DEF Spec

---------------------------------------------------------------------------
(* What could be claimed now, rounded down for each holder, and what the   *)
(* stream still emits, rounded down, is at most what is owed.              *)
LEMMA ClaimableIsOwed ==
  ASSUME EmissionInv, NEW t \in Tokens
  PROVE  Owed(t) \in Nat /\ Unit * Owed(t) <= OwedExactly(emis[t], user[t], balance[t])
<1> DEFINE d == Updated(t)
           f == [h \in Holders |-> Settled(user[t][h], d, balance[t][h], SCALAR).accrued]
           g == OwedNow(d, user[t], balance[t])
           rest == IF d.last_time < d.expiration
                   THEN MulFloor(d.eps, d.expiration - d.last_time, SCALAR_7) ELSE 0
<1>1. /\ InStep(d, user[t], balance[t])
      /\ OwedExactly(d, user[t], balance[t]) <= OwedExactly(emis[t], user[t], balance[t])
  BY UpdatedIsCovered
<1>2. f \in [Holders -> Nat]
  BY <1>1, SettledIsLess
<1>3. g \in [Holders -> Nat] /\ Total(g) \in Nat /\ Still(d) \in Nat
  BY <1>1, OwedIsCount
<1>11. OwedExactly(emis[t], user[t], balance[t]) \in Nat
  <2>1. InStep(emis[t], user[t], balance[t])
    BY DEF EmissionInv
  <2> QED BY <2>1, OwedIsCount
<1>4. \A h \in Holders : Unit * f[h] <= 1 * g[h]
  <2> SUFFICES ASSUME NEW h \in Holders PROVE Unit * f[h] <= 1 * g[h]
    OBVIOUS
  <2>1. g[h] = user[t][h].accrued * Unit + balance[t][h] * (d.index - user[t][h].index)
    BY DEF OwedNow, OwedAt, Accruals, Indices
  <2>2. f[h] \in Nat /\ f[h] * Unit <= g[h]
    BY <1>1, <2>1, SettledIsLess
  <2> HIDE DEF f, g
  <2> QED BY <1>3, <2>2, UnitIsNat
<1>5. Unit * Total(f) <= Total(g) /\ Total(f) \in Nat
  <2> HIDE DEF f, g
  <2>1. Unit \in Nat /\ 1 \in Nat /\ IsFiniteSet(Holders)
    BY UnitIsNat, PoolEmissionsAssumption
  <2>2. Unit * Total(f) <= 1 * Total(g)
    BY <1>2, <1>3, <1>4, <2>1, TotalWithin
  <2>3. Total(f) \in Nat
    BY <1>2, <2>1, TotalIsCount
  <2> QED BY <1>3, <2>2, <2>3
<1>6. rest \in Nat /\ Unit * rest <= Still(d)
  <2>1. CASE ~(d.last_time < d.expiration)
    BY <2>1, UnitIsNat DEF Still
  <2>2. CASE d.last_time < d.expiration
    <3> DEFINE m == d.eps * (d.expiration - d.last_time)
               q == FloorDiv(m, SCALAR_7)
    <3>1. m \in Nat
      <4>1. d.eps \in Nat /\ d.expiration \in Nat /\ d.last_time \in Nat
        BY <1>1 DEF InStep, EmissionDatas
      <4>2. d.expiration - d.last_time \in Nat
        BY <2>2, <4>1
      <4> HIDE DEF d
      <4> QED BY <4>1, <4>2
    <3>2. Still(d) = m * SCALAR /\ rest = q
      BY <2>2 DEF Still, MulFloor
    <3> HIDE DEF m, rest
    <3>3. q \in Nat /\ q * SCALAR_7 <= m
      BY <3>1, UnitIsNat, FloorOfNat, FloorBounds
    <3> HIDE DEF q
    <3>4. (q * SCALAR_7) * SCALAR <= m * SCALAR
      <4> DEFINE y == q * SCALAR_7
      <4>1. y \in Nat /\ y <= m
        BY <3>3, UnitIsNat
      <4> HIDE DEF y
      <4>2. y * SCALAR <= m * SCALAR
        BY <3>1, <4>1, UnitIsNat
      <4> QED BY <4>2 DEF y
    <3>5. (q * SCALAR_7) * SCALAR = Unit * q
      BY <3>3, UnitIsNat DEF Unit
    <3> QED BY <3>2, <3>3, <3>4, <3>5
  <2> QED BY <2>1, <2>2
<1>7. Owed(t) = Total(f) + rest
  BY DEF Owed
<1>8. OwedExactly(d, user[t], balance[t]) = Total(g) + Still(d)
  BY DEF OwedExactly
<1> HIDE DEF f, g, rest, d
<1>9. Unit * (Total(f) + rest) = Unit * Total(f) + Unit * rest
  BY <1>5, <1>6, UnitIsNat
<1>10. Unit * Total(f) \in Nat /\ Unit * rest \in Nat /\ Total(f) + rest \in Nat
  BY <1>5, <1>6, UnitIsNat
<1> QED BY <1>1, <1>3, <1>5, <1>6, <1>7, <1>8, <1>9, <1>10, <1>11

LEMMA FundedToTheUnit == EmissionInv => EmissionsAreFunded
<1> SUFFICES ASSUME EmissionInv PROVE EmissionsAreFunded
  OBVIOUS
<1> DEFINE f == [t \in Tokens |-> Owed(t)]
           F == [t \in Tokens |-> OwedExactly(emis[t], user[t], balance[t])]
<1>1. f \in [Tokens -> Nat] /\ \A t \in Tokens : Unit * f[t] <= F[t]
  BY ClaimableIsOwed
<1>2. F \in [Tokens -> Nat]
  <2>1. \A t \in Tokens : InStep(emis[t], user[t], balance[t])
    BY DEF EmissionInv
  <2> QED BY <2>1, OwedIsCount
<1>3. Total(F) <= Funds * Unit /\ Funds \in Nat
  BY DEF EmissionInv, Funds
<1> HIDE DEF f, F
<1>4. /\ IsFiniteSet(Tokens) /\ Unit \in Nat /\ Unit \in Nat \ {0} /\ 1 \in Nat
      /\ \A t \in Tokens : Unit * f[t] <= 1 * F[t]
  BY <1>1, <1>2, UnitIsNat, PoolEmissionsAssumption
<1>5. Unit * Total(f) <= 1 * Total(F)
  BY <1>1, <1>2, <1>4, TotalWithin
<1>6. Total(f) \in Nat /\ Total(F) \in Nat
  BY <1>1, <1>2, <1>4, TotalIsCount
<1>7. Unit * Total(f) <= Unit * Funds
  BY <1>3, <1>4, <1>5, <1>6
<1>8. Total(f) <= Funds
  BY <1>3, <1>4, <1>6, <1>7
<1> QED BY <1>8 DEF EmissionsAreFunded, Funds, f

(* The allowance a pool has at the backstop is enough for all that its     *)
(* holders have earned and its streams have still to emit, but for what    *)
(* was left of allowances that no gulp renewed before they expired:        *)
(* whoever claimed, gulped or moved before, nothing else is missing.       *)
THEOREM EmissionsStayFunded == Spec => []EmissionsAreFunded
BY EmissionInvHolds, FundedToTheUnit, PTL

(* What a holder can claim for some tokens is a part of what all are owed. *)
LEMMA ClaimIsCovered ==
  ASSUME EmissionInv, NEW h \in Holders, NEW T \in SUBSET Tokens
  PROVE  Total([t \in T |-> ClaimOf(t, h)]) <= Funds
<1> DEFINE f == [t \in T |-> ClaimOf(t, h)]
           g == [t \in Tokens |-> IF t \in T THEN f[t] ELSE 0]
           o == [t \in Tokens |-> Owed(t)]
<1>1. IsFiniteSet(Tokens) /\ IsFiniteSet(Holders)
  BY PoolEmissionsAssumption
<1>2. ASSUME NEW t \in Tokens
      PROVE  ClaimOf(t, h) \in Nat /\ Owed(t) \in Nat /\ ClaimOf(t, h) <= Owed(t)
  <2> DEFINE d == Updated(t)
             c == [x \in Holders |-> Settled(user[t][x], d, balance[t][x], SCALAR).accrued]
             rest == IF d.last_time < d.expiration
                     THEN MulFloor(d.eps, d.expiration - d.last_time, SCALAR_7) ELSE 0
  <2>1. InStep(d, user[t], balance[t])
    BY UpdatedIsCovered
  <2>2. c \in [Holders -> Nat]
    BY <2>1, SettledIsLess
  <2>3. c[h] = ClaimOf(t, h)
    BY DEF ClaimOf
  <2>4. Owed(t) = Total(c) + rest
    BY DEF Owed
  <2>5. rest \in Nat
    <3>1. d.eps \in Nat /\ d.expiration \in Nat /\ d.last_time \in Nat
      BY <2>1 DEF InStep, EmissionDatas
    <3> HIDE DEF d
    <3>2. d.last_time < d.expiration => MulFloor(d.eps, d.expiration - d.last_time, SCALAR_7) \in Nat
      <4>1. d.last_time < d.expiration => d.expiration - d.last_time \in Nat
        BY <3>1
      <4> QED BY <3>1, <4>1, UnitIsNat, RoundingOfNat
    <3> QED BY <3>2
  <2> HIDE DEF c, rest
  <2>6. c[h] <= Total(c) /\ Total(c) \in Nat /\ c[h] \in Nat
    BY <1>1, <2>2, TotalBoundsMember, TotalIsCount
  <2> QED BY <2>3, <2>4, <2>5, <2>6
<1>3. f \in [T -> Nat] /\ o \in [Tokens -> Nat]
  BY <1>2
<1>4. \A t \in Tokens : g[t] <= o[t]
  BY <1>2
<1>5. EmissionsAreFunded
  BY FundedToTheUnit
<1>6. Total(o) <= Funds /\ Funds \in Nat
  BY <1>5 DEF EmissionsAreFunded, EmissionInv, Funds
<1> HIDE DEF f, o
<1>7. g \in [Tokens -> Nat] /\ Total(g) = Total(f)
  BY <1>1, <1>3, TotalPadded
<1> HIDE DEF g
<1>8. Total(g) <= Total(o)
  BY <1>1, <1>3, <1>4, <1>7, TotalMonotone
<1>9. Total(g) \in Nat /\ Total(o) \in Nat
  BY <1>1, <1>3, <1>7, TotalIsCount
<1> QED BY <1>6, <1>7, <1>8, <1>9 DEF f

(* The one thing that could refuse a claim is that the pool may not take   *)
(* as much from the backstop.  It never does as long as no allowance has   *)
(* expired with tokens left in it: no claim of any holder, for any of its  *)
(* tokens together, asks for more, after any gulps and any claims of       *)
(* others.  What has expired is the most that claims may lack.             *)
THEOREM ClaimsAreCoveredUntilALapse ==
  Spec => [](\A h \in Holders, T \in SUBSET Tokens :
               LET claim == Total([t \in T |-> ClaimOf(t, h)]) IN
               /\ claim <= allowance + lapsed
               /\ lapsed = 0 => claim <= allowance)
<1>1. ASSUME EmissionInv, NEW h \in Holders, NEW T \in SUBSET Tokens
      PROVE  LET claim == Total([t \in T |-> ClaimOf(t, h)]) IN
             /\ claim <= allowance + lapsed
             /\ lapsed = 0 => claim <= allowance
  <2> DEFINE claim == Total([t \in T |-> ClaimOf(t, h)])
  <2>1. claim <= allowance + lapsed /\ allowance \in Nat
    BY <1>1, ClaimIsCovered DEF EmissionInv, Funds
  <2> HIDE DEF claim
  <2>2. lapsed = 0 => claim <= allowance
    BY <2>1
  <2> QED BY <2>1, <2>2 DEF claim
<1>2. EmissionInv => \A h \in Holders, T \in SUBSET Tokens :
                       LET claim == Total([t \in T |-> ClaimOf(t, h)]) IN
                       /\ claim <= allowance + lapsed
                       /\ lapsed = 0 => claim <= allowance
  BY <1>1
<1> QED BY <1>2, EmissionInvHolds, PTL

---------------------------------------------------------------------------
(* What each holder earned is covered by what the index rose since it was  *)
(* settled, for each of its shares, and is just that when the shares of    *)
(* the token come out even.                                                *)
AccountInv ==
  /\ EmissionInv
  /\ \A t \in Tokens, h \in Holders : balance[t][h] \in Balances[t]
  /\ held \in [Tokens -> [Holders -> Int]]
  /\ due \in [Tokens -> [Holders -> Int]]
  /\ unheld \in [Tokens -> Int]
  /\ \A t \in Tokens :
       InAccount(Holders, emis[t], now, user[t], balance[t], held[t], due[t],
                 unheld[t], SCALAR, SharesComeOutEven(t))

LEMMA SupplyIsEven ==
  ASSUME NEW t \in Tokens,
         NEW bs \in [Holders -> Nat], \A h \in Holders : bs[h] \in Balances[t]
  PROVE  /\ Total(bs) \in Nat
         /\ SharesComeOutEven(t) => (Total(bs) # 0 => SCALAR % Total(bs) = 0)
<1>1. bs \in [Holders -> Balances[t]]
  OBVIOUS
<1>2. Total(bs) \in Nat
  BY TotalIsCount, PoolEmissionsAssumption
<1> QED BY <1>1, <1>2 DEF SharesComeOutEven

(* update_emission_data brings the index up to now.                        *)
LEMMA UpdatedIsCurrent ==
  ASSUME AccountInv, NEW t \in Tokens
  PROVE  /\ InStep(Updated(t), user[t], balance[t])
         /\ Updated(t).index = IndexAt(emis[t], now, Total(balance[t]), SCALAR)
         /\ Supply(t) # 0 => PendingAt(Updated(t), now) = 0
         /\ Supply(t) = 0 => Updated(t) = emis[t]
         /\ Supply(t) = Total(balance[t]) /\ Supply(t) \in Nat
<1> DEFINE d == emis[t]
           e == Updated(t)
           s == Supply(t)
           p == PendingAt(d, now)
<1>1. EmissionInv /\ InStep(e, user[t], balance[t])
  BY UpdatedIsCovered DEF AccountInv
<1>2. /\ InStep(d, user[t], balance[t]) /\ now \in Nat
      /\ \A h \in Holders : balance[t][h] \in Balances[t]
  BY DEF AccountInv, EmissionInv
<1>3. /\ d \in EmissionDatas /\ d.last_time <= now /\ balance[t] \in [Holders -> Nat]
      /\ d.eps \in Nat /\ d.expiration \in Nat /\ d.index \in Nat /\ d.last_time \in Nat
  BY <1>2 DEF InStep, EmissionDatas
<1>4. s = Total(balance[t]) /\ s \in Nat
  BY <1>2, <1>3, SupplyIsEven DEF Supply
<1>5. p \in Nat
  BY <1>2, <1>3, PendingIsNat
<1>6. e = IF Emitting(d, now) /\ s # 0
          THEN [d EXCEPT !.index = @ + DivFloor(Emitted(d, now), s, SCALAR),
                         !.last_time = MinOf(now, d.expiration)]
          ELSE d
  BY DEF Updated
<1>7. IndexAt(d, now, s, SCALAR) = d.index + IF s = 0 THEN 0 ELSE FloorDiv(p * SCALAR, s)
  BY DEF IndexAt
<1>8. ~Emitting(d, now) => p = 0
  <2>1. CASE ~(d.last_time < d.expiration)
    BY <2>1 DEF PendingAt
  <2>2. CASE d.last_time < d.expiration /\ d.last_time = now
    <3>1. MinOf(now, d.expiration) - d.last_time = 0
      BY <1>2, <1>3, <2>2 DEF MinOf
    <3>2. p = 0 * d.eps
      BY <2>2, <3>1 DEF PendingAt
    <3> QED BY <1>3, <3>2
  <2>3. CASE d.last_time < d.expiration /\ d.eps = 0
    <3>1. MinOf(now, d.expiration) - d.last_time \in Int
      BY <1>2, <1>3 DEF MinOf
    <3>2. p = (MinOf(now, d.expiration) - d.last_time) * 0
      BY <2>3 DEF PendingAt
    <3> QED BY <3>1, <3>2
  <2> QED BY <2>1, <2>2, <2>3 DEF Emitting
<1>9. Emitting(d, now) => Emitted(d, now) = p
  BY DEF Emitting, Emitted, PendingAt
<1>10. SCALAR \in Nat
  BY UnitIsNat
<1> HIDE DEF d, e, s, p
<1>11. CASE s = 0
  <2>1. e = d /\ IndexAt(d, now, s, SCALAR) = d.index
    BY <1>3, <1>6, <1>7, <1>11
  <2> QED BY <1>1, <1>4, <1>11, <2>1 DEF d, e, s
<1>12. CASE s # 0 /\ ~Emitting(d, now)
  <2>1. e = d /\ p = 0
    BY <1>6, <1>8, <1>12
  <2>2. IndexAt(d, now, s, SCALAR) = d.index
    BY <1>3, <1>4, <1>10, <2>1, IndexUpToDate DEF p
  <2>3. PendingAt(e, now) = 0
    BY <2>1 DEF p
  <2> QED BY <1>1, <1>4, <1>12, <2>1, <2>2, <2>3 DEF d, e, s
<1>13. CASE s # 0 /\ Emitting(d, now)
  <2> DEFINE step == FloorDiv(p * SCALAR, s)
             last == MinOf(now, d.expiration)
  <2>2. step \in Nat
    <3>1. s \in Nat \ {0} /\ p * SCALAR \in Nat
      BY <1>4, <1>5, <1>10, <1>13
    <3> QED BY <3>1, FloorOfNat
  <2>3. e = [d EXCEPT !.index = @ + step, !.last_time = last]
    BY <1>6, <1>9, <1>13 DEF DivFloor
  <2>4. IndexAt(d, now, s, SCALAR) = d.index + step
    BY <1>7, <1>13
  <2> HIDE DEF step
  <2>5. e.index = d.index + step /\ e.last_time = last /\ e.expiration = d.expiration /\ e.eps = d.eps
    BY <1>3, <2>3 DEF EmissionDatas
  <2>6. PendingAt(e, now) = 0
    <3>1. CASE ~(last < d.expiration)
      BY <2>5, <3>1 DEF PendingAt
    <3>2. CASE last < d.expiration
      <4>1. last = now /\ MinOf(now, e.expiration) - e.last_time = 0
        BY <1>2, <1>3, <2>5, <3>2 DEF MinOf
      <4>2. PendingAt(e, now) = 0 * e.eps
        BY <2>5, <3>2, <4>1 DEF PendingAt
      <4> QED BY <1>3, <2>5, <4>2
    <3> QED BY <3>1, <3>2
  <2> QED BY <1>1, <1>4, <1>13, <2>4, <2>5, <2>6 DEF d, e, s
<1> QED BY <1>11, <1>12, <1>13

(* What is claimable covers what was earned.                               *)
LEMMA SettledIsEarned ==
  ASSUME AccountInv, NEW t \in Tokens, NEW h \in Holders
  PROVE  /\ ClaimOf(t, h) \in Int /\ due[t][h] + held[t][h] \div Unit \in Int
         /\ Meets(ClaimOf(t, h), due[t][h] + held[t][h] \div Unit, SharesComeOutEven(t))
<1> DEFINE i == IndexAt(emis[t], now, Total(balance[t]), SCALAR)
           m == balance[t][h] * (i - user[t][h].index)
           a == user[t][h].accrued
           exact == SharesComeOutEven(t)
<1>1. Meets(a, due[t][h], exact) /\ Meets(m, held[t][h], exact)
  BY DEF AccountInv, InAccount
<1>2. Updated(t).index = i /\ InStep(Updated(t), user[t], balance[t])
  BY UpdatedIsCurrent
<1>3. ClaimOf(t, h) = a + m \div Unit
  BY <1>2 DEF ClaimOf, Settled, MulFloor, FloorDiv, Unit
<1>4. /\ m \in Int /\ a \in Int /\ due[t][h] \in Int /\ held[t][h] \in Int
      /\ Unit \in Nat \ {0}
  <2>1. /\ balance[t] \in [Holders -> Nat] /\ user[t] \in [Holders -> UserDatas]
        /\ due[t] \in [Holders -> Int] /\ held[t] \in [Holders -> Int]
    BY DEF AccountInv, EmissionInv
  <2>2. i \in Nat
    BY <1>2 DEF InStep, EmissionDatas
  <2> HIDE DEF i
  <2>3. balance[t][h] \in Nat /\ user[t][h].index \in Nat /\ a \in Nat
    BY <2>1 DEF UserDatas
  <2> QED BY <2>1, <2>2, <2>3, UnitIsNat
<1> HIDE DEF m, a, exact
<1>5. Meets(m \div Unit, held[t][h] \div Unit, exact)
  BY <1>1, <1>4, MeetsPart
<1>6. m \div Unit \in Int /\ held[t][h] \div Unit \in Int
  BY <1>4
<1> DEFINE x == m \div Unit
           y == held[t][h] \div Unit
<1> HIDE DEF x, y
<1>7. Meets(a + x, due[t][h] + y, exact)
  BY <1>1, <1>4, <1>5, <1>6, MeetsSum DEF x, y
<1> QED BY <1>3, <1>4, <1>6, <1>7 DEF x, y, exact

(* The accounts of a token whose holder h is settled: h's balance becomes  *)
(* b, and h is credited what it earned.                                    *)
LEMMA ChangedAccount ==
  ASSUME AccountInv, NEW t \in Tokens, NEW h \in Holders,
         NEW b \in Balances[t], b # balance[t][h]
  PROVE  InAccount(Holders, Updated(t), now,
                   [user[t] EXCEPT ![h] = Settled(user[t][h], Updated(t), balance[t][h], SCALAR)],
                   [balance[t] EXCEPT ![h] = b],
                   [held[t] EXCEPT ![h] = IF Supply(t) = 0 THEN b * (unheld[t] \div b) ELSE 0],
                   [due[t] EXCEPT ![h] = due[t][h] + held[t][h] \div Unit],
                   IF Supply(t) = 0 THEN 0 ELSE unheld[t], SCALAR, SharesComeOutEven(t))
<1> DEFINE e == Updated(t)
           s == Settled(user[t][h], e, balance[t][h], SCALAR)
           vs == [user[t] EXCEPT ![h] = s]
           bs == balance[t]
           cs == [balance[t] EXCEPT ![h] = b]
           es == [due[t] EXCEPT ![h] = due[t][h] + held[t][h] \div Unit]
           x == due[t][h] + held[t][h] \div Unit
           i == IndexAt(emis[t], now, Total(bs), SCALAR)
<1>1. /\ InStep(e, user[t], bs) /\ e.index = i
      /\ Supply(t) # 0 => PendingAt(e, now) = 0
      /\ Supply(t) = 0 => e = emis[t]
      /\ Supply(t) = Total(bs) /\ Supply(t) \in Nat
  BY UpdatedIsCurrent
<1>2. /\ now \in Nat /\ SCALAR \in Nat /\ IsFiniteSet(Holders)
      /\ e \in EmissionDatas /\ e.last_time <= now /\ e.index \in Int
      /\ user[t] \in [Holders -> UserDatas] /\ bs \in [Holders -> Nat]
  BY <1>1, UnitIsNat, PoolEmissionsAssumption DEF AccountInv, EmissionInv, InStep, EmissionDatas
<1>3. /\ held[t] \in [Holders -> Int] /\ due[t] \in [Holders -> Int]
      /\ InAccount(Holders, emis[t], now, user[t], bs, held[t], due[t],
                   unheld[t], SCALAR, SharesComeOutEven(t))
      /\ \A g \in Holders : bs[g] \in Balances[t]
  BY DEF AccountInv
<1>4. s.index = e.index /\ s.accrued \in Nat /\ s \in UserDatas
  BY <1>1, SettledIsLess
<1>5. x \in Int /\ Meets(s.accrued, x, SharesComeOutEven(t))
  BY SettledIsEarned DEF ClaimOf
<1>6. b \in Nat
  BY PoolEmissionsAssumption
<1> HIDE DEF e, s, bs, x
<1>7. /\ vs[h] = s /\ \A g \in Holders \ {h} : vs[g] = user[t][g]
      /\ cs \in [Holders -> Nat] /\ cs[h] = b /\ \A g \in Holders \ {h} : cs[g] = bs[g]
      /\ \A g \in Holders : cs[g] \in Balances[t]
  BY <1>2, <1>3, <1>6 DEF bs
<1>8. x \in Int /\ es = [due[t] EXCEPT ![h] = x] /\ Meets(vs[h].accrued, x, SharesComeOutEven(t))
  BY <1>5, <1>7 DEF x
<1>9. vs[h].index = e.index /\ vs[h].accrued \in Int
  BY <1>4, <1>7
<1>10. \A g \in Holders \ {h} : vs[g] = user[t][g] /\ cs[g] = bs[g] /\ user[t][g].index \in Int
  BY <1>2, <1>7 DEF UserDatas
<1> HIDE DEF vs, cs, es, i
<1>11. CASE Supply(t) = 0
  <2> DEFINE d == emis[t]
             gs == [held[t] EXCEPT ![h] = b * (unheld[t] \div b)]
  <2>1. e = d /\ Total(bs) = 0
    BY <1>1, <1>11
  <2>2. cs[h] # 0
    <3>1. bs[h] <= Total(bs) /\ bs[h] \in Nat
      BY <1>2, TotalBoundsMember
    <3>2. bs[h] = 0
      BY <2>1, <3>1
    <3> QED BY <1>7, <3>2 DEF bs
  <2>3. gs = [held[t] EXCEPT ![h] = cs[h] * (unheld[t] \div cs[h])]
    BY <1>7
  <2>4. d \in EmissionDatas /\ d.last_time <= now /\ vs[h].index = d.index
    BY <1>2, <1>9, <2>1
  <2> HIDE DEF d
  <2>5. InAccount(Holders, d, now, user[t], bs, held[t], due[t], unheld[t],
                  SCALAR, SharesComeOutEven(t))
    BY <1>3 DEF d
  <2>6. InAccount(Holders, d, now, vs, cs, gs, es, 0,
                  SCALAR, SharesComeOutEven(t))
    BY ONLY h \in Holders, <1>2, <1>7, <1>8, <1>9, <1>10, <2>1, <2>2, <2>3, <2>4, <2>5, FirstAccount
  <2> QED BY <1>11, <2>1, <2>6 DEF e, s, vs, cs, es, bs
<1>12. CASE Supply(t) # 0
  <2> DEFINE gs == [held[t] EXCEPT ![h] = 0]
  <2>1. PendingAt(e, now) = 0 /\ unheld[t] = 0
    BY <1>1, <1>3, <1>12 DEF InAccount
  <2>2. InAccount(Holders, e, now, user[t], bs, held[t], due[t], unheld[t],
                  SCALAR, SharesComeOutEven(t))
    <3>1. Total(bs) \in Nat
      BY <1>1
    <3>2. InAccount(Holders, e, now, user[t], bs, held[t], due[t], 0,
                    SCALAR, SharesComeOutEven(t))
      BY <1>1, <1>2, <1>3, <2>1, <3>1, UpdateAccount DEF i
    <3> QED BY <2>1, <3>2
  <2>3. vs[h].index = IndexAt(e, now, Total(bs), SCALAR)
    <3>1. Total(bs) \in Nat \ {0}
      BY <1>1, <1>12
    <3>2. IndexAt(e, now, Total(bs), SCALAR) = e.index
      BY <1>2, <2>1, <3>1, IndexUpToDate
    <3> QED BY <1>9, <3>2
  <2>4. \A g \in Holders \ {h} : vs[g] = user[t][g]
    BY <1>10
  <2>5. InAccount(Holders, e, now, vs, bs, gs, es, unheld[t],
                  SCALAR, SharesComeOutEven(t))
    BY ONLY h \in Holders, <1>2, <1>8, <1>9, <2>2, <2>3, <2>4, SettleAccount
  <2>6. gs[h] = 0 /\ vs[h].index = e.index
    BY <1>3, <1>9
  <2> HIDE DEF gs
  <2>7. InAccount(Holders, e, now, vs, bs, gs, es, 0,
                  SCALAR, SharesComeOutEven(t))
    BY <2>1, <2>5
  <2>8. InAccount(Holders, e, now, vs, cs, gs, es, 0,
                  SCALAR, SharesComeOutEven(t))
    BY ONLY h \in Holders, <1>2, <1>7, <2>1, <2>6, <2>7, BalanceAccount
  <2> QED BY <1>12, <2>1, <2>8 DEF e, s, vs, cs, es, bs, gs
<1> QED BY <1>11, <1>12

(* The accounts of a token that h claims.                                  *)
LEMMA ClaimedAccount ==
  ASSUME AccountInv, NEW t \in Tokens, NEW h \in Holders
  PROVE  InAccount(Holders, Updated(t), now,
                   [user[t] EXCEPT ![h] = [index |-> Updated(t).index, accrued |-> 0]],
                   balance[t], [held[t] EXCEPT ![h] = 0], [due[t] EXCEPT ![h] = 0],
                   unheld[t], SCALAR, SharesComeOutEven(t))
<1> DEFINE e == Updated(t)
           s == [index |-> e.index, accrued |-> 0]
           vs == [user[t] EXCEPT ![h] = s]
           bs == balance[t]
           gs == [held[t] EXCEPT ![h] = 0]
           es == [due[t] EXCEPT ![h] = 0]
           o == 0
           i == IndexAt(emis[t], now, Total(bs), SCALAR)
<1>1. /\ InStep(e, user[t], bs) /\ e.index = i
      /\ Supply(t) # 0 => PendingAt(e, now) = 0
      /\ Supply(t) = 0 => e = emis[t]
      /\ Supply(t) = Total(bs) /\ Supply(t) \in Nat
  BY UpdatedIsCurrent
<1>2. /\ now \in Nat /\ SCALAR \in Nat /\ IsFiniteSet(Holders)
      /\ e \in EmissionDatas /\ e.last_time <= now /\ e.index \in Int
      /\ user[t] \in [Holders -> UserDatas] /\ bs \in [Holders -> Nat]
  BY <1>1, UnitIsNat, PoolEmissionsAssumption DEF AccountInv, EmissionInv, InStep, EmissionDatas
<1>3. InAccount(Holders, emis[t], now, user[t], bs, held[t], due[t], unheld[t],
                SCALAR, SharesComeOutEven(t))
  BY DEF AccountInv
<1> HIDE DEF e, bs
<1>4. vs[h] = s /\ \A g \in Holders \ {h} : vs[g] = user[t][g] /\ bs[g] = bs[g]
  BY <1>2
<1>5. vs[h].index = e.index /\ vs[h].accrued = 0 /\ 0 \in Int
  BY <1>4
<1>6. o \in Int /\ es = [due[t] EXCEPT ![h] = o] /\ Meets(vs[h].accrued, o, SharesComeOutEven(t))
  BY <1>5, MeetsItself
<1> HIDE DEF vs, es, i, o
<1>7. InAccount(Holders, e, now, user[t], bs, held[t], due[t], unheld[t],
                SCALAR, SharesComeOutEven(t))
  <2>1. CASE Supply(t) = 0
    BY <1>1, <1>3, <2>1
  <2>2. CASE Supply(t) # 0
    <3>1. PendingAt(e, now) = 0 /\ unheld[t] = 0 /\ Total(bs) \in Nat
      BY <1>1, <1>3, <2>2 DEF InAccount
    <3>2. InAccount(Holders, e, now, user[t], bs, held[t], due[t], 0,
                    SCALAR, SharesComeOutEven(t))
      BY <1>1, <1>2, <1>3, <3>1, UpdateAccount DEF i
    <3> QED BY <3>1, <3>2
  <2> QED BY <2>1, <2>2
<1>8. vs[h].index = IndexAt(e, now, Total(bs), SCALAR)
  <2>1. CASE Supply(t) = 0
    BY <1>1, <1>5, <2>1 DEF i
  <2>2. CASE Supply(t) # 0
    <3>1. Total(bs) \in Nat \ {0} /\ PendingAt(e, now) = 0
      BY <1>1, <2>2
    <3>2. IndexAt(e, now, Total(bs), SCALAR) = e.index
      BY <1>2, <3>1, IndexUpToDate
    <3> QED BY <1>5, <3>2
  <2> QED BY <2>1, <2>2
<1>9. vs[h].accrued \in Int /\ \A g \in Holders \ {h} : vs[g] = user[t][g]
  BY <1>4, <1>5
<1>10. InAccount(Holders, e, now, vs, bs, gs, es, unheld[t],
                 SCALAR, SharesComeOutEven(t))
  BY ONLY h \in Holders, <1>2, <1>6, <1>7, <1>8, <1>9, SettleAccount
<1> QED BY <1>10 DEF e, bs, vs, es, gs

LEMMA ChangeBalanceAccounted ==
  ASSUME AccountInv, NEW t \in Tokens, NEW h \in Holders,
         NEW b \in Balances[t], ChangeBalance(t, h, b)
  PROVE  AccountInv'
<1> DEFINE e == Updated(t)
           vs == [user[t] EXCEPT ![h] = Settled(user[t][h], e, balance[t][h], SCALAR)]
           cs == [balance[t] EXCEPT ![h] = b]
           gs == [held[t] EXCEPT ![h] = IF Supply(t) = 0 THEN b * (unheld[t] \div b) ELSE 0]
           es == [due[t] EXCEPT ![h] = due[t][h] + held[t][h] \div Unit]
           un == IF Supply(t) = 0 THEN 0 ELSE unheld[t]
<1>1. InAccount(Holders, e, now, vs, cs, gs, es, un,
                SCALAR, SharesComeOutEven(t))
  BY ChangedAccount DEF ChangeBalance
<1>2. /\ emis \in [Tokens -> EmissionDatas]
      /\ user \in [Tokens -> [Holders -> UserDatas]]
      /\ balance \in [Tokens -> [Holders -> Nat]]
      /\ held \in [Tokens -> [Holders -> Int]] /\ due \in [Tokens -> [Holders -> Int]]
      /\ unheld \in [Tokens -> Int]
      /\ \A y \in Tokens, g \in Holders : balance[y][g] \in Balances[y]
  BY DEF AccountInv, EmissionInv
<1>3. /\ emis' = [emis EXCEPT ![t] = e] /\ user' = [user EXCEPT ![t] = vs]
      /\ balance' = [balance EXCEPT ![t] = cs] /\ held' = [held EXCEPT ![t] = gs]
      /\ due' = [due EXCEPT ![t] = es] /\ unheld' = [unheld EXCEPT ![t] = un]
      /\ now' = now
  BY <1>2 DEF ChangeBalance, SettledBalance
<1>4. EmissionInv'
  BY ChangeBalanceFunded DEF AccountInv
<1>5. gs \in [Holders -> Int] /\ es \in [Holders -> Int] /\ un \in Int
  <2>1. gs \in [Holders -> Int] /\ es \in [Holders -> Int]
    BY <1>1 DEF InAccount
  <2>2. un \in Int
    BY <1>2
  <2> QED BY <2>1, <2>2
<1>6. \A y \in Tokens, g \in Holders : balance'[y][g] \in Balances[y]
  BY <1>2, <1>3
<1> HIDE DEF e, vs, cs, gs, es, un
<1>7. /\ emis'[t] = e /\ user'[t] = vs /\ balance'[t] = cs
      /\ held'[t] = gs /\ due'[t] = es /\ unheld'[t] = un
      /\ \A y \in Tokens \ {t} :
           /\ emis'[y] = emis[y] /\ user'[y] = user[y] /\ balance'[y] = balance[y]
           /\ held'[y] = held[y] /\ due'[y] = due[y] /\ unheld'[y] = unheld[y]
  BY <1>2, <1>3
<1>8. ASSUME NEW y \in Tokens
      PROVE  InAccount(Holders, emis'[y], now', user'[y], balance'[y], held'[y], due'[y],
                       unheld'[y], SCALAR, SharesComeOutEven(y))
  <2>1. CASE y = t
    BY ONLY <1>1, <1>3, <1>7, <2>1
  <2>2. CASE y # t
    BY <1>3, <1>7, <2>2 DEF AccountInv
  <2> QED BY <2>1, <2>2
<1>9. /\ held' \in [Tokens -> [Holders -> Int]] /\ due' \in [Tokens -> [Holders -> Int]]
      /\ unheld' \in [Tokens -> Int]
  BY <1>2, <1>3, <1>5
<1> QED BY <1>4, <1>6, <1>8, <1>9 DEF AccountInv

LEMMA ClaimAccounted ==
  ASSUME AccountInv, NEW h \in Holders, NEW T \in (SUBSET Tokens) \ {{}},
         Claim(h, T)
  PROVE  AccountInv'
<1> DEFINE vs(t) == [user[t] EXCEPT ![h] = [index |-> Updated(t).index, accrued |-> 0]]
           gs(t) == [held[t] EXCEPT ![h] = 0]
           es(t) == [due[t] EXCEPT ![h] = 0]
<1>1. /\ held \in [Tokens -> [Holders -> Int]] /\ due \in [Tokens -> [Holders -> Int]]
      /\ unheld \in [Tokens -> Int]
      /\ \A t \in Tokens, g \in Holders : balance[t][g] \in Balances[t]
      /\ \A t \in Tokens : InAccount(Holders, emis[t], now, user[t], balance[t], held[t],
                                     due[t], unheld[t], SCALAR, SharesComeOutEven(t))
  BY DEF AccountInv
<1>2. EmissionInv'
  BY ClaimFunded DEF AccountInv
<1>3. /\ emis' = [t \in Tokens |-> IF t \in T THEN Updated(t) ELSE emis[t]]
      /\ user' = [t \in Tokens |-> IF t \in T THEN vs(t) ELSE user[t]]
      /\ held' = [t \in Tokens |-> IF t \in T THEN gs(t) ELSE held[t]]
      /\ due' = [t \in Tokens |-> IF t \in T THEN es(t) ELSE due[t]]
      /\ balance' = balance /\ now' = now /\ unheld' = unheld
  BY DEF Claim
<1>4. ASSUME NEW t \in Tokens
      PROVE  gs(t) \in [Holders -> Int] /\ es(t) \in [Holders -> Int]
  BY <1>1
<1>5. ASSUME NEW t \in Tokens
      PROVE  InAccount(Holders, Updated(t), now, vs(t), balance[t], gs(t),
                       es(t), unheld[t], SCALAR, SharesComeOutEven(t))
  BY ClaimedAccount
<1> HIDE DEF vs, gs, es
<1>6. ASSUME NEW t \in Tokens
      PROVE  InAccount(Holders, emis'[t], now', user'[t], balance'[t], held'[t], due'[t],
                       unheld'[t], SCALAR, SharesComeOutEven(t))
  <2>1. CASE t \in T
    <3>1. /\ emis'[t] = Updated(t) /\ user'[t] = vs(t) /\ balance'[t] = balance[t]
          /\ held'[t] = gs(t) /\ due'[t] = es(t) /\ unheld'[t] = unheld[t] /\ now' = now
      BY <1>3, <2>1
    <3> QED BY ONLY t \in Tokens, <1>5, <3>1
  <2>2. CASE t \notin T
    <3>1. /\ emis'[t] = emis[t] /\ user'[t] = user[t] /\ balance'[t] = balance[t]
          /\ held'[t] = held[t] /\ due'[t] = due[t] /\ unheld'[t] = unheld[t] /\ now' = now
      BY <1>3, <2>2
    <3> QED BY ONLY t \in Tokens, <1>1, <3>1
  <2> QED BY <2>1, <2>2
<1>7. /\ held' \in [Tokens -> [Holders -> Int]] /\ due' \in [Tokens -> [Holders -> Int]]
      /\ unheld' \in [Tokens -> Int]
  BY <1>1, <1>3, <1>4
<1>8. \A t \in Tokens, g \in Holders : balance'[t][g] \in Balances[t]
  BY <1>1, <1>3
<1> QED BY <1>2, <1>6, <1>7, <1>8 DEF AccountInv

(* A gulp settles no one: it brings the index up to date first.            *)
LEMMA GulpEmissionsAccounted ==
  ASSUME AccountInv, NEW n \in Gulps, NEW enabled, GulpEmissions(n, enabled)
  PROVE  AccountInv'
<1> DEFINE E == Enabled(enabled)
           r(t) == Renewed(Updated(t), PartOf(t, enabled, n), now)
           i(t) == IndexAt(emis[t], now, Total(balance[t]), SCALAR)
<1>1. /\ held \in [Tokens -> [Holders -> Int]] /\ due \in [Tokens -> [Holders -> Int]]
      /\ unheld \in [Tokens -> Int]
      /\ \A t \in Tokens, g \in Holders : balance[t][g] \in Balances[t]
      /\ \A t \in Tokens : InAccount(Holders, emis[t], now, user[t], balance[t], held[t],
                                     due[t], unheld[t], SCALAR, SharesComeOutEven(t))
  BY DEF AccountInv
<1>2. EmissionInv'
  BY GulpEmissionsFunded DEF AccountInv
<1>3. /\ emis' = [t \in Tokens |-> IF t \in E THEN r(t) ELSE emis[t]]
      /\ unheld' = [t \in Tokens |-> IF t \in E THEN 0 ELSE unheld[t]]
      /\ user' = user /\ balance' = balance /\ now' = now /\ held' = held /\ due' = due
  BY DEF GulpEmissions
<1>4. ASSUME NEW t \in Tokens, t \in E
      PROVE  InAccount(Holders, r(t), now, user[t], balance[t], held[t],
                       due[t], 0, SCALAR, SharesComeOutEven(t))
  <2>1. /\ Updated(t).index = i(t) /\ Updated(t) \in EmissionDatas
        /\ Total(balance[t]) \in Nat
    BY UpdatedIsCurrent DEF InStep
  <2>2. r(t).index = Updated(t).index /\ r(t).last_time = now
    BY <2>1 DEF Renewed, EmissionDatas
  <2>3. emis'[t] = r(t)
    BY <1>3, <1>4
  <2>4. r(t) \in EmissionDatas /\ now \in Nat /\ SCALAR \in Nat
    BY <1>2, <2>3, UnitIsNat DEF EmissionInv, AccountInv
  <2> HIDE DEF r
  <2>5. PendingAt(r(t), now) = 0
    <3>1. r(t).eps \in Nat /\ r(t).expiration \in Nat
      BY <2>4 DEF EmissionDatas
    <3>2. CASE ~(now < r(t).expiration)
      BY <2>2, <3>2 DEF PendingAt
    <3>3. CASE now < r(t).expiration
      <4>1. MinOf(now, r(t).expiration) - r(t).last_time = 0
        BY <2>2, <2>4, <3>1, <3>3 DEF MinOf
      <4>2. PendingAt(r(t), now) = 0 * r(t).eps
        BY <2>2, <3>3, <4>1 DEF PendingAt
      <4> QED BY <3>1, <4>2
    <3> QED BY <3>2, <3>3
  <2>6. r(t).index = i(t) /\ r(t).index \in Int
    BY <2>1, <2>2 DEF EmissionDatas
  <2> QED BY <1>1, <2>1, <2>4, <2>5, <2>6, UpdateAccount
<1> HIDE DEF r
<1>5. ASSUME NEW t \in Tokens
      PROVE  InAccount(Holders, emis'[t], now', user'[t], balance'[t], held'[t], due'[t],
                       unheld'[t], SCALAR, SharesComeOutEven(t))
  <2>1. CASE t \in E
    <3>1. emis'[t] = r(t) /\ unheld'[t] = 0
      BY <1>3, <2>1
    <3> QED BY <1>3, <1>4, <2>1, <3>1
  <2>2. CASE t \notin E
    <3>1. emis'[t] = emis[t] /\ unheld'[t] = unheld[t]
      BY <1>3, <2>2
    <3> QED BY <1>1, <1>3, <3>1
  <2> QED BY <2>1, <2>2
<1>6. unheld' \in [Tokens -> Int]
  BY <1>1, <1>3
<1> QED BY <1>1, <1>2, <1>3, <1>5, <1>6 DEF AccountInv

LEMMA TickAccounted ==
  ASSUME AccountInv, Tick
  PROVE  AccountInv'
<1> DEFINE emitted(t) == EmittedAt(emis[t], now, SCALAR)
           gs(t) == SharedOut(Holders, balance[t], held[t], emitted(t))
           un(t) == IF Total(balance[t]) = 0 THEN unheld[t] + emitted(t) ELSE unheld[t]
<1>1. /\ held \in [Tokens -> [Holders -> Int]] /\ due \in [Tokens -> [Holders -> Int]]
      /\ unheld \in [Tokens -> Int]
      /\ \A t \in Tokens, g \in Holders : balance[t][g] \in Balances[t]
      /\ \A t \in Tokens : InAccount(Holders, emis[t], now, user[t], balance[t], held[t],
                                     due[t], unheld[t], SCALAR, SharesComeOutEven(t))
  BY DEF AccountInv
<1>2. EmissionInv /\ EmissionInv'
  BY TickFunded DEF AccountInv
<1>3. /\ held' = [t \in Tokens |-> gs(t)]
      /\ unheld' = [t \in Tokens |-> un(t)]
      /\ UNCHANGED <<balance, emis, user, due>> /\ now' = now + 1
  BY DEF Tick, Supply, EmittedAt, SharedOut
<1>4. ASSUME NEW t \in Tokens
      PROVE  /\ InAccount(Holders, emis[t], now + 1, user[t], balance[t],
                          gs(t), due[t], un(t), SCALAR, SharesComeOutEven(t))
             /\ un(t) \in Int
  <2> DEFINE y == emitted(t)
  <2>1. /\ now \in Nat /\ emis[t] \in EmissionDatas /\ emis[t].last_time <= now
        /\ balance[t] \in [Holders -> Nat] /\ \A h \in Holders : user[t][h].index \in Int
    BY <1>2 DEF EmissionInv, InStep, UserDatas
  <2>2. SCALAR \in Nat /\ IsFiniteSet(Holders)
    BY UnitIsNat, PoolEmissionsAssumption
  <2>3. SharesComeOutEven(t) => (Total(balance[t]) # 0 => SCALAR % Total(balance[t]) = 0)
    BY <1>1, <2>1, SupplyIsEven
  <2>5. y \in Int
    <3>1. emis[t].eps \in Nat
      BY <2>1 DEF EmissionDatas
    <3>2. emis[t].eps * SCALAR \in Int
      BY <2>2, <3>1
    <3> QED BY <3>2 DEF EmittedAt
  <2>6. un(t) \in Int
    <3> HIDE DEF y
    <3>1. unheld[t] \in Int /\ un(t) = IF Total(balance[t]) = 0 THEN unheld[t] + y ELSE unheld[t]
      BY <1>1 DEF y
    <3> HIDE DEF un
    <3> QED BY <2>5, <3>1
  <2>7. InAccount(Holders, emis[t], now + 1, user[t], balance[t], gs(t),
                  due[t], un(t), SCALAR, SharesComeOutEven(t))
    BY <1>1, <2>1, <2>2, <2>3, TickAccount
  <2> QED BY <2>6, <2>7
<1>5. ASSUME NEW t \in Tokens
      PROVE  gs(t) \in [Holders -> Int]
  <2> HIDE DEF gs, un
  <2> QED BY <1>4 DEF InAccount
<1> HIDE DEF gs, un
<1>6. held' \in [Tokens -> [Holders -> Int]] /\ unheld' \in [Tokens -> Int]
  BY <1>3, <1>4, <1>5
<1>7. ASSUME NEW t \in Tokens
      PROVE  InAccount(Holders, emis'[t], now', user'[t], balance'[t], held'[t], due'[t],
                       unheld'[t], SCALAR, SharesComeOutEven(t))
  <2>1. held'[t] = gs(t) /\ unheld'[t] = un(t)
    BY <1>3
  <2> QED BY <1>3, <1>4, <2>1
<1> QED BY <1>1, <1>2, <1>3, <1>6, <1>7 DEF AccountInv

LEMMA RestAccounted ==
  ASSUME AccountInv, \/ \E s \in Shares : SetPoolEmissions(s)
                     \/ UNCHANGED vars
  PROVE  AccountInv'
<1>1. EmissionInv'
  BY SetPoolEmissionsFunded, StutterFunded DEF AccountInv
<1>2. UNCHANGED <<now, balance, emis, user, held, unheld, due>>
  BY DEF SetPoolEmissions, vars
<1> QED BY <1>1, <1>2 DEF AccountInv

LEMMA InitIsAccounted ==
  ASSUME Init
  PROVE  AccountInv
<1>1. EmissionInv
  BY InitIsFunded
<1>2. /\ \A t \in Tokens, h \in Holders : balance[t][h] \in Balances[t]
      /\ held = [t \in Tokens |-> [h \in Holders |-> 0]]
      /\ due = [t \in Tokens |-> [h \in Holders |-> 0]]
      /\ unheld = [t \in Tokens |-> 0]
      /\ emis = [t \in Tokens |-> NoEmissions]
      /\ user = [t \in Tokens |-> [h \in Holders |-> NothingAccrued]]
  BY DEF Init
<1>3. /\ held \in [Tokens -> [Holders -> Int]] /\ due \in [Tokens -> [Holders -> Int]]
      /\ unheld \in [Tokens -> Int]
  BY <1>2
<1>4. ASSUME NEW t \in Tokens
      PROVE  InAccount(Holders, emis[t], now, user[t], balance[t], held[t],
                       due[t], unheld[t], SCALAR, SharesComeOutEven(t))
  <2> DEFINE s == Total(balance[t])
  <2>1. balance[t] \in [Holders -> Nat] /\ s \in Nat /\ SCALAR \in Nat
    <3>1. balance[t] \in [Holders -> Nat]
      BY <1>1 DEF EmissionInv
    <3> QED BY <3>1, TotalIsCount, PoolEmissionsAssumption, UnitIsNat
  <2>2. emis[t].index = 0 /\ PendingAt(emis[t], now) = 0
    BY <1>2 DEF NoEmissions, PendingAt
  <2> HIDE DEF s
  <2>4. IndexAt(emis[t], now, s, SCALAR) = 0
    BY <2>1, <2>2, IndexUpToDate
  <2>5. 0 * SCALAR = 0
    BY <2>1
  <2>6. ASSUME NEW h \in Holders
        PROVE  /\ Meets(user[t][h].accrued, due[t][h], SharesComeOutEven(t))
               /\ Meets(balance[t][h] * (IndexAt(emis[t], now, s, SCALAR) - user[t][h].index),
                         held[t][h], SharesComeOutEven(t))
    <3>1. /\ user[t][h].index = 0 /\ user[t][h].accrued = 0
          /\ held[t][h] = 0 /\ due[t][h] = 0
      BY <1>2 DEF NothingAccrued
    <3>2. balance[t][h] * (0 - 0) = 0
      BY <2>1
    <3> QED BY <2>4, <3>1, <3>2, MeetsItself
  <2>7. unheld[t] = 0 /\ held[t] \in [Holders -> Int] /\ due[t] \in [Holders -> Int]
    BY <1>2, <1>3
  <2> QED BY <2>2, <2>5, <2>6, <2>7 DEF InAccount, s
<1> QED BY <1>1, <1>2, <1>3, <1>4 DEF AccountInv

(* A claim pays no less than what the holder's balances earned in the      *)
(* seconds it held them, and just that where the shares come out even.     *)
THEOREM HoldersArePaidInFull == Spec => []PaidForWhatWasHeld
<1>1. Init => AccountInv
  BY InitIsAccounted
<1>2. AccountInv /\ [Next]_vars => AccountInv'
  <2> SUFFICES ASSUME AccountInv, [Next]_vars PROVE AccountInv'
    OBVIOUS
  <2>1. ASSUME NEW t \in Tokens, NEW h \in Holders, NEW b \in Balances[t],
               ChangeBalance(t, h, b)
        PROVE  AccountInv'
    BY <2>1, ChangeBalanceAccounted
  <2>2. ASSUME NEW h \in Holders, NEW T \in (SUBSET Tokens) \ {{}}, Claim(h, T)
        PROVE  AccountInv'
    BY <2>2, ClaimAccounted
  <2>3. ASSUME NEW s \in Shares, SetPoolEmissions(s) PROVE AccountInv'
    BY <2>3, RestAccounted
  <2>4. ASSUME NEW n \in Gulps, NEW enabled \in SUBSET ReserveIndices,
               GulpEmissions(n, enabled)
        PROVE  AccountInv'
    BY <2>4, GulpEmissionsAccounted
  <2>5. CASE Tick
    BY <2>5, TickAccounted
  <2>6. CASE UNCHANGED vars
    BY <2>6, RestAccounted
  <2> QED BY Zenon, <2>1, <2>2, <2>3, <2>4, <2>5, <2>6 DEF Next
<1>3. AccountInv => PaidForWhatWasHeld
  BY SettledIsEarned DEF PaidForWhatWasHeld, Meets
<1> QED BY <1>1, <1>2, <1>3, PTL DEF Spec
=============================================================================
