----------------------- MODULE BackstopEmissionProofs -----------------------
(***************************************************************************)
(* What the backstop distributes was minted for it, or will be dropped:    *)
(* EmissionsAreMinted, for any pools, depositors, times and orders of the  *)
(* emitter's and the backstop's calls.                                     *)
(*                                                                         *)
(* The argument is that of PoolEmissionProofs: what is owed is followed to *)
(* the fraction, in units of 1 / (SCALAR_7 * SCALAR_7) of a token.  What   *)
(* is new is where the tokens come from.  The emitter mints for the        *)
(* seconds until its last distribution, the backstop distributes for those *)
(* until its own: the tokens of the seconds between the two are still to   *)
(* be distributed.  While it backfills there are no such seconds, and what *)
(* it distributes is to be dropped.  Hence the shape of MintedInv: once it *)
(* emits, the emitter has adopted it and is never behind it.               *)
(*                                                                         *)
(* Every depositor is paid no less than what the shares it had have earned,*)
(* and exactly that where they come out even: PaidForWhatWasDeposited, by  *)
(* AccountInv.                                                             *)
(***************************************************************************)
EXTENDS BackstopEmissions, ArithmeticProofs

---------------------------------------------------------------------------
Unit == SCALAR_7 * SCALAR_7

UserDatas == [index : Nat, accrued : Nat]
Rewards   == [accrued : Nat, last_time : Nat]

Indices(p, us)  == [u \in Depositors[p] |-> us[u].index]
Accruals(p, us) == [u \in Depositors[p] |-> us[u].accrued]

(* What p's depositors us of shares bs are owed by the index of d.         *)
OwedNow(p, d, us, bs) ==
  OwedAt(Depositors[p], Accruals(p, us), bs, Indices(p, us), d.index, Unit)

(* What d has still to emit.                                               *)
Still(d) ==
  IF d.last_time < d.expiration
  THEN d.eps * (d.expiration - d.last_time) * SCALAR_7 ELSE 0

OwedExactly(p, d, us, bs) == Total(OwedNow(p, d, us, bs)) + Still(d)

(* The data of one pool: no depositor is ahead of the index.               *)
InStep(p, d, us, bs) ==
  /\ d \in EmissionDatas
  /\ us \in [Depositors[p] -> UserDatas] /\ bs \in [Depositors[p] -> Nat]
  /\ \A u \in Depositors[p] : us[u].index <= d.index

(* All p was credited with and was not paid.                               *)
Credit(p, r, d, us, bs) == r.accrued * Unit + OwedExactly(p, d, us, bs)

(* What was minted for the backstop and is not distributed yet; what it    *)
(* distributed and is still to be minted.                                  *)
Pending == IF backfill_status = "emitting" THEN (distro - last_distribution) * SCALAR_7 ELSE 0
Backing == IF dropped THEN 0 ELSE backfill_emissions

TypesHold ==
  /\ now \in Nat /\ distro \in Nat /\ blnd \in Nat /\ allowance \in Nat
  /\ backfill_emissions \in Nat /\ last_distribution \in Nat
  /\ backfill_status \in {"none", "backfilling", "emitting"}
  /\ dropped \in BOOLEAN
  /\ zone \subseteq Pools
  /\ rz_emis \in [Pools -> Rewards]
  /\ emis \in [Pools -> EmissionDatas]
  /\ user = [p \in Pools |-> user[p]] /\ shares = [p \in Pools |-> shares[p]]

(* The order of the calls to the emitter and to the backstop.              *)
CallsInOrder ==
  /\ backfill_status = "none" => last_distribution = 0
  /\ backfill_status = "emitting" => distro # 0 /\ last_distribution <= distro
  /\ dropped => distro # 0

MintedInv ==
  /\ TypesHold
  /\ CallsInOrder
  /\ \A p \in Pools : InStep(p, emis[p], user[p], shares[p]) /\ emis[p].last_time <= now
  /\ Total([p \in Pools |-> Credit(p, rz_emis[p], emis[p], user[p], shares[p])])
         + (allowance + Pending) * Unit
       <= (blnd + Backing) * Unit

---------------------------------------------------------------------------
LEMMA UnitIsNat ==
  /\ SCALAR_7 \in Nat \ {0} /\ Unit \in Nat \ {0}
  /\ SECONDS_PER_WEEK \in Nat \ {0}
<1>1. /\ SCALAR_7 \in Nat \ {0}
      /\ SECONDS_PER_WEEK \in Nat \ {0}
  BY EmissionDataAssumption
<1> QED BY <1>1 DEF Unit

LEMMA DepositorsFinite ==
  /\ IsFiniteSet(Pools)
  /\ \A p \in Pools : IsFiniteSet(Depositors[p])
<1> SUFFICES ASSUME NEW p \in Pools PROVE IsFiniteSet(Depositors[p])
  BY BackstopEmissionsAssumption
<1>1. Depositors[p] \subseteq Users
  BY DEF Users
<1> QED BY <1>1, BackstopEmissionsAssumption, FS_Subset

LEMMA OwedIsCount ==
  ASSUME NEW p \in Pools, NEW d, NEW us, NEW bs, InStep(p, d, us, bs)
  PROVE  /\ OwedNow(p, d, us, bs) \in [Depositors[p] -> Nat]
         /\ Total(OwedNow(p, d, us, bs)) \in Nat
         /\ Still(d) \in Nat
         /\ OwedExactly(p, d, us, bs) \in Nat
<1>1. /\ Accruals(p, us) \in [Depositors[p] -> Nat] /\ Indices(p, us) \in [Depositors[p] -> Nat]
      /\ bs \in [Depositors[p] -> Nat] /\ d.index \in Nat
      /\ \A u \in Depositors[p] : Indices(p, us)[u] <= d.index
  BY DEF InStep, Accruals, Indices, UserDatas, EmissionDatas
<1>2. OwedNow(p, d, us, bs) \in [Depositors[p] -> Nat]
  BY <1>1, UnitIsNat, OwedIsNat DEF OwedNow
<1>3. Total(OwedNow(p, d, us, bs)) \in Nat
  BY <1>2, TotalIsCount, DepositorsFinite
<1>4. Still(d) \in Nat
  <2>1. d.eps \in Nat /\ d.expiration \in Nat /\ d.last_time \in Nat /\ SCALAR_7 \in Nat
    BY UnitIsNat DEF InStep, EmissionDatas
  <2>2. d.last_time < d.expiration => d.eps * (d.expiration - d.last_time) \in Nat
    BY <2>1
  <2> QED BY <2>1, <2>2 DEF Still
<1> QED BY <1>2, <1>3, <1>4 DEF OwedExactly

---------------------------------------------------------------------------
(* Only one depositor's data change: what is owed changes with them.       *)
LEMMA OneDepositor ==
  ASSUME NEW p \in Pools, NEW d, NEW us, NEW bs, InStep(p, d, us, bs),
         NEW vs, NEW cs, InStep(p, d, vs, cs),
         NEW u \in Depositors[p],
         \A g \in Depositors[p] \ {u} : vs[g] = us[g] /\ cs[g] = bs[g],
         NEW x \in Nat,
         vs[u].accrued * Unit + cs[u] * (d.index - vs[u].index) + x
           <= us[u].accrued * Unit + bs[u] * (d.index - us[u].index)
  PROVE  OwedExactly(p, d, vs, cs) + x <= OwedExactly(p, d, us, bs)
<1> DEFINE f == OwedNow(p, d, us, bs)
           g == OwedNow(p, d, vs, cs)
<1>1. f \in [Depositors[p] -> Nat] /\ g \in [Depositors[p] -> Nat]
  BY OwedIsCount
<1>2. /\ \A y \in Depositors[p] : f[y] = us[y].accrued * Unit + bs[y] * (d.index - us[y].index)
      /\ \A y \in Depositors[p] : g[y] = vs[y].accrued * Unit + cs[y] * (d.index - vs[y].index)
  BY DEF OwedNow, OwedAt, Accruals, Indices
<1> HIDE DEF f, g
<1>3. \A y \in Depositors[p] \ {u} : f[y] = g[y]
  BY <1>2
<1>4. Total(g) + f[u] = Total(f) + g[u]
  BY <1>1, <1>3, TotalChange, DepositorsFinite
<1>5. g[u] + x <= f[u]
  BY <1>2
<1>6. /\ Total(f) \in Nat /\ Total(g) \in Nat /\ Still(d) \in Nat
      /\ f[u] \in Nat /\ g[u] \in Nat
  BY <1>1, OwedIsCount DEF f, g
<1> QED BY <1>4, <1>5, <1>6 DEF OwedExactly, f, g

(* What is settled is what is owed, rounded down.                          *)
LEMMA SettledIsLess ==
  ASSUME NEW p \in Pools, NEW d, NEW us, NEW bs, InStep(p, d, us, bs),
         NEW u \in Depositors[p]
  PROVE  /\ Settled(us[u], d, bs[u], SCALAR_7).accrued \in Nat
         /\ Settled(us[u], d, bs[u], SCALAR_7).index = d.index
         /\ Settled(us[u], d, bs[u], SCALAR_7) \in UserDatas
         /\ Settled(us[u], d, bs[u], SCALAR_7).accrued * Unit
              <= us[u].accrued * Unit + bs[u] * (d.index - us[u].index)
<1> DEFINE a == us[u].accrued
           n == bs[u] * (d.index - us[u].index)
           q == FloorDiv(n, Unit)
<1>1. /\ a \in Nat /\ bs[u] \in Nat /\ us[u].index \in Nat /\ d.index \in Nat
      /\ us[u].index <= d.index
  BY DEF InStep, UserDatas, EmissionDatas
<1>2. n \in Nat /\ n \in Int
  <2>1. d.index - us[u].index \in Nat
    BY <1>1
  <2> QED BY <1>1, <2>1
<1>3. Settled(us[u], d, bs[u], SCALAR_7) = [index |-> d.index, accrued |-> a + q]
  BY DEF Settled, MulFloor, Unit
<1> HIDE DEF a, n
<1>4. q \in Nat /\ q * Unit <= n
  BY <1>2, UnitIsNat, FloorOfNat, FloorBounds
<1> HIDE DEF q
<1>5. a + q \in Nat /\ (a + q) * Unit = a * Unit + q * Unit
  BY <1>1, <1>4, UnitIsNat
<1>6. (a + q) * Unit <= a * Unit + n
  <2>1. a * Unit \in Nat /\ q * Unit \in Nat
    BY <1>1, <1>4, UnitIsNat
  <2> QED BY <1>2, <1>4, <1>5, <2>1
<1> QED BY <1>1, <1>3, <1>5, <1>6 DEF UserDatas, a, n

(* update_emissions before a change of the balance.                        *)
LEMMA SettledIsCovered ==
  ASSUME NEW p \in Pools, NEW d, NEW us, NEW bs, InStep(p, d, us, bs),
         NEW u \in Depositors[p], NEW b \in Nat
  PROVE  LET vs == [us EXCEPT ![u] = Settled(us[u], d, bs[u], SCALAR_7)]
             cs == [bs EXCEPT ![u] = b]
         IN  InStep(p, d, vs, cs) /\ OwedExactly(p, d, vs, cs) <= OwedExactly(p, d, us, bs)
<1> DEFINE s == Settled(us[u], d, bs[u], SCALAR_7)
           vs == [us EXCEPT ![u] = s]
           cs == [bs EXCEPT ![u] = b]
<1>1. /\ s \in UserDatas /\ s.index = d.index /\ s.accrued \in Nat
      /\ s.accrued * Unit <= us[u].accrued * Unit + bs[u] * (d.index - us[u].index)
  BY SettledIsLess
<1> HIDE DEF s
<1>2. us \in [Depositors[p] -> UserDatas] /\ bs \in [Depositors[p] -> Nat] /\ d.index \in Nat
  BY DEF InStep, EmissionDatas
<1>3. /\ vs \in [Depositors[p] -> UserDatas] /\ cs \in [Depositors[p] -> Nat]
      /\ vs[u] = s /\ cs[u] = b
      /\ \A g \in Depositors[p] \ {u} : vs[g] = us[g] /\ cs[g] = bs[g]
  BY <1>1, <1>2
<1> HIDE DEF vs, cs
<1>4. InStep(p, d, vs, cs)
  <2>1. \A g \in Depositors[p] : vs[g].index <= d.index
    BY <1>1, <1>2, <1>3 DEF InStep
  <2> QED BY <1>3, <2>1 DEF InStep
<1>5. vs[u].accrued * Unit + cs[u] * (d.index - vs[u].index) + 0
        <= us[u].accrued * Unit + bs[u] * (d.index - us[u].index)
  <2>1. cs[u] * (d.index - vs[u].index) = 0
    BY <1>1, <1>2, <1>3
  <2>2. s.accrued * Unit \in Nat
    BY <1>1, UnitIsNat
  <2> QED BY <1>1, <1>3, <2>1, <2>2
<1>6. OwedExactly(p, d, vs, cs) + 0 <= OwedExactly(p, d, us, bs)
  <2>1. 0 \in Nat
    OBVIOUS
  <2> QED BY <1>3, <1>4, <1>5, <2>1, OneDepositor
<1>7. OwedExactly(p, d, vs, cs) \in Nat
  BY <1>4, OwedIsCount
<1> QED BY <1>4, <1>6, <1>7 DEF vs, cs, s

(* A claim pays no more than it writes off, and the shares it buys have    *)
(* earned nothing yet.                                                     *)
LEMMA ClaimedIsCovered ==
  ASSUME NEW p \in Pools, NEW d, NEW us, NEW bs, InStep(p, d, us, bs),
         NEW u \in Depositors[p], NEW b \in Nat
  PROVE  LET vs == [us EXCEPT ![u] = [index |-> d.index, accrued |-> 0]]
             cs == [bs EXCEPT ![u] = b]
         IN  /\ InStep(p, d, vs, cs)
             /\ OwedExactly(p, d, vs, cs) + Settled(us[u], d, bs[u], SCALAR_7).accrued * Unit
                  <= OwedExactly(p, d, us, bs)
<1> DEFINE s == Settled(us[u], d, bs[u], SCALAR_7).accrued
           v == [index |-> d.index, accrued |-> 0]
           vs == [us EXCEPT ![u] = v]
           cs == [bs EXCEPT ![u] = b]
           x == s * Unit
<1>1. /\ s \in Nat
      /\ s * Unit <= us[u].accrued * Unit + bs[u] * (d.index - us[u].index)
  BY SettledIsLess
<1> HIDE DEF s
<1>2. us \in [Depositors[p] -> UserDatas] /\ bs \in [Depositors[p] -> Nat] /\ d.index \in Nat
  BY DEF InStep, EmissionDatas
<1>3. v \in UserDatas /\ v.index = d.index /\ v.accrued = 0
  BY <1>2 DEF UserDatas
<1> HIDE DEF v
<1>4. /\ vs \in [Depositors[p] -> UserDatas] /\ vs[u] = v
      /\ cs \in [Depositors[p] -> Nat] /\ cs[u] = b
      /\ \A g \in Depositors[p] \ {u} : vs[g] = us[g] /\ cs[g] = bs[g]
  BY <1>2, <1>3
<1> HIDE DEF vs, cs
<1>5. InStep(p, d, vs, cs)
  <2>1. \A g \in Depositors[p] : vs[g].index <= d.index
    BY <1>2, <1>3, <1>4 DEF InStep
  <2> QED BY <1>4, <2>1 DEF InStep
<1>6. x \in Nat
  BY <1>1, UnitIsNat
<1>7. vs[u].accrued * Unit + cs[u] * (d.index - vs[u].index) + x
        <= us[u].accrued * Unit + bs[u] * (d.index - us[u].index)
  <2>1. cs[u] * (d.index - vs[u].index) = 0
    BY <1>2, <1>3, <1>4
  <2>2. vs[u].accrued * Unit = 0
    BY <1>3, <1>4, UnitIsNat
  <2> QED BY <1>1, <1>6, <2>1, <2>2
<1>8. OwedExactly(p, d, vs, cs) + x <= OwedExactly(p, d, us, bs)
  <2> HIDE DEF x
  <2> QED BY <1>4, <1>5, <1>6, <1>7, OneDepositor
<1> QED BY <1>5, <1>8 DEF vs, cs, v, s

(* A stream renewed with n tokens emits at most n more than it would have. *)
LEMMA RenewedIsCovered ==
  ASSUME NEW p \in Pools, NEW t \in Nat, NEW d, NEW us, NEW bs, InStep(p, d, us, bs),
         d.last_time <= t, NEW n \in Nat
  PROVE  /\ InStep(p, Renewed(d, n, t), us, bs)
         /\ OwedExactly(p, Renewed(d, n, t), us, bs) <= OwedExactly(p, d, us, bs) + n * Unit
<1> DEFINE W == SECONDS_PER_WEEK
           rest == Unemitted(d, t)
           e == FloorDiv((n + rest) * SCALAR_7, W)
           r == Renewed(d, n, t)
<1>1. /\ d.eps \in Nat /\ d.expiration \in Nat /\ d.index \in Nat /\ d.last_time \in Nat
      /\ d.last_time <= t /\ d \in EmissionDatas
  BY DEF InStep, EmissionDatas
<1>2. W \in Nat \ {0} /\ SCALAR_7 \in Nat \ {0}
  BY UnitIsNat
<1>3. rest \in Nat /\ rest * Unit <= Still(d)
  <2>1. CASE d.expiration <= t
    <3>1. rest = 0
      BY <1>1, <2>1 DEF Unemitted
    <3>2. Still(d) \in Nat
      BY OwedIsCount
    <3> QED BY <3>1, <3>2, UnitIsNat
  <2>2. CASE d.expiration > t
    <3> DEFINE m == d.eps * (d.expiration - t)
               k == d.eps * (d.expiration - d.last_time)
    <3>1. rest = FloorDiv(m, SCALAR_7)
      BY <2>2 DEF Unemitted, MulFloor
    <3>2. Still(d) = k * SCALAR_7
      <4>1. d.last_time < d.expiration
        BY <1>1, <2>2
      <4> QED BY <4>1 DEF Still
    <3>3. m \in Nat /\ k \in Nat /\ m <= k
      <4>1. /\ d.expiration - t \in Nat /\ d.expiration - d.last_time \in Nat
            /\ d.expiration - t <= d.expiration - d.last_time
        BY <1>1, <2>2
      <4> DEFINE y == d.expiration - t
                 z == d.expiration - d.last_time
      <4> HIDE DEF y, z
      <4>2. y \in Nat /\ z \in Nat /\ y <= z
        BY <4>1 DEF y, z
      <4>3. d.eps * y \in Nat /\ d.eps * z \in Nat /\ d.eps * y <= d.eps * z
        BY <1>1, <4>2
      <4> QED BY <4>3 DEF y, z
    <3> HIDE DEF m, k, rest
    <3>4. rest \in Nat /\ rest * SCALAR_7 <= m
      <4>1. m \in Int
        BY <3>3
      <4> QED BY <1>2, <3>1, <3>3, <4>1, FloorOfNat, FloorBounds
    <3>5. rest * SCALAR_7 \in Nat /\ rest * SCALAR_7 <= k
      BY <1>2, <3>3, <3>4
    <3>6. (rest * SCALAR_7) * SCALAR_7 <= k * SCALAR_7
      <4> DEFINE y == rest * SCALAR_7
      <4>1. y \in Nat /\ y <= k
        BY <3>5
      <4> HIDE DEF y
      <4>2. y * SCALAR_7 <= k * SCALAR_7
        BY <1>2, <3>3, <4>1
      <4> QED BY <4>2 DEF y
    <3>7. (rest * SCALAR_7) * SCALAR_7 = rest * Unit
      BY <1>2, <3>4 DEF Unit
    <3> QED BY <3>2, <3>4, <3>6, <3>7
  <2> QED BY <1>1, <2>1, <2>2
<1> HIDE DEF rest
<1>4. e \in Nat /\ e * W <= (n + rest) * SCALAR_7
  <2> DEFINE m == (n + rest) * SCALAR_7
  <2>1. m \in Nat /\ m \in Int
    BY <1>2, <1>3
  <2> HIDE DEF m
  <2>2. FloorDiv(m, W) \in Nat /\ FloorDiv(m, W) * W <= m
    BY <1>2, <2>1, FloorOfNat, FloorBounds
  <2> QED BY <2>2 DEF m
<1>5. r = [d EXCEPT !.last_time = t, !.expiration = t + W, !.eps = e]
  BY DEF Renewed, rest, FloorDiv
<1> HIDE DEF e
<1>6. /\ r \in EmissionDatas /\ r.index = d.index /\ r.last_time = t
      /\ r.expiration = t + W /\ r.eps = e
  <2>1. t + W \in Nat
    BY <1>2
  <2> HIDE DEF r, W
  <2> QED BY <1>1, <1>4, <1>5, <2>1 DEF EmissionDatas
<1> HIDE DEF r
<1>7. InStep(p, r, us, bs)
  BY <1>6 DEF InStep
<1>8. OwedNow(p, r, us, bs) = OwedNow(p, d, us, bs)
  BY <1>6 DEF OwedNow
<1>9. Still(r) = (e * W) * SCALAR_7
  <2>1. r.last_time < r.expiration /\ r.expiration - r.last_time = W
    BY <1>2, <1>6
  <2> QED BY <1>6, <2>1 DEF Still
<1>10. (e * W) * SCALAR_7 <= (n + rest) * Unit
  <2> DEFINE y == e * W
             z == (n + rest) * SCALAR_7
  <2>1. y \in Nat /\ z \in Nat /\ y <= z
    BY <1>2, <1>3, <1>4
  <2>2. z * SCALAR_7 = (n + rest) * Unit
    BY <1>2, <1>3 DEF Unit
  <2> HIDE DEF y, z
  <2>3. y * SCALAR_7 <= z * SCALAR_7
    BY <1>2, <2>1
  <2> QED BY <2>2, <2>3 DEF y
<1>11. (n + rest) * Unit <= n * Unit + Still(d)
  <2>1. (n + rest) * Unit = n * Unit + rest * Unit
    BY <1>3, UnitIsNat
  <2>2. n * Unit \in Nat /\ rest * Unit \in Nat /\ Still(d) \in Nat
    BY <1>3, UnitIsNat, OwedIsCount
  <2> QED BY <1>3, <2>1, <2>2
<1>12. /\ Total(OwedNow(p, d, us, bs)) \in Nat /\ Still(d) \in Nat /\ Still(r) \in Nat
       /\ n * Unit \in Nat /\ (n + rest) * Unit \in Nat
  BY <1>3, <1>7, OwedIsCount, UnitIsNat
<1>13. Still(r) <= n * Unit + Still(d)
  BY <1>9, <1>10, <1>11, <1>12
<1>14. OwedExactly(p, r, us, bs) <= OwedExactly(p, d, us, bs) + n * Unit
  BY <1>8, <1>12, <1>13 DEF OwedExactly
<1> QED BY <1>7, <1>14 DEF r

---------------------------------------------------------------------------
(* update_emission_data: the index rises by no more than was emitted, and  *)
(* what was emitted while every share was queued is dropped.               *)
LEMMA UpdatedIsCovered ==
  ASSUME MintedInv, NEW p \in Pools
  PROVE  /\ InStep(p, Updated(p), user[p], shares[p])
         /\ Updated(p).index >= emis[p].index /\ Updated(p).last_time <= now
         /\ OwedExactly(p, Updated(p), user[p], shares[p])
              <= OwedExactly(p, emis[p], user[p], shares[p])
<1> DEFINE d == emis[p]
           us == user[p]
           bs == shares[p]
           e == Updated(p)
<1>1. InStep(p, d, us, bs) /\ now \in Nat /\ d.last_time <= now
  BY DEF MintedInv, TypesHold
<1>2. /\ d.eps \in Nat /\ d.expiration \in Nat /\ d.index \in Nat /\ d.last_time \in Nat
  BY <1>1 DEF InStep, EmissionDatas
<1>3. CASE ~Updates(p)
  <2>1. e = d
    BY <1>3 DEF Updated
  <2>2. OwedExactly(p, d, us, bs) \in Nat
    BY <1>1, OwedIsCount
  <2> HIDE DEF d, us, bs, e
  <2> QED BY <1>1, <1>2, <2>1, <2>2 DEF d, us, bs, e
<1>4. CASE Updates(p)
  <2> DEFINE b == Unqueued(p)
             m == Emitted(d, now)
             step == IF b = 0 THEN 0 ELSE FloorDiv(m * SCALAR_7, b)
             last == MinOf(now, d.expiration)
  <2>1. d.last_time < d.expiration
    BY <1>4 DEF Updates, Emitting
  <2>2. /\ last \in Nat /\ last <= now /\ last <= d.expiration /\ d.last_time <= last
        /\ last - d.last_time \in Nat
    BY <1>1, <1>2, <2>1 DEF MinOf
  <2>3. m \in Nat /\ m = (last - d.last_time) * d.eps
    <3>1. m = (last - d.last_time) * d.eps
      BY DEF Emitted
    <3> HIDE DEF m, last
    <3> QED BY <1>2, <2>2, <3>1
  <2>4. b \in Nat /\ b = Total(bs)
    <3>1. bs \in [Depositors[p] -> Nat]
      BY <1>1 DEF InStep
    <3>2. Total(bs) \in Nat
      BY <3>1, TotalIsCount, DepositorsFinite
    <3> QED BY <3>2 DEF Unqueued
  <2>5. e = [d EXCEPT !.index = @ + step, !.last_time = now]
    BY <1>4 DEF Updated, DivFloor, Earning
  <2> HIDE DEF b, m
  <2>6. step \in Nat /\ step * b <= m * SCALAR_7
    <3>1. CASE b = 0
      BY <2>3, <3>1, UnitIsNat
    <3>2. CASE b # 0
      <4> DEFINE n == m * SCALAR_7
      <4>1. n \in Nat /\ n \in Int
        BY <2>3, UnitIsNat
      <4> HIDE DEF n
      <4>2. b \in Nat \ {0}
        BY <2>4, <3>2
      <4>3. FloorDiv(n, b) \in Nat /\ FloorDiv(n, b) * b <= n
        BY <4>1, <4>2, FloorOfNat, FloorBounds
      <4> QED BY <3>2, <4>3 DEF n
    <3> QED BY <3>1, <3>2
  <2> HIDE DEF step, last
  <2>7. /\ e \in EmissionDatas /\ e.eps = d.eps /\ e.expiration = d.expiration
        /\ e.index = d.index + step /\ e.last_time = now
    <3>1. d.index + step \in Nat
      BY <1>2, <2>6
    <3>2. d \in EmissionDatas
      BY <1>1 DEF InStep
    <3> HIDE DEF d, e
    <3> QED BY <1>1, <2>5, <3>1, <3>2 DEF EmissionDatas
  <2>8. InStep(p, e, us, bs) /\ e.index >= d.index /\ e.last_time <= now
    <3>1. \A u \in Depositors[p] : us[u].index \in Nat /\ us[u].index <= d.index
      BY <1>1 DEF InStep, UserDatas
    <3>2. e.index >= d.index /\ \A u \in Depositors[p] : us[u].index <= e.index
      BY <1>2, <2>6, <2>7, <3>1
    <3> QED BY <1>1, <2>7, <3>2 DEF InStep
  <2>9. Total(OwedNow(p, e, us, bs)) <= Total(OwedNow(p, d, us, bs)) + m * SCALAR_7
    <3>1. /\ Accruals(p, us) \in [Depositors[p] -> Nat]
          /\ Indices(p, us) \in [Depositors[p] -> Nat]
          /\ bs \in [Depositors[p] -> Nat]
          /\ \A u \in Depositors[p] : Indices(p, us)[u] <= d.index
      BY <1>1 DEF InStep, Accruals, Indices, UserDatas
    <3>2. Unit \in Nat /\ m * SCALAR_7 \in Nat /\ d.index \in Nat
      BY <1>2, <2>3, UnitIsNat
    <3>3. IsFiniteSet(Depositors[p])
      BY DepositorsFinite
    <3>4. step * Total(bs) <= m * SCALAR_7
      BY <2>4, <2>6
    <3> HIDE DEF d, us, bs, e
    <3>5. Total(OwedAt(Depositors[p], Accruals(p, us), bs, Indices(p, us), d.index + step, Unit))
            <= Total(OwedAt(Depositors[p], Accruals(p, us), bs, Indices(p, us), d.index, Unit))
                 + m * SCALAR_7
      BY <2>6, <3>1, <3>2, <3>3, <3>4, IndexStep
    <3> QED BY <2>7, <3>5 DEF OwedNow
  <2>10. Still(e) + m * SCALAR_7 <= Still(d)
    <3> DEFINE x == d.eps * (d.expiration - last)
               y == d.eps * (d.expiration - d.last_time)
    <3>1. Still(d) = y * SCALAR_7
      BY <2>1 DEF Still
    <3>2. Still(e) = x * SCALAR_7
      <4>1. CASE now < d.expiration
        <5>1. last = now
          BY <1>1, <1>2, <4>1 DEF last, MinOf
        <5> QED BY <2>7, <4>1, <5>1 DEF Still
      <4>2. CASE d.expiration <= now
        <5>1. last = d.expiration
          BY <1>1, <1>2, <4>2 DEF last, MinOf
        <5>2. Still(e) = 0
          BY <1>1, <1>2, <2>7, <4>2 DEF Still
        <5>3. x * SCALAR_7 = 0
          BY <1>2, <5>1, UnitIsNat
        <5> QED BY <5>2, <5>3
      <4> QED BY <1>1, <1>2, <4>1, <4>2
    <3>3. x \in Int /\ y \in Int /\ y = x + m
      <4> HIDE DEF d
      <4> QED BY <1>2, <2>2, <2>3
    <3> HIDE DEF x, y
    <3>4. y * SCALAR_7 = x * SCALAR_7 + m * SCALAR_7
      BY <2>3, <3>3, UnitIsNat
    <3>5. x * SCALAR_7 \in Int /\ m * SCALAR_7 \in Int
      BY <2>3, <3>3, UnitIsNat
    <3> QED BY <3>1, <3>2, <3>4, <3>5
  <2>11. /\ Total(OwedNow(p, d, us, bs)) \in Nat /\ Total(OwedNow(p, e, us, bs)) \in Nat
         /\ Still(d) \in Nat /\ Still(e) \in Nat /\ m * SCALAR_7 \in Nat
    BY <1>1, <2>3, <2>8, OwedIsCount, UnitIsNat
  <2>12. OwedExactly(p, e, us, bs) <= OwedExactly(p, d, us, bs)
    <3> HIDE DEF d, us, bs, e
    <3> QED BY <2>9, <2>10, <2>11 DEF OwedExactly
  <2> QED BY <2>8, <2>12
<1> QED BY <1>3, <1>4

---------------------------------------------------------------------------
LEMMA CreditIsCount ==
  ASSUME NEW p \in Pools, NEW r \in Rewards, NEW d, NEW us, NEW bs, InStep(p, d, us, bs)
  PROVE  Credit(p, r, d, us, bs) \in Nat
<1>1. r.accrued \in Nat /\ Unit \in Nat
  BY UnitIsNat DEF Rewards
<1>2. r.accrued * Unit \in Nat
  BY <1>1
<1>3. OwedExactly(p, d, us, bs) \in Nat
  BY OwedIsCount
<1> QED BY <1>2, <1>3 DEF Credit

LEMMA CallsCount ==
  ASSUME TypesHold, CallsInOrder
  PROVE  Pending \in Nat /\ Backing \in Nat
<1>1. backfill_status = "emitting" => distro - last_distribution \in Nat
  BY DEF TypesHold, CallsInOrder
<1>2. backfill_status = "emitting" => (distro - last_distribution) * SCALAR_7 \in Nat
  BY <1>1, UnitIsNat
<1>3. Backing \in Nat
  BY DEF TypesHold, Backing
<1> QED BY <1>2, <1>3 DEF Pending

LEMMA FundedAfter ==
  ASSUME NEW F \in Nat, NEW G \in Nat, NEW A \in Nat, NEW B \in Nat, NEW a \in Nat, NEW b \in Nat,
         NEW gained \in Nat, NEW paid \in Nat, NEW unit \in Nat,
         F + A * unit <= B * unit, G + unit * paid <= F + unit * gained,
         gained + a + B <= paid + A + b
  PROVE  G + a * unit <= b * unit
<1> DEFINE m == gained + a + B
           n == paid + A + b
<1>1. m \in Nat /\ n \in Nat /\ m <= n
  OBVIOUS
<1>2. /\ unit * m = unit * gained + a * unit + B * unit
      /\ unit * n = unit * paid + A * unit + b * unit
  OBVIOUS
<1> HIDE DEF m, n
<1>3. unit * m <= unit * n
  BY <1>1
<1>4. /\ a * unit \in Nat /\ b * unit \in Nat /\ A * unit \in Nat /\ B * unit \in Nat
      /\ unit * gained \in Nat /\ unit * paid \in Nat
  OBVIOUS
<1> QED BY <1>2, <1>3, <1>4

(* A step may raise what is owed to a pool by what it gains and must lower *)
(* it by what is paid; the tokens follow.                                  *)
LEMMA TokensFollow ==
  ASSUME MintedInv, TypesHold', CallsInOrder',
         \A p \in Pools : InStep(p, emis'[p], user'[p], shares'[p]) /\ emis'[p].last_time <= now',
         NEW gained \in [Pools -> Nat], NEW paid \in [Pools -> Nat],
         \A p \in Pools :
           Credit(p, rz_emis'[p], emis'[p], user'[p], shares'[p]) + paid[p] * Unit
             <= Credit(p, rz_emis[p], emis[p], user[p], shares[p]) + gained[p] * Unit,
         NEW pending \in Nat, NEW backing \in Nat, Pending' = pending, Backing' = backing,
         NEW a \in Nat, NEW b \in Nat, allowance' = a, blnd' = b,
         Total(gained) + (a + pending) + (blnd + Backing)
           <= Total(paid) + (allowance + Pending) + (b + backing)
  PROVE  MintedInv'
<1> DEFINE F == [p \in Pools |-> Credit(p, rz_emis[p], emis[p], user[p], shares[p])]
           G == [p \in Pools |-> Credit(p, rz_emis'[p], emis'[p], user'[p], shares'[p])]
           f == [p \in Pools |-> Unit * gained[p]]
           g == [p \in Pools |-> Unit * paid[p]]
<1>1. IsFiniteSet(Pools) /\ Unit \in Nat /\ Unit \in Nat \ {0}
  BY DepositorsFinite, UnitIsNat
<1>2. F \in [Pools -> Nat]
  <2>1. \A p \in Pools : InStep(p, emis[p], user[p], shares[p]) /\ rz_emis[p] \in Rewards
    BY DEF MintedInv, TypesHold
  <2> QED BY <2>1, CreditIsCount
<1>3. G \in [Pools -> Nat]
  <2>1. \A p \in Pools : rz_emis'[p] \in Rewards
    BY DEF TypesHold
  <2> QED BY <2>1, CreditIsCount
<1>4. /\ f \in [Pools -> Nat] /\ Total(f) = Unit * Total(gained)
      /\ g \in [Pools -> Nat] /\ Total(g) = Unit * Total(paid)
  <2>1. \A p \in Pools : gained[p] \in Nat /\ paid[p] \in Nat
    OBVIOUS
  <2>2. \A p \in Pools : Unit * gained[p] \in Nat /\ Unit * paid[p] \in Nat
    BY <1>1, <2>1
  <2> QED BY <1>1, <2>2, TotalScaled
<1>5. \A p \in Pools : G[p] + g[p] <= F[p] + f[p]
  <2> SUFFICES ASSUME NEW p \in Pools PROVE G[p] + g[p] <= F[p] + f[p]
    OBVIOUS
  <2>1. G[p] + paid[p] * Unit <= F[p] + gained[p] * Unit
    OBVIOUS
  <2>2. paid[p] * Unit = Unit * paid[p] /\ gained[p] * Unit = Unit * gained[p]
    BY <1>1
  <2> HIDE DEF F, G
  <2> QED BY <2>1, <2>2
<1> HIDE DEF F, G, f, g
<1>6. Total(G) + (a + pending) * Unit <= (b + backing) * Unit
  <2>1. Total(G) + Total(g) <= Total(F) + Total(f)
    BY <1>1, <1>2, <1>3, <1>4, <1>5, TotalsFollow
  <2>2. Total(F) + (allowance + Pending) * Unit <= (blnd + Backing) * Unit
    BY DEF MintedInv, F
  <2>3. /\ Total(F) \in Nat /\ Total(G) \in Nat /\ Total(gained) \in Nat /\ Total(paid) \in Nat
    BY <1>1, <1>2, <1>3, TotalIsCount
  <2>4. Total(G) + Unit * Total(paid) <= Total(F) + Unit * Total(gained)
    BY <1>4, <2>1
  <2>5. allowance + Pending \in Nat /\ blnd + Backing \in Nat
    <3>1. TypesHold /\ CallsInOrder /\ allowance \in Nat /\ blnd \in Nat
      BY DEF MintedInv, TypesHold
    <3> QED BY <3>1, CallsCount
  <2>6. a + pending \in Nat /\ b + backing \in Nat
    OBVIOUS
  <2> QED BY <1>1, <2>2, <2>3, <2>4, <2>5, <2>6, FundedAfter
<1>7. Total([p \in Pools |-> Credit(p, rz_emis[p], emis[p], user[p], shares[p])])'
        + ((allowance + Pending) * Unit)' <= ((blnd + Backing) * Unit)'
  BY <1>6 DEF G
<1>8. \A p \in Pools : InStep(p, emis[p], user[p], shares[p])' /\ (emis[p].last_time <= now)'
  BY DEF InStep
<1> QED BY <1>7, <1>8 DEF MintedInv

None == [p \in Pools |-> 0]

LEMMA NothingMoves ==
  /\ None \in [Pools -> Nat] /\ Total(None) = 0
  /\ \A p \in Pools : None[p] * Unit = 0
<1>1. None \in [Pools -> Nat] /\ \A p \in Pools : None[p] = 0
  BY DEF None
<1>2. Total(None) = 0
  BY <1>1, TotalOfZeros, DepositorsFinite
<1>3. 0 * Unit = 0
  BY UnitIsNat
<1> QED BY <1>1, <1>2, <1>3

(* The actions.  A step that changes the data of one pool and is paid x.   *)
LEMMA OnePool ==
  ASSUME MintedInv, NEW p \in Pools, NEW r \in Rewards, NEW d, NEW us, NEW bs,
         rz_emis' = [rz_emis EXCEPT ![p] = r], emis' = [emis EXCEPT ![p] = d],
         user' = [user EXCEPT ![p] = us], shares' = [shares EXCEPT ![p] = bs],
         InStep(p, d, us, bs), d.last_time <= now,
         NEW x \in Nat,
         Credit(p, r, d, us, bs) + x * Unit
           <= Credit(p, rz_emis[p], emis[p], user[p], shares[p]),
         UNCHANGED <<now, distro, dropped, backfill_status, backfill_emissions,
                     last_distribution, zone>>,
         NEW a \in Nat, NEW b \in Nat, allowance' = a, blnd' = b,
         a + blnd <= x + allowance + b
  PROVE  MintedInv'
<1> DEFINE paid == [q \in Pools |-> IF q = p THEN x ELSE 0]
<1>1. TypesHold /\ CallsInOrder
  BY DEF MintedInv
<1>2. d \in EmissionDatas
  BY DEF InStep
<1>3. /\ rz_emis' \in [Pools -> Rewards] /\ rz_emis'[p] = r
      /\ emis' \in [Pools -> EmissionDatas] /\ emis'[p] = d
      /\ user' = [q \in Pools |-> user'[q]] /\ user'[p] = us
      /\ shares' = [q \in Pools |-> shares'[q]] /\ shares'[p] = bs
      /\ \A q \in Pools \ {p} : /\ rz_emis'[q] = rz_emis[q] /\ emis'[q] = emis[q]
                                /\ user'[q] = user[q] /\ shares'[q] = shares[q]
  <2>1. rz_emis' \in [Pools -> Rewards] /\ emis' \in [Pools -> EmissionDatas]
    BY <1>1, <1>2 DEF TypesHold
  <2>2. DOMAIN user = Pools /\ DOMAIN shares = Pools
    BY Zenon, <1>1 DEF TypesHold
  <2>3. user' = [q \in Pools |-> user'[q]] /\ shares' = [q \in Pools |-> shares'[q]]
    BY <2>2
  <2>4. rz_emis'[p] = r /\ emis'[p] = d /\ user'[p] = us /\ shares'[p] = bs
    BY <1>1, <2>2 DEF TypesHold
  <2>5. \A q \in Pools \ {p} : /\ rz_emis'[q] = rz_emis[q] /\ emis'[q] = emis[q]
                               /\ user'[q] = user[q] /\ shares'[q] = shares[q]
    BY <1>1, <2>2 DEF TypesHold
  <2> QED BY <2>1, <2>3, <2>4, <2>5
<1>4. TypesHold' /\ CallsInOrder'
  <2>1. /\ now' \in Nat /\ distro' \in Nat /\ blnd' \in Nat /\ allowance' \in Nat
        /\ backfill_emissions' \in Nat /\ last_distribution' \in Nat
        /\ backfill_status' \in {"none", "backfilling", "emitting"}
        /\ dropped' \in BOOLEAN /\ zone' \subseteq Pools
    BY <1>1 DEF TypesHold
  <2>2. CallsInOrder'
    BY <1>1 DEF CallsInOrder
  <2> QED BY <1>3, <2>1, <2>2 DEF TypesHold
<1>5. /\ paid \in [Pools -> Nat] /\ Total(paid) = x
  <2>1. paid \in [Pools -> Nat] /\ paid[p] = x /\ \A q \in Pools \ {p} : paid[q] = None[q]
    BY DEF None
  <2> HIDE DEF paid
  <2>2. Total(paid) + None[p] = Total(None) + paid[p] /\ Total(paid) \in Nat
    BY <2>1, NothingMoves, TotalChange, TotalIsCount, DepositorsFinite
  <2>3. None[p] = 0
    BY DEF None
  <2> QED BY <2>1, <2>2, <2>3, NothingMoves
<1>6. ASSUME NEW q \in Pools
      PROVE  /\ InStep(q, emis'[q], user'[q], shares'[q]) /\ emis'[q].last_time <= now'
             /\ Credit(q, rz_emis'[q], emis'[q], user'[q], shares'[q]) + paid[q] * Unit
                  <= Credit(q, rz_emis[q], emis[q], user[q], shares[q]) + None[q] * Unit
  <2>1. /\ InStep(q, emis[q], user[q], shares[q]) /\ rz_emis[q] \in Rewards
        /\ emis[q].last_time <= now /\ now' = now
    BY <1>1 DEF MintedInv, TypesHold
  <2>2. Credit(q, rz_emis[q], emis[q], user[q], shares[q]) \in Nat /\ None[q] * Unit = 0
    BY <2>1, CreditIsCount, NothingMoves
  <2>3. CASE q = p
    <3>1. paid[q] = x
      BY <2>3
    <3>2. Credit(q, rz_emis'[q], emis'[q], user'[q], shares'[q]) + paid[q] * Unit
            <= Credit(q, rz_emis[q], emis[q], user[q], shares[q])
      <4> HIDE DEF paid
      <4> QED BY <1>3, <2>3, <3>1
    <3>3. InStep(q, emis'[q], user'[q], shares'[q]) /\ emis'[q].last_time <= now'
      BY <1>3, <2>1, <2>3
    <3> HIDE DEF paid
    <3> QED BY <2>2, <3>2, <3>3
  <2>4. CASE q # p
    <3>1. paid[q] * Unit = 0
      BY <2>4, UnitIsNat
    <3>2. Credit(q, rz_emis'[q], emis'[q], user'[q], shares'[q])
            = Credit(q, rz_emis[q], emis[q], user[q], shares[q])
      BY <1>3, <2>4
    <3>3. InStep(q, emis'[q], user'[q], shares'[q]) /\ emis'[q].last_time <= now'
      BY <1>3, <2>1, <2>4
    <3> HIDE DEF paid
    <3> QED BY <2>2, <3>1, <3>2, <3>3
  <2> QED BY <2>3, <2>4
<1>7. Pending' = Pending /\ Backing' = Backing /\ Pending \in Nat /\ Backing \in Nat
  <2>1. Pending' = Pending /\ Backing' = Backing
    BY DEF Pending, Backing
  <2> QED BY <1>1, <2>1, CallsCount
<1>8. Total(None) + (a + Pending) + (blnd + Backing)
        <= Total(paid) + (allowance + Pending) + (b + Backing)
  <2>1. Pending \in Nat /\ Backing \in Nat /\ allowance \in Nat /\ blnd \in Nat
    BY <1>1, <1>7 DEF TypesHold
  <2>2. Total(None) = 0 /\ Total(paid) = x
    BY <1>5, NothingMoves
  <2> HIDE DEF paid
  <2> QED BY <2>1, <2>2
<1> HIDE DEF paid
<1> QED BY <1>4, <1>5, <1>6, <1>7, <1>8, NothingMoves, TokensFollow

(* A step that changes none of the pools' data.                            *)
LEMMA NoPool ==
  ASSUME MintedInv, TypesHold', CallsInOrder', now <= now',
         UNCHANGED <<rz_emis, emis, user, shares>>,
         NEW pending \in Nat, NEW backing \in Nat, Pending' = pending, Backing' = backing,
         NEW a \in Nat, NEW b \in Nat, allowance' = a, blnd' = b,
         (a + pending) + (blnd + Backing) <= (allowance + Pending) + (b + backing)
  PROVE  MintedInv'
<1>1. TypesHold /\ CallsInOrder
  BY DEF MintedInv
<1>2. ASSUME NEW q \in Pools
      PROVE  /\ InStep(q, emis'[q], user'[q], shares'[q]) /\ emis'[q].last_time <= now'
             /\ Credit(q, rz_emis'[q], emis'[q], user'[q], shares'[q]) + None[q] * Unit
                  <= Credit(q, rz_emis[q], emis[q], user[q], shares[q]) + None[q] * Unit
  <2>1. /\ InStep(q, emis[q], user[q], shares[q]) /\ rz_emis[q] \in Rewards
        /\ emis[q].last_time <= now
    BY <1>1 DEF MintedInv, TypesHold
  <2>2. Credit(q, rz_emis[q], emis[q], user[q], shares[q]) \in Nat /\ None[q] * Unit = 0
    BY <2>1, CreditIsCount, NothingMoves
  <2>3. /\ now \in Nat /\ now' \in Nat /\ emis[q].last_time \in Nat
    BY <1>1, <2>1 DEF TypesHold, InStep, EmissionDatas
  <2>4. emis'[q].last_time <= now'
    BY <2>1, <2>3
  <2> QED BY <2>1, <2>2, <2>4
<1>3. Total(None) + (a + pending) + (blnd + Backing)
        <= Total(None) + (allowance + Pending) + (b + backing)
  <2>1. Total(None) = 0
    BY NothingMoves
  <2>2. /\ Pending \in Nat /\ Backing \in Nat /\ allowance \in Nat /\ blnd \in Nat
    BY <1>1, CallsCount DEF TypesHold
  <2> QED BY <2>1, <2>2
<1> QED BY <1>2, <1>3, NothingMoves, TokensFollow

(* update_emissions before a change of u's shares to b.                    *)
LEMMA UpdateMinted ==
  ASSUME MintedInv, NEW p \in Pools, NEW u \in Depositors[p], NEW b \in Nat,
         Update(p, u), shares' = [shares EXCEPT ![p] = [shares[p] EXCEPT ![u] = b]],
         UNCHANGED <<now, emitterVars, blnd, allowance, zoneVars, rz_emis>>
  PROVE  MintedInv'
<1> DEFINE e == Updated(p)
           vs == [user[p] EXCEPT ![u] = Settled(user[p][u], e, shares[p][u], SCALAR_7)]
           cs == [shares[p] EXCEPT ![u] = b]
           r == rz_emis[p]
<1>1. /\ InStep(p, e, user[p], shares[p]) /\ e.last_time <= now
      /\ OwedExactly(p, e, user[p], shares[p]) <= OwedExactly(p, emis[p], user[p], shares[p])
  BY UpdatedIsCovered
<1>2. /\ InStep(p, e, vs, cs)
      /\ OwedExactly(p, e, vs, cs) <= OwedExactly(p, e, user[p], shares[p])
  BY <1>1, SettledIsCovered
<1>3. /\ r \in Rewards /\ InStep(p, emis[p], user[p], shares[p])
      /\ rz_emis \in [Pools -> Rewards] /\ DOMAIN user = Pools
      /\ allowance \in Nat /\ blnd \in Nat
  <2>1. TypesHold /\ \A q \in Pools : InStep(q, emis[q], user[q], shares[q])
    BY DEF MintedInv
  <2>2. DOMAIN user = Pools
    BY Zenon, <2>1 DEF TypesHold
  <2> QED BY <2>1, <2>2 DEF TypesHold
<1>4. /\ emis' = [emis EXCEPT ![p] = e] /\ user' = [user EXCEPT ![p] = vs]
      /\ shares' = [shares EXCEPT ![p] = cs] /\ rz_emis' = [rz_emis EXCEPT ![p] = r]
  BY <1>3 DEF Update
<1>5. Credit(p, r, e, vs, cs) + 0 * Unit <= Credit(p, r, emis[p], user[p], shares[p])
  <2>1. OwedExactly(p, e, vs, cs) \in Nat /\ OwedExactly(p, e, user[p], shares[p]) \in Nat
    <3> HIDE DEF e, vs, cs
    <3> QED BY <1>1, <1>2, OwedIsCount
  <2>2. OwedExactly(p, emis[p], user[p], shares[p]) \in Nat
    BY <1>3, OwedIsCount
  <2>3. r.accrued * Unit \in Nat /\ 0 * Unit = 0
    <3>1. r.accrued \in Nat /\ Unit \in Nat
      BY <1>3, UnitIsNat DEF Rewards
    <3> QED BY <3>1
  <2> HIDE DEF e, vs, cs, r
  <2> QED BY <1>1, <1>2, <2>1, <2>2, <2>3 DEF Credit
<1>6. /\ UNCHANGED <<now, distro, dropped, backfill_status, backfill_emissions,
                     last_distribution, zone>>
      /\ allowance' = allowance /\ blnd' = blnd
  BY DEF emitterVars, zoneVars
<1>7. 0 \in Nat /\ allowance + blnd <= 0 + allowance + blnd
  BY <1>3
<1> HIDE DEF e, vs, cs, r
<1>8. r \in Rewards /\ InStep(p, e, vs, cs) /\ e.last_time <= now
  BY <1>1, <1>2, <1>3
<1>9. Credit(p, r, e, vs, cs) + 0 * Unit <= Credit(p, rz_emis[p], emis[p], user[p], shares[p])
  BY <1>5 DEF r
<1> QED BY <1>3, <1>4, <1>6, <1>7, <1>8, <1>9, OnePool

LEMMA LedgerMinted ==
  ASSUME MintedInv, NEW p \in Pools, NEW u \in Depositors[p],
         Deposit(p, u) \/ QueueWithdrawal(p, u) \/ DequeueWithdrawal(p, u)
  PROVE  MintedInv'
<1>1. DOMAIN shares = Pools /\ shares[p] \in [Depositors[p] -> Nat]
  <2>1. TypesHold /\ InStep(p, emis[p], user[p], shares[p])
    BY DEF MintedInv
  <2>2. DOMAIN shares = Pools
    BY Zenon, <2>1 DEF TypesHold
  <2> QED BY <2>1, <2>2 DEF InStep
<1>2. shares[p][u] \in Nat
  BY <1>1
<1>3. CASE Deposit(p, u) \/ DequeueWithdrawal(p, u)
  <2>1. shares' = [shares EXCEPT ![p] = [shares[p] EXCEPT ![u] = shares[p][u] + 1]]
    BY <1>1, <1>3 DEF Deposit, DequeueWithdrawal
  <2>2. Update(p, u) /\ UNCHANGED <<now, emitterVars, blnd, allowance, zoneVars, rz_emis>>
    BY <1>3 DEF Deposit, DequeueWithdrawal
  <2>3. shares[p][u] + 1 \in Nat
    BY <1>2
  <2> QED BY <2>1, <2>2, <2>3, UpdateMinted
<1>4. CASE QueueWithdrawal(p, u)
  <2>1. shares' = [shares EXCEPT ![p] = [shares[p] EXCEPT ![u] = shares[p][u] - 1]]
    BY <1>1, <1>4 DEF QueueWithdrawal
  <2>2. Update(p, u) /\ UNCHANGED <<now, emitterVars, blnd, allowance, zoneVars, rz_emis>>
    BY <1>4 DEF QueueWithdrawal
  <2>3. shares[p][u] - 1 \in Nat
    BY <1>2, <1>4 DEF QueueWithdrawal
  <2> QED BY <2>1, <2>2, <2>3, UpdateMinted
<1> QED BY <1>3, <1>4

LEMMA ClaimMinted ==
  ASSUME MintedInv, NEW p \in Pools, NEW u \in Depositors[p], NEW out \in Nat,
         Claim(p, u, out)
  PROVE  MintedInv'
<1> DEFINE e == Updated(p)
           x == Settled(user[p][u], e, shares[p][u], SCALAR_7).accrued
           b == shares[p][u] + out
           vs == [user[p] EXCEPT ![u] = [index |-> e.index, accrued |-> 0]]
           cs == [shares[p] EXCEPT ![u] = b]
           r == rz_emis[p]
<1>1. /\ InStep(p, e, user[p], shares[p]) /\ e.last_time <= now
      /\ OwedExactly(p, e, user[p], shares[p]) <= OwedExactly(p, emis[p], user[p], shares[p])
  BY UpdatedIsCovered
<1>2. /\ r \in Rewards /\ InStep(p, emis[p], user[p], shares[p])
      /\ rz_emis \in [Pools -> Rewards] /\ DOMAIN user = Pools /\ DOMAIN shares = Pools
      /\ allowance \in Nat /\ blnd \in Nat /\ b \in Nat
  <2>1. TypesHold /\ \A q \in Pools : InStep(q, emis[q], user[q], shares[q])
    BY DEF MintedInv
  <2>2. DOMAIN user = Pools /\ DOMAIN shares = Pools
    BY Zenon, <2>1 DEF TypesHold
  <2>3. shares[p][u] \in Nat
    BY <2>1 DEF InStep
  <2> QED BY <2>1, <2>2, <2>3 DEF TypesHold
<1> HIDE DEF b
<1>3. /\ InStep(p, e, vs, cs)
      /\ OwedExactly(p, e, vs, cs) + x * Unit <= OwedExactly(p, e, user[p], shares[p])
  BY <1>1, <1>2, ClaimedIsCovered
<1>4. x \in Nat /\ x * Unit \in Nat
  <2>1. x \in Nat
    BY <1>1, SettledIsLess
  <2> QED BY <2>1, UnitIsNat
<1>5. /\ emis' = [emis EXCEPT ![p] = e] /\ user' = [user EXCEPT ![p] = vs]
      /\ shares' = [shares EXCEPT ![p] = cs] /\ rz_emis' = [rz_emis EXCEPT ![p] = r]
      /\ x <= blnd /\ blnd' = blnd - x /\ allowance' = allowance
      /\ UNCHANGED <<now, distro, dropped, backfill_status, backfill_emissions,
                     last_distribution, zone>>
  BY <1>2 DEF Claim, ClaimOf, b, emitterVars, zoneVars
<1> HIDE DEF e, vs, cs, x
<1>6. Credit(p, r, e, vs, cs) + x * Unit <= Credit(p, r, emis[p], user[p], shares[p])
  <2>1. OwedExactly(p, e, vs, cs) \in Nat /\ OwedExactly(p, e, user[p], shares[p]) \in Nat
    BY <1>1, <1>3, OwedIsCount
  <2>2. OwedExactly(p, emis[p], user[p], shares[p]) \in Nat
    BY <1>2, OwedIsCount
  <2>3. r.accrued * Unit \in Nat
    <3>1. r.accrued \in Nat /\ Unit \in Nat
      BY <1>2, UnitIsNat DEF Rewards
    <3> QED BY <3>1
  <2> HIDE DEF r
  <2> QED BY <1>1, <1>3, <1>4, <2>1, <2>2, <2>3 DEF Credit
<1>7. Credit(p, r, e, vs, cs) + x * Unit <= Credit(p, rz_emis[p], emis[p], user[p], shares[p])
  BY <1>6 DEF r
<1> HIDE DEF r
<1>8. blnd - x \in Nat /\ allowance + blnd <= x + allowance + (blnd - x)
  BY <1>2, <1>4, <1>5
<1> QED BY <1>1, <1>2, <1>3, <1>4, <1>5, <1>7, <1>8, OnePool

(* The pool's 30% and its depositors' 70% are at most what was accrued.    *)
LEMMA GulpedIsSplit ==
  ASSUME NEW n \in Nat
  PROVE  /\ MulFloor(n, 3, 10) \in Nat /\ MulFloor(n, 7, 10) \in Nat
         /\ MulFloor(n, 3, 10) + MulFloor(n, 7, 10) <= n
<1>1. FloorDiv(n * 3, 10) \in Nat /\ FloorDiv(n * 3, 10) * 10 <= n * 3
  BY FloorOfNat, FloorBounds
<1>2. FloorDiv(n * 7, 10) \in Nat /\ FloorDiv(n * 7, 10) * 10 <= n * 7
  BY FloorOfNat, FloorBounds
<1> QED BY <1>1, <1>2 DEF MulFloor

LEMMA GulpEmissionsMinted ==
  ASSUME MintedInv, NEW p \in Pools, GulpEmissions(p)
  PROVE  MintedInv'
<1> DEFINE n == rz_emis[p].accrued
           x == MulFloor(n, 3, 10)
           y == MulFloor(n, 7, 10)
           e == Updated(p)
           d == Renewed(e, y, now)
           r == [accrued |-> 0, last_time |-> now]
<1>1. /\ InStep(p, e, user[p], shares[p]) /\ e.last_time <= now
      /\ OwedExactly(p, e, user[p], shares[p]) <= OwedExactly(p, emis[p], user[p], shares[p])
  BY UpdatedIsCovered
<1>2. /\ InStep(p, emis[p], user[p], shares[p]) /\ now \in Nat /\ n \in Nat
      /\ user = [user EXCEPT ![p] = user[p]] /\ shares = [shares EXCEPT ![p] = shares[p]]
      /\ allowance \in Nat /\ blnd \in Nat
  <2>1. TypesHold /\ InStep(p, emis[p], user[p], shares[p])
    BY DEF MintedInv
  <2>2. user = [user EXCEPT ![p] = user[p]] /\ shares = [shares EXCEPT ![p] = shares[p]]
    BY <2>1 DEF TypesHold
  <2>3. rz_emis[p] \in Rewards
    BY <2>1 DEF TypesHold
  <2> QED BY <2>1, <2>2, <2>3 DEF TypesHold, Rewards
<1>3. x \in Nat /\ y \in Nat /\ x + y <= n
  <2> HIDE DEF n
  <2> QED BY <1>2, GulpedIsSplit
<1>4. /\ rz_emis' = [rz_emis EXCEPT ![p] = r] /\ emis' = [emis EXCEPT ![p] = d]
      /\ user' = [user EXCEPT ![p] = user[p]] /\ shares' = [shares EXCEPT ![p] = shares[p]]
      /\ allowance' = allowance + x /\ blnd' = blnd
      /\ UNCHANGED <<now, distro, dropped, backfill_status, backfill_emissions,
                     last_distribution, zone>>
  BY <1>2 DEF GulpEmissions, emitterVars, zoneVars, ledgerVars
<1> HIDE DEF e, x, y
<1>5. /\ InStep(p, d, user[p], shares[p]) /\ d.last_time <= now
      /\ OwedExactly(p, d, user[p], shares[p])
           <= OwedExactly(p, e, user[p], shares[p]) + y * Unit
  <2>1. d.last_time <= now
    <3>1. e \in EmissionDatas
      BY <1>1 DEF InStep
    <3>2. d.last_time = now
      BY <3>1 DEF Renewed, EmissionDatas
    <3> QED BY <1>2, <3>2
  <2>2. /\ InStep(p, Renewed(e, y, now), user[p], shares[p])
        /\ OwedExactly(p, Renewed(e, y, now), user[p], shares[p])
             <= OwedExactly(p, e, user[p], shares[p]) + y * Unit
    BY <1>1, <1>2, <1>3, RenewedIsCovered
  <2> QED BY <2>1, <2>2
<1> HIDE DEF d
<1>6. r \in Rewards /\ r.accrued = 0
  BY <1>2 DEF Rewards
<1> HIDE DEF r
<1>7. Credit(p, r, d, user[p], shares[p]) + x * Unit
        <= Credit(p, rz_emis[p], emis[p], user[p], shares[p])
  <2>1. /\ OwedExactly(p, d, user[p], shares[p]) \in Nat
        /\ OwedExactly(p, e, user[p], shares[p]) \in Nat
        /\ OwedExactly(p, emis[p], user[p], shares[p]) \in Nat
    BY <1>1, <1>2, <1>5, OwedIsCount
  <2>2. (x + y) * Unit = x * Unit + y * Unit
    BY <1>3, UnitIsNat
  <2>3. x * Unit \in Nat /\ y * Unit \in Nat /\ n * Unit \in Nat /\ 0 * Unit = 0
    BY <1>2, <1>3, UnitIsNat
  <2>4. (x + y) * Unit <= n * Unit
    <3> DEFINE z == x + y
    <3>1. z \in Nat /\ z <= n
      BY <1>3
    <3> HIDE DEF z, n
    <3>2. z * Unit <= n * Unit
      BY <1>2, <3>1, UnitIsNat
    <3> QED BY <3>2 DEF z
  <2>5. Credit(p, r, d, user[p], shares[p]) = 0 * Unit + OwedExactly(p, d, user[p], shares[p])
    BY <1>6 DEF Credit
  <2>6. Credit(p, rz_emis[p], emis[p], user[p], shares[p])
          = n * Unit + OwedExactly(p, emis[p], user[p], shares[p])
    BY DEF Credit
  <2> HIDE DEF n
  <2> QED BY <1>1, <1>5, <2>1, <2>2, <2>3, <2>4, <2>5, <2>6
<1>8. allowance + x \in Nat /\ (allowance + x) + blnd <= x + allowance + blnd
  BY <1>2, <1>3
<1> QED BY <1>2, <1>3, <1>4, <1>5, <1>6, <1>7, <1>8, OnePool

(* What a distribution gives the pools is at most what is distributed.     *)
LEMMA DistributionIsParted ==
  ASSUME MintedInv, NEW n \in Nat, \E p \in zone : Unqueued(p) # 0
  PROVE  LET gained == [p \in Pools |-> IF p \in zone THEN PartOf(p, n) ELSE 0]
         IN  gained \in [Pools -> Nat] /\ Total(gained) \in Nat /\ Total(gained) <= n
<1> DEFINE w == [z \in zone |-> Unqueued(z)]
           parts == [z \in zone |-> MulFloor(DivFloor(w[z], Total(w), SCALAR_7), n, SCALAR_7)]
           gained == [p \in Pools |-> IF p \in zone THEN parts[p] ELSE 0]
<1>1. zone \subseteq Pools /\ IsFiniteSet(zone) /\ IsFiniteSet(Pools)
  <2>1. zone \subseteq Pools
    BY DEF MintedInv, TypesHold
  <2> QED BY <2>1, DepositorsFinite, FS_Subset
<1>2. w \in [zone -> Nat]
  <2> SUFFICES ASSUME NEW z \in zone PROVE Unqueued(z) \in Nat
    OBVIOUS
  <2>1. z \in Pools /\ InStep(z, emis[z], user[z], shares[z])
    BY <1>1 DEF MintedInv
  <2>2. shares[z] \in [Depositors[z] -> Nat]
    BY <2>1 DEF InStep
  <2> QED BY <2>1, <2>2, TotalIsCount, DepositorsFinite DEF Unqueued
<1>3. parts \in [zone -> Nat] /\ Total(parts) <= n
  <2> HIDE DEF w
  <2>1. Total(w) # 0
    <3>1. PICK p \in zone : w[p] # 0
      BY DEF w
    <3>2. w[p] <= Total(w) /\ Total(w) \in Nat /\ w[p] \in Nat
      BY <1>1, <1>2, TotalBoundsMember, TotalIsCount
    <3> QED BY <3>1, <3>2
  <2> QED BY <1>1, <1>2, <2>1, UnitIsNat, PartsOfWhole
<1>4. \A z \in zone : parts[z] = PartOf(z, n)
  BY DEF PartOf
<1> HIDE DEF parts
<1>5. gained \in [Pools -> Nat] /\ Total(gained) = Total(parts) /\ Total(gained) \in Nat
  <2>1. gained \in [Pools -> Nat] /\ Total(gained) = Total(parts)
    BY <1>1, <1>3, TotalPadded
  <2> HIDE DEF gained
  <2>2. Total(gained) \in Nat
    BY <1>1, <2>1, TotalIsCount
  <2> QED BY <2>1, <2>2
<1>6. gained = [p \in Pools |-> IF p \in zone THEN PartOf(p, n) ELSE 0]
  BY <1>4
<1> QED BY <1>3, <1>5, <1>6

(* What is distributed was minted before, or is to be dropped.             *)
LEMMA NewEmissionsAreFunded ==
  ASSUME MintedInv, Distribute
  PROVE  /\ NewEmissions \in Nat /\ CallsInOrder' /\ Pending' = 0
         /\ backfill_emissions' \in Nat /\ last_distribution' \in Nat
         /\ backfill_status' \in {"backfilling", "emitting"}
         /\ \E backing \in Nat :
              Backing' = backing /\ Backing + NewEmissions = Pending + backing
<1>1. TypesHold /\ CallsInOrder
  BY DEF MintedInv
<1>2. /\ now \in Nat /\ distro \in Nat /\ last_distribution \in Nat /\ backfill_emissions \in Nat
      /\ Pending \in Nat /\ Backing \in Nat
  BY <1>1, CallsCount DEF TypesHold
<1>3. CASE IsBackfill
  <2>1. /\ distro = 0 /\ ~dropped /\ backfill_status # "emitting" /\ backfill_status' = "backfilling"
        /\ distro' = distro /\ dropped' = dropped /\ last_distribution' = now
        /\ backfill_emissions' = backfill_emissions + NewEmissions
        /\ backfill_emissions < MAX_BACKFILLED_EMISSIONS
        /\ now - last_distribution >= MIN_DISTRIBUTION
    BY <1>1, <1>3
    DEF IsBackfill, CallsInOrder, Distribute, BackfillStatus, DistributedAt, emitterVars
  <2>2. NewEmissions \in Nat
    <3>1. MIN_DISTRIBUTION \in Nat /\ MAX_BACKFILLED_EMISSIONS \in Nat
      BY BackstopEmissionsAssumption
    <3>2. now - last_distribution \in Nat /\ MAX_BACKFILLED_EMISSIONS - backfill_emissions \in Nat
      BY <1>2, <2>1, <3>1
    <3>3. (now - last_distribution) * SCALAR_7 \in Nat
      BY <3>2, UnitIsNat
    <3> QED BY <1>3, <3>2, <3>3 DEF NewEmissions, DistributedAt, MinOf
  <2>3. Pending = 0 /\ Pending' = 0 /\ Backing = backfill_emissions
        /\ Backing' = backfill_emissions + NewEmissions
    BY <2>1 DEF Pending, Backing
  <2>4. CallsInOrder'
    BY <2>1 DEF CallsInOrder
  <2>5. backfill_emissions + NewEmissions \in Nat
    BY <1>2, <2>2
  <2>6. Backing + NewEmissions = Pending + (backfill_emissions + NewEmissions)
    BY <1>2, <2>2, <2>3
  <2> QED BY <1>2, <2>1, <2>2, <2>3, <2>4, <2>5, <2>6
<1>4. CASE ~IsBackfill
  <2>1. /\ distro # 0 /\ backfill_status' = "emitting" /\ distro' = distro /\ dropped' = dropped
        /\ last_distribution' = distro /\ last_distribution # 0
        /\ backfill_status # "backfilling"
        /\ backfill_emissions' = backfill_emissions + 0
        /\ NewEmissions = (distro - last_distribution) * SCALAR_7
    BY <1>4
    DEF IsBackfill, Distribute, BackfillStatus, DistributedAt, NeedsReset, NewEmissions, emitterVars
  <2>2. backfill_status = "emitting"
    BY <1>1, <2>1 DEF TypesHold, CallsInOrder
  <2>3. Pending = NewEmissions /\ NewEmissions \in Nat
    BY <1>2, <2>1, <2>2 DEF Pending
  <2>4. Pending' = 0 /\ Backing' = Backing
    <3>1. (distro - distro) * SCALAR_7 = 0
      BY <1>2, UnitIsNat
    <3>2. backfill_emissions' = backfill_emissions
      BY <1>2, <2>1
    <3> QED BY <2>1, <3>1, <3>2 DEF Pending, Backing
  <2>5. CallsInOrder'
    BY <1>2, <2>1 DEF CallsInOrder
  <2>6. Backing + NewEmissions = Pending + Backing
    BY <1>2, <2>3
  <2>7. backfill_emissions' \in Nat
    BY <1>2, <2>1
  <2> QED BY <1>2, <2>1, <2>3, <2>4, <2>5, <2>6, <2>7
<1> QED BY <1>3, <1>4

LEMMA DistributeMinted ==
  ASSUME MintedInv, Distribute
  PROVE  MintedInv'
<1> DEFINE n == NewEmissions
           gained == [p \in Pools |-> IF p \in zone THEN PartOf(p, n) ELSE 0]
<1>1. TypesHold /\ CallsInOrder
  BY DEF MintedInv
<1>2. /\ n \in Nat /\ CallsInOrder' /\ Pending' = 0
      /\ backfill_emissions' \in Nat /\ last_distribution' \in Nat
      /\ backfill_status' \in {"backfilling", "emitting"}
  BY NewEmissionsAreFunded
<1>3. PICK backing \in Nat : Backing' = backing /\ Backing + n = Pending + backing
  BY NewEmissionsAreFunded
<1>4. \E p \in zone : Unqueued(p) # 0
  BY DEF Distribute
<1>5. rz_emis' = [p \in Pools |->
        IF p \in zone THEN [rz_emis[p] EXCEPT !.accrued = @ + PartOf(p, n)] ELSE rz_emis[p]]
  BY DEF Distribute
<1>6. UNCHANGED <<now, distro, dropped, blnd, allowance, zone, shares, emis, user>>
  BY DEF Distribute, emitterVars, ledgerVars
<1> HIDE DEF n
<1>7. gained \in [Pools -> Nat] /\ Total(gained) \in Nat /\ Total(gained) <= n
  BY <1>2, <1>4, DistributionIsParted
<1>8. ASSUME NEW p \in Pools
      PROVE  /\ rz_emis'[p] \in Rewards
             /\ rz_emis'[p].accrued = rz_emis[p].accrued + gained[p]
  <2>1. rz_emis[p] \in Rewards /\ gained[p] \in Nat
    BY <1>1, <1>7 DEF TypesHold
  <2>2. CASE p \in zone
    <3> DEFINE g == gained[p]
    <3>1. rz_emis'[p] = [rz_emis[p] EXCEPT !.accrued = @ + g]
      BY <1>5, <2>2
    <3>2. g \in Nat
      BY <2>1
    <3> HIDE DEF g
    <3>3. rz_emis'[p] \in Rewards /\ rz_emis'[p].accrued = rz_emis[p].accrued + g
      BY <2>1, <3>1, <3>2 DEF Rewards
    <3> QED BY <3>3 DEF g
  <2>3. CASE p \notin zone
    <3>1. rz_emis'[p] = rz_emis[p] /\ gained[p] = 0
      BY <1>5, <2>3
    <3>2. rz_emis[p].accrued \in Nat
      BY <2>1 DEF Rewards
    <3> HIDE DEF gained
    <3> QED BY <2>1, <3>1, <3>2
  <2> QED BY <2>2, <2>3
<1> HIDE DEF gained
<1>9. TypesHold'
  <2>1. rz_emis' \in [Pools -> Rewards]
    <3>1. rz_emis' = [p \in Pools |-> rz_emis'[p]]
      BY <1>5
    <3> QED BY <1>8, <3>1
  <2>2. user' = [p \in Pools |-> user'[p]] /\ shares' = [p \in Pools |-> shares'[p]]
    BY <1>1, <1>6 DEF TypesHold
  <2> QED BY <1>1, <1>2, <1>6, <2>1, <2>2 DEF TypesHold
<1>10. ASSUME NEW p \in Pools
       PROVE  /\ InStep(p, emis'[p], user'[p], shares'[p]) /\ emis'[p].last_time <= now'
              /\ Credit(p, rz_emis'[p], emis'[p], user'[p], shares'[p]) + None[p] * Unit
                   <= Credit(p, rz_emis[p], emis[p], user[p], shares[p]) + gained[p] * Unit
  <2>1. /\ InStep(p, emis[p], user[p], shares[p]) /\ emis[p].last_time <= now
        /\ rz_emis[p] \in Rewards
    BY <1>1 DEF MintedInv, TypesHold
  <2>2. OwedExactly(p, emis[p], user[p], shares[p]) \in Nat /\ None[p] * Unit = 0
    BY <2>1, OwedIsCount, NothingMoves
  <2>3. rz_emis[p].accrued \in Nat /\ gained[p] \in Nat
    BY <1>7, <2>1 DEF Rewards
  <2>4. (rz_emis[p].accrued + gained[p]) * Unit = rz_emis[p].accrued * Unit + gained[p] * Unit
    BY <2>3, UnitIsNat
  <2>5. rz_emis[p].accrued * Unit \in Nat /\ gained[p] * Unit \in Nat
    BY <2>3, UnitIsNat
  <2>6. emis'[p] = emis[p] /\ user'[p] = user[p] /\ shares'[p] = shares[p] /\ now' = now
    BY <1>6
  <2>7. Credit(p, rz_emis'[p], emis'[p], user'[p], shares'[p])
          = (rz_emis[p].accrued + gained[p]) * Unit + OwedExactly(p, emis[p], user[p], shares[p])
    BY <1>8, <2>6 DEF Credit
  <2>8. Credit(p, rz_emis[p], emis[p], user[p], shares[p])
          = rz_emis[p].accrued * Unit + OwedExactly(p, emis[p], user[p], shares[p])
    BY DEF Credit
  <2> QED BY <2>1, <2>2, <2>4, <2>5, <2>6, <2>7, <2>8
<1>11. allowance \in Nat /\ blnd \in Nat /\ Pending \in Nat /\ Backing \in Nat
  BY <1>1, CallsCount DEF TypesHold
<1>12. Total(gained) + (allowance + 0) + (blnd + Backing)
         <= Total(None) + (allowance + Pending) + (blnd + backing)
  BY <1>2, <1>3, <1>7, <1>11, NothingMoves
<1>13. allowance' = allowance /\ blnd' = blnd /\ 0 \in Nat
  BY <1>6
<1> QED BY <1>2, <1>3, <1>7, <1>9, <1>10, <1>11, <1>12, <1>13, NothingMoves, TokensFollow

(* The first distribution, and the first after backfilling.                *)
LEMMA StartDistributionMinted ==
  ASSUME MintedInv, StartDistribution
  PROVE  MintedInv'
<1>1. TypesHold /\ CallsInOrder
  BY DEF MintedInv
<1>2. /\ UNCHANGED <<now, distro, dropped, blnd, allowance, backfill_emissions, zone,
                     rz_emis, shares, emis, user>>
      /\ last_distribution' = DistributedAt
  BY DEF StartDistribution, emitterVars, ledgerVars
<1>3. last_distribution' \in Nat /\ backfill_status' \in {"backfilling", "emitting"}
  BY <1>1, <1>2 DEF TypesHold, DistributedAt, StartDistribution, BackfillStatus
<1>4. TypesHold'
  <2>1. user' = [p \in Pools |-> user'[p]] /\ shares' = [p \in Pools |-> shares'[p]]
    BY <1>1, <1>2 DEF TypesHold
  <2> QED BY <1>1, <1>2, <1>3, <2>1 DEF TypesHold
<1>5. backfill_status' = "emitting" => distro' # 0 /\ last_distribution' = distro'
  BY <1>2 DEF StartDistribution, BackfillStatus, IsBackfill, DistributedAt
<1>6. CallsInOrder'
  <2>1. distro \in Nat
    BY <1>1 DEF TypesHold
  <2> QED BY <1>1, <1>2, <1>3, <1>5, <2>1 DEF CallsInOrder
<1>7. Pending' = 0 /\ Backing' = Backing
  <2>1. (distro - distro) * SCALAR_7 = 0
    BY <1>1, UnitIsNat DEF TypesHold
  <2>2. backfill_status' = "emitting" => (distro' - last_distribution') * SCALAR_7 = 0
    BY <1>2, <1>5, <2>1
  <2> QED BY <1>2, <2>2 DEF Pending, Backing
<1>8. /\ Pending \in Nat /\ Backing \in Nat /\ allowance \in Nat /\ blnd \in Nat /\ 0 \in Nat
      /\ now \in Nat
  BY <1>1, CallsCount DEF TypesHold
<1>9. (allowance + 0) + (blnd + Backing) <= (allowance + Pending) + (blnd + Backing)
  BY <1>8
<1>10. now <= now' /\ allowance' = allowance /\ blnd' = blnd /\ UNCHANGED <<rz_emis, emis, user, shares>>
  BY <1>2, <1>8
<1> QED BY <1>4, <1>6, <1>7, <1>8, <1>9, <1>10, NoPool

(* The emitter's own steps.                                                *)
LEMMA EmitterMinted ==
  ASSUME MintedInv, Adopt \/ EmitterDistribute \/ Drop
  PROVE  MintedInv'
<1>1. TypesHold /\ CallsInOrder
  BY DEF MintedInv
<1>2. /\ Pending \in Nat /\ Backing \in Nat /\ allowance \in Nat /\ blnd \in Nat
      /\ now \in Nat /\ distro \in Nat /\ last_distribution \in Nat /\ backfill_emissions \in Nat
  BY <1>1, CallsCount DEF TypesHold
<1>3. /\ UNCHANGED <<now, allowance, backfill_status, backfill_emissions, last_distribution,
                     zone, rz_emis, shares, emis, user>>
      /\ now <= now' /\ allowance' = allowance
  BY <1>2 DEF Adopt, EmitterDistribute, Drop, zoneVars, ledgerVars
<1>4. UNCHANGED <<rz_emis, emis, user, shares>>
  BY <1>3
<1>5. user' = [p \in Pools |-> user'[p]] /\ shares' = [p \in Pools |-> shares'[p]]
  BY <1>1, <1>4 DEF TypesHold
<1>6. CASE Adopt
  <2>1. distro = 0 /\ distro' = now /\ dropped' = dropped /\ blnd' = blnd
    BY <1>6 DEF Adopt
  <2>2. backfill_status # "emitting" /\ ~dropped
    BY <1>1, <2>1 DEF CallsInOrder
  <2>3. TypesHold'
    BY <1>1, <1>2, <1>3, <1>5, <2>1 DEF TypesHold
  <2>4. CallsInOrder'
    BY <1>1, <1>3, <2>1, <2>2 DEF CallsInOrder
  <2>5. Pending' = Pending /\ Backing' = Backing
    BY <1>3, <2>1, <2>2 DEF Pending, Backing
  <2>6. (allowance + Pending) + (blnd + Backing) <= (allowance + Pending) + (blnd + Backing)
    BY <1>2
  <2> QED BY <1>2, <1>3, <1>4, <2>1, <2>3, <2>4, <2>5, <2>6, NoPool
<1>7. CASE EmitterDistribute
  <2> DEFINE m == (now - distro) * SCALAR_7
             k == IF backfill_status = "emitting" THEN m ELSE 0
  <2>1. distro # 0 /\ distro < now /\ distro' = now /\ dropped' = dropped /\ blnd' = blnd + m
    BY <1>7 DEF EmitterDistribute
  <2>2. now - distro \in Nat /\ now # 0
    BY <1>2, <2>1
  <2>3. m \in Nat /\ k \in Nat /\ k <= m
    <3>1. m \in Nat
      BY <2>2, UnitIsNat
    <3> HIDE DEF m
    <3> QED BY <3>1
  <2>4. blnd + m \in Nat /\ Pending + k \in Nat
    <3> HIDE DEF m, k
    <3> QED BY <1>2, <2>3
  <2>5. TypesHold'
    BY <1>1, <1>2, <1>3, <1>5, <2>1, <2>4 DEF TypesHold
  <2>6. CallsInOrder'
    BY <1>1, <1>2, <1>3, <2>1, <2>2 DEF CallsInOrder
  <2>7. Pending' = Pending + k /\ Backing' = Backing
    <3>1. CASE backfill_status = "emitting"
      <4>1. Pending = (distro - last_distribution) * SCALAR_7
        BY <3>1 DEF Pending
      <4>2. Pending' = (now - last_distribution) * SCALAR_7
        BY <1>3, <2>1, <3>1 DEF Pending
      <4>3. (now - last_distribution) * SCALAR_7
              = (distro - last_distribution) * SCALAR_7 + (now - distro) * SCALAR_7
        BY <1>2, UnitIsNat
      <4> QED BY <1>3, <2>1, <3>1, <4>1, <4>2, <4>3 DEF Backing
    <3>2. CASE backfill_status # "emitting"
      BY <1>2, <1>3, <2>1, <3>2 DEF Pending, Backing
    <3> QED BY <3>1, <3>2
  <2> HIDE DEF m, k
  <2>8. (allowance + (Pending + k)) + (blnd + Backing)
          <= (allowance + Pending) + ((blnd + m) + Backing)
    BY <1>2, <2>3
  <2> QED BY <1>2, <1>3, <1>4, <2>1, <2>4, <2>5, <2>6, <2>7, <2>8, NoPool
<1>8. CASE Drop
  <2>1. distro # 0 /\ ~dropped /\ dropped' = TRUE /\ distro' = distro
        /\ blnd' = blnd + backfill_emissions
    BY <1>8 DEF Drop
  <2>2. blnd + backfill_emissions \in Nat
    BY <1>2
  <2>3. TypesHold'
    BY <1>1, <1>2, <1>3, <1>5, <2>1, <2>2 DEF TypesHold
  <2>4. CallsInOrder'
    BY <1>1, <1>3, <2>1 DEF CallsInOrder
  <2>5. Pending' = Pending /\ Backing' = 0 /\ Backing = backfill_emissions /\ 0 \in Nat
    BY <1>3, <2>1 DEF Pending, Backing
  <2>6. (allowance + Pending) + (blnd + Backing)
          <= (allowance + Pending) + ((blnd + backfill_emissions) + 0)
    BY <1>2, <2>5
  <2> QED BY <1>2, <1>3, <1>4, <2>1, <2>2, <2>3, <2>4, <2>5, <2>6, NoPool
<1> QED BY <1>6, <1>7, <1>8

(* Steps that touch nothing the invariant tells of but the time, the zone  *)
(* and the queues.                                                         *)
LEMMA OthersMinted ==
  ASSUME MintedInv, now' \in Nat, now <= now', zone' \subseteq Pools,
         UNCHANGED <<distro, dropped, blnd, allowance, backfill_status, backfill_emissions,
                     last_distribution, rz_emis, shares, emis, user>>
  PROVE  MintedInv'
<1>1. TypesHold /\ CallsInOrder
  BY DEF MintedInv
<1>2. user' = [p \in Pools |-> user'[p]] /\ shares' = [p \in Pools |-> shares'[p]]
  BY <1>1 DEF TypesHold
<1>3. TypesHold' /\ CallsInOrder'
  BY <1>1, <1>2 DEF TypesHold, CallsInOrder
<1>4. Pending' = Pending /\ Backing' = Backing
  BY DEF Pending, Backing
<1>5. Pending \in Nat /\ Backing \in Nat /\ allowance \in Nat /\ blnd \in Nat
  BY <1>1, CallsCount DEF TypesHold
<1>6. (allowance + Pending) + (blnd + Backing) <= (allowance + Pending) + (blnd + Backing)
  BY <1>5
<1>7. UNCHANGED <<rz_emis, emis, user, shares>> /\ allowance' = allowance /\ blnd' = blnd
  OBVIOUS
<1> QED BY <1>3, <1>4, <1>5, <1>6, <1>7, NoPool

LEMMA ZoneMinted ==
  ASSUME MintedInv, NEW p \in Pools, AddToRewardZone(p) \/ RemoveFromRewardZone(p)
  PROVE  MintedInv'
<1>1. zone \subseteq Pools /\ now \in Nat
  BY DEF MintedInv, TypesHold
<1>2. zone' \subseteq Pools
  BY <1>1 DEF AddToRewardZone, RemoveFromRewardZone
<1>3. UNCHANGED <<now, distro, dropped, blnd, allowance, backfill_status, backfill_emissions,
                  last_distribution, rz_emis, shares, emis, user>>
  BY DEF AddToRewardZone, RemoveFromRewardZone, emitterVars, ledgerVars
<1>4. now' \in Nat /\ now <= now'
  BY <1>1, <1>3
<1> QED BY <1>2, <1>3, <1>4, OthersMinted

LEMMA TickMinted ==
  ASSUME MintedInv, Tick
  PROVE  MintedInv'
<1>1. zone \subseteq Pools /\ now \in Nat
  BY DEF MintedInv, TypesHold
<1>2. now' = now + 1
  BY DEF Tick
<1>3. now' \in Nat /\ now <= now'
  BY <1>1, <1>2
<1>4. /\ zone' = zone
      /\ UNCHANGED <<distro, dropped, blnd, allowance, backfill_status, backfill_emissions,
                     last_distribution, rz_emis, shares, emis, user>>
  BY DEF Tick, emitterVars, zoneVars, ledgerVars
<1> QED BY <1>1, <1>3, <1>4, OthersMinted

LEMMA RestMinted ==
  ASSUME MintedInv,
         (\E p \in Pools, u \in Users : Withdraw(p, u)) \/ UNCHANGED vars
  PROVE  MintedInv'
<1>1. zone \subseteq Pools /\ now \in Nat
  BY DEF MintedInv, TypesHold
<1>2. /\ zone' = zone /\ now' = now
      /\ UNCHANGED <<distro, dropped, blnd, allowance, backfill_status, backfill_emissions,
                     last_distribution, rz_emis, shares, emis, user>>
  BY DEF Withdraw, vars, emitterVars, zoneVars, ledgerVars
<1>3. now' \in Nat /\ now <= now' /\ zone' \subseteq Pools
  BY <1>1, <1>2
<1> QED BY <1>2, <1>3, OthersMinted

LEMMA InitIsMinted == Init => MintedInv
<1> SUFFICES ASSUME Init PROVE MintedInv
  OBVIOUS
<1> DEFINE C == [p \in Pools |-> Credit(p, rz_emis[p], emis[p], user[p], shares[p])]
<1>1. NoRewards \in Rewards /\ NoEmissions \in EmissionDatas /\ NothingAccrued \in UserDatas
  BY DEF NoRewards, NoEmissions, NothingAccrued, Rewards, EmissionDatas, UserDatas
<1>2. now \in Nat /\ distro \in Nat
  BY BackstopEmissionsAssumption DEF Init
<1>3. user = [p \in Pools |-> user[p]] /\ shares = [p \in Pools |-> shares[p]]
  <2>1. /\ user = [p \in Pools |-> [u \in Depositors[p] |-> NothingAccrued]]
        /\ shares = [p \in Pools |-> Founding[p]]
    BY DEF Init
  <2> QED BY <2>1
<1>4. TypesHold
  <2>1. rz_emis \in [Pools -> Rewards] /\ emis \in [Pools -> EmissionDatas]
    BY <1>1 DEF Init
  <2>2. /\ blnd = 0 /\ allowance = 0 /\ backfill_emissions = 0 /\ last_distribution = 0
        /\ backfill_status = "none" /\ dropped = FALSE /\ zone = {}
    BY DEF Init
  <2> QED BY <1>2, <1>3, <2>1, <2>2 DEF TypesHold
<1>5. CallsInOrder
  BY DEF Init, CallsInOrder
<1>6. ASSUME NEW p \in Pools
      PROVE  /\ InStep(p, emis[p], user[p], shares[p]) /\ emis[p].last_time <= now
             /\ Credit(p, rz_emis[p], emis[p], user[p], shares[p]) = 0
  <2>1. /\ emis[p] = NoEmissions /\ user[p] = [u \in Depositors[p] |-> NothingAccrued]
        /\ shares[p] = Founding[p] /\ rz_emis[p] = NoRewards
    BY DEF Init
  <2>2. /\ emis[p].index = 0 /\ emis[p].last_time = 0 /\ emis[p].expiration = 0
        /\ \A u \in Depositors[p] : user[p][u].index = 0 /\ user[p][u].accrued = 0
        /\ rz_emis[p].accrued = 0
    BY <2>1 DEF NoEmissions, NothingAccrued, NoRewards
  <2>3. /\ emis[p] \in EmissionDatas /\ user[p] \in [Depositors[p] -> UserDatas]
        /\ shares[p] \in [Depositors[p] -> Nat]
    BY <1>1, <2>1, BackstopEmissionsAssumption
  <2>4. InStep(p, emis[p], user[p], shares[p]) /\ emis[p].last_time <= now
    BY <1>2, <2>2, <2>3 DEF InStep
  <2>5. Still(emis[p]) = 0
    BY <2>2 DEF Still
  <2> DEFINE f == OwedNow(p, emis[p], user[p], shares[p])
  <2>6. f \in [Depositors[p] -> Nat]
    BY <2>4, OwedIsCount
  <2>7. \A u \in Depositors[p] : f[u] = 0
    <3> SUFFICES ASSUME NEW u \in Depositors[p] PROVE f[u] = 0
      OBVIOUS
    <3>1. f[u] = user[p][u].accrued * Unit + shares[p][u] * (emis[p].index - user[p][u].index)
      BY DEF OwedNow, OwedAt, Accruals, Indices
    <3>2. 0 * Unit = 0 /\ shares[p][u] * (0 - 0) = 0
      BY <2>3, UnitIsNat
    <3> QED BY <2>2, <3>1, <3>2
  <2> HIDE DEF f
  <2>8. Total(f) = 0
    BY <2>6, <2>7, TotalOfZeros, DepositorsFinite
  <2>9. 0 * Unit = 0
    BY UnitIsNat
  <2> QED BY <2>2, <2>4, <2>5, <2>8, <2>9 DEF Credit, OwedExactly, f
<1>7. Total(C) = 0
  <2>1. C \in [Pools -> Nat] /\ \A p \in Pools : C[p] = 0
    BY <1>6
  <2> HIDE DEF C
  <2> QED BY <2>1, TotalOfZeros, DepositorsFinite
<1>8. (allowance + Pending) * Unit = 0 /\ (blnd + Backing) * Unit = 0
  <2>1. allowance + Pending = 0 /\ blnd + Backing = 0
    BY DEF Init, Pending, Backing
  <2> QED BY <2>1, UnitIsNat
<1> QED BY <1>4, <1>5, <1>6, <1>7, <1>8 DEF MintedInv

(* What is owed to the fraction, allowed to the pools and minted but not   *)
(* yet distributed never exceeds what the backstop has or will be dropped. *)
THEOREM MintedInvHolds == Spec => []MintedInv
<1>1. MintedInv /\ [Next]_vars => MintedInv'
  <2> SUFFICES ASSUME MintedInv, [Next]_vars PROVE MintedInv'
    OBVIOUS
  <2>1. \A p \in Pools : Active[p] \subseteq Depositors[p] /\ Depositors[p] \subseteq Users
    BY BackstopEmissionsAssumption DEF Users
  <2>2. LpOuts \subseteq Nat
    BY BackstopEmissionsAssumption
  <2>3. ASSUME NEW p \in Pools, AddToRewardZone(p) \/ RemoveFromRewardZone(p) PROVE MintedInv'
    BY <2>3, ZoneMinted
  <2>4. ASSUME NEW p \in Pools, GulpEmissions(p) PROVE MintedInv'
    BY <2>4, GulpEmissionsMinted
  <2>5. ASSUME NEW p \in Pools, NEW u \in Active[p],
               Deposit(p, u) \/ QueueWithdrawal(p, u) \/ DequeueWithdrawal(p, u)
        PROVE  MintedInv'
    BY <2>1, <2>5, LedgerMinted
  <2>6. ASSUME NEW p \in Pools, NEW u \in Active[p], Withdraw(p, u) PROVE MintedInv'
    BY <2>1, <2>6, RestMinted
  <2>7. ASSUME NEW p \in Pools, NEW u \in Active[p], NEW out \in LpOuts, Claim(p, u, out)
        PROVE  MintedInv'
    BY <2>1, <2>2, <2>7, ClaimMinted
  <2>8. CASE UNCHANGED vars
    BY <2>8, RestMinted
  <2> QED
    BY Zenon, <2>3, <2>4, <2>5, <2>6, <2>7, <2>8, TickMinted, EmitterMinted,
       StartDistributionMinted, DistributeMinted DEF Next
<1> QED BY <1>1, InitIsMinted, PTL DEF Spec

---------------------------------------------------------------------------
(* What could be claimed, rounded down for each depositor, and what the    *)
(* stream still emits, rounded down, is at most what is owed.              *)
LEMMA ClaimableIsOwed ==
  ASSUME MintedInv, NEW p \in Pools
  PROVE  /\ Owed(p) \in Nat
         /\ Unit * Owed(p) <= Credit(p, rz_emis[p], emis[p], user[p], shares[p])
<1> DEFINE d == Updated(p)
           f == [u \in Depositors[p] |-> Settled(user[p][u], d, shares[p][u], SCALAR_7).accrued]
           g == OwedNow(p, d, user[p], shares[p])
           rest == IF d.last_time < d.expiration
                   THEN MulFloor(d.eps, d.expiration - d.last_time, SCALAR_7) ELSE 0
           n == rz_emis[p].accrued
<1>1. /\ InStep(p, d, user[p], shares[p]) /\ n \in Nat
      /\ OwedExactly(p, d, user[p], shares[p]) <= OwedExactly(p, emis[p], user[p], shares[p])
  <2>1. rz_emis[p] \in Rewards
    BY DEF MintedInv, TypesHold
  <2> QED BY <2>1, UpdatedIsCovered DEF Rewards
<1>11. OwedExactly(p, emis[p], user[p], shares[p]) \in Nat
  <2>1. InStep(p, emis[p], user[p], shares[p])
    BY DEF MintedInv, TypesHold
  <2> QED BY <2>1, OwedIsCount
<1>2. f \in [Depositors[p] -> Nat]
  BY <1>1, SettledIsLess
<1>3. g \in [Depositors[p] -> Nat] /\ Total(g) \in Nat /\ Still(d) \in Nat
  BY <1>1, OwedIsCount
<1>4. \A u \in Depositors[p] : Unit * f[u] <= 1 * g[u]
  <2> SUFFICES ASSUME NEW u \in Depositors[p] PROVE Unit * f[u] <= 1 * g[u]
    OBVIOUS
  <2>1. g[u] = user[p][u].accrued * Unit + shares[p][u] * (d.index - user[p][u].index)
    BY DEF OwedNow, OwedAt, Accruals, Indices
  <2>2. f[u] \in Nat /\ f[u] * Unit <= g[u]
    BY <1>1, <2>1, SettledIsLess
  <2> HIDE DEF f, g
  <2> QED BY <1>3, <2>2, UnitIsNat
<1>5. Unit * Total(f) <= Total(g) /\ Total(f) \in Nat
  <2> HIDE DEF f, g
  <2>1. Unit \in Nat /\ 1 \in Nat /\ IsFiniteSet(Depositors[p])
    BY UnitIsNat, DepositorsFinite
  <2>2. Unit * Total(f) <= 1 * Total(g)
    BY <1>2, <1>3, <1>4, <2>1, TotalWithin
  <2>3. Total(f) \in Nat
    BY <1>2, <2>1, TotalIsCount
  <2> QED BY <1>3, <2>2, <2>3
<1>6. rest \in Nat /\ Unit * rest <= Still(d)
  <2>1. CASE ~(d.last_time < d.expiration)
    BY <2>1, UnitIsNat DEF Still
  <2>2. CASE d.last_time < d.expiration
    <3> DEFINE m == d.eps * (d.expiration - d.last_time)
               q == FloorDiv(m, SCALAR_7)
    <3>1. m \in Nat
      <4>1. d.eps \in Nat /\ d.expiration \in Nat /\ d.last_time \in Nat
        BY <1>1 DEF InStep, EmissionDatas
      <4>2. d.expiration - d.last_time \in Nat
        BY <2>2, <4>1
      <4> HIDE DEF d
      <4> QED BY <4>1, <4>2
    <3>2. Still(d) = m * SCALAR_7 /\ rest = q
      BY <2>2 DEF Still, MulFloor
    <3> HIDE DEF m, rest
    <3>3. q \in Nat /\ q * SCALAR_7 <= m
      BY <3>1, UnitIsNat, FloorOfNat, FloorBounds
    <3> HIDE DEF q
    <3>4. (q * SCALAR_7) * SCALAR_7 <= m * SCALAR_7
      <4> DEFINE y == q * SCALAR_7
      <4>1. y \in Nat /\ y <= m
        BY <3>3, UnitIsNat
      <4> HIDE DEF y
      <4>2. y * SCALAR_7 <= m * SCALAR_7
        BY <3>1, <4>1, UnitIsNat
      <4> QED BY <4>2 DEF y
    <3>5. (q * SCALAR_7) * SCALAR_7 = Unit * q
      BY <3>3, UnitIsNat DEF Unit
    <3> QED BY <3>2, <3>3, <3>4, <3>5
  <2> QED BY <2>1, <2>2
<1>7. Owed(p) = n + Total(f) + rest
  BY DEF Owed
<1>8. /\ OwedExactly(p, d, user[p], shares[p]) = Total(g) + Still(d)
      /\ Credit(p, rz_emis[p], emis[p], user[p], shares[p])
           = n * Unit + OwedExactly(p, emis[p], user[p], shares[p])
  BY DEF Credit, OwedExactly
<1> HIDE DEF f, g, rest, n, d
<1>9. Unit * (n + Total(f) + rest) = n * Unit + Unit * Total(f) + Unit * rest
  BY <1>1, <1>5, <1>6, UnitIsNat
<1>10. /\ Unit * Total(f) \in Nat /\ Unit * rest \in Nat /\ n * Unit \in Nat
       /\ n + Total(f) + rest \in Nat
  BY <1>1, <1>5, <1>6, UnitIsNat
<1> QED BY <1>1, <1>3, <1>5, <1>6, <1>7, <1>8, <1>9, <1>10, <1>11

LEMMA WithinMinted ==
  ASSUME NEW o \in Nat, NEW a \in Nat, NEW b \in Nat, NEW pending \in Nat,
         NEW unit \in Nat \ {0}, unit * o + (a + pending) * unit <= b * unit
  PROVE  o + a <= b
<1>1. unit * (o + a + pending) <= unit * b
  BY SMT
<1> DEFINE m == o + a + pending
<1>2. m \in Nat /\ unit * m <= unit * b
  BY <1>1
<1> HIDE DEF m
<1>3. m <= b
  BY <1>2
<1> QED BY <1>3 DEF m

LEMMA MintedToTheUnit == MintedInv => EmissionsAreMinted
<1> SUFFICES ASSUME MintedInv PROVE EmissionsAreMinted
  OBVIOUS
<1> DEFINE f == [p \in Pools |-> Owed(p)]
           F == [p \in Pools |-> Credit(p, rz_emis[p], emis[p], user[p], shares[p])]
<1>1. f \in [Pools -> Nat] /\ \A p \in Pools : Unit * f[p] <= F[p]
  BY ClaimableIsOwed
<1>2. F \in [Pools -> Nat]
  <2>1. \A p \in Pools : InStep(p, emis[p], user[p], shares[p]) /\ rz_emis[p] \in Rewards
    BY DEF MintedInv, TypesHold
  <2> QED BY <2>1, CreditIsCount
<1>3. Total(F) + (allowance + Pending) * Unit <= (blnd + Backing) * Unit
  BY DEF MintedInv
<1> HIDE DEF f, F
<1>4. /\ IsFiniteSet(Pools) /\ Unit \in Nat /\ Unit \in Nat \ {0} /\ 1 \in Nat
      /\ \A p \in Pools : Unit * f[p] <= 1 * F[p]
  BY <1>1, <1>2, UnitIsNat, DepositorsFinite
<1>5. Unit * Total(f) <= 1 * Total(F)
  BY <1>1, <1>2, <1>4, TotalWithin
<1>6. Total(f) \in Nat /\ Total(F) \in Nat
  BY <1>1, <1>2, <1>4, TotalIsCount
<1>7. /\ allowance \in Nat /\ blnd + Backing \in Nat /\ Pending \in Nat
  <2>1. TypesHold /\ CallsInOrder
    BY DEF MintedInv
  <2>2. allowance \in Nat /\ blnd \in Nat /\ Backing \in Nat /\ Pending \in Nat
    BY <2>1, CallsCount DEF TypesHold
  <2> QED BY <2>2
<1>8. Unit * Total(f) + (allowance + Pending) * Unit <= (blnd + Backing) * Unit
  <2>1. (allowance + Pending) * Unit \in Nat /\ (blnd + Backing) * Unit \in Nat
    BY <1>4, <1>7
  <2>2. Unit * Total(f) \in Nat
    BY <1>4, <1>6
  <2> QED BY <1>3, <1>5, <1>6, <2>1, <2>2
<1>9. Total(f) + allowance <= blnd + Backing
  BY <1>4, <1>6, <1>7, <1>8, WithinMinted
<1> QED BY <1>9 DEF EmissionsAreMinted, Backing, f

(* The backstop has, or will be dropped, all it distributed: it counts no  *)
(* second the emitter did not mint for, and what it backfilled is minted   *)
(* once, in whatever order the swap, the drop and the distributions come.  *)
THEOREM EmissionsStayMinted == Spec => []EmissionsAreMinted
BY MintedInvHolds, MintedToTheUnit, PTL

(* What a depositor can claim is a part of what all are owed, and that is  *)
(* minted once nothing is still to be dropped.                             *)
LEMMA ClaimIsCovered ==
  ASSUME MintedInv, NEW p \in Pools, NEW u \in Depositors[p],
         dropped \/ backfill_emissions = 0
  PROVE  ClaimOf(p, u) + allowance <= blnd
<1> DEFINE o == [x \in Pools |-> Owed(x)]
           d == Updated(p)
           c == [x \in Depositors[p] |-> Settled(user[p][x], d, shares[p][x], SCALAR_7).accrued]
           rest == IF d.last_time < d.expiration
                   THEN MulFloor(d.eps, d.expiration - d.last_time, SCALAR_7) ELSE 0
           n == rz_emis[p].accrued
<1>1. o \in [Pools -> Nat] /\ IsFiniteSet(Pools)
  BY ClaimableIsOwed, BackstopEmissionsAssumption
<1>2. InStep(p, d, user[p], shares[p]) /\ n \in Nat
  <2>1. rz_emis[p] \in Rewards
    BY DEF MintedInv, TypesHold
  <2> QED BY <2>1, UpdatedIsCovered DEF Rewards
<1>3. c \in [Depositors[p] -> Nat]
  BY <1>2, SettledIsLess
<1>4. c[u] = ClaimOf(p, u) /\ o[p] = n + Total(c) + rest
  BY DEF ClaimOf, Owed
<1>5. rest \in Nat
  <2>1. d.eps \in Nat /\ d.expiration \in Nat /\ d.last_time \in Nat
    BY <1>2 DEF InStep, EmissionDatas
  <2> HIDE DEF d
  <2>2. d.last_time < d.expiration => MulFloor(d.eps, d.expiration - d.last_time, SCALAR_7) \in Nat
    <3>1. d.last_time < d.expiration => d.expiration - d.last_time \in Nat
      BY <2>1
    <3> QED BY <2>1, <3>1, UnitIsNat, RoundingOfNat
  <2> QED BY <2>2
<1>6. EmissionsAreMinted
  BY MintedToTheUnit
<1>7. Total(o) + allowance <= blnd + IF dropped THEN 0 ELSE backfill_emissions
  BY <1>6 DEF EmissionsAreMinted
<1>8. allowance \in Nat /\ blnd \in Nat
  BY DEF MintedInv, TypesHold
<1> HIDE DEF o, c, rest, n
<1>9. o[p] <= Total(o) /\ Total(o) \in Nat /\ o[p] \in Nat
  BY <1>1, TotalBoundsMember, TotalIsCount
<1>10. c[u] <= Total(c) /\ Total(c) \in Nat /\ c[u] \in Nat
  BY <1>3, DepositorsFinite, TotalBoundsMember, TotalIsCount
<1>11. Total(o) + allowance <= blnd
  BY <1>7, <1>8
<1> QED BY <1>2, <1>4, <1>5, <1>8, <1>9, <1>10, <1>11

(* Once the drop took place, or if nothing was backfilled, a claim of a    *)
(* depositor never fails for want of the tokens, and leaves those that the *)
(* pools may take.  Before the drop it may fail: what was backfilled has   *)
(* been distributed and is not there yet.                                  *)
THEOREM ClaimsAreBacked ==
  Spec => [](dropped \/ backfill_emissions = 0
               => \A p \in Pools : \A u \in Depositors[p] :
                    ClaimOf(p, u) + allowance <= blnd)
<1>1. MintedInv => (dropped \/ backfill_emissions = 0
                      => \A p \in Pools : \A u \in Depositors[p] :
                           ClaimOf(p, u) + allowance <= blnd)
  BY ClaimIsCovered
<1> QED BY <1>1, MintedInvHolds, PTL

---------------------------------------------------------------------------
(* As in PoolEmissionProofs: what a depositor earned is covered by what    *)
(* the index rose by, for each of its unqueued shares, and is just that    *)
(* when the shares come out even.  A depositor's shares, queued or not,    *)
(* then stay within the bound.                                             *)
WithinBound(p, bs, qs) ==
  SharesComeOutEven(p) => \A u \in Depositors[p] : bs[u] + qs[u] <= MaxShares

AccountInv ==
  /\ MintedInv
  /\ q4w = [p \in Pools |-> q4w[p]]
  /\ \A p \in Pools :
       /\ q4w[p] \in [Depositors[p] -> Nat]
       /\ WithinBound(p, shares[p], q4w[p])
  /\ held = [p \in Pools |-> held[p]]
  /\ due = [p \in Pools |-> due[p]]
  /\ unheld \in [Pools -> Int]
  /\ \A p \in Pools :
       InAccount(Depositors[p], emis[p], now, user[p], shares[p], held[p],
                 due[p], unheld[p], SCALAR_7, SharesComeOutEven(p))

LEMMA SharesAreEven ==
  ASSUME NEW p \in Pools, NEW f \in [Depositors[p] -> Nat],
         NEW q \in [Depositors[p] -> Nat], WithinBound(p, f, q), SharesComeOutEven(p)
  PROVE  Total(f) # 0 => SCALAR_7 % Total(f) = 0
<1>1. ASSUME NEW u \in Depositors[p] PROVE f[u] <= MaxShares
  <2>1. f[u] + q[u] <= MaxShares /\ f[u] \in Nat /\ q[u] \in Nat /\ MaxShares \in Nat
    BY BackstopEmissionsAssumption DEF WithinBound
  <2> QED BY <2>1
<1>2. f \in [Depositors[p] -> 0..MaxShares]
  BY <1>1, BackstopEmissionsAssumption
<1> QED BY <1>2 DEF SharesComeOutEven

(* update_emission_data brings the index up to now, and what is emitted    *)
(* while every share is queued is dropped.                                 *)
LEMMA UpdatedIsCurrent ==
  ASSUME AccountInv, NEW p \in Pools
  PROVE  /\ InStep(p, Updated(p), user[p], shares[p]) /\ Updated(p).last_time <= now
         /\ Updated(p).index = IndexAt(emis[p], now, Total(shares[p]), SCALAR_7)
         /\ PoolTokens(p) # 0 => /\ PendingAt(Updated(p), now) = 0
                                 /\ Dropped(p) \/ unheld[p] = 0
         /\ PoolTokens(p) = 0 => /\ Updated(p) = emis[p] /\ Total(shares[p]) = 0
                                 /\ ~Dropped(p)
<1> DEFINE d == emis[p]
           e == Updated(p)
           s == Unqueued(p)
           k == PoolTokens(p)
           x == PendingAt(d, now)
<1>1. MintedInv /\ InStep(p, e, user[p], shares[p]) /\ e.last_time <= now
  BY UpdatedIsCovered DEF AccountInv
<1>2. /\ InStep(p, d, user[p], shares[p]) /\ now \in Nat /\ d.last_time <= now
      /\ q4w[p] \in [Depositors[p] -> Nat]
  BY DEF AccountInv, MintedInv, TypesHold
<1>3. /\ d \in EmissionDatas /\ shares[p] \in [Depositors[p] -> Nat]
      /\ d.eps \in Nat /\ d.expiration \in Nat /\ d.index \in Nat /\ d.last_time \in Nat
  BY <1>2 DEF InStep, EmissionDatas
<1>4. s = Total(shares[p]) /\ s \in Nat
  BY <1>3, TotalIsCount, DepositorsFinite DEF Unqueued
<1>5. x \in Nat
  BY <1>2, <1>3, PendingIsNat
<1>6. k \in Nat /\ (k = 0 => s = 0)
  <2>1. PoolQ4W(p) \in Nat
    BY <1>2, TotalIsCount, DepositorsFinite DEF PoolQ4W
  <2> QED BY <1>4, <2>1 DEF PoolTokens
<1>7. e = IF Emitting(d, now) /\ k # 0
          THEN [d EXCEPT !.index = @ + IF s = 0 THEN 0 ELSE DivFloor(Emitted(d, now), s, SCALAR_7),
                         !.last_time = now]
          ELSE d
  BY DEF Updated, Updates, Earning
<1>8. IndexAt(d, now, s, SCALAR_7) = d.index + IF s = 0 THEN 0 ELSE FloorDiv(x * SCALAR_7, s)
  BY DEF IndexAt
<1>9. ~Emitting(d, now) => x = 0
  <2>1. CASE ~(d.last_time < d.expiration)
    BY <2>1 DEF PendingAt
  <2>2. CASE d.last_time < d.expiration /\ d.last_time = now
    <3>1. MinOf(now, d.expiration) - d.last_time = 0
      BY <1>2, <1>3, <2>2 DEF MinOf
    <3>2. x = 0 * d.eps
      BY <2>2, <3>1 DEF PendingAt
    <3> QED BY <1>3, <3>2
  <2>3. CASE d.last_time < d.expiration /\ d.eps = 0
    <3>1. MinOf(now, d.expiration) - d.last_time \in Int
      BY <1>2, <1>3 DEF MinOf
    <3>2. x = (MinOf(now, d.expiration) - d.last_time) * 0
      BY <2>3 DEF PendingAt
    <3> QED BY <3>1, <3>2
  <2> QED BY <2>1, <2>2, <2>3 DEF Emitting
<1>10. Emitting(d, now) => Emitted(d, now) = x
  BY DEF Emitting, Emitted, PendingAt
<1>11. SCALAR_7 \in Nat
  BY UnitIsNat
<1>12. /\ Dropped(p) <=> Emitting(d, now) /\ k # 0 /\ s = 0
       /\ unheld[p] = IF s = 0 THEN x * SCALAR_7 ELSE 0
  <2>1. InAccount(Depositors[p], d, now, user[p], shares[p], held[p], due[p],
                  unheld[p], SCALAR_7, SharesComeOutEven(p))
    BY DEF AccountInv
  <2> QED BY <1>4, <2>1 DEF Dropped, Updates, InAccount
<1> DEFINE drops == Dropped(p)
<1>13. /\ ~Emitting(d, now) \/ s # 0 \/ k = 0 \/ drops
       /\ ~Emitting(d, now) => unheld[p] = 0
       /\ s # 0 => unheld[p] = 0
  <2>1. 0 * SCALAR_7 = 0
    BY <1>11
  <2> HIDE DEF d, s, k, x
  <2> QED BY <1>9, <1>12, <2>1
<1>14. k = 0 => ~drops
  BY <1>12
<1> HIDE DEF d, e, s, k, x, drops
<1>15. CASE k = 0
  <2>1. e = d /\ s = 0 /\ IndexAt(d, now, s, SCALAR_7) = d.index
    BY <1>3, <1>6, <1>7, <1>8, <1>15
  <2> QED BY <1>1, <1>4, <1>14, <1>15, <2>1 DEF d, e, s, k, drops
<1>16. CASE k # 0 /\ ~Emitting(d, now)
  <2>1. e = d /\ x = 0 /\ unheld[p] = 0
    BY <1>7, <1>9, <1>13, <1>16
  <2>2. IndexAt(d, now, s, SCALAR_7) = d.index
    BY <1>3, <1>4, <1>11, <2>1, IndexUpToDate DEF x
  <2>3. PendingAt(e, now) = 0
    BY <2>1 DEF x
  <2> QED BY <1>1, <1>4, <1>16, <2>1, <2>2, <2>3 DEF d, e, s, k
<1>17. CASE k # 0 /\ Emitting(d, now)
  <2> DEFINE step == IF s = 0 THEN 0 ELSE FloorDiv(x * SCALAR_7, s)
  <2>1. s # 0 => DivFloor(Emitted(d, now), s, SCALAR_7) = FloorDiv(x * SCALAR_7, s)
    BY <1>10, <1>17 DEF DivFloor
  <2>2. step \in Nat
    <3>1. x * SCALAR_7 \in Nat
      BY <1>5, <1>11
    <3>2. s # 0 => FloorDiv(x * SCALAR_7, s) \in Nat
      BY <1>4, <3>1, FloorOfNat
    <3> QED BY <3>2
  <2>3. e = [d EXCEPT !.index = @ + step, !.last_time = now]
    BY <1>7, <1>17, <2>1
  <2>4. IndexAt(d, now, s, SCALAR_7) = d.index + step
    BY <1>8
  <2> HIDE DEF step
  <2>5. e.index = d.index + step /\ e.last_time = now /\ e.expiration = d.expiration /\ e.eps = d.eps
    BY <1>3, <2>3 DEF EmissionDatas
  <2>6. PendingAt(e, now) = 0
    <3>1. CASE ~(now < d.expiration)
      BY <2>5, <3>1 DEF PendingAt
    <3>2. CASE now < d.expiration
      <4>1. MinOf(now, e.expiration) - e.last_time = 0
        BY <1>2, <1>3, <2>5, <3>2 DEF MinOf
      <4>2. PendingAt(e, now) = 0 * e.eps
        BY <2>5, <3>2, <4>1 DEF PendingAt
      <4> QED BY <1>3, <2>5, <4>2
    <3> QED BY <3>1, <3>2
  <2>7. drops \/ unheld[p] = 0
    BY <1>13, <1>17
  <2> QED BY <1>1, <1>4, <1>17, <2>4, <2>5, <2>6, <2>7 DEF d, e, s, k, drops
<1> QED BY <1>15, <1>16, <1>17

(* What is claimable covers what was earned.                               *)
LEMMA SettledIsEarned ==
  ASSUME AccountInv, NEW p \in Pools, NEW u \in Depositors[p]
  PROVE  /\ ClaimOf(p, u) \in Int /\ due[p][u] + held[p][u] \div Unit \in Int
         /\ Meets(ClaimOf(p, u), due[p][u] + held[p][u] \div Unit, SharesComeOutEven(p))
<1> DEFINE i == IndexAt(emis[p], now, Total(shares[p]), SCALAR_7)
           m == shares[p][u] * (i - user[p][u].index)
           a == user[p][u].accrued
           exact == SharesComeOutEven(p)
<1>1. /\ Meets(a, due[p][u], exact) /\ Meets(m, held[p][u], exact)
      /\ due[p] \in [Depositors[p] -> Int] /\ held[p] \in [Depositors[p] -> Int]
  BY DEF AccountInv, InAccount
<1>2. Updated(p).index = i /\ InStep(p, Updated(p), user[p], shares[p])
  BY UpdatedIsCurrent
<1>3. ClaimOf(p, u) = a + m \div Unit
  BY <1>2 DEF ClaimOf, Settled, MulFloor, FloorDiv, Unit
<1>4. /\ m \in Int /\ a \in Int /\ due[p][u] \in Int /\ held[p][u] \in Int
      /\ Unit \in Nat \ {0}
  <2>1. shares[p] \in [Depositors[p] -> Nat] /\ user[p] \in [Depositors[p] -> UserDatas]
    BY <1>2 DEF InStep
  <2>2. i \in Nat
    BY <1>2 DEF InStep, EmissionDatas
  <2> HIDE DEF i
  <2>3. shares[p][u] \in Nat /\ user[p][u].index \in Nat /\ a \in Nat
    BY <2>1 DEF UserDatas
  <2> QED BY <1>1, <2>2, <2>3, UnitIsNat
<1> HIDE DEF m, a, exact
<1>5. Meets(m \div Unit, held[p][u] \div Unit, exact)
  BY <1>1, <1>4, MeetsPart
<1>6. m \div Unit \in Int /\ held[p][u] \div Unit \in Int
  BY <1>4
<1> DEFINE x == m \div Unit
           y == held[p][u] \div Unit
<1> HIDE DEF x, y
<1>7. Meets(a + x, due[p][u] + y, exact)
  BY <1>1, <1>4, <1>5, <1>6, MeetsSum DEF x, y
<1> QED BY <1>3, <1>4, <1>6, <1>7 DEF x, y, exact

(* The accounts of a pool whose depositor u is settled: its data become s, *)
(* its unqueued shares b, and what it is owed x.                           *)
LEMMA SettledAccount ==
  ASSUME AccountInv, NEW p \in Pools, NEW u \in Depositors[p],
         NEW s \in UserDatas, s.index = Updated(p).index, NEW b \in Nat,
         NEW x \in Int, Meets(s.accrued, x, SharesComeOutEven(p))
  PROVE  InAccount(Depositors[p], Updated(p), now, [user[p] EXCEPT ![u] = s],
                   [shares[p] EXCEPT ![u] = b],
                   [held[p] EXCEPT ![u] = IF PoolTokens(p) = 0 /\ b > 0
                                          THEN b * (unheld[p] \div b) ELSE 0],
                   [due[p] EXCEPT ![u] = x],
                   IF Dropped(p) \/ (PoolTokens(p) = 0 /\ b > 0) THEN 0 ELSE unheld[p],
                   SCALAR_7, SharesComeOutEven(p))
<1> DEFINE D == Depositors[p]
           e == Updated(p)
           vs == [user[p] EXCEPT ![u] = s]
           bs == shares[p]
           cs == [shares[p] EXCEPT ![u] = b]
           es == [due[p] EXCEPT ![u] = x]
           i == IndexAt(emis[p], now, Total(bs), SCALAR_7)
           k == PoolTokens(p)
           drops == Dropped(p)
<1>1. /\ InStep(p, e, user[p], bs) /\ e.last_time <= now /\ e.index = i
      /\ k # 0 => PendingAt(e, now) = 0 /\ (drops \/ unheld[p] = 0)
      /\ k = 0 => e = emis[p] /\ Total(bs) = 0 /\ ~drops
  BY UpdatedIsCurrent
<1>2. now \in Nat /\ SCALAR_7 \in Nat /\ IsFiniteSet(D)
  BY UnitIsNat, DepositorsFinite DEF AccountInv, MintedInv, TypesHold
<1>3. /\ e \in EmissionDatas /\ e.index \in Int
      /\ user[p] \in [D -> UserDatas] /\ bs \in [D -> Nat]
  BY <1>1 DEF InStep, EmissionDatas
<1>4. InAccount(D, emis[p], now, user[p], bs, held[p], due[p], unheld[p],
                SCALAR_7, SharesComeOutEven(p))
  BY DEF AccountInv
<1>5. held[p] \in [D -> Int] /\ due[p] \in [D -> Int]
  BY <1>4 DEF InAccount
<1>6. s.accrued \in Int /\ s.index \in Int
  BY DEF UserDatas
<1> HIDE DEF e, bs, k, drops
<1>7. /\ vs[u] = s /\ \A g \in D \ {u} : vs[g] = user[p][g]
      /\ cs \in [D -> Nat] /\ cs[u] = b /\ \A g \in D \ {u} : cs[g] = bs[g]
  BY <1>3 DEF bs
<1>8. x \in Int /\ es = [due[p] EXCEPT ![u] = x] /\ Meets(vs[u].accrued, x, SharesComeOutEven(p))
  BY <1>7
<1>9. vs[u].index = e.index
  BY <1>6, <1>7 DEF e
<1>10. \A g \in D \ {u} : vs[g] = user[p][g] /\ cs[g] = bs[g] /\ user[p][g].index \in Int
  BY <1>3, <1>7 DEF UserDatas
<1>12. Total(bs) \in Nat
  BY <1>2, <1>3, TotalIsCount
<1> HIDE DEF vs, cs, es, i
<1>13. CASE k = 0 /\ b > 0
  <2> DEFINE d == emis[p]
             gs == [held[p] EXCEPT ![u] = b * (unheld[p] \div b)]
  <2>1. e = d /\ Total(bs) = 0
    BY <1>1, <1>13
  <2>2. cs[u] # 0 /\ gs = [held[p] EXCEPT ![u] = cs[u] * (unheld[p] \div cs[u])]
    BY <1>7, <1>13
  <2>3. d \in EmissionDatas /\ d.last_time <= now /\ vs[u].index = d.index
    BY <1>1, <1>3, <1>9, <2>1
  <2> HIDE DEF d
  <2>4. InAccount(D, d, now, user[p], bs, held[p], due[p], unheld[p],
                  SCALAR_7, SharesComeOutEven(p))
    BY <1>4 DEF d
  <2> HIDE DEF D
  <2>5. InAccount(D, d, now, vs, cs, gs, es, 0, SCALAR_7, SharesComeOutEven(p))
    BY ONLY u \in D, <1>2, <1>3, <1>7, <1>8, <1>9, <1>10, <2>1, <2>2, <2>3, <2>4, FirstAccount
       DEF D
  <2> QED BY <1>13, <2>1, <2>5 DEF e, vs, cs, es, bs, k, D
<1>14. CASE ~(k = 0 /\ b > 0)
  <2> DEFINE gs == [held[p] EXCEPT ![u] = 0]
             un == IF drops THEN 0 ELSE unheld[p]
  <2>1. InAccount(D, e, now, user[p], bs, held[p], due[p], un,
                  SCALAR_7, SharesComeOutEven(p))
    <3>1. CASE k = 0
      BY <1>1, <1>4, <3>1
    <3>2. CASE k # 0
      <4>1. un = 0 /\ PendingAt(e, now) = 0
        BY <1>1, <3>2
      <4>2. InAccount(D, e, now, user[p], bs, held[p], due[p], 0,
                      SCALAR_7, SharesComeOutEven(p))
        BY <1>1, <1>2, <1>3, <1>4, <1>12, <4>1, UpdateAccount DEF i
      <4> QED BY <4>1, <4>2
    <3> QED BY <3>1, <3>2
  <2>2. vs[u].index = IndexAt(e, now, Total(bs), SCALAR_7)
    <3>1. CASE k = 0
      BY <1>1, <1>9, <3>1 DEF i
    <3>2. CASE k # 0
      <4>1. PendingAt(e, now) = 0
        BY <1>1, <3>2
      <4>2. IndexAt(e, now, Total(bs), SCALAR_7) = e.index
        BY <1>2, <1>3, <1>12, <4>1, IndexUpToDate
      <4> QED BY <1>9, <4>2
    <3> QED BY <3>1, <3>2
  <2>3. \A g \in D \ {u} : vs[g] = user[p][g]
    BY <1>10
  <2> HIDE DEF un
  <2>4. InAccount(D, e, now, vs, bs, gs, es, un,
                  SCALAR_7, SharesComeOutEven(p))
    BY ONLY u \in D, <1>1, <1>2, <1>3, <1>8, <1>9, <2>1, <2>2, <2>3, SettleAccount
  <2>5. gs[u] = 0 /\ vs[u].index = e.index
    BY <1>5, <1>9
  <2> HIDE DEF gs
  <2>6. InAccount(D, e, now, vs, cs, gs, es, un,
                  SCALAR_7, SharesComeOutEven(p))
    <3>1. CASE k # 0
      <4>1. un = 0 /\ PendingAt(e, now) = 0
        BY <1>1, <3>1 DEF un
      <4>2. InAccount(D, e, now, vs, bs, gs, es, 0,
                      SCALAR_7, SharesComeOutEven(p))
        BY <2>4, <4>1
      <4>3. InAccount(D, e, now, vs, cs, gs, es, 0,
                      SCALAR_7, SharesComeOutEven(p))
        BY ONLY u \in D, <1>2, <1>3, <1>7, <2>5, <4>1, <4>2, BalanceAccount
      <4> QED BY <4>1, <4>3
    <3>2. CASE k = 0
      <4>1. b = 0
        BY <1>14, <3>2
      <4>2. bs[u] <= Total(bs) /\ bs[u] \in Nat
        BY <1>2, <1>3, TotalBoundsMember
      <4>3. bs[u] = 0
        BY <1>1, <3>2, <4>2
      <4>4. cs = bs
        BY <1>3, <4>1, <4>3 DEF cs, bs
      <4> QED BY <2>4, <4>4
    <3> QED BY <3>1, <3>2
  <2> QED BY <1>14, <2>6 DEF e, vs, cs, es, bs, k, un, gs, drops, D
<1> QED BY <1>13, <1>14

(* Only one pool's accounts change.                                        *)
LEMMA OneAccount ==
  ASSUME AccountInv, MintedInv', NEW p \in Pools, NEW e, NEW us, NEW bs, NEW hs, NEW ds,
         NEW un \in Int, NEW qs \in [Depositors[p] -> Nat],
         WithinBound(p, bs, qs),
         InAccount(Depositors[p], e, now, us, bs, hs, ds, un,
                   SCALAR_7, SharesComeOutEven(p)),
         emis' = [emis EXCEPT ![p] = e], user' = [user EXCEPT ![p] = us],
         shares' = [shares EXCEPT ![p] = bs], q4w' = [q4w EXCEPT ![p] = qs],
         held' = [held EXCEPT ![p] = hs], due' = [due EXCEPT ![p] = ds],
         unheld' = [unheld EXCEPT ![p] = un], now' = now
  PROVE  AccountInv'
<1>1. /\ DOMAIN emis = Pools /\ DOMAIN user = Pools /\ DOMAIN shares = Pools
      /\ DOMAIN q4w = Pools /\ DOMAIN held = Pools /\ DOMAIN due = Pools
      /\ unheld \in [Pools -> Int]
  <2>1. TypesHold
    BY DEF AccountInv, MintedInv
  <2>2. emis \in [Pools -> EmissionDatas]
    BY <2>1 DEF TypesHold
  <2>3. DOMAIN user = Pools /\ DOMAIN shares = Pools
    BY Zenon, <2>1 DEF TypesHold
  <2>4. DOMAIN q4w = Pools /\ DOMAIN held = Pools /\ DOMAIN due = Pools
    BY Zenon DEF AccountInv
  <2> QED BY <2>2, <2>3, <2>4 DEF AccountInv
<1>2. /\ emis'[p] = e /\ user'[p] = us /\ shares'[p] = bs /\ q4w'[p] = qs
      /\ held'[p] = hs /\ due'[p] = ds /\ unheld'[p] = un
      /\ \A o \in Pools \ {p} :
           /\ emis'[o] = emis[o] /\ user'[o] = user[o] /\ shares'[o] = shares[o]
           /\ q4w'[o] = q4w[o] /\ held'[o] = held[o] /\ due'[o] = due[o]
           /\ unheld'[o] = unheld[o]
  BY <1>1
<1>3. /\ q4w' = [o \in Pools |-> q4w'[o]] /\ held' = [o \in Pools |-> held'[o]]
      /\ due' = [o \in Pools |-> due'[o]] /\ unheld' \in [Pools -> Int]
  BY <1>1
<1>4. ASSUME NEW o \in Pools
      PROVE  /\ q4w'[o] \in [Depositors[o] -> Nat]
             /\ WithinBound(o, shares'[o], q4w'[o])
             /\ InAccount(Depositors[o], emis'[o], now', user'[o], shares'[o], held'[o],
                          due'[o], unheld'[o], SCALAR_7, SharesComeOutEven(o))
  <2>1. CASE o = p
    BY ONLY <1>2, <2>1, qs \in [Depositors[p] -> Nat], now' = now,
       WithinBound(p, bs, qs),
       InAccount(Depositors[p], e, now, us, bs, hs, ds, un,
                 SCALAR_7, SharesComeOutEven(p))
  <2>2. CASE o # p
    <3>1. /\ emis'[o] = emis[o] /\ user'[o] = user[o] /\ shares'[o] = shares[o]
          /\ q4w'[o] = q4w[o] /\ held'[o] = held[o] /\ due'[o] = due[o]
          /\ unheld'[o] = unheld[o] /\ now' = now
      BY <1>2, <2>2
    <3>2. /\ q4w[o] \in [Depositors[o] -> Nat]
          /\ WithinBound(o, shares[o], q4w[o])
          /\ InAccount(Depositors[o], emis[o], now, user[o], shares[o], held[o],
                       due[o], unheld[o], SCALAR_7, SharesComeOutEven(o))
      BY DEF AccountInv
    <3> QED BY ONLY <3>1, <3>2
  <2> QED BY <2>1, <2>2
<1> QED BY <1>3, <1>4 DEF AccountInv

(* An operation of u settles it and changes its shares.                    *)
LEMMA SettlementAccounted ==
  ASSUME AccountInv, MintedInv', NEW p \in Pools, NEW u \in Depositors[p],
         NEW s \in UserDatas, s.index = Updated(p).index,
         NEW x \in Int, Meets(s.accrued, x, SharesComeOutEven(p)),
         NEW b \in Nat, NEW c \in Nat, SharesComeOutEven(p) => b + c <= MaxShares,
         emis' = [emis EXCEPT ![p] = Updated(p)],
         user' = [user EXCEPT ![p] = [user[p] EXCEPT ![u] = s]],
         shares' = [shares EXCEPT ![p] = [shares[p] EXCEPT ![u] = b]],
         q4w' = [q4w EXCEPT ![p] = [q4w[p] EXCEPT ![u] = c]],
         due' = [due EXCEPT ![p] = [due[p] EXCEPT ![u] = x]],
         Inherited(p, u), now' = now
  PROVE  AccountInv'
<1> DEFINE us == [user[p] EXCEPT ![u] = s]
           bs == [shares[p] EXCEPT ![u] = b]
           qs == [q4w[p] EXCEPT ![u] = c]
           hs == [held[p] EXCEPT ![u] = IF PoolTokens(p) = 0 /\ b > 0
                                        THEN b * (unheld[p] \div b) ELSE 0]
           ds == [due[p] EXCEPT ![u] = x]
           un == IF Dropped(p) \/ (PoolTokens(p) = 0 /\ b > 0) THEN 0 ELSE unheld[p]
<1>1. /\ DOMAIN shares = Pools /\ DOMAIN held = Pools /\ unheld \in [Pools -> Int]
      /\ shares[p] \in [Depositors[p] -> Nat] /\ q4w[p] \in [Depositors[p] -> Nat]
      /\ WithinBound(p, shares[p], q4w[p])
  <2>1. TypesHold /\ InStep(p, emis[p], user[p], shares[p])
    BY DEF AccountInv, MintedInv
  <2>2. DOMAIN shares = Pools
    BY Zenon, <2>1 DEF TypesHold
  <2>3. DOMAIN held = Pools
    BY Zenon DEF AccountInv
  <2> QED BY <2>1, <2>2, <2>3 DEF AccountInv, InStep
<1>2. shares'[p][u] = b
  BY <1>1
<1>3. IsFirst(p, u) <=> PoolTokens(p) = 0 /\ b > 0
  BY <1>2 DEF IsFirst
<1>4. held' = [held EXCEPT ![p] = hs] /\ unheld' = [unheld EXCEPT ![p] = un]
  <2>1. /\ held' = [held EXCEPT ![p][u] = IF IsFirst(p, u) THEN b * (unheld[p] \div b) ELSE 0]
        /\ unheld' = [unheld EXCEPT ![p] = IF Dropped(p) \/ IsFirst(p, u) THEN 0 ELSE unheld[p]]
    BY <1>1, <1>2 DEF Inherited
  <2> QED BY <1>3, <2>1
<1>6. InAccount(Depositors[p], Updated(p), now, us, bs, hs, ds, un,
                SCALAR_7, SharesComeOutEven(p))
  BY SettledAccount
<1>7. un \in Int
  BY <1>1
<1>8. qs \in [Depositors[p] -> Nat] /\ WithinBound(p, bs, qs)
  BY <1>1 DEF WithinBound
<1> HIDE DEF us, bs, qs, hs, ds, un
<1>9. /\ emis' = [emis EXCEPT ![p] = Updated(p)] /\ user' = [user EXCEPT ![p] = us]
      /\ shares' = [shares EXCEPT ![p] = bs] /\ q4w' = [q4w EXCEPT ![p] = qs]
      /\ due' = [due EXCEPT ![p] = ds]
  BY DEF us, bs, qs, ds
<1> DEFINE e == Updated(p)
<1>10. InAccount(Depositors[p], e, now, us, bs, hs, ds, un,
                 SCALAR_7, SharesComeOutEven(p)) /\ emis' = [emis EXCEPT ![p] = e]
  BY <1>6, <1>9
<1> HIDE DEF e
<1> QED
  BY ONLY AccountInv, MintedInv', p \in Pools, <1>4, <1>7, <1>8, <1>9, <1>10, now' = now, OneAccount

(* What an action leaves alone of a pool.                                  *)
LEMMA PoolIsKept ==
  ASSUME AccountInv, NEW p \in Pools
  PROVE  /\ emis = [emis EXCEPT ![p] = emis[p]] /\ user = [user EXCEPT ![p] = user[p]]
         /\ shares = [shares EXCEPT ![p] = shares[p]] /\ q4w = [q4w EXCEPT ![p] = q4w[p]]
         /\ held = [held EXCEPT ![p] = held[p]] /\ due = [due EXCEPT ![p] = due[p]]
         /\ unheld = [unheld EXCEPT ![p] = unheld[p]] /\ unheld[p] \in Int
         /\ \A u \in Depositors[p] : q4w[p] = [q4w[p] EXCEPT ![u] = q4w[p][u]]
<1>1. /\ TypesHold /\ q4w = [o \in Pools |-> q4w[o]] /\ held = [o \in Pools |-> held[o]]
      /\ due = [o \in Pools |-> due[o]] /\ unheld \in [Pools -> Int]
      /\ q4w[p] \in [Depositors[p] -> Nat]
  BY DEF AccountInv, MintedInv
<1>2. /\ user = [o \in Pools |-> user[o]] /\ shares = [o \in Pools |-> shares[o]]
      /\ emis \in [Pools -> EmissionDatas]
  BY <1>1 DEF TypesHold
<1>3. user = [user EXCEPT ![p] = user[p]] /\ shares = [shares EXCEPT ![p] = shares[p]]
  BY <1>2
<1>4. /\ q4w = [q4w EXCEPT ![p] = q4w[p]] /\ held = [held EXCEPT ![p] = held[p]]
      /\ due = [due EXCEPT ![p] = due[p]]
  BY <1>1
<1> QED BY <1>1, <1>2, <1>3, <1>4

LEMMA LedgerAccounted ==
  ASSUME AccountInv, NEW p \in Pools, NEW u \in Depositors[p],
         Deposit(p, u) \/ QueueWithdrawal(p, u) \/ DequeueWithdrawal(p, u)
  PROVE  AccountInv'
<1> DEFINE x == due[p][u] + held[p][u] \div Unit
           s == Settled(user[p][u], Updated(p), shares[p][u], SCALAR_7)
           n == shares[p][u]
           m == q4w[p][u]
<1>1. MintedInv'
  BY LedgerMinted DEF AccountInv
<1>2. /\ DOMAIN user = Pools /\ DOMAIN shares = Pools /\ DOMAIN q4w = Pools /\ DOMAIN due = Pools
      /\ n \in Nat /\ m \in Nat /\ (SharesComeOutEven(p) => n + m <= MaxShares)
      /\ q4w[p] \in [Depositors[p] -> Nat]
  <2>1. TypesHold /\ InStep(p, emis[p], user[p], shares[p])
    BY DEF AccountInv, MintedInv
  <2>2. DOMAIN user = Pools /\ DOMAIN shares = Pools
    BY Zenon, <2>1 DEF TypesHold
  <2>3. DOMAIN q4w = Pools /\ DOMAIN due = Pools
    BY Zenon DEF AccountInv
  <2>4. shares[p] \in [Depositors[p] -> Nat]
    BY <2>1 DEF InStep
  <2> QED BY <2>2, <2>3, <2>4 DEF AccountInv, WithinBound
<1>3. /\ s \in UserDatas /\ s.index = Updated(p).index
      /\ x \in Int /\ Meets(s.accrued, x, SharesComeOutEven(p))
  <2>1. s \in UserDatas /\ s.index = Updated(p).index
    BY UpdatedIsCurrent, SettledIsLess
  <2>2. x \in Int /\ Meets(s.accrued, x, SharesComeOutEven(p))
    BY SettledIsEarned DEF ClaimOf
  <2> QED BY <2>1, <2>2
<1>4. Update(p, u) /\ Inherited(p, u) /\ now' = now
  BY DEF Deposit, QueueWithdrawal, DequeueWithdrawal
<1>5. /\ emis' = [emis EXCEPT ![p] = Updated(p)]
      /\ user' = [user EXCEPT ![p] = [user[p] EXCEPT ![u] = s]]
      /\ due' = [due EXCEPT ![p] = [due[p] EXCEPT ![u] = x]]
  BY <1>2, <1>4 DEF Update, Unit
<1> HIDE DEF s, x
<1>7. CASE Deposit(p, u)
  <2>1. /\ shares' = [shares EXCEPT ![p] = [shares[p] EXCEPT ![u] = n + 1]]
        /\ q4w' = q4w /\ n + m < MaxShares
    BY <1>2, <1>7 DEF Deposit
  <2>2. q4w' = [q4w EXCEPT ![p] = [q4w[p] EXCEPT ![u] = m]]
    <3>1. q4w = [q4w EXCEPT ![p] = q4w[p]] /\ q4w[p] = [q4w[p] EXCEPT ![u] = m]
      BY PoolIsKept
    <3> QED BY Zenon, <2>1, <3>1
  <2> HIDE DEF n, m
  <2>3. n + 1 \in Nat /\ (SharesComeOutEven(p) => (n + 1) + m <= MaxShares)
    BY <1>2, <2>1, BackstopEmissionsAssumption
  <2> QED BY <1>1, <1>2, <1>3, <1>4, <1>5, <2>1, <2>2, <2>3, SettlementAccounted
<1>8. CASE QueueWithdrawal(p, u)
  <2>1. /\ shares' = [shares EXCEPT ![p] = [shares[p] EXCEPT ![u] = n - 1]]
        /\ q4w' = [q4w EXCEPT ![p] = [q4w[p] EXCEPT ![u] = m + 1]] /\ n > 0
    BY <1>2, <1>8 DEF QueueWithdrawal
  <2> HIDE DEF n, m
  <2>2. /\ n - 1 \in Nat /\ m + 1 \in Nat
        /\ SharesComeOutEven(p) => (n - 1) + (m + 1) <= MaxShares
    BY <1>2, <2>1, BackstopEmissionsAssumption
  <2> QED BY <1>1, <1>3, <1>4, <1>5, <2>1, <2>2, SettlementAccounted
<1>9. CASE DequeueWithdrawal(p, u)
  <2>1. /\ shares' = [shares EXCEPT ![p] = [shares[p] EXCEPT ![u] = n + 1]]
        /\ q4w' = [q4w EXCEPT ![p] = [q4w[p] EXCEPT ![u] = m - 1]] /\ m > 0
    BY <1>2, <1>9 DEF DequeueWithdrawal
  <2> HIDE DEF n, m
  <2>2. /\ n + 1 \in Nat /\ m - 1 \in Nat
        /\ SharesComeOutEven(p) => (n + 1) + (m - 1) <= MaxShares
    BY <1>2, <2>1, BackstopEmissionsAssumption
  <2> QED BY <1>1, <1>3, <1>4, <1>5, <2>1, <2>2, SettlementAccounted
<1> QED BY <1>7, <1>8, <1>9

LEMMA ClaimAccounted ==
  ASSUME AccountInv, NEW p \in Pools, NEW u \in Depositors[p],
         NEW out \in Nat, Claim(p, u, out)
  PROVE  AccountInv'
<1> DEFINE x == 0
           s == [index |-> Updated(p).index, accrued |-> 0]
           n == shares[p][u]
           m == q4w[p][u]
<1>1. MintedInv'
  BY ClaimMinted DEF AccountInv
<1>2. /\ DOMAIN user = Pools /\ DOMAIN shares = Pools /\ DOMAIN q4w = Pools /\ DOMAIN due = Pools
      /\ n \in Nat /\ m \in Nat /\ q4w[p] \in [Depositors[p] -> Nat]
  <2>1. TypesHold /\ InStep(p, emis[p], user[p], shares[p])
    BY DEF AccountInv, MintedInv
  <2>2. DOMAIN user = Pools /\ DOMAIN shares = Pools
    BY Zenon, <2>1 DEF TypesHold
  <2>3. DOMAIN q4w = Pools /\ DOMAIN due = Pools
    BY Zenon DEF AccountInv
  <2>4. shares[p] \in [Depositors[p] -> Nat]
    BY <2>1 DEF InStep
  <2> QED BY <2>2, <2>3, <2>4 DEF AccountInv
<1>3. s \in UserDatas /\ s.index = Updated(p).index /\ s.accrued = 0
  <2>1. Updated(p).index \in Nat
    BY UpdatedIsCurrent DEF InStep, EmissionDatas
  <2> QED BY <2>1 DEF UserDatas
<1>4. /\ emis' = [emis EXCEPT ![p] = Updated(p)]
      /\ user' = [user EXCEPT ![p] = [user[p] EXCEPT ![u] = s]]
      /\ due' = [due EXCEPT ![p] = [due[p] EXCEPT ![u] = 0]]
      /\ shares' = [shares EXCEPT ![p] = [shares[p] EXCEPT ![u] = n + out]]
      /\ Inherited(p, u) /\ now' = now /\ q4w' = q4w /\ n + m + out <= MaxShares
  BY <1>2 DEF Claim
<1> HIDE DEF s
<1>5. /\ due' = [due EXCEPT ![p] = [due[p] EXCEPT ![u] = x]]
      /\ x \in Int /\ Meets(s.accrued, x, SharesComeOutEven(p))
  BY <1>3, <1>4, MeetsItself
<1>6. q4w' = [q4w EXCEPT ![p] = [q4w[p] EXCEPT ![u] = m]]
  <2>1. q4w = [q4w EXCEPT ![p] = q4w[p]] /\ q4w[p] = [q4w[p] EXCEPT ![u] = m]
    BY PoolIsKept
  <2> QED BY Zenon, <1>4, <2>1
<1> HIDE DEF n, m, x
<1>7. n + out \in Nat /\ (n + out) + m <= MaxShares
  BY <1>2, <1>4, BackstopEmissionsAssumption
<1> QED BY <1>1, <1>2, <1>3, <1>4, <1>5, <1>6, <1>7, SettlementAccounted

(* A withdrawal settles nothing: it takes queued shares only.              *)
LEMMA WithdrawAccounted ==
  ASSUME AccountInv, NEW p \in Pools, NEW u \in Depositors[p], Withdraw(p, u)
  PROVE  AccountInv'
<1> DEFINE m == q4w[p][u]
           qs == [q4w[p] EXCEPT ![u] = m - 1]
<1>1. MintedInv'
  <2>1. u \in Users
    BY DEF Users
  <2> QED BY <2>1, RestMinted DEF AccountInv
<1>2. /\ DOMAIN emis = Pools /\ DOMAIN user = Pools /\ DOMAIN shares = Pools
      /\ DOMAIN q4w = Pools /\ DOMAIN held = Pools /\ DOMAIN due = Pools
      /\ unheld \in [Pools -> Int]
      /\ q4w[p] \in [Depositors[p] -> Nat] /\ shares[p] \in [Depositors[p] -> Nat]
      /\ WithinBound(p, shares[p], q4w[p])
      /\ InAccount(Depositors[p], emis[p], now, user[p], shares[p], held[p], due[p], unheld[p],
                   SCALAR_7, SharesComeOutEven(p))
  <2>1. TypesHold /\ InStep(p, emis[p], user[p], shares[p])
    BY DEF AccountInv, MintedInv
  <2>2. DOMAIN user = Pools /\ DOMAIN shares = Pools
    BY Zenon, <2>1 DEF TypesHold
  <2>3. DOMAIN q4w = Pools /\ DOMAIN held = Pools /\ DOMAIN due = Pools
    BY Zenon DEF AccountInv
  <2>4. shares[p] \in [Depositors[p] -> Nat] /\ DOMAIN emis = Pools
    BY <2>1 DEF InStep, TypesHold
  <2> QED BY <2>2, <2>3, <2>4 DEF AccountInv
<1>3. /\ m > 0 /\ q4w' = [q4w EXCEPT ![p] = qs]
      /\ UNCHANGED <<now, shares, emis, user, held, due, unheld>>
  BY <1>2 DEF Withdraw, histories
<1>4. qs \in [Depositors[p] -> Nat] /\ WithinBound(p, shares[p], qs)
  <2>1. m \in Nat /\ m - 1 \in Nat
    BY <1>2, <1>3
  <2>2. ASSUME SharesComeOutEven(p), NEW g \in Depositors[p]
        PROVE  shares[p][g] + qs[g] <= MaxShares
    <3> DEFINE a == shares[p][g]
               x == q4w[p][g]
    <3>1. a \in Nat /\ x \in Nat /\ a + x <= MaxShares /\ MaxShares \in Nat
      BY <1>2, <2>2, BackstopEmissionsAssumption DEF WithinBound
    <3>2. qs[g] = x \/ qs[g] = x - 1
      BY <1>2
    <3> HIDE DEF a, x, qs
    <3>3. a + qs[g] <= MaxShares
      BY <3>1, <3>2
    <3> QED BY <3>3 DEF a
  <2> HIDE DEF m
  <2>3. qs \in [Depositors[p] -> Nat]
    BY <1>2, <2>1
  <2> HIDE DEF qs
  <2> QED BY <2>2, <2>3 DEF WithinBound
<1> HIDE DEF qs
<1>5. /\ emis' = [emis EXCEPT ![p] = emis[p]] /\ user' = [user EXCEPT ![p] = user[p]]
      /\ shares' = [shares EXCEPT ![p] = shares[p]] /\ held' = [held EXCEPT ![p] = held[p]]
      /\ due' = [due EXCEPT ![p] = due[p]] /\ unheld' = [unheld EXCEPT ![p] = unheld[p]]
      /\ now' = now /\ unheld[p] \in Int
  BY <1>3, PoolIsKept
<1>6. InAccount(Depositors[p], emis[p], now, user[p], shares[p], held[p], due[p], unheld[p],
                SCALAR_7, SharesComeOutEven(p))
  BY <1>2
<1>7. q4w' = [q4w EXCEPT ![p] = qs]
  BY <1>3
<1> QED
  BY ONLY AccountInv, p \in Pools, <1>1, <1>4, <1>5, <1>6, <1>7, OneAccount

(* A gulp settles no one: it brings the index up to date first.            *)
LEMMA GulpEmissionsAccounted ==
  ASSUME AccountInv, NEW p \in Pools, GulpEmissions(p)
  PROVE  AccountInv'
<1> DEFINE e == Updated(p)
           n == MulFloor(rz_emis[p].accrued, 7, 10)
           d == Renewed(e, n, now)
           i == IndexAt(emis[p], now, Total(shares[p]), SCALAR_7)
<1>1. MintedInv'
  BY GulpEmissionsMinted DEF AccountInv
<1>2. /\ DOMAIN emis = Pools /\ DOMAIN user = Pools /\ DOMAIN shares = Pools
      /\ DOMAIN q4w = Pools /\ DOMAIN held = Pools /\ DOMAIN due = Pools
      /\ q4w[p] \in [Depositors[p] -> Nat] /\ shares[p] \in [Depositors[p] -> Nat]
      /\ WithinBound(p, shares[p], q4w[p])
      /\ InAccount(Depositors[p], emis[p], now, user[p], shares[p], held[p], due[p], unheld[p],
                   SCALAR_7, SharesComeOutEven(p))
  <2>1. TypesHold /\ InStep(p, emis[p], user[p], shares[p])
    BY DEF AccountInv, MintedInv
  <2>2. DOMAIN user = Pools /\ DOMAIN shares = Pools
    BY Zenon, <2>1 DEF TypesHold
  <2>3. DOMAIN q4w = Pools /\ DOMAIN held = Pools /\ DOMAIN due = Pools
    BY Zenon DEF AccountInv
  <2>4. shares[p] \in [Depositors[p] -> Nat] /\ DOMAIN emis = Pools
    BY <2>1 DEF InStep, TypesHold
  <2> QED BY <2>2, <2>3, <2>4 DEF AccountInv
<1>3. /\ emis' = [emis EXCEPT ![p] = d] /\ unheld' = [unheld EXCEPT ![p] = 0]
      /\ UNCHANGED <<now, shares, q4w, user, held, due>>
  BY DEF GulpEmissions, ledgerVars
<1>4. e \in EmissionDatas /\ e.index = i
  BY UpdatedIsCurrent DEF InStep
<1>5. emis'[p] = d
  BY <1>2, <1>3
<1>6. d \in EmissionDatas /\ now \in Nat /\ SCALAR_7 \in Nat /\ Total(shares[p]) \in Nat
  <2>1. TypesHold' /\ now \in Nat
    BY <1>1 DEF AccountInv, MintedInv, TypesHold
  <2>2. d \in EmissionDatas
    BY <1>5, <2>1 DEF TypesHold
  <2>3. Total(shares[p]) \in Nat
    BY <1>2, TotalIsCount, DepositorsFinite
  <2> QED BY <2>1, <2>2, <2>3, UnitIsNat
<1>7. d.index = e.index /\ d.last_time = now
  BY <1>4 DEF Renewed, EmissionDatas
<1> HIDE DEF d, e, i
<1>8. PendingAt(d, now) = 0
  <2>1. d.eps \in Nat /\ d.expiration \in Nat
    BY <1>6 DEF EmissionDatas
  <2>2. CASE ~(now < d.expiration)
    BY <1>7, <2>2 DEF PendingAt
  <2>3. CASE now < d.expiration
    <3>1. MinOf(now, d.expiration) - d.last_time = 0
      BY <1>6, <1>7, <2>1, <2>3 DEF MinOf
    <3>2. PendingAt(d, now) = 0 * d.eps
      BY <1>7, <2>3, <3>1 DEF PendingAt
    <3> QED BY <2>1, <3>2
  <2> QED BY <2>2, <2>3
<1>9. d.index = i /\ d.index \in Int
  BY <1>4, <1>6, <1>7 DEF EmissionDatas
<1>10. InAccount(Depositors[p], d, now, user[p], shares[p], held[p], due[p], 0,
                 SCALAR_7, SharesComeOutEven(p))
  BY <1>2, <1>6, <1>8, <1>9, UpdateAccount DEF i
<1>11. /\ user' = [user EXCEPT ![p] = user[p]] /\ shares' = [shares EXCEPT ![p] = shares[p]]
       /\ held' = [held EXCEPT ![p] = held[p]] /\ due' = [due EXCEPT ![p] = due[p]]
       /\ q4w' = [q4w EXCEPT ![p] = q4w[p]] /\ now' = now /\ 0 \in Int
  BY <1>3, PoolIsKept
<1>12. emis' = [emis EXCEPT ![p] = d] /\ unheld' = [unheld EXCEPT ![p] = 0]
  BY <1>3
<1>13. /\ q4w[p] \in [Depositors[p] -> Nat]
       /\ WithinBound(p, shares[p], q4w[p])
  BY <1>2
<1> QED
  BY ONLY AccountInv, p \in Pools, <1>1, <1>10, <1>11, <1>12, <1>13, OneAccount

LEMMA TickAccounted ==
  ASSUME AccountInv, Tick
  PROVE  AccountInv'
<1> DEFINE emitted(p) == EmittedAt(emis[p], now, SCALAR_7)
           gs(p) == SharedOut(Depositors[p], shares[p], held[p], emitted(p))
           un(p) == IF Total(shares[p]) = 0 THEN unheld[p] + emitted(p) ELSE unheld[p]
<1>1. /\ due = [p \in Pools |-> due[p]] /\ q4w = [p \in Pools |-> q4w[p]]
      /\ unheld \in [Pools -> Int]
      /\ \A p \in Pools :
           /\ q4w[p] \in [Depositors[p] -> Nat]
           /\ WithinBound(p, shares[p], q4w[p])
           /\ InAccount(Depositors[p], emis[p], now, user[p], shares[p], held[p], due[p],
                        unheld[p], SCALAR_7, SharesComeOutEven(p))
  BY DEF AccountInv
<1>2. MintedInv /\ MintedInv'
  BY TickMinted DEF AccountInv
<1>3. /\ held' = [p \in Pools |-> gs(p)]
      /\ unheld' = [p \in Pools |-> un(p)]
      /\ UNCHANGED <<shares, q4w, emis, user, due>> /\ now' = now + 1
  BY DEF Tick, Unqueued, EmittedAt, SharedOut, ledgerVars
<1>4. ASSUME NEW p \in Pools
      PROVE  /\ InAccount(Depositors[p], emis[p], now + 1, user[p], shares[p], gs(p), due[p],
                          un(p), SCALAR_7, SharesComeOutEven(p))
             /\ un(p) \in Int
  <2> DEFINE y == emitted(p)
  <2>1. /\ now \in Nat /\ emis[p] \in EmissionDatas /\ emis[p].last_time <= now
        /\ shares[p] \in [Depositors[p] -> Nat]
        /\ \A u \in Depositors[p] : user[p][u].index \in Int
    <3>1. now \in Nat /\ InStep(p, emis[p], user[p], shares[p]) /\ emis[p].last_time <= now
      BY <1>2 DEF MintedInv, TypesHold
    <3> QED BY <3>1 DEF InStep, UserDatas
  <2>2. SCALAR_7 \in Nat /\ IsFiniteSet(Depositors[p])
    BY UnitIsNat, DepositorsFinite
  <2>3. SharesComeOutEven(p)
          => (Total(shares[p]) # 0 => SCALAR_7 % Total(shares[p]) = 0)
    BY <1>1, <2>1, SharesAreEven
  <2>4. y \in Int
    <3>1. emis[p].eps \in Nat
      BY <2>1 DEF EmissionDatas
    <3>2. emis[p].eps * SCALAR_7 \in Int
      BY <2>2, <3>1
    <3> QED BY <3>2 DEF EmittedAt
  <2>5. un(p) \in Int
    <3> HIDE DEF y
    <3>1. unheld[p] \in Int /\ un(p) = IF Total(shares[p]) = 0 THEN unheld[p] + y ELSE unheld[p]
      BY <1>1 DEF y
    <3> HIDE DEF un
    <3> QED BY <2>4, <3>1
  <2>6. InAccount(Depositors[p], emis[p], now, user[p], shares[p], held[p], due[p], unheld[p],
                  SCALAR_7, SharesComeOutEven(p))
    BY <1>1
  <2>7. InAccount(Depositors[p], emis[p], now + 1, user[p], shares[p], gs(p), due[p], un(p),
                  SCALAR_7, SharesComeOutEven(p))
    BY <2>1, <2>2, <2>3, <2>6, TickAccount
  <2> QED BY <2>5, <2>7
<1> HIDE DEF gs, un
<1>5. /\ held' = [p \in Pools |-> held'[p]] /\ due' = [p \in Pools |-> due'[p]]
      /\ q4w' = [p \in Pools |-> q4w'[p]] /\ unheld' \in [Pools -> Int]
  <2>1. held' = [p \in Pools |-> held'[p]]
    BY <1>3
  <2>2. unheld' \in [Pools -> Int]
    BY <1>3, <1>4
  <2>3. due' = [p \in Pools |-> due'[p]] /\ q4w' = [p \in Pools |-> q4w'[p]]
    BY Zenon, <1>1, <1>3
  <2> QED BY <2>1, <2>2, <2>3
<1>6. ASSUME NEW p \in Pools
      PROVE  /\ q4w'[p] \in [Depositors[p] -> Nat]
             /\ WithinBound(p, shares'[p], q4w'[p])
             /\ InAccount(Depositors[p], emis'[p], now', user'[p], shares'[p], held'[p],
                          due'[p], unheld'[p], SCALAR_7, SharesComeOutEven(p))
  <2>1. held'[p] = gs(p) /\ unheld'[p] = un(p)
    BY <1>3
  <2> QED BY <1>1, <1>3, <1>4, <2>1
<1> QED BY <1>2, <1>5, <1>6 DEF AccountInv

LEMMA RestAccounted ==
  ASSUME AccountInv, MintedInv',
         UNCHANGED <<now, shares, q4w, emis, user, held, unheld, due>>
  PROVE  AccountInv'
BY DEF AccountInv

(* The reward zone, the distributions and the emitter's calls.             *)
LEMMA DistributionAccounted ==
  ASSUME AccountInv,
         \/ Adopt \/ EmitterDistribute \/ Drop \/ StartDistribution \/ Distribute
         \/ \E p \in Pools : AddToRewardZone(p) \/ RemoveFromRewardZone(p)
         \/ UNCHANGED vars
  PROVE  AccountInv'
<1>1. MintedInv'
  <2>1. MintedInv
    BY DEF AccountInv
  <2> QED
    BY <2>1, EmitterMinted, StartDistributionMinted, DistributeMinted, ZoneMinted, RestMinted
<1>2. UNCHANGED <<now, shares, q4w, emis, user, held, unheld, due>>
  BY DEF Adopt, EmitterDistribute, Drop, StartDistribution, Distribute, AddToRewardZone,
         RemoveFromRewardZone, vars, ledgerVars, histories
<1> QED BY <1>1, <1>2, RestAccounted

LEMMA InitIsAccounted ==
  ASSUME Init
  PROVE  AccountInv
<1>1. MintedInv
  BY InitIsMinted
<1>2. /\ held = [p \in Pools |-> [u \in Depositors[p] |-> 0]]
      /\ due = [p \in Pools |-> [u \in Depositors[p] |-> 0]]
      /\ q4w = [p \in Pools |-> [u \in Depositors[p] |-> 0]]
      /\ unheld = [p \in Pools |-> 0]
      /\ emis = [p \in Pools |-> NoEmissions]
      /\ user = [p \in Pools |-> [u \in Depositors[p] |-> NothingAccrued]]
      /\ shares = [p \in Pools |-> Founding[p]]
  BY DEF Init
<1>3. /\ held = [p \in Pools |-> held[p]] /\ due = [p \in Pools |-> due[p]]
      /\ q4w = [p \in Pools |-> q4w[p]] /\ unheld \in [Pools -> Int]
  BY <1>2
<1>4. ASSUME NEW p \in Pools
      PROVE  /\ q4w[p] \in [Depositors[p] -> Nat]
             /\ WithinBound(p, shares[p], q4w[p])
             /\ InAccount(Depositors[p], emis[p], now, user[p], shares[p], held[p], due[p],
                          unheld[p], SCALAR_7, SharesComeOutEven(p))
  <2> DEFINE s == Total(shares[p])
  <2>1. SharesComeOutEven(p) => shares[p] \in [Depositors[p] -> 0..MaxShares]
    BY <1>2 DEF SharesComeOutEven
  <2>2. shares[p] \in [Depositors[p] -> Nat] /\ s \in Nat /\ SCALAR_7 \in Nat
    <3>1. shares[p] \in [Depositors[p] -> Nat]
      BY <1>2, BackstopEmissionsAssumption
    <3> QED BY <3>1, TotalIsCount, DepositorsFinite, UnitIsNat
  <2>3. emis[p].index = 0 /\ PendingAt(emis[p], now) = 0
    BY <1>2 DEF NoEmissions, PendingAt
  <2> HIDE DEF s
  <2>5. IndexAt(emis[p], now, s, SCALAR_7) = 0
    BY <2>2, <2>3, IndexUpToDate
  <2>6. 0 * SCALAR_7 = 0
    BY <2>2
  <2>7. ASSUME NEW u \in Depositors[p]
        PROVE  /\ Meets(user[p][u].accrued, due[p][u], SharesComeOutEven(p))
               /\ Meets(shares[p][u] * (IndexAt(emis[p], now, s, SCALAR_7) - user[p][u].index),
                         held[p][u], SharesComeOutEven(p))
    <3>1. /\ user[p][u].index = 0 /\ user[p][u].accrued = 0
          /\ held[p][u] = 0 /\ due[p][u] = 0
      BY <1>2 DEF NothingAccrued
    <3>2. shares[p][u] * (0 - 0) = 0
      BY <2>2
    <3>3. shares[p][u] * (IndexAt(emis[p], now, s, SCALAR_7) - user[p][u].index) = 0
      BY <2>5, <3>1, <3>2
    <3>4. Meets(0, 0, SharesComeOutEven(p))
      BY MeetsItself
    <3> QED BY ONLY <3>1, <3>3, <3>4
  <2>8. /\ unheld[p] = 0 /\ held[p] \in [Depositors[p] -> Int]
        /\ due[p] \in [Depositors[p] -> Int]
    BY <1>2
  <2>9. /\ q4w[p] \in [Depositors[p] -> Nat]
        /\ WithinBound(p, shares[p], q4w[p])
    <3>1. \A u \in Depositors[p] : q4w[p][u] = 0
      BY <1>2
    <3> QED BY <1>2, <2>1, <3>1, BackstopEmissionsAssumption DEF WithinBound
  <2> QED BY <2>3, <2>6, <2>7, <2>8, <2>9 DEF InAccount, s
<1> QED BY <1>1, <1>3, <1>4 DEF AccountInv

(* A claim pays no less than what the depositor's unqueued shares earned   *)
(* in the seconds it had them, and just that where they come out even.     *)
THEOREM DepositorsArePaidInFull == Spec => []PaidForWhatWasDeposited
<1>1. Init => AccountInv
  BY InitIsAccounted
<1>2. AccountInv /\ [Next]_vars => AccountInv'
  <2> SUFFICES ASSUME AccountInv, [Next]_vars PROVE AccountInv'
    OBVIOUS
  <2>1. \A p \in Pools : Active[p] \subseteq Depositors[p]
    BY BackstopEmissionsAssumption
  <2>2. LpOuts \subseteq Nat
    BY BackstopEmissionsAssumption
  <2>3. ASSUME NEW p \in Pools, AddToRewardZone(p) \/ RemoveFromRewardZone(p)
        PROVE  AccountInv'
    BY <2>3, DistributionAccounted
  <2>4. ASSUME NEW p \in Pools, GulpEmissions(p) PROVE AccountInv'
    BY <2>4, GulpEmissionsAccounted
  <2>5. ASSUME NEW p \in Pools, NEW u \in Active[p],
               Deposit(p, u) \/ QueueWithdrawal(p, u) \/ DequeueWithdrawal(p, u)
        PROVE  AccountInv'
    BY <2>1, <2>5, LedgerAccounted
  <2>6. ASSUME NEW p \in Pools, NEW u \in Active[p], Withdraw(p, u) PROVE AccountInv'
    BY <2>1, <2>6, WithdrawAccounted
  <2>7. ASSUME NEW p \in Pools, NEW u \in Active[p], NEW out \in LpOuts, Claim(p, u, out)
        PROVE  AccountInv'
    BY <2>1, <2>2, <2>7, ClaimAccounted
  <2>8. CASE Adopt \/ EmitterDistribute \/ Drop \/ StartDistribution \/ Distribute
    BY <2>8, DistributionAccounted
  <2>9. CASE UNCHANGED vars
    BY <2>9, DistributionAccounted
  <2>10. CASE Tick
    BY <2>10, TickAccounted
  <2> QED
    BY Zenon, <2>3, <2>4, <2>5, <2>6, <2>7, <2>8, <2>9, <2>10 DEF Next
<1>3. AccountInv => PaidForWhatWasDeposited
  BY SettledIsEarned DEF PaidForWhatWasDeposited, Meets, Unit
<1> QED BY <1>1, <1>2, <1>3, PTL DEF Spec
=============================================================================
