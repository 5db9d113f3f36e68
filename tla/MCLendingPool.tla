--------------------------- MODULE MCLendingPool ---------------------------
(***************************************************************************)
(* Values for the constants of LendingPool that a .cfg cannot write.       *)
(***************************************************************************)
EXTENDS LendingPool, TLC

CONSTANTS u1, u2, r1, r2

Basic == [c_factor |-> 80, l_factor |-> 100, util |-> 50, max_util |-> 90,
          r_base |-> 10, r_one |-> 10, r_two |-> 20, r_three |-> 100,
          reactivity |-> 0, supply_cap |-> 60, enabled |-> TRUE, scalar |-> 1]

\* One asset, supplied and borrowed.
OneReserve == r1 :> [Basic EXCEPT !.supply_cap = 6, !.max_util = 50]
SmallAmounts == r1 :> {1, 4}
FixedPrices == r1 :> {1}

\* r1 serves as collateral and cannot be borrowed; r2 is borrowed against it.
CollateralAndDebt ==
  r1 :> [Basic EXCEPT !.l_factor = 0] @@ r2 :> [Basic EXCEPT !.l_factor = 80]
\* The same with interest so high that debt outgrows what suppliers own.
UsuriousDebt ==
  [CollateralAndDebt EXCEPT ![r2].r_base = 90, ![r2].r_one = 0, ![r2].r_two = 0]
LoanAmounts  == r1 :> {40} @@ r2 :> {30, 40}
\* At 20 the loan is healthy, at 11 it can be liquidated in part, at 4 all
\* of the collateral does not cover it.
SlidingPrice == r1 :> {11, 20} @@ r2 :> {10}
CrashingPrice == r1 :> {4, 20} @@ r2 :> {10}

\* Both assets can be borrowed and the oracle may fail.
TwoWay == r1 :> Basic @@ r2 :> [Basic EXCEPT !.l_factor = 80]
UnreliablePrices == r1 :> {0, 12} @@ r2 :> {10}

HealthyBackstop == [threshold |-> 100, q4w_pct |-> 0]
EmptyBackstop   == [threshold |-> 0, q4w_pct |-> 0]

BothBackstops == {HealthyBackstop, EmptyBackstop}
OnlyHealthy   == {HealthyBackstop}

Symmetry == Permutations(Users)
===========================================================================
