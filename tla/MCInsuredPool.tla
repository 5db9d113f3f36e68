--------------------------- MODULE MCInsuredPool ---------------------------
(***************************************************************************)
(* Values for the constants of InsuredPool that a .cfg cannot write.       *)
(***************************************************************************)
EXTENDS InsuredPool

CONSTANTS lender, debtor, r1, r2

Asset == [c_factor |-> 100, l_factor |-> 100, util |-> 50, max_util |-> 90,
          r_base |-> 60, r_one |-> 10, r_two |-> 20, r_three |-> 100,
          reactivity |-> 0, supply_cap |-> 60, enabled |-> TRUE, scalar |-> 1]

Configs   == [r \in Reserves |-> Asset]
OnePrice  == [r \in Reserves |-> {100}]
NoAmounts == [r \in Reserves |-> {}]

\* Debt of the backstop and of a debtor who has less collateral than debt.
Collateral == [u \in Users |-> [r \in Reserves |-> IF u = lender THEN 10 ELSE 2]]
DebtsWith(debtors) ==
  [h \in Users \cup {Backstop} |->
     [r \in Reserves |-> IF h = lender THEN 0 ELSE IF h = debtor THEN debtors ELSE 3]]
Debts       == DebtsWith(4)
FewerDebts  == DebtsWith(3)

Credits == [r \in Reserves |-> 2]

\* 1 token is dust, from 2 on the threshold is met.
Thresholds == [t \in 0..LpSupply |-> IF t = 0 THEN 0 ELSE IF t = 1 THEN 2 ELSE 100]
===========================================================================
