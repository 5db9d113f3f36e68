-------------------------- MODULE MCPoolEmissions --------------------------
(***************************************************************************)
(* Values for the constants of PoolEmissions that a .cfg cannot write.     *)
(***************************************************************************)
EXTENDS PoolEmissions, TLC

(* Emissions for the debt of reserve 0 alone, or for the supply of reserve *)
(* 1 too.                                                                  *)
SomeShares == {[t \in {0} |-> 1], [t \in {0, 3} |-> 1 + t \div 3]}

(* The debts of reserve 0 come and go, no one supplies reserve 1.          *)
Holdings == (0 :> {0, 1}) @@ (3 :> {0})

Symmetry == Permutations(Holders)

(* Both supplies are in the case of PaidForWhatWasHeld that says more.     *)
ASSUME \A t \in Tokens : SharesComeOutEven(t)
=============================================================================
