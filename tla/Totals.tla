------------------------------ MODULE Totals ------------------------------
(***************************************************************************)
(* The sum of the values of a function with a finite domain: what the      *)
(* balances of a ledger add up to, or what a set of positions is worth.    *)
(* The recursion is a function's, not an operator's, so that theorems can  *)
(* be proved about it.                                                     *)
(***************************************************************************)
EXTENDS Integers

Total(f) ==
  LET sum[S \in SUBSET DOMAIN f] ==
        IF S = {} THEN 0
        ELSE LET x == CHOOSE x \in S : TRUE
             IN  f[x] + sum[S \ {x}]
  IN  sum[DOMAIN f]
===========================================================================
