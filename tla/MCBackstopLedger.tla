------------------------- MODULE MCBackstopLedger -------------------------
(***************************************************************************)
(* Values for the constants of BackstopLedger that a .cfg cannot write.    *)
(***************************************************************************)
EXTENDS BackstopLedger, TLC

CONSTANTS u1, u2, p1, p2, p3

Symmetry == Permutations(Users)
===========================================================================
