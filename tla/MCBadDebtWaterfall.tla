------------------------ MODULE MCBadDebtWaterfall ------------------------
(***************************************************************************)
(* Names for the assets of an instance of BadDebtWaterfall.                *)
(***************************************************************************)
EXTENDS BadDebtWaterfall

CONSTANTS a1, a2
===========================================================================
