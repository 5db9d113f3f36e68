--------------------------- MODULE MCPoolConfig ---------------------------
(***************************************************************************)
(* Values for the constants of PoolConfig that a .cfg cannot write.        *)
(***************************************************************************)
EXTENDS PoolConfig

CONSTANTS r1

Cheap == [c_factor |-> 100, l_factor |-> 100, util |-> 50, max_util |-> 90,
          r_base |-> 40, r_one |-> 10, r_two |-> 20, r_three |-> 100,
          reactivity |-> 0, supply_cap |-> 60, enabled |-> TRUE, scalar |-> 1]
Dear  == [Cheap EXCEPT !.r_base = 80]
NoDebt == [Cheap EXCEPT !.l_factor = 0]

Configs == {Cheap, Dear, NoDebt, [Cheap EXCEPT !.max_util = 50]}

SomeSettings ==
  [bstop_rate : {20, 50}, max_positions : {2}, min_collateral : {0}]
    \cup {[bstop_rate |-> 100, max_positions |-> 2, min_collateral |-> 0]}

Levels == [threshold : {0, 100}, q4w_pct : {0, 75}]
===========================================================================
