---------------------------- MODULE PoolStatus ----------------------------
(***************************************************************************)
(* The status of a pool (pool/src/pool/status.rs): what its backstop's     *)
(* health and its admin make of it, and which requests it allows.          *)
(***************************************************************************)
EXTENDS Reserve

AdminActive == 0
Active      == 1
AdminOnIce  == 2
OnIce       == 3
AdminFrozen == 4
Frozen      == 5
Setup       == 6

Statuses == 0..6

(* What the pool reads of its backstop, Threshold being the result of      *)
(* calc_pool_backstop_threshold and q4w_pct the share of the backstop's    *)
(* shares that is queued for withdrawal, both of scalar SCALAR_7.          *)
BackstopDatas == [threshold : Nat, q4w_pct : Nat]

MetThreshold(b) == b.threshold >= SCALAR_7

---------------------------------------------------------------------------
(* execute_update_pool_status: anyone may call it; it panics in Setup and  *)
(* while the admin keeps the pool frozen.                                  *)
MayUpdateStatus(status) == status \notin {Setup, AdminFrozen}

UpdatedStatus(status, b) ==
  CASE status = AdminOnIce ->
         IF b.q4w_pct >= Percent(75) THEN Frozen ELSE AdminOnIce
    [] status = AdminActive ->
         IF ~MetThreshold(b) \/ b.q4w_pct >= Percent(50) THEN OnIce ELSE AdminActive
    [] OTHER ->
         IF b.q4w_pct >= Percent(60) THEN Frozen
         ELSE IF b.q4w_pct >= Percent(30) \/ ~MetThreshold(b) THEN OnIce
         ELSE Active

(* execute_set_pool_status: the statuses the admin may set.                *)
MaySetStatus(new, b) ==
  \/ new = AdminActive /\ MetThreshold(b) /\ b.q4w_pct < Percent(50)
  \/ new \in {AdminOnIce, OnIce} /\ b.q4w_pct < Percent(75)
  \/ new = AdminFrozen

---------------------------------------------------------------------------
(* Pool::require_action_allowed.                                           *)
BorrowAllowed(status) == status <= Active
SupplyAllowed(status) == status <= OnIce
===========================================================================
