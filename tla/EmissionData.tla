---------------------------- MODULE EmissionData ----------------------------
(***************************************************************************)
(* What the pool's and the backstop's emissions have in common: a stream   *)
(* of tokens at eps a second until its expiration, an index that grows by  *)
(* what falls to one share of the supply, and for each holder the index    *)
(* its accrued emissions were last brought up to                           *)
(* (pool/src/emissions and backstop/src/emissions).                        *)
(*                                                                         *)
(* Data that was never stored reads as the zero record: the code treats a  *)
(* missing entry apart, with the same outcome.                             *)
(***************************************************************************)
EXTENDS FixedPoint

CONSTANTS
  SCALAR_7,          \* 10^7: one token; eps has 7 decimals more
  SECONDS_PER_WEEK   \* how long what was gulped is emitted

ASSUME EmissionDataAssumption ==
  SCALAR_7 \in Nat \ {0} /\ SECONDS_PER_WEEK \in Nat \ {0}

NoEmissions == [eps |-> 0, expiration |-> 0, index |-> 0, last_time |-> 0]
NothingAccrued == [index |-> 0, accrued |-> 0]

(* Whether d has something to add to its index at time t.                  *)
Emitting(d, t) == d.last_time < d.expiration /\ d.last_time # t /\ d.eps # 0

(* The tokens, in eps's decimals, that d emitted since its last update.    *)
Emitted(d, t) == (MinOf(t, d.expiration) - d.last_time) * d.eps

(* A holder of balance brought up to the index of d.                       *)
Settled(u, d, balance, scalar) ==
  [index   |-> d.index,
   accrued |-> u.accrued + MulFloor(balance, d.index - u.index, scalar * SCALAR_7)]

(* The tokens d has still to emit at time t.                               *)
Unemitted(d, t) ==
  IF d.expiration > t THEN MulFloor(d.eps, d.expiration - t, SCALAR_7) ELSE 0

\* Mutant: what was emitted before is emitted again.
RenewedStale(d, tokens, t) ==
  [d EXCEPT !.expiration = t + SECONDS_PER_WEEK,
            !.eps = ((tokens + Unemitted(d, t)) * SCALAR_7) \div SECONDS_PER_WEEK]

(* The stream after tokens are added to it, d being up to date but for     *)
(* seconds no one held a share in.                                         *)
Renewed(d, tokens, t) ==
  [d EXCEPT !.last_time = t,
            !.expiration = t + SECONDS_PER_WEEK,
            !.eps = ((tokens + Unemitted(d, t)) * SCALAR_7) \div SECONDS_PER_WEEK]
=============================================================================
