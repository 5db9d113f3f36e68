--------------------------- MODULE PoolEmissions ---------------------------
(***************************************************************************)
(* A pool's emissions (pool/src/emissions): the tokens the backstop lets   *)
(* the pool pay are split among the reserve tokens, the debt and the       *)
(* supply of each reserve, and then among the holders of each, by the      *)
(* seconds and the balances they held.                                     *)
(*                                                                         *)
(* Every change of a position goes through one of User's add and remove    *)
(* methods, which settle the holder's emissions first.  What the change is *)
(* part of, a request, a fill or a default, is LendingPool's matter; here  *)
(* a balance may change at any time, and a gulp find any of the reserves   *)
(* enabled, which PoolConfig's changes decide.                             *)
(*                                                                         *)
(* What the backstop lets the pool pay is an allowance of the token.  It is*)
(* approved anew by every gulp, for a number of ledgers, and is gone when  *)
(* they have closed.                                                       *)
(***************************************************************************)
EXTENDS EmissionData, FiniteSets, Totals

CONSTANTS
  Tokens,            \* the reserve_token_ids: twice the reserve's index, and
                     \* one more for its bTokens
  Holders,           \* the users, the backstop among them for its bad debt
  SCALAR,            \* the scalar of the reserves
  SECONDS_PER_DAY,
  LEDGER_BUMP_USER,  \* the ledgers an allowance is approved for: 120 days
  \* Bounds of the inputs and of the run:
  Balances,          \* the balances a holder of each token may have
  Shares,            \* the metadata the admin may set: shares by token
  Gulps,             \* what the backstop may give at once
  MaxTime            \* the time the run ends

ASSUME PoolEmissionsAssumption ==
  /\ IsFiniteSet(Tokens) /\ Tokens \subseteq Nat
  /\ IsFiniteSet(Holders)
  /\ SCALAR \in Nat \ {0} /\ SECONDS_PER_DAY \in Nat \ {0} /\ MaxTime \in Nat
  /\ LEDGER_BUMP_USER \in Nat
  /\ Balances \in [Tokens -> SUBSET Nat] /\ Gulps \subseteq Nat
  /\ \A s \in Shares : DOMAIN s \subseteq Tokens /\ \A t \in DOMAIN s : s[t] \in Nat

VARIABLES
  now,          \* the ledger's timestamp
  balance,      \* what each holder has of each token
  emis,         \* the ReserveEmissionData of each token
  user,         \* the UserEmissionData of each holder of each token
  shares,       \* the pool's emissions: the share of each token that has one
  allowance,    \* external: what the pool may still transfer from the backstop
  lifetime,     \* external: the ledgers for which it may, after this one
  last_gulp,    \* external: the last_time of the pool's RzEmissions
  held,         \* history: what each balance earned since it was settled, in
                \* units of 1 / (SCALAR * SCALAR_7) of a token, and whole
                \* units for each of its shares
  unheld,       \* history: what was emitted to a token no one held
  due,          \* history: what each holder earned before, less what it was
                \* paid
  lapsed        \* history: what was left of allowances when they expired

approval == <<allowance, lifetime, lapsed>>
vars     == <<now, balance, emis, user, shares, approval, last_gulp,
              held, unheld, due>>

---------------------------------------------------------------------------
Unit == SCALAR * SCALAR_7

ReserveOf(t) == t \div 2
ReserveIndices == {ReserveOf(t) : t \in Tokens}

(* The d_supply or the b_supply of a reserve.                              *)
Supply(t) == Total(balance[t])

(* update_emission_data.                                                   *)
Updated(t) ==
  IF Emitting(emis[t], now) /\ Supply(t) # 0
  THEN [emis[t] EXCEPT !.index = @ + DivFloor(Emitted(emis[t], now), Supply(t), SCALAR),
                       !.last_time = MinOf(now, emis[t].expiration)]
  ELSE emis[t]

(* What a claim of h's emissions of t would pay.                           *)
ClaimOf(t, h) == Settled(user[t][h], Updated(t), balance[t][h], SCALAR).accrued

Init ==
  /\ now = SECONDS_PER_DAY
  /\ balance \in [Tokens -> [Holders -> UNION {Balances[t] : t \in Tokens}]]
  /\ \A t \in Tokens, h \in Holders : balance[t][h] \in Balances[t]
  /\ emis = [t \in Tokens |-> NoEmissions]
  /\ user = [t \in Tokens |-> [h \in Holders |-> NothingAccrued]]
  /\ shares \in {s \in Shares : \A t \in DOMAIN s : s[t] # 0}
  /\ allowance = 0 /\ lifetime = 0 /\ lapsed = 0
  /\ last_gulp = 0
  /\ held = [t \in Tokens |-> [h \in Holders |-> 0]]
  /\ unheld = [t \in Tokens |-> 0]
  /\ due = [t \in Tokens |-> [h \in Holders |-> 0]]

---------------------------------------------------------------------------
\* Mutant: the balance is changed before its emissions are settled.
SettledBalanceAfter(t, h, b) == b

(* The balance update_emissions is given: the one before the change.       *)
SettledBalance(t, h, b) == balance[t][h]

(* The add and remove methods of User: h's balance of t becomes b.         *)
ChangeBalance(t, h, b) ==
  /\ b # balance[t][h]
  /\ emis' = [emis EXCEPT ![t] = Updated(t)]
  /\ user' = [user EXCEPT ![t][h] = Settled(@, Updated(t), SettledBalance(t, h, b), SCALAR)]
  /\ balance' = [balance EXCEPT ![t][h] = b]
  /\ due' = [due EXCEPT ![t][h] = @ + held[t][h] \div Unit]
  /\ held' = [held EXCEPT ![t][h] = IF Supply(t) = 0 THEN b * (unheld[t] \div b) ELSE 0]
  /\ unheld' = [unheld EXCEPT ![t] = IF Supply(t) = 0 THEN 0 ELSE @]
  /\ UNCHANGED <<now, shares, approval, last_gulp>>

(* execute_claim: h claims its emissions of the tokens T, a transfer_from  *)
(* the backstop.                                                           *)
Claim(h, T) ==
  LET paid == Total([t \in T |-> ClaimOf(t, h)]) IN
  /\ paid <= allowance
  /\ emis' = [t \in Tokens |-> IF t \in T THEN Updated(t) ELSE emis[t]]
  /\ user' = [t \in Tokens |->
                IF t \in T
                THEN [user[t] EXCEPT ![h] = [index |-> Updated(t).index, accrued |-> 0]]
                ELSE user[t]]
  /\ allowance' = allowance - paid
  /\ due' = [t \in Tokens |-> IF t \in T THEN [due[t] EXCEPT ![h] = 0] ELSE due[t]]
  /\ held' = [t \in Tokens |-> IF t \in T THEN [held[t] EXCEPT ![h] = 0] ELSE held[t]]
  /\ UNCHANGED <<now, balance, shares, lifetime, lapsed, last_gulp, unheld>>

(* set_pool_emissions: the admin sets the shares of the tokens.            *)
SetPoolEmissions(s) ==
  /\ \A t \in DOMAIN s : s[t] # 0
  /\ shares' = s
  /\ UNCHANGED <<now, balance, emis, user, approval, last_gulp, held, unheld, due>>

(* The tokens that are given emissions when the reserves enabled are, and  *)
(* what each is given of n.                                                *)
Enabled(enabled) == {t \in DOMAIN shares : ReserveOf(t) \in enabled}
PartOf(t, enabled, n) ==
  MulFloor(DivFloor(shares[t], Total([e \in Enabled(enabled) |-> shares[e]]), SCALAR_7),
           n, SCALAR_7)

(* The backstop's approval in gulp_emissions: n more than what the pool has*)
(* of its allowance, which is nothing once it has expired.                 *)
Approve(n) ==
  /\ allowance' = allowance + n
  /\ lifetime' = LEDGER_BUMP_USER
  /\ UNCHANGED lapsed

(* gulp_emissions.                                                         *)
GulpEmissions(n, enabled) ==
  /\ last_gulp <= now - SECONDS_PER_DAY
  /\ n >= SCALAR_7
  /\ last_gulp' = now
  /\ Approve(n)
  /\ emis' = [t \in Tokens |->
                IF t \in Enabled(enabled)
                THEN Renewed(Updated(t), PartOf(t, enabled, n), now)
                ELSE emis[t]]
  /\ unheld' = [t \in Tokens |-> IF t \in Enabled(enabled) THEN 0 ELSE unheld[t]]
  /\ UNCHANGED <<now, balance, user, shares, held, due>>

(* The token's allowance as a ledger closes: one that has outlived its     *)
(* ledgers allows nothing.                                                 *)
LedgerCloses ==
  IF lifetime > 0
  THEN lifetime' = lifetime - 1 /\ UNCHANGED <<allowance, lapsed>>
  ELSE allowance' = 0 /\ lapsed' = lapsed + allowance /\ UNCHANGED lifetime

(* A second passes, and what is emitted in it falls to the balances.  A    *)
(* ledger takes some seconds, and closes in the last of them.              *)
Tick ==
  /\ now < MaxTime
  /\ now' = now + 1
  /\ LET emitted(t) == IF now < emis[t].expiration THEN emis[t].eps * SCALAR ELSE 0 IN
     /\ held' = [t \in Tokens |-> [h \in Holders |->
          IF Supply(t) = 0 THEN held[t][h]
          ELSE held[t][h] + balance[t][h] * (emitted(t) \div Supply(t))]]
     /\ unheld' = [t \in Tokens |->
          IF Supply(t) = 0 THEN unheld[t] + emitted(t) ELSE unheld[t]]
  /\ LedgerCloses \/ UNCHANGED approval
  /\ UNCHANGED <<balance, emis, user, shares, last_gulp, due>>

Next ==
  \/ Tick
  \/ \E t \in Tokens, h \in Holders : \E b \in Balances[t] : ChangeBalance(t, h, b)
  \/ \E h \in Holders, T \in (SUBSET Tokens) \ {{}} : Claim(h, T)
  \/ \E s \in Shares : SetPoolEmissions(s)
  \/ \E n \in Gulps, enabled \in SUBSET ReserveIndices : GulpEmissions(n, enabled)

Spec == Init /\ [][Next]_vars

---------------------------------------------------------------------------
(* The supplies of t divide the scalar: what falls to a share of it is a   *)
(* whole number.                                                           *)
SharesComeOutEven(t) ==
  \A f \in [Holders -> Balances[t]] : Total(f) # 0 => SCALAR % Total(f) = 0

(* A claim pays what the holder's balances earned in the seconds it held   *)
(* them, whatever was done when: no change of a balance, claim or gulp, in *)
(* whatever order, moves what was earned before it to another holder or to *)
(* another balance (distributor.rs, update_emissions: "must be called      *)
(* before any update is made to the supply").  It is never short of what   *)
(* was earned, each second's part of a share rounded down; and where the   *)
(* shares come out even it is that to the unit.                            *)
PaidForWhatWasHeld ==
  \A t \in Tokens, h \in Holders :
    LET earned == due[t][h] + held[t][h] \div Unit IN
    /\ ClaimOf(t, h) >= earned
    /\ SharesComeOutEven(t) => ClaimOf(t, h) = earned

(* What could be claimed now, and what the streams have still to pay.      *)
Owed(t) ==
  LET d == Updated(t) IN
  Total([h \in Holders |-> Settled(user[t][h], d, balance[t][h], SCALAR).accrued])
    + IF d.last_time < d.expiration
      THEN MulFloor(d.eps, d.expiration - d.last_time, SCALAR_7) ELSE 0

(* The pool's allowance at the backstop is enough for everything its       *)
(* holders have earned and everything its streams have still to emit, less *)
(* what allowances were left with when they expired, which no gulp renews. *)
(* So claims lack nothing but that, and nothing at all as long as a gulp   *)
(* always came in time: what is left of the old stream is not emitted      *)
(* twice, and what is left of the old allowance is approved again          *)
(* (manager.rs of both contracts, gulp_emissions).                         *)
EmissionsAreFunded == Total([t \in Tokens |-> Owed(t)]) <= allowance + lapsed
=============================================================================
