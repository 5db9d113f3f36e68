------------------------- MODULE BackstopEmissions -------------------------
(***************************************************************************)
(* The backstop's emissions (backstop/src/emissions): the tokens that the  *)
(* emitter mints for the backstop are distributed to the pools of the      *)
(* reward zone; each pool's part is gulped, 30% for the pool to pay out    *)
(* and 70% for its depositors, among whom it is emitted over a week.       *)
(*                                                                         *)
(* A backstop may run before the emitter adopts it.  It then backfills: it *)
(* distributes what was not minted, up to a maximum, and the drop mints it *)
(* afterwards.                                                             *)
(*                                                                         *)
(* BackstopLedger has the deposits: here a share is worth a token, and the *)
(* wait of a queued share is not told.                                     *)
(***************************************************************************)
EXTENDS EmissionData, FiniteSets, Totals

CONSTANTS
  Pools,
  Depositors,        \* those who deposit for each pool
  MAX_RZ_SIZE,       \* 30: the pools of the reward zone
  MIN_DISTRIBUTION,  \* 5: the least seconds a distribution is for
  SECONDS_PER_HOUR,
  SECONDS_PER_DAY,
  MAX_BACKFILLED_EMISSIONS,
  Threshold,         \* the tokens a pool of the reward zone must have
  MIN_GULP,          \* SCALAR_7: what a pool refuses to gulp less of
  \* Bounds of the inputs and of the run:
  Founding,          \* the shares each depositor has at first
  Active,            \* the depositors of each pool that do something
  MaxShares,         \* the shares of one depositor
  LpOuts,            \* the tokens a claim is exchanged for
  MaxTime            \* the time the run ends

Users == UNION {Depositors[p] : p \in Pools}

ASSUME BackstopEmissionsAssumption ==
  /\ IsFiniteSet(Pools) /\ IsFiniteSet(Users)
  /\ MAX_RZ_SIZE \in Nat \ {0}
  /\ {MIN_DISTRIBUTION, SECONDS_PER_HOUR, SECONDS_PER_DAY, Threshold, MIN_GULP}
       \subseteq Nat \ {0}
  /\ {MAX_BACKFILLED_EMISSIONS, MaxShares, MaxTime} \subseteq Nat
  /\ LpOuts \subseteq Nat
  /\ \A p \in Pools : Founding[p] \in [Depositors[p] -> Nat] /\ Active[p] \subseteq Depositors[p]

VARIABLES
  now,                  \* the ledger's timestamp
  distro,               \* external: the emitter's last distribution to the
                        \* backstop, 0 before it adopts it
  dropped,              \* external: whether the emitter's drop took place
  blnd,                 \* external: the emitted tokens the backstop holds
  allowance,            \* external: what the pools may take of them; that it
                        \* expires, as PoolEmissions tells, only leaves them
                        \* with the backstop
  backfill_status,      \* "none", "backfilling" or "emitting"
  backfill_emissions,
  last_distribution,    \* 0 if there was none
  zone,                 \* the pools of the reward zone
  rz_emis,              \* the RzEmissions of each pool
  shares,               \* the shares of each depositor of each pool
  q4w,                  \* the shares it queued for withdrawal
  emis,                 \* the BackstopEmissionData of each pool
  user,                 \* the UserEmissionData of each depositor of each pool
  held, unheld, due     \* histories, as in PoolEmissions

emitterVars == <<distro, dropped>>
zoneVars    == <<backfill_status, backfill_emissions, last_distribution, zone>>
ledgerVars  == <<shares, q4w>>
histories   == <<held, unheld, due>>
vars == <<now, emitterVars, blnd, allowance, zoneVars, rz_emis, ledgerVars,
          emis, user, histories>>

---------------------------------------------------------------------------
NoRewards == [accrued |-> 0, last_time |-> 0]

PoolQ4W(p)   == Total(q4w[p])
Unqueued(p)  == Total(shares[p])
PoolTokens(p) == Unqueued(p) + PoolQ4W(p)

AboveThreshold(p) == PoolTokens(p) >= Threshold

Init ==
  /\ now = SECONDS_PER_DAY
  /\ distro \in {0, now}
  /\ dropped = FALSE
  /\ blnd = 0
  /\ allowance = 0
  /\ backfill_status = "none"
  /\ backfill_emissions = 0
  /\ last_distribution = 0
  /\ zone = {}
  /\ rz_emis = [p \in Pools |-> NoRewards]
  /\ shares = [p \in Pools |-> Founding[p]]
  /\ q4w = [p \in Pools |-> [u \in Depositors[p] |-> 0]]
  /\ emis = [p \in Pools |-> NoEmissions]
  /\ user = [p \in Pools |-> [u \in Depositors[p] |-> NothingAccrued]]
  /\ held = q4w
  /\ unheld = [p \in Pools |-> 0]
  /\ due = q4w

---------------------------------------------------------------------------
(* The reward zone.                                                        *)

(* require_distribute_run_recently.                                        *)
DistributedRecently == last_distribution >= now - SECONDS_PER_HOUR

(* add_to_reward_zone: into a full zone only in place of a pool with less. *)
AddToRewardZone(p) ==
  /\ p \notin zone
  /\ AboveThreshold(p)
  /\ zone # {} => DistributedRecently
  /\ \/ /\ Cardinality(zone) < MAX_RZ_SIZE
        /\ zone' = zone \cup {p}
     \/ /\ Cardinality(zone) >= MAX_RZ_SIZE
        /\ \E out \in zone :
             /\ PoolTokens(p) > PoolTokens(out)
             /\ zone' = (zone \ {out}) \cup {p}
  /\ UNCHANGED <<now, emitterVars, blnd, allowance, backfill_status, backfill_emissions,
                 last_distribution, rz_emis, ledgerVars, emis, user, histories>>

RemoveFromRewardZone(p) ==
  /\ ~AboveThreshold(p)
  /\ DistributedRecently
  /\ p \in zone
  /\ zone' = zone \ {p}
  /\ UNCHANGED <<now, emitterVars, blnd, allowance, backfill_status, backfill_emissions,
                 last_distribution, rz_emis, ledgerVars, emis, user, histories>>

---------------------------------------------------------------------------
(* distribute.                                                             *)

IsBackfill == distro = 0
DistributedAt == IF IsBackfill THEN now ELSE distro

\* Mutant: what was not minted between the backfill and the swap is counted.
NoReset == last_distribution = 0

(* There is nothing to count from: the first distribution ever, and the    *)
(* first after backfilling, only record the time.                          *)
NeedsReset ==
  \/ last_distribution = 0
  \/ ~IsBackfill /\ backfill_status = "backfilling"

BackfillStatus ==
  /\ IsBackfill => backfill_status # "emitting"
  /\ backfill_status' = IF IsBackfill THEN "backfilling" ELSE "emitting"

StartDistribution ==
  /\ NeedsReset
  /\ BackfillStatus
  /\ last_distribution' = DistributedAt
  /\ UNCHANGED <<now, emitterVars, blnd, allowance, backfill_emissions, zone, rz_emis,
                 ledgerVars, emis, user, histories>>

(* What is distributed: a token a second, but no more is backfilled than   *)
(* the maximum.                                                            *)
NewEmissions ==
  LET emitted == (DistributedAt - last_distribution) * SCALAR_7
  IN  IF IsBackfill
      THEN MinOf(emitted, MAX_BACKFILLED_EMISSIONS - backfill_emissions)
      ELSE emitted

(* The pools' parts of n go by the tokens that are not queued.             *)
PartOf(p, n) ==
  MulFloor(DivFloor(Unqueued(p), Total([z \in zone |-> Unqueued(z)]), SCALAR_7), n, SCALAR_7)

(* With every token of the zone queued the division fails.                 *)
Distribute ==
  /\ ~NeedsReset
  /\ BackfillStatus
  /\ DistributedAt - last_distribution >= MIN_DISTRIBUTION
  /\ zone # {}
  /\ \E p \in zone : Unqueued(p) # 0
  /\ IsBackfill => backfill_emissions < MAX_BACKFILLED_EMISSIONS
  /\ backfill_emissions' = backfill_emissions + IF IsBackfill THEN NewEmissions ELSE 0
  /\ last_distribution' = DistributedAt
  /\ rz_emis' = [p \in Pools |->
       IF p \in zone THEN [rz_emis[p] EXCEPT !.accrued = @ + PartOf(p, NewEmissions)]
       ELSE rz_emis[p]]
  /\ UNCHANGED <<now, emitterVars, blnd, allowance, zone, ledgerVars, emis, user, histories>>

---------------------------------------------------------------------------
(* The emissions of a pool's depositors.                                   *)

\* Mutant: queued shares earn too, as far as the index goes.
EarningAll(p) == PoolTokens(p)

(* The shares that earn: those not queued.                                 *)
Earning(p) == Unqueued(p)

(* update_emission_data: while a pool has shares but every one is queued,  *)
(* what is emitted is dropped.                                             *)
Updates(p) == Emitting(emis[p], now) /\ PoolTokens(p) # 0
Updated(p) ==
  IF Updates(p)
  THEN [emis[p] EXCEPT
          !.index = @ + IF Unqueued(p) = 0 THEN 0
                        ELSE DivFloor(Emitted(emis[p], now), Earning(p), SCALAR_7),
          !.last_time = now]
  ELSE emis[p]

ClaimOf(p, u) == Settled(user[p][u], Updated(p), shares[p][u], SCALAR_7).accrued

(* update_emissions, with the balances before the change.                  *)
Update(p, u) ==
  /\ emis' = [emis EXCEPT ![p] = Updated(p)]
  /\ user' = [user EXCEPT ![p][u] = Settled(@, Updated(p), shares[p][u], SCALAR_7)]
  /\ due' = [due EXCEPT ![p][u] = @ + held[p][u] \div (SCALAR_7 * SCALAR_7)]

(* The history after an update, shares' being known: what no one held is   *)
(* dropped if the code drops it, and falls to u if u is the first to have  *)
(* shares in the pool again, in whole units for each of them.              *)
Dropped(p) == Updates(p) /\ Unqueued(p) = 0
IsFirst(p, u) == PoolTokens(p) = 0 /\ shares'[p][u] > 0
Inherited(p, u) ==
  /\ held' = [held EXCEPT ![p][u] =
       IF IsFirst(p, u) THEN shares'[p][u] * (unheld[p] \div shares'[p][u]) ELSE 0]
  /\ unheld' = [unheld EXCEPT ![p] = IF Dropped(p) \/ IsFirst(p, u) THEN 0 ELSE @]

GulpEmissions(p) ==
  LET accrued == rz_emis[p].accrued IN
  /\ rz_emis[p].last_time <= now - SECONDS_PER_DAY
  /\ MulFloor(accrued, 3, 10) >= MIN_GULP
  /\ allowance' = allowance + MulFloor(accrued, 3, 10)
  /\ rz_emis' = [rz_emis EXCEPT ![p] = [accrued |-> 0, last_time |-> now]]
  /\ emis' = [emis EXCEPT ![p] = Renewed(Updated(p), MulFloor(accrued, 7, 10), now)]
  /\ unheld' = [unheld EXCEPT ![p] = 0]
  /\ UNCHANGED <<now, emitterVars, blnd, zoneVars, ledgerVars, user, held, due>>

Deposit(p, u) ==
  /\ shares[p][u] + q4w[p][u] < MaxShares
  /\ Update(p, u)
  /\ shares' = [shares EXCEPT ![p][u] = @ + 1]
  /\ Inherited(p, u)
  /\ UNCHANGED <<now, emitterVars, blnd, allowance, zoneVars, rz_emis, q4w>>

QueueWithdrawal(p, u) ==
  /\ shares[p][u] > 0
  /\ Update(p, u)
  /\ shares' = [shares EXCEPT ![p][u] = @ - 1]
  /\ Inherited(p, u)
  /\ q4w' = [q4w EXCEPT ![p][u] = @ + 1]
  /\ UNCHANGED <<now, emitterVars, blnd, allowance, zoneVars, rz_emis>>

DequeueWithdrawal(p, u) ==
  /\ q4w[p][u] > 0
  /\ Update(p, u)
  /\ shares' = [shares EXCEPT ![p][u] = @ + 1]
  /\ Inherited(p, u)
  /\ q4w' = [q4w EXCEPT ![p][u] = @ - 1]
  /\ UNCHANGED <<now, emitterVars, blnd, allowance, zoneVars, rz_emis>>

(* Queued shares earn nothing, so their withdrawal settles nothing.        *)
Withdraw(p, u) ==
  /\ q4w[p][u] > 0
  /\ q4w' = [q4w EXCEPT ![p][u] = @ - 1]
  /\ UNCHANGED <<now, emitterVars, blnd, allowance, zoneVars, rz_emis, shares, emis, user,
                 histories>>

(* execute_claim of u's emissions of one pool, which are exchanged for     *)
(* `out` tokens and deposited.                                             *)
Claim(p, u, out) ==
  LET claimed == ClaimOf(p, u) IN
  /\ emis[p].expiration # 0
  /\ claimed <= blnd
  /\ out <= claimed /\ shares[p][u] + q4w[p][u] + out <= MaxShares
  /\ emis' = [emis EXCEPT ![p] = Updated(p)]
  /\ user' = [user EXCEPT ![p][u] = [index |-> Updated(p).index, accrued |-> 0]]
  /\ blnd' = blnd - claimed
  /\ shares' = [shares EXCEPT ![p][u] = @ + out]
  /\ due' = [due EXCEPT ![p][u] = 0]
  /\ Inherited(p, u)
  /\ UNCHANGED <<now, emitterVars, allowance, zoneVars, rz_emis, q4w>>

---------------------------------------------------------------------------
(* The emitter: it mints a token a second for the backstop it has adopted, *)
(* and once, on that backstop's call of drop, what it backfilled.          *)
Adopt ==
  /\ distro = 0
  /\ distro' = now
  /\ UNCHANGED <<now, dropped, blnd, allowance, zoneVars, rz_emis, ledgerVars, emis, user,
                 histories>>

EmitterDistribute ==
  /\ distro # 0 /\ distro < now
  /\ distro' = now
  /\ blnd' = blnd + (now - distro) * SCALAR_7
  /\ UNCHANGED <<now, dropped, allowance, zoneVars, rz_emis, ledgerVars, emis, user, histories>>

Drop ==
  /\ distro # 0 /\ ~dropped
  /\ dropped' = TRUE
  /\ blnd' = blnd + backfill_emissions
  /\ UNCHANGED <<now, distro, allowance, zoneVars, rz_emis, ledgerVars, emis, user, histories>>

(* A second passes, and what is emitted in it falls to the shares that are *)
(* not queued.                                                             *)
Tick ==
  /\ now < MaxTime
  /\ now' = now + 1
  /\ LET emitted(p) == IF now < emis[p].expiration THEN emis[p].eps * SCALAR_7 ELSE 0 IN
     /\ held' = [p \in Pools |-> [u \in Depositors[p] |->
          IF Unqueued(p) = 0 THEN held[p][u]
          ELSE held[p][u] + shares[p][u] * (emitted(p) \div Unqueued(p))]]
     /\ unheld' = [p \in Pools |->
          IF Unqueued(p) = 0 THEN unheld[p] + emitted(p) ELSE unheld[p]]
  /\ UNCHANGED <<emitterVars, blnd, allowance, zoneVars, rz_emis, ledgerVars, emis, user, due>>

Next ==
  \/ Tick \/ Adopt \/ EmitterDistribute \/ Drop
  \/ StartDistribution \/ Distribute
  \/ \E p \in Pools :
       \/ AddToRewardZone(p) \/ RemoveFromRewardZone(p) \/ GulpEmissions(p)
       \/ \E u \in Active[p] :
            \/ Deposit(p, u) \/ QueueWithdrawal(p, u)
            \/ DequeueWithdrawal(p, u) \/ Withdraw(p, u)
            \/ \E out \in LpOuts : Claim(p, u, out)

Spec == Init /\ [][Next]_vars

---------------------------------------------------------------------------
(* The shares of p divide the scalar: what falls to one of them is a whole *)
(* number.                                                                 *)
SharesComeOutEven(p) ==
  /\ Founding[p] \in [Depositors[p] -> 0..MaxShares]
  /\ \A f \in [Depositors[p] -> 0..MaxShares] : Total(f) # 0 => SCALAR_7 % Total(f) = 0

(* A claim pays what the depositor's unqueued shares earned in the seconds *)
(* it had them, whatever it deposited, queued, dequeued or withdrew since, *)
(* and whatever was gulped: emissions are settled before every change of a *)
(* balance (deposit.rs, withdrawal.rs, claim.rs), and a withdrawal need    *)
(* not settle them.  It is never short of what was earned, each second's   *)
(* part of a share rounded down; and where the shares come out even it is  *)
(* that to the unit.                                                       *)
PaidForWhatWasDeposited ==
  \A p \in Pools : \A u \in Depositors[p] :
    LET earned == due[p][u] + held[p][u] \div (SCALAR_7 * SCALAR_7) IN
    /\ ClaimOf(p, u) >= earned
    /\ SharesComeOutEven(p) => ClaimOf(p, u) = earned

(* What the pool p was credited with and did not gulp, what its depositors *)
(* could claim now, and what its stream has still to pay them.             *)
Owed(p) ==
  LET d == Updated(p) IN
  rz_emis[p].accrued
    + Total([u \in Depositors[p] |-> Settled(user[p][u], d, shares[p][u], SCALAR_7).accrued])
    + IF d.last_time < d.expiration
      THEN MulFloor(d.eps, d.expiration - d.last_time, SCALAR_7) ELSE 0

(* The backstop has, or will be dropped, all it distributed: it never      *)
(* counts a second the emitter did not mint for, although it learns of a   *)
(* swap after the fact, and what it backfilled is minted once, in whatever *)
(* order the drop and the distributions come.                              *)
EmissionsAreMinted ==
  Total([p \in Pools |-> Owed(p)]) + allowance
    <= blnd + IF dropped THEN 0 ELSE backfill_emissions
=============================================================================
