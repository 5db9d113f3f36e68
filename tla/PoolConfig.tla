---------------------------- MODULE PoolConfig ----------------------------
(***************************************************************************)
(* The configuration of a pool and what changes it under way               *)
(* (pool/src/pool/config.rs, status.rs): the admin's settings, the queue   *)
(* of reserve configurations with its week of delay, and the status, which *)
(* the admin and anyone else may change.  LendingPool takes the            *)
(* configuration as given; here the users' business is abstracted to what  *)
(* it does to a reserve's supplies, and the configuration moves.           *)
(*                                                                         *)
(* Interest accrues when a reserve is loaded, with the configuration of    *)
(* that moment.  So a change of the configuration must bring the reserves  *)
(* it concerns up to date first, or it would also be applied to the past.  *)
(***************************************************************************)
EXTENDS PoolStatus, FiniteSets, Sequences, Totals

CONSTANTS
  Reserves,          \* the assets that may become reserves
  SECONDS_PER_WEEK,
  MAX_RESERVES,
  MinBaseRate,       \* 0_0001000: the least r_base
  MaxReactivity,     \* 0_0001000: the largest reactivity
  MIN_INTEREST,      \* 200: the least value of interest to auction, a unit of
                     \* each asset being worth 1
  \* Bounds of the inputs and of the run:
  Settings,          \* the settings the admin may ask for
  Metadata,          \* the reserve configurations the admin may ask for
  AdminStatuses,     \* the statuses the admin may ask for
  BackstopLevels,    \* the backstop data the pool may find
  Supplies,          \* the supplies of bTokens users may leave a reserve with
  Owed,              \* the supplies of dTokens
  MaxTime            \* the seconds the run lasts

ASSUME PoolConfigAssumption ==
  /\ IsFiniteSet(Reserves)
  /\ Metadata \subseteq ReserveConfigs
  /\ Settings \subseteq [bstop_rate : Nat, max_positions : Nat, min_collateral : Int]
  /\ BackstopLevels \subseteq BackstopDatas
  /\ {SECONDS_PER_WEEK, MAX_RESERVES, MIN_INTEREST, MaxTime} \subseteq Nat
  /\ Supplies \subseteq Nat /\ Owed \subseteq Nat

VARIABLES
  now,        \* the ledger's timestamp
  settings,   \* the PoolConfig of the pool, but for its status
  status,
  list,       \* the assets of the reserves, in the order of their indices
  config,     \* the ReserveConfig of each of them
  res,        \* the ReserveData of each of them
  queued,     \* the queued reserve changes
  lot,        \* the lot of the interest auction
  notice      \* history: when each change that is not yet made was announced

vars == <<now, settings, status, list, config, res, queued, lot, notice>>

---------------------------------------------------------------------------
Listed == {list[i] : i \in DOMAIN list}

(* load_reserve.                                                           *)
Loaded(r) == LoadReserve(res[r], config[r], settings.bstop_rate, now)

(* require_valid_pool_config.                                              *)
ValidSettings(s) ==
  /\ s.bstop_rate < SCALAR_7
  /\ s.max_positions \in 2..(2 * MAX_RESERVES)
  /\ s.min_collateral >= 0

(* require_valid_reserve_metadata: ReserveConfigs has the first bounds.    *)
ValidMetadata(m) ==
  /\ m.util < m.max_util
  /\ m.r_base >= MinBaseRate /\ m.r_base < SCALAR_7
  /\ m.r_one <= m.r_two /\ m.r_two <= m.r_three
  /\ m.reactivity <= MaxReactivity

\* Mutant: the debt factor may be set to 0.
ValidChangeOfDecimals(cur, m) == cur.scalar = m.scalar

(* require_valid_reserve_metadata_changes: not the decimals, and the debt  *)
(* factor of what may be owed not to 0, which could not be valued.         *)
ValidChange(cur, m) ==
  /\ cur.scalar = m.scalar
  /\ cur.l_factor # 0 => m.l_factor # 0

Nothing == [r \in {} |-> 0]

Without(f, r)  == [x \in DOMAIN f \ {r} |-> f[x]]
With(f, r, v)  == [x \in DOMAIN f \cup {r} |-> IF x = r THEN v ELSE f[x]]

(* The pool as execute_initialize leaves it.                               *)
Init ==
  /\ now = 0
  /\ settings \in {s \in Settings : ValidSettings(s)}
  /\ status = Setup
  /\ list = <<>>
  /\ config = Nothing
  /\ res = Nothing
  /\ queued = Nothing
  /\ lot = Nothing
  /\ notice = Nothing

---------------------------------------------------------------------------
\* Mutant: the reserves are left as they are.
StoredUnchanged(s) == res

(* What execute_update_pool stores of the reserves, for the settings s.    *)
Stored(s) ==
  IF s.bstop_rate = settings.bstop_rate THEN res
  ELSE [r \in DOMAIN res |-> Loaded(r)]

UpdatePool(s) ==
  /\ ValidSettings(s)
  /\ settings' = s
  /\ res' = Stored(s)
  /\ UNCHANGED <<now, status, list, config, queued, lot, notice>>

\* Mutant: the delay is for a pool in setup.
UnlockTimeInverted == IF status # Setup THEN now ELSE now + SECONDS_PER_WEEK

UnlockTime == IF status = Setup THEN now ELSE now + SECONDS_PER_WEEK

QueueSetReserve(r, m) ==
  /\ r \notin DOMAIN queued
  /\ ValidMetadata(m)
  /\ r \in Listed => ValidChange(config[r], m)
  /\ queued' = With(queued, r, [new_config |-> m, unlock_time |-> UnlockTime])
  /\ notice' = With(notice, r, [of |-> m, at |-> now, setup |-> status = Setup])
  /\ UNCHANGED <<now, settings, status, list, config, res, lot>>

(* Cancelling what is not queued does nothing.                             *)
CancelSetReserve(r) ==
  /\ r \in DOMAIN queued
  /\ queued' = Without(queued, r)
  /\ notice' = Without(notice, r)
  /\ UNCHANGED <<now, settings, status, list, config, res, lot>>

NewRates(cur, m) ==
  \/ cur.r_base # m.r_base \/ cur.r_one # m.r_one \/ cur.r_two # m.r_two
  \/ cur.r_three # m.r_three \/ cur.util # m.util

\* Mutant: what has accrued is not stored.
ReconfiguredStale(r, m) ==
  IF NewRates(config[r], m) THEN [res[r] EXCEPT !.ir_mod = SCALAR_7] ELSE res[r]

(* initialize_reserve of one that exists.                                  *)
Reconfigured(r, m) ==
  IF NewRates(config[r], m) THEN [Loaded(r) EXCEPT !.ir_mod = SCALAR_7] ELSE Loaded(r)

(* execute_set_reserve, by anyone.                                         *)
SetReserve(r) ==
  LET m == queued[r].new_config
  IN  /\ r \in DOMAIN queued
      /\ queued[r].unlock_time <= now
      /\ IF r \in Listed THEN ValidChange(config[r], m) ELSE Len(list) < MAX_RESERVES
      /\ queued' = Without(queued, r)
      /\ config' = With(config, r, m)
      /\ res' = With(res, r, IF r \in Listed THEN Reconfigured(r, m) ELSE NewReserve(now))
      /\ list' = IF r \in Listed THEN list ELSE Append(list, r)
      /\ notice' = Without(notice, r)
      /\ UNCHANGED <<now, settings, status, lot>>

---------------------------------------------------------------------------
(* Statuses: update_status by anyone, set_status by the admin.             *)
UpdateStatus(b) ==
  /\ MayUpdateStatus(status)
  /\ status' = UpdatedStatus(status, b)
  /\ UNCHANGED <<now, settings, list, config, res, queued, lot, notice>>

SetStatus(s, b) ==
  /\ MaySetStatus(s, b)
  /\ status' = s
  /\ UNCHANGED <<now, settings, list, config, res, queued, lot, notice>>

---------------------------------------------------------------------------
(* What the users do to a reserve: any submit that touches it.  Debt that  *)
(* cannot be valued fails the health check of its borrower.                *)
Business(r, b, d) ==
  /\ r \in Listed
  /\ b > Loaded(r).b_supply => SupplyAllowed(status) /\ config[r].enabled
  /\ d > Loaded(r).d_supply =>
       BorrowAllowed(status) /\ config[r].enabled /\ config[r].l_factor > 0
  /\ Utilization([Loaded(r) EXCEPT !.b_supply = b, !.d_supply = d]) < SCALAR_7
  /\ res' = [res EXCEPT ![r] = [Loaded(r) EXCEPT !.b_supply = b, !.d_supply = d]]
  /\ UNCHANGED <<now, settings, status, list, config, queued, lot, notice>>

(* An interest auction of all credits accrued so far, and its fill in     *)
(* full.                                                                   *)
NewInterestAuction ==
  LET earned == [r \in {r \in Listed : Loaded(r).backstop_credit > 0} |->
                   Loaded(r).backstop_credit]
  IN  /\ lot = Nothing
      /\ earned # Nothing
      /\ Total(earned) >= MIN_INTEREST
      /\ lot' = earned
      /\ UNCHANGED <<now, settings, status, list, config, res, queued, notice>>

FillInterestAuction ==
  /\ lot # Nothing
  /\ res' = [r \in DOMAIN res |->
               IF r \in DOMAIN lot
               THEN [Loaded(r) EXCEPT !.backstop_credit = @ - lot[r]]
               ELSE res[r]]
  /\ lot' = Nothing
  /\ UNCHANGED <<now, settings, status, list, config, queued, notice>>

Tick ==
  /\ now < MaxTime
  /\ now' = now + 1
  /\ UNCHANGED <<settings, status, list, config, res, queued, lot, notice>>

Next ==
  \/ \E s \in Settings : UpdatePool(s)
  \/ \E r \in Reserves :
       \/ \E m \in Metadata : QueueSetReserve(r, m)
       \/ CancelSetReserve(r)
       \/ SetReserve(r)
       \/ \E b \in Supplies, d \in Owed : Business(r, b, d)
  \/ \E b \in BackstopLevels : \/ UpdateStatus(b)
                               \/ \E s \in AdminStatuses : SetStatus(s, b)
  \/ NewInterestAuction
  \/ FillInterestAuction
  \/ Tick

Spec == Init /\ [][Next]_vars

---------------------------------------------------------------------------
(* The interest an open auction pays out is there, although it was never   *)
(* stored as credit: whatever rates, shares and configurations became of   *)
(* the reserve since, as much has accrued by the time of the fill.         *)
InterestLotIsBacked ==
  \A r \in DOMAIN lot : lot[r] <= Loaded(r).backstop_credit

(* No change is retroactive: what suppliers, borrowers and the backstop    *)
(* have at the moment of a change is what they had before it.              *)
Accrued(d) == [d EXCEPT !.ir_mod = 0, !.last_time = 0]

NoChangeIsRetroactive ==
  [][settings' # settings \/ config' # config =>
       \A r \in Listed : Accrued(Loaded(r)') = Accrued(Loaded(r))]_vars

(* Users of a pool that left Setup can see a change coming: it was         *)
(* announced a week before or while the pool was in Setup, every           *)
(* announcement serves for one change, and a cancelled one for none.       *)
ChangesAreAnnounced ==
  [][\A r \in Listed' :
       (r \in Listed => config'[r] # config[r]) =>
         /\ r \in DOMAIN notice
         /\ notice[r].of = config'[r]
         /\ notice[r].setup \/ notice[r].at + SECONDS_PER_WEEK <= now]_vars

(* What is owed can be valued: the debt factor of a reserve that has debt  *)
(* never becomes 0, although a change is checked when it is queued and     *)
(* another may be made before it is.                                       *)
DebtCanBeValued ==
  \A r \in Listed : res[r].d_supply > 0 => config[r].l_factor > 0
===========================================================================
