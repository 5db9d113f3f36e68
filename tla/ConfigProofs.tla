---------------------------- MODULE ConfigProofs ----------------------------
(***************************************************************************)
(* What changes of a pool's configuration may not do, for any settings,    *)
(* configurations, delays and times: they are announced, they are never    *)
(* applied to the past, debt can be valued, and an interest auction can    *)
(* be paid out whatever happens to the reserves between its creation and   *)
(* its fill.                                                               *)
(***************************************************************************)
EXTENDS PoolConfig, ReserveProofs

---------------------------------------------------------------------------
(* The inductive invariant.  An announcement that is waited for tells what *)
(* is queued and when; the reserves are those listed, none is ahead of     *)
(* time; what an auction pays out is backed, and debt can be valued.       *)
Announced(r) ==
  /\ queued[r].new_config \in Metadata
  /\ notice[r].of = queued[r].new_config
  /\ notice[r].setup \/ notice[r].at + SECONDS_PER_WEEK <= queued[r].unlock_time
  /\ notice[r].at \in Nat /\ queued[r].unlock_time \in Nat

InUse(r) ==
  /\ config[r] \in ReserveConfigs
  /\ res[r] \in ReserveDatas
  /\ res[r].last_time <= now

ConfigInv ==
  /\ now \in Nat
  /\ settings \in Settings /\ ValidSettings(settings)
  /\ list \in Seq(Reserves)
  /\ DOMAIN config = Listed /\ DOMAIN res = Listed
  /\ \A r \in Listed : InUse(r)
  /\ DOMAIN notice = DOMAIN queued
  /\ \A r \in DOMAIN queued : Announced(r)
  /\ DOMAIN lot \subseteq Listed
  /\ \A r \in DOMAIN lot : lot[r] \in Nat
  /\ InterestLotIsBacked
  /\ DebtCanBeValued

LEMMA RateIsShare ==
  ASSUME NEW s \in Settings, ValidSettings(s)
  PROVE  s.bstop_rate \in 0..(SCALAR_7 - 1)
<1>1. s.bstop_rate \in Nat /\ SCALAR_7 \in Nat
  BY PoolConfigAssumption, ScalarAssumption
<1> QED BY <1>1 DEF ValidSettings

LEMMA ListedAreLoaded ==
  ASSUME ConfigInv, NEW r \in Listed
  PROVE  /\ Loaded(r) \in ReserveDatas
         /\ Loaded(r).last_time = now
         /\ Loaded(r).d_supply = res[r].d_supply
<1>1. /\ res[r] \in ReserveDatas /\ config[r] \in ReserveConfigs
      /\ res[r].last_time <= now /\ now \in Nat
      /\ settings.bstop_rate \in 0..(SCALAR_7 - 1)
  BY RateIsShare DEF ConfigInv, InUse
<1>2. Updated(res[r], LoadReserve(res[r], config[r], settings.bstop_rate, now), now)
  BY <1>1, LoadingUpdates
<1> QED BY <1>2 DEF Updated, Loaded

LEMMA AppendedIsListed ==
  ASSUME NEW s \in Seq(Reserves), NEW r \in Reserves
  PROVE  /\ Append(s, r) \in Seq(Reserves)
         /\ {Append(s, r)[i] : i \in DOMAIN Append(s, r)} = {s[i] : i \in DOMAIN s} \cup {r}
<1>1. /\ Append(s, r) \in Seq(Reserves)
      /\ Len(s) \in Nat /\ DOMAIN s = 1..Len(s)
      /\ DOMAIN Append(s, r) = 1..(Len(s) + 1)
      /\ \A i \in 1..Len(s) : Append(s, r)[i] = s[i]
      /\ Append(s, r)[Len(s) + 1] = r
  OBVIOUS
<1>2. 1..(Len(s) + 1) = 1..Len(s) \cup {Len(s) + 1}
  BY <1>1
<1> QED BY <1>1, <1>2

(* A reserve that a step leaves as it was, or has just brought up to date, *)
(* is loaded at the same time as what it was before or has become.         *)
Left(r) ==
  /\ res'[r] = res[r] /\ config'[r] = config[r]
  /\ settings'.bstop_rate = settings.bstop_rate /\ now' = now

LEMMA LeftIsLoaded ==
  ASSUME NEW r, Left(r)
  PROVE  Loaded(r)' = Loaded(r)
BY DEF Left, Loaded

LEMMA StoredIsLoaded ==
  ASSUME NEW r, now' = now, res'[r].last_time = now
  PROVE  Loaded(r)' = res'[r]
BY LoadedIsUpToDate DEF Loaded

(* A step after which everything listed is listed, in use and loaded with  *)
(* at least the credit it had keeps the invariant's part about reserves.   *)
LEMMA ReservesStep ==
  ASSUME ConfigInv,
         now' \in Nat, settings' \in Settings, ValidSettings(settings'),
         list' \in Seq(Reserves), Listed \subseteq Listed',
         DOMAIN config' = Listed', DOMAIN res' = Listed',
         \A r \in Listed' : InUse(r)',
         \A r \in Listed' : res'[r].d_supply > 0 => config'[r].l_factor > 0,
         DOMAIN notice' = DOMAIN queued',
         \A r \in DOMAIN queued' : Announced(r)',
         \/ /\ lot' = lot
            /\ \A r \in Listed : Loaded(r).backstop_credit <= Loaded(r)'.backstop_credit
         \/ lot' = Nothing,
         \A r \in Listed' : Loaded(r)'.backstop_credit \in Nat
  PROVE  ConfigInv'
<1>1. \A r \in Listed : Loaded(r).backstop_credit \in Nat
  BY ListedAreLoaded DEF ReserveDatas
<1>2. /\ DOMAIN lot' \subseteq Listed'
      /\ \A r \in DOMAIN lot' : lot'[r] \in Nat
      /\ \A r \in DOMAIN lot' : lot'[r] <= Loaded(r)'.backstop_credit
  <2>1. CASE lot' = Nothing
    <3>1. DOMAIN lot' = {}
      BY <2>1 DEF Nothing
    <3> QED BY <3>1
  <2>2. CASE /\ lot' = lot
             /\ \A r \in Listed : Loaded(r).backstop_credit <= Loaded(r)'.backstop_credit
    <3>1. DOMAIN lot \subseteq Listed /\ \A r \in DOMAIN lot : lot[r] \in Nat
      BY DEF ConfigInv
    <3>2. \A r \in DOMAIN lot : lot[r] <= Loaded(r).backstop_credit
      BY DEF ConfigInv, InterestLotIsBacked
    <3>3. ASSUME NEW r \in DOMAIN lot
          PROVE  lot[r] <= Loaded(r)'.backstop_credit
      <4>1. r \in Listed /\ r \in Listed'
        BY <3>1
      <4> QED BY <2>2, <3>1, <3>2, <4>1, <1>1
    <3> QED BY <2>2, <3>1, <3>3
  <2> QED BY <2>1, <2>2
<1>3. InterestLotIsBacked'
  BY <1>2 DEF InterestLotIsBacked
<1>4. DebtCanBeValued'
  BY DEF DebtCanBeValued
<1> QED BY <1>2, <1>3, <1>4 DEF ConfigInv

LEMMA InitConfig == Init => ConfigInv
<1> SUFFICES ASSUME Init PROVE ConfigInv
  OBVIOUS
<1>1. Listed = {} /\ list \in Seq(Reserves)
  BY DEF Init, Listed
<1>2. DOMAIN Nothing = {}
  BY DEF Nothing
<1>3. now \in Nat /\ settings \in Settings /\ ValidSettings(settings)
  BY DEF Init
<1>4. /\ DOMAIN config = {} /\ DOMAIN res = {} /\ DOMAIN notice = {} /\ DOMAIN queued = {}
      /\ DOMAIN lot = {}
  BY <1>2 DEF Init
<1> QED BY <1>1, <1>3, <1>4 DEF ConfigInv, InterestLotIsBacked, DebtCanBeValued

---------------------------------------------------------------------------
(* The actions.                                                            *)

(* Steps that leave the reserves, their configuration, the settings and    *)
(* the time: the queue and the status.                                     *)
LEMMA QueueStep ==
  ASSUME ConfigInv, UNCHANGED <<now, settings, list, config, res, lot>>,
         DOMAIN notice' = DOMAIN queued',
         \A r \in DOMAIN queued' : Announced(r)'
  PROVE  ConfigInv'
<1>1. Listed' = Listed
  BY DEF Listed
<1>2. \A r \in Listed : Loaded(r)' = Loaded(r)
  BY DEF Loaded
<1>3. \A r \in Listed : InUse(r)'
  BY DEF ConfigInv, InUse
<1>4. DebtCanBeValued' /\ InterestLotIsBacked'
  BY <1>1, <1>2 DEF ConfigInv, DebtCanBeValued, InterestLotIsBacked
<1> QED BY <1>1, <1>3, <1>4 DEF ConfigInv

LEMMA QueueSetReserveKeeps ==
  ASSUME ConfigInv, NEW q \in Reserves, NEW m \in Metadata, QueueSetReserve(q, m)
  PROVE  ConfigInv'
<1>1. /\ queued' = With(queued, q, [new_config |-> m, unlock_time |-> UnlockTime])
      /\ notice' = With(notice, q, [of |-> m, at |-> now, setup |-> status = Setup])
      /\ UNCHANGED <<now, settings, list, config, res, lot>>
  BY DEF QueueSetReserve
<1>2. DOMAIN notice = DOMAIN queued /\ now \in Nat /\ SECONDS_PER_WEEK \in Nat
  BY PoolConfigAssumption DEF ConfigInv
<1>3. DOMAIN queued' = DOMAIN queued \cup {q} /\ DOMAIN notice' = DOMAIN queued \cup {q}
  BY <1>1, <1>2 DEF With
<1>4. ASSUME NEW r \in DOMAIN queued'
      PROVE  Announced(r)'
  <2>1. CASE r = q
    <3>1. /\ queued'[r] = [new_config |-> m, unlock_time |-> UnlockTime]
          /\ notice'[r] = [of |-> m, at |-> now, setup |-> status = Setup]
      BY <1>1, <1>2, <1>3, <2>1 DEF With
    <3>2. /\ queued'[r].new_config = m /\ queued'[r].unlock_time = UnlockTime
          /\ notice'[r].of = m /\ notice'[r].at = now
          /\ notice'[r].setup = (status = Setup)
      BY <3>1
    <3>3. UnlockTime \in Nat /\ (status = Setup \/ now + SECONDS_PER_WEEK <= UnlockTime)
      BY <1>2 DEF UnlockTime
    <3> QED BY <3>2, <3>3, <1>2 DEF Announced
  <2>2. CASE r # q
    <3>1. queued'[r] = queued[r] /\ notice'[r] = notice[r] /\ r \in DOMAIN queued
      BY <1>1, <1>2, <1>3, <2>2 DEF With
    <3> QED BY <3>1 DEF ConfigInv, Announced
  <2> QED BY <2>1, <2>2
<1> QED BY <1>1, <1>3, <1>4, QueueStep

LEMMA CancelSetReserveKeeps ==
  ASSUME ConfigInv, NEW q \in Reserves, CancelSetReserve(q)
  PROVE  ConfigInv'
<1>1. /\ queued' = Without(queued, q) /\ notice' = Without(notice, q)
      /\ UNCHANGED <<now, settings, list, config, res, lot>>
  BY DEF CancelSetReserve
<1>2. DOMAIN notice = DOMAIN queued
  BY DEF ConfigInv
<1>3. /\ DOMAIN queued' = DOMAIN queued \ {q} /\ DOMAIN notice' = DOMAIN queued \ {q}
      /\ \A r \in DOMAIN queued' : queued'[r] = queued[r] /\ notice'[r] = notice[r]
  BY <1>1, <1>2 DEF Without
<1>4. \A r \in DOMAIN queued' : Announced(r)'
  BY <1>3 DEF ConfigInv, Announced
<1> QED BY <1>1, <1>3, <1>4, QueueStep

LEMMA StatusKeeps ==
  ASSUME ConfigInv, UNCHANGED <<now, settings, list, config, res, queued, lot, notice>>
  PROVE  ConfigInv'
<1>1. /\ DOMAIN notice' = DOMAIN queued'
      /\ \A r \in DOMAIN queued' : Announced(r)'
  BY DEF ConfigInv, Announced
<1> QED BY <1>1, QueueStep

(* Steps that leave the queue: the announcements stand.                    *)
LEMMA AnnouncementsStand ==
  ASSUME ConfigInv, UNCHANGED <<queued, notice>>
  PROVE  /\ DOMAIN notice' = DOMAIN queued'
         /\ \A r \in DOMAIN queued' : Announced(r)'
BY DEF ConfigInv, Announced

LEMMA UpdatePoolKeeps ==
  ASSUME ConfigInv, NEW s \in Settings, UpdatePool(s)
  PROVE  ConfigInv' /\ \A r \in Listed : Loaded(r)' = Loaded(r)
<1>1. /\ ValidSettings(s) /\ settings' = s /\ res' = Stored(s)
      /\ UNCHANGED <<now, list, config, lot>> /\ UNCHANGED <<queued, notice>>
  BY DEF UpdatePool
<1>2. Listed' = Listed
  BY <1>1 DEF Listed
<1>3. DOMAIN res = Listed /\ DOMAIN config = Listed /\ now \in Nat /\ list \in Seq(Reserves)
  BY DEF ConfigInv
<1>4. ASSUME NEW r \in Listed
      PROVE  /\ InUse(r)' /\ Loaded(r)' = Loaded(r)
             /\ res'[r].d_supply = res[r].d_supply
  <2>1. /\ Loaded(r) \in ReserveDatas /\ Loaded(r).last_time = now
        /\ Loaded(r).d_supply = res[r].d_supply
    BY ListedAreLoaded
  <2>2. InUse(r)
    BY DEF ConfigInv
  <2>3. CASE s.bstop_rate = settings.bstop_rate
    <3>1. res'[r] = res[r]
      BY <1>1, <2>3 DEF Stored
    <3>2. Left(r)
      BY <1>1, <2>3, <3>1 DEF Left
    <3> QED BY <1>1, <2>2, <3>1, <3>2, LeftIsLoaded DEF InUse
  <2>4. CASE s.bstop_rate # settings.bstop_rate
    <3>1. res'[r] = Loaded(r)
      BY <1>1, <1>3, <2>4 DEF Stored
    <3>2. Loaded(r)' = res'[r]
      BY <1>1, <2>1, <3>1, StoredIsLoaded
    <3> QED BY <1>1, <1>3, <2>1, <2>2, <3>1, <3>2 DEF InUse
  <2> QED BY <2>3, <2>4
<1>5. DOMAIN res' = Listed
  BY <1>1, <1>3 DEF Stored
<1>6. \A r \in Listed : Loaded(r).backstop_credit \in Nat
  BY ListedAreLoaded DEF ReserveDatas
<1>7. \A r \in Listed : res'[r].d_supply > 0 => config'[r].l_factor > 0
  BY <1>1, <1>4 DEF ConfigInv, DebtCanBeValued
<1>8. \A r \in Listed : /\ Loaded(r).backstop_credit <= Loaded(r)'.backstop_credit
                        /\ Loaded(r)'.backstop_credit \in Nat
  BY <1>4, <1>6
<1>9. /\ DOMAIN notice' = DOMAIN queued'
      /\ \A r \in DOMAIN queued' : Announced(r)'
  BY <1>1, AnnouncementsStand
<1>10. /\ now' \in Nat /\ settings' \in Settings /\ ValidSettings(settings')
       /\ list' \in Seq(Reserves) /\ Listed \subseteq Listed'
       /\ DOMAIN config' = Listed' /\ DOMAIN res' = Listed' /\ lot' = lot
  BY <1>1, <1>2, <1>3, <1>5
<1>11. \A r \in Listed' : /\ InUse(r)'
                          /\ res'[r].d_supply > 0 => config'[r].l_factor > 0
                          /\ Loaded(r)'.backstop_credit \in Nat
  BY <1>2, <1>4, <1>7, <1>8
<1>12. ConfigInv'
  BY <1>8, <1>9, <1>10, <1>11, ReservesStep
<1> QED BY <1>4, <1>12

(* What initialize_reserve makes of a reserve that exists.                 *)
LEMMA ReconfiguredIsLoaded ==
  ASSUME ConfigInv, NEW r \in Listed, NEW m
  PROVE  /\ Reconfigured(r, m) \in ReserveDatas
         /\ Reconfigured(r, m).last_time = now
         /\ Reconfigured(r, m).d_supply = res[r].d_supply
         /\ Reconfigured(r, m).backstop_credit = Loaded(r).backstop_credit
         /\ Accrued(Reconfigured(r, m)) = Accrued(Loaded(r))
<1> DEFINE d == Loaded(r)
<1>1. d \in ReserveDatas /\ d.last_time = now /\ d.d_supply = res[r].d_supply
  BY ListedAreLoaded
<1>2. Reconfigured(r, m) \in {d, [d EXCEPT !.ir_mod = SCALAR_7]}
  BY DEF Reconfigured
<1> HIDE DEF d
<1>3. SCALAR_7 \in Nat
  BY ScalarAssumption
<1> DEFINE e == [d EXCEPT !.ir_mod = SCALAR_7]
<1>4. /\ e \in ReserveDatas /\ e.last_time = d.last_time
      /\ e.d_supply = d.d_supply /\ e.backstop_credit = d.backstop_credit
  BY <1>1, <1>3 DEF ReserveDatas
<1>5. Accrued(e) = Accrued(d)
  BY <1>1 DEF Accrued, ReserveDatas
<1> HIDE DEF e
<1>6. Reconfigured(r, m) = d \/ Reconfigured(r, m) = e
  BY <1>2 DEF e
<1> QED BY <1>1, <1>4, <1>5, <1>6 DEF d

(* What execute_set_reserve sets.                                          *)
LEMMA ReserveIsSet ==
  ASSUME ConfigInv, NEW q \in Reserves, SetReserve(q)
  PROVE  /\ now' = now /\ settings' = settings /\ lot' = lot
         /\ queued' = Without(queued, q) /\ notice' = Without(notice, q)
         /\ list' \in Seq(Reserves) /\ Listed' = Listed \cup {q}
         /\ DOMAIN config' = Listed' /\ DOMAIN res' = Listed'
         /\ config'[q] = queued[q].new_config
         /\ res'[q] = IF q \in Listed THEN Reconfigured(q, queued[q].new_config)
                      ELSE NewReserve(now)
         /\ q \in Listed => ValidChange(config[q], queued[q].new_config)
         /\ q \in DOMAIN queued /\ queued[q].unlock_time <= now
         /\ \A r \in Listed \ {q} : config'[r] = config[r] /\ res'[r] = res[r]
<1> DEFINE m == queued[q].new_config
           d == IF q \in Listed THEN Reconfigured(q, m) ELSE NewReserve(now)
<1>1. /\ q \in DOMAIN queued /\ queued[q].unlock_time <= now
      /\ q \in Listed => ValidChange(config[q], m)
      /\ queued' = Without(queued, q) /\ notice' = Without(notice, q)
      /\ config' = With(config, q, m) /\ res' = With(res, q, d)
      /\ list' = IF q \in Listed THEN list ELSE Append(list, q)
      /\ now' = now /\ settings' = settings /\ lot' = lot
  BY DEF SetReserve
<1> HIDE DEF m, d
<1>2. DOMAIN res = Listed /\ DOMAIN config = Listed /\ list \in Seq(Reserves)
  BY DEF ConfigInv
<1>3. list' \in Seq(Reserves) /\ Listed' = Listed \cup {q}
  <2>1. CASE q \in Listed
    BY <1>1, <1>2, <2>1 DEF Listed
  <2>2. CASE q \notin Listed
    <3>1. list' = Append(list, q)
      BY <1>1, <2>2
    <3>2. /\ Append(list, q) \in Seq(Reserves)
          /\ {Append(list, q)[i] : i \in DOMAIN Append(list, q)}
               = {list[i] : i \in DOMAIN list} \cup {q}
      BY <1>2, AppendedIsListed
    <3>3. Listed' = {Append(list, q)[i] : i \in DOMAIN Append(list, q)}
      BY Zenon, <3>1 DEF Listed
    <3> QED BY Zenon, <3>1, <3>2, <3>3 DEF Listed
  <2> QED BY <2>1, <2>2
<1>4. /\ DOMAIN config' = Listed \cup {q} /\ DOMAIN res' = Listed \cup {q}
      /\ config'[q] = m /\ res'[q] = d
      /\ \A r \in Listed \ {q} : config'[r] = config[r] /\ res'[r] = res[r]
  BY <1>1, <1>2 DEF With
<1> QED BY <1>1, <1>3, <1>4 DEF m, d

LEMMA SetReserveKeeps ==
  ASSUME ConfigInv, NEW q \in Reserves, SetReserve(q)
  PROVE  /\ ConfigInv'
         /\ \A r \in Listed : Accrued(Loaded(r)') = Accrued(Loaded(r))
<1> DEFINE m == queued[q].new_config
<1>1. /\ now' = now /\ settings' = settings /\ lot' = lot
      /\ queued' = Without(queued, q) /\ notice' = Without(notice, q)
      /\ list' \in Seq(Reserves) /\ Listed' = Listed \cup {q}
      /\ DOMAIN config' = Listed' /\ DOMAIN res' = Listed'
      /\ config'[q] = m
      /\ res'[q] = IF q \in Listed THEN Reconfigured(q, m) ELSE NewReserve(now)
      /\ q \in Listed => ValidChange(config[q], m)
      /\ q \in DOMAIN queued
      /\ \A r \in Listed \ {q} : config'[r] = config[r] /\ res'[r] = res[r]
  BY ReserveIsSet
<1>2. /\ now \in Nat /\ settings \in Settings /\ ValidSettings(settings)
      /\ DOMAIN notice = DOMAIN queued
  BY DEF ConfigInv
<1>3. m \in ReserveConfigs
  BY <1>1, PoolConfigAssumption DEF ConfigInv, Announced
<1> HIDE DEF m
<1>4. /\ res'[q] \in ReserveDatas /\ res'[q].last_time = now
      /\ Loaded(q)' = res'[q]
  <2>1. res'[q] \in ReserveDatas /\ res'[q].last_time = now
    <3>1. CASE q \in Listed
      BY <1>1, <3>1, ReconfiguredIsLoaded
    <3>2. CASE q \notin Listed
      <4>1. res'[q] = NewReserve(now)
        BY <1>1, <3>2
      <4> QED BY <1>2, <4>1, ScalarAssumption DEF NewReserve, ReserveDatas
    <3> QED BY <3>1, <3>2
  <2> QED BY <1>1, <2>1, StoredIsLoaded
<1>5. InUse(q)'
  BY <1>1, <1>2, <1>3, <1>4 DEF InUse
<1>6. res'[q].d_supply > 0 => config'[q].l_factor > 0
  <2>1. CASE q \in Listed
    <3>1. res'[q].d_supply = res[q].d_supply
      BY <1>1, <2>1, ReconfiguredIsLoaded
    <3>2. res[q].d_supply > 0 => config[q].l_factor > 0
      BY <2>1 DEF ConfigInv, DebtCanBeValued
    <3>3. config[q].l_factor # 0 => m.l_factor # 0
      BY <1>1, <2>1 DEF ValidChange
    <3>4. m.l_factor \in Nat /\ config[q].l_factor \in Nat
      <4>1. config[q] \in ReserveConfigs
        BY <2>1 DEF ConfigInv, InUse
      <4> QED BY <1>3, <4>1, ScalarAssumption DEF ReserveConfigs
    <3> QED BY <1>1, <3>1, <3>2, <3>3, <3>4
  <2>2. CASE q \notin Listed
    <3>1. res'[q].d_supply = 0
      BY <1>1, <2>2 DEF NewReserve
    <3> QED BY <3>1
  <2> QED BY <2>1, <2>2
<1>7. ASSUME NEW r \in Listed \ {q}
      PROVE  /\ InUse(r)' /\ Loaded(r)' = Loaded(r)
             /\ res'[r].d_supply > 0 => config'[r].l_factor > 0
             /\ Loaded(r)'.backstop_credit \in Nat
  <2>1. Left(r)
    BY <1>1 DEF Left
  <2>2. Loaded(r)' = Loaded(r)
    BY <2>1, LeftIsLoaded
  <2>3. InUse(r)'
    BY <1>1 DEF ConfigInv, InUse
  <2>4. res'[r].d_supply > 0 => config'[r].l_factor > 0
    BY <1>1 DEF ConfigInv, DebtCanBeValued
  <2>5. Loaded(r).backstop_credit \in Nat
    BY ListedAreLoaded DEF ReserveDatas
  <2> QED BY <2>2, <2>3, <2>4, <2>5
<1>8. /\ DOMAIN notice' = DOMAIN queued'
      /\ \A r \in DOMAIN queued' : Announced(r)'
  <2>1. /\ DOMAIN queued' = DOMAIN queued \ {q} /\ DOMAIN notice' = DOMAIN queued \ {q}
        /\ \A r \in DOMAIN queued' : queued'[r] = queued[r] /\ notice'[r] = notice[r]
    BY <1>1, <1>2 DEF Without
  <2> QED BY <2>1 DEF ConfigInv, Announced
<1>9. \A r \in Listed' : /\ InUse(r)'
                         /\ res'[r].d_supply > 0 => config'[r].l_factor > 0
                         /\ Loaded(r)'.backstop_credit \in Nat
  <2>1. Loaded(q)'.backstop_credit \in Nat
    BY <1>4 DEF ReserveDatas
  <2> SUFFICES ASSUME NEW r \in Listed'
               PROVE  /\ InUse(r)'
                      /\ res'[r].d_supply > 0 => config'[r].l_factor > 0
                      /\ Loaded(r)'.backstop_credit \in Nat
    OBVIOUS
  <2>2. CASE r = q
    BY <1>5, <1>6, <2>1, <2>2
  <2>3. CASE r # q
    <3>1. r \in Listed \ {q}
      BY <1>1, <2>3
    <3> QED BY <1>7, <3>1
  <2> QED BY <2>2, <2>3
<1>10. q \in Listed => /\ Loaded(q)'.backstop_credit = Loaded(q).backstop_credit
                       /\ Accrued(Loaded(q)') = Accrued(Loaded(q))
  BY <1>1, <1>4, ReconfiguredIsLoaded
<1>11. \A r \in Listed : Loaded(r).backstop_credit <= Loaded(r)'.backstop_credit
  <2>1. \A r \in Listed : Loaded(r).backstop_credit \in Nat
    BY ListedAreLoaded DEF ReserveDatas
  <2> QED BY <1>7, <1>10, <2>1
<1>12. Listed \subseteq Listed' /\ now' \in Nat /\ settings' \in Settings /\ ValidSettings(settings')
  BY <1>1, <1>2
<1>13. ConfigInv'
  BY <1>1, <1>8, <1>9, <1>11, <1>12, ReservesStep
<1>14. \A r \in Listed : Accrued(Loaded(r)') = Accrued(Loaded(r))
  BY <1>7, <1>10
<1> QED BY <1>13, <1>14

LEMMA BusinessKeeps ==
  ASSUME ConfigInv, NEW q \in Reserves, NEW b \in Supplies, NEW d \in Owed,
         Business(q, b, d)
  PROVE  ConfigInv'
<1> DEFINE e == [Loaded(q) EXCEPT !.b_supply = b, !.d_supply = d]
<1>1. /\ q \in Listed
      /\ d > Loaded(q).d_supply => config[q].l_factor > 0
      /\ res' = [res EXCEPT ![q] = e]
      /\ UNCHANGED <<now, settings, list, config, lot>> /\ UNCHANGED <<queued, notice>>
  BY DEF Business
<1>2. /\ Loaded(q) \in ReserveDatas /\ Loaded(q).last_time = now
      /\ Loaded(q).d_supply = res[q].d_supply
  BY <1>1, ListedAreLoaded
<1>3. b \in Nat /\ d \in Nat
  BY PoolConfigAssumption
<1>4. /\ e \in ReserveDatas /\ e.last_time = now /\ e.d_supply = d
      /\ e.backstop_credit = Loaded(q).backstop_credit
  BY <1>2, <1>3 DEF ReserveDatas
<1> HIDE DEF e
<1>5. /\ DOMAIN res = Listed /\ DOMAIN config = Listed /\ now \in Nat
      /\ list \in Seq(Reserves) /\ settings \in Settings /\ ValidSettings(settings)
  BY DEF ConfigInv
<1>6. /\ res'[q] = e /\ DOMAIN res' = Listed
      /\ \A r \in Listed \ {q} : res'[r] = res[r]
  BY <1>1, <1>5
<1>7. Listed' = Listed
  BY <1>1 DEF Listed
<1>8. Loaded(q)' = e
  BY <1>1, <1>4, <1>6, StoredIsLoaded
<1>9. \A r \in Listed : Loaded(r).backstop_credit \in Nat
  BY ListedAreLoaded DEF ReserveDatas
<1>10. d > 0 => config[q].l_factor > 0
  <2>1. res[q].d_supply \in Nat /\ (res[q].d_supply > 0 => config[q].l_factor > 0)
    BY <1>1 DEF ConfigInv, InUse, DebtCanBeValued, ReserveDatas
  <2> QED BY <1>1, <1>2, <1>3, <2>1
<1>11. ASSUME NEW r \in Listed
       PROVE  /\ InUse(r)'
              /\ res'[r].d_supply > 0 => config'[r].l_factor > 0
              /\ Loaded(r)'.backstop_credit = Loaded(r).backstop_credit
  <2>1. InUse(r)
    BY DEF ConfigInv
  <2>2. CASE r = q
    <3>1. InUse(r)'
      BY <1>1, <1>4, <1>5, <1>6, <2>1, <2>2 DEF InUse
    <3> QED BY <1>1, <1>4, <1>6, <1>8, <1>10, <2>2, <3>1
  <2>3. CASE r # q
    <3>1. res'[r] = res[r]
      BY <1>6, <2>3
    <3>2. Left(r)
      BY <1>1, <3>1 DEF Left
    <3>3. InUse(r)'
      BY <1>1, <2>1, <3>1 DEF InUse
    <3>4. res'[r].d_supply > 0 => config'[r].l_factor > 0
      BY <1>1, <3>1 DEF ConfigInv, DebtCanBeValued
    <3> QED BY <3>2, <3>3, <3>4, LeftIsLoaded
  <2> QED BY <2>2, <2>3
<1>12. /\ DOMAIN notice' = DOMAIN queued'
       /\ \A r \in DOMAIN queued' : Announced(r)'
  BY <1>1, AnnouncementsStand
<1>13. /\ now' \in Nat /\ settings' \in Settings /\ ValidSettings(settings')
       /\ list' \in Seq(Reserves) /\ Listed \subseteq Listed'
       /\ DOMAIN config' = Listed' /\ DOMAIN res' = Listed' /\ lot' = lot
  BY <1>1, <1>5, <1>6, <1>7
<1>14. /\ \A r \in Listed' : InUse(r)'
       /\ \A r \in Listed' : res'[r].d_supply > 0 => config'[r].l_factor > 0
       /\ \A r \in Listed' : Loaded(r)'.backstop_credit \in Nat
       /\ \A r \in Listed : Loaded(r).backstop_credit <= Loaded(r)'.backstop_credit
  BY <1>7, <1>9, <1>11
<1> QED BY <1>12, <1>13, <1>14, ReservesStep

LEMMA NewInterestAuctionKeeps ==
  ASSUME ConfigInv, NewInterestAuction
  PROVE  ConfigInv'
<1> DEFINE earned == [r \in {r \in Listed : Loaded(r).backstop_credit > 0} |->
                        Loaded(r).backstop_credit]
<1>1. /\ lot' = earned
      /\ UNCHANGED <<now, settings, list, config, res>> /\ UNCHANGED <<queued, notice>>
  BY DEF NewInterestAuction
<1>2. Listed' = Listed
  BY <1>1 DEF Listed
<1>3. \A r : Loaded(r)' = Loaded(r)
  BY <1>1 DEF Loaded
<1>4. \A r \in Listed : Loaded(r).backstop_credit \in Nat
  BY ListedAreLoaded DEF ReserveDatas
<1>5. /\ DOMAIN lot' \subseteq Listed
      /\ \A r \in DOMAIN lot' : lot'[r] = Loaded(r).backstop_credit
  BY <1>1
<1> HIDE DEF earned
<1>6. /\ DOMAIN lot' \subseteq Listed'
      /\ \A r \in DOMAIN lot' : lot'[r] \in Nat
      /\ \A r \in DOMAIN lot' : lot'[r] <= Loaded(r)'.backstop_credit
  BY <1>2, <1>3, <1>4, <1>5
<1>7. InterestLotIsBacked'
  BY <1>6 DEF InterestLotIsBacked
<1>8. DebtCanBeValued'
  BY <1>1, <1>2 DEF ConfigInv, DebtCanBeValued
<1>9. \A r \in Listed' : InUse(r)'
  BY <1>1, <1>2 DEF ConfigInv, InUse
<1>10. /\ DOMAIN notice' = DOMAIN queued'
       /\ \A r \in DOMAIN queued' : Announced(r)'
  BY <1>1, AnnouncementsStand
<1> QED BY <1>1, <1>2, <1>6, <1>7, <1>8, <1>9, <1>10 DEF ConfigInv

LEMMA FillInterestAuctionKeeps ==
  ASSUME ConfigInv, FillInterestAuction
  PROVE  ConfigInv'
<1> DEFINE e(r) == [Loaded(r) EXCEPT !.backstop_credit = @ - lot[r]]
<1>1. /\ res' = [r \in DOMAIN res |-> IF r \in DOMAIN lot THEN e(r) ELSE res[r]]
      /\ lot' = Nothing
      /\ UNCHANGED <<now, settings, list, config>> /\ UNCHANGED <<queued, notice>>
  BY DEF FillInterestAuction
<1>2. /\ DOMAIN res = Listed /\ DOMAIN config = Listed /\ now \in Nat
      /\ list \in Seq(Reserves) /\ settings \in Settings /\ ValidSettings(settings)
  BY DEF ConfigInv
<1>3. Listed' = Listed
  BY <1>1 DEF Listed
<1>4. ASSUME NEW r \in DOMAIN lot
      PROVE  /\ e(r) \in ReserveDatas /\ e(r).last_time = now
             /\ e(r).d_supply = res[r].d_supply
  <2>1. r \in Listed /\ lot[r] \in Nat
    BY DEF ConfigInv
  <2>2. /\ Loaded(r) \in ReserveDatas /\ Loaded(r).last_time = now
        /\ Loaded(r).d_supply = res[r].d_supply
    BY <2>1, ListedAreLoaded
  <2>3. lot[r] <= Loaded(r).backstop_credit
    BY DEF ConfigInv, InterestLotIsBacked
  <2>4. Loaded(r).backstop_credit - lot[r] \in Nat
    BY <2>1, <2>2, <2>3 DEF ReserveDatas
  <2> QED BY <2>2, <2>4 DEF ReserveDatas
<1>5. ASSUME NEW r \in Listed
      PROVE  /\ InUse(r)'
             /\ res'[r].d_supply > 0 => config'[r].l_factor > 0
             /\ Loaded(r)'.backstop_credit \in Nat
  <2>1. InUse(r)
    BY DEF ConfigInv
  <2>2. res[r].d_supply > 0 => config[r].l_factor > 0
    BY DEF ConfigInv, DebtCanBeValued
  <2>3. CASE r \in DOMAIN lot
    <3>1. res'[r] = e(r)
      BY <1>1, <1>2, <2>3
    <3> HIDE DEF e
    <3>2. /\ res'[r] \in ReserveDatas /\ res'[r].last_time = now
          /\ res'[r].d_supply = res[r].d_supply
      BY <1>4, <2>3, <3>1
    <3>3. Loaded(r)' = res'[r]
      BY <1>1, <3>2, StoredIsLoaded
    <3>4. res'[r].backstop_credit \in Nat
      BY <3>2 DEF ReserveDatas
    <3>5. InUse(r)'
      BY <1>1, <1>2, <2>1, <3>2 DEF InUse
    <3> QED BY <1>1, <2>2, <3>2, <3>3, <3>4, <3>5
  <2>4. CASE r \notin DOMAIN lot
    <3>1. res'[r] = res[r]
      BY <1>1, <1>2, <2>4
    <3>2. Loaded(r)' = Loaded(r)
      BY <1>1, <3>1, LeftIsLoaded DEF Left
    <3>3. Loaded(r).backstop_credit \in Nat
      BY ListedAreLoaded DEF ReserveDatas
    <3>4. InUse(r)'
      BY <1>1, <2>1, <3>1 DEF InUse
    <3> QED BY <1>1, <2>2, <3>1, <3>2, <3>3, <3>4
  <2> QED BY <2>3, <2>4
<1>6. DOMAIN res' = Listed
  BY <1>1, <1>2
<1>7. /\ DOMAIN notice' = DOMAIN queued'
      /\ \A r \in DOMAIN queued' : Announced(r)'
  BY <1>1, AnnouncementsStand
<1>8. /\ now' \in Nat /\ settings' \in Settings /\ ValidSettings(settings')
      /\ list' \in Seq(Reserves) /\ Listed \subseteq Listed'
      /\ DOMAIN config' = Listed' /\ DOMAIN res' = Listed' /\ lot' = Nothing
  BY <1>1, <1>2, <1>3, <1>6
<1>9. /\ \A r \in Listed' : InUse(r)'
      /\ \A r \in Listed' : res'[r].d_supply > 0 => config'[r].l_factor > 0
      /\ \A r \in Listed' : Loaded(r)'.backstop_credit \in Nat
  BY <1>3, <1>5
<1> QED BY <1>7, <1>8, <1>9, ReservesStep

LEMMA TickKeeps ==
  ASSUME ConfigInv, Tick
  PROVE  ConfigInv'
<1>1. /\ now' = now + 1 /\ UNCHANGED <<settings, list, config, res, lot>>
      /\ UNCHANGED <<queued, notice>>
  BY DEF Tick
<1>2. /\ DOMAIN res = Listed /\ DOMAIN config = Listed /\ now \in Nat
      /\ list \in Seq(Reserves) /\ settings \in Settings /\ ValidSettings(settings)
  BY DEF ConfigInv
<1>3. Listed' = Listed
  BY <1>1 DEF Listed
<1>4. ASSUME NEW r \in Listed
      PROVE  /\ InUse(r)'
             /\ res'[r].d_supply > 0 => config'[r].l_factor > 0
             /\ Loaded(r)'.backstop_credit \in Nat
             /\ Loaded(r).backstop_credit <= Loaded(r)'.backstop_credit
  <2>1. /\ res[r] \in ReserveDatas /\ config[r] \in ReserveConfigs
        /\ res[r].last_time <= now /\ res[r].last_time \in Nat
    BY DEF ConfigInv, InUse, ReserveDatas
  <2>2. settings.bstop_rate \in 0..(SCALAR_7 - 1) /\ now + 1 \in Nat /\ now <= now + 1
        /\ res[r].last_time <= now + 1
    BY <1>2, <2>1, RateIsShare
  <2>3. LoadReserve(res[r], config[r], settings.bstop_rate, now).backstop_credit
          <= LoadReserve(res[r], config[r], settings.bstop_rate, now + 1).backstop_credit
    BY <1>2, <2>1, <2>2, CreditGrowsWithTime
  <2>4. Updated(res[r], LoadReserve(res[r], config[r], settings.bstop_rate, now + 1), now + 1)
    BY <2>1, <2>2, LoadingUpdates
  <2>5. LoadReserve(res[r], config[r], settings.bstop_rate, now + 1).backstop_credit \in Nat
    BY <2>4 DEF Updated, ReserveDatas
  <2>6. Loaded(r)' = LoadReserve(res[r], config[r], settings.bstop_rate, now + 1)
    BY <1>1 DEF Loaded
  <2>7. InUse(r)'
    BY <1>1, <2>1, <2>2 DEF InUse
  <2>8. res'[r].d_supply > 0 => config'[r].l_factor > 0
    BY <1>1 DEF ConfigInv, DebtCanBeValued
  <2> QED BY <2>3, <2>5, <2>6, <2>7, <2>8 DEF Loaded
<1>5. /\ DOMAIN notice' = DOMAIN queued'
      /\ \A r \in DOMAIN queued' : Announced(r)'
  BY <1>1, AnnouncementsStand
<1>6. /\ now' \in Nat /\ settings' \in Settings /\ ValidSettings(settings')
      /\ list' \in Seq(Reserves) /\ Listed \subseteq Listed'
      /\ DOMAIN config' = Listed' /\ DOMAIN res' = Listed' /\ lot' = lot
  BY <1>1, <1>2, <1>3
<1>7. /\ \A r \in Listed' : InUse(r)'
      /\ \A r \in Listed' : res'[r].d_supply > 0 => config'[r].l_factor > 0
      /\ \A r \in Listed' : Loaded(r)'.backstop_credit \in Nat
      /\ \A r \in Listed : Loaded(r).backstop_credit <= Loaded(r)'.backstop_credit
  BY <1>3, <1>4
<1> QED BY <1>5, <1>6, <1>7, ReservesStep

---------------------------------------------------------------------------
(* A step that is neither an update of the pool nor a reserve's change     *)
(* leaves the settings and the configurations.                             *)
ConfigStands == UNCHANGED <<settings, list, config>>

LEMMA NextCases ==
  ASSUME [Next]_vars
  PROVE  \/ \E s \in Settings : UpdatePool(s)
         \/ \E r \in Reserves : SetReserve(r)
         \/ ConfigStands
<1>1. CASE Next
  <2>1. ASSUME NEW r \in Reserves, NEW m \in Metadata, QueueSetReserve(r, m)
        PROVE  ConfigStands
    BY <2>1 DEF QueueSetReserve, ConfigStands
  <2>2. ASSUME NEW r \in Reserves, CancelSetReserve(r)
        PROVE  ConfigStands
    BY <2>2 DEF CancelSetReserve, ConfigStands
  <2>3. ASSUME NEW r \in Reserves, NEW b \in Supplies, NEW d \in Owed, Business(r, b, d)
        PROVE  ConfigStands
    BY <2>3 DEF Business, ConfigStands
  <2>4. ASSUME NEW b \in BackstopLevels, UpdateStatus(b)
        PROVE  ConfigStands
    BY <2>4 DEF UpdateStatus, ConfigStands
  <2>5. ASSUME NEW b \in BackstopLevels, NEW s \in AdminStatuses, SetStatus(s, b)
        PROVE  ConfigStands
    BY <2>5 DEF SetStatus, ConfigStands
  <2>6. CASE NewInterestAuction
    BY <2>6 DEF NewInterestAuction, ConfigStands
  <2>7. CASE FillInterestAuction
    BY <2>7 DEF FillInterestAuction, ConfigStands
  <2>8. CASE Tick
    BY <2>8 DEF Tick, ConfigStands
  <2> QED BY Zenon, <1>1, <2>1, <2>2, <2>3, <2>4, <2>5, <2>6, <2>7, <2>8 DEF Next
<1>2. CASE UNCHANGED vars
  BY <1>2 DEF vars, ConfigStands
<1> QED BY <1>1, <1>2

LEMMA NextKeepsConfigInv == ConfigInv /\ [Next]_vars => ConfigInv'
<1> SUFFICES ASSUME ConfigInv, [Next]_vars PROVE ConfigInv'
  OBVIOUS
<1>1. CASE Next
  <2>1. ASSUME NEW s \in Settings, UpdatePool(s)
        PROVE  ConfigInv'
    BY <2>1, UpdatePoolKeeps
  <2>2. ASSUME NEW r \in Reserves, NEW m \in Metadata, QueueSetReserve(r, m)
        PROVE  ConfigInv'
    BY <2>2, QueueSetReserveKeeps
  <2>3. ASSUME NEW r \in Reserves, CancelSetReserve(r)
        PROVE  ConfigInv'
    BY <2>3, CancelSetReserveKeeps
  <2>4. ASSUME NEW r \in Reserves, SetReserve(r)
        PROVE  ConfigInv'
    BY <2>4, SetReserveKeeps
  <2>5. ASSUME NEW r \in Reserves, NEW b \in Supplies, NEW d \in Owed, Business(r, b, d)
        PROVE  ConfigInv'
    BY <2>5, BusinessKeeps
  <2>6. ASSUME NEW b \in BackstopLevels, UpdateStatus(b)
        PROVE  ConfigInv'
    BY <2>6, StatusKeeps DEF UpdateStatus
  <2>7. ASSUME NEW b \in BackstopLevels, NEW s \in AdminStatuses, SetStatus(s, b)
        PROVE  ConfigInv'
    BY <2>7, StatusKeeps DEF SetStatus
  <2>8. CASE NewInterestAuction
    BY <2>8, NewInterestAuctionKeeps
  <2>9. CASE FillInterestAuction
    BY <2>9, FillInterestAuctionKeeps
  <2>10. CASE Tick
    BY <2>10, TickKeeps
  <2> QED
    BY Zenon, <1>1, <2>1, <2>2, <2>3, <2>4, <2>5, <2>6, <2>7, <2>8, <2>9, <2>10 DEF Next
<1>2. CASE UNCHANGED vars
  BY <1>2, StatusKeeps DEF vars
<1> QED BY <1>1, <1>2

---------------------------------------------------------------------------
THEOREM ConfigInvHolds == Spec => []ConfigInv
<1>1. Init => ConfigInv
  BY InitConfig
<1>2. ConfigInv /\ [Next]_vars => ConfigInv'
  BY NextKeepsConfigInv
<1> QED BY <1>1, <1>2, PTL DEF Spec

(* The lot of an interest auction is never more than what has accrued,     *)
(* although it is not stored as a credit before the fill: fill_interest_   *)
(* auction cannot fail for want of it.                                     *)
THEOREM InterestLotsStayBacked == Spec => []InterestLotIsBacked
<1>1. ConfigInv => InterestLotIsBacked
  BY DEF ConfigInv
<1> QED BY <1>1, ConfigInvHolds, PTL

(* No sequence of queued, cancelled and applied changes leaves debt whose  *)
(* factor is 0, by which its value would be divided.                       *)
THEOREM DebtCanAlwaysBeValued == Spec => []DebtCanBeValued
<1>1. ConfigInv => DebtCanBeValued
  BY DEF ConfigInv
<1> QED BY <1>1, ConfigInvHolds, PTL

(* A change of the backstop's rate or of a reserve's configuration is      *)
(* preceded by the accrual of all the interest of the time before it.      *)
THEOREM ChangesAreNeverRetroactive == Spec => NoChangeIsRetroactive
<1> DEFINE Same == settings' # settings \/ config' # config =>
                     \A r \in Listed : Accrued(Loaded(r)') = Accrued(Loaded(r))
<1>1. ConfigInv /\ [Next]_vars => Same
  <2> SUFFICES ASSUME ConfigInv, [Next]_vars PROVE Same
    OBVIOUS
  <2>1. ASSUME NEW s \in Settings, UpdatePool(s)
        PROVE  Same
    <3>1. \A r \in Listed : Loaded(r)' = Loaded(r)
      BY <2>1, UpdatePoolKeeps
    <3> QED BY <3>1
  <2>2. ASSUME NEW r \in Reserves, SetReserve(r)
        PROVE  Same
    <3>1. \A t \in Listed : Accrued(Loaded(t)') = Accrued(Loaded(t))
      BY <2>2, SetReserveKeeps
    <3> QED BY <3>1
  <2>3. CASE ConfigStands
    BY <2>3 DEF ConfigStands
  <2> QED BY <2>1, <2>2, <2>3, NextCases
<1>2. Same => [Same]_vars
  OBVIOUS
<1>3. ConfigInv /\ [Next]_vars => [Same]_vars
  BY <1>1
<1> HIDE DEF Same
<1>4. Spec => [][Same]_vars
  BY <1>3, ConfigInvHolds, PTL DEF Spec
<1> QED BY <1>4 DEF NoChangeIsRetroactive, Same

(* Whatever is listed or reconfigured was announced, as it is, a week      *)
(* before or while the pool was in Setup.                                  *)
THEOREM EveryChangeIsAnnounced == Spec => ChangesAreAnnounced
<1> DEFINE A == \A r \in Listed' :
                  (r \in Listed => config'[r] # config[r]) =>
                    /\ r \in DOMAIN notice
                    /\ notice[r].of = config'[r]
                    /\ notice[r].setup \/ notice[r].at + SECONDS_PER_WEEK <= now
<1>1. ConfigInv /\ [Next]_vars => A
  <2> SUFFICES ASSUME ConfigInv, [Next]_vars PROVE A
    OBVIOUS
  <2>1. ASSUME NEW s \in Settings, UpdatePool(s)
        PROVE  A
    BY <2>1 DEF UpdatePool, Listed
  <2>2. ASSUME NEW q \in Reserves, SetReserve(q)
        PROVE  A
    <3>1. /\ Listed' = Listed \cup {q}
          /\ config'[q] = queued[q].new_config
          /\ q \in DOMAIN queued /\ queued[q].unlock_time <= now
          /\ \A r \in Listed \ {q} : config'[r] = config[r]
      BY <2>2, ReserveIsSet
    <3>2. q \in DOMAIN notice /\ Announced(q) /\ now \in Nat
      BY <3>1 DEF ConfigInv
    <3>3. /\ notice[q].of = config'[q]
          /\ notice[q].setup \/ notice[q].at + SECONDS_PER_WEEK <= now
      BY <3>1, <3>2, PoolConfigAssumption DEF Announced
    <3> QED BY <3>1, <3>2, <3>3
  <2>3. CASE ConfigStands
    BY <2>3 DEF ConfigStands, Listed
  <2> QED BY <2>1, <2>2, <2>3, NextCases
<1>2. ConfigInv /\ [Next]_vars => [A]_vars
  BY <1>1
<1> HIDE DEF A
<1>3. Spec => [][A]_vars
  BY <1>2, ConfigInvHolds, PTL DEF Spec
<1> QED BY <1>3 DEF ChangesAreAnnounced, A
=============================================================================
