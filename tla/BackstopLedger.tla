--------------------------- MODULE BackstopLedger ---------------------------
(***************************************************************************)
(* The backstop's deposits: for each pool the tokens that insure it and    *)
(* the shares of its depositors, and for each depositor the queue of       *)
(* shares waiting to be withdrawn (backstop/src/backstop/*.rs and the part *)
(* of emissions/claim.rs that deposits what was claimed).                  *)
(*                                                                         *)
(* Every operation is one contract call, which the host runs alone, so     *)
(* each is one action.  What surrounds the ledger, the pools' bad debt,    *)
(* the emissions that are claimed and the tokens the exchange pays for     *)
(* them, is chosen nondeterministically.                                   *)
(***************************************************************************)
EXTENDS FixedPoint, FiniteSets, Sequences, Totals

CONSTANTS
  Pools,             \* the addresses deposits are made for
  Deployed,          \* those of them that the pool factory deployed
  Users,             \* the depositors, none of them a pool or the backstop
  MAX_Q4W_SIZE,      \* 20: the entries of one queue
  Q4W_LOCK_TIME,     \* 17 days: how long a queued share waits
  \* Bounds of the inputs and of the run:
  Amounts,           \* the amounts of tokens or shares in calls
  Claims,            \* the emissions claimed of one pool
  LpOuts,            \* the tokens a claim is exchanged for
  TokenSupply,       \* the tokens that exist
  MaxShares,         \* the shares of one pool
  MaxTime            \* the time the run lasts

ASSUME BackstopLedgerAssumption ==
  /\ IsFiniteSet(Pools) /\ IsFiniteSet(Users)
  /\ Deployed \subseteq Pools
  /\ MAX_Q4W_SIZE \in Nat /\ Q4W_LOCK_TIME \in Nat
  /\ Amounts \subseteq Nat /\ Claims \subseteq Nat /\ LpOuts \subseteq Nat
  /\ {TokenSupply, MaxShares, MaxTime} \subseteq Nat

VARIABLES
  now,        \* the ledger's timestamp
  poolBal,    \* the PoolBalance of each pool
  userBal,    \* the UserBalance of each user in each pool
  lp,         \* the backstop's balance of backstop tokens
  badDebt     \* external: whether a pool records debt of the backstop

vars == <<now, poolBal, userBal, lp, badDebt>>

---------------------------------------------------------------------------
Q4W          == [amount : Nat, exp : Nat]
UserBalances == [shares : Nat, q4w : Seq(Q4W)]
PoolBalances == [shares : Nat, tokens : Nat, q4w : Nat]

TypeOK ==
  /\ now \in 0..MaxTime
  /\ poolBal \in [Pools -> PoolBalances]
  /\ userBal \in [Pools -> [Users -> UserBalances]]
  /\ lp \in Nat
  /\ badDebt \in [Pools -> BOOLEAN]

Init ==
  /\ now = 0
  /\ poolBal = [p \in Pools |-> [shares |-> 0, tokens |-> 0, q4w |-> 0]]
  /\ userBal = [p \in Pools |-> [u \in Users |-> [shares |-> 0, q4w |-> <<>>]]]
  /\ lp = 0
  /\ badDebt \in [Pools -> BOOLEAN]

---------------------------------------------------------------------------
\* Mutant: rounded up.
ConvertToSharesUp(b, tokens) ==
  IF b.shares = 0 THEN tokens
  ELSE IF b.tokens = 0 THEN 0
  ELSE MulCeil(tokens, b.shares, b.tokens)

ConvertToShares(b, tokens) ==
  IF b.shares = 0 THEN tokens
  ELSE IF b.tokens = 0 THEN 0
  ELSE MulFloor(tokens, b.shares, b.tokens)

\* Mutant: divides before it multiplies.
ConvertToTokensCoarse(b, shares) ==
  IF b.shares = 0 THEN 0 ELSE shares * (b.tokens \div b.shares)

ConvertToTokens(b, shares) ==
  IF b.shares = 0 THEN 0
  ELSE IF b.shares = shares THEN b.tokens
  ELSE MulFloor(shares, b.tokens, b.shares)

(* The shares in entries i to j of a queue.                                *)
Queued(q, i, j) == Total([k \in i..j |-> q[k].amount])

(* An entry of which `left` shares remain; none if it is used up.          *)
Rest(entry, left) ==
  IF left = 0 THEN <<>> ELSE <<[entry EXCEPT !.amount = left]>>

(* withdraw_shares takes entries from the front, oldest first, until they  *)
(* hold the amount: the first TakenFront(q, a) of them.                    *)
EnoughFront(q, a) == {k \in 1..Len(q) : Queued(q, 1, k) >= a}
TakenFront(q, a)  == CHOOSE k \in EnoughFront(q, a) :
                       \A j \in EnoughFront(q, a) : k <= j

\* Mutant: what is left of the last entry goes to the back.
AfterWithdrawalPushBack(q, a) ==
  LET k == TakenFront(q, a)
  IN  SubSeq(q, k + 1, Len(q)) \o Rest(q[k], Queued(q, 1, k) - a)

AfterWithdrawal(q, a) ==
  LET k == TakenFront(q, a)
  IN  Rest(q[k], Queued(q, 1, k) - a) \o SubSeq(q, k + 1, Len(q))

\* Mutant: only the first entry must have expired.
MayWithdrawFirst(q, a) == EnoughFront(q, a) # {} /\ q[1].exp <= now

MayWithdrawShares(q, a) ==
  /\ EnoughFront(q, a) # {}
  /\ \A i \in 1..TakenFront(q, a) : q[i].exp <= now

(* dequeue_shares takes entries from the back, newest first: those from    *)
(* TakenBack(q, a) on.  Of an empty queue it takes nothing.                *)
EnoughBack(q, a) == {k \in 1..Len(q) : Queued(q, k, Len(q)) >= a}
TakenBack(q, a)  == CHOOSE k \in EnoughBack(q, a) :
                      \A j \in EnoughBack(q, a) : j <= k

MayDequeueShares(q, a) == EnoughBack(q, a) # {} \/ a = 0

\* Mutant: an entry is dequeued in full.
AfterDequeueWhole(q, a) ==
  IF q = <<>> THEN q ELSE SubSeq(q, 1, TakenBack(q, a) - 1)

AfterDequeue(q, a) ==
  LET k == TakenBack(q, a)
  IN  IF q = <<>> THEN q
      ELSE SubSeq(q, 1, k - 1) \o Rest(q[k], Queued(q, k, Len(q)) - a)

\* Mutant: the condition is inverted.
IsPoolIfFunded(p, b) == b.shares > 0 => p \in Deployed

(* require_is_from_pool_factory: a pool with shares was verified before.   *)
IsPool(p, b) == b.shares = 0 => p \in Deployed

---------------------------------------------------------------------------
(* PoolBalance::deposit and UserBalance::add_shares.                       *)
Joining(b, tokens, shares) ==
  [b EXCEPT !.tokens = @ + tokens, !.shares = @ + shares]

AddShares(b, shares) == [b EXCEPT !.shares = @ + shares]

Deposit(u, p, a) ==
  LET minted == ConvertToShares(poolBal[p], a)
  IN  /\ IsPool(p, poolBal[p])
      /\ lp + a <= TokenSupply
      /\ minted > 0
      /\ poolBal[p].shares + minted <= MaxShares
      /\ poolBal' = [poolBal EXCEPT ![p] = Joining(@, a, minted)]
      /\ userBal' = [userBal EXCEPT ![p][u] = AddShares(@, minted)]
      /\ lp' = lp + a
      /\ UNCHANGED <<now, badDebt>>

\* Mutant: the shares are not asked for.
MayQueueAny(b, a) == Len(b.q4w) < MAX_Q4W_SIZE

MayQueue(b, a) == b.shares >= a /\ Len(b.q4w) < MAX_Q4W_SIZE

QueueWithdrawal(u, p, a) ==
  /\ MayQueue(userBal[p][u], a)
  /\ userBal' = [userBal EXCEPT ![p][u] =
       [shares |-> @.shares - a,
        q4w    |-> Append(@.q4w, [amount |-> a, exp |-> now + Q4W_LOCK_TIME])]]
  /\ poolBal' = [poolBal EXCEPT ![p].q4w = @ + a]
  /\ UNCHANGED <<now, lp, badDebt>>

DequeueWithdrawal(u, p, a) ==
  /\ MayDequeueShares(userBal[p][u].q4w, a)
  /\ a <= poolBal[p].q4w
  /\ userBal' = [userBal EXCEPT ![p][u] =
       [shares |-> @.shares + a, q4w |-> AfterDequeue(@.q4w, a)]]
  /\ poolBal' = [poolBal EXCEPT ![p].q4w = @ - a]
  /\ UNCHANGED <<now, lp, badDebt>>

(* PoolBalance::withdraw.                                                  *)
MayLeave(b, tokens, shares) ==
  tokens <= b.tokens /\ shares <= b.shares /\ shares <= b.q4w

Leaving(b, tokens, shares) ==
  [shares |-> b.shares - shares, tokens |-> b.tokens - tokens, q4w |-> b.q4w - shares]

Withdraw(u, p, a) ==
  LET tokens == ConvertToTokens(poolBal[p], a)
  IN  /\ ~badDebt[p]
      /\ MayWithdrawShares(userBal[p][u].q4w, a)
      /\ tokens # 0
      /\ MayLeave(poolBal[p], tokens, a)
      /\ tokens <= lp
      /\ userBal' = [userBal EXCEPT ![p][u].q4w = AfterWithdrawal(@, a)]
      /\ poolBal' = [poolBal EXCEPT ![p] = Leaving(@, tokens, a)]
      /\ lp' = lp - tokens
      /\ UNCHANGED <<now, badDebt>>

(* A pool draws on its depositors to cover bad debt, somebody taking over  *)
(* all or part of it in the same call, and gets donations from its         *)
(* interest auctions; anyone else may donate too.                          *)
Draw(p, a) ==
  /\ MayLeave(poolBal[p], a, 0)
  /\ a <= lp
  /\ poolBal' = [poolBal EXCEPT ![p] = Leaving(@, a, 0)]
  /\ lp' = lp - a
  /\ \E owes \in BOOLEAN : badDebt' = [badDebt EXCEPT ![p] = owes]
  /\ UNCHANGED <<now, userBal>>

Donate(p, a) ==
  /\ IsPool(p, poolBal[p])
  /\ lp + a <= TokenSupply
  /\ poolBal' = [poolBal EXCEPT ![p] = Joining(@, a, 0)]
  /\ lp' = lp + a
  /\ UNCHANGED <<now, userBal, badDebt>>

(* claim: the emissions claimed of several pools, claims[p] of pool p, are *)
(* exchanged at once for `out` tokens, which are deposited for the user in *)
(* proportion.  Unlike a deposit, one that mints no share is not refused.  *)
\* Mutant: rounded up.
ShareUp(claims, out, p) == MulCeil(out, claims[p], Total(claims))

Share(claims, out, p) == MulFloor(out, claims[p], Total(claims))

ClaimDeposit(u, claims, out) ==
  LET minted(p) == ConvertToShares(poolBal[p], Share(claims, out, p))
  IN  /\ Total(claims) > 0
      /\ lp + out <= TokenSupply
      /\ \A p \in Pools : poolBal[p].shares + minted(p) <= MaxShares
      /\ poolBal' = [p \in Pools |->
           Joining(poolBal[p], Share(claims, out, p), minted(p))]
      /\ userBal' = [p \in Pools |->
           [userBal[p] EXCEPT ![u] = AddShares(@, minted(p))]]
      /\ lp' = lp + out
      /\ UNCHANGED <<now, badDebt>>

(* What the rest of the system does.  Emissions accrue only to pools the   *)
(* factory deployed.                                                       *)
PossibleClaims == {c \in [Pools -> Claims \cup {0}] : \A p \in Pools \ Deployed : c[p] = 0}

DebtChanges(p) ==
  /\ badDebt' = [badDebt EXCEPT ![p] = ~@]
  /\ UNCHANGED <<now, poolBal, userBal, lp>>

Tick ==
  /\ now < MaxTime
  /\ now' = now + 1
  /\ UNCHANGED <<poolBal, userBal, lp, badDebt>>

Next ==
  \/ \E p \in Pools, a \in Amounts :
       \/ \E u \in Users : \/ Deposit(u, p, a)
                           \/ QueueWithdrawal(u, p, a)
                           \/ DequeueWithdrawal(u, p, a)
                           \/ Withdraw(u, p, a)
       \/ Draw(p, a)
       \/ Donate(p, a)
  \/ \E u \in Users, claims \in PossibleClaims, out \in LpOuts :
       ClaimDeposit(u, claims, out)
  \/ \E p \in Pools : DebtChanges(p)
  \/ Tick

Spec == Init /\ [][Next]_vars

---------------------------------------------------------------------------
QueuedOf(b) == Queued(b.q4w, 1, Len(b.q4w))
OwnedOf(b)  == b.shares + QueuedOf(b)

(* Share conservation: a pool's shares are its depositors', queued or not, *)
(* and its q4w is what they queued, however partial withdrawals and        *)
(* dequeues split the entries.  Hence the pool's own checks never refuse   *)
(* what a depositor's balance allows.                                      *)
SharesAddUp ==
  \A p \in Pools :
    /\ poolBal[p].shares = Total([u \in Users |-> OwnedOf(userBal[p][u])])
    /\ poolBal[p].q4w = Total([u \in Users |-> QueuedOf(userBal[p][u])])

(* The tokens all pools account for are there: a draw or a withdrawal of   *)
(* one pool never takes the tokens of another, and what claims round off   *)
(* stays with the backstop.                                                *)
TokensAreHeld == Total([p \in Pools |-> poolBal[p].tokens]) <= lp

(* Queues are in order of expiry, which taking them from the front relies  *)
(* on, no entry waits longer than the lock time, and none has more entries *)
(* than a withdrawal is meant to walk.                                     *)
QueuesAreOrdered ==
  \A p \in Pools, u \in Users :
    LET q == userBal[p][u].q4w
    IN  /\ Len(q) <= MAX_Q4W_SIZE
        /\ \A i, j \in 1..Len(q) : i <= j => q[i].exp <= q[j].exp
        /\ \A i \in 1..Len(q) : q[i].exp <= now + Q4W_LOCK_TIME

(* An address the pool factory does not know never gets shares or tokens,  *)
(* although draws, donations and queueing do not all ask the factory.      *)
StrangersHoldNothing ==
  \A p \in Pools \ Deployed :
    poolBal[p] = [shares |-> 0, tokens |-> 0, q4w |-> 0]

(* Of the shares still locked none ever leaves: what a depositor loses in  *)
(* one step had expired, and the unexpired entries stay as they are, in    *)
(* their places counted from the back.                                     *)
Locked(q)  == {<<Len(q) - i, q[i]>> : i \in {j \in 1..Len(q) : q[j].exp > now}}
Expired(q) == Total([i \in {i \in 1..Len(q) : q[i].exp <= now} |-> q[i].amount])

OnlyExpiredSharesLeave ==
  [][\A p \in Pools, u \in Users :
       LET before == userBal[p][u]
           after  == userBal'[p][u]
       IN  OwnedOf(after) < OwnedOf(before) =>
             /\ OwnedOf(before) - OwnedOf(after) <= Expired(before.q4w)
             /\ Locked(after.q4w) = Locked(before.q4w)]_userBal

(* No deposit, withdrawal or claim dilutes the depositors: a share's part  *)
(* of the tokens falls only when the pool draws on them.                   *)
OnlyDrawsCostDepositors ==
  [][\A p \in Pools :
       /\ poolBal[p].shares > 0 /\ poolBal'[p].shares > 0
       /\ poolBal'[p].tokens * poolBal[p].shares
            < poolBal[p].tokens * poolBal'[p].shares
       => poolBal'[p].shares = poolBal[p].shares]_poolBal

(* The last depositor to leave takes all the tokens: none are stranded in  *)
(* a pool without shares, for the next depositor to find.                  *)
LastOneTakesAll ==
  [][\A p \in Pools :
       poolBal[p].shares > 0 /\ poolBal'[p].shares = 0
         => poolBal'[p].tokens = 0]_poolBal
===========================================================================
