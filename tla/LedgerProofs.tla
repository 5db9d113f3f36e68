---------------------------- MODULE LedgerProofs ----------------------------
(***************************************************************************)
(* Theorems about the backstop's ledger, for every set of pools and users, *)
(* every lock time and size of the queues and every amount in the calls:   *)
(* the invariants and the action properties that the runs check.           *)
(*                                                                         *)
(* First what taking shares from either end of a queue does to its sum,    *)
(* its order and its entries; then one lemma for each operation and        *)
(* invariant.                                                              *)
(***************************************************************************)
EXTENDS BackstopLedger, ArithmeticProofs, SequenceTheorems, TLAPS

---------------------------------------------------------------------------
(* Sums over the entries of a queue.                                       *)
LEMMA EntriesOfQueue ==
  ASSUME NEW q \in Seq(Q4W)
  PROVE  /\ Len(q) \in Nat
         /\ \A k \in 1..Len(q) : /\ q[k] \in Q4W
                                 /\ q[k].amount \in Nat /\ q[k].exp \in Nat
<1>1. Len(q) \in Nat
  BY LenProperties
<1>2. \A k \in 1..Len(q) : q[k] \in Q4W
  BY ElementOfSeq
<1> QED BY <1>1, <1>2 DEF Q4W

LEMMA QueuedIsNat ==
  ASSUME NEW q \in Seq(Q4W), NEW i \in 1..Len(q) + 1, NEW j \in 0..Len(q)
  PROVE  /\ Queued(q, i, j) \in Nat
         /\ IsFiniteSet(i..j)
         /\ [k \in i..j |-> q[k].amount] \in [i..j -> Nat]
<1>1. Len(q) \in Nat /\ \A k \in 1..Len(q) : q[k].amount \in Nat
  BY EntriesOfQueue
<1>2. IsFiniteSet(i..j)
  BY <1>1, FS_Interval
<1>3. [k \in i..j |-> q[k].amount] \in [i..j -> Nat]
  BY <1>1
<1> QED BY <1>2, <1>3, TotalIsCount DEF Queued

LEMMA QueuedOfNone ==
  ASSUME NEW q, NEW i \in Int, NEW j \in Int, j < i
  PROVE  Queued(q, i, j) = 0
<1>1. i..j = {}
  OBVIOUS
<1>2. IsFiniteSet({}) /\ [k \in {} |-> q[k].amount] \in [{} -> Nat]
  BY FS_EmptySet
<1>3. Total([k \in {} |-> q[k].amount]) = 0
  BY <1>2, TotalOfZeros
<1> QED BY <1>1, <1>3 DEF Queued

LEMMA QueuedOfOne ==
  ASSUME NEW q \in Seq(Q4W), NEW i \in 1..Len(q)
  PROVE  Queued(q, i, i) = q[i].amount
<1>1. q[i].amount \in Nat /\ i \in Int
  BY EntriesOfQueue
<1>2. i..i = {i}
  BY <1>1
<1> DEFINE f == [k \in {i} |-> q[k].amount]
<1>3. f \in [{i} -> Nat] /\ f[i] = q[i].amount
  BY <1>1
<1> HIDE DEF f
<1>4. Total(f) = f[i]
  BY <1>3, TotalOfOne
<1> QED BY <1>2, <1>3, <1>4 DEF f, Queued

(* A stretch of a queue is two stretches.                                  *)
LEMMA QueuedSplit ==
  ASSUME NEW q \in Seq(Q4W), NEW i \in 1..Len(q) + 1, NEW j \in 0..Len(q),
         NEW k \in (i - 1)..j
  PROVE  Queued(q, i, j) = Queued(q, i, k) + Queued(q, k + 1, j)
<1>1. Len(q) \in Nat
  BY EntriesOfQueue
<1> DEFINE f == [m \in i..j |-> q[m].amount]
<1>2. f \in [i..j -> Nat] /\ IsFiniteSet(i..j)
  BY QueuedIsNat
<1>3. i..k \subseteq i..j /\ (i..j) \ (i..k) = (k + 1)..j
  BY <1>1
<1>4. /\ [m \in i..k |-> f[m]] = [m \in i..k |-> q[m].amount]
      /\ [m \in (k + 1)..j |-> f[m]] = [m \in (k + 1)..j |-> q[m].amount]
  BY <1>3
<1> HIDE DEF f
<1>5. Total(f) = Total([m \in i..k |-> f[m]]) + Total([m \in (i..j) \ (i..k) |-> f[m]])
  BY <1>2, <1>3, TotalSplit
<1> QED BY <1>3, <1>4, <1>5 DEF f, Queued

(* Equal amounts, d entries further on, have equal sums.                   *)
LEMMA QueuedShift ==
  ASSUME NEW p \in Seq(Q4W), NEW q \in Seq(Q4W),
         NEW i \in 1..Len(p) + 1, NEW j \in 0..Len(p), NEW d \in Int,
         i + d \in 1..Len(q) + 1, j + d \in 0..Len(q),
         \A k \in i..j : q[k + d].amount = p[k].amount
  PROVE  Queued(q, i + d, j + d) = Queued(p, i, j)
<1>1. Len(p) \in Nat /\ Len(q) \in Nat
  BY EntriesOfQueue
<1> DEFINE f == [k \in i..j |-> p[k].amount]
           g == [k \in (i + d)..(j + d) |-> q[k].amount]
           move == [k \in i..j |-> k + d]
<1>2. /\ f \in [i..j -> Nat] /\ IsFiniteSet(i..j)
      /\ g \in [(i + d)..(j + d) -> Nat] /\ IsFiniteSet((i + d)..(j + d))
  BY QueuedIsNat
<1>3. move \in Bijection(i..j, (i + d)..(j + d))
  <2>1. move \in [i..j -> (i + d)..(j + d)]
    BY <1>1
  <2>2. \A k, m \in i..j : move[k] = move[m] => k = m
    BY <1>1
  <2>3. ASSUME NEW m \in (i + d)..(j + d)
        PROVE  \E k \in i..j : move[k] = m
    <3>1. m - d \in i..j /\ (m - d) + d = m
      BY <1>1
    <3> QED BY <3>1
  <2> HIDE DEF move
  <2> QED BY <2>1, <2>2, <2>3 DEF Bijection, Injection, Surjection, IsInjective
<1>4. \A k \in i..j : g[move[k]] = f[k]
  BY <1>1
<1> DEFINE D == i..j
           E == (i + d)..(j + d)
<1>5. Total(g) = Total(f)
  <2>1. /\ IsFiniteSet(D) /\ f \in [D -> Nat] /\ IsFiniteSet(E) /\ g \in [E -> Nat]
        /\ move \in Bijection(D, E) /\ \A k \in D : g[move[k]] = f[k]
    BY <1>2, <1>3, <1>4
  <2> HIDE DEF f, g, move, D, E
  <2> QED BY <2>1, TotalRenamed, SMTT(60)
<1> HIDE DEF f, g
<1>6. Total(f) = Queued(p, i, j) /\ Total(g) = Queued(q, i + d, j + d)
  BY DEF f, g, Queued
<1> QED BY <1>5, <1>6

(* A queue put after another.                                              *)
LEMMA QueuedOfConcat ==
  ASSUME NEW p \in Seq(Q4W), NEW q \in Seq(Q4W)
  PROVE  /\ p \o q \in Seq(Q4W)
         /\ Queued(p \o q, 1, Len(p \o q))
              = Queued(p, 1, Len(p)) + Queued(q, 1, Len(q))
<1> DEFINE s == p \o q
<1>1. /\ s \in Seq(Q4W) /\ Len(s) = Len(p) + Len(q)
      /\ \A i \in 1..Len(p) : s[i] = p[i]
      /\ \A i \in 1..Len(q) : s[i + Len(p)] = q[i]
      /\ Len(p) \in Nat /\ Len(q) \in Nat
  <2>1. Len(p) \in Nat /\ Len(q) \in Nat
    BY EntriesOfQueue
  <2>2. /\ s \in Seq(Q4W) /\ Len(s) = Len(p) + Len(q)
        /\ \A i \in 1..Len(p) + Len(q) :
             s[i] = IF i <= Len(p) THEN p[i] ELSE q[i - Len(p)]
    BY ConcatProperties
  <2> HIDE DEF s
  <2>3. ASSUME NEW i \in 1..Len(q)
        PROVE  s[i + Len(p)] = q[i]
    <3>1. i + Len(p) \in 1..Len(p) + Len(q) /\ ~(i + Len(p) <= Len(p))
          /\ i + Len(p) - Len(p) = i
      BY <2>1
    <3> QED BY <2>2, <3>1
  <2> QED BY <2>1, <2>2, <2>3
<1> HIDE DEF s
<1>2. Queued(s, 1, Len(s)) = Queued(s, 1, Len(p)) + Queued(s, Len(p) + 1, Len(s))
  <2>1. 1 \in 1..Len(s) + 1 /\ Len(s) \in 0..Len(s) /\ Len(p) \in (1 - 1)..Len(s)
    BY <1>1
  <2> QED BY <1>1, <2>1, QueuedSplit
<1>3. Queued(s, 1 + 0, Len(p) + 0) = Queued(p, 1, Len(p))
  <2>1. /\ 1 \in 1..Len(p) + 1 /\ Len(p) \in 0..Len(p) /\ 0 \in Int
        /\ 1 + 0 \in 1..Len(s) + 1 /\ Len(p) + 0 \in 0..Len(s)
    BY <1>1
  <2>2. \A k \in 1..Len(p) : s[k + 0].amount = p[k].amount
    BY <1>1
  <2> QED BY <1>1, <2>1, <2>2, QueuedShift
<1>4. Queued(s, 1 + Len(p), Len(q) + Len(p)) = Queued(q, 1, Len(q))
  <2>1. /\ 1 \in 1..Len(q) + 1 /\ Len(q) \in 0..Len(q) /\ Len(p) \in Int
        /\ 1 + Len(p) \in 1..Len(s) + 1 /\ Len(q) + Len(p) \in 0..Len(s)
    BY <1>1
  <2>2. \A k \in 1..Len(q) : s[k + Len(p)].amount = q[k].amount
    BY <1>1
  <2> QED BY <1>1, <2>1, <2>2, QueuedShift
<1> QED BY <1>1, <1>2, <1>3, <1>4 DEF s

(* Some entries of a queue.                                                *)
LEMMA QueuedOfPart ==
  ASSUME NEW q \in Seq(Q4W), NEW i \in 1..Len(q) + 1, NEW j \in (i - 1)..Len(q)
  PROVE  /\ SubSeq(q, i, j) \in Seq(Q4W)
         /\ Len(SubSeq(q, i, j)) = j - i + 1
         /\ \A k \in 1..j - i + 1 : SubSeq(q, i, j)[k] = q[k + i - 1]
         /\ Queued(SubSeq(q, i, j), 1, Len(SubSeq(q, i, j))) = Queued(q, i, j)
<1> DEFINE s == SubSeq(q, i, j)
<1>1. Len(q) \in Nat /\ \A k \in 1..Len(q) : q[k] \in Q4W
  BY EntriesOfQueue
<1>2. i \in Int /\ j \in Int /\ \A k \in i..j : q[k] \in Q4W
  BY <1>1
<1>3. /\ s \in Seq(Q4W) /\ Len(s) = IF i <= j THEN j - i + 1 ELSE 0
      /\ \A k \in 1..j - i + 1 : s[k] = q[i + k - 1]
  BY <1>2, SubSeqProperties
<1> HIDE DEF s
<1>4. Len(s) = j - i + 1 /\ \A k \in 1..j - i + 1 : s[k] = q[k + i - 1]
  BY <1>1, <1>2, <1>3
<1>5. Queued(q, 1 + (i - 1), Len(s) + (i - 1)) = Queued(s, 1, Len(s))
  <2>1. /\ Len(s) \in Nat /\ 1 \in 1..Len(s) + 1 /\ Len(s) \in 0..Len(s) /\ i - 1 \in Int
        /\ 1 + (i - 1) \in 1..Len(q) + 1 /\ Len(s) + (i - 1) \in 0..Len(q)
    BY <1>1, <1>4
  <2>2. \A k \in 1..Len(s) : q[k + (i - 1)].amount = s[k].amount
    BY <1>1, <1>2, <1>4
  <2> QED BY <1>3, <2>1, <2>2, QueuedShift
<1>6. 1 + (i - 1) = i /\ Len(s) + (i - 1) = j
  BY <1>1, <1>4
<1> QED BY <1>3, <1>4, <1>5, <1>6 DEF s

(* What remains of an entry.                                               *)
LEMMA QueuedOfRest ==
  ASSUME NEW e \in Q4W, NEW left \in Nat
  PROVE  /\ Rest(e, left) \in Seq(Q4W)
         /\ Len(Rest(e, left)) = IF left = 0 THEN 0 ELSE 1
         /\ \A i \in 1..Len(Rest(e, left)) : i = 1 /\ Rest(e, left)[i].exp = e.exp
         /\ Queued(Rest(e, left), 1, Len(Rest(e, left))) = left
<1> DEFINE r == Rest(e, left)
<1> SUFFICES /\ r \in Seq(Q4W)
             /\ Len(r) = IF left = 0 THEN 0 ELSE 1
             /\ \A i \in 1..Len(r) : i = 1 /\ r[i].exp = e.exp
             /\ Queued(r, 1, Len(r)) = left
  OBVIOUS
<1>1. CASE left = 0
  <2>1. r = <<>> /\ Len(<<>>) = 0 /\ <<>> \in Seq(Q4W)
    BY <1>1, EmptySeq DEF Rest
  <2> HIDE DEF r
  <2>2. Queued(r, 1, 0) = 0
    BY QueuedOfNone
  <2> QED BY <1>1, <2>1, <2>2
<1>2. CASE left # 0
  <2> DEFINE x == [e EXCEPT !.amount = left]
  <2>1. r = <<x>>
    BY <1>2 DEF Rest
  <2>2. x \in Q4W /\ x.amount = left /\ x.exp = e.exp
    BY DEF Q4W
  <2> HIDE DEF x, r
  <2>3. r \in Seq(Q4W) /\ Len(r) = 1 /\ r[1] = x
    BY <2>1, <2>2
  <2>4. Queued(r, 1, 1) = left
    <3>1. 1 \in 1..Len(r) /\ r[1].amount = left
      BY <2>2, <2>3
    <3> QED BY <2>3, <3>1, QueuedOfOne
  <2> QED BY <1>2, <2>2, <2>3, <2>4
<1> QED BY <1>1, <1>2

(* Taking shares from the front.  The first s entries are gone, the others *)
(* are as they were, but that the first of them may be the rest of the     *)
(* last entry drawn on; and exactly the amount has left.                   *)
LEMMA WithdrawalTakesFront ==
  ASSUME NEW q \in Seq(Q4W), NEW a \in Nat, EnoughFront(q, a) # {}
  PROVE  LET k == TakenFront(q, a)
             r == AfterWithdrawal(q, a)
         IN  /\ k \in 1..Len(q) /\ a <= Queued(q, 1, k)
             /\ r \in Seq(Q4W)
             /\ Queued(r, 1, Len(r)) = Queued(q, 1, Len(q)) - a
             /\ \E s \in {k - 1, k} :
                  /\ Len(r) = Len(q) - s
                  /\ \A i \in 1..Len(r) :
                       /\ r[i].exp = q[i + s].exp
                       /\ i + s > k => r[i] = q[i + s]
<1> DEFINE E == EnoughFront(q, a)
           k == TakenFront(q, a)
           n == Len(q)
           left == Queued(q, 1, k) - a
           h == Rest(q[k], left)
           t == SubSeq(q, k + 1, n)
           r == AfterWithdrawal(q, a)
<1>1. n \in Nat /\ \A i \in 1..n : q[i] \in Q4W
  BY EntriesOfQueue
<1>2. k \in E /\ \A j \in E : k <= j
  <2>1. E \in SUBSET Int /\ IsFiniteSet(E)
    <3>1. E \subseteq 1..n
      BY DEF EnoughFront
    <3>2. IsFiniteSet(1..n)
      BY <1>1, FS_Interval
    <3> QED BY <1>1, <3>1, <3>2, FS_Subset
  <2>2. \E m \in E : \A j \in E : m <= j
    <3> HIDE DEF E
    <3> QED BY <2>1, LeastOfFinite DEF E
  <2> QED BY <2>2 DEF TakenFront
<1>3. k \in 1..n /\ Queued(q, 1, k) >= a /\ Queued(q, 1, k) \in Nat
  <2>1. k \in 1..n /\ Queued(q, 1, k) >= a
    BY <1>2 DEF EnoughFront
  <2>2. 1 \in 1..n + 1 /\ k \in 0..n
    BY <1>1, <2>1
  <2> HIDE DEF k
  <2> QED BY <1>1, <2>1, <2>2, QueuedIsNat
<1> HIDE DEF E, k
<1>4. r = h \o t
  BY DEF AfterWithdrawal, k
<1>5. left \in Nat
  BY <1>3
<1> HIDE DEF left, r
<1>6. /\ h \in Seq(Q4W) /\ Len(h) = IF left = 0 THEN 0 ELSE 1
      /\ \A i \in 1..Len(h) : i = 1 /\ h[i].exp = q[k].exp
      /\ Queued(h, 1, Len(h)) = left
  BY <1>1, <1>3, <1>5, QueuedOfRest
<1>7. /\ t \in Seq(Q4W) /\ Len(t) = n - k
      /\ \A i \in 1..n - k : t[i] = q[i + k]
      /\ Queued(t, 1, Len(t)) = Queued(q, k + 1, n)
  <2>1. /\ k + 1 \in 1..n + 1 /\ n \in ((k + 1) - 1)..n
        /\ n - (k + 1) + 1 = n - k
        /\ \A i \in 1..n - k : i + (k + 1) - 1 = i + k
    BY <1>1, <1>3
  <2> HIDE DEF n
  <2>2. /\ t \in Seq(Q4W) /\ Len(t) = n - (k + 1) + 1
        /\ \A i \in 1..n - (k + 1) + 1 : t[i] = q[i + (k + 1) - 1]
        /\ Queued(t, 1, Len(t)) = Queued(q, k + 1, n)
    BY <2>1, QueuedOfPart DEF n
  <2> QED BY <2>1, <2>2
<1> HIDE DEF h, t
<1>8. /\ r \in Seq(Q4W)
      /\ Queued(r, 1, Len(r)) = left + Queued(q, k + 1, n)
  BY <1>4, <1>6, <1>7, QueuedOfConcat
<1>9. Queued(q, 1, n) = Queued(q, 1, k) + Queued(q, k + 1, n)
      /\ Queued(q, k + 1, n) \in Nat
  <2>1. /\ 1 \in 1..n + 1 /\ n \in 0..n /\ k \in (1 - 1)..n /\ k + 1 \in 1..n + 1
    BY <1>1, <1>3
  <2> QED BY <1>1, <2>1, QueuedSplit, QueuedIsNat
<1>10. Queued(r, 1, Len(r)) = Queued(q, 1, n) - a
  BY <1>3, <1>8, <1>9 DEF left
<1>11. /\ Len(r) = Len(h) + Len(t)
       /\ \A i \in 1..Len(h) + Len(t) : r[i] = IF i <= Len(h) THEN h[i] ELSE t[i - Len(h)]
  BY <1>4, <1>6, <1>7, ConcatProperties
<1>12. \E s \in {k - 1, k} :
         /\ Len(r) = n - s
         /\ \A i \in 1..Len(r) : /\ r[i].exp = q[i + s].exp
                                 /\ i + s > k => r[i] = q[i + s]
  <2>1. CASE left = 0
    <3>1. Len(h) = 0 /\ Len(r) = n - k
      BY <1>1, <1>3, <1>6, <1>7, <1>11, <2>1
    <3>2. \A i \in 1..n - k : r[i] = q[i + k]
      BY <1>1, <1>3, <1>7, <1>11, <3>1
    <3> QED BY <3>1, <3>2
  <2>2. CASE left # 0
    <3>1. Len(h) = 1 /\ Len(r) = n - (k - 1)
      BY <1>1, <1>3, <1>6, <1>7, <1>11, <2>2
    <3>2. ASSUME NEW i \in 1..n - (k - 1)
          PROVE  /\ r[i].exp = q[i + (k - 1)].exp
                 /\ i + (k - 1) > k => r[i] = q[i + (k - 1)]
      <4>1. CASE i = 1
        <5>1. r[i] = h[1] /\ h[1].exp = q[k].exp
          <6>1. i <= Len(h) /\ i \in 1..Len(h) + Len(t) /\ 1 \in 1..Len(h)
            BY <1>1, <1>3, <1>7, <3>1, <4>1
          <6>2. r[i] = h[i]
            BY <1>11, <6>1
          <6> QED BY <1>6, <4>1, <6>1, <6>2
        <5>2. i + (k - 1) = k
          BY <1>1, <1>3, <4>1
        <5> QED BY <1>1, <1>3, <5>1, <5>2
      <4>2. CASE i # 1
        <5>1. i - 1 \in 1..n - k /\ ~(i <= 1) /\ i \in 1..1 + (n - k)
          BY <1>1, <1>3, <4>2
        <5>2. r[i] = t[i - 1] /\ t[i - 1] = q[(i - 1) + k]
          BY <1>7, <1>11, <3>1, <5>1
        <5>3. (i - 1) + k = i + (k - 1)
          BY <1>1, <1>3
        <5> QED BY <5>2, <5>3
      <4> QED BY <4>1, <4>2
    <3> QED BY <3>1, <3>2
  <2> QED BY <2>1, <2>2
<1> QED BY <1>3, <1>8, <1>10, <1>12 DEF k, r

(* Giving back the newest shares.  The entries that remain keep their      *)
(* expiry, and exactly the amount has been given back.                     *)
LEMMA DequeueTakesBack ==
  ASSUME NEW q \in Seq(Q4W), NEW a \in Nat, MayDequeueShares(q, a)
  PROVE  LET r == AfterDequeue(q, a)
         IN  /\ r \in Seq(Q4W)
             /\ Queued(r, 1, Len(r)) = Queued(q, 1, Len(q)) - a
             /\ Len(r) <= Len(q)
             /\ \A i \in 1..Len(r) : r[i].exp = q[i].exp
<1> DEFINE E == EnoughBack(q, a)
           k == TakenBack(q, a)
           n == Len(q)
           left == Queued(q, k, n) - a
           h == SubSeq(q, 1, k - 1)
           t == Rest(q[k], left)
           r == AfterDequeue(q, a)
<1>1. n \in Nat /\ \A i \in 1..n : q[i] \in Q4W
  BY EntriesOfQueue
<1>2. CASE q = <<>>
  <2>1. r = q /\ n = 0
    BY <1>2 DEF AfterDequeue
  <2>2. E = {}
    BY <2>1 DEF EnoughBack
  <2>3. a = 0
    BY <2>2 DEF MayDequeueShares
  <2>4. Queued(q, 1, 0) = 0
    BY QueuedOfNone
  <2> HIDE DEF r
  <2> QED BY <2>1, <2>3, <2>4 DEF r
<1>3. CASE q # <<>>
  <2>0. n > 0
    BY <1>1, <1>3, EmptySeq
  <2>1. E # {}
    <3>1. CASE a = 0
      <4>1. n \in 1..n + 1 /\ n \in 0..n /\ n \in 1..n
        BY <1>1, <2>0
      <4>2. Queued(q, n, n) \in Nat
        BY <4>1, QueuedIsNat
      <4> QED BY <3>1, <4>1, <4>2 DEF EnoughBack
    <3>2. CASE a # 0
      BY <3>2 DEF MayDequeueShares
    <3> QED BY <3>1, <3>2
  <2>2. k \in E
    <3>1. E \in SUBSET Int /\ IsFiniteSet(E)
      <4>1. E \subseteq 1..n
        BY DEF EnoughBack
      <4>2. IsFiniteSet(1..n)
        BY <1>1, FS_Interval
      <4> QED BY <1>1, <4>1, <4>2, FS_Subset
    <3>2. \E m \in E : \A j \in E : j <= m
      <4> HIDE DEF E
      <4> QED BY <2>1, <3>1, GreatestOfFinite
    <3> QED BY <3>2 DEF TakenBack
  <2>3. k \in 1..n /\ Queued(q, k, n) >= a /\ Queued(q, k, n) \in Nat
    <3>1. k \in 1..n /\ Queued(q, k, n) >= a
      BY <2>2 DEF EnoughBack
    <3>2. k \in 1..n + 1 /\ n \in 0..n
      BY <1>1, <3>1
    <3> HIDE DEF k
    <3> QED BY <1>1, <3>1, <3>2, QueuedIsNat
  <2> HIDE DEF E, k
  <2>4. r = h \o t
    BY <1>3 DEF AfterDequeue, k
  <2>5. left \in Nat
    BY <2>3
  <2> HIDE DEF left, r
  <2>6. /\ t \in Seq(Q4W) /\ Len(t) = IF left = 0 THEN 0 ELSE 1
        /\ \A i \in 1..Len(t) : i = 1 /\ t[i].exp = q[k].exp
        /\ Queued(t, 1, Len(t)) = left
    BY <1>1, <2>3, <2>5, QueuedOfRest
  <2>7. /\ h \in Seq(Q4W) /\ Len(h) = k - 1
        /\ \A i \in 1..k - 1 : h[i] = q[i]
        /\ Queued(h, 1, Len(h)) = Queued(q, 1, k - 1)
    <3>1. /\ 1 \in 1..n + 1 /\ k - 1 \in (1 - 1)..n
          /\ (k - 1) - 1 + 1 = k - 1
          /\ \A i \in 1..k - 1 : i + 1 - 1 = i
      BY <1>1, <2>3
    <3>2. /\ h \in Seq(Q4W) /\ Len(h) = (k - 1) - 1 + 1
          /\ \A i \in 1..(k - 1) - 1 + 1 : h[i] = q[i + 1 - 1]
          /\ Queued(h, 1, Len(h)) = Queued(q, 1, k - 1)
      BY <3>1, QueuedOfPart
    <3> HIDE DEF h
    <3> QED BY <3>1, <3>2
  <2> HIDE DEF h, t
  <2>8. /\ r \in Seq(Q4W)
        /\ Queued(r, 1, Len(r)) = Queued(q, 1, k - 1) + left
    BY <2>4, <2>6, <2>7, QueuedOfConcat
  <2>9. /\ Queued(q, 1, n) = Queued(q, 1, k - 1) + Queued(q, (k - 1) + 1, n)
        /\ Queued(q, 1, k - 1) \in Nat
    <3>1. /\ 1 \in 1..n + 1 /\ n \in 0..n /\ k - 1 \in (1 - 1)..n /\ k - 1 \in 0..n
      BY <1>1, <2>3
    <3> QED BY <1>1, <3>1, QueuedSplit, QueuedIsNat
  <2>10. Queued(r, 1, Len(r)) = Queued(q, 1, n) - a
    <3>1. (k - 1) + 1 = k
      BY <2>3
    <3> QED BY <2>3, <2>8, <2>9, <3>1 DEF left
  <2>11. /\ Len(r) = Len(h) + Len(t)
         /\ \A i \in 1..Len(h) + Len(t) : r[i] = IF i <= Len(h) THEN h[i] ELSE t[i - Len(h)]
    BY <2>4, <2>6, <2>7, ConcatProperties
  <2>12. Len(r) <= n
    BY <1>1, <2>3, <2>6, <2>7, <2>11
  <2>13. ASSUME NEW i \in 1..Len(r)
         PROVE  r[i].exp = q[i].exp
    <3>1. CASE i <= k - 1
      <4>1. i \in 1..k - 1 /\ i \in 1..Len(h) + Len(t)
        BY <1>1, <2>3, <2>11, <3>1
      <4> QED BY <2>7, <2>11, <3>1, <4>1
    <3>2. CASE ~(i <= k - 1)
      <4>1. Len(t) = 1 /\ i = k /\ i - Len(h) = 1 /\ i \in 1..Len(h) + Len(t)
        BY <1>1, <2>3, <2>6, <2>7, <2>11, <3>2
      <4>2. r[i] = t[1] /\ t[1].exp = q[k].exp
        BY <2>3, <2>6, <2>7, <2>11, <3>2, <4>1
      <4> QED BY <4>1, <4>2
    <3> QED BY <3>1, <3>2
  <2> QED BY <2>8, <2>10, <2>12, <2>13 DEF r
<1> QED BY <1>2, <1>3

---------------------------------------------------------------------------
(* The invariants are inductive together: that strangers hold nothing      *)
(* needs the shares to add up, and that withdrawals never take what is     *)
(* locked needs the queues in order.                                       *)
LedgerInv ==
  /\ TypeOK
  /\ SharesAddUp
  /\ TokensAreHeld
  /\ QueuesAreOrdered
  /\ StrangersHoldNothing

(* The parts of it that speak of one pool or one queue.                    *)
AddsUp(b, users) ==
  /\ b.shares = Total([u \in Users |-> OwnedOf(users[u])])
  /\ b.q4w = Total([u \in Users |-> QueuedOf(users[u])])

InOrder(q, time) ==
  /\ Len(q) <= MAX_Q4W_SIZE
  /\ \A i, j \in 1..Len(q) : i <= j => q[i].exp <= q[j].exp
  /\ \A i \in 1..Len(q) : q[i].exp <= time + Q4W_LOCK_TIME

Nothing == [shares |-> 0, tokens |-> 0, q4w |-> 0]

LEMMA BalanceIsNat ==
  ASSUME NEW b \in UserBalances
  PROVE  /\ QueuedOf(b) \in Nat /\ OwnedOf(b) \in Nat /\ b.shares \in Nat
         /\ b.q4w \in Seq(Q4W)
<1>1. b.q4w \in Seq(Q4W) /\ b.shares \in Nat
  BY DEF UserBalances
<1>2. Len(b.q4w) \in Nat
  BY <1>1, EntriesOfQueue
<1>3. 1 \in 1..Len(b.q4w) + 1 /\ Len(b.q4w) \in 0..Len(b.q4w)
  BY <1>2
<1>4. Queued(b.q4w, 1, Len(b.q4w)) \in Nat
  BY <1>1, <1>3, QueuedIsNat
<1> QED BY <1>1, <1>4 DEF OwnedOf, QueuedOf

(* What every user owns or has queued are sums over naturals.              *)
LEMMA BalancesAreNat ==
  ASSUME NEW users \in [Users -> UserBalances]
  PROVE  /\ [u \in Users |-> OwnedOf(users[u])] \in [Users -> Nat]
         /\ [u \in Users |-> QueuedOf(users[u])] \in [Users -> Nat]
<1>1. \A u \in Users : OwnedOf(users[u]) \in Nat /\ QueuedOf(users[u]) \in Nat
  BY BalanceIsNat
<1> QED BY <1>1

(* One user's balance changes as the pool's does.                          *)
LEMMA OneUserAddsUp ==
  ASSUME NEW old \in [Users -> UserBalances], NEW new \in [Users -> UserBalances],
         NEW b \in PoolBalances, NEW c \in PoolBalances, NEW u \in Users,
         AddsUp(b, old), \A v \in Users \ {u} : new[v] = old[v],
         OwnedOf(new[u]) + b.shares = OwnedOf(old[u]) + c.shares,
         QueuedOf(new[u]) + b.q4w = QueuedOf(old[u]) + c.q4w
  PROVE  AddsUp(c, new)
<1>0. IsFiniteSet(Users)
  BY BackstopLedgerAssumption
<1> DEFINE f == [v \in Users |-> OwnedOf(old[v])]
           g == [v \in Users |-> OwnedOf(new[v])]
           h == [v \in Users |-> QueuedOf(old[v])]
           k == [v \in Users |-> QueuedOf(new[v])]
<1>1. /\ f \in [Users -> Nat] /\ g \in [Users -> Nat]
      /\ h \in [Users -> Nat] /\ k \in [Users -> Nat]
  BY BalancesAreNat
<1>2. /\ \A v \in Users \ {u} : f[v] = g[v] /\ h[v] = k[v]
      /\ f[u] = OwnedOf(old[u]) /\ g[u] = OwnedOf(new[u])
      /\ h[u] = QueuedOf(old[u]) /\ k[u] = QueuedOf(new[u])
  OBVIOUS
<1>3. b.shares = Total(f) /\ b.q4w = Total(h)
  BY DEF AddsUp
<1>4. c.shares \in Nat /\ c.q4w \in Nat
  BY DEF PoolBalances
<1>5. AddsUp(c, new) <=> c.shares = Total(g) /\ c.q4w = Total(k)
  BY DEF AddsUp
<1> HIDE DEF f, g, h, k
<1>6. Total(g) + f[u] = Total(f) + g[u]
  BY <1>0, <1>1, <1>2, TotalChange
<1>7. Total(k) + h[u] = Total(h) + k[u]
  BY <1>0, <1>1, <1>2, TotalChange
<1>8. /\ Total(f) \in Nat /\ Total(g) \in Nat /\ Total(h) \in Nat /\ Total(k) \in Nat
      /\ f[u] \in Nat /\ g[u] \in Nat /\ h[u] \in Nat /\ k[u] \in Nat
  BY <1>0, <1>1, TotalIsCount
<1> QED BY <1>2, <1>3, <1>4, <1>5, <1>6, <1>7, <1>8

(* A call that touches one pool keeps the invariant if that pool's shares  *)
(* still add up and its queues are in order, its tokens move with the      *)
(* backstop's, and it has nothing if the factory does not know it.         *)
LEMMA OnePoolStep ==
  ASSUME LedgerInv, NEW p \in Pools,
         now' = now, badDebt' \in [Pools -> BOOLEAN], lp' \in Nat,
         poolBal' \in [Pools -> PoolBalances],
         userBal' \in [Pools -> [Users -> UserBalances]],
         \A r \in Pools \ {p} : poolBal'[r] = poolBal[r] /\ userBal'[r] = userBal[r],
         AddsUp(poolBal'[p], userBal'[p]),
         \A u \in Users : InOrder(userBal'[p][u].q4w, now),
         poolBal'[p].tokens + lp = poolBal[p].tokens + lp',
         p \notin Deployed => poolBal'[p] = Nothing
  PROVE  LedgerInv'
<1>1. TypeOK'
  BY DEF LedgerInv, TypeOK
<1>2. SharesAddUp'
  <2> SUFFICES ASSUME NEW r \in Pools
               PROVE  AddsUp(poolBal'[r], userBal'[r])
    BY DEF SharesAddUp, AddsUp
  <2>1. CASE r = p
    BY <2>1
  <2>2. CASE r # p
    <3>1. AddsUp(poolBal[r], userBal[r])
      BY DEF LedgerInv, SharesAddUp, AddsUp
    <3> QED BY <2>2, <3>1
  <2> QED BY <2>1, <2>2
<1>3. TokensAreHeld'
  <2> DEFINE f == [r \in Pools |-> poolBal[r].tokens]
             g == [r \in Pools |-> poolBal'[r].tokens]
  <2>0. poolBal \in [Pools -> PoolBalances] /\ lp \in Nat
    BY DEF LedgerInv, TypeOK
  <2>1. f \in [Pools -> Nat] /\ g \in [Pools -> Nat]
    BY <2>0 DEF PoolBalances
  <2>2. (\A r \in Pools \ {p} : f[r] = g[r]) /\ g[p] + lp = f[p] + lp'
    OBVIOUS
  <2>3. Total(f) <= lp
    BY DEF LedgerInv, TokensAreHeld
  <2>4. TokensAreHeld' <=> Total(g) <= lp'
    BY DEF TokensAreHeld
  <2>5. IsFiniteSet(Pools)
    BY BackstopLedgerAssumption
  <2> HIDE DEF f, g
  <2>6. Total(g) + f[p] = Total(f) + g[p]
    BY <2>1, <2>2, <2>5, TotalChange
  <2>7. /\ Total(f) \in Nat /\ Total(g) \in Nat /\ f[p] \in Nat /\ g[p] \in Nat
    BY <2>1, <2>5, TotalIsCount
  <2> QED BY <2>0, <2>2, <2>3, <2>4, <2>6, <2>7
<1>4. QueuesAreOrdered'
  <2> SUFFICES ASSUME NEW r \in Pools, NEW u \in Users
               PROVE  InOrder(userBal'[r][u].q4w, now')
    BY DEF QueuesAreOrdered, InOrder
  <2>1. CASE r = p
    BY <2>1
  <2>2. CASE r # p
    <3>1. InOrder(userBal[r][u].q4w, now)
      BY DEF LedgerInv, QueuesAreOrdered, InOrder
    <3> QED BY <2>2, <3>1
  <2> QED BY <2>1, <2>2
<1>5. StrangersHoldNothing'
  <2> SUFFICES ASSUME NEW r \in Pools \ Deployed
               PROVE  poolBal'[r] = Nothing
    BY DEF StrangersHoldNothing, Nothing
  <2>1. CASE r = p
    BY <2>1
  <2>2. CASE r # p
    BY <2>2 DEF LedgerInv, StrangersHoldNothing, Nothing
  <2> QED BY <2>1, <2>2
<1> QED BY <1>1, <1>2, <1>3, <1>4, <1>5 DEF LedgerInv

LEMMA FactsOfPool ==
  ASSUME LedgerInv, NEW p \in Pools
  PROVE  /\ poolBal[p] \in PoolBalances /\ userBal[p] \in [Users -> UserBalances]
         /\ poolBal[p].shares \in Nat /\ poolBal[p].tokens \in Nat /\ poolBal[p].q4w \in Nat
         /\ AddsUp(poolBal[p], userBal[p])
         /\ \A u \in Users : InOrder(userBal[p][u].q4w, now)
         /\ p \notin Deployed => poolBal[p] = Nothing
         /\ now \in Nat /\ lp \in Nat
<1>1. poolBal[p] \in PoolBalances /\ userBal[p] \in [Users -> UserBalances]
  BY DEF LedgerInv, TypeOK
<1>2. AddsUp(poolBal[p], userBal[p])
  BY DEF LedgerInv, SharesAddUp, AddsUp
<1>3. \A u \in Users : InOrder(userBal[p][u].q4w, now)
  BY DEF LedgerInv, QueuesAreOrdered, InOrder
<1>4. p \notin Deployed => poolBal[p] = Nothing
  BY DEF LedgerInv, StrangersHoldNothing, Nothing
<1>5. now \in Nat /\ lp \in Nat
  BY BackstopLedgerAssumption DEF LedgerInv, TypeOK
<1> QED BY <1>1, <1>2, <1>3, <1>4, <1>5 DEF PoolBalances

LEMMA SharesMove ==
  ASSUME NEW p \in Pools, NEW u \in Users,
         userBal[p] \in [Users -> UserBalances], userBal'[p] \in [Users -> UserBalances],
         poolBal[p] \in PoolBalances, poolBal'[p] \in PoolBalances,
         AddsUp(poolBal[p], userBal[p]),
         \A v \in Users \ {u} : userBal'[p][v] = userBal[p][v],
         OwnedOf(userBal'[p][u]) + poolBal[p].shares
           = OwnedOf(userBal[p][u]) + poolBal'[p].shares,
         QueuedOf(userBal'[p][u]) + poolBal[p].q4w
           = QueuedOf(userBal[p][u]) + poolBal'[p].q4w
  PROVE  AddsUp(poolBal'[p], userBal'[p])
BY OneUserAddsUp

LEMMA OneUserStep ==
  ASSUME LedgerInv, NEW p \in Pools, NEW u \in Users,
         now' = now, badDebt' \in [Pools -> BOOLEAN], lp' \in Nat,
         poolBal' \in [Pools -> PoolBalances],
         userBal' \in [Pools -> [Users -> UserBalances]],
         \A r \in Pools \ {p} : poolBal'[r] = poolBal[r] /\ userBal'[r] = userBal[r],
         \A v \in Users \ {u} : userBal'[p][v] = userBal[p][v],
         OwnedOf(userBal'[p][u]) + poolBal[p].shares
           = OwnedOf(userBal[p][u]) + poolBal'[p].shares,
         QueuedOf(userBal'[p][u]) + poolBal[p].q4w
           = QueuedOf(userBal[p][u]) + poolBal'[p].q4w,
         InOrder(userBal'[p][u].q4w, now),
         poolBal'[p].tokens + lp = poolBal[p].tokens + lp',
         p \notin Deployed => poolBal'[p] = Nothing
  PROVE  LedgerInv'
<1>1. AddsUp(poolBal'[p], userBal'[p])
  <2>1. /\ userBal[p] \in [Users -> UserBalances] /\ userBal'[p] \in [Users -> UserBalances]
        /\ poolBal[p] \in PoolBalances /\ poolBal'[p] \in PoolBalances
        /\ AddsUp(poolBal[p], userBal[p])
    BY FactsOfPool
  <2> QED BY <2>1, SharesMove
<1>2. \A v \in Users : InOrder(userBal'[p][v].q4w, now)
  <2> SUFFICES ASSUME NEW v \in Users PROVE InOrder(userBal'[p][v].q4w, now)
    OBVIOUS
  <2>1. InOrder(userBal[p][v].q4w, now)
    BY FactsOfPool
  <2> QED BY <2>1
<1> QED BY <1>1, <1>2, OnePoolStep

---------------------------------------------------------------------------
(* One pool's or one user's balance is replaced.                           *)
LEMMA PoolSet ==
  ASSUME NEW B \in [Pools -> PoolBalances], NEW p \in Pools, NEW c \in PoolBalances,
         NEW C, C = [B EXCEPT ![p] = c]
  PROVE  /\ C \in [Pools -> PoolBalances] /\ C[p] = c
         /\ \A r \in Pools \ {p} : C[r] = B[r]
OBVIOUS

LEMMA UserSet ==
  ASSUME NEW B \in [Pools -> [Users -> UserBalances]], NEW p \in Pools, NEW u \in Users,
         NEW b \in UserBalances, NEW C, C = [B EXCEPT ![p][u] = b]
  PROVE  /\ C \in [Pools -> [Users -> UserBalances]] /\ C[p][u] = b
         /\ \A r \in Pools \ {p} : C[r] = B[r]
         /\ \A v \in Users \ {u} : C[p][v] = B[p][v]
<1> DEFINE f == [B[p] EXCEPT ![u] = b]
<1>1. C = [B EXCEPT ![p] = f]
  OBVIOUS
<1>2. B[p] \in [Users -> UserBalances]
  OBVIOUS
<1>3. /\ f \in [Users -> UserBalances] /\ f[u] = b
      /\ \A v \in Users \ {u} : f[v] = B[p][v]
  BY <1>2
<1> HIDE DEF f
<1> QED BY <1>1, <1>3

(* A call that replaces one user's balance and his pool's, b and c being   *)
(* the new ones.                                                           *)
LEMMA OneUserCall ==
  ASSUME LedgerInv, NEW p \in Pools, NEW u \in Users,
         NEW b \in UserBalances, NEW c \in PoolBalances,
         poolBal' = [poolBal EXCEPT ![p] = c],
         userBal' = [userBal EXCEPT ![p][u] = b],
         now' = now, badDebt' = badDebt, lp' \in Nat,
         OwnedOf(b) + poolBal[p].shares = OwnedOf(userBal[p][u]) + c.shares,
         QueuedOf(b) + poolBal[p].q4w = QueuedOf(userBal[p][u]) + c.q4w,
         InOrder(b.q4w, now),
         c.tokens + lp = poolBal[p].tokens + lp',
         p \notin Deployed => c = Nothing
  PROVE  LedgerInv'
<1>1. /\ poolBal \in [Pools -> PoolBalances]
      /\ userBal \in [Pools -> [Users -> UserBalances]]
      /\ badDebt' \in [Pools -> BOOLEAN]
  BY DEF LedgerInv, TypeOK
<1>2. /\ poolBal' \in [Pools -> PoolBalances] /\ poolBal'[p] = c
      /\ \A r \in Pools \ {p} : poolBal'[r] = poolBal[r]
  BY <1>1, PoolSet
<1>3. /\ userBal' \in [Pools -> [Users -> UserBalances]] /\ userBal'[p][u] = b
      /\ \A r \in Pools \ {p} : userBal'[r] = userBal[r]
      /\ \A v \in Users \ {u} : userBal'[p][v] = userBal[p][v]
  BY <1>1, UserSet
<1> QED BY <1>1, <1>2, <1>3, OneUserStep

---------------------------------------------------------------------------
(* The conversions of a pool.                                              *)
LEMMA ConversionsAreNat ==
  ASSUME NEW b \in PoolBalances, NEW a \in Nat
  PROVE  ConvertToShares(b, a) \in Nat /\ ConvertToTokens(b, a) \in Nat
<1>1. b.shares \in Nat /\ b.tokens \in Nat
  BY DEF PoolBalances
<1>2. b.tokens # 0 => MulFloor(a, b.shares, b.tokens) \in Nat
  BY <1>1, RoundingOfNat
<1>3. b.shares # 0 => MulFloor(a, b.tokens, b.shares) \in Nat
  BY <1>1, RoundingOfNat
<1> QED BY <1>1, <1>2, <1>3 DEF ConvertToShares, ConvertToTokens

LEMMA JoiningIsTyped ==
  ASSUME NEW b \in PoolBalances, NEW a \in Nat, NEW m \in Nat
  PROVE  /\ Joining(b, a, m) \in PoolBalances
         /\ Joining(b, a, m).shares = b.shares + m
         /\ Joining(b, a, m).tokens = b.tokens + a
         /\ Joining(b, a, m).q4w = b.q4w
<1> DEFINE c == Joining(b, a, m)
<1>1. c = [b EXCEPT !.tokens = @ + a, !.shares = @ + m]
  BY DEF Joining
<1> HIDE DEF c
<1>2. c = [shares |-> b.shares + m, tokens |-> b.tokens + a, q4w |-> b.q4w]
  BY <1>1 DEF PoolBalances
<1> QED BY <1>2 DEF PoolBalances, c

LEMMA AddSharesIsTyped ==
  ASSUME NEW b \in UserBalances, NEW m \in Nat
  PROVE  /\ AddShares(b, m) \in UserBalances
         /\ QueuedOf(AddShares(b, m)) = QueuedOf(b)
         /\ OwnedOf(AddShares(b, m)) = OwnedOf(b) + m
         /\ AddShares(b, m).q4w = b.q4w
<1>1. /\ AddShares(b, m) \in UserBalances /\ AddShares(b, m).shares = b.shares + m
      /\ AddShares(b, m).q4w = b.q4w
  BY DEF AddShares, UserBalances
<1>2. QueuedOf(b) \in Nat /\ b.shares \in Nat
  BY BalanceIsNat
<1> QED BY <1>1, <1>2 DEF OwnedOf, QueuedOf

(* A deposit credits the pool's tokens and shares and the user's shares.   *)
LEMMA DepositKeeps ==
  ASSUME LedgerInv, NEW u \in Users, NEW p \in Pools, NEW a \in Amounts,
         Deposit(u, p, a)
  PROVE  LedgerInv'
<1> DEFINE m == ConvertToShares(poolBal[p], a)
           old == userBal[p][u]
           b == AddShares(old, m)
           c == Joining(poolBal[p], a, m)
<1>1. /\ userBal' = [userBal EXCEPT ![p][u] = b]
      /\ poolBal' = [poolBal EXCEPT ![p] = c]
      /\ lp' = lp + a /\ now' = now /\ badDebt' = badDebt
  BY DEF Deposit
<1>2. a \in Nat /\ m \in Nat
  BY BackstopLedgerAssumption, FactsOfPool, ConversionsAreNat
<1>3. p \in Deployed
  <2>1. CASE p \notin Deployed
    <3>1. poolBal[p].shares = 0
      BY <2>1, FactsOfPool DEF Nothing
    <3> QED BY <3>1 DEF Deposit, IsPool
  <2> QED BY <2>1
<1> HIDE DEF m
<1>4. /\ c \in PoolBalances /\ c.shares = poolBal[p].shares + m
      /\ c.tokens = poolBal[p].tokens + a /\ c.q4w = poolBal[p].q4w
  <2>1. poolBal[p] \in PoolBalances
    BY FactsOfPool
  <2> QED BY <1>2, <2>1, JoiningIsTyped
<1>5. old \in UserBalances /\ InOrder(old.q4w, now)
  BY FactsOfPool
<1> HIDE DEF old, c
<1>6. /\ b \in UserBalances /\ b.q4w = old.q4w
      /\ QueuedOf(b) = QueuedOf(old) /\ QueuedOf(old) \in Nat
      /\ OwnedOf(b) = OwnedOf(old) + m /\ OwnedOf(old) \in Nat
  BY <1>2, <1>5, AddSharesIsTyped, BalanceIsNat
<1> HIDE DEF b
<1>7. /\ OwnedOf(b) + poolBal[p].shares = OwnedOf(old) + c.shares
      /\ QueuedOf(b) + poolBal[p].q4w = QueuedOf(old) + c.q4w
      /\ c.tokens + lp = poolBal[p].tokens + lp' /\ lp' \in Nat
  BY <1>1, <1>2, <1>4, <1>6, FactsOfPool
<1> QED BY <1>1, <1>3, <1>4, <1>5, <1>6, <1>7, OneUserCall DEF old

(* A stranger's depositors have nothing, for what they own adds up to the  *)
(* pool's shares.                                                          *)
LEMMA StrangersOwnNothing ==
  ASSUME LedgerInv, NEW p \in Pools, NEW u \in Users, p \notin Deployed
  PROVE  OwnedOf(userBal[p][u]) = 0
<1> DEFINE f == [v \in Users |-> OwnedOf(userBal[p][v])]
<1>1. f \in [Users -> Nat] /\ IsFiniteSet(Users)
  BY FactsOfPool, BalancesAreNat, BackstopLedgerAssumption
<1>2. Total(f) = 0
  <2>1. poolBal[p] = Nothing /\ AddsUp(poolBal[p], userBal[p])
    BY FactsOfPool
  <2> QED BY <2>1 DEF AddsUp, Nothing
<1>3. f[u] = OwnedOf(userBal[p][u])
  OBVIOUS
<1> HIDE DEF f
<1>4. f[u] <= Total(f) /\ f[u] \in Nat
  BY <1>1, TotalBoundsMember
<1> QED BY <1>2, <1>3, <1>4

(* Queueing moves a user's shares to the back of his queue.                *)
LEMMA QueueKeeps ==
  ASSUME LedgerInv, NEW u \in Users, NEW p \in Pools, NEW a \in Amounts,
         QueueWithdrawal(u, p, a)
  PROVE  LedgerInv'
<1> DEFINE old == userBal[p][u]
           e == [amount |-> a, exp |-> now + Q4W_LOCK_TIME]
           b == [shares |-> old.shares - a, q4w |-> Append(old.q4w, e)]
           c == [poolBal[p] EXCEPT !.q4w = @ + a]
<1>1. /\ userBal' = [userBal EXCEPT ![p][u] = b]
      /\ poolBal' = [poolBal EXCEPT ![p] = c]
      /\ lp' = lp /\ now' = now /\ badDebt' = badDebt
  BY DEF QueueWithdrawal
<1>2. a \in Nat /\ e \in Q4W /\ e.amount = a /\ e.exp = now + Q4W_LOCK_TIME
      /\ now \in Nat /\ Q4W_LOCK_TIME \in Nat /\ MAX_Q4W_SIZE \in Nat
  BY BackstopLedgerAssumption, FactsOfPool DEF Q4W
<1>3. /\ old \in UserBalances /\ InOrder(old.q4w, now)
      /\ old.shares >= a /\ Len(old.q4w) < MAX_Q4W_SIZE
  BY FactsOfPool DEF QueueWithdrawal, MayQueue
<1> HIDE DEF e, old
<1>4. old.shares \in Nat /\ old.q4w \in Seq(Q4W) /\ Len(old.q4w) \in Nat
  BY <1>3, BalanceIsNat, EntriesOfQueue
<1>5. /\ c \in PoolBalances /\ c.shares = poolBal[p].shares
      /\ c.tokens = poolBal[p].tokens /\ c.q4w = poolBal[p].q4w + a
  <2>1. poolBal[p] \in PoolBalances
    BY FactsOfPool
  <2> QED BY <1>2, <2>1 DEF PoolBalances
<1>6. Append(old.q4w, e) = old.q4w \o <<e>> /\ <<e>> \in Seq(Q4W)
      /\ Len(<<e>>) = 1 /\ <<e>>[1] = e
  BY <1>2, <1>4, AppendIsConcat
<1>7. /\ Append(old.q4w, e) \in Seq(Q4W)
      /\ Len(Append(old.q4w, e)) = Len(old.q4w) + 1
      /\ \A i \in 1..Len(old.q4w) : Append(old.q4w, e)[i] = old.q4w[i]
      /\ Append(old.q4w, e)[Len(old.q4w) + 1] = e
  BY <1>2, <1>4, AppendProperties
<1>8. /\ b \in UserBalances /\ b.shares = old.shares - a
      /\ b.q4w = Append(old.q4w, e)
  BY <1>2, <1>3, <1>4, <1>7 DEF UserBalances
<1> HIDE DEF b, c
<1>9. /\ QueuedOf(b) = QueuedOf(old) + a /\ QueuedOf(old) \in Nat
      /\ OwnedOf(b) = OwnedOf(old) /\ OwnedOf(old) \in Nat
  <2>1. Queued(<<e>>, 1, 1) = a
    <3> DEFINE s == <<e>>
    <3>1. s \in Seq(Q4W) /\ s[1].amount = a /\ 1 \in 1..Len(s)
      BY <1>2, <1>6
    <3> HIDE DEF s
    <3>2. Queued(s, 1, 1) = a
      BY <3>1, QueuedOfOne
    <3> QED BY <3>2 DEF s
  <2>2. QueuedOf(b) = QueuedOf(old) + a
    <3> DEFINE s == <<e>>
               q == old.q4w
    <3>1. s \in Seq(Q4W) /\ q \in Seq(Q4W) /\ Len(s) = 1 /\ b.q4w = q \o s
          /\ Queued(s, 1, 1) = a
      BY <1>4, <1>6, <1>8, <2>1
    <3> HIDE DEF s, q
    <3>2. Queued(q \o s, 1, Len(q \o s)) = Queued(q, 1, Len(q)) + Queued(s, 1, Len(s))
      BY <3>1, QueuedOfConcat
    <3> QED BY <3>1, <3>2 DEF q, QueuedOf
  <2>3. QueuedOf(old) \in Nat
    BY <1>3, BalanceIsNat
  <2> QED BY <1>2, <1>4, <1>8, <2>2, <2>3 DEF OwnedOf
<1>10. InOrder(b.q4w, now)
  <2> DEFINE q == old.q4w
             r == b.q4w
             n == Len(old.q4w)
  <2>1. /\ n \in Nat /\ n < MAX_Q4W_SIZE /\ Len(r) = n + 1
        /\ \A i \in 1..n : r[i] = q[i] /\ q[i].exp \in Nat
        /\ r[n + 1].exp = now + Q4W_LOCK_TIME
    BY <1>2, <1>3, <1>4, <1>7, <1>8, EntriesOfQueue
  <2>2. /\ \A i, j \in 1..n : i <= j => q[i].exp <= q[j].exp
        /\ \A i \in 1..n : q[i].exp <= now + Q4W_LOCK_TIME
    BY <1>3 DEF InOrder
  <2> HIDE DEF q, r, n
  <2>3. \A i \in 1..n + 1 : i \in 1..n \/ i = n + 1
    BY <2>1
  <2>4. \A i \in 1..n + 1 : r[i].exp <= now + Q4W_LOCK_TIME
    BY <1>2, <2>1, <2>2, <2>3
  <2>5. \A i, j \in 1..n + 1 : i <= j => r[i].exp <= r[j].exp
    <3> SUFFICES ASSUME NEW i \in 1..n + 1, NEW j \in 1..n + 1, i <= j
                 PROVE  r[i].exp <= r[j].exp
      OBVIOUS
    <3>1. CASE j = n + 1
      BY <2>1, <2>4, <3>1
    <3>2. CASE j # n + 1
      <4>1. i \in 1..n /\ j \in 1..n
        BY <2>1, <3>2
      <4> QED BY <2>1, <2>2, <4>1
    <3> QED BY <3>1, <3>2
  <2> QED BY <1>2, <2>1, <2>4, <2>5 DEF InOrder, r
<1>11. /\ OwnedOf(b) + poolBal[p].shares = OwnedOf(old) + c.shares
       /\ QueuedOf(b) + poolBal[p].q4w = QueuedOf(old) + c.q4w
       /\ c.tokens + lp = poolBal[p].tokens + lp' /\ lp' \in Nat
  BY <1>1, <1>2, <1>5, <1>9, FactsOfPool
<1>12. p \notin Deployed => c = Nothing
  <2> SUFFICES ASSUME p \notin Deployed PROVE c = Nothing
    OBVIOUS
  <2>1. poolBal[p] = Nothing /\ OwnedOf(old) = 0
    BY FactsOfPool, StrangersOwnNothing DEF old
  <2>2. a = 0
    BY <1>2, <1>3, <1>4, <1>9, <2>1 DEF OwnedOf
  <2>3. c.shares = 0 /\ c.tokens = 0 /\ c.q4w = 0
    BY <1>5, <2>1, <2>2 DEF Nothing
  <2> QED BY <1>5, <2>3 DEF PoolBalances, Nothing
<1> QED BY <1>1, <1>5, <1>8, <1>10, <1>11, <1>12, OneUserCall DEF old

(* Dequeueing gives a user the newest of his queued shares back.           *)
LEMMA DequeueKeeps ==
  ASSUME LedgerInv, NEW u \in Users, NEW p \in Pools, NEW a \in Amounts,
         DequeueWithdrawal(u, p, a)
  PROVE  LedgerInv'
<1> DEFINE old == userBal[p][u]
           q == old.q4w
           r == AfterDequeue(q, a)
           b == [shares |-> old.shares + a, q4w |-> r]
           c == [poolBal[p] EXCEPT !.q4w = @ - a]
<1>1. /\ userBal' = [userBal EXCEPT ![p][u] = b]
      /\ poolBal' = [poolBal EXCEPT ![p] = c]
      /\ lp' = lp /\ now' = now /\ badDebt' = badDebt
  BY DEF DequeueWithdrawal
<1>2. a \in Nat /\ now \in Nat /\ Q4W_LOCK_TIME \in Nat /\ MAX_Q4W_SIZE \in Nat
  BY BackstopLedgerAssumption, FactsOfPool
<1>3. /\ old \in UserBalances /\ InOrder(q, now)
      /\ MayDequeueShares(q, a) /\ a <= poolBal[p].q4w
  BY FactsOfPool DEF DequeueWithdrawal
<1> HIDE DEF old
<1>4. old.shares \in Nat /\ q \in Seq(Q4W) /\ Len(q) \in Nat
  BY <1>3, BalanceIsNat, EntriesOfQueue
<1>5. /\ c \in PoolBalances /\ c.shares = poolBal[p].shares
      /\ c.tokens = poolBal[p].tokens /\ c.q4w = poolBal[p].q4w - a
  <2>1. poolBal[p] \in PoolBalances
    BY FactsOfPool
  <2> QED BY <1>2, <1>3, <2>1 DEF PoolBalances
<1> HIDE DEF q
<1>6. /\ r \in Seq(Q4W)
      /\ Queued(r, 1, Len(r)) = Queued(q, 1, Len(q)) - a
      /\ Len(r) <= Len(q)
      /\ \A i \in 1..Len(r) : r[i].exp = q[i].exp
  BY <1>2, <1>3, <1>4, DequeueTakesBack
<1> HIDE DEF r
<1>7. b \in UserBalances /\ b.shares = old.shares + a /\ b.q4w = r
  BY <1>2, <1>4, <1>6 DEF UserBalances
<1> HIDE DEF b, c
<1>8. /\ QueuedOf(b) = QueuedOf(old) - a /\ QueuedOf(old) \in Nat
      /\ OwnedOf(b) = OwnedOf(old) /\ OwnedOf(old) \in Nat
  <2>1. QueuedOf(b) = QueuedOf(old) - a
    BY <1>6, <1>7 DEF QueuedOf, q
  <2>2. QueuedOf(old) \in Nat
    BY <1>3, BalanceIsNat
  <2> QED BY <1>2, <1>4, <1>7, <2>1, <2>2 DEF OwnedOf
<1>9. InOrder(b.q4w, now)
  <2>1. Len(r) \in Nat
    BY <1>6, EntriesOfQueue
  <2>2. \A i \in 1..Len(r) : i \in 1..Len(q)
    BY <1>4, <1>6, <2>1
  <2> QED BY <1>2, <1>3, <1>4, <1>6, <1>7, <2>1, <2>2 DEF InOrder
<1>10. /\ OwnedOf(b) + poolBal[p].shares = OwnedOf(old) + c.shares
       /\ QueuedOf(b) + poolBal[p].q4w = QueuedOf(old) + c.q4w
       /\ c.tokens + lp = poolBal[p].tokens + lp' /\ lp' \in Nat
  BY <1>1, <1>2, <1>5, <1>8, FactsOfPool
<1>11. p \notin Deployed => c = Nothing
  <2> SUFFICES ASSUME p \notin Deployed PROVE c = Nothing
    OBVIOUS
  <2>1. poolBal[p] = Nothing
    BY FactsOfPool
  <2>2. c.shares = 0 /\ c.tokens = 0 /\ c.q4w = 0
    BY <1>2, <1>3, <1>5, <2>1 DEF Nothing
  <2> QED BY <1>5, <2>2 DEF PoolBalances, Nothing
<1> QED BY <1>1, <1>5, <1>7, <1>9, <1>10, <1>11, OneUserCall DEF old

(* Withdrawing takes the oldest of a user's queued shares out of the pool. *)
LEMMA WithdrawKeeps ==
  ASSUME LedgerInv, NEW u \in Users, NEW p \in Pools, NEW a \in Amounts,
         Withdraw(u, p, a)
  PROVE  LedgerInv'
<1> DEFINE old == userBal[p][u]
           q == old.q4w
           r == AfterWithdrawal(q, a)
           t == ConvertToTokens(poolBal[p], a)
           k == TakenFront(q, a)
           b == [old EXCEPT !.q4w = r]
           c == Leaving(poolBal[p], t, a)
<1>1. /\ userBal' = [userBal EXCEPT ![p][u] = b]
      /\ poolBal' = [poolBal EXCEPT ![p] = c]
      /\ lp' = lp - t /\ now' = now /\ badDebt' = badDebt
  BY DEF Withdraw
<1>2. /\ a \in Nat /\ now \in Nat /\ Q4W_LOCK_TIME \in Nat /\ MAX_Q4W_SIZE \in Nat
      /\ t \in Nat
  BY BackstopLedgerAssumption, FactsOfPool, ConversionsAreNat
<1>3. /\ old \in UserBalances /\ InOrder(q, now)
      /\ EnoughFront(q, a) # {} /\ t # 0 /\ t <= lp
      /\ t <= poolBal[p].tokens /\ a <= poolBal[p].shares /\ a <= poolBal[p].q4w
  BY FactsOfPool DEF Withdraw, MayWithdrawShares, MayLeave
<1>4. p \in Deployed
  <2> SUFFICES ASSUME p \notin Deployed PROVE FALSE
    OBVIOUS
  <2>1. poolBal[p].shares = 0
    BY FactsOfPool DEF Nothing
  <2> QED BY <1>3, <2>1 DEF ConvertToTokens
<1> HIDE DEF old, t
<1>5. old.shares \in Nat /\ q \in Seq(Q4W) /\ Len(q) \in Nat
  BY <1>3, BalanceIsNat, EntriesOfQueue
<1>6. /\ c \in PoolBalances /\ c.shares = poolBal[p].shares - a
      /\ c.tokens = poolBal[p].tokens - t /\ c.q4w = poolBal[p].q4w - a
  <2>1. poolBal[p] \in PoolBalances
    BY FactsOfPool
  <2> QED BY <1>2, <1>3, <2>1 DEF PoolBalances, Leaving
<1> HIDE DEF q
<1>7. /\ r \in Seq(Q4W)
      /\ Queued(r, 1, Len(r)) = Queued(q, 1, Len(q)) - a
      /\ k \in 1..Len(q)
      /\ \E s \in {k - 1, k} :
           /\ Len(r) = Len(q) - s
           /\ \A i \in 1..Len(r) : r[i].exp = q[i + s].exp
  BY <1>2, <1>3, <1>5, WithdrawalTakesFront
<1> HIDE DEF r, k
<1>8. b \in UserBalances /\ b.shares = old.shares /\ b.q4w = r
  BY <1>3, <1>7 DEF UserBalances
<1> HIDE DEF b, c
<1>9. /\ QueuedOf(b) = QueuedOf(old) - a /\ QueuedOf(old) \in Nat
      /\ OwnedOf(b) = OwnedOf(old) - a /\ OwnedOf(old) \in Nat
  <2>1. QueuedOf(b) = QueuedOf(old) - a
    BY <1>7, <1>8 DEF QueuedOf, q
  <2>2. QueuedOf(old) \in Nat
    BY <1>3, BalanceIsNat
  <2> QED BY <1>2, <1>5, <1>8, <2>1, <2>2 DEF OwnedOf
<1>10. InOrder(b.q4w, now)
  <2>1. PICK s \in {k - 1, k} :
           /\ Len(r) = Len(q) - s
           /\ \A i \in 1..Len(r) : r[i].exp = q[i + s].exp
    BY <1>7
  <2>2. s \in Nat /\ Len(r) <= Len(q) /\ \A i \in 1..Len(r) : i + s \in 1..Len(q)
    BY <1>5, <1>7, <2>1
  <2>3. \A i, j \in 1..Len(r) : i <= j => i + s <= j + s
    BY <1>5, <2>1, <2>2
  <2>4. /\ Len(q) <= MAX_Q4W_SIZE
        /\ \A i, j \in 1..Len(q) : i <= j => q[i].exp <= q[j].exp
        /\ \A i \in 1..Len(q) : q[i].exp <= now + Q4W_LOCK_TIME
    BY <1>3 DEF InOrder
  <2>5. Len(r) \in Nat /\ Len(r) <= MAX_Q4W_SIZE
    BY <1>2, <1>5, <1>7, <2>2, <2>4, EntriesOfQueue
  <2>6. \A i, j \in 1..Len(r) : i <= j => r[i].exp <= r[j].exp
    BY <2>1, <2>2, <2>3, <2>4
  <2>7. \A i \in 1..Len(r) : r[i].exp <= now + Q4W_LOCK_TIME
    BY <2>1, <2>2, <2>4
  <2> QED BY <1>8, <2>5, <2>6, <2>7 DEF InOrder
<1>11. /\ OwnedOf(b) + poolBal[p].shares = OwnedOf(old) + c.shares
       /\ QueuedOf(b) + poolBal[p].q4w = QueuedOf(old) + c.q4w
       /\ c.tokens + lp = poolBal[p].tokens + lp' /\ lp' \in Nat
  <2>1. /\ poolBal[p].shares \in Nat /\ poolBal[p].tokens \in Nat
        /\ poolBal[p].q4w \in Nat /\ lp \in Nat
    BY FactsOfPool
  <2> QED BY <1>1, <1>2, <1>3, <1>6, <1>9, <2>1
<1> QED BY <1>1, <1>4, <1>6, <1>8, <1>10, <1>11, OneUserCall DEF old

(* A draw or a donation moves tokens and no shares.                        *)
LEMMA OnlyTokensMove ==
  ASSUME LedgerInv, NEW p \in Pools, NEW c \in PoolBalances,
         poolBal' = [poolBal EXCEPT ![p] = c], userBal' = userBal,
         now' = now, badDebt' \in [Pools -> BOOLEAN], lp' \in Nat,
         c.shares = poolBal[p].shares, c.q4w = poolBal[p].q4w,
         c.tokens + lp = poolBal[p].tokens + lp',
         p \notin Deployed => c = Nothing
  PROVE  LedgerInv'
<1>1. /\ poolBal \in [Pools -> PoolBalances]
      /\ userBal \in [Pools -> [Users -> UserBalances]]
  BY DEF LedgerInv, TypeOK
<1>2. /\ poolBal' \in [Pools -> PoolBalances] /\ poolBal'[p] = c
      /\ \A r \in Pools \ {p} : poolBal'[r] = poolBal[r]
  BY <1>1, PoolSet
<1>3. AddsUp(poolBal'[p], userBal'[p])
  <2>1. AddsUp(poolBal[p], userBal[p])
    BY FactsOfPool
  <2> QED BY <1>2, <2>1 DEF AddsUp
<1>4. \A v \in Users : InOrder(userBal'[p][v].q4w, now)
  BY FactsOfPool
<1> QED BY <1>1, <1>2, <1>3, <1>4, OnePoolStep

LEMMA DrawKeeps ==
  ASSUME LedgerInv, NEW p \in Pools, NEW a \in Amounts, Draw(p, a)
  PROVE  LedgerInv'
<1> DEFINE c == Leaving(poolBal[p], a, 0)
<1>1. /\ poolBal' = [poolBal EXCEPT ![p] = c] /\ userBal' = userBal
      /\ lp' = lp - a /\ now' = now /\ a <= lp /\ a <= poolBal[p].tokens
  BY DEF Draw, MayLeave
<1>2. a \in Nat /\ poolBal[p] \in PoolBalances
  BY BackstopLedgerAssumption, FactsOfPool
<1>3. /\ c \in PoolBalances /\ c.shares = poolBal[p].shares
      /\ c.tokens = poolBal[p].tokens - a /\ c.q4w = poolBal[p].q4w
  BY <1>1, <1>2 DEF PoolBalances, Leaving
<1>4. badDebt' \in [Pools -> BOOLEAN]
  <2>1. badDebt \in [Pools -> BOOLEAN]
    BY DEF LedgerInv, TypeOK
  <2> QED BY <2>1 DEF Draw
<1> HIDE DEF c
<1>5. p \notin Deployed => c = Nothing
  <2> SUFFICES ASSUME p \notin Deployed PROVE c = Nothing
    OBVIOUS
  <2>1. poolBal[p] = Nothing
    BY FactsOfPool
  <2>2. c.shares = 0 /\ c.tokens = 0 /\ c.q4w = 0
    BY <1>1, <1>2, <1>3, <2>1 DEF Nothing
  <2> QED BY <1>3, <2>2 DEF PoolBalances, Nothing
<1>6. c.tokens + lp = poolBal[p].tokens + lp' /\ lp' \in Nat
  BY <1>1, <1>2, <1>3, FactsOfPool
<1> QED BY <1>1, <1>3, <1>4, <1>5, <1>6, OnlyTokensMove

LEMMA DonateKeeps ==
  ASSUME LedgerInv, NEW p \in Pools, NEW a \in Amounts, Donate(p, a)
  PROVE  LedgerInv'
<1> DEFINE c == Joining(poolBal[p], a, 0)
<1>1. /\ poolBal' = [poolBal EXCEPT ![p] = c] /\ userBal' = userBal
      /\ lp' = lp + a /\ now' = now /\ badDebt' = badDebt
  BY DEF Donate
<1>2. a \in Nat /\ poolBal[p] \in PoolBalances
  BY BackstopLedgerAssumption, FactsOfPool
<1>3. /\ c \in PoolBalances /\ c.shares = poolBal[p].shares + 0
      /\ c.tokens = poolBal[p].tokens + a /\ c.q4w = poolBal[p].q4w
  BY <1>2, JoiningIsTyped
<1>4. badDebt' \in [Pools -> BOOLEAN]
  BY <1>1 DEF LedgerInv, TypeOK
<1>5. p \in Deployed
  <2> SUFFICES ASSUME p \notin Deployed PROVE FALSE
    OBVIOUS
  <2>1. poolBal[p].shares = 0
    BY FactsOfPool DEF Nothing
  <2> QED BY <2>1 DEF Donate, IsPool
<1> HIDE DEF c
<1>6. /\ c.tokens + lp = poolBal[p].tokens + lp' /\ lp' \in Nat
      /\ c.shares = poolBal[p].shares
  BY <1>1, <1>2, <1>3, FactsOfPool
<1> QED BY <1>1, <1>3, <1>4, <1>5, <1>6, OnlyTokensMove

---------------------------------------------------------------------------
(* What a claim divides among the pools is no more than it was exchanged   *)
(* for: the parts are rounded down.                                        *)
LEMMA SharesOfClaim ==
  ASSUME NEW claims \in [Pools -> Nat], NEW out \in Nat, Total(claims) > 0
  PROVE  /\ \A p \in Pools : Share(claims, out, p) \in Nat
         /\ Total([p \in Pools |-> Share(claims, out, p)]) <= out
         /\ \A p \in Pools : claims[p] = 0 => Share(claims, out, p) = 0
<1> DEFINE T == Total(claims)
           part == [p \in Pools |-> Share(claims, out, p)]
           scaled == [p \in Pools |-> T * part[p]]
           whole == [p \in Pools |-> out * claims[p]]
<1>1. T \in Nat \ {0} /\ IsFiniteSet(Pools)
  BY TotalIsCount, BackstopLedgerAssumption
<1>2. \A p \in Pools : claims[p] \in Nat
  OBVIOUS
<1> HIDE DEF T
<1>3. ASSUME NEW p \in Pools
      PROVE  /\ Share(claims, out, p) \in Nat
             /\ T * Share(claims, out, p) <= out * claims[p]
             /\ claims[p] = 0 => Share(claims, out, p) = 0
  <2> DEFINE n == out * claims[p]
             f == FloorDiv(n, T)
  <2>1. n \in Nat /\ (claims[p] = 0 => n = 0)
    BY <1>2
  <2>2. Share(claims, out, p) = f
    BY DEF Share, MulFloor, T
  <2> HIDE DEF n
  <2>3. f \in Nat /\ f * T <= n
    BY <1>1, <2>1, FloorOfNat, FloorBounds
  <2> HIDE DEF f
  <2>4. n = 0 => f = 0
    BY <1>1, <2>3
  <2>5. f * T = T * f
    BY <1>1, <2>3
  <2> QED BY <2>1, <2>2, <2>3, <2>4, <2>5 DEF n
<1>4. part \in [Pools -> Nat]
  BY <1>3
<1>5. scaled \in [Pools -> Nat] /\ whole \in [Pools -> Nat]
  <2>1. \A p \in Pools : T * part[p] \in Nat /\ out * claims[p] \in Nat
    BY <1>1, <1>2, <1>4
  <2> QED BY <2>1
<1>6. \A p \in Pools : scaled[p] <= whole[p]
  BY <1>3
<1>7. Total(scaled) = T * Total(part) /\ Total(part) \in Nat
  <2> HIDE DEF part
  <2> QED BY <1>1, <1>4, TotalScaled, TotalIsCount
<1>8. Total(whole) = out * T
  BY <1>1, TotalScaled DEF T
<1> HIDE DEF scaled, whole
<1>9. Total(scaled) <= Total(whole)
  BY <1>1, <1>5, <1>6, TotalMonotone
<1> HIDE DEF part
<1>10. Total(part) <= out
  <2>1. T * Total(part) <= T * out
    BY <1>1, <1>7, <1>8, <1>9
  <2> QED BY <1>1, <1>7, <2>1
<1> QED BY <1>3, <1>10 DEF part

(* A claim deposits for one user in every pool.                            *)
LEMMA ClaimKeeps ==
  ASSUME LedgerInv, NEW u \in Users, NEW claims \in PossibleClaims, NEW out \in LpOuts,
         ClaimDeposit(u, claims, out)
  PROVE  LedgerInv'
<1> DEFINE part(p) == Share(claims, out, p)
           minted(p) == ConvertToShares(poolBal[p], part(p))
<1>1. /\ poolBal' = [p \in Pools |-> Joining(poolBal[p], part(p), minted(p))]
      /\ userBal' = [p \in Pools |-> [userBal[p] EXCEPT ![u] = AddShares(@, minted(p))]]
      /\ lp' = lp + out /\ now' = now /\ badDebt' = badDebt /\ Total(claims) > 0
  BY DEF ClaimDeposit
<1>2. /\ claims \in [Pools -> Nat] /\ out \in Nat
      /\ \A p \in Pools : p \notin Deployed => claims[p] = 0
  <2>1. Claims \cup {0} \subseteq Nat /\ out \in Nat
    BY BackstopLedgerAssumption
  <2>2. /\ claims \in [Pools -> Claims \cup {0}]
        /\ \A p \in Pools \ Deployed : claims[p] = 0
    BY DEF PossibleClaims
  <2> QED BY <2>1, <2>2
<1>3. /\ \A p \in Pools : part(p) \in Nat
      /\ Total([p \in Pools |-> part(p)]) <= out
      /\ \A p \in Pools : claims[p] = 0 => part(p) = 0
  BY <1>1, <1>2, SharesOfClaim
<1> HIDE DEF part
<1>4. /\ poolBal \in [Pools -> PoolBalances] /\ lp \in Nat
      /\ userBal \in [Pools -> [Users -> UserBalances]]
      /\ badDebt \in [Pools -> BOOLEAN] /\ now \in 0..MaxTime
  BY DEF LedgerInv, TypeOK
<1>5. \A p \in Pools : minted(p) \in Nat
  <2> SUFFICES ASSUME NEW p \in Pools PROVE minted(p) \in Nat
    OBVIOUS
  <2>1. poolBal[p] \in PoolBalances /\ part(p) \in Nat
    BY <1>3, <1>4
  <2> QED BY <2>1, ConversionsAreNat
<1> HIDE DEF minted
<1>6. ASSUME NEW p \in Pools
      PROVE  /\ poolBal'[p] \in PoolBalances /\ userBal'[p] \in [Users -> UserBalances]
             /\ poolBal'[p].shares = poolBal[p].shares + minted(p)
             /\ poolBal'[p].tokens = poolBal[p].tokens + part(p)
             /\ poolBal'[p].q4w = poolBal[p].q4w
             /\ \A v \in Users \ {u} : userBal'[p][v] = userBal[p][v]
             /\ userBal'[p][u] = AddShares(userBal[p][u], minted(p))
  <2> DEFINE b == AddShares(userBal[p][u], minted(p))
             c == Joining(poolBal[p], part(p), minted(p))
  <2>1. poolBal'[p] = c /\ userBal'[p] = [userBal[p] EXCEPT ![u] = b]
    BY <1>1
  <2>2. poolBal[p] \in PoolBalances /\ userBal[p] \in [Users -> UserBalances]
        /\ part(p) \in Nat /\ minted(p) \in Nat
    BY <1>3, <1>4, <1>5
  <2>3. b \in UserBalances
    BY <2>2, AddSharesIsTyped
  <2>4. /\ c \in PoolBalances /\ c.shares = poolBal[p].shares + minted(p)
        /\ c.tokens = poolBal[p].tokens + part(p) /\ c.q4w = poolBal[p].q4w
    BY <2>2, JoiningIsTyped
  <2> HIDE DEF b, c
  <2> QED BY <2>1, <2>2, <2>3, <2>4 DEF b
<1>7. TypeOK'
  <2>1. poolBal' \in [Pools -> PoolBalances] /\ userBal' \in [Pools -> [Users -> UserBalances]]
    BY <1>1, <1>6
  <2> QED BY <1>1, <1>2, <1>4, <2>1 DEF TypeOK
<1>8. SharesAddUp'
  <2> SUFFICES ASSUME NEW p \in Pools
               PROVE  AddsUp(poolBal'[p], userBal'[p])
    BY DEF SharesAddUp, AddsUp
  <2> DEFINE old == userBal[p][u]
             b == userBal'[p][u]
  <2>1. /\ old \in UserBalances /\ minted(p) \in Nat /\ poolBal[p] \in PoolBalances
        /\ userBal[p] \in [Users -> UserBalances] /\ AddsUp(poolBal[p], userBal[p])
    BY <1>4, <1>5, FactsOfPool
  <2>2. b = AddShares(old, minted(p))
    BY <1>6
  <2> HIDE DEF old, b
  <2>3. /\ QueuedOf(b) = QueuedOf(old) /\ QueuedOf(old) \in Nat
        /\ OwnedOf(b) = OwnedOf(old) + minted(p) /\ OwnedOf(old) \in Nat
    BY <2>1, <2>2, AddSharesIsTyped, BalanceIsNat
  <2>4. /\ OwnedOf(b) + poolBal[p].shares = OwnedOf(old) + poolBal'[p].shares
        /\ QueuedOf(b) + poolBal[p].q4w = QueuedOf(old) + poolBal'[p].q4w
    <3>1. poolBal[p].shares \in Nat /\ poolBal[p].q4w \in Nat
      BY FactsOfPool
    <3> QED BY <1>6, <2>1, <2>3, <3>1
  <2> QED BY <1>6, <2>1, <2>4, SharesMove DEF old, b
<1>9. TokensAreHeld'
  <2> DEFINE f == [p \in Pools |-> poolBal[p].tokens]
             g == [p \in Pools |-> part(p)]
             h == [p \in Pools |-> poolBal'[p].tokens]
  <2>1. f \in [Pools -> Nat] /\ g \in [Pools -> Nat] /\ IsFiniteSet(Pools)
    BY <1>3, <1>4, BackstopLedgerAssumption DEF PoolBalances
  <2>2. h = [p \in Pools |-> f[p] + g[p]]
    BY <1>6
  <2>3. Total(f) <= lp /\ Total(g) <= out
    BY <1>3 DEF LedgerInv, TokensAreHeld
  <2>4. TokensAreHeld' <=> Total(h) <= lp'
    BY DEF TokensAreHeld
  <2> HIDE DEF f, g, h
  <2>5. Total(h) = Total(f) + Total(g) /\ Total(f) \in Nat /\ Total(g) \in Nat
    BY <2>1, <2>2, TotalPlus, TotalIsCount
  <2> QED BY <1>1, <1>2, <1>4, <2>3, <2>4, <2>5
<1>10. QueuesAreOrdered'
  <2> SUFFICES ASSUME NEW p \in Pools, NEW v \in Users
               PROVE  InOrder(userBal'[p][v].q4w, now')
    BY DEF QueuesAreOrdered, InOrder
  <2>1. InOrder(userBal[p][v].q4w, now)
    BY FactsOfPool
  <2>2. userBal'[p][v].q4w = userBal[p][v].q4w
    <3>1. userBal[p][u] \in UserBalances /\ minted(p) \in Nat
      BY <1>4, <1>5
    <3> QED BY <1>6, <3>1, AddSharesIsTyped
  <2> QED BY <1>1, <2>1, <2>2
<1>11. StrangersHoldNothing'
  <2> SUFFICES ASSUME NEW p \in Pools, p \notin Deployed
               PROVE  poolBal'[p] = Nothing
    BY DEF StrangersHoldNothing, Nothing
  <2>1. poolBal[p] = Nothing /\ part(p) = 0
    BY <1>2, <1>3, FactsOfPool
  <2>2. minted(p) = 0
    BY <2>1 DEF minted, ConvertToShares, Nothing
  <2>3. /\ poolBal'[p].shares = 0 /\ poolBal'[p].tokens = 0 /\ poolBal'[p].q4w = 0
        /\ poolBal'[p] \in PoolBalances
    BY <1>6, <2>1, <2>2 DEF Nothing
  <2> QED BY <2>3 DEF PoolBalances, Nothing
<1> QED BY <1>7, <1>8, <1>9, <1>10, <1>11 DEF LedgerInv

---------------------------------------------------------------------------
(* The invariant at the start, and through whatever touches no balance.    *)
LEMMA InitSatisfies ==
  ASSUME Init
  PROVE  LedgerInv
<1>1. now = 0 /\ lp = 0 /\ badDebt \in [Pools -> BOOLEAN]
      /\ poolBal = [p \in Pools |-> Nothing]
      /\ userBal = [p \in Pools |-> [u \in Users |-> [shares |-> 0, q4w |-> <<>>]]]
  BY DEF Init, Nothing
<1> DEFINE none == [shares |-> 0, q4w |-> <<>>]
<1>2. none \in UserBalances /\ none.q4w = <<>> /\ none.shares = 0
  <2>1. <<>> \in Seq(Q4W)
    BY EmptySeq
  <2> QED BY <2>1 DEF UserBalances
<1>3. QueuedOf(none) = 0 /\ OwnedOf(none) = 0
  <2>1. Len(<<>>) = 0 /\ Queued(<<>>, 1, 0) = 0
    BY EmptySeq, QueuedOfNone
  <2> QED BY <1>2, <2>1 DEF QueuedOf, OwnedOf
<1>4. userBal = [p \in Pools |-> [u \in Users |-> none]]
  BY <1>1
<1> HIDE DEF none
<1>5. TypeOK
  <2>1. Nothing \in PoolBalances
    BY DEF Nothing, PoolBalances
  <2>2. 0 \in 0..MaxTime
    BY BackstopLedgerAssumption
  <2> QED BY <1>1, <1>2, <1>4, <2>1, <2>2 DEF TypeOK
<1>6. SharesAddUp
  <2> SUFFICES ASSUME NEW p \in Pools
               PROVE  AddsUp(poolBal[p], userBal[p])
    BY DEF SharesAddUp, AddsUp
  <2> DEFINE f == [u \in Users |-> OwnedOf(userBal[p][u])]
             g == [u \in Users |-> QueuedOf(userBal[p][u])]
  <2>1. /\ f \in [Users -> Nat] /\ g \in [Users -> Nat] /\ IsFiniteSet(Users)
        /\ \A u \in Users : f[u] = 0 /\ g[u] = 0
    BY <1>3, <1>4, BackstopLedgerAssumption
  <2> HIDE DEF f, g
  <2>2. Total(f) = 0 /\ Total(g) = 0
    BY <2>1, TotalOfZeros
  <2>3. poolBal[p].shares = 0 /\ poolBal[p].q4w = 0
    BY <1>1 DEF Nothing
  <2> QED BY <2>2, <2>3 DEF AddsUp, f, g
<1>7. TokensAreHeld
  <2> DEFINE f == [p \in Pools |-> poolBal[p].tokens]
  <2>1. f \in [Pools -> Nat] /\ IsFiniteSet(Pools) /\ \A p \in Pools : f[p] = 0
    BY <1>1, BackstopLedgerAssumption DEF Nothing
  <2> HIDE DEF f
  <2>2. Total(f) = 0
    BY <2>1, TotalOfZeros
  <2> QED BY <1>1, <2>2 DEF TokensAreHeld, f
<1>8. QueuesAreOrdered
  <2> SUFFICES ASSUME NEW p \in Pools, NEW u \in Users
               PROVE  InOrder(userBal[p][u].q4w, now)
    BY DEF QueuesAreOrdered, InOrder
  <2>1. userBal[p][u].q4w = <<>> /\ Len(<<>>) = 0
    BY <1>2, <1>4, EmptySeq
  <2>2. 0 <= MAX_Q4W_SIZE
    BY BackstopLedgerAssumption
  <2> QED BY <2>1, <2>2 DEF InOrder
<1>9. StrangersHoldNothing
  BY <1>1 DEF StrangersHoldNothing, Nothing
<1> QED BY <1>5, <1>6, <1>7, <1>8, <1>9 DEF LedgerInv

LEMMA RestKeeps ==
  ASSUME LedgerInv, (\E p \in Pools : DebtChanges(p)) \/ Tick \/ UNCHANGED vars
  PROVE  LedgerInv'
<1>1. /\ UNCHANGED <<poolBal, userBal, lp>>
      /\ now' \in 0..MaxTime /\ now' >= now
      /\ badDebt' \in [Pools -> BOOLEAN]
  <2>1. now \in 0..MaxTime /\ badDebt \in [Pools -> BOOLEAN] /\ MaxTime \in Nat
    BY BackstopLedgerAssumption DEF LedgerInv, TypeOK
  <2>2. CASE \E p \in Pools : DebtChanges(p)
    <3>1. PICK p \in Pools : DebtChanges(p)
      BY <2>2
    <3> QED BY <2>1, <3>1 DEF DebtChanges
  <2>3. CASE Tick
    BY <2>1, <2>3 DEF Tick
  <2>4. CASE UNCHANGED vars
    BY <2>1, <2>4 DEF vars
  <2> QED BY <2>2, <2>3, <2>4
<1>2. TypeOK'
  BY <1>1 DEF LedgerInv, TypeOK
<1>3. SharesAddUp' /\ TokensAreHeld' /\ StrangersHoldNothing'
  BY <1>1 DEF LedgerInv, SharesAddUp, TokensAreHeld, StrangersHoldNothing
<1>4. QueuesAreOrdered'
  <2> SUFFICES ASSUME NEW p \in Pools, NEW u \in Users
               PROVE  InOrder(userBal'[p][u].q4w, now')
    BY DEF QueuesAreOrdered, InOrder
  <2> DEFINE q == userBal[p][u].q4w
  <2>1. InOrder(q, now) /\ userBal[p][u] \in UserBalances
    BY FactsOfPool
  <2>2. q \in Seq(Q4W) /\ userBal'[p][u].q4w = q
    BY <1>1, <2>1, BalanceIsNat
  <2> HIDE DEF q
  <2>3. \A i \in 1..Len(q) : q[i].exp <= now' + Q4W_LOCK_TIME
    <3>1. \A i \in 1..Len(q) : q[i].exp \in Nat /\ q[i].exp <= now + Q4W_LOCK_TIME
      BY <2>1, <2>2, EntriesOfQueue DEF InOrder
    <3>2. now \in Nat /\ now' \in Nat /\ Q4W_LOCK_TIME \in Nat
      BY <1>1, BackstopLedgerAssumption, FactsOfPool
    <3> QED BY <1>1, <3>1, <3>2
  <2> QED BY <2>1, <2>2, <2>3 DEF InOrder
<1> QED BY <1>2, <1>3, <1>4 DEF LedgerInv

(* The invariant holds in every state, for any pools, users, amounts and   *)
(* times.                                                                  *)
THEOREM LedgerInvHolds == Spec => []LedgerInv
<1>1. ASSUME LedgerInv, [Next]_vars
      PROVE  LedgerInv'
  <2>1. CASE \E p \in Pools, a \in Amounts, u \in Users :
               \/ Deposit(u, p, a) \/ QueueWithdrawal(u, p, a)
               \/ DequeueWithdrawal(u, p, a) \/ Withdraw(u, p, a)
    BY <1>1, <2>1, DepositKeeps, QueueKeeps, DequeueKeeps, WithdrawKeeps
  <2>2. CASE \E p \in Pools, a \in Amounts : Draw(p, a) \/ Donate(p, a)
    BY <1>1, <2>2, DrawKeeps, DonateKeeps
  <2>3. CASE \E u \in Users, claims \in PossibleClaims, out \in LpOuts :
               ClaimDeposit(u, claims, out)
    BY <1>1, <2>3, ClaimKeeps
  <2>4. CASE (\E p \in Pools : DebtChanges(p)) \/ Tick \/ UNCHANGED vars
    BY <1>1, <2>4, RestKeeps
  <2> QED BY <1>1, <2>1, <2>2, <2>3, <2>4 DEF Next
<1>2. Init => LedgerInv
  BY InitSatisfies
<1> QED BY <1>1, <1>2, PTL DEF Spec

(* The five invariants that the runs check.  No balance ever goes below    *)
(* zero.                                                                   *)
THEOREM TypeCorrect == Spec => []TypeOK
<1>1. LedgerInv => TypeOK
  BY DEF LedgerInv
<1> QED BY <1>1, LedgerInvHolds, PTL

(* A pool's shares and its queue are exactly what its depositors own and   *)
(* have queued.                                                            *)
THEOREM SharesAlwaysAddUp == Spec => []SharesAddUp
<1>1. LedgerInv => SharesAddUp
  BY DEF LedgerInv
<1> QED BY <1>1, LedgerInvHolds, PTL

(* The backstop holds at least the tokens its pools count, all together.   *)
THEOREM TokensAreAlwaysHeld == Spec => []TokensAreHeld
<1>1. LedgerInv => TokensAreHeld
  BY DEF LedgerInv
<1> QED BY <1>1, LedgerInvHolds, PTL

(* Every queue is in order of expiry and bounded in length and time.       *)
THEOREM QueuesAreAlwaysOrdered == Spec => []QueuesAreOrdered
<1>1. LedgerInv => QueuesAreOrdered
  BY DEF LedgerInv
<1> QED BY <1>1, LedgerInvHolds, PTL

(* An address the pool factory does not know holds nothing.                *)
THEOREM StrangersAlwaysHoldNothing == Spec => []StrangersHoldNothing
<1>1. LedgerInv => StrangersHoldNothing
  BY DEF LedgerInv
<1> QED BY <1>1, LedgerInvHolds, PTL

---------------------------------------------------------------------------
(* The worth of a share, of a pool's balance before and after a call.      *)
NoDilution(b, c) ==
  /\ b.shares > 0 /\ c.shares > 0
  /\ c.tokens * b.shares < b.tokens * c.shares
  => c.shares = b.shares

NoneStranded(b, c) == b.shares > 0 /\ c.shares = 0 => c.tokens = 0

(* Shares minted at the rounded down rate cost the others nothing.         *)
LEMMA JoiningIsFair ==
  ASSUME NEW b \in PoolBalances, NEW a \in Nat
  PROVE  LET c == Joining(b, a, ConvertToShares(b, a))
         IN  NoDilution(b, c) /\ NoneStranded(b, c)
<1> DEFINE m == ConvertToShares(b, a)
           c == Joining(b, a, m)
           S == b.shares
           T == b.tokens
<1>1. m \in Nat /\ S \in Nat /\ T \in Nat
  BY ConversionsAreNat DEF PoolBalances
<1>2. S > 0 => IF T = 0 THEN m = 0 ELSE m = FloorDiv(a * S, T)
  BY <1>1 DEF ConvertToShares, MulFloor
<1> HIDE DEF m
<1>3. c.shares = S + m /\ c.tokens = T + a
  BY <1>1, JoiningIsTyped
<1> HIDE DEF c, S, T
<1>4. ASSUME S > 0, m # 0
      PROVE  (T + a) * S >= T * (S + m)
  <2>1. T # 0 /\ m = FloorDiv(a * S, T) /\ a * S \in Nat
    BY <1>1, <1>2, <1>4
  <2>2. m * T <= a * S
    BY <1>1, <2>1, FloorBounds
  <2>3. (T + a) * S = T * S + a * S /\ T * (S + m) = T * S + m * T
    BY <1>1
  <2> QED BY <1>1, <2>1, <2>2, <2>3
<1>5. /\ (T + a) * S \in Int /\ T * (S + m) \in Int
  BY <1>1
<1>6. NoDilution(b, c)
  <2>1. CASE m = 0
    BY <1>1, <1>3, <2>1 DEF NoDilution, S
  <2>2. CASE m # 0
    <3> SUFFICES ASSUME S > 0, (T + a) * S < T * (S + m) PROVE FALSE
      BY <1>3 DEF NoDilution, S, T
    <3> QED BY <1>4, <1>5, <2>2
  <2> QED BY <2>1, <2>2
<1>7. NoneStranded(b, c)
  BY <1>1, <1>3 DEF NoneStranded, S
<1> QED BY <1>6, <1>7 DEF c, m

(* Tokens paid at the rounded down rate cost those who stay nothing, and   *)
(* the last to leave gets them all.                                        *)
LEMMA LeavingIsFair ==
  ASSUME NEW b \in PoolBalances, NEW a \in Nat,
         MayLeave(b, ConvertToTokens(b, a), a)
  PROVE  LET c == Leaving(b, ConvertToTokens(b, a), a)
         IN  NoDilution(b, c) /\ NoneStranded(b, c)
<1> DEFINE t == ConvertToTokens(b, a)
           c == Leaving(b, t, a)
           S == b.shares
           T == b.tokens
<1>1. t \in Nat /\ S \in Nat /\ T \in Nat
  BY ConversionsAreNat DEF PoolBalances
<1>2. /\ S > 0 /\ S = a => t = T
      /\ S > 0 /\ S # a => t = FloorDiv(a * T, S)
  BY <1>1 DEF ConvertToTokens, MulFloor
<1>3. t <= T /\ a <= S
  BY DEF MayLeave
<1> HIDE DEF t
<1>4. c.shares = S - a /\ c.tokens = T - t
  BY DEF Leaving
<1> HIDE DEF c, S, T
<1>5. ASSUME S > 0, S # a
      PROVE  (T - t) * S >= T * (S - a)
  <2>1. t = FloorDiv(a * T, S) /\ a * T \in Nat
    BY <1>1, <1>2, <1>5
  <2>2. t * S <= a * T
    BY <1>1, <1>5, <2>1, FloorBounds
  <2>3. (T - t) * S = T * S - t * S /\ T * (S - a) = T * S - a * T
    BY <1>1
  <2> QED BY <1>1, <2>2, <2>3
<1>6. (T - t) * S \in Int /\ T * (S - a) \in Int
  BY <1>1
<1>7. NoDilution(b, c)
  <2> SUFFICES ASSUME S > 0, S - a > 0, (T - t) * S < T * (S - a) PROVE FALSE
    BY <1>4 DEF NoDilution, S, T
  <2> QED BY <1>1, <1>5, <1>6
<1>8. NoneStranded(b, c)
  <2> SUFFICES ASSUME S > 0, S - a = 0 PROVE T - t = 0
    BY <1>4 DEF NoneStranded, S
  <2> QED BY <1>1, <1>2
<1> QED BY <1>7, <1>8 DEF c, t

(* Every step treats every pool's depositors so.                           *)
LEMMA StepsAreFair ==
  ASSUME LedgerInv, Next, NEW p \in Pools
  PROVE  NoDilution(poolBal[p], poolBal'[p]) /\ NoneStranded(poolBal[p], poolBal'[p])
<1>0. /\ poolBal \in [Pools -> PoolBalances] /\ poolBal[p] \in PoolBalances
      /\ poolBal[p].shares \in Nat
  BY DEF LedgerInv, TypeOK, PoolBalances
<1>1. ASSUME poolBal'[p].shares = poolBal[p].shares
      PROVE  NoDilution(poolBal[p], poolBal'[p]) /\ NoneStranded(poolBal[p], poolBal'[p])
  BY <1>0, <1>1 DEF NoDilution, NoneStranded
<1>2. ASSUME NEW r \in Pools, NEW c, poolBal' = [poolBal EXCEPT ![r] = c], r # p
      PROVE  poolBal'[p].shares = poolBal[p].shares
  BY <1>0, <1>2
<1>3. ASSUME NEW u \in Users, NEW r \in Pools, NEW a \in Amounts, Deposit(u, r, a)
      PROVE  NoDilution(poolBal[p], poolBal'[p]) /\ NoneStranded(poolBal[p], poolBal'[p])
  <2>1. poolBal' = [poolBal EXCEPT ![r] = Joining(@, a, ConvertToShares(poolBal[r], a))]
    BY <1>3 DEF Deposit
  <2>2. CASE r # p
    BY <1>1, <1>2, <2>1, <2>2
  <2>3. CASE r = p
    <3>1. poolBal'[p] = Joining(poolBal[p], a, ConvertToShares(poolBal[p], a))
      BY <1>0, <2>1, <2>3
    <3>2. a \in Nat
      BY BackstopLedgerAssumption
    <3> QED BY <1>0, <3>1, <3>2, JoiningIsFair
  <2> QED BY <2>2, <2>3
<1>4. ASSUME NEW u \in Users, NEW r \in Pools, NEW a \in Amounts,
             QueueWithdrawal(u, r, a) \/ DequeueWithdrawal(u, r, a)
      PROVE  poolBal'[p].shares = poolBal[p].shares
  <2>1. \E x \in Int : poolBal' = [poolBal EXCEPT ![r] = [poolBal[r] EXCEPT !.q4w = x]]
    <3>1. /\ poolBal[r].q4w + a \in Int /\ poolBal[r].q4w - a \in Int
      BY BackstopLedgerAssumption, FactsOfPool
    <3> QED BY <1>4, <3>1 DEF QueueWithdrawal, DequeueWithdrawal
  <2>2. poolBal[r] \in PoolBalances
    BY <1>0
  <2>3. CASE r # p
    BY <1>2, <2>1, <2>3
  <2>4. CASE r = p
    BY <1>0, <2>1, <2>2, <2>4 DEF PoolBalances
  <2> QED BY <2>3, <2>4
<1>5. ASSUME NEW u \in Users, NEW r \in Pools, NEW a \in Amounts, Withdraw(u, r, a)
      PROVE  NoDilution(poolBal[p], poolBal'[p]) /\ NoneStranded(poolBal[p], poolBal'[p])
  <2>1. /\ poolBal' = [poolBal EXCEPT ![r] = Leaving(@, ConvertToTokens(poolBal[r], a), a)]
        /\ MayLeave(poolBal[r], ConvertToTokens(poolBal[r], a), a)
    BY <1>5 DEF Withdraw
  <2>2. CASE r # p
    BY <1>1, <1>2, <2>1, <2>2
  <2>3. CASE r = p
    <3>1. poolBal'[p] = Leaving(poolBal[p], ConvertToTokens(poolBal[p], a), a)
      BY <1>0, <2>1, <2>3
    <3>2. a \in Nat
      BY BackstopLedgerAssumption
    <3> QED BY <1>0, <2>1, <2>3, <3>1, <3>2, LeavingIsFair
  <2> QED BY <2>2, <2>3
<1>6. ASSUME NEW r \in Pools, NEW a \in Amounts, Draw(r, a) \/ Donate(r, a)
      PROVE  poolBal'[p].shares = poolBal[p].shares
  <2>1. /\ a \in Nat /\ poolBal[r] \in PoolBalances /\ poolBal[r].shares \in Nat
    BY <1>0, BackstopLedgerAssumption, FactsOfPool
  <2>2. /\ Leaving(poolBal[r], a, 0).shares = poolBal[r].shares
        /\ Joining(poolBal[r], a, 0).shares = poolBal[r].shares
    <3>1. Joining(poolBal[r], a, 0).shares = poolBal[r].shares + 0
      BY <2>1, JoiningIsTyped
    <3>2. Leaving(poolBal[r], a, 0).shares = poolBal[r].shares - 0
      BY DEF Leaving
    <3> QED BY <2>1, <3>1, <3>2
  <2>3. \E c : poolBal' = [poolBal EXCEPT ![r] = c] /\ c.shares = poolBal[r].shares
    BY <1>6, <2>2 DEF Draw, Donate
  <2>4. CASE r # p
    BY <1>2, <2>3, <2>4
  <2>5. CASE r = p
    BY <1>0, <2>3, <2>5
  <2> QED BY <2>4, <2>5
<1>7. ASSUME NEW u \in Users, NEW claims \in PossibleClaims, NEW out \in LpOuts,
             ClaimDeposit(u, claims, out)
      PROVE  NoDilution(poolBal[p], poolBal'[p]) /\ NoneStranded(poolBal[p], poolBal'[p])
  <2>1. /\ claims \in [Pools -> Nat] /\ out \in Nat /\ Total(claims) > 0
    <3>1. Claims \cup {0} \subseteq Nat /\ out \in Nat
      BY BackstopLedgerAssumption
    <3> QED BY <1>7, <3>1 DEF PossibleClaims, ClaimDeposit
  <2> DEFINE a == Share(claims, out, p)
  <2>2. a \in Nat
    BY <2>1, SharesOfClaim
  <2>3. poolBal'[p] = Joining(poolBal[p], a, ConvertToShares(poolBal[p], a))
    BY <1>7 DEF ClaimDeposit
  <2> HIDE DEF a
  <2> QED BY <1>0, <2>2, <2>3, JoiningIsFair
<1>8. ASSUME (\E r \in Pools : DebtChanges(r)) \/ Tick
      PROVE  poolBal'[p].shares = poolBal[p].shares
  BY <1>8 DEF DebtChanges, Tick
<1> QED BY <1>1, <1>3, <1>4, <1>5, <1>6, <1>7, <1>8 DEF Next

(* No deposit, withdrawal or claim ever costs the other depositors.        *)
THEOREM DepositorsAreNotDiluted == Spec => OnlyDrawsCostDepositors
<1>1. ASSUME LedgerInv, [Next]_vars
      PROVE  [\A p \in Pools :
                /\ poolBal[p].shares > 0 /\ poolBal'[p].shares > 0
                /\ poolBal'[p].tokens * poolBal[p].shares
                     < poolBal[p].tokens * poolBal'[p].shares
                => poolBal'[p].shares = poolBal[p].shares]_poolBal
  <2>1. CASE UNCHANGED vars
    BY <2>1 DEF vars
  <2>2. CASE Next
    BY <1>1, <2>2, StepsAreFair DEF NoDilution
  <2> QED BY <1>1, <2>1, <2>2
<1> QED BY <1>1, LedgerInvHolds, PTL DEF Spec, OnlyDrawsCostDepositors

(* The last depositor of a pool leaves no tokens behind.                   *)
THEOREM LastDepositorTakesAll == Spec => LastOneTakesAll
<1>1. ASSUME LedgerInv, [Next]_vars
      PROVE  [\A p \in Pools :
                poolBal[p].shares > 0 /\ poolBal'[p].shares = 0
                  => poolBal'[p].tokens = 0]_poolBal
  <2>1. CASE UNCHANGED vars
    BY <2>1 DEF vars
  <2>2. CASE Next
    BY <1>1, <2>2, StepsAreFair DEF NoneStranded
  <2> QED BY <1>1, <2>1, <2>2
<1> QED BY <1>1, LedgerInvHolds, PTL DEF Spec, LastOneTakesAll

---------------------------------------------------------------------------
(* A withdrawal leaves what is locked where it is, and takes no more than  *)
(* has expired.                                                            *)
LEMMA WithdrawalLeavesLocked ==
  ASSUME LedgerInv, NEW q \in Seq(Q4W), NEW a \in Nat, MayWithdrawShares(q, a)
  PROVE  /\ a <= Expired(q)
         /\ Locked(AfterWithdrawal(q, a)) = Locked(q)
<1> DEFINE k == TakenFront(q, a)
           r == AfterWithdrawal(q, a)
           n == Len(q)
<1>1. /\ EnoughFront(q, a) # {}
      /\ \A i \in 1..k : q[i].exp <= now
  BY DEF MayWithdrawShares
<1>2. n \in Nat /\ \A i \in 1..n : q[i].amount \in Nat /\ q[i].exp \in Nat
  BY EntriesOfQueue
<1>3. /\ k \in 1..n /\ a <= Queued(q, 1, k) /\ r \in Seq(Q4W)
      /\ \E s \in {k - 1, k} :
           /\ Len(r) = n - s
           /\ \A i \in 1..Len(r) : /\ r[i].exp = q[i + s].exp
                                   /\ i + s > k => r[i] = q[i + s]
  BY <1>1, WithdrawalTakesFront
<1> HIDE DEF k, r, n
<1>4. a <= Expired(q)
  <2> DEFINE E == {i \in 1..n : q[i].exp <= now}
             f == [i \in E |-> q[i].amount]
             g == [i \in 1..k |-> q[i].amount]
             h == [i \in E \ (1..k) |-> f[i]]
  <2>1. IsFiniteSet(E) /\ 1..k \subseteq E /\ f \in [E -> Nat]
    <3>1. IsFiniteSet(1..n) /\ E \subseteq 1..n
      BY <1>2, FS_Interval
    <3>2. IsFiniteSet(E)
      BY <3>1, FS_Subset
    <3>3. 1..k \subseteq E
      BY <1>1, <1>2, <1>3
    <3> QED BY <1>2, <3>1, <3>2, <3>3
  <2>2. g = [i \in 1..k |-> f[i]]
    BY <2>1
  <2>3. Expired(q) = Total(f) /\ Queued(q, 1, k) = Total(g)
    BY DEF Expired, Queued, n
  <2> HIDE DEF E, f, g
  <2>4. /\ Total(f) = Total(g) + Total(h)
        /\ Total(g) \in Nat /\ Total(h) \in Nat
    BY <2>1, <2>2, TotalSplit
  <2> HIDE DEF h
  <2> QED BY <1>3, <2>3, <2>4
<1>5. Locked(r) = Locked(q)
  <2>1. PICK s \in {k - 1, k} :
           /\ Len(r) = n - s
           /\ \A i \in 1..Len(r) : /\ r[i].exp = q[i + s].exp
                                   /\ i + s > k => r[i] = q[i + s]
    BY <1>3
  <2>2. s \in Nat /\ Len(r) \in Nat /\ now \in Nat /\ k \in Nat
    BY <1>2, <1>3, <2>1, BackstopLedgerAssumption DEF LedgerInv, TypeOK
  <2>3. ASSUME NEW i \in 1..Len(r), r[i].exp > now
        PROVE  <<Len(r) - i, r[i]>> \in Locked(q)
    <3>1. i + s \in 1..n /\ q[i + s].exp > now
      BY <1>2, <2>1, <2>2, <2>3
    <3>2. ~(i + s \in 1..k)
      BY <1>1, <1>2, <2>2, <3>1
    <3>3. i + s > k
      BY <1>2, <2>2, <3>1, <3>2
    <3>4. r[i] = q[i + s] /\ Len(r) - i = n - (i + s)
      BY <1>2, <2>1, <2>2, <3>3
    <3> QED BY <3>1, <3>4 DEF Locked, n
  <2>4. ASSUME NEW j \in 1..n, q[j].exp > now
        PROVE  <<n - j, q[j]>> \in Locked(r)
    <3>1. ~(j \in 1..k)
      BY <1>1, <1>2, <2>2, <2>4
    <3>2. j > k
      BY <1>2, <2>2, <3>1
    <3>3. j - s \in 1..Len(r) /\ (j - s) + s = j
      BY <1>2, <2>1, <2>2, <3>2
    <3>4. r[j - s] = q[j] /\ Len(r) - (j - s) = n - j
      BY <1>2, <2>1, <2>2, <3>2, <3>3
    <3> QED BY <2>4, <3>3, <3>4 DEF Locked
  <2> QED BY <2>3, <2>4 DEF Locked, n
<1> QED BY <1>4, <1>5 DEF r

(* What a user owns shrinks only by withdrawing.                           *)
LEMMA StepsRespectLocks ==
  ASSUME LedgerInv, Next, NEW p \in Pools, NEW u \in Users
  PROVE  LET before == userBal[p][u]
             after  == userBal'[p][u]
         IN  OwnedOf(after) < OwnedOf(before) =>
               /\ OwnedOf(before) - OwnedOf(after) <= Expired(before.q4w)
               /\ Locked(after.q4w) = Locked(before.q4w)
<1> DEFINE before == userBal[p][u]
           after  == userBal'[p][u]
           goal   == OwnedOf(after) < OwnedOf(before) =>
                       /\ OwnedOf(before) - OwnedOf(after) <= Expired(before.q4w)
                       /\ Locked(after.q4w) = Locked(before.q4w)
<1>0. /\ userBal \in [Pools -> [Users -> UserBalances]]
      /\ before \in UserBalances /\ OwnedOf(before) \in Nat /\ QueuedOf(before) \in Nat
      /\ before.shares \in Nat /\ before.q4w \in Seq(Q4W)
  BY BalanceIsNat DEF LedgerInv, TypeOK
<1>1. ASSUME OwnedOf(after) >= OwnedOf(before), OwnedOf(after) \in Nat PROVE goal
  BY <1>0, <1>1
<1>2. ASSUME NEW v \in Users, NEW r \in Pools, NEW b,
             userBal' = [userBal EXCEPT ![r][v] = b], r # p \/ v # u
      PROVE  goal
  <2>1. after = before
    BY <1>0, <1>2
  <2> QED BY <1>0, <1>1, <2>1
<1>3. ASSUME NEW v \in Users, NEW r \in Pools, NEW a \in Amounts,
             \/ Deposit(v, r, a) \/ QueueWithdrawal(v, r, a)
             \/ DequeueWithdrawal(v, r, a) \/ Withdraw(v, r, a)
      PROVE  \E b : userBal' = [userBal EXCEPT ![r][v] = b]
  BY <1>3 DEF Deposit, QueueWithdrawal, DequeueWithdrawal, Withdraw
<1>4. ASSUME NEW a \in Amounts, Deposit(u, p, a) PROVE goal
  <2> DEFINE m == ConvertToShares(poolBal[p], a)
  <2>1. a \in Nat /\ m \in Nat
    BY BackstopLedgerAssumption, FactsOfPool, ConversionsAreNat
  <2>2. after = AddShares(before, m)
    BY <1>0, <1>4 DEF Deposit
  <2> HIDE DEF m, before, after
  <2>3. OwnedOf(after) = OwnedOf(before) + m
    BY <1>0, <2>1, <2>2, AddSharesIsTyped
  <2> QED BY <1>0, <1>1, <2>1, <2>3
<1>5. ASSUME NEW a \in Amounts, QueueWithdrawal(u, p, a) PROVE goal
  <2> DEFINE e == [amount |-> a, exp |-> now + Q4W_LOCK_TIME]
             q == before.q4w
             s == <<e>>
  <2>1. /\ a \in Nat /\ now \in Nat /\ Q4W_LOCK_TIME \in Nat /\ before.shares >= a
    BY <1>5, BackstopLedgerAssumption, FactsOfPool DEF QueueWithdrawal, MayQueue
  <2>2. e \in Q4W /\ e.amount = a
    BY <2>1 DEF Q4W
  <2>3. after = [shares |-> before.shares - a, q4w |-> Append(q, e)]
    BY <1>0, <1>5 DEF QueueWithdrawal
  <2> HIDE DEF before, after, e
  <2>4. /\ Append(q, e) = q \o s /\ s \in Seq(Q4W) /\ Len(s) = 1 /\ s[1] = e
    BY <1>0, <2>2, AppendIsConcat
  <2>5. after.q4w = q \o s /\ after.shares = before.shares - a
    BY <2>3, <2>4
  <2> HIDE DEF s
  <2>6. Queued(s, 1, 1) = a
    <3>1. 1 \in 1..Len(s) /\ s[1].amount = a
      BY <2>2, <2>4
    <3> QED BY <2>4, <3>1, QueuedOfOne
  <2>7. QueuedOf(after) = QueuedOf(before) + a
    BY <1>0, <2>4, <2>5, <2>6, QueuedOfConcat DEF QueuedOf
  <2>8. OwnedOf(after) = OwnedOf(before)
    BY <1>0, <2>1, <2>5, <2>7 DEF OwnedOf
  <2> QED BY <1>0, <1>1, <2>8
<1>6. ASSUME NEW a \in Amounts, DequeueWithdrawal(u, p, a) PROVE goal
  <2> DEFINE q == before.q4w
             r == AfterDequeue(q, a)
  <2>1. a \in Nat /\ MayDequeueShares(q, a)
    BY <1>6, BackstopLedgerAssumption DEF DequeueWithdrawal
  <2>2. after = [shares |-> before.shares + a, q4w |-> r]
    BY <1>0, <1>6 DEF DequeueWithdrawal
  <2> HIDE DEF before, after
  <2>3. Queued(r, 1, Len(r)) = Queued(q, 1, Len(q)) - a
    BY <1>0, <2>1, DequeueTakesBack
  <2>4. QueuedOf(after) = QueuedOf(before) - a /\ after.shares = before.shares + a
    BY <2>2, <2>3 DEF QueuedOf
  <2>5. OwnedOf(after) = OwnedOf(before)
    BY <1>0, <2>1, <2>4 DEF OwnedOf
  <2> QED BY <1>0, <1>1, <2>5
<1>7. ASSUME NEW a \in Amounts, Withdraw(u, p, a) PROVE goal
  <2> DEFINE q == before.q4w
             r == AfterWithdrawal(q, a)
  <2>1. a \in Nat /\ MayWithdrawShares(q, a) /\ EnoughFront(q, a) # {}
    BY <1>7, BackstopLedgerAssumption DEF Withdraw, MayWithdrawShares
  <2>2. after = [before EXCEPT !.q4w = r]
    BY <1>0, <1>7 DEF Withdraw
  <2> HIDE DEF before, after
  <2>3. after.q4w = r /\ after.shares = before.shares
    BY <1>0, <2>2 DEF UserBalances
  <2>4. Queued(r, 1, Len(r)) = Queued(q, 1, Len(q)) - a
    BY <1>0, <2>1, WithdrawalTakesFront
  <2>5. OwnedOf(after) = OwnedOf(before) - a
    BY <1>0, <2>1, <2>3, <2>4 DEF OwnedOf, QueuedOf
  <2>6. a <= Expired(q) /\ Locked(r) = Locked(q)
    BY <1>0, <2>1, WithdrawalLeavesLocked
  <2> QED BY <1>0, <2>1, <2>3, <2>5, <2>6
<1>8. ASSUME NEW v \in Users, NEW claims \in PossibleClaims, NEW out \in LpOuts,
             ClaimDeposit(v, claims, out)
      PROVE  goal
  <2> DEFINE m == ConvertToShares(poolBal[p], Share(claims, out, p))
  <2>1. /\ claims \in [Pools -> Nat] /\ out \in Nat /\ Total(claims) > 0
    <3>1. Claims \cup {0} \subseteq Nat /\ out \in Nat
      BY BackstopLedgerAssumption
    <3> QED BY <1>8, <3>1 DEF PossibleClaims, ClaimDeposit
  <2>2. m \in Nat
    <3>1. Share(claims, out, p) \in Nat /\ poolBal[p] \in PoolBalances
      BY <2>1, SharesOfClaim, FactsOfPool
    <3> QED BY <3>1, ConversionsAreNat
  <2>3. userBal'[p] = [userBal[p] EXCEPT ![v] = AddShares(userBal[p][v], m)]
    BY <1>8 DEF ClaimDeposit
  <2>4. after = before \/ after = AddShares(before, m)
    BY <1>0, <2>3
  <2> HIDE DEF m, before, after
  <2>5. after = before \/ OwnedOf(after) = OwnedOf(before) + m
    BY <1>0, <2>2, <2>4, AddSharesIsTyped
  <2> QED BY <1>0, <1>1, <2>2, <2>5
<1>9. ASSUME (\E r \in Pools, a \in Amounts : Draw(r, a) \/ Donate(r, a))
             \/ (\E r \in Pools : DebtChanges(r)) \/ Tick
      PROVE  goal
  <2>1. after = before
    BY <1>9 DEF Draw, Donate, DebtChanges, Tick
  <2> QED BY <1>0, <1>1, <2>1
<1> HIDE DEF goal
<1> QED
  BY <1>2, <1>3, <1>4, <1>5, <1>6, <1>7, <1>8, <1>9 DEF Next, goal

(* Nobody takes shares out before they have waited, and taking the expired *)
(* ones leaves the others as they are.                                     *)
THEOREM LocksAreRespected == Spec => OnlyExpiredSharesLeave
<1>1. ASSUME LedgerInv, [Next]_vars
      PROVE  [\A p \in Pools, u \in Users :
                LET before == userBal[p][u]
                    after  == userBal'[p][u]
                IN  OwnedOf(after) < OwnedOf(before) =>
                      /\ OwnedOf(before) - OwnedOf(after) <= Expired(before.q4w)
                      /\ Locked(after.q4w) = Locked(before.q4w)]_userBal
  <2>1. CASE UNCHANGED vars
    BY <2>1 DEF vars
  <2>2. CASE Next
    BY <1>1, <2>2, StepsRespectLocks
  <2> QED BY <1>1, <2>1, <2>2
<1> QED BY <1>1, LedgerInvHolds, PTL DEF Spec, OnlyExpiredSharesLeave
=============================================================================
