--------------------------- MODULE CarouselProofs ---------------------------
(***************************************************************************)
(* Proofs about a Carousel vault: the arithmetic of a rollover, the index  *)
(* of the rollover queue, and the invariant that keeps every epoch backed. *)
(***************************************************************************)
EXTENDS CarouselProperties, FiniteSums, TLAPS

\* A rounded-down quotient is less than one below the exact one.
LEMMA QuotientBounds ==
    ASSUME NEW p \in Nat, NEW d \in Nat \ {0}
    PROVE  /\ p \div d \in Nat
           /\ d * (p \div d) <= p
           /\ p < d * (p \div d) + d
  BY SMT

\* The same facts for a position of s shares of an epoch with final TVL F and
\* claim C: E is its value, q the shares its profit is converted back into.
LEMMA RolloverArithmetic ==
    ASSUME NEW s \in Nat, NEW F \in Nat \ {0}, NEW C \in Nat \ {0},
           NEW E \in Nat, NEW q \in Nat,
           E > s,
           F * E <= s * C, s * C < F * E + F,
           C * q <= (E - s) * F, (E - s) * F < C * q + C
    PROVE  /\ q <= s
           /\ (s - q) * C >= s * F
           /\ (s - q) * C < (s + 1) * F + C
<1>1. (E - s) * F = F * E - s * F
  OBVIOUS
<1>2. (s - q) * C = s * C - C * q
  OBVIOUS
<1>3. (s + 1) * F = s * F + F
  OBVIOUS
<1>4. s * F \in Nat /\ s * C \in Nat /\ C * q \in Nat /\ F * E \in Nat
  OBVIOUS
<1>5. (s - q) * C >= s * F
  BY <1>1, <1>2, <1>4
<1>6. (s - q) * C < (s + 1) * F + C
  BY <1>1, <1>2, <1>3, <1>4
<1>7. q <= s
  <2>1. (s - q) * C >= 0
    BY <1>4, <1>5
  <2>2. s - q >= 0
    BY <2>1
  <2>3. QED
    BY <2>2
<1>8. QED
  BY <1>5, <1>6, <1>7

\* A position that mintRollovers rolls over: the shares it burns in the old
\* epoch exist, are worth at least the assets that move to the new epoch (so
\* the epoch stays backed), and exceed them by less than one asset and one
\* share.  This is why EpochsBacked survives a rollover and what RolloverFair
\* promises, whatever the position, the outcome and the relayer fee.
THEOREM RolloverCovered ==
    ASSUME NEW item \in QueueItem, item.epochId \in Epochs,
           finalTVL \in [Epochs -> Nat], claimTVL \in [Epochs -> Nat],
           finalTVL[item.epochId] # 0,
           IsRolledOver(item)
    PROVE  /\ OriginalDepositValue(item) \in 0..item.shares
           /\ OriginalDepositValue(item) * claimTVL[item.epochId] >=
                 item.shares * finalTVL[item.epochId]
           /\ OriginalDepositValue(item) * claimTVL[item.epochId] <
                 (item.shares + 1) * finalTVL[item.epochId]
                     + claimTVL[item.epochId]
<1> DEFINE s == item.shares
           F == finalTVL[item.epochId]
           C == claimTVL[item.epochId]
           E == (s * C) \div F
           q == ((E - s) * F) \div C
<1>1. s \in Nat /\ F \in Nat \ {0} /\ C \in Nat
  BY DEF QueueItem
<1>2. E = PreviewWithdraw(item.epochId, item.shares)
  BY DEF PreviewWithdraw, MulDivDown
<1>3. E > s
  BY <1>2 DEF IsRolledOver
<1> HIDE DEF s, F, C
<1>4. s * C \in Nat
  BY <1>1
<1>5. E \in Nat /\ F * E <= s * C /\ s * C < F * E + F
  BY <1>1, <1>4, QuotientBounds
<1>6. C # 0
  <2> SUFFICES ASSUME C = 0 PROVE FALSE
    OBVIOUS
  <2>1. F * E <= 0
    BY <1>1, <1>5
  <2>2. E > 0
    BY <1>1, <1>3, <1>5
  <2>3. F * E > 0
    BY <1>1, <2>2, <1>5
  <2>4. QED
    BY <2>1, <2>3, <1>1, <1>5
<1>7. (E - s) * F \in Nat
  BY <1>1, <1>3, <1>5
<1>8. q \in Nat /\ C * q <= (E - s) * F /\ (E - s) * F < C * q + C
  BY <1>1, <1>6, <1>7, QuotientBounds
<1>9. OriginalDepositValue(item) = s - q
  BY <1>2, <1>6 DEF OriginalDepositValue, PreviewAmountInShares, MulDivDown,
                    s, F, C
<1> HIDE DEF E, q
<1>10. /\ q <= s
       /\ (s - q) * C >= s * F
       /\ (s - q) * C < (s + 1) * F + C
  BY <1>1, <1>3, <1>5, <1>6, <1>8, RolloverArithmetic
<1>11. QED
  BY <1>1, <1>8, <1>9, <1>10 DEF s, F, C
-----------------------------------------------------------------------------
(* The rollover queue and its index.                                       *)

\* The queue and index a clean-up works on: QueueInv for a state of the loop,
\* whose items all come from the queue it started with.
LoopOK(s) ==
    /\ s.queue \in Seq(QueueItem)
    /\ s.index \in [Users -> 0..Len(s.queue)]
    /\ \A u \in Users : s.index[u] # 0 => s.queue[s.index[u]].receiver = u
    /\ \A i \in 1..Len(s.queue) : s.index[s.queue[i].receiver] = i
    /\ \A i \in 1..Len(s.queue) :
          \E j \in 1..Len(rolloverQueue) : s.queue[i] = rolloverQueue[j]

\* The queue without its last item, which takes the place of item i.
LEMMA ItemMoved ==
    ASSUME NEW q \in Seq(QueueItem), NEW i \in 1..Len(q), i < Len(q)
    PROVE  LET new == Front([q EXCEPT ![i] = Last(q)])
           IN  /\ new \in Seq(QueueItem)
               /\ Len(new) = Len(q) - 1
               /\ new[i] = q[Len(q)]
               /\ \A j \in 1..(Len(q) - 1) : j # i => new[j] = q[j]
<1> DEFINE edited == [q EXCEPT ![i] = Last(q)]
<1>1. Last(q) = q[Len(q)] /\ Last(q) \in QueueItem
  BY DEF Last
<1>2. /\ edited \in Seq(QueueItem) /\ Len(edited) = Len(q)
      /\ edited[i] = q[Len(q)]
      /\ \A j \in 1..Len(q) : j # i => edited[j] = q[j]
  BY <1>1
<1> HIDE DEF edited
<1>3. Front(edited) = SubSeq(edited, 1, Len(q) - 1)
  BY <1>2 DEF Front
<1> DEFINE new == SubSeq(edited, 1, Len(q) - 1)
<1>4. new \in Seq(QueueItem) /\ Len(new) = Len(q) - 1
  BY <1>2
<1>5. \A j \in 1..(Len(q) - 1) : new[j] = edited[j]
  BY <1>2
<1> HIDE DEF new
<1>6. /\ new[i] = q[Len(q)]
      /\ \A j \in 1..(Len(q) - 1) : j # i => new[j] = q[j]
  BY <1>2, <1>5
<1>7. Front([q EXCEPT ![i] = Last(q)]) = new
  BY <1>3 DEF edited, new
<1>8. QED
  BY <1>4, <1>6, <1>7

\* One iteration of cleanUpRolloverQueue keeps owners and items matched.
LEMMA CleanUpOneKeepsIndex ==
    ASSUME NEW s, LoopOK(s), NEW owner \in Users
    PROVE  LoopOK(CleanUpOne(s, owner))
<1> DEFINE q == s.queue
           n == Len(q)
           i == s.index[owner]
           r == q[n].receiver
           t == [ok |-> TRUE,
                 queue |-> Front([q EXCEPT ![i] = Last(q)]),
                 index |-> [s.index EXCEPT ![Last(q).receiver] = i, ![owner] = 0]]
<1>1. CASE CleanUpOne(s, owner) = s
  BY <1>1
<1>2. CASE CleanUpOne(s, owner) = [s EXCEPT !.ok = FALSE]
  BY <1>2 DEF LoopOK
<1>3. CASE CleanUpOne(s, owner) = t /\ i # 0 /\ i # n
  <2>1. /\ q \in Seq(QueueItem) /\ n \in Nat /\ i \in 1..n /\ i < n
        /\ s.index \in [Users -> 0..n]
        /\ \A u \in Users : s.index[u] # 0 => q[s.index[u]].receiver = u
        /\ \A j \in 1..n : s.index[q[j].receiver] = j
    BY <1>3 DEF LoopOK
  <2>2. /\ t.queue \in Seq(QueueItem)
        /\ Len(t.queue) = n - 1
        /\ t.queue[i] = q[n]
        /\ \A j \in 1..(n - 1) : j # i => t.queue[j] = q[j]
    BY <2>1, ItemMoved
  <2>3. /\ r \in Users /\ r # owner /\ Last(q).receiver = r
        /\ \A j \in 1..n : q[j].receiver \in Users
    <3>1. \A j \in 1..n : q[j] \in QueueItem
      BY <2>1
    <3>2. \A j \in 1..n : q[j].receiver \in Users
      BY <3>1 DEF QueueItem
    <3>3. n \in 1..n /\ s.index[r] = n
      BY <2>1
    <3>4. QED
      BY <2>1, <3>2, <3>3 DEF Last
  <2>4. t.index = [s.index EXCEPT ![r] = i, ![owner] = 0]
    BY <2>3
  <2>5. /\ t.index[r] = i /\ t.index[owner] = 0
        /\ \A u \in Users : u # r /\ u # owner => t.index[u] = s.index[u]
        /\ DOMAIN t.index = Users
    BY <2>1, <2>3, <2>4
  <2>6. \A u \in Users : u # r => s.index[u] # n
    BY <2>1
  <2>7. q[i].receiver = owner
    BY <2>1
  <2>8. \A j \in 1..n : \E k \in 1..Len(rolloverQueue) : q[j] = rolloverQueue[k]
    BY DEF LoopOK
  <2> HIDE DEF q, n, i, r, t
  <2>9. \A u \in Users : t.index[u] \in 0..(n - 1)
    BY <2>1, <2>5, <2>6
  <2>10. t.index \in [Users -> 0..Len(t.queue)]
    <3>1. t.index = [u \in Users |-> t.index[u]]
      BY <2>4, <2>1
    <3>2. QED
      BY <2>9, <2>2, <3>1
  <2>11. ASSUME NEW u \in Users, t.index[u] # 0
         PROVE  t.queue[t.index[u]].receiver = u
    <3>1. CASE u = r
      BY <3>1, <2>2, <2>5 DEF r
    <3>2. CASE u # r
      <4>1. u # owner /\ t.index[u] = s.index[u]
        BY <2>11, <2>5, <3>2
      <4>2. s.index[u] \in 1..(n - 1) /\ s.index[u] # i
        BY <2>1, <2>6, <2>7, <2>11, <3>2, <4>1
      <4>3. t.queue[s.index[u]] = q[s.index[u]]
        BY <2>2, <4>2
      <4>4. q[s.index[u]].receiver = u
        BY <2>1, <2>11, <4>1
      <4>5. QED
        BY <4>1, <4>3, <4>4
    <3>3. QED
      BY <3>1, <3>2
  <2>12. ASSUME NEW j \in 1..Len(t.queue)
         PROVE  t.index[t.queue[j].receiver] = j
    <3>1. CASE j = i
      BY <3>1, <2>2, <2>5 DEF r
    <3>2. CASE j # i
      <4>1. j \in 1..(n - 1) /\ j \in 1..n /\ t.queue[j] = q[j]
        BY <2>1, <2>2, <3>2
      <4>2. s.index[q[j].receiver] = j /\ q[j].receiver \in Users
        BY <2>1, <2>3, <4>1
      <4>3. s.index[r] = n /\ s.index[owner] = i
        BY <2>1 DEF r, i
      <4>4. q[j].receiver # r /\ q[j].receiver # owner
        BY <2>1, <3>2, <4>1, <4>2, <4>3
      <4>5. QED
        BY <2>5, <4>1, <4>2, <4>4
    <3>3. QED
      BY <3>1, <3>2
  <2>13. ASSUME NEW j \in 1..Len(t.queue)
         PROVE  \E k \in 1..Len(rolloverQueue) : t.queue[j] = rolloverQueue[k]
    <3>1. j \in 1..(n - 1) /\ j \in 1..n /\ n \in 1..n
      BY <2>1, <2>2
    <3>2. t.queue[j] = q[n] \/ t.queue[j] = q[j]
      BY <3>1, <2>2
    <3>3. QED
      BY <2>8, <3>1, <3>2
  <2>14. LoopOK(t)
    BY <2>2, <2>10, <2>11, <2>12, <2>13 DEF LoopOK
  <2>15. QED
    BY <1>3, <2>14 DEF t, q, i
<1>4. QED
  BY <1>1, <1>2, <1>3 DEF CleanUpOne

\* The recursive equation of the loop, for N iterations.
LoopEquation(g, a, start, N) ==
    g = [n \in 0..N |-> IF n = 0 THEN start ELSE CleanUpOne(g[n - 1], a[n])]

\* It has a solution, whatever the number of iterations.
LEMMA LoopDefined ==
    ASSUME NEW a, NEW start, NEW N \in Nat
    PROVE  \E g : LoopEquation(g, a, start, N)
<1> DEFINE Solves(g, M) == g = [n \in 0..M |-> IF n = 0 THEN start
                                               ELSE CleanUpOne(g[n - 1], a[n])]
           Bad == {M \in Nat : ~ \E g : Solves(g, M)}
<1>1. ASSUME Bad # {} PROVE FALSE
  <2>1. PICK M \in Bad : \A m \in Bad : M <= m
    <3>1. Bad \in SUBSET Nat
      OBVIOUS
    <3> HIDE DEF Bad
    <3>2. QED
      BY <1>1, <3>1, LeastNumber
  <2>2. M \in Nat /\ ~ \E g : Solves(g, M)
    OBVIOUS
  <2>3. CASE M = 0
    <3> DEFINE h == [n \in 0..0 |-> start]
    <3>1. Solves(h, 0)
      OBVIOUS
    <3> HIDE DEF h, Solves, Bad
    <3>2. QED
      BY <2>2, <2>3, <3>1
  <2>4. CASE M # 0
    <3>1. M - 1 \in Nat /\ ~(M <= M - 1)
      BY <2>2, <2>4
    <3>2. \E g : Solves(g, M - 1)
      <4>1. M - 1 \notin Bad
        <5> HIDE DEF Bad
        <5> QED BY <2>1, <3>1
      <4> HIDE DEF Solves
      <4> QED BY <3>1, <4>1
    <3>3. PICK g : Solves(g, M - 1)
      BY <3>2
    <3> DEFINE h == [n \in 0..M |-> IF n = M THEN CleanUpOne(g[M - 1], a[M])
                                             ELSE g[n]]
               k == [n \in 0..M |-> IF n = 0 THEN start
                                             ELSE CleanUpOne(h[n - 1], a[n])]
    <3>4. ASSUME NEW n \in 0..M PROVE h[n] = k[n]
      <4>1. CASE n = M
        <5>1. n - 1 \in 0..M /\ n - 1 # M /\ h[n - 1] = g[n - 1]
          BY <2>2, <2>4, <4>1
        <5>2. QED
          BY <4>1, <2>4, <5>1
      <4>2. CASE n = 0
        <5>1. n # M /\ 0 \in 0..(M - 1)
          BY <2>2, <2>4, <4>2
        <5>2. g[0] = start
          BY <3>3, <5>1
        <5>3. QED
          BY <4>2, <5>1, <5>2
      <4>3. CASE n # 0 /\ n # M
        <5>1. /\ n \in 0..(M - 1) /\ n - 1 \in 0..M /\ n - 1 # M
          BY <2>2, <4>3
        <5>2. g[n] = CleanUpOne(g[n - 1], a[n])
          BY <3>3, <4>3, <5>1
        <5>3. h[n - 1] = g[n - 1]
          BY <5>1
        <5>4. QED
          BY <4>3, <5>2, <5>3
      <4>4. QED
        BY <4>1, <4>2, <4>3
    <3>5. h = k
      BY <3>4
    <3>6. Solves(h, M)
      BY <3>5
    <3> HIDE DEF h, k, Solves, Bad
    <3>7. QED
      BY <2>2, <3>6
  <2>5. QED
    BY <2>3, <2>4
<1>2. N \notin Bad
  BY <1>1
<1> HIDE DEF Solves
<1>3. \E g : Solves(g, N)
  BY <1>2
<1>4. ASSUME NEW g, Solves(g, N) PROVE LoopEquation(g, a, start, N)
  BY <1>4 DEF Solves, LoopEquation
<1>5. QED
  BY <1>3, <1>4

\* The whole loop of cleanUpRolloverQueue keeps owners and items matched.
LEMMA CleanUpLoopKeepsIndex ==
    ASSUME QueueInv, NEW a \in Seq(Users)
    PROVE  LoopOK(CleanUpLoop(a))
<1> DEFINE N == Len(a)
           start == [ok |-> TRUE, queue |-> rolloverQueue,
                     index |-> ownerToRollOverQueueIndex]
           state == CHOOSE g : LoopEquation(g, a, start, N)
           Bad == {n \in 0..N : ~LoopOK(state[n])}
<1>1. N \in Nat /\ \A n \in 1..N : a[n] \in Users
  OBVIOUS
<1>2. LoopEquation(state, a, start, N)
  <2>1. \E g : LoopEquation(g, a, start, N)
    BY <1>1, LoopDefined
  <2>2. QED
    BY <2>1
<1>3. CleanUpLoop(a) = state[N]
  BY DEF CleanUpLoop, LoopEquation
<1>4. LoopOK(start)
  <2>1. start.queue = rolloverQueue /\ start.index = ownerToRollOverQueueIndex
    OBVIOUS
  <2> HIDE DEF start
  <2>2. QED
    BY <2>1 DEF LoopOK, QueueInv, QueueIndexed
<1> HIDE DEF start, state
<1>5. /\ state[0] = start
      /\ \A n \in 1..N : state[n] = CleanUpOne(state[n - 1], a[n])
  BY <1>1, <1>2 DEF LoopEquation
<1>6. ASSUME Bad # {} PROVE FALSE
  <2>1. PICK m \in Bad : \A n \in Bad : m <= n
    <3>1. Bad \in SUBSET Nat
      BY <1>1
    <3> HIDE DEF Bad
    <3>2. QED
      BY <1>6, <3>1, LeastNumber
  <2>2. m \in 0..N /\ ~LoopOK(state[m])
    OBVIOUS
  <2>3. m # 0
    BY <2>2, <1>4, <1>5
  <2>4. m \in 1..N /\ m - 1 \in 0..N /\ ~(m <= m - 1)
    BY <1>1, <2>2, <2>3
  <2>5. LoopOK(state[m - 1])
    BY <2>1, <2>4
  <2>6. LoopOK(CleanUpOne(state[m - 1], a[m]))
    BY <1>1, <2>4, <2>5, CleanUpOneKeepsIndex
  <2>7. QED
    BY <1>5, <2>2, <2>4, <2>6
<1>7. N \in 0..N
  BY <1>1
<1>8. LoopOK(state[N])
  BY <1>6, <1>7
<1>9. QED
  BY <1>3, <1>8

\* A sequence with one element replaced.
LEMMA ElementReplaced ==
    ASSUME NEW S, NEW q \in Seq(S), NEW i \in 1..Len(q), NEW x \in S
    PROVE  LET new == [q EXCEPT ![i] = x]
           IN  /\ new \in Seq(S) /\ Len(new) = Len(q) /\ new[i] = x
               /\ \A j \in 1..Len(q) : j # i => new[j] = q[j]
  OBVIOUS

\* An item that is edited in place.
EditedQueue(q, i, shares, id) ==
    [q EXCEPT ![i].shares = shares, ![i].epochId = id]

\* The queue with the shares and the epoch of one item replaced.
LEMMA ItemEdited ==
    ASSUME NEW q \in Seq(QueueItem), NEW i \in 1..Len(q), NEW shares \in Nat,
           NEW id \in Epochs \cup {QueueEpoch},
           NEW edited, edited = EditedQueue(q, i, shares, id)
    PROVE  /\ edited \in Seq(QueueItem)
           /\ Len(edited) = Len(q)
           /\ edited[i].shares = shares /\ edited[i].epochId = id
           /\ edited[i].receiver = q[i].receiver
           /\ \A j \in 1..Len(q) : j # i => edited[j] = q[j]
<1> DEFINE item == [q[i] EXCEPT !.shares = shares, !.epochId = id]
<1>1. item \in QueueItem
  <2>1. q[i] \in QueueItem
    OBVIOUS
  <2>2. QED
    BY <2>1 DEF QueueItem
<1>2. edited = [q EXCEPT ![i] = item]
  <2> DEFINE mid == [q EXCEPT ![i] = [q[i] EXCEPT !.shares = shares]]
  <2>1. edited = [mid EXCEPT ![i] = [mid[i] EXCEPT !.epochId = id]]
    BY DEF EditedQueue
  <2>2. mid[i] = [q[i] EXCEPT !.shares = shares] /\ i \in DOMAIN q
    OBVIOUS
  <2>3. [mid[i] EXCEPT !.epochId = id] = item
    BY <2>2
  <2>4. \A a, b : [[q EXCEPT ![i] = a] EXCEPT ![i] = b] = [q EXCEPT ![i] = b]
    OBVIOUS
  <2> HIDE DEF item
  <2>5. QED
    BY <2>1, <2>3, <2>4
<1> HIDE DEF item
<1>3. /\ edited \in Seq(QueueItem) /\ Len(edited) = Len(q) /\ edited[i] = item
      /\ \A j \in 1..Len(q) : j # i => edited[j] = q[j]
  BY <1>1, <1>2, ElementReplaced
<1>4. /\ item.shares = shares /\ item.epochId = id
      /\ item.receiver = q[i].receiver
  <2>1. q[i] \in QueueItem
    OBVIOUS
  <2>2. QED
    BY <2>1 DEF item, QueueItem
<1>5. QED
  BY <1>3, <1>4

\* Queue and index as they are; the items keep their places and their owners.
LEMMA QueueKept ==
    ASSUME QueueInv, relayerFee' \in RelayerFees,
           UNCHANGED ownerToRollOverQueueIndex,
           rolloverQueue' \in Seq(QueueItem),
           Len(rolloverQueue') = Len(rolloverQueue),
           \A i \in 1..Len(rolloverQueue) :
              rolloverQueue'[i].receiver = rolloverQueue[i].receiver
    PROVE  QueueInv'
<1>1. /\ rolloverQueue \in Seq(QueueItem)
      /\ ownerToRollOverQueueIndex \in [Users -> 0..Len(rolloverQueue)]
      /\ \A u \in Users : ownerToRollOverQueueIndex[u] # 0 =>
            rolloverQueue[ownerToRollOverQueueIndex[u]].receiver = u
      /\ \A i \in 1..Len(rolloverQueue) :
            ownerToRollOverQueueIndex[rolloverQueue[i].receiver] = i
  BY DEF QueueInv, QueueIndexed
<1>2. DOMAIN rolloverQueue' = 1..Len(rolloverQueue)
  OBVIOUS
<1>3. ASSUME NEW u \in Users, ownerToRollOverQueueIndex'[u] # 0
      PROVE  rolloverQueue'[ownerToRollOverQueueIndex'[u]].receiver = u
  BY <1>1, <1>3
<1>4. ASSUME NEW i \in DOMAIN rolloverQueue'
      PROVE  ownerToRollOverQueueIndex'[rolloverQueue'[i].receiver] = i
  BY <1>1, <1>2
<1>5. ownerToRollOverQueueIndex' \in [Users -> 0..Len(rolloverQueue')]
  BY <1>1
<1>6. QED
  BY <1>3, <1>4, <1>5 DEF QueueInv, QueueIndexed

\* Enlisting edits the holder's item or appends one for him.
LEMMA EnlistKeepsIndex ==
    ASSUME QueueInv, NEW id \in Epochs, NEW shares \in Nat, NEW receiver \in Users,
           NEW sender, EnlistInRollover(id, shares, receiver, sender)
    PROVE  QueueInv'
<1> DEFINE index == ownerToRollOverQueueIndex[receiver]
           item == [shares |-> shares, receiver |-> receiver, epochId |-> id]
<1>1. /\ rolloverQueue \in Seq(QueueItem)
      /\ ownerToRollOverQueueIndex \in [Users -> 0..Len(rolloverQueue)]
      /\ \A u \in Users : ownerToRollOverQueueIndex[u] # 0 =>
            rolloverQueue[ownerToRollOverQueueIndex[u]].receiver = u
      /\ \A i \in 1..Len(rolloverQueue) :
            ownerToRollOverQueueIndex[rolloverQueue[i].receiver] = i
  BY DEF QueueInv, QueueIndexed
<1>2. relayerFee' \in RelayerFees
  BY DEF EnlistInRollover, feeVars, QueueInv
<1>3. CASE index # 0
  <2>1. index \in 1..Len(rolloverQueue)
    BY <1>1, <1>3
  <2>2. /\ rolloverQueue' = EditedQueue(rolloverQueue, index, shares, id)
        /\ UNCHANGED ownerToRollOverQueueIndex
    BY <1>3 DEF EnlistInRollover, EditedQueue
  <2> HIDE DEF index
  <2>3. /\ rolloverQueue' \in Seq(QueueItem)
        /\ Len(rolloverQueue') = Len(rolloverQueue)
        /\ rolloverQueue'[index].receiver = rolloverQueue[index].receiver
        /\ \A j \in 1..Len(rolloverQueue) :
              j # index => rolloverQueue'[j] = rolloverQueue[j]
    <3>1. rolloverQueue \in Seq(QueueItem) /\ id \in Epochs \cup {QueueEpoch}
      BY <1>1
    <3> DEFINE new == EditedQueue(rolloverQueue, index, shares, id)
    <3>2. /\ new \in Seq(QueueItem)
          /\ Len(new) = Len(rolloverQueue)
          /\ new[index].receiver = rolloverQueue[index].receiver
          /\ \A j \in 1..Len(rolloverQueue) :
                j # index => new[j] = rolloverQueue[j]
      BY <2>1, <3>1, ItemEdited
    <3>3. QED
      BY <2>2, <3>2
  <2>4. \A i \in 1..Len(rolloverQueue) :
            rolloverQueue'[i].receiver = rolloverQueue[i].receiver
    BY <2>3
  <2>5. QED
    BY <1>2, <2>2, <2>3, <2>4, QueueKept
<1>4. CASE index = 0
  <2> DEFINE n == Len(rolloverQueue) + 1
  <2>1. /\ rolloverQueue' = Append(rolloverQueue, item)
        /\ ownerToRollOverQueueIndex' =
              [ownerToRollOverQueueIndex EXCEPT ![receiver] = n]
    BY <1>4 DEF EnlistInRollover
  <2>2. item \in QueueItem /\ item.receiver = receiver
    BY DEF QueueItem
  <2> HIDE DEF item
  <2>3. /\ rolloverQueue' \in Seq(QueueItem) /\ Len(rolloverQueue') = n
        /\ rolloverQueue'[n] = item
        /\ \A i \in 1..Len(rolloverQueue) : rolloverQueue'[i] = rolloverQueue[i]
    BY <1>1, <2>1, <2>2
  <2>4. /\ ownerToRollOverQueueIndex'[receiver] = n
        /\ \A u \in Users : u # receiver =>
              ownerToRollOverQueueIndex'[u] = ownerToRollOverQueueIndex[u]
        /\ ownerToRollOverQueueIndex' \in [Users -> 0..n]
    BY <1>1, <2>1
  <2>5. ASSUME NEW u \in Users, ownerToRollOverQueueIndex'[u] # 0
        PROVE  rolloverQueue'[ownerToRollOverQueueIndex'[u]].receiver = u
    <3>1. CASE u = receiver
      BY <2>2, <2>3, <2>4, <3>1
    <3>2. CASE u # receiver
      <4>1. ownerToRollOverQueueIndex[u] \in 1..Len(rolloverQueue)
        BY <1>1, <2>4, <2>5, <3>2
      <4>2. QED
        BY <1>1, <2>3, <2>4, <3>2, <4>1
    <3>3. QED
      BY <3>1, <3>2
  <2>6. ASSUME NEW i \in DOMAIN rolloverQueue'
        PROVE  ownerToRollOverQueueIndex'[rolloverQueue'[i].receiver] = i
    <3>1. CASE i = n
      BY <2>2, <2>3, <2>4, <3>1
    <3>2. CASE i # n
      <4>1. i \in 1..Len(rolloverQueue) /\ i # 0
        BY <1>1, <2>3, <3>2
      <4>2. rolloverQueue[i] \in QueueItem
        BY <1>1, <4>1
      <4>3. rolloverQueue[i].receiver \in Users
        BY <4>2 DEF QueueItem
      <4>4. ownerToRollOverQueueIndex[rolloverQueue[i].receiver] = i
        BY <1>1, <4>1
      <4>5. rolloverQueue[i].receiver # receiver
        BY <1>4, <4>1, <4>4
      <4>6. QED
        BY <2>3, <2>4, <4>1, <4>3, <4>4, <4>5
    <3>3. QED
      BY <3>1, <3>2
  <2>7. QED
    BY <1>2, <2>3, <2>4, <2>5, <2>6 DEF QueueInv, QueueIndexed
<1>5. QED
  BY <1>3, <1>4

\* Delisting empties an item and leaves it in its place.
LEMMA DelistKeepsIndex ==
    ASSUME QueueInv, NEW owner \in Users, NEW sender,
           DelistInRollover(owner, sender)
    PROVE  QueueInv'
<1> DEFINE index == ownerToRollOverQueueIndex[owner]
<1>1. /\ rolloverQueue \in Seq(QueueItem)
      /\ index \in 1..Len(rolloverQueue)
  BY DEF QueueInv, DelistInRollover, IsEnlistedInRolloverQueue
<1>2. /\ rolloverQueue' = EditedQueue(rolloverQueue, index, 0, QueueEpoch)
      /\ UNCHANGED ownerToRollOverQueueIndex
      /\ relayerFee' \in RelayerFees
  BY DEF DelistInRollover, feeVars, QueueInv, EditedQueue
<1> HIDE DEF index
<1>3. /\ rolloverQueue' \in Seq(QueueItem)
      /\ Len(rolloverQueue') = Len(rolloverQueue)
      /\ rolloverQueue'[index].receiver = rolloverQueue[index].receiver
      /\ \A j \in 1..Len(rolloverQueue) :
            j # index => rolloverQueue'[j] = rolloverQueue[j]
  <2> DEFINE new == EditedQueue(rolloverQueue, index, 0, QueueEpoch)
  <2>1. 0 \in Nat /\ QueueEpoch \in Epochs \cup {QueueEpoch}
    OBVIOUS
  <2>2. /\ new \in Seq(QueueItem)
        /\ Len(new) = Len(rolloverQueue)
        /\ new[index].receiver = rolloverQueue[index].receiver
        /\ \A j \in 1..Len(rolloverQueue) : j # index => new[j] = rolloverQueue[j]
    BY <1>1, <2>1, ItemEdited
  <2>3. QED
    BY <1>2, <2>2
<1>4. \A i \in 1..Len(rolloverQueue) :
          rolloverQueue'[i].receiver = rolloverQueue[i].receiver
  BY <1>3
<1>5. QED
  BY <1>2, <1>3, <1>4, QueueKept

\* What mintRollovers does to the queue.
LEMMA RollOverEditsItems ==
    ASSUME QueueInv, NEW id \in Epochs,
           NEW Handled \in SUBSET (1..Len(rolloverQueue)), RollOver(id, Handled)
    PROVE  /\ rolloverQueue' \in Seq(QueueItem)
           /\ Len(rolloverQueue') = Len(rolloverQueue)
           /\ \A i \in 1..Len(rolloverQueue) :
                 rolloverQueue'[i].receiver = rolloverQueue[i].receiver
           /\ \A i \in Handled : /\ rolloverQueue'[i].shares = AmountToMint(i)
                                 /\ rolloverQueue'[i].epochId = id
           /\ \A i \in 1..Len(rolloverQueue) :
                 i \notin Handled => rolloverQueue'[i] = rolloverQueue[i]
<1> DEFINE n == Len(rolloverQueue)
           Edited(i) == IF i \in Handled
                        THEN [rolloverQueue[i] EXCEPT !.shares = AmountToMint(i),
                                                      !.epochId = id]
                        ELSE rolloverQueue[i]
<1>1. /\ n \in Nat /\ DOMAIN rolloverQueue = 1..n
      /\ \A i \in 1..n : rolloverQueue[i] \in QueueItem
      /\ relayerFee \in Nat
  BY CarouselAssumption DEF QueueInv
<1>2. rolloverQueue' = [i \in 1..n |-> Edited(i)]
  BY <1>1 DEF RollOver
<1>3. ASSUME NEW i \in 1..n
      PROVE  /\ Edited(i) \in QueueItem
             /\ Edited(i).receiver = rolloverQueue[i].receiver
             /\ i \in Handled => /\ Edited(i).shares = AmountToMint(i)
                                 /\ Edited(i).epochId = id
  <2>1. rolloverQueue[i].shares \in Nat
    BY <1>1 DEF QueueItem
  <2>2. i \in Handled => AmountToMint(i) \in Nat
    <3>1. i \in Handled => AmountToMint(i) >= 0
      BY DEF RollOver
    <3>2. QED
      BY <1>1, <2>1, <3>1 DEF AmountToMint
  <2>3. rolloverQueue[i] \in QueueItem
    BY <1>1
  <2>4. QED
    BY <2>2, <2>3 DEF QueueItem
<1> HIDE DEF Edited, n
<1>4. /\ rolloverQueue' \in Seq(QueueItem) /\ Len(rolloverQueue') = n
      /\ \A i \in 1..n : rolloverQueue'[i] = Edited(i)
  BY <1>1, <1>2, <1>3
<1>5. \A i \in 1..n : i \notin Handled => Edited(i) = rolloverQueue[i]
  BY DEF Edited
<1>6. QED
  BY <1>3, <1>4, <1>5 DEF n

\* The items a call handles are items of the queue.
LEMMA MintRolloversHandles ==
    ASSUME TypeOK \/ (QueueInv /\ rolloverAccounting \in [Epochs -> Nat]),
           NEW id \in Epochs, NEW operations \in Nat,
           MintRollovers(id, operations)
    PROVE  \E Handled \in SUBSET (1..Len(rolloverQueue)) :
              /\ RollOver(id, Handled)
              /\ \A i \in Handled : /\ IsRolledOver(rolloverQueue[i])
                                    /\ finalTVL[rolloverQueue[i].epochId] # 0
              /\ \/ rolloverAccounting' = rolloverAccounting
                 \/ \E n \in Nat : rolloverAccounting' =
                                      [rolloverAccounting EXCEPT ![id] = n]
<1> DEFINE length == Len(rolloverQueue)
           index  == rolloverAccounting[id]
           ops    == IF operations > length \/ index + operations > length
                     THEN length - index ELSE operations
           Handled == {i \in index + 1 .. index + ops :
                           IsRolledOver(rolloverQueue[i])}
<1>1. length \in Nat /\ index \in Nat
  BY DEF TypeOK, QueueInv
<1>2. index <= length
  BY DEF MintRollovers
<1>3. ops \in Nat /\ index + ops <= length
  BY <1>1, <1>2
<1>4. Handled \in SUBSET (1..length)
  BY <1>1, <1>3
<1>5. /\ RollOver(id, Handled)
      /\ \A i \in index + 1 .. index + ops :
            rolloverQueue[i].shares > 0 /\ epochResolved[rolloverQueue[i].epochId]
               => finalTVL[rolloverQueue[i].epochId] # 0
      /\ \/ rolloverAccounting' = rolloverAccounting
         \/ rolloverAccounting' = [rolloverAccounting EXCEPT ![id] = index + ops]
  BY DEF MintRollovers
<1>6. \A i \in Handled : /\ IsRolledOver(rolloverQueue[i])
                         /\ finalTVL[rolloverQueue[i].epochId] # 0
  BY <1>5 DEF IsRolledOver
<1>7. index + ops \in Nat
  BY <1>1, <1>3
<1> HIDE DEF Handled, index, ops
<1>8. QED
  BY <1>4, <1>5, <1>6, <1>7

\* The queue after a call of cleanUpRolloverQueue.
LEMMA CleanUpKeepsIndex ==
    ASSUME QueueInv, NEW a \in CleanUps, CleanUpRolloverQueue(a)
    PROVE  /\ QueueInv'
           /\ \A i \in 1..Len(rolloverQueue') : \E j \in 1..Len(rolloverQueue) :
                 rolloverQueue'[i] = rolloverQueue[j]
<1>1. a \in Seq(Users)
  BY CarouselAssumption
<1>2. LoopOK(CleanUpLoop(a))
  BY <1>1, CleanUpLoopKeepsIndex
<1>3. /\ rolloverQueue' = CleanUpLoop(a).queue
      /\ ownerToRollOverQueueIndex' = CleanUpLoop(a).index
      /\ relayerFee' \in RelayerFees
  BY DEF CleanUpRolloverQueue, feeVars, QueueInv
<1>4. /\ rolloverQueue' \in Seq(QueueItem)
      /\ ownerToRollOverQueueIndex' \in [Users -> 0..Len(rolloverQueue')]
      /\ \A u \in Users : ownerToRollOverQueueIndex'[u] # 0 =>
            rolloverQueue'[ownerToRollOverQueueIndex'[u]].receiver = u
      /\ \A i \in 1..Len(rolloverQueue') :
            ownerToRollOverQueueIndex'[rolloverQueue'[i].receiver] = i
      /\ \A i \in 1..Len(rolloverQueue') : \E j \in 1..Len(rolloverQueue) :
            rolloverQueue'[i] = rolloverQueue[j]
  BY <1>2, <1>3 DEF LoopOK
<1>5. DOMAIN rolloverQueue' = 1..Len(rolloverQueue')
  BY <1>4
<1>6. QED
  BY <1>3, <1>4, <1>5 DEF QueueInv, QueueIndexed

\* mintRollovers edits items in place, so that the index stays right.
LEMMA MintRolloversKeepsIndex ==
    ASSUME QueueInv, rolloverAccounting \in [Epochs -> Nat],
           NEW id \in Epochs, NEW operations \in Operations,
           MintRollovers(id, operations)
    PROVE  QueueInv' /\ rolloverAccounting' \in [Epochs -> Nat]
<1>1. operations \in Nat
  BY CarouselAssumption
<1>2. PICK Handled \in SUBSET (1..Len(rolloverQueue)) :
         /\ RollOver(id, Handled)
         /\ \/ rolloverAccounting' = rolloverAccounting
            \/ \E n \in Nat : rolloverAccounting' =
                                 [rolloverAccounting EXCEPT ![id] = n]
  BY <1>1, MintRolloversHandles
<1>3. /\ rolloverQueue' \in Seq(QueueItem)
      /\ Len(rolloverQueue') = Len(rolloverQueue)
      /\ \A i \in 1..Len(rolloverQueue) :
            rolloverQueue'[i].receiver = rolloverQueue[i].receiver
  BY <1>2, RollOverEditsItems
<1>4. UNCHANGED ownerToRollOverQueueIndex /\ relayerFee' \in RelayerFees
  BY DEF MintRollovers, feeVars, QueueInv
<1>5. QueueInv'
  BY <1>3, <1>4, QueueKept
<1>6. rolloverAccounting' \in [Epochs -> Nat]
  BY <1>2
<1>7. QED
  BY <1>5, <1>6

\* Every other step leaves the queue and its index alone.
LEMMA NextKeepsIndex ==
    ASSUME QueueInv, rolloverAccounting \in [Epochs -> Nat], [Next]_vars
    PROVE  QueueInv' /\ rolloverAccounting' \in [Epochs -> Nat]
<1>1. ASSUME UNCHANGED rolloverVars, relayerFee' \in RelayerFees
      PROVE  QueueInv' /\ rolloverAccounting' \in [Epochs -> Nat]
  BY <1>1 DEF rolloverVars, QueueInv, QueueIndexed
<1>2. ASSUME UNCHANGED <<rolloverVars, feeVars>>
      PROVE  QueueInv' /\ rolloverAccounting' \in [Epochs -> Nat]
  BY <1>1, <1>2 DEF feeVars, QueueInv
<1>3. CASE Tick
  BY <1>2, <1>3 DEF Tick
<1>4. CASE HolderNext
  <2>1. PICK u \in Users, sender \in Users :
           \/ DelistInRollover(u, sender)
           \/ \E id \in Epochs, shares \in Shares :
                 \/ Withdraw(id, shares, u, sender)
                 \/ EnlistInRollover(id, shares, u, sender)
                 \/ \E to \in Users : SafeTransferFrom(id, u, to, shares, sender)
    BY <1>4 DEF HolderNext
  <2>2. CASE DelistInRollover(u, sender)
    <3>1. UNCHANGED rolloverAccounting
      BY <2>2 DEF DelistInRollover
    <3>2. QED
      BY <2>2, <3>1, DelistKeepsIndex
  <2>3. ASSUME NEW id \in Epochs, NEW shares \in Shares,
               Withdraw(id, shares, u, sender)
        PROVE  QueueInv' /\ rolloverAccounting' \in [Epochs -> Nat]
    BY <1>2, <2>3 DEF Withdraw
  <2>4. ASSUME NEW id \in Epochs, NEW shares \in Shares,
               EnlistInRollover(id, shares, u, sender)
        PROVE  QueueInv' /\ rolloverAccounting' \in [Epochs -> Nat]
    <3>1. UNCHANGED rolloverAccounting /\ shares \in Nat
      BY <2>4, CarouselAssumption DEF EnlistInRollover
    <3>2. QED
      BY <2>4, <3>1, EnlistKeepsIndex
  <2>5. ASSUME NEW id \in Epochs, NEW shares \in Shares, NEW to \in Users,
               SafeTransferFrom(id, u, to, shares, sender)
        PROVE  QueueInv' /\ rolloverAccounting' \in [Epochs -> Nat]
    BY <1>2, <2>5 DEF SafeTransferFrom
  <2>6. QED
    BY <2>1, <2>2, <2>3, <2>4, <2>5
<1>5. CASE DepositNext
  BY <1>2, <1>5 DEF DepositNext, DepositInQueue, Deposit
<1>6. CASE RelayerNext
  <2>1. ASSUME NEW id \in Epochs, NEW operations \in Operations,
               MintDepositInQueue(id, operations)
        PROVE  QueueInv' /\ rolloverAccounting' \in [Epochs -> Nat]
    BY <1>2, <2>1 DEF MintDepositInQueue
  <2>2. ASSUME NEW id \in Epochs, NEW operations \in Operations,
               MintRollovers(id, operations)
        PROVE  QueueInv' /\ rolloverAccounting' \in [Epochs -> Nat]
    BY <2>2, MintRolloversKeepsIndex
  <2>3. QED
    BY <1>6, <2>1, <2>2 DEF RelayerNext
<1>7. CASE FactoryNext
  <2>1. ASSUME NEW id \in Epochs, NEW emission \in EmissionAmounts,
               CreateEpochWithEmissions(id, emission)
        PROVE  QueueInv' /\ rolloverAccounting' \in [Epochs -> Nat]
    BY <1>2, <2>1 DEF CreateEpochWithEmissions
  <2>2. ASSUME NEW fee \in RelayerFees, ChangeRelayerFee(fee)
        PROVE  QueueInv' /\ rolloverAccounting' \in [Epochs -> Nat]
    BY <1>1, <2>2 DEF ChangeRelayerFee
  <2>3. ASSUME NEW fee \in DepositFees, ChangeDepositFee(fee)
        PROVE  QueueInv' /\ rolloverAccounting' \in [Epochs -> Nat]
    BY <1>1, <2>3 DEF ChangeDepositFee, QueueInv
  <2>4. ASSUME NEW owners \in CleanUps, CleanUpRolloverQueue(owners)
        PROVE  QueueInv' /\ rolloverAccounting' \in [Epochs -> Nat]
    <3>1. UNCHANGED rolloverAccounting
      BY <2>4 DEF CleanUpRolloverQueue
    <3>2. QED
      BY <2>4, <3>1, CleanUpKeepsIndex
  <2>5. QED
    BY <1>7, <2>1, <2>2, <2>3, <2>4 DEF FactoryNext
<1>8. CASE ControllerNext
  BY <1>2, <1>8 DEF ControllerNext, Settle, SettleNull, SettleEmpty
<1>9. CASE UNCHANGED vars
  BY <1>2, <1>9 DEF vars
<1>10. QED
  BY <1>3, <1>4, <1>5, <1>6, <1>7, <1>8, <1>9 DEF Next

\* The empty queue is indexed.
LEMMA InitIndexed ==
    ASSUME Init
    PROVE  QueueInv /\ rolloverAccounting \in [Epochs -> Nat]
<1>1. /\ rolloverQueue = <<>> /\ relayerFee \in RelayerFees
      /\ ownerToRollOverQueueIndex = [u \in Users |-> 0]
      /\ rolloverAccounting = [id \in Epochs |-> 0]
  BY DEF Init
<1>2. rolloverQueue \in Seq(QueueItem) /\ Len(rolloverQueue) = 0
  BY <1>1
<1>3. DOMAIN rolloverQueue = {}
  BY <1>2
<1>4. QED
  BY <1>1, <1>2, <1>3 DEF QueueInv, QueueIndexed

\* Whatever holders, relayers, the factory and the controller do, every item
\* of the rollover queue is the one its owner's index points at.
THEOREM QueueAlwaysIndexed == Spec => []QueueIndexed
<1> DEFINE Inv == QueueInv /\ rolloverAccounting \in [Epochs -> Nat]
<1>1. Init => Inv
  BY InitIndexed
<1>2. Inv /\ [Next]_vars => Inv'
  BY NextKeepsIndex
<1>3. Inv => QueueIndexed
  BY DEF QueueInv
<1>4. QED
  BY <1>1, <1>2, <1>3, PTL DEF Spec

-----------------------------------------------------------------------------
(* Arithmetic: quotients, the deposit fee and the sums of the model.       *)

\* What is worth no more than s of the t shares that an account covers is in
\* the account.
LEMMA WorthWithin ==
    ASSUME NEW s \in Nat, NEW t \in Nat, NEW C \in Nat, NEW F \in Nat \ {0},
           NEW held \in Int, NEW p \in Nat,
           s <= t, held * F >= t * C, p * F <= s * C
    PROVE  p <= held
<1>1. /\ (held - p) * F = held * F - p * F /\ (t - s) * C = t * C - s * C
      /\ held * F \in Int /\ p * F \in Nat /\ t * C \in Nat /\ s * C \in Nat
  OBVIOUS
<1>2. (t - s) * C >= 0
  <2>1. t - s \in Nat
    OBVIOUS
  <2>2. QED
    BY <2>1
<1>3. (held - p) * F >= 0
  BY <1>1, <1>2
<1>4. held - p >= 0
  <2> SUFFICES ASSUME held - p < 0 PROVE FALSE
    OBVIOUS
  <2>1. (held - p) * F < 0
    OBVIOUS
  <2>2. QED
    BY <1>3, <2>1
<1>5. QED
  BY <1>4

\* The fee percentage lies between 0 and depositFee as long as the deposit
\* window is open.
LEMMA FeePercentBounded ==
    ASSUME NEW minX \in Nat, NEW maxX \in Nat, minX <= now, now <= maxX,
           now \in Nat, minX # maxX, depositFee \in Nat
    PROVE  CalculateFeePercent(minX, maxX) \in 0..depositFee
<1> DEFINE maxY == depositFee * WAD
           D == maxX - minX
           r == maxX - now
           q == maxY \div D
           X == q * (now - maxX) + maxY
<1>1. maxY \in Nat /\ D \in Nat \ {0} /\ r \in Nat /\ r <= D /\ WAD \in Nat \ {0}
  BY CarouselAssumption
<1>2. q \in Nat /\ D * q <= maxY
  <2> HIDE DEF maxY, D
  <2> QED BY <1>1, QuotientBounds
<1>3. now - maxX = -r
  OBVIOUS
<1> HIDE DEF q, D
<1>4. /\ q * (now - maxX) = -(r * q)
      /\ r * q \in Nat /\ r * q <= D * q /\ D * q \in Nat
  <2> HIDE DEF r, maxY
  <2>1. q * (now - maxX) = -(r * q)
    BY <1>1, <1>2, <1>3
  <2>2. (D - r) * q = D * q - r * q
    BY <1>1, <1>2
  <2>3. D - r \in Nat
    BY <1>1
  <2>4. (D - r) * q \in Nat
    BY <1>2, <2>3
  <2>5. r * q \in Nat /\ D * q \in Nat
    BY <1>1, <1>2
  <2>6. QED
    BY <2>1, <2>2, <2>4, <2>5
<1>5. X \in Nat /\ X <= maxY
  <2> HIDE DEF maxY, r
  <2> QED BY <1>1, <1>2, <1>4
<1>6. CalculateFeePercent(minX, maxX) = X \div WAD
  BY DEF CalculateFeePercent, q, D
<1> HIDE DEF X
<1>7. /\ X \div WAD \in Nat /\ WAD * (X \div WAD) <= X
  BY <1>1, <1>5, QuotientBounds
<1>8. X \div WAD <= depositFee
  <2> DEFINE p == X \div WAD
  <2>1. WAD * p <= depositFee * WAD
    <3>1. maxY \in Nat /\ WAD * p \in Nat
      BY <1>1, <1>7
    <3>2. QED
      BY <1>5, <1>7, <3>1
  <2> HIDE DEF p
  <2>2. SUFFICES ASSUME ~(p <= depositFee) PROVE FALSE
    BY DEF p
  <2>3. p \in Nat
    BY <1>7 DEF p
  <2>4. p - depositFee - 1 \in Nat
    BY <2>2, <2>3
  <2>5. WAD * (p - depositFee - 1) \in Nat
    BY <1>1, <2>4
  <2>6. WAD * (p - depositFee - 1) = WAD * p - depositFee * WAD - WAD
    BY <1>1, <2>3
  <2>7. WAD * p \in Nat /\ depositFee * WAD \in Nat
    BY <1>1, <2>3
  <2>8. QED
    BY <1>1, <2>1, <2>5, <2>6, <2>7
<1>9. QED
  BY <1>6, <1>7, <1>8

\* No deposit pays more than itself as a fee.
LEMMA FeeBounded ==
    ASSUME TypeOK, NEW id \in Epochs, epochCreation[id] <= now,
           EpochHasNotStarted(id), DepositFeeDefined(id), NEW assets \in Nat
    PROVE  GetEpochDepositFee(id, assets) \in 0..assets
<1>1. depositFee \in 0..250 /\ depositFee \in Nat
  <2>1. depositFee \in DepositFees
    BY DEF TypeOK
  <2>2. DepositFees \subseteq 0..250
    BY CarouselAssumption
  <2>3. QED
    BY <2>1, <2>2
<1>2. CASE depositFee = 0
  BY <1>2 DEF GetEpochDepositFee
<1>3. CASE depositFee # 0
  <2> DEFINE p == CalculateFeePercent(epochCreation[id], EpochBegin(id))
  <2>1. /\ epochCreation[id] \in Nat /\ EpochBegin(id) \in Nat /\ now \in Nat
        /\ now <= EpochBegin(id) /\ epochCreation[id] # EpochBegin(id)
    BY <1>1, <1>3, CarouselAssumption
       DEF TypeOK, EpochHasNotStarted, DepositFeeDefined, EpochBegin
  <2>2. p \in 0..depositFee
    BY <1>1, <2>1, FeePercentBounded
  <2> HIDE DEF p
  <2>3. p \in Nat /\ p <= 10000
    BY <1>1, <2>2
  <2>4. GetEpochDepositFee(id, assets) = (assets * p) \div 10000
    BY <1>3 DEF GetEpochDepositFee, MulDivDown, BPS, p
  <2>5. assets * p \in Nat /\ assets * p <= assets * 10000
    <3>1. assets * (10000 - p) = assets * 10000 - assets * p
      BY <2>3
    <3>2. assets * (10000 - p) \in Nat /\ assets * p \in Nat
      BY <2>3
    <3>3. QED
      BY <3>1, <3>2
  <2>6. QED
    BY <2>4, <2>5
<1>4. QED
  BY <1>2, <1>3

\* The sum of a function of which one value has changed.
LEMMA SumMoves ==
    ASSUME NEW S, IsFiniteSet(S), NEW f \in [S -> Int], NEW h \in [S -> Int],
           NEW x \in S, NEW d \in Int, h[x] = f[x] + d,
           \A y \in S \ {x} : h[y] = f[y]
    PROVE  SumFunction(h) = SumFunction(f) + d
<1>1. SumFunctionOnSet(h, S) = SumFunctionOnSet(f, S) + h[x] - f[x]
  BY SumChange
<1>2. SumFunctionOnSet(f, S) \in Int
  BY SumInt
<1>3. f[x] \in Int
  OBVIOUS
<1>4. SumFunction(h) = SumFunctionOnSet(h, S) /\ SumFunction(f) = SumFunctionOnSet(f, S)
  BY DEF SumFunction
<1>5. QED
  BY <1>1, <1>2, <1>3, <1>4

Deposits == [shares : Nat, receiver : Users]

SharesIn(q) == [i \in DOMAIN q |-> q[i].shares]

\* The shares of the items of the deposit queue, and their sum, are naturals.
LEMMA SharesInType ==
    ASSUME NEW q \in Seq(Deposits)
    PROVE  /\ DOMAIN q = 1..Len(q) /\ Len(q) \in Nat /\ IsFiniteSet(1..Len(q))
           /\ SharesIn(q) \in [1..Len(q) -> Nat]
           /\ \A i \in 1..Len(q) : SharesIn(q)[i] = q[i].shares
           /\ SumFunction(SharesIn(q)) = SumFunctionOnSet(SharesIn(q), 1..Len(q))
           /\ SumFunction(SharesIn(q)) \in Nat
<1>1. DOMAIN q = 1..Len(q) /\ Len(q) \in Nat
  OBVIOUS
<1>2. \A i \in 1..Len(q) : q[i].shares \in Nat
  <2>1. \A i \in 1..Len(q) : q[i] \in Deposits
    OBVIOUS
  <2>2. QED
    BY <2>1 DEF Deposits
<1>3. SharesIn(q) \in [1..Len(q) -> Nat] /\ DOMAIN SharesIn(q) = 1..Len(q)
      /\ \A i \in 1..Len(q) : SharesIn(q)[i] = q[i].shares
  BY <1>1, <1>2 DEF SharesIn
<1>4. IsFiniteSet(1..Len(q))
  BY <1>1, FS_Interval
<1>5. SumFunction(SharesIn(q)) = SumFunctionOnSet(SharesIn(q), 1..Len(q))
  BY <1>3 DEF SumFunction
<1>6. SumFunctionOnSet(SharesIn(q), 1..Len(q)) \in Nat
  BY <1>3, <1>4, SumNat
<1>7. QED
  BY <1>1, <1>3, <1>4, <1>5, <1>6

\* The value of the deposit queue after one more deposit.
LEMMA QueueGrows ==
    ASSUME NEW q \in Seq(Deposits), NEW item \in Deposits
    PROVE  SumFunction(SharesIn(Append(q, item)))
              = SumFunction(SharesIn(q)) + item.shares
<1> DEFINE new == Append(q, item)
           n == Len(q)
<1>1. /\ new \in Seq(Deposits) /\ Len(new) = n + 1 /\ n \in Nat
      /\ new[n + 1] = item /\ \A i \in 1..n : new[i] = q[i]
  OBVIOUS
<1> HIDE DEF new
<1>2. 1..(n + 1) = 1..n \cup {n + 1} /\ n + 1 \notin 1..n
  BY <1>1
<1>3. /\ SharesIn(new) \in [1..(n + 1) -> Nat]
      /\ SumFunction(SharesIn(new)) = SumFunctionOnSet(SharesIn(new), 1..(n + 1))
      /\ \A i \in 1..(n + 1) : SharesIn(new)[i] = new[i].shares
  BY <1>1, SharesInType
<1>4. /\ SharesIn(q) \in [1..n -> Nat] /\ IsFiniteSet(1..n)
      /\ SumFunction(SharesIn(q)) = SumFunctionOnSet(SharesIn(q), 1..n)
      /\ \A i \in 1..n : SharesIn(q)[i] = q[i].shares
      /\ SumFunction(SharesIn(q)) \in Nat
  BY SharesInType
<1>5. \A i \in 1..n \cup {n + 1} : SharesIn(new)[i] \in Int
  BY <1>2, <1>3
<1>6. SumFunctionOnSet(SharesIn(new), 1..(n + 1))
         = SharesIn(new)[n + 1] + SumFunctionOnSet(SharesIn(new), 1..n)
  <2>1. SumFunctionOnSet(SharesIn(new), 1..n \cup {n + 1})
           = SharesIn(new)[n + 1] + SumFunctionOnSet(SharesIn(new), 1..n)
    BY <1>2, <1>4, <1>5, SumAdd
  <2>2. QED
    BY <1>2, <2>1
<1>7. \A i \in 1..n : SharesIn(q)[i] \in Int /\ SharesIn(q)[i] = SharesIn(new)[i]
  BY <1>1, <1>2, <1>3, <1>4
<1>8. SumFunctionOnSet(SharesIn(q), 1..n) = SumFunctionOnSet(SharesIn(new), 1..n)
  BY <1>4, <1>7, SumSame
<1>9. SharesIn(new)[n + 1] = item.shares /\ item.shares \in Nat
  BY <1>1, <1>2, <1>3 DEF Deposits
<1>10. SumFunction(SharesIn(new)) = SumFunction(SharesIn(q)) + item.shares
  BY <1>3, <1>4, <1>6, <1>8, <1>9
<1>11. QED
  BY <1>10 DEF new

\* The value of the deposit queue after its last items have left.
LEMMA QueueShrinks ==
    ASSUME NEW q \in Seq(Deposits), NEW k \in 0..Len(q)
    PROVE  /\ SubSeq(q, 1, k) \in Seq(Deposits)
           /\ SumFunction(SharesIn(q)) = SumFunction(SharesIn(SubSeq(q, 1, k)))
                 + SumFunctionOnSet(SharesIn(q), k + 1 .. Len(q))
           /\ SumFunctionOnSet(SharesIn(q), k + 1 .. Len(q)) \in Nat
<1> DEFINE new == SubSeq(q, 1, k)
           n == Len(q)
<1>1. /\ new \in Seq(Deposits) /\ Len(new) = k /\ n \in Nat /\ k \in Nat /\ k <= n
      /\ \A i \in 1..k : new[i] = q[i]
  OBVIOUS
<1> HIDE DEF new
<1> DEFINE Kept == 1..k
           Left == k + 1 .. n
           All == 1..n
<1>2. Kept \subseteq All /\ Left \subseteq All
  BY <1>1
<1>3. All \ Kept = Left
  BY <1>1
<1>4. /\ SharesIn(new) \in [Kept -> Nat] /\ IsFiniteSet(Kept)
      /\ SumFunction(SharesIn(new)) = SumFunctionOnSet(SharesIn(new), Kept)
      /\ \A i \in Kept : SharesIn(new)[i] = new[i].shares
      /\ SumFunction(SharesIn(new)) \in Nat
  BY <1>1, SharesInType
<1>5. /\ SharesIn(q) \in [All -> Nat] /\ IsFiniteSet(All)
      /\ SumFunction(SharesIn(q)) = SumFunctionOnSet(SharesIn(q), All)
      /\ \A i \in All : SharesIn(q)[i] = q[i].shares
  BY SharesInType
<1>6. \A i \in Kept : new[i] = q[i]
  BY <1>1
<1>7. IsFiniteSet(Left)
  BY <1>1, FS_Interval
<1> HIDE DEF Kept, Left, All
<1>8. SumFunctionOnSet(SharesIn(q), All) = SumFunctionOnSet(SharesIn(q), Kept)
                                           + SumFunctionOnSet(SharesIn(q), Left)
  BY <1>2, <1>3, <1>5, SumSplit
<1>9. \A i \in Kept : SharesIn(new)[i] \in Int /\ SharesIn(new)[i] = SharesIn(q)[i]
  BY <1>2, <1>4, <1>5, <1>6
<1>10. SumFunctionOnSet(SharesIn(new), Kept) = SumFunctionOnSet(SharesIn(q), Kept)
  BY <1>4, <1>9, SumSame
<1>11. \A i \in Left : SharesIn(q)[i] \in Nat
  BY <1>2, <1>5
<1>12. SumFunctionOnSet(SharesIn(q), Left) \in Nat
  BY <1>7, <1>11, SumNat
<1>13. QED
  BY <1>1, <1>4, <1>5, <1>8, <1>10, <1>12 DEF new, Left

-----------------------------------------------------------------------------
(* The invariant, epoch by epoch.                                          *)

\* What CarouselInv says of one epoch.
EpochOK(id) ==
    /\ late[id] > 0 => epochResolved[id] /\ ~BeginsBetweenBlocks(id)
    /\ IF epochResolved[id]
       THEN /\ now >= EpochBegin(id)
            /\ totalSupply[id] - late[id] <= finalTVL[id]
            /\ epochNull[id] => claimTVL[id] = finalTVL[id]
            /\ funds[id] * finalTVL[id] >=
                  (totalSupply[id] - late[id]) * claimTVL[id] + late[id] * finalTVL[id]
            /\ emissionsFunds[id] * finalTVL[id] >=
                  (totalSupply[id] - late[id]) * emissions[id]
            /\ finalTVL[id] = 0 => funds[id] >= 0 /\ emissionsFunds[id] >= 0
       ELSE /\ ~epochNull[id]
            /\ funds[id] = totalSupply[id]
            /\ emissionsFunds[id] = emissions[id]

AllEpochsOK == \A id \in Epochs : EpochOK(id)

SumsOK ==
    /\ SupplyIsSumOfBalances
    /\ BalanceAccounted
    /\ emissionsBalance = SumFunction(emissionsFunds)

Inv ==
    /\ TypeOK
    /\ QueueIndexed
    /\ EpochsInTime
    /\ AllEpochsOK
    /\ SumsOK
    /\ ItemsLocked

\* The invariant of this module is the one the runs can check, its parts about
\* one epoch collected.
LEMMA InvIsCarouselInv == Inv <=> CarouselInv
<1>1. ASSUME NEW id \in Epochs PROVE EpochOK(id) <=> EpochSound(id)
  BY DEF EpochOK, EpochSound, EpochBacked, EpochEmissionsBacked
<1>2. AllEpochsOK <=> EpochsSound
  BY <1>1 DEF AllEpochsOK, EpochsSound
<1>3. QED
  BY <1>2 DEF Inv, SumsOK, CarouselInv, EmissionsAccounted

\* The queue's part of the types.
LEMMA QueueTyped ==
    /\ Inv => QueueInv /\ rolloverAccounting \in [Epochs -> Nat]
    /\ QueueInv' => QueueIndexed'
  BY DEF Inv, TypeOK, QueueInv

\* Steps that move neither shares nor money.
LEMMA QuietKeepsAccounts ==
    ASSUME TypeOK, AllEpochsOK, SumsOK, now' \in Nat, now' >= now,
           UNCHANGED <<settleVars, shareVars, moneyVars, emissionVars, depositQueue>>
    PROVE  AllEpochsOK' /\ SumsOK'
<1>1. UNCHANGED <<funds, emissionsFunds, epochResolved, totalSupply, finalTVL,
                  epochNull, claimTVL, emissions, balanceOf, late, asset,
                  emissionsBalance, depositQueue>>
  BY DEF settleVars, shareVars, moneyVars, emissionVars
<1>2. SumsOK'
  BY <1>1 DEF SumsOK, SupplyIsSumOfBalances, BalanceAccounted, DepositQueueTVL
<1>3. ASSUME NEW id \in Epochs PROVE EpochOK(id)'
  <2>1. EpochBegin(id) \in Nat
    BY CarouselAssumption DEF EpochBegin
  <2>2. now \in Nat
    BY DEF TypeOK
  <2>3. EpochOK(id)
    BY DEF AllEpochsOK
  <2>4. now >= EpochBegin(id) => now' >= EpochBegin(id)
    BY <2>1, <2>2
  <2>5. QED
    BY <1>1, <2>3, <2>4 DEF EpochOK, EpochBegin, BeginsBetweenBlocks
<1>4. QED
  BY <1>2, <1>3 DEF AllEpochsOK

\* A settled epoch whose deposit window is still open is in the second of its
\* begin.
LEMMA SettledAtBegin ==
    ASSUME TypeOK, EpochsInTime, NEW id \in Epochs, EpochOK(id),
           EpochHasNotStarted(id), epochResolved[id]
    PROVE  ~BeginsBetweenBlocks(id)
<1>1. now <= EpochBegin(id) /\ now \in Nat /\ EpochBegin(id) \in Nat
  BY CarouselAssumption DEF EpochHasNotStarted, TypeOK, EpochBegin
<1>2. now >= EpochBegin(id) /\ now \in BlockTimes
  BY DEF EpochOK, EpochsInTime
<1>3. now = EpochBegin(id)
  BY <1>1, <1>2
<1>4. QED
  BY <1>2, <1>3 DEF BeginsBetweenBlocks

\* Steps that concern one epoch.
LEMMA OtherEpochsKept ==
    ASSUME AllEpochsOK, now' = now, NEW id \in Epochs, EpochOK(id)',
           \A e \in Epochs \ {id} :
              /\ funds'[e] = funds[e] /\ emissionsFunds'[e] = emissionsFunds[e]
              /\ epochResolved'[e] = epochResolved[e] /\ epochNull'[e] = epochNull[e]
              /\ totalSupply'[e] = totalSupply[e] /\ finalTVL'[e] = finalTVL[e]
              /\ claimTVL'[e] = claimTVL[e] /\ emissions'[e] = emissions[e]
              /\ late'[e] = late[e]
    PROVE  AllEpochsOK'
<1>1. ASSUME NEW e \in Epochs, e # id PROVE EpochOK(e)'
  <2>1. EpochOK(e)
    BY DEF AllEpochsOK
  <2>2. QED
    BY <1>1, <2>1 DEF EpochOK, EpochBegin, BeginsBetweenBlocks
<1>2. QED
  BY <1>1 DEF AllEpochsOK

\* The account of a settled epoch covers its claims before and after: B shares
\* leave with out assets, no more than they are worth, and m late ones come in.
LEMMA CoverKept ==
    ASSUME NEW held \in Int, NEW out \in Nat, NEW t \in Nat, NEW L \in Nat,
           NEW B \in Nat, NEW m \in Nat, NEW C \in Nat, NEW F \in Nat,
           held * F >= (t - L) * C + L * F, out * F <= B * C
    PROVE  (held - out + m) * F >= ((t - B + m) - (L + m)) * C + (L + m) * F
<1>1. /\ (held - out + m) * F = held * F - out * F + m * F
      /\ (t - B + m) - (L + m) = (t - L) - B
      /\ ((t - L) - B) * C = (t - L) * C - B * C
      /\ (L + m) * F = L * F + m * F
  OBVIOUS
<1>2. /\ held * F \in Int /\ out * F \in Nat /\ m * F \in Nat /\ L * F \in Nat
      /\ (t - L) * C \in Int /\ B * C \in Nat
  OBVIOUS
<1>3. QED
  BY <1>1, <1>2

\* The same of its emissions, to which late shares bring nothing.
LEMMA EmissionsCoverKept ==
    ASSUME NEW left \in Int, NEW paid \in Nat, NEW t \in Nat, NEW L \in Nat,
           NEW B \in Nat, NEW m \in Nat, NEW E \in Nat, NEW F \in Nat,
           left * F >= (t - L) * E, paid * F <= B * E
    PROVE  (left - paid) * F >= ((t - B + m) - (L + m)) * E
<1>1. /\ (left - paid) * F = left * F - paid * F
      /\ (t - B + m) - (L + m) = (t - L) - B
      /\ ((t - L) - B) * E = (t - L) * E - B * E
  OBVIOUS
<1>2. /\ left * F \in Int /\ paid * F \in Nat
      /\ (t - L) * E \in Int /\ B * E \in Nat
  OBVIOUS
<1>3. QED
  BY <1>1, <1>2

\* What may happen to a settled epoch: B shares are burnt for out assets and
\* paid emissions, and m are minted late.
LEMMA SettledEpochMoves ==
    ASSUME TypeOK, NEW id \in Epochs, EpochOK(id), epochResolved[id],
           NEW out \in Nat, NEW paid \in Nat, NEW B \in Nat, NEW m \in Nat,
           out * finalTVL[id] <= B * claimTVL[id],
           paid * finalTVL[id] <= B * emissions[id],
           finalTVL[id] = 0 => out = 0 /\ paid = 0,
           m > 0 => ~BeginsBetweenBlocks(id),
           totalSupply'[id] = totalSupply[id] - B + m,
           funds'[id] = funds[id] - out + m,
           emissionsFunds'[id] = emissionsFunds[id] - paid,
           late'[id] = late[id] + m,
           UNCHANGED <<now, epochResolved, epochNull, finalTVL, claimTVL, emissions>>
    PROVE  EpochOK(id)'
<1> DEFINE held == funds[id]
           left == emissionsFunds[id]
           t == totalSupply[id]
           L == late[id]
           C == claimTVL[id]
           F == finalTVL[id]
           E == emissions[id]
<1>1. /\ held \in Int /\ left \in Int /\ t \in Nat /\ L \in Nat
      /\ C \in Nat /\ F \in Nat /\ E \in Nat
  BY DEF TypeOK
<1>2. /\ t - L <= F
      /\ held * F >= (t - L) * C + L * F
      /\ left * F >= (t - L) * E
      /\ F = 0 => held >= 0 /\ left >= 0
      /\ L > 0 => ~BeginsBetweenBlocks(id)
      /\ now >= EpochBegin(id)
      /\ epochNull[id] => C = F
  BY DEF EpochOK
<1>3. /\ out * F <= B * C /\ paid * F <= B * E
      /\ F = 0 => out = 0 /\ paid = 0
      /\ totalSupply'[id] = t - B + m /\ funds'[id] = held - out + m
      /\ emissionsFunds'[id] = left - paid /\ late'[id] = L + m
      /\ finalTVL'[id] = F /\ claimTVL'[id] = C /\ emissions'[id] = E
  OBVIOUS
<1> HIDE DEF held, left, t, L, C, F, E
<1>4. (held - out + m) * F >= ((t - B + m) - (L + m)) * C + (L + m) * F
  BY <1>1, <1>2, <1>3, CoverKept
<1>5. (left - paid) * F >= ((t - B + m) - (L + m)) * E
  BY <1>1, <1>2, <1>3, EmissionsCoverKept
<1>6. (t - B + m) - (L + m) <= F
  BY <1>1, <1>2
<1>7. F = 0 => held - out + m >= 0 /\ left - paid >= 0
  BY <1>1, <1>2, <1>3
<1>8. L + m > 0 => ~BeginsBetweenBlocks(id)
  BY <1>1, <1>2
<1>9. /\ now' >= EpochBegin(id)' /\ epochResolved'[id]
      /\ (epochNull'[id] => C = F)
      /\ BeginsBetweenBlocks(id)' <=> BeginsBetweenBlocks(id)
  BY <1>2 DEF EpochBegin, BeginsBetweenBlocks
<1>10. /\ late'[id] > 0 => ~BeginsBetweenBlocks(id)'
       /\ totalSupply'[id] - late'[id] <= finalTVL'[id]
       /\ (epochNull'[id] => claimTVL'[id] = finalTVL'[id])
       /\ finalTVL'[id] = 0 => funds'[id] >= 0 /\ emissionsFunds'[id] >= 0
  BY <1>3, <1>6, <1>7, <1>8, <1>9
<1>11. /\ funds'[id] * finalTVL'[id] >=
             (totalSupply'[id] - late'[id]) * claimTVL'[id] + late'[id] * finalTVL'[id]
       /\ emissionsFunds'[id] * finalTVL'[id] >=
             (totalSupply'[id] - late'[id]) * emissions'[id]
  BY <1>3, <1>4, <1>5
<1>12. QED
  BY <1>9, <1>10, <1>11 DEF EpochOK

\* The history of late shares stays in its type and concerns one epoch.
LEMMA LateCounted ==
    ASSUME TypeOK, NEW id \in Epochs, NEW m \in Nat, CountLate(id, m)
    PROVE  /\ late' \in [Epochs -> Nat]
           /\ late'[id] = IF epochResolved[id] THEN late[id] + m ELSE late[id]
           /\ \A e \in Epochs \ {id} : late'[e] = late[e]
  BY DEF TypeOK, CountLate

\* Minting while the window is open keeps the accounts of the epoch: before the
\* settlement every share has its asset, after it the share is counted late.
LEMMA MintKeepsEpoch ==
    ASSUME TypeOK, EpochsInTime, NEW id \in Epochs, EpochOK(id),
           EpochHasNotStarted(id), NEW m \in Nat, CountLate(id, m),
           totalSupply'[id] = totalSupply[id] + m, funds'[id] = funds[id] + m,
           emissionsFunds'[id] = emissionsFunds[id],
           UNCHANGED <<now, epochResolved, epochNull, finalTVL, claimTVL, emissions>>
    PROVE  EpochOK(id)'
<1>1. /\ totalSupply[id] \in Nat /\ funds[id] \in Int /\ emissionsFunds[id] \in Int
      /\ late[id] \in Nat /\ claimTVL[id] \in Nat /\ emissions[id] \in Nat
      /\ finalTVL[id] \in Nat
  BY DEF TypeOK
<1>2. late'[id] = IF epochResolved[id] THEN late[id] + m ELSE late[id]
  BY LateCounted
<1>3. CASE epochResolved[id]
  <2>1. ~BeginsBetweenBlocks(id)
    BY <1>3, SettledAtBegin
  <2>2. /\ 0 * finalTVL[id] <= 0 * claimTVL[id]
        /\ 0 * finalTVL[id] <= 0 * emissions[id]
    BY <1>1
  <2>3. /\ totalSupply'[id] = totalSupply[id] - 0 + m
        /\ funds'[id] = funds[id] - 0 + m
        /\ emissionsFunds'[id] = emissionsFunds[id] - 0
        /\ late'[id] = late[id] + m /\ 0 \in Nat
    BY <1>1, <1>2, <1>3
  <2>4. QED
    BY <1>3, <2>1, <2>2, <2>3, SettledEpochMoves
<1>4. CASE ~epochResolved[id]
  BY <1>1, <1>2, <1>4 DEF EpochOK, EpochBegin, BeginsBetweenBlocks
<1>5. QED
  BY <1>3, <1>4

\* Steps that create and settle no epoch.
LEMMA TimesKept ==
    ASSUME EpochsInTime, UNCHANGED <<timeVars, epochResolved, emissions>>
    PROVE  EpochsInTime'
  BY DEF EpochsInTime, timeVars, EpochExists, Contains

\* Steps that leave the queue as it is and the positions in it no smaller.
LEMMA LocksKept ==
    ASSUME TypeOK, ItemsLocked, UNCHANGED rolloverQueue,
           balanceOf' \in [Epochs -> [Users -> Nat]],
           \A i \in DOMAIN rolloverQueue :
              rolloverQueue[i].shares > 0 /\ rolloverQueue[i].epochId \in Epochs
                 => \/ balanceOf'[rolloverQueue[i].epochId][rolloverQueue[i].receiver]
                          >= balanceOf[rolloverQueue[i].epochId][rolloverQueue[i].receiver]
                    \/ balanceOf'[rolloverQueue[i].epochId][rolloverQueue[i].receiver]
                          >= rolloverQueue[i].shares
    PROVE  ItemsLocked'
<1> SUFFICES ASSUME NEW i \in DOMAIN rolloverQueue, rolloverQueue[i].shares > 0
             PROVE  /\ rolloverQueue[i].epochId \in Epochs
                    /\ rolloverQueue[i].shares <=
                          balanceOf'[rolloverQueue[i].epochId][rolloverQueue[i].receiver]
  BY DEF ItemsLocked
<1> DEFINE item == rolloverQueue[i]
           e == item.epochId
           u == item.receiver
<1>1. item \in QueueItem
  BY DEF TypeOK
<1>2. u \in Users /\ item.shares \in Nat
  BY <1>1 DEF QueueItem
<1>3. e \in Epochs /\ item.shares <= balanceOf[e][u]
  BY DEF ItemsLocked
<1>4. balanceOf[e][u] \in Nat /\ balanceOf'[e][u] \in Nat
  BY <1>2, <1>3 DEF TypeOK
<1>5. balanceOf'[e][u] >= balanceOf[e][u] \/ balanceOf'[e][u] >= item.shares
  BY <1>3
<1>6. QED
  BY <1>2, <1>3, <1>4, <1>5

\* The account of one epoch and the balance of the vault move together.
LEMMA MoneyMoves ==
    ASSUME TypeOK, BalanceAccounted, NEW id \in Epochs, NEW d \in Int, NEW t \in Int,
           funds' \in [Epochs -> Int], funds'[id] = funds[id] + d,
           \A e \in Epochs \ {id} : funds'[e] = funds[e],
           SumFunction(SharesIn(depositQueue')) = SumFunction(SharesIn(depositQueue)) + t,
           asset' = asset + d + t
    PROVE  BalanceAccounted'
<1>1. funds \in [Epochs -> Int] /\ depositQueue \in Seq(Deposits) /\ asset \in Int
  BY DEF TypeOK, Deposits
<1>2. SumFunction(funds') = SumFunction(funds) + d
  BY <1>1, SumMoves, FiniteAssumption
<1>3. /\ DepositQueueTVL = SumFunction(SharesIn(depositQueue))
      /\ DepositQueueTVL' = SumFunction(SharesIn(depositQueue'))
  BY DEF DepositQueueTVL, SharesIn
<1>4. SumFunction(SharesIn(depositQueue)) \in Int
  BY <1>1, SharesInType
<1>5. SumFunction(funds) \in Int
  BY <1>1, SumInt, FiniteAssumption DEF SumFunction
<1>6. asset = SumFunction(funds) + SumFunction(SharesIn(depositQueue))
  BY <1>3 DEF BalanceAccounted
<1>7. asset' = SumFunction(funds') + SumFunction(SharesIn(depositQueue'))
  BY <1>1, <1>2, <1>4, <1>5, <1>6
<1>8. QED
  BY <1>3, <1>7 DEF BalanceAccounted

\* The emissions of one epoch and the balance in the emissions token.
LEMMA EmissionsMove ==
    ASSUME TypeOK, emissionsBalance = SumFunction(emissionsFunds),
           NEW id \in Epochs, NEW d \in Int,
           emissionsFunds' \in [Epochs -> Int],
           emissionsFunds'[id] = emissionsFunds[id] + d,
           \A e \in Epochs \ {id} : emissionsFunds'[e] = emissionsFunds[e],
           emissionsBalance' = emissionsBalance + d
    PROVE  emissionsBalance' = SumFunction(emissionsFunds')
<1>1. emissionsFunds \in [Epochs -> Int] /\ emissionsBalance \in Int
  BY DEF TypeOK
<1>2. SumFunction(emissionsFunds') = SumFunction(emissionsFunds) + d
  BY <1>1, SumMoves, FiniteAssumption
<1>3. QED
  BY <1>1, <1>2

\* The shares of one epoch: the supply moves with the sum of the balances.
LEMMA SharesMove ==
    ASSUME TypeOK, SupplyIsSumOfBalances, NEW id \in Epochs, NEW d \in Int,
           balanceOf' \in [Epochs -> [Users -> Nat]],
           SumFunction(balanceOf'[id]) = SumFunction(balanceOf[id]) + d,
           \A e \in Epochs \ {id} : balanceOf'[e] = balanceOf[e],
           totalSupply' = [totalSupply EXCEPT ![id] = @ + d]
    PROVE  SupplyIsSumOfBalances' /\ totalSupply' \in [Epochs -> Nat]
<1>1. ASSUME NEW e \in Epochs
      PROVE  totalSupply'[e] = SumFunction(balanceOf'[e]) /\ totalSupply'[e] \in Nat
  <2>1. /\ totalSupply[e] = SumFunction(balanceOf[e]) /\ totalSupply[e] \in Nat
        /\ balanceOf'[e] \in [Users -> Nat]
    BY DEF SupplyIsSumOfBalances, TypeOK
  <2>2. SumFunction(balanceOf'[e]) \in Nat
    BY <2>1, SumNat, FiniteAssumption DEF SumFunction
  <2>3. totalSupply'[e] = SumFunction(balanceOf'[e])
    <3>1. CASE e = id
      BY <2>1, <3>1 DEF TypeOK
    <3>2. CASE e # id
      BY <2>1, <3>2 DEF TypeOK
    <3>3. QED
      BY <3>1, <3>2
  <2>4. QED
    BY <2>2, <2>3
<1>2. totalSupply' = [e \in Epochs |-> totalSupply'[e]]
  BY DEF TypeOK
<1>3. QED
  BY <1>1, <1>2 DEF SupplyIsSumOfBalances

\* A deposit queue that stays as it is keeps its value.
LEMMA QueueSame ==
    ASSUME TypeOK, UNCHANGED depositQueue
    PROVE  SumFunction(SharesIn(depositQueue')) = SumFunction(SharesIn(depositQueue)) + 0
<1>1. depositQueue \in Seq(Deposits)
  BY DEF TypeOK, Deposits
<1>2. SumFunction(SharesIn(depositQueue)) \in Nat
  BY <1>1, SharesInType
<1>3. QED
  BY <1>2

\* What a holder withdraws or sends away is not enlisted: notRollingOver.
LEMMA LocksKeptBy ==
    ASSUME TypeOK, ItemsLocked, QueueIndexed, UNCHANGED rolloverQueue,
           NEW id \in Epochs, NEW owner \in Users, NEW shares \in Nat,
           shares <= balanceOf[id][owner], NotRollingOver(owner, id, shares),
           balanceOf' \in [Epochs -> [Users -> Nat]],
           balanceOf'[id][owner] >= balanceOf[id][owner] - shares,
           \A w \in Users \ {owner} : balanceOf'[id][w] >= balanceOf[id][w],
           \A e \in Epochs \ {id} : balanceOf'[e] = balanceOf[e]
    PROVE  ItemsLocked'
<1>1. ASSUME NEW i \in DOMAIN rolloverQueue, rolloverQueue[i].shares > 0,
             rolloverQueue[i].epochId \in Epochs
      PROVE  \/ balanceOf'[rolloverQueue[i].epochId][rolloverQueue[i].receiver]
                   >= balanceOf[rolloverQueue[i].epochId][rolloverQueue[i].receiver]
             \/ balanceOf'[rolloverQueue[i].epochId][rolloverQueue[i].receiver]
                   >= rolloverQueue[i].shares
  <2> DEFINE e == rolloverQueue[i].epochId
             u == rolloverQueue[i].receiver
             s == rolloverQueue[i].shares
  <2>1. rolloverQueue[i] \in QueueItem /\ i \in 1..Len(rolloverQueue)
    <3>1. rolloverQueue \in Seq(QueueItem)
      BY DEF TypeOK
    <3>2. QED
      BY <3>1
  <2>2. u \in Users /\ s \in Nat /\ e \in Epochs /\ i # 0
    BY <1>1, <2>1 DEF QueueItem
  <2>3. balanceOf[e][u] \in Nat /\ balanceOf'[e][u] \in Nat
    BY <2>2 DEF TypeOK
  <2>4. CASE e = id /\ u = owner
    <3>1. ownerToRollOverQueueIndex[owner] = i
      BY <2>4 DEF QueueIndexed
    <3>2. IsEnlistedInRolloverQueue(owner)
      BY <1>1, <2>2, <3>1 DEF IsEnlistedInRolloverQueue
    <3>3. balanceOf[id][owner] - s >= shares
      BY <2>4, <3>1, <3>2 DEF NotRollingOver
    <3>4. balanceOf'[id][owner] >= s
      BY <2>2, <2>3, <2>4, <3>3
    <3>5. QED
      BY <2>4, <3>4
  <2>5. CASE ~(e = id /\ u = owner)
    BY <2>2, <2>3, <2>5
  <2>6. QED
    BY <2>4, <2>5
<1>2. QED
  BY <1>1, LocksKept

-----------------------------------------------------------------------------
(* The steps.  Each lemma takes what NextKeepsIndex says of the queue.     *)

IndexKept == QueueInv' /\ rolloverAccounting' \in [Epochs -> Nat]

\* Time passes.
LEMMA TickKeeps ==
    ASSUME Inv, IndexKept, Tick
    PROVE  Inv'
<1>1. /\ now' \in BlockTimes /\ now' \in Nat /\ now \in Nat /\ now' > now
      /\ UNCHANGED <<epochs, epochCreation, settleVars, shareVars, moneyVars,
                     feeVars, depositQueue, rolloverVars, emissionVars>>
  BY CarouselAssumption DEF Tick, Inv, TypeOK
<1>2. TypeOK'
  BY <1>1 DEF Inv, TypeOK, settleVars, shareVars, moneyVars, feeVars,
              rolloverVars, emissionVars
<1>3. EpochsInTime'
  <2>1. UNCHANGED <<epochs, epochCreation, epochResolved, emissions>>
    BY <1>1 DEF settleVars, emissionVars
  <2>2. ASSUME NEW id \in Epochs
        PROVE  IF EpochExists(id)' THEN epochCreation'[id] <= now'
                                   ELSE ~epochResolved'[id] /\ emissions'[id] = 0
    <3>1. epochCreation[id] \in Nat
      BY DEF Inv, TypeOK
    <3>2. EpochExists(id)' <=> EpochExists(id)
      BY <2>1 DEF EpochExists, Contains
    <3>3. IF EpochExists(id) THEN epochCreation[id] <= now
                             ELSE ~epochResolved[id] /\ emissions[id] = 0
      BY DEF Inv, EpochsInTime
    <3>4. QED
      BY <1>1, <2>1, <3>1, <3>2, <3>3
  <2>3. QED
    BY <1>1, <2>1, <2>2 DEF Inv, EpochsInTime
<1>4. AllEpochsOK' /\ SumsOK'
  BY <1>1, QuietKeepsAccounts DEF Inv
<1>5. ItemsLocked'
  BY <1>1 DEF Inv, ItemsLocked, rolloverVars, shareVars
<1>6. QED
  BY <1>2, <1>3, <1>4, <1>5, QueueTyped DEF Inv, IndexKept

\* Steps of which the accounts notice nothing, whatever they do to the queue.
LEMMA QuietKeeps ==
    ASSUME Inv, IndexKept, ItemsLocked', depositFee' \in DepositFees,
           UNCHANGED <<timeVars, settleVars, shareVars, moneyVars, depositQueue,
                       emissionVars>>
    PROVE  Inv'
<1>1. TypeOK'
  BY DEF Inv, TypeOK, IndexKept, QueueInv, timeVars, settleVars, shareVars,
         moneyVars, emissionVars
<1>2. EpochsInTime'
  BY TimesKept DEF Inv, settleVars, emissionVars
<1>3. AllEpochsOK' /\ SumsOK'
  <2>1. now' \in Nat /\ now' >= now
    BY DEF Inv, TypeOK, timeVars
  <2>2. QED
    BY <2>1, QuietKeepsAccounts DEF Inv
<1>4. QED
  BY <1>1, <1>2, <1>3, QueueTyped DEF Inv, IndexKept

\* A position that is enlisted is at most what its owner holds.
LEMMA EnlistKeeps ==
    ASSUME Inv, IndexKept, NEW id \in Epochs, NEW shares \in Nat,
           NEW receiver \in Users, NEW sender,
           EnlistInRollover(id, shares, receiver, sender)
    PROVE  Inv'
<1> DEFINE index == ownerToRollOverQueueIndex[receiver]
           item == [shares |-> shares, receiver |-> receiver, epochId |-> id]
           new == EditedQueue(rolloverQueue, index, shares, id)
<1>1. /\ rolloverQueue \in Seq(QueueItem)
      /\ index \in 0..Len(rolloverQueue)
      /\ index # 0 => rolloverQueue[index].receiver = receiver
      /\ balanceOf' = balanceOf /\ shares <= balanceOf[id][receiver]
  <2>1. balanceOf[id][receiver] \in Nat
    BY DEF Inv, TypeOK
  <2>2. QED
    BY <2>1 DEF Inv, TypeOK, QueueIndexed, EnlistInRollover, shareVars
<1>2. \A i \in 1..Len(rolloverQueue) : rolloverQueue[i].shares > 0 =>
         /\ rolloverQueue[i].epochId \in Epochs
         /\ rolloverQueue[i].shares
               <= balanceOf[rolloverQueue[i].epochId][rolloverQueue[i].receiver]
  BY <1>1 DEF Inv, ItemsLocked
<1>3. ASSUME index # 0
      PROVE  /\ new \in Seq(QueueItem) /\ Len(new) = Len(rolloverQueue)
             /\ new[index].shares = shares /\ new[index].epochId = id
             /\ new[index].receiver = rolloverQueue[index].receiver
             /\ \A j \in 1..Len(rolloverQueue) : j # index => new[j] = rolloverQueue[j]
  <2>1. rolloverQueue \in Seq(QueueItem) /\ index \in 1..Len(rolloverQueue)
    BY <1>1, <1>3
  <2>2. id \in Epochs \cup {QueueEpoch}
    OBVIOUS
  <2>3. new = EditedQueue(rolloverQueue, index, shares, id)
    OBVIOUS
  <2> HIDE DEF index, item, new
  <2>4. new[index].shares = shares /\ new[index].epochId = id
    BY <2>1, <2>2, <2>3, ItemEdited
  <2>5. new \in Seq(QueueItem) /\ Len(new) = Len(rolloverQueue)
    BY <2>1, <2>2, <2>3, ItemEdited
  <2>6. new[index].receiver = rolloverQueue[index].receiver
    BY <2>1, <2>2, <2>3, ItemEdited
  <2>7. ASSUME NEW j \in 1..Len(rolloverQueue), j # index
        PROVE  new[j] = rolloverQueue[j]
    BY <2>1, <2>3, <2>7 DEF EditedQueue
  <2>8. QED
    BY <2>4, <2>5, <2>6, <2>7
<1>4. ASSUME NEW i \in DOMAIN rolloverQueue', rolloverQueue'[i].shares > 0
      PROVE  /\ rolloverQueue'[i].epochId \in Epochs
             /\ rolloverQueue'[i].shares <=
                   balanceOf'[rolloverQueue'[i].epochId][rolloverQueue'[i].receiver]
  <2>1. CASE index # 0
    <3>1. rolloverQueue' = new
      BY <2>1 DEF EnlistInRollover, EditedQueue
    <3> HIDE DEF index, new
    <3>2. i \in 1..Len(rolloverQueue)
      BY <1>3, <1>4, <2>1, <3>1
    <3>3. CASE i = index
      BY <1>1, <1>3, <2>1, <3>1, <3>3
    <3>4. CASE i # index
      BY <1>1, <1>2, <1>3, <1>4, <2>1, <3>1, <3>2, <3>4
    <3>5. QED
      BY <3>3, <3>4
  <2>2. CASE index = 0
    <3>1. rolloverQueue' = Append(rolloverQueue, item)
      BY <2>2 DEF EnlistInRollover
    <3>2. /\ item.shares = shares /\ item.epochId = id /\ item.receiver = receiver
      OBVIOUS
    <3> HIDE DEF item, index
    <3>3. /\ DOMAIN rolloverQueue' = 1..(Len(rolloverQueue) + 1)
          /\ rolloverQueue'[Len(rolloverQueue) + 1] = item
          /\ \A j \in 1..Len(rolloverQueue) : rolloverQueue'[j] = rolloverQueue[j]
      BY <1>1, <3>1
    <3>4. CASE i = Len(rolloverQueue) + 1
      BY <1>1, <3>2, <3>3, <3>4
    <3>5. CASE i # Len(rolloverQueue) + 1
      <4>1. i \in 1..Len(rolloverQueue)
        BY <1>1, <1>4, <3>3, <3>5
      <4>2. QED
        BY <1>1, <1>2, <1>4, <3>3, <4>1
    <3>6. QED
      BY <3>4, <3>5
  <2>3. QED
    BY <2>1, <2>2
<1>5. ItemsLocked'
  BY <1>4 DEF ItemsLocked
<1>6. /\ depositFee' \in DepositFees
      /\ UNCHANGED <<timeVars, settleVars, shareVars, moneyVars, depositQueue,
                     emissionVars>>
  BY DEF EnlistInRollover, Inv, TypeOK, feeVars
<1>7. QED
  BY <1>5, <1>6, QuietKeeps

\* Delisting frees a position.
LEMMA DelistKeeps ==
    ASSUME Inv, IndexKept, NEW owner \in Users, NEW sender,
           DelistInRollover(owner, sender)
    PROVE  Inv'
<1> DEFINE index == ownerToRollOverQueueIndex[owner]
           new == EditedQueue(rolloverQueue, index, 0, QueueEpoch)
<1>1. /\ rolloverQueue \in Seq(QueueItem)
      /\ index \in 1..Len(rolloverQueue)
      /\ balanceOf' = balanceOf /\ rolloverQueue' = new
  BY DEF Inv, TypeOK, DelistInRollover, IsEnlistedInRolloverQueue, shareVars,
         EditedQueue
<1>2. 0 \in Nat /\ QueueEpoch \in Epochs \cup {QueueEpoch}
  OBVIOUS
<1> HIDE DEF index
<1>3. /\ new \in Seq(QueueItem) /\ Len(new) = Len(rolloverQueue)
      /\ new[index].shares = 0
      /\ \A j \in 1..Len(rolloverQueue) : j # index => new[j] = rolloverQueue[j]
  BY <1>1, <1>2, ItemEdited
<1> HIDE DEF new
<1>4. ASSUME NEW i \in DOMAIN rolloverQueue', rolloverQueue'[i].shares > 0
      PROVE  /\ rolloverQueue'[i].epochId \in Epochs
             /\ rolloverQueue'[i].shares <=
                   balanceOf'[rolloverQueue'[i].epochId][rolloverQueue'[i].receiver]
  <2>1. i \in 1..Len(rolloverQueue) /\ i # index
    BY <1>1, <1>3, <1>4
  <2>2. i \in DOMAIN rolloverQueue /\ rolloverQueue'[i] = rolloverQueue[i]
    BY <1>1, <1>3, <2>1
  <2>3. QED
    BY <1>1, <1>4, <2>2 DEF Inv, ItemsLocked
<1>5. ItemsLocked'
  BY <1>4 DEF ItemsLocked
<1>6. /\ depositFee' \in DepositFees
      /\ UNCHANGED <<timeVars, settleVars, shareVars, moneyVars, depositQueue,
                     emissionVars>>
  BY DEF DelistInRollover, Inv, TypeOK, feeVars
<1>7. QED
  BY <1>5, <1>6, QuietKeeps

\* The items a clean-up leaves were there before.
LEMMA CleanUpKeeps ==
    ASSUME Inv, IndexKept, NEW a \in CleanUps, CleanUpRolloverQueue(a)
    PROVE  Inv'
<1>1. \A i \in 1..Len(rolloverQueue') : \E j \in 1..Len(rolloverQueue) :
         rolloverQueue'[i] = rolloverQueue[j]
  BY CleanUpKeepsIndex, QueueTyped
<1>2. /\ DOMAIN rolloverQueue' = 1..Len(rolloverQueue')
      /\ DOMAIN rolloverQueue = 1..Len(rolloverQueue)
      /\ balanceOf' = balanceOf
  BY DEF Inv, TypeOK, IndexKept, QueueInv, CleanUpRolloverQueue, shareVars
<1>3. ItemsLocked'
  BY <1>1, <1>2 DEF Inv, ItemsLocked
<1>4. /\ depositFee' \in DepositFees
      /\ UNCHANGED <<timeVars, settleVars, shareVars, moneyVars, depositQueue,
                     emissionVars>>
  BY DEF CleanUpRolloverQueue, Inv, TypeOK, feeVars
<1>5. QED
  BY <1>3, <1>4, QuietKeeps

\* The owner's changes of fees.
LEMMA FeesKeep ==
    ASSUME Inv, IndexKept,
           \/ \E fee \in RelayerFees : ChangeRelayerFee(fee)
           \/ \E fee \in DepositFees : ChangeDepositFee(fee)
    PROVE  Inv'
<1>1. /\ depositFee' \in DepositFees
      /\ UNCHANGED <<timeVars, settleVars, shareVars, moneyVars, depositQueue,
                     emissionVars, rolloverQueue, balanceOf>>
  BY DEF ChangeRelayerFee, ChangeDepositFee, Inv, TypeOK, rolloverVars, shareVars
<1>2. ItemsLocked'
  BY <1>1 DEF Inv, ItemsLocked
<1>3. QED
  BY <1>1, <1>2, QuietKeeps

\* One holder's balance is set to n.
LEMMA BalanceSet ==
    ASSUME TypeOK, NEW id \in Epochs, NEW u \in Users, NEW n \in Nat,
           balanceOf' = [balanceOf EXCEPT ![id][u] = n]
    PROVE  /\ balanceOf' \in [Epochs -> [Users -> Nat]]
           /\ balanceOf'[id][u] = n
           /\ \A w \in Users \ {u} : balanceOf'[id][w] = balanceOf[id][w]
           /\ \A e \in Epochs \ {id} : balanceOf'[e] = balanceOf[e]
           /\ SumFunction(balanceOf'[id]) = SumFunction(balanceOf[id])
                                               + (n - balanceOf[id][u])
<1> DEFINE old == balanceOf[id]
           new == [old EXCEPT ![u] = n]
<1>1. /\ balanceOf \in [Epochs -> [Users -> Nat]] /\ old \in [Users -> Nat]
      /\ balanceOf' = [balanceOf EXCEPT ![id] = new]
  BY DEF TypeOK
<1>2. /\ new \in [Users -> Nat] /\ new[u] = n
      /\ \A w \in Users \ {u} : new[w] = old[w]
  BY <1>1
<1> HIDE DEF new
<1>3. /\ balanceOf' \in [Epochs -> [Users -> Nat]] /\ balanceOf'[id] = new
      /\ \A e \in Epochs \ {id} : balanceOf'[e] = balanceOf[e]
  BY <1>1, <1>2
<1>4. SumFunction(new) = SumFunction(old) + (n - old[u])
  <2> HIDE DEF old
  <2>1. /\ old \in [Users -> Int] /\ new \in [Users -> Int]
        /\ n - old[u] \in Int /\ new[u] = old[u] + (n - old[u])
    BY <1>1, <1>2
  <2> DEFINE d == n - old[u]
  <2>2. d \in Int /\ new[u] = old[u] + d /\ IsFiniteSet(Users)
    BY <2>1, FiniteAssumption
  <2>3. \A y \in Users \ {u} : new[y] = old[y]
    BY <1>2
  <2> HIDE DEF d
  <2>4. SumFunction(new) = SumFunction(old) + d
    BY <2>1, <2>2, <2>3, SumMoves
  <2>5. QED
    BY <2>4 DEF d
<1>5. QED
  BY <1>2, <1>3, <1>4

\* deposit mints in an epoch that has not begun, against assets it receives.
LEMMA DepositKeeps ==
    ASSUME Inv, IndexKept, NEW id \in Epochs, NEW assets \in Nat,
           NEW receiver \in Users, Deposit(id, assets, receiver)
    PROVE  Inv'
<1> DEFINE d == assets - GetEpochDepositFee(id, assets)
<1>1. TypeOK /\ EpochsInTime /\ AllEpochsOK /\ SumsOK /\ ItemsLocked
  BY DEF Inv
<1>2. GetEpochDepositFee(id, assets) \in 0..assets
  <2>1. epochCreation[id] <= now
    BY <1>1 DEF EpochsInTime, Deposit
  <2>2. QED
    BY <1>1, <2>1, FeeBounded DEF Deposit
<1>3. d \in Nat
  BY <1>2
<1>4. /\ asset' = asset + d
      /\ funds' = [funds EXCEPT ![id] = @ + d]
      /\ totalSupply' = [totalSupply EXCEPT ![id] = @ + d]
      /\ balanceOf' = [balanceOf EXCEPT ![id][receiver] = @ + d]
      /\ EpochHasNotStarted(id) /\ CountLate(id, d)
      /\ UNCHANGED <<timeVars, settleVars, feeVars, depositQueue,
                     rolloverVars, emissionVars>>
  BY DEF Deposit
<1> HIDE DEF d
<1>5. late' \in [Epochs -> Nat] /\ \A e \in Epochs \ {id} : late'[e] = late[e]
  BY <1>1, <1>3, <1>4, LateCounted
<1>6. /\ funds \in [Epochs -> Int] /\ totalSupply \in [Epochs -> Nat]
      /\ balanceOf[id][receiver] \in Nat /\ asset \in Nat
      /\ totalSupply[id] \in Nat /\ funds[id] \in Int
  BY <1>1 DEF TypeOK
<1>7. /\ balanceOf' \in [Epochs -> [Users -> Nat]]
      /\ balanceOf'[id][receiver] = balanceOf[id][receiver] + d
      /\ \A w \in Users \ {receiver} : balanceOf'[id][w] = balanceOf[id][w]
      /\ \A e \in Epochs \ {id} : balanceOf'[e] = balanceOf[e]
      /\ SumFunction(balanceOf'[id]) = SumFunction(balanceOf[id]) + d
  <2> DEFINE n == balanceOf[id][receiver] + d
  <2>1. n \in Nat /\ n - balanceOf[id][receiver] = d
    BY <1>3, <1>6
  <2>2. balanceOf' = [balanceOf EXCEPT ![id][receiver] = n]
    BY <1>4
  <2> HIDE DEF n
  <2>3. /\ balanceOf' \in [Epochs -> [Users -> Nat]]
        /\ balanceOf'[id][receiver] = n
        /\ \A w \in Users \ {receiver} : balanceOf'[id][w] = balanceOf[id][w]
        /\ \A e \in Epochs \ {id} : balanceOf'[e] = balanceOf[e]
        /\ SumFunction(balanceOf'[id]) = SumFunction(balanceOf[id])
                                            + (n - balanceOf[id][receiver])
    BY <1>1, <2>1, <2>2, BalanceSet
  <2>4. QED
    BY <2>1, <2>3 DEF n
<1>8. SupplyIsSumOfBalances' /\ totalSupply' \in [Epochs -> Nat]
  <2>1. d \in Int /\ SupplyIsSumOfBalances
    BY <1>1, <1>3 DEF SumsOK
  <2>2. QED
    BY <1>1, <1>4, <1>7, <2>1, SharesMove
<1>9. /\ funds' \in [Epochs -> Int] /\ funds'[id] = funds[id] + d
      /\ \A e \in Epochs \ {id} : funds'[e] = funds[e]
      /\ totalSupply'[id] = totalSupply[id] + d
      /\ \A e \in Epochs \ {id} : totalSupply'[e] = totalSupply[e]
  BY <1>3, <1>4, <1>6
<1>10. BalanceAccounted'
  <2>1. /\ d \in Int /\ 0 \in Int /\ asset' = asset + d + 0
        /\ BalanceAccounted /\ depositQueue' = depositQueue
    BY <1>1, <1>3, <1>4, <1>6 DEF SumsOK
  <2>2. SumFunction(SharesIn(depositQueue')) = SumFunction(SharesIn(depositQueue)) + 0
    <3>1. depositQueue \in Seq(Deposits)
      BY <1>1 DEF TypeOK, Deposits
    <3>2. SumFunction(SharesIn(depositQueue)) \in Nat
      BY <3>1, SharesInType
    <3>3. QED
      BY <2>1, <3>2
  <2>3. QED
    BY <1>1, <1>9, <2>1, <2>2, MoneyMoves
<1>11. SumsOK'
  BY <1>1, <1>4, <1>8, <1>10 DEF SumsOK, emissionVars
<1>12. AllEpochsOK'
  <2>1. UNCHANGED <<now, epochResolved, epochNull, finalTVL, claimTVL, emissions,
                    emissionsFunds>>
    BY <1>4 DEF timeVars, settleVars, emissionVars
  <2>2. EpochOK(id)
    BY <1>1 DEF AllEpochsOK
  <2>3. EpochOK(id)'
    BY <1>1, <1>3, <1>4, <1>9, <2>1, <2>2, MintKeepsEpoch
  <2>4. QED
    BY <1>1, <1>5, <1>9, <2>1, <2>3, OtherEpochsKept
<1>13. ItemsLocked'
  <2>1. ASSUME NEW e \in Epochs, NEW w \in Users
        PROVE  balanceOf'[e][w] >= balanceOf[e][w]
    <3>1. balanceOf[e][w] \in Nat
      BY <1>1 DEF TypeOK
    <3>2. CASE e = id /\ w = receiver
      BY <1>3, <1>6, <1>7, <3>2
    <3>3. CASE ~(e = id /\ w = receiver)
      BY <1>7, <3>1, <3>3
    <3>4. QED
      BY <3>2, <3>3
  <2>2. \A i \in DOMAIN rolloverQueue : rolloverQueue[i].receiver \in Users
    <3>1. \A i \in DOMAIN rolloverQueue : rolloverQueue[i] \in QueueItem
      BY <1>1 DEF TypeOK
    <3>2. QED
      BY <3>1 DEF QueueItem
  <2>3. UNCHANGED rolloverQueue
    BY <1>4 DEF rolloverVars
  <2>4. QED
    BY <1>1, <1>7, <2>1, <2>2, <2>3, LocksKept
<1>14. TypeOK'
  <2>1. asset' \in Nat
    BY <1>3, <1>4, <1>6
  <2>2. QED
    BY <1>1, <1>4, <1>5, <1>7, <1>8, <1>9, <2>1
       DEF TypeOK, IndexKept, QueueInv, timeVars, settleVars, feeVars, emissionVars
<1>15. EpochsInTime'
  BY <1>1, <1>4, TimesKept DEF settleVars, emissionVars
<1>16. QED
  BY <1>11, <1>12, <1>13, <1>14, <1>15, QueueTyped DEF Inv, IndexKept

\* A deposit for the queue epoch holds its assets until they are minted.
LEMMA DepositInQueueKeeps ==
    ASSUME Inv, IndexKept, NEW assets \in Nat, NEW receiver \in Users,
           DepositInQueue(assets, receiver)
    PROVE  Inv'
<1> DEFINE item == [shares |-> assets, receiver |-> receiver]
<1>1. /\ TypeOK /\ EpochsInTime /\ AllEpochsOK /\ SumsOK /\ ItemsLocked
      /\ asset \in Nat /\ depositQueue \in Seq(Deposits)
  BY DEF Inv, TypeOK, Deposits
<1>2. /\ asset' = asset + assets
      /\ depositQueue' = Append(depositQueue, item)
      /\ UNCHANGED <<timeVars, settleVars, shareVars, funds, feeVars,
                     rolloverVars, emissionVars>>
  BY DEF DepositInQueue
<1>3. item \in Deposits /\ item.shares = assets
  BY DEF Deposits
<1> HIDE DEF item
<1>4. /\ SumFunction(SharesIn(depositQueue')) = SumFunction(SharesIn(depositQueue)) + assets
      /\ SumFunction(SharesIn(depositQueue)) \in Nat
      /\ depositQueue' \in Seq(Deposits)
  BY <1>1, <1>2, <1>3, QueueGrows, SharesInType
<1>5. BalanceAccounted'
  <2>1. DepositQueueTVL' = DepositQueueTVL + assets /\ DepositQueueTVL \in Nat
    BY <1>4 DEF DepositQueueTVL, SharesIn
  <2>2. SumFunction(funds) \in Int
    BY <1>1, SumInt, FiniteAssumption DEF TypeOK, SumFunction
  <2>3. asset = SumFunction(funds) + DepositQueueTVL
    BY <1>1 DEF SumsOK, BalanceAccounted
  <2>4. funds' = funds
    BY <1>2
  <2>5. QED
    BY <1>2, <2>1, <2>2, <2>3, <2>4 DEF BalanceAccounted
<1>6. SumsOK'
  BY <1>1, <1>2, <1>5 DEF SumsOK, SupplyIsSumOfBalances, shareVars, emissionVars
<1>7. AllEpochsOK'
  <2>1. UNCHANGED <<now, epochResolved, epochNull, finalTVL, claimTVL, totalSupply,
                    late, funds, emissions, emissionsFunds>>
    BY <1>2 DEF timeVars, settleVars, shareVars, emissionVars
  <2>2. QED
    BY <1>1, <2>1 DEF AllEpochsOK, EpochOK, EpochBegin, BeginsBetweenBlocks
<1>8. ItemsLocked'
  BY <1>1, <1>2 DEF ItemsLocked, rolloverVars, shareVars
<1>9. TypeOK'
  <2>1. asset' \in Nat
    BY <1>1, <1>2
  <2>2. QED
    BY <1>1, <1>2, <1>4, <2>1
       DEF TypeOK, IndexKept, QueueInv, Deposits, timeVars, settleVars, shareVars,
           feeVars, emissionVars
<1>10. EpochsInTime'
  BY <1>1, <1>2, TimesKept DEF settleVars, emissionVars
<1>11. QED
  BY <1>6, <1>7, <1>8, <1>9, <1>10, QueueTyped DEF Inv, IndexKept

\* No holder has more than all the shares of the epoch.
LEMMA BalanceWithinSupply ==
    ASSUME TypeOK, SupplyIsSumOfBalances, NEW id \in Epochs, NEW u \in Users
    PROVE  balanceOf[id][u] <= totalSupply[id]
<1>1. balanceOf[id] \in [Users -> Nat] /\ IsFiniteSet(Users)
  BY FiniteAssumption DEF TypeOK
<1>2. balanceOf[id][u] <= SumFunctionOnSet(balanceOf[id], Users)
  BY <1>1, SumBoundsElement
<1>3. totalSupply[id] = SumFunctionOnSet(balanceOf[id], Users)
  BY <1>1 DEF SupplyIsSumOfBalances, SumFunction
<1>4. QED
  BY <1>2, <1>3

\* What withdraw pays is no more than the shares are worth, in assets and in
\* emissions.
LEMMA PayoutWorth ==
    ASSUME TypeOK, NEW id \in Epochs, EpochOK(id), epochResolved[id],
           finalTVL[id] # 0, NEW shares \in Nat
    PROVE  /\ Payout(id, shares) \in Nat
           /\ Payout(id, shares) * finalTVL[id] <= shares * claimTVL[id]
           /\ PreviewEmissionsWithdraw(id, shares) \in Nat
           /\ PreviewEmissionsWithdraw(id, shares) * finalTVL[id]
                 <= shares * emissions[id]
<1> DEFINE F == finalTVL[id]
           C == claimTVL[id]
           E == emissions[id]
           p == (shares * C) \div F
           q == (shares * E) \div F
<1>1. /\ F \in Nat \ {0} /\ C \in Nat /\ E \in Nat
      /\ epochNull[id] => C = F
  BY DEF TypeOK, EpochOK
<1>2. /\ Payout(id, shares) = IF epochNull[id] THEN shares ELSE p
      /\ PreviewEmissionsWithdraw(id, shares) = q
  BY DEF Payout, PreviewWithdraw, PreviewEmissionsWithdraw, MulDivDown
<1> HIDE DEF F, C, E
<1>3. /\ shares * C \in Nat /\ shares * E \in Nat
  BY <1>1
<1>4. /\ p \in Nat /\ F * p <= shares * C
      /\ q \in Nat /\ F * q <= shares * E
  BY <1>1, <1>3, QuotientBounds
<1> HIDE DEF p, q
<1>5. p * F <= shares * C /\ q * F <= shares * E
  <2>1. p * F = F * p /\ q * F = F * q
    BY <1>1, <1>4
  <2>2. QED
    BY <1>4, <2>1
<1>6. epochNull[id] => shares * F <= shares * C
  BY <1>1, <1>3
<1>7. QED
  BY <1>2, <1>4, <1>5, <1>6 DEF F, C, E

\* When none of the shares was minted late, what withdraw pays for them is
\* there: the account holds their worth and the emissions, which are more.
LEMMA WithdrawalCovered ==
    ASSUME TypeOK, NEW id \in Epochs, EpochOK(id), epochResolved[id],
           late[id] = 0, finalTVL[id] # 0,
           NEW shares \in Nat, shares <= totalSupply[id]
    PROVE  /\ Payout(id, shares) <= funds[id]
           /\ PreviewEmissionsWithdraw(id, shares) <= emissionsFunds[id]
<1> DEFINE F == finalTVL[id]
           C == claimTVL[id]
           E == emissions[id]
           t == totalSupply[id]
           p == Payout(id, shares)
           q == PreviewEmissionsWithdraw(id, shares)
           held == funds[id]
           left == emissionsFunds[id]
<1>1. /\ F \in Nat \ {0} /\ C \in Nat /\ E \in Nat /\ t \in Nat
      /\ held \in Int /\ left \in Int /\ shares <= t
  BY DEF TypeOK
<1>2. /\ held * F >= (t - 0) * C + 0 * F
      /\ left * F >= (t - 0) * E
  BY DEF EpochOK
<1>3. /\ p \in Nat /\ q \in Nat
      /\ p * F <= shares * C /\ q * F <= shares * E
  BY PayoutWorth
<1> HIDE DEF F, C, E, t, p, q, held, left
<1>4. held * F >= t * C /\ left * F >= t * E
  BY <1>1, <1>2
<1>5. p <= held
  BY <1>1, <1>3, <1>4, WorthWithin
<1>6. q <= left
  BY <1>1, <1>3, <1>4, WorthWithin
<1>7. QED
  BY <1>5, <1>6 DEF p, q, held, left

\* A holder who withdraws takes no more of the money and of the emissions of
\* the epoch than the shares are worth, and cannot touch an enlisted position.
LEMMA WithdrawKeeps ==
    ASSUME Inv, IndexKept, NEW id \in Epochs, NEW shares \in Nat,
           NEW owner \in Users, NEW sender, Withdraw(id, shares, owner, sender)
    PROVE  Inv'
<1> DEFINE assets == IF epochNull[id] THEN shares
                                      ELSE PreviewWithdraw(id, shares)
           paid == PreviewEmissionsWithdraw(id, shares)
           F == finalTVL[id]
           C == claimTVL[id]
           t == totalSupply[id]
<1>1. TypeOK /\ EpochsInTime /\ AllEpochsOK /\ SumsOK /\ ItemsLocked
  BY DEF Inv
<1>2. /\ F \in Nat \ {0} /\ C \in Nat /\ t \in Nat
      /\ emissions[id] \in Nat /\ balanceOf[id][owner] \in Nat
      /\ funds[id] \in Int /\ emissionsFunds[id] \in Int
      /\ asset \in Nat /\ emissionsBalance \in Nat
      /\ epochResolved[id]
  BY <1>1 DEF TypeOK, Withdraw
<1>3. EpochOK(id)
  BY <1>1 DEF AllEpochsOK
<1>4. /\ shares <= balanceOf[id][owner] /\ shares <= t
  <2>1. shares <= balanceOf[id][owner]
    BY <1>2 DEF Withdraw
  <2>2. balanceOf[id][owner] <= t
    BY <1>1, BalanceWithinSupply DEF SumsOK
  <2>3. QED
    BY <1>2, <2>1, <2>2
<1>5. /\ assets \in Nat /\ assets * F <= shares * C
      /\ paid \in Nat /\ paid * F <= shares * emissions[id]
  <2>1. assets = Payout(id, shares)
    BY DEF Payout
  <2> HIDE DEF assets
  <2>2. QED
    BY <1>1, <1>2, <1>3, <2>1, PayoutWorth
<1>6. /\ asset' = asset - assets /\ assets <= asset
      /\ funds' = [funds EXCEPT ![id] = @ - assets]
      /\ emissionsBalance' = emissionsBalance - paid
      /\ paid <= emissionsBalance
      /\ emissionsFunds' = [emissionsFunds EXCEPT ![id] = @ - paid]
      /\ totalSupply' = [totalSupply EXCEPT ![id] = @ - shares]
      /\ balanceOf' = [balanceOf EXCEPT ![id][owner] = @ - shares]
      /\ NotRollingOver(owner, id, shares)
      /\ UNCHANGED <<timeVars, settleVars, late, feeVars, depositQueue, rolloverVars,
                     emissions>>
  BY DEF Withdraw
<1> HIDE DEF assets, paid
<1>7. /\ balanceOf' \in [Epochs -> [Users -> Nat]]
      /\ balanceOf'[id][owner] = balanceOf[id][owner] - shares
      /\ \A w \in Users \ {owner} : balanceOf'[id][w] = balanceOf[id][w]
      /\ \A e \in Epochs \ {id} : balanceOf'[e] = balanceOf[e]
      /\ SumFunction(balanceOf'[id]) = SumFunction(balanceOf[id]) + (-shares)
  <2> DEFINE n == balanceOf[id][owner] - shares
  <2>1. n \in Nat /\ n - balanceOf[id][owner] = -shares
    BY <1>2, <1>4
  <2>2. balanceOf' = [balanceOf EXCEPT ![id][owner] = n]
    BY <1>6
  <2> HIDE DEF n
  <2>3. /\ balanceOf' \in [Epochs -> [Users -> Nat]]
        /\ balanceOf'[id][owner] = n
        /\ \A w \in Users \ {owner} : balanceOf'[id][w] = balanceOf[id][w]
        /\ \A e \in Epochs \ {id} : balanceOf'[e] = balanceOf[e]
        /\ SumFunction(balanceOf'[id]) = SumFunction(balanceOf[id])
                                            + (n - balanceOf[id][owner])
    BY <1>1, <2>1, <2>2, BalanceSet
  <2>4. QED
    BY <2>1, <2>3 DEF n
<1>8. SupplyIsSumOfBalances' /\ totalSupply' \in [Epochs -> Nat]
  <2> DEFINE d == -shares
  <2>1. d \in Int /\ SupplyIsSumOfBalances
    BY <1>1 DEF SumsOK
  <2>2. totalSupply' = [totalSupply EXCEPT ![id] = @ + d]
    BY <1>1, <1>2, <1>6 DEF TypeOK
  <2> HIDE DEF d
  <2>3. SumFunction(balanceOf'[id]) = SumFunction(balanceOf[id]) + d
    BY <1>7 DEF d
  <2>4. QED
    BY <1>1, <1>7, <2>1, <2>2, <2>3, SharesMove
<1>9. /\ funds' \in [Epochs -> Int] /\ funds'[id] = funds[id] - assets
      /\ \A e \in Epochs \ {id} : funds'[e] = funds[e]
      /\ emissionsFunds' \in [Epochs -> Int]
      /\ emissionsFunds'[id] = emissionsFunds[id] - paid
      /\ \A e \in Epochs \ {id} : emissionsFunds'[e] = emissionsFunds[e]
      /\ totalSupply'[id] = t - shares
      /\ \A e \in Epochs \ {id} : totalSupply'[e] = totalSupply[e]
  <2>1. /\ funds \in [Epochs -> Int] /\ emissionsFunds \in [Epochs -> Int]
        /\ totalSupply \in [Epochs -> Nat] /\ assets \in Nat /\ paid \in Nat
    BY <1>1, <1>5 DEF TypeOK
  <2>2. /\ funds' = [funds EXCEPT ![id] = @ - assets]
        /\ emissionsFunds' = [emissionsFunds EXCEPT ![id] = @ - paid]
        /\ totalSupply' = [totalSupply EXCEPT ![id] = @ - shares]
    BY <1>6
  <2>3. QED
    BY <2>1, <2>2
<1>10. BalanceAccounted'
  <2> DEFINE d == -assets
  <2>1. /\ d \in Int /\ 0 \in Int /\ asset' = asset + d + 0
        /\ BalanceAccounted /\ funds'[id] = funds[id] + d
    BY <1>1, <1>2, <1>5, <1>6, <1>9 DEF SumsOK
  <2>2. SumFunction(SharesIn(depositQueue')) = SumFunction(SharesIn(depositQueue)) + 0
    BY <1>1, <1>6, QueueSame
  <2> HIDE DEF d
  <2>3. QED
    BY <1>1, <1>9, <2>1, <2>2, MoneyMoves
<1>11. emissionsBalance' = SumFunction(emissionsFunds')
  <2> DEFINE d == -paid
  <2>1. /\ d \in Int /\ emissionsBalance' = emissionsBalance + d
        /\ emissionsBalance = SumFunction(emissionsFunds)
        /\ emissionsFunds'[id] = emissionsFunds[id] + d
    BY <1>1, <1>2, <1>5, <1>6, <1>9 DEF SumsOK
  <2> HIDE DEF d
  <2>2. QED
    BY <1>1, <1>9, <2>1, EmissionsMove
<1>12. SumsOK'
  BY <1>8, <1>10, <1>11 DEF SumsOK
<1>13. AllEpochsOK'
  <2>1. UNCHANGED <<now, epochResolved, epochNull, finalTVL, claimTVL, emissions,
                    late>>
    BY <1>6 DEF timeVars, settleVars
  <2>2. EpochOK(id)'
    <3>1. late[id] \in Nat /\ 0 \in Nat
      BY <1>1 DEF TypeOK
    <3>2. /\ totalSupply'[id] = totalSupply[id] - shares + 0
          /\ funds'[id] = funds[id] - assets + 0
          /\ emissionsFunds'[id] = emissionsFunds[id] - paid
          /\ late'[id] = late[id] + 0
      BY <1>2, <1>5, <1>9, <2>1, <3>1
    <3>3. /\ assets * finalTVL[id] <= shares * claimTVL[id]
          /\ paid * finalTVL[id] <= shares * emissions[id]
          /\ assets \in Nat /\ paid \in Nat
          /\ finalTVL[id] = 0 => assets = 0 /\ paid = 0
          /\ 0 > 0 => ~BeginsBetweenBlocks(id)
      BY <1>2, <1>5
    <3>4. TypeOK /\ EpochOK(id) /\ epochResolved[id]
      BY <1>1, <1>2, <1>3
    <3> HIDE DEF F, C, t
    <3>5. QED
      BY <2>1, <3>1, <3>2, <3>3, <3>4, SettledEpochMoves
  <2>3. QED
    BY <1>1, <1>9, <2>1, <2>2, OtherEpochsKept
<1>14. ItemsLocked'
  <2>1. UNCHANGED rolloverQueue
    BY <1>6 DEF rolloverVars
  <2>2. QED
    BY <1>1, <1>2, <1>4, <1>6, <1>7, <2>1, LocksKeptBy DEF Inv
<1>15. TypeOK'
  <2>1. asset' \in Nat /\ emissionsBalance' \in Nat
    BY <1>2, <1>5, <1>6
  <2>2. QED
    BY <1>1, <1>6, <1>7, <1>8, <1>9, <2>1
       DEF TypeOK, IndexKept, QueueInv, timeVars, settleVars, feeVars
<1>16. EpochsInTime'
  BY <1>1, <1>6, TimesKept DEF settleVars
<1>17. QED
  BY <1>12, <1>13, <1>14, <1>15, <1>16, QueueTyped DEF Inv, IndexKept

\* The balances of one epoch after amount has moved from one holder to
\* another, or to the same.
Transferred(b, from, to, amount) ==
    [[b EXCEPT ![from] = @ - amount] EXCEPT ![to] = @ + amount]

\* A transfer moves shares and creates none.
LEMMA TransferBalances ==
    ASSUME NEW b \in [Users -> Nat], NEW from \in Users, NEW to \in Users,
           NEW amount \in Nat, amount <= b[from]
    PROVE  /\ Transferred(b, from, to, amount) \in [Users -> Nat]
           /\ Transferred(b, from, to, amount)[from] >= b[from] - amount
           /\ \A w \in Users \ {from} : Transferred(b, from, to, amount)[w] >= b[w]
           /\ SumFunction(Transferred(b, from, to, amount)) = SumFunction(b)
<1> DEFINE mid == [b EXCEPT ![from] = @ - amount]
           new == [mid EXCEPT ![to] = @ + amount]
           less == -amount
<1>1. /\ mid \in [Users -> Nat] /\ mid[from] = b[from] + less /\ less \in Int
      /\ \A w \in Users \ {from} : mid[w] = b[w]
  OBVIOUS
<1> HIDE DEF mid
<1>2. /\ new \in [Users -> Nat] /\ new[to] = mid[to] + amount
      /\ \A w \in Users \ {to} : new[w] = mid[w]
  BY <1>1
<1>3. Transferred(b, from, to, amount) = new
  BY DEF Transferred, mid
<1> HIDE DEF new
<1>4. new[from] >= b[from] - amount
  <2>1. less = -amount
    OBVIOUS
  <2> HIDE DEF less
  <2>2. mid[from] \in Nat /\ new[from] \in Nat /\ b[from] \in Nat
    BY <1>1, <1>2
  <2>3. new[from] = mid[from] \/ new[from] = mid[from] + amount
    BY <1>2
  <2>4. QED
    BY <1>1, <2>1, <2>2, <2>3
<1>5. ASSUME NEW w \in Users \ {from} PROVE new[w] >= b[w]
  <2>1. mid[w] = b[w] /\ b[w] \in Nat
    BY <1>1
  <2>2. new[w] = mid[w] \/ new[w] = mid[w] + amount
    BY <1>2
  <2>3. QED
    BY <2>1, <2>2
<1>6. SumFunction(new) = SumFunction(b)
  <2>1. less + amount = 0
    OBVIOUS
  <2>2. /\ IsFiniteSet(Users) /\ amount \in Int /\ b \in [Users -> Int]
        /\ mid \in [Users -> Int] /\ new \in [Users -> Int]
    BY <1>1, <1>2, FiniteAssumption
  <2> HIDE DEF less
  <2>3. SumFunction(mid) = SumFunction(b) + less
    BY <1>1, <2>2, SumMoves
  <2>4. SumFunction(new) = SumFunction(mid) + amount
    BY <1>2, <2>2, SumMoves
  <2>5. SumFunction(b) \in Int
    BY <2>2, SumInt DEF SumFunction
  <2>6. QED
    BY <1>1, <2>1, <2>3, <2>4, <2>5
<1>7. QED
  BY <1>2, <1>3, <1>4, <1>5, <1>6

\* Only what is not enlisted changes hands.
LEMMA TransferKeeps ==
    ASSUME Inv, IndexKept, NEW id \in Epochs, NEW from \in Users,
           NEW to \in Users, NEW amount \in Nat, NEW sender,
           SafeTransferFrom(id, from, to, amount, sender)
    PROVE  Inv'
<1> DEFINE b == balanceOf[id]
           new == Transferred(b, from, to, amount)
<1>1. TypeOK /\ EpochsInTime /\ AllEpochsOK /\ SumsOK /\ ItemsLocked /\ QueueIndexed
  BY DEF Inv
<1>2. /\ balanceOf \in [Epochs -> [Users -> Nat]] /\ b \in [Users -> Nat]
      /\ b[from] \in Nat /\ amount <= b[from]
  BY <1>1 DEF TypeOK, SafeTransferFrom
<1>3. /\ balanceOf' = [balanceOf EXCEPT ![id] = new]
      /\ NotRollingOver(from, id, amount)
      /\ UNCHANGED <<timeVars, settleVars, totalSupply, late, moneyVars, feeVars,
                     depositQueue, rolloverVars, emissionVars>>
  BY DEF SafeTransferFrom, Transferred
<1> HIDE DEF b
<1>4. /\ new \in [Users -> Nat] /\ new[from] >= b[from] - amount
      /\ \A w \in Users \ {from} : new[w] >= b[w]
      /\ SumFunction(new) = SumFunction(b)
  BY <1>2, TransferBalances
<1> HIDE DEF new
<1>5. /\ balanceOf' \in [Epochs -> [Users -> Nat]] /\ balanceOf'[id] = new
      /\ \A e \in Epochs \ {id} : balanceOf'[e] = balanceOf[e]
  BY <1>2, <1>3, <1>4
<1>6. SupplyIsSumOfBalances'
  <2>1. \A e \in Epochs : SumFunction(balanceOf'[e]) = SumFunction(balanceOf[e])
    BY <1>4, <1>5 DEF b
  <2>2. totalSupply' = totalSupply /\ SupplyIsSumOfBalances
    BY <1>1, <1>3 DEF SumsOK
  <2>3. QED
    BY <2>1, <2>2 DEF SupplyIsSumOfBalances
<1>7. UNCHANGED <<now, epochs, epochCreation, epochResolved, epochNull, finalTVL,
                  claimTVL, totalSupply, late, asset, funds, relayerFee, depositFee,
                  depositQueue, rolloverQueue, emissions, emissionsBalance,
                  emissionsFunds>>
  BY <1>3 DEF timeVars, settleVars, moneyVars, feeVars, rolloverVars, emissionVars
<1>8. SumsOK'
  BY <1>1, <1>6, <1>7 DEF SumsOK, BalanceAccounted, DepositQueueTVL
<1>9. AllEpochsOK'
  BY <1>1, <1>7 DEF AllEpochsOK, EpochOK, EpochBegin, BeginsBetweenBlocks
<1>10. ItemsLocked'
  <2>1. /\ amount <= balanceOf[id][from]
        /\ balanceOf'[id][from] >= balanceOf[id][from] - amount
        /\ \A w \in Users \ {from} : balanceOf'[id][w] >= balanceOf[id][w]
    BY <1>2, <1>4, <1>5 DEF b
  <2>2. UNCHANGED rolloverQueue
    BY <1>7
  <2>3. QED
    BY <1>1, <1>3, <1>5, <2>1, <2>2, LocksKeptBy
<1>11. TypeOK'
  BY <1>1, <1>5, <1>7 DEF TypeOK, IndexKept, QueueInv
<1>12. EpochsInTime'
  BY <1>1, <1>7, TimesKept DEF timeVars
<1>13. QED
  BY <1>8, <1>9, <1>10, <1>11, <1>12, QueueTyped DEF Inv, IndexKept

\* An epoch that is created has no money yet, and its emissions arrive with it.
LEMMA CreateEpochKeeps ==
    ASSUME Inv, IndexKept, NEW id \in Epochs, NEW emission \in Nat,
           CreateEpochWithEmissions(id, emission)
    PROVE  Inv'
<1>1. TypeOK /\ EpochsInTime /\ AllEpochsOK /\ SumsOK /\ ItemsLocked
  BY DEF Inv
<1>2. /\ ~EpochExists(id)
      /\ epochs' = Append(epochs, id)
      /\ epochCreation' = [epochCreation EXCEPT ![id] = now]
      /\ emissions' = [emissions EXCEPT ![id] = emission]
      /\ emissionsBalance' = emissionsBalance + emission
      /\ emissionsFunds' = [emissionsFunds EXCEPT ![id] = @ + emission]
      /\ UNCHANGED <<now, settleVars, shareVars, moneyVars, feeVars,
                     depositQueue, rolloverVars>>
  BY DEF CreateEpochWithEmissions
<1>3. UNCHANGED <<now, epochResolved, epochNull, finalTVL, claimTVL, totalSupply,
                  balanceOf, late, asset, funds, depositFee, relayerFee,
                  depositQueue, rolloverQueue>>
  BY <1>2 DEF settleVars, shareVars, moneyVars, feeVars, rolloverVars
<1>4. /\ emissions \in [Epochs -> Nat] /\ emissionsFunds \in [Epochs -> Int]
      /\ epochCreation \in [Epochs -> Nat] /\ now \in Nat /\ emissionsBalance \in Nat
      /\ epochs \in Seq(Epochs \cup {QueueEpoch})
  BY <1>1 DEF TypeOK
<1>5. ~epochResolved[id] /\ emissions[id] = 0
  BY <1>1, <1>2 DEF EpochsInTime
<1>6. /\ emissions' \in [Epochs -> Nat] /\ emissions'[id] = emission
      /\ \A e \in Epochs \ {id} : emissions'[e] = emissions[e]
      /\ emissionsFunds' \in [Epochs -> Int]
      /\ emissionsFunds'[id] = emissionsFunds[id] + emission
      /\ \A e \in Epochs \ {id} : emissionsFunds'[e] = emissionsFunds[e]
      /\ epochCreation' \in [Epochs -> Nat] /\ epochCreation'[id] = now
      /\ \A e \in Epochs \ {id} : epochCreation'[e] = epochCreation[e]
  BY <1>2, <1>4
<1>7. /\ epochs' \in Seq(Epochs \cup {QueueEpoch}) /\ epochs' # <<>>
      /\ \A e \in Epochs \ {id} : EpochExists(e)' <=> EpochExists(e)
      /\ EpochExists(id)'
  <2>1. /\ epochs' \in Seq(Epochs \cup {QueueEpoch})
        /\ Len(epochs') = Len(epochs) + 1 /\ Len(epochs) \in Nat
        /\ epochs'[Len(epochs) + 1] = id
        /\ \A i \in 1..Len(epochs) : epochs'[i] = epochs[i]
    BY <1>2, <1>4
  <2>2. \A e : EpochExists(e) <=> \E i \in 1..Len(epochs) : epochs[i] = e
    BY DEF EpochExists, Contains
  <2>3. \A e : EpochExists(e)' <=> \E i \in 1..Len(epochs') : epochs'[i] = e
    BY DEF EpochExists, Contains
  <2>4. Len(epochs) + 1 \in 1..Len(epochs')
    BY <2>1
  <2>5. EpochExists(id)'
    BY <2>1, <2>3, <2>4
  <2>6. ASSUME NEW e \in Epochs \ {id} PROVE EpochExists(e)' <=> EpochExists(e)
    <3>1. ASSUME EpochExists(e) PROVE EpochExists(e)'
      <4>1. PICK i \in 1..Len(epochs) : epochs[i] = e
        BY <2>2, <3>1
      <4>2. i \in 1..Len(epochs') /\ epochs'[i] = e
        BY <2>1, <4>1
      <4>3. QED
        BY <2>3, <4>2
    <3>2. ASSUME EpochExists(e)' PROVE EpochExists(e)
      <4>1. PICK i \in 1..Len(epochs') : epochs'[i] = e
        BY <2>3, <3>2
      <4>2. i \in 1..Len(epochs)
        BY <2>1, <4>1
      <4>3. epochs[i] = e
        BY <2>1, <4>1, <4>2
      <4>4. QED
        BY <2>2, <4>2, <4>3
    <3>3. QED
      BY <3>1, <3>2
  <2>7. epochs' # <<>>
    BY <2>1
  <2>8. QED
    BY <2>1, <2>5, <2>6, <2>7
<1>8. EpochsInTime'
  <2>1. ASSUME NEW e \in Epochs
        PROVE  IF EpochExists(e)' THEN epochCreation'[e] <= now'
                                  ELSE ~epochResolved'[e] /\ emissions'[e] = 0
    <3>1. IF EpochExists(e) THEN epochCreation[e] <= now
                            ELSE ~epochResolved[e] /\ emissions[e] = 0
      BY <1>1 DEF EpochsInTime
    <3>2. CASE e = id
      BY <1>3, <1>4, <1>6, <1>7, <3>2
    <3>3. CASE e # id
      BY <1>3, <1>6, <1>7, <3>1, <3>3
    <3>4. QED
      BY <3>2, <3>3
  <2>2. now' \in BlockTimes
    BY <1>1, <1>3 DEF EpochsInTime
  <2>3. QED
    BY <1>7, <2>1, <2>2 DEF EpochsInTime
<1>9. SumsOK'
  <2>1. emissionsBalance = SumFunction(emissionsFunds) /\ emission \in Int
    BY <1>1 DEF SumsOK
  <2>2. emissionsBalance' = SumFunction(emissionsFunds')
    BY <1>1, <1>2, <1>6, <2>1, EmissionsMove
  <2>3. QED
    BY <1>1, <1>3, <2>2
       DEF SumsOK, SupplyIsSumOfBalances, BalanceAccounted, DepositQueueTVL
<1>10. AllEpochsOK'
  <2>1. EpochOK(id)
    BY <1>1 DEF AllEpochsOK
  <2>2. EpochOK(id)'
    BY <1>3, <1>4, <1>5, <1>6, <2>1 DEF EpochOK, BeginsBetweenBlocks, EpochBegin
  <2>3. QED
    BY <1>1, <1>3, <1>6, <2>2, OtherEpochsKept
<1>11. TypeOK'
  <2>1. emissionsBalance' \in Nat
    BY <1>2, <1>4
  <2>2. QED
    BY <1>1, <1>3, <1>6, <1>7, <2>1 DEF TypeOK, IndexKept, QueueInv
<1>12. ItemsLocked'
  BY <1>1, <1>3 DEF ItemsLocked
<1>13. QED
  BY <1>8, <1>9, <1>10, <1>11, <1>12, QueueTyped DEF Inv, IndexKept

\* What resolveEpoch, setClaimTVL and the transfers of a settlement do to the
\* money: the epoch held one asset per share, all of it is in the vault, and
\* what the settlement leaves there is the claim.
LEMMA ResolveMoney ==
    ASSUME Inv, NEW id \in Epochs, NEW claim \in Nat,
           ResolveEpoch(id, claim), UNCHANGED depositQueue
    PROVE  /\ EpochOK(id) /\ ~epochResolved[id] /\ EpochExists(id)
           /\ now >= EpochBegin(id)
           /\ totalSupply[id] \in Nat
           /\ epochResolved' \in [Epochs -> BOOLEAN] /\ epochResolved'[id] = TRUE
           /\ finalTVL' \in [Epochs -> Nat] /\ finalTVL'[id] = totalSupply[id]
           /\ claimTVL' \in [Epochs -> Nat] /\ claimTVL'[id] = claim
           /\ funds' \in [Epochs -> Int] /\ funds'[id] = claim
           /\ asset' \in Nat /\ BalanceAccounted'
           /\ \A e \in Epochs \ {id} :
                 /\ funds'[e] = funds[e] /\ epochResolved'[e] = epochResolved[e]
                 /\ finalTVL'[e] = finalTVL[e] /\ claimTVL'[e] = claimTVL[e]
<1> DEFINE t == totalSupply[id]
           d == claim - t
<1>1. /\ TypeOK /\ EpochsInTime /\ AllEpochsOK /\ BalanceAccounted
      /\ EpochOK(id) /\ ~epochResolved[id] /\ EpochExists(id)
  BY DEF Inv, AllEpochsOK, SumsOK, ResolveEpoch
<1>2. t \in Nat /\ funds[id] = t /\ asset \in Nat /\ funds \in [Epochs -> Int]
  BY <1>1 DEF TypeOK, EpochOK
<1>3. now >= EpochBegin(id)
  BY DEF ResolveEpoch, EpochHasStarted
<1>4. /\ epochResolved' = [epochResolved EXCEPT ![id] = TRUE]
      /\ finalTVL' = [finalTVL EXCEPT ![id] = t]
      /\ claimTVL' = [claimTVL EXCEPT ![id] = claim]
      /\ funds' = [funds EXCEPT ![id] = @ - t + claim]
      /\ asset' = asset - t + claim
  BY DEF ResolveEpoch
<1>5. d \in Int /\ asset' = asset + d + 0 /\ 0 \in Int
  BY <1>2, <1>4
<1> HIDE DEF t
<1>6. /\ funds' \in [Epochs -> Int] /\ funds'[id] = funds[id] + d
      /\ funds'[id] = claim
      /\ \A e \in Epochs \ {id} : funds'[e] = funds[e]
  BY <1>2, <1>4
<1>7. BalanceAccounted'
  <2> HIDE DEF d
  <2>1. SumFunction(SharesIn(depositQueue')) = SumFunction(SharesIn(depositQueue)) + 0
    BY <1>1, QueueSame
  <2>2. QED
    BY <1>1, <1>5, <1>6, <2>1, MoneyMoves
<1>8. t <= asset + claim
  BY DEF ResolveEpoch, t
<1>9. asset' \in Nat
  BY <1>2, <1>4, <1>8
<1>10. /\ epochResolved' \in [Epochs -> BOOLEAN] /\ epochResolved'[id] = TRUE
       /\ finalTVL' \in [Epochs -> Nat] /\ finalTVL'[id] = t
       /\ claimTVL' \in [Epochs -> Nat] /\ claimTVL'[id] = claim
       /\ \A e \in Epochs \ {id} :
             /\ epochResolved'[e] = epochResolved[e]
             /\ finalTVL'[e] = finalTVL[e] /\ claimTVL'[e] = claimTVL[e]
  BY <1>1, <1>2, <1>4 DEF TypeOK
<1>11. QED
  BY <1>1, <1>2, <1>3, <1>6, <1>7, <1>9, <1>10 DEF t

\* Nothing is recorded for an epoch that does not exist when an existing one
\* is settled.
LEMMA ResolveTimes ==
    ASSUME EpochsInTime, NEW id \in Epochs, EpochExists(id), UNCHANGED timeVars,
           \A e \in Epochs \ {id} : /\ epochResolved'[e] = epochResolved[e]
                                    /\ emissions'[e] = emissions[e]
    PROVE  EpochsInTime'
<1>1. UNCHANGED <<now, epochs, epochCreation>>
  BY DEF timeVars
<1>2. \A e \in Epochs : EpochExists(e)' <=> EpochExists(e)
  BY <1>1 DEF EpochExists, Contains
<1>3. \A e \in Epochs :
         IF EpochExists(e)' THEN epochCreation'[e] <= now'
                            ELSE ~epochResolved'[e] /\ emissions'[e] = 0
  BY <1>1, <1>2 DEF EpochsInTime
<1>4. QED
  BY <1>1, <1>3 DEF EpochsInTime

\* A settlement, whatever it leaves in the vault, and the settlement of an
\* empty vault: the claims on the epoch are those of its shares.
LEMMA SettleKeeps ==
    ASSUME Inv, IndexKept, NEW id \in Epochs, NEW claim \in Nat,
           ResolveEpoch(id, claim),
           UNCHANGED <<timeVars, epochNull, shareVars, feeVars, depositQueue,
                       rolloverVars, emissionVars>>
    PROVE  Inv'
<1>1. TypeOK /\ EpochsInTime /\ AllEpochsOK /\ SumsOK /\ ItemsLocked
  BY DEF Inv
<1>2. UNCHANGED <<now, epochs, epochCreation, epochNull, totalSupply, balanceOf,
                  late, depositFee, depositQueue, rolloverQueue, emissions,
                  emissionsBalance, emissionsFunds>>
  BY DEF timeVars, shareVars, feeVars, rolloverVars, emissionVars
<1>3. /\ EpochOK(id) /\ ~epochResolved[id] /\ EpochExists(id)
      /\ now >= EpochBegin(id)
      /\ totalSupply[id] \in Nat
      /\ epochResolved' \in [Epochs -> BOOLEAN] /\ epochResolved'[id] = TRUE
      /\ finalTVL' \in [Epochs -> Nat] /\ finalTVL'[id] = totalSupply[id]
      /\ claimTVL' \in [Epochs -> Nat] /\ claimTVL'[id] = claim
      /\ funds' \in [Epochs -> Int] /\ funds'[id] = claim
      /\ asset' \in Nat /\ BalanceAccounted'
      /\ \A e \in Epochs \ {id} :
            /\ funds'[e] = funds[e] /\ epochResolved'[e] = epochResolved[e]
            /\ finalTVL'[e] = finalTVL[e] /\ claimTVL'[e] = claimTVL[e]
  BY <1>2, ResolveMoney
<1>4. SumsOK'
  BY <1>1, <1>2, <1>3 DEF SumsOK, SupplyIsSumOfBalances
<1>5. AllEpochsOK'
  <2>1. emissionsFunds[id] = emissions[id] /\ ~epochNull[id] /\ emissions[id] \in Nat
    BY <1>1, <1>3 DEF EpochOK, TypeOK
  <2>2. late[id] = 0
    BY <1>1, <1>3 DEF EpochOK, TypeOK
  <2>3. EpochOK(id)'
    <3>1. /\ claim * totalSupply[id] >= (totalSupply[id] - 0) * claim + 0 * totalSupply[id]
          /\ emissions[id] * totalSupply[id] >= (totalSupply[id] - 0) * emissions[id]
          /\ totalSupply[id] - 0 <= totalSupply[id]
      BY <1>3, <2>1
    <3>2. /\ funds'[id] >= 0 /\ emissionsFunds'[id] >= 0
          /\ now' >= EpochBegin(id)' /\ late'[id] = 0
      BY <1>2, <1>3, <2>1, <2>2 DEF EpochBegin
    <3>3. QED
      BY <1>2, <1>3, <2>1, <3>1, <3>2 DEF EpochOK
  <2>4. QED
    BY <1>1, <1>2, <1>3, <2>3, OtherEpochsKept
<1>6. EpochsInTime'
  BY <1>1, <1>2, <1>3, ResolveTimes
<1>7. TypeOK'
  BY <1>1, <1>2, <1>3 DEF TypeOK, IndexKept, QueueInv
<1>8. ItemsLocked'
  BY <1>1, <1>2 DEF ItemsLocked
<1>9. QED
  BY <1>4, <1>5, <1>6, <1>7, <1>8, QueueTyped DEF Inv, IndexKept

\* A null epoch: every share is worth one asset, and no emissions are left to
\* claim because the treasury has them.
LEMMA SettleNullKeeps ==
    ASSUME Inv, IndexKept, NEW id \in Epochs, SettleNull(id)
    PROVE  Inv'
<1> DEFINE t == totalSupply[id]
<1>1. TypeOK /\ EpochsInTime /\ AllEpochsOK /\ SumsOK /\ ItemsLocked
  BY DEF Inv
<1>2. /\ ResolveEpoch(id, t)
      /\ epochNull' = [epochNull EXCEPT ![id] = TRUE]
      /\ emissions[id] <= emissionsBalance
      /\ emissionsBalance' = emissionsBalance - emissions[id]
      /\ emissionsFunds' = [emissionsFunds EXCEPT ![id] = @ - emissions[id]]
      /\ emissions' = [emissions EXCEPT ![id] = 0]
      /\ UNCHANGED <<timeVars, shareVars, feeVars, depositQueue, rolloverVars>>
  BY DEF SettleNull, EmissionsLeft
<1>3. UNCHANGED <<now, epochs, epochCreation, totalSupply, balanceOf, late,
                  depositFee, depositQueue, rolloverQueue>>
  BY <1>2 DEF timeVars, shareVars, feeVars, rolloverVars
<1>4. t \in Nat
  BY <1>1 DEF TypeOK
<1> HIDE DEF t
<1>5. /\ EpochOK(id) /\ ~epochResolved[id] /\ EpochExists(id)
      /\ now >= EpochBegin(id)
      /\ totalSupply[id] \in Nat
      /\ epochResolved' \in [Epochs -> BOOLEAN] /\ epochResolved'[id] = TRUE
      /\ finalTVL' \in [Epochs -> Nat] /\ finalTVL'[id] = totalSupply[id]
      /\ claimTVL' \in [Epochs -> Nat] /\ claimTVL'[id] = t
      /\ funds' \in [Epochs -> Int] /\ funds'[id] = t
      /\ asset' \in Nat /\ BalanceAccounted'
      /\ \A e \in Epochs \ {id} :
            /\ funds'[e] = funds[e] /\ epochResolved'[e] = epochResolved[e]
            /\ finalTVL'[e] = finalTVL[e] /\ claimTVL'[e] = claimTVL[e]
  BY <1>2, <1>3, <1>4, ResolveMoney
<1>6. /\ emissions \in [Epochs -> Nat] /\ emissionsFunds \in [Epochs -> Int]
      /\ epochNull \in [Epochs -> BOOLEAN] /\ emissionsBalance \in Nat
      /\ emissions[id] \in Nat /\ emissionsFunds[id] = emissions[id]
  BY <1>1, <1>5 DEF TypeOK, EpochOK
<1>7. /\ emissions' \in [Epochs -> Nat] /\ emissions'[id] = 0
      /\ \A e \in Epochs \ {id} : emissions'[e] = emissions[e]
      /\ emissionsFunds' \in [Epochs -> Int] /\ emissionsFunds'[id] = 0
      /\ \A e \in Epochs \ {id} : emissionsFunds'[e] = emissionsFunds[e]
      /\ epochNull' \in [Epochs -> BOOLEAN] /\ epochNull'[id] = TRUE
      /\ \A e \in Epochs \ {id} : epochNull'[e] = epochNull[e]
  BY <1>2, <1>6
<1>8. SumsOK'
  <2> DEFINE d == -emissions[id]
  <2>1. /\ d \in Int /\ emissionsBalance' = emissionsBalance + d
        /\ emissionsBalance = SumFunction(emissionsFunds)
        /\ emissionsFunds'[id] = emissionsFunds[id] + d
    BY <1>1, <1>2, <1>6, <1>7 DEF SumsOK
  <2> HIDE DEF d
  <2>2. emissionsBalance' = SumFunction(emissionsFunds')
    BY <1>1, <1>7, <2>1, EmissionsMove
  <2>3. QED
    BY <1>1, <1>3, <1>5, <2>2 DEF SumsOK, SupplyIsSumOfBalances
<1>9. AllEpochsOK'
  <2>1. /\ finalTVL'[id] = t /\ totalSupply'[id] = t /\ late'[id] = 0
        /\ t * t >= (t - 0) * t + 0 * t /\ 0 * t >= (t - 0) * 0 /\ t - 0 <= t
    <3>1. late'[id] = 0
      BY <1>1, <1>3, <1>5 DEF EpochOK, TypeOK
    <3>2. QED
      BY <1>3, <1>4, <1>5, <3>1 DEF t
  <2>2. EpochOK(id)'
    <3>1. funds'[id] >= 0 /\ emissionsFunds'[id] >= 0 /\ now' >= EpochBegin(id)'
      BY <1>3, <1>4, <1>5, <1>7 DEF EpochBegin
    <3>2. QED
      BY <1>5, <1>7, <2>1, <3>1 DEF EpochOK
  <2>3. QED
    BY <1>1, <1>3, <1>5, <1>7, <2>2, OtherEpochsKept
<1>10. EpochsInTime'
  BY <1>1, <1>2, <1>5, <1>7, ResolveTimes
<1>11. TypeOK'
  <2>1. emissionsBalance' \in Nat
    BY <1>2, <1>6
  <2>2. QED
    BY <1>1, <1>3, <1>5, <1>7, <2>1 DEF TypeOK, IndexKept, QueueInv
<1>12. ItemsLocked'
  BY <1>1, <1>3 DEF ItemsLocked
<1>13. QED
  BY <1>8, <1>9, <1>10, <1>11, <1>12, QueueTyped DEF Inv, IndexKept

\* What a queue item is worth is split between the treasury, the relayer and
\* its owner, also when it cannot pay the whole relayer fee.
LEMMA ItemSplit ==
    ASSUME relayerFee \in Nat, NEW after \in Nat
    PROVE  /\ AssetsToMint(after) \in Nat /\ RelayerFeeOf(after) \in Nat
           /\ AssetsToMint(after) + RelayerFeeOf(after) = after
  BY DEF AssetsToMint, RelayerFeeOf

\* A sum over one part of a set, written with a function on that part.
LEMMA SumOfPart ==
    ASSUME NEW f, NEW H, IsFiniteSet(H), \A i \in H : f[i] \in Int,
           NEW S \in SUBSET H
    PROVE  SumFunction([i \in S |-> f[i]]) = SumFunctionOnSet(f, S)
<1>1. IsFiniteSet(S)
  BY FS_Subset
<1> DEFINE h == [i \in S |-> f[i]]
<1>2. DOMAIN h = S /\ \A i \in S : f[i] \in Int /\ h[i] = f[i]
  OBVIOUS
<1> HIDE DEF h
<1>3. SumFunction(h) = SumFunctionOnSet(f, S)
  BY <1>1, <1>2, SumOver
<1>4. QED
  BY <1>3 DEF h

\* What a call of mintDepositInQueue moves: minted shares to the owners of the
\* items, paid assets to the treasury and to the relayer.
LEMMA QueueMinted ==
    ASSUME Inv, NEW id \in Epochs, NEW operations \in Nat,
           MintDepositInQueue(id, operations)
    PROVE  \E minted, paid \in Nat : \E g \in [Users -> Nat] :
              /\ paid <= asset /\ asset' = asset - paid
              /\ totalSupply' = [totalSupply EXCEPT ![id] = @ + minted]
              /\ funds' = [funds EXCEPT ![id] = @ + minted]
              /\ balanceOf' = [balanceOf EXCEPT ![id] =
                                  [u \in Users |-> @[u] + g[u]]]
              /\ CountLate(id, minted)
              /\ SumFunctionOnSet(g, Users) = minted
              /\ depositQueue' \in Seq(Deposits)
              /\ SumFunction(SharesIn(depositQueue')) =
                    SumFunction(SharesIn(depositQueue)) - minted - paid
<1> DEFINE n == Len(depositQueue)
           ops == IF operations > n THEN n ELSE operations
           H == n - ops + 1 .. n
           Fee(i) == GetEpochDepositFee(id, depositQueue[i].shares)
           AfterFee(i) == depositQueue[i].shares - Fee(i)
           fee == [i \in H |-> Fee(i)]
           mint == [i \in H |-> AssetsToMint(AfterFee(i))]
           relay == [i \in H |-> RelayerFeeOf(AfterFee(i))]
           Of(u) == {i \in H : depositQueue[i].receiver = u}
           MintedFor(S) == SumFunction([i \in S |-> AssetsToMint(AfterFee(i))])
           minted == SumFunctionOnSet(mint, H)
           paid == SumFunctionOnSet(fee, H) + SumFunctionOnSet(relay, H)
           g == [u \in Users |-> SumFunctionOnSet(mint, Of(u))]
<1>1. /\ TypeOK /\ EpochsInTime /\ relayerFee \in Nat
      /\ depositQueue \in Seq(Deposits) /\ n \in Nat /\ asset \in Nat
  <2>1. /\ TypeOK /\ EpochsInTime /\ relayerFee \in RelayerFees
        /\ depositQueue \in Seq(Deposits) /\ asset \in Nat
    BY DEF Inv, TypeOK, Deposits
  <2>2. QED
    BY <2>1, CarouselAssumption
<1>2. ops \in Nat /\ ops <= n /\ n - ops \in 0..n
  BY <1>1
<1> HIDE DEF ops
<1>3. /\ IsFiniteSet(H) /\ H \subseteq 1..n
      /\ \A i \in H : /\ depositQueue[i] \in Deposits
                      /\ depositQueue[i].shares \in Nat
                      /\ depositQueue[i].receiver \in Users
                      /\ SharesIn(depositQueue)[i] = depositQueue[i].shares
  <2>1. IsFiniteSet(H)
    BY <1>1, <1>2, FS_Interval
  <2>2. H \subseteq 1..n
    BY <1>1, <1>2
  <2>3. \A i \in 1..n : depositQueue[i] \in Deposits
    BY <1>1
  <2>4. \A i \in 1..n : SharesIn(depositQueue)[i] = depositQueue[i].shares
    BY <1>1, SharesInType
  <2> HIDE DEF H, n
  <2>5. QED
    BY <2>1, <2>2, <2>3, <2>4 DEF Deposits
<1>4. /\ EpochExists(id) /\ EpochHasNotStarted(id)
      /\ ops > 0 => DepositFeeDefined(id)
      /\ totalSupply' = [totalSupply EXCEPT ![id] = @ + MintedFor(H)]
      /\ balanceOf' = [balanceOf EXCEPT ![id] =
            [u \in Users |-> @[u] + MintedFor(Of(u))]]
      /\ SumFunction(fee) + SumFunction(relay) <= asset
      /\ asset' = asset - SumFunction(fee) - SumFunction(relay)
      /\ funds' = [funds EXCEPT ![id] = @ + MintedFor(H)]
      /\ CountLate(id, MintedFor(H))
      /\ depositQueue' = SubSeq(depositQueue, 1, n - ops)
  BY DEF MintDepositInQueue, ops
<1>5. ASSUME NEW i \in H
      PROVE  /\ fee[i] \in Nat /\ mint[i] \in Nat /\ relay[i] \in Nat
             /\ SharesIn(depositQueue)[i] = fee[i] + (mint[i] + relay[i])
  <2>1. ops > 0
    BY <1>1, <1>2
  <2>2. epochCreation[id] <= now
    BY <1>1, <1>4 DEF EpochsInTime
  <2>3. depositQueue[i].shares \in Nat
    BY <1>3
  <2>4. Fee(i) \in 0..depositQueue[i].shares
    BY <1>1, <1>4, <2>1, <2>2, <2>3, FeeBounded
  <2> HIDE DEF Fee
  <2>5. Fee(i) \in Nat /\ AfterFee(i) \in Nat
        /\ depositQueue[i].shares = Fee(i) + AfterFee(i)
    BY <2>3, <2>4
  <2> HIDE DEF AfterFee
  <2>6. /\ AssetsToMint(AfterFee(i)) \in Nat /\ RelayerFeeOf(AfterFee(i)) \in Nat
        /\ AssetsToMint(AfterFee(i)) + RelayerFeeOf(AfterFee(i)) = AfterFee(i)
    BY <1>1, <2>5, ItemSplit
  <2>7. /\ fee[i] = Fee(i) /\ mint[i] = AssetsToMint(AfterFee(i))
        /\ relay[i] = RelayerFeeOf(AfterFee(i))
    OBVIOUS
  <2>8. SharesIn(depositQueue)[i] = depositQueue[i].shares
    BY <1>3
  <2> HIDE DEF fee, mint, relay
  <2>9. QED
    BY <2>5, <2>6, <2>7, <2>8
<1>6. ASSUME NEW S \in SUBSET H PROVE MintedFor(S) = SumFunctionOnSet(mint, S)
  <2>1. SumFunction([i \in S |-> mint[i]]) = SumFunctionOnSet(mint, S)
    <3>1. \A i \in H : mint[i] \in Int
      BY <1>5
    <3> HIDE DEF mint, H
    <3>2. QED
      BY <1>3, <3>1, SumOfPart
  <2>2. [i \in S |-> mint[i]] = [i \in S |-> AssetsToMint(AfterFee(i))]
    OBVIOUS
  <2>3. QED
    BY <2>1, <2>2
<1>7. SumFunction(fee) = SumFunctionOnSet(fee, H)
      /\ SumFunction(relay) = SumFunctionOnSet(relay, H)
  BY DEF SumFunction
<1>8. MintedFor(H) = minted /\ \A u \in Users : MintedFor(Of(u)) = g[u]
  BY <1>6
<1>9. /\ minted \in Nat
      /\ SumFunctionOnSet(fee, H) \in Nat /\ SumFunctionOnSet(relay, H) \in Nat
  BY <1>3, <1>5, SumNat
<1>10. g \in [Users -> Nat]
  <2>1. ASSUME NEW u \in Users PROVE SumFunctionOnSet(mint, Of(u)) \in Nat
    <3>1. IsFiniteSet(Of(u))
      BY <1>3, FS_Subset
    <3>2. \A i \in Of(u) : mint[i] \in Nat
      BY <1>5
    <3>3. QED
      BY <3>1, <3>2, SumNat
  <2>2. QED
    BY <2>1
<1>11. SumFunctionOnSet(g, Users) = minted
  <2> DEFINE key == [i \in H |-> depositQueue[i].receiver]
             group == [u \in Users |-> Of(u)]
  <2>1. \A u \in Users : /\ group[u] \subseteq H
                         /\ \A i \in H : i \in group[u] <=> key[i] = u
                         /\ g[u] = SumFunctionOnSet(mint, group[u])
    OBVIOUS
  <2>2. \A i \in H : key[i] \in Users
    BY <1>3
  <2>3. \A i \in H : mint[i] \in Int
    BY <1>5
  <2>4. IsFiniteSet(H) /\ IsFiniteSet(Users)
    BY <1>3, FiniteAssumption
  <2> HIDE DEF key, group, g, mint, H
  <2>5. SumFunctionOnSet(g, Users) = SumFunctionOnSet(mint, H)
    BY <2>1, <2>2, <2>3, <2>4, SumGrouped
  <2>6. QED
    BY <2>5
<1>12. /\ depositQueue' \in Seq(Deposits)
       /\ SumFunction(SharesIn(depositQueue)) =
             SumFunction(SharesIn(depositQueue'))
                + SumFunctionOnSet(SharesIn(depositQueue), H)
       /\ SumFunction(SharesIn(depositQueue')) \in Nat
  BY <1>1, <1>2, <1>4, QueueShrinks, SharesInType
<1>13. SumFunctionOnSet(SharesIn(depositQueue), H)
          = SumFunctionOnSet(fee, H) + (minted + SumFunctionOnSet(relay, H))
  <2> DEFINE rest == [i \in H |-> mint[i] + relay[i]]
  <2>1. \A i \in H : /\ fee[i] \in Int /\ mint[i] \in Int /\ relay[i] \in Int
                     /\ rest[i] = mint[i] + relay[i] /\ rest[i] \in Int
                     /\ SharesIn(depositQueue)[i] = fee[i] + rest[i]
    <3>1. \A i \in H : rest[i] = mint[i] + relay[i]
      OBVIOUS
    <3> HIDE DEF rest
    <3>2. QED
      BY <1>5, <3>1
  <2> DEFINE whole == SharesIn(depositQueue)
  <2>2. /\ IsFiniteSet(H)
        /\ \A i \in H : mint[i] \in Int /\ relay[i] \in Int /\ rest[i] = mint[i] + relay[i]
        /\ \A i \in H : fee[i] \in Int /\ rest[i] \in Int /\ whole[i] = fee[i] + rest[i]
    BY <1>3, <2>1
  <2> HIDE DEF rest, fee, mint, relay, H, whole
  <2>3. SumFunctionOnSet(rest, H)
           = SumFunctionOnSet(mint, H) + SumFunctionOnSet(relay, H)
    BY <2>2, SumPlus
  <2>4. SumFunctionOnSet(whole, H) = SumFunctionOnSet(fee, H) + SumFunctionOnSet(rest, H)
    BY <2>2, SumPlus
  <2>5. QED
    BY <2>3, <2>4 DEF whole
<1>14. /\ paid \in Nat /\ paid <= asset /\ asset' = asset - paid
       /\ SumFunction(SharesIn(depositQueue')) =
             SumFunction(SharesIn(depositQueue)) - minted - paid
  <2> DEFINE a == SumFunctionOnSet(fee, H)
             b == SumFunctionOnSet(relay, H)
  <2>1. a \in Nat /\ b \in Nat /\ paid = a + b /\ asset \in Nat
        /\ a + b <= asset /\ asset' = asset - a - b
    BY <1>1, <1>4, <1>7, <1>9
  <2>2. SumFunction(SharesIn(depositQueue)) =
           SumFunction(SharesIn(depositQueue')) + (a + (minted + b))
    BY <1>12, <1>13
  <2> HIDE DEF a, b, minted, paid
  <2>3. QED
    BY <1>9, <1>12, <2>1, <2>2
<1>15. /\ totalSupply' = [totalSupply EXCEPT ![id] = @ + minted]
       /\ funds' = [funds EXCEPT ![id] = @ + minted]
       /\ balanceOf' = [balanceOf EXCEPT ![id] = [u \in Users |-> @[u] + g[u]]]
       /\ CountLate(id, minted)
  BY <1>4, <1>8
<1> HIDE DEF minted, paid, g
<1>16. QED
  BY <1>9, <1>10, <1>11, <1>12, <1>14, <1>15

\* Balances that all change by some amount.
LEMMA BalancesAdded ==
    ASSUME NEW b \in [Users -> Int], NEW g \in [Users -> Int],
           NEW new \in [Users -> Int], \A u \in Users : new[u] = b[u] + g[u]
    PROVE  SumFunction(new) = SumFunction(b) + SumFunctionOnSet(g, Users)
<1>1. IsFiniteSet(Users)
  BY FiniteAssumption
<1>2. \A u \in Users : b[u] \in Int /\ g[u] \in Int /\ new[u] = b[u] + g[u]
  OBVIOUS
<1>3. SumFunctionOnSet(new, Users)
         = SumFunctionOnSet(b, Users) + SumFunctionOnSet(g, Users)
  BY <1>1, <1>2, SumPlus
<1>4. QED
  BY <1>3 DEF SumFunction

\* Minting queued deposits: what leaves the queue is minted or paid.
LEMMA MintDepositInQueueKeeps ==
    ASSUME Inv, IndexKept, NEW id \in Epochs, NEW operations \in Nat,
           MintDepositInQueue(id, operations)
    PROVE  Inv'
<1>1. TypeOK /\ EpochsInTime /\ AllEpochsOK /\ SumsOK /\ ItemsLocked
  BY DEF Inv
<1>2. PICK minted, paid \in Nat : \E g \in [Users -> Nat] :
         /\ paid <= asset /\ asset' = asset - paid
         /\ totalSupply' = [totalSupply EXCEPT ![id] = @ + minted]
         /\ funds' = [funds EXCEPT ![id] = @ + minted]
         /\ balanceOf' = [balanceOf EXCEPT ![id] = [u \in Users |-> @[u] + g[u]]]
         /\ CountLate(id, minted)
         /\ SumFunctionOnSet(g, Users) = minted
         /\ depositQueue' \in Seq(Deposits)
         /\ SumFunction(SharesIn(depositQueue')) =
               SumFunction(SharesIn(depositQueue)) - minted - paid
  BY QueueMinted
<1>3. PICK g \in [Users -> Nat] :
         /\ paid <= asset /\ asset' = asset - paid
         /\ totalSupply' = [totalSupply EXCEPT ![id] = @ + minted]
         /\ funds' = [funds EXCEPT ![id] = @ + minted]
         /\ balanceOf' = [balanceOf EXCEPT ![id] = [u \in Users |-> @[u] + g[u]]]
         /\ CountLate(id, minted)
         /\ SumFunctionOnSet(g, Users) = minted
         /\ depositQueue' \in Seq(Deposits)
         /\ SumFunction(SharesIn(depositQueue')) =
               SumFunction(SharesIn(depositQueue)) - minted - paid
  BY <1>2
<1>4. /\ EpochHasNotStarted(id)
      /\ UNCHANGED <<timeVars, settleVars, feeVars, rolloverVars, emissionVars>>
  BY DEF MintDepositInQueue
<1>5. UNCHANGED <<now, epochs, epochCreation, epochResolved, epochNull, finalTVL,
                  claimTVL, relayerFee, depositFee, rolloverQueue, emissions,
                  emissionsBalance, emissionsFunds>>
  BY <1>4 DEF timeVars, settleVars, feeVars, rolloverVars, emissionVars
<1>6. late' \in [Epochs -> Nat] /\ \A e \in Epochs \ {id} : late'[e] = late[e]
  BY <1>1, <1>3, LateCounted
<1>7. /\ funds \in [Epochs -> Int] /\ totalSupply \in [Epochs -> Nat]
      /\ balanceOf \in [Epochs -> [Users -> Nat]] /\ asset \in Nat
      /\ totalSupply[id] \in Nat /\ funds[id] \in Int
      /\ depositQueue \in Seq(Deposits)
  BY <1>1 DEF TypeOK, Deposits
<1>8. /\ balanceOf' \in [Epochs -> [Users -> Nat]]
      /\ \A u \in Users : balanceOf'[id][u] = balanceOf[id][u] + g[u]
      /\ \A e \in Epochs \ {id} : balanceOf'[e] = balanceOf[e]
  <2> DEFINE b == balanceOf[id]
             new == [u \in Users |-> b[u] + g[u]]
  <2>1. b \in [Users -> Nat]
    BY <1>7
  <2>2. balanceOf' = [balanceOf EXCEPT ![id] = new]
    BY <1>3
  <2> HIDE DEF b
  <2>3. new \in [Users -> Nat] /\ \A u \in Users : new[u] = b[u] + g[u]
    BY <2>1
  <2> HIDE DEF new
  <2>4. /\ balanceOf' \in [Epochs -> [Users -> Nat]] /\ balanceOf'[id] = new
        /\ \A e \in Epochs \ {id} : balanceOf'[e] = balanceOf[e]
    BY <1>7, <2>2, <2>3
  <2>5. QED
    BY <2>3, <2>4 DEF b
<1>9. SumFunction(balanceOf'[id]) = SumFunction(balanceOf[id]) + minted
  <2> DEFINE b == balanceOf[id]
             new == balanceOf'[id]
  <2>1. /\ b \in [Users -> Int] /\ new \in [Users -> Int] /\ g \in [Users -> Int]
        /\ \A u \in Users : new[u] = b[u] + g[u]
    BY <1>7, <1>8
  <2> HIDE DEF b, new
  <2>2. SumFunction(new) = SumFunction(b) + SumFunctionOnSet(g, Users)
    BY <2>1, BalancesAdded
  <2>3. QED
    BY <1>3, <2>2 DEF b, new
<1>10. SupplyIsSumOfBalances' /\ totalSupply' \in [Epochs -> Nat]
  <2>1. minted \in Int /\ SupplyIsSumOfBalances
    BY <1>1 DEF SumsOK
  <2>2. totalSupply' = [totalSupply EXCEPT ![id] = @ + minted]
    BY <1>3
  <2>3. QED
    BY <1>1, <1>8, <1>9, <2>1, <2>2, SharesMove
<1>11. /\ funds' \in [Epochs -> Int] /\ funds'[id] = funds[id] + minted
       /\ \A e \in Epochs \ {id} : funds'[e] = funds[e]
       /\ totalSupply'[id] = totalSupply[id] + minted
       /\ \A e \in Epochs \ {id} : totalSupply'[e] = totalSupply[e]
  BY <1>3, <1>7
<1>12. BalanceAccounted'
  <2> DEFINE t == -(minted + paid)
  <2>1. SumFunction(SharesIn(depositQueue)) \in Nat
    BY <1>7, SharesInType
  <2>2. /\ t \in Int /\ minted \in Int /\ asset' = asset + minted + t
        /\ SumFunction(SharesIn(depositQueue'))
              = SumFunction(SharesIn(depositQueue)) + t
    BY <1>3, <1>7, <2>1
  <2>3. BalanceAccounted
    BY <1>1 DEF SumsOK
  <2> HIDE DEF t
  <2>4. QED
    BY <1>1, <1>11, <2>2, <2>3, MoneyMoves
<1>13. SumsOK'
  BY <1>1, <1>5, <1>10, <1>12 DEF SumsOK
<1>14. AllEpochsOK'
  <2>1. EpochOK(id)
    BY <1>1 DEF AllEpochsOK
  <2>2. EpochOK(id)'
    BY <1>1, <1>3, <1>4, <1>5, <1>11, <2>1, MintKeepsEpoch
  <2>3. QED
    BY <1>1, <1>5, <1>6, <1>11, <2>2, OtherEpochsKept
<1>15. ItemsLocked'
  <2>1. ASSUME NEW e \in Epochs, NEW w \in Users
        PROVE  balanceOf'[e][w] >= balanceOf[e][w]
    <3>1. balanceOf[e][w] \in Nat /\ g[w] \in Nat
      BY <1>7
    <3>2. CASE e = id
      BY <1>8, <3>1, <3>2
    <3>3. CASE e # id
      BY <1>8, <3>1, <3>3
    <3>4. QED
      BY <3>2, <3>3
  <2>2. \A i \in DOMAIN rolloverQueue : rolloverQueue[i].receiver \in Users
    <3>1. \A i \in DOMAIN rolloverQueue : rolloverQueue[i] \in QueueItem
      BY <1>1 DEF TypeOK
    <3>2. QED
      BY <3>1 DEF QueueItem
  <2>3. UNCHANGED rolloverQueue
    BY <1>5
  <2>4. QED
    BY <1>1, <1>8, <2>1, <2>2, <2>3, LocksKept
<1>16. TypeOK'
  <2>1. asset' \in Nat
    BY <1>3, <1>7
  <2>2. depositQueue' \in Seq([shares : Nat, receiver : Users])
    BY <1>3 DEF Deposits
  <2>3. QED
    BY <1>1, <1>5, <1>6, <1>8, <1>10, <1>11, <2>1, <2>2
       DEF TypeOK, IndexKept, QueueInv
<1>17. EpochsInTime'
  BY <1>1, <1>5, TimesKept DEF timeVars
<1>18. QED
  BY <1>13, <1>14, <1>15, <1>16, <1>17, QueueTyped DEF Inv, IndexKept

-----------------------------------------------------------------------------
(* Rollovers.                                                              *)

\* What mintRollovers adds up over the items it handles, item by item.
BurntOf(H) == [i \in H |-> OriginalDepositValue(rolloverQueue[i])]
SharesOf(H) == [i \in H |-> rolloverQueue[i].shares]
MintedOf(H) == [i \in H |-> AmountToMint(i)]
PaidOf(H) == [i \in H |-> PreviewEmissionsWithdraw(
                              rolloverQueue[i].epochId,
                              OriginalDepositValue(rolloverQueue[i]))]

\* The items a call of mintRollovers handles.
Handles(H) ==
    /\ H \in SUBSET (1..Len(rolloverQueue))
    /\ \A i \in H : /\ IsRolledOver(rolloverQueue[i])
                    /\ finalTVL[rolloverQueue[i].epochId] # 0
                    /\ AmountToMint(i) >= 0

\* Every item handled is a position of a settled epoch; what it burns is worth
\* what it takes along, and its emissions are rounded down.
LEMMA HandledItem ==
    ASSUME Inv, NEW H, Handles(H), NEW i \in H
    PROVE  LET item == rolloverQueue[i]
               F == finalTVL[item.epochId]
           IN  /\ item \in QueueItem /\ item.epochId \in Epochs
               /\ item.receiver \in Users /\ item.shares \in Nat
               /\ epochResolved[item.epochId]
               /\ F \in Nat \ {0}
               /\ BurntOf(H)[i] \in Nat /\ MintedOf(H)[i] \in Nat
               /\ PaidOf(H)[i] \in Nat
               /\ SharesOf(H)[i] = item.shares
               /\ SharesOf(H)[i] = MintedOf(H)[i] + relayerFee
               /\ BurntOf(H)[i] * claimTVL[item.epochId] >= SharesOf(H)[i] * F
               /\ PaidOf(H)[i] * F <= BurntOf(H)[i] * emissions[item.epochId]
<1> DEFINE item == rolloverQueue[i]
           e == item.epochId
           F == finalTVL[e]
           burnt == OriginalDepositValue(item)
<1>1. TypeOK /\ ItemsLocked /\ rolloverQueue \in Seq(QueueItem)
  BY DEF Inv, TypeOK
<1>2. /\ i \in 1..Len(rolloverQueue) /\ IsRolledOver(item) /\ F # 0
      /\ AmountToMint(i) >= 0
  BY DEF Handles
<1>3. item \in QueueItem
  BY <1>1, <1>2
<1>4. item.receiver \in Users /\ item.shares \in Nat
  BY <1>3 DEF QueueItem
<1>5. item.shares > 0 /\ epochResolved[e]
  BY <1>2 DEF IsRolledOver
<1>6. e \in Epochs
  BY <1>1, <1>2, <1>5 DEF ItemsLocked
<1>7. /\ finalTVL \in [Epochs -> Nat] /\ claimTVL \in [Epochs -> Nat]
      /\ F \in Nat \ {0} /\ emissions[e] \in Nat
  BY <1>1, <1>2, <1>6 DEF TypeOK
<1>8. /\ burnt \in 0..item.shares
      /\ burnt * claimTVL[e] >= item.shares * F
  <2> HIDE DEF item
  <2>1. /\ item \in QueueItem /\ item.epochId \in Epochs
        /\ finalTVL[item.epochId] # 0 /\ IsRolledOver(item)
    BY <1>2, <1>3, <1>6
  <2>2. QED
    BY <1>7, <2>1, RolloverCovered
<1>9. BurntOf(H)[i] = burnt /\ SharesOf(H)[i] = item.shares
      /\ MintedOf(H)[i] = AmountToMint(i)
      /\ PaidOf(H)[i] = PreviewEmissionsWithdraw(e, burnt)
  BY DEF BurntOf, SharesOf, MintedOf, PaidOf
<1>10. relayerFee \in Nat
  <2>1. relayerFee \in RelayerFees
    BY <1>1 DEF TypeOK
  <2>2. QED
    BY <2>1, CarouselAssumption
<1>11. AmountToMint(i) \in Nat /\ item.shares = AmountToMint(i) + relayerFee
  BY <1>2, <1>4, <1>10 DEF AmountToMint
<1>12. burnt \in Nat
  BY <1>4, <1>8
<1> HIDE DEF burnt, F, e
<1>13. /\ PreviewEmissionsWithdraw(e, burnt) \in Nat
       /\ PreviewEmissionsWithdraw(e, burnt) * F <= burnt * emissions[e]
  <2> DEFINE p == burnt * emissions[e]
  <2>1. PreviewEmissionsWithdraw(e, burnt) = p \div F
    BY DEF PreviewEmissionsWithdraw, MulDivDown, F
  <2>2. p \in Nat
    BY <1>7, <1>12
  <2> HIDE DEF p
  <2>3. p \div F \in Nat /\ F * (p \div F) <= p
    BY <1>7, <2>2, QuotientBounds
  <2>4. (p \div F) * F = F * (p \div F)
    BY <1>7, <2>3
  <2>5. QED
    BY <2>1, <2>3, <2>4 DEF p
<1>14. QED
  BY <1>3, <1>4, <1>5, <1>6, <1>7, <1>8, <1>9, <1>11, <1>12, <1>13 DEF e, F

\* The sums of the model are the sums of those functions.
LEMMA HandledSums ==
    ASSUME Inv, NEW H, Handles(H), NEW S \in SUBSET H
    PROVE  /\ IsFiniteSet(H) /\ IsFiniteSet(S)
           /\ Burnt(S) = SumFunctionOnSet(BurntOf(H), S) /\ Burnt(S) \in Nat
           /\ Minted(S) = SumFunctionOnSet(MintedOf(H), S) /\ Minted(S) \in Nat
           /\ SumFunction([i \in S |-> rolloverQueue[i].shares])
                 = SumFunctionOnSet(SharesOf(H), S)
           /\ SumFunctionOnSet(SharesOf(H), S) \in Nat
           /\ SumFunctionOnSet(PaidOf(H), S) \in Nat
<1>1. IsFiniteSet(H)
  <2>1. rolloverQueue \in Seq(QueueItem) /\ H \subseteq 1..Len(rolloverQueue)
    BY DEF Inv, TypeOK, Handles
  <2>2. IsFiniteSet(1..Len(rolloverQueue))
    BY <2>1, FS_Interval
  <2>3. QED
    BY <2>1, <2>2, FS_Subset
<1>2. IsFiniteSet(S)
  BY <1>1, FS_Subset
<1>3. \A i \in H : /\ BurntOf(H)[i] \in Nat /\ MintedOf(H)[i] \in Nat
                   /\ SharesOf(H)[i] \in Nat /\ PaidOf(H)[i] \in Nat
  <2> SUFFICES ASSUME NEW i \in H
               PROVE  /\ BurntOf(H)[i] \in Nat /\ MintedOf(H)[i] \in Nat
                      /\ SharesOf(H)[i] \in Nat /\ PaidOf(H)[i] \in Nat
    OBVIOUS
  <2> QED BY HandledItem
<1>4. /\ SumFunctionOnSet(BurntOf(H), S) \in Nat
      /\ SumFunctionOnSet(MintedOf(H), S) \in Nat
      /\ SumFunctionOnSet(SharesOf(H), S) \in Nat
      /\ SumFunctionOnSet(PaidOf(H), S) \in Nat
  <2>1. \A i \in S : /\ BurntOf(H)[i] \in Nat /\ MintedOf(H)[i] \in Nat
                     /\ SharesOf(H)[i] \in Nat /\ PaidOf(H)[i] \in Nat
    BY <1>3
  <2>2. QED
    BY <1>2, <2>1, SumNat
<1>5. /\ SumFunction([i \in S |-> BurntOf(H)[i]]) = SumFunctionOnSet(BurntOf(H), S)
      /\ SumFunction([i \in S |-> MintedOf(H)[i]]) = SumFunctionOnSet(MintedOf(H), S)
      /\ SumFunction([i \in S |-> SharesOf(H)[i]]) = SumFunctionOnSet(SharesOf(H), S)
  <2>1. \A i \in H : /\ BurntOf(H)[i] \in Int /\ MintedOf(H)[i] \in Int
                     /\ SharesOf(H)[i] \in Int
    BY <1>3
  <2>2. QED
    BY <1>1, <2>1, SumOfPart
<1>6. /\ [i \in S |-> BurntOf(H)[i]]
            = [i \in S |-> OriginalDepositValue(rolloverQueue[i])]
      /\ [i \in S |-> MintedOf(H)[i]] = [i \in S |-> AmountToMint(i)]
      /\ [i \in S |-> SharesOf(H)[i]] = [i \in S |-> rolloverQueue[i].shares]
  BY DEF BurntOf, MintedOf, SharesOf
<1>7. /\ Burnt(S) = SumFunctionOnSet(BurntOf(H), S)
      /\ Minted(S) = SumFunctionOnSet(MintedOf(H), S)
      /\ SumFunction([i \in S |-> rolloverQueue[i].shares])
            = SumFunctionOnSet(SharesOf(H), S)
  BY <1>5, <1>6 DEF Burnt, Minted
<1>8. QED
  BY <1>1, <1>2, <1>4, <1>7

\* The emissions paid for the items of one epoch.
LEMMA EmissionsPaidSum ==
    ASSUME Inv, NEW H, Handles(H), NEW e
    PROVE  EmissionsPaid(e, ItemsFrom(H, e))
              = SumFunctionOnSet(PaidOf(H), ItemsFrom(H, e))
<1> DEFINE S == ItemsFrom(H, e)
<1>1. S \in SUBSET H /\ \A i \in S : rolloverQueue[i].epochId = e
  BY DEF ItemsFrom
<1>2. IsFiniteSet(H)
  BY <1>1, HandledSums
<1>3. \A i \in H : PaidOf(H)[i] \in Int
  BY HandledItem
<1>4. [i \in S |-> PaidOf(H)[i]]
         = [i \in S |-> PreviewEmissionsWithdraw(
                            e, OriginalDepositValue(rolloverQueue[i]))]
  BY <1>1 DEF PaidOf
<1> HIDE DEF S
<1>5. SumFunction([i \in S |-> PaidOf(H)[i]]) = SumFunctionOnSet(PaidOf(H), S)
  BY <1>1, <1>2, <1>3, SumOfPart
<1>6. QED
  BY <1>4, <1>5 DEF EmissionsPaid, S

\* Items that are each covered are covered together: what is burnt for the
\* items of a set is worth what they take along, and the emissions paid for
\* them are no more than what is burnt is entitled to.
LEMMA ItemsCovered ==
    ASSUME NEW S, IsFiniteSet(S), NEW burnt, NEW taken, NEW paid,
           NEW C \in Nat, NEW F \in Nat, NEW E \in Nat,
           \A i \in S : /\ burnt[i] \in Nat /\ taken[i] \in Nat /\ paid[i] \in Nat
                        /\ burnt[i] * C >= taken[i] * F
                        /\ paid[i] * F <= burnt[i] * E
    PROVE  /\ SumFunctionOnSet(burnt, S) * C >= SumFunctionOnSet(taken, S) * F
           /\ SumFunctionOnSet(paid, S) * F <= SumFunctionOnSet(burnt, S) * E
<1> DEFINE bC == [i \in S |-> C * burnt[i]]
           bE == [i \in S |-> E * burnt[i]]
           tF == [i \in S |-> F * taken[i]]
           pF == [i \in S |-> F * paid[i]]
<1>1. \A i \in S : /\ burnt[i] \in Int /\ taken[i] \in Int /\ paid[i] \in Int
                   /\ bC[i] = C * burnt[i] /\ bE[i] = E * burnt[i]
                   /\ tF[i] = F * taken[i] /\ pF[i] = F * paid[i]
  OBVIOUS
<1>2. ASSUME NEW i \in S
      PROVE  /\ bC[i] \in Int /\ bE[i] \in Int /\ tF[i] \in Int /\ pF[i] \in Int
             /\ tF[i] <= bC[i] /\ pF[i] <= bE[i]
  <2> DEFINE b == burnt[i]
             t == taken[i]
             p == paid[i]
  <2>1. /\ b \in Nat /\ t \in Nat /\ p \in Nat
        /\ b * C >= t * F /\ p * F <= b * E
        /\ bC[i] = C * b /\ bE[i] = E * b /\ tF[i] = F * t /\ pF[i] = F * p
    BY <1>1
  <2> HIDE DEF b, t, p, bC, bE, tF, pF
  <2>2. /\ C * b = b * C /\ E * b = b * E /\ F * t = t * F /\ F * p = p * F
        /\ C * b \in Nat /\ E * b \in Nat /\ F * t \in Nat /\ F * p \in Nat
    BY <2>1
  <2>3. QED
    BY <2>1, <2>2
<1> HIDE DEF bC, bE, tF, pF
<1>3. /\ SumFunctionOnSet(bC, S) = C * SumFunctionOnSet(burnt, S)
      /\ SumFunctionOnSet(bE, S) = E * SumFunctionOnSet(burnt, S)
      /\ SumFunctionOnSet(tF, S) = F * SumFunctionOnSet(taken, S)
      /\ SumFunctionOnSet(pF, S) = F * SumFunctionOnSet(paid, S)
  <2>1. C \in Int /\ F \in Int /\ E \in Int
    OBVIOUS
  <2>2. SumFunctionOnSet(bC, S) = C * SumFunctionOnSet(burnt, S)
    BY <1>1, <2>1, SumScale
  <2>3. SumFunctionOnSet(bE, S) = E * SumFunctionOnSet(burnt, S)
    BY <1>1, <2>1, SumScale
  <2>4. SumFunctionOnSet(tF, S) = F * SumFunctionOnSet(taken, S)
    BY <1>1, <2>1, SumScale
  <2>5. SumFunctionOnSet(pF, S) = F * SumFunctionOnSet(paid, S)
    BY <1>1, <2>1, SumScale
  <2>6. QED
    BY <2>2, <2>3, <2>4, <2>5
<1>4. SumFunctionOnSet(tF, S) <= SumFunctionOnSet(bC, S)
  BY <1>2, SumMono
<1>5. SumFunctionOnSet(pF, S) <= SumFunctionOnSet(bE, S)
  BY <1>2, SumMono
<1>6. /\ SumFunctionOnSet(burnt, S) \in Int /\ SumFunctionOnSet(taken, S) \in Int
      /\ SumFunctionOnSet(paid, S) \in Int
  BY <1>1, SumInt
<1> DEFINE sb == SumFunctionOnSet(burnt, S)
           st == SumFunctionOnSet(taken, S)
           sp == SumFunctionOnSet(paid, S)
<1>7. F * st <= C * sb /\ F * sp <= E * sb
  BY <1>3, <1>4, <1>5
<1>8. sb \in Int /\ st \in Int /\ sp \in Int
  BY <1>6
<1> HIDE DEF sb, st, sp
<1>9. sb * C >= st * F /\ sp * F <= sb * E
  BY <1>7, <1>8
<1>10. QED
  BY <1>9 DEF sb, st, sp

\* The accounts of one epoch after a call of mintRollovers for epoch id.
LEMMA RollOverEpoch ==
    ASSUME Inv, NEW id \in Epochs, EpochHasNotStarted(id),
           NEW H, Handles(H),
           RollOver(id, H), totalSupply' \in [Epochs -> Nat],
           UNCHANGED <<now, settleVars, emissions>>, NEW e \in Epochs
    PROVE  EpochOK(e)' /\ funds'[e] \in Int /\ emissionsFunds'[e] \in Int
<1> DEFINE S == ItemsFrom(H, e)
           B == Burnt(S)
           T == SumFunctionOnSet(SharesOf(H), S)
           P == SumFunctionOnSet(PaidOf(H), S)
           M == IF e = id THEN Minted(H) ELSE 0
           F == finalTVL[e]
           C == claimTVL[e]
           t == totalSupply[e]
<1>1. TypeOK /\ EpochsInTime /\ EpochOK(e)
  BY DEF Inv, AllEpochsOK
<1>2. /\ S \in SUBSET H /\ \A i \in S : rolloverQueue[i].epochId = e
      /\ H \in SUBSET H
  BY DEF ItemsFrom
<1>3. /\ B \in Nat /\ T \in Nat /\ P \in Nat /\ Minted(H) \in Nat
      /\ SumFunction([i \in S |-> rolloverQueue[i].shares]) = T
      /\ EmissionsPaid(e, S) = P
      /\ B = SumFunctionOnSet(BurntOf(H), S) /\ IsFiniteSet(S)
  BY <1>2, HandledSums, EmissionsPaidSum
<1>4. /\ totalSupply'[e] = t - B + M
      /\ funds'[e] = funds[e] - T + M
      /\ emissionsFunds'[e] = emissionsFunds[e] - P
  <2>1. /\ totalSupply'[e] = totalSupply[e] - Burnt(S) + M
        /\ funds'[e] = funds[e]
              - SumFunction([i \in S |-> rolloverQueue[i].shares]) + M
        /\ emissionsFunds'[e] = emissionsFunds[e] - EmissionsPaid(e, S)
    BY DEF RollOver
  <2>2. QED
    BY <1>3, <2>1
<1>5. /\ t \in Nat /\ F \in Nat /\ C \in Nat /\ funds[e] \in Int
      /\ emissionsFunds[e] \in Int /\ emissions[e] \in Nat /\ late[e] \in Nat
  BY <1>1 DEF TypeOK
<1>6. /\ epochResolved' = epochResolved /\ epochNull' = epochNull /\ now' = now
      /\ finalTVL' = finalTVL /\ claimTVL' = claimTVL /\ emissions' = emissions
  BY DEF settleVars
<1>7. /\ CountLate(id, Minted(H))
      /\ late'[id] = IF epochResolved[id] THEN late[id] + Minted(H) ELSE late[id]
      /\ e # id => late'[e] = late[e]
  <2>1. CountLate(id, Minted(H))
    BY DEF RollOver
  <2>2. QED
    BY <1>1, <1>3, <2>1, LateCounted
<1>8. M \in Nat /\ (e # id => M = 0) /\ (e = id => M = Minted(H))
  BY <1>3
<1>9. funds'[e] \in Int /\ emissionsFunds'[e] \in Int
  <2> HIDE DEF S, B, T, P, M
  <2>1. QED
    BY <1>3, <1>4, <1>5, <1>8
<1>10. CASE S = {}
  <2>1. B = 0 /\ T = 0 /\ P = 0
    <3>1. \A f : SumFunctionOnSet(f, S) = 0
      BY <1>10, SumEmpty
    <3> HIDE DEF S
    <3>2. QED
      BY <1>3, <3>1
  <2> HIDE DEF S, B, T, P, M
  <2>2. /\ totalSupply'[e] = t + M /\ funds'[e] = funds[e] + M
        /\ emissionsFunds'[e] = emissionsFunds[e]
    BY <1>4, <1>5, <1>8, <2>1
  <2> HIDE DEF F, C
  <2>3. CASE e = id
    <3>1. /\ totalSupply'[id] = totalSupply[id] + Minted(H)
          /\ funds'[id] = funds[id] + Minted(H)
          /\ emissionsFunds'[id] = emissionsFunds[id] /\ EpochOK(id)
      BY <1>1, <1>8, <2>2, <2>3
    <3>2. EpochOK(id)'
      BY <1>1, <1>3, <1>6, <1>7, <3>1, MintKeepsEpoch
    <3>3. QED
      BY <1>9, <2>3, <3>2
  <2>4. CASE e # id
    <3>1. /\ totalSupply'[e] = totalSupply[e] /\ funds'[e] = funds[e]
          /\ emissionsFunds'[e] = emissionsFunds[e] /\ late'[e] = late[e]
      BY <1>5, <1>7, <1>8, <2>2, <2>4
    <3>2. QED
      BY <1>1, <1>6, <1>9, <3>1 DEF EpochOK, EpochBegin, BeginsBetweenBlocks
  <2>5. QED
    BY <2>3, <2>4
<1>11. CASE S # {}
  <2>1. ASSUME NEW i \in S
        PROVE  /\ epochResolved[e] /\ F # 0
               /\ BurntOf(H)[i] \in Nat /\ SharesOf(H)[i] \in Nat
               /\ PaidOf(H)[i] \in Nat
               /\ BurntOf(H)[i] * C >= SharesOf(H)[i] * F
               /\ PaidOf(H)[i] * F <= BurntOf(H)[i] * emissions[e]
    <3>1. i \in H /\ rolloverQueue[i].epochId = e
      BY <1>2
    <3>2. QED
      BY <3>1, HandledItem
  <2>2. epochResolved[e] /\ F # 0
    BY <1>11, <2>1
  <2>3. T * F <= B * C /\ P * F <= B * emissions[e]
    <3> DEFINE b == BurntOf(H)
               s == SharesOf(H)
               p == PaidOf(H)
               E == emissions[e]
    <3>1. \A i \in S : /\ b[i] \in Nat /\ s[i] \in Nat /\ p[i] \in Nat
                       /\ b[i] * C >= s[i] * F /\ p[i] * F <= b[i] * E
      BY <2>1
    <3>2. E \in Nat
      BY <1>5
    <3> HIDE DEF b, s, p, E, S, F, C, t
    <3>3. /\ SumFunctionOnSet(b, S) * C >= SumFunctionOnSet(s, S) * F
          /\ SumFunctionOnSet(p, S) * F <= SumFunctionOnSet(b, S) * E
      BY <1>3, <1>5, <3>1, <3>2, ItemsCovered
    <3>4. /\ B = SumFunctionOnSet(b, S) /\ T = SumFunctionOnSet(s, S)
          /\ P = SumFunctionOnSet(p, S)
      BY <1>3 DEF b, s, p
    <3> HIDE DEF B, T, P
    <3>5. B * C >= T * F /\ P * F <= B * E
      BY <3>3, <3>4
    <3>6. B * C \in Nat /\ T * F \in Nat
      BY <1>3, <1>5
    <3>7. QED
      BY <3>5, <3>6 DEF E
  <2>4. late'[e] = late[e] + M
    BY <1>5, <1>7, <1>8, <2>2
  <2>5. M > 0 => ~BeginsBetweenBlocks(e)
    <3> SUFFICES ASSUME M > 0 PROVE ~BeginsBetweenBlocks(e)
      OBVIOUS
    <3>1. e = id
      BY <1>8
    <3>2. QED
      BY <1>1, <2>2, <3>1, SettledAtBegin
  <2>6. /\ T * finalTVL[e] <= B * claimTVL[e]
        /\ P * finalTVL[e] <= B * emissions[e]
        /\ finalTVL[e] = 0 => T = 0 /\ P = 0
    BY <2>2, <2>3
  <2>7. /\ totalSupply'[e] = totalSupply[e] - B + M
        /\ funds'[e] = funds[e] - T + M
        /\ emissionsFunds'[e] = emissionsFunds[e] - P
    BY <1>4
  <2> HIDE DEF S, B, T, P, M, F, C, t
  <2>8. EpochOK(e)'
    BY <1>1, <1>3, <1>6, <1>8, <2>2, <2>4, <2>5, <2>6, <2>7, SettledEpochMoves
  <2>9. QED
    BY <1>9, <2>8
<1>12. QED
  BY <1>10, <1>11

\* Sums over the items handled, by owner and by the epoch they come from.
LEMMA ByOwner ==
    ASSUME Inv, NEW H, Handles(H), NEW S \in SUBSET H,
           NEW f, \A i \in H : f[i] \in Int,
           NEW g, \A u \in Users : g[u] = SumFunctionOnSet(f, ItemsOf(S, u))
    PROVE  SumFunctionOnSet(g, Users) = SumFunctionOnSet(f, S)
<1> DEFINE key == [i \in S |-> rolloverQueue[i].receiver]
           group == [u \in Users |-> ItemsOf(S, u)]
<1>1. /\ IsFiniteSet(S) /\ IsFiniteSet(Users) /\ \A i \in S : f[i] \in Int
  BY HandledSums, FiniteAssumption
<1>2. \A i \in S : key[i] \in Users
  BY HandledItem
<1>3. \A u \in Users : /\ group[u] \subseteq S
                       /\ \A i \in S : i \in group[u] <=> key[i] = u
                       /\ g[u] = SumFunctionOnSet(f, group[u])
  BY DEF ItemsOf
<1> HIDE DEF key, group
<1>4. QED
  BY <1>1, <1>2, <1>3, SumGrouped

\* The handled items summed epoch by epoch.
LEMMA ByEpoch ==
    ASSUME Inv, NEW H, Handles(H), NEW f, \A i \in H : f[i] \in Int,
           NEW g, \A e \in Epochs : g[e] = SumFunctionOnSet(f, ItemsFrom(H, e))
    PROVE  SumFunctionOnSet(g, Epochs) = SumFunctionOnSet(f, H)
<1> DEFINE key == [i \in H |-> rolloverQueue[i].epochId]
           group == [e \in Epochs |-> ItemsFrom(H, e)]
<1>1. IsFiniteSet(H) /\ IsFiniteSet(Epochs)
  BY HandledSums, FiniteAssumption
<1>2. \A i \in H : key[i] \in Epochs
  BY HandledItem
<1>3. \A e \in Epochs : /\ group[e] \subseteq H
                        /\ \A i \in H : i \in group[e] <=> key[i] = e
                        /\ g[e] = SumFunctionOnSet(f, group[e])
  BY DEF ItemsFrom
<1> HIDE DEF key, group
<1>4. QED
  BY <1>1, <1>2, <1>3, SumGrouped

\* The shares of an epoch after a call of mintRollovers for epoch id: what the
\* owners burn and what they are minted is what the supply changes by.
LEMMA RollOverShares ==
    ASSUME Inv, NEW id \in Epochs, NEW H, Handles(H), RollOver(id, H),
           NEW e \in Epochs
    PROVE  /\ \A u \in Users :
                 /\ Burnt(ItemsOf(ItemsFrom(H, e), u)) \in Nat
                 /\ Minted(ItemsOf(H, u)) \in Nat
                 /\ balanceOf[e][u] >= Burnt(ItemsOf(ItemsFrom(H, e), u))
                 /\ balanceOf'[e][u] =
                       balanceOf[e][u] - Burnt(ItemsOf(ItemsFrom(H, e), u))
                          + (IF e = id THEN Minted(ItemsOf(H, u)) ELSE 0)
           /\ balanceOf'[e] \in [Users -> Nat]
           /\ totalSupply'[e] = SumFunction(balanceOf'[e])
           /\ totalSupply'[e] \in Nat
<1> DEFINE S == ItemsFrom(H, e)
           b == balanceOf[e]
           new == balanceOf'[e]
           burnt == [u \in Users |-> Burnt(ItemsOf(S, u))]
           minted == [u \in Users |-> IF e = id THEN Minted(ItemsOf(H, u)) ELSE 0]
           g == [u \in Users |-> minted[u] - burnt[u]]
           M == IF e = id THEN Minted(H) ELSE 0
<1>1. /\ b \in [Users -> Nat] /\ totalSupply[e] = SumFunction(b)
      /\ IsFiniteSet(Users)
  BY FiniteAssumption DEF Inv, TypeOK, SumsOK, SupplyIsSumOfBalances
<1>2. S \in SUBSET H /\ H \in SUBSET H
  BY DEF ItemsFrom
<1>3. \A u \in Users : ItemsOf(S, u) \in SUBSET H /\ ItemsOf(H, u) \in SUBSET H
  BY <1>2 DEF ItemsOf
<1>4. \A u \in Users :
         /\ burnt[u] = SumFunctionOnSet(BurntOf(H), ItemsOf(S, u)) /\ burnt[u] \in Nat
         /\ Minted(ItemsOf(H, u)) = SumFunctionOnSet(MintedOf(H), ItemsOf(H, u))
         /\ Minted(ItemsOf(H, u)) \in Nat /\ minted[u] \in Nat
  <2> HIDE DEF S
  <2>1. \A u \in Users :
           /\ Burnt(ItemsOf(S, u)) = SumFunctionOnSet(BurntOf(H), ItemsOf(S, u))
           /\ Burnt(ItemsOf(S, u)) \in Nat
           /\ Minted(ItemsOf(H, u)) = SumFunctionOnSet(MintedOf(H), ItemsOf(H, u))
           /\ Minted(ItemsOf(H, u)) \in Nat
    BY <1>3, HandledSums
  <2>2. QED
    BY <2>1
<1>5. /\ totalSupply'[e] = totalSupply[e] - Burnt(S) + M
      /\ new = [u \in Users |-> b[u] - burnt[u] + minted[u]]
      /\ \A u \in Users : b[u] >= burnt[u]
  BY DEF RollOver
<1>6. \A i \in H : BurntOf(H)[i] \in Int /\ MintedOf(H)[i] \in Int
  BY HandledItem
<1>7. SumFunctionOnSet(burnt, Users) = Burnt(S) /\ Burnt(S) \in Nat
  <2>1. Burnt(S) = SumFunctionOnSet(BurntOf(H), S) /\ Burnt(S) \in Nat
    BY <1>2, HandledSums
  <2>2. \A u \in Users : burnt[u] = SumFunctionOnSet(BurntOf(H), ItemsOf(S, u))
    BY <1>4
  <2> HIDE DEF burnt, S
  <2>3. SumFunctionOnSet(burnt, Users) = SumFunctionOnSet(BurntOf(H), S)
    BY <1>2, <1>6, <2>2, ByOwner
  <2>4. QED
    BY <2>1, <2>3
<1>8. SumFunctionOnSet(minted, Users) = M /\ M \in Nat
  <2>1. CASE e = id
    <3>1. Minted(H) = SumFunctionOnSet(MintedOf(H), H) /\ Minted(H) \in Nat
      BY <1>2, HandledSums
    <3>2. \A u \in Users : minted[u] = SumFunctionOnSet(MintedOf(H), ItemsOf(H, u))
      BY <1>4, <2>1
    <3> HIDE DEF minted
    <3>3. SumFunctionOnSet(minted, Users) = SumFunctionOnSet(MintedOf(H), H)
      BY <1>2, <1>6, <3>2, ByOwner
    <3>4. QED
      BY <2>1, <3>1, <3>3
  <2>2. CASE e # id
    <3>1. \A u \in Users : minted[u] = 0
      BY <2>2
    <3> HIDE DEF minted
    <3>2. SumFunctionOnSet(minted, Users) = 0
      BY <1>1, <3>1, SumZero
    <3>3. QED
      BY <2>2, <3>2
  <2>3. QED
    BY <2>1, <2>2
<1>9. /\ g \in [Users -> Int] /\ b \in [Users -> Int]
      /\ new \in [Users -> Nat] /\ new \in [Users -> Int]
      /\ \A u \in Users : new[u] = b[u] + g[u]
      /\ \A u \in Users : burnt[u] \in Int /\ g[u] \in Int
                          /\ minted[u] = burnt[u] + g[u]
  <2>1. \A u \in Users : burnt[u] \in Nat /\ minted[u] \in Nat /\ b[u] \in Nat
                         /\ b[u] >= burnt[u]
    BY <1>1, <1>4, <1>5
  <2> HIDE DEF burnt, minted, b
  <2>2. \A u \in Users : g[u] = minted[u] - burnt[u]
    OBVIOUS
  <2>3. g \in [Users -> Int]
    BY <2>1
  <2> HIDE DEF g
  <2>4. new = [u \in Users |-> b[u] - burnt[u] + minted[u]]
    BY <1>5
  <2> HIDE DEF new
  <2>5. new \in [Users -> Nat] /\ \A u \in Users : new[u] = b[u] - burnt[u] + minted[u]
    BY <2>1, <2>4
  <2>6. QED
    BY <1>1, <2>1, <2>2, <2>3, <2>5
<1>10. SumFunctionOnSet(g, Users) = M - Burnt(S) /\ SumFunctionOnSet(g, Users) \in Int
  <2> HIDE DEF g, burnt, minted, b, new, S, M
  <2>1. SumFunctionOnSet(minted, Users)
           = SumFunctionOnSet(burnt, Users) + SumFunctionOnSet(g, Users)
    BY <1>1, <1>9, SumPlus
  <2>2. SumFunctionOnSet(g, Users) \in Int
    BY <1>1, <1>9, SumInt
  <2>3. QED
    BY <1>7, <1>8, <2>1, <2>2
<1>11. totalSupply'[e] = SumFunction(new)
  <2> HIDE DEF g, b, new, S, M
  <2>1. SumFunction(new) = SumFunction(b) + SumFunctionOnSet(g, Users)
    BY <1>9, BalancesAdded
  <2>2. SumFunction(b) \in Int
    BY <1>1, <1>9, SumInt DEF SumFunction
  <2>3. QED
    BY <1>1, <1>5, <1>7, <1>8, <1>10, <2>1, <2>2
<1>12. SumFunction(new) \in Nat
  <2> HIDE DEF new
  <2> QED BY <1>1, <1>9, SumNat DEF SumFunction
<1>13. QED
  BY <1>4, <1>5, <1>9, <1>11, <1>12

\* The money a call of mintRollovers for epoch id moves: what the items take
\* from their epochs is what they are minted and what the relayer is paid.
LEMMA RollOverMoney ==
    ASSUME Inv, NEW id \in Epochs, NEW H, Handles(H), RollOver(id, H),
           UNCHANGED depositQueue, funds' \in [Epochs -> Int]
    PROVE  BalanceAccounted' /\ asset' \in Nat
<1> DEFINE taken == [e \in Epochs |-> SumFunctionOnSet(SharesOf(H), ItemsFrom(H, e))]
           mid == [e \in Epochs |-> funds[e] - taken[e]]
           m == Minted(H)
           reward == Cardinality(H) * relayerFee
           T == SumFunctionOnSet(SharesOf(H), H)
<1>1. /\ funds \in [Epochs -> Int] /\ asset \in Nat /\ BalanceAccounted
      /\ depositQueue \in Seq(Deposits)
      /\ IsFiniteSet(Epochs) /\ relayerFee \in Nat
  <2>1. relayerFee \in RelayerFees /\ funds \in [Epochs -> Int] /\ asset \in Nat
        /\ BalanceAccounted /\ depositQueue \in Seq(Deposits)
    BY DEF Inv, TypeOK, SumsOK, Deposits
  <2>2. QED
    BY <2>1, CarouselAssumption, FiniteAssumption
<1>2. /\ \A i \in H : /\ SharesOf(H)[i] \in Int /\ MintedOf(H)[i] \in Int
                      /\ SharesOf(H)[i] = MintedOf(H)[i] + relayerFee
      /\ H \in SUBSET H /\ IsFiniteSet(H)
      /\ m = SumFunctionOnSet(MintedOf(H), H) /\ m \in Nat /\ T \in Nat
  <2>1. \A i \in H : /\ SharesOf(H)[i] \in Int /\ MintedOf(H)[i] \in Int
                     /\ SharesOf(H)[i] = MintedOf(H)[i] + relayerFee
    BY HandledItem
  <2>2. H \in SUBSET H
    OBVIOUS
  <2>3. /\ IsFiniteSet(H) /\ m = SumFunctionOnSet(MintedOf(H), H) /\ m \in Nat
        /\ T \in Nat
    BY <2>2, HandledSums
  <2>4. QED
    BY <2>1, <2>2, <2>3
<1>3. ASSUME NEW e \in Epochs
      PROVE  /\ taken[e] \in Nat
             /\ SumFunction([i \in ItemsFrom(H, e) |-> rolloverQueue[i].shares])
                   = taken[e]
  <2>1. ItemsFrom(H, e) \in SUBSET H
    BY DEF ItemsFrom
  <2>2. /\ SumFunctionOnSet(SharesOf(H), ItemsFrom(H, e)) \in Nat
        /\ SumFunction([i \in ItemsFrom(H, e) |-> rolloverQueue[i].shares])
              = SumFunctionOnSet(SharesOf(H), ItemsFrom(H, e))
    BY <2>1, HandledSums
  <2>3. QED
    BY <2>2
<1>4. /\ asset' = asset - reward /\ reward <= asset
      /\ \A e \in Epochs : funds'[e] = funds[e]
            - SumFunction([i \in ItemsFrom(H, e) |-> rolloverQueue[i].shares])
            + (IF e = id THEN m ELSE 0)
  BY DEF RollOver
<1>5. T = m + reward /\ reward \in Nat
  <2> DEFINE fee == [i \in H |-> relayerFee]
  <2>1. \A i \in H : fee[i] = relayerFee
    OBVIOUS
  <2> HIDE DEF fee
  <2>2. relayerFee \in Int /\ Cardinality(H) \in Nat
    BY <1>1, <1>2, FS_CardinalityType
  <2>3. SumFunctionOnSet(fee, H) = reward
    BY <1>2, <2>1, <2>2, SumConstant
  <2> DEFINE f == MintedOf(H)
             k == SharesOf(H)
  <2>4. \A i \in H : f[i] \in Int /\ fee[i] \in Int /\ k[i] = f[i] + fee[i]
    BY <1>1, <1>2, <2>1
  <2> HIDE DEF f, k
  <2>5. SumFunctionOnSet(k, H) = SumFunctionOnSet(f, H) + SumFunctionOnSet(fee, H)
    BY <1>2, <2>4, SumPlus
  <2>6. reward \in Nat
    BY <1>1, <2>2
  <2>7. QED
    BY <1>2, <2>3, <2>5, <2>6 DEF f, k
<1>6. SumFunctionOnSet(taken, Epochs) = T
  <2>1. \A i \in H : SharesOf(H)[i] \in Int
    BY <1>2
  <2>2. \A e \in Epochs : taken[e] = SumFunctionOnSet(SharesOf(H), ItemsFrom(H, e))
    OBVIOUS
  <2> HIDE DEF taken
  <2>3. QED
    BY <2>1, <2>2, ByEpoch
<1>7. /\ \A e \in Epochs : /\ mid[e] \in Int /\ taken[e] \in Int
                           /\ funds[e] = mid[e] + taken[e]
      /\ mid \in [Epochs -> Int]
      /\ funds'[id] = mid[id] + m
      /\ \A e \in Epochs \ {id} : funds'[e] = mid[e]
  <2>1. \A e \in Epochs : taken[e] \in Nat /\ funds[e] \in Int
    BY <1>1, <1>3
  <2>2. \A e \in Epochs : funds'[e] = funds[e] - taken[e] + (IF e = id THEN m ELSE 0)
    BY <1>3, <1>4
  <2> HIDE DEF taken, m
  <2>3. /\ \A e \in Epochs : mid[e] = funds[e] - taken[e]
        /\ mid \in [Epochs -> Int]
    BY <2>1
  <2> HIDE DEF mid
  <2>4. QED
    BY <1>2, <2>1, <2>2, <2>3
<1> HIDE DEF taken, mid, m, reward, T
<1>8. SumFunctionOnSet(funds, Epochs)
         = SumFunctionOnSet(mid, Epochs) + SumFunctionOnSet(taken, Epochs)
  <2>1. /\ IsFiniteSet(Epochs)
        /\ \A e \in Epochs : /\ mid[e] \in Int /\ taken[e] \in Int
                             /\ funds[e] = mid[e] + taken[e]
    BY <1>1, <1>7
  <2>2. QED
    BY <2>1, SumPlus
<1>9. SumFunction(funds') = SumFunction(mid) + m
  <2> DEFINE new == funds'
  <2>1. /\ m \in Int /\ IsFiniteSet(Epochs) /\ mid \in [Epochs -> Int]
        /\ new \in [Epochs -> Int] /\ new[id] = mid[id] + m
        /\ \A e \in Epochs \ {id} : new[e] = mid[e]
    BY <1>1, <1>2, <1>7
  <2> HIDE DEF new
  <2>2. SumFunction(new) = SumFunction(mid) + m
    BY <2>1, SumMoves
  <2>3. QED
    BY <2>2 DEF new
<1>10. /\ SumFunction(mid) = SumFunctionOnSet(mid, Epochs)
       /\ SumFunction(funds) = SumFunctionOnSet(funds, Epochs)
       /\ SumFunctionOnSet(mid, Epochs) \in Int
  BY <1>1, <1>7, SumInt DEF SumFunction
<1>11. DepositQueueTVL' = DepositQueueTVL /\ DepositQueueTVL \in Nat
  <2>1. DepositQueueTVL \in Nat
    BY <1>1, SharesInType DEF DepositQueueTVL, SharesIn
  <2>2. QED
    BY <2>1 DEF DepositQueueTVL
<1>12. asset = SumFunction(funds) + DepositQueueTVL
  BY <1>1 DEF BalanceAccounted
<1>13. asset' = SumFunction(funds') + DepositQueueTVL'
  BY <1>2, <1>4, <1>5, <1>6, <1>8, <1>9, <1>10, <1>11, <1>12
<1>14. asset' \in Nat
  BY <1>1, <1>4, <1>5
<1>15. QED
  BY <1>13, <1>14 DEF BalanceAccounted

\* The emissions a call of mintRollovers pays come from their epochs.
LEMMA RollOverEmissions ==
    ASSUME Inv, NEW id \in Epochs, NEW H, Handles(H), RollOver(id, H)
    PROVE  emissionsBalance' = SumFunction(emissionsFunds') /\ emissionsBalance' \in Nat
<1> DEFINE paid == [e \in Epochs |-> EmissionsPaid(e, ItemsFrom(H, e))]
           P == SumFunction(paid)
           old == emissionsFunds
           new == emissionsFunds'
<1>1. /\ old \in [Epochs -> Int] /\ emissionsBalance \in Nat
      /\ emissionsBalance = SumFunction(old) /\ IsFiniteSet(Epochs)
  BY FiniteAssumption DEF Inv, TypeOK, SumsOK
<1>2. \A e \in Epochs : paid[e] \in Nat
  <2>1. ASSUME NEW e \in Epochs PROVE EmissionsPaid(e, ItemsFrom(H, e)) \in Nat
    <3>1. ItemsFrom(H, e) \in SUBSET H
      BY DEF ItemsFrom
    <3>2. SumFunctionOnSet(PaidOf(H), ItemsFrom(H, e)) \in Nat
      BY <3>1, HandledSums
    <3>3. QED
      BY <3>2, EmissionsPaidSum
  <2>2. QED
    BY <2>1
<1>3. /\ P <= emissionsBalance /\ emissionsBalance' = emissionsBalance - P
      /\ new = [e \in Epochs |-> old[e] - paid[e]]
  BY DEF RollOver
<1>4. P = SumFunctionOnSet(paid, Epochs)
  BY DEF SumFunction
<1> HIDE DEF paid, P, old
<1>5. P \in Nat
  BY <1>1, <1>2, <1>4, SumNat
<1> HIDE DEF new
<1>6. \A e \in Epochs : new[e] \in Int /\ paid[e] \in Int /\ old[e] = new[e] + paid[e]
  BY <1>1, <1>2, <1>3
<1>7. SumFunctionOnSet(old, Epochs)
         = SumFunctionOnSet(new, Epochs) + SumFunctionOnSet(paid, Epochs)
  BY <1>1, <1>6, SumPlus
<1>8. /\ SumFunction(old) = SumFunctionOnSet(old, Epochs)
      /\ SumFunction(new) = SumFunctionOnSet(new, Epochs)
      /\ SumFunctionOnSet(new, Epochs) \in Int
  BY <1>1, <1>3, <1>6, SumInt DEF SumFunction
<1>9. QED
  BY <1>1, <1>3, <1>4, <1>5, <1>7, <1>8 DEF new

\* The item that rolls over is the only one of its owner: every other position
\* in the queue keeps the shares it needs, and the new one is what is minted.
LEMMA RollOverLocks ==
    ASSUME Inv, IndexKept, NEW id \in Epochs, NEW H, Handles(H), RollOver(id, H)
    PROVE  ItemsLocked'
<1> DEFINE n == Len(rolloverQueue)
<1>1. /\ TypeOK /\ QueueIndexed /\ ItemsLocked /\ QueueInv
      /\ rolloverQueue \in Seq(QueueItem) /\ DOMAIN rolloverQueue = 1..n
  <2>1. TypeOK /\ QueueIndexed /\ ItemsLocked /\ QueueInv
    BY QueueTyped DEF Inv
  <2>2. QED
    BY <2>1 DEF QueueInv
<1>2. H \in SUBSET (1..n)
  BY DEF Handles
<1>3. /\ rolloverQueue' \in Seq(QueueItem) /\ Len(rolloverQueue') = n
      /\ \A i \in 1..n : rolloverQueue'[i].receiver = rolloverQueue[i].receiver
      /\ \A i \in H : /\ rolloverQueue'[i].shares = AmountToMint(i)
                      /\ rolloverQueue'[i].epochId = id
      /\ \A i \in 1..n : i \notin H => rolloverQueue'[i] = rolloverQueue[i]
  BY <1>1, <1>2, RollOverEditsItems
<1>4. DOMAIN rolloverQueue' = 1..n
  BY <1>3
<1> SUFFICES ASSUME NEW i \in 1..n, rolloverQueue'[i].shares > 0
             PROVE  /\ rolloverQueue'[i].epochId \in Epochs
                    /\ rolloverQueue'[i].shares <=
                          balanceOf'[rolloverQueue'[i].epochId][rolloverQueue'[i].receiver]
  BY <1>4 DEF ItemsLocked
<1> DEFINE item == rolloverQueue[i]
           u == item.receiver
<1>5. item \in QueueItem /\ u \in Users /\ item.shares \in Nat
  <2>1. item \in QueueItem
    BY <1>1
  <2>2. QED
    BY <2>1 DEF QueueItem
<1>6. CASE i \in H
  <2> DEFINE mine == ItemsOf(H, u)
             burnt == Burnt(ItemsOf(ItemsFrom(H, id), u))
  <2>1. /\ balanceOf'[id][u] = balanceOf[id][u] - burnt + Minted(mine)
        /\ burnt \in Nat /\ Minted(mine) \in Nat /\ balanceOf[id][u] >= burnt
    BY <1>5, RollOverShares
  <2>2. balanceOf[id][u] \in Nat
    BY <1>1, <1>5 DEF TypeOK
  <2>3. /\ mine \in SUBSET H /\ i \in mine
    BY <1>6 DEF ItemsOf
  <2>4. /\ IsFiniteSet(mine) /\ Minted(mine) = SumFunctionOnSet(MintedOf(H), mine)
    BY <2>3, HandledSums
  <2>5. \A j \in mine : MintedOf(H)[j] \in Nat
    BY <2>3, HandledItem
  <2> HIDE DEF mine, burnt
  <2>6. MintedOf(H)[i] <= Minted(mine)
    BY <2>3, <2>4, <2>5, SumBoundsElement
  <2>7. rolloverQueue'[i].shares = MintedOf(H)[i]
    BY <1>3, <1>6 DEF MintedOf
  <2>8. MintedOf(H)[i] <= balanceOf'[id][u]
    <3>1. MintedOf(H)[i] \in Nat
      BY <2>3, <2>5
    <3>2. \A a, b, c, d \in Nat : a >= b /\ d <= c => d <= a - b + c
      OBVIOUS
    <3>3. QED
      BY <2>1, <2>2, <2>6, <3>1, <3>2
  <2>9. QED
    BY <1>3, <1>6, <2>7, <2>8
<1>7. CASE i \notin H
  <2> DEFINE e == item.epochId
             mine == ItemsOf(ItemsFrom(H, e), u)
  <2>1. rolloverQueue'[i] = item
    BY <1>3, <1>7
  <2>2. e \in Epochs /\ item.shares <= balanceOf[e][u]
    BY <1>1, <2>1 DEF ItemsLocked
  <2>3. mine = {}
    <3>1. ASSUME NEW j \in mine PROVE FALSE
      <4>1. j \in H /\ rolloverQueue[j].receiver = u
        BY DEF ItemsOf, ItemsFrom
      <4>2. ownerToRollOverQueueIndex[u] = j /\ ownerToRollOverQueueIndex[u] = i
        BY <1>1, <1>2, <4>1 DEF QueueIndexed
      <4>3. QED
        BY <1>7, <4>1, <4>2
    <3>2. QED
      BY <3>1
  <2>4. Burnt(mine) = 0
    <3>1. {} \in SUBSET H
      OBVIOUS
    <3>2. Burnt({}) = SumFunctionOnSet(BurntOf(H), {})
      BY <3>1, HandledSums
    <3>3. QED
      BY <2>3, <3>2, SumEmpty
  <2>5. /\ balanceOf'[e][u] = balanceOf[e][u] - Burnt(mine)
              + (IF e = id THEN Minted(ItemsOf(H, u)) ELSE 0)
        /\ Minted(ItemsOf(H, u)) \in Nat
    <3> HIDE DEF e
    <3> QED BY <1>5, <2>2, RollOverShares
  <2>6. balanceOf[e][u] \in Nat
    <3>1. balanceOf \in [Epochs -> [Users -> Nat]]
      BY <1>1 DEF TypeOK
    <3> HIDE DEF e, u
    <3>2. QED
      BY <1>5, <2>2, <3>1
  <2> HIDE DEF mine
  <2>7. item.shares <= balanceOf'[e][u]
    BY <1>5, <2>2, <2>4, <2>5, <2>6
  <2>8. QED
    BY <2>1, <2>2, <2>7
<1>8. QED
  BY <1>6, <1>7

\* A call of mintRollovers.
LEMMA MintRolloversKeeps ==
    ASSUME Inv, IndexKept, NEW id \in Epochs, NEW operations \in Nat,
           MintRollovers(id, operations)
    PROVE  Inv'
<1>1. TypeOK /\ EpochsInTime /\ AllEpochsOK /\ SumsOK
  BY DEF Inv
<1>2. PICK H \in SUBSET (1..Len(rolloverQueue)) :
         /\ RollOver(id, H)
         /\ \A i \in H : /\ IsRolledOver(rolloverQueue[i])
                         /\ finalTVL[rolloverQueue[i].epochId] # 0
  BY <1>1, MintRolloversHandles
<1>3. Handles(H) /\ RollOver(id, H)
  BY <1>2 DEF Handles, RollOver
<1>4. /\ EpochHasNotStarted(id)
      /\ UNCHANGED <<now, epochs, epochCreation, settleVars, relayerFee, depositFee,
                     depositQueue, emissions>>
  BY DEF MintRollovers, timeVars, feeVars
<1>5. late' \in [Epochs -> Nat]
  <2>1. Minted(H) \in Nat
    BY <1>3, HandledSums
  <2>2. CountLate(id, Minted(H))
    BY <1>3 DEF RollOver
  <2>3. QED
    BY <1>1, <2>1, <2>2, LateCounted
<1>6. ASSUME NEW e \in Epochs
      PROVE  /\ balanceOf'[e] \in [Users -> Nat] /\ totalSupply'[e] \in Nat
             /\ totalSupply'[e] = SumFunction(balanceOf'[e])
  BY <1>3, RollOverShares
<1>7. /\ balanceOf' \in [Epochs -> [Users -> Nat]] /\ totalSupply' \in [Epochs -> Nat]
      /\ SupplyIsSumOfBalances'
  <2>1. /\ balanceOf' = [e \in Epochs |-> balanceOf'[e]]
        /\ totalSupply' = [e \in Epochs |-> totalSupply'[e]]
    BY <1>3 DEF RollOver
  <2>2. QED
    BY <1>6, <2>1 DEF SupplyIsSumOfBalances
<1>8. ASSUME NEW e \in Epochs
      PROVE  EpochOK(e)' /\ funds'[e] \in Int /\ emissionsFunds'[e] \in Int
  <2>1. UNCHANGED <<now, settleVars, emissions>>
    BY <1>4
  <2>2. QED
    BY <1>3, <1>4, <1>7, <2>1, RollOverEpoch
<1>9. AllEpochsOK' /\ funds' \in [Epochs -> Int] /\ emissionsFunds' \in [Epochs -> Int]
  <2>1. /\ funds' = [e \in Epochs |-> funds'[e]]
        /\ emissionsFunds' = [e \in Epochs |-> emissionsFunds'[e]]
    BY <1>3 DEF RollOver
  <2>2. QED
    BY <1>8, <2>1 DEF AllEpochsOK
<1>10. BalanceAccounted' /\ asset' \in Nat
  BY <1>3, <1>4, <1>9, RollOverMoney
<1>11. emissionsBalance' = SumFunction(emissionsFunds') /\ emissionsBalance' \in Nat
  BY <1>3, RollOverEmissions
<1>12. SumsOK'
  BY <1>7, <1>10, <1>11 DEF SumsOK
<1>13. ItemsLocked'
  BY <1>3, RollOverLocks
<1>14. TypeOK'
  BY <1>1, <1>4, <1>5, <1>7, <1>9, <1>10, <1>11
     DEF TypeOK, IndexKept, QueueInv, settleVars
<1>15. EpochsInTime'
  BY <1>1, <1>4, TimesKept DEF timeVars, settleVars
<1>16. QED
  BY <1>9, <1>12, <1>13, <1>14, <1>15, QueueTyped DEF Inv, IndexKept

-----------------------------------------------------------------------------
(* The theorems.                                                           *)

\* The vault starts empty.
LEMMA InitInv ==
    ASSUME Init
    PROVE  Inv
<1> DEFINE zero == [id \in Epochs |-> 0]
           nobody == [u \in Users |-> 0]
<1>1. /\ now \in BlockTimes /\ epochs = <<QueueEpoch>>
      /\ epochCreation = zero /\ finalTVL = zero /\ claimTVL = zero
      /\ totalSupply = zero /\ late = zero /\ funds = zero /\ emissions = zero
      /\ emissionsFunds = zero /\ rolloverAccounting = zero
      /\ epochResolved = [id \in Epochs |-> FALSE] /\ epochNull = epochResolved
      /\ balanceOf = [id \in Epochs |-> nobody]
      /\ asset = 0 /\ emissionsBalance = 0
      /\ relayerFee \in RelayerFees /\ depositFee \in DepositFees
      /\ depositQueue = <<>> /\ rolloverQueue = <<>>
      /\ ownerToRollOverQueueIndex = nobody
  BY DEF Init
<1>2. QueueInv
  BY InitIndexed
<1>3. TypeOK
  <2>1. now \in Nat
    BY <1>1, CarouselAssumption
  <2>2. QueueEpoch \in Epochs \cup {QueueEpoch}
    OBVIOUS
  <2>3. epochs \in Seq(Epochs \cup {QueueEpoch})
    BY <1>1, <2>2
  <2>4. /\ depositQueue \in Seq([shares : Nat, receiver : Users])
        /\ rolloverQueue \in Seq(QueueItem)
        /\ ownerToRollOverQueueIndex \in [Users -> 0..Len(rolloverQueue)]
    BY <1>1, <1>2 DEF QueueInv
  <2>5. /\ epochCreation \in [Epochs -> Nat] /\ epochResolved \in [Epochs -> BOOLEAN]
        /\ epochNull \in [Epochs -> BOOLEAN]
        /\ finalTVL \in [Epochs -> Nat] /\ claimTVL \in [Epochs -> Nat]
        /\ totalSupply \in [Epochs -> Nat] /\ balanceOf \in [Epochs -> [Users -> Nat]]
        /\ late \in [Epochs -> Nat] /\ asset \in Nat /\ funds \in [Epochs -> Int]
        /\ rolloverAccounting \in [Epochs -> Nat] /\ emissions \in [Epochs -> Nat]
        /\ emissionsBalance \in Nat /\ emissionsFunds \in [Epochs -> Int]
    BY <1>1
  <2>6. QED
    BY <1>1, <2>1, <2>3, <2>4, <2>5 DEF TypeOK
<1>4. EpochsInTime
  <2>1. epochs # <<>>
    BY <1>1
  <2>2. ASSUME NEW id \in Epochs
        PROVE  /\ epochCreation[id] <= now
               /\ ~epochResolved[id] /\ emissions[id] = 0
    <3>1. epochCreation[id] = 0 /\ now \in Nat
      BY <1>1, <1>3 DEF TypeOK
    <3>2. QED
      BY <1>1, <3>1
  <2>3. QED
    BY <1>1, <2>1, <2>2 DEF EpochsInTime
<1>5. AllEpochsOK
  BY <1>1 DEF AllEpochsOK, EpochOK
<1>6. SumsOK
  <2>1. /\ SumFunction(zero) = 0 /\ SumFunction(nobody) = 0
    <3>1. SumFunctionOnSet(zero, Epochs) = 0
      BY FiniteAssumption, SumZero
    <3>2. SumFunctionOnSet(nobody, Users) = 0
      BY FiniteAssumption, SumZero
    <3>3. QED
      BY <3>1, <3>2 DEF SumFunction
  <2>2. SupplyIsSumOfBalances
    BY <1>1, <2>1 DEF SupplyIsSumOfBalances
  <2>3. DepositQueueTVL = 0
    <3> DEFINE h == [i \in DOMAIN depositQueue |-> depositQueue[i].shares]
    <3>1. DOMAIN h = {}
      BY <1>1
    <3> HIDE DEF h
    <3>2. SumFunction(h) = 0
      BY <3>1, SumEmpty DEF SumFunction
    <3>3. QED
      BY <3>2 DEF DepositQueueTVL, h
  <2> HIDE DEF zero
  <2>4. QED
    BY <1>1, <2>1, <2>2, <2>3 DEF SumsOK, BalanceAccounted
<1>7. ItemsLocked
  <2>1. DOMAIN rolloverQueue = {}
    BY <1>1
  <2>2. QED
    BY <2>1 DEF ItemsLocked
<1>8. QED
  BY <1>2, <1>3, <1>4, <1>5, <1>6, <1>7 DEF Inv, QueueInv

\* Every step of the vault keeps its invariant.
LEMMA NextKeeps ==
    ASSUME Inv, [Next]_vars
    PROVE  Inv'
<1>1. IndexKept
  BY QueueTyped, NextKeepsIndex DEF IndexKept
<1>2. /\ Amounts \subseteq Nat /\ Shares \subseteq Nat /\ Operations \subseteq Nat
      /\ EmissionAmounts \subseteq Nat /\ Claims \subseteq Nat
  BY CarouselAssumption
<1>3. CASE Tick
  BY <1>1, <1>3, TickKeeps
<1>4. CASE HolderNext
  <2>1. PICK u, sender \in Users :
           \/ DelistInRollover(u, sender)
           \/ \E id \in Epochs, shares \in Shares :
                 \/ Withdraw(id, shares, u, sender)
                 \/ EnlistInRollover(id, shares, u, sender)
                 \/ \E to \in Users : SafeTransferFrom(id, u, to, shares, sender)
    BY <1>4 DEF HolderNext
  <2>2. CASE DelistInRollover(u, sender)
    BY <1>1, <2>2, DelistKeeps
  <2>3. ASSUME NEW id \in Epochs, NEW shares \in Shares,
               \/ Withdraw(id, shares, u, sender)
               \/ EnlistInRollover(id, shares, u, sender)
               \/ \E to \in Users : SafeTransferFrom(id, u, to, shares, sender)
        PROVE  Inv'
    <3>1. shares \in Nat
      BY <1>2
    <3>2. CASE Withdraw(id, shares, u, sender)
      BY <1>1, <3>1, <3>2, WithdrawKeeps
    <3>3. CASE EnlistInRollover(id, shares, u, sender)
      BY <1>1, <3>1, <3>3, EnlistKeeps
    <3>4. CASE \E to \in Users : SafeTransferFrom(id, u, to, shares, sender)
      BY <1>1, <3>1, <3>4, TransferKeeps
    <3>5. QED
      BY <2>3, <3>2, <3>3, <3>4
  <2>4. QED
    BY <2>1, <2>2, <2>3
<1>5. CASE DepositNext
  <2>1. PICK u \in Users, assets \in Amounts :
           \/ DepositInQueue(assets, u)
           \/ \E id \in Epochs : Deposit(id, assets, u)
    BY <1>5 DEF DepositNext
  <2>2. assets \in Nat
    BY <1>2
  <2>3. CASE DepositInQueue(assets, u)
    BY <1>1, <2>2, <2>3, DepositInQueueKeeps
  <2>4. CASE \E id \in Epochs : Deposit(id, assets, u)
    BY <1>1, <2>2, <2>4, DepositKeeps
  <2>5. QED
    BY <2>1, <2>3, <2>4
<1>6. CASE RelayerNext
  <2>1. PICK id \in Epochs, operations \in Operations :
           MintDepositInQueue(id, operations) \/ MintRollovers(id, operations)
    BY <1>6 DEF RelayerNext
  <2>2. operations \in Nat
    BY <1>2
  <2>3. CASE MintDepositInQueue(id, operations)
    BY <1>1, <2>2, <2>3, MintDepositInQueueKeeps
  <2>4. CASE MintRollovers(id, operations)
    BY <1>1, <2>2, <2>4, MintRolloversKeeps
  <2>5. QED
    BY <2>1, <2>3, <2>4
<1>7. CASE FactoryNext
  <2>1. CASE \E id \in Epochs, emission \in EmissionAmounts :
                CreateEpochWithEmissions(id, emission)
    <3>1. PICK id \in Epochs, emission \in EmissionAmounts :
             CreateEpochWithEmissions(id, emission)
      BY <2>1
    <3>2. emission \in Nat
      BY <1>2
    <3>3. QED
      BY <1>1, <3>1, <3>2, CreateEpochKeeps
  <2>2. CASE \/ \E fee \in RelayerFees : ChangeRelayerFee(fee)
             \/ \E fee \in DepositFees : ChangeDepositFee(fee)
    BY <1>1, <2>2, FeesKeep
  <2>3. CASE \E owners \in CleanUps : CleanUpRolloverQueue(owners)
    BY <1>1, <2>3, CleanUpKeeps
  <2>4. QED
    BY <1>7, <2>1, <2>2, <2>3 DEF FactoryNext
<1>8. CASE ControllerNext
  <2>1. PICK id \in Epochs : \/ \E claim \in Claims : Settle(id, claim)
                             \/ SettleNull(id)
                             \/ SettleEmpty(id)
    BY <1>8 DEF ControllerNext
  <2>2. CASE \E claim \in Claims : Settle(id, claim)
    <3>1. PICK claim \in Claims : Settle(id, claim)
      BY <2>2
    <3>2. claim \in Nat
      BY <1>2
    <3>3. /\ ResolveEpoch(id, claim)
          /\ UNCHANGED <<timeVars, epochNull, shareVars, feeVars, depositQueue,
                         rolloverVars, emissionVars>>
      BY <3>1 DEF Settle
    <3>4. QED
      BY <1>1, <3>2, <3>3, SettleKeeps
  <2>3. CASE SettleNull(id)
    BY <1>1, <2>3, SettleNullKeeps
  <2>4. CASE SettleEmpty(id)
    <3>1. /\ ResolveEpoch(id, 0) /\ 0 \in Nat
          /\ UNCHANGED <<timeVars, epochNull, shareVars, feeVars, depositQueue,
                         rolloverVars, emissionVars>>
      BY <2>4 DEF SettleEmpty
    <3>2. QED
      BY <1>1, <3>1, SettleKeeps
  <2>5. QED
    BY <2>1, <2>2, <2>3, <2>4
<1>9. CASE UNCHANGED vars
  <2>1. /\ depositFee' \in DepositFees
        /\ UNCHANGED <<timeVars, settleVars, shareVars, moneyVars, depositQueue,
                       emissionVars, rolloverQueue, balanceOf>>
    BY <1>9 DEF vars, feeVars, rolloverVars, shareVars, Inv, TypeOK
  <2>2. ItemsLocked'
    BY <2>1 DEF Inv, ItemsLocked
  <2>3. QED
    BY <1>1, <2>1, <2>2, QuietKeeps
<1>10. QED
  BY <1>3, <1>4, <1>5, <1>6, <1>7, <1>8, <1>9 DEF Next

\* The invariant that the theorems below are read from, whenever blocks are
\* produced.
THEOREM CarouselInvariant == Spec => []CarouselInv
<1>1. Init => Inv
  BY InitInv
<1>2. Inv /\ [Next]_vars => Inv'
  BY NextKeeps
<1>3. Inv => CarouselInv
  BY InvIsCarouselInv
<1>4. QED
  BY <1>1, <1>2, <1>3, PTL DEF Spec

\* Every variable stays in its type: no subtraction of the vault's balances and
\* of its holders' shares goes below zero.
THEOREM CarouselTypeCorrect == Spec => []TypeOK
<1>1. CarouselInv => TypeOK
  BY DEF CarouselInv
<1>2. QED
  BY <1>1, CarouselInvariant, PTL

\* Every epoch is backed by its own money, whatever is deposited, queued, rolled
\* over, withdrawn and settled in it and in the others, but for the profit of the
\* shares minted after the settlement.
THEOREM EpochsAlwaysBacked == Spec => []EpochsBacked
<1>1. CarouselInv => EpochsBacked
  BY DEF CarouselInv, EpochsSound, EpochSound, EpochsBacked
<1>2. QED
  BY <1>1, CarouselInvariant, PTL

\* Neither deposit, nor the deposit queue, nor a rollover mints shares of a
\* settled epoch, but in a block at its exact begin.
THEOREM NoLateSharesApart == Spec => []UndilutedApart
<1>1. CarouselInv => UndilutedApart
  <2>1. ASSUME CarouselInv, NEW id \in Epochs, BeginsBetweenBlocks(id)
        PROVE  late[id] = 0
    <3>1. late[id] \in Nat /\ ~(late[id] > 0)
      BY <2>1 DEF CarouselInv, TypeOK, EpochsSound, EpochSound
    <3>2. QED
      BY <3>1
  <2>2. QED
    BY <2>1 DEF UndilutedApart
<1>2. QED
  BY <1>1, CarouselInvariant, PTL

\* The vault's balance is what it holds for its epochs and its deposit queue.
THEOREM BalanceAlwaysAccounted == Spec => []BalanceAccounted
<1>1. CarouselInv => BalanceAccounted
  BY DEF CarouselInv
<1>2. QED
  BY <1>1, CarouselInvariant, PTL

\* Emissions are never paid twice.
THEOREM EmissionsAlwaysBacked == Spec => []EmissionsBacked
<1>1. CarouselInv => EmissionsBacked
  BY DEF CarouselInv, EpochsSound, EpochSound, EmissionsBacked
<1>2. QED
  BY <1>1, CarouselInvariant, PTL

\* An enlisted position is still held by its owner: what the comment at
\* Carousel.sol:429 relies on.
THEOREM PositionsLocked == Spec => []SharesLocked
<1>1. CarouselInv => SharesLocked
  <2> SUFFICES ASSUME CarouselInv, NEW u \in Users, IsEnlistedInRolloverQueue(u)
               PROVE  LET item == rolloverQueue[ownerToRollOverQueueIndex[u]]
                      IN  item.shares <= balanceOf[item.epochId][u]
    BY DEF SharesLocked
  <2> DEFINE i == ownerToRollOverQueueIndex[u]
             item == rolloverQueue[i]
  <2>1. /\ rolloverQueue \in Seq(QueueItem) /\ i \in 0..Len(rolloverQueue)
        /\ i # 0 /\ item.shares # 0 /\ item.receiver = u
    BY DEF CarouselInv, TypeOK, QueueIndexed, IsEnlistedInRolloverQueue
  <2> HIDE DEF i
  <2>2. i \in 1..Len(rolloverQueue) /\ i \in DOMAIN rolloverQueue
        /\ item \in QueueItem
    BY <2>1
  <2>3. item.shares > 0
    BY <2>1, <2>2 DEF QueueItem
  <2>4. item.shares <= balanceOf[item.epochId][item.receiver]
    BY <2>2, <2>3 DEF CarouselInv, ItemsLocked
  <2>5. QED
    BY <2>1, <2>4 DEF i
<1>2. QED
  BY <1>1, CarouselInvariant, PTL

\* What the list of WithdrawSucceeds stands for: withdraw is that list and its
\* assignments, so the call can be made exactly when the list holds.
LEMMA WithdrawByGuards ==
    ASSUME TypeOK, NEW id \in Epochs, NEW shares \in Nat,
           NEW owner \in Users, NEW sender \in Users
    PROVE  Withdraw(id, shares, owner, sender) <=>
              /\ WithdrawSucceeds(id, shares, owner, sender)
              /\ asset' = asset - Payout(id, shares)
              /\ funds' = [funds EXCEPT ![id] = @ - Payout(id, shares)]
              /\ emissionsBalance' =
                    emissionsBalance - PreviewEmissionsWithdraw(id, shares)
              /\ emissionsFunds' = [emissionsFunds EXCEPT
                    ![id] = @ - PreviewEmissionsWithdraw(id, shares)]
              /\ totalSupply' = [totalSupply EXCEPT ![id] = @ - shares]
              /\ balanceOf' = [balanceOf EXCEPT ![id][owner] = @ - shares]
              /\ UNCHANGED <<timeVars, settleVars, late, feeVars, depositQueue,
                             rolloverVars, emissions>>
<1>1. balanceOf[id][owner] >= shares <=> shares <= balanceOf[id][owner]
  BY DEF TypeOK
<1>2. QED
  BY <1>1 DEF Withdraw, WithdrawSucceeds, Payout

\* An account without late shares is not overdrawn.
LEMMA AccountNatural ==
    ASSUME TypeOK, NEW id \in Epochs, EpochOK(id), late[id] = 0
    PROVE  funds[id] \in Nat /\ emissionsFunds[id] \in Nat
<1> DEFINE F == finalTVL[id]
           C == claimTVL[id]
           E == emissions[id]
           t == totalSupply[id]
           held == funds[id]
           left == emissionsFunds[id]
<1>1. /\ F \in Nat /\ C \in Nat /\ E \in Nat /\ t \in Nat
      /\ held \in Int /\ left \in Int
  BY DEF TypeOK
<1>2. CASE ~epochResolved[id]
  BY <1>1, <1>2 DEF EpochOK
<1>3. CASE epochResolved[id] /\ F = 0
  BY <1>1, <1>3 DEF EpochOK
<1>4. CASE epochResolved[id] /\ F # 0
  <2>1. held * F >= (t - 0) * C + 0 * F /\ left * F >= (t - 0) * E
    BY <1>4 DEF EpochOK
  <2>2. F # 0
    BY <1>4
  <2> HIDE DEF F, C, E, t, held, left
  <2>3. t * C \in Nat /\ t * E \in Nat
    BY <1>1
  <2>4. held * F >= t * C /\ left * F >= t * E /\ 0 * F <= 0 * C /\ 0 * F <= 0 * E
    BY <1>1, <2>1
  <2>5. 0 <= held
    BY <1>1, <2>2, <2>4, WorthWithin
  <2>6. 0 <= left
    BY <1>1, <2>2, <2>4, WorthWithin
  <2>7. QED
    BY <1>1, <2>5, <2>6 DEF held, left
<1>5. QED
  BY <1>2, <1>3, <1>4

\* Whatever the vault holds for one epoch is in its two balances, when none of
\* its epochs is overdrawn.
LEMMA AccountWithinBalance ==
    ASSUME Undiluted, Inv, NEW id \in Epochs
    PROVE  funds[id] <= asset /\ emissionsFunds[id] <= emissionsBalance
<1>1. TypeOK /\ AllEpochsOK /\ SumsOK
  BY DEF Inv
<1>2. /\ funds \in [Epochs -> Int] /\ emissionsFunds \in [Epochs -> Int]
      /\ asset \in Nat /\ emissionsBalance \in Nat
  BY <1>1 DEF TypeOK
<1>3. \A e \in Epochs : funds[e] \in Nat /\ emissionsFunds[e] \in Nat
  <2>1. ASSUME NEW e \in Epochs PROVE funds[e] \in Nat /\ emissionsFunds[e] \in Nat
    <3>1. EpochOK(e) /\ late[e] = 0
      BY <1>1 DEF AllEpochsOK, Undiluted
    <3>2. QED
      BY <1>1, <3>1, AccountNatural
  <2>2. QED
    BY <2>1
<1>4. /\ SumFunction(funds) = SumFunctionOnSet(funds, Epochs)
      /\ SumFunction(emissionsFunds) = SumFunctionOnSet(emissionsFunds, Epochs)
  BY <1>2 DEF SumFunction
<1>5. /\ funds[id] <= SumFunctionOnSet(funds, Epochs)
      /\ emissionsFunds[id] <= SumFunctionOnSet(emissionsFunds, Epochs)
  BY <1>3, FiniteAssumption, SumBoundsElement
<1>6. SumFunctionOnSet(funds, Epochs) \in Nat
  BY <1>3, FiniteAssumption, SumNat
<1>7. DepositQueueTVL \in Nat
  <2>1. depositQueue \in Seq(Deposits)
    BY <1>1 DEF TypeOK, Deposits
  <2>2. SumFunction(SharesIn(depositQueue)) \in Nat
    BY <2>1, SharesInType
  <2>3. QED
    BY <2>2 DEF DepositQueueTVL, SharesIn
<1>8. /\ asset = SumFunctionOnSet(funds, Epochs) + DepositQueueTVL
      /\ emissionsBalance = SumFunctionOnSet(emissionsFunds, Epochs)
  BY <1>1, <1>4 DEF SumsOK, BalanceAccounted
<1>9. QED
  BY <1>3, <1>5, <1>6, <1>7, <1>8

\* The invariant gives a holder who is not queued every guard of withdraw.
LEMMA InvariantFundsExits ==
    ASSUME Inv
    PROVE  FreeExitsFunded
<1> SUFFICES ASSUME NEW id \in Epochs, NEW u \in Users, Undiluted, epochResolved[id],
                    balanceOf[id][u] > 0, ~IsEnlistedInRolloverQueue(u)
             PROVE  WithdrawSucceeds(id, balanceOf[id][u], u, u)
  BY DEF FreeExitsFunded
<1> DEFINE held == balanceOf[id][u]
<1>1. /\ TypeOK /\ EpochOK(id) /\ EpochsInTime /\ SupplyIsSumOfBalances
      /\ late[id] = 0
  BY DEF Inv, AllEpochsOK, SumsOK, Undiluted
<1>2. /\ held \in Nat /\ totalSupply[id] \in Nat /\ finalTVL[id] \in Nat
      /\ funds[id] \in Int /\ emissionsFunds[id] \in Int
      /\ asset \in Nat /\ emissionsBalance \in Nat
  BY <1>1 DEF TypeOK
<1>3. held <= totalSupply[id]
  BY <1>1, BalanceWithinSupply
<1>4. totalSupply[id] - 0 <= finalTVL[id]
  BY <1>1 DEF EpochOK
<1>5. finalTVL[id] # 0
  BY <1>2, <1>3, <1>4
<1>6. EpochExists(id)
  BY <1>1 DEF EpochsInTime
<1>7. NotRollingOver(u, id, held) /\ IsAuthorized(u, u)
  BY DEF NotRollingOver, IsAuthorized
<1> HIDE DEF held
<1>8. /\ Payout(id, held) \in Nat /\ Payout(id, held) <= funds[id]
      /\ PreviewEmissionsWithdraw(id, held) \in Nat
      /\ PreviewEmissionsWithdraw(id, held) <= emissionsFunds[id]
  <2>1. /\ Payout(id, held) \in Nat /\ PreviewEmissionsWithdraw(id, held) \in Nat
    BY <1>1, <1>2, <1>5, PayoutWorth
  <2>2. QED
    BY <1>1, <1>2, <1>3, <1>5, <2>1, WithdrawalCovered
<1>9. funds[id] <= asset /\ emissionsFunds[id] <= emissionsBalance
  BY AccountWithinBalance
<1>10. /\ Payout(id, held) <= asset
       /\ PreviewEmissionsWithdraw(id, held) <= emissionsBalance
  BY <1>2, <1>8, <1>9
<1>11. held <= balanceOf[id][u]
  BY <1>2 DEF held
<1>12. WithdrawSucceeds(id, held, u, u)
  BY <1>5, <1>6, <1>7, <1>10, <1>11 DEF WithdrawSucceeds
<1>13. QED
  BY <1>12 DEF held

\* A holder of a settled epoch who is not queued for rollover passes every
\* check of a withdrawal of all the shares, while no share was minted late: the
\* money and the emissions are there, whatever the relayers, the depositors and
\* the other holders did.
THEOREM FreeExitsAreFunded == Spec => []FreeExitsFunded
<1>1. CarouselInv => FreeExitsFunded
  BY InvIsCarouselInv, InvariantFundsExits
<1>2. QED
  BY <1>1, CarouselInvariant, PTL

-----------------------------------------------------------------------------
(* Fair rollovers.                                                         *)

\* RolloverFair, of one item and one step.
FairFor(i) ==
    LET item  == rolloverQueue[i]
        new   == rolloverQueue'[i].epochId
        u     == item.receiver
        burnt == balanceOf[item.epochId][u] - balanceOf'[item.epochId][u]
    IN  item.shares > 0 /\ new # item.epochId /\ burnt > 0 =>
          /\ burnt * claimTVL[item.epochId] >= item.shares * finalTVL[item.epochId]
          /\ burnt * claimTVL[item.epochId] <
                (item.shares + 1) * finalTVL[item.epochId] + claimTVL[item.epochId]
          /\ balanceOf'[new][u] - balanceOf[new][u] = item.shares - relayerFee

\* An item handled by mintRollovers is the only one of its owner, so that the
\* owner burns and is minted what this item does.
LEMMA HandledIsFair ==
    ASSUME Inv, NEW id \in Epochs, NEW H, Handles(H), RollOver(id, H),
           NEW i \in H, rolloverQueue[i].epochId # id
    PROVE  FairFor(i)
<1> DEFINE item == rolloverQueue[i]
           e == item.epochId
           u == item.receiver
           mine == ItemsOf(ItemsFrom(H, e), u)
           burnt == OriginalDepositValue(item)
           there == balanceOf[e][u]
           here == balanceOf[id][u]
<1>1. /\ QueueIndexed /\ rolloverQueue \in Seq(QueueItem) /\ QueueInv
      /\ finalTVL \in [Epochs -> Nat] /\ claimTVL \in [Epochs -> Nat]
      /\ H \in SUBSET (1..Len(rolloverQueue))
  BY QueueTyped DEF Inv, TypeOK, Handles
<1>2. /\ item \in QueueItem /\ e \in Epochs /\ u \in Users /\ item.shares \in Nat
      /\ epochResolved[e] /\ BurntOf(H)[i] \in Nat
      /\ MintedOf(H)[i] \in Nat /\ SharesOf(H)[i] = item.shares
      /\ SharesOf(H)[i] = MintedOf(H)[i] + relayerFee
  BY HandledItem
<1>3. /\ BurntOf(H)[i] = burnt /\ burnt \in Nat
  BY <1>2 DEF BurntOf
<1>4. /\ burnt * claimTVL[e] >= item.shares * finalTVL[e]
      /\ burnt * claimTVL[e] < (item.shares + 1) * finalTVL[e] + claimTVL[e]
  <2>1. IsRolledOver(item) /\ finalTVL[e] # 0
    BY DEF Handles
  <2> HIDE DEF item
  <2>2. QED
    BY <1>1, <1>2, <2>1, RolloverCovered
<1>5. rolloverQueue'[i].epochId = id
  BY <1>1, RollOverEditsItems
<1>6. /\ ItemsOf(H, u) = {i} /\ mine = {i}
      /\ ItemsOf(ItemsFrom(H, id), u) = {}
  <2>1. ASSUME NEW j \in H, rolloverQueue[j].receiver = u PROVE j = i
    <3>1. DOMAIN rolloverQueue = 1..Len(rolloverQueue)
      BY <1>1
    <3>2. ownerToRollOverQueueIndex[u] = j /\ ownerToRollOverQueueIndex[u] = i
      BY <1>1, <2>1, <3>1 DEF QueueIndexed
    <3>3. QED
      BY <3>2
  <2>2. QED
    BY <2>1 DEF ItemsOf, ItemsFrom
<1>7. /\ Burnt({i}) = burnt /\ Minted({i}) = MintedOf(H)[i] /\ Burnt({}) = 0
  <2>1. {i} \in SUBSET H /\ {} \in SUBSET H
    OBVIOUS
  <2>2. /\ Burnt({i}) = SumFunctionOnSet(BurntOf(H), {i})
        /\ Minted({i}) = SumFunctionOnSet(MintedOf(H), {i})
        /\ Burnt({}) = SumFunctionOnSet(BurntOf(H), {})
    BY <2>1, HandledSums
  <2>3. SumFunctionOnSet(BurntOf(H), {}) = 0
    BY SumEmpty
  <2>4. /\ SumFunctionOnSet(BurntOf(H), {i}) = BurntOf(H)[i]
        /\ SumFunctionOnSet(MintedOf(H), {i}) = MintedOf(H)[i]
    <3>1. BurntOf(H)[i] \in Nat /\ MintedOf(H)[i] \in Nat
      BY <1>2
    <3> HIDE DEF item, burnt
    <3>2. SumFunctionOnSet(BurntOf(H), {i}) = BurntOf(H)[i]
      BY <3>1, SumSingle
    <3>3. SumFunctionOnSet(MintedOf(H), {i}) = MintedOf(H)[i]
      BY <3>1, SumSingle
    <3>4. QED
      BY <3>2, <3>3
  <2> HIDE DEF burnt
  <2>5. QED
    BY <1>3, <2>2, <2>3, <2>4
<1> HIDE DEF item, burnt
<1>8. e # id
  BY DEF item
<1>9. /\ there \in Nat /\ here \in Nat
  <2>1. balanceOf \in [Epochs -> [Users -> Nat]]
    BY DEF Inv, TypeOK
  <2> HIDE DEF e, u
  <2>2. QED
    BY <1>2, <2>1
<1>10. /\ balanceOf'[e][u] = there - burnt
       /\ balanceOf'[id][u] = here + MintedOf(H)[i]
  <2> HIDE DEF e, u
  <2>1. balanceOf'[e][u] = balanceOf[e][u] - Burnt(ItemsOf(ItemsFrom(H, e), u))
           + (IF e = id THEN Minted(ItemsOf(H, u)) ELSE 0)
    BY <1>2, RollOverShares
  <2>2. balanceOf'[id][u] = balanceOf[id][u] - Burnt(ItemsOf(ItemsFrom(H, id), u))
           + Minted(ItemsOf(H, u))
    BY <1>2, RollOverShares
  <2>3. balanceOf'[e][u] = there - Burnt({i})
    <3>1. ItemsOf(ItemsFrom(H, e), u) = {i}
      BY <1>6
    <3>2. /\ e # id /\ there \in Nat /\ burnt \in Nat /\ Burnt({i}) = burnt
      BY <1>3, <1>7, <1>8, <1>9
    <3>3. QED
      BY <2>1, <3>1, <3>2
  <2>4. balanceOf'[id][u] = here - Burnt({}) + Minted({i})
    <3>1. ItemsOf(ItemsFrom(H, id), u) = {} /\ ItemsOf(H, u) = {i}
      BY <1>6
    <3>2. QED
      BY <2>2, <3>1
  <2>5. /\ here \in Nat /\ Burnt({}) = 0 /\ Burnt({i}) = burnt
        /\ Minted({i}) = MintedOf(H)[i] /\ MintedOf(H)[i] \in Nat
    BY <1>2, <1>7, <1>9
  <2> HIDE DEF here, there, burnt
  <2>6. QED
    BY <2>3, <2>4, <2>5
<1> HIDE DEF there, here, mine
<1>11. there - balanceOf'[e][u] = burnt
  BY <1>3, <1>9, <1>10
<1>12. balanceOf'[id][u] - here = item.shares - relayerFee
  <2>1. relayerFee \in Nat
    <3>1. relayerFee \in RelayerFees
      BY <1>1 DEF QueueInv
    <3>2. QED
      BY <3>1, CarouselAssumption
  <2>2. QED
    BY <1>2, <1>9, <1>10, <2>1
<1>13. QED
  BY <1>4, <1>5, <1>11, <1>12 DEF FairFor, item, there, here

\* A rollover costs its owner the relayer fee and less than one asset and one
\* share of rounding; no other step takes shares from a position of the queue
\* that changes its epoch.
THEOREM RolloverAlwaysFair == Spec => RolloverFair
<1> DEFINE Fair == \A i \in DOMAIN rolloverQueue \cap DOMAIN rolloverQueue' :
                      FairFor(i)
<1>1. ASSUME UNCHANGED rolloverQueue PROVE Fair
  BY <1>1 DEF FairFor
<1>2. ASSUME Inv, UNCHANGED balanceOf PROVE Fair
  <2> SUFFICES ASSUME NEW i \in DOMAIN rolloverQueue, rolloverQueue[i].shares > 0
               PROVE  FairFor(i)
    BY DEF FairFor
  <2> DEFINE e == rolloverQueue[i].epochId
             u == rolloverQueue[i].receiver
  <2>1. /\ rolloverQueue \in Seq(QueueItem) /\ ItemsLocked
        /\ balanceOf \in [Epochs -> [Users -> Nat]]
    BY <1>2 DEF Inv, TypeOK
  <2>2. e \in Epochs
    BY <2>1 DEF ItemsLocked
  <2>3. u \in Users
    <3>1. rolloverQueue[i] \in QueueItem
      BY <2>1
    <3>2. QED
      BY <3>1 DEF QueueItem
  <2> HIDE DEF e, u
  <2>4. balanceOf[e][u] \in Nat
    BY <2>1, <2>2, <2>3
  <2>5. balanceOf[e][u] - balanceOf'[e][u] = 0
    BY <1>2, <2>4
  <2>6. QED
    BY <2>5 DEF FairFor, e, u
<1>3. ASSUME Inv, NEW id \in Epochs, NEW operations \in Operations,
             MintRollovers(id, operations)
      PROVE  Fair
  <2>1. operations \in Nat /\ TypeOK
    BY <1>3, CarouselAssumption DEF Inv
  <2>2. PICK H \in SUBSET (1..Len(rolloverQueue)) :
           /\ RollOver(id, H)
           /\ \A i \in H : /\ IsRolledOver(rolloverQueue[i])
                           /\ finalTVL[rolloverQueue[i].epochId] # 0
    BY <1>3, <2>1, MintRolloversHandles
  <2>3. Handles(H) /\ RollOver(id, H)
    BY <2>2 DEF Handles, RollOver
  <2>4. ASSUME NEW i \in DOMAIN rolloverQueue PROVE FairFor(i)
    <3>1. QueueInv /\ i \in 1..Len(rolloverQueue)
      BY <1>3, <2>1, QueueTyped DEF TypeOK
    <3>2. CASE i \in H /\ rolloverQueue[i].epochId # id
      BY <1>3, <2>3, <3>2, HandledIsFair
    <3>3. CASE i \in H /\ rolloverQueue[i].epochId = id
      <4>1. rolloverQueue'[i].epochId = id
        BY <2>2, <3>1, <3>3, RollOverEditsItems
      <4>2. QED
        BY <3>3, <4>1 DEF FairFor
    <3>4. CASE i \notin H
      <4>1. rolloverQueue'[i] = rolloverQueue[i]
        BY <2>2, <3>1, <3>4, RollOverEditsItems
      <4>2. QED
        BY <4>1 DEF FairFor
    <3>5. QED
      BY <3>2, <3>3, <3>4
  <2>5. QED
    BY <2>4
<1>4. ASSUME Inv, [Next]_vars PROVE [Fair]_vars
  <2> HIDE DEF Fair
  <2>1. CASE Tick
    BY <1>1, <2>1 DEF Tick, rolloverVars
  <2>2. CASE HolderNext
    <3> PICK u \in Users, sender \in Users :
           \/ DelistInRollover(u, sender)
           \/ \E id \in Epochs, shares \in Shares :
                 \/ Withdraw(id, shares, u, sender)
                 \/ EnlistInRollover(id, shares, u, sender)
                 \/ \E to \in Users : SafeTransferFrom(id, u, to, shares, sender)
      BY <2>2 DEF HolderNext
    <3>1. CASE DelistInRollover(u, sender)
      <4>1. UNCHANGED balanceOf
        BY <3>1 DEF DelistInRollover, shareVars
      <4>2. QED
        BY <1>2, <1>4, <4>1
    <3>2. ASSUME NEW id \in Epochs, NEW shares \in Shares,
                 Withdraw(id, shares, u, sender)
          PROVE  Fair
      <4>1. UNCHANGED rolloverQueue
        BY <3>2 DEF Withdraw, rolloverVars
      <4>2. QED
        BY <1>1, <4>1
    <3>3. ASSUME NEW id \in Epochs, NEW shares \in Shares,
                 EnlistInRollover(id, shares, u, sender)
          PROVE  Fair
      <4>1. UNCHANGED balanceOf
        BY <3>3 DEF EnlistInRollover, shareVars
      <4>2. QED
        BY <1>2, <1>4, <4>1
    <3>4. ASSUME NEW id \in Epochs, NEW shares \in Shares, NEW to \in Users,
                 SafeTransferFrom(id, u, to, shares, sender)
          PROVE  Fair
      <4>1. UNCHANGED rolloverQueue
        BY <3>4 DEF SafeTransferFrom, rolloverVars
      <4>2. QED
        BY <1>1, <4>1
    <3>5. QED
      BY <3>1, <3>2, <3>3, <3>4
  <2>3. CASE DepositNext
    BY <1>1, <2>3 DEF DepositNext, DepositInQueue, Deposit, rolloverVars
  <2>4. CASE RelayerNext
    BY <1>1, <1>3, <1>4, <2>4 DEF RelayerNext, MintDepositInQueue, rolloverVars
  <2>5. CASE FactoryNext
    BY <1>1, <1>2, <1>4, <2>5
       DEF FactoryNext, CreateEpochWithEmissions, ChangeRelayerFee,
           ChangeDepositFee, CleanUpRolloverQueue, rolloverVars, shareVars
  <2>6. CASE ControllerNext
    BY <1>1, <2>6 DEF ControllerNext, Settle, SettleNull, SettleEmpty, rolloverVars
  <2>7. CASE UNCHANGED vars
    BY <2>7
  <2>8. QED
    BY <1>4, <2>1, <2>2, <2>3, <2>4, <2>5, <2>6, <2>7 DEF Next
<1>5. Init => Inv
  BY InitInv
<1>6. Inv /\ [Next]_vars => Inv'
  BY NextKeeps
<1>7. RolloverFair <=> [][Fair]_vars
  BY DEF RolloverFair, FairFor
<1>8. QED
  <2> HIDE DEF Fair
  <2>1. Inv /\ [Next]_vars => [Fair]_vars
    BY <1>4
  <2>2. QED
    BY <1>5, <1>6, <1>7, <2>1, PTL DEF Spec
=============================================================================
