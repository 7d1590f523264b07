------------------------- MODULE LockRewardsProofs -------------------------
(***************************************************************************)
(* For any users, amounts, lock lengths, durations and start times:        *)
(* nobody's lock in an epoch changes once the epoch has started, the locks *)
(* of an epoch and the balances of the accounts add up to their totals,    *)
(* no more is credited in an epoch than its rewards, and locks hold.       *)
(***************************************************************************)
EXTENDS LockRewardsProperties, FiniteSums, WellFoundedInduction, TLAPS

\* The fields of an account and an epoch that the order of the epochs and the
\* range of a lock depend on.
AccountFields == {"balance", "lockEpochs", "lastEpochPaid", "rewards"}
EpochFields ==
    {"start", "finish", "totalLocked", "balanceLocked", "rewards", "isSet"}

AccountOK(account) ==
    /\ DOMAIN account = AccountFields
    /\ account.lockEpochs \in Int
    /\ account.lastEpochPaid \in Nat

ShapesOK ==
    /\ DOMAIN accounts = Users
    /\ \A u \in Users : AccountOK(accounts[u])
    /\ DOMAIN epochs = EpochIds
    /\ \A e \in EpochIds : /\ DOMAIN epochs[e] = EpochFields
                           /\ epochs[e].start \in Nat
                           /\ epochs[e].finish \in Nat
                           /\ epochs[e].isSet \in BOOLEAN

\* The epochs set are the first ones, follow each other in time, and those
\* before the current one are over.
EpochsInOrder ==
    /\ now \in Nat
    /\ currentEpoch \in EpochIds /\ nextUnsetEpoch \in EpochIds
    /\ currentEpoch <= nextUnsetEpoch
    /\ \A e \in EpochIds : epochs[e].isSet <=> e < nextUnsetEpoch
    /\ \A e \in EpochIds : epochs[e].isSet => epochs[e].start <= epochs[e].finish
    /\ \A d, e \in EpochIds :
          d < e /\ epochs[e].isSet => epochs[d].finish <= epochs[e].start
    /\ \A d \in EpochIds : d < currentEpoch => epochs[d].finish <= now

OrderInv == ShapesOK /\ EpochsInOrder

\* The current epoch after updateEpoch.
LEMMA CurrentEpoch ==
    ASSUME OrderInv
    PROVE  /\ UpdatedEpoch \in EpochIds
           /\ currentEpoch <= UpdatedEpoch /\ UpdatedEpoch <= nextUnsetEpoch
           /\ ~Over(UpdatedEpoch)
           /\ \A d \in EpochIds : d < UpdatedEpoch => epochs[d].finish <= now
<1> DEFINE Candidates == {e \in currentEpoch..nextUnsetEpoch : ~Over(e)}
<1>1. /\ LastEpoch \in Nat
      /\ currentEpoch \in Nat \ {0} /\ nextUnsetEpoch \in Nat \ {0}
      /\ currentEpoch..nextUnsetEpoch \subseteq EpochIds
      /\ EpochIds \subseteq Nat
  BY LockRewardsAssumption DEF OrderInv, EpochsInOrder, EpochIds
<1>2. nextUnsetEpoch \in Candidates
  BY <1>1 DEF OrderInv, EpochsInOrder, Over
<1>3. PICK m \in Candidates : \A n \in Candidates : m <= n
  BY <1>1, <1>2, LeastNumber
<1>4. /\ m \in currentEpoch..nextUnsetEpoch
      /\ ~Over(m) /\ \A d \in currentEpoch..(m - 1) : Over(d)
  BY <1>1, <1>3
<1>5. /\ UpdatedEpoch \in currentEpoch..nextUnsetEpoch
      /\ ~Over(UpdatedEpoch)
      /\ \A d \in currentEpoch..(UpdatedEpoch - 1) : Over(d)
  BY <1>4 DEF UpdatedEpoch
<1>6. ASSUME NEW d \in EpochIds, d < UpdatedEpoch
      PROVE  epochs[d].finish <= now
  <2>1. CASE d < currentEpoch
    BY <2>1 DEF OrderInv, EpochsInOrder
  <2>2. CASE d >= currentEpoch
    BY <1>1, <1>5, <1>6, <2>2 DEF Over
  <2>3. QED
    BY <1>1, <2>1, <2>2
<1>7. QED
  BY <1>1, <1>5, <1>6

\* A deposit enters no epoch that has started.
LEMMA DepositsWait ==
    ASSUME OrderInv, NEW e \in EpochIds, NextLocked <= e
    PROVE  ~(epochs[e].isSet /\ epochs[e].start <= now)
<1> DEFINE c == UpdatedEpoch
<1>1. /\ c \in EpochIds /\ c \in Nat /\ e \in Nat /\ nextUnsetEpoch \in Nat
      /\ ~Over(c) /\ c <= nextUnsetEpoch
  BY CurrentEpoch, LockRewardsAssumption DEF EpochIds, OrderInv, EpochsInOrder
<1>2. /\ epochs[c].start \in Nat /\ epochs[c].finish \in Nat
      /\ epochs[e].start \in Nat /\ now \in Nat
  BY <1>1 DEF OrderInv, ShapesOK, EpochsInOrder
<1>3. CASE ~epochs[c].isSet
  <2>1. c = nextUnsetEpoch /\ NextLocked = c
    BY <1>1, <1>3 DEF OrderInv, EpochsInOrder, NextLocked
  <2>2. ~epochs[e].isSet
    BY <1>1, <2>1 DEF OrderInv, EpochsInOrder
  <2>3. QED
    BY <2>2
<1>4. CASE epochs[c].isSet /\ (c # 1 \/ epochs[1].start <= now)
  <2>1. NextLocked = c + 1 /\ epochs[c].finish > now
    BY <1>1, <1>2, <1>4 DEF NextLocked, Over
  <2>2. c < e
    BY <1>1, <2>1
  <2>3. epochs[e].isSet => epochs[c].finish <= epochs[e].start
    BY <1>1, <2>2 DEF OrderInv, EpochsInOrder
  <2>4. QED
    BY <1>2, <2>1, <2>3
<1>5. CASE epochs[c].isSet /\ c = 1 /\ ~(epochs[1].start <= now)
  <2>1. CASE e = 1
    BY <1>5, <2>1
  <2>2. CASE e # 1
    <3>1. 1 < e /\ 1 \in EpochIds
      BY <1>1, <1>5, <2>2 DEF EpochIds
    <3>2. epochs[e].isSet => epochs[1].finish <= epochs[e].start
      BY <3>1 DEF OrderInv, EpochsInOrder
    <3>3. epochs[1].start <= epochs[1].finish
      BY <1>5, <3>1 DEF OrderInv, EpochsInOrder
    <3>4. QED
      BY <1>2, <1>5, <3>2, <3>3
  <2>3. QED
    BY <2>1, <2>2
<1>6. QED
  BY <1>3, <1>4, <1>5

\* Crediting epochs to an account counts some of its locks down.
LEMMA CreditCounts ==
    ASSUME OrderInv, NEW u \in Users
    PROVE  Cardinality(CreditedNow(u)) \in Nat
<1>1. /\ FirstUnpaid(u) \in Nat /\ UpdatedEpoch \in Nat
      /\ accounts[u].lockEpochs \in Int
  BY CurrentEpoch, LockRewardsAssumption
     DEF FirstUnpaid, OrderInv, ShapesOK, AccountOK, EpochIds
<1> DEFINE first == FirstUnpaid(u)
           lockedUntil == first + accounts[u].lockEpochs
           limit == IF lockedUntil > UpdatedEpoch THEN UpdatedEpoch
                                                  ELSE lockedUntil
<1>2. first \in Int /\ limit - 1 \in Int
  BY <1>1
<1>3. CreditedNow(u) =
          {e \in first..(limit - 1) : epochs[e].balanceLocked[u] # 0}
  BY DEF CreditedNow
<1> HIDE DEF first, limit
<1>4. IsFiniteSet(first..(limit - 1))
  BY <1>2, FS_Interval
<1>5. IsFiniteSet(CreditedNow(u))
  BY <1>3, <1>4, FS_Subset
<1>6. QED
  BY <1>5, FS_CardinalityType

\* updateReward leaves an account in its shape.
LEMMA UpdatedAccountOK ==
    ASSUME OrderInv, NEW u \in Users
    PROVE  AccountOK(UpdatedAccount(u))
<1>1. /\ DOMAIN accounts[u] = AccountFields
      /\ accounts[u].lockEpochs \in Int
  BY DEF OrderInv, ShapesOK, AccountOK
<1>2. UpdatedEpoch \in Nat
  BY CurrentEpoch, LockRewardsAssumption DEF EpochIds
<1>3. DOMAIN UpdatedAccount(u) = AccountFields
  BY <1>1 DEF UpdatedAccount
<1>4. UpdatedAccount(u).lockEpochs =
          accounts[u].lockEpochs - Cardinality(CreditedNow(u))
  BY <1>1 DEF UpdatedAccount, AccountFields
<1>5. UpdatedAccount(u).lastEpochPaid = UpdatedEpoch
  BY <1>1 DEF UpdatedAccount, AccountFields
<1>6. QED
  BY <1>1, <1>2, <1>3, <1>4, <1>5, CreditCounts DEF AccountOK

\* The times of the epochs do not move.
SameTimes ==
    \A e \in EpochIds : /\ epochs'[e].start = epochs[e].start
                        /\ epochs'[e].finish = epochs[e].finish
                        /\ epochs'[e].isSet = epochs[e].isSet

\* A call that only brings currentEpoch up to date keeps the order.
LEMMA UpdateKeepsOrder ==
    ASSUME OrderInv, SameTimes, UNCHANGED <<now, nextUnsetEpoch>>,
           currentEpoch' = UpdatedEpoch
    PROVE  EpochsInOrder'
  BY CurrentEpoch DEF SameTimes, OrderInv, EpochsInOrder

\* The locks of an epoch that has started.
LockedFixed ==
    \A e \in EpochIds :
        epochs[e].isSet /\ epochs[e].start <= now
        => /\ epochs'[e].balanceLocked = epochs[e].balanceLocked
           /\ epochs'[e].totalLocked = epochs[e].totalLocked

\* A call that touches no epoch but the current one's number.
LEMMA CallKeeps ==
    ASSUME OrderInv, UNCHANGED <<now, epochVars>>, currentEpoch' = UpdatedEpoch,
           DOMAIN accounts' = Users,
           \A u \in Users : AccountOK(accounts'[u])
    PROVE  OrderInv' /\ LockedFixed
<1>1. SameTimes
  BY DEF SameTimes, epochVars
<1>2. EpochsInOrder'
  BY <1>1, UpdateKeepsOrder DEF epochVars
<1>3. ShapesOK'
  BY DEF OrderInv, ShapesOK, epochVars, AccountOK
<1>4. QED
  BY <1>2, <1>3 DEF OrderInv, LockedFixed, epochVars

\* A user's calls other than deposits.
LEMMA UserKeeps ==
    ASSUME OrderInv,
           \/ UpdateEpochs
           \/ \E u \in Users :
                 \/ UpdateAccount(u) \/ ClaimReward(u) \/ Exit(u)
                 \/ \E amount \in Amounts : Withdraw(u, amount)
    PROVE  OrderInv' /\ LockedFixed
<1>1. CASE UpdateEpochs
  BY <1>1, CallKeeps DEF UpdateEpochs, OrderInv, ShapesOK
<1>2. ASSUME NEW u \in Users,
             \/ UpdateAccount(u) \/ ClaimReward(u) \/ Exit(u)
             \/ \E amount \in Amounts : Withdraw(u, amount)
      PROVE  OrderInv' /\ LockedFixed
  <2>1. PICK account : AccountOK(account) /\ UpdateReward(u, account)
    <3>1. AccountOK(UpdatedAccount(u))
      BY UpdatedAccountOK
    <3>2. \A b : AccountOK([UpdatedAccount(u) EXCEPT !.balance = b])
      BY <3>1 DEF AccountOK
    <3>3. \A r : AccountOK([UpdatedAccount(u) EXCEPT !.rewards = r])
      BY <3>1 DEF AccountOK
    <3>4. \A b, r : AccountOK([UpdatedAccount(u) EXCEPT !.balance = b,
                                                        !.rewards = r])
      BY <3>1 DEF AccountOK
    <3>5. CASE UpdateAccount(u)
      BY <3>1, <3>5 DEF UpdateAccount
    <3>6. CASE ClaimReward(u)
      BY <3>3, <3>6 DEF ClaimReward
    <3>7. CASE Exit(u)
      BY <3>4, <3>7 DEF Exit
    <3>8. CASE \E amount \in Amounts : Withdraw(u, amount)
      BY <3>2, <3>8 DEF Withdraw
    <3>9. QED
      BY <1>2, <3>5, <3>6, <3>7, <3>8
  <2>2. /\ DOMAIN accounts' = Users
        /\ \A v \in Users : AccountOK(accounts'[v])
    BY <2>1 DEF UpdateReward, OrderInv, ShapesOK
  <2>3. currentEpoch' = UpdatedEpoch /\ UNCHANGED <<now, epochVars>>
    BY <1>2, <2>1
       DEF UpdateReward, UpdateAccount, ClaimReward, Exit, Withdraw
  <2>4. QED
    BY <2>2, <2>3, CallKeeps
<1>3. QED
  BY <1>1, <1>2

\* A deposit changes the locks of the epochs from NextLocked on.
LEMMA DepositKeeps ==
    ASSUME OrderInv, NEW u \in Users,
           NEW amount \in Amounts, NEW lockEpochs \in LockLengths,
           Deposit(u, amount, lockEpochs)
    PROVE  OrderInv' /\ LockedFixed
<1> DEFINE old == UpdatedAccount(u)
           newBalance == old.balance + amount
           newLock == old.lockEpochs + lockEpochs
           lockBoundary ==
               IF ~epochs[UpdatedEpoch].isSet \/ old.lockEpochs = 0
               THEN newLock ELSE newLock - 1
           locked == NextLocked..(NextLocked + lockBoundary - 1)
<1>1. /\ AccountOK(old) /\ lockEpochs \in Nat
      /\ UpdatedEpoch \in Nat /\ NextLocked \in Nat
  <2>1. UpdatedEpoch \in Nat
    BY CurrentEpoch, LockRewardsAssumption DEF EpochIds
  <2>2. NextLocked \in Nat
    BY <2>1 DEF NextLocked
  <2>3. QED
    BY <2>1, <2>2, UpdatedAccountOK, LockRewardsAssumption
<1>2. lockBoundary \in Int
  BY <1>1 DEF AccountOK
<1>3. \A e \in locked : NextLocked <= e
  BY <1>1, <1>2
<1>4. /\ UpdateReward(u, [old EXCEPT !.balance = newBalance,
                                     !.lockEpochs = newLock])
      /\ epochs' = [e \in EpochIds |->
              IF e \in locked THEN LockIn(epochs[e], u, newBalance)
                              ELSE epochs[e]]
      /\ UNCHANGED <<now, nextUnsetEpoch>>
  BY DEF Deposit
<1> HIDE DEF locked, lockBoundary
<1>5. /\ DOMAIN accounts' = Users
      /\ \A v \in Users : AccountOK(accounts'[v])
  <2>1. AccountOK([old EXCEPT !.balance = newBalance, !.lockEpochs = newLock])
    BY <1>1 DEF AccountOK, AccountFields
  <2>2. QED
    BY <1>4, <2>1 DEF UpdateReward, OrderInv, ShapesOK
<1>6. ASSUME NEW e \in EpochIds
      PROVE  /\ epochs'[e].start = epochs[e].start
             /\ epochs'[e].finish = epochs[e].finish
             /\ epochs'[e].isSet = epochs[e].isSet
             /\ DOMAIN epochs'[e] = EpochFields
             /\ epochs[e].isSet /\ epochs[e].start <= now
                => epochs'[e] = epochs[e]
  <2>1. DOMAIN epochs[e] = EpochFields
    BY DEF OrderInv, ShapesOK
  <2>2. CASE e \in locked
    <3>1. ~(epochs[e].isSet /\ epochs[e].start <= now)
      BY <1>3, <2>2, DepositsWait
    <3>2. epochs'[e] = LockIn(epochs[e], u, newBalance)
      BY <1>4, <2>2
    <3>3. QED
      BY <2>1, <3>1, <3>2 DEF LockIn, EpochFields
  <2>3. CASE e \notin locked
    BY <1>4, <2>1, <2>3
  <2>4. QED
    BY <2>2, <2>3
<1>7. EpochsInOrder'
  <2>1. SameTimes /\ currentEpoch' = UpdatedEpoch
    BY <1>4, <1>6 DEF SameTimes, UpdateReward
  <2>2. QED
    BY <1>4, <2>1, UpdateKeepsOrder
<1>8. ShapesOK'
  BY <1>4, <1>5, <1>6 DEF OrderInv, ShapesOK
<1>9. LockedFixed
  BY <1>6 DEF LockedFixed
<1>10. QED
  BY <1>7, <1>8, <1>9 DEF OrderInv

\* A new epoch starts after the ones before it are over.
LEMMA EpochStartInOrder ==
    ASSUME OrderInv, NEW start \in StartTimes, start >= now
    PROVE  /\ EpochStart(start) \in Nat
           /\ \A d \in EpochIds :
                 d < nextUnsetEpoch => epochs[d].finish <= EpochStart(start)
<1>1. /\ start \in Nat /\ now \in Nat
      /\ nextUnsetEpoch \in EpochIds /\ UpdatedEpoch \in EpochIds
      /\ UpdatedEpoch <= nextUnsetEpoch /\ EpochIds \subseteq Nat
      /\ \A e \in EpochIds : epochs[e].start \in Nat /\ epochs[e].finish \in Nat
  BY CurrentEpoch, LockRewardsAssumption
     DEF OrderInv, ShapesOK, EpochsInOrder, EpochIds
<1>2. CASE UpdatedEpoch = nextUnsetEpoch
  <2>1. EpochStart(start) = start
    BY <1>2 DEF EpochStart
  <2>2. \A d \in EpochIds : d < nextUnsetEpoch => epochs[d].finish <= now
    BY <1>2, CurrentEpoch
  <2>3. QED
    BY <1>1, <2>1, <2>2
<1>3. CASE UpdatedEpoch # nextUnsetEpoch
  <2> DEFINE p == nextUnsetEpoch - 1
  <2>1. p \in EpochIds /\ epochs[p].finish \in Nat
    <3>1. LastEpoch \in Nat
      BY LockRewardsAssumption
    <3>2. p \in EpochIds
      BY <1>1, <1>3, <3>1 DEF EpochIds
    <3>3. QED
      BY <1>1, <3>2
  <2>2. /\ EpochStart(start) \in Nat
        /\ epochs[p].finish <= EpochStart(start)
    BY <1>1, <1>3, <2>1 DEF EpochStart
  <2>3. epochs[p].isSet /\ epochs[p].start <= epochs[p].finish
    BY <1>1, <2>1 DEF OrderInv, EpochsInOrder
  <2>4. ASSUME NEW d \in EpochIds, d < nextUnsetEpoch
        PROVE  epochs[d].finish <= EpochStart(start)
    <3>1. CASE d = p
      BY <2>2, <3>1
    <3>2. CASE d < p
      <4>1. epochs[d].finish <= epochs[p].start
        BY <2>1, <2>3, <3>2 DEF OrderInv, EpochsInOrder
      <4>2. /\ epochs[d].finish \in Nat
            /\ epochs[p].start \in Nat /\ epochs[p].finish \in Nat
        BY <1>1, <2>1
      <4>3. QED
        BY <2>2, <2>3, <4>1, <4>2
    <3>3. d = p \/ d < p
      BY <1>1, <2>4
    <3>4. QED
      BY <3>1, <3>2, <3>3
  <2>5. QED
    BY <2>2, <2>4
<1>4. QED
  BY <1>2, <1>3

\* A call that touches neither the epochs nor the accounts.
LEMMA OthersKeep ==
    ASSUME OrderInv, UNCHANGED <<now, epochVars, accounts, currentEpoch>>
    PROVE  OrderInv' /\ LockedFixed
  BY DEF OrderInv, ShapesOK, EpochsInOrder, AccountOK, LockedFixed, epochVars

\* The passing of time changes no epoch.
LEMMA TickKeeps ==
    ASSUME OrderInv, Tick
    PROVE  OrderInv' /\ LockedFixed
<1>1. /\ UNCHANGED <<epochs, nextUnsetEpoch, accounts, currentEpoch>>
      /\ now' \in Nat /\ now' > now
  BY LockRewardsAssumption DEF Tick, epochVars, rewardVars
<1>2. ShapesOK'
  BY <1>1 DEF OrderInv, ShapesOK, AccountOK
<1>3. ASSUME NEW d \in EpochIds, d < currentEpoch
      PROVE  epochs[d].finish <= now'
  <2>1. epochs[d].finish <= now /\ epochs[d].finish \in Nat /\ now \in Nat
    BY <1>3 DEF OrderInv, ShapesOK, EpochsInOrder
  <2>2. QED
    BY <1>1, <2>1
<1>4. EpochsInOrder'
  BY <1>1, <1>3 DEF OrderInv, EpochsInOrder
<1>5. LockedFixed
  BY <1>1 DEF LockedFixed
<1>6. QED
  BY <1>2, <1>4, <1>5 DEF OrderInv

\* The owner appends an epoch; nobody has a started lock in it.
LEMMA SetNextEpochKeeps ==
    ASSUME OrderInv, NEW rewards \in EpochRewards,
           NEW days \in Durations, NEW start \in StartTimes,
           SetNextEpoch(rewards, days, start)
    PROVE  OrderInv' /\ LockedFixed
<1> DEFINE n == nextUnsetEpoch
           first == EpochStart(start)
           last == first + days * Day
<1>1. /\ now \in Nat /\ n \in EpochIds /\ EpochIds \subseteq Nat
      /\ DOMAIN epochs = EpochIds
      /\ \A e \in EpochIds : epochs[e].isSet <=> e < n
      /\ n <= LastSettable /\ LastEpoch \in Nat
      /\ LastSettable \in 0..(LastEpoch - 1)
  BY LockRewardsAssumption
     DEF OrderInv, ShapesOK, EpochsInOrder, EpochIds, SetNextEpoch
<1>2. /\ first \in Nat
      /\ \A d \in EpochIds : d < n => epochs[d].finish <= first
  BY EpochStartInOrder DEF SetNextEpoch
<1>3. last \in Nat /\ first <= last
  <2>1. days \in Nat /\ Day \in Nat
    BY LockRewardsAssumption
  <2>2. days * Day \in Nat
    BY <2>1
  <2>3. QED
    BY <1>2, <2>2
<1> HIDE DEF first, last
<1>4. /\ epochs' = [epochs EXCEPT ![n].start = first, ![n].finish = last,
                                  ![n].rewards = rewards, ![n].isSet = TRUE]
      /\ nextUnsetEpoch' = n + 1 /\ currentEpoch' = UpdatedEpoch
      /\ UNCHANGED <<now, accounts>>
  BY DEF SetNextEpoch, first, last
<1>5. /\ \A e \in EpochIds : e # n => epochs'[e] = epochs[e]
      /\ epochs'[n].start = first /\ epochs'[n].finish = last
      /\ epochs'[n].isSet = TRUE /\ DOMAIN epochs'[n] = EpochFields
      /\ DOMAIN epochs' = EpochIds
  <2>1. DOMAIN epochs[n] = EpochFields
    BY <1>1 DEF OrderInv, ShapesOK
  <2>2. QED
    BY <1>1, <1>4, <2>1 DEF EpochFields
<1>6. n + 1 \in EpochIds
  BY <1>1 DEF EpochIds
<1>7. ShapesOK'
  <2>1. /\ DOMAIN accounts' = Users
        /\ \A u \in Users : AccountOK(accounts[u])'
    BY <1>4 DEF OrderInv, ShapesOK, AccountOK
  <2>2. ASSUME NEW e \in EpochIds
        PROVE  /\ DOMAIN epochs'[e] = EpochFields
               /\ epochs'[e].start \in Nat
               /\ epochs'[e].finish \in Nat
               /\ epochs'[e].isSet \in BOOLEAN
    <3>1. CASE e = n
      BY <1>2, <1>3, <1>5, <3>1
    <3>2. CASE e # n
      BY <1>5, <3>2 DEF OrderInv, ShapesOK
    <3>3. QED
      BY <3>1, <3>2
  <2>3. QED
    BY <1>5, <2>1, <2>2 DEF ShapesOK
<1>8. /\ UpdatedEpoch \in EpochIds /\ UpdatedEpoch <= n
      /\ \A d \in EpochIds : d < UpdatedEpoch => epochs[d].finish <= now
  BY CurrentEpoch
<1>9. EpochsInOrder'
  <2>1. ASSUME NEW e \in EpochIds
        PROVE  epochs'[e].isSet <=> e < n + 1
    BY <1>1, <1>5
  <2>2. ASSUME NEW e \in EpochIds, epochs'[e].isSet
        PROVE  epochs'[e].start <= epochs'[e].finish
    BY <1>3, <1>5, <2>2 DEF OrderInv, EpochsInOrder
  <2>3. ASSUME NEW d \in EpochIds, NEW e \in EpochIds, d < e,
               epochs'[e].isSet
        PROVE  epochs'[d].finish <= epochs'[e].start
    <3>1. e < n + 1 /\ e \in Nat /\ d \in Nat /\ n \in Nat
      BY <1>1, <2>1, <2>3
    <3>2. d # n /\ d < n
      BY <2>3, <3>1
    <3>3. CASE e = n
      BY <1>2, <1>5, <3>2, <3>3
    <3>4. CASE e # n
      BY <1>5, <2>3, <3>2, <3>4 DEF OrderInv, EpochsInOrder
    <3>5. QED
      BY <3>3, <3>4
  <2>4. ASSUME NEW d \in EpochIds, d < UpdatedEpoch
        PROVE  epochs'[d].finish <= now
    <3>1. d # n
      BY <1>1, <1>8, <2>4
    <3>2. QED
      BY <1>5, <1>8, <2>4, <3>1
  <2>5. UpdatedEpoch <= n + 1
    <3>1. UpdatedEpoch \in Nat /\ n \in Nat /\ UpdatedEpoch <= n
      BY <1>1, <1>8
    <3>2. QED
      BY <3>1
  <2>6. QED
    BY <1>1, <1>4, <1>6, <1>8, <2>1, <2>2, <2>3, <2>4, <2>5
       DEF EpochsInOrder
<1>10. LockedFixed
  BY <1>1, <1>5 DEF LockedFixed
<1>11. QED
  BY <1>7, <1>9, <1>10 DEF OrderInv

\* Every step keeps the order and the locks of the epochs that have started.
LEMMA StepKeeps ==
    ASSUME OrderInv, [Next]_vars
    PROVE  OrderInv' /\ LockedFixed
<1>1. CASE Tick
  BY <1>1, TickKeeps
<1>2. CASE UserNext
  <2>1. CASE \E u \in Users, amount \in Amounts, lockEpochs \in LockLengths :
                Deposit(u, amount, lockEpochs)
    BY <2>1, DepositKeeps
  <2>2. QED
    BY <1>2, <2>1, UserKeeps DEF UserNext
<1>3. CASE OwnerNext
  <2>1. CASE \E rewards \in EpochRewards, days \in Durations,
                start \in StartTimes : SetNextEpoch(rewards, days, start)
    BY <2>1, SetNextEpochKeeps
  <2>2. CASE UNCHANGED <<now, epochVars, accounts, currentEpoch>>
    BY <2>2, OthersKeep
  <2>3. QED
    BY <1>3, <2>1, <2>2
       DEF OwnerNext, RecoverERC20, ChangeRecoverWhitelist, ChangeEnforceTime,
           ChangeMaxEpochs, SetPaused, rewardVars
<1>4. CASE \E t \in RewardTokens : \E amount \in Fundings[t] :
              FundRewards(t, amount)
  <2>1. UNCHANGED <<now, epochVars, accounts, currentEpoch>>
    BY <1>4 DEF FundRewards, rewardVars
  <2>2. QED
    BY <2>1, OthersKeep
<1>5. CASE UNCHANGED vars
  <2>1. UNCHANGED <<now, epochVars, accounts, currentEpoch>>
    BY <1>5 DEF vars, rewardVars
  <2>2. QED
    BY <2>1, OthersKeep
<1>6. QED
  BY <1>1, <1>2, <1>3, <1>4, <1>5 DEF Next

\* Before the first epoch is set there is nothing to be out of order.
LEMMA InitInOrder ==
    ASSUME Init
    PROVE  OrderInv
<1>1. /\ now \in Nat /\ 1 \in EpochIds /\ EpochIds \subseteq Nat \ {0}
  BY LockRewardsAssumption DEF Init, EpochIds
<1>2. ShapesOK
  <2>1. DOMAIN accounts = Users /\ DOMAIN epochs = EpochIds
    BY DEF Init
  <2>2. ASSUME NEW u \in Users PROVE AccountOK(accounts[u])
    <3>1. accounts[u] = [balance |-> 0, lockEpochs |-> 0,
                         lastEpochPaid |-> 0, rewards |-> NoRewards]
      BY DEF Init
    <3>2. QED
      BY <3>1 DEF AccountOK, AccountFields
  <2>3. ASSUME NEW e \in EpochIds
        PROVE  /\ DOMAIN epochs[e] = EpochFields
               /\ epochs[e].start \in Nat /\ epochs[e].finish \in Nat
               /\ epochs[e].isSet \in BOOLEAN
    <3>1. epochs[e] = [start |-> 0, finish |-> 0, totalLocked |-> 0,
                       balanceLocked |-> [u \in Users |-> 0],
                       rewards |-> NoRewards, isSet |-> FALSE]
      BY DEF Init
    <3>2. QED
      BY <3>1 DEF EpochFields
  <2>4. QED
    BY <2>1, <2>2, <2>3 DEF ShapesOK
<1>3. EpochsInOrder
  BY <1>1 DEF Init, EpochsInOrder
<1>4. QED
  BY <1>2, <1>3 DEF OrderInv

\* For any users, amounts, lock lengths, durations and start times: once an
\* epoch has started, nobody's lock in it changes (deposit and
\* setNextEpoch_start of LockRewards.sol).
THEOREM LocksFixed == Spec => LockedBeforeStart
<1>1. OrderInv /\ [Next]_vars => OrderInv'
  BY StepKeeps
<1>2. OrderInv /\ [Next]_vars
      => [\A e \in EpochIds :
            epochs[e].isSet /\ epochs[e].start <= now
            => /\ epochs'[e].balanceLocked = epochs[e].balanceLocked
               /\ epochs'[e].totalLocked = epochs[e].totalLocked]_vars
  BY StepKeeps DEF LockedFixed
<1>3. QED
  BY <1>1, <1>2, InitInOrder, PTL DEF Spec, LockedBeforeStart

-----------------------------------------------------------------------------
(* What the locks of an epoch are worth.                                   *)

\* Products over sums and differences.
LEMMA Distributes ==
    ASSUME NEW a \in Int, NEW b \in Int, NEW c \in Int
    PROVE  /\ a * (b + c) = a * b + a * c /\ a * (b - c) = a * b - a * c
           /\ a * b = b * a /\ a * b \in Int
           /\ (a \in Nat /\ b \in Nat => a * b \in Nat)
  OBVIOUS

\* Dividing and multiplying again does not go above the dividend.
LEMMA QuotientBelow ==
    ASSUME NEW a \in Nat, NEW c \in Nat \ {0}
    PROVE  a \div c \in Nat /\ c * (a \div c) <= a
  BY SMT

\* A product grows with its second factor.
LEMMA ProductsOrdered ==
    ASSUME NEW a \in Int, NEW b \in Int, NEW c \in Nat, a <= b
    PROVE  c * a <= c * b
  OBVIOUS

\* A positive common factor can be cancelled.
LEMMA FactorsOrdered ==
    ASSUME NEW a \in Int, NEW b \in Int, NEW c \in Nat \ {0}, c * a <= c * b
    PROVE  a <= b
<1>1. ASSUME b + 1 <= a PROVE FALSE
  <2>1. c * (b + 1) <= c * a
    BY <1>1, ProductsOrdered
  <2>2. c * (b + 1) = c * b + c
    OBVIOUS
  <2>3. c * b \in Int /\ c * a \in Int
    OBVIOUS
  <2>4. QED
    BY <2>1, <2>2, <2>3
<1>2. QED
  BY <1>1

\* The sums are over accounts and over epochs.
LEMMA SumsAreFinite == IsFiniteSet(Users) /\ IsFiniteSet(EpochIds) /\ EpochIds \subseteq Nat
  BY FiniteAssumption, LockRewardsAssumption, FS_Interval DEF EpochIds

\* Epochs typed with locks that add up.
EpochsAddUp == epochs \in [EpochIds -> Epoch] /\ LocksAddUp

\* The types of one epoch's fields, and its total as a sum.
LEMMA EpochFieldsTyped ==
    ASSUME EpochsAddUp, NEW e \in EpochIds
    PROVE  /\ epochs[e] \in Epoch
           /\ epochs[e].balanceLocked \in [Users -> Nat]
           /\ epochs[e].totalLocked \in Nat
           /\ epochs[e].rewards \in [RewardTokens -> Nat]
           /\ epochs[e].totalLocked = SumFunctionOnSet(epochs[e].balanceLocked, Users)
<1>1. /\ epochs[e] \in Epoch
      /\ epochs[e].balanceLocked \in [Users -> Nat]
      /\ epochs[e].totalLocked \in Nat
      /\ epochs[e].rewards \in [RewardTokens -> Nat]
  BY DEF EpochsAddUp, Epoch
<1>2. QED
  BY <1>1 DEF EpochsAddUp, LocksAddUp, SumFunction

\* A user with a lock in an epoch has a share of its rewards: the total it is
\* divided by is not 0.
LEMMA PartTyped ==
    ASSUME EpochsAddUp, NEW e \in EpochIds, NEW u \in Users, NEW t \in RewardTokens,
           epochs[e].balanceLocked[u] # 0
    PROVE  /\ epochs[e].totalLocked \in Nat \ {0}
           /\ Share(e, u) \in Nat /\ Part(e, u, t) \in Nat
           /\ epochs[e].totalLocked * Share(e, u) <= WAD * epochs[e].balanceLocked[u]
           /\ WAD * Part(e, u, t) <= epochs[e].rewards[t] * Share(e, u)
<1> DEFINE bal == epochs[e].balanceLocked[u]
           tot == epochs[e].totalLocked
           rew == epochs[e].rewards[t]
<1>1. bal \in Nat \ {0} /\ tot \in Nat /\ rew \in Nat /\ WAD \in Nat \ {0}
  BY EpochFieldsTyped, LockRewardsAssumption
<1>2. bal <= tot
  BY EpochFieldsTyped, SumsAreFinite, SumBoundsElement
<1>3. tot \in Nat \ {0}
  BY <1>1, <1>2
<1>4. bal * WAD \in Nat /\ bal * WAD = WAD * bal
  BY <1>1, Distributes
<1>5. Share(e, u) = (bal * WAD) \div tot
  BY DEF Share, MulDivDown
<1>6. Share(e, u) \in Nat /\ tot * Share(e, u) <= bal * WAD
  BY <1>3, <1>4, <1>5, QuotientBelow
<1>7. Share(e, u) * rew \in Nat /\ Share(e, u) * rew = rew * Share(e, u)
  BY <1>1, <1>6, Distributes
<1>8. Part(e, u, t) = (Share(e, u) * rew) \div WAD
  BY DEF Part, MulDivDown
<1>9. Part(e, u, t) \in Nat /\ WAD * Part(e, u, t) <= Share(e, u) * rew
  BY <1>1, <1>7, <1>8, QuotientBelow
<1>10. QED
  BY <1>3, <1>4, <1>6, <1>7, <1>9

\* Credits are for epochs with a lock in them.
CreditsLocked ==
    /\ credited \in [Users -> SUBSET EpochIds]
    /\ \A u \in Users : \A e \in credited[u] : epochs[e].balanceLocked[u] # 0

\* The parts of one epoch's reward that are credited, and their sum, are naturals.
LEMMA PartPaidTyped ==
    ASSUME EpochsAddUp, CreditsLocked, NEW e \in EpochIds, NEW t \in RewardTokens
    PROVE  /\ \A u \in Users : PartPaid(e, u, t) \in Nat
           /\ EpochPaid(e, t) = SumFunctionOnSet([u \in Users |-> PartPaid(e, u, t)], Users)
           /\ EpochPaid(e, t) \in Nat
<1> DEFINE parts == [u \in Users |-> PartPaid(e, u, t)]
<1>1. \A u \in Users : PartPaid(e, u, t) \in Nat
  BY PartTyped DEF PartPaid, CreditsLocked
<1>2. EpochPaid(e, t) = SumFunctionOnSet(parts, Users)
  BY DEF EpochPaid, SumFunction
<1>3. \A u \in Users : parts[u] \in Nat
  BY <1>1
<1> HIDE DEF parts
<1>4. SumFunctionOnSet(parts, Users) \in Nat
  BY <1>3, SumsAreFinite, SumNat
<1>5. QED
  BY <1>1, <1>2, <1>4 DEF parts

\* Rounding every share and every part down, the users together get no more
\* than the epoch has to give.
LEMMA EpochNotOverpaid ==
    ASSUME EpochsAddUp, CreditsLocked, NEW e \in EpochIds, NEW t \in RewardTokens
    PROVE  EpochPaid(e, t) <= epochs[e].rewards[t]
<1> DEFINE paidTo == {u \in Users : e \in credited[u]}
           parts  == [u \in Users |-> PartPaid(e, u, t)]
           locks  == epochs[e].balanceLocked
           tot    == epochs[e].totalLocked
           rew    == epochs[e].rewards[t]
           shares == [u \in Users |-> IF u \in paidTo THEN Share(e, u) ELSE 0]
<1>1. /\ locks \in [Users -> Nat] /\ tot \in Nat /\ rew \in Nat
      /\ WAD \in Nat \ {0} /\ IsFiniteSet(Users)
      /\ tot = SumFunctionOnSet(locks, Users)
      /\ EpochPaid(e, t) = SumFunctionOnSet(parts, Users)
      /\ EpochPaid(e, t) \in Nat
  BY EpochFieldsTyped, PartPaidTyped, SumsAreFinite, LockRewardsAssumption
<1>2. CASE paidTo = {}
  <2>1. \A u \in Users : parts[u] = 0
    BY <1>2 DEF PartPaid
  <2> HIDE DEF parts
  <2>2. SumFunctionOnSet(parts, Users) = 0
    BY <1>1, <2>1, SumZero
  <2>3. QED
    BY <1>1, <2>2
<1>3. CASE paidTo # {}
  <2>1. \A u \in paidTo : /\ locks[u] # 0 /\ tot \in Nat \ {0}
                          /\ Share(e, u) \in Nat /\ Part(e, u, t) \in Nat
                          /\ tot * Share(e, u) <= WAD * locks[u]
                          /\ WAD * Part(e, u, t) <= rew * Share(e, u)
    BY PartTyped DEF CreditsLocked
  <2>2. tot \in Nat \ {0}
    BY <1>3, <2>1
  <2>3. \A u \in Users : shares[u] \in Nat /\ parts[u] \in Nat
    BY <2>1, PartPaidTyped
  <2> DEFINE totShares == [u \in Users |-> tot * shares[u]]
             wadLocks  == [u \in Users |-> WAD * locks[u]]
             wadParts  == [u \in Users |-> WAD * parts[u]]
             rewShares == [u \in Users |-> rew * shares[u]]
  <2>4. \A u \in Users : totShares[u] <= wadLocks[u] /\ wadParts[u] <= rewShares[u]
    <3> SUFFICES ASSUME NEW u \in Users
                 PROVE  tot * shares[u] <= WAD * locks[u] /\ WAD * parts[u] <= rew * shares[u]
      OBVIOUS
    <3>1. CASE u \in paidTo
      <4>1. shares[u] = Share(e, u) /\ parts[u] = Part(e, u, t)
        BY <3>1 DEF PartPaid
      <4>2. QED
        BY <2>1, <3>1, <4>1
    <3>2. CASE u \notin paidTo
      <4>1. shares[u] = 0 /\ parts[u] = 0
        BY <3>2 DEF PartPaid
      <4>2. WAD * locks[u] \in Nat /\ tot * 0 = 0 /\ WAD * 0 = 0 /\ rew * 0 = 0
        <5>1. locks[u] \in Nat
          BY <1>1
        <5>2. QED
          BY <1>1, <5>1, Distributes
      <4>3. QED
        BY <4>1, <4>2
    <3>3. QED
      BY <3>1, <3>2
  <2> HIDE DEF shares, parts, locks, tot, rew
  <2>5. \A u \in Users : /\ shares[u] \in Int /\ parts[u] \in Int /\ locks[u] \in Int
                         /\ totShares[u] = tot * shares[u] /\ wadLocks[u] = WAD * locks[u]
                         /\ wadParts[u] = WAD * parts[u] /\ rewShares[u] = rew * shares[u]
    BY <1>1, <2>3
  <2>6. \A u \in Users : /\ totShares[u] \in Int /\ wadLocks[u] \in Int
                         /\ wadParts[u] \in Int /\ rewShares[u] \in Int
    BY <1>1, <2>5, Distributes
  <2> HIDE DEF totShares, wadLocks, wadParts, rewShares
  <2>7. /\ SumFunctionOnSet(totShares, Users) = tot * SumFunctionOnSet(shares, Users)
        /\ SumFunctionOnSet(wadLocks, Users) = WAD * SumFunctionOnSet(locks, Users)
        /\ SumFunctionOnSet(wadParts, Users) = WAD * SumFunctionOnSet(parts, Users)
        /\ SumFunctionOnSet(rewShares, Users) = rew * SumFunctionOnSet(shares, Users)
    <3>1. tot \in Int /\ WAD \in Int /\ rew \in Int
      BY <1>1
    <3>2. QED
      BY <1>1, <2>5, <3>1, SumScale
  <2>8. /\ SumFunctionOnSet(totShares, Users) <= SumFunctionOnSet(wadLocks, Users)
        /\ SumFunctionOnSet(wadParts, Users) <= SumFunctionOnSet(rewShares, Users)
    BY <1>1, <2>4, <2>6, SumMono
  <2>9. SumFunctionOnSet(shares, Users) \in Int
    BY <1>1, <2>5, SumInt
  <2>10. SumFunctionOnSet(shares, Users) <= WAD
    <3>1. tot * SumFunctionOnSet(shares, Users) <= tot * WAD
      BY <1>1, <2>7, <2>8, Distributes
    <3>2. QED
      BY <1>1, <2>2, <2>9, <3>1, FactorsOrdered
  <2>11. WAD * EpochPaid(e, t) <= WAD * rew
    <3>1. rew * SumFunctionOnSet(shares, Users) <= rew * WAD
      BY <1>1, <2>9, <2>10, ProductsOrdered
    <3>2. WAD * EpochPaid(e, t) <= rew * SumFunctionOnSet(shares, Users)
      BY <1>1, <2>7, <2>8
    <3>3. /\ WAD * EpochPaid(e, t) \in Int /\ rew * SumFunctionOnSet(shares, Users) \in Int
          /\ rew * WAD = WAD * rew /\ rew * WAD \in Int
      BY <1>1, <2>9, Distributes
    <3>4. QED
      BY <3>1, <3>2, <3>3
  <2>12. EpochPaid(e, t) <= rew
    <3>1. EpochPaid(e, t) \in Int /\ rew \in Int
      BY <1>1
    <3>2. QED
      BY <1>1, <2>11, <3>1, FactorsOrdered
  <2>13. QED
    BY <2>12 DEF rew
<1>4. QED
  BY <1>2, <1>3

-----------------------------------------------------------------------------
(* What updateReward credits.                                              *)

\* The epochs credited are over, have not been credited before, and are no
\* more than the account has left to lock.
LEMMA CreditsDue ==
    ASSUME OrderInv, TypeOK, NEW u \in Users
    PROVE  /\ CreditedNow(u) \subseteq EpochIds
           /\ \A e \in CreditedNow(u) : /\ e < UpdatedEpoch
                                        /\ accounts[u].lastEpochPaid <= e
                                        /\ epochs[e].balanceLocked[u] # 0
           /\ IsFiniteSet(CreditedNow(u))
           /\ Cardinality(CreditedNow(u)) \in 0 .. accounts[u].lockEpochs
<1> DEFINE first == FirstUnpaid(u)
           lockedUntil == first + accounts[u].lockEpochs
           limit == IF lockedUntil > UpdatedEpoch THEN UpdatedEpoch
                                                  ELSE lockedUntil
<1>1. /\ accounts[u].lastEpochPaid \in Nat /\ accounts[u].lockEpochs \in Nat
      /\ UpdatedEpoch \in EpochIds /\ LastEpoch \in Nat
  BY CurrentEpoch, LockRewardsAssumption DEF TypeOK, Account
<1>2. /\ first \in Nat \ {0} /\ accounts[u].lastEpochPaid <= first
  BY <1>1 DEF FirstUnpaid
<1>3. CreditedNow(u) = {e \in first..(limit - 1) : epochs[e].balanceLocked[u] # 0}
  BY DEF CreditedNow
<1>4. limit \in Int /\ limit <= UpdatedEpoch /\ limit <= first + accounts[u].lockEpochs
  BY <1>1, <1>2 DEF EpochIds
<1> HIDE DEF first, limit
<1>5. \A e \in first..(limit - 1) : /\ e \in EpochIds /\ e < UpdatedEpoch
                                    /\ accounts[u].lastEpochPaid <= e
  BY <1>1, <1>2, <1>4 DEF EpochIds
<1>6. /\ IsFiniteSet(first..(limit - 1))
      /\ Cardinality(first..(limit - 1)) =
            IF first > limit - 1 THEN 0 ELSE (limit - 1) - first + 1
  <2>1. first \in Int /\ limit - 1 \in Int
    BY <1>2, <1>4
  <2>2. QED
    BY <2>1, FS_Interval
<1>7. /\ IsFiniteSet(CreditedNow(u)) /\ Cardinality(CreditedNow(u)) \in Nat
      /\ Cardinality(CreditedNow(u)) <= Cardinality(first..(limit - 1))
  BY <1>3, <1>6, FS_Subset, FS_CardinalityType
<1>8. Cardinality(CreditedNow(u)) <= accounts[u].lockEpochs
  BY <1>1, <1>2, <1>4, <1>6, <1>7
<1>9. QED
  BY <1>1, <1>3, <1>5, <1>7, <1>8

\* What updateReward credits is the sum of the parts of the epochs credited.
LEMMA RewardPaidTyped ==
    ASSUME OrderInv, TypeOK, LocksAddUp, NEW u \in Users, NEW t \in RewardTokens
    PROVE  /\ RewardPaid(u, t, CreditedNow(u))
                = SumFunctionOnSet([e \in CreditedNow(u) |-> Part(e, u, t)], CreditedNow(u))
           /\ RewardPaid(u, t, CreditedNow(u)) \in Nat
<1> DEFINE parts == [e \in CreditedNow(u) |-> Part(e, u, t)]
<1>1. RewardPaid(u, t, CreditedNow(u)) = SumFunctionOnSet(parts, CreditedNow(u))
  BY DEF RewardPaid, Part, SumFunction
<1>2. \A e \in CreditedNow(u) : parts[e] \in Nat
  BY CreditsDue, PartTyped DEF EpochsAddUp, TypeOK
<1> HIDE DEF parts
<1>3. SumFunctionOnSet(parts, CreditedNow(u)) \in Nat
  BY <1>2, CreditsDue, SumNat
<1>4. QED
  BY <1>1, <1>3 DEF parts

\* updateReward changes the rewards of an account and the epoch it is paid to.
LEMMA UpdatedAccountTyped ==
    ASSUME OrderInv, TypeOK, LocksAddUp, NEW u \in Users
    PROVE  /\ UpdatedAccount(u) \in Account
           /\ UpdatedAccount(u).balance = accounts[u].balance
           /\ UpdatedAccount(u).lastEpochPaid = UpdatedEpoch
<1>1. accounts[u] \in Account
  BY DEF TypeOK
<1>2. UpdatedEpoch \in Nat
  BY CurrentEpoch, SumsAreFinite
<1>3. accounts[u].lockEpochs - Cardinality(CreditedNow(u)) \in Nat
  BY <1>1, CreditsDue DEF Account
<1>4. [t \in RewardTokens |-> accounts[u].rewards[t] + RewardPaid(u, t, CreditedNow(u))]
          \in [RewardTokens -> Nat]
  <2>1. \A t \in RewardTokens : /\ accounts[u].rewards[t] \in Nat
                                /\ RewardPaid(u, t, CreditedNow(u)) \in Nat
    BY <1>1, RewardPaidTyped DEF Account
  <2>2. QED
    BY <2>1
<1>5. UpdatedAccount(u) =
          [accounts[u] EXCEPT
            !.lockEpochs = accounts[u].lockEpochs - Cardinality(CreditedNow(u)),
            !.lastEpochPaid = UpdatedEpoch,
            !.rewards = [t \in RewardTokens |->
                accounts[u].rewards[t] + RewardPaid(u, t, CreditedNow(u))]]
  BY <1>1 DEF UpdatedAccount, Account
<1>6. QED
  BY <1>1, <1>2, <1>3, <1>4, <1>5 DEF Account

-----------------------------------------------------------------------------
(* The epochs.                                                             *)

\* What an epoch that is over is worth to those who locked in it.
WorthFixed ==
    \A e \in EpochIds :
        e < UpdatedEpoch => /\ epochs'[e].balanceLocked = epochs[e].balanceLocked
                            /\ epochs'[e].totalLocked = epochs[e].totalLocked
                            /\ epochs'[e].rewards = epochs[e].rewards

\* The epochs before the current one have started.
LEMMA OverHasStarted ==
    ASSUME OrderInv, NEW e \in EpochIds, e < UpdatedEpoch
    PROVE  epochs[e].isSet /\ epochs[e].start <= now
<1>1. /\ UpdatedEpoch \in Nat /\ nextUnsetEpoch \in Nat /\ e \in Nat
      /\ UpdatedEpoch <= nextUnsetEpoch /\ epochs[e].finish <= now
  BY CurrentEpoch, SumsAreFinite DEF OrderInv, EpochsInOrder
<1>2. epochs[e].isSet
  BY <1>1 DEF OrderInv, EpochsInOrder
<1>3. /\ epochs[e].start <= epochs[e].finish /\ now \in Nat
      /\ epochs[e].start \in Nat /\ epochs[e].finish \in Nat
  BY <1>2 DEF OrderInv, EpochsInOrder, ShapesOK
<1>4. QED
  BY <1>1, <1>2, <1>3

\* Locking changes the lock of one user and the total by the same amount.
LEMMA LockInAddsUp ==
    ASSUME EpochsAddUp, NEW e \in EpochIds, NEW u \in Users, NEW newBalance \in Nat,
           newBalance >= epochs[e].balanceLocked[u]
    PROVE  /\ LockIn(epochs[e], u, newBalance) \in Epoch
           /\ LockIn(epochs[e], u, newBalance).totalLocked
                = SumFunction(LockIn(epochs[e], u, newBalance).balanceLocked)
           /\ LockIn(epochs[e], u, newBalance).rewards = epochs[e].rewards
           /\ LockIn(epochs[e], u, newBalance).isSet = epochs[e].isSet
<1> DEFINE locks == epochs[e].balanceLocked
           after == [locks EXCEPT ![u] = newBalance]
           tot   == epochs[e].totalLocked
<1>1. /\ epochs[e] \in Epoch /\ locks \in [Users -> Nat] /\ tot \in Nat
      /\ tot = SumFunctionOnSet(locks, Users)
  BY EpochFieldsTyped
<1>2. LockIn(epochs[e], u, newBalance)
          = [epochs[e] EXCEPT !.totalLocked = tot + newBalance - locks[u],
                              !.balanceLocked = after]
  BY <1>1 DEF LockIn, Epoch
<1>3. after \in [Users -> Nat] /\ tot + newBalance - locks[u] \in Nat
  BY <1>1
<1>4. SumFunctionOnSet(after, Users) = tot + newBalance - locks[u]
  <2>1. /\ \A v \in Users : locks[v] \in Int /\ after[v] \in Int
        /\ \A v \in Users \ {u} : after[v] = locks[v]
        /\ after[u] = newBalance
    BY <1>1, <1>3
  <2> HIDE DEF locks, after
  <2>2. SumFunctionOnSet(after, Users)
            = SumFunctionOnSet(locks, Users) + after[u] - locks[u]
    BY <2>1, SumsAreFinite, SumChange
  <2>3. QED
    BY <1>1, <2>1, <2>2
<1>5. SumFunction(after) = SumFunctionOnSet(after, Users)
  BY <1>1 DEF SumFunction
<1>6. QED
  BY <1>1, <1>2, <1>3, <1>4, <1>5 DEF Epoch

SamePromises ==
    \A t \in RewardTokens : rewardToken'[t].rewards = rewardToken[t].rewards

\* Everything about the epochs that a step keeps.
EpochsKept == /\ epochs' \in [EpochIds -> Epoch] /\ LocksAddUp'
              /\ WorthFixed
              /\ SamePromises => PromisesAddUp'

\* A step that leaves the epochs alone keeps their sums.
LEMMA SameEpochsKept ==
    ASSUME TypeOK, LocksAddUp, PromisesAddUp, UNCHANGED epochs
    PROVE  EpochsKept
  BY DEF EpochsKept, TypeOK, LocksAddUp, WorthFixed, PromisesAddUp, SamePromises

\* A deposit adds what it locks in an epoch to the epoch's total.
LEMMA DepositKeepsEpochs ==
    ASSUME OrderInv, TypeOK, LocksAddUp, PromisesAddUp,
           NEW u \in Users, NEW amount \in Amounts, NEW lockEpochs \in LockLengths,
           Deposit(u, amount, lockEpochs)
    PROVE  EpochsKept
<1> DEFINE newBalance == UpdatedAccount(u).balance + amount
<1>1. newBalance \in Nat
  BY UpdatedAccountTyped, LockRewardsAssumption DEF Account
<1>2. PICK locked \in SUBSET EpochIds :
          /\ \A e \in locked : newBalance >= epochs[e].balanceLocked[u]
          /\ epochs' = [e \in EpochIds |->
                IF e \in locked THEN LockIn(epochs[e], u, newBalance) ELSE epochs[e]]
  BY DEF Deposit
<1> HIDE DEF newBalance
<1>3. ASSUME NEW e \in EpochIds
      PROVE  /\ epochs'[e] \in Epoch
             /\ epochs'[e].totalLocked = SumFunction(epochs'[e].balanceLocked)
             /\ epochs'[e].rewards = epochs[e].rewards
             /\ epochs'[e].isSet = epochs[e].isSet
  <2>1. CASE e \in locked
    <3>1. epochs'[e] = LockIn(epochs[e], u, newBalance)
      BY <1>2, <2>1
    <3>2. EpochsAddUp
      BY DEF EpochsAddUp, TypeOK
    <3>3. newBalance >= epochs[e].balanceLocked[u]
      BY <1>2, <2>1
    <3>4. QED
      BY <1>1, <3>1, <3>2, <3>3, LockInAddsUp
  <2>2. CASE e \notin locked
    BY <1>2, <2>2 DEF TypeOK, LocksAddUp
  <2>3. QED
    BY <2>1, <2>2
<1>4. epochs' \in [EpochIds -> Epoch]
  BY <1>2, <1>3
<1>5. LocksAddUp'
  BY <1>3 DEF LocksAddUp
<1>6. WorthFixed
  BY <1>3, DepositKeeps, OverHasStarted DEF WorthFixed, LockedFixed
<1>7. SamePromises => PromisesAddUp'
  <2>1. \A t \in RewardTokens : [e \in EpochIds |-> epochs'[e].rewards[t]]
                                  = [e \in EpochIds |-> epochs[e].rewards[t]]
    BY <1>3
  <2>2. QED
    BY <1>3, <2>1 DEF PromisesAddUp, SamePromises
<1>8. QED
  BY <1>4, <1>5, <1>6, <1>7 DEF EpochsKept

\* A new epoch has no locks but those deposits have already put there, and its
\* rewards are what the owner promises with it.
LEMMA SetNextEpochKeepsEpochs ==
    ASSUME OrderInv, TypeOK, LocksAddUp, PromisesAddUp,
           NEW rewards \in EpochRewards, NEW days \in Durations, NEW start \in StartTimes,
           SetNextEpoch(rewards, days, start)
    PROVE  EpochsKept /\ PromisesAddUp'
<1> DEFINE n == nextUnsetEpoch
           first == EpochStart(start)
           last == first + days * Day
<1>1. /\ n \in EpochIds /\ epochs[n] \in Epoch
      /\ rewards \in [RewardTokens -> Nat]
      /\ ~epochs[n].isSet
  <2>1. n \in Nat
    BY SumsAreFinite DEF TypeOK
  <2>2. QED
    BY <2>1, LockRewardsAssumption DEF TypeOK, OrderInv, EpochsInOrder
<1>2. first \in Nat /\ last \in Nat
  <2>1. first \in Nat
    BY EpochStartInOrder DEF SetNextEpoch
  <2>2. days * Day \in Nat
    BY LockRewardsAssumption, Distributes
  <2>3. QED
    BY <2>1, <2>2
<1>3. /\ epochs' = [epochs EXCEPT ![n].start = first, ![n].finish = last,
                                  ![n].rewards = rewards, ![n].isSet = TRUE]
      /\ rewardToken' = [t \in RewardTokens |->
            [rewardToken[t] EXCEPT !.rewards = @ + rewards[t]]]
  BY DEF SetNextEpoch
<1> HIDE DEF first, last
<1>4. /\ \A e \in EpochIds \ {n} : epochs'[e] = epochs[e]
      /\ epochs'[n] \in Epoch
      /\ epochs'[n].rewards = rewards /\ epochs'[n].isSet = TRUE
      /\ epochs'[n].balanceLocked = epochs[n].balanceLocked
      /\ epochs'[n].totalLocked = epochs[n].totalLocked
      /\ epochs' \in [EpochIds -> Epoch]
  <2>1. epochs'[n] = [epochs[n] EXCEPT !.start = first, !.finish = last,
                                       !.rewards = rewards, !.isSet = TRUE]
    BY <1>1, <1>3 DEF TypeOK, Epoch
  <2>2. /\ epochs'[n] \in Epoch
        /\ epochs'[n].rewards = rewards /\ epochs'[n].isSet = TRUE
        /\ epochs'[n].balanceLocked = epochs[n].balanceLocked
        /\ epochs'[n].totalLocked = epochs[n].totalLocked
    BY <1>1, <1>2, <2>1 DEF Epoch
  <2>3. \A e \in EpochIds \ {n} : epochs'[e] = epochs[e]
    BY <1>3 DEF TypeOK
  <2>4. DOMAIN epochs' = EpochIds /\ epochs' = [e \in EpochIds |-> epochs'[e]]
    BY <1>3 DEF TypeOK
  <2>5. \A e \in EpochIds : epochs'[e] \in Epoch
    BY <2>2, <2>3 DEF TypeOK
  <2>6. QED
    BY <2>2, <2>3, <2>4, <2>5
<1>5. LocksAddUp'
  BY <1>4 DEF LocksAddUp
<1>6. WorthFixed
  <2>1. UpdatedEpoch <= n /\ UpdatedEpoch \in Nat /\ n \in Nat
    BY <1>1, CurrentEpoch, SumsAreFinite
  <2>2. \A e \in EpochIds : e < UpdatedEpoch => e # n
    BY <2>1
  <2>3. QED
    BY <1>4, <2>2 DEF WorthFixed
<1>7. PromisesAddUp'
  <2>1. \A e \in EpochIds : epochs'[e].isSet \/ epochs'[e].rewards = NoRewards
    BY <1>4 DEF PromisesAddUp
  <2>2. ASSUME NEW t \in RewardTokens
        PROVE  rewardToken'[t].rewards = SumFunction([e \in EpochIds |-> epochs'[e].rewards[t]])
    <3> DEFINE before == [e \in EpochIds |-> epochs[e].rewards[t]]
               after  == [e \in EpochIds |-> epochs'[e].rewards[t]]
    <3>1. \A e \in EpochIds : before[e] \in Int /\ after[e] \in Int
      BY <1>4 DEF TypeOK, Epoch
    <3>2. \A e \in EpochIds \ {n} : after[e] = before[e]
      BY <1>4
    <3>3. before[n] = 0 /\ after[n] = rewards[t]
      BY <1>1, <1>4 DEF PromisesAddUp, NoRewards
    <3>4. SumFunction(before) = SumFunctionOnSet(before, EpochIds)
          /\ SumFunction(after) = SumFunctionOnSet(after, EpochIds)
      BY DEF SumFunction
    <3>5. rewardToken[t].rewards = SumFunction(before)
      BY DEF PromisesAddUp
    <3> HIDE DEF before, after
    <3>6. SumFunctionOnSet(after, EpochIds)
              = SumFunctionOnSet(before, EpochIds) + after[n] - before[n]
      <4>1. n \in EpochIds /\ IsFiniteSet(EpochIds)
        BY <1>1, SumsAreFinite
      <4> HIDE DEF n
      <4>2. QED
        BY <3>1, <3>2, <4>1, SumChange
    <3>7. SumFunctionOnSet(before, EpochIds) \in Int
      BY <3>1, SumsAreFinite, SumInt
    <3>8. rewardToken'[t].rewards = rewardToken[t].rewards + rewards[t]
      BY <1>3 DEF TypeOK
    <3>9. rewards[t] \in Int
      BY <1>1
    <3>10. QED
      BY <3>3, <3>4, <3>5, <3>6, <3>7, <3>8, <3>9 DEF after
  <2>3. QED
    BY <2>1, <2>2 DEF PromisesAddUp
<1>8. QED
  BY <1>4, <1>5, <1>6, <1>7 DEF EpochsKept

-----------------------------------------------------------------------------
(* The credits.                                                            *)

\* The invariant gives the hypotheses of the lemmas about credits.
LEMMA CreditsAreLocked ==
    ASSUME TypeOK, LocksAddUp, CreditsAccounted
    PROVE  EpochsAddUp /\ CreditsLocked
  BY DEF TypeOK, EpochsAddUp, CreditsLocked, CreditsAccounted

\* A credited epoch is over, so that what it is worth stays.
LEMMA CreditedWorthFixed ==
    ASSUME OrderInv, TypeOK, CreditsAccounted, WorthFixed,
           NEW e \in EpochIds, NEW u \in Users, NEW t \in RewardTokens,
           e \in credited[u] \/ e \in CreditedNow(u)
    PROVE  /\ e < UpdatedEpoch
           /\ epochs'[e].balanceLocked = epochs[e].balanceLocked
           /\ Part(e, u, t)' = Part(e, u, t)
<1>1. e < UpdatedEpoch
  <2>1. CASE e \in credited[u]
    <3>1. /\ e < accounts[u].lastEpochPaid /\ accounts[u].lastEpochPaid <= currentEpoch
          /\ currentEpoch <= UpdatedEpoch
      BY <2>1, CurrentEpoch DEF CreditsAccounted
    <3>2. /\ e \in Nat /\ accounts[u].lastEpochPaid \in Nat /\ currentEpoch \in Nat
          /\ UpdatedEpoch \in Nat
      BY CurrentEpoch, SumsAreFinite DEF TypeOK, Account
    <3>3. QED
      BY <3>1, <3>2
  <2>2. CASE e \in CreditedNow(u)
    BY <2>2, CreditsDue
  <2>3. QED
    BY <2>1, <2>2
<1>2. /\ epochs'[e].balanceLocked = epochs[e].balanceLocked
      /\ epochs'[e].totalLocked = epochs[e].totalLocked
      /\ epochs'[e].rewards = epochs[e].rewards
  BY <1>1 DEF WorthFixed
<1>3. QED
  BY <1>1, <1>2 DEF Part, Share, MulDivDown

\* A step that credits nobody.
LEMMA NobodyCredited ==
    ASSUME OrderInv, TypeOK, LocksAddUp, CreditsAccounted, WorthFixed,
           currentEpoch' \in Nat, currentEpoch <= currentEpoch',
           UNCHANGED <<accounts, credited>>,
           \A t \in RewardTokens : rewardToken'[t].rewardsPaid = rewardToken[t].rewardsPaid
    PROVE  CreditsAccounted'
<1>1. ASSUME NEW u \in Users
      PROVE  /\ accounts'[u].lastEpochPaid <= currentEpoch'
             /\ \A e \in credited'[u] : /\ e < accounts'[u].lastEpochPaid
                                        /\ epochs'[e].balanceLocked[u] # 0
  <2>1. accounts[u].lastEpochPaid <= currentEpoch
    BY DEF CreditsAccounted
  <2>2. accounts[u].lastEpochPaid \in Nat /\ currentEpoch \in Nat
    BY SumsAreFinite DEF TypeOK, Account
  <2>3. ASSUME NEW e \in credited[u]
        PROVE  /\ e < accounts[u].lastEpochPaid
               /\ epochs'[e].balanceLocked[u] # 0
    <3>1. e \in EpochIds /\ 1 \in RewardTokens
      BY DEF TypeOK, RewardTokens
    <3>2. epochs'[e].balanceLocked = epochs[e].balanceLocked
      BY <3>1, CreditedWorthFixed
    <3>3. QED
      BY <3>2 DEF CreditsAccounted
  <2>4. QED
    BY <2>1, <2>2, <2>3
<1>2. ASSUME NEW t \in RewardTokens
      PROVE  rewardToken'[t].rewardsPaid = SumFunction([e \in EpochIds |-> EpochPaid(e, t)'])
  <2>1. ASSUME NEW e \in EpochIds
        PROVE  EpochPaid(e, t)' = EpochPaid(e, t)
    <3>1. \A u \in Users : PartPaid(e, u, t)' = PartPaid(e, u, t)
      BY CreditedWorthFixed DEF PartPaid
    <3>2. [u \in Users |-> PartPaid(e, u, t)'] = [u \in Users |-> PartPaid(e, u, t)]
      BY <3>1
    <3>3. QED
      BY <3>2 DEF EpochPaid
  <2>2. [e \in EpochIds |-> EpochPaid(e, t)'] = [e \in EpochIds |-> EpochPaid(e, t)]
    BY <2>1
  <2>3. rewardToken[t].rewardsPaid = SumFunction([e \in EpochIds |-> EpochPaid(e, t)])
    BY DEF CreditsAccounted
  <2>4. QED
    BY <2>2, <2>3
<1>3. QED
  BY <1>1, <1>2 DEF CreditsAccounted

\* The sum over the credited epochs, taken over all of them.
LEMMA SumOfSome ==
    ASSUME NEW S, IsFiniteSet(S), NEW T \in SUBSET S,
           NEW f, \A x \in T : f[x] \in Int,
           NEW h, \A x \in S : h[x] = IF x \in T THEN f[x] ELSE 0
    PROVE  SumFunctionOnSet(h, S) = SumFunctionOnSet(f, T)
<1>1. IsFiniteSet(T) /\ IsFiniteSet(S \ T)
  BY FS_Subset
<1>2. SumFunctionOnSet(h, S) = SumFunctionOnSet(h, T) + SumFunctionOnSet(h, S \ T)
  <2>1. \A x \in S : h[x] \in Int
    OBVIOUS
  <2>2. QED
    BY <2>1, SumSplit
<1>3. SumFunctionOnSet(h, S \ T) = 0
  BY <1>1, SumZero
<1>4. SumFunctionOnSet(h, T) = SumFunctionOnSet(f, T)
  BY <1>1, SumSame
<1>5. SumFunctionOnSet(f, T) \in Int
  BY <1>1, SumInt
<1>6. QED
  BY <1>2, <1>3, <1>4, <1>5

\* updateReward credits one user: each epoch it credits has paid that user's
\* part more than before.
LEMMA OneCredited ==
    ASSUME OrderInv, TypeOK, LocksAddUp, CreditsAccounted, WorthFixed,
           NEW u \in Users, NEW account, account.lastEpochPaid = UpdatedEpoch,
           UpdateReward(u, account)
    PROVE  CreditsAccounted'
<1> DEFINE latest == CreditedNow(u)
<1>1. /\ currentEpoch' = UpdatedEpoch
      /\ \A t \in RewardTokens : rewardToken'[t].rewardsPaid
             = rewardToken[t].rewardsPaid + RewardPaid(u, t, latest)
      /\ credited' = [credited EXCEPT ![u] = @ \cup latest]
      /\ accounts' = [accounts EXCEPT ![u] = account]
  BY DEF UpdateReward, TypeOK
<1>2. /\ UpdatedEpoch \in Nat /\ currentEpoch \in Nat /\ currentEpoch <= UpdatedEpoch
      /\ \A v \in Users : accounts[v].lastEpochPaid \in Nat
      /\ EpochIds \subseteq Nat
  BY CurrentEpoch, SumsAreFinite DEF TypeOK, Account
<1>3. /\ latest \subseteq EpochIds
      /\ \A e \in latest : /\ e < UpdatedEpoch
                         /\ accounts[u].lastEpochPaid <= e
                         /\ epochs[e].balanceLocked[u] # 0
  BY CreditsDue
<1>4. /\ accounts'[u].lastEpochPaid = UpdatedEpoch
      /\ credited'[u] = credited[u] \cup latest
      /\ \A v \in Users \ {u} : accounts'[v] = accounts[v] /\ credited'[v] = credited[v]
  BY <1>1 DEF TypeOK
<1>5. \A v \in Users : \A e \in credited[v] \cup (IF v = u THEN latest ELSE {}) :
          /\ e < UpdatedEpoch
          /\ epochs'[e].balanceLocked[v] # 0
  <2> SUFFICES ASSUME NEW v \in Users,
                      NEW e \in credited[v] \cup (IF v = u THEN latest ELSE {})
               PROVE  e < UpdatedEpoch /\ epochs'[e].balanceLocked[v] # 0
    OBVIOUS
  <2>1. e \in EpochIds /\ epochs[e].balanceLocked[v] # 0
    BY <1>3 DEF TypeOK, CreditsAccounted
  <2>2. 1 \in RewardTokens
    BY DEF RewardTokens
  <2>3. e < UpdatedEpoch /\ epochs'[e].balanceLocked = epochs[e].balanceLocked
    BY <2>1, <2>2, CreditedWorthFixed
  <2>4. QED
    BY <2>1, <2>3
<1>6. ASSUME NEW v \in Users
      PROVE  /\ accounts'[v].lastEpochPaid <= currentEpoch'
             /\ \A e \in credited'[v] : /\ e < accounts'[v].lastEpochPaid
                                        /\ epochs'[e].balanceLocked[v] # 0
  <2>1. CASE v = u
    BY <1>1, <1>2, <1>4, <1>5, <2>1
  <2>2. CASE v # u
    <3>1. accounts[v].lastEpochPaid <= currentEpoch
      BY DEF CreditsAccounted
    <3>2. \A e \in credited[v] : e < accounts[v].lastEpochPaid
      BY DEF CreditsAccounted
    <3>3. accounts'[v] = accounts[v] /\ credited'[v] = credited[v]
      BY <1>4, <2>2
    <3>4. accounts[v].lastEpochPaid <= UpdatedEpoch
      BY <1>2, <3>1
    <3>5. QED
      BY <1>1, <1>5, <3>2, <3>3, <3>4
  <2>3. QED
    BY <2>1, <2>2
<1>7. ASSUME NEW t \in RewardTokens
      PROVE  rewardToken'[t].rewardsPaid = SumFunction([e \in EpochIds |-> EpochPaid(e, t)'])
  <2> DEFINE due    == [e \in latest |-> Part(e, u, t)]
             more   == [e \in EpochIds |-> IF e \in latest THEN due[e] ELSE 0]
             before == [e \in EpochIds |-> EpochPaid(e, t)]
             after  == [e \in EpochIds |-> EpochPaid(e, t)']
  <2>1. \A e \in latest : Part(e, u, t) \in Nat
    BY <1>3, PartTyped DEF EpochsAddUp, TypeOK
  <2>2. ASSUME NEW e \in EpochIds
        PROVE  EpochPaid(e, t) \in Int /\ EpochPaid(e, t)' = EpochPaid(e, t) + more[e]
    <3> DEFINE old == [v \in Users |-> PartPaid(e, v, t)]
               new == [v \in Users |-> PartPaid(e, v, t)']
    <3>1. \A v \in Users : old[v] \in Int
      <4>1. \A v \in Users : PartPaid(e, v, t) \in Nat
        BY CreditsAreLocked, PartPaidTyped
      <4>2. QED
        BY <4>1
    <3>2. \A v \in Users \ {u} : new[v] = old[v]
      <4>1. ASSUME NEW v \in Users \ {u}
            PROVE  PartPaid(e, v, t)' = PartPaid(e, v, t)
        <5>1. credited'[v] = credited[v]
          BY <1>4
        <5>2. e \in credited[v] => Part(e, v, t)' = Part(e, v, t)
          BY CreditedWorthFixed
        <5>3. QED
          BY <5>1, <5>2 DEF PartPaid
      <4>2. QED
        BY <4>1
    <3>3. new[u] = old[u] + more[e]
      <4>1. CASE e \in latest
        <5>1. e \in credited'[u] /\ e \notin credited[u]
          BY <1>2, <1>3, <1>4, <4>1 DEF CreditsAccounted
        <5>2. Part(e, u, t)' = Part(e, u, t)
          BY <4>1, CreditedWorthFixed
        <5>3. new[u] = Part(e, u, t) /\ old[u] = 0 /\ more[e] = Part(e, u, t)
          BY <4>1, <5>1, <5>2 DEF PartPaid
        <5>4. Part(e, u, t) \in Nat
          BY <2>1, <4>1
        <5> HIDE DEF new, old, more
        <5>5. QED
          BY <5>3, <5>4
      <4>2. CASE e \notin latest
        <5>1. e \in credited'[u] <=> e \in credited[u]
          BY <1>4, <4>2
        <5>2. e \in credited[u] => Part(e, u, t)' = Part(e, u, t)
          BY CreditedWorthFixed
        <5>3. new[u] = old[u] /\ more[e] = 0
          BY <4>2, <5>1, <5>2 DEF PartPaid
        <5>4. old[u] \in Int
          BY <3>1
        <5> HIDE DEF new, old, more
        <5>5. QED
          BY <5>3, <5>4
      <4>3. QED
        BY <4>1, <4>2
    <3>4. more[e] \in Int
      BY <2>1
    <3>5. SumFunction(old) = SumFunctionOnSet(old, Users)
          /\ SumFunction(new) = SumFunctionOnSet(new, Users)
          /\ EpochPaid(e, t) = SumFunction(old) /\ EpochPaid(e, t)' = SumFunction(new)
      BY DEF SumFunction, EpochPaid
    <3> HIDE DEF old, new, more
    <3>6. \A v \in Users : new[v] \in Int
      BY <3>1, <3>2, <3>3, <3>4
    <3>7. SumFunctionOnSet(new, Users) = SumFunctionOnSet(old, Users) + new[u] - old[u]
      BY <3>1, <3>2, <3>6, SumsAreFinite, SumChange
    <3>8. SumFunctionOnSet(old, Users) \in Int
      BY <3>1, SumsAreFinite, SumInt
    <3>9. QED
      BY <3>1, <3>3, <3>4, <3>5, <3>7, <3>8
  <2>3. \A e \in EpochIds : more[e] = IF e \in latest THEN due[e] ELSE 0
    OBVIOUS
  <2>4. \A e \in latest : due[e] \in Int
    BY <2>1
  <2>5. \A e \in EpochIds : /\ before[e] \in Int /\ more[e] \in Int
                            /\ after[e] = before[e] + more[e]
    BY <2>2, <2>3, <2>4
  <2>6. /\ SumFunction(before) = SumFunctionOnSet(before, EpochIds)
        /\ SumFunction(after) = SumFunctionOnSet(after, EpochIds)
    BY DEF SumFunction
  <2>7. RewardPaid(u, t, latest) = SumFunctionOnSet(due, latest) /\ RewardPaid(u, t, latest) \in Int
    BY RewardPaidTyped
  <2>8. rewardToken[t].rewardsPaid = SumFunction(before)
    BY DEF CreditsAccounted
  <2> HIDE DEF due, more, before, after, latest
  <2>9. SumFunctionOnSet(more, EpochIds) = SumFunctionOnSet(due, latest)
    <3>1. latest \in SUBSET EpochIds /\ IsFiniteSet(EpochIds)
      BY <1>3, SumsAreFinite
    <3>2. QED
      BY <2>3, <2>4, <3>1, SumOfSome
  <2>10. SumFunctionOnSet(after, EpochIds)
            = SumFunctionOnSet(before, EpochIds) + SumFunctionOnSet(more, EpochIds)
    <3>1. \A e \in EpochIds : before[e] \in Int /\ more[e] \in Int
      BY <2>5
    <3>2. \A e \in EpochIds : after[e] = before[e] + more[e]
      BY <2>5
    <3>3. IsFiniteSet(EpochIds)
      BY SumsAreFinite
    <3>4. QED
      BY <3>1, <3>2, <3>3, SumPlus
  <2>11. QED
    BY <1>1, <2>6, <2>7, <2>8, <2>9, <2>10 DEF after
<1>8. QED
  BY <1>6, <1>7 DEF CreditsAccounted

-----------------------------------------------------------------------------
(* The accounts, the tokens, and all of it together.                       *)

\* A user's call replaces one account and adds to the rewards paid.
LEMMA CallTyped ==
    ASSUME OrderInv, TypeOK, LocksAddUp,
           NEW u \in Users, NEW account \in Account, UpdateReward(u, account)
    PROVE  /\ accounts' \in [Users -> Account]
           /\ accounts'[u] = account
           /\ \A v \in Users \ {u} : accounts'[v] = accounts[v]
           /\ rewardToken' \in [RewardTokens -> [rewards : Nat, rewardsPaid : Nat]]
           /\ SamePromises
           /\ credited' \in [Users -> SUBSET EpochIds]
           /\ currentEpoch' \in EpochIds /\ currentEpoch' <= nextUnsetEpoch
<1>1. \A t \in RewardTokens : RewardPaid(u, t, CreditedNow(u)) \in Nat
  BY RewardPaidTyped
<1>2. rewardToken' \in [RewardTokens -> [rewards : Nat, rewardsPaid : Nat]] /\ SamePromises
  <2>1. rewardToken \in [RewardTokens -> [rewards : Nat, rewardsPaid : Nat]]
    BY DEF TypeOK
  <2>2. rewardToken' = [t \in RewardTokens |->
            [rewardToken[t] EXCEPT
                !.rewardsPaid = @ + RewardPaid(u, t, CreditedNow(u))]]
    BY DEF UpdateReward
  <2>3. \A t \in RewardTokens :
            [rewardToken[t] EXCEPT !.rewardsPaid = @ + RewardPaid(u, t, CreditedNow(u))]
               \in [rewards : Nat, rewardsPaid : Nat]
    BY <1>1, <2>1
  <2>4. QED
    BY <2>1, <2>2, <2>3 DEF SamePromises
<1>3. credited' \in [Users -> SUBSET EpochIds]
  BY CreditsDue DEF UpdateReward, TypeOK
<1>4. QED
  BY <1>2, <1>3, CurrentEpoch DEF UpdateReward, TypeOK

\* The lock tokens of one account move, in or out.
LEMMA OneBalanceMoves ==
    ASSUME NEW before \in [Users -> Nat], NEW after \in [Users -> Nat],
           NEW u \in Users, \A v \in Users \ {u} : after[v] = before[v]
    PROVE  SumFunctionOnSet(after, Users)
               = SumFunctionOnSet(before, Users) + after[u] - before[u]
  BY FiniteAssumption, SumChange

\* A deposit or a withdrawal moves the total along with one balance.
LEMMA AssetsMove ==
    ASSUME TypeOK, AssetsAddUp, NEW u \in Users, NEW moved \in Int,
           accounts' \in [Users -> Account],
           \A v \in Users \ {u} : accounts'[v] = accounts[v],
           accounts'[u].balance = accounts[u].balance + moved,
           totalAssets' = totalAssets + moved
    PROVE  AssetsAddUp' /\ totalAssets' \in Nat
<1> DEFINE before == [v \in Users |-> accounts[v].balance]
           after  == [v \in Users |-> accounts'[v].balance]
<1>1. /\ before \in [Users -> Nat] /\ after \in [Users -> Nat]
      /\ \A v \in Users \ {u} : after[v] = before[v]
      /\ after[u] = before[u] + moved
  BY DEF TypeOK, Account
<1>2. /\ SumFunction(before) = SumFunctionOnSet(before, Users)
      /\ SumFunction(after) = SumFunctionOnSet(after, Users)
      /\ totalAssets = SumFunction(before)
      /\ AssetsAddUp' <=> totalAssets' = SumFunction(after)
  BY DEF SumFunction, AssetsAddUp
<1> HIDE DEF before, after
<1>3. SumFunctionOnSet(after, Users) = SumFunctionOnSet(before, Users) + after[u] - before[u]
  BY <1>1, OneBalanceMoves
<1>4. /\ SumFunctionOnSet(before, Users) \in Int /\ before[u] \in Int
      /\ SumFunctionOnSet(after, Users) \in Nat
  BY <1>1, SumsAreFinite, SumNat
<1>5. totalAssets' = SumFunctionOnSet(after, Users)
  BY <1>1, <1>2, <1>3, <1>4
<1>6. QED
  BY <1>2, <1>4, <1>5

\* Balances that stay keep their total.
LEMMA SameAssets ==
    ASSUME AssetsAddUp, totalAssets' = totalAssets,
           \A u \in Users : accounts'[u].balance = accounts[u].balance
    PROVE  AssetsAddUp'
<1>1. [u \in Users |-> accounts'[u].balance] = [u \in Users |-> accounts[u].balance]
  OBVIOUS
<1>2. QED
  BY <1>1 DEF AssetsAddUp

\* Everything TypeOK, LocksAddUp and RewardsPaidBounded rest on.
LockInv ==
    /\ OrderInv /\ TypeOK /\ LocksAddUp /\ AssetsAddUp
    /\ CreditsAccounted /\ PromisesAddUp

\* The variables TypeOK speaks of and no proof below depends on.
SettingsTyped ==
    /\ now \in BlockTimes
    /\ paused \in BOOLEAN /\ enforceTime \in BOOLEAN
    /\ maxEpochs \in Nat
    /\ whitelistRecoverERC20 \subseteq Tokens \ {1}

\* A user's call changes no setting.
LEMMA CallsKeepSettings ==
    ASSUME UserNext
    PROVE  UNCHANGED <<now, contractVars>>
<1>1. CASE UpdateEpochs
  BY <1>1 DEF UpdateEpochs
<1>2. ASSUME NEW u \in Users, NEW amount \in Amounts, NEW lockEpochs \in LockLengths,
             Deposit(u, amount, lockEpochs)
      PROVE  UNCHANGED <<now, contractVars>>
  BY <1>2 DEF Deposit
<1>3. ASSUME NEW u \in Users,
             \/ UpdateAccount(u) \/ ClaimReward(u) \/ Exit(u)
             \/ \E amount \in Amounts : Withdraw(u, amount)
      PROVE  UNCHANGED <<now, contractVars>>
  BY <1>3 DEF UpdateAccount, ClaimReward, Exit, Withdraw
<1>4. QED
  BY <1>1, <1>2, <1>3 DEF UserNext

\* Every step keeps the types of the settings.
LEMMA SettingsStep ==
    ASSUME SettingsTyped, [Next]_vars
    PROVE  SettingsTyped'
<1>1. CASE Tick
  BY <1>1 DEF Tick, SettingsTyped, contractVars
<1>2. CASE UserNext
  <2>1. UNCHANGED <<now, contractVars>>
    BY <1>2, CallsKeepSettings
  <2>2. QED
    BY <2>1 DEF SettingsTyped, contractVars
<1>3. CASE OwnerNext
  <2>1. ASSUME \/ \E rewards \in EpochRewards, days \in Durations, start \in StartTimes :
                     SetNextEpoch(rewards, days, start)
               \/ \E t \in Recoverable, amount \in Amounts : RecoverERC20(t, amount)
        PROVE  UNCHANGED <<now, contractVars>>
    BY <2>1 DEF SetNextEpoch, RecoverERC20, contractVars
  <2>2. ASSUME NEW t \in Recoverable, NEW flag \in BOOLEAN,
               ChangeRecoverWhitelist(t, flag)
        PROVE  SettingsTyped'
    BY <2>2, LockRewardsAssumption DEF ChangeRecoverWhitelist, SettingsTyped
  <2>3. ASSUME NEW flag \in BOOLEAN, ChangeEnforceTime(flag)
        PROVE  SettingsTyped'
    BY <2>3 DEF ChangeEnforceTime, SettingsTyped
  <2>4. ASSUME NEW n \in maxEpochsValues, ChangeMaxEpochs(n)
        PROVE  SettingsTyped'
    BY <2>4, LockRewardsAssumption DEF ChangeMaxEpochs, SettingsTyped
  <2>5. ASSUME NEW flag \in BOOLEAN, SetPaused(flag)
        PROVE  SettingsTyped'
    BY <2>5 DEF SetPaused, SettingsTyped
  <2>6. UNCHANGED <<now, contractVars>> => SettingsTyped'
    BY DEF SettingsTyped, contractVars
  <2>7. QED
    BY <1>3, <2>1, <2>2, <2>3, <2>4, <2>5, <2>6 DEF OwnerNext
<1>4. CASE \E t \in RewardTokens : \E amount \in Fundings[t] : FundRewards(t, amount)
  BY <1>4 DEF FundRewards, SettingsTyped, contractVars
<1>5. CASE UNCHANGED vars
  BY <1>5 DEF vars, SettingsTyped, contractVars
<1>6. QED
  BY <1>1, <1>2, <1>3, <1>4, <1>5 DEF Next

\* What a call of a user leaves of the invariant to prove: the account it
\* leaves is typed, its balance moves as the total does, and the epochs keep
\* what they have to.
LEMMA UserCallKeeps ==
    ASSUME LockInv, OrderInv', SettingsTyped', EpochsKept,
           NEW u \in Users, NEW account \in Account, NEW moved \in Int,
           account.lastEpochPaid = UpdatedEpoch,
           account.balance = accounts[u].balance + moved,
           UpdateReward(u, account),
           totalAssets' = totalAssets + moved,
           nextUnsetEpoch' = nextUnsetEpoch,
           balanceOf' \in [Tokens -> Nat]
    PROVE  LockInv'
<1>1. /\ accounts' \in [Users -> Account]
      /\ accounts'[u] = account
      /\ \A v \in Users \ {u} : accounts'[v] = accounts[v]
      /\ rewardToken' \in [RewardTokens -> [rewards : Nat, rewardsPaid : Nat]]
      /\ SamePromises
      /\ credited' \in [Users -> SUBSET EpochIds]
      /\ currentEpoch' \in EpochIds /\ currentEpoch' <= nextUnsetEpoch
  BY CallTyped DEF LockInv
<1>2. AssetsAddUp' /\ totalAssets' \in Nat
  BY <1>1, AssetsMove DEF LockInv
<1>3. CreditsAccounted'
  BY OneCredited DEF LockInv, EpochsKept
<1>4. TypeOK'
  BY <1>1, <1>2 DEF LockInv, TypeOK, SettingsTyped, EpochsKept
<1>5. QED
  BY <1>1, <1>2, <1>3, <1>4 DEF LockInv, EpochsKept

\* An account after its owner's exit.
LEMMA AccountEmptied ==
    ASSUME NEW a \in Account
    PROVE  LET left == [a EXCEPT !.balance = 0, !.rewards = NoRewards]
           IN  /\ left \in Account /\ left.balance = 0
               /\ left.lastEpochPaid = a.lastEpochPaid
  BY DEF Account, NoRewards

\* The user's calls that touch no epoch.
LEMMA AccountCallKeeps ==
    ASSUME LockInv, OrderInv', SettingsTyped', NEW u \in Users,
           \/ UpdateAccount(u) \/ ClaimReward(u) \/ Exit(u)
           \/ \E amount \in Amounts : Withdraw(u, amount)
    PROVE  LockInv'
<1> DEFINE old == UpdatedAccount(u)
<1>1. /\ old \in Account /\ old.balance = accounts[u].balance
      /\ old.lastEpochPaid = UpdatedEpoch
  BY UpdatedAccountTyped DEF LockInv
<1>2. /\ old.balance \in Nat /\ old.rewards \in [RewardTokens -> Nat]
      /\ accounts[u].balance \in Nat /\ totalAssets \in Nat
      /\ balanceOf \in [Tokens -> Nat]
      /\ NoRewards \in [RewardTokens -> Nat]
  BY <1>1 DEF Account, LockInv, TypeOK, NoRewards
<1> HIDE DEF old
<1>3. EpochsKept /\ nextUnsetEpoch' = nextUnsetEpoch
  <2>1. UNCHANGED epochs /\ nextUnsetEpoch' = nextUnsetEpoch
    BY DEF UpdateAccount, ClaimReward, Exit, Withdraw, epochVars
  <2>2. QED
    BY <2>1, SameEpochsKept DEF LockInv
<1>4. CASE UpdateAccount(u)
  <2>1. /\ UpdateReward(u, old) /\ totalAssets' = totalAssets + 0
        /\ balanceOf' = balanceOf
    BY <1>2, <1>4 DEF UpdateAccount, old
  <2>2. old.balance = accounts[u].balance + 0
    BY <1>1, <1>2
  <2>3. QED
    BY <1>1, <1>2, <1>3, <2>1, <2>2, UserCallKeeps
<1>5. CASE ClaimReward(u)
  <2> DEFINE account == [old EXCEPT !.rewards = NoRewards]
  <2>1. /\ account \in Account /\ account.lastEpochPaid = UpdatedEpoch
        /\ account.balance = accounts[u].balance + 0
    BY <1>1, <1>2 DEF Account
  <2>2. /\ UpdateReward(u, account) /\ totalAssets' = totalAssets + 0
    BY <1>2, <1>5 DEF ClaimReward, old
  <2>3. balanceOf' \in [Tokens -> Nat]
    <3>1. /\ \A t \in RewardTokens : old.rewards[t] <= balanceOf[t]
          /\ balanceOf' = [t \in Tokens |->
                balanceOf[t] - IF t = LockToken THEN 0 ELSE old.rewards[t]]
      BY <1>5 DEF ClaimReward, old
    <3>2. \A t \in Tokens : (balanceOf[t] - IF t = LockToken THEN 0 ELSE old.rewards[t]) \in Nat
      BY <1>2, <3>1 DEF Tokens
    <3>3. QED
      BY <3>1, <3>2
  <2> HIDE DEF account
  <2>4. QED
    BY <1>3, <2>1, <2>2, <2>3, UserCallKeeps
<1>6. CASE Exit(u)
  <2> DEFINE account == [old EXCEPT !.balance = 0, !.rewards = NoRewards]
  <2>1. /\ account \in Account /\ account.lastEpochPaid = UpdatedEpoch
        /\ account.balance = accounts[u].balance + (-old.balance)
        /\ -old.balance \in Int
    <3>1. account \in Account /\ account.balance = 0 /\ account.lastEpochPaid = UpdatedEpoch
      BY <1>1, AccountEmptied
    <3>2. accounts[u].balance + (-old.balance) = 0 /\ -old.balance \in Int
      BY <1>1, <1>2
    <3>3. QED
      BY <3>1, <3>2
  <2>2. /\ UpdateReward(u, account) /\ totalAssets' = totalAssets + (-old.balance)
        /\ old.balance <= balanceOf[LockToken]
    BY <1>2, <1>6 DEF Exit, WithdrawFrom, old
  <2>3. balanceOf' \in [Tokens -> Nat]
    <3>1. /\ \A t \in RewardTokens : old.rewards[t] <= balanceOf[t]
          /\ balanceOf' = [t \in Tokens |->
                balanceOf[t] - IF t = LockToken THEN old.balance ELSE old.rewards[t]]
      BY <1>6 DEF Exit, old
    <3>2. \A t \in Tokens :
             (balanceOf[t] - IF t = LockToken THEN old.balance ELSE old.rewards[t]) \in Nat
      BY <1>2, <2>2, <3>1 DEF Tokens
    <3>3. QED
      BY <3>1, <3>2
  <2> HIDE DEF account
  <2>4. QED
    BY <1>3, <2>1, <2>2, <2>3, UserCallKeeps
<1>7. CASE \E amount \in Amounts : Withdraw(u, amount)
  <2>1. PICK amount \in Amounts : Withdraw(u, amount)
    BY <1>7
  <2>2. amount \in Nat /\ amount <= old.balance /\ amount <= balanceOf[LockToken]
    BY <2>1, LockRewardsAssumption DEF Withdraw, WithdrawFrom, old
  <2> DEFINE account == [old EXCEPT !.balance = @ - amount]
  <2>3. /\ account \in Account /\ account.lastEpochPaid = UpdatedEpoch
        /\ account.balance = accounts[u].balance + (-amount)
        /\ -amount \in Int
    BY <1>1, <1>2, <2>2 DEF Account
  <2>4. /\ UpdateReward(u, account) /\ totalAssets' = totalAssets + (-amount)
        /\ balanceOf' = [balanceOf EXCEPT ![LockToken] = @ - amount]
    BY <1>2, <2>1, <2>2 DEF Withdraw, WithdrawFrom, old
  <2>5. balanceOf' \in [Tokens -> Nat]
    BY <1>2, <2>2, <2>4 DEF Tokens
  <2> HIDE DEF account
  <2>6. QED
    BY <1>3, <2>3, <2>4, <2>5, UserCallKeeps
<1>8. QED
  BY <1>4, <1>5, <1>6, <1>7

\* deposit, with the credits it makes first.
LEMMA DepositCallKeeps ==
    ASSUME LockInv, OrderInv', SettingsTyped', NEW u \in Users,
           NEW amount \in Amounts, NEW lockEpochs \in LockLengths,
           Deposit(u, amount, lockEpochs)
    PROVE  LockInv'
<1> DEFINE old == UpdatedAccount(u)
           account == [old EXCEPT !.balance = old.balance + amount,
                                  !.lockEpochs = old.lockEpochs + lockEpochs]
<1>1. /\ old \in Account /\ old.balance = accounts[u].balance
      /\ old.lastEpochPaid = UpdatedEpoch
      /\ amount \in Nat /\ lockEpochs \in Nat
  BY UpdatedAccountTyped, LockRewardsAssumption DEF LockInv
<1>2. /\ UpdateReward(u, account) /\ totalAssets' = totalAssets + amount
      /\ balanceOf' = [balanceOf EXCEPT ![LockToken] = @ + amount]
      /\ nextUnsetEpoch' = nextUnsetEpoch
  BY DEF Deposit
<1>3. EpochsKept
  BY DepositKeepsEpochs DEF LockInv
<1> HIDE DEF old
<1>4. /\ account \in Account /\ account.lastEpochPaid = UpdatedEpoch
      /\ account.balance = accounts[u].balance + amount
  <2> DEFINE b == old.balance + amount
             n == old.lockEpochs + lockEpochs
  <2>1. b \in Nat /\ n \in Nat
    BY <1>1 DEF Account
  <2>2. account = [old EXCEPT !.balance = b, !.lockEpochs = n]
    OBVIOUS
  <2> HIDE DEF b, n, account
  <2>3. /\ account \in Account /\ account.balance = b
        /\ account.lastEpochPaid = old.lastEpochPaid
    BY <1>1, <2>1, <2>2 DEF Account
  <2>4. QED
    BY <1>1, <2>3 DEF b
<1>5. balanceOf' \in [Tokens -> Nat] /\ amount \in Int
  <2>1. balanceOf \in [Tokens -> Nat]
    BY DEF LockInv, TypeOK
  <2>2. QED
    BY <1>1, <1>2, <2>1 DEF Tokens
<1> HIDE DEF account
<1>6. QED
  BY <1>2, <1>3, <1>4, <1>5, UserCallKeeps

\* A step that moves the clock, the current epoch or the tokens, and no account
\* or epoch.
LEMMA QuietStepKeeps ==
    ASSUME LockInv, OrderInv', SettingsTyped',
           UNCHANGED <<accounts, rewardToken, credited, epochs, nextUnsetEpoch, totalAssets>>,
           currentEpoch' = currentEpoch \/ currentEpoch' = UpdatedEpoch,
           balanceOf' \in [Tokens -> Nat]
    PROVE  LockInv'
<1>1. /\ currentEpoch' \in EpochIds /\ currentEpoch' <= nextUnsetEpoch
      /\ currentEpoch <= currentEpoch' /\ currentEpoch' \in Nat
  <2>1. /\ currentEpoch \in EpochIds /\ currentEpoch <= nextUnsetEpoch
        /\ EpochIds \subseteq Nat
    BY SumsAreFinite DEF LockInv, TypeOK
  <2>2. /\ UpdatedEpoch \in EpochIds /\ UpdatedEpoch <= nextUnsetEpoch
        /\ currentEpoch <= UpdatedEpoch
    BY CurrentEpoch DEF LockInv
  <2>3. QED
    BY <2>1, <2>2
<1>2. EpochsKept /\ SamePromises
  BY SameEpochsKept DEF LockInv, SamePromises
<1>3. CreditsAccounted'
  BY <1>1, <1>2, NobodyCredited DEF LockInv, EpochsKept
<1>4. AssetsAddUp'
  BY SameAssets DEF LockInv
<1>5. TypeOK'
  BY <1>1, <1>2 DEF LockInv, TypeOK, SettingsTyped, EpochsKept
<1>6. QED
  BY <1>2, <1>3, <1>4, <1>5 DEF LockInv, EpochsKept

\* setNextEpoch, which promises rewards for an epoch of its own.
LEMMA SetNextEpochCallKeeps ==
    ASSUME LockInv, OrderInv', SettingsTyped', NEW rewards \in EpochRewards,
           NEW days \in Durations, NEW start \in StartTimes,
           SetNextEpoch(rewards, days, start)
    PROVE  LockInv'
<1>1. EpochsKept /\ PromisesAddUp'
  BY SetNextEpochKeepsEpochs DEF LockInv
<1>2. /\ rewards \in [RewardTokens -> Nat]
      /\ rewardToken \in [RewardTokens -> [rewards : Nat, rewardsPaid : Nat]]
      /\ nextUnsetEpoch \in EpochIds /\ nextUnsetEpoch <= LastSettable
      /\ LastEpoch \in Nat /\ LastSettable \in 0..(LastEpoch - 1)
  BY LockRewardsAssumption DEF LockInv, TypeOK, SetNextEpoch
<1>3. /\ currentEpoch' = UpdatedEpoch /\ nextUnsetEpoch' = nextUnsetEpoch + 1
      /\ rewardToken' = [t \in RewardTokens |->
            [rewardToken[t] EXCEPT !.rewards = @ + rewards[t]]]
      /\ UNCHANGED <<accounts, credited, totalAssets, balanceOf>>
  BY DEF SetNextEpoch
<1>4. /\ currentEpoch' \in EpochIds /\ nextUnsetEpoch' \in EpochIds
      /\ currentEpoch' <= nextUnsetEpoch'
      /\ currentEpoch <= currentEpoch' /\ currentEpoch' \in Nat
  BY <1>2, <1>3, CurrentEpoch DEF LockInv, EpochIds
<1>5. /\ rewardToken' \in [RewardTokens -> [rewards : Nat, rewardsPaid : Nat]]
      /\ \A t \in RewardTokens : rewardToken'[t].rewardsPaid = rewardToken[t].rewardsPaid
  <2>1. \A t \in RewardTokens :
           /\ [rewardToken[t] EXCEPT !.rewards = @ + rewards[t]]
                 \in [rewards : Nat, rewardsPaid : Nat]
           /\ [rewardToken[t] EXCEPT !.rewards = @ + rewards[t]].rewardsPaid
                 = rewardToken[t].rewardsPaid
    BY <1>2
  <2>2. QED
    BY <1>3, <2>1
<1>6. CreditsAccounted'
  BY <1>1, <1>3, <1>4, <1>5, NobodyCredited DEF LockInv, EpochsKept
<1>7. AssetsAddUp'
  BY <1>3, SameAssets DEF LockInv
<1>8. TypeOK'
  BY <1>1, <1>3, <1>4, <1>5 DEF LockInv, TypeOK, SettingsTyped, EpochsKept
<1>9. QED
  BY <1>1, <1>6, <1>7, <1>8 DEF LockInv, EpochsKept

\* Every step keeps the invariant of the locks.
LEMMA LockStep ==
    ASSUME LockInv, [Next]_vars
    PROVE  LockInv'
<1>1. OrderInv' /\ SettingsTyped'
  BY StepKeeps, SettingsStep DEF LockInv, TypeOK, SettingsTyped
<1>2. balanceOf \in [Tokens -> Nat]
  BY DEF LockInv, TypeOK
<1>3. CASE UserNext
  <2>1. CASE UpdateEpochs
    BY <1>1, <1>2, <2>1, QuietStepKeeps DEF UpdateEpochs, epochVars
  <2>2. CASE \E u \in Users : \/ UpdateAccount(u) \/ ClaimReward(u) \/ Exit(u)
                              \/ \E amount \in Amounts : Withdraw(u, amount)
    BY <1>1, <2>2, AccountCallKeeps
  <2>3. CASE \E u \in Users, amount \in Amounts, lockEpochs \in LockLengths :
                Deposit(u, amount, lockEpochs)
    BY <1>1, <2>3, DepositCallKeeps
  <2>4. QED
    BY <1>3, <2>1, <2>2, <2>3 DEF UserNext
<1>4. CASE \E rewards \in EpochRewards, days \in Durations, start \in StartTimes :
              SetNextEpoch(rewards, days, start)
  BY <1>1, <1>4, SetNextEpochCallKeeps
<1>5. CASE \E t \in Recoverable, amount \in Amounts : RecoverERC20(t, amount)
  <2>1. PICK t \in Recoverable, amount \in Amounts : RecoverERC20(t, amount)
    BY <1>5
  <2>2. balanceOf' \in [Tokens -> Nat]
    BY <1>2, <2>1, LockRewardsAssumption DEF RecoverERC20
  <2>3. QED
    BY <1>1, <2>1, <2>2, QuietStepKeeps DEF RecoverERC20, epochVars, rewardVars
<1>6. CASE \E t \in RewardTokens : \E amount \in Fundings[t] : FundRewards(t, amount)
  <2>1. PICK t \in RewardTokens : \E amount \in Fundings[t] : FundRewards(t, amount)
    BY <1>6
  <2>2. PICK amount \in Fundings[t] : FundRewards(t, amount)
    BY <2>1
  <2>3. balanceOf' \in [Tokens -> Nat]
    <3>1. amount \in Nat
      BY LockRewardsAssumption
    <3>2. QED
      BY <1>2, <2>2, <3>1 DEF FundRewards, Tokens
  <2>4. QED
    BY <1>1, <2>2, <2>3, QuietStepKeeps DEF FundRewards, epochVars, rewardVars
<1>7. CASE UNCHANGED <<epochVars, rewardVars, totalAssets, balanceOf>>
  BY <1>1, <1>2, <1>7, QuietStepKeeps DEF epochVars, rewardVars
<1>8. Next \/ UNCHANGED vars
  OBVIOUS
<1>9. QED
  BY <1>3, <1>4, <1>5, <1>6, <1>7, <1>8
     DEF Next, OwnerNext, Tick, ChangeRecoverWhitelist, ChangeEnforceTime,
         ChangeMaxEpochs, SetPaused, vars

\* A sum over the epochs, or the users, of nothing.
LEMMA NothingAddsUp ==
    ASSUME NEW S, IsFiniteSet(S), NEW f, DOMAIN f = S, \A x \in S : f[x] = 0
    PROVE  SumFunction(f) = 0
  BY SumZero DEF SumFunction

\* The invariant of the locks holds after deployment.
LEMMA LockInitially ==
    ASSUME Init
    PROVE  LockInv
<1>1. OrderInv
  BY InitInOrder
<1>2. /\ \A u \in Users : accounts[u] = [balance |-> 0, lockEpochs |-> 0,
                                         lastEpochPaid |-> 0, rewards |-> NoRewards]
      /\ \A e \in EpochIds :
            epochs[e] = [start |-> 0, finish |-> 0, totalLocked |-> 0,
                         balanceLocked |-> [u \in Users |-> 0],
                         rewards |-> NoRewards, isSet |-> FALSE]
      /\ \A t \in RewardTokens : rewardToken[t] = [rewards |-> 0, rewardsPaid |-> 0]
      /\ \A u \in Users : credited[u] = {}
      /\ currentEpoch = 1 /\ nextUnsetEpoch = 1 /\ totalAssets = 0
  BY DEF Init
<1>3. NoRewards \in [RewardTokens -> Nat] /\ 1 \in EpochIds
  BY LockRewardsAssumption DEF NoRewards, EpochIds
<1>4. TypeOK
  <2>1. accounts \in [Users -> Account]
    <3>1. [balance |-> 0, lockEpochs |-> 0, lastEpochPaid |-> 0, rewards |-> NoRewards]
             \in Account
      BY <1>3 DEF Account
    <3>2. QED
      BY <3>1 DEF Init
  <2>2. epochs \in [EpochIds -> Epoch]
    <3>1. [start |-> 0, finish |-> 0, totalLocked |-> 0,
           balanceLocked |-> [u \in Users |-> 0], rewards |-> NoRewards, isSet |-> FALSE]
             \in Epoch
      BY <1>3 DEF Epoch
    <3>2. QED
      BY <3>1 DEF Init
  <2>3. rewardToken \in [RewardTokens -> [rewards : Nat, rewardsPaid : Nat]]
    BY DEF Init
  <2>4. /\ balanceOf \in [Tokens -> Nat] /\ credited \in [Users -> SUBSET EpochIds]
        /\ maxEpochs \in Nat
    BY LockRewardsAssumption DEF Init
  <2>5. /\ now \in BlockTimes /\ paused \in BOOLEAN /\ enforceTime \in BOOLEAN
        /\ whitelistRecoverERC20 = {}
    BY DEF Init
  <2>6. /\ totalAssets \in Nat /\ currentEpoch \in EpochIds /\ nextUnsetEpoch \in EpochIds
        /\ currentEpoch <= nextUnsetEpoch
    BY <1>2, <1>3
  <2>7. QED
    BY <2>1, <2>2, <2>3, <2>4, <2>5, <2>6 DEF TypeOK
<1>5. LocksAddUp
  <2>1. SumFunction([u \in Users |-> 0]) = 0
    BY SumsAreFinite, NothingAddsUp
  <2>2. QED
    BY <1>2, <2>1 DEF LocksAddUp
<1>6. AssetsAddUp
  <2>1. SumFunction([u \in Users |-> accounts[u].balance]) = 0
    BY <1>2, SumsAreFinite, NothingAddsUp
  <2>2. QED
    BY <1>2, <2>1 DEF AssetsAddUp
<1>7. ASSUME NEW t \in RewardTokens
      PROVE  /\ SumFunction([e \in EpochIds |-> EpochPaid(e, t)]) = 0
             /\ SumFunction([e \in EpochIds |-> epochs[e].rewards[t]]) = 0
  <2>1. ASSUME NEW e \in EpochIds PROVE EpochPaid(e, t) = 0
    <3>1. \A u \in Users : PartPaid(e, u, t) = 0
      BY <1>2 DEF PartPaid
    <3>2. SumFunction([u \in Users |-> PartPaid(e, u, t)]) = 0
      BY <3>1, SumsAreFinite, NothingAddsUp
    <3>3. QED
      BY <3>2 DEF EpochPaid
  <2>2. \A e \in EpochIds : epochs[e].rewards[t] = 0
    BY <1>2 DEF NoRewards
  <2>3. SumFunction([e \in EpochIds |-> EpochPaid(e, t)]) = 0
    BY <2>1, SumsAreFinite, NothingAddsUp
  <2>4. SumFunction([e \in EpochIds |-> epochs[e].rewards[t]]) = 0
    BY <2>2, SumsAreFinite, NothingAddsUp
  <2>5. QED
    BY <2>3, <2>4
<1>8. CreditsAccounted
  <2>1. \A u \in Users : accounts[u].lastEpochPaid = 0 /\ credited[u] = {}
    BY <1>2
  <2>2. \A t \in RewardTokens : rewardToken[t].rewardsPaid = 0
    BY <1>2
  <2>3. \A u \in Users : /\ accounts[u].lastEpochPaid <= currentEpoch
                         /\ \A e \in credited[u] : FALSE
    BY <1>2, <2>1
  <2>4. \A t \in RewardTokens : rewardToken[t].rewardsPaid
                                   = SumFunction([e \in EpochIds |-> EpochPaid(e, t)])
    BY <1>7, <2>2
  <2>5. QED
    BY <2>3, <2>4 DEF CreditsAccounted
<1>9. PromisesAddUp
  <2>1. \A t \in RewardTokens : rewardToken[t].rewards = 0
    BY <1>2
  <2>2. \A e \in EpochIds : epochs[e].rewards = NoRewards
    BY <1>2
  <2>3. QED
    BY <1>7, <2>1, <2>2 DEF PromisesAddUp
<1>10. QED
  BY <1>1, <1>4, <1>5, <1>6, <1>8, <1>9 DEF LockInv

\* Of the epochs before n nobody has been paid more than they have to give, and
\* of the others nothing.
LEMMA PaidUpTo ==
    ASSUME LockInv, NEW t \in RewardTokens, NEW n \in Nat,
           \A e \in EpochIds : n <= e => EpochPaid(e, t) = 0, n - 1 <= LastEpoch
    PROVE  /\ rewardToken[t].rewardsPaid
                <= SumFunction([e \in 1..(n - 1) |-> epochs[e].rewards[t]])
<1> DEFINE paid == [e \in EpochIds |-> EpochPaid(e, t)]
           give == [e \in 1..(n - 1) |-> epochs[e].rewards[t]]
<1>1. /\ 1..(n - 1) \in SUBSET EpochIds /\ IsFiniteSet(EpochIds)
      /\ IsFiniteSet(1..(n - 1))
      /\ \A e \in EpochIds : e \in 1..(n - 1) \/ n <= e
  <2>1. LastEpoch \in Nat
    BY LockRewardsAssumption
  <2>2. 1..(n - 1) \in SUBSET EpochIds
    BY <2>1 DEF EpochIds
  <2>3. \A e \in EpochIds : e \in 1..(n - 1) \/ n <= e
    BY <2>1 DEF EpochIds
  <2>4. QED
    BY <2>2, <2>3, SumsAreFinite, FS_Subset
<1>2. EpochsAddUp /\ CreditsLocked
  BY CreditsAreLocked DEF LockInv
<1>3. \A e \in EpochIds : /\ EpochPaid(e, t) \in Int
                          /\ epochs[e].rewards[t] \in Int
                          /\ EpochPaid(e, t) <= epochs[e].rewards[t]
  <2>1. \A e \in EpochIds : /\ EpochPaid(e, t) \in Nat
                            /\ epochs[e].rewards \in [RewardTokens -> Nat]
    BY <1>2, PartPaidTyped, EpochFieldsTyped
  <2>2. \A e \in EpochIds : EpochPaid(e, t) <= epochs[e].rewards[t]
    BY <1>2, EpochNotOverpaid
  <2>3. QED
    BY <2>1, <2>2
<1>4. \A e \in EpochIds : paid[e] = IF e \in 1..(n - 1) THEN paid[e] ELSE 0
  BY <1>1
<1>5. /\ \A e \in EpochIds : paid[e] \in Int
      /\ \A e \in 1..(n - 1) : paid[e] \in Int /\ give[e] \in Int /\ paid[e] <= give[e]
  BY <1>1, <1>3
<1>6. /\ rewardToken[t].rewardsPaid = SumFunctionOnSet(paid, EpochIds)
      /\ SumFunction(give) = SumFunctionOnSet(give, 1..(n - 1))
  BY DEF LockInv, CreditsAccounted, SumFunction
<1> HIDE DEF paid, give
<1>7. SumFunctionOnSet(paid, EpochIds) = SumFunctionOnSet(paid, 1..(n - 1))
  BY <1>1, <1>4, <1>5, SumOfSome
<1>8. SumFunctionOnSet(paid, 1..(n - 1)) <= SumFunctionOnSet(give, 1..(n - 1))
  BY <1>1, <1>5, SumMono
<1>9. QED
  BY <1>6, <1>7, <1>8 DEF give

\* Nobody is credited for an epoch that is not over.
LEMMA PaidWithinOver ==
    ASSUME LockInv
    PROVE  RewardsPaidBounded
<1> SUFFICES ASSUME NEW t \in RewardTokens
             PROVE  rewardToken[t].rewardsPaid
                      <= SumFunction([e \in 1..(currentEpoch - 1) |-> epochs[e].rewards[t]])
  BY DEF RewardsPaidBounded
<1>1. currentEpoch \in Nat /\ currentEpoch - 1 <= LastEpoch
  BY LockRewardsAssumption DEF LockInv, TypeOK, EpochIds
<1>2. ASSUME NEW e \in EpochIds, currentEpoch <= e
      PROVE  EpochPaid(e, t) = 0
  <2>1. \A u \in Users : e \notin credited[u]
    <3> SUFFICES ASSUME NEW u \in Users, e \in credited[u] PROVE FALSE
      OBVIOUS
    <3>1. e < accounts[u].lastEpochPaid /\ accounts[u].lastEpochPaid <= currentEpoch
      BY DEF LockInv, CreditsAccounted
    <3>2. e \in Nat /\ accounts[u].lastEpochPaid \in Nat
      BY SumsAreFinite DEF LockInv, TypeOK, Account
    <3>3. QED
      BY <1>1, <1>2, <3>1, <3>2
  <2>2. \A u \in Users : PartPaid(e, u, t) = 0
    BY <2>1 DEF PartPaid
  <2>3. SumFunction([u \in Users |-> PartPaid(e, u, t)]) = 0
    BY <2>2, SumsAreFinite, NothingAddsUp
  <2>4. QED
    BY <2>3 DEF EpochPaid
<1>3. QED
  BY <1>1, <1>2, PaidUpTo

\* Nor more than was promised for all epochs.
LEMMA PaidWithinPromised ==
    ASSUME LockInv
    PROVE  UnclaimedNeverNegative
<1> SUFFICES ASSUME NEW t \in RewardTokens
             PROVE  Unclaimed(t) >= 0
  BY DEF UnclaimedNeverNegative
<1>1. EpochsAddUp /\ CreditsLocked /\ IsFiniteSet(EpochIds)
  BY CreditsAreLocked, SumsAreFinite DEF LockInv
<1> DEFINE paid == [e \in EpochIds |-> EpochPaid(e, t)]
           give == [e \in EpochIds |-> epochs[e].rewards[t]]
<1>2. \A e \in EpochIds : paid[e] \in Int /\ give[e] \in Int /\ paid[e] <= give[e]
  <2>1. \A e \in EpochIds : EpochPaid(e, t) \in Nat /\ epochs[e].rewards[t] \in Nat
                            /\ EpochPaid(e, t) <= epochs[e].rewards[t]
    BY <1>1, PartPaidTyped, EpochNotOverpaid, EpochFieldsTyped
  <2>2. QED
    BY <2>1
<1>3. /\ rewardToken[t].rewardsPaid = SumFunctionOnSet(paid, EpochIds)
      /\ rewardToken[t].rewards = SumFunctionOnSet(give, EpochIds)
  BY DEF LockInv, CreditsAccounted, PromisesAddUp, SumFunction
<1> HIDE DEF paid, give
<1>4. SumFunctionOnSet(paid, EpochIds) <= SumFunctionOnSet(give, EpochIds)
  BY <1>1, <1>2, SumMono
<1>5. rewardToken[t].rewardsPaid \in Nat /\ rewardToken[t].rewards \in Nat
  BY DEF LockInv, TypeOK
<1>6. QED
  BY <1>3, <1>4, <1>5 DEF Unclaimed

\* The invariant of the locks holds in every reachable state.
LEMMA LockAlways == Spec => []LockInv
<1>1. Init => LockInv
  BY LockInitially
<1>2. LockInv /\ [Next]_vars => LockInv'
  BY LockStep
<1>3. QED
  BY <1>1, <1>2, PTL DEF Spec

\* Every variable keeps its type; in particular the checked subtractions of
\* deposit, withdraw and updateReward never underflow: no account is credited
\* more epochs than it has left to lock, and no epoch's total falls below the
\* lock that is taken out of it.
THEOREM LockTypeCorrect == Spec => []TypeOK
<1>1. LockInv => TypeOK
  BY DEF LockInv
<1>2. QED
  BY <1>1, LockAlways, PTL

\* For any users, deposits, relocks and withdrawals: the total of every epoch is
\* the sum of the locks in it (deposit).
THEOREM LocksAlwaysAddUp == Spec => []LocksAddUp
<1>1. LockInv => LocksAddUp
  BY DEF LockInv
<1>2. QED
  BY <1>1, LockAlways, PTL

\* For any users, epochs, rewards and precision: what updateReward has credited
\* never exceeds the rewards of the epochs that are over.
THEOREM CreditsBounded == Spec => []RewardsPaidBounded
  BY LockAlways, PaidWithinOver, PTL

\* What was credited never exceeds what was promised, so that the subtraction
\* with which the owner sets the next epoch never underflows.
THEOREM PromisesSuffice == Spec => []UnclaimedNeverNegative
  BY LockAlways, PaidWithinPromised, PTL

-----------------------------------------------------------------------------
(* How long a lock lasts.                                                  *)

\* What a step leaves alone when it is not u's: u's locks, and the epochs that
\* are in course.
LocksSame(u) ==
    \A e \in EpochIds : epochs'[e].balanceLocked[u] = epochs[e].balanceLocked[u]

InCourseKept == \A c \in EpochIds : InCourse(c) => InCourse(c)'

\* The epoch an account is looked at from is one, and not after the current one.
LEMMA FirstUnpaidTyped ==
    ASSUME LockInv, NEW u \in Users
    PROVE  /\ FirstUnpaid(u) \in EpochIds /\ FirstUnpaid(u) \in Nat
           /\ UpdatedEpoch \in EpochIds /\ UpdatedEpoch \in Nat \ {0}
           /\ FirstUnpaid(u) <= UpdatedEpoch
           /\ accounts[u].lockEpochs \in Nat
<1>1. /\ UpdatedEpoch \in EpochIds /\ currentEpoch \in EpochIds
      /\ currentEpoch <= UpdatedEpoch
  BY CurrentEpoch DEF LockInv, OrderInv, EpochsInOrder
<1>2. /\ accounts[u].lastEpochPaid \in Nat /\ accounts[u].lockEpochs \in Nat
      /\ accounts[u].lastEpochPaid <= currentEpoch
  BY DEF LockInv, TypeOK, Account, CreditsAccounted
<1>3. EpochIds = 1..LastEpoch /\ LastEpoch \in Nat
  BY LockRewardsAssumption DEF EpochIds
<1>4. QED
  BY <1>1, <1>2, <1>3 DEF FirstUnpaid

\* updateReward counts a lock down for every epoch it credits, and moves the
\* account on by no fewer epochs than that.
LEMMA CountedDown ==
    ASSUME LockInv, LocksCounted, NEW u \in Users
    PROVE  CountedFrom(u, UpdatedEpoch, UpdatedAccount(u).lockEpochs)
<1> DEFINE p == FirstUnpaid(u)
           c == UpdatedEpoch
           n == accounts[u].lockEpochs
           K == CreditedNow(u)
           Locks(d) == {e \in EpochIds : e >= d /\ epochs[e].balanceLocked[u] # 0}
<1>1. /\ p \in EpochIds /\ p \in Nat /\ c \in EpochIds /\ c \in Nat
      /\ p <= c /\ n \in Nat /\ EpochIds \subseteq Nat
  BY FirstUnpaidTyped, SumsAreFinite
<1>2. UpdatedAccount(u).lockEpochs = n - Cardinality(K)
  BY DEF UpdatedAccount, LockInv, TypeOK, Account
<1>3. K \subseteq Locks(p) /\ \A e \in K : e < c
  <2> DEFINE limit == IF p + n > c THEN c ELSE p + n
  <2>1. /\ limit \in Int /\ limit <= c
        /\ K = {e \in p..(limit - 1) : epochs[e].balanceLocked[u] # 0}
    <3>1. K = {e \in p..(limit - 1) : epochs[e].balanceLocked[u] # 0}
      BY DEF CreditedNow
    <3> HIDE DEF p, c, n, K
    <3>2. QED
      BY <1>1, <3>1
  <2> HIDE DEF limit
  <2>2. EpochIds = 1..LastEpoch /\ LastEpoch \in Nat
    BY LockRewardsAssumption DEF EpochIds
  <2>3. QED
    BY <1>1, <2>1, <2>2
<1> HIDE DEF p, c, n, K
<1>4. \/ \A e \in Locks(p) : e < p + n
      \/ InCourse(p) /\ \A e \in Locks(p) : p < e /\ e <= p + n
  BY DEF LocksCounted, CountedFrom, p, n
<1>5. Locks(c) \subseteq Locks(p) /\ \A e \in Locks(p) : e \in Nat
  <2>1. \A e \in EpochIds : e \in Nat /\ (e >= c => e >= p)
    BY <1>1
  <2>2. QED
    BY <2>1
<1> HIDE DEF Locks
<1>6. ASSUME NEW a \in Nat, a <= c, \A e \in K : a <= e
      PROVE  Cardinality(K) \in Nat /\ Cardinality(K) <= c - a
  <2>1. K \subseteq a..(c - 1)
    BY <1>1, <1>3, <1>5, <1>6
  <2>2. /\ IsFiniteSet(a..(c - 1))
        /\ Cardinality(a..(c - 1)) = c - a
    <3>1. a \in Int /\ c - 1 \in Int
      BY <1>1, <1>6
    <3>2. IF a > c - 1 THEN c - a = 0 ELSE c - 1 - a + 1 = c - a
      BY <1>1, <1>6
    <3>3. QED
      BY <3>1, <3>2, FS_Interval
  <2>3. QED
    BY <2>1, <2>2, FS_Subset, FS_CardinalityType
<1>7. p <= c /\ \A e \in K : p <= e
  BY <1>1, <1>3 DEF Locks
<1>8. CASE \A e \in Locks(p) : e < p + n
  <2>1. Cardinality(K) \in Nat /\ Cardinality(K) <= c - p
    BY <1>1, <1>6, <1>7
  <2>2. \A e \in Locks(c) : e < c + (n - Cardinality(K))
    BY <1>1, <1>5, <1>8, <2>1
  <2>3. QED
    BY <1>2, <2>2 DEF CountedFrom, Locks, c
<1>9. CASE InCourse(p) /\ \A e \in Locks(p) : p < e /\ e <= p + n
  <2>1. CASE p = c
    <3>1. Cardinality(K) \in Nat /\ Cardinality(K) <= 0
      BY <1>1, <1>6, <1>7, <2>1
    <3>2. n - Cardinality(K) = n
      BY <1>1, <3>1
    <3>3. QED
      BY <1>2, <1>9, <2>1, <3>2 DEF CountedFrom, Locks, c
  <2>2. CASE p < c
    <3>1. p + 1 \in Nat /\ p + 1 <= c /\ \A e \in K : p + 1 <= e
      BY <1>1, <1>3, <1>5, <1>9, <2>2
    <3>2. Cardinality(K) \in Nat /\ Cardinality(K) <= c - (p + 1)
      BY <1>6, <3>1
    <3>3. \A e \in Locks(c) : e < c + (n - Cardinality(K))
      BY <1>1, <1>5, <1>9, <3>2
    <3>4. QED
      BY <1>2, <3>3 DEF CountedFrom, Locks, c
  <2>3. QED
    BY <1>1, <2>1, <2>2
<1>10. QED
  BY <1>4, <1>8, <1>9

\* A user whose account and locks a step leaves alone.
LEMMA StillCounted ==
    ASSUME LockInv, LocksCounted, InCourseKept,
           NEW u \in Users, accounts'[u] = accounts[u], LocksSame(u)
    PROVE  CountedFrom(u, FirstUnpaid(u), accounts[u].lockEpochs)'
<1>1. PICK p \in EpochIds, n \in Nat :
         p = FirstUnpaid(u) /\ n = accounts[u].lockEpochs
  BY FirstUnpaidTyped
<1>2. CountedFrom(u, p, n)
  BY <1>1 DEF LocksCounted, CountedFrom
<1>3. InCourse(p) => InCourse(p)'
  BY DEF InCourseKept
<1>4. {e \in EpochIds : e >= p /\ epochs'[e].balanceLocked[u] # 0}
          = {e \in EpochIds : e >= p /\ epochs[e].balanceLocked[u] # 0}
  BY DEF LocksSame
<1>5. CountedFrom(u, p, n)'
  BY <1>2, <1>3, <1>4 DEF CountedFrom
<1>6. FirstUnpaid(u)' = p /\ accounts'[u].lockEpochs = n
  BY <1>1 DEF FirstUnpaid
<1>7. QED
  BY <1>5, <1>6 DEF CountedFrom

\* Steps that change no account and no lock.
LEMMA QuietStepCounts ==
    ASSUME LockInv, LocksCounted, InCourseKept, UNCHANGED accounts,
           \A u \in Users : LocksSame(u)
    PROVE  LocksCounted'
  BY StillCounted DEF LocksCounted

\* A user's call, which looks at the account from the current epoch from then on.
LEMMA CallCounts ==
    ASSUME LockInv, LocksCounted, InCourseKept,
           NEW u \in Users, NEW account \in Account, UpdateReward(u, account),
           account.lastEpochPaid = UpdatedEpoch,
           \A v \in Users \ {u} : LocksSame(v),
           \A c \in EpochIds, left \in Nat :
              c = UpdatedEpoch /\ left = account.lockEpochs => CountedFrom(u, c, left)'
    PROVE  LocksCounted'
<1>1. /\ accounts'[u] = account
      /\ \A v \in Users \ {u} : accounts'[v] = accounts[v]
  BY DEF UpdateReward, LockInv, TypeOK
<1>2. \A v \in Users \ {u} : CountedFrom(v, FirstUnpaid(v), accounts[v].lockEpochs)'
  BY <1>1, StillCounted
<1>3. PICK c \in EpochIds : c = UpdatedEpoch /\ c # 0
  BY FirstUnpaidTyped
<1>4. PICK left \in Nat : left = account.lockEpochs
  BY DEF Account
<1>5. FirstUnpaid(u)' = c
  BY <1>1, <1>3 DEF FirstUnpaid
<1>6. CountedFrom(u, c, left)'
  BY <1>3, <1>4
<1>7. CountedFrom(u, FirstUnpaid(u), accounts[u].lockEpochs)'
  BY <1>1, <1>4, <1>5, <1>6 DEF CountedFrom
<1>8. QED
  BY <1>2, <1>7 DEF LocksCounted

\* The calls that touch no epoch.
LEMMA AccountCallCounts ==
    ASSUME LockInv, LocksCounted, NEW u \in Users,
           \/ UpdateAccount(u) \/ ClaimReward(u) \/ Exit(u)
           \/ \E amount \in Amounts : Withdraw(u, amount)
    PROVE  LocksCounted'
<1> DEFINE old == UpdatedAccount(u)
<1>1. old \in Account /\ old.lastEpochPaid = UpdatedEpoch
  BY UpdatedAccountTyped DEF LockInv
<1>2. PICK account \in Account :
         /\ UpdateReward(u, account)
         /\ account.lastEpochPaid = UpdatedEpoch
         /\ account.lockEpochs = old.lockEpochs
  <2> HIDE DEF old
  <2>1. CASE UpdateAccount(u)
    BY <1>1, <2>1 DEF UpdateAccount, old
  <2>2. CASE ClaimReward(u)
    <3> DEFINE account == [old EXCEPT !.rewards = NoRewards]
    <3>1. /\ account \in Account /\ account.lockEpochs = old.lockEpochs
          /\ account.lastEpochPaid = old.lastEpochPaid
      BY <1>1 DEF Account, NoRewards
    <3>2. UpdateReward(u, account)
      BY <2>2 DEF ClaimReward, old
    <3> HIDE DEF account
    <3>3. QED
      BY <1>1, <3>1, <3>2
  <2>3. CASE Exit(u)
    <3> DEFINE account == [old EXCEPT !.balance = 0, !.rewards = NoRewards]
    <3>1. /\ account \in Account /\ account.lockEpochs = old.lockEpochs
          /\ account.lastEpochPaid = old.lastEpochPaid
      BY <1>1 DEF Account, NoRewards
    <3>2. UpdateReward(u, account)
      BY <2>3 DEF Exit, old
    <3> HIDE DEF account
    <3>3. QED
      BY <1>1, <3>1, <3>2
  <2>4. CASE \E amount \in Amounts : Withdraw(u, amount)
    <3>1. PICK amount \in Amounts : Withdraw(u, amount)
      BY <2>4
    <3> DEFINE account == [old EXCEPT !.balance = @ - amount]
    <3>2. amount \in Nat /\ amount <= old.balance
      BY <3>1, LockRewardsAssumption DEF Withdraw, WithdrawFrom, old
    <3>3. /\ account \in Account /\ account.lockEpochs = old.lockEpochs
          /\ account.lastEpochPaid = old.lastEpochPaid
      BY <1>1, <3>2 DEF Account
    <3>4. UpdateReward(u, account)
      BY <3>1 DEF Withdraw, old
    <3> HIDE DEF account
    <3>5. QED
      BY <1>1, <3>3, <3>4
  <2>5. QED
    BY <2>1, <2>2, <2>3, <2>4
<1>3. UNCHANGED <<now, epochs>>
  BY DEF UpdateAccount, ClaimReward, Exit, Withdraw, epochVars
<1>4. InCourseKept /\ \A v \in Users : LocksSame(v)
  BY <1>3 DEF InCourseKept, InCourse, LocksSame
<1>5. ASSUME NEW c \in EpochIds, NEW left \in Nat,
             c = UpdatedEpoch, left = account.lockEpochs
      PROVE  CountedFrom(u, c, left)'
  <2>1. CountedFrom(u, c, left)
    BY <1>2, <1>5, CountedDown
  <2>2. QED
    BY <1>3, <2>1 DEF CountedFrom, InCourse
<1>6. QED
  BY <1>2, <1>4, <1>5, CallCounts

\* A deposit locks from the current epoch, or from the one after it when that
\* one is in course, for as many epochs as the account then has to count down.
LEMMA DepositCounts ==
    ASSUME LockInv, LocksCounted, NEW u \in Users, NEW amount \in Amounts,
           NEW lockEpochs \in LockLengths, Deposit(u, amount, lockEpochs)
    PROVE  LocksCounted'
<1> DEFINE old == UpdatedAccount(u)
           newBalance == old.balance + amount
           newLock == old.lockEpochs + lockEpochs
           account == [old EXCEPT !.balance = newBalance, !.lockEpochs = newLock]
           boundary == IF ~epochs[UpdatedEpoch].isSet \/ old.lockEpochs = 0
                       THEN newLock ELSE newLock - 1
           range == NextLocked..(NextLocked + boundary - 1)
<1>1. /\ UpdateReward(u, account) /\ now' = now
      /\ epochs' = [e \in EpochIds |->
            IF e \in range THEN LockIn(epochs[e], u, newBalance) ELSE epochs[e]]
  BY DEF Deposit
<1>2. PICK c \in EpochIds : c = UpdatedEpoch /\ c \in Nat
  BY FirstUnpaidTyped
<1>3. old \in Account /\ old.lastEpochPaid = UpdatedEpoch
  BY UpdatedAccountTyped DEF LockInv
<1>4. PICK left \in Nat : left = old.lockEpochs
  BY <1>3 DEF Account
<1>5. /\ account \in Account /\ account.lastEpochPaid = UpdatedEpoch
      /\ account.lockEpochs = left + lockEpochs
      /\ amount \in Nat /\ lockEpochs \in Nat
  <2> HIDE DEF old
  <2>1. amount \in Nat /\ lockEpochs \in Nat
    BY LockRewardsAssumption
  <2>2. newBalance \in Nat /\ newLock \in Nat /\ newLock = left + lockEpochs
    BY <1>3, <1>4, <2>1 DEF Account
  <2> HIDE DEF newBalance, newLock
  <2>3. /\ account \in Account /\ account.lockEpochs = newLock
        /\ account.lastEpochPaid = old.lastEpochPaid
    BY <1>3, <2>2 DEF Account
  <2> HIDE DEF account
  <2>4. QED
    BY <1>3, <2>1, <2>2, <2>3
<1> DEFINE lockBoundary == IF ~epochs[c].isSet \/ left = 0
                           THEN left + lockEpochs ELSE left + lockEpochs - 1
           next == IF InCourse(c) THEN c + 1 ELSE c
           locked == next..(next + lockBoundary - 1)
<1>6. range = locked
  <2>1. NextLocked = next
    BY <1>2 DEF NextLocked, InCourse
  <2> HIDE DEF old, next
  <2>2. boundary = lockBoundary
    <3>1. /\ newLock = left + lockEpochs /\ newLock \in Nat
          /\ old.lockEpochs = 0 <=> left = 0
      BY <1>4, <1>5
    <3>2. epochs[UpdatedEpoch].isSet = epochs[c].isSet
      BY <1>2
    <3> HIDE DEF newLock
    <3>3. QED
      BY <1>5, <3>1, <3>2
  <2> HIDE DEF boundary, lockBoundary
  <2>3. QED
    BY <2>1, <2>2
<1>7. epochs' = [e \in EpochIds |->
            IF e \in locked THEN LockIn(epochs[e], u, newBalance) ELSE epochs[e]]
  <2> HIDE DEF range, locked, newBalance
  <2>1. QED
    BY <1>1, <1>6
<1> HIDE DEF account, old, newBalance, newLock, range, boundary
<1>8. ASSUME NEW e \in EpochIds
      PROVE  /\ epochs'[e].isSet = epochs[e].isSet
             /\ epochs'[e].start = epochs[e].start
             /\ \A v \in Users \ {u} :
                   epochs'[e].balanceLocked[v] = epochs[e].balanceLocked[v]
             /\ e \notin locked =>
                   epochs'[e].balanceLocked[u] = epochs[e].balanceLocked[u]
  <2>1. epochs[e] \in Epoch
    BY DEF LockInv, TypeOK
  <2> HIDE DEF locked
  <2>2. CASE e \in locked
    <3>1. epochs'[e] = LockIn(epochs[e], u, newBalance)
      BY <1>7, <2>2
    <3>2. QED
      BY <2>1, <2>2, <3>1 DEF LockIn, Epoch
  <2>3. CASE e \notin locked
    BY <1>7, <2>3
  <2>4. QED
    BY <2>2, <2>3
<1>9. InCourseKept /\ \A v \in Users \ {u} : LocksSame(v)
  <2>1. 1 \in EpochIds
    BY LockRewardsAssumption DEF EpochIds
  <2>2. \A d \in EpochIds : InCourse(d) => InCourse(d)'
    BY <1>1, <1>8, <2>1 DEF InCourse
  <2>3. QED
    BY <1>8, <2>2 DEF InCourseKept, LocksSame
<1>10. CountedFrom(u, c, left + lockEpochs)'
  <2> DEFINE Locks == {e \in EpochIds : e >= c /\ epochs[e].balanceLocked[u] # 0}
             After == {e \in EpochIds : e >= c /\ epochs'[e].balanceLocked[u] # 0}
  <2>1. \/ \A e \in Locks : e < c + left
        \/ InCourse(c) /\ \A e \in Locks : c < e /\ e <= c + left
    <3>1. CountedFrom(u, c, left)
      BY <1>2, <1>4, CountedDown DEF CountedFrom, old
    <3>2. QED
      BY <3>1 DEF CountedFrom
  <2>2. \A e \in After : e \in Locks \/ e \in locked
    BY <1>8
  <2>3. \A e \in Locks \cup After : e \in Nat /\ e >= c
    BY SumsAreFinite
  <2>4. InCourse(c) => InCourse(c)' /\ epochs[c].isSet
    BY <1>9 DEF InCourseKept, InCourse
  <2> HIDE DEF Locks, After
  <2>5. CASE InCourse(c) /\ left # 0 /\ \A e \in Locks : e < c + left
    <3>1. \A e \in locked : e < c + (left + lockEpochs)
      BY <1>2, <1>5, <2>4, <2>5
    <3>2. \A e \in After : e < c + (left + lockEpochs)
      BY <1>2, <1>5, <2>2, <2>3, <2>5, <3>1
    <3>3. QED
      BY <3>2 DEF CountedFrom, After
  <2>6. CASE InCourse(c) /\ (left = 0 \/ \A e \in Locks : c < e /\ e <= c + left)
    <3>1. \A e \in locked : c < e /\ e <= c + (left + lockEpochs)
      BY <1>2, <1>5, <2>4, <2>6
    <3>2. \A e \in Locks : c < e /\ e <= c + (left + lockEpochs)
      <4>1. CASE left = 0
        <5>1. Locks = {}
          BY <1>2, <2>1, <2>3, <4>1
        <5>2. QED
          BY <5>1
      <4>2. CASE \A e \in Locks : c < e /\ e <= c + left
        BY <1>2, <1>5, <2>3, <4>2
      <4>3. QED
        BY <2>6, <4>1, <4>2
    <3>3. \A e \in After : c < e /\ e <= c + (left + lockEpochs)
      BY <2>2, <3>1, <3>2
    <3>4. QED
      BY <2>4, <2>6, <3>3 DEF CountedFrom, After
  <2>7. CASE ~InCourse(c)
    <3>1. \A e \in locked : e < c + (left + lockEpochs)
      BY <1>2, <1>5, <2>7
    <3>2. \A e \in After : e < c + (left + lockEpochs)
      BY <1>2, <1>5, <2>1, <2>2, <2>3, <2>7, <3>1
    <3>3. QED
      BY <3>2 DEF CountedFrom, After
  <2>8. QED
    BY <2>1, <2>5, <2>6, <2>7
<1> HIDE DEF locked, next, lockBoundary
<1>11. \A d \in EpochIds, n \in Nat :
          d = UpdatedEpoch /\ n = account.lockEpochs => CountedFrom(u, d, n)'
  BY <1>2, <1>5, <1>10
<1>12. QED
  BY <1>1, <1>5, <1>9, <1>11, CallCounts

\* The owner sets an epoch, which changes neither a lock nor an epoch that is
\* set already.
LEMMA SetNextEpochCounts ==
    ASSUME LockInv, LocksCounted, NEW rewards \in EpochRewards,
           NEW days \in Durations, NEW start \in StartTimes,
           SetNextEpoch(rewards, days, start)
    PROVE  LocksCounted'
<1> DEFINE n == nextUnsetEpoch
           first == EpochStart(start)
           last == first + days * Day
<1>1. /\ n \in EpochIds /\ ~epochs[n].isSet /\ epochs \in [EpochIds -> Epoch]
      /\ n \in Nat
  BY SumsAreFinite DEF LockInv, TypeOK, OrderInv, EpochsInOrder
<1>2. /\ epochs' = [epochs EXCEPT ![n].start = first, ![n].finish = last,
                                  ![n].rewards = rewards, ![n].isSet = TRUE]
      /\ UNCHANGED <<now, accounts>>
  BY DEF SetNextEpoch
<1> HIDE DEF n, first, last
<1>3. /\ \A e \in EpochIds \ {n} : epochs'[e] = epochs[e]
      /\ epochs'[n].balanceLocked = epochs[n].balanceLocked
  BY <1>1, <1>2 DEF Epoch
<1>4. InCourseKept
  <2>1. ASSUME NEW c \in EpochIds, InCourse(c) PROVE InCourse(c)'
    <3>1. c # n
      BY <1>1, <2>1 DEF InCourse
    <3>2. c # 1 \/ 1 # n
      BY <3>1
    <3>3. QED
      BY <1>2, <1>3, <2>1, <3>1 DEF InCourse
  <2>2. QED
    BY <2>1 DEF InCourseKept
<1>5. \A u \in Users : LocksSame(u)
  BY <1>3 DEF LocksSame
<1>6. QED
  BY <1>2, <1>4, <1>5, QuietStepCounts

\* Time passes, and an epoch in course stays in course.
LEMMA TickCounts ==
    ASSUME LockInv, LocksCounted, Tick
    PROVE  LocksCounted'
<1>1. /\ now' \in Nat /\ now' > now /\ now \in Nat
      /\ UNCHANGED <<epochs, accounts>>
  BY LockRewardsAssumption
     DEF Tick, epochVars, rewardVars, LockInv, OrderInv, EpochsInOrder
<1>2. 1 \in EpochIds /\ epochs[1].start \in Nat
  BY LockRewardsAssumption DEF LockInv, OrderInv, ShapesOK, EpochIds
<1>3. epochs[1].start <= now => epochs[1].start <= now'
  BY <1>1, <1>2
<1>4. InCourseKept /\ \A u \in Users : LocksSame(u)
  BY <1>1, <1>3 DEF InCourseKept, InCourse, LocksSame
<1>5. QED
  BY <1>1, <1>4, QuietStepCounts

\* Every step keeps the locks within what their accounts have left to count.
LEMMA StepCounts ==
    ASSUME LockInv, LocksCounted, [Next]_vars
    PROVE  LocksCounted'
<1>1. ASSUME UNCHANGED <<now, epochs, accounts>> PROVE LocksCounted'
  <2>1. InCourseKept /\ \A u \in Users : LocksSame(u)
    BY <1>1 DEF InCourseKept, InCourse, LocksSame
  <2>2. QED
    BY <1>1, <2>1, QuietStepCounts
<1>2. CASE UserNext
  <2>1. CASE UpdateEpochs
    BY <1>1, <2>1 DEF UpdateEpochs, epochVars
  <2>2. CASE \E u \in Users : \/ UpdateAccount(u) \/ ClaimReward(u) \/ Exit(u)
                              \/ \E amount \in Amounts : Withdraw(u, amount)
    BY <2>2, AccountCallCounts
  <2>3. CASE \E u \in Users, amount \in Amounts, lockEpochs \in LockLengths :
                Deposit(u, amount, lockEpochs)
    BY <2>3, DepositCounts
  <2>4. QED
    BY <1>2, <2>1, <2>2, <2>3 DEF UserNext
<1>3. CASE \E rewards \in EpochRewards, days \in Durations, start \in StartTimes :
              SetNextEpoch(rewards, days, start)
  BY <1>3, SetNextEpochCounts
<1>4. CASE Tick
  BY <1>4, TickCounts
<1>5. CASE UNCHANGED <<now, epochVars, rewardVars>>
  BY <1>1, <1>5 DEF epochVars, rewardVars
<1>6. QED
  BY <1>2, <1>3, <1>4, <1>5
     DEF Next, OwnerNext, RecoverERC20, ChangeRecoverWhitelist,
         ChangeEnforceTime, ChangeMaxEpochs, SetPaused, FundRewards, vars

\* While the lock is enforced only the owner of an account with no lock left
\* takes tokens out of it, and then all epochs with a lock of theirs are over.
LEMMA LeavesAfterLocks ==
    ASSUME LockInv, LocksCounted, [Next]_vars, enforceTime,
           NEW u \in Users, accounts'[u].balance < accounts[u].balance,
           NEW e \in EpochIds, epochs[e].balanceLocked[u] # 0
    PROVE  Over(e)
<1>1. /\ UpdatedAccount(u) \in Account
      /\ UpdatedAccount(u).balance = accounts[u].balance
      /\ accounts[u].balance \in Nat
  BY UpdatedAccountTyped DEF LockInv, Account
<1>2. UpdatedAccount(u).lockEpochs = 0
  <2>1. ASSUME NEW v \in Users, NEW account \in Account, UpdateReward(v, account)
        PROVE  u = v /\ account.balance < accounts[u].balance
    <3>1. \A w \in Users : accounts'[w] = IF w = v THEN account ELSE accounts[w]
      BY <2>1 DEF UpdateReward, LockInv, TypeOK
    <3>2. u = v
      <4>1. u # v => accounts'[u] = accounts[u]
        BY <3>1
      <4>2. QED
        BY <1>1, <4>1
    <3>3. accounts'[u] = account
      BY <3>1, <3>2
    <3>4. QED
      BY <3>2, <3>3
  <2>2. accounts' # accounts
    BY <1>1
  <2>3. UserNext
    BY <2>2 DEF Next, OwnerNext, SetNextEpoch, RecoverERC20, FundRewards, Tick,
                ChangeRecoverWhitelist, ChangeEnforceTime, ChangeMaxEpochs,
                SetPaused, rewardVars, vars
  <2>4. PICK v \in Users :
           \/ UpdateAccount(v) \/ ClaimReward(v) \/ Exit(v)
           \/ \E amount \in Amounts : Withdraw(v, amount)
           \/ \E amount \in Amounts, lockEpochs \in LockLengths :
                 Deposit(v, amount, lockEpochs)
    BY <2>2, <2>3 DEF UserNext, UpdateEpochs
  <2> DEFINE old == UpdatedAccount(v)
  <2>5. old \in Account /\ old.balance = accounts[v].balance
    BY UpdatedAccountTyped DEF LockInv
  <2>6. CASE UpdateAccount(v)
    BY <1>1, <2>1, <2>5, <2>6 DEF UpdateAccount
  <2>7. CASE ClaimReward(v)
    <3> DEFINE account == [old EXCEPT !.rewards = NoRewards]
    <3>1. UpdateReward(v, account)
      BY <2>7 DEF ClaimReward
    <3> HIDE DEF old
    <3>2. account \in Account /\ account.balance = accounts[v].balance
      BY <2>5 DEF Account, NoRewards
    <3> HIDE DEF account
    <3>3. u = v /\ account.balance < accounts[u].balance
      BY <2>1, <3>1, <3>2
    <3>4. QED
      BY <1>1, <3>2, <3>3
  <2>8. CASE \E amount \in Amounts, lockEpochs \in LockLengths :
                Deposit(v, amount, lockEpochs)
    <3>1. PICK amount \in Amounts, lockEpochs \in LockLengths :
             Deposit(v, amount, lockEpochs)
      BY <2>8
    <3> DEFINE account == [old EXCEPT !.balance = old.balance + amount,
                                      !.lockEpochs = old.lockEpochs + lockEpochs]
    <3>2. UpdateReward(v, account)
      BY <2>5, <3>1 DEF Deposit, Account
    <3>3. amount \in Nat /\ lockEpochs \in Nat
      BY LockRewardsAssumption
    <3>4. account \in Account /\ account.balance = accounts[v].balance + amount
      <4> HIDE DEF old
      <4>1. /\ old.balance + amount \in Nat /\ old.lockEpochs + lockEpochs \in Nat
            /\ old.balance = accounts[v].balance
        BY <2>5, <3>3 DEF Account
      <4> DEFINE b == old.balance + amount
                 l == old.lockEpochs + lockEpochs
      <4> HIDE DEF b, l
      <4>2. /\ [old EXCEPT !.balance = b, !.lockEpochs = l] \in Account
            /\ [old EXCEPT !.balance = b, !.lockEpochs = l].balance = b
        BY <2>5, <4>1 DEF Account, b, l
      <4>3. QED
        BY <4>1, <4>2 DEF b, l
    <3> HIDE DEF account, old
    <3>5. u = v /\ account.balance < accounts[u].balance
      BY <2>1, <3>2, <3>4
    <3>6. QED
      BY <1>1, <3>3, <3>4, <3>5
  <2>9. CASE Exit(v) \/ \E amount \in Amounts : Withdraw(v, amount)
    <3>1. old.lockEpochs = 0
      BY <2>9 DEF Exit, Withdraw, WithdrawFrom, MayWithdraw
    <3>2. \A w \in Users \ {v} : accounts'[w] = accounts[w]
      BY <2>9 DEF Exit, Withdraw, UpdateReward, LockInv, TypeOK
    <3>3. u = v
      BY <1>1, <3>2
    <3>4. QED
      BY <3>1, <3>3
  <2>10. QED
    BY <2>4, <2>6, <2>7, <2>8, <2>9
<1>3. PICK c \in EpochIds : c = UpdatedEpoch /\ c \in Nat
  BY FirstUnpaidTyped
<1>4. CountedFrom(u, c, 0)
  BY <1>2, <1>3, CountedDown DEF CountedFrom
<1>5. e \in Nat /\ e < c
  <2>1. e \in Nat
    BY SumsAreFinite
  <2>2. QED
    BY <1>3, <1>4, <2>1 DEF CountedFrom
<1>6. epochs[e].finish <= now
  BY <1>3, <1>5, CurrentEpoch DEF LockInv
<1>7. epochs[e].isSet
  BY <1>3, <1>5, OverHasStarted DEF LockInv
<1>8. QED
  BY <1>6, <1>7 DEF Over

\* For any users, lock lengths, relocks, late visits and switches of the
\* enforcement: while it is on, nobody's tokens leave before every epoch they
\* were locked in is over (_withdraw, deposit and updateReward).
THEOREM LocksHold == Spec => LockedFundsStay
<1> DEFINE Stay == \A u \in Users :
                      /\ enforceTime
                      /\ accounts'[u].balance < accounts[u].balance
                      => \A e \in EpochIds : epochs[e].balanceLocked[u] # 0 => Over(e)
           Inv == LockInv /\ LocksCounted
<1>1. Init => Inv
  <2>1. ASSUME Init PROVE LocksCounted
    <3>1. \A u \in Users, e \in EpochIds : epochs[e].balanceLocked[u] = 0
      BY <2>1 DEF Init
    <3>2. QED
      BY <3>1 DEF LocksCounted, CountedFrom
  <2>2. QED
    BY <2>1, LockInitially
<1>2. Inv /\ [Next]_vars => Inv'
  BY LockStep, StepCounts
<1>3. Inv /\ [Next]_vars => [Stay]_vars
  BY LeavesAfterLocks
<1>4. LockedFundsStay <=> [][Stay]_vars
  BY DEF LockedFundsStay
<1>5. QED
  BY <1>1, <1>2, <1>3, <1>4, PTL DEF Spec
=============================================================================
