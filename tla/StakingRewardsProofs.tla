------------------------ MODULE StakingRewardsProofs ------------------------
(***************************************************************************)
(* What a staker has earned is never taken back and never exceeds what was *)
(* announced, for any stakers, rewards, durations, timestamps and          *)
(* precision.                                                              *)
(***************************************************************************)
EXTENDS StakingRewards, FiniteSums, TLAPS

\* The index was last brought up to date in the past and not after the end of
\* the period, and no staker is ahead of it.
AccrualInv ==
    /\ now \in Nat /\ periodFinish \in Nat /\ rewardRate \in Nat
    /\ rewardsDuration \in Nat /\ lastUpdateTime \in Nat
    /\ rewardPerTokenStored \in Nat
    /\ userRewardPerTokenPaid \in [Users -> Nat]
    /\ rewards \in [Users -> Nat]
    /\ totalSupply \in Nat
    /\ balances \in [Users -> Nat]
    /\ paid \in [Users -> Nat]
    /\ lastUpdateTime <= now /\ lastUpdateTime <= periodFinish
    /\ \A u \in Users : userRewardPerTokenPaid[u] <= rewardPerTokenStored

\* Dividing by the supply or the precision keeps the order.
LEMMA QuotientsOrdered ==
    ASSUME NEW a \in Nat, NEW b \in Nat, NEW c \in Nat \ {0}, a <= b
    PROVE  /\ a \div c \in Nat
           /\ a \div c <= b \div c
<1>1. a \div c \in Nat /\ b \div c \in Nat
  BY SMT
<1>2. c * (a \div c) <= a /\ b < c * ((b \div c) + 1)
  BY SMT
<1>3. c * (a \div c) < c * ((b \div c) + 1)
  BY <1>1, <1>2
<1>4. ASSUME (b \div c) + 1 <= a \div c
      PROVE  c * ((b \div c) + 1) <= c * (a \div c)
  BY <1>1, <1>4
<1>5. QED
  BY <1>1, <1>3, <1>4

\* A product grows with its first factor.
LEMMA ProductsOrdered ==
    ASSUME NEW a \in Nat, NEW b \in Nat, NEW c \in Nat, a <= b
    PROVE  a * c \in Nat /\ b * c \in Nat /\ a * c <= b * c
  OBVIOUS

\* Products of naturals are naturals.
LEMMA ProductsNat ==
    ASSUME NEW a \in Nat, NEW b \in Nat
    PROVE  a * b \in Nat
  OBVIOUS

\* The clock of the index runs no further than the period, and not backwards.
LEMMA ApplicableTime ==
    ASSUME AccrualInv
    PROVE  /\ LastTimeRewardApplicable \in Nat
           /\ lastUpdateTime <= LastTimeRewardApplicable
           /\ LastTimeRewardApplicable <= now
           /\ LastTimeRewardApplicable <= periodFinish
  BY DEF AccrualInv, LastTimeRewardApplicable

\* The index does not fall.
LEMMA IndexGrows ==
    ASSUME AccrualInv
    PROVE  /\ RewardPerToken \in Nat
           /\ rewardPerTokenStored <= RewardPerToken
<1> DEFINE gained ==
        (LastTimeRewardApplicable - lastUpdateTime) * rewardRate * Precision
<1>1. gained \in Nat
  <2>1. LastTimeRewardApplicable - lastUpdateTime \in Nat
    BY ApplicableTime DEF AccrualInv
  <2>2. (LastTimeRewardApplicable - lastUpdateTime) * rewardRate \in Nat
    BY <2>1, ProductsNat DEF AccrualInv
  <2>3. QED
    BY <2>2, ProductsNat, ConstantsAssumption
<1> HIDE DEF gained
<1>2. CASE totalSupply = 0
  BY <1>2 DEF AccrualInv, RewardPerToken
<1>3. CASE totalSupply # 0
  <2>1. gained \div totalSupply \in Nat
    <3>1. gained \in Nat /\ totalSupply \in Nat \ {0} /\ gained <= gained
      BY <1>1, <1>3 DEF AccrualInv
    <3>2. QED
      BY <3>1, QuotientsOrdered
  <2>2. RewardPerToken = rewardPerTokenStored + (gained \div totalSupply)
    BY <1>3 DEF RewardPerToken, gained
  <2>3. QED
    BY <2>1, <2>2 DEF AccrualInv
<1>4. QED
  BY <1>2, <1>3

\* What a staker of the given stake earns between two values of the index.
Gained(stake, from, to) == (stake * (to - from)) \div Precision

\* What a stake gains between two values of the index is a natural.
LEMMA GainedNat ==
    ASSUME NEW stake \in Nat, NEW from \in Nat, NEW to \in Nat, from <= to
    PROVE  Gained(stake, from, to) \in Nat
<1>1. to - from \in Nat
  OBVIOUS
<1>2. stake * (to - from) \in Nat /\ stake * (to - from) <= stake * (to - from)
  BY <1>1, ProductsNat
<1>3. QED
  BY <1>2, ConstantsAssumption, QuotientsOrdered DEF Gained

\* A stake gains no less up to a later value of the index.
LEMMA GainedOrdered ==
    ASSUME NEW stake \in Nat, NEW from \in Nat, NEW to \in Nat,
           NEW later \in Nat, from <= to, to <= later
    PROVE  Gained(stake, from, to) <= Gained(stake, from, later)
<1>1. to - from \in Nat /\ later - from \in Nat /\ to - from <= later - from
  OBVIOUS
<1>2. /\ stake * (to - from) \in Nat /\ stake * (later - from) \in Nat
      /\ stake * (to - from) <= stake * (later - from)
  BY <1>1
<1>3. QED
  BY <1>2, ConstantsAssumption, QuotientsOrdered DEF Gained

\* earned() is what the stake gained since the user's last call, and what is
\* on account.
LEMMA EarnedIsGained ==
    ASSUME AccrualInv, NEW u \in Users
    PROVE  /\ Earned(u) = Gained(balances[u], userRewardPerTokenPaid[u],
                                 RewardPerToken) + rewards[u]
           /\ Earned(u) \in Nat
<1>1. Gained(balances[u], userRewardPerTokenPaid[u], RewardPerToken) \in Nat
  <2>1. /\ balances[u] \in Nat /\ userRewardPerTokenPaid[u] \in Nat
        /\ RewardPerToken \in Nat
        /\ userRewardPerTokenPaid[u] <= RewardPerToken
    BY IndexGrows DEF AccrualInv
  <2>2. QED
    BY <2>1, GainedNat
<1>2. QED
  BY <1>1 DEF Earned, Gained, AccrualInv

\* Right after an update the index is where it was before it.
LEMMA FreshIndex ==
    ASSUME AccrualInv, AccrualInv',
           rewardPerTokenStored' = RewardPerToken,
           lastUpdateTime' = LastTimeRewardApplicable'
    PROVE  RewardPerToken' = RewardPerToken
<1>1. /\ lastUpdateTime' \in Nat /\ rewardRate' \in Nat
      /\ totalSupply' \in Nat
  BY DEF AccrualInv
<1>2. \A x, y \in Nat, d \in Nat \ {0} : ((x - x) * y * Precision) \div d = 0
  <2>1. \A x, y \in Nat : (x - x) * y * Precision = 0
    BY ConstantsAssumption
  <2>2. \A d \in Nat \ {0} : 0 \div d = 0
    OBVIOUS
  <2>3. QED
    BY <2>1, <2>2
<1>3. CASE totalSupply' = 0
  BY <1>3, <1>1, IndexGrows DEF RewardPerToken
<1>4. CASE totalSupply' # 0
  <2>1. ((LastTimeRewardApplicable' - lastUpdateTime') * rewardRate'
            * Precision) \div totalSupply' = 0
    BY <1>1, <1>2, <1>4
  <2>2. QED
    BY <2>1, <1>4, IndexGrows DEF RewardPerToken
<1>5. QED
  BY <1>3, <1>4

-----------------------------------------------------------------------------
\* The stakers' accounts as they are.
Accounts == <<userRewardPerTokenPaid, rewards, balances, paid>>

\* A step of time, of the period or of the tokens that leaves the accounts
\* alone and does not move the index back takes nothing from anybody.
LEMMA UntouchedKeep ==
    ASSUME AccrualInv, AccrualInv', UNCHANGED Accounts,
           RewardPerToken' \in Nat, RewardPerToken <= RewardPerToken', NEW u \in Users
    PROVE  paid'[u] + Earned(u)' >= paid[u] + Earned(u)
<1>1. Earned(u)' = Gained(balances[u], userRewardPerTokenPaid[u],
                          RewardPerToken') + rewards[u]
  BY DEF Earned, Gained, Accounts
<1>2. /\ balances[u] \in Nat /\ userRewardPerTokenPaid[u] \in Nat
      /\ RewardPerToken \in Nat
      /\ userRewardPerTokenPaid[u] <= RewardPerToken
      /\ rewards[u] \in Nat /\ paid[u] \in Nat
  BY IndexGrows DEF AccrualInv
<1>3. RewardPerToken' \in Nat /\ userRewardPerTokenPaid[u] <= RewardPerToken'
  BY <1>2
<1>4. Gained(balances[u], userRewardPerTokenPaid[u], RewardPerToken)
        <= Gained(balances[u], userRewardPerTokenPaid[u], RewardPerToken')
  BY <1>2, <1>3, GainedOrdered
<1>5. /\ Gained(balances[u], userRewardPerTokenPaid[u], RewardPerToken) \in Nat
      /\ Gained(balances[u], userRewardPerTokenPaid[u], RewardPerToken') \in Nat
  BY <1>2, <1>3, GainedNat
<1>6. QED
  BY <1>1, <1>2, <1>4, <1>5, EarnedIsGained DEF Accounts

\* A staker's call brings the account to what it leaves there, and touches
\* nobody else's.
LEMMA UpdateAccrues ==
    ASSUME AccrualInv, NEW u \in Users, NEW left \in Nat,
           UpdateRewardLeaving(u, left), UNCHANGED <<timeVars, periodVars>>,
           totalSupply' \in Nat, balances' \in [Users -> Nat],
           paid' \in [Users -> Nat],
           \A v \in Users \ {u} :
              balances'[v] = balances[v] /\ paid'[v] = paid[v]
    PROVE  /\ AccrualInv'
           /\ Earned(u)' = left
           /\ \A v \in Users \ {u} : paid'[v] + Earned(v)' = paid[v] + Earned(v)
<1>1. /\ rewardPerTokenStored' = RewardPerToken
      /\ lastUpdateTime' = LastTimeRewardApplicable
      /\ rewards' = [rewards EXCEPT ![u] = left]
      /\ userRewardPerTokenPaid' =
            [userRewardPerTokenPaid EXCEPT ![u] = RewardPerToken]
  BY DEF UpdateRewardLeaving, UpdateIndex
<1>2. LastTimeRewardApplicable' = LastTimeRewardApplicable
  BY DEF LastTimeRewardApplicable, timeVars, periodVars
<1>3. \A v \in Users :
          userRewardPerTokenPaid'[v] \in Nat
          /\ userRewardPerTokenPaid'[v] <= RewardPerToken
  BY <1>1, IndexGrows DEF AccrualInv
<1>4. AccrualInv'
  BY <1>1, <1>3, IndexGrows, ApplicableTime
     DEF AccrualInv, timeVars, periodVars
<1>5. RewardPerToken' = RewardPerToken
  BY <1>1, <1>2, <1>4, FreshIndex
<1>6. Earned(u)' = left
  <2>1. /\ balances'[u] \in Nat /\ rewards'[u] = left
        /\ userRewardPerTokenPaid'[u] = RewardPerToken
    BY <1>1 DEF AccrualInv
  <2>2. balances'[u] * (RewardPerToken - RewardPerToken) = 0
    BY <2>1, IndexGrows
  <2>3. 0 \div Precision = 0
    BY ConstantsAssumption
  <2>4. Earned(u)' = (balances'[u] * (RewardPerToken - RewardPerToken))
                        \div Precision + left
    BY <1>5, <2>1 DEF Earned
  <2>5. QED
    BY <2>2, <2>3, <2>4
<1>7. \A v \in Users \ {u} : Earned(v)' = Earned(v)
  BY <1>1, <1>5 DEF Earned, AccrualInv
<1>8. QED
  BY <1>4, <1>6, <1>7

\* Nobody loses anything.
Kept == \A u \in Users : paid'[u] + Earned(u)' >= paid[u] + Earned(u)

\* stake and withdraw bring the index up to date before they change a stake.
LEMMA StakeKeeps ==
    ASSUME AccrualInv, NEW u \in Users, NEW amount \in Amounts,
           Stake(u, amount) \/ Withdraw(u, amount)
    PROVE  AccrualInv' /\ Kept
<1>1. amount \in Nat
  BY ConstantsAssumption
<1>2. /\ UpdateRewardLeaving(u, Earned(u)) /\ paid' = paid
      /\ UNCHANGED <<timeVars, periodVars>>
  BY DEF Stake, Withdraw, UpdateReward, tokenVars
<1>3. /\ totalSupply' \in Nat /\ balances' \in [Users -> Nat]
      /\ \A v \in Users \ {u} : balances'[v] = balances[v]
  BY <1>1 DEF Stake, Withdraw, Unstake, AccrualInv
<1>4. Earned(u) \in Nat /\ paid \in [Users -> Nat]
  BY EarnedIsGained DEF AccrualInv
<1>5. /\ AccrualInv'
      /\ Earned(u)' = Earned(u)
      /\ \A v \in Users \ {u} : paid'[v] + Earned(v)' = paid[v] + Earned(v)
  BY <1>2, <1>3, <1>4, UpdateAccrues
<1>6. \A v \in Users : paid[v] + Earned(v) \in Nat
  BY EarnedIsGained DEF AccrualInv
<1>7. QED
  BY <1>2, <1>5, <1>6 DEF Kept

\* getReward and exit pay what is on account and clear it.
LEMMA PayKeeps ==
    ASSUME AccrualInv, NEW u \in Users, GetReward(u) \/ Exit(u)
    PROVE  AccrualInv' /\ Kept
<1>1. /\ UpdateRewardLeaving(u, 0)
      /\ paid' = [paid EXCEPT ![u] = @ + Earned(u)]
      /\ UNCHANGED <<timeVars, periodVars>>
  BY DEF GetReward, Exit, PayReward
<1>2. /\ totalSupply' \in Nat /\ balances' \in [Users -> Nat]
      /\ \A v \in Users \ {u} : balances'[v] = balances[v]
  BY DEF GetReward, Exit, Unstake, AccrualInv, stakeVars
<1>3. Earned(u) \in Nat
  BY EarnedIsGained
<1>4. /\ paid' \in [Users -> Nat] /\ paid'[u] = paid[u] + Earned(u)
      /\ \A v \in Users \ {u} : paid'[v] = paid[v]
  BY <1>1, <1>3 DEF AccrualInv
<1>5. /\ AccrualInv'
      /\ Earned(u)' = 0
      /\ \A v \in Users \ {u} : paid'[v] + Earned(v)' = paid[v] + Earned(v)
  BY <1>1, <1>2, <1>4, UpdateAccrues
<1>6. \A v \in Users : paid[v] + Earned(v) \in Nat
  BY EarnedIsGained DEF AccrualInv
<1>7. QED
  BY <1>4, <1>5, <1>6 DEF Kept

\* A new rate applies from now on.
LEMMA NotifyKeeps ==
    ASSUME AccrualInv, NEW reward \in Rewards, NotifyRewardAmount(reward)
    PROVE  AccrualInv' /\ Kept
<1>1. /\ rewardsDuration \in Nat \ {0} /\ reward \in Nat
      /\ rewardPerTokenStored' = RewardPerToken
      /\ rewardRate' = NewRate(reward)
      /\ lastUpdateTime' = now /\ periodFinish' = now + rewardsDuration
      /\ now' = now /\ rewardsDuration' = rewardsDuration
      /\ totalSupply' = totalSupply
      /\ UNCHANGED Accounts
  BY ConstantsAssumption
     DEF NotifyRewardAmount, AccrueBeforeNotify, AccrualInv, timeVars,
         stakeVars, tokenVars, Accounts
<1>2. NewRate(reward) \in Nat
  <2>1. now < periodFinish => (periodFinish - now) * rewardRate \in Nat
    BY ProductsNat DEF AccrualInv
  <2>2. \A n \in Nat : n \div rewardsDuration \in Nat
    BY <1>1, QuotientsOrdered
  <2>3. now < periodFinish =>
            reward + (periodFinish - now) * rewardRate \in Nat
    BY <1>1, <2>1
  <2>4. QED
    BY <1>1, <2>2, <2>3 DEF NewRate, AccrualInv
<1>3. AccrualInv'
  BY <1>1, <1>2, IndexGrows DEF AccrualInv, Accounts
<1>4. LastTimeRewardApplicable' = lastUpdateTime'
  BY <1>1 DEF LastTimeRewardApplicable, AccrualInv
<1>5. RewardPerToken' = RewardPerToken
  BY <1>1, <1>3, <1>4, FreshIndex
<1>6. RewardPerToken' \in Nat /\ RewardPerToken <= RewardPerToken'
  BY <1>5, IndexGrows
<1>7. QED
  BY <1>1, <1>3, <1>6, UntouchedKeep DEF Kept

\* Time alone only adds to what is earned.
LEMMA TickKeeps ==
    ASSUME AccrualInv, Tick
    PROVE  AccrualInv' /\ Kept
<1>1. /\ now' \in Nat /\ now < now'
      /\ UNCHANGED <<periodVars, indexVars, stakeVars, tokenVars>>
  BY ConstantsAssumption DEF Tick
<1>2. AccrualInv'
  BY <1>1 DEF AccrualInv, periodVars, indexVars, stakeVars, tokenVars
<1>3. /\ LastTimeRewardApplicable' \in Nat
      /\ LastTimeRewardApplicable <= LastTimeRewardApplicable'
  BY <1>1 DEF LastTimeRewardApplicable, AccrualInv, periodVars
<1>4. RewardPerToken' \in Nat /\ RewardPerToken <= RewardPerToken'
  <2>1. CASE totalSupply = 0
    BY <1>1, <2>1, IndexGrows DEF RewardPerToken, indexVars, stakeVars
  <2>2. CASE totalSupply # 0
    <3> DEFINE before == LastTimeRewardApplicable - lastUpdateTime
               after  == LastTimeRewardApplicable' - lastUpdateTime
    <3>1. before \in Nat /\ after \in Nat /\ before <= after
      <4>1. /\ lastUpdateTime \in Nat /\ LastTimeRewardApplicable \in Nat
            /\ lastUpdateTime <= LastTimeRewardApplicable
        BY ApplicableTime DEF AccrualInv
      <4>2. \A x, y, z \in Nat : x <= y /\ y <= z =>
               y - x \in Nat /\ z - x \in Nat /\ y - x <= z - x
        OBVIOUS
      <4>3. QED
        BY <1>3, <4>1, <4>2 DEF before, after
    <3> HIDE DEF before, after
    <3>2. /\ before * rewardRate \in Nat /\ after * rewardRate \in Nat
          /\ before * rewardRate <= after * rewardRate
      BY <3>1, ProductsOrdered DEF AccrualInv
    <3>3. /\ before * rewardRate * Precision \in Nat
          /\ after * rewardRate * Precision \in Nat
          /\ before * rewardRate * Precision <= after * rewardRate * Precision
      BY <3>2, ProductsOrdered, ConstantsAssumption
    <3>4. /\ (after * rewardRate * Precision) \div totalSupply \in Nat
          /\ (before * rewardRate * Precision) \div totalSupply
                <= (after * rewardRate * Precision) \div totalSupply
      <4>1. totalSupply \in Nat \ {0}
        BY <2>2 DEF AccrualInv
      <4>2. after * rewardRate * Precision <= after * rewardRate * Precision
        BY <3>3
      <4>3. QED
        BY <3>3, <4>1, <4>2, QuotientsOrdered
    <3>5. /\ RewardPerToken = rewardPerTokenStored +
                (before * rewardRate * Precision) \div totalSupply
          /\ RewardPerToken' = rewardPerTokenStored +
                (after * rewardRate * Precision) \div totalSupply
      BY <1>1, <2>2
         DEF RewardPerToken, before, after, indexVars, stakeVars, periodVars
    <3>6. (before * rewardRate * Precision) \div totalSupply \in Int
      BY <2>2, <3>3 DEF AccrualInv
    <3>7. QED
      BY <3>4, <3>5, <3>6 DEF AccrualInv
  <2>3. QED
    BY <2>1, <2>2
<1>5. UNCHANGED Accounts
  BY <1>1 DEF Accounts, indexVars, stakeVars, tokenVars
<1>6. QED
  BY <1>2, <1>4, <1>5, UntouchedKeep DEF Kept

\* Pauses, transfers and a new duration for the next period.
LEMMA OthersKeep ==
    ASSUME AccrualInv,
           \/ SetPaused
           \/ \E amount \in Rewards : FundRewards(amount) \/ RecoverERC20(amount)
           \/ \E duration \in Durations : SetRewardsDuration(duration)
           \/ UNCHANGED vars
    PROVE  AccrualInv' /\ Kept
<1>1. /\ rewardsDuration' \in Nat
      /\ now' = now /\ periodFinish' = periodFinish /\ rewardRate' = rewardRate
      /\ paid' = paid
      /\ UNCHANGED <<indexVars, stakeVars>>
  BY ConstantsAssumption
     DEF SetPaused, FundRewards, RecoverERC20, SetRewardsDuration, AccrualInv,
         vars, timeVars, periodVars, tokenVars
<1>2. AccrualInv'
  BY <1>1 DEF AccrualInv, indexVars, stakeVars
<1>3. RewardPerToken' = RewardPerToken
  BY <1>1 DEF RewardPerToken, LastTimeRewardApplicable, indexVars, stakeVars
<1>4. RewardPerToken' \in Nat /\ RewardPerToken <= RewardPerToken'
  BY <1>3, IndexGrows
<1>5. UNCHANGED Accounts
  BY <1>1 DEF Accounts, indexVars, stakeVars
<1>6. QED
  BY <1>2, <1>4, <1>5, UntouchedKeep DEF Kept

\* No step turns the index or the clock of the rewards back.
LEMMA StepKeeps ==
    ASSUME AccrualInv, [Next]_vars
    PROVE  AccrualInv' /\ Kept
<1>1. CASE Tick
  BY <1>1, TickKeeps
<1>2. CASE \E u \in Users, amount \in Amounts :
              Stake(u, amount) \/ Withdraw(u, amount)
  BY <1>2, StakeKeeps
<1>3. CASE \E u \in Users : GetReward(u) \/ Exit(u)
  BY <1>3, PayKeeps
<1>4. CASE \E amount \in Rewards : NotifyRewardAmount(amount)
  BY <1>4, NotifyKeeps
<1>5. CASE \/ SetPaused
           \/ \E amount \in Rewards : FundRewards(amount) \/ RecoverERC20(amount)
           \/ \E duration \in Durations : SetRewardsDuration(duration)
           \/ UNCHANGED vars
  BY <1>5, OthersKeep
<1>6. QED
  BY <1>1, <1>2, <1>3, <1>4, <1>5 DEF Next

\* For any number of stakers, whatever they and the distributor do and when:
\* no stake, withdrawal, claim, announcement or pause lowers what a staker has
\* received and earned in total (the modifier updateReward before every change
\* of supply or rate).
THEOREM EarningsSafe == Spec => EarnedNeverLost
<1>1. Init => AccrualInv
  BY ConstantsAssumption DEF Init, AccrualInv
<1>2. AccrualInv /\ [Next]_vars => AccrualInv'
  BY StepKeeps
<1>3. AccrualInv /\ [Next]_vars =>
          [\A u \in Users : paid'[u] + Earned(u)' >= paid[u] + Earned(u)]_vars
  BY StepKeeps DEF Kept
<1>4. QED
  BY <1>1, <1>2, <1>3, PTL DEF Spec, EarnedNeverLost

-----------------------------------------------------------------------------
(* The stakes add up.                                                      *)

\* The sum of the stakes moves with the stake of one.
LEMMA OneStakeMoves ==
    ASSUME NEW before \in [Users -> Nat], NEW after \in [Users -> Nat],
           NEW u \in Users, \A v \in Users \ {u} : after[v] = before[v]
    PROVE  SumFunctionOnSet(after, Users)
               = SumFunctionOnSet(before, Users) + after[u] - before[u]
  BY FiniteAssumption, SumChange

\* A staker's shares move into the farm, or out of it when moved is negative.
LEMMA SharesMove ==
    ASSUME AccrualInv, AccrualInv', StakesAddUp, shares \in [Users -> Nat],
           NEW u \in Users, NEW moved \in Int,
           totalSupply' = totalSupply + moved,
           balances' = [balances EXCEPT ![u] = @ + moved],
           shares' = [shares EXCEPT ![u] = @ - moved],
           moved <= shares[u]
    PROVE  StakesAddUp' /\ shares' \in [Users -> Nat]
<1>1. /\ balances \in [Users -> Nat] /\ balances' \in [Users -> Nat]
      /\ totalSupply \in Nat
  BY DEF AccrualInv
<1>2. /\ balances'[u] = balances[u] + moved
      /\ \A v \in Users \ {u} : balances'[v] = balances[v]
  <2>1. DOMAIN balances = Users
    BY <1>1
  <2>2. QED
    BY <2>1
<1>3. SumFunctionOnSet(balances', Users)
          = SumFunctionOnSet(balances, Users) + balances'[u] - balances[u]
  BY <1>1, <1>2, OneStakeMoves
<1>4. totalSupply = SumFunctionOnSet(balances, Users)
  BY <1>1 DEF StakesAddUp, SumFunction
<1>5. totalSupply' = SumFunctionOnSet(balances', Users)
  BY <1>1, <1>2, <1>3, <1>4
<1>6. totalSupply' = SumFunction(balances')
  BY <1>1, <1>5 DEF SumFunction
<1>7. shares'[u] = shares[u] - moved /\ \A v \in Users \ {u} : shares'[v] = shares[v]
  OBVIOUS
<1>8. /\ \A v \in Users : shares'[v] + balances'[v] = Shares
      /\ shares' \in [Users -> Nat]
  <2>1. \A v \in Users : shares[v] + balances[v] = Shares
    BY DEF StakesAddUp
  <2>2. shares'[u] + balances'[u] = Shares
    <3>1. shares[u] \in Nat /\ balances[u] \in Nat
      BY <1>1
    <3>2. (shares[u] - moved) + (balances[u] + moved) = shares[u] + balances[u]
      BY <3>1
    <3>3. QED
      BY <1>2, <1>7, <2>1, <3>2
  <2>3. shares' \in [Users -> Nat]
    <3>1. shares[u] - moved \in Nat
      OBVIOUS
    <3>2. QED
      BY <3>1
  <2>4. QED
    BY <1>2, <1>7, <2>1, <2>2, <2>3
<1>9. QED
  BY <1>6, <1>8 DEF StakesAddUp

\* The supply stays the sum of the stakes.
LEMMA StakesStep ==
    ASSUME AccrualInv, AccrualInv', StakesAddUp, shares \in [Users -> Nat], [Next]_vars
    PROVE  StakesAddUp' /\ shares' \in [Users -> Nat]
<1>1. ASSUME NEW u \in Users, NEW amount \in Nat, Unstake(u, amount)
      PROVE  StakesAddUp' /\ shares' \in [Users -> Nat]
  <2>1. /\ totalSupply \in Nat /\ balances[u] \in Nat /\ shares[u] \in Nat
        /\ -amount \in Int /\ -amount <= shares[u]
    BY <1>1 DEF AccrualInv
  <2>2. /\ totalSupply - amount = totalSupply + (-amount)
        /\ balances[u] - amount = balances[u] + (-amount)
        /\ shares[u] + amount = shares[u] - (-amount)
    BY <2>1
  <2>3. /\ totalSupply' = totalSupply + (-amount)
        /\ balances' = [balances EXCEPT ![u] = @ + (-amount)]
        /\ shares' = [shares EXCEPT ![u] = @ - (-amount)]
    BY <1>1, <2>2 DEF Unstake
  <2>4. QED
    BY <2>1, <2>3, SharesMove
<1>2. ASSUME NEW u \in Users, NEW amount \in Amounts, Stake(u, amount)
      PROVE  StakesAddUp' /\ shares' \in [Users -> Nat]
  <2>1. amount \in Int /\ amount <= shares[u]
    BY <1>2, ConstantsAssumption DEF Stake
  <2>2. /\ totalSupply' = totalSupply + amount
        /\ balances' = [balances EXCEPT ![u] = @ + amount]
        /\ shares' = [shares EXCEPT ![u] = @ - amount]
    BY <1>2 DEF Stake
  <2>3. QED
    BY <2>1, <2>2, SharesMove
<1>3. ASSUME NEW u \in Users, NEW amount \in Amounts, Withdraw(u, amount)
      PROVE  StakesAddUp' /\ shares' \in [Users -> Nat]
  BY <1>1, <1>3, ConstantsAssumption DEF Withdraw
<1>4. ASSUME NEW u \in Users, Exit(u)
      PROVE  StakesAddUp' /\ shares' \in [Users -> Nat]
  BY <1>1, <1>4 DEF Exit, AccrualInv
<1>5. CASE UNCHANGED stakeVars
  BY <1>5 DEF stakeVars, StakesAddUp
<1>6. \/ \E u \in Users, amount \in Amounts : Stake(u, amount) \/ Withdraw(u, amount)
      \/ \E u \in Users : Exit(u)
      \/ UNCHANGED stakeVars
  BY DEF Next, vars, Tick, GetReward, NotifyRewardAmount, FundRewards,
         RecoverERC20, SetRewardsDuration, SetPaused
<1>7. QED
  BY <1>2, <1>3, <1>4, <1>5, <1>6

\* What no account of a staker or of the period depends on.
LEMMA TokensTyped ==
    ASSUME AccrualInv, now \in BlockTimes, paused \in BOOLEAN,
           balance \in Nat, notified \in Nat, [Next]_vars
    PROVE  /\ now' \in BlockTimes /\ paused' \in BOOLEAN
           /\ balance' \in Nat /\ notified' \in Nat
<1>1. \A u \in Users : Earned(u) \in Nat
  BY EarnedIsGained
<1>2. CASE \E u \in Users : GetReward(u) \/ Exit(u)
  BY <1>1, <1>2 DEF GetReward, Exit, PayReward, timeVars, periodVars
<1>3. CASE \E u \in Users, amount \in Amounts : Stake(u, amount) \/ Withdraw(u, amount)
  BY <1>3 DEF Stake, Withdraw, timeVars, periodVars, tokenVars
<1>4. CASE \E amount \in Rewards :
              NotifyRewardAmount(amount) \/ FundRewards(amount) \/ RecoverERC20(amount)
  BY <1>4, ConstantsAssumption
     DEF NotifyRewardAmount, FundRewards, RecoverERC20, timeVars, periodVars, tokenVars
<1>5. CASE \/ Tick \/ SetPaused \/ UNCHANGED vars
           \/ \E duration \in Durations : SetRewardsDuration(duration)
  BY <1>5 DEF Tick, SetPaused, SetRewardsDuration, vars, timeVars, periodVars, tokenVars
<1>6. QED
  BY <1>2, <1>3, <1>4, <1>5 DEF Next

\* Everything TypeOK says, with what it rests on.
FarmInv ==
    /\ AccrualInv /\ StakesAddUp
    /\ now \in BlockTimes /\ paused \in BOOLEAN
    /\ balance \in Nat /\ notified \in Nat
    /\ shares \in [Users -> Nat]

\* The invariant of the farm holds after deployment.
LEMMA FarmInitially == Init => FarmInv
<1> SUFFICES ASSUME Init PROVE FarmInv
  OBVIOUS
<1>1. AccrualInv
  BY ConstantsAssumption DEF Init, AccrualInv
<1>2. balances = [u \in Users |-> 0] /\ totalSupply = 0 /\ shares = [u \in Users |-> Shares]
  BY DEF Init
<1>3. SumFunctionOnSet(balances, Users) = 0
  BY <1>2, FiniteAssumption, SumZero
<1>4. StakesAddUp
  BY <1>2, <1>3, ConstantsAssumption DEF StakesAddUp, SumFunction
<1>5. QED
  BY <1>1, <1>2, <1>4, ConstantsAssumption DEF Init, FarmInv

\* Every step keeps the invariant of the farm.
LEMMA FarmStep == FarmInv /\ [Next]_vars => FarmInv'
  BY StepKeeps, StakesStep, TokensTyped DEF FarmInv

\* Nobody's stake exceeds the supply.
LEMMA FarmTyped == FarmInv => TypeOK
<1> SUFFICES ASSUME FarmInv PROVE TypeOK
  OBVIOUS
<1>1. /\ balances \in [Users -> Nat] /\ totalSupply \in Nat
      /\ shares \in [Users -> Nat]
  BY DEF FarmInv, AccrualInv
<1>2. totalSupply = SumFunctionOnSet(balances, Users)
  BY <1>1 DEF FarmInv, StakesAddUp, SumFunction
<1>3. \A u \in Users : balances[u] <= totalSupply
  BY <1>1, <1>2, FiniteAssumption, SumBoundsElement
<1>4. \A u \in Users : shares[u] \in 0 .. Shares
  BY <1>1, ConstantsAssumption DEF FarmInv, StakesAddUp
<1>5. QED
  BY <1>1, <1>3, <1>4 DEF FarmInv, AccrualInv, TypeOK

\* Every variable keeps its type; in particular no stake exceeds the supply, so
\* that withdraw's subtraction from the supply never underflows.
THEOREM FarmTypeCorrect == Spec => []TypeOK
  BY FarmInitially, FarmStep, FarmTyped, PTL DEF Spec

-----------------------------------------------------------------------------
(* The stream covers what is earned.                                       *)

\* Dividing and multiplying again does not go above the dividend.
LEMMA QuotientBelow ==
    ASSUME NEW a \in Nat, NEW c \in Nat \ {0}
    PROVE  a \div c \in Nat /\ c * (a \div c) <= a
  BY SMT

\* Products over sums and differences.
LEMMA Distributes ==
    ASSUME NEW a \in Int, NEW b \in Int, NEW c \in Int
    PROVE  /\ a * (b + c) = a * b + a * c /\ a * (b - c) = a * b - a * c
           /\ a * b = b * a /\ a * b \in Int
  OBVIOUS

\* What all stakers together have received, have on account and have gained at
\* the given value of the index.
Exactly(index) == [u \in Users |-> ExactlyEarned(u, index)]

\* What a user has earned, unrounded, is an integer.
LEMMA ExactlyEarnedInt ==
    ASSUME AccrualInv, NEW u \in Users, NEW index \in Nat
    PROVE  ExactlyEarned(u, index) \in Int
<1>1. /\ balances[u] \in Int /\ paid[u] + rewards[u] \in Int /\ Precision \in Int
      /\ index - userRewardPerTokenPaid[u] \in Int
  BY ConstantsAssumption DEF AccrualInv
<1>2. QED
  BY <1>1, Distributes DEF ExactlyEarned

\* When the index advances, all stakers together gain what one share gains,
\* times the supply.
LEMMA AllGain ==
    ASSUME AccrualInv, StakesAddUp, NEW index \in Nat
    PROVE  /\ SumFunctionOnSet(Exactly(rewardPerTokenStored), Users) \in Int
           /\ SumFunctionOnSet(Exactly(index), Users)
                = SumFunctionOnSet(Exactly(rewardPerTokenStored), Users)
                    + (index - rewardPerTokenStored) * totalSupply
<1> DEFINE gain   == index - rewardPerTokenStored
           gained == [u \in Users |-> gain * balances[u]]
<1>1. /\ rewardPerTokenStored \in Nat /\ gain \in Int
      /\ \A u \in Users : balances[u] \in Int /\ userRewardPerTokenPaid[u] \in Int
  BY DEF AccrualInv
<1>2. \A u \in Users : /\ Exactly(rewardPerTokenStored)[u] \in Int
                       /\ Exactly(index)[u] \in Int
                       /\ gained[u] \in Int
  <2>1. \A u \in Users : gain * balances[u] \in Int
    BY <1>1, Distributes
  <2>2. QED
    BY <1>1, <2>1, ExactlyEarnedInt DEF Exactly
<1>3. \A u \in Users :
         Exactly(index)[u] = Exactly(rewardPerTokenStored)[u] + gained[u]
  <2> SUFFICES ASSUME NEW u \in Users
               PROVE  ExactlyEarned(u, index)
                        = ExactlyEarned(u, rewardPerTokenStored) + gain * balances[u]
    BY DEF Exactly
  <2> DEFINE base == Precision * (paid[u] + rewards[u])
             at   == userRewardPerTokenPaid[u]
             b    == balances[u]
  <2>1. base \in Int
    BY ConstantsAssumption, Distributes DEF AccrualInv
  <2>2. /\ b * (index - at) = b * index - b * at
        /\ b * (rewardPerTokenStored - at) = b * rewardPerTokenStored - b * at
        /\ gain * b = b * index - b * rewardPerTokenStored
        /\ b * index \in Int /\ b * at \in Int /\ b * rewardPerTokenStored \in Int
    <3>1. b \in Int /\ at \in Int /\ index \in Int /\ rewardPerTokenStored \in Int
      BY <1>1
    <3>2. gain * b = b * gain
      BY <1>1, <3>1, Distributes
    <3>3. QED
      BY <3>1, <3>2, Distributes
  <2>3. ExactlyEarned(u, index) = base + b * (index - at)
    BY DEF ExactlyEarned
  <2>4. ExactlyEarned(u, rewardPerTokenStored) = base + b * (rewardPerTokenStored - at)
    BY DEF ExactlyEarned
  <2> HIDE DEF base, at, b, gain
  <2>5. QED
    BY <2>1, <2>2, <2>3, <2>4 DEF b
<1>4. SumFunctionOnSet(gained, Users) = gain * totalSupply
  <2>1. totalSupply = SumFunctionOnSet(balances, Users)
    BY DEF AccrualInv, StakesAddUp, SumFunction
  <2>2. \A u \in Users : balances[u] \in Int /\ gained[u] = gain * balances[u]
    BY <1>1
  <2> HIDE DEF gain, gained
  <2>3. QED
    BY <1>1, <2>1, <2>2, FiniteAssumption, SumScale
<1> HIDE DEF gain, gained
<1>5. SumFunctionOnSet(Exactly(index), Users)
          = SumFunctionOnSet(Exactly(rewardPerTokenStored), Users)
              + SumFunctionOnSet(gained, Users)
  BY <1>2, <1>3, FiniteAssumption, SumPlus
<1>6. SumFunctionOnSet(Exactly(rewardPerTokenStored), Users) \in Int
  BY <1>2, FiniteAssumption, SumInt
<1>7. QED
  BY <1>4, <1>5, <1>6 DEF gain

\* What all stakers together gain is at most what has been streamed meanwhile:
\* the division by the supply rounds down, and with nothing staked the stream
\* goes to nobody.
LEMMA GainIsStreamed ==
    ASSUME AccrualInv
    PROVE  (RewardPerToken - rewardPerTokenStored) * totalSupply
              <= (LastTimeRewardApplicable - lastUpdateTime) * rewardRate * Precision
<1> DEFINE streamed == (LastTimeRewardApplicable - lastUpdateTime) * rewardRate * Precision
<1>1. streamed \in Nat
  <2>1. LastTimeRewardApplicable - lastUpdateTime \in Nat
    BY ApplicableTime DEF AccrualInv
  <2>2. (LastTimeRewardApplicable - lastUpdateTime) * rewardRate \in Nat
    BY <2>1, ProductsNat DEF AccrualInv
  <2>3. QED
    BY <2>2, ProductsNat, ConstantsAssumption
<1>2. CASE totalSupply = 0
  <2>1. RewardPerToken - rewardPerTokenStored \in Int
    BY IndexGrows DEF AccrualInv
  <2>2. (RewardPerToken - rewardPerTokenStored) * totalSupply = 0
    BY <1>2, <2>1
  <2>3. QED
    BY <1>1, <2>2
<1>3. CASE totalSupply # 0
  <2>1. totalSupply \in Nat \ {0} /\ rewardPerTokenStored \in Nat
    BY <1>3 DEF AccrualInv
  <2>2. RewardPerToken = rewardPerTokenStored + (streamed \div totalSupply)
    BY <1>3 DEF RewardPerToken
  <2> HIDE DEF streamed
  <2>3. /\ streamed \div totalSupply \in Nat
        /\ totalSupply * (streamed \div totalSupply) <= streamed
    BY <1>1, <2>1, QuotientBelow
  <2>4. RewardPerToken - rewardPerTokenStored = streamed \div totalSupply
    BY <2>1, <2>2, <2>3
  <2>5. (RewardPerToken - rewardPerTokenStored) * totalSupply
            = totalSupply * (streamed \div totalSupply)
    BY <2>1, <2>3, <2>4, Distributes
  <2>6. QED
    BY <2>3, <2>5 DEF streamed
<1>4. QED
  BY <1>2, <1>3

\* What StreamCovered says of the last update of the index holds now.
CoveredNow ==
    SumFunctionOnSet(Exactly(RewardPerToken), Users)
        + Precision * (rewardRate * (periodFinish - LastTimeRewardApplicable))
        <= Precision * notified

\* As time passes, the stream feeds the index no more than was notified.
LEMMA StreamStaysCovered ==
    ASSUME AccrualInv, StakesAddUp, StreamCovered, notified \in Nat
    PROVE  CoveredNow
<1> DEFINE before == SumFunctionOnSet(Exactly(rewardPerTokenStored), Users)
           gain   == (RewardPerToken - rewardPerTokenStored) * totalSupply
           late   == LastTimeRewardApplicable
           last   == lastUpdateTime
           due(t) == Precision * (rewardRate * (periodFinish - t))
<1>1. before \in Int /\ SumFunctionOnSet(Exactly(RewardPerToken), Users) = before + gain
  BY AllGain, IndexGrows
<1>2. gain <= (late - last) * rewardRate * Precision
  BY GainIsStreamed
<1>3. before + due(last) <= Precision * notified
  BY DEF StreamCovered, SumFunction, Exactly
<1>4. /\ late \in Int /\ last \in Int /\ periodFinish \in Int /\ rewardRate \in Int
      /\ Precision \in Int /\ totalSupply \in Int /\ Precision * notified \in Int
      /\ RewardPerToken - rewardPerTokenStored \in Int
  BY ApplicableTime, IndexGrows, ConstantsAssumption DEF AccrualInv
<1>5. gain \in Int
  BY <1>4, Distributes
<1>6. due(last) = due(late) + (late - last) * rewardRate * Precision
      /\ due(last) \in Int /\ due(late) \in Int
  <2> DEFINE x == rewardRate * (periodFinish - late)
             y == rewardRate * (late - last)
  <2>1. x \in Int /\ y \in Int
    BY <1>4, Distributes
  <2>2. rewardRate * (periodFinish - last) = x + y
    <3>1. periodFinish - last = (periodFinish - late) + (late - last)
      BY <1>4
    <3>2. periodFinish - late \in Int /\ late - last \in Int
      BY <1>4
    <3> HIDE DEF late, last
    <3>3. QED
      BY <1>4, <3>1, <3>2, Distributes
  <2>3. (late - last) * rewardRate * Precision = Precision * y
    <3>1. (late - last) * rewardRate = y
      BY <1>4, Distributes
    <3>2. QED
      BY <1>4, <2>1, <3>1, Distributes
  <2>4. due(late) = Precision * x /\ due(last) = Precision * (x + y)
    BY <2>2
  <2> HIDE DEF x, y, due, late, last
  <2>5. QED
    BY <1>4, <2>1, <2>3, <2>4, Distributes
<1>7. /\ (late - last) * rewardRate * Precision \in Int
  <2>1. late - last \in Int
    BY <1>4
  <2>2. (late - last) * rewardRate \in Int
    BY <1>4, <2>1, Distributes
  <2>3. QED
    BY <1>4, <2>2, Distributes
<1>8. before + gain + due(late) <= Precision * notified
  <2> DEFINE streamed == (late - last) * rewardRate * Precision
  <2> HIDE DEF before, gain, due
  <2>1. streamed \in Int /\ gain <= streamed /\ due(last) = due(late) + streamed
    BY <1>2, <1>6, <1>7
  <2> HIDE DEF streamed
  <2>2. QED
    BY <1>1, <1>3, <1>4, <1>5, <1>6, <2>1
<1>9. QED
  BY <1>1, <1>8 DEF CoveredNow

\* What a staker has earned, rounded down, is at most what it has earned.
LEMMA EarnedRoundsDown ==
    ASSUME AccrualInv, NEW u \in Users
    PROVE  /\ paid[u] + Earned(u) \in Nat
           /\ Precision * (paid[u] + Earned(u)) <= ExactlyEarned(u, RewardPerToken)
<1> DEFINE exact == balances[u] * (RewardPerToken - userRewardPerTokenPaid[u])
           base  == paid[u] + rewards[u]
<1>1. /\ balances[u] \in Nat /\ RewardPerToken - userRewardPerTokenPaid[u] \in Nat
      /\ base \in Nat /\ paid[u] \in Nat /\ rewards[u] \in Nat
  BY IndexGrows DEF AccrualInv
<1>2. exact \in Nat
  BY <1>1, ProductsNat
<1>3. Earned(u) = (exact \div Precision) + rewards[u]
  BY DEF Earned
<1>4. ExactlyEarned(u, RewardPerToken) = Precision * base + exact
  BY DEF ExactlyEarned
<1>5. exact \div Precision \in Nat /\ Precision * (exact \div Precision) <= exact
  <2> HIDE DEF exact
  <2>1. QED
    BY <1>2, ConstantsAssumption, QuotientBelow
<1>6. paid[u] + Earned(u) = base + (exact \div Precision)
  <2> HIDE DEF exact
  <2>1. QED
    BY <1>1, <1>3, <1>5
<1>7. Precision * (base + (exact \div Precision))
          = Precision * base + Precision * (exact \div Precision)
      /\ Precision * base \in Int /\ Precision * (exact \div Precision) \in Int
  <2> HIDE DEF exact, base
  <2>1. QED
    BY <1>1, <1>5, ConstantsAssumption, Distributes
<1>8. QED
  <2> HIDE DEF exact, base
  <2>1. QED
    BY <1>1, <1>2, <1>4, <1>5, <1>6, <1>7

\* A step that gives nobody more than what is earned now, and promises no more
\* than what is still to be streamed, leaves the stream covered.
LEMMA CoverKept ==
    ASSUME AccrualInv, AccrualInv', CoveredNow, notified \in Nat,
           rewardPerTokenStored' = RewardPerToken,
           NEW more \in Nat, notified' = notified + more,
           rewardRate' * (periodFinish' - lastUpdateTime')
              <= rewardRate * (periodFinish - LastTimeRewardApplicable) + more,
           \A u \in Users : ExactlyEarned(u, rewardPerTokenStored)'
                               <= ExactlyEarned(u, RewardPerToken)
    PROVE  StreamCovered'
<1> DEFINE old    == Exactly(RewardPerToken)
           new    == Exactly(rewardPerTokenStored)'
           left   == rewardRate * (periodFinish - LastTimeRewardApplicable)
           stream == rewardRate' * (periodFinish' - lastUpdateTime')
<1>1. \A u \in Users : new[u] = ExactlyEarned(u, rewardPerTokenStored)'
  BY DEF Exactly
<1>2. \A u \in Users : /\ old[u] \in Int /\ new[u] \in Int
                       /\ new[u] <= old[u]
  <2>1. \A u \in Users : old[u] = ExactlyEarned(u, RewardPerToken) /\ old[u] \in Int
    BY ExactlyEarnedInt, IndexGrows DEF Exactly
  <2>2. \A u \in Users : ExactlyEarned(u, rewardPerTokenStored)' \in Int
    <3> SUFFICES ASSUME NEW u \in Users
                 PROVE  ExactlyEarned(u, rewardPerTokenStored)' \in Int
      OBVIOUS
    <3>1. /\ balances'[u] \in Int /\ paid'[u] + rewards'[u] \in Int /\ Precision \in Int
          /\ rewardPerTokenStored' - userRewardPerTokenPaid'[u] \in Int
      BY ConstantsAssumption DEF AccrualInv
    <3>2. QED
      BY <3>1, Distributes DEF ExactlyEarned
  <2>3. QED
    BY <1>1, <2>1, <2>2
<1>3. /\ SumFunctionOnSet(old, Users) \in Int /\ SumFunctionOnSet(new, Users) \in Int
      /\ SumFunctionOnSet(new, Users) <= SumFunctionOnSet(old, Users)
  <2> HIDE DEF old, new
  <2>1. QED
    BY <1>2, FiniteAssumption, SumInt, SumMono
<1>4. /\ left \in Int /\ stream \in Int /\ Precision \in Nat
  BY ApplicableTime, ConstantsAssumption, Distributes DEF AccrualInv
<1>5. Precision * stream <= Precision * left + Precision * more
      /\ Precision * stream \in Int /\ Precision * left \in Int
  <2>1. stream <= left + more
    OBVIOUS
  <2> HIDE DEF left, stream
  <2>2. \A a, b \in Int : a <= b => Precision * a <= Precision * b
    BY <1>4
  <2>3. Precision * stream <= Precision * (left + more)
    BY <1>4, <2>1, <2>2
  <2>4. QED
    BY <1>4, <2>3, Distributes
<1>6. Precision * (notified + more) = Precision * notified + Precision * more
      /\ Precision * notified \in Int /\ Precision * more \in Int
  BY <1>4, Distributes
<1>7. SumFunctionOnSet(old, Users) + Precision * left <= Precision * notified
  BY DEF CoveredNow
<1>8. SumFunctionOnSet(new, Users) + Precision * stream <= Precision * (notified + more)
  <2> HIDE DEF old, new, left, stream
  <2>1. QED
    BY <1>3, <1>5, <1>6, <1>7
<1>9. SumFunction(new) = SumFunctionOnSet(new, Users)
  BY DEF SumFunction, Exactly
<1>10. StreamCovered' <=>
          SumFunction(new) + Precision * stream <= Precision * notified'
  BY DEF StreamCovered, Exactly
<1>11. QED
  BY <1>8, <1>9, <1>10

\* A staker's call turns what the index owes into reward on account or paid
\* out, rounding down; a new stake starts at the current index.
LEMMA CallKeepsCover ==
    ASSUME AccrualInv, AccrualInv', CoveredNow, notified \in Nat,
           NEW u \in Users, NEW left \in Nat, UpdateRewardLeaving(u, left),
           UNCHANGED <<periodFinish, rewardRate, notified>>,
           paid'[u] + left = paid[u] + Earned(u),
           \A v \in Users \ {u} :
              balances'[v] = balances[v] /\ paid'[v] = paid[v]
    PROVE  StreamCovered'
<1>1. /\ rewardPerTokenStored' = RewardPerToken
      /\ lastUpdateTime' = LastTimeRewardApplicable
      /\ rewards' = [rewards EXCEPT ![u] = left]
      /\ userRewardPerTokenPaid' =
            [userRewardPerTokenPaid EXCEPT ![u] = RewardPerToken]
  BY DEF UpdateRewardLeaving, UpdateIndex
<1>2. \A v \in Users : ExactlyEarned(v, rewardPerTokenStored)'
                          <= ExactlyEarned(v, RewardPerToken)
  <2>1. ExactlyEarned(u, rewardPerTokenStored)' <= ExactlyEarned(u, RewardPerToken)
    <3>1. rewards'[u] = left /\ userRewardPerTokenPaid'[u] = RewardPerToken
      BY <1>1 DEF AccrualInv
    <3>2. balances'[u] * (RewardPerToken - RewardPerToken) = 0
      <4>1. balances'[u] \in Int
        BY DEF AccrualInv
      <4>2. QED
        BY <4>1, IndexGrows
    <3>3. ExactlyEarned(u, rewardPerTokenStored)'
             = Precision * (paid[u] + Earned(u))
                 + balances'[u] * (RewardPerToken - RewardPerToken)
      BY <1>1, <3>1 DEF ExactlyEarned
    <3>4. Precision * (paid[u] + Earned(u)) \in Int
      BY EarnedRoundsDown, ConstantsAssumption, Distributes
    <3>5. QED
      BY <3>2, <3>3, <3>4, EarnedRoundsDown
  <2>2. ASSUME NEW v \in Users \ {u}
        PROVE  ExactlyEarned(v, rewardPerTokenStored)' <= ExactlyEarned(v, RewardPerToken)
    <3>1. /\ rewards'[v] = rewards[v]
          /\ userRewardPerTokenPaid'[v] = userRewardPerTokenPaid[v]
          /\ balances'[v] = balances[v] /\ paid'[v] = paid[v]
      BY <1>1 DEF AccrualInv
    <3>2. ExactlyEarned(v, rewardPerTokenStored)' = ExactlyEarned(v, RewardPerToken)
      BY <1>1, <3>1 DEF ExactlyEarned
    <3>3. QED
      BY <3>2, ExactlyEarnedInt, IndexGrows
  <2>3. QED
    BY <2>1, <2>2
<1>3. rewardRate' * (periodFinish' - lastUpdateTime')
         = rewardRate * (periodFinish - LastTimeRewardApplicable)
  BY <1>1
<1>4. rewardRate * (periodFinish - LastTimeRewardApplicable) \in Int
  BY ApplicableTime, Distributes DEF AccrualInv
<1>5. 0 \in Nat /\ notified' = notified + 0
      /\ rewardRate' * (periodFinish' - lastUpdateTime')
            <= rewardRate * (periodFinish - LastTimeRewardApplicable) + 0
  BY <1>3, <1>4
<1>6. QED
  BY <1>1, <1>2, <1>5, CoverKept

\* The new rate spreads the reward announced and what the running period has
\* left over the new period, rounding down.
LEMMA NotifyKeepsCover ==
    ASSUME AccrualInv, AccrualInv', CoveredNow, notified \in Nat,
           NEW reward \in Rewards, NotifyRewardAmount(reward)
    PROVE  StreamCovered'
<1>1. /\ rewardsDuration \in Nat \ {0} /\ reward \in Nat
      /\ rewardPerTokenStored' = RewardPerToken
      /\ rewardRate' = NewRate(reward)
      /\ lastUpdateTime' = now /\ periodFinish' = now + rewardsDuration
      /\ notified' = notified + reward
      /\ UNCHANGED Accounts
  BY ConstantsAssumption
     DEF NotifyRewardAmount, AccrueBeforeNotify, AccrualInv, timeVars,
         stakeVars, tokenVars, Accounts
<1>2. \A v \in Users : ExactlyEarned(v, rewardPerTokenStored)'
                          = ExactlyEarned(v, RewardPerToken)
  BY <1>1 DEF ExactlyEarned, Accounts
<1>3. \A v \in Users : ExactlyEarned(v, rewardPerTokenStored)'
                          <= ExactlyEarned(v, RewardPerToken)
  BY <1>2, ExactlyEarnedInt, IndexGrows
<1> DEFINE left == rewardRate * (periodFinish - LastTimeRewardApplicable)
<1>4. left \in Nat
  <2>1. periodFinish - LastTimeRewardApplicable \in Nat
    BY ApplicableTime DEF AccrualInv
  <2>2. QED
    BY <2>1, ProductsNat DEF AccrualInv
<1>5. NewRate(reward) = (reward + left) \div rewardsDuration
  <2>1. CASE now < periodFinish
    <3>1. LastTimeRewardApplicable = now
      BY <2>1 DEF LastTimeRewardApplicable
    <3>2. (periodFinish - now) * rewardRate = left
      BY <2>1, <3>1, Distributes DEF AccrualInv
    <3>3. ~(now >= periodFinish)
      BY <2>1 DEF AccrualInv
    <3>4. QED
      BY <3>2, <3>3 DEF NewRate
  <2>2. CASE ~(now < periodFinish)
    <3>1. LastTimeRewardApplicable = periodFinish
      BY <2>2 DEF LastTimeRewardApplicable
    <3>2. left = 0
      BY <3>1 DEF AccrualInv
    <3>3. now >= periodFinish
      BY <2>2 DEF AccrualInv
    <3> HIDE DEF left
    <3>4. reward + left = reward
      BY <1>1, <3>2
    <3>5. QED
      BY <3>3, <3>4 DEF NewRate
  <2>3. QED
    BY <2>1, <2>2
<1> HIDE DEF left
<1>6. rewardRate' \in Nat /\ rewardsDuration * rewardRate' <= left + reward
  <2>1. reward + left \in Nat
    BY <1>1, <1>4
  <2>2. QED
    BY <1>1, <1>4, <1>5, <2>1, QuotientBelow
<1>7. rewardRate' * (periodFinish' - lastUpdateTime') <= left + reward
  <2>1. periodFinish' - lastUpdateTime' = rewardsDuration
    BY <1>1 DEF AccrualInv
  <2>2. rewardRate' * rewardsDuration = rewardsDuration * rewardRate'
    BY <1>1, <1>6, Distributes
  <2>3. QED
    BY <1>6, <2>1, <2>2
<1>8. QED
  BY <1>1, <1>3, <1>7, CoverKept DEF left

\* Every step keeps the rewards handed out within those notified.
LEMMA CoverStep ==
    ASSUME FarmInv, StreamCovered, [Next]_vars
    PROVE  StreamCovered'
<1>1. AccrualInv /\ AccrualInv' /\ notified \in Nat /\ CoveredNow
  BY StepKeeps, StreamStaysCovered DEF FarmInv
<1>2. CASE \E u \in Users, amount \in Amounts : Stake(u, amount) \/ Withdraw(u, amount)
  <2>1. PICK u \in Users, amount \in Amounts : Stake(u, amount) \/ Withdraw(u, amount)
    BY <1>2
  <2>2. /\ UpdateRewardLeaving(u, Earned(u)) /\ paid' = paid
        /\ UNCHANGED <<periodFinish, rewardRate, notified>>
    BY <2>1 DEF Stake, Withdraw, UpdateReward, tokenVars, periodVars
  <2>3. \A v \in Users \ {u} : balances'[v] = balances[v]
    BY <1>1, <2>1 DEF Stake, Withdraw, Unstake, AccrualInv
  <2>4. Earned(u) \in Nat
    BY <1>1, EarnedIsGained
  <2>5. QED
    BY <1>1, <2>2, <2>3, <2>4, CallKeepsCover
<1>3. CASE \E u \in Users : GetReward(u) \/ Exit(u)
  <2>1. PICK u \in Users : GetReward(u) \/ Exit(u)
    BY <1>3
  <2>2. /\ UpdateRewardLeaving(u, 0)
        /\ paid' = [paid EXCEPT ![u] = @ + Earned(u)]
        /\ UNCHANGED <<periodFinish, rewardRate, notified>>
    BY <2>1 DEF GetReward, Exit, PayReward, periodVars
  <2>3. \A v \in Users \ {u} : balances'[v] = balances[v] /\ paid'[v] = paid[v]
    BY <1>1, <2>1, <2>2 DEF GetReward, Exit, Unstake, AccrualInv, stakeVars
  <2>4. paid'[u] + 0 = paid[u] + Earned(u)
    <3>1. paid'[u] = paid[u] + Earned(u) /\ paid[u] + Earned(u) \in Nat
      BY <1>1, <2>2, EarnedRoundsDown DEF AccrualInv
    <3>2. QED
      BY <3>1
  <2>5. QED
    BY <1>1, <2>2, <2>3, <2>4, CallKeepsCover
<1>4. CASE \E reward \in Rewards : NotifyRewardAmount(reward)
  BY <1>1, <1>4, NotifyKeepsCover
<1>5. CASE UNCHANGED <<periodFinish, rewardRate, notified, indexVars, balances, paid>>
  <2>1. UNCHANGED <<periodFinish, rewardRate, notified, lastUpdateTime,
                    rewardPerTokenStored, userRewardPerTokenPaid, rewards,
                    balances, paid>>
    BY <1>5 DEF indexVars
  <2>2. \A u \in Users : ExactlyEarned(u, rewardPerTokenStored)'
                            = ExactlyEarned(u, rewardPerTokenStored)
    BY <2>1 DEF ExactlyEarned
  <2>3. [u \in Users |-> ExactlyEarned(u, rewardPerTokenStored)]'
            = [u \in Users |-> ExactlyEarned(u, rewardPerTokenStored)]
    BY <2>2
  <2>4. QED
    BY <2>1, <2>3 DEF StreamCovered
<1>6. \/ \E u \in Users, amount \in Amounts : Stake(u, amount) \/ Withdraw(u, amount)
      \/ \E u \in Users : GetReward(u) \/ Exit(u)
      \/ \E reward \in Rewards : NotifyRewardAmount(reward)
      \/ UNCHANGED <<periodFinish, rewardRate, notified, indexVars, balances, paid>>
  BY DEF Next, vars, Tick, FundRewards, RecoverERC20, SetRewardsDuration, SetPaused,
         periodVars, stakeVars, tokenVars
<1>7. QED
  BY <1>2, <1>3, <1>4, <1>5, <1>6

\* Nothing is handed out before a notification.
LEMMA CoverInitially == Init => StreamCovered
<1> SUFFICES ASSUME Init PROVE StreamCovered
  OBVIOUS
<1> DEFINE exactly == [u \in Users |-> ExactlyEarned(u, rewardPerTokenStored)]
<1>1. \A u \in Users : exactly[u] = 0
  <2>1. \A u \in Users : ExactlyEarned(u, rewardPerTokenStored)
                            = Precision * (0 + 0) + 0 * (0 - 0)
    BY DEF Init, ExactlyEarned
  <2>2. QED
    BY <2>1, ConstantsAssumption
<1>2. SumFunctionOnSet(exactly, Users) = 0
  <2> HIDE DEF exactly
  <2>1. QED
    BY <1>1, FiniteAssumption, SumZero
<1>3. SumFunction(exactly) = 0
  BY <1>2 DEF SumFunction
<1>4. Precision * (rewardRate * (periodFinish - lastUpdateTime)) = 0 /\ Precision * notified = 0
  BY ConstantsAssumption DEF Init
<1>5. QED
  BY <1>3, <1>4 DEF StreamCovered

\* Rounding down what is earned, and counting only what the period has left.
LEMMA CoverBoundsRewards ==
    ASSUME FarmInv, StreamCovered
    PROVE  RewardsWithinNotified
<1> DEFINE got  == [u \in Users |-> paid[u] + Earned(u)]
           mult == [u \in Users |-> Precision * got[u]]
           left == rewardRate * (periodFinish - LastTimeRewardApplicable)
<1>1. AccrualInv /\ notified \in Nat /\ CoveredNow /\ Precision \in Nat \ {0}
  BY StreamStaysCovered, ConstantsAssumption DEF FarmInv
<1>2. \A u \in Users : got[u] \in Nat /\ mult[u] \in Int /\ mult[u] <= Exactly(RewardPerToken)[u]
                       /\ Exactly(RewardPerToken)[u] \in Int
  <2>1. \A u \in Users : paid[u] + Earned(u) \in Nat
                         /\ Precision * (paid[u] + Earned(u)) <= ExactlyEarned(u, RewardPerToken)
                         /\ ExactlyEarned(u, RewardPerToken) \in Int
    BY <1>1, EarnedRoundsDown, ExactlyEarnedInt, IndexGrows
  <2>2. \A u \in Users : Precision * (paid[u] + Earned(u)) \in Int
    BY <1>1, <2>1, Distributes
  <2>3. QED
    BY <2>1, <2>2 DEF Exactly
<1>3. \A u \in Users : got[u] \in Int /\ mult[u] = Precision * got[u]
  BY <1>2
<1>4. Precision * Remaining = Precision * left /\ Remaining \in Nat
  <2>1. CASE now < periodFinish
    <3>1. LastTimeRewardApplicable = now /\ Remaining = (periodFinish - now) * rewardRate
      BY <2>1 DEF LastTimeRewardApplicable, Remaining
    <3>2. periodFinish - now \in Nat /\ rewardRate \in Nat
      BY <1>1, <2>1 DEF AccrualInv
    <3>3. QED
      BY <3>1, <3>2, ProductsNat, Distributes
  <2>2. CASE ~(now < periodFinish)
    <3>1. LastTimeRewardApplicable = periodFinish /\ Remaining = 0
      BY <2>2 DEF LastTimeRewardApplicable, Remaining
    <3>2. left = 0
      BY <1>1, <3>1 DEF AccrualInv
    <3>3. QED
      BY <3>1, <3>2
  <2>3. QED
    BY <2>1, <2>2
<1>5. SumFunctionOnSet(Exactly(RewardPerToken), Users) + Precision * left <= Precision * notified
  BY <1>1 DEF CoveredNow
<1> HIDE DEF got, mult, left
<1>6. /\ SumFunctionOnSet(got, Users) \in Int
      /\ SumFunctionOnSet(mult, Users) = Precision * SumFunctionOnSet(got, Users)
      /\ SumFunctionOnSet(mult, Users) \in Int
      /\ SumFunctionOnSet(Exactly(RewardPerToken), Users) \in Int
      /\ SumFunctionOnSet(mult, Users) <= SumFunctionOnSet(Exactly(RewardPerToken), Users)
  BY <1>1, <1>2, <1>3, FiniteAssumption, SumInt, SumMono, SumScale
<1>7. Precision * SumFunctionOnSet(got, Users) + Precision * Remaining <= Precision * notified
  <2>1. Precision * Remaining \in Int /\ Precision * notified \in Int
    BY <1>1, <1>4, Distributes
  <2>2. QED
    BY <1>4, <1>5, <1>6, <2>1
<1>8. \A x, y \in Int : Precision * x <= Precision * y => x <= y
  <2>1. \A x, y \in Int : y + 1 <= x => Precision * y + Precision <= Precision * x
    <3> SUFFICES ASSUME NEW x \in Int, NEW y \in Int, y + 1 <= x
                 PROVE  Precision * y + Precision <= Precision * x
      OBVIOUS
    <3>1. Precision * (y + 1) <= Precision * x
      BY <1>1
    <3>2. QED
      BY <1>1, <3>1
  <2>2. \A x, y \in Int : Precision * x \in Int /\ Precision * y \in Int
    BY <1>1, Distributes
  <2>3. QED
    BY <1>1, <2>1, <2>2
<1>9. SumFunctionOnSet(got, Users) + Remaining <= notified
  <2>1. Precision * (SumFunctionOnSet(got, Users) + Remaining)
            = Precision * SumFunctionOnSet(got, Users) + Precision * Remaining
    BY <1>1, <1>4, <1>6, Distributes
  <2>2. SumFunctionOnSet(got, Users) + Remaining \in Int
    BY <1>4, <1>6
  <2>3. QED
    BY <1>1, <1>7, <1>8, <2>1, <2>2
<1>10. SumFunction(got) = SumFunctionOnSet(got, Users)
  BY DEF SumFunction, got
<1>11. QED
  BY <1>9, <1>10 DEF RewardsWithinNotified, got

\* For any stakers, rewards, durations, block times and precision: what the
\* stakers have received, what they have earned and what the period still has to
\* stream never exceed what the distributor has announced (getReward,
\* notifyRewardAmount and the modifier updateReward).
THEOREM RewardsBounded == Spec => []RewardsWithinNotified
<1>1. Init => FarmInv /\ StreamCovered
  BY FarmInitially, CoverInitially
<1>2. FarmInv /\ StreamCovered /\ [Next]_vars => FarmInv' /\ StreamCovered'
  BY FarmStep, CoverStep
<1>3. FarmInv /\ StreamCovered => RewardsWithinNotified
  BY CoverBoundsRewards
<1>4. QED
  BY <1>1, <1>2, <1>3, PTL DEF Spec
=============================================================================
