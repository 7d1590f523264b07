--------------------------- MODULE StakingRewards ---------------------------
(***************************************************************************)
(* A farm: holders of one epoch's vault shares stake them and earn a       *)
(* reward token that is streamed at a constant rate over a period.  The    *)
(* accounts of the stakers are brought up to date lazily, from an index of *)
(* the reward per staked share.                                            *)
(***************************************************************************)
EXTENDS Integers, FiniteSets, Functions

CONSTANTS
    Users,       \* stakers
    Shares,      \* vault shares each of them has
    Amounts,     \* amounts of one stake or withdrawal
    Rewards,     \* amounts the distributor announces, transfers or recovers
    Durations,   \* lengths of a reward period
    BlockTimes,  \* timestamps at which blocks are produced
    Precision,   \* the fixed point of the index, 1e18 in the code
    MaxNotified  \* bound on the rewards announced in total

ASSUME ConstantsAssumption ==
    /\ Shares \in Nat /\ Amounts \subseteq Nat /\ Rewards \subseteq Nat
    /\ Durations \subseteq Nat /\ BlockTimes \subseteq Nat
    /\ Precision \in Nat \ {0}

\* Addresses are 160 bits wide.
ASSUME FiniteAssumption == IsFiniteSet(Users)

VARIABLES
    now, paused,
    periodFinish, rewardRate, rewardsDuration, lastUpdateTime,
    rewardPerTokenStored,
    userRewardPerTokenPaid, rewards,
    totalSupply, balances,
    shares,      \* ERC1155 balances of the stakers, outside the farm
    balance,     \* the farm's balance of the reward token
    notified,    \* history: the rewards announced
    paid         \* history: the rewards each staker has received

timeVars  == <<now, paused>>
periodVars == <<periodFinish, rewardRate, rewardsDuration, notified>>
indexVars == <<lastUpdateTime, rewardPerTokenStored,
               userRewardPerTokenPaid, rewards>>
stakeVars == <<totalSupply, balances, shares>>
tokenVars == <<balance, paid>>
vars == <<timeVars, periodVars, indexVars, stakeVars, tokenVars>>

TypeOK ==
    /\ now \in BlockTimes
    /\ paused \in BOOLEAN
    /\ periodFinish \in Nat /\ rewardRate \in Nat
    /\ rewardsDuration \in Nat /\ lastUpdateTime \in Nat
    /\ rewardPerTokenStored \in Nat
    /\ userRewardPerTokenPaid \in [Users -> 0 .. rewardPerTokenStored]
    /\ rewards \in [Users -> Nat]
    /\ totalSupply \in Nat
    /\ balances \in [Users -> 0 .. totalSupply]
    /\ shares \in [Users -> 0 .. Shares]
    /\ balance \in Nat /\ notified \in Nat
    /\ paid \in [Users -> Nat]

\* The farm is deployed for an epoch in course or to come: its first duration
\* ends with the epoch.
Init ==
    /\ now \in BlockTimes
    /\ rewardsDuration \in Durations
    /\ paused = FALSE
    /\ periodFinish = 0 /\ rewardRate = 0 /\ lastUpdateTime = 0
    /\ rewardPerTokenStored = 0
    /\ userRewardPerTokenPaid = [u \in Users |-> 0]
    /\ rewards = userRewardPerTokenPaid
    /\ totalSupply = 0
    /\ balances = userRewardPerTokenPaid
    /\ shares = [u \in Users |-> Shares]
    /\ balance = 0 /\ notified = 0
    /\ paid = userRewardPerTokenPaid

-----------------------------------------------------------------------------
(* The index and what a staker has earned.                                 *)

LastTimeRewardApplicable == IF now < periodFinish THEN now ELSE periodFinish

\* mutant: the index advances with the clock after the period is over.
RewardPerToken_NoFinish ==
    IF totalSupply = 0 THEN rewardPerTokenStored
    ELSE rewardPerTokenStored +
         ((now - lastUpdateTime) * rewardRate * Precision) \div totalSupply

RewardPerToken ==
    IF totalSupply = 0 THEN rewardPerTokenStored
    ELSE rewardPerTokenStored +
         ((LastTimeRewardApplicable - lastUpdateTime) * rewardRate * Precision)
            \div totalSupply

Earned(u) ==
    (balances[u] * (RewardPerToken - userRewardPerTokenPaid[u])) \div Precision
        + rewards[u]

UpdateIndex ==
    /\ rewardPerTokenStored' = RewardPerToken
    /\ lastUpdateTime' = LastTimeRewardApplicable

\* The modifier updateReward with an account; left is what of the earned
\* reward stays on the account.
UpdateRewardLeaving(u, left) ==
    /\ UpdateIndex
    /\ rewards' = [rewards EXCEPT ![u] = left]
    /\ userRewardPerTokenPaid' =
          [userRewardPerTokenPaid EXCEPT ![u] = RewardPerToken]

UpdateReward(u) == UpdateRewardLeaving(u, Earned(u))

-----------------------------------------------------------------------------
(* What stakers do.                                                        *)

Stake(u, amount) ==
    /\ amount # 0
    /\ amount <= shares[u]
    /\ UpdateReward(u)
    /\ totalSupply' = totalSupply + amount
    /\ balances' = [balances EXCEPT ![u] = @ + amount]
    /\ shares' = [shares EXCEPT ![u] = @ - amount]
    /\ UNCHANGED <<timeVars, periodVars, tokenVars>>

\* mutant: the amount is not compared with the stake.
Unstake_Unchecked(u, amount) ==
    /\ totalSupply' = totalSupply - amount
    /\ balances' = [balances EXCEPT ![u] = @ - amount]
    /\ shares' = [shares EXCEPT ![u] = @ + amount]

\* Both subtractions revert on an underflow.
Unstake(u, amount) ==
    /\ amount > 0
    /\ amount <= totalSupply
    /\ amount <= balances[u]
    /\ totalSupply' = totalSupply - amount
    /\ balances' = [balances EXCEPT ![u] = @ - amount]
    /\ shares' = [shares EXCEPT ![u] = @ + amount]

Withdraw(u, amount) ==
    /\ Unstake(u, amount)
    /\ UpdateReward(u)
    /\ UNCHANGED <<timeVars, periodVars, tokenVars>>

\* The transfer reverts when the farm does not have the tokens.
PayReward(u) ==
    /\ ~paused
    /\ Earned(u) <= balance
    /\ UpdateRewardLeaving(u, 0)
    /\ balance' = balance - Earned(u)
    /\ paid' = [paid EXCEPT ![u] = @ + Earned(u)]

GetReward(u) ==
    /\ PayReward(u)
    /\ UNCHANGED <<timeVars, periodVars, stakeVars>>

\* Withdraw everything, then collect: the second update, in the same block,
\* finds nothing to add.
Exit(u) ==
    /\ Unstake(u, balances[u])
    /\ PayReward(u)
    /\ UNCHANGED <<timeVars, periodVars>>

-----------------------------------------------------------------------------
(* What the distributor and the owner do.                                  *)

NewRate(reward) ==
    IF now >= periodFinish THEN reward \div rewardsDuration
    ELSE (reward + (periodFinish - now) * rewardRate) \div rewardsDuration

\* mutant: the index is not brought up to date before the rate changes.
AccrueBeforeNotify_Skipped == UNCHANGED rewardPerTokenStored

AccrueBeforeNotify == rewardPerTokenStored' = RewardPerToken

NotifyRewardAmount(reward) ==
    /\ rewardsDuration # 0
    /\ AccrueBeforeNotify
    /\ rewardRate' = NewRate(reward)
    /\ rewardRate' <= balance \div rewardsDuration
    /\ lastUpdateTime' = now
    /\ periodFinish' = now + rewardsDuration
    /\ notified' = notified + reward
    /\ UNCHANGED <<timeVars, rewardsDuration, userRewardPerTokenPaid, rewards,
                   stakeVars, tokenVars>>

\* The distributor transfers reward tokens to the farm.
FundRewards(amount) ==
    /\ balance' = balance + amount
    /\ UNCHANGED <<timeVars, periodVars, indexVars, stakeVars, paid>>

\* Any token but the staked one, the reward token included.
RecoverERC20(amount) ==
    /\ amount <= balance
    /\ balance' = balance - amount
    /\ UNCHANGED <<timeVars, periodVars, indexVars, stakeVars, paid>>

SetRewardsDuration(duration) ==
    /\ now > periodFinish
    /\ rewardsDuration' = duration
    /\ UNCHANGED <<timeVars, periodFinish, rewardRate, notified, indexVars,
                   stakeVars, tokenVars>>

SetPaused ==
    /\ paused' = ~paused
    /\ UNCHANGED <<now, periodVars, indexVars, stakeVars, tokenVars>>

Tick ==
    /\ \E t \in BlockTimes : t > now /\ now' = t
    /\ UNCHANGED <<paused, periodVars, indexVars, stakeVars, tokenVars>>

Next ==
    \/ Tick
    \/ \E u \in Users :
          \/ \E amount \in Amounts : Stake(u, amount) \/ Withdraw(u, amount)
          \/ GetReward(u)
          \/ Exit(u)
    \/ \E amount \in Rewards :
          \/ notified + amount <= MaxNotified /\ NotifyRewardAmount(amount)
          \/ balance + amount <= MaxNotified /\ FundRewards(amount)
          \/ RecoverERC20(amount)
    \/ \E duration \in Durations : SetRewardsDuration(duration)
    \/ SetPaused

Spec == Init /\ [][Next]_vars

-----------------------------------------------------------------------------
\* What the running period still has to stream.
Remaining ==
    IF now < periodFinish THEN (periodFinish - now) * rewardRate ELSE 0

\* The farm never owes more than the distributor announced: what stakers have
\* received, what they have earned and what the period still has to stream
\* stay within the announced rewards, for any order of stakes, withdrawals,
\* early announcements that fold in the rest of a period, changes of the
\* duration and idle times with nothing staked.  A farm that receives what is
\* announced can therefore always pay (getReward, notifyRewardAmount).
RewardsWithinNotified ==
    SumFunction([u \in Users |-> paid[u] + Earned(u)]) + Remaining <= notified

\* No step takes from a staker what it has earned: neither the stakes and
\* withdrawals of others nor a new reward rate changes the past
\* (the modifier updateReward before every change of supply or rate).
EarnedNeverLost ==
    [][\A u \in Users : paid'[u] + Earned(u)' >= paid[u] + Earned(u)]_vars

-----------------------------------------------------------------------------
(* The inductive invariant behind TypeOK and RewardsWithinNotified.        *)

\* The supply is the sum of the stakes, and staking moves shares.
StakesAddUp ==
    /\ totalSupply = SumFunction(balances)
    /\ \A u \in Users : shares[u] + balances[u] = Shares

\* What a staker has received, has on account and has gained since then at the
\* given value of the index, in units of 1/Precision of a token and hence,
\* unlike Earned, without rounding.
ExactlyEarned(u, index) ==
    Precision * (paid[u] + rewards[u])
        + balances[u] * (index - userRewardPerTokenPaid[u])

\* RewardsWithinNotified is not inductive: it rounds what is earned but not
\* what remains.  Without rounding, and at the time of the last update of the
\* index, the same sum is covered by what was announced.
StreamCovered ==
    SumFunction([u \in Users |-> ExactlyEarned(u, rewardPerTokenStored)])
        + Precision * (rewardRate * (periodFinish - lastUpdateTime))
        <= Precision * notified
=============================================================================
