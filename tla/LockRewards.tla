---------------------------- MODULE LockRewards ----------------------------
(***************************************************************************)
(* Locking of LP tokens for a number of epochs in exchange for two reward  *)
(* tokens.  The owner sets epochs one after the other, at most two ahead,  *)
(* each with the rewards it distributes.  A deposit locks the whole        *)
(* balance of its user for the coming epochs.  Every call of a user first  *)
(* brings currentEpoch up to date and credits the user with a share of the *)
(* rewards of the epochs that are over (modifiers updateEpoch and          *)
(* updateReward), then does its own work.                                  *)
(***************************************************************************)
EXTENDS FixedPointMath, SequencesExt

CONSTANTS
    Users,           \* accounts that lock tokens
    BlockTimes,      \* timestamps at which blocks are produced
    Amounts,         \* amounts of one deposit, withdrawal or recovery
    BalanceCap,      \* BalanceCap[u]: bound on what u deposits
    LockLengths,     \* lockEpochs arguments of deposits
    maxEpochsValues, \* values the owner may give maxEpochs
    minEpochs,
    StartTimes,      \* epochStart arguments of setNextEpoch_start
    Durations,       \* durations of epochs in days
    Day,             \* 86400 seconds in the code
    LastEpoch,       \* bound on the epoch numbers that can be locked
    LastSettable,    \* bound on the epochs the owner sets
    EpochRewards,    \* the rewards <<r1, r2>> the owner may give an epoch
    Fundings,        \* Fundings[t]: what may be transferred of reward token t
    FundingCap,      \* bound on the contract's balance of a reward token
    Recoverable,     \* tokens the owner may want to recover
    WAD              \* 10^18 in the code

RewardTokens == {1, 2}
LockToken == 0
Tokens == RewardTokens \cup {LockToken}
EpochIds == 1..LastEpoch

ASSUME LockRewardsAssumption ==
    /\ BlockTimes \subseteq Nat /\ BlockTimes # {}
    /\ Amounts \subseteq Nat /\ BalanceCap \in [Users -> Nat]
    /\ LockLengths \subseteq Nat
    /\ maxEpochsValues \subseteq Nat /\ minEpochs \in Nat
    /\ StartTimes \subseteq Nat /\ Durations \subseteq Nat
    /\ Day \in Nat \ {0}
    /\ LastEpoch \in Nat /\ LastSettable \in 0..(LastEpoch - 1)
    /\ EpochRewards \subseteq [RewardTokens -> Nat]
    /\ Fundings \in [RewardTokens -> SUBSET Nat] /\ FundingCap \in Nat
    /\ Recoverable \subseteq Tokens
    /\ WAD \in Nat \ {0}

\* Addresses are 160 bits wide.
ASSUME FiniteAssumption == IsFiniteSet(Users)

VARIABLES
    now,
    paused,
    accounts,        \* balance, lockEpochs, lastEpochPaid, rewards
    totalAssets,
    rewardToken,     \* rewards promised to epochs; rewardsPaid to accounts
    enforceTime,
    epochs,
    currentEpoch, nextUnsetEpoch,
    maxEpochs,
    whitelistRecoverERC20,
    balanceOf,       \* ERC20 balances of the contract
    credited         \* history: the epochs each user was credited for

contractVars == <<paused, enforceTime, maxEpochs, whitelistRecoverERC20>>
epochVars    == <<epochs, nextUnsetEpoch>>
rewardVars   == <<accounts, rewardToken, currentEpoch, credited>>
vars == <<now, contractVars, epochVars, rewardVars, totalAssets, balanceOf>>

Account ==
    [balance : Nat, lockEpochs : Nat, lastEpochPaid : Nat,
     rewards : [RewardTokens -> Nat]]

Epoch ==
    [start : Nat, finish : Nat, totalLocked : Nat,
     balanceLocked : [Users -> Nat], rewards : [RewardTokens -> Nat],
     isSet : BOOLEAN]

TypeOK ==
    /\ now \in BlockTimes
    /\ paused \in BOOLEAN /\ enforceTime \in BOOLEAN
    /\ accounts \in [Users -> Account]
    /\ totalAssets \in Nat
    /\ rewardToken \in [RewardTokens -> [rewards : Nat, rewardsPaid : Nat]]
    /\ epochs \in [EpochIds -> Epoch]
    /\ currentEpoch \in EpochIds /\ nextUnsetEpoch \in EpochIds
    /\ currentEpoch <= nextUnsetEpoch
    /\ maxEpochs \in Nat
    /\ whitelistRecoverERC20 \subseteq Tokens \ {1}
    /\ balanceOf \in [Tokens -> Nat]
    /\ credited \in [Users -> SUBSET EpochIds]

NoRewards == [t \in RewardTokens |-> 0]

Init ==
    /\ now \in BlockTimes
    /\ paused = FALSE /\ enforceTime = TRUE
    /\ accounts = [u \in Users |-> [balance |-> 0, lockEpochs |-> 0,
                                    lastEpochPaid |-> 0, rewards |-> NoRewards]]
    /\ totalAssets = 0
    /\ rewardToken = [t \in RewardTokens |-> [rewards |-> 0, rewardsPaid |-> 0]]
    /\ epochs = [e \in EpochIds |->
                    [start |-> 0, finish |-> 0, totalLocked |-> 0,
                     balanceLocked |-> [u \in Users |-> 0],
                     rewards |-> NoRewards, isSet |-> FALSE]]
    /\ currentEpoch = 1 /\ nextUnsetEpoch = 1
    /\ maxEpochs \in maxEpochsValues
    /\ whitelistRecoverERC20 = {}
    /\ balanceOf = [t \in Tokens |-> 0]
    /\ credited = [u \in Users |-> {}]

-----------------------------------------------------------------------------
(* The modifiers.                                                          *)

Over(e) == epochs[e].isSet /\ epochs[e].finish <= now

\* currentEpoch after updateEpoch: the first epoch that is not over.
UpdatedEpoch ==
    CHOOSE e \in currentEpoch..nextUnsetEpoch :
        ~Over(e) /\ \A d \in currentEpoch..(e - 1) : Over(d)

\* mutant: the epochs already credited are looked at again.
FirstUnpaid_Restart(u) == 1

FirstUnpaid(u) ==
    IF accounts[u].lastEpochPaid = 0 THEN 1 ELSE accounts[u].lastEpochPaid

\* The epochs updateReward credits: from the last one paid, as many as there
\* are epochs left to lock, those without a locked balance included.
CreditedNow(u) ==
    LET current == UpdatedEpoch
        lockedUntil == FirstUnpaid(u) + accounts[u].lockEpochs
        limit == IF lockedUntil > current THEN current ELSE lockedUntil
    IN  {e \in FirstUnpaid(u)..(limit - 1) : epochs[e].balanceLocked[u] # 0}

Share(e, u) ==
    MulDivDown(epochs[e].balanceLocked[u], WAD, epochs[e].totalLocked)

RewardPaid(u, t, creditedNow) ==
    SumFunction([e \in creditedNow |->
                    MulDivDown(Share(e, u), epochs[e].rewards[t], WAD)])

\* The account of u after updateReward.
UpdatedAccount(u) ==
    LET creditedNow == CreditedNow(u)
    IN  [accounts[u] EXCEPT
            !.lockEpochs = @ - Cardinality(creditedNow),
            !.lastEpochPaid = UpdatedEpoch,
            !.rewards = [t \in RewardTokens |->
                            @[t] + RewardPaid(u, t, creditedNow)]]

\* updateEpoch and updateReward; the account is left as the call makes it.
UpdateReward(u, account) ==
    LET creditedNow == CreditedNow(u)
    IN  /\ currentEpoch' = UpdatedEpoch
        /\ rewardToken' = [t \in RewardTokens |->
              [rewardToken[t] EXCEPT
                  !.rewardsPaid = @ + RewardPaid(u, t, creditedNow)]]
        /\ credited' = [credited EXCEPT ![u] = @ \cup creditedNow]
        /\ accounts' = [accounts EXCEPT ![u] = account]

-----------------------------------------------------------------------------
(* What users call.                                                        *)

UpdateAccount(u) ==
    /\ ~paused
    /\ UpdateReward(u, UpdatedAccount(u))
    /\ UNCHANGED <<now, contractVars, epochVars, totalAssets, balanceOf>>

UpdateEpochs ==
    /\ ~paused
    /\ currentEpoch' = UpdatedEpoch
    /\ UNCHANGED <<now, contractVars, epochVars, accounts, rewardToken,
                   credited, totalAssets, balanceOf>>

\* mutant: a deposit counts from the epoch that is in course.
NextLocked_Current == UpdatedEpoch

\* The first epoch a deposit is locked in.
NextLocked ==
    IF /\ epochs[UpdatedEpoch].isSet
       /\ UpdatedEpoch # 1 \/ epochs[1].start <= now
    THEN UpdatedEpoch + 1
    ELSE UpdatedEpoch

\* mutant: a relock adds the whole balance to the total once more.
LockIn_NoSubtract(epoch, u, newBalance) ==
    [epoch EXCEPT !.totalLocked = @ + newBalance,
                  !.balanceLocked[u] = newBalance]

LockIn(epoch, u, newBalance) ==
    [epoch EXCEPT !.totalLocked = @ + newBalance - epoch.balanceLocked[u],
                  !.balanceLocked[u] = newBalance]

\* lockEpochs = 0 adds tokens without locking longer; amount = 0 relocks.
\* The checked subtraction reverts when the new balance is below what is
\* already locked in one of the epochs.
Deposit(u, amount, lockEpochs) ==
    LET old == UpdatedAccount(u)
        newBalance == old.balance + amount
        newLock == old.lockEpochs + lockEpochs
        lockBoundary ==
            IF ~epochs[UpdatedEpoch].isSet \/ old.lockEpochs = 0
            THEN newLock ELSE newLock - 1
        next == NextLocked
        locked == next..(next + lockBoundary - 1)
    IN  /\ ~paused
        /\ lockEpochs <= maxEpochs
        /\ lockEpochs >= minEpochs \/ lockEpochs = 0
        /\ lockEpochs # 0 \/ old.lockEpochs # 0
        /\ newBalance <= BalanceCap[u]
        /\ locked \subseteq EpochIds
        /\ \A e \in locked : newBalance >= epochs[e].balanceLocked[u]
        /\ UpdateReward(u, [old EXCEPT !.balance = newBalance,
                                       !.lockEpochs = newLock])
        /\ epochs' = [e \in EpochIds |->
              IF e \in locked THEN LockIn(epochs[e], u, newBalance)
                              ELSE epochs[e]]
        /\ totalAssets' = totalAssets + amount
        /\ balanceOf' = [balanceOf EXCEPT ![LockToken] = @ + amount]
        /\ UNCHANGED <<now, contractVars, nextUnsetEpoch>>

\* mutant: the lock is not enforced.
MayWithdraw_Always(account) == TRUE

MayWithdraw(account) == account.lockEpochs = 0 \/ ~enforceTime

\* mutant: the balance of the account is not looked at.
WithdrawFrom_Unchecked(old, amount) ==
    /\ amount # 0
    /\ MayWithdraw(old)
    /\ amount <= balanceOf[LockToken]
    /\ totalAssets' = totalAssets - amount

\* _withdraw from the account the modifier has brought up to date.
WithdrawFrom(old, amount) ==
    /\ amount # 0 /\ amount <= old.balance
    /\ MayWithdraw(old)
    /\ amount <= balanceOf[LockToken]
    /\ totalAssets' = totalAssets - amount

Withdraw(u, amount) ==
    LET old == UpdatedAccount(u)
    IN  /\ ~paused
        /\ WithdrawFrom(old, amount)
        /\ UpdateReward(u, [old EXCEPT !.balance = @ - amount])
        /\ balanceOf' = [balanceOf EXCEPT ![LockToken] = @ - amount]
        /\ UNCHANGED <<now, contractVars, epochVars>>

\* _claim: both reward tokens in full.
ClaimReward(u) ==
    LET old == UpdatedAccount(u)
    IN  /\ ~paused
        /\ \A t \in RewardTokens : old.rewards[t] <= balanceOf[t]
        /\ UpdateReward(u, [old EXCEPT !.rewards = NoRewards])
        /\ balanceOf' = [t \in Tokens |->
              balanceOf[t] - IF t = LockToken THEN 0 ELSE old.rewards[t]]
        /\ UNCHANGED <<now, contractVars, epochVars, totalAssets>>

Exit(u) ==
    LET old == UpdatedAccount(u)
    IN  /\ ~paused
        /\ WithdrawFrom(old, old.balance)
        /\ \A t \in RewardTokens : old.rewards[t] <= balanceOf[t]
        /\ UpdateReward(u, [old EXCEPT !.balance = 0, !.rewards = NoRewards])
        /\ balanceOf' = [t \in Tokens |->
              balanceOf[t] - IF t = LockToken THEN old.balance
                                              ELSE old.rewards[t]]
        /\ UNCHANGED <<now, contractVars, epochVars>>

-----------------------------------------------------------------------------
(* What the owner calls.                                                   *)

\* What the contract keeps for epochs it has promised rewards to.
Unclaimed(t) == rewardToken[t].rewards - rewardToken[t].rewardsPaid

EpochStart(epochStart) ==
    IF \/ UpdatedEpoch = nextUnsetEpoch
       \/ epochStart > epochs[nextUnsetEpoch - 1].finish + 1
    THEN epochStart
    ELSE epochs[nextUnsetEpoch - 1].finish + 1

\* setNextEpoch passes the block's timestamp as epochStart, setNextEpoch_start
\* any.
SetNextEpoch(rewards, days, epochStart) ==
    /\ nextUnsetEpoch <= LastSettable
    /\ nextUnsetEpoch - UpdatedEpoch <= 1
    /\ epochStart >= now
    /\ \A t \in RewardTokens :
          /\ Unclaimed(t) \in 0..balanceOf[t]
          /\ balanceOf[t] - Unclaimed(t) >= rewards[t]
    /\ currentEpoch' = UpdatedEpoch
    /\ rewardToken' = [t \in RewardTokens |->
          [rewardToken[t] EXCEPT !.rewards = @ + rewards[t]]]
    /\ epochs' = [epochs EXCEPT
          ![nextUnsetEpoch].start = EpochStart(epochStart),
          ![nextUnsetEpoch].finish = EpochStart(epochStart) + days * Day,
          ![nextUnsetEpoch].rewards = rewards,
          ![nextUnsetEpoch].isSet = TRUE]
    /\ nextUnsetEpoch' = nextUnsetEpoch + 1
    /\ UNCHANGED <<now, contractVars, accounts, credited, totalAssets,
                   balanceOf>>

RecoverERC20(t, amount) ==
    /\ t \in whitelistRecoverERC20
    /\ amount <= balanceOf[t]
    /\ balanceOf' = [balanceOf EXCEPT ![t] = @ - amount]
    /\ UNCHANGED <<now, contractVars, epochVars, rewardVars, totalAssets>>

\* The governance token, the first reward token, is refused.
ChangeRecoverWhitelist(t, flag) ==
    /\ t # 1
    /\ whitelistRecoverERC20' = IF flag THEN whitelistRecoverERC20 \cup {t}
                                        ELSE whitelistRecoverERC20 \ {t}
    /\ UNCHANGED <<now, paused, enforceTime, maxEpochs, epochVars, rewardVars,
                   totalAssets, balanceOf>>

ChangeEnforceTime(flag) ==
    /\ enforceTime' = flag
    /\ UNCHANGED <<now, paused, maxEpochs, whitelistRecoverERC20, epochVars,
                   rewardVars, totalAssets, balanceOf>>

ChangeMaxEpochs(newMaxEpochs) ==
    /\ maxEpochs' = newMaxEpochs
    /\ UNCHANGED <<now, paused, enforceTime, whitelistRecoverERC20, epochVars,
                   rewardVars, totalAssets, balanceOf>>

\* pause and unpause each revert when there is nothing to change.
SetPaused(flag) ==
    /\ paused # flag
    /\ paused' = flag
    /\ UNCHANGED <<now, enforceTime, maxEpochs, whitelistRecoverERC20,
                   epochVars, rewardVars, totalAssets, balanceOf>>

-----------------------------------------------------------------------------
\* A transfer of reward tokens to the contract, by the treasury.
FundRewards(t, amount) ==
    /\ balanceOf[t] + amount <= FundingCap
    /\ balanceOf' = [balanceOf EXCEPT ![t] = @ + amount]
    /\ UNCHANGED <<now, contractVars, epochVars, rewardVars, totalAssets>>

Tick ==
    /\ \E t \in BlockTimes : t > now /\ now' = t
    /\ UNCHANGED <<contractVars, epochVars, rewardVars, totalAssets, balanceOf>>

UserNext ==
    \/ UpdateEpochs
    \/ \E u \in Users :
          \/ UpdateAccount(u)
          \/ \E amount \in Amounts, lockEpochs \in LockLengths :
                Deposit(u, amount, lockEpochs)
          \/ \E amount \in Amounts : Withdraw(u, amount)
          \/ ClaimReward(u)
          \/ Exit(u)

OwnerNext ==
    \/ \E rewards \in EpochRewards, days \in Durations, start \in StartTimes :
          SetNextEpoch(rewards, days, start)
    \/ \E t \in Recoverable, amount \in Amounts : RecoverERC20(t, amount)
    \/ \E t \in Recoverable, flag \in BOOLEAN : ChangeRecoverWhitelist(t, flag)
    \/ \E flag \in BOOLEAN : ChangeEnforceTime(flag)
    \/ \E n \in maxEpochsValues : ChangeMaxEpochs(n)
    \/ \E flag \in BOOLEAN : SetPaused(flag)

Next ==
    \/ Tick
    \/ UserNext
    \/ OwnerNext
    \/ \E t \in RewardTokens : \E amount \in Fundings[t] : FundRewards(t, amount)

Spec == Init /\ [][Next]_vars
=============================================================================
