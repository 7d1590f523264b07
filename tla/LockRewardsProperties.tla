------------------------ MODULE LockRewardsProperties ------------------------
(* What the lock contract promises to those who lock.                      *)
EXTENDS LockRewards

\* The total an epoch's rewards are divided by is the sum of what the users
\* have locked in it, through first locks, relocks with more tokens and relocks
\* after an early withdrawal: with a smaller total the shares would add up to
\* more than the rewards, with a larger one part of them is never paid.
LocksAddUp ==
    \A e \in EpochIds :
        epochs[e].totalLocked = SumFunction(epochs[e].balanceLocked)

\* No more is credited to the users than the rewards of the epochs that are
\* over, whatever the order in which the users come back and however often
\* they relock in between; so `rewards - rewardsPaid` never underflows and the
\* owner can always set the next epoch.
RewardsPaidBounded ==
    \A t \in RewardTokens :
        rewardToken[t].rewardsPaid <=
            SumFunction([e \in 1..(currentEpoch - 1) |-> epochs[e].rewards[t]])

\* "all deposits will grant rewards for the next epoch, not the current one"
\* (LockRewards.sol:251-253): from the moment an epoch has started, nobody's
\* lock in it changes, so that latecomers cannot dilute those who were there.
LockedBeforeStart ==
    [][\A e \in EpochIds :
          epochs[e].isSet /\ epochs[e].start <= now
          => /\ epochs'[e].balanceLocked = epochs[e].balanceLocked
             /\ epochs'[e].totalLocked = epochs[e].totalLocked]_vars

\* While the lock is enforced, a user's tokens leave only when every epoch they
\* were ever locked in is over: neither relocking, coming back late nor an early
\* withdrawal while enforcement was off lets a lock be shortened.
LockedFundsStay ==
    [][\A u \in Users :
          /\ enforceTime
          /\ accounts'[u].balance < accounts[u].balance
          => \A e \in EpochIds : epochs[e].balanceLocked[u] # 0 => Over(e)]_vars

\* "To receive rewards, the funds must be locked before the epoch start and will
\* become claimable at the epoch end" (LockRewards.sol:18-20): once updateReward
\* has moved a user past an epoch in which tokens of theirs were locked, the user
\* has been credited for it.
EveryLockedEpochPaid ==
    \A u \in Users, e \in EpochIds :
        e < accounts[u].lastEpochPaid /\ epochs[e].balanceLocked[u] # 0
        => e \in credited[u]

-----------------------------------------------------------------------------
(* The inductive invariants behind TypeOK, LocksAddUp, RewardsPaidBounded  *)
(* and LockedFundsStay.                                                    *)

\* The lock tokens accounted for are those of the accounts.
AssetsAddUp ==
    totalAssets = SumFunction([u \in Users |-> accounts[u].balance])

\* What updateReward pays u for epoch e, and what it has paid so far.
Part(e, u, t) == MulDivDown(Share(e, u), epochs[e].rewards[t], WAD)

PartPaid(e, u, t) == IF e \in credited[u] THEN Part(e, u, t) ELSE 0

EpochPaid(e, t) == SumFunction([u \in Users |-> PartPaid(e, u, t)])

\* Nobody is credited twice for an epoch, for one without a lock in it, or for
\* one that is not over, and what has been paid is what the locks of the
\* credited epochs, which no longer change, are worth.
CreditsAccounted ==
    /\ \A u \in Users :
          /\ accounts[u].lastEpochPaid <= currentEpoch
          /\ \A e \in credited[u] : /\ e < accounts[u].lastEpochPaid
                                    /\ epochs[e].balanceLocked[u] # 0
    /\ \A t \in RewardTokens :
          rewardToken[t].rewardsPaid
              = SumFunction([e \in EpochIds |-> EpochPaid(e, t)])

\* What the owner has promised is what the epochs that are set distribute.
PromisesAddUp ==
    /\ \A e \in EpochIds : epochs[e].isSet \/ epochs[e].rewards = NoRewards
    /\ \A t \in RewardTokens :
          rewardToken[t].rewards
              = SumFunction([e \in EpochIds |-> epochs[e].rewards[t]])

\* What has been paid never exceeds what was promised: the subtraction
\* `rewards - rewardsPaid` with which the owner sets an epoch never underflows.
UnclaimedNeverNegative == \A t \in RewardTokens : Unclaimed(t) >= 0

\* A deposit made while the epoch c is in course counts from the next one, any
\* other from c.
InCourse(c) == epochs[c].isSet /\ (c # 1 \/ epochs[1].start <= now)

\* u's locks in the epochs from c on lie in `left` epochs from c, or from the
\* one after it.
CountedFrom(u, c, left) ==
    LET Locks == {e \in EpochIds : e >= c /\ epochs[e].balanceLocked[u] # 0}
    IN  \/ \A e \in Locks : e < c + left
        \/ InCourse(c) /\ \A e \in Locks : c < e /\ e <= c + left

\* LockedFundsStay needs more than the counter of an account: that the locks it
\* has not counted down yet lie in that many epochs, so that a relock from the
\* current epoch leaves none of them behind the lock's end.
LocksCounted ==
    \A u \in Users : CountedFrom(u, FirstUnpaid(u), accounts[u].lockEpochs)
=============================================================================
