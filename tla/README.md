# Earthquake: TLA+ models and proofs

TLA+ models of the Earthquake contracts (Y2K Finance), model-checked with TLC
on small instances, and proofs about them checked by TLAPS for all values of
the constants. Paths are relative to the repository; "V2" abbreviates
`src/v2`.

## 1. The system

### What it does

A *market* insures a token against a depeg. It has two vaults on the same
ERC20 asset: buyers of protection deposit into the *premium* vault, sellers
into the *collateral* vault. Time is cut into *epochs* `(begin, end)` opened by
the factory's owner. Until an epoch begins anyone may deposit; from then on
the money is locked until a *controller* settles the epoch in one transaction:

| settlement | when | effect |
|---|---|---|
| depeg / liquidation | the price is below the strike, or the condition provider says so, inside the epoch | the vaults swap their TVL, each minus the epoch fee |
| end | the epoch is over | the premium, minus the fee, goes to the collateral vault |
| null | one side is empty | the other side is refunded |

Afterwards holders withdraw `shares * claimTVL / finalTVL`, rounded down.
*Carousel* vaults add queues: deposits waiting for the next epoch, winning
positions that relayers roll over into it for a fee, and an emissions token
shared among the holders of an epoch. Around the core stand the factories, a
time lock, condition providers, keepers and the reward contracts.

### Components, state and operations

| Component | State | Operations | Talks to |
|---|---|---|---|
| `VaultV2`, `VaultV2Pausable` | per epoch: exists, resolved, null, finalTVL, claimTVL, epochAccounting; ERC1155 balances and supply; whitelist; pause flag | deposit, depositETH, withdraw, transfers; setEpoch (factory); resolveEpoch, setClaimTVL, sendTokens, setEpochNull (controller) | factory (treasury), asset, counterparty vault |
| `ControllerPeggedAssetV2` | none of its own | triggerDepeg, triggerEndEpoch, triggerNullEpoch; canExec views | both vaults, price feed, sequencer feed, factory |
| `ControllerGeneric` | an immutable treasury | the same three with a condition provider | both vaults, provider, factory |
| `Carousel` | VaultV2's, plus deposit queue, rollover queue, owner index, rollover accounting, fees, emissions | deposit, withdraw, enlist, delist, mintDepositInQueue, mintRollovers, transfers, clean-up, fee changes | relayers, controller, factory |
| `VaultFactoryV2`, `CarouselFactory` | markets, epochs, epoch fees, controllers, oracles, treasury | createNewMarket, createEpoch, whitelisting, setTreasury, changes of controller and oracle | vaults, time lock |
| `TimeLock` | its owner, queued transaction ids | queue, execute, cancel; two immediate changes on the factory | factory |
| UMA V3 providers | per market or price: answer, running assertion; relayers, bonds | fetchAssertion, updateAssertionDataAndFetch, UMA's callback, conditionMet, resetAnswerAfterTimeout | UMA's optimistic oracle, relayers, controller |
| other condition providers | none or a cached round | conditionMet, latestRoundData | external feeds, controller |
| `LockRewards` | accounts, reward epochs, currentEpoch, nextUnsetEpoch | deposit/relock, withdraw, claim, exit, setNextEpoch, recover | lock token, two reward tokens |
| `StakingRewards` farms | reward rate and per-token accumulators | stake, withdraw, getReward, notifyRewardAmount | staking and reward tokens |
| keepers | none | poll the controllers' and the Carousel's views, send transactions | controllers, Carousel |
| version 1 contracts | as above, older | as above | - |

### What is hard about it

All state changes are atomic transactions, so concurrency is the *order* of
transactions of users, keepers, relayers, owner and feeds, and the timestamps
of the blocks they land in.

* **Shared balance.** All epochs of a vault share one ERC20 balance. A payout
  rounded the wrong way or a claim larger than the money behind it is paid by
  other epochs and shows only when somebody cannot leave.
* **Boundary timestamps.** `deposit` and the settlement both accept
  `block.timestamp == epochBegin`.
* **Races of triggers.** Anyone may call any trigger; an epoch that should be
  nulled might be ended first. A view polled by a keeper is stale by the time
  the transaction lands.
* **Queues processed in batches.** A position is enlisted now and burnt epochs
  later; in between its owner may withdraw, transfer, delist and re-enlist.
  The clean-up moves items, and one failing item fails the batch.
* **Lazily updated accounts.** LockRewards and the farms credit a user only on
  the user's own calls, any number of epochs late, from an index that rates and
  supplies change in between.
* **Answers that arrive later.** A UMA assertion is made in one transaction and
  comes back hours later in another; assertions of several markets overtake
  each other while answers time out, are reset or asserted anew.
* **Delayed calls.** A queued change of the factory can be queued twice, retried,
  cancelled or left to expire, and the factory has other callers.
* **Liveness.** A dead price feed, a sequencer outage or a paused market must
  not lock deposits for ever.

The promises that make each component correct are: solvency of every epoch on
its own money and the ability of every holder to leave (vaults, Carousel);
exact settlements, exact keeper views, refund of a side without counterparty,
settlement of every epoch (controllers); an indexed queue whose positions are
really there, fair rollovers, exact fees, emissions paid once (Carousel);
locks that hold and rewards credited once, and never more than promised
(LockRewards); no more owed than was announced and nothing earned lost (farms);
answers that are those of the latest assertion (UMA providers); no change
without its delay (factory and time lock). `PROJECT.json` lists every hazard at
its line.

## 2. The modules

```
FixedPointMath      mulDivDown, the fee
  VaultV2             both vaults of a market, factory operations on them, time
    VaultProperties     what the vaults promise; the inductive invariant
      Settlement          the three settlements as single steps
        ControllerPeggedAssetV2     triggers, feeds, keeper views, LiveSpec
        ControllerGeneric           triggers, condition provider, keeper views
        EscrowRefinement            vaults and settlement as EpochEscrow
          VaultProofs         lemmas: every vault step keeps the invariant
                              and is an escrow step
            ControllerProofs    the theorems, for both controllers
  Carousel            one Carousel vault with both queues and emissions
    CarouselProperties, CarouselProofs
  LockRewards         reward epochs and locks
    LockRewardsProperties
      LockRewardsProofs
EpochEscrow         abstract: one escrow per epoch, a pot per side
VaultFactoryV2      the factory's operations and who may call them
  TimeLock            queue, execute, cancel; accounts that bypass it
    TimeLockProofs
StakingRewards      a farm
  StakingRewardsProofs
UmaV3Providers      the asynchronous condition providers
  UmaV3ProvidersProofs
FiniteSums          lemmas about sums over finite sets, used by the proofs about
                    the vaults, the Carousel, the locks and the farm
MCControllerPeggedAssetV2, MCControllerGeneric, MCCarousel, MCLockRewards,
MCTimeLock, MCStakingRewards, MCUmaV3Providers
```

Definitions named `X_Something` preceded by a "mutant" comment are wrong
variants of `X`, used to confirm that a property notices the mistake; no
specification uses them.

### VaultV2, VaultProperties

The two vaults are one module because a settlement writes both. Variables
carry the names of the contract's storage, indexed by vault and epoch. An epoch
id is the pair `<<begin, end>>`: in the code the hash of market, begin and end.
`funds` is a history variable, the part of a vault's balance that came in for
an epoch and has not left on its account; it is what lets a property say whose
money a payout was made with. `late` is another: the shares of an epoch that were
minted after it had been settled, which the second of its begin allows (section
5). Nothing backs what `withdraw` pays for such a share beyond the asset it
brought, its profit, and the properties say so. A transaction is an action;
`require` and `revert` are guards; `SafeTransferFrom`, `Deposit`, `DepositETH`, `Withdraw`,
`CreateEpoch`, `PauseMarket`, `WhitelistController`, `SetTreasury` and
`WhitelistAddressOnMarket` follow the functions of the same name (the factory's
functions include the calls they make on both vaults). `controllerListed` says whether the market's
controller is still whitelisted, without which no epoch is created. A withdrawal
goes to any receiver, the vaults themselves included, so a vault's balance may
exceed what its epochs account for; other transfers of the asset into a vault
are not modelled, and could only add to that excess. `ResolveEpoch`, `SetClaimTVL`,
`SetEpochNull` and `SendTokens` are the functions only a controller may call,
for both vaults at once; `SendTokens` performs the transfers of the premium
vault before those of the collateral vault, as both controllers do.
`VaultProperties` states what they promise. `WithdrawSucceeds` there lists every
check on the way of a withdrawal, in the contract and in the tokens it calls, so
that "a holder can leave" can be said, and proved, without `ENABLED`; the
Carousel has a list of its own. `ExitsFunded` speaks of vaults without late shares
(`Undiluted`): with them the last holder may find the money gone.

### Settlement, ControllerPeggedAssetV2, ControllerGeneric

`SettleDepeg`, `SettleEnd` and `SettleNull` are what the two controllers do
once their own checks have passed; `DepegPasses`, `EndPasses` and `NullPasses`
list what the calls on the vaults in it require, `sendTokens` and its treasury
included. `ControllerPeggedAssetV2` adds the price
checks of `getLatestPrice` (sequencer up and past its grace period, fresh,
positive, answered, scaled to 18 decimals); its feeds report at any time.
`ControllerGeneric` adds a condition provider that changes its mind at any
time. Both have the three `CanExec` views keepers poll, and the lists of all
that a trigger requires (`DepegSucceeds`, `LiquidationSucceeds` and so on): a view
reads a few fields, a trigger needs money, accounting and addresses to be in
order as well.

### EpochEscrow, EscrowRefinement

What a market is meant to be: each epoch an escrow with one pot per side, which
fills up to the begin, is settled once, both sides in the same step, as
insured, expired or refunded, and is then shared out; who joins at the begin
itself and finds it settled (`JoinLate`) changes no claim, so the pot can fall
short by what the late shares gain. There is no common
balance, no send, no controller, and no order of calls inside a settlement. Fees
are bounded above only: at most the epoch's rate is missing from a claim.
`EscrowRefinement` maps the vaults onto it: a pot is the part of the ERC20
balance that `funds` attributes to an epoch, an epoch is open or settled when it
is on both vaults. Operations that touch no pot (transfers of shares, price
reports, pauses, treasury changes) are stutters.

### Carousel, CarouselProperties

One Carousel vault. The counterparty and the controller are abstracted: a
settlement leaves the vault with some `claimTVL` out of `Claims` and exactly
that money, which is what `SettlementExact`, proved of both controllers, says
of a real one, and reverts if the vault cannot pay. `MintDepositInQueue` and `MintRollovers` are whole calls with
their loops. The items of one call do not influence each other, each owner
having one of them and minting changing nothing of a resolved epoch, so the
loop of `mintRollovers` is `RollOver` applied to the set of items it handles: it
takes from balances, supply, money and emissions the sums over that set, and
fails if one item does. The clean-up does depend on the order of its arguments:
`CleanUpLoop` is a recursive function that repeats the swap-and-pop of
`CleanUpOne`. `late` counts what `deposit`, `mintDepositInQueue` and `mintRollovers`
mint into an epoch that is settled already. Timestamps and the `WAD` are scaled
down; the percentages are the code's.

### LockRewards, LockRewardsProperties

The modifiers `updateEpoch` and `updateReward` are `UpdatedEpoch` and
`UpdatedAccount`; every call of a user conjoins `UpdateReward` with its own
work. `credited` is a history variable: the epochs each user was credited for.

### VaultFactoryV2, TimeLock

`VaultFactoryV2` has one operator per function of the factory, with the sender
as a parameter; of the vaults it keeps what only the factory can change (a
market's controller and whitelist). A call is a tuple of a function's name and
its arguments, and `Perform(sender, call)` is what the factory does with it.
`TimeLock` queues, executes and cancels such calls for its owner, `policy`; an
execution performs the call with the lock as the sender, and when the call
reverts so does the execution, which leaves it queued. Accounts also call the
factory directly: the owner's functions, and the timelocker's once the timelocker
has been changed to an account. `changeOwnerOnFactory` and
`changeTimelockerOnFactory` pass through the lock at once, without a delay; that
is the code, and the reason why `DelayRespected` speaks of the steps taken while
the lock is the timelocker. `queuedAt`, `ownerSet` and `timelockerSet` are
history variables.

### StakingRewards

One farm. `RewardPerToken` and `Earned` are the views; `UpdateRewardLeaving` is
the modifier `updateReward`, with what of the earned reward the call leaves on
the account. `notified` and `paid` are history variables. The version 1 farms
(`legacy_v1/rewards/StakingRewards.sol`, `PausableStakingRewards.sol`) have the
same functions, up to the constructor.

### UmaV3Providers

One `UmaV3AssertionProvider` with several markets and any number of
`UmaV3PriceProvider`s. Both keep the same record per question (a market, or the
one price), so `Assert` and `AssertionResolvedCallback` are written once and say
where the two contracts differ. `assertions` is UMA's state: an assertion is
pending until `SettleAssertion` settles it, at the earliest after the liveness
and in any order, and calls the provider back in the same step; a callback that
reverts keeps it pending. The Round and Vol variants of the price provider put
one more number into the claim and are the same machine.

## 3. The runs

TLC explores each instance completely. The violation runs check one statement
of the code's own documentation and end with a counterexample.

| Run | Question | What it shows |
|---|---|---|
| `generic_holders` | Who can leave, and what does the second of the begin do? | Two holders, one an operator of the other, around all three settlements, with a block at the exact begin and withdrawals sent to the vaults. `VaultInv`, the invariant of the proofs, holds; shares are minted late in that second only (`LateOnlyAtBegin`); in a vault without late shares every check of a withdrawal of the whole balance passes, for every holder in every state (`ExitsFunded`). |
| `pegged_oracle` | Do the keepers' views tell the truth, and does every epoch end? | Views are exact (`KeeperViewsComplete`: equivalent to the list of everything the trigger requires) under stale, non-positive and unanswered prices, sequencer outages, pauses, delistings and treasury changes, with blocks at the begin and the end; an empty counterparty always means a refund; under the fairness below every created epoch is settled. |
| `generic_epochs` | Do epochs interfere? | Two epochs share the balances, and a second: the last one of the first is the begin of the other. Each is backed by its own money (`FundsCoverClaims`), `BalanceCoversAllEpochs` holds over their sum, settlements are exact, `GenericViewsComplete` says what a view leaves out, and what a keeper has polled stays due whatever comes before its transaction (`PollsStayGood`); the market implements `EpochEscrow`, one pot per epoch and side. |
| `carousel_positions` | Do positions survive a long life? | Enlist, settle at a loss, at a profit or null, withdraw, transfer, delist, clean up, roll over: both epochs backed in assets and emissions, queue indexed, enlisted shares present, rollover fair, free holders can leave (`FreeExitsFunded`); `CarouselInv`, the invariant of the proofs, holds. The second epoch begins at a block, so positions also roll over into it after it was settled. |
| `carousel_queues` | Are fees exactly what was taken? | Queued deposits minted in batches under changing relayer and deposit fees, including an item that cannot pay the whole relayer fee, and deposits at the exact begin. |
| `lock_rewards` | Can a lock be shortened, a reward be credited twice, or an epoch change while it runs? | Two users and two reward epochs; top-ups, relocks for one or two epochs, relocks after an early withdrawal, late returns, every operation of the owner: no. |
| `governance` | Is there a way round the time lock? | Calls queued twice, retried, cancelled and expired, changes of every owner, direct calls of accounts: no change without its delay, one controller from the owner, only vetted controllers. |
| `farm` | Can a farm owe more than was announced, or take back what was earned? | Two stakers, announcements during a period, idle times, changed durations, pauses, recovered tokens: no. |
| `uma_answers` | Is an answer always that of the latest assertion, and does every assertion come back? | Two markets and a price asserted at the same time, settled in any order as true or false, among timeouts, resets, and changes of relayer, bond and description: yes. A true answer stands for the cooldown. |
| `carousel_rollover_blocked` | `RolloverNotBlocked` (Carousel.sol:415) | Violated: one item whose shares are below the relayer fee reverts the batch. |
| `lock_unpaid` | `EveryLockedEpochPaid` (LockRewards.sol:18-20) | Violated: a user who locks during an epoch and returns late is moved past the locked epoch without its reward, and keeps one epoch to lock that nothing can ever work off. |
| `uma_false_price` | `FalseAssertionDecidesNothing` (UmaV3PriceProvider.sol:123) | Violated: a price that UMA found false becomes the answer 0, which is below every strike. |

### Bounds, and why they are enough

| Bound | Meaning |
|---|---|
| `BlockTimes` | A few block timestamps between the interesting ones: before, during and after an epoch, and on its `begin` and `end` where the order of deposits, settlements and views at these matters. Every run of the vaults and of the Carousel has a block at the exact begin of an epoch. The code only compares timestamps, so one representative of each order class suffices; the deposit fee, which computes with them, has a run of its own. |
| `DepositCap`, `QueueCap`, `BalanceCap` | Amounts of one epoch, length of the deposit queue, deposits of one user. Two unequal amounts and a fee that does not divide make every rounding occur; two items make a batch that is longer than an operation count, and one shorter. |
| `LateCap` | Shares minted after the settlement of their epoch: without a bound, deposits and withdrawals in that second could go on for ever. It allows one or two deposits or one rollover; a late share never changes the claim, so more of them repeat the first. |
| `Receivers` | Where withdrawals go: the vaults and one other address; the code treats all other addresses alike. |
| `Delistable` | The controller is listed and delisted in `pegged_oracle`, where that could keep epochs from ending; what a listing needs is the subject of `governance`. |
| `WithdrawalFees` | Below 10000 basis points. The code requires only that they are not 0; above 100% the fee subtraction reverts and an epoch can only be nulled. |
| `Treasuries` | One in `generic_epochs`, which is about money, not addresses, and where a second one makes the views wrong (section 5); two in `pegged_oracle`. |
| `Claims` | Loss and gain for the Carousel; null epochs are an action of their own. |
| `RelayerFees` | The code demands at least 10000 base units; a unit of the model stands for many of them. |
| `CleanUps` | Clean-up calls with one owner: a call with several repeats the fold. |
| `LastSettable`, `LastEpoch` | Reward epochs set and lockable: two set ones are what the contract allows at a time, and a third can be locked ahead of them. |
| `Day`, `Durations`, `StartTimes` | Days of two seconds; epochs starting now, later, or directly after the previous one. |
| `Fundings`, `FundingCap`, `Recoverable` | The second reward token is the one funded and, in `lock_rewards`, recovered by the owner. |
| `Timestamps`, `QueuedCalls`, `MaxQueued` | Days for which calls are queued, the calls, and how many wait at a time. Two timestamps let the same call be queued twice; the calls are those that interact (list and use a controller, change the oracle, replace the timelocker). The delays are the code's, in days; the blocks lie before, at and after the end of delay and grace period. |
| `Precision`, `MaxNotified`, `Shares` | Fixed point of the farm's index, rewards announced in total, shares per staker. A small precision makes the roundings large. Two announcements make a period fold in the rest of another. |
| `UINT128`, `MaxAssertions`, `timeOut`, `ASSERTION_*` | 128 bits cut to two, so that a datum becomes 0 when it is cut; two assertions at a time or one after the other; ten-minute units with the cooldown, the liveness and the timeout in this order. |

Users and, in the Carousel, holders are interchangeable where nothing orders
them, and TLC uses that symmetry (`carousel_positions`, the lock runs, which
check only invariants and action properties). Every run switches deadlock
checking off, because time is finite in an instance: the system may stop once
the last block is produced.

### Fairness

`LiveSpec` adds weak fairness of block production and, for each epoch, of
`TriggerEndEpoch` and `TriggerNullEpoch`: `KeeperV2.sol` polls the views of
every epoch and sends the transaction when one is true, and anyone else may.
Nothing is assumed of `TriggerDepeg`, of users, of the owner or of the feeds.
Under it `EpochEventuallySettled` holds although the price may never be
available. It needs fees below 100%.

`LiveSpec` of `UmaV3Providers` adds weak fairness of block production and of
`UmaNext`: UMA lets anyone settle an assertion once its liveness is over, and
whoever is owed the bond has a reason to. Which way it is settled, and when, is
open. Under it `AssertionsResolve` holds: no callback is ever refused.

## 4. The proofs

TLAPS checks the following for any users, epochs, timestamps, amounts, fees
and prices that satisfy the named assumptions. These are
`ConstantsAssumption`, `CarouselAssumption`, `LockRewardsAssumption`,
`UmaAssumption` and the like, which type the constants, and
`FiniteAssumption`: there are finitely many users and epochs, because an address
has 160 bits and an epoch is a pair of 40-bit timestamps. Nothing is assumed of
the blocks: the theorems hold with blocks at the exact begin of an epoch. What
happens there (section 5) is in their statements: an account may lack the profit
of its late shares and no more, and where a theorem says that a payment succeeds,
it says so of vaults in which no share was minted late.

Of the properties that the passing runs check, every one is a theorem here
that is neither liveness nor stated with `ENABLED`.

| Theorem | Statement |
|---|---|
| `TypeCorrect`, `GenericTypeCorrect` | types; in particular no balance or supply is ever negative |
| `SupplyAddsUp` | `[]SupplyIsSumOfBalances` |
| `VaultInvariant`, `GenericVaultInvariant` | `[]VaultInv`, the inductive invariant |
| `LateSharesAtBegin`, `GenericLateSharesAtBegin` | `LateOnlyAtBegin`: once an epoch is settled, its shares are minted in the second of its begin and in no other |
| `NoLateSharesApart`, `GenericNoLateSharesApart` | `[]UndilutedApart`: an epoch whose begin no block carries has no late shares and stays within its `finalTVL`, whatever happens to the others |
| `SidesStayTogether`, `GenericSidesStayTogether` | `[](SidesAgree /\ EpochsFresh)`: both sides of an epoch exist, and are resolved, together, and an epoch that is open has no accounting yet |
| `Solvency`, `GenericSolvency` | `[]FundsCoverClaims`: every epoch is backed by its own money, but for the profit of late shares |
| `BalanceSuffices`, `GenericBalanceSuffices` | `[]BalanceCoversAllEpochs`: the one balance covers all epochs together, less that profit |
| `SupplyBounded` | `[]ResolvedSupplyBounded`: shares that are not late stay within `finalTVL` |
| `ExitsAreFunded` | `[]ExitsFunded`: every check on the way of a withdrawal of a holder's whole balance passes, in a vault without late shares |
| `KeeperViewsAreComplete` | `[]KeeperViewsComplete`: the views of the pegged-asset controller answer true exactly when every check of the transaction passes |
| `GenericViewsAreComplete` | `[]GenericViewsComplete`: once a view of the generic controller is true, only a changed treasury, a fee above 100% or money paid to late shares stops the transaction |
| `PollsOutlast` | `PollsStayGood`: a view that is true stays so until the epoch is settled, its window or condition is over, or someone deposits at its begin |
| `TriggersByGuards`, `GenericTriggersByGuards` | a trigger is its list of checks and assignments that never fail |
| `SettlementIsExact`, `GenericSettlementIsExact` | a settlement leaves each vault with exactly the claim it stores |
| `EmptySideRefunded` | the pegged-asset controller refunds a side without counterparty |
| `GenericImplementsEscrow`, `PeggedImplementsEscrow` | the vaults under either controller implement `EpochEscrow` |
| `QueueAlwaysIndexed` | `[]QueueIndexed` of the Carousel |
| `CarouselInvariant`, `CarouselTypeCorrect` | `[]CarouselInv`, the inductive invariant; types |
| `EpochsAlwaysBacked`, `EmissionsAlwaysBacked` | `[]EpochsBacked` and `[]EmissionsBacked`, across rollovers, with the same exception |
| `NoLateSharesApart` (of the Carousel) | `[]UndilutedApart`: no way of minting, rollovers included, makes late shares in an epoch whose begin no block carries |
| `BalanceAlwaysAccounted` | `[]BalanceAccounted`: the fees paid are the fees taken |
| `FreeExitsAreFunded` | `[]FreeExitsFunded`: the same as `ExitsFunded` for a holder of the Carousel who is not in the rollover queue, emissions included |
| `PositionsLocked`, `RolloverAlwaysFair` | `[]SharesLocked`; `RolloverFair` |
| `RolloverCovered` | the shares a rollover burns exist, are worth at least what moves on, and exceed it by less than one asset and one share |
| `LockTypeCorrect`, `LocksAlwaysAddUp` | types of the locks; `[]LocksAddUp` |
| `CreditsBounded`, `PromisesSuffice` | `[]RewardsPaidBounded`; `[]UnclaimedNeverNegative`: `rewards - rewardsPaid` never underflows |
| `LocksHold`, `LocksFixed` | `LockedFundsStay`; `LockedBeforeStart` |
| `FarmTypeCorrect`, `RewardsBounded` | types of the farm; `[]RewardsWithinNotified` |
| `EarningsSafe` | `EarnedNeverLost`: nothing a staker of a farm has received and earned is lowered |
| `GovernanceTyped`, `LockRespectsDelay` | types; `DelayRespected`, for any calls, timestamps and number of queued calls |
| `OwnerChoosesOnce`, `MarketsHaveVettedControllers` | `OwnerControllerOnce`; `[]ControllersVetted` |
| `UmaTypeCorrect`, `CallbacksMatch` | types of the UMA providers (no provider pays a bond it does not hold); `[]OneAssertionEach` |
| `AnswersHaveReasons`, `TrueAnswersStand` | `[]AnswersJustified`; `TrueAnswerStands` |

**Sums.** Most invariants about money compare a total with a sum over users,
epochs or queue items. `SumFunction` folds a function over its domain, in an order
that `CHOOSE` picks. `FiniteSums` proves what the other proofs need of it: a sum
over a set is one element plus the sum over the rest, whichever element is taken
(`SumRemove`), and from this how a sum changes with one entry, how it is bounded,
and how it is grouped. The library's induction theorems cannot be used
with these provers, so each of these proofs takes a smallest subset that would
refute the claim, which exists because the subsets of a finite set are well
founded, and refutes it.

**The vaults.** `FundsCoverClaims` is not inductive. `VaultInv` strengthens
it. `OpenBacked`: an open epoch holds one unit per share and is
not null; this is what makes the claim computed by a settlement equal to the
money left after it. `SettledCovered`: a settled epoch exists and has begun, its
outstanding shares, but for the late ones, are at most `finalTVL`, and its funds
times `finalTVL` cover those shares times `claimTVL` and the late ones times
`finalTVL`, one asset each. A withdrawal keeps this because the quotient is
rounded down (`MulDivDownBound`); it takes shares that are not late off the count,
whoever burns them, which is why the bound says nothing of what late shares are
paid beyond their price. A deposit after the settlement, which only the second of
the begin lets through, adds one share and one asset. An epoch without `finalTVL`
refunds or is empty and covers its shares one by one. No
step of another epoch touches an epoch's `funds`, supply or claim.
`SupplyIsSumOfBalances` and
`AssetCoversFunds` add the holders of an epoch and the epochs of a vault: with
them the balance covers all epochs and no holder asks for more than the supply.
The vault lemmas
(`VaultProofs`) are proved once, per action, and the theorems of both
controllers (`ControllerProofs`) cite them.

**Exits and views.** `ENABLED` is beyond the prover, but a transaction succeeds
when its checks pass, and these can be listed. A lemma per operation
(`WithdrawByGuards`, `DepegByGuards`, `EndByGuards`, `NullByGuards`) shows that
the action is the conjunction of its list and of assignments of the form
`x' = e`, which any state can make: the list is the whole guard, nothing is
forgotten or added. The theorems then need `VaultInv` for the money (what the
three transfers of a settlement send is there, at each of them, `SendsCovered`),
`SidesAgree` because a view looks at one vault and the trigger calls both,
and `EpochsFresh` because `setClaimTVL` and `setEpochNull` refuse an epoch
that has been accounted for.

**The refinement.** Initial states map to initial states, and every action to a
step of one escrow or to a stutter; `VaultProofs` has one lemma per action of
the vaults, and the proof for each controller adds its triggers. The argument
rests on `VaultInv`, whose `OpenBacked` makes a settlement's claim an escrow's, and on
`SidesAgree`: an epoch exists, and is resolved, on both vaults or on neither.

**The Carousel.** `QueueInv` makes `QueueIndexed` inductive by the types of the
queue and the index; the clean-up needs the same of every intermediate state of
its loop. `CarouselInv` adds to it and to the types: that each epoch is in order
(`EpochsSound`: its assets and emissions backed, but for the profit of late
shares, and the others within its `finalTVL` once it is settled), that epochs are
created in the past and nothing is recorded before (`EpochsInTime`), that every item with shares is
backed by a balance of its owner in a real epoch (`ItemsLocked`, the inductive
form of `SharesLocked`), that supplies are sums of balances, and that the
balances of both tokens are those of the epochs together. As for the vaults,
`EpochsSound` counts late shares at what they brought, which is one asset and no
emissions. The hard step is `MintRollovers`, which changes several epochs and owners
at once. An item takes no more out of an epoch than the shares it burns are
worth (`RolloverCovered`); the sum over the items of an epoch does so too, and
since the index gives each owner one item, what is burnt of an owner's balance
is that of a single item. `RolloverFair` is read from the same lemmas,
`FreeExitsFunded` from the one that keeps an epoch covered across a withdrawal
(`WithdrawalCovered`).

**The locks.** `LockedBeforeStart` needs to know that the epochs are in order,
which no single call checks. `OrderInv` says that the epochs set are the first
ones, that each starts when those before it are over, and that the epochs before
`currentEpoch` are over. Then whatever `deposit` locks from `NextLocked` on has
not started (`DepositsWait`), and a new epoch starts after the last one
(`EpochStartInOrder`). That `updateEpoch` finds an epoch at all
(`CurrentEpoch`) rests on the epoch after the last one being unset. `LockInv`
adds `CreditsAccounted`: nobody is credited for an epoch that is not over or
without a lock in it, and what has been paid is what the locks of the credited
epochs are worth. These locks no longer change, so each epoch pays at most its rewards
(`EpochNotOverpaid`: shares rounded down of a total that `LocksAddUp` says is
their sum). `PromisesAddUp` does the same for what the owner has set. For
`LockedFundsStay` the counter of an account must say enough: `LocksCounted`
states that the locks it has not counted down lie in that many epochs, from the
first one not looked at yet, or from the next when that one was already in course.

**The farm.** `AccrualInv`: the index was brought up to date in the past and not
after the end of the period, and no staker is ahead of it. So an update never
moves the index back (`IndexGrows`), and every call of a staker first turns what
they have earned into `rewards`; an announcement changes the rate only after the
index is up to date. `RewardsWithinNotified` needs an exact account behind the
rounded one: `StreamCovered` says that what the stakers have received and earned,
counted in units of the precision before any division, and what the rest of the period
will still stream, never exceed what was announced. The index rises by at most
`rate * time / supply`, and the stakes add up to the supply (`StakesAddUp`).

**The time lock.** `LockInv` adds to the types that every queued call keeps the
day it was queued and a timestamp in the range accepted then (`QueueInRange`),
and that whoever whitelists a controller first uses up the owner's choice
(`ChoiceUsedUp`). `DelayRespected` then follows action by action: only an
execution changes what users rely on while the lock is the timelocker.

**UMA.** `OneAssertionEach` is inductive together with the types and `Filed`:
an assertion about a market is filed under its id, which is how the callback
finds the record. A new assertion gets a fresh id and starts only when the
record is idle, that is, when nothing is pending for its question.
`AnswersJustified` needs the trail from an answer back to its assertion
(`TrailInv`): a record refers to the latest assertion of its question
(`LatestFirst`), which was settled as the record says (`AnswerSettled`); a
description, once used, stays (`DescriptionKept`); and a price provider keeps the
datum it is waiting for (`DataKept`).

**Only model-checked.** The prover handles neither liveness
(`EpochEventuallySettled`, `AssertionsResolve`) nor `ENABLED`.
That a transaction succeeds is therefore said by the list of its checks, in
`ExitsFunded`, `FreeExitsFunded`, `KeeperViewsComplete` and `GenericViewsComplete`;
that each list is the whole guard of its action is proved too (`WithdrawByGuards` for
the vaults and for the Carousel, `TriggersByGuards`, `GenericTriggersByGuards`).
TLC also checks the inductive invariants `VaultInv` and `CarouselInv` on the runs.
The statements of the three violation runs are false of the code.

## 5. Disagreements between code and documentation

Three have a run (section 3) and an entry in `PROJECT.json`. Met on the way,
without a run in the present set:

* `VaultV2.sol:404` compares with `>`, so a deposit passes at `block.timestamp ==
  epochBegin`, when `epochHasStarted` (412) already lets the controller resolve
  the epoch: shares of a settled epoch are minted after `finalTVL` was frozen
  ("You can only call functions that use this modifier before the epoch has
  started", 401). These are the late shares of section 2, and the models and the
  proofs include them. `withdraw` pays them like the others, so when the claim is
  above `finalTVL` their holders take what the counted ones were promised, and when
  it is below they lose part of what they paid in; on a side that was settled empty
  and not marked null they cannot be withdrawn at all. An account lacks the profit of
  its late shares and no more (`Solvency`, `EpochsAlwaysBacked`), nobody mints late
  at any other second (`LateSharesAtBegin`), and epochs without a block at their
  begin have none (`NoLateSharesApart`). The tokens themselves are one balance,
  first come, first served, so that profit can be paid with the deposits of other
  epochs and is missing when the last holder of any epoch leaves: `ExitsFunded` and
  `FreeExitsFunded`, without their condition `Undiluted`, are violated when
  `BlockTimes` contains a begin.
* `ControllerGeneric.sol:102`: `triggerEndEpoch` does not check for an empty
  vault (`ControllerPeggedAssetV2.sol:168-173` does). An expired epoch without
  collateral can be ended before it is nulled, and the premium goes to a vault
  without holders (`VaultV2.sol:311` promises a refund). `EmptyCounterpartyRefunds`
  is violated under `GenericSpec`.
* `ControllerGeneric.sol:13` keeps the treasury of its construction, which
  `sendTokens` refuses once `setTreasury` has changed it: epochs with value on
  both sides cannot be settled while the views keep answering true.
  `GenericViewsAreComplete` proves that this, a fee above 100% and money paid to late
  shares are all that a true view leaves out.
* `UmaV2AssertionProvider.sol:34,68`: `assertionTimeOut` is set and never read, so
  a settled assertion counts for ever; `roundId` (118) has 8 bits and its
  increment makes the callback revert after 255 answers.
* `RewardBalances.sol:61` deletes a farm and leaves the zero address in the list;
  `balanceOf` then reverts for everybody.
* The fetch of a UMA assertion is accepted before the market has a description;
  its claim is then about nothing. `UmaV3PriceProvider.sol:198` cuts the datum to
  128 bits after checking that it is not 0.
* `Carousel.sol:600-606`: the clean-up swaps with the last item before it pops;
  for the last item of the queue the index it writes back is gone and the call
  reverts, so that owner cannot be cleaned up.
* `Carousel.sol:752` counts a position in `getRolloverTVL` at equality (`>=`),
  `mintRollovers` skips it (`>` at 414): the relayer's estimate can be too high.
* `CarouselFactory.sol:256` calls `cleanupRolloverQueue`; the vault spells it
  `cleanUpRolloverQueue`.
* `ControllerGeneric.sol:162` passes the market id where the epoch id is
  expected, so the null check always passes; `resolveEpoch` still refuses an
  epoch that has not begun.
* `LockRewards.sol:533-539`: `rewardsPaid` is raised when a reward is credited,
  not when it is claimed, so tokens owed to accounts count as free when the next
  epoch is set and can be promised twice ("The amount needed of tokens should
  be transfered before calling setNextEpoch", line 381).
* `LockRewards.sol:302-304`: relocking before the first epoch has started, or
  twice during one epoch, locks one epoch fewer than the account counts.

## 6. Not modelled, and why

* The condition providers that read a price (Chainlink, DIA, Redstone, CVI, Gdai,
  Pyth, the admin's, and their universal variants): seen only through
  `conditionMet`, as any answer at any time. The checks of the Chainlink one
  (sequencer, freshness, rounds, decimals) are those `ControllerPeggedAssetV2`
  models for its own feed.
* The UMA V2 providers, and `changeController` on a deployed vault pair: planned.
  In `ControllerPeggedAssetV2` and `ControllerGeneric` a market's controller is
  fixed; which controller it may be is the subject of `TimeLock`.
* The version 1 vaults, controller and factories, superseded by the modelled
  ones. Vendored code under `lib/` (forge-std, OpenZeppelin, solmate, Chainlink
  and its generated Go bindings) is not part of the protocol; what the protocol
  uses of it is modelled from the use.
* ERC1155 batch operations and receiver hooks: the single operations repeated;
  `nonReentrant` guards the calls that could be re-entered.
* Gas, events, the string encoding of names, the creator libraries, deployment
  scripts, the Y2K token (a plain ERC20), read-only aggregators.
* Arithmetic overflow of 256-bit integers: it needs supplies of 2^128 units and
  reverts. Underflow, which the code does run into, is a guard everywhere.

## 7. Plan

1. **Done**: the vault pair under both controllers with its inductive invariant
   and its refinement of `EpochEscrow`; the Carousel vault; LockRewards; the
   factory and the time lock; the farms; the UMA V3 providers; every invariant
   and action property of the passing runs that the prover can express, as a
   theorem; the exits and the keepers' views, check by check; the solvency
   of each epoch, of a vault and of a Carousel, with blocks at any time.
2. **`ConditionProviders`**: freshness, round and bound checks of the price feeds
   in one module, composed with `ControllerGeneric` in place of `conditionMet`.
3. **UMA V2**: requests and the single answer, sharing UMA's part of the model.
4. **Version 1** vault and controller, sharing the settlement's properties.
5. **Theorems**: which epoch a position has rolled over to, across several calls.

The project keeps to a dozen runs: one passing run per component and question,
and a violation run for the disagreements that matter most.
