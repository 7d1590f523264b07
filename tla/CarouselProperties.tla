------------------------- MODULE CarouselProperties -------------------------
(* What a Carousel vault promises to its holders.                          *)
EXTENDS Carousel

\* Every epoch is backed by its own money, through direct deposits, minted
\* queue items, rollovers and withdrawals: while it is open, one asset per
\* share; once it is settled, the pro-rata value of the outstanding shares, less
\* the profit of those minted after the settlement, which the exact begin of an
\* epoch allows: each brings one asset and is paid like the others.
\* mintRollovers moves item.shares assets from one epoch to the next and burns
\* OriginalDepositValue shares of the old one, a quantity rounded twice.
EpochBacked(id) ==
    IF epochResolved[id]
    THEN funds[id] * finalTVL[id] >=
            (totalSupply[id] - late[id]) * claimTVL[id] + late[id] * finalTVL[id]
    ELSE funds[id] = totalSupply[id]

EpochsBacked == \A id \in Epochs : EpochBacked(id)

\* The vault's ERC20 balance is what it holds for its epochs and for the
\* deposit queue, no more and no less: fees paid to the relayer and to the
\* treasury are exactly what was taken from the depositors, even when an item
\* cannot pay the whole relayer fee.
BalanceAccounted == asset = SumFunction(funds) + DepositQueueTVL

\* "we know shares were locked up to this point" (Carousel.sol:429): a
\* position queued for rollover is still held by its owner when the relayer
\* comes to burn it, whatever was withdrawn, transferred or rolled over since.
SharesLocked ==
    \A u \in Users : IsEnlistedInRolloverQueue(u) =>
        LET item == rolloverQueue[ownerToRollOverQueueIndex[u]]
        IN  item.shares <= balanceOf[item.epochId][u]

\* The index of an owner points at the owner's item and every item is pointed
\* at, also after the clean-up has moved items: otherwise an owner could be
\* locked by, or delist, someone else's position.
QueueIndexed ==
    /\ \A u \in Users : LET index == ownerToRollOverQueueIndex[u]
                        IN  index # 0 => rolloverQueue[index].receiver = u
    /\ \A i \in DOMAIN rolloverQueue :
          ownerToRollOverQueueIndex[rolloverQueue[i].receiver] = i

\* The emissions token left for a settled epoch covers what its outstanding
\* shares are entitled to: emissions handed to the treasury or paid to a
\* rolled-over holder are never paid a second time.  Nothing is there for the
\* shares minted after the settlement.
EpochEmissionsBacked(id) ==
    IF epochResolved[id]
    THEN emissionsFunds[id] * finalTVL[id] >=
            (totalSupply[id] - late[id]) * emissions[id]
    ELSE emissionsFunds[id] = emissions[id]

EmissionsAccounted == emissionsBalance = SumFunction(emissionsFunds)

EmissionsBacked ==
    (\A id \in Epochs : EpochEmissionsBacked(id)) /\ EmissionsAccounted

\* What a withdrawal pays, and the whole list of what withdraw requires: its
\* modifiers, the lock of the rollover queue, the burn, the divisions and the
\* two transfers.  (That the list is the guard of Withdraw is proved:
\* WithdrawByGuards.)
Payout(id, shares) ==
    IF epochNull[id] THEN shares ELSE PreviewWithdraw(id, shares)

WithdrawSucceeds(id, shares, owner, sender) ==
    /\ EpochExists(id)
    /\ epochResolved[id]
    /\ NotRollingOver(owner, id, shares)
    /\ IsAuthorized(sender, owner)
    /\ shares <= balanceOf[id][owner]
    /\ finalTVL[id] # 0
    /\ Payout(id, shares) <= asset
    /\ PreviewEmissionsWithdraw(id, shares) <= emissionsBalance

\* No share of the vault was minted late.
Undiluted == \A id \in Epochs : late[id] = 0

\* A holder of a settled epoch who is not queued for rollover can always
\* withdraw everything, assets and emissions, in one call: every check on the
\* way of that withdrawal passes, in a vault that never minted a share late.
FreeExitsFunded ==
    \A id \in Epochs, u \in Users :
        /\ Undiluted
        /\ epochResolved[id]
        /\ balanceOf[id][u] > 0
        /\ ~IsEnlistedInRolloverQueue(u)
        => WithdrawSucceeds(id, balanceOf[id][u], u, u)

\* A rollover costs its owner the relayer fee and no more than the rounding:
\* the shares burnt in the old epoch are worth at least the assets rolled
\* over, and exceed them by less than one asset and one share; the new
\* position is the old one minus the relayer fee.
RolloverFair ==
    [][\A i \in DOMAIN rolloverQueue \cap DOMAIN rolloverQueue' :
          LET item  == rolloverQueue[i]
              new   == rolloverQueue'[i].epochId
              u     == item.receiver
              burnt == balanceOf[item.epochId][u] - balanceOf'[item.epochId][u]
          IN  item.shares > 0 /\ new # item.epochId /\ burnt > 0 =>
                /\ burnt * claimTVL[item.epochId] >=
                      item.shares * finalTVL[item.epochId]
                /\ burnt * claimTVL[item.epochId] <
                      (item.shares + 1) * finalTVL[item.epochId]
                          + claimTVL[item.epochId]
                /\ balanceOf'[new][u] - balanceOf[new][u] =
                      item.shares - relayerFee]_vars

-----------------------------------------------------------------------------
(* The inductive invariant behind them.                                    *)

\* No block carries the exact timestamp at which the epoch begins.
BeginsBetweenBlocks(id) == EpochBegin(id) \notin BlockTimes

\* The shares of an epoch that begins between two blocks are minted before it
\* is settled, all of them, by whatever of the three ways.
UndilutedApart ==
    \A id \in Epochs : BeginsBetweenBlocks(id) => late[id] = 0

\* The queue knows its owners: what QueueIndexed needs to survive any call.
QueueInv ==
    /\ relayerFee \in RelayerFees
    /\ rolloverQueue \in Seq(QueueItem)
    /\ ownerToRollOverQueueIndex \in [Users -> 0..Len(rolloverQueue)]
    /\ QueueIndexed

\* Nothing is recorded for an epoch before it is created, and the recorded
\* time of its creation has passed.
EpochsInTime ==
    /\ now \in BlockTimes
    /\ epochs # <<>>
    /\ \A id \in Epochs :
          IF EpochExists(id) THEN epochCreation[id] <= now
                             ELSE ~epochResolved[id] /\ emissions[id] = 0

\* The accounts of an epoch are in order, and only the second of its begin
\* brings it shares that its finalTVL does not count.
EpochSound(id) ==
    /\ EpochBacked(id)
    /\ EpochEmissionsBacked(id)
    /\ late[id] > 0 => epochResolved[id] /\ ~BeginsBetweenBlocks(id)
    /\ IF epochResolved[id]
       THEN /\ now >= EpochBegin(id)
            /\ totalSupply[id] - late[id] <= finalTVL[id]
            /\ epochNull[id] => claimTVL[id] = finalTVL[id]
            /\ finalTVL[id] = 0 => funds[id] >= 0 /\ emissionsFunds[id] >= 0
       ELSE ~epochNull[id]

EpochsSound == \A id \in Epochs : EpochSound(id)

\* SharesLocked, item by item: only positions of real epochs hold shares.
ItemsLocked ==
    \A i \in DOMAIN rolloverQueue :
        LET item == rolloverQueue[i]
        IN  item.shares > 0 => /\ item.epochId \in Epochs
                               /\ item.shares <= balanceOf[item.epochId][item.receiver]

SupplyIsSumOfBalances ==
    \A id \in Epochs : totalSupply[id] = SumFunction(balanceOf[id])

\* EpochsBacked is not inductive: a settlement leaves every claim covered only
\* if the shares are those of its holders, a rollover only if what it burns is
\* still there and belongs to a settled epoch, and a withdrawal only if the
\* shares of a null epoch are worth one asset each.
CarouselInv ==
    /\ TypeOK
    /\ QueueIndexed
    /\ EpochsInTime
    /\ EpochsSound
    /\ ItemsLocked
    /\ SupplyIsSumOfBalances
    /\ BalanceAccounted
    /\ EmissionsAccounted

-----------------------------------------------------------------------------
\* "skip the rollover for the user if the assets cannot cover the relayer fee
\* instead of revert" (Carousel.sol:415): once the previous epoch is resolved,
\* a relayer can work through the queue one item at a time until the window
\* closes; no position in it makes the call revert.
RolloverNotBlocked ==
    \A id \in Epochs :
        /\ Last(epochs) = id
        /\ EpochHasNotStarted(id)
        /\ epochs[Len(epochs) - 1] # QueueEpoch
        /\ epochResolved[epochs[Len(epochs) - 1]]
        /\ rolloverQueue # <<>>
        => ENABLED MintRollovers(id, 1)
=============================================================================
