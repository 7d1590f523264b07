------------------------------ MODULE Carousel ------------------------------
(***************************************************************************)
(* One Carousel vault: a VaultV2 with a queue of deposits that relayers    *)
(* mint into the next epoch, a queue of winning positions that relayers    *)
(* roll over into the next epoch, and emissions shared among the holders   *)
(* of an epoch.  The counterparty vault and the controller are abstracted: *)
(* a settlement leaves the vault with some claimTVL and exactly that money *)
(* (SettlementExact of VaultProperties).                                   *)
(***************************************************************************)
EXTENDS FixedPointMath, SequencesExt

CONSTANTS
    Users,            \* holders of shares
    Approved,         \* pairs <<owner, operator>> of ERC1155 setApprovalForAll
    Epochs,           \* epochs <<begin, end>> the owner may create
    BlockTimes,       \* timestamps at which blocks are produced
    Amounts,          \* amounts of one deposit, in assets
    Shares,           \* amounts of one withdrawal, transfer or enlistment
    DepositCap,       \* bound on the shares of one epoch
    LateCap,          \* bound on the shares minted late, per epoch
    QueueCap,         \* bound on the length of the deposit queue
    Operations,       \* operations a relayer asks for in one call
    Claims,           \* values a settlement may leave the vault with
    RelayerFees,      \* relayer fees; the code requires at least 10000 units
    DepositFees,      \* deposit fees in basis points; at most 250 in the code
    minQueueDeposit,
    EmissionAmounts,  \* emissions an epoch may be created with
    CleanUps,         \* arguments of cleanUpRolloverQueue calls
    WAD               \* 10^18 in the code

ASSUME CarouselAssumption ==
    /\ Epochs \subseteq (Nat \ {0}) \X Nat
    /\ BlockTimes \subseteq Nat
    /\ Amounts \subseteq Nat /\ Shares \subseteq Nat
    /\ DepositCap \in Nat /\ LateCap \in Nat /\ QueueCap \in Nat
    /\ Operations \subseteq Nat
    /\ Claims \subseteq Nat
    /\ RelayerFees \subseteq Nat \ {0}
    /\ DepositFees \subseteq 0..250
    /\ minQueueDeposit \in Nat
    /\ EmissionAmounts \subseteq Nat
    /\ CleanUps \subseteq Seq(Users)
    /\ WAD \in Nat \ {0}
    /\ Approved \subseteq Users \X Users

\* Addresses are 160 bits wide, and epochs are a pair of 40-bit timestamps.
ASSUME FiniteAssumption == IsFiniteSet(Users) /\ IsFiniteSet(Epochs)

VARIABLES
    now,
    epochs,           \* creation order; epochs[1] is the queue's epoch 0
    epochCreation,
    epochResolved, epochNull, finalTVL, claimTVL,
    totalSupply, balanceOf,
    late,             \* history: the shares minted after the settlement
    asset,            \* ERC20 balance of the vault
    funds,            \* history: the part of it held for each epoch
    relayerFee, depositFee,
    depositQueue, rolloverQueue,
    ownerToRollOverQueueIndex,   \* 0, or the position in rolloverQueue
    rolloverAccounting,
    emissions,
    emissionsBalance,   \* balance of the vault in the emissions token
    emissionsFunds      \* history: the part of it held for each epoch

timeVars     == <<now, epochs, epochCreation>>
settleVars   == <<epochResolved, epochNull, finalTVL, claimTVL>>
shareVars    == <<totalSupply, balanceOf, late>>
moneyVars    == <<asset, funds>>
feeVars      == <<relayerFee, depositFee>>
rolloverVars == <<rolloverQueue, ownerToRollOverQueueIndex, rolloverAccounting>>
emissionVars == <<emissions, emissionsBalance, emissionsFunds>>
vars == <<timeVars, settleVars, shareVars, moneyVars, feeVars, depositQueue,
          rolloverVars, emissionVars>>

\* Epoch 0: it never starts and is never resolved; deposits into it queue up.
QueueEpoch == <<0, 0>>

QueueItem ==
    [shares : Nat, receiver : Users, epochId : Epochs \cup {QueueEpoch}]

TypeOK ==
    /\ now \in Nat
    /\ epochs \in Seq(Epochs \cup {QueueEpoch})
    /\ epochCreation \in [Epochs -> Nat]
    /\ epochResolved \in [Epochs -> BOOLEAN]
    /\ epochNull \in [Epochs -> BOOLEAN]
    /\ finalTVL \in [Epochs -> Nat]
    /\ claimTVL \in [Epochs -> Nat]
    /\ totalSupply \in [Epochs -> Nat]
    /\ balanceOf \in [Epochs -> [Users -> Nat]]
    /\ late \in [Epochs -> Nat]
    /\ asset \in Nat
    /\ funds \in [Epochs -> Int]
    /\ relayerFee \in RelayerFees /\ depositFee \in DepositFees
    /\ depositQueue \in Seq([shares : Nat, receiver : Users])
    /\ rolloverQueue \in Seq(QueueItem)
    /\ ownerToRollOverQueueIndex \in [Users -> 0..Len(rolloverQueue)]
    /\ rolloverAccounting \in [Epochs -> Nat]
    /\ emissions \in [Epochs -> Nat]
    /\ emissionsBalance \in Nat
    /\ emissionsFunds \in [Epochs -> Int]

Init ==
    /\ now \in BlockTimes
    /\ epochs = <<QueueEpoch>>
    /\ epochCreation = [id \in Epochs |-> 0]
    /\ epochResolved = [id \in Epochs |-> FALSE]
    /\ epochNull = epochResolved
    /\ finalTVL = epochCreation /\ claimTVL = epochCreation
    /\ totalSupply = epochCreation
    /\ balanceOf = [id \in Epochs |-> [u \in Users |-> 0]]
    /\ late = epochCreation
    /\ asset = 0
    /\ funds = epochCreation
    /\ relayerFee \in RelayerFees
    /\ depositFee \in DepositFees
    /\ depositQueue = <<>> /\ rolloverQueue = <<>>
    /\ ownerToRollOverQueueIndex = [u \in Users |-> 0]
    /\ rolloverAccounting = epochCreation
    /\ emissions = epochCreation
    /\ emissionsBalance = 0
    /\ emissionsFunds = epochCreation

-----------------------------------------------------------------------------
(* Views and modifiers.                                                    *)

EpochExists(id) == Contains(epochs, id)
EpochBegin(id) == id[1]

\* mutant: the deposit window never closes.
EpochHasNotStarted_Dropped(id) == TRUE

EpochHasNotStarted(id) == now <= EpochBegin(id)
EpochHasStarted(id) == id # QueueEpoch /\ now >= EpochBegin(id)

IsAuthorized(sender, owner) ==
    sender = owner \/ <<owner, sender>> \in Approved

\* The deposit fee in basis points grows linearly from 0 at the creation of
\* the epoch to depositFee at its begin; the division reverts when they are
\* equal.
CalculateFeePercent(minX, maxX) ==
    LET maxY == depositFee * WAD
    IN  ((maxY \div (maxX - minX)) * (now - maxX) + maxY) \div WAD

\* The fee part of a deposit; none is computed when depositFee is 0.
DepositFeeDefined(id) == depositFee > 0 => epochCreation[id] # EpochBegin(id)
GetEpochDepositFee(id, assets) ==
    IF depositFee = 0 THEN 0
    ELSE MulDivDown(assets,
                    CalculateFeePercent(epochCreation[id], EpochBegin(id)),
                    BPS)

PreviewWithdraw(id, shares) == MulDivDown(shares, claimTVL[id], finalTVL[id])

PreviewEmissionsWithdraw(id, shares) ==
    MulDivDown(shares, emissions[id], finalTVL[id])

\* mutant: the quotient is rounded up.
PreviewAmountInShares_RoundUp(id, assets) ==
    MulDivDown(assets, finalTVL[id], claimTVL[id]) + 1

PreviewAmountInShares(id, assets) ==
    IF claimTVL[id] # 0 THEN MulDivDown(assets, finalTVL[id], claimTVL[id])
                        ELSE 0

IsEnlistedInRolloverQueue(u) ==
    /\ ownerToRollOverQueueIndex[u] # 0
    /\ rolloverQueue[ownerToRollOverQueueIndex[u]].shares # 0

\* mutant: a position queued for rollover is not locked.
NotRollingOver_Dropped(u, id, shares) == TRUE

\* Shares queued for rollover can be neither withdrawn nor transferred.
NotRollingOver(u, id, shares) ==
    IsEnlistedInRolloverQueue(u) =>
        LET item == rolloverQueue[ownerToRollOverQueueIndex[u]]
        IN  item.epochId = id => balanceOf[id][u] - item.shares >= shares

DepositQueueTVL ==
    SumFunction([i \in DOMAIN depositQueue |-> depositQueue[i].shares])

-----------------------------------------------------------------------------
(* Deposits, withdrawals and transfers.                                    *)

\* Whatever mints shares is open up to the begin of the epoch, and a settlement
\* from the begin on: in the second of the begin shares can be minted after the
\* finalTVL they will be divided by.
CountLate(id, minted) ==
    /\ epochResolved[id] => late[id] + minted <= LateCap
    /\ late' = IF epochResolved[id]
               THEN [late EXCEPT ![id] = @ + minted] ELSE late

\* deposit and depositETH with an epoch id: the fee goes to the treasury.
Deposit(id, assets, receiver) ==
    LET assetsAfterFee == assets - GetEpochDepositFee(id, assets)
    IN  /\ EpochExists(id)
        /\ EpochHasNotStarted(id)
        /\ DepositFeeDefined(id)
        /\ totalSupply[id] + assetsAfterFee <= DepositCap
        /\ asset' = asset + assetsAfterFee
        /\ funds' = [funds EXCEPT ![id] = @ + assetsAfterFee]
        /\ totalSupply' = [totalSupply EXCEPT ![id] = @ + assetsAfterFee]
        /\ balanceOf' = [balanceOf EXCEPT ![id][receiver] = @ + assetsAfterFee]
        /\ CountLate(id, assetsAfterFee)
        /\ UNCHANGED <<timeVars, settleVars, feeVars, depositQueue,
                       rolloverVars, emissionVars>>

\* deposit and depositETH with epoch id 0.
DepositInQueue(assets, receiver) ==
    /\ assets >= minQueueDeposit
    /\ Len(depositQueue) < QueueCap
    /\ asset' = asset + assets
    /\ depositQueue' =
          Append(depositQueue, [shares |-> assets, receiver |-> receiver])
    /\ UNCHANGED <<timeVars, settleVars, shareVars, funds, feeVars,
                   rolloverVars, emissionVars>>

Withdraw(id, shares, owner, sender) ==
    /\ EpochExists(id)
    /\ epochResolved[id]
    /\ NotRollingOver(owner, id, shares)
    /\ IsAuthorized(sender, owner)
    /\ balanceOf[id][owner] >= shares
    /\ finalTVL[id] # 0
    /\ LET assets == IF epochNull[id] THEN shares
                                      ELSE PreviewWithdraw(id, shares)
           entitledEmissions == PreviewEmissionsWithdraw(id, shares)
       IN  /\ assets <= asset
           /\ entitledEmissions <= emissionsBalance
           /\ asset' = asset - assets
           /\ funds' = [funds EXCEPT ![id] = @ - assets]
           /\ emissionsBalance' = emissionsBalance - entitledEmissions
           /\ emissionsFunds' =
                 [emissionsFunds EXCEPT ![id] = @ - entitledEmissions]
    /\ totalSupply' = [totalSupply EXCEPT ![id] = @ - shares]
    /\ balanceOf' = [balanceOf EXCEPT ![id][owner] = @ - shares]
    /\ UNCHANGED <<timeVars, settleVars, late, feeVars, depositQueue,
                   rolloverVars, emissions>>

SafeTransferFrom(id, from, to, amount, sender) ==
    /\ NotRollingOver(from, id, amount)
    /\ IsAuthorized(sender, from)
    /\ balanceOf[id][from] >= amount
    /\ LET debited == [balanceOf[id] EXCEPT ![from] = @ - amount]
       IN  balanceOf' = [balanceOf EXCEPT
                            ![id] = [debited EXCEPT ![to] = @ + amount]]
    /\ UNCHANGED <<timeVars, settleVars, totalSupply, late, moneyVars, feeVars,
                   depositQueue, rolloverVars, emissionVars>>

-----------------------------------------------------------------------------
(* The rollover queue.                                                     *)

\* Shares worth less than minQueueDeposit cannot be enlisted.
WorthMinimum(id, shares) ==
    IF epochResolved[id]
    THEN finalTVL[id] # 0 /\ PreviewWithdraw(id, shares) >= minQueueDeposit
    ELSE shares >= minQueueDeposit

EnlistInRollover(id, shares, receiver, sender) ==
    LET item == [shares |-> shares, receiver |-> receiver, epochId |-> id]
        index == ownerToRollOverQueueIndex[receiver]
    IN  /\ EpochExists(id)
        /\ IsAuthorized(sender, receiver)
        /\ balanceOf[id][receiver] >= shares
        /\ WorthMinimum(id, shares)
        /\ rolloverQueue' = IF index # 0
                            THEN [rolloverQueue EXCEPT ![index].shares = shares,
                                                       ![index].epochId = id]
                            ELSE Append(rolloverQueue, item)
        /\ ownerToRollOverQueueIndex' =
              IF index # 0 THEN ownerToRollOverQueueIndex
              ELSE [ownerToRollOverQueueIndex EXCEPT
                        ![receiver] = Len(rolloverQueue) + 1]
        /\ UNCHANGED <<timeVars, settleVars, shareVars, moneyVars, feeVars,
                       depositQueue, rolloverAccounting, emissionVars>>

\* The item stays in the queue, emptied.
DelistInRollover(owner, sender) ==
    /\ IsEnlistedInRolloverQueue(owner)
    /\ IsAuthorized(sender, owner)
    /\ LET index == ownerToRollOverQueueIndex[owner]
       IN  rolloverQueue' = [rolloverQueue EXCEPT ![index].shares = 0,
                                                  ![index].epochId = QueueEpoch]
    /\ UNCHANGED <<timeVars, settleVars, shareVars, moneyVars, feeVars,
                   depositQueue, ownerToRollOverQueueIndex,
                   rolloverAccounting, emissionVars>>

\* A position rolls over when its epoch is resolved in its favour and its
\* value can pay the relayer.
IsRolledOver(item) ==
    /\ item.shares > 0
    /\ epochResolved[item.epochId]
    /\ LET entitledAmount == PreviewWithdraw(item.epochId, item.shares)
       IN  entitledAmount > item.shares /\ entitledAmount > relayerFee

\* mutant: the whole position is burnt, its profit included.
OriginalDepositValue_All(item) == item.shares

\* The shares of the old epoch that are burnt: those worth what is rolled
\* over, the owner keeping the ones worth the profit.
OriginalDepositValue(item) ==
    item.shares - PreviewAmountInShares(
        item.epochId,
        PreviewWithdraw(item.epochId, item.shares) - item.shares)

\* The items of a set of positions of the queue that an owner holds, and those
\* that come from an epoch.
ItemsOf(S, u) == {i \in S : rolloverQueue[i].receiver = u}
ItemsFrom(S, e) == {i \in S : rolloverQueue[i].epochId = e}

\* Shares burnt and shares minted for a set of items, and the emissions paid
\* for those of one epoch.
AmountToMint(i) == rolloverQueue[i].shares - relayerFee
Burnt(S) == SumFunction([i \in S |-> OriginalDepositValue(rolloverQueue[i])])
Minted(S) == SumFunction([i \in S |-> AmountToMint(i)])
EmissionsPaid(e, S) ==
    SumFunction([i \in S |-> PreviewEmissionsWithdraw(
                                 e, OriginalDepositValue(rolloverQueue[i]))])

\* The effect of rolling over the items Handled.  Each owner has one item and
\* minting changes no value of a resolved epoch, so the items do not influence
\* each other: the loop's effect is the sum of its iterations, and it reverts
\* if one of them does.  amountToMint is an unsigned subtraction, which reverts
\* below 0.
RollOver(id, Handled) ==
    LET From(e) == ItemsFrom(Handled, e)
        Of(e, u) == ItemsOf(From(e), u)
        emissionsOut ==
            SumFunction([e \in Epochs |-> EmissionsPaid(e, From(e))])
        relayerReward == Cardinality(Handled) * relayerFee
    IN  /\ \A i \in Handled : AmountToMint(i) >= 0
        /\ \A e \in Epochs, u \in Users : balanceOf[e][u] >= Burnt(Of(e, u))
        /\ relayerReward <= asset
        /\ emissionsOut <= emissionsBalance
        /\ balanceOf' = [e \in Epochs |-> [u \in Users |->
              balanceOf[e][u] - Burnt(Of(e, u))
                  + (IF e = id THEN Minted(ItemsOf(Handled, u)) ELSE 0)]]
        /\ totalSupply' = [e \in Epochs |->
              totalSupply[e] - Burnt(From(e))
                  + (IF e = id THEN Minted(Handled) ELSE 0)]
        /\ CountLate(id, Minted(Handled))
        /\ rolloverQueue' = [i \in DOMAIN rolloverQueue |->
              IF i \in Handled
              THEN [rolloverQueue[i] EXCEPT !.shares = AmountToMint(i),
                                            !.epochId = id]
              ELSE rolloverQueue[i]]
        /\ asset' = asset - relayerReward
        /\ funds' = [e \in Epochs |->
              funds[e]
                  - SumFunction([i \in From(e) |-> rolloverQueue[i].shares])
                  + (IF e = id THEN Minted(Handled) ELSE 0)]
        /\ emissionsBalance' = emissionsBalance - emissionsOut
        /\ emissionsFunds' = [e \in Epochs |->
              emissionsFunds[e] - EmissionsPaid(e, From(e))]

\* mintRollovers works on the items after the last one it handled for this
\* epoch.
MintRollovers(id, operations) ==
    LET length == Len(rolloverQueue)
        index  == rolloverAccounting[id]
        ops    == IF operations > length \/ index + operations > length
                  THEN length - index ELSE operations
        Valued(item) == item.shares > 0 /\ epochResolved[item.epochId]
                            => finalTVL[item.epochId] # 0
        Handled == {i \in index + 1 .. index + ops :
                        IsRolledOver(rolloverQueue[i])}
    IN  /\ EpochExists(id)
        /\ EpochHasNotStarted(id)
        /\ length > 0
        /\ index <= length
        /\ epochs[Len(epochs) - 1] # QueueEpoch
        /\ epochResolved[epochs[Len(epochs) - 1]]
        /\ Last(epochs) = id
        /\ \A i \in index + 1 .. index + ops : Valued(rolloverQueue[i])
        /\ RollOver(id, Handled)
        /\ rolloverAccounting' =
              IF Handled = {} THEN rolloverAccounting
              ELSE [rolloverAccounting EXCEPT ![id] = index + ops]
        /\ UNCHANGED <<timeVars, settleVars, feeVars, depositQueue,
                       ownerToRollOverQueueIndex, emissions>>

-----------------------------------------------------------------------------
(* The deposit queue.                                                      *)

\* mutant: the relayer is paid the full fee for every item.
RelayerFeeOf_NoShortfall(assetsAfterFee) == relayerFee

\* What an item pays the relayer: the fee, or all that is left of the item.
RelayerFeeOf(assetsAfterFee) ==
    IF assetsAfterFee > relayerFee THEN relayerFee ELSE assetsAfterFee

\* What is minted for an item: what the relayer leaves of it.
AssetsToMint(assetsAfterFee) ==
    IF assetsAfterFee > relayerFee THEN assetsAfterFee - relayerFee ELSE 0

\* mintDepositInQueue mints the last items of the queue.  Each item's
\* deposit fee goes to the treasury and its relayer fee to the caller.
MintDepositInQueue(id, operations) ==
    LET length == Len(depositQueue)
        ops    == IF operations > length THEN length ELSE operations
        Handled == length - ops + 1 .. length
        Fee(i) == GetEpochDepositFee(id, depositQueue[i].shares)
        AfterFee(i) == depositQueue[i].shares - Fee(i)
        MintedFor(S) == SumFunction([i \in S |-> AssetsToMint(AfterFee(i))])
        minted == MintedFor(Handled)
        toTreasury == SumFunction([i \in Handled |-> Fee(i)])
        toRelayer == SumFunction([i \in Handled |-> RelayerFeeOf(AfterFee(i))])
    IN  /\ EpochExists(id)
        /\ EpochHasNotStarted(id)
        /\ length > 0
        /\ ops > 0 => DepositFeeDefined(id)
        /\ totalSupply[id] + minted <= DepositCap
        /\ toTreasury + toRelayer <= asset
        /\ totalSupply' = [totalSupply EXCEPT ![id] = @ + minted]
        /\ balanceOf' = [balanceOf EXCEPT ![id] =
            [u \in Users |->
                @[u] + MintedFor({i \in Handled : depositQueue[i].receiver = u})]]
        /\ CountLate(id, minted)
        /\ asset' = asset - toTreasury - toRelayer
        /\ funds' = [funds EXCEPT ![id] = @ + minted]
        /\ depositQueue' = SubSeq(depositQueue, 1, length - ops)
        /\ UNCHANGED <<timeVars, settleVars, feeVars, rolloverVars,
                       emissionVars>>

-----------------------------------------------------------------------------
(* The factory.                                                            *)

CreateEpochWithEmissions(id, emission) ==
    /\ id[1] < id[2]
    /\ ~EpochExists(id)
    /\ epochs' = Append(epochs, id)
    /\ epochCreation' = [epochCreation EXCEPT ![id] = now]
    /\ emissions' = [emissions EXCEPT ![id] = emission]
    /\ emissionsBalance' = emissionsBalance + emission
    /\ emissionsFunds' = [emissionsFunds EXCEPT ![id] = @ + emission]
    /\ UNCHANGED <<now, settleVars, shareVars, moneyVars, feeVars,
                   depositQueue, rolloverVars>>

ChangeRelayerFee(fee) ==
    /\ depositQueue = <<>>
    /\ relayerFee' = fee
    /\ UNCHANGED <<timeVars, settleVars, shareVars, moneyVars, depositFee,
                   depositQueue, rolloverVars, emissionVars>>

ChangeDepositFee(fee) ==
    /\ depositFee' = fee
    /\ UNCHANGED <<timeVars, settleVars, shareVars, moneyVars, relayerFee,
                   depositQueue, rolloverVars, emissionVars>>

\* mutants: the index of the moved item's owner is not updated; the index of
\* the removed owner is not deleted.
CleanUpOne_NoReindex(s, owner) ==
    IF s.index[owner] = 0 \/ s.index[owner] = Len(s.queue) THEN s
    ELSE IF s.queue[s.index[owner]].shares # 0 THEN s
    ELSE [ok |-> TRUE,
          queue |-> Front([s.queue EXCEPT ![s.index[owner]] = Last(s.queue)]),
          index |-> [s.index EXCEPT ![owner] = 0]]

CleanUpOne_NoDelete(s, owner) ==
    IF s.index[owner] = 0 \/ s.index[owner] = Len(s.queue) THEN s
    ELSE IF s.queue[s.index[owner]].shares # 0 THEN s
    ELSE [ok |-> TRUE,
          queue |-> Front([s.queue EXCEPT ![s.index[owner]] = Last(s.queue)]),
          index |-> [s.index EXCEPT
                        ![Last(s.queue).receiver] = s.index[owner]]]

\* One iteration of cleanUpRolloverQueue: the last item takes the place of
\* the removed one and its owner's index is updated.  When the removed item
\* is itself the last, the code reads past the end of the shortened array
\* and reverts.
CleanUpOne(s, owner) ==
    LET index == s.index[owner]
    IN  IF ~s.ok \/ index = 0 THEN s
        ELSE IF s.queue[index].shares # 0 THEN s
        ELSE IF index = Len(s.queue) THEN [s EXCEPT !.ok = FALSE]
        ELSE [ok |-> TRUE,
              queue |-> Front([s.queue EXCEPT ![index] = Last(s.queue)]),
              index |-> [s.index EXCEPT ![Last(s.queue).receiver] = index,
                                        ![owner] = 0]]

\* The loop: state[n] is what the first n iterations leave.
CleanUpLoop(addressesToDelist) ==
    LET state[n \in 0 .. Len(addressesToDelist)] ==
            IF n = 0
            THEN [ok |-> TRUE, queue |-> rolloverQueue,
                  index |-> ownerToRollOverQueueIndex]
            ELSE CleanUpOne(state[n - 1], addressesToDelist[n])
    IN  state[Len(addressesToDelist)]

CleanUpRolloverQueue(addressesToDelist) ==
    LET after == CleanUpLoop(addressesToDelist)
    IN  /\ EpochHasStarted(Last(epochs))
        /\ after.ok
        /\ rolloverQueue' = after.queue
        /\ ownerToRollOverQueueIndex' = after.index
        /\ UNCHANGED <<timeVars, settleVars, shareVars, moneyVars, feeVars,
                       depositQueue, rolloverAccounting, emissionVars>>

-----------------------------------------------------------------------------
(* The controller, seen from this vault: resolveEpoch, setClaimTVL and the *)
(* transfers of one settlement, which revert when the vault cannot pay.    *)

ResolveEpoch(id, claim) ==
    /\ EpochExists(id)
    /\ EpochHasStarted(id)
    /\ ~epochResolved[id]
    /\ totalSupply[id] <= asset + claim
    /\ epochResolved' = [epochResolved EXCEPT ![id] = TRUE]
    /\ finalTVL' = [finalTVL EXCEPT ![id] = totalSupply[id]]
    /\ claimTVL' = [claimTVL EXCEPT ![id] = claim]
    /\ funds' = [funds EXCEPT ![id] = @ - totalSupply[id] + claim]
    /\ asset' = asset - totalSupply[id] + claim

\* The claim depends on the counterparty's TVL, so any may come out.
Settle(id, claim) ==
    /\ totalSupply[id] # 0
    /\ ResolveEpoch(id, claim)
    /\ UNCHANGED <<timeVars, epochNull, shareVars, feeVars, depositQueue,
                   rolloverVars, emissionVars>>

\* mutant: the emissions stay claimable after they went to the treasury.
EmissionsLeft_Kept(id) == emissions[id]

EmissionsLeft(id) == 0

\* A null epoch, when the counterparty is empty: setEpochNull sends the
\* emissions to the treasury.
SettleNull(id) ==
    /\ ResolveEpoch(id, totalSupply[id])
    /\ epochNull' = [epochNull EXCEPT ![id] = TRUE]
    /\ emissions[id] <= emissionsBalance
    /\ emissionsBalance' = emissionsBalance - emissions[id]
    /\ emissionsFunds' = [emissionsFunds EXCEPT ![id] = @ - emissions[id]]
    /\ emissions' = [emissions EXCEPT ![id] = EmissionsLeft(id)]
    /\ UNCHANGED <<timeVars, shareVars, feeVars, depositQueue, rolloverVars>>

\* A null epoch, when this vault is empty: it is resolved and nothing else.
SettleEmpty(id) ==
    /\ totalSupply[id] = 0
    /\ ResolveEpoch(id, 0)
    /\ UNCHANGED <<timeVars, epochNull, shareVars, feeVars, depositQueue,
                   rolloverVars, emissionVars>>

-----------------------------------------------------------------------------
Tick ==
    /\ \E t \in BlockTimes : t > now /\ now' = t
    /\ UNCHANGED <<epochs, epochCreation, settleVars, shareVars, moneyVars,
                   feeVars, depositQueue, rolloverVars, emissionVars>>

HolderNext ==
    \E u, sender \in Users :
        \/ DelistInRollover(u, sender)
        \/ \E id \in Epochs, shares \in Shares :
              \/ Withdraw(id, shares, u, sender)
              \/ EnlistInRollover(id, shares, u, sender)
              \/ \E to \in Users : SafeTransferFrom(id, u, to, shares, sender)

DepositNext ==
    \E u \in Users, assets \in Amounts :
        \/ DepositInQueue(assets, u)
        \/ \E id \in Epochs : Deposit(id, assets, u)

RelayerNext ==
    \E id \in Epochs, operations \in Operations :
        \/ MintDepositInQueue(id, operations)
        \/ MintRollovers(id, operations)

FactoryNext ==
    \/ \E id \in Epochs, emission \in EmissionAmounts :
          CreateEpochWithEmissions(id, emission)
    \/ \E fee \in RelayerFees : ChangeRelayerFee(fee)
    \/ \E fee \in DepositFees : ChangeDepositFee(fee)
    \/ \E owners \in CleanUps : CleanUpRolloverQueue(owners)

ControllerNext ==
    \E id \in Epochs :
        \/ \E claim \in Claims : Settle(id, claim)
        \/ SettleNull(id)
        \/ SettleEmpty(id)

Next ==
    \/ Tick
    \/ HolderNext
    \/ DepositNext
    \/ RelayerNext
    \/ FactoryNext
    \/ ControllerNext

Spec == Init /\ [][Next]_vars
=============================================================================
