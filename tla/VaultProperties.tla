-------------------------- MODULE VaultProperties --------------------------
(***************************************************************************)
(* What the vaults of a market promise, whichever controller settles them. *)
(***************************************************************************)
EXTENDS VaultV2, Functions

\* Every epoch is backed by its own money.  While an epoch is open a vault
\* holds, on its account, exactly one unit per share; once it is settled it
\* holds at least the pro-rata value of the shares still outstanding
\* (VaultV2.withdraw pays shares * claimTVL / finalTVL, or the shares
\* themselves when the epoch is null), less the profit of its late shares:
\* minted after the settlement, which the exact begin of an epoch allows, each
\* brings one unit and is paid like the others.  Without late shares, then, no
\* withdrawal of one epoch is paid with the deposits of another, although all
\* epochs share one ERC20 balance; with them, at most their profit is.
EpochCovered(v, id) ==
    /\ ~epochResolved[v][id] => funds[v][id] = totalSupply[v][id]
    /\ epochResolved[v][id] =>
          /\ funds[v][id] * finalTVL[v][id] >=
                (totalSupply[v][id] - late[v][id]) * claimTVL[v][id]
                    + late[v][id] * finalTVL[v][id]
          /\ epochNull[v][id] => funds[v][id] >= totalSupply[v][id]

FundsCoverClaims == \A v \in Vaults, id \in Epochs : EpochCovered(v, id)

\* What the vault owes for an epoch: the deposits while it is open or when it
\* is null, the pro-rata value of the outstanding shares when it is settled,
\* less the profit of its late shares.
Owed(v, id) ==
    IF epochResolved[v][id] /\ ~epochNull[v][id] /\ finalTVL[v][id] # 0
    THEN late[v][id]
             + PreviewWithdraw(v, id, totalSupply[v][id] - late[v][id])
    ELSE totalSupply[v][id]

\* The single ERC20 balance of a vault covers what it owes for all its epochs
\* together, at any mix of open, settled and null epochs.
BalanceCoversAllEpochs ==
    \A v \in Vaults :
        asset[v] >= SumFunction([id \in Epochs |-> Owed(v, id)])

\* ERC1155Supply's counter, which resolveEpoch freezes into finalTVL, agrees
\* with the balances the holders burn from.
SupplyIsSumOfBalances ==
    \A v \in Vaults, id \in Epochs :
        totalSupply[v][id] = SumFunction(balanceOf[v][id])

\* "You can only call functions that use this modifier before the epoch has
\* started" (VaultV2.sol:401), yet the modifier lets calls pass in the second
\* of the begin, in which an epoch can be settled too: that second is the only
\* one in which shares are minted after the finalTVL they will be divided by.
LateOnlyAtBegin ==
    [][\A v \in Vaults, id \in Epochs :
          late'[v][id] # late[v][id] =>
              epochResolved[v][id] /\ now = EpochBegin(id)]_vaultVars

\* No share of the vault was minted late.
Undiluted(v) == \A id \in Epochs : late[v][id] = 0

\* The shares outstanding, but for the late ones, never exceed the finalTVL
\* that withdraw divides by.
ResolvedSupplyBounded ==
    \A v \in Vaults, id \in Epochs : epochResolved[v][id] =>
        totalSupply[v][id] - late[v][id] <= finalTVL[v][id]

\* "if the epoch has started, but the counterparty vault has no value [...]
\* the users can withdraw their deposit" (VaultV2.sol:311): a side whose
\* counterparty was empty gets its whole deposit back, whichever trigger
\* settled the epoch.
EmptyCounterpartyRefunds ==
    \A v \in Vaults, id \in Epochs :
        epochResolved[v][id] /\ finalTVL[CounterPartyVault(v)][id] = 0
            => claimTVL[v][id] = finalTVL[v][id]

\* What a withdrawal pays, and the whole list of what withdraw requires: its
\* modifiers, the burn, the division and the transfer.  (That the list is the
\* guard of Withdraw is proved: WithdrawByGuards.)
Payout(v, id, shares) ==
    IF epochNull[v][id] THEN shares ELSE PreviewWithdraw(v, id, shares)

WithdrawSucceeds(v, id, shares, owner, sender) ==
    /\ epochExists[v][id]
    /\ EpochHasEnded(v, id)
    /\ IsAuthorized(sender, owner)
    /\ shares <= totalSupply[v][id]
    /\ shares <= balanceOf[v][id][owner]
    /\ epochNull[v][id] \/ finalTVL[v][id] # 0
    /\ Payout(v, id, shares) <= asset[v]

\* A holder of shares of a settled epoch can always leave with all of them:
\* neither the division by finalTVL nor the ERC20 transfer nor any other check
\* reverts, whatever the other holders and epochs have withdrawn before, in a
\* vault that never minted a share late.
ExitsFunded ==
    \A v \in Vaults, id \in Epochs, u \in Users :
        Undiluted(v) /\ epochResolved[v][id] /\ balanceOf[v][id][u] > 0
            => WithdrawSucceeds(v, id, balanceOf[v][id][u], u, u)

\* A settlement leaves each vault with exactly what it now owes: the
\* claimTVL the controller stores is the money that is left after the fees
\* and the counterparty transfers of sendTokens.
SettlementExact ==
    [][\A v \in Vaults, id \in Epochs :
          ~epochResolved[v][id] /\ epochResolved'[v][id]
              => funds'[v][id] = claimTVL'[v][id]]_vaultVars

-----------------------------------------------------------------------------
(* The inductive invariant behind FundsCoverClaims, ResolvedSupplyBounded  *)
(* and BalanceCoversAllEpochs.                                             *)

OpenBacked ==
    \A v \in Vaults, id \in Epochs : ~epochResolved[v][id] =>
        /\ funds[v][id] = totalSupply[v][id]
        /\ ~epochNull[v][id]
        /\ late[v][id] = 0

SettledCovered ==
    \A v \in Vaults, id \in Epochs : epochResolved[v][id] =>
        /\ epochExists[v][id]
        /\ now >= EpochBegin(id)
        /\ totalSupply[v][id] - late[v][id] <= finalTVL[v][id]
        /\ funds[v][id] * finalTVL[v][id] >=
              (totalSupply[v][id] - late[v][id]) * claimTVL[v][id]
                  + late[v][id] * finalTVL[v][id]
        /\ epochNull[v][id] => claimTVL[v][id] = finalTVL[v][id]
        /\ finalTVL[v][id] = 0 => funds[v][id] >= totalSupply[v][id]

\* Every token of an epoch's account is in the balance.  The balance may hold
\* more: withdrawals can be sent to a vault.
AssetCoversFunds ==
    \A v \in Vaults : asset[v] >= SumFunction(funds[v])

\* No block carries the exact timestamp at which the epoch begins.
BeginsBetweenBlocks(id) == EpochBegin(id) \notin BlockTimes

\* The shares of an epoch that begins between two blocks are minted before it
\* is settled, all of them: they stay within its finalTVL.
UndilutedApart ==
    \A v \in Vaults, id \in Epochs : BeginsBetweenBlocks(id) =>
        /\ late[v][id] = 0
        /\ epochResolved[v][id] => totalSupply[v][id] <= finalTVL[v][id]

\* FundsCoverClaims is not inductive: that a settlement leaves the claim
\* behind needs OpenBacked, that a withdrawal keeps it covered needs the price
\* of a null epoch's shares to be 1, and that an epoch without final TVL can
\* pay needs an account of its own.  Nor is BalanceCoversAllEpochs: it needs
\* the epochs' accounts to be within the balance and each of them to be
\* covered.
VaultInv ==
    /\ VaultTypeOK
    /\ OpenBacked
    /\ SettledCovered
    /\ SupplyIsSumOfBalances
    /\ AssetCoversFunds
=============================================================================
