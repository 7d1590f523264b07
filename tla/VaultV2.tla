------------------------------ MODULE VaultV2 ------------------------------
(***************************************************************************)
(* The pair of vaults of one Earthquake market.  Buyers of protection      *)
(* deposit into the premium vault, sellers into the collateral vault; both *)
(* hold the same ERC20 asset.  Shares are ERC1155 tokens whose id is the   *)
(* epoch.  The factory opens epochs on both vaults in one transaction, the *)
(* controller settles an epoch on both vaults in one transaction, and      *)
(* share holders then withdraw pro rata.                                   *)
(*                                                                         *)
(* This module has the state, the operations users and the factory perform *)
(* on it, and the vault functions a controller calls, which the controller *)
(* modules conjoin into one transaction.  `paused' is the flag of the      *)
(* VaultV2Pausable variant; it stays FALSE when Pausable is FALSE.         *)
(***************************************************************************)
EXTENDS FixedPointMath, FiniteSets

CONSTANTS
    Users,           \* holders of shares
    Approved,        \* pairs <<owner, operator>> of ERC1155 setApprovalForAll
    Epochs,          \* epochs <<begin, end>> the owner may create
    BlockTimes,      \* timestamps at which blocks are produced
    Amounts,         \* amounts of one deposit, withdrawal or transfer
    DepositCap,      \* bound on the shares of one epoch of one vault
    LateCap,         \* bound on those minted after its settlement
    Receivers,       \* where withdrawals are sent: a vault, or any other address
    WithdrawalFees,  \* fees, in basis points, the owner may give an epoch
    Treasuries,      \* addresses the factory's treasury can be set to
    Delistable,      \* the timelocker lists and delists the controller
    IsWETH,          \* the asset is WETH, so depositETH is open
    Pausable         \* the VaultV2Pausable variant is deployed

ASSUME ConstantsAssumption ==
    /\ Epochs \subseteq Nat \X Nat
    /\ BlockTimes \subseteq Nat
    /\ BlockTimes # {}
    /\ Amounts \subseteq Nat
    /\ DepositCap \in Nat /\ LateCap \in Nat
    /\ WithdrawalFees \subseteq Nat
    /\ Approved \subseteq Users \X Users
    /\ Delistable \in BOOLEAN
    /\ IsWETH \in BOOLEAN
    /\ Pausable \in BOOLEAN

\* Addresses are 160 bits wide, and epochs are a pair of 40-bit timestamps.
ASSUME FiniteAssumption == IsFiniteSet(Users) /\ IsFiniteSet(Epochs)

VARIABLES
    now,              \* block.timestamp
    paused,           \* VaultV2Pausable.paused, toggled on both vaults at once
    treasury,         \* VaultFactoryV2.treasury
    controllerListed, \* VaultFactoryV2.controllers, of the vaults' controller
    whitelistedAddresses,
    epochExists, epochResolved, epochNull,
    epochFee,         \* VaultFactoryV2.epochFee
    finalTVL, claimTVL, epochAccounting,
    totalSupply,      \* ERC1155Supply._totalSupply
    balanceOf,        \* ERC1155._balances
    asset,            \* ERC20 balance of each vault
    funds,            \* history: the part of a vault's balance that came in
                      \* for an epoch and has not left on its account
    late              \* history: the shares of an epoch that were minted
                      \* after it had been settled

factoryVars == <<paused, treasury, controllerListed, whitelistedAddresses>>
shareVars   == <<totalSupply, balanceOf, late>>
settleVars  == <<epochResolved, epochNull, finalTVL, claimTVL, epochAccounting>>
vaultVars   == <<now, factoryVars, epochExists, epochFee, settleVars,
                 shareVars, asset, funds>>

Premium == "premium"
Collateral == "collateral"
Vaults == {Premium, Collateral}

\* VaultFactoryV2 sets the two vaults of a market as counterparties.
CounterPartyVault(v) == IF v = Premium THEN Collateral ELSE Premium

\* An epoch id is the hash of (market, begin, end), so the pair identifies it.
EpochBegin(id) == id[1]
EpochEnd(id)   == id[2]

PerEpoch(S) == [Vaults -> [Epochs -> S]]

VaultTypeOK ==
    /\ now \in BlockTimes
    /\ paused \in BOOLEAN
    /\ treasury \in Treasuries
    /\ controllerListed \in BOOLEAN
    /\ whitelistedAddresses \subseteq Treasuries
    /\ epochExists \in PerEpoch(BOOLEAN)
    /\ epochResolved \in PerEpoch(BOOLEAN)
    /\ epochNull \in PerEpoch(BOOLEAN)
    /\ epochFee \in [Epochs -> Nat]
    /\ finalTVL \in PerEpoch(Nat)
    /\ claimTVL \in PerEpoch(Nat)
    /\ epochAccounting \in PerEpoch(Nat)
    /\ totalSupply \in PerEpoch(Nat)
    /\ balanceOf \in PerEpoch([Users -> Nat])
    /\ asset \in [Vaults -> Nat]
    /\ funds \in PerEpoch(Int)
    /\ late \in PerEpoch(Nat)

VaultInit ==
    /\ now \in BlockTimes
    /\ paused = FALSE
    /\ treasury \in Treasuries
    /\ controllerListed = TRUE
    /\ whitelistedAddresses = {}
    /\ epochExists = [v \in Vaults |-> [id \in Epochs |-> FALSE]]
    /\ epochResolved = epochExists
    /\ epochNull = epochExists
    /\ epochFee = [id \in Epochs |-> 0]
    /\ finalTVL = [v \in Vaults |-> [id \in Epochs |-> 0]]
    /\ claimTVL = finalTVL
    /\ epochAccounting = finalTVL
    /\ totalSupply = finalTVL
    /\ funds = finalTVL
    /\ late = finalTVL
    /\ balanceOf = [v \in Vaults |-> [id \in Epochs |-> [u \in Users |-> 0]]]
    /\ asset = [v \in Vaults |-> 0]

-----------------------------------------------------------------------------
(* Modifiers.                                                              *)

\* mutant: the deposit window never closes.
EpochHasNotStarted_Dropped(id) == TRUE

EpochHasNotStarted(id) == now <= EpochBegin(id)

EpochHasStarted(id) == now >= EpochBegin(id)

EpochHasEnded(v, id) == epochResolved[v][id]

MarketNotPaused == ~paused

IsAuthorized(sender, owner) ==
    sender = owner \/ <<owner, sender>> \in Approved

-----------------------------------------------------------------------------
(* ERC1155 shares.                                                         *)

\* mutant: the supply is not tracked on a mint.
Mint_NoSupply(v, id, to, amount) ==
    /\ balanceOf' = [balanceOf EXCEPT ![v][id][to] = @ + amount]
    /\ UNCHANGED totalSupply

Mint(v, id, to, amount) ==
    /\ totalSupply' = [totalSupply EXCEPT ![v][id] = @ + amount]
    /\ balanceOf' = [balanceOf EXCEPT ![v][id][to] = @ + amount]

\* mutant: the balance and the supply are not compared with the amount.
Burn_Unchecked(v, id, from, amount) ==
    /\ totalSupply' = [totalSupply EXCEPT ![v][id] = @ - amount]
    /\ balanceOf' = [balanceOf EXCEPT ![v][id][from] = @ - amount]

Burn(v, id, from, amount) ==
    /\ totalSupply[v][id] >= amount
    /\ balanceOf[v][id][from] >= amount
    /\ totalSupply' = [totalSupply EXCEPT ![v][id] = @ - amount]
    /\ balanceOf' = [balanceOf EXCEPT ![v][id][from] = @ - amount]

\* The balances of one epoch after a transfer; from and to may be the same.
MoveShares(held, from, to, amount) ==
    LET debited == [held EXCEPT ![from] = @ - amount]
    IN  [debited EXCEPT ![to] = @ + amount]

SafeTransferFrom(v, id, from, to, amount, sender) ==
    /\ IsAuthorized(sender, from)
    /\ balanceOf[v][id][from] >= amount
    /\ balanceOf' = [balanceOf EXCEPT ![v][id] =
                        MoveShares(balanceOf[v][id], from, to, amount)]
    /\ UNCHANGED <<now, factoryVars, epochExists, epochFee, settleVars,
                   totalSupply, late, asset, funds>>

-----------------------------------------------------------------------------
(* Deposits and withdrawals.                                               *)

\* The last second of the window is the first in which an epoch can be settled,
\* so its shares may be minted after its settlement.
TakeIn(v, id, assets, receiver) ==
    /\ epochExists[v][id]
    /\ EpochHasNotStarted(id)
    /\ MarketNotPaused
    /\ totalSupply[v][id] + assets <= DepositCap
    /\ epochResolved[v][id] => late[v][id] + assets <= LateCap
    /\ asset' = [asset EXCEPT ![v] = @ + assets]
    /\ funds' = [funds EXCEPT ![v][id] = @ + assets]
    /\ Mint(v, id, receiver, assets)
    /\ late' = IF epochResolved[v][id]
               THEN [late EXCEPT ![v][id] = @ + assets] ELSE late
    /\ UNCHANGED <<now, factoryVars, epochExists, epochFee, settleVars>>

Deposit(v, id, assets, receiver) == TakeIn(v, id, assets, receiver)

DepositETH(v, id, value, receiver) ==
    /\ IsWETH
    /\ value > 0
    /\ TakeIn(v, id, value, receiver)

\* mutant: the quotient is rounded in favour of the holder.
PreviewWithdraw_RoundUp(v, id, shares) ==
    (shares * claimTVL[v][id] + finalTVL[v][id] - 1) \div finalTVL[v][id]

PreviewWithdraw(v, id, shares) ==
    MulDivDown(shares, claimTVL[v][id], finalTVL[v][id])

\* The balances of the two vaults after one of them has sent amount away: what
\* a vault is sent stays, or arrives, in its balance.
Sent(v, receiver, amount) ==
    [w \in Vaults |-> asset[w] - (IF w = v THEN amount ELSE 0)
                              + (IF w = receiver THEN amount ELSE 0)]

Withdraw(v, id, shares, receiver, owner, sender) ==
    /\ epochExists[v][id]
    /\ EpochHasEnded(v, id)
    /\ IsAuthorized(sender, owner)
    /\ Burn(v, id, owner, shares)
    /\ epochNull[v][id] \/ finalTVL[v][id] # 0
    /\ LET assets == IF epochNull[v][id] THEN shares
                                         ELSE PreviewWithdraw(v, id, shares)
       IN  /\ assets <= asset[v]
           /\ asset' = Sent(v, receiver, assets)
           /\ funds' = [funds EXCEPT ![v][id] = @ - assets]
    /\ UNCHANGED <<now, factoryVars, epochExists, epochFee, settleVars, late>>

-----------------------------------------------------------------------------
(* Factory operations on the pair.                                         *)

CreateEpoch(id, withdrawalFee) ==
    /\ withdrawalFee # 0
    /\ controllerListed
    /\ EpochBegin(id) # 0 /\ EpochEnd(id) # 0
    /\ EpochBegin(id) < EpochEnd(id)
    /\ MarketNotPaused
    /\ \A v \in Vaults : ~epochExists[v][id]
    /\ epochExists' = [v \in Vaults |-> [epochExists[v] EXCEPT ![id] = TRUE]]
    /\ epochFee' = [epochFee EXCEPT ![id] = withdrawalFee]
    /\ UNCHANGED <<now, factoryVars, settleVars, shareVars, asset, funds>>

PauseMarket ==
    /\ Pausable
    /\ paused' = ~paused
    /\ UNCHANGED <<now, treasury, controllerListed, whitelistedAddresses,
                   epochExists, epochFee, settleVars, shareVars, asset, funds>>

SetTreasury(t) ==
    /\ treasury' = t
    /\ UNCHANGED <<now, paused, controllerListed, whitelistedAddresses,
                   epochExists, epochFee, settleVars, shareVars, asset, funds>>

\* The timelocker's call toggles the controller; a market is only created with
\* a listed one.  (Who may call it, and when, is in the module TimeLock.)
WhitelistController ==
    /\ Delistable
    /\ controllerListed' = ~controllerListed
    /\ UNCHANGED <<now, paused, treasury, whitelistedAddresses, epochExists,
                   epochFee, settleVars, shareVars, asset, funds>>

\* The code toggles membership.
WhitelistAddressOnMarket(a) ==
    /\ whitelistedAddresses' = (whitelistedAddresses \ {a}) \cup
                               ({a} \ whitelistedAddresses)
    /\ UNCHANGED <<now, paused, treasury, controllerListed, epochExists,
                   epochFee, settleVars, shareVars, asset, funds>>

-----------------------------------------------------------------------------
(* Vault functions only the controller may call.  A controller's           *)
(* transaction conjoins one of each.  claim, fee and out are functions of  *)
(* the vault: the value it is told to owe, what it sends to the treasury   *)
(* and what it sends to its counterparty.                                  *)

ResolveEpoch(id) ==
    /\ EpochHasStarted(id)
    /\ \A v \in Vaults : epochExists[v][id] /\ ~epochResolved[v][id]
    /\ epochResolved' =
          [v \in Vaults |-> [epochResolved[v] EXCEPT ![id] = TRUE]]
    /\ finalTVL' =
          [v \in Vaults |-> [finalTVL[v] EXCEPT ![id] = totalSupply[v][id]]]

SetClaimTVL(id, claim) ==
    claimTVL' = [v \in Vaults |-> [claimTVL[v] EXCEPT ![id] = claim[v]]]

SetEpochNull(v, id) == epochNull' = [epochNull EXCEPT ![v][id] = TRUE]

\* mutant: the factory's treasury has to be whitelisted too.
DestinationAuthorized_ListOnly(receiver) == receiver \in whitelistedAddresses

DestinationAuthorized(receiver) ==
    receiver \in whitelistedAddresses \/ receiver = treasury

\* The sends of both vaults, the premium vault's first: each is refused when
\* the epoch would have sent more than its final TVL, and each needs the
\* tokens to be there.
SendTokens(id, fee, out, receiver) ==
    /\ \A v \in Vaults :
          epochAccounting[v][id] + fee[v] + out[v] <= finalTVL'[v][id]
    /\ DestinationAuthorized(receiver)
    /\ fee[Premium] + out[Premium] <= asset[Premium]
    /\ fee[Collateral] + out[Collateral] <= asset[Collateral] + out[Premium]
    /\ epochAccounting' =
          [v \in Vaults |-> [epochAccounting[v] EXCEPT ![id] =
                                @ + fee[v] + out[v]]]
    /\ asset' =
          [v \in Vaults |->
              asset[v] - fee[v] - out[v] + out[CounterPartyVault(v)]]
    /\ funds' =
          [v \in Vaults |-> [funds[v] EXCEPT ![id] =
                @ - fee[v] - out[v] + out[CounterPartyVault(v)]]]

NoTokensSent == UNCHANGED <<epochAccounting, asset, funds>>

-----------------------------------------------------------------------------
(* What users, the factory's owner and its timelock do, and time.          *)

Tick ==
    /\ \E t \in BlockTimes : t > now /\ now' = t
    /\ UNCHANGED <<factoryVars, epochExists, epochFee, settleVars,
                   shareVars, asset, funds>>

UserNext ==
    \E v \in Vaults, id \in Epochs, amount \in Amounts, u \in Users :
        \/ Deposit(v, id, amount, u)
        \/ DepositETH(v, id, amount, u)
        \/ \E receiver \in Receivers, sender \in Users :
              Withdraw(v, id, amount, receiver, u, sender)
        \/ \E to, sender \in Users :
              SafeTransferFrom(v, id, u, to, amount, sender)

FactoryNext ==
    \/ \E id \in Epochs, fee \in WithdrawalFees : CreateEpoch(id, fee)
    \/ PauseMarket
    \/ WhitelistController
    \/ \E t \in Treasuries : SetTreasury(t)
    \/ \E a \in Treasuries : WhitelistAddressOnMarket(a)
=============================================================================
