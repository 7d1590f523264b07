----------------------------- MODULE Settlement -----------------------------
(***************************************************************************)
(* The settlement of one epoch on both vaults, as ControllerPeggedAssetV2  *)
(* and ControllerGeneric both perform it once their own checks have        *)
(* passed: resolve the epoch, tell each vault what it owes, then move the  *)
(* protocol fee and the counterparty's money.  A settlement is a single    *)
(* transaction, so each operator is a single step; `receiver' is the       *)
(* treasury address the controller passes to sendTokens.                   *)
(***************************************************************************)
EXTENDS VaultProperties

FinishedAlready(id) == \E v \in Vaults : epochResolved[v][id]

\* mutant: only an epoch with both sides empty counts as null.
ZeroTVL_Both(id) == \A v \in Vaults : totalSupply[v][id] = 0

ZeroTVL(id) == \E v \in Vaults : totalSupply[v][id] = 0

Fee(v, id) == CalculateWithdrawalFeeValue(totalSupply[v][id], epochFee[id])

\* What is left of a vault's TVL after the protocol fee.
TVLAfterFee(v, id) == totalSupply[v][id] - Fee(v, id)

settleUnchanged == <<now, factoryVars, epochExists, epochFee, shareVars>>

\* mutant: each side is told it owes its own TVL instead of the other's.
DepegClaim_NotSwapped(id) == [v \in Vaults |-> TVLAfterFee(v, id)]

DepegClaim(id) == [v \in Vaults |-> TVLAfterFee(CounterPartyVault(v), id)]

\* The condition was met: the vaults swap their TVL, each minus the fee.  The
\* subtraction of the fee reverts when the fee exceeds 100%.
SettleDepeg(id, receiver) ==
    /\ \A v \in Vaults : Fee(v, id) <= totalSupply[v][id]
    /\ ResolveEpoch(id)
    /\ SetClaimTVL(id, DepegClaim(id))
    /\ SendTokens(id, [v \in Vaults |-> Fee(v, id)],
                      [v \in Vaults |-> TVLAfterFee(v, id)], receiver)
    /\ UNCHANGED <<settleUnchanged, epochNull>>

\* mutant: the collateral vault is told it also owes the protocol fee.
EndClaim_WithFee(id) ==
    [v \in Vaults |-> IF v = Premium THEN 0
                      ELSE totalSupply[Collateral][id] + totalSupply[Premium][id]]

EndClaim(id) ==
    [v \in Vaults |-> IF v = Premium THEN 0
                      ELSE totalSupply[Collateral][id] + TVLAfterFee(Premium, id)]

\* The epoch expired: the premium, minus the fee, goes to the collateral side.
SettleEnd(id, receiver) ==
    /\ Fee(Premium, id) <= totalSupply[Premium][id]
    /\ ResolveEpoch(id)
    /\ SetClaimTVL(id, EndClaim(id))
    /\ SendTokens(id,
                  [v \in Vaults |-> IF v = Premium THEN Fee(v, id) ELSE 0],
                  [v \in Vaults |-> IF v = Premium THEN TVLAfterFee(v, id)
                                                   ELSE 0],
                  receiver)
    /\ UNCHANGED <<settleUnchanged, epochNull>>

\* The side that is refunded: the counterparty of the empty one, the premium
\* side being looked at first.
NullSide(id) == IF totalSupply[Premium][id] = 0 THEN Collateral ELSE Premium

\* One side is empty: the other is refunded.  The empty side's claim of 0 is
\* its TVL too.
SettleNull(id) ==
    /\ ZeroTVL(id)
    /\ ResolveEpoch(id)
    /\ SetClaimTVL(id, [v \in Vaults |-> IF v = NullSide(id)
                                         THEN totalSupply[v][id] ELSE 0])
    /\ SetEpochNull(NullSide(id), id)
    /\ NoTokensSent
    /\ UNCHANGED settleUnchanged

-----------------------------------------------------------------------------
(* What the vaults' functions require of a settlement, as predicates of    *)
(* the state before it: a settlement is one of these and assignments.      *)

\* resolveEpoch reverts on neither vault.
ResolvePasses(id) ==
    /\ EpochHasStarted(id)
    /\ \A v \in Vaults : epochExists[v][id] /\ ~epochResolved[v][id]

\* No sendTokens reverts, once resolveEpoch has made the supplies final.
SendsPass(id, fee, out, receiver) ==
    /\ \A v \in Vaults :
          epochAccounting[v][id] + fee[v] + out[v] <= totalSupply[v][id]
    /\ DestinationAuthorized(receiver)
    /\ fee[Premium] + out[Premium] <= asset[Premium]
    /\ fee[Collateral] + out[Collateral] <= asset[Collateral] + out[Premium]

DepegPasses(id, receiver) ==
    /\ \A v \in Vaults : Fee(v, id) <= totalSupply[v][id]
    /\ ResolvePasses(id)
    /\ SendsPass(id, [v \in Vaults |-> Fee(v, id)],
                     [v \in Vaults |-> TVLAfterFee(v, id)], receiver)

EndPasses(id, receiver) ==
    /\ Fee(Premium, id) <= totalSupply[Premium][id]
    /\ ResolvePasses(id)
    /\ SendsPass(id, [v \in Vaults |-> IF v = Premium THEN Fee(v, id) ELSE 0],
                     [v \in Vaults |-> IF v = Premium THEN TVLAfterFee(v, id)
                                                      ELSE 0],
                 receiver)

NullPasses(id) == ZeroTVL(id) /\ ResolvePasses(id)

-----------------------------------------------------------------------------
(* What the views of the keepers rest on, beside VaultInv.                 *)

\* The factory opens, and a controller settles, an epoch on both vaults at
\* once.
SidesAgree ==
    \A v, w \in Vaults, id \in Epochs :
        /\ epochExists[v][id] = epochExists[w][id]
        /\ epochResolved[v][id] = epochResolved[w][id]

\* An epoch that exists begins before it ends, and sendTokens has counted
\* nothing for an epoch that is not settled.
EpochsFresh ==
    \A v \in Vaults, id \in Epochs :
        /\ epochExists[v][id] => EpochBegin(id) < EpochEnd(id)
        /\ ~epochResolved[v][id] => epochAccounting[v][id] = 0
=============================================================================
