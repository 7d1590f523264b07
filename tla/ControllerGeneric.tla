------------------------- MODULE ControllerGeneric -------------------------
(***************************************************************************)
(* The controller of markets whose condition a provider contract decides   *)
(* (depeg, repeg, volatility, optimistic oracle).  It settles epochs as    *)
(* ControllerPeggedAssetV2 does, with checks of its own.  The condition    *)
(* provider is external: conditionMet is TRUE when its call returns true,  *)
(* FALSE when it returns false or reverts.                                 *)
(***************************************************************************)
EXTENDS Settlement

CONSTANT ControllerTreasury   \* immutable, given to the constructor

VARIABLE conditionMet

gvars == <<vaultVars, conditionMet>>

GenericTypeOK == VaultTypeOK /\ conditionMet \in BOOLEAN

\* The controller is deployed with the factory's treasury of that moment.
GenericInit ==
    /\ VaultInit
    /\ treasury = ControllerTreasury
    /\ conditionMet = FALSE

-----------------------------------------------------------------------------
CheckGenericConditions(id) ==
    /\ \A v \in Vaults : epochExists[v][id]
    /\ ~FinishedAlready(id)

\* mutant: a liquidation is refused at the epoch's last timestamp.
CheckLiquidationConditions_OpenEnd(id) ==
    /\ now >= EpochBegin(id) /\ now < EpochEnd(id)
    /\ ~ZeroTVL(id)
    /\ conditionMet

CheckLiquidationConditions(id) ==
    /\ now >= EpochBegin(id) /\ now <= EpochEnd(id)
    /\ ~ZeroTVL(id)
    /\ conditionMet

\* mutant: an epoch can be ended in its last second.
CheckEndEpochConditions_OffByOne(id) == now >= EpochEnd(id)

CheckEndEpochConditions(id) == now > EpochEnd(id)

TriggerLiquidation(id) ==
    /\ CheckGenericConditions(id)
    /\ CheckLiquidationConditions(id)
    /\ SettleDepeg(id, ControllerTreasury)
    /\ UNCHANGED conditionMet

GenericTriggerEndEpoch(id) ==
    /\ CheckGenericConditions(id)
    /\ CheckEndEpochConditions(id)
    /\ SettleEnd(id, ControllerTreasury)
    /\ UNCHANGED conditionMet

\* The code passes the market id where _checkNullEpochConditions expects the
\* epoch id; no epoch has that id, its begin reads as 0 and the check always
\* passes.  Only resolveEpoch's own modifier keeps an epoch from being
\* nulled before it starts.
GenericTriggerNullEpoch(id) ==
    /\ CheckGenericConditions(id)
    /\ SettleNull(id)
    /\ UNCHANGED conditionMet

-----------------------------------------------------------------------------
CanExecLiquidation(id) ==
    /\ epochExists[Premium][id]
    /\ now >= EpochBegin(id) /\ now <= EpochEnd(id)
    /\ ~FinishedAlready(id)
    /\ ~ZeroTVL(id)
    /\ conditionMet

GenericCanExecNullEpoch(id) ==
    /\ \A v \in Vaults : epochExists[v][id]
    /\ now >= EpochBegin(id)
    /\ ~FinishedAlready(id)
    /\ ZeroTVL(id)

GenericCanExecEnd(id) ==
    /\ \A v \in Vaults : epochExists[v][id]
    /\ ~ZeroTVL(id)
    /\ now > EpochEnd(id)
    /\ ~FinishedAlready(id)

-----------------------------------------------------------------------------
\* The provider's answer changes at any time.
ReportCondition == conditionMet' = ~conditionMet /\ UNCHANGED vaultVars

GenericNext ==
    \/ Tick /\ UNCHANGED conditionMet
    \/ UserNext /\ UNCHANGED conditionMet
    \/ FactoryNext /\ UNCHANGED conditionMet
    \/ \E id \in Epochs : \/ TriggerLiquidation(id)
                          \/ GenericTriggerEndEpoch(id)
                          \/ GenericTriggerNullEpoch(id)
    \/ ReportCondition

GenericSpec == GenericInit /\ [][GenericNext]_gvars

-----------------------------------------------------------------------------
\* A keeper's transaction is mined some blocks after the view was polled.  In
\* between, no call of a user or of the owner turns the view's answer to false:
\* an end stays due until the epoch is settled, a liquidation until then or
\* until its condition or its window is over, and a null epoch stays null
\* unless someone deposits at its exact begin.
PollsStayGood ==
    [][\A id \in Epochs :
          /\ GenericCanExecEnd(id) =>
                GenericCanExecEnd(id)' \/ FinishedAlready(id)'
          /\ CanExecLiquidation(id) =>
                \/ CanExecLiquidation(id)' \/ FinishedAlready(id)'
                \/ ~conditionMet' \/ now' > EpochEnd(id)
          /\ GenericCanExecNullEpoch(id) =>
                \/ GenericCanExecNullEpoch(id)' \/ FinishedAlready(id)'
                \/ now = EpochBegin(id)]_gvars

LiquidationSucceeds(id) ==
    /\ CheckGenericConditions(id)
    /\ CheckLiquidationConditions(id)
    /\ DepegPasses(id, ControllerTreasury)

GenericEndSucceeds(id) ==
    /\ CheckGenericConditions(id)
    /\ CheckEndEpochConditions(id)
    /\ EndPasses(id, ControllerTreasury)

GenericNullSucceeds(id) == CheckGenericConditions(id) /\ NullPasses(id)

\* "check if task can be executed" (KeeperV2GenericController.sol:42): when a
\* view answers true, what may still stop the transaction is the treasury, which
\* this controller keeps from its construction and sendTokens compares with
\* today's, a fee above 100%, which createEpoch accepts, or money that shares
\* minted after a settlement were paid on top of their price; nothing else.
\* The views of a liquidation and of a null epoch are exact up to that, although
\* triggerNullEpoch's own check of the begin always passes; the view of the end
\* is only sound: triggerEndEpoch does not look for an empty vault.
GenericViewsComplete ==
    \A id \in Epochs :
        /\ epochFee[id] <= BPS /\ (\A v \in Vaults : Undiluted(v)) =>
              /\ LiquidationSucceeds(id) <=>
                    /\ CanExecLiquidation(id)
                    /\ DestinationAuthorized(ControllerTreasury)
              /\ GenericCanExecEnd(id) =>
                    (GenericEndSucceeds(id) <=>
                        DestinationAuthorized(ControllerTreasury))
        /\ GenericNullSucceeds(id) <=> GenericCanExecNullEpoch(id)
=============================================================================
