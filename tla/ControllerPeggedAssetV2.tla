---------------------- MODULE ControllerPeggedAssetV2 ----------------------
(***************************************************************************)
(* The controller of a market on a pegged asset.  Anyone may call its      *)
(* three triggers; each settles one epoch on both vaults in a single       *)
(* transaction:                                                            *)
(*   triggerDepeg      the price fell below the strike during the epoch:   *)
(*                     the vaults swap their TVL, minus fees;              *)
(*   triggerEndEpoch   the epoch is over: the premium goes to collateral;  *)
(*   triggerNullEpoch  one side is empty: the other side is refunded.      *)
(* The Chainlink price feed and the L2 sequencer feed are external: the    *)
(* environment reports to them at any time.                                *)
(***************************************************************************)
EXTENDS Settlement

CONSTANTS
    Strike,               \* strike price, in units of 10^WadDecimals
    Prices,               \* answers the price feed may report
    FeedDecimals,         \* decimals of the price feed
    WadDecimals,          \* 18 in the code
    MAX_UPDATE_TRESHOLD,  \* 2 days in the code
    GRACE_PERIOD_TIME     \* 3600 seconds in the code

ASSUME OracleAssumption ==
    /\ Strike \in Int
    /\ Prices \subseteq Int
    /\ FeedDecimals \in Nat /\ WadDecimals \in Nat
    /\ MAX_UPDATE_TRESHOLD \in Nat /\ GRACE_PERIOD_TIME \in Nat

VARIABLES
    priceFeed,            \* latestRoundData of the market's oracle
    sequencerUptimeFeed   \* latestRoundData of the sequencer feed

oracleVars == <<priceFeed, sequencerUptimeFeed>>
vars == <<vaultVars, oracleVars>>

\* answered: the answer was computed in the reported round.
PriceReports == [answer : Prices, updatedAt : Nat, answered : BOOLEAN]
SequencerReports == [up : BOOLEAN, startedAt : Nat]

TypeOK ==
    /\ VaultTypeOK
    /\ priceFeed \in PriceReports
    /\ sequencerUptimeFeed \in SequencerReports

Init ==
    /\ VaultInit
    /\ priceFeed \in [answer : Prices, updatedAt : {now}, answered : {TRUE}]
    /\ sequencerUptimeFeed = [up |-> TRUE, startedAt |-> 0]

-----------------------------------------------------------------------------
(* The price, as triggerDepeg sees it.                                     *)

\* The answer scaled to WadDecimals decimals.
ScaledPrice ==
    IF FeedDecimals <= WadDecimals
    THEN priceFeed.answer * 10 ^ (WadDecimals - FeedDecimals)
    ELSE priceFeed.answer \div 10 ^ (FeedDecimals - WadDecimals)

\* getLatestPrice does not revert.
PriceAvailable ==
    /\ sequencerUptimeFeed.up
    /\ now - sequencerUptimeFeed.startedAt > GRACE_PERIOD_TIME
    /\ priceFeed.updatedAt >= now - MAX_UPDATE_TRESHOLD
    /\ ScaledPrice > 0
    /\ priceFeed.answered

ReportPrice(answer, answered) ==
    /\ priceFeed' =
          [answer |-> answer, updatedAt |-> now, answered |-> answered]
    /\ UNCHANGED <<vaultVars, sequencerUptimeFeed>>

ReportSequencer(up) ==
    /\ up # sequencerUptimeFeed.up
    /\ sequencerUptimeFeed' = [up |-> up, startedAt |-> now]
    /\ UNCHANGED <<vaultVars, priceFeed>>

-----------------------------------------------------------------------------
(* Triggers.                                                               *)

TriggerDepeg(id) ==
    /\ epochExists[Premium][id]
    /\ PriceAvailable
    /\ ScaledPrice < Strike
    /\ now >= EpochBegin(id) /\ now <= EpochEnd(id)
    /\ ~FinishedAlready(id)
    /\ ~ZeroTVL(id)
    /\ SettleDepeg(id, treasury)
    /\ UNCHANGED oracleVars

\* mutant: an epoch can be ended at its last timestamp.
EpochExpired_OffByOne(id) == now >= EpochEnd(id)

EpochExpired(id) == now > EpochEnd(id)

TriggerEndEpoch(id) ==
    /\ \A v \in Vaults : epochExists[v][id]
    /\ ~ZeroTVL(id)
    /\ EpochExpired(id)
    /\ ~FinishedAlready(id)
    /\ SettleEnd(id, treasury)
    /\ UNCHANGED oracleVars

TriggerNullEpoch(id) ==
    /\ \A v \in Vaults : epochExists[v][id]
    /\ now >= EpochBegin(id)
    /\ ~FinishedAlready(id)
    /\ SettleNull(id)
    /\ UNCHANGED oracleVars

-----------------------------------------------------------------------------
(* The views a keeper polls before it sends a transaction.                 *)

CanExecDepeg(id) ==
    /\ epochExists[Premium][id]
    /\ PriceAvailable
    /\ ScaledPrice < Strike
    /\ now >= EpochBegin(id) /\ now <= EpochEnd(id)
    /\ ~FinishedAlready(id)
    /\ ~ZeroTVL(id)

CanExecNullEpoch(id) ==
    /\ \A v \in Vaults : epochExists[v][id]
    /\ now >= EpochBegin(id)
    /\ ~FinishedAlready(id)
    /\ ZeroTVL(id)

CanExecEnd(id) ==
    /\ \A v \in Vaults : epochExists[v][id]
    /\ ~ZeroTVL(id)
    /\ now > EpochEnd(id)
    /\ ~FinishedAlready(id)

-----------------------------------------------------------------------------
ControllerNext ==
    \E id \in Epochs :
        \/ TriggerDepeg(id)
        \/ TriggerEndEpoch(id)
        \/ TriggerNullEpoch(id)

OracleNext ==
    \/ \E answer \in Prices, answered \in BOOLEAN :
          ReportPrice(answer, answered)
    \/ \E up \in BOOLEAN : ReportSequencer(up)

Next ==
    \/ Tick /\ UNCHANGED oracleVars
    \/ UserNext /\ UNCHANGED oracleVars
    \/ FactoryNext /\ UNCHANGED oracleVars
    \/ ControllerNext
    \/ OracleNext

Spec == Init /\ [][Next]_vars

\* Keepers (script/keepers/KeeperV2.sol) poll the views of every epoch and
\* send the transaction, and block production goes on.  Nothing is assumed
\* of users, of the owner or of the feeds.
Fairness ==
    /\ WF_vars(Tick /\ UNCHANGED oracleVars)
    /\ \A id \in Epochs : /\ WF_vars(TriggerEndEpoch(id))
                          /\ WF_vars(TriggerNullEpoch(id))

LiveSpec == Spec /\ Fairness

-----------------------------------------------------------------------------
\* The whole list of what each trigger requires, its own checks first and then
\* those of the vault functions it calls.  (That the lists are the guards of
\* the triggers is proved: TriggersByGuards.)
DepegSucceeds(id) ==
    /\ epochExists[Premium][id]
    /\ PriceAvailable
    /\ ScaledPrice < Strike
    /\ now >= EpochBegin(id) /\ now <= EpochEnd(id)
    /\ ~FinishedAlready(id)
    /\ ~ZeroTVL(id)
    /\ DepegPasses(id, treasury)

EndSucceeds(id) ==
    /\ \A v \in Vaults : epochExists[v][id]
    /\ ~ZeroTVL(id)
    /\ EpochExpired(id)
    /\ ~FinishedAlready(id)
    /\ EndPasses(id, treasury)

NullSucceeds(id) ==
    /\ \A v \in Vaults : epochExists[v][id]
    /\ now >= EpochBegin(id)
    /\ ~FinishedAlready(id)
    /\ NullPasses(id)

\* The keeper's views are exact: a view answers true precisely when every check
\* on the way of the transaction the keeper would send passes, down to the
\* ERC20 transfers and the fee subtraction inside it, and the epoch is never up
\* for a depeg and for its end at once.  A view looks at no balance and at no
\* address, so this says that the money, the accounting and the treasury are
\* always in order.  It holds of any epoch whose fee is at most 100%, which
\* createEpoch does not demand (VaultFactoryV2.sol:185), while no share of the
\* market was minted after its epoch's settlement; the view of a null epoch,
\* which moves no money, is exact whatever was minted.
KeeperViewsComplete ==
    \A id \in Epochs :
        /\ epochFee[id] <= BPS /\ (\A v \in Vaults : Undiluted(v)) =>
              /\ CanExecDepeg(id) <=> DepegSucceeds(id)
              /\ CanExecEnd(id) <=> EndSucceeds(id)
        /\ CanExecNullEpoch(id) <=> NullSucceeds(id)
        /\ CanExecDepeg(id) => ~CanExecEnd(id)

\* Every epoch that is created is eventually settled on both sides, whatever
\* the price feeds do and even if the market is paused: no deposit is locked
\* in an epoch that can never end.
EpochEventuallySettled ==
    \A id \in Epochs :
        epochExists[Premium][id] ~> \A v \in Vaults : epochResolved[v][id]
=============================================================================
