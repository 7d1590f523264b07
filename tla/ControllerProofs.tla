-------------------------- MODULE ControllerProofs --------------------------
(***************************************************************************)
(* Theorems about a market and the controller that settles it, for any     *)
(* users, epochs, amounts, fees, prices and conditions.                    *)
(***************************************************************************)
EXTENDS ControllerGeneric, ControllerPeggedAssetV2, VaultProofs

-----------------------------------------------------------------------------
(* Markets settled by ControllerPeggedAssetV2: Spec.                       *)

\* One of the triggers settles the epoch.
SettleStep(id) ==
    \/ TriggerDepeg(id)
    \/ TriggerEndEpoch(id)
    \/ TriggerNullEpoch(id)

\* A report of a feed keeps the types.
LEMMA OracleType ==
    ASSUME TypeOK, OracleNext
    PROVE  /\ UNCHANGED vaultVars
           /\ priceFeed' \in PriceReports
           /\ sequencerUptimeFeed' \in SequencerReports
<1>1. now \in Nat
  BY ConstantsAssumption DEF TypeOK, VaultTypeOK
<1>2. ASSUME NEW answer \in Prices, NEW answered \in BOOLEAN,
             ReportPrice(answer, answered)
      PROVE  /\ UNCHANGED vaultVars
             /\ priceFeed' \in PriceReports
             /\ sequencerUptimeFeed' \in SequencerReports
  BY <1>1, <1>2 DEF ReportPrice, PriceReports, TypeOK
<1>3. ASSUME NEW up \in BOOLEAN, ReportSequencer(up)
      PROVE  /\ UNCHANGED vaultVars
             /\ priceFeed' \in PriceReports
             /\ sequencerUptimeFeed' \in SequencerReports
  BY <1>1, <1>3 DEF ReportSequencer, SequencerReports, TypeOK
<1>4. QED
  BY <1>2, <1>3 DEF OracleNext

\* Each trigger of this controller settles exactly and preserves the
\* invariants.
LEMMA SettlePreserves ==
    ASSUME VaultTypeOK, OpenBacked, NEW id \in Epochs, SettleStep(id)
    PROVE  /\ VaultTypeOK' /\ OpenBacked'
           /\ SettledCovered => SettledCovered'
           /\ UNCHANGED oracleVars
<1>1. CASE TriggerDepeg(id)
  BY <1>1, SettleDepegPreserves DEF TriggerDepeg
<1>2. CASE TriggerEndEpoch(id)
  BY <1>2, SettleEndPreserves DEF TriggerEndEpoch
<1>3. CASE TriggerNullEpoch(id)
  BY <1>3, SettleNullPreserves DEF TriggerNullEpoch
<1>4. QED
  BY <1>1, <1>2, <1>3 DEF SettleStep

\* Every step of the market preserves the invariants.
LEMMA NextPreserves ==
    ASSUME TypeOK, OpenBacked, [Next]_vars
    PROVE  /\ TypeOK' /\ OpenBacked'
           /\ SettledCovered => SettledCovered'
<1> USE DEF TypeOK
<1>1. ASSUME Tick \/ UserNext \/ FactoryNext, UNCHANGED oracleVars
      PROVE  TypeOK' /\ OpenBacked' /\ (SettledCovered => SettledCovered')
  BY <1>1, TickPreserves, UserPreserves, FactoryPreserves DEF oracleVars
<1>2. ASSUME ControllerNext
      PROVE  /\ TypeOK' /\ OpenBacked'
             /\ SettledCovered => SettledCovered'
  BY <1>2, SettlePreserves DEF ControllerNext, SettleStep, oracleVars
<1>3. ASSUME UNCHANGED vaultVars,
             priceFeed' \in PriceReports,
             sequencerUptimeFeed' \in SequencerReports
      PROVE  TypeOK' /\ OpenBacked' /\ (SettledCovered => SettledCovered')
  BY <1>3 DEF vaultVars, factoryVars, settleVars, shareVars,
              VaultTypeOK, OpenBacked, SettledCovered
<1>4. OracleNext => TypeOK' /\ OpenBacked' /\ (SettledCovered => SettledCovered')
  BY <1>3, OracleType
<1>5. UNCHANGED vars =>
          TypeOK' /\ OpenBacked' /\ (SettledCovered => SettledCovered')
  BY <1>3 DEF vars, oracleVars
<1>6. QED
  BY <1>1, <1>2, <1>4, <1>5 DEF Next

\* Every step of the market keeps the sums.
LEMMA NextKeepsSums ==
    ASSUME TypeOK, OpenBacked, Sums, [Next]_vars
    PROVE  Sums'
<1>1. VaultTypeOK /\ VaultTypeOK'
  BY NextPreserves DEF TypeOK
<1>2. CASE Tick \/ UserNext \/ FactoryNext
  BY <1>1, <1>2, QuietStepsKeepSums, UserKeepsSums
<1>3. ASSUME NEW id \in Epochs, SettleStep(id)
      PROVE  Sums'
  BY <1>1, <1>3, SettleKeepsSums
     DEF SettleStep, TriggerDepeg, TriggerEndEpoch, TriggerNullEpoch
<1>4. CASE ControllerNext
  BY <1>3, <1>4 DEF ControllerNext, SettleStep
<1>5. CASE OracleNext \/ UNCHANGED vars
  <2>1. UNCHANGED <<totalSupply, balanceOf, asset, funds>>
    BY <1>5, OracleType DEF vars, vaultVars, shareVars
  <2>2. QED
    BY <2>1, SumsKept
<1>6. QED
  BY <1>2, <1>4, <1>5 DEF Next

\* All but the users leave the late shares as they are.
LEMMA OthersMintNothing ==
    ASSUME [Next]_vars, ~UserNext
    PROVE  UNCHANGED late
<1>1. Tick \/ FactoryNext => UNCHANGED late
  BY DEF Tick, FactoryNext, CreateEpoch, PauseMarket, SetTreasury,
         WhitelistController, WhitelistAddressOnMarket, shareVars
<1>2. ControllerNext => UNCHANGED late
  BY DEF ControllerNext, TriggerDepeg, TriggerEndEpoch, TriggerNullEpoch,
         SettleDepeg, SettleEnd, SettleNull, settleUnchanged, shareVars
<1>3. OracleNext \/ UNCHANGED vars => UNCHANGED late
  BY DEF OracleNext, ReportPrice, ReportSequencer, vars, vaultVars, shareVars
<1>4. QED
  BY <1>1, <1>2, <1>3 DEF Next

\* A freshly deployed market satisfies the invariants.
LEMMA InitInvariant == Init => TypeOK /\ OpenBacked /\ SettledCovered
<1> SUFFICES ASSUME Init PROVE TypeOK /\ OpenBacked /\ SettledCovered
  OBVIOUS
<1>1. VaultTypeOK /\ OpenBacked /\ SettledCovered
  BY InitEstablishes DEF Init
<1>2. now \in Nat
  BY <1>1, ConstantsAssumption DEF VaultTypeOK
<1>3. priceFeed \in PriceReports /\ sequencerUptimeFeed \in SequencerReports
  BY <1>2 DEF Init, PriceReports, SequencerReports
<1>4. QED
  BY <1>1, <1>3 DEF TypeOK

-----------------------------------------------------------------------------
\* Every variable keeps its type; in particular no ERC20 balance, supply or
\* share balance becomes negative, so no unsigned subtraction of a completed
\* transaction wraps.
THEOREM TypeCorrect == Spec => []TypeOK
<1>1. Init => TypeOK /\ OpenBacked
  BY InitInvariant
<1>2. TypeOK /\ OpenBacked /\ [Next]_vars => (TypeOK /\ OpenBacked)'
  BY NextPreserves
<1>3. QED
  BY <1>1, <1>2, PTL DEF Spec

\* ERC1155Supply's counter agrees with the balances it is the total of, through
\* mints, burns and transfers to others or to oneself.
THEOREM SupplyAddsUp == Spec => []SupplyIsSumOfBalances
<1> DEFINE Inv == TypeOK /\ OpenBacked /\ Sums
<1>1. Init => Inv
  BY InitInvariant, InitSums DEF Init
<1>2. Inv /\ [Next]_vars => Inv'
  BY NextPreserves, NextKeepsSums
<1>3. Inv => SupplyIsSumOfBalances
  BY DEF Sums
<1>4. QED
  BY <1>1, <1>2, <1>3, PTL DEF Spec

\* The inductive invariant: every open epoch holds what was deposited into it,
\* every settled one covers its claims but for the profit of late shares, and
\* the accounts of the epochs are within the balance.
THEOREM VaultInvariant == Spec => []VaultInv
<1> DEFINE Inv == TypeOK /\ OpenBacked /\ SettledCovered /\ Sums
<1>1. Init => Inv
  BY InitInvariant, InitSums DEF Init
<1>2. Inv /\ [Next]_vars => Inv'
  BY NextPreserves, NextKeepsSums
<1>3. Inv => VaultInv
  BY DEF VaultInv, TypeOK, Sums
<1>4. QED
  BY <1>1, <1>2, <1>3, PTL DEF Spec

\* Once an epoch is settled, shares of it are minted in the second of its begin
\* and in no other.
THEOREM LateSharesAtBegin == Spec => LateOnlyAtBegin
<1> DEFINE Inv == TypeOK /\ OpenBacked /\ SettledCovered
           AtBegin == \A v \in Vaults, id \in Epochs :
               late'[v][id] # late[v][id] =>
                   epochResolved[v][id] /\ now = EpochBegin(id)
<1>1. Init => Inv
  BY InitInvariant
<1>2. Inv /\ [Next]_vars => Inv'
  BY NextPreserves
<1>3. Inv /\ [Next]_vars => [AtBegin]_vaultVars
  <2> SUFFICES ASSUME Inv, [Next]_vars PROVE AtBegin
    OBVIOUS
  <2>1. CASE UserNext
    BY <2>1, UsersMintLateAtBegin DEF TypeOK
  <2>2. CASE ~UserNext
    BY <2>2, OthersMintNothing
  <2>3. QED
    BY <2>1, <2>2
<1>4. QED
  BY <1>1, <1>2, <1>3, PTL DEF Spec, LateOnlyAtBegin

\* So an epoch that begins between two blocks has no late shares.
THEOREM NoLateSharesApart == Spec => []UndilutedApart
<1> DEFINE Inv == TypeOK /\ OpenBacked /\ SettledCovered
<1>1. Init => Inv /\ UndilutedApart
  <2>1. Init => \A v \in Vaults, id \in Epochs :
                    late[v][id] = 0 /\ epochResolved[v][id] = FALSE
    BY DEF Init, VaultInit
  <2>2. QED
    BY <2>1, InitInvariant DEF UndilutedApart
<1>2. Inv /\ [Next]_vars => Inv'
  BY NextPreserves
<1>3. ASSUME Inv, Inv', UndilutedApart, [Next]_vars
      PROVE  UndilutedApart'
  <2>1. CASE UserNext
    BY <1>3, <2>1, UsersKeepUndilutedApart DEF TypeOK
  <2>2. CASE ~UserNext
    BY <1>3, <2>2, OthersMintNothing, UndilutedApartKept DEF TypeOK
  <2>3. QED
    BY <2>1, <2>2
<1>4. Inv /\ UndilutedApart /\ [Next]_vars => UndilutedApart'
  BY <1>2, <1>3
<1>5. QED
  BY <1>1, <1>2, <1>4, PTL DEF Spec

\* Every epoch is at all times backed by its own money, at any blocks, but for
\* the profit of late shares.
THEOREM Solvency == Spec => []FundsCoverClaims
<1>1. Spec => []VaultInv
  BY VaultInvariant
<1>2. VaultInv => FundsCoverClaims
  BY InvariantCovers DEF VaultInv
<1>3. QED
  BY <1>1, <1>2, PTL

\* The shares of a settled epoch, but for the late ones, never exceed the
\* finalTVL that withdraw divides by.
THEOREM SupplyBounded == Spec => []ResolvedSupplyBounded
<1>1. Spec => []VaultInv
  BY VaultInvariant
<1>2. VaultInv => ResolvedSupplyBounded
  BY InvariantCovers DEF VaultInv
<1>3. QED
  BY <1>1, <1>2, PTL

\* The one ERC20 balance of a vault covers what it owes for all its epochs
\* together, less the profit of late shares.
THEOREM BalanceSuffices == Spec => []BalanceCoversAllEpochs
<1>1. Spec => []VaultInv
  BY VaultInvariant
<1>2. VaultInv => BalanceCoversAllEpochs
  BY InvariantCoversAll
<1>3. QED
  BY <1>1, <1>2, PTL

\* No holder of shares of a settled epoch is refused by withdraw for want of
\* tokens, of supply or of a divisor, in a vault that minted no share late.
THEOREM ExitsAreFunded == Spec => []ExitsFunded
<1>1. Spec => []VaultInv
  BY VaultInvariant
<1>2. VaultInv => ExitsFunded
  BY InvariantFundsExits
<1>3. QED
  BY <1>1, <1>2, PTL

\* A settlement leaves each vault with exactly the claim it stores, whichever
\* trigger performed it and at whatever time.
THEOREM SettlementIsExact == Spec => SettlementExact
<1> DEFINE Exact == \A v \in Vaults, id \in Epochs :
               ~epochResolved[v][id] /\ epochResolved'[v][id]
                   => funds'[v][id] = claimTVL'[v][id]
<1>1. Init => TypeOK /\ OpenBacked
  BY InitInvariant
<1>2. TypeOK /\ OpenBacked /\ [Next]_vars => (TypeOK /\ OpenBacked)'
  BY NextPreserves
<1>3. ASSUME TypeOK, OpenBacked, NEW id \in Epochs, SettleStep(id)
      PROVE  Exact
  <2>1. CASE TriggerDepeg(id)
    BY <2>1, <1>3, SettleDepegPreserves DEF TriggerDepeg, TypeOK, SettledAs
  <2>2. CASE TriggerEndEpoch(id)
    BY <2>2, <1>3, SettleEndPreserves DEF TriggerEndEpoch, TypeOK, SettledAs
  <2>3. CASE TriggerNullEpoch(id)
    BY <2>3, <1>3, SettleNullPreserves DEF TriggerNullEpoch, TypeOK, SettledAs
  <2>4. QED
    BY <1>3, <2>1, <2>2, <2>3 DEF SettleStep
<1>4. ASSUME TypeOK, OpenBacked, [Next]_vars
      PROVE  Exact
  <2>1. CASE ControllerNext
    BY <1>3, <1>4, <2>1 DEF ControllerNext, SettleStep
  <2>2. CASE Tick \/ UserNext \/ FactoryNext
    BY <2>2, OnlySettlementsSettle
  <2>3. CASE OracleNext \/ UNCHANGED vars
    BY <2>3, <1>4, OracleType DEF vars, vaultVars, settleVars
  <2>4. QED
    BY <1>4, <2>1, <2>2, <2>3 DEF Next
<1>5. TypeOK /\ OpenBacked /\ [Next]_vars => [Exact]_vaultVars
  BY <1>4
<1>6. QED
  BY <1>1, <1>2, <1>5, PTL DEF Spec, SettlementExact

\* The side whose counterparty is empty is refunded: neither triggerDepeg nor
\* triggerEndEpoch can reach such an epoch.
THEOREM EmptySideRefunded == Spec => []EmptyCounterpartyRefunds
<1> DEFINE Inv == TypeOK /\ OpenBacked
           Refunds == EmptyCounterpartyRefunds
<1>1. Init => Inv /\ Refunds
  <2>1. Init => \A v \in Vaults, id \in Epochs : epochResolved[v][id] = FALSE
    BY DEF Init, VaultInit
  <2>2. QED
    BY <2>1, InitInvariant DEF EmptyCounterpartyRefunds
<1>2. Inv /\ [Next]_vars => Inv'
  BY NextPreserves
<1>3. ASSUME Inv, Refunds, NEW id \in Epochs, SettleStep(id)
      PROVE  Refunds'
  <2>1. \A v \in Vaults : CounterPartyVault(v) \in Vaults
    BY DEF CounterPartyVault, Vaults
  <2>2. ASSUME NEW claim \in [Vaults -> Nat], SettledAs(id, claim),
               \/ \A v \in Vaults : totalSupply[v][id] # 0
               \/ \A v \in Vaults : claim[v] = totalSupply[v][id]
        PROVE  Refunds'
    BY <1>3, <2>1, <2>2 DEF EmptyCounterpartyRefunds, SettledAs
  <2>3. CASE TriggerDepeg(id)
    <3>1. \A v \in Vaults : totalSupply[v][id] # 0
      BY <2>3 DEF TriggerDepeg, ZeroTVL
    <3>2. SettledAs(id, DepegClaim(id))
      BY <1>3, <2>3, SettleDepegPreserves DEF TriggerDepeg, TypeOK
    <3>3. QED
      BY <1>3, <2>1, <3>1, <3>2 DEF EmptyCounterpartyRefunds, SettledAs
  <2>4. CASE TriggerEndEpoch(id)
    <3>1. \A v \in Vaults : totalSupply[v][id] # 0
      BY <2>4 DEF TriggerEndEpoch, ZeroTVL
    <3>2. SettledAs(id, EndClaim(id))
      BY <1>3, <2>4, SettleEndPreserves DEF TriggerEndEpoch, TypeOK
    <3>3. QED
      BY <1>3, <2>1, <3>1, <3>2 DEF EmptyCounterpartyRefunds, SettledAs
  <2>5. CASE TriggerNullEpoch(id)
    <3>1. SettledAs(id, [v \in Vaults |-> totalSupply[v][id]])
      BY <1>3, <2>5, SettleNullPreserves DEF TriggerNullEpoch, TypeOK
    <3>2. [v \in Vaults |-> totalSupply[v][id]] \in [Vaults -> Nat]
      BY <1>3 DEF TypeOK, VaultTypeOK, PerEpoch
    <3>3. QED
      BY <2>2, <3>1, <3>2
  <2>6. QED
    BY <1>3, <2>3, <2>4, <2>5 DEF SettleStep
<1>4. ASSUME Inv, Refunds, [Next]_vars
      PROVE  Refunds'
  <2>1. CASE ControllerNext
    BY <1>3, <1>4, <2>1 DEF ControllerNext, SettleStep
  <2>2. CASE Tick \/ UserNext \/ FactoryNext
    BY <1>4, <2>2, OnlySettlementsSettle DEF EmptyCounterpartyRefunds
  <2>3. CASE OracleNext \/ UNCHANGED vars
    BY <1>4, <2>3, OracleType
       DEF vars, vaultVars, settleVars, EmptyCounterpartyRefunds
  <2>4. QED
    BY <1>4, <2>1, <2>2, <2>3 DEF Next
<1>5. Inv /\ Refunds /\ [Next]_vars => Refunds'
  BY <1>4
<1>6. QED
  BY <1>1, <1>2, <1>5, PTL DEF Spec

-----------------------------------------------------------------------------
\* Each trigger settles the escrow in one of its three ways.  triggerDepeg
\* only looks at the premium vault's epoch; the other one exists with it.
LEMMA SettleStepMaps ==
    ASSUME VaultTypeOK, OpenBacked, SidesAgree, NEW id \in Epochs, SettleStep(id)
    PROVE  Escrow!Settle(id) /\ SidesAgree'
<1>1. CASE TriggerDepeg(id)
  <2>1. \A v \in Vaults : epochExists[v][id]
    BY <1>1, SidesAreVaults DEF TriggerDepeg, SidesAgree
  <2>2. QED
    BY <1>1, <2>1, SettleDepegMaps DEF TriggerDepeg
<1>2. CASE TriggerEndEpoch(id)
  BY <1>2, SettleEndMaps DEF TriggerEndEpoch, EpochExpired
<1>3. CASE TriggerNullEpoch(id)
  BY <1>3, SettleNullMaps DEF TriggerNullEpoch
<1>4. QED
  BY <1>1, <1>2, <1>3 DEF SettleStep

\* A market with this controller is a set of independent escrows, whatever its
\* price feeds report.
THEOREM PeggedImplementsEscrow == Spec => ImplementsEscrow
<1> DEFINE Inv == /\ TypeOK /\ OpenBacked
                  /\ SettledCovered /\ SidesAgree
<1>1. Init => Inv /\ Escrow!Init
  BY InitInvariant, InitMaps DEF Init
<1>2. Inv /\ [Next]_vars => Inv' /\ [Escrow!Next]_(Escrow!vars)
  <2> SUFFICES ASSUME Inv, [Next]_vars
               PROVE  SidesAgree' /\ [Escrow!Next]_(Escrow!vars)
    BY NextPreserves
  <2>1. CASE Tick
    BY <2>1, TickMaps DEF Escrow!Next
  <2>2. CASE UserNext
    BY <2>2, UserMaps DEF TypeOK
  <2>3. CASE FactoryNext
    BY <2>3, FactoryMaps DEF TypeOK
  <2>4. CASE ControllerNext
    BY <2>4, SettleStepMaps DEF TypeOK, ControllerNext, SettleStep, Escrow!Next
  <2>5. CASE OracleNext \/ UNCHANGED vars
    <3>1. UNCHANGED vaultVars
      BY <2>5 DEF OracleNext, ReportPrice, ReportSequencer, vars
    <3>2. EscrowIdle
      BY <3>1 DEF vaultVars, settleVars, shareVars, EscrowIdle
    <3>3. QED
      BY <3>2, IdleStutters
  <2>6. QED
    BY <2>1, <2>2, <2>3, <2>4, <2>5 DEF Next
<1>3. QED
  BY <1>1, <1>2, PTL DEF Spec, ImplementsEscrow, Escrow!Spec

-----------------------------------------------------------------------------
(* The keepers' views.                                                     *)

\* Whatever the market does, an epoch exists and is settled on both vaults or
\* on neither, begins before it ends, and has no sends counted while it is open.
THEOREM SidesStayTogether == Spec => [](SidesAgree /\ EpochsFresh)
<1> DEFINE Fresh == SidesAgree /\ EpochsFresh
<1>1. Init => TypeOK /\ OpenBacked /\ Fresh
  BY InitInvariant, InitFresh DEF Init
<1>2. TypeOK /\ OpenBacked /\ [Next]_vars => (TypeOK /\ OpenBacked)'
  BY NextPreserves
<1>3. ASSUME TypeOK, Fresh, [Next]_vars
      PROVE  Fresh'
  <2>1. CASE Tick \/ UserNext \/ FactoryNext
    BY <1>3, <2>1, QuietKeepsFresh DEF TypeOK
  <2>2. ASSUME NEW id \in Epochs, SettleStep(id)
        PROVE  Fresh'
    BY <1>3, <2>2, SettleKeepsFresh
       DEF TypeOK, SettleStep, TriggerDepeg, TriggerEndEpoch, TriggerNullEpoch
  <2>3. CASE OracleNext \/ UNCHANGED vars
    <3>1. UNCHANGED <<epochExists, epochResolved, epochAccounting>>
      BY <1>3, <2>3, OracleType DEF vars, vaultVars, settleVars
    <3>2. QED
      BY <1>3, <3>1 DEF SidesAgree, EpochsFresh
  <2>4. QED
    BY <1>3, <2>1, <2>2, <2>3 DEF Next, ControllerNext, SettleStep
<1>4. TypeOK /\ Fresh /\ [Next]_vars => Fresh'
  BY <1>3
<1>5. QED
  BY <1>1, <1>2, <1>4, PTL DEF Spec

\* What DepegSucceeds, EndSucceeds and NullSucceeds stand for: each trigger is
\* that list of checks and assignments to all variables, so the transaction
\* goes through when, and only when, the list holds.
THEOREM TriggersByGuards ==
    ASSUME TypeOK, NEW id \in Epochs
    PROVE  /\ TriggerDepeg(id) <=>
                  DepegSucceeds(id) /\ DepegWrites(id) /\ UNCHANGED oracleVars
           /\ TriggerEndEpoch(id) <=>
                  EndSucceeds(id) /\ EndWrites(id) /\ UNCHANGED oracleVars
           /\ TriggerNullEpoch(id) <=>
                  NullSucceeds(id) /\ NullWrites(id) /\ UNCHANGED oracleVars
<1>1. VaultTypeOK
  BY DEF TypeOK
<1>2. SettleDepeg(id, treasury) <=> DepegPasses(id, treasury) /\ DepegWrites(id)
  BY <1>1, DepegByGuards
<1>3. SettleEnd(id, treasury) <=> EndPasses(id, treasury) /\ EndWrites(id)
  BY <1>1, EndByGuards
<1>4. SettleNull(id) <=> NullPasses(id) /\ NullWrites(id)
  BY <1>1, NullByGuards
<1>5. TriggerDepeg(id) <=>
          DepegSucceeds(id) /\ DepegWrites(id) /\ UNCHANGED oracleVars
  BY <1>2 DEF TriggerDepeg, DepegSucceeds
<1>6. TriggerEndEpoch(id) <=>
          EndSucceeds(id) /\ EndWrites(id) /\ UNCHANGED oracleVars
  BY <1>3 DEF TriggerEndEpoch, EndSucceeds
<1>7. TriggerNullEpoch(id) <=>
          NullSucceeds(id) /\ NullWrites(id) /\ UNCHANGED oracleVars
  BY <1>4 DEF TriggerNullEpoch, NullSucceeds
<1>8. QED
  BY <1>5, <1>6, <1>7

\* The invariants make the views complete.
LEMMA InvariantMakesViewsComplete ==
    ASSUME VaultInv, SidesAgree, EpochsFresh
    PROVE  KeeperViewsComplete
<1> SUFFICES ASSUME NEW id \in Epochs
             PROVE  /\ epochFee[id] <= BPS /\ (\A v \in Vaults : Undiluted(v)) =>
                          /\ CanExecDepeg(id) <=> DepegSucceeds(id)
                          /\ CanExecEnd(id) <=> EndSucceeds(id)
                    /\ CanExecNullEpoch(id) <=> NullSucceeds(id)
                    /\ CanExecDepeg(id) => ~CanExecEnd(id)
  BY DEF KeeperViewsComplete
<1>1. DestinationAuthorized(treasury)
  BY DEF DestinationAuthorized
<1>2. ASSUME epochFee[id] <= BPS, \A v \in Vaults : Undiluted(v)
      PROVE  CanExecDepeg(id) <=> DepegSucceeds(id)
  BY <1>1, <1>2, SettlementPasses DEF CanExecDepeg, DepegSucceeds
<1>3. ASSUME epochFee[id] <= BPS, \A v \in Vaults : Undiluted(v)
      PROVE  CanExecEnd(id) <=> EndSucceeds(id)
  <2>1. SUFFICES ASSUME CanExecEnd(id) PROVE EndPasses(id, treasury)
    BY DEF CanExecEnd, EndSucceeds, EpochExpired
  <2>2. epochExists[Premium][id] /\ ~FinishedAlready(id) /\ now > EpochEnd(id)
    BY <2>1, SidesAreVaults DEF CanExecEnd
  <2>3. EpochBegin(id) < EpochEnd(id)
    BY <2>2, SidesAreVaults DEF EpochsFresh
  <2>4. now \in Nat /\ EpochBegin(id) \in Nat /\ EpochEnd(id) \in Nat
    BY ConstantsAssumption DEF VaultInv, VaultTypeOK, EpochBegin, EpochEnd
  <2>5. now >= EpochBegin(id)
    BY <2>2, <2>3, <2>4
  <2>6. QED
    BY <1>1, <1>3, <2>2, <2>5, SettlementPasses
<1>4. CanExecNullEpoch(id) <=> NullSucceeds(id)
  BY TriggerResolves, SidesAreVaults
     DEF CanExecNullEpoch, NullSucceeds, NullPasses
<1>5. CanExecDepeg(id) => ~CanExecEnd(id)
  <2>1. now \in Nat /\ EpochEnd(id) \in Nat
    BY ConstantsAssumption DEF VaultInv, VaultTypeOK, EpochEnd
  <2>2. QED
    BY <2>1 DEF CanExecDepeg, CanExecEnd
<1>6. QED
  BY <1>2, <1>3, <1>4, <1>5

\* A keeper's view answers true exactly when its transaction would go through,
\* whatever users, owner and feeds have done before, as long as they minted no
\* share late; the view of a null epoch even then.
THEOREM KeeperViewsAreComplete == Spec => []KeeperViewsComplete
<1>1. Spec => []VaultInv
  BY VaultInvariant
<1>2. Spec => [](SidesAgree /\ EpochsFresh)
  BY SidesStayTogether
<1>3. VaultInv /\ SidesAgree /\ EpochsFresh => KeeperViewsComplete
  BY InvariantMakesViewsComplete
<1>4. QED
  BY <1>1, <1>2, <1>3, PTL

-----------------------------------------------------------------------------
(* Markets settled by ControllerGeneric: GenericSpec.  The refund of the   *)
(* side with an empty counterparty is not among the theorems: this         *)
(* controller does not guarantee it.                                       *)

\* One of the triggers settles the epoch.
GenericSettleStep(id) ==
    \/ TriggerLiquidation(id)
    \/ GenericTriggerEndEpoch(id)
    \/ GenericTriggerNullEpoch(id)

\* Each trigger of this controller settles exactly and preserves the
\* invariants.
LEMMA GenericSettlePreserves ==
    ASSUME VaultTypeOK, OpenBacked, NEW id \in Epochs, GenericSettleStep(id)
    PROVE  /\ VaultTypeOK' /\ OpenBacked'
           /\ SettledCovered => SettledCovered'
           /\ UNCHANGED conditionMet
           /\ \A v \in Vaults, e \in Epochs :
                 ~epochResolved[v][e] /\ epochResolved'[v][e]
                     => funds'[v][e] = claimTVL'[v][e]
<1>1. CASE TriggerLiquidation(id)
  BY <1>1, SettleDepegPreserves DEF TriggerLiquidation, SettledAs
<1>2. CASE GenericTriggerEndEpoch(id)
  BY <1>2, SettleEndPreserves DEF GenericTriggerEndEpoch, SettledAs
<1>3. CASE GenericTriggerNullEpoch(id)
  BY <1>3, SettleNullPreserves DEF GenericTriggerNullEpoch, SettledAs
<1>4. QED
  BY <1>1, <1>2, <1>3 DEF GenericSettleStep

\* Every step of the market preserves the invariants and settles exactly.
LEMMA GenericNextPreserves ==
    ASSUME GenericTypeOK, OpenBacked, [GenericNext]_gvars
    PROVE  /\ GenericTypeOK' /\ OpenBacked'
           /\ SettledCovered => SettledCovered'
           /\ \A v \in Vaults, e \in Epochs :
                 ~epochResolved[v][e] /\ epochResolved'[v][e]
                     => funds'[v][e] = claimTVL'[v][e]
<1> USE DEF GenericTypeOK
<1>1. CASE (Tick \/ UserNext \/ FactoryNext) /\ UNCHANGED conditionMet
  BY <1>1, TickPreserves, UserPreserves, FactoryPreserves,
     OnlySettlementsSettle
<1>2. CASE \E id \in Epochs : GenericSettleStep(id)
  BY <1>2, GenericSettlePreserves
<1>3. CASE UNCHANGED vaultVars /\ conditionMet' \in BOOLEAN
  BY <1>3 DEF vaultVars, factoryVars, settleVars, shareVars,
              VaultTypeOK, OpenBacked, SettledCovered
<1>4. ReportCondition \/ UNCHANGED gvars =>
          UNCHANGED vaultVars /\ conditionMet' \in BOOLEAN
  BY DEF ReportCondition, gvars
<1>5. QED
  BY <1>1, <1>2, <1>3, <1>4 DEF GenericNext, GenericSettleStep

\* Every step of the market keeps the sums.
LEMMA GenericNextKeepsSums ==
    ASSUME GenericTypeOK, OpenBacked, Sums, [GenericNext]_gvars
    PROVE  Sums'
<1>1. VaultTypeOK /\ VaultTypeOK'
  BY GenericNextPreserves DEF GenericTypeOK
<1>2. CASE Tick \/ UserNext \/ FactoryNext
  BY <1>1, <1>2, QuietStepsKeepSums, UserKeepsSums
<1>3. ASSUME NEW id \in Epochs, GenericSettleStep(id)
      PROVE  Sums'
  BY <1>1, <1>3, SettleKeepsSums
     DEF GenericSettleStep, TriggerLiquidation, GenericTriggerEndEpoch,
         GenericTriggerNullEpoch
<1>4. CASE ReportCondition \/ UNCHANGED gvars
  <2>1. UNCHANGED <<totalSupply, balanceOf, asset, funds>>
    BY <1>4 DEF ReportCondition, gvars, vaultVars, shareVars
  <2>2. QED
    BY <2>1, SumsKept
<1>5. QED
  BY <1>2, <1>3, <1>4 DEF GenericNext, GenericSettleStep

\* All but the users leave the late shares as they are.
LEMMA GenericOthersMintNothing ==
    ASSUME [GenericNext]_gvars, ~UserNext
    PROVE  UNCHANGED late
<1>1. Tick \/ FactoryNext => UNCHANGED late
  BY DEF Tick, FactoryNext, CreateEpoch, PauseMarket, SetTreasury,
         WhitelistController, WhitelistAddressOnMarket, shareVars
<1>2. (\E id \in Epochs : GenericSettleStep(id)) => UNCHANGED late
  BY DEF GenericSettleStep, TriggerLiquidation, GenericTriggerEndEpoch,
         GenericTriggerNullEpoch, SettleDepeg, SettleEnd, SettleNull,
         settleUnchanged, shareVars
<1>3. ReportCondition \/ UNCHANGED gvars => UNCHANGED late
  BY DEF ReportCondition, gvars, vaultVars, shareVars
<1>4. QED
  BY <1>1, <1>2, <1>3 DEF GenericNext, GenericSettleStep

\* A freshly deployed market satisfies the invariants.
LEMMA GenericInitInvariant ==
    GenericInit => GenericTypeOK /\ OpenBacked /\ SettledCovered
  BY InitEstablishes DEF GenericInit, GenericTypeOK

-----------------------------------------------------------------------------
\* Every variable keeps its type.
THEOREM GenericTypeCorrect == GenericSpec => []GenericTypeOK
<1>1. GenericInit => GenericTypeOK /\ OpenBacked
  BY GenericInitInvariant
<1>2. GenericTypeOK /\ OpenBacked /\ [GenericNext]_gvars
          => (GenericTypeOK /\ OpenBacked)'
  BY GenericNextPreserves
<1>3. QED
  BY <1>1, <1>2, PTL DEF GenericSpec

\* The inductive invariant.
THEOREM GenericVaultInvariant == GenericSpec => []VaultInv
<1> DEFINE Inv == GenericTypeOK /\ OpenBacked /\ SettledCovered /\ Sums
<1>1. GenericInit => Inv
  BY GenericInitInvariant, InitSums DEF GenericInit
<1>2. Inv /\ [GenericNext]_gvars => Inv'
  BY GenericNextPreserves, GenericNextKeepsSums
<1>3. Inv => VaultInv
  BY DEF VaultInv, GenericTypeOK, Sums
<1>4. QED
  BY <1>1, <1>2, <1>3, PTL DEF GenericSpec

\* Once an epoch is settled, shares of it are minted in the second of its begin
\* and in no other.
THEOREM GenericLateSharesAtBegin == GenericSpec => LateOnlyAtBegin
<1> DEFINE Inv == GenericTypeOK /\ OpenBacked /\ SettledCovered
           AtBegin == \A v \in Vaults, id \in Epochs :
               late'[v][id] # late[v][id] =>
                   epochResolved[v][id] /\ now = EpochBegin(id)
<1>1. GenericInit => Inv
  BY GenericInitInvariant
<1>2. Inv /\ [GenericNext]_gvars => Inv'
  BY GenericNextPreserves
<1>3. Inv /\ [GenericNext]_gvars => [AtBegin]_vaultVars
  <2> SUFFICES ASSUME Inv, [GenericNext]_gvars PROVE AtBegin
    OBVIOUS
  <2>1. CASE UserNext
    BY <2>1, UsersMintLateAtBegin DEF GenericTypeOK
  <2>2. CASE ~UserNext
    BY <2>2, GenericOthersMintNothing
  <2>3. QED
    BY <2>1, <2>2
<1>4. QED
  BY <1>1, <1>2, <1>3, PTL DEF GenericSpec, LateOnlyAtBegin

\* So an epoch that begins between two blocks has no late shares.
THEOREM GenericNoLateSharesApart == GenericSpec => []UndilutedApart
<1> DEFINE Inv == GenericTypeOK /\ OpenBacked /\ SettledCovered
<1>1. GenericInit => Inv /\ UndilutedApart
  <2>1. GenericInit => \A v \in Vaults, id \in Epochs :
                           late[v][id] = 0 /\ epochResolved[v][id] = FALSE
    BY DEF GenericInit, VaultInit
  <2>2. QED
    BY <2>1, GenericInitInvariant DEF UndilutedApart
<1>2. Inv /\ [GenericNext]_gvars => Inv'
  BY GenericNextPreserves
<1>3. ASSUME Inv, Inv', UndilutedApart, [GenericNext]_gvars
      PROVE  UndilutedApart'
  <2>1. CASE UserNext
    BY <1>3, <2>1, UsersKeepUndilutedApart DEF GenericTypeOK
  <2>2. CASE ~UserNext
    BY <1>3, <2>2, GenericOthersMintNothing, UndilutedApartKept
       DEF GenericTypeOK
  <2>3. QED
    BY <2>1, <2>2
<1>4. Inv /\ UndilutedApart /\ [GenericNext]_gvars => UndilutedApart'
  BY <1>2, <1>3
<1>5. QED
  BY <1>1, <1>2, <1>4, PTL DEF GenericSpec

\* Every epoch is at all times backed by its own money but for the profit of late
\* shares, at any blocks, for any condition provider and although this controller
\* ends epochs whose collateral side is empty.
THEOREM GenericSolvency == GenericSpec => []FundsCoverClaims
<1>1. GenericSpec => []VaultInv
  BY GenericVaultInvariant
<1>2. VaultInv => FundsCoverClaims
  BY InvariantCovers DEF VaultInv
<1>3. QED
  BY <1>1, <1>2, PTL

\* The one ERC20 balance of a vault covers what it owes for all its epochs
\* together, less the profit of late shares, and no holder is refused by withdraw in a vault that minted no
\* share late.
THEOREM GenericBalanceSuffices ==
    GenericSpec => [](BalanceCoversAllEpochs /\ ExitsFunded)
<1>1. GenericSpec => []VaultInv
  BY GenericVaultInvariant
<1>2. VaultInv => BalanceCoversAllEpochs /\ ExitsFunded
  BY InvariantCoversAll, InvariantFundsExits
<1>3. QED
  BY <1>1, <1>2, PTL

\* A settlement leaves each vault with exactly the claim it stores.
THEOREM GenericSettlementIsExact == GenericSpec => SettlementExact
<1> DEFINE Exact == \A v \in Vaults, id \in Epochs :
               ~epochResolved[v][id] /\ epochResolved'[v][id]
                   => funds'[v][id] = claimTVL'[v][id]
<1>1. GenericInit => GenericTypeOK /\ OpenBacked
  BY GenericInitInvariant
<1>2. GenericTypeOK /\ OpenBacked /\ [GenericNext]_gvars
          => (GenericTypeOK /\ OpenBacked)' /\ [Exact]_vaultVars
  BY GenericNextPreserves
<1>3. QED
  BY <1>1, <1>2, PTL DEF GenericSpec, SettlementExact

-----------------------------------------------------------------------------
\* Each trigger settles the escrow in one of its three ways.
LEMMA GenericSettleStepMaps ==
    ASSUME VaultTypeOK, OpenBacked, SidesAgree, NEW id \in Epochs, GenericSettleStep(id)
    PROVE  Escrow!Settle(id) /\ SidesAgree'
<1>1. CASE TriggerLiquidation(id)
  BY <1>1, SettleDepegMaps
     DEF TriggerLiquidation, CheckGenericConditions, CheckLiquidationConditions
<1>2. CASE GenericTriggerEndEpoch(id)
  BY <1>2, SettleEndMaps
     DEF GenericTriggerEndEpoch, CheckGenericConditions, CheckEndEpochConditions
<1>3. CASE GenericTriggerNullEpoch(id)
  BY <1>3, SettleNullMaps DEF GenericTriggerNullEpoch, CheckGenericConditions
<1>4. QED
  BY <1>1, <1>2, <1>3 DEF GenericSettleStep

\* A market with this controller is a set of independent escrows.
THEOREM GenericImplementsEscrow == GenericSpec => ImplementsEscrow
<1> DEFINE Inv == /\ GenericTypeOK /\ OpenBacked
                  /\ SettledCovered /\ SidesAgree
<1>1. GenericInit => Inv /\ Escrow!Init
  BY GenericInitInvariant, InitMaps DEF GenericInit
<1>2. Inv /\ [GenericNext]_gvars => Inv' /\ [Escrow!Next]_(Escrow!vars)
  <2> SUFFICES ASSUME Inv, [GenericNext]_gvars
               PROVE  SidesAgree' /\ [Escrow!Next]_(Escrow!vars)
    BY GenericNextPreserves
  <2>1. CASE Tick
    BY <2>1, TickMaps DEF Escrow!Next
  <2>2. CASE UserNext
    BY <2>2, UserMaps DEF GenericTypeOK
  <2>3. CASE FactoryNext
    BY <2>3, FactoryMaps DEF GenericTypeOK
  <2>4. CASE \E id \in Epochs : GenericSettleStep(id)
    BY <2>4, GenericSettleStepMaps DEF GenericTypeOK, Escrow!Next
  <2>5. CASE ReportCondition \/ UNCHANGED gvars
    <3>1. EscrowIdle
      BY <2>5 DEF ReportCondition, gvars, vaultVars, settleVars, shareVars,
                  EscrowIdle
    <3>2. QED
      BY <3>1, IdleStutters
  <2>6. QED
    BY <2>1, <2>2, <2>3, <2>4, <2>5 DEF GenericNext, GenericSettleStep
<1>3. QED
  BY <1>1, <1>2, PTL DEF GenericSpec, ImplementsEscrow, Escrow!Spec

-----------------------------------------------------------------------------
(* The keepers' views.                                                     *)

\* An epoch exists and is settled on both vaults or on neither, begins before
\* it ends, and has no sends counted while it is open.
THEOREM GenericSidesStayTogether == GenericSpec => [](SidesAgree /\ EpochsFresh)
<1> DEFINE Fresh == SidesAgree /\ EpochsFresh
<1>1. GenericInit => GenericTypeOK /\ OpenBacked /\ Fresh
  BY GenericInitInvariant, InitFresh DEF GenericInit
<1>2. GenericTypeOK /\ OpenBacked /\ [GenericNext]_gvars
          => (GenericTypeOK /\ OpenBacked)'
  BY GenericNextPreserves
<1>3. ASSUME GenericTypeOK, Fresh, [GenericNext]_gvars
      PROVE  Fresh'
  <2>1. CASE Tick \/ UserNext \/ FactoryNext
    BY <1>3, <2>1, QuietKeepsFresh DEF GenericTypeOK
  <2>2. ASSUME NEW id \in Epochs, GenericSettleStep(id)
        PROVE  Fresh'
    BY <1>3, <2>2, SettleKeepsFresh
       DEF GenericTypeOK, GenericSettleStep, TriggerLiquidation,
           GenericTriggerEndEpoch, GenericTriggerNullEpoch
  <2>3. CASE ReportCondition \/ UNCHANGED gvars
    <3>1. UNCHANGED <<epochExists, epochResolved, epochAccounting>>
      BY <2>3 DEF ReportCondition, gvars, vaultVars, settleVars
    <3>2. QED
      BY <1>3, <3>1 DEF SidesAgree, EpochsFresh
  <2>4. QED
    BY <1>3, <2>1, <2>2, <2>3 DEF GenericNext, GenericSettleStep
<1>4. GenericTypeOK /\ Fresh /\ [GenericNext]_gvars => Fresh'
  BY <1>3
<1>5. QED
  BY <1>1, <1>2, <1>4, PTL DEF GenericSpec

\* Each trigger of this controller is its list of checks and assignments to all
\* variables.
THEOREM GenericTriggersByGuards ==
    ASSUME GenericTypeOK, NEW id \in Epochs
    PROVE  /\ TriggerLiquidation(id) <=> /\ LiquidationSucceeds(id)
                                         /\ DepegWrites(id)
                                         /\ UNCHANGED conditionMet
           /\ GenericTriggerEndEpoch(id) <=> /\ GenericEndSucceeds(id)
                                             /\ EndWrites(id)
                                             /\ UNCHANGED conditionMet
           /\ GenericTriggerNullEpoch(id) <=> /\ GenericNullSucceeds(id)
                                              /\ NullWrites(id)
                                              /\ UNCHANGED conditionMet
<1>1. VaultTypeOK
  BY DEF GenericTypeOK
<1>2. SettleDepeg(id, ControllerTreasury) <=>
          DepegPasses(id, ControllerTreasury) /\ DepegWrites(id)
  BY <1>1, DepegByGuards
<1>3. SettleEnd(id, ControllerTreasury) <=>
          EndPasses(id, ControllerTreasury) /\ EndWrites(id)
  BY <1>1, EndByGuards
<1>4. SettleNull(id) <=> NullPasses(id) /\ NullWrites(id)
  BY <1>1, NullByGuards
<1>5. QED
  BY <1>2, <1>3, <1>4
     DEF TriggerLiquidation, LiquidationSucceeds, GenericTriggerEndEpoch,
         GenericEndSucceeds, GenericTriggerNullEpoch, GenericNullSucceeds

\* The invariants make the views as complete as the treasury allows.
LEMMA InvariantMakesGenericViewsComplete ==
    ASSUME VaultInv, SidesAgree, EpochsFresh
    PROVE  GenericViewsComplete
<1> DEFINE Accepted == DestinationAuthorized(ControllerTreasury)
<1> SUFFICES ASSUME NEW id \in Epochs
             PROVE  /\ epochFee[id] <= BPS /\ (\A v \in Vaults : Undiluted(v)) =>
                          /\ LiquidationSucceeds(id) <=>
                                CanExecLiquidation(id) /\ Accepted
                          /\ GenericCanExecEnd(id) =>
                                (GenericEndSucceeds(id) <=> Accepted)
                    /\ GenericNullSucceeds(id) <=> GenericCanExecNullEpoch(id)
  BY DEF GenericViewsComplete
<1>1. epochExists[Premium][id] => \A v \in Vaults : epochExists[v][id]
  BY SidesAreVaults DEF SidesAgree
<1>2. ASSUME epochFee[id] <= BPS, \A v \in Vaults : Undiluted(v)
      PROVE  LiquidationSucceeds(id) <=> CanExecLiquidation(id) /\ Accepted
  <2>1. CheckGenericConditions(id) /\ CheckLiquidationConditions(id)
            <=> CanExecLiquidation(id)
    BY <1>1, SidesAreVaults
       DEF CheckGenericConditions, CheckLiquidationConditions, CanExecLiquidation
  <2>2. CanExecLiquidation(id) =>
            (DepegPasses(id, ControllerTreasury) <=> Accepted)
    BY <1>2, SettlementPasses DEF CanExecLiquidation
  <2>3. QED
    BY <2>1, <2>2 DEF LiquidationSucceeds
<1>3. ASSUME epochFee[id] <= BPS, \A v \in Vaults : Undiluted(v),
             GenericCanExecEnd(id)
      PROVE  GenericEndSucceeds(id) <=> Accepted
  <2>1. /\ CheckGenericConditions(id) /\ CheckEndEpochConditions(id)
        /\ epochExists[Premium][id] /\ ~FinishedAlready(id)
        /\ now > EpochEnd(id)
    BY <1>3, SidesAreVaults
       DEF GenericCanExecEnd, CheckGenericConditions, CheckEndEpochConditions
  <2>2. EpochBegin(id) < EpochEnd(id)
    BY <2>1, SidesAreVaults DEF EpochsFresh
  <2>3. now \in Nat /\ EpochBegin(id) \in Nat /\ EpochEnd(id) \in Nat
    BY ConstantsAssumption DEF VaultInv, VaultTypeOK, EpochBegin, EpochEnd
  <2>4. now >= EpochBegin(id)
    BY <2>1, <2>2, <2>3
  <2>5. EndPasses(id, ControllerTreasury) <=> Accepted
    BY <1>3, <2>1, <2>4, SettlementPasses
  <2>6. QED
    BY <2>1, <2>5 DEF GenericEndSucceeds
<1>4. GenericNullSucceeds(id) <=> GenericCanExecNullEpoch(id)
  BY TriggerResolves, SidesAreVaults
     DEF GenericCanExecNullEpoch, GenericNullSucceeds, CheckGenericConditions,
         NullPasses, ResolvePasses, EpochHasStarted
<1>5. QED
  BY <1>2, <1>3, <1>4

\* Nothing but a change of the treasury, a fee above 100% or a share minted late
\* stands between a view that answers true and a transaction that goes through.
THEOREM GenericViewsAreComplete == GenericSpec => []GenericViewsComplete
<1>1. GenericSpec => []VaultInv
  BY GenericVaultInvariant
<1>2. GenericSpec => [](SidesAgree /\ EpochsFresh)
  BY GenericSidesStayTogether
<1>3. VaultInv /\ SidesAgree /\ EpochsFresh => GenericViewsComplete
  BY InvariantMakesGenericViewsComplete
<1>4. QED
  BY <1>1, <1>2, <1>3, PTL

\* What a step does to an epoch of a vault that is not settled.
LEMMA StepOnOpenEpoch ==
    ASSUME GenericTypeOK, [GenericNext]_gvars,
           NEW v \in Vaults, NEW id \in Epochs, ~epochResolved[v][id]
    PROVE  /\ epochExists[v][id] => epochExists'[v][id]
           /\ now' >= now
           /\ totalSupply'[v][id] >= totalSupply[v][id]
           /\ now > EpochBegin(id) => totalSupply'[v][id] = totalSupply[v][id]
<1>1. /\ totalSupply[v][id] \in Nat /\ now \in Nat /\ EpochBegin(id) \in Nat
      /\ VaultTypeOK
  BY ConstantsAssumption
     DEF GenericTypeOK, VaultTypeOK, PerEpoch, EpochBegin
<1>2. ASSUME UNCHANGED <<epochExists, now, totalSupply>>
      PROVE  /\ epochExists[v][id] => epochExists'[v][id]
             /\ now' >= now
             /\ totalSupply'[v][id] >= totalSupply[v][id]
             /\ now > EpochBegin(id) => totalSupply'[v][id] = totalSupply[v][id]
  BY <1>1, <1>2
<1>3. CASE Tick
  <2>1. now' \in Nat /\ now' > now /\ UNCHANGED <<epochExists, totalSupply>>
    BY <1>3, ConstantsAssumption DEF Tick, shareVars
  <2>2. QED
    BY <1>1, <2>1
<1>4. CASE UserNext
  <2>1. PICK w \in Vaults, e \in Epochs, amount \in Amounts, u \in Users :
            \/ TakeIn(w, e, amount, u)
            \/ \E receiver \in Receivers, sender \in Users :
                  Withdraw(w, e, amount, receiver, u, sender)
            \/ \E to, sender \in Users :
                  SafeTransferFrom(w, e, u, to, amount, sender)
    BY <1>4 DEF UserNext, Deposit, DepositETH
  <2>2. UNCHANGED <<now, epochExists>> /\ amount \in Nat
    BY <2>1, ConstantsAssumption DEF TakeIn, Withdraw, SafeTransferFrom
  \* The window is closed after the begin.
  <2>3. CASE TakeIn(w, e, amount, u)
    <3>1. /\ totalSupply' = [totalSupply EXCEPT ![w][e] = @ + amount]
          /\ now <= EpochBegin(e)
      BY <2>3 DEF TakeIn, Mint, EpochHasNotStarted
    <3>2. CASE w = v /\ e = id
      <4>1. totalSupply'[v][id] = totalSupply[v][id] + amount
        BY <3>1, <3>2, <1>1 DEF VaultTypeOK, PerEpoch
      <4>2. QED
        BY <1>1, <2>2, <3>1, <3>2, <4>1
    <3>3. CASE ~(w = v /\ e = id)
      <4>1. totalSupply'[v][id] = totalSupply[v][id]
        BY <3>1, <3>3, <1>1 DEF VaultTypeOK, PerEpoch
      <4>2. QED
        BY <1>1, <2>2, <4>1
    <3>4. QED
      BY <3>2, <3>3
  \* Only shares of settled epochs are burnt.
  <2>4. ASSUME NEW receiver \in Receivers, NEW sender \in Users,
               Withdraw(w, e, amount, receiver, u, sender)
        PROVE  totalSupply'[v][id] = totalSupply[v][id]
    <3>1. /\ totalSupply' = [totalSupply EXCEPT ![w][e] = @ - amount]
          /\ epochResolved[w][e]
      BY <2>4 DEF Withdraw, Burn, EpochHasEnded
    <3>2. QED
      BY <3>1, <1>1 DEF VaultTypeOK, PerEpoch
  <2>5. ASSUME NEW to \in Users, NEW sender \in Users,
               SafeTransferFrom(w, e, u, to, amount, sender)
        PROVE  totalSupply'[v][id] = totalSupply[v][id]
    BY <2>5 DEF SafeTransferFrom
  <2>6. QED
    BY <1>1, <2>1, <2>2, <2>3, <2>4, <2>5
<1>5. CASE FactoryNext
  <2>1. UNCHANGED <<now, totalSupply>>
    BY <1>5 DEF FactoryNext, CreateEpoch, PauseMarket, SetTreasury,
                WhitelistController, WhitelistAddressOnMarket, shareVars
  <2>2. epochExists[v][id] => epochExists'[v][id]
    <3>1. ASSUME NEW e \in Epochs, NEW fee \in WithdrawalFees, CreateEpoch(e, fee)
          PROVE  epochExists[v][id] => epochExists'[v][id]
      BY <1>1, <3>1 DEF CreateEpoch, VaultTypeOK, PerEpoch
    <3>2. QED
      BY <1>5, <3>1 DEF FactoryNext, PauseMarket, SetTreasury,
                        WhitelistController, WhitelistAddressOnMarket
  <2>3. QED
    BY <1>1, <2>1, <2>2
<1>6. CASE \E e \in Epochs : GenericSettleStep(e)
  BY <1>2, <1>6
     DEF GenericSettleStep, TriggerLiquidation, GenericTriggerEndEpoch,
         GenericTriggerNullEpoch, SettleDepeg, SettleEnd, SettleNull,
         settleUnchanged, shareVars
<1>7. CASE ReportCondition \/ UNCHANGED gvars
  BY <1>2, <1>7 DEF ReportCondition, gvars, vaultVars, shareVars
<1>8. QED
  BY <1>3, <1>4, <1>5, <1>6, <1>7 DEF GenericNext, GenericSettleStep

\* A keeper's poll outlasts whatever is mined before its transaction: only the
\* settlement of the epoch, the end of the window, the condition or a deposit at
\* the begin can refute it.
THEOREM PollsOutlast == GenericSpec => PollsStayGood
<1> DEFINE EndStays(id) ==
               GenericCanExecEnd(id) =>
                   GenericCanExecEnd(id)' \/ FinishedAlready(id)'
           LiquidationStays(id) ==
               CanExecLiquidation(id) =>
                   \/ CanExecLiquidation(id)' \/ FinishedAlready(id)'
                   \/ ~conditionMet' \/ now' > EpochEnd(id)
           NullStays(id) ==
               GenericCanExecNullEpoch(id) =>
                   \/ GenericCanExecNullEpoch(id)' \/ FinishedAlready(id)'
                   \/ now = EpochBegin(id)
           Good == \A id \in Epochs :
               /\ GenericCanExecEnd(id) =>
                     GenericCanExecEnd(id)' \/ FinishedAlready(id)'
               /\ CanExecLiquidation(id) =>
                     \/ CanExecLiquidation(id)' \/ FinishedAlready(id)'
                     \/ ~conditionMet' \/ now' > EpochEnd(id)
               /\ GenericCanExecNullEpoch(id) =>
                     \/ GenericCanExecNullEpoch(id)' \/ FinishedAlready(id)'
                     \/ now = EpochBegin(id)
<1>1. GenericInit => GenericTypeOK /\ OpenBacked
  BY GenericInitInvariant
<1>2. GenericTypeOK /\ OpenBacked /\ [GenericNext]_gvars
          => (GenericTypeOK /\ OpenBacked)'
  BY GenericNextPreserves
<1>3. ASSUME GenericTypeOK, GenericTypeOK', [GenericNext]_gvars, NEW id \in Epochs
      PROVE  EndStays(id) /\ LiquidationStays(id) /\ NullStays(id)
  <2>1. /\ now \in Nat /\ now' \in Nat
        /\ EpochBegin(id) \in Nat /\ EpochEnd(id) \in Nat
        /\ \A v \in Vaults : totalSupply[v][id] \in Nat /\ totalSupply'[v][id] \in Nat
    BY <1>3, ConstantsAssumption
       DEF GenericTypeOK, VaultTypeOK, PerEpoch, EpochBegin, EpochEnd
  <2>2. ASSUME ~FinishedAlready(id)
        PROVE  /\ \A v \in Vaults : epochExists[v][id] => epochExists'[v][id]
               /\ now' >= now
               /\ ~ZeroTVL(id) => ~ZeroTVL(id)'
               /\ ZeroTVL(id) /\ now > EpochBegin(id) => ZeroTVL(id)'
    <3>1. \A v \in Vaults :
              /\ epochExists[v][id] => epochExists'[v][id]
              /\ now' >= now
              /\ totalSupply'[v][id] >= totalSupply[v][id]
              /\ now > EpochBegin(id) => totalSupply'[v][id] = totalSupply[v][id]
      BY <1>3, <2>2, StepOnOpenEpoch DEF FinishedAlready
    <3>2. ~ZeroTVL(id) => ~ZeroTVL(id)'
      BY <2>1, <3>1 DEF ZeroTVL
    <3>3. ZeroTVL(id) /\ now > EpochBegin(id) => ZeroTVL(id)'
      BY <3>1 DEF ZeroTVL
    <3>4. QED
      BY <3>1, <3>2, <3>3, SidesAreVaults
  <2>3. EndStays(id)
    BY <2>1, <2>2 DEF GenericCanExecEnd
  <2>4. LiquidationStays(id)
    BY <2>1, <2>2, SidesAreVaults DEF CanExecLiquidation
  <2>5. NullStays(id)
    BY <2>1, <2>2 DEF GenericCanExecNullEpoch
  <2>6. QED
    BY <2>3, <2>4, <2>5
<1>4. GenericTypeOK /\ OpenBacked /\ [GenericNext]_gvars => [Good]_gvars
  BY <1>2, <1>3
<1>5. QED
  BY <1>1, <1>2, <1>4, PTL DEF GenericSpec, PollsStayGood
=============================================================================
