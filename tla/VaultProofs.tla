---------------------------- MODULE VaultProofs ----------------------------
(***************************************************************************)
(* What every operation of the vaults and every settlement preserves, and  *)
(* which step of the escrows of EpochEscrow each of them is.  The          *)
(* controllers' theorems combine these lemmas, one per action.             *)
(***************************************************************************)
EXTENDS EscrowRefinement, FiniteSums, TLAPS

-----------------------------------------------------------------------------
(* Arithmetic.                                                             *)

\* A rounded-down quotient is a natural number and never more than the
\* exact one.
LEMMA MulDivDownBound ==
    ASSUME NEW x \in Nat, NEW y \in Nat, NEW d \in Nat \ {0}
    PROVE  /\ MulDivDown(x, y, d) \in Nat
           /\ d * MulDivDown(x, y, d) <= x * y
<1> DEFINE p == x * y
<1>1. p \in Nat
  OBVIOUS
<1>2. \A q \in Nat : q \div d \in Nat /\ d * (q \div d) <= q
  BY SMT
<1>3. QED
  BY <1>1, <1>2 DEF MulDivDown

\* Paying s of T shares no more than s * c / f keeps the other T - s backed at
\* that price, and m more at 1.
LEMMA WithdrawalKeepsCover ==
    ASSUME NEW L \in Int, NEW q \in Nat, NEW f \in Nat, NEW T \in Int,
           NEW s \in Nat, NEW c \in Nat, NEW m \in Nat,
           L * f >= T * c + m * f, f * q <= s * c
    PROVE  (L - q) * f >= (T - s) * c + m * f
<1>1. (L - q) * f = L * f - f * q
  OBVIOUS
<1>2. (T - s) * c = T * c - s * c
  OBVIOUS
<1>3. /\ L * f \in Int /\ f * q \in Int /\ T * c \in Int
      /\ s * c \in Int /\ m * f \in Int
  OBVIOUS
<1>4. QED
  BY <1>1, <1>2, <1>3

\* An account that covers T shares at the price c / f and m at 1 covers the
\* value of the T rounded down, and the m, however many are missing.
LEMMA CoverIsOwed ==
    ASSUME NEW L \in Int, NEW f \in Nat \ {0}, NEW T \in Int, NEW c \in Nat,
           NEW m \in Nat, L * f >= T * c + m * f
    PROVE  /\ MulDivDown(T, c, f) \in Int
           /\ m + MulDivDown(T, c, f) <= L
<1> DEFINE p == T * c
<1>1. p \in Int
  OBVIOUS
<1>2. \A y \in Int : y \div f \in Int /\ f * (y \div f) <= y
  BY SMT
<1>3. PICK q \in Int : q = p \div f /\ f * q <= p
  BY <1>1, <1>2
<1>4. (L - m - q) * f >= 0
  <2>1. (L - m - q) * f = L * f - m * f - f * q
    OBVIOUS
  <2>2. L * f \in Int /\ m * f \in Int /\ f * q \in Int
    OBVIOUS
  <2>3. QED
    BY <2>1, <2>2, <1>1, <1>3
<1>5. L - m - q >= 0
  <2>1. ASSUME NEW x \in Int, x < 0
        PROVE  x * f < 0
    BY <2>1, SMT
  <2>2. QED
    BY <1>4, <2>1
<1>6. QED
  BY <1>3, <1>5 DEF MulDivDown

-----------------------------------------------------------------------------
(* Time, the factory and transfers leave the money where it is.            *)

\* The passing of time changes no account, and an epoch that had begun stays
\* begun.
LEMMA TickPreserves ==
    ASSUME VaultTypeOK, Tick
    PROVE  /\ VaultTypeOK'
           /\ OpenBacked => OpenBacked'
           /\ SettledCovered => SettledCovered'
<1> USE DEF Tick, factoryVars, settleVars, shareVars
<1>1. now' \in BlockTimes /\ now' > now
  OBVIOUS
<1>2. VaultTypeOK'
  BY <1>1 DEF VaultTypeOK
<1>3. OpenBacked => OpenBacked'
  BY DEF OpenBacked
<1>4. SettledCovered => SettledCovered'
  <2> SUFFICES ASSUME SettledCovered, NEW v \in Vaults, NEW id \in Epochs,
                      epochResolved[v][id]
               PROVE  now' >= EpochBegin(id)
    BY DEF SettledCovered
  <2>1. now >= EpochBegin(id)
    BY DEF SettledCovered
  <2>2. now \in Nat /\ now' \in Nat /\ EpochBegin(id) \in Nat
    BY <1>1, ConstantsAssumption DEF VaultTypeOK, EpochBegin
  <2>3. QED
    BY <1>1, <2>1, <2>2
<1>5. QED
  BY <1>2, <1>3, <1>4

\* None of the owner's operations touches the accounts of an epoch.
LEMMA FactoryPreserves ==
    ASSUME VaultTypeOK, FactoryNext
    PROVE  /\ VaultTypeOK'
           /\ OpenBacked => OpenBacked'
           /\ SettledCovered => SettledCovered'
<1> USE DEF factoryVars, settleVars, shareVars
<1> DEFINE EpochsStay == \A v \in Vaults, id \in Epochs :
                            epochExists[v][id] => epochExists'[v][id]
           FundsStay == UNCHANGED <<now, settleVars, shareVars, funds>>
<1>1. ASSUME NEW id \in Epochs, NEW fee \in WithdrawalFees, CreateEpoch(id, fee)
      PROVE  VaultTypeOK' /\ EpochsStay /\ FundsStay
  <2>1. fee \in Nat
    BY ConstantsAssumption
  <2>2. epochExists' \in PerEpoch(BOOLEAN) /\ epochFee' \in [Epochs -> Nat]
    BY <1>1, <2>1 DEF CreateEpoch, VaultTypeOK, PerEpoch
  <2>3. EpochsStay
    BY <1>1 DEF CreateEpoch, VaultTypeOK, PerEpoch
  <2>4. QED
    BY <1>1, <2>2, <2>3 DEF CreateEpoch, VaultTypeOK
<1>2. ASSUME PauseMarket
      PROVE  VaultTypeOK' /\ EpochsStay /\ FundsStay
  BY <1>2 DEF PauseMarket, VaultTypeOK
<1>3. ASSUME NEW t \in Treasuries, SetTreasury(t)
      PROVE  VaultTypeOK' /\ EpochsStay /\ FundsStay
  BY <1>3 DEF SetTreasury, VaultTypeOK
<1>4. ASSUME NEW a \in Treasuries, WhitelistAddressOnMarket(a)
      PROVE  VaultTypeOK' /\ EpochsStay /\ FundsStay
  BY <1>4 DEF WhitelistAddressOnMarket, VaultTypeOK
<1>5. ASSUME WhitelistController
      PROVE  VaultTypeOK' /\ EpochsStay /\ FundsStay
  BY <1>5 DEF WhitelistController, VaultTypeOK
<1>6. VaultTypeOK' /\ EpochsStay /\ FundsStay
  BY <1>1, <1>2, <1>3, <1>4, <1>5 DEF FactoryNext
<1>7. QED
  BY <1>6 DEF OpenBacked, SettledCovered

\* A transfer of shares moves no money and keeps the supply.
LEMMA TransferPreserves ==
    ASSUME VaultTypeOK,
           NEW v \in Vaults, NEW id \in Epochs, NEW from \in Users,
           NEW to \in Users, NEW amount \in Nat, NEW sender \in Users,
           SafeTransferFrom(v, id, from, to, amount, sender)
    PROVE  /\ VaultTypeOK'
           /\ OpenBacked => OpenBacked'
           /\ SettledCovered => SettledCovered'
<1> USE DEF factoryVars, settleVars
<1>1. UNCHANGED <<now, factoryVars, epochExists, epochFee, settleVars,
                  totalSupply, late, asset, funds>>
  BY DEF SafeTransferFrom
<1>2. balanceOf' \in PerEpoch([Users -> Nat])
  <2> DEFINE held == balanceOf[v][id]
  <2>1. held \in [Users -> Nat] /\ held[from] >= amount
    BY DEF VaultTypeOK, PerEpoch, SafeTransferFrom
  <2>2. MoveShares(held, from, to, amount) \in [Users -> Nat]
    BY <2>1 DEF MoveShares
  <2>3. balanceOf' = [balanceOf EXCEPT
                         ![v][id] = MoveShares(held, from, to, amount)]
    BY DEF SafeTransferFrom
  <2>4. QED
    BY <2>2, <2>3 DEF VaultTypeOK, PerEpoch
<1>3. VaultTypeOK'
  BY <1>1, <1>2 DEF VaultTypeOK
<1>4. QED
  BY <1>1, <1>3 DEF OpenBacked, SettledCovered

-----------------------------------------------------------------------------
(* Deposits and withdrawals.                                               *)

\* A deposit adds as much money as shares; those it adds to a settled epoch
\* are late, and one unit each is what their cover takes.
LEMMA TakeInPreserves ==
    ASSUME VaultTypeOK,
           NEW v \in Vaults, NEW id \in Epochs,
           NEW assets \in Nat, NEW receiver \in Users,
           TakeIn(v, id, assets, receiver)
    PROVE  /\ VaultTypeOK'
           /\ OpenBacked => OpenBacked'
           /\ SettledCovered => SettledCovered'
<1> USE DEF factoryVars, settleVars
<1>1. UNCHANGED <<now, factoryVars, epochExists, epochFee, settleVars>>
  BY DEF TakeIn
<1>2. /\ totalSupply' = [totalSupply EXCEPT ![v][id] = @ + assets]
      /\ funds' = [funds EXCEPT ![v][id] = @ + assets]
      /\ asset' = [asset EXCEPT ![v] = @ + assets]
      /\ balanceOf' = [balanceOf EXCEPT ![v][id][receiver] = @ + assets]
      /\ late' = IF epochResolved[v][id]
                 THEN [late EXCEPT ![v][id] = @ + assets] ELSE late
  BY DEF TakeIn, Mint
<1>3. VaultTypeOK'
  <2>1. totalSupply' \in PerEpoch(Nat) /\ late' \in PerEpoch(Nat)
    BY <1>2 DEF VaultTypeOK, PerEpoch
  <2>2. funds' \in PerEpoch(Int)
    BY <1>2 DEF VaultTypeOK, PerEpoch
  <2>3. asset' \in [Vaults -> Nat]
    BY <1>2 DEF VaultTypeOK
  <2>4. balanceOf' \in PerEpoch([Users -> Nat])
    BY <1>2 DEF VaultTypeOK, PerEpoch
  <2>5. QED
    BY <1>1, <2>1, <2>2, <2>3, <2>4 DEF VaultTypeOK
<1>4. \A w \in Vaults, e \in Epochs : <<w, e>> # <<v, id>> =>
          /\ totalSupply'[w][e] = totalSupply[w][e]
          /\ funds'[w][e] = funds[w][e]
          /\ late'[w][e] = late[w][e]
  BY <1>2 DEF VaultTypeOK, PerEpoch
<1>5. /\ totalSupply'[v][id] = totalSupply[v][id] + assets
      /\ funds'[v][id] = funds[v][id] + assets
      /\ late'[v][id] = late[v][id] + (IF epochResolved[v][id] THEN assets ELSE 0)
  BY <1>2 DEF VaultTypeOK, PerEpoch
<1>6. OpenBacked => OpenBacked'
  <2>1. /\ totalSupply[v][id] \in Nat /\ late[v][id] \in Nat
    BY DEF VaultTypeOK, PerEpoch
  <2>2. QED
    BY <1>1, <1>4, <1>5, <2>1 DEF OpenBacked
<1>7. SettledCovered => SettledCovered'
  <2> SUFFICES ASSUME SettledCovered, epochResolved[v][id]
               PROVE  /\ totalSupply'[v][id] - late'[v][id] <= finalTVL[v][id]
                      /\ funds'[v][id] * finalTVL[v][id] >=
                            (totalSupply'[v][id] - late'[v][id]) * claimTVL[v][id]
                                + late'[v][id] * finalTVL[v][id]
                      /\ finalTVL[v][id] = 0 => funds'[v][id] >= totalSupply'[v][id]
    BY <1>1, <1>4 DEF SettledCovered
  <2>1. /\ totalSupply[v][id] - late[v][id] <= finalTVL[v][id]
        /\ funds[v][id] * finalTVL[v][id] >=
              (totalSupply[v][id] - late[v][id]) * claimTVL[v][id]
                  + late[v][id] * finalTVL[v][id]
        /\ finalTVL[v][id] = 0 => funds[v][id] >= totalSupply[v][id]
    BY DEF SettledCovered
  <2>2. /\ totalSupply[v][id] \in Nat /\ late[v][id] \in Nat
        /\ funds[v][id] \in Int /\ finalTVL[v][id] \in Nat
        /\ claimTVL[v][id] \in Nat
    BY DEF VaultTypeOK, PerEpoch
  <2>3. totalSupply'[v][id] - late'[v][id] = totalSupply[v][id] - late[v][id]
    BY <1>5, <2>2
  <2>4. (funds[v][id] + assets) * finalTVL[v][id] >=
            (totalSupply[v][id] - late[v][id]) * claimTVL[v][id]
                + (late[v][id] + assets) * finalTVL[v][id]
    <3>1. ASSUME NEW L \in Int, NEW f \in Nat, NEW x \in Int, NEW m \in Nat,
                 L * f >= x + m * f
          PROVE  (L + assets) * f >= x + (m + assets) * f
      <4>1. /\ (L + assets) * f = L * f + assets * f
            /\ (m + assets) * f = m * f + assets * f
        OBVIOUS
      <4>2. L * f \in Int /\ m * f \in Int /\ assets * f \in Int
        OBVIOUS
      <4>3. QED
        BY <3>1, <4>1, <4>2
    <3>2. (totalSupply[v][id] - late[v][id]) * claimTVL[v][id] \in Int
      BY <2>2
    <3>3. QED
      BY <3>1, <3>2, <2>1, <2>2
  <2>5. QED
    BY <1>5, <2>1, <2>2, <2>3, <2>4
<1>8. QED
  BY <1>3, <1>6, <1>7

\* A withdrawal pays at most the pro-rata value of the shares it burns.
LEMMA WithdrawPreserves ==
    ASSUME VaultTypeOK,
           NEW v \in Vaults, NEW id \in Epochs, NEW shares \in Nat,
           NEW receiver, NEW owner \in Users, NEW sender \in Users,
           Withdraw(v, id, shares, receiver, owner, sender)
    PROVE  /\ VaultTypeOK'
           /\ OpenBacked => OpenBacked'
           /\ SettledCovered => SettledCovered'
<1> USE DEF factoryVars, settleVars
<1> DEFINE assets == IF epochNull[v][id] THEN shares
                                         ELSE PreviewWithdraw(v, id, shares)
<1>1. UNCHANGED <<now, factoryVars, epochExists, epochFee, settleVars, late>>
  BY DEF Withdraw
<1>2. /\ totalSupply' = [totalSupply EXCEPT ![v][id] = @ - shares]
      /\ balanceOf' = [balanceOf EXCEPT ![v][id][owner] = @ - shares]
      /\ totalSupply[v][id] >= shares
      /\ balanceOf[v][id][owner] >= shares
  BY DEF Withdraw, Burn
<1>3. /\ asset' = Sent(v, receiver, assets)
      /\ funds' = [funds EXCEPT ![v][id] = @ - assets]
      /\ assets <= asset[v]
  BY DEF Withdraw
<1>4. epochResolved[v][id]
  BY DEF Withdraw, EpochHasEnded
<1>5. /\ totalSupply[v][id] \in Nat /\ finalTVL[v][id] \in Nat
      /\ claimTVL[v][id] \in Nat /\ funds[v][id] \in Int
      /\ late[v][id] \in Nat
      /\ asset[v] \in Nat /\ balanceOf[v][id][owner] \in Nat
  BY DEF VaultTypeOK, PerEpoch
<1>6. epochNull[v][id] \/ finalTVL[v][id] \in Nat \ {0}
  BY <1>5 DEF Withdraw
<1>7. assets \in Nat
  <2>1. CASE epochNull[v][id]
    BY <2>1
  <2>2. CASE ~epochNull[v][id]
    BY <2>2, <1>5, <1>6, MulDivDownBound DEF PreviewWithdraw
  <2>3. QED
    BY <2>1, <2>2
<1> HIDE DEF assets
<1>8. VaultTypeOK'
  <2>1. totalSupply' \in PerEpoch(Nat)
    BY <1>2, <1>5 DEF VaultTypeOK, PerEpoch
  <2>2. funds' \in PerEpoch(Int)
    BY <1>3, <1>5, <1>7 DEF VaultTypeOK, PerEpoch
  <2>3. asset' \in [Vaults -> Nat]
    BY <1>3, <1>5, <1>7 DEF VaultTypeOK, Sent
  <2>4. balanceOf' \in PerEpoch([Users -> Nat])
    BY <1>2, <1>5 DEF VaultTypeOK, PerEpoch
  <2>5. QED
    BY <1>1, <2>1, <2>2, <2>3, <2>4 DEF VaultTypeOK
<1>9. \A w \in Vaults, e \in Epochs : <<w, e>> # <<v, id>> =>
          totalSupply'[w][e] = totalSupply[w][e] /\ funds'[w][e] = funds[w][e]
  BY <1>2, <1>3 DEF VaultTypeOK, PerEpoch
<1>10. OpenBacked => OpenBacked'
  BY <1>1, <1>4, <1>9 DEF OpenBacked
<1>11. SettledCovered => SettledCovered'
  <2> SUFFICES ASSUME SettledCovered
               PROVE  /\ totalSupply'[v][id] - late[v][id] <= finalTVL[v][id]
                      /\ funds'[v][id] * finalTVL[v][id] >=
                            (totalSupply'[v][id] - late[v][id]) * claimTVL[v][id]
                                + late[v][id] * finalTVL[v][id]
                      /\ finalTVL[v][id] = 0 => funds'[v][id] >= totalSupply'[v][id]
    BY <1>1, <1>9 DEF SettledCovered
  <2>1. /\ totalSupply[v][id] - late[v][id] <= finalTVL[v][id]
        /\ funds[v][id] * finalTVL[v][id] >=
              (totalSupply[v][id] - late[v][id]) * claimTVL[v][id]
                  + late[v][id] * finalTVL[v][id]
        /\ epochNull[v][id] => claimTVL[v][id] = finalTVL[v][id]
        /\ finalTVL[v][id] = 0 => funds[v][id] >= totalSupply[v][id]
    BY <1>4 DEF SettledCovered
  <2>2. /\ totalSupply'[v][id] = totalSupply[v][id] - shares
        /\ funds'[v][id] = funds[v][id] - assets
    BY <1>2, <1>3 DEF VaultTypeOK, PerEpoch
  <2>3. totalSupply'[v][id] - late[v][id] <= finalTVL[v][id]
    BY <1>5, <2>1, <2>2
  \* Without a final TVL only a null epoch pays.
  <2>4. finalTVL[v][id] = 0 => assets = shares
    BY <1>6 DEF assets
  <2>5. finalTVL[v][id] * assets <= shares * claimTVL[v][id]
    <3>1. CASE epochNull[v][id]
      BY <3>1, <2>1, <1>5 DEF assets
    <3>2. CASE ~epochNull[v][id]
      BY <3>2, <1>5, <1>6, MulDivDownBound DEF assets, PreviewWithdraw
    <3>3. QED
      BY <3>1, <3>2
  <2>6. (funds[v][id] - assets) * finalTVL[v][id] >=
            (totalSupply[v][id] - late[v][id] - shares) * claimTVL[v][id]
                + late[v][id] * finalTVL[v][id]
    BY <1>5, <1>7, <2>1, <2>5, WithdrawalKeepsCover
  <2>7. totalSupply'[v][id] - late[v][id] = totalSupply[v][id] - late[v][id] - shares
    BY <2>2, <1>5
  <2>8. QED
    BY <2>1, <2>2, <2>3, <2>4, <2>6, <2>7, <1>5, <1>7
<1>12. QED
  BY <1>8, <1>10, <1>11

\* Whatever users do keeps every epoch backed.
LEMMA UserPreserves ==
    ASSUME VaultTypeOK, UserNext
    PROVE  /\ VaultTypeOK'
           /\ OpenBacked => OpenBacked'
           /\ SettledCovered => SettledCovered'
<1>1. PICK v \in Vaults, id \in Epochs, amount \in Amounts, u \in Users :
          \/ TakeIn(v, id, amount, u)
          \/ \E receiver \in Receivers, sender \in Users :
                Withdraw(v, id, amount, receiver, u, sender)
          \/ \E to, sender \in Users :
                SafeTransferFrom(v, id, u, to, amount, sender)
  BY DEF UserNext, Deposit, DepositETH
<1>2. amount \in Nat
  BY ConstantsAssumption
<1>3. QED
  BY <1>1, <1>2, TakeInPreserves, WithdrawPreserves, TransferPreserves

-----------------------------------------------------------------------------
(* Settlements.                                                            *)

\* The step settles the epoch id with the claims, and no other.
SettledAs(id, claim) ==
    \A v \in Vaults, e \in Epochs :
        IF e = id
        THEN /\ epochResolved'[v][e]
             /\ finalTVL'[v][e] = totalSupply[v][e]
             /\ claimTVL'[v][e] = claim[v]
             /\ funds'[v][e] = claim[v]
        ELSE /\ epochResolved'[v][e] = epochResolved[v][e]
             /\ finalTVL'[v][e] = finalTVL[v][e]
             /\ claimTVL'[v][e] = claimTVL[v][e]
             /\ funds'[v][e] = funds[v][e]

\* A settlement that leaves each vault with the claim it stores, and that
\* marks a vault null only when it refunds it, preserves the invariants.
LEMMA SettlementPreserves ==
    ASSUME VaultTypeOK, OpenBacked,
           NEW id \in Epochs, NEW claim \in [Vaults -> Nat],
           ResolveEpoch(id), SetClaimTVL(id, claim),
           UNCHANGED settleUnchanged,
           epochAccounting' \in PerEpoch(Nat),
           asset' \in [Vaults -> Nat],
           funds' = [v \in Vaults |-> [funds[v] EXCEPT ![id] = claim[v]]],
           epochNull' \in PerEpoch(BOOLEAN),
           \A v \in Vaults, e \in Epochs : epochNull'[v][e] =>
               epochNull[v][e] \/ (e = id /\ claim[v] = totalSupply[v][e])
    PROVE  /\ VaultTypeOK' /\ OpenBacked'
           /\ SettledCovered => SettledCovered'
           /\ SettledAs(id, claim)
<1> USE DEF settleUnchanged, factoryVars, shareVars
<1>1. /\ epochResolved' =
            [v \in Vaults |-> [epochResolved[v] EXCEPT ![id] = TRUE]]
      /\ finalTVL' =
            [v \in Vaults |-> [finalTVL[v] EXCEPT ![id] = totalSupply[v][id]]]
      /\ claimTVL' = [v \in Vaults |-> [claimTVL[v] EXCEPT ![id] = claim[v]]]
      /\ \A v \in Vaults : ~epochResolved[v][id]
  BY DEF ResolveEpoch, SetClaimTVL
<1>2. VaultTypeOK'
  <2>1. /\ epochResolved' \in PerEpoch(BOOLEAN)
        /\ finalTVL' \in PerEpoch(Nat)
        /\ claimTVL' \in PerEpoch(Nat)
        /\ funds' \in PerEpoch(Int)
    BY <1>1 DEF VaultTypeOK, PerEpoch
  <2>2. QED
    BY <2>1 DEF VaultTypeOK
<1>3. \A v \in Vaults, e \in Epochs : e # id =>
          /\ epochResolved'[v][e] = epochResolved[v][e]
          /\ finalTVL'[v][e] = finalTVL[v][e]
          /\ claimTVL'[v][e] = claimTVL[v][e]
          /\ funds'[v][e] = funds[v][e]
  BY <1>1 DEF VaultTypeOK, PerEpoch
<1>4. \A v \in Vaults :
          /\ epochResolved'[v][id] = TRUE
          /\ finalTVL'[v][id] = totalSupply[v][id]
          /\ claimTVL'[v][id] = claim[v]
          /\ funds'[v][id] = claim[v]
          /\ claim[v] \in Nat /\ totalSupply[v][id] \in Nat
  BY <1>1 DEF VaultTypeOK, PerEpoch
<1>5. OpenBacked'
  BY <1>3, <1>4 DEF OpenBacked
<1>6. ASSUME SettledCovered
      PROVE  SettledCovered'
  <2> SUFFICES ASSUME NEW v \in Vaults, NEW e \in Epochs, epochResolved'[v][e]
               PROVE  /\ epochExists'[v][e]
                      /\ now' >= EpochBegin(e)
                      /\ totalSupply'[v][e] - late'[v][e] <= finalTVL'[v][e]
                      /\ funds'[v][e] * finalTVL'[v][e] >=
                            (totalSupply'[v][e] - late'[v][e]) * claimTVL'[v][e]
                                + late'[v][e] * finalTVL'[v][e]
                      /\ epochNull'[v][e] => claimTVL'[v][e] = finalTVL'[v][e]
                      /\ finalTVL'[v][e] = 0 => funds'[v][e] >= totalSupply'[v][e]
    BY DEF SettledCovered
  <2>1. totalSupply' = totalSupply /\ late' = late /\ now' = now
        /\ epochExists' = epochExists
    OBVIOUS
  <2>2. CASE e = id
    \* Nothing is minted late before the settlement.
    <3>1. ~epochNull[v][e] /\ late[v][e] = 0
      BY <2>2, <1>1 DEF OpenBacked
    <3>2. /\ totalSupply'[v][e] - late'[v][e] = totalSupply[v][e]
          /\ late'[v][e] * finalTVL'[v][e] = 0
      BY <2>1, <2>2, <3>1, <1>4
    <3>3. funds'[v][e] * finalTVL'[v][e] = totalSupply[v][e] * claimTVL'[v][e]
      BY <2>2, <1>4
    <3>4. totalSupply[v][e] * claimTVL'[v][e] \in Int
      BY <2>2, <1>4
    <3>5. epochNull'[v][e] => claimTVL'[v][e] = finalTVL'[v][e]
      BY <2>2, <3>1, <1>4
    <3>6. epochExists'[v][e] /\ now' >= EpochBegin(e)
      BY <2>1, <2>2 DEF ResolveEpoch, EpochHasStarted
    <3>7. finalTVL'[v][e] = 0 => funds'[v][e] >= totalSupply'[v][e]
      BY <2>1, <2>2, <1>4
    <3>8. totalSupply'[v][e] - late'[v][e] <= finalTVL'[v][e]
      BY <2>2, <3>2, <1>4
    <3>9. QED
      BY <3>2, <3>3, <3>4, <3>5, <3>6, <3>7, <3>8
  <2>3. CASE e # id
    <3>1. epochNull'[v][e] => epochNull[v][e]
      BY <2>3
    <3>2. epochResolved[v][e]
      BY <2>3, <1>3
    <3>3. QED
      BY <2>1, <2>3, <3>1, <3>2, <1>3, <1>6 DEF SettledCovered
  <2>4. QED
    BY <2>2, <2>3
<1>7. SettledAs(id, claim)
  BY <1>3, <1>4 DEF SettledAs
<1>8. QED
  BY <1>2, <1>5, <1>6, <1>7

\* A fee is a natural number, so that is what is left after subtracting it.
LEMMA FeeType ==
    ASSUME VaultTypeOK, NEW v \in Vaults, NEW id \in Epochs
    PROVE  /\ totalSupply[v][id] \in Nat
           /\ Fee(v, id) \in Nat
           /\ Fee(v, id) <= totalSupply[v][id] => TVLAfterFee(v, id) \in Nat
<1>1. totalSupply[v][id] \in Nat /\ epochFee[id] \in Nat
  BY DEF VaultTypeOK, PerEpoch
<1>2. Fee(v, id) \in Nat
  <2>1. BPS \in Nat \ {0}
    BY DEF BPS
  <2>2. QED
    BY <1>1, <2>1, MulDivDownBound DEF Fee, CalculateWithdrawalFeeValue
<1>3. QED
  BY <1>1, <1>2 DEF TVLAfterFee

\* When a vault's sends add up to what it held, sendTokens leaves it with
\* what its counterparty sent.
LEMMA SendTokensEffect ==
    ASSUME VaultTypeOK, NEW id \in Epochs, NEW receiver,
           NEW fee \in [Vaults -> Nat], NEW out \in [Vaults -> Nat],
           SendTokens(id, fee, out, receiver)
    PROVE  /\ epochAccounting' \in PerEpoch(Nat)
           /\ asset' \in [Vaults -> Nat]
           /\ funds' = [v \in Vaults |-> [funds[v] EXCEPT ![id] =
                  funds[v][id] - fee[v] - out[v] + out[CounterPartyVault(v)]]]
<1>1. epochAccounting' \in PerEpoch(Nat)
  BY DEF SendTokens, VaultTypeOK, PerEpoch
<1>2. asset' \in [Vaults -> Nat]
  <2>1. /\ asset[Premium] \in Nat /\ asset[Collateral] \in Nat
        /\ fee[Premium] \in Nat /\ fee[Collateral] \in Nat
        /\ out[Premium] \in Nat /\ out[Collateral] \in Nat
    BY DEF VaultTypeOK, Vaults
  <2>2. \A v \in Vaults :
            asset[v] - fee[v] - out[v] + out[CounterPartyVault(v)] \in Nat
    BY <2>1 DEF SendTokens, Vaults, CounterPartyVault, Premium, Collateral
  <2>3. QED
    BY <2>2 DEF SendTokens
<1>3. QED
  BY <1>1, <1>2 DEF SendTokens, VaultTypeOK, PerEpoch

\* A swap of the two TVLs, as triggerDepeg and triggerLiquidation do it,
\* leaves each vault with exactly its claim and preserves the invariants.
LEMMA SettleDepegPreserves ==
    ASSUME VaultTypeOK, OpenBacked, NEW id \in Epochs, NEW receiver,
           SettleDepeg(id, receiver)
    PROVE  /\ VaultTypeOK' /\ OpenBacked'
           /\ SettledCovered => SettledCovered'
           /\ SettledAs(id, DepegClaim(id))
<1> DEFINE fee == [v \in Vaults |-> Fee(v, id)]
           out == [v \in Vaults |-> TVLAfterFee(v, id)]
<1>1. \A v \in Vaults : CounterPartyVault(v) \in Vaults
  BY DEF CounterPartyVault, Vaults
<1>2. \A v \in Vaults : Fee(v, id) \in Nat /\ TVLAfterFee(v, id) \in Nat
  BY FeeType DEF SettleDepeg
<1>3. DepegClaim(id) \in [Vaults -> Nat]
  BY <1>1, <1>2 DEF DepegClaim
<1>4. fee \in [Vaults -> Nat] /\ out \in [Vaults -> Nat]
  BY <1>2
<1>5. SendTokens(id, fee, out, receiver)
  BY DEF SettleDepeg
<1> HIDE DEF fee, out
<1>6. /\ epochAccounting' \in PerEpoch(Nat)
      /\ asset' \in [Vaults -> Nat]
      /\ funds' = [v \in Vaults |-> [funds[v] EXCEPT ![id] =
             funds[v][id] - fee[v] - out[v] + out[CounterPartyVault(v)]]]
  BY <1>4, <1>5, SendTokensEffect
<1>7. \A v \in Vaults :
          funds[v][id] - fee[v] - out[v] + out[CounterPartyVault(v)]
              = DepegClaim(id)[v]
  <2> SUFFICES ASSUME NEW v \in Vaults
               PROVE  funds[v][id] - fee[v] - out[v]
                          + out[CounterPartyVault(v)] = DepegClaim(id)[v]
    OBVIOUS
  <2>1. funds[v][id] = totalSupply[v][id]
    BY DEF OpenBacked, SettleDepeg, ResolveEpoch
  <2>2. totalSupply[v][id] \in Nat
    BY FeeType
  <2>3. funds[v][id] - fee[v] - out[v] = 0
    BY <1>2, <2>1, <2>2 DEF fee, out, TVLAfterFee
  <2>4. out[CounterPartyVault(v)] = DepegClaim(id)[v]
    BY <1>1 DEF out, DepegClaim
  <2>5. out[CounterPartyVault(v)] \in Nat
    BY <1>1, <1>4
  <2>6. QED
    BY <2>3, <2>4, <2>5
<1>8. funds' = [v \in Vaults |-> [funds[v] EXCEPT ![id] = DepegClaim(id)[v]]]
  BY <1>6, <1>7
<1>9. /\ ResolveEpoch(id)
      /\ SetClaimTVL(id, DepegClaim(id))
      /\ UNCHANGED <<settleUnchanged, epochNull>>
  BY DEF SettleDepeg
<1>10. epochNull' \in PerEpoch(BOOLEAN)
  BY <1>9 DEF VaultTypeOK
<1>11. QED
  BY <1>3, <1>6, <1>8, <1>9, <1>10, SettlementPreserves

\* The end of an epoch hands the premium over to the collateral vault, leaves
\* each vault with exactly its claim and preserves the invariants.
LEMMA SettleEndPreserves ==
    ASSUME VaultTypeOK, OpenBacked, NEW id \in Epochs, NEW receiver,
           SettleEnd(id, receiver)
    PROVE  /\ VaultTypeOK' /\ OpenBacked'
           /\ SettledCovered => SettledCovered'
           /\ SettledAs(id, EndClaim(id))
<1> DEFINE fee == [v \in Vaults |-> IF v = Premium THEN Fee(v, id) ELSE 0]
           out == [v \in Vaults |-> IF v = Premium THEN TVLAfterFee(v, id)
                                                   ELSE 0]
<1>1. /\ Premium \in Vaults /\ Collateral \in Vaults /\ Premium # Collateral
      /\ CounterPartyVault(Premium) = Collateral
      /\ CounterPartyVault(Collateral) = Premium
      /\ \A v \in Vaults : v = Premium \/ v = Collateral
  BY DEF CounterPartyVault, Vaults, Premium, Collateral
<1>2. /\ Fee(Premium, id) \in Nat /\ TVLAfterFee(Premium, id) \in Nat
      /\ \A v \in Vaults : totalSupply[v][id] \in Nat
  BY <1>1, FeeType DEF SettleEnd
<1>3. EndClaim(id) \in [Vaults -> Nat]
  BY <1>1, <1>2 DEF EndClaim
<1>4. fee \in [Vaults -> Nat] /\ out \in [Vaults -> Nat]
  BY <1>2
<1>5. SendTokens(id, fee, out, receiver)
  BY DEF SettleEnd
<1>6. /\ fee[Premium] = Fee(Premium, id) /\ fee[Collateral] = 0
      /\ out[Premium] = TVLAfterFee(Premium, id) /\ out[Collateral] = 0
      /\ EndClaim(id)[Premium] = 0
      /\ EndClaim(id)[Collateral] =
            totalSupply[Collateral][id] + TVLAfterFee(Premium, id)
  BY <1>1 DEF EndClaim
<1> HIDE DEF fee, out
<1>7. /\ epochAccounting' \in PerEpoch(Nat)
      /\ asset' \in [Vaults -> Nat]
      /\ funds' = [v \in Vaults |-> [funds[v] EXCEPT ![id] =
             funds[v][id] - fee[v] - out[v] + out[CounterPartyVault(v)]]]
  BY <1>4, <1>5, SendTokensEffect
<1>8. \A v \in Vaults : funds[v][id] = totalSupply[v][id]
  BY DEF OpenBacked, SettleEnd, ResolveEpoch
<1>9. funds[Premium][id] - fee[Premium] - out[Premium] + out[Collateral]
          = EndClaim(id)[Premium]
  BY <1>1, <1>2, <1>6, <1>8 DEF TVLAfterFee
<1>10. funds[Collateral][id] - fee[Collateral] - out[Collateral] + out[Premium]
          = EndClaim(id)[Collateral]
  BY <1>1, <1>2, <1>6, <1>8
<1>11. funds' = [v \in Vaults |-> [funds[v] EXCEPT ![id] = EndClaim(id)[v]]]
  BY <1>1, <1>7, <1>9, <1>10
<1>12. /\ ResolveEpoch(id)
       /\ SetClaimTVL(id, EndClaim(id))
       /\ UNCHANGED <<settleUnchanged, epochNull>>
  BY DEF SettleEnd
<1>13. epochNull' \in PerEpoch(BOOLEAN)
  BY <1>12 DEF VaultTypeOK
<1>14. QED
  BY <1>3, <1>7, <1>11, <1>12, <1>13, SettlementPreserves

\* The empty side's claim of 0 is its TVL, so both vaults keep their money.
LEMMA SettleNullPreserves ==
    ASSUME VaultTypeOK, OpenBacked, NEW id \in Epochs, SettleNull(id)
    PROVE  /\ VaultTypeOK' /\ OpenBacked'
           /\ SettledCovered => SettledCovered'
           /\ SettledAs(id, [v \in Vaults |-> totalSupply[v][id]])
<1> DEFINE claim == [v \in Vaults |-> totalSupply[v][id]]
<1>1. claim \in [Vaults -> Nat]
  BY DEF VaultTypeOK, PerEpoch
<1>2. claim = [v \in Vaults |-> IF v = NullSide(id)
                                 THEN totalSupply[v][id] ELSE 0]
  BY DEF SettleNull, ZeroTVL, NullSide, Vaults, Premium, Collateral
<1>3. ResolveEpoch(id) /\ SetClaimTVL(id, claim) /\ UNCHANGED settleUnchanged
  BY <1>2 DEF SettleNull
<1>4. /\ epochAccounting' \in PerEpoch(Nat)
      /\ asset' \in [Vaults -> Nat]
      /\ funds' = funds
  BY DEF SettleNull, NoTokensSent, VaultTypeOK
<1>5. funds' = [v \in Vaults |-> [funds[v] EXCEPT ![id] = claim[v]]]
  <2>1. \A v \in Vaults : funds[v][id] = claim[v]
    BY DEF OpenBacked, SettleNull, ResolveEpoch
  <2>2. funds \in PerEpoch(Int)
    BY DEF VaultTypeOK
  <2>3. QED
    BY <2>1, <2>2, <1>4 DEF PerEpoch
<1>6. epochNull' = [epochNull EXCEPT ![NullSide(id)][id] = TRUE]
  BY DEF SettleNull, SetEpochNull
<1>7. epochNull' \in PerEpoch(BOOLEAN)
  BY <1>6 DEF VaultTypeOK, PerEpoch
<1>8. \A v \in Vaults, e \in Epochs : epochNull'[v][e] =>
          epochNull[v][e] \/ (e = id /\ claim[v] = totalSupply[v][e])
  BY <1>6 DEF VaultTypeOK, PerEpoch
<1> HIDE DEF claim
<1>9. /\ VaultTypeOK' /\ OpenBacked'
      /\ SettledCovered => SettledCovered'
      /\ SettledAs(id, claim)
  BY <1>1, <1>3, <1>4, <1>5, <1>7, <1>8, SettlementPreserves
<1>10. QED
  BY <1>9 DEF claim

-----------------------------------------------------------------------------
(* What the controllers' theorems need besides the lemmas on actions.      *)

\* A freshly deployed pair of vaults satisfies the invariants.
LEMMA InitEstablishes ==
    VaultInit => VaultTypeOK /\ OpenBacked /\ SettledCovered
<1> SUFFICES ASSUME VaultInit
             PROVE  VaultTypeOK /\ OpenBacked /\ SettledCovered
  OBVIOUS
<1>1. VaultTypeOK
  <2>1. /\ epochExists \in PerEpoch(BOOLEAN)
        /\ epochResolved \in PerEpoch(BOOLEAN)
        /\ epochNull \in PerEpoch(BOOLEAN)
    BY DEF VaultInit, PerEpoch
  <2>2. /\ finalTVL \in PerEpoch(Nat) /\ claimTVL \in PerEpoch(Nat)
        /\ epochAccounting \in PerEpoch(Nat)
        /\ totalSupply \in PerEpoch(Nat)
        /\ funds \in PerEpoch(Int) /\ late \in PerEpoch(Nat)
    BY DEF VaultInit, PerEpoch
  <2>3. balanceOf \in PerEpoch([Users -> Nat])
    BY DEF VaultInit, PerEpoch
  <2>4. asset \in [Vaults -> Nat] /\ epochFee \in [Epochs -> Nat]
    BY DEF VaultInit
  <2>5. /\ now \in BlockTimes /\ paused \in BOOLEAN
        /\ treasury \in Treasuries /\ controllerListed \in BOOLEAN
        /\ whitelistedAddresses \subseteq Treasuries
    BY DEF VaultInit
  <2>6. QED
    BY <2>1, <2>2, <2>3, <2>4, <2>5 DEF VaultTypeOK
<1>2. \A v \in Vaults, id \in Epochs :
          /\ epochResolved[v][id] = FALSE
          /\ epochNull[v][id] = FALSE
          /\ funds[v][id] = totalSupply[v][id]
          /\ late[v][id] = 0
  BY DEF VaultInit
<1>3. QED
  BY <1>1, <1>2 DEF OpenBacked, SettledCovered

\* Users, the factory and time change nothing a settlement has decided.
LEMMA OnlySettlementsSettle ==
    ASSUME Tick \/ UserNext \/ FactoryNext
    PROVE  UNCHANGED <<epochResolved, finalTVL, claimTVL>>
<1> USE DEF settleVars
<1>1. Tick => UNCHANGED settleVars
  BY DEF Tick
<1>2. UserNext => UNCHANGED settleVars
  BY DEF UserNext, Deposit, DepositETH, TakeIn, Withdraw, SafeTransferFrom
<1>3. FactoryNext => UNCHANGED settleVars
  BY DEF FactoryNext, CreateEpoch, PauseMarket, SetTreasury,
         WhitelistController, WhitelistAddressOnMarket
<1>4. QED
  BY <1>1, <1>2, <1>3

\* What covers S shares at the price of one unit each is at least S.
LEMMA UnitCover ==
    ASSUME NEW L \in Int, NEW S \in Int, NEW m \in Int, NEW f \in Nat \ {0},
           L * f >= (S - m) * f + m * f
    PROVE  L >= S
<1>1. (L - S) * f >= 0
  <2>1. /\ (L - S) * f = L * f - S * f
        /\ (S - m) * f + m * f = S * f
    OBVIOUS
  <2>2. L * f \in Int /\ S * f \in Int
    OBVIOUS
  <2>3. QED
    BY <2>1, <2>2
<1>2. ASSUME NEW x \in Int, x < 0
      PROVE  x * f < 0
  BY <1>2, SMT
<1>3. L - S >= 0
  BY <1>1, <1>2
<1>4. QED
  BY <1>3

\* The inductive invariant implies that an epoch is backed.
LEMMA InvariantCoversEpoch ==
    ASSUME OpenBacked, SettledCovered, VaultTypeOK,
           NEW v \in Vaults, NEW id \in Epochs
    PROVE  EpochCovered(v, id)
<1>1. CASE ~epochResolved[v][id]
  BY <1>1 DEF OpenBacked, EpochCovered
<1>2. CASE epochResolved[v][id]
  <2>1. /\ funds[v][id] * finalTVL[v][id] >=
              (totalSupply[v][id] - late[v][id]) * claimTVL[v][id]
                  + late[v][id] * finalTVL[v][id]
        /\ epochNull[v][id] => claimTVL[v][id] = finalTVL[v][id]
        /\ finalTVL[v][id] = 0 => funds[v][id] >= totalSupply[v][id]
    BY <1>2 DEF SettledCovered
  <2>2. /\ totalSupply[v][id] \in Nat /\ finalTVL[v][id] \in Nat
        /\ late[v][id] \in Nat /\ funds[v][id] \in Int
    BY DEF VaultTypeOK, PerEpoch
  <2>3. epochNull[v][id] => funds[v][id] >= totalSupply[v][id]
    BY <2>1, <2>2, UnitCover
  <2>4. QED
    BY <1>2, <2>1, <2>3 DEF EpochCovered
<1>3. QED
  BY <1>1, <1>2

\* So every epoch is, and no more shares are outstanding than were settled,
\* but for the late ones.
LEMMA InvariantCovers ==
    OpenBacked /\ SettledCovered /\ VaultTypeOK =>
        FundsCoverClaims /\ ResolvedSupplyBounded
  BY InvariantCoversEpoch
     DEF SettledCovered, FundsCoverClaims, ResolvedSupplyBounded

\* Shares are minted late by deposits alone, which refuse all but the second
\* of the begin once an epoch is settled.
LEMMA UsersMintLateAtBegin ==
    ASSUME VaultTypeOK, SettledCovered, UserNext,
           NEW v \in Vaults, NEW id \in Epochs, late'[v][id] # late[v][id]
    PROVE  epochResolved[v][id] /\ now = EpochBegin(id)
<1>1. PICK w \in Vaults, e \in Epochs, amount \in Amounts, u \in Users :
          TakeIn(w, e, amount, u)
  BY DEF UserNext, Deposit, DepositETH, Withdraw, SafeTransferFrom
<1>2. w = v /\ e = id /\ epochResolved[v][id]
  BY <1>1 DEF TakeIn, VaultTypeOK, PerEpoch
<1>3. now <= EpochBegin(id) /\ now >= EpochBegin(id)
  BY <1>1, <1>2 DEF TakeIn, EpochHasNotStarted, SettledCovered
<1>4. now \in Nat /\ EpochBegin(id) \in Nat
  BY ConstantsAssumption DEF VaultTypeOK, EpochBegin
<1>5. \A m, n \in Nat : m <= n /\ m >= n => m = n
  OBVIOUS
<1>6. QED
  BY <1>2, <1>3, <1>4, <1>5

\* An epoch no block of which is at its begin has no late shares.
LEMMA UsersKeepUndilutedApart ==
    ASSUME VaultTypeOK, VaultTypeOK', SettledCovered, SettledCovered',
           UndilutedApart, UserNext
    PROVE  UndilutedApart'
<1> SUFFICES ASSUME NEW v \in Vaults, NEW id \in Epochs, BeginsBetweenBlocks(id)
             PROVE  /\ late'[v][id] = 0
                    /\ epochResolved'[v][id] => totalSupply'[v][id] <= finalTVL'[v][id]
  BY DEF UndilutedApart, BeginsBetweenBlocks
<1>1. late[v][id] = 0
  BY DEF UndilutedApart
<1>2. now # EpochBegin(id)
  BY DEF BeginsBetweenBlocks, VaultTypeOK
<1>3. late'[v][id] = 0
  BY <1>1, <1>2, UsersMintLateAtBegin
<1>4. totalSupply'[v][id] \in Nat
  BY DEF VaultTypeOK, PerEpoch
<1>5. epochResolved'[v][id] => totalSupply'[v][id] - late'[v][id] <= finalTVL'[v][id]
  BY DEF SettledCovered
<1>6. QED
  BY <1>3, <1>4, <1>5

\* Neither does a step that mints none give it any.
LEMMA UndilutedApartKept ==
    ASSUME UndilutedApart, UNCHANGED late, VaultTypeOK', SettledCovered'
    PROVE  UndilutedApart'
<1> SUFFICES ASSUME NEW v \in Vaults, NEW id \in Epochs, BeginsBetweenBlocks(id)
             PROVE  /\ late'[v][id] = 0
                    /\ epochResolved'[v][id] => totalSupply'[v][id] <= finalTVL'[v][id]
  BY DEF UndilutedApart, BeginsBetweenBlocks
<1>1. late'[v][id] = 0
  BY DEF UndilutedApart
<1>2. totalSupply'[v][id] \in Nat
  BY DEF VaultTypeOK, PerEpoch
<1>3. epochResolved'[v][id] => totalSupply'[v][id] - late'[v][id] <= finalTVL'[v][id]
  BY DEF SettledCovered
<1>4. QED
  BY <1>1, <1>2, <1>3

-----------------------------------------------------------------------------
(* The sums: shares add up to the supply, accounts to the balance.         *)

\* The part of VaultInv about sums.
Sums == SupplyIsSumOfBalances /\ AssetCoversFunds

\* Steps that touch neither the shares nor the money.
LEMMA SumsKept ==
    ASSUME Sums, UNCHANGED <<totalSupply, balanceOf, asset, funds>>
    PROVE  Sums'
  BY DEF Sums, SupplyIsSumOfBalances, AssetCoversFunds

\* Money that moves on one epoch's account moves the balance by as much, or
\* more of it stays.
LEMMA AccountMoves ==
    ASSUME VaultTypeOK, VaultTypeOK', AssetCoversFunds,
           NEW id \in Epochs, NEW moved \in [Vaults -> Int],
           \A v \in Vaults : /\ asset'[v] >= asset[v] + moved[v]
                             /\ funds'[v][id] = funds[v][id] + moved[v]
                             /\ \A e \in Epochs \ {id} : funds'[v][e] = funds[v][e]
    PROVE  AssetCoversFunds'
<1> SUFFICES ASSUME NEW v \in Vaults
             PROVE  asset'[v] >= SumFunction(funds'[v])
  BY DEF AssetCoversFunds
<1>1. funds[v] \in [Epochs -> Int] /\ funds'[v] \in [Epochs -> Int]
  BY DEF VaultTypeOK, PerEpoch
<1>2. SumFunctionOnSet(funds'[v], Epochs)
          = SumFunctionOnSet(funds[v], Epochs) + funds'[v][id] - funds[v][id]
  BY <1>1, FiniteAssumption, SumChange
<1>3. SumFunctionOnSet(funds[v], Epochs) \in Int
  BY <1>1, FiniteAssumption, SumInt
<1>4. /\ SumFunction(funds[v]) = SumFunctionOnSet(funds[v], Epochs)
      /\ SumFunction(funds'[v]) = SumFunctionOnSet(funds'[v], Epochs)
  BY <1>1 DEF SumFunction
<1>5. asset[v] >= SumFunction(funds[v])
  BY DEF AssetCoversFunds
<1>6. /\ funds'[v][id] = funds[v][id] + moved[v]
      /\ asset'[v] >= asset[v] + moved[v]
      /\ funds[v][id] \in Int /\ moved[v] \in Int
      /\ asset[v] \in Int /\ asset'[v] \in Int
  BY <1>1 DEF VaultTypeOK
<1>7. QED
  BY <1>2, <1>3, <1>4, <1>5, <1>6

\* Shares of one holder of one epoch are minted or burnt: the supply follows.
LEMMA SharesMove ==
    ASSUME VaultTypeOK, VaultTypeOK', SupplyIsSumOfBalances,
           NEW v \in Vaults, NEW id \in Epochs, NEW u \in Users, NEW moved \in Int,
           totalSupply' = [totalSupply EXCEPT ![v][id] = @ + moved],
           balanceOf' = [balanceOf EXCEPT ![v][id][u] = @ + moved]
    PROVE  SupplyIsSumOfBalances'
<1>1. \A w \in Vaults, e \in Epochs : <<w, e>> # <<v, id>> =>
          totalSupply'[w][e] = totalSupply[w][e] /\ balanceOf'[w][e] = balanceOf[w][e]
  BY DEF VaultTypeOK, PerEpoch
<1>2. totalSupply'[v][id] = SumFunction(balanceOf'[v][id])
  <2> DEFINE old == balanceOf[v][id]
             new == balanceOf'[v][id]
  <2>1. old \in [Users -> Nat] /\ new \in [Users -> Nat]
    BY DEF VaultTypeOK, PerEpoch
  <2>2. new = [old EXCEPT ![u] = @ + moved]
    BY DEF VaultTypeOK, PerEpoch
  <2>3. totalSupply[v][id] = SumFunctionOnSet(old, Users)
    BY <2>1 DEF SupplyIsSumOfBalances, SumFunction
  <2>4. totalSupply'[v][id] = totalSupply[v][id] + moved
    BY DEF VaultTypeOK, PerEpoch
  <2> HIDE DEF old, new
  <2>5. new[u] = old[u] + moved /\ \A w \in Users \ {u} : new[w] = old[w]
    BY <2>1, <2>2
  <2>6. SumFunctionOnSet(new, Users) = SumFunctionOnSet(old, Users) + new[u] - old[u]
    BY <2>1, <2>5, FiniteAssumption, SumChange
  <2>7. SumFunctionOnSet(old, Users) \in Int
    BY <2>1, FiniteAssumption, SumInt
  <2>8. SumFunction(new) = SumFunctionOnSet(new, Users)
    BY <2>1 DEF SumFunction
  <2>9. old[u] \in Int
    BY <2>1
  <2>10. totalSupply'[v][id] = SumFunction(new)
    BY <2>3, <2>4, <2>5, <2>6, <2>7, <2>8, <2>9
  <2>11. QED
    BY <2>10 DEF new
<1>3. QED
  BY <1>1, <1>2 DEF SupplyIsSumOfBalances

\* A transfer between two holders, or to oneself, leaves their sum as it is.
LEMMA TransferKeepsSum ==
    ASSUME NEW held \in [Users -> Nat], NEW from \in Users, NEW to \in Users,
           NEW amount \in Nat, held[from] >= amount
    PROVE  SumFunction(MoveShares(held, from, to, amount)) = SumFunction(held)
<1> DEFINE debited == [held EXCEPT ![from] = @ - amount]
           moved == MoveShares(held, from, to, amount)
<1>1. /\ debited \in [Users -> Int]
      /\ debited[from] = held[from] - amount
      /\ \A u \in Users \ {from} : debited[u] = held[u]
  OBVIOUS
<1>2. moved = [debited EXCEPT ![to] = @ + amount]
  BY DEF MoveShares
<1> HIDE DEF debited, moved
<1>3. /\ moved \in [Users -> Int]
      /\ moved[to] = debited[to] + amount
      /\ \A u \in Users \ {to} : moved[u] = debited[u]
  BY <1>1, <1>2
<1>4. SumFunctionOnSet(debited, Users)
          = SumFunctionOnSet(held, Users) + debited[from] - held[from]
  BY <1>1, FiniteAssumption, SumChange
<1>5. SumFunctionOnSet(moved, Users)
          = SumFunctionOnSet(debited, Users) + moved[to] - debited[to]
  BY <1>1, <1>3, FiniteAssumption, SumChange
<1>6. SumFunctionOnSet(held, Users) \in Int
  BY FiniteAssumption, SumInt
<1>7. held[from] \in Int /\ debited[to] \in Int
  BY <1>1
<1>8. SumFunctionOnSet(moved, Users) = SumFunctionOnSet(held, Users)
  BY <1>1, <1>3, <1>4, <1>5, <1>6, <1>7
<1>9. SumFunction(moved) = SumFunction(held)
  BY <1>3, <1>8 DEF SumFunction
<1>10. QED
  BY <1>9 DEF moved

\* Deposits, withdrawals and transfers keep the sums.
LEMMA TakeInKeepsSums ==
    ASSUME VaultTypeOK, VaultTypeOK', Sums,
           NEW v \in Vaults, NEW id \in Epochs,
           NEW assets \in Nat, NEW receiver \in Users,
           TakeIn(v, id, assets, receiver)
    PROVE  Sums'
<1>1. SupplyIsSumOfBalances'
  <2>1. /\ totalSupply' = [totalSupply EXCEPT ![v][id] = @ + assets]
        /\ balanceOf' = [balanceOf EXCEPT ![v][id][receiver] = @ + assets]
    BY DEF TakeIn, Mint
  <2>2. assets \in Int
    OBVIOUS
  <2>3. QED
    BY <2>1, <2>2, SharesMove DEF Sums
<1>2. AssetCoversFunds'
  <2> DEFINE moved == [w \in Vaults |-> IF w = v THEN assets ELSE 0]
  <2>1. moved \in [Vaults -> Int]
    OBVIOUS
  <2>2. \A w \in Vaults : /\ asset'[w] >= asset[w] + moved[w]
                          /\ funds'[w][id] = funds[w][id] + moved[w]
                          /\ \A e \in Epochs \ {id} : funds'[w][e] = funds[w][e]
    BY DEF TakeIn, VaultTypeOK, PerEpoch
  <2> HIDE DEF moved
  <2>3. QED
    BY <2>1, <2>2, AccountMoves DEF Sums
<1>3. QED
  BY <1>1, <1>2 DEF Sums

\* A withdrawal burns the shares it takes out of the supply, and what it pays
\* leaves the balance unless it is sent to a vault.
LEMMA WithdrawKeepsSums ==
    ASSUME VaultTypeOK, VaultTypeOK', Sums,
           NEW v \in Vaults, NEW id \in Epochs, NEW shares \in Nat,
           NEW receiver, NEW owner \in Users, NEW sender \in Users,
           Withdraw(v, id, shares, receiver, owner, sender)
    PROVE  Sums'
<1> DEFINE assets == IF epochNull[v][id] THEN shares
                                         ELSE PreviewWithdraw(v, id, shares)
<1>1. SupplyIsSumOfBalances'
  <2>1. /\ totalSupply' = [totalSupply EXCEPT ![v][id] = @ - shares]
        /\ balanceOf' = [balanceOf EXCEPT ![v][id][owner] = @ - shares]
    BY DEF Withdraw, Burn
  <2>2. \A n \in Nat : n - shares = n + (-shares)
    OBVIOUS
  <2>3. totalSupply[v][id] \in Nat /\ balanceOf[v][id][owner] \in Nat
    BY DEF VaultTypeOK, PerEpoch
  <2>4. /\ totalSupply' = [totalSupply EXCEPT ![v][id] = @ + (-shares)]
        /\ balanceOf' = [balanceOf EXCEPT ![v][id][owner] = @ + (-shares)]
    BY <2>1, <2>2, <2>3
  <2>5. -shares \in Int
    OBVIOUS
  <2>6. QED
    BY <2>4, <2>5, SharesMove DEF Sums
<1>2. AssetCoversFunds'
  <2>1. /\ asset' = Sent(v, receiver, assets)
        /\ funds' = [funds EXCEPT ![v][id] = @ - assets]
    BY DEF Withdraw
  <2>2. assets \in Nat
    <3>1. epochNull[v][id] \/ finalTVL[v][id] \in Nat \ {0}
      BY DEF Withdraw, VaultTypeOK, PerEpoch
    <3>2. claimTVL[v][id] \in Nat
      BY DEF VaultTypeOK, PerEpoch
    <3>3. QED
      BY <3>1, <3>2, MulDivDownBound DEF PreviewWithdraw
  <2> HIDE DEF assets
  <2> DEFINE moved == [w \in Vaults |-> IF w = v THEN -assets ELSE 0]
  <2>3. moved \in [Vaults -> Int]
    BY <2>2
  <2>4. \A w \in Vaults : /\ asset'[w] >= asset[w] + moved[w]
                          /\ funds'[w][id] = funds[w][id] + moved[w]
                          /\ \A e \in Epochs \ {id} : funds'[w][e] = funds[w][e]
    BY <2>1, <2>2 DEF Sent, VaultTypeOK, PerEpoch
  <2> HIDE DEF moved
  <2>5. QED
    BY <2>3, <2>4, AccountMoves DEF Sums
<1>3. QED
  BY <1>1, <1>2 DEF Sums

\* A transfer moves shares between two balances of one epoch, also when the
\* two are the same account's.
LEMMA TransferKeepsSums ==
    ASSUME VaultTypeOK, Sums,
           NEW v \in Vaults, NEW id \in Epochs, NEW from \in Users,
           NEW to \in Users, NEW amount \in Nat, NEW sender \in Users,
           SafeTransferFrom(v, id, from, to, amount, sender)
    PROVE  Sums'
<1>1. UNCHANGED <<totalSupply, asset, funds>>
  BY DEF SafeTransferFrom
<1>2. balanceOf[v][id] \in [Users -> Nat] /\ balanceOf[v][id][from] >= amount
  BY DEF VaultTypeOK, PerEpoch, SafeTransferFrom
<1>3. balanceOf' = [balanceOf EXCEPT ![v][id] =
                       MoveShares(balanceOf[v][id], from, to, amount)]
  BY DEF SafeTransferFrom
<1>4. \A w \in Vaults, e \in Epochs : <<w, e>> # <<v, id>> =>
          balanceOf'[w][e] = balanceOf[w][e]
  BY <1>3 DEF VaultTypeOK, PerEpoch
<1>5. balanceOf'[v][id] = MoveShares(balanceOf[v][id], from, to, amount)
  BY <1>3 DEF VaultTypeOK, PerEpoch
<1>6. SumFunction(balanceOf'[v][id]) = SumFunction(balanceOf[v][id])
  BY <1>2, <1>5, TransferKeepsSum
<1>7. QED
  BY <1>1, <1>4, <1>6 DEF Sums, SupplyIsSumOfBalances, AssetCoversFunds

\* No call of a user separates a supply from its balances, or the asset balance
\* from the money of the epochs.
LEMMA UserKeepsSums ==
    ASSUME VaultTypeOK, Sums, UserNext
    PROVE  Sums'
<1>1. PICK v \in Vaults, id \in Epochs, amount \in Amounts, u \in Users :
          \/ TakeIn(v, id, amount, u)
          \/ \E receiver \in Receivers, sender \in Users :
                Withdraw(v, id, amount, receiver, u, sender)
          \/ \E to, sender \in Users :
                SafeTransferFrom(v, id, u, to, amount, sender)
  BY DEF UserNext, Deposit, DepositETH
<1>2. amount \in Nat /\ VaultTypeOK'
  BY ConstantsAssumption, UserPreserves
<1>3. QED
  BY <1>1, <1>2, TakeInKeepsSums, WithdrawKeepsSums, TransferKeepsSums

\* What leaves an account or comes in for it leaves or enters the balance.
LEMMA SendTokensKeepsSums ==
    ASSUME VaultTypeOK, VaultTypeOK', Sums, NEW id \in Epochs, NEW receiver,
           NEW fee \in [Vaults -> Nat], NEW out \in [Vaults -> Nat],
           SendTokens(id, fee, out, receiver), UNCHANGED shareVars
    PROVE  Sums'
<1> DEFINE moved == [v \in Vaults |-> out[CounterPartyVault(v)] - fee[v] - out[v]]
<1>1. \A v \in Vaults : CounterPartyVault(v) \in Vaults
  BY DEF CounterPartyVault, Vaults
<1>2. moved \in [Vaults -> Int]
  BY <1>1
<1>3. \A v \in Vaults : /\ asset'[v] >= asset[v] + moved[v]
                        /\ funds'[v][id] = funds[v][id] + moved[v]
                        /\ \A e \in Epochs \ {id} : funds'[v][e] = funds[v][e]
  <2> SUFFICES ASSUME NEW v \in Vaults
               PROVE  /\ asset'[v] >= asset[v] + moved[v]
                      /\ funds'[v][id] = funds[v][id] + moved[v]
                      /\ \A e \in Epochs \ {id} : funds'[v][e] = funds[v][e]
    OBVIOUS
  <2>1. /\ asset'[v] = asset[v] - fee[v] - out[v] + out[CounterPartyVault(v)]
        /\ funds'[v] = [funds[v] EXCEPT ![id] =
                           @ - fee[v] - out[v] + out[CounterPartyVault(v)]]
    BY DEF SendTokens
  <2>2. /\ asset[v] \in Int /\ funds[v] \in [Epochs -> Int]
        /\ fee[v] \in Int /\ out[v] \in Int /\ out[CounterPartyVault(v)] \in Int
    BY <1>1 DEF VaultTypeOK, PerEpoch
  <2>3. QED
    BY <2>1, <2>2
<1> HIDE DEF moved
<1>4. AssetCoversFunds'
  BY <1>2, <1>3, AccountMoves DEF Sums
<1>5. QED
  BY <1>4 DEF Sums, SupplyIsSumOfBalances, shareVars

\* What a settlement takes from one epoch of one vault it hands to the other
\* vault's or to the treasury, and the vault's asset balance moves along.
LEMMA SettleKeepsSums ==
    ASSUME VaultTypeOK, VaultTypeOK', Sums, NEW id \in Epochs, NEW receiver,
           \/ SettleDepeg(id, receiver)
           \/ SettleEnd(id, receiver)
           \/ SettleNull(id)
    PROVE  Sums'
<1>1. CASE SettleDepeg(id, receiver)
  <2> DEFINE fee == [v \in Vaults |-> Fee(v, id)]
             out == [v \in Vaults |-> TVLAfterFee(v, id)]
  <2>1. fee \in [Vaults -> Nat] /\ out \in [Vaults -> Nat]
    BY <1>1, FeeType DEF SettleDepeg
  <2>2. SendTokens(id, fee, out, receiver) /\ UNCHANGED shareVars
    BY <1>1 DEF SettleDepeg, settleUnchanged
  <2> HIDE DEF fee, out
  <2>3. QED
    BY <2>1, <2>2, SendTokensKeepsSums
<1>2. CASE SettleEnd(id, receiver)
  <2> DEFINE fee == [v \in Vaults |-> IF v = Premium THEN Fee(v, id) ELSE 0]
             out == [v \in Vaults |-> IF v = Premium THEN TVLAfterFee(v, id)
                                                     ELSE 0]
  <2>1. fee \in [Vaults -> Nat] /\ out \in [Vaults -> Nat]
    BY <1>2, FeeType DEF SettleEnd
  <2>2. SendTokens(id, fee, out, receiver) /\ UNCHANGED shareVars
    BY <1>2 DEF SettleEnd, settleUnchanged
  <2> HIDE DEF fee, out
  <2>3. QED
    BY <2>1, <2>2, SendTokensKeepsSums
<1>3. CASE SettleNull(id)
  BY <1>3, SumsKept DEF SettleNull, NoTokensSent, settleUnchanged, shareVars
<1>4. QED
  BY <1>1, <1>2, <1>3

\* Time and the owner's operations touch no balance.
LEMMA QuietStepsKeepSums ==
    ASSUME Sums, Tick \/ FactoryNext
    PROVE  Sums'
<1>1. UNCHANGED <<totalSupply, balanceOf, asset, funds>>
  BY DEF Tick, FactoryNext, CreateEpoch, PauseMarket, SetTreasury,
         WhitelistController, WhitelistAddressOnMarket, shareVars
<1>2. QED
  BY <1>1, SumsKept

\* In a fresh market every sum is a sum of zeros.
LEMMA InitSums ==
    ASSUME VaultInit
    PROVE  Sums
<1>1. ASSUME NEW v \in Vaults
      PROVE  asset[v] >= SumFunction(funds[v])
  <2>1. funds[v] = [id \in Epochs |-> 0] /\ asset[v] = 0
    BY DEF VaultInit
  <2>2. SumFunctionOnSet(funds[v], Epochs) = 0
    BY <2>1, FiniteAssumption, SumZero
  <2>3. QED
    BY <2>1, <2>2 DEF SumFunction
<1>2. ASSUME NEW v \in Vaults, NEW id \in Epochs
      PROVE  totalSupply[v][id] = SumFunction(balanceOf[v][id])
  <2>1. balanceOf[v][id] = [u \in Users |-> 0] /\ totalSupply[v][id] = 0
    BY DEF VaultInit
  <2>2. SumFunctionOnSet(balanceOf[v][id], Users) = 0
    BY <2>1, FiniteAssumption, SumZero
  <2>3. QED
    BY <2>1, <2>2 DEF SumFunction
<1>3. QED
  BY <1>1, <1>2 DEF Sums, SupplyIsSumOfBalances, AssetCoversFunds

-----------------------------------------------------------------------------
(* What the invariant means for the holders.                               *)

\* An account covers what is owed for its epoch, and none is in debt for an
\* epoch without late shares.
LEMMA FundsCoverOwed ==
    ASSUME VaultTypeOK, OpenBacked, SettledCovered,
           NEW v \in Vaults, NEW id \in Epochs
    PROVE  /\ Owed(v, id) \in Int
           /\ Owed(v, id) <= funds[v][id]
           /\ late[v][id] = 0 => Owed(v, id) \in Nat
<1>1. EpochCovered(v, id)
  BY InvariantCoversEpoch
<1>2. /\ totalSupply[v][id] \in Nat /\ finalTVL[v][id] \in Nat
      /\ claimTVL[v][id] \in Nat /\ funds[v][id] \in Int /\ late[v][id] \in Nat
  BY DEF VaultTypeOK, PerEpoch
<1>3. CASE ~(epochResolved[v][id] /\ ~epochNull[v][id] /\ finalTVL[v][id] # 0)
  <2>1. epochResolved[v][id] /\ finalTVL[v][id] = 0 =>
            funds[v][id] >= totalSupply[v][id]
    BY DEF SettledCovered
  <2>2. funds[v][id] >= totalSupply[v][id]
    BY <1>1, <1>2, <1>3, <2>1 DEF EpochCovered
  <2>3. QED
    BY <1>2, <1>3, <2>2 DEF Owed
<1>4. CASE epochResolved[v][id] /\ ~epochNull[v][id] /\ finalTVL[v][id] # 0
  <2> DEFINE rest == totalSupply[v][id] - late[v][id]
             price == MulDivDown(rest, claimTVL[v][id], finalTVL[v][id])
  <2>1. Owed(v, id) = late[v][id] + price
    BY <1>4 DEF Owed, PreviewWithdraw
  <2>2. finalTVL[v][id] \in Nat \ {0} /\ rest \in Int
    BY <1>2, <1>4
  <2>3. funds[v][id] * finalTVL[v][id] >=
            rest * claimTVL[v][id] + late[v][id] * finalTVL[v][id]
    BY <1>4 DEF SettledCovered
  <2>4. late[v][id] = 0 => rest \in Nat
    BY <1>2
  <2> HIDE DEF rest
  <2>5. price \in Int /\ late[v][id] + price <= funds[v][id]
    BY <1>2, <2>2, <2>3, CoverIsOwed
  <2>6. late[v][id] = 0 => price \in Nat
    BY <1>2, <2>2, <2>4, MulDivDownBound
  <2> HIDE DEF price
  <2>7. QED
    BY <1>2, <2>1, <2>5, <2>6
<1>5. QED
  BY <1>3, <1>4

\* No account of a vault without late shares exceeds its balance.
LEMMA AccountWithinBalance ==
    ASSUME VaultInv, NEW v \in Vaults, Undiluted(v), NEW id \in Epochs
    PROVE  funds[v][id] <= asset[v]
<1>1. funds[v] \in [Epochs -> Int]
  BY DEF VaultInv, VaultTypeOK, PerEpoch
<1>2. \A e \in Epochs : funds[v][e] \in Nat
  <2>1. \A e \in Epochs : Owed(v, e) \in Nat /\ Owed(v, e) <= funds[v][e]
    BY FundsCoverOwed DEF VaultInv, Undiluted
  <2>2. QED
    BY <1>1, <2>1
<1>3. funds[v][id] <= SumFunctionOnSet(funds[v], Epochs)
  BY <1>2, FiniteAssumption, SumBoundsElement
<1>4. SumFunctionOnSet(funds[v], Epochs) \in Int
  BY <1>1, FiniteAssumption, SumInt
<1>5. asset[v] >= SumFunctionOnSet(funds[v], Epochs) /\ asset[v] \in Int
  BY <1>1 DEF VaultInv, VaultTypeOK, AssetCoversFunds, SumFunction
<1>6. QED
  BY <1>1, <1>3, <1>4, <1>5

\* A withdrawal is the list of its checks and assignments to all variables, so
\* it goes through when, and only when, the list holds.
LEMMA WithdrawByGuards ==
    ASSUME NEW v \in Vaults, NEW id \in Epochs, NEW shares \in Nat, NEW receiver,
           NEW owner \in Users, NEW sender \in Users, VaultTypeOK
    PROVE  Withdraw(v, id, shares, receiver, owner, sender) <=>
              /\ WithdrawSucceeds(v, id, shares, owner, sender)
              /\ totalSupply' = [totalSupply EXCEPT ![v][id] = @ - shares]
              /\ balanceOf' = [balanceOf EXCEPT ![v][id][owner] = @ - shares]
              /\ asset' = Sent(v, receiver, Payout(v, id, shares))
              /\ funds' = [funds EXCEPT ![v][id] = @ - Payout(v, id, shares)]
              /\ UNCHANGED <<now, factoryVars, epochExists, epochFee,
                             settleVars, late>>
<1>1. /\ totalSupply[v][id] >= shares <=> shares <= totalSupply[v][id]
      /\ balanceOf[v][id][owner] >= shares <=> shares <= balanceOf[v][id][owner]
  BY DEF VaultTypeOK, PerEpoch
<1>2. QED
  BY <1>1 DEF Withdraw, WithdrawSucceeds, Burn, Payout

\* The invariant gives whoever holds shares of a vault that minted none late
\* every guard of withdraw.
LEMMA InvariantFundsExits ==
    ASSUME VaultInv
    PROVE  ExitsFunded
<1> SUFFICES ASSUME NEW v \in Vaults, NEW id \in Epochs, NEW u \in Users,
                    Undiluted(v), epochResolved[v][id], balanceOf[v][id][u] > 0
             PROVE  /\ epochExists[v][id]
                    /\ balanceOf[v][id][u] <= totalSupply[v][id]
                    /\ finalTVL[v][id] # 0
                    /\ Payout(v, id, balanceOf[v][id][u]) <= asset[v]
                    /\ balanceOf[v][id][u] \in Nat
  BY DEF ExitsFunded, WithdrawSucceeds, EpochHasEnded, IsAuthorized
<1> DEFINE held == balanceOf[v][id][u]
<1>1. /\ totalSupply[v][id] \in Nat /\ finalTVL[v][id] \in Nat
      /\ claimTVL[v][id] \in Nat /\ funds[v][id] \in Int /\ asset[v] \in Nat
      /\ balanceOf[v][id] \in [Users -> Nat] /\ held \in Nat
  BY DEF VaultInv, VaultTypeOK, PerEpoch
<1>2. held <= totalSupply[v][id]
  <2>1. totalSupply[v][id] = SumFunctionOnSet(balanceOf[v][id], Users)
    BY <1>1 DEF VaultInv, SupplyIsSumOfBalances, SumFunction
  <2>2. QED
    BY <1>1, <2>1, FiniteAssumption, SumBoundsElement
<1>3. late[v][id] = 0
  BY DEF Undiluted
<1>4. /\ epochExists[v][id]
      /\ totalSupply[v][id] <= finalTVL[v][id]
      /\ funds[v][id] * finalTVL[v][id] >= totalSupply[v][id] * claimTVL[v][id]
  <2>1. /\ epochExists[v][id]
        /\ totalSupply[v][id] - late[v][id] <= finalTVL[v][id]
        /\ funds[v][id] * finalTVL[v][id] >=
              (totalSupply[v][id] - late[v][id]) * claimTVL[v][id]
                  + late[v][id] * finalTVL[v][id]
    BY DEF VaultInv, SettledCovered
  <2>2. /\ totalSupply[v][id] - late[v][id] = totalSupply[v][id]
        /\ late[v][id] * finalTVL[v][id] = 0
    BY <1>1, <1>3
  <2>3. totalSupply[v][id] * claimTVL[v][id] \in Int
    BY <1>1
  <2>4. QED
    BY <2>1, <2>2, <2>3
<1>5. epochNull[v][id] => totalSupply[v][id] <= funds[v][id]
  BY <1>1, InvariantCovers DEF VaultInv, FundsCoverClaims, EpochCovered
<1>6. funds[v][id] <= asset[v]
  BY AccountWithinBalance
<1>7. finalTVL[v][id] \in Nat \ {0}
  BY <1>1, <1>2, <1>4
<1> HIDE DEF held
<1>8. funds[v][id] * finalTVL[v][id] >= held * claimTVL[v][id] + 0 * finalTVL[v][id]
  <2>1. totalSupply[v][id] * claimTVL[v][id] >= held * claimTVL[v][id]
    BY <1>1, <1>2
  <2>2. /\ totalSupply[v][id] * claimTVL[v][id] \in Int
        /\ held * claimTVL[v][id] \in Int /\ 0 * finalTVL[v][id] = 0
        /\ funds[v][id] * finalTVL[v][id] \in Int
    BY <1>1
  <2>3. QED
    BY <1>4, <2>1, <2>2
<1>9. /\ PreviewWithdraw(v, id, held) \in Int
      /\ PreviewWithdraw(v, id, held) <= funds[v][id]
  <2>1. held \in Int /\ 0 \in Nat
    BY <1>1
  <2>2. /\ MulDivDown(held, claimTVL[v][id], finalTVL[v][id]) \in Int
        /\ 0 + MulDivDown(held, claimTVL[v][id], finalTVL[v][id]) <= funds[v][id]
    BY <1>1, <1>7, <1>8, <2>1, CoverIsOwed
  <2>3. QED
    BY <2>2 DEF PreviewWithdraw
<1>10. PreviewWithdraw(v, id, held) <= asset[v]
  BY <1>1, <1>6, <1>9
<1>11. epochNull[v][id] => held <= asset[v]
  BY <1>1, <1>2, <1>5, <1>6
<1>12. Payout(v, id, held) <= asset[v]
  BY <1>10, <1>11 DEF Payout
<1>13. QED
  BY <1>1, <1>2, <1>4, <1>7, <1>12 DEF held

\* All the debts of a vault together are covered by its balance.
LEMMA InvariantCoversAll ==
    ASSUME VaultInv
    PROVE  BalanceCoversAllEpochs
<1> SUFFICES ASSUME NEW v \in Vaults
             PROVE  asset[v] >= SumFunction([id \in Epochs |-> Owed(v, id)])
  BY DEF BalanceCoversAllEpochs
<1> DEFINE debts == [id \in Epochs |-> Owed(v, id)]
<1>1. funds[v] \in [Epochs -> Int]
  BY DEF VaultInv, VaultTypeOK, PerEpoch
<1>2. \A id \in Epochs : debts[id] \in Int /\ funds[v][id] \in Int /\ debts[id] <= funds[v][id]
  BY <1>1, FundsCoverOwed DEF VaultInv
<1>3. SumFunction(debts) = SumFunctionOnSet(debts, Epochs)
  BY DEF SumFunction
<1> HIDE DEF debts
<1>4. SumFunctionOnSet(debts, Epochs) <= SumFunctionOnSet(funds[v], Epochs)
  BY <1>2, FiniteAssumption, SumMono
<1>5. asset[v] >= SumFunctionOnSet(funds[v], Epochs)
  BY <1>1 DEF VaultInv, AssetCoversFunds, SumFunction
<1>6. /\ SumFunctionOnSet(debts, Epochs) \in Int /\ asset[v] \in Int
      /\ SumFunctionOnSet(funds[v], Epochs) \in Int
  BY <1>1, <1>2, FiniteAssumption, SumInt DEF VaultInv, VaultTypeOK
<1>7. asset[v] >= SumFunction(debts)
  BY <1>3, <1>4, <1>5, <1>6
<1>8. QED
  BY <1>7 DEF debts

-----------------------------------------------------------------------------
(* Every operation is a step of the escrows, or leaves them as they are.   *)

\* The escrows do not move.
EscrowIdle == UNCHANGED <<now, epochFee, epochExists, epochResolved,
                          totalSupply, funds, finalTVL, claimTVL>>

\* A step that leaves the escrows' money alone is a stutter of theirs.
LEMMA IdleStutters ==
    ASSUME EscrowIdle
    PROVE  UNCHANGED Escrow!vars /\ (SidesAgree => SidesAgree')
  BY DEF EscrowIdle, Escrow!vars, SidesAgree

\* The escrow's sides are the vaults.
LEMMA SidesAreVaults ==
    /\ Escrow!Sides = Vaults
    /\ \A v \in Vaults : Escrow!Other(v) = CounterPartyVault(v)
    /\ \A v \in Vaults : CounterPartyVault(v) \in Vaults
    /\ Premium \in Vaults /\ Collateral \in Vaults /\ Premium # Collateral
  BY DEF Escrow!Sides, Escrow!Other, Vaults, CounterPartyVault,
         Premium, Collateral

\* A freshly deployed market has empty escrows.
LEMMA InitMaps ==
    VaultInit => Escrow!Init /\ SidesAgree
<1> SUFFICES ASSUME VaultInit
             PROVE  Escrow!Init /\ SidesAgree
  OBVIOUS
<1>1. /\ totalSupply = Escrow!Empty /\ funds = Escrow!Empty
      /\ finalTVL = Escrow!Empty /\ claimTVL = Escrow!Empty
  BY SidesAreVaults DEF VaultInit, Escrow!Empty
<1>2. \A v \in Vaults, id \in Epochs :
          epochExists[v][id] = FALSE /\ epochResolved[v][id] = FALSE
  BY DEF VaultInit
<1>3. /\ {id \in Epochs : \A v \in Vaults : epochExists[v][id]} = {}
      /\ {id \in Epochs : \A v \in Vaults : epochResolved[v][id]} = {}
  BY <1>2, SidesAreVaults
<1>4. epochFee = [e \in Epochs |-> 0]
  BY DEF VaultInit
<1>5. Escrow!Init
  BY <1>1, <1>3, <1>4 DEF Escrow!Init
<1>6. QED
  BY <1>2, <1>5 DEF SidesAgree

\* Time passes.
LEMMA TickMaps ==
    ASSUME Tick
    PROVE  Escrow!Advance /\ (SidesAgree => SidesAgree')
  BY DEF Tick, Escrow!Advance, SidesAgree, factoryVars, settleVars, shareVars

-----------------------------------------------------------------------------
(* The factory and the users.                                              *)

\* The creation of an epoch opens an escrow.
LEMMA CreateEpochMaps ==
    ASSUME VaultTypeOK, SidesAgree,
           NEW id \in Epochs, NEW fee \in WithdrawalFees, CreateEpoch(id, fee)
    PROVE  Escrow!Open(id) /\ SidesAgree'
<1>1. /\ epochExists' =
             [v \in Vaults |-> [epochExists[v] EXCEPT ![id] = TRUE]]
      /\ epochFee' = [epochFee EXCEPT ![id] = fee]
      /\ UNCHANGED <<now, epochResolved, totalSupply, funds, finalTVL, claimTVL>>
      /\ \A v \in Vaults : ~epochExists[v][id]
  BY DEF CreateEpoch, settleVars, shareVars
<1>2. epochExists \in PerEpoch(BOOLEAN) /\ epochFee \in [Epochs -> Nat]
  BY DEF VaultTypeOK
<1>3. \A v \in Vaults, e \in Epochs :
          epochExists'[v][e] = (e = id \/ epochExists[v][e])
  BY <1>1, <1>2 DEF PerEpoch
<1> DEFINE open == {e \in Epochs : \A v \in Vaults : epochExists[v][e]}
           settled == {e \in Epochs : \A v \in Vaults : epochResolved[v][e]}
<1>4. id \notin open /\ open' = open \cup {id}
  <2>1. id \notin open
    BY <1>1, SidesAreVaults
  <2>2. ASSUME NEW e \in Epochs, e # id
        PROVE  \A v \in Vaults : epochExists'[v][e] <=> epochExists[v][e]
    BY <1>3, <2>2
  <2>3. \A v \in Vaults : epochExists'[v][id]
    BY <1>3
  <2>4. \A e \in Epochs : e \in open' <=> e \in open \cup {id}
    BY <2>2, <2>3
  <2>5. QED
    BY <2>1, <2>4
<1>5. settled' = settled
  BY <1>1
<1>6. epochFee' = [epochFee EXCEPT ![id] = epochFee'[id]]
  BY <1>1, <1>2
<1>7. Escrow!Open(id)
  BY <1>1, <1>4, <1>5, <1>6 DEF Escrow!Open
<1>8. SidesAgree'
  <2> SUFFICES ASSUME NEW v \in Vaults, NEW w \in Vaults, NEW e \in Epochs
               PROVE  /\ epochExists'[v][e] = epochExists'[w][e]
                      /\ epochResolved'[v][e] = epochResolved'[w][e]
    BY DEF SidesAgree
  <2>1. /\ epochExists[v][e] = epochExists[w][e]
        /\ epochResolved[v][e] = epochResolved[w][e]
    BY DEF SidesAgree
  <2>2. epochExists'[v][e] = epochExists'[w][e]
    BY <1>3, <2>1
  <2>3. QED
    BY <1>1, <2>1, <2>2
<1>9. QED
  BY <1>7, <1>8

\* A call of the factory opens an escrow or changes none.
LEMMA FactoryMaps ==
    ASSUME VaultTypeOK, SidesAgree, FactoryNext
    PROVE  [Escrow!Next]_(Escrow!vars) /\ SidesAgree'
<1>1. CASE \E id \in Epochs, fee \in WithdrawalFees : CreateEpoch(id, fee)
  BY <1>1, CreateEpochMaps DEF Escrow!Next
<1>2. CASE \/ PauseMarket
           \/ WhitelistController
           \/ \E t \in Treasuries : SetTreasury(t)
           \/ \E a \in Treasuries : WhitelistAddressOnMarket(a)
  <2>1. EscrowIdle
    BY <1>2 DEF PauseMarket, SetTreasury, WhitelistController,
                WhitelistAddressOnMarket, EscrowIdle, settleVars, shareVars
  <2>2. QED
    BY <2>1, IdleStutters
<1>3. QED
  BY <1>1, <1>2 DEF FactoryNext

\* Depositing joins the escrow, late if it is settled, if it moves money at all.
LEMMA TakeInMaps ==
    ASSUME VaultTypeOK, SettledCovered, SidesAgree,
           NEW v \in Vaults, NEW id \in Epochs,
           NEW assets \in Nat, NEW receiver \in Users,
           TakeIn(v, id, assets, receiver)
    PROVE  [Escrow!Next]_(Escrow!vars) /\ SidesAgree'
<1>1. /\ totalSupply' = [totalSupply EXCEPT ![v][id] = @ + assets]
      /\ funds' = [funds EXCEPT ![v][id] = @ + assets]
      /\ UNCHANGED <<now, epochFee, epochExists, epochResolved,
                     finalTVL, claimTVL>>
      /\ epochExists[v][id] /\ now <= EpochBegin(id)
  BY DEF TakeIn, Mint, EpochHasNotStarted, settleVars
<1>2. funds \in PerEpoch(Int) /\ totalSupply \in PerEpoch(Nat)
  BY DEF VaultTypeOK
<1>3. SidesAgree'
  BY <1>1 DEF SidesAgree
<1>4. CASE assets = 0
  <2>1. totalSupply' = totalSupply /\ funds' = funds
    BY <1>1, <1>2, <1>4 DEF PerEpoch
  <2>2. QED
    BY <1>1, <1>3, <2>1 DEF Escrow!vars
<1>5. CASE assets # 0
  <2>1. funds'[v][id] - funds[v][id] = assets
    BY <1>1, <1>2 DEF PerEpoch
  <2> DEFINE amount == funds'[v][id] - funds[v][id]
             open == {e \in Epochs : \A w \in Vaults : epochExists[w][e]}
             settled == {e \in Epochs : \A w \in Vaults : epochResolved[w][e]}
  <2>2. amount > 0 /\ now <= id[1]
    BY <1>1, <1>5, <2>1 DEF EpochBegin
  <2>3. /\ funds' = [funds EXCEPT ![v][id] = @ + amount]
        /\ totalSupply' = [totalSupply EXCEPT ![v][id] = @ + amount]
    BY <1>1, <2>1
  <2>4. open' = open /\ settled' = settled
    BY <1>1
  <2>5. CASE epochResolved[v][id]
    <3>1. id \in settled
      BY <2>5 DEF SidesAgree
    <3>2. now = id[1]
      <4>1. now \in Nat /\ id[1] \in Nat
        BY ConstantsAssumption DEF VaultTypeOK
      <4>2. now >= id[1]
        BY <2>5 DEF SettledCovered, EpochBegin
      <4>3. QED
        BY <2>2, <4>1, <4>2
    <3>3. Escrow!JoinLate(v, id)
      BY <1>1, <2>2, <2>3, <2>4, <3>1, <3>2 DEF Escrow!JoinLate
    <3>4. QED
      BY <1>3, <3>3, SidesAreVaults DEF Escrow!Next
  <2>6. CASE ~epochResolved[v][id]
    <3>1. \A w \in Vaults : epochExists[w][id] /\ ~epochResolved[w][id]
      BY <1>1, <2>6 DEF SidesAgree
    <3>2. id \in open /\ id \notin settled
      BY <2>6, <3>1
    <3>3. Escrow!Join(v, id)
      BY <1>1, <2>2, <2>3, <2>4, <3>2 DEF Escrow!Join
    <3>4. QED
      BY <1>3, <3>3, SidesAreVaults DEF Escrow!Next
  <2>7. QED
    BY <2>5, <2>6
<1>6. QED
  BY <1>4, <1>5

\* A rounded-down quotient is less than one below the exact one.
LEMMA MulDivDownTight ==
    ASSUME NEW x \in Nat, NEW y \in Nat, NEW d \in Nat \ {0}
    PROVE  x * y < (MulDivDown(x, y, d) + 1) * d
<1> DEFINE p == x * y
<1>1. p \in Nat
  OBVIOUS
<1>2. \A q \in Nat : q < (q \div d + 1) * d
  BY SMT
<1>3. QED
  BY <1>1, <1>2 DEF MulDivDown

\* Withdrawing leaves the escrow, if it burns any share.
LEMMA WithdrawMaps ==
    ASSUME VaultTypeOK, SettledCovered, SidesAgree,
           NEW v \in Vaults, NEW id \in Epochs, NEW n \in Nat,
           NEW receiver, NEW owner \in Users, NEW sender \in Users,
           Withdraw(v, id, n, receiver, owner, sender)
    PROVE  [Escrow!Next]_(Escrow!vars) /\ SidesAgree'
<1> DEFINE pay == IF epochNull[v][id] THEN n ELSE PreviewWithdraw(v, id, n)
           S == totalSupply[v][id]
           f == finalTVL[v][id]
           c == claimTVL[v][id]
<1>1. /\ UNCHANGED <<now, epochFee, epochExists, epochResolved,
                     finalTVL, claimTVL>>
      /\ totalSupply' = [totalSupply EXCEPT ![v][id] = @ - n]
      /\ funds' = [funds EXCEPT ![v][id] = @ - pay]
      /\ epochResolved[v][id]
      /\ n <= S
      /\ epochNull[v][id] \/ f # 0
  BY DEF Withdraw, Burn, EpochHasEnded, settleVars
<1>2. /\ S \in Nat /\ f \in Nat /\ c \in Nat
      /\ funds \in PerEpoch(Int) /\ totalSupply \in PerEpoch(Nat)
  BY DEF VaultTypeOK, PerEpoch
<1>3. epochNull[v][id] => c = f
  BY <1>1 DEF SettledCovered
<1>4. SidesAgree'
  BY <1>1 DEF SidesAgree
<1>5. CASE n = 0
  <2>1. pay = 0
    <3>1. CASE epochNull[v][id]
      BY <3>1, <1>5
    <3>2. CASE ~epochNull[v][id]
      <4>1. pay = (0 * c) \div f
        BY <3>2, <1>5 DEF PreviewWithdraw, MulDivDown
      <4>2. f \in Nat \ {0} /\ 0 * c = 0
        BY <3>2, <1>1, <1>2
      <4>3. \A d \in Nat \ {0} : 0 \div d = 0
        BY SMT
      <4>4. QED
        BY <4>1, <4>2, <4>3
    <3>3. QED
      BY <3>1, <3>2
  <2> HIDE DEF pay
  <2>2. totalSupply' = totalSupply /\ funds' = funds
    BY <1>1, <1>2, <1>5, <2>1 DEF PerEpoch
  <2>3. QED
    BY <1>1, <1>4, <2>2 DEF Escrow!vars
<1>6. CASE n # 0
  \* A null epoch's claim is its stake, whatever that is.
  <2>1. /\ pay \in Nat
        /\ \/ c = f /\ pay = n
           \/ pay * f <= n * c /\ n * c < (pay + 1) * f
    <3>1. CASE epochNull[v][id]
      BY <3>1, <1>3
    <3>2. CASE ~epochNull[v][id]
      <4>1. pay = MulDivDown(n, c, f) /\ f \in Nat \ {0}
        BY <3>2, <1>1, <1>2 DEF PreviewWithdraw
      <4>2. pay \in Nat /\ f * pay <= n * c
        BY <4>1, <1>2, MulDivDownBound
      <4>3. n * c < (pay + 1) * f
        BY <4>1, <1>2, MulDivDownTight
      <4>4. f * pay = pay * f
        BY <4>1, <4>2
      <4>5. QED
        BY <4>2, <4>3, <4>4
    <3>3. QED
      BY <3>1, <3>2
  <2> HIDE DEF pay
  <2>2. /\ totalSupply[v][id] - totalSupply'[v][id] = n
        /\ funds[v][id] - funds'[v][id] = pay
    BY <1>1, <1>2, <2>1 DEF PerEpoch
  <2>3. id \in {e \in Epochs : \A w \in Vaults : epochResolved[w][e]}
    BY <1>1 DEF SidesAgree
  <2> DEFINE m == totalSupply[v][id] - totalSupply'[v][id]
             paid == funds[v][id] - funds'[v][id]
  <2>4. /\ m > 0 /\ paid >= 0
        /\ \/ claimTVL[v][id] = finalTVL[v][id] /\ paid = m
           \/ /\ paid * finalTVL[v][id] <= m * claimTVL[v][id]
              /\ m * claimTVL[v][id] < (paid + 1) * finalTVL[v][id]
    BY <1>6, <2>1, <2>2
  <2>5. /\ totalSupply' = [totalSupply EXCEPT ![v][id] = @ - m]
        /\ funds' = [funds EXCEPT ![v][id] = @ - paid]
    BY <1>1, <2>2
  <2>6. Escrow!Leave(v, id)
    BY <1>1, <2>3, <2>4, <2>5 DEF Escrow!Leave
  <2>7. QED
    BY <1>4, <2>6, SidesAreVaults DEF Escrow!Next
<1>7. QED
  BY <1>5, <1>6

\* A deposit, a withdrawal and a transfer are steps of the escrow of their epoch.
LEMMA UserMaps ==
    ASSUME VaultTypeOK, SettledCovered, SidesAgree, UserNext
    PROVE  [Escrow!Next]_(Escrow!vars) /\ SidesAgree'
<1>1. PICK v \in Vaults, id \in Epochs, amount \in Amounts, u \in Users :
          \/ TakeIn(v, id, amount, u)
          \/ \E receiver \in Receivers, sender \in Users :
                Withdraw(v, id, amount, receiver, u, sender)
          \/ \E to, sender \in Users :
                SafeTransferFrom(v, id, u, to, amount, sender)
  BY DEF UserNext, Deposit, DepositETH
<1>2. amount \in Nat
  BY ConstantsAssumption
<1>3. (\E to, sender \in Users :
          SafeTransferFrom(v, id, u, to, amount, sender)) => EscrowIdle
  BY DEF SafeTransferFrom, EscrowIdle, settleVars
<1>4. QED
  BY <1>1, <1>2, <1>3, TakeInMaps, WithdrawMaps, IdleStutters

-----------------------------------------------------------------------------
(* Settlements.                                                            *)

\* A settlement with the claims of one of the three outcomes settles the
\* escrow.
LEMMA SettlementMaps ==
    ASSUME VaultTypeOK, VaultTypeOK', SidesAgree,
           NEW id \in Epochs, NEW claim \in [Vaults -> Nat],
           \A v \in Vaults : epochExists[v][id],
           ResolveEpoch(id), UNCHANGED settleUnchanged, SettledAs(id, claim),
           \/ Escrow!Insured(id) \/ Escrow!Expired(id) \/ Escrow!Refunded(id)
    PROVE  Escrow!Settle(id) /\ SidesAgree'
<1>1. /\ now >= id[1]
      /\ \A v \in Vaults : ~epochResolved[v][id]
      /\ UNCHANGED <<now, epochFee, epochExists, totalSupply>>
      /\ finalTVL' =
            [v \in Vaults |-> [finalTVL[v] EXCEPT ![id] = totalSupply[v][id]]]
  BY DEF ResolveEpoch, EpochHasStarted, EpochBegin,
         settleUnchanged, shareVars
<1> DEFINE open == {e \in Epochs : \A v \in Vaults : epochExists[v][e]}
           settled == {e \in Epochs : \A v \in Vaults : epochResolved[v][e]}
<1>2. \A v \in Vaults, e \in Epochs :
          epochResolved'[v][e] <=> (e = id \/ epochResolved[v][e])
  BY DEF SettledAs
<1>3. settled' = settled \cup {id} /\ open' = open
  <2>1. \A e \in Epochs : e \in settled' <=> (e = id \/ e \in settled)
    BY <1>2, SidesAreVaults
  <2>2. QED
    BY <1>1, <2>1
<1>4. id \in open \ settled
  BY <1>1, SidesAreVaults
<1>5. /\ claimTVL \in PerEpoch(Nat) /\ claimTVL' \in PerEpoch(Nat)
      /\ funds \in PerEpoch(Int) /\ funds' \in PerEpoch(Int)
  BY DEF VaultTypeOK
<1>6. claimTVL' =
          [v \in Vaults |-> [claimTVL[v] EXCEPT ![id] = claimTVL'[v][id]]]
  BY <1>5 DEF SettledAs, PerEpoch
<1>7. funds' = [v \in Vaults |-> [funds[v] EXCEPT ![id] = claimTVL'[v][id]]]
  BY <1>5 DEF SettledAs, PerEpoch
<1>8. Escrow!Settle(id)
  BY <1>1, <1>3, <1>4, <1>6, <1>7, SidesAreVaults DEF Escrow!Settle
<1>9. SidesAgree'
  <2> SUFFICES ASSUME NEW v \in Vaults, NEW w \in Vaults, NEW e \in Epochs
               PROVE  /\ epochExists'[v][e] = epochExists'[w][e]
                      /\ epochResolved'[v][e] = epochResolved'[w][e]
    BY DEF SidesAgree
  <2>1. /\ epochExists[v][e] = epochExists[w][e]
        /\ epochResolved[v][e] = epochResolved[w][e]
    BY DEF SidesAgree
  <2>2. epochResolved' \in PerEpoch(BOOLEAN)
    BY DEF VaultTypeOK
  <2>3. epochResolved'[v][e] \in BOOLEAN /\ epochResolved'[w][e] \in BOOLEAN
    BY <2>2 DEF PerEpoch
  <2>4. epochResolved'[v][e] <=> epochResolved'[w][e]
    BY <1>2, <2>1
  <2>5. QED
    BY <1>1, <2>1, <2>3, <2>4
<1>10. QED
  BY <1>8, <1>9

\* What is left after the fee is the net amount of the escrow.
LEMMA NetOfFee ==
    ASSUME VaultTypeOK, NEW v \in Vaults, NEW id \in Epochs,
           Fee(v, id) <= totalSupply[v][id]
    PROVE  Escrow!IsNet(TVLAfterFee(v, id), totalSupply[v][id], id)
<1>1. totalSupply[v][id] \in Nat /\ epochFee[id] \in Nat
  BY DEF VaultTypeOK, PerEpoch
<1> DEFINE fee == MulDivDown(totalSupply[v][id], epochFee[id], BPS)
<1>2. fee \in Nat /\ BPS * fee <= totalSupply[v][id] * epochFee[id]
  <2>1. BPS \in Nat \ {0}
    BY DEF BPS
  <2>2. QED
    BY <1>1, <2>1, MulDivDownBound
<1>3. Fee(v, id) = fee
  BY DEF Fee, CalculateWithdrawalFeeValue
<1> HIDE DEF fee
<1>4. QED
  BY <1>1, <1>2, <1>3 DEF TVLAfterFee, Escrow!IsNet, BPS

\* A liquidation inside the window, with both sides taking part, is an
\* insured outcome.
LEMMA SettleDepegMaps ==
    ASSUME VaultTypeOK, OpenBacked, SidesAgree, NEW id \in Epochs, NEW receiver,
           \A v \in Vaults : epochExists[v][id],
           now >= EpochBegin(id), now <= EpochEnd(id), ~ZeroTVL(id),
           SettleDepeg(id, receiver)
    PROVE  Escrow!Settle(id) /\ SidesAgree'
<1>1. VaultTypeOK' /\ SettledAs(id, DepegClaim(id))
  BY SettleDepegPreserves
<1>2. /\ ResolveEpoch(id) /\ UNCHANGED settleUnchanged
      /\ \A v \in Vaults : Fee(v, id) <= totalSupply[v][id]
  BY DEF SettleDepeg
<1>3. \A v \in Vaults : TVLAfterFee(v, id) \in Nat /\ totalSupply[v][id] \in Nat
  BY <1>2, FeeType
<1>4. DepegClaim(id) \in [Vaults -> Nat]
  BY <1>3, SidesAreVaults DEF DepegClaim
<1>5. \A v \in Vaults : totalSupply[v][id] > 0
  BY <1>3 DEF ZeroTVL
<1>6. \A v \in Vaults :
          Escrow!IsNet(claimTVL'[v][id], totalSupply[Escrow!Other(v)][id], id)
  <2> SUFFICES ASSUME NEW v \in Vaults
               PROVE  Escrow!IsNet(claimTVL'[v][id],
                                   totalSupply[Escrow!Other(v)][id], id)
    OBVIOUS
  <2>1. claimTVL'[v][id] = TVLAfterFee(CounterPartyVault(v), id)
    BY <1>1 DEF SettledAs, DepegClaim
  <2>2. CounterPartyVault(v) \in Vaults /\ Escrow!Other(v) = CounterPartyVault(v)
    BY SidesAreVaults
  <2>3. QED
    BY <1>2, <2>1, <2>2, NetOfFee
<1>7. Escrow!Insured(id)
  BY <1>5, <1>6, SidesAreVaults DEF Escrow!Insured, EpochBegin, EpochEnd
<1>8. QED
  BY <1>1, <1>2, <1>4, <1>7, SettlementMaps

\* The end of an epoch after its last timestamp is an expired outcome.
LEMMA SettleEndMaps ==
    ASSUME VaultTypeOK, OpenBacked, SidesAgree, NEW id \in Epochs, NEW receiver,
           \A v \in Vaults : epochExists[v][id],
           now > EpochEnd(id), SettleEnd(id, receiver)
    PROVE  Escrow!Settle(id) /\ SidesAgree'
<1>1. VaultTypeOK' /\ SettledAs(id, EndClaim(id))
  BY SettleEndPreserves
<1>2. /\ ResolveEpoch(id) /\ UNCHANGED settleUnchanged
      /\ Fee(Premium, id) <= totalSupply[Premium][id]
  BY DEF SettleEnd
<1>3. /\ TVLAfterFee(Premium, id) \in Nat
      /\ \A v \in Vaults : totalSupply[v][id] \in Nat
  BY <1>2, FeeType, SidesAreVaults
<1>4. EndClaim(id) \in [Vaults -> Nat]
  BY <1>3, SidesAreVaults DEF EndClaim
<1>5. /\ claimTVL'[Premium][id] = 0
      /\ claimTVL'[Collateral][id] =
            totalSupply[Collateral][id] + TVLAfterFee(Premium, id)
  BY <1>1, SidesAreVaults DEF SettledAs, EndClaim
<1>6. claimTVL'[Collateral][id] - totalSupply[Collateral][id]
          = TVLAfterFee(Premium, id)
  BY <1>3, <1>5, SidesAreVaults
<1>7. Escrow!IsNet(TVLAfterFee(Premium, id), totalSupply[Premium][id], id)
  BY <1>2, NetOfFee, SidesAreVaults
<1>8. Escrow!Expired(id)
  BY <1>5, <1>6, <1>7 DEF Escrow!Expired, EpochEnd
<1>9. QED
  BY <1>1, <1>2, <1>4, <1>8, SettlementMaps

\* A null epoch is refunded.
LEMMA SettleNullMaps ==
    ASSUME VaultTypeOK, OpenBacked, SidesAgree, NEW id \in Epochs,
           \A v \in Vaults : epochExists[v][id], SettleNull(id)
    PROVE  Escrow!Settle(id) /\ SidesAgree'
<1> DEFINE claim == [v \in Vaults |-> totalSupply[v][id]]
<1>1. VaultTypeOK' /\ SettledAs(id, claim)
  BY SettleNullPreserves
<1>2. ResolveEpoch(id) /\ UNCHANGED settleUnchanged /\ ZeroTVL(id)
  BY DEF SettleNull
<1>3. claim \in [Vaults -> Nat]
  BY DEF VaultTypeOK, PerEpoch
<1>4. Escrow!Refunded(id)
  BY <1>1, <1>2, SidesAreVaults DEF Escrow!Refunded, SettledAs, ZeroTVL
<1> HIDE DEF claim
<1>5. QED
  BY <1>1, <1>2, <1>3, <1>4, SettlementMaps

-----------------------------------------------------------------------------
(* When a settlement goes through.  Its guards are a predicate of the      *)
(* state before it, the rest of it assigns every variable a value computed *)
(* from that state; so it can be taken when, and only when, they hold.     *)

\* What resolveEpoch and the two sendTokens assign.
FinalIsSupply(id) ==
    finalTVL' = [v \in Vaults |-> [finalTVL[v] EXCEPT ![id] = totalSupply[v][id]]]

SendsWrite(id, fee, out) ==
    /\ epochAccounting' =
          [v \in Vaults |-> [epochAccounting[v] EXCEPT ![id] =
                                @ + fee[v] + out[v]]]
    /\ asset' = [v \in Vaults |->
                    asset[v] - fee[v] - out[v] + out[CounterPartyVault(v)]]
    /\ funds' = [v \in Vaults |-> [funds[v] EXCEPT ![id] =
                    @ - fee[v] - out[v] + out[CounterPartyVault(v)]]]

\* The assignments of a settlement: no variable is left out, none is read
\* after it is written.
SettlementWrites(id, claim, fee, out, null) ==
    /\ epochResolved' =
          [v \in Vaults |-> [epochResolved[v] EXCEPT ![id] = TRUE]]
    /\ FinalIsSupply(id)
    /\ claimTVL' = [v \in Vaults |-> [claimTVL[v] EXCEPT ![id] = claim[v]]]
    /\ SendsWrite(id, fee, out)
    /\ epochNull' = null
    /\ UNCHANGED settleUnchanged

DepegWrites(id) ==
    SettlementWrites(id, DepegClaim(id), [v \in Vaults |-> Fee(v, id)],
                     [v \in Vaults |-> TVLAfterFee(v, id)], epochNull)

EndWrites(id) ==
    SettlementWrites(id, EndClaim(id),
                     [v \in Vaults |-> IF v = Premium THEN Fee(v, id) ELSE 0],
                     [v \in Vaults |-> IF v = Premium THEN TVLAfterFee(v, id)
                                                      ELSE 0],
                     epochNull)

NullWrites(id) ==
    SettlementWrites(id, [v \in Vaults |-> IF v = NullSide(id)
                                           THEN totalSupply[v][id] ELSE 0],
                     [v \in Vaults |-> 0], [v \in Vaults |-> 0],
                     [epochNull EXCEPT ![NullSide(id)][id] = TRUE])

\* The sends find the final TVL that resolveEpoch wrote before them.
LEMMA SendsSeeSupply ==
    ASSUME VaultTypeOK, NEW id \in Epochs, NEW fee, NEW out, NEW receiver,
           FinalIsSupply(id)
    PROVE  SendTokens(id, fee, out, receiver) <=>
              SendsPass(id, fee, out, receiver) /\ SendsWrite(id, fee, out)
<1>1. \A v \in Vaults : finalTVL'[v][id] = totalSupply[v][id]
  BY DEF VaultTypeOK, PerEpoch, FinalIsSupply
<1>2. (\A v \in Vaults :
          epochAccounting[v][id] + fee[v] + out[v] <= finalTVL'[v][id])
      <=> \A v \in Vaults :
              epochAccounting[v][id] + fee[v] + out[v] <= totalSupply[v][id]
  BY <1>1
<1>3. QED
  BY <1>2 DEF SendTokens, SendsPass, SendsWrite

\* triggerDepeg and triggerLiquidation settle exactly when DepegPasses.
LEMMA DepegByGuards ==
    ASSUME VaultTypeOK, NEW id \in Epochs, NEW receiver
    PROVE  SettleDepeg(id, receiver) <=>
              DepegPasses(id, receiver) /\ DepegWrites(id)
<1> DEFINE fee == [v \in Vaults |-> Fee(v, id)]
           out == [v \in Vaults |-> TVLAfterFee(v, id)]
<1>1. SettleDepeg(id, receiver) <=>
          /\ \A v \in Vaults : Fee(v, id) <= totalSupply[v][id]
          /\ ResolveEpoch(id)
          /\ SetClaimTVL(id, DepegClaim(id))
          /\ SendTokens(id, fee, out, receiver)
          /\ UNCHANGED <<settleUnchanged, epochNull>>
  BY DEF SettleDepeg
<1>2. DepegPasses(id, receiver) <=>
          /\ \A v \in Vaults : Fee(v, id) <= totalSupply[v][id]
          /\ ResolvePasses(id)
          /\ SendsPass(id, fee, out, receiver)
  BY DEF DepegPasses
<1>3. DepegWrites(id) <=> SettlementWrites(id, DepegClaim(id), fee, out, epochNull)
  BY DEF DepegWrites
<1> HIDE DEF fee, out
<1>4. ResolveEpoch(id) <=>
          /\ ResolvePasses(id)
          /\ epochResolved' =
                [v \in Vaults |-> [epochResolved[v] EXCEPT ![id] = TRUE]]
          /\ FinalIsSupply(id)
  BY DEF ResolveEpoch, ResolvePasses, FinalIsSupply
<1>5. FinalIsSupply(id) =>
          (SendTokens(id, fee, out, receiver) <=>
              SendsPass(id, fee, out, receiver) /\ SendsWrite(id, fee, out))
  BY SendsSeeSupply
<1>6. SettlementWrites(id, DepegClaim(id), fee, out, epochNull) <=>
          /\ epochResolved' =
                [v \in Vaults |-> [epochResolved[v] EXCEPT ![id] = TRUE]]
          /\ FinalIsSupply(id)
          /\ SetClaimTVL(id, DepegClaim(id))
          /\ SendsWrite(id, fee, out)
          /\ UNCHANGED <<settleUnchanged, epochNull>>
  BY DEF SettlementWrites, SetClaimTVL
<1>7. QED
  BY <1>1, <1>2, <1>3, <1>4, <1>5, <1>6

\* triggerEndEpoch settles exactly when EndPasses.
LEMMA EndByGuards ==
    ASSUME VaultTypeOK, NEW id \in Epochs, NEW receiver
    PROVE  SettleEnd(id, receiver) <=> EndPasses(id, receiver) /\ EndWrites(id)
<1> DEFINE fee == [v \in Vaults |-> IF v = Premium THEN Fee(v, id) ELSE 0]
           out == [v \in Vaults |-> IF v = Premium THEN TVLAfterFee(v, id)
                                                   ELSE 0]
<1>1. SettleEnd(id, receiver) <=>
          /\ Fee(Premium, id) <= totalSupply[Premium][id]
          /\ ResolveEpoch(id)
          /\ SetClaimTVL(id, EndClaim(id))
          /\ SendTokens(id, fee, out, receiver)
          /\ UNCHANGED <<settleUnchanged, epochNull>>
  BY DEF SettleEnd
<1>2. EndPasses(id, receiver) <=>
          /\ Fee(Premium, id) <= totalSupply[Premium][id]
          /\ ResolvePasses(id)
          /\ SendsPass(id, fee, out, receiver)
  BY DEF EndPasses
<1>3. EndWrites(id) <=> SettlementWrites(id, EndClaim(id), fee, out, epochNull)
  BY DEF EndWrites
<1> HIDE DEF fee, out
<1>4. ResolveEpoch(id) <=>
          /\ ResolvePasses(id)
          /\ epochResolved' =
                [v \in Vaults |-> [epochResolved[v] EXCEPT ![id] = TRUE]]
          /\ FinalIsSupply(id)
  BY DEF ResolveEpoch, ResolvePasses, FinalIsSupply
<1>5. FinalIsSupply(id) =>
          (SendTokens(id, fee, out, receiver) <=>
              SendsPass(id, fee, out, receiver) /\ SendsWrite(id, fee, out))
  BY SendsSeeSupply
<1>6. SettlementWrites(id, EndClaim(id), fee, out, epochNull) <=>
          /\ epochResolved' =
                [v \in Vaults |-> [epochResolved[v] EXCEPT ![id] = TRUE]]
          /\ FinalIsSupply(id)
          /\ SetClaimTVL(id, EndClaim(id))
          /\ SendsWrite(id, fee, out)
          /\ UNCHANGED <<settleUnchanged, epochNull>>
  BY DEF SettlementWrites, SetClaimTVL
<1>7. QED
  BY <1>1, <1>2, <1>3, <1>4, <1>5, <1>6

\* triggerNullEpoch settles exactly when NullPasses; sending nothing is what its
\* lack of a call of sendTokens amounts to.
LEMMA NullByGuards ==
    ASSUME VaultTypeOK, NEW id \in Epochs
    PROVE  SettleNull(id) <=> NullPasses(id) /\ NullWrites(id)
<1> DEFINE none == [v \in Vaults |-> 0]
<1>1. \A v \in Vaults : none[v] = 0 /\ none[CounterPartyVault(v)] = 0
  BY DEF CounterPartyVault, Vaults
<1> HIDE DEF none
<1>2. epochAccounting = [v \in Vaults |-> [epochAccounting[v] EXCEPT ![id] =
                                             @ + none[v] + none[v]]]
  BY <1>1 DEF VaultTypeOK, PerEpoch
<1>3. asset = [v \in Vaults |->
                 asset[v] - none[v] - none[v] + none[CounterPartyVault(v)]]
  BY <1>1 DEF VaultTypeOK
<1>4. funds = [v \in Vaults |-> [funds[v] EXCEPT ![id] =
                 @ - none[v] - none[v] + none[CounterPartyVault(v)]]]
  BY <1>1 DEF VaultTypeOK, PerEpoch
<1>5. NullWrites(id) <=>
          SettlementWrites(id, [v \in Vaults |-> IF v = NullSide(id)
                                                 THEN totalSupply[v][id] ELSE 0],
                           none, none,
                           [epochNull EXCEPT ![NullSide(id)][id] = TRUE])
  BY DEF NullWrites, none
<1>6. QED
  BY <1>2, <1>3, <1>4, <1>5
     DEF SettleNull, NullPasses, ResolveEpoch, ResolvePasses, SetClaimTVL,
         SetEpochNull, NoTokensSent, SettlementWrites, FinalIsSupply, SendsWrite

-----------------------------------------------------------------------------
(* Why the guards inside a settlement hold once the checks of the trigger  *)
(* have passed.                                                            *)

\* Users and time neither create nor settle an epoch, and the factory creates
\* one on both vaults, with its begin before its end.
LEMMA QuietKeepsFresh ==
    ASSUME VaultTypeOK, SidesAgree, EpochsFresh, Tick \/ UserNext \/ FactoryNext
    PROVE  SidesAgree' /\ EpochsFresh'
<1> USE DEF settleVars
<1>1. ASSUME UNCHANGED <<epochExists, epochResolved, epochAccounting>>
      PROVE  SidesAgree' /\ EpochsFresh'
  BY <1>1 DEF SidesAgree, EpochsFresh
<1>2. CASE Tick
  BY <1>1, <1>2 DEF Tick
<1>3. CASE UserNext
  BY <1>1, <1>3
     DEF UserNext, Deposit, DepositETH, TakeIn, Withdraw, SafeTransferFrom
<1>4. ASSUME NEW id \in Epochs, NEW fee \in WithdrawalFees, CreateEpoch(id, fee)
      PROVE  SidesAgree' /\ EpochsFresh'
  <2>1. UNCHANGED <<epochResolved, epochAccounting>> /\ EpochBegin(id) < EpochEnd(id)
    BY <1>4 DEF CreateEpoch
  <2>2. \A v \in Vaults : /\ epochExists'[v][id] = TRUE
                          /\ \A e \in Epochs \ {id} :
                                epochExists'[v][e] = epochExists[v][e]
    BY <1>4 DEF CreateEpoch, VaultTypeOK, PerEpoch
  <2>3. SidesAgree'
    <3> SUFFICES ASSUME NEW v \in Vaults, NEW w \in Vaults, NEW e \in Epochs
                 PROVE  /\ epochExists'[v][e] = epochExists'[w][e]
                        /\ epochResolved'[v][e] = epochResolved'[w][e]
      BY DEF SidesAgree
    <3>1. /\ epochExists[v][e] = epochExists[w][e]
          /\ epochResolved[v][e] = epochResolved[w][e]
      BY DEF SidesAgree
    <3>2. epochExists'[v][e] = epochExists'[w][e]
      BY <2>2, <3>1
    <3>3. QED
      BY <2>1, <3>1, <3>2
  <2>4. EpochsFresh'
    BY <2>1, <2>2 DEF EpochsFresh
  <2>5. QED
    BY <2>3, <2>4
<1>5. CASE FactoryNext
  BY <1>1, <1>4, <1>5
     DEF FactoryNext, PauseMarket, SetTreasury, WhitelistController,
         WhitelistAddressOnMarket
<1>6. QED
  BY <1>2, <1>3, <1>5

\* A settlement resolves both sides of one epoch and counts only its sends.
LEMMA SettleKeepsFresh ==
    ASSUME VaultTypeOK, SidesAgree, EpochsFresh, NEW id \in Epochs, NEW receiver,
           \/ SettleDepeg(id, receiver)
           \/ SettleEnd(id, receiver)
           \/ SettleNull(id)
    PROVE  SidesAgree' /\ EpochsFresh'
<1>1. UNCHANGED epochExists
  BY DEF SettleDepeg, SettleEnd, SettleNull, settleUnchanged
<1>2. ResolveEpoch(id)
  BY DEF SettleDepeg, SettleEnd, SettleNull
<1>3. \A v \in Vaults : /\ epochResolved'[v][id] = TRUE
                        /\ \A e \in Epochs \ {id} :
                              epochResolved'[v][e] = epochResolved[v][e]
  BY <1>2 DEF ResolveEpoch, VaultTypeOK, PerEpoch
<1>4. ASSUME NEW fee, NEW out, SendTokens(id, fee, out, receiver)
      PROVE  \A v \in Vaults, e \in Epochs \ {id} :
                 epochAccounting'[v][e] = epochAccounting[v][e]
  BY <1>4 DEF SendTokens, VaultTypeOK, PerEpoch
<1>5. \A v \in Vaults, e \in Epochs \ {id} :
          epochAccounting'[v][e] = epochAccounting[v][e]
  BY <1>4 DEF SettleDepeg, SettleEnd, SettleNull, NoTokensSent
<1>6. SidesAgree'
  <2> SUFFICES ASSUME NEW v \in Vaults, NEW w \in Vaults, NEW e \in Epochs
               PROVE  /\ epochExists'[v][e] = epochExists'[w][e]
                      /\ epochResolved'[v][e] = epochResolved'[w][e]
    BY DEF SidesAgree
  <2>1. /\ epochExists[v][e] = epochExists[w][e]
        /\ epochResolved[v][e] = epochResolved[w][e]
    BY DEF SidesAgree
  <2>2. epochResolved'[v][e] = epochResolved'[w][e]
    BY <1>3, <2>1
  <2>3. QED
    BY <1>1, <2>1, <2>2
<1>7. EpochsFresh'
  BY <1>1, <1>3, <1>5 DEF EpochsFresh
<1>8. QED
  BY <1>6, <1>7

\* A fresh market has no epoch yet.
LEMMA InitFresh ==
    VaultInit => SidesAgree /\ EpochsFresh
<1> SUFFICES ASSUME VaultInit PROVE SidesAgree /\ EpochsFresh
  OBVIOUS
<1>1. \A v \in Vaults, id \in Epochs : /\ epochExists[v][id] = FALSE
                                      /\ epochResolved[v][id] = FALSE
                                      /\ epochAccounting[v][id] = 0
  BY DEF VaultInit
<1>2. QED
  BY <1>1 DEF SidesAgree, EpochsFresh

\* A fee of at most 100% does not exceed what it is taken from.
LEMMA FeeWithinSupply ==
    ASSUME VaultTypeOK, NEW v \in Vaults, NEW id \in Epochs, epochFee[id] <= BPS
    PROVE  Fee(v, id) <= totalSupply[v][id]
<1> DEFINE n == totalSupply[v][id]
           f == epochFee[id]
           q == MulDivDown(n, f, BPS)
<1>1. n \in Nat /\ f \in Nat /\ f <= BPS
  BY DEF VaultTypeOK, PerEpoch
<1>2. q \in Nat /\ BPS * q <= n * f
  <2>1. BPS \in Nat \ {0} /\ n \in Nat /\ f \in Nat
    BY <1>1 DEF BPS
  <2> HIDE DEF n, f
  <2>2. QED
    BY <2>1, MulDivDownBound
<1>3. Fee(v, id) = q
  BY DEF Fee, CalculateWithdrawalFeeValue
<1> HIDE DEF n, f, q
<1>4. n * f <= n * BPS
  BY <1>1 DEF BPS
<1>5. \A a, b \in Nat : BPS * a <= b * BPS => a <= b
  BY DEF BPS
<1>6. BPS * q <= n * BPS
  <2>1. n * f \in Nat /\ n * BPS \in Nat /\ BPS * q \in Nat
    BY <1>1, <1>2 DEF BPS
  <2>2. QED
    BY <2>1, <1>2, <1>4
<1>7. q <= n
  BY <1>1, <1>2, <1>5, <1>6
<1>8. QED
  BY <1>3, <1>7 DEF n

\* Once the trigger has found an epoch created, begun and not finished,
\* resolveEpoch finds nothing to object to on either vault.
LEMMA TriggerResolves ==
    ASSUME SidesAgree, NEW id \in Epochs, epochExists[Premium][id],
           ~FinishedAlready(id), now >= EpochBegin(id)
    PROVE  ResolvePasses(id)
<1>1. \A v \in Vaults : epochExists[v][id]
  BY SidesAreVaults DEF SidesAgree
<1>2. QED
  BY <1>1 DEF ResolvePasses, EpochHasStarted, FinishedAlready

\* The sends of such a settlement are stopped by the treasury alone: nothing
\* was counted before, what a vault sends is what its holders paid in, and
\* that is in its balance when no share was minted late.
LEMMA SendsCovered ==
    ASSUME VaultInv, \A v \in Vaults : Undiluted(v), EpochsFresh,
           NEW id \in Epochs, NEW receiver, ~FinishedAlready(id),
           NEW fee \in [Vaults -> Nat], NEW out \in [Vaults -> Nat],
           \A v \in Vaults : fee[v] + out[v] <= totalSupply[v][id]
    PROVE  SendsPass(id, fee, out, receiver) <=> DestinationAuthorized(receiver)
<1>1. \A v \in Vaults : ~epochResolved[v][id]
  BY DEF FinishedAlready
<1>2. \A v \in Vaults : epochAccounting[v][id] = 0
  BY <1>1 DEF EpochsFresh
<1>3. \A v \in Vaults : totalSupply[v][id] <= asset[v]
  <2> SUFFICES ASSUME NEW v \in Vaults PROVE totalSupply[v][id] <= asset[v]
    OBVIOUS
  <2>1. funds[v][id] = totalSupply[v][id]
    BY <1>1 DEF VaultInv, OpenBacked
  <2>2. funds[v][id] <= asset[v]
    BY AccountWithinBalance
  <2>3. QED
    BY <2>1, <2>2
<1>4. \A v \in Vaults : /\ totalSupply[v][id] \in Nat /\ asset[v] \in Nat
                        /\ fee[v] \in Nat /\ out[v] \in Nat
  BY DEF VaultInv, VaultTypeOK, PerEpoch
<1>5. \A v \in Vaults : /\ epochAccounting[v][id] + fee[v] + out[v]
                               <= totalSupply[v][id]
                        /\ fee[v] + out[v] <= asset[v]
  BY <1>2, <1>3, <1>4
<1>6. fee[Collateral] + out[Collateral] <= asset[Collateral] + out[Premium]
  BY <1>4, <1>5, SidesAreVaults
<1>7. QED
  BY <1>5, <1>6, SidesAreVaults DEF SendsPass

\* So a settlement goes through exactly when the treasury is accepted.
LEMMA SettlementPasses ==
    ASSUME VaultInv, \A v \in Vaults : Undiluted(v), SidesAgree, EpochsFresh,
           NEW id \in Epochs, NEW receiver,
           epochFee[id] <= BPS, epochExists[Premium][id],
           ~FinishedAlready(id), now >= EpochBegin(id)
    PROVE  /\ DepegPasses(id, receiver) <=> DestinationAuthorized(receiver)
           /\ EndPasses(id, receiver) <=> DestinationAuthorized(receiver)
<1>1. ResolvePasses(id)
  BY TriggerResolves
<1>2. VaultTypeOK
  BY DEF VaultInv
<1>3. \A v \in Vaults : /\ Fee(v, id) <= totalSupply[v][id]
                        /\ Fee(v, id) \in Nat /\ TVLAfterFee(v, id) \in Nat
                        /\ totalSupply[v][id] \in Nat
                        /\ Fee(v, id) + TVLAfterFee(v, id) = totalSupply[v][id]
  <2> SUFFICES ASSUME NEW v \in Vaults
               PROVE  /\ Fee(v, id) <= totalSupply[v][id]
                      /\ Fee(v, id) \in Nat /\ TVLAfterFee(v, id) \in Nat
                      /\ totalSupply[v][id] \in Nat
                      /\ Fee(v, id) + TVLAfterFee(v, id) = totalSupply[v][id]
    OBVIOUS
  <2>1. Fee(v, id) <= totalSupply[v][id]
    BY <1>2, FeeWithinSupply
  <2>2. /\ Fee(v, id) \in Nat /\ TVLAfterFee(v, id) \in Nat
        /\ totalSupply[v][id] \in Nat
    BY <1>2, <2>1, FeeType
  <2>3. QED
    BY <2>1, <2>2 DEF TVLAfterFee
<1>4. DepegPasses(id, receiver) <=> DestinationAuthorized(receiver)
  <2> DEFINE fee == [v \in Vaults |-> Fee(v, id)]
             out == [v \in Vaults |-> TVLAfterFee(v, id)]
  <2>1. /\ fee \in [Vaults -> Nat] /\ out \in [Vaults -> Nat]
        /\ \A v \in Vaults : fee[v] + out[v] <= totalSupply[v][id]
    BY <1>3
  <2>2. DepegPasses(id, receiver) <=> SendsPass(id, fee, out, receiver)
    BY <1>1, <1>3 DEF DepegPasses
  <2> HIDE DEF fee, out
  <2>3. QED
    BY <2>1, <2>2, SendsCovered
<1>5. EndPasses(id, receiver) <=> DestinationAuthorized(receiver)
  <2> DEFINE fee == [v \in Vaults |-> IF v = Premium THEN Fee(v, id) ELSE 0]
             out == [v \in Vaults |-> IF v = Premium THEN TVLAfterFee(v, id)
                                                     ELSE 0]
  <2>1. /\ fee \in [Vaults -> Nat] /\ out \in [Vaults -> Nat]
        /\ \A v \in Vaults : fee[v] + out[v] <= totalSupply[v][id]
    BY <1>3
  <2>2. EndPasses(id, receiver) <=> SendsPass(id, fee, out, receiver)
    BY <1>1, <1>3, SidesAreVaults DEF EndPasses
  <2> HIDE DEF fee, out
  <2>3. QED
    BY <2>1, <2>2, SendsCovered
<1>6. QED
  BY <1>4, <1>5
=============================================================================
