--------------------------- MODULE TimeLockProofs ---------------------------
(***************************************************************************)
(* What the time lock guarantees for any accounts, calls, controllers and  *)
(* block times.                                                            *)
(***************************************************************************)
EXTENDS TimeLock, TLAPS

\* Some address operates on the factory, directly or through the time lock.
FactoryStep(sender) ==
    \/ \E m \in Markets, c \in Controllers, oracle \in Oracles :
          CreateNewMarket(sender, m, c, oracle)
    \/ \E m \in Markets, e \in EpochConfigs : CreateEpoch(sender, m, e)
    \/ RenounceOwnership(sender)
    \/ \E call \in TimelockerCalls : Perform(sender, call)

\* The arguments of a call are of the types its function takes.
LEMMA CallArguments ==
    ASSUME NEW call \in TimelockerCalls
    PROVE  /\ call[1] = "whitelistController" => call[2] \in Controllers
           /\ call[1] = "changeController" =>
                 call[2] \in Markets /\ call[3] \in Controllers
  BY DEF TimelockerCalls

\* An operation of the factory keeps to the owner's one choice and to vetted
\* controllers.
LEMMA FactoryKeepsVetted ==
    ASSUME controller \in [Markets -> Controllers \cup {NoAddress}],
           ChoiceUsedUp, ControllersVetted, NEW sender, FactoryStep(sender)
    PROVE  /\ controller' \in [Markets -> Controllers \cup {NoAddress}]
           /\ ChoiceUsedUp' /\ ControllersVetted'
           /\ ownerSet' # ownerSet => ownerSet = {} /\ timelockerSet = {}
<1> USE DEF ChoiceUsedUp, ControllersVetted, MarketExists
<1>1. ASSUME NEW m \in Markets, NEW c \in Controllers, NEW oracle \in Oracles,
             CreateNewMarket(sender, m, c, oracle)
      PROVE  /\ controller' \in [Markets -> Controllers \cup {NoAddress}]
             /\ ChoiceUsedUp' /\ ControllersVetted' /\ ownerSet' = ownerSet
  BY <1>1 DEF CreateNewMarket, ControllerListed
<1>2. ASSUME NEW m \in Markets, NEW c \in Controllers,
             ChangeController(sender, m, c)
      PROVE  /\ controller' \in [Markets -> Controllers \cup {NoAddress}]
             /\ ChoiceUsedUp' /\ ControllersVetted' /\ ownerSet' = ownerSet
  BY <1>2 DEF ChangeController
<1>3. ASSUME NEW c \in Controllers, WhitelistController(sender, c)
      PROVE  /\ controller' = controller
             /\ ChoiceUsedUp' /\ ControllersVetted'
             /\ ownerSet' # ownerSet => ownerSet = {} /\ timelockerSet = {}
  BY <1>3 DEF WhitelistController, OwnerMaySet
<1>4. ASSUME UNCHANGED <<adminSetController, controllers, controller,
                         ownerSet, timelockerSet>>
      PROVE  /\ controller' = controller
             /\ ChoiceUsedUp' /\ ControllersVetted' /\ ownerSet' = ownerSet
  BY <1>4
<1>5. ASSUME \/ \E m \in Markets, e \in EpochConfigs : CreateEpoch(sender, m, e)
             \/ RenounceOwnership(sender)
      PROVE  UNCHANGED <<adminSetController, controllers, controller,
                         ownerSet, timelockerSet>>
  BY <1>5 DEF CreateEpoch, RenounceOwnership
<1>6. ASSUME NEW call \in TimelockerCalls, Perform(sender, call),
             call[1] # "whitelistController", call[1] # "changeController"
      PROVE  UNCHANGED <<adminSetController, controllers, controller,
                         ownerSet, timelockerSet>>
  BY <1>6 DEF Perform, WhitelistAddressOnMarket, SetTreasury, ChangeOracle,
              TransferOwnership, ChangeTimelocker
<1>7. ASSUME NEW call \in TimelockerCalls, Perform(sender, call),
             call[1] = "whitelistController"
      PROVE  call[2] \in Controllers /\ WhitelistController(sender, call[2])
  BY <1>7, CallArguments DEF Perform
<1>8. ASSUME NEW call \in TimelockerCalls, Perform(sender, call),
             call[1] = "changeController"
      PROVE  /\ call[2] \in Markets /\ call[3] \in Controllers
             /\ ChangeController(sender, call[2], call[3])
  BY <1>8, CallArguments DEF Perform
<1> USE DEF FactoryStep
<1>9. CASE \E m \in Markets, c \in Controllers, oracle \in Oracles :
              CreateNewMarket(sender, m, c, oracle)
  BY <1>1, <1>9
<1>10. CASE \/ \E m \in Markets, e \in EpochConfigs : CreateEpoch(sender, m, e)
            \/ RenounceOwnership(sender)
  BY <1>4, <1>5, <1>10
<1>11. ASSUME NEW call \in TimelockerCalls, Perform(sender, call)
       PROVE  /\ controller' \in [Markets -> Controllers \cup {NoAddress}]
              /\ ChoiceUsedUp' /\ ControllersVetted'
              /\ ownerSet' # ownerSet => ownerSet = {} /\ timelockerSet = {}
  <2>1. CASE call[1] = "whitelistController"
    BY <1>3, <1>7, <1>11, <2>1
  <2>2. CASE call[1] = "changeController"
    BY <1>2, <1>8, <1>11, <2>2
  <2>3. CASE call[1] # "whitelistController" /\ call[1] # "changeController"
    BY <1>4, <1>6, <1>11, <2>3
  <2>4. QED
    BY <2>1, <2>2, <2>3
<1>12. QED
  BY <1>9, <1>10, <1>11

\* An account that calls the factory itself changes nothing its users rely on
\* while the time lock is the timelocker.
LEMMA AccountsCannotChange ==
    ASSUME ChoiceUsedUp, timelocker = Lock,
           controller \in [Markets -> Controllers \cup {NoAddress}],
           NEW sender \in Accounts, FactoryStep(sender)
    PROVE  ~ReliedOnChanges
<1>1. sender # timelocker
  BY AddressesAssumption
<1>2. ASSUME NEW m \in Markets, NEW c \in Controllers, NEW oracle \in Oracles,
             CreateNewMarket(sender, m, c, oracle)
      PROVE  ~ReliedOnChanges
  BY <1>2 DEF CreateNewMarket, ReliedOnChanges, MarketExists
<1>3. ASSUME \/ \E m \in Markets, e \in EpochConfigs : CreateEpoch(sender, m, e)
             \/ RenounceOwnership(sender)
      PROVE  ~ReliedOnChanges
  BY <1>3 DEF CreateEpoch, RenounceOwnership, ReliedOnChanges
<1>4. ASSUME NEW call \in TimelockerCalls, Perform(sender, call)
      PROVE  ~ReliedOnChanges
  <2>1. WhitelistController(sender, call[2])
    BY <1>1, <1>4 DEF Perform, WhitelistAddressOnMarket, SetTreasury,
                      ChangeController, ChangeOracle, TransferOwnership,
                      ChangeTimelocker
  <2>2. ownerSet' = ownerSet \cup {call[2]} /\ ownerSet = {}
    BY <1>1, <2>1 DEF WhitelistController, OwnerMaySet, ChoiceUsedUp
  <2>3. UNCHANGED <<treasury, controller, marketToOracle, whitelistedAddresses>>
    BY <2>1 DEF WhitelistController
  <2>4. QED
    BY <2>2, <2>3 DEF ReliedOnChanges
<1>5. QED
  BY <1>2, <1>3, <1>4 DEF FactoryStep

-----------------------------------------------------------------------------
(* The queue.                                                              *)

\* Queueing, cancelling and executing keep what is queued in range.
LEMMA QueueStays ==
    ASSUME now \in BlockTimes, QueueInRange,
           NEW sender \in Accounts, NEW call \in QueuedCalls,
           NEW timestamp \in Timestamps,
           \/ Queue(sender, call, timestamp)
           \/ Execute(sender, call, timestamp)
           \/ Cancel(sender, call, timestamp)
    PROVE  QueueInRange' /\ now' = now
<1> DEFINE tx == <<call, timestamp>>
<1>1. tx \in Txs /\ tx[2] = timestamp
  BY DEF Txs
<1>2. now \in Nat /\ timestamp \in Nat /\ now # Never
  BY TimesAssumption DEF Never
<1>3. CASE Queue(sender, call, timestamp)
  <2>1. /\ queued' = queued \cup {tx}
        /\ queuedAt' = [queuedAt EXCEPT ![tx] = now]
        /\ timestamp >= now + MIN_DELAY /\ timestamp <= now + MAX_DELAY
        /\ now' = now
    BY <1>3 DEF Queue, InRange
  <2> HIDE DEF tx
  <2>2. queuedAt'[tx] = now
    BY <1>1, <2>1 DEF QueueInRange
  <2>3. \A x \in Txs : x # tx => queuedAt'[x] = queuedAt[x]
    BY <2>1 DEF QueueInRange
  <2>4. \A x \in queued' : /\ queuedAt'[x] # Never
                           /\ x[2] >= queuedAt'[x] + MIN_DELAY
                           /\ x[2] <= queuedAt'[x] + MAX_DELAY
    BY <1>1, <1>2, <2>1, <2>2, <2>3 DEF QueueInRange
  <2>5. queued' \subseteq Txs /\ queuedAt' \in [Txs -> BlockTimes \cup {Never}]
    BY <1>1, <2>1 DEF QueueInRange
  <2>6. QED
    BY <2>1, <2>4, <2>5 DEF QueueInRange
<1>4. CASE Execute(sender, call, timestamp) \/ Cancel(sender, call, timestamp)
  <2>1. /\ queued' = queued \ {tx}
        /\ queuedAt' = [queuedAt EXCEPT ![tx] = Never]
        /\ now' = now
    BY <1>4 DEF Execute, Cancel, Consume, Forget
  <2> HIDE DEF tx
  <2>2. \A x \in Txs : x # tx => queuedAt'[x] = queuedAt[x]
    BY <2>1 DEF QueueInRange
  <2>3. queued' \subseteq Txs /\ queuedAt' \in [Txs -> BlockTimes \cup {Never}]
    BY <2>1 DEF QueueInRange
  <2>4. \A x \in queued' : /\ queuedAt'[x] # Never
                           /\ x[2] >= queuedAt'[x] + MIN_DELAY
                           /\ x[2] <= queuedAt'[x] + MAX_DELAY
    BY <2>1, <2>2 DEF QueueInRange
  <2>5. QED
    BY <2>1, <2>3, <2>4 DEF QueueInRange
<1>5. QED
  BY <1>3, <1>4

\* An executed call was queued in time, and is used up.
WasQueued(tx) ==
    /\ queuedAt[tx] # Never /\ queuedAt'[tx] = Never
    /\ now >= queuedAt[tx] + MIN_DELAY
    /\ now <= queuedAt[tx] + MAX_DELAY + GRACE_PERIOD

\* A call that execute accepts stands in the queue under its own key.
LEMMA ExecutedWasQueued ==
    ASSUME now \in BlockTimes, QueueInRange,
           NEW sender \in Accounts, NEW call \in QueuedCalls,
           NEW timestamp \in Timestamps, Execute(sender, call, timestamp)
    PROVE  \E tx \in Txs : WasQueued(tx)
<1> DEFINE tx == <<call, timestamp>>
<1>1. tx \in Txs /\ tx[2] = timestamp
  BY DEF Txs
<1>2. /\ tx \in queued /\ now >= timestamp /\ now <= timestamp + GRACE_PERIOD
      /\ queuedAt' = [queuedAt EXCEPT ![tx] = Never]
  BY DEF Execute, Consume, Forget
<1> HIDE DEF tx
<1>3. queuedAt[tx] \in BlockTimes /\ queuedAt[tx] # Never
  BY <1>1, <1>2 DEF QueueInRange
<1>4. /\ timestamp >= queuedAt[tx] + MIN_DELAY
      /\ timestamp <= queuedAt[tx] + MAX_DELAY
  BY <1>1, <1>2 DEF QueueInRange
<1>5. now \in Nat /\ timestamp \in Nat /\ queuedAt[tx] \in Nat
  BY <1>3, TimesAssumption
<1>6. queuedAt'[tx] = Never
  BY <1>1, <1>2 DEF QueueInRange
<1>7. /\ now >= queuedAt[tx] + MIN_DELAY
      /\ now <= queuedAt[tx] + MAX_DELAY + GRACE_PERIOD
  BY <1>2, <1>4, <1>5 DEF MIN_DELAY, MAX_DELAY, GRACE_PERIOD
<1>8. QED
  BY <1>1, <1>3, <1>6, <1>7 DEF WasQueued

-----------------------------------------------------------------------------
(* Every step.                                                             *)

\* The steps a time lock and its factory can take.
LEMMA StepCases ==
    ASSUME [Next]_vars
    PROVE  \/ UNCHANGED <<factoryVars, queued, queuedAt>>
              /\ (now' = now \/ now' \in BlockTimes)
           \/ \E sender \in Accounts : FactoryStep(sender) /\ UNCHANGED lockVars
           \/ \E sender \in Accounts, call \in QueuedCalls,
                 timestamp \in Timestamps :
                 \/ Queue(sender, call, timestamp)
                 \/ Execute(sender, call, timestamp)
                 \/ Cancel(sender, call, timestamp)
           \/ \E a \in Addresses :
                 /\ TransferOwnership(Lock, a) \/ ChangeTimelocker(Lock, a)
                 /\ UNCHANGED lockVars
  BY DEF Next, vars, lockVars, AccountCallsFactory, FactoryStep, Tick,
         ChangeOwner, ChangeOwnerOnFactory, ChangeTimelockerOnFactory

\* What every step keeps and may do.
LEMMA StepKeeps ==
    ASSUME LockInv, [Next]_vars
    PROVE  /\ LockInv'
           /\ ownerSet' # ownerSet => ownerSet = {} /\ timelockerSet = {}
           /\ ReliedOnChanges /\ timelocker = Lock =>
                 \E tx \in Txs : WasQueued(tx)
<1> USE DEF LockInv
<1>1. CASE /\ UNCHANGED <<factoryVars, queued, queuedAt>>
           /\ now' = now \/ now' \in BlockTimes
  BY <1>1 DEF factoryVars, QueueInRange, ChoiceUsedUp, ControllersVetted,
              MarketExists, ReliedOnChanges
<1>2. ASSUME NEW sender \in Accounts, FactoryStep(sender), UNCHANGED lockVars
      PROVE  /\ LockInv'
             /\ ownerSet' # ownerSet => ownerSet = {} /\ timelockerSet = {}
             /\ ~(ReliedOnChanges /\ timelocker = Lock)
  <2>1. QueueInRange' /\ now' = now
    BY <1>2 DEF lockVars, QueueInRange
  <2>2. QED
    BY <1>2, <2>1, FactoryKeepsVetted, AccountsCannotChange
<1>3. ASSUME NEW sender \in Accounts, NEW call \in QueuedCalls,
             NEW timestamp \in Timestamps,
             \/ Queue(sender, call, timestamp)
             \/ Cancel(sender, call, timestamp)
      PROVE  /\ LockInv' /\ ownerSet' = ownerSet /\ ~ReliedOnChanges
  <2>1. QueueInRange' /\ now' = now
    BY <1>3, QueueStays
  <2>2. UNCHANGED factoryVars
    BY <1>3 DEF Queue, Cancel
  <2>3. QED
    BY <2>1, <2>2 DEF factoryVars, ChoiceUsedUp, ControllersVetted,
                      MarketExists, ReliedOnChanges
<1>4. ASSUME NEW sender \in Accounts, NEW call \in QueuedCalls,
             NEW timestamp \in Timestamps, Execute(sender, call, timestamp)
      PROVE  /\ LockInv'
             /\ ownerSet' # ownerSet => ownerSet = {} /\ timelockerSet = {}
             /\ \E tx \in Txs : WasQueued(tx)
  <2>1. QueueInRange' /\ now' = now
    BY <1>4, QueueStays
  <2>2. FactoryStep(Lock)
    BY <1>4, QueuedAssumption DEF Execute, FactoryStep
  <2>3. \E tx \in Txs : WasQueued(tx)
    BY <1>4, ExecutedWasQueued
  <2>4. QED
    BY <2>1, <2>2, <2>3, FactoryKeepsVetted
<1>5. ASSUME NEW a \in Addresses, UNCHANGED lockVars,
             TransferOwnership(Lock, a) \/ ChangeTimelocker(Lock, a)
      PROVE  LockInv' /\ ownerSet' = ownerSet /\ ~ReliedOnChanges
  <2>1. QueueInRange' /\ now' = now
    BY <1>5 DEF lockVars, QueueInRange
  <2>2. QED
    BY <1>5, <2>1 DEF TransferOwnership, ChangeTimelocker, ChoiceUsedUp,
                      ControllersVetted, MarketExists, ReliedOnChanges
<1>6. QED
  BY <1>1, <1>2, <1>3, <1>4, <1>5, StepCases

\* The invariant holds after deployment.
LEMMA LockInitially == Init => LockInv
  BY DEF Init, FactoryInit, LockInv, QueueInRange, ChoiceUsedUp,
         ControllersVetted, MarketExists

-----------------------------------------------------------------------------
(* Types.                                                                  *)

\* Each call of the timelocker keeps the factory's types.
LEMMA PerformTyped ==
    ASSUME FactoryTypeOK, NEW sender, NEW call \in TimelockerCalls,
           Perform(sender, call)
    PROVE  FactoryTypeOK'
<1> USE DEF FactoryTypeOK
<1>1. ASSUME NEW c \in Controllers, WhitelistController(sender, c)
      PROVE  FactoryTypeOK'
  BY <1>1 DEF WhitelistController
<1>2. ASSUME NEW m \in Markets, NEW a \in Treasuries,
             WhitelistAddressOnMarket(sender, m, a)
      PROVE  FactoryTypeOK'
  BY <1>2 DEF WhitelistAddressOnMarket
<1>3. ASSUME NEW t \in Treasuries, SetTreasury(sender, t)
      PROVE  FactoryTypeOK'
  BY <1>3 DEF SetTreasury
<1>4. ASSUME NEW m \in Markets, NEW c \in Controllers, ChangeController(sender, m, c)
      PROVE  FactoryTypeOK'
  BY <1>4 DEF ChangeController
<1>5. ASSUME NEW m \in Markets, NEW oracle \in Oracles, ChangeOracle(sender, m, oracle)
      PROVE  FactoryTypeOK'
  BY <1>5 DEF ChangeOracle
<1>6. ASSUME NEW a \in Addresses,
             TransferOwnership(sender, a) \/ ChangeTimelocker(sender, a)
      PROVE  FactoryTypeOK'
  BY <1>6 DEF TransferOwnership, ChangeTimelocker
<1>7. /\ call[1] = "whitelistController" => call[2] \in Controllers
      /\ call[1] = "whitelistAddressOnMarket" =>
            call[2] \in Markets /\ call[3] \in Treasuries
      /\ call[1] = "setTreasury" => call[2] \in Treasuries
      /\ call[1] = "changeController" => call[2] \in Markets /\ call[3] \in Controllers
      /\ call[1] = "changeOracle" => call[2] \in Markets /\ call[3] \in Oracles
      /\ call[1] = "transferOwnership" => call[2] \in Addresses
      /\ call[1] = "changeTimelocker" => call[2] \in Addresses
  BY DEF TimelockerCalls
<1> HIDE DEF FactoryTypeOK
<1>8. QED
  BY <1>1, <1>2, <1>3, <1>4, <1>5, <1>6, <1>7 DEF Perform

\* So does every other operation on the factory.
LEMMA FactoryStepTyped ==
    ASSUME FactoryTypeOK, NEW sender, FactoryStep(sender)
    PROVE  FactoryTypeOK'
<1>1. ASSUME NEW m \in Markets, NEW c \in Controllers, NEW oracle \in Oracles,
             CreateNewMarket(sender, m, c, oracle)
      PROVE  FactoryTypeOK'
  BY <1>1 DEF CreateNewMarket, FactoryTypeOK
<1>2. ASSUME NEW m \in Markets, NEW e \in EpochConfigs, CreateEpoch(sender, m, e)
      PROVE  FactoryTypeOK'
  BY <1>2 DEF CreateEpoch, FactoryTypeOK
<1>3. RenounceOwnership(sender) => FactoryTypeOK'
  BY DEF RenounceOwnership, FactoryTypeOK
<1>4. QED
  BY <1>1, <1>2, <1>3, PerformTyped DEF FactoryStep

\* Every variable keeps its type: in particular the timelocker is never
\* address(0), which would freeze the factory's settings for good, and the time
\* lock always has an owner that can queue.
THEOREM GovernanceTyped == Spec => []TypeOK
<1> DEFINE Inv == TypeOK /\ LockInv
<1>1. Init => Inv
  <2>1. Init => FactoryTypeOK
    BY DEF Init, FactoryInit, FactoryTypeOK, Addresses
  <2>2. QED
    BY <2>1, LockInitially DEF Init, TypeOK
<1>2. ASSUME Inv, [Next]_vars PROVE Inv'
  <2>1. LockInv'
    BY <1>2, StepKeeps
  <2>2. now' \in BlockTimes /\ queued' \subseteq Txs
           /\ queuedAt' \in [Txs -> BlockTimes \cup {Never}]
    BY <2>1 DEF LockInv, QueueInRange
  <2>3. policy' \in Accounts
    BY <1>2 DEF Next, vars, lockVars, TypeOK, Tick, Queue, Execute, Cancel,
                ChangeOwner, ChangeOwnerOnFactory, ChangeTimelockerOnFactory
  <2>4. FactoryTypeOK'
    <3>1. FactoryTypeOK
      BY <1>2 DEF TypeOK
    <3>2. CASE UNCHANGED factoryVars
      BY <3>1, <3>2 DEF factoryVars, FactoryTypeOK
    <3>3. CASE \E sender \in Accounts : FactoryStep(sender)
      BY <3>1, <3>3, FactoryStepTyped
    <3>4. ASSUME NEW sender \in Accounts, NEW call \in QueuedCalls,
                 NEW timestamp \in Timestamps, Execute(sender, call, timestamp)
          PROVE  FactoryTypeOK'
      BY <3>1, <3>4, PerformTyped, QueuedAssumption DEF Execute
    <3>5. ASSUME NEW a \in Addresses,
                 TransferOwnership(Lock, a) \/ ChangeTimelocker(Lock, a)
          PROVE  FactoryTypeOK'
      BY <3>1, <3>5 DEF TransferOwnership, ChangeTimelocker, FactoryTypeOK
    <3>6. QED
      BY <1>2, <3>2, <3>3, <3>4, <3>5, StepCases DEF Queue, Cancel
  <2>5. QED
    BY <2>1, <2>2, <2>3, <2>4 DEF TypeOK
<1>3. Inv /\ [Next]_vars => Inv'
  BY <1>2
<1>4. QED
  BY <1>1, <1>3, PTL DEF Spec

-----------------------------------------------------------------------------
(* What the lock and the factory promise.                                  *)

\* While the time lock is the timelocker, nothing the users of a market rely
\* on changes unless it was queued at least MIN_DELAY before.
THEOREM LockRespectsDelay == Spec => DelayRespected
<1> DEFINE Queued == ReliedOnChanges /\ timelocker = Lock =>
                        \E tx \in Txs : WasQueued(tx)
<1>1. LockInv /\ [Next]_vars => LockInv' /\ [Queued]_vars
  BY StepKeeps
<1>2. [Queued]_vars => [ReliedOnChanges /\ timelocker = Lock =>
          \E tx \in Txs :
             /\ queuedAt[tx] # Never /\ queuedAt'[tx] = Never
             /\ now >= queuedAt[tx] + MIN_DELAY
             /\ now <= queuedAt[tx] + MAX_DELAY + GRACE_PERIOD]_vars
  BY DEF WasQueued
<1>3. QED
  BY LockInitially, <1>1, <1>2, PTL DEF Spec, DelayRespected

\* The owner of the factory chooses at most one controller, before any other
\* is whitelisted.
THEOREM OwnerChoosesOnce == Spec => OwnerControllerOnce
<1>1. LockInv /\ [Next]_vars =>
          /\ LockInv'
          /\ [ownerSet' # ownerSet => ownerSet = {} /\ timelockerSet = {}]_vars
  BY StepKeeps
<1>2. QED
  BY LockInitially, <1>1, PTL DEF Spec, OwnerControllerOnce

\* Every market's controller was whitelisted by the owner's one choice or by
\* the timelocker.
THEOREM MarketsHaveVettedControllers == Spec => []ControllersVetted
<1>1. LockInv /\ [Next]_vars => LockInv'
  BY StepKeeps
<1>2. LockInv => ControllersVetted
  BY DEF LockInv
<1>3. QED
  BY LockInitially, <1>1, <1>2, PTL DEF Spec
=============================================================================
