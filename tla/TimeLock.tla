------------------------------ MODULE TimeLock ------------------------------
(***************************************************************************)
(* The time lock in front of the factory.  Its owner queues a call with a  *)
(* timestamp, waits for it and executes or cancels it.  Two operations on  *)
(* the factory need no queueing.  Time is in days.                         *)
(***************************************************************************)
EXTENDS VaultFactoryV2, Integers

CONSTANTS
    BlockTimes,    \* days on which blocks are produced
    Timestamps,    \* timestamps a call may be queued for
    QueuedCalls,   \* the calls that are queued
    MaxQueued      \* bound on the calls queued at the same time

ASSUME TimesAssumption == BlockTimes \subseteq Nat /\ Timestamps \subseteq Nat

ASSUME QueuedAssumption == QueuedCalls \subseteq TimelockerCalls

VARIABLES
    now,
    policy,        \* the time lock's owner
    queued,        \* <<call, timestamp>> pairs, identified by their hash
    queuedAt       \* history: the day the pair was queued, Never again once
                   \* it is executed or cancelled

lockVars == <<now, policy, queued, queuedAt>>
vars == <<factoryVars, lockVars>>

MIN_DELAY == 3
MAX_DELAY == 30
GRACE_PERIOD == 14

Txs == QueuedCalls \X Timestamps
Never == -1

TypeOK ==
    /\ FactoryTypeOK
    /\ now \in BlockTimes
    /\ policy \in Accounts
    /\ queued \subseteq Txs
    /\ queuedAt \in [Txs -> BlockTimes \cup {Never}]

Init ==
    /\ FactoryInit
    /\ now \in BlockTimes
    /\ policy \in Accounts
    /\ queued = {}
    /\ queuedAt = [tx \in Txs |-> Never]

-----------------------------------------------------------------------------
\* mutant: the delay is counted from the wrong end of the window.
InRange_NoMinimum(timestamp) == timestamp <= now + MAX_DELAY

InRange(timestamp) ==
    /\ timestamp >= now + MIN_DELAY
    /\ timestamp <= now + MAX_DELAY

Queue(sender, call, timestamp) ==
    /\ sender = policy
    /\ <<call, timestamp>> \notin queued
    /\ InRange(timestamp)
    /\ queued' = queued \cup {<<call, timestamp>>}
    /\ queuedAt' = [queuedAt EXCEPT ![<<call, timestamp>>] = now]
    /\ UNCHANGED <<factoryVars, now, policy>>

Forget(call, timestamp) ==
    /\ queued' = queued \ {<<call, timestamp>>}
    /\ queuedAt' = [queuedAt EXCEPT ![<<call, timestamp>>] = Never]

\* mutant: the call stays queued after its execution.
Consume_Kept(call, timestamp) ==
    /\ queuedAt' = [queuedAt EXCEPT ![<<call, timestamp>>] = Never]
    /\ UNCHANGED queued

\* queued[txId] = false; a call that fails reverts the whole execution.
Consume(call, timestamp) == Forget(call, timestamp)

Execute(sender, call, timestamp) ==
    /\ sender = policy
    /\ <<call, timestamp>> \in queued
    /\ now >= timestamp
    /\ now <= timestamp + GRACE_PERIOD
    /\ Consume(call, timestamp)
    /\ Perform(Lock, call)
    /\ UNCHANGED <<now, policy>>

Cancel(sender, call, timestamp) ==
    /\ sender = policy
    /\ <<call, timestamp>> \in queued
    /\ Forget(call, timestamp)
    /\ UNCHANGED <<factoryVars, now, policy>>

ChangeOwner(sender, newOwner) ==
    /\ sender = policy
    /\ policy' = newOwner
    /\ UNCHANGED <<factoryVars, now, queued, queuedAt>>

ChangeOwnerOnFactory(sender, newOwner) ==
    /\ sender = policy
    /\ TransferOwnership(Lock, newOwner)
    /\ UNCHANGED lockVars

ChangeTimelockerOnFactory(sender, newTimelocker) ==
    /\ sender = policy
    /\ ChangeTimelocker(Lock, newTimelocker)
    /\ UNCHANGED lockVars

Tick ==
    /\ \E t \in BlockTimes : t > now /\ now' = t
    /\ UNCHANGED <<factoryVars, policy, queued, queuedAt>>

Next ==
    \/ Tick
    \/ \E sender \in Accounts :
          \/ AccountCallsFactory(sender) /\ UNCHANGED lockVars
          \/ \E call \in QueuedCalls, timestamp \in Timestamps :
                \/ /\ Cardinality(queued) < MaxQueued
                   /\ Queue(sender, call, timestamp)
                \/ Execute(sender, call, timestamp)
                \/ Cancel(sender, call, timestamp)
          \/ \E a \in Accounts : ChangeOwner(sender, a)
          \/ \E a \in Addresses : \/ ChangeOwnerOnFactory(sender, a)
                                  \/ ChangeTimelockerOnFactory(sender, a)

Spec == Init /\ [][Next]_vars

-----------------------------------------------------------------------------
\* A step changes what the users of a market rely on: where fees go, who may
\* settle a market and with which oracle, or to whom its vaults may send
\* tokens.  A market's first controller and oracle come with its creation, and
\* the owner has its one choice of a controller.
ReliedOnChanges ==
    \/ treasury' # treasury
    \/ whitelistedAddresses' # whitelistedAddresses
    \/ controllers' # controllers /\ ownerSet' = ownerSet
    \/ \E m \in Markets :
          /\ MarketExists(m)
          /\ \/ controller'[m] # controller[m]
             \/ marketToOracle'[m] # marketToOracle[m]

\* "short timeframe to not discriminate against epoch lenght but rather focus
\* on transprancy of critical operations" (TimeLock.sol:14): as long as the
\* time lock is the timelocker, nothing a market's users rely on changes
\* unless a call was queued at least MIN_DELAY before, is used up by the
\* change and is not older than the longest delay and the grace period,
\* whatever is queued twice, cancelled, retried or executed after the owner of
\* the lock has changed.
DelayRespected ==
    [][ReliedOnChanges /\ timelocker = Lock =>
          \E tx \in Txs :
             /\ queuedAt[tx] # Never /\ queuedAt'[tx] = Never
             /\ now >= queuedAt[tx] + MIN_DELAY
             /\ now <= queuedAt[tx] + MAX_DELAY + GRACE_PERIOD]_vars

\* "owner can set controller once, all future controllers must be set by
\* timelocker" (VaultFactoryV2.sol:243): the owner's choice comes first or
\* never, and a second owner does not get another one.
OwnerControllerOnce ==
    [][ownerSet' # ownerSet => ownerSet = {} /\ timelockerSet = {}]_vars

\* A market is only ever settled by a controller that the owner, with its one
\* choice, or the timelocker has whitelisted, through any sequence of
\* listings, delistings, market creations and controller changes.
ControllersVetted ==
    \A m \in Markets :
        MarketExists(m) => controller[m] \in ownerSet \cup timelockerSet

-----------------------------------------------------------------------------
(* The inductive invariant behind these three.                             *)

\* A queued call keeps the day it was queued, and its timestamp is in the
\* range the lock accepted then.
QueueInRange ==
    /\ queued \subseteq Txs
    /\ queuedAt \in [Txs -> BlockTimes \cup {Never}]
    /\ \A tx \in queued :
          /\ queuedAt[tx] # Never
          /\ tx[2] >= queuedAt[tx] + MIN_DELAY
          /\ tx[2] <= queuedAt[tx] + MAX_DELAY

\* Whoever whitelists first uses up the owner's choice, and every listed
\* controller was whitelisted by one of the two.
ChoiceUsedUp ==
    /\ ownerSet # {} \/ timelockerSet # {} => adminSetController
    /\ controllers \subseteq ownerSet \cup timelockerSet

LockInv ==
    /\ now \in BlockTimes
    /\ controller \in [Markets -> Controllers \cup {NoAddress}]
    /\ QueueInRange
    /\ ChoiceUsedUp
    /\ ControllersVetted
=============================================================================
