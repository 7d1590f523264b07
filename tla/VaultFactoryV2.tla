-------------------------- MODULE VaultFactoryV2 --------------------------
(***************************************************************************)
(* The factory of markets: who may create markets and epochs, and who may  *)
(* change what they depend on.  Every operation is parameterised by its    *)
(* sender, an account or the time lock, and is enabled when the call does  *)
(* not revert.  The vaults themselves are in VaultV2; of them this module  *)
(* keeps what only the factory can change.                                 *)
(***************************************************************************)
EXTENDS Naturals, FiniteSets

CONSTANTS
    Accounts,      \* externally owned accounts
    Lock,          \* the address of the TimeLock contract
    NoAddress,     \* address(0)
    Controllers,   \* controller contracts
    Treasuries, Oracles,
    Markets,       \* (token, strike, underlying) triples
    EpochConfigs   \* (begin, end) pairs that VaultV2.setEpoch accepts

Addresses == Accounts \cup {Lock}

ASSUME AddressesAssumption ==
    /\ Lock \notin Accounts
    /\ NoAddress \notin Addresses \cup Controllers \cup Oracles

VARIABLES
    owner,               \* Ownable
    timelocker,
    treasury,
    adminSetController,  \* the owner's one choice of a controller is used up
    controllers,         \* the whitelisted ones
    controller,          \* per market, VaultV2.controller of its two vaults;
                         \* NoAddress as long as there is no such market
    marketToOracle,
    marketIdToEpochs,
    whitelistedAddresses,  \* per market, on both of its vaults
    ownerSet,            \* history: controllers the owner whitelisted
    timelockerSet        \* history: controllers the timelocker whitelisted

factoryVars == <<owner, timelocker, treasury, adminSetController, controllers,
                 controller, marketToOracle, marketIdToEpochs,
                 whitelistedAddresses, ownerSet, timelockerSet>>

FactoryTypeOK ==
    /\ owner \in Addresses \cup {NoAddress}
    /\ timelocker \in Addresses
    /\ treasury \in Treasuries
    /\ adminSetController \in BOOLEAN
    /\ controllers \subseteq Controllers
    /\ controller \in [Markets -> Controllers \cup {NoAddress}]
    /\ marketToOracle \in [Markets -> Oracles \cup {NoAddress}]
    /\ marketIdToEpochs \in [Markets -> SUBSET EpochConfigs]
    /\ whitelistedAddresses \in [Markets -> SUBSET Treasuries]
    /\ ownerSet \subseteq Controllers
    /\ timelockerSet \subseteq Controllers

FactoryInit ==
    /\ owner \in Accounts
    /\ timelocker = Lock
    /\ treasury \in Treasuries
    /\ adminSetController = FALSE
    /\ controllers = {}
    /\ controller = [m \in Markets |-> NoAddress]
    /\ marketToOracle = controller
    /\ marketIdToEpochs = [m \in Markets |-> {}]
    /\ whitelistedAddresses = marketIdToEpochs
    /\ ownerSet = {} /\ timelockerSet = {}

MarketExists(m) == controller[m] # NoAddress

-----------------------------------------------------------------------------
(* The owner's operations.                                                 *)

\* mutant: the controller of a new market is not looked up.
ControllerListed_Any(c) == c \in Controllers

ControllerListed(c) == c \in controllers

CreateNewMarket(sender, m, c, oracle) ==
    /\ sender = owner
    /\ ControllerListed(c)
    /\ ~MarketExists(m)
    /\ controller' = [controller EXCEPT ![m] = c]
    /\ marketToOracle' = [marketToOracle EXCEPT ![m] = oracle]
    /\ UNCHANGED <<owner, timelocker, treasury, adminSetController,
                   controllers, marketIdToEpochs, whitelistedAddresses,
                   ownerSet, timelockerSet>>

CreateEpoch(sender, m, e) ==
    /\ sender = owner
    /\ MarketExists(m)
    /\ controller[m] \in controllers
    /\ e \notin marketIdToEpochs[m]
    /\ marketIdToEpochs' = [marketIdToEpochs EXCEPT ![m] = @ \cup {e}]
    /\ UNCHANGED <<owner, timelocker, treasury, adminSetController,
                   controllers, controller, marketToOracle,
                   whitelistedAddresses, ownerSet, timelockerSet>>

\* Ownable's, not overridden.
RenounceOwnership(sender) ==
    /\ sender = owner
    /\ owner' = NoAddress
    /\ UNCHANGED <<timelocker, treasury, adminSetController, controllers,
                   controller, marketToOracle, marketIdToEpochs,
                   whitelistedAddresses, ownerSet, timelockerSet>>

\* mutant: the owner can add controllers at any time.
OwnerMaySet_Always(sender) == sender = owner

OwnerMaySet(sender) == sender = owner /\ ~adminSetController

\* The owner adds a controller, once; the timelocker toggles one, which uses
\* up the owner's choice too.
WhitelistController(sender, c) ==
    /\ \/ /\ OwnerMaySet(sender)
          /\ controllers' = controllers \cup {c}
          /\ ownerSet' = ownerSet \cup {c}
          /\ UNCHANGED timelockerSet
       \/ /\ ~OwnerMaySet(sender)
          /\ sender = timelocker
          /\ controllers' = (controllers \ {c}) \cup ({c} \ controllers)
          /\ timelockerSet' = timelockerSet \cup {c}
          /\ UNCHANGED ownerSet
    /\ adminSetController' = TRUE
    /\ UNCHANGED <<owner, timelocker, treasury, controller, marketToOracle,
                   marketIdToEpochs, whitelistedAddresses>>

-----------------------------------------------------------------------------
(* The timelocker's operations.                                            *)

WhitelistAddressOnMarket(sender, m, a) ==
    /\ sender = timelocker
    /\ MarketExists(m)
    /\ whitelistedAddresses' =
          [whitelistedAddresses EXCEPT ![m] = (@ \ {a}) \cup ({a} \ @)]
    /\ UNCHANGED <<owner, timelocker, treasury, adminSetController,
                   controllers, controller, marketToOracle, marketIdToEpochs,
                   ownerSet, timelockerSet>>

SetTreasury(sender, t) ==
    /\ sender = timelocker
    /\ treasury' = t
    /\ UNCHANGED <<owner, timelocker, adminSetController, controllers,
                   controller, marketToOracle, marketIdToEpochs,
                   whitelistedAddresses, ownerSet, timelockerSet>>

ChangeController(sender, m, c) ==
    /\ sender = timelocker
    /\ c \in controllers
    /\ MarketExists(m)
    /\ controller' = [controller EXCEPT ![m] = c]
    /\ UNCHANGED <<owner, timelocker, treasury, adminSetController,
                   controllers, marketToOracle, marketIdToEpochs,
                   whitelistedAddresses, ownerSet, timelockerSet>>

ChangeOracle(sender, m, oracle) ==
    /\ sender = timelocker
    /\ marketToOracle[m] # NoAddress
    /\ marketToOracle' = [marketToOracle EXCEPT ![m] = oracle]
    /\ UNCHANGED <<owner, timelocker, treasury, adminSetController,
                   controllers, controller, marketIdToEpochs,
                   whitelistedAddresses, ownerSet, timelockerSet>>

TransferOwnership(sender, newOwner) ==
    /\ sender = timelocker
    /\ owner' = newOwner
    /\ UNCHANGED <<timelocker, treasury, adminSetController, controllers,
                   controller, marketToOracle, marketIdToEpochs,
                   whitelistedAddresses, ownerSet, timelockerSet>>

\* mutant: address(0) is accepted.
ChangeTimelocker_Unchecked(sender, newTimelocker) ==
    /\ sender = timelocker
    /\ timelocker' \in {newTimelocker, NoAddress}
    /\ UNCHANGED <<owner, treasury, adminSetController, controllers,
                   controller, marketToOracle, marketIdToEpochs,
                   whitelistedAddresses, ownerSet, timelockerSet>>

ChangeTimelocker(sender, newTimelocker) ==
    /\ sender = timelocker
    /\ timelocker' = newTimelocker
    /\ UNCHANGED <<owner, treasury, adminSetController, controllers,
                   controller, marketToOracle, marketIdToEpochs,
                   whitelistedAddresses, ownerSet, timelockerSet>>

-----------------------------------------------------------------------------
(* A call is the name of a function and its arguments.                     *)

TimelockerCalls ==
    ({"whitelistController"} \X Controllers)
    \cup ({"whitelistAddressOnMarket"} \X Markets \X Treasuries)
    \cup ({"setTreasury"} \X Treasuries)
    \cup ({"changeController"} \X Markets \X Controllers)
    \cup ({"changeOracle"} \X Markets \X Oracles)
    \cup ({"transferOwnership"} \X Addresses)
    \cup ({"changeTimelocker"} \X Addresses)

Perform(sender, call) ==
    \/ call[1] = "whitelistController" /\ WhitelistController(sender, call[2])
    \/ /\ call[1] = "whitelistAddressOnMarket"
       /\ WhitelistAddressOnMarket(sender, call[2], call[3])
    \/ call[1] = "setTreasury" /\ SetTreasury(sender, call[2])
    \/ /\ call[1] = "changeController"
       /\ ChangeController(sender, call[2], call[3])
    \/ call[1] = "changeOracle" /\ ChangeOracle(sender, call[2], call[3])
    \/ call[1] = "transferOwnership" /\ TransferOwnership(sender, call[2])
    \/ call[1] = "changeTimelocker" /\ ChangeTimelocker(sender, call[2])

\* What an account does by calling the factory itself.
AccountCallsFactory(sender) ==
    \/ \E m \in Markets, c \in Controllers, oracle \in Oracles :
          CreateNewMarket(sender, m, c, oracle)
    \/ \E m \in Markets, e \in EpochConfigs : CreateEpoch(sender, m, e)
    \/ RenounceOwnership(sender)
    \/ \E call \in TimelockerCalls : Perform(sender, call)
=============================================================================
