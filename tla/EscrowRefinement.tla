-------------------------- MODULE EscrowRefinement --------------------------
(***************************************************************************)
(* The vaults and their settlement as an implementation of EpochEscrow.    *)
(* An epoch's pot is the part of a vault's one ERC20 balance that `funds'  *)
(* attributes to it; an epoch is open, or settled, when it is on both      *)
(* vaults.                                                                 *)
(***************************************************************************)
EXTENDS Settlement

Escrow == INSTANCE EpochEscrow WITH
    Buyers  <- Premium,
    Sellers <- Collateral,
    clock   <- now,
    rate    <- epochFee,
    open    <- {id \in Epochs : \A v \in Vaults : epochExists[v][id]},
    settled <- {id \in Epochs : \A v \in Vaults : epochResolved[v][id]},
    shares  <- totalSupply,
    pot     <- funds,
    stake   <- finalTVL,
    claim   <- claimTVL

\* Every market is a set of independent escrows, one per epoch: a deposit is
\* only taken up to the begin and moves one pot, it finds the epoch settled at
\* the begin alone and then changes neither stake nor claim, both sides of an
\* epoch are settled in the same step, by a swap inside the insured window, by the
\* premium after it or by a refund, no fee above the epoch's is kept, and a
\* withdrawal takes its pro-rata share, rounded down, of the pot of its own
\* epoch (VaultV2.withdraw, resolveEpoch, setClaimTVL and sendTokens as the
\* controllers call them).
ImplementsEscrow == Escrow!Spec
=============================================================================
