-------------------------- MODULE MCStakingRewards --------------------------
(* Instances of StakingRewards.                                            *)
EXTENDS StakingRewards, TLC

Symmetric == Permutations(Users)
=============================================================================
