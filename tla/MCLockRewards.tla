--------------------------- MODULE MCLockRewards ---------------------------
(***************************************************************************)
(* Instances of LockRewards: days of two seconds, so that an epoch is over *)
(* three blocks after it was set, and rewards that do not divide evenly.   *)
(***************************************************************************)
EXTENDS LockRewardsProperties

OneReward     == {<<0, 2>>}
OneFunded     == <<{}, {2}>>
NoneRecovered == {}
SingleLocks   == [u \in Users |-> 2]
TopUps        == [u \in Users |-> 4]

\* Users are interchangeable.
UserSymmetry == Permutations(Users)
=============================================================================
