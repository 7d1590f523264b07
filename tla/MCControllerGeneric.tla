------------------------ MODULE MCControllerGeneric ------------------------
(* Instances of ControllerGeneric.                                         *)
EXTENDS ControllerGeneric, EscrowRefinement

OneEpoch == {<<2, 4>>}

\* The second epoch begins in the last second of the first: a block at 4 is
\* the begin of the one and the end of the other.
TwoEpochs == {<<2, 4>>, <<4, 8>>}

\* u2 may act for u1.
NoApproval  == {}
OneApproval == {<<"u1", "u2">>}
=============================================================================
