-------------------------- MODULE MCUmaV3Providers --------------------------
(***************************************************************************)
(* Instances of UmaV3Providers in units of ten minutes, with a shorter     *)
(* liveness, and 128 bits cut to two: 4 is the smallest datum that becomes *)
(* 0.                                                                      *)
(***************************************************************************)
EXTENDS UmaV3Providers

OnePrice == {"price"}
NoMarket == {}
=============================================================================
