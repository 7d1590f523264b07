--------------------- MODULE MCControllerPeggedAssetV2 ---------------------
(***************************************************************************)
(* Instances of ControllerPeggedAssetV2.  Epochs are <<begin, end>>; block *)
(* times fall between the begin and end timestamps, or on them where the   *)
(* run is about the boundary.                                              *)
(***************************************************************************)
EXTENDS ControllerPeggedAssetV2

OneEpoch   == {<<2, 4>>}
NoApproval == {}
=============================================================================
