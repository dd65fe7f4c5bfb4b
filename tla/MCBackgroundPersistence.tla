---------------------- MODULE MCBackgroundPersistence ----------------------
(***************************************************************************)
(* Instances of BackgroundPersistence for TLC.                             *)
(***************************************************************************)
EXTENDS BackgroundPersistence
=============================================================================
