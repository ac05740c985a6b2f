--------------------------- MODULE MCBLEManagerBase ---------------------------
(***************************************************************************)
(* BLEManagerBase under the most general client, for TLC.                  *)
(***************************************************************************)
EXTENDS BLEManagerBase
=============================================================================
