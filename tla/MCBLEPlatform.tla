---------------------------- MODULE MCBLEPlatform ----------------------------
(***************************************************************************)
(* BLEPlatform with a client that may call its operations in any order.    *)
(***************************************************************************)
EXTENDS BLEPlatform
=============================================================================
