--------------------------- MODULE MCVehicleSession ---------------------------
(***************************************************************************)
(* VehicleSession on small instances, for TLC.                             *)
(***************************************************************************)
EXTENDS VehicleSession
=============================================================================
