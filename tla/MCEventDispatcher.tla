--------------------------- MODULE MCEventDispatcher ---------------------------
(* Two threads; the second consumer to register has an empty function.     *)
EXTENDS EventDispatcher

CONSTANTS t1, t2
=============================================================================
