------------------------------ MODULE Absence ------------------------------
(* The value the modules use where the code has None, null or a field that *)
(* was never set.                                                          *)
CONSTANT None
=============================================================================
