----------------------------- MODULE MCSimVehicle -----------------------------
(* A vehicle that charges with 2 or 3 A.                                       *)
EXTENDS SimVehicle
=============================================================================
