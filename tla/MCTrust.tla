------------------------------- MODULE MCTrust -------------------------------
(* Trust on two devices, one of them in the config, with concurrent requests. *)
EXTENDS Trust, TLC
CONSTANTS d1, d2, c1

TwoDevices == {d1, d2}
OneDevice == {d1}
InConfig == {d1}
NotInConfig == {}
OneClient == {c1}
=============================================================================
