---------------------------- MODULE MCSimStation ----------------------------
(* A 4 kW station, a guard that writes a limit of 1 kW with a duration or a    *)
(* refused one, and a failsafe limit of 3 kW instead of the initial 2 kW.     *)
EXTENDS SimStation

Kw(v, a, t) == [value |-> v, active |-> a, timed |-> t]
MCLimits == {Kw(-1, TRUE, FALSE), Kw(1, TRUE, TRUE)}
MCFailsafes == {3}
=============================================================================
