----------------------------- MODULE MCHeartbeat -----------------------------
(* Heartbeat with half a second as the unit of time. *)
EXTENDS Heartbeat

\* 2 s by the default rule; 3 s every 2 s; a timeout of 2.5 s, whose default
\* interval is below a second and which is refused for it.
MCRequests == {[interval |-> 0, timeout |-> 8], [interval |-> 4, timeout |-> 6],
               [interval |-> 0, timeout |-> 5]}
=============================================================================
