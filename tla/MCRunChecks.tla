---------------------------- MODULE MCRunChecks ----------------------------
(* One source receives the frames of the device and one sends frames to it.   *)
(* The ring of frames holds one entry, that of events three, and a request    *)
(* returns two of them.  A second has two ticks.                              *)
EXTENDS RunChecks

MCSources == {"recv", "send"}
MCTraffic == [source : {"recv"}, error : BOOLEAN] \cup [source : {"send"}, error : {FALSE}]
MCDevice == {"recv"}
MCPublishers == {"recv", "send", "hub", "run"}
MCKinds == {"dropped", "lifecycle", "spine"}

\* A disconnection and the clock, or frames, or a frame beside a disconnection.
MCRoom(ticks, dropped, frames) ==
    /\ dropped <= 1
    /\ frames > 0 => ticks = 0 /\ dropped + frames <= 2
=============================================================================
