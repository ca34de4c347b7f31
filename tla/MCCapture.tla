------------------------------ MODULE MCCapture ------------------------------
(* One source receives frames and one sends frames, with findings on both.    *)
EXTENDS Capture

MCSources == {"recv", "send"}
MCTraffic == [source : MCSources, error : {TRUE}]
MCKinds == {"spine"}
=============================================================================
