------------------------------ MODULE MCTestRun ------------------------------
(* Test cases 1 to 3 of which 3 is a cleanup one. *)
EXTENDS TestRun

MCCases == 1..3
MCCleanup == {3}
MCAll == {{1, 2, 3}, {2}}
MCOne == {{1, 3}}
=============================================================================
