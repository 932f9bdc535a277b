--------------------------- MODULE MCTestHarness ---------------------------
(* Waits shrunk to one to three frames, in the order of the code's.          *)
EXTENDS TestHarness

MCWaits == [settle |-> 2, hold |-> 2, down |-> 2, slot |-> 2, retry |-> 3, soak |-> 2, export |-> 2]
MCLabels == {<<>>, <<"shown">>, <<"shown", "fault", "shown">>, <<"hidden", "shown">>}
MCScenarios == Known \cup {"freecam-toggle"}
=============================================================================
