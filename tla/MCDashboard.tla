--------------------------- MODULE MCDashboard ---------------------------
(***************************************************************************)
(* TLC instance of Dashboard: two projects, of which one is cleaned.       *)
(***************************************************************************)
EXTENDS Dashboard

CONSTANTS p1, p2

MCTaskKeys == {<<"classify-all", p1>>, <<"clean", p1>>}
MCBothClassify == {<<"classify-all", p1>>, <<"classify-all", p2>>}

\* After two mounts there are two chains of connections: enough to do without the user.
MCActions == <<2, 0>>
MCFaults == <<1, 0>>
=============================================================================
