------------------------ MODULE MCDashboardOverview ------------------------
(* Two queries per overview, so that they can read different versions; two *)
(* snapshots, so that one can come while the overview of the other is put  *)
(* together; one request of the browser at a time, which overtakes the     *)
(* pushes and is overtaken by them; and one failure at any point, which is *)
(* a failed overview or request, a lost connection or a restart.           *)
EXTENDS DashboardOverview
=============================================================================
