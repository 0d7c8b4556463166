--------------------------- MODULE MCRSIPolicyRun ---------------------------
(* Bounded instance of RSIPolicyRun: scores around the initial one so that   *)
(* equality at both boundaries occurs, costs on and past both budgets.       *)
EXTENDS RSIPolicyRun

MCScores == {2, 3, 4, 5, 6, 8}
MCCosts  == {1, 3, 4}
=============================================================================
