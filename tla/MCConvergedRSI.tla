--------------------------- MODULE MCConvergedRSI ---------------------------
(* Bounded instances of ConvergedRSI.  The initial score is 4 with a minimum  *)
(* improvement of 1 and a tolerance of 1, so that 5 improves but not enough,  *)
(* 6 and 8 are promotions, 2 is a regression.                                 *)
EXTENDS ConvergedRSIProperties

FewScores  == {2, 5, 6}
MoreScores == {2, 5, 6, 8}
OneCost    == {1}
TwoCosts   == {1, 2}
AllGood    == {"ok"}
AllKinds   == {"ok", "low", "none"}

\* Wall clock: the start, and instants between the logical stages and past
\* the deadlines of iteration 1.
StartOnly == {0}
Late      == {0, 5000, 9000}
=============================================================================
