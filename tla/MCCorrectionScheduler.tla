----------------------- MODULE MCCorrectionScheduler -----------------------
(* Two scorers and three author groups, the first of which repairs problem   *)
(* mining and may so hold back the others.                                   *)
EXTENDS CorrectionScheduler
CONSTANTS s1, s2, g1, g2, g3
TwoScorers == {s1, s2}
ThreeGroups == {g1, g2, g3}
ThreeInOrder == <<g1, g2, g3>>
FirstMines == {g1}
=============================================================================
