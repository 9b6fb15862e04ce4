------------------------------- MODULE MCStage -------------------------------
(***************************************************************************)
(* Stage for TLC: a rule set, and the results that games may end with.     *)
(* Handlers are interchangeable.                                           *)
(***************************************************************************)
EXTENDS Stage, TLC

StageRules ==
  [winPoints |-> 2, drawPoints |-> 1, lossPoints |-> 0,
   tieBreakers |-> <<"POINTS", "HEAD_TO_HEAD", "OVERALL_POINT_DIFFERENCE",
                     "FEWEST_POINTS_CONCEDED">>]

CloseScores == {<<2, 1>>, <<1, 1>>}
WideScores  == {<<2, 1>>, <<1, 2>>, <<4, 1>>, <<1, 4>>}

Symmetry == Permutations(Requests)
=============================================================================
