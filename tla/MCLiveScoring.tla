---------------------------- MODULE MCLiveScoring ----------------------------
(***************************************************************************)
(* LiveScoring for TLC.  The .cfg files of the runs choose the constants;  *)
(* scorekeepers are interchangeable.                                       *)
(***************************************************************************)
EXTENDS LiveScoring, TLC

Symmetry == Permutations(Scorekeepers)
=============================================================================
