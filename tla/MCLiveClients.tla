---------------------------- MODULE MCLiveClients ----------------------------
(***************************************************************************)
(* ScoringConsole and MatchCenter for TLC.                                 *)
(***************************************************************************)
EXTENDS ScoringConsole, TLC
=============================================================================
