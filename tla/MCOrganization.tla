---------------------------- MODULE MCOrganization ----------------------------
(***************************************************************************)
(* Organization for TLC.                                                   *)
(***************************************************************************)
EXTENDS Organization, TLC

\* Requests are alike, and so are players.
Alike == Permutations(Requests) \cup Permutations(Players)
=============================================================================
