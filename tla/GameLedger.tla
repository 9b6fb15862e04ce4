----------------------------- MODULE GameLedger -----------------------------
(***************************************************************************)
(* What a game promises whoever reads its score: the baskets that count,   *)
(* the tally shown, the phase of the game and a version that moves by one  *)
(* with every change.  Leases, keys, periods, sequence numbers and the     *)
(* order of database statements do not appear; LiveScoring implements it.  *)
(*                                                                         *)
(* A basket is known by the version at which it was recorded, so that one  *)
(* taken back can never return.                                            *)
(***************************************************************************)
EXTENDS Integers

CONSTANTS
  Teams,        \* the two teams of the game
  Awards,       \* the tallies a forfeit may set
  Reopenable    \* whether an official game can be reopened

VARIABLES baskets, tally, phase, version

ledgerVars == <<baskets, tally, phase, version>>

Init ==
  /\ baskets = {}
  /\ tally = [t \in Teams |-> 0]
  /\ phase = "pending"
  /\ version = 0

Record(team, points) ==
  /\ phase = "live"
  /\ baskets' = baskets \cup {[at |-> version + 1, team |-> team, points |-> points]}
  /\ tally' = [tally EXCEPT ![team] = @ + points]
  /\ UNCHANGED phase

TakeBack(b) ==
  /\ phase = "live"
  /\ baskets' = baskets \ {b}
  /\ tally' = [tally EXCEPT ![b.team] = @ - b.points]
  /\ UNCHANGED phase

\* A time-out, a note, a new period or a new date: nothing but the version moves.
Note == UNCHANGED <<baskets, tally, phase>>

\* An official game only goes back to pending, and only if it may be reopened; a
\* withdrawn or awarded game is never played again.
Move(next) ==
  /\ phase = "official" => Reopenable /\ next = "pending"
  /\ phase \in {"withdrawn", "awarded"} => next = "withdrawn"
  /\ phase' = next
  /\ UNCHANGED <<baskets, tally>>

\* A forfeit replaces the tally and leaves the baskets on record.
Award ==
  /\ phase # "official"
  /\ phase' = "awarded"
  /\ tally' \in Awards
  /\ UNCHANGED baskets

Next ==
  /\ version' = version + 1
  /\ \/ \E team \in Teams, points \in 1..3 : Record(team, points)
     \/ \E b \in baskets : TakeBack(b)
     \/ Note
     \/ \E next \in {"pending", "live", "official", "withdrawn"} : Move(next)
     \/ Award

Spec == Init /\ [][Next]_ledgerVars
=============================================================================
