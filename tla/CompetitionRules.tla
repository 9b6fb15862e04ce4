--------------------------- MODULE CompetitionRules ---------------------------
(***************************************************************************)
(* The pure algorithms of apps/api/src/competition: standings with their   *)
(* tie-breaks, the circle method and single-elimination brackets.  Team    *)
(* ids are numbers: the code only compares them, and orders them as text.  *)
(***************************************************************************)
EXTENDS Integers, FiniteSetsExt, SequencesExt

CONSTANT
  Rules   \* a stage's rule set: winPoints, lossPoints, drawPoints, tieBreakers

Criteria == {"WINS", "POINTS", "HEAD_TO_HEAD", "HEAD_TO_HEAD_POINT_DIFFERENCE",
             "OVERALL_POINT_DIFFERENCE", "POINTS_SCORED", "FEWEST_POINTS_CONCEDED"}

ASSUME RulesAssumption ==
  /\ Rules.winPoints \in Nat /\ Rules.lossPoints \in Nat /\ Rules.drawPoints \in Nat
  /\ Rules.tieBreakers \in Seq(Criteria) /\ Rules.tieBreakers # <<>>

NoTeam == 0    \* a missing opponent: a bye, or the winner of an earlier game
NoRank == 0    \* no manual override
-----------------------------------------------------------------------------
\* Standings.  A result has an id, two teams and their scores.

\* A result seen from one of its teams.
For(t, r) == IF r.home = t THEN r.homeScore ELSE r.awayScore
Against(t, r) == IF r.home = t THEN r.awayScore ELSE r.homeScore

GamesOf(t, results) == {r \in results : t \in {r.home, r.away}}

\* applyGame, for every game of a team that counts.
Row(t, results) ==
  LET played == GamesOf(t, results)
      wins   == Cardinality({r \in played : For(t, r) > Against(t, r)})
      losses == Cardinality({r \in played : For(t, r) < Against(t, r)})
      draws  == Cardinality(played) - wins - losses
      scored   == SumFunction([r \in played |-> For(t, r)])
      conceded == SumFunction([r \in played |-> Against(t, r)])
  IN
  [played |-> Cardinality(played), wins |-> wins, losses |-> losses, draws |-> draws,
   pointsFor |-> scored, pointsAgainst |-> conceded, pointDifference |-> scored - conceded,
   standingPoints |-> wins * Rules.winPoints + losses * Rules.lossPoints
                      + draws * Rules.drawPoints]

\* buildHeadToHead counts every result of the stage, whoever is tied.
HeadToHead(t, results) ==
  [wins |-> Cardinality({r \in GamesOf(t, results) : For(t, r) > Against(t, r)}),
   pointDifference |-> SumFunction([r \in GamesOf(t, results) |-> For(t, r) - Against(t, r)])]

ValueFor(criterion, t, results) ==
  CASE criterion = "WINS"                          -> Row(t, results).wins
    [] criterion = "POINTS"                        -> Row(t, results).standingPoints
    [] criterion = "HEAD_TO_HEAD"                  -> HeadToHead(t, results).wins
    [] criterion = "HEAD_TO_HEAD_POINT_DIFFERENCE" -> HeadToHead(t, results).pointDifference
    [] criterion = "OVERALL_POINT_DIFFERENCE"      -> Row(t, results).pointDifference
    [] criterion = "POINTS_SCORED"                 -> Row(t, results).pointsFor
    [] criterion = "FEWEST_POINTS_CONCEDED"        -> Row(t, results).pointsAgainst

\* A team's values in the order of the rules, the larger the better.
Values(t, results) ==
  [i \in DOMAIN Rules.tieBreakers |->
     LET value == ValueFor(Rules.tieBreakers[i], t, results)
     IN  IF Rules.tieBreakers[i] = "FEWEST_POINTS_CONCEDED" THEN -value ELSE value]

\* compareCriterion for the criteria in their order: the first that differs decides.
Decides(i, left, right, values) ==
  /\ values[left][i] # values[right][i]
  /\ \A j \in 1..(i - 1) : values[left][j] = values[right][j]

\* Variant: teams equal in every criterion are not told apart.
DecidedByValues(left, right, values) ==
  \E i \in DOMAIN Rules.tieBreakers :
    Decides(i, left, right, values) /\ values[left][i] > values[right][i]

\* After all criteria the id decides.
BeforeByValues(left, right, values) ==
  \/ \E i \in DOMAIN Rules.tieBreakers :
       Decides(i, left, right, values) /\ values[left][i] > values[right][i]
  \/ left < right /\ \A i \in DOMAIN Rules.tieBreakers : ~Decides(i, left, right, values)

\* The comparator of calculateStandings: manual ranks come first, in their order.
Before(left, right, values, overrides) ==
  IF overrides[left] # NoRank \/ overrides[right] # NoRank
  THEN /\ overrides[left] # NoRank
       /\ \/ overrides[right] = NoRank
          \/ overrides[left] < overrides[right]
          \/ overrides[left] = overrides[right] /\ left < right
  ELSE BeforeByValues(left, right, values)

\* calculateStandings: a team's rank is its place in the sorted list.
CalculateStandings(teams, results, overrides) ==
  LET values == [t \in teams |-> Values(t, results)]
  IN  [t \in teams |->
         [row |-> Row(t, results), override |-> overrides[t],
          rank |-> 1 + Cardinality({u \in teams \ {t} : Before(u, t, values, overrides)})]]
-----------------------------------------------------------------------------
\* The circle method.  A pairing has its round and the two teams.

\* Variant: nothing is fixed, the whole circle turns.
RotatedWhole(s) == <<Last(s)>> \o Front(s)

\* The first position is fixed, the last one moves behind it.
Rotated(s) == <<Head(s), Last(s)>> \o Front(Tail(s))

WithBye(teams) == IF Len(teams) % 2 = 0 THEN teams ELSE Append(teams, NoTeam)

\* Rounds are counted from 0 while they are built, as are positions.
PairingAt(rotation, round, index) ==
  LET left  == rotation[index + 1]
      right == rotation[Len(rotation) - index]
      flip  == (round + index) % 2 = 1
  IN  [round |-> round + 1, home |-> IF flip THEN right ELSE left,
       away |-> IF flip THEN left ELSE right]

\* The circle in every round.
Rotations(circle) ==
  LET rotation[r \in Nat] == IF r = 0 THEN circle ELSE Rotated(rotation[r - 1])
  IN  rotation

AllPairings(teams) ==
  LET circle == WithBye(teams)
      rounds == Len(circle) - 1
      games  == Len(circle) \div 2
  IN  [i \in 1..(rounds * games) |->
         PairingAt(Rotations(circle)[(i - 1) \div games], (i - 1) \div games, (i - 1) % games)]

\* Variant: the free team of a round gets a game against nobody.
LegWithByes(teams) == AllPairings(teams)

\* A pairing without an opponent is skipped.
WithoutByes(pairings) ==
  LET kept[i \in 0..Len(pairings)] ==
        IF i = 0 THEN <<>>
        ELSE IF NoTeam \in {pairings[i].home, pairings[i].away} THEN kept[i - 1]
        ELSE Append(kept[i - 1], pairings[i])
  IN  kept[Len(pairings)]

FirstLeg(teams) == WithoutByes(AllPairings(teams))

RoundRobin(teams, double) ==
  LET first  == FirstLeg(teams)
      rounds == Len(WithBye(teams)) - 1
      return(p) == [round |-> p.round + rounds, home |-> p.away, away |-> p.home]
  IN  IF double THEN first \o [i \in DOMAIN first |-> return(first[i])] ELSE first
-----------------------------------------------------------------------------
\* Brackets.

Power[k \in Nat] == IF k = 0 THEN 1 ELSE 2 * Power[k - 1]

\* Variant: floor for ceil, the largest power that is not above n.
FloorSize(n) == CHOOSE size \in {Power[k] : k \in 0..n} : size <= n /\ n < 2 * size

\* 2 ** Math.ceil(Math.log2(n)), for two teams or more.
BracketSize(n) == CHOOSE size \in {Power[k] : k \in 1..n} : size >= n /\ size < 2 * n

Seed(teams, i) == IF i \in DOMAIN teams THEN teams[i] ELSE NoTeam

\* The opponent in slot (from 0) of the first round.
Opponent(teams, size, slot) == Seed(teams, size - slot)

\* Slots are listed by round, which has half as many games as the one before it.
SingleElimination(teams) ==
  LET size     == BracketSize(Len(teams))
      before(r) == size - size \div Power[r - 1]
      round(i) == CHOOSE r \in 1..size : before(r) < i /\ i <= before(r + 1)
      game(r, s) ==
        [round |-> r, slot |-> s,
         home |-> IF r = 1 THEN Seed(teams, s + 1) ELSE NoTeam,
         away |-> IF r = 1 THEN Opponent(teams, size, s) ELSE NoTeam]
  IN  [i \in 1..(size - 1) |-> game(round(i), i - before(round(i)) - 1)]
=============================================================================
