-------------------------------- MODULE Stage --------------------------------
(***************************************************************************)
(* One competition stage (apps/api/src/games/games.service.ts): how its    *)
(* fixtures come about, how results change, and how the standings follow.  *)
(* recalculateStandings reads games and standings by statements of their   *)
(* own and rewrites all rows later, so recalculations overlap with each    *)
(* other, with results and with manual overrides.                          *)
(***************************************************************************)
EXTENDS CompetitionRules

CONSTANTS
  Formats,          \* the formats the stage may have
  TeamCount,        \* approved teams are 1..TeamCount, ids in the order of their text
  Scores,           \* pairs: what a played game may end with
  ForfeitFor, ForfeitAgainst,
  Requests,         \* handlers at work for the stage, of the API and of the workers
  MaxBatches,       \* bound: calls that create games
  MaxPlayed,        \* bound: larger schedules are created, not played
  MaxChanges,       \* bound: results and status changes
  MaxCalls          \* bound: overrides and recalculations that organizers ask for

ASSUME StageAssumption ==
  /\ TeamCount \in Nat /\ MaxBatches \in Nat /\ MaxPlayed \in Nat
  /\ MaxChanges \in Nat /\ MaxCalls \in Nat
  /\ Scores \subseteq Nat \X Nat /\ ForfeitFor \in Nat /\ ForfeitAgainst \in Nat

Teams == 1..TeamCount
Counted == {"FINAL", "FORFEITED", "ABANDONED"}
Versions == 3    \* a played game's version has moved by this much, see LiveScoring

VARIABLES
  format,       \* CompetitionStage.format
  games,        \* the Game rows of the stage, in the order of their creation
  links,        \* the BracketMatchLink rows
  table,        \* the Standing rows, by team
  snapshots,    \* the StandingSnapshot rows: what was ranked, by sourceVersion
  pending,      \* game.finalized and game.forfeited messages not yet handled
  requests,     \* what each handler has read so far
  changes, calls,   \* for the bounds
  entered,      \* history: the teams that each call to a generator was asked to draw
  withdrawn,    \* history: a status was set that is not announced to the workers
  unsettled     \* history: the last recalculation was overlapped or cut short

gameVars == <<format, games, links, entered>>
tableVars == <<table, snapshots, unsettled>>
vars == <<format, games, links, entered, table, snapshots, pending, requests, changes,
          calls, withdrawn, unsettled>>

Idle == [step |-> "idle"]

Init ==
  /\ format \in Formats
  /\ games = <<>> /\ links = {} /\ entered = <<>>
  /\ table = <<>> /\ snapshots = <<>>
  /\ pending = 0
  /\ requests = [r \in Requests |-> Idle]
  /\ changes = 0 /\ calls = 0
  /\ withdrawn = FALSE /\ unsettled = FALSE
-----------------------------------------------------------------------------
\* Fixtures.  batch tells the games of one call from those of another.

Batches == {games[g].batch : g \in DOMAIN games}

Game(home, away, round, slot) ==
  [home |-> home, away |-> away, round |-> round, slot |-> slot,
   batch |-> Cardinality(Batches) + 1,
   status |-> IF NoTeam \in {home, away} THEN "DRAFT" ELSE "SCHEDULED",
   version |-> 0, homeScore |-> 0, awayScore |-> 0, explained |-> FALSE]

CreateGames(new) ==
  /\ Cardinality(Batches) < MaxBatches
  /\ games' = games \o new
  /\ UNCHANGED <<format, tableVars, pending, requests, changes, calls, withdrawn>>

\* History: the new games are drawn for these teams.
Enter(teams) ==
  entered' = [b \in Batches' |-> IF b \in DOMAIN entered THEN entered[b] ELSE teams]

\* validateTeams refuses repetitions and teams that are not approved.
CreateFixture(home, away) ==
  /\ home # away
  /\ CreateGames(<<Game(home, away, 0, 0)>>)
  /\ Enter({})
  /\ UNCHANGED links

GenerateRoundRobin(n) ==
  /\ format \in {"SINGLE_ROUND_ROBIN", "DOUBLE_ROUND_ROBIN"}
  /\ LET pairings == RoundRobin([t \in 1..n |-> t], format = "DOUBLE_ROUND_ROBIN")
     IN  CreateGames([i \in DOMAIN pairings |->
                        Game(pairings[i].home, pairings[i].away, pairings[i].round, 0)])
  /\ Enter(1..n)
  /\ UNCHANGED links

\* The winner of slot s plays in slot s div 2 of the next round.
Feeds(source, target) ==
  target.round = source.round + 1 /\ target.slot = source.slot \div 2

\* One serializable transaction: games, then a link from each but the final.
GenerateBracket(n) ==
  /\ format \in {"SINGLE_ELIMINATION", "GROUPS_THEN_KNOCKOUT"}
  /\ LET slots == SingleElimination([t \in 1..n |-> t])
         id(i) == Len(games) + i
     IN
     /\ CreateGames([i \in DOMAIN slots |->
                       Game(slots[i].home, slots[i].away, slots[i].round, slots[i].slot)])
     /\ Enter(1..n)
     /\ links' = links \cup
          {[source |-> id(p[1]), target |-> id(p[2]),
            slot |-> IF slots[p[1]].slot % 2 = 0 THEN "HOME" ELSE "AWAY"] :
             p \in {q \in (DOMAIN slots) \X (DOMAIN slots) : Feeds(slots[q[1]], slots[q[2]])}}
-----------------------------------------------------------------------------
\* Results.

Playable == changes < MaxChanges /\ Len(games) <= MaxPlayed

\* Live scoring takes a game to its end and announces the result.
Finish(g, score) ==
  /\ Playable
  /\ games[g].status = "SCHEDULED"
  /\ games' = [games EXCEPT ![g] =
                 [games[g] EXCEPT !.status = "FINAL", !.version = games[g].version + Versions,
                                  !.homeScore = score[1], !.awayScore = score[2]]]
  /\ pending' = pending + 1
  /\ changes' = changes + 1
  /\ UNCHANGED <<format, links, entered, tableVars, requests, calls, withdrawn>>

\* Variant: workers recalculate for played games only.
AnnouncedFinal(new) == new = "FINAL"

\* The job handler recalculates for game.forfeited, not for the other statuses.
Announced(new) == new = "FORFEITED"

\* setStatus.  Only a forfeit touches the scores and explains the result, and
\* nothing takes an explanation back.
SetStatus(g, new, winner) ==
  LET forfeit == [games[g] EXCEPT
                    !.homeScore = IF winner = games[g].home THEN ForfeitFor ELSE ForfeitAgainst,
                    !.awayScore = IF winner = games[g].away THEN ForfeitFor ELSE ForfeitAgainst,
                    !.explained = TRUE]
      game == IF new = "FORFEITED" THEN forfeit ELSE games[g]
  IN
  /\ Playable
  /\ games[g].status # "FINAL"
  /\ new = "FORFEITED" => winner \in {games[g].home, games[g].away}
  /\ games' = [games EXCEPT ![g] =
                 [game EXCEPT !.status = new, !.version = games[g].version + 1]]
  /\ pending' = IF Announced(new) THEN pending + 1 ELSE pending
  /\ withdrawn' = (withdrawn \/ new # "FORFEITED")
  /\ changes' = changes + 1
  /\ UNCHANGED <<format, links, entered, tableVars, requests, calls>>
-----------------------------------------------------------------------------
\* Standings.

\* The games a recalculation selects, and what it makes of them.
Selected == {g \in DOMAIN games : games[g].status \in Counted}

PerGame == 1000000

SourceVersion ==
  SumFunction([g \in Selected |-> games[g].version]) + PerGame * Cardinality(Selected)

Results ==
  {[id |-> g, home |-> games[g].home, away |-> games[g].away,
    homeScore |-> games[g].homeScore, awayScore |-> games[g].awayScore] :
     g \in {s \in Selected : /\ NoTeam \notin {games[s].home, games[s].away}
                             /\ games[s].status # "ABANDONED" \/ games[s].explained}}

TeamsWithResults == (UNION {{games[g].home, games[g].away} : g \in Selected}) \ {NoTeam}

\* Variant: the manual ranks of earlier rows are not read.
NoOverride(t) == NoRank

Override(t) == IF t \in DOMAIN table THEN table[t].override ELSE NoRank

\* What a recalculation that overlaps with nothing would write.
CurrentTable ==
  CalculateStandings(TeamsWithResults, Results, [t \in Teams |-> Override(t)])

\* recalculateStandings starts for a message, for an organizer or after an
\* override: it selects the games ...
ReadGames(r) ==
  /\ \/ requests[r].step = "idle" /\ pending > 0 /\ pending' = pending - 1
        /\ UNCHANGED calls
     \/ requests[r].step = "idle" /\ calls < MaxCalls /\ calls' = calls + 1
        /\ UNCHANGED pending
     \/ requests[r].step = "overridden" /\ UNCHANGED <<pending, calls>>
  /\ requests' = [requests EXCEPT ![r] =
       [step |-> "games", job |-> pending' # pending, afterOverride |-> @.step = "overridden",
        fresh |-> TRUE, sourceVersion |-> SourceVersion, results |-> Results,
        teams |-> TeamsWithResults, overrides |-> [t \in Teams |-> NoRank]]]
  /\ UNCHANGED <<gameVars, tableVars, changes, withdrawn>>

\* ... then the standings with their manual ranks ...
ReadStandings(r) ==
  /\ requests[r].step = "games"
  /\ requests' = [requests EXCEPT ![r] =
       [@ EXCEPT !.step = "standings", !.overrides = [t \in Teams |-> Override(t)]]]
  /\ UNCHANGED <<gameVars, tableVars, pending, changes, calls, withdrawn>>

\* Rows are deleted and created anew: a request that has found one by its id
\* will not find it again, and what other recalculations have read is old.
Overtaken(q) ==
  CASE requests[q].step \in {"games", "standings"} -> [requests[q] EXCEPT !.fresh = FALSE]
    [] requests[q].step = "override"               -> [requests[q] EXCEPT !.step = "gone"]
    [] OTHER                                       -> requests[q]

\* Variant: a version that has a snapshot keeps it.
RecordedOnce(v, rows) ==
  [w \in DOMAIN snapshots \cup {v} |-> IF w \in DOMAIN snapshots THEN snapshots[w] ELSE rows]

\* The snapshot of version v is created, or overwritten.
Recorded(v, rows) ==
  [w \in DOMAIN snapshots \cup {v} |-> IF w = v THEN rows ELSE snapshots[w]]

\* ... and rewrites the table and the snapshot of its version in one transaction.
Rewrite(r) ==
  LET read == requests[r]
  IN
  /\ read.step = "standings"
  /\ table' = CalculateStandings(read.teams, read.results, read.overrides)
  /\ snapshots' = Recorded(read.sourceVersion, table')
  /\ requests' = [q \in Requests |-> IF q = r THEN Idle ELSE Overtaken(q)]
  /\ unsettled' = ~read.fresh
  /\ UNCHANGED <<gameVars, pending, changes, calls, withdrawn>>

\* Another rewrite has won the unique indexes, a row is gone, or the process
\* stops.  The queue delivers a message again; a request is lost.
GiveUp(r) ==
  /\ requests[r].step # "idle"
  /\ requests' = [requests EXCEPT ![r] = Idle]
  /\ IF requests[r].step \in {"games", "standings"}
     THEN /\ pending' = IF requests[r].job THEN pending + 1 ELSE pending
          /\ unsettled' = (unsettled \/ requests[r].afterOverride)
     ELSE /\ unsettled' = (unsettled \/ requests[r].step = "overridden")
          /\ UNCHANGED pending
  /\ UNCHANGED <<gameVars, table, snapshots, changes, calls, withdrawn>>

\* setManualOverride finds the row, updates it by id, and then recalculates.
FindRow(r, t, rank) ==
  /\ requests[r].step = "idle"
  /\ calls < MaxCalls
  /\ t \in DOMAIN table
  /\ requests' = [requests EXCEPT ![r] = [step |-> "override", team |-> t, rank |-> rank]]
  /\ calls' = calls + 1
  /\ UNCHANGED <<gameVars, tableVars, pending, changes, withdrawn>>

UpdateRow(r) ==
  LET read == requests[r]
  IN
  /\ read.step = "override"
  /\ table' = [table EXCEPT ![read.team].override = read.rank]
  /\ requests' = [q \in Requests |->
       CASE q = r                            -> [step |-> "overridden"]
         [] requests[q].step = "standings"   -> [requests[q] EXCEPT !.fresh = FALSE]
         [] OTHER                            -> requests[q]]
  /\ UNCHANGED <<gameVars, snapshots, unsettled, pending, changes, calls, withdrawn>>
-----------------------------------------------------------------------------
Fixtures ==
  \/ \E home, away \in 1..MaxPlayed : {home, away} \subseteq Teams /\ CreateFixture(home, away)
  \/ \E n \in 2..TeamCount : GenerateRoundRobin(n) \/ GenerateBracket(n)

ResultsChange ==
  \E g \in DOMAIN games :
    \/ \E score \in Scores : Finish(g, score)
    \/ \E winner \in Teams : SetStatus(g, "FORFEITED", winner)
    \/ \E new \in {"POSTPONED", "CANCELLED", "ABANDONED"} : SetStatus(g, new, NoTeam)

Recalculation ==
  \E r \in Requests : ReadGames(r) \/ ReadStandings(r) \/ Rewrite(r) \/ GiveUp(r)

ManualOverride ==
  \E r \in Requests :
    \/ UpdateRow(r)
    \/ \E t \in DOMAIN table, rank \in 1..2 : FindRow(r, t, rank)

Next == Fixtures \/ ResultsChange \/ Recalculation \/ ManualOverride

Spec == Init /\ [][Next]_vars
-----------------------------------------------------------------------------
Ranks == {table[t].rank : t \in DOMAIN table}

TypeOK ==
  /\ format \in Formats
  /\ \A g \in DOMAIN games :
       /\ {games[g].home, games[g].away} \subseteq Teams \cup {NoTeam}
       /\ games[g].status \in {"SCHEDULED", "FINAL"} =>
            games[g].home # games[g].away /\ NoTeam \notin {games[g].home, games[g].away}
       /\ games[g].status = "DRAFT" => format \in {"SINGLE_ELIMINATION", "GROUPS_THEN_KNOCKOUT"}
       /\ games[g].status \in {"DRAFT", "SCHEDULED", "FINAL", "FORFEITED", "POSTPONED",
                               "CANCELLED", "ABANDONED"}
       /\ {games[g].version, games[g].homeScore, games[g].awayScore} \subseteq Nat
  /\ \A l \in links : {l.source, l.target} \subseteq DOMAIN games
  /\ DOMAIN table \subseteq Teams /\ DOMAIN snapshots \subseteq Nat
  /\ pending \in 0..MaxChanges
  /\ \A r \in Requests : requests[r].step \in {"idle", "override", "gone", "overridden",
                                                "games", "standings"}

\* A generated round-robin schedule is complete and playable: every two of the teams
\* it is generated for meet once, or once at each other's home, nobody else plays, and
\* nobody has two games in one round, for every number of teams, byes included.
RoundRobinComplete ==
  format \in {"SINGLE_ROUND_ROBIN", "DOUBLE_ROUND_ROBIN"} =>
    \A b \in Batches :
      LET batch == {g \in DOMAIN games : games[g].batch = b /\ games[g].round > 0}
          hosted(t, u) == Cardinality({g \in batch : games[g].home = t /\ games[g].away = u})
      IN
      /\ \A g \in batch : {games[g].home, games[g].away} \subseteq entered[b]
      /\ \A g, h \in batch : games[g].round = games[h].round /\ g # h =>
           {games[g].home, games[g].away} \cap {games[h].home, games[h].away} = {}
      /\ \A t, u \in entered[b] : t # u =>
           IF format = "DOUBLE_ROUND_ROBIN" THEN hosted(t, u) = 1
                                            ELSE hosted(t, u) + hosted(u, t) = 1

\* A generated bracket is a tree: every team it is generated for enters exactly once
\* and nobody else does, every game but the final sends its winner to exactly one place,
\* no place is fed twice, a game that waits for winners waits for two, and a first-round
\* game has an opponent or a bye.
BracketSound ==
  \A b \in Batches :
    LET bracket == {g \in DOMAIN games : games[g].batch = b /\ games[g].round > 0}
        first   == {g \in bracket : games[g].round = 1}
        from(g) == {l \in links : l.source = g}
        to(g)   == {l \in links : l.target = g}
    IN
    format \in {"SINGLE_ELIMINATION", "GROUPS_THEN_KNOCKOUT"} /\ entered[b] # {} =>
      /\ \A t \in Teams : Cardinality({g \in bracket : t \in {games[g].home, games[g].away}})
                            = IF t \in entered[b] THEN 1 ELSE 0
      /\ \A g \in first : {games[g].home, games[g].away} # {NoTeam}
      /\ Cardinality({g \in bracket : from(g) = {}}) = 1
      /\ \A g \in bracket : Cardinality(from(g)) <= 1
      /\ \A g \in bracket \ first : {l.slot : l \in to(g)} = {"HOME", "AWAY"}
                                    /\ Cardinality(to(g)) = 2

\* The table shown is consistent in itself although its rows are rewritten by
\* overlapping handlers: ranks run from 1 without ties or gaps, every game
\* counts for both of its teams, and among teams without a manual rank more
\* of the first criterion means a better rank.
TableSound ==
  LET total(column) == SumFunction([t \in DOMAIN table |-> table[t].row[column]])
      first(t) == IF Rules.tieBreakers[1] = "POINTS" THEN table[t].row.standingPoints
                                                     ELSE table[t].row.wins
  IN
  /\ Ranks = 1..Cardinality(DOMAIN table)
  /\ total("wins") = total("losses") /\ total("pointsFor") = total("pointsAgainst")
  /\ \A t, u \in DOMAIN table :
       /\ table[t].override = NoRank /\ table[u].override = NoRank
       /\ Rules.tieBreakers[1] \in {"POINTS", "WINS"} /\ first(t) > first(u)
       => table[t].rank < table[u].rank

\* When all messages are handled the table belongs to the current results, with
\* the manual ranks in force: a result that changes after a recalculation has read
\* the games is caught up by its own message.  The exceptions are statuses that
\* are set without a message, and a last rewrite that was itself overtaken.
AtRestCurrent ==
  pending = 0 /\ (\A r \in Requests : requests[r] = Idle) /\ ~withdrawn /\ ~unsettled
    => table = CurrentTable

\* The ranking that is shown can be reproduced: some snapshot holds the record and the
\* rank of every team as the table has them.  A manual rank counts once it is applied.
\* An earlier ranking of the same sourceVersion is overwritten.
RankingRecorded ==
  LET ranking(rows) == [t \in DOMAIN rows |-> <<rows[t].row, rows[t].rank>>]
  IN  table # <<>> => \E v \in DOMAIN snapshots : ranking(snapshots[v]) = ranking(table)

\* A manual rank is not lost by a recalculation, unless that recalculation had read
\* the standings before the rank was set, or the team's results were withdrawn.
OverridesSurvive ==
  [][\A t \in DOMAIN table :
       table[t].override # NoRank /\ ~withdrawn /\ ~unsettled'
         => t \in DOMAIN table' /\ table'[t].override # NoRank]_vars

\* The tie-break that the rules promise: of two teams that are level on points, and
\* with whom nobody else is level, the one that has beaten the other comes first.
HeadToHeadDecides ==
  LET current == CurrentTable
      beaten(t, u) ==
        Cardinality({r \in Results : {r.home, r.away} = {t, u} /\ For(t, r) > For(u, r)})
      points(t) == current[t].row.standingPoints
  IN
  \A t, u \in TeamsWithResults :
    /\ t # u /\ {v \in TeamsWithResults : points(v) = points(t)} = {t, u}
    /\ beaten(t, u) > beaten(u, t)
    /\ Rules.tieBreakers[1] = "POINTS" /\ Rules.tieBreakers[2] = "HEAD_TO_HEAD"
    /\ Override(t) = NoRank /\ Override(u) = NoRank
    => current[t].rank < current[u].rank
=============================================================================
