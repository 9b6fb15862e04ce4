----------------------------- MODULE Stage_proofs -----------------------------
(***************************************************************************)
(* Proofs about a stage, for any number of teams, games, handlers and      *)
(* messages, any rules and any scores.  Recalculations overlap with each   *)
(* other, with results and with manual ranks: the invariant says what a    *)
(* handler that has not been overtaken still knows.  The last part is      *)
(* about what is scheduled: complete round robins and sound brackets.      *)
(***************************************************************************)
EXTENDS Stage, Sums, SequenceTheorems

USE StageAssumption DEF NoTeam, NoRank
-----------------------------------------------------------------------------
(***************************************************************************)
(* Types.                                                                  *)
(***************************************************************************)

\* The rows of the games.
Statuses == {"DRAFT", "SCHEDULED", "FINAL", "FORFEITED", "POSTPONED", "CANCELLED", "ABANDONED"}

GameRow ==
  [home : Teams \cup {NoTeam}, away : Teams \cup {NoTeam}, round : Nat, slot : Nat, batch : Nat,
   status : Statuses, version : Nat, homeScore : Nat, awayScore : Nat, explained : BOOLEAN]

\* A game has two teams, or waits for one.
Proper(game) ==
  /\ game.home # game.away \/ game.home = NoTeam
  /\ game.status \in {"SCHEDULED", "FINAL"} => NoTeam \notin {game.home, game.away}

GamesInv ==
  /\ games \in Seq(GameRow)
  /\ \A g \in DOMAIN games : Proper(games[g])

Result == [id : Nat, home : Teams, away : Teams, homeScore : Nat, awayScore : Nat]

\* What a recalculation has selected: finitely many results, each of two of its teams.
Evidence(results, teams) ==
  /\ results \in SUBSET Result /\ IsFiniteSet(results) /\ teams \in SUBSET Teams
  /\ \A x \in results : x.home # x.away /\ {x.home, x.away} \subseteq teams

LEMMA GamesFinite ==
  ASSUME GamesInv
  PROVE  /\ Len(games) \in Nat /\ DOMAIN games = 1..Len(games) /\ IsFiniteSet(DOMAIN games)
         /\ \A g \in DOMAIN games : games[g] \in GameRow
         /\ Selected \subseteq DOMAIN games /\ IsFiniteSet(Selected)
<1>1. /\ Len(games) \in Nat /\ DOMAIN games = 1..Len(games)
      /\ \A g \in DOMAIN games : games[g] \in GameRow
  BY LenProperties, ElementOfSeq DEF GamesInv
<1>2. IsFiniteSet(1..Len(games))
  BY <1>1, FS_Interval
<1>3. Selected \subseteq DOMAIN games
  BY DEF Selected
<1> QED BY <1>1, <1>2, <1>3, FS_Subset

LEMMA TeamsOf ==
  ASSUME NEW G, NEW S, NEW t
  PROVE  t \in (UNION {{G[g].home, G[g].away} : g \in S}) \ {NoTeam}
           <=> t # NoTeam /\ \E g \in S : t \in {G[g].home, G[g].away}
<1> DEFINE Both == {{G[g].home, G[g].away} : g \in S}
<1>1. t \in UNION Both <=> \E s \in Both : t \in s
  BY Zenon
<1>2. t \in UNION Both <=> \E g \in S : t \in {G[g].home, G[g].away}
  BY <1>1
<1> HIDE DEF Both, NoTeam
<1>3. t \in (UNION Both) \ {NoTeam} <=> t \in UNION Both /\ t # NoTeam
  OBVIOUS
<1> QED BY <1>2, <1>3, Zenon DEF Both

LEMMA WithResults ==
  \A t : t \in TeamsWithResults <=>
           t # NoTeam /\ \E g \in Selected : t \in {games[g].home, games[g].away}
BY TeamsOf, Zenon DEF TeamsWithResults

\* A function's image of a finite set is finite.
LEMMA FiniteImage ==
  ASSUME NEW S, IsFiniteSet(S), NEW f, DOMAIN f = S
  PROVE  IsFiniteSet({f[x] : x \in S})
<1> DEFINE T == {f[x] : x \in S}
           g == [x \in S |-> f[x]]
<1>1. g \in Surjection(S, T)
  BY DEF Surjection
<1> HIDE DEF g
<1> QED BY <1>1, FS_Surjection

LEMMA CurrentEvidence ==
  ASSUME GamesInv
  PROVE  Evidence(Results, TeamsWithResults)
<1> DEFINE Chosen == {s \in Selected : /\ NoTeam \notin {games[s].home, games[s].away}
                                       /\ games[s].status # "ABANDONED" \/ games[s].explained}
           f == [g \in Chosen |-> [id |-> g, home |-> games[g].home, away |-> games[g].away,
                                   homeScore |-> games[g].homeScore, awayScore |-> games[g].awayScore]]
<1>1. Results = {f[g] : g \in Chosen}
  BY DEF Results
<1>2. IsFiniteSet(Chosen) /\ Chosen \subseteq Selected
  BY GamesFinite, FS_Subset
<1>3. ASSUME NEW g \in Chosen
      PROVE  /\ f[g] \in Result /\ f[g].home # f[g].away
             /\ {f[g].home, f[g].away} \subseteq TeamsWithResults
  <2>1. games[g] \in GameRow /\ Proper(games[g]) /\ g \in Selected /\ g \in Nat
    BY <1>2, GamesFinite DEF GamesInv
  <2>2. games[g].home # NoTeam /\ games[g].away # NoTeam
    OBVIOUS
  <2>3. games[g].home \in TeamsWithResults /\ games[g].away \in TeamsWithResults
    BY <2>1, <2>2, WithResults
  <2> QED BY <2>1, <2>2, <2>3 DEF Proper, GameRow, Result
<1>4. TeamsWithResults \subseteq Teams
  <2>1. \A g \in Selected : games[g].home \in Teams \cup {NoTeam} /\ games[g].away \in Teams \cup {NoTeam}
    BY GamesFinite DEF GameRow
  <2> QED BY <2>1, WithResults
<1>5. IsFiniteSet({f[g] : g \in Chosen})
  <2> HIDE DEF f, Chosen
  <2>1. DOMAIN f = Chosen
    BY DEF f
  <2> QED BY <1>2, <2>1, FiniteImage
<1> HIDE DEF f, Chosen
<1> QED BY <1>1, <1>3, <1>4, <1>5 DEF Evidence

\* Results depend on the selected games only.
LEMMA Unmoved ==
  ASSUME Selected' = Selected, \A g \in Selected : games'[g] = games[g]
  PROVE  UNCHANGED <<Results, TeamsWithResults>>
<1>1. Results' = Results
  BY DEF Results
<1>2. TeamsWithResults' = TeamsWithResults
  BY DEF TeamsWithResults
<1> QED BY <1>1, <1>2

LEMMA PerGameType == PerGame \in Nat \ {0}
BY SMT DEF PerGame

LEMMA SourceVersionType ==
  ASSUME GamesInv
  PROVE  SourceVersion \in Nat
<1> DEFINE f == [g \in Selected |-> games[g].version]
<1>1. \A g \in Selected : f[g] \in Nat
  BY GamesFinite DEF GameRow
<1>2. DOMAIN f = Selected
  OBVIOUS
<1>3. SumFunction(f) = SumFunctionOnSet(f, Selected)
  BY <1>2 DEF SumFunction
<1> HIDE DEF f
<1>4. SumFunctionOnSet(f, Selected) \in Nat
  BY <1>1, GamesFinite, SumNat
<1>5. Cardinality(Selected) \in Nat
  BY GamesFinite, FS_CardinalityType
<1>6. PerGame * Cardinality(Selected) \in Nat
  BY <1>5, PerGameType
<1> QED BY <1>3, <1>4, <1>6 DEF SourceVersion, f

\* A result that is added or replaced leaves the teams with results there.
LEMMA Moved ==
  ASSUME GamesInv, NEW g \in DOMAIN games, NEW row \in GameRow,
         games' = [games EXCEPT ![g] = row], row.status \in Counted,
         row.home = games[g].home, row.away = games[g].away
  PROVE  TeamsWithResults \subseteq TeamsWithResults'
<1>1. /\ DOMAIN games' = DOMAIN games /\ games'[g] = row
      /\ \A h \in DOMAIN games : h # g => games'[h] = games[h]
  OBVIOUS
<1>2. Selected' = Selected \cup {g}
  BY <1>1 DEF Selected
<1>3. TeamsWithResults \subseteq TeamsWithResults'
  <2>1. ASSUME NEW t \in TeamsWithResults PROVE t \in TeamsWithResults'
    <3>1. PICK h \in Selected : t \in {games[h].home, games[h].away}
      BY WithResults
    <3>2. t # NoTeam
      BY WithResults
    <3>3. h \in Selected' /\ t \in {games'[h].home, games'[h].away}
      BY <1>1, <1>2, <3>1, GamesFinite
    <3>4. t \in TeamsWithResults' <=>
            t # NoTeam /\ \E k \in Selected' : t \in {games'[k].home, games'[k].away}
      <4> HIDE DEF NoTeam
      <4>1. TeamsWithResults' = (UNION {{games'[k].home, games'[k].away} : k \in Selected'}) \ {NoTeam}
        BY Zenon DEF TeamsWithResults
      <4>2. PICK G, S : G = games' /\ S = Selected'
        OBVIOUS
      <4>3. t \in (UNION {{G[k].home, G[k].away} : k \in S}) \ {NoTeam}
              <=> t # NoTeam /\ \E k \in S : t \in {G[k].home, G[k].away}
        BY TeamsOf
      <4> QED BY <4>1, <4>2, <4>3, Zenon
    <3> QED BY <3>2, <3>3, <3>4
  <2> QED BY <2>1
<1> QED BY <1>3

-----------------------------------------------------------------------------
\* What a recalculation holds between its reads, and what the other handlers hold.
Reading == [step : {"games", "standings"}, job : BOOLEAN, afterOverride : BOOLEAN, fresh : BOOLEAN,
            sourceVersion : Nat, results : SUBSET Result, teams : SUBSET Teams,
            overrides : [Teams -> Nat]]
\* What a handler has read, by its step.
Overriding == [step : {"override", "gone"}, team : Teams, rank : 1..2]
Waiting == [step : {"idle", "overridden"}]

IsReading(r) == requests[r].step \in {"games", "standings"}

RequestsInv ==
  /\ requests \in [Requests -> Reading \cup Overriding \cup Waiting]
  /\ \A r \in Requests : IsReading(r) => Evidence(requests[r].results, requests[r].teams)

\* The rows belong to one calculation, except that manual ranks were set since.
Tabled(teams, results, overrides) ==
  /\ Evidence(results, teams) /\ overrides \in [Teams -> Nat]
  /\ table = [t \in teams |-> table[t]]
  /\ \A t \in teams :
       /\ table[t] = [row |-> Row(t, results), override |-> table[t].override,
                      rank |-> CalculateStandings(teams, results, overrides)[t].rank]
       /\ table[t].override \in Nat
       /\ table[t].override = NoRank => overrides[t] = NoRank

TableInv == \E teams, results, overrides : Tabled(teams, results, overrides)

SnapshotsInv == DOMAIN snapshots \subseteq Nat

FlagsInv == pending \in Nat /\ withdrawn \in BOOLEAN /\ unsettled \in BOOLEAN

Types == GamesInv /\ RequestsInv /\ TableInv /\ SnapshotsInv /\ FlagsInv

LEMMA Standings ==
  ASSUME NEW teams, NEW results, NEW overrides
  PROVE  LET C == CalculateStandings(teams, results, overrides)
         IN  /\ DOMAIN C = teams
             /\ C = [t \in teams |-> C[t]]
             /\ \A t \in teams : /\ C[t] = [row |-> Row(t, results), override |-> overrides[t],
                                            rank |-> C[t].rank]
                                 /\ C[t].override = overrides[t]
BY DEF CalculateStandings

\* Only the manual ranks of the teams of a table count.
LEMMA StandingsSame ==
  ASSUME NEW teams, NEW results, NEW overrides, NEW others,
         \A t \in teams : others[t] = overrides[t]
  PROVE  CalculateStandings(teams, results, others) = CalculateStandings(teams, results, overrides)
<1> DEFINE values == [t \in teams |-> Values(t, results)]
<1> HIDE DEF values
<1>1. ASSUME NEW t \in teams, NEW u \in teams
      PROVE  Before(u, t, values, others) <=> Before(u, t, values, overrides)
  BY DEF Before
<1>2. ASSUME NEW t \in teams
      PROVE  {u \in teams \ {t} : Before(u, t, values, others)}
               = {u \in teams \ {t} : Before(u, t, values, overrides)}
  BY <1>1
<1>3. [t \in teams |->
         [row |-> Row(t, results), override |-> others[t],
          rank |-> 1 + Cardinality({u \in teams \ {t} : Before(u, t, values, others)})]]
      = [t \in teams |->
         [row |-> Row(t, results), override |-> overrides[t],
          rank |-> 1 + Cardinality({u \in teams \ {t} : Before(u, t, values, overrides)})]]
  BY <1>2
<1> QED BY <1>3, Zenon DEF CalculateStandings, values

\* Nothing but a recalculation or an override writes the table.
LEMMA TableStays ==
  ASSUME TableInv, UNCHANGED table
  PROVE  TableInv'
<1>1. PICK teams, results, overrides : Tabled(teams, results, overrides)
  BY DEF TableInv
<1>2. Tabled(teams, results, overrides)'
  BY <1>1 DEF Tabled
<1> QED BY <1>2 DEF TableInv

LEMMA Overrides ==
  ASSUME TableInv
  PROVE  /\ DOMAIN table \subseteq Teams
         /\ \A t : Override(t) \in Nat
         /\ [t \in Teams |-> Override(t)] \in [Teams -> Nat]
<1>1. PICK teams, results, overrides : Tabled(teams, results, overrides)
  BY DEF TableInv
<1>2. DOMAIN table = teams /\ teams \subseteq Teams /\ \A t \in teams : table[t].override \in Nat
  BY <1>1 DEF Tabled, Evidence
<1> QED BY <1>2 DEF Override

-----------------------------------------------------------------------------
(***************************************************************************)
(* Recalculations that overlap.                                            *)
(***************************************************************************)

\* The reads of request r are those of the present results.
ReadsCurrent(r) ==
  IsReading(r) /\ requests[r].results = Results /\ requests[r].teams = TeamsWithResults

\* A message will bring the table up to date: it waits, or its recalculation has begun
\* after the results changed last.
Caught == withdrawn \/ pending > 0 \/ \E q \in Requests : ReadsCurrent(q) /\ requests[q].job

\* Nothing has overtaken the recalculation of r: it is about the present results, or they
\* will be caught up with, and it has the present manual ranks of all rows.
FreshRead(r) ==
  /\ ReadsCurrent(r) \/ Caught
  /\ requests[r].step = "standings" => \A t \in Teams : requests[r].overrides[t] = Override(t)
  /\ ~withdrawn => DOMAIN table \subseteq requests[r].teams

\* A recalculation that nothing has overtaken knows the present.
FreshInv == \A r \in Requests : IsReading(r) /\ requests[r].fresh => FreshRead(r)

\* An override has been written, or is being recalculated.
Overridden(r) == requests[r].step = "overridden" \/ (IsReading(r) /\ requests[r].afterOverride)

\* The table is current, or something is known to be amiss or under way.
RestInv ==
  \/ table = CurrentTable \/ unsettled \/ Caught
  \/ \E r \in Requests : Overridden(r)

\* Results are only added while none are withdrawn.
RowsInv ==
  ~withdrawn => /\ DOMAIN table \subseteq TeamsWithResults
                /\ \A r \in Requests : IsReading(r) => requests[r].teams \subseteq TeamsWithResults

Overlaps == FreshInv /\ RestInv /\ RowsInv

LEMMA CurrentTableStays ==
  ASSUME UNCHANGED <<Results, TeamsWithResults, table>>
  PROVE  UNCHANGED CurrentTable
BY DEF CurrentTable, Override

\* Fixtures are no results.
LEMMA OverlapsStay ==
  ASSUME Types, Overlaps, UNCHANGED <<Results, TeamsWithResults>>,
         UNCHANGED <<table, snapshots, requests, pending, withdrawn, unsettled>>
  PROVE  Overlaps'
<1>1. Caught <=> Caught'
  BY DEF Caught, ReadsCurrent, IsReading
<1>2. FreshInv'
  BY <1>1 DEF Overlaps, FreshInv, FreshRead, ReadsCurrent, IsReading, Override
<1>3. RestInv'
  BY <1>1, CurrentTableStays DEF Overlaps, RestInv, Overridden, IsReading
<1>4. RowsInv'
  BY DEF Overlaps, RowsInv, IsReading
<1> QED BY <1>2, <1>3, <1>4 DEF Overlaps

\* A result is announced or withdrawn.
LEMMA ResultOverlaps ==
  ASSUME Types, Overlaps, UNCHANGED <<table, snapshots, requests, unsettled>>,
         \/ withdrawn'
         \/ /\ pending' > 0 /\ UNCHANGED withdrawn
            /\ TeamsWithResults \subseteq TeamsWithResults'
  PROVE  Overlaps'
<1>1. Caught'
  BY DEF Caught
<1>2. FreshInv'
  BY <1>1 DEF Overlaps, FreshInv, FreshRead, IsReading, Override
<1>3. RestInv'
  BY <1>1 DEF RestInv
<1>4. RowsInv'
  BY DEF Overlaps, RowsInv, IsReading
<1> QED BY <1>2, <1>3, <1>4 DEF Overlaps

\* No recalculation begins or ends: each keeps what it has read of the results.
SameReads ==
  \A q \in Requests :
    /\ IsReading(q)' <=> IsReading(q)
    /\ IsReading(q) =>
         /\ requests'[q].results = requests[q].results /\ requests'[q].teams = requests[q].teams
         /\ requests'[q].job = requests[q].job
         /\ requests'[q].afterOverride = requests[q].afterOverride

\* Recalculations that answer a message.
Jobs == {r \in Requests : IsReading(r) /\ requests[r].job}

LEMMA SameReadsKeep ==
  ASSUME Overlaps, SameReads, UNCHANGED <<Results, TeamsWithResults>>,
         UNCHANGED <<pending, withdrawn>>, DOMAIN table' = DOMAIN table
  PROVE  /\ Caught <=> Caught'
         /\ \A q \in Requests : ReadsCurrent(q) <=> ReadsCurrent(q)'
         /\ RowsInv'
<1>1. \A q \in Requests : ReadsCurrent(q) <=> ReadsCurrent(q)'
  BY DEF SameReads, ReadsCurrent
<1>2. Caught <=> Caught'
  BY <1>1 DEF SameReads, Caught, ReadsCurrent
<1>3. RowsInv'
  BY DEF Overlaps, RowsInv, SameReads
<1> QED BY <1>1, <1>2, <1>3

\* A step of the recalculations leaves the games alone.
LEMMA GamesStay ==
  ASSUME UNCHANGED games
  PROVE  UNCHANGED <<Results, TeamsWithResults>>
BY Unmoved DEF Selected

\* A request is of one of three kinds.
LEMMA RequestKinds ==
  ASSUME RequestsInv, NEW r \in Requests
  PROVE  /\ IsReading(r) => requests[r] \in Reading
         /\ requests[r].step \in {"override", "gone"} => requests[r] \in Overriding
         /\ requests[r].step \in {"idle", "overridden"} => requests[r] \in Waiting
         /\ requests[r].step \in {"idle", "overridden", "override", "gone", "games", "standings"}
BY DEF RequestsInv, IsReading, Reading, Overriding, Waiting

LEMMA ReadGamesOverlaps ==
  ASSUME Types, Overlaps, NEW r \in Requests, ReadGames(r)
  PROVE  /\ Types' /\ Overlaps'
         /\ r \notin Jobs
         /\ pending' = pending \/ pending' = pending - 1
         /\ Jobs' = IF pending' = pending THEN Jobs ELSE Jobs \cup {r}
<1>0. PICK new :
        new = [step |-> "games", job |-> pending' # pending,
               afterOverride |-> requests[r].step = "overridden",
               fresh |-> TRUE, sourceVersion |-> SourceVersion, results |-> Results,
               teams |-> TeamsWithResults, overrides |-> [t \in Teams |-> NoRank]]
  OBVIOUS
<1>1. /\ UNCHANGED <<games, table, snapshots, withdrawn, unsettled>>
      /\ requests[r].step \in {"idle", "overridden"} /\ ~IsReading(r)
      /\ requests' = [requests EXCEPT ![r] = new]
      /\ pending' \in Nat /\ (pending' = pending \/ (pending' = pending - 1 /\ pending' # pending))
  BY <1>0 DEF ReadGames, gameVars, tableVars, IsReading, Types, FlagsInv
<1>2. /\ new \in Reading /\ new.step = "games" /\ new.job = (pending' # pending)
      /\ new.afterOverride = (requests[r].step = "overridden") /\ new.sourceVersion = SourceVersion
      /\ new.results = Results /\ new.teams = TeamsWithResults
      /\ Evidence(new.results, new.teams) /\ new.fresh
  BY <1>0, CurrentEvidence, SourceVersionType DEF Types, Reading, Evidence
<1>3. /\ requests'[r] = new
      /\ \A q \in Requests : q # r => requests'[q] = requests[q]
  BY <1>1 DEF Types, RequestsInv
<1>4. UNCHANGED <<Results, TeamsWithResults>>
  BY <1>1, GamesStay
<1>5. /\ IsReading(r)' /\ ReadsCurrent(r)'
      /\ \A q \in Requests : q # r => /\ IsReading(q)' <=> IsReading(q)
                                      /\ ReadsCurrent(q)' <=> ReadsCurrent(q)
  <2>1. IsReading(r)'
    BY <1>2, <1>3 DEF IsReading
  <2>2. ReadsCurrent(r)'
    BY <1>2, <1>3, <1>4, <2>1 DEF ReadsCurrent
  <2>3. ASSUME NEW q \in Requests, q # r
        PROVE  (IsReading(q)' <=> IsReading(q)) /\ (ReadsCurrent(q)' <=> ReadsCurrent(q))
    <3>1. requests'[q] = requests[q]
      BY <1>3, <2>3
    <3>2. IsReading(q)' <=> IsReading(q)
      BY <3>1 DEF IsReading
    <3> QED BY <1>4, <3>1, <3>2 DEF ReadsCurrent
  <2> QED BY <2>1, <2>2, <2>3
<1>6. Types'
  <2>1. GamesInv' /\ SnapshotsInv' /\ FlagsInv'
    BY <1>1 DEF Types, GamesInv, SnapshotsInv, FlagsInv
  <2>2. RequestsInv'
    BY <1>1, <1>2, <1>3, <1>5 DEF Types, RequestsInv, IsReading
  <2> QED BY <1>1, <2>1, <2>2, TableStays DEF Types
<1>7. Caught => Caught'
  <2>1. CASE withdrawn
    BY <1>1, <2>1 DEF Caught
  <2>2. CASE pending > 0
    <3>1. CASE pending' = pending
      BY <2>2, <3>1 DEF Caught
    <3>2. CASE pending' # pending
      <4>1. requests'[r].job
        BY <1>2, <1>3, <3>2
      <4> QED BY <1>5, <4>1 DEF Caught
    <3> QED BY <3>1, <3>2
  <2>3. ASSUME NEW q \in Requests, ReadsCurrent(q), requests[q].job
        PROVE  Caught'
    <3>1. q # r
      BY <1>1, <2>3 DEF ReadsCurrent
    <3>2. ReadsCurrent(q)' /\ requests'[q].job
      BY <1>3, <1>5, <2>3, <3>1
    <3> QED BY <3>2 DEF Caught
  <2> QED BY <2>1, <2>2, <2>3 DEF Caught
<1>8. FreshInv'
  <2>1. ASSUME NEW q \in Requests, IsReading(q)', requests'[q].fresh
        PROVE  FreshRead(q)'
    <3>1. CASE q = r
      BY <1>1, <1>2, <1>3, <1>4, <1>5, <3>1 DEF FreshRead, Overlaps, RowsInv
    <3>2. CASE q # r
      <4>1. FreshRead(q)
        BY <1>3, <1>5, <2>1, <3>2 DEF Overlaps, FreshInv
      <4> QED BY <1>1, <1>3, <1>5, <1>7, <3>2, <4>1 DEF FreshRead, Override
    <3> QED BY <3>1, <3>2
  <2> QED BY <2>1 DEF FreshInv
<1>9. RestInv'
  <2>1. ASSUME NEW q \in Requests, Overridden(q)
        PROVE  Overridden(q)'
    BY <1>1, <1>2, <1>3, <1>5, <2>1 DEF Overridden, IsReading
  <2> QED BY <1>1, <1>4, <1>7, <2>1, CurrentTableStays DEF Overlaps, RestInv
<1>10. RowsInv'
  BY <1>1, <1>2, <1>3, <1>4, <1>5 DEF Overlaps, RowsInv
<1>12. Jobs' = IF pending' = pending THEN Jobs ELSE Jobs \cup {r}
  <2>1. r \in Jobs' <=> pending' # pending
    BY <1>2, <1>3, <1>5 DEF Jobs
  <2>2. ASSUME NEW q, q # r PROVE q \in Jobs' <=> q \in Jobs
    BY <1>3, <1>5, <2>2 DEF Jobs
  <2>3. r \notin Jobs
    BY <1>1 DEF Jobs
  <2> QED BY <2>1, <2>2, <2>3
<1>13. r \notin Jobs
  BY <1>1 DEF Jobs
<1> QED BY <1>1, <1>6, <1>8, <1>9, <1>10, <1>12, <1>13 DEF Overlaps

-----------------------------------------------------------------------------
\* Types of everything but the table, when the games stay.
LEMMA OtherTypes ==
  ASSUME Types, UNCHANGED games, TableInv', SnapshotsInv', FlagsInv',
         requests' \in [Requests -> Reading \cup Overriding \cup Waiting],
         \A q \in Requests : IsReading(q)' => Evidence(requests'[q].results, requests'[q].teams)
  PROVE  Types'
BY DEF Types, GamesInv, RequestsInv

LEMMA ReadStandingsOverlaps ==
  ASSUME Types, Overlaps, NEW r \in Requests, ReadStandings(r)
  PROVE  Types' /\ Overlaps' /\ SameReads
<1>0. PICK new :
        new = [requests[r] EXCEPT !.step = "standings", !.overrides = [t \in Teams |-> Override(t)]]
  OBVIOUS
<1>1. /\ UNCHANGED <<games, table, snapshots, pending, withdrawn, unsettled>>
      /\ requests[r].step = "games" /\ IsReading(r) /\ requests[r] \in Reading
      /\ requests' = [requests EXCEPT ![r] = new]
  BY <1>0, RequestKinds DEF ReadStandings, gameVars, tableVars, IsReading, Types
<1>2. /\ new \in Reading /\ new.step = "standings"
      /\ new.overrides = [t \in Teams |-> Override(t)]
      /\ new.job = requests[r].job /\ new.afterOverride = requests[r].afterOverride
      /\ new.results = requests[r].results /\ new.teams = requests[r].teams
      /\ new.sourceVersion = requests[r].sourceVersion /\ new.fresh = requests[r].fresh
  BY <1>0, <1>1, Overrides DEF Types, Reading
<1>3. /\ requests'[r] = new
      /\ \A q \in Requests : q # r => requests'[q] = requests[q]
  BY <1>1 DEF Types, RequestsInv
<1>4. SameReads
  BY <1>1, <1>2, <1>3 DEF SameReads, IsReading
<1>5. UNCHANGED <<Results, TeamsWithResults>>
  BY <1>1, GamesStay
<1>6. /\ Caught <=> Caught'
      /\ \A q \in Requests : ReadsCurrent(q) <=> ReadsCurrent(q)'
      /\ RowsInv'
  BY <1>1, <1>4, <1>5, SameReadsKeep
<1>7. Types'
  <2>1. SnapshotsInv' /\ FlagsInv' /\ TableInv'
    BY <1>1, TableStays DEF Types, SnapshotsInv, FlagsInv
  <2>2. requests' \in [Requests -> Reading \cup Overriding \cup Waiting]
    BY <1>1, <1>2 DEF Types, RequestsInv
  <2>3. \A q \in Requests : IsReading(q)' => Evidence(requests'[q].results, requests'[q].teams)
    BY <1>4 DEF Types, RequestsInv, SameReads
  <2> QED BY <1>1, <2>1, <2>2, <2>3, OtherTypes
<1>8. FreshInv'
  <2>1. ASSUME NEW q \in Requests, IsReading(q)', requests'[q].fresh
        PROVE  FreshRead(q)'
    <3>1. IsReading(q) /\ requests[q].fresh /\ FreshRead(q)
      BY <1>2, <1>3, <1>4, <2>1 DEF Overlaps, FreshInv, SameReads
    <3>2. requests'[q].teams = requests[q].teams
      BY <1>4, <3>1 DEF SameReads
    <3>3. ASSUME requests'[q].step = "standings", NEW t \in Teams
          PROVE  requests'[q].overrides[t] = Override(t)
      BY <1>2, <1>3, <3>1, <3>3 DEF FreshRead
    <3>4. \A t \in Teams : Override(t)' = Override(t)
      BY <1>1 DEF Override
    <3> QED BY <1>1, <1>6, <3>1, <3>2, <3>3, <3>4 DEF FreshRead
  <2> QED BY <2>1 DEF FreshInv
<1>9. RestInv'
  <2>1. ASSUME NEW q \in Requests, Overridden(q)
        PROVE  Overridden(q)'
    BY <1>1, <1>3, <1>4, <2>1 DEF Overridden, SameReads
  <2> QED BY <1>1, <1>5, <1>6, <2>1, CurrentTableStays DEF Overlaps, RestInv
<1> QED BY <1>4, <1>6, <1>7, <1>8, <1>9 DEF Overlaps

\* A request that holds no results leaves the others as they are.
LEMMA NoReadsKeep ==
  ASSUME Overlaps, UNCHANGED <<Results, TeamsWithResults>>,
         UNCHANGED withdrawn, DOMAIN table' = DOMAIN table,
         \A q \in Requests : IsReading(q)' =>
           IsReading(q) /\ requests'[q] = requests[q]
  PROVE  RowsInv'
BY DEF Overlaps, RowsInv

LEMMA GiveUpOverlaps ==
  ASSUME Types, Overlaps, NEW r \in Requests, GiveUp(r)
  PROVE  /\ Types' /\ Overlaps'
         /\ Jobs' = Jobs \ {r}
         /\ pending' = IF r \in Jobs THEN pending + 1 ELSE pending
<1>1. /\ UNCHANGED <<games, table, snapshots, withdrawn>>
      /\ requests' = [requests EXCEPT ![r] = Idle]
  BY DEF GiveUp, gameVars
<1>2. /\ requests'[r] = Idle
      /\ \A q \in Requests : q # r => requests'[q] = requests[q]
  BY <1>1 DEF Types, RequestsInv
<1>3. /\ pending' \in Nat /\ pending' >= pending /\ pending \in Nat
      /\ IsReading(r) /\ requests[r].job => pending' > 0
      /\ unsettled' \in BOOLEAN /\ (unsettled => unsettled')
      /\ Overridden(r) => unsettled'
  <2>1. pending \in Nat /\ unsettled \in BOOLEAN /\ (IsReading(r) => requests[r] \in Reading)
    BY RequestKinds DEF Types, FlagsInv
  <2>2. CASE IsReading(r)
    BY <2>1, <2>2 DEF GiveUp, IsReading, Reading, Overridden
  <2>3. CASE ~IsReading(r)
    <3>1. pending' = pending /\ unsettled' = (unsettled \/ requests[r].step = "overridden")
      BY <2>3 DEF GiveUp, IsReading
    <3>2. Overridden(r) => requests[r].step = "overridden"
      BY <2>3 DEF Overridden
    <3>3. /\ pending' \in Nat /\ pending' >= pending /\ pending \in Nat
      BY <2>1, <3>1
    <3>4. (unsettled => unsettled') /\ (requests[r].step = "overridden" => unsettled')
      BY <3>1, Zenon
    <3>5. unsettled' \in BOOLEAN
      BY <2>1, <3>1, Zenon
    <3> QED BY <2>3, <3>2, <3>3, <3>4, <3>5
  <2> QED BY <2>2, <2>3
<1>4. ~IsReading(r)'
  BY <1>2 DEF IsReading, Idle
<1>5. ASSUME NEW q \in Requests, IsReading(q)'
      PROVE  IsReading(q) /\ requests'[q] = requests[q]
  BY <1>2, <1>4, <1>5 DEF IsReading
<1>6. UNCHANGED <<Results, TeamsWithResults>>
  BY <1>1, GamesStay
<1>7. Caught => Caught'
  <2>1. CASE withdrawn
    BY <1>1, <2>1 DEF Caught
  <2>2. CASE pending > 0
    BY <1>3, <2>2 DEF Caught
  <2>3. ASSUME NEW q \in Requests, ReadsCurrent(q), requests[q].job
        PROVE  Caught'
    <3>1. CASE q = r
      BY <1>3, <2>3, <3>1 DEF Caught, ReadsCurrent
    <3>2. CASE q # r
      <4>1. ReadsCurrent(q)' /\ requests'[q].job
        BY <1>2, <1>6, <2>3, <3>2 DEF ReadsCurrent, IsReading
      <4> QED BY <4>1 DEF Caught
    <3> QED BY <3>1, <3>2
  <2> QED BY <2>1, <2>2, <2>3 DEF Caught
<1>8. Types'
  <2>1. SnapshotsInv' /\ FlagsInv' /\ TableInv'
    BY <1>1, <1>3, TableStays DEF Types, SnapshotsInv, FlagsInv
  <2>2. requests' \in [Requests -> Reading \cup Overriding \cup Waiting]
    BY <1>1 DEF Types, RequestsInv, Waiting, Idle
  <2>3. \A q \in Requests : IsReading(q)' => Evidence(requests'[q].results, requests'[q].teams)
    BY <1>5 DEF Types, RequestsInv
  <2> QED BY <1>1, <2>1, <2>2, <2>3, OtherTypes
<1>9. FreshInv'
  <2>1. ASSUME NEW q \in Requests, IsReading(q)', requests'[q].fresh
        PROVE  FreshRead(q)'
    <3>1. IsReading(q) /\ requests'[q] = requests[q] /\ FreshRead(q)
      BY <1>5, <2>1 DEF Overlaps, FreshInv
    <3>2. ReadsCurrent(q) => ReadsCurrent(q)'
      BY <1>6, <2>1, <3>1 DEF ReadsCurrent
    <3>3. \A t \in Teams : Override(t)' = Override(t)
      BY <1>1 DEF Override
    <3> QED BY <1>1, <1>7, <3>1, <3>2, <3>3 DEF FreshRead
  <2> QED BY <2>1 DEF FreshInv
<1>10. RestInv'
  <2>1. ASSUME NEW q \in Requests, Overridden(q)
        PROVE  Overridden(q)' \/ unsettled'
    <3>1. CASE q = r
      BY <1>3, <2>1, <3>1
    <3>2. CASE q # r
      BY <1>2, <2>1, <3>2 DEF Overridden, IsReading
    <3> QED BY <3>1, <3>2
  <2> QED BY <1>1, <1>3, <1>6, <1>7, <2>1, CurrentTableStays DEF Overlaps, RestInv
<1>11. RowsInv'
  BY <1>1, <1>5, <1>6, NoReadsKeep
<1>12. Jobs' = Jobs \ {r}
  <2>1. ASSUME NEW q \in Requests, q # r PROVE q \in Jobs' <=> q \in Jobs
    BY <1>2, <2>1 DEF Jobs, IsReading
  <2>2. r \notin Jobs'
    BY <1>4 DEF Jobs
  <2> QED BY <2>1, <2>2 DEF Jobs
<1>13. pending' = IF r \in Jobs THEN pending + 1 ELSE pending
  BY DEF GiveUp, Jobs, IsReading
<1> QED BY <1>8, <1>9, <1>10, <1>11, <1>12, <1>13 DEF Overlaps

-----------------------------------------------------------------------------
LEMMA FindRowOverlaps ==
  ASSUME Types, Overlaps, NEW r \in Requests, NEW t \in DOMAIN table, NEW rank \in 1..2,
         FindRow(r, t, rank)
  PROVE  Types' /\ Overlaps' /\ SameReads
<1>0. PICK new : new = [step |-> "override", team |-> t, rank |-> rank]
  OBVIOUS
<1>1. /\ UNCHANGED <<games, table, snapshots, pending, withdrawn, unsettled>>
      /\ requests[r].step = "idle" /\ requests' = [requests EXCEPT ![r] = new]
      /\ new \in Overriding /\ new.step = "override"
  BY <1>0, Overrides DEF FindRow, gameVars, tableVars, Types, Overriding
<1>2. /\ requests'[r] = new
      /\ \A q \in Requests : q # r => requests'[q] = requests[q]
  BY <1>1 DEF Types, RequestsInv
<1>3. SameReads
  BY <1>1, <1>2 DEF SameReads, IsReading
<1>4. UNCHANGED <<Results, TeamsWithResults>>
  BY <1>1, GamesStay
<1>5. /\ Caught <=> Caught'
      /\ \A q \in Requests : ReadsCurrent(q) <=> ReadsCurrent(q)'
      /\ RowsInv'
  BY <1>1, <1>3, <1>4, SameReadsKeep
<1>6. Types'
  <2>1. SnapshotsInv' /\ FlagsInv' /\ TableInv'
    BY <1>1, TableStays DEF Types, SnapshotsInv, FlagsInv
  <2>2. requests' \in [Requests -> Reading \cup Overriding \cup Waiting]
    BY <1>1 DEF Types, RequestsInv
  <2>3. \A q \in Requests : IsReading(q)' => Evidence(requests'[q].results, requests'[q].teams)
    BY <1>3 DEF Types, RequestsInv, SameReads
  <2> QED BY <1>1, <2>1, <2>2, <2>3, OtherTypes
<1>7. FreshInv'
  <2>1. ASSUME NEW q \in Requests, IsReading(q)', requests'[q].fresh
        PROVE  FreshRead(q)'
    <3>1. q # r
      BY <1>1, <1>2, <2>1 DEF IsReading
    <3>2. requests'[q] = requests[q] /\ IsReading(q) /\ FreshRead(q)
      BY <1>2, <2>1, <3>1 DEF Overlaps, FreshInv, IsReading
    <3>3. \A u \in Teams : Override(u)' = Override(u)
      BY <1>1 DEF Override
    <3> QED BY <1>1, <1>5, <3>2, <3>3 DEF FreshRead
  <2> QED BY <2>1 DEF FreshInv
<1>8. RestInv'
  <2>1. ASSUME NEW q \in Requests, Overridden(q)
        PROVE  Overridden(q)'
    <3>1. q # r
      BY <1>1, <2>1 DEF Overridden, IsReading
    <3> QED BY <1>2, <2>1, <3>1 DEF Overridden, IsReading
  <2> QED BY <1>1, <1>4, <1>5, <2>1, CurrentTableStays DEF Overlaps, RestInv
<1> QED BY <1>3, <1>5, <1>6, <1>7, <1>8 DEF Overlaps

\* What an override makes of the requests.
Written(r, q) ==
  CASE q = r                          -> [step |-> "overridden"]
    [] requests[q].step = "standings" -> [requests[q] EXCEPT !.fresh = FALSE]
    [] OTHER                          -> requests[q]

LEMMA WrittenRequests ==
  ASSUME Types, NEW r \in Requests, requests[r].step = "override"
  PROVE  /\ Written(r, r) = [step |-> "overridden"]
         /\ \A q \in Requests :
              /\ q # r /\ requests[q].step = "standings" =>
                   /\ Written(r, q) = [requests[q] EXCEPT !.fresh = FALSE]
                   /\ Written(r, q) \in Reading /\ Written(r, q).step = "standings"
                   /\ Written(r, q).fresh = FALSE
                   /\ \A f \in {"results", "teams", "job", "afterOverride"} :
                        Written(r, q)[f] = requests[q][f]
              /\ q # r /\ requests[q].step # "standings" => Written(r, q) = requests[q]
<1>1. Written(r, r) = [step |-> "overridden"]
  BY DEF Written
<1>2. ASSUME NEW q \in Requests, q # r, requests[q].step = "standings"
      PROVE  /\ Written(r, q) = [requests[q] EXCEPT !.fresh = FALSE]
             /\ requests[q] \in Reading
  BY <1>2, RequestKinds DEF Written, Types, IsReading
<1>3. ASSUME NEW q \in Requests, q # r, requests[q].step = "standings"
      PROVE  /\ Written(r, q) = [requests[q] EXCEPT !.fresh = FALSE]
             /\ Written(r, q) \in Reading /\ Written(r, q).step = "standings"
             /\ Written(r, q).fresh = FALSE
             /\ \A f \in {"results", "teams", "job", "afterOverride"} :
                  Written(r, q)[f] = requests[q][f]
  <2>1. Written(r, q) = [requests[q] EXCEPT !.fresh = FALSE] /\ requests[q] \in Reading
    BY <1>2, <1>3
  <2> QED BY <1>3, <2>1 DEF Reading
<1>4. ASSUME NEW q \in Requests, q # r, requests[q].step # "standings"
      PROVE  Written(r, q) = requests[q]
  BY <1>4 DEF Written
<1> QED BY <1>1, <1>3, <1>4

LEMMA UpdateRowOverlaps ==
  ASSUME Types, Overlaps, NEW r \in Requests, UpdateRow(r)
  PROVE  /\ Types' /\ Overlaps' /\ SameReads
         /\ DOMAIN table' = DOMAIN table
         /\ \A t \in DOMAIN table : table'[t].override # table[t].override => table'[t].override # NoRank
<1>0. PICK team, rank : team = requests[r].team /\ rank = requests[r].rank
  OBVIOUS
<1>1. /\ UNCHANGED <<games, snapshots, pending, withdrawn, unsettled>>
      /\ requests[r].step = "override" /\ requests[r] \in Overriding
      /\ requests' = [q \in Requests |-> Written(r, q)]
      /\ table' = [table EXCEPT ![team].override = rank]
      /\ rank \in 1..2
  BY <1>0, RequestKinds, Zenon DEF UpdateRow, gameVars, Types, Written, Overriding
<1>2. /\ requests'[r] = [step |-> "overridden"]
      /\ \A q \in Requests : q # r /\ requests[q].step # "standings" => requests'[q] = requests[q]
      /\ \A q \in Requests : q # r /\ requests[q].step = "standings" =>
           /\ requests'[q] \in Reading /\ requests'[q].step = "standings"
           /\ requests'[q].fresh = FALSE
           /\ \A f \in {"results", "teams", "job", "afterOverride"} :
                requests'[q][f] = requests[q][f]
  BY <1>1, WrittenRequests
<1>3. SameReads
  <2>1. ASSUME NEW q \in Requests
        PROVE  /\ IsReading(q)' <=> IsReading(q)
               /\ IsReading(q) =>
                    /\ requests'[q].results = requests[q].results /\ requests'[q].teams = requests[q].teams
                    /\ requests'[q].job = requests[q].job
                    /\ requests'[q].afterOverride = requests[q].afterOverride
    <3>1. CASE q = r
      BY <1>1, <1>2, <3>1 DEF IsReading
    <3>2. CASE q # r /\ requests[q].step = "standings"
      <4>1. \A f \in {"results", "teams", "job", "afterOverride"} :
              requests'[q][f] = requests[q][f]
        BY <1>2, <3>2
      <4> QED BY <1>2, <3>2, <4>1 DEF IsReading
    <3>3. CASE q # r /\ requests[q].step # "standings"
      BY <1>2, <3>3 DEF IsReading
    <3> QED BY <3>1, <3>2, <3>3
  <2> QED BY <2>1 DEF SameReads
<1>4. UNCHANGED <<Results, TeamsWithResults>>
  BY <1>1, GamesStay
<1>5. DOMAIN table' = DOMAIN table
  BY <1>1
<1>6. /\ Caught <=> Caught'
      /\ \A q \in Requests : ReadsCurrent(q) <=> ReadsCurrent(q)'
      /\ RowsInv'
  BY <1>1, <1>3, <1>4, <1>5, SameReadsKeep
<1>7. /\ TableInv'
      /\ \A t \in DOMAIN table : table'[t].override # table[t].override => table'[t].override # NoRank
  <2>1. PICK teams, results, overrides : Tabled(teams, results, overrides)
    BY DEF Types, TableInv
  <2>2. /\ table = [t \in teams |-> table[t]] /\ DOMAIN table = teams
        /\ Evidence(results, teams) /\ overrides \in [Teams -> Nat]
    BY <2>1 DEF Tabled
  <2>3. PICK C : C = CalculateStandings(teams, results, overrides)
    OBVIOUS
  <2>4. ASSUME NEW t \in teams
        PROVE  /\ table[t] = [row |-> Row(t, results), override |-> table[t].override, rank |-> C[t].rank]
               /\ table[t].override \in Nat
               /\ table[t].override = NoRank => overrides[t] = NoRank
    BY <2>1, <2>3 DEF Tabled
  <2>5. ASSUME NEW t \in teams
        PROVE  /\ table'[t] = [row |-> Row(t, results), override |-> table'[t].override, rank |-> C[t].rank]
               /\ table'[t].override \in Nat
               /\ table'[t].override = NoRank => overrides[t] = NoRank
               /\ table'[t].override # table[t].override => table'[t].override # NoRank
    <3>1. CASE t = team
      <4>1. table'[t] = [table[t] EXCEPT !.override = rank]
        BY <1>1, <2>2, <3>1
      <4>2. PICK row, old, place : table[t] = [row |-> row, override |-> old, rank |-> place]
                                   /\ row = Row(t, results) /\ place = C[t].rank
        BY <2>4
      <4>3. [[row |-> row, override |-> old, rank |-> place] EXCEPT !.override = rank]
              = [row |-> row, override |-> rank, rank |-> place]
        OBVIOUS
      <4>4. table'[t] = [row |-> Row(t, results), override |-> rank, rank |-> C[t].rank]
        BY <4>1, <4>2, <4>3
      <4> QED BY <1>1, <4>4
    <3>2. CASE t # team
      <4>1. table'[t] = table[t]
        BY <1>1, <2>2, <3>2
      <4> QED BY <2>4, <4>1
    <3> QED BY <3>1, <3>2
  <2>6. table' = [t \in teams |-> table'[t]]
    BY <1>1, <2>2
  <2>7. Tabled(teams, results, overrides)'
    BY <2>2, <2>3, <2>5, <2>6 DEF Tabled
  <2> QED BY <2>2, <2>5, <2>7 DEF TableInv
<1>8. Types'
  <2>1. SnapshotsInv' /\ FlagsInv'
    BY <1>1 DEF Types, SnapshotsInv, FlagsInv
  <2>2. ASSUME NEW q \in Requests
        PROVE  requests'[q] \in Reading \cup Overriding \cup Waiting
    BY <1>2 DEF Types, RequestsInv, Waiting
  <2>3. requests' \in [Requests -> Reading \cup Overriding \cup Waiting]
    BY <1>1, <2>2
  <2>4. \A q \in Requests : IsReading(q)' => Evidence(requests'[q].results, requests'[q].teams)
    BY <1>3 DEF Types, RequestsInv, SameReads
  <2> QED BY <1>1, <1>7, <2>1, <2>3, <2>4, OtherTypes
<1>9. FreshInv'
  <2>1. ASSUME NEW q \in Requests, IsReading(q)', requests'[q].fresh
        PROVE  FreshRead(q)'
    <3>1. q # r /\ requests[q].step # "standings"
      BY <1>2, <2>1 DEF IsReading
    <3>2. requests'[q] = requests[q] /\ IsReading(q) /\ FreshRead(q)
      BY <1>2, <2>1, <3>1 DEF Overlaps, FreshInv, IsReading
    <3> QED BY <1>1, <1>5, <1>6, <3>1, <3>2 DEF FreshRead
  <2> QED BY <2>1 DEF FreshInv
<1>10. RestInv'
  BY <1>2 DEF RestInv, Overridden
<1> QED BY <1>3, <1>5, <1>6, <1>7, <1>8, <1>9, <1>10 DEF Overlaps

-----------------------------------------------------------------------------
LEMMA OvertakenRequests ==
  ASSUME RequestsInv
  PROVE  \A q \in Requests :
           /\ IsReading(q) =>
                /\ Overtaken(q) \in Reading /\ Overtaken(q).step = requests[q].step
                /\ Overtaken(q).fresh = FALSE
                /\ \A f \in {"results", "teams", "job", "afterOverride"} :
                     Overtaken(q)[f] = requests[q][f]
           /\ ~IsReading(q) =>
                /\ Overtaken(q) \in Overriding \cup Waiting
                /\ Overtaken(q).step \notin {"games", "standings"}
                /\ requests[q].step = "overridden" => Overtaken(q).step = "overridden"
<1>1. ASSUME NEW q \in Requests, IsReading(q)
      PROVE  /\ Overtaken(q) \in Reading /\ Overtaken(q).step = requests[q].step
             /\ Overtaken(q).fresh = FALSE
             /\ \A f \in {"results", "teams", "job", "afterOverride"} :
                  Overtaken(q)[f] = requests[q][f]
  <2>1. Overtaken(q) = [requests[q] EXCEPT !.fresh = FALSE] /\ requests[q] \in Reading
    BY <1>1, RequestKinds DEF Overtaken, IsReading
  <2> QED BY <2>1 DEF Reading
<1>2. ASSUME NEW q \in Requests, ~IsReading(q)
      PROVE  /\ Overtaken(q) \in Overriding \cup Waiting
             /\ Overtaken(q).step \notin {"games", "standings"}
             /\ requests[q].step = "overridden" => Overtaken(q).step = "overridden"
  <2>1. requests[q] \in Overriding \cup Waiting
    BY <1>2 DEF RequestsInv, IsReading, Reading
  <2>2. CASE requests[q].step = "override"
    <3>1. Overtaken(q) = [requests[q] EXCEPT !.step = "gone"] /\ requests[q] \in Overriding
      BY <2>1, <2>2 DEF Overtaken, Waiting
    <3> QED BY <2>2, <3>1 DEF Overriding
  <2>3. CASE requests[q].step # "override"
    <3>1. Overtaken(q) = requests[q]
      BY <1>2, <2>3 DEF Overtaken, IsReading
    <3> QED BY <1>2, <2>1, <3>1 DEF IsReading
  <2> QED BY <2>2, <2>3
<1> QED BY <1>1, <1>2

LEMMA RewriteOverlaps ==
  ASSUME Types, Overlaps, NEW r \in Requests, Rewrite(r)
  PROVE  /\ Types' /\ Overlaps' /\ Jobs' = Jobs \ {r}
         /\ ~withdrawn /\ ~unsettled' =>
              \A t \in DOMAIN table : /\ t \in DOMAIN table'
                                      /\ table'[t].override = table[t].override
<1>0. PICK read : read = requests[r]
  OBVIOUS
<1>1. /\ UNCHANGED <<games, pending, withdrawn>>
      /\ read.step = "standings" /\ IsReading(r) /\ read \in Reading
      /\ Evidence(read.results, read.teams)
      /\ table' = CalculateStandings(read.teams, read.results, read.overrides)
      /\ requests' = [q \in Requests |-> IF q = r THEN Idle ELSE Overtaken(q)]
  BY <1>0, RequestKinds DEF Rewrite, gameVars, IsReading, Types, RequestsInv
<1>17. /\ read.results \in SUBSET Result /\ read.teams \in SUBSET Teams /\ read.sourceVersion \in Nat
      /\ read.overrides \in [Teams -> Nat] /\ read.fresh \in BOOLEAN
  BY <1>1 DEF Reading
<1>2. DOMAIN snapshots' = DOMAIN snapshots \cup {read.sourceVersion}
  BY <1>0 DEF Rewrite, Recorded
<1>18. unsettled' = ~read.fresh
  BY <1>0, Zenon DEF Rewrite
<1>3. /\ requests'[r] = Idle /\ ~IsReading(r)'
      /\ \A q \in Requests : q # r => requests'[q] = Overtaken(q)
  BY <1>1 DEF IsReading, Idle
<1>4. ASSUME NEW q \in Requests, IsReading(q)'
      PROVE  /\ q # r /\ IsReading(q) /\ requests'[q] \in Reading /\ requests'[q].fresh = FALSE
             /\ requests'[q].results = requests[q].results /\ requests'[q].teams = requests[q].teams
             /\ requests'[q].job = requests[q].job
  <2>1. q # r /\ requests'[q] = Overtaken(q)
    BY <1>3, <1>4
  <2>2. IsReading(q)
    BY <1>4, <2>1, OvertakenRequests DEF IsReading, Types
  <2>3. \A f \in {"results", "teams", "job", "afterOverride"} :
          requests'[q][f] = requests[q][f]
    BY <2>1, <2>2, OvertakenRequests DEF Types
  <2> QED BY <2>1, <2>2, <2>3, OvertakenRequests DEF Types
<1>5. ASSUME NEW q \in Requests, q # r, IsReading(q)
      PROVE  /\ IsReading(q)'
             /\ requests'[q].results = requests[q].results /\ requests'[q].teams = requests[q].teams
             /\ requests'[q].job = requests[q].job
  <2>1. requests'[q] = Overtaken(q)
    BY <1>3, <1>5
  <2>2. \A f \in {"results", "teams", "job", "afterOverride"} :
          requests'[q][f] = requests[q][f]
    BY <2>1, <1>5, OvertakenRequests DEF Types
  <2> QED BY <1>5, <2>1, <2>2, OvertakenRequests DEF Types, IsReading
<1>6. UNCHANGED <<Results, TeamsWithResults>>
  BY <1>1, GamesStay
<1>7. Caught /\ ~ReadsCurrent(r) => Caught'
  <2>1. CASE withdrawn \/ pending > 0
    BY <1>1, <2>1 DEF Caught
  <2>2. ASSUME NEW q \in Requests, ReadsCurrent(q), requests[q].job, ~ReadsCurrent(r)
        PROVE  Caught'
    <3>1. q # r /\ IsReading(q)
      BY <2>2 DEF ReadsCurrent
    <3>2. ReadsCurrent(q)' /\ requests'[q].job
      BY <1>5, <1>6, <2>2, <3>1 DEF ReadsCurrent
    <3> QED BY <3>2 DEF Caught
  <2> QED BY <2>1, <2>2 DEF Caught
<1>8. /\ DOMAIN table' = read.teams
      /\ \A t \in read.teams : table'[t].override = read.overrides[t]
  <2>1. PICK C : C = CalculateStandings(read.teams, read.results, read.overrides)
    OBVIOUS
  <2>2. /\ C = [t \in read.teams |-> C[t]]
        /\ \A t \in read.teams :
             /\ C[t] = [row |-> Row(t, read.results), override |-> read.overrides[t], rank |-> C[t].rank]
             /\ C[t].override = read.overrides[t]
    BY <2>1, Standings
  <2> QED BY <1>1, <2>1, <2>2
<1>9. Types'
  <2>1. Tabled(read.teams, read.results, read.overrides)'
    <3>1. PICK C : C = CalculateStandings(read.teams, read.results, read.overrides)
      OBVIOUS
    <3>2. /\ C = [t \in read.teams |-> C[t]]
          /\ \A t \in read.teams :
               /\ C[t] = [row |-> Row(t, read.results), override |-> read.overrides[t], rank |-> C[t].rank]
               /\ C[t].override = read.overrides[t]
      BY <3>1, Standings
    <3>3. \A t \in read.teams : read.overrides[t] \in Nat
      BY <1>17
    <3>4. table' = C
      BY <1>1, <3>1
    <3> QED BY <1>1, <1>17, <3>1, <3>2, <3>3, <3>4 DEF Tabled
  <2>2. TableInv'
    BY <2>1 DEF TableInv
  <2>3. SnapshotsInv'
    BY <1>2, <1>17 DEF Types, SnapshotsInv
  <2>4. FlagsInv'
    <3>1. pending' \in Nat /\ withdrawn' \in BOOLEAN
      BY <1>1 DEF Types, FlagsInv
    <3>2. unsettled' \in BOOLEAN
      BY <1>17, <1>18, Zenon
    <3> QED BY <3>1, <3>2 DEF FlagsInv
  <2>5. ASSUME NEW q \in Requests
        PROVE  requests'[q] \in Reading \cup Overriding \cup Waiting
    <3>1. CASE q = r
      BY <1>3, <3>1 DEF Idle, Waiting
    <3>2. CASE q # r
      <4>1. requests'[q] = Overtaken(q)
        BY <1>3, <3>2
      <4> QED BY <4>1, OvertakenRequests DEF Types
    <3> QED BY <3>1, <3>2
  <2>6. requests' \in [Requests -> Reading \cup Overriding \cup Waiting]
    BY <1>1, <2>5
  <2>7. \A q \in Requests : IsReading(q)' => Evidence(requests'[q].results, requests'[q].teams)
    BY <1>4 DEF Types, RequestsInv
  <2> QED BY <1>1, <2>2, <2>3, <2>4, <2>6, <2>7, OtherTypes
<1>10. FreshInv'
  BY <1>4 DEF FreshInv
<1>11. RestInv'
  <2>1. CASE ~read.fresh
    BY <1>18, <2>1 DEF RestInv
  <2>2. CASE read.fresh /\ ~ReadsCurrent(r)
    <3>1. Caught
      BY <1>0, <1>1, <2>2 DEF Overlaps, FreshInv, FreshRead
    <3> QED BY <1>7, <2>2, <3>1 DEF RestInv
  <2>3. CASE read.fresh /\ ReadsCurrent(r)
    <3>1. /\ read.results = Results /\ read.teams = TeamsWithResults
          /\ \A t \in Teams : read.overrides[t] = Override(t)
      BY <1>0, <1>1, <2>3 DEF Overlaps, FreshInv, FreshRead, ReadsCurrent
    <3>2. PICK O : O = [t \in Teams |-> Override(t)']
      OBVIOUS
    <3>3. CurrentTable' = CalculateStandings(read.teams, read.results, O)
      BY <1>6, <3>1, <3>2 DEF CurrentTable
    <3>4. \A t \in read.teams : O[t] = read.overrides[t]
      BY <1>8, <1>17, <3>2 DEF Override
    <3>5. table' = CurrentTable'
      BY <1>1, <3>3, <3>4, StandingsSame
    <3> QED BY <3>5 DEF RestInv
  <2> QED BY <2>1, <2>2, <2>3
<1>12. RowsInv'
  BY <1>0, <1>1, <1>4, <1>6, <1>8 DEF Overlaps, RowsInv
<1>15. ASSUME ~withdrawn, ~unsettled', NEW t \in DOMAIN table
       PROVE  t \in DOMAIN table' /\ table'[t].override = table[t].override
  <2>1. read.fresh
    BY <1>18, <1>15
  <2>2. DOMAIN table \subseteq read.teams /\ \A u \in Teams : read.overrides[u] = Override(u)
    BY <1>0, <1>1, <1>15, <2>1 DEF Overlaps, FreshInv, FreshRead
  <2>3. t \in Teams /\ t \in read.teams
    BY <1>15, <1>17, <2>2
  <2> QED BY <1>8, <1>15, <2>2, <2>3 DEF Override
<1>16. Jobs' = Jobs \ {r}
  <2>1. ASSUME NEW q, q \in Jobs' PROVE q \in Jobs \ {r}
    BY <1>4, <2>1 DEF Jobs
  <2>2. ASSUME NEW q, q \in Jobs \ {r} PROVE q \in Jobs'
    BY <1>5, <2>2 DEF Jobs
  <2> QED BY <2>1, <2>2
<1> QED BY <1>9, <1>10, <1>11, <1>12, <1>15, <1>16 DEF Overlaps

-----------------------------------------------------------------------------
\* A game changes its status: it keeps its teams, and is announced or withdrawn.
LEMMA ResultTypes ==
  ASSUME Types, NEW g \in DOMAIN games, NEW row \in GameRow,
         games' = [games EXCEPT ![g] = row], Proper(row),
         row.home = games[g].home, row.away = games[g].away,
         UNCHANGED <<requests, table, snapshots>>, FlagsInv'
  PROVE  Types'
<1>1. GamesInv'
  <2>1. games' \in Seq(GameRow)
    BY GamesFinite, ExceptSeq DEF Types, GamesInv
  <2>2. \A h \in DOMAIN games' : Proper(games'[h])
    BY DEF Types, GamesInv
  <2> QED BY <2>1, <2>2 DEF GamesInv
<1>2. RequestsInv' /\ SnapshotsInv' /\ TableInv'
  BY TableStays DEF Types, RequestsInv, SnapshotsInv, IsReading
<1> QED BY <1>1, <1>2 DEF Types

LEMMA FinishOverlaps ==
  ASSUME Types, Overlaps, NEW g \in DOMAIN games, NEW score \in Scores, Finish(g, score)
  PROVE  Types' /\ Overlaps'
<1>1. /\ games[g] \in GameRow /\ games[g].status = "SCHEDULED" /\ Proper(games[g])
      /\ score[1] \in Nat /\ score[2] \in Nat
  BY GamesFinite DEF Finish, Types, GamesInv
<1>2. PICK row : row = [games[g] EXCEPT !.status = "FINAL", !.version = games[g].version + Versions,
                                        !.homeScore = score[1], !.awayScore = score[2]]
  OBVIOUS
<1>3. /\ games' = [games EXCEPT ![g] = row] /\ pending' = pending + 1
      /\ UNCHANGED <<requests, table, snapshots, unsettled, withdrawn>>
  BY <1>2 DEF Finish, tableVars
<1>4. /\ row \in GameRow /\ row.status = "FINAL" /\ row.version > games[g].version
      /\ row.home = games[g].home /\ row.away = games[g].away
  <2>1. "FINAL" \in Statuses /\ games[g].version \in Nat /\ games[g].version + Versions \in Nat
        /\ games[g].version + Versions > games[g].version
    BY <1>1 DEF GameRow, Versions, Statuses
  <2>2. PICK game, status, version, home, away :
          /\ game = games[g] /\ status = "FINAL" /\ version = games[g].version + Versions
          /\ home = score[1] /\ away = score[2]
    OBVIOUS
  <2>3. /\ game \in GameRow /\ status \in Statuses /\ version \in Nat /\ home \in Nat /\ away \in Nat
        /\ row = [game EXCEPT !.status = status, !.version = version,
                              !.homeScore = home, !.awayScore = away]
    BY <1>1, <1>2, <2>1, <2>2
  <2>4. /\ row \in GameRow /\ row.status = status /\ row.version = version
        /\ row.home = game.home /\ row.away = game.away
    BY <2>3 DEF GameRow
  <2> QED BY <2>1, <2>2, <2>4
<1>5. Proper(row) /\ row.status \in Counted
  BY <1>1, <1>4 DEF Proper, Counted
<1>6. FlagsInv' /\ pending' > 0
  BY <1>3 DEF Types, FlagsInv
<1>7. Types'
  BY <1>3, <1>4, <1>5, <1>6, ResultTypes
<1>8. TeamsWithResults \subseteq TeamsWithResults'
  BY <1>3, <1>4, <1>5, Moved DEF Types
<1> QED BY <1>3, <1>6, <1>7, <1>8, ResultOverlaps

LEMMA SetStatusOverlaps ==
  ASSUME Types, Overlaps, NEW g \in DOMAIN games,
         NEW new \in {"FORFEITED", "POSTPONED", "CANCELLED", "ABANDONED"}, NEW winner,
         SetStatus(g, new, winner)
  PROVE  Types' /\ Overlaps'
<1>1. games[g] \in GameRow /\ Proper(games[g])
  BY GamesFinite DEF Types, GamesInv
<1>2. PICK home, away, row :
        /\ home = (IF winner = games[g].home THEN ForfeitFor ELSE ForfeitAgainst)
        /\ away = (IF winner = games[g].away THEN ForfeitFor ELSE ForfeitAgainst)
        /\ row = [(IF new = "FORFEITED"
                   THEN [games[g] EXCEPT !.homeScore = home, !.awayScore = away, !.explained = TRUE]
                   ELSE games[g]) EXCEPT !.status = new, !.version = games[g].version + 1]
  OBVIOUS
<1>3. games' = [games EXCEPT ![g] = row]
  BY <1>2 DEF SetStatus
<1>4. /\ row \in GameRow /\ row.status = new /\ row.version > games[g].version
      /\ row.home = games[g].home /\ row.away = games[g].away
  <2>1. /\ new \in Statuses /\ games[g].version \in Nat /\ games[g].version + 1 \in Nat
        /\ games[g].version + 1 > games[g].version /\ home \in Nat /\ away \in Nat
    BY <1>1, <1>2 DEF GameRow, Statuses
  <2>2. PICK game, version : game = games[g] /\ version = games[g].version + 1
    OBVIOUS
  <2>3. /\ game \in GameRow /\ version \in Nat
        /\ \/ row = [[game EXCEPT !.homeScore = home, !.awayScore = away, !.explained = TRUE]
                       EXCEPT !.status = new, !.version = version]
           \/ row = [game EXCEPT !.status = new, !.version = version]
    BY <1>1, <1>2, <2>1, <2>2
  <2>4. /\ row \in GameRow /\ row.status = new /\ row.version = version
        /\ row.home = game.home /\ row.away = game.away
    <3>1. CASE row = [[game EXCEPT !.homeScore = home, !.awayScore = away, !.explained = TRUE]
                        EXCEPT !.status = new, !.version = version]
      BY <2>1, <2>3, <3>1 DEF GameRow
    <3>2. CASE row = [game EXCEPT !.status = new, !.version = version]
      BY <2>1, <2>3, <3>2 DEF GameRow
    <3> QED BY <2>3, <3>1, <3>2
  <2> QED BY <2>1, <2>2, <2>4
<1>5. /\ UNCHANGED <<requests, table, snapshots, unsettled>>
      /\ new = "FORFEITED" => pending' = pending + 1
      /\ pending' \in {pending, pending + 1}
  BY DEF SetStatus, tableVars, Announced
<1>6. /\ withdrawn' \in BOOLEAN
      /\ new # "FORFEITED" => withdrawn'
      /\ new = "FORFEITED" => withdrawn' = withdrawn
  <2>1. withdrawn' = (withdrawn \/ new # "FORFEITED") /\ withdrawn \in BOOLEAN
    BY Zenon DEF SetStatus, Types, FlagsInv
  <2> QED BY <2>1
<1>7. Proper(row)
  BY <1>1, <1>4 DEF Proper
<1>8. FlagsInv'
  BY <1>5, <1>6 DEF Types, FlagsInv
<1>9. Types'
  BY <1>3, <1>4, <1>5, <1>7, <1>8, ResultTypes
<1>10. Overlaps'
  <2>1. CASE new # "FORFEITED"
    BY <1>5, <1>6, <2>1, ResultOverlaps
  <2>2. CASE new = "FORFEITED"
    <3>1. row.status \in Counted
      BY <1>4, <2>2 DEF Counted
    <3>2. TeamsWithResults \subseteq TeamsWithResults'
      BY <1>3, <1>4, <3>1, Moved DEF Types
    <3>3. pending' > 0 /\ withdrawn' = withdrawn
      BY <1>5, <1>6, <2>2 DEF Types, FlagsInv
    <3> QED BY <1>5, <3>2, <3>3, ResultOverlaps
  <2> QED BY <2>1, <2>2
<1> QED BY <1>9, <1>10

\* New games have no results, and have their two teams, or wait for them.
LEMMA CreateGamesOverlaps ==
  ASSUME Types, Overlaps, NEW new, new \in Seq(GameRow),
         \A i \in DOMAIN new : Proper(new[i]) /\ new[i].status \in {"DRAFT", "SCHEDULED"},
         CreateGames(new)
  PROVE  /\ Types' /\ Overlaps'
         /\ DOMAIN games' = 1..(Len(games) + Len(new))
         /\ \A g \in DOMAIN games' : \/ g \in DOMAIN games /\ games'[g] = games[g]
                                     \/ \E i \in DOMAIN new : games'[g] = new[i]
<1>1. /\ games' = games \o new
      /\ UNCHANGED <<table, snapshots, unsettled, pending, requests, withdrawn>>
  BY DEF CreateGames, tableVars
<1>2. /\ games' \in Seq(GameRow) /\ DOMAIN games \subseteq DOMAIN games'
      /\ DOMAIN games' = 1..(Len(games) + Len(new))
      /\ \A g \in DOMAIN games : games'[g] = games[g]
      /\ \A g \in DOMAIN games' : g \in DOMAIN games \/ \E i \in DOMAIN new : games'[g] = new[i]
  <2>1. games \in Seq(GameRow)
    BY DEF Types, GamesInv
  <2>2. /\ Len(games) \in Nat /\ Len(new) \in Nat /\ DOMAIN games = 1..Len(games)
        /\ DOMAIN new = 1..Len(new)
    BY <2>1, LenProperties
  <2>3. /\ games \o new \in Seq(GameRow) /\ Len(games \o new) = Len(games) + Len(new)
        /\ \A g \in 1..(Len(games) + Len(new)) :
             (games \o new)[g] = IF g <= Len(games) THEN games[g] ELSE new[g - Len(games)]
    BY <2>1, ConcatProperties
  <2>4. DOMAIN games' = 1..(Len(games) + Len(new))
    BY <1>1, <2>3, LenProperties
  <2>5. ASSUME NEW g \in DOMAIN games', g \notin DOMAIN games
        PROVE  \E i \in DOMAIN new : games'[g] = new[i]
    <3>1. g - Len(games) \in DOMAIN new /\ games'[g] = new[g - Len(games)]
      BY <1>1, <2>2, <2>3, <2>4, <2>5
    <3> QED BY <3>1
  <2> QED BY <1>1, <2>2, <2>3, <2>4, <2>5
<1>3. UNCHANGED <<Results, TeamsWithResults>>
  <2>1. Selected' = Selected
    BY <1>2 DEF Selected, Counted
  <2> QED BY <1>2, <2>1, Unmoved DEF Selected
<1>4. Types'
  <2>1. GamesInv'
    BY <1>2 DEF Types, GamesInv
  <2>2. RequestsInv' /\ SnapshotsInv' /\ TableInv' /\ FlagsInv'
    BY <1>1, TableStays DEF Types, RequestsInv, SnapshotsInv, IsReading, FlagsInv
  <2> QED BY <2>1, <2>2 DEF Types
<1>5. Overlaps'
  BY <1>1, <1>3, OverlapsStay
<1> QED BY <1>2, <1>4, <1>5

HIDE StageAssumption DEF NoTeam, NoRank
-----------------------------------------------------------------------------
(***************************************************************************)
(* Brackets.                                                               *)
(***************************************************************************)

LEMMA PowerUnfolds ==
  /\ Power \in [Nat -> Nat \ {0}] /\ Power[0] = 1
  /\ \A k \in Nat : Power[k + 1] = 2 * Power[k]
<1> DEFINE step == [n \in Nat |-> [x \in Nat \ {0} |-> 2 * x]]
<1>1. step \in [Nat -> [Nat \ {0} -> Nat \ {0}]]
  OBVIOUS
<1>2. PICK f : Iterates(Nat \ {0}, 1, step, f)
  <2>1. 1 \in Nat \ {0}
    OBVIOUS
  <2> HIDE DEF step
  <2> QED BY <1>1, <2>1, Recursion
<1>3. f \in [Nat -> Nat \ {0}] /\ f[0] = 1 /\ \A n \in Nat : f[n + 1] = 2 * f[n]
  BY <1>2 DEF Iterates
<1>4. f = [k \in Nat |-> IF k = 0 THEN 1 ELSE 2 * f[k - 1]]
  <2>1. \A k \in Nat : f[k] = IF k = 0 THEN 1 ELSE 2 * f[k - 1]
    <3>1. ASSUME NEW k \in Nat, k # 0 PROVE f[k] = 2 * f[k - 1]
      <4>1. k - 1 \in Nat /\ (k - 1) + 1 = k
        BY <3>1
      <4>2. f[(k - 1) + 1] = 2 * f[k - 1]
        BY <1>3, <4>1
      <4> QED BY <4>1, <4>2
    <3> QED BY <1>3, <3>1
  <2> QED BY <1>3, <2>1
<1>5. Power = [k \in Nat |-> IF k = 0 THEN 1 ELSE 2 * Power[k - 1]]
  BY <1>4, Zenon DEF Power
<1>6. Power[0] = 1 /\ \A k \in Nat : Power[k + 1] = 2 * Power[k]
  BY <1>5
<1>7. \A k \in Nat : Power[k] \in Nat \ {0}
  <2> DEFINE Positive == {k \in Nat : Power[k] \in Nat \ {0}}
  <2>1. 0 \in Positive
    BY <1>6
  <2>2. ASSUME NEW k \in Nat, k \in Positive PROVE k + 1 \in Positive
    BY <1>6, <2>2
  <2>3. \A k \in Nat : k \in Positive
    <3> HIDE DEF Positive
    <3> QED BY <2>1, <2>2, Induction
  <2> QED BY <2>3
<1> QED BY <1>5, <1>6, <1>7

LEMMA PowerExceeds == \A k \in Nat : Power[k] > k
<1> DEFINE Exceeds == {k \in Nat : Power[k] > k}
<1>1. 0 \in Exceeds
  BY PowerUnfolds
<1>2. ASSUME NEW k \in Nat, k \in Exceeds PROVE k + 1 \in Exceeds
  BY <1>2, PowerUnfolds
<1>3. \A k \in Nat : k \in Exceeds
  <2> HIDE DEF Exceeds
  <2> QED BY <1>1, <1>2, Induction
<1> QED BY <1>3

\* The size of a bracket is the least power of two that has a place for everybody.
LEMMA BracketSizes ==
  ASSUME NEW n \in Nat, n >= 2
  PROVE  /\ BracketSize(n) >= n /\ BracketSize(n) < 2 * n
         /\ \E k \in 1..n : BracketSize(n) = Power[k]
<1> DEFINE Big == {k \in Nat : Power[k] >= n}
<1>1. n \in Big
  BY PowerExceeds, PowerUnfolds
<1>2. PICK k \in Big : \A l \in Big : k <= l
  <2>1. Big \in SUBSET Nat /\ Big # {}
    BY <1>1
  <2> HIDE DEF Big
  <2> QED BY <2>1, LeastNumber
<1>3. k \in 1..n
  BY <1>1, <1>2, PowerUnfolds
<1>4. Power[k] >= n /\ Power[k] < 2 * n
  <2>1. k - 1 \in Nat /\ k - 1 \notin Big /\ (k - 1) + 1 = k
    BY <1>2, <1>3
  <2>2. Power[k - 1] < n /\ Power[(k - 1) + 1] = 2 * Power[k - 1]
    BY <2>1, PowerUnfolds
  <2> QED BY <1>2, <2>1, <2>2, PowerUnfolds
<1>5. \E size \in {Power[j] : j \in 1..n} : size >= n /\ size < 2 * n
  BY <1>3, <1>4
<1>6. /\ BracketSize(n) \in {Power[j] : j \in 1..n}
      /\ BracketSize(n) >= n /\ BracketSize(n) < 2 * n
  BY <1>5 DEF BracketSize
<1> QED BY <1>6

-----------------------------------------------------------------------------
\* The teams of a generation, in the order of their ids.
Entrants(n) == [t \in 1..n |-> t]

LEMMA EntrantsLength ==
  ASSUME NEW n \in Nat
  PROVE  Entrants(n) \in Seq(1..n) /\ Len(Entrants(n)) = n /\ DOMAIN Entrants(n) = 1..n
<1>1. Entrants(n) \in [1..n -> 1..n]
  BY DEF Entrants
<1>2. Entrants(n) \in Seq(1..n)
  BY <1>1, SeqDef
<1> QED BY <1>1, <1>2, LenProperties

\* Every slot of a bracket has its round and place, and never a team against itself.
LEMMA BracketSlots ==
  ASSUME NEW n \in Nat, n >= 2
  PROVE  LET slots == SingleElimination(Entrants(n))
         IN  /\ DOMAIN slots = 1..(BracketSize(n) - 1) /\ BracketSize(n) \in Nat
             /\ \A i \in DOMAIN slots :
                  /\ slots[i].round \in Nat /\ slots[i].slot \in Nat
                  /\ slots[i].home \in (1..n) \cup {NoTeam} /\ slots[i].away \in (1..n) \cup {NoTeam}
                  /\ slots[i].home # slots[i].away \/ slots[i].home = NoTeam
<1> DEFINE teams     == Entrants(n)
           size      == BracketSize(Len(teams))
           before(r) == size - size \div Power[r - 1]
           round(i)  == CHOOSE r \in 1..size : before(r) < i /\ i <= before(r + 1)
           home(r, s) == IF r = 1 THEN Seed(teams, s + 1) ELSE NoTeam
           away(r, s) == IF r = 1 THEN Opponent(teams, size, s) ELSE NoTeam
           game(r, s) == [round |-> r, slot |-> s, home |-> home(r, s), away |-> away(r, s)]
<1>1. SingleElimination(teams) = [i \in 1..(size - 1) |-> game(round(i), i - before(round(i)) - 1)]
  BY DEF SingleElimination
<1>2. size = BracketSize(n) /\ DOMAIN teams = 1..n /\ \A t \in 1..n : teams[t] = t
  BY EntrantsLength DEF Entrants
<1>3. PICK k \in 1..n : size = Power[k]
  BY <1>2, BracketSizes
<1>4. size \in Nat /\ size > k /\ size = 2 * Power[k - 1] /\ Power[k - 1] \in Nat
  <2>1. k \in Nat /\ k - 1 \in Nat /\ (k - 1) + 1 = k
    OBVIOUS
  <2> QED BY <1>3, <2>1, PowerUnfolds, PowerExceeds
<1>5. ASSUME NEW r \in Nat \ {0} PROVE before(r) \in Int
  <2>1. r - 1 \in Nat /\ Power[r - 1] \in Nat \ {0}
    BY PowerUnfolds
  <2>2. size \div Power[r - 1] \in Int
    BY <1>4, <2>1
  <2> QED BY <1>4, <2>2
<1>6. before(1) = 0 /\ before(k + 1) = size - 1
  <2>1. Power[0] = 1 /\ Power[k] = size /\ size > 0
    BY <1>3, <1>4, PowerUnfolds
  <2>2. size \div 1 = size /\ size \div size = 1
    BY <1>4, <2>1
  <2>3. before(1) = size - size \div 1
    <3>1. 1 - 1 = 0
      OBVIOUS
    <3> QED BY <2>1, <3>1
  <2>4. before(k + 1) = size - size \div size
    <3>1. (k + 1) - 1 = k
      OBVIOUS
    <3> QED BY <2>1, <3>1
  <2> HIDE DEF before
  <2> QED BY <1>4, <2>2, <2>3, <2>4
<1>7. ASSUME NEW i \in 1..(size - 1)
      PROVE  round(i) \in 1..size /\ before(round(i)) < i
  <2> DEFINE Reached == {r \in Nat : r >= 1 /\ i <= before(r + 1)}
  <2>1. k \in Reached
    BY <1>6
  <2>2. PICK r \in Reached : \A q \in Reached : r <= q
    <3>1. Reached \in SUBSET Nat /\ Reached # {}
      BY <2>1
    <3> HIDE DEF Reached
    <3> QED BY <3>1, LeastNumber
  <2>3. r \in 1..size /\ i <= before(r + 1)
    BY <1>4, <2>1, <2>2
  <2>4. before(r) < i
    <3>1. CASE r = 1
      BY <1>6, <3>1
    <3>2. CASE r # 1
      <4>1. r - 1 \in Nat /\ r - 1 >= 1 /\ r - 1 \notin Reached /\ (r - 1) + 1 = r
        BY <2>2, <3>2
      <4>2. ~(i <= before((r - 1) + 1))
        BY <4>1
      <4>3. before(r) \in Int /\ ~(i <= before(r))
        BY <1>5, <4>1, <4>2
      <4> QED BY <4>3
    <3> QED BY <3>1, <3>2
  <2>5. \E q \in 1..size : before(q) < i /\ i <= before(q + 1)
    BY <2>3, <2>4
  <2> HIDE DEF before
  <2> QED BY <2>5
<1>8. ASSUME NEW i \in 1..(size - 1)
      PROVE  round(i) \in Nat /\ i - before(round(i)) - 1 \in Nat
  <2>1. round(i) \in Nat \ {0} /\ before(round(i)) < i /\ before(round(i)) \in Int
    <3>1. round(i) \in Nat \ {0} /\ before(round(i)) < i
      <4>1. round(i) \in 1..size /\ before(round(i)) < i
        BY <1>7
      <4> HIDE DEF before, round
      <4> QED BY <1>4, <4>1
    <3> HIDE DEF before, round
    <3> QED BY <1>5, <3>1
  <2> HIDE DEF before, round
  <2> QED BY <2>1
<1>9. ASSUME NEW r \in Nat, NEW s \in Nat
      PROVE  /\ home(r, s) \in (1..n) \cup {NoTeam} /\ away(r, s) \in (1..n) \cup {NoTeam}
             /\ home(r, s) # away(r, s) \/ home(r, s) = NoTeam
  <2>1. /\ home(r, s) = NoTeam \/ (home(r, s) = s + 1 /\ s + 1 \in 1..n)
        /\ away(r, s) = NoTeam \/ (away(r, s) = size - s /\ size - s \in 1..n)
    BY <1>2 DEF Seed, Opponent
  <2>2. s + 1 # size - s
    BY <1>4
  <2> HIDE DEF home, away
  <2> QED BY <2>1, <2>2 DEF NoTeam
<1> HIDE DEF size, before, round, home, away
<1>10. PICK slots : slots = SingleElimination(teams)
  OBVIOUS
<1>11. DOMAIN slots = 1..(size - 1)
  BY <1>1, <1>10
<1>12. ASSUME NEW i \in DOMAIN slots
       PROVE  /\ slots[i].round \in Nat /\ slots[i].slot \in Nat
              /\ slots[i].home \in (1..n) \cup {NoTeam} /\ slots[i].away \in (1..n) \cup {NoTeam}
              /\ slots[i].home # slots[i].away \/ slots[i].home = NoTeam
  <2>1. PICK r, s : r = round(i) /\ s = i - before(round(i)) - 1
    OBVIOUS
  <2>2. slots[i] = [round |-> r, slot |-> s, home |-> home(r, s), away |-> away(r, s)]
    BY <1>1, <1>10, <1>11, <2>1
  <2>3. r \in Nat /\ s \in Nat
    BY <1>8, <1>11, <2>1
  <2> QED BY <1>9, <2>2, <2>3
<1> QED BY <1>2, <1>4, <1>10, <1>11, <1>12

-----------------------------------------------------------------------------
(***************************************************************************)
(* The circle method.                                                      *)
(***************************************************************************)

\* Circles of m places, in each of which there is another of the teams V, or nobody.
Circles(V, m) ==
  {s \in Seq(V) : Len(s) = m /\ \A i, j \in 1..m : i # j => s[i] # s[j]}

LEMMA RotatedCircle ==
  ASSUME NEW V, NEW m \in Nat, m >= 2, NEW s \in Circles(V, m)
  PROVE  /\ Rotated(s) \in Circles(V, m)
         /\ Rotated(s)[1] = s[1] /\ Rotated(s)[2] = s[m]
         /\ \A i \in 3..m : Rotated(s)[i] = s[i - 1]
<1>1. s \in Seq(V) /\ Len(s) = m /\ DOMAIN s = 1..m /\ \A i \in 1..m : s[i] \in V
  BY LenProperties, ElementOfSeq DEF Circles
<1>2. /\ Tail(s) \in Seq(V) /\ Len(Tail(s)) = m - 1
      /\ \A i \in 1..(m - 1) : Tail(s)[i] = s[i + 1]
  <2>1. s # <<>>
    BY <1>1
  <2> QED BY <1>1, <2>1, HeadTailProperties
<1>3. PICK t : t = Tail(s)
  OBVIOUS
<1>4. Front(t) = SubSeq(t, 1, m - 2)
  BY <1>2, <1>3 DEF Front
<1>5. /\ Front(t) \in Seq(V) /\ Len(Front(t)) = m - 2
      /\ \A i \in 1..(m - 2) : Front(t)[i] = s[i + 1]
  <2>1. CASE m = 2
    <3>1. Front(t) = <<>>
      BY <1>2, <1>3, <1>4, <2>1
    <3> QED BY <2>1, <3>1
  <2>2. CASE m > 2
    BY <1>1, <1>2, <1>3, <1>4, <2>2
  <2> QED BY <2>1, <2>2
<1>6. <<Head(s), Last(s)>> = <<s[1], s[m]>> /\ <<s[1], s[m]>> \in Seq(V) /\ Len(<<s[1], s[m]>>) = 2
  BY <1>1 DEF Last
<1>7. PICK two, rest : two = <<s[1], s[m]>> /\ rest = Front(t)
  OBVIOUS
<1>8. Rotated(s) = two \o rest
  BY <1>3, <1>6, <1>7 DEF Rotated
<1>9. /\ two \o rest \in Seq(V) /\ Len(two \o rest) = 2 + (m - 2)
      /\ \A i \in 1..(2 + (m - 2)) : (two \o rest)[i] = IF i <= 2 THEN two[i] ELSE rest[i - 2]
  <2>1. two \in Seq(V) /\ rest \in Seq(V) /\ Len(two) = 2 /\ Len(rest) = m - 2
    BY <1>5, <1>6, <1>7
  <2>2. /\ two \o rest \in Seq(V) /\ Len(two \o rest) = Len(two) + Len(rest)
        /\ \A i \in 1..(Len(two) + Len(rest)) :
             (two \o rest)[i] = IF i <= Len(two) THEN two[i] ELSE rest[i - Len(two)]
    BY <2>1, ConcatProperties
  <2> QED BY <2>1, <2>2
<1>10. PICK new : new = Rotated(s)
  OBVIOUS
<1>11. /\ new \in Seq(V) /\ Len(new) = m
       /\ new[1] = s[1] /\ new[2] = s[m]
       /\ \A i \in 3..m : new[i] = s[i - 1]
  <2>1. new \in Seq(V) /\ Len(new) = m
    BY <1>8, <1>9, <1>10
  <2>2. \A i \in 1..m : new[i] = IF i <= 2 THEN two[i] ELSE rest[i - 2]
    BY <1>8, <1>9, <1>10
  <2>3. new[1] = s[1] /\ new[2] = s[m]
    BY <1>7, <2>2
  <2>4. ASSUME NEW i \in 3..m PROVE new[i] = s[i - 1]
    <3>1. i - 2 \in 1..(m - 2) /\ (i - 2) + 1 = i - 1
      OBVIOUS
    <3>2. rest[i - 2] = s[(i - 2) + 1]
      BY <1>5, <1>7, <3>1
    <3> QED BY <2>2, <3>1, <3>2
  <2> QED BY <2>1, <2>3, <2>4
<1>12. ASSUME NEW i \in 1..m, NEW j \in 1..m, i # j PROVE new[i] # new[j]
  <2>1. \A k \in 1..m : /\ k = 1 => new[k] = s[1]
                        /\ k = 2 => new[k] = s[m]
                        /\ k > 2 => new[k] = s[k - 1]
    BY <1>11
  <2>2. \A k, l \in 1..m : k # l => s[k] # s[l]
    BY DEF Circles
  <2>3. PICK k \in 1..m : /\ new[i] = s[k]
                          /\ k = (IF i = 1 THEN 1 ELSE IF i = 2 THEN m ELSE i - 1)
    BY <2>1
  <2>4. PICK l \in 1..m : /\ new[j] = s[l]
                          /\ l = (IF j = 1 THEN 1 ELSE IF j = 2 THEN m ELSE j - 1)
    BY <2>1
  <2>5. k # l
    BY <1>12, <2>3, <2>4
  <2> QED BY <2>2, <2>3, <2>4, <2>5
<1> QED BY <1>10, <1>11, <1>12 DEF Circles

LEMMA RotationsCircle ==
  ASSUME NEW V, NEW m \in Nat, m >= 2, NEW circle \in Circles(V, m)
  PROVE  /\ Rotations(circle)[0] = circle
         /\ \A r \in Nat : /\ Rotations(circle)[r] \in Circles(V, m)
                           /\ Rotations(circle)[r + 1] = Rotated(Rotations(circle)[r])
<1> DEFINE S == Circles(V, m)
           step == [r \in Nat |-> [s \in S |-> Rotated(s)]]
<1>1. step \in [Nat -> [S -> S]]
  BY RotatedCircle
<1>2. PICK f : Iterates(S, circle, step, f)
  <2> HIDE DEF step, S
  <2>1. circle \in S
    BY DEF S
  <2> QED BY <1>1, <2>1, Recursion
<1>3. f \in [Nat -> S] /\ f[0] = circle /\ \A r \in Nat : f[r + 1] = Rotated(f[r])
  BY <1>2 DEF Iterates
<1>4. f = [r \in Nat |-> IF r = 0 THEN circle ELSE Rotated(f[r - 1])]
  <2>1. ASSUME NEW r \in Nat, r # 0 PROVE f[r] = Rotated(f[r - 1])
    <3>1. r - 1 \in Nat /\ (r - 1) + 1 = r
      BY <2>1
    <3> QED BY <1>3, <3>1
  <2>2. \A r \in Nat : f[r] = IF r = 0 THEN circle ELSE Rotated(f[r - 1])
    BY <1>3, <2>1
  <2> QED BY <1>3, <2>2
<1> DEFINE rotation == CHOOSE g : g = [r \in Nat |-> IF r = 0 THEN circle ELSE Rotated(g[r - 1])]
<1>5. rotation = [r \in Nat |-> IF r = 0 THEN circle ELSE Rotated(rotation[r - 1])]
  BY <1>4, Zenon
<1>6. Rotations(circle) = rotation
  BY Zenon DEF Rotations
<1>7. PICK g : g = Rotations(circle)
  OBVIOUS
<1>8. g = [r \in Nat |-> IF r = 0 THEN circle ELSE Rotated(g[r - 1])]
  BY <1>5, <1>6, <1>7
<1> HIDE DEF rotation
<1>9. g[0] = circle /\ \A r \in Nat : g[r + 1] = Rotated(g[r])
  <2>1. g[0] = circle
    BY <1>8
  <2>2. ASSUME NEW r \in Nat PROVE g[r + 1] = Rotated(g[r])
    <3>1. r + 1 \in Nat /\ r + 1 # 0 /\ (r + 1) - 1 = r
      OBVIOUS
    <3> QED BY <1>8, <3>1
  <2> QED BY <2>1, <2>2
<1> DEFINE Turned == {r \in Nat : g[r] \in S}
<1>10. 0 \in Turned
  BY <1>9
<1>11. ASSUME NEW r \in Nat, r \in Turned PROVE r + 1 \in Turned
  BY <1>9, <1>11, RotatedCircle
<1>12. \A r \in Nat : r \in Turned
  <2> HIDE DEF Turned
  <2> QED BY <1>10, <1>11, Induction
<1> QED BY <1>7, <1>9, <1>12

-----------------------------------------------------------------------------
LEMMA Division ==
  ASSUME NEW a \in Nat, NEW b \in Nat, b >= 1
  PROVE  /\ a \div b \in Nat /\ a % b \in 0..(b - 1)
         /\ a = b * (a \div b) + (a % b)
OBVIOUS

\* What the circle method lists.
Pairings(V) == [round : Nat, home : V, away : V]

\* The number of positions is even, and the missing opponent of an odd number of teams is nobody.
LEMMA ByeCircle ==
  ASSUME NEW n \in Nat, n >= 2
  PROVE  \E m \in Nat : /\ m >= n /\ m % 2 = 0 /\ m = 2 * (m \div 2) /\ m <= n + 1
                        /\ WithBye(Entrants(n)) \in Circles(0..n, m)
                        /\ \A t \in 1..n : WithBye(Entrants(n))[t] = t
                        /\ m = n + 1 => WithBye(Entrants(n))[m] = 0
<1>1. Entrants(n) \in Seq(1..n) /\ Len(Entrants(n)) = n /\ \A t \in 1..n : Entrants(n)[t] = t
  BY EntrantsLength DEF Entrants
<1>2. Entrants(n) \in Seq(0..n)
  <2>1. Entrants(n) \in [1..n -> 0..n]
    BY DEF Entrants
  <2> QED BY <2>1, SeqDef
<1>3. CASE n % 2 = 0
  <2>1. WithBye(Entrants(n)) = Entrants(n)
    BY <1>1, <1>3 DEF WithBye
  <2>2. n = 2 * (n \div 2)
    BY <1>3
  <2>3. Entrants(n) \in Circles(0..n, n)
    BY <1>1, <1>2 DEF Circles
  <2> QED BY <1>1, <1>3, <2>1, <2>2, <2>3
<1>4. CASE n % 2 # 0
  <2>1. WithBye(Entrants(n)) = Append(Entrants(n), 0)
    BY <1>1, <1>4 DEF WithBye, NoTeam
  <2>2. PICK s : s = Append(Entrants(n), 0)
    OBVIOUS
  <2>3. /\ s \in Seq(0..n) /\ Len(s) = n + 1 /\ s[n + 1] = 0
        /\ \A t \in 1..n : s[t] = t
    <3>1. 0 \in 0..n
      OBVIOUS
    <3> QED BY <1>1, <1>2, <2>2, <3>1, AppendProperties
  <2>4. s \in Circles(0..n, n + 1)
    BY <2>3 DEF Circles
  <2>5. (n + 1) % 2 = 0 /\ n + 1 = 2 * ((n + 1) \div 2)
    BY <1>4
  <2> QED BY <2>1, <2>2, <2>3, <2>4, <2>5
<1> QED BY <1>3, <1>4

\* Nobody is paired with itself.
LEMMA AllPairingsType ==
  ASSUME NEW n \in Nat, n >= 2
  PROVE  /\ AllPairings(Entrants(n)) \in Seq(Pairings(0..n))
         /\ \A i \in DOMAIN AllPairings(Entrants(n)) :
              AllPairings(Entrants(n))[i].home # AllPairings(Entrants(n))[i].away
<1>1. PICK m \in Nat : /\ m >= n /\ m % 2 = 0 /\ m = 2 * (m \div 2)
                       /\ WithBye(Entrants(n)) \in Circles(0..n, m)
  BY ByeCircle
<1>2. PICK circle : circle = WithBye(Entrants(n))
  OBVIOUS
<1>3. Len(circle) = m /\ circle \in Circles(0..n, m) /\ m >= 2
  BY <1>1, <1>2 DEF Circles
<1>4. PICK rotation : rotation = Rotations(circle)
  OBVIOUS
<1>5. \A r \in Nat : rotation[r] \in Circles(0..n, m)
  BY <1>3, <1>4, RotationsCircle
<1>6. PICK half \in Nat : half = m \div 2 /\ half >= 1 /\ m = 2 * half
  BY <1>1, <1>3
<1>7. PICK N \in Nat : N = (m - 1) * half
  BY <1>3
<1>8. PICK all : all = AllPairings(Entrants(n))
  OBVIOUS
<1>9. all = [i \in 1..N |->
               PairingAt(rotation[(i - 1) \div half], (i - 1) \div half, (i - 1) % half)]
  BY <1>2, <1>3, <1>4, <1>6, <1>7, <1>8 DEF AllPairings
<1>10. ASSUME NEW i \in 1..N
       PROVE  all[i] \in Pairings(0..n) /\ all[i].home # all[i].away
  <2>1. PICK r \in Nat, index \in 0..(half - 1) :
          r = (i - 1) \div half /\ index = (i - 1) % half
    <3>1. (i - 1) \div half \in Nat /\ (i - 1) % half \in 0..(half - 1)
      <4>1. PICK a \in Nat : a = i - 1
        OBVIOUS
      <4>2. a \div half \in Nat /\ a % half \in 0..(half - 1)
        BY <1>6, Division
      <4> QED BY <4>1, <4>2
    <3> QED BY <3>1
  <2>2. all[i] = PairingAt(rotation[r], r, index)
    BY <1>9, <2>1
  <2>3. PICK s : s = rotation[r]
    OBVIOUS
  <2>4. Len(s) = m /\ (\A j \in 1..m : s[j] \in 0..n) /\ \A j, k \in 1..m : j # k => s[j] # s[k]
    <3>1. s \in Circles(0..n, m)
      BY <1>5, <2>3
    <3>2. s \in Seq(0..n) /\ Len(s) = m /\ \A j, k \in 1..m : j # k => s[j] # s[k]
      BY <3>1 DEF Circles
    <3> QED BY <3>2, ElementOfSeq
  <2>5. index + 1 \in 1..m /\ m - index \in 1..m /\ index + 1 # m - index
    BY <1>6
  <2>6. PICK left, right : left = s[index + 1] /\ right = s[m - index]
    OBVIOUS
  <2>7. left \in 0..n /\ right \in 0..n /\ left # right
    BY <2>4, <2>5, <2>6
  <2>8. all[i] = [round |-> r + 1,
                  home |-> IF (r + index) % 2 = 1 THEN right ELSE left,
                  away |-> IF (r + index) % 2 = 1 THEN left ELSE right]
    BY <2>2, <2>3, <2>4, <2>6 DEF PairingAt
  <2> QED BY <2>7, <2>8 DEF Pairings
<1>11. all \in [1..N -> Pairings(0..n)]
  BY <1>9, <1>10
<1>12. all \in Seq(Pairings(0..n))
  BY <1>11, SeqDef
<1> QED BY <1>8, <1>9, <1>10, <1>12

\* What is kept of the first N pairings, one after the other.
Kept(V, pairings, N, kept) ==
  /\ kept[0] = <<>>
  /\ \A i \in 0..N : kept[i] \in Seq(Pairings(V))
  /\ \A i \in 1..N : kept[i] = IF NoTeam \in {pairings[i].home, pairings[i].away}
                               THEN kept[i - 1] ELSE Append(kept[i - 1], pairings[i])

LEMMA WithoutByesUnfolds ==
  ASSUME NEW V, NEW pairings, NEW N \in Nat, pairings \in [1..N -> Pairings(V)]
  PROVE  \E kept : WithoutByes(pairings) = kept[N] /\ Kept(V, pairings, N, kept)
<1> DEFINE S == Seq(Pairings(V))
           next(i, s) == IF NoTeam \in {pairings[i].home, pairings[i].away} THEN s
                         ELSE Append(s, pairings[i])
           step == [i \in Nat |-> [s \in S |-> IF i + 1 \in 1..N THEN next(i + 1, s) ELSE s]]
<1>1. step \in [Nat -> [S -> S]]
  <2>1. ASSUME NEW i \in 1..N, NEW s \in S PROVE next(i, s) \in S
    <3>1. pairings[i] \in Pairings(V)
      OBVIOUS
    <3> QED BY <3>1, AppendProperties
  <2> HIDE DEF S, next
  <2> QED BY <2>1
<1>2. PICK f : Iterates(S, <<>>, step, f)
  <2>1. <<>> \in S
    OBVIOUS
  <2> HIDE DEF step, S
  <2> QED BY <1>1, <2>1, Recursion
<1>3. /\ f \in [Nat -> S] /\ f[0] = <<>>
      /\ \A i \in Nat : i + 1 \in 1..N => f[i + 1] = next(i + 1, f[i])
  <2>1. f \in [Nat -> S] /\ f[0] = <<>> /\ \A i \in Nat : f[i + 1] = step[i][f[i]]
    BY <1>2 DEF Iterates
  <2> HIDE DEF S, next
  <2> QED BY <2>1
<1>4. PICK g : g = [i \in 0..N |-> f[i]]
  OBVIOUS
<1>5. g = [i \in 0..N |-> IF i = 0 THEN <<>> ELSE next(i, g[i - 1])]
  <2>1. ASSUME NEW i \in 1..N PROVE g[i] = next(i, g[i - 1])
    <3>1. i - 1 \in Nat /\ (i - 1) + 1 = i /\ i - 1 \in 0..N /\ i \in 0..N
      OBVIOUS
    <3>2. f[i] = next(i, f[i - 1])
      <4> HIDE DEF next, S
      <4> QED BY <1>3, <3>1
    <3> HIDE DEF next
    <3> QED BY <1>4, <3>1, <3>2
  <2>2. g[0] = <<>>
    BY <1>3, <1>4
  <2>3. \A i \in 0..N : g[i] = IF i = 0 THEN <<>> ELSE next(i, g[i - 1])
    <3> HIDE DEF next
    <3> QED BY <2>1, <2>2
  <2> HIDE DEF next
  <2> QED BY <1>4, <2>3
<1> DEFINE kept == CHOOSE h : h = [i \in 0..N |-> IF i = 0 THEN <<>> ELSE next(i, h[i - 1])]
<1>6. kept = [i \in 0..N |-> IF i = 0 THEN <<>> ELSE next(i, kept[i - 1])]
  BY <1>5, Zenon
<1>7. WithoutByes(pairings) = kept[N]
  <2>1. Len(pairings) = N
    BY SeqDef, LenProperties
  <2>2. PICK L : L = Len(pairings)
    OBVIOUS
  <2>3. WithoutByes(pairings) =
          (CHOOSE h : h = [i \in 0..L |-> IF i = 0 THEN <<>> ELSE
             IF NoTeam \in {pairings[i].home, pairings[i].away} THEN h[i - 1]
             ELSE Append(h[i - 1], pairings[i])])[L]
    BY <2>2, Zenon DEF WithoutByes
  <2> QED BY <2>1, <2>2, <2>3
<1>8. PICK h : h = kept
  OBVIOUS
<1>9. h = [i \in 0..N |-> IF i = 0 THEN <<>> ELSE next(i, h[i - 1])]
  BY <1>6, <1>8
<1> HIDE DEF kept
<1>10. h[0] = <<>> /\ \A i \in 1..N : h[i] = next(i, h[i - 1])
  <2> HIDE DEF next
  <2> QED BY <1>9
<1> DEFINE Typed == {i \in Nat : i <= N => h[i] \in S}
<1>11. 0 \in Typed
  <2>1. <<>> \in S
    OBVIOUS
  <2> QED BY <1>10, <2>1
<1>12. ASSUME NEW i \in Nat, i \in Typed PROVE i + 1 \in Typed
  <2>1. SUFFICES ASSUME i + 1 <= N PROVE h[i + 1] \in S
    OBVIOUS
  <2>2. i + 1 \in 1..N /\ (i + 1) - 1 = i /\ h[i] \in S
    BY <1>12, <2>1
  <2>3. h[i + 1] = next(i + 1, h[i])
    <3> HIDE DEF next
    <3> QED BY <1>10, <2>2
  <2>4. pairings[i + 1] \in Pairings(V)
    BY <2>2
  <2> QED BY <2>2, <2>3, <2>4, AppendProperties
<1>13. \A i \in Nat : i \in Typed
  <2> HIDE DEF Typed
  <2> QED BY <1>11, <1>12, Induction
<1> QED BY <1>7, <1>8, <1>10, <1>13 DEF Kept

USE StageAssumption
-----------------------------------------------------------------------------
\* A pairing of two teams.
Pairs(n) == {p \in Pairings(0..n) : p.home # p.away /\ p.home # NoTeam /\ p.away # NoTeam}

LEMMA FirstLegType ==
  ASSUME NEW n \in Nat, n >= 2
  PROVE  /\ FirstLeg(Entrants(n)) \in Seq(Pairs(n))
         /\ \E N \in Nat : AllPairings(Entrants(n)) \in [1..N -> Pairings(0..n)]
<1>1. PICK all : all = AllPairings(Entrants(n))
  OBVIOUS
<1>2. all \in Seq(Pairings(0..n)) /\ \A i \in DOMAIN all : all[i].home # all[i].away
  BY <1>1, AllPairingsType
<1>3. PICK N \in Nat : all \in [1..N -> Pairings(0..n)]
  BY <1>2, LenProperties
<1>4. PICK kept : WithoutByes(all) = kept[N] /\ Kept(0..n, all, N, kept)
  BY <1>3, WithoutByesUnfolds
<1> DEFINE Typed == {i \in Nat : i <= N => kept[i] \in Seq(Pairs(n))}
<1>5. 0 \in Typed
  <2>1. <<>> \in Seq(Pairs(n))
    OBVIOUS
  <2> QED BY <1>4, <2>1 DEF Kept
<1>6. ASSUME NEW i \in Nat, i \in Typed PROVE i + 1 \in Typed
  <2>1. SUFFICES ASSUME i + 1 <= N PROVE kept[i + 1] \in Seq(Pairs(n))
    OBVIOUS
  <2>2. i + 1 \in 1..N /\ (i + 1) - 1 = i /\ kept[i] \in Seq(Pairs(n))
    BY <1>6, <2>1
  <2>3. CASE NoTeam \in {all[i + 1].home, all[i + 1].away}
    BY <1>4, <2>2, <2>3 DEF Kept
  <2>4. CASE NoTeam \notin {all[i + 1].home, all[i + 1].away}
    <3>1. kept[i + 1] = Append(kept[i], all[i + 1])
      BY <1>4, <2>2, <2>4 DEF Kept
    <3>2. all[i + 1] \in Pairs(n)
      BY <1>2, <1>3, <2>2, <2>4 DEF Pairs
    <3> QED BY <2>2, <3>1, <3>2, AppendProperties
  <2> QED BY <2>3, <2>4
<1>7. \A i \in Nat : i \in Typed
  <2> HIDE DEF Typed
  <2> QED BY <1>5, <1>6, Induction
<1>8. kept[N] \in Seq(Pairs(n))
  BY <1>7
<1> QED BY <1>1, <1>3, <1>4, <1>8 DEF FirstLeg

LEMMA RoundRobinType ==
  ASSUME NEW n \in Nat, n >= 2, NEW double \in BOOLEAN
  PROVE  RoundRobin(Entrants(n), double) \in Seq(Pairs(n))
<1>1. PICK first : first = FirstLeg(Entrants(n)) /\ first \in Seq(Pairs(n))
  BY FirstLegType
<1>2. PICK rounds \in Int : rounds = Len(WithBye(Entrants(n))) - 1 /\ rounds >= 0
  <2>1. PICK m \in Nat : m >= n /\ WithBye(Entrants(n)) \in Circles(0..n, m)
    BY ByeCircle
  <2> QED BY <2>1 DEF Circles
<1>3. PICK L \in Nat : L = Len(first) /\ DOMAIN first = 1..L /\ \A i \in 1..L : first[i] \in Pairs(n)
  BY <1>1, LenProperties, ElementOfSeq
<1>4. PICK second : second = [i \in DOMAIN first |->
                                [round |-> first[i].round + rounds, home |-> first[i].away,
                                 away |-> first[i].home]]
  OBVIOUS
<1>5. second \in [1..L -> Pairs(n)]
  <2>1. ASSUME NEW i \in 1..L
        PROVE  [round |-> first[i].round + rounds, home |-> first[i].away, away |-> first[i].home]
                 \in Pairs(n)
    <3>1. first[i] \in Pairs(n)
      BY <1>3
    <3> QED BY <1>2, <3>1 DEF Pairs, Pairings
  <2> QED BY <1>3, <1>4, <2>1
<1>6. second \in Seq(Pairs(n))
  BY <1>5, SeqDef
<1>7. RoundRobin(Entrants(n), double) = IF double THEN first \o second ELSE first
  BY <1>1, <1>2, <1>4 DEF RoundRobin
<1>8. first \o second \in Seq(Pairs(n))
  BY <1>1, <1>6, ConcatProperties
<1> QED BY <1>1, <1>7, <1>8

LEMMA GameType ==
  ASSUME GamesInv, NEW home \in Teams \cup {NoTeam}, NEW away \in Teams \cup {NoTeam},
         home # away \/ home = NoTeam, NEW round \in Nat, NEW slot \in Nat
  PROVE  /\ Game(home, away, round, slot) \in GameRow /\ Proper(Game(home, away, round, slot))
         /\ Game(home, away, round, slot).status \in {"DRAFT", "SCHEDULED"}
         /\ home # NoTeam /\ away # NoTeam => Game(home, away, round, slot).status = "SCHEDULED"
<1>1. PICK batch \in Nat : batch = Cardinality(Batches) + 1
  <2>1. PICK f : f = [g \in DOMAIN games |-> games[g].batch]
    OBVIOUS
  <2>2. IsFiniteSet({f[g] : g \in DOMAIN games})
    BY <2>1, GamesFinite, FiniteImage
  <2>3. Batches = {f[g] : g \in DOMAIN games}
    BY <2>1 DEF Batches
  <2>4. Cardinality(Batches) \in Nat
    BY <2>2, <2>3, FS_CardinalityType
  <2> QED BY <2>4
<1>2. PICK status : /\ status = IF NoTeam \in {home, away} THEN "DRAFT" ELSE "SCHEDULED"
                    /\ status \in {"DRAFT", "SCHEDULED"}
  OBVIOUS
<1>3. PICK game : game = Game(home, away, round, slot)
  OBVIOUS
<1>4. game = [home |-> home, away |-> away, round |-> round, slot |-> slot, batch |-> batch,
              status |-> status, version |-> 0, homeScore |-> 0, awayScore |-> 0,
              explained |-> FALSE]
  BY <1>1, <1>2, <1>3 DEF Game
<1>5. game \in GameRow
  BY <1>2, <1>4 DEF GameRow, Statuses
<1>6. game.home = home /\ game.away = away /\ game.status = status
  BY <1>4
<1> QED BY <1>2, <1>3, <1>5, <1>6 DEF Proper

Brackets == {"SINGLE_ELIMINATION", "GROUPS_THEN_KNOCKOUT"}

\* What one call adds: its games, and links between them.
Added(new) ==
  /\ new \in Seq(GameRow)
  /\ \A i \in DOMAIN new : /\ Proper(new[i]) /\ new[i].status \in {"DRAFT", "SCHEDULED"}
                           /\ new[i].status = "DRAFT" => format \in Brackets
  /\ CreateGames(new)
  /\ \A l \in links' : l \in links \/ /\ l.source \in (Len(games) + 1)..(Len(games) + Len(new))
                                      /\ l.target \in (Len(games) + 1)..(Len(games) + Len(new))

LEMMA FixturesAdd ==
  ASSUME GamesInv, Fixtures
  PROVE  \E new : Added(new)
<1>1. ASSUME NEW home \in 1..MaxPlayed, NEW away \in 1..MaxPlayed, {home, away} \subseteq Teams,
             CreateFixture(home, away)
      PROVE  \E new : Added(new)
  <2>1. PICK game : game = Game(home, away, 0, 0)
    OBVIOUS
  <2>2. home \in Teams /\ away \in Teams /\ home # away
    BY <1>1 DEF CreateFixture
  <2>3. game \in GameRow /\ Proper(game) /\ game.status = "SCHEDULED"
    BY <2>1, <2>2, GameType DEF Teams, NoTeam
  <2>4. PICK new : new = <<game>>
    OBVIOUS
  <2>5. /\ new \in Seq(GameRow) /\ CreateGames(new)
        /\ \A i \in DOMAIN new : Proper(new[i]) /\ new[i].status = "SCHEDULED"
    BY <1>1, <2>1, <2>3, <2>4 DEF CreateFixture
  <2> QED BY <1>1, <2>5 DEF Added, CreateFixture
<1>2. ASSUME NEW n \in 2..TeamCount, GenerateRoundRobin(n)
      PROVE  \E new : Added(new)
  <2>1. PICK pairings, new :
          /\ pairings = RoundRobin(Entrants(n), format = "DOUBLE_ROUND_ROBIN")
          /\ new = [i \in DOMAIN pairings |->
                      Game(pairings[i].home, pairings[i].away, pairings[i].round, 0)]
    OBVIOUS
  <2>2. CreateGames(new)
    BY <1>2, <2>1 DEF GenerateRoundRobin, Entrants
  <2>3. pairings \in Seq(Pairs(n)) /\ n \in Nat /\ n >= 2 /\ n <= TeamCount
    <3>1. (format = "DOUBLE_ROUND_ROBIN") \in BOOLEAN
      OBVIOUS
    <3>2. n \in Nat /\ n >= 2 /\ n <= TeamCount
      OBVIOUS
    <3> QED BY <2>1, <3>1, <3>2, RoundRobinType
  <2>4. PICK L \in Nat : DOMAIN pairings = 1..L /\ \A i \in 1..L : pairings[i] \in Pairs(n)
    BY <2>3, LenProperties, ElementOfSeq
  <2>5. ASSUME NEW i \in 1..L
        PROVE  new[i] \in GameRow /\ Proper(new[i]) /\ new[i].status = "SCHEDULED"
    <3>1. /\ pairings[i].home \in Teams /\ pairings[i].away \in Teams
          /\ pairings[i].home # pairings[i].away /\ pairings[i].round \in Nat
      BY <2>3, <2>4 DEF Pairs, Pairings, Teams, NoTeam
    <3>2. PICK home, away, round : home = pairings[i].home /\ away = pairings[i].away /\ round = pairings[i].round
      OBVIOUS
    <3>3. new[i] = Game(home, away, round, 0)
      BY <2>1, <2>4, <3>2
    <3>4. GamesInv /\ home # NoTeam /\ away # NoTeam /\ home \in Teams \cup {NoTeam}
          /\ away \in Teams \cup {NoTeam} /\ home # away /\ round \in Nat /\ 0 \in Nat
      BY <3>1, <3>2 DEF Teams, NoTeam
    <3>5. /\ Game(home, away, round, 0) \in GameRow /\ Proper(Game(home, away, round, 0))
          /\ Game(home, away, round, 0).status = "SCHEDULED"
      BY <3>4, GameType
    <3> QED BY <3>3, <3>5
  <2>6. new \in Seq(GameRow)
    <3>1. new \in [1..L -> GameRow]
      BY <2>1, <2>4, <2>5
    <3> QED BY <3>1, SeqDef
  <2>7. \A i \in DOMAIN new : Proper(new[i]) /\ new[i].status = "SCHEDULED"
    BY <2>1, <2>4, <2>5
  <2> QED BY <1>2, <2>2, <2>6, <2>7 DEF Added, GenerateRoundRobin
<1>3. ASSUME NEW n \in 2..TeamCount, GenerateBracket(n)
      PROVE  \E new : Added(new)
  <2>1. PICK slots, new :
          /\ slots = SingleElimination(Entrants(n))
          /\ new = [i \in DOMAIN slots |->
                      Game(slots[i].home, slots[i].away, slots[i].round, slots[i].slot)]
    OBVIOUS
  <2>2. CreateGames(new)
    BY <1>3, <2>1 DEF GenerateBracket, Entrants
  <2>3. PICK L \in Nat :
          /\ DOMAIN slots = 1..L
          /\ \A i \in 1..L :
               /\ slots[i].round \in Nat /\ slots[i].slot \in Nat
               /\ slots[i].home \in Teams \cup {NoTeam} /\ slots[i].away \in Teams \cup {NoTeam}
               /\ slots[i].home # slots[i].away \/ slots[i].home = NoTeam
    <3>1. /\ DOMAIN slots = 1..(BracketSize(n) - 1) /\ BracketSize(n) \in Nat /\ BracketSize(n) >= n
          /\ \A i \in DOMAIN slots :
               /\ slots[i].round \in Nat /\ slots[i].slot \in Nat
               /\ slots[i].home \in (1..n) \cup {NoTeam} /\ slots[i].away \in (1..n) \cup {NoTeam}
               /\ slots[i].home # slots[i].away \/ slots[i].home = NoTeam
      <4>1. n \in Nat /\ n >= 2
        OBVIOUS
      <4>2. BracketSize(n) >= n
        BY <4>1, BracketSizes
      <4> QED BY <2>1, <4>1, <4>2, BracketSlots, Zenon
    <3>2. BracketSize(n) - 1 \in Nat
      BY <3>1
    <3>3. 1..n \subseteq Teams
      BY DEF Teams
    <3> QED BY <3>1, <3>2, <3>3
  <2>4. ASSUME NEW i \in 1..L
        PROVE  new[i] \in GameRow /\ Proper(new[i]) /\ new[i].status \in {"DRAFT", "SCHEDULED"}
    <3>1. PICK home, away, round, slot :
            /\ home = slots[i].home /\ away = slots[i].away
            /\ round = slots[i].round /\ slot = slots[i].slot
      OBVIOUS
    <3>2. new[i] = Game(home, away, round, slot)
      BY <2>1, <2>3, <3>1
    <3>3. /\ round \in Nat /\ slot \in Nat /\ home \in Teams \cup {NoTeam}
          /\ away \in Teams \cup {NoTeam} /\ (home # away \/ home = NoTeam)
      BY <2>3, <3>1
    <3>4. GamesInv
      OBVIOUS
    <3>5. /\ Game(home, away, round, slot) \in GameRow /\ Proper(Game(home, away, round, slot))
          /\ Game(home, away, round, slot).status \in {"DRAFT", "SCHEDULED"}
      BY <3>3, <3>4, GameType
    <3> QED BY <3>2, <3>5
  <2>5. new \in Seq(GameRow)
    <3>1. new \in [1..L -> GameRow]
      BY <2>1, <2>3, <2>4
    <3> QED BY <3>1, SeqDef
  <2>6. \A i \in DOMAIN new : Proper(new[i]) /\ new[i].status \in {"DRAFT", "SCHEDULED"}
    BY <2>1, <2>3, <2>4
  <2>7. Len(new) = L /\ Len(games) \in Nat
    <3>1. DOMAIN new = 1..L
      BY <2>1, <2>3
    <3> QED BY <2>5, <3>1, LenProperties, GamesFinite
  <2>8. ASSUME NEW l \in links', l \notin links
        PROVE  /\ l.source \in (Len(games) + 1)..(Len(games) + Len(new))
               /\ l.target \in (Len(games) + 1)..(Len(games) + Len(new))
    <3>1. PICK p \in (DOMAIN slots) \X (DOMAIN slots) :
            l.source = Len(games) + p[1] /\ l.target = Len(games) + p[2]
      <4>1. PICK D, all : D = DOMAIN slots /\ all = {q \in D \X D : Feeds(slots[q[1]], slots[q[2]])}
        OBVIOUS
      <4>2. links' = links \cup
              {[source |-> Len(games) + p[1], target |-> Len(games) + p[2],
                slot |-> IF slots[p[1]].slot % 2 = 0 THEN "HOME" ELSE "AWAY"] : p \in all}
        BY <1>3, <2>1, <4>1, Zenon DEF GenerateBracket, Entrants
      <4>3. PICK p \in all :
              l = [source |-> Len(games) + p[1], target |-> Len(games) + p[2],
                   slot |-> IF slots[p[1]].slot % 2 = 0 THEN "HOME" ELSE "AWAY"]
        BY <2>8, <4>2
      <4> QED BY <4>1, <4>3
    <3>2. p[1] \in 1..L /\ p[2] \in 1..L
      BY <2>3
    <3> QED BY <2>7, <3>1, <3>2
  <2>9. format \in Brackets
    BY <1>3 DEF GenerateBracket, Brackets
  <2> QED BY <2>2, <2>5, <2>6, <2>8, <2>9 DEF Added
<1> QED BY <1>1, <1>2, <1>3 DEF Fixtures

-----------------------------------------------------------------------------
\* Games without teams exist in brackets only, and links join games.
PlanInv ==
  /\ format \in Formats
  /\ \A g \in DOMAIN games : games[g].status = "DRAFT" => format \in Brackets
  /\ \A l \in links : {l.source, l.target} \subseteq DOMAIN games

\* Every message waiting or at work is about a change of its own.
JobsInv ==
  /\ changes \in 0..MaxChanges
  /\ IsFiniteSet(Jobs) /\ pending + Cardinality(Jobs) <= changes

\* The inductive invariant.
StageInv == Types /\ Overlaps /\ PlanInv /\ JobsInv

LEMMA StageInit == Init => StageInv
<1>1. SUFFICES ASSUME Init PROVE StageInv
  OBVIOUS
<1>2. /\ format \in Formats /\ games = <<>> /\ links = {} /\ table = <<>> /\ snapshots = <<>>
      /\ pending = 0 /\ requests = [r \in Requests |-> Idle] /\ changes = 0
      /\ withdrawn = FALSE /\ unsettled = FALSE
  BY <1>1 DEF Init
<1>3. \A r \in Requests : requests[r] = Idle /\ ~IsReading(r)
  BY <1>2 DEF IsReading, Idle
<1>4. Selected = {} /\ Results = {} /\ TeamsWithResults = {}
  <2>1. Selected = {}
    BY <1>2 DEF Selected
  <2>2. Results = {}
    BY <2>1 DEF Results
  <2>3. TeamsWithResults = {}
    <3>1. \A t : t \notin TeamsWithResults
      BY <2>1, WithResults
    <3> QED BY <3>1
  <2> QED BY <2>1, <2>2, <2>3
<1>5. /\ GamesInv /\ RequestsInv /\ SnapshotsInv /\ FlagsInv
  <2>1. GamesInv /\ FlagsInv
    <3>1. <<>> \in Seq(GameRow) /\ DOMAIN <<>> = {}
      OBVIOUS
    <3>2. GamesInv
      BY <1>2, <3>1 DEF GamesInv
    <3>3. FlagsInv
      BY <1>2 DEF FlagsInv
    <3> QED BY <3>2, <3>3
  <2>2. SnapshotsInv
    <3>1. DOMAIN <<>> = {}
      OBVIOUS
    <3> QED BY <1>2, <3>1 DEF SnapshotsInv
  <2>3. RequestsInv
    <3>1. Idle \in Waiting
      BY DEF Idle, Waiting
    <3> QED BY <1>2, <1>3, <3>1 DEF RequestsInv
  <2> QED BY <2>1, <2>2, <2>3
<1>6. PICK C : C = CurrentTable /\ DOMAIN C = {} /\ C = [t \in {} |-> C[t]]
  BY <1>4, Standings DEF CurrentTable
<1>7. table = CurrentTable
  BY <1>2, <1>6
<1>8. TableInv
  <2>1. PICK overrides : overrides = [t \in Teams |-> NoRank]
    OBVIOUS
  <2>2. overrides \in [Teams -> Nat] /\ Evidence({}, {})
    BY <2>1, FS_EmptySet DEF Evidence, NoRank
  <2>3. Tabled({}, {}, overrides)
    BY <1>2, <2>2 DEF Tabled
  <2> QED BY <2>3 DEF TableInv
<1>9. FreshInv /\ RestInv /\ RowsInv
  BY <1>2, <1>3, <1>7 DEF FreshInv, RestInv, RowsInv
<1>10. Jobs = {} /\ IsFiniteSet(Jobs) /\ Cardinality(Jobs) = 0
  <2>1. Jobs = {}
    BY <1>3 DEF Jobs
  <2> QED BY <2>1, FS_EmptySet
<1>11. PlanInv /\ JobsInv
  BY <1>2, <1>10 DEF PlanInv, JobsInv
<1> QED BY <1>5, <1>8, <1>9, <1>11 DEF StageInv, Types, Overlaps

\* Handlers keep the plan, and results give each message a change.
LEMMA PlanStays ==
  ASSUME PlanInv, UNCHANGED <<format, games, links>>
  PROVE  PlanInv'
BY DEF PlanInv

LEMMA ResultPlan ==
  ASSUME PlanInv, NEW g \in DOMAIN games, NEW row, games' = [games EXCEPT ![g] = row],
         row.status # "DRAFT", UNCHANGED <<format, links>>
  PROVE  PlanInv'
<1>1. DOMAIN games' = DOMAIN games
  OBVIOUS
<1> QED BY <1>1 DEF PlanInv

LEMMA SameJobs ==
  ASSUME JobsInv, UNCHANGED <<Jobs, changes, pending>>
  PROVE  JobsInv'
BY DEF JobsInv

LEMMA ResultJobs ==
  ASSUME JobsInv, Types, UNCHANGED requests, pending' \in {pending, pending + 1},
         changes < MaxChanges, changes' = changes + 1
  PROVE  JobsInv'
<1>1. Jobs' = Jobs
  BY DEF Jobs, IsReading
<1>2. Cardinality(Jobs) \in Nat
  BY FS_CardinalityType DEF JobsInv
<1> QED BY <1>1, <1>2 DEF JobsInv, Types, FlagsInv

LEMMA ReadJobs ==
  ASSUME JobsInv, Types, NEW r, r \notin Jobs, UNCHANGED changes,
         pending' = pending \/ pending' = pending - 1,
         Jobs' = IF pending' = pending THEN Jobs ELSE Jobs \cup {r}
  PROVE  JobsInv'
<1>1. IsFiniteSet(Jobs) /\ Cardinality(Jobs) \in Nat
  BY FS_CardinalityType DEF JobsInv
<1>2. IsFiniteSet(Jobs \cup {r}) /\ Cardinality(Jobs \cup {r}) = Cardinality(Jobs) + 1
  BY <1>1, FS_AddElement
<1>3. CASE pending' = pending
  BY <1>3 DEF JobsInv
<1>4. CASE pending' # pending
  BY <1>1, <1>2, <1>4 DEF JobsInv, Types, FlagsInv
<1> QED BY <1>3, <1>4

LEMMA EndJobs ==
  ASSUME JobsInv, Types, NEW r, UNCHANGED changes, Jobs' = Jobs \ {r},
         pending' = pending \/ (r \in Jobs /\ pending' = pending + 1)
  PROVE  JobsInv'
<1>1. IsFiniteSet(Jobs) /\ Cardinality(Jobs) \in Nat
  BY FS_CardinalityType DEF JobsInv
<1>2. IsFiniteSet(Jobs \ {r}) /\ Cardinality(Jobs \ {r}) = IF r \in Jobs THEN Cardinality(Jobs) - 1 ELSE Cardinality(Jobs)
  BY <1>1, FS_RemoveElement
<1> QED BY <1>1, <1>2 DEF JobsInv, Types, FlagsInv

LEMMA SameReadsJobs ==
  ASSUME SameReads
  PROVE  Jobs' = Jobs
BY DEF SameReads, Jobs

LEMMA ResultsStep ==
  ASSUME StageInv, ResultsChange
  PROVE  StageInv'
<1>1. PICK g \in DOMAIN games :
        \/ \E score \in Scores : Finish(g, score)
        \/ \E winner \in Teams : SetStatus(g, "FORFEITED", winner)
        \/ \E new \in {"POSTPONED", "CANCELLED", "ABANDONED"} : SetStatus(g, new, NoTeam)
  BY DEF ResultsChange
<1>2. Types /\ Overlaps /\ PlanInv /\ JobsInv
  BY DEF StageInv
<1>3. ASSUME NEW score \in Scores, Finish(g, score)
      PROVE  StageInv'
  <2>1. Types' /\ Overlaps'
    BY <1>2, <1>3, FinishOverlaps
  <2>2. PICK row :
          row = [games[g] EXCEPT !.status = "FINAL", !.version = games[g].version + Versions,
                                 !.homeScore = score[1], !.awayScore = score[2]]
    OBVIOUS
  <2>3. games' = [games EXCEPT ![g] = row]
    BY <1>3, <2>2 DEF Finish
  <2>4. row.status # "DRAFT"
    <3>1. games[g] \in GameRow
      BY <1>2, GamesFinite DEF Types
    <3>2. row.status = "FINAL"
      BY <2>2, <3>1 DEF GameRow
    <3> QED BY <3>2
  <2>5. PlanInv'
    BY <1>2, <1>3, <2>3, <2>4, ResultPlan DEF Finish
  <2>6. JobsInv'
    BY <1>2, <1>3, ResultJobs DEF Finish, Playable
  <2> QED BY <2>1, <2>5, <2>6 DEF StageInv
<1>4. ASSUME NEW new \in {"FORFEITED", "POSTPONED", "CANCELLED", "ABANDONED"}, NEW winner,
             SetStatus(g, new, winner)
      PROVE  StageInv'
  <2>1. Types' /\ Overlaps'
    BY <1>2, <1>4, SetStatusOverlaps
  <2>2. PICK game, row :
          /\ game = (IF new = "FORFEITED"
                     THEN [games[g] EXCEPT
                             !.homeScore = IF winner = games[g].home THEN ForfeitFor ELSE ForfeitAgainst,
                             !.awayScore = IF winner = games[g].away THEN ForfeitFor ELSE ForfeitAgainst,
                             !.explained = TRUE]
                     ELSE games[g])
          /\ row = [game EXCEPT !.status = new, !.version = games[g].version + 1]
    OBVIOUS
  <2>3. games' = [games EXCEPT ![g] = row]
    BY <1>4, <2>2 DEF SetStatus
  <2>4. row.status # "DRAFT"
    <3>1. games[g] \in GameRow
      BY <1>2, GamesFinite DEF Types
    <3>2. "status" \in DOMAIN game
      BY <2>2, <3>1 DEF GameRow
    <3>3. row.status = new
      BY <2>2, <3>2
    <3> QED BY <3>3
  <2>5. PlanInv'
    BY <1>2, <1>4, <2>3, <2>4, ResultPlan DEF SetStatus
  <2>6. JobsInv'
    BY <1>2, <1>4, ResultJobs DEF SetStatus, Playable
  <2> QED BY <2>1, <2>5, <2>6 DEF StageInv
<1> QED BY <1>1, <1>3, <1>4

LEMMA FixturesStep ==
  ASSUME StageInv, Fixtures
  PROVE  StageInv'
<1>1. Types /\ Overlaps /\ PlanInv /\ JobsInv /\ GamesInv
  BY DEF StageInv, Types
<1>2. PICK new : Added(new)
  BY <1>1, FixturesAdd
<1>3. /\ Types' /\ Overlaps'
      /\ DOMAIN games' = 1..(Len(games) + Len(new))
      /\ \A g \in DOMAIN games' : \/ g \in DOMAIN games /\ games'[g] = games[g]
                                  \/ \E i \in DOMAIN new : games'[g] = new[i]
  BY <1>1, <1>2, CreateGamesOverlaps DEF Added
<1>4. UNCHANGED <<format, requests, pending, changes>>
  BY <1>2 DEF Added, CreateGames
<1>5. PlanInv'
  <2>1. /\ Len(games) \in Nat /\ DOMAIN games = 1..Len(games) /\ Len(new) \in Nat
    BY <1>1, <1>2, GamesFinite, LenProperties DEF Added
  <2>2. \A l \in links' : {l.source, l.target} \subseteq DOMAIN games'
    BY <1>1, <1>2, <1>3, <2>1 DEF Added, PlanInv
  <2>3. \A g \in DOMAIN games' : games'[g].status = "DRAFT" => format \in Brackets
    BY <1>1, <1>2, <1>3 DEF Added, PlanInv
  <2> QED BY <1>1, <1>4, <2>2, <2>3 DEF PlanInv
<1>6. Jobs' = Jobs
  BY <1>4 DEF Jobs, IsReading
<1> QED BY <1>1, <1>3, <1>4, <1>5, <1>6, SameJobs DEF StageInv

LEMMA HandlersStep ==
  ASSUME StageInv, Recalculation \/ ManualOverride
  PROVE  StageInv'
<1>1. Types /\ Overlaps /\ PlanInv /\ JobsInv
  BY DEF StageInv
<1>2. ASSUME NEW r \in Requests, ReadGames(r) PROVE StageInv'
  <2>1. PlanInv' /\ UNCHANGED changes
    BY <1>1, <1>2, PlanStays DEF ReadGames, gameVars
  <2> QED BY <1>1, <1>2, <2>1, ReadGamesOverlaps, ReadJobs DEF StageInv
<1>3. ASSUME NEW r \in Requests, ReadStandings(r) PROVE StageInv'
  <2>1. PlanInv' /\ UNCHANGED <<changes, pending>>
    BY <1>1, <1>3, PlanStays DEF ReadStandings, gameVars
  <2> QED BY <1>1, <1>3, <2>1, ReadStandingsOverlaps, SameReadsJobs, SameJobs DEF StageInv
<1>4. ASSUME NEW r \in Requests, Rewrite(r) PROVE StageInv'
  <2>1. PlanInv' /\ UNCHANGED <<changes, pending>>
    BY <1>1, <1>4, PlanStays DEF Rewrite, gameVars
  <2> QED BY <1>1, <1>4, <2>1, RewriteOverlaps, EndJobs DEF StageInv
<1>5. ASSUME NEW r \in Requests, GiveUp(r) PROVE StageInv'
  <2>1. PlanInv' /\ UNCHANGED changes
    BY <1>1, <1>5, PlanStays DEF GiveUp, gameVars
  <2>2. Types' /\ Overlaps' /\ Jobs' = Jobs \ {r}
        /\ (pending' = pending \/ (r \in Jobs /\ pending' = pending + 1))
    BY <1>1, <1>5, GiveUpOverlaps
  <2> QED BY <1>1, <2>1, <2>2, EndJobs DEF StageInv
<1>6. ASSUME NEW r \in Requests, UpdateRow(r) PROVE StageInv'
  <2>1. PlanInv' /\ UNCHANGED <<changes, pending>>
    BY <1>1, <1>6, PlanStays DEF UpdateRow, gameVars
  <2> QED BY <1>1, <1>6, <2>1, UpdateRowOverlaps, SameReadsJobs, SameJobs DEF StageInv
<1>7. ASSUME NEW r \in Requests, NEW t \in DOMAIN table, NEW rank \in 1..2, FindRow(r, t, rank)
      PROVE  StageInv'
  <2>1. PlanInv' /\ UNCHANGED <<changes, pending>>
    BY <1>1, <1>7, PlanStays DEF FindRow, gameVars
  <2> QED BY <1>1, <1>7, <2>1, FindRowOverlaps, SameReadsJobs, SameJobs DEF StageInv
<1> QED BY <1>2, <1>3, <1>4, <1>5, <1>6, <1>7 DEF Recalculation, ManualOverride

\* Every step keeps it.
LEMMA StageStep == StageInv /\ [Next]_vars => StageInv'
<1>1. SUFFICES ASSUME StageInv, [Next]_vars PROVE StageInv'
  OBVIOUS
<1>2. CASE UNCHANGED vars
  <2>1. Types /\ Overlaps /\ PlanInv /\ JobsInv
    BY <1>1 DEF StageInv
  <2>2. UNCHANGED <<Results, TeamsWithResults>>
    BY <1>2, GamesStay DEF vars
  <2>3. Overlaps'
    BY <1>2, <2>1, <2>2, OverlapsStay DEF vars
  <2>4. Types'
    BY <1>2, <2>1, TableStays DEF vars, Types, GamesInv, RequestsInv, IsReading, SnapshotsInv, FlagsInv
  <2>5. PlanInv' /\ JobsInv'
    BY <1>2, <2>1 DEF vars, PlanInv, JobsInv, Jobs, IsReading
  <2> QED BY <2>3, <2>4, <2>5 DEF StageInv
<1>3. CASE Next
  BY <1>1, <1>3, FixturesStep, ResultsStep, HandlersStep DEF Next
<1> QED BY <1>1, <1>2, <1>3

\* The invariant of the overlapping handlers holds in every state.
THEOREM StageSafe == Spec => []StageInv
<1>1. Init => StageInv
  BY StageInit
<1>2. StageInv /\ [Next]_vars => StageInv'
  BY StageStep
<1> QED BY <1>1, <1>2, PTL DEF Spec

\* Whatever is created, played, forfeited, overridden and recalculated, a game that can be
\* played has two different teams, links join games of the stage, the table is about its
\* teams, and there are never more messages than changes of results.
THEOREM StageTyped == Spec => []TypeOK
<1>1. StageInv => TypeOK
  <2>1. SUFFICES ASSUME StageInv PROVE TypeOK
    OBVIOUS
  <2>2. Types /\ PlanInv /\ JobsInv /\ GamesInv
    BY <2>1 DEF StageInv, Types
  <2>3. ASSUME NEW g \in DOMAIN games
        PROVE  /\ {games[g].home, games[g].away} \subseteq Teams \cup {NoTeam}
               /\ games[g].status \in {"SCHEDULED", "FINAL"} =>
                    games[g].home # games[g].away /\ NoTeam \notin {games[g].home, games[g].away}
               /\ games[g].status = "DRAFT" => format \in {"SINGLE_ELIMINATION", "GROUPS_THEN_KNOCKOUT"}
               /\ games[g].status \in {"DRAFT", "SCHEDULED", "FINAL", "FORFEITED", "POSTPONED",
                                       "CANCELLED", "ABANDONED"}
               /\ {games[g].version, games[g].homeScore, games[g].awayScore} \subseteq Nat
    <3>1. games[g] \in GameRow /\ Proper(games[g])
      BY <2>2, GamesFinite DEF GamesInv
    <3>2. games[g].status = "DRAFT" => format \in {"SINGLE_ELIMINATION", "GROUPS_THEN_KNOCKOUT"}
      BY <2>2 DEF PlanInv, Brackets
    <3> QED BY <3>1, <3>2 DEF GameRow, Proper, Statuses
  <2>4. DOMAIN table \subseteq Teams /\ DOMAIN snapshots \subseteq Nat
    BY <2>2, Overrides DEF Types, SnapshotsInv
  <2>5. pending \in 0..MaxChanges
    <3>1. Cardinality(Jobs) \in Nat
      BY <2>2, FS_CardinalityType DEF JobsInv
    <3> QED BY <2>2, <3>1 DEF JobsInv, Types, FlagsInv
  <2>6. \A r \in Requests : requests[r].step \in {"idle", "override", "gone", "overridden",
                                                  "games", "standings"}
    BY <2>2, RequestKinds DEF Types
  <2>7. format \in Formats /\ \A l \in links : {l.source, l.target} \subseteq DOMAIN games
    BY <2>2 DEF PlanInv
  <2> QED BY <2>3, <2>4, <2>5, <2>6, <2>7 DEF TypeOK
<1> QED BY <1>1, StageSafe, PTL

\* However recalculateStandings (games.service.ts:391-500) overlaps with itself, with
\* results and with manual ranks, the table is the one of the present results as soon as no
\* message waits and no handler is at work, unless a result was withdrawn without a message
\* or the last recalculation was overtaken or cut short.
THEOREM TableCurrentAtRest == Spec => []AtRestCurrent
<1>1. StageInv => AtRestCurrent
  <2>1. SUFFICES ASSUME StageInv, pending = 0, \A r \in Requests : requests[r] = Idle,
                        ~withdrawn, ~unsettled
                 PROVE  table = CurrentTable
    BY DEF AtRestCurrent
  <2>2. RestInv
    BY <2>1 DEF StageInv, Overlaps
  <2>3. \A r \in Requests : ~IsReading(r) /\ ~Overridden(r) /\ ~ReadsCurrent(r)
    BY <2>1 DEF IsReading, Overridden, ReadsCurrent, Idle
  <2>4. ~Caught
    BY <2>1, <2>3 DEF Caught
  <2> QED BY <2>1, <2>2, <2>3, <2>4 DEF RestInv
<1> QED BY <1>1, StageSafe, PTL

\* What a table shows of its teams.
Ranking(rows) == [t \in DOMAIN rows |-> <<rows[t].row, rows[t].rank>>]

\* The ranking that is shown can be reproduced: recalculateStandings (games.service.ts:455-498)
\* replaces the rows and the snapshot of their version in one transaction, also when an
\* overlapping recalculation of the same version has written another ranking before, and a
\* manual rank that is set meanwhile moves no team until it is recalculated.
THEOREM RankingsRecorded == Spec => []RankingRecorded
<1>1. Init => RankingRecorded
  BY DEF Init, RankingRecorded
<1>2. RankingRecorded /\ [Next]_vars => RankingRecorded'
  <2>1. SUFFICES ASSUME RankingRecorded, [Next]_vars PROVE RankingRecorded'
    OBVIOUS
  <2>2. RankingRecorded' <=>
          (table' # <<>> => \E v \in DOMAIN snapshots' : Ranking(snapshots'[v]) = Ranking(table'))
    BY Zenon DEF RankingRecorded, Ranking
  <2>3. ASSUME NEW r \in Requests, Rewrite(r) PROVE RankingRecorded'
    <3>1. PICK v : v = requests[r].sourceVersion
      OBVIOUS
    <3>2. snapshots' = [w \in DOMAIN snapshots \cup {v} |-> IF w = v THEN table' ELSE snapshots[w]]
      BY <2>3, <3>1, Zenon DEF Rewrite, Recorded
    <3>3. v \in DOMAIN snapshots' /\ snapshots'[v] = table'
      BY <3>2
    <3>4. Ranking(snapshots'[v]) = Ranking(table')
      BY <3>3
    <3>5. \E w \in DOMAIN snapshots' : Ranking(snapshots'[w]) = Ranking(table')
      BY <3>3, <3>4
    <3> QED BY <2>2, <3>5
  <2>4. ASSUME NEW r \in Requests, UpdateRow(r) PROVE RankingRecorded'
    <3>1. PICK team, rank : table' = [table EXCEPT ![team].override = rank]
      BY <2>4 DEF UpdateRow
    <3>2. DOMAIN table' = DOMAIN table /\ UNCHANGED snapshots
      BY <2>4, <3>1 DEF UpdateRow
    <3>3. \A t \in DOMAIN table : table'[t].row = table[t].row /\ table'[t].rank = table[t].rank
      BY <3>1
    <3>4. Ranking(table') = Ranking(table)
      BY <3>2, <3>3 DEF Ranking
    <3>5. table # <<>> => \E v \in DOMAIN snapshots : Ranking(snapshots[v]) = Ranking(table)
      BY <2>1, Zenon DEF RankingRecorded, Ranking
    <3>6. table' # <<>> => table # <<>>
      BY <3>1
    <3> QED BY <2>2, <3>2, <3>4, <3>5, <3>6, Zenon
  <2>5. CASE ~ \E r \in Requests : Rewrite(r) \/ UpdateRow(r)
    <3>1. UNCHANGED <<table, snapshots>>
      BY <2>1, <2>5 DEF Next, Fixtures, CreateFixture, GenerateRoundRobin, GenerateBracket, CreateGames,
         ResultsChange, Finish, SetStatus, Recalculation, ReadGames, ReadStandings, GiveUp,
         ManualOverride, FindRow, tableVars, vars
    <3> QED BY <2>1, <3>1 DEF RankingRecorded
  <2> QED BY <2>3, <2>4, <2>5
<1> QED BY <1>1, <1>2, PTL DEF Spec

\* A manual rank is not lost to a recalculation that read the rows before it was set
\* (games.service.ts:412-424, 518), unless that one is known to be overtaken.
THEOREM ManualRanksStand == Spec => OverridesSurvive
<1>1. StageInv /\ [Next]_vars =>
        [\A t \in DOMAIN table :
           table[t].override # NoRank /\ ~withdrawn /\ ~unsettled'
             => t \in DOMAIN table' /\ table'[t].override # NoRank]_vars
  <2>1. SUFFICES ASSUME StageInv, Next, NEW t \in DOMAIN table, table[t].override # NoRank,
                        ~withdrawn, ~unsettled'
                 PROVE  t \in DOMAIN table' /\ table'[t].override # NoRank
    OBVIOUS
  <2>2. CASE \E r \in Requests : Rewrite(r)
    BY <2>1, <2>2, RewriteOverlaps DEF StageInv
  <2>3. CASE \E r \in Requests : UpdateRow(r)
    BY <2>1, <2>3, UpdateRowOverlaps DEF StageInv
  <2>4. CASE ~ \E r \in Requests : Rewrite(r) \/ UpdateRow(r)
    <3>1. UNCHANGED table
      BY <2>1, <2>4 DEF Next, Fixtures, CreateFixture, GenerateRoundRobin, GenerateBracket, CreateGames,
         ResultsChange, Finish, SetStatus, Recalculation, ReadGames, ReadStandings, GiveUp,
         ManualOverride, FindRow, tableVars
    <3> QED BY <2>1, <3>1
  <2> QED BY <2>2, <2>3, <2>4
<1> QED BY <1>1, StageSafe, PTL DEF Spec, OverridesSurvive

HIDE StageAssumption
-----------------------------------------------------------------------------
(***************************************************************************)
(* Standings.                                                              *)
(***************************************************************************)

\* A row of the table: drawn games are the rest, so they are numbers only.
RowRecord == [played : Nat, wins : Nat, losses : Nat, draws : Int, pointsFor : Nat,
              pointsAgainst : Nat, pointDifference : Int, standingPoints : Int]

\* Some of the results, and the goals of one side of them.
LEMMA SomeResults ==
  ASSUME NEW results, results \in SUBSET Result, IsFiniteSet(results), NEW t
  PROVE  /\ GamesOf(t, results) \subseteq results /\ IsFiniteSet(GamesOf(t, results))
         /\ \A r \in results : For(t, r) \in Nat /\ Against(t, r) \in Nat
         /\ \A some \in SUBSET results : IsFiniteSet(some) /\ Cardinality(some) \in Nat
         /\ SumFunction([r \in GamesOf(t, results) |-> For(t, r)]) \in Nat
         /\ SumFunction([r \in GamesOf(t, results) |-> Against(t, r)]) \in Nat
         /\ SumFunction([r \in GamesOf(t, results) |-> For(t, r) - Against(t, r)]) \in Int
<1>1. GamesOf(t, results) \subseteq results /\ IsFiniteSet(GamesOf(t, results))
  BY FS_Subset DEF GamesOf
<1>2. \A r \in results : For(t, r) \in Nat /\ Against(t, r) \in Nat
  BY DEF For, Against, Result
<1>3. \A some \in SUBSET results : IsFiniteSet(some) /\ Cardinality(some) \in Nat
  BY FS_Subset, FS_CardinalityType
<1>4. PICK S : S = GamesOf(t, results)
  OBVIOUS
<1>5. PICK f, g, h : /\ f = [r \in S |-> For(t, r)] /\ g = [r \in S |-> Against(t, r)]
                     /\ h = [r \in S |-> For(t, r) - Against(t, r)]
  OBVIOUS
<1>6. /\ DOMAIN f = S /\ DOMAIN g = S /\ DOMAIN h = S /\ IsFiniteSet(S)
      /\ \A r \in S : f[r] \in Nat /\ g[r] \in Nat /\ h[r] \in Int
  BY <1>1, <1>2, <1>4, <1>5
<1>7. SumFunctionOnSet(f, S) \in Nat /\ SumFunctionOnSet(g, S) \in Nat /\ SumFunctionOnSet(h, S) \in Int
  BY <1>6, SumNat, SumType
<1>8. SumFunction(f) \in Nat /\ SumFunction(g) \in Nat /\ SumFunction(h) \in Int
  BY <1>6, <1>7 DEF SumFunction
<1> QED BY <1>1, <1>2, <1>3, <1>4, <1>5, <1>8

LEMMA RowType ==
  ASSUME NEW results, results \in SUBSET Result, IsFiniteSet(results), NEW t
  PROVE  Row(t, results) \in RowRecord
<1>1. PICK played, wins, losses :
        /\ played = Cardinality(GamesOf(t, results))
        /\ wins = Cardinality({r \in GamesOf(t, results) : For(t, r) > Against(t, r)})
        /\ losses = Cardinality({r \in GamesOf(t, results) : For(t, r) < Against(t, r)})
  OBVIOUS
<1>2. played \in Nat /\ wins \in Nat /\ losses \in Nat
  <2>1. /\ GamesOf(t, results) \in SUBSET results
        /\ {r \in GamesOf(t, results) : For(t, r) > Against(t, r)} \in SUBSET results
        /\ {r \in GamesOf(t, results) : For(t, r) < Against(t, r)} \in SUBSET results
    BY DEF GamesOf
  <2> QED BY <1>1, <2>1, SomeResults
<1>3. PICK scored, conceded :
        /\ scored = SumFunction([r \in GamesOf(t, results) |-> For(t, r)])
        /\ conceded = SumFunction([r \in GamesOf(t, results) |-> Against(t, r)])
        /\ scored \in Nat /\ conceded \in Nat
  BY SomeResults
<1>4. PICK draws, points : /\ draws = played - wins - losses
                           /\ points = wins * Rules.winPoints + losses * Rules.lossPoints
                                       + draws * Rules.drawPoints
                           /\ draws \in Int /\ points \in Int
  <2>1. PICK w, l, d : /\ w = Rules.winPoints /\ l = Rules.lossPoints /\ d = Rules.drawPoints
                       /\ w \in Int /\ l \in Int /\ d \in Int
    BY RulesAssumption
  <2>2. PICK draws \in Int : draws = played - wins - losses
    BY <1>2
  <2>3. wins * w \in Int /\ losses * l \in Int /\ draws * d \in Int
    BY <1>2, <2>1
  <2>4. wins * w + losses * l + draws * d \in Int
    BY <2>3
  <2> QED BY <2>1, <2>2, <2>4
<1>5. Row(t, results) =
        [played |-> played, wins |-> wins, losses |-> losses, draws |-> draws,
         pointsFor |-> scored, pointsAgainst |-> conceded, pointDifference |-> scored - conceded,
         standingPoints |-> points]
  BY <1>1, <1>3, <1>4, Zenon DEF Row
<1> QED BY <1>2, <1>3, <1>4, <1>5 DEF RowRecord

\* All values of the comparison are numbers.
LEMMA ValuesType ==
  ASSUME NEW results, results \in SUBSET Result, IsFiniteSet(results), NEW t
  PROVE  /\ DOMAIN Values(t, results) = DOMAIN Rules.tieBreakers
         /\ \A i \in DOMAIN Rules.tieBreakers : Values(t, results)[i] \in Int
<1>1. Row(t, results) \in RowRecord
  BY RowType
<1>2. HeadToHead(t, results).wins \in Int /\ HeadToHead(t, results).pointDifference \in Int
  <2>1. {r \in GamesOf(t, results) : For(t, r) > Against(t, r)} \in SUBSET results
    BY DEF GamesOf
  <2>2. PICK wins, difference :
          /\ wins = Cardinality({r \in GamesOf(t, results) : For(t, r) > Against(t, r)})
          /\ difference = SumFunction([r \in GamesOf(t, results) |-> For(t, r) - Against(t, r)])
          /\ wins \in Int /\ difference \in Int
    <3>1. Cardinality({r \in GamesOf(t, results) : For(t, r) > Against(t, r)}) \in Int
      <4>1. PICK some : some = {r \in GamesOf(t, results) : For(t, r) > Against(t, r)} /\ some \in SUBSET results
        BY <2>1
      <4>2. Cardinality(some) \in Nat
        BY <4>1, SomeResults
      <4> QED BY <4>1, <4>2
    <3>2. SumFunction([r \in GamesOf(t, results) |-> For(t, r) - Against(t, r)]) \in Int
      BY SomeResults
    <3> QED BY <3>1, <3>2
  <2>3. HeadToHead(t, results) = [wins |-> wins, pointDifference |-> difference]
    BY <2>2, Zenon DEF HeadToHead
  <2> QED BY <2>2, <2>3
<1>3. \A i \in DOMAIN Rules.tieBreakers : Rules.tieBreakers[i] \in Criteria
  BY RulesAssumption, ElementOfSeq, LenProperties
<1>4. ASSUME NEW criterion \in Criteria PROVE ValueFor(criterion, t, results) \in Int
  BY <1>1, <1>2 DEF ValueFor, Criteria, RowRecord
<1>5. ASSUME NEW i \in DOMAIN Rules.tieBreakers PROVE Values(t, results)[i] \in Int
  <2>1. PICK value \in Int : value = ValueFor(Rules.tieBreakers[i], t, results)
    BY <1>3, <1>4
  <2>2. Values(t, results)[i] = IF Rules.tieBreakers[i] = "FEWEST_POINTS_CONCEDED" THEN -value ELSE value
    BY <2>1 DEF Values
  <2> QED BY <2>1, <2>2
<1> QED BY <1>5 DEF Values

(***************************************************************************)
(* The order of the comparator.                                            *)
(***************************************************************************)

\* What is compared: numbers for every team, and its manual rank.
Comparable(teams, values, overrides) ==
  /\ teams \in SUBSET Nat
  /\ \A t \in teams : \A i \in DOMAIN Rules.tieBreakers : values[t][i] \in Int
  /\ \A t \in teams : overrides[t] \in Nat

Criterion == DOMAIN Rules.tieBreakers

LEMMA CriterionType == Criterion = 1..Len(Rules.tieBreakers) /\ Len(Rules.tieBreakers) \in Nat /\ 1 \in Criterion
<1>1. Criterion = 1..Len(Rules.tieBreakers) /\ Len(Rules.tieBreakers) \in Nat
  BY RulesAssumption, LenProperties DEF Criterion
<1>2. Len(Rules.tieBreakers) # 0
  BY RulesAssumption, EmptySeq
<1> QED BY <1>1, <1>2

\* The larger value in the first criterion that differs.
Ahead(t, u, values) ==
  \E i \in Criterion : values[t][i] > values[u][i] /\ \A j \in 1..(i - 1) : values[t][j] = values[u][j]

Level(t, u, values) == \A i \in Criterion : values[t][i] = values[u][i]

\* Two teams are ordered by the values, or equal in all of them.
LEMMA AheadOrLevel ==
  ASSUME NEW teams, NEW values, NEW overrides, Comparable(teams, values, overrides),
         NEW t \in teams, NEW u \in teams
  PROVE  /\ Ahead(t, u, values) \/ Ahead(u, t, values) \/ Level(t, u, values)
         /\ BeforeByValues(t, u, values) <=> Ahead(t, u, values) \/ (t < u /\ Level(t, u, values))
<1> DEFINE Differ == {i \in Nat : i \in Criterion /\ values[t][i] # values[u][i]}
<1>1. \A i \in Criterion : values[t][i] \in Int /\ values[u][i] \in Int
  BY DEF Comparable, Criterion
<1>2. ASSUME ~Level(t, u, values)
      PROVE  \E i \in Criterion : Decides(i, t, u, values)
  <2>1. Differ \in SUBSET Nat /\ Differ # {}
    BY <1>2, CriterionType DEF Level
  <2>2. PICK i \in Differ : \A j \in Differ : i <= j
    <3> HIDE DEF Differ
    <3> QED BY <2>1, LeastNumber
  <2>3. ASSUME NEW j \in 1..(i - 1) PROVE values[t][j] = values[u][j]
    <3>1. j \in Criterion /\ j \notin Differ
      BY <2>2, CriterionType
    <3> QED BY <3>1, CriterionType
  <2> QED BY <2>2, <2>3 DEF Decides
<1>3. ASSUME NEW i \in Criterion, Decides(i, t, u, values)
      PROVE  ~Level(t, u, values) /\ (Ahead(t, u, values) \/ Ahead(u, t, values))
  BY <1>1, <1>3 DEF Decides, Level, Ahead
<1>4. Ahead(t, u, values) <=> \E i \in Criterion : Decides(i, t, u, values) /\ values[t][i] > values[u][i]
  BY <1>1 DEF Ahead, Decides
<1>5. Level(t, u, values) <=> \A i \in Criterion : ~Decides(i, t, u, values)
  BY <1>2, <1>3
<1> QED BY <1>2, <1>3, <1>4, <1>5 DEF BeforeByValues, Criterion

LEMMA AheadTransitive ==
  ASSUME NEW teams, NEW values, NEW overrides, Comparable(teams, values, overrides),
         NEW t \in teams, NEW u \in teams, NEW v \in teams
  PROVE  /\ ~Ahead(t, t, values)
         /\ Ahead(t, u, values) /\ Ahead(u, v, values) => Ahead(t, v, values)
         /\ Ahead(t, u, values) /\ Level(u, v, values) => Ahead(t, v, values)
         /\ Level(t, u, values) /\ Ahead(u, v, values) => Ahead(t, v, values)
         /\ Level(t, u, values) /\ Level(u, v, values) => Level(t, v, values)
         /\ Level(t, u, values) => ~Ahead(t, u, values) /\ ~Ahead(u, t, values)
<1>1. \A i \in Criterion : values[t][i] \in Int /\ values[u][i] \in Int /\ values[v][i] \in Int
  BY DEF Comparable, Criterion
<1>2. PICK n \in Nat : Criterion = 1..n
  BY CriterionType
<1>3. ASSUME Ahead(t, u, values), Ahead(u, v, values) PROVE Ahead(t, v, values)
  <2>1. PICK i \in Criterion : values[t][i] > values[u][i] /\ \A j \in 1..(i - 1) : values[t][j] = values[u][j]
    BY <1>3 DEF Ahead
  <2>2. PICK k \in Criterion : values[u][k] > values[v][k] /\ \A j \in 1..(k - 1) : values[u][j] = values[v][j]
    BY <1>3 DEF Ahead
  <2>3. CASE i < k
    <3>1. values[t][i] > values[v][i]
      BY <1>1, <1>2, <2>1, <2>2, <2>3
    <3>2. \A j \in 1..(i - 1) : values[t][j] = values[v][j]
      BY <1>2, <2>1, <2>2, <2>3
    <3> QED BY <3>1, <3>2 DEF Ahead
  <2>4. CASE i = k
    <3>1. values[t][i] > values[v][i]
      BY <1>1, <2>1, <2>2, <2>4
    <3>2. \A j \in 1..(i - 1) : values[t][j] = values[v][j]
      BY <2>1, <2>2, <2>4
    <3> QED BY <3>1, <3>2 DEF Ahead
  <2>5. CASE i > k
    <3>1. values[t][k] > values[v][k]
      BY <1>1, <1>2, <2>1, <2>2, <2>5
    <3>2. \A j \in 1..(k - 1) : values[t][j] = values[v][j]
      BY <1>2, <2>1, <2>2, <2>5
    <3> QED BY <3>1, <3>2 DEF Ahead
  <2> QED BY <1>2, <2>3, <2>4, <2>5
<1>4. ASSUME Ahead(t, u, values), Level(u, v, values) PROVE Ahead(t, v, values)
  BY <1>2, <1>4 DEF Ahead, Level
<1>5. ASSUME Level(t, u, values), Ahead(u, v, values) PROVE Ahead(t, v, values)
  BY <1>2, <1>5 DEF Ahead, Level
<1>6. ~Ahead(t, t, values)
  BY <1>1 DEF Ahead
<1>7. ASSUME Level(t, u, values) PROVE ~Ahead(t, u, values) /\ ~Ahead(u, t, values)
  BY <1>1, <1>7 DEF Ahead, Level
<1>8. ASSUME Level(t, u, values), Level(u, v, values) PROVE Level(t, v, values)
  BY <1>8 DEF Level
<1> QED BY <1>3, <1>4, <1>5, <1>6, <1>7, <1>8

-----------------------------------------------------------------------------
\* The comparator orders the teams, without ties.
LEMMA BeforeOrders ==
  ASSUME NEW teams, NEW values, NEW overrides, Comparable(teams, values, overrides)
  PROVE  /\ \A t \in teams : ~Before(t, t, values, overrides)
         /\ \A t, u \in teams : t # u => Before(t, u, values, overrides) \/ Before(u, t, values, overrides)
         /\ \A t, u, v \in teams : Before(t, u, values, overrides) /\ Before(u, v, values, overrides)
                                     => Before(t, v, values, overrides)
<1>1. /\ \A t \in teams : t \in Nat /\ overrides[t] \in Nat
      /\ NoRank = 0
  BY DEF Comparable, NoRank
<1>2. ASSUME NEW t \in teams PROVE ~Before(t, t, values, overrides)
  <2>1. ~BeforeByValues(t, t, values)
    BY <1>1, AheadOrLevel, AheadTransitive
  <2> QED BY <1>1, <2>1 DEF Before
<1>3. ASSUME NEW t \in teams, NEW u \in teams, t # u
      PROVE  Before(t, u, values, overrides) \/ Before(u, t, values, overrides)
  <2>1. BeforeByValues(t, u, values) \/ BeforeByValues(u, t, values)
    <3>1. /\ Ahead(t, u, values) \/ Ahead(u, t, values) \/ Level(t, u, values)
          /\ BeforeByValues(t, u, values) <=> Ahead(t, u, values) \/ (t < u /\ Level(t, u, values))
          /\ BeforeByValues(u, t, values) <=> Ahead(u, t, values) \/ (u < t /\ Level(u, t, values))
      BY AheadOrLevel
    <3>2. Level(t, u, values) => Level(u, t, values)
      BY DEF Level
    <3>3. t < u \/ u < t
      BY <1>1, <1>3
    <3> QED BY <3>1, <3>2, <3>3
  <2> QED BY <1>1, <1>3, <2>1 DEF Before
<1>4. ASSUME NEW t \in teams, NEW u \in teams, NEW v \in teams,
             Before(t, u, values, overrides), Before(u, v, values, overrides)
      PROVE  Before(t, v, values, overrides)
  <2>1. ASSUME BeforeByValues(t, u, values), BeforeByValues(u, v, values)
        PROVE  BeforeByValues(t, v, values)
    <3>1. /\ BeforeByValues(t, u, values) <=> Ahead(t, u, values) \/ (t < u /\ Level(t, u, values))
          /\ BeforeByValues(u, v, values) <=> Ahead(u, v, values) \/ (u < v /\ Level(u, v, values))
          /\ BeforeByValues(t, v, values) <=> Ahead(t, v, values) \/ (t < v /\ Level(t, v, values))
      BY AheadOrLevel
    <3>2. /\ Ahead(t, u, values) /\ Ahead(u, v, values) => Ahead(t, v, values)
          /\ Ahead(t, u, values) /\ Level(u, v, values) => Ahead(t, v, values)
          /\ Level(t, u, values) /\ Ahead(u, v, values) => Ahead(t, v, values)
          /\ Level(t, u, values) /\ Level(u, v, values) => Level(t, v, values)
      BY AheadTransitive
    <3>3. t < u /\ u < v => t < v
      BY <1>1
    <3> QED BY <2>1, <3>1, <3>2, <3>3
  <2> QED BY <1>1, <1>4, <2>1 DEF Before
<1> QED BY <1>2, <1>3, <1>4

\* A place is counted from those ahead.
RankOf(teams, values, overrides) ==
  [t \in teams |-> 1 + Cardinality({u \in teams \ {t} : Before(u, t, values, overrides)})]

\* Ranks run from 1, without ties or gaps, in the order of the comparator.
LEMMA RanksRun ==
  ASSUME NEW teams, NEW values, NEW overrides, Comparable(teams, values, overrides),
         IsFiniteSet(teams), NEW rank, rank = RankOf(teams, values, overrides)
  PROVE  /\ \A t \in teams : rank[t] \in 1..Cardinality(teams)
         /\ \A t, u \in teams : Before(t, u, values, overrides) => rank[t] < rank[u]
         /\ rank \in Surjection(teams, 1..Cardinality(teams))
<1> DEFINE ahead(t) == {u \in teams \ {t} : Before(u, t, values, overrides)}
<1>1. ASSUME NEW t \in teams
      PROVE  /\ IsFiniteSet(ahead(t)) /\ Cardinality(ahead(t)) \in Nat
             /\ Cardinality(ahead(t)) < Cardinality(teams) /\ Cardinality(teams) \in Nat
  <2>1. IsFiniteSet(teams \ {t}) /\ Cardinality(teams \ {t}) = Cardinality(teams) - 1
    BY FS_RemoveElement
  <2>2. ahead(t) \in SUBSET (teams \ {t})
    OBVIOUS
  <2>3. IsFiniteSet(ahead(t)) /\ Cardinality(ahead(t)) <= Cardinality(teams \ {t})
    <3> HIDE DEF ahead
    <3> QED BY <2>1, <2>2, FS_Subset
  <2>4. Cardinality(teams) \in Nat /\ Cardinality(ahead(t)) \in Nat
    BY <2>3, FS_CardinalityType
  <2> HIDE DEF ahead
  <2> QED BY <2>1, <2>3, <2>4
<1>2. ASSUME NEW t \in teams, NEW u \in teams, Before(t, u, values, overrides)
      PROVE  Cardinality(ahead(t)) < Cardinality(ahead(u))
  <2>1. t \notin ahead(t) /\ t # u
    BY <1>2, BeforeOrders
  <2>2. ahead(t) \cup {t} \in SUBSET ahead(u)
    <3>1. ASSUME NEW v \in ahead(t) PROVE v \in ahead(u)
      <4>1. v \in teams /\ Before(v, t, values, overrides)
        OBVIOUS
      <4>2. Before(v, u, values, overrides)
        BY <1>2, <4>1, BeforeOrders
      <4>3. v # u
        BY <4>2, BeforeOrders
      <4> QED BY <4>1, <4>2, <4>3
    <3>2. t \in ahead(u)
      BY <1>2, <2>1
    <3> HIDE DEF ahead
    <3> QED BY <3>1, <3>2
  <2>3. Cardinality(ahead(t) \cup {t}) = Cardinality(ahead(t)) + 1
    BY <1>1, <2>1, FS_AddElement
  <2>4. Cardinality(ahead(t) \cup {t}) <= Cardinality(ahead(u))
    BY <1>1, <2>2, FS_Subset
  <2>5. Cardinality(ahead(t)) \in Nat /\ Cardinality(ahead(u)) \in Nat
    BY <1>1
  <2> HIDE DEF ahead
  <2> QED BY <2>3, <2>4, <2>5
<1>3. rank = [t \in teams |-> 1 + Cardinality(ahead(t))]
  BY DEF RankOf
<1> HIDE DEF ahead
<1>4. \A t \in teams : rank[t] \in 1..Cardinality(teams)
  BY <1>1, <1>3
<1>5. \A t, u \in teams : Before(t, u, values, overrides) => rank[t] < rank[u]
  BY <1>1, <1>2, <1>3
<1>6. rank \in Injection(teams, 1..Cardinality(teams))
  <2>1. rank \in [teams -> 1..Cardinality(teams)]
    BY <1>3, <1>4
  <2>2. ASSUME NEW t \in teams, NEW u \in teams, t # u PROVE rank[t] # rank[u]
    <3>1. rank[t] < rank[u] \/ rank[u] < rank[t]
      BY <1>5, <2>2, BeforeOrders
    <3> QED BY <1>4, <3>1
  <2> QED BY <2>1, <2>2 DEF Injection, IsInjective
<1>7. IsFiniteSet(1..Cardinality(teams)) /\ Cardinality(1..Cardinality(teams)) = Cardinality(teams)
  <2>1. Cardinality(teams) \in Nat
    BY FS_CardinalityType
  <2> QED BY <2>1, FS_Interval
<1>8. rank \in Surjection(teams, 1..Cardinality(teams))
  BY <1>6, <1>7, FS_Injection
<1> QED BY <1>4, <1>5, <1>8

-----------------------------------------------------------------------------
(***************************************************************************)
(* Totals: what one team wins the other loses.                             *)
(***************************************************************************)

\* A result more, seen from a team that is not part of it, and from one that is.
LEMMA OneMoreResult ==
  ASSUME NEW R, R \in SUBSET Result, IsFiniteSet(R), NEW x \in Result, x \notin R, NEW t
  PROVE  /\ t \notin {x.home, x.away} =>
              /\ Row(t, R \cup {x}).wins = Row(t, R).wins /\ Row(t, R \cup {x}).losses = Row(t, R).losses
              /\ Row(t, R \cup {x}).pointsFor = Row(t, R).pointsFor
              /\ Row(t, R \cup {x}).pointsAgainst = Row(t, R).pointsAgainst
         /\ t \in {x.home, x.away} =>
              /\ Row(t, R \cup {x}).wins = Row(t, R).wins + (IF For(t, x) > Against(t, x) THEN 1 ELSE 0)
              /\ Row(t, R \cup {x}).losses = Row(t, R).losses + (IF For(t, x) < Against(t, x) THEN 1 ELSE 0)
              /\ Row(t, R \cup {x}).pointsFor = Row(t, R).pointsFor + For(t, x)
              /\ Row(t, R \cup {x}).pointsAgainst = Row(t, R).pointsAgainst + Against(t, x)
<1> DEFINE won(S) == {r \in GamesOf(t, S) : For(t, r) > Against(t, r)}
           lost(S) == {r \in GamesOf(t, S) : For(t, r) < Against(t, r)}
           scored(S) == [r \in GamesOf(t, S) |-> For(t, r)]
           conceded(S) == [r \in GamesOf(t, S) |-> Against(t, r)]
<1>1. PICK T : T = R \cup {x}
  OBVIOUS
<1>2. T \in SUBSET Result /\ IsFiniteSet(T)
  BY <1>1, FS_AddElement
<1>3. ASSUME NEW S
      PROVE  /\ Row(t, S).wins = Cardinality(won(S)) /\ Row(t, S).losses = Cardinality(lost(S))
             /\ Row(t, S).pointsFor = SumFunction(scored(S))
             /\ Row(t, S).pointsAgainst = SumFunction(conceded(S))
  BY DEF Row
<1>4. CASE t \notin {x.home, x.away}
  <2>1. GamesOf(t, T) = GamesOf(t, R)
    BY <1>1, <1>4 DEF GamesOf
  <2>2. won(T) = won(R) /\ lost(T) = lost(R) /\ scored(T) = scored(R) /\ conceded(T) = conceded(R)
    BY <2>1
  <2> HIDE DEF won, lost, scored, conceded
  <2> QED BY <1>1, <1>3, <1>4, <2>2
<1>5. CASE t \in {x.home, x.away}
  <2>1. PICK P : P = GamesOf(t, R)
    OBVIOUS
  <2>2. GamesOf(t, T) = P \cup {x} /\ x \notin P
    BY <1>1, <1>5, <2>1 DEF GamesOf
  <2>3. /\ won(T) = (IF For(t, x) > Against(t, x) THEN won(R) \cup {x} ELSE won(R)) /\ x \notin won(R)
        /\ lost(T) = (IF For(t, x) < Against(t, x) THEN lost(R) \cup {x} ELSE lost(R)) /\ x \notin lost(R)
    BY <2>1, <2>2
  <2>4. /\ IsFiniteSet(P) /\ IsFiniteSet(won(R)) /\ IsFiniteSet(lost(R))
        /\ Cardinality(won(R)) \in Nat /\ Cardinality(lost(R)) \in Nat
        /\ \A r \in P \cup {x} : For(t, r) \in Nat /\ Against(t, r) \in Nat
    <3>1. won(R) \in SUBSET R /\ lost(R) \in SUBSET R /\ P \in SUBSET R
      BY <2>1 DEF GamesOf
    <3>2. \A r \in T : For(t, r) \in Nat /\ Against(t, r) \in Nat
      BY <1>2, SomeResults
    <3>3. P \cup {x} \subseteq T
      BY <1>1, <3>1
    <3> HIDE DEF won, lost
    <3> QED BY <3>1, <3>2, <3>3, SomeResults
  <2>5. /\ Cardinality(won(T)) = Cardinality(won(R)) + (IF For(t, x) > Against(t, x) THEN 1 ELSE 0)
        /\ Cardinality(lost(T)) = Cardinality(lost(R)) + (IF For(t, x) < Against(t, x) THEN 1 ELSE 0)
    <3> HIDE DEF won, lost
    <3>1. /\ Cardinality(won(R) \cup {x}) = Cardinality(won(R)) + 1
          /\ Cardinality(lost(R) \cup {x}) = Cardinality(lost(R)) + 1
      BY <2>3, <2>4, FS_AddElement
    <3> QED BY <2>3, <2>4, <3>1
  <2>6. /\ SumFunction(scored(T)) = For(t, x) + SumFunction(scored(R))
        /\ SumFunction(conceded(T)) = Against(t, x) + SumFunction(conceded(R))
    <3>1. PICK f, g, d, e : /\ f = scored(R) /\ g = scored(T) /\ d = conceded(R) /\ e = conceded(T)
      OBVIOUS
    <3>2. /\ DOMAIN f = P /\ DOMAIN g = P \cup {x} /\ DOMAIN d = P /\ DOMAIN e = P \cup {x}
          /\ \A r \in P : f[r] = g[r] /\ d[r] = e[r]
          /\ g[x] = For(t, x) /\ e[x] = Against(t, x)
          /\ \A r \in P \cup {x} : g[r] \in Int /\ e[r] \in Int
      BY <2>1, <2>2, <2>4, <3>1
    <3> HIDE DEF scored, conceded
    <3>3. /\ SumFunctionOnSet(g, P \cup {x}) = g[x] + SumFunctionOnSet(g, P)
          /\ SumFunctionOnSet(e, P \cup {x}) = e[x] + SumFunctionOnSet(e, P)
      BY <2>2, <2>4, <3>2, SumAdd
    <3>4. SumFunctionOnSet(g, P) = SumFunctionOnSet(f, P) /\ SumFunctionOnSet(e, P) = SumFunctionOnSet(d, P)
      BY <2>4, <3>2, SumSame
    <3>5. /\ SumFunction(g) = For(t, x) + SumFunction(f)
          /\ SumFunction(e) = Against(t, x) + SumFunction(d)
      BY <3>2, <3>3, <3>4 DEF SumFunction
    <3> QED BY <3>1, <3>5
  <2>7. /\ For(t, x) \in Nat /\ Against(t, x) \in Nat
        /\ SumFunction(scored(R)) \in Nat /\ SumFunction(conceded(R)) \in Nat
    BY <2>4, SomeResults
  <2>8. PICK w, l, s, c : /\ w = SumFunction(scored(R)) /\ l = SumFunction(conceded(R))
                          /\ s = SumFunction(scored(T)) /\ c = SumFunction(conceded(T))
    OBVIOUS
  <2>9. s = w + For(t, x) /\ c = l + Against(t, x)
    BY <2>6, <2>7, <2>8
  <2> HIDE DEF won, lost, scored, conceded
  <2> QED BY <1>1, <1>3, <1>5, <2>5, <2>8, <2>9
<1> QED BY <1>4, <1>5

-----------------------------------------------------------------------------
LEMMA SumChangeTwo ==
  ASSUME NEW f, NEW g, NEW S, IsFiniteSet(S), NEW a \in S, NEW b \in S, a # b,
         \A x \in S : f[x] \in Int /\ g[x] \in Int,
         \A x \in S \ {a, b} : f[x] = g[x]
  PROVE  SumFunctionOnSet(g, S) = SumFunctionOnSet(f, S) + (g[a] - f[a]) + (g[b] - f[b])
<1>1. /\ IsFiniteSet(S \ {a}) /\ b \in S \ {a} /\ IsFiniteSet((S \ {a}) \ {b})
      /\ \A x \in S \ {a} : f[x] \in Int /\ g[x] \in Int
  BY FS_RemoveElement
<1>2. PICK rest : rest = (S \ {a}) \ {b}
  OBVIOUS
<1>3. SumFunctionOnSet(f, rest) = SumFunctionOnSet(g, rest)
  <2>1. \A x \in rest : f[x] = g[x]
    BY <1>2
  <2> QED BY <1>1, <1>2, <2>1, SumSame
<1>4. /\ SumFunctionOnSet(f, S) = f[a] + SumFunctionOnSet(f, S \ {a})
      /\ SumFunctionOnSet(g, S) = g[a] + SumFunctionOnSet(g, S \ {a})
  BY SumRemove
<1>5. /\ SumFunctionOnSet(f, S \ {a}) = f[b] + SumFunctionOnSet(f, rest)
      /\ SumFunctionOnSet(g, S \ {a}) = g[b] + SumFunctionOnSet(g, rest)
  BY <1>1, <1>2, SumRemove
<1>6. SumFunctionOnSet(f, rest) \in Int
  <2>1. \A x \in rest : f[x] \in Int
    BY <1>2
  <2> QED BY <1>1, <1>2, <2>1, SumType
<1>7. f[a] \in Int /\ g[a] \in Int /\ f[b] \in Int /\ g[b] \in Int
  OBVIOUS
<1> QED BY <1>3, <1>4, <1>5, <1>6, <1>7

\* The sums of the four columns.
Balanced(teams, R) ==
  /\ SumFunctionOnSet([t \in teams |-> Row(t, R).wins], teams)
       = SumFunctionOnSet([t \in teams |-> Row(t, R).losses], teams)
  /\ SumFunctionOnSet([t \in teams |-> Row(t, R).pointsFor], teams)
       = SumFunctionOnSet([t \in teams |-> Row(t, R).pointsAgainst], teams)

\* By induction over the results.
LEMMA TotalsBalance ==
  ASSUME NEW results, NEW teams, Evidence(results, teams), IsFiniteSet(teams)
  PROVE  Balanced(teams, results)
<1> DEFINE Good == {R \in SUBSET results : Balanced(teams, R)}
<1>1. results \in SUBSET Result /\ IsFiniteSet(results)
  BY DEF Evidence
<1>2. ASSUME NEW R \in SUBSET results, \A U \in SUBSET R : U # R => U \in Good
      PROVE  R \in Good
  <2>1. CASE R = {}
    <3>1. ASSUME NEW t PROVE /\ Row(t, R).wins = 0 /\ Row(t, R).losses = 0
                             /\ Row(t, R).pointsFor = 0 /\ Row(t, R).pointsAgainst = 0
      <4>1. GamesOf(t, R) = {}
        BY <2>1 DEF GamesOf
      <4>2. Row(t, R).wins = 0 /\ Row(t, R).losses = 0
        <5>1. {r \in GamesOf(t, R) : For(t, r) > Against(t, r)} = {}
              /\ {r \in GamesOf(t, R) : For(t, r) < Against(t, r)} = {}
          BY <4>1
        <5> QED BY <5>1, FS_EmptySet DEF Row
      <4>3. SumFunction([r \in GamesOf(t, R) |-> For(t, r)]) = 0
            /\ SumFunction([r \in GamesOf(t, R) |-> Against(t, r)]) = 0
        <5>1. PICK f, g : f = [r \in GamesOf(t, R) |-> For(t, r)] /\ g = [r \in GamesOf(t, R) |-> Against(t, r)]
          OBVIOUS
        <5>2. DOMAIN f = {} /\ DOMAIN g = {}
          BY <4>1, <5>1
        <5>3. SumFunction(f) = 0 /\ SumFunction(g) = 0
          BY <5>2, SumEmpty DEF SumFunction
        <5> QED BY <5>1, <5>3
      <4>4. Row(t, R).pointsFor = 0 /\ Row(t, R).pointsAgainst = 0
        BY <4>3 DEF Row
      <4> QED BY <4>2, <4>4
    <3>2. ASSUME NEW f, \A t \in teams : f[t] = 0 PROVE SumFunctionOnSet(f, teams) = 0
      BY <3>2, SumZero
    <3>3. PICK w, l, s, c : /\ w = [t \in teams |-> Row(t, R).wins]
                            /\ l = [t \in teams |-> Row(t, R).losses]
                            /\ s = [t \in teams |-> Row(t, R).pointsFor]
                            /\ c = [t \in teams |-> Row(t, R).pointsAgainst]
      OBVIOUS
    <3>4. /\ SumFunctionOnSet(w, teams) = 0 /\ SumFunctionOnSet(l, teams) = 0
          /\ SumFunctionOnSet(s, teams) = 0 /\ SumFunctionOnSet(c, teams) = 0
      <4>1. \A t \in teams : w[t] = 0 /\ l[t] = 0 /\ s[t] = 0 /\ c[t] = 0
        BY <3>1, <3>3
      <4> QED BY <3>2, <4>1
    <3> QED BY <3>3, <3>4 DEF Balanced
  <2>2. CASE R # {}
    <3>1. PICK x \in R : TRUE
      BY <2>2
    <3>2. PICK U : U = R \ {x}
      OBVIOUS
    <3>3. /\ U \in SUBSET Result /\ IsFiniteSet(U) /\ x \in Result /\ x \notin U /\ R = U \cup {x}
          /\ Balanced(teams, U)
      <4>1. U \in SUBSET R /\ U # R /\ U \in SUBSET results
        BY <3>1, <3>2
      <4>2. U \in Good
        BY <1>2, <4>1
      <4> QED BY <1>1, <3>1, <3>2, <4>1, <4>2, FS_Subset
    <3>4. /\ x.home \in teams /\ x.away \in teams /\ x.home # x.away
          /\ x.homeScore \in Nat /\ x.awayScore \in Nat
      BY <3>1, <3>3 DEF Evidence, Result
    <3>5. PICK home, away, ha, aa :
            home = x.home /\ away = x.away /\ ha = x.homeScore /\ aa = x.awayScore
      OBVIOUS
    <3>0. ha \in Nat /\ aa \in Nat
      BY <3>4, <3>5
    <3>6. /\ For(home, x) = ha /\ Against(home, x) = aa
          /\ For(away, x) = aa /\ Against(away, x) = ha
      BY <3>4, <3>5 DEF For, Against
    <3>7. PICK w, l, s, c, w1, l1, s1, c1 :
            /\ w = [t \in teams |-> Row(t, U).wins] /\ l = [t \in teams |-> Row(t, U).losses]
            /\ s = [t \in teams |-> Row(t, U).pointsFor] /\ c = [t \in teams |-> Row(t, U).pointsAgainst]
            /\ w1 = [t \in teams |-> Row(t, R).wins] /\ l1 = [t \in teams |-> Row(t, R).losses]
            /\ s1 = [t \in teams |-> Row(t, R).pointsFor] /\ c1 = [t \in teams |-> Row(t, R).pointsAgainst]
      OBVIOUS
    <3>8. /\ SumFunctionOnSet(w, teams) = SumFunctionOnSet(l, teams)
          /\ SumFunctionOnSet(s, teams) = SumFunctionOnSet(c, teams)
      BY <3>3, <3>7 DEF Balanced
    <3>9. \A t \in teams : /\ w[t] \in Int /\ l[t] \in Int /\ s[t] \in Int /\ c[t] \in Int
                           /\ w1[t] \in Int /\ l1[t] \in Int /\ s1[t] \in Int /\ c1[t] \in Int
      <4>1. R \in SUBSET Result /\ IsFiniteSet(R)
        BY <1>1, FS_Subset
      <4>2. \A t : Row(t, U) \in RowRecord /\ Row(t, R) \in RowRecord
        BY <3>3, <4>1, RowType
      <4> QED BY <3>7, <4>2 DEF RowRecord
    <3>10. \A t \in teams \ {home, away} : w[t] = w1[t] /\ l[t] = l1[t] /\ s[t] = s1[t] /\ c[t] = c1[t]
      <4>1. ASSUME NEW t \in teams, t # home, t # away
            PROVE  w[t] = w1[t] /\ l[t] = l1[t] /\ s[t] = s1[t] /\ c[t] = c1[t]
        <5>1. /\ Row(t, R).wins = Row(t, U).wins /\ Row(t, R).losses = Row(t, U).losses
              /\ Row(t, R).pointsFor = Row(t, U).pointsFor
              /\ Row(t, R).pointsAgainst = Row(t, U).pointsAgainst
          BY <3>3, <3>5, <4>1, OneMoreResult
        <5> QED BY <3>7, <5>1
      <4> QED BY <4>1
    <3>11. /\ w1[home] = w[home] + (IF ha > aa THEN 1 ELSE 0)
           /\ l1[home] = l[home] + (IF ha < aa THEN 1 ELSE 0)
           /\ s1[home] = s[home] + ha /\ c1[home] = c[home] + aa
      <4>1. /\ Row(home, R).wins = Row(home, U).wins + (IF For(home, x) > Against(home, x) THEN 1 ELSE 0)
            /\ Row(home, R).losses = Row(home, U).losses + (IF For(home, x) < Against(home, x) THEN 1 ELSE 0)
            /\ Row(home, R).pointsFor = Row(home, U).pointsFor + For(home, x)
            /\ Row(home, R).pointsAgainst = Row(home, U).pointsAgainst + Against(home, x)
        BY <3>3, <3>5, OneMoreResult
      <4> QED BY <3>4, <3>5, <3>6, <3>7, <4>1
    <3>12. /\ w1[away] = w[away] + (IF aa > ha THEN 1 ELSE 0)
           /\ l1[away] = l[away] + (IF aa < ha THEN 1 ELSE 0)
           /\ s1[away] = s[away] + aa /\ c1[away] = c[away] + ha
      <4>1. /\ Row(away, R).wins = Row(away, U).wins + (IF For(away, x) > Against(away, x) THEN 1 ELSE 0)
            /\ Row(away, R).losses = Row(away, U).losses + (IF For(away, x) < Against(away, x) THEN 1 ELSE 0)
            /\ Row(away, R).pointsFor = Row(away, U).pointsFor + For(away, x)
            /\ Row(away, R).pointsAgainst = Row(away, U).pointsAgainst + Against(away, x)
        BY <3>3, <3>5, OneMoreResult
      <4> QED BY <3>4, <3>5, <3>6, <3>7, <4>1
    <3>13. home \in teams /\ away \in teams /\ home # away
      BY <3>4, <3>5
    <3>14. /\ SumFunctionOnSet(w1, teams) = SumFunctionOnSet(w, teams) + (w1[home] - w[home]) + (w1[away] - w[away])
           /\ SumFunctionOnSet(l1, teams) = SumFunctionOnSet(l, teams) + (l1[home] - l[home]) + (l1[away] - l[away])
           /\ SumFunctionOnSet(s1, teams) = SumFunctionOnSet(s, teams) + (s1[home] - s[home]) + (s1[away] - s[away])
           /\ SumFunctionOnSet(c1, teams) = SumFunctionOnSet(c, teams) + (c1[home] - c[home]) + (c1[away] - c[away])
      <4>1. SumFunctionOnSet(w1, teams) = SumFunctionOnSet(w, teams) + (w1[home] - w[home]) + (w1[away] - w[away])
        <5>1. /\ \A t \in teams : w[t] \in Int /\ w1[t] \in Int
              /\ \A t \in teams \ {home, away} : w[t] = w1[t]
          BY <3>9, <3>10
        <5> QED BY <3>13, <5>1, SumChangeTwo
      <4>2. SumFunctionOnSet(l1, teams) = SumFunctionOnSet(l, teams) + (l1[home] - l[home]) + (l1[away] - l[away])
        <5>1. /\ \A t \in teams : l[t] \in Int /\ l1[t] \in Int
              /\ \A t \in teams \ {home, away} : l[t] = l1[t]
          BY <3>9, <3>10
        <5> QED BY <3>13, <5>1, SumChangeTwo
      <4>3. SumFunctionOnSet(s1, teams) = SumFunctionOnSet(s, teams) + (s1[home] - s[home]) + (s1[away] - s[away])
        <5>1. /\ \A t \in teams : s[t] \in Int /\ s1[t] \in Int
              /\ \A t \in teams \ {home, away} : s[t] = s1[t]
          BY <3>9, <3>10
        <5> QED BY <3>13, <5>1, SumChangeTwo
      <4>4. SumFunctionOnSet(c1, teams) = SumFunctionOnSet(c, teams) + (c1[home] - c[home]) + (c1[away] - c[away])
        <5>1. /\ \A t \in teams : c[t] \in Int /\ c1[t] \in Int
              /\ \A t \in teams \ {home, away} : c[t] = c1[t]
          BY <3>9, <3>10
        <5> QED BY <3>13, <5>1, SumChangeTwo
      <4> QED BY <4>1, <4>2, <4>3, <4>4
    <3>15. /\ SumFunctionOnSet(w, teams) \in Int /\ SumFunctionOnSet(s, teams) \in Int
      BY <3>9, SumType
    <3>16. /\ (w1[home] - w[home]) + (w1[away] - w[away]) = (l1[home] - l[home]) + (l1[away] - l[away])
           /\ (s1[home] - s[home]) + (s1[away] - s[away]) = (c1[home] - c[home]) + (c1[away] - c[away])
      <4>1. PICK wh, wa, lh, la, sh, sa, ch, ca :
              /\ wh = w[home] /\ wa = w[away] /\ lh = l[home] /\ la = l[away]
              /\ sh = s[home] /\ sa = s[away] /\ ch = c[home] /\ ca = c[away]
        OBVIOUS
      <4>2. /\ wh \in Int /\ wa \in Int /\ lh \in Int /\ la \in Int
            /\ sh \in Int /\ sa \in Int /\ ch \in Int /\ ca \in Int
        BY <3>9, <3>13, <4>1
      <4>3. PICK wh1, wa1, lh1, la1, sh1, sa1, ch1, ca1 :
              /\ wh1 = w1[home] /\ wa1 = w1[away] /\ lh1 = l1[home] /\ la1 = l1[away]
              /\ sh1 = s1[home] /\ sa1 = s1[away] /\ ch1 = c1[home] /\ ca1 = c1[away]
        OBVIOUS
      <4>4. /\ sh1 = sh + ha /\ ch1 = ch + aa /\ sa1 = sa + aa /\ ca1 = ca + ha
        BY <3>11, <3>12, <4>1, <4>3
      <4>8. /\ wh1 \in Int /\ wa1 \in Int /\ lh1 \in Int /\ la1 \in Int
            /\ sh1 \in Int /\ sa1 \in Int /\ ch1 \in Int /\ ca1 \in Int
        BY <3>9, <3>13, <4>3
      <4>5. (sh1 - sh) + (sa1 - sa) = (ch1 - ch) + (ca1 - ca)
        BY <3>0, <4>2, <4>4, <4>8
      <4>6. /\ wh1 = wh + (IF ha > aa THEN 1 ELSE 0) /\ lh1 = lh + (IF ha < aa THEN 1 ELSE 0)
            /\ wa1 = wa + (IF aa > ha THEN 1 ELSE 0) /\ la1 = la + (IF aa < ha THEN 1 ELSE 0)
        BY <3>11, <3>12, <4>1, <4>3
      <4>7. (wh1 - wh) + (wa1 - wa) = (lh1 - lh) + (la1 - la)
        BY <3>0, <4>2, <4>6, <4>8
      <4> QED BY <4>1, <4>3, <4>5, <4>7
    <3>17. /\ SumFunctionOnSet(w1, teams) = SumFunctionOnSet(l1, teams)
           /\ SumFunctionOnSet(s1, teams) = SumFunctionOnSet(c1, teams)
      BY <3>8, <3>9, <3>13, <3>14, <3>15, <3>16
    <3> QED BY <3>7, <3>17 DEF Balanced
  <2> QED BY <2>1, <2>2
<1>3. results \in Good
  <2> HIDE DEF Good
  <2> QED BY <1>1, <1>2, SubsetInduction
<1> QED BY <1>3

-----------------------------------------------------------------------------
\* What a table says, row by row: it is the calculation's, ranked by its comparator.
LEMMA TableRanked ==
  ASSUME NEW teams, NEW results, NEW overrides, Tabled(teams, results, overrides),
         NEW values, values = [t \in teams |-> Values(t, results)]
  PROVE  /\ DOMAIN table = teams /\ IsFiniteSet(teams)
         /\ Comparable(teams, values, overrides)
         /\ \A t \in teams : table[t].row = Row(t, results)
         /\ \A t \in teams : table[t].override = NoRank => overrides[t] = NoRank
         /\ Ranks = 1..Cardinality(teams)
         /\ \A t, u \in teams : Before(t, u, values, overrides) => table[t].rank < table[u].rank
<1>1. /\ Evidence(results, teams) /\ overrides \in [Teams -> Nat] /\ DOMAIN table = teams
      /\ \A t \in teams : table[t].override = NoRank => overrides[t] = NoRank
  BY DEF Tabled
<1>2. IsFiniteSet(teams) /\ teams \in SUBSET Nat /\ teams \in SUBSET Teams
  <2>1. Teams \in SUBSET Nat /\ IsFiniteSet(Teams)
    BY StageAssumption, FS_Interval DEF Teams
  <2> QED BY <1>1, <2>1, FS_Subset DEF Evidence
<1>3. Comparable(teams, values, overrides)
  <2>1. ASSUME NEW t \in teams, NEW i \in DOMAIN Rules.tieBreakers PROVE values[t][i] \in Int
    <3>1. Values(t, results)[i] \in Int
      BY <1>1, ValuesType DEF Evidence
    <3> QED BY <3>1
  <2> QED BY <1>1, <1>2, <2>1 DEF Comparable
<1>4. PICK rank : rank = RankOf(teams, values, overrides)
  OBVIOUS
<1>5. \A t \in teams : table[t].row = Row(t, results) /\ table[t].rank = rank[t]
  <2>1. ASSUME NEW t \in teams PROVE table[t].row = Row(t, results) /\ table[t].rank = rank[t]
    <3>1. CalculateStandings(teams, results, overrides)[t].rank = rank[t]
      BY <1>4 DEF CalculateStandings, RankOf
    <3>2. PICK e, row, override, place : /\ e = table[t] /\ row = Row(t, results)
                                         /\ override = table[t].override /\ place = rank[t]
      OBVIOUS
    <3>3. e = [row |-> row, override |-> override, rank |-> place]
      BY <3>1, <3>2 DEF Tabled
    <3>4. e.row = row /\ e.rank = place
      BY <3>3
    <3> QED BY <3>2, <3>4
  <2> QED BY <2>1
<1>6. /\ \A t, u \in teams : Before(t, u, values, overrides) => rank[t] < rank[u]
      /\ \A t \in teams : rank[t] \in 1..Cardinality(teams)
      /\ rank \in Surjection(teams, 1..Cardinality(teams))
  BY <1>2, <1>3, <1>4, RanksRun
<1>7. Ranks = 1..Cardinality(teams)
  <2>1. \A n \in 1..Cardinality(teams) : \E t \in teams : rank[t] = n
    BY <1>6 DEF Surjection
  <2> QED BY <1>1, <1>5, <1>6, <2>1 DEF Ranks
<1> QED BY <1>1, <1>2, <1>3, <1>5, <1>6, <1>7

\* The first criterion alone puts a team before another one.
LEMMA FirstCriterion ==
  ASSUME NEW teams, NEW values, NEW overrides, Comparable(teams, values, overrides),
         NEW t \in teams, NEW u \in teams, overrides[t] = NoRank, overrides[u] = NoRank,
         values[t][1] > values[u][1]
  PROVE  Before(t, u, values, overrides)
<1>1. Ahead(t, u, values)
  <2>1. 1 \in Criterion /\ \A j \in 1..(1 - 1) : values[t][j] = values[u][j]
    BY CriterionType
  <2> QED BY <2>1 DEF Ahead
<1>2. BeforeByValues(t, u, values)
  BY <1>1, AheadOrLevel
<1> QED BY <1>2 DEF Before

\* Every table that is ever written is sound, whatever games it is calculated from: places
\* run from 1 without gaps or ties, because the comparator of calculateStandings
\* (standings.ts:49) is a strict total order; the wins and points of the one are the losses
\* and points against of the other; and without manual ranks the better team in the first
\* criterion comes first.
THEOREM TableIsSound == Spec => []TableSound
<1>1. StageInv => TableSound
  <2>1. SUFFICES ASSUME StageInv PROVE TableSound
    OBVIOUS
  <2>2. PICK teams, results, overrides : Tabled(teams, results, overrides)
    BY <2>1 DEF StageInv, Types, TableInv
  <2>3. PICK values : values = [t \in teams |-> Values(t, results)]
    OBVIOUS
  <2>4. /\ DOMAIN table = teams /\ IsFiniteSet(teams)
        /\ Comparable(teams, values, overrides)
        /\ \A t \in teams : table[t].row = Row(t, results)
        /\ \A t \in teams : table[t].override = NoRank => overrides[t] = NoRank
        /\ Ranks = 1..Cardinality(teams)
        /\ \A t, u \in teams : Before(t, u, values, overrides) => table[t].rank < table[u].rank
    BY <2>2, <2>3, TableRanked
  <2>5. /\ SumFunction([t \in DOMAIN table |-> table[t].row["wins"]])
             = SumFunction([t \in DOMAIN table |-> table[t].row["losses"]])
        /\ SumFunction([t \in DOMAIN table |-> table[t].row["pointsFor"]])
             = SumFunction([t \in DOMAIN table |-> table[t].row["pointsAgainst"]])
    <3>1. Balanced(teams, results)
      BY <2>2, <2>4, TotalsBalance DEF Tabled
    <3>2. PICK w, l, s, c :
            /\ w = [t \in teams |-> Row(t, results).wins] /\ l = [t \in teams |-> Row(t, results).losses]
            /\ s = [t \in teams |-> Row(t, results).pointsFor]
            /\ c = [t \in teams |-> Row(t, results).pointsAgainst]
      OBVIOUS
    <3>3. /\ SumFunctionOnSet(w, teams) = SumFunctionOnSet(l, teams)
          /\ SumFunctionOnSet(s, teams) = SumFunctionOnSet(c, teams)
      BY <3>1, <3>2 DEF Balanced
    <3>4. DOMAIN w = teams /\ DOMAIN l = teams /\ DOMAIN s = teams /\ DOMAIN c = teams
      BY <3>2
    <3>5. SumFunction(w) = SumFunction(l) /\ SumFunction(s) = SumFunction(c)
      BY <3>3, <3>4 DEF SumFunction
    <3>6. /\ [t \in DOMAIN table |-> table[t].row["wins"]] = w
          /\ [t \in DOMAIN table |-> table[t].row["losses"]] = l
          /\ [t \in DOMAIN table |-> table[t].row["pointsFor"]] = s
          /\ [t \in DOMAIN table |-> table[t].row["pointsAgainst"]] = c
      BY <2>4, <3>2
    <3> QED BY <3>5, <3>6
  <2>6. ASSUME NEW t \in teams, NEW u \in teams,
               table[t].override = NoRank, table[u].override = NoRank,
               Rules.tieBreakers[1] \in {"POINTS", "WINS"},
               (IF Rules.tieBreakers[1] = "POINTS" THEN table[t].row.standingPoints ELSE table[t].row.wins)
                 > (IF Rules.tieBreakers[1] = "POINTS" THEN table[u].row.standingPoints ELSE table[u].row.wins)
        PROVE  table[t].rank < table[u].rank
    <3>1. 1 \in DOMAIN Rules.tieBreakers
      BY CriterionType DEF Criterion
    <3>2. ASSUME NEW v \in teams
          PROVE  values[v][1] = (IF Rules.tieBreakers[1] = "POINTS" THEN table[v].row.standingPoints
                                                                  ELSE table[v].row.wins)
      <4>1. Values(v, results)[1] =
              (IF Rules.tieBreakers[1] = "POINTS" THEN Row(v, results).standingPoints
                                                ELSE Row(v, results).wins)
        <5>1. Values(v, results)[1] = ValueFor(Rules.tieBreakers[1], v, results)
          BY <2>6, <3>1 DEF Values
        <5> QED BY <2>6, <5>1 DEF ValueFor
      <4> QED BY <2>3, <2>4, <4>1
    <3>3. values[t][1] > values[u][1]
      BY <2>6, <3>2
    <3>4. Before(t, u, values, overrides)
      BY <2>4, <2>6, <3>3, FirstCriterion
    <3> QED BY <2>4, <3>4
  <2> QED BY <2>4, <2>5, <2>6 DEF TableSound
<1> QED BY <1>1, StageSafe, PTL

-----------------------------------------------------------------------------
(***************************************************************************)
(* Round robins: where the circle of each round has its teams, and in      *)
(* which round two of them face each other.                                *)
(***************************************************************************)

\* The place on the first circle of what stands in place p of the circle of round r.
Source(p, r, m) == IF p = 1 THEN 1 ELSE IF p - r >= 2 THEN p - r ELSE p - r + m - 1

\* The place in round r of what stood in place a at first.
Place(a, r, m) == IF a = 1 THEN 1 ELSE IF a + r <= m THEN a + r ELSE a + r - m + 1

LEMMA SourcePlace ==
  ASSUME NEW m \in Nat, m >= 2, NEW r \in 0..(m - 2), NEW p \in 1..m
  PROVE  /\ Source(p, r, m) \in 1..m /\ Place(p, r, m) \in 1..m
         /\ Place(Source(p, r, m), r, m) = p /\ Source(Place(p, r, m), r, m) = p
BY DEF Source, Place

\* The circle turns by a place in each round.
LEMMA RotationPlaces ==
  ASSUME NEW V, NEW m \in Nat, m >= 2, NEW circle \in Circles(V, m)
  PROVE  \A r \in 0..(m - 2) : \A p \in 1..m : Rotations(circle)[r][p] = circle[Source(p, r, m)]
<1> PICK rotation : rotation = Rotations(circle)
  OBVIOUS
<1> DEFINE Turned == {r \in Nat : r <= m - 2 =>
                        \A p \in 1..m : rotation[r][p] = circle[Source(p, r, m)]}
<1>1. 0 \in Turned
  <2>1. rotation[0] = circle
    BY RotationsCircle
  <2>2. \A p \in 1..m : Source(p, 0, m) = p
    BY DEF Source
  <2> QED BY <2>1, <2>2
<1>2. ASSUME NEW r \in Nat, r \in Turned PROVE r + 1 \in Turned
  <2>1. SUFFICES ASSUME r + 1 <= m - 2, NEW p \in 1..m
                 PROVE  rotation[r + 1][p] = circle[Source(p, r + 1, m)]
    OBVIOUS
  <2>2. \A q \in 1..m : rotation[r][q] = circle[Source(q, r, m)]
    BY <1>2, <2>1
  <2>3. PICK s, t : s = rotation[r] /\ t = rotation[r + 1]
    OBVIOUS
  <2>4. t = Rotated(s) /\ s \in Circles(V, m)
    BY <2>3, RotationsCircle
  <2>5. t[1] = s[1] /\ t[2] = s[m] /\ \A i \in 3..m : t[i] = s[i - 1]
    BY <2>4, RotatedCircle
  <2>6. PICK q \in 1..m : t[p] = s[q] /\ q = (IF p = 1 THEN 1 ELSE IF p = 2 THEN m ELSE p - 1)
    BY <2>5
  <2>7. Source(q, r, m) = Source(p, r + 1, m)
    BY <2>1, <2>6 DEF Source
  <2> QED BY <2>2, <2>3, <2>6, <2>7
<1>3. \A r \in Nat : r \in Turned
  <2> HIDE DEF Turned
  <2> QED BY <1>1, <1>2, Induction
<1> QED BY <1>3

\* Two places meet in round r when they face each other in it.
Meet(a, b, r, m) == Place(a, r, m) + Place(b, r, m) = m + 1

\* Of an even number of places every two meet in exactly one round.
LEMMA MeetOnce ==
  ASSUME NEW h \in Nat, h >= 1, NEW a \in 1..(2 * h), NEW b \in 1..(2 * h), a # b
  PROVE  /\ \E r \in 0..(2 * h - 2) : Meet(a, b, r, 2 * h)
         /\ \A r, q \in 0..(2 * h - 2) : Meet(a, b, r, 2 * h) /\ Meet(a, b, q, 2 * h) => r = q
<1>1. ASSUME NEW r \in 0..(2 * h - 2), NEW q \in 0..(2 * h - 2),
             Meet(a, b, r, 2 * h), Meet(a, b, q, 2 * h)
      PROVE  r = q
  BY <1>1 DEF Meet, Place
<1>2. \E r \in 0..(2 * h - 2) : Meet(a, b, r, 2 * h)
  <2>1. CASE a = 1
    <3>1. 2 * h - b \in 0..(2 * h - 2) /\ Meet(a, b, 2 * h - b, 2 * h)
      BY <2>1 DEF Meet, Place
    <3> QED BY <3>1
  <2>2. CASE b = 1
    <3>1. 2 * h - a \in 0..(2 * h - 2) /\ Meet(a, b, 2 * h - a, 2 * h)
      BY <2>2 DEF Meet, Place
    <3> QED BY <3>1
  <2>3. CASE a # 1 /\ b # 1
    <3>1. PICK d \in Int : d = a + b - (2 * h + 1) /\ d >= 3 - (2 * h - 1) /\ d <= 2 * h - 2
      BY <2>3
    <3>2. PICK e \in Int : d = 2 * e \/ d = 2 * e + 1
      <4>1. d = 2 * (d \div 2) \/ d = 2 * (d \div 2) + 1
        OBVIOUS
      <4> QED BY <4>1
    <3>3. CASE d = 2 * e /\ e <= 0
      <4>1. -e \in 0..(2 * h - 2) /\ Meet(a, b, -e, 2 * h)
        BY <2>3, <3>1, <3>3 DEF Meet, Place
      <4> QED BY <4>1
    <3>4. CASE d = 2 * e /\ e > 0
      <4>1. 2 * h - 1 - e \in 0..(2 * h - 2) /\ Meet(a, b, 2 * h - 1 - e, 2 * h)
        BY <2>3, <3>1, <3>4 DEF Meet, Place
      <4> QED BY <4>1
    <3>5. CASE d = 2 * e + 1
      <4>1. h - 1 - e \in 0..(2 * h - 2) /\ Meet(a, b, h - 1 - e, 2 * h)
        BY <2>3, <3>1, <3>5 DEF Meet, Place
      <4> QED BY <4>1
    <3> QED BY <3>2, <3>3, <3>4, <3>5
  <2> QED BY <2>1, <2>2, <2>3
<1> QED BY <1>1, <1>2

\* The cells of a table with h columns, counted row by row.
LEMMA Cells ==
  ASSUME NEW h \in Nat, h >= 1, NEW R \in Nat
  PROVE  /\ \A i \in 1..(R * h) : /\ (i - 1) \div h \in 0..(R - 1) /\ (i - 1) % h \in 0..(h - 1)
                                  /\ i = ((i - 1) \div h) * h + ((i - 1) % h) + 1
         /\ \A r \in 0..(R - 1), k \in 0..(h - 1) :
              \E i \in 1..(R * h) : (i - 1) \div h = r /\ (i - 1) % h = k
<1>1. \A q \in Nat, r \in Nat : q < r => q * h + h <= r * h
  <2>1. ASSUME NEW q \in Nat, NEW r \in Nat, q < r PROVE q * h + h <= r * h
    <3>1. PICK d \in Nat : r = q + 1 + d
      <4>1. r - q - 1 \in Nat /\ r = q + 1 + (r - q - 1)
        BY <2>1
      <4> QED BY <4>1
    <3>2. (q + 1 + d) * h = q * h + h + d * h /\ d * h >= 0
      OBVIOUS
    <3>3. q * h \in Nat /\ d * h \in Nat
      OBVIOUS
    <3> QED BY <3>1, <3>2, <3>3
  <2> QED BY <2>1
<1>2. \A a \in Nat : /\ a \div h \in Nat /\ a % h \in 0..(h - 1)
                     /\ a = (a \div h) * h + (a % h)
  <2>1. ASSUME NEW a \in Nat
        PROVE  a \div h \in Nat /\ a % h \in 0..(h - 1) /\ a = (a \div h) * h + (a % h)
    <3>1. /\ a \div h \in Nat /\ a % h \in 0..(h - 1)
          /\ a = h * (a \div h) + (a % h)
      BY Division
    <3>2. PICK q \in Nat : q = a \div h
      BY <3>1
    <3>3. h * q = q * h
      OBVIOUS
    <3> QED BY <3>1, <3>2, <3>3
  <2> QED BY <2>1
<1>3. ASSUME NEW i \in 1..(R * h)
      PROVE  /\ (i - 1) \div h \in 0..(R - 1) /\ (i - 1) % h \in 0..(h - 1)
             /\ i = ((i - 1) \div h) * h + ((i - 1) % h) + 1
  <2>1. PICK q, k : q = (i - 1) \div h /\ k = (i - 1) % h
    OBVIOUS
  <2>2. q \in Nat /\ k \in 0..(h - 1) /\ i - 1 = q * h + k
    <3>1. i - 1 \in Nat
      OBVIOUS
    <3> QED BY <1>2, <2>1, <3>1
  <2>3. q < R
    <3>1. SUFFICES ASSUME ~(q < R) PROVE FALSE
      OBVIOUS
    <3>2. R * h <= q * h
      <4>1. CASE R = q
        BY <4>1
      <4>2. CASE R < q
        <5>1. R * h + h <= q * h /\ R * h \in Nat /\ q * h \in Nat
          BY <1>1, <2>2, <4>2
        <5> QED BY <5>1
      <4> QED BY <2>2, <3>1, <4>1, <4>2
    <3>3. q * h \in Nat /\ R * h \in Nat /\ i <= R * h
      BY <2>2
    <3> QED BY <2>2, <3>2, <3>3
  <2>4. i = q * h + k + 1
    <3>1. q * h \in Nat
      BY <2>2
    <3> QED BY <2>2, <3>1
  <2> QED BY <2>1, <2>2, <2>3, <2>4
<1>4. ASSUME NEW r \in 0..(R - 1), NEW k \in 0..(h - 1)
      PROVE  \E i \in 1..(R * h) : (i - 1) \div h = r /\ (i - 1) % h = k
  <2>1. PICK a \in Nat : a = r * h + k
    <3>1. r * h \in Nat
      OBVIOUS
    <3> QED BY <3>1
  <2>2. r * h + h <= R * h /\ r * h \in Nat /\ R * h \in Nat
    BY <1>1
  <2>3. a + 1 \in 1..(R * h)
    BY <2>1, <2>2
  <2>4. PICK q \in Nat, j \in 0..(h - 1) : q = a \div h /\ j = a % h /\ a = q * h + j
    BY <1>2
  <2>5. q = r
    <3>1. q * h \in Nat /\ q * h + j = r * h + k
      BY <2>1, <2>4
    <3>2. ~(q < r)
      <4>1. q < r => q * h + h <= r * h
        BY <1>1
      <4> QED BY <2>2, <3>1, <4>1
    <3>3. ~(r < q)
      <4>1. r < q => r * h + h <= q * h
        BY <1>1
      <4> QED BY <2>2, <3>1, <4>1
    <3> QED BY <3>2, <3>3
  <2>6. j = k
    BY <2>1, <2>2, <2>4, <2>5
  <2>7. (a + 1) - 1 = a
    OBVIOUS
  <2> QED BY <2>3, <2>4, <2>5, <2>6, <2>7
<1> QED BY <1>3, <1>4

-----------------------------------------------------------------------------
\* What a schedule promises: nobody plays twice in a round, two teams meet once.
Between(p, t, u) == {p.home, p.away} = {t, u}

OneGameARound(s) ==
  \A i, j \in DOMAIN s : i # j /\ s[i].round = s[j].round =>
    {s[i].home, s[i].away} \cap {s[j].home, s[j].away} = {}

MeetsOnce(s, t, u) == \E i \in DOMAIN s : \A j \in DOMAIN s : Between(s[j], t, u) <=> j = i

LEMMA AllPairingsMeet ==
  ASSUME NEW n \in Nat, n >= 2
  PROVE  LET all == AllPairings(Entrants(n)) IN
         /\ OneGameARound(all)
         /\ \A t, u \in 1..n : t # u => MeetsOnce(all, t, u)
         /\ \A i \in DOMAIN all : all[i].round \in 1..(Len(WithBye(Entrants(n))) - 1)
<1>1. PICK m \in Nat : /\ m >= n /\ m = 2 * (m \div 2)
                       /\ WithBye(Entrants(n)) \in Circles(0..n, m)
                       /\ \A t \in 1..n : WithBye(Entrants(n))[t] = t
  BY ByeCircle
<1>2. PICK circle : circle = WithBye(Entrants(n))
  OBVIOUS
<1>3. /\ Len(circle) = m /\ circle \in Circles(0..n, m) /\ m >= 2
      /\ \A a, b \in 1..m : a # b => circle[a] # circle[b]
      /\ \A t \in 1..n : circle[t] = t /\ t \in 1..m
  BY <1>1, <1>2 DEF Circles
<1>4. PICK rotation : rotation = Rotations(circle)
  OBVIOUS
<1>5. \A r \in 0..(m - 2), p \in 1..m : rotation[r][p] = circle[Source(p, r, m)]
  BY <1>3, <1>4, RotationPlaces
<1>6. PICK h \in Nat : h = m \div 2 /\ h >= 1 /\ m = 2 * h
  BY <1>1, <1>3
<1>7. \A r \in 0..(m - 2) : Len(rotation[r]) = m
  <2>1. \A r \in Nat : rotation[r] \in Circles(0..n, m)
    BY <1>3, <1>4, RotationsCircle
  <2> QED BY <2>1 DEF Circles
<1>8. PICK all : all = AllPairings(Entrants(n))
  OBVIOUS
<1>9. all = [i \in 1..((m - 1) * h) |->
               PairingAt(rotation[(i - 1) \div h], (i - 1) \div h, (i - 1) % h)]
  BY <1>2, <1>3, <1>4, <1>6, <1>8 DEF AllPairings
<1>10. DOMAIN all = 1..((m - 1) * h) /\ m - 1 \in Nat
  BY <1>3, <1>9
<1> DEFINE Round(i) == (i - 1) \div h
           Index(i) == (i - 1) % h
<1>11. ASSUME NEW i \in DOMAIN all
       PROVE  /\ Round(i) \in 0..(m - 2) /\ Index(i) \in 0..(h - 1)
              /\ i = Round(i) * h + Index(i) + 1
  <2>1. PICK R \in Nat : R = m - 1 /\ R - 1 = m - 2
    BY <1>10
  <2>2. /\ (i - 1) \div h \in 0..(R - 1) /\ (i - 1) % h \in 0..(h - 1)
        /\ i = ((i - 1) \div h) * h + ((i - 1) % h) + 1
    BY <1>6, <1>10, <2>1, Cells
  <2> QED BY <2>1, <2>2
<1>12. ASSUME NEW r \in 0..(m - 2), NEW k \in 0..(h - 1)
       PROVE  \E i \in DOMAIN all : Round(i) = r /\ Index(i) = k
  <2>1. PICK R \in Nat : R = m - 1 /\ R - 1 = m - 2
    BY <1>10
  <2>2. \A a \in 0..(R - 1), b \in 0..(h - 1) :
          \E i \in 1..(R * h) : (i - 1) \div h = a /\ (i - 1) % h = b
    BY <1>6, <2>1, Cells
  <2>3. r \in 0..(R - 1)
    BY <2>1
  <2>4. \E i \in 1..(R * h) : (i - 1) \div h = r /\ (i - 1) % h = k
    BY <2>2, <2>3, Zenon
  <2> QED BY <1>10, <2>1, <2>4
<1>13. ASSUME NEW i \in DOMAIN all
       PROVE  all[i] = PairingAt(rotation[Round(i)], Round(i), Index(i))
  BY <1>9
<1> HIDE DEF Round, Index
<1>14. ASSUME NEW i \in DOMAIN all, NEW r, NEW k, r = Round(i), k = Index(i)
       PROVE  /\ all[i].round = r + 1
              /\ {all[i].home, all[i].away} = {circle[Source(k + 1, r, m)], circle[Source(m - k, r, m)]}
  <2>1. all[i] = PairingAt(rotation[r], r, k)
    BY <1>13, <1>14
  <2>2. PICK s : s = rotation[r]
    OBVIOUS
  <2>3. r \in 0..(m - 2) /\ k \in 0..(h - 1)
    BY <1>11, <1>14
  <2>4. k + 1 \in 1..m /\ m - k \in 1..m
    BY <1>6, <2>3
  <2>5. Len(s) = m /\ s[k + 1] = circle[Source(k + 1, r, m)] /\ s[m - k] = circle[Source(m - k, r, m)]
    BY <1>5, <1>7, <2>2, <2>3, <2>4
  <2>6. PICK left, right : left = s[k + 1] /\ right = s[m - k]
    OBVIOUS
  <2>7. all[i] = [round |-> r + 1,
                  home |-> IF (r + k) % 2 = 1 THEN right ELSE left,
                  away |-> IF (r + k) % 2 = 1 THEN left ELSE right]
    BY <2>1, <2>2, <2>5, <2>6 DEF PairingAt
  <2>8. {all[i].home, all[i].away} = {left, right} /\ all[i].round = r + 1
    BY <2>7
  <2> QED BY <2>5, <2>6, <2>8
<1>20. ASSUME NEW r \in 0..(m - 2), NEW p \in 1..m
       PROVE  /\ Source(p, r, m) \in 1..m /\ Place(p, r, m) \in 1..m
              /\ Place(Source(p, r, m), r, m) = p /\ Source(Place(p, r, m), r, m) = p
  BY <1>3, SourcePlace
\* Different places of a round are different positions of the first circle.
<1>15. ASSUME NEW r \in 0..(m - 2), NEW p \in 1..m, NEW q \in 1..m, p # q
       PROVE  circle[Source(p, r, m)] # circle[Source(q, r, m)]
  <2>1. Source(p, r, m) \in 1..m /\ Source(q, r, m) \in 1..m /\ Source(p, r, m) # Source(q, r, m)
    BY <1>15, <1>20
  <2> QED BY <1>3, <2>1
<1>16. OneGameARound(all)
  <2>1. SUFFICES ASSUME NEW i \in DOMAIN all, NEW j \in DOMAIN all, i # j,
                        all[i].round = all[j].round
                 PROVE  {all[i].home, all[i].away} \cap {all[j].home, all[j].away} = {}
    BY DEF OneGameARound
  <2>2. PICK r, k : r = Round(i) /\ k = Index(i)
    OBVIOUS
  <2>3. PICK q, l : q = Round(j) /\ l = Index(j)
    OBVIOUS
  <2>4. /\ r \in 0..(m - 2) /\ k \in 0..(h - 1) /\ q \in 0..(m - 2) /\ l \in 0..(h - 1)
        /\ i = r * h + k + 1 /\ j = q * h + l + 1
    BY <1>11, <2>2, <2>3
  <2>5. all[i].round = r + 1 /\ all[j].round = q + 1
    BY <1>14, <2>2, <2>3
  <2>6. r = q /\ k # l
    <3>1. r = q
      BY <2>1, <2>4, <2>5
    <3> QED BY <2>1, <2>4, <3>1
  <2>7. /\ k + 1 \in 1..m /\ m - k \in 1..m /\ l + 1 \in 1..m /\ m - l \in 1..m
        /\ k + 1 # l + 1 /\ k + 1 # m - l /\ m - k # l + 1 /\ m - k # m - l
    BY <1>6, <2>4, <2>6
  <2>8. /\ {all[i].home, all[i].away} = {circle[Source(k + 1, r, m)], circle[Source(m - k, r, m)]}
        /\ {all[j].home, all[j].away} = {circle[Source(l + 1, r, m)], circle[Source(m - l, r, m)]}
    BY <1>14, <2>2, <2>3, <2>6
  <2>9. /\ circle[Source(k + 1, r, m)] # circle[Source(l + 1, r, m)]
        /\ circle[Source(k + 1, r, m)] # circle[Source(m - l, r, m)]
        /\ circle[Source(m - k, r, m)] # circle[Source(l + 1, r, m)]
        /\ circle[Source(m - k, r, m)] # circle[Source(m - l, r, m)]
    BY <1>15, <2>4, <2>7
  <2> QED BY <2>8, <2>9
<1>17. ASSUME NEW t \in 1..n, NEW u \in 1..n, t # u PROVE MeetsOnce(all, t, u)
  <2>1. t \in 1..m /\ u \in 1..m /\ circle[t] = t /\ circle[u] = u
    BY <1>3
  <2>2. PICK r \in 0..(m - 2) : Meet(t, u, r, m)
    BY <1>6, <1>17, <2>1, MeetOnce
  <2>3. \A q \in 0..(m - 2) : Meet(t, u, q, m) => q = r
    BY <1>6, <1>17, <2>1, <2>2, MeetOnce
  <2>4. PICK p, q : p = Place(t, r, m) /\ q = Place(u, r, m)
    OBVIOUS
  <2>5. /\ p \in 1..m /\ q \in 1..m /\ Source(p, r, m) = t /\ Source(q, r, m) = u
        /\ p + q = m + 1 /\ p # q
    BY <1>17, <1>20, <2>1, <2>2, <2>4 DEF Meet
  <2>6. PICK k \in 0..(h - 1) : (p = k + 1 /\ q = m - k) \/ (q = k + 1 /\ p = m - k)
    <3>1. CASE p <= h
      <4>1. p - 1 \in 0..(h - 1) /\ p = (p - 1) + 1 /\ q = m - (p - 1)
        BY <2>5, <3>1
      <4> QED BY <4>1
    <3>2. CASE p > h
      <4>1. q - 1 \in 0..(h - 1) /\ q = (q - 1) + 1 /\ p = m - (q - 1)
        BY <1>6, <2>5, <3>2
      <4> QED BY <4>1
    <3> QED BY <2>5, <3>1, <3>2
  <2>7. PICK i \in DOMAIN all : Round(i) = r /\ Index(i) = k
    BY <1>12
  <2>8. Between(all[i], t, u)
    <3>1. {all[i].home, all[i].away} = {circle[Source(k + 1, r, m)], circle[Source(m - k, r, m)]}
      BY <1>14, <2>7
    <3> QED BY <2>1, <2>5, <2>6, <3>1 DEF Between
  <2>9. ASSUME NEW j \in DOMAIN all, Between(all[j], t, u) PROVE j = i
    <3>1. PICK x, l : x = Round(j) /\ l = Index(j)
      OBVIOUS
    <3>2. x \in 0..(m - 2) /\ l \in 0..(h - 1) /\ j = x * h + l + 1
      BY <1>11, <3>1
    <3>3. {circle[Source(l + 1, x, m)], circle[Source(m - l, x, m)]} = {t, u}
      BY <1>14, <2>9, <3>1 DEF Between
    <3>4. l + 1 \in 1..m /\ m - l \in 1..m
      BY <1>6, <3>2
    <3>5. /\ Source(l + 1, x, m) \in 1..m /\ Source(m - l, x, m) \in 1..m
          /\ Place(Source(l + 1, x, m), x, m) = l + 1 /\ Place(Source(m - l, x, m), x, m) = m - l
      BY <1>20, <3>2, <3>4
    <3>6. \/ Source(l + 1, x, m) = t /\ Source(m - l, x, m) = u
          \/ Source(l + 1, x, m) = u /\ Source(m - l, x, m) = t
      <4>1. PICK a \in 1..m, b \in 1..m : a = Source(l + 1, x, m) /\ b = Source(m - l, x, m)
        BY <3>5
      <4>2. {circle[a], circle[b]} = {circle[t], circle[u]}
        BY <2>1, <3>3, <4>1
      <4>3. \A c, d \in 1..m : circle[c] = circle[d] => c = d
        BY <1>3
      <4>4. (circle[a] = circle[t] /\ circle[b] = circle[u])
            \/ (circle[a] = circle[u] /\ circle[b] = circle[t])
        BY <4>2
      <4> QED BY <2>1, <4>1, <4>3, <4>4
    <3>7. \/ Place(t, x, m) = l + 1 /\ Place(u, x, m) = m - l
          \/ Place(u, x, m) = l + 1 /\ Place(t, x, m) = m - l
      BY <3>5, <3>6
    <3>8. x = r
      <4>1. Place(t, x, m) + Place(u, x, m) = m + 1
        BY <3>2, <3>7
      <4> QED BY <2>3, <3>2, <4>1 DEF Meet
    <3>9. l = k
      <4>1. (p = l + 1 /\ q = m - l) \/ (q = l + 1 /\ p = m - l)
        BY <2>4, <3>7, <3>8
      <4> QED BY <1>6, <2>6, <3>2, <4>1
    <3>10. i = r * h + k + 1
      BY <1>11, <2>7
    <3> QED BY <3>2, <3>8, <3>9, <3>10
  <2> QED BY <2>7, <2>8, <2>9 DEF MeetsOnce
<1>18. ASSUME NEW i \in DOMAIN all PROVE all[i].round \in 1..(m - 1)
  <2>1. PICK r, k : r = Round(i) /\ k = Index(i)
    OBVIOUS
  <2> QED BY <1>11, <1>14, <2>1
<1> QED BY <1>2, <1>3, <1>8, <1>16, <1>17, <1>18

-----------------------------------------------------------------------------
USE DEF NoTeam

\* A pairing with a bye.
Free(p) == NoTeam \in {p.home, p.away}

\* s lists the pairings of all that have two teams, each once.
Lists(s, all, N, e) ==
  /\ e \in [DOMAIN s -> 1..N]
  /\ \A j, k \in DOMAIN s : j # k => e[j] # e[k]
  /\ \A j \in DOMAIN s : s[j] = all[e[j]]
  /\ \A i \in 1..N : ~Free(all[i]) => \E j \in DOMAIN s : e[j] = i

LEMMA KeptLists ==
  ASSUME NEW V, NEW all, NEW N \in Nat, all \in [1..N -> Pairings(V)],
         NEW kept, Kept(V, all, N, kept)
  PROVE  \E e : Lists(kept[N], all, N, e)
<1> DEFINE Listed == {i \in Nat : i <= N => \E e : Lists(kept[i], all, i, e)}
<1>1. 0 \in Listed
  <2>1. kept[0] = <<>> /\ DOMAIN kept[0] = {}
    BY DEF Kept
  <2>2. Lists(kept[0], all, 0, <<>>)
    BY <2>1 DEF Lists
  <2> QED BY <2>2
<1>2. ASSUME NEW i \in Nat, i \in Listed PROVE i + 1 \in Listed
  <2>1. SUFFICES ASSUME i + 1 <= N PROVE \E e : Lists(kept[i + 1], all, i + 1, e)
    OBVIOUS
  <2>2. PICK e : Lists(kept[i], all, i, e)
    BY <1>2, <2>1
  <2>3. i + 1 \in 1..N /\ (i + 1) - 1 = i /\ i \in 0..N
    BY <2>1
  <2>4. PICK s, x : s = kept[i] /\ x = all[i + 1]
    OBVIOUS
  <2>5. s \in Seq(Pairings(V)) /\ x \in Pairings(V)
    BY <2>3, <2>4 DEF Kept
  <2>6. PICK L \in Nat : L = Len(s) /\ DOMAIN s = 1..L
    BY <2>5, LenProperties
  <2>7. kept[i + 1] = IF Free(x) THEN s ELSE Append(s, x)
    BY <2>3, <2>4 DEF Kept, Free
  <2>8. CASE Free(x)
    <3>1. e \in [DOMAIN s -> 1..(i + 1)]
      BY <2>2, <2>4 DEF Lists
    <3>2. \A k \in 1..(i + 1) : ~Free(all[k]) => \E j \in DOMAIN s : e[j] = k
      <4>1. \A k \in 1..(i + 1) : k = i + 1 \/ k \in 1..i
        OBVIOUS
      <4> QED BY <2>2, <2>4, <2>8, <4>1 DEF Lists
    <3>3. Lists(s, all, i + 1, e)
      BY <2>2, <2>4, <3>1, <3>2 DEF Lists
    <3> QED BY <2>7, <2>8, <3>3
  <2>9. CASE ~Free(x)
    <3>1. PICK t : t = Append(s, x)
      OBVIOUS
    <3>2. DOMAIN t = 1..(L + 1) /\ t[L + 1] = x /\ \A j \in 1..L : t[j] = s[j]
      <4>1. t \in Seq(Pairings(V)) /\ Len(t) = L + 1 /\ t[L + 1] = x /\ \A j \in 1..L : t[j] = s[j]
        BY <2>5, <2>6, <3>1, AppendProperties
      <4> QED BY <4>1, LenProperties
    <3>3. PICK d : d = [j \in 1..(L + 1) |-> IF j = L + 1 THEN i + 1 ELSE e[j]]
      OBVIOUS
    <3>4. /\ \A j \in 1..L : e[j] \in 1..i /\ d[j] = e[j] /\ d[j] # i + 1
          /\ d[L + 1] = i + 1 /\ d \in [1..(L + 1) -> 1..(i + 1)]
      <4>1. e \in [1..L -> 1..i]
        BY <2>2, <2>4, <2>6 DEF Lists
      <4>2. \A j \in 1..L : e[j] \in 1..i /\ j # L + 1 /\ j \in 1..(L + 1)
        BY <4>1
      <4>3. \A j \in 1..i : j # i + 1 /\ j \in 1..(i + 1)
        OBVIOUS
      <4>4. i + 1 \in 1..(i + 1) /\ L + 1 \in 1..(L + 1)
        OBVIOUS
      <4> QED BY <3>3, <4>2, <4>3, <4>4
    <3>5. \A j, k \in 1..(L + 1) : j # k => d[j] # d[k]
      <4>1. \A j \in 1..(L + 1) : j = L + 1 \/ j \in 1..L
        OBVIOUS
      <4>2. \A j, k \in 1..L : j # k => e[j] # e[k]
        BY <2>2, <2>4, <2>6 DEF Lists
      <4> QED BY <3>4, <4>1, <4>2
    <3>6. \A j \in 1..(L + 1) : t[j] = all[d[j]]
      <4>1. \A j \in 1..(L + 1) : j = L + 1 \/ j \in 1..L
        OBVIOUS
      <4>2. \A j \in 1..L : s[j] = all[e[j]]
        BY <2>2, <2>4, <2>6 DEF Lists
      <4> QED BY <2>4, <3>2, <3>4, <4>1, <4>2
    <3>7. ASSUME NEW k \in 1..(i + 1), ~Free(all[k])
          PROVE  \E j \in 1..(L + 1) : d[j] = k
      <4>1. CASE k = i + 1
        BY <3>4, <4>1
      <4>2. CASE k # i + 1
        <5>1. k \in 1..i
          BY <4>2
        <5>2. PICK j \in 1..L : e[j] = k
          BY <2>2, <2>4, <2>6, <3>7, <5>1 DEF Lists
        <5> QED BY <3>4, <5>2
      <4> QED BY <4>1, <4>2
    <3>8. Lists(t, all, i + 1, d)
      BY <3>2, <3>4, <3>5, <3>6, <3>7 DEF Lists
    <3> QED BY <2>7, <2>9, <3>1, <3>8
  <2> QED BY <2>8, <2>9
<1>3. \A i \in Nat : i \in Listed
  <2> HIDE DEF Listed
  <2> QED BY <1>1, <1>2, Induction
<1> QED BY <1>3

\* Leaving out who is free takes no game away.
LEMMA FirstLegMeets ==
  ASSUME NEW n \in Nat, n >= 2
  PROVE  LET first == FirstLeg(Entrants(n)) IN
         /\ OneGameARound(first)
         /\ \A t, u \in 1..n : t # u => MeetsOnce(first, t, u)
         /\ \A i \in DOMAIN first : first[i].round \in 1..(Len(WithBye(Entrants(n))) - 1)
<1>1. PICK all, rounds : all = AllPairings(Entrants(n)) /\ rounds = Len(WithBye(Entrants(n))) - 1
  OBVIOUS
<1>2. PICK N \in Nat : all \in [1..N -> Pairings(0..n)]
  BY <1>1, FirstLegType
<1>3. PICK kept : WithoutByes(all) = kept[N] /\ Kept(0..n, all, N, kept)
  BY <1>2, WithoutByesUnfolds
<1>4. PICK first : first = FirstLeg(Entrants(n))
  OBVIOUS
<1>5. PICK e : Lists(first, all, N, e)
  <2>1. first = kept[N]
    BY <1>1, <1>3, <1>4 DEF FirstLeg
  <2> QED BY <1>2, <1>3, <2>1, KeptLists
<1>6. /\ OneGameARound(all) /\ \A t, u \in 1..n : t # u => MeetsOnce(all, t, u)
      /\ \A i \in DOMAIN all : all[i].round \in 1..rounds
  BY <1>1, AllPairingsMeet
<1>7. DOMAIN all = 1..N
  BY <1>2
<1>8. OneGameARound(first)
  BY <1>5, <1>6, <1>7 DEF OneGameARound, Lists
<1>9. ASSUME NEW t \in 1..n, NEW u \in 1..n, t # u PROVE MeetsOnce(first, t, u)
  <2>1. PICK i \in 1..N : \A j \in 1..N : Between(all[j], t, u) <=> j = i
    <3>1. MeetsOnce(all, t, u)
      BY <1>6, <1>9
    <3>2. PICK i \in DOMAIN all : \A j \in DOMAIN all : Between(all[j], t, u) <=> j = i
      BY <3>1 DEF MeetsOnce
    <3>3. i \in 1..N
      BY <1>7
    <3>4. \A j \in 1..N : Between(all[j], t, u) <=> j = i
      <4>1. SUFFICES ASSUME NEW j \in 1..N PROVE Between(all[j], t, u) <=> j = i
        OBVIOUS
      <4>2. j \in DOMAIN all
        BY <1>7
      <4> QED BY <3>2, <4>2, Zenon
    <3> QED BY <3>3, <3>4, Zenon
  <2>2. ~Free(all[i])
    <3>1. Between(all[i], t, u)
      BY <2>1
    <3> QED BY <3>1 DEF Between, Free
  <2>3. PICK j \in DOMAIN first : e[j] = i
    BY <1>5, <2>2 DEF Lists
  <2>4. \A k \in DOMAIN first : first[k] = all[e[k]] /\ e[k] \in 1..N /\ (k # j => e[k] # i)
    BY <1>5, <2>3 DEF Lists
  <2>5. \A k \in DOMAIN first : Between(first[k], t, u) <=> k = j
    BY <2>1, <2>3, <2>4
  <2> QED BY <2>5 DEF MeetsOnce
<1>10. \A i \in DOMAIN first : first[i].round \in 1..rounds
  BY <1>5, <1>6, <1>7 DEF Lists
<1> QED BY <1>1, <1>4, <1>8, <1>9, <1>10

HostsOnce(s, t, u) ==
  \E i \in DOMAIN s : \A j \in DOMAIN s : (s[j].home = t /\ s[j].away = u) <=> j = i

\* Every two teams meet once, or once at the home of each.
LEMMA RoundRobinMeets ==
  ASSUME NEW n \in Nat, n >= 2, NEW double \in BOOLEAN
  PROVE  LET s == RoundRobin(Entrants(n), double) IN
         /\ OneGameARound(s)
         /\ \A t, u \in 1..n : t # u => IF double THEN HostsOnce(s, t, u) ELSE MeetsOnce(s, t, u)
         /\ \A i \in DOMAIN s : s[i].round >= 1
<1>1. PICK first : first = FirstLeg(Entrants(n)) /\ first \in Seq(Pairs(n))
  BY FirstLegType
<1>2. PICK rounds \in Int : rounds = Len(WithBye(Entrants(n))) - 1 /\ rounds >= 0
  <2>1. PICK m \in Nat : m >= n /\ WithBye(Entrants(n)) \in Circles(0..n, m)
    BY ByeCircle
  <2> QED BY <2>1 DEF Circles
<1>3. PICK L \in Nat : L = Len(first) /\ DOMAIN first = 1..L /\ \A i \in 1..L : first[i] \in Pairs(n)
  BY <1>1, LenProperties, ElementOfSeq
<1>4. PICK second : second = [i \in DOMAIN first |->
                                [round |-> first[i].round + rounds, home |-> first[i].away,
                                 away |-> first[i].home]]
  OBVIOUS
<1>5. RoundRobin(Entrants(n), double) = IF double THEN first \o second ELSE first
  BY <1>1, <1>2, <1>4 DEF RoundRobin
<1>6. /\ OneGameARound(first) /\ \A t, u \in 1..n : t # u => MeetsOnce(first, t, u)
      /\ \A i \in DOMAIN first : first[i].round \in 1..rounds
  BY <1>1, <1>2, FirstLegMeets
<1>7. CASE ~double
  <2>1. RoundRobin(Entrants(n), double) = first
    BY <1>5, <1>7
  <2>2. \A i \in DOMAIN first : first[i].round >= 1
    BY <1>6
  <2> QED BY <1>6, <1>7, <2>1, <2>2
<1>8. CASE double
  <2>1. PICK s : s = first \o second
    OBVIOUS
  <2>2. /\ DOMAIN s = 1..(L + L)
        /\ \A i \in 1..L : s[i] = first[i] /\ s[L + i] = second[i]
        /\ \A j \in 1..(L + L) : j \in 1..L \/ \E i \in 1..L : j = L + i
    <3>1. DOMAIN second = 1..L /\ Len(second) = L /\ second \in Seq(Pairs(n))
      <4>1. second \in Seq(Pairs(n))
        <5>1. ASSUME NEW i \in 1..L
              PROVE  [round |-> first[i].round + rounds, home |-> first[i].away,
                      away |-> first[i].home] \in Pairs(n)
          <6>1. first[i] \in Pairs(n)
            BY <1>3
          <6> QED BY <1>2, <6>1 DEF Pairs, Pairings
        <5>2. second \in [1..L -> Pairs(n)]
          BY <1>3, <1>4, <5>1
        <5> QED BY <5>2, SeqDef
      <4>2. DOMAIN second = 1..L
        BY <1>3, <1>4
      <4>3. Len(second) \in Nat /\ DOMAIN second = 1..Len(second)
        BY <4>1, LenProperties
      <4>4. Len(second) = L
        BY <4>2, <4>3
      <4> QED BY <4>1, <4>2, <4>4
    <3>2. s = [j \in 1..(L + L) |-> IF j <= L THEN first[j] ELSE second[j - L]]
      <4>1. first \in Seq(Pairs(n)) /\ second \in Seq(Pairs(n)) /\ Len(first) = L /\ Len(second) = L
        BY <1>1, <1>3, <3>1
      <4>2. /\ s \in Seq(Pairs(n)) /\ Len(s) = L + L
            /\ \A j \in 1..(L + L) : s[j] = IF j <= L THEN first[j] ELSE second[j - L]
        <5>1. /\ first \o second \in Seq(Pairs(n)) /\ Len(first \o second) = Len(first) + Len(second)
              /\ \A j \in 1..(Len(first) + Len(second)) :
                   (first \o second)[j] = IF j <= Len(first) THEN first[j] ELSE second[j - Len(first)]
          BY <4>1, ConcatProperties
        <5> QED BY <2>1, <4>1, <5>1
      <4>3. s \in [1..(L + L) -> Pairs(n)]
        BY <4>2, LenProperties
      <4> QED BY <4>2, <4>3
    <3>3. ASSUME NEW j \in 1..(L + L), j \notin 1..L PROVE \E i \in 1..L : j = L + i
      <4>1. j - L \in 1..L /\ j = L + (j - L)
        BY <3>3
      <4> QED BY <4>1
    <3>4. ASSUME NEW i \in 1..L PROVE s[i] = first[i] /\ s[L + i] = second[i]
      <4>1. i \in 1..(L + L) /\ L + i \in 1..(L + L) /\ i <= L /\ ~(L + i <= L) /\ (L + i) - L = i
        OBVIOUS
      <4> QED BY <3>2, <4>1
    <3> QED BY <3>2, <3>3, <3>4
  <2>3. ASSUME NEW i \in 1..L
        PROVE  /\ second[i].home = first[i].away /\ second[i].away = first[i].home
               /\ second[i].round = first[i].round + rounds
               /\ first[i].round \in 1..rounds /\ first[i].home # first[i].away
    BY <1>3, <1>4, <1>6 DEF Pairs
  <2>4. \A i, j \in 1..L : i # j /\ first[i].round = first[j].round =>
          {first[i].home, first[i].away} \cap {first[j].home, first[j].away} = {}
    BY <1>3, <1>6 DEF OneGameARound
  <2>5. OneGameARound(s)
    <3>1. SUFFICES ASSUME NEW i \in 1..(L + L), NEW j \in 1..(L + L), i # j, s[i].round = s[j].round
                   PROVE  {s[i].home, s[i].away} \cap {s[j].home, s[j].away} = {}
      BY <2>2 DEF OneGameARound
    <3>2. CASE i \in 1..L /\ j \in 1..L
      BY <2>2, <2>4, <3>1, <3>2
    <3>3. ASSUME NEW a \in 1..L, NEW b \in 1..L
          PROVE  s[a].round # s[L + b].round
      <4>1. PICK x \in 1..rounds, y \in 1..rounds : x = first[a].round /\ y = first[b].round
        BY <2>3
      <4>2. s[a].round = x /\ s[L + b].round = y + rounds
        BY <2>2, <2>3, <4>1
      <4> QED BY <1>2, <4>1, <4>2
    <3>4. ASSUME NEW a \in 1..L, NEW b \in 1..L, i = L + a, j = L + b
          PROVE  {s[i].home, s[i].away} \cap {s[j].home, s[j].away} = {}
      <4>1. a # b /\ second[a].round = second[b].round
        BY <2>2, <3>1, <3>4
      <4>2. first[a].round = first[b].round
        BY <1>2, <2>3, <4>1
      <4>3. {first[a].home, first[a].away} \cap {first[b].home, first[b].away} = {}
        BY <2>4, <4>1, <4>2
      <4> QED BY <2>2, <2>3, <3>4, <4>3
    <3> QED BY <2>2, <3>1, <3>2, <3>3, <3>4
  <2>6. ASSUME NEW t \in 1..n, NEW u \in 1..n, t # u PROVE HostsOnce(s, t, u)
    <3>1. PICK i \in 1..L : \A j \in 1..L : Between(first[j], t, u) <=> j = i
      <4>1. MeetsOnce(first, t, u)
        BY <1>6, <2>6
      <4>2. PICK i \in DOMAIN first : \A j \in DOMAIN first : Between(first[j], t, u) <=> j = i
        BY <4>1 DEF MeetsOnce
      <4>3. i \in 1..L
        BY <1>3
      <4>4. \A j \in 1..L : Between(first[j], t, u) <=> j = i
        <5>1. SUFFICES ASSUME NEW j \in 1..L PROVE Between(first[j], t, u) <=> j = i
          OBVIOUS
        <5>2. j \in DOMAIN first
          BY <1>3
        <5> QED BY <4>2, <5>2, Zenon
      <4> QED BY <4>3, <4>4, Zenon
    <3>2. \A j \in 1..L : (first[j].home = t /\ first[j].away = u)
                            \/ (first[j].home = u /\ first[j].away = t) <=> j = i
      BY <2>3, <2>6, <3>1 DEF Between
    <3>3. CASE first[i].home = t
      <4>1. \A j \in 1..(L + L) : (s[j].home = t /\ s[j].away = u) <=> j = i
        <5>1. ASSUME NEW j \in 1..L PROVE (s[j].home = t /\ s[j].away = u) <=> j = i
          BY <2>2, <2>6, <3>2, <3>3
        <5>2. ASSUME NEW j \in 1..L PROVE ~(s[L + j].home = t /\ s[L + j].away = u) /\ L + j # i
          <6>1. s[L + j] = second[j] /\ second[j].home = first[j].away /\ second[j].away = first[j].home
            BY <2>2, <2>3
          <6>2. s[L + j].home = t /\ s[L + j].away = u => j = i /\ first[i].home = u
            BY <3>2, <6>1
          <6> QED BY <2>6, <3>3, <6>2
        <5> QED BY <2>2, <5>1, <5>2
      <4>2. i \in DOMAIN s
        BY <2>2
      <4>3. \A j \in DOMAIN s : (s[j].home = t /\ s[j].away = u) <=> j = i
        BY <2>2, <4>1
      <4> QED BY <4>2, <4>3, Zenon DEF HostsOnce
    <3>4. CASE first[i].home # t
      <4>1. \A j \in 1..(L + L) : (s[j].home = t /\ s[j].away = u) <=> j = L + i
        <5>1. ASSUME NEW j \in 1..L PROVE ~(s[j].home = t /\ s[j].away = u) /\ j # L + i
          <6>1. s[j] = first[j] /\ j # L + i
            BY <2>2
          <6>2. ~(first[j].home = t /\ first[j].away = u)
            BY <3>2, <3>4
          <6> QED BY <6>1, <6>2
        <5>2. ASSUME NEW j \in 1..L PROVE (s[L + j].home = t /\ s[L + j].away = u) <=> L + j = L + i
          <6>1. s[L + j] = second[j] /\ second[j].home = first[j].away /\ second[j].away = first[j].home
            BY <2>2, <2>3
          <6>2. first[i].home = u /\ first[i].away = t
            BY <3>2, <3>4
          <6>3. s[L + j].home = t /\ s[L + j].away = u <=> j = i
            BY <3>2, <6>1, <6>2
          <6> QED BY <6>3
        <5> QED BY <2>2, <5>1, <5>2
      <4>2. L + i \in DOMAIN s
        BY <2>2
      <4>3. \A j \in DOMAIN s : (s[j].home = t /\ s[j].away = u) <=> j = L + i
        BY <2>2, <4>1
      <4> QED BY <4>2, <4>3, Zenon DEF HostsOnce
    <3> QED BY <3>3, <3>4
  <2>7. \A i \in DOMAIN s : s[i].round >= 1
    <3>1. SUFFICES ASSUME NEW j \in DOMAIN s PROVE s[j].round >= 1
      OBVIOUS
    <3>2. CASE j \in 1..L
      BY <2>2, <2>3, <3>2
    <3>3. ASSUME NEW i \in 1..L, j = L + i PROVE s[j].round >= 1
      <4>1. s[j].round = first[i].round + rounds /\ first[i].round \in 1..rounds
        BY <2>2, <2>3, <3>3
      <4> QED BY <1>2, <4>1
    <3> QED BY <2>2, <3>2, <3>3
  <2> QED BY <1>5, <1>8, <2>1, <2>5, <2>6, <2>7
<1> QED BY <1>7, <1>8

-----------------------------------------------------------------------------
(***************************************************************************)
(* Brackets: the list of slots is a binary tree.                           *)
(***************************************************************************)
LEMMA DivideProduct ==
  ASSUME NEW h \in Nat, h >= 1, NEW q \in Nat
  PROVE  (q * h) \div h = q
<1>1. PICK R \in Nat : R = q + 1
  OBVIOUS
<1>2. /\ \A i \in 1..(R * h) : i = ((i - 1) \div h) * h + ((i - 1) % h) + 1
      /\ \A r \in 0..(R - 1), k \in 0..(h - 1) :
           \E i \in 1..(R * h) : (i - 1) \div h = r /\ (i - 1) % h = k
  BY Cells
<1>3. PICK i \in 1..(R * h) : (i - 1) \div h = q /\ (i - 1) % h = 0
  <2>1. q \in 0..(R - 1) /\ 0 \in 0..(h - 1)
    BY <1>1
  <2> QED BY <1>2, <2>1
<1>4. i = q * h + 0 + 1
  BY <1>2, <1>3
<1>5. i - 1 = q * h
  <2>1. q * h \in Nat
    OBVIOUS
  <2> QED BY <1>4, <2>1
<1> QED BY <1>3, <1>5

LEMMA PowerMonotone ==
  \A a, b \in Nat : a <= b => Power[a] <= Power[b]
<1>1. SUFFICES ASSUME NEW a \in Nat PROVE \A b \in Nat : a <= b => Power[a] <= Power[b]
  OBVIOUS
<1> DEFINE Above == {b \in Nat : a <= b => Power[a] <= Power[b]}
<1>2. 0 \in Above
  <2>1. a <= 0 => a = 0
    OBVIOUS
  <2>2. Power[0] <= Power[0]
    BY PowerUnfolds
  <2> QED BY <2>1, <2>2
<1>3. ASSUME NEW b \in Nat, b \in Above PROVE b + 1 \in Above
  <2>1. /\ Power[b] \in Nat \ {0} /\ Power[b + 1] = 2 * Power[b] /\ Power[a] \in Nat
    BY PowerUnfolds
  <2>2. CASE a <= b
    BY <1>3, <2>1, <2>2
  <2>3. CASE ~(a <= b)
    <3>1. a <= b + 1 => a = b + 1
      BY <2>3
    <3> QED BY <2>1, <3>1
  <2> QED BY <2>2, <2>3
<1>4. \A b \in Nat : b \in Above
  <2> HIDE DEF Above
  <2> QED BY <1>2, <1>3, Induction
<1> QED BY <1>4

LEMMA PowerDivides ==
  ASSUME NEW k \in Nat, NEW a \in 0..k
  PROVE  Power[k] \div Power[a] = Power[k - a]
<1> DEFINE Splits == {b \in Nat : b <= k => Power[k] = Power[k - b] * Power[b]}
<1>1. 0 \in Splits
  <2>1. k - 0 = k /\ Power[0] = 1 /\ Power[k] \in Nat
    BY PowerUnfolds
  <2>2. Power[k - 0] * Power[0] = Power[k]
    BY <2>1
  <2> QED BY <2>2
<1>2. ASSUME NEW b \in Nat, b \in Splits PROVE b + 1 \in Splits
  <2>1. SUFFICES ASSUME b + 1 <= k PROVE Power[k] = Power[k - (b + 1)] * Power[b + 1]
    OBVIOUS
  <2>2. PICK c \in Nat : c = k - (b + 1) /\ k - b = c + 1
    BY <2>1
  <2>3. Power[k] = Power[k - b] * Power[b]
    BY <1>2, <2>1
  <2>4. PICK x \in Nat, y \in Nat : x = Power[c] /\ y = Power[b]
    BY PowerUnfolds
  <2>5. Power[c + 1] = 2 * x /\ Power[b + 1] = 2 * y
    BY <2>4, PowerUnfolds
  <2>6. (2 * x) * y = x * (2 * y)
    OBVIOUS
  <2> QED BY <2>2, <2>3, <2>4, <2>5, <2>6
<1>3. \A b \in Nat : b \in Splits
  <2> HIDE DEF Splits
  <2> QED BY <1>1, <1>2, Induction
<1>4. a \in Nat /\ a <= k /\ k - a \in Nat
  OBVIOUS
<1>5. Power[k] = Power[k - a] * Power[a]
  BY <1>3, <1>4
<1>6. PICK h \in Nat, q \in Nat : h = Power[a] /\ q = Power[k - a] /\ h >= 1
  BY <1>4, PowerUnfolds
<1>7. (q * h) \div h = q
  BY <1>6, DivideProduct
<1> QED BY <1>5, <1>6, <1>7

\* The quotient by something larger is at most one.
LEMMA DivideByLarger ==
  ASSUME NEW a \in Nat, NEW b \in Nat, b >= 1, b >= a
  PROVE  a \div b \in Nat /\ a \div b <= 1
<1>1. PICK d \in Nat : d = a \div b /\ a = b * d + (a % b) /\ a % b \in 0..(b - 1)
  BY Division
<1>2. ~(d >= 2)
  <2>1. SUFFICES ASSUME d >= 2 PROVE FALSE
    OBVIOUS
  <2>2. PICK c \in Nat : d = c + 2
    <3>1. d - 2 \in Nat /\ d = (d - 2) + 2
      BY <2>1
    <3> QED BY <3>1
  <2>3. b * (c + 2) = b * c + 2 * b /\ b * c \in Nat
    OBVIOUS
  <2> QED BY <1>1, <2>2, <2>3
<1> QED BY <1>1, <1>2

-----------------------------------------------------------------------------
\* The slots of a tree of depth k for n teams: in round r there are Power[k - r] of them.
Tree(slots, k) ==
  /\ \A i \in DOMAIN slots : /\ slots[i].round \in 1..k
                             /\ slots[i].slot \in 0..(Power[k - slots[i].round] - 1)
  /\ \A i, j \in DOMAIN slots :
       slots[i].round = slots[j].round /\ slots[i].slot = slots[j].slot => i = j
  /\ \A r \in 1..k : \A s \in 0..(Power[k - r] - 1) :
       \E i \in DOMAIN slots : slots[i].round = r /\ slots[i].slot = s

Seeded(slots, n, k) ==
  \A i \in DOMAIN slots :
    /\ slots[i].home = IF slots[i].round = 1 /\ slots[i].slot + 1 <= n
                       THEN slots[i].slot + 1 ELSE NoTeam
    /\ slots[i].away = IF slots[i].round = 1 /\ Power[k] - slots[i].slot <= n
                       THEN Power[k] - slots[i].slot ELSE NoTeam

LEMMA BracketTree ==
  ASSUME NEW n \in Nat, n >= 2
  PROVE  \E k \in 1..n : /\ Power[k] >= n /\ Power[k] < 2 * n
                         /\ Tree(SingleElimination(Entrants(n)), k)
                         /\ Seeded(SingleElimination(Entrants(n)), n, k)
<1> DEFINE teams     == Entrants(n)
           size      == BracketSize(Len(teams))
           before(r) == size - size \div Power[r - 1]
           round(i)  == CHOOSE r \in 1..size : before(r) < i /\ i <= before(r + 1)
           home(r, s) == IF r = 1 THEN Seed(teams, s + 1) ELSE NoTeam
           away(r, s) == IF r = 1 THEN Opponent(teams, size, s) ELSE NoTeam
           game(r, s) == [round |-> r, slot |-> s, home |-> home(r, s), away |-> away(r, s)]
<1>1. SingleElimination(teams) = [i \in 1..(size - 1) |-> game(round(i), i - before(round(i)) - 1)]
  BY DEF SingleElimination
<1>2. Len(teams) = n /\ DOMAIN teams = 1..n /\ \A t \in 1..n : teams[t] = t
  BY EntrantsLength DEF Entrants
<1>3. size >= n /\ size < 2 * n /\ \E k \in 1..n : size = Power[k]
  BY <1>2, BracketSizes
<1>4. PICK k \in 1..n : size = Power[k]
  BY <1>3
<1>5. k \in Nat /\ size \in Nat /\ size > k /\ size >= 1
  <2>1. k \in Nat
    OBVIOUS
  <2>2. Power[k] \in Nat /\ Power[k] >= 1
    BY <2>1, PowerUnfolds
  <2>3. Power[k] > k
    BY <2>1, PowerExceeds
  <2> HIDE DEF size
  <2> QED BY <1>4, <2>1, <2>2, <2>3
<1>6. \A b \in Nat : Power[b] \in Nat /\ Power[b] >= 1
  BY PowerUnfolds
<1>7. ASSUME NEW r \in 1..(k + 1)
      PROVE  before(r) = size - Power[k + 1 - r]
  <2>1. r - 1 \in 0..k /\ k - (r - 1) = k + 1 - r
    OBVIOUS
  <2>2. Power[k] \div Power[r - 1] = Power[k - (r - 1)]
    BY <1>5, <2>1, PowerDivides
  <2> QED BY <1>4, <2>1, <2>2
<1>8. ASSUME NEW r \in Nat, r >= k + 1 PROVE before(r) \in Int /\ before(r) >= size - 1
  <2>1. r - 1 \in Nat /\ k <= r - 1
    BY <1>5, <1>8
  <2>2. Power[r - 1] >= size /\ Power[r - 1] \in Nat
    BY <1>4, <1>5, <1>6, <2>1, PowerMonotone
  <2>3. size \div Power[r - 1] \in Nat /\ size \div Power[r - 1] <= 1
    <3>1. PICK a \in Nat, b \in Nat : a = size /\ b = Power[r - 1] /\ b >= 1 /\ b >= a
      BY <1>5, <1>6, <2>1, <2>2
    <3>2. a \div b \in Nat /\ a \div b <= 1
      BY <3>1, DivideByLarger
    <3> QED BY <3>1, <3>2
  <2>4. PICK d \in Nat : d = size \div Power[r - 1] /\ d <= 1
    BY <2>3
  <2>5. before(r) = size - d
    BY <2>4
  <2> HIDE DEF before
  <2> QED BY <1>5, <2>4, <2>5
<1> DEFINE In(i, r) == before(r) < i /\ i <= before(r + 1)
<1> HIDE DEF size, before
\* Round r begins after half, three quarters, ... of the games.
<1>9. ASSUME NEW r \in 1..k
      PROVE  \E w \in Nat : /\ w = Power[k - r] /\ w >= 1
                            /\ before(r) = size - 2 * w /\ before(r + 1) = size - w
  <2>1. r \in 1..(k + 1) /\ r + 1 \in 1..(k + 1) /\ k - r \in Nat
        /\ k + 1 - r = (k - r) + 1 /\ k + 1 - (r + 1) = k - r
    BY <1>5
  <2>2. before(r) = size - Power[(k - r) + 1] /\ before(r + 1) = size - Power[k - r]
    <3>1. before(r) = size - Power[k + 1 - r]
      BY <1>7, <2>1
    <3>2. before(r + 1) = size - Power[k + 1 - (r + 1)]
      BY <1>7, <2>1
    <3> QED BY <2>1, <3>1, <3>2
  <2>3. Power[(k - r) + 1] = 2 * Power[k - r] /\ Power[k - r] \in Nat /\ Power[k - r] >= 1
    BY <1>6, <2>1, PowerUnfolds
  <2> QED BY <2>2, <2>3
<1>10. ASSUME NEW i \in 1..(size - 1), NEW r \in 1..size, In(i, r)
       PROVE  r \in 1..k
  <2>1. r \in Nat /\ r >= 1
    BY <1>5
  <2>2. ~(r >= k + 1)
    <3>1. SUFFICES ASSUME r >= k + 1 PROVE FALSE
      OBVIOUS
    <3>2. before(r) \in Int /\ before(r) >= size - 1
      BY <1>8, <2>1, <3>1
    <3> QED BY <1>5, <1>10, <3>2
  <2> QED BY <1>5, <2>1, <2>2
<1>11. ASSUME NEW i \in Int, NEW r \in 1..k, NEW q \in 1..k, In(i, r), In(i, q), q < r
       PROVE  FALSE
  <2>1. PICK w \in Nat : w = Power[k - r] /\ before(r) = size - 2 * w
    BY <1>9
  <2>2. PICK v \in Nat : v = Power[k - q] /\ before(q + 1) = size - v
    BY <1>9
  <2>3. v >= 2 * w
    <3>1. (k - r) + 1 \in Nat /\ k - q \in Nat /\ (k - r) + 1 <= k - q /\ k - r \in Nat
      BY <1>5, <1>11
    <3>2. Power[(k - r) + 1] <= Power[k - q] /\ Power[(k - r) + 1] = 2 * Power[k - r]
      BY <3>1, PowerMonotone, PowerUnfolds
    <3> QED BY <2>1, <2>2, <3>2
  <2>4. size - 2 * w < i /\ i <= size - v
    BY <1>11, <2>1, <2>2
  <2> QED BY <1>5, <2>3, <2>4
<1>12. ASSUME NEW i \in 1..(size - 1), NEW r \in 1..k, In(i, r)
       PROVE  round(i) = r
  <2>1. r \in 1..size
    BY <1>5
  <2>2. PICK q : q = round(i) /\ q \in 1..size /\ In(i, q)
    <3>1. \E x \in 1..size : before(x) < i /\ i <= before(x + 1)
      BY <1>12, <2>1
    <3>2. round(i) \in 1..size /\ before(round(i)) < i /\ i <= before(round(i) + 1)
      BY <3>1
    <3> HIDE DEF round
    <3> QED BY <3>2
  <2>3. q \in 1..k
    BY <1>10, <2>2
  <2>4. i \in Int /\ ~(q < r) /\ ~(r < q)
    <3>1. i \in Int
      OBVIOUS
    <3> QED BY <1>11, <1>12, <2>2, <2>3, <3>1
  <2> HIDE DEF round
  <2> QED BY <1>5, <2>2, <2>3, <2>4
<1>13. ASSUME NEW i \in 1..(size - 1) PROVE \E r \in 1..k : In(i, r)
  <2> DEFINE Reached == {r \in Nat : r \in 1..k /\ i <= before(r + 1)}
  <2>1. k \in Reached
    <3>1. PICK w \in Nat : w = Power[k - k] /\ before(k + 1) = size - w
      BY <1>5, <1>9
    <3>2. k - k = 0 /\ Power[0] = 1
      BY <1>5, PowerUnfolds
    <3> QED BY <1>5, <3>1, <3>2
  <2>2. PICK r \in Reached : \A q \in Reached : r <= q
    <3>1. Reached \in SUBSET Nat /\ Reached # {}
      BY <2>1
    <3> HIDE DEF Reached
    <3> QED BY <3>1, LeastNumber
  <2>3. r \in 1..k /\ i <= before(r + 1)
    BY <2>2
  <2>4. before(r) < i
    <3>1. CASE r = 1
      <4>1. PICK w \in Nat : w = Power[k - 1] /\ before(1) = size - 2 * w
        BY <1>9, <2>3, <3>1
      <4>2. (k - 1) + 1 = k /\ k - 1 \in Nat /\ Power[(k - 1) + 1] = 2 * Power[k - 1]
        BY PowerUnfolds
      <4>3. before(1) = 0
        BY <1>4, <1>5, <4>1, <4>2
      <4> QED BY <3>1, <4>3
    <3>2. CASE r # 1
      <4>1. r - 1 \in 1..k /\ (r - 1) + 1 = r /\ r - 1 \notin Reached
        BY <1>5, <2>2, <2>3, <3>2
      <4>2. ~(i <= before(r))
        BY <4>1
      <4>3. before(r) \in Int
        <5>1. PICK w \in Nat : before(r) = size - 2 * w
          BY <1>9, <2>3
        <5> QED BY <1>5, <5>1
      <4> QED BY <4>2, <4>3
    <3> QED BY <3>1, <3>2
  <2> QED BY <2>3, <2>4
<1> DEFINE slot(i) == i - before(round(i)) - 1
<1> HIDE DEF round, home, away
\* The place of a game in its round, and the game of a place.
<1>14. ASSUME NEW i \in 1..(size - 1)
       PROVE  /\ round(i) \in 1..k /\ slot(i) \in 0..(Power[k - round(i)] - 1)
              /\ i = before(round(i)) + slot(i) + 1
  <2>1. PICK r \in 1..k : In(i, r)
    BY <1>13
  <2>2. round(i) = r
    BY <1>12, <2>1
  <2>3. PICK w \in Nat : w = Power[k - r] /\ before(r) = size - 2 * w /\ before(r + 1) = size - w
    BY <1>9
  <2>4. slot(i) = i - (size - 2 * w) - 1
    BY <2>2, <2>3
  <2>5. size - 2 * w < i /\ i <= size - w
    BY <2>1, <2>3
  <2>6. slot(i) \in 0..(w - 1) /\ i = (size - 2 * w) + slot(i) + 1
    <3> HIDE DEF slot
    <3> QED BY <1>5, <2>4, <2>5
  <2> HIDE DEF slot
  <2> QED BY <2>2, <2>3, <2>6
<1>15. ASSUME NEW r \in 1..k, NEW s \in 0..(Power[k - r] - 1)
       PROVE  \E i \in 1..(size - 1) : round(i) = r /\ slot(i) = s
  <2>1. PICK w \in Nat : w = Power[k - r] /\ w >= 1
                         /\ before(r) = size - 2 * w /\ before(r + 1) = size - w
    BY <1>9
  <2>2. 2 * w <= size
    <3>1. (k - r) + 1 \in Nat /\ (k - r) + 1 <= k /\ k - r \in Nat
      BY <1>5
    <3>2. Power[(k - r) + 1] <= Power[k] /\ Power[(k - r) + 1] = 2 * Power[k - r]
      BY <1>5, <3>1, PowerMonotone, PowerUnfolds
    <3> QED BY <1>4, <2>1, <3>2
  <2>3. PICK i \in 1..(size - 1) : i = before(r) + s + 1
    <3>1. before(r) + s + 1 \in 1..(size - 1)
      BY <1>5, <2>1, <2>2
    <3> QED BY <3>1
  <2>4. In(i, r)
    BY <1>5, <2>1, <2>3
  <2>5. round(i) = r
    BY <1>12, <2>4
  <2>6. slot(i) = s
    BY <1>5, <2>1, <2>3, <2>5
  <2> HIDE DEF slot
  <2> QED BY <2>5, <2>6
<1>16. PICK slots : slots = SingleElimination(teams)
  OBVIOUS
<1>17. /\ DOMAIN slots = 1..(size - 1)
       /\ \A i \in 1..(size - 1) : /\ slots[i].round = round(i) /\ slots[i].slot = slot(i)
                                   /\ slots[i].home = home(round(i), slot(i))
                                   /\ slots[i].away = away(round(i), slot(i))
  BY <1>1, <1>16
<1> HIDE DEF slot
<1>18. Tree(slots, k)
  <2>1. \A i \in DOMAIN slots : /\ slots[i].round \in 1..k
                                /\ slots[i].slot \in 0..(Power[k - slots[i].round] - 1)
    BY <1>14, <1>17
  <2>2. ASSUME NEW i \in DOMAIN slots, NEW j \in DOMAIN slots,
               slots[i].round = slots[j].round, slots[i].slot = slots[j].slot
        PROVE  i = j
    <3>1. i = before(round(i)) + slot(i) + 1 /\ j = before(round(j)) + slot(j) + 1
      BY <1>14, <1>17
    <3>2. round(i) = round(j) /\ slot(i) = slot(j)
      BY <1>17, <2>2
    <3> QED BY <3>1, <3>2
  <2>3. ASSUME NEW r \in 1..k, NEW s \in 0..(Power[k - r] - 1)
        PROVE  \E i \in DOMAIN slots : slots[i].round = r /\ slots[i].slot = s
    <3>1. PICK i \in 1..(size - 1) : round(i) = r /\ slot(i) = s
      BY <1>15
    <3>2. i \in DOMAIN slots /\ slots[i].round = r /\ slots[i].slot = s
      BY <1>17, <3>1
    <3> QED BY <3>2
  <2> QED BY <2>1, <2>2, <2>3 DEF Tree
<1>19. Seeded(slots, n, k)
  <2>1. ASSUME NEW i \in DOMAIN slots
        PROVE  /\ slots[i].home = IF slots[i].round = 1 /\ slots[i].slot + 1 <= n
                                  THEN slots[i].slot + 1 ELSE NoTeam
               /\ slots[i].away = IF slots[i].round = 1 /\ Power[k] - slots[i].slot <= n
                                  THEN Power[k] - slots[i].slot ELSE NoTeam
    <3>1. PICK r, s : r = round(i) /\ s = slot(i)
      OBVIOUS
    <3>2. r \in 1..k /\ s \in 0..(Power[k - r] - 1) /\ s \in Nat
      BY <1>14, <1>17, <3>1
    <3>3. slots[i].round = r /\ slots[i].slot = s /\ slots[i].home = home(r, s) /\ slots[i].away = away(r, s)
      BY <1>17, <3>1
    <3>4. home(r, s) = IF r = 1 /\ s + 1 <= n THEN s + 1 ELSE NoTeam
      <4>1. s + 1 \in 1..n <=> s + 1 <= n
        BY <3>2
      <4> QED BY <1>2, <4>1 DEF home, Seed
    <3>5. away(r, s) = IF r = 1 /\ size - s <= n THEN size - s ELSE NoTeam
      <4>1. r = 1 => (size - s \in 1..n <=> size - s <= n)
        <5>1. SUFFICES ASSUME r = 1 PROVE size - s >= 1
          BY <1>5, <3>2
        <5>2. (k - 1) + 1 = k /\ k - 1 \in Nat
          OBVIOUS
        <5>3. Power[k - 1] \in Nat /\ Power[(k - 1) + 1] = 2 * Power[k - 1]
          BY <5>2, PowerUnfolds
        <5>4. s <= Power[k - 1] - 1 /\ size = 2 * Power[k - 1]
          BY <1>4, <3>2, <5>1, <5>2, <5>3
        <5> QED BY <1>5, <3>2, <5>3, <5>4
      <4> QED BY <1>2, <4>1 DEF away, Seed, Opponent
    <3> QED BY <1>4, <3>3, <3>4, <3>5
  <2> QED BY <2>1 DEF Seeded
<1> QED BY <1>3, <1>4, <1>16, <1>18, <1>19

\* In a tree every slot but the last feeds one slot, and all but the first are fed by two.
LEMMA TreeFeeds ==
  ASSUME NEW slots, NEW k \in Nat, k >= 1, Tree(slots, k)
  PROVE  /\ \A i \in DOMAIN slots : slots[i].round # k => \E j \in DOMAIN slots : Feeds(slots[i], slots[j])
         /\ \A i, j \in DOMAIN slots : Feeds(slots[i], slots[j]) => slots[i].round # k
         /\ \A i, j, x \in DOMAIN slots : Feeds(slots[i], slots[j]) /\ Feeds(slots[i], slots[x]) => j = x
         /\ \E f \in DOMAIN slots : \A i \in DOMAIN slots : slots[i].round = k <=> i = f
         /\ \A j \in DOMAIN slots : slots[j].round # 1 =>
              \E x, y \in DOMAIN slots :
                /\ slots[x].slot % 2 = 0 /\ slots[y].slot % 2 # 0
                /\ \A i \in DOMAIN slots : Feeds(slots[i], slots[j]) <=> i = x \/ i = y
<1>1. ASSUME NEW i \in DOMAIN slots
      PROVE  /\ slots[i].round \in 1..k /\ slots[i].slot \in Nat
             /\ slots[i].slot \in 0..(Power[k - slots[i].round] - 1)
  BY DEF Tree
<1>2. ASSUME NEW i \in DOMAIN slots, NEW j \in DOMAIN slots,
             slots[i].round = slots[j].round, slots[i].slot = slots[j].slot
      PROVE  i = j
  BY <1>2 DEF Tree
<1>3. ASSUME NEW r \in 1..k, NEW s \in 0..(Power[k - r] - 1)
      PROVE  \E i \in DOMAIN slots : slots[i].round = r /\ slots[i].slot = s
  BY DEF Tree
<1>4. ASSUME NEW r \in 1..k, r # 1
      PROVE  Power[k - (r - 1)] = 2 * Power[k - r] /\ Power[k - r] \in Nat
  <2>1. k - r \in Nat /\ (k - r) + 1 = k - (r - 1)
    OBVIOUS
  <2> QED BY <2>1, PowerUnfolds
<1>5. ASSUME NEW i \in DOMAIN slots, slots[i].round # k
      PROVE  \E j \in DOMAIN slots : Feeds(slots[i], slots[j])
  <2>1. PICK r \in 1..k, s \in Nat : r = slots[i].round /\ s = slots[i].slot /\ s <= Power[k - r] - 1
    BY <1>1
  <2>2. r + 1 \in 1..k /\ (r + 1) - 1 = r /\ r + 1 # 1
    BY <1>5, <2>1
  <2>3. Power[k - r] = 2 * Power[k - (r + 1)] /\ Power[k - (r + 1)] \in Nat
    BY <1>4, <2>2
  <2>4. s \div 2 \in 0..(Power[k - (r + 1)] - 1)
    BY <2>1, <2>3
  <2>5. PICK j \in DOMAIN slots : slots[j].round = r + 1 /\ slots[j].slot = s \div 2
    BY <1>3, <2>2, <2>4
  <2> QED BY <2>1, <2>5 DEF Feeds
<1>6. ASSUME NEW i \in DOMAIN slots, NEW j \in DOMAIN slots, Feeds(slots[i], slots[j])
      PROVE  slots[i].round # k
  <2>1. slots[j].round = slots[i].round + 1 /\ slots[j].round \in 1..k
    BY <1>1, <1>6 DEF Feeds
  <2> QED BY <2>1
<1>7. ASSUME NEW i \in DOMAIN slots, NEW j \in DOMAIN slots, NEW x \in DOMAIN slots,
             Feeds(slots[i], slots[j]), Feeds(slots[i], slots[x])
      PROVE  j = x
  BY <1>2, <1>7 DEF Feeds
<1>8. \E f \in DOMAIN slots : \A i \in DOMAIN slots : slots[i].round = k <=> i = f
  <2>1. k - k = 0 /\ Power[0] = 1 /\ k \in 1..k
    BY PowerUnfolds
  <2>2. PICK f \in DOMAIN slots : slots[f].round = k /\ slots[f].slot = 0
    BY <1>3, <2>1
  <2>3. \A i \in DOMAIN slots : slots[i].round = k => slots[i].slot = 0
    BY <1>1, <2>1
  <2> QED BY <1>2, <2>2, <2>3
<1>9. ASSUME NEW j \in DOMAIN slots, slots[j].round # 1
      PROVE  \E x, y \in DOMAIN slots :
               /\ slots[x].slot % 2 = 0 /\ slots[y].slot % 2 # 0
               /\ \A i \in DOMAIN slots : Feeds(slots[i], slots[j]) <=> i = x \/ i = y
  <2>1. PICK r \in 1..k, s \in Nat : r = slots[j].round /\ s = slots[j].slot /\ s <= Power[k - r] - 1
    BY <1>1
  <2>2. r # 1 /\ r - 1 \in 1..k
    BY <1>9, <2>1
  <2>3. Power[k - (r - 1)] = 2 * Power[k - r] /\ Power[k - r] \in Nat
    BY <1>4, <2>2
  <2>4. 2 * s \in 0..(Power[k - (r - 1)] - 1) /\ 2 * s + 1 \in 0..(Power[k - (r - 1)] - 1)
    BY <2>1, <2>3
  <2>5. PICK x \in DOMAIN slots : slots[x].round = r - 1 /\ slots[x].slot = 2 * s
    BY <1>3, <2>2, <2>4
  <2>6. PICK y \in DOMAIN slots : slots[y].round = r - 1 /\ slots[y].slot = 2 * s + 1
    BY <1>3, <2>2, <2>4
  <2>7. (2 * s) % 2 = 0 /\ (2 * s + 1) % 2 # 0 /\ (2 * s) \div 2 = s /\ (2 * s + 1) \div 2 = s
    OBVIOUS
  <2>8. ASSUME NEW i \in DOMAIN slots PROVE Feeds(slots[i], slots[j]) <=> i = x \/ i = y
    <3>1. PICK q \in 1..k, a \in Nat : q = slots[i].round /\ a = slots[i].slot
      BY <1>1
    <3>2. Feeds(slots[i], slots[j]) <=> r = q + 1 /\ s = a \div 2
      BY <2>1, <3>1 DEF Feeds
    <3>3. r = q + 1 /\ s = a \div 2 <=> q = r - 1 /\ (a = 2 * s \/ a = 2 * s + 1)
      OBVIOUS
    <3>4. q = r - 1 /\ a = 2 * s <=> i = x
      BY <1>2, <2>5, <3>1
    <3>5. q = r - 1 /\ a = 2 * s + 1 <=> i = y
      BY <1>2, <2>6, <3>1
    <3> QED BY <3>2, <3>3, <3>4, <3>5
  <2> QED BY <2>5, <2>6, <2>7, <2>8
<1> QED BY <1>5, <1>6, <1>7, <1>8, <1>9

\* Every team enters at one place, and no place of the first round is empty.
LEMMA SeededOnce ==
  ASSUME NEW slots, NEW k \in Nat, k >= 1, NEW n \in Nat, Tree(slots, k), Seeded(slots, n, k),
         Power[k] >= n, Power[k] < 2 * n
  PROVE  /\ \A i, j \in DOMAIN slots : \A t :
              t # NoTeam /\ t \in {slots[i].home, slots[i].away} /\ t \in {slots[j].home, slots[j].away}
                => i = j
         /\ \A i \in DOMAIN slots : slots[i].round = 1 => slots[i].home # NoTeam
         /\ \A i \in DOMAIN slots : {slots[i].home, slots[i].away} \subseteq (1..n) \cup {NoTeam}
         /\ \A t \in 1..n : \E i \in DOMAIN slots : t \in {slots[i].home, slots[i].away}
<1>1. PICK w \in Nat : w = Power[k - 1] /\ Power[k] = 2 * w
  <2>1. k - 1 \in Nat /\ (k - 1) + 1 = k
    OBVIOUS
  <2> QED BY <2>1, PowerUnfolds
<1>2. ASSUME NEW i \in DOMAIN slots, slots[i].round = 1
      PROVE  slots[i].slot \in Nat /\ slots[i].slot < w
  <2>1. slots[i].slot \in 0..(Power[k - 1] - 1)
    BY <1>2 DEF Tree
  <2> QED BY <1>1, <2>1
<1>3. ASSUME NEW i \in DOMAIN slots, NEW t, t # NoTeam, t \in {slots[i].home, slots[i].away}
      PROVE  slots[i].round = 1 /\ (t = slots[i].slot + 1 \/ t = 2 * w - slots[i].slot)
  BY <1>1, <1>3 DEF Seeded
<1>4. ASSUME NEW i \in DOMAIN slots, NEW j \in DOMAIN slots, NEW t, t # NoTeam,
             t \in {slots[i].home, slots[i].away}, t \in {slots[j].home, slots[j].away}
      PROVE  i = j
  <2>1. /\ slots[i].round = 1 /\ (t = slots[i].slot + 1 \/ t = 2 * w - slots[i].slot)
        /\ slots[j].round = 1 /\ (t = slots[j].slot + 1 \/ t = 2 * w - slots[j].slot)
    BY <1>3, <1>4
  <2>2. /\ slots[i].slot \in Nat /\ slots[i].slot < w
        /\ slots[j].slot \in Nat /\ slots[j].slot < w
    BY <1>2, <2>1
  <2>3. slots[i].slot = slots[j].slot
    <3>1. PICK a \in Nat, b \in Nat : a = slots[i].slot /\ b = slots[j].slot
      BY <2>2
    <3>2. a < w /\ b < w /\ (t = a + 1 \/ t = 2 * w - a) /\ (t = b + 1 \/ t = 2 * w - b)
      BY <2>1, <2>2, <3>1
    <3>3. a = b
      BY <3>2
    <3> QED BY <3>1, <3>3
  <2> QED BY <2>1, <2>3 DEF Tree
<1>5. ASSUME NEW i \in DOMAIN slots, slots[i].round = 1 PROVE slots[i].home # NoTeam
  <2>1. PICK s \in Nat : s = slots[i].slot /\ s < w
    BY <1>2, <1>5
  <2>2. s + 1 <= n
    BY <1>1, <2>1
  <2>3. slots[i].home = s + 1
    BY <1>5, <2>1, <2>2 DEF Seeded
  <2> QED BY <2>3 DEF NoTeam
<1>6. \A i, j \in DOMAIN slots : \A t :
        t # NoTeam /\ t \in {slots[i].home, slots[i].away} /\ t \in {slots[j].home, slots[j].away}
          => i = j
  <2> HIDE DEF NoTeam
  <2> QED BY <1>4, Zenon
<1>7. \A i \in DOMAIN slots : slots[i].round = 1 => slots[i].home # NoTeam
  BY <1>5
<1>8. ASSUME NEW i \in DOMAIN slots
      PROVE  slots[i].home \in (1..n) \cup {NoTeam} /\ slots[i].away \in (1..n) \cup {NoTeam}
  <2>1. CASE slots[i].round = 1
    <3>1. PICK s \in Nat : s = slots[i].slot /\ s < w
      BY <1>2, <2>1
    <3>2. /\ slots[i].home = IF s + 1 <= n THEN s + 1 ELSE NoTeam
          /\ slots[i].away = IF 2 * w - s <= n THEN 2 * w - s ELSE NoTeam
      BY <1>1, <2>1, <3>1 DEF Seeded
    <3>3. s + 1 >= 1 /\ 2 * w - s \in Nat /\ 2 * w - s >= 1
      BY <1>1, <3>1
    <3>4. /\ s + 1 <= n => s + 1 \in 1..n
          /\ 2 * w - s <= n => 2 * w - s \in 1..n
      BY <1>1, <3>1, <3>3
    <3> QED BY <3>2, <3>4
  <2>2. CASE slots[i].round # 1
    BY <2>2 DEF Seeded
  <2> QED BY <2>1, <2>2
\* The first w teams are at home, the others are their opponents.
<1>9. ASSUME NEW t \in 1..n
      PROVE  \E i \in DOMAIN slots : t \in {slots[i].home, slots[i].away}
  <2>1. PICK s \in 0..(w - 1) : s = IF t <= w THEN t - 1 ELSE 2 * w - t
    <3>1. CASE t <= w
      <4>1. t - 1 \in 0..(w - 1)
        BY <1>1, <3>1
      <4> QED BY <3>1, <4>1
    <3>2. CASE ~(t <= w)
      <4>1. 2 * w - t \in 0..(w - 1)
        BY <1>1, <3>2
      <4> QED BY <3>2, <4>1
    <3> QED BY <3>1, <3>2
  <2>2. PICK i \in DOMAIN slots : slots[i].round = 1 /\ slots[i].slot = s
    <3>1. 1 \in 1..k /\ s \in 0..(Power[k - 1] - 1)
      BY <1>1, <2>1
    <3> QED BY <3>1 DEF Tree
  <2>3. CASE t <= w
    <3>1. s + 1 = t /\ s + 1 <= n
      BY <1>1, <2>1, <2>3
    <3>2. slots[i].home = t
      BY <2>2, <3>1 DEF Seeded
    <3> QED BY <3>2
  <2>4. CASE ~(t <= w)
    <3>1. Power[k] - s = t /\ Power[k] - s <= n
      BY <1>1, <2>1, <2>4
    <3>2. slots[i].away = t
      BY <2>2, <3>1 DEF Seeded
    <3> QED BY <3>2
  <2> QED BY <2>3, <2>4
<1>10. \A i \in DOMAIN slots : {slots[i].home, slots[i].away} \subseteq (1..n) \cup {NoTeam}
  BY <1>8
<1> QED BY <1>6, <1>7, <1>9, <1>10

-----------------------------------------------------------------------------
(***************************************************************************)
(* Calls: each appends a schedule, and nothing redraws it later.           *)
(***************************************************************************)

\* What one call draws: L games at the end of the others.
Drawn(new, L) ==
  /\ L \in Nat /\ DOMAIN new = 1..L
  /\ DOMAIN games' = 1..(Len(games) + L)
  /\ \A g \in DOMAIN games : games'[g] = games[g]
  /\ \A i \in 1..L : /\ games'[Len(games) + i] = new[i]
                     /\ new[i].batch = Cardinality(Batches) + 1
  /\ UNCHANGED format

\* A single game, a round robin or a tree.
SinglePlan(new) == UNCHANGED links /\ Enter({}) /\ \A i \in DOMAIN new : new[i].round = 0

RoundRobins == {"SINGLE_ROUND_ROBIN", "DOUBLE_ROUND_ROBIN"}

Paired(s, n) ==
  \A i \in DOMAIN s : s[i].home \in 1..n /\ s[i].away \in 1..n /\ s[i].home # s[i].away

RoundPlan(new) ==
  /\ UNCHANGED links /\ format \in RoundRobins
  /\ OneGameARound(new) /\ \A i \in DOMAIN new : new[i].round \in Nat /\ new[i].round >= 1
  /\ \E n \in Nat :
       /\ Enter(1..n) /\ Paired(new, n)
       /\ \A t, u \in 1..n : t # u =>
            IF format = "DOUBLE_ROUND_ROBIN" THEN HostsOnce(new, t, u) ELSE MeetsOnce(new, t, u)

Link(new, i, j) == [source |-> Len(games) + i, target |-> Len(games) + j,
                    slot |-> IF new[i].slot % 2 = 0 THEN "HOME" ELSE "AWAY"]

TreePlan(new) ==
  /\ format \in Brackets
  /\ \A l : l \in links' <=>
       \/ l \in links
       \/ \E i, j \in DOMAIN new : Feeds(new[i], new[j]) /\ l = Link(new, i, j)
  /\ \E n, k \in Nat : /\ k >= 1 /\ Power[k] >= n /\ Power[k] < 2 * n
                       /\ Tree(new, k) /\ Seeded(new, n, k) /\ Enter(1..n)

LEMMA Appended ==
  ASSUME GamesInv, NEW new, NEW L \in Nat, new = [i \in 1..L |-> new[i]], CreateGames(new),
         \A i \in 1..L : new[i].batch = Cardinality(Batches) + 1
  PROVE  Drawn(new, L)
<1>1. games \in Seq(GameRow) /\ Len(games) \in Nat /\ DOMAIN games = 1..Len(games)
  BY GamesFinite DEF GamesInv
<1>2. PICK S : S = GameRow \cup {new[i] : i \in 1..L}
  OBVIOUS
<1>3. games \in Seq(S) /\ new \in Seq(S) /\ Len(new) = L
  <2>1. games \in [1..Len(games) -> S]
    <3>1. \A g \in DOMAIN games : games[g] \in GameRow
      BY GamesFinite
    <3>2. games = [g \in 1..Len(games) |-> games[g]]
      BY <1>1, LenProperties
    <3> QED BY <1>1, <1>2, <3>1, <3>2
  <2>2. new \in [1..L -> S]
    BY <1>2
  <2>3. games \in Seq(S) /\ new \in Seq(S)
    BY <1>1, <2>1, <2>2, SeqDef
  <2>4. DOMAIN new = 1..L
    OBVIOUS
  <2> QED BY <2>3, <2>4, LenProperties
<1>4. games' = games \o new /\ UNCHANGED format
  BY DEF CreateGames
<1>5. /\ games \o new \in Seq(S) /\ Len(games \o new) = Len(games) + L
      /\ \A g \in 1..(Len(games) + L) :
           (games \o new)[g] = IF g <= Len(games) THEN games[g] ELSE new[g - Len(games)]
  BY <1>3, ConcatProperties
<1>6. DOMAIN games' = 1..(Len(games) + L)
  BY <1>4, <1>5, LenProperties
<1>7. \A g \in DOMAIN games : games'[g] = games[g]
  BY <1>1, <1>4, <1>5
<1>8. ASSUME NEW i \in 1..L PROVE games'[Len(games) + i] = new[i]
  <2>1. /\ Len(games) + i \in 1..(Len(games) + L) /\ ~(Len(games) + i <= Len(games))
        /\ (Len(games) + i) - Len(games) = i
    BY <1>1
  <2> QED BY <1>4, <1>5, <2>1
<1>9. DOMAIN new = 1..L
  OBVIOUS
<1> QED BY <1>4, <1>6, <1>7, <1>8, <1>9 DEF Drawn

LEMMA FixturesDraw ==
  ASSUME GamesInv, Fixtures
  PROVE  \E new, L : Drawn(new, L) /\ (SinglePlan(new) \/ RoundPlan(new) \/ TreePlan(new))
<1> DEFINE batch == Cardinality(Batches) + 1
<1>1. \A home, away, round, slot : LET game == Game(home, away, round, slot) IN
        /\ game.home = home /\ game.away = away /\ game.round = round /\ game.slot = slot
        /\ game.batch = batch
  BY DEF Game
<1> HIDE DEF batch
<1>2. ASSUME NEW home \in 1..MaxPlayed, NEW away \in 1..MaxPlayed, CreateFixture(home, away)
      PROVE  \E new, L : Drawn(new, L) /\ SinglePlan(new)
  <2>1. PICK new : new = <<Game(home, away, 0, 0)>>
    OBVIOUS
  <2>2. new = [i \in 1..1 |-> new[i]] /\ \A i \in 1..1 : new[i] = Game(home, away, 0, 0)
    BY <2>1
  <2>3. CreateGames(new) /\ UNCHANGED links /\ Enter({})
    BY <1>2, <2>1 DEF CreateFixture
  <2>4. \A i \in 1..1 : new[i].batch = batch /\ new[i].round = 0
    BY <1>1, <2>2
  <2>5. Drawn(new, 1)
    BY <2>2, <2>3, <2>4, Appended DEF batch
  <2>6. SinglePlan(new)
    BY <2>3, <2>4, <2>5 DEF SinglePlan, Drawn
  <2> QED BY <2>5, <2>6
<1>3. ASSUME NEW n \in 2..TeamCount, GenerateRoundRobin(n)
      PROVE  \E new, L : Drawn(new, L) /\ RoundPlan(new)
  <2>1. PICK double \in BOOLEAN : double <=> format = "DOUBLE_ROUND_ROBIN"
    OBVIOUS
  <2>2. PICK pairings, new :
          /\ pairings = RoundRobin(Entrants(n), double)
          /\ new = [i \in DOMAIN pairings |->
                      Game(pairings[i].home, pairings[i].away, pairings[i].round, 0)]
    OBVIOUS
  <2>3. CreateGames(new) /\ UNCHANGED links /\ format \in RoundRobins /\ Enter(1..n)
    <3>1. double = (format = "DOUBLE_ROUND_ROBIN")
      BY <2>1
    <3> QED BY <1>3, <2>2, <3>1 DEF GenerateRoundRobin, Entrants, RoundRobins
  <2>4. n \in Nat /\ n >= 2
    OBVIOUS
  <2>5. pairings \in Seq(Pairs(n))
    BY <2>2, <2>4, RoundRobinType
  <2>6. PICK L \in Nat : DOMAIN pairings = 1..L /\ \A i \in 1..L : pairings[i] \in Pairs(n)
    BY <2>5, LenProperties, ElementOfSeq
  <2>7. ASSUME NEW i \in 1..L
        PROVE  /\ new[i].home = pairings[i].home /\ new[i].away = pairings[i].away
               /\ new[i].round = pairings[i].round /\ new[i].batch = batch
    <3>1. new[i] = Game(pairings[i].home, pairings[i].away, pairings[i].round, 0)
      BY <2>2, <2>6
    <3> QED BY <1>1, <3>1
  <2>8. new = [i \in 1..L |-> new[i]] /\ DOMAIN new = 1..L
    BY <2>2, <2>6
  <2>9. Drawn(new, L)
    BY <2>3, <2>7, <2>8, Appended DEF batch
  <2>10. /\ OneGameARound(pairings)
         /\ \A t, u \in 1..n : t # u =>
              IF double THEN HostsOnce(pairings, t, u) ELSE MeetsOnce(pairings, t, u)
         /\ \A i \in DOMAIN pairings : pairings[i].round >= 1
    BY <2>2, <2>4, RoundRobinMeets
  <2>11. OneGameARound(new)
    BY <2>6, <2>7, <2>8, <2>10 DEF OneGameARound
  <2>12. \A i \in DOMAIN new : new[i].round \in Nat /\ new[i].round >= 1
    BY <2>6, <2>7, <2>8, <2>10 DEF Pairs, Pairings
  <2>13. Paired(new, n)
    BY <2>4, <2>6, <2>7, <2>8 DEF Pairs, Pairings, Paired, NoTeam
  <2>14. ASSUME NEW t \in 1..n, NEW u \in 1..n, HostsOnce(pairings, t, u) PROVE HostsOnce(new, t, u)
    <3>1. PICK i \in DOMAIN pairings : \A j \in DOMAIN pairings :
            (pairings[j].home = t /\ pairings[j].away = u) <=> j = i
      BY <2>14 DEF HostsOnce
    <3>2. i \in DOMAIN new /\ \A j \in DOMAIN new : (new[j].home = t /\ new[j].away = u) <=> j = i
      BY <2>6, <2>7, <2>8, <3>1
    <3> QED BY <3>2, Zenon DEF HostsOnce
  <2>15. ASSUME NEW t \in 1..n, NEW u \in 1..n, MeetsOnce(pairings, t, u) PROVE MeetsOnce(new, t, u)
    <3>1. PICK i \in DOMAIN pairings : \A j \in DOMAIN pairings : Between(pairings[j], t, u) <=> j = i
      BY <2>15 DEF MeetsOnce
    <3>2. \A j \in DOMAIN pairings : Between(new[j], t, u) <=> Between(pairings[j], t, u)
      BY <2>6, <2>7 DEF Between
    <3>3. i \in DOMAIN new /\ DOMAIN new = DOMAIN pairings
      BY <2>6, <2>8
    <3>4. ASSUME NEW j \in DOMAIN new PROVE Between(new[j], t, u) <=> j = i
      <4>1. j \in DOMAIN pairings
        BY <3>3
      <4> QED BY <3>1, <3>2, <4>1, Zenon
    <3> QED BY <3>3, <3>4, Zenon DEF MeetsOnce
  <2>16. \A t, u \in 1..n : t # u =>
           IF format = "DOUBLE_ROUND_ROBIN" THEN HostsOnce(new, t, u) ELSE MeetsOnce(new, t, u)
    BY <2>1, <2>10, <2>14, <2>15
  <2>17. RoundPlan(new)
    BY <2>3, <2>4, <2>11, <2>12, <2>13, <2>16 DEF RoundPlan
  <2> QED BY <2>9, <2>17
<1>4. ASSUME NEW n \in 2..TeamCount, GenerateBracket(n)
      PROVE  \E new, L : Drawn(new, L) /\ TreePlan(new)
  <2>1. PICK slots, new :
          /\ slots = SingleElimination(Entrants(n))
          /\ new = [i \in DOMAIN slots |->
                      Game(slots[i].home, slots[i].away, slots[i].round, slots[i].slot)]
    OBVIOUS
  <2>2. CreateGames(new) /\ format \in Brackets /\ Enter(1..n)
    BY <1>4, <2>1 DEF GenerateBracket, Entrants, Brackets
  <2>3. n \in Nat /\ n >= 2
    OBVIOUS
  <2>4. PICK L \in Nat : DOMAIN slots = 1..L
    <3>1. DOMAIN slots = 1..(BracketSize(n) - 1) /\ BracketSize(n) \in Nat /\ BracketSize(n) >= n
      BY <2>1, <2>3, BracketSlots, BracketSizes
    <3>2. BracketSize(n) - 1 \in Nat
      BY <2>3, <3>1
    <3> QED BY <3>1, <3>2
  <2>5. ASSUME NEW i \in 1..L
        PROVE  /\ new[i].home = slots[i].home /\ new[i].away = slots[i].away
               /\ new[i].round = slots[i].round /\ new[i].slot = slots[i].slot /\ new[i].batch = batch
    <3>1. new[i] = Game(slots[i].home, slots[i].away, slots[i].round, slots[i].slot)
      BY <2>1, <2>4
    <3> QED BY <1>1, <3>1
  <2>6. new = [i \in 1..L |-> new[i]] /\ DOMAIN new = 1..L
    BY <2>1, <2>4
  <2>7. Drawn(new, L)
    BY <2>2, <2>5, <2>6, Appended DEF batch
  <2>8. PICK k \in 1..n : Power[k] >= n /\ Power[k] < 2 * n /\ Tree(slots, k) /\ Seeded(slots, n, k)
    BY <2>1, <2>3, BracketTree
  <2>9. Tree(new, k) /\ Seeded(new, n, k)
    <3>1. Tree(new, k)
      <4>1. \A i \in 1..L : /\ slots[i].round \in 1..k
                            /\ slots[i].slot \in 0..(Power[k - slots[i].round] - 1)
        BY <2>4, <2>8 DEF Tree
      <4>2. \A i, j \in 1..L : slots[i].round = slots[j].round /\ slots[i].slot = slots[j].slot => i = j
        BY <2>4, <2>8 DEF Tree
      <4>3. ASSUME NEW r \in 1..k, NEW s \in 0..(Power[k - r] - 1)
            PROVE  \E i \in DOMAIN new : new[i].round = r /\ new[i].slot = s
        <5>1. PICK i \in DOMAIN slots : slots[i].round = r /\ slots[i].slot = s
          BY <2>8 DEF Tree
        <5>2. i \in DOMAIN new /\ new[i].round = r /\ new[i].slot = s
          BY <2>4, <2>5, <2>6, <5>1
        <5> QED BY <5>2
      <4>4. \A i \in DOMAIN new : /\ new[i].round \in 1..k
                                  /\ new[i].slot \in 0..(Power[k - new[i].round] - 1)
        BY <2>5, <2>6, <4>1
      <4>5. \A i, j \in DOMAIN new : new[i].round = new[j].round /\ new[i].slot = new[j].slot => i = j
        BY <2>5, <2>6, <4>2
      <4> QED BY <4>3, <4>4, <4>5 DEF Tree
    <3>2. Seeded(new, n, k)
      BY <2>4, <2>5, <2>6, <2>8 DEF Seeded
    <3> QED BY <3>1, <3>2
  <2>10. ASSUME NEW l
         PROVE  l \in links' <=>
                  \/ l \in links
                  \/ \E i, j \in DOMAIN new : Feeds(new[i], new[j]) /\ l = Link(new, i, j)
    <3>1. PICK D, fed : D = DOMAIN slots /\ fed = {q \in D \X D : Feeds(slots[q[1]], slots[q[2]])}
      OBVIOUS
    <3>2. links' = links \cup
            {[source |-> Len(games) + p[1], target |-> Len(games) + p[2],
              slot |-> IF slots[p[1]].slot % 2 = 0 THEN "HOME" ELSE "AWAY"] : p \in fed}
      BY <1>4, <2>1, <3>1, Zenon DEF GenerateBracket, Entrants
    <3>3. \A i, j \in D : Feeds(new[i], new[j]) <=> Feeds(slots[i], slots[j])
      BY <2>4, <2>5, <3>1 DEF Feeds
    <3>4. \A i, j \in D : Link(new, i, j) =
            [source |-> Len(games) + i, target |-> Len(games) + j,
             slot |-> IF slots[i].slot % 2 = 0 THEN "HOME" ELSE "AWAY"]
      BY <2>4, <2>5, <3>1 DEF Link
    <3>5. D = DOMAIN new
      BY <2>4, <2>6, <3>1
    <3>6. ASSUME NEW p \in fed
          PROVE  /\ p[1] \in D /\ p[2] \in D /\ Feeds(new[p[1]], new[p[2]])
                 /\ Link(new, p[1], p[2]) =
                      [source |-> Len(games) + p[1], target |-> Len(games) + p[2],
                       slot |-> IF slots[p[1]].slot % 2 = 0 THEN "HOME" ELSE "AWAY"]
      <4>1. p[1] \in D /\ p[2] \in D /\ Feeds(slots[p[1]], slots[p[2]])
        BY <3>1
      <4> QED BY <3>3, <3>4, <4>1
    <3>7. ASSUME NEW i \in D, NEW j \in D, Feeds(new[i], new[j]), l = Link(new, i, j)
          PROVE  l \in links'
      <4>1. <<i, j>> \in fed
        BY <3>1, <3>3, <3>7
      <4>2. <<i, j>>[1] = i /\ <<i, j>>[2] = j
        OBVIOUS
      <4>3. PICK p \in fed : p[1] = i /\ p[2] = j
        BY <4>1, <4>2
      <4> QED BY <3>2, <3>6, <3>7, <4>3
    <3>8. ASSUME l \in links', l \notin links
          PROVE  \E i, j \in D : Feeds(new[i], new[j]) /\ l = Link(new, i, j)
      <4>1. PICK p \in fed :
              l = [source |-> Len(games) + p[1], target |-> Len(games) + p[2],
                   slot |-> IF slots[p[1]].slot % 2 = 0 THEN "HOME" ELSE "AWAY"]
        BY <3>2, <3>8
      <4> QED BY <3>6, <4>1
    <3> QED BY <3>2, <3>5, <3>7, <3>8
  <2>11. TreePlan(new)
    <3>1. k \in Nat /\ k >= 1
      BY <2>3
    <3> QED BY <2>2, <2>3, <2>8, <2>9, <2>10, <3>1 DEF TreePlan
  <2> QED BY <2>7, <2>11
<1> QED BY <1>2, <1>3, <1>4 DEF Fixtures

\* The scheduled games of a call, and the links from and to a game.
BatchGames(b) == {g \in DOMAIN games : games[g].batch = b /\ games[g].round > 0}
LinksFrom(g) == {l \in links : l.source = g}
LinksTo(g) == {l \in links : l.target = g}

Hosting(b, t, u) == {g \in BatchGames(b) : games[g].home = t /\ games[g].away = u}
Seen(b, t) == {g \in BatchGames(b) : t \in {games[g].home, games[g].away}}
Opening(b) == {g \in BatchGames(b) : games[g].round = 1}
Finals(b) == {g \in BatchGames(b) : LinksFrom(g) = {}}

\* RoundRobinComplete and BracketSound for one call.
CompleteBatch(b) ==
  /\ \A g \in BatchGames(b) : {games[g].home, games[g].away} \subseteq entered[b]
  /\ \A g, h \in BatchGames(b) : games[g].round = games[h].round /\ g # h =>
       {games[g].home, games[g].away} \cap {games[h].home, games[h].away} = {}
  /\ \A t, u \in entered[b] : t # u =>
       IF format = "DOUBLE_ROUND_ROBIN" THEN Cardinality(Hosting(b, t, u)) = 1
       ELSE Cardinality(Hosting(b, t, u)) + Cardinality(Hosting(b, u, t)) = 1

SoundBatch(b) ==
  /\ \A t \in Teams : Cardinality(Seen(b, t)) = IF t \in entered[b] THEN 1 ELSE 0
  /\ \A g \in Opening(b) : {games[g].home, games[g].away} # {NoTeam}
  /\ Cardinality(Finals(b)) = 1
  /\ \A g \in BatchGames(b) : Cardinality(LinksFrom(g)) <= 1
  /\ \A g \in BatchGames(b) \ Opening(b) :
       {l.slot : l \in LinksTo(g)} = {"HOME", "AWAY"} /\ Cardinality(LinksTo(g)) = 2

\* Calls are numbered, and each has drawn a good schedule.
SchedulesInv ==
  /\ \E k \in Nat : Batches = 1..k
  /\ DOMAIN entered = Batches
  /\ format \in RoundRobins => \A b \in Batches : CompleteBatch(b)
  /\ format \in Brackets => \A b \in Batches : entered[b] # {} => SoundBatch(b)

LEMMA SchedulesGood == SchedulesInv => RoundRobinComplete /\ BracketSound
<1> USE DEF BatchGames, LinksFrom, LinksTo
<1>1. SchedulesInv => RoundRobinComplete
  <2>1. SUFFICES ASSUME SchedulesInv, format \in RoundRobins PROVE RoundRobinComplete
    BY DEF RoundRobinComplete, RoundRobins
  <2>2. \A b \in Batches : CompleteBatch(b)
    BY <2>1 DEF SchedulesInv
  <2> QED BY <2>2, Zenon DEF RoundRobinComplete, CompleteBatch, Hosting
<1>2. SchedulesInv => BracketSound
  <2>1. SUFFICES ASSUME SchedulesInv, format \in Brackets PROVE BracketSound
    BY DEF BracketSound, Brackets
  <2>2. \A b \in Batches : entered[b] # {} => SoundBatch(b)
    BY <2>1 DEF SchedulesInv
  <2> QED BY <2>2, Zenon DEF BracketSound, SoundBatch, Seen, Opening, Finals
<1> QED BY <1>1, <1>2

\* The schedule of a call depends on its own games and their links only.
LEMMA BatchStays ==
  ASSUME NEW b, UNCHANGED format, BatchGames(b)' = BatchGames(b), entered'[b] = entered[b],
         \A g \in BatchGames(b) : /\ games'[g].home = games[g].home
                                  /\ games'[g].away = games[g].away
                                  /\ games'[g].round = games[g].round
                                  /\ LinksFrom(g)' = LinksFrom(g) /\ LinksTo(g)' = LinksTo(g)
  PROVE  /\ CompleteBatch(b) => CompleteBatch(b)'
         /\ SoundBatch(b) => SoundBatch(b)'
<1>1. PICK S : S = BatchGames(b)
  OBVIOUS
<1>3. \A t, u : Hosting(b, t, u)' = Hosting(b, t, u)
  BY DEF Hosting
<1>4. ASSUME CompleteBatch(b) PROVE CompleteBatch(b)'
  <2>1. \A g, h \in BatchGames(b)' : games'[g].round = games'[h].round /\ g # h =>
          {games'[g].home, games'[g].away} \cap {games'[h].home, games'[h].away} = {}
    BY <1>4 DEF CompleteBatch
  <2>2. \A t, u \in entered'[b] : t # u =>
          IF format' = "DOUBLE_ROUND_ROBIN" THEN Cardinality(Hosting(b, t, u)') = 1
          ELSE Cardinality(Hosting(b, t, u)') + Cardinality(Hosting(b, u, t)') = 1
    BY <1>3, <1>4 DEF CompleteBatch
  <2>3. \A g \in BatchGames(b)' : {games'[g].home, games'[g].away} \subseteq entered'[b]
    BY <1>4 DEF CompleteBatch
  <2> QED BY <2>1, <2>2, <2>3 DEF CompleteBatch
<1>5. ASSUME SoundBatch(b) PROVE SoundBatch(b)'
  <2>1. \A t : Seen(b, t)' = Seen(b, t)
    BY DEF Seen
  <2>2. Opening(b)' = Opening(b)
    BY DEF Opening
  <2>3. Finals(b)' = Finals(b)
    BY DEF Finals
  <2>4. /\ \A t \in Teams : Cardinality(Seen(b, t)') = IF t \in entered'[b] THEN 1 ELSE 0
        /\ Cardinality(Finals(b)') = 1
    BY <1>5, <2>1, <2>3 DEF SoundBatch
  <2>5. \A g \in Opening(b)' : {games'[g].home, games'[g].away} # {NoTeam}
    <3>1. \A g \in Opening(b) : g \in BatchGames(b) /\ {games[g].home, games[g].away} # {NoTeam}
      BY <1>5 DEF SoundBatch, Opening
    <3> QED BY <2>2, <3>1
  <2>6. \A g \in BatchGames(b)' : Cardinality(LinksFrom(g)') <= 1
    BY <1>5 DEF SoundBatch
  <2>7. \A g \in BatchGames(b)' \ Opening(b)' :
          {l.slot : l \in LinksTo(g)'} = {"HOME", "AWAY"} /\ Cardinality(LinksTo(g)') = 2
    BY <1>5, <2>2 DEF SoundBatch
  <2> QED BY <2>4, <2>5, <2>6, <2>7 DEF SoundBatch
<1> QED BY <1>4, <1>5

LEMMA AtMostOne ==
  ASSUME NEW S, \A x, y \in S : x = y
  PROVE  IsFiniteSet(S) /\ Cardinality(S) <= 1 /\ Cardinality(S) \in Nat
<1>1. CASE S = {}
  BY <1>1, FS_EmptySet
<1>2. CASE S # {}
  <2>1. PICK x \in S : S = {x}
    BY <1>2
  <2>2. IsFiniteSet({x}) /\ Cardinality({x}) = 1
    BY FS_Singleton
  <2> QED BY <2>1, <2>2
<1> QED BY <1>1, <1>2

LEMMA TwoElements ==
  ASSUME NEW x, NEW y, x # y
  PROVE  Cardinality({x, y}) = 2
<1>1. IsFiniteSet({x}) /\ Cardinality({x}) = 1
  BY FS_Singleton
<1>2. {x, y} = {x} \cup {y} /\ y \notin {x}
  OBVIOUS
<1>3. Cardinality({x} \cup {y}) = Cardinality({x}) + 1
  BY <1>1, <1>2, FS_AddElement
<1> QED BY <1>1, <1>2, <1>3

\* A call takes the next number, and its games are its own.
LEMMA DrawnNumbers ==
  ASSUME GamesInv, NEW K \in Nat, Batches = 1..K, NEW new, NEW L, Drawn(new, L)
  PROVE  /\ \E k \in {K, K + 1} : Batches' = 1..k
         /\ \A b \in 1..K : BatchGames(b)' = BatchGames(b)
         /\ \A g : g \in BatchGames(K + 1)' <=>
              \E i \in 1..L : g = Len(games) + i /\ new[i].round > 0
<1>1. /\ Len(games) \in Nat /\ DOMAIN games = 1..Len(games) /\ L \in Nat
      /\ DOMAIN games' = 1..(Len(games) + L) /\ \A g \in DOMAIN games : games'[g] = games[g]
  BY GamesFinite DEF Drawn
<1>2. Cardinality(Batches) = K
  BY FS_Interval
<1>3. \A i \in 1..L : games'[Len(games) + i] = new[i] /\ new[i].batch = K + 1
  BY <1>2 DEF Drawn
<1>4. \A g \in DOMAIN games' : g \in DOMAIN games \/ \E i \in 1..L : g = Len(games) + i
  <2>1. ASSUME NEW g \in DOMAIN games', g \notin DOMAIN games PROVE \E i \in 1..L : g = Len(games) + i
    <3>1. g - Len(games) \in 1..L /\ g = Len(games) + (g - Len(games))
      BY <1>1, <2>1
    <3> QED BY <3>1
  <2> QED BY <2>1
<1>5. \A i \in 1..L : Len(games) + i \in DOMAIN games' /\ Len(games) + i \notin DOMAIN games
  BY <1>1
<1>6. DOMAIN games \subseteq DOMAIN games'
  BY <1>1
<1>7. \A g \in DOMAIN games : games[g].batch \in 1..K
  BY DEF Batches
<1>8. ASSUME NEW b \in 1..K PROVE \E g \in DOMAIN games : games[g].batch = b
  BY DEF Batches
<1>9. K + 1 \notin 1..K
  OBVIOUS
<1>10. ASSUME NEW b \in 1..K PROVE BatchGames(b)' = BatchGames(b)
  <2>1. \A g \in DOMAIN games' : games'[g].batch = b => g \in DOMAIN games
    BY <1>3, <1>4, <1>9
  <2>2. BatchGames(b)' = {g \in DOMAIN games' : games'[g].batch = b /\ games'[g].round > 0}
    BY DEF BatchGames
  <2>3. BatchGames(b) = {g \in DOMAIN games : games[g].batch = b /\ games[g].round > 0}
    BY DEF BatchGames
  <2> QED BY <1>1, <1>6, <2>1, <2>2, <2>3
<1>11. ASSUME NEW g
       PROVE  g \in BatchGames(K + 1)' <=> \E i \in 1..L : g = Len(games) + i /\ new[i].round > 0
  <2>1. BatchGames(K + 1)' = {h \in DOMAIN games' : games'[h].batch = K + 1 /\ games'[h].round > 0}
    BY DEF BatchGames
  <2>2. ASSUME g \in BatchGames(K + 1)'
        PROVE  \E i \in 1..L : g = Len(games) + i /\ new[i].round > 0
    <3>1. g \in DOMAIN games' /\ games'[g].batch = K + 1 /\ games'[g].round > 0
      BY <2>1, <2>2
    <3>2. g \notin DOMAIN games
      BY <1>1, <1>7, <1>9, <3>1
    <3> QED BY <1>3, <1>4, <3>1, <3>2
  <2>3. ASSUME NEW i \in 1..L, g = Len(games) + i, new[i].round > 0
        PROVE  g \in BatchGames(K + 1)'
    BY <1>3, <1>5, <2>1, <2>3
  <2> QED BY <2>2, <2>3
<1>12. CASE L = 0
  <2>1. DOMAIN games' = DOMAIN games
    BY <1>1, <1>12
  <2>2. Batches' = Batches
    BY <1>1, <2>1 DEF Batches
  <2> QED BY <1>10, <1>11, <2>2
<1>13. CASE L # 0
  <2>1. 1 \in 1..L
    BY <1>1, <1>13
  <2>2. \A b \in Batches' : b \in 1..(K + 1)
    <3>1. \A g \in DOMAIN games' : games'[g].batch \in 1..(K + 1)
      <4>1. \A k \in 1..K : k \in 1..(K + 1)
        OBVIOUS
      <4>2. K + 1 \in 1..(K + 1)
        OBVIOUS
      <4>3. \A g \in DOMAIN games : games'[g].batch \in 1..(K + 1)
        BY <1>1, <1>7, <4>1
      <4>4. \A i \in 1..L : games'[Len(games) + i].batch \in 1..(K + 1)
        BY <1>3, <4>2
      <4>5. SUFFICES ASSUME NEW g \in DOMAIN games' PROVE games'[g].batch \in 1..(K + 1)
        OBVIOUS
      <4>6. CASE g \in DOMAIN games
        BY <4>3, <4>6
      <4>7. CASE g \notin DOMAIN games
        <5>1. PICK i \in 1..L : g = Len(games) + i
          BY <1>4, <4>7
        <5> QED BY <4>4, <5>1
      <4> QED BY <4>6, <4>7
    <3> QED BY <3>1 DEF Batches
  <2>3. \A b \in 1..(K + 1) : b \in Batches'
    <3>1. ASSUME NEW b \in 1..(K + 1) PROVE \E g \in DOMAIN games' : games'[g].batch = b
      <4>1. CASE b \in 1..K
        BY <1>1, <1>6, <1>8, <4>1
      <4>2. CASE b = K + 1
        BY <1>3, <1>5, <2>1, <4>2
      <4> QED BY <4>1, <4>2
    <3> QED BY <3>1 DEF Batches
  <2>4. Batches' = 1..(K + 1)
    BY <2>2, <2>3
  <2> QED BY <1>10, <1>11, <2>4
<1> QED BY <1>12, <1>13

\* The teams of a call are noted under its number.
LEMMA EnteredNow ==
  ASSUME NEW K \in Nat, Batches = 1..K, DOMAIN entered = Batches, NEW k \in {K, K + 1},
         Batches' = 1..k, NEW teams, Enter(teams)
  PROVE  /\ DOMAIN entered' = Batches' /\ \A b \in 1..K : entered'[b] = entered[b]
         /\ K + 1 \in Batches' => entered'[K + 1] = teams
<1>1. PICK B : B = Batches' /\ B = 1..k
  OBVIOUS
<1>2. entered' = [b \in B |-> IF b \in DOMAIN entered THEN entered[b] ELSE teams]
  BY <1>1, Zenon DEF Enter
<1>3. \A b \in 1..K : b \in B
  BY <1>1
<1>4. K + 1 \notin DOMAIN entered
  OBVIOUS
<1>5. \A b \in 1..K : entered'[b] = entered[b]
  BY <1>2, <1>3
<1>6. K + 1 \in B => entered'[K + 1] = teams
  BY <1>2, <1>4
<1> QED BY <1>1, <1>2, <1>5, <1>6

\* A call that has created games takes the next number.
NextCall(K) == DOMAIN entered = Batches /\ K + 1 \in Batches'

\* The games of a round robin are complete.
LEMMA DrawnComplete ==
  ASSUME GamesInv, NEW K \in Nat, Batches = 1..K, NEW new, NEW L, Drawn(new, L), RoundPlan(new),
         NextCall(K)
  PROVE  CompleteBatch(K + 1)'
<1>1. Len(games) \in Nat /\ L \in Nat /\ DOMAIN new = 1..L /\ UNCHANGED format
      /\ \A i \in 1..L : games'[Len(games) + i] = new[i]
  BY GamesFinite DEF Drawn
<1>2. PICK o \in Nat : o = Len(games)
  BY <1>1
<1>3. /\ \A i \in 1..L : o + i \in BatchGames(K + 1)' /\ games'[o + i] = new[i]
      /\ \A g \in BatchGames(K + 1)' : \E i \in 1..L : g = o + i
  <2>1. \A g : g \in BatchGames(K + 1)' <=>
          \E i \in 1..L : g = Len(games) + i /\ new[i].round > 0
    BY DrawnNumbers
  <2>2. \A i \in 1..L : new[i].round > 0
    BY <1>1 DEF RoundPlan
  <2> QED BY <1>1, <1>2, <2>1, <2>2
<1>4. \A i, j \in 1..L : o + i = o + j => i = j
  BY <1>2
<1>5. PICK n \in Nat :
        /\ Enter(1..n) /\ Paired(new, n)
        /\ \A t, u \in 1..n : t # u =>
             IF format = "DOUBLE_ROUND_ROBIN" THEN HostsOnce(new, t, u) ELSE MeetsOnce(new, t, u)
  BY DEF RoundPlan
<1>6. \A g, h \in BatchGames(K + 1)' : games'[g].round = games'[h].round /\ g # h =>
        {games'[g].home, games'[g].away} \cap {games'[h].home, games'[h].away} = {}
  <2>1. \A i, j \in 1..L : i # j /\ new[i].round = new[j].round =>
          {new[i].home, new[i].away} \cap {new[j].home, new[j].away} = {}
    BY <1>1 DEF RoundPlan, OneGameARound
  <2>2. SUFFICES ASSUME NEW g \in BatchGames(K + 1)', NEW h \in BatchGames(K + 1)',
                        games'[g].round = games'[h].round, g # h
                 PROVE  {games'[g].home, games'[g].away} \cap {games'[h].home, games'[h].away} = {}
    OBVIOUS
  <2>3. PICK i \in 1..L, j \in 1..L : g = o + i /\ h = o + j
    BY <1>3
  <2>4. i # j /\ games'[g] = new[i] /\ games'[h] = new[j]
    BY <1>3, <2>2, <2>3
  <2> QED BY <2>1, <2>2, <2>4
<1>7. /\ entered'[K + 1] = 1..n
      /\ \A g \in BatchGames(K + 1)' : {games'[g].home, games'[g].away} \subseteq 1..n
  <2>1. PICK k \in {K, K + 1} : Batches' = 1..k
    BY DrawnNumbers
  <2>2. entered'[K + 1] = 1..n
    BY <1>5, <2>1, EnteredNow DEF NextCall
  <2>3. \A i \in 1..L : new[i].home \in 1..n /\ new[i].away \in 1..n
    BY <1>1, <1>5 DEF Paired
  <2> QED BY <1>3, <2>2, <2>3
<1>8. \A t, u : Hosting(K + 1, t, u)' =
        {g \in BatchGames(K + 1)' : games'[g].home = t /\ games'[g].away = u}
  BY DEF Hosting
<1>9. ASSUME NEW t \in 1..n, NEW u \in 1..n, t # u, format = "DOUBLE_ROUND_ROBIN"
      PROVE  Cardinality(Hosting(K + 1, t, u)') = 1
  <2>1. HostsOnce(new, t, u)
    BY <1>5, <1>9
  <2>2. PICK i \in 1..L : \A j \in 1..L : (new[j].home = t /\ new[j].away = u) <=> j = i
    <3>1. PICK i \in DOMAIN new : \A j \in DOMAIN new :
            (new[j].home = t /\ new[j].away = u) <=> j = i
      BY <2>1 DEF HostsOnce
    <3>2. i \in 1..L
      BY <1>1
    <3>3. ASSUME NEW j \in 1..L PROVE (new[j].home = t /\ new[j].away = u) <=> j = i
      <4>1. j \in DOMAIN new
        BY <1>1
      <4> QED BY <3>1, <4>1, Zenon
    <3> QED BY <3>2, <3>3, Zenon
  <2>3. Hosting(K + 1, t, u)' = {o + i}
    BY <1>3, <1>8, <2>2
  <2>4. Cardinality({o + i}) = 1
    BY FS_Singleton
  <2> QED BY <2>3, <2>4
<1>10. ASSUME NEW t \in 1..n, NEW u \in 1..n, t # u, format # "DOUBLE_ROUND_ROBIN"
       PROVE  Cardinality(Hosting(K + 1, t, u)') + Cardinality(Hosting(K + 1, u, t)') = 1
  <2>1. MeetsOnce(new, t, u)
    BY <1>5, <1>10
  <2>2. PICK i \in 1..L : \A j \in 1..L : Between(new[j], t, u) <=> j = i
    <3>1. PICK i \in DOMAIN new : \A j \in DOMAIN new : Between(new[j], t, u) <=> j = i
      BY <2>1 DEF MeetsOnce
    <3>2. i \in 1..L
      BY <1>1
    <3>3. ASSUME NEW j \in 1..L PROVE Between(new[j], t, u) <=> j = i
      <4>1. j \in DOMAIN new
        BY <1>1
      <4> QED BY <3>1, <4>1, Zenon
    <3> QED BY <3>2, <3>3, Zenon
  <2>3. \A j \in 1..L : (new[j].home = t /\ new[j].away = u) \/ (new[j].home = u /\ new[j].away = t)
          <=> j = i
    <3>1. \A j \in 1..L : Between(new[j], t, u) <=>
            (new[j].home = t /\ new[j].away = u) \/ (new[j].home = u /\ new[j].away = t)
      BY <1>10 DEF Between
    <3> QED BY <2>2, <3>1, Zenon
  <2>4. Cardinality({o + i}) = 1 /\ Cardinality({}) = 0
    BY FS_Singleton, FS_EmptySet
  <2>5. CASE new[i].home = t
    <3>1. new[i].away = u /\ \A j \in 1..L : ~(new[j].home = u /\ new[j].away = t)
      BY <1>10, <2>3, <2>5
    <3>2. \A j \in 1..L : (new[j].home = t /\ new[j].away = u) <=> j = i
      BY <2>3, <2>5, <3>1
    <3>3. Hosting(K + 1, t, u)' = {o + i}
      BY <1>3, <1>8, <3>2
    <3>4. Hosting(K + 1, u, t)' = {}
      <4>1. SUFFICES ASSUME NEW g \in Hosting(K + 1, u, t)' PROVE FALSE
        OBVIOUS
      <4>2. PICK j \in 1..L : g = o + j
        BY <1>3, <1>8
      <4>3. new[j].home = u /\ new[j].away = t
        BY <1>3, <1>8, <4>2
      <4> QED BY <3>1, <4>3
    <3>5. Cardinality(Hosting(K + 1, t, u)') = 1 /\ Cardinality(Hosting(K + 1, u, t)') = 0
      BY <2>4, <3>3, <3>4
    <3> QED BY <3>5
  <2>6. CASE new[i].home # t
    <3>1. /\ new[i].home = u /\ new[i].away = t
          /\ \A j \in 1..L : ~(new[j].home = t /\ new[j].away = u)
      BY <1>10, <2>3, <2>6
    <3>2. \A j \in 1..L : (new[j].home = u /\ new[j].away = t) <=> j = i
      BY <2>3, <3>1
    <3>3. Hosting(K + 1, u, t)' = {o + i}
      BY <1>3, <1>8, <3>2
    <3>4. Hosting(K + 1, t, u)' = {}
      <4>1. SUFFICES ASSUME NEW g \in Hosting(K + 1, t, u)' PROVE FALSE
        OBVIOUS
      <4>2. PICK j \in 1..L : g = o + j
        BY <1>3, <1>8
      <4>3. new[j].home = t /\ new[j].away = u
        BY <1>3, <1>8, <4>2
      <4> QED BY <3>1, <4>3
    <3>5. Cardinality(Hosting(K + 1, u, t)') = 1 /\ Cardinality(Hosting(K + 1, t, u)') = 0
      BY <2>4, <3>3, <3>4
    <3> QED BY <3>5
  <2> QED BY <2>5, <2>6
<1>11. \A t, u \in entered'[K + 1] : t # u =>
         IF format' = "DOUBLE_ROUND_ROBIN" THEN Cardinality(Hosting(K + 1, t, u)') = 1
         ELSE Cardinality(Hosting(K + 1, t, u)') + Cardinality(Hosting(K + 1, u, t)') = 1
  BY <1>1, <1>7, <1>9, <1>10
<1> QED BY <1>6, <1>7, <1>11 DEF CompleteBatch

\* The games of a bracket are a tree.
LEMMA DrawnSound ==
  ASSUME GamesInv, PlanInv, NEW K \in Nat, Batches = 1..K,
         NEW new, NEW L, Drawn(new, L), TreePlan(new),
         NextCall(K)
  PROVE  SoundBatch(K + 1)'
<1>1. Len(games) \in Nat /\ L \in Nat /\ DOMAIN new = 1..L /\ DOMAIN games = 1..Len(games)
      /\ \A i \in 1..L : games'[Len(games) + i] = new[i]
  BY GamesFinite DEF Drawn
<1>2. PICK n \in Nat, k \in Nat : /\ k >= 1 /\ Power[k] >= n /\ Power[k] < 2 * n
                                  /\ Tree(new, k) /\ Seeded(new, n, k) /\ Enter(1..n)
  BY DEF TreePlan
<1>3. PICK o \in Nat : o = Len(games)
  BY <1>1
<1>4. \A i \in 1..L : new[i].round \in 1..k
  BY <1>1, <1>2 DEF Tree
<1>5. /\ \A i \in 1..L : o + i \in BatchGames(K + 1)' /\ games'[o + i] = new[i]
      /\ \A g \in BatchGames(K + 1)' : \E i \in 1..L : g = o + i
  <2>1. \A g : g \in BatchGames(K + 1)' <=>
          \E i \in 1..L : g = Len(games) + i /\ new[i].round > 0
    BY DrawnNumbers
  <2>2. \A i \in 1..L : new[i].round > 0
    BY <1>2, <1>4
  <2> QED BY <1>1, <1>3, <2>1, <2>2
<1>6. \A i, j \in 1..L : o + i = o + j => i = j
  BY <1>3
\* The links at the games of the tree are those of the tree.
<1>7. ASSUME NEW i \in 1..L, NEW l
      PROVE  /\ l \in LinksFrom(o + i)' <=>
                  \E j \in 1..L : Feeds(new[i], new[j]) /\ l = Link(new, i, j)
             /\ l \in LinksTo(o + i)' <=>
                  \E j \in 1..L : Feeds(new[j], new[i]) /\ l = Link(new, j, i)
  <2>1. \A m \in links : m.source \in 1..o /\ m.target \in 1..o
    BY <1>1, <1>3 DEF PlanInv
  <2>2. o + i \notin 1..o
    BY <1>3
  <2>3. l \in links' <=>
          l \in links \/ \E a, b \in 1..L : Feeds(new[a], new[b]) /\ l = Link(new, a, b)
    BY <1>1 DEF TreePlan
  <2>4. \A a, b \in 1..L : Link(new, a, b).source = o + a /\ Link(new, a, b).target = o + b
    BY <1>3 DEF Link
  <2>5. LinksFrom(o + i)' = {m \in links' : m.source = o + i}
    BY DEF LinksFrom
  <2>6. LinksTo(o + i)' = {m \in links' : m.target = o + i}
    BY DEF LinksTo
  <2>7. l \in LinksFrom(o + i)' => \E j \in 1..L : Feeds(new[i], new[j]) /\ l = Link(new, i, j)
    <3>1. SUFFICES ASSUME l \in links', l.source = o + i
                   PROVE  \E j \in 1..L : Feeds(new[i], new[j]) /\ l = Link(new, i, j)
      BY <2>5
    <3>2. l \notin links
      BY <2>1, <2>2, <3>1
    <3>3. PICK a \in 1..L, b \in 1..L : Feeds(new[a], new[b]) /\ l = Link(new, a, b)
      BY <2>3, <3>1, <3>2
    <3>4. a = i
      BY <1>6, <2>4, <3>1, <3>3
    <3> QED BY <3>3, <3>4
  <2>8. l \in LinksTo(o + i)' => \E j \in 1..L : Feeds(new[j], new[i]) /\ l = Link(new, j, i)
    <3>1. SUFFICES ASSUME l \in links', l.target = o + i
                   PROVE  \E j \in 1..L : Feeds(new[j], new[i]) /\ l = Link(new, j, i)
      BY <2>6
    <3>2. l \notin links
      BY <2>1, <2>2, <3>1
    <3>3. PICK a \in 1..L, b \in 1..L : Feeds(new[a], new[b]) /\ l = Link(new, a, b)
      BY <2>3, <3>1, <3>2
    <3>4. b = i
      BY <1>6, <2>4, <3>1, <3>3
    <3> QED BY <3>3, <3>4
  <2>9. ASSUME NEW j \in 1..L, Feeds(new[i], new[j]), l = Link(new, i, j) PROVE l \in LinksFrom(o + i)'
    BY <2>3, <2>4, <2>5, <2>9
  <2>10. ASSUME NEW j \in 1..L, Feeds(new[j], new[i]), l = Link(new, j, i) PROVE l \in LinksTo(o + i)'
    BY <2>3, <2>4, <2>6, <2>10
  <2> QED BY <2>7, <2>8, <2>9, <2>10
<1>8. /\ \A i \in 1..L : new[i].round # k => \E j \in 1..L : Feeds(new[i], new[j])
      /\ \A i, j \in 1..L : Feeds(new[i], new[j]) => new[i].round # k
      /\ \A i, j, x \in 1..L : Feeds(new[i], new[j]) /\ Feeds(new[i], new[x]) => j = x
      /\ \E f \in 1..L : \A i \in 1..L : new[i].round = k <=> i = f
      /\ \A j \in 1..L : new[j].round # 1 =>
           \E x, y \in 1..L :
             /\ new[x].slot % 2 = 0 /\ new[y].slot % 2 # 0
             /\ \A i \in 1..L : Feeds(new[i], new[j]) <=> i = x \/ i = y
  <2>1. PICK D : D = DOMAIN new
    OBVIOUS
  <2>2. /\ \A i \in D : new[i].round # k => \E j \in D : Feeds(new[i], new[j])
        /\ \A i, j \in D : Feeds(new[i], new[j]) => new[i].round # k
        /\ \A i, j, x \in D : Feeds(new[i], new[j]) /\ Feeds(new[i], new[x]) => j = x
        /\ \E f \in D : \A i \in D : new[i].round = k <=> i = f
        /\ \A j \in D : new[j].round # 1 =>
             \E x, y \in D :
               /\ new[x].slot % 2 = 0 /\ new[y].slot % 2 # 0
               /\ \A i \in D : Feeds(new[i], new[j]) <=> i = x \/ i = y
    BY <1>2, <2>1, TreeFeeds
  <2>3. D = 1..L
    BY <1>1, <2>1
  <2> HIDE <2>1
  <2> QED BY <2>2, <2>3
<1>9. /\ \A i, j \in 1..L : \A t :
           t # NoTeam /\ t \in {new[i].home, new[i].away} /\ t \in {new[j].home, new[j].away}
             => i = j
      /\ \A i \in 1..L : {new[i].home, new[i].away} \subseteq (1..n) \cup {NoTeam}
      /\ \A t \in 1..n : \E i \in 1..L : t \in {new[i].home, new[i].away}
  <2>1. \A i, j \in DOMAIN new : \A t :
          t # NoTeam /\ t \in {new[i].home, new[i].away} /\ t \in {new[j].home, new[j].away}
            => i = j
    BY <1>2, SeededOnce
  <2>2. \A i \in DOMAIN new : {new[i].home, new[i].away} \subseteq (1..n) \cup {NoTeam}
    BY <1>2, SeededOnce
  <2>3. \A t \in 1..n : \E i \in DOMAIN new : t \in {new[i].home, new[i].away}
    BY <1>2, SeededOnce
  <2> HIDE DEF NoTeam
  <2> QED BY <1>1, <2>1, <2>2, <2>3, Zenon
<1>10. entered'[K + 1] = 1..n
  <2>1. PICK m \in {K, K + 1} : Batches' = 1..m
    BY DrawnNumbers
  <2> QED BY <1>2, <2>1, EnteredNow DEF NextCall
<1>11. \A t \in Teams : Cardinality(Seen(K + 1, t)') = IF t \in entered'[K + 1] THEN 1 ELSE 0
  <2>1. SUFFICES ASSUME NEW t \in Teams
                 PROVE  Cardinality(Seen(K + 1, t)') = IF t \in 1..n THEN 1 ELSE 0
    BY <1>10
  <2>2. t # NoTeam
    BY DEF Teams, NoTeam
  <2>3. Seen(K + 1, t)' = {g \in BatchGames(K + 1)' : t \in {games'[g].home, games'[g].away}}
    BY DEF Seen
  <2>4. CASE t \in 1..n
    <3>1. PICK i \in 1..L : t \in {new[i].home, new[i].away}
      BY <1>9, <2>4
    <3>2. \A j \in 1..L : t \in {new[j].home, new[j].away} <=> j = i
      BY <1>9, <2>2, <3>1
    <3>3. Seen(K + 1, t)' = {o + i}
      BY <1>5, <2>3, <3>2
    <3> QED BY <2>4, <3>3, FS_Singleton
  <2>5. CASE t \notin 1..n
    <3>1. \A j \in 1..L : t \notin {new[j].home, new[j].away}
      BY <1>9, <2>2, <2>5
    <3>2. Seen(K + 1, t)' = {}
      BY <1>5, <2>3, <3>1
    <3> QED BY <2>5, <3>2, FS_EmptySet
  <2> QED BY <2>4, <2>5
<1>12. \A g \in Opening(K + 1)' : {games'[g].home, games'[g].away} # {NoTeam}
  <2>1. \A i \in 1..L : new[i].round = 1 => new[i].home # NoTeam
    BY <1>1, <1>2, SeededOnce
  <2>2. Opening(K + 1)' = {g \in BatchGames(K + 1)' : games'[g].round = 1}
    BY DEF Opening
  <2> QED BY <1>5, <2>1, <2>2
<1>13. Cardinality(Finals(K + 1)') = 1
  <2>1. PICK f \in 1..L : \A i \in 1..L : new[i].round = k <=> i = f
    BY <1>8
  <2>2. ASSUME NEW i \in 1..L PROVE LinksFrom(o + i)' = {} <=> i = f
    <3>1. CASE i = f
      <4>1. \A j \in 1..L : ~Feeds(new[i], new[j])
        BY <1>8, <2>1, <3>1
      <4> QED BY <1>7, <3>1, <4>1
    <3>2. CASE i # f
      <4>1. PICK j \in 1..L : Feeds(new[i], new[j])
        BY <1>8, <2>1, <3>2
      <4>2. Link(new, i, j) \in LinksFrom(o + i)'
        BY <1>7, <4>1
      <4> QED BY <3>2, <4>2
    <3> QED BY <3>1, <3>2
  <2>3. Finals(K + 1)' = {g \in BatchGames(K + 1)' : LinksFrom(g)' = {}}
    BY DEF Finals
  <2>4. Finals(K + 1)' = {o + f}
    BY <1>5, <2>2, <2>3
  <2> QED BY <2>4, FS_Singleton
<1>14. \A g \in BatchGames(K + 1)' : Cardinality(LinksFrom(g)') <= 1
  <2>1. SUFFICES ASSUME NEW i \in 1..L PROVE Cardinality(LinksFrom(o + i)') <= 1
    BY <1>5
  <2>2. \A l, m \in LinksFrom(o + i)' : l = m
    <3>1. SUFFICES ASSUME NEW l \in LinksFrom(o + i)', NEW m \in LinksFrom(o + i)' PROVE l = m
      OBVIOUS
    <3>2. PICK j \in 1..L, x \in 1..L : /\ Feeds(new[i], new[j]) /\ l = Link(new, i, j)
                                        /\ Feeds(new[i], new[x]) /\ m = Link(new, i, x)
      BY <1>7, <3>1
    <3> QED BY <1>8, <3>2
  <2> QED BY <2>2, AtMostOne
<1>15. \A g \in BatchGames(K + 1)' \ Opening(K + 1)' :
         {l.slot : l \in LinksTo(g)'} = {"HOME", "AWAY"} /\ Cardinality(LinksTo(g)') = 2
  <2>1. Opening(K + 1)' = {g \in BatchGames(K + 1)' : games'[g].round = 1}
    BY DEF Opening
  <2>2. SUFFICES ASSUME NEW i \in 1..L, new[i].round # 1
                 PROVE  /\ {l.slot : l \in LinksTo(o + i)'} = {"HOME", "AWAY"}
                        /\ Cardinality(LinksTo(o + i)') = 2
    BY <1>5, <2>1
  <2>3. PICK x \in 1..L, y \in 1..L :
          /\ new[x].slot % 2 = 0 /\ new[y].slot % 2 # 0
          /\ \A j \in 1..L : Feeds(new[j], new[i]) <=> j = x \/ j = y
    BY <1>8, <2>2
  <2>4. PICK l, m : l = Link(new, x, i) /\ m = Link(new, y, i)
    OBVIOUS
  <2>5. l.slot = "HOME" /\ m.slot = "AWAY"
    BY <2>3, <2>4 DEF Link
  <2>6. LinksTo(o + i)' = {l, m}
    BY <1>7, <2>3, <2>4
  <2>7. l # m
    BY <2>5
  <2>8. {e.slot : e \in {l, m}} = {"HOME", "AWAY"}
    BY <2>5
  <2> QED BY <2>6, <2>7, <2>8, TwoElements
<1> QED BY <1>11, <1>12, <1>13, <1>14, <1>15 DEF SoundBatch, Teams

\* A call leaves the schedules of earlier calls alone.
LEMMA EarlierBatches ==
  ASSUME GamesInv, PlanInv, NEW K \in Nat, Batches = 1..K, NEW new, NEW L, Drawn(new, L),
         SinglePlan(new) \/ RoundPlan(new) \/ TreePlan(new), NEW b \in 1..K,
         entered'[b] = entered[b]
  PROVE  /\ BatchGames(b)' = BatchGames(b)
         /\ CompleteBatch(b) => CompleteBatch(b)'
         /\ SoundBatch(b) => SoundBatch(b)'
<1>1. /\ Len(games) \in Nat /\ DOMAIN games = 1..Len(games) /\ DOMAIN new = 1..L /\ L \in Nat
      /\ UNCHANGED format /\ \A g \in DOMAIN games : games'[g] = games[g]
  BY GamesFinite DEF Drawn
<1>2. BatchGames(b)' = BatchGames(b)
  BY DrawnNumbers
<1>3. BatchGames(b) \subseteq DOMAIN games
  BY DEF BatchGames
<1>4. ASSUME NEW g \in DOMAIN games, NEW l
      PROVE  /\ l \in links' /\ l.source = g <=> l \in links /\ l.source = g
             /\ l \in links' /\ l.target = g <=> l \in links /\ l.target = g
  <2>1. CASE links' = links
    BY <2>1
  <2>2. CASE TreePlan(new)
    <3>1. l \in links' <=> l \in links \/ \E i, j \in 1..L : Feeds(new[i], new[j]) /\ l = Link(new, i, j)
      BY <1>1, <2>2 DEF TreePlan
    <3>2. ASSUME NEW i \in 1..L, NEW j \in 1..L, l = Link(new, i, j)
          PROVE  l.source # g /\ l.target # g
      <4>1. l.source = Len(games) + i /\ l.target = Len(games) + j
        BY <3>2 DEF Link
      <4>2. g \in 1..Len(games)
        BY <1>1
      <4> QED BY <1>1, <4>1, <4>2
    <3> QED BY <3>1, <3>2
  <2> QED BY <2>1, <2>2 DEF SinglePlan, RoundPlan
<1>5. \A g \in BatchGames(b) : LinksFrom(g)' = LinksFrom(g) /\ LinksTo(g)' = LinksTo(g)
  <2>1. SUFFICES ASSUME NEW g \in DOMAIN games
                 PROVE  LinksFrom(g)' = LinksFrom(g) /\ LinksTo(g)' = LinksTo(g)
    BY <1>3
  <2>2. LinksFrom(g)' = {l \in links' : l.source = g} /\ LinksTo(g)' = {l \in links' : l.target = g}
    BY DEF LinksFrom, LinksTo
  <2>3. LinksFrom(g) = {l \in links : l.source = g} /\ LinksTo(g) = {l \in links : l.target = g}
    BY DEF LinksFrom, LinksTo
  <2>4. LinksFrom(g)' = LinksFrom(g)
    BY <1>4, <2>2, <2>3
  <2>5. LinksTo(g)' = LinksTo(g)
    BY <1>4, <2>2, <2>3
  <2> QED BY <2>4, <2>5
<1>6. \A g \in BatchGames(b) : /\ games'[g].home = games[g].home /\ games'[g].away = games[g].away
                               /\ games'[g].round = games[g].round
  BY <1>1, <1>3
<1> QED BY <1>1, <1>2, <1>5, <1>6, BatchStays

LEMMA FixturesSchedule ==
  ASSUME GamesInv, PlanInv, SchedulesInv, Fixtures
  PROVE  SchedulesInv'
<1>1. PICK new, L : Drawn(new, L) /\ (SinglePlan(new) \/ RoundPlan(new) \/ TreePlan(new))
  BY FixturesDraw
<1>2. PICK K \in Nat : Batches = 1..K
  BY DEF SchedulesInv
<1>3. PICK k \in {K, K + 1} : Batches' = 1..k
  BY <1>1, <1>2, DrawnNumbers
<1>4. \A b \in 1..k : b \in 1..K \/ b = K + 1
  BY <1>2, <1>3
<1>5. UNCHANGED format
  BY <1>1 DEF Drawn
<1>6. /\ DOMAIN entered' = Batches' /\ \A b \in 1..K : entered'[b] = entered[b]
      /\ SinglePlan(new) /\ K + 1 \in Batches' => entered'[K + 1] = {}
  <2>1. DOMAIN entered = Batches
    BY DEF SchedulesInv
  <2>2. ASSUME NEW teams, Enter(teams)
        PROVE  /\ DOMAIN entered' = Batches' /\ \A b \in 1..K : entered'[b] = entered[b]
               /\ K + 1 \in Batches' => entered'[K + 1] = teams
    BY <1>2, <1>3, <2>1, <2>2, EnteredNow
  <2>3. \E teams : Enter(teams)
    <3>1. CASE SinglePlan(new)
      BY <3>1, Zenon DEF SinglePlan
    <3>2. CASE RoundPlan(new)
      BY <3>2, Zenon DEF RoundPlan
    <3>3. CASE TreePlan(new)
      BY <3>3, Zenon DEF TreePlan
    <3> QED BY <1>1, <3>1, <3>2, <3>3
  <2>4. SinglePlan(new) => Enter({})
    BY DEF SinglePlan
  <2> HIDE DEF Enter
  <2> QED BY <2>2, <2>3, <2>4
<1>7. SinglePlan(new) => BatchGames(K + 1)' = {}
  <2>1. SUFFICES ASSUME SinglePlan(new), NEW g \in BatchGames(K + 1)' PROVE FALSE
    OBVIOUS
  <2>2. PICK i \in 1..L : new[i].round > 0
    BY <1>1, <1>2, <2>1, DrawnNumbers
  <2>3. i \in DOMAIN new
    BY <1>1 DEF Drawn
  <2>4. new[i].round = 0
    BY <2>1, <2>3 DEF SinglePlan
  <2> QED BY <2>2, <2>4
<1>8. format \in RoundRobins /\ K + 1 \in Batches' => CompleteBatch(K + 1)'
  <2>1. SUFFICES ASSUME format \in RoundRobins, K + 1 \in Batches' PROVE CompleteBatch(K + 1)'
    OBVIOUS
  <2>2. CASE SinglePlan(new)
    BY <1>6, <1>7, <2>1, <2>2 DEF CompleteBatch
  <2>3. CASE RoundPlan(new)
    BY <1>1, <1>2, <2>1, <2>3, DrawnComplete DEF SchedulesInv, NextCall
  <2>4. CASE TreePlan(new)
    BY <2>1, <2>4 DEF TreePlan, Brackets, RoundRobins
  <2> QED BY <1>1, <2>2, <2>3, <2>4
<1>9. format \in Brackets /\ K + 1 \in Batches' => entered'[K + 1] = {} \/ SoundBatch(K + 1)'
  <2>1. SUFFICES ASSUME format \in Brackets, K + 1 \in Batches'
                 PROVE  entered'[K + 1] = {} \/ SoundBatch(K + 1)'
    OBVIOUS
  <2>2. CASE RoundPlan(new)
    BY <2>1, <2>2 DEF RoundPlan, Brackets, RoundRobins
  <2>3. CASE TreePlan(new)
    BY <1>1, <1>2, <2>1, <2>3, DrawnSound DEF SchedulesInv, NextCall
  <2> QED BY <1>1, <1>6, <2>1, <2>2, <2>3
<1>10. ASSUME NEW b \in 1..K
       PROVE  /\ CompleteBatch(b) => CompleteBatch(b)'
              /\ SoundBatch(b) => SoundBatch(b)'
  BY <1>1, <1>2, <1>6, EarlierBatches
<1>11. ASSUME format' \in RoundRobins, NEW b \in Batches' PROVE CompleteBatch(b)'
  <2>1. CASE b \in 1..K
    BY <1>2, <1>5, <1>10, <1>11, <2>1 DEF SchedulesInv
  <2>2. CASE b = K + 1
    BY <1>5, <1>8, <1>11, <2>2
  <2> QED BY <1>3, <1>4, <1>11, <2>1, <2>2
<1>12. ASSUME format' \in Brackets, NEW b \in Batches', entered'[b] # {} PROVE SoundBatch(b)'
  <2>1. CASE b \in 1..K
    BY <1>2, <1>5, <1>6, <1>10, <1>12, <2>1 DEF SchedulesInv
  <2>2. CASE b = K + 1
    BY <1>5, <1>9, <1>12, <2>2
  <2> QED BY <1>3, <1>4, <1>12, <2>1, <2>2
<1>13. \E m \in Nat : Batches' = 1..m
  BY <1>2, <1>3
<1> QED BY <1>6, <1>11, <1>12, <1>13 DEF SchedulesInv

\* Results and handlers leave who meets whom, in which round, alone.
LEMMA SameGamesSchedule ==
  ASSUME SchedulesInv, UNCHANGED <<format, links, entered>>, DOMAIN games' = DOMAIN games,
         \A g \in DOMAIN games : /\ games'[g].home = games[g].home
                                 /\ games'[g].away = games[g].away
                                 /\ games'[g].round = games[g].round
                                 /\ games'[g].batch = games[g].batch
  PROVE  SchedulesInv'
<1>1. Batches' = Batches
  <2>1. Batches' = {games'[g].batch : g \in DOMAIN games}
    BY DEF Batches
  <2> QED BY <2>1 DEF Batches
<1>2. ASSUME NEW b PROVE BatchGames(b)' = BatchGames(b)
  <2>1. BatchGames(b)' = {g \in DOMAIN games : games'[g].batch = b /\ games'[g].round > 0}
    BY DEF BatchGames
  <2> QED BY <2>1 DEF BatchGames
<1>3. \A g : LinksFrom(g)' = LinksFrom(g) /\ LinksTo(g)' = LinksTo(g)
  BY DEF LinksFrom, LinksTo
<1>4. ASSUME NEW b
      PROVE  (CompleteBatch(b) => CompleteBatch(b)') /\ (SoundBatch(b) => SoundBatch(b)')
  <2>1. \A g \in BatchGames(b) : g \in DOMAIN games
    BY DEF BatchGames
  <2> QED BY <1>2, <1>3, <2>1, BatchStays
<1> QED BY <1>1, <1>2, <1>4 DEF SchedulesInv

LEMMA ResultsSchedule ==
  ASSUME GamesInv, SchedulesInv, ResultsChange
  PROVE  SchedulesInv'
<1>1. PICK g \in DOMAIN games :
        \/ \E score \in Scores : Finish(g, score)
        \/ \E winner \in Teams : SetStatus(g, "FORFEITED", winner)
        \/ \E new \in {"POSTPONED", "CANCELLED", "ABANDONED"} : SetStatus(g, new, NoTeam)
  BY DEF ResultsChange
<1>2. games[g] \in GameRow
  BY GamesFinite
<1> DEFINE SamePlan(row) == /\ row.home = games[g].home /\ row.away = games[g].away
                            /\ row.round = games[g].round /\ row.batch = games[g].batch
<1>3. \E row : games' = [games EXCEPT ![g] = row] /\ UNCHANGED <<format, links, entered>> /\ SamePlan(row)
  <2>1. ASSUME NEW score \in Scores, Finish(g, score)
        PROVE  \E row : games' = [games EXCEPT ![g] = row] /\ UNCHANGED <<format, links, entered>> /\ SamePlan(row)
    <3>1. PICK row :
            row = [games[g] EXCEPT !.status = "FINAL", !.version = games[g].version + Versions,
                                   !.homeScore = score[1], !.awayScore = score[2]]
      OBVIOUS
    <3>2. games' = [games EXCEPT ![g] = row] /\ UNCHANGED <<format, links, entered>>
      BY <2>1, <3>1 DEF Finish
    <3>3. SamePlan(row)
      BY <1>2, <3>1 DEF GameRow
    <3> HIDE DEF SamePlan
    <3> QED BY <3>2, <3>3
  <2>2. ASSUME NEW new, NEW winner, SetStatus(g, new, winner)
        PROVE  \E row : games' = [games EXCEPT ![g] = row] /\ UNCHANGED <<format, links, entered>> /\ SamePlan(row)
    <3>1. PICK game, row :
            /\ game = (IF new = "FORFEITED"
                       THEN [games[g] EXCEPT
                               !.homeScore = IF winner = games[g].home THEN ForfeitFor ELSE ForfeitAgainst,
                               !.awayScore = IF winner = games[g].away THEN ForfeitFor ELSE ForfeitAgainst,
                               !.explained = TRUE]
                       ELSE games[g])
            /\ row = [game EXCEPT !.status = new, !.version = games[g].version + 1]
      OBVIOUS
    <3>2. games' = [games EXCEPT ![g] = row] /\ UNCHANGED <<format, links, entered>>
      BY <2>2, <3>1 DEF SetStatus
    <3>3. SamePlan(game)
      BY <1>2, <3>1 DEF GameRow
    <3>4. {"home", "away", "round", "batch"} \subseteq DOMAIN game
      BY <1>2, <3>1 DEF GameRow
    <3>5. row.home = game.home /\ row.away = game.away /\ row.round = game.round /\ row.batch = game.batch
      BY <3>1, <3>4
    <3>6. SamePlan(row)
      BY <3>3, <3>5
    <3> HIDE DEF SamePlan
    <3> QED BY <3>2, <3>6
  <2> HIDE DEF SamePlan
  <2> QED BY <1>1, <2>1, <2>2
<1>4. PICK row : games' = [games EXCEPT ![g] = row] /\ UNCHANGED <<format, links, entered>> /\ SamePlan(row)
  BY <1>3
<1>5. DOMAIN games' = DOMAIN games
  BY <1>4
<1>6. ASSUME NEW h \in DOMAIN games
      PROVE  /\ games'[h].home = games[h].home /\ games'[h].away = games[h].away
             /\ games'[h].round = games[h].round /\ games'[h].batch = games[h].batch
  BY <1>4
<1> QED BY <1>4, <1>5, <1>6, SameGamesSchedule

LEMMA SchedulesInit == Init => SchedulesInv
<1>1. SUFFICES ASSUME Init PROVE SchedulesInv
  OBVIOUS
<1>2. DOMAIN games = {}
  BY <1>1 DEF Init
<1>3. Batches = {}
  BY <1>2 DEF Batches
<1>4. Batches = 1..0
  BY <1>3
<1>5. DOMAIN entered = {}
  BY <1>1 DEF Init
<1> QED BY <1>3, <1>4, <1>5 DEF SchedulesInv

LEMMA SchedulesStep == StageInv /\ SchedulesInv /\ [Next]_vars => SchedulesInv'
<1>1. SUFFICES ASSUME StageInv, SchedulesInv, [Next]_vars PROVE SchedulesInv'
  OBVIOUS
<1>2. GamesInv /\ PlanInv
  BY <1>1 DEF StageInv, Types
<1>3. CASE Fixtures
  BY <1>1, <1>2, <1>3, FixturesSchedule
<1>4. CASE ResultsChange
  BY <1>1, <1>2, <1>4, ResultsSchedule
<1>5. CASE UNCHANGED gameVars
  BY <1>1, <1>5, SameGamesSchedule DEF gameVars
<1>6. CASE Recalculation \/ ManualOverride
  <2>1. UNCHANGED gameVars
    BY <1>6 DEF Recalculation, ManualOverride, ReadGames, ReadStandings, Rewrite, GiveUp,
                FindRow, UpdateRow
  <2> QED BY <1>5, <2>1
<1>7. CASE UNCHANGED vars
  BY <1>5, <1>7 DEF vars, gameVars
<1> QED BY <1>1, <1>3, <1>4, <1>6, <1>7 DEF Next

\* Every call has drawn a good schedule, and it is as drawn.
THEOREM SchedulesSafe == Spec => []SchedulesInv
<1>1. Init => SchedulesInv
  BY SchedulesInit
<1>2. StageInv /\ SchedulesInv /\ [Next]_vars => SchedulesInv'
  BY SchedulesStep
<1> QED BY <1>1, <1>2, StageSafe, PTL DEF Spec

\* generateRoundRobin (competition/round-robin.ts:8-45, games.service.ts:39-84): for every number
\* of teams, byes included, every two teams of a call meet once, or once at each other's home,
\* nobody else plays, and nobody has two games in one round, whatever is played or added later.
THEOREM SchedulesComplete == Spec => []RoundRobinComplete
<1>1. SchedulesInv => RoundRobinComplete
  BY SchedulesGood
<1> QED BY <1>1, SchedulesSafe, PTL

\* generateBracket (competition/bracket.ts:10-43, games.service.ts:86-176): for every number of
\* teams a call draws one tree, in which each of those teams, and nobody else, enters exactly
\* once, every first game has an opponent or a bye, and every later one waits for the winners
\* of two.
THEOREM BracketsSound == Spec => []BracketSound
<1>1. SchedulesInv => BracketSound
  BY SchedulesGood
<1> QED BY <1>1, SchedulesSafe, PTL
=============================================================================
