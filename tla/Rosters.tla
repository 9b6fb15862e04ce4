-------------------------------- MODULE Rosters --------------------------------
(***************************************************************************)
(* Players and the roster of the team for the tournament                   *)
(* (apps/api/src/management/management.service.ts), edited on the portal's *)
(* page teams and reviewed on its page roster-review.                      *)
(***************************************************************************)
EXTENDS Registration

CONSTANTS
  Players,   \* players the team may have
  Jerseys    \* jersey numbers

ASSUME RostersAssumption == Jerseys \subseteq Nat \ {0}

VARIABLES
  players,      \* active players of the team
  roster,       \* the Roster row with its RosterPlayer rows (0: not in the roster)
  submissions,  \* RosterSubmission rows; "lineup" and "seen" are history
  announced     \* outbox events roster.approved and roster.corrections-requested

rosterVars == <<players, roster, submissions, announced>>
beforeRosters == <<rolesVars, registered, registrationVars>>

Nobody == [p \in Players |-> 0]
RosterStatuses == {"DRAFT", "SUBMITTED", "CHANGES_REQUESTED", "APPROVED", "REJECTED"}
ReviewDecisions == {"APPROVED", "REJECTED", "CHANGES_REQUESTED"}

\* A submission, with the lineup that was submitted, and the one that its reviewer sees.
Submission(lineup) == [decision |-> "SUBMITTED", lineup |-> lineup, seen |-> Nobody]

\* A registered team may have a roster of one player, drafted or submitted.
RostersInit ==
  \E player \in Players, jersey \in Jerseys, status \in {"NONE", "DRAFT", "SUBMITTED"} :
    LET lineup == [Nobody EXCEPT ![player] = jersey]
    IN
    /\ status = "NONE" \/ registered
    /\ players = {player}
    /\ roster = [status |-> status, version |-> IF status = "SUBMITTED" THEN 2 ELSE 1,
                 lineup |-> IF status = "NONE" THEN Nobody ELSE lineup]
    /\ submissions = IF status = "SUBMITTED" THEN <<Submission(lineup)>> ELSE <<>>
    /\ announced = {}
-----------------------------------------------------------------------------
\* createPlayer and archivePlayer, one statement each.  updatePlayer changes nothing that
\* rosters depend on.
CreateOrArchivePlayer(user, player) ==
  /\ ListsTeam(user)
  /\ AtOnce(user, "team", {"team"})
  /\ players' = IF player \in players THEN players \ {player} ELSE players \cup {player}
  /\ UNCHANGED <<beforeRosters, overtaken, roster, submissions, announced>>

\* createRoster finds the team registered; a unique index admits one roster.
CreateRoster(user) ==
  /\ ListsTeam(user) /\ registered
  /\ AtOnce(user, "roster", {"team", "tournament"})
  /\ roster.status = "NONE"
  /\ roster' = [roster EXCEPT !.status = "DRAFT"]
  /\ UNCHANGED <<beforeRosters, overtaken, players, submissions, announced>>

\* Variant: a roster may be edited until it is decided.
EditableUntilDecided == roster.status \in {"DRAFT", "CHANGES_REQUESTED", "SUBMITTED"}

Editable == roster.status \in {"DRAFT", "CHANGES_REQUESTED"}

\* The page teams offers rosters in editing, and the players of the team.
OffersEditing(user, player) == ListsTeam(user) /\ Editable /\ player \in players

\* upsertRosterPlayer finds the roster and the player ...
EditRead(r, user, player, jersey) ==
  /\ OffersEditing(user, player)
  /\ Begin(r, user, "roster", {"team"}, [op |-> "edit", player |-> player, jersey |-> jersey])
  /\ UNCHANGED <<beforeRosters, overtaken, rosterVars>>

\* ... and writes to whatever the roster has become.  Two players never share a jersey,
\* and the roster's version stays.
UpsertRosterPlayer(r) ==
  LET player == requests[r].player
      jersey == requests[r].jersey
  IN
  /\ requests[r].op = "edit"
  /\ \A p \in Players \ {player} : roster.lineup[p] # jersey
  /\ roster' = [roster EXCEPT !.lineup[player] = jersey]
  /\ overtaken' = IF Editable THEN overtaken ELSE overtaken \cup {<<"roster">>}
  /\ End(r)
  /\ UNCHANGED <<beforeRosters, players, submissions, announced>>
-----------------------------------------------------------------------------
\* The page teams has a button for rosters in editing that have players.
OffersSubmission(user) == ListsTeam(user) /\ Editable /\ roster.lineup # Nobody

\* submitRoster: conditional on the version that the page shows.
SubmitRoster(user) ==
  /\ OffersSubmission(user)
  /\ AtOnce(user, "roster", {"team"})
  /\ roster' = [roster EXCEPT !.status = "SUBMITTED", !.version = @ + 1]
  /\ submissions' = Append(submissions, Submission(roster.lineup))
  /\ UNCHANGED <<beforeRosters, overtaken, players, announced>>

\* A reviewer opens the page roster-review.  The route of the decision names no
\* tournament, but its body may: without it, a tournament-manager lists the roster and is
\* refused.
OpenReview(r, user, decision) ==
  /\ Lists(user, "tournament") /\ roster.status = "SUBMITTED"
  /\ \E resources \in {{}, {"tournament"}} :
       Begin(r, user, "approve", resources,
             [op |-> "review", decision |-> decision, expected |-> roster.version,
              seen |-> roster.lineup])
  /\ UNCHANGED <<beforeRosters, overtaken, rosterVars>>

Reviewable(r) == roster.status = "SUBMITTED" /\ requests[r].expected = roster.version

\* decideRoster: the roster, its latest submission that is not decided, and the outbox
\* event.
DecideRoster(r) ==
  LET undecided == {s \in DOMAIN submissions : submissions[s].decision = "SUBMITTED"}
      latest    == CHOOSE s \in undecided : \A t \in undecided : t <= s
  IN
  /\ requests[r].op = "review"
  /\ Reviewable(r) /\ undecided # {}
  /\ roster' = [roster EXCEPT !.status = requests[r].decision, !.version = @ + 1]
  /\ submissions' = [submissions EXCEPT ![latest].decision = requests[r].decision,
                                        ![latest].seen = requests[r].seen]
  /\ announced' = announced \cup {latest}
  /\ End(r)
  /\ UNCHANGED <<beforeRosters, overtaken, players>>
=============================================================================
