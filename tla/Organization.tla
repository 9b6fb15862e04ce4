----------------------------- MODULE Organization -----------------------------
(***************************************************************************)
(* An organization at work: its requests for roles, registration, rosters  *)
(* and media overlap, and share the roles that the guard checks.           *)
(***************************************************************************)
EXTENDS Media

CONSTANTS
  RolesGiven,  \* bound: roles in invitations and assignments
  MaxAreas     \* bound: areas of work in one behaviour

ASSUME OrganizationAssumption == RolesGiven \subseteq Roles /\ MaxAreas \in Nat

VARIABLE areas   \* for the bound

vars == <<accessVars, registrationVars, rosterVars, mediaVars, areas>>

Init == AccessInit /\ RegistrationInit /\ RostersInit /\ MediaInit /\ areas = {}

In(area) == areas' = areas \cup {area} /\ Cardinality(areas') <= MaxAreas

\* A request is refused by its handler, by a constraint of the database, or cut short.
Fail(r) ==
  /\ requests[r] # Idle
  /\ End(r)
  /\ UNCHANGED <<beforeMedia, overtaken, mediaVars>>

RoleSteps ==
  \/ \E user \in Users, role \in RolesGiven : CreateInvitation(user, role) \/ Assign(user, role)
  \/ \E i \in DOMAIN invitations :
       SendInvitation(i) \/ \E r \in Requests : AcceptRead(r, i)
  \/ \E r \in Requests : AcceptCommit(r)
  \/ Expire

RegistrationSteps ==
  \/ \E user \in Users :
       \/ \E status \in TournamentStatuses : UpdateTournament(user, status)
       \/ CreateCorrectionRequest(user)
       \/ \E r \in Requests :
            \/ ApplyRead(r, user)
            \/ \E decision \in Decisions :
                 \/ DecideRead(r, user, decision)
                 \/ \E i \in DOMAIN corrections : ResolveRead(r, user, i, decision)
  \/ \E r \in Requests :
       SubmitTeamApplication(r) \/ DecideTeamApplication(r) \/ ResolveCorrectionRequest(r)

RosterSteps ==
  \/ \E user \in Users :
       \/ \E player \in Players :
            \/ CreateOrArchivePlayer(user, player)
            \/ \E r \in Requests, jersey \in Jerseys : EditRead(r, user, player, jersey)
       \/ CreateRoster(user) \/ SubmitRoster(user)
       \/ \E r \in Requests, decision \in ReviewDecisions : OpenReview(r, user, decision)
  \/ \E r \in Requests : UpsertRosterPlayer(r) \/ DecideRoster(r)

MediaSteps ==
  \/ \E user \in Users : UpdateTeam(user) \/ \E r \in Requests : RequestUpload(r, user)
  \/ \E r \in Requests :
       \/ \E matches \in BOOLEAN : CompleteRead(r, matches)
       \/ RejectUpload(r) \/ CompleteUpload(r) \/ ReplaceRead(r) \/ ReplaceTeamLogo(r)
  \/ \E a \in DOMAIN assets : MarkForDeletion(a)

Next ==
  \/ In("roles") /\ RoleSteps /\ UNCHANGED <<registrationVars, rosterVars, mediaVars>>
  \/ In("registration") /\ RegistrationSteps /\ UNCHANGED <<rosterVars, mediaVars>>
  \/ In("rosters") /\ RosterSteps /\ UNCHANGED mediaVars
  \/ In("media") /\ MediaSteps
  \/ \E r \in Requests : Fail(r) /\ UNCHANGED areas

Spec == Init /\ [][Next]_vars
-----------------------------------------------------------------------------
TypeOK ==
  /\ coaches \subseteq members /\ members \subseteq Users
  /\ \A g \in grants : /\ g.user \in members /\ g.role \in Roles
                       /\ g.invitation \in 0..Len(invitations)
  /\ \A i \in DOMAIN invitations :
       invitations[i].state \in {"queued", "sent", "accepted", "expired"}
  /\ tournament \in TournamentStatuses
  /\ application \in {"NONE", "OPEN"} \cup Decisions
  /\ players \subseteq Players
  /\ roster.status \in {"NONE"} \cup RosterStatuses
  /\ \A p, q \in Players : roster.lineup[p] = roster.lineup[q] => p = q \/ roster.lineup[p] = 0
  /\ \A s \in DOMAIN submissions : submissions[s].decision \in {"SUBMITTED"} \cup ReviewDecisions
  /\ team.logo \in 0..Len(assets)
  /\ \A a \in DOMAIN assets : assets[a] \in {"PENDING_UPLOAD", "AVAILABLE", "REJECTED", "REPLACED",
                                             "DELETION_PENDING"}

\* However submissions and reviews overlap, a roster and its latest submission tell the
\* same, every earlier submission was sent back and announced, and what a reviewer has
\* decided is what the reviewer saw and what the team submitted, except for a player saved
\* by a request that had found the roster in editing.
ReviewHolds ==
  LET last == Len(submissions)
  IN
  /\ roster.status \in {"NONE", "DRAFT"} <=> last = 0
  /\ last > 0 => roster.status = submissions[last].decision
  /\ \A s \in 1..(last - 1) : submissions[s].decision = "CHANGES_REQUESTED"
  /\ \A s \in 1..last : submissions[s].decision # "SUBMITTED" <=> s \in announced
  /\ <<"roster">> \notin overtaken =>
       /\ roster.status \in {"SUBMITTED", "APPROVED", "REJECTED"}
            => roster.lineup = submissions[last].lineup
       /\ \A s \in 1..last : submissions[s].decision # "SUBMITTED"
            => submissions[s].seen = submissions[s].lineup

\* Decisions stand: an approved application is a registration and the other way round,
\* unless decisions or submissions of the same application overlapped, and a correction
\* is decided once, however many organizers decide it.
DecisionsStand ==
  /\ application = "APPROVED" => registered
  /\ registered /\ <<"application">> \notin overtaken => application = "APPROVED"
  /\ \A i \in DOMAIN corrections :
       corrections[i].audits = IF corrections[i].status = "OPEN" THEN 0 ELSE 1

\* An invitation gives its role once, unless two acceptances of it overlapped.
InvitationsGrantOnce ==
  \A i \in DOMAIN invitations :
    /\ invitations[i].state = "accepted" <=> invitations[i].given > 0
    /\ <<"invitation", i>> \notin overtaken => invitations[i].given <= 1

\* The logo can be shown, and what was a logo before goes away in the end: it waits for
\* its clean-up or is marked for deletion, unless two replacements overlapped.
OldLogosRetired ==
  /\ team.logo # 0 => assets[team.logo] = "AVAILABLE"
  /\ \A a \in worn \ {team.logo} :
       \/ assets[a] = "REPLACED" /\ a \in cleanups
       \/ assets[a] = "DELETION_PENDING"
       \/ <<"logo", a>> \in overtaken
=============================================================================
