----------------------------- MODULE Registration -----------------------------
(***************************************************************************)
(* The team's way into the tournament, and requests for correction         *)
(* (apps/api/src/management/management.service.ts), as the portal's pages  *)
(* teams and requests drive them.                                          *)
(***************************************************************************)
EXTENDS Access

VARIABLES
  tournament,   \* status of the Tournament row
  application,  \* status of the TeamApplication row, "NONE" before the first
  corrections   \* CorrectionRequest rows: status, and their audit entries

registrationVars == <<tournament, application, corrections>>

TournamentStatuses == {"REGISTRATION", "ACTIVE"}
Decisions == {"APPROVED", "REJECTED"}

RegistrationInit ==
  /\ tournament = "REGISTRATION"
  /\ registered \in BOOLEAN
  /\ application = IF registered THEN "APPROVED" ELSE "NONE"
  /\ corrections = <<>>

\* updateTournament: one statement, conditional on the version that its page shows.  A
\* page that is behind changes nothing.
UpdateTournament(user, status) ==
  /\ Lists(user, "tournament")
  /\ AtOnce(user, "tournament", {"tournament"})
  /\ tournament' = status
  /\ UNCHANGED <<rolesVars, registered, overtaken, application, corrections>>
-----------------------------------------------------------------------------
\* The page teams lets the user apply for a tournament that is open for registration;
\* the server refuses a team that is registered.
OffersApplication(user) == ListsTeam(user) /\ tournament = "REGISTRATION" /\ ~registered

\* submitTeamApplication reads the tournament and the registration ...
ApplyRead(r, user) ==
  /\ OffersApplication(user)
  /\ Begin(r, user, "team", {"tournament", "team"}, [op |-> "apply"])
  /\ UNCHANGED <<rolesVars, registered, overtaken, registrationVars>>

\* ... and opens the application, again if it was decided.
SubmitTeamApplication(r) ==
  /\ requests[r].op = "apply"
  /\ application' = "OPEN"
  /\ overtaken' = IF registered THEN overtaken \cup {<<"application">>} ELSE overtaken
  /\ End(r)
  /\ UNCHANGED <<rolesVars, registered, tournament, corrections>>

\* Variant: a decision may be changed.
DecidableAgain == application # "NONE"

\* No code sets IN_REVIEW.
Decidable == application = "OPEN"

\* The page requests has buttons for the applications that are open.
OffersDecision(user) == Lists(user, "tournament") /\ Decidable

\* decideTeamApplication reads the application ...
DecideRead(r, user, decision) ==
  /\ OffersDecision(user)
  /\ Begin(r, user, "tournament", {"tournament"}, [op |-> "decide", decision |-> decision])
  /\ UNCHANGED <<rolesVars, registered, overtaken, registrationVars>>

\* ... and updates it by its id.
DecideTeamApplication(r) ==
  /\ requests[r].op = "decide"
  /\ application' = requests[r].decision
  /\ registered' = (registered \/ requests[r].decision = "APPROVED")
  /\ overtaken' = IF Decidable THEN overtaken ELSE overtaken \cup {<<"application">>}
  /\ End(r)
  /\ UNCHANGED <<rolesVars, tournament, corrections>>
-----------------------------------------------------------------------------
\* The resource that the request names is the team, for a tournament it is registered for.
ValidCorrectionResource == registered

\* createCorrectionRequest, from the page teams, finds the team registered, which it never
\* ceases to be.
CreateCorrectionRequest(user) ==
  /\ ListsTeam(user) /\ ValidCorrectionResource
  /\ AtOnce(user, "team", {"tournament", "team"})
  /\ Len(corrections) < MaxRows
  /\ corrections' = Append(corrections, [status |-> "OPEN", audits |-> 0])
  /\ UNCHANGED <<rolesVars, registered, overtaken, tournament, application>>

\* The page requests has buttons for the corrections that are open.
OffersResolution(user, i) == Lists(user, "tournament") /\ corrections[i].status = "OPEN"

\* resolveCorrectionRequest finds it open in the list ...
ResolveRead(r, user, i, decision) ==
  /\ OffersResolution(user, i)
  /\ Begin(r, user, "tournament", {"tournament"},
           [op |-> "resolve", correction |-> i, decision |-> decision])
  /\ UNCHANGED <<rolesVars, registered, overtaken, registrationVars>>

\* ... and updates it where it is still open, with its audit entry.
OpenCorrection(i) == corrections[i].status = "OPEN"

ResolveCorrectionRequest(r) ==
  LET i == requests[r].correction
  IN
  /\ requests[r].op = "resolve"
  /\ OpenCorrection(i)
  /\ corrections' = [corrections EXCEPT ![i] = [status |-> requests[r].decision,
                                                audits |-> @.audits + 1]]
  /\ End(r)
  /\ UNCHANGED <<rolesVars, registered, overtaken, tournament, application>>
=============================================================================
