-------------------------------- MODULE Access --------------------------------
(***************************************************************************)
(* Who may do what in one organization: system roles, their assignments    *)
(* and their scopes (apps/api/src/authorization), invitations to roles     *)
(* (invitations.service.ts), and the lists from which the portal's pages   *)
(* are built (access.service.ts).                                          *)
(*                                                                         *)
(* PermissionGuard decides when a request arrives.  Its handler reads and  *)
(* writes later, at READ COMMITTED, whatever has changed since: a request  *)
(* is a record of what it has read so far.  There is one tournament and    *)
(* one team; other resources differ from them in nothing that matters      *)
(* here.                                                                   *)
(***************************************************************************)
EXTENDS Naturals, Sequences, FiniteSets

CONSTANTS
  Users,      \* accounts
  Admin,      \* the user whom the bootstrap has made an administrator
  Requests,   \* requests at work
  MaxActs,    \* bound: requests and expiries together
  MaxRows     \* bound: invitations, corrections and media assets, each

ASSUME AccessAssumption == Admin \in Users /\ MaxActs \in Nat /\ MaxRows \in Nat

Roles == {"organization-admin", "tournament-manager", "coach"}

VARIABLES
  members,      \* users with an ACTIVE OrganizationMembership
  grants,       \* MembershipRole rows; equal ones count once
  coaches,      \* users with an active TeamMembership
  invitations,  \* Invitation rows; "given" is history: how often the role was
  registered,   \* the TournamentTeam row exists
  requests,     \* what each request has read so far
  acts,         \* for the bound
  overtaken     \* history: what was written by a request after somebody else's write

rolesVars == <<members, grants, coaches, invitations>>
accessVars == <<rolesVars, registered, requests, acts, overtaken>>

Idle == [op |-> "idle"]

\* permissions.ts: the permissions that the operations below ask for, and the scope of
\* each role.
PermissionsOf(role) ==
  CASE role = "organization-admin" -> {"access", "tournament", "team", "roster", "approve", "media"}
    [] role = "tournament-manager" -> {"tournament", "approve", "media"}
    [] role = "coach"              -> {"team", "roster", "media"}

ScopeOf(role) ==
  CASE role = "organization-admin" -> "organization"
    [] role = "tournament-manager" -> "tournament"
    [] role = "coach"              -> "team"

Grant(user, role, invitation) ==
  [user |-> user, role |-> role, invitation |-> invitation, lapsed |-> FALSE]

\* An administrator, and perhaps a coach.
AccessInit ==
  /\ coaches \in {{}} \cup {{user} : user \in Users \ {Admin}}
  /\ members = {Admin} \cup coaches
  /\ grants = {Grant(Admin, "organization-admin", 0)}
              \cup {Grant(user, "coach", 0) : user \in coaches}
  /\ invitations = <<>>
  /\ requests = [r \in Requests |-> Idle]
  /\ acts = 0 /\ overtaken = {}

\* hasPermission: a role of the tournament covers a team that is registered for it.
HasPermission(user, permission, resources) ==
  /\ user \in members
  /\ \E g \in grants :
       /\ g.user = user /\ ~g.lapsed
       /\ permission \in PermissionsOf(g.role)
       /\ \/ ScopeOf(g.role) = "organization"
          \/ ScopeOf(g.role) \in resources
          \/ ScopeOf(g.role) = "tournament" /\ registered /\ "team" \in resources

\* scope: what the lists of the portal contain.  It asks for no permission, and an
\* assignment that has lapsed still counts.
Lists(user, resource) ==
  /\ user \in members
  /\ \E g \in grants :
       /\ g.user = user
       /\ \/ ScopeOf(g.role) \in {"organization", resource}
          \/ resource = "tournament" /\ registered /\ ScopeOf(g.role) = "team"

\* teams: also those of the user's TeamMembership rows.
ListsTeam(user) == Lists(user, "team") \/ user \in coaches

Act == acts < MaxActs /\ acts' = acts + 1

\* The guard lets a request pass that is done in one statement, or whose reads nothing
\* takes back ...
AtOnce(user, permission, resources) ==
  Act /\ HasPermission(user, permission, resources) /\ UNCHANGED requests

\* ... or one that reads first, and continues later.
Begin(r, user, permission, resources, request) ==
  /\ Act
  /\ requests[r] = Idle
  /\ HasPermission(user, permission, resources)
  /\ requests' = [requests EXCEPT ![r] = request]

Continue(r, request) ==
  /\ requests' = [requests EXCEPT ![r] = request]
  /\ UNCHANGED acts

End(r) == Continue(r, Idle)
-----------------------------------------------------------------------------
\* create: the invitation and its mail's outbox event.  requireRole and
\* validateResources hold for the one resource that a role's scope names.
CreateInvitation(email, role) ==
  /\ AtOnce(Admin, "access", {})
  /\ Len(invitations) < MaxRows
  /\ invitations' = Append(invitations, [email |-> email, role |-> role, state |-> "queued",
                                         given |-> 0])
  /\ UNCHANGED <<members, grants, coaches, registered, overtaken>>

SendInvitation(i) ==
  /\ invitations[i].state = "queued"
  /\ invitations' = [invitations EXCEPT ![i].state = "sent"]
  /\ UNCHANGED <<members, grants, coaches, registered, requests, acts, overtaken>>

\* Time passes for an invitation or for an assignment that was given an end.
Expire ==
  /\ Act
  /\ \/ \E i \in DOMAIN invitations :
          /\ invitations[i].state = "sent"
          /\ invitations' = [invitations EXCEPT ![i].state = "expired"]
          /\ UNCHANGED grants
     \/ \E g \in grants :
          /\ g.invitation = 0 /\ g.user # Admin /\ ~g.lapsed
          /\ grants' = (grants \ {g}) \cup {[g EXCEPT !.lapsed = TRUE]}
          /\ UNCHANGED invitations
  /\ UNCHANGED <<members, coaches, registered, requests, overtaken>>

\* Variant: an invitation that was accepted is still good.
ValidAgain(i) == invitations[i].state \in {"sent", "accepted"}

Valid(i) == invitations[i].state = "sent"

\* Variant: the membership is expected to exist.
MembersOnly(user) == members

Joined(user) == members \cup {user}

\* accept reads the invitation; its user is the one it was sent to ...
AcceptRead(r, i) ==
  /\ Valid(i)
  /\ Act
  /\ requests[r] = Idle
  /\ requests' = [requests EXCEPT ![r] = [op |-> "accept", invitation |-> i,
                                          read |-> invitations[i].state]]
  /\ UNCHANGED <<rolesVars, registered, overtaken>>

\* ... and the transaction writes membership, role, team membership and invitation.
AcceptCommit(r) ==
  LET i    == requests[r].invitation
      user == invitations[i].email
      role == invitations[i].role
  IN
  /\ requests[r].op = "accept"
  /\ members' = Joined(user)
  /\ grants' = grants \cup {Grant(user, role, i)}
  /\ coaches' = IF role = "coach" THEN coaches \cup {user} ELSE coaches
  /\ overtaken' = IF invitations[i].state = "accepted" /\ requests[r].read = "sent"
                  THEN overtaken \cup {<<"invitation", i>>} ELSE overtaken
  /\ invitations' = [invitations EXCEPT ![i].state = "accepted", ![i].given = @ + 1]
  /\ End(r)
  /\ UNCHANGED registered

\* assign finds an active member, which nobody ceases to be, and creates one row more.
Assign(user, role) ==
  /\ AtOnce(Admin, "access", {})
  /\ user \in members /\ Grant(user, role, 0) \notin grants
  /\ grants' = grants \cup {Grant(user, role, 0)}
  /\ UNCHANGED <<members, coaches, invitations, registered, overtaken>>
=============================================================================
