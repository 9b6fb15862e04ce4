-------------------------- MODULE Organization_proofs --------------------------
(***************************************************************************)
(* Proofs about an organization at work, for any number of users,          *)
(* requests, players and rows.  Each area of work has an invariant of its  *)
(* own; what the others may do to it is said once, by Footprint.           *)
(***************************************************************************)
EXTENDS Organization, SequenceTheorems, TLAPS

\* The requests of the chain that uploads a logo, as records.
Chain == {"put", "reject", "complete", "logo"}

Shape(x) ==
  x.op \in Chain =>
    x = [op |-> x.op, user |-> x.user, asset |-> x.asset, expected |-> x.expected]

RequestsInv ==
  /\ requests = [r \in Requests |-> requests[r]]
  /\ \A r \in Requests : Shape(requests[r])

\* A step begins, continues or ends at most one request, of some operations.
Touches(ops) ==
  \/ UNCHANGED requests
  \/ \E r \in Requests : \E x :
       requests' = [requests EXCEPT ![r] = x] /\ x.op \in ops /\ Shape(x)

Keeps(others, ops) == others /\ Touches(ops) /\ overtaken \subseteq overtaken'

RoleOps == {"idle", "accept"}
RegistrationOps == {"idle", "apply", "decide", "resolve"}
RosterOps == {"idle", "edit", "review"}
MediaOps == {"idle", "replace"} \cup Chain

LEMMA Idles == Idle.op = "idle" /\ Shape(Idle)
  BY DEF Idle, Shape, Chain

\* One request is replaced, or none.
LEMMA Replaces ==
  ASSUME NEW r \in Requests, NEW x, requests' = [requests EXCEPT ![r] = x],
         NEW ops, x.op \in ops, Shape(x)
  PROVE  Touches(ops)
  BY DEF Touches

LEMMA RolesFootprint ==
  ASSUME RoleSteps
  PROVE  UNCHANGED registered /\ Touches(RoleOps) /\ overtaken \subseteq overtaken'
<1>1. ASSUME NEW user \in Users, NEW role \in RolesGiven,
             CreateInvitation(user, role) \/ Assign(user, role)
      PROVE  UNCHANGED <<registered, requests, overtaken>>
  BY <1>1 DEF CreateInvitation, Assign, AtOnce
<1>2. ASSUME NEW i \in DOMAIN invitations, SendInvitation(i)
      PROVE  UNCHANGED <<registered, requests, overtaken>>
  BY <1>2 DEF SendInvitation
<1>3. ASSUME NEW i \in DOMAIN invitations, NEW r \in Requests, AcceptRead(r, i)
      PROVE  UNCHANGED <<registered, overtaken>> /\ Touches(RoleOps)
  <2> DEFINE x == [op |-> "accept", invitation |-> i, read |-> invitations[i].state]
  <2>1. x.op \in RoleOps /\ Shape(x)
    BY DEF RoleOps, Shape, Chain
  <2>2. UNCHANGED <<registered, overtaken>> /\ requests' = [requests EXCEPT ![r] = x]
    BY <1>3 DEF AcceptRead
  <2> HIDE DEF x
  <2> QED BY <2>1, <2>2, Replaces
<1>4. ASSUME NEW r \in Requests, AcceptCommit(r)
      PROVE  UNCHANGED registered /\ Touches(RoleOps) /\ overtaken \subseteq overtaken'
  <2>1. Touches(RoleOps)
    BY <1>4, Idles, Replaces DEF AcceptCommit, End, Continue, RoleOps
  <2> QED BY <1>4, <2>1 DEF AcceptCommit
<1>5. CASE Expire
  BY <1>5 DEF Expire, Touches
<1> QED BY <1>1, <1>2, <1>3, <1>4, <1>5 DEF RoleSteps, Touches

LEMMA RegistrationFootprint ==
  ASSUME RegistrationSteps
  PROVE  UNCHANGED rolesVars /\ Touches(RegistrationOps) /\ overtaken \subseteq overtaken'
<1>1. ASSUME NEW user \in Users, CreateCorrectionRequest(user)
                                 \/ \E status \in TournamentStatuses : UpdateTournament(user, status)
      PROVE  UNCHANGED <<rolesVars, requests, overtaken>>
  BY <1>1 DEF CreateCorrectionRequest, UpdateTournament, AtOnce
<1>2. ASSUME NEW user \in Users, NEW r \in Requests, ApplyRead(r, user)
      PROVE  UNCHANGED <<rolesVars, overtaken>> /\ Touches(RegistrationOps)
  <2> DEFINE x == [op |-> "apply"]
  <2>1. x.op \in RegistrationOps /\ Shape(x)
    BY DEF RegistrationOps, Shape, Chain
  <2>2. UNCHANGED <<rolesVars, overtaken>> /\ requests' = [requests EXCEPT ![r] = x]
    BY <1>2 DEF ApplyRead, Begin
  <2> HIDE DEF x
  <2> QED BY <2>1, <2>2, Replaces
<1>3. ASSUME NEW user \in Users, NEW r \in Requests, NEW decision \in Decisions,
             DecideRead(r, user, decision)
      PROVE  UNCHANGED <<rolesVars, overtaken>> /\ Touches(RegistrationOps)
  <2> DEFINE x == [op |-> "decide", decision |-> decision]
  <2>1. x.op \in RegistrationOps /\ Shape(x)
    BY DEF RegistrationOps, Shape, Chain
  <2>2. UNCHANGED <<rolesVars, overtaken>> /\ requests' = [requests EXCEPT ![r] = x]
    BY <1>3 DEF DecideRead, Begin
  <2> HIDE DEF x
  <2> QED BY <2>1, <2>2, Replaces
<1>4. ASSUME NEW user \in Users, NEW r \in Requests, NEW decision \in Decisions,
             NEW i \in DOMAIN corrections, ResolveRead(r, user, i, decision)
      PROVE  UNCHANGED <<rolesVars, overtaken>> /\ Touches(RegistrationOps)
  <2> DEFINE x == [op |-> "resolve", correction |-> i, decision |-> decision]
  <2>1. x.op \in RegistrationOps /\ Shape(x)
    BY DEF RegistrationOps, Shape, Chain
  <2>2. UNCHANGED <<rolesVars, overtaken>> /\ requests' = [requests EXCEPT ![r] = x]
    BY <1>4 DEF ResolveRead, Begin
  <2> HIDE DEF x
  <2> QED BY <2>1, <2>2, Replaces
<1>5. ASSUME NEW r \in Requests, SubmitTeamApplication(r) \/ DecideTeamApplication(r)
                                 \/ ResolveCorrectionRequest(r)
      PROVE  UNCHANGED rolesVars /\ Touches(RegistrationOps) /\ overtaken \subseteq overtaken'
  <2>1. requests' = [requests EXCEPT ![r] = Idle]
    BY <1>5 DEF SubmitTeamApplication, DecideTeamApplication, ResolveCorrectionRequest, End, Continue
  <2>2. Touches(RegistrationOps)
    BY <2>1, Idles, Replaces DEF RegistrationOps
  <2> QED BY <1>5, <2>2
          DEF SubmitTeamApplication, DecideTeamApplication, ResolveCorrectionRequest
<1> QED BY <1>1, <1>2, <1>3, <1>4, <1>5 DEF RegistrationSteps, Touches

LEMMA RosterFootprint ==
  ASSUME RosterSteps
  PROVE  UNCHANGED beforeRosters /\ Touches(RosterOps) /\ overtaken \subseteq overtaken'
<1>1. ASSUME NEW user \in Users, CreateRoster(user) \/ SubmitRoster(user)
                    \/ \E player \in Players : CreateOrArchivePlayer(user, player)
      PROVE  UNCHANGED <<beforeRosters, requests, overtaken>>
  BY <1>1 DEF CreateRoster, SubmitRoster, CreateOrArchivePlayer, AtOnce
<1>2. ASSUME NEW user \in Users, NEW player \in Players, NEW r \in Requests,
             NEW jersey \in Jerseys, EditRead(r, user, player, jersey)
      PROVE  UNCHANGED <<beforeRosters, overtaken>> /\ Touches(RosterOps)
  <2> DEFINE x == [op |-> "edit", player |-> player, jersey |-> jersey]
  <2>1. x.op \in RosterOps /\ Shape(x)
    BY DEF RosterOps, Shape, Chain
  <2>2. UNCHANGED <<beforeRosters, overtaken>> /\ requests' = [requests EXCEPT ![r] = x]
    BY <1>2 DEF EditRead, Begin
  <2> HIDE DEF x
  <2> QED BY <2>1, <2>2, Replaces
<1>3. ASSUME NEW user \in Users, NEW r \in Requests, NEW decision \in ReviewDecisions,
             OpenReview(r, user, decision)
      PROVE  UNCHANGED <<beforeRosters, overtaken>> /\ Touches(RosterOps)
  <2> DEFINE x == [op |-> "review", decision |-> decision, expected |-> roster.version,
                   seen |-> roster.lineup]
  <2>1. x.op \in RosterOps /\ Shape(x)
    BY DEF RosterOps, Shape, Chain
  <2>2. UNCHANGED <<beforeRosters, overtaken>> /\ requests' = [requests EXCEPT ![r] = x]
    BY <1>3 DEF OpenReview, Begin
  <2> HIDE DEF x
  <2> QED BY <2>1, <2>2, Replaces
<1>4. ASSUME NEW r \in Requests, UpsertRosterPlayer(r) \/ DecideRoster(r)
      PROVE  UNCHANGED beforeRosters /\ Touches(RosterOps) /\ overtaken \subseteq overtaken'
  <2>1. requests' = [requests EXCEPT ![r] = Idle]
    BY <1>4 DEF UpsertRosterPlayer, DecideRoster, End, Continue
  <2>2. Touches(RosterOps)
    BY <2>1, Idles, Replaces DEF RosterOps
  <2> QED BY <1>4, <2>2 DEF UpsertRosterPlayer, DecideRoster
<1> QED BY <1>1, <1>2, <1>3, <1>4 DEF RosterSteps, Touches

\* A chain goes on: its request keeps the asset and the version of the page.
LEMMA ChainGoesOn ==
  ASSUME RequestsInv, NEW r \in Requests, requests[r].op \in Chain, NEW op, op \in Chain
  PROVE  /\ [requests[r] EXCEPT !.op = op].op = op
         /\ [requests[r] EXCEPT !.op = op].asset = requests[r].asset
         /\ Shape([requests[r] EXCEPT !.op = op])
<1>1. PICK user, asset, expected :
        requests[r] = [op |-> requests[r].op, user |-> user, asset |-> asset,
                       expected |-> expected]
  BY DEF RequestsInv, Shape
<1>2. [requests[r] EXCEPT !.op = op]
        = [op |-> op, user |-> user, asset |-> asset, expected |-> expected]
  BY <1>1
<1> QED BY <1>1, <1>2 DEF Shape

LEMMA MediaFootprint ==
  ASSUME RequestsInv, MediaSteps
  PROVE  UNCHANGED beforeMedia /\ Touches(MediaOps) /\ overtaken \subseteq overtaken'
<1>1. ASSUME NEW user \in Users, UpdateTeam(user)
      PROVE  UNCHANGED <<beforeMedia, requests, overtaken>>
  BY <1>1 DEF UpdateTeam, AtOnce
<1>2. ASSUME NEW user \in Users, NEW r \in Requests, RequestUpload(r, user)
      PROVE  UNCHANGED <<beforeMedia, overtaken>> /\ Touches(MediaOps)
  <2> DEFINE x == UploadLogo(user, Len(assets) + 1)
  <2>1. x.op \in MediaOps /\ Shape(x)
    BY DEF MediaOps, Shape, Chain, UploadLogo
  <2>2. UNCHANGED <<beforeMedia, overtaken>> /\ requests' = [requests EXCEPT ![r] = x]
    BY <1>2 DEF RequestUpload, Begin
  <2> HIDE DEF x
  <2> QED BY <2>1, <2>2, Replaces
<1>3. ASSUME NEW r \in Requests, NEW matches \in BOOLEAN, CompleteRead(r, matches)
      PROVE  UNCHANGED <<beforeMedia, overtaken>> /\ Touches(MediaOps)
  <2> DEFINE op == IF matches THEN "complete" ELSE "reject"
             x == [requests[r] EXCEPT !.op = op]
  <2>1. op \in Chain /\ op \in MediaOps /\ requests[r].op \in Chain
    BY <1>3 DEF Chain, MediaOps, CompleteRead
  <2>2. UNCHANGED <<beforeMedia, overtaken>> /\ requests' = [requests EXCEPT ![r] = x]
    BY <1>3 DEF CompleteRead, Continue
  <2> HIDE DEF op
  <2>3. x.op \in MediaOps /\ Shape(x)
    BY <2>1, ChainGoesOn
  <2> HIDE DEF x
  <2> QED BY <2>2, <2>3, Replaces
<1>4. ASSUME NEW r \in Requests, CompleteUpload(r)
      PROVE  UNCHANGED <<beforeMedia, overtaken>> /\ Touches(MediaOps)
  <2> DEFINE x == [requests[r] EXCEPT !.op = "logo"]
  <2>1. "logo" \in Chain /\ "logo" \in MediaOps /\ requests[r].op \in Chain
    BY <1>4 DEF Chain, MediaOps, CompleteUpload
  <2>2. UNCHANGED <<beforeMedia, overtaken>> /\ requests' = [requests EXCEPT ![r] = x]
    BY <1>4 DEF CompleteUpload, Continue
  <2>3. x.op \in MediaOps /\ Shape(x)
    BY <2>1, ChainGoesOn
  <2> HIDE DEF x
  <2> QED BY <2>2, <2>3, Replaces
<1>5. ASSUME NEW r \in Requests, ReplaceRead(r)
      PROVE  UNCHANGED <<beforeMedia, overtaken>> /\ Touches(MediaOps)
  <2> DEFINE x == [op |-> "replace", asset |-> requests[r].asset, found |-> team.logo]
  <2>1. x.op \in MediaOps /\ Shape(x)
    BY DEF MediaOps, Shape, Chain
  <2>2. UNCHANGED <<beforeMedia, overtaken>> /\ requests' = [requests EXCEPT ![r] = x]
    BY <1>5 DEF ReplaceRead, Continue
  <2> HIDE DEF x
  <2> QED BY <2>1, <2>2, Replaces
<1>6. ASSUME NEW r \in Requests, RejectUpload(r) \/ ReplaceTeamLogo(r)
      PROVE  UNCHANGED beforeMedia /\ Touches(MediaOps) /\ overtaken \subseteq overtaken'
  <2>1. requests' = [requests EXCEPT ![r] = Idle]
    BY <1>6 DEF RejectUpload, ReplaceTeamLogo, End, Continue
  <2>2. Touches(MediaOps)
    BY <2>1, Idles, Replaces DEF MediaOps
  <2> QED BY <1>6, <2>2 DEF RejectUpload, ReplaceTeamLogo
<1>7. ASSUME NEW a \in DOMAIN assets, MarkForDeletion(a)
      PROVE  UNCHANGED <<beforeMedia, requests, overtaken>>
  BY <1>7 DEF MarkForDeletion
<1> QED BY <1>1, <1>2, <1>3, <1>4, <1>5, <1>6, <1>7 DEF MediaSteps, Touches

\* What a step of each area leaves alone.
Elsewhere == UNCHANGED <<rolesVars, registered, registrationVars, rosterVars, mediaVars>>

LEMMA Footprint ==
  ASSUME RequestsInv, [Next]_vars
  PROVE  \/ RoleSteps /\ Keeps(UNCHANGED <<registered, registrationVars, rosterVars, mediaVars>>,
                               RoleOps)
         \/ RegistrationSteps /\ Keeps(UNCHANGED <<rolesVars, rosterVars, mediaVars>>,
                                       RegistrationOps)
         \/ RosterSteps /\ Keeps(UNCHANGED <<beforeRosters, mediaVars>>, RosterOps)
         \/ MediaSteps /\ Keeps(UNCHANGED beforeMedia, MediaOps)
         \/ Keeps(Elsewhere, {"idle"})
<1>1. CASE In("roles") /\ RoleSteps /\ UNCHANGED <<registrationVars, rosterVars, mediaVars>>
  BY <1>1, RolesFootprint DEF Keeps
<1>2. CASE In("registration") /\ RegistrationSteps /\ UNCHANGED <<rosterVars, mediaVars>>
  BY <1>2, RegistrationFootprint DEF Keeps
<1>3. CASE In("rosters") /\ RosterSteps /\ UNCHANGED mediaVars
  BY <1>3, RosterFootprint DEF Keeps
<1>4. CASE In("media") /\ MediaSteps
  BY <1>4, MediaFootprint DEF Keeps
<1>5. ASSUME NEW r \in Requests, Fail(r)
      PROVE  Keeps(Elsewhere, {"idle"})
  <2>1. Touches({"idle"})
    BY <1>5, Idles, Replaces DEF Fail, End, Continue
  <2> QED BY <1>5, <2>1 DEF Fail, Keeps, Elsewhere, beforeMedia, beforeRosters
<1>6. CASE UNCHANGED vars
  BY <1>6 DEF vars, accessVars, Keeps, Touches, Elsewhere
<1> QED BY <1>1, <1>2, <1>3, <1>4, <1>5, <1>6 DEF Next

LEMMA RequestsKeep ==
  ASSUME RequestsInv, NEW ops, Touches(ops)
  PROVE  RequestsInv'
  BY DEF RequestsInv, Touches

LEMMA RequestsInvariant == Spec => []RequestsInv
<1>1. Init => RequestsInv
  BY Idles DEF Init, AccessInit, RequestsInv
<1>2. RequestsInv /\ [Next]_vars => RequestsInv'
  BY Footprint, RequestsKeep DEF Keeps
<1> QED BY <1>1, <1>2, PTL DEF Spec
-----------------------------------------------------------------------------
\* Whoever resolves a correction brings a decision.
RegistrationInv ==
  /\ corrections \in Seq([status : {"OPEN"} \cup Decisions, audits : Nat])
  /\ DecisionsStand
  /\ \A r \in Requests : requests[r].op = "resolve" =>
       requests[r].decision \in Decisions /\ requests[r].correction \in DOMAIN corrections

LEMMA RegistrationUntouched ==
  ASSUME RequestsInv, RegistrationInv, UNCHANGED <<registered, registrationVars>>,
         NEW ops, Touches(ops), "resolve" \notin ops, overtaken \subseteq overtaken'
  PROVE  RegistrationInv'
<1>1. DecisionsStand'
  BY DEF RegistrationInv, DecisionsStand, registrationVars
<1>2. \A r \in Requests : requests'[r].op = "resolve" => requests'[r] = requests[r]
  BY DEF RequestsInv, Touches
<1> QED BY <1>1, <1>2 DEF RegistrationInv, registrationVars

LEMMA RegistrationKeeps ==
  ASSUME RequestsInv, RegistrationInv, RegistrationSteps
  PROVE  RegistrationInv'
<1>1. overtaken \subseteq overtaken'
  BY RegistrationFootprint
<1>2. requests = [q \in Requests |-> requests[q]]
  BY DEF RequestsInv
<1>3. /\ Len(corrections) \in Nat /\ DOMAIN corrections = 1..Len(corrections)
      /\ corrections \in Seq([status : {"OPEN"} \cup Decisions, audits : Nat])
  BY LenProperties DEF RegistrationInv
<1>4. ASSUME NEW user \in Users, NEW status \in TournamentStatuses, UpdateTournament(user, status)
      PROVE  RegistrationInv'
  BY <1>4 DEF UpdateTournament, AtOnce, RegistrationInv, DecisionsStand
<1>5. ASSUME NEW user \in Users, CreateCorrectionRequest(user)
      PROVE  RegistrationInv'
  <2> DEFINE new == [status |-> "OPEN", audits |-> 0]
  <2>1. /\ UNCHANGED <<registered, requests, overtaken, application>>
        /\ corrections' = Append(corrections, new)
    BY <1>5 DEF CreateCorrectionRequest, AtOnce
  <2>2. new \in [status : {"OPEN"} \cup Decisions, audits : Nat]
    OBVIOUS
  <2>3. /\ corrections' \in Seq([status : {"OPEN"} \cup Decisions, audits : Nat])
        /\ DOMAIN corrections' = 1..(Len(corrections) + 1)
        /\ corrections'[Len(corrections) + 1] = new
        /\ \A i \in DOMAIN corrections : corrections'[i] = corrections[i]
    <3> HIDE DEF new
    <3> QED BY <1>3, <2>1, <2>2, AppendProperties
  <2>4. DecisionsStand'
    BY <1>3, <2>1, <2>3 DEF RegistrationInv, DecisionsStand
  <2>5. DOMAIN corrections \subseteq DOMAIN corrections'
    BY <1>3, <2>3
  <2> QED BY <2>1, <2>3, <2>4, <2>5 DEF RegistrationInv
<1>6. ASSUME NEW user \in Users, NEW r \in Requests,
             ApplyRead(r, user) \/ \E decision \in Decisions : DecideRead(r, user, decision)
      PROVE  RegistrationInv'
  <2>1. UNCHANGED <<registered, registrationVars, overtaken>>
    BY <1>6 DEF ApplyRead, DecideRead
  <2>2. /\ \A q \in Requests : q # r => requests'[q] = requests[q]
        /\ requests'[r].op # "resolve"
    BY <1>2, <1>6 DEF ApplyRead, DecideRead, Begin
  <2> QED BY <2>1, <2>2 DEF RegistrationInv, DecisionsStand, registrationVars
<1>7. ASSUME NEW user \in Users, NEW r \in Requests, NEW decision \in Decisions,
             NEW i \in DOMAIN corrections, ResolveRead(r, user, i, decision)
      PROVE  RegistrationInv'
  <2>1. UNCHANGED <<registered, registrationVars, overtaken>>
    BY <1>7 DEF ResolveRead
  <2>2. /\ \A q \in Requests : q # r => requests'[q] = requests[q]
        /\ requests'[r].decision = decision /\ requests'[r].correction = i
    BY <1>2, <1>7 DEF ResolveRead, Begin
  <2> QED BY <2>1, <2>2 DEF RegistrationInv, DecisionsStand, registrationVars
<1>8. ASSUME NEW r \in Requests, requests' = [requests EXCEPT ![r] = Idle]
      PROVE  \A q \in Requests : requests'[q].op = "resolve" => requests'[q] = requests[q]
  BY <1>2, <1>8, Idles
<1>9. ASSUME NEW r \in Requests, SubmitTeamApplication(r)
      PROVE  RegistrationInv'
  <2>1. /\ requests' = [requests EXCEPT ![r] = Idle] /\ UNCHANGED <<registered, corrections>>
        /\ application' = "OPEN" /\ (registered => <<"application">> \in overtaken')
    BY <1>9 DEF SubmitTeamApplication, End, Continue
  <2>2. DecisionsStand'
    BY <2>1 DEF RegistrationInv, DecisionsStand
  <2> QED BY <1>8, <2>1, <2>2 DEF RegistrationInv
<1>10. ASSUME NEW r \in Requests, DecideTeamApplication(r)
       PROVE  RegistrationInv'
  <2>1. /\ requests' = [requests EXCEPT ![r] = Idle] /\ UNCHANGED corrections
        /\ application' = requests[r].decision
        /\ registered' = (registered \/ requests[r].decision = "APPROVED")
        /\ application = "OPEN" \/ <<"application">> \in overtaken'
    BY <1>10 DEF DecideTeamApplication, End, Continue, Decidable
  <2>2. DecisionsStand'
    BY <1>1, <2>1 DEF RegistrationInv, DecisionsStand
  <2> QED BY <1>8, <2>1, <2>2 DEF RegistrationInv
<1>11. ASSUME NEW r \in Requests, ResolveCorrectionRequest(r)
       PROVE  RegistrationInv'
  <2> DEFINE i == requests[r].correction
             new == [status |-> requests[r].decision, audits |-> corrections[i].audits + 1]
  <2>1. /\ requests' = [requests EXCEPT ![r] = Idle]
        /\ UNCHANGED <<registered, overtaken, application>>
        /\ corrections' = [corrections EXCEPT ![i] = new] /\ corrections[i].status = "OPEN"
    BY <1>11 DEF ResolveCorrectionRequest, End, Continue, OpenCorrection
  <2>2. i \in DOMAIN corrections /\ requests[r].decision \in Decisions
    BY <1>11 DEF ResolveCorrectionRequest, RegistrationInv
  <2>3. corrections[i].audits = 0
    BY <2>1, <2>2 DEF RegistrationInv, DecisionsStand
  <2>4. new.status \in Decisions /\ new.audits = 1
        /\ new \in [status : {"OPEN"} \cup Decisions, audits : Nat]
    BY <2>2, <2>3
  <2> HIDE DEF new, i
  <2>5. /\ corrections' \in Seq([status : {"OPEN"} \cup Decisions, audits : Nat])
        /\ DOMAIN corrections' = DOMAIN corrections
        /\ \A j \in DOMAIN corrections : corrections'[j] = IF j = i THEN new ELSE corrections[j]
    BY <1>3, <2>1, <2>2, <2>4
  <2>6. DecisionsStand'
    BY <2>1, <2>4, <2>5 DEF RegistrationInv, DecisionsStand, Decisions
  <2> QED BY <1>8, <2>1, <2>5, <2>6 DEF RegistrationInv
<1> QED BY <1>4, <1>5, <1>6, <1>7, <1>9, <1>10, <1>11 DEF RegistrationSteps

LEMMA RegistrationInvariant == Spec => []RegistrationInv
<1>1. Init => RegistrationInv
  BY Idles DEF Init, AccessInit, RegistrationInit, RegistrationInv, DecisionsStand
<1>2. RequestsInv /\ RegistrationInv /\ [Next]_vars => RegistrationInv'
  <2> SUFFICES ASSUME RequestsInv, RegistrationInv, [Next]_vars
               PROVE  RegistrationInv'
    OBVIOUS
  <2>1. "resolve" \notin RoleOps \cup RosterOps \cup MediaOps \cup {"idle"}
    BY DEF RoleOps, RosterOps, MediaOps, Chain
  <2>2. CASE Keeps(UNCHANGED <<registered, registrationVars, rosterVars, mediaVars>>, RoleOps)
    BY <2>1, <2>2, RegistrationUntouched DEF Keeps
  <2>3. CASE RegistrationSteps
    BY <2>3, RegistrationKeeps
  <2>4. CASE Keeps(UNCHANGED <<beforeRosters, mediaVars>>, RosterOps)
    BY <2>1, <2>4, RegistrationUntouched DEF Keeps, beforeRosters
  <2>5. CASE Keeps(UNCHANGED beforeMedia, MediaOps)
    BY <2>1, <2>5, RegistrationUntouched DEF Keeps, beforeMedia, beforeRosters
  <2>6. CASE Keeps(Elsewhere, {"idle"})
    BY <2>1, <2>6, RegistrationUntouched DEF Keeps, Elsewhere
  <2> QED BY <2>2, <2>3, <2>4, <2>5, <2>6, Footprint
<1> QED BY <1>1, <1>2, RequestsInvariant, PTL DEF Spec

\* However many organizers decide it at once, a correction is decided and audited once:
\* the update is conditional on its status (management.service.ts:559).  And an
\* application is approved exactly when its team is registered, as long as decisions on
\* the same application do not overlap (management.service.ts:434).
THEOREM DecidedOnce == Spec => []DecisionsStand
<1>1. RegistrationInv => DecisionsStand
  BY DEF RegistrationInv
<1> QED BY <1>1, RegistrationInvariant, PTL
-----------------------------------------------------------------------------
Invitation ==
  [email : Users, role : Roles, state : {"queued", "sent", "accepted", "expired"}, given : Nat]

\* An acceptance under way has found its invitation good.
InvitationsInv ==
  /\ invitations \in Seq(Invitation)
  /\ InvitationsGrantOnce
  /\ \A r \in Requests : requests[r].op = "accept" =>
       requests[r].read = "sent" /\ requests[r].invitation \in DOMAIN invitations

LEMMA InvitationsUntouched ==
  ASSUME RequestsInv, InvitationsInv, UNCHANGED invitations,
         NEW ops, Touches(ops), "accept" \notin ops, overtaken \subseteq overtaken'
  PROVE  InvitationsInv'
<1>1. InvitationsGrantOnce'
  BY DEF InvitationsInv, InvitationsGrantOnce
<1>2. \A r \in Requests : requests'[r].op = "accept" => requests'[r] = requests[r]
  BY DEF RequestsInv, Touches
<1> QED BY <1>1, <1>2 DEF InvitationsInv

\* One invitation changes.
LEMMA InvitationUpdated ==
  ASSUME InvitationsInv, NEW i \in DOMAIN invitations,
         NEW new, new = [invitations[i] EXCEPT !.state = new.state, !.given = new.given],
         new.state \in {"queued", "sent", "accepted", "expired"}, new.given \in Nat,
         new.state = "accepted" <=> new.given > 0,
         <<"invitation", i>> \notin overtaken' => new.given <= 1,
         invitations' = [invitations EXCEPT ![i] = new], overtaken \subseteq overtaken',
         \A r \in Requests : requests'[r].op = "accept" => requests'[r] = requests[r]
  PROVE  InvitationsInv'
<1>1. invitations \in Seq(Invitation) /\ Len(invitations) \in Nat
      /\ DOMAIN invitations = 1..Len(invitations)
  BY LenProperties DEF InvitationsInv
<1>2. invitations[i] \in Invitation
  BY <1>1
<1>3. new \in Invitation
  BY <1>2 DEF Invitation
<1>4. /\ invitations' \in Seq(Invitation) /\ DOMAIN invitations' = DOMAIN invitations
      /\ \A j \in DOMAIN invitations : invitations'[j] = IF j = i THEN new ELSE invitations[j]
  BY <1>1, <1>3
<1>5. InvitationsGrantOnce'
  BY <1>4 DEF InvitationsInv, InvitationsGrantOnce
<1> QED BY <1>4, <1>5 DEF InvitationsInv

LEMMA InvitationsKeep ==
  ASSUME RequestsInv, InvitationsInv, RoleSteps
  PROVE  InvitationsInv'
<1>1. requests = [q \in Requests |-> requests[q]]
  BY DEF RequestsInv
<1>2. /\ Len(invitations) \in Nat /\ DOMAIN invitations = 1..Len(invitations)
      /\ invitations \in Seq(Invitation)
  BY LenProperties DEF InvitationsInv
<1>3. \A i \in DOMAIN invitations : invitations[i] \in Invitation
  BY <1>2
<1>4. ASSUME NEW user \in Users, NEW role \in RolesGiven, CreateInvitation(user, role)
      PROVE  InvitationsInv'
  <2> DEFINE new == [email |-> user, role |-> role, state |-> "queued", given |-> 0]
  <2>1. /\ UNCHANGED <<requests, overtaken>> /\ invitations' = Append(invitations, new)
    BY <1>4 DEF CreateInvitation, AtOnce
  <2>2. new \in Invitation
    BY OrganizationAssumption DEF Invitation
  <2>3. new.state = "queued" /\ new.given = 0
    OBVIOUS
  <2> HIDE DEF new
  <2>4. /\ invitations' \in Seq(Invitation)
        /\ DOMAIN invitations' = 1..(Len(invitations) + 1)
        /\ invitations'[Len(invitations) + 1] = new
        /\ \A i \in DOMAIN invitations : invitations'[i] = invitations[i]
    BY <1>2, <2>1, <2>2, AppendProperties
  <2>5. InvitationsGrantOnce'
    <3> SUFFICES ASSUME NEW i \in DOMAIN invitations'
                 PROVE  /\ invitations'[i].state = "accepted" <=> invitations'[i].given > 0
                        /\ <<"invitation", i>> \notin overtaken' => invitations'[i].given <= 1
      BY DEF InvitationsGrantOnce
    <3>1. CASE i \in DOMAIN invitations
      BY <2>1, <2>4, <3>1 DEF InvitationsInv, InvitationsGrantOnce
    <3>2. CASE i = Len(invitations) + 1
      BY <2>3, <2>4, <3>2
    <3> QED BY <1>2, <2>4, <3>1, <3>2
  <2>6. DOMAIN invitations \subseteq DOMAIN invitations'
    BY <1>2, <2>4
  <2> QED BY <2>1, <2>4, <2>5, <2>6 DEF InvitationsInv
<1>5. ASSUME NEW user \in Users, NEW role \in RolesGiven, Assign(user, role)
      PROVE  InvitationsInv'
  BY <1>5 DEF Assign, AtOnce, InvitationsInv, InvitationsGrantOnce
<1>6. ASSUME NEW i \in DOMAIN invitations, NEW state \in {"sent", "expired"},
             invitations[i].state \in {"queued", "sent"},
             invitations' = [invitations EXCEPT ![i].state = state],
             UNCHANGED <<requests, overtaken>>
      PROVE  InvitationsInv'
  <2> DEFINE new == [invitations[i] EXCEPT !.state = state]
  <2>1. /\ new.state = state /\ new.given = invitations[i].given
        /\ new = [invitations[i] EXCEPT !.state = new.state, !.given = new.given]
    BY <1>3 DEF Invitation
  <2>2. new.given = 0
    <3>1. invitations[i].given \in Nat /\ ~(invitations[i].given > 0)
      BY <1>3, <1>6 DEF Invitation, InvitationsInv, InvitationsGrantOnce
    <3> QED BY <2>1, <3>1
  <2>3. invitations' = [invitations EXCEPT ![i] = new]
    BY <1>6
  <2> HIDE DEF new
  <2>4. /\ new.state \in {"queued", "sent", "accepted", "expired"} /\ new.given \in Nat
        /\ new.state = "accepted" <=> new.given > 0
        /\ <<"invitation", i>> \notin overtaken' => new.given <= 1
    BY <1>6, <2>1, <2>2
  <2>5. \A r \in Requests : requests'[r].op = "accept" => requests'[r] = requests[r]
    BY <1>6
  <2> QED BY <1>6, <2>1, <2>3, <2>4, <2>5, InvitationUpdated
<1>7. ASSUME NEW i \in DOMAIN invitations, SendInvitation(i)
      PROVE  InvitationsInv'
  BY <1>6, <1>7 DEF SendInvitation
<1>8. CASE Expire
  <2>1. UNCHANGED <<requests, overtaken>>
    BY <1>8 DEF Expire
  <2>2. CASE UNCHANGED invitations
    BY <2>1, <2>2 DEF InvitationsInv, InvitationsGrantOnce
  <2>3. CASE \E i \in DOMAIN invitations :
               /\ invitations[i].state = "sent"
               /\ invitations' = [invitations EXCEPT ![i].state = "expired"]
    BY <1>6, <2>1, <2>3
  <2> QED BY <1>8, <2>2, <2>3 DEF Expire
<1>9. ASSUME NEW i \in DOMAIN invitations, NEW r \in Requests, AcceptRead(r, i)
      PROVE  InvitationsInv'
  <2>1. UNCHANGED <<invitations, overtaken>>
    BY <1>9 DEF AcceptRead, rolesVars
  <2>2. /\ \A q \in Requests : q # r => requests'[q] = requests[q]
        /\ requests'[r].read = "sent" /\ requests'[r].invitation = i
    BY <1>1, <1>9 DEF AcceptRead, Valid
  <2> QED BY <2>1, <2>2 DEF InvitationsInv, InvitationsGrantOnce
<1>10. ASSUME NEW r \in Requests, AcceptCommit(r)
       PROVE  InvitationsInv'
  <2> DEFINE i == requests[r].invitation
             new == [invitations[i] EXCEPT !.state = "accepted", !.given = @ + 1]
  <2>1. /\ requests' = [requests EXCEPT ![r] = Idle]
        /\ overtaken' = IF invitations[i].state = "accepted" /\ requests[r].read = "sent"
                        THEN overtaken \cup {<<"invitation", i>>} ELSE overtaken
        /\ invitations' = [invitations EXCEPT ![i] = new]
    BY <1>10 DEF AcceptCommit, End, Continue
  <2>2. i \in DOMAIN invitations /\ requests[r].read = "sent"
    BY <1>10 DEF AcceptCommit, InvitationsInv
  <2>3. invitations[i] \in Invitation
    BY <1>3, <2>2
  <2>4. /\ new.state = "accepted" /\ new.given = invitations[i].given + 1
        /\ new = [invitations[i] EXCEPT !.state = new.state, !.given = new.given]
    BY <2>3 DEF Invitation
  <2>5. \A q \in Requests : requests'[q].op = "accept" => requests'[q] = requests[q]
    BY <1>1, <2>1, Idles
  <2> HIDE DEF i, new
  <2>6. invitations[i].given \in Nat
    BY <2>3 DEF Invitation
  <2>7. <<"invitation", i>> \notin overtaken' => invitations[i].given = 0
    BY <2>1, <2>2, <2>6 DEF InvitationsInv, InvitationsGrantOnce
  <2>8. /\ new.state \in {"queued", "sent", "accepted", "expired"} /\ new.given \in Nat
        /\ new.state = "accepted" <=> new.given > 0
        /\ <<"invitation", i>> \notin overtaken' => new.given <= 1
    BY <2>4, <2>6, <2>7
  <2>9. overtaken \subseteq overtaken'
    BY <2>1
  <2> QED BY <2>1, <2>2, <2>4, <2>5, <2>8, <2>9, InvitationUpdated
<1> QED BY <1>4, <1>5, <1>7, <1>8, <1>9, <1>10 DEF RoleSteps

LEMMA InvitationsInvariant == Spec => []InvitationsInv
<1>1. Init => InvitationsInv
  BY Idles DEF Init, AccessInit, InvitationsInv, InvitationsGrantOnce
<1>2. RequestsInv /\ InvitationsInv /\ [Next]_vars => InvitationsInv'
  <2> SUFFICES ASSUME RequestsInv, InvitationsInv, [Next]_vars
               PROVE  InvitationsInv'
    OBVIOUS
  <2>1. "accept" \notin RegistrationOps \cup RosterOps \cup MediaOps \cup {"idle"}
    BY DEF RegistrationOps, RosterOps, MediaOps, Chain
  <2>2. CASE RoleSteps
    BY <2>2, InvitationsKeep
  <2>3. CASE Keeps(UNCHANGED <<rolesVars, rosterVars, mediaVars>>, RegistrationOps)
    BY <2>1, <2>3, InvitationsUntouched DEF Keeps, rolesVars
  <2>4. CASE Keeps(UNCHANGED <<beforeRosters, mediaVars>>, RosterOps)
    BY <2>1, <2>4, InvitationsUntouched DEF Keeps, beforeRosters, rolesVars
  <2>5. CASE Keeps(UNCHANGED beforeMedia, MediaOps)
    BY <2>1, <2>5, InvitationsUntouched DEF Keeps, beforeMedia, beforeRosters, rolesVars
  <2>6. CASE Keeps(Elsewhere, {"idle"})
    BY <2>1, <2>6, InvitationsUntouched DEF Keeps, Elsewhere, rolesVars
  <2> QED BY <2>2, <2>3, <2>4, <2>5, <2>6, Footprint
<1> QED BY <1>1, <1>2, RequestsInvariant, PTL DEF Spec

\* An invitation is accepted when its role was given, and it gives the role once, unless
\* two acceptances had both found it good (invitations.service.ts:74-139).
THEOREM GrantedOnce == Spec => []InvitationsGrantOnce
<1>1. InvitationsInv => InvitationsGrantOnce
  BY DEF InvitationsInv
<1> QED BY <1>1, InvitationsInvariant, PTL
-----------------------------------------------------------------------------
Lineup == [Players -> Nat]
SubmissionRow == [decision : {"SUBMITTED"} \cup ReviewDecisions, lineup : Lineup, seen : Lineup]

\* A reviewer at work has seen the roster, at a version that it had: what the reviewer has
\* seen is the lineup, as long as the roster waits for a decision at that version.
RosterInv ==
  /\ roster \in [status : {"NONE"} \cup RosterStatuses, version : Nat, lineup : Lineup]
  /\ submissions \in Seq(SubmissionRow)
  /\ announced \subseteq DOMAIN submissions
  /\ ReviewHolds
  /\ \A r \in Requests : requests[r].op = "edit" =>
       requests[r].player \in Players /\ requests[r].jersey \in Nat
  /\ \A r \in Requests : requests[r].op = "review" =>
       /\ requests[r].decision \in ReviewDecisions /\ requests[r].seen \in Lineup
       /\ requests[r].expected \in Nat /\ requests[r].expected <= roster.version
       /\ \/ requests[r].expected # roster.version \/ roster.status # "SUBMITTED"
          \/ <<"roster">> \in overtaken
          \/ requests[r].seen = roster.lineup

LEMMA RosterUntouched ==
  ASSUME RequestsInv, RosterInv, UNCHANGED <<roster, submissions, announced>>,
         NEW ops, Touches(ops), {"edit", "review"} \cap ops = {}, overtaken \subseteq overtaken'
  PROVE  RosterInv'
<1>1. ReviewHolds'
  BY DEF RosterInv, ReviewHolds
<1>2. \A r \in Requests :
        requests'[r].op \in {"edit", "review"} => requests'[r] = requests[r]
  BY DEF RequestsInv, Touches
<1> QED BY <1>1, <1>2 DEF RosterInv

LEMMA UpsertKeeps ==
  ASSUME RequestsInv, RosterInv, NEW r \in Requests, UpsertRosterPlayer(r)
  PROVE  RosterInv'
<1> DEFINE player == requests[r].player
           jersey == requests[r].jersey
<1>1. /\ requests' = [requests EXCEPT ![r] = Idle]
      /\ roster' = [roster EXCEPT !.lineup[player] = jersey]
      /\ overtaken' = IF Editable THEN overtaken ELSE overtaken \cup {<<"roster">>}
      /\ UNCHANGED <<submissions, announced>>
  BY DEF UpsertRosterPlayer, End, Continue
<1>2. player \in Players /\ jersey \in Nat
  BY DEF UpsertRosterPlayer, RosterInv
<1> HIDE DEF player, jersey
<1>3. roster.lineup \in Lineup /\ roster.version \in Nat
  BY DEF RosterInv
<1>4. [roster.lineup EXCEPT ![player] = jersey] \in Lineup
  BY <1>2, <1>3 DEF Lineup
<1>5. /\ roster' \in [status : {"NONE"} \cup RosterStatuses, version : Nat, lineup : Lineup]
      /\ roster'.status = roster.status /\ roster'.version = roster.version
  BY <1>1, <1>4 DEF RosterInv
<1>6. \A q \in Requests :
        requests'[q].op \in {"edit", "review"} => requests'[q] = requests[q]
  BY <1>1, Idles DEF RequestsInv
<1>7. <<"roster">> \in overtaken' \/ roster.status \in {"DRAFT", "CHANGES_REQUESTED"}
  BY <1>1 DEF Editable
<1>8. overtaken \subseteq overtaken'
  BY <1>1
<1>9. ReviewHolds'
  BY <1>1, <1>5, <1>7, <1>8 DEF RosterInv, ReviewHolds
<1> QED BY <1>1, <1>5, <1>6, <1>7, <1>8, <1>9 DEF RosterInv

LEMMA SubmitKeeps ==
  ASSUME RequestsInv, RosterInv, NEW user \in Users, SubmitRoster(user)
  PROVE  RosterInv'
<1> DEFINE n == Len(submissions)
           new == Submission(roster.lineup)
<1>1. /\ UNCHANGED <<requests, overtaken, announced>>
      /\ roster' = [roster EXCEPT !.status = "SUBMITTED", !.version = @ + 1]
      /\ submissions' = Append(submissions, new)
      /\ roster.status \in {"DRAFT", "CHANGES_REQUESTED"}
  BY DEF SubmitRoster, AtOnce, OffersSubmission, Editable
<1>2. /\ roster.lineup \in Lineup /\ roster.version \in Nat
      /\ roster \in [status : {"NONE"} \cup RosterStatuses, version : Nat, lineup : Lineup]
  BY DEF RosterInv
<1>3. /\ roster' \in [status : {"NONE"} \cup RosterStatuses, version : Nat, lineup : Lineup]
      /\ roster'.status = "SUBMITTED" /\ roster'.version = roster.version + 1
      /\ roster'.lineup = roster.lineup
  <2>1. "SUBMITTED" \in {"NONE"} \cup RosterStatuses /\ roster.version + 1 \in Nat
    BY <1>2 DEF RosterStatuses
  <2> QED BY <1>1, <1>2, <2>1
<1>4. /\ new \in SubmissionRow /\ new.decision = "SUBMITTED" /\ new.lineup = roster.lineup
  BY <1>2 DEF SubmissionRow, Submission, Nobody, Lineup
<1> HIDE DEF new
<1>5. /\ n \in Nat /\ DOMAIN submissions = 1..n /\ submissions' \in Seq(SubmissionRow)
      /\ Len(submissions') = n + 1 /\ DOMAIN submissions' = 1..(n + 1)
      /\ submissions'[n + 1] = new
      /\ \A s \in 1..n : submissions'[s] = submissions[s]
  BY <1>1, <1>4, AppendProperties, LenProperties DEF RosterInv
<1> HIDE DEF n
<1>6. \A s \in 1..n : submissions[s].decision = "CHANGES_REQUESTED"
  <2> SUFFICES ASSUME NEW s \in 1..n
               PROVE  submissions[s].decision = "CHANGES_REQUESTED"
    OBVIOUS
  <2>1. roster.status = submissions[n].decision /\ roster.status = "CHANGES_REQUESTED"
    <3>1. n > 0
      BY <1>5
    <3> QED BY <1>1, <3>1 DEF RosterInv, ReviewHolds, n
  <2>2. s \in 1..(n - 1) \/ s = n
    BY <1>5
  <2> QED BY <2>1, <2>2 DEF RosterInv, ReviewHolds, n
<1>7. announced \subseteq 1..n /\ announced' = announced
  BY <1>1, <1>5 DEF RosterInv
<1>8. \A s \in 1..n : submissions[s].decision # "SUBMITTED" <=> s \in announced
  BY DEF RosterInv, ReviewHolds, n
<1>9. \A s \in 1..(n + 1) : submissions'[s].decision # "SUBMITTED" <=> s \in announced'
  <2> SUFFICES ASSUME NEW s \in 1..(n + 1)
               PROVE  submissions'[s].decision # "SUBMITTED" <=> s \in announced'
    OBVIOUS
  <2>1. CASE s \in 1..n
    BY <1>5, <1>7, <1>8, <2>1
  <2>2. CASE s = n + 1
    BY <1>4, <1>5, <1>7, <2>2
  <2> QED BY <1>5, <2>1, <2>2
<1>10. <<"roster">> \notin overtaken' =>
         \A s \in 1..(n + 1) : submissions'[s].decision # "SUBMITTED"
           => submissions'[s].seen = submissions'[s].lineup
  <2> SUFFICES ASSUME <<"roster">> \notin overtaken, NEW s \in 1..(n + 1),
                      submissions'[s].decision # "SUBMITTED"
               PROVE  submissions'[s].seen = submissions'[s].lineup
    BY <1>1
  <2>1. s \in 1..n
    BY <1>4, <1>5
  <2> QED BY <1>5, <2>1 DEF RosterInv, ReviewHolds, n
<1>11. \A s \in 1..n : submissions'[s].decision = "CHANGES_REQUESTED"
  BY <1>5, <1>6
<1>12. n + 1 > 0 /\ (n + 1) - 1 = n
  BY <1>5
<1>13. ReviewHolds'
  BY <1>3, <1>4, <1>5, <1>9, <1>10, <1>11, <1>12 DEF ReviewHolds
<1>14. \A q \in Requests : requests[q].op = "review" =>
         requests[q].expected <= roster'.version /\ requests[q].expected # roster'.version
  BY <1>2, <1>3 DEF RosterInv
<1>15. announced' \subseteq DOMAIN submissions'
  BY <1>5, <1>7
<1> QED BY <1>1, <1>3, <1>5, <1>13, <1>14, <1>15 DEF RosterInv

LEMMA DecideKeeps ==
  ASSUME RequestsInv, RosterInv, NEW r \in Requests, DecideRoster(r)
  PROVE  RosterInv'
<1> DEFINE n == Len(submissions)
           undecided == {s \in DOMAIN submissions : submissions[s].decision = "SUBMITTED"}
           latest == CHOOSE s \in undecided : \A t \in undecided : t <= s
           x == requests[r]
           new == [submissions[n] EXCEPT !.decision = x.decision, !.seen = x.seen]
<1>1. /\ requests' = [requests EXCEPT ![r] = Idle] /\ UNCHANGED overtaken
      /\ roster' = [roster EXCEPT !.status = x.decision, !.version = @ + 1]
      /\ submissions' = [submissions EXCEPT ![latest].decision = x.decision,
                                            ![latest].seen = x.seen]
      /\ announced' = announced \cup {latest}
      /\ x.op = "review" /\ roster.status = "SUBMITTED" /\ x.expected = roster.version
      /\ undecided # {}
  BY DEF DecideRoster, End, Continue, Reviewable
<1>2. /\ x.decision \in ReviewDecisions /\ x.seen \in Lineup
      /\ <<"roster">> \in overtaken \/ x.seen = roster.lineup
  BY <1>1 DEF RosterInv
<1>3. /\ n \in Nat /\ DOMAIN submissions = 1..n /\ submissions \in Seq(SubmissionRow)
      /\ roster.version \in Nat
      /\ roster \in [status : {"NONE"} \cup RosterStatuses, version : Nat, lineup : Lineup]
  BY LenProperties DEF RosterInv
<1>4. n > 0 /\ n \in 1..n /\ submissions[n].decision = "SUBMITTED"
  <2>1. n > 0
    BY <1>1, <1>3
  <2> QED BY <1>1, <1>3, <2>1 DEF RosterInv, ReviewHolds
<1>5. undecided = {n}
  <2>1. \A s \in 1..(n - 1) : submissions[s].decision = "CHANGES_REQUESTED"
    BY DEF RosterInv, ReviewHolds
  <2> HIDE DEF n
  <2>2. \A s \in 1..n : s = n \/ s \in 1..(n - 1)
    BY <1>3
  <2> QED BY <1>3, <1>4, <2>1, <2>2
<1>6. latest = n
  <2>1. \A t \in undecided : t <= n
    BY <1>3, <1>5
  <2>2. latest \in undecided
    BY <1>5, <2>1
  <2> QED BY <1>5, <2>2
<1>7. submissions[n] \in SubmissionRow
  BY <1>3, <1>4
<1>8. /\ new \in SubmissionRow /\ new.decision = x.decision /\ new.seen = x.seen
      /\ new.lineup = submissions[n].lineup
  BY <1>2, <1>7 DEF SubmissionRow
<1>9. submissions' = [submissions EXCEPT ![n] = new]
  <2>1. submissions' = [submissions EXCEPT ![n].decision = x.decision, ![n].seen = x.seen]
    BY <1>1, <1>6
  <2>2. /\ submissions \in [1..n -> SubmissionRow] /\ n \in 1..n
        /\ submissions[n] \in SubmissionRow
    BY <1>3, <1>4, <1>7
  <2> HIDE DEF n, x, latest, undecided
  <2> QED BY <2>1, <2>2 DEF new, SubmissionRow
<1> HIDE DEF latest, undecided, new
<1>10. /\ submissions' \in Seq(SubmissionRow) /\ Len(submissions') = n
       /\ DOMAIN submissions' = 1..n /\ submissions'[n] = new
       /\ \A s \in 1..n : s # n => submissions'[s] = submissions[s]
  <2> HIDE DEF n
  <2> QED BY <1>3, <1>4, <1>8, <1>9
<1>11. /\ roster' \in [status : {"NONE"} \cup RosterStatuses, version : Nat, lineup : Lineup]
       /\ roster'.status = x.decision /\ roster'.version = roster.version + 1
       /\ roster'.lineup = roster.lineup
  <2>1. x.decision \in {"NONE"} \cup RosterStatuses /\ roster.version + 1 \in Nat
    BY <1>2, <1>3 DEF RosterStatuses, ReviewDecisions
  <2> HIDE DEF x
  <2> QED BY <1>1, <1>3, <2>1
<1>12. x.decision \in {"APPROVED", "REJECTED", "CHANGES_REQUESTED"}
  BY <1>2 DEF ReviewDecisions
<1> HIDE DEF x
<1>13. \A s \in 1..(n - 1) : submissions'[s].decision = "CHANGES_REQUESTED"
  <2>1. \A s \in 1..(n - 1) : submissions[s].decision = "CHANGES_REQUESTED"
    BY DEF RosterInv, ReviewHolds
  <2> HIDE DEF n
  <2>2. \A s \in 1..(n - 1) : s \in 1..n /\ s # n
    BY <1>3
  <2> QED BY <1>10, <2>1, <2>2
<1>14. \A s \in 1..n : submissions'[s].decision # "SUBMITTED" <=> s \in announced'
  <2>1. \A s \in 1..n : submissions[s].decision # "SUBMITTED" <=> s \in announced
    BY DEF RosterInv, ReviewHolds, n
  <2>2. announced' = announced \cup {n}
    BY <1>1, <1>6
  <2> QED BY <1>8, <1>10, <1>12, <2>1, <2>2
<1>15. <<"roster">> \notin overtaken' => submissions[n].lineup = roster.lineup
  BY <1>1, <1>4 DEF RosterInv, ReviewHolds, n
<1>16. <<"roster">> \notin overtaken' => submissions'[n].lineup = roster'.lineup
  BY <1>8, <1>10, <1>11, <1>15
<1>17. <<"roster">> \notin overtaken' =>
         \A s \in 1..n : submissions'[s].decision # "SUBMITTED"
           => submissions'[s].seen = submissions'[s].lineup
  <2> SUFFICES ASSUME <<"roster">> \notin overtaken, NEW s \in 1..n,
                      submissions'[s].decision # "SUBMITTED"
               PROVE  submissions'[s].seen = submissions'[s].lineup
    BY <1>1
  <2>1. CASE s = n
    BY <1>1, <1>2, <1>8, <1>10, <1>15, <2>1
  <2>2. CASE s # n
    BY <1>10, <2>2 DEF RosterInv, ReviewHolds, n
  <2> QED BY <2>1, <2>2
<1>18. roster'.status = submissions'[n].decision
  BY <1>8, <1>10, <1>11
<1> HIDE DEF n
<1>19. ReviewHolds'
  BY <1>4, <1>10, <1>11, <1>12, <1>13, <1>14, <1>16, <1>17, <1>18 DEF ReviewHolds
<1>20. \A q \in Requests :
         requests'[q].op \in {"edit", "review"} => requests'[q] = requests[q]
  BY <1>1, Idles DEF RequestsInv
<1>21. roster'.version # roster.version /\ roster.version <= roster'.version
  BY <1>3, <1>11
<1>22. announced' \subseteq DOMAIN submissions'
  BY <1>1, <1>3, <1>4, <1>6, <1>10 DEF RosterInv
<1>23. \A q \in Requests : requests[q].op = "review" =>
         requests[q].expected <= roster'.version /\ requests[q].expected # roster'.version
  BY <1>3, <1>11 DEF RosterInv
<1> QED BY <1>10, <1>11, <1>19, <1>20, <1>22, <1>23 DEF RosterInv

LEMMA RosterKeeps ==
  ASSUME RequestsInv, RosterInv, RosterSteps
  PROVE  RosterInv'
<1>1. requests = [q \in Requests |-> requests[q]]
  BY DEF RequestsInv
<1>2. ASSUME NEW user \in Users, NEW player \in Players, CreateOrArchivePlayer(user, player)
      PROVE  RosterInv'
  BY <1>2 DEF CreateOrArchivePlayer, AtOnce, RosterInv, ReviewHolds
<1>3. ASSUME NEW user \in Users, CreateRoster(user)
      PROVE  RosterInv'
  <2>1. /\ UNCHANGED <<requests, overtaken, submissions, announced>> /\ roster.status = "NONE"
        /\ roster' = [roster EXCEPT !.status = "DRAFT"]
    BY <1>3 DEF CreateRoster, AtOnce
  <2>2. "DRAFT" \in {"NONE"} \cup RosterStatuses
    BY DEF RosterStatuses
  <2>3. /\ roster' \in [status : {"NONE"} \cup RosterStatuses, version : Nat, lineup : Lineup]
        /\ roster'.status = "DRAFT" /\ roster'.version = roster.version
        /\ roster'.lineup = roster.lineup
    BY <2>1, <2>2 DEF RosterInv
  <2>4. Len(submissions) = 0
    BY <2>1 DEF RosterInv, ReviewHolds
  <2>5. ReviewHolds'
    BY <2>1, <2>3, <2>4 DEF RosterInv, ReviewHolds
  <2> QED BY <2>1, <2>3, <2>5 DEF RosterInv
<1>4. ASSUME NEW user \in Users, NEW player \in Players, NEW r \in Requests,
             NEW jersey \in Jerseys, EditRead(r, user, player, jersey)
      PROVE  RosterInv'
  <2>1. UNCHANGED <<overtaken, roster, submissions, announced>>
    BY <1>4 DEF EditRead, rosterVars
  <2>2. /\ \A q \in Requests : q # r => requests'[q] = requests[q]
        /\ requests'[r] = [op |-> "edit", player |-> player, jersey |-> jersey]
    BY <1>1, <1>4 DEF EditRead, Begin
  <2>3. jersey \in Nat
    BY RostersAssumption
  <2> QED BY <2>1, <2>2, <2>3 DEF RosterInv, ReviewHolds
<1>5. ASSUME NEW user \in Users, NEW r \in Requests, NEW decision \in ReviewDecisions,
             OpenReview(r, user, decision)
      PROVE  RosterInv'
  <2>1. UNCHANGED <<overtaken, roster, submissions, announced>>
    BY <1>5 DEF OpenReview, rosterVars
  <2>2. /\ \A q \in Requests : q # r => requests'[q] = requests[q]
        /\ requests'[r] = [op |-> "review", decision |-> decision, expected |-> roster.version,
                           seen |-> roster.lineup]
    BY <1>1, <1>5 DEF OpenReview, Begin
  <2>3. roster.version \in Nat /\ roster.lineup \in Lineup
    BY DEF RosterInv
  <2>4. ReviewHolds'
    BY <2>1 DEF RosterInv, ReviewHolds
  <2> QED BY <2>1, <2>2, <2>3, <2>4 DEF RosterInv
<1> QED BY <1>2, <1>3, <1>4, <1>5, SubmitKeeps, UpsertKeeps, DecideKeeps DEF RosterSteps

LEMMA RosterInvariant == Spec => []RosterInv
<1>1. Init => RosterInv
  <2> SUFFICES ASSUME Init
               PROVE  RosterInv
    OBVIOUS
  <2>1. PICK player \in Players, jersey \in Jerseys, status \in {"NONE", "DRAFT", "SUBMITTED"} :
          /\ roster = [status |-> status, version |-> IF status = "SUBMITTED" THEN 2 ELSE 1,
                       lineup |-> IF status = "NONE" THEN Nobody
                                  ELSE [Nobody EXCEPT ![player] = jersey]]
          /\ submissions = IF status = "SUBMITTED"
                           THEN <<Submission([Nobody EXCEPT ![player] = jersey])>> ELSE <<>>
          /\ announced = {}
    BY DEF Init, RostersInit
  <2> DEFINE lineup == [Nobody EXCEPT ![player] = jersey]
  <2>2. Nobody \in Lineup /\ lineup \in Lineup
    BY RostersAssumption DEF Nobody, Lineup
  <2> HIDE DEF lineup
  <2>3. roster \in [status : {"NONE"} \cup RosterStatuses, version : Nat, lineup : Lineup]
    <3>1. status \in {"NONE"} \cup RosterStatuses
      BY DEF RosterStatuses
    <3> QED BY <2>1, <2>2, <3>1 DEF lineup
  <2>4. CASE status = "SUBMITTED"
    <3>1. Submission(lineup) \in SubmissionRow
      BY <2>2 DEF Submission, SubmissionRow
    <3>2. submissions = <<Submission(lineup)>>
      BY <2>1, <2>4 DEF lineup
    <3>3. /\ submissions \in Seq(SubmissionRow) /\ Len(submissions) = 1
          /\ submissions[1] = Submission(lineup) /\ DOMAIN submissions = 1..1
      BY <3>1, <3>2
    <3>4. roster.status = "SUBMITTED" /\ roster.lineup = lineup
      BY <2>1, <2>4 DEF lineup
    <3>5. ReviewHolds
      <4>1. submissions[1].decision = "SUBMITTED" /\ submissions[1].lineup = lineup
        BY <3>3 DEF Submission
      <4>2. \A s \in 1..1 : s = 1
        OBVIOUS
      <4>3. \A s \in 1..(1 - 1) : FALSE
        OBVIOUS
      <4>4. announced = {}
        BY <2>1
      <4> QED BY <3>3, <3>4, <4>1, <4>2, <4>3, <4>4 DEF ReviewHolds
    <3> QED BY <2>1, <2>3, <3>3, <3>5, Idles DEF RosterInv, Init, AccessInit
  <2>5. CASE status # "SUBMITTED"
    <3>1. submissions = <<>> /\ roster.status \in {"NONE", "DRAFT"}
      BY <2>1, <2>5
    <3>2. ReviewHolds
      BY <2>1, <3>1 DEF ReviewHolds
    <3> QED BY <2>1, <2>3, <3>1, <3>2, Idles DEF RosterInv, Init, AccessInit
  <2> QED BY <2>4, <2>5
<1>2. RequestsInv /\ RosterInv /\ [Next]_vars => RosterInv'
  <2> SUFFICES ASSUME RequestsInv, RosterInv, [Next]_vars
               PROVE  RosterInv'
    OBVIOUS
  <2>1. {"edit", "review"} \cap (RoleOps \cup RegistrationOps \cup MediaOps \cup {"idle"}) = {}
    BY DEF RoleOps, RegistrationOps, MediaOps, Chain
  <2>2. CASE Keeps(UNCHANGED <<registered, registrationVars, rosterVars, mediaVars>>, RoleOps)
    BY <2>1, <2>2, RosterUntouched DEF Keeps, rosterVars
  <2>3. CASE Keeps(UNCHANGED <<rolesVars, rosterVars, mediaVars>>, RegistrationOps)
    BY <2>1, <2>3, RosterUntouched DEF Keeps, rosterVars
  <2>4. CASE RosterSteps
    BY <2>4, RosterKeeps
  <2>5. CASE Keeps(UNCHANGED beforeMedia, MediaOps)
    BY <2>1, <2>5, RosterUntouched DEF Keeps, beforeMedia, rosterVars
  <2>6. CASE Keeps(Elsewhere, {"idle"})
    BY <2>1, <2>6, RosterUntouched DEF Keeps, Elsewhere, rosterVars
  <2> QED BY <2>2, <2>3, <2>4, <2>5, <2>6, Footprint
<1> QED BY <1>1, <1>2, RequestsInvariant, PTL DEF Spec

\* However submissions and reviews overlap, a roster, its submissions and what was
\* announced tell the same, and a decision is about the lineup that the reviewer saw and
\* the team submitted; only a player saved by a request that had found the roster in
\* editing escapes the comparison of versions (management.service.ts:246-368).
THEOREM ReviewedAsSeen == Spec => []ReviewHolds
<1>1. RosterInv => ReviewHolds
  BY DEF RosterInv
<1> QED BY <1>1, RosterInvariant, PTL
-----------------------------------------------------------------------------
AssetStatus == {"PENDING_UPLOAD", "AVAILABLE", "REJECTED", "REPLACED", "DELETION_PENDING"}
Uploads == Chain \cup {"replace"}

\* Each upload has an asset of its own, which was never the logo; one that is about to
\* replace the logo can be shown.
UploadsInv ==
  /\ \A r \in Requests : requests[r].op \in Uploads =>
       requests[r].asset \in DOMAIN assets \ worn
  /\ \A q, r \in Requests :
       requests[q].op \in Uploads /\ requests[r].op \in Uploads
       /\ requests[q].asset = requests[r].asset => q = r
  /\ \A r \in Requests : requests[r].op = "replace" =>
       assets[requests[r].asset] = "AVAILABLE" /\ requests[r].found \in {0} \cup worn

MediaInv ==
  /\ assets \in Seq(AssetStatus) /\ team \in [logo : Nat, version : Nat]
  /\ worn \subseteq DOMAIN assets /\ (team.logo # 0 => team.logo \in worn)
  /\ cleanups \subseteq worn \ {team.logo}
  /\ OldLogosRetired
  /\ UploadsInv

LEMMA MediaUntouched ==
  ASSUME RequestsInv, MediaInv, UNCHANGED mediaVars,
         NEW ops, Touches(ops), Uploads \cap ops = {}, overtaken \subseteq overtaken'
  PROVE  MediaInv'
<1>1. OldLogosRetired'
  BY DEF MediaInv, OldLogosRetired, mediaVars
<1>2. \A r \in Requests : requests'[r].op \in Uploads => requests'[r] = requests[r]
  BY DEF RequestsInv, Touches
<1>3. "replace" \in Uploads
  BY DEF Uploads
<1>4. UploadsInv'
  BY <1>2, <1>3 DEF MediaInv, UploadsInv, mediaVars
<1> QED BY <1>1, <1>4 DEF MediaInv, mediaVars

\* An upload goes on, or ends.
LEMMA UploadGoesOn ==
  ASSUME RequestsInv, MediaInv, NEW r \in Requests, requests[r].op \in Uploads,
         NEW x, requests' = [requests EXCEPT ![r] = x],
         x.op \in Uploads => x.asset = requests[r].asset,
         x.op = "replace" => assets'[x.asset] = "AVAILABLE" /\ x.found \in {0} \cup worn,
         UNCHANGED worn, DOMAIN assets' = DOMAIN assets,
         \A a \in DOMAIN assets : a # requests[r].asset => assets'[a] = assets[a]
  PROVE  UploadsInv'
<1>1. requests'[r] = x /\ \A q \in Requests : q # r => requests'[q] = requests[q]
  BY DEF RequestsInv
<1>2. \A q \in Requests : requests'[q].op \in Uploads =>
        requests[q].op \in Uploads /\ requests'[q].asset = requests[q].asset
  BY <1>1
<1>3. "replace" \in Uploads
  BY DEF Uploads
<1>4. ASSUME NEW q \in Requests, requests'[q].op = "replace"
      PROVE  assets'[requests'[q].asset] = "AVAILABLE" /\ requests'[q].found \in {0} \cup worn'
  <2>1. CASE q = r
    BY <1>1, <1>4, <2>1
  <2>2. CASE q # r
    <3>1. requests'[q] = requests[q] /\ requests[q].asset # requests[r].asset
      BY <1>1, <1>3, <1>4, <2>2 DEF MediaInv, UploadsInv
    <3>2. requests[q].asset \in DOMAIN assets
      BY <1>3, <1>4, <3>1 DEF MediaInv, UploadsInv
    <3> QED BY <1>4, <3>1, <3>2 DEF MediaInv, UploadsInv
  <2> QED BY <2>1, <2>2
<1> QED BY <1>2, <1>4 DEF MediaInv, UploadsInv

LEMMA RequestUploadKeeps ==
  ASSUME RequestsInv, MediaInv, NEW user \in Users, NEW r \in Requests, RequestUpload(r, user)
  PROVE  MediaInv'
<1> DEFINE n == Len(assets)
           x == UploadLogo(user, n + 1)
<1>1. /\ UNCHANGED <<team, cleanups, worn, overtaken>>
      /\ assets' = Append(assets, "PENDING_UPLOAD")
      /\ requests' = [requests EXCEPT ![r] = x]
  BY DEF RequestUpload, Begin
<1>2. x.op = "put" /\ x.asset = n + 1
  BY DEF UploadLogo
<1> HIDE DEF x
<1>3. /\ n \in Nat /\ DOMAIN assets = 1..n /\ assets' \in Seq(AssetStatus)
      /\ DOMAIN assets' = 1..(n + 1) /\ \A a \in 1..n : assets'[a] = assets[a]
  <2>1. "PENDING_UPLOAD" \in AssetStatus
    BY DEF AssetStatus
  <2> QED BY <1>1, <2>1, LenProperties, AppendProperties DEF MediaInv
<1> HIDE DEF n
<1>4. requests'[r] = x /\ \A q \in Requests : q # r => requests'[q] = requests[q]
  BY <1>1 DEF RequestsInv
<1>5. worn \subseteq 1..n /\ n + 1 \notin worn /\ DOMAIN assets \subseteq DOMAIN assets'
  BY <1>3 DEF MediaInv
<1>6. \A q \in Requests : q # r /\ requests'[q].op \in Uploads =>
        requests'[q].asset \in 1..n \ worn /\ requests'[q] = requests[q]
  BY <1>3, <1>4 DEF MediaInv, UploadsInv
<1>7. \A q \in Requests : requests'[q].op = "replace" =>
        /\ q # r /\ requests'[q] = requests[q] /\ requests[q].asset \in 1..n
  BY <1>2, <1>4, <1>6 DEF Uploads
<1>8. UploadsInv'
  <2>1. \A q \in Requests : requests'[q].op \in Uploads =>
          requests'[q].asset \in DOMAIN assets' \ worn
    BY <1>2, <1>3, <1>4, <1>5, <1>6
  <2>2. \A p, q \in Requests :
          requests'[p].op \in Uploads /\ requests'[q].op \in Uploads
          /\ requests'[p].asset = requests'[q].asset => p = q
    <3>1. n + 1 \notin 1..n
      BY <1>3
    <3> QED BY <1>2, <1>4, <1>6, <3>1 DEF MediaInv, UploadsInv
  <2>3. \A q \in Requests : requests'[q].op = "replace" =>
          assets'[requests'[q].asset] = "AVAILABLE" /\ requests'[q].found \in {0} \cup worn
    BY <1>3, <1>7 DEF MediaInv, UploadsInv
  <2> QED BY <1>1, <2>1, <2>2, <2>3 DEF UploadsInv
<1>9. OldLogosRetired'
  BY <1>1, <1>3, <1>5 DEF MediaInv, OldLogosRetired
<1> QED BY <1>1, <1>3, <1>5, <1>8, <1>9 DEF MediaInv

\* Steps of the chain that change no logo.
LEMMA ChainKeeps ==
  ASSUME RequestsInv, MediaInv, NEW r \in Requests,
         CompleteUpload(r) \/ RejectUpload(r) \/ ReplaceRead(r)
         \/ \E matches \in BOOLEAN : CompleteRead(r, matches)
  PROVE  MediaInv'
<1> DEFINE asset == requests[r].asset
<1>1. requests[r].op \in Chain /\ requests[r].op \in Uploads
      /\ UNCHANGED <<team, cleanups, worn, overtaken>>
  BY DEF CompleteUpload, RejectUpload, ReplaceRead, CompleteRead, Chain, Uploads, mediaVars
<1>2. asset \in DOMAIN assets \ worn
  BY <1>1 DEF MediaInv, UploadsInv
<1>3. \/ UNCHANGED assets
      \/ assets' = [assets EXCEPT ![asset] = "REJECTED"]
      \/ assets' = [assets EXCEPT ![asset] = "AVAILABLE"]
  BY DEF CompleteUpload, RejectUpload, ReplaceRead, CompleteRead, mediaVars
<1>4. /\ assets' \in Seq(AssetStatus) /\ DOMAIN assets' = DOMAIN assets
      /\ \A a \in DOMAIN assets : a # asset => assets'[a] = assets[a]
  <2>1. "REJECTED" \in AssetStatus /\ "AVAILABLE" \in AssetStatus /\ assets \in Seq(AssetStatus)
    BY DEF AssetStatus, MediaInv
  <2> HIDE DEF asset
  <2> QED BY <1>2, <1>3, <2>1
<1>5. OldLogosRetired'
  <2>1. \A a \in worn : assets'[a] = assets[a]
    BY <1>2, <1>4 DEF MediaInv
  <2> QED BY <1>1, <2>1 DEF MediaInv, OldLogosRetired
<1>6. ASSUME NEW matches \in BOOLEAN, CompleteRead(r, matches)
      PROVE  UploadsInv'
  <2> DEFINE op == IF matches THEN "complete" ELSE "reject"
             x == [requests[r] EXCEPT !.op = op]
  <2>1. op \in Chain /\ op # "replace"
    BY DEF Chain
  <2>2. requests' = [requests EXCEPT ![r] = x]
    BY <1>6 DEF CompleteRead, Continue
  <2> HIDE DEF op
  <2>3. x.op = op /\ x.asset = asset
    BY <1>1, <2>1, ChainGoesOn
  <2> HIDE DEF x
  <2> QED BY <1>1, <1>4, <2>1, <2>2, <2>3, UploadGoesOn
<1>7. CASE CompleteUpload(r)
  <2> DEFINE x == [requests[r] EXCEPT !.op = "logo"]
  <2>1. requests' = [requests EXCEPT ![r] = x]
    BY <1>7 DEF CompleteUpload, Continue
  <2>2. "logo" \in Chain
    BY DEF Chain
  <2>3. x.op = "logo" /\ x.asset = asset
    BY <1>1, <2>2, ChainGoesOn
  <2> HIDE DEF x
  <2>4. UploadsInv'
    BY <1>1, <1>4, <2>1, <2>3, UploadGoesOn
  <2> QED BY <1>1, <1>4, <1>5, <2>4 DEF MediaInv
<1>8. CASE RejectUpload(r)
  <2>1. requests' = [requests EXCEPT ![r] = Idle]
    BY <1>8 DEF RejectUpload, End, Continue
  <2>2. Idle.op \notin Uploads /\ "replace" \in Uploads
    BY Idles DEF Uploads, Chain
  <2>3. UploadsInv'
    BY <1>1, <1>4, <2>1, <2>2, UploadGoesOn
  <2> QED BY <1>1, <1>4, <1>5, <2>3 DEF MediaInv
<1>9. CASE ReplaceRead(r)
  <2> DEFINE x == [op |-> "replace", asset |-> asset, found |-> team.logo]
  <2>1. requests' = [requests EXCEPT ![r] = x] /\ UNCHANGED assets /\ assets[asset] = "AVAILABLE"
    BY <1>9 DEF ReplaceRead, Continue, mediaVars
  <2>2. x.op = "replace" /\ x.asset = asset /\ x.found = team.logo
    OBVIOUS
  <2>3. team.logo \in {0} \cup worn
    BY DEF MediaInv
  <2> HIDE DEF x
  <2>4. UploadsInv'
    BY <1>1, <1>4, <2>1, <2>2, <2>3, UploadGoesOn
  <2> QED BY <1>1, <1>4, <1>5, <2>4 DEF MediaInv
<1> QED BY <1>1, <1>4, <1>5, <1>6, <1>7, <1>8, <1>9 DEF MediaInv

LEMMA ReplaceKeeps ==
  ASSUME RequestsInv, MediaInv, NEW r \in Requests, ReplaceTeamLogo(r)
  PROVE  MediaInv'
<1> DEFINE asset == requests[r].asset
           found == requests[r].found
<1>1. /\ requests[r].op = "replace" /\ requests' = [requests EXCEPT ![r] = Idle]
      /\ team' = [logo |-> asset, version |-> team.version + 1]
      /\ assets' = [a \in DOMAIN assets |-> IF a \in {found} \ {0, asset} THEN "REPLACED"
                                            ELSE assets[a]]
      /\ cleanups' = cleanups \cup ({found} \ {0, asset})
      /\ worn' = worn \cup {asset}
      /\ overtaken' = IF found = team.logo THEN overtaken
                      ELSE overtaken \cup {<<"logo", team.logo>>}
  BY DEF ReplaceTeamLogo, Replaced, End, Continue
<1>2. /\ asset \in DOMAIN assets \ worn /\ assets[asset] = "AVAILABLE"
      /\ found \in {0} \cup worn /\ requests[r].op \in Uploads
  BY <1>1 DEF MediaInv, UploadsInv, Uploads
<1> HIDE DEF asset, found
<1>3. /\ Len(assets) \in Nat /\ DOMAIN assets = 1..Len(assets) /\ assets \in Seq(AssetStatus)
      /\ worn \subseteq DOMAIN assets /\ (team.logo # 0 => team.logo \in worn)
      /\ cleanups \subseteq worn /\ team \in [logo : Nat, version : Nat]
  BY LenProperties DEF MediaInv
<1>4. asset # 0 /\ asset \in Nat /\ 0 \notin worn /\ found # asset
  BY <1>2, <1>3
<1>5. /\ assets' \in Seq(AssetStatus) /\ DOMAIN assets' = DOMAIN assets
      /\ \A a \in DOMAIN assets :
           assets'[a] = IF a = found THEN "REPLACED" ELSE assets[a]
  <2>1. "REPLACED" \in AssetStatus
    BY DEF AssetStatus
  <2>2. \A a \in DOMAIN assets : a \in {found} \ {0, asset} <=> a = found
    BY <1>3, <1>4
  <2>3. assets' \in [1..Len(assets) -> AssetStatus]
    BY <1>1, <1>3, <2>1
  <2>4. assets' \in Seq(AssetStatus)
    BY <1>3, <2>3
  <2> QED BY <1>1, <2>2, <2>4
<1>6. team' \in [logo : Nat, version : Nat] /\ team'.logo = asset
  BY <1>1, <1>3, <1>4
<1>7. worn' \subseteq DOMAIN assets' /\ cleanups' \subseteq worn' \ {asset}
  BY <1>1, <1>2, <1>3, <1>4, <1>5
<1>8. OldLogosRetired'
  <2>1. assets'[asset] = "AVAILABLE"
    BY <1>2, <1>4, <1>5
  <2>2. ASSUME NEW a \in worn' \ {asset}
        PROVE  \/ assets'[a] = "REPLACED" /\ a \in cleanups'
               \/ assets'[a] = "DELETION_PENDING"
               \/ <<"logo", a>> \in overtaken'
    <3>1. a \in worn /\ a \in DOMAIN assets /\ a # 0
      BY <1>1, <1>3, <1>4
    <3>2. CASE a = found
      BY <1>1, <1>4, <1>5, <3>1, <3>2
    <3>3. CASE a # found /\ a = team.logo
      BY <1>1, <3>3
    <3>4. CASE a # found /\ a # team.logo
      BY <1>1, <1>5, <3>1, <3>4 DEF MediaInv, OldLogosRetired
    <3> QED BY <3>2, <3>3, <3>4
  <2> QED BY <1>6, <2>1, <2>2 DEF OldLogosRetired
<1>9. UploadsInv'
  <2>1. \A q \in Requests : requests'[q].op \in Uploads =>
          q # r /\ requests'[q] = requests[q]
    BY <1>1, Idles DEF RequestsInv, Uploads, Chain
  <2>2. \A q \in Requests : requests'[q].op \in Uploads =>
          requests[q].asset # asset /\ requests[q].asset \in DOMAIN assets \ worn
    BY <1>2, <2>1 DEF MediaInv, UploadsInv, asset
  <2>3. \A q \in Requests : requests'[q].op \in Uploads =>
          requests'[q].asset \in DOMAIN assets' \ worn'
    BY <1>1, <1>5, <2>1, <2>2
  <2>4. \A p, q \in Requests :
          requests'[p].op \in Uploads /\ requests'[q].op \in Uploads
          /\ requests'[p].asset = requests'[q].asset => p = q
    BY <2>1 DEF MediaInv, UploadsInv
  <2>5. ASSUME NEW q \in Requests, requests'[q].op = "replace"
        PROVE  assets'[requests'[q].asset] = "AVAILABLE" /\ requests'[q].found \in {0} \cup worn'
    <3>1. requests'[q].op \in Uploads
      BY <2>5 DEF Uploads
    <3>2. requests'[q] = requests[q] /\ requests[q].asset \in DOMAIN assets \ worn
      BY <2>1, <2>2, <3>1
    <3>3. assets[requests[q].asset] = "AVAILABLE" /\ requests[q].found \in {0} \cup worn
      BY <2>5, <3>2 DEF MediaInv, UploadsInv
    <3>4. requests[q].asset # found
      BY <1>2, <1>3, <1>4, <3>2
    <3> QED BY <1>1, <1>5, <3>2, <3>3, <3>4
  <2> QED BY <2>3, <2>4, <2>5 DEF UploadsInv
<1> QED BY <1>1, <1>5, <1>6, <1>7, <1>8, <1>9 DEF MediaInv

LEMMA MarkKeeps ==
  ASSUME RequestsInv, MediaInv, NEW a \in DOMAIN assets, MarkForDeletion(a)
  PROVE  MediaInv'
<1>1. /\ a \in cleanups /\ cleanups' = cleanups \ {a}
      /\ assets' = IF assets[a] = "REPLACED" THEN [assets EXCEPT ![a] = "DELETION_PENDING"]
                   ELSE assets
      /\ UNCHANGED <<requests, overtaken, team, worn>>
  BY DEF MarkForDeletion
<1>2. a \in worn \ {team.logo}
  BY <1>1 DEF MediaInv
<1>3. /\ assets' \in Seq(AssetStatus) /\ DOMAIN assets' = DOMAIN assets
      /\ \A b \in DOMAIN assets :
           assets'[b] = IF b = a /\ assets[a] = "REPLACED" THEN "DELETION_PENDING" ELSE assets[b]
  <2>1. "DELETION_PENDING" \in AssetStatus /\ assets \in Seq(AssetStatus)
    BY DEF AssetStatus, MediaInv
  <2> QED BY <1>1, <2>1
<1>4. worn \subseteq DOMAIN assets /\ (team.logo # 0 => team.logo \in worn)
  BY DEF MediaInv
<1>5. OldLogosRetired'
  BY <1>1, <1>2, <1>3, <1>4 DEF MediaInv, OldLogosRetired
<1>6. UploadsInv'
  <2>1. \A q \in Requests : requests[q].op = "replace" =>
          requests[q].asset \in DOMAIN assets /\ requests[q].asset # a
    BY <1>2 DEF MediaInv, UploadsInv, Uploads
  <2> QED BY <1>1, <1>3, <2>1 DEF MediaInv, UploadsInv
<1> QED BY <1>1, <1>3, <1>4, <1>5, <1>6 DEF MediaInv

LEMMA MediaKeeps ==
  ASSUME RequestsInv, MediaInv, MediaSteps
  PROVE  MediaInv'
<1>1. ASSUME NEW user \in Users, UpdateTeam(user)
      PROVE  MediaInv'
  <2>1. /\ UNCHANGED <<requests, overtaken, assets, cleanups, worn>>
        /\ team' = [team EXCEPT !.version = @ + 1]
    BY <1>1 DEF UpdateTeam, AtOnce
  <2>2. team' \in [logo : Nat, version : Nat] /\ team'.logo = team.logo
    BY <2>1 DEF MediaInv
  <2> QED BY <2>1, <2>2 DEF MediaInv, OldLogosRetired, UploadsInv
<1> QED BY <1>1, RequestUploadKeeps, ChainKeeps, ReplaceKeeps, MarkKeeps DEF MediaSteps

LEMMA MediaInvariant == Spec => []MediaInv
<1>1. Init => MediaInv
  <2> SUFFICES ASSUME Init
               PROVE  MediaInv
    OBVIOUS
  <2>1. PICK logo \in {0, 1} :
          /\ team = [logo |-> logo, version |-> 1 + logo]
          /\ assets = IF logo = 1 THEN <<"AVAILABLE">> ELSE <<>>
          /\ worn = DOMAIN assets /\ cleanups = {}
    BY DEF Init, MediaInit
  <2>2. assets \in Seq(AssetStatus) /\ team \in [logo : Nat, version : Nat]
    <3>1. "AVAILABLE" \in AssetStatus
      BY DEF AssetStatus
    <3>2. <<"AVAILABLE">> \in Seq(AssetStatus) /\ <<>> \in Seq(AssetStatus)
      BY <3>1
    <3> QED BY <2>1, <3>2
  <2>3. UploadsInv
    BY Idles DEF Init, AccessInit, UploadsInv, Uploads, Chain
  <2>4. worn = IF logo = 1 THEN {1} ELSE {}
    BY <2>1
  <2>5. OldLogosRetired
    BY <2>1, <2>4 DEF OldLogosRetired
  <2> QED BY <2>1, <2>2, <2>3, <2>4, <2>5 DEF MediaInv
<1>2. RequestsInv /\ MediaInv /\ [Next]_vars => MediaInv'
  <2> SUFFICES ASSUME RequestsInv, MediaInv, [Next]_vars
               PROVE  MediaInv'
    OBVIOUS
  <2>1. Uploads \cap (RoleOps \cup RegistrationOps \cup RosterOps \cup {"idle"}) = {}
    BY DEF Uploads, RoleOps, RegistrationOps, RosterOps, Chain
  <2>2. CASE Keeps(UNCHANGED <<registered, registrationVars, rosterVars, mediaVars>>, RoleOps)
    BY <2>1, <2>2, MediaUntouched DEF Keeps
  <2>3. CASE Keeps(UNCHANGED <<rolesVars, rosterVars, mediaVars>>, RegistrationOps)
    BY <2>1, <2>3, MediaUntouched DEF Keeps
  <2>4. CASE Keeps(UNCHANGED <<beforeRosters, mediaVars>>, RosterOps)
    BY <2>1, <2>4, MediaUntouched DEF Keeps
  <2>5. CASE MediaSteps
    BY <2>5, MediaKeeps
  <2>6. CASE Keeps(Elsewhere, {"idle"})
    BY <2>1, <2>6, MediaUntouched DEF Keeps, Elsewhere
  <2> QED BY <2>2, <2>3, <2>4, <2>5, <2>6, Footprint
<1> QED BY <1>1, <1>2, RequestsInvariant, PTL DEF Spec

\* The logo can be shown, and what was a logo before waits for its clean-up or is marked
\* for deletion; only a replacement that had read an older logo leaves one behind
\* (storage.service.ts:131-211, job-handler.service.ts).
THEOREM LogosRetired == Spec => []OldLogosRetired
<1>1. MediaInv => OldLogosRetired
  BY DEF MediaInv
<1> QED BY <1>1, MediaInvariant, PTL
-----------------------------------------------------------------------------
GrantRow == [user : Users, role : Roles, invitation : Nat, lapsed : BOOLEAN]

\* Roles belong to members, and say the invitation that gave them.
RolesInv ==
  /\ coaches \subseteq members /\ members \subseteq Users
  /\ grants \subseteq GrantRow
  /\ \A g \in grants : g.user \in members /\ g.invitation <= Len(invitations)

LEMMA MoreGrants ==
  ASSUME RolesInv, invitations \in Seq(Invitation), members \subseteq members',
         members' \subseteq Users, coaches' \subseteq members',
         Len(invitations') \in Nat, Len(invitations') >= Len(invitations),
         \A g \in grants' : \/ g \in grants
                            \/ /\ g \in GrantRow /\ g.user \in members'
                               /\ g.invitation <= Len(invitations')
  PROVE  RolesInv'
<1>1. Len(invitations) \in Nat
  BY LenProperties
<1>2. ASSUME NEW g \in grants'
      PROVE  g \in GrantRow /\ g.user \in members' /\ g.invitation <= Len(invitations')
  <2>1. CASE g \in grants
    <3>1. g \in GrantRow /\ g.user \in members /\ g.invitation <= Len(invitations)
      BY <2>1 DEF RolesInv
    <3>2. g.invitation \in Nat
      BY <3>1 DEF GrantRow
    <3> QED BY <1>1, <3>1, <3>2
  <2> QED BY <1>2, <2>1
<1> QED BY <1>2 DEF RolesInv

LEMMA RolesKeep ==
  ASSUME InvitationsInv, RolesInv, RoleSteps
  PROVE  RolesInv'
<1>1. /\ invitations \in Seq(Invitation) /\ Len(invitations) \in Nat
      /\ DOMAIN invitations = 1..Len(invitations)
      /\ coaches \subseteq members /\ members \subseteq Users
  BY LenProperties DEF InvitationsInv, RolesInv
<1>2. ASSUME NEW user \in Users, NEW role \in RolesGiven, CreateInvitation(user, role)
      PROVE  RolesInv'
  <2>1. PICK new : new = [email |-> user, role |-> role, state |-> "queued", given |-> 0]
    OBVIOUS
  <2>2. /\ invitations' = Append(invitations, new) /\ UNCHANGED <<members, grants, coaches>>
        /\ new \in Invitation
    BY <1>2, <2>1, OrganizationAssumption DEF CreateInvitation, Invitation
  <2>3. Len(invitations') = Len(invitations) + 1
    BY <1>1, <2>2, AppendProperties
  <2> QED BY <1>1, <2>2, <2>3, MoreGrants
<1>3. ASSUME NEW i \in DOMAIN invitations, NEW state, invitations' = [invitations EXCEPT ![i].state = state]
      PROVE  Len(invitations') = Len(invitations)
  BY <1>1, <1>3
<1>4. ASSUME NEW user \in Users, NEW role \in RolesGiven, Assign(user, role)
      PROVE  RolesInv'
  <2>1. PICK g : g = Grant(user, role, 0)
    OBVIOUS
  <2>2. /\ UNCHANGED <<members, coaches, invitations>> /\ user \in members
        /\ grants' = grants \cup {g}
    BY <1>4, <2>1 DEF Assign
  <2>3. g \in GrantRow /\ g.user = user /\ g.invitation = 0
    BY <2>1, OrganizationAssumption DEF Grant, GrantRow
  <2> QED BY <1>1, <2>2, <2>3, MoreGrants
<1>5. ASSUME NEW i \in DOMAIN invitations, SendInvitation(i)
      PROVE  RolesInv'
  <2>1. Len(invitations') = Len(invitations) /\ UNCHANGED <<members, grants, coaches>>
    BY <1>3, <1>5 DEF SendInvitation
  <2> QED BY <1>1, <2>1, MoreGrants
<1>6. CASE Expire
  <2>1. UNCHANGED <<members, coaches>>
    BY <1>6 DEF Expire
  <2>2. CASE UNCHANGED grants /\ Len(invitations') = Len(invitations)
    BY <1>1, <2>1, <2>2, MoreGrants
  <2>3. CASE \E g \in grants :
               /\ grants' = (grants \ {g}) \cup {[g EXCEPT !.lapsed = TRUE]}
               /\ UNCHANGED invitations
    <3>1. PICK g \in grants : /\ grants' = (grants \ {g}) \cup {[g EXCEPT !.lapsed = TRUE]}
                              /\ UNCHANGED invitations
      BY <2>3
    <3>2. PICK h : h = [g EXCEPT !.lapsed = TRUE]
      OBVIOUS
    <3>3. g \in GrantRow /\ g.user \in members /\ g.invitation <= Len(invitations)
      BY <3>1 DEF RolesInv
    <3>4. h \in GrantRow /\ h.user = g.user /\ h.invitation = g.invitation
      BY <3>2, <3>3 DEF GrantRow
    <3>5. \A e \in grants' : e \in grants \/ e = h
      BY <3>1, <3>2
    <3>6. h.user \in members' /\ h.invitation <= Len(invitations')
      BY <2>1, <3>1, <3>3, <3>4
    <3> QED BY <1>1, <2>1, <3>1, <3>4, <3>5, <3>6, MoreGrants
  <2>4. \/ UNCHANGED grants /\ Len(invitations') = Len(invitations)
        \/ \E g \in grants : /\ grants' = (grants \ {g}) \cup {[g EXCEPT !.lapsed = TRUE]}
                             /\ UNCHANGED invitations
    BY <1>3, <1>6 DEF Expire
  <2> QED BY <2>2, <2>3, <2>4
<1>7. ASSUME NEW i \in DOMAIN invitations, NEW r \in Requests, AcceptRead(r, i)
      PROVE  RolesInv'
  <2>1. UNCHANGED <<members, grants, coaches, invitations>>
    BY <1>7 DEF AcceptRead, rolesVars
  <2> QED BY <2>1 DEF RolesInv
<1>8. ASSUME NEW r \in Requests, AcceptCommit(r)
      PROVE  RolesInv'
  <2>1. PICK i, user, role : /\ i = requests[r].invitation /\ user = invitations[i].email
                             /\ role = invitations[i].role
    OBVIOUS
  <2>2. PICK g : g = Grant(user, role, i)
    OBVIOUS
  <2>3. i \in DOMAIN invitations
    BY <1>8, <2>1 DEF AcceptCommit, InvitationsInv
  <2>4. user \in Users /\ role \in Roles
    <3>1. invitations[i] \in Invitation
      BY <1>1, <2>3
    <3> QED BY <2>1, <3>1 DEF Invitation
  <2>5. /\ members' = members \cup {user} /\ grants' = grants \cup {g}
        /\ coaches' = coaches \/ coaches' = coaches \cup {user}
    BY <1>8, <2>1, <2>2 DEF AcceptCommit, Joined
  <2>6. Len(invitations') = Len(invitations)
    <3>1. PICK new : invitations' = [invitations EXCEPT ![i] = new]
      <4>1. invitations' = [invitations EXCEPT ![i] =
                              [invitations[i] EXCEPT !.state = "accepted", !.given = @ + 1]]
        BY <1>8, <2>1 DEF AcceptCommit
      <4> QED BY <4>1
    <3> QED BY <1>1, <3>1
  <2>7. g \in GrantRow /\ g.user = user /\ g.invitation = i /\ i <= Len(invitations)
    BY <1>1, <2>2, <2>3, <2>4 DEF Grant, GrantRow
  <2> QED BY <1>1, <2>4, <2>5, <2>6, <2>7, MoreGrants
<1> QED BY <1>2, <1>4, <1>5, <1>6, <1>7, <1>8 DEF RoleSteps

LEMMA RolesInvariant == Spec => []RolesInv
<1>1. Init => RolesInv
  <2> SUFFICES ASSUME Init PROVE RolesInv
    OBVIOUS
  <2>1. /\ coaches \in {{}} \cup {{user} : user \in Users \ {Admin}}
        /\ members = {Admin} \cup coaches /\ invitations = <<>>
        /\ grants = {Grant(Admin, "organization-admin", 0)}
                    \cup {Grant(user, "coach", 0) : user \in coaches}
    BY DEF Init, AccessInit
  <2>2. coaches \subseteq members /\ members \subseteq Users
    BY <2>1, AccessAssumption
  <2>3. ASSUME NEW g \in grants
        PROVE  g \in GrantRow /\ g.user \in members /\ g.invitation = 0
    <3>1. PICK user \in members, role \in Roles : g = Grant(user, role, 0)
      BY <2>1 DEF Roles
    <3> QED BY <2>2, <3>1 DEF Grant, GrantRow
  <2>4. Len(invitations) = 0
    BY <2>1
  <2> QED BY <2>2, <2>3, <2>4 DEF RolesInv
<1>2. RequestsInv /\ InvitationsInv /\ RolesInv /\ [Next]_vars => RolesInv'
  <2> SUFFICES ASSUME RequestsInv, InvitationsInv, RolesInv, [Next]_vars PROVE RolesInv'
    OBVIOUS
  <2>1. UNCHANGED rolesVars => RolesInv'
    BY DEF RolesInv, rolesVars
  <2>2. RoleSteps \/ UNCHANGED rolesVars
    BY Footprint DEF Keeps, beforeMedia, beforeRosters, Elsewhere
  <2> QED BY <2>1, <2>2, RolesKeep
<1> QED BY <1>1, <1>2, RequestsInvariant, InvitationsInvariant, PTL DEF Spec

\* Who decides an application brings a decision.
ApplicationInv ==
  /\ tournament \in TournamentStatuses /\ application \in {"NONE", "OPEN"} \cup Decisions
  /\ \A r \in Requests : requests[r].op = "decide" => requests[r].decision \in Decisions

LEMMA ApplicationUntouched ==
  ASSUME RequestsInv, ApplicationInv, UNCHANGED registrationVars,
         NEW ops, Touches(ops), "decide" \notin ops
  PROVE  ApplicationInv'
<1>1. \A r \in Requests : requests'[r].op = "decide" => requests'[r] = requests[r]
  BY DEF RequestsInv, Touches
<1> QED BY <1>1 DEF ApplicationInv, registrationVars

LEMMA ApplicationKeeps ==
  ASSUME RequestsInv, ApplicationInv, RegistrationSteps
  PROVE  ApplicationInv'
<1>1. requests = [q \in Requests |-> requests[q]]
  BY DEF RequestsInv
<1>2. ASSUME NEW user \in Users, CreateCorrectionRequest(user)
                                 \/ \E status \in TournamentStatuses : UpdateTournament(user, status)
      PROVE  ApplicationInv'
  BY <1>2 DEF CreateCorrectionRequest, UpdateTournament, AtOnce, ApplicationInv
<1>3. ASSUME NEW user \in Users, NEW r \in Requests,
             \/ ApplyRead(r, user)
             \/ \E decision \in Decisions : DecideRead(r, user, decision)
             \/ \E decision \in Decisions : \E i \in DOMAIN corrections : ResolveRead(r, user, i, decision)
      PROVE  ApplicationInv'
  <2>1. UNCHANGED registrationVars
    BY <1>3 DEF ApplyRead, DecideRead, ResolveRead
  <2>2. PICK x : /\ requests' = [requests EXCEPT ![r] = x]
                 /\ x.op = "decide" => x.decision \in Decisions
    <3>1. CASE ApplyRead(r, user)
      <4>1. PICK x : x = [op |-> "apply"]
        OBVIOUS
      <4>2. requests' = [requests EXCEPT ![r] = x] /\ x.op # "decide"
        BY <3>1, <4>1 DEF ApplyRead, Begin
      <4> QED BY <4>2
    <3>2. ASSUME NEW decision \in Decisions, DecideRead(r, user, decision)
          PROVE  \E x : /\ requests' = [requests EXCEPT ![r] = x]
                        /\ x.op = "decide" => x.decision \in Decisions
      <4>1. PICK x : x = [op |-> "decide", decision |-> decision]
        OBVIOUS
      <4>2. requests' = [requests EXCEPT ![r] = x] /\ x.decision \in Decisions
        BY <3>2, <4>1 DEF DecideRead, Begin
      <4> QED BY <4>2
    <3>3. ASSUME NEW decision \in Decisions, NEW i \in DOMAIN corrections, ResolveRead(r, user, i, decision)
          PROVE  \E x : /\ requests' = [requests EXCEPT ![r] = x]
                        /\ x.op = "decide" => x.decision \in Decisions
      <4>1. PICK x : x = [op |-> "resolve", correction |-> i, decision |-> decision]
        OBVIOUS
      <4>2. requests' = [requests EXCEPT ![r] = x] /\ x.op # "decide"
        BY <3>3, <4>1 DEF ResolveRead, Begin
      <4> QED BY <4>2
    <3> QED BY <1>3, <3>1, <3>2, <3>3
  <2>3. \A q \in Requests : requests'[q].op = "decide" => requests'[q].decision \in Decisions
    BY <1>1, <2>2 DEF ApplicationInv
  <2> QED BY <2>1, <2>3 DEF ApplicationInv, registrationVars
<1>4. ASSUME NEW r \in Requests, SubmitTeamApplication(r) \/ DecideTeamApplication(r)
                                 \/ ResolveCorrectionRequest(r)
      PROVE  ApplicationInv'
  <2>1. /\ requests' = [requests EXCEPT ![r] = Idle] /\ UNCHANGED tournament
    BY <1>4 DEF SubmitTeamApplication, DecideTeamApplication, ResolveCorrectionRequest, End, Continue
  <2>2. application' \in {"NONE", "OPEN"} \cup Decisions
    BY <1>4 DEF SubmitTeamApplication, DecideTeamApplication, ResolveCorrectionRequest, ApplicationInv
  <2>3. \A q \in Requests : requests'[q].op = "decide" => requests'[q] = requests[q]
    BY <1>1, <2>1, Idles
  <2> QED BY <2>1, <2>2, <2>3 DEF ApplicationInv
<1> QED BY <1>2, <1>3, <1>4 DEF RegistrationSteps

LEMMA ApplicationInvariant == Spec => []ApplicationInv
<1>1. Init => ApplicationInv
  BY Idles DEF Init, AccessInit, RegistrationInit, ApplicationInv, TournamentStatuses, Decisions
<1>2. RequestsInv /\ ApplicationInv /\ [Next]_vars => ApplicationInv'
  <2> SUFFICES ASSUME RequestsInv, ApplicationInv, [Next]_vars PROVE ApplicationInv'
    OBVIOUS
  <2>1. "decide" \notin RoleOps \cup RosterOps \cup MediaOps \cup {"idle"}
    BY DEF RoleOps, RosterOps, MediaOps, Chain
  <2>2. CASE Keeps(UNCHANGED <<registered, registrationVars, rosterVars, mediaVars>>, RoleOps)
    BY <2>1, <2>2, ApplicationUntouched DEF Keeps
  <2>3. CASE RegistrationSteps
    BY <2>3, ApplicationKeeps
  <2>4. CASE Keeps(UNCHANGED <<beforeRosters, mediaVars>>, RosterOps)
    BY <2>1, <2>4, ApplicationUntouched DEF Keeps, beforeRosters
  <2>5. CASE Keeps(UNCHANGED beforeMedia, MediaOps)
    BY <2>1, <2>5, ApplicationUntouched DEF Keeps, beforeMedia, beforeRosters
  <2>6. CASE Keeps(Elsewhere, {"idle"})
    BY <2>1, <2>6, ApplicationUntouched DEF Keeps, Elsewhere
  <2> QED BY <2>2, <2>3, <2>4, <2>5, <2>6, Footprint
<1> QED BY <1>1, <1>2, RequestsInvariant, PTL DEF Spec

\* Two players of a roster have different numbers.
LineupInv ==
  /\ players \subseteq Players
  /\ \A p, q \in Players : roster.lineup[p] = roster.lineup[q] => p = q \/ roster.lineup[p] = 0

LEMMA LineupInvariant == Spec => []LineupInv
<1>1. Init => LineupInv
  <2> SUFFICES ASSUME Init PROVE LineupInv
    OBVIOUS
  <2>1. PICK player \in Players, jersey \in Jerseys :
          /\ players = {player}
          /\ roster.lineup \in {Nobody, [Nobody EXCEPT ![player] = jersey]}
    BY DEF Init, RostersInit
  <2>2. ASSUME NEW p \in Players, NEW q \in Players, roster.lineup[p] = roster.lineup[q]
        PROVE  p = q \/ roster.lineup[p] = 0
    BY <2>1, <2>2, RostersAssumption DEF Nobody
  <2> QED BY <2>1, <2>2 DEF LineupInv
<1>2. RequestsInv /\ RosterInv /\ LineupInv /\ [Next]_vars => LineupInv'
  <2> SUFFICES ASSUME RequestsInv, RosterInv, LineupInv, [Next]_vars PROVE LineupInv'
    OBVIOUS
  <2>1. RosterSteps \/ UNCHANGED rosterVars
    BY Footprint DEF Keeps, beforeMedia, Elsewhere
  <2>2. /\ roster.lineup \in Lineup /\ players \subseteq Players
        /\ roster \in [status : {"NONE"} \cup RosterStatuses, version : Nat, lineup : Lineup]
    BY DEF RosterInv, LineupInv
  <2>3. ASSUME players' \subseteq Players, roster'.lineup = roster.lineup PROVE LineupInv'
    BY <2>3 DEF LineupInv
  <2>4. CASE UNCHANGED rosterVars
    BY <2>2, <2>3, <2>4 DEF rosterVars
  <2>5. ASSUME NEW user \in Users, NEW player \in Players, CreateOrArchivePlayer(user, player)
        PROVE  LineupInv'
    BY <2>2, <2>3, <2>5 DEF CreateOrArchivePlayer
  <2>6. ASSUME NEW user \in Users, CreateRoster(user) \/ SubmitRoster(user)
        PROVE  LineupInv'
    <3>1. roster'.lineup = roster.lineup /\ UNCHANGED players
      BY <2>2, <2>6 DEF CreateRoster, SubmitRoster
    <3> QED BY <2>2, <2>3, <3>1
  <2>7. ASSUME NEW user \in Users, NEW r \in Requests,
               \/ \E player \in Players, jersey \in Jerseys : EditRead(r, user, player, jersey)
               \/ \E decision \in ReviewDecisions : OpenReview(r, user, decision)
        PROVE  LineupInv'
    BY <2>2, <2>3, <2>7 DEF EditRead, OpenReview, rosterVars
  <2>8. ASSUME NEW r \in Requests, DecideRoster(r)
        PROVE  LineupInv'
    <3>1. roster'.lineup = roster.lineup /\ UNCHANGED players
      BY <2>2, <2>8 DEF DecideRoster
    <3> QED BY <2>2, <2>3, <3>1
  <2>9. ASSUME NEW r \in Requests, UpsertRosterPlayer(r)
        PROVE  LineupInv'
    <3>1. PICK player, jersey : player = requests[r].player /\ jersey = requests[r].jersey
      OBVIOUS
    <3>2. /\ \A p \in Players \ {player} : roster.lineup[p] # jersey
          /\ roster' = [roster EXCEPT !.lineup[player] = jersey] /\ UNCHANGED players
      BY <2>9, <3>1 DEF UpsertRosterPlayer
    <3>3. PICK new : new = [roster.lineup EXCEPT ![player] = jersey]
      OBVIOUS
    <3>4. roster'.lineup = new
      BY <2>2, <3>2, <3>3
    <3>5. \A p \in Players : new[p] = IF p = player THEN jersey ELSE roster.lineup[p]
      BY <2>2, <3>3 DEF Lineup
    <3>6. ASSUME NEW p \in Players, NEW q \in Players, new[p] = new[q]
          PROVE  p = q \/ new[p] = 0
      BY <3>2, <3>5, <3>6 DEF LineupInv
    <3> QED BY <2>2, <3>2, <3>4, <3>6 DEF LineupInv
  <2> QED BY <2>1, <2>4, <2>5, <2>6, <2>7, <2>8, <2>9 DEF RosterSteps
<1> QED BY <1>1, <1>2, RequestsInvariant, RosterInvariant, PTL DEF Spec

\* However requests of all areas overlap, are refused and cut short: roles belong to
\* members of the organization and were given by an administrator or an invitation that
\* exists, the players of a roster have different numbers (a unique index that the upsert
\* of management.service.ts:268 can fail on), and the rows have their states.
THEOREM OrganizationTyped == Spec => []TypeOK
<1>1. RegistrationInv /\ InvitationsInv /\ RosterInv /\ MediaInv /\ RolesInv /\ ApplicationInv
      /\ LineupInv => TypeOK
  <2> SUFFICES ASSUME InvitationsInv, RosterInv, MediaInv, RolesInv, ApplicationInv, LineupInv
               PROVE  TypeOK
    OBVIOUS
  <2>1. /\ invitations \in Seq(Invitation) /\ Len(invitations) \in Nat
        /\ DOMAIN invitations = 1..Len(invitations)
    BY LenProperties DEF InvitationsInv
  <2>2. \A g \in grants : g.user \in members /\ g.role \in Roles /\ g.invitation \in 0..Len(invitations)
    BY <2>1 DEF RolesInv, GrantRow
  <2>3. \A i \in DOMAIN invitations : invitations[i].state \in {"queued", "sent", "accepted", "expired"}
    <3>1. \A i \in DOMAIN invitations : invitations[i] \in Invitation
      BY <2>1
    <3> QED BY <3>1 DEF Invitation
  <2>4. \A s \in DOMAIN submissions : submissions[s].decision \in {"SUBMITTED"} \cup ReviewDecisions
    <3>1. submissions \in Seq(SubmissionRow)
      BY DEF RosterInv
    <3>2. \A s \in DOMAIN submissions : submissions[s] \in SubmissionRow
      BY <3>1, LenProperties
    <3> QED BY <3>2 DEF SubmissionRow
  <2>5. /\ assets \in Seq(AssetStatus) /\ Len(assets) \in Nat /\ DOMAIN assets = 1..Len(assets)
        /\ \A a \in DOMAIN assets : assets[a] \in AssetStatus
    BY LenProperties DEF MediaInv
  <2>6. team.logo \in 0..Len(assets)
    BY <2>5 DEF MediaInv
  <2>7. coaches \subseteq members /\ members \subseteq Users
    BY DEF RolesInv
  <2>8. tournament \in TournamentStatuses /\ application \in {"NONE", "OPEN"} \cup Decisions
    BY DEF ApplicationInv
  <2>9. /\ players \subseteq Players /\ roster.status \in {"NONE"} \cup RosterStatuses
        /\ \A p, q \in Players : roster.lineup[p] = roster.lineup[q] => p = q \/ roster.lineup[p] = 0
    BY DEF LineupInv, RosterInv
  <2> QED BY <2>2, <2>3, <2>4, <2>5, <2>6, <2>7, <2>8, <2>9 DEF TypeOK, AssetStatus
<1> QED BY <1>1, RegistrationInvariant, InvitationsInvariant, RosterInvariant, MediaInvariant,
           RolesInvariant, ApplicationInvariant, LineupInvariant, PTL
=============================================================================
