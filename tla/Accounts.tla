------------------------------- MODULE Accounts -------------------------------
(***************************************************************************)
(* What a fan's account leaves behind, over the sessions of Sessions:      *)
(* devices, favourites and preferences (fans.service.ts), notifications of *)
(* changes of a followed game, and the data requests that the job handler  *)
(* carries out (job-handler.service.ts, notification.service.ts).          *)
(***************************************************************************)
EXTENDS Sessions

CONSTANT MaxChanges   \* bound: changes of the game a fan may follow

ASSUME AccountsAssumption == MaxChanges \in Nat

VARIABLES
  personal,     \* rows of the user: device registration, favourite, muting preferences
  gameVersion,  \* the version of a game the fan may follow
  rescheduling, \* reschedule requests that have read the game's version
  messages,     \* outbox events about the game that are not handled
  deliveries,   \* NotificationDelivery rows, with the type and the game's version in their key
  changes,      \* history: how often the game has changed
  rewound,      \* history: a reschedule has used a version of the game again
  told,         \* history: messages handled while the fan followed the game
  overtaken     \* history: something was saved by a request older than the deletion

gameVars == <<gameVersion, rescheduling, changes, rewound>>
fanVars == <<personal, gameVars, messages, deliveries, told, overtaken>>
vars == <<sessionVars, fanVars>>

MessageTypes == {"game.score-updated", "game.schedule-changed"}

\* A preference is saved for the organization in the header x-organization-id, or for
\* all of them.
Saved == {"device", "favorite", "mutedHere", "mutedGlobal"}

\* An account that is in use follows the game from a device.
Init ==
  /\ SessionsInit
  /\ personal = IF account.status = "ACTIVE" THEN {"device", "favorite"} ELSE {}
  /\ gameVersion = 0 /\ changes = 0 /\ rescheduling = {} /\ rewound = FALSE
  /\ messages = {} /\ deliveries = {} /\ told = {}
  /\ overtaken = FALSE
-----------------------------------------------------------------------------
\* setFavoriteTeam and setFavoriteTournament, setPreference, registerDevice: one upsert
\* each, or a delete, for a request that the guard has let pass.
SavePersonal(r) ==
  /\ requests[r].step = "authorized" /\ requests[r].effect \in Saved \cup {"unfollow"}
  /\ personal' = IF requests[r].effect = "unfollow" THEN personal \ {"favorite"}
                 ELSE personal \cup {requests[r].effect}
  /\ overtaken' = (overtaken \/ (account.deleted /\ requests[r].early))
  /\ Continue(r, Idle)
  /\ UNCHANGED <<accountVars, clients, stopped, bereft, gameVars, messages, deliveries, told>>

\* completeDataExport reads the user, stores the file and completes the request.
CompleteExport ==
  /\ "EXPORT" \in queued
  /\ queued' = queued \ {"EXPORT"}
  /\ UNCHANGED <<account, tokens, sessions, signOuts, clients, requests, acts, stopped, bereft,
                 fanVars>>

\* completeDeletion, after its statement on the sessions: one transaction.
CompleteDeletion(r) ==
  /\ requests[r].step = "revoking" /\ requests[r].effect = "DELETION"
  /\ requests[r].scope \cap Locked = {}
  /\ signOuts' = signOuts + 1
  /\ sessions' = Revoked(requests[r])
  /\ personal' = {}
  /\ account' = [account EXCEPT !.status = "DEACTIVATED", !.deleted = TRUE]
  /\ queued' = queued \ {"DELETION"}
  /\ Continue(r, Idle)
  /\ UNCHANGED <<tokens, clients, stopped, bereft, gameVars, messages, deliveries, told, overtaken>>
-----------------------------------------------------------------------------
\* The row of the followed game and an outbox event commit together.
Change(type, version) ==
  /\ gameVersion' = version
  /\ changes' = changes + 1
  /\ messages' = messages \cup {[type |-> type, change |-> changes + 1]}
  /\ UNCHANGED <<accountVars, clients, requests, stopped, bereft, personal, deliveries, told,
                 overtaken>>

\* A command, whose serializable transaction finds the version it has read.  The status
\* of the game is left out.
ChangeGame ==
  /\ Act /\ Cardinality(rescheduling) + changes < MaxChanges
  /\ Change("game.score-updated", gameVersion + 1)
  /\ UNCHANGED <<rescheduling, rewound>>

\* reschedule reads the version, and compares it with the expected one ...
RescheduleRead ==
  /\ Act /\ Cardinality(rescheduling) + changes < MaxChanges
  /\ rescheduling' = rescheduling \cup {[key |-> acts', read |-> gameVersion]}
  /\ UNCHANGED <<accountVars, clients, requests, stopped, bereft, personal, gameVersion, changes,
                 rewound, messages, deliveries, told, overtaken>>

\* ... and updates the row by its id, whatever the version has become.
RescheduleCommit(q) ==
  /\ Change("game.schedule-changed", q.read + 1)
  /\ rescheduling' = rescheduling \ {q}
  /\ rewound' = (rewound \/ q.read # gameVersion)
  /\ UNCHANGED acts

\* enqueueDomainNotifications reads the game and its followers as they are now ...
NotifyRead(r, message) ==
  /\ requests[r] = Idle
  /\ \A q \in Requests : requests[q].step = "notify" => requests[q].message # message
  /\ Continue(r, [step |-> "notify", message |-> message, version |-> gameVersion,
                  change |-> changes, follows |-> "favorite" \in personal])
  /\ UNCHANGED <<accountVars, clients, stopped, bereft, fanVars>>

\* The row of a delivery; the change that it is about is history.
Notice(request, version) ==
  [type |-> request.message.type, version |-> version, change |-> request.change]

\* Variant: the key has no version, so that the row of an earlier change answers for it.
DeliveryOncePerType(request) ==
  IF \E d \in deliveries : d.type = request.message.type THEN deliveries
  ELSE deliveries \cup {Notice(request, request.version)}

\* Variant: the key has the version that the next change will have.
DeliveryAhead(request) == deliveries \cup {Notice(request, request.version + 1)}

\* The upsert keeps a row that has the key already.
Delivery(request) ==
  IF \E d \in deliveries : d.type = request.message.type /\ d.version = request.version
  THEN deliveries
  ELSE deliveries \cup {Notice(request, request.version)}

\* ... and enqueueForUser writes for each device, unless the type is muted for the
\* game's organization.  The job may be delivered once more.
NotifyCommit(r, again) ==
  LET request  == requests[r]
      notifies == request.follows /\ "device" \in personal /\ "mutedHere" \notin personal
  IN
  /\ request.step = "notify"
  /\ requests' = [requests EXCEPT ![r] = Idle]
  /\ deliveries' = IF notifies THEN Delivery(request) ELSE deliveries
  /\ told' = IF notifies THEN told \cup {request.message} ELSE told
  /\ IF again THEN Act /\ UNCHANGED messages
              ELSE messages' = messages \ {request.message} /\ UNCHANGED acts
  /\ UNCHANGED <<accountVars, clients, stopped, bereft, personal, gameVars, overtaken>>
-----------------------------------------------------------------------------
\* What runs to its end by itself: handlers that have begun, mails, and jobs.
Handling(r) ==
  \/ VerifyCommit(r) \/ RecordFailedLogin(r) \/ CreateSession(r)
  \/ Rotate(r) \/ RotateCommit(r) \/ AnswerArrives(r) \/ RefreshFails(r)
  \/ RequestDataAction(r) \/ SignOutAll(r) \/ RevokeCommit(r) \/ ReuseCommit(r)

Progress ==
  \/ \E r \in Requests :
       \/ Handling(r) /\ UNCHANGED fanVars
       \/ DeletionStarts(r) /\ UNCHANGED fanVars
       \/ SavePersonal(r) \/ CompleteDeletion(r) \/ NotifyCommit(r, FALSE)
       \/ \E message \in messages : NotifyRead(r, message)
  \/ \E t \in DOMAIN tokens : SendAuthEmail(t) /\ UNCHANGED fanVars
  \/ CompleteExport
  \/ \E q \in rescheduling : RescheduleCommit(q)

\* What users do, and what goes wrong.
Arrivals(r) ==
  \/ \E t \in DOMAIN tokens : VerifyRead(r, t) \/ ResetRead(r, t)
  \/ \E c \in Clients :
       \/ \E correct \in BOOLEAN : LoginRead(r, c, correct)
       \/ RefreshRead(r, c)
       \/ \E effect \in {"change", "logoutAll", "EXPORT", "DELETION", "unfollow"} \cup Saved :
            Authorize(r, c, effect)
  \/ AnswerLost(r) \/ Fail(r)

Events ==
  \/ \E r \in Requests : Arrivals(r) /\ UNCHANGED fanVars
  \/ (Register \/ RequestPasswordReset \/ Lapse) /\ UNCHANGED fanVars
  \/ \E c \in Clients : (ClientStops(c) \/ Logout(c)) /\ UNCHANGED fanVars
  \/ ChangeGame \/ RescheduleRead
  \/ \E r \in Requests : NotifyCommit(r, TRUE)

Next == Progress \/ Events

Spec == Init /\ [][Next]_vars
-----------------------------------------------------------------------------
TypeOK ==
  /\ account \in [status : {"NONE", "PENDING_VERIFICATION", "ACTIVE", "DELETION_REQUESTED",
                            "DEACTIVATED"},
                  password : Nat, failures : 0..MaxActs, locked : BOOLEAN, deleted : BOOLEAN]
  /\ \A t \in DOMAIN tokens : tokens[t] \in [kind : {"verification", "reset"},
                                             state : {"queued", "sent", "used", "lapsed"}]
  /\ \A s \in DOMAIN sessions :
       /\ sessions[s].family \in 1..s /\ {sessions[s].revoked, sessions[s].lapsed} \subseteq BOOLEAN
       /\ sessions[s].since <= sessions[s].born
       /\ {sessions[s].born, sessions[s].late} \subseteq 0..signOuts
  /\ queued \subseteq {"EXPORT", "DELETION"}
  /\ \A c \in Clients : {clients[c].refresh, clients[c].access} \subseteq 0..Len(sessions)
  /\ personal \subseteq Saved
  /\ \A d \in deliveries :
       d.type \in MessageTypes /\ d.version \in 0..changes /\ d.change \in 1..changes

\* A sign-in goes on in one place only: however many refreshes, retries and tabs present
\* its tokens, a family never has two active sessions.
OneActivePerFamily ==
  \A s, u \in Active : sessions[s].family = sessions[u].family => s = u

\* After the password was reset or changed, after logout-all and after a deletion nobody
\* is signed in by credentials that were checked before, except where the statement was
\* overtaken: a session is left that was inserted while it ran, or its successor by a
\* rotation under way, or the session of a login that had verified the old password and
\* inserted it later.  A session that the statement could see never survives it.
SignOutReachesAll ==
  \A s \in Active :
    LET session == sessions[s]
    IN
    session.since < signOuts =>
      \/ session.late = signOuts
      \/ /\ session.born = signOuts
         /\ \/ session.family = s
            \/ \E u \in DOMAIN sessions :
                 sessions[u].family = session.family /\ sessions[u].late = signOuts

\* An app never signs itself out by presenting a token that it has used already, however
\* its requests overlap and its answers are lost, unless it is stopped before it has
\* stored the new one.
AppsKeepTheirSession == bereft \cap Apps \subseteq stopped

\* A deleted account keeps no device, favourite or preference, whatever else runs and
\* whichever sessions are still active, except what a request saves that passed the guard
\* before the deletion.
NothingPersonalRemains == account.deleted /\ ~overtaken => personal = {}

\* Who asks for deletion is out for good: nothing makes the account active again, except
\* a verification that had found it pending.
LeavingIsFinal ==
  [][account.status \in {"DELETION_REQUESTED", "DEACTIVATED"} /\ account'.status = "ACTIVE"
       => \E r \in Requests : requests[r].step = "verify" /\ requests[r].found = "PENDING_VERIFICATION"
     ]_vars

\* Of several changes that are handled late, repeatedly and in any order, none is
\* swallowed by the deduplication of an earlier one: a fan who was told of a change has a
\* notice of its type that is at least as new, unless a reschedule has used a version of
\* the game twice.
EveryChangeNotified ==
  ~rewound => \A message \in told :
    \E d \in deliveries : d.type = message.type /\ d.change >= message.change
=============================================================================
