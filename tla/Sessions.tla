------------------------------- MODULE Sessions -------------------------------
(***************************************************************************)
(* One account and its sessions (apps/api/src/auth/auth.service.ts), with  *)
(* the guards in front of it and the clients that keep its tokens: the     *)
(* mobile app (api_client.dart) and the portal in a browser                *)
(* (api-client.ts).                                                        *)
(*                                                                         *)
(* Handlers read first and write in a transaction later, at READ COMMITTED *)
(* throughout: an UPDATE of many sessions changes those that its snapshot  *)
(* shows, waits for the rows that others have locked, and does not see the *)
(* rows that they insert.  Hashes, mails and signatures are left out: a    *)
(* token is the number of its row.                                         *)
(***************************************************************************)
EXTENDS Naturals, Sequences, FiniteSets

CONSTANTS
  Apps,          \* mobile apps signed in to the account
  Browsers,      \* browsers, each with one cookie for any number of tabs
  Requests,      \* handlers at work for the account
  LockAfter,     \* failed logins that lock the account
  MaxActs        \* bound: requests, losses and expiries together

None == 0
Clients == Apps \cup Browsers

ASSUME SessionsAssumption ==
  LockAfter \in Nat /\ MaxActs \in Nat /\ Apps \cap Browsers = {} /\ None \notin Clients

VARIABLES
  account,     \* the User row
  tokens,      \* EmailVerificationToken and PasswordResetToken rows
  sessions,    \* Session rows, in the order of their creation
  clients,     \* the refresh token and the access token each client holds
  requests,    \* what each handler has read so far
  queued,      \* the data requests whose outbox event is not handled
  acts,        \* for the bound
  signOuts,    \* history: how often everybody was signed out
  stopped,     \* history: apps that were stopped with a refresh under way
  bereft       \* history: clients whose own reuse of a token has ended a session

accountVars == <<account, tokens, sessions, queued, signOuts>>
sessionVars == <<accountVars, clients, requests, acts, stopped, bereft>>

Idle == [step |-> "idle"]

\* An address without an account, or an account that is in use.
SessionsInit ==
  /\ \E status \in {"NONE", "ACTIVE"} :
       account = [status |-> status, password |-> 1, failures |-> 0, locked |-> FALSE,
                  deleted |-> FALSE]
  /\ tokens = <<>> /\ sessions = <<>> /\ queued = {}
  /\ clients = [c \in Clients |-> [refresh |-> None, access |-> None]]
  /\ requests = [r \in Requests |-> Idle]
  /\ acts = 0 /\ signOuts = 0 /\ stopped = {} /\ bereft = {}

Act == acts < MaxActs /\ acts' = acts + 1
Active == {s \in DOMAIN sessions : ~sessions[s].revoked}

\* Sessions whose row a rotation has locked.
Locked == {requests[r].session : r \in {q \in Requests : requests[q].step = "rotating"}}

\* Variant: the guard looks at the session alone.
SessionAlone(s) == s \in Active /\ ~sessions[s].lapsed

\* JwtAuthGuard.
CanAct(s) ==
  /\ s \in Active /\ ~sessions[s].lapsed
  /\ account.status = "ACTIVE" /\ ~account.deleted

Begin(r, request) ==
  /\ Act
  /\ requests[r] = Idle
  /\ requests' = [requests EXCEPT ![r] = request]

Continue(r, request) ==
  /\ requests' = [requests EXCEPT ![r] = request]
  /\ UNCHANGED acts

\* A handler is answered with an error, or its transaction or process is cut short.
Fail(r) ==
  /\ Act
  /\ \/ requests[r].step \in {"verify", "verified", "authorized", "reset"}
     \/ requests[r].step = "revoking" /\ requests[r].effect # "reuse"
  /\ requests' = [requests EXCEPT ![r] = Idle]
  /\ UNCHANGED <<accountVars, clients, stopped, bereft>>

\* Time passes for a session or a token.
Lapse ==
  /\ Act
  /\ \/ \E s \in Active : sessions' = [sessions EXCEPT ![s].lapsed = TRUE] /\ UNCHANGED tokens
     \/ \E t \in DOMAIN tokens : /\ tokens[t].state = "sent"
                                 /\ tokens' = [tokens EXCEPT ![t].state = "lapsed"]
                                 /\ UNCHANGED sessions
  /\ UNCHANGED <<account, queued, signOuts, clients, requests, stopped, bereft>>
-----------------------------------------------------------------------------
\* Registration, verification, and mail.

\* The token goes into the outbox, and by mail to the user.
Issue(kind) == tokens' = Append(tokens, [kind |-> kind, state |-> "queued"])

\* The unique index admits one registration of an address.
Register ==
  /\ Act
  /\ account.status = "NONE"
  /\ account' = [account EXCEPT !.status = "PENDING_VERIFICATION"]
  /\ Issue("verification")
  /\ UNCHANGED <<sessions, queued, signOuts, clients, requests, stopped, bereft>>

SendAuthEmail(t) ==
  /\ tokens[t].state = "queued"
  /\ tokens' = [tokens EXCEPT ![t].state = "sent"]
  /\ UNCHANGED <<account, sessions, queued, signOuts, clients, requests, acts, stopped, bereft>>

\* Variant: a token that was used is found like any other.
UsableAgain(t, kind) == tokens[t].kind = kind /\ tokens[t].state \in {"sent", "used"}

Usable(t, kind) == tokens[t].kind = kind /\ tokens[t].state = "sent"

\* verifyEmail reads the token ...
VerifyRead(r, t) ==
  /\ Usable(t, "verification")
  /\ Begin(r, [step |-> "verify", token |-> t, found |-> account.status])
  /\ UNCHANGED <<accountVars, clients, stopped, bereft>>

\* ... and activates the account by its id, whatever its status has become.
VerifyCommit(r) ==
  /\ requests[r].step = "verify"
  /\ Continue(r, Idle)
  /\ tokens' = [tokens EXCEPT ![requests[r].token].state = "used"]
  /\ account' = [account EXCEPT !.status = "ACTIVE"]
  /\ UNCHANGED <<sessions, queued, signOuts, clients, stopped, bereft>>

RequestPasswordReset ==
  /\ Act
  /\ account.status = "ACTIVE"
  /\ Issue("reset")
  /\ UNCHANGED <<account, sessions, queued, signOuts, clients, requests, stopped, bereft>>
-----------------------------------------------------------------------------
\* Login and rotation.

NewSession(family, since) ==
  sessions' = Append(sessions, [family |-> family, revoked |-> FALSE, lapsed |-> FALSE,
                                since |-> since, born |-> signOuts, late |-> 0])

\* login finds the account and verifies the password it has read.
LoginRead(r, c, correct) ==
  /\ account.status # "NONE" /\ ~account.deleted
  /\ IF correct
     THEN /\ account.status = "ACTIVE" /\ ~account.locked
          /\ Begin(r, [step |-> "verified", client |-> c, since |-> signOuts])
     ELSE Begin(r, [step |-> "mistaken", client |-> c, failures |-> account.failures])
  /\ UNCHANGED <<accountVars, clients, stopped, bereft>>

\* recordFailedLogin counts from what was read.
RecordFailedLogin(r) ==
  /\ requests[r].step = "mistaken"
  /\ Continue(r, Idle)
  /\ LET failures == requests[r].failures + 1
     IN  account' = [account EXCEPT !.failures = failures,
                                    !.locked = @ \/ failures >= LockAfter]
  /\ UNCHANGED <<tokens, sessions, queued, signOuts, clients, stopped, bereft>>

\* The answer with the tokens of session s is on its way, unless nobody waits for it.
Answer(r, s, login) ==
  Continue(r, IF requests[r].client = None THEN Idle
              ELSE [step |-> "answer", client |-> requests[r].client, session |-> s,
                    login |-> login])

\* The counters are reset and the session is created: two statements that nobody
\* else's statement can tell apart.
CreateSession(r) ==
  /\ requests[r].step = "verified"
  /\ NewSession(Len(sessions) + 1, requests[r].since)
  /\ account' = [account EXCEPT !.failures = 0, !.locked = FALSE]
  /\ Answer(r, Len(sessions) + 1, TRUE)
  /\ UNCHANGED <<tokens, queued, signOuts, clients, stopped, bereft>>

\* Variant: every 401 starts a refresh of its own.
ManyFlights(c) == TRUE

\* Refreshes that a client waits for.
Refreshing(r) ==
  \/ requests[r].step \in {"refresh", "rotating"}
  \/ requests[r].step = "revoking" /\ requests[r].effect = "reuse"
  \/ requests[r].step = "answer" /\ ~requests[r].login

\* _refreshOnce: an app waits for the refresh that is under way.  The tabs of a browser
\* know nothing of each other.
SingleFlight(c) ==
  c \in Apps => \A r \in Requests : Refreshing(r) => requests[r].client # c

\* refresh reads the session of the token it is sent.
RefreshRead(r, c) ==
  LET s == clients[c].refresh
  IN
  /\ SingleFlight(c)
  /\ s \in DOMAIN sessions
  /\ ~sessions[s].lapsed /\ account.status = "ACTIVE" /\ ~account.deleted
  /\ Begin(r, IF sessions[s].revoked
              THEN [step |-> "revoking", effect |-> "reuse", client |-> c,
                    scope |-> {a \in Active : sessions[a].family = sessions[s].family}]
              ELSE [step |-> "refresh", client |-> c, session |-> s, since |-> signOuts])
  /\ UNCHANGED <<accountVars, clients, stopped, bereft>>

\* Variant: the count of the update is not compared.
StillThere(s) == s \in DOMAIN sessions

\* The update of the presented session must find it unrevoked.
StillActive(s) == s \in Active

\* The transaction revokes the session that was presented, which locks its row, ...
Rotate(r) ==
  /\ requests[r].step = "refresh"
  /\ StillActive(requests[r].session) /\ requests[r].session \notin Locked
  /\ Continue(r, [requests[r] EXCEPT !.step = "rotating"])
  /\ UNCHANGED <<accountVars, clients, stopped, bereft>>

\* ... and inserts its successor.
RotateCommit(r) ==
  LET s == requests[r].session
      successor == [sessions[s] EXCEPT !.since = requests[r].since, !.born = signOuts,
                                       !.late = 0, !.lapsed = FALSE, !.revoked = FALSE]
  IN
  /\ requests[r].step = "rotating"
  /\ sessions' = Append([sessions EXCEPT ![s].revoked = TRUE], successor)
  /\ Answer(r, Len(sessions) + 1, FALSE)
  /\ UNCHANGED <<account, tokens, queued, signOuts, clients, stopped, bereft>>
-----------------------------------------------------------------------------
\* The clients.

\* What a client holds after a refresh that failed: the app forgets its tokens after
\* any error, the browser keeps its cookie.
Refused(c) ==
  [d \in Clients |->
     IF d # c THEN clients[d]
     ELSE [refresh |-> IF d \in Apps THEN None ELSE clients[d].refresh, access |-> None]]

\* The presented session was revoked meanwhile, or the handler stops.
RefreshFails(r) ==
  /\ requests[r].step # "answer" /\ Refreshing(r)
  /\ IF requests[r].step = "refresh" /\ ~StillActive(requests[r].session) THEN UNCHANGED acts ELSE Act
  /\ requests' = [requests EXCEPT ![r] = Idle]
  /\ clients' = Refused(requests[r].client)
  /\ UNCHANGED <<accountVars, stopped, bereft>>

AnswerArrives(r) ==
  /\ requests[r].step = "answer"
  /\ clients' = [clients EXCEPT ![requests[r].client] =
                   [refresh |-> requests[r].session, access |-> requests[r].session]]
  /\ Continue(r, Idle)
  /\ UNCHANGED <<accountVars, stopped, bereft>>

AnswerLost(r) ==
  /\ Act
  /\ requests[r].step = "answer"
  /\ clients' = IF requests[r].login THEN clients ELSE Refused(requests[r].client)
  /\ requests' = [requests EXCEPT ![r] = Idle]
  /\ UNCHANGED <<accountVars, stopped, bereft>>

\* The app or the tab is closed: an answer under way reaches nobody, and the stored
\* token stays.
ClientStops(c) ==
  /\ Act
  /\ clients' = [clients EXCEPT ![c].access = None]
  /\ LET awaited(r) == /\ Refreshing(r) \/ requests[r].step \in {"verified", "answer"}
                       /\ requests[r].client = c
     IN
     /\ requests' = [r \in Requests |->
          IF ~awaited(r) THEN requests[r]
          ELSE IF requests[r].step = "answer" THEN Idle
          ELSE [requests[r] EXCEPT !.client = None]]
     /\ stopped' = IF \E r \in Requests : Refreshing(r) /\ awaited(r)
                   THEN stopped \cup {c} ELSE stopped
  /\ UNCHANGED <<accountVars, bereft>>

\* logout revokes the session of the access token, and the client forgets its tokens.
\* A row that a rotation has locked is waited for, and found revoked.  An app that is
\* answered 401 refreshes and tries again; a browser's cookie stays.
Logout(c) ==
  LET s == clients[c].access
  IN
  /\ Act
  /\ s # None
  /\ c \in Apps => CanAct(s)
  /\ sessions' = IF CanAct(s) /\ s \notin Locked THEN [sessions EXCEPT ![s].revoked = TRUE]
                                                 ELSE sessions
  /\ clients' = [clients EXCEPT ![c] = [refresh |-> IF CanAct(s) THEN None ELSE @.refresh,
                                        access  |-> None]]
  /\ UNCHANGED <<account, tokens, queued, signOuts, requests, stopped, bereft>>
-----------------------------------------------------------------------------
\* Operations of a signed-in user, behind JwtAuthGuard.

\* The field early is history: whether the account was still there.
Authorize(r, c, effect) ==
  /\ clients[c].access # None /\ CanAct(clients[c].access)
  /\ Begin(r, [step |-> "authorized", effect |-> effect, early |-> ~account.deleted])
  /\ UNCHANGED <<accountVars, clients, stopped, bereft>>

\* requestDataAction, one transaction.
RequestDataAction(r) ==
  LET type == requests[r].effect
  IN
  /\ requests[r].step = "authorized" /\ type \in {"EXPORT", "DELETION"}
  /\ queued' = queued \cup {type}
  /\ account' = IF type = "DELETION" THEN [account EXCEPT !.status = "DELETION_REQUESTED"]
                                     ELSE account
  /\ Continue(r, Idle)
  /\ UNCHANGED <<tokens, sessions, signOuts, clients, stopped, bereft>>

\* completePasswordReset finds the token unused.
ResetRead(r, t) ==
  /\ Usable(t, "reset")
  /\ Begin(r, [step |-> "reset", effect |-> "reset", token |-> t])
  /\ UNCHANGED <<accountVars, clients, stopped, bereft>>

\* Variant: the sessions of one family are left alone.
OthersOnly == {s \in Active : sessions[s].family # 1}

EverySession == Active

\* The statement that signs everybody out takes its snapshot: after a reset, a change of
\* the password, logout-all, or a deletion by the job handler.
SignOutAll(r) ==
  /\ \/ requests[r].step = "reset"
     \/ requests[r].step = "authorized" /\ requests[r].effect \in {"change", "logoutAll"}
  /\ Continue(r, [step |-> "revoking", effect |-> requests[r].effect, client |-> None,
                  token |-> IF requests[r].step = "reset" THEN requests[r].token ELSE None,
                  scope |-> EverySession, known |-> Len(sessions)])
  /\ UNCHANGED <<accountVars, clients, stopped, bereft>>

DeletionStarts(r) ==
  /\ "DELETION" \in queued
  /\ requests[r] = Idle
  /\ Continue(r, [step |-> "revoking", effect |-> "DELETION", client |-> None, token |-> None,
                  scope |-> EverySession, known |-> Len(sessions)])
  /\ UNCHANGED <<accountVars, clients, stopped, bereft>>

\* The statement has got its locks, and its transaction commits.  A session that was
\* inserted since the snapshot is late for it.
Revoked(request) ==
  [s \in DOMAIN sessions |->
     [sessions[s] EXCEPT !.revoked = @ \/ s \in request.scope,
                         !.late = IF s > request.known THEN signOuts + 1 ELSE @]]

RevokeCommit(r) ==
  LET request == requests[r]
  IN
  /\ request.step = "revoking" /\ request.effect \in {"reset", "change", "logoutAll"}
  /\ request.scope \cap Locked = {}
  /\ signOuts' = signOuts + 1
  /\ sessions' = Revoked(request)
  /\ account' = CASE request.effect = "reset"  -> [account EXCEPT !.password = @ + 1,
                                                     !.failures = 0, !.locked = FALSE]
                  [] request.effect = "change" -> [account EXCEPT !.password = @ + 1]
                  [] OTHER                     -> account
  /\ tokens' = IF request.effect = "reset"
               THEN [tokens EXCEPT ![request.token].state = "used"] ELSE tokens
  /\ Continue(r, Idle)
  /\ UNCHANGED <<queued, clients, stopped, bereft>>

\* A token that was rotated or revoked has come back: its family ends.
ReuseCommit(r) ==
  LET request == requests[r]
  IN
  /\ request.step = "revoking" /\ request.effect = "reuse"
  /\ request.scope \cap Locked = {}
  /\ sessions' = [s \in DOMAIN sessions |->
       [sessions[s] EXCEPT !.revoked = @ \/ s \in request.scope]]
  /\ bereft' = IF request.scope \cap Active # {} THEN bereft \cup ({request.client} \ {None})
                                               ELSE bereft
  /\ clients' = Refused(request.client)
  /\ Continue(r, Idle)
  /\ UNCHANGED <<account, tokens, queued, signOuts, stopped>>
=============================================================================
