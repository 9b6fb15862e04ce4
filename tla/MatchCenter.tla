----------------------------- MODULE MatchCenter -----------------------------
(***************************************************************************)
(* How fans see live games: the server announces committed changes to the  *)
(* room of a game (live-scoring.controller.ts, live-scoring.gateway.ts),   *)
(* and the mobile app (live_game_service.dart, providers.dart and          *)
(* GameDetailScreen) merges a REST snapshot, the answer to its join and    *)
(* the announcements into one screen.                                      *)
(*                                                                         *)
(* A game's row is its version, what is played (status, scores, period:    *)
(* the fields that the app merges), and its schedule; both are reduced to  *)
(* how often they have changed.  Snapshots and messages carry the row.     *)
(* One API process serves the room.                                        *)
(***************************************************************************)
EXTENDS Naturals, Sequences, FiniteSets

CONSTANTS
  Games,
  MaxVersion,      \* bound: changes of one game
  MaxActs          \* bound: what people do and connections lost, together

ASSUME MatchCenterAssumption ==
  MaxVersion \in Nat \ {0} /\ MaxActs \in Nat

NoGame == "none"
NoVersion == 0     \* versions are counted from 1

\* A game as it is stored, sent and shown.
Game == [version : Nat, play : Nat, schedule : Nat]
Nothing == [version |-> NoVersion, play |-> 0, schedule |-> 0]

VARIABLES
  row,             \* the Game rows
  rescheduling,    \* reschedule requests that have read the game's version
  unsent,          \* committed changes that their request has not broadcast yet
  screen,          \* GameDetailScreen: its game, the state of its future, the REST snapshot
  providers,       \* the instances of liveGameProvider, by key, with their last value
  current,         \* LiveGameService._current
  socket,          \* LiveGameService._socket, with what the gateway has read for its join
  inbox,           \* what the gateway has sent to the socket, in order
  acts,            \* for the bound
  seen,            \* history: the newest version of each game the screen has shown
  missed,          \* history: a change was not announced to the socket since its snapshot
  strayed,         \* history: a screen was shown whose game the socket does not follow
  rewound          \* history: games whose version a reschedule has used again

serverVars == <<row, rescheduling, unsent, rewound>>
appVars == <<screen, providers, current, socket, inbox, seen, strayed>>
centerVars == <<serverVars, appVars, missed, acts>>

CenterInit ==
  /\ row = [g \in Games |-> [version |-> 1, play |-> 0, schedule |-> 0]]
  /\ rescheduling = {} /\ unsent = {} /\ rewound = {}
  /\ screen = [game |-> NoGame, phase |-> "closed", base |-> Nothing]
  /\ providers = <<>>
  /\ current = [game |-> NoGame, state |-> Nothing]
  /\ socket = [game |-> NoGame, phase |-> "closed", read |-> Nothing]
  /\ inbox = <<>>
  /\ acts = 0
  /\ seen = [g \in Games |-> Nothing]
  /\ missed = FALSE /\ strayed = FALSE

\* Variant: one provider for each game.
KeyById == <<screen.game, NoVersion>>

Key == <<screen.game, screen.base.version>>

\* What the screen renders: the value of its provider, or the snapshot before it has one.
Shown == IF providers[Key] # Nothing THEN providers[Key] ELSE screen.base

\* The gateway has read its snapshot of g for the socket.
Waiting(g) == socket.game = g /\ socket.phase \in {"read", "room"}
-----------------------------------------------------------------------------
Act == acts < MaxActs /\ acts' = acts + 1

\* The server.

Missable(u) == Waiting(u.game) /\ u.state.version > socket.read.version

Increment(g) ==
  /\ row[g].version < MaxVersion
  /\ row' = [row EXCEPT ![g].version = @ + 1, ![g].play = @ + 1]
  /\ UNCHANGED <<rescheduling, rewound>>

\* A command or transition of live scoring commits; the broadcast comes after.
Committed(g) ==
  /\ Increment(g)
  /\ unsent' = unsent \cup {[game |-> g, state |-> row'[g]]}
  /\ UNCHANGED <<appVars, missed, acts>>

\* games.service.ts changes the game and has no gateway to tell: a status set by
\* hand, which is serializable, ...
SetStatus(g) ==
  /\ Act
  /\ Increment(g)
  /\ missed' = (missed \/ Waiting(g))
  /\ UNCHANGED <<unsent, appVars>>

\* ... and a new date, for which the request reads the version of a game that is not
\* being played at the moment ...
RescheduleRead(g) ==
  /\ Act
  /\ row[g].version < MaxVersion
  /\ rescheduling' = rescheduling \cup {[key |-> acts', game |-> g, read |-> row[g].version]}
  /\ UNCHANGED <<row, unsent, rewound, appVars, missed>>

\* ... and updates it by id, whatever its version has become.
RescheduleCommit(r) ==
  /\ rescheduling' = rescheduling \ {r}
  /\ row' = [row EXCEPT ![r.game].version = r.read + 1, ![r.game].schedule = @ + 1]
  /\ rewound' = IF row[r.game].version = r.read THEN rewound ELSE rewound \cup {r.game}
  /\ missed' = (missed \/ Waiting(r.game))
  /\ UNCHANGED <<unsent, appVars, acts>>

\* Two requests that have committed broadcast in any order.
Broadcast(u) ==
  /\ unsent' = unsent \ {u}
  /\ IF socket.game = u.game /\ socket.phase = "room"
     THEN /\ inbox' = Append(inbox, u.state)
          /\ missed' = (missed /\ u.state.version # row[u.game].version)
     ELSE /\ missed' = (missed \/ Missable(u))
          /\ UNCHANGED inbox
  /\ UNCHANGED <<row, rescheduling, rewound, screen, providers, current, socket, seen, strayed,
                 acts>>

\* The process stops between commit and broadcast.
StopBeforeBroadcast(u) ==
  /\ unsent' = unsent \ {u}
  /\ missed' = (missed \/ Missable(u))
  /\ UNCHANGED <<row, rescheduling, rewound, appVars, acts>>
-----------------------------------------------------------------------------
\* The screen.

Fetch(g) ==
  /\ Act
  /\ screen' = [game |-> g, phase |-> "loading", base |-> Nothing]
  /\ UNCHANGED <<serverVars, providers, current, socket, inbox, seen, strayed, missed>>

\* initState.
Open(g) == screen.phase # "loading" /\ Fetch(g)

\* onRefresh, and _retry after an error: a new future for the same screen.
Refresh == screen.phase \in {"done", "failed"} /\ Fetch(screen.game)

Answer(new) ==
  /\ screen.phase = "loading"
  /\ screen' = new
  /\ UNCHANGED <<serverVars, providers, current, socket, inbox, seen, strayed, missed, acts>>

SnapshotRead == Answer([screen EXCEPT !.phase = "answered", !.base = row[screen.game]])

SnapshotFailed == Answer([screen EXCEPT !.phase = "failed"])

\* seed.
Seeded ==
  IF current.game # screen.game \/ screen.base.version >= current.state.version
  THEN [game |-> screen.game, state |-> screen.base]
  ELSE current

\* build, when the answer has come: seed, and watch the provider of this id and
\* version.  A family keeps its providers, so one that exists already is not built
\* again and does not call the service's watch.
Show ==
  /\ screen.phase = "answered"
  /\ screen' = [screen EXCEPT !.phase = "done"]
  /\ current' = Seeded
  /\ IF Key \in DOMAIN providers
     THEN /\ UNCHANGED <<providers, socket, inbox>>
          /\ strayed' = (strayed \/ socket.game # screen.game)
     ELSE /\ providers' = [k \in DOMAIN providers \cup {Key} |->
                             IF k = Key THEN Nothing ELSE providers[k]]
          /\ socket' = [game |-> screen.game, phase |-> "connecting", read |-> Nothing]
          /\ inbox' = <<>>
          /\ UNCHANGED strayed
  /\ seen' = [seen EXCEPT ![screen.game] =
       LET shown == IF Key \in DOMAIN providers THEN Shown ELSE screen.base
       IN  IF shown.version > @.version THEN shown ELSE @]
  /\ UNCHANGED <<serverVars, missed, acts>>
-----------------------------------------------------------------------------
\* The socket.

\* joinGame reads the game for a client that has connected ...
JoinRead ==
  /\ socket.phase = "connecting"
  /\ socket' = [socket EXCEPT !.phase = "read", !.read = row[socket.game]]
  /\ missed' = FALSE
  /\ UNCHANGED <<serverVars, screen, providers, current, inbox, seen, strayed, acts>>

\* Variant: the join is answered without the snapshot.
AnswerNothing == inbox' = inbox

AnswerJoin == inbox' = Append(inbox, socket.read)

\* ... then puts it into the room, and answers with what it has read.
JoinRoom ==
  /\ socket.phase = "read"
  /\ socket' = [socket EXCEPT !.phase = "room"]
  /\ AnswerJoin
  /\ UNCHANGED <<serverVars, screen, providers, current, seen, strayed, missed, acts>>

\* Variant: the announcement that comes last counts.
AnyVersion(new) == TRUE

\* What is older than the service's current state of the same game is dropped.
NotOlder(new) == current.game # socket.game \/ new.version >= current.state.version

\* Variant: the copy leaves the scores as they were.
MergedVersion(new) ==
  IF current.game = socket.game THEN [current.state EXCEPT !.version = new.version] ELSE new

\* copyWith takes status, scores, period and version; the date and the teams stay
\* those of the state the service has, unless it was about another game.
Merged(new) ==
  IF current.game = socket.game
  THEN [current.state EXCEPT !.version = new.version, !.play = new.play]
  ELSE new

\* _merge, for an answer and for an announcement.
Merge ==
  LET new == Head(inbox)
      merged == Merged(new)
  IN
  /\ inbox # <<>>
  /\ inbox' = Tail(inbox)
  /\ IF NotOlder(new)
     THEN /\ current' = [game |-> socket.game, state |-> merged]
          /\ providers' = [k \in DOMAIN providers |->
                             IF k[1] = socket.game THEN merged ELSE providers[k]]
          /\ seen' = [seen EXCEPT ![socket.game] =
               IF screen.phase = "done" /\ screen.game = socket.game /\ new.version > @.version
               THEN merged ELSE @]
     ELSE UNCHANGED <<current, providers, seen>>
  /\ UNCHANGED <<serverVars, screen, socket, strayed, missed, acts>>

\* The connection is lost with what was on its way; the client connects and joins again.
Disconnect ==
  /\ Act
  /\ socket.phase \in {"read", "room"}
  /\ socket' = [socket EXCEPT !.phase = "connecting", !.read = Nothing]
  /\ inbox' = <<>>
  /\ UNCHANGED <<serverVars, screen, providers, current, seen, strayed, missed>>
-----------------------------------------------------------------------------
Deliver == SnapshotRead \/ Show \/ JoinRead \/ JoinRoom \/ Merge \/ \E u \in unsent : Broadcast(u)

CenterNext ==
  \/ Deliver
  \/ SnapshotFailed \/ Refresh \/ Disconnect
  \/ \E g \in Games : SetStatus(g) \/ RescheduleRead(g) \/ Open(g)
  \/ \E r \in rescheduling : RescheduleCommit(r)
  \/ \E u \in unsent : StopBeforeBroadcast(u)
-----------------------------------------------------------------------------
Versioned == {s \in Game : s.version \in 1..MaxVersion}

CenterTypeOK ==
  /\ row \in [Games -> Versioned]
  /\ \A r \in rescheduling : r.game \in Games /\ r.read \in 1..(MaxVersion - 1)
  /\ \A u \in unsent : u.game \in Games /\ u.state \in Versioned
  /\ rewound \subseteq Games
  /\ screen \in [game : Games \cup {NoGame}, base : Versioned \cup {Nothing},
                  phase : {"closed", "loading", "answered", "failed", "done"}]
  /\ DOMAIN providers \subseteq Games \X (1..MaxVersion)
  /\ \A k \in DOMAIN providers : providers[k] \in Versioned \cup {Nothing}
  /\ current \in [game : Games \cup {NoGame}, state : Versioned \cup {Nothing}]
  /\ socket \in [game : Games \cup {NoGame}, read : Versioned \cup {Nothing},
                  phase : {"closed", "connecting", "read", "room"}]
  /\ inbox \in Seq(Versioned)
  /\ seen \in [Games -> Versioned \cup {Nothing}]

\* The screen never goes back to an older score, however snapshots, answers and
\* announcements overtake each other, unless an earlier screen has left the socket
\* in the room of another game, or a version has been used twice.
ShownNeverFalls ==
  screen.phase = "done" /\ ~strayed /\ screen.game \notin rewound =>
    Shown.play >= seen[screen.game].play

\* The screen shows status, score and period as they are, under the present version.
UpToDate ==
  LET now == row[screen.game]
  IN  Shown.version = now.version /\ Shown.play = now.play

\* A client that has joined, has read everything sent to it and missed no
\* announcement is up to date.  That is not said of the date, which stays that of the
\* snapshot the service was seeded with.
\* An announcement is missed when its request stops before it, when it falls between
\* the snapshot of the join and the join, and for changes made in games.service.ts.
\* Once a screen has strayed the service holds the state of another game, takes
\* whatever is announced next for the socket's game, and shows it when the user comes
\* back.  A version that a reschedule has used again names two states, of which the
\* app may have kept the older.
InRoomUpToDate ==
  /\ screen.phase = "done" /\ socket.game = screen.game /\ socket.phase = "room"
  /\ inbox = <<>> /\ ~missed /\ ~strayed /\ screen.game \notin rewound
  /\ \A u \in unsent : u.game # screen.game
  => UpToDate

\* Whoever keeps a game open on a connection that comes back catches up with it, or
\* has missed an announcement, has strayed, or sees a game with a version used twice.
CatchesUp ==
  <>[](screen.phase = "done" /\ socket.game = screen.game
         => UpToDate \/ missed \/ strayed \/ screen.game \in rewound)

\* The screen is subscribed to the game it shows.
ScreenSubscribed == screen.phase = "done" => socket.game = screen.game
=============================================================================
