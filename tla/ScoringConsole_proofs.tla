------------------------- MODULE ScoringConsole_proofs -------------------------
(***************************************************************************)
(* Proofs, for any number of pages, games, clicks and changes, that the    *)
(* scorekeepers' pages count nothing twice, and that the fans' screens     *)
(* behind them never fall back and are up to date in the room.             *)
(***************************************************************************)
EXTENDS ScoringConsole, SequenceTheorems, TLAPS

USE MatchCenterAssumption
-----------------------------------------------------------------------------
(***************************************************************************)
(* The match centre.                                                       *)
(***************************************************************************)
\* What may be remembered of a game: a state it has had, or nothing.
Known == Versioned \cup {Nothing}

LEMMA KnownStates ==
  /\ \A s \in Known : /\ s.version \in 0..MaxVersion /\ s.version \in Nat /\ s.play \in Nat
                      /\ s = Nothing <=> s.version = 0
                      /\ s \in Versioned <=> s.version # 0
  /\ Nothing \in Known /\ Nothing.version = 0 /\ Nothing.play = 0
  /\ Versioned \subseteq Known
<1>1. Nothing.version = 0 /\ Nothing.play = 0
  BY DEF Nothing, NoVersion
<1>2. \A s \in Versioned : s.version \in 1..MaxVersion /\ s.play \in Nat
  BY DEF Versioned, Game
<1> QED BY <1>1, <1>2, MatchCenterAssumption DEF Known

\* Everything that is remembered, sent or shown of a game.
Copies(g) ==
  {Nothing, row[g], seen[g]}
  \cup {u.state : u \in {w \in unsent : w.game = g}}
  \cup {providers[k] : k \in {j \in DOMAIN providers : j[1] = g}}
  \cup (IF current.game = g THEN {current.state} ELSE {})
  \cup (IF screen.game = g THEN {screen.base} ELSE {})
  \cup (IF socket.game = g THEN {socket.read} \cup {inbox[i] : i \in DOMAIN inbox} ELSE {})

\* While no version has been used twice, nothing is newer than the game, and a version
\* stands for one state of what is played, which never goes back.
CopiesInv ==
  \A g \in Games \ rewound :
    /\ \A a \in Copies(g) : a.version <= row[g].version
    /\ \A a, b \in Copies(g) : a.version <= b.version => a.play <= b.play
    /\ \A k \in DOMAIN providers : k[1] = g => k[2] <= row[g].version

\* A screen and a socket that are not closed have a game.
ScreenInv ==
  /\ screen.phase # "closed" => screen.game \in Games
  /\ screen.phase \in {"answered", "done"} => screen.base \in Versioned

SocketInv ==
  /\ socket.phase # "closed" => socket.game \in Games
  /\ socket.phase \in {"read", "room"} => socket.read \in Versioned
  /\ socket.phase # "room" => inbox = <<>>

\* A snapshot that waits to be shown is not older than what its game's screens have shown
\* and, while the service is about another game, than what their providers hold.
Answered ==
  screen.phase = "answered" /\ screen.game \notin rewound =>
    /\ seen[screen.game].version <= screen.base.version
    /\ \A k \in DOMAIN providers : k[1] = screen.game =>
         /\ k[2] <= screen.base.version
         /\ ~strayed /\ current.game # screen.game =>
              providers[k].version <= screen.base.version

\* A screen that has not strayed shows the game that the service is about.
Done ==
  screen.phase = "done" =>
    /\ Key \in DOMAIN providers
    /\ ~strayed => socket.game = screen.game
    /\ ~strayed /\ screen.game \notin rewound =>
         /\ current.state.version >= seen[screen.game].version
         /\ Shown.version >= seen[screen.game].version

\* The service is ahead of all its providers, and they of the snapshots they began with.
Ahead ==
  ~strayed =>
    /\ current.game = socket.game
    /\ \A k \in DOMAIN providers : k[1] \notin rewound =>
         /\ providers[k] # Nothing => providers[k].version >= k[2]
         /\ k[1] = current.game =>
              k[2] <= current.state.version /\ providers[k].version <= current.state.version

Now == row[socket.game].version

\* The present version is on its way to the socket, or everything shows it.
Heard ==
  \/ \E i \in DOMAIN inbox : inbox[i].version = Now
  \/ /\ current.state.version = Now
     /\ \A k \in DOMAIN providers : k[1] = socket.game => providers[k].version = Now

ToCome == \E u \in unsent : u.game = socket.game /\ u.state.version = Now

\* Where the present version is, unless its announcement was missed.
Joined ==
  socket.game \notin rewound =>
    /\ socket.phase = "read" /\ ~missed => socket.read.version = Now \/ ToCome
    /\ socket.phase = "room" /\ ~strayed => /\ socket.read.version = Now => Heard
                                            /\ ~missed => Heard \/ ToCome

CenterInv ==
  /\ CenterTypeOK /\ missed \in BOOLEAN /\ strayed \in BOOLEAN
  /\ ScreenInv /\ SocketInv /\ CopiesInv
  /\ Answered /\ Done /\ Ahead /\ Joined

LEMMA CenterInvInit == CenterInit => CenterInv
<1> SUFFICES ASSUME CenterInit PROVE CenterInv
  OBVIOUS
<1>1. [version |-> 1, play |-> 0, schedule |-> 0] \in Versioned
  BY DEF Versioned, Game
<1>2. CenterTypeOK
  BY <1>1, KnownStates DEF CenterInit, CenterTypeOK
<1>3. ScreenInv /\ SocketInv
  BY DEF CenterInit, ScreenInv, SocketInv
<1>4. ASSUME NEW g \in Games, NEW a \in Copies(g)
      PROVE  a.play = 0 /\ a.version \in {0, 1}
  BY <1>4, KnownStates DEF CenterInit, Copies
<1>5. CopiesInv
  BY <1>4 DEF CopiesInv, CenterInit
<1>6. Answered /\ Done /\ Ahead /\ Joined
  BY DEF CenterInit, Answered, Done, Ahead, Joined
<1> QED BY <1>2, <1>3, <1>5, <1>6 DEF CenterInv, CenterInit

\* What is remembered of a game is of its type.
LEMMA CopiesKnown ==
  ASSUME CenterTypeOK, NEW g \in Games
  PROVE  Copies(g) \subseteq Known
<1>1. row[g] \in Known /\ seen[g] \in Known /\ Nothing \in Known
  BY DEF CenterTypeOK, Known
<1>2. \A u \in unsent : u.state \in Known
  BY DEF CenterTypeOK, Known
<1>3. \A k \in DOMAIN providers : providers[k] \in Known
  BY DEF CenterTypeOK, Known
<1>4. current.state \in Known /\ screen.base \in Known /\ socket.read \in Known
  BY DEF CenterTypeOK, Known
<1>5. \A i \in DOMAIN inbox : inbox[i] \in Known
  BY DEF CenterTypeOK, Known
<1> QED BY <1>1, <1>2, <1>3, <1>4, <1>5 DEF Copies

\* A step that makes nothing new leaves the copies consistent.
LEMMA CopiesKept ==
  ASSUME CopiesInv, UNCHANGED <<row, rewound>>,
         \A g \in Games \ rewound : \A a \in Copies(g)' : \E b \in Copies(g) :
           a.version = b.version /\ a.play = b.play,
         \A k \in DOMAIN providers' : k[1] \in Games \ rewound =>
           k \in DOMAIN providers \/ k[2] <= row[k[1]].version
  PROVE  CopiesInv'
<1>1. SUFFICES ASSUME NEW g \in Games \ rewound
               PROVE  /\ \A a \in Copies(g)' : a.version <= row[g].version
                      /\ \A a, b \in Copies(g)' : a.version <= b.version => a.play <= b.play
                      /\ \A k \in DOMAIN providers' : k[1] = g => k[2] <= row[g].version
  BY DEF CopiesInv
<1>2. \A a \in Copies(g)' : \E b \in Copies(g) : a.version = b.version /\ a.play = b.play
  OBVIOUS
<1>3. /\ \A a \in Copies(g) : a.version <= row[g].version
      /\ \A a, b \in Copies(g) : a.version <= b.version => a.play <= b.play
  BY DEF CopiesInv
<1>4. \A a \in Copies(g)' : a.version <= row[g].version
  BY <1>2, <1>3
<1>5. ASSUME NEW a \in Copies(g)', NEW b \in Copies(g)', a.version <= b.version
      PROVE  a.play <= b.play
  <2>1. PICK c \in Copies(g) : a.version = c.version /\ a.play = c.play
    BY <1>2
  <2>2. PICK d \in Copies(g) : b.version = d.version /\ b.play = d.play
    BY <1>2
  <2> QED BY <1>3, <1>5, <2>1, <2>2
<1>6. \A k \in DOMAIN providers' : k[1] = g => k[2] <= row[g].version
  BY DEF CopiesInv
<1> QED BY <1>4, <1>5, <1>6

\* A game changes: to its next version, or to one that was used before.
LEMMA MoveKeeps ==
  ASSUME CenterInv, NEW g \in Games, NEW new \in Versioned, row' = [row EXCEPT ![g] = new],
         UNCHANGED appVars,
         \A r \in rescheduling' : r.game \in Games /\ r.read \in 1..(MaxVersion - 1),
         \/ /\ new.version = row[g].version + 1 /\ new.play >= row[g].play
            /\ UNCHANGED rewound
         \/ rewound' = rewound \cup {g},
         \/ unsent' = unsent \cup {[game |-> g, state |-> new]} /\ UNCHANGED missed
         \/ missed' = (missed \/ Waiting(g)) /\ UNCHANGED unsent
  PROVE  CenterInv'
<1> DEFINE w == [game |-> g, state |-> new]
<1>1. /\ UNCHANGED <<screen, providers, current, socket, inbox, seen, strayed>>
      /\ rewound \subseteq rewound' /\ rewound' \subseteq Games
      /\ unsent \subseteq unsent' /\ unsent' \subseteq unsent \cup {w} /\ missed' \in BOOLEAN
      /\ w.game = g /\ w.state = new
  BY DEF appVars, CenterInv, CenterTypeOK
<1>2. /\ row' \in [Games -> Versioned] /\ row'[g] = new
      /\ \A h \in Games : h # g => row'[h] = row[h]
  BY DEF CenterInv, CenterTypeOK
<1>3. \A h \in Games : row[h] \in Versioned /\ row[h].version \in Nat /\ row[h].play \in Nat
  BY KnownStates DEF CenterInv, CenterTypeOK
<1> HIDE DEF w
<1>4. CenterTypeOK' /\ strayed' \in BOOLEAN
  <2>1. \A u \in unsent' : u.game \in Games /\ u.state \in Versioned
    BY <1>1 DEF CenterInv, CenterTypeOK
  <2> QED BY <1>1, <1>2, <2>1 DEF CenterInv, CenterTypeOK
<1>5. ScreenInv' /\ SocketInv'
  BY <1>1 DEF CenterInv, ScreenInv, SocketInv
<1>6. CopiesInv'
  <2>1. SUFFICES ASSUME NEW h \in Games \ rewound'
                 PROVE  /\ \A a \in Copies(h)' : a.version <= row'[h].version
                        /\ \A a, b \in Copies(h)' : a.version <= b.version => a.play <= b.play
                        /\ \A k \in DOMAIN providers : k[1] = h => k[2] <= row'[h].version
    BY <1>1 DEF CopiesInv
  <2>2. /\ \A a \in Copies(h) : a.version <= row[h].version
        /\ \A a, b \in Copies(h) : a.version <= b.version => a.play <= b.play
        /\ \A k \in DOMAIN providers : k[1] = h => k[2] <= row[h].version
    BY <1>1, <2>1 DEF CenterInv, CopiesInv
  <2>3. Copies(h)' \subseteq Copies(h) \cup {row'[h]} \cup {u.state : u \in {x \in {w} : x.game = h}}
    BY <1>1 DEF Copies
  <2>4. CASE h # g
    <3>1. Copies(h)' \subseteq Copies(h) /\ row'[h] = row[h]
      <4>1. row'[h] = row[h] /\ row[h] \in Copies(h)
        BY <1>2, <2>4 DEF Copies
      <4>2. {u.state : u \in {x \in {w} : x.game = h}} = {}
        BY <1>1, <2>4
      <4> QED BY <2>3, <4>1, <4>2
    <3> QED BY <2>2, <3>1
  <2>5. CASE h = g
    <3>1. new.version = row[g].version + 1 /\ new.play >= row[g].play /\ new.play \in Nat
      BY <2>1, <2>5, KnownStates
    <3>2. \A a \in Copies(h)' : a \in Copies(h) \/ a = new
      BY <1>1, <1>2, <2>3, <2>5
    <3>3. \A a \in Copies(h) : a.version \in Nat /\ a.play \in Nat
      BY CopiesKnown, KnownStates DEF CenterInv
    <3>4. \A a \in Copies(h) : a.version < new.version /\ a.play <= new.play
      <4>1. row[h] \in Copies(h)
        BY DEF Copies
      <4>2. TAKE a \in Copies(h)
      <4>3. a.version <= row[h].version /\ a.play <= row[h].play
        BY <2>2, <4>1
      <4>4. a.version \in Nat /\ a.play \in Nat /\ row[h].version \in Nat /\ row[h].play \in Nat
        BY <1>3, <3>3
      <4> QED BY <2>5, <3>1, <4>3, <4>4
    <3>5. new.version \in Nat
      BY KnownStates
    <3>6. \A a \in Copies(h)' : a.version <= row'[h].version
      BY <1>2, <2>5, <3>2, <3>3, <3>4, <3>5
    <3>7. \A a, b \in Copies(h)' : a.version <= b.version => a.play <= b.play
      BY <2>2, <3>1, <3>2, <3>3, <3>4, <3>5
    <3>8. \A k \in DOMAIN providers : k[1] = h => k[2] <= row'[h].version
      <4>1. TAKE k \in DOMAIN providers
      <4>2. HAVE k[1] = h
      <4>3. k[2] \in Nat /\ k[2] <= row[h].version
        BY <2>2, <4>2 DEF CenterInv, CenterTypeOK
      <4> QED BY <1>2, <1>3, <2>5, <3>1, <3>5, <4>3
    <3> QED BY <3>6, <3>7, <3>8
  <2> QED BY <2>4, <2>5
<1>7. Answered' /\ Done' /\ Ahead'
  BY <1>1 DEF CenterInv, Answered, Done, Ahead, Key, Shown
<1>8. Joined'
  <2>1. SUFFICES ASSUME socket.phase \in {"read", "room"}, socket.game \notin rewound'
                 PROVE  Joined'
    BY <1>1 DEF Joined
  <2>2. socket.game \in Games /\ socket.game \notin rewound
    BY <1>1, <2>1 DEF CenterInv, SocketInv
  <2>3. CASE socket.game = g
    <3>1. Now' = Now + 1 /\ Now \in Nat /\ new.version = Now'
      BY <1>1, <1>2, <1>3, <2>1, <2>3 DEF Now
    <3>2. socket.read.version \in Nat /\ socket.read.version <= Now
      <4>1. socket.read \in Copies(g)
        BY <2>3 DEF Copies
      <4> QED BY <2>2, <2>3, <4>1, CopiesKnown, KnownStates DEF CenterInv, CopiesInv, Now
    <3>3. missed' \/ ToCome'
      <4>1. CASE w \in unsent'
        BY <1>1, <2>3, <3>1, <4>1 DEF ToCome
      <4>2. CASE missed' = (missed \/ Waiting(g))
        BY <2>1, <2>3, <4>2 DEF Waiting
      <4> QED BY <4>1, <4>2 DEF w
    <3> QED BY <1>1, <3>1, <3>2, <3>3 DEF Joined
  <2>4. CASE socket.game # g
    <3>1. Now' = Now
      BY <1>1, <1>2, <2>2, <2>4 DEF Now
    <3>2. (ToCome => ToCome') /\ (Heard <=> Heard')
      BY <1>1, <3>1 DEF ToCome, Heard
    <3>3. missed' = missed
      BY <2>4 DEF Waiting, CenterInv
    <3> QED BY <1>1, <2>2, <3>1, <3>2, <3>3 DEF Joined, CenterInv
  <2> QED BY <2>3, <2>4
<1> QED BY <1>1, <1>4, <1>5, <1>6, <1>7, <1>8 DEF CenterInv

\* Whatever is remembered is numbered.
LEMMA CenterNumbers ==
  ASSUME CenterTypeOK
  PROVE  /\ \A g \in Games : /\ row[g] \in Versioned /\ row[g].version \in Nat
                             /\ seen[g] \in Known /\ seen[g].version \in Nat
         /\ \A k \in DOMAIN providers : /\ k[1] \in Games /\ k[2] \in Nat
                                        /\ providers[k] \in Known /\ providers[k].version \in Nat
         /\ current.state \in Known /\ current.state.version \in Nat
         /\ screen.base \in Known /\ screen.base.version \in Nat
         /\ socket.read \in Known /\ socket.read.version \in Nat
         /\ \A u \in unsent : u.game \in Games /\ u.state \in Versioned /\ u.state.version \in Nat
         /\ \A i \in DOMAIN inbox : inbox[i] \in Versioned /\ inbox[i].version \in Nat
<1>1. /\ \A g \in Games : row[g] \in Versioned /\ row[g] \in Known /\ seen[g] \in Known
      /\ \A k \in DOMAIN providers : k[1] \in Games /\ k[2] \in Nat /\ providers[k] \in Known
      /\ current.state \in Known /\ screen.base \in Known /\ socket.read \in Known
      /\ \A u \in unsent : u.game \in Games /\ u.state \in Versioned /\ u.state \in Known
      /\ \A i \in DOMAIN inbox : inbox[i] \in Versioned /\ inbox[i] \in Known
  BY DEF CenterTypeOK, Known
<1> QED BY <1>1, KnownStates

\* A change is announced, or never will be.
LEMMA AnnounceKeeps ==
  ASSUME CenterInv, NEW u \in unsent, Broadcast(u) \/ StopBeforeBroadcast(u)
  PROVE  CenterInv'
<1>1. /\ UNCHANGED <<row, rescheduling, rewound, screen, providers, current, socket, seen, strayed>>
      /\ unsent' = unsent \ {u}
  BY DEF Broadcast, StopBeforeBroadcast, appVars
<1>2. CenterTypeOK /\ u.game \in Games /\ u.state \in Versioned
  BY CenterNumbers DEF CenterInv
<1>3. Now' = Now
  BY <1>1 DEF Now
<1>4. Answered' /\ Done' /\ Ahead' /\ ScreenInv'
  BY <1>1 DEF CenterInv, Answered, Done, Ahead, ScreenInv, Key, Shown
<1>5. CASE /\ socket.game = u.game /\ socket.phase = "room"
           /\ inbox' = Append(inbox, u.state)
           /\ missed' = (missed /\ u.state.version # row[u.game].version)
  <2>1. /\ inbox' \in Seq(Versioned) /\ Len(inbox') = Len(inbox) + 1
        /\ \A i \in DOMAIN inbox : i \in DOMAIN inbox' /\ inbox'[i] = inbox[i]
        /\ Len(inbox') \in DOMAIN inbox' /\ inbox'[Len(inbox')] = u.state
        /\ \A i \in DOMAIN inbox' :
             inbox'[i] = u.state \/ (i \in DOMAIN inbox /\ inbox'[i] = inbox[i])
    <3>1. inbox \in Seq(Versioned)
      BY <1>2 DEF CenterTypeOK
    <3> QED BY <1>2, <1>5, <3>1, AppendProperties, LenProperties
  <2>2. CenterTypeOK' /\ missed' \in BOOLEAN /\ strayed' \in BOOLEAN
    BY <1>1, <1>5, <2>1 DEF CenterInv, CenterTypeOK
  <2>3. SocketInv'
    BY <1>1, <1>5 DEF CenterInv, SocketInv
  <2>4. CopiesInv'
    <3>1. \A g \in Games : Copies(g)' \subseteq Copies(g)
      BY <1>1, <1>5, <2>1 DEF Copies
    <3> QED BY <1>1, <3>1, CopiesKept DEF CenterInv
  <2>5. Heard => Heard'
    BY <1>1, <1>3, <2>1 DEF Heard
  <2>6. u.state.version = Now => Heard'
    BY <1>3, <2>1 DEF Heard
  <2>7. ToCome => ToCome' \/ u.state.version = Now
    BY <1>1, <1>3 DEF ToCome
  <2>8. missed => missed' \/ u.state.version = Now
    BY <1>5 DEF Now
  <2>9. Joined'
    BY <1>1, <1>3, <1>5, <2>5, <2>6, <2>7, <2>8 DEF CenterInv, Joined
  <2> QED BY <1>4, <2>2, <2>3, <2>4, <2>9 DEF CenterInv
<1>6. CASE UNCHANGED inbox /\ missed' = (missed \/ Missable(u))
  <2>1. CenterTypeOK' /\ missed' \in BOOLEAN /\ strayed' \in BOOLEAN
    BY <1>1, <1>6 DEF CenterInv, CenterTypeOK, Missable, Waiting
  <2>2. SocketInv'
    BY <1>1, <1>6 DEF CenterInv, SocketInv
  <2>3. CopiesInv'
    <3>1. \A g \in Games : Copies(g)' \subseteq Copies(g)
      BY <1>1, <1>6 DEF Copies
    <3> QED BY <1>1, <3>1, CopiesKept DEF CenterInv
  <2>4. Joined'
    <3>1. SUFFICES ASSUME socket.phase \in {"read", "room"}, socket.game \notin rewound
                   PROVE  Joined'
      BY <1>1 DEF Joined
    <3>2. socket.game \in Games
      BY <3>1 DEF CenterInv, SocketInv
    <3>3. Now \in Nat /\ socket.read.version \in Nat /\ socket.read.version <= Now
      <4>1. socket.read \in Copies(socket.game)
        BY DEF Copies
      <4> QED BY <1>2, <3>1, <3>2, <4>1, CenterNumbers DEF CenterInv, CopiesInv, Now
    <3>4. Heard' <=> Heard
      BY <1>1, <1>3, <1>6 DEF Heard
    <3>5. ToCome => ToCome' \/ missed' \/ socket.read.version = Now
      <4>1. ASSUME ToCome, ~ToCome'
            PROVE  u.game = socket.game /\ u.state.version = Now
        BY <1>1, <1>3, <4>1 DEF ToCome
      <4>2. ASSUME ToCome, ~ToCome', socket.read.version # Now
            PROVE  Missable(u)
        BY <3>1, <3>3, <4>1, <4>2 DEF Missable, Waiting
      <4> QED BY <1>6, <4>2
    <3>6. missed => missed'
      BY <1>6
    <3> QED BY <1>1, <1>3, <3>4, <3>5, <3>6 DEF CenterInv, Joined
  <2> QED BY <1>4, <2>1, <2>2, <2>3, <2>4 DEF CenterInv
<1> QED BY <1>5, <1>6 DEF Broadcast, StopBeforeBroadcast, appVars

\* A new date is about to be written.
LEMMA RescheduleReadKeeps ==
  ASSUME CenterInv, NEW g \in Games, RescheduleRead(g)
  PROVE  CenterInv'
<1>1. /\ rescheduling' = rescheduling \cup {[key |-> acts', game |-> g, read |-> row[g].version]}
      /\ row[g].version < MaxVersion
      /\ UNCHANGED <<row, unsent, rewound, screen, providers, current, socket, inbox, seen,
                     strayed, missed>>
  BY DEF RescheduleRead, appVars
<1>2. row[g].version \in 1..(MaxVersion - 1)
  BY <1>1, MatchCenterAssumption DEF CenterInv, CenterTypeOK, Versioned
<1>3. CenterTypeOK'
  BY <1>1, <1>2 DEF CenterInv, CenterTypeOK
<1>4. ScreenInv' /\ SocketInv' /\ Answered' /\ Done' /\ Ahead' /\ Joined'
  BY <1>1 DEF CenterInv, ScreenInv, SocketInv, Answered, Done, Ahead, Joined, Key, Shown, Now, Heard,
              ToCome
<1>5. CopiesInv'
  <2>1. \A h \in Games : Copies(h)' = Copies(h)
    BY <1>1 DEF Copies
  <2> QED BY <1>1, <2>1, CopiesKept DEF CenterInv
<1> QED BY <1>1, <1>3, <1>4, <1>5 DEF CenterInv

\* A new snapshot is asked for.
LEMMA FetchKeeps ==
  ASSUME CenterInv, NEW g \in Games, Fetch(g)
  PROVE  CenterInv'
<1>1. /\ screen' = [game |-> g, phase |-> "loading", base |-> Nothing]
      /\ UNCHANGED <<row, rescheduling, unsent, rewound, providers, current, socket, inbox, seen,
                     strayed, missed>>
  BY DEF Fetch, serverVars
<1>2. CenterTypeOK' /\ missed' \in BOOLEAN /\ strayed' \in BOOLEAN
  BY <1>1 DEF CenterInv, CenterTypeOK
<1>3. ScreenInv' /\ SocketInv'
  BY <1>1 DEF CenterInv, ScreenInv, SocketInv
<1>4. Answered' /\ Done' /\ Ahead'
  BY <1>1 DEF CenterInv, Answered, Done, Ahead
<1>5. Joined'
  BY <1>1 DEF CenterInv, Joined, Heard, ToCome, Now
<1>6. CopiesInv'
  <2>1. \A h \in Games : Copies(h)' \subseteq Copies(h)
    BY <1>1 DEF Copies
  <2> QED BY <1>1, <2>1, CopiesKept DEF CenterInv
<1> QED BY <1>2, <1>3, <1>4, <1>5, <1>6 DEF CenterInv

\* The snapshot is answered with the present row, or is not.
LEMMA AnswerKeeps ==
  ASSUME CenterInv, SnapshotRead \/ SnapshotFailed
  PROVE  CenterInv'
<1> DEFINE g == screen.game
<1>1. /\ UNCHANGED <<row, rescheduling, unsent, rewound, providers, current, socket, inbox, seen,
                     strayed, missed>>
      /\ screen.phase = "loading" /\ g \in Games /\ row[g] \in Versioned
  BY CenterNumbers DEF SnapshotRead, SnapshotFailed, Answer, ScreenInv, CenterInv, serverVars
<1>2. /\ screen'.game = g /\ screen'.phase \in {"answered", "failed"}
      /\ screen'.base \in {row[g], screen.base}
      /\ screen'.phase = "answered" => screen'.base = row[g]
      /\ screen' \in [game : Games \cup {NoGame}, base : Versioned \cup {Nothing},
                      phase : {"closed", "loading", "answered", "failed", "done"}]
  <2>1. screen = [game |-> g, phase |-> "loading", base |-> screen.base]
    BY <1>1 DEF CenterInv, CenterTypeOK
  <2>2. \/ screen' = [game |-> g, phase |-> "answered", base |-> row[g]]
        \/ screen' = [game |-> g, phase |-> "failed", base |-> screen.base]
    BY <2>1 DEF SnapshotRead, SnapshotFailed, Answer
  <2> QED BY <1>1, <2>2 DEF CenterInv, CenterTypeOK
<1> HIDE DEF g
<1>3. CenterTypeOK' /\ missed' \in BOOLEAN /\ strayed' \in BOOLEAN
  BY <1>1, <1>2 DEF CenterInv, CenterTypeOK, g
<1>4. ScreenInv' /\ SocketInv'
  BY <1>1, <1>2 DEF CenterInv, ScreenInv, SocketInv
<1>5. CopiesInv'
  <2>1. \A h \in Games : Copies(h)' \subseteq Copies(h)
    BY <1>1, <1>2 DEF Copies, g
  <2> QED BY <1>1, <2>1, CopiesKept DEF CenterInv
<1>6. Answered'
  <2>1. SUFFICES ASSUME g \notin rewound, screen'.base = row[g]
                 PROVE  /\ seen[g].version <= row[g].version
                        /\ \A k \in DOMAIN providers : k[1] = g =>
                             k[2] <= row[g].version /\ providers[k].version <= row[g].version
    BY <1>1, <1>2 DEF Answered
  <2>2. seen[g] \in Copies(g) /\ \A k \in DOMAIN providers : k[1] = g => providers[k] \in Copies(g)
    BY DEF Copies
  <2> QED BY <1>1, <2>1, <2>2 DEF CenterInv, CopiesInv
<1>7. Done' /\ Ahead'
  BY <1>1, <1>2 DEF CenterInv, Done, Ahead
<1>8. Joined'
  BY <1>1 DEF CenterInv, Joined, Heard, ToCome, Now
<1> QED BY <1>3, <1>4, <1>5, <1>6, <1>7, <1>8 DEF CenterInv

\* The client connects, joins or loses its connection.
LEMMA ConnectionKeeps ==
  ASSUME CenterInv, JoinRead \/ JoinRoom \/ Disconnect
  PROVE  CenterInv'
<1>1. UNCHANGED <<row, rescheduling, unsent, rewound, screen, providers, current, seen, strayed>>
  BY DEF JoinRead, JoinRoom, Disconnect, serverVars
<1>2. ScreenInv' /\ socket'.game = socket.game /\ Now' = Now
  BY <1>1 DEF CenterInv, CenterTypeOK, ScreenInv, JoinRead, JoinRoom, Disconnect, Now
<1>3. Answered' /\ Done' /\ Ahead'
  BY <1>1, <1>2 DEF CenterInv, Answered, Done, Ahead, Key, Shown
<1>4. CASE JoinRead \/ Disconnect
  <2>1. socket.phase # "closed" /\ socket.game \in Games /\ row[socket.game] \in Versioned
    BY <1>4, CenterNumbers DEF JoinRead, Disconnect, SocketInv, CenterInv
  <2>2. /\ \/ socket'.phase = "read" /\ socket'.read = row[socket.game]
           \/ socket'.phase = "connecting" /\ socket'.read = Nothing
        /\ inbox' = <<>> /\ missed' \in BOOLEAN
        /\ socket' \in [game : Games \cup {NoGame}, read : Versioned \cup {Nothing},
                        phase : {"closed", "connecting", "read", "room"}]
    <3>1. socket = [game |-> socket.game, phase |-> socket.phase, read |-> socket.read]
      BY DEF CenterInv, CenterTypeOK
    <3>2. \/ socket' = [game |-> socket.game, phase |-> "read", read |-> row[socket.game]]
          \/ socket' = [game |-> socket.game, phase |-> "connecting", read |-> Nothing]
      BY <1>4, <3>1 DEF JoinRead, Disconnect
    <3>3. inbox' = <<>> /\ missed' \in BOOLEAN
      BY <1>4 DEF JoinRead, Disconnect, SocketInv, CenterInv
    <3> QED BY <2>1, <3>2, <3>3
  <2>3. CenterTypeOK' /\ strayed' \in BOOLEAN
    <3>1. <<>> \in Seq(Versioned)
      OBVIOUS
    <3> QED BY <1>1, <1>2, <2>1, <2>2, <3>1 DEF CenterInv, CenterTypeOK
  <2>4. SocketInv'
    BY <1>2, <2>1, <2>2 DEF SocketInv
  <2>5. CopiesInv'
    <3>1. \A h \in Games : Copies(h)' \subseteq Copies(h)
      BY <1>1, <1>2, <2>2 DEF Copies
    <3> QED BY <1>1, <3>1, CopiesKept DEF CenterInv
  <2>6. Joined'
    BY <1>1, <1>2, <2>2 DEF Joined, Now
  <2> QED BY <1>2, <1>3, <2>2, <2>3, <2>4, <2>5, <2>6 DEF CenterInv
<1>5. CASE JoinRoom
  <2>1. /\ socket.phase = "read" /\ socket'.phase = "room" /\ socket'.read = socket.read
        /\ socket.read \in Versioned /\ UNCHANGED missed /\ socket.game \in Games
        /\ inbox = <<>> /\ inbox' = Append(inbox, socket.read)
        /\ socket' \in [game : Games \cup {NoGame}, read : Versioned \cup {Nothing},
                        phase : {"closed", "connecting", "read", "room"}]
    BY <1>5 DEF JoinRoom, AnswerJoin, SocketInv, CenterInv, CenterTypeOK
  <2>2. /\ inbox' \in Seq(Versioned) /\ DOMAIN inbox' = {1}
        /\ inbox'[1] = socket.read
    BY <2>1
  <2>3. CenterTypeOK' /\ missed' \in BOOLEAN /\ strayed' \in BOOLEAN
    BY <1>1, <1>2, <2>1, <2>2 DEF CenterInv, CenterTypeOK
  <2>4. SocketInv'
    BY <1>1, <1>2, <2>1 DEF SocketInv
  <2>5. CopiesInv'
    <3>1. \A h \in Games : Copies(h)' \subseteq Copies(h)
      BY <1>1, <1>2, <2>1, <2>2 DEF Copies
    <3> QED BY <1>1, <3>1, CopiesKept DEF CenterInv
  <2>6. Joined'
    <3>1. socket.read.version = Now => Heard'
      BY <1>2, <2>2 DEF Heard
    <3>2. ToCome => ToCome'
      BY <1>1, <1>2 DEF ToCome
    <3> QED BY <1>1, <1>2, <2>1, <3>1, <3>2 DEF Joined, CenterInv
  <2> QED BY <1>2, <1>3, <2>3, <2>4, <2>5, <2>6 DEF CenterInv
<1> QED BY <1>4, <1>5

\* What the service makes of a message has the version and the play of the message.
LEMMA MergedIsNew ==
  ASSUME CenterTypeOK, NEW new \in Versioned
  PROVE  Merged(new) \in Versioned /\ Merged(new).version = new.version /\ Merged(new).play = new.play
<1>1. CASE current.game = socket.game
  <2>1. current.state \in Game
    BY DEF CenterTypeOK, Versioned, Game, Nothing, NoVersion
  <2>2. Merged(new) = [current.state EXCEPT !.version = new.version, !.play = new.play]
    BY <1>1 DEF Merged
  <2>3. Merged(new) = [version |-> new.version, play |-> new.play, schedule |-> current.state.schedule]
    BY <2>1, <2>2 DEF Game
  <2> QED BY <2>1, <2>3 DEF Versioned, Game
<1>2. CASE current.game # socket.game
  BY <1>2 DEF Merged
<1> QED BY <1>1, <1>2

\* An answer or an announcement is handled.
LEMMA MergeKeeps ==
  ASSUME CenterInv, Merge
  PROVE  CenterInv'
<1> DEFINE new == Head(inbox)
           v == new.version
           merged == Merged(new)
           g == socket.game
<1>1. /\ inbox # <<>> /\ inbox' = Tail(inbox)
      /\ UNCHANGED <<row, rescheduling, rewound, unsent, screen, socket, strayed, missed>>
  BY DEF Merge, serverVars
<1>2. CenterTypeOK /\ inbox \in Seq(Versioned)
  BY DEF CenterInv, CenterTypeOK
<1>3. /\ new = inbox[1] /\ 1 \in DOMAIN inbox /\ new \in Versioned /\ new # Nothing
      /\ v \in Nat /\ v # 0
      /\ inbox' \in Seq(Versioned)
      /\ \A i \in DOMAIN inbox' : i + 1 \in DOMAIN inbox /\ inbox'[i] = inbox[i + 1]
      /\ \A i \in DOMAIN inbox : i # 1 => i - 1 \in DOMAIN inbox' /\ inbox'[i - 1] = inbox[i]
  <2>1. new = inbox[1] /\ 1 \in DOMAIN inbox /\ new \in Versioned
    BY <1>1, <1>2, HeadTailProperties, LenProperties
  <2>2. /\ inbox' \in Seq(Versioned)
        /\ \A i \in DOMAIN inbox' : i + 1 \in DOMAIN inbox /\ inbox'[i] = inbox[i + 1]
        /\ \A i \in DOMAIN inbox : i # 1 => i - 1 \in DOMAIN inbox' /\ inbox'[i - 1] = inbox[i]
    BY <1>1, <1>2, HeadTailProperties, LenProperties
  <2> QED BY <2>1, <2>2, KnownStates
<1>4. merged \in Versioned /\ merged.version = v /\ merged.play = new.play /\ merged # Nothing
  BY <1>2, <1>3, MergedIsNew, KnownStates
<1> HIDE DEF new, merged
<1>5. g \in Games /\ socket.phase = "room" /\ Now \in Nat /\ Now' = Now
  <2>1. socket.phase = "room" /\ g \in Games
    BY <1>1 DEF CenterInv, SocketInv
  <2> QED BY <1>1, <1>2, <2>1, CenterNumbers DEF Now
<1>6. g \notin rewound => v <= Now
  <2>1. new \in Copies(g)
    BY <1>3 DEF Copies
  <2> QED BY <1>5, <2>1 DEF CenterInv, CopiesInv, Now
<1>7. ScreenInv' /\ SocketInv'
  BY <1>1, <1>5 DEF CenterInv, ScreenInv, SocketInv
<1>8. CASE ~NotOlder(new)
  <2>1. /\ UNCHANGED <<current, providers, seen>> /\ current.game = g
        /\ ~(v >= current.state.version)
    BY <1>8 DEF Merge, NotOlder, new
  <2>2. CenterTypeOK' /\ missed' \in BOOLEAN /\ strayed' \in BOOLEAN
    BY <1>1, <1>3, <2>1 DEF CenterInv, CenterTypeOK
  <2>3. CopiesInv'
    <3>1. \A h \in Games : Copies(h)' \subseteq Copies(h)
      BY <1>1, <1>3, <2>1 DEF Copies
    <3> QED BY <1>1, <2>1, <3>1, CopiesKept DEF CenterInv
  <2>4. Answered' /\ Done' /\ Ahead'
    BY <1>1, <2>1 DEF CenterInv, Answered, Done, Ahead, Key, Shown
  <2>5. g \notin rewound => v # Now
    <3>1. g \notin rewound => current.state.version <= Now
      <4>1. current.state \in Copies(g)
        BY <2>1 DEF Copies
      <4> QED BY <1>5, <4>1 DEF CenterInv, CopiesInv, Now
    <3>2. current.state.version \in Nat
      BY <1>2, CenterNumbers
    <3> QED BY <1>3, <1>5, <2>1, <3>1, <3>2
  <2>6. g \notin rewound /\ Heard => Heard'
    <3>1. ASSUME NEW i \in DOMAIN inbox, inbox[i].version = Now, g \notin rewound
          PROVE  Heard'
      <4>1. i # 1
        BY <1>3, <2>5, <3>1
      <4> QED BY <1>3, <1>5, <3>1, <4>1 DEF Heard
    <3>2. CASE ~ \E i \in DOMAIN inbox : inbox[i].version = Now
      BY <1>1, <1>5, <2>1, <3>2 DEF Heard
    <3> QED BY <3>1, <3>2
  <2>7. Joined'
    BY <1>1, <1>5, <2>6 DEF CenterInv, Joined, ToCome
  <2> QED BY <1>7, <2>2, <2>3, <2>4, <2>7 DEF CenterInv
<1>9. CASE NotOlder(new)
  <2>1. /\ current' = [game |-> g, state |-> merged]
        /\ providers' = [k \in DOMAIN providers |-> IF k[1] = g THEN merged ELSE providers[k]]
        /\ seen' = [seen EXCEPT ![g] =
               IF screen.phase = "done" /\ screen.game = g /\ v > @.version THEN merged ELSE @]
    BY <1>9 DEF Merge, new, merged
  <2>2. /\ DOMAIN providers' = DOMAIN providers
        /\ \A k \in DOMAIN providers : providers'[k] = IF k[1] = g THEN merged ELSE providers[k]
    BY <2>1
  <2>3. /\ seen' \in [Games -> Known]
        /\ \A h \in Games : h # g => seen'[h] = seen[h]
        /\ seen'[g] \in {merged, seen[g]}
        /\ screen.phase # "done" => seen'[g] = seen[g]
        /\ screen.phase = "done" /\ screen.game = g =>
             seen'[g] = IF v > seen[g].version THEN merged ELSE seen[g]
    <3>1. seen \in [Games -> Known] /\ merged \in Known
      BY <1>2, <1>4 DEF CenterTypeOK, Known
    <3>2. seen'[g] = IF screen.phase = "done" /\ screen.game = g /\ v > seen[g].version
                     THEN merged ELSE seen[g]
      BY <1>5, <2>1, <3>1
    <3>3. \A h \in Games : h # g => seen'[h] = seen[h]
      BY <2>1, <3>1
    <3>4. seen' \in [Games -> Known]
      BY <1>5, <2>1, <3>1
    <3> QED BY <3>2, <3>3, <3>4
  <2>4. current'.game = g /\ current'.state = merged /\ current'.state.version = v
    BY <1>4, <2>1
  <2>5. CenterTypeOK' /\ missed' \in BOOLEAN /\ strayed' \in BOOLEAN
    <3>1. \A k \in DOMAIN providers' : providers'[k] \in Known
      BY <1>2, <1>4, <2>2, CenterNumbers DEF Known
    <3>2. current' \in [game : Games \cup {NoGame}, state : Known]
      BY <1>4, <1>5, <2>1 DEF Known
    <3> QED BY <1>1, <1>3, <2>2, <2>3, <3>1, <3>2 DEF CenterInv, CenterTypeOK, Known
  <2>6. CopiesInv'
    <3>1. ASSUME NEW h \in Games, NEW a \in Copies(h)'
          PROVE  \E b \in Copies(h) : a.version = b.version /\ a.play = b.play
      <4>1. a \in Copies(h) \/ (h = g /\ a = merged)
        BY <1>1, <1>3, <2>2, <2>3, <2>4, <3>1 DEF Copies
      <4>2. h = g => new \in Copies(h)
        BY <1>3 DEF Copies
      <4> QED BY <1>4, <4>1, <4>2
    <3> QED BY <1>1, <2>2, <3>1, CopiesKept DEF CenterInv
  <2>7. ~strayed => v >= current.state.version /\ current.game = g
    BY <1>9 DEF NotOlder, CenterInv, Ahead
  <2>8. Answered'
    <3>1. SUFFICES ASSUME screen.phase = "answered" PROVE Answered'
      BY <1>1 DEF Answered
    <3>2. screen.game \in Games /\ seen'[screen.game] = seen[screen.game]
      BY <2>3, <3>1 DEF CenterInv, ScreenInv
    <3>3. ASSUME NEW k \in DOMAIN providers, k[1] = screen.game, ~strayed, g # screen.game
          PROVE  providers'[k] = providers[k] /\ current.game # screen.game
      BY <2>2, <2>7, <3>3
    <3> QED BY <1>1, <2>2, <2>4, <3>1, <3>2, <3>3 DEF CenterInv, Answered
  <2>9. Ahead'
    <3>1. SUFFICES ASSUME ~strayed PROVE Ahead'
      BY <1>1 DEF Ahead
    <3>2. ASSUME NEW k \in DOMAIN providers, k[1] \notin rewound
          PROVE  /\ providers'[k] # Nothing => providers'[k].version >= k[2]
                 /\ k[1] = g => k[2] <= v /\ providers'[k].version <= v
      <4>1. /\ providers[k] # Nothing => providers[k].version >= k[2]
            /\ k[1] = g => k[2] <= current.state.version
        BY <2>7, <3>1, <3>2 DEF CenterInv, Ahead
      <4>2. k[2] \in Nat /\ current.state.version \in Nat
        BY <1>2, CenterNumbers
      <4> QED BY <1>3, <1>4, <2>2, <2>7, <3>1, <4>1, <4>2
    <3> QED BY <1>1, <2>2, <2>4, <3>2 DEF Ahead
  <2>10. Done'
    <3>1. SUFFICES ASSUME screen.phase = "done" PROVE Done'
      BY <1>1 DEF Done
    <3>2. /\ Key' = Key /\ Key \in DOMAIN providers /\ Key[1] = screen.game
          /\ ~strayed => g = screen.game
      BY <1>1, <3>1 DEF CenterInv, Done, Key
    <3>3. ASSUME ~strayed, screen.game \notin rewound
          PROVE  Shown'.version = v /\ seen'[screen.game].version <= v
      <4>1. g = screen.game /\ current.state.version >= seen[g].version
        BY <3>1, <3>3 DEF CenterInv, Done
      <4>2. v >= current.state.version /\ current.state.version \in Nat /\ seen[g].version \in Nat
        BY <1>2, <1>5, <2>7, <3>3, CenterNumbers
      <4>3. seen'[g].version <= v
        BY <1>3, <1>4, <2>3, <4>1, <4>2
      <4>4. Shown' = merged
        BY <1>4, <2>2, <3>2, <4>1 DEF Shown
      <4> QED BY <1>4, <4>1, <4>3, <4>4
    <3>4. /\ Key' \in DOMAIN providers' /\ ~strayed' => socket'.game = screen'.game
      BY <1>1, <2>2, <3>2
    <3>5. ~strayed' /\ screen'.game \notin rewound' =>
            /\ current'.state.version >= seen'[screen'.game].version
            /\ Shown'.version >= seen'[screen'.game].version
      BY <1>1, <2>4, <3>3
    <3> QED BY <2>2, <1>1, <3>2, <3>4, <3>5 DEF Done
  <2>11. ~strayed /\ g \notin rewound /\ Heard => Heard'
    <3>1. CASE v = Now
      BY <1>1, <1>4, <1>5, <2>2, <2>4, <3>1 DEF Heard
    <3>2. ASSUME v # Now, ~strayed, g \notin rewound, Heard
          PROVE  Heard'
      <4>1. current.state.version # Now
        <5>1. v \in Nat /\ current.state.version \in Nat /\ v <= Now /\ v >= current.state.version
          BY <1>2, <1>3, <1>6, <2>7, <3>2, CenterNumbers
        <5> QED BY <1>5, <3>2, <5>1
      <4>2. PICK i \in DOMAIN inbox : inbox[i].version = Now
        BY <3>2, <4>1 DEF Heard
      <4>3. i # 1
        BY <1>3, <3>2, <4>2
      <4> QED BY <1>3, <1>5, <4>2, <4>3 DEF Heard
    <3> QED BY <3>1, <3>2
  <2>12. Joined'
    BY <1>1, <1>5, <2>11 DEF CenterInv, Joined, ToCome
  <2> QED BY <1>7, <2>5, <2>6, <2>8, <2>9, <2>10, <2>12 DEF CenterInv
<1> QED BY <1>8, <1>9

\* A screen shows its snapshot, or what the provider of its game and version holds.
LEMMA ShowKeeps ==
  ASSUME CenterInv, Show
  PROVE  CenterInv'
<1> DEFINE g == screen.game
           b == screen.base
           shown == IF Key \in DOMAIN providers THEN Shown ELSE b
<1>0. CenterTypeOK
  BY DEF CenterInv
<1>1. /\ screen.phase = "answered" /\ g \in Games /\ b \in Versioned
      /\ b.version \in Nat /\ b.version \in 1..MaxVersion
      /\ UNCHANGED <<row, rescheduling, rewound, unsent, missed>>
  BY KnownStates DEF Show, ScreenInv, CenterInv, serverVars, Versioned
<1>2. /\ screen' = [game |-> g, phase |-> "done", base |-> b]
      /\ screen'.game = g /\ screen'.phase = "done" /\ screen'.base = b
      /\ screen' \in [game : Games \cup {NoGame}, base : Versioned \cup {Nothing},
                      phase : {"closed", "loading", "answered", "failed", "done"}]
  <2>1. screen' = [game |-> g, phase |-> "done", base |-> b]
    BY DEF Show, CenterInv, CenterTypeOK
  <2> QED BY <1>1, <2>1
<1>3. Key = <<g, b.version>> /\ Key' = Key /\ Key \in Games \X (1..MaxVersion)
      /\ Key[1] = g /\ Key[2] = b.version
  BY <1>1, <1>2 DEF Key
<1>4. /\ current'.game = g /\ current'.state \in Known /\ current' = [game |-> g, state |-> current'.state]
      /\ current'.state.version \in Nat /\ current'.state.version >= b.version
      /\ current.game = g => /\ current'.state.version >= current.state.version
                             /\ current'.state \in {b, current.state}
      /\ current.game # g => current'.state = b
  <2>1. CASE current.game # g \/ b.version >= current.state.version
    <3>1. current' = [game |-> g, state |-> b]
      BY <2>1 DEF Show, Seeded
    <3>2. b \in Known
      BY <1>1 DEF Known
    <3> QED BY <1>1, <2>1, <3>1, <3>2
  <2>2. CASE ~(current.game # g \/ b.version >= current.state.version)
    <3>1. current' = current /\ current.game = g
      BY <2>2 DEF Show, Seeded
    <3>2. current.state \in Known /\ current.state.version \in Nat
      BY <1>0, CenterNumbers
    <3>3. current = [game |-> current.game, state |-> current.state]
      BY <1>0 DEF CenterTypeOK
    <3> QED BY <1>1, <2>2, <3>1, <3>2, <3>3
  <2> QED BY <2>1, <2>2
<1>5. shown \in Known /\ shown.version \in Nat /\ shown \in Copies(g)
      /\ (Key \notin DOMAIN providers => shown = b)
  <2>1. b \in Copies(g) /\ b \in Known
    BY <1>1 DEF Copies, Known
  <2>2. Key \in DOMAIN providers => Shown \in Copies(g) /\ Shown \in Known
    BY <1>0, <1>3, <2>1, CenterNumbers DEF Shown, Copies
  <2> QED BY <2>1, <2>2, KnownStates
<1>6. seen' = [seen EXCEPT ![g] = IF shown.version > @.version THEN shown ELSE @]
  BY DEF Show
<1>7. g \notin rewound => seen[g].version <= b.version
  BY <1>1 DEF CenterInv, Answered
<1> HIDE DEF shown
<1>8. /\ seen' \in [Games -> Known]
      /\ seen'[g] = IF shown.version > seen[g].version THEN shown ELSE seen[g]
      /\ \A h \in Games : h # g => seen'[h] = seen[h]
      /\ seen[g].version \in Nat
  <2>1. seen \in [Games -> Known]
    BY <1>0 DEF CenterTypeOK, Known
  <2> QED BY <1>0, <1>1, <1>5, <1>6, <2>1, CenterNumbers
<1> HIDE DEF g, b
<1>9. ScreenInv' /\ Answered'
  BY <1>1, <1>2 DEF ScreenInv, Answered
<1>10. current' \in [game : Games \cup {NoGame}, state : Known]
  BY <1>1, <1>4
<1>11. CASE Key \in DOMAIN providers
  <2>1. /\ UNCHANGED <<providers, socket, inbox>>
        /\ strayed' = (strayed \/ socket.game # g)
    BY <1>11 DEF Show, g
  <2>2. CenterTypeOK' /\ missed' \in BOOLEAN /\ strayed' \in BOOLEAN
    BY <1>1, <1>2, <1>8, <1>10, <2>1 DEF CenterInv, CenterTypeOK, Known
  <2>3. SocketInv'
    BY <2>1 DEF CenterInv, SocketInv
  <2>4. CopiesInv'
    <3>1. ASSUME NEW h \in Games PROVE Copies(h)' \subseteq Copies(h)
      BY <1>1, <1>2, <1>4, <1>5, <1>8, <2>1 DEF Copies, g, b
    <3> QED BY <1>1, <2>1, <3>1, CopiesKept DEF CenterInv
  <2>5. ASSUME ~strayed'
        PROVE  /\ ~strayed /\ socket.game = g /\ current.game = g
               /\ current'.state.version >= current.state.version
    BY <1>4, <2>1, <2>5 DEF CenterInv, Ahead
  <2>6. shown = Shown /\ Shown' = Shown
    BY <1>2, <1>3, <1>11, <2>1 DEF shown, Shown, b
  <2>7. Done'
    <3>1. ASSUME ~strayed', g \notin rewound
          PROVE  Shown.version >= seen'[g].version /\ current'.state.version >= seen'[g].version
      <4>1. /\ providers[Key] # Nothing => providers[Key].version >= b.version
            /\ providers[Key].version <= current.state.version
        BY <1>3, <1>11, <2>5, <3>1 DEF CenterInv, Ahead
      <4>2. current.state.version \in Nat /\ providers[Key].version \in Nat
        BY <1>0, <1>11, CenterNumbers
      <4>3. Shown.version >= b.version /\ Shown.version <= current'.state.version
        <5>1. CASE providers[Key] # Nothing
          <6>1. Shown = providers[Key]
            BY <5>1 DEF Shown
          <6> QED BY <1>1, <1>4, <2>5, <3>1, <4>1, <4>2, <5>1, <6>1
        <5>2. CASE providers[Key] = Nothing
          <6>1. Shown = b
            BY <5>2 DEF Shown, b
          <6> QED BY <1>1, <1>4, <6>1
        <5> QED BY <5>1, <5>2
      <4> QED BY <1>1, <1>4, <1>5, <1>7, <1>8, <2>6, <3>1, <4>3
    <3> QED BY <1>1, <1>2, <1>3, <1>11, <2>1, <2>5, <2>6, <3>1 DEF Done
  <2>8. Ahead'
    <3>1. SUFFICES ASSUME ~strayed' PROVE Ahead'
      BY DEF Ahead
    <3>2. ASSUME NEW k \in DOMAIN providers, k[1] \notin rewound
          PROVE  /\ providers[k] # Nothing => providers[k].version >= k[2]
                 /\ k[1] = g => /\ k[2] <= current'.state.version
                                /\ providers[k].version <= current'.state.version
      <4>1. /\ providers[k] # Nothing => providers[k].version >= k[2]
            /\ k[1] = g => k[2] <= current.state.version /\ providers[k].version <= current.state.version
        BY <2>5, <3>1, <3>2 DEF CenterInv, Ahead
      <4>2. k[2] \in Nat /\ providers[k].version \in Nat /\ current.state.version \in Nat
        BY <1>0, CenterNumbers
      <4> QED BY <1>4, <2>5, <3>1, <4>1, <4>2
    <3> QED BY <1>1, <1>4, <2>1, <2>5, <3>1, <3>2 DEF Ahead
  <2>9. Joined'
    <3>1. SUFFICES ASSUME socket.phase \in {"read", "room"}, socket.game \notin rewound
                   PROVE  Joined'
      BY <1>1, <2>1 DEF Joined
    <3>2. Now' = Now /\ (ToCome' <=> ToCome)
      BY <1>1, <2>1 DEF Now, ToCome
    <3>3. ASSUME ~strayed', Heard
          PROVE  Heard'
      <4>1. CASE \E i \in DOMAIN inbox : inbox[i].version = Now
        BY <2>1, <3>2, <4>1 DEF Heard
      <4>2. CASE current.state.version = Now
        <5>1. b \in Copies(g) /\ socket.game = g /\ current.game = g
          BY <2>5, <3>3 DEF Copies, b, g
        <5>2. current'.state \in Copies(g)
          BY <1>4, <5>1 DEF Copies
        <5>3. current'.state.version <= Now
          BY <1>1, <3>1, <5>1, <5>2 DEF CenterInv, CopiesInv, Now
        <5>4. current'.state.version = Now
          <6>1. current'.state.version >= Now /\ Now \in Nat
            BY <1>0, <2>5, <3>3, <4>2, CenterNumbers
          <6> QED BY <1>4, <5>3, <6>1
        <5> QED BY <2>1, <3>2, <3>3, <4>2, <5>4 DEF Heard
      <4> QED BY <3>3, <4>1, <4>2 DEF Heard
    <3>4. ~strayed' => ~strayed
      BY <2>5
    <3> QED BY <1>1, <2>1, <3>2, <3>3, <3>4 DEF Joined, CenterInv
  <2> QED BY <1>9, <2>2, <2>3, <2>4, <2>7, <2>8, <2>9 DEF CenterInv
<1>12. CASE Key \notin DOMAIN providers
  <2>1. /\ providers' = [k \in DOMAIN providers \cup {Key} |->
                            IF k = Key THEN Nothing ELSE providers[k]]
        /\ socket' = [game |-> g, phase |-> "connecting", read |-> Nothing]
        /\ inbox' = <<>> /\ UNCHANGED strayed
    BY <1>12 DEF Show, g
  <2>2. /\ DOMAIN providers' = DOMAIN providers \cup {Key} /\ providers'[Key] = Nothing
        /\ \A k \in DOMAIN providers : providers'[k] = providers[k]
    BY <1>12, <2>1
  <2>3. /\ socket' \in [game : Games \cup {NoGame}, read : Known,
                        phase : {"closed", "connecting", "read", "room"}]
        /\ socket'.game = g /\ socket'.phase = "connecting" /\ socket'.read = Nothing
    BY <1>1, <2>1 DEF Known
  <2>4. CenterTypeOK' /\ missed' \in BOOLEAN /\ strayed' \in BOOLEAN
    <3>1. DOMAIN providers' \subseteq Games \X (1..MaxVersion)
      BY <1>0, <1>3, <2>2 DEF CenterTypeOK
    <3>2. \A k \in DOMAIN providers' : providers'[k] \in Known
      BY <1>0, <2>2, CenterNumbers DEF Known
    <3>3. <<>> \in Seq(Versioned)
      OBVIOUS
    <3> QED BY <1>1, <1>2, <1>8, <1>10, <2>1, <2>3, <3>1, <3>2, <3>3 DEF CenterInv, CenterTypeOK, Known
  <2>5. CopiesInv'
    <3>1. ASSUME NEW h \in Games PROVE Copies(h)' \subseteq Copies(h)
      <4>1. {providers'[k] : k \in {j \in DOMAIN providers' : j[1] = h}} \subseteq
              {providers[k] : k \in {j \in DOMAIN providers : j[1] = h}} \cup {Nothing}
        BY <2>2
      <4>2. seen'[h] \in Copies(h)
        BY <1>5, <1>8 DEF Copies
      <4>3. current'.game = h => current'.state \in Copies(h)
        BY <1>4 DEF Copies, g, b
      <4>4. h = g => b \in Copies(h)
        BY DEF Copies, g, b
      <4>5. <<>> = inbox' /\ DOMAIN inbox' = {}
        BY <2>1
      <4> QED BY <1>1, <1>2, <2>3, <4>1, <4>2, <4>3, <4>4, <4>5 DEF Copies
    <3>2. g \notin rewound => b.version <= row[g].version
      <4>1. b \in Copies(g)
        BY DEF Copies, b, g
      <4> QED BY <1>1, <4>1 DEF CenterInv, CopiesInv
    <3>3. \A k \in DOMAIN providers' : k[1] \in Games \ rewound =>
            k \in DOMAIN providers \/ k[2] <= row[k[1]].version
      BY <1>3, <2>2, <3>2
    <3> QED BY <1>1, <3>1, <3>3, CopiesKept DEF CenterInv
  <2>6. SocketInv'
    BY <1>1, <2>1, <2>3 DEF SocketInv
  <2>7. Shown' = b /\ shown = b
    BY <1>2, <1>3, <1>12, <2>2 DEF Shown, shown, b
  <2>8. Done'
    <3>1. g \notin rewound => seen'[g].version <= b.version
      BY <1>1, <1>7, <1>8, <2>7
    <3>2. g \notin rewound => current'.state.version >= seen'[g].version /\ b.version >= seen'[g].version
      BY <1>1, <1>4, <1>5, <1>8, <3>1
    <3> QED BY <1>1, <1>2, <1>3, <2>2, <2>3, <2>7, <3>2 DEF Done
  <2>9. Ahead'
    <3>1. SUFFICES ASSUME ~strayed PROVE Ahead'
      BY <2>1 DEF Ahead
    <3>2. ASSUME NEW k \in DOMAIN providers, k[1] \notin rewound
          PROVE  /\ providers[k] # Nothing => providers[k].version >= k[2]
                 /\ k[1] = g => /\ k[2] <= current'.state.version
                                /\ providers[k].version <= current'.state.version
      <4>1. providers[k] # Nothing => providers[k].version >= k[2]
        BY <3>1, <3>2 DEF CenterInv, Ahead
      <4>2. k[2] \in Nat /\ providers[k].version \in Nat /\ current.state.version \in Nat
        BY <1>0, CenterNumbers
      <4>3. CASE current.game = g
        <5>1. k[1] = g => /\ k[2] <= current.state.version
                          /\ providers[k].version <= current.state.version
          BY <3>1, <3>2, <4>3 DEF CenterInv, Ahead
        <5> QED BY <1>4, <4>1, <4>2, <4>3, <5>1
      <4>4. CASE current.game # g
        <5>1. k[1] = g => k[2] <= b.version /\ providers[k].version <= b.version
          BY <1>1, <3>1, <3>2, <4>4 DEF CenterInv, Answered, g, b
        <5> QED BY <1>1, <1>4, <4>1, <4>2, <4>4, <5>1
      <4> QED BY <4>3, <4>4
    <3>3. providers'[Key] = Nothing /\ Key[2] <= current'.state.version
          /\ providers'[Key].version <= current'.state.version
      BY <1>1, <1>3, <1>4, <2>2, KnownStates
    <3>4. \A k \in DOMAIN providers' : k[1] \notin rewound' =>
            /\ providers'[k] # Nothing => providers'[k].version >= k[2]
            /\ k[1] = g => /\ k[2] <= current'.state.version
                           /\ providers'[k].version <= current'.state.version
      BY <1>1, <2>2, <3>2, <3>3
    <3> QED BY <1>4, <2>3, <3>4 DEF Ahead
  <2>10. Joined'
    BY <2>3 DEF Joined
  <2> QED BY <1>9, <2>4, <2>5, <2>6, <2>8, <2>9, <2>10 DEF CenterInv
<1> QED BY <1>11, <1>12

\* One step of the match centre, or of live scoring in front of it.
CenterStep ==
  \/ CenterNext
  \/ \E g \in Games : Committed(g)
  \/ UNCHANGED <<serverVars, appVars, missed>>

LEMMA CenterInductive ==
  ASSUME CenterInv, CenterStep
  PROVE  CenterInv'
<1>1. ASSUME NEW g \in Games, Increment(g), UNCHANGED appVars,
             \/ unsent' = unsent \cup {[game |-> g, state |-> row'[g]]} /\ UNCHANGED missed
             \/ missed' = (missed \/ Waiting(g)) /\ UNCHANGED unsent
      PROVE  CenterInv'
  <2> DEFINE new == [version |-> row[g].version + 1, play |-> row[g].play + 1,
                     schedule |-> row[g].schedule]
  <2>1. row[g] \in Versioned /\ row \in [Games -> Versioned]
    BY DEF CenterInv, CenterTypeOK
  <2>2. row[g] = [version |-> row[g].version, play |-> row[g].play, schedule |-> row[g].schedule]
        /\ row[g].version \in Nat /\ row[g].play \in Nat /\ row[g].schedule \in Nat
        /\ row[g].version \in 1..MaxVersion /\ row[g].version < MaxVersion
    BY <1>1, <2>1 DEF Versioned, Game, Increment
  <2>3. new \in Versioned /\ new.version = row[g].version + 1 /\ new.play >= row[g].play
    BY <2>2, MatchCenterAssumption DEF Versioned, Game
  <2>4. row' = [row EXCEPT ![g] = new] /\ UNCHANGED <<rescheduling, rewound>>
    BY <1>1, <2>1, <2>2 DEF Increment
  <2>5. row'[g] = new
    BY <2>1, <2>4
  <2>6. \A r \in rescheduling' : r.game \in Games /\ r.read \in 1..(MaxVersion - 1)
    BY <2>4 DEF CenterInv, CenterTypeOK
  <2> HIDE DEF new
  <2> QED BY <1>1, <2>3, <2>4, <2>5, <2>6, MoveKeeps
<1>2. ASSUME NEW g \in Games, Committed(g) \/ SetStatus(g)
      PROVE  CenterInv'
  BY <1>1, <1>2 DEF Committed, SetStatus
<1>3. ASSUME NEW r \in rescheduling, RescheduleCommit(r)
      PROVE  CenterInv'
  <2> DEFINE g == r.game
             new == [version |-> r.read + 1, play |-> row[g].play, schedule |-> row[g].schedule + 1]
  <2>1. /\ g \in Games /\ r.read \in 1..(MaxVersion - 1)
        /\ row[g] \in Versioned /\ row \in [Games -> Versioned]
    BY DEF CenterInv, CenterTypeOK
  <2>2. row[g] = [version |-> row[g].version, play |-> row[g].play, schedule |-> row[g].schedule]
        /\ row[g].version \in Nat /\ row[g].play \in Nat /\ row[g].schedule \in Nat
    BY <2>1 DEF Versioned, Game
  <2>3. new \in Versioned /\ new.version = r.read + 1 /\ new.play = row[g].play
    BY <2>1, <2>2, MatchCenterAssumption DEF Versioned, Game
  <2>4. /\ row' = [row EXCEPT ![g] = new] /\ rescheduling' \subseteq rescheduling
        /\ rewound' = IF row[g].version = r.read THEN rewound ELSE rewound \cup {g}
        /\ missed' = (missed \/ Waiting(g)) /\ UNCHANGED <<unsent, appVars>>
    BY <1>3, <2>1, <2>2 DEF RescheduleCommit
  <2>5. \A x \in rescheduling' : x.game \in Games /\ x.read \in 1..(MaxVersion - 1)
    BY <2>4 DEF CenterInv, CenterTypeOK
  <2>6. \/ /\ new.version = row[g].version + 1 /\ new.play >= row[g].play
           /\ UNCHANGED rewound
        \/ rewound' = rewound \cup {g}
    BY <2>2, <2>3, <2>4
  <2> HIDE DEF new, g
  <2> QED BY <2>1, <2>3, <2>4, <2>5, <2>6, MoveKeeps
<1>4. ASSUME NEW g \in Games, Open(g)
      PROVE  CenterInv'
  BY <1>4, FetchKeeps DEF Open
<1>5. CASE Refresh
  BY <1>5, FetchKeeps DEF Refresh, CenterInv, ScreenInv
<1>6. CASE UNCHANGED <<serverVars, appVars, missed>>
  <2>1. \A g \in Games : Copies(g)' = Copies(g)
    BY <1>6 DEF serverVars, appVars, Copies
  <2>2. CopiesInv'
    BY <1>6, <2>1, CopiesKept DEF serverVars, appVars, CenterInv
  <2>3. CenterTypeOK' /\ missed' \in BOOLEAN /\ strayed' \in BOOLEAN
    BY <1>6 DEF serverVars, appVars, CenterInv, CenterTypeOK
  <2>4. ScreenInv' /\ SocketInv' /\ Answered' /\ Done' /\ Ahead' /\ Joined'
    BY <1>6 DEF serverVars, appVars, CenterInv, ScreenInv, SocketInv, Answered, Done, Ahead, Joined,
                Key, Shown, Heard, ToCome, Now
  <2> QED BY <2>2, <2>3, <2>4 DEF CenterInv
<1> QED BY <1>2, <1>3, <1>4, <1>5, <1>6, AnnounceKeeps, RescheduleReadKeeps, AnswerKeeps,
           ConnectionKeeps, MergeKeeps, ShowKeeps DEF CenterStep, CenterNext, Deliver

LEMMA CenterSound ==
  ASSUME CenterInv
  PROVE  CenterTypeOK /\ ShownNeverFalls /\ InRoomUpToDate
<1>1. CenterTypeOK
  BY DEF CenterInv
<1>2. ASSUME screen.phase = "done"
      PROVE  /\ screen.game \in Games /\ Key \in DOMAIN providers /\ Key[1] = screen.game
             /\ Shown \in Copies(screen.game)
  <2>1. screen.game \in Games /\ Key \in DOMAIN providers /\ Key[1] = screen.game
    BY <1>2 DEF CenterInv, ScreenInv, Done, Key
  <2> QED BY <2>1 DEF Shown, Copies
<1>3. ShownNeverFalls
  <2>1. SUFFICES ASSUME screen.phase = "done", ~strayed, screen.game \notin rewound
                 PROVE  Shown.play >= seen[screen.game].play
    BY DEF ShownNeverFalls
  <2>2. seen[screen.game] \in Copies(screen.game)
    BY DEF Copies
  <2>3. seen[screen.game].version <= Shown.version
    <3>1. Shown.version >= seen[screen.game].version
      BY <2>1 DEF CenterInv, Done
    <3>2. Shown.version \in Nat /\ seen[screen.game].version \in Nat
      BY <1>1, <1>2, <2>1, <2>2, CopiesKnown, KnownStates
    <3> QED BY <3>1, <3>2
  <2>4. seen[screen.game].play <= Shown.play
    BY <1>2, <2>1, <2>2, <2>3 DEF CenterInv, CopiesInv
  <2>5. Shown.play \in Nat /\ seen[screen.game].play \in Nat
    BY <1>1, <1>2, <2>1, <2>2, CopiesKnown, KnownStates
  <2> QED BY <2>4, <2>5
<1>4. ASSUME screen.phase = "done", socket.game = screen.game, socket.phase = "room",
             inbox = <<>>, ~missed, ~strayed, screen.game \notin rewound,
             \A u \in unsent : u.game # screen.game
      PROVE  UpToDate
  <2>1. ~ToCome
    BY <1>4 DEF ToCome
  <2>2. Heard
    BY <1>4, <2>1 DEF CenterInv, Joined
  <2>3. \A k \in DOMAIN providers : k[1] = socket.game => providers[k].version = Now
    BY <1>4, <2>2 DEF Heard
  <2>4. providers[Key].version = row[screen.game].version
    BY <1>2, <1>4, <2>3 DEF Now
  <2>5. row[screen.game].version # 0 /\ row[screen.game] \in Copies(screen.game)
    BY <1>1, <1>2, <1>4, KnownStates DEF CenterTypeOK, Copies
  <2>6. Shown.version = row[screen.game].version
    BY <2>4, <2>5, KnownStates DEF Shown
  <2>7. /\ Shown.version \in Nat /\ Shown.play \in Nat
        /\ row[screen.game].version \in Nat /\ row[screen.game].play \in Nat
    BY <1>1, <1>2, <1>4, <2>5, CopiesKnown, KnownStates
  <2>8. Shown.play <= row[screen.game].play /\ row[screen.game].play <= Shown.play
    BY <1>2, <1>4, <2>5, <2>6, <2>7 DEF CenterInv, CopiesInv
  <2> QED BY <2>6, <2>7, <2>8 DEF UpToDate
<1> QED BY <1>1, <1>3, <1>4 DEF InRoomUpToDate
-----------------------------------------------------------------------------
(***************************************************************************)
(* The scorekeepers' pages.                                                *)
(***************************************************************************)

HIDE MatchCenterAssumption
USE ScoringConsoleAssumption

\* A state that a page has read: it is not ahead of the game, and it is the whole
\* ledger if it shows the game's present version, unless a version has been used twice.
Behind(v, n) ==
  /\ v \in Nat /\ n \in Nat
  /\ Scored \notin rewound =>
       /\ v <= row[Scored].version /\ n <= Len(ledger)
       /\ v = row[Scored].version => n = Len(ledger)

State == [version : Nat, length : Nat]
Page == [shown : State, fetched : Seq(State), lease : Nat, pending : SUBSET Kinds]

TypeInv == row \in [Games -> Versioned] /\ lease \in Nat /\ pages \in [Consoles -> Page]

PagesInv ==
  \A c \in Consoles :
    /\ Behind(pages[c].shown.version, pages[c].shown.length)
    /\ pages[c].fetched # <<>> =>
         Behind(Head(pages[c].fetched).version, Head(pages[c].fetched).length)

CommandsInv ==
  \A k \in commands : k.meant \in Nat \ {0} /\ Behind(k.expectedVersion, k.meant - 1)

Entries == {ledger[i] : i \in DOMAIN ledger}
LedgerInv ==
  /\ ledger \in Seq(Entries)
  /\ Scored \notin rewound => \A i \in DOMAIN ledger : ledger[i].meant = i

\* What makes CountedOnce inductive: entry i of the ledger was meant as entry i, because
\* a command is accepted only for the version whose whole ledger its page has shown.
IInv == TypeInv /\ PagesInv /\ CommandsInv /\ LedgerInv
-----------------------------------------------------------------------------
\* Commands other than those of live scoring change the version of a game, forwards,
\* or rewind it.
LEMMA CenterKeeps ==
  ASSUME CenterInv, CenterInv', CenterNext
  PROVE  /\ row' \in [Games -> Versioned] /\ rewound \subseteq rewound'
         /\ Scored \notin rewound' => row'[Scored].version >= row[Scored].version
<1>1. /\ row \in [Games -> Versioned] /\ row' \in [Games -> Versioned]
      /\ row[Scored].version \in Nat
  BY CenterNumbers DEF CenterInv, CenterTypeOK
<1>2. ASSUME NEW g \in Games, SetStatus(g)
      PROVE  row'[Scored].version >= row[Scored].version /\ rewound' = rewound
  <2>1. row[Scored] = [version |-> row[Scored].version, play |-> row[Scored].play,
                       schedule |-> row[Scored].schedule]
    BY <1>1 DEF Versioned, Game
  <2> QED BY <1>1, <1>2, <2>1 DEF SetStatus, Increment
<1>3. ASSUME NEW r \in rescheduling, RescheduleCommit(r)
      PROVE  /\ rewound \subseteq rewound'
             /\ Scored \notin rewound' => row'[Scored].version >= row[Scored].version
  <2>0. r.read \in Nat
    BY DEF CenterInv, CenterTypeOK
  <2>1. row[Scored] = [version |-> row[Scored].version, play |-> row[Scored].play,
                       schedule |-> row[Scored].schedule] /\ r.read \in Nat
    BY <1>1, <2>0 DEF Versioned, Game
  <2>2. CASE r.game = Scored /\ row[Scored].version # r.read
    BY <1>3, <2>2 DEF RescheduleCommit
  <2>3. CASE r.game = Scored /\ row[Scored].version = r.read
    <3>1. row'[Scored].version = r.read + 1 /\ rewound' = rewound
      BY <1>1, <1>3, <2>1, <2>3 DEF RescheduleCommit
    <3> QED BY <2>1, <2>3, <3>1
  <2>4. CASE r.game # Scored
    <3>1. row'[Scored] = row[Scored] /\ rewound \subseteq rewound'
      BY <1>1, <1>3, <2>4 DEF RescheduleCommit
    <3> QED BY <1>1, <3>1
  <2> QED BY <2>2, <2>3, <2>4
<1>4. CASE UNCHANGED <<row, rewound>>
  BY <1>1, <1>4
<1>5. ASSUME ~(\E g \in Games : SetStatus(g)), ~(\E r \in rescheduling : RescheduleCommit(r))
      PROVE  UNCHANGED <<row, rewound>>
  BY <1>5 DEF CenterNext, Deliver, SnapshotRead, Answer, Show, JoinRead, JoinRoom, Merge,
              Broadcast, SnapshotFailed, Refresh, Disconnect, Open, Fetch, StopBeforeBroadcast,
              RescheduleRead, serverVars
<1> QED BY <1>1, <1>2, <1>3, <1>4, <1>5

\* What was read stays behind when the game moves on alone.
LEMMA StaysBehind ==
  ASSUME IInv, row' \in [Games -> Versioned], rewound \subseteq rewound',
         Scored \notin rewound' => row'[Scored].version >= row[Scored].version,
         UNCHANGED <<ledger, lease, pages, commands>>
  PROVE  IInv'
<1>1. row[Scored].version \in Nat /\ row'[Scored].version \in Nat /\ Len(ledger) \in Nat
  BY LenProperties DEF IInv, TypeInv, LedgerInv, Versioned, Game
<1>2. ASSUME NEW v, NEW n, Behind(v, n)
      PROVE  Behind(v, n)'
  BY <1>1, <1>2 DEF Behind
<1>3. TypeInv' /\ LedgerInv'
  BY DEF IInv, TypeInv, LedgerInv, Entries
<1>4. PagesInv'
  BY <1>2 DEF IInv, PagesInv
<1>5. CommandsInv'
  BY <1>2 DEF IInv, CommandsInv
<1> QED BY <1>3, <1>4, <1>5 DEF IInv

\* A page may change in every way but to show what it has not read.
LEMMA PageKeeps ==
  ASSUME IInv, NEW c \in Consoles, NEW page \in Page, pages' = [pages EXCEPT ![c] = page],
         Behind(page.shown.version, page.shown.length),
         page.fetched # <<>> => Behind(Head(page.fetched).version, Head(page.fetched).length),
         lease' \in Nat, UNCHANGED <<row, rewound, ledger>>,
         \A k \in commands' \ commands :
           k.meant \in Nat \ {0} /\ Behind(k.expectedVersion, k.meant - 1)
  PROVE  IInv'
<1>1. ASSUME NEW v, NEW n, Behind(v, n)
      PROVE  Behind(v, n)'
  BY <1>1 DEF Behind
<1>2. TypeInv' /\ LedgerInv'
  BY DEF IInv, TypeInv, LedgerInv, Entries
<1>3. PagesInv'
  <2>1. \A d \in Consoles : pages'[d] = IF d = c THEN page ELSE pages[d]
    BY DEF IInv, TypeInv
  <2> QED BY <1>1, <2>1 DEF IInv, PagesInv
<1>4. CommandsInv'
  BY <1>1 DEF IInv, CommandsInv
<1> QED BY <1>2, <1>3, <1>4 DEF IInv

\* An accepted command is recorded as what it was meant to be.
LEMMA ArriveKeeps ==
  ASSUME CenterInv', IInv, NEW k \in commands, Arrive(k)
  PROVE  IInv'
<1>1. CASE ~Acceptable(k) /\ UNCHANGED <<centerVars, ledger>>
  <2>1. UNCHANGED <<row, rewound, ledger, lease, pages>> /\ commands' \subseteq commands
    BY <1>1 DEF Arrive, centerVars, serverVars
  <2>2. TypeInv' /\ LedgerInv' /\ PagesInv' /\ CommandsInv'
    BY <2>1 DEF IInv, TypeInv, LedgerInv, PagesInv, CommandsInv, Behind, Entries
  <2> QED BY <2>2 DEF IInv
<1>2. CASE Acceptable(k) /\ Committed(Scored)
           /\ ledger' = Append(ledger, [key |-> k.key, kind |-> k.kind, target |-> k.target,
                                        meant |-> k.meant])
  <2> DEFINE n == Len(ledger)
             entry == [key |-> k.key, kind |-> k.kind, target |-> k.target, meant |-> k.meant]
             S == Entries \cup {entry}
  <2>1. n \in Nat /\ DOMAIN ledger = 1..n /\ ledger \in Seq(S)
    BY LenProperties DEF IInv, LedgerInv
  <2>2. /\ ledger' \in Seq(S) /\ Len(ledger') = n + 1 /\ DOMAIN ledger' = 1..(n + 1)
        /\ ledger'[n + 1] = entry /\ \A i \in 1..n : ledger'[i] = ledger[i]
    <3> HIDE DEF S, entry
    <3>1. entry \in S
      BY DEF S
    <3>2. ledger' = Append(ledger, entry)
      BY <1>2 DEF entry
    <3> QED BY <2>1, <3>1, <3>2, AppendProperties, LenProperties
  <2>3. Scored \notin rewound => entry.meant = n + 1
    <3>1. Scored \notin rewound => k.meant = n + 1
      BY <1>2 DEF Acceptable, IInv, CommandsInv, Behind
    <3> QED BY <3>1
  <2>4. row' \in [Games -> Versioned]
    BY DEF CenterInv, CenterTypeOK
  <2>5. /\ row[Scored].version \in Nat /\ row'[Scored].version = row[Scored].version + 1
        /\ UNCHANGED rewound
    <3>1. row[Scored] = [version |-> row[Scored].version, play |-> row[Scored].play,
                         schedule |-> row[Scored].schedule] /\ row[Scored].version \in Nat
      BY DEF IInv, TypeInv, Versioned, Game
    <3> QED BY <1>2, <3>1 DEF Committed, Increment, IInv, TypeInv
  <2> HIDE DEF n, entry
  <2>7. ASSUME NEW v, NEW m, Behind(v, m)
        PROVE  Behind(v, m)'
    <3>1. v \in Nat /\ m \in Nat
      BY <2>7 DEF Behind
    <3>2. Scored \notin rewound =>
            /\ v <= row'[Scored].version /\ m <= Len(ledger')
            /\ v # row'[Scored].version
      <4>1. Len(ledger) \in Nat /\ Len(ledger') = Len(ledger) + 1
        BY <2>1, <2>2 DEF n
      <4>2. Scored \notin rewound => v <= row[Scored].version /\ m <= Len(ledger)
        BY <2>7 DEF Behind
      <4> QED BY <2>5, <3>1, <4>1, <4>2
    <3> QED BY <2>5, <3>1, <3>2 DEF Behind
  <2>8. TypeInv' /\ PagesInv' /\ CommandsInv'
    <3>1. UNCHANGED <<lease, pages>> /\ commands' \subseteq commands
      BY DEF Arrive
    <3> QED BY <2>4, <2>7, <3>1 DEF IInv, TypeInv, PagesInv, CommandsInv
  <2>9. LedgerInv'
    <3>1. ledger' \in Seq(Entries')
      <4>1. \A i \in DOMAIN ledger' : ledger'[i] \in Entries'
        BY DEF Entries
      <4> QED BY <2>2, <4>1
    <3>2. Scored \notin rewound => \A i \in DOMAIN ledger' : ledger'[i].meant = i
      BY <2>1, <2>2, <2>3 DEF IInv, LedgerInv
    <3> QED BY <2>5, <3>1, <3>2 DEF LedgerInv
  <2> QED BY <2>8, <2>9 DEF IInv
<1> QED BY <1>1, <1>2 DEF Arrive

LEMMA Inductive ==
  ASSUME CenterInv, CenterInv', IInv, [Next]_vars
  PROVE  IInv'
<1> USE DEF SetPage
<1>1. CASE UNCHANGED vars
  BY <1>1 DEF vars, consoleVars, centerVars, serverVars, IInv, TypeInv, PagesInv, CommandsInv,
              LedgerInv, Behind, Entries
<1>2. CASE CenterNext /\ UNCHANGED consoleVars
  BY <1>2, CenterKeeps, StaysBehind DEF IInv, consoleVars
<1>3. ASSUME NEW c \in Consoles
      PROVE  /\ pages[c] \in Page /\ Behind(pages[c].shown.version, pages[c].shown.length)
             /\ pages[c].fetched # <<>> =>
                  Behind(Head(pages[c].fetched).version, Head(pages[c].fetched).length)
  BY DEF IInv, TypeInv, PagesInv
<1>4. Behind(row[Scored].version, Len(ledger)) /\ Listed \in State
  BY LenProperties DEF IInv, TypeInv, LedgerInv, Behind, Listed, State, Versioned, Game
<1>5. ASSUME NEW c \in Consoles, Acquire(c) \/ HeartbeatFails(c)
      PROVE  IInv'
  <2>1. PICK l \in Nat : pages' = [pages EXCEPT ![c] = [pages[c] EXCEPT !.lease = l]]
    BY <1>5 DEF Acquire, HeartbeatFails, IInv, TypeInv
  <2>2. lease' \in Nat /\ UNCHANGED <<row, rewound, ledger, commands>>
    BY <1>5 DEF Acquire, HeartbeatFails, serverVars, IInv, TypeInv
  <2> DEFINE page == [pages[c] EXCEPT !.lease = l]
  <2>3. page \in Page /\ page.shown = pages[c].shown /\ page.fetched = pages[c].fetched
    BY <1>3 DEF Page
  <2> HIDE DEF page
  <2> QED BY <1>3, <2>1, <2>2, <2>3, PageKeeps DEF page
<1>6. ASSUME NEW c \in Consoles, ListRead(c)
      PROVE  IInv'
  <2> DEFINE page == [pages[c] EXCEPT !.fetched = <<Listed>>]
  <2>1. pages' = [pages EXCEPT ![c] = page] /\ UNCHANGED <<row, rewound, ledger, lease, commands>>
    BY <1>6 DEF ListRead, centerVars, serverVars
  <2>2. page \in Page /\ page.shown = pages[c].shown /\ page.fetched = <<Listed>>
    <3>1. <<Listed>> \in Seq(State)
      BY <1>4
    <3> QED BY <1>3, <3>1, Zenon DEF Page
  <2>3. Head(page.fetched) = Listed
    BY <2>2
  <2>4. Head(page.fetched).version = row[Scored].version /\ Head(page.fetched).length = Len(ledger)
    BY <2>3 DEF Listed
  <2> HIDE DEF page
  <2> QED BY <1>3, <1>4, <2>1, <2>2, <2>4, PageKeeps DEF IInv, TypeInv
<1>7. ASSUME NEW c \in Consoles, ListShown(c)
      PROVE  IInv'
  <2> DEFINE page == [pages[c] EXCEPT !.shown = Head(pages[c].fetched), !.fetched = <<>>]
  <2>1. /\ pages' = [pages EXCEPT ![c] = page] /\ pages[c].fetched # <<>>
        /\ UNCHANGED <<row, rewound, ledger, lease, commands>>
    BY <1>7 DEF ListShown, centerVars, serverVars
  <2>2. pages[c].fetched \in Seq(State)
    BY <1>3 DEF Page
  <2>3. Head(pages[c].fetched) \in State
    BY <2>1, <2>2, HeadTailProperties
  <2>4. page \in Page /\ page.shown = Head(pages[c].fetched) /\ page.fetched = <<>>
    <3>1. <<>> \in Seq(State)
      OBVIOUS
    <3> QED BY <1>3, <2>3, <3>1 DEF Page
  <2> HIDE DEF page
  <2> QED BY <1>3, <2>1, <2>4, PageKeeps DEF IInv, TypeInv
<1>8. ASSUME NEW c \in Consoles, NEW kind \in Kinds, Settle(c, kind)
      PROVE  IInv'
  <2> DEFINE page == [pages[c] EXCEPT !.pending = @ \ {kind}]
  <2>1. pages' = [pages EXCEPT ![c] = page] /\ UNCHANGED <<row, rewound, ledger, lease, commands>>
    BY <1>8 DEF Settle, centerVars, serverVars
  <2>2. page \in Page /\ page.shown = pages[c].shown /\ page.fetched = pages[c].fetched
    BY <1>3 DEF Page
  <2> HIDE DEF page
  <2> QED BY <1>3, <2>1, <2>2, PageKeeps DEF IInv, TypeInv
<1>9. ASSUME NEW c \in Consoles, NEW kind \in Kinds, Click(c, kind)
      PROVE  IInv'
  <2> DEFINE page == [pages[c] EXCEPT !.pending = @ \cup {kind}]
  <2>1. pages' = [pages EXCEPT ![c] = page] /\ UNCHANGED <<row, rewound, ledger, lease>>
    BY <1>9 DEF Click, serverVars
  <2>2. page \in Page /\ page.shown = pages[c].shown /\ page.fetched = pages[c].fetched
    BY <1>3 DEF Page
  <2>3. ASSUME NEW k \in commands' \ commands
        PROVE  k.meant \in Nat \ {0} /\ Behind(k.expectedVersion, k.meant - 1)
    <3>1. k.expectedVersion = pages[c].shown.version /\ k.meant = pages[c].shown.length + 1
      BY <1>9 DEF Click
    <3>2. pages[c].shown.length \in Nat
      BY <1>3 DEF Behind
    <3>3. k.meant \in Nat \ {0} /\ k.meant - 1 = pages[c].shown.length
      BY <3>1, <3>2
    <3> QED BY <1>3, <3>1, <3>3
  <2> HIDE DEF page
  <2> QED BY <1>3, <2>1, <2>2, <2>3, PageKeeps DEF IInv, TypeInv
<1>10. CASE Scoring
  BY <1>5, <1>6, <1>7, <1>8, <1>9, <1>10, ArriveKeeps DEF Scoring
<1> QED BY <1>1, <1>2, <1>10 DEF Next

LEMMA InitInv == Init => IInv
<1> SUFFICES ASSUME Init PROVE IInv
  OBVIOUS
<1>1. row[Scored].version = 1 /\ ledger = <<>> /\ Len(ledger) = 0
  BY DEF Init, CenterInit
<1>2. Behind(1, 0)
  BY <1>1 DEF Behind
<1>3. [shown |-> [version |-> 1, length |-> 0], fetched |-> <<>>, lease |-> 0, pending |-> {}] \in Page
  BY DEF Page, State
<1>4. TypeInv
  BY <1>3, CenterInvInit DEF Init, CenterInv, CenterTypeOK, TypeInv
<1>5. PagesInv
  BY <1>2 DEF Init, PagesInv
<1>6. CommandsInv /\ LedgerInv
  BY <1>1 DEF Init, CommandsInv, LedgerInv, Entries
<1> QED BY <1>4, <1>5, <1>6 DEF IInv
-----------------------------------------------------------------------------
(***************************************************************************)
(* Both together.                                                          *)
(***************************************************************************)

\* Whatever the pages do, the match centre makes a step of its own or none.
LEMMA NextIsCenterStep ==
  ASSUME [Next]_vars
  PROVE  CenterStep
<1>1. CASE UNCHANGED vars
  BY <1>1 DEF vars, centerVars, CenterStep
<1>2. CASE CenterNext
  BY <1>2 DEF CenterStep
<1>3. ASSUME NEW k \in commands, Arrive(k)
      PROVE  CenterStep
  BY <1>3 DEF Arrive, centerVars, CenterStep
<1>4. ASSUME NEW c \in Consoles
      PROVE  /\ Acquire(c) \/ HeartbeatFails(c) \/ ListRead(c) \/ ListShown(c) => CenterStep
             /\ \A kind \in Kinds : Click(c, kind) \/ Settle(c, kind) => CenterStep
  BY DEF Acquire, HeartbeatFails, ListRead, ListShown, Click, Settle, centerVars, CenterStep
<1> QED BY <1>1, <1>2, <1>3, <1>4 DEF Next, Scoring

\* What TypeOK adds to the types of the match centre.
PageTypes(page, newest) ==
  /\ page.shown \in [version : 1..MaxVersion, length : Nat]
  /\ \A i \in DOMAIN page.fetched : page.fetched[i] \in [version : 1..MaxVersion, length : Nat]
  /\ page.lease \in 0..newest /\ page.pending \subseteq Kinds

ConsoleTypes ==
  /\ acts \in Nat /\ lease \in 0..acts
  /\ \A c \in Consoles : PageTypes(pages[c], lease)
  /\ \A k \in commands : k.key \in 1..acts

\* A page may change to any of its type; leases and keys are numbered with the acts.
LEMMA PageTypesKept ==
  ASSUME IInv, ConsoleTypes, NEW c \in Consoles, NEW page, pages' = [pages EXCEPT ![c] = page],
         PageTypes(page, lease'), acts' \in {acts, acts + 1}, lease' \in lease..acts',
         \A k \in commands' : k \in commands \/ (k.key = acts' /\ acts' = acts + 1)
  PROVE  ConsoleTypes'
<1>1. acts \in Nat /\ acts' \in Nat /\ lease \in Nat /\ lease' \in 0..acts' /\ lease <= lease'
  BY DEF ConsoleTypes
<1>2. \A d \in Consoles : pages'[d] = IF d = c THEN page ELSE pages[d]
  BY DEF IInv, TypeInv
<1>3. ASSUME NEW p, PageTypes(p, lease) PROVE PageTypes(p, lease')
  BY <1>1, <1>3 DEF PageTypes
<1>4. ASSUME NEW k \in commands' PROVE k.key \in 1..acts'
  BY <1>1 DEF ConsoleTypes
<1> QED BY <1>1, <1>2, <1>3, <1>4 DEF ConsoleTypes

LEMMA ConsoleTypesKept ==
  ASSUME CenterInv, IInv, ConsoleTypes, [Next]_vars
  PROVE  ConsoleTypes'
<1> USE DEF SetPage
<1>1. CASE UNCHANGED vars
  BY <1>1 DEF vars, consoleVars, centerVars, ConsoleTypes, PageTypes
<1>2. CASE CenterNext /\ UNCHANGED consoleVars
  <2>1. acts' \in {acts, acts + 1}
    BY <1>2 DEF CenterNext, Deliver, SnapshotRead, Answer, Show, JoinRead, JoinRoom, Merge, Broadcast,
                SnapshotFailed, Refresh, Disconnect, Open, Fetch, StopBeforeBroadcast, SetStatus,
                RescheduleRead, RescheduleCommit, Act
  <2> QED BY <1>2, <2>1 DEF consoleVars, ConsoleTypes, PageTypes
<1>3. ASSUME NEW k \in commands, Arrive(k)
      PROVE  ConsoleTypes'
  <2>1. UNCHANGED <<acts, lease, pages>> /\ commands' \subseteq commands
    BY <1>3 DEF Arrive, Committed, centerVars
  <2> QED BY <2>1 DEF ConsoleTypes
<1>4. acts \in Nat /\ lease \in Nat /\ lease <= acts /\ lease \in lease..acts /\ lease \in lease..(acts + 1)
      /\ lease + 1 \in lease..(acts + 1)
  BY DEF ConsoleTypes
<1>5. Listed \in [version : 1..MaxVersion, length : Nat]
  <2>1. row[Scored].version \in 1..MaxVersion
    BY DEF CenterInv, CenterTypeOK, Versioned
  <2>2. Len(ledger) \in Nat
    BY LenProperties DEF IInv, LedgerInv
  <2> QED BY <2>1, <2>2 DEF Listed
<1>6. ASSUME NEW c \in Consoles
      PROVE  pages[c] \in Page /\ PageTypes(pages[c], lease)
  BY DEF IInv, TypeInv, ConsoleTypes
<1>7. ASSUME NEW c \in Consoles, Acquire(c)
      PROVE  ConsoleTypes'
  <2> DEFINE page == [pages[c] EXCEPT !.lease = lease + 1]
  <2>1. pages' = [pages EXCEPT ![c] = page] /\ lease' = lease + 1 /\ acts' = acts + 1
        /\ UNCHANGED commands
    BY <1>7 DEF Acquire, Act
  <2>2. PageTypes(page, lease')
    BY <1>4, <1>6, <2>1 DEF PageTypes, Page
  <2> HIDE DEF page
  <2> QED BY <1>4, <2>1, <2>2, PageTypesKept
<1>8. ASSUME NEW c \in Consoles, HeartbeatFails(c)
      PROVE  ConsoleTypes'
  <2> DEFINE page == [pages[c] EXCEPT !.lease = 0]
  <2>1. pages' = [pages EXCEPT ![c] = page] /\ acts' = acts + 1 /\ UNCHANGED <<lease, commands>>
    BY <1>8 DEF HeartbeatFails, Act
  <2>2. PageTypes(page, lease')
    BY <1>4, <1>6, <2>1 DEF PageTypes, Page
  <2> HIDE DEF page
  <2> QED BY <1>4, <2>1, <2>2, PageTypesKept
<1>9. ASSUME NEW c \in Consoles, ListRead(c)
      PROVE  ConsoleTypes'
  <2> DEFINE page == [pages[c] EXCEPT !.fetched = <<Listed>>]
  <2>1. pages' = [pages EXCEPT ![c] = page] /\ UNCHANGED <<acts, lease, commands>>
    BY <1>9 DEF ListRead, centerVars
  <2>2. page.shown = pages[c].shown /\ page.fetched = <<Listed>> /\ page.lease = pages[c].lease
        /\ page.pending = pages[c].pending
    BY <1>6 DEF Page
  <2>3. PageTypes(page, lease')
    BY <1>5, <1>6, <2>1, <2>2 DEF PageTypes
  <2> HIDE DEF page
  <2> QED BY <1>4, <2>1, <2>3, PageTypesKept
<1>10. ASSUME NEW c \in Consoles, ListShown(c)
      PROVE  ConsoleTypes'
  <2> DEFINE page == [pages[c] EXCEPT !.shown = Head(pages[c].fetched), !.fetched = <<>>]
  <2>1. /\ pages' = [pages EXCEPT ![c] = page] /\ UNCHANGED <<acts, lease, commands>>
        /\ pages[c].fetched # <<>>
    BY <1>10 DEF ListShown, centerVars
  <2>2. page.shown = Head(pages[c].fetched) /\ page.fetched = <<>> /\ page.lease = pages[c].lease
        /\ page.pending = pages[c].pending
    BY <1>6 DEF Page
  <2>3. pages[c].fetched \in Seq(State)
    BY <1>6 DEF Page
  <2>4. Head(pages[c].fetched) = pages[c].fetched[1] /\ 1 \in DOMAIN pages[c].fetched
    BY <2>1, <2>3, HeadTailProperties, LenProperties
  <2>5. PageTypes(page, lease')
    BY <1>6, <2>1, <2>2, <2>4 DEF PageTypes
  <2> HIDE DEF page
  <2> QED BY <1>4, <2>1, <2>5, PageTypesKept
<1>11. ASSUME NEW c \in Consoles, NEW kind \in Kinds, Settle(c, kind)
      PROVE  ConsoleTypes'
  <2> DEFINE page == [pages[c] EXCEPT !.pending = @ \ {kind}]
  <2>1. pages' = [pages EXCEPT ![c] = page] /\ UNCHANGED <<acts, lease, commands>>
    BY <1>11 DEF Settle, centerVars
  <2>2. PageTypes(page, lease')
    BY <1>6, <2>1 DEF PageTypes, Page
  <2> HIDE DEF page
  <2> QED BY <1>4, <2>1, <2>2, PageTypesKept
<1>12. ASSUME NEW c \in Consoles, NEW kind \in Kinds, Click(c, kind)
      PROVE  ConsoleTypes'
  <2> DEFINE page == [pages[c] EXCEPT !.pending = @ \cup {kind}]
  <2>1. pages' = [pages EXCEPT ![c] = page] /\ acts' = acts + 1 /\ UNCHANGED lease
    BY <1>12 DEF Click, Act
  <2>2. \A k \in commands' : k \in commands \/ k.key = acts'
    BY <1>12 DEF Click
  <2>3. PageTypes(page, lease')
    BY <1>6, <2>1 DEF PageTypes, Page
  <2> HIDE DEF page
  <2> QED BY <1>4, <2>1, <2>2, <2>3, PageTypesKept
<1> QED BY <1>1, <1>2, <1>3, <1>7, <1>8, <1>9, <1>10, <1>11, <1>12 DEF Next, Scoring

LEMMA ConsoleTypesInit == Init => ConsoleTypes
<1> SUFFICES ASSUME Init PROVE ConsoleTypes
  OBVIOUS
<1> DEFINE page == [shown |-> [version |-> 1, length |-> 0], fetched |-> <<>>, lease |-> 0, pending |-> {}]
<1>1. PageTypes(page, 0)
  BY MatchCenterAssumption DEF PageTypes
<1> HIDE DEF page
<1> QED BY <1>1 DEF Init, CenterInit, ConsoleTypes, page

AllInv == CenterInv /\ IInv /\ ConsoleTypes

LEMMA AllInvariant == Spec => []AllInv
<1>1. Init => AllInv
  BY CenterInvInit, InitInv, ConsoleTypesInit DEF Init, AllInv
<1>2. AllInv /\ [Next]_vars => AllInv'
  BY NextIsCenterStep, CenterInductive, Inductive, ConsoleTypesKept DEF AllInv
<1> QED BY <1>1, <1>2, PTL DEF Spec

\* Everything keeps its type: a page never holds a lease that was not given out, and no
\* screen or socket a version that its game has not had.
THEOREM ClientsTyped == Spec => []TypeOK
<1>1. AllInv => TypeOK
  BY DEF AllInv, CenterInv, ConsoleTypes, PageTypes, TypeOK
<1> QED BY <1>1, AllInvariant, PTL

\* The screen never goes back to an older score before it has strayed, whatever overtakes
\* what (live_game_service.dart: _merge and seed; providers.dart: liveGameProvider).
THEOREM ScreenNeverFallsBack == Spec => []ShownNeverFalls
<1>1. AllInv => ShownNeverFalls
  BY CenterSound DEF AllInv
<1> QED BY <1>1, AllInvariant, PTL

\* Nothing is lost in the room between the snapshot of the join and the announcements:
\* who has read everything and missed none shows the game as it is
\* (live-scoring.gateway.ts: joinGame; live_game_service.dart: _merge).
THEOREM RoomUpToDate == Spec => []InRoomUpToDate
<1>1. AllInv => InRoomUpToDate
  BY CenterSound DEF AllInv
<1> QED BY <1>1, AllInvariant, PTL

\* Nothing is counted twice on any number of pages: a click that repeats another one,
\* whose answer was lost or is still awaited, asks for a version that has passed, unless
\* a reschedule has put the version back (live-scoring/page.tsx:96-145,
\* live-scoring.service.ts:64, games.service.ts:256-265).
THEOREM NeverCountedTwice == Spec => []CountedOnce
<1>1. AllInv => CountedOnce
  BY DEF AllInv, IInv, LedgerInv, CountedOnce
<1> QED BY <1>1, AllInvariant, PTL
=============================================================================
