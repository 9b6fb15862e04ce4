---------------------------- MODULE ScoringConsole ----------------------------
(***************************************************************************)
(* The scorekeepers' page (admin-web live-scoring/page.tsx) in front of    *)
(* the commands of LiveScoring, and the fans' screens of MatchCenter       *)
(* behind them.                                                            *)
(*                                                                         *)
(* Every click is a command with a new key, so the key does not recognize  *)
(* a click that repeats one whose answer was lost.  What keeps it from     *)
(* being counted again is the version the page has shown.                  *)
(***************************************************************************)
EXTENDS MatchCenter

CONSTANTS
  Scored,       \* the game that is scored
  Consoles      \* pages that have the game open

ASSUME ScoringConsoleAssumption == Scored \in Games

NoTarget == 0
Kinds == {"score", "correction", "transition"}

VARIABLES
  ledger,       \* committed commands of live scoring, in order
  lease,        \* the number of the newest lease, 0 before the first
  pages,        \* each console: the list it shows, its lease, the kinds of its pending commands
  commands      \* commands on their way to the server

consoleVars == <<ledger, lease, pages, commands>>
vars == <<centerVars, consoleVars>>

\* scoringGames: the version and the ledger as the list shows them.
Listed == [version |-> row[Scored].version, length |-> Len(ledger)]

Init ==
  /\ CenterInit
  /\ ledger = <<>>
  /\ lease = 0
  /\ pages = [c \in Consoles |-> [shown |-> [version |-> 1, length |-> 0], fetched |-> <<>>,
                                  lease |-> 0, pending |-> {}]]
  /\ commands = {}
-----------------------------------------------------------------------------
SetPage(c, page) == pages' = [pages EXCEPT ![c] = page]

\* Acquiring control revokes the lease of the other page.
Acquire(c) ==
  /\ Act
  /\ lease' = lease + 1
  /\ SetPage(c, [pages[c] EXCEPT !.lease = lease + 1])
  /\ UNCHANGED <<serverVars, appVars, missed, ledger, commands>>

\* A heartbeat fails, because the lease is lost or the network is: the page lets go.
HeartbeatFails(c) ==
  /\ Act
  /\ pages[c].lease # 0
  /\ SetPage(c, [pages[c] EXCEPT !.lease = 0])
  /\ UNCHANGED <<serverVars, appVars, missed, ledger, lease, commands>>

\* The query of the list is answered, after a command or when the user reloads:
\* what it has read is shown later.  An answer that shows nothing new is left out.
ListRead(c) ==
  /\ pages[c].fetched = <<>> /\ pages[c].shown # Listed
  /\ SetPage(c, [pages[c] EXCEPT !.fetched = <<Listed>>])
  /\ UNCHANGED <<centerVars, ledger, lease, commands>>

ListShown(c) ==
  /\ pages[c].fetched # <<>>
  /\ SetPage(c, [pages[c] EXCEPT !.shown = Head(pages[c].fetched), !.fetched = <<>>])
  /\ UNCHANGED <<centerVars, ledger, lease, commands>>

\* The page offers the newest basket of its list for a correction, corrected or not.
Latest(length) ==
  LET baskets == {i \in 1..length : ledger[i].kind = "score"}
  IN  IF baskets = {} THEN NoTarget ELSE CHOOSE i \in baskets : \A j \in baskets : j <= i

\* Buttons that are enabled: with control, one command of a kind at a time, and a
\* correction if there is a basket.
Offered(page, kind) ==
  /\ page.lease # 0 /\ kind \notin page.pending
  /\ kind = "correction" => Latest(page.shown.length) # NoTarget

\* A click: the command is about what comes after the state that the page shows.
Click(c, kind) ==
  LET page == pages[c]
      target == IF kind = "correction" THEN Latest(page.shown.length) ELSE NoTarget
  IN
  /\ Act
  /\ Offered(page, kind)
  /\ commands' = commands \cup
       {[key |-> acts', kind |-> kind, lease |-> page.lease, target |-> target,
         expectedVersion |-> page.shown.version, meant |-> page.shown.length + 1]}
  /\ SetPage(c, [page EXCEPT !.pending = @ \cup {kind}])
  /\ UNCHANGED <<serverVars, appVars, missed, ledger, lease>>

\* Variant: the key alone tells a repeated command from a new one.
AcceptableByKey(k) ==
  /\ k.lease = lease
  /\ \A i \in DOMAIN ledger : ledger[i].key # k.key
  /\ \A i \in DOMAIN ledger : k.target # NoTarget => ledger[i].target # k.target

\* The server's checks, as LiveScoring has them in full.
Acceptable(k) ==
  /\ k.lease = lease
  /\ k.expectedVersion = row[Scored].version
  /\ \A i \in DOMAIN ledger : ledger[i].key # k.key
  /\ \A i \in DOMAIN ledger : k.target # NoTarget => ledger[i].target # k.target

\* A command arrives, however late; its transaction commits or refuses it.
Arrive(k) ==
  /\ commands' = commands \ {k}
  /\ \/ /\ Acceptable(k)
        /\ Committed(Scored)
        /\ ledger' = Append(ledger, [key |-> k.key, kind |-> k.kind,
                                     target |-> k.target, meant |-> k.meant])
     \/ /\ ~Acceptable(k)
        /\ UNCHANGED <<centerVars, ledger>>
  /\ UNCHANGED <<lease, pages>>

\* A mutation of the page settles: with the server's answer, or with an error while the
\* command may still be on its way.
Settle(c, kind) ==
  /\ kind \in pages[c].pending
  /\ SetPage(c, [pages[c] EXCEPT !.pending = @ \ {kind}])
  /\ UNCHANGED <<centerVars, ledger, lease, commands>>
-----------------------------------------------------------------------------
Scoring ==
  \/ \E c \in Consoles :
       \/ Acquire(c) \/ HeartbeatFails(c) \/ ListRead(c) \/ ListShown(c)
       \/ \E kind \in Kinds : Click(c, kind) \/ Settle(c, kind)
  \/ \E k \in commands : Arrive(k)

Next == (CenterNext /\ UNCHANGED consoleVars) \/ Scoring

\* The server broadcasts and answers, and the app handles what arrives.
Fairness == WF_vars(Deliver /\ UNCHANGED consoleVars)

Spec == Init /\ [][Next]_vars /\ Fairness
-----------------------------------------------------------------------------
TypeOK ==
  /\ CenterTypeOK
  /\ lease \in 0..acts
  /\ \A c \in Consoles :
       /\ pages[c].shown \in [version : 1..MaxVersion, length : Nat]
       /\ \A i \in DOMAIN pages[c].fetched :
            pages[c].fetched[i] \in [version : 1..MaxVersion, length : Nat]
       /\ pages[c].lease \in 0..lease /\ pages[c].pending \subseteq Kinds
  /\ \A k \in commands : k.key \in 1..acts

\* Nothing is counted twice: a scorekeeper who clicks again, because an answer was lost
\* or the page still shows the old score, never gets two entries for what was meant once,
\* whichever of the commands arrives, and whoever else writes in between, as long as no
\* reschedule puts the game back to a version at which the click would be right again.
CountedOnce ==
  Scored \notin rewound =>
    \A i, j \in DOMAIN ledger : ledger[i].meant = ledger[j].meant => i = j
=============================================================================
