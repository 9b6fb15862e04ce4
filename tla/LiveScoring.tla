----------------------------- MODULE LiveScoring -----------------------------
(***************************************************************************)
(* One game while it is scored: live-scoring.service.ts, score-state.ts    *)
(* and the game operations of games.service.ts that change the same rows,  *)
(* over the lease of ScoringLease.                                         *)
(*                                                                         *)
(* applyScoreCommand, transition and setStatus are SERIALIZABLE: each is   *)
(* one action, and a refused or aborted transaction is a stuttering step.  *)
(* reschedule runs READ COMMITTED and updates the game by id alone: it is  *)
(* two actions, with every other operation allowed in between.             *)
(*                                                                         *)
(* Clients are not constrained: any command may arrive at any time, any    *)
(* number of times.  Idempotency keys are UUIDs, only compared for         *)
(* equality, so they are named by small numbers: a request carries a key   *)
(* that is committed (a repeat), one in flight, or the first unused one.   *)
(***************************************************************************)
EXTENDS ScoringLease, Integers, FiniteSets, Functions

CONSTANTS
  RegulationPeriods,  \* Game.regulationPeriods
  MaxPeriod,          \* bound of the model: the largest period (the schema's is 32)
  ScoreTypes,         \* the kinds of score command clients send
  StatusChanges,      \* the statuses organizers set by hand
  ForfeitFor,         \* the rule set's forfeit score of the winner
  ForfeitAgainst,     \* and of the loser
  Reschedulers,       \* reschedule requests that may be in flight at once
  Elevations,         \* values of transition()'s parameter `elevated`
  MaxEvents,          \* bound of the model: committed score events
  MaxTransitions      \* bound of the model: committed state transitions

ASSUME LiveScoringAssumption ==
  /\ RegulationPeriods \in Nat \ {0}
  /\ MaxPeriod \in Nat /\ MaxPeriod >= RegulationPeriods
  /\ ScoreTypes \subseteq {"ADD_ONE", "ADD_TWO", "ADD_THREE", "TIMEOUT", "NOTE", "CORRECTION"}
  /\ StatusChanges \subseteq {"POSTPONED", "CANCELLED", "ABANDONED", "FORFEITED"}
  /\ ForfeitFor \in Nat /\ ForfeitAgainst \in Nat
  /\ Elevations \subseteq BOOLEAN
  /\ MaxEvents \in Nat /\ MaxTransitions \in Nat

Teams == {"home", "away"}
NoTeam == "none"
Periods == 1..MaxPeriod

\* GameStatus.  A DRAFT game waits for its teams in a bracket and is never scored:
\* no operation here leads into or out of that status (see Stage).
Statuses ==
  {"DRAFT", "SCHEDULED", "LIVE", "PAUSED", "FINAL", "POSTPONED", "CANCELLED", "ABANDONED",
   "FORFEITED"}

TransitionTypes ==
  {"GAME_STARTED", "PERIOD_STARTED", "PERIOD_PAUSED", "PERIOD_ENDED", "OVERTIME_STARTED",
   "GAME_ENDED", "GAME_FINALIZED", "GAME_REOPENED"}

VARIABLES
  status, version, currentPeriod, score, lastEventSequence, forfeitWinner,  \* the Game row
  periods,        \* GamePeriod rows
  events,         \* GameScoreEvent rows, in order of commit
  transitions,    \* GameStateTransition rows, in order of commit
  outbox,         \* OutboxEvent rows about the game, in order of commit
  rescheduling    \* what each reschedule in flight has read

gameVars == <<status, version, currentPeriod, score, lastEventSequence, forfeitWinner, periods,
              events, transitions, outbox, rescheduling>>
vars == <<leaseVars, gameVars>>

\* Rows carry the columns the properties need, and one that is no column: the
\* version that the command expected.
Event == [key : Nat, sequence : Nat, expectedVersion : Nat, resultingGameVersion : Nat,
          period : Nat, session : Nat,
          type : ScoreTypes, team : Teams \cup {NoTeam}, pointsDelta : Int, correctionOf : Nat]
StateTransition == [key : Nat, type : TransitionTypes \cup {"STATUS_CHANGED"},
                    expectedVersion : Nat, resultingGameVersion : Nat, from : Statuses, to : Statuses]
Period == [phase : {"absent", "started", "ended"}, score : [Teams -> Nat]]
Messages ==
  {"game.score-updated", "game.state-updated", "game.finalized", "game.schedule-changed",
   "game.postponed", "game.cancelled", "game.abandoned", "game.forfeited"}
Idle == [key |-> 0, version |-> 0, status |-> "SCHEDULED"]

TypeOK ==
  /\ LeaseTypeOK
  /\ status \in Statuses
  /\ version \in Nat /\ currentPeriod \in Nat /\ lastEventSequence \in Nat
  /\ score \in [Teams -> Nat]
  /\ forfeitWinner \in Teams \cup {NoTeam}
  /\ periods \in [Periods -> Period]
  /\ events \in Seq(Event)
  /\ transitions \in Seq(StateTransition)
  /\ outbox \in Seq(Messages)
  /\ rescheduling \in [Reschedulers -> [key : Nat, version : Nat, status : Statuses]]

\* createFixture: a SCHEDULED game with the schema's defaults.
Init ==
  /\ LeaseInit
  /\ status = "SCHEDULED"
  /\ version = 0 /\ currentPeriod = 0 /\ lastEventSequence = 0
  /\ score = [t \in Teams |-> 0]
  /\ forfeitWinner = NoTeam
  /\ periods = [p \in Periods |-> [phase |-> "absent", score |-> [t \in Teams |-> 0]]]
  /\ events = <<>> /\ transitions = <<>> /\ outbox = <<>>
  /\ rescheduling = [r \in Reschedulers |-> Idle]

EventKeys == {events[i].key : i \in DOMAIN events}

TransitionKeys == {transitions[i].key : i \in DOMAIN transitions}
-----------------------------------------------------------------------------
\* Score commands.

\* pointsFor, for every type but CORRECTION.
Points == [ADD_ONE |-> 1, ADD_TWO |-> 2, ADD_THREE |-> 3, TIMEOUT |-> 0, NOTE |-> 0]

\* Variant: the version a command expects is not compared.
ScorableAtAnyVersion(k, u, s, v, p) ==
  /\ k \notin EventKeys
  /\ AssertValid(s, u)
  /\ assignment[u] # "none"
  /\ status = "LIVE"
  /\ currentPeriod = p

\* Variant: a paused game may be scored.
ScorableWhenPaused(k, u, s, v, p) ==
  /\ k \notin EventKeys
  /\ AssertValid(s, u)
  /\ assignment[u] # "none"
  /\ status \in {"LIVE", "PAUSED"}
  /\ version = v
  /\ currentPeriod = p

\* The checks every score command passes before its points are computed.
Scorable(k, u, s, v, p) ==
  /\ k \notin EventKeys
  /\ AssertValid(s, u)
  /\ assignment[u] # "none"
  /\ status = "LIVE"
  /\ version = v
  /\ currentPeriod = p

Added(total, team, delta) ==
  [t \in Teams |-> IF t = team THEN total[t] + delta ELSE total[t]]

\* Variant: a correction leaves the total of the period alone.
BookBaskets(p, team, delta) ==
  /\ score' = Added(score, team, delta)
  /\ periods' = [periods EXCEPT ![p].score = IF delta > 0 THEN Added(@, team, delta) ELSE @]

\* The points go to the totals and to the period named by the command.
Book(p, team, delta) ==
  /\ score' = Added(score, team, delta)
  /\ periods' = [periods EXCEPT ![p].score = Added(@, team, delta)]

\* The database refuses a negative total of the game or of the period.
RecordEvent(k, s, v, p, type, team, delta, target) ==
  /\ Len(events) < MaxEvents
  /\ Book(p, team, delta)
  /\ \A t \in Teams : score'[t] >= 0 /\ periods'[p].score[t] >= 0
  /\ version' = version + 1
  /\ lastEventSequence' = lastEventSequence + 1
  /\ events' = Append(events, [key |-> k, sequence |-> lastEventSequence + 1,
                               expectedVersion |-> v, resultingGameVersion |-> version + 1,
                               period |-> p, session |-> s, type |-> type, team |-> team,
                               pointsDelta |-> delta, correctionOf |-> target])
  /\ outbox' = Append(outbox, "game.score-updated")
  /\ UNCHANGED <<leaseVars, status, currentPeriod, forfeitWinner, transitions, rescheduling>>

\* A command without points carries no team into the event.
ScorePoints(k, u, s, v, p, type, team) ==
  /\ type \in ScoreTypes \ {"CORRECTION"}
  /\ Scorable(k, u, s, v, p)
  /\ RecordEvent(k, s, v, p, type, IF Points[type] = 0 THEN NoTeam ELSE team, Points[type], 0)

\* Variant: an event that is corrected already is not refused.
CorrectableAgain(target) == target \in DOMAIN events /\ events[target].pointsDelta > 0

\* Only a positive event that nothing corrects yet can be corrected.
Correctable(target) ==
  /\ target \in DOMAIN events
  /\ events[target].pointsDelta > 0
  /\ \A i \in DOMAIN events : events[i].correctionOf # target

ScoreCorrection(k, u, s, v, p, target) ==
  /\ "CORRECTION" \in ScoreTypes
  /\ Scorable(k, u, s, v, p)
  /\ Correctable(target)
  /\ RecordEvent(k, s, v, p, "CORRECTION", events[target].team, -events[target].pointsDelta,
                 target)
-----------------------------------------------------------------------------
\* State transitions.

\* Variant: only a game that has not begun is not in progress.
NotScheduled == status # "SCHEDULED"
InProgress == status \in {"LIVE", "PAUSED"}

\* nextTransition; p = 0 stands for a command without a period.
NextTransition(type, p, elevated) ==
  CASE type = "GAME_STARTED"     -> status = "SCHEDULED"
    [] type = "PERIOD_STARTED"   -> InProgress /\ p \in 1..RegulationPeriods
    [] type = "PERIOD_PAUSED"    -> status = "LIVE"
    [] type = "PERIOD_ENDED"     -> status = "LIVE" /\ p = currentPeriod
    [] type = "OVERTIME_STARTED" -> /\ InProgress
                                    /\ (IF p = 0 THEN currentPeriod + 1 ELSE p) > RegulationPeriods
                                    /\ score["home"] = score["away"]
    [] type \in {"GAME_ENDED", "GAME_FINALIZED"} -> InProgress
    [] type = "GAME_REOPENED"    -> elevated /\ status = "FINAL"

Starts == {"GAME_STARTED", "PERIOD_STARTED", "OVERTIME_STARTED"}

\* Variant: the end of a period leaves the game live.
NextStatusPlaysOn(type) ==
  CASE type \in Starts \cup {"PERIOD_ENDED"} -> "LIVE"
    [] type = "GAME_FINALIZED"             -> "FINAL"
    [] OTHER                               -> "PAUSED"

\* Variant: finalization writes the name of the command, which is no status.
NextStatusMisnamed(type) ==
  CASE type \in Starts           -> "LIVE"
    [] type = "GAME_FINALIZED"   -> "FINALIZED"
    [] OTHER                     -> "PAUSED"

NextStatus(type) ==
  CASE type \in Starts           -> "LIVE"
    [] type = "GAME_FINALIZED"   -> "FINAL"
    [] OTHER                     -> "PAUSED"

NextPeriod(type, p) ==
  CASE type = "GAME_STARTED"     -> 1
    [] type = "PERIOD_STARTED"   -> p
    [] type = "OVERTIME_STARTED" -> IF p = 0 THEN currentPeriod + 1 ELSE p
    [] OTHER                     -> currentPeriod

\* Variant: the end of the game is announced, its finalization is not.
AnnounceEnd(type) == IF type = "GAME_ENDED" THEN "game.finalized" ELSE "game.state-updated"
TransitionAnnouncement(type) ==
  IF type = "GAME_FINALIZED" THEN "game.finalized" ELSE "game.state-updated"

RecordTransition(k, type, v, read, from, to, announcement) ==
  /\ Len(transitions) < MaxTransitions
  /\ transitions' = Append(transitions, [key |-> k, type |-> type, expectedVersion |-> v,
                                         resultingGameVersion |-> read + 1,
                                         from |-> from, to |-> to])
  /\ outbox' = Append(outbox, announcement)

Transition(k, u, s, v, type, p, elevated) ==
  LET period == NextPeriod(type, p)
  IN
  /\ k \notin TransitionKeys
  /\ elevated \/ AssertValid(s, u)
  /\ version = v
  /\ NextTransition(type, p, elevated)
  /\ period <= MaxPeriod
  /\ status' = NextStatus(type)
  /\ currentPeriod' = period
  /\ version' = version + 1
  /\ periods' = CASE type \in Starts         -> [periods EXCEPT ![period].phase = "started"]
                  [] type = "PERIOD_ENDED"   -> [periods EXCEPT ![period].phase = "ended"]
                  [] OTHER                   -> periods
  /\ RecordTransition(k, type, v, version, status, NextStatus(type),
                      TransitionAnnouncement(type))
  /\ UNCHANGED <<leaseVars, score, lastEventSequence, forfeitWinner, events, rescheduling>>
-----------------------------------------------------------------------------
\* Game management.

Announcement == [POSTPONED |-> "game.postponed", CANCELLED |-> "game.cancelled",
                 ABANDONED |-> "game.abandoned", FORFEITED |-> "game.forfeited"]

\* setStatus: any status but FINAL may be overwritten; a forfeit also
\* overwrites the score.
SetStatus(k, v, new, winner) ==
  /\ k \notin TransitionKeys
  /\ version = v
  /\ status # "FINAL"
  /\ status' = new
  /\ version' = version + 1
  /\ IF new = "FORFEITED"
     THEN /\ forfeitWinner' = winner
          /\ score' = [t \in Teams |-> IF t = winner THEN ForfeitFor ELSE ForfeitAgainst]
     ELSE UNCHANGED <<forfeitWinner, score>>
  /\ RecordTransition(k, "STATUS_CHANGED", v, version, status, new, Announcement[new])
  /\ UNCHANGED <<leaseVars, currentPeriod, lastEventSequence, periods, events, rescheduling>>

\* reschedule reads the game ...
RescheduleRead(r, k, v) ==
  /\ rescheduling[r] = Idle
  /\ k \notin TransitionKeys
  /\ version = v
  /\ status \notin {"LIVE", "FINAL"}
  /\ rescheduling' = [rescheduling EXCEPT ![r] = [key |-> k, version |-> version,
                                                  status |-> status]]
  /\ UNCHANGED <<leaseVars, status, version, currentPeriod, score, lastEventSequence,
                 forfeitWinner, periods, events, transitions, outbox>>

\* ... and updates it by id with a version computed from what was read.  The
\* unique key of its transition row aborts a repeat that has lost the race.
RescheduleCommit(r) ==
  LET read == rescheduling[r]
  IN
  /\ read # Idle
  /\ read.key \notin TransitionKeys
  /\ version' = read.version + 1
  /\ RecordTransition(read.key, "STATUS_CHANGED", read.version, read.version, read.status,
                      read.status, "game.schedule-changed")
  /\ rescheduling' = [rescheduling EXCEPT ![r] = Idle]
  /\ UNCHANGED <<leaseVars, status, currentPeriod, score, lastEventSequence, forfeitWinner,
                 periods, events>>

\* The transaction is rolled back: its key is taken, or the server stops.
RescheduleAbort(r) ==
  /\ rescheduling[r] # Idle
  /\ rescheduling' = [rescheduling EXCEPT ![r] = Idle]
  /\ UNCHANGED <<leaseVars, status, version, currentPeriod, score, lastEventSequence,
                 forfeitWinner, periods, events, transitions, outbox>>
-----------------------------------------------------------------------------
\* acquire also refuses a stale game version and a game that cannot be scored.
AcquireLease(u, v) ==
  /\ version = v
  /\ status \in {"SCHEDULED", "LIVE", "PAUSED"}
  /\ Acquire(u)
  /\ UNCHANGED gameVars

\* A client knows the current version or an older one; all older ones are
\* refused alike.
KnownVersions == (version - 1)..version

\* The keys a request to either table may carry: one that is committed, those in
\* flight, and an unused one.
InFlight == Cardinality({r \in Reschedulers : rescheduling[r] # Idle})
ScoreKeys == Len(events)..(Len(events) + 1) \ {0}
RequestKeys == Len(transitions)..(Len(transitions) + 1 + InFlight) \ {0}

ScoreStep ==
  \E k \in ScoreKeys, u \in Scorekeepers, s \in DOMAIN leases, v \in KnownVersions,
     p \in Periods :
    \/ \E type \in ScoreTypes, team \in Teams : ScorePoints(k, u, s, v, p, type, team)
    \/ \E target \in DOMAIN events : ScoreCorrection(k, u, s, v, p, target)

TransitionStep ==
  \E k \in RequestKeys, u \in Scorekeepers, s \in 0..Len(leases),
     v \in KnownVersions, type \in TransitionTypes, p \in 0..MaxPeriod, elevated \in Elevations :
    Transition(k, u, s, v, type, p, elevated)

ManagementStep ==
  \/ \E k \in RequestKeys, v \in KnownVersions :
       \/ \E new \in StatusChanges, winner \in Teams : SetStatus(k, v, new, winner)
       \/ \E r \in Reschedulers : RescheduleRead(r, k, v)
  \/ \E r \in Reschedulers : RescheduleCommit(r) \/ RescheduleAbort(r)

LeaseStep ==
  \/ \E u \in Scorekeepers, v \in KnownVersions : AcquireLease(u, v)
  \/ LeaseUpkeep /\ UNCHANGED gameVars

Next == ScoreStep \/ TransitionStep \/ ManagementStep \/ LeaseStep

Spec == Init /\ [][Next]_vars
-----------------------------------------------------------------------------
\* What every run checks.

EventsOf(t) == {i \in DOMAIN events : events[i].team = t}
Recorded(t) == SumFunctionOnSet([i \in DOMAIN events |-> events[i].pointsDelta], EventsOf(t))
Booked(t) == SumFunction([p \in Periods |-> periods[p].score[t]])

\* The score shown to everybody is what the append-only ledger says: for each
\* team the total of its events, corrections included, and also the total of
\* its periods; only a forfeit replaces it.  Every command adds to these rows on
\* its own, and a correction books its points in the period it is sent in.
ScoreMatchesLedger ==
  \A t \in Teams :
    /\ Recorded(t) = Booked(t)
    /\ forfeitWinner = NoTeam => score[t] = Recorded(t)

\* A correction takes back exactly one earlier basket of the same team, and no
\* basket is taken back twice, however many corrections race or are repeated.
CorrectionsUndoOnce ==
  \A i \in DOMAIN events :
    events[i].type = "CORRECTION" =>
      LET target == events[i].correctionOf
      IN
      /\ target \in 1..(i - 1)
      /\ events[target].type # "CORRECTION"
      /\ events[target].team = events[i].team
      /\ events[target].pointsDelta + events[i].pointsDelta = 0
      /\ \A j \in DOMAIN events : events[j].correctionOf = target => j = i

\* While a game is live its current period is one that was started and not
\* ended: no basket can be booked in a closed period or one without a row.
LiveInOpenPeriod ==
  status = "LIVE" => currentPeriod \in Periods /\ periods[currentPeriod].phase = "started"

\* Two scorekeepers' commands never interleave: once a later scoring session
\* has recorded an event, no earlier session records another one, in spite of
\* expiry, takeover and heartbeats that arrive late.
WritersDoNotInterleave ==
  \A i, j \in DOMAIN events : i <= j => events[i].session <= events[j].session

\* An official result is final: score, winner, periods and events of a FINAL
\* game never change, and only an elevated caller reopens it.
FinalResultStands ==
  [][status = "FINAL" =>
       /\ UNCHANGED <<score, forfeitWinner, periods, events, currentPeriod>>
       /\ status' = "FINAL" \/ (TRUE \in Elevations /\ status' = "PAUSED")]_vars

\* Standings are recalculated by the worker on game.finalized and
\* game.forfeited only.  When a game has an official result, such a message was
\* enqueued after the last change of its score.
OfficialResultAnnounced ==
  status \in {"FINAL", "FORFEITED"} =>
    \E i \in DOMAIN outbox :
      /\ outbox[i] \in {"game.finalized", "game.forfeited"}
      /\ \A j \in i..Len(outbox) : outbox[j] # "game.score-updated"

\* Of two commands that expected the same version of the game, score commands,
\* transitions or status changes, one is refused: nothing is recorded on top of a
\* state its sender has not seen.
OneCommandPerVersion ==
  /\ \A i, j \in DOMAIN events :
       events[i].expectedVersion = events[j].expectedVersion => i = j
  /\ \A i, j \in DOMAIN transitions :
       transitions[i].expectedVersion = transitions[j].expectedVersion => i = j
  /\ \A i \in DOMAIN events, j \in DOMAIN transitions :
       events[i].expectedVersion # transitions[j].expectedVersion
-----------------------------------------------------------------------------
\* What the game promises its readers, which it keeps while no reschedule runs.
Counted ==
  {[at |-> events[i].resultingGameVersion, team |-> events[i].team,
    points |-> events[i].pointsDelta] : i \in {j \in DOMAIN events : Correctable(j)}}

Phase ==
  CASE status \in {"DRAFT", "SCHEDULED", "PAUSED"} -> "pending"
    [] status = "LIVE"                             -> "live"
    [] status = "FINAL"                            -> "official"
    [] status = "FORFEITED"                        -> "awarded"
    [] OTHER                                       -> "withdrawn"

Ledger ==
  INSTANCE GameLedger WITH
    baskets <- Counted, tally <- score, phase <- Phase, version <- version,
    Awards <- {[t \in Teams |-> IF t = w THEN ForfeitFor ELSE ForfeitAgainst] : w \in Teams},
    Reopenable <- TRUE \in Elevations

\* The game implements its ledger: see GameLedger.
KeepsLedger == Ledger!Spec
=============================================================================
